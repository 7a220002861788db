----------------------------- MODULE CodexAuth -----------------------------
(***************************************************************************)
(* internal/provider/codex.go: CodexReader.Read and the login it borrows.  *)
(*                                                                         *)
(* ~/.codex/auth.json belongs to the Codex CLI.  A read loads the whole    *)
(* document, refreshes its access token when that is missing, about to     *)
(* expire or rejected, and writes the document back with the new pair.     *)
(* An endpoint that rotates accepts a refresh token once.  The CLI logs    *)
(* in, logs out and refreshes on its own at any moment, the process can    *)
(* die at any moment, and an answer can be lost after the endpoint has     *)
(* rotated.                                                                *)
(*                                                                         *)
(* A login is a number, a refresh token the number of rotations behind it. *)
(* One read runs at a time (ReaderCache).                                  *)
(***************************************************************************)
EXTENDS Integers, Sequences

CONSTANTS
    MaxLogins,  \* bound: logins the CLI makes
    MaxTokens   \* bound: refresh tokens per login

\* What is assumed of the constants; the module that gives them values ASSUMEs it.
CodexAssumption ==
    /\ MaxLogins \in Nat \ {0}
    /\ MaxTokens \in Nat \ {0}

Logins == 1..MaxLogins

VARIABLES
    file,     \* auth.json
    live,     \* live[l]: the refresh token the endpoint accepts for login l
    used,     \* logins made so far
    calm,     \* from now on everybody leaves everything alone and answers
    rotating, \* the endpoint replaces a refresh token when it is used
    pc,       \* where Read stands
    doc,      \* the document in memory
    tried,    \* the one retry after a rejection has been spent
    rows,     \* the sessions and logs hold a rate-limit event
    card,     \* what the last read returned
    spoiled   \* history: logins whose newest refresh token is in no file,
              \* because a save failed, an answer was lost or the process died

outside == <<live, used, calm, rotating, rows>>
reading == <<pc, doc, tried, card>>
vars    == <<file, outside, reading, spoiled>>

-----------------------------------------------------------------------------
(* Data *)

\* An access token is fresh, seen to expire within five minutes or missing
\* ("old"), or rejected although nothing in it says so.
Health == {"fresh", "old", "rejected"}

\* Refresh token 0 is none: codexAuthFields finds nothing to refresh with.
Doc(login, refresh, health) ==
    [kind |-> "tokens", login |-> login, refresh |-> refresh, health |-> health]
NoDoc(kind) == [kind |-> kind, login |-> 1, refresh |-> 0, health |-> "old"]
Docs  == [kind : {"tokens"}, login : Logins, refresh : 0..MaxTokens, health : Health]
Files == Docs \cup {NoDoc("missing"), NoDoc("unreadable")}

\* What a read returns: live rows of the wham API with the local rows filled
\* in, local rows alone, a request to sign in, an error, or no card.
Cards == {"live", "local", "needs_auth", "error", "none"}

\* Read after tryWham: local rows stand in for whatever the API did not give.
Return(outcome) ==
    /\ card' = IF outcome # "live" /\ rows THEN "local" ELSE outcome
    /\ pc' = "idle"
    /\ doc' = NoDoc("missing")
    /\ tried' = FALSE

-----------------------------------------------------------------------------
(* Read *)

\* tryWham loads the document and looks at the token's expiry.
ReadAuth ==
    /\ pc = "idle"
    /\ \/ /\ file.kind = "missing"
          /\ Return("none")
       \/ /\ file.kind = "unreadable"
          /\ Return("needs_auth")
       \/ /\ file.kind = "tokens"
          /\ doc' = file
          /\ pc' = IF file.health = "old" THEN "refreshing" ELSE "fetching"
          /\ UNCHANGED <<tried, card>>
    /\ UNCHANGED <<file, outside, spoiled>>

Accepted == doc.refresh # 0 /\ live[doc.login] = doc.refresh

\* What the endpoint makes of an accepted refresh token.  (The bound leaves one
\* more for when everything has calmed down.)
Rotated(refresh) == IF rotating THEN refresh + 1 ELSE refresh
CanRotate(refresh) == refresh < IF calm THEN MaxTokens ELSE MaxTokens - 1

\* refreshCodexAuth gets its answer: the new tokens replace the old ones in the
\* document, which still has to be saved.
RefreshAnswered ==
    /\ pc = "refreshing"
    /\ Accepted
    /\ CanRotate(doc.refresh)
    /\ live' = [live EXCEPT ![doc.login] = Rotated(doc.refresh)]
    /\ doc' = [doc EXCEPT !.refresh = Rotated(@), !.health = "fresh"]
    /\ pc' = "saving"
    /\ UNCHANGED <<file, used, calm, rotating, rows, tried, card, spoiled>>

\* No refresh token, a refusal, or a failure on the way there: sign in.
RefreshFails ==
    /\ pc = "refreshing"
    /\ ~Accepted \/ ~calm
    /\ Return("needs_auth")
    /\ UNCHANGED <<file, outside, spoiled>>

\* The endpoint rotates and its answer does not arrive within the timeout.
RefreshAnswerLost ==
    /\ pc = "refreshing"
    /\ Accepted
    /\ ~calm
    /\ rotating
    /\ CanRotate(doc.refresh)
    /\ live' = [live EXCEPT ![doc.login] = Rotated(doc.refresh)]
    /\ spoiled' = spoiled \cup {doc.login}
    /\ Return("needs_auth")
    /\ UNCHANGED <<file, used, calm, rotating, rows>>

\* Faulty variant: the access token goes into the document as it is on disk by
\* now; the rotated refresh token is forgotten.
SaveMerged ==
    /\ pc = "saving"
    /\ pc' = "fetching"
    /\ file' = IF file.kind # "tokens" THEN doc
               ELSE [file EXCEPT !.health = "fresh"]
    /\ UNCHANGED <<outside, doc, tried, card, spoiled>>

\* writeCodexAuth replaces the file with the document read at the start,
\* whatever the CLI has put there meanwhile.  When it fails, the new tokens are
\* dropped.
Save ==
    /\ pc = "saving"
    /\ \/ /\ file' = doc
          /\ spoiled' = spoiled \ {doc.login}
          /\ pc' = "fetching"
          /\ UNCHANGED <<doc, tried, card>>
       \/ /\ ~calm
          /\ spoiled' = IF rotating THEN spoiled \cup {doc.login} ELSE spoiled
          /\ Return("needs_auth")
          /\ UNCHANGED file
    /\ UNCHANGED outside

\* How the wham API answers the document's token.
Answers ==
    IF doc.health = "rejected" THEN {"rejected"}
    ELSE IF calm THEN {"rows"} ELSE {"rows", "no rows", "rejected", "broken"}

\* fetchCodexWhamUsage returns.  After a 401 or 403 the token is refreshed and
\* the request repeated, once.
WhamAnswers ==
    /\ pc = "fetching"
    /\ \E a \in Answers :
         \/ a = "rows" /\ Return("live")
         \/ a = "no rows" /\ Return("none")
         \/ a = "broken" /\ Return("error")
         \/ a = "rejected" /\ tried /\ Return("needs_auth")
         \/ /\ a = "rejected" /\ ~tried
            /\ pc' = "refreshing"
            /\ tried' = TRUE
            /\ UNCHANGED <<doc, card>>
    /\ UNCHANGED <<file, outside, spoiled>>

\* The process ends in the middle of a read.
Crash ==
    /\ pc # "idle"
    /\ ~calm
    /\ spoiled' = IF pc = "saving" /\ rotating THEN spoiled \cup {doc.login} ELSE spoiled
    /\ pc' = "idle"
    /\ doc' = NoDoc("missing")
    /\ tried' = FALSE
    /\ UNCHANGED <<file, outside, card>>

-----------------------------------------------------------------------------
(* The Codex CLI, the endpoint and the disk *)

CLILogin ==
    /\ ~calm
    /\ used < MaxLogins
    /\ used' = used + 1
    /\ live' = [live EXCEPT ![used + 1] = 1]
    /\ file' = Doc(used + 1, 1, "fresh")
    /\ UNCHANGED <<calm, rotating, rows, reading, spoiled>>

\* The CLI logs out, or leaves a file nobody can read, or one without tokens.
CLIRemoves ==
    /\ ~calm
    /\ file' \in {NoDoc("missing"), NoDoc("unreadable"), Doc(1, 0, "old")} \ {file}
    /\ UNCHANGED <<outside, reading, spoiled>>

\* The CLI refreshes and saves.
CLIRefreshes ==
    /\ ~calm
    /\ file.kind = "tokens"
    /\ file.refresh # 0 /\ live[file.login] = file.refresh
    /\ CanRotate(file.refresh)
    /\ live' = [live EXCEPT ![file.login] = Rotated(@)]
    /\ file' = Doc(file.login, Rotated(file.refresh), "fresh")
    /\ UNCHANGED <<used, calm, rotating, rows, reading, spoiled>>

\* The stored access token comes near its end, or is revoked.
TokenAges ==
    /\ ~calm
    /\ file.kind = "tokens" /\ file.health = "fresh"
    /\ file' \in {[file EXCEPT !.health = "old"], [file EXCEPT !.health = "rejected"]}
    /\ UNCHANGED <<outside, reading, spoiled>>

RowsAppear ==
    /\ ~rows
    /\ rows' = TRUE
    /\ UNCHANGED <<file, live, used, calm, rotating, reading, spoiled>>

CalmsDown ==
    /\ ~calm
    /\ calm' = TRUE
    /\ UNCHANGED <<file, live, used, rotating, rows, reading, spoiled>>

-----------------------------------------------------------------------------

Init ==
    /\ file = NoDoc("missing")
    /\ live = [l \in Logins |-> 0]
    /\ used = 0
    /\ calm = FALSE
    /\ rotating \in BOOLEAN
    /\ pc = "idle"
    /\ doc = NoDoc("missing")
    /\ tried = FALSE
    /\ rows = FALSE
    /\ card = "none"
    /\ spoiled = {}

Read == ReadAuth \/ RefreshAnswered \/ RefreshFails \/ Save \/ WhamAnswers

CLI == CLILogin \/ CLIRemoves \/ CLIRefreshes

Next ==
    \/ Read \/ RefreshAnswerLost \/ Crash
    \/ CLI \/ TokenAges \/ RowsAppear \/ CalmsDown

Spec == Init /\ [][Next]_vars

\* The refresh loop keeps reading and every request has a timeout.
FairSpec == Spec /\ WF_vars(Read)

-----------------------------------------------------------------------------
(* Properties *)

TypeOK ==
    /\ file \in Files
    /\ live \in [Logins -> 0..MaxTokens]
    /\ used \in 0..MaxLogins
    /\ calm \in BOOLEAN
    /\ rotating \in BOOLEAN
    /\ pc \in {"idle", "refreshing", "saving", "fetching"}
    /\ doc \in Files
    /\ tried \in BOOLEAN
    /\ rows \in BOOLEAN
    /\ card \in Cards
    /\ spoiled \subseteq Logins

\* The borrowed login stays usable for its owner: the refresh token in the file
\* is the one the endpoint accepts, whatever the CLI and LimitDock did to the
\* file and in whichever order, except while a rotated pair waits to be saved
\* and except for logins whose last pair was lost on the way to the disk.
LoginStaysUsable ==
    file.kind = "tokens" /\ file.refresh # 0 =>
        \/ live[file.login] = file.refresh
        \/ file.login \in spoiled
        \/ pc = "saving" /\ doc.login = file.login

\* The races heal: once everybody leaves everything alone and answers, the card
\* shows live rows, if the refresh token left in the file works.
FileWorks == file.refresh # 0 /\ live[file.login] = file.refresh
Heals == <>[]calm => <>[](FileWorks => card = "live")
=============================================================================
