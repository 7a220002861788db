----------------------------- MODULE GeminiAuth -----------------------------
(***************************************************************************)
(* internal/provider/geminicli.go: GeminiCLIReader.Read and the            *)
(* credentials file it shares with the Gemini CLI.                         *)
(*                                                                         *)
(* An access token that one of the file's two expiry fields calls expired  *)
(* is refreshed with the refresh token, which Google does not rotate, and  *)
(* is then put into the file as it is by that time.  The CLI logs in, logs *)
(* out and refreshes on its own at any moment, and the process can die at  *)
(* any moment.                                                             *)
(*                                                                         *)
(* A token is known by the login it was issued for.  One read runs at a    *)
(* time (ReaderCache).                                                     *)
(***************************************************************************)
EXTENDS Integers

CONSTANT MaxLogins  \* bound: logins the CLI makes

\* What is assumed of the constants; the module that gives them values ASSUMEs it.
GeminiAssumption == MaxLogins \in Nat \ {0}

Logins == 1..MaxLogins
NoLogin == 0

VARIABLES
    file,   \* oauth_creds.json, or whichever candidate is found
    used,   \* logins made so far
    calm,   \* from now on everybody leaves the file alone and answers
    pc,     \* where Read stands
    creds,  \* the credentials in memory: as read, then as read again to persist
    token,  \* the access token the read will use
    card,   \* what the last read returned
    shown,  \* the login whose rows the card shows
    renewed \* history: the token in the file is one a read put there

reading == <<pc, creds, token, card, shown>>
vars    == <<file, used, calm, reading, renewed>>

-----------------------------------------------------------------------------
(* Data *)

\* What an expiry field says.  expiry_date (milliseconds) and expiry (RFC 3339)
\* are independent.
Expiries == {"none", "ahead", "past"}

\* good: the endpoint takes the access token until it expires.
Creds(refresh, access, good, date, rfc) ==
    [kind |-> "creds", refresh |-> refresh, access |-> access, good |-> good,
     date |-> date, rfc |-> rfc]
NoCreds(kind) ==
    [kind |-> kind, refresh |-> NoLogin, access |-> NoLogin, good |-> FALSE,
     date |-> "none", rfc |-> "none"]

Files ==
    [kind : {"creds"}, refresh : Logins \cup {NoLogin}, access : Logins \cup {NoLogin},
     good : BOOLEAN, date : Expiries, rfc : Expiries]
      \cup {NoCreds("missing"), NoCreds("unreadable")}

Cards == {"live", "needs_auth", "error", "none"}

\* Faulty variant: the milliseconds alone decide.
ExpiredByDate(c) == c.date = "past"

\* Either field in the past, or within thirty seconds of it, is enough.
Expired(c) == c.date = "past" \/ c.rfc = "past"

Return(outcome) ==
    /\ card' = outcome
    /\ pc' = "idle"
    /\ creds' = NoCreds("missing")
    /\ token' = [login |-> NoLogin, good |-> FALSE]

-----------------------------------------------------------------------------
(* Read *)

\* readGeminiAccessToken up to the refresh.
ReadCredentials ==
    /\ pc = "idle"
    /\ \/ /\ file.kind = "missing"
          /\ Return("none")
       \/ /\ \/ file.kind = "unreadable"
             \/ file.kind = "creds" /\ ~Expired(file) /\ file.access = NoLogin
          /\ Return("needs_auth")
       \/ /\ file.kind = "creds" /\ Expired(file)
          /\ creds' = file
          /\ pc' = "refreshing"
          /\ UNCHANGED <<token, card>>
       \/ /\ file.kind = "creds" /\ ~Expired(file) /\ file.access # NoLogin
          /\ token' = [login |-> file.access, good |-> file.good]
          /\ pc' = "fetching"
          /\ UNCHANGED <<creds, card>>
    /\ UNCHANGED <<file, used, calm, shown, renewed>>

\* refreshGeminiToken gets a new access token.
RefreshAnswered ==
    /\ pc = "refreshing"
    /\ creds.refresh # NoLogin
    /\ token' = [login |-> creds.refresh, good |-> TRUE]
    /\ creds' = NoCreds("missing")
    /\ pc' = "rereading"
    /\ UNCHANGED <<file, used, calm, card, shown, renewed>>

\* No refresh token, a refusal or a timeout.
RefreshFails ==
    /\ pc = "refreshing"
    /\ creds.refresh = NoLogin \/ ~calm
    /\ Return("needs_auth")
    /\ UNCHANGED <<file, used, calm, shown, renewed>>

\* persistGeminiAccessToken reads the file again.  No error of it matters: the
\* token is used in any case.
Reread ==
    /\ pc = "rereading"
    /\ IF file.kind = "creds"
       THEN creds' = file /\ pc' = "persisting"
       ELSE UNCHANGED creds /\ pc' = "fetching"
    /\ UNCHANGED <<file, used, calm, token, card, shown, renewed>>

\* It puts the token and both expiry fields in and replaces the file.
Persist ==
    /\ pc = "persisting"
    /\ \/ /\ file' = [creds EXCEPT !.access = token.login, !.good = token.good,
                                   !.date = "ahead", !.rfc = "ahead"]
          /\ renewed' = TRUE
       \/ ~calm /\ UNCHANGED <<file, renewed>>
    /\ creds' = NoCreds("missing")
    /\ pc' = "fetching"
    /\ UNCHANGED <<used, calm, token, card, shown>>

\* fetchQuota: loadCodeAssist, the project, retrieveUserQuota.  A rejection is
\* an error like any other: only the expiry fields lead to a refresh.
Fetch ==
    /\ pc = "fetching"
    /\ \/ /\ token.good
          /\ Return("live")
          /\ shown' = token.login
       \/ /\ token.good /\ ~calm
          /\ Return("none")
          /\ UNCHANGED shown
       \/ /\ ~token.good \/ ~calm
          /\ Return("error")
          /\ UNCHANGED shown
    /\ UNCHANGED <<file, used, calm, renewed>>

Crash ==
    /\ pc # "idle"
    /\ ~calm
    /\ Return(card)
    /\ UNCHANGED <<file, used, calm, shown, renewed>>

-----------------------------------------------------------------------------
(* The Gemini CLI and time *)

\* Older and newer CLIs write one expiry field or the other, or none.
CLIWrites(login) ==
    /\ \E field \in {"date", "rfc", "neither"} :
         file' = Creds(login, login, TRUE,
                       IF field = "date" THEN "ahead" ELSE "none",
                       IF field = "rfc" THEN "ahead" ELSE "none")
    /\ renewed' = FALSE

CLILogin ==
    /\ ~calm
    /\ used < MaxLogins
    /\ used' = used + 1
    /\ CLIWrites(used + 1)
    /\ UNCHANGED <<calm, reading>>

CLIRefreshes ==
    /\ ~calm
    /\ file.kind = "creds" /\ file.refresh # NoLogin
    /\ CLIWrites(file.refresh)
    /\ UNCHANGED <<used, calm, reading>>

\* The CLI logs out, or leaves a file nobody can read, or one without one of
\* the tokens.
CLIRemoves ==
    /\ ~calm
    /\ \/ file' = NoCreds("missing")
       \/ file' = NoCreds("unreadable")
       \/ /\ file.kind = "creds"
          /\ file' \in {[file EXCEPT !.refresh = NoLogin], [file EXCEPT !.access = NoLogin]}
    /\ renewed' = FALSE
    /\ UNCHANGED <<used, calm, reading>>

\* The stored access token reaches its end and the file says so, if it has a
\* field for it.
TokenExpires ==
    /\ file.kind = "creds"
    /\ file.good \/ file.date = "ahead" \/ file.rfc = "ahead"
    /\ file' = [file EXCEPT !.good = FALSE,
                            !.date = IF @ = "none" THEN @ ELSE "past",
                            !.rfc = IF @ = "none" THEN @ ELSE "past"]
    /\ renewed' = FALSE
    /\ UNCHANGED <<used, calm, reading>>

\* It is revoked before its time.
TokenRevoked ==
    /\ ~calm
    /\ file.kind = "creds" /\ file.good
    /\ file' = [file EXCEPT !.good = FALSE]
    /\ UNCHANGED <<used, calm, reading, renewed>>

CalmsDown ==
    /\ ~calm
    /\ calm' = TRUE
    /\ UNCHANGED <<file, used, reading, renewed>>

-----------------------------------------------------------------------------

Init ==
    /\ file = NoCreds("missing")
    /\ used = 0
    /\ calm = FALSE
    /\ pc = "idle"
    /\ creds = NoCreds("missing")
    /\ token = [login |-> NoLogin, good |-> FALSE]
    /\ card = "none"
    /\ shown = NoLogin
    /\ renewed = FALSE

Read == ReadCredentials \/ RefreshAnswered \/ RefreshFails \/ Reread \/ Persist \/ Fetch

Next ==
    \/ Read \/ Crash
    \/ CLILogin \/ CLIRefreshes \/ CLIRemoves
    \/ TokenExpires \/ TokenRevoked \/ CalmsDown

Spec == Init /\ [][Next]_vars

\* The refresh loop keeps reading, every request has a timeout, time passes.
FairSpec == Spec /\ WF_vars(Read) /\ WF_vars(TokenExpires)

-----------------------------------------------------------------------------
(* Properties *)

TypeOK ==
    /\ file \in Files
    /\ used \in 0..MaxLogins
    /\ calm \in BOOLEAN
    /\ pc \in {"idle", "refreshing", "rereading", "persisting", "fetching"}
    /\ creds \in Files
    /\ token \in [login : Logins \cup {NoLogin}, good : BOOLEAN]
    /\ card \in Cards
    /\ shown \in Logins \cup {NoLogin}
    /\ renewed \in BOOLEAN

\* A token that was refreshed and written back is not refreshed again before it
\* expires or the CLI writes the file: the two expiry fields agree (the comment
\* in persistGeminiAccessToken).
RefreshedOnce == renewed => pc # "refreshing"

\* The races heal: with a refresh token and an expiry field in the file, the
\* card comes to show live rows of the login the refresh token belongs to, and
\* of no other, whatever mixture of two logins the races left there.
Recoverable == file.refresh # NoLogin /\ (file.date # "none" \/ file.rfc # "none")
MixtureHeals == <>[]calm => <>[](Recoverable => card = "live" /\ shown = file.refresh)

\* docs/ARCHITECTURE.md:50 says that there is no race: a login the CLI has made
\* is in the file until the CLI itself makes another.
LoginStands ==
    file.kind = "creds" =>
        /\ file.refresh \in {NoLogin, used}
        /\ file.access \in {NoLogin, used}
=============================================================================
