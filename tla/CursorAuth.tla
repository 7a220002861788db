----------------------------- MODULE CursorAuth -----------------------------
(***************************************************************************)
(* internal/provider/cursor.go: CursorReader.Read and the token it keeps.  *)
(*                                                                         *)
(* Cursor's own database is never written.  A token that LimitDock has     *)
(* refreshed lives in memory, under the database token it was refreshed    *)
(* from, until the process ends or the database holds another token.       *)
(* Cursor logs in as somebody else, logs out and refreshes at any moment;  *)
(* tokens age in the middle of a read.                                     *)
(*                                                                         *)
(* A token is known by the account it was issued for and a serial number.  *)
(* One read runs at a time (ReaderCache).                                  *)
(***************************************************************************)
EXTENDS Integers

CONSTANTS
    MaxAccounts, \* bound: accounts Cursor logs in as
    MaxSerial    \* bound: tokens Cursor stores

\* What is assumed of the constants; the module that gives them values ASSUMEs it.
CursorAssumption ==
    /\ MaxAccounts \in Nat \ {0}
    /\ MaxSerial \in Nat \ {0}

Accounts == 1..MaxAccounts

VARIABLES
    db,     \* state.vscdb: the token, whether a refresh token and an account go with it
    calm,   \* from now on Cursor leaves its login alone and everybody answers
    pc,     \* where Read stands
    auth,   \* the row in memory
    token,  \* the access token the read will use
    tried,  \* the one retry after a rejection has been spent
    card,   \* what the last read returned
    cache,  \* cursorRefreshCache
    issued  \* history: the token last refreshed in this process, and from which

world   == <<db, calm>>
reading == <<auth, token, tried>>
vars    == <<world, pc, reading, card, cache, issued>>

-----------------------------------------------------------------------------
(* Data *)

\* fresh; old: a JWT with less than five minutes left; rejected: refused by the
\* API, with nothing in the token to tell.
Health == {"fresh", "old", "rejected"}

Row(account, serial, refresh, health) ==
    [account |-> account, serial |-> serial, refresh |-> refresh, health |-> health]
NoRow(serial) == Row(0, serial, FALSE, "rejected")
Rows == [account : Accounts, serial : 1..MaxSerial, refresh : BOOLEAN, health : Health]
          \cup {NoRow(serial) : serial \in 0..MaxSerial}

Token(account, health) == [account |-> account, health |-> health]
NoToken == Token(0, "rejected")
Tokens  == [account : Accounts, health : Health] \cup {NoToken}

\* A refreshed token and the serial of the database token it came from.
Entry(serial, tok) == [serial |-> serial, token |-> tok]
Empty   == Entry(0, NoToken)
Entries == [serial : 1..MaxSerial, token : Tokens \ {NoToken}] \cup {Empty}

Cards == {"live", "needs_auth", "error", "none"}

Return(outcome) ==
    /\ card' = outcome
    /\ pc' = "idle"
    /\ auth' = NoRow(0)
    /\ token' = NoToken
    /\ tried' = FALSE

-----------------------------------------------------------------------------
(* Read *)

\* Faulty variant: whatever token was refreshed last is taken.
CachedTokenOfAnyone(row) ==
    IF cache # Empty /\ cache.token.health # "old" THEN cache.token
    ELSE Token(row.account, row.health)

\* cursorCachedToken: the token to begin with.
CachedToken(row) ==
    IF cache.serial = row.serial /\ cache.token.health # "old" THEN cache.token
    ELSE Token(row.account, row.health)

\* readCursorAuth reads everything in one query.  An entry that belongs to
\* another database token is dropped.
ReadAuth ==
    /\ pc = "idle"
    /\ IF db.account = 0
       THEN Return("none") /\ UNCHANGED cache
       ELSE /\ auth' = db
            /\ token' = CachedToken(db)
            /\ cache' = IF cache.serial = db.serial THEN cache ELSE Empty
            /\ pc' = IF CachedToken(db).health = "old" /\ db.refresh
                     THEN "refreshing" ELSE "connect"
            /\ UNCHANGED <<tried, card>>
    /\ UNCHANGED <<world, issued>>

\* Faulty variant: the new token is used and forgotten.
RefreshAnsweredForgetting ==
    /\ pc = "refreshing"
    /\ token' = Token(auth.account, "fresh")
    /\ issued' = Entry(auth.serial, token')
    /\ pc' = "connect"
    /\ UNCHANGED <<world, auth, tried, card, cache>>

\* refreshCursorToken answers with a token for the account read at the start.
RefreshAnswered ==
    /\ pc = "refreshing"
    /\ token' = Token(auth.account, "fresh")
    /\ cache' = Entry(auth.serial, token')
    /\ issued' = cache'
    /\ pc' = "connect"
    /\ UNCHANGED <<world, auth, tried, card>>

\* Faulty variant: what came instead of a token is kept as one.
RefreshFailsCached ==
    /\ pc = "refreshing"
    /\ ~calm \/ auth.serial # db.serial
    /\ Return("needs_auth")
    /\ cache' = Entry(auth.serial, NoToken)
    /\ UNCHANGED <<world, issued>>

RefreshFails ==
    /\ pc = "refreshing"
    /\ ~calm \/ auth.serial # db.serial
    /\ Return("needs_auth")
    /\ UNCHANGED <<world, cache, issued>>

\* Read after a 401: refresh and fetch again, once.
Unauthorized ==
    /\ IF auth.refresh /\ ~tried
       THEN /\ tried' = TRUE
            /\ pc' = "refreshing"
            /\ UNCHANGED <<auth, token, card>>
       ELSE Return("needs_auth")
    /\ UNCHANGED <<cache, issued>>

\* fetchConnectUsage: anything but an answer or a 401 leads on to the REST API.
Connect ==
    /\ pc = "connect"
    /\ \/ /\ token.health # "rejected"
          /\ Return("live")
          /\ UNCHANGED <<cache, issued>>
       \/ /\ token.health # "rejected" /\ ~calm
          /\ Return("none")
          /\ UNCHANGED <<cache, issued>>
       \/ /\ token.health = "rejected" \/ ~calm
          /\ Unauthorized
       \/ /\ ~calm
          /\ pc' = "rest"
          /\ UNCHANGED <<reading, card, cache, issued>>
    /\ UNCHANGED world

\* The second half of fetchUsage.
Rest ==
    /\ pc = "rest"
    /\ \/ /\ token.health # "rejected"
          /\ Return("live")
          /\ UNCHANGED <<cache, issued>>
       \/ /\ \E outcome \in {"none", "error"} : ~calm /\ Return(outcome)
          /\ UNCHANGED <<cache, issued>>
       \/ /\ token.health = "rejected" \/ ~calm
          /\ Unauthorized
    /\ UNCHANGED world

\* The process ends and starts again: the token in memory is gone.
Restart ==
    /\ ~calm
    /\ Return("none")
    /\ cache' = Empty
    /\ issued' = Empty
    /\ UNCHANGED world

-----------------------------------------------------------------------------
(* Cursor and time *)

\* Cursor logs in, as the same or another account, or refreshes.
CursorStores ==
    /\ ~calm
    /\ db.serial < MaxSerial
    /\ \E account \in Accounts, refresh \in BOOLEAN :
         db' = Row(account, db.serial + 1, refresh, "fresh")
    /\ UNCHANGED <<calm, pc, reading, card, cache, issued>>

CursorLogsOut ==
    /\ ~calm
    /\ db.account # 0
    /\ db' = NoRow(db.serial)
    /\ UNCHANGED <<calm, pc, reading, card, cache, issued>>

StoredTokenAges ==
    /\ ~calm
    /\ db.account # 0 /\ db.health = "fresh"
    /\ \E h \in {"old", "rejected"} : db' = [db EXCEPT !.health = h]
    /\ UNCHANGED <<calm, pc, reading, card, cache, issued>>

\* The refreshed token ages, wherever it is held.
RefreshedTokenAges ==
    /\ ~calm
    /\ issued # Empty /\ issued.token.health = "fresh"
    /\ \E h \in {"old", "rejected"} :
         /\ issued' = [issued EXCEPT !.token.health = h]
         /\ cache' = IF cache = issued THEN issued' ELSE cache
    /\ UNCHANGED <<world, pc, reading, card>>

CalmsDown ==
    /\ ~calm
    /\ calm' = TRUE
    /\ UNCHANGED <<db, pc, reading, card, cache, issued>>

-----------------------------------------------------------------------------

Init ==
    /\ db = NoRow(0)
    /\ calm = FALSE
    /\ pc = "idle"
    /\ auth = NoRow(0)
    /\ token = NoToken
    /\ tried = FALSE
    /\ card = "none"
    /\ cache = Empty
    /\ issued = Empty

Read == ReadAuth \/ RefreshAnswered \/ RefreshFails \/ Connect \/ Rest

Next ==
    \/ Read \/ Restart
    \/ CursorStores \/ CursorLogsOut
    \/ StoredTokenAges \/ RefreshedTokenAges \/ CalmsDown

Spec == Init /\ [][Next]_vars

\* The refresh loop keeps reading and every request has a timeout.
FairSpec == Spec /\ WF_vars(Read)

-----------------------------------------------------------------------------
(* Properties *)

TypeOK ==
    /\ db \in Rows
    /\ calm \in BOOLEAN
    /\ pc \in {"idle", "refreshing", "connect", "rest"}
    /\ auth \in Rows
    /\ token \in Tokens
    /\ tried \in BOOLEAN
    /\ card \in Cards
    /\ cache \in Entries
    /\ issued \in Entries

\* Rows are fetched with a token of the account whose key they are filed under,
\* however often Cursor changes accounts and whatever is left in the cache.
FiledUnderItsAccount == pc \in {"connect", "rest"} => token.account = auth.account

\* docs/USER_MANUAL.md:149: repeated polls do not force a refresh every cycle.
\* A read goes to refresh before its first request only when no token refreshed
\* from the same database token is still good.
NoNeedlessRefresh ==
    pc = "refreshing" /\ ~tried =>
        ~(issued.serial = auth.serial /\ issued.token.health = "fresh")

\* A login that can be refreshed gets its rows back: once Cursor leaves it
\* alone and everybody answers, the card stays live.
RowsReturn == <>[]calm => <>[](db.refresh => card = "live")
=============================================================================
