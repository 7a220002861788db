---------------------------- MODULE ReadersProofs ----------------------------
(***************************************************************************)
(* The readers of CodexAuth, GeminiAuth, CursorAuth and Antigravity, for   *)
(* any number of logins, tokens, accounts, ports and files.  Each has an   *)
(* inductive invariant of its own; a step of MCReaders is a step of one of *)
(* them and leaves the others alone.                                       *)
(***************************************************************************)
EXTENDS MCReaders, TLAPS

-----------------------------------------------------------------------------
(* The inductive invariants *)

\* A document never holds a refresh token the endpoint has not issued yet.
CodexIssued(d) ==
    d.refresh # 0 => d.login <= codexUsed /\ d.refresh <= live[d.login]

\* A new pair that waits to be saved is the newest of its login, and then the
\* CLI cannot refresh from what the file holds of it.
CodexPending ==
    codexPc = "saving" =>
        /\ doc.refresh # 0
        /\ live[doc.login] = doc.refresh
        /\ rotating /\ codexFile.refresh # 0 /\ codexFile.login = doc.login
             => codexFile.refresh < doc.refresh

CodexInv ==
    /\ Codex!TypeOK
    /\ CodexIssued(codexFile) /\ CodexIssued(doc)
    /\ ~rotating => \A l \in 1..MaxLogins : live[l] <= 1
    /\ CodexPending
    /\ Codex!LoginStaysUsable

\* What a read put into the file does not look expired.
GeminiInv ==
    /\ Gemini!TypeOK
    /\ geminiPc = "persisting" => creds.kind = "creds"
    /\ renewed => geminiFile.date = "ahead" /\ geminiFile.rfc = "ahead"
    /\ Gemini!RefreshedOnce

\* The cached token is of the account that was stored under its serial.
CursorCacheOwned ==
    /\ cache.serial <= db.serial
    /\ cache.serial = db.serial /\ db.account # 0 => cache.token.account = db.account

\* So is the row in memory.
CursorRowOwned ==
    /\ cursorPc # "idle" => auth.account # 0
    /\ auth.serial <= db.serial
    /\ auth.account # 0 /\ db.account # 0 /\ auth.serial = db.serial
         => auth.account = db.account

\* The token refreshed last is cached until the database holds a newer one.
CursorCacheLatest ==
    cache = issued \/ (cache = Cursor!Empty /\ issued.serial < db.serial)

CursorInv ==
    /\ Cursor!TypeOK
    /\ CursorCacheOwned /\ CursorRowOwned /\ CursorCacheLatest
    /\ Cursor!FiledUnderItsAccount
    /\ Cursor!NoNeedlessRefresh

\* Files read completely.
AntigravityRead ==
    paths \ (todo \cup IF antigravityPc = "stat" THEN {held.file} ELSE {})

\* While no file changes, best is the newest of the files read so far.
AntigravityBest ==
    /\ antigravityPc \in {"idle", "probing"} => best = AntigravityApp!Nothing
    /\ antigravityPc \in {"files", "stat"} /\ ~disturbed =>
         /\ best.claimed = best.true
         /\ \A f \in AntigravityRead : best.true <= disk[f]
         /\ best.true = AntigravityApp!Gone \/ \E f \in AntigravityRead : best.true = disk[f]
    /\ antigravityPc \in {"files", "stat"} => todo \subseteq paths
    /\ antigravityPc = "stat" =>
         /\ held.file \in paths \ todo
         /\ ~disturbed => disk[held.file] = held.age

AntigravityInv == AntigravityApp!TypeOK /\ AntigravityBest


-----------------------------------------------------------------------------
(* Codex *)

LEMMA CodexFields ==
    ASSUME NEW d \in Codex!Files
    PROVE  /\ d.login \in 1..MaxLogins /\ d.refresh \in 0..MaxTokens
           /\ d.health \in Codex!Health
           /\ d.refresh # 0 \/ d.kind = "tokens" => d \in Codex!Docs
BY ReadersAssumption DEF Codex!CodexAssumption, Codex!Files, Codex!Docs, Codex!NoDoc,
   Codex!Logins, Codex!Health

LEMMA CodexNoDoc ==
    /\ \A kind \in {"missing", "unreadable"} :
          Codex!NoDoc(kind) \in Codex!Files /\ Codex!NoDoc(kind).refresh = 0
                                            /\ Codex!NoDoc(kind).kind = kind
    /\ Codex!Doc(1, 0, "old") \in Codex!Files /\ Codex!Doc(1, 0, "old").refresh = 0
    /\ \A login \in 1..MaxLogins, refresh \in 0..MaxTokens :
          /\ Codex!Doc(login, refresh, "fresh") \in Codex!Files
          /\ Codex!Doc(login, refresh, "fresh").login = login
          /\ Codex!Doc(login, refresh, "fresh").refresh = refresh
BY ReadersAssumption DEF Codex!CodexAssumption, Codex!Files, Codex!Docs, Codex!NoDoc,
   Codex!Doc, Codex!Logins, Codex!Health

\* Changes of one field.
LEMMA CodexChanged ==
    ASSUME NEW d \in Codex!Docs
    PROVE  /\ \A h \in Codex!Health :
                 /\ [d EXCEPT !.health = h] \in Codex!Files
                 /\ [d EXCEPT !.health = h].login = d.login
                 /\ [d EXCEPT !.health = h].refresh = d.refresh
           /\ \A r \in 0..MaxTokens :
                 LET e == [d EXCEPT !.refresh = r, !.health = "fresh"]
                 IN  e \in Codex!Files /\ e.login = d.login /\ e.refresh = r
BY DEF Codex!Files, Codex!Docs, Codex!Health

\* What the endpoint gives for an accepted refresh token.
LEMMA CodexRotated ==
    ASSUME CodexInv, NEW r \in 0..MaxTokens, Codex!CanRotate(r)
    PROVE  /\ Codex!Rotated(r) \in 0..MaxTokens /\ r <= Codex!Rotated(r)
           /\ r # 0 => Codex!Rotated(r) # 0
           /\ rotating => Codex!Rotated(r) = r + 1
           /\ ~rotating => Codex!Rotated(r) = r
<1>1. MaxTokens \in Nat /\ r < MaxTokens
  BY ReadersAssumption DEF Codex!CodexAssumption, Codex!CanRotate
<1> QED
  BY <1>1 DEF Codex!Rotated

LEMMA CodexReturns ==
    ASSUME NEW outcome \in Codex!Cards, Codex!Return(outcome)
    PROVE  /\ codexCard' \in Codex!Cards /\ codexPc' = "idle"
           /\ doc' \in Codex!Files /\ doc'.refresh = 0 /\ codexTried' = FALSE
BY CodexNoDoc DEF Codex!Return, Codex!Cards

LEMMA CodexInit == Codex!Init => CodexInv
<1> SUFFICES ASSUME Codex!Init PROVE CodexInv
  OBVIOUS
<1> USE DEF Codex!Init
<1>1. Codex!TypeOK
  <2>1. live \in [Codex!Logins -> 0..MaxTokens] /\ codexUsed \in 0..MaxLogins
    BY ReadersAssumption DEF Codex!CodexAssumption
  <2>2. codexFile \in Codex!Files /\ doc \in Codex!Files
    BY CodexNoDoc
  <2> QED
    BY <2>1, <2>2 DEF Codex!TypeOK, Codex!Cards
<1>2. codexFile.refresh = 0 /\ doc.refresh = 0
  BY CodexNoDoc
<1>3. \A l \in 1..MaxLogins : live[l] <= 1
  BY DEF Codex!Logins
<1> QED
  BY <1>1, <1>2, <1>3 DEF CodexInv, CodexIssued, CodexPending, Codex!LoginStaysUsable

\* Reads that leave the file and the endpoint alone and are not saving.
LEMMA CodexReadOnly ==
    ASSUME CodexInv, UNCHANGED <<codexFile, live, codexUsed, codexCalm, rotating, rows>>,
           spoiled' \in SUBSET Codex!Logins, spoiled \subseteq spoiled',
           codexPc = "saving" /\ rotating => doc.login \in spoiled',
           codexPc' \in {"idle", "refreshing", "fetching"},
           doc' \in Codex!Files, doc'.refresh # 0 => doc' \in {doc, codexFile},
           codexTried' \in BOOLEAN, codexCard' \in Codex!Cards
    PROVE  CodexInv'
<1>1. Codex!TypeOK'
  BY DEF CodexInv, Codex!TypeOK
<1>2. CodexIssued(codexFile)' /\ CodexIssued(doc)'
  BY DEF CodexInv, CodexIssued
<1>3. codexFile \in Codex!Files /\ doc \in Codex!Files /\ live \in [1..MaxLogins -> 0..MaxTokens]
  BY DEF CodexInv, Codex!TypeOK, Codex!Logins
<1>4. Codex!LoginStaysUsable'
  <2> SUFFICES ASSUME codexFile.kind = "tokens", codexFile.refresh # 0,
                      codexFile.login \notin spoiled'
               PROVE  live[codexFile.login] = codexFile.refresh
    BY DEF Codex!LoginStaysUsable
  <2>1. CASE codexPc = "saving" /\ doc.login = codexFile.login
    <3>1. ~rotating
      BY <2>1
    <3>2. live[codexFile.login] <= 1 /\ codexFile.refresh <= live[codexFile.login]
      BY <1>3, <3>1, CodexFields DEF CodexInv, CodexIssued
    <3> QED
      BY <1>3, <3>2, CodexFields
  <2>2. CASE ~(codexPc = "saving" /\ doc.login = codexFile.login)
    BY <2>2 DEF CodexInv, Codex!LoginStaysUsable
  <2> QED
    BY <2>1, <2>2
<1>5. (~rotating => \A l \in 1..MaxLogins : live[l] <= 1)'
  BY DEF CodexInv
<1> QED
  BY <1>1, <1>2, <1>4, <1>5 DEF CodexInv, CodexPending

LEMMA CodexRefreshAnswered == CodexInv /\ Codex!RefreshAnswered => CodexInv'
<1> SUFFICES ASSUME CodexInv, Codex!RefreshAnswered PROVE CodexInv'
  OBVIOUS
<1> DEFINE l == doc.login
           r == Codex!Rotated(doc.refresh)
<1>1. /\ codexPc = "refreshing" /\ doc.refresh # 0 /\ live[l] = doc.refresh
      /\ Codex!CanRotate(doc.refresh)
      /\ live' = [live EXCEPT ![l] = r]
      /\ doc' = [doc EXCEPT !.refresh = r, !.health = "fresh"]
      /\ codexPc' = "saving"
      /\ UNCHANGED <<codexFile, codexUsed, codexCalm, rotating, rows, codexTried, codexCard,
                     spoiled>>
  BY Zenon DEF Codex!RefreshAnswered, Codex!Accepted
<1>2. /\ codexFile \in Codex!Files /\ doc \in Codex!Files
      /\ live \in [1..MaxLogins -> 0..MaxTokens] /\ codexUsed \in 0..MaxLogins
      /\ MaxLogins \in Nat
      /\ CodexIssued(codexFile) /\ CodexIssued(doc)
  BY ReadersAssumption DEF Codex!CodexAssumption, CodexInv, Codex!TypeOK, Codex!Logins
<1>3. /\ doc \in Codex!Docs /\ l \in 1..MaxLogins /\ doc.refresh \in 0..MaxTokens
      /\ r \in 0..MaxTokens /\ doc.refresh <= r /\ r # 0
      /\ rotating => r = doc.refresh + 1
      /\ ~rotating => r = doc.refresh
  BY <1>1, <1>2, CodexFields, CodexRotated
<1>4. doc' \in Codex!Files /\ doc'.login = l /\ doc'.refresh = r
  BY <1>1, <1>3, CodexChanged
<1>5. codexFile.login \in 1..MaxLogins /\ codexFile.refresh \in 0..MaxTokens
  BY <1>2, CodexFields
<1> HIDE DEF l, r
<1>6. /\ live' \in [1..MaxLogins -> 0..MaxTokens] /\ live'[l] = r
      /\ \A k \in 1..MaxLogins : k # l => live'[k] = live[k]
  BY <1>1, <1>2, <1>3
<1>7. Codex!TypeOK'
  BY <1>1, <1>4, <1>6 DEF CodexInv, Codex!TypeOK, Codex!Logins
<1>8. CodexIssued(codexFile)'
  BY <1>1, <1>2, <1>3, <1>5, <1>6 DEF CodexIssued, l
<1>9. CodexIssued(doc)'
  <2>1. l <= codexUsed
    BY <1>1, <1>2 DEF CodexIssued, l
  <2> QED
    BY <1>1, <1>3, <1>4, <1>6, <2>1 DEF CodexIssued
<1>10. (~rotating => \A k \in 1..MaxLogins : live[k] <= 1)'
  BY <1>1, <1>2, <1>3, <1>6 DEF CodexInv, l
<1>11. CodexPending'
  <2>1. rotating /\ codexFile.refresh # 0 /\ codexFile.login = l => codexFile.refresh < r
    BY <1>1, <1>2, <1>3, <1>5 DEF CodexIssued, l
  <2> QED
    BY <1>1, <1>3, <1>4, <1>6, <2>1 DEF CodexPending
<1>12. Codex!LoginStaysUsable'
  BY <1>1, <1>4, <1>5, <1>6 DEF CodexInv, Codex!LoginStaysUsable
<1> QED
  BY <1>7, <1>8, <1>9, <1>10, <1>11, <1>12 DEF CodexInv

LEMMA CodexRefreshAnswerLost == CodexInv /\ Codex!RefreshAnswerLost => CodexInv'
<1> SUFFICES ASSUME CodexInv, Codex!RefreshAnswerLost PROVE CodexInv'
  OBVIOUS
<1> DEFINE l == doc.login
           r == Codex!Rotated(doc.refresh)
<1>1. /\ codexPc = "refreshing" /\ doc.refresh # 0 /\ live[l] = doc.refresh /\ rotating
      /\ Codex!CanRotate(doc.refresh)
      /\ live' = [live EXCEPT ![l] = r]
      /\ spoiled' = spoiled \cup {l}
      /\ Codex!Return("needs_auth")
      /\ UNCHANGED <<codexFile, codexUsed, codexCalm, rotating, rows>>
  BY Zenon DEF Codex!RefreshAnswerLost, Codex!Accepted
<1>2. /\ codexFile \in Codex!Files /\ doc \in Codex!Files
      /\ live \in [1..MaxLogins -> 0..MaxTokens]
      /\ CodexIssued(codexFile)
  BY DEF CodexInv, Codex!TypeOK, Codex!Logins
<1>3. /\ l \in 1..MaxLogins /\ doc.refresh \in 0..MaxTokens
      /\ r \in 0..MaxTokens /\ doc.refresh <= r
  BY <1>1, <1>2, CodexFields, CodexRotated
<1>4. /\ codexCard' \in Codex!Cards /\ codexPc' = "idle"
      /\ doc' \in Codex!Files /\ doc'.refresh = 0 /\ codexTried' = FALSE
  BY <1>1, CodexReturns DEF Codex!Cards
<1>5. codexFile.login \in 1..MaxLogins /\ codexFile.refresh \in 0..MaxTokens
  BY <1>2, CodexFields
<1> HIDE DEF l, r
<1>6. /\ live' \in [1..MaxLogins -> 0..MaxTokens] /\ live'[l] = r
      /\ \A k \in 1..MaxLogins : k # l => live'[k] = live[k]
  BY <1>1, <1>2, <1>3
<1>7. Codex!TypeOK'
  BY <1>1, <1>3, <1>4, <1>6 DEF CodexInv, Codex!TypeOK, Codex!Logins
<1>8. CodexIssued(codexFile)' /\ CodexIssued(doc)'
  BY <1>1, <1>2, <1>3, <1>4, <1>5, <1>6 DEF CodexIssued, l
<1>9. CodexPending'
  BY <1>4 DEF CodexPending
<1>10. Codex!LoginStaysUsable'
  BY <1>1, <1>4, <1>5, <1>6 DEF CodexInv, Codex!LoginStaysUsable
<1> QED
  BY <1>1, <1>7, <1>8, <1>9, <1>10 DEF CodexInv

LEMMA CodexSaved ==
    ASSUME CodexInv, codexPc = "saving", codexFile' = doc, spoiled' = spoiled \ {doc.login},
           codexPc' = "fetching", UNCHANGED <<doc, codexTried, codexCard>>,
           UNCHANGED <<live, codexUsed, codexCalm, rotating, rows>>
    PROVE  CodexInv'
<1>1. Codex!TypeOK'
  BY DEF CodexInv, Codex!TypeOK
<1>2. CodexIssued(codexFile)' /\ CodexIssued(doc)'
  BY DEF CodexInv, CodexIssued
<1>3. live[doc.login] = doc.refresh
  BY DEF CodexInv, CodexPending
<1> QED
  BY <1>1, <1>2, <1>3 DEF CodexInv, CodexPending, Codex!LoginStaysUsable

\* The CLI or time changes the file.
LEMMA CodexFileChanged ==
    ASSUME CodexInv, codexFile' \in Codex!Files,
           UNCHANGED <<codexCalm, rotating, rows, codexPc, doc, codexTried, codexCard, spoiled>>,
           \/ UNCHANGED <<live, codexUsed>> /\ codexFile'.refresh = 0
           \/ UNCHANGED <<live, codexUsed>> /\ codexFile.kind = "tokens"
              /\ codexFile'.login = codexFile.login /\ codexFile'.refresh = codexFile.refresh
    PROVE  CodexInv'
<1>1. Codex!TypeOK'
  BY DEF CodexInv, Codex!TypeOK
<1>2. CodexIssued(codexFile)' /\ CodexIssued(doc)'
  BY DEF CodexInv, CodexIssued
<1>3. CodexPending'
  BY DEF CodexInv, CodexPending
<1> QED
  BY <1>1, <1>2, <1>3 DEF CodexInv, Codex!LoginStaysUsable

LEMMA CodexCLILogin == CodexInv /\ Codex!CLILogin => CodexInv'
<1> SUFFICES ASSUME CodexInv, Codex!CLILogin PROVE CodexInv'
  OBVIOUS
<1> DEFINE l == codexUsed + 1
<1>1. /\ codexUsed < MaxLogins /\ codexUsed' = l
      /\ live' = [live EXCEPT ![l] = 1]
      /\ codexFile' = Codex!Doc(l, 1, "fresh")
      /\ UNCHANGED <<codexCalm, rotating, rows, codexPc, doc, codexTried, codexCard, spoiled>>
  BY DEF Codex!CLILogin, Codex!reading
<1>2. /\ doc \in Codex!Files /\ live \in [1..MaxLogins -> 0..MaxTokens]
      /\ codexUsed \in 0..MaxLogins /\ MaxLogins \in Nat /\ MaxTokens \in Nat \ {0}
      /\ CodexIssued(doc)
  BY ReadersAssumption DEF Codex!CodexAssumption, CodexInv, Codex!TypeOK, Codex!Logins
<1>3. l \in 1..MaxLogins /\ codexFile' \in Codex!Files
      /\ codexFile'.login = l /\ codexFile'.refresh = 1
  BY <1>1, <1>2, CodexNoDoc
<1>4. doc.login \in 1..MaxLogins /\ doc.refresh \in 0..MaxTokens
      /\ (doc.refresh # 0 => doc.login < l)
  BY <1>2, CodexFields DEF CodexIssued
<1>5. /\ live' \in [1..MaxLogins -> 0..MaxTokens] /\ live'[l] = 1
      /\ \A k \in 1..MaxLogins : k # l => live'[k] = live[k]
  BY <1>1, <1>2, <1>3
<1> HIDE DEF l
<1>6. Codex!TypeOK'
  BY <1>1, <1>3, <1>5 DEF CodexInv, Codex!TypeOK, Codex!Logins
<1>7. CodexIssued(codexFile)' /\ CodexIssued(doc)'
  BY <1>1, <1>2, <1>3, <1>4, <1>5 DEF CodexIssued, l
<1>8. (~rotating => \A k \in 1..MaxLogins : live[k] <= 1)'
  BY <1>1, <1>5 DEF CodexInv
<1>9. CodexPending'
  <2>1. codexPc = "saving" => doc.login # l /\ live'[doc.login] = live[doc.login]
    BY <1>2, <1>3, <1>4, <1>5 DEF CodexInv, CodexPending, l
  <2> QED
    BY <1>1, <1>3, <2>1 DEF CodexInv, CodexPending
<1>10. Codex!LoginStaysUsable'
  BY <1>3, <1>5 DEF Codex!LoginStaysUsable
<1> QED
  BY <1>6, <1>7, <1>8, <1>9, <1>10 DEF CodexInv

LEMMA CodexCLIRefreshes == CodexInv /\ Codex!CLIRefreshes => CodexInv'
<1> SUFFICES ASSUME CodexInv, Codex!CLIRefreshes PROVE CodexInv'
  OBVIOUS
<1> DEFINE l == codexFile.login
           r == Codex!Rotated(codexFile.refresh)
<1>1. /\ codexFile.refresh # 0 /\ live[l] = codexFile.refresh
      /\ Codex!CanRotate(codexFile.refresh)
      /\ live' = [live EXCEPT ![l] = Codex!Rotated(live[l])]
      /\ codexFile' = Codex!Doc(l, r, "fresh")
      /\ UNCHANGED <<codexUsed, codexCalm, rotating, rows, codexPc, doc, codexTried, codexCard,
                     spoiled>>
  BY DEF Codex!CLIRefreshes, Codex!reading
<1>2. /\ codexFile \in Codex!Files /\ doc \in Codex!Files
      /\ live \in [1..MaxLogins -> 0..MaxTokens]
      /\ CodexIssued(codexFile) /\ CodexIssued(doc) /\ CodexPending
  BY DEF CodexInv, Codex!TypeOK, Codex!Logins
<1>3. /\ l \in 1..MaxLogins /\ codexFile.refresh \in 0..MaxTokens
      /\ r \in 0..MaxTokens /\ codexFile.refresh <= r /\ r # 0
      /\ ~rotating => r = codexFile.refresh
  BY <1>1, <1>2, CodexFields, CodexRotated
<1>4. codexFile' \in Codex!Files /\ codexFile'.login = l /\ codexFile'.refresh = r
  BY <1>1, <1>3, CodexNoDoc
<1>5. doc.login \in 1..MaxLogins /\ doc.refresh \in 0..MaxTokens
  BY <1>2, CodexFields
<1>6. /\ live' \in [1..MaxLogins -> 0..MaxTokens] /\ live'[l] = r
      /\ \A k \in 1..MaxLogins : k # l => live'[k] = live[k]
  BY <1>1, <1>2, <1>3
<1>7. l <= codexUsed
  BY <1>1, <1>2 DEF CodexIssued
<1>8. codexPc = "saving" /\ doc.login = l => ~rotating
  BY <1>1, <1>2, <1>3, <1>5 DEF CodexPending
<1> HIDE DEF l, r
<1>9. Codex!TypeOK'
  BY <1>1, <1>4, <1>6 DEF CodexInv, Codex!TypeOK, Codex!Logins
<1>10. CodexIssued(codexFile)' /\ CodexIssued(doc)'
  BY <1>1, <1>2, <1>3, <1>4, <1>5, <1>6, <1>7 DEF CodexIssued
<1>11. (~rotating => \A k \in 1..MaxLogins : live[k] <= 1)'
  BY <1>1, <1>2, <1>3, <1>6 DEF CodexInv, l
<1>12. CodexPending'
  <2> SUFFICES ASSUME codexPc = "saving"
               PROVE  /\ live'[doc.login] = doc.refresh
                      /\ rotating => doc.login # l
    BY <1>1, <1>2, <1>4 DEF CodexPending
  <2>1. CASE doc.login = l
    BY <1>1, <1>2, <1>3, <1>6, <1>8, <2>1 DEF CodexPending, l
  <2>2. CASE doc.login # l
    BY <1>2, <1>5, <1>6, <2>2 DEF CodexPending
  <2> QED
    BY <1>8, <2>1, <2>2
<1>13. Codex!LoginStaysUsable'
  BY <1>4, <1>6 DEF Codex!LoginStaysUsable
<1> QED
  BY <1>9, <1>10, <1>11, <1>12, <1>13 DEF CodexInv

LEMMA CodexStep == CodexInv /\ [Codex!Next]_(Codex!vars) => CodexInv'
<1> SUFFICES ASSUME CodexInv, [Codex!Next]_(Codex!vars) PROVE CodexInv'
  OBVIOUS
<1>t. /\ codexFile \in Codex!Files /\ doc \in Codex!Files /\ codexTried \in BOOLEAN
      /\ spoiled \in SUBSET Codex!Logins /\ codexCard \in Codex!Cards
      /\ codexPc = "saving" => doc.login \in Codex!Logins
  BY CodexFields DEF CodexInv, Codex!TypeOK, Codex!Logins
<1>r. \A outcome \in Codex!Cards : Codex!Return(outcome) =>
         /\ codexCard' \in Codex!Cards /\ codexPc' = "idle"
         /\ doc' \in Codex!Files /\ doc'.refresh = 0 /\ codexTried' \in BOOLEAN
  BY CodexReturns
<1>c. {"live", "local", "needs_auth", "error", "none"} \subseteq Codex!Cards
  BY DEF Codex!Cards
<1>1. CASE Codex!ReadAuth
  BY <1>1, <1>t, <1>r, <1>c, CodexReadOnly DEF Codex!ReadAuth, Codex!outside
<1>2. CASE Codex!RefreshAnswered
  BY <1>2, CodexRefreshAnswered
<1>3. CASE Codex!RefreshFails
  BY <1>3, <1>t, <1>r, <1>c, CodexReadOnly DEF Codex!RefreshFails, Codex!outside
<1>4. CASE Codex!Save
  <2>1. codexPc = "saving" /\ UNCHANGED <<live, codexUsed, codexCalm, rotating, rows>>
    BY <1>4 DEF Codex!Save, Codex!outside
  <2>2. CASE codexFile' = doc /\ spoiled' = spoiled \ {doc.login} /\ codexPc' = "fetching"
             /\ UNCHANGED <<doc, codexTried, codexCard>>
    BY <2>1, <2>2, CodexSaved
  <2>3. CASE /\ spoiled' = IF rotating THEN spoiled \cup {doc.login} ELSE spoiled
             /\ Codex!Return("needs_auth")
             /\ UNCHANGED codexFile
    BY <1>t, <1>r, <1>c, <2>1, <2>3, CodexReadOnly
  <2> QED
    BY <1>4, <2>2, <2>3 DEF Codex!Save
<1>5. CASE Codex!WhamAnswers
  BY <1>5, <1>t, <1>r, <1>c, CodexReadOnly DEF Codex!WhamAnswers, Codex!outside
<1>6. CASE Codex!RefreshAnswerLost
  BY <1>6, CodexRefreshAnswerLost
<1>7. CASE Codex!Crash
  <2>1. doc' \in Codex!Files /\ doc'.refresh = 0 /\ codexTried' = FALSE
    BY <1>7, CodexNoDoc DEF Codex!Crash
  <2>2. /\ spoiled' \in SUBSET Codex!Logins /\ spoiled \subseteq spoiled'
        /\ codexPc = "saving" /\ rotating => doc.login \in spoiled'
    BY <1>7, <1>t DEF Codex!Crash
  <2> QED
    BY <1>7, <1>t, <2>1, <2>2, CodexReadOnly DEF Codex!Crash, Codex!outside
<1>8. CASE Codex!CLILogin
  BY <1>8, CodexCLILogin
<1>9. CASE Codex!CLIRemoves
  BY <1>9, CodexNoDoc, CodexFileChanged DEF Codex!CLIRemoves, Codex!outside, Codex!reading
<1>10. CASE Codex!CLIRefreshes
  BY <1>10, CodexCLIRefreshes
<1>11. CASE Codex!TokenAges
  <2>1. codexFile \in Codex!Docs
    BY <1>11, <1>t, CodexFields DEF Codex!TokenAges
  <2>2. /\ codexFile' \in Codex!Files
        /\ codexFile'.login = codexFile.login /\ codexFile'.refresh = codexFile.refresh
    BY <1>11, <2>1, CodexChanged DEF Codex!TokenAges, Codex!Health
  <2> QED
    BY <1>11, <2>2, CodexFileChanged DEF Codex!TokenAges, Codex!outside, Codex!reading
<1>12. CASE Codex!RowsAppear \/ Codex!CalmsDown \/ UNCHANGED Codex!vars
  <2>1. /\ UNCHANGED <<codexFile, live, codexUsed, rotating, codexPc, doc, codexTried, codexCard,
                       spoiled>>
        /\ codexCalm' \in BOOLEAN /\ rows' \in BOOLEAN
    BY <1>12 DEF Codex!RowsAppear, Codex!CalmsDown, Codex!vars, Codex!outside, Codex!reading,
       CodexInv, Codex!TypeOK
  <2> QED
    BY <2>1 DEF CodexInv, Codex!TypeOK, CodexIssued, CodexPending, Codex!LoginStaysUsable
<1> QED
  BY <1>1, <1>2, <1>3, <1>4, <1>5, <1>6, <1>7, <1>8, <1>9, <1>10, <1>11, <1>12
     DEF Codex!Next, Codex!Read, Codex!CLI

-----------------------------------------------------------------------------
(* Gemini *)

LEMMA GeminiFields ==
    ASSUME NEW c \in Gemini!Files
    PROVE  /\ c.kind \in {"creds", "missing", "unreadable"}
           /\ c.refresh \in Gemini!Logins \cup {Gemini!NoLogin}
           /\ c.access \in Gemini!Logins \cup {Gemini!NoLogin}
           /\ c.good \in BOOLEAN /\ c.date \in Gemini!Expiries /\ c.rfc \in Gemini!Expiries
<1>1. CASE c \in [kind : {"creds"}, refresh : Gemini!Logins \cup {Gemini!NoLogin},
                  access : Gemini!Logins \cup {Gemini!NoLogin}, good : BOOLEAN,
                  date : Gemini!Expiries, rfc : Gemini!Expiries]
  BY <1>1
<1>2. ASSUME NEW kind \in {"missing", "unreadable"}, c = Gemini!NoCreds(kind)
      PROVE  /\ c.kind = kind /\ c.refresh = Gemini!NoLogin /\ c.access = Gemini!NoLogin
             /\ c.good = FALSE /\ c.date = "none" /\ c.rfc = "none"
  BY <1>2, Zenon DEF Gemini!NoCreds
<1>3. c.good = FALSE => c.good \in BOOLEAN
  BY Zenon
<1> QED
  BY <1>1, <1>2, <1>3 DEF Gemini!Files, Gemini!Expiries

LEMMA GeminiNoCreds ==
    \A kind \in {"missing", "unreadable"} : Gemini!NoCreds(kind) \in Gemini!Files
BY DEF Gemini!Files

\* What is made of credentials that were found.
LEMMA GeminiCreds ==
    ASSUME NEW c \in Gemini!Files, c.kind = "creds",
           NEW login \in Gemini!Logins \cup {Gemini!NoLogin}, NEW good \in BOOLEAN,
           NEW date \in Gemini!Expiries, NEW rfc \in Gemini!Expiries
    PROVE  /\ [c EXCEPT !.refresh = login] \in Gemini!Files
           /\ [c EXCEPT !.access = login] \in Gemini!Files
           /\ LET d == [c EXCEPT !.good = good]
              IN  d \in Gemini!Files /\ d.date = c.date /\ d.rfc = c.rfc
           /\ [c EXCEPT !.good = good, !.date = date, !.rfc = rfc] \in Gemini!Files
<1> DEFINE Found == [kind : {"creds"}, refresh : Gemini!Logins \cup {Gemini!NoLogin},
                     access : Gemini!Logins \cup {Gemini!NoLogin}, good : BOOLEAN,
                     date : Gemini!Expiries, rfc : Gemini!Expiries]
<1>1. c \in Found
  BY DEF Gemini!Files, Gemini!NoCreds
<1>2. Found \subseteq Gemini!Files
  BY DEF Gemini!Files
<1> HIDE DEF Gemini!Files
<1> QED
  BY <1>1, <1>2

LEMMA GeminiRenewed ==
    ASSUME NEW c \in Gemini!Files, c.kind = "creds",
           NEW t \in [login : Gemini!Logins \cup {Gemini!NoLogin}, good : BOOLEAN]
    PROVE  LET d == [c EXCEPT !.access = t.login, !.good = t.good,
                              !.date = "ahead", !.rfc = "ahead"]
           IN  d \in Gemini!Files /\ d.date = "ahead" /\ d.rfc = "ahead"
<1>1. c \in [kind : {"creds"}, refresh : Gemini!Logins \cup {Gemini!NoLogin},
             access : Gemini!Logins \cup {Gemini!NoLogin}, good : BOOLEAN,
             date : Gemini!Expiries, rfc : Gemini!Expiries]
  BY DEF Gemini!Files, Gemini!NoCreds
<1>2. "ahead" \in Gemini!Expiries
  BY DEF Gemini!Expiries
<1> QED
  BY <1>1, <1>2 DEF Gemini!Files

LEMMA GeminiReturns ==
    ASSUME NEW outcome \in Gemini!Cards, Gemini!Return(outcome)
    PROVE  /\ geminiCard' \in Gemini!Cards /\ geminiPc' = "idle"
           /\ creds' \in Gemini!Files
           /\ geminiToken' \in [login : Gemini!Logins \cup {Gemini!NoLogin}, good : BOOLEAN]
BY GeminiNoCreds DEF Gemini!Return

\* A step of the read that leaves the file alone.
LEMMA GeminiReadOnly ==
    ASSUME GeminiInv, UNCHANGED <<geminiFile, geminiUsed, geminiCalm, renewed>>,
           geminiPc' \in {"idle", "refreshing", "rereading", "persisting", "fetching"},
           geminiPc' = "persisting" => creds'.kind = "creds",
           geminiPc' = "refreshing" => ~renewed,
           creds' \in Gemini!Files, geminiCard' \in Gemini!Cards,
           geminiToken' \in [login : Gemini!Logins \cup {Gemini!NoLogin}, good : BOOLEAN],
           shown' \in Gemini!Logins \cup {Gemini!NoLogin}
    PROVE  GeminiInv'
<1>1. Gemini!TypeOK'
  BY DEF GeminiInv, Gemini!TypeOK
<1> QED
  BY <1>1 DEF GeminiInv, Gemini!RefreshedOnce

\* A step of the CLI or of time.
LEMMA GeminiFileChanged ==
    ASSUME GeminiInv, geminiFile' \in Gemini!Files, geminiUsed' \in 0..MaxLogins,
           UNCHANGED <<geminiCalm, Gemini!reading>>,
           \/ renewed' = FALSE
           \/ renewed' = renewed /\ geminiFile'.date = geminiFile.date
                                 /\ geminiFile'.rfc = geminiFile.rfc
    PROVE  GeminiInv'
<1>1. UNCHANGED <<geminiPc, creds, geminiToken, geminiCard, shown>>
  BY DEF Gemini!reading
<1>2. renewed' \in BOOLEAN
  BY DEF GeminiInv, Gemini!TypeOK
<1>3. Gemini!TypeOK'
  BY <1>1, <1>2 DEF GeminiInv, Gemini!TypeOK
<1> QED
  BY <1>1, <1>3 DEF GeminiInv, Gemini!RefreshedOnce

LEMMA GeminiInit == Gemini!Init => GeminiInv
<1> SUFFICES ASSUME Gemini!Init PROVE GeminiInv
  OBVIOUS
<1> USE DEF Gemini!Init
<1>1. Gemini!TypeOK
  <2>1. geminiUsed \in 0..MaxLogins
    BY ReadersAssumption DEF Gemini!GeminiAssumption
  <2> QED
    BY <2>1, GeminiNoCreds DEF Gemini!TypeOK, Gemini!Cards
<1> QED
  BY <1>1 DEF GeminiInv, Gemini!RefreshedOnce

LEMMA GeminiPersist == GeminiInv /\ Gemini!Persist => GeminiInv'
<1> SUFFICES ASSUME GeminiInv, Gemini!Persist PROVE GeminiInv'
  OBVIOUS
<1>1. /\ geminiPc = "persisting" /\ geminiPc' = "fetching" /\ creds.kind = "creds"
      /\ creds \in Gemini!Files /\ creds' \in Gemini!Files
      /\ UNCHANGED <<geminiUsed, geminiCalm, geminiToken, geminiCard, shown>>
  BY GeminiNoCreds DEF Gemini!Persist, GeminiInv, Gemini!TypeOK
<1>2. CASE UNCHANGED <<geminiFile, renewed>>
  <2>1. Gemini!TypeOK'
    BY <1>1, <1>2 DEF GeminiInv, Gemini!TypeOK
  <2> QED
    BY <1>1, <1>2, <2>1 DEF GeminiInv, Gemini!RefreshedOnce
<1>3. CASE /\ geminiFile' = [creds EXCEPT !.access = geminiToken.login, !.good = geminiToken.good,
                                          !.date = "ahead", !.rfc = "ahead"]
           /\ renewed' = TRUE
  <2>1. geminiToken \in [login : Gemini!Logins \cup {Gemini!NoLogin}, good : BOOLEAN]
    BY DEF GeminiInv, Gemini!TypeOK
  <2>2. geminiFile' \in Gemini!Files /\ geminiFile'.date = "ahead" /\ geminiFile'.rfc = "ahead"
    BY <1>1, <1>3, <2>1, GeminiRenewed
  <2>3. Gemini!TypeOK'
    BY <1>1, <1>3, <2>2 DEF GeminiInv, Gemini!TypeOK
  <2> QED
    BY <1>1, <2>2, <2>3 DEF GeminiInv, Gemini!RefreshedOnce
<1> QED
  BY <1>2, <1>3 DEF Gemini!Persist

LEMMA GeminiStep == GeminiInv /\ [Gemini!Next]_(Gemini!vars) => GeminiInv'
<1> SUFFICES ASSUME GeminiInv, [Gemini!Next]_(Gemini!vars) PROVE GeminiInv'
  OBVIOUS
<1> DEFINE LoginsOrNone == Gemini!Logins \cup {Gemini!NoLogin}
<1>t. /\ geminiFile \in Gemini!Files /\ creds \in Gemini!Files
      /\ geminiToken \in [login : LoginsOrNone, good : BOOLEAN]
      /\ geminiCard \in Gemini!Cards /\ shown \in LoginsOrNone
      /\ geminiToken.login \in LoginsOrNone
      /\ geminiUsed \in 0..MaxLogins /\ MaxLogins \in Nat
  BY ReadersAssumption DEF GeminiInv, Gemini!TypeOK, Gemini!GeminiAssumption
<1>r. \A outcome \in Gemini!Cards : Gemini!Return(outcome) =>
         /\ geminiCard' \in Gemini!Cards /\ geminiPc' = "idle"
         /\ creds' \in Gemini!Files
         /\ geminiToken' \in [login : LoginsOrNone, good : BOOLEAN]
  BY GeminiReturns
<1>c. {"live", "needs_auth", "error", "none"} \subseteq Gemini!Cards
  BY DEF Gemini!Cards
<1> HIDE DEF LoginsOrNone
<1>0. ASSUME NEW outcome \in Gemini!Cards, Gemini!Return(outcome),
             UNCHANGED <<geminiFile, geminiUsed, geminiCalm, renewed>>,
             shown' \in LoginsOrNone
      PROVE  GeminiInv'
  BY <1>0, <1>r, GeminiReadOnly DEF LoginsOrNone
<1>1. CASE Gemini!ReadCredentials
  <2>1. UNCHANGED <<geminiFile, geminiUsed, geminiCalm, shown, renewed>>
    BY <1>1 DEF Gemini!ReadCredentials
  <2>2. CASE \E outcome \in Gemini!Cards : Gemini!Return(outcome)
    BY <1>0, <1>t, <2>1, <2>2
  <2>3. CASE Gemini!Expired(geminiFile) /\ creds' = geminiFile /\ geminiPc' = "refreshing"
             /\ UNCHANGED <<geminiToken, geminiCard>>
    <3>1. ~renewed
      BY <2>3 DEF GeminiInv, Gemini!Expired
    <3> QED
      BY <1>t, <2>1, <2>3, <3>1, GeminiReadOnly DEF LoginsOrNone
  <2>4. CASE geminiToken' = [login |-> geminiFile.access, good |-> geminiFile.good]
             /\ geminiPc' = "fetching" /\ UNCHANGED <<creds, geminiCard>>
    <3>1. geminiToken' \in [login : LoginsOrNone, good : BOOLEAN]
      BY <1>t, <2>4, GeminiFields DEF LoginsOrNone
    <3> QED
      BY <1>t, <2>1, <2>4, <3>1, GeminiReadOnly DEF LoginsOrNone
  <2> QED
    BY <1>1, <1>c, <2>2, <2>3, <2>4 DEF Gemini!ReadCredentials
<1>2. CASE Gemini!RefreshAnswered
  <2>1. geminiToken' \in [login : LoginsOrNone, good : BOOLEAN] /\ creds' \in Gemini!Files
    BY <1>2, <1>t, GeminiFields, GeminiNoCreds DEF Gemini!RefreshAnswered, LoginsOrNone
  <2> QED
    BY <1>2, <1>t, <2>1, GeminiReadOnly DEF Gemini!RefreshAnswered, LoginsOrNone
<1>3. CASE Gemini!RefreshFails \/ Gemini!Fetch \/ Gemini!Crash
  BY <1>3, <1>0, <1>t, <1>c DEF Gemini!RefreshFails, Gemini!Fetch, Gemini!Crash
<1>4. CASE Gemini!Reread
  BY <1>4, <1>t, GeminiReadOnly DEF Gemini!Reread, LoginsOrNone
<1>5. CASE Gemini!Persist
  BY <1>5, GeminiPersist
<1>6. ASSUME NEW login \in Gemini!Logins, Gemini!CLIWrites(login), geminiUsed' \in 0..MaxLogins,
             UNCHANGED <<geminiCalm, Gemini!reading>>
      PROVE  GeminiInv'
  <2>1. geminiFile' \in Gemini!Files /\ renewed' = FALSE
    BY <1>6 DEF Gemini!CLIWrites, Gemini!Creds, Gemini!Files, Gemini!Expiries
  <2> QED
    BY <1>6, <2>1, GeminiFileChanged
<1>7. CASE Gemini!CLILogin
  BY <1>6, <1>7, <1>t DEF Gemini!CLILogin, Gemini!Logins
<1>8. CASE Gemini!CLIRefreshes
  BY <1>6, <1>8, <1>t, GeminiFields DEF Gemini!CLIRefreshes
<1>9. CASE Gemini!CLIRemoves
  <2>1. geminiFile.kind = "creds" =>
           /\ [geminiFile EXCEPT !.refresh = Gemini!NoLogin] \in Gemini!Files
           /\ [geminiFile EXCEPT !.access = Gemini!NoLogin] \in Gemini!Files
    BY <1>t, GeminiFields, GeminiCreds, Zenon
  <2>2. geminiFile' \in Gemini!Files
    BY <1>9, <2>1, GeminiNoCreds DEF Gemini!CLIRemoves
  <2> QED
    BY <1>9, <1>t, <2>2, GeminiFileChanged DEF Gemini!CLIRemoves
<1>10. CASE Gemini!TokenExpires
  <2>1. geminiFile' \in Gemini!Files
    BY <1>10, <1>t, GeminiFields, GeminiCreds DEF Gemini!TokenExpires, Gemini!Expiries
  <2> QED
    BY <1>10, <1>t, <2>1, GeminiFileChanged DEF Gemini!TokenExpires
<1>11. CASE Gemini!TokenRevoked
  <2>1. geminiFile' \in Gemini!Files /\ geminiFile'.date = geminiFile.date
        /\ geminiFile'.rfc = geminiFile.rfc
    BY <1>11, <1>t, GeminiFields, GeminiCreds DEF Gemini!TokenRevoked
  <2> QED
    BY <1>11, <1>t, <2>1, GeminiFileChanged DEF Gemini!TokenRevoked
<1>12. CASE Gemini!CalmsDown \/ UNCHANGED Gemini!vars
  <2>1. UNCHANGED <<geminiFile, geminiUsed, geminiPc, creds, geminiToken, geminiCard, shown,
                    renewed>>
        /\ geminiCalm' \in BOOLEAN
    BY <1>12 DEF Gemini!CalmsDown, Gemini!vars, Gemini!reading, GeminiInv, Gemini!TypeOK
  <2> QED
    BY <2>1 DEF GeminiInv, Gemini!TypeOK, Gemini!RefreshedOnce
<1> QED
  BY <1>1, <1>2, <1>3, <1>4, <1>5, <1>7, <1>8, <1>9, <1>10, <1>11, <1>12
     DEF Gemini!Next, Gemini!Read

-----------------------------------------------------------------------------
(* Cursor *)

LEMMA CursorRowFields ==
    ASSUME NEW row \in Cursor!Rows
    PROVE  /\ row.serial \in 0..MaxSerial /\ row.health \in Cursor!Health
           /\ row.account # 0 =>
                /\ row \in [account : Cursor!Accounts, serial : 1..MaxSerial,
                            refresh : BOOLEAN, health : Cursor!Health]
                /\ row.account \in Cursor!Accounts /\ row.serial \in 1..MaxSerial
BY ReadersAssumption DEF Cursor!CursorAssumption, Cursor!Rows, Cursor!NoRow, Cursor!Row,
   Cursor!Health

LEMMA CursorNoRow ==
    ASSUME NEW serial \in 0..MaxSerial
    PROVE  /\ Cursor!NoRow(serial) \in Cursor!Rows
           /\ Cursor!NoRow(serial).account = 0 /\ Cursor!NoRow(serial).serial = serial
BY DEF Cursor!Rows, Cursor!NoRow, Cursor!Row

LEMMA CursorTokens ==
    /\ \A account \in Cursor!Accounts, health \in Cursor!Health :
          /\ Cursor!Token(account, health) \in Cursor!Tokens \ {Cursor!NoToken}
          /\ Cursor!Token(account, health).account = account
          /\ Cursor!Token(account, health).health = health
    /\ Cursor!NoToken \in Cursor!Tokens
BY DEF Cursor!Tokens, Cursor!Token, Cursor!NoToken, Cursor!Accounts

LEMMA CursorEntryFields ==
    ASSUME NEW e \in Cursor!Entries
    PROVE  /\ e.serial \in 0..MaxSerial /\ e.token \in Cursor!Tokens
           /\ e = Cursor!Empty <=> e.serial = 0
           /\ e # Cursor!Empty =>
                /\ e \in [serial : 1..MaxSerial,
                          token : [account : Cursor!Accounts, health : Cursor!Health]]
                /\ e.token # Cursor!NoToken
<1>1. Cursor!Empty.serial = 0 /\ Cursor!Empty.token = Cursor!NoToken
  BY DEF Cursor!Empty, Cursor!Entry
<1>2. Cursor!NoToken \in Cursor!Tokens /\ MaxSerial \in Nat
  BY ReadersAssumption, CursorTokens DEF Cursor!CursorAssumption
<1>3. CASE e \in [serial : 1..MaxSerial, token : Cursor!Tokens \ {Cursor!NoToken}]
  <2>1. e.token \in [account : Cursor!Accounts, health : Cursor!Health]
    BY <1>3 DEF Cursor!Tokens
  <2> QED
    BY <1>1, <1>3, <2>1
<1>4. CASE e = Cursor!Empty
  BY <1>1, <1>2, <1>4
<1> QED
  BY <1>3, <1>4 DEF Cursor!Entries

LEMMA CursorEntry ==
    /\ \A serial \in 1..MaxSerial, t \in Cursor!Tokens \ {Cursor!NoToken} :
          /\ Cursor!Entry(serial, t) \in Cursor!Entries
          /\ Cursor!Entry(serial, t).serial = serial
          /\ Cursor!Entry(serial, t).token = t
    /\ Cursor!Empty \in Cursor!Entries
    /\ Cursor!Empty.serial = 0
BY DEF Cursor!Entries, Cursor!Entry, Cursor!Empty

\* A read ends and leaves the cache alone, or loses it with the process.
LEMMA CursorEnds ==
    ASSUME CursorInv, NEW outcome \in Cursor!Cards, Cursor!Return(outcome),
           UNCHANGED <<db, cursorCalm>>,
           UNCHANGED <<cache, issued>> \/ (cache' = Cursor!Empty /\ issued' = Cursor!Empty)
    PROVE  CursorInv'
<1>1. /\ cursorCard' \in Cursor!Cards /\ cursorPc' = "idle" /\ cursorTried' = FALSE
      /\ auth' = Cursor!NoRow(0) /\ cursorToken' = Cursor!NoToken
  BY DEF Cursor!Return
<1>2. auth' \in Cursor!Rows /\ auth'.account = 0 /\ auth'.serial = 0
  BY <1>1, CursorNoRow, ReadersAssumption DEF Cursor!CursorAssumption
<1>3. db \in Cursor!Rows /\ db.serial \in 0..MaxSerial /\ (db.account # 0 => db.serial # 0)
  BY CursorRowFields DEF CursorInv, Cursor!TypeOK
<1>4. Cursor!TypeOK'
  BY <1>1, <1>2, CursorTokens, CursorEntry DEF CursorInv, Cursor!TypeOK
<1>5. CursorCacheOwned' /\ CursorCacheLatest'
  BY <1>3, CursorEntry DEF CursorInv, CursorCacheOwned, CursorCacheLatest
<1> QED
  BY <1>1, <1>2, <1>3, <1>4, <1>5
     DEF CursorInv, CursorRowOwned, Cursor!FiledUnderItsAccount, Cursor!NoNeedlessRefresh

LEMMA CursorInit == Cursor!Init => CursorInv
<1> SUFFICES ASSUME Cursor!Init PROVE CursorInv
  OBVIOUS
<1> USE DEF Cursor!Init
<1>1. /\ db \in Cursor!Rows /\ auth \in Cursor!Rows
      /\ db.account = 0 /\ db.serial = 0 /\ auth.account = 0 /\ auth.serial = 0
  BY CursorNoRow, ReadersAssumption DEF Cursor!CursorAssumption
<1>2. Cursor!TypeOK
  BY <1>1, CursorTokens, CursorEntry DEF Cursor!TypeOK, Cursor!Cards
<1>3. cache.serial = 0 /\ cache = issued
  BY CursorEntry
<1> QED
  BY <1>1, <1>2, <1>3
     DEF CursorInv, CursorCacheOwned, CursorRowOwned, CursorCacheLatest,
         Cursor!FiledUnderItsAccount, Cursor!NoNeedlessRefresh

LEMMA CursorReadAuth == CursorInv /\ Cursor!ReadAuth => CursorInv'
<1> SUFFICES ASSUME CursorInv, Cursor!ReadAuth PROVE CursorInv'
  OBVIOUS
<1>1. UNCHANGED <<db, cursorCalm, issued>>
  BY DEF Cursor!ReadAuth, Cursor!world
<1>2. CASE db.account = 0
  BY <1>1, <1>2, CursorEnds DEF Cursor!ReadAuth, Cursor!Cards
<1>3. CASE db.account # 0
  <2> DEFINE t == Cursor!CachedToken(db)
  <2>1. /\ auth' = db /\ cursorToken' = t
        /\ cache' = IF cache.serial = db.serial THEN cache ELSE Cursor!Empty
        /\ cursorPc' = IF t.health = "old" /\ db.refresh THEN "refreshing" ELSE "connect"
        /\ UNCHANGED <<cursorTried, cursorCard>>
    BY <1>3 DEF Cursor!ReadAuth
  <2>2. /\ db \in Cursor!Rows /\ db.account \in Cursor!Accounts /\ db.serial \in 1..MaxSerial
        /\ db.health \in Cursor!Health
        /\ cache \in Cursor!Entries /\ issued \in Cursor!Entries
        /\ cache.serial \in 0..MaxSerial /\ issued.serial \in 0..MaxSerial
        /\ cache.token \in Cursor!Tokens
    BY <1>3, CursorRowFields, CursorEntryFields DEF CursorInv, Cursor!TypeOK
  <2>3. t \in Cursor!Tokens /\ t.account = db.account
        /\ (t.health = "old" /\ cache.serial = db.serial => cache.token.health = "old")
    <3>1. CASE cache.serial = db.serial /\ cache.token.health # "old"
      <4>1. t = cache.token
        BY <3>1 DEF Cursor!CachedToken
      <4> QED
        BY <1>3, <2>2, <3>1, <4>1 DEF CursorInv, CursorCacheOwned
    <3>2. CASE ~(cache.serial = db.serial /\ cache.token.health # "old")
      <4>1. t = Cursor!Token(db.account, db.health)
        BY <3>2 DEF Cursor!CachedToken
      <4> QED
        BY <2>2, <3>2, <4>1, CursorTokens
    <3> QED
      BY <3>1, <3>2
  <2> HIDE DEF t
  <2>4. cache' \in Cursor!Entries
    BY <2>1, <2>2, CursorEntry
  <2>5. Cursor!TypeOK'
    BY <1>1, <2>1, <2>2, <2>3, <2>4 DEF CursorInv, Cursor!TypeOK
  <2>6. CursorCacheOwned'
    BY <1>1, <2>1, <2>2, CursorEntry DEF CursorInv, CursorCacheOwned
  <2>7. CursorRowOwned'
    BY <1>1, <1>3, <2>1, <2>2 DEF CursorRowOwned
  <2>8. cache = issued \/ (cache = Cursor!Empty /\ issued.serial < db.serial)
    BY DEF CursorInv, CursorCacheLatest
  <2>9. CursorCacheLatest'
    <3>1. CASE cache.serial = db.serial
      BY <1>1, <2>1, <2>8, <3>1 DEF CursorCacheLatest
    <3>2. CASE cache.serial # db.serial
      <4>1. issued.serial < db.serial
        BY <2>2, <2>8, <3>2 DEF CursorInv, CursorCacheOwned
      <4> QED
        BY <1>1, <2>1, <3>2, <4>1 DEF CursorCacheLatest
    <3> QED
      BY <3>1, <3>2
  <2>10. Cursor!FiledUnderItsAccount'
    BY <2>1, <2>3 DEF Cursor!FiledUnderItsAccount
  <2>11. Cursor!NoNeedlessRefresh'
    <3> SUFFICES ASSUME cursorPc' = "refreshing", issued.serial = db.serial
                 PROVE  issued.token.health # "fresh"
      BY <1>1, <2>1 DEF Cursor!NoNeedlessRefresh
    <3>1. cache = issued
      BY <2>2, <2>8
    <3> QED
      BY <2>1, <2>3, <3>1
  <2> QED
    BY <2>5, <2>6, <2>7, <2>9, <2>10, <2>11 DEF CursorInv
<1> QED
  BY <1>2, <1>3

LEMMA CursorRefreshAnswered == CursorInv /\ Cursor!RefreshAnswered => CursorInv'
<1> SUFFICES ASSUME CursorInv, Cursor!RefreshAnswered PROVE CursorInv'
  OBVIOUS
<1> DEFINE t == Cursor!Token(auth.account, "fresh")
<1>1. /\ cursorPc = "refreshing" /\ cursorPc' = "connect" /\ cursorToken' = t
      /\ cache' = Cursor!Entry(auth.serial, t) /\ issued' = cache'
      /\ UNCHANGED <<db, cursorCalm, auth, cursorTried, cursorCard>>
  BY DEF Cursor!RefreshAnswered, Cursor!world
<1>2. auth.account \in Cursor!Accounts /\ auth.serial \in 1..MaxSerial
  BY <1>1, CursorRowFields DEF CursorInv, Cursor!TypeOK, CursorRowOwned
<1>3. t \in Cursor!Tokens \ {Cursor!NoToken} /\ t.account = auth.account
  BY <1>2, CursorTokens DEF Cursor!Health
<1> HIDE DEF t
<1>4. cache' \in Cursor!Entries /\ cache'.serial = auth.serial /\ cache'.token = t
  BY <1>1, <1>2, <1>3, CursorEntry
<1>5. Cursor!TypeOK'
  BY <1>1, <1>3, <1>4 DEF CursorInv, Cursor!TypeOK
<1>6. CursorCacheOwned' /\ CursorRowOwned'
  BY <1>1, <1>2, <1>3, <1>4 DEF CursorInv, CursorCacheOwned, CursorRowOwned, Cursor!Accounts
<1> QED
  BY <1>1, <1>3, <1>5, <1>6
     DEF CursorInv, CursorCacheLatest, Cursor!FiledUnderItsAccount, Cursor!NoNeedlessRefresh

\* Cursor changes its own row; the read goes on with what it has.
LEMMA CursorStoreChanged ==
    ASSUME CursorInv, db' \in Cursor!Rows,
           UNCHANGED <<cursorCalm, cursorPc, auth, cursorToken, cursorTried, cursorCard, cache,
                       issued>>,
           \/ db'.serial = db.serial + 1
           \/ db'.serial = db.serial /\ db'.account \in {0, db.account}
    PROVE  CursorInv'
<1>1. Cursor!TypeOK'
  BY DEF CursorInv, Cursor!TypeOK
<1>2. /\ db.serial \in Nat /\ cache.serial \in Nat /\ auth.serial \in Nat /\ issued.serial \in Nat
  BY CursorRowFields, CursorEntryFields DEF CursorInv, Cursor!TypeOK
<1>3. CursorCacheOwned' /\ CursorRowOwned' /\ CursorCacheLatest'
  BY <1>2 DEF CursorInv, CursorCacheOwned, CursorRowOwned, CursorCacheLatest
<1> QED
  BY <1>1, <1>3 DEF CursorInv, Cursor!FiledUnderItsAccount, Cursor!NoNeedlessRefresh

LEMMA CursorTokenAges == CursorInv /\ Cursor!RefreshedTokenAges => CursorInv'
<1> SUFFICES ASSUME CursorInv, Cursor!RefreshedTokenAges PROVE CursorInv'
  OBVIOUS
<1>1. PICK h \in {"old", "rejected"} :
         /\ issued' = [issued EXCEPT !.token.health = h]
         /\ cache' = IF cache = issued THEN issued' ELSE cache
  BY DEF Cursor!RefreshedTokenAges
<1>2. /\ issued # Cursor!Empty
      /\ UNCHANGED <<db, cursorCalm, cursorPc, auth, cursorToken, cursorTried, cursorCard>>
  BY DEF Cursor!RefreshedTokenAges, Cursor!world, Cursor!reading
<1>3. issued \in Cursor!Entries /\ cache \in Cursor!Entries
  BY DEF CursorInv, Cursor!TypeOK
<1>4. issued \in [serial : 1..MaxSerial,
                  token : [account : Cursor!Accounts, health : Cursor!Health]]
  BY <1>2, <1>3, CursorEntryFields
<1>5. /\ issued' = Cursor!Entry(issued.serial, Cursor!Token(issued.token.account, h))
      /\ issued.token.account \in Cursor!Accounts /\ issued.serial \in 1..MaxSerial
      /\ h \in Cursor!Health
  BY <1>1, <1>4 DEF Cursor!Entry, Cursor!Token, Cursor!Health
<1>6. /\ issued' \in Cursor!Entries /\ issued'.serial = issued.serial
      /\ issued'.token.account = issued.token.account /\ issued'.token.health = h
  BY <1>5, CursorTokens, CursorEntry
<1>7. Cursor!TypeOK'
  BY <1>1, <1>2, <1>3, <1>6 DEF CursorInv, Cursor!TypeOK
<1>8. CursorCacheOwned' /\ CursorCacheLatest'
  BY <1>1, <1>2, <1>6 DEF CursorInv, CursorCacheOwned, CursorCacheLatest
<1>9. CursorRowOwned' /\ Cursor!FiledUnderItsAccount'
  BY <1>2 DEF CursorInv, CursorRowOwned, Cursor!FiledUnderItsAccount
<1>10. Cursor!NoNeedlessRefresh'
  BY <1>1, <1>6 DEF Cursor!NoNeedlessRefresh
<1> QED
  BY <1>7, <1>8, <1>9, <1>10 DEF CursorInv

LEMMA CursorStep == CursorInv /\ [Cursor!Next]_(Cursor!vars) => CursorInv'
<1> SUFFICES ASSUME CursorInv, [Cursor!Next]_(Cursor!vars) PROVE CursorInv'
  OBVIOUS
<1>t. db \in Cursor!Rows /\ db.serial \in 0..MaxSerial /\ MaxSerial \in Nat
  BY CursorRowFields, ReadersAssumption DEF CursorInv, Cursor!TypeOK, Cursor!CursorAssumption
<1>0. ASSUME NEW outcome \in Cursor!Cards, Cursor!Return(outcome),
             UNCHANGED <<db, cursorCalm, cache, issued>>
      PROVE  CursorInv'
  BY <1>0, CursorEnds
<1>c. {"live", "needs_auth", "error", "none"} \subseteq Cursor!Cards
  BY DEF Cursor!Cards
<1>1. CASE Cursor!ReadAuth
  BY <1>1, CursorReadAuth
<1>2. CASE Cursor!RefreshAnswered
  BY <1>2, CursorRefreshAnswered
<1>3. CASE Cursor!RefreshFails
  BY <1>3, <1>0, <1>c DEF Cursor!RefreshFails, Cursor!world
\* After a rejection, or on the way to the other API, nothing but the place and
\* the retry changes.
<1>4. ASSUME cursorPc \in {"connect", "rest"}, UNCHANGED <<db, cursorCalm, cache, issued>>,
             UNCHANGED <<auth, cursorToken, cursorCard>>,
             \/ cursorTried' = TRUE /\ cursorPc' = "refreshing"
             \/ cursorTried' = cursorTried /\ cursorPc' = "rest"
      PROVE  CursorInv'
  <2>1. cursorTried' \in BOOLEAN
    BY <1>4 DEF CursorInv, Cursor!TypeOK
  <2>2. Cursor!TypeOK'
    BY <1>4, <2>1 DEF CursorInv, Cursor!TypeOK
  <2>3. CursorCacheOwned' /\ CursorRowOwned' /\ CursorCacheLatest'
    BY <1>4 DEF CursorInv, CursorCacheOwned, CursorRowOwned, CursorCacheLatest
  <2> QED
    BY <1>4, <2>2, <2>3 DEF CursorInv, Cursor!FiledUnderItsAccount, Cursor!NoNeedlessRefresh
<1>5. CASE Cursor!Connect
  <2>1. cursorPc = "connect" /\ UNCHANGED <<db, cursorCalm, cache, issued>>
    BY <1>5 DEF Cursor!Connect, Cursor!world, Cursor!Unauthorized
  <2>2. \/ \E outcome \in Cursor!Cards : Cursor!Return(outcome)
        \/ UNCHANGED <<auth, cursorToken, cursorCard>> /\ cursorTried' = TRUE
             /\ cursorPc' = "refreshing"
        \/ UNCHANGED <<auth, cursorToken, cursorCard, cursorTried>> /\ cursorPc' = "rest"
    BY <1>5, <1>c DEF Cursor!Connect, Cursor!Unauthorized, Cursor!reading
  <2> QED
    BY <1>0, <1>4, <2>1, <2>2
<1>6. CASE Cursor!Rest
  <2>1. cursorPc = "rest" /\ UNCHANGED <<db, cursorCalm, cache, issued>>
    BY <1>6 DEF Cursor!Rest, Cursor!world, Cursor!Unauthorized
  <2>2. \/ \E outcome \in Cursor!Cards : Cursor!Return(outcome)
        \/ UNCHANGED <<auth, cursorToken, cursorCard>> /\ cursorTried' = TRUE
             /\ cursorPc' = "refreshing"
    BY <1>6, <1>c DEF Cursor!Rest, Cursor!Unauthorized
  <2> QED
    BY <1>0, <1>4, <2>1, <2>2
<1>7. CASE Cursor!Restart
  BY <1>7, <1>c, CursorEnds DEF Cursor!Restart, Cursor!world
<1>8. CASE Cursor!CursorStores
  <2>1. db' \in Cursor!Rows /\ db'.serial = db.serial + 1
    BY <1>8, <1>t DEF Cursor!CursorStores, Cursor!Row, Cursor!Rows, Cursor!Health
  <2> QED
    BY <1>8, <2>1, CursorStoreChanged DEF Cursor!CursorStores, Cursor!reading
<1>9. CASE Cursor!CursorLogsOut
  BY <1>9, <1>t, CursorNoRow, CursorStoreChanged DEF Cursor!CursorLogsOut, Cursor!reading
<1>10. CASE Cursor!StoredTokenAges
  <2>1. db \in [account : Cursor!Accounts, serial : 1..MaxSerial,
                refresh : BOOLEAN, health : Cursor!Health]
    BY <1>10, <1>t, CursorRowFields DEF Cursor!StoredTokenAges
  <2>2. db' \in Cursor!Rows /\ db'.serial = db.serial /\ db'.account = db.account
    BY <1>10, <2>1 DEF Cursor!StoredTokenAges, Cursor!Rows, Cursor!Health
  <2> QED
    BY <1>10, <2>2, CursorStoreChanged DEF Cursor!StoredTokenAges, Cursor!reading
<1>11. CASE Cursor!RefreshedTokenAges
  BY <1>11, CursorTokenAges
<1>12. CASE Cursor!CalmsDown \/ UNCHANGED Cursor!vars
  <2>1. /\ UNCHANGED <<db, cursorPc, auth, cursorToken, cursorTried, cursorCard, cache, issued>>
        /\ cursorCalm' \in BOOLEAN
    BY <1>12 DEF Cursor!CalmsDown, Cursor!vars, Cursor!world, Cursor!reading, CursorInv,
       Cursor!TypeOK
  <2> QED
    BY <2>1 DEF CursorInv, Cursor!TypeOK, CursorCacheOwned, CursorRowOwned, CursorCacheLatest,
       Cursor!FiledUnderItsAccount, Cursor!NoNeedlessRefresh
<1> QED
  BY <1>1, <1>2, <1>3, <1>5, <1>6, <1>7, <1>8, <1>9, <1>10, <1>11, <1>12
     DEF Cursor!Next, Cursor!Read

-----------------------------------------------------------------------------
(* Antigravity *)

\* Ages and the two values beyond them, for the constants there are.
LEMMA AntigravityAges ==
    /\ Cutoff \in Nat /\ EndpointTTL \in Nat \ {0} /\ PathTTL \in Nat \ {0}
    /\ FixedFiles \subseteq StatusFiles
    /\ AntigravityApp!TooOld = Cutoff + 1 /\ AntigravityApp!Gone = Cutoff + 2
    /\ AntigravityApp!Ages = 0..(Cutoff + 1)
    /\ AntigravityApp!Nothing = [claimed |-> Cutoff + 2, true |-> Cutoff + 2]
    /\ AntigravityApp!Nothing \in [claimed : 0..(Cutoff + 2), true : 0..(Cutoff + 2)]
    /\ AntigravityApp!Ages \cup {AntigravityApp!Gone} = 0..(Cutoff + 2)
BY ReadersAssumption
   DEF AntigravityApp!AntigravityAssumption, AntigravityApp!TooOld, AntigravityApp!Gone,
       AntigravityApp!Ages, AntigravityApp!Nothing

LEMMA AntigravityNoFile ==
    AntigravityApp!NoFile \in [file : StatusFiles, age : AntigravityApp!Ages]
<1>1. PICK file \in StatusFiles : TRUE
  BY ReadersAssumption DEF AntigravityApp!AntigravityAssumption
<1>2. (CHOOSE f \in StatusFiles : TRUE) \in StatusFiles
  BY <1>1
<1> QED
  BY <1>2, AntigravityAges DEF AntigravityApp!NoFile

\* A read ends.
LEMMA AntigravityEnds ==
    ASSUME AntigravityInv, NEW outcome \in AntigravityApp!Cards,
           AntigravityApp!Return(outcome),
           UNCHANGED <<ports, disk, regime, endpoints, endAge, paths, pathAge>>
    PROVE  AntigravityInv'
<1>1. /\ antigravityCard' = outcome /\ antigravityPc' = "idle" /\ pending' = {} /\ todo' = {}
      /\ best' = AntigravityApp!Nothing /\ held' = AntigravityApp!NoFile /\ disturbed' = FALSE
  BY DEF AntigravityApp!Return
<1>2. AntigravityApp!TypeOK'
  BY <1>1, AntigravityAges, AntigravityNoFile DEF AntigravityInv, AntigravityApp!TypeOK
<1>3. AntigravityBest'
  BY <1>1 DEF AntigravityBest
<1> QED
  BY <1>2, <1>3 DEF AntigravityInv

LEMMA AntigravityInit == AntigravityApp!Init => AntigravityInv
<1> SUFFICES ASSUME AntigravityApp!Init PROVE AntigravityInv
  OBVIOUS
<1> USE DEF AntigravityApp!Init
<1>1. AntigravityApp!TypeOK
  <2>1. ports \in [Ports -> AntigravityApp!Answers]
    BY DEF AntigravityApp!Answers
  <2>2. disk \in [StatusFiles -> AntigravityApp!Ages \cup {AntigravityApp!Gone}]
    OBVIOUS
  <2>3. /\ endpoints \subseteq Ports /\ endAge \in 0..EndpointTTL
        /\ paths \subseteq StatusFiles /\ pathAge \in 0..PathTTL
        /\ pending \subseteq Ports /\ todo \subseteq StatusFiles
    BY AntigravityAges
  <2>4. best \in [claimed : AntigravityApp!Ages \cup {AntigravityApp!Gone},
                  true : AntigravityApp!Ages \cup {AntigravityApp!Gone}]
    BY AntigravityAges
  <2> QED
    BY <2>1, <2>2, <2>3, <2>4, AntigravityNoFile
       DEF AntigravityApp!TypeOK, AntigravityApp!Cards
<1>2. AntigravityBest
  BY DEF AntigravityBest
<1> QED
  BY <1>1, <1>2 DEF AntigravityInv

LEMMA AntigravityBegin == AntigravityInv /\ AntigravityApp!Begin => AntigravityInv'
<1> SUFFICES ASSUME AntigravityInv, AntigravityApp!Begin PROVE AntigravityInv'
  OBVIOUS
<1>1. /\ endpoints' \subseteq Ports /\ endAge' \in 0..EndpointTTL
      /\ antigravityPc = "idle" /\ antigravityPc' = "probing" /\ pending' = endpoints'
      /\ UNCHANGED <<ports, disk, regime, paths, pathAge, todo, held, best,
                     antigravityCard, disturbed>>
  BY AntigravityAges
     DEF AntigravityApp!Begin, AntigravityApp!world, AntigravityInv, AntigravityApp!TypeOK
<1>2. AntigravityApp!TypeOK'
  BY <1>1 DEF AntigravityInv, AntigravityApp!TypeOK
<1>3. AntigravityBest'
  BY <1>1 DEF AntigravityInv, AntigravityBest
<1> QED
  BY <1>2, <1>3 DEF AntigravityInv

LEMMA AntigravityProbes ==
    AntigravityInv /\ (AntigravityApp!EndpointAnswers \/ AntigravityApp!ProbeTimesOut)
        => AntigravityInv'
<1> SUFFICES ASSUME AntigravityInv,
                    AntigravityApp!EndpointAnswers \/ AntigravityApp!ProbeTimesOut
             PROVE  AntigravityInv'
  OBVIOUS
<1>1. UNCHANGED <<ports, disk, regime, endpoints, endAge, paths, pathAge>>
  BY DEF AntigravityApp!EndpointAnswers, AntigravityApp!ProbeTimesOut,
         AntigravityApp!world, AntigravityApp!caches
<1>2. CASE AntigravityApp!Return("live")
  BY <1>1, <1>2, AntigravityEnds DEF AntigravityApp!Cards
<1>3. CASE /\ pending' \in SUBSET pending
           /\ UNCHANGED <<antigravityPc, todo, held, best, antigravityCard, disturbed>>
  <2>1. AntigravityApp!TypeOK'
    BY <1>1, <1>3 DEF AntigravityInv, AntigravityApp!TypeOK
  <2>2. AntigravityBest'
    BY <1>1, <1>3 DEF AntigravityInv, AntigravityBest, AntigravityRead
  <2> QED
    BY <2>1, <2>2 DEF AntigravityInv
<1> QED
  BY <1>2, <1>3 DEF AntigravityApp!EndpointAnswers, AntigravityApp!ProbeTimesOut

\* All files that are listed have to be read before any counts.
LEMMA AntigravityFindFiles == AntigravityInv /\ AntigravityApp!FindFiles => AntigravityInv'
<1> SUFFICES ASSUME AntigravityInv, AntigravityApp!FindFiles PROVE AntigravityInv'
  OBVIOUS
<1>1. /\ paths' \subseteq StatusFiles /\ pathAge' \in 0..PathTTL
      /\ antigravityPc = "probing" /\ antigravityPc' = "files" /\ todo' = paths'
      /\ UNCHANGED <<ports, disk, regime, endpoints, endAge, pending, held, best,
                     antigravityCard, disturbed>>
  BY AntigravityAges
     DEF AntigravityApp!FindFiles, AntigravityApp!world, AntigravityInv,
         AntigravityApp!TypeOK
<1>2. AntigravityApp!TypeOK'
  BY <1>1 DEF AntigravityInv, AntigravityApp!TypeOK
<1>3. best' = AntigravityApp!Nothing /\ AntigravityRead' = {}
  BY <1>1 DEF AntigravityInv, AntigravityBest, AntigravityRead
<1>4. AntigravityBest'
  BY <1>1, <1>3, AntigravityAges DEF AntigravityBest
<1> QED
  BY <1>2, <1>4 DEF AntigravityInv

LEMMA AntigravityReadFile == AntigravityInv /\ AntigravityApp!ReadFile => AntigravityInv'
<1> SUFFICES ASSUME AntigravityInv, AntigravityApp!ReadFile PROVE AntigravityInv'
  OBVIOUS
<1>1. PICK f \in todo :
        /\ todo' = todo \ {f}
        /\ IF disk[f] = AntigravityApp!Gone
           THEN UNCHANGED <<held, antigravityPc>>
           ELSE held' = [file |-> f, age |-> disk[f]] /\ antigravityPc' = "stat"
  BY DEF AntigravityApp!ReadFile
<1>2. /\ antigravityPc = "files"
      /\ UNCHANGED <<ports, disk, regime, endpoints, endAge, paths, pathAge, pending, best,
                     antigravityCard, disturbed>>
  BY DEF AntigravityApp!ReadFile, AntigravityApp!world, AntigravityApp!caches
<1>3. /\ f \in StatusFiles /\ f \in paths /\ todo \subseteq paths
      /\ disk[f] \in 0..(Cutoff + 2)
      /\ best.true \in 0..(Cutoff + 2)
  BY <1>2, AntigravityAges DEF AntigravityInv, AntigravityBest, AntigravityApp!TypeOK
<1>4. CASE disk[f] = AntigravityApp!Gone
  <2>1. held' = held /\ antigravityPc' = "files"
    BY <1>1, <1>2, <1>4
  <2>2. AntigravityApp!TypeOK'
    BY <1>1, <1>2, <2>1 DEF AntigravityInv, AntigravityApp!TypeOK
  <2>3. AntigravityRead' = AntigravityRead \cup {f}
    BY <1>1, <1>2, <1>3, <2>1 DEF AntigravityRead
  <2>4. AntigravityBest'
    BY <1>1, <1>2, <1>3, <1>4, <2>1, <2>3, AntigravityAges
       DEF AntigravityInv, AntigravityBest
  <2> QED
    BY <2>2, <2>4 DEF AntigravityInv
<1>5. CASE disk[f] # AntigravityApp!Gone
  <2>1. /\ held' = [file |-> f, age |-> disk[f]] /\ antigravityPc' = "stat"
        /\ held'.file = f /\ held'.age = disk[f]
    BY <1>1, <1>5
  <2>2. held' \in [file : StatusFiles, age : AntigravityApp!Ages]
    BY <1>3, <1>5, <2>1, AntigravityAges
  <2>3. AntigravityApp!TypeOK'
    BY <1>1, <1>2, <2>1, <2>2 DEF AntigravityInv, AntigravityApp!TypeOK
  <2>4. AntigravityRead' = AntigravityRead
    BY <1>1, <1>2, <1>3, <2>1 DEF AntigravityRead
  <2>5. AntigravityBest'
    BY <1>1, <1>2, <1>3, <2>1, <2>4 DEF AntigravityInv, AntigravityBest
  <2> QED
    BY <2>3, <2>5 DEF AntigravityInv
<1> QED
  BY <1>4, <1>5

LEMMA AntigravityStatFile == AntigravityInv /\ AntigravityApp!StatFile => AntigravityInv'
<1> SUFFICES ASSUME AntigravityInv, AntigravityApp!StatFile PROVE AntigravityInv'
  OBVIOUS
<1> DEFINE claimed == IF disk[held.file] = AntigravityApp!Gone
                      THEN AntigravityApp!TooOld ELSE disk[held.file]
<1>1. /\ antigravityPc = "stat" /\ antigravityPc' = "files"
      /\ best' = IF claimed < best.claimed
                 THEN [claimed |-> claimed, true |-> held.age] ELSE best
      /\ held' = AntigravityApp!NoFile
      /\ UNCHANGED <<ports, disk, regime, endpoints, endAge, paths, pathAge, pending, todo,
                     antigravityCard, disturbed>>
  BY DEF AntigravityApp!StatFile, AntigravityApp!world, AntigravityApp!caches
<1>2. /\ held.file \in StatusFiles /\ held.age \in 0..(Cutoff + 1)
      /\ disk[held.file] \in 0..(Cutoff + 2)
      /\ best \in [claimed : 0..(Cutoff + 2), true : 0..(Cutoff + 2)]
      /\ best.claimed \in 0..(Cutoff + 2) /\ best.true \in 0..(Cutoff + 2)
  BY AntigravityAges DEF AntigravityInv, AntigravityApp!TypeOK
<1>3. claimed \in 0..(Cutoff + 2) /\ (disk[held.file] = held.age => claimed = held.age)
  BY <1>2, AntigravityAges
<1> HIDE DEF claimed
<1>4. /\ claimed < best.claimed => best'.claimed = claimed /\ best'.true = held.age
      /\ ~(claimed < best.claimed) => best' = best
  BY <1>1
<1>5. best' \in [claimed : 0..(Cutoff + 2), true : 0..(Cutoff + 2)]
  <2>1. [claimed |-> claimed, true |-> held.age]
           \in [claimed : 0..(Cutoff + 2), true : 0..(Cutoff + 2)]
    BY <1>2, <1>3, AntigravityAges
  <2> QED
    BY <1>1, <1>2, <2>1
<1>6. AntigravityApp!TypeOK'
  BY <1>1, <1>5, AntigravityAges, AntigravityNoFile DEF AntigravityInv, AntigravityApp!TypeOK
<1>7. AntigravityRead' = AntigravityRead \cup {held.file}
  BY <1>1 DEF AntigravityRead, AntigravityInv, AntigravityBest
<1>8. todo' \subseteq paths'
  BY <1>1 DEF AntigravityInv, AntigravityBest
<1>9. ASSUME ~disturbed
      PROVE  /\ best'.claimed = best'.true
             /\ \A f \in AntigravityRead \cup {held.file} : best'.true <= disk[f]
             /\ \/ best'.true = AntigravityApp!Gone
                \/ \E f \in AntigravityRead \cup {held.file} : best'.true = disk[f]
  <2>1. /\ claimed = disk[held.file] /\ held.age = disk[held.file]
        /\ best.claimed = best.true
        /\ \A f \in AntigravityRead : best.true <= disk[f]
        /\ best.true = AntigravityApp!Gone \/ \E f \in AntigravityRead : best.true = disk[f]
    BY <1>1, <1>3, <1>9 DEF AntigravityInv, AntigravityBest
  <2>2. \A f \in AntigravityRead : disk[f] \in 0..(Cutoff + 2)
    BY AntigravityAges DEF AntigravityInv, AntigravityApp!TypeOK, AntigravityRead
  <2>3. CASE claimed < best.claimed
    BY <1>2, <1>3, <1>4, <2>1, <2>2, <2>3, AntigravityAges
  <2>4. CASE ~(claimed < best.claimed)
    BY <1>2, <1>3, <1>4, <2>1, <2>2, <2>4, AntigravityAges
  <2> QED
    BY <2>3, <2>4
<1>10. AntigravityBest'
  BY <1>1, <1>7, <1>8, <1>9 DEF AntigravityBest
<1> QED
  BY <1>6, <1>10 DEF AntigravityInv

LEMMA AntigravityFinish == AntigravityInv /\ AntigravityApp!Finish => AntigravityInv'
BY AntigravityEnds
   DEF AntigravityApp!Finish, AntigravityApp!Cards, AntigravityApp!world,
       AntigravityApp!caches

\* What happens outside the read.  A file that changes during one spoils it.
LEMMA AntigravityOutside ==
    AntigravityInv /\ (AntigravityApp!ServerChanges \/ AntigravityApp!FileChanges
                       \/ AntigravityApp!Tick \/ AntigravityApp!Settles)
        => AntigravityInv'
<1> SUFFICES ASSUME AntigravityInv,
                    AntigravityApp!ServerChanges \/ AntigravityApp!FileChanges
                    \/ AntigravityApp!Tick \/ AntigravityApp!Settles
             PROVE  AntigravityInv'
  OBVIOUS
<1> USE DEF AntigravityApp!world, AntigravityApp!caches, AntigravityApp!reading
<1>1. CASE AntigravityApp!ServerChanges
  <2>1. ports' \in [Ports -> AntigravityApp!Answers]
    BY <1>1 DEF AntigravityApp!ServerChanges, AntigravityInv, AntigravityApp!TypeOK
  <2>2. AntigravityApp!TypeOK'
    BY <1>1, <2>1 DEF AntigravityApp!ServerChanges, AntigravityInv, AntigravityApp!TypeOK
  <2>3. AntigravityBest'
    BY <1>1
       DEF AntigravityApp!ServerChanges, AntigravityInv, AntigravityBest, AntigravityRead
  <2> QED
    BY <2>2, <2>3 DEF AntigravityInv
<1>2. CASE AntigravityApp!FileChanges
  <2>1. disk' \in [StatusFiles -> AntigravityApp!Ages \cup {AntigravityApp!Gone}]
    <3>1. PICK f \in StatusFiles, age \in {0, AntigravityApp!Gone} :
             disk' = [disk EXCEPT ![f] = age]
      BY <1>2 DEF AntigravityApp!FileChanges
    <3>2. age \in AntigravityApp!Ages \cup {AntigravityApp!Gone}
      BY AntigravityAges
    <3> QED
      BY <3>1, <3>2 DEF AntigravityInv, AntigravityApp!TypeOK
  <2>2. /\ disturbed' = (antigravityPc # "idle") /\ disturbed' \in BOOLEAN
        /\ UNCHANGED <<ports, regime, endpoints, endAge, paths, pathAge, antigravityPc,
                       pending, todo, held, best, antigravityCard>>
    BY <1>2 DEF AntigravityApp!FileChanges
  <2>3. AntigravityApp!TypeOK'
    BY <2>1, <2>2 DEF AntigravityInv, AntigravityApp!TypeOK
  <2>4. antigravityPc \in {"files", "stat"} => disturbed'
    BY <2>2
  <2>5. AntigravityBest'
    BY <2>2, <2>4 DEF AntigravityInv, AntigravityBest
  <2> QED
    BY <2>3, <2>5 DEF AntigravityInv
<1>3. CASE AntigravityApp!Tick
  <2>1. /\ disk' = [f \in StatusFiles |-> IF disk[f] = AntigravityApp!Gone
                                          THEN AntigravityApp!Gone
                                          ELSE AntigravityApp!Older(disk[f])]
        /\ antigravityPc = "idle"
        /\ endAge' = IF endAge < EndpointTTL THEN endAge + 1 ELSE endAge
        /\ pathAge' = IF pathAge < PathTTL THEN pathAge + 1 ELSE pathAge
        /\ endpoints' = IF endAge' = EndpointTTL THEN {} ELSE endpoints
        /\ paths' = IF pathAge' = PathTTL THEN {} ELSE paths
        /\ UNCHANGED <<ports, regime, antigravityPc, pending, todo, held, best,
                       antigravityCard, disturbed>>
    BY <1>3 DEF AntigravityApp!Tick
  <2>2. disk' \in [StatusFiles -> AntigravityApp!Ages \cup {AntigravityApp!Gone}]
    <3>1. \A f \in StatusFiles : disk[f] \in AntigravityApp!Ages \cup {AntigravityApp!Gone}
      BY DEF AntigravityInv, AntigravityApp!TypeOK
    <3>2. \A age \in AntigravityApp!Ages : AntigravityApp!Older(age) \in AntigravityApp!Ages
      BY AntigravityAges DEF AntigravityApp!Older
    <3> QED
      BY <2>1, <3>1, <3>2
  <2>3. endAge' \in 0..EndpointTTL /\ pathAge' \in 0..PathTTL
    BY <2>1, AntigravityAges DEF AntigravityInv, AntigravityApp!TypeOK
  <2>4. endpoints' \subseteq Ports /\ paths' \subseteq StatusFiles
    BY <2>1 DEF AntigravityInv, AntigravityApp!TypeOK
  <2>5. AntigravityApp!TypeOK'
    BY <2>1, <2>2, <2>3, <2>4 DEF AntigravityInv, AntigravityApp!TypeOK
  <2>6. AntigravityBest'
    BY <2>1 DEF AntigravityInv, AntigravityBest
  <2> QED
    BY <2>5, <2>6 DEF AntigravityInv
<1>4. CASE AntigravityApp!Settles
  <2>1. /\ regime' \in {"any", "serving", "silent"}
        /\ UNCHANGED <<ports, disk, endpoints, endAge, paths, pathAge, antigravityPc,
                       pending, todo, held, best, antigravityCard, disturbed>>
    BY <1>4 DEF AntigravityApp!Settles
  <2>2. AntigravityApp!TypeOK'
    BY <2>1 DEF AntigravityInv, AntigravityApp!TypeOK
  <2>3. AntigravityBest'
    BY <2>1 DEF AntigravityInv, AntigravityBest, AntigravityRead
  <2> QED
    BY <2>2, <2>3 DEF AntigravityInv
<1> QED
  BY <1>1, <1>2, <1>3, <1>4

LEMMA AntigravityStep ==
    AntigravityInv /\ [AntigravityApp!Next]_(AntigravityApp!vars) => AntigravityInv'
<1> SUFFICES ASSUME AntigravityInv, [AntigravityApp!Next]_(AntigravityApp!vars)
             PROVE  AntigravityInv'
  OBVIOUS
<1>1. CASE AntigravityApp!Next
  BY <1>1, AntigravityBegin, AntigravityProbes, AntigravityFindFiles, AntigravityReadFile,
     AntigravityStatFile, AntigravityFinish, AntigravityOutside
     DEF AntigravityApp!Next, AntigravityApp!Read
<1>2. CASE UNCHANGED AntigravityApp!vars
  <2>1. UNCHANGED <<ports, disk, regime, endpoints, endAge, paths, pathAge, antigravityPc,
                    pending, todo, held, best, antigravityCard, disturbed>>
    BY <1>2 DEF AntigravityApp!vars, AntigravityApp!world, AntigravityApp!caches,
                AntigravityApp!reading
  <2>2. AntigravityApp!TypeOK'
    BY <2>1 DEF AntigravityInv, AntigravityApp!TypeOK
  <2>3. AntigravityBest'
    BY <2>1 DEF AntigravityInv, AntigravityBest, AntigravityRead
  <2> QED
    BY <2>2, <2>3 DEF AntigravityInv
<1> QED
  BY <1>1, <1>2

\* The age Finish compares is the least of the files it knew of.
LEMMA AntigravityFinds ==
    ASSUME AntigravityInv, AntigravityApp!Finish, ~disturbed
    PROVE  LET age == AntigravityApp!Min({disk[f] : f \in paths} \cup {AntigravityApp!Gone})
           IN IF age <= Cutoff THEN antigravityCard' = "stale" /\ best.true = age
                               ELSE antigravityCard' = "none"
<1> DEFINE ages == {disk[f] : f \in paths} \cup {AntigravityApp!Gone}
           age == AntigravityApp!Min(ages)
<1>1. /\ antigravityPc = "files" /\ todo = {}
      /\ antigravityCard' = IF best.claimed <= Cutoff THEN "stale" ELSE "none"
  BY DEF AntigravityApp!Finish, AntigravityApp!Return
<1>2. /\ best.claimed = best.true
      /\ \A f \in paths : best.true <= disk[f]
      /\ best.true = AntigravityApp!Gone \/ \E f \in paths : best.true = disk[f]
  <2>1. AntigravityRead = paths
    BY <1>1 DEF AntigravityRead
  <2> QED
    BY <1>1, <2>1 DEF AntigravityInv, AntigravityBest
<1>3. ages \subseteq 0..(Cutoff + 2) /\ best.true \in 0..(Cutoff + 2)
  BY AntigravityAges DEF AntigravityInv, AntigravityApp!TypeOK
<1>4. best.true \in ages /\ \A a \in ages : best.true <= a
  BY <1>2, <1>3, AntigravityAges
<1> HIDE DEF ages
<1>5. age \in ages /\ \A a \in ages : age <= a
  BY <1>4 DEF AntigravityApp!Min
<1> HIDE DEF age
<1>6. age = best.true
  <2> DEFINE b == best.true
  <2>1. b \in ages /\ b \in 0..(Cutoff + 2) /\ age \in 0..(Cutoff + 2)
    BY <1>3, <1>4, <1>5
  <2>2. age <= b /\ b <= age
    BY <1>4, <1>5
  <2> HIDE DEF b
  <2>3. age = b
    BY <2>1, <2>2, AntigravityAges
  <2> QED
    BY <2>3 DEF b
<1> QED
  BY <1>1, <1>2, <1>6 DEF ages, age

-----------------------------------------------------------------------------
(* The four together *)

ReadersInv == CodexInv /\ GeminiInv /\ CursorInv /\ AntigravityInv

LEMMA ReadersInit == Init => ReadersInv
BY CodexInit, GeminiInit, CursorInit, AntigravityInit DEF Init, ReadersInv

\* A step is a step of the reader chosen and no step of the others.
LEMMA CodexSees == [Next]_vars => [Codex!Next]_(Codex!vars)
<1>1. UNCHANGED codexVars => UNCHANGED Codex!vars
  BY DEF codexVars, Codex!vars, Codex!outside, Codex!reading
<1> QED
  BY <1>1
     DEF Next, vars, CodexAlone, GeminiAlone, CursorAlone, AntigravityAlone

LEMMA GeminiSees == [Next]_vars => [Gemini!Next]_(Gemini!vars)
<1>1. UNCHANGED geminiVars => UNCHANGED Gemini!vars
  BY DEF geminiVars, Gemini!vars, Gemini!reading
<1> QED
  BY <1>1
     DEF Next, vars, CodexAlone, GeminiAlone, CursorAlone, AntigravityAlone

LEMMA CursorSees == [Next]_vars => [Cursor!Next]_(Cursor!vars)
<1>1. UNCHANGED cursorVars => UNCHANGED Cursor!vars
  BY DEF cursorVars, Cursor!vars, Cursor!world, Cursor!reading
<1> QED
  BY <1>1
     DEF Next, vars, CodexAlone, GeminiAlone, CursorAlone, AntigravityAlone

LEMMA AntigravitySees == [Next]_vars => [AntigravityApp!Next]_(AntigravityApp!vars)
<1>1. UNCHANGED antigravityVars => UNCHANGED AntigravityApp!vars
  BY DEF antigravityVars, AntigravityApp!vars, AntigravityApp!world,
         AntigravityApp!caches, AntigravityApp!reading
<1> QED
  BY <1>1
     DEF Next, vars, CodexAlone, GeminiAlone, CursorAlone, AntigravityAlone

LEMMA ReadersStep == ReadersInv /\ [Next]_vars => ReadersInv'
<1> SUFFICES ASSUME ReadersInv, [Next]_vars PROVE ReadersInv'
  OBVIOUS
<1>1. CodexInv'
  BY CodexSees, CodexStep DEF ReadersInv
<1>2. GeminiInv'
  BY GeminiSees, GeminiStep DEF ReadersInv
<1>3. CursorInv'
  BY CursorSees, CursorStep DEF ReadersInv
<1>4. AntigravityInv'
  BY AntigravitySees, AntigravityStep DEF ReadersInv
<1> QED
  BY <1>1, <1>2, <1>3, <1>4 DEF ReadersInv

LEMMA Invariance == FairSpec => []ReadersInv
BY ReadersInit, ReadersStep, PTL DEF FairSpec

\* MCReaders adds nothing to the readers: each of them behaves in it as its own
\* module says, so that what holds of the composition is about their code.
THEOREM EachReaderItself ==
    FairSpec => Codex!Spec /\ Gemini!Spec /\ Cursor!Spec /\ AntigravityApp!Spec
<1>1. Init => Codex!Init /\ Gemini!Init /\ Cursor!Init /\ AntigravityApp!Init
  BY DEF Init
<1>2. FairSpec => Codex!Spec
  BY <1>1, CodexSees, PTL DEF FairSpec, Codex!Spec
<1>3. FairSpec => Gemini!Spec
  BY <1>1, GeminiSees, PTL DEF FairSpec, Gemini!Spec
<1>4. FairSpec => Cursor!Spec
  BY <1>1, CursorSees, PTL DEF FairSpec, Cursor!Spec
<1>5. FairSpec => AntigravityApp!Spec
  BY <1>1, AntigravitySees, PTL DEF FairSpec, AntigravityApp!Spec
<1> QED
  BY <1>2, <1>3, <1>4, <1>5

\* Every variable of the four readers keeps its type: the documents, rows and
\* entries they read, refresh and remember are of the kinds their code handles.
THEOREM ReadersTyped == FairSpec => []TypeOK
<1>1. ReadersInv => TypeOK
  BY DEF ReadersInv, CodexInv, GeminiInv, CursorInv, AntigravityInv, TypeOK
<1> QED
  BY <1>1, Invariance, PTL

\* codexauth.go rotates a refresh token that belongs to the CLI: whatever the
\* CLI, crashes and lost answers do in between, the login in auth.json works,
\* or the new one waits to be saved, or an answer or a save of it was lost.
THEOREM BorrowedLoginWorks == FairSpec => []LoginStaysUsable
<1>1. ReadersInv => LoginStaysUsable
  BY DEF ReadersInv, CodexInv, LoginStaysUsable
<1> QED
  BY <1>1, Invariance, PTL

\* cursor.go caches a refreshed token beside a database that Cursor rewrites at
\* will: the requests of a read are made with a token of the account whose rows
\* they are filed as.
THEOREM RowsOfTheRightAccount == FairSpec => []FiledUnderItsAccount
<1>1. ReadersInv => FiledUnderItsAccount
  BY DEF ReadersInv, CursorInv, FiledUnderItsAccount
<1> QED
  BY <1>1, Invariance, PTL

\* What the readers refreshed serves until its time: Gemini's from the file that
\* was written back, Cursor's from the cache, also when the login changed
\* between.
THEOREM RefreshOnlyWhenDue == FairSpec => []NoNeedlessRefresh
<1>1. ReadersInv => NoNeedlessRefresh
  BY DEF ReadersInv, GeminiInv, CursorInv, NoNeedlessRefresh
<1> QED
  BY <1>1, Invariance, PTL

\* antigravity.go: without a server, a read during which no file changes returns
\* the newest of the status files it knew of, however many there are and in
\* whatever order it reads them, or nothing when that one is too old.
THEOREM NewestFileWins == FairSpec => NewestOrNothing
<1>1. AntigravityInv => [AntigravityApp!Finish /\ ~disturbed =>
         LET age == AntigravityApp!Min({disk[f] : f \in paths} \cup {AntigravityApp!Gone})
         IN IF age <= Cutoff THEN antigravityCard' = "stale" /\ best.true = age
                             ELSE antigravityCard' = "none"]_(AntigravityApp!vars)
  BY AntigravityFinds
<1>2. ReadersInv => AntigravityInv
  BY DEF ReadersInv
<1> QED
  BY <1>1, <1>2, Invariance, PTL DEF NewestOrNothing, AntigravityApp!NewestOrNothing
=============================================================================
