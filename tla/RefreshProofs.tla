---------------------------- MODULE RefreshProofs ----------------------------
(***************************************************************************)
(* Theorems about Refresh: for any number of refreshes at once, settings   *)
(* changes and closures, the cards end up current and the panel settles.   *)
(***************************************************************************)
EXTENDS Refresh, SequenceTheorems, TLAPS

\* readSeq orders the refreshes under way: irreflexive, total, transitive.
OrderInv ==
    /\ \A r \in Refreshes : older[r] \subseteq Numbered \ {r}
    /\ \A r \in Refreshes \ Numbered : older[r] = {}
    /\ \A r, s \in Numbered : r # s => (r \in older[s] <=> s \notin older[r])
    /\ \A r \in Refreshes, s \in Refreshes : s \in older[r] => older[s] \subseteq older[r]

\* The settings, as far as no save under way may still take them back.
Standing == [gauge |-> before, rows |-> cfg.rows]

\* r would store cards of settings that have been replaced.
Lagging(r) == pc[r] = "computed" /\ seen[r] # Standing /\ r \notin outdated

\* s will store cards of the standing settings.
Fresh(s) ==
    /\ s \notin outdated
    /\ \/ pc[s] \in {"clicked", "spawned", "reading", "read"}
       \/ pc[s] = "computed" /\ seen[s] = Standing

\* s will outdate r.
Outruns(s, r) == s \in Numbered => r \in older[s]

\* Unless the cards are excused, a refresh saw settings that a save may still take
\* back, or the dock is hidden: the standing settings are on their way to the
\* cards and will not be overtaken, or they are there already and nobody lags.
CoverInv ==
    \/ behind
    \/ glimpsed
    \/ ~visible
    \/ \E s \in Refreshes : Fresh(s) /\ \A r \in Refreshes : Lagging(r) => Outruns(s, r)
    \/ cards.cfg = Standing /\ \A r \in Refreshes : ~Lagging(r)

\* "Refreshing" is shown only while somebody is going to replace it.
StatusInv ==
    status = "Refreshing" =>
        \/ ~visible
        \/ \E r \in Refreshes : pc[r] = "spawned" \/ r \in Numbered \ outdated

IInv == TypeOK /\ OrderInv /\ CoverInv /\ StatusInv

-----------------------------------------------------------------------------
(* Consequences *)

LEMMA Consequences == IInv => TypeOK /\ QuietMeansCurrent /\ StatusSettles
<1> SUFFICES ASSUME IInv PROVE TypeOK /\ QuietMeansCurrent /\ StatusSettles
  OBVIOUS
<1>1. QuietMeansCurrent
  <2> SUFFICES ASSUME Quiet, ~behind PROVE cards.cfg = cfg
    BY DEF QuietMeansCurrent
  <2>1. Standing = cfg /\ ~glimpsed
    BY DEF IInv, TypeOK, Quiet, UIFree, Standing, Settings
  <2> QED
    BY <2>1 DEF IInv, CoverInv, Fresh, Quiet
<1>2. StatusSettles
  BY DEF IInv, StatusInv, StatusSettles, Quiet, Numbered
<1> QED
  BY <1>1, <1>2 DEF IInv

-----------------------------------------------------------------------------
(* Starting and ending a refresh *)

\* Refresh r is over.
LEMMA DoneEnds ==
    ASSUME TypeOK, OrderInv, NEW r \in Refreshes, Done(r)
    PROVE  /\ Numbered' = Numbered \ {r}
           /\ outdated' = outdated \ {r}
           /\ OrderInv'
           /\ pc' \in [Refreshes -> {"idle", "clicked", "spawned", "reading",
                                     "read", "computed", "applied", "posted"}]
           /\ forced' \in [Refreshes -> BOOLEAN]
           /\ model' \in [Refreshes -> Sources]
           /\ seen' \in [Refreshes -> Settings \cup {NoSettings}]
           /\ older' \in [Refreshes -> SUBSET Refreshes]
           /\ outdated' \subseteq Numbered'
           /\ pc'[r] = "idle"
           /\ \A s \in Refreshes \ {r} :
                pc'[s] = pc[s] /\ seen'[s] = seen[s] /\ older'[s] = older[s] \ {r}
<1>1. /\ pc' = [pc EXCEPT ![r] = "idle"]
      /\ forced' = [forced EXCEPT ![r] = FALSE]
      /\ model' = [model EXCEPT ![r] = "nothing"]
      /\ seen' = [seen EXCEPT ![r] = NoSettings]
      /\ older' = [s \in Refreshes |-> IF s = r THEN {} ELSE older[s] \ {r}]
      /\ outdated' = outdated \ {r}
  BY DEF Done
<1>2. /\ pc' \in [Refreshes -> {"idle", "clicked", "spawned", "reading",
                                "read", "computed", "applied", "posted"}]
      /\ forced' \in [Refreshes -> BOOLEAN]
      /\ model' \in [Refreshes -> Sources]
      /\ seen' \in [Refreshes -> Settings \cup {NoSettings}]
      /\ older' \in [Refreshes -> SUBSET Refreshes]
  BY <1>1, RefreshAssumption DEF TypeOK
<1>3. /\ pc'[r] = "idle"
      /\ \A s \in Refreshes \ {r} :
           pc'[s] = pc[s] /\ seen'[s] = seen[s] /\ older'[s] = older[s] \ {r}
      /\ older'[r] = {}
  BY <1>1 DEF TypeOK
<1>4. Numbered' = Numbered \ {r}
  BY <1>3 DEF Numbered
<1>5. OrderInv'
  BY <1>3, <1>4 DEF OrderInv, Numbered
<1> QED
  BY <1>1, <1>2, <1>3, <1>4, <1>5 DEF TypeOK

\* The end of r takes no cover away that r did not give.
LEMMA DoneKeepsCover ==
    ASSUME TypeOK, OrderInv, NEW r \in Refreshes, Done(r),
           ~Fresh(r) \/ ~visible, CoverInv, StatusInv,
           UNCHANGED <<cfg, cards, behind, visible, before, glimpsed>>
    PROVE  /\ CoverInv'
           /\ status' = status /\ (r \in outdated \/ ~visible) => StatusInv'
<1>1. /\ Numbered' = Numbered \ {r}
      /\ outdated' = outdated \ {r}
      /\ pc'[r] = "idle"
      /\ \A s \in Refreshes \ {r} :
           pc'[s] = pc[s] /\ seen'[s] = seen[s] /\ older'[s] = older[s] \ {r}
  BY DoneEnds
<1>2. \A s \in Refreshes : Lagging(s)' => Lagging(s) /\ s # r
  BY <1>1 DEF Lagging, Standing
<1>3. CASE ~visible
  BY <1>3 DEF CoverInv, StatusInv
<1>4. CASE ~Fresh(r)
  <2>1. \A s \in Refreshes : Fresh(s) => s # r /\ Fresh(s)'
    BY <1>1, <1>4 DEF Fresh, Standing
  <2>2. \A s, t \in Refreshes : Outruns(s, t) /\ s # r /\ t # r => Outruns(s, t)'
    BY <1>1 DEF Outruns
  <2>3. CoverInv'
    BY <1>2, <2>1, <2>2 DEF CoverInv, Standing
  <2>4. ASSUME status' = status, r \in outdated PROVE StatusInv'
    <3>1. \A s \in Refreshes : pc[s] = "spawned" => pc'[s] = "spawned"
      BY <1>1, <2>4 DEF TypeOK, Numbered
    <3>2. \A s \in Refreshes : s \in Numbered \ outdated => s \in Numbered' \ outdated'
      BY <1>1, <2>4
    <3> QED
      BY <2>4, <3>1, <3>2 DEF StatusInv
  <2> QED
    BY <2>3, <2>4, <1>3
<1> QED
  BY <1>3, <1>4

\* A refresh that was just started covers whatever the settings are.
LEMMA SpawnCovers ==
    ASSUME TypeOK, OrderInv, StatusInv, NEW first \in {"clicked", "spawned"}, NEW force \in BOOLEAN,
           Spawn(first, force),
           first = "spawned" \/ visible' = visible,
           status' = status
    PROVE  /\ OrderInv' /\ CoverInv' /\ StatusInv'
           /\ pc' \in [Refreshes -> {"idle", "clicked", "spawned", "reading",
                                     "read", "computed", "applied", "posted"}]
           /\ forced' \in [Refreshes -> BOOLEAN]
           /\ Numbered' = Numbered
           /\ UNCHANGED <<model, seen, older, outdated>>
<1>1. PICK r \in Refreshes :
        /\ pc[r] = "idle"
        /\ pc' = [pc EXCEPT ![r] = first]
        /\ forced' = [forced EXCEPT ![r] = force]
        /\ UNCHANGED <<model, seen, older, outdated>>
  BY DEF Spawn, Refreshes
<1>2. /\ pc' \in [Refreshes -> {"idle", "clicked", "spawned", "reading",
                                "read", "computed", "applied", "posted"}]
      /\ forced' \in [Refreshes -> BOOLEAN]
      /\ pc'[r] = first
      /\ \A s \in Refreshes \ {r} : pc'[s] = pc[s]
  BY <1>1 DEF TypeOK
<1>3. Numbered' = Numbered /\ r \notin Numbered /\ r \notin outdated
  BY <1>1, <1>2 DEF Numbered, TypeOK
<1>4. OrderInv'
  BY <1>1, <1>3 DEF OrderInv
<1>5. Fresh(r)' /\ \A s \in Refreshes : Outruns(r, s)'
  BY <1>1, <1>2, <1>3 DEF Fresh, Standing, Outruns
<1>6. CoverInv'
  BY <1>5 DEF CoverInv
<1>7. StatusInv'
  BY <1>1, <1>2, <1>3 DEF StatusInv
<1> QED
  BY <1>1, <1>2, <1>3, <1>4, <1>6, <1>7

-----------------------------------------------------------------------------
(* The inductive invariant *)

LEMMA InitInv == Init => IInv
<1> SUFFICES ASSUME Init PROVE IInv
  OBVIOUS
<1> USE RefreshAssumption DEF Init
<1>1. TypeOK
  <2>1. Numbered = {}
    BY DEF Numbered
  <2>2. /\ pc \in [Refreshes -> {"idle", "clicked", "spawned", "reading",
                                 "read", "computed", "applied", "posted"}]
        /\ model \in [Refreshes -> Sources]
    OBVIOUS
  <2>3. cards \in [cfg : Settings \cup {NoSettings}, model : Sources]
    BY DEF NoCards
  <2>4. /\ seen \in [Refreshes -> Settings \cup {NoSettings}]
        /\ cfg \in Settings /\ before \in Gauges /\ before = cfg.gauge
        /\ refreshes = FALSE /\ glimpsed = FALSE
    BY DEF Settings
  <2>5. /\ forced \in [Refreshes -> BOOLEAN]
        /\ older \in [Refreshes -> SUBSET Refreshes]
        /\ fetched \in Sources \cup {"unread"}
        /\ source \in Sources
        /\ status \in {"Starting", "Refreshing", "Waiting", "Updated"}
        /\ visible \in BOOLEAN /\ ui = 0 /\ dialogs = <<>>
        /\ uiQueue = <<>> /\ tray \in BOOLEAN /\ behind \in BOOLEAN
        /\ outdated = {}
    OBVIOUS
  <2>6. <<>> \in Seq(BOOLEAN) /\ <<>> \in Seq(Dialogs) /\ 0 \in 0..Len(<<>>)
    OBVIOUS
  <2> HIDE DEF Init
  <2> QED
    BY <2>1, <2>2, <2>3, <2>4, <2>5, <2>6 DEF TypeOK
<1>2. OrderInv
  BY DEF OrderInv, Numbered
<1>3. CoverInv
  <2>1. Loop \in Refreshes /\ Fresh(Loop)
    BY DEF Refreshes, Fresh
  <2>2. \A r \in Refreshes : ~Lagging(r)
    BY DEF Lagging
  <2> QED
    BY <2>1, <2>2 DEF CoverInv
<1>4. StatusInv
  BY DEF StatusInv
<1> QED
  BY <1>1, <1>2, <1>3, <1>4 DEF IInv

\* Steps of refresh r that change nothing but where it stands, among the
\* stations that count the same.
LEMMA MovesOn ==
    ASSUME TypeOK, OrderInv, CoverInv, StatusInv, NEW r \in Refreshes,
           NEW to \in {"read", "spawned", "applied", "posted"},
           pc' = [pc EXCEPT ![r] = to],
           \/ pc[r] = "clicked" /\ to = "spawned"
           \/ pc[r] = "reading" /\ to = "read"
           \/ pc[r] = "applied" /\ to = "posted",
           UNCHANGED <<seen, older, outdated, cfg, cards, behind, visible, before, glimpsed>>
    PROVE  /\ pc' \in [Refreshes -> {"idle", "clicked", "spawned", "reading",
                                     "read", "computed", "applied", "posted"}]
           /\ Numbered' = Numbered
           /\ OrderInv'
           /\ CoverInv'
           /\ status' = status \/ to = "spawned" => StatusInv'
<1>1. /\ pc' \in [Refreshes -> {"idle", "clicked", "spawned", "reading",
                                "read", "computed", "applied", "posted"}]
      /\ pc'[r] = to
      /\ \A s \in Refreshes \ {r} : pc'[s] = pc[s]
  BY DEF TypeOK
<1>2. Numbered' = Numbered
  BY <1>1 DEF Numbered
<1>3. OrderInv'
  BY <1>2 DEF OrderInv
<1>4. CoverInv'
  <2>1. \A s \in Refreshes : Lagging(s)' => Lagging(s)
    BY <1>1 DEF Lagging, Standing
  <2>2. \A s \in Refreshes : Fresh(s) => Fresh(s)'
    BY <1>1 DEF Fresh, Standing
  <2>3. \A s, t \in Refreshes : Outruns(s, t) => Outruns(s, t)'
    BY <1>2 DEF Outruns
  <2> QED
    BY <2>1, <2>2, <2>3 DEF CoverInv, Standing
<1>5. status' = status \/ to = "spawned" => StatusInv'
  BY <1>1, <1>2 DEF StatusInv
<1> QED
  BY <1>1, <1>2, <1>3, <1>4, <1>5

LEMMA TimerFiresInv == IInv /\ TimerFires => IInv'
<1> SUFFICES ASSUME IInv, TimerFires PROVE IInv'
  OBVIOUS
<1> USE DEF IInv, TimerFires, saving
<1>1. /\ Loop \in Refreshes
      /\ pc' \in [Refreshes -> {"idle", "clicked", "spawned", "reading",
                                "read", "computed", "applied", "posted"}]
      /\ pc'[Loop] = "spawned"
      /\ \A s \in Refreshes \ {Loop} : pc'[s] = pc[s]
  BY DEF TypeOK, Refreshes
<1>2. Numbered' = Numbered
  BY <1>1 DEF Numbered
<1>3. TypeOK'
  BY <1>1, <1>2 DEF TypeOK
<1>4. OrderInv'
  BY <1>2 DEF OrderInv
<1>5. Loop \notin Numbered /\ Loop \notin outdated
  BY DEF Numbered, TypeOK
<1>6. Fresh(Loop)' /\ \A s \in Refreshes : Outruns(Loop, s)'
  BY <1>1, <1>2, <1>5 DEF Fresh, Standing, Outruns
<1>7. CoverInv' /\ StatusInv'
  BY <1>1, <1>6 DEF CoverInv, StatusInv
<1> QED
  BY <1>3, <1>4, <1>7

LEMMA AnnounceInv == ASSUME NEW r \in Refreshes PROVE IInv /\ Announce(r) => IInv'
<1> SUFFICES ASSUME IInv, Announce(r) PROVE IInv'
  OBVIOUS
<1> USE DEF IInv, Announce, saving
<1>1. /\ pc' \in [Refreshes -> {"idle", "clicked", "spawned", "reading",
                                "read", "computed", "applied", "posted"}]
      /\ Numbered' = Numbered /\ OrderInv' /\ CoverInv' /\ StatusInv'
  BY MovesOn
<1> QED
  BY <1>1 DEF TypeOK

LEMMA BeginInv == ASSUME NEW r \in Refreshes PROVE IInv /\ Begin(r) => IInv'
<1> SUFFICES ASSUME IInv, Begin(r) PROVE IInv'
  OBVIOUS
<1> USE DEF IInv, saving
<1>0. /\ pc[r] = "spawned"
      /\ UNCHANGED <<fetched, source, cfg, dialogs, cards, status, visible, saving,
                     uiQueue, tray, behind>>
  BY DEF Begin
<1>1. CASE ~visible
  <2>1. Done(r)
    BY <1>1 DEF Begin
  <2>2. OrderInv' /\ CoverInv' /\ StatusInv'
    BY <1>0, <1>1, <2>1, DoneEnds, DoneKeepsCover
  <2>3. TypeOK'
    BY <1>0, <2>1, DoneEnds DEF TypeOK
  <2> QED
    BY <2>2, <2>3
<1>2. CASE visible
  <2>1. /\ pc' = [pc EXCEPT ![r] = "reading"]
        /\ older' = [older EXCEPT ![r] = Numbered]
        /\ UNCHANGED <<forced, model, seen, outdated>>
    BY <1>2 DEF Begin
  <2>2. /\ pc' \in [Refreshes -> {"idle", "clicked", "spawned", "reading",
                                  "read", "computed", "applied", "posted"}]
        /\ older' \in [Refreshes -> SUBSET Refreshes]
        /\ pc'[r] = "reading" /\ older'[r] = Numbered
        /\ \A s \in Refreshes \ {r} : pc'[s] = pc[s] /\ older'[s] = older[s]
    BY <2>1 DEF TypeOK, Numbered
  <2>3. Numbered' = Numbered \cup {r} /\ r \notin Numbered /\ r \notin outdated
    BY <1>0, <2>2 DEF Numbered, TypeOK
  <2>4. TypeOK'
    BY <1>0, <2>1, <2>2, <2>3 DEF TypeOK
  <2>5. OrderInv'
    <3>1. \A s \in Refreshes : r \notin older[s]
      BY <2>3 DEF OrderInv
    <3> QED
      BY <2>2, <2>3, <3>1 DEF OrderInv
  <2>6. CoverInv'
    <3>1. \A s \in Refreshes : Lagging(s)' => Lagging(s) /\ s \in Numbered
      BY <1>0, <2>1, <2>2 DEF Lagging, Standing, Numbered
    <3>2. \A s \in Refreshes : Fresh(s) => Fresh(s)'
      BY <1>0, <2>1, <2>2 DEF Fresh, Standing
    <3>3. \A s, t \in Refreshes : Outruns(s, t) /\ t \in Numbered => Outruns(s, t)'
      BY <2>2, <2>3 DEF Outruns
    <3> QED
      BY <1>0, <3>1, <3>2, <3>3 DEF CoverInv, Standing
  <2>7. StatusInv'
    BY <1>0, <2>1, <2>2, <2>3 DEF StatusInv
  <2> QED
    BY <2>4, <2>5, <2>6, <2>7
<1> QED
  BY <1>1, <1>2

\* The answer of the providers, whether it was fetched or replayed.
LEMMA ReadAnswersInv ==
    ASSUME NEW r \in Refreshes, NEW m \in Sources, IInv, pc[r] = "reading",
           ReadAnswers(r, m), fetched' \in Sources \cup {"unread"},
           UNCHANGED <<source, cfg, dialogs, cards, visible, saving, uiQueue, tray>>
    PROVE  IInv'
<1> USE DEF IInv, saving
<1>1. CASE m # "nothing" /\ pc' = [pc EXCEPT ![r] = "read"]
           /\ model' = [model EXCEPT ![r] = m]
           /\ forced' = [forced EXCEPT ![r] = FALSE]
           /\ UNCHANGED <<seen, older, outdated, status, behind>>
  <2>1. /\ pc' \in [Refreshes -> {"idle", "clicked", "spawned", "reading",
                                  "read", "computed", "applied", "posted"}]
        /\ Numbered' = Numbered /\ OrderInv' /\ CoverInv' /\ StatusInv'
    BY <1>1, MovesOn
  <2>2. TypeOK'
    BY <1>1, <2>1 DEF TypeOK
  <2> QED
    BY <2>1, <2>2
<1>2. CASE m = "nothing" /\ status' = "Waiting" /\ behind' = TRUE /\ Done(r)
  <2>1. OrderInv'
    BY <1>2, DoneEnds
  <2>2. TypeOK'
    BY <1>2, DoneEnds DEF TypeOK
  <2>3. CoverInv' /\ StatusInv'
    BY <1>2 DEF CoverInv, StatusInv
  <2> QED
    BY <2>1, <2>2, <2>3
<1> QED
  BY <1>1, <1>2 DEF ReadAnswers

LEMMA ReadInv ==
    ASSUME NEW r \in Refreshes
    PROVE  IInv /\ (ReadFetches(r) \/ ReadReplays(r)) => IInv'
<1> SUFFICES ASSUME IInv, ReadFetches(r) \/ ReadReplays(r) PROVE IInv'
  OBVIOUS
<1>1. source \in Sources /\ fetched \in Sources \cup {"unread"}
  BY DEF IInv, TypeOK
<1>2. CASE ReadFetches(r)
  BY <1>1, <1>2, ReadAnswersInv DEF ReadFetches
<1>3. CASE ReadReplays(r)
  BY <1>1, <1>3, ReadAnswersInv DEF ReadReplays
<1> QED
  BY <1>2, <1>3

LEMMA CopySettingsInv == ASSUME NEW r \in Refreshes PROVE IInv /\ CopySettings(r) => IInv'
<1> SUFFICES ASSUME IInv, CopySettings(r) PROVE IInv'
  OBVIOUS
<1> USE DEF IInv, CopySettings
<1>1. /\ pc' \in [Refreshes -> {"idle", "clicked", "spawned", "reading",
                                "read", "computed", "applied", "posted"}]
      /\ seen' \in [Refreshes -> Settings \cup {NoSettings}]
      /\ pc'[r] = "computed" /\ seen'[r] = cfg
      /\ glimpsed' = (before # cfg.gauge)
      /\ \A s \in Refreshes \ {r} : pc'[s] = pc[s] /\ seen'[s] = seen[s]
  BY DEF TypeOK
<1>2. Numbered' = Numbered
  BY <1>1 DEF Numbered
<1>3. TypeOK'
  BY <1>1, <1>2 DEF TypeOK
<1>4. OrderInv'
  BY <1>2 DEF OrderInv
<1>5. CoverInv'
  <2>1. CASE before # cfg.gauge
    BY <1>1, <2>1 DEF CoverInv
  <2>2. CASE before = cfg.gauge
    <3>1. Standing = cfg /\ Standing' = Standing /\ ~glimpsed
      BY <2>2 DEF Standing, TypeOK, Settings
    <3>2. \A s \in Refreshes : Lagging(s)' => Lagging(s)
      BY <1>1, <3>1 DEF Lagging
    <3>3. \A s \in Refreshes : Fresh(s) => Fresh(s)'
      BY <1>1, <3>1 DEF Fresh
    <3>4. \A s, t \in Refreshes : Outruns(s, t) => Outruns(s, t)'
      BY <1>2 DEF Outruns
    <3> QED
      BY <3>1, <3>2, <3>3, <3>4 DEF CoverInv
  <2> QED
    BY <2>1, <2>2
<1>6. StatusInv'
  BY <1>1, <1>2 DEF StatusInv
<1> QED
  BY <1>3, <1>4, <1>5, <1>6

\* The heart of the matter: storing cards keeps the cover.
LEMMA ApplyCovers ==
    ASSUME NEW r \in Refreshes, TypeOK, OrderInv, CoverInv,
           pc[r] = "computed", r \notin outdated,
           outdated' = outdated \cup older[r],
           cards' = [cfg |-> seen[r], model |-> model[r]],
           behind' = (behind /\ ~(UIFree /\ seen[r] = cfg /\ Newest(r))),
           pc' = [pc EXCEPT ![r] = "applied"],
           seen' = [seen EXCEPT ![r] = NoSettings],
           UNCHANGED <<older, cfg, visible, before, glimpsed>>
    PROVE  CoverInv'
<1>1. /\ pc'[r] = "applied"
      /\ \A s \in Refreshes \ {r} : pc'[s] = pc[s] /\ seen'[s] = seen[s]
      /\ r \in Numbered
      /\ Numbered' = Numbered
      /\ Standing' = Standing
  BY DEF TypeOK, Numbered, Standing
<1>2. \A s \in Refreshes : Lagging(s)' => /\ Lagging(s) /\ s # r /\ s \in Numbered
                                        /\ s \notin older[r]
  BY <1>1 DEF Lagging, Numbered
<1>3. \A s \in Refreshes : Fresh(s) /\ s # r /\ s \notin older[r] => Fresh(s)'
  BY <1>1 DEF Fresh
<1>4. \A s, t \in Refreshes : Outruns(s, t) => Outruns(s, t)'
  BY <1>1 DEF Outruns
<1>5. CASE UIFree /\ seen[r] = cfg /\ Newest(r)
  <2>1. \A s \in Numbered : s # r => s \in older[r]
    BY <1>1, <1>5 DEF Newest, OrderInv
  <2>2. Standing = cfg
    BY <1>5 DEF TypeOK, Standing, Settings, UIFree
  <2> QED
    BY <1>1, <1>2, <1>5, <2>1, <2>2 DEF CoverInv
<1>6. CASE (behind /\ ~(UIFree /\ seen[r] = cfg /\ Newest(r))) \/ glimpsed \/ ~visible
  BY <1>1, <1>6 DEF CoverInv
<1>7. ASSUME NEW s \in Refreshes, Fresh(s),
             \A t \in Refreshes : Lagging(t) => Outruns(s, t)
      PROVE  CoverInv'
  <2>1. CASE s = r
    <3>1. seen[r] = Standing /\ \A t \in Refreshes : Lagging(t) => t \in older[r]
      BY <1>1, <1>7, <2>1 DEF Fresh, Outruns
    <3> QED
      BY <1>1, <1>2, <3>1 DEF CoverInv
  <2>2. CASE s # r /\ s \in older[r]
    <3>1. s \in Numbered /\ older[s] \subseteq older[r] /\ r \notin older[s]
      BY <1>1, <2>2 DEF OrderInv
    <3>2. \A t \in Refreshes : Lagging(t) => t \in older[r]
      BY <1>7, <3>1 DEF Outruns
    <3>3. seen[r] = Standing
      BY <1>7, <3>1 DEF Lagging, Outruns
    <3> QED
      BY <1>1, <1>2, <3>2, <3>3 DEF CoverInv
  <2>3. CASE s # r /\ s \notin older[r]
    BY <1>2, <1>3, <1>4, <1>7, <2>3 DEF CoverInv
  <2> QED
    BY <2>1, <2>2, <2>3
<1>8. CASE cards.cfg = Standing /\ \A t \in Refreshes : ~Lagging(t)
  <2>1. seen[r] = Standing
    BY <1>8 DEF Lagging
  <2> QED
    BY <1>1, <1>2, <1>8, <2>1 DEF CoverInv
<1> QED
  BY <1>5, <1>6, <1>7, <1>8 DEF CoverInv

LEMMA ApplyInv == ASSUME NEW r \in Refreshes PROVE IInv /\ Apply(r) => IInv'
<1> SUFFICES ASSUME IInv, Apply(r) PROVE IInv'
  OBVIOUS
<1> USE DEF IInv, saving
<1>1. /\ pc[r] = "computed"
      /\ UNCHANGED <<fetched, source, cfg, dialogs, status, visible, saving, uiQueue, tray>>
  BY DEF Apply
<1>2. CASE r \in outdated
  <2>1. Done(r) /\ UNCHANGED <<cards, behind>>
    BY <1>2 DEF Apply
  <2>2. ~Fresh(r)
    BY <1>2 DEF Fresh, Standing
  <2>3. OrderInv' /\ CoverInv' /\ StatusInv'
    BY <1>1, <1>2, <2>1, <2>2, DoneEnds, DoneKeepsCover
  <2>4. TypeOK'
    BY <1>1, <2>1, DoneEnds DEF TypeOK
  <2> QED
    BY <2>3, <2>4
<1>3. CASE r \notin outdated
  <2>1. /\ outdated' = outdated \cup older[r]
        /\ cards' = [cfg |-> seen[r], model |-> model[r]]
        /\ behind' = (behind /\ ~(UIFree /\ seen[r] = cfg /\ Newest(r)))
        /\ pc' = [pc EXCEPT ![r] = "applied"]
        /\ seen' = [seen EXCEPT ![r] = NoSettings]
        /\ UNCHANGED <<forced, model, older>>
    BY <1>3 DEF Apply, StartedBefore
  <2>2. /\ pc' \in [Refreshes -> {"idle", "clicked", "spawned", "reading",
                                  "read", "computed", "applied", "posted"}]
        /\ seen' \in [Refreshes -> Settings \cup {NoSettings}]
        /\ r \in Numbered
        /\ Numbered' = Numbered
        /\ \A s \in Refreshes \ {r} : pc'[s] = pc[s]
    BY <1>1, <2>1, RefreshAssumption DEF TypeOK, Numbered
  <2>3. outdated' \subseteq Numbered' /\ r \notin outdated'
    BY <1>3, <2>1, <2>2 DEF TypeOK, OrderInv
  <2>4. cards' \in [cfg : Settings \cup {NoSettings}, model : Sources] /\ behind' \in BOOLEAN
    BY <2>1 DEF TypeOK
  <2>5. TypeOK'
    BY <1>1, <2>1, <2>2, <2>3, <2>4 DEF TypeOK
  <2>6. OrderInv'
    BY <2>1, <2>2 DEF OrderInv
  <2>7. CoverInv'
    BY <1>1, <1>3, <2>1, ApplyCovers
  <2>8. StatusInv'
    BY <2>2, <2>3 DEF StatusInv
  <2> QED
    BY <2>5, <2>6, <2>7, <2>8
<1> QED
  BY <1>2, <1>3

LEMMA PostTrayInv == ASSUME NEW r \in Refreshes PROVE IInv /\ PostTray(r) => IInv'
<1> SUFFICES ASSUME IInv, PostTray(r) PROVE IInv'
  OBVIOUS
<1> USE DEF IInv, PostTray, saving
<1>1. /\ pc' \in [Refreshes -> {"idle", "clicked", "spawned", "reading",
                                "read", "computed", "applied", "posted"}]
      /\ Numbered' = Numbered /\ OrderInv' /\ CoverInv' /\ StatusInv'
  BY MovesOn
<1>2. model' \in [Refreshes -> Sources]
  BY RefreshAssumption DEF TypeOK
<1>3. uiQueue' \in Seq(BOOLEAN)
  BY DEF TypeOK, NeedsConnect
<1> QED
  BY <1>1, <1>2, <1>3 DEF TypeOK

LEMMA ShowUpdatedInv == ASSUME NEW r \in Refreshes PROVE IInv /\ ShowUpdated(r) => IInv'
<1> SUFFICES ASSUME IInv, ShowUpdated(r) PROVE IInv'
  OBVIOUS
<1> USE DEF IInv, ShowUpdated, saving
<1>1. ~Fresh(r)
  BY DEF Fresh, Standing
<1>2. OrderInv' /\ CoverInv'
  BY <1>1, DoneEnds, DoneKeepsCover
<1>3. TypeOK'
  BY DoneEnds DEF TypeOK
<1>4. StatusInv'
  BY DEF StatusInv
<1> QED
  BY <1>2, <1>3, <1>4

-----------------------------------------------------------------------------
(* The UI thread and the environment *)

\* Steps that leave the refreshes alone, and the standing settings too unless the
\* cards are excused.
LEMMA Elsewhere ==
    ASSUME OrderInv, CoverInv, StatusInv,
           UNCHANGED <<running, cards, status>>,
           visible' => visible,
           behind' \/ Standing' = Standing,
           behind \/ glimpsed => behind' \/ glimpsed'
    PROVE  OrderInv' /\ CoverInv' /\ StatusInv' /\ Numbered' = Numbered
<1> USE DEF running
<1>1. Numbered' = Numbered
  BY DEF Numbered
<1>2. OrderInv' /\ StatusInv'
  BY <1>1 DEF OrderInv, StatusInv
<1>3. CASE behind'
  BY <1>1, <1>2, <1>3 DEF CoverInv
<1>4. CASE Standing' = Standing
  <2>1. \A r \in Refreshes : Lagging(r)' <=> Lagging(r)
    BY <1>4 DEF Lagging
  <2>2. \A r \in Refreshes : Fresh(r)' <=> Fresh(r)
    BY <1>4 DEF Fresh
  <2>3. \A s, r \in Refreshes : Outruns(s, r)' <=> Outruns(s, r)
    BY <1>1 DEF Outruns
  <2>4. CoverInv'
    BY <1>4, <2>1, <2>2, <2>3 DEF CoverInv
  <2> QED
    BY <1>1, <1>2, <2>4
<1> QED
  BY <1>3, <1>4

LEMMA ElsewhereInv ==
    IInv /\ (RunPosted \/ SourceChanges \/ HideStatus \/ UNCHANGED vars) => IInv'
<1> SUFFICES ASSUME IInv, RunPosted \/ SourceChanges \/ HideStatus \/ UNCHANGED vars
             PROVE  IInv'
  OBVIOUS
<1> USE DEF IInv
<1>1. /\ UNCHANGED <<running, cfg, dialogs, cards, status, saving, behind, fetched>>
      /\ visible' => visible
      /\ visible' = visible \/ visible' = FALSE
  BY DEF RunPosted, SourceChanges, HideStatus, vars, saving
<1>2. OrderInv' /\ CoverInv' /\ StatusInv' /\ Numbered' = Numbered
  BY <1>1, Elsewhere DEF Standing, saving
<1>3. /\ source' \in Sources
      /\ tray' \in BOOLEAN
      /\ uiQueue' \in Seq(BOOLEAN)
  <2>0. source \in Sources /\ tray \in BOOLEAN /\ uiQueue \in Seq(BOOLEAN)
    BY DEF TypeOK
  <2>1. CASE RunPosted
    <3>1. uiQueue # <<>> /\ tray' = Head(uiQueue) /\ uiQueue' = Tail(uiQueue)
      BY <2>1 DEF RunPosted
    <3>2. Head(uiQueue) \in BOOLEAN /\ Tail(uiQueue) \in Seq(BOOLEAN)
      BY <2>0, <3>1, HeadTailProperties
    <3> QED
      BY <2>0, <2>1, <3>1, <3>2 DEF RunPosted
  <2>2. CASE SourceChanges
    BY <2>0, <2>2 DEF SourceChanges
  <2>3. CASE HideStatus \/ UNCHANGED vars
    BY <2>0, <2>3 DEF HideStatus, vars
  <2> QED
    BY <2>1, <2>2, <2>3
<1>4. TypeOK'
  BY <1>1, <1>2, <1>3 DEF TypeOK, running, saving, UIFree
<1> QED
  BY <1>2, <1>4

LEMMA SpawningInv ==
    IInv /\ (UpdatedClicked \/ ClaudeConnected \/ SaveBands \/ ShowStatus) => IInv'
<1> SUFFICES ASSUME IInv, UpdatedClicked \/ ClaudeConnected \/ SaveBands \/ ShowStatus
             PROVE  IInv'
  OBVIOUS
<1> USE DEF IInv
<1>1. PICK first \in {"clicked", "spawned"}, force \in BOOLEAN :
        /\ Spawn(first, force)
        /\ first = "spawned" \/ visible' = visible
  BY DEF UpdatedClicked, ClaudeConnected, SaveBands, ShowStatus
<1>2. UNCHANGED <<fetched, dialogs, cards, status, saving, uiQueue, tray, behind>>
  BY DEF UpdatedClicked, ClaudeConnected, SaveBands, ShowStatus
<1>3. /\ OrderInv' /\ CoverInv' /\ StatusInv'
      /\ pc' \in [Refreshes -> {"idle", "clicked", "spawned", "reading",
                                "read", "computed", "applied", "posted"}]
      /\ forced' \in [Refreshes -> BOOLEAN]
      /\ Numbered' = Numbered
      /\ UNCHANGED <<model, seen, older, outdated>>
  BY <1>1, <1>2, SpawnCovers
<1>4. /\ source' \in Sources
      /\ visible' \in BOOLEAN
      /\ cfg' \in Settings
      /\ cfg'.gauge = cfg.gauge
  <2>0. cfg \in Settings /\ visible \in BOOLEAN /\ source \in Sources /\ "quota" \in Sources
    BY RefreshAssumption DEF TypeOK
  <2>1. CASE SaveBands
    BY <2>0, <2>1 DEF SaveBands, Settings
  <2>2. CASE ~SaveBands
    BY <2>0, <2>2 DEF UpdatedClicked, ClaudeConnected, ShowStatus
  <2> QED
    BY <2>1, <2>2
<1>5. TypeOK'
  BY <1>2, <1>3, <1>4 DEF TypeOK, saving, UIFree
<1> QED
  BY <1>3, <1>5

-----------------------------------------------------------------------------
(* The settings dialogs *)

\* A dialog that is closed leaves the stack as it is.
LEMMA CloseKeepsStack ==
    ASSUME TypeOK, NEW i \in DOMAIN dialogs, NEW how \in {"saved", "cancelled"},
           Close(i, how)
    PROVE  dialogs' \in Seq(Dialogs) /\ Len(dialogs') = Len(dialogs)
<1>1. dialogs \in Seq(Dialogs) /\ i \in 1..Len(dialogs)
  BY DEF TypeOK
<1>2. dialogs[i] \in Dialogs
  BY <1>1
<1>3. [dialogs[i] EXCEPT !.state = how] \in Dialogs
  BY <1>2 DEF Dialogs
<1>4. dialogs' = [dialogs EXCEPT ![i] = [dialogs[i] EXCEPT !.state = how]]
  BY <1>1 DEF Close
<1> QED
  BY <1>1, <1>3, <1>4

\* What the handlers of a dialog leave alone, and what they keep.
DialogStep ==
    /\ UNCHANGED <<fetched, source, cards, status, visible, uiQueue, tray>>
    /\ dialogs' \in Seq(Dialogs)
    /\ ui' \in 0..Len(dialogs')
    /\ cfg' \in Settings
    /\ before' \in Gauges /\ (ui' = 0 => before' = cfg'.gauge)
    /\ refreshes' \in BOOLEAN /\ behind' \in BOOLEAN
    /\ glimpsed' \in BOOLEAN /\ (glimpsed' => before' # cfg'.gauge)

\* Either the cards are excused from now on, or nothing stands otherwise.
Excused ==
    /\ behind' \/ Standing' = Standing
    /\ behind \/ glimpsed => behind' \/ glimpsed'

LEMMA StandingInv == ASSUME IInv, DialogStep, Excused, UNCHANGED running PROVE IInv'
<1>1. OrderInv' /\ CoverInv' /\ StatusInv' /\ Numbered' = Numbered
  BY Elsewhere DEF IInv, DialogStep, Excused
<1>2. TypeOK'
  BY <1>1 DEF IInv, TypeOK, DialogStep, UIFree, running
<1> QED
  BY <1>1, <1>2 DEF IInv

LEMMA OpenCloseInv ==
    ASSUME IInv, OpenSettings \/ \E i \in DOMAIN dialogs : CloseSettings(i)
    PROVE  IInv'
<1>1. /\ UNCHANGED <<running, fetched, source, cfg, cards, status, visible, saving,
                     uiQueue, tray, behind>>
      /\ ui = 0
  BY DEF OpenSettings, CloseSettings, UIFree
<1>2. dialogs' \in Seq(Dialogs)
  <2>1. CASE OpenSettings
    <3>1. [orig |-> cfg.gauge, state |-> "open"] \in Dialogs /\ dialogs \in Seq(Dialogs)
      BY DEF IInv, TypeOK, Settings, Dialogs
    <3> QED
      BY <2>1, <3>1 DEF OpenSettings
  <2>2. ASSUME NEW i \in DOMAIN dialogs, CloseSettings(i) PROVE dialogs' \in Seq(Dialogs)
    BY <2>2, CloseKeepsStack DEF IInv, CloseSettings
  <2> QED
    BY <2>1, <2>2
<1>3. DialogStep
  BY <1>1, <1>2 DEF DialogStep, IInv, TypeOK, saving, UIFree
<1>4. Excused
  BY <1>1 DEF Excused, Standing, saving
<1> QED
  BY <1>1, <1>3, <1>4, StandingInv

LEMMA WriteSettingsInv ==
    ASSUME IInv, NEW i \in DOMAIN dialogs, WriteSettings(i) PROVE IInv'
<1>1. PICK g \in Gauges, other \in BOOLEAN :
        /\ cfg' = [cfg EXCEPT !.gauge = g]
        /\ refreshes' = (g # dialogs[i].orig \/ other)
  BY DEF WriteSettings
<1>2. /\ UNCHANGED <<running, fetched, source, dialogs, cards, status, visible,
                     before, glimpsed, uiQueue, tray, behind>>
      /\ ui = 0 /\ ui' = i
  BY DEF WriteSettings, UIFree
<1>3. /\ cfg \in Settings /\ dialogs \in Seq(Dialogs) /\ behind \in BOOLEAN
      /\ before \in Gauges /\ before = cfg.gauge /\ glimpsed = FALSE
  BY <1>2 DEF IInv, TypeOK, UIFree
<1>4. cfg' \in Settings /\ cfg'.rows = cfg.rows
  BY <1>1, <1>3 DEF Settings
<1>5. refreshes' \in BOOLEAN
  BY <1>1, Zenon
<1>6. DialogStep
  <2>1. ui' \in 0..Len(dialogs') /\ ui' # 0
    BY <1>2, <1>3
  <2>2. before' \in Gauges /\ glimpsed' = FALSE /\ behind' \in BOOLEAN
    BY <1>2, <1>3
  <2>3. UNCHANGED <<fetched, source, cards, status, visible, uiQueue, tray>>
    BY <1>2
  <2>4. dialogs' \in Seq(Dialogs)
    BY <1>2, <1>3
  <2> QED
    BY <1>4, <1>5, <2>1, <2>2, <2>3, <2>4 DEF DialogStep
<1>7. Excused
  BY <1>2, <1>4 DEF Excused, Standing
<1> QED
  BY <1>2, <1>6, <1>7, StandingInv

LEMMA SettingsSavedInv == ASSUME IInv, SettingsSaved PROVE IInv'
<1>1. /\ UNCHANGED <<fetched, source, cfg, cards, status, visible, uiQueue, tray>>
      /\ ui' = 0 /\ before' = cfg.gauge /\ refreshes' = FALSE /\ glimpsed' = FALSE
      /\ ui # 0 /\ Close(ui, "saved")
  BY DEF SettingsSaved, EndSave, UIFree
<1>2. /\ TypeOK /\ OrderInv /\ StatusInv
      /\ dialogs \in Seq(Dialogs) /\ ui \in 0..Len(dialogs) /\ cfg \in Settings
      /\ behind \in BOOLEAN /\ before \in Gauges /\ (glimpsed => before # cfg.gauge)
  BY DEF IInv, TypeOK
<1>3. cfg.gauge \in Gauges
  BY <1>2 DEF Settings
<1>4. dialogs' \in Seq(Dialogs)
  BY <1>1, <1>2, CloseKeepsStack
<1>5. /\ behind' \in BOOLEAN
      /\ \/ Spawn("spawned", FALSE)
         \/ /\ UNCHANGED running
            /\ behind' \/ before = cfg.gauge
            /\ behind \/ glimpsed => behind'
  <2>1. CASE Spawn("spawned", FALSE) /\ UNCHANGED behind
    BY <1>2, <2>1
  <2>2. CASE behind' = (behind \/ before # cfg.gauge) /\ UNCHANGED running
    BY <1>2, <2>2, Zenon
  <2> QED
    BY <2>1, <2>2 DEF SettingsSaved
<1>6. DialogStep
  <2>1. ui' \in 0..Len(dialogs') /\ before' = cfg'.gauge /\ cfg' \in Settings
    BY <1>1, <1>2, <1>4
  <2>2. before' \in Gauges /\ glimpsed' = FALSE /\ refreshes' \in BOOLEAN
    BY <1>1, <1>3
  <2> QED
    BY <1>1, <1>4, <1>5, <2>1, <2>2 DEF DialogStep
<1>7. CASE /\ UNCHANGED running
           /\ behind' \/ before = cfg.gauge
           /\ behind \/ glimpsed => behind'
  <2>1. Excused
    BY <1>1, <1>7 DEF Excused, Standing
  <2> QED
    BY <1>6, <1>7, <2>1, StandingInv
<1>8. CASE Spawn("spawned", FALSE)
  <2>1. /\ OrderInv' /\ CoverInv' /\ StatusInv'
        /\ pc' \in [Refreshes -> {"idle", "clicked", "spawned", "reading",
                                  "read", "computed", "applied", "posted"}]
        /\ forced' \in [Refreshes -> BOOLEAN]
        /\ Numbered' = Numbered
        /\ UNCHANGED <<model, seen, older, outdated>>
    BY <1>1, <1>2, <1>8, SpawnCovers
  <2>2. TypeOK'
    BY <1>2, <1>6, <2>1 DEF TypeOK, DialogStep
  <2> QED
    BY <2>1, <2>2 DEF IInv
<1> QED
  BY <1>5, <1>7, <1>8

LEMMA SettingsSaveFailedInv == ASSUME IInv, SettingsSaveFailed PROVE IInv'
<1> DEFINE orig == dialogs[ui].orig
<1>1. /\ UNCHANGED <<running, fetched, source, dialogs, cards, status, visible,
                     uiQueue, tray>>
      /\ cfg' = [cfg EXCEPT !.gauge = orig]
      /\ behind' = (behind \/ glimpsed \/ orig # before)
      /\ ui' = 0 /\ before' = orig /\ refreshes' = FALSE /\ glimpsed' = FALSE
      /\ ui # 0
  BY DEF SettingsSaveFailed, EndSave, UIFree
<1>2. /\ dialogs \in Seq(Dialogs) /\ ui \in 1..Len(dialogs) /\ cfg \in Settings
      /\ behind \in BOOLEAN /\ glimpsed \in BOOLEAN
  BY <1>1 DEF IInv, TypeOK
<1>3. orig \in Gauges
  <2>1. dialogs[ui] \in Dialogs
    BY <1>2
  <2> QED
    BY <2>1 DEF Dialogs
<1>4. cfg' \in Settings /\ cfg'.rows = cfg.rows /\ cfg'.gauge = orig
  BY <1>1, <1>2, <1>3 DEF Settings
<1>5. /\ behind' \in BOOLEAN
      /\ behind' \/ orig = before
      /\ behind \/ glimpsed => behind'
  BY <1>1, Zenon
<1>6. DialogStep
  <2>1. ui' \in 0..Len(dialogs') /\ before' = cfg'.gauge /\ dialogs' \in Seq(Dialogs)
    BY <1>1, <1>2, <1>4
  <2>2. before' \in Gauges /\ glimpsed' = FALSE /\ refreshes' \in BOOLEAN
    BY <1>1, <1>3
  <2> QED
    BY <1>1, <1>4, <1>5, <2>1, <2>2 DEF DialogStep
<1>7. Excused
  BY <1>1, <1>4, <1>5 DEF Excused, Standing
<1> QED
  BY <1>1, <1>6, <1>7, StandingInv

LEMMA DialogReturnsInv == ASSUME IInv, DialogReturns PROVE IInv'
<1> DEFINE top == dialogs[Len(dialogs)]
           back == IF top.state = "saved" THEN cfg.gauge ELSE top.orig
<1>1. /\ UNCHANGED <<running, fetched, source, cards, status, visible, ui, refreshes,
                     glimpsed, uiQueue, tray>>
      /\ cfg' = [cfg EXCEPT !.gauge = back]
      /\ before' = back
      /\ behind' = (behind \/ back # cfg.gauge)
      /\ dialogs' = SubSeq(dialogs, 1, Len(dialogs) - 1)
      /\ ui = 0 /\ dialogs # <<>>
  BY DEF DialogReturns, UIFree
<1>2. /\ dialogs \in Seq(Dialogs) /\ cfg \in Settings /\ behind \in BOOLEAN
      /\ refreshes \in BOOLEAN /\ before = cfg.gauge /\ glimpsed = FALSE
  BY <1>1 DEF IInv, TypeOK, UIFree
<1>3. back \in Gauges
  <2>1. top \in Dialogs
    BY <1>1, <1>2
  <2> QED
    BY <1>2, <2>1 DEF Dialogs, Settings
<1>4. cfg' \in Settings /\ cfg'.rows = cfg.rows /\ cfg'.gauge = back
  BY <1>1, <1>2, <1>3 DEF Settings
<1>5. dialogs' \in Seq(Dialogs)
  <2>1. Len(dialogs) \in Nat /\ Len(dialogs) # 0
    BY <1>1, <1>2
  <2>2. \A i \in 1..(Len(dialogs) - 1) : dialogs[i] \in Dialogs
    BY <1>2, <2>1
  <2> QED
    BY <1>1, <1>2, <2>1, <2>2, SubSeqProperties
<1>6. DialogStep
  <2>1. ui' \in 0..Len(dialogs')
    BY <1>1, <1>5
  <2> QED
    BY <1>1, <1>2, <1>3, <1>4, <1>5, <2>1 DEF DialogStep
<1>7. Excused
  BY <1>1, <1>2, <1>4 DEF Excused, Standing
<1> QED
  BY <1>1, <1>6, <1>7, StandingInv

LEMMA NextInv == IInv /\ [Next]_vars => IInv'
<1> SUFFICES ASSUME IInv, [Next]_vars PROVE IInv'
  OBVIOUS
<1>1. CASE TimerFires
  BY <1>1, TimerFiresInv
<1>2. ASSUME NEW r \in Refreshes, RefreshOnce(r) PROVE IInv'
  BY <1>2, AnnounceInv, BeginInv, ReadInv, CopySettingsInv, ApplyInv, PostTrayInv,
     ShowUpdatedInv DEF RefreshOnce
<1>3. CASE FinishSave
  BY <1>3, SettingsSavedInv, SettingsSaveFailedInv DEF FinishSave
<1>4. CASE User
  BY <1>4, SpawningInv, OpenCloseInv, WriteSettingsInv, DialogReturnsInv, ElsewhereInv
     DEF User
<1>5. CASE RunPosted \/ SourceChanges \/ UNCHANGED vars
  BY <1>5, ElsewhereInv
<1> QED
  BY <1>1, <1>2, <1>3, <1>4, <1>5 DEF Next

LEMMA Invariance == Spec => []IInv
<1> QED
  BY InitInv, NextInv, PTL DEF Spec

-----------------------------------------------------------------------------
(* Theorems *)

\* The variables of the refresh cycle keep their types; only a refresh that is
\* under way is ever outdated.
THEOREM TypeCorrect == Spec => []TypeOK
<1> QED
  BY Invariance, Consequences, PTL

\* When all refreshes are over, the cards are those of the current settings, unless
\* a read failed, a save was taken back that a refresh had seen, or an overtaken
\* dialog brought gauge settings back without a refresh.
THEOREM CardsCurrent == Spec => []QuietMeansCurrent
<1> QED
  BY Invariance, Consequences, PTL

\* When all refreshes are over, the panel does not say Refreshing.
THEOREM PanelSettles == Spec => []StatusSettles
<1> QED
  BY Invariance, Consequences, PTL
=============================================================================
