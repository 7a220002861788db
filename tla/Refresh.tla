------------------------------ MODULE Refresh ------------------------------
(***************************************************************************)
(* internal/ui/app.go: refreshOnce and everything that starts it.          *)
(*                                                                         *)
(* A refresh reads the providers, copies the settings, computes the cards, *)
(* stores them and posts the state of the tray's "Connect Claude..." entry *)
(* to the UI thread.  The refresh loop runs one after another; a click on  *)
(* the Updated panel, a saved settings dialog, a saved band picker, a      *)
(* sign-in and the tray's Show each start one of their own, so several     *)
(* overlap.  Only the UI thread changes the settings, and it runs one      *)
(* handler or posted closure at a time.  The settings dialog has no owner  *)
(* window: the gear opens another one over it.  Its Run returns when it is *)
(* closed and so are those opened later; a Save works on a copy of the     *)
(* settings it was opened with, whatever was saved meanwhile.              *)
(*                                                                         *)
(* Of the settings, only what the cards depend on is kept: the gauge       *)
(* fields, which a dialog saves and puts back, and the hidden rows, one    *)
(* map that every copy of the settings shares.                             *)
(*                                                                         *)
(* readSeq and appliedSeq are used only to compare refreshes with each     *)
(* other.  Here the numbers are replaced by what they decide: older[r]     *)
(* holds the refreshes under way with a smaller number than r, and         *)
(* outdated those whose number is below appliedSeq.                        *)
(***************************************************************************)
EXTENDS Integers, Sequences

CONSTANTS
    Loop,      \* the goroutine of refreshLoop
    Others,    \* the goroutines of "go refreshOnce"; bound: so many at once
    Sources,   \* what the readers may bring (see RefreshAssumption)
    Gauges,    \* values of the band cap and the gauge thresholds
    Rows,      \* values of the set of hidden rows
    NoSettings, \* no copy of the settings
    MaxOpen,   \* bound: settings dialogs on the stack
    QueueCap   \* bound: closures waiting for the UI thread

Settings == [gauge : Gauges, rows : Rows]
Dialogs == [orig : Gauges, state : {"open", "saved", "cancelled"}]

\* The Claude card asks for a sign-in, or it does not; "nothing" is the case
\* of no snapshot from any reader and at least one error.
ASSUME RefreshAssumption ==
    /\ Loop \notin Others
    /\ {"quota", "nothing"} \subseteq Sources
    /\ Sources \subseteq {"signin", "quota", "nothing"}
    /\ NoSettings \notin Settings
    /\ MaxOpen \in Nat
    /\ QueueCap \in Nat \ {0}

Refreshes == Others \cup {Loop}

VARIABLES
    pc,        \* pc[r]: where refresh r stands
    forced,    \* forced[r]: its context carries WithForceRefresh
    model,     \* model[r]: what Aggregator.Read gave it
    seen,      \* seen[r]: the settings it copied
    older,     \* older[r]: the refreshes under way with a smaller seq than r's
    outdated,  \* the refreshes under way with seq < appliedSeq
    fetched,   \* what the readers' caches hold
    source,    \* what a fetch would bring now
    cfg,       \* a.cfg
    dialogs,   \* the settings dialogs, the last one on top: what they opened with
    cards,     \* a.cards: the settings they follow, what the Claude card says
    status,    \* the text of the Updated panel
    visible,   \* a.visible: the user has not hidden the dock
    ui,        \* the dialog whose Save the UI thread is in the middle of, or 0
    before,    \* the gauge settings that save found; cfg.gauge when there is none
    refreshes, \* that save will start a refresh
    glimpsed,  \* history: a refresh copied what that save may still take back
    uiQueue,   \* closures posted with Synchronize: values for the tray entry
    tray,      \* the tray's Connect entry is visible
    behind     \* history: a refresh failed, or gauge settings came back with
               \* no refresh, since the newest refresh last applied the current
               \* settings

running == <<pc, forced, model, seen, older, outdated>>
saving == <<ui, before, refreshes, glimpsed>>
vars == <<running, fetched, source, cfg, dialogs, cards, status, visible,
          saving, uiQueue, tray, behind>>

-----------------------------------------------------------------------------
(* Data *)

NoCards == [cfg |-> NoSettings, model |-> "nothing"]

\* cardsNeedClaudeConnect
NeedsConnect(m) == m = "signin"

UIFree == ui = 0

\* The refreshes under way that have a number.
Numbered == {r \in Refreshes :
    pc[r] \in {"reading", "read", "computed", "applied", "posted"}}

Done(r) ==
    /\ pc' = [pc EXCEPT ![r] = "idle"]
    /\ forced' = [forced EXCEPT ![r] = FALSE]
    /\ model' = [model EXCEPT ![r] = "nothing"]
    /\ seen' = [seen EXCEPT ![r] = NoSettings]
    /\ older' = [s \in Refreshes |-> IF s = r THEN {} ELSE older[s] \ {r}]
    /\ outdated' = outdated \ {r}

-----------------------------------------------------------------------------
(* refreshOnce *)

\* The timer of refreshLoop.
TimerFires ==
    /\ pc[Loop] = "idle"
    /\ pc' = [pc EXCEPT ![Loop] = "spawned"]
    /\ UNCHANGED <<forced, model, seen, older, outdated, fetched, source, cfg,
                   dialogs, cards, status, visible, saving, uiQueue, tray, behind>>

\* manualRefresh announces itself before it calls refreshOnce.
Announce(r) ==
    /\ pc[r] = "clicked"
    /\ status' = "Refreshing"
    /\ pc' = [pc EXCEPT ![r] = "spawned"]
    /\ UNCHANGED <<forced, model, seen, older, outdated, fetched, source, cfg,
                   dialogs, cards, visible, saving, uiQueue, tray, behind>>

\* A hidden dock is not refreshed; otherwise readSeq numbers the refresh.
\* (Nothing but a Hide or another start can come between the two, with the
\* same outcome as after or before both.)
Begin(r) ==
    /\ pc[r] = "spawned"
    /\ IF visible
       THEN /\ pc' = [pc EXCEPT ![r] = "reading"]
            /\ older' = [older EXCEPT ![r] = Numbered]
            /\ UNCHANGED <<forced, model, seen, outdated>>
       ELSE Done(r)
    /\ UNCHANGED <<fetched, source, cfg, dialogs, cards, status, visible, saving,
                   uiQueue, tray, behind>>

\* Aggregator.Read answered m.
ReadAnswers(r, m) ==
    \/ /\ m # "nothing"
       /\ model' = [model EXCEPT ![r] = m]
       /\ pc' = [pc EXCEPT ![r] = "read"]
       /\ forced' = [forced EXCEPT ![r] = FALSE]
       /\ UNCHANGED <<seen, older, outdated, status, behind>>
    \/ /\ m = "nothing"
       /\ status' = "Waiting"
       /\ behind' = TRUE
       /\ Done(r)

\* Outside the throttle window, or forced, the sources are asked.
ReadFetches(r) ==
    /\ pc[r] = "reading"
    /\ fetched' = source
    /\ ReadAnswers(r, source)
    /\ UNCHANGED <<source, cfg, dialogs, cards, visible, saving, uiQueue, tray>>

\* Inside the window the caches replay what they hold.
ReadReplays(r) ==
    /\ pc[r] = "reading"
    /\ ~forced[r]
    /\ fetched # "unread"
    /\ ReadAnswers(r, fetched)
    /\ UNCHANGED <<fetched, source, cfg, dialogs, cards, visible, saving, uiQueue, tray>>

\* snapshotCfg copies the settings under a.mu, quota.Cards works on the copy.
CopySettings(r) ==
    /\ pc[r] = "read"
    /\ pc' = [pc EXCEPT ![r] = "computed"]
    /\ seen' = [seen EXCEPT ![r] = cfg]
    /\ glimpsed' = (before # cfg.gauge)
    /\ UNCHANGED <<forced, model, older, outdated, fetched, source, cfg, dialogs, cards,
                   status, visible, ui, before, refreshes, uiQueue, tray, behind>>

\* The refreshes with a smaller number, and whether nobody has a larger one.
StartedBefore(r) == older[r]
Newest(r) == \A s \in Numbered : r \notin older[s]

\* Faulty variant: no sequence guard, the last to finish wins.
ApplyUnguarded(r) ==
    /\ pc[r] = "computed"
    /\ outdated' = outdated
    /\ cards' = [cfg |-> seen[r], model |-> model[r]]
    /\ behind' = (behind /\ ~(UIFree /\ seen[r] = cfg /\ Newest(r)))
    /\ pc' = [pc EXCEPT ![r] = "applied"]
    /\ seen' = [seen EXCEPT ![r] = NoSettings]
    /\ UNCHANGED <<forced, model, older, fetched, source, cfg, dialogs, status,
                   visible, saving, uiQueue, tray>>

\* The cards are stored, unless a refresh with a later number was first.
Apply(r) ==
    /\ pc[r] = "computed"
    /\ IF r \in outdated
       THEN Done(r) /\ UNCHANGED <<cards, behind>>
       ELSE /\ outdated' = outdated \cup StartedBefore(r)
            /\ cards' = [cfg |-> seen[r], model |-> model[r]]
            /\ behind' = (behind /\ ~(UIFree /\ seen[r] = cfg /\ Newest(r)))
            /\ pc' = [pc EXCEPT ![r] = "applied"]
            /\ seen' = [seen EXCEPT ![r] = NoSettings]
            /\ UNCHANGED <<forced, model, older>>
    /\ UNCHANGED <<fetched, source, cfg, dialogs, status, visible, saving,
                   uiQueue, tray>>

\* Faulty variant: only the sign-in prompt is posted, never its withdrawal.
PostTrayPromptOnly(r) ==
    /\ pc[r] = "applied"
    /\ pc' = [pc EXCEPT ![r] = "posted"]
    /\ Len(uiQueue) < QueueCap
    /\ uiQueue' = IF NeedsConnect(model[r]) THEN Append(uiQueue, TRUE) ELSE uiQueue
    /\ model' = [model EXCEPT ![r] = "nothing"]
    /\ UNCHANGED <<forced, seen, older, outdated, fetched, source, cfg,
                   dialogs, cards, status, visible, saving, tray, behind>>

\* refreshTrayProviderActions, after a.mu was released.
PostTray(r) ==
    /\ pc[r] = "applied"
    /\ pc' = [pc EXCEPT ![r] = "posted"]
    /\ Len(uiQueue) < QueueCap
    /\ uiQueue' = Append(uiQueue, NeedsConnect(model[r]))
    /\ model' = [model EXCEPT ![r] = "nothing"]
    /\ UNCHANGED <<forced, seen, older, outdated, fetched, source, cfg,
                   dialogs, cards, status, visible, saving, tray, behind>>

ShowUpdated(r) ==
    /\ pc[r] = "posted"
    /\ status' = "Updated"
    /\ Done(r)
    /\ UNCHANGED <<fetched, source, cfg, dialogs, cards, visible, saving,
                   uiQueue, tray, behind>>

-----------------------------------------------------------------------------
(* The UI thread *)

Spawn(first, force) ==
    \E r \in Others :
        /\ pc[r] = "idle"
        /\ pc' = [pc EXCEPT ![r] = first]
        /\ forced' = [forced EXCEPT ![r] = force]
        /\ UNCHANGED <<model, seen, older, outdated>>

\* walk runs the posted closures between two messages, in order.
RunPosted ==
    /\ UIFree
    /\ uiQueue # <<>>
    /\ tray' = Head(uiQueue)
    /\ uiQueue' = Tail(uiQueue)
    /\ UNCHANGED <<running, fetched, source, cfg, dialogs, cards, status, visible,
                   saving, behind>>

\* A click on the Updated panel.
UpdatedClicked ==
    /\ UIFree
    /\ visible
    /\ Spawn("clicked", TRUE)
    /\ UNCHANGED <<fetched, source, cfg, dialogs, cards, status, visible, saving, uiQueue, tray, behind>>

\* A sign-in was saved: the exchange goroutine, or the setup-token dialog.
ClaudeConnected ==
    /\ UIFree
    /\ source' = "quota"
    /\ Spawn("spawned", TRUE)
    /\ UNCHANGED <<fetched, cfg, dialogs, cards, status, visible, saving,
                   uiQueue, tray, behind>>

\* OK in the band picker changes the shared map under a.mu and starts a refresh,
\* whether or not the file could be saved.
SaveBands ==
    /\ UIFree
    /\ \E h \in Rows : cfg' = [cfg EXCEPT !.rows = h]
    /\ Spawn("spawned", FALSE)
    /\ UNCHANGED <<fetched, source, dialogs, cards, status, visible, saving,
                   uiQueue, tray, behind>>

\* The gear, also while other settings dialogs are open.
OpenSettings ==
    /\ UIFree
    /\ Len(dialogs) < MaxOpen
    /\ dialogs' = Append(dialogs, [orig |-> cfg.gauge, state |-> "open"])
    /\ UNCHANGED <<running, fetched, source, cfg, cards, status, visible, saving,
                   uiQueue, tray, behind>>

\* The UI thread is past the save, and a.cfg holds gauge settings g.
EndSave(g) ==
    /\ ui' = 0
    /\ before' = g
    /\ refreshes' = FALSE
    /\ glimpsed' = FALSE

\* Save with a change puts the new settings in place, made from those the dialog
\* was opened with.  What else may have changed starts a refresh (theme, docking,
\* opacity, interval) or does not (start with Windows).
WriteSettings(i) ==
    /\ UIFree
    /\ dialogs[i].state = "open"
    /\ \E g \in Gauges, other \in BOOLEAN :
        /\ cfg' = [cfg EXCEPT !.gauge = g]
        /\ refreshes' = (g # dialogs[i].orig \/ other)
    /\ ui' = i
    /\ UNCHANGED <<running, fetched, source, dialogs, cards, status, visible,
                   before, glimpsed, uiQueue, tray, behind>>

Close(i, how) == dialogs' = [dialogs EXCEPT ![i].state = how]

\* ... closes the dialog once the file is written, with a refresh if one is due.
\* Without one, a save of a dialog that was overtaken by another may have brought
\* older gauge settings back ...
SettingsSaved ==
    /\ ~UIFree
    /\ Close(ui, "saved")
    /\ \/ refreshes /\ Spawn("spawned", FALSE) /\ UNCHANGED behind
       \/ /\ ~refreshes
          /\ behind' = (behind \/ before # cfg.gauge)
          /\ UNCHANGED running
    /\ EndSave(cfg.gauge)
    /\ UNCHANGED <<fetched, source, cfg, cards, status, visible, uiQueue, tray>>

\* ... or, when it cannot be, puts those the dialog was opened with in place
\* without a refresh, and the dialog stays open.
SettingsSaveFailed ==
    /\ ~UIFree
    /\ LET orig == dialogs[ui].orig IN
        /\ cfg' = [cfg EXCEPT !.gauge = orig]
        /\ behind' = (behind \/ glimpsed \/ orig # before)
        /\ EndSave(orig)
    /\ UNCHANGED <<running, fetched, source, dialogs, cards, status, visible,
                   uiQueue, tray>>

\* Save with no change, and Cancel.
CloseSettings(i) ==
    /\ UIFree
    /\ dialogs[i].state = "open"
    /\ \E how \in {"saved", "cancelled"} : Close(i, how)
    /\ UNCHANGED <<running, fetched, source, cfg, cards, status, visible, saving,
                   uiQueue, tray, behind>>

\* The Run of the topmost dialog returns.  A dialog that was not saved puts the
\* settings it was opened with back, without a refresh.
DialogReturns ==
    /\ UIFree
    /\ dialogs # <<>>
    /\ LET top == dialogs[Len(dialogs)]
           back == IF top.state = "saved" THEN cfg.gauge ELSE top.orig
       IN  /\ top.state # "open"
           /\ cfg' = [cfg EXCEPT !.gauge = back]
           /\ before' = back
           /\ behind' = (behind \/ back # cfg.gauge)
    /\ dialogs' = SubSeq(dialogs, 1, Len(dialogs) - 1)
    /\ UNCHANGED <<running, fetched, source, cards, status, visible, ui, refreshes,
                   glimpsed, uiQueue, tray>>

\* Hide and Show in the tray menu.
HideStatus ==
    /\ UIFree
    /\ visible
    /\ visible' = FALSE
    /\ UNCHANGED <<running, fetched, source, cfg, dialogs, cards, status, saving, uiQueue, tray, behind>>

\* Faulty variant: the dock comes back with what it last showed.
ShowStatusAsItWas ==
    /\ UIFree
    /\ ~visible
    /\ visible' = TRUE
    /\ UNCHANGED <<running, fetched, source, cfg, dialogs, cards, status, saving, uiQueue, tray, behind>>

ShowStatus ==
    /\ UIFree
    /\ ~visible
    /\ visible' = TRUE
    /\ Spawn("spawned", FALSE)
    /\ UNCHANGED <<fetched, source, cfg, dialogs, cards, status, saving,
                   uiQueue, tray, behind>>

-----------------------------------------------------------------------------

\* Credentials expire, the network comes and goes.
SourceChanges ==
    /\ \E s \in Sources \ {source} : source' = s
    /\ UNCHANGED <<running, fetched, cfg, dialogs, cards, status, visible, saving, uiQueue, tray, behind>>

Init ==
    /\ pc = [r \in Refreshes |-> IF r = Loop THEN "spawned" ELSE "idle"]
    /\ forced = [r \in Refreshes |-> FALSE]
    /\ model = [r \in Refreshes |-> "nothing"]
    /\ seen = [r \in Refreshes |-> NoSettings]
    /\ older = [r \in Refreshes |-> {}]
    /\ outdated = {}
    /\ fetched = "unread"
    /\ source \in Sources
    /\ cfg \in Settings
    /\ dialogs = <<>>
    /\ cards = NoCards
    /\ status = "Starting"
    /\ visible = TRUE
    /\ ui = 0
    /\ before = cfg.gauge
    /\ refreshes = FALSE
    /\ glimpsed = FALSE
    /\ uiQueue = <<>>
    /\ tray = FALSE
    /\ behind = FALSE

RefreshOnce(r) ==
    \/ Announce(r) \/ Begin(r)
    \/ ReadFetches(r) \/ ReadReplays(r)
    \/ CopySettings(r)
    \/ Apply(r) \/ PostTray(r) \/ ShowUpdated(r)

FinishSave == SettingsSaved \/ SettingsSaveFailed

User ==
    \/ UpdatedClicked \/ ClaudeConnected
    \/ SaveBands \/ OpenSettings \/ DialogReturns
    \/ \E i \in DOMAIN dialogs : WriteSettings(i) \/ CloseSettings(i)
    \/ HideStatus \/ ShowStatus

Next ==
    \/ TimerFires
    \/ \E r \in Refreshes : RefreshOnce(r)
    \/ RunPosted
    \/ FinishSave
    \/ User
    \/ SourceChanges

Spec == Init /\ [][Next]_vars

\* refreshLoop is never given up: its timer fires, its refresh gets on, and its
\* caches do not replay for ever, because their window closes (RecoveryShown in
\* ReaderCache).  The UI thread ends its handler, and a user who saves again and
\* again does not keep it from the closures that wait: walk runs them between two
\* messages.  (Strong fairness of the refresh because the queue's bound can hold
\* it up; the real queue has none.)  Nothing is assumed of the other goroutines, of the user,
\* of the sources or of the disk.
FairSpec ==
    /\ Spec
    /\ WF_vars(TimerFires)
    /\ WF_vars(FinishSave)
    /\ SF_vars(RunPosted)
    /\ SF_vars(RefreshOnce(Loop))
    /\ SF_vars(ReadFetches(Loop))

-----------------------------------------------------------------------------
(* Properties *)

TypeOK ==
    /\ pc \in [Refreshes -> {"idle", "clicked", "spawned", "reading",
                             "read", "computed", "applied", "posted"}]
    /\ forced \in [Refreshes -> BOOLEAN]
    /\ model \in [Refreshes -> Sources]
    /\ seen \in [Refreshes -> Settings \cup {NoSettings}]
    /\ older \in [Refreshes -> SUBSET Refreshes]
    /\ outdated \subseteq Numbered
    /\ fetched \in Sources \cup {"unread"}
    /\ source \in Sources
    /\ cfg \in Settings
    /\ dialogs \in Seq(Dialogs)
    /\ cards \in [cfg : Settings \cup {NoSettings}, model : Sources]
    /\ status \in {"Starting", "Refreshing", "Waiting", "Updated"}
    /\ visible \in BOOLEAN
    /\ ui \in 0..Len(dialogs)
    /\ before \in Gauges /\ (ui = 0 => before = cfg.gauge)
    /\ refreshes \in BOOLEAN
    /\ glimpsed \in BOOLEAN /\ (glimpsed => before # cfg.gauge)
    /\ uiQueue \in Seq(BOOLEAN)
    /\ tray \in BOOLEAN
    /\ behind \in BOOLEAN

\* Nothing is under way that could still change what the dock shows.
Quiet == UIFree /\ visible /\ \A r \in Refreshes : pc[r] = "idle"

\* However many refreshes overlapped a change of the settings, when they are
\* all over the cards are those of the current settings: an older copy of the
\* settings never has the last word, and no change is left unseen by a dock
\* that was hidden meanwhile.  Only a read that failed, a save that was taken
\* back, or a dialog that brings gauge settings back without a refresh, because
\* another one was saved while it was open, leaves the cards behind.
QuietMeansCurrent == Quiet /\ ~behind => cards.cfg = cfg

\* The panel never stays at "Refreshing": a click that found the dock hidden
\* again, or whose result came too late, is followed by a refresh that says so.
StatusSettles == Quiet => status # "Refreshing"

\* Whatever order the closures of overlapping refreshes reached the UI thread
\* in, while the dock stays shown the tray entry ends up saying what Claude's
\* credentials need.
TraySettles ==
    \A s \in {"signin", "quota"} :
        <>[](visible /\ source = s) => <>[](tray = NeedsConnect(s))

=============================================================================
