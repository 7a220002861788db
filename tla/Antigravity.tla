----------------------------- MODULE Antigravity -----------------------------
(***************************************************************************)
(* internal/provider/antigravity.go: AntigravityReader.Read.               *)
(*                                                                         *)
(* The language server of a running Antigravity is looked for on the ports *)
(* it may listen on, every one asked at once; when none of them yields     *)
(* quota rows, the newest status file stands in while it is young enough.  *)
(* Where to ask and where to look are remembered for a while.  The server  *)
(* ends and comes back on other ports, and files appear, are rewritten and *)
(* vanish, in the middle of a read as well.                                *)
(*                                                                         *)
(* Ages count in ticks.  A read (five seconds) is short against a tick.    *)
(***************************************************************************)
EXTENDS Integers, FiniteSets, FiniteSetsExt

CONSTANTS
    Ports,       \* where a language server may listen
    StatusFiles, \* the status files there may be
    FixedFiles,  \* those whose names are tried without having been found
    EndpointTTL, \* antigravityEndpointCache: 60 seconds
    PathTTL,     \* antigravityStatusPathCache: 5 minutes
    Cutoff       \* antigravityCacheStalenessCutoff: 45 minutes

\* What is assumed of the constants; the module that gives them values ASSUMEs it.
AntigravityAssumption ==
    /\ FixedFiles \subseteq StatusFiles /\ FixedFiles # {}
    /\ {EndpointTTL, PathTTL, Cutoff} \subseteq Nat \ {0}

VARIABLES
    ports,     \* what answers on each port
    disk,      \* the age of each file's contents
    regime,    \* "any": everything may happen; "serving": a server stays on its
               \* port and answers; "silent": no server; no file is written in both
    endpoints, \* antigravityEndpointCache: items and age
    endAge,
    paths,     \* antigravityStatusPathCache: paths and age
    pathAge,
    pc,        \* where Read stands
    pending,   \* endpoints that have not answered yet
    todo,      \* files still to read
    held,      \* the file read last and the age its contents had
    best,      \* the newest so far: the age it claims and the age it has
    card,      \* what the last read returned
    disturbed  \* history: a file changed during this read

world   == <<ports, disk, regime>>
caches  == <<endpoints, endAge, paths, pathAge>>
reading == <<pending, todo, held, best>>
vars    == <<world, caches, pc, reading, card, disturbed>>

-----------------------------------------------------------------------------
(* Data *)

\* silent: nobody, or a process of another kind, which fails the RPCs.
\* bare: a language server whose models carry no quota rows.
Answers == {"silent", "bare", "quota"}

TooOld == Cutoff + 1   \* ages stop here
Gone   == Cutoff + 2   \* no such file, or none with quota rows
Ages   == 0..TooOld
Older(age) == IF age < TooOld THEN age + 1 ELSE age

NoFile  == [file |-> CHOOSE f \in StatusFiles : TRUE, age |-> 0]
Nothing == [claimed |-> Gone, true |-> Gone]
Cards == {"live", "stale", "none"}

Return(outcome) ==
    /\ card' = outcome
    /\ pc' = "idle"
    /\ pending' = {}
    /\ todo' = {}
    /\ best' = Nothing
    /\ held' = NoFile
    /\ disturbed' = FALSE

-----------------------------------------------------------------------------
(* Read: the running server *)

\* Faulty variant: a remembered list counts as good however old it is.
RememberedForGood(age, ttl) == age <= ttl

Remembered(age, ttl) == age < ttl

\* Read begins.  antigravityEndpointCandidates takes the remembered list or
\* makes a new one from the logs, the processes and their open ports.  What is
\* found is remembered even when the search ran out of time; ports of servers
\* that have ended may be among it.
Begin ==
    /\ pc = "idle"
    /\ IF Remembered(endAge, EndpointTTL)
       THEN UNCHANGED <<endpoints, endAge>>
       ELSE /\ endpoints' \in SUBSET Ports
            /\ regime = "any" \/ {p \in Ports : ports[p] # "silent"} \subseteq endpoints'
            /\ endAge' = 0
    /\ pending' = endpoints'
    /\ pc' = "probing"
    /\ UNCHANGED <<world, paths, pathAge, todo, held, best, card, disturbed>>

\* fetchFirstAntigravityStatus: the endpoints answer in any order and the first
\* one with model configurations decides, with or without quota rows.
EndpointAnswers ==
    /\ pc = "probing"
    /\ \E p \in pending :
         \/ /\ ports[p] = "silent"
            /\ pending' = pending \ {p}
            /\ UNCHANGED <<pc, todo, held, best, card, disturbed>>
         \/ /\ ports[p] = "bare"
            /\ pending' = {}
            /\ UNCHANGED <<pc, todo, held, best, card, disturbed>>
         \/ /\ ports[p] = "quota"
            /\ Return("live")
    /\ UNCHANGED <<world, caches>>

\* The five seconds are over.
ProbeTimesOut ==
    /\ pc = "probing"
    /\ pending # {} /\ regime = "any"
    /\ pending' = {}
    /\ UNCHANGED <<world, caches, pc, todo, held, best, card, disturbed>>

-----------------------------------------------------------------------------
(* Read: the files *)

Existing == {f \in StatusFiles : disk[f] # Gone}

\* antigravityStatusPaths takes the remembered paths or walks the data tree,
\* which is not there on a machine without Antigravity.  A file that is listed
\* need not hold quota rows (yet).
FindFiles ==
    /\ pc = "probing"
    /\ pending = {}
    /\ IF Remembered(pathAge, PathTTL)
       THEN UNCHANGED <<paths, pathAge>>
       ELSE /\ \/ \E listed \in SUBSET StatusFiles :
                    Existing \subseteq listed /\ paths' = FixedFiles \cup listed
               \/ Existing = {} /\ paths' = {}
            /\ pathAge' = 0
    /\ todo' = paths'
    /\ pc' = "files"
    /\ UNCHANGED <<world, endpoints, endAge, pending, held, best, card, disturbed>>

\* cachedStatuses reads a file ...
ReadFile ==
    /\ pc = "files"
    /\ \E f \in todo :
         /\ todo' = todo \ {f}
         /\ IF disk[f] = Gone
            THEN UNCHANGED <<held, pc>>
            ELSE held' = [file |-> f, age |-> disk[f]] /\ pc' = "stat"
    /\ UNCHANGED <<world, caches, pending, best, card, disturbed>>

\* Faulty variant: a later file wins.
StatFileLast ==
    /\ pc = "stat"
    /\ LET claimed == IF disk[held.file] = Gone THEN TooOld ELSE disk[held.file]
       IN best' = [claimed |-> claimed, true |-> held.age]
    /\ held' = NoFile
    /\ pc' = "files"
    /\ UNCHANGED <<world, caches, pending, todo, card, disturbed>>

\* ... and asks for its time of modification afterwards; newestAntigravityQuotaCache
\* keeps the newest.
StatFile ==
    /\ pc = "stat"
    /\ LET claimed == IF disk[held.file] = Gone THEN TooOld ELSE disk[held.file]
       IN best' = IF claimed < best.claimed
                  THEN [claimed |-> claimed, true |-> held.age] ELSE best
    /\ held' = NoFile
    /\ pc' = "files"
    /\ UNCHANGED <<world, caches, pending, todo, card, disturbed>>

\* Faulty variant: the age is shown, but nobody looks at it.
FinishAnyAge ==
    /\ pc = "files"
    /\ todo = {}
    /\ Return(IF best # Nothing THEN "stale" ELSE "none")
    /\ UNCHANGED <<world, caches>>

\* Read ends with the stale rows or with nothing.
Finish ==
    /\ pc = "files"
    /\ todo = {}
    /\ Return(IF best.claimed <= Cutoff THEN "stale" ELSE "none")
    /\ UNCHANGED <<world, caches>>

-----------------------------------------------------------------------------
(* Antigravity, the disk and time *)

ServerChanges ==
    /\ regime = "any"
    /\ \E p \in Ports : \E a \in Answers \ {ports[p]} : ports' = [ports EXCEPT ![p] = a]
    /\ UNCHANGED <<disk, regime, caches, pc, reading, card, disturbed>>

FileChanges ==
    /\ regime = "any"
    /\ \E f \in StatusFiles, age \in {0, Gone} :
         disk[f] # age /\ disk' = [disk EXCEPT ![f] = age]
    /\ disturbed' = (pc # "idle")
    /\ UNCHANGED <<ports, regime, caches, pc, reading, card>>

\* (A remembered list that has expired is not read again: the model drops it.)
Tick ==
    /\ pc = "idle"
    /\ disk' = [f \in StatusFiles |-> IF disk[f] = Gone THEN Gone ELSE Older(disk[f])]
    /\ endAge' = IF endAge < EndpointTTL THEN endAge + 1 ELSE endAge
    /\ pathAge' = IF pathAge < PathTTL THEN pathAge + 1 ELSE pathAge
    /\ endpoints' = IF endAge' = EndpointTTL THEN {} ELSE endpoints
    /\ paths' = IF pathAge' = PathTTL THEN {} ELSE paths
    /\ UNCHANGED <<ports, regime, pc, reading, card, disturbed>>

Settles ==
    /\ regime = "any"
    /\ \/ /\ \E p \in Ports : ports[p] = "quota"
          /\ \A p \in Ports : ports[p] # "bare"
          /\ regime' = "serving"
       \/ /\ \A p \in Ports : ports[p] # "quota"
          /\ regime' = "silent"
    /\ UNCHANGED <<ports, disk, caches, pc, reading, card, disturbed>>

-----------------------------------------------------------------------------

Init ==
    /\ ports = [p \in Ports |-> "silent"]
    /\ disk = [f \in StatusFiles |-> Gone]
    /\ regime = "any"
    /\ endpoints = {} /\ endAge = EndpointTTL
    /\ paths = {} /\ pathAge = PathTTL
    /\ pc = "idle"
    /\ pending = {}
    /\ todo = {}
    /\ held = NoFile
    /\ best = Nothing
    /\ card = "none"
    /\ disturbed = FALSE

Read ==
    \/ Begin \/ EndpointAnswers \/ ProbeTimesOut
    \/ FindFiles \/ ReadFile \/ StatFile \/ Finish

Next == Read \/ ServerChanges \/ FileChanges \/ Tick \/ Settles

Spec == Init /\ [][Next]_vars

\* The refresh loop keeps reading and time passes, reads or no reads.
FairSpec == Spec /\ WF_vars(Read) /\ SF_vars(Tick)

-----------------------------------------------------------------------------
(* Properties *)

TypeOK ==
    /\ ports \in [Ports -> Answers]
    /\ disk \in [StatusFiles -> Ages \cup {Gone}]
    /\ regime \in {"any", "serving", "silent"}
    /\ endpoints \subseteq Ports /\ endAge \in 0..EndpointTTL
    /\ paths \subseteq StatusFiles /\ pathAge \in 0..PathTTL
    /\ pc \in {"idle", "probing", "files", "stat"}
    /\ pending \subseteq Ports
    /\ todo \subseteq StatusFiles
    /\ held \in [file : StatusFiles, age : Ages]
    /\ best \in [claimed : Ages \cup {Gone}, true : Ages \cup {Gone}]
    /\ card \in Cards
    /\ disturbed \in BOOLEAN

\* A read that ends with the files shows the newest of those it knew of, or
\* nothing when that one is too old; only a file changed during the read can
\* make its rows pass for newer than they are.
NewestOrNothing ==
    [][Finish /\ ~disturbed =>
         LET age == Min({disk[f] : f \in paths} \cup {Gone})
         IN IF age <= Cutoff THEN card' = "stale" /\ best.true = age
                             ELSE card' = "none"]_vars

\* A language server that has come up, on whichever port, and stays there is
\* found although another port was remembered: live rows return for good.
LiveReturns == <>[](regime = "serving") => <>[](card = "live")

\* Stale rows go away: without a server and with no file written any more there
\* is no card in the end (docs/USER_MANUAL.md: only under 45 minutes).
StaleEnds == <>[](regime = "silent") => <>[](card = "none")
=============================================================================
