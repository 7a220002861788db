--------------------------- MODULE ThrottledSource ---------------------------
(***************************************************************************)
(* What provider.WithCache promises of the source it wraps, with its       *)
(* mutex, its callers and its stored results abstracted away: one fetch at *)
(* a time; a fetch nobody forced waits until the source is due; and what   *)
(* is shown after a failure is the newest usable value, marked stale, or   *)
(* nothing usable when there never was one.                                *)
(***************************************************************************)
EXTENDS Integers, Sequences

CONSTANTS
    Payloads,     \* quota values a fetch can bring
    MinInterval,  \* least time between two fetches
    Ladder,       \* times between fetches after consecutive refusals
    Nobody        \* no payload

VARIABLES
    wanted,  \* somebody asked for a fetch that ignores the throttle
    asking,  \* a fetch is under way
    since,   \* time since the last fetch began
    rung,    \* how far up the ladder the refusals have pushed
    newest,  \* the last payload a fetch brought
    shown    \* what a read is given

vars == <<wanted, asking, since, rung, newest, shown>>

Due == since >= IF rung = 0 THEN MinInterval ELSE Ladder[rung]

Nothing     == [kind |-> "nothing", payload |-> Nobody]
Live(p)     == [kind |-> "live", payload |-> p]
Stale(p)    == [kind |-> "stale", payload |-> p]
\* An answer of the source without quota rows: a status card, or no card.
Placeholder == [kind |-> "placeholder", payload |-> Nobody]
Failed      == [kind |-> "failed", payload |-> Nobody]

Init ==
    /\ wanted = FALSE
    /\ asking = FALSE
    /\ since \in Nat
    /\ rung = 0
    /\ newest = Nobody
    /\ shown = Nothing

Want ==
    /\ wanted' = TRUE
    /\ UNCHANGED <<asking, since, rung, newest, shown>>

\* Serving one demand may leave others.
Ask ==
    /\ ~asking
    /\ wanted \/ shown = Nothing \/ Due
    /\ wanted' => wanted
    /\ asking' = TRUE
    /\ since' = 0
    /\ UNCHANGED <<rung, newest, shown>>

Answered ==
    /\ asking
    /\ asking' = FALSE
    /\ rung' = 0
    /\ \/ \E p \in Payloads : newest' = p /\ shown' = Live(p)
       \/ newest' = newest /\ shown' = Placeholder
    /\ UNCHANGED <<wanted, since>>

\* A refusal moves one rung up, any other failure back to the foot.
Refused ==
    /\ asking
    /\ asking' = FALSE
    /\ \/ rung' = 0
       \/ rung < Len(Ladder) /\ rung' = rung + 1
       \/ rung = Len(Ladder) /\ rung' = rung
    /\ shown' = IF newest = Nobody THEN Failed ELSE Stale(newest)
    /\ UNCHANGED <<wanted, since, newest>>

Elapse ==
    /\ since' > since
    /\ UNCHANGED <<wanted, asking, rung, newest, shown>>

Next == Want \/ Ask \/ Answered \/ Refused \/ Elapse

Spec == Init /\ [][Next]_vars
=============================================================================
