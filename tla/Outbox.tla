------------------------------- MODULE Outbox -------------------------------
(***************************************************************************)
(* What the outbox promises of one event, without dispatchers, leases,     *)
(* queues or time: its handlers are recorded one by one while it waits; it *)
(* is processed when all of them are, once and for good; a failed round    *)
(* counts one attempt, and the last attempt gives the event up, until an   *)
(* admin has it begin again.  EventDispatch.tla is shown to do this while  *)
(* leases are kept.                                                        *)
(***************************************************************************)
EXTENDS Integers

CONSTANTS Handlers, MaxAttempts

VARIABLES
    state,     \* waiting, processed, or given up
    recorded,  \* the handlers that need not run again
    attempts   \* rounds that failed since it began

vars == <<state, recorded, attempts>>

Init == state = "waiting" /\ recorded = {} /\ attempts = 0

Record(h) ==
    /\ state = "waiting" /\ h \notin recorded
    /\ recorded' = recorded \cup {h}
    /\ UNCHANGED <<state, attempts>>

Process ==
    /\ state = "waiting" /\ recorded = Handlers
    /\ state' = "processed"
    /\ UNCHANGED <<recorded, attempts>>

FailRound ==
    /\ state = "waiting" /\ attempts < MaxAttempts
    /\ attempts' = attempts + 1
    /\ state' = IF attempts' = MaxAttempts THEN "givenUp" ELSE "waiting"
    /\ UNCHANGED recorded

BeginAgain ==
    /\ state = "givenUp"
    /\ state' = "waiting" /\ attempts' = 0
    /\ UNCHANGED recorded

Next == (\E h \in Handlers : Record(h)) \/ Process \/ FailRound \/ BeginAgain

Spec == Init /\ [][Next]_vars
=============================================================================
