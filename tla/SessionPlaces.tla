---------------------------- MODULE SessionPlaces ----------------------------
(***************************************************************************)
(* What the places of one session promise, without locks, clocks, rows or  *)
(* requests: a player who asks plays while there is a place and waits when *)
(* there is none; a place given up goes, at once, to the first in line;    *)
(* the GM may put anyone in; nobody else's place or turn changes.          *)
(* SessionSignups.tla is shown to do this while departures are alone.      *)
(***************************************************************************)
EXTENDS Integers, FiniteSets

CONSTANTS Players, Size

VARIABLES
    playing,
    put,      \* of those, whom the GM put in
    waiting,
    ahead     \* the pairs of those waiting whose first comes before its second

vars == <<playing, put, waiting, ahead>>

Init == playing = {} /\ put = {} /\ waiting = {} /\ ahead = {}

Asks(p) == p \notin playing \cup waiting

Play(p) ==
    /\ Asks(p) /\ Cardinality(playing) < Size
    /\ playing' = playing \cup {p}
    /\ UNCHANGED <<put, waiting, ahead>>

\* Where in the line is the clock's affair: those who wait keep their order.
Queue(p) ==
    /\ Asks(p) /\ Cardinality(playing) >= Size
    /\ waiting' = waiting \cup {p}
    /\ ahead' \subseteq waiting' \X waiting'
    /\ ahead' \cap (waiting \X waiting) = ahead
    /\ \A q \in waiting : <<p, q>> \in ahead' <=> <<q, p>> \notin ahead'
    /\ UNCHANGED <<playing, put>>

\* L go off the line.
Unqueue(L) == waiting' = waiting \ L /\ ahead' = ahead \cap (waiting' \X waiting')

PutIn(p) ==
    /\ p \notin playing
    /\ playing' = playing \cup {p} /\ put' = put \cup {p}
    /\ Unqueue({p})

StopWaiting(p) ==
    /\ p \in waiting
    /\ Unqueue({p})
    /\ UNCHANGED <<playing, put>>

\* The first in line, as many as there are places once p has given up theirs.
StopPlaying(p) ==
    LET room == Size - Cardinality(playing \ {p}) IN
    /\ p \in playing
    /\ \E S \in SUBSET waiting :
        /\ S # {} => Cardinality(S) <= room
        /\ Cardinality(S) < room => S = waiting
        /\ \A f \in S, q \in waiting \ S : <<f, q>> \in ahead
        /\ playing' = (playing \ {p}) \cup S
        /\ put' = put \ {p}
        /\ Unqueue(S)

Next == \E p \in Players : Play(p) \/ Queue(p) \/ PutIn(p) \/ StopWaiting(p) \/ StopPlaying(p)

Spec == Init /\ [][Next]_vars
=============================================================================
