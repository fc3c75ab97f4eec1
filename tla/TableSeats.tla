----------------------------- MODULE TableSeats -----------------------------
(***************************************************************************)
(* What the seats of a table promise, without locks, clocks, lines or       *)
(* requests: seats go only to as many players as are free, an invitation    *)
(* takes a free seat and is exchanged for that one, players lose their      *)
(* seats one at a time, and the capacity is never below what is taken.      *)
(* Seats.tla is shown to do this.                                           *)
(***************************************************************************)
EXTENDS Integers, FiniteSets

CONSTANTS Players, Holds, Capacities

VARIABLES
    seated,    \* the players with a seat
    held,      \* the holds (invitations) a seat is kept for
    capacity

vars == <<seated, held, capacity>>

\* The seats left of n when S have one and H are kept.
Left(n, S, H) == n - Cardinality(S) - Cardinality(H)

Init == seated = {} /\ held = {} /\ capacity \in Capacities

\* P get seats that are free once `gone` has given theirs up: a join, an approval, or a seat
\* given up and the line moving into it.
Reseat(gone, P) ==
    /\ Cardinality(gone) <= 1
    /\ P # {} => Cardinality(P) <= Left(capacity, seated \ gone, held)
    /\ seated' = (seated \ gone) \cup P
    /\ UNCHANGED <<held, capacity>>

\* Holds end; a banned player's with their seat.
Drop(H, gone) ==
    /\ Cardinality(gone) <= 1
    /\ held' = held \ H /\ seated' = seated \ gone
    /\ UNCHANGED capacity

Hold(h) ==
    /\ h \notin held
    /\ Left(capacity, seated, held) >= 1
    /\ held' = held \cup {h}
    /\ UNCHANGED <<seated, capacity>>

Exchange(h, p) ==
    /\ h \in held /\ p \notin seated
    /\ held' = held \ {h} /\ seated' = seated \cup {p}
    /\ UNCHANGED capacity

\* An edit: the new capacity holds everyone, then holds may end and the line move up.
Resize(n, H, P) ==
    /\ Left(n, seated, held) >= 0
    /\ Cardinality(P) <= Left(n, seated, held \ H)
    /\ capacity' = n /\ held' = held \ H /\ seated' = seated \cup P

Next ==
    \/ \E gone \in SUBSET seated, P \in SUBSET Players : Reseat(gone, P)
    \/ \E H \in SUBSET held, gone \in SUBSET seated : Drop(H, gone)
    \/ \E h \in Holds : Hold(h) \/ \E p \in Players : Exchange(h, p)
    \/ \E n \in Capacities, H \in SUBSET held, P \in SUBSET Players : Resize(n, H, P)

Spec == Init /\ [][Next]_vars
=============================================================================
