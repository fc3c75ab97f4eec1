---------------------------- MODULE SessionSignups ----------------------------
(***************************************************************************)
(* The places of one session of an open campaign: players on the roster     *)
(* sign up and play, or wait; the GM puts in and takes out; who leaves the  *)
(* table leaves the session too (tables/session-signups.ts, called by       *)
(* registrations/service.ts and moderation/admin.ts).                       *)
(*                                                                         *)
(* Sign-ups, withdrawals and the GM hold the session's row lock.  Leaving   *)
(* the table does not: it deletes its row, then takes the table's lock with *)
(* the first write to the table's row.  A request the code refuses, or one  *)
(* that finds nothing to do, changes nothing.                               *)
(***************************************************************************)
EXTENDS Integers, FiniteSets

CONSTANTS
    Players,   \* profile ids: naturals, compared when two asked at once
    Clients,   \* concurrent transactions
    Size,      \* how many play the session
    Alone,     \* the operations that meet no other transaction in this instance
    MaxTime    \* bound of the clock

Ops == {"signUp", "leave", "add", "depart"}

ASSUME PlayersAssumption == Players \subseteq Nat /\ IsFiniteSet(Players)
ASSUME SizeAssumption == Size \in Nat \ {0} /\ MaxTime \in Nat
ASSUME AloneAssumption == Alone \subseteq Ops

VARIABLES
    seated,  \* players with a confirmed registration at the table
    going,   \* players with status "going"
    since,   \* Players -> createdAt of a row that waits, NotWaiting without one
    put,     \* of those going, whom the GM put in, full or not
    clock,
    tx       \* Clients -> the transaction it runs

vars == <<seated, going, since, put, clock, tx>>

NotWaiting == -1
NoPlayer == -1
Statuses == {"none", "going", "waiting"}
Steps == {"idle", "read", "locked", "deleted", "promoting"}

NoTx == [op |-> "idle", step |-> "idle", who |-> NoPlayer, now |-> 0, saw |-> "none", next |-> {}]

TxStates == [op: Ops \cup {"idle"}, step: Steps, who: Players \cup {NoPlayer}, now: 0..MaxTime,
             saw: Statuses, next: SUBSET Players]

Waiting == {p \in Players : since[p] # NotWaiting}

TypeOK ==
    /\ seated \subseteq Players /\ going \subseteq Players /\ put \subseteq going
    /\ since \in [Players -> {NotWaiting} \cup 0..MaxTime]
    /\ going \cap Waiting = {}
    /\ clock \in 0..MaxTime
    /\ tx \in [Clients -> TxStates]

-----------------------------------------------------------------------------
(* Rows and locks. *)

Place(p) == IF p \in going THEN "going" ELSE IF p \in Waiting THEN "waiting" ELSE "none"

SessionFree == \A c \in Clients : tx[c].step # "locked"
TableFree == \A c \in Clients : tx[c].step # "promoting"

\* The sign-up row of p is locked by another departure that deleted it and has not committed.
RowFree(c, p) ==
    \A d \in Clients \ {c} : ~(tx[d].step \in {"deleted", "promoting"} /\ tx[d].who = p)

Start(c, op, step, p, saw) ==
    /\ tx[c] = NoTx
    /\ \A d \in Clients : tx[d] # NoTx => op \notin Alone /\ tx[d].op \notin Alone
    /\ tx' = [tx EXCEPT ![c] = [op |-> op, step |-> step, who |-> p, now |-> clock,
                                saw |-> saw, next |-> {}]]

At(c, op, step) == tx[c].op = op /\ tx[c].step = step
End(c) == tx' = [tx EXCEPT ![c] = NoTx]

-----------------------------------------------------------------------------
(* promote: the first who wait take the places there are. *)

Before(p, q) == since[p] < since[q] \/ (since[p] = since[q] /\ p < q)

\* Mistake: the rows come in no order.
AnyFor(gone) ==
    LET W == Waiting \ {gone}
        room == Size - Cardinality(going \ {gone}) IN
    {S \in SUBSET W : (S # {} => Cardinality(S) <= room) /\ (Cardinality(S) < room => S = W)}

\* The rows promote reads once `gone` is off the session (a set with one member).
FirstFor(gone) ==
    LET W == Waiting \ {gone}
        room == Size - Cardinality(going \ {gone}) IN
    {S \in SUBSET W :
        /\ S # {} => Cardinality(S) <= room
        /\ Cardinality(S) < room => S = W
        /\ \A p \in S, q \in W \ S : Before(p, q)}

\* The rows of `gone` go, and those of S that are still there are set to "going".
Seat(gone, S) ==
    LET up == {p \in S : Place(p) # "none"} IN
    /\ going' = (going \ gone) \cup up
    /\ put' = put \ gone
    /\ since' = [p \in Players |-> IF p \in gone \cup up THEN NotWaiting ELSE since[p]]

-----------------------------------------------------------------------------
(* signUpForSession: `now`, the table and the player's seat are read before the transaction. *)

SignUpRead(c, p) ==
    /\ p \in seated
    /\ Start(c, "signUp", "read", p, "none")
    /\ UNCHANGED <<seated, going, since, put, clock>>

\* What a player who asks now gets.
Turn == IF Cardinality(going) >= Size THEN "waiting" ELSE "going"

\* Mistake: the places are counted without the session's lock.
SignUpUnlocked(c) ==
    /\ At(c, "signUp", "read")
    /\ Place(tx[c].who) = "none"
    /\ tx' = [tx EXCEPT ![c] = [@ EXCEPT !.step = "locked", !.saw = Turn]]
    /\ UNCHANGED <<seated, going, since, put, clock>>

SignUpLock(c) ==
    /\ At(c, "signUp", "read") /\ SessionFree
    /\ Place(tx[c].who) = "none"
    /\ tx' = [tx EXCEPT ![c] = [@ EXCEPT !.step = "locked", !.saw = Turn]]
    /\ UNCHANGED <<seated, going, since, put, clock>>

\* The row refers to the registration: without one it is refused.  A player who plays also changes
\* the table's row (playersChanged).
SignUpWrite(c) ==
    LET p == tx[c].who IN
    /\ At(c, "signUp", "locked")
    /\ p \in seated
    /\ \/ /\ tx[c].saw = "waiting"
          /\ since' = [since EXCEPT ![p] = tx[c].now]
          /\ UNCHANGED going
       \/ /\ tx[c].saw = "going" /\ TableFree
          /\ going' = going \cup {p}
          /\ UNCHANGED since
    /\ End(c)
    /\ UNCHANGED <<seated, put, clock>>

-----------------------------------------------------------------------------
(* leaveSession and removeFromSession, which end in takeOff. *)

LeaveLock(c, p) ==
    /\ SessionFree
    /\ Place(p) # "none"
    /\ Start(c, "leave", "locked", p, Place(p))
    /\ UNCHANGED <<seated, going, since, put, clock>>

\* Only a player who played, by the status read under the lock, makes room.
LeaveWrite(c) ==
    LET p == tx[c].who IN
    /\ At(c, "leave", "locked")
    /\ RowFree(c, p)
    /\ \/ tx[c].saw = "waiting" /\ Seat({p}, {})
       \/ /\ tx[c].saw = "going" /\ TableFree
          /\ \E S \in FirstFor(p) : (\A q \in S : RowFree(c, q)) /\ Seat({p}, S)
    /\ End(c)
    /\ UNCHANGED <<seated, clock>>

(* addToSession: a full session too; the player's seat was read before the transaction. *)

AddLock(c, p) ==
    /\ p \in seated
    /\ SessionFree
    /\ Place(p) # "going"
    /\ Start(c, "add", "locked", p, Place(p))
    /\ UNCHANGED <<seated, going, since, put, clock>>

\* Mistake: a player moved up keeps the row that waits.
AddTwice(c) ==
    LET p == tx[c].who IN
    /\ At(c, "add", "locked")
    /\ TableFree
    /\ p \in seated
    /\ going' = going \cup {p} /\ put' = put \cup {p}
    /\ End(c)
    /\ UNCHANGED <<seated, since, clock>>

\* A row that waited is updated, and may be gone; without one it is inserted.
AddWrite(c) ==
    LET p == tx[c].who
        there == IF tx[c].saw = "waiting" THEN Place(p) # "none" ELSE p \in seated IN
    /\ At(c, "add", "locked")
    /\ TableFree
    /\ tx[c].saw = "waiting" => RowFree(c, p)
    /\ there
    /\ going' = going \cup {p} /\ put' = put \cup {p}
    /\ since' = [since EXCEPT ![p] = NotWaiting]
    /\ End(c)
    /\ UNCHANGED <<seated, clock>>

-----------------------------------------------------------------------------
(* leaveTable and removePlayer: releaseSessionSeats, without the session's lock, then the        *)
(* registration, and with it whatever sign-up it has by then.                                    *)

DepartRead(c, p) ==
    /\ p \in seated
    /\ Start(c, "depart", "read", p, Place(p))
    /\ UNCHANGED <<seated, going, since, put, clock>>

DepartDelete(c) ==
    /\ At(c, "depart", "read") /\ tx[c].saw # "none"
    /\ RowFree(c, tx[c].who)
    /\ tx' = [tx EXCEPT ![c] = [@ EXCEPT !.step = "deleted"]]
    /\ UNCHANGED <<seated, going, since, put, clock>>

\* Mistake: nobody is looked for.
PromoteNobody(c) ==
    /\ At(c, "depart", "deleted") /\ tx[c].saw = "going"
    /\ TableFree
    /\ tx' = [tx EXCEPT ![c].step = "promoting"]
    /\ UNCHANGED <<seated, going, since, put, clock>>

\* playersChanged takes the table's lock; then promote counts and reads who is next.
DepartPromote(c) ==
    /\ At(c, "depart", "deleted") /\ tx[c].saw = "going"
    /\ TableFree
    /\ \E S \in FirstFor(tx[c].who) : tx' = [tx EXCEPT ![c] = [@ EXCEPT !.step = "promoting", !.next = S]]
    /\ UNCHANGED <<seated, going, since, put, clock>>

\* The updates may find a row gone; the table's line moves up last, under the table's lock.
DepartFinish(c) ==
    LET p == tx[c].who IN
    /\ tx[c].op = "depart"
    /\ \/ tx[c].step = "read" /\ tx[c].saw = "none" /\ TableFree
       \/ tx[c].step = "deleted" /\ tx[c].saw = "waiting" /\ TableFree
       \/ tx[c].step = "promoting"
    /\ \A q \in {p} \cup tx[c].next : RowFree(c, q)
    /\ Seat({p}, tx[c].next)
    /\ seated' = seated \ {p}
    /\ End(c)
    /\ UNCHANGED clock

-----------------------------------------------------------------------------
(* The rest of the world. *)

\* A player gets a seat at the table (Seats).
joinTable(p) ==
    /\ p \notin seated
    /\ seated' = seated \cup {p}
    /\ UNCHANGED <<going, since, put, clock, tx>>

Tick ==
    /\ clock < MaxTime
    /\ clock' = clock + 1
    /\ UNCHANGED <<seated, going, since, put, tx>>

\* A transaction that finds nothing to do, is refused by a constraint, or is lost.
Abort(c) ==
    /\ tx[c] # NoTx
    /\ End(c)
    /\ UNCHANGED <<seated, going, since, put, clock>>

Init ==
    /\ seated = Players
    /\ going = {} /\ put = {}
    /\ since = [p \in Players |-> NotWaiting]
    /\ clock = 0
    /\ tx = [c \in Clients |-> NoTx]

Next ==
    \/ Tick
    \/ \E p \in Players : joinTable(p)
    \/ \E c \in Clients, p \in Players :
        SignUpRead(c, p) \/ LeaveLock(c, p) \/ AddLock(c, p) \/ DepartRead(c, p)
    \/ \E c \in Clients :
        \/ SignUpLock(c) \/ SignUpWrite(c) \/ LeaveWrite(c) \/ AddWrite(c)
        \/ DepartDelete(c) \/ DepartPromote(c) \/ DepartFinish(c)
        \/ Abort(c)

Spec == Init /\ [][Next]_vars

-----------------------------------------------------------------------------
(* Properties. *)

\* Nobody waits for a session that has room: whoever makes room seats the first in line in the
\* same transaction, and a player waits only if the session is full.
NoIdlePlace == Waiting # {} => Cardinality(going) >= Size

\* A place goes to one player: more play than the session takes only by the GM's word.
NotOversold == Cardinality(going \ put) <= Size

\* Nobody moves up past a player who asked earlier, unless the GM put them in.
FirstMoveUp ==
    [][\A p \in Waiting, q \in Waiting :
            p \in going' \ put' /\ Before(q, p) => since'[q] = NotWaiting]_vars

\* While departures are alone, the places change only as SessionPlaces promises: nobody plays or
\* waits against the count, and a place given up goes to the first in line in the same transaction.
Session == INSTANCE SessionPlaces
    WITH playing <- going, waiting <- Waiting,
         ahead <- {pair \in Waiting \X Waiting : Before(pair[1], pair[2])}
PlacesAsPromised == Session!Spec
=============================================================================
