----------------------------- MODULE TablesProofs -----------------------------
(***************************************************************************)
(* Theorems about the places of a session and the owners of a partner, and  *)
(* the types of the run of MCTables, for every set of players, clients and  *)
(* people, every size and every bound.  Who plays and who waits is shown    *)
(* where departures meet no other transaction ("depart" \in Alone): without *)
(* that it is false, see session_two_people.                                *)
(***************************************************************************)
EXTENDS MCTables, TableCalendarProofs

Running(c) == tx[c] # NoTx

\* A transaction names a player, and is at a step of its operation.
TxShape ==
    \A c \in Clients : Running(c) =>
        /\ tx[c].who \in Players
        /\ tx[c].op \in Ops
        /\ tx[c].op \in {"leave", "add"} => tx[c].step = "locked"
        /\ tx[c].op = "signUp" => tx[c].step \in {"read", "locked"}
        /\ tx[c].op = "depart" => tx[c].step \in {"read", "deleted", "promoting"}

SessionTyped == TypeOK /\ TxShape

\* One transaction holds the session's lock, and a sign-up that holds it has no row yet.
OneInSession ==
    \A c, d \in Clients : tx[c].step = "locked" /\ tx[d].step = "locked" => c = d
NoPlaceYet == \A c \in Clients : At(c, "signUp", "locked") => Place(tx[c].who) = "none"

Held == SessionTyped /\ OneInSession /\ NoPlaceYet

-----------------------------------------------------------------------------
(* The types. *)

LEMMA NoTxTyped == NoTx \in TxStates /\ NoTx.op = "idle" /\ NoTx.step = "idle"
BY SizeAssumption DEF NoTx, TxStates, Steps, Statuses

LEMMA InitTyped == Init => SessionTyped
<1> SUFFICES ASSUME Init PROVE SessionTyped
  OBVIOUS
<1>1. tx \in [Clients -> TxStates] /\ TxShape
  BY NoTxTyped DEF Init, TxShape, Running
<1>2. QED
  BY <1>1, SizeAssumption DEF Init, SessionTyped, TypeOK, Waiting

LEMMA StartTyped ==
    ASSUME SessionTyped, NEW c \in Clients, NEW op \in Ops, NEW step \in Steps, NEW p \in Players,
           NEW saw \in Statuses, Start(c, op, step, p, saw),
           op \in {"leave", "add"} => step = "locked",
           op = "signUp" => step = "read", op = "depart" => step = "read"
    PROVE  tx' \in [Clients -> TxStates] /\ TxShape'
<1> DEFINE t == [op |-> op, step |-> step, who |-> p, now |-> clock, saw |-> saw, next |-> {}]
<1>2. t \in TxStates
  BY DEF TxStates, SessionTyped, TypeOK
<1>3. tx' = [tx EXCEPT ![c] = t]
  BY DEF Start
<1>1. t.op = op /\ t.step = step /\ t.who = p
  OBVIOUS
<1> HIDE DEF t
<1>4. tx' \in [Clients -> TxStates]
  BY <1>2, <1>3 DEF SessionTyped, TypeOK
<1>5. \A d \in Clients : tx'[d] = IF d = c THEN t ELSE tx[d]
  BY <1>3 DEF SessionTyped, TypeOK
<1>6. TxShape'
  BY <1>1, <1>5 DEF TxShape, SessionTyped, Running
<1>7. QED
  BY <1>4, <1>6

\* A transaction that goes on with its operation and its player.
LEMMA StepTyped ==
    ASSUME SessionTyped, NEW c \in Clients, NEW t \in TxStates, tx' = [tx EXCEPT ![c] = t],
           Running(c), t.op = tx[c].op, t.who = tx[c].who,
           \/ t.op = "signUp" /\ t.step = "locked"
           \/ t.op = "depart" /\ t.step \in {"deleted", "promoting"}
    PROVE  tx' \in [Clients -> TxStates] /\ TxShape'
<1>1. tx' \in [Clients -> TxStates]
  BY DEF SessionTyped, TypeOK
<1>2. \A d \in Clients : tx'[d] = IF d = c THEN t ELSE tx[d]
  BY DEF SessionTyped, TypeOK
<1>3. QED
  BY <1>1, <1>2 DEF TxShape, SessionTyped, Running

LEMMA EndTyped ==
    ASSUME SessionTyped, NEW c \in Clients, End(c)
    PROVE  tx' \in [Clients -> TxStates] /\ TxShape'
BY NoTxTyped DEF SessionTyped, TypeOK, TxShape, Running, End

LEMMA PlaceType == ASSUME NEW p PROVE Place(p) \in Statuses
BY DEF Place, Statuses

LEMMA SeatTyped ==
    ASSUME TypeOK, NEW gone \in SUBSET Players, NEW S \in SUBSET Players, Seat(gone, S)
    PROVE  /\ going' \subseteq Players /\ put' \subseteq going'
           /\ since' \in [Players -> {NotWaiting} \cup 0..MaxTime]
           /\ going' \cap Waiting' = {}
BY DEF TypeOK, Seat, Waiting

LEMMA FirstForType ==
    ASSUME NEW p, NEW S \in FirstFor(p)
    PROVE  S \subseteq Waiting \ {p} /\ S \in SUBSET Players
BY DEF FirstFor, Waiting

\* One step per operation; what it leaves UNCHANGED keeps its type.
LEMMA NextTyped == Held /\ [Next]_vars => SessionTyped'
<1> SUFFICES ASSUME Held, [Next]_vars PROVE SessionTyped'
  OBVIOUS
<1>0. SessionTyped /\ NoPlaceYet
  BY DEF Held
<1>1. ASSUME NEW c \in Clients, NEW p \in Players,
             SignUpRead(c, p) \/ LeaveLock(c, p) \/ AddLock(c, p) \/ DepartRead(c, p)
      PROVE  SessionTyped'
  <2>1. tx' \in [Clients -> TxStates] /\ TxShape'
    BY <1>0, <1>1, StartTyped, PlaceType
       DEF SignUpRead, LeaveLock, AddLock, DepartRead, Ops, Steps, Statuses
  <2>2. QED
    BY <1>0, <1>1, <2>1 DEF SignUpRead, LeaveLock, AddLock, DepartRead, SessionTyped, TypeOK, Waiting
<1>2. ASSUME NEW c \in Clients, SignUpLock(c) \/ DepartDelete(c) \/ DepartPromote(c)
      PROVE  SessionTyped'
  <2>0. tx[c] \in TxStates /\ Running(c)
    BY <1>0, <1>2, NoTxTyped DEF SignUpLock, DepartDelete, DepartPromote, At, Running, SessionTyped, TypeOK
  <2>1. CASE SignUpLock(c)
    <3> DEFINE t == [tx[c] EXCEPT !.step = "locked", !.saw = Turn]
    <3>1. t \in TxStates /\ t.op = tx[c].op /\ t.who = tx[c].who /\ t.step = "locked"
      BY <2>0 DEF TxStates, Steps, Statuses, Turn
    <3>2. tx' = [tx EXCEPT ![c] = t] /\ tx[c].op = "signUp"
      BY <2>1 DEF SignUpLock, At
    <3> HIDE DEF t
    <3>3. tx' \in [Clients -> TxStates] /\ TxShape'
      BY <1>0, <2>0, <3>1, <3>2, StepTyped
    <3>4. QED
      BY <1>0, <2>1, <3>3 DEF SignUpLock, SessionTyped, TypeOK, Waiting
  <2>2. CASE DepartDelete(c)
    <3> DEFINE t == [tx[c] EXCEPT !.step = "deleted"]
    <3>1. t \in TxStates /\ t.op = tx[c].op /\ t.who = tx[c].who /\ t.step = "deleted"
      BY <2>0 DEF TxStates, Steps
    <3>2. tx' = [tx EXCEPT ![c] = t] /\ tx[c].op = "depart"
      BY <2>2 DEF DepartDelete, At
    <3> HIDE DEF t
    <3>3. tx' \in [Clients -> TxStates] /\ TxShape'
      BY <1>0, <2>0, <3>1, <3>2, StepTyped
    <3>4. QED
      BY <1>0, <2>2, <3>3 DEF DepartDelete, SessionTyped, TypeOK, Waiting
  <2>3. CASE DepartPromote(c)
    <3>1. PICK S \in FirstFor(tx[c].who) :
              tx' = [tx EXCEPT ![c] = [@ EXCEPT !.step = "promoting", !.next = S]]
      BY <2>3 DEF DepartPromote
    <3> DEFINE t == [tx[c] EXCEPT !.step = "promoting", !.next = S]
    <3>2. t \in TxStates /\ t.op = tx[c].op /\ t.who = tx[c].who /\ t.step = "promoting"
      BY <2>0, FirstForType DEF TxStates, Steps
    <3>3. tx' = [tx EXCEPT ![c] = t] /\ tx[c].op = "depart"
      BY <2>3, <3>1 DEF DepartPromote, At
    <3> HIDE DEF t
    <3>4. tx' \in [Clients -> TxStates] /\ TxShape'
      BY <1>0, <2>0, <3>2, <3>3, StepTyped
    <3>5. QED
      BY <1>0, <2>3, <3>4 DEF DepartPromote, SessionTyped, TypeOK, Waiting
  <2>4. QED
    BY <1>0, <1>2, <2>1, <2>2, <2>3
<1>3. ASSUME NEW c \in Clients, SignUpWrite(c)
      PROVE  SessionTyped'
  <2>1. tx[c].who \in Players /\ tx[c].now \in 0..MaxTime
    BY <1>0, <1>3 DEF SignUpWrite, SessionTyped, TypeOK, TxStates
  <2>2. tx' \in [Clients -> TxStates] /\ TxShape'
    BY <1>0, <1>3, EndTyped DEF SignUpWrite
  <2>3. /\ going' \subseteq Players /\ put' \subseteq going'
        /\ since' \in [Players -> {NotWaiting} \cup 0..MaxTime]
    BY <1>0, <1>3, <2>1 DEF SignUpWrite, SessionTyped, TypeOK
  <2>4. QED
    BY <1>0, <1>3, <2>1, <2>2, <2>3
       DEF SignUpWrite, SessionTyped, TypeOK, NoPlaceYet, Place, Waiting
<1>4. ASSUME NEW c \in Clients, LeaveWrite(c)
      PROVE  SessionTyped'
  <2>1. tx' \in [Clients -> TxStates] /\ TxShape'
    BY <1>0, <1>4, EndTyped DEF LeaveWrite
  <2>2. tx[c].who \in Players
    BY <1>0, <1>4 DEF LeaveWrite, At, SessionTyped, TxShape, Running, NoTx
  <2>3. \E S \in SUBSET Players : Seat({tx[c].who}, S)
    BY <1>0, <1>4, FirstForType DEF LeaveWrite
  <2>4. /\ going' \subseteq Players /\ put' \subseteq going'
        /\ since' \in [Players -> {NotWaiting} \cup 0..MaxTime]
        /\ going' \cap Waiting' = {}
    BY <1>0, <2>2, <2>3, SeatTyped DEF SessionTyped
  <2>5. QED
    BY <1>0, <1>4, <2>1, <2>4 DEF LeaveWrite, SessionTyped, TypeOK
<1>5. ASSUME NEW c \in Clients, AddWrite(c)
      PROVE  SessionTyped'
  <2>1. tx' \in [Clients -> TxStates] /\ TxShape'
    BY <1>0, <1>5, EndTyped DEF AddWrite
  <2>2. tx[c].who \in Players
    BY <1>0, <1>5 DEF AddWrite, At, SessionTyped, TxShape, Running, NoTx
  <2>3. QED
    BY <1>0, <1>5, <2>1, <2>2 DEF AddWrite, SessionTyped, TypeOK, Waiting
<1>6. ASSUME NEW c \in Clients, DepartFinish(c)
      PROVE  SessionTyped'
  <2>1. tx' \in [Clients -> TxStates] /\ TxShape'
    BY <1>0, <1>6, EndTyped DEF DepartFinish
  <2>2. tx[c].who \in Players /\ tx[c].next \in SUBSET Players
    BY <1>0, <1>6 DEF DepartFinish, SessionTyped, TypeOK, TxShape, Running, NoTx, TxStates
  <2>3. QED
    BY <1>0, <1>6, <2>1, <2>2, SeatTyped DEF DepartFinish, SessionTyped, TypeOK
<1>7. ASSUME NEW c \in Clients, Abort(c)
      PROVE  SessionTyped'
  BY <1>0, <1>7, EndTyped DEF Abort, SessionTyped, TypeOK, Waiting
<1>8. ASSUME NEW p \in Players, joinTable(p)
      PROVE  SessionTyped'
  BY <1>0, <1>8 DEF joinTable, SessionTyped, TypeOK, TxShape, Running, Waiting
<1>9. ASSUME Tick
      PROVE  SessionTyped'
  BY <1>0, <1>9, SizeAssumption DEF Tick, SessionTyped, TypeOK, TxShape, Running, Waiting
<1>10. CASE UNCHANGED vars
  BY <1>0, <1>10 DEF vars, SessionTyped, TypeOK, TxShape, Running, Waiting
<1>11. QED
  BY <1>0, <1>1, <1>2, <1>3, <1>4, <1>5, <1>6, <1>7, <1>8, <1>9, <1>10 DEF Next

-----------------------------------------------------------------------------
(* The session's lock. *)

LEMMA HeldStep == Held /\ [Next]_vars => Held'
<1> SUFFICES ASSUME Held, [Next]_vars PROVE Held'
  OBVIOUS
<1>0. SessionTyped /\ OneInSession /\ NoPlaceYet /\ tx \in [Clients -> TxStates]
  BY DEF Held, SessionTyped, TypeOK
<1>1. SessionTyped'
  BY NextTyped
<1> DEFINE Locks == OneInSession' /\ NoPlaceYet'
<1>2. ASSUME NEW c \in Clients, NEW p \in Players,
             SignUpRead(c, p) \/ LeaveLock(c, p) \/ AddLock(c, p) \/ DepartRead(c, p)
      PROVE  Locks
  BY <1>0, <1>2
     DEF SignUpRead, LeaveLock, AddLock, DepartRead, Start, SessionFree, OneInSession, NoPlaceYet,
         At, Place, Waiting
<1>3. ASSUME NEW c \in Clients, SignUpLock(c) \/ DepartDelete(c) \/ DepartPromote(c)
      PROVE  Locks
  <2>1. /\ \A d \in Clients : d # c => tx'[d] = tx[d]
        /\ tx'[c].op = tx[c].op /\ tx'[c].who = tx[c].who
        /\ \A p : Place(p)' = Place(p)
    BY <1>0, <1>3 DEF SignUpLock, DepartDelete, DepartPromote, Place, Waiting, TxStates
  <2>2. CASE SignUpLock(c)
    <3>1. Place(tx[c].who) = "none" /\ \A d \in Clients : tx[d].step # "locked"
      BY <2>2 DEF SignUpLock, SessionFree
    <3>2. QED
      BY <2>1, <3>1 DEF OneInSession, NoPlaceYet, At
  <2>3. CASE DepartDelete(c) \/ DepartPromote(c)
    <3>1. tx'[c].step # "locked"
      BY <1>0, <2>3 DEF DepartDelete, DepartPromote, TxStates
    <3>2. QED
      BY <1>0, <2>1, <3>1 DEF OneInSession, NoPlaceYet, At
  <2>4. QED
    BY <1>3, <2>2, <2>3
\* Whoever ends with the session's lock leaves it to nobody; a departure gives places only to
\* players with a row.
<1>4. ASSUME NEW c \in Clients,
             SignUpWrite(c) \/ LeaveWrite(c) \/ AddWrite(c) \/ DepartFinish(c) \/ Abort(c)
      PROVE  Locks
  <2>1. \A d \in Clients : tx'[d] = IF d = c THEN NoTx ELSE tx[d]
    BY <1>0, <1>4 DEF SignUpWrite, LeaveWrite, AddWrite, DepartFinish, Abort, End
  <2>2. OneInSession'
    BY <1>0, <2>1 DEF OneInSession, NoTx
  <2>3. CASE tx[c].step = "locked"
    BY <1>0, <2>1, <2>3 DEF OneInSession, NoPlaceYet, At, NoTx
  <2>4. CASE tx[c].step # "locked"
    <3>1. DepartFinish(c) \/ Abort(c)
      BY <1>4, <2>4 DEF SignUpWrite, LeaveWrite, AddWrite, At
    <3>2. ASSUME NEW p \in Players, Place(p) = "none"
          PROVE  Place(p)' = "none"
      BY <1>0, <3>1, <3>2
         DEF DepartFinish, Abort, Seat, Place, Waiting, SessionTyped, TypeOK
    <3>3. \A d \in Clients : At(d, "signUp", "locked") => tx[d].who \in Players
      BY <1>0 DEF At, SessionTyped, TxShape, Running, NoTx
    <3>4. QED
      BY <1>0, <2>1, <2>2, <3>2, <3>3 DEF NoPlaceYet, At, NoTx
  <2>5. QED
    BY <2>3, <2>4, <2>2
<1>5. ASSUME (\E p \in Players : joinTable(p)) \/ Tick \/ UNCHANGED vars
      PROVE  Locks
  BY <1>0, <1>5 DEF joinTable, Tick, vars, OneInSession, NoPlaceYet, At, Place, Waiting
<1>6. QED
  BY <1>1, <1>2, <1>3, <1>4, <1>5 DEF Next, Held

LEMMA HeldAlways == Spec => []Held
<1>1. Init => Held
  BY InitTyped, NoTxTyped DEF Init, Held, OneInSession, NoPlaceYet, At, NoTx
<1>2. QED
  BY <1>1, HeldStep, PTL DEF Spec

\* Every reachable state is well typed; in particular a player never plays and waits at once, and
\* the GM's word is kept only of players who play.
THEOREM SessionsAreTyped == Spec => []TypeOK
<1>1. Held => TypeOK
  BY DEF Held, SessionTyped
<1>2. QED
  BY <1>1, HeldAlways, PTL

-----------------------------------------------------------------------------
(* Who plays and who waits, where departures are alone. *)

\* A departure is alone.
Solo == \A c, d \in Clients : tx[c].op = "depart" /\ Running(d) => c = d

\* What a transaction read is what it finds when it writes.
StillSo ==
    \A c \in Clients :
        /\ At(c, "signUp", "locked") => tx[c].saw = Turn
        /\ tx[c].op \in {"leave", "add", "depart"} => tx[c].saw = Place(tx[c].who)
        /\ tx[c].step = "promoting" => tx[c].saw = "going" /\ tx[c].next \in FirstFor(tx[c].who)
        /\ tx[c].step # "promoting" => tx[c].next = {}

Line == Held /\ Solo /\ StillSo

-----------------------------------------------------------------------------
(* The lock and the lone departure keep what was read true. *)

LEMMA SoloStep == ASSUME "depart" \in Alone, Line, [Next]_vars PROVE Solo'
<1>0. Solo /\ tx \in [Clients -> TxStates] /\ TxShape
  BY DEF Line, Held, SessionTyped, TypeOK
<1>1. ASSUME NEW c \in Clients, NEW p \in Players,
             SignUpRead(c, p) \/ LeaveLock(c, p) \/ AddLock(c, p) \/ DepartRead(c, p)
      PROVE  Solo'
  <2>1. PICK op \in Ops, step \in Steps, saw \in Statuses : Start(c, op, step, p, saw)
    BY <1>1, PlaceType DEF SignUpRead, LeaveLock, AddLock, DepartRead, Ops, Steps, Statuses
  <2>2. /\ \A d \in Clients : d # c => tx'[d] = tx[d]
        /\ tx'[c].op = op
        /\ \A d \in Clients : Running(d) => op # "depart" /\ tx[d].op # "depart"
    BY <1>0, <2>1 DEF Start, Running
  <2>3. QED
    BY <2>2, NoTxTyped DEF Solo, Running
<1>2. ASSUME NEW c \in Clients, SignUpLock(c) \/ DepartDelete(c) \/ DepartPromote(c)
      PROVE  Solo'
  <2>1. \A d \in Clients : tx'[d].op = tx[d].op /\ (d # c => tx'[d] = tx[d])
    <3>0. CASE SignUpLock(c)
      BY <1>0, <3>0 DEF SignUpLock, TxStates
    <3>1. CASE DepartDelete(c)
      BY <1>0, <3>1 DEF DepartDelete, TxStates
    <3>2. CASE DepartPromote(c)
      <4>1. PICK S : tx' = [tx EXCEPT ![c] = [@ EXCEPT !.step = "promoting", !.next = S]]
        BY <3>2 DEF DepartPromote
      <4>2. QED
        BY <1>0, <4>1 DEF TxStates
    <3>3. QED
      BY <1>2, <3>0, <3>1, <3>2
  <2>2. Running(c)
    BY <1>2, NoTxTyped DEF SignUpLock, DepartDelete, DepartPromote, At, Running
  <2>3. QED
    BY <1>0, <2>1, <2>2 DEF Solo, Running
<1>3. ASSUME NEW c \in Clients,
             SignUpWrite(c) \/ LeaveWrite(c) \/ AddWrite(c) \/ DepartFinish(c) \/ Abort(c)
      PROVE  Solo'
  <2>1. \A d \in Clients : tx'[d] = IF d = c THEN NoTx ELSE tx[d]
    BY <1>0, <1>3 DEF SignUpWrite, LeaveWrite, AddWrite, DepartFinish, Abort, End
  <2>2. QED
    BY <1>0, <2>1, NoTxTyped DEF Solo, Running
<1>4. ASSUME (\E p \in Players : joinTable(p)) \/ Tick \/ UNCHANGED vars
      PROVE  Solo'
  BY <1>0, <1>4 DEF joinTable, Tick, vars, Solo, Running
<1>5. QED
  BY <1>1, <1>2, <1>3, <1>4 DEF Next

\* The rows are as they were: nobody's place, turn or successors have changed.
LEMMA SameRows ==
    ASSUME UNCHANGED <<going, since>>
    PROVE  /\ Turn' = Turn
           /\ \A p : Place(p)' = Place(p)
           /\ \A p : FirstFor(p)' = FirstFor(p)
BY DEF Turn, Place, FirstFor, Waiting, Before

LEMMA StillSoStep == ASSUME "depart" \in Alone, Line, [Next]_vars PROVE StillSo'
<1>0. StillSo /\ Solo /\ OneInSession /\ TxShape /\ tx \in [Clients -> TxStates]
  BY DEF Line, Held, SessionTyped, TypeOK
<1> DEFINE FreshAt(d) ==
        /\ At(d, "signUp", "locked") => tx[d].saw = Turn
        /\ tx[d].op \in {"leave", "add", "depart"} => tx[d].saw = Place(tx[d].who)
        /\ tx[d].step = "promoting" => tx[d].saw = "going" /\ tx[d].next \in FirstFor(tx[d].who)
        /\ tx[d].step # "promoting" => tx[d].next = {}
<1>a. StillSo <=> \A d \in Clients : FreshAt(d)
  BY DEF StillSo
<1>b. StillSo' <=> \A d \in Clients : FreshAt(d)'
  BY DEF StillSo
\* A transaction that goes on, over rows that stay.
<1>c. ASSUME UNCHANGED <<going, since>>, NEW d \in Clients, tx'[d] = tx[d]
      PROVE  FreshAt(d)'
  <2>1. FreshAt(d)
    BY <1>0, <1>a
  <2>2. QED
    BY <1>c, <2>1, SameRows DEF At
<1> HIDE DEF FreshAt
<1>1. ASSUME NEW c \in Clients, NEW p \in Players,
             SignUpRead(c, p) \/ LeaveLock(c, p) \/ AddLock(c, p) \/ DepartRead(c, p)
      PROVE  StillSo'
  <2>1. UNCHANGED <<going, since>>
    BY <1>1 DEF SignUpRead, LeaveLock, AddLock, DepartRead
  <2>2. PICK op \in Ops, step \in {"read", "locked"}, saw \in Statuses :
            /\ tx' = [tx EXCEPT ![c] = [op |-> op, step |-> step, who |-> p, now |-> clock,
                                        saw |-> saw, next |-> {}]]
            /\ op = "signUp" => step = "read"
            /\ op \in {"leave", "add", "depart"} => saw = Place(p)
            /\ op = "add" => Place(p) # "going"
    BY <1>1, PlaceType DEF SignUpRead, LeaveLock, AddLock, DepartRead, Start, Ops, Statuses
  <2>3. \A d \in Clients : d # c => tx'[d] = tx[d]
    BY <1>0, <2>2
  <2>4. /\ tx'[c].op = op /\ tx'[c].step = step /\ tx'[c].who = p /\ tx'[c].saw = saw
        /\ tx'[c].next = {}
    BY <1>0, <2>2
  <2>5. FreshAt(c)'
    BY <2>1, <2>2, <2>4, SameRows DEF FreshAt, At
  <2>6. QED
    BY <1>b, <1>c, <2>1, <2>3, <2>5
<1>2. ASSUME NEW c \in Clients, SignUpLock(c) \/ DepartDelete(c) \/ DepartPromote(c)
      PROVE  StillSo'
  <2>1. UNCHANGED <<going, since>> /\ \A d \in Clients : d # c => tx'[d] = tx[d]
    BY <1>0, <1>2 DEF SignUpLock, DepartDelete, DepartPromote
  <2>2. FreshAt(c) /\ tx[c] \in TxStates
    BY <1>0, <1>a
  <2>3. CASE SignUpLock(c)
    <3>1. tx'[c] = [tx[c] EXCEPT !.step = "locked", !.saw = Turn] /\ tx[c].op = "signUp"
      BY <1>0, <2>3 DEF SignUpLock, At
    <3>2. tx[c].step = "read"
      BY <2>3 DEF SignUpLock, At
    <3>3. FreshAt(c)'
      BY <2>1, <2>2, <3>1, <3>2, SameRows DEF FreshAt, At, TxStates
    <3>4. QED
      BY <1>b, <1>c, <2>1, <3>3
  <2>4. CASE DepartDelete(c)
    <3>1. tx'[c] = [tx[c] EXCEPT !.step = "deleted"] /\ tx[c].op = "depart" /\ tx[c].step = "read"
      BY <1>0, <2>4 DEF DepartDelete, At
    <3>2. FreshAt(c)'
      BY <2>1, <2>2, <3>1, SameRows DEF FreshAt, At, TxStates
    <3>3. QED
      BY <1>b, <1>c, <2>1, <3>2
  <2>5. CASE DepartPromote(c)
    <3>1. PICK S \in FirstFor(tx[c].who) :
              tx' = [tx EXCEPT ![c] = [@ EXCEPT !.step = "promoting", !.next = S]]
      BY <2>5 DEF DepartPromote
    <3>2. tx'[c] = [tx[c] EXCEPT !.step = "promoting", !.next = S]
      BY <1>0, <3>1
    <3>3. tx[c].op = "depart" /\ tx[c].saw = "going"
      BY <2>5 DEF DepartPromote, At
    <3>4. FreshAt(c)'
      BY <2>1, <2>2, <3>2, <3>3, SameRows DEF FreshAt, At, TxStates
    <3>5. QED
      BY <1>b, <1>c, <2>1, <3>4
  <2>6. QED
    BY <1>2, <2>3, <2>4, <2>5
\* Who writes holds the session's lock or is alone: nobody else has read what it writes.
<1>3. ASSUME NEW c \in Clients,
             SignUpWrite(c) \/ LeaveWrite(c) \/ AddWrite(c) \/ DepartFinish(c)
      PROVE  StillSo'
  <2>1. \A d \in Clients : tx'[d] = IF d = c THEN NoTx ELSE tx[d]
    BY <1>0, <1>3 DEF SignUpWrite, LeaveWrite, AddWrite, DepartFinish, End
  <2>2. tx[c].step = "locked" \/ tx[c].op = "depart"
    BY <1>3 DEF SignUpWrite, LeaveWrite, AddWrite, DepartFinish, At
  <2>3. ASSUME NEW d \in Clients, d # c, Running(d)
        PROVE  tx[d].op \in {"signUp"} /\ tx[d].step = "read"
    <3>1. tx[c].op # "depart" /\ tx[c].step = "locked"
      BY <1>0, <2>2, <2>3 DEF Solo
    <3>2. Running(c)
      BY <3>1, NoTxTyped DEF Running
    <3>3. tx[d].op # "depart" /\ tx[d].step # "locked"
      BY <1>0, <2>3, <3>1, <3>2 DEF Solo, OneInSession
    <3>4. QED
      BY <1>0, <2>3, <3>3 DEF TxShape, Ops
  <2>4. ASSUME NEW d \in Clients PROVE FreshAt(d)'
    <3>1. CASE tx'[d] = NoTx
      BY <3>1 DEF FreshAt, At, NoTx
    <3>2. CASE tx'[d] # NoTx
      <4>1. tx'[d] = tx[d] /\ tx[d].op = "signUp" /\ tx[d].step = "read"
        BY <2>1, <2>3, <3>2 DEF Running
      <4>2. tx[d].next = {}
        BY <1>0, <1>a, <4>1 DEF FreshAt
      <4>3. QED
        BY <4>1, <4>2 DEF FreshAt, At
    <3>3. QED
      BY <3>1, <3>2
  <2>5. QED
    BY <1>b, <2>4
<1>4. ASSUME NEW c \in Clients, Abort(c)
      PROVE  StillSo'
  <2>1. UNCHANGED <<going, since>> /\ \A d \in Clients : tx'[d] = IF d = c THEN NoTx ELSE tx[d]
    BY <1>0, <1>4 DEF Abort, End
  <2>2. FreshAt(c)'
    BY <2>1 DEF FreshAt, At, NoTx
  <2>3. QED
    BY <1>b, <1>c, <2>1, <2>2
<1>5. ASSUME (\E p \in Players : joinTable(p)) \/ Tick \/ UNCHANGED vars
      PROVE  StillSo'
  BY <1>b, <1>c, <1>5 DEF joinTable, Tick, vars
<1>6. QED
  BY <1>1, <1>2, <1>3, <1>4, <1>5 DEF Next

LEMMA LineAlways == ASSUME "depart" \in Alone PROVE Spec => []Line
<1>1. Init => Line
  BY InitTyped, NoTxTyped
     DEF Init, Line, Held, OneInSession, NoPlaceYet, Solo, StillSo, At, Running, NoTx
<1>2. Line /\ [Next]_vars => Line'
  BY HeldStep, SoloStep, StillSoStep DEF Line
<1>3. QED
  BY <1>1, <1>2, PTL DEF Spec

-----------------------------------------------------------------------------
(* How many play. *)

PlacesKept == NotOversold /\ NoIdlePlace

LEMMA Finite == ASSUME NEW S \in SUBSET Players PROVE IsFiniteSet(S) /\ Cardinality(S) \in Nat
BY PlayersAssumption, FS_Subset, FS_CardinalityType

\* Who waited goes: nobody's place changes.
LEMMA StopWaiting ==
    ASSUME Held, PlacesKept, NEW p \in Players, Place(p) # "going", Seat({p}, {})
    PROVE  PlacesKept'
<1>1. going' = going /\ going' \ put' \subseteq going \ put /\ Waiting' \subseteq Waiting
  BY DEF Seat, Place, Waiting, Held, SessionTyped, TypeOK
<1>2. going \ put \in SUBSET Players
  BY DEF Held, SessionTyped, TypeOK
<1>3. NotOversold'
  BY <1>1, <1>2, Finite, FS_Subset, SizeAssumption DEF PlacesKept, NotOversold
<1>4. NoIdlePlace'
  BY <1>1 DEF PlacesKept, NoIdlePlace
<1>5. QED
  BY <1>3, <1>4 DEF PlacesKept

\* Who played goes, and the first in line take what room there is.
LEMMA StopPlaying ==
    ASSUME Held, PlacesKept, NEW p \in Players, NEW S \in FirstFor(p), Seat({p}, S)
    PROVE  PlacesKept'
<1> DEFINE rest == going \ {p}
           room == Size - Cardinality(rest)
           W == Waiting \ {p}
<1>1. /\ S \subseteq W /\ S \in SUBSET Players /\ rest \in SUBSET Players
      /\ S # {} => Cardinality(S) <= room
      /\ Cardinality(S) < room => S = W
  BY FirstForType DEF FirstFor, Held, SessionTyped, TypeOK
<1>2. going' = rest \cup S /\ put' = put \ {p} /\ Waiting' = W \ S
  BY <1>1 DEF Seat, Place, Waiting, Held, SessionTyped, TypeOK
<1>3. rest \cap S = {}
  BY <1>1 DEF Held, SessionTyped, TypeOK
<1>4. /\ Cardinality(rest) \in Nat /\ Cardinality(S) \in Nat
      /\ Cardinality(rest \cup S) = Cardinality(rest) + Cardinality(S)
  <2>1. IsFiniteSet(rest) /\ IsFiniteSet(S) /\ Cardinality(rest) \in Nat /\ Cardinality(S) \in Nat
    BY <1>1, Finite
  <2>2. Cardinality(rest \cup S) = Cardinality(rest) + Cardinality(S) - Cardinality(rest \cap S)
    BY <2>1, FS_Union
  <2>3. Cardinality(rest \cap S) = 0
    BY <1>3, FS_EmptySet
  <2>4. QED
    BY <2>1, <2>2, <2>3
<1>5. NotOversold'
  <2>1. CASE S = {}
    <3>1. going' \ put' \subseteq going \ put /\ going \ put \in SUBSET Players
      BY <1>2, <2>1 DEF Held, SessionTyped, TypeOK
    <3>2. QED
      BY <3>1, Finite, FS_Subset, SizeAssumption DEF PlacesKept, NotOversold
  <2>2. CASE S # {}
    <3>1. Cardinality(going') <= Size
      BY <1>1, <1>2, <1>4, <2>2, SizeAssumption
    <3>2. going' \in SUBSET Players /\ going' \ put' \in SUBSET going'
      BY <1>1, <1>2
    <3>3. QED
      BY <3>1, <3>2, Finite, FS_Subset, SizeAssumption DEF NotOversold
  <2>3. QED
    BY <2>1, <2>2
<1>6. NoIdlePlace'
  <2>1. SUFFICES ASSUME Waiting' # {} PROVE Cardinality(going') >= Size
    BY DEF NoIdlePlace
  <2>2. S # W
    BY <1>1, <1>2, <2>1
  <2>3. QED
    BY <1>1, <1>2, <1>4, <2>2, SizeAssumption
<1>7. QED
  BY <1>5, <1>6 DEF PlacesKept

LEMMA KeptNext == Line /\ PlacesKept /\ [Next]_vars => PlacesKept'
<1> SUFFICES ASSUME Line, PlacesKept, [Next]_vars PROVE PlacesKept'
  OBVIOUS
<1>0. Held /\ StillSo /\ TypeOK /\ TxShape
  BY DEF Line, Held, SessionTyped
<1>1. IsFiniteSet(going) /\ Cardinality(going) \in Nat /\ going \subseteq Players
  BY <1>0, Finite DEF TypeOK
<1>2. ASSUME NEW c \in Clients, SignUpWrite(c)
      PROVE  PlacesKept'
  <2> DEFINE p == tx[c].who
  <2>1. tx[c].saw = Turn /\ put' = put
    BY <1>0, <1>2 DEF SignUpWrite, StillSo
  <2>2. CASE tx[c].saw = "waiting"
    <3>1. going' = going /\ Cardinality(going) >= Size
      BY <1>1, <1>2, <2>1, <2>2, SizeAssumption DEF SignUpWrite, Turn
    <3>2. QED
      BY <2>1, <3>1 DEF PlacesKept, NotOversold, NoIdlePlace
  <2>3. CASE tx[c].saw = "going"
    <3>1. going' = going \cup {p} /\ since' = since /\ ~(Cardinality(going) >= Size)
      BY <1>2, <2>1, <2>3 DEF SignUpWrite, Turn
    <3>2. IsFiniteSet(going') /\ Cardinality(going') \in Nat /\ Cardinality(going') <= Size
      <4>1. /\ IsFiniteSet(going \cup {p})
            /\ Cardinality(going \cup {p}) \in {Cardinality(going), Cardinality(going) + 1}
        BY <1>1, FS_AddElement
      <4>2. QED
        BY <1>1, <3>1, <4>1, SizeAssumption
    <3>3. Cardinality(going' \ put') <= Cardinality(going') /\ Cardinality(going' \ put') \in Nat
      <4>1. going' \ put' \in SUBSET going'
        OBVIOUS
      <4>2. QED
        BY <3>2, <4>1, FS_Subset, FS_CardinalityType
    <3>4. NotOversold'
      BY <3>2, <3>3, SizeAssumption DEF NotOversold
    <3>5. NoIdlePlace'
      BY <1>1, <3>1, SizeAssumption DEF PlacesKept, NoIdlePlace, Waiting
    <3>6. QED
      BY <3>4, <3>5 DEF PlacesKept
  <2>4. QED
    BY <1>2, <2>2, <2>3 DEF SignUpWrite
<1>3. ASSUME NEW c \in Clients, LeaveWrite(c)
      PROVE  PlacesKept'
  <2>1. tx[c].who \in Players /\ tx[c].saw = Place(tx[c].who)
    BY <1>0, <1>3, NoTxTyped DEF LeaveWrite, At, StillSo, TxShape, Running
  <2>2. QED
    BY <1>0, <1>3, <2>1, StopWaiting, StopPlaying DEF LeaveWrite
<1>4. ASSUME NEW c \in Clients, AddWrite(c)
      PROVE  PlacesKept'
  <2>1. going' = going \cup {tx[c].who} /\ put' = put \cup {tx[c].who} /\ Waiting' \subseteq Waiting
    BY <1>0, <1>4 DEF AddWrite, TypeOK, Waiting
  <2>2. going' \ put' \subseteq going \ put /\ going \ put \in SUBSET Players
    BY <1>0, <2>1 DEF TypeOK
  <2>3. NotOversold'
    BY <2>2, Finite, FS_Subset, SizeAssumption DEF PlacesKept, NotOversold
  <2>4. Cardinality(going') >= Cardinality(going) /\ Cardinality(going') \in Nat
    <3>1. Cardinality(going \cup {tx[c].who}) \in {Cardinality(going), Cardinality(going) + 1}
      BY <1>1, FS_AddElement
    <3>2. QED
      BY <1>1, <2>1, <3>1
  <2>5. NoIdlePlace'
    BY <1>1, <2>1, <2>4, SizeAssumption DEF PlacesKept, NoIdlePlace
  <2>6. QED
    BY <2>3, <2>5 DEF PlacesKept
<1>5. ASSUME NEW c \in Clients, DepartFinish(c)
      PROVE  PlacesKept'
  <2>1. /\ tx[c].who \in Players /\ tx[c].saw = Place(tx[c].who)
        /\ Seat({tx[c].who}, tx[c].next)
    BY <1>0, <1>5, NoTxTyped DEF DepartFinish, StillSo, TxShape, Running
  <2>2. CASE tx[c].step = "promoting"
    BY <1>0, <2>1, <2>2, StopPlaying DEF StillSo
  <2>3. CASE tx[c].step # "promoting"
    <3>1. tx[c].next = {} /\ tx[c].saw # "going"
      BY <1>0, <1>5, <2>3 DEF DepartFinish, StillSo
    <3>2. QED
      BY <1>0, <2>1, <3>1, StopWaiting
  <2>4. QED
    BY <2>2, <2>3
<1>6. ASSUME UNCHANGED <<going, since, put>>
      PROVE  PlacesKept'
  BY <1>6 DEF PlacesKept, NotOversold, NoIdlePlace, Waiting
<1>7. QED
  BY <1>2, <1>3, <1>4, <1>5, <1>6
     DEF Next, Tick, joinTable, SignUpRead, LeaveLock, AddLock, DepartRead, SignUpLock,
         DepartDelete, DepartPromote, Abort, vars

LEMMA KeptAlways == ASSUME "depart" \in Alone PROVE Spec => []PlacesKept
<1>1. Init => PlacesKept
  BY SizeAssumption, FS_EmptySet DEF Init, PlacesKept, NotOversold, NoIdlePlace, Waiting
<1>2. QED
  BY <1>1, KeptNext, LineAlways, PTL DEF Spec

\* The promise of session-signups.ts:17-19, where departures meet no other transaction: nobody waits
\* while a place is free.
THEOREM NobodyWaitsInVain ==
    ASSUME "depart" \in Alone
    PROVE  Spec => []NoIdlePlace
<1>1. PlacesKept => NoIdlePlace
  BY DEF PlacesKept
<1>2. QED
  BY <1>1, KeptAlways, PTL

\* And more play than the session takes only by the GM's word (roomFor, promote, the session's lock).
THEOREM NeverOversold ==
    ASSUME "depart" \in Alone
    PROVE  Spec => []NotOversold
<1>1. PlacesKept => NotOversold
  BY DEF PlacesKept
<1>2. QED
  BY <1>1, KeptAlways, PTL

-----------------------------------------------------------------------------
(* Who moves up. *)

\* Nobody moves up past a player who asked earlier.
LEMMA UpInTurn ==
    ASSUME Held, NEW g \in Players, NEW S \in FirstFor(g), Seat({g}, S),
           NEW p \in Waiting, NEW q \in Waiting, p \in going', Before(q, p)
    PROVE  since'[q] = NotWaiting
<1>1. p \in S /\ p \notin going
  BY DEF Seat, Held, SessionTyped, TypeOK
<1>2. CASE q \in S \cup {g}
  BY <1>2, FirstForType DEF Seat, Place, Waiting, FirstFor
<1>3. CASE q \notin S \cup {g}
  <2>1. Before(p, q)
    BY <1>1, <1>3 DEF FirstFor
  <2>2. since[p] \in Int /\ since[q] \in Int /\ p \in Nat /\ q \in Nat
    BY PlayersAssumption, SizeAssumption DEF Held, SessionTyped, TypeOK, Waiting, NotWaiting
  <2>3. QED
    BY <2>1, <2>2 DEF Before
<1>4. QED
  BY <1>2, <1>3

\* Where departures meet no other transaction, players move up in the order they asked (promote).
THEOREM MoveUpInTurn ==
    ASSUME "depart" \in Alone
    PROVE  Spec => FirstMoveUp
<1> DEFINE Up == \A p \in Waiting, q \in Waiting :
                    p \in going' \ put' /\ Before(q, p) => since'[q] = NotWaiting
<1>1. ASSUME Line, [Next]_vars PROVE [Up]_vars
  <2>0. Held /\ StillSo /\ TypeOK /\ TxShape /\ NoPlaceYet
    BY <1>1 DEF Line, Held, SessionTyped
  <2> SUFFICES ASSUME NEW p \in Waiting, NEW q \in Waiting,
                      p \in going' \ put', Before(q, p)
               PROVE  since'[q] = NotWaiting
    OBVIOUS
  <2>1. p \notin going /\ p \in Players
    BY <2>0 DEF TypeOK, Waiting
  <2>2. ASSUME NEW c \in Clients, SignUpWrite(c)
        PROVE  FALSE
    BY <2>0, <2>1, <2>2 DEF SignUpWrite, NoPlaceYet, Place, Waiting
  <2>3. ASSUME NEW c \in Clients, LeaveWrite(c)
        PROVE  since'[q] = NotWaiting
    <3>1. tx[c].who \in Players
      BY <2>0, <2>3, NoTxTyped DEF LeaveWrite, At, TxShape, Running
    <3>2. CASE Seat({tx[c].who}, {})
      BY <2>1, <3>2 DEF Seat
    <3>3. QED
      BY <2>0, <2>3, <3>1, <3>2, UpInTurn DEF LeaveWrite
  <2>4. ASSUME NEW c \in Clients, AddWrite(c)
        PROVE  FALSE
    BY <2>1, <2>4 DEF AddWrite
  <2>5. ASSUME NEW c \in Clients, DepartFinish(c)
        PROVE  since'[q] = NotWaiting
    <3>1. tx[c].who \in Players /\ Seat({tx[c].who}, tx[c].next)
      BY <2>0, <2>5, NoTxTyped DEF DepartFinish, TxShape, Running
    <3>2. CASE tx[c].next = {}
      BY <2>1, <3>1, <3>2 DEF Seat
    <3>3. CASE tx[c].next # {}
      BY <2>0, <3>1, <3>3, UpInTurn DEF StillSo
    <3>4. QED
      BY <3>2, <3>3
  <2>6. going' # going
    BY <2>1
  <2>7. QED
    BY <1>1, <2>2, <2>3, <2>4, <2>5, <2>6
       DEF Next, Tick, joinTable, SignUpRead, LeaveLock, AddLock, DepartRead, SignUpLock,
           DepartDelete, DepartPromote, Abort, vars
<1>2. QED
  BY <1>1, LineAlways, PTL DEF Spec, FirstMoveUp

-----------------------------------------------------------------------------
(* The places do what SessionPlaces promises. *)

\* An addition that holds the session's lock puts in a player who does not play yet.
AddsOther == \A c \in Clients : At(c, "add", "locked") => tx[c].saw # "going"

LEMMA AddsOtherStep == Held /\ AddsOther /\ [Next]_vars => AddsOther'
<1> SUFFICES ASSUME Held, AddsOther, [Next]_vars PROVE AddsOther'
  OBVIOUS
<1>1. tx \in [Clients -> TxStates]
  BY DEF Held, SessionTyped, TypeOK
<1>2. ASSUME NEW c \in Clients, NEW p \in Players,
             SignUpRead(c, p) \/ LeaveLock(c, p) \/ AddLock(c, p) \/ DepartRead(c, p)
      PROVE  AddsOther'
  BY <1>1, <1>2 DEF SignUpRead, LeaveLock, AddLock, DepartRead, Start, AddsOther, At
<1>3. ASSUME NEW c \in Clients, SignUpLock(c) \/ DepartDelete(c) \/ DepartPromote(c)
      PROVE  AddsOther'
  BY <1>1, <1>3 DEF SignUpLock, DepartDelete, DepartPromote, AddsOther, At, TxStates
<1>4. ASSUME NEW c \in Clients,
             SignUpWrite(c) \/ LeaveWrite(c) \/ AddWrite(c) \/ DepartFinish(c) \/ Abort(c)
      PROVE  AddsOther'
  BY <1>1, <1>4, NoTxTyped DEF SignUpWrite, LeaveWrite, AddWrite, DepartFinish, Abort, End, AddsOther, At
<1>. QED
  BY <1>2, <1>3, <1>4 DEF Next, Tick, joinTable, vars, AddsOther, At

\* The instance has its own name for the operator of FiniteSets.
LEMMA SameCount == ASSUME NEW S PROVE Session!Cardinality(S) = Cardinality(S)
BY DEF Session!Cardinality, Cardinality

\* Who waits, and who is before whom, once L are off the line.
LEMMA UnqueuePromised ==
    ASSUME TypeOK, NEW L, since' = [p \in Players |-> IF p \in L THEN NotWaiting ELSE since[p]]
    PROVE  Session!Unqueue(L)
<1>1. Waiting' = Waiting \ L
  BY DEF Waiting
<1>2. \A p, q \in Waiting' : Before(p, q)' <=> Before(p, q)
  BY <1>1 DEF Before, Waiting
<1>3. {pair \in Waiting \X Waiting : Before(pair[1], pair[2])}'
      = {pair \in Waiting \X Waiting : Before(pair[1], pair[2])} \cap (Waiting' \X Waiting')
  BY <1>1, <1>2
<1>. QED
  BY <1>1, <1>3 DEF Session!Unqueue

\* Who waited goes.
LEMMA StopWaitingPromised ==
    ASSUME TypeOK, NEW p \in Players, Place(p) = "waiting", Seat({p}, {})
    PROVE  Session!StopWaiting(p)
<1>1. p \in Waiting /\ p \notin going
  BY DEF Place
<1>2. UNCHANGED <<going, put>>
  BY <1>1 DEF Seat, TypeOK
<1>3. since' = [q \in Players |-> IF q \in {p} THEN NotWaiting ELSE since[q]]
  BY DEF Seat
<1>. QED
  BY <1>1, <1>2, <1>3, UnqueuePromised DEF Session!StopWaiting

\* Who played goes, and the first in line take the places there are.
LEMMA StopPlayingPromised ==
    ASSUME TypeOK, NEW p \in Players, Place(p) = "going", NEW S \in FirstFor(p), Seat({p}, S)
    PROVE  Session!StopPlaying(p)
<1> DEFINE room == Size - Cardinality(going \ {p})
<1>1. p \in going /\ p \notin Waiting /\ going \cap Waiting = {}
  BY DEF Place, TypeOK
<1>2. /\ S \in SUBSET Waiting /\ (S # {} => Cardinality(S) <= room)
      /\ (Cardinality(S) < room => S = Waiting)
      /\ \A f \in S, q \in Waiting \ S : Before(f, q)
  BY <1>1 DEF FirstFor
<1>3. {q \in S : Place(q) # "none"} = S
  BY <1>1, <1>2 DEF Place
<1>4. going' = (going \ {p}) \cup S /\ put' = put \ {p}
  BY <1>3 DEF Seat
<1>5. since' = [q \in Players |-> IF q \in S THEN NotWaiting ELSE since[q]]
  <2>1. since' = [q \in Players |-> IF q \in {p} \cup S THEN NotWaiting ELSE since[q]]
    BY <1>3 DEF Seat
  <2>2. since[p] = NotWaiting
    BY <1>1 DEF Waiting
  <2>. QED
    BY <2>1, <2>2
<1>6. Session!Unqueue(S)
  BY <1>5, UnqueuePromised
<1>7. \A f \in S, q \in Waiting \ S :
        <<f, q>> \in {pair \in Waiting \X Waiting : Before(pair[1], pair[2])}
  BY <1>2
<1>. QED
  BY <1>1, <1>2, <1>4, <1>6, <1>7, SameCount DEF Session!StopPlaying

\* A player who asks gets a place if there is one, and else one in the line.
LEMMA SignUpPromised ==
    ASSUME Line, NEW c \in Clients, SignUpWrite(c), NEW p \in Players, p = tx[c].who
    PROVE  Session!Play(p) \/ Session!Queue(p)
<1> DEFINE ahead == {pair \in Waiting \X Waiting : Before(pair[1], pair[2])}
<1>1. TypeOK /\ At(c, "signUp", "locked") /\ tx[c].now \in 0..MaxTime
  BY NoTxTyped DEF Line, Held, SessionTyped, TxShape, Running, SignUpWrite, At, TypeOK, TxStates
<1>2. Place(p) = "none" /\ tx[c].saw = Turn
  BY <1>1 DEF Line, Held, NoPlaceYet, StillSo
<1>3. p \notin going \cup Waiting
  BY <1>2 DEF Place
<1>4. Cardinality(going) \in Nat /\ Size \in Nat
  BY <1>1, Finite, SizeAssumption DEF TypeOK
<1>5. CASE tx[c].saw = "going"
  <2>1. going' = going \cup {p} /\ UNCHANGED <<since, put>> /\ Cardinality(going) < Size
    BY <1>2, <1>4, <1>5 DEF SignUpWrite, Turn
  <2>2. Waiting' = Waiting /\ ahead' = ahead
    BY <2>1 DEF Waiting, Before
  <2>. QED
    BY <1>3, <2>1, <2>2, SameCount DEF Session!Play, Session!Asks
<1>6. CASE tx[c].saw = "waiting"
  <2>1. since' = [since EXCEPT ![p] = tx[c].now] /\ UNCHANGED <<going, put>>
    BY <1>6 DEF SignUpWrite
  <2>2. Cardinality(going) >= Size
    BY <1>2, <1>4, <1>6 DEF Turn
  <2>3. /\ since' \in [Players -> Int] /\ since'[p] = tx[c].now
        /\ \A q \in Players \ {p} : since'[q] = since[q]
    BY <1>1, <2>1, SizeAssumption DEF TypeOK, NotWaiting
  <2>4. Waiting' = Waiting \cup {p}
    BY <1>1, <2>3 DEF Waiting, NotWaiting
  <2>5. \A f, q \in Waiting : Before(f, q)' <=> Before(f, q)
    BY <1>3, <2>3 DEF Before, Waiting
  <2>6. ahead' \subseteq Waiting' \X Waiting' /\ ahead' \cap (Waiting \X Waiting) = ahead
    BY <2>4, <2>5
  <2>7. ASSUME NEW q \in Waiting PROVE <<p, q>> \in ahead' <=> <<q, p>> \notin ahead'
    <3>1. q # p /\ {p, q} \subseteq Waiting' /\ p \in Nat /\ q \in Nat
      BY <1>1, <1>3, <2>4, PlayersAssumption DEF Waiting
    <3>2. since'[p] \in Int /\ since'[q] \in Int
      BY <1>1, <2>3 DEF Waiting
    <3>3. Before(p, q)' <=> ~Before(q, p)'
      BY <3>1, <3>2 DEF Before
    <3>. QED
      BY <3>1, <3>3
  <2>. QED
    BY <1>3, <2>1, <2>2, <2>4, <2>6, <2>7, SameCount DEF Session!Queue, Session!Asks
<1>. QED
  BY <1>5, <1>6 DEF SignUpWrite

\* The GM's word.
LEMMA AddPromised ==
    ASSUME Line, AddsOther, NEW c \in Clients, AddWrite(c)
    PROVE  Session!PutIn(tx[c].who)
<1> DEFINE p == tx[c].who
<1>1. TypeOK /\ At(c, "add", "locked") /\ p \in Players
  BY NoTxTyped DEF Line, Held, SessionTyped, TxShape, Running, AddWrite, At
<1>2. Place(p) # "going"
  BY <1>1 DEF Line, StillSo, AddsOther, At
<1>3. p \notin going
  BY <1>2 DEF Place
<1>4. since' = [q \in Players |-> IF q \in {p} THEN NotWaiting ELSE since[q]]
  BY <1>1 DEF AddWrite, TypeOK
<1>. QED
  BY <1>1, <1>3, <1>4, UnqueuePromised DEF AddWrite, Session!PutIn

LEMMA NextPromised == Line /\ AddsOther /\ [Next]_vars => [Session!Next]_(Session!vars)
<1> SUFFICES ASSUME Line, AddsOther, [Next]_vars PROVE [Session!Next]_(Session!vars)
  OBVIOUS
<1>0. TypeOK /\ TxShape /\ StillSo
  BY DEF Line, Held, SessionTyped
<1>1. ASSUME UNCHANGED <<going, since, put>> PROVE UNCHANGED Session!vars
  BY <1>1 DEF Session!vars, Waiting, Before
<1>2. ASSUME NEW c \in Clients, SignUpWrite(c) \/ AddWrite(c) PROVE Session!Next
  <2>1. tx[c].who \in Players
    BY <1>0, <1>2, NoTxTyped DEF TxShape, Running, SignUpWrite, AddWrite, At
  <2>. QED
    BY <1>2, <2>1, SignUpPromised, AddPromised DEF Session!Next
<1>3. ASSUME NEW c \in Clients, LeaveWrite(c) PROVE Session!Next
  <2>1. tx[c].who \in Players /\ tx[c].saw = Place(tx[c].who)
    BY <1>0, <1>3, NoTxTyped DEF LeaveWrite, At, StillSo, TxShape, Running
  <2>. QED
    BY <1>0, <1>3, <2>1, StopWaitingPromised, StopPlayingPromised DEF LeaveWrite, Session!Next
<1>4. ASSUME NEW c \in Clients, DepartFinish(c) PROVE [Session!Next]_(Session!vars)
  <2>1. /\ tx[c].who \in Players /\ tx[c].saw = Place(tx[c].who)
        /\ Seat({tx[c].who}, tx[c].next)
    BY <1>0, <1>4, NoTxTyped DEF DepartFinish, StillSo, TxShape, Running
  <2>2. CASE tx[c].step = "promoting"
    BY <1>0, <2>1, <2>2, StopPlayingPromised DEF StillSo, Session!Next
  <2>3. CASE tx[c].step # "promoting"
    <3>1. tx[c].next = {} /\ tx[c].saw \in {"none", "waiting"}
      BY <1>0, <1>4, <2>3 DEF DepartFinish, StillSo
    <3>2. CASE tx[c].saw = "waiting"
      BY <1>0, <2>1, <3>1, <3>2, StopWaitingPromised DEF Session!Next
    <3>3. CASE tx[c].saw = "none"
      <4>1. tx[c].who \notin going \cup Waiting
        BY <2>1, <3>3 DEF Place
      <4>2. UNCHANGED <<going, put, since>>
        BY <1>0, <2>1, <3>1, <4>1 DEF Seat, TypeOK, Waiting
      <4>. QED
        BY <1>1, <4>2
    <3>. QED
      BY <3>1, <3>2, <3>3
  <2>. QED
    BY <2>2, <2>3
<1>. QED
  BY <1>1, <1>2, <1>3, <1>4
     DEF Next, Tick, joinTable, SignUpRead, LeaveLock, AddLock, DepartRead, SignUpLock,
         DepartDelete, DepartPromote, Abort, vars

\* Where departures meet no other transaction, the places of the session change only as
\* SessionPlaces promises, for every number of players, requests and places.
THEOREM SignupsImplementPlaces == ASSUME "depart" \in Alone PROVE Spec => PlacesAsPromised
<1>1. Init => AddsOther
  BY NoTxTyped DEF Init, AddsOther, At
<1>2. Init => Session!Init
  BY DEF Init, Session!Init, Waiting
<1>3. Line /\ AddsOther /\ [Next]_vars => AddsOther'
  BY AddsOtherStep DEF Line
<1>. QED
  BY <1>1, <1>2, <1>3, NextPromised, LineAlways, PTL DEF Spec, PlacesAsPromised, Session!Spec

-----------------------------------------------------------------------------
(* Partners: who joins by an invitation. *)

PartnersInv == owners \subseteq People /\ JoinedWithinLimit

LEMMA PeopleFinite ==
    ASSUME NEW S \in SUBSET People
    PROVE  IsFiniteSet(S) /\ Cardinality(S) \in Nat
  BY PartnersAssumption, FS_Subset, FS_CardinalityType

\* Nobody new but the submitter: the limit is kept.
LEMMA NobodyJoins ==
    ASSUME PartnersInv, owners' \subseteq owners \cup {Sender}
    PROVE  PartnersInv'
<1>1. owners' \subseteq People
  BY PartnersAssumption DEF PartnersInv
<1>2. owners' \ {Sender} \subseteq owners \ {Sender}
  OBVIOUS
<1>3. /\ Cardinality(owners' \ {Sender}) <= Cardinality(owners \ {Sender})
      /\ Cardinality(owners' \ {Sender}) \in Nat /\ Cardinality(owners \ {Sender}) \in Nat
  <2>1. IsFiniteSet(owners \ {Sender})
    BY PeopleFinite DEF PartnersInv
  <2>. QED
    BY <1>1, <1>2, <2>1, FS_Subset, PeopleFinite DEF PartnersInv
<1>. QED
  BY <1>1, <1>3, PartnersAssumption DEF PartnersInv, JoinedWithinLimit

\* One person joins where there is a place.
LEMMA OneJoins ==
    ASSUME PartnersInv, NEW p \in People, HasPlace, owners' = settleOwners \cup {p}
    PROVE  PartnersInv'
<1>1. CASE p \in owners \cup {Sender}
  <2>1. owners' = owners \cup {Sender}
    BY <1>1 DEF settleOwners
  <2>. QED
    BY <2>1, NobodyJoins
<1>2. CASE p \notin owners \cup {Sender}
  <2> DEFINE joined == owners \ {Sender}
  <2>1. joined \in SUBSET People /\ owners \in SUBSET People /\ p \notin joined
    BY <1>2 DEF PartnersInv
  <2>2. owners' \ {Sender} = joined \cup {p} /\ owners' \subseteq People
    BY <1>2, PartnersAssumption DEF settleOwners, PartnersInv
  <2>3. Cardinality(joined \cup {p}) = Cardinality(joined) + 1
    BY <2>1, PeopleFinite, FS_AddElement
  <2>4. Cardinality(joined) \in Nat /\ Cardinality(joined) < MaxOwners
    <3>1. CASE owners = {}
      <4>1. joined = {}
        BY <3>1
      <4>. QED
        BY <4>1, FS_EmptySet, PartnersAssumption
    <3>2. CASE owners # {}
      <4>1. Cardinality(owners) < MaxOwners /\ Cardinality(owners) \in Nat
        BY <2>1, <3>2, PeopleFinite DEF HasPlace, ownersOf
      <4>2. Cardinality(joined) <= Cardinality(owners) /\ Cardinality(joined) \in Nat
        BY <2>1, PeopleFinite, FS_Subset
      <4>. QED
        BY <4>1, <4>2, PartnersAssumption
    <3>. QED
      BY <3>1, <3>2
  <2> HIDE DEF joined
  <2>5. Cardinality(owners' \ {Sender}) <= MaxOwners
    BY <2>2, <2>3, <2>4, PartnersAssumption
  <2>. QED
    BY <2>2, <2>5 DEF PartnersInv, JoinedWithinLimit
<1>. QED
  BY <1>1, <1>2

LEMMA PartnersNextHolds == PartnersInv /\ [PartnersNext]_partnerVars => PartnersInv'
<1> SUFFICES ASSUME PartnersInv, [PartnersNext]_partnerVars PROVE PartnersInv'
  OBVIOUS
<1>1. ASSUME NEW p \in People, NEW now \in Nows, Accept(p, now) PROVE PartnersInv'
  <2>1. CASE HasPlace
    BY <1>1, <2>1, OneJoins DEF Accept
  <2>2. CASE ~HasPlace
    BY <1>1, <2>2, NobodyJoins DEF Accept, settleOwners
  <2>. QED
    BY <2>1, <2>2
<1>2. ASSUME NEW p \in People, NEW now \in Nows,
             invitePartnerOwner(p, now) \/ Decline(p, now) \/ AnswerLate(p, now)
                \/ cancelPartnerInvitation(p, now)
      PROVE  PartnersInv'
  BY <1>2, NobodyJoins
     DEF invitePartnerOwner, Decline, AnswerLate, cancelPartnerInvitation, settleOwners
<1>3. ASSUME NEW p \in People, removePartnerOwner(p) PROVE PartnersInv'
  BY <1>3, NobodyJoins DEF removePartnerOwner, settleOwners
<1>4. CASE updatePartner \/ approvePartner \/ removePartner \/ DayPasses \/ UNCHANGED partnerVars
  BY <1>4, NobodyJoins DEF updatePartner, approvePartner, removePartner, DayPasses, partnerVars
<1>. QED
  BY <1>1, <1>2, <1>3, <1>4 DEF PartnersNext, respondToPartnerInvitation

\* Every reachable state of Partners is well typed: an invitation ends at most InvitationDays past
\* the last day, and no answer is of a day to come, although a call's clock may be a day old.
THEOREM PartnersAreTyped == PartnersSpec => []PartnersTypeOK
<1> DEFINE Row == [status: {"none", "pending"} \cup Endings,
                   expires: 0..(MaxDay + InvitationDays), answered: 0..MaxDay]
<1>1. PartnersInit => PartnersTypeOK
  <2>1. NoInvitation \in Row
    BY PartnersAssumption DEF NoInvitation
  <2>. QED
    BY <2>1, PartnersAssumption DEF PartnersInit, PartnersTypeOK
<1>2. ASSUME PartnersTypeOK, [PartnersNext]_partnerVars PROVE PartnersTypeOK'
  <2>1. /\ invitations \in [People -> Row] /\ owners \subseteq People /\ Sender \in People
        /\ partner \in [approved: BOOLEAN, removed: BOOLEAN]
        /\ day \in 0..MaxDay /\ callsLeft \in 0..MaxCalls
        /\ MaxDay \in Nat /\ MaxCalls \in Nat /\ InvitationDays \in Nat
    BY <1>2, PartnersAssumption DEF PartnersTypeOK
  <2>2. PartnerCall => callsLeft' \in 0..MaxCalls
    BY <2>1 DEF PartnerCall
  <2>3. ASSUME NEW now \in Nows
        PROVE  now \in 0..MaxDay /\ now + InvitationDays \in 0..(MaxDay + InvitationDays)
    BY <2>1 DEF Nows
  <2>4. ASSUME NEW p \in People, NEW now \in Nows, NEW status \in Endings, finish(p, status, now)
        PROVE  invitations' \in [People -> Row]
    BY <2>1, <2>3, <2>4 DEF finish
  <2>5. ASSUME NEW p \in People, NEW now \in Nows, invitePartnerOwner(p, now) PROVE PartnersTypeOK'
    <3>1. [status |-> "pending", expires |-> now + InvitationDays, answered |-> 0] \in Row
      BY <2>1, <2>3
    <3>2. invitations' \in [People -> Row]
      BY <2>1, <2>5, <3>1 DEF invitePartnerOwner
    <3>. QED
      BY <2>1, <2>2, <2>5, <3>2 DEF invitePartnerOwner, settleOwners, PartnersTypeOK
  <2>6. ASSUME NEW p \in People, NEW now \in Nows, respondToPartnerInvitation(p, now) PROVE PartnersTypeOK'
    <3>1. {"accepted", "declined", "cancelled", "expired"} = Endings
      BY DEF Endings
    <3>2. invitations' \in [People -> Row]
      BY <2>4, <2>6, <3>1 DEF respondToPartnerInvitation, Accept, Decline, AnswerLate
    <3>. QED
      BY <2>1, <2>2, <2>6, <3>2
         DEF respondToPartnerInvitation, Accept, Decline, AnswerLate, settleOwners, PartnersTypeOK
  <2>7. ASSUME NEW p \in People, NEW now \in Nows, cancelPartnerInvitation(p, now) PROVE PartnersTypeOK'
    <3>1. "cancelled" \in Endings
      BY DEF Endings
    <3>. QED
      BY <2>1, <2>2, <2>4, <2>7, <3>1 DEF cancelPartnerInvitation, PartnersTypeOK
  <2>8. ASSUME NEW p \in People, removePartnerOwner(p) PROVE PartnersTypeOK'
    BY <2>1, <2>2, <2>8 DEF removePartnerOwner, settleOwners, PartnersTypeOK
  <2>9. CASE updatePartner \/ approvePartner \/ removePartner
    BY <2>1, <2>2, <2>9 DEF updatePartner, approvePartner, removePartner, PartnersTypeOK
  <2>10. CASE DayPasses \/ UNCHANGED partnerVars
    BY <2>1, <2>10 DEF DayPasses, partnerVars, PartnersTypeOK
  <2>. QED
    BY <1>2, <2>5, <2>6, <2>7, <2>8, <2>9, <2>10 DEF PartnersNext
<1>. QED
  BY <1>1, <1>2, PTL DEF PartnersSpec

LEMMA PartnersInitHolds == PartnersInit => PartnersInv
<1> SUFFICES ASSUME PartnersInit PROVE PartnersInv
  OBVIOUS
<1>1. owners \ {Sender} = {} /\ owners \subseteq People
  BY PartnersAssumption DEF PartnersInit
<1>2. Cardinality(owners \ {Sender}) = 0
  BY <1>1, FS_EmptySet
<1>. QED
  BY <1>1, <1>2, PartnersAssumption DEF PartnersInv, JoinedWithinLimit

\* For any people and any limit: those who joined a partner by an invitation never pass it
\* (respondToPartnerInvitation counts the owners again under the partner's lock).
THEOREM InvitationsKeepTheLimit == PartnersSpec => []JoinedWithinLimit
<1>1. PartnersInv => JoinedWithinLimit
  BY DEF PartnersInv
<1>. QED
  BY <1>1, PartnersInitHolds, PartnersNextHolds, PTL DEF PartnersSpec

\* Where the limit the documentation promises of all owners ends up: whoever accepts, one account past
\* MAX_PARTNER_OWNERS at most, the one that sent the partner in.
THEOREM OwnersStayNearTheLimit == PartnersSpec => [](Cardinality(owners) <= MaxOwners + 1)
<1>1. ASSUME PartnersInv PROVE Cardinality(owners) <= MaxOwners + 1
  <2>1. IsFiniteSet(owners \ {Sender}) /\ Cardinality(owners \ {Sender}) \in Nat
    BY <1>1, PeopleFinite, FS_CardinalityType, FS_Subset DEF PartnersInv
  <2>2. IsFiniteSet(owners) /\ Cardinality(owners) \in Nat
    BY <1>1, PeopleFinite, FS_CardinalityType, FS_Subset DEF PartnersInv
  <2>3. Cardinality(owners) <= Cardinality(owners \ {Sender}) + 1
    <3>1. CASE Sender \in owners
      <4>1. Cardinality(owners \ {Sender}) = Cardinality(owners) - 1
        BY <2>2, <3>1, FS_RemoveElement
      <4>. QED
        BY <2>1, <2>2, <4>1
    <3>2. CASE Sender \notin owners
      <4>1. owners \ {Sender} = owners
        BY <3>2
      <4>. QED
        BY <2>2, <4>1
    <3>. QED
      BY <3>1, <3>2
  <2>. QED
    BY <1>1, <2>1, <2>2, <2>3, PartnersAssumption DEF PartnersInv, JoinedWithinLimit
<1>2. PartnersInit => PartnersInv
  BY PartnersInitHolds
<1>. QED
  BY <1>1, <1>2, PartnersNextHolds, PTL DEF PartnersSpec

-----------------------------------------------------------------------------
(* The run: what it does to each part is what the part's module allows. *)

LEMMA RunsSession == RunSpec => Spec
<1>1. RunInit => Init
  BY DEF RunInit
<1>2. [RunNext]_<<focus, vars, calendar, partnerVars>> => [Next]_vars
  BY DEF RunNext
<1>. QED
  BY <1>1, <1>2, PTL DEF RunSpec, Spec

LEMMA RunsCalendar == RunSpec => CalendarSpec
<1>1. RunInit => CalendarInit
  BY DEF RunInit
<1>2. [RunNext]_<<focus, vars, calendar, partnerVars>> => [CalendarNext]_calendar
  BY DEF RunNext
<1>. QED
  BY <1>1, <1>2, PTL DEF RunSpec, CalendarSpec

LEMMA RunsPartner == RunSpec => PartnersSpec
<1>1. RunInit => PartnersInit
  BY DEF RunInit
<1>2. [RunNext]_<<focus, vars, calendar, partnerVars>> => [PartnersNext]_partnerVars
  BY DEF RunNext
<1>. QED
  BY <1>1, <1>2, PTL DEF RunSpec, PartnersSpec

\* The calendar, the places of a session and the owners of a partner keep their types together.
THEOREM TablesAreTyped == RunSpec => []TablesTypeOK
BY RunsSession, RunsCalendar, RunsPartner, SessionsAreTyped, CalendarIsTyped, PartnersAreTyped, PTL
   DEF TablesTypeOK
=============================================================================
