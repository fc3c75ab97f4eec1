----------------------------- MODULE SeatsProofs -----------------------------
(***************************************************************************)
(* Theorems about Seats, for every set of players, clients and invitations *)
(* and every bound of time.                                                *)
(***************************************************************************)
EXTENDS Seats, FiniteSetTheorems, WellFoundedInduction, TLAPS

\* A transaction that names a player names one of the table's.
TxShape == \A c \in Clients : tx[c].op \notin {"idle", "update"} => tx[c].who \in Players

Typed == TypeOK /\ TxShape

-----------------------------------------------------------------------------
(* The types. *)

LEMMA RecentType ==
    ASSUME TypeOK
    PROVE  \A now \in Recent : now \in 0..MaxTime /\ now \in Nat /\ now <= clock
BY TimeAssumption DEF TypeOK, Recent

\* A line that moves up publishes registrations, a line and a ledger of the right type.
LEMMA MoveUpTyped ==
    ASSUME NEW r \in [Players -> RegStatuses], NEW ev \in [Players -> {"seated", "unseated"}],
           NEW inv, NEW cap, NEW mode \in JoinModes, NEW now,
           line \in [Players -> {NotWaiting} \cup 0..MaxTime],
           MoveUp(r, ev, inv, cap, mode, now)
    PROVE  /\ reg' \in [Players -> RegStatuses]
           /\ ledger' \in [Players -> {"seated", "unseated"}]
           /\ line' \in [Players -> {NotWaiting} \cup 0..MaxTime]
<1> DEFINE room == Room(r, inv, cap, mode, now)
<1>1. CASE room <= 0
  BY <1>1 DEF MoveUp
<1>2. CASE ~(room <= 0)
  <2>1. PICK S \in FirstInLine(Eligible(r), room) :
            /\ reg' = [p \in Players |-> IF p \in S THEN SeatStatus(mode) ELSE r[p]]
            /\ ledger' = [p \in Players |-> IF p \in S /\ mode = "auto" THEN "seated" ELSE ev[p]]
            /\ line' = [p \in Players |-> IF p \in Passed(S, room) THEN NotWaiting ELSE line[p]]
    BY <1>2 DEF MoveUp
  <2>2. SeatStatus(mode) \in RegStatuses
    BY DEF SeatStatus, RegStatuses
  <2>3. QED
    BY <2>1, <2>2
<1>3. QED
  BY <1>1, <1>2

LEMMA FinishTyped ==
    ASSUME NEW I, NEW answer \in InviteStatuses \ {"none"}, invites \in [Invitations -> InviteRows]
    PROVE  Finish(invites, I, answer) \in [Invitations -> InviteRows]
<1>1. ASSUME NEW i \in Invitations, invites[i].status = "pending"
      PROVE  [invites[i] EXCEPT !.status = answer] \in InviteRows
  <2>1. invites[i] \in [status: InviteStatuses \ {"none"}, player: Players, expiresAt: Nat]
    BY <1>1 DEF InviteRows, NoInvitation
  <2>2. QED
    BY <2>1 DEF InviteRows
<1>2. QED
  BY <1>1 DEF Finish

LEMMA BeginTyped ==
    ASSUME Typed, NEW c \in Clients, NEW op \in ClientKinds, NEW step \in Steps,
           NEW who \in Players, NEW saw \in RegStatuses, NEW holds \in BOOLEAN,
           Begin(c, op, step, who, saw, holds)
    PROVE  tx' \in [Clients -> TxStates] /\ TxShape'
BY DEF Typed, TypeOK, TxShape, Begin, NoTx, TxStates

LEMMA EndTyped ==
    ASSUME Typed, NEW c \in Clients, End(c)
    PROVE  tx' \in [Clients -> TxStates] /\ TxShape'
<1>1. NoTx \in TxStates /\ NoTx.op = "idle"
  BY DEF NoTx, TxStates, Steps, RegStatuses
<1>2. QED
  BY <1>1 DEF Typed, TypeOK, TxShape, End

LEMMA InitTyped == Init => Typed
<1> SUFFICES ASSUME Init PROVE Typed
  OBVIOUS
<1>1. NoTx \in TxStates /\ NoTx.op = "idle"
  BY DEF NoTx, TxStates, Steps, RegStatuses
<1>2. invites \in [Invitations -> InviteRows]
  BY DEF Init, InviteRows, InviteStatuses
<1>3. QED
  BY <1>1, <1>2, TimeAssumption DEF Init, Typed, TypeOK, TxShape, RegStatuses

\* One step per operation; what it leaves UNCHANGED keeps its type.
LEMMA NextTyped == Typed /\ [Next]_vars => Typed'
<1> SUFFICES ASSUME Typed, [Next]_vars PROVE Typed'
  OBVIOUS
<1> USE DEF table, profiles
<1> DEFINE TxTyped == tx \in [Clients -> TxStates] /\ TxShape
<1>0. TxTyped
  BY DEF Typed, TypeOK
<1>1. ASSUME NEW p \in Players, NEW now \in Recent, joinTable(p, now)
      PROVE  Typed'
  BY <1>0, <1>1 DEF joinTable, ActsAs, Typed, TypeOK, TxShape, SeatStatus, RegStatuses
<1>2. ASSUME NEW p \in Players, NEW now \in Recent, joinWaitlist(p, now)
      PROVE  Typed'
  BY <1>0, <1>2, RecentType DEF joinWaitlist, ActsAs, Typed, TypeOK, TxShape
<1>3. ASSUME NEW p \in Players, leaveWaitlist(p)
      PROVE  Typed'
  BY <1>0, <1>3 DEF leaveWaitlist, Typed, TypeOK, TxShape
<1>4. ASSUME NEW i \in Invitations, NEW p \in Players, NEW now \in Recent, invitePlayer(i, p, now)
      PROVE  Typed'
  <2>1. Finish(invites, RowsOf(p), "expired") \in [Invitations -> InviteRows]
    BY FinishTyped DEF InviteStatuses, Typed, TypeOK
  <2>2. Earlier(now + HoldFor, StartsAt) \in Nat
    BY RecentType, TimeAssumption DEF Earlier, Typed
  <2>3. [status |-> "pending", player |-> p, expiresAt |-> Earlier(now + HoldFor, StartsAt)]
            \in InviteRows
    BY <2>2 DEF InviteRows, InviteStatuses
  <2>4. invites' \in [Invitations -> InviteRows]
    BY <1>4, <2>1, <2>3 DEF invitePlayer
  <2>5. QED
    BY <1>0, <1>4, <2>4 DEF invitePlayer, Typed, TypeOK, TxShape
<1>5. ASSUME NEW i \in Invitations, NEW accept \in BOOLEAN, NEW now \in Recent,
             respondToInvitation(i, accept, now)
      PROVE  Typed'
  <2>1. Answer(i, accept, now) \in InviteStatuses \ {"none"}
    BY DEF Answer, InviteStatuses
  <2>2. invites' \in [Invitations -> InviteRows]
    BY <1>5, <2>1, FinishTyped DEF respondToInvitation, Typed, TypeOK
  <2>3. reg' \in [Players -> RegStatuses] /\ ledger' \in [Players -> {"seated", "unseated"}]
    BY <1>5 DEF respondToInvitation, Typed, TypeOK, RegStatuses
  <2>4. QED
    BY <1>0, <1>5, <2>2, <2>3 DEF respondToInvitation, ActsAs, Typed, TypeOK, TxShape
<1>6. ASSUME NEW i \in Invitations, cancelInvitation(i) \/ SweepOne(i)
      PROVE  Typed'
  <2>1. invites' \in [Invitations -> InviteRows]
    BY <1>6, FinishTyped DEF cancelInvitation, SweepOne, Typed, TypeOK, InviteStatuses
  <2>2. QED
    BY <1>0, <1>6, <2>1 DEF cancelInvitation, SweepOne, Typed, TypeOK, TxShape
<1>7. ASSUME NEW p \in Players, OptOut(p) \/ OptIn(p) \/ LiftBan(p)
      PROVE  Typed'
  <2>1. invites' \in [Invitations -> InviteRows]
    BY <1>7, FinishTyped DEF OptOut, OptIn, LiftBan, Typed, TypeOK, InviteStatuses
  <2>2. QED
    BY <1>0, <1>7, <2>1 DEF OptOut, OptIn, LiftBan, ActsAs, Typed, TypeOK, TxShape
<1>8. ASSUME SweepRead \/ SweepStops
      PROVE  Typed'
  BY <1>0, <1>8 DEF SweepRead, SweepStops, Expired, Typed, TypeOK, TxShape
<1>9. ASSUME closeTable
      PROVE  Typed'
  <2>1. invites' \in [Invitations -> InviteRows]
    BY <1>9, FinishTyped DEF closeTable, Typed, TypeOK, InviteStatuses
  <2>2. QED
    BY <1>0, <1>9, <2>1 DEF closeTable, Typed, TypeOK, TxShape, RegStatuses
<1>10. ASSUME Tick
       PROVE  Typed'
  BY <1>0, <1>10, TimeAssumption DEF Tick, Typed, TypeOK, TxShape
<1>11. ASSUME NEW c \in Clients, NEW p \in Players, NEW op \in ClientKinds, ReadSeat(c, op, p)
       PROVE  Typed'
  <2>1. TxTyped'
    BY <1>11, BeginTyped DEF ReadSeat, Typed, TypeOK, Steps
  <2>2. QED
    BY <1>11, <2>1 DEF ReadSeat, ActsAs, Typed, TypeOK
<1>12. ASSUME NEW c \in Clients, NEW p \in Players, ApproveLock(c, p) \/ BanLock(c, p)
       PROVE  Typed'
  <2>1. TxTyped'
    BY <1>12, BeginTyped DEF ApproveLock, BanLock, Typed, TypeOK, Steps, RegStatuses, ClientKinds
  <2>2. QED
    BY <1>12, <2>1 DEF ApproveLock, BanLock, Typed, TypeOK
<1>13. ASSUME NEW c \in Clients, UpdateRead(c)
       PROVE  Typed'
  <2>1. TxTyped'
    BY <1>0, <1>13 DEF UpdateRead, Typed, TypeOK, NoTx, TxStates, TxShape, Steps, RegStatuses,
                       ClientKinds
  <2>2. QED
    BY <1>13, <2>1 DEF UpdateRead, Typed, TypeOK
<1>14. ASSUME NEW c \in Clients, WithdrawRequest(c) \/ ApproveWrite(c) \/ BanWrite(c) \/ Abort(c)
       PROVE  Typed'
  <2>1. TxTyped'
    BY <1>14, EndTyped DEF WithdrawRequest, ApproveWrite, BanWrite, Abort
  <2>2. invites' \in [Invitations -> InviteRows]
    BY <1>14, FinishTyped
       DEF WithdrawRequest, ApproveWrite, BanWrite, Abort, Typed, TypeOK, InviteStatuses
  <2>3. reg' \in [Players -> RegStatuses] /\ ledger' \in [Players -> {"seated", "unseated"}]
    BY <1>14 DEF WithdrawRequest, ApproveWrite, BanWrite, Abort, Typed, TypeOK, RegStatuses
  <2>4. suspended' \subseteq Players /\ inFlight' \subseteq suspended'
    BY <1>0, <1>14 DEF WithdrawRequest, ApproveWrite, BanWrite, Abort, Step, Typed, TypeOK, TxShape
  <2>5. QED
    BY <1>14, <2>1, <2>2, <2>3, <2>4
       DEF WithdrawRequest, ApproveWrite, BanWrite, Abort, Typed, TypeOK
<1>15. ASSUME NEW c \in Clients, DeleteSeat(c) \/ BanRead(c)
       PROVE  Typed'
  <2>1. TxTyped'
    BY <1>0, <1>15
       DEF DeleteSeat, BanRead, Step, Typed, TypeOK, TxShape, TxStates, Steps
  <2>2. QED
    BY <1>15, <2>1 DEF DeleteSeat, BanRead, Typed, TypeOK
<1>16. ASSUME NEW c \in Clients, NEW now \in Recent, GiveUpSeat(c, now)
       PROVE  Typed'
  <2>1. /\ Emptied(c) \in [Players -> RegStatuses]
        /\ Told(c) \in [Players -> {"seated", "unseated"}]
    BY DEF Emptied, Told, Typed, TypeOK, RegStatuses
  <2>2. /\ reg' \in [Players -> RegStatuses]
        /\ ledger' \in [Players -> {"seated", "unseated"}]
        /\ line' \in [Players -> {NotWaiting} \cup 0..MaxTime]
    BY <1>16, <2>1, MoveUpTyped DEF GiveUpSeat, Typed, TypeOK
  <2>3. TxTyped'
    BY <1>16, EndTyped DEF GiveUpSeat
  <2>4. QED
    BY <1>16, <2>2, <2>3 DEF GiveUpSeat, Typed, TypeOK
<1>17. ASSUME NEW c \in Clients, NEW cap \in Capacities, NEW mode \in JoinModes,
              NEW consent \in BOOLEAN, UpdateWrite(c, cap, mode, consent)
       PROVE  Typed'
  <2> DEFINE inv == IF consent THEN Finish(invites, Invitations, "cancelled") ELSE invites
  <2>1. inv \in [Invitations -> InviteRows]
    BY FinishTyped DEF Typed, TypeOK, InviteStatuses
  <2>2. /\ reg' \in [Players -> RegStatuses]
        /\ ledger' \in [Players -> {"seated", "unseated"}]
        /\ line' \in [Players -> {NotWaiting} \cup 0..MaxTime]
    BY <1>17, MoveUpTyped DEF UpdateWrite, Typed, TypeOK
  <2>3. TxTyped'
    BY <1>17, EndTyped DEF UpdateWrite
  <2>4. QED
    BY <1>17, <2>1, <2>2, <2>3 DEF UpdateWrite, Typed, TypeOK
<1>18. CASE UNCHANGED vars
  BY <1>0, <1>18 DEF vars, Typed, TypeOK, TxShape
<1>19. QED
  BY <1>1, <1>2, <1>3, <1>4, <1>5, <1>6, <1>7, <1>8, <1>9, <1>10, <1>11, <1>12, <1>13, <1>14,
     <1>15, <1>16, <1>17, <1>18
     DEF Next, Attendance, Invitation, Request, Proceed

\* Every variable keeps its type, and a transaction that names a player names one of the table's.
THEOREM TypeCorrect == Spec => []Typed
<1>1. Init => Typed
  BY InitTyped
<1>2. Typed /\ [Next]_vars => Typed'
  BY NextTyped
<1>3. QED
  BY <1>1, <1>2, PTL DEF Spec

\* The type invariant of the runs.
THEOREM TypesHold == Spec => []TypeOK
<1>1. Typed => TypeOK
  BY DEF Typed
<1>2. QED
  BY <1>1, TypeCorrect, PTL

-----------------------------------------------------------------------------
(* Counting seats. *)

LEMMA CountsFinite ==
    ASSUME NEW r, NEW s, NEW inv, NEW now
    PROVE  /\ IsFiniteSet(InState(r, s)) /\ Cardinality(InState(r, s)) \in Nat
           /\ IsFiniteSet(Reserved(inv, now)) /\ Cardinality(Reserved(inv, now)) \in Nat
<1>1. InState(r, s) \in SUBSET Players /\ Reserved(inv, now) \in SUBSET Invitations
  BY DEF InState, Reserved
<1>2. IsFiniteSet(InState(r, s)) /\ IsFiniteSet(Reserved(inv, now))
  BY <1>1, FS_Subset, PlayersAssumption, InvitationsAssumption
<1>3. QED
  BY <1>2, FS_CardinalityType

LEMMA AtMostBoth ==
    ASSUME NEW A, NEW B, NEW C, IsFiniteSet(B), IsFiniteSet(C), A \subseteq B \cup C
    PROVE  Cardinality(A) <= Cardinality(B) + Cardinality(C)
<1>1. /\ IsFiniteSet(B \cup C) /\ IsFiniteSet(B \cap C)
      /\ Cardinality(B \cup C) = Cardinality(B) + Cardinality(C) - Cardinality(B \cap C)
  BY FS_Union, FS_Intersection
<1>2. IsFiniteSet(A) /\ Cardinality(A) <= Cardinality(B \cup C)
  BY <1>1, FS_Subset
<1>3. /\ Cardinality(A) \in Nat /\ Cardinality(B) \in Nat /\ Cardinality(C) \in Nat
      /\ Cardinality(B \cap C) \in Nat
  BY <1>1, <1>2, FS_CardinalityType
<1>4. QED
  BY <1>1, <1>2, <1>3

\* Seats and reservations that only go leave no fewer seats free.
LEMMA FewerTaken ==
    ASSUME NEW r1, NEW r2, NEW inv1, NEW inv2, NEW now1, NEW now2, NEW cap \in Int,
           InState(r2, "confirmed") \subseteq InState(r1, "confirmed"),
           Reserved(inv2, now2) \subseteq Reserved(inv1, now1)
    PROVE  /\ Available(r1, inv1, cap, now1) \in Int /\ Available(r2, inv2, cap, now2) \in Int
           /\ Available(r1, inv1, cap, now1) <= Available(r2, inv2, cap, now2)
<1>1. /\ Cardinality(InState(r2, "confirmed")) <= Cardinality(InState(r1, "confirmed"))
      /\ Cardinality(Reserved(inv2, now2)) <= Cardinality(Reserved(inv1, now1))
  BY CountsFinite, FS_Subset
<1>2. QED
  BY <1>1, CountsFinite DEF Available

\* One more player or reservation takes one seat.
LEMMA OneMoreTaken ==
    ASSUME NEW r1, NEW r2, NEW inv1, NEW inv2, NEW now, NEW cap \in Int, NEW x,
           \/ /\ InState(r2, "confirmed") \subseteq InState(r1, "confirmed") \cup {x}
              /\ Reserved(inv2, now) \subseteq Reserved(inv1, now)
           \/ /\ InState(r2, "confirmed") \subseteq InState(r1, "confirmed")
              /\ Reserved(inv2, now) \subseteq Reserved(inv1, now) \cup {x}
    PROVE  Available(r2, inv2, cap, now) >= Available(r1, inv1, cap, now) - 1
<1>1. IsFiniteSet({x}) /\ Cardinality({x}) = 1
  BY FS_Singleton
<1>2. CASE /\ InState(r2, "confirmed") \subseteq InState(r1, "confirmed") \cup {x}
           /\ Reserved(inv2, now) \subseteq Reserved(inv1, now)
  <2>1. Cardinality(InState(r2, "confirmed")) <= Cardinality(InState(r1, "confirmed")) + 1
    BY <1>1, <1>2, AtMostBoth, CountsFinite
  <2>2. Cardinality(Reserved(inv2, now)) <= Cardinality(Reserved(inv1, now))
    BY <1>2, CountsFinite, FS_Subset
  <2>3. QED
    BY <2>1, <2>2, CountsFinite DEF Available
<1>3. CASE /\ InState(r2, "confirmed") \subseteq InState(r1, "confirmed")
           /\ Reserved(inv2, now) \subseteq Reserved(inv1, now) \cup {x}
  <2>1. Cardinality(Reserved(inv2, now)) <= Cardinality(Reserved(inv1, now)) + 1
    BY <1>1, <1>3, AtMostBoth, CountsFinite
  <2>2. Cardinality(InState(r2, "confirmed")) <= Cardinality(InState(r1, "confirmed"))
    BY <1>3, CountsFinite, FS_Subset
  <2>3. QED
    BY <2>1, <2>2, CountsFinite DEF Available
<1>4. QED
  BY <1>2, <1>3

\* A reservation exchanged for a seat takes none.
LEMMA Exchanged ==
    ASSUME NEW r1, NEW r2, NEW inv1, NEW inv2, NEW now, NEW cap \in Int, NEW x, NEW i,
           InState(r2, "confirmed") \subseteq InState(r1, "confirmed") \cup {x},
           i \in Reserved(inv1, now),
           Reserved(inv2, now) \subseteq Reserved(inv1, now) \ {i}
    PROVE  Available(r2, inv2, cap, now) >= Available(r1, inv1, cap, now)
<1>1. Cardinality(InState(r2, "confirmed")) <= Cardinality(InState(r1, "confirmed")) + 1
  BY AtMostBoth, CountsFinite, FS_Singleton
<1>2. /\ IsFiniteSet(Reserved(inv1, now) \ {i})
      /\ Cardinality(Reserved(inv1, now) \ {i}) = Cardinality(Reserved(inv1, now)) - 1
  BY CountsFinite, FS_RemoveElement
<1>3. Cardinality(Reserved(inv2, now)) <= Cardinality(Reserved(inv1, now)) - 1
  BY <1>2, FS_Subset
<1>4. QED
  BY <1>1, <1>3, CountsFinite DEF Available

\* The line never moves into more seats than are free.
LEMMA MoveUpFits ==
    ASSUME NEW r \in [Players -> RegStatuses], NEW ev, NEW inv, NEW cap \in Int,
           NEW mode \in JoinModes, NEW now,
           Available(r, inv, cap, now) >= 0,
           MoveUp(r, ev, inv, cap, mode, now)
    PROVE  Available(reg', inv, cap, now) >= 0
<1> DEFINE room == Room(r, inv, cap, mode, now)
<1>1. CASE room <= 0
  BY <1>1 DEF MoveUp
<1>2. CASE ~(room <= 0)
  <2>1. PICK S \in FirstInLine(Eligible(r), room) :
            reg' = [p \in Players |-> IF p \in S THEN SeatStatus(mode) ELSE r[p]]
    BY <1>2 DEF MoveUp
  <2>2. S \in SUBSET Players /\ Cardinality(S) <= room
    BY <2>1 DEF FirstInLine, Eligible, Waiting
  <2>3. IsFiniteSet(S) /\ Cardinality(S) \in Nat
    BY <2>2, FS_Subset, PlayersAssumption, FS_CardinalityType
  <2>4. CASE mode = "auto"
    <3>1. room = Available(r, inv, cap, now)
      BY <1>2, <2>4, CountsFinite DEF Room, Available
    <3>2. InState(reg', "confirmed") \subseteq InState(r, "confirmed") \cup S
      BY <2>1 DEF InState
    <3>3. Cardinality(InState(reg', "confirmed"))
              <= Cardinality(InState(r, "confirmed")) + Cardinality(S)
      BY <3>2, <2>3, AtMostBoth, CountsFinite
    <3>4. QED
      BY <3>1, <3>3, <2>2, <2>3, CountsFinite DEF Available
  <2>5. CASE mode # "auto"
    <3>1. InState(reg', "confirmed") \subseteq InState(r, "confirmed")
      BY <2>1, <2>5 DEF InState, SeatStatus
    <3>2. QED
      BY <3>1, FewerTaken
  <2>6. QED
    BY <2>4, <2>5
<1>3. QED
  BY <1>1, <1>2

-----------------------------------------------------------------------------
(* No overbooking.  It is not inductive: an approval counts the free seats   *)
(* when it locks the table and takes one later, so the invariant adds that   *)
(* the seat it counted is still free, which holds because whoever takes      *)
(* seats needs the lock the approval holds.                                  *)

MutualExclusion == \A c, d \in Clients : tx[c].holds /\ tx[d].holds => c = d
ApprovalHasSeat(c) == tx[c].op = "approve" => tx[c].holds /\ Available(reg, invites, capacity, clock) >= 1
ApprovalsHaveSeats == \A c \in Clients : ApprovalHasSeat(c)

IInv == Typed /\ MutualExclusion /\ ApprovalsHaveSeats /\ NoOverbooking

LEMMA CapacityType == ASSUME Typed PROVE capacity \in Int
BY CapacitiesAssumption DEF Typed, TypeOK

\* Nobody is approving while the table is free.
LEMMA FreeMeansNoApproval ==
    ASSUME IInv, TableFree
    PROVE  \A c \in Clients : tx[c].op # "approve"
BY DEF IInv, ApprovalsHaveSeats, ApprovalHasSeat, TableFree

\* A step that takes no seat, and starts no approval, keeps the counts.
LEMMA NothingTaken ==
    ASSUME IInv, capacity' = capacity,
           InState(reg', "confirmed") \subseteq InState(reg, "confirmed"),
           Reserved(invites', clock') \subseteq Reserved(invites, clock),
           \A c \in Clients : tx'[c].op = "approve" => tx'[c] = tx[c]
    PROVE  ApprovalsHaveSeats' /\ NoOverbooking'
<1>1. /\ Available(reg, invites, capacity, clock) \in Int
      /\ Available(reg', invites', capacity', clock') \in Int
      /\ Available(reg, invites, capacity, clock) <= Available(reg', invites', capacity', clock')
  BY FewerTaken, CapacityType DEF IInv
<1>2. Available(reg, invites, capacity, clock) >= 0
  BY DEF IInv, NoOverbooking
<1>3. QED
  BY <1>1, <1>2 DEF IInv, ApprovalsHaveSeats, ApprovalHasSeat, NoOverbooking

\* A step of whoever may use the lock of a free table need only leave enough seats.
LEMMA UnderTheLock ==
    ASSUME IInv, TableFree, Available(reg', invites', capacity', clock') >= 0,
           \A c \in Clients : tx'[c].op = "approve" => tx'[c] = tx[c]
    PROVE  ApprovalsHaveSeats' /\ NoOverbooking'
BY FreeMeansNoApproval DEF ApprovalsHaveSeats, ApprovalHasSeat, NoOverbooking

LEMMA FinishDrops ==
    ASSUME NEW inv \in [Invitations -> InviteRows], NEW I, NEW now,
           NEW answer \in InviteStatuses \ {"pending"}
    PROVE  Reserved(Finish(inv, I, answer), now) \subseteq Reserved(inv, now) \ I
BY DEF Reserved, Finish, InviteRows

\* A request that does not wait reads the clock the table is at.
LEMMA NoWait == ASSUME MaxWait = 0, Typed, NEW now \in Recent PROVE now = clock
BY TimeAssumption DEF Typed, TypeOK, Recent

\* An invitation is accepted, by the clock its answer read before it waited, that has run out by now.
LateAcceptance ==
    \E i \in Invitations, now \in Recent :
        /\ Answer(i, TRUE, now) = "accepted" /\ invites[i].expiresAt <= clock
        /\ respondToInvitation(i, TRUE, now)

LEMMA NobodyIsLate == ASSUME MaxWait = 0, Typed PROVE ~LateAcceptance
<1> SUFFICES ASSUME NEW i \in Invitations, NEW now \in Recent, Answer(i, TRUE, now) = "accepted",
                    invites[i].expiresAt <= clock
             PROVE  FALSE
  BY DEF LateAcceptance
<1>1. now = clock
  BY NoWait
<1>. QED
  BY <1>1 DEF Answer

\* A clock that is behind counts more reservations, and so no more seats, than there are.
LEMMA StaleCounts ==
    ASSUME Typed, NEW now \in Recent, NEW r, NEW inv, NEW cap \in Int,
           \A i \in Invitations : inv[i].expiresAt \in Nat
    PROVE  /\ Available(r, inv, cap, now) \in Int /\ Available(r, inv, cap, clock) \in Int
           /\ Available(r, inv, cap, now) <= Available(r, inv, cap, clock)
<1>1. now \in Nat /\ clock \in Nat /\ now <= clock
  BY TimeAssumption DEF Recent, Typed, TypeOK
<1>2. Reserved(inv, clock) \subseteq Reserved(inv, now)
  BY <1>1 DEF Reserved
<1>. QED
  BY <1>2, FewerTaken

\* The lock goes to one transaction at a time.
LEMMA NextExclusive == IInv /\ [Next]_vars => MutualExclusion'
<1> SUFFICES ASSUME IInv, [Next]_vars PROVE MutualExclusion'
  OBVIOUS
<1> USE DEF MutualExclusion
<1>1. MutualExclusion /\ tx \in [Clients -> TxStates]
  BY DEF IInv, Typed, TypeOK
<1>2. ASSUME NEW c \in Clients, NEW op, NEW step, NEW who, NEW saw, NEW holds \in BOOLEAN,
             Begin(c, op, step, who, saw, holds), holds => TableFree
      PROVE  MutualExclusion'
  BY <1>1, <1>2 DEF Begin, NoTx, TableFree
<1>3. ASSUME NEW c \in Clients, End(c)
      PROVE  MutualExclusion'
  BY <1>1, <1>3 DEF End, NoTx
<1>4. ASSUME UNCHANGED tx
      PROVE  MutualExclusion'
  BY <1>1, <1>4
<1>5. ASSUME NEW c \in Clients, Request(c)
      PROVE  MutualExclusion'
  <2>1. ASSUME NEW p \in Players, NEW op \in ClientKinds, ReadSeat(c, op, p)
        PROVE  MutualExclusion'
    BY <1>2, <2>1 DEF ReadSeat
  <2>2. ASSUME NEW p \in Players, ApproveLock(c, p) \/ BanLock(c, p)
        PROVE  MutualExclusion'
    BY <1>2, <2>2 DEF ApproveLock, BanLock
  <2>3. ASSUME UpdateRead(c)
        PROVE  MutualExclusion'
    BY <1>1, <2>3 DEF UpdateRead, NoTx
  <2>4. QED
    BY <1>5, <2>1, <2>2, <2>3 DEF Request
<1>6. ASSUME NEW c \in Clients, Proceed(c)
      PROVE  MutualExclusion'
  <2>1. ASSUME DeleteSeat(c) \/ BanRead(c)
        PROVE  MutualExclusion'
    <3>1. \A d \in Clients : tx'[d].holds = tx[d].holds
      BY <1>1, <2>1 DEF DeleteSeat, BanRead, TxStates
    <3>2. QED
      BY <1>1, <3>1
  <2>2. CASE ~(DeleteSeat(c) \/ BanRead(c))
    BY <1>3, <1>6, <2>2 DEF Proceed, WithdrawRequest, ApproveWrite, BanWrite, GiveUpSeat, UpdateWrite
  <2>3. QED
    BY <2>1, <2>2
<1>7. ASSUME NEW c \in Clients, Abort(c)
      PROVE  MutualExclusion'
  BY <1>3, <1>7 DEF Abort
<1>8. ASSUME Tick \/ Attendance \/ Invitation \/ UNCHANGED vars
      PROVE  MutualExclusion'
  BY <1>4, <1>8
     DEF Tick, Attendance, Invitation, vars, joinTable, joinWaitlist, leaveWaitlist, OptOut, OptIn,
         LiftBan, closeTable, invitePlayer, respondToInvitation, cancelInvitation, SweepOne,
         SweepRead, SweepStops
<1>9. QED
  BY <1>5, <1>6, <1>7, <1>8 DEF Next

LEMMA InitIInv == Init => IInv
<1> SUFFICES ASSUME Init PROVE IInv
  OBVIOUS
<1>1. Typed
  BY InitTyped
<1>2. MutualExclusion /\ ApprovalsHaveSeats
  BY DEF Init, MutualExclusion, ApprovalsHaveSeats, ApprovalHasSeat, NoTx
<1>3. InState(reg, "confirmed") = {} /\ Reserved(invites, clock) = {}
  BY DEF Init, InState, Reserved, NoInvitation
<1>4. NoOverbooking
  <2>1. Cardinality({}) = 0
    BY FS_EmptySet
  <2>2. Available(reg, invites, capacity, clock) = capacity - 0 - 0
    BY <1>3, <2>1 DEF Available
  <2>3. QED
    BY <2>2, CapacitiesAssumption DEF Init, NoOverbooking
<1>5. QED
  BY <1>1, <1>2, <1>4 DEF IInv

\* The counts, one step per operation: the ones that take a seat hold the lock of the table (or,
\* the approval, took it before it counted); all the others take none.
LEMMA NextCounts ==
    ASSUME IInv, [Next]_vars, [~LateAcceptance]_vars
    PROVE  ApprovalsHaveSeats' /\ NoOverbooking'
<1> USE DEF table, profiles
<1> DEFINE Counts == ApprovalsHaveSeats /\ NoOverbooking
<1>0. /\ Typed /\ capacity \in Int /\ Available(reg, invites, capacity, clock) \in Int
      /\ Available(reg, invites, capacity, clock) >= 0
      /\ invites \in [Invitations -> InviteRows]
      /\ \A i \in Invitations : invites[i].expiresAt \in Nat
  BY CapacityType, FewerTaken DEF IInv, NoOverbooking, Typed, TypeOK, InviteRows, NoInvitation
<1>1. ASSUME NEW p \in Players, NEW now \in Recent, joinTable(p, now)
      PROVE  Counts'
  <2>1. Available(reg, invites, capacity, clock) > 0
    <3>1. Available(reg, invites, capacity, now) > 0
      BY <1>1 DEF joinTable
    <3>. QED
      BY <1>0, <3>1, StaleCounts
  <2>2. InState(reg', "confirmed") \subseteq InState(reg, "confirmed") \cup {p}
    BY <1>0, <1>1 DEF joinTable, InState, Typed, TypeOK
  <2>3. Available(reg', invites, capacity, clock) >= Available(reg, invites, capacity, clock) - 1
    BY <1>0, <2>2, OneMoreTaken
  <2>4. Available(reg', invites', capacity', clock') >= 0
    BY <1>0, <1>1, <2>1, <2>3, FewerTaken DEF joinTable
  <2>5. QED
    BY <1>1, <2>4, UnderTheLock DEF joinTable
<1>2. ASSUME NEW i \in Invitations, NEW p \in Players, NEW now \in Recent, invitePlayer(i, p, now)
      PROVE  Counts'
  <2> DEFINE expired == Finish(invites, RowsOf(p), "expired")
  <2>1. Available(reg, expired, capacity, clock) >= 1
    <3>1. \A j \in Invitations : expired[j].expiresAt \in Nat
      BY <1>0 DEF Finish, InviteRows, NoInvitation
    <3>2. Available(reg, expired, capacity, now) >= 1
      BY <1>2 DEF invitePlayer
    <3> HIDE DEF expired
    <3>. QED
      BY <1>0, <3>1, <3>2, StaleCounts
  <2>2. Reserved(invites', clock) \subseteq Reserved(expired, clock) \cup {i}
    BY <1>2 DEF invitePlayer, Reserved, Finish
  <2>3. /\ Available(reg, invites', capacity, clock) >= Available(reg, expired, capacity, clock) - 1
        /\ Available(reg, expired, capacity, clock) \in Int
        /\ Available(reg, invites', capacity, clock) \in Int
    BY <1>0, <2>2, OneMoreTaken, FewerTaken
  <2>4. Available(reg', invites', capacity', clock') >= 0
    BY <1>2, <2>1, <2>3 DEF invitePlayer
  <2>5. QED
    BY <1>2, <2>4, UnderTheLock DEF invitePlayer
<1>3. ASSUME NEW i \in Invitations, NEW accept \in BOOLEAN, NEW now \in Recent,
             respondToInvitation(i, accept, now)
      PROVE  Counts'
  <2> DEFINE p == invites[i].player
             answer == Answer(i, accept, now)
  <2>1. answer \in InviteStatuses \ {"pending"}
    BY DEF Answer, InviteStatuses
  <2>2. Reserved(invites', clock) \subseteq Reserved(invites, clock) \ {i}
    BY <1>0, <1>3, <2>1, FinishDrops DEF respondToInvitation
  <2>3. CASE answer = "accepted"
    <3>1. i \in Reserved(invites, clock)
      <4>1. invites[i].status = "pending" /\ accept
        BY <1>3, <2>3 DEF respondToInvitation, Answer
      <4>2. ~UNCHANGED vars
        <5>1. invites'[i].status = "accepted"
          BY <1>0, <1>3, <2>3, <4>1 DEF respondToInvitation, Finish, InviteRows, NoInvitation
        <5>. QED
          BY <4>1, <5>1 DEF vars
      <4>3. ~LateAcceptance
        BY <4>2
      <4>4. ~(invites[i].expiresAt <= clock)
        BY <1>3, <2>3, <4>1, <4>3 DEF LateAcceptance
      <4>. QED
        BY <1>0, <4>1, <4>4 DEF Reserved, Typed, TypeOK
    <3>2. InState(reg', "confirmed") \subseteq InState(reg, "confirmed") \cup {p}
      BY <1>0, <1>3, <2>3 DEF respondToInvitation, InState, Typed, TypeOK
    <3>3. /\ Available(reg', invites', capacity, clock) >= Available(reg, invites, capacity, clock)
          /\ Available(reg', invites', capacity, clock) \in Int
      BY <1>0, <2>2, <3>1, <3>2, Exchanged, FewerTaken
    <3>4. QED
      BY <1>0, <1>3, <3>3, UnderTheLock DEF respondToInvitation
  <2>4. CASE answer # "accepted"
    BY <1>3, <2>2, <2>4, NothingTaken DEF respondToInvitation
  <2>5. QED
    BY <2>3, <2>4
<1>4. ASSUME NEW i \in Invitations, cancelInvitation(i) \/ SweepOne(i)
      PROVE  Counts'
  <2>1. Reserved(invites', clock) \subseteq Reserved(invites, clock)
    BY <1>0, <1>4, FinishDrops DEF cancelInvitation, SweepOne, InviteStatuses
  <2>2. QED
    BY <1>4, <2>1, NothingTaken DEF cancelInvitation, SweepOne
<1>5. ASSUME NEW p \in Players, OptOut(p)
      PROVE  Counts'
  <2>1. Reserved(invites', clock) \subseteq Reserved(invites, clock)
    BY <1>0, <1>5, FinishDrops DEF OptOut, InviteStatuses
  <2>2. QED
    BY <1>5, <2>1, NothingTaken DEF OptOut
<1>6. ASSUME closeTable
      PROVE  Counts'
  <2>1. Reserved(invites', clock) \subseteq Reserved(invites, clock)
    BY <1>0, <1>6, FinishDrops DEF closeTable, InviteStatuses
  <2>2. InState(reg', "confirmed") \subseteq InState(reg, "confirmed")
    BY <1>6 DEF closeTable, InState
  <2>3. QED
    BY <1>6, <2>1, <2>2, NothingTaken DEF closeTable
<1>7. ASSUME Tick
      PROVE  Counts'
  <2>1. \A i \in Invitations : invites[i].expiresAt \in Nat
    BY <1>0 DEF InviteRows, NoInvitation
  <2>2. Reserved(invites', clock') \subseteq Reserved(invites, clock)
    BY <1>0, <1>7, <2>1 DEF Tick, Reserved, Typed, TypeOK
  <2>3. QED
    BY <1>7, <2>2, NothingTaken DEF Tick
<1>8. ASSUME \/ \E p \in Players, now \in Recent : joinWaitlist(p, now)
             \/ \E p \in Players : leaveWaitlist(p) \/ OptIn(p) \/ LiftBan(p)
             \/ SweepRead \/ SweepStops
      PROVE  Counts'
  <2>1. UNCHANGED <<reg, invites, capacity, clock, tx>>
    BY <1>8 DEF joinWaitlist, leaveWaitlist, OptIn, LiftBan, SweepRead, SweepStops
  <2>2. QED
    BY <2>1, NothingTaken
<1>9. ASSUME NEW c \in Clients, NEW p \in Players, NEW op \in ClientKinds \ {"approve"},
             NEW step, NEW saw, NEW holds, Begin(c, op, step, p, saw, holds),
             UNCHANGED <<reg, invites, capacity, clock>>
      PROVE  Counts'
  <2>1. \A d \in Clients : tx'[d].op = "approve" => tx'[d] = tx[d]
    BY <1>0, <1>9 DEF Begin, NoTx, Typed, TypeOK
  <2>2. QED
    BY <1>9, <2>1, NothingTaken
<1>10. ASSUME NEW c \in Clients, NEW p \in Players, ApproveLock(c, p)
       PROVE  Counts'
  <2>1. \A d \in Clients : d # c => tx'[d] = tx[d]
    BY <1>0, <1>10 DEF ApproveLock, Begin, Typed, TypeOK
  <2>2. tx'[c].holds
    BY <1>0, <1>10 DEF ApproveLock, Begin, NoTx, Typed, TypeOK
  <2>3. \A d \in Clients : d # c => tx[d].op # "approve"
    BY <1>10, FreeMeansNoApproval DEF ApproveLock
  <2>4. Available(reg', invites', capacity', clock') >= 1
    BY <1>10 DEF ApproveLock
  <2>5. QED
    BY <1>0, <1>10, <2>1, <2>2, <2>3, <2>4
       DEF ApproveLock, ApprovalsHaveSeats, ApprovalHasSeat, NoOverbooking
<1>11. ASSUME NEW c \in Clients, UpdateRead(c)
       PROVE  Counts'
  <2>1. \A d \in Clients : tx'[d].op = "approve" => tx'[d] = tx[d]
    BY <1>0, <1>11 DEF UpdateRead, NoTx, Typed, TypeOK
  <2>2. QED
    BY <1>11, <2>1, NothingTaken DEF UpdateRead
<1>12. ASSUME NEW c \in Clients, End(c)
       PROVE  \A d \in Clients : tx'[d].op = "approve" => tx'[d] = tx[d]
  BY <1>0, <1>12 DEF End, NoTx, Typed, TypeOK
<1>13. ASSUME NEW c \in Clients, WithdrawRequest(c) \/ Abort(c)
       PROVE  Counts'
  <2>1. InState(reg', "confirmed") \subseteq InState(reg, "confirmed")
    BY <1>0, <1>13 DEF WithdrawRequest, Abort, InState, Typed, TypeOK
  <2>2. QED
    BY <1>12, <1>13, <2>1, NothingTaken DEF WithdrawRequest, Abort
<1>14. ASSUME NEW c \in Clients, BanWrite(c)
       PROVE  Counts'
  <2>1. InState(reg', "confirmed") \subseteq InState(reg, "confirmed")
    BY <1>0, <1>14 DEF BanWrite, InState, Typed, TypeOK
  <2>2. Reserved(invites', clock) \subseteq Reserved(invites, clock)
    BY <1>0, <1>14, FinishDrops DEF BanWrite, InviteStatuses
  <2>3. QED
    BY <1>12, <1>14, <2>1, <2>2, NothingTaken DEF BanWrite
<1>15. ASSUME NEW c \in Clients, DeleteSeat(c) \/ BanRead(c)
       PROVE  Counts'
  <2>1. \A d \in Clients : tx'[d].op = "approve" => tx'[d] = tx[d]
    BY <1>0, <1>15 DEF DeleteSeat, BanRead, GivesUpSeat, Step, Typed, TypeOK, TxStates
  <2>2. QED
    BY <1>15, <2>1, NothingTaken DEF DeleteSeat, BanRead
<1>16. ASSUME NEW c \in Clients, ApproveWrite(c)
       PROVE  Counts'
  <2> DEFINE p == tx[c].who
  <2>1. tx[c].holds /\ Available(reg, invites, capacity, clock) >= 1
    BY <1>16 DEF ApproveWrite, Step, IInv, ApprovalsHaveSeats, ApprovalHasSeat
  <2>2. \A d \in Clients : d # c => tx[d].op # "approve"
    BY <2>1 DEF IInv, MutualExclusion, ApprovalsHaveSeats, ApprovalHasSeat
  <2>3. \A d \in Clients : tx'[d].op # "approve"
    BY <1>0, <1>16, <2>2 DEF ApproveWrite, End, NoTx, Typed, TypeOK
  <2>4. InState(reg', "confirmed") \subseteq InState(reg, "confirmed") \cup {p}
    BY <1>0, <1>16 DEF ApproveWrite, InState, Typed, TypeOK
  <2>5. /\ Available(reg', invites, capacity, clock) >= Available(reg, invites, capacity, clock) - 1
        /\ Available(reg', invites, capacity, clock) \in Int
    BY <1>0, <2>4, OneMoreTaken, FewerTaken
  <2>6. Available(reg', invites', capacity', clock') >= 0
    BY <1>0, <1>16, <2>1, <2>5 DEF ApproveWrite
  <2>7. QED
    BY <2>3, <2>6 DEF ApprovalsHaveSeats, ApprovalHasSeat, NoOverbooking
<1>17. ASSUME NEW c \in Clients, NEW now \in Recent, GiveUpSeat(c, now)
       PROVE  Counts'
  <2>1. /\ Available(Emptied(c), invites, capacity, now) \in Int
        /\ \A r : Available(r, invites, capacity, now) <= Available(r, invites, capacity, clock)
        /\ \A r : Available(r, invites, capacity, now) \in Int
        /\ \A r : Available(r, invites, capacity, clock) \in Int
    BY <1>0, StaleCounts
  <2>2. Emptied(c) \in [Players -> RegStatuses]
    BY <1>0 DEF Emptied, RegStatuses, Typed, TypeOK
  <2>3. InState(Emptied(c), "confirmed") \subseteq InState(reg, "confirmed")
    BY <1>0 DEF Emptied, InState, Typed, TypeOK
  <2>4. Available(Emptied(c), invites, capacity, clock) >= 0
    <3>1. /\ Available(reg, invites, capacity, clock) <= Available(Emptied(c), invites, capacity, clock)
          /\ Available(Emptied(c), invites, capacity, clock) \in Int
      BY <1>0, <2>3, FewerTaken
    <3>2. QED
      BY <1>0, <3>1
  <2>5. Available(reg', invites, capacity, clock) >= 0
    <3>1. MoveUp(Emptied(c), Told(c), invites, capacity, joinMode, now) /\ joinMode \in JoinModes
      BY <1>0, <1>17 DEF GiveUpSeat, Typed, TypeOK
    <3>2. CASE Room(Emptied(c), invites, capacity, joinMode, now) <= 0
      BY <2>4, <3>1, <3>2 DEF MoveUp
    <3>3. CASE Available(Emptied(c), invites, capacity, now) >= 0
      <4>1. Available(reg', invites, capacity, now) >= 0
        BY <1>0, <2>2, <3>1, <3>3, MoveUpFits
      <4>. QED
        BY <2>1, <4>1
    <3>4. Available(Emptied(c), invites, capacity, now) < 0
          => Room(Emptied(c), invites, capacity, joinMode, now) <= 0
      BY <2>1, CountsFinite DEF Room
    <3>. QED
      BY <2>1, <3>2, <3>3, <3>4
  <2>6. QED
    BY <1>12, <1>17, <2>5, UnderTheLock DEF GiveUpSeat
<1>18. ASSUME NEW c \in Clients, NEW cap \in Capacities, NEW mode \in JoinModes,
              NEW consent \in BOOLEAN, UpdateWrite(c, cap, mode, consent)
       PROVE  Counts'
  <2> DEFINE inv == IF consent THEN Finish(invites, Invitations, "cancelled") ELSE invites
  <2>1. cap \in Int
    BY CapacitiesAssumption
  <2>2. Reserved(inv, clock) \subseteq Reserved(invites, clock)
    BY <1>0, FinishDrops DEF InviteStatuses
  <2>3. Available(reg, inv, cap, clock) >= 0
    <3>1. /\ Available(reg, invites, cap, clock) <= Available(reg, inv, cap, clock)
          /\ Available(reg, invites, cap, clock) \in Int /\ Available(reg, inv, cap, clock) \in Int
      BY <2>1, <2>2, FewerTaken
    <3>2. Available(reg, invites, cap, clock) >= 0
      BY <1>18 DEF UpdateWrite
    <3>3. QED
      BY <3>1, <3>2
  <2>4. Available(reg', inv, cap, clock) >= 0
    <3>1. CASE MoveUp(reg, ledger, inv, cap, mode, clock)
      BY <1>0, <2>1, <2>3, <3>1, MoveUpFits DEF Typed, TypeOK
    <3>2. CASE UNCHANGED reg
      BY <2>3, <3>2
    <3>3. QED
      BY <1>18, <3>1, <3>2 DEF UpdateWrite
  <2>5. QED
    BY <1>12, <1>18, <2>4, UnderTheLock DEF UpdateWrite
<1>19. CASE UNCHANGED vars
  BY <1>19, NothingTaken DEF vars
<1>20. ASSUME NEW c \in Clients, Request(c)
       PROVE  Counts'
  <2>1. ASSUME NEW p \in Players, NEW op \in ClientKinds, ReadSeat(c, op, p)
        PROVE  Counts'
    BY <1>9, <2>1 DEF ReadSeat
  <2>2. ASSUME NEW p \in Players, BanLock(c, p)
        PROVE  Counts'
    BY <1>9, <2>2 DEF BanLock, ClientKinds
  <2>3. QED
    BY <1>10, <1>11, <1>20, <2>1, <2>2 DEF Request
<1>21. ASSUME NEW c \in Clients, Proceed(c)
       PROVE  Counts'
  BY <1>13, <1>14, <1>15, <1>16, <1>17, <1>18, <1>21 DEF Proceed
<1>22. ASSUME Attendance
       PROVE  Counts'
  BY <1>1, <1>5, <1>6, <1>8, <1>22 DEF Attendance
<1>23. ASSUME Invitation
       PROVE  Counts'
  BY <1>2, <1>3, <1>4, <1>8, <1>23 DEF Invitation
<1>24. QED
  BY <1>7, <1>13, <1>19, <1>20, <1>21, <1>22, <1>23 DEF Next

LEMMA NextIInv == IInv /\ [Next]_vars /\ [~LateAcceptance]_vars => IInv'
<1> SUFFICES ASSUME IInv, [Next]_vars, [~LateAcceptance]_vars PROVE IInv'
  OBVIOUS
<1>1. Typed'
  BY NextTyped DEF IInv
<1>2. MutualExclusion'
  BY NextExclusive
<1>3. ApprovalsHaveSeats' /\ NoOverbooking'
  BY NextCounts
<1>. QED
  BY <1>1, <1>2, <1>3 DEF IInv

LEMMA InductiveIInv == ASSUME MaxWait = 0 PROVE Spec => []IInv
<1>1. IInv => ~LateAcceptance
  BY NobodyIsLate DEF IInv
<1>2. IInv /\ [Next]_vars => IInv'
  BY <1>1, NextIInv
<1>. QED
  BY <1>2, InitIInv, PTL DEF Spec

\* However long requests wait for their locks, with the clock they read before: seats are given out
\* past the capacity only by the acceptance of an invitation that ran out while its answer waited.
THEOREM OnlyLateAcceptancesOverbook == Spec /\ [][~LateAcceptance]_vars => []NoOverbooking
<1>1. IInv => NoOverbooking
  BY DEF IInv
<1>. QED
  BY <1>1, InitIInv, NextIInv, PTL DEF Spec

\* However many requests run at once, the seats given out never exceed the capacity: it needs only
\* that no request waits for its lock so long that the clock it read before is out of date.
THEOREM NeverOverbooked == ASSUME MaxWait = 0 PROVE Spec => []NoOverbooking
<1>1. IInv => NoOverbooking
  BY DEF IInv
<1>2. QED
  BY <1>1, InductiveIInv, PTL

-----------------------------------------------------------------------------
(* What a step may never do. *)

LEMMA FinishKeeps ==
    ASSUME NEW inv \in [Invitations -> InviteRows], NEW I, NEW answer, NEW i \in Invitations,
           inv[i].status # "pending"
    PROVE  Finish(inv, I, answer)[i] = inv[i]
BY DEF Finish

\* No operation, and no sweep that read the invitation while it was pending, changes the answer
\* an invitation was given.
THEOREM AnswersNeverChange == Spec => AnswersAreFinal
<1> DEFINE Kept == \A i \in Invitations :
                       invites[i].status \notin {"none", "pending"} => invites'[i] = invites[i]
<1>1. ASSUME Typed, [Next]_vars
      PROVE  Kept
  <2> USE DEF table, profiles
  <2>0. invites \in [Invitations -> InviteRows]
    BY <1>1 DEF Typed, TypeOK
  <2>1. ASSUME NEW I, NEW answer, invites' = Finish(invites, I, answer)
        PROVE  Kept
    BY <2>0, <2>1, FinishKeeps
  <2>2. ASSUME UNCHANGED invites
        PROVE  Kept
    BY <2>2
  <2>3. ASSUME NEW i \in Invitations, NEW p \in Players, NEW now \in Recent, invitePlayer(i, p, now)
        PROVE  Kept
    <3>1. \A j \in Invitations : j # i => invites'[j] = Finish(invites, RowsOf(p), "expired")[j]
      BY <2>3 DEF invitePlayer, Finish
    <3>2. invites[i].status = "none"
      BY <2>3 DEF invitePlayer
    <3>3. QED
      BY <2>0, <3>1, <3>2, FinishKeeps
  <2>4. ASSUME Invitation
        PROVE  Kept
    BY <2>1, <2>2, <2>3, <2>4
       DEF Invitation, respondToInvitation, cancelInvitation, SweepOne, SweepRead, SweepStops
  <2>5. ASSUME Attendance
        PROVE  Kept
    BY <2>1, <2>2, <2>5
       DEF Attendance, joinTable, joinWaitlist, leaveWaitlist, OptOut, OptIn, LiftBan, closeTable
  <2>6. ASSUME NEW c \in Clients, Request(c) \/ Abort(c)
        PROVE  Kept
    BY <2>2, <2>6 DEF Request, Abort, ReadSeat, ApproveLock, BanLock, UpdateRead
  <2>7. ASSUME NEW c \in Clients, Proceed(c)
        PROVE  Kept
    BY <2>1, <2>2, <2>7
       DEF Proceed, WithdrawRequest, DeleteSeat, ApproveWrite, BanRead, BanWrite, GiveUpSeat,
           UpdateWrite
  <2>8. QED
    BY <1>1, <2>2, <2>4, <2>5, <2>6, <2>7 DEF Next, Tick, vars
<1>2. Typed /\ [Next]_vars => [Kept]_vars
  BY <1>1
<1>3. QED
  BY <1>2, TypeCorrect, PTL DEF Spec, AnswersAreFinal

\* A player who is suspended, and has no request in flight, gets no seat.
THEOREM SuspendedStayOut == Spec => SuspendedGetNothing
<1> DEFINE Out == \A p \in suspended \ inFlight : reg[p] = "none" => reg'[p] = "none"
<1>1. ASSUME Typed, [Next]_vars
      PROVE  Out
  <2> USE DEF table, profiles
  <2>0. reg \in [Players -> RegStatuses] /\ suspended \subseteq Players
    BY <1>1 DEF Typed, TypeOK
  <2>1. ASSUME UNCHANGED reg
        PROVE  Out
    BY <2>1
  <2>2. ASSUME NEW r, NEW ev, NEW inv, NEW cap, NEW mode, NEW now,
               \A p \in Players : reg[p] = "none" => r[p] = "none",
               MoveUp(r, ev, inv, cap, mode, now)
        PROVE  Out
    <3> DEFINE room == Room(r, inv, cap, mode, now)
    <3>1. CASE room <= 0
      BY <2>0, <2>2, <3>1 DEF MoveUp
    <3>2. CASE ~(room <= 0)
      <4>1. PICK S \in FirstInLine(Eligible(r), room) :
                reg' = [p \in Players |-> IF p \in S THEN SeatStatus(mode) ELSE r[p]]
        BY <2>2, <3>2 DEF MoveUp
      <4>2. \A p \in S : p \notin suspended
        BY <4>1 DEF FirstInLine, Eligible
      <4>3. QED
        BY <2>0, <2>2, <4>1, <4>2
    <3>3. QED
      BY <3>1, <3>2
  <2>3. ASSUME NEW p \in Players, NEW now \in Recent, joinTable(p, now)
        PROVE  Out
    BY <2>0, <2>3 DEF joinTable, ActsAs
  <2>4. ASSUME NEW i \in Invitations, NEW accept \in BOOLEAN, NEW now \in Recent,
               respondToInvitation(i, accept, now)
        PROVE  Out
    BY <2>0, <2>4 DEF respondToInvitation, ActsAs
  <2>5. ASSUME Invitation
        PROVE  Out
    BY <2>1, <2>4, <2>5
       DEF Invitation, invitePlayer, cancelInvitation, SweepOne, SweepRead, SweepStops
  <2>6. ASSUME Attendance
        PROVE  Out
    <3>1. CASE closeTable
      BY <2>0, <3>1 DEF closeTable
    <3>2. CASE ~closeTable
      BY <2>1, <2>3, <2>6, <3>2 DEF Attendance, joinWaitlist, leaveWaitlist, OptOut, OptIn, LiftBan
    <3>3. QED
      BY <3>1, <3>2
  <2>7. ASSUME NEW c \in Clients, Request(c) \/ Abort(c)
        PROVE  Out
    BY <2>1, <2>7 DEF Request, Abort, ReadSeat, ApproveLock, BanLock, UpdateRead
  <2>8. ASSUME NEW c \in Clients, NEW now \in Recent, GiveUpSeat(c, now)
        PROVE  Out
    <3>1. \A p \in Players : reg[p] = "none" => Emptied(c)[p] = "none"
      BY <2>0 DEF Emptied
    <3>2. QED
      BY <2>2, <2>8, <3>1 DEF GiveUpSeat
  <2>9. ASSUME NEW c \in Clients, NEW cap \in Capacities, NEW mode \in JoinModes,
               NEW consent \in BOOLEAN, UpdateWrite(c, cap, mode, consent)
        PROVE  Out
    BY <2>1, <2>2, <2>9 DEF UpdateWrite
  <2>10. ASSUME NEW c \in Clients,
                \/ WithdrawRequest(c) \/ DeleteSeat(c) \/ ApproveWrite(c) \/ BanRead(c) \/ BanWrite(c)
         PROVE  Out
    BY <2>0, <2>10 DEF WithdrawRequest, DeleteSeat, ApproveWrite, BanRead, BanWrite
  <2>11. QED
    BY <1>1, <2>1, <2>5, <2>6, <2>7, <2>8, <2>9, <2>10 DEF Next, Proceed, Tick, vars
<1>2. Typed /\ [Next]_vars => [Out]_vars
  BY <1>1
<1>3. QED
  BY <1>2, TypeCorrect, PTL DEF Spec, SuspendedGetNothing
-----------------------------------------------------------------------------
(* The ledger, whatever runs at once: what misleads it.                      *)

Tells(r, ev) == \A p \in Players : r[p] = "confirmed" <=> ev[p] = "seated"

\* The line moves up in the registrations and the ledger alike.
LEMMA MoveUpTells ==
    ASSUME NEW r \in [Players -> RegStatuses], NEW ev \in [Players -> {"seated", "unseated"}],
           NEW inv, NEW cap, NEW mode, NEW now, Tells(r, ev), MoveUp(r, ev, inv, cap, mode, now)
    PROVE  LedgerTellsSeats'
<1> DEFINE room == Room(r, inv, cap, mode, now)
<1>1. CASE room <= 0
  BY <1>1 DEF MoveUp, Tells, LedgerTellsSeats
<1>2. CASE ~(room <= 0)
  <2>1. PICK S \in FirstInLine(Eligible(r), room) :
            /\ reg' = [p \in Players |-> IF p \in S THEN SeatStatus(mode) ELSE r[p]]
            /\ ledger' = [p \in Players |-> IF p \in S /\ mode = "auto" THEN "seated" ELSE ev[p]]
    BY <1>2 DEF MoveUp
  <2>2. \A p \in S : p \in Players /\ r[p] = "none"
    BY <2>1 DEF FirstInLine, Eligible, Waiting
  <2>3. QED
    BY <2>1, <2>2 DEF SeatStatus, Tells, LedgerTellsSeats
<1>3. QED
  BY <1>1, <1>2

\* What a transaction takes the registration to be when it writes: what it read, or, once it has
\* found no row to delete, none.
Expected(c) == IF tx[c].step = "missed" THEN "none" ELSE tx[c].saw

\* A transaction writes about a registration that has changed since.
StaleWrite ==
    \E c \in Clients :
        /\ WithdrawRequest(c) \/ ApproveWrite(c) \/ \E now \in Recent : GiveUpSeat(c, now)
        /\ reg[tx[c].who] # Expected(c)

\* What a transaction that goes on has read.
HasRead(c) ==
    /\ tx[c].op \in {"leave", "decline", "remove"} => Accepts(tx[c].op, tx[c].saw)
    /\ tx[c].op = "approve" => tx[c].saw = "pending"
    /\ tx[c].step \in {"deleted", "missed"} => GivesUpSeat(c)

AllHaveRead == \A c \in Clients : HasRead(c)

LEMMA IdleHasRead == ASSUME NEW c \in Clients, tx'[c] = NoTx PROVE HasRead(c)'
BY DEF HasRead, NoTx, GivesUpSeat

\* Only the transaction that takes the step changes.
LEMMA OthersHaveRead ==
    ASSUME Typed, AllHaveRead, NEW c \in Clients, NEW t, tx' = [tx EXCEPT ![c] = t], HasRead(c)'
    PROVE  AllHaveRead'
<1>1. ASSUME NEW d \in Clients, d # c PROVE HasRead(d)'
  <2>1. tx'[d] = tx[d]
    BY <1>1 DEF Typed, TypeOK
  <2>2. HasRead(d)
    BY DEF AllHaveRead
  <2>3. QED
    BY <2>1, <2>2 DEF HasRead, GivesUpSeat
<1>2. QED
  BY <1>1 DEF AllHaveRead

LEMMA NextHasRead == Typed /\ AllHaveRead /\ [Next]_vars => AllHaveRead'
<1> SUFFICES ASSUME Typed, AllHaveRead, [Next]_vars PROVE AllHaveRead'
  OBVIOUS
<1>1. CASE UNCHANGED tx
  BY <1>1 DEF AllHaveRead, HasRead, GivesUpSeat
<1>2. ASSUME NEW c \in Clients, End(c) PROVE AllHaveRead'
  <2>1. tx'[c] = NoTx
    BY <1>2 DEF End, Typed, TypeOK
  <2>2. QED
    BY <1>2, <2>1, IdleHasRead, OthersHaveRead DEF End
<1>3. ASSUME NEW c \in Clients, NEW op, NEW step \in {"read", "locked", "begun"}, NEW p, NEW saw,
             NEW holds, Begin(c, op, step, p, saw, holds),
             op \in {"leave", "decline", "remove"} => Accepts(op, saw),
             op = "approve" => saw = "pending"
      PROVE  AllHaveRead'
  <2>1. tx'[c].op = op /\ tx'[c].step = step /\ tx'[c].saw = saw
    BY <1>3 DEF Begin, NoTx, Typed, TypeOK
  <2>2. HasRead(c)'
    BY <1>3, <2>1 DEF HasRead
  <2>3. QED
    BY <1>3, <2>2, OthersHaveRead DEF Begin
<1>4. ASSUME NEW c \in Clients, Request(c) PROVE AllHaveRead'
  <2>1. ASSUME NEW p \in Players, NEW op \in ClientKinds, ReadSeat(c, op, p) PROVE AllHaveRead'
    BY <1>3, <2>1 DEF ReadSeat
  <2>2. ASSUME NEW p \in Players, ApproveLock(c, p) \/ BanLock(c, p) PROVE AllHaveRead'
    BY <1>3, <2>2 DEF ApproveLock, BanLock
  <2>3. ASSUME UpdateRead(c) PROVE AllHaveRead'
    <3>1. tx'[c].op = "update" /\ tx'[c].step = "read"
      BY <2>3 DEF UpdateRead, NoTx, Typed, TypeOK
    <3>2. HasRead(c)'
      BY <3>1 DEF HasRead
    <3>3. QED
      BY <2>3, <3>2, OthersHaveRead DEF UpdateRead
  <2>4. QED
    BY <1>4, <2>1, <2>2, <2>3 DEF Request
<1>5. ASSUME NEW c \in Clients, DeleteSeat(c) PROVE AllHaveRead'
  <2>1. PICK step \in {"missed", "deleted"} : tx' = [tx EXCEPT ![c].step = step]
    BY <1>5 DEF DeleteSeat
  <2>2. tx'[c].op = tx[c].op /\ tx'[c].saw = tx[c].saw /\ tx'[c].step = step
    BY <2>1 DEF Typed, TypeOK, TxStates
  <2>3. HasRead(c)'
    BY <1>5, <2>2 DEF AllHaveRead, HasRead, DeleteSeat, GivesUpSeat
  <2>4. QED
    BY <2>1, <2>3, OthersHaveRead
<1>6. ASSUME NEW c \in Clients, BanRead(c) PROVE AllHaveRead'
  <2>1. tx'[c].op = "ban" /\ tx'[c].step = "read"
    BY <1>6 DEF BanRead, Step, Typed, TypeOK, TxStates
  <2>2. HasRead(c)'
    BY <2>1 DEF HasRead
  <2>3. QED
    BY <1>6, <2>2, OthersHaveRead DEF BanRead
<1>7. ASSUME NEW c \in Clients, Proceed(c) PROVE AllHaveRead'
  BY <1>2, <1>5, <1>6, <1>7
     DEF Proceed, WithdrawRequest, ApproveWrite, BanWrite, GiveUpSeat, UpdateWrite
<1>8. ASSUME Attendance \/ Invitation \/ Tick \/ UNCHANGED vars PROVE UNCHANGED tx
  BY <1>8 DEF Attendance, joinTable, joinWaitlist, leaveWaitlist, OptOut, OptIn, LiftBan, closeTable,
              Invitation, invitePlayer, respondToInvitation, cancelInvitation, SweepOne, SweepRead,
              SweepStops, Tick, vars
<1>9. QED
  BY <1>1, <1>2, <1>4, <1>7, <1>8 DEF Next, Abort

\* One step of a transaction that writes about the registration it read.
LEMMA ProceedMisleadsNobody ==
    ASSUME Typed, AllHaveRead, LedgerTellsSeats, NEW c \in Clients, Proceed(c), ~StaleWrite
    PROVE  LedgerTellsSeats'
<1> USE DEF table, profiles
<1> DEFINE p == tx[c].who
<1>0. /\ reg \in [Players -> RegStatuses] /\ ledger \in [Players -> {"seated", "unseated"}]
      /\ tx[c] \in TxStates /\ HasRead(c)
      /\ tx[c].op \notin {"idle", "update"} => p \in Players
      /\ Tells(reg, ledger)
  BY DEF Typed, TypeOK, TxShape, AllHaveRead, Tells, LedgerTellsSeats
<1>1. CASE WithdrawRequest(c)
  <2>1. p \in Players /\ tx[c].step = "read" /\ tx[c].saw = "pending"
    BY <1>0, <1>1 DEF WithdrawRequest, Step, GivesUpSeat, HasRead, Accepts, TxStates, RegStatuses
  <2>2. reg[p] = "pending"
    BY <1>1, <2>1 DEF StaleWrite, Expected
  <2>3. QED
    BY <1>0, <1>1, <2>1, <2>2 DEF WithdrawRequest, LedgerTellsSeats, Tells
<1>2. CASE ApproveWrite(c)
  <2>1. p \in Players /\ tx[c].step = "locked" /\ tx[c].saw = "pending"
    BY <1>0, <1>2 DEF ApproveWrite, Step, HasRead
  <2>2. reg[p] = "pending"
    BY <1>2, <2>1 DEF StaleWrite, Expected
  <2>3. QED
    BY <1>0, <1>2, <2>1, <2>2 DEF ApproveWrite, LedgerTellsSeats, Tells
<1>3. ASSUME NEW now \in Recent, GiveUpSeat(c, now) PROVE LedgerTellsSeats'
  <2>1. tx[c].step \in {"deleted", "missed"} /\ tx[c].op \in {"leave", "decline", "remove"}
    BY <1>0, <1>3 DEF GiveUpSeat, HasRead, GivesUpSeat
  <2>2. p \in Players /\ (tx[c].op = "decline" => tx[c].saw = "pending")
    BY <1>0, <2>1 DEF HasRead, Accepts
  <2>3. reg[p] = Expected(c)
    BY <1>3 DEF StaleWrite
  <2>4. Tells(Emptied(c), Told(c))
    BY <1>0, <2>1, <2>2, <2>3 DEF Tells, Emptied, Told, Expected
  <2>5. /\ Emptied(c) \in [Players -> RegStatuses]
        /\ Told(c) \in [Players -> {"seated", "unseated"}]
    BY <1>0 DEF Emptied, Told, RegStatuses
  <2>6. QED
    BY <1>3, <2>4, <2>5, MoveUpTells DEF GiveUpSeat
<1>4. ASSUME NEW cap \in Capacities, NEW mode \in JoinModes, NEW consent \in BOOLEAN,
             UpdateWrite(c, cap, mode, consent)
      PROVE  LedgerTellsSeats'
  BY <1>0, <1>4, MoveUpTells DEF UpdateWrite, LedgerTellsSeats, Tells
<1>5. CASE DeleteSeat(c) \/ BanRead(c)
  BY <1>5 DEF DeleteSeat, BanRead, LedgerTellsSeats
<1>6. CASE BanWrite(c)
  BY <1>0, <1>6 DEF BanWrite, Step, LedgerTellsSeats, Tells
<1>7. QED
  BY <1>1, <1>2, <1>3, <1>4, <1>5, <1>6 DEF Proceed

LEMMA OnlyStaleMislead ==
    Typed /\ AllHaveRead /\ LedgerTellsSeats /\ [Next]_vars /\ [~StaleWrite]_vars => LedgerTellsSeats'
<1> SUFFICES ASSUME Typed, AllHaveRead, LedgerTellsSeats, [Next]_vars, [~StaleWrite]_vars
             PROVE  LedgerTellsSeats'
  OBVIOUS
<1>0. reg \in [Players -> RegStatuses] /\ ledger \in [Players -> {"seated", "unseated"}]
  BY DEF Typed, TypeOK
<1>1. CASE UNCHANGED <<reg, ledger>>
  BY <1>1 DEF LedgerTellsSeats
<1>2. ASSUME NEW p \in Players, NEW now \in Recent, joinTable(p, now) PROVE LedgerTellsSeats'
  BY <1>0, <1>2 DEF joinTable, MayAsk, SeatStatus, LedgerTellsSeats
<1>3. ASSUME NEW i \in Invitations, NEW accept \in BOOLEAN, NEW now \in Recent,
             respondToInvitation(i, accept, now)
      PROVE  LedgerTellsSeats'
  BY <1>0, <1>1, <1>3 DEF respondToInvitation, LedgerTellsSeats
<1>4. ASSUME closeTable PROVE LedgerTellsSeats'
  BY <1>0, <1>4 DEF closeTable, LedgerTellsSeats
<1>5. ASSUME Attendance \/ Invitation PROVE LedgerTellsSeats'
  BY <1>1, <1>2, <1>3, <1>4, <1>5
     DEF Attendance, joinWaitlist, leaveWaitlist, OptOut, OptIn, LiftBan,
         Invitation, invitePlayer, cancelInvitation, SweepOne, SweepRead, SweepStops
<1>6. ASSUME NEW c \in Clients, Request(c) \/ Abort(c) PROVE LedgerTellsSeats'
  BY <1>1, <1>6 DEF Request, ReadSeat, ApproveLock, BanLock, UpdateRead, Abort
<1>7. ASSUME Tick \/ UNCHANGED vars PROVE LedgerTellsSeats'
  BY <1>1, <1>7 DEF Tick, vars
<1>8. CASE UNCHANGED vars
  BY <1>7, <1>8
<1>9. ASSUME NEW c \in Clients, Proceed(c), ~UNCHANGED vars PROVE LedgerTellsSeats'
  BY <1>9, ProceedMisleadsNobody
<1>10. QED
  BY <1>5, <1>6, <1>7, <1>8, <1>9 DEF Next

\* However many transactions run at once, the recorded events say who has a seat as long as none
\* withdraws, approves or gives up a registration that has changed since it read it: every way in
\* which they mislead, the withdrawal that races an approval among them, is a write of that kind.
THEOREM OnlyStaleWritesMislead == Spec /\ [][~StaleWrite]_vars => []LedgerTellsSeats
<1>1. Init => LedgerTellsSeats /\ AllHaveRead
  BY DEF Init, LedgerTellsSeats, AllHaveRead, HasRead, NoTx
<1>2. Spec => []AllHaveRead
  BY <1>1, NextHasRead, TypeCorrect, PTL DEF Spec
<1>3. QED
  BY <1>1, <1>2, OnlyStaleMislead, TypeCorrect, PTL DEF Spec
-----------------------------------------------------------------------------
(* Whoever could take the seat that is given up has it.                      *)

LEMMA DisjointCount ==
    ASSUME NEW A, NEW B, IsFiniteSet(A), IsFiniteSet(B), A \cap B = {}
    PROVE  Cardinality(A \cup B) = Cardinality(A) + Cardinality(B)
<1>1. Cardinality(A \cap B) = 0
  BY FS_EmptySet
<1>2. Cardinality(A \cup B) = Cardinality(A) + Cardinality(B) - Cardinality(A \cap B)
  BY FS_Union
<1>3. Cardinality(A) \in Nat /\ Cardinality(B) \in Nat
  BY FS_CardinalityType
<1>4. QED
  BY <1>1, <1>2, <1>3

\* r with a seat, or a request, for each of S.
Seated(r, S, mode) == [p \in Players |-> IF p \in S THEN SeatStatus(mode) ELSE r[p]]

LEMMA RoomInt ==
    ASSUME NEW r, NEW inv, NEW cap \in Int, NEW mode, NEW now
    PROVE  Room(r, inv, cap, mode, now) \in Int
  BY CountsFinite DEF Room, Available

\* Each player who is let in takes one of the seats the line has room for: at tables that seat at
\* once a free seat, at tables that ask one not asked for yet.
LEMMA RoomLeft ==
    ASSUME NEW r \in [Players -> RegStatuses], NEW inv, NEW cap \in Int, NEW mode, NEW now,
           NEW S \in SUBSET Players, \A p \in S : r[p] = "none"
    PROVE  Room(r, inv, cap, mode, now) > 0 \/ S = {} =>
                Room(Seated(r, S, mode), inv, cap, mode, now)
                    = Room(r, inv, cap, mode, now) - Cardinality(S)
<1> DEFINE room == Room(r, inv, cap, mode, now)
           r2 == Seated(r, S, mode)
<1>1. /\ Cardinality(InState(r, "confirmed")) \in Nat /\ Cardinality(InState(r, "pending")) \in Nat
      /\ Cardinality(Reserved(inv, now)) \in Nat
  BY CountsFinite
<1>2. room \in Int
  BY RoomInt
<1>3. IsFiniteSet(S) /\ Cardinality(S) \in Nat
  BY FS_Subset, PlayersAssumption, FS_CardinalityType
<1>4. CASE S = {}
  <2>1. r2 = r /\ Cardinality(S) = 0
    BY <1>4, FS_EmptySet DEF Seated
  <2>. QED
    BY <1>2, <2>1
<1>5. CASE room > 0
  <2>1. status = "active" /\ ~Started(now)
    BY <1>5 DEF Room
  <2> DEFINE took == SeatStatus(mode)
             other == IF took = "confirmed" THEN "pending" ELSE "confirmed"
  <2>2. took \in {"pending", "confirmed"} /\ (took = "confirmed" <=> mode = "auto")
    BY DEF SeatStatus
  <2>3. InState(r2, took) = InState(r, took) \cup S /\ InState(r, took) \cap S = {}
    BY <2>2 DEF InState, Seated
  <2>4. InState(r2, other) = InState(r, other)
    BY <2>2 DEF InState, Seated
  <2>5. Cardinality(InState(r2, took)) = Cardinality(InState(r, took)) + Cardinality(S)
    BY <1>3, <2>3, DisjointCount, CountsFinite
  <2> HIDE DEF took, r2
  <2>6. CASE mode = "auto"
    <3>1. Cardinality(InState(r2, "confirmed"))
            = Cardinality(InState(r, "confirmed")) + Cardinality(S)
      BY <2>2, <2>5, <2>6
    <3>2. room = Available(r, inv, cap, now) /\ Room(r2, inv, cap, mode, now) = Available(r2, inv, cap, now)
      BY <1>1, <1>3, <2>1, <2>6, <3>1 DEF Room, Available
    <3>. QED
      BY <1>1, <1>3, <3>1, <3>2 DEF Available, r2
  <2>7. CASE mode # "auto"
    <3>1. /\ Cardinality(InState(r2, "pending"))
               = Cardinality(InState(r, "pending")) + Cardinality(S)
          /\ InState(r2, "confirmed") = InState(r, "confirmed")
      BY <2>2, <2>4, <2>5, <2>7
    <3>. QED
      BY <1>1, <1>3, <2>1, <2>7, <3>1 DEF Room, Available, r2
  <2>. QED
    BY <2>6, <2>7
<1>. QED
  BY <1>2, <1>4, <1>5

\* The line moves up until there is no room, or nobody who could take it.
LEMMA MoveUpExhausts ==
    ASSUME NEW r \in [Players -> RegStatuses], NEW ev, Typed,
           MoveUp(r, ev, invites, capacity, joinMode, clock),
           UNCHANGED <<invites, table, clock, suspended>>
    PROVE  ~Stranded'
<1> USE DEF table
<1> DEFINE room == Room(r, invites, capacity, joinMode, clock)
<1>1. CASE room <= 0
  <2>1. reg' = r
    BY <1>1 DEF MoveUp
  <2>2. Room(reg, invites, capacity, joinMode, clock)' = room
    BY <2>1 DEF Room, Available, InState, Reserved, Started
  <2>3. room \in Int
    BY CountsFinite, CapacityType DEF Room, Available
  <2>4. QED
    BY <1>1, <2>2, <2>3 DEF Stranded
<1>2. CASE ~(room <= 0)
  <2>1. PICK S \in FirstInLine(Eligible(r), room) :
            /\ reg' = [p \in Players |-> IF p \in S THEN SeatStatus(joinMode) ELSE r[p]]
            /\ line' = [p \in Players |-> IF p \in Passed(S, room) THEN NotWaiting ELSE line[p]]
    BY <1>2 DEF MoveUp
  <2>2. /\ S \subseteq Eligible(r) /\ Cardinality(S) <= room
        /\ Cardinality(S) < room => S = Eligible(r)
    BY <2>1 DEF FirstInLine
  <2>3. /\ S \in SUBSET Players /\ \A p \in S : r[p] = "none"
    BY <2>2 DEF Eligible, Waiting
  <2>4. IsFiniteSet(S) /\ Cardinality(S) \in Nat
    BY <2>3, FS_Subset, PlayersAssumption, FS_CardinalityType
  <2>5. status = "active" /\ ~Started(clock)
    BY <1>2 DEF Room
  <2>6. Room(reg, invites, capacity, joinMode, clock)' = room - Cardinality(S)
    <3>1. reg' = Seated(r, S, joinMode)
      BY <2>1 DEF Seated
    <3>2. Room(reg, invites, capacity, joinMode, clock)'
            = Room(reg', invites, capacity, joinMode, clock)
      BY DEF Room, Available, InState, Reserved, Started
    <3>3. room \in Int /\ capacity \in Int
      BY CountsFinite, CapacityType DEF Room, Available
    <3>. QED
      BY <1>2, <2>3, <3>1, <3>2, <3>3, RoomLeft
  <2>7. room \in Int
    BY CountsFinite, CapacityType DEF Room, Available
  <2>8. CASE Cardinality(S) < room
    <3>1. ASSUME NEW p \in Eligible(reg)' PROVE FALSE
      <4>1. p \in Players /\ line'[p] # NotWaiting /\ p \notin suspended /\ reg'[p] = "none"
        BY DEF Eligible, Waiting
      <4>2. line[p] # NotWaiting /\ p \notin S /\ r[p] = "none"
        BY <2>1, <4>1 DEF SeatStatus
      <4>3. p \in Eligible(r)
        BY <4>1, <4>2 DEF Eligible, Waiting
      <4>4. QED
        BY <2>2, <2>8, <4>2, <4>3
    <3>2. QED
      BY <3>1 DEF Stranded
  <2>9. CASE ~(Cardinality(S) < room)
    <3>1. room - Cardinality(S) <= 0
      BY <2>4, <2>7, <2>9
    <3>2. QED
      BY <2>4, <2>6, <2>7, <3>1 DEF Stranded
  <2>10. QED
    BY <2>8, <2>9
<1>3. QED
  BY <1>1, <1>2

\* Whoever gives up a seat, or finds it gone, leaves nobody in the line who could take one: the line
\* moves in the same transaction, under the lock, by the clock it is at.
THEOREM LineTakesGivenSeats == ASSUME MaxWait = 0 PROVE Spec => GivenSeatsGoToTheLine
<1>1. ASSUME Typed, NEW c \in Clients, NEW now \in Recent, GiveUpSeat(c, now)
      PROVE  ~Stranded'
  <2>1. now = clock
    BY <1>1, NoWait
  <2>2. Emptied(c) \in [Players -> RegStatuses]
    BY <1>1 DEF Emptied, RegStatuses, Typed, TypeOK
  <2>3. QED
    BY <1>1, <2>1, <2>2, MoveUpExhausts DEF GiveUpSeat, profiles
<1>2. Typed /\ [Next]_vars =>
        [(\E c \in Clients : \E now \in Recent : GiveUpSeat(c, now)) => ~Stranded']_vars
  BY <1>1
<1>3. QED
  BY <1>2, TypeCorrect, PTL DEF Spec, GivenSeatsGoToTheLine
-----------------------------------------------------------------------------
(* MoveUp is the loop of promoteWaitlist.  After any number of turns, those  *)
(* off the line are its first players D, and of them the eligible ones have  *)
(* seats; a turn that is not idle adds the next one to D.                    *)

Less == {r \in Nat \X Nat : r[1] < r[2]}

LEMMA LeastExists ==
    ASSUME NEW T, T \subseteq Nat, T # {}
    PROVE  \E h \in T : \A k \in T : h <= k
<1>1. IsWellFoundedOn(Less, Nat)
  <2>1. OpToRel(<, Nat) = Less
    BY DEF OpToRel, Less
  <2>. QED
    BY <2>1, NatLessThanWellFounded
<1>2. PICK h \in T : \A k \in T : ~(<<k, h>> \in Less)
  BY <1>1, WFMin
<1>3. ASSUME NEW k \in T PROVE h <= k
  <2>1. k \in Nat /\ h \in Nat /\ ~(<<k, h>> \in Less)
    BY <1>2
  <2>2. <<k, h>> \in Nat \X Nat /\ ~(k < h)
    BY <2>1 DEF Less
  <2>. QED
    BY <2>1, <2>2
<1>. QED
  BY <1>3

\* The line is an order, and somebody of any part of it is first.
LEMMA LineOrder ==
    ASSUME Typed
    PROVE  /\ \A p, q \in Waiting : p = q \/ Before(p, q) \/ Before(q, p)
           /\ \A p, q \in Waiting : ~(Before(p, q) /\ Before(q, p))
  BY PlayersAssumption, TimeAssumption DEF Typed, TypeOK, Waiting, NotWaiting, Before

LEMMA FirstExists ==
    ASSUME Typed, NEW T \in SUBSET Waiting, T # {}
    PROVE  \E x \in T : \A q \in T \ {x} : Before(x, q)
<1>1. \A p \in T : p \in Nat /\ line[p] \in Nat
  BY PlayersAssumption, TimeAssumption DEF Typed, TypeOK, Waiting, NotWaiting
<1>2. PICK m \in {line[p] : p \in T} : \A k \in {line[p] : p \in T} : m <= k
  <2>1. {line[p] : p \in T} \subseteq Nat /\ {line[p] : p \in T} # {}
    BY <1>1
  <2>. QED
    BY <2>1, LeastExists
<1>3. PICK x \in {p \in T : line[p] = m} : \A k \in {p \in T : line[p] = m} : x <= k
  <2>1. {p \in T : line[p] = m} \subseteq Nat /\ {p \in T : line[p] = m} # {}
    BY <1>1, <1>2
  <2>. QED
    BY <2>1, LeastExists
<1>4. ASSUME NEW q \in T \ {x} PROVE Before(x, q)
  <2>1. line[x] = m /\ m <= line[q] /\ (line[q] = m => x <= q)
    BY <1>2, <1>3
  <2>2. x \in Nat /\ q \in Nat /\ line[x] \in Nat /\ line[q] \in Nat /\ x # q
    BY <1>1
  <2>. QED
    BY <2>1, <2>2 DEF Before
<1>. QED
  BY <1>4

UpTo(S) == {p \in Waiting : \E s \in S : p = s \/ Before(p, s)}

\* The state of the loop once D are off the line.
Moved(r, D, mode) ==
    [reg |-> Seated(r, D \cap Eligible(r), mode),
     line |-> [p \in Players |-> IF p \in D THEN NotWaiting ELSE line[p]]]

\* D are the first of the line, no more than there was room for, up to the last who got a seat.
OffTheLine(r, room, D) ==
    /\ D \subseteq Waiting /\ \A p \in D, q \in Waiting \ D : Before(p, q)
    /\ D = {} \/ Cardinality(D \cap Eligible(r)) <= room
    /\ Cardinality(D \cap Eligible(r)) >= room => D \subseteq UpTo(D \cap Eligible(r))

LoopEnds(r, room, D) == Cardinality(D \cap Eligible(r)) >= room \/ D = Waiting

LEMMA SomeOfTheLine ==
    ASSUME Typed, NEW r, NEW D, D \subseteq Waiting
    PROVE  /\ IsFiniteSet(D \cap Eligible(r)) /\ Cardinality(D \cap Eligible(r)) \in Nat
           /\ IsFiniteSet(D) /\ Cardinality(D) \in Nat
<1>1. D \cap Eligible(r) \in SUBSET Players /\ D \in SUBSET Players
  BY DEF Waiting
<1>. QED
  BY <1>1, FS_Subset, PlayersAssumption, FS_CardinalityType

\* A turn of the loop: idle at the end, and otherwise one more player is off the line.
LEMMA TurnTakesTheFirst ==
    ASSUME Typed, NEW r \in [Players -> RegStatuses], NEW inv, NEW cap \in Int, NEW mode, NEW now,
           NEW room, room = Room(r, inv, cap, mode, now),
           NEW D, OffTheLine(r, room, D)
    PROVE  IF LoopEnds(r, room, D)
           THEN Turn(Moved(r, D, mode), inv, cap, mode, now) = Moved(r, D, mode)
           ELSE \E x \in Waiting \ D :
                    /\ OffTheLine(r, room, D \cup {x})
                    /\ Turn(Moved(r, D, mode), inv, cap, mode, now) = Moved(r, D \cup {x}, mode)
<1> DEFINE s == Moved(r, D, mode)
           S == D \cap Eligible(r)
           inLine == {p \in Players : s.line[p] # NotWaiting}
           next == CHOOSE p \in inLine : \A q \in inLine \ {p} : Before(p, q)
<1>1. s.reg = Seated(r, S, mode)
      /\ s.line = [p \in Players |-> IF p \in D THEN NotWaiting ELSE line[p]]
  BY DEF Moved
<1>2. inLine = Waiting \ D
  BY <1>1 DEF Waiting
<1>3. S \in SUBSET Players /\ \A p \in S : r[p] = "none"
  BY DEF Eligible, Waiting
<1>4. /\ IsFiniteSet(S) /\ Cardinality(S) \in Nat /\ room \in Int
      /\ Room(s.reg, inv, cap, mode, now) = room - Cardinality(S)
  <2>1. D = {} => S = {}
    OBVIOUS
  <2>2. IsFiniteSet(S) /\ Cardinality(S) \in Nat
    BY SomeOfTheLine DEF OffTheLine
  <2>3. room > 0 \/ S = {}
    <3>1. room \in Int
      BY RoomInt
    <3>2. S # {} => Cardinality(S) # 0
      BY <2>2, FS_EmptySet
    <3>. QED
      BY <2>1, <2>2, <3>1, <3>2 DEF OffTheLine
  <2>. QED
    BY <1>1, <1>3, <2>2, <2>3, RoomLeft, RoomInt
<1>5. Turn(s, inv, cap, mode, now) =
        IF Room(s.reg, inv, cap, mode, now) <= 0 \/ inLine = {} THEN s
        ELSE [reg |-> IF next \in suspended \/ s.reg[next] # "none" THEN s.reg
                      ELSE [s.reg EXCEPT ![next] = SeatStatus(mode)],
              line |-> [s.line EXCEPT ![next] = NotWaiting]]
  BY DEF Turn
<1>6. LoopEnds(r, room, D) <=> Room(s.reg, inv, cap, mode, now) <= 0 \/ inLine = {}
  <2>1. inLine = {} <=> D = Waiting
    BY <1>2 DEF OffTheLine
  <2>2. Cardinality(S) >= room <=> Room(s.reg, inv, cap, mode, now) <= 0
    BY <1>4
  <2>. QED
    BY <2>1, <2>2 DEF LoopEnds
<1> HIDE DEF s
<1>7. CASE LoopEnds(r, room, D)
  BY <1>5, <1>6, <1>7 DEF s
<1>8. CASE ~LoopEnds(r, room, D)
  <2>1. inLine # {} /\ Waiting \ D # {}
    BY <1>2, <1>6, <1>8
  <2>2. \E x \in inLine : \A q \in inLine \ {x} : Before(x, q)
    BY <1>2, <2>1, FirstExists
  <2>3. next \in inLine /\ \A q \in inLine \ {next} : Before(next, q)
    BY <2>2
  <2> HIDE DEF next, inLine
  <2> DEFINE x == next
             D2 == D \cup {x}
             S2 == D2 \cap Eligible(r)
  <2>4. x \in Waiting \ D /\ x \in Players /\ x \notin S /\ \A q \in Waiting \ D2 : Before(x, q)
    BY <1>2, <2>3 DEF Waiting
  <2>5. x \in Eligible(r) <=> ~(x \in suspended \/ s.reg[x] # "none")
    BY <1>1, <2>4 DEF Eligible, Seated
  <2>6. S2 = IF x \in Eligible(r) THEN S \cup {x} ELSE S
    OBVIOUS
  <2>7. Cardinality(S2) = IF x \in Eligible(r) THEN Cardinality(S) + 1 ELSE Cardinality(S)
    BY <1>4, <2>4, <2>6, FS_AddElement
  <2>8. Turn(s, inv, cap, mode, now) =
          [reg |-> IF x \in Eligible(r) THEN [s.reg EXCEPT ![x] = SeatStatus(mode)] ELSE s.reg,
           line |-> [s.line EXCEPT ![x] = NotWaiting]]
    BY <1>5, <1>6, <1>8, <2>5
  <2>9. (IF x \in Eligible(r) THEN [s.reg EXCEPT ![x] = SeatStatus(mode)] ELSE s.reg)
          = Seated(r, S2, mode)
    BY <1>1, <2>4, <2>6 DEF Seated
  <2>10. [s.line EXCEPT ![x] = NotWaiting]
           = [p \in Players |-> IF p \in D2 THEN NotWaiting ELSE line[p]]
    BY <1>1, <2>4
  <2>11. Turn(s, inv, cap, mode, now) = Moved(r, D2, mode)
    BY <2>8, <2>9, <2>10 DEF Moved
  <2>12. OffTheLine(r, room, D2)
    <3>1. D2 \subseteq Waiting /\ \A p \in D2, q \in Waiting \ D2 : Before(p, q)
      BY <2>4 DEF OffTheLine
    <3>2. Cardinality(S) < room
      BY <1>4, <1>8 DEF LoopEnds
    <3>3. Cardinality(S2) <= room
      BY <1>4, <2>7, <3>2
    <3>4. ASSUME Cardinality(S2) >= room PROVE D2 \subseteq UpTo(S2)
      <4>1. x \in S2
        BY <1>4, <2>6, <2>7, <3>2, <3>4
      <4>2. ASSUME NEW p \in D2 PROVE p \in UpTo(S2)
        <5>1. p \in Waiting /\ (p = x \/ Before(p, x))
          BY <2>4, <4>2 DEF OffTheLine
        <5>. QED
          BY <4>1, <5>1 DEF UpTo
      <4>. QED
        BY <4>2
    <3>. QED
      BY <3>1, <3>3, <3>4 DEF OffTheLine
  <2>13. x \in Waiting \ D /\ OffTheLine(r, room, D \cup {x})
         /\ Turn(s, inv, cap, mode, now) = Moved(r, D \cup {x}, mode)
    BY <2>4, <2>11, <2>12
  <2> HIDE DEF x
  <2>. QED
    BY <1>8, <2>13 DEF s
<1>. QED
  BY <1>7, <1>8

-----------------------------------------------------------------------------
(* The loop runs: it is a function of the turn, whose values exist because   *)
(* each is worked out from the one before.                                   *)

IsRun(f, n, r, inv, cap, mode, now) ==
    f = [k \in 0..n |-> IF k = 0 THEN [reg |-> r, line |-> line]
                        ELSE Turn(f[k - 1], inv, cap, mode, now)]

LEMMA RunExists ==
    ASSUME NEW r, NEW inv, NEW cap, NEW mode, NEW now, NEW n \in Nat
    PROVE  \E f : IsRun(f, n, r, inv, cap, mode, now)
<1> DEFINE start == [reg |-> r, line |-> line]
           NoRun == {m \in Nat : ~\E f : IsRun(f, m, r, inv, cap, mode, now)}
<1> SUFFICES ASSUME NoRun # {} PROVE FALSE
  OBVIOUS
<1>1. PICK m \in NoRun : \A j \in NoRun : m <= j
  BY LeastExists
<1>2. CASE m = 0
  <2>1. IsRun([k \in 0..0 |-> start], 0, r, inv, cap, mode, now)
    BY DEF IsRun
  <2>. QED
    BY <1>1, <1>2, <2>1
<1>3. CASE m # 0
  <2>1. m - 1 \in Nat /\ m \in Nat /\ ~(m <= m - 1)
    BY <1>3
  <2>2. PICK f : IsRun(f, m - 1, r, inv, cap, mode, now)
    BY <1>1, <2>1
  <2> DEFINE g == [k \in 0..m |-> IF k < m THEN f[k] ELSE Turn(f[m - 1], inv, cap, mode, now)]
  <2>3. ASSUME NEW k \in 0..m
        PROVE  g[k] = IF k = 0 THEN start ELSE Turn(g[k - 1], inv, cap, mode, now)
    BY <1>3, <2>1, <2>2 DEF IsRun
  <2>4. g = [k \in 0..m |-> IF k = 0 THEN start ELSE Turn(g[k - 1], inv, cap, mode, now)]
    BY <2>3
  <2> HIDE DEF g
  <2>5. IsRun(g, m, r, inv, cap, mode, now)
    BY <2>4 DEF IsRun
  <2>. QED
    BY <1>1, <2>5
<1>. QED
  BY <1>2, <1>3

LEMMA LoopIsARun ==
    ASSUME NEW r, NEW inv, NEW cap, NEW mode, NEW now
    PROVE  \E f : /\ IsRun(f, Cardinality(Players), r, inv, cap, mode, now)
                  /\ promoteWaitlist(r, inv, cap, mode, now) = f[Cardinality(Players)]
<1> DEFINE n == Cardinality(Players)
           f == CHOOSE g : IsRun(g, n, r, inv, cap, mode, now)
<1>1. n \in Nat
  BY PlayersAssumption, FS_CardinalityType
<1>2. IsRun(f, n, r, inv, cap, mode, now)
  BY <1>1, RunExists
<1>3. promoteWaitlist(r, inv, cap, mode, now) = f[n]
  BY DEF promoteWaitlist, IsRun
<1> HIDE DEF f
<1>. QED
  BY <1>2, <1>3

\* After each turn the loop is at its end, or as many players as turns are off the line.
LEMMA TurnsTakeTheFirst ==
    ASSUME Typed, NEW r \in [Players -> RegStatuses], NEW inv, NEW cap \in Int, NEW mode, NEW now,
           NEW room, room = Room(r, inv, cap, mode, now),
           NEW f, NEW n \in Nat, IsRun(f, n, r, inv, cap, mode, now), NEW m \in 0..n
    PROVE  \E D \in SUBSET Waiting :
                /\ OffTheLine(r, room, D) /\ f[m] = Moved(r, D, mode)
                /\ LoopEnds(r, room, D) \/ Cardinality(D) = m
<1> DEFINE Right(j) == \E D \in SUBSET Waiting :
                /\ OffTheLine(r, room, D) /\ f[j] = Moved(r, D, mode)
                /\ LoopEnds(r, room, D) \/ Cardinality(D) = j
           Wrong == {j \in 0..n : ~Right(j)}
<1> SUFFICES ASSUME Wrong # {} PROVE FALSE
  OBVIOUS
<1>1. PICK j \in Wrong : \A i \in Wrong : j <= i
  <2>1. Wrong \subseteq Nat
    OBVIOUS
  <2> HIDE DEF Wrong
  <2>. QED
    BY <2>1, LeastExists
<1>2. f[0] = [reg |-> r, line |-> line]
  BY DEF IsRun
<1>3. \A i \in 1..n : f[i] = Turn(f[i - 1], inv, cap, mode, now)
  BY DEF IsRun
<1>4. CASE j = 0
  <2>1. Seated(r, {}, mode) = r /\ {} \cap Eligible(r) = {}
    BY DEF Seated
  <2>2. [p \in Players |-> IF p \in {} THEN NotWaiting ELSE line[p]] = line
    BY DEF Typed, TypeOK
  <2>3. Moved(r, {}, mode) = [reg |-> r, line |-> line]
    BY <2>1, <2>2 DEF Moved
  <2>4. OffTheLine(r, room, {}) /\ Cardinality({}) = 0
    BY FS_EmptySet DEF OffTheLine
  <2>. QED
    BY <1>1, <1>2, <1>4, <2>3, <2>4
<1>5. CASE j # 0
  <2>1. j - 1 \in 0..n /\ j \in 1..n /\ ~(j <= j - 1)
    BY <1>1, <1>5
  <2>2. Right(j - 1)
    BY <1>1, <2>1
  <2>3. PICK D \in SUBSET Waiting :
                /\ OffTheLine(r, room, D) /\ f[j - 1] = Moved(r, D, mode)
                /\ LoopEnds(r, room, D) \/ Cardinality(D) = j - 1
    BY <2>2
  <2>4. f[j] = Turn(Moved(r, D, mode), inv, cap, mode, now)
    BY <1>3, <2>1, <2>3
  <2>5. CASE LoopEnds(r, room, D)
    <3>1. f[j] = Moved(r, D, mode)
      BY <2>3, <2>4, <2>5, TurnTakesTheFirst
    <3>. QED
      BY <1>1, <2>3, <2>5, <3>1
  <2>6. CASE ~LoopEnds(r, room, D)
    <3>1. PICK x \in Waiting \ D :
              /\ OffTheLine(r, room, D \cup {x})
              /\ Turn(Moved(r, D, mode), inv, cap, mode, now) = Moved(r, D \cup {x}, mode)
      BY <2>3, <2>6, TurnTakesTheFirst
    <3>2. Cardinality(D \cup {x}) = j
      <4>1. IsFiniteSet(D) /\ Cardinality(D) = j - 1 /\ x \notin D
        BY <2>3, <2>6, <3>1, SomeOfTheLine
      <4>2. Cardinality(D \cup {x}) = (j - 1) + 1
        BY <4>1, FS_AddElement
      <4>. QED
        BY <2>1, <4>2
    <3>3. D \cup {x} \in SUBSET Waiting
      OBVIOUS
    <3>. QED
      BY <1>1, <2>4, <3>1, <3>2, <3>3
  <2>. QED
    BY <2>5, <2>6
<1>. QED
  BY <1>4, <1>5

-----------------------------------------------------------------------------
(* What the loop leaves is what MoveUp publishes.                            *)

\* The line has one first part of each size.
LEMMA OneFirstInLine ==
    ASSUME Typed, NEW r, NEW room \in Int,
           NEW S \in FirstInLine(Eligible(r), room), NEW T \in FirstInLine(Eligible(r), room)
    PROVE  S = T
<1>1. /\ S \subseteq Eligible(r) /\ T \subseteq Eligible(r)
      /\ Cardinality(S) <= room /\ (Cardinality(S) < room => S = Eligible(r))
      /\ Cardinality(T) <= room /\ (Cardinality(T) < room => T = Eligible(r))
      /\ \A p \in S, q \in Eligible(r) \ S : Before(p, q)
      /\ \A p \in T, q \in Eligible(r) \ T : Before(p, q)
  BY DEF FirstInLine
<1>2. S \subseteq T \/ T \subseteq S
  BY <1>1, LineOrder DEF Eligible
<1>3. Eligible(r) \in SUBSET Players
  BY DEF Eligible, Waiting
<1>4. /\ IsFiniteSet(S) /\ Cardinality(S) \in Nat
      /\ IsFiniteSet(T) /\ Cardinality(T) \in Nat
  BY <1>1, <1>3, FS_Subset, PlayersAssumption, FS_CardinalityType
<1>5. CASE S \subseteq T
  <2>1. Cardinality(S) <= Cardinality(T) /\ (Cardinality(S) = Cardinality(T) => S = T)
    BY <1>4, <1>5, FS_Subset
  <2>2. S # T => Cardinality(S) < room
    BY <1>1, <1>4, <2>1
  <2>. QED
    BY <1>1, <1>5, <2>2
<1>6. CASE T \subseteq S
  <2>1. Cardinality(T) <= Cardinality(S) /\ (Cardinality(S) = Cardinality(T) => S = T)
    BY <1>4, <1>6, FS_Subset
  <2>2. S # T => Cardinality(T) < room
    BY <1>1, <1>4, <2>1
  <2>. QED
    BY <1>1, <1>6, <2>2
<1>. QED
  BY <1>2, <1>5, <1>6

\* Where the loop ends, it has seated the first of the line and passed those MoveUp passes.
LEMMA LoopSeatsTheFirst ==
    ASSUME Typed, NEW r \in [Players -> RegStatuses], NEW inv, NEW cap \in Int, NEW mode, NEW now,
           NEW room, room = Room(r, inv, cap, mode, now)
    PROVE  /\ room <= 0 =>
                promoteWaitlist(r, inv, cap, mode, now) = [reg |-> r, line |-> line]
           /\ room > 0 =>
                \E S \in FirstInLine(Eligible(r), room) :
                    promoteWaitlist(r, inv, cap, mode, now) =
                        [reg |-> Seated(r, S, mode),
                         line |-> [p \in Players |-> IF p \in Passed(S, room) THEN NotWaiting
                                                     ELSE line[p]]]
<1> DEFINE n == Cardinality(Players)
<1>1. n \in Nat /\ room \in Int
  BY PlayersAssumption, FS_CardinalityType, RoomInt
<1>2. PICK f : /\ IsRun(f, n, r, inv, cap, mode, now)
               /\ promoteWaitlist(r, inv, cap, mode, now) = f[n]
  BY LoopIsARun
<1>3. PICK D \in SUBSET Waiting :
            /\ OffTheLine(r, room, D) /\ f[n] = Moved(r, D, mode)
            /\ LoopEnds(r, room, D) \/ Cardinality(D) = n
  <2>1. n \in 0..n
    BY <1>1
  <2> HIDE DEF n
  <2>. QED
    BY <1>1, <1>2, <2>1, TurnsTakeTheFirst
<1>4. LoopEnds(r, room, D)
  <2>1. CASE Cardinality(D) = n
    <3>1. D \in SUBSET Players /\ Waiting \in SUBSET Players
      BY DEF Waiting
    <3>2. D = Players
      BY <2>1, <3>1, FS_Subset, PlayersAssumption
    <3>. QED
      BY <3>1, <3>2 DEF LoopEnds
  <2>. QED
    BY <1>3, <2>1
<1> DEFINE S == D \cap Eligible(r)
<1>5. IsFiniteSet(S) /\ Cardinality(S) \in Nat
  BY SomeOfTheLine
<1>6. CASE room <= 0
  <2>1. D = {}
    <3>1. CASE D # {}
      <4>1. Cardinality(S) = 0 /\ room = 0
        BY <1>1, <1>3, <1>5, <1>6, <3>1 DEF OffTheLine
      <4>2. S = {}
        BY <1>5, <4>1, FS_EmptySet
      <4>3. D \subseteq UpTo(S)
        BY <1>3, <4>1 DEF OffTheLine
      <4>. QED
        BY <4>2, <4>3 DEF UpTo
    <3>. QED
      BY <3>1
  <2>2. Seated(r, {}, mode) = r /\ [p \in Players |-> IF p \in {} THEN NotWaiting ELSE line[p]] = line
    BY DEF Seated, Typed, TypeOK
  <2>. QED
    BY <1>1, <1>2, <1>3, <1>6, <2>1, <2>2 DEF Moved
<1>7. CASE room > 0
  <2>1. /\ Cardinality(S) <= room /\ (Cardinality(S) = room \/ D = Waiting)
        /\ Cardinality(S) = room => D \subseteq UpTo(S)
    <3>1. D = {} => Cardinality(S) = 0
      BY FS_EmptySet
    <3>. QED
      BY <1>1, <1>3, <1>4, <1>5, <1>7, <3>1 DEF OffTheLine, LoopEnds
  <2>2. Eligible(r) \subseteq Waiting
    BY DEF Eligible
  <2>3. S \in FirstInLine(Eligible(r), room)
    <3>1. Cardinality(S) < room => S = Eligible(r)
      BY <1>1, <1>5, <2>1, <2>2
    <3>2. \A p \in S, q \in Eligible(r) \ S : Before(p, q)
      BY <1>3, <2>2 DEF OffTheLine
    <3>. QED
      BY <2>1, <3>1, <3>2 DEF FirstInLine
  <2>4. Passed(S, room) = D
    <3>1. CASE Cardinality(S) < room
      BY <1>1, <1>5, <2>1, <3>1 DEF Passed
    <3>2. CASE ~(Cardinality(S) < room)
      <4>1. Cardinality(S) = room /\ Passed(S, room) = UpTo(S)
        BY <1>1, <1>5, <2>1, <3>2 DEF Passed, UpTo
      <4>2. ASSUME NEW p \in UpTo(S) PROVE p \in D
        <5>1. p \in Waiting /\ \E s \in S : p = s \/ Before(p, s)
          BY DEF UpTo
        <5>. QED
          BY <1>3, <5>1, LineOrder DEF OffTheLine
      <4>. QED
        BY <2>1, <4>1, <4>2
    <3>. QED
      BY <3>1, <3>2
  <2>5. promoteWaitlist(r, inv, cap, mode, now) =
            [reg |-> Seated(r, S, mode),
             line |-> [p \in Players |-> IF p \in Passed(S, room) THEN NotWaiting ELSE line[p]]]
    BY <1>2, <1>3, <2>4 DEF Moved
  <2>6. ~(room <= 0)
    BY <1>1, <1>7
  <2> HIDE DEF S
  <2>. QED
    BY <2>3, <2>5, <2>6, Zenon
<1>8. room <= 0 \/ room > 0
  BY <1>1
<1>. QED
  BY <1>6, <1>7, <1>8, Zenon

\* Whatever a transaction has written so far, what MoveUp publishes of the registrations and of the
\* line is what the loop of promoteWaitlist leaves after its last turn.
THEOREM MoveUpIsTheLoop ==
    ASSUME Typed, NEW r \in [Players -> RegStatuses], NEW ev, NEW inv, NEW cap \in Int, NEW mode,
           NEW now, MoveUp(r, ev, inv, cap, mode, now)
    PROVE  [reg |-> reg', line |-> line'] = promoteWaitlist(r, inv, cap, mode, now)
<1> DEFINE room == Room(r, inv, cap, mode, now)
<1>1. room \in Int
  BY RoomInt
<1>2. CASE room <= 0
  <2>1. reg' = r /\ line' = line
    BY <1>2 DEF MoveUp
  <2>. QED
    BY <1>2, <2>1, LoopSeatsTheFirst
<1>3. CASE room > 0
  <2>1. PICK S \in FirstInLine(Eligible(r), room) :
            /\ reg' = Seated(r, S, mode)
            /\ line' = [p \in Players |-> IF p \in Passed(S, room) THEN NotWaiting ELSE line[p]]
    BY <1>1, <1>3 DEF MoveUp, Seated
  <2>2. PICK T \in FirstInLine(Eligible(r), room) :
            promoteWaitlist(r, inv, cap, mode, now) =
                [reg |-> Seated(r, T, mode),
                 line |-> [p \in Players |-> IF p \in Passed(T, room) THEN NotWaiting ELSE line[p]]]
    BY <1>3, LoopSeatsTheFirst
  <2>3. S = T
    BY <1>1, OneFirstInLine
  <2>. QED
    BY <2>1, <2>2, <2>3
<1>. QED
  BY <1>1, <1>2, <1>3

\* In every state a table can be in, seating the first of the line at once is what the loop does turn
\* by turn, for any number of players and seats, and however many have to be passed.
THEOREM PromotesByTheLoop == Spec => []PromotionIsTheLoop
<1>1. Typed => PromotionIsTheLoop
  <2> SUFFICES ASSUME Typed, Room(reg, invites, capacity, joinMode, clock) > 0
               PROVE  PromotionIsTheLoop
    BY DEF PromotionIsTheLoop
  <2> DEFINE room == Room(reg, invites, capacity, joinMode, clock)
             loop == promoteWaitlist(reg, invites, capacity, joinMode, clock)
             Outcome(S) ==
                 [reg |-> [p \in Players |-> IF p \in S THEN SeatStatus(joinMode) ELSE reg[p]],
                  line |-> [p \in Players |-> IF p \in Passed(S, room) THEN NotWaiting ELSE line[p]]]
  <2>1. reg \in [Players -> RegStatuses] /\ capacity \in Int /\ room \in Int
    <3>1. reg \in [Players -> RegStatuses] /\ capacity \in Int
      BY CapacityType DEF Typed, TypeOK
    <3>. QED
      BY <3>1, RoomInt
  <2>2. PICK S \in FirstInLine(Eligible(reg), room) : loop = Outcome(S)
    BY <2>1, LoopSeatsTheFirst DEF Seated
  <2>3. \A T \in FirstInLine(Eligible(reg), room) : T = S
    BY <2>1, OneFirstInLine
  <2>4. {Outcome(T) : T \in FirstInLine(Eligible(reg), room)} = {loop}
    BY <2>2, <2>3
  <2>. QED
    BY <2>4 DEF PromotionIsTheLoop
<1>. QED
  BY <1>1, TypeCorrect, PTL
=============================================================================
