------------------------ MODULE SeatsRefinementProofs ------------------------
(***************************************************************************)
(* Seats implements TableSeats: whatever the locks, statements and clocks,  *)
(* the seats, the live reservations and the capacity only change as the     *)
(* abstract specification lets them.  At the end, what the theorems say of  *)
(* the race of MCSeatsRuns.                                                 *)
(***************************************************************************)
EXTENDS SeatsProofs, MCSeatsRuns

seated == InState(reg, "confirmed")
held == Reserved(invites, clock)

\* The instance has its own name for the operator of FiniteSets.
LEMMA SameCount == ASSUME NEW S PROVE Office!Cardinality(S) = Cardinality(S)
BY DEF Office!Cardinality, Cardinality

LEMMA OfficeCount ==
    ASSUME NEW r, NEW inv, NEW cap, NEW now
    PROVE  Office!Left(cap, InState(r, "confirmed"), Reserved(inv, now)) = Available(r, inv, cap, now)
BY SameCount DEF Office!Left, Available

LEMMA Untouched ==
    ASSUME seated' = seated, held' = held, capacity' = capacity
    PROVE  UNCHANGED Office!vars
BY DEF Office!vars, seated, held

LEMMA Reseated ==
    ASSUME NEW gone \in SUBSET seated, NEW P \in SUBSET Players, Cardinality(gone) <= 1,
           P # {} => Cardinality(P) <= Office!Left(capacity, seated \ gone, held),
           seated' = (seated \ gone) \cup P, held' = held, capacity' = capacity
    PROVE  Office!Next
BY SameCount DEF Office!Next, Office!Reseat, seated, held

LEMMA Dropped ==
    ASSUME NEW gone \in SUBSET seated, Cardinality(gone) <= 1,
           seated' = seated \ gone, held' \subseteq held, capacity' = capacity
    PROVE  Office!Next
<1>1. (held \ held') \in SUBSET held /\ held' = held \ (held \ held')
  OBVIOUS
<1>2. Office!Drop(held \ held', gone)
  BY <1>1, SameCount DEF Office!Drop, seated, held
<1>3. QED
  BY <1>1, <1>2 DEF Office!Next, seated, held

LEMMA AtMostOneGoes ==
    ASSUME NEW p PROVE {p} \cap seated \in SUBSET seated /\ Cardinality({p} \cap seated) <= 1
<1>1. Cardinality({p}) = 1 /\ IsFiniteSet({p})
  BY FS_Singleton
<1>2. Cardinality({p} \cap seated) <= Cardinality({p})
  BY <1>1, FS_Subset
<1>3. QED
  BY <1>1, <1>2

\* The line moving up seats a set of players no larger than what is free.
LEMMA MoveUpSeats ==
    ASSUME NEW r \in [Players -> RegStatuses], NEW ev, NEW inv, NEW cap \in Int,
           NEW mode \in JoinModes, NEW now,
           Available(r, inv, cap, now) >= 0, MoveUp(r, ev, inv, cap, mode, now)
    PROVE  \E P \in SUBSET Players :
               /\ InState(reg', "confirmed") = InState(r, "confirmed") \cup P
               /\ Cardinality(P) <= Available(r, inv, cap, now)
<1> DEFINE room == Room(r, inv, cap, mode, now)
<1>1. Cardinality({}) = 0 /\ Available(r, inv, cap, now) \in Int
  BY FS_EmptySet, FewerTaken
<1>2. CASE room <= 0
  BY <1>1, <1>2 DEF MoveUp
<1>3. CASE ~(room <= 0)
  <2>1. PICK S \in FirstInLine(Eligible(r), room) :
            reg' = [p \in Players |-> IF p \in S THEN SeatStatus(mode) ELSE r[p]]
    BY <1>3 DEF MoveUp
  <2>2. S \in SUBSET Players /\ Cardinality(S) <= room /\ \A p \in S : r[p] = "none"
    BY <2>1 DEF FirstInLine, Eligible, Waiting
  <2>3. CASE mode = "auto"
    <3>1. room = Available(r, inv, cap, now)
      BY <1>3, <2>3, CountsFinite DEF Room, Available
    <3>2. InState(reg', "confirmed") = InState(r, "confirmed") \cup S
      BY <2>1, <2>2, <2>3 DEF InState, SeatStatus
    <3>3. QED
      BY <2>2, <3>1, <3>2
  <2>4. CASE mode # "auto"
    <3>1. InState(reg', "confirmed") = InState(r, "confirmed")
      BY <2>1, <2>2, <2>4 DEF InState, SeatStatus
    <3>2. QED
      BY <1>1, <3>1
  <2>5. QED
    BY <2>3, <2>4
<1>4. QED
  BY <1>2, <1>3

LEMMA InitOffice == Init => Office!Init
<1> SUFFICES ASSUME Init PROVE Office!Init
  OBVIOUS
<1>1. InState(reg, "confirmed") = {} /\ Reserved(invites, clock) = {}
  BY DEF Init, InState, Reserved, NoInvitation
<1>2. QED
  BY <1>1 DEF Init, Office!Init

\* One step per operation; the ones that touch neither seats nor reservations stutter.
LEMMA NextOffice ==
    ASSUME MaxWait = 0, IInv, [Next]_vars
    PROVE  [Office!Next]_(Office!vars)
<1> USE DEF table, profiles
<1> DEFINE Step1 == Office!Next \/ UNCHANGED Office!vars
<1>0. /\ Typed /\ capacity \in Int /\ Available(reg, invites, capacity, clock) \in Int
      /\ Available(reg, invites, capacity, clock) >= 0
      /\ invites \in [Invitations -> InviteRows] /\ reg \in [Players -> RegStatuses]
  BY CapacityType, FewerTaken DEF IInv, NoOverbooking, Typed, TypeOK
<1>1. Cardinality({}) = 0
  BY FS_EmptySet
<1>2. ASSUME UNCHANGED <<reg, invites, capacity, clock>>
      PROVE  Step1
  BY <1>2, Untouched DEF seated, held
<1>3. ASSUME held' \subseteq held, UNCHANGED <<reg, capacity>>
      PROVE  Step1
  <2>1. seated' = seated \ {}
    BY <1>3 DEF seated
  <2>2. QED
    BY <1>1, <1>3, <2>1, Dropped
<1>4. ASSUME NEW I, NEW answer \in InviteStatuses \ {"pending"}, UNCHANGED clock,
             invites' = Finish(invites, I, answer)
      PROVE  held' \subseteq held
  BY <1>0, <1>4, FinishDrops DEF held
<1>5. ASSUME NEW p \in Players, Available(reg, invites, capacity, clock) >= 1,
             seated' = seated \cup {p}, held' = held, capacity' = capacity
      PROVE  Step1
  <2>1. Cardinality({p}) = 1 /\ seated' = (seated \ {}) \cup {p}
    BY <1>5, FS_Singleton
  <2>2. Office!Left(capacity, seated \ {}, held) = Available(reg, invites, capacity, clock)
    BY OfficeCount DEF seated, held
  <2>3. QED
    BY <1>0, <1>1, <1>5, <2>1, <2>2, Reseated
<1>6. ASSUME NEW p \in Players, NEW now \in Recent, joinTable(p, now)
      PROVE  Step1
  <2>1. Available(reg, invites, capacity, clock) >= 1 /\ reg[p] = "none"
    BY <1>0, <1>6, NoWait DEF joinTable, MayAsk
  <2>2. held' = held /\ capacity' = capacity
    BY <1>6 DEF joinTable, held
  <2>3. seated' = seated \cup {p} \/ seated' = seated
    BY <1>0, <1>6, <2>1 DEF joinTable, SeatStatus, seated, InState
  <2>4. QED
    BY <1>5, <2>1, <2>2, <2>3, Untouched
<1>7. ASSUME NEW i \in Invitations, NEW p \in Players, NEW now \in Recent, invitePlayer(i, p, now)
      PROVE  Step1
  <2> DEFINE expired == Finish(invites, RowsOf(p), "expired")
  <2>1. now = clock /\ clock \in Nat
    BY <1>0, <1>7, NoWait, TimeAssumption DEF Typed, TypeOK
  <2>2. Reserved(expired, clock) = held
    BY <1>0, <1>7, <2>1 DEF invitePlayer, Reserved, ReservedFor, RowsOf, Finish, held
  <2>3. Available(reg, invites, capacity, clock) >= 1
    BY <1>7, <2>1, <2>2 DEF invitePlayer, Available, held
  <2>4. Earlier(now + HoldFor, StartsAt) > clock
    BY <1>7, <2>1, TimeAssumption DEF invitePlayer, Earlier, Started
  <2>5. i \notin held /\ held' = held \cup {i}
    <3>1. i \notin held
      BY <1>7 DEF invitePlayer, held, Reserved
    <3>2. Reserved(invites', clock) = Reserved(expired, clock) \cup {i}
      BY <1>7, <2>4 DEF invitePlayer, Reserved, Finish
    <3>3. QED
      BY <1>7, <2>2, <3>1, <3>2 DEF invitePlayer, held
  <2>6. Office!Hold(i)
    BY <1>7, <2>3, <2>5, OfficeCount DEF Office!Hold, invitePlayer, held
  <2>7. QED
    BY <2>6 DEF Office!Next
<1>8. ASSUME NEW i \in Invitations, NEW accept \in BOOLEAN, NEW now \in Recent,
             respondToInvitation(i, accept, now)
      PROVE  Step1
  <2> DEFINE p == invites[i].player
             answer == Answer(i, accept, now)
  <2>1. answer \in InviteStatuses \ {"pending"}
    BY DEF Answer, InviteStatuses
  <2>2. CASE answer = "accepted"
    <3>1. /\ invites[i].status = "pending" /\ ~(invites[i].expiresAt <= now)
          /\ reg[p] = "none"
      BY <1>8, <2>2 DEF respondToInvitation, Answer
    <3>2. invites[i].expiresAt \in Nat /\ p \in Players /\ now \in Nat /\ now = clock
      BY <1>0, <3>1, NoWait, RecentType DEF InviteRows, NoInvitation, Typed
    <3>3. i \in held /\ p \notin seated
      BY <3>1, <3>2 DEF held, seated, Reserved, InState
    <3>4. held' = held \ {i}
      BY <1>0, <1>8, <2>2, <3>3 DEF respondToInvitation, Finish, held, Reserved
    <3>5. seated' = seated \cup {p}
      BY <1>0, <1>8, <2>2, <3>1, <3>2 DEF respondToInvitation, seated, InState
    <3>6. Office!Exchange(i, p)
      BY <1>8, <3>3, <3>4, <3>5 DEF Office!Exchange, respondToInvitation, seated, held
    <3>7. QED
      BY <3>2, <3>6 DEF Office!Next
  <2>3. CASE answer # "accepted"
    BY <1>3, <1>4, <1>8, <2>1, <2>3 DEF respondToInvitation
  <2>4. QED
    BY <2>2, <2>3
<1>9. ASSUME NEW i \in Invitations, cancelInvitation(i) \/ SweepOne(i)
      PROVE  Step1
  BY <1>3, <1>4, <1>9 DEF cancelInvitation, SweepOne, InviteStatuses
<1>10. ASSUME NEW p \in Players, OptOut(p)
       PROVE  Step1
  BY <1>3, <1>4, <1>10 DEF OptOut, InviteStatuses
<1>11. ASSUME closeTable
       PROVE  Step1
  <2>1. held' \subseteq held
    BY <1>4, <1>11 DEF closeTable, InviteStatuses
  <2>2. seated' = seated \ {}
    BY <1>11 DEF closeTable, seated, InState
  <2>3. QED
    BY <1>1, <1>11, <2>1, <2>2, Dropped DEF closeTable
<1>12. ASSUME Tick
       PROVE  Step1
  <2>1. \A i \in Invitations : invites[i].expiresAt \in Nat
    BY <1>0 DEF InviteRows, NoInvitation
  <2>2. held' \subseteq held
    BY <1>0, <1>12, <2>1 DEF Tick, held, Reserved, Typed, TypeOK
  <2>3. QED
    BY <1>3, <1>12, <2>2 DEF Tick
<1>13. ASSUME NEW c \in Clients, Request(c) \/ Abort(c) \/ DeleteSeat(c) \/ BanRead(c)
       PROVE  Step1
  BY <1>2, <1>13
     DEF Request, Abort, DeleteSeat, BanRead, ReadSeat, ApproveLock, BanLock, UpdateRead
<1>14. ASSUME NEW c \in Clients, WithdrawRequest(c)
       PROVE  Step1
  <2> DEFINE p == tx[c].who
  <2>1. seated' = seated \ ({p} \cap seated)
    BY <1>0, <1>14 DEF WithdrawRequest, seated, InState
  <2>2. held' \subseteq held /\ capacity' = capacity
    BY <1>14 DEF WithdrawRequest, held
  <2>3. QED
    BY <2>1, <2>2, AtMostOneGoes, Dropped
<1>15. ASSUME NEW c \in Clients, BanWrite(c)
       PROVE  Step1
  <2> DEFINE p == tx[c].who
             gone == IF tx[c].saw # "none" THEN {p} \cap seated ELSE {}
  <2>1. seated' = seated \ gone
    BY <1>0, <1>15 DEF BanWrite, seated, InState
  <2>2. held' \subseteq held /\ capacity' = capacity
    BY <1>4, <1>15 DEF BanWrite, InviteStatuses
  <2>3. gone \in SUBSET seated /\ Cardinality(gone) <= 1
    <3>1. {p} \cap seated \in SUBSET seated /\ Cardinality({p} \cap seated) <= 1
      BY AtMostOneGoes
    <3>2. QED
      BY <1>1, <3>1
  <2>4. QED
    BY <2>1, <2>2, <2>3, Dropped
<1>16. ASSUME NEW c \in Clients, ApproveWrite(c)
       PROVE  Step1
  <2> DEFINE p == tx[c].who
  <2>1. Available(reg, invites, capacity, clock) >= 1
    BY <1>16 DEF ApproveWrite, Step, IInv, ApprovalsHaveSeats, ApprovalHasSeat
  <2>2. p \in Players
    BY <1>0, <1>16 DEF ApproveWrite, Step, Typed, TxShape
  <2>3. held' = held /\ capacity' = capacity
    BY <1>16 DEF ApproveWrite, held
  <2>4. seated' = seated \cup {p} \/ seated' = seated
    BY <1>0, <1>16, <2>2 DEF ApproveWrite, seated, InState
  <2>5. QED
    BY <1>5, <2>1, <2>2, <2>3, <2>4, Untouched
<1>17. ASSUME NEW c \in Clients, NEW now \in Recent, GiveUpSeat(c, now)
       PROVE  Step1
  <2> DEFINE p == tx[c].who
             gone == IF tx[c].step = "deleted" THEN {p} \cap seated ELSE {}
  <2>1. now = clock
    BY <1>0, NoWait
  <2>2. Emptied(c) \in [Players -> RegStatuses]
    BY <1>0 DEF Emptied, RegStatuses
  <2>3. InState(Emptied(c), "confirmed") = seated \ gone
    BY <1>0 DEF Emptied, InState, seated
  <2>4. gone \in SUBSET seated /\ Cardinality(gone) <= 1
    <3>1. {p} \cap seated \in SUBSET seated /\ Cardinality({p} \cap seated) <= 1
      BY AtMostOneGoes
    <3>2. QED
      BY <1>1, <3>1
  <2>5. Available(Emptied(c), invites, capacity, clock) >= 0
    <3>1. /\ Available(reg, invites, capacity, clock) <= Available(Emptied(c), invites, capacity, clock)
          /\ Available(Emptied(c), invites, capacity, clock) \in Int
      BY <1>0, <2>3, FewerTaken DEF seated
    <3>2. QED
      BY <1>0, <3>1
  <2>6. PICK P \in SUBSET Players :
            /\ seated' = (seated \ gone) \cup P
            /\ Cardinality(P) <= Available(Emptied(c), invites, capacity, clock)
    <3>1. \E P \in SUBSET Players :
              /\ InState(reg', "confirmed") = InState(Emptied(c), "confirmed") \cup P
              /\ Cardinality(P) <= Available(Emptied(c), invites, capacity, clock)
      BY <1>0, <1>17, <2>1, <2>2, <2>5, MoveUpSeats DEF GiveUpSeat, Typed, TypeOK
    <3>2. QED
      BY <2>3, <3>1 DEF seated
  <2>7. Office!Left(capacity, seated \ gone, held) = Available(Emptied(c), invites, capacity, clock)
    BY <2>3, OfficeCount DEF held
  <2>8. held' = held /\ capacity' = capacity
    BY <1>17 DEF GiveUpSeat, held
  <2>9. QED
    BY <2>4, <2>6, <2>7, <2>8, Reseated
<1>18. ASSUME NEW c \in Clients, NEW cap \in Capacities, NEW mode \in JoinModes,
              NEW consent \in BOOLEAN, UpdateWrite(c, cap, mode, consent)
       PROVE  Step1
  <2> DEFINE inv == IF consent THEN Finish(invites, Invitations, "cancelled") ELSE invites
             H == held \ Reserved(inv, clock)
  <2>1. cap \in Int
    BY CapacitiesAssumption
  <2>2. Reserved(inv, clock) \subseteq held
    BY <1>0, FinishDrops DEF InviteStatuses, held
  <2>3. held' = held \ H /\ H \in SUBSET held /\ Reserved(inv, clock) = held \ H
    BY <1>18, <2>2 DEF UpdateWrite, held
  <2>4. Available(reg, invites, cap, clock) >= 0
    BY <1>18 DEF UpdateWrite
  <2>5. Available(reg, inv, cap, clock) >= 0 /\ Available(reg, inv, cap, clock) \in Int
    <3>1. /\ Available(reg, invites, cap, clock) <= Available(reg, inv, cap, clock)
          /\ Available(reg, invites, cap, clock) \in Int /\ Available(reg, inv, cap, clock) \in Int
      BY <2>1, <2>2, FewerTaken DEF held
    <3>2. QED
      BY <2>4, <3>1
  <2>6. PICK P \in SUBSET Players :
            seated' = seated \cup P /\ Cardinality(P) <= Available(reg, inv, cap, clock)
    <3>1. CASE MoveUp(reg, ledger, inv, cap, mode, clock)
      <4>1. \E P \in SUBSET Players :
                /\ InState(reg', "confirmed") = InState(reg, "confirmed") \cup P
                /\ Cardinality(P) <= Available(reg, inv, cap, clock)
        BY <1>0, <2>1, <2>5, <3>1, MoveUpSeats
      <4>2. QED
        BY <4>1 DEF seated
    <3>2. CASE UNCHANGED reg
      BY <1>1, <2>5, <3>2 DEF seated
    <3>3. QED
      BY <1>18, <3>1, <3>2 DEF UpdateWrite
  <2>7. /\ Office!Left(cap, seated, held) >= 0
        /\ Cardinality(P) <= Office!Left(cap, seated, held \ H)
    <3>1. Office!Left(cap, seated, held) = Available(reg, invites, cap, clock)
      BY OfficeCount DEF seated, held
    <3>2. Office!Left(cap, seated, held \ H) = Available(reg, inv, cap, clock)
      BY <2>3, OfficeCount DEF seated
    <3>3. QED
      BY <2>4, <2>6, <3>1, <3>2
  <2>8. Office!Resize(cap, H, P)
    BY <1>18, <2>3, <2>6, <2>7, SameCount DEF Office!Resize, UpdateWrite, seated, held
  <2>9. QED
    BY <2>3, <2>8 DEF Office!Next, held
<1>19. ASSUME Attendance
       PROVE  Step1
  BY <1>2, <1>6, <1>10, <1>11, <1>19 DEF Attendance, joinWaitlist, leaveWaitlist, OptIn, LiftBan
<1>20. ASSUME Invitation
       PROVE  Step1
  BY <1>2, <1>7, <1>8, <1>9, <1>20 DEF Invitation, SweepRead, SweepStops
<1>21. ASSUME NEW c \in Clients, Proceed(c)
       PROVE  Step1
  BY <1>13, <1>14, <1>15, <1>16, <1>17, <1>18, <1>21 DEF Proceed
<1>22. CASE UNCHANGED vars
  BY <1>2, <1>22 DEF vars
<1>23. QED
  BY <1>12, <1>13, <1>19, <1>20, <1>21, <1>22 DEF Next

\* Every behaviour of the code's transactions is one the abstract seats allow, when no request waits
\* for its lock past a tick of the clock it read.
THEOREM SeatsImplementTableSeats == ASSUME MaxWait = 0 PROVE Spec => SeatsAreAccounted
<1>1. Init => Office!Init
  BY InitOffice
<1>2. IInv /\ [Next]_vars => [Office!Next]_(Office!vars)
  BY NextOffice
<1>3. Spec => []IInv
  BY InductiveIInv
<1>4. QED
  BY <1>1, <1>2, <1>3, PTL DEF Spec, SeatsAreAccounted, Office!Spec

-----------------------------------------------------------------------------
(* The race of MCSeatsRuns is an instance of Seats, and meets its            *)
(* assumptions, so that the theorems above are theorems of it.               *)

LEMMA SameFinite == ASSUME NEW S PROVE Races!IsFiniteSet(S) <=> IsFiniteSet(S)
BY DEF Races!IsFiniteSet, IsFiniteSet

LEMMA RaceAssumptions ==
    /\ MCPlayers3 \subseteq Nat /\ Races!IsFiniteSet(MCPlayers3) /\ Races!IsFiniteSet(MCNobody)
    /\ MCRaces \subseteq Races!ClientKinds \cup Races!OtherKinds
    /\ {1, 2} \subseteq Nat \ {0} /\ {1, 2} # {}
    /\ 3 \in Nat /\ 1 \in Nat \ {0} /\ 1 \in Nat /\ 0 \in Nat
<1>1. IsFiniteSet(1..3) /\ IsFiniteSet({})
  <2>1. 1 \in Int /\ 3 \in Int
    OBVIOUS
  <2>. QED
    BY <2>1, FS_Interval, FS_EmptySet, Zenon
<1>2. MCPlayers3 \subseteq Nat /\ Races!IsFiniteSet(MCPlayers3) /\ Races!IsFiniteSet(MCNobody)
  BY <1>1, SameFinite DEF MCPlayers3, MCNobody
<1>. QED
  BY <1>2 DEF MCRaces, Races!ClientKinds, Races!OtherKinds

\* What the run does to the race is what Seats allows.
LEMMA RunsRace == RunSpec => Races!Spec
<1>1. RunInit => Races!Init
  BY DEF RunInit
<1>2. [RunNext]_<<focus, vars, race>> => [Races!Next]_(Races!vars)
  <2>1. UNCHANGED race => UNCHANGED Races!vars
    BY DEF race, Races!vars, Races!table, Races!profiles
  <2>. QED
    BY <2>1 DEF RunNext
<1>. QED
  BY <1>1, <1>2, PTL DEF RunSpec, Races!Spec

\* In the race no more seats are given out than the table has.
THEOREM RacesAreNotOverbooked == RunSpec => []RacesNeverOverbook
<1>1. Races!Spec => []Races!NoOverbooking
  BY Races!NeverOverbooked, RaceAssumptions
<1>. QED
  BY <1>1, RunsRace, PTL DEF RacesNeverOverbook

\* In the race the first of the line are seated as the loop of promoteWaitlist seats them.
THEOREM RacesSeatByTheLoop == RunSpec => []RacesPromoteByTheLoop
<1>1. Races!Spec => []Races!PromotionIsTheLoop
  BY Races!PromotesByTheLoop, RaceAssumptions
<1>2. Races!PromotionIsTheLoop => RacesPromoteByTheLoop
  BY DEF RacesPromoteByTheLoop
<1>. QED
  BY <1>1, <1>2, RunsRace, PTL

\* After a seat is given up in the race, nobody who could take one is left in the line.
THEOREM RacesLeaveNobodyInLine == RunSpec => RacesExhaustTheLine
<1>1. Races!Spec => Races!GivenSeatsGoToTheLine
  BY Races!LineTakesGivenSeats, RaceAssumptions
<1>. QED
  BY <1>1, RunsRace, PTL DEF RacesExhaustTheLine
=============================================================================
