----------------------------- MODULE MCSeatsRuns -----------------------------
(***************************************************************************)
(* Two instances of Seats in one run: one table with an invitation, and one  *)
(* with three players, no invitation and two transactions that race.         *)
(* `focus` is the one a behaviour is about, and the other stays as it was.   *)
(***************************************************************************)
EXTENDS MCSeats

CONSTANT Racers

VARIABLES
    focus,
    \* of the race
    rReg, rLine, rInvites, rCapacity, rJoinMode, rStatus, rClock, rSuspended, rInFlight, rOptedOut,
    rSweep, rTx, rLedger

MCRacers == Permutations(Racers)

race == <<rReg, rLine, rInvites, rCapacity, rJoinMode, rStatus, rClock, rSuspended, rInFlight,
          rOptedOut, rSweep, rTx, rLedger>>

\* An instance of the module with the proofs, which has all of Seats: its theorems are the race's.
Races == INSTANCE SeatsProofs
    WITH Players <- MCPlayers3, Clients <- Racers, Invitations <- MCNobody, Kinds <- MCRaces,
         Capacities <- {1, 2}, StartsAt <- 3, HoldFor <- 1, MaxTime <- 1, MaxWait <- 0,
         reg <- rReg, line <- rLine, invites <- rInvites, capacity <- rCapacity,
         joinMode <- rJoinMode, status <- rStatus, clock <- rClock, suspended <- rSuspended,
         inFlight <- rInFlight, optedOut <- rOptedOut, sweep <- rSweep, tx <- rTx, ledger <- rLedger

\* The race on two seats is of tables that seat at once.
RunInit ==
    /\ focus \in {"invitations", "races"}
    /\ Init /\ (focus # "invitations" => capacity = 1 /\ joinMode = "auto")
    /\ Races!Init /\ (rJoinMode # "auto" => rCapacity = 1)
    /\ focus # "races" => rCapacity = 1 /\ rJoinMode = "auto"

RunNext ==
    \/ focus = "invitations" /\ Next /\ UNCHANGED <<focus, race>>
    \/ focus = "races" /\ Races!Next /\ UNCHANGED <<focus, vars>>

RunSpec == RunInit /\ [][RunNext]_<<focus, vars, race>>

\* In the race no more seats are given out than the table has, either.
RacesNeverOverbook == Races!NoOverbooking

\* Seating the first of the line at once is what the loop of promoteWaitlist does, turn by turn.
RacesPromoteByTheLoop == focus = "races" => Races!PromotionIsTheLoop

\* After a seat is given up in the race, nobody who could take one is left in the line.
RacesExhaustTheLine == Races!GivenSeatsGoToTheLine
=============================================================================
