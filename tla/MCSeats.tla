------------------------------- MODULE MCSeats -------------------------------
(* Instances of Seats for TLC.                                               *)
EXTENDS Seats, TLC

MCPlayers2 == 1..2
MCPlayers3 == 1..3
MCNobody == {}
MCRaces == {"leave", "approve", "waitlist", "close"}
MCInvitations == {"leave", "update", "waitlist", "optOut", "ban"}
MCApproval == {"leave", "approve"}
MCLine == {"leave", "waitlist"}
=============================================================================
