-------------------------------- MODULE Partners --------------------------------
(***************************************************************************)
(* One partner: the accounts that look after it, the invitations that add    *)
(* one, and the admin's review (partners/owners.ts, service.ts, admin.ts).   *)
(*                                                                         *)
(* Every operation locks the partner's row and is one step.  Its `now` was    *)
(* read before the lock was granted, so it may be a day behind.              *)
(***************************************************************************)
EXTENDS Integers, FiniteSets

CONSTANTS
    People,     \* accounts
    Sender,     \* who sent the partner in: submitter_id
    MaxOwners,  \* MAX_PARTNER_OWNERS
    InvitationDays,  \* PARTNER_INVITATION_DAYS
    MaxDay,     \* bound of the clock
    MaxCalls    \* bound of the calls

ASSUME PartnersAssumption ==
    /\ IsFiniteSet(People) /\ Sender \in People
    /\ {MaxOwners, InvitationDays} \subseteq Nat \ {0} /\ {MaxDay, MaxCalls} \subseteq Nat

VARIABLES
    partner,      \* the partners row: approved, removed
    owners,       \* the partner_owners rows
    invitations,  \* People -> the last invitation of each
    day,
    callsLeft     \* what is left of MaxCalls

partnerVars == <<partner, owners, invitations, day, callsLeft>>

Endings == {"accepted", "declined", "cancelled", "expired"}
NoInvitation == [status |-> "none", expires |-> 0, answered |-> 0]

PartnersTypeOK ==
    /\ partner \in [approved: BOOLEAN, removed: BOOLEAN]
    /\ owners \subseteq People
    /\ invitations \in [People -> [status: {"none", "pending"} \cup Endings,
                                   expires: 0..(MaxDay + InvitationDays), answered: 0..MaxDay]]
    /\ day \in 0..MaxDay /\ callsLeft \in 0..MaxCalls

-----------------------------------------------------------------------------
\* A partner with no row yet is its submitter's alone.
ownersOf == IF owners = {} THEN {Sender} ELSE owners

\* Writes the submitter's row, whether the partner has rows or not.
settleOwners == owners \cup {Sender}

Nows == {day, day - 1} \cap Nat
PartnerCall == callsLeft > 0 /\ callsLeft' = callsLeft - 1

Pending(p) == invitations[p].status = "pending"
lapsed(p, now) == Pending(p) /\ invitations[p].expires <= now
waitingInvitations(now) == {p \in People : Pending(p) /\ invitations[p].expires > now}
finish(p, status, now) ==
    invitations' = [invitations EXCEPT ![p].status = status, ![p].answered = now]

Room(now) == Cardinality(ownersOf) + Cardinality(waitingInvitations(now)) < MaxOwners

\* A lapsed invitation of the same person ends as expired and this one takes its place.
invitePartnerOwner(p, now) ==
    /\ ~partner.removed /\ p \notin ownersOf /\ PartnerCall
    /\ Pending(p) => lapsed(p, now)
    /\ invitations[p].status = "declined" => now - invitations[p].answered >= InvitationDays
    /\ Room(now)
    /\ owners' = settleOwners
    /\ invitations' = [invitations EXCEPT
           ![p] = [status |-> "pending", expires |-> now + InvitationDays, answered |-> 0]]
    /\ UNCHANGED <<partner, day>>

\* Mistake: an acceptance counts on the place the invitation kept for it.
StillThere == ~partner.removed

\* Whether an acceptance still finds the partner there and a place in it.
HasPlace == ~partner.removed /\ Cardinality(ownersOf) < MaxOwners

Accept(p, now) ==
    /\ Pending(p) /\ ~lapsed(p, now) /\ PartnerCall
    /\ owners' = settleOwners \cup (IF HasPlace THEN {p} ELSE {})
    /\ finish(p, IF HasPlace THEN "accepted" ELSE "cancelled", now)
    /\ UNCHANGED <<partner, day>>

Decline(p, now) ==
    /\ Pending(p) /\ ~lapsed(p, now) /\ PartnerCall
    /\ finish(p, "declined", now)
    /\ UNCHANGED <<partner, owners, day>>

AnswerLate(p, now) ==
    /\ lapsed(p, now) /\ PartnerCall
    /\ finish(p, "expired", now)
    /\ UNCHANGED <<partner, owners, day>>

respondToPartnerInvitation(p, now) == Accept(p, now) \/ Decline(p, now) \/ AnswerLate(p, now)

cancelPartnerInvitation(p, now) ==
    /\ Pending(p) /\ PartnerCall
    /\ finish(p, "cancelled", now)
    /\ UNCHANGED <<partner, owners, day>>

\* An owner takes another off, or leaves; the last one cannot.
removePartnerOwner(p) ==
    /\ ~partner.removed /\ p \in ownersOf /\ Cardinality(ownersOf) # 1 /\ PartnerCall
    /\ owners' = settleOwners \ {p}
    /\ UNCHANGED <<partner, invitations, day>>

\* Any edit of an owner sends the partner back to review.
updatePartner ==
    /\ ~partner.removed /\ PartnerCall
    /\ partner' = [partner EXCEPT !.approved = FALSE]
    /\ UNCHANGED <<owners, invitations, day>>

approvePartner ==
    /\ ~partner.removed /\ ~partner.approved /\ PartnerCall
    /\ partner' = [partner EXCEPT !.approved = TRUE]
    /\ UNCHANGED <<owners, invitations, day>>

\* withdrawPartner of an owner, removePartner of an admin.
removePartner ==
    /\ ~partner.removed /\ PartnerCall
    /\ partner' = [partner EXCEPT !.removed = TRUE]
    /\ UNCHANGED <<owners, invitations, day>>

DayPasses ==
    /\ day < MaxDay /\ day' = day + 1
    /\ UNCHANGED <<partner, owners, invitations, callsLeft>>

-----------------------------------------------------------------------------
PartnersInit ==
    /\ partner = [approved |-> FALSE, removed |-> FALSE] /\ owners \in {{}, {Sender}}
    /\ invitations = [p \in People |-> NoInvitation] /\ day = 0 /\ callsLeft = MaxCalls

PartnersNext ==
    \/ \E p \in People, now \in Nows :
        \/ invitePartnerOwner(p, now) \/ respondToPartnerInvitation(p, now)
        \/ cancelPartnerInvitation(p, now)
    \/ \E p \in People : removePartnerOwner(p)
    \/ updatePartner \/ approvePartner \/ removePartner \/ DayPasses

PartnersSpec == PartnersInit /\ [][PartnersNext]_partnerVars

-----------------------------------------------------------------------------
(* Properties. *)

\* The invitations never take the partner past its limit: the accounts that joined by accepting one
\* are MAX_PARTNER_OWNERS at most, however many were invited, lapsed or removed meanwhile.
JoinedWithinLimit == Cardinality(owners \ {Sender}) <= MaxOwners

\* "An invite counts against MAX_PARTNER_OWNERS while it waits, so the list never ends up past the
\* limit" (owners.ts:20-21).
OwnersWithinLimit == Cardinality(owners) <= MaxOwners

=============================================================================
