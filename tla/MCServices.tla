------------------------------ MODULE MCServices ------------------------------
(***************************************************************************)
(* Parts that share no state, in one run: the decisions on a place, the      *)
(* score of a GM, the bans of an account, a mail, a rate limit, the import   *)
(* of campaigns, the locks of the transactions on the seats of a table.      *)
(* `focus` is the one a behaviour is about, and the others stay as they were.*)
(***************************************************************************)
EXTENDS Places, GmScores, Accounts, MailOnce, RateLimits, CrowdfundingImports

CONSTANT Clients

VARIABLES
    focus,
    \* of Seats
    reg, line, invites, capacity, joinMode, status, clock, suspended, inFlight, optedOut, sweep, tx,
    ledger

MCUrlOf == <<"u1", "u1">>

seats == <<reg, line, invites, capacity, joinMode, status, clock, suspended, inFlight, optedOut,
           sweep, tx, ledger>>

Locks == INSTANCE Seats
    WITH Players <- 1..2, Invitations <- {}, Capacities <- {1}, StartsAt <- 3, HoldFor <- 1,
         MaxTime <- 0, MaxWait <- 0, Kinds <- {"leave", "remove", "decline", "approve", "ban"}

\* The parts a behaviour is not about start in one state each.
Init ==
    /\ focus \in {"place", "score", "account", "mail", "limit", "import", "locks"}
    /\ PlacesInit /\ (focus # "place" => place.approved)
    /\ ScoresInit /\ AccountsInit /\ MailInit
    /\ LimitsInit /\ (focus # "limit" => kind = "audit")
    /\ ImportsInit
    /\ Locks!Init /\ (focus # "locks" => joinMode = "auto")

Next ==
    /\ UNCHANGED focus
    /\ \/ /\ focus = "place" /\ PlacesNext
          /\ UNCHANGED <<scoreVars, accountVars, mailVars, limitVars, importVars, seats>>
       \/ /\ focus = "score" /\ ScoresNext
          /\ UNCHANGED <<placeVars, accountVars, mailVars, limitVars, importVars, seats>>
       \/ /\ focus = "account" /\ AccountsNext
          /\ UNCHANGED <<placeVars, scoreVars, mailVars, limitVars, importVars, seats>>
       \/ /\ focus = "mail" /\ MailNext
          /\ UNCHANGED <<placeVars, scoreVars, accountVars, limitVars, importVars, seats>>
       \/ /\ focus = "limit" /\ LimitsNext
          /\ UNCHANGED <<placeVars, scoreVars, accountVars, mailVars, importVars, seats>>
       \/ /\ focus = "import" /\ ImportsNext
          /\ UNCHANGED <<placeVars, scoreVars, accountVars, mailVars, limitVars, seats>>
       \/ /\ focus = "locks" /\ Locks!Next
          /\ UNCHANGED <<placeVars, scoreVars, accountVars, mailVars, limitVars, importVars>>

Spec ==
    Init /\ [][Next]_<<focus, placeVars, scoreVars, accountVars, mailVars, limitVars,
                       importVars, seats>>

\* Admins' requests end; the sweeper lifts bans every minute and time passes, but no admin has to act
\* and no person to return; a transaction that may go on does, and the database ends a deadlock.
Fairness ==
    /\ PlacesFairness
    /\ WF_accountVars(focus = "account" /\ liftExpiredBans)
    /\ WF_accountVars(focus = "account" /\ HourPasses)
    /\ \A c \in Clients :
        /\ SF_seats(focus = "locks" /\ Locks!Proceed(c))
        /\ WF_seats(focus = "locks" /\ Locks!Deadlocked(c) /\ Locks!Abort(c))

FairSpec == Spec /\ Fairness

\* The types of the parts.
ServicesTypeOK ==
    /\ PlacesTypeOK /\ ScoresTypeOK /\ AccountsTypeOK /\ MailTypeOK /\ LimitsTypeOK /\ ImportsTypeOK

\* Every transaction on the seats ends, the ones that wait for each other's locks too.
TransactionsEnd == Locks!TransactionsEnd
=============================================================================
