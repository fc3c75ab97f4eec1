------------------------------- MODULE MCTables -------------------------------
(***************************************************************************)
(* The calendar of a table, the places of one of its sessions, and the       *)
(* owners of a partner, in one run.  They share no state here: `focus` is    *)
(* the one a behaviour is about, and the others stay as they were.           *)
(***************************************************************************)
EXTENDS MCSessionSignups, TableCalendar, Partners

VARIABLE focus

\* The parts a behaviour is not about start in one state each.
RunInit ==
    /\ focus \in {"calendar", "session", "partner"}
    /\ Init
    /\ CalendarInit
    /\ focus # "calendar" => table = [kind |-> "campaign", status |-> "active", startsAt |-> 1]
    /\ PartnersInit /\ (focus # "partner" => owners = {})

RunNext ==
    \/ focus = "calendar" /\ CalendarNext /\ UNCHANGED <<focus, vars, partnerVars>>
    \/ focus = "session" /\ Next /\ UNCHANGED <<focus, calendar, partnerVars>>
    \/ focus = "partner" /\ PartnersNext /\ UNCHANGED <<focus, vars, calendar>>

RunSpec == RunInit /\ [][RunNext]_<<focus, vars, calendar, partnerVars>>

\* Of the calendar: requests end, the sweeper runs every minute and time passes; the GM's flag is on.
RunFairness ==
    /\ WF_calendar(focus = "calendar" /\ SweeperStep) /\ WF_calendar(focus = "calendar" /\ DayEnds)
    /\ \A k \in Tabs : WF_calendar(focus = "calendar" /\ Answer(k))

FairRunSpec == RunSpec /\ RunFairness

\* The types of the three parts.
TablesTypeOK == TypeOK /\ CalendarTypeOK /\ PartnersTypeOK
=============================================================================
