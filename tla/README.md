# Mesa Aberta: specifications

TLA+ specifications of the parts of Mesa Aberta where concurrent requests, background runs and crashes meet,
with TLC models and TLAPS proofs. Paths are relative to `src/packages/core/src/server/` unless they begin
with `apps/` or `packages/`.

The last column of the inventory says which module has what: **done** is checked here, the rest is listed
under "Not modelled".

## 1. The system

Mesa Aberta is a site where game masters (GMs) offer tables and players join them. All state is in one
Postgres database. Four programs write to it through the services of `packages/core`:

| Program | What it does |
| --- | --- |
| `apps/web`, `apps/mcp` | render pages and tools, call the api |
| `apps/api` | authenticates, calls a service, answers, then dispatches the events the service recorded |
| `apps/worker` | a Cron Trigger runs `runScheduledTasks`; a queue's consumer runs the same dispatcher |
| admin pages | moderation, forced event runs, imports |

The parts meet in three ways.

- **Row locks.** Transactions are READ COMMITTED. Whoever changes the seats of a table locks its
  `game_tables` row with `SELECT ... FOR UPDATE` (`lockTable`); invitations lock the profiles first, then
  the table; a ban locks the profile, then the tables it finds. Some services read before they lock, and
  some write a row they did not lock. That is where the hazards are.
- **The outbox.** A service records its events in the transaction that makes the change. The dispatcher runs
  their handlers later: the request itself after its answer, the Cron Trigger's sweeper, the consumer of a
  queue that carries references, or an admin who forces an event.
- **Clocks.** Holds of invitations, the start of a session, leases and backoffs are compared with a `new
  Date()` read by the caller, often before it waits for a lock.

### Inventory

| Component | State | Operations | What is hard, and what must hold | Stage |
| --- | --- | --- | --- | --- |
| Registrations and the line (`registrations/`) | `registrations`, `table_waitlist` | join, leave, approve, decline, remove, wait, `promoteWaitlist` | capacity counted by many transactions; a row deleted before the table is locked; the line moves inside the leaver's transaction. No overbooking; no one skipped; the events say what the seats are | done: `Seats` |
| Invitations (`invitations/`) | `player_invitations` | invite, answer, cancel, opt out, block, expire | a hold is a seat until it lapses; five writers end one invitation; a list read without a lock. An answer is final; a hold is exchanged for its own seat | done: `Seats` |
| Edits and closing (`tables/write.ts`, `tables/end.ts`) | capacity, join mode, date, rule, status of `game_tables` | create, publish, edit, close, delete a draft | capacity and date compared with values read earlier; cancels invitations. Capacity never below what is taken; date and sessions agree | edit, publish and close done: `Seats`, `TableCalendar` |
| The calendar (`tables/sessions.ts`, `tables/session-actions.ts`, `tables/schedule*.ts`) | `table_sessions` | schedule, move, cancel, `closeSession`, `syncTableSessions` | every write rewrites the dates to come. The first scheduled session is the table's date; what happened stays | done: `TableCalendar` |
| Table lifecycle (`tables/lifecycle.ts`, `tables/close-reminders.ts`) | `awaiting_confirmation`, the reminders sent | answer, postpone, remind, automatic close and hold | the GM's answer against the sweeper's unlocked list; dates computed before the transaction. One answer per session; nobody closed on unwarned; every session settled | done: `TableCalendar` |
| Session sign-ups (`tables/session-signups.ts`) | places and waits of each session | sign up, withdraw, remove, `releaseSessionSeats` | the last one promotes without the session's lock. A place never goes to two, none stands free beside a waiter | done: `SessionSignups` |
| Bans (`moderation/admin.ts`, `moderation/bans.ts`) | `profiles.status`, bans | ban, revoke, lift expired, lift on a visit | finds what to lock by reading; a visit that read an older ban. A suspended player gets nothing; a ban is served and ends | done: `Seats`, `Accounts` |
| Account closing (`account/`) | the profile, the Auth user, the person's rows | close, empty, delete the Auth user | four calls that may stop anywhere; frees seats without the line moving. A closed account stays barred | the four calls done: `Accounts`; ratings done: `GmScores` |
| Ratings (`ratings/`) | `ratings`, `gm_scores` | rate, serve and recompute the score | a cache against what it sums up. A score that is served is of all ratings | done: `GmScores` |
| Places and claims (`places/`) | places, claims, reports on them | claim, approve, reject, report, edit, withdraw, restore | two approvals of one place wait for each other; reports hide a place while admins decide. One owner; hidden until restored | done: `Places` |
| Reports (`moderation/reports.ts`) | `reports` | file, review, settle | two reviewers read one report before either writes | on places: `Places` |
| Partners (`partners/`) | owners, invitations, review | invite, answer, cancel, remove, edit, approve | waiting invitations count against a limit; the submitter's row is written on the way. Owners within the limit | done: `Partners` |
| Crowdfunding import (`crowdfunding/`) | runs with a lease and a cursor, campaigns | run, checkpoint, finish, import, add, take down | a run that stalls past its lease; members and admins change campaigns meanwhile. Nothing passed over; what was taken down stays down | done: `CrowdfundingImports` |
| Event outbox (`events/`, `packages/events`) | `events` row: attempts, handledBy, lease, token | record, dispatch, sweep, force, consume | leases that run out mid-handler, crashes, lost and repeated references. No handler skipped, every event settles | done: `EventDispatch` |
| Mail (`mail/once.ts`) | the keys of sent mails | send once, prune | a crash between the provider's answer and the row; a provider that forgets; a run forced after the key is forgotten. A mail that was delivered is sent again only then | done: `MailOnce` |
| Limits (`rate-limit.ts`, `auth/attempt-limit.ts`, `messages/service.ts`) | rows counted in a window | count and write under a lock | clocks read before the lock. The limit holds in any window | done: `RateLimits` |
| Scheduled run (`events/sweeper.ts`) | none | its tasks, in order | each catches its own failure | its tasks are actions of the modules above |
| Messages, follows, badges, systems | single rows | single-row writes | little that interacts | not modelled |
| Web, MCP, reads, calendar feeds, flags, analytics, social | none of their own | queries, rendering, adapters | no state of the program's own | not modelled |

`PROJECT.json` lists the same components with their files, and the hazards with their lines.

## 2. Modules

| Module | What it is |
| --- | --- |
| `TableSeats` | what a table promises about its seats, without locks, requests or a line |
| `Seats` | the transactions of one table, as the services write them |
| `MCSeats`, `MCSeatsRuns` | instances of `Seats` |
| `SeatsProofs` | types, no overbooking, final answers, suspended players, the ledger, the line and its loop |
| `SeatsRefinementProofs` | `Seats` implements `TableSeats`; the theorems for the races of the run `seats` |
| `TableCalendar` | one table's date, its sessions, the GM's answers and edits, the sweeper's reminders and closes |
| `TableCalendarProofs` | proofs of all that is checked of the calendar, but liveness |
| `SessionPlaces` | what the places of one session promise, without locks, clocks or requests |
| `SessionSignups`, `MCSessionSignups` | the places and waits of one session of an open campaign; its instance |
| `Partners` | the owners and invitations of one partner |
| `MCTables` | `TableCalendar`, `SessionSignups` and `Partners` in one run |
| `TablesProofs` | proofs about `SessionSignups` (it implements `SessionPlaces`) and `Partners`; the types of the run |
| `Outbox` | what the outbox promises of one event, without dispatchers, leases or time |
| `EventDispatch` | one outbox row and its dispatchers |
| `MCEventDispatch`, `MCEventRuns` | its instances |
| `EventDispatchProofs`, `EventRunsProofs` | its proofs, that it implements `Outbox` among them; the theorems for *kept* |
| `Places` | claims, reports and admins' decisions on one place |
| `GmScores` | the kept score of one GM |
| `Accounts` | bans and the closing of one account |
| `MailOnce` | one mail of a handler that is retried |
| `RateLimits` | what one person or address may do in a window |
| `CrowdfundingImports`, `CrowdfundingImportsProofs` | the daily runs of one source's import; their proofs |
| `MCServices` | the modules of the smaller services, and the locks of `Seats`, in one run |
| `ServicesProofs` | proofs about `Places`, `RateLimits`, `GmScores`, `Accounts` and `MailOnce`; the types of the run |

Operators under a comment that begins with `Mistake:` are not part of a specification. Each is a definition
with a plausible bug; put in the place of the right one, it makes TLC violate the property it is paired with
in `PROJECT.json`.

### Seats

State: `reg` (status of each player's registration), `line` (when each joined the waitlist), `invites`, the
table's `capacity`, `joinMode` and `status`, a `clock`, the `suspended` and `optedOut` profiles, the
candidates the expiry `sweep` has read, `tx` (what each concurrent transaction is doing) and `ledger`, which
follows the recorded events: a player is "seated" from the last `PlayerJoined` or `JoinApproved` about them,
"unseated" from a `PlayerLeft`.

How a service becomes actions depends on where it reads. One that takes the table's lock first and reads
only under it is a single action whose guard is that nobody holds the lock (`joinTable`, `joinWaitlist`,
`invitePlayer`, `respondToInvitation`, `cancelInvitation`, `OptOut`, one candidate of the sweep). Otherwise
it is a transaction in `tx`:

| Service | Actions |
| --- | --- |
| `leaveTable`, `declineRegistration`, `removePlayer` | `ReadSeat` (unlocked), `DeleteSeat` (holds the row, not the table), `GiveUpSeat` (table's lock, promotion, commit); a withdrawn request is `ReadSeat`, `WithdrawRequest` |
| `approveRegistration` | `ApproveLock` (table's lock and the count), `ApproveWrite` (waits for the row) |
| `updateTable` | `UpdateRead` (outside the transaction), `UpdateWrite` |
| `banAccount` | `BanLock`, `BanRead`, `BanWrite` |
| `expireInvitations` | `SweepRead` (no lock), `SweepOne` per candidate, `SweepStops` |

A transaction's writes are invisible until its last action. `Abort` ends one at any step without its writes.
`inFlight` are suspended players who have a request that was authenticated before their ban. `now` is any
clock value at most `MaxWait` old: the one the request read before it had its lock.

`MoveUp` is `promoteWaitlist` in one go: the first of the line, as many as there is room for. The code takes
one player per turn and counts again (`Turn`, `promoteWaitlist`); `RacesPromoteByTheLoop` compares the two in
every reachable state of a run, and `MoveUpIsTheLoop` proves them equal.

Left out: rate limits, who may see a table, chat membership, mail, the session places of a leaving player
(`SessionSignups`), more than one table (a ban locks several; here it meets one), a date that an edit moves
(`TableCalendar`). The wait of `closeTable` for a pending row being deleted is part of its guard; `BanLock`
merges finding the rows with locking the table. A request that the code refuses is no action. The start of
the session is fixed.

### EventDispatch

State: `row` (processed, given up, attempts, handledBy, the distance to `nextAttemptAt` and `claimedUntil`,
the token), `disp` (the dispatch of each dispatcher), `queue` (references in flight), `done` (handlers that
really succeeded), `owner` (who claimed last) and `calls`, the bound.

Every statement on the row is an action: `Claim` or `Skip`; then each handler with `HandlerSucceeds` or
`HandlerFails`, and `Mark`; then `Release`, `Done` or `Fail`. A fenced dispatch's updates ask for its token
(`Owns`), and `Lost` is what it does when they match no row. `Request`, `Sweep`, `Deliver`, `forceEvent`
start dispatches; `Crash` loses one. Times are relative to the present, so `Tick` shifts them and nothing
has to be cut off; below `-MaxRun` they are indistinguishable to any running dispatch, so they stop there.

What fencing is in the code decides much here: only the queue's consumer has a token and a live clock. The
Cron Trigger's sweeper and an admin's forced run update the row by its id alone, and they claim with the
`now` of the start of their run. A request may be either way, by its flag; the model tries both.

Of all that, `Outbox` keeps the state of the event, the handlers on record and the failed rounds; a claim, a
lease, a call or a lost reference is a stutter. While leases outlast the work a row is one of its behaviours
(`ActsAsOutbox`).

Left out: the payload and its version, what handlers do, the poll limit of a sweep, the `EventForced` row
that a forced run records (another row of the same kind), retention, several rows. Between the moment a
forced run reads its clock and its update no time passes in the model.

### SessionSignups

State: `seated` (who has a confirmed registration), `going`, `since` (when a row that waits was created),
`put` (those going whom the GM put in, full or not), `clock` and `tx`. One session, scheduled and ahead.

| Service | Actions |
| --- | --- |
| `signUpForSession` | `SignUpRead` (seat and clock, before the transaction), `SignUpLock` (session's lock, the count), `SignUpWrite` |
| `leaveSession`, `removeFromSession` | `LeaveLock`, `LeaveWrite` (`takeOff` and `promote`) |
| `addToSession` | `AddLock`, `AddWrite` |
| `leaveTable`, `removePlayer` | `DepartRead`, `DepartDelete`, `DepartPromote` (the count and who is next), `DepartFinish` (their rows, the registration, and by its foreign key any sign-up the player still has) |

A departure holds the sign-up row it deleted (`RowFree`), then the table's row from the first
`playersChanged` on (`TableFree`), never the session's. Every write that changes who plays waits for the
table's row, so the count and the read that follows it in `promote` see the same players and are one step.

The last action of a transaction makes all its writes and takes the locks they need; one that Postgres would
abort to break a lock cycle is an `Abort`. `DepartDelete` counts its row as locked even when there was none
left.

`Alone` names operations that run only while no other transaction does. It is an assumption of an instance,
not something the code ensures: the run `tables` makes departures alone, and `session_two_people` shows what
happens otherwise.

`SessionPlaces` has who plays, who waits and who is ahead of whom. A sign-up is a `Play` or a `Queue` at its
last action, by the places free at that moment although it counted two actions before; whoever stops playing
is replaced in the same step. `PlacesAsPromised` maps to it while departures are alone.

`LeaveWrite` reads who is next and writes that row in one step, where the code has two statements
(`session-signups.ts:127`). Between them only a departure could come, since everybody else waits for the
session's lock; with departures alone nothing is lost, and beside them the model has fewer behaviours than
the code, so what `session_two_people` shows stands.

Left out: several sessions of a departing player (each is released in turn), the session's size changing (an
edit promotes nobody: a hazard without a property yet), its start and cancellation, a ban's departures,
which hold the table's lock from the beginning, the calendar's sequence number, events and mail.

### TableCalendar

State: `table` (kind, status, date), `rows` (the `table_sessions`), `sent` (the reminders on record),
`asked` (the GM's answers in flight, with the date each read and the next date it computed), `due` (what the
sweeper's unlocked read found to do) and `today`. Dates are ticks; `Week` ticks make the rule's interval.

| Code | Actions |
| --- | --- |
| `concludeTable`, `holdSession`, `skipSession`, `markTableNotHeld`, `postponeTable` | `Ask` (authorized and computed before the transaction), `Answer` (`Takes`, the outcome, the sync) |
| `finishTable`, `disableTable` and the admin's close | one action each, with the sync |
| `updateTable`, `publishTable` | one action each; publishing alone does not sync |
| `scheduleSession`, `moveSession`, `cancelSession` | one action each, with `Follow` (`followFirst`) and the sync |
| `closeElapsedTables` | `closeElapsed` |
| `remindToClose` | `remindToClose` (the list, no lock), then `remind`, `autoClose` or `autoHold` |

`Sync` is `syncTableSessions` as a function of the rows and the table; `Fresh` is the dates it adds.
`closeSession` and `Sync` are operators, since every caller runs them in its own transaction. `Busy` stands
for the GM's other tables.

Left out: the planned number of sessions, notes, time zones and daylight saving (a week is a constant),
lengths that differ between rows, the 52 weeks a form may look ahead, attendance, `allowRatings`, the
invitations an answer cancels (an action of `Seats`). An open campaign stands among the campaigns. Of
`updateTable` only the date and the rule are modelled, with any date.

### Places

State: `place` (approved, hidden, removed, owner), `claims` and `reports` (the last of each member), `desk`
(the transaction each admin runs). Members' requests, and admin actions that lock only the place, are single
actions. `approveClaim` and `rejectClaim` are `lockClaim`, `lockPlace`, then the decision, which waits for
the other pending claims; `abort` is Postgres ending one of two that wait for each other. A decision on a
report is `readReport`, without a lock, and `writeReport`, by its id.

Left out: the hosts and partner links of a place, reports on other kinds of target (the same two functions
decide them). `submitPlace` is the initial state; a place starts approved or waiting.

### Partners

State: `partner`, `owners` (the `partner_owners` rows), `invitations` (the last of each person), `day`.
Every operation locks the partner's row and is one action; its `now` may be a day old. `settleOwners` writes
the submitter's row and `ownersOf` reads the owners as they were before.

Left out: reports on a partner, its types, its links to places; `withdrawPartner` is `removePartner`.

### GmScores

State: `given` (the ratings), `score` (the `gm_scores` row), `page` (what each page read), `closed`,
`month`. A score is the set of ratings it was worked out from. `readRow`, `readRatings`, `keepScore` are the
three statements of `gmRatings`; `touch` is the trigger of `drizzle/0032_gm_score_cache.sql`.

Left out: the formula and the mean of all GMs that it uses (another GM's rating changes it and leaves the
row as it is: the code takes that for good enough), and who may rate.

### Accounts

State: `account` (status, ban and its end, emptied), `authUser`, `visit` (requests of the person), `hour`.
Closing is `deleteAccount`, `closeAccount`, `anonymiseProfile`, `deleteAuthUser`, and `visitDies` between
any two. A visit that finds an expired ban is `stillBanned`, then `LiftOnVisit`, whose update asks again; the
visit then goes on as an active account's (`in`), also when the update matched no row because there is a new
ban, and may close the account.

Left out: the seats, tables and messages of a closed account.

### MailOnce, RateLimits

`MailOnce`: one mail, its key in `mail_deliveries` and in the provider's memory, any number of runs of its
handler at once, each of which may die after any step. A run may start at any age of the event: the
dispatcher's retries come within days, but an admin may force an event that was given up for the 90 days it
is kept, and a pending one for ever (`events/dispatcher.ts:298`, `:443`), and the key goes after 30.
`RateLimits`: requests that read a clock and then
wait for a lock; three ways to count, one per instance (`kind`). A row of the audit log carries either the
request's clock or the database's.

### CrowdfundingImports

State: `runs` (the row of each day: status, token, cursor, lease), `worker` (invocations), `mapped` (which
campaign an item of the list is), `listed`, `takenDown`, `passedBy`, `today`. `claimRun`, `checkpointRun`,
`finishRun` are the three statements on a run; `importCandidate` and `SkipItem` handle an item;
`addCrowdfunding` and `removeCrowdfunding` are members and admins. `WorkerDies` and `LeaseRunsOut` may come
at any point.

Left out: the pages (one list here), a cursor that starts again when the adapter's version changes, images,
other addresses of one campaign, reports, and a list that changes between days.

## 3. Runs

TLC takes one run per group of modules. Modules that share no state are checked in one run by a variable
`focus`: each behaviour is about one part, chosen at the start, and the others keep their initial state (one
state, for those a behaviour is not about). So the states of a run are the sum of its parts', not the
product, and every property says of a part what it would in a run of its own.

| Run | What it checks | Result |
| --- | --- | --- |
| `seats` | `MCSeatsRuns`. *invitations*: two players, an invitation that reserves, lapses, is answered, edited away, opted out of, banned or swept. *races*: three players, two concurrent transactions. Is the table ever overbooked, are seats what `TableSeats` promises, are answers final, does the line move as the loop does, is anyone left behind? | holds |
| `events` | `MCEventRuns`. *overrun*: leases shorter than the work, forced runs, fenced and unfenced. *kept*: leases longer than the work; crashes, lost and repeated references, failing handlers. Is a handler skipped, does a fenced loser write; while leases are kept: does the row do what `Outbox` promises, no recorded handler again, always settled? | holds |
| `tables` | `MCTables`. *calendar*: do the rows say what the table says, does a session that happened stay, is a table moved onto another, closed without notice, answered twice, left waiting? *session*: four players, a session of two, departures alone: free places, two people on one, places that change only as `SessionPlaces` allows. *partner*: those who join by invitations and the limit | holds |
| `services` | `MCServices`. *place*, *score*, *account*, *mail*, *limit*, *import*, and *locks*: delete-then-lock against lock-then-write on the seats of a table, where every transaction must end | holds, with Postgres's deadlock abort |
| `stale_clock` | and if a request waits for its lock while the clock moves? | **overbooked** |
| `stranded` | does every freed seat go to the line? | **no** |
| `leaver` | is someone who left out? | **no** |
| `ledger` | do the events tell who has a seat? | **not when a withdrawal races an approval** |
| `event_takeover` | can a dispatch that was taken over still write? | **yes, one without a token** |
| `session_two_people` | and with departures beside other transactions? | **two people get one place** |
| `partners_limit` | do the owners of a partner stay within their limit? | **no, the submitter comes back** |
| `messages_limit` | is the limit of messages kept when senders wait for their lock? | **no** |

### What the properties say

The properties of `seats`, `events` and the session are in the modules' comments. Of the others:

- `KeptActsAsOutbox`: the row, seen as state, record and attempts, only does what `Outbox` allows: processed
  once and with all handlers on record, one attempt a failed round, given up at the last one and not before,
  begun again only then. `PlacesAsPromised`: the same of a session's places, `SessionPlaces`: one step per
  place given up or taken, the first in line at once, nobody else's turn changed.
- `RowsMatchTable`, `StaysInLine`: a table's date is its first scheduled session, nothing is scheduled after
  the end, and a second sync would change nothing, after any mix of answers, edits, moves and cancellations.
  `HistoryKept`: no later edit touches a session that passed.
- `NoClash`: whichever way the date moved, it is free among the GM's tables, although it was computed before
  the lock.
- `WarnedBeforeClose`: the sweeper answers only for the session it read, its last reminder sent and its
  notice over, even if the GM moved the table meanwhile.
- `OneAnswer`, `Settles`: of two answers one takes the table; a GM who never answers does not hold it for
  ever, unless there is no free date in sight.
- `OwnerEndsClaims`, `DecisionsEnd`: one owner, no claim left waiting; every decision ends, also that of an
  approval that gets the place's lock when somebody else owns it, or that waits in a cycle with another. `HiddenUntilRestored`: an edit, an approval, a claim or a report that comes late does not list a
  hidden place. A report that waits on a listed place is not excluded: a review that was read before the
  restoration and is written after it makes one.
- `ServedScoreIsCurrent`: a score that is served without being worked out is of all the ratings, until the
  account closes.
- `BanIsServed`, `ClosedStaysBarred`, `TemporaryBansEnd`: a visit that read an old ban does not lift a new
  one; no sweep, visit or admin brings a closed account back that has no ban on it; a temporary ban ends
  without anyone acting, unless the account is closed first. `BanIsServed` is about the row: the visit
  itself is let in.
- `MailedAgainLate`: however many runs there are at once and however late, a mail that was delivered is
  delivered again only when the run that sent it was lost before it kept the key, or when the key's whole
  retention has gone by. Both happen in the run; the second is the ninth disagreement below.
- `WithinLimit`: in any window of the clock, not only those that end at a request.
- `NothingPassedOver`, `PlaceIsKept`, `TakenDownStaysDown`: what is behind a cursor is known, a stalled run
  does not move it back, and no import puts up what an admin took down.

### The disagreements

The first eight have a run each.

1. `stale_clock`. `respondToInvitation` (`invitations/service.ts:231`) compares `expiresAt` with a `now`
   read before it waits for the profiles' and the table's locks, then seats the player without counting:
   "the reservation already owns this seat". Steps: an invitation holds the only seat; the player accepts
   and the clock is read; while the request waits the hold lapses and another player joins (the hold no
   longer counts); the accept goes through. Two players, one seat.
2. `stranded`. `packages/db/src/schema.ts:740` says the first in line takes a freed seat in the same
   transaction. Only leaving, removal, declining a request and a larger capacity promote. A declined or
   cancelled invitation and a ban do not: the seat is open to whoever joins next, past the line.
3. `leaver`. Joining or accepting leaves the player's waitlist row. Leaving then promotes the leaver: they
   are first in line and no longer registered.
4. `ledger`. `leaveTable` chooses between "withdraw a request, no event" and "leave, `PlayerLeft`" from an
   unlocked read. An approval in between makes it delete a confirmed seat silently, with nobody promoted; in
   the other order `JoinApproved` is recorded for a row that is gone.
5. `event_takeover`. The comment on `claimToken` (`schema.ts:554`) holds for fenced dispatches only. A
   sweeper that claims with an old clock takes a lease that is nearly over; the next dispatcher claims the
   row, and the sweeper still marks handlers and finishes it.
6. `session_two_people`. `session-signups.ts:17` promises that the first who waits takes a place "in the
   same transaction, under the session's lock, so a place never goes to two people". `releaseSessionSeats`
   (`:320`) does not take that lock. A player leaves the table while the GM removes them. One departure read
   the sign-ups before the GM put the player in the session: its `DELETE` of the registration takes the
   place with it and nobody moves up. A sign-up takes the lock and counts the place free; the other
   departure, which read the row as "going", promotes the first who waits; both commit. The first half alone
   already leaves a free place beside somebody who waits (`NoIdlePlace`), until the next one to sign up
   takes it, past the line.
7. `partners_limit`. `partners/owners.ts:20` says the owners never end up past the limit, and `:61` that
   `settleOwners` writes the submitter's row for a partner that has none. It inserts the row whether there
   are others or not. A submitter who was taken off comes back with the next invitation, acceptance or
   removal; an acceptance counts the owners as they were before, so the list can pass the limit by one.
   Those who joined by an invitation never do (`JoinedWithinLimit`).
8. `messages_limit`. `messages/service.ts:240` serialises a person's sends "so two at once cannot both slip
   under the limit". The count leaves out messages later than the request's clock, which was read before the
   lock. Requests that get the lock in the other order than they read their clocks do not count each other.
   `checkRateLimit` and `recordAttempt` have no upper end, and keep their limit.

`MaxWait = 0` in the passing runs is exactly the assumption that the first and the last show to be needed.
The other six need no timing.

Two more comments say what the code does not do. They have no run of their own, because the passing
properties are stated so as to allow exactly what happens:

9. `mail/once.ts:10` says a delivery is remembered "well past any retry of the event that sent it", and
   `events/dispatcher.ts:294` that a forced run "is as safe as the sweeper's own retry". Neither holds for
   an event that was given up: a handler that mails several people keeps the keys of those it reached
   before an address failed (`events/close-reminder-mail.ts:189`), the keys go after 30 days, and a run
   forced after that, within the event's 90, mails them again with no run lost. In *mail* it takes one run,
   `Retention + 1` ticks, `pruneMailDeliveries` and a second run; `MailedAgainLate` allows it as "the
   retention has gone by".
10. `moderation/admin.ts:606` says a closed account "is suspended with no ban on it: it cannot come back". One
   that is banned between `deleteAccount` and `anonymiseProfile` keeps its ban when it is emptied, and a
   revocation, the sweeper or a visit of the person while the Auth user is alive sets the emptied profile
   active. `ClosedStaysBarred` is about accounts without a ban, which do stay barred.

### Bounds, and why they are enough

- `seats`, *races*: 3 players, so that two can wait in line while one has the seat and an order between them
  matters; capacity 1, and 2 at a table that seats at once (room for two to move up); two transactions of
  several steps, with any number of the single-step ones between them. One tick separates two arrivals in
  line, and equal times occur too. No invitations: the other part, which has them, has one transaction.
- `seats`, *invitations*: one invitation, two players, one transaction, `HoldFor` 1, so that it lapses
  within `MaxTime`, before the start. An invitation row answers once, so one row shows every answer; a
  second invitation of the same player is refused by the code while the first is live.
- `events`, *overrun*: one sweeper and two callers, since a fenced dispatch must be able to lose to another
  fenced one; `Lease` 1 and `MaxRun` 1, so a late claim's lease ends while it works. Two handlers, one live:
  the least for "mine" and "left to others" to differ. Two calls (requests, forced runs, crashes and
  repeated deliveries together). `MaxAttempts` 2 with backoffs 1 and 2 meets both the doubling and its cap.
- `events`, *kept*: `Lease` 2 exceeds `MaxRun` 1, which is what the code aims at: leases of two minutes
  against handlers of seconds. One sweeper and one caller, fenced or not, and four calls: a kept lease lets
  in no third.
- `tables`, *calendar*: three sessions to come of a rule with a week of two ticks, so that a move by one
  tick leaves the grid; dates to 7, so that the rule has dates past the ones on the list; one busy date, on
  the way of the rule. Reminders at 0 and 1 ticks, the close at 2 with a notice of 1: a late sweep skips the
  first reminder, and a late last reminder postpones the close. Five ticks settle the first session and its
  successor. Two calls of the GM besides the sweeper: an answer in flight and an edit under it, or a move
  and a cancellation. One answer in flight at a time; the second of two answers meets a table that no longer
  waits, as one that an edit or the close overtook does.
- `tables`, *session*: a session of two, so that room is sometimes more than one and sometimes nothing, and
  four players, so that two can wait in an order. Two transactions; one tick, so that arrivals differ or
  tie.
- `tables`, *partner*: a limit of two and four people, so that both places can go to others than the
  submitter; invitations of one day in a clock of two; seven calls, one more than the counterexample of
  `partners_limit` takes.
- `services`: three members, two of whose reports hide a place, and two admins, which a lock cycle takes;
  two ratings and two pages that overwrite each other; two bans in three hours, with two requests of the
  person; three runs of a mail's handler, a provider that forgets after two ticks, a retention of three in
  a clock of six, so that a run comes after each; three requests against a limit of two in a window of two;
  a list of two items at one address, two workers and two days; two transactions and two players for one
  seat.
- `session_two_people`: one place, three players: who leaves, who waits, who signs up.

Symmetry is used over `Racers` in `seats`, a run of safety properties; no definition orders them. Players
are naturals because ties in the line are broken by order, and are not symmetric. `CHECK_DEADLOCK FALSE`
stands where something ends for good: a disabled table at the last tick, a closed account, a mail that was
sent, the last day of an import. Deadlock is checked in `events` and in the instances of `SessionSignups`
alone.

### Fairness

- Locks of `Seats` (`services`): `SF(Proceed(c))`, since Postgres queues the waiters of a row lock, so one
  that is able to go on again and again does; `WF(Deadlocked(c) /\ Abort(c))`, since Postgres detects a lock
  cycle and aborts one of its transactions. Without the latter, `TransactionsEnd` fails: the cycle is real.
  No request is assumed to arrive.
- `Places`: `WF(Finish(a))`, which includes `abort`, for the same reasons. Two admins need no strong
  fairness: whoever waits, waits for one transaction that ends.
- `EventDispatch` (*kept*): `WF(Tick)`, `WF(Proceed(d))` (a dispatch goes on unless it crashes),
  `WF(Sweep(d))`: the Cron Trigger fires for ever. Nothing is assumed of requests, of the queue or of
  handlers succeeding: an event settles because attempts are counted. Crashes are bounded by `MaxCalls`:
  with endlessly many an event would never settle. The sweep takes 50 rows a run, oldest first; with one row
  the limit is never met.
- `TableCalendar`: `WF` of the sweeper's steps, of the clock and of an answer that was sent. Nothing is
  assumed of the GM. The flag that lets the sweeper remind is taken to be on. `Settles` excuses a close that
  the bounded clock does not reach, and a campaign with no free date.
- `Accounts`: `WF(liftExpiredBans)` and of the clock.

## 4. Proofs

Everything below is checked by TLAPS for all values of the constants that satisfy the modules' `ASSUME`s
(naturals, finite sets, at least one attempt, and so on). Every safety property of a passing run, the
refinements included, is a theorem. Some assume more:

| Assumption | Theorems | Why |
| --- | --- | --- |
| `MaxWait = 0`: no request outwaits its clock | `NeverOverbooked`, `SeatsImplementTableSeats`, and `LimitsHold` for messages | false otherwise: `stale_clock`, `messages_limit` |
| the same | `LineTakesGivenSeats` | the line is moved by the request's clock, and the property counts holds by the present one |
| `LeaseOutlasts`: `Lease > MaxRun` | `GivenUpExactlyAtTheCap`, `RecordedHandlersRest`, `NobodyIsTakenOver`, `DispatchImplementsOutbox` | what `LEASE_MS`, two minutes against handlers of seconds, is there for |
| `KeepsLeases`: the same of the instance *kept*, with somebody to call | `KeptImplementsOutbox`, `KeptRecordedHandlersRest` | what *kept* is for |
| `"depart" \in Alone` | `NobodyWaitsInVain`, `NeverOversold`, `MoveUpInTurn`, `SignupsImplementPlaces` | false otherwise: `session_two_people` |
| no `LateAcceptance` | `OnlyLateAcceptancesOverbook` | the step that `stale_clock` finds, and nothing else |
| no `StaleWrite` | `OnlyStaleWritesMislead` | the steps that `ledger` finds, and their like |

A mail's `ProviderWindow` is at least one tick: a provider that forgets at once takes the same mail from two
runs. The dates a calendar may start from (`StartDates`) are any free ones, where the run takes one.

**`SeatsProofs`.**
- `TypeCorrect`, `TypesHold`: `Typed` is `TypeOK` and that a transaction which names a player names one of
  the table's.
- `NeverOverbooked`, under `MaxWait = 0`. `NoOverbooking` is not inductive: the last step of an approval
  writes without counting. The invariant is `IInv == Typed /\ MutualExclusion /\ ApprovalsHaveSeats /\
  NoOverbooking`: at most one transaction holds the table's lock, and while an approval holds it the seat
  that it counted is still free. The first makes the second stable, since only lock holders take seats.
  `MaxWait = 0` is used in one place, the accepted invitation: the hold it exchanges is among those counted
  now. Lemmas on counts (one more, one fewer, a bounded union) rest on `FiniteSetTheorems`.
- `OnlyLateAcceptancesOverbook`, for any `MaxWait`: a clock that is behind counts more holds, so every other
  step that counts by it only errs on the safe side (`StaleCounts`). The first disagreement is the acceptance
  of an invitation that ran out meanwhile (`LateAcceptance`), and nothing else in the model.
- `AnswersNeverChange`: from the type invariant and `Finish`, which writes over pending rows only.
- `SuspendedStayOut`: every step that turns "none" into a seat looks at the status or spends `inFlight`.
- `OnlyStaleWritesMislead`, for any number of transactions: the fourth disagreement is one step, a
  withdrawal, an approval or a seat given up (`StaleWrite`) whose registration is not what the transaction
  read. The invariant `AllHaveRead` says what each must have read to be where it is. A ban and an edit
  never mislead: they tell what they write.
- `LineTakesGivenSeats`, under `MaxWait = 0`: `MoveUpExhausts` says that `MoveUp`, which takes as many as
  there is room for, leaves either no room or nobody who could take it; it counts the seats before and
  after, at tables that seat at once and at tables that ask.
- `MoveUpIsTheLoop`, `PromotesByTheLoop`: what `MoveUp` publishes is what the turns of `promoteWaitlist`
  come to. The loop is a recursive function, unrolled to a run of turns (`RunExists`, `LoopIsARun`); by
  induction on the turns (over the naturals, by their well-foundedness) they take the first of the line off
  it and seat those who can join, until there is no room or no line (`TurnsTakeTheFirst`,
  `LoopSeatsTheFirst`); and only one set of players is first in line (`OneFirstInLine`), since the line is
  ordered strictly (`LineOrder`).

**`SeatsRefinementProofs`.** `SeatsImplementTableSeats`: under `MaxWait = 0` each action maps to one of
`Reseat`, `Drop`, `Hold`, `Exchange`, `Resize` or a stutter. Expiry is a `Drop` made by the clock. It uses
`IInv`: an approval is a `Reseat` because its seat is still free. `RacesAreNotOverbooked`,
`RacesSeatByTheLoop` and `RacesLeaveNobodyInLine` carry the theorems of `SeatsProofs` to the instance and the
specification of the run: its constants meet the assumptions (`RaceAssumptions`), and what the run does to
the race is a behaviour of it (`RunsRace`).

**`EventDispatchProofs`.**
- `TypesHold`: the attempts never pass the cap. Needs that a claim saw fewer than `MaxAttempts` attempts
  (`Capped`): a row at the cap has been given up, and cannot be claimed until a forced run resets it.
- `FencedDispatchesLeave`: from `TokenIsLast`, that the row's token is none or the last claimer's. It needs
  nothing about leases or clocks.
- `NothingIsSkipped`: with `AllCovered`, every handler is on the record, among those a running dispatch has
  yet to run, or left to others, or that dispatch has failed. No lease or token is used: even the unfenced
  overlap of `event_takeover` loses no handler.
- `GivenUpExactlyAtTheCap`, `RecordedHandlersRest`, under `LeaseOutlasts`. The invariant is `LeasesKept`: one
  dispatch at most runs (`OneHolds`); it still has its lease, and the attempts it saw and the handlers it
  has yet to run are those of the row (`KeepsLease`); and the row is given up exactly at the cap. A claim that
  starts late has spent some of its lease already, which is why it sums the lease and the dispatch's age.
- `NobodyIsTakenOver`, under `LeaseOutlasts`: whoever runs is the last to have claimed (`HolderOwns`). The
  fifth disagreement is therefore one of leases that run out under a dispatch.
- `DispatchImplementsOutbox`, under `LeaseOutlasts`: every action is a step of `Outbox` or a stutter. A
  `Done` is a `Process` because a dispatch with nothing left to run, not failed and that routed nothing,
  has all the handlers on the record; a `Fail` counts the attempts of the row because they are those it saw.

**`EventRunsProofs`.** `KeptImplementsOutbox` and `KeptRecordedHandlersRest`: the last two for the instance of
the run `events` that keeps its leases.

**`TablesProofs`.**
- `SessionsAreTyped`, with departures concurrent or not. That nobody plays and waits at once needs the
  session's lock: a sign-up that holds it finds no row of its player when it writes (`NoPlaceYet`), since
  whoever else could make one holds the lock too, and a departure promotes only rows that are there.
- `NobodyWaitsInVain` (`NoIdlePlace`), `NeverOversold` (`NotOversold`) and `MoveUpInTurn`, for departures
  that are alone (`"depart" \in Alone`). The invariant is `Line == Held /\ Solo /\ StillSo`: what a
  transaction read (a turn, a status, who is next) is still so when it writes, because only the holder of
  the session's lock, or a departure by itself, changes who plays. Given that, the two are inductive
  together; `StopPlaying` counts `promote` with `FS_Union`. The code ensures `StillSo` for every service
  but `releaseSessionSeats`; there the theorem's assumption stands in for the missing lock.
- `SignupsImplementPlaces`, under the same assumption. The last action of each transaction is one step of
  `SessionPlaces`: by `StillSo` the count a sign-up made, and the players a promotion chose, are those of
  the moment it writes. Everything before, and the departure's other writes, are stutters.
- `PartnersAreTyped`, `InvitationsKeepTheLimit`: an acceptance counts under the partner's lock; whoever is
  written besides is the submitter, whom `JoinedWithinLimit` does not count. Hence
  `OwnersStayNearTheLimit`: the seventh disagreement is an excess of one at most, whatever the sequence.
- `TablesAreTyped`: the types of the run `tables`, from those of its parts; what the run does to each is what
  the part's module allows (`RunsSession`, `RunsCalendar`, `RunsPartner`).

**`CrowdfundingImportsProofs`.** `ImportsInv` is the types, `NothingPassedOver` and `RunsWalked`: what a run
has behind it, in its row or only in its memory, is known.
- `NothingIsPassedOver`: a run starts where the last one stopped, or at the beginning after a complete one,
  and both are known places (`ResumeIsWalked`).
- `TakenDownCampaignsStayDown`: of the same steps.
- `PlacesAreKept` needs `HolderAhead`: the run that holds a row is never behind its cursor, and a day
  without a run has none. A claim is not behind either, since it resumes the latest day's row
  (`ClaimKeepsThePlace`); that there is a latest day rests on the well-foundedness of the naturals.

**`TableCalendarProofs`.** Any rule, lengths, reminders, busy dates, and any number of answers in flight. The
invariant is `CalendarInv`: the types, `RowsMatchTable`, `NoClash`, that an answer which moves the table says
where to (`AnswersDated`), and that a close the sweeper read as due was warned of (`CloseIsWarned`).
- `RowsFollowTheTable`, `DatesNeverClash`, `HistoryIsKept` rest on one lemma about `Sync`, `SyncMatches`:
  from any rows whose dates differ, it leaves the table's date as the first scheduled session, no date twice
  and what happened untouched. Each action then only has to say which rows and table it syncs (`Becoming`).
- `LineIsKept` (`StaysInLine`) is that syncing twice is syncing once (`SyncTwice`). The hard half is
  `NothingFreshTwice`: dates of the rule that a first sync did not add are not added by a second. It counts
  the dates: the sync adds as many as are missing, or all that the grid has before its end (`EnoughAdded`,
  `WeeksAdd`), and the sessions that stood between the grid's dates are still there.
- `WarnedBeforeTheClose`: reminders are only ever added, and are looked up by the date that was read; the
  close asks that the table is still on that date.
- `AnsweredOnce`: an answer whose table no longer waits changes nothing (`Takes`).

**`ServicesProofs`.**
- `ServedScoresAreCurrent`. The invariant adds, while the account is there, that the row's version is never
  behind the one it was worked out at (`RowTells`), and that a page which read the ratings at the row's own
  version read all of them (`PagesTell`): a rating that came between raised the version.
- `BansAreServed`, `ClosedAccountsStayBarred`: one lemma, `BroughtBack`, lists what ends a suspension. A
  visit's update asks again that the ban there is now be over by the clock the visit read, and that clock
  is never ahead (`VisitsBehind`).
- `MailsComeAgainLate`, an action property. The invariant follows one mail: as long as no run was lost, what
  the provider took has a kept key, or the run that sent it is about to keep it, or its retention is over
  (`TakenIsKept`). A run that has just sent it did so in the provider's window (`SentNow`); so a run at work
  that missed the key is stopped by the provider, or comes after the retention (`TakenNow`). A key that is
  pruned is no older than the last sending (`KeptNow`), which is what makes the prune harmless. Nothing is
  assumed about how long runs go on starting.
- `PlacesAreTyped`, `LimitsAreTyped`, `ScoresAreTyped`, `AccountsAreTyped` and `MailsAreTyped`, with
  `ImportsAreTyped` of the module above, give `ServicesAreTyped`: the types of the run `services`.
- `OwnersEndClaims`: with `ClaimsHeld`, an admin who locked a claim holds it, still pending, alone. So an
  approval rejects every other, and no rejection finds its claim decided.
- `HiddenPlacesStayHidden`: an action property; only `restorePlace` lists a hidden place, and it closes the
  reports.
- `LimitsHold`: with `ClocksBehind`, no row is of the future. A window that ends after a request's clock is
  within what the request counted, so one more row fits. For messages this needs `MaxWait = 0`; the theorem
  assumes it, or that the instance has no messages.

**The runs' instances.** A property that a run names of an instance (`RacesNeverOverbook`,
`KeptActsAsOutbox`, the types of a composed run) is a theorem too. The instance's module is proved as it
stands, for every value of its constants; the run's specification then implies the instance's, because what
it does to a part is a step of it or a stutter.

**Only model-checked.** Liveness, which TLAPS does not reach: `TransactionsEnd`, `KeptSettles`,
`DecisionsEnd`, `TemporaryBansEnd`, `Settles`. `Outbox` and `SessionPlaces` therefore state no fairness.

## 5. Not modelled, and what is left

Most of the repository is rendering, queries, forms, the catalog of systems and logos, and adapters to other
services. They keep no state of their own or write single rows, so a state machine says nothing about them
that a test does not; the map covers a small part of the lines for that reason.

Facts about the modelled code that no property states:

- A session moved earlier and then held frees its old week: a later change of the rule may put a date there
  again (`tables/sessions.ts:186`).
- A page that read a GM's ratings before the account was closed, and writes after, leaves a score of ratings
  that are gone: the row is new and its version starts again. `ServedScoreIsCurrent` therefore ends at the
  closing.
- `remind` records the reminder for the date the sweeper read, although the table may have moved since
  (`tables/close-reminders.ts:153`). `WarnedBeforeClose` holds because reminders are looked up by that date.
- A visit whose update lifts nothing, because the account was banned again, is let in all the same
  (`moderation/bans.ts:59`).
- An edit that adds seats promotes nobody when the capacity it read before its transaction was already
  larger (`tables/write.ts:515`); no property of `seats` excludes that.
- Two admins may decide one report; the second write wins and two events are recorded
  (`moderation/admin.ts:331`).

What would come next, in order:

1. `closeAccount` on seats, the line and tables, as an action of `Seats`; a ban of the GM with all their
   tables.
2. Edits of a session's size and of the roster in `SessionSignups`, with several sessions of one departing
   player; departures under the session's lock as the repair of the sixth disagreement, proved without
   `Alone`.
3. The ledger once `leaveTable` reads under the table's lock: the repair of the fourth disagreement, proved
   without the assumption that there is no `StaleWrite`.
4. An outbox of several rows, with the sweep's limit; the payloads that deleting a draft relies on
   (`tables/end.ts:41`).
5. Reports on the other kinds of target with the closings and bans an admin adds to a decision; the
   membership of chats.
