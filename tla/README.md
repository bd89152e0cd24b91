# Verification of the ITSM application server

TLA+ models, TLC runs and TLAPS proofs for the NestJS server in `src/`. It takes catalog requests, puts
them up for approval, turns them into cases, keeps SLA timers on cases, turns mails into comments and events
into mails, synchronises users from LDAP, authorises calls by roles and tokens, and seeds its database.
Paths below are relative to `src/src/modules/` unless they begin with `docs/`, `db/` or `shared/`.

## 1. The system

One Node.js process, one PostgreSQL database, TypeORM repositories, and an in-process EventEmitter2.
Four facts make its behaviour hard, and every module here is built on them:

* **Await points.** Code runs atomically between two `await`s, and any number of requests, listeners and
  interval callbacks are suspended at one. There are no transactions around a handler and no locks.
* **Stale saves.** `Repository.save(entity)` selects the row as it is now and then writes every loaded column,
  and every member of a loaded list, that differs. So a row loaded before an `await` and saved after it overwrites what others
  have committed, and a row that was deleted meanwhile is inserted again. Columns that are `undefined` in the
  entity are left alone; `null` is written. `update()` touches the given columns only.
* **Fire and forget events.** `emit` starts the listeners and does not wait for them. A crash loses events
  and handlers in flight, caches and other maps in memory; only the tables survive. Nothing is retried.
* **Checks before writes.** A handler that looks whether something is there and then creates it relies on
  the unique index, where there is one, to fail the second of two.

### Components

| component | state | operations | interacts with |
|---|---|---|---|
| request | `request` | create, update, assign, resolve; listeners for `request.approved`, `case.status.changed` | emits `request.created`; calls `CaseService.createCase` |
| approval | `approval_steps`, `approval_request` | create / delete / replace steps; approve, reject; listener for `request.created` | reads and saves `request`; emits `request.approved` |
| case | `case`, `case_comment` | create, update, assign, change status, comment, timeline | emits `case.created`, `.updated`, `.status.changed`, `.assigned`, `.group.assigned` |
| sla | `sla_target`, `sla_timer` | create / remove target; listeners for the case events; `tick` every interval | emits `sla.breached` |
| catalog | `service`, `request_card` | create and edit cards with their steps; `submitRequest` | creates requests; supplies the approval steps |
| workflow | `workflow` | create, update, choose one for a request | called when a request is created |
| business-line | `business_line` | create, update, deactivate | owns workflows, channels, cards |
| iam-auth | `refresh_token`, `token_blacklist`, `user` | login, refresh, logout, logoutAll, cleanup | the JWT guard asks the blacklist |
| iam-permissions | `role`, `permission`, `user`, a cache in memory | grant, revoke, assign, delete; resolve | guards and list filters |
| ldap | `ldap_config`, `ldap_sync_log`, `staged_user`, the map `activeSyncs` | start, schedule, cancel; import, reject | writes users |
| email | `email_channel`, `email_template`, `email_message`, a template cache | ingest, send; edits of channels and templates | creates comments of cases |
| notify | - | listeners that render and send mails | reads cases and users, uses email |
| audit | `audit_event` | listeners that append the events of cases | read by the timeline |
| seeding | all tables | one plan of find-or-create steps | runs beside the server |
| case-category, search, user-preferences | one table each, or none | create, read, update, delete | - |

### What makes each component correct, and what is hard

* **request, approval, case.** No case before everyone asked has approved; no approval that nobody acts on;
  no way around the approval; a request linked only to its own case. Hard: two approvers finishing at the
  same time, an approval racing a rejection, the steps being read twice, listeners saving old copies, a
  crash between two saves.
* **sla.** Time is counted once; a timer that has ended stays so; a running timer ends. Hard: overlapping
  ticks, a tick racing an event, pauses, rules that name fields the events do not have.
* **case and audit.** A case is only in a status that an event is made of. Hard: whole-row saves over each
  other, a stop between a commit and its event, audit rows that come late or never.
* **iam-auth.** A token that logged out is refused until it expires; a revoked refresh token issues nothing.
  Hard: a refresh saving a row it loaded before a logout, the cleanup of the blacklist, a lifetime that the
  library and the code read differently.
* **iam-permissions.** Counts and lists agree, a revoked permission stays out, lists show what the guard would
  let through, the cache answers as the tables do in the end. Hard: saves whose two steps interleave, roles
  that are deleted and come back, a guard and a filter that ask separately, answers put together from three
  queries, events that nobody emits.
* **ldap.** A flag in `activeSyncs` has an owner, a sweep only disables whom the directory lacks, an imported
  row has its user, a due configuration is planned again. Hard: check-then-set around an `await`, cancel and
  restart, failures half way, entries that cannot be mapped, usernames that pass to another identity.
* **email, notify.** A message is commented once, in its thread; an edited template reaches the mails; a line
  has one default channel. Hard: two deliveries at once, messages that go with their channel, a fetch across
  an invalidation, edits half done.
* **catalog, workflow.** Two editors of a card both get what they asked for; stored answers are complete; a
  request gets the first workflow that matches. Hard: edits during a submission, defaults merged after the
  validation.
* **seeding.** A second run repairs what a first one left; two at once seed everything or fail. Hard: roles
  saved from copies, rows an administrator deletes while their ids are held.

The complete list of hazards, each at its line, is in `PROJECT.json`.

## 2. Modules

| module | what it is |
|---|---|
| `ApprovalGate` | abstract specification: voters are named once, votes in favour are kept, a case passes only with all of them |
| `RequestFulfilment` | request, approval and case together, one action per database operation |
| `RequestFulfilment_proofs` | its theorems |
| `SlaRules` | the rules engine as operators on event data |
| `SlaTimer`, `SlaTimer_proofs` | SLA event handlers, targets and the worker; their theorems |
| `CaseDesk` | cases as agents work on them, and the audit trail |
| `MailDesk`, `MailDesk_proofs` | extends `CaseDesk` with incoming mails, templates, notifications and channels; theorems about the whole |
| `Sessions`, `Sessions_proofs` | access and refresh tokens; their theorems |
| `IamAccess`, `IamAccess_proofs` | roles, permissions, the cache and the filters; their theorems |
| `LdapSync`, `LdapSync_proofs` | configurations, the scheduler, synchronisations, staged users; their theorems |
| `Catalog`, `Catalog_proofs` | request cards, workflows, the conditional form, the submission; their theorems |
| `SeedData`, `Seeding`, `Seeding_proofs` | what the seeder plants; its runs and the edits beside them; their theorems |
| `MCFulfilment`, `MCSlaTimer`, `MCMailDesk`, `MCSessions`, `MCIamAccess`, `MCLdapSync`, `MCCatalog`, `MCSeeding` | the finite instances |

`RequestFulfilment` composes request, approval and case by their events. `Catalog` models a request up to its
saved row, from where `RequestFulfilment` goes on. `MailDesk` composes case, audit, email and notify: it
extends `CaseDesk`, whose handlers also carry mails and edits, and its notifications start with the events a
step of the cases emits.

A definition whose comment begins with "Mutant:" is not part of a specification. It is the form the next
definition takes with a plausible slip in it, and the runs refute one property with each (section 3).

### RequestFulfilment

Tables: `steps` (of the one card), `requests`, `approvals`, `cases`. A row that a handler holds across an
`await` lives in that handler's record:

* `creator[r]` is `createRequest`: insert, count the steps and emit, create the case, save the link.
* `opener[r]` is `RequestApprovalListener`, which runs beside `createRequest`: load, read the steps, save
  `WaitingApproval`, insert the approvals of the first step.
* `call[w]` is any other API call with the listener it starts. Approve: load, save, load the request, tally,
  then close it, or load / create case / link (`RequestApprovedListener`). Reject: load, save, save the
  request. Request edits: load, save. Case edits: load, save, then load and save the request
  (`CaseStatusSyncListener`).
* `admin` is `replaceApprovalSteps` between its delete and its insert.
* `approvedBy` and the fields `origin` and `via` of a case are history, read by properties only.

A listener whose emitter touches no table afterwards continues in the emitter's record. An approval and a
rejection of one user may both have found the row pending. `assignRequest` saves before it throws
(request.service.ts:398), so it is a save of the loaded row. A save of a request that was loaded with its
approvals fails when approvals have been inserted since, because TypeORM tries to detach them from a column
that is NOT NULL (`seen`). `Repository.save` reads the row again and then writes; the two are one action.

Abstracted: titles, priorities, categories, comments, the approvers' comments; assignment groups, except
whether one was found (`hasGroup`); the event history. Request edits by `updateRequest` carry a status, a
resolution or neither.

### SlaRules and SlaTimer

Event data is a function from the paths of its leaves to values; `GetFieldValue` follows the search order of
`getFieldValue` (the path, the wrappers `after`, `before`, `data`, `payload`, then the depth-limited search).
`Triggered` tabulates the engine for the constants `Rules` and `Changes`. String comparison ignoring case is
the constant `Includes`.

`timers` is the table, defined on the pairs (case, target) that have a row. `handlers[w]` is `initForCase` or
`processSlaEvent` going through the active targets, `ticks[k]` an execution of `tick` with the copies it
loaded. Time is a clock that `Advance` moves; each handler reads it where the code does (`initForCase` once,
`tick` before its query, the other handlers when they save). Rows carry the columns that bear on the
countdown; `stoppedAt`, `breachedAt` and `resumedAt` only date changes of status and are left out. All
targets are of one business line. `resumeTimer` sets `pausedAt` to `undefined`, so the column keeps its old
value. A value that does not fit an `int` column fails the save (`Storable`, `MaxInt`), and the exception
ends the handler. Removing a target removes its timers, and saving a copy of one of them fails.

### CaseDesk and MailDesk

`handler[h]` is a call, a delivery or an edit under way, with what it has read. `updateCase`, `assignCase` and
`changeStatus` load a row and save the whole of it: the save selects the row again (`SelectCase`), writes the
status if it is not the one found (`WriteCase`), and when it has answered the events are emitted (`Emit`). A
failure or a stop may come between any two of these. `Allowed` is `validateStatusTransition`, which only
`changeStatus` applies. Emitted events are in `appending` until the audit listener of each has written its
row or failed; `lost` holds the events that will never be told.

`processMessage` looks whether it has seen a message, saves it, finds the case, adds the comment and links
the message, five steps any of which may fail. `row` is the row of each message: the call that saved it, its
channel and its case. The lookup by `references` and `inReplyTo` takes one of the rows found, whichever the
database gives, and the case number in the subject is tried next. Rules come last in the code and never
decide: their evaluation fails, as the channel is read without its business line. Deleting a channel deletes
the rows of its messages (`ON DELETE CASCADE`), and a message saved on a channel that has gone fails.

The template's row has a version that each edit raises. A render takes the cached version or fetches the
row, which is two steps: the database reads, and the answer is put into the cache. An edit loads the row
(`EditTemplate`), saves it and then deletes the cache entry. `answered` is the newest edit whose answer was
given while no older row was being fetched. A channel edit may change the default, the business line and the
kind. One that sets the default finds the defaults of the line and kind the channel has had, clears them one
by one and then saves its own row. `moved` remembers the lines a default was moved to, `overlapped` whether
two edits were ever under way together.

### Sessions

`refresh[f]` is the row of a refresh token, `expires[j]` when an access token expires and `blacklist[j]` when
its entry does, in seconds from the start; `now` moves through `Moments`. The configured lifetime
(`JWT_EXPIRES_IN`) is a number and a unit, and is read twice: `TokenLife` is what jsonwebtoken makes of it
(a bare number is milliseconds, `w` a week), `ParseExpiry` what auth.service.ts:66-72 makes of it: the last
character is the unit, even a digit, any other than `s`, `m`, `h` and `d` stands for minutes, and nothing is
left of one digit. A refresh looks its token up, saves it back whole with `lastUsedAt` and signs; a logout
looks it up, saves it revoked and blacklists the access token; `logoutAll` revokes in one update.
`loggedOut` and `closed` are history. Passwords are left out: a login is a call whose checks
succeeded.

### IamAccess

A role's row has its permissions and `permissionCount`. Administrators' calls (`admin`) load a role or user,
change the list in memory and save it in two steps: `SelectRole` and `SelectUser` read the row and its list
again, `WriteRole` and `WriteUser` write the difference to that, and fail on a row that is there already or a
role that is gone. `DeleteRole` is refused while a user holds the role (`user_role.role_id` is `ON DELETE NO
ACTION`). A list of requests (`reader`) resolves the user's permissions twice, for the guard and for the
filter, each time from the cache or from three queries. `Meets`, `CanRead`, `GuardPasses` and `Lists`
translate the ability factory, the guard and `extractConditions`, over the rows as they relate to the user.
Tokens carry no groups, so the condition on groups meets nothing. `raced` and `withdrawn` are history.

### LdapSync

`syncs[s]` is an execution of `performSync` with the row of its log, `active` the map `activeSyncs`, `batch`
what the cron job still has to start, `orphans` the logs that no execution will ever close, `admins` the
administrators' requests. The directory is a function from identities to entries: data, or `Nameless` for an
entry that the mapper returns null for, which `Fetch` drops. Data are a mail address, which is overwritten,
and attributes, which `Merge` adds to the metadata the user had. `NameOf` gives the username of an identity,
and two identities may have one. Rows of configurations and staged users go away with `CASCADE` as the
entities say, and a save of a row that is gone inserts it or fails on its foreign key. `DirectoryChanges`,
configuration edits, cancellations and faults count against `MaxEvents`.

### Catalog

`cards`, `steps`, `workflows` and `requests` are tables, `editing` and `sub` the calls. A form gives each
field a set of strings; `EvaluateCondition` follows the code's treatment of strings, lists and empty values.
A submission validates the form as it came, which deletes the fields that `additionalProperties` does not
accept (ajv's `removeAdditional: 'failing'`), merges the rest over the card's defaults, looks the card up
again, takes a number, chooses a workflow and saves the request. Names of workflows are neither unique nor
fixed, so the database may list two of one order and name either way: `Sorted` is a set of lists. The card's
`workflow` is stored and edited, and nothing reads it when a request is routed.

### Seeding

`Plan` is the seeder's work as a sequence of find-or-create steps, computed from `SeedData`. Rows have the
value they are found by (`find`) and the value of their unique column (`key`): one group is found by a name
it is not created with. A process holds its copy of the role and user it works on and the set of rows that
were deleted since it read them (`lost`); a save that refers to one of those fails. Saving a loaded role is
three steps as in the code: the row is selected, compared, and the difference written (`SelectRole`,
`WriteRole`, or `InsertRole` when the row has gone); a permission that another run has granted since the
select breaks the primary key of `role_permission`, and the run dies of it (`clashed`). An administrator can
delete a role only while no user holds it.

## 3. Runs

| run | checks | instance | states |
|---|---|---|---|
| `Fulfilment` | `ApprovedBeforeRouting`, `ApprovedEventuallyRouted`, `CreatedEventuallyHandled`, `ImplementsGate` | one request, every kind of step, two approvers, two cases, two calls, one fault | 217 k |
| `FulfilmentTwoRequests` | `TypeOK`, `ApprovalNotBypassed`, `LinkedCaseIsOwn` | two requests, one approver or none, two cases, one call, one step edit, one fault | 1.5 M |
| `SlaTimers` | `TypeOK`, `Countdown`, `SettledStaysSettled`, `RunningEventuallyEnds` | one timer, two handlers, two ticks, one fault | 359 k |
| `Desk` | `TypeOK`, `StatusIsTold`, `CommentedOnce`, `LinkedIsCommented`, `ThreadIsFollowed`, `MailsUseAnsweredEdit`, `OneDefaultChannel` | two cases, two mails of which one answers the other, two handlers, two channels of two lines, three calls in all | 835 k |
| `Sessions` | `TypeOK`, `LoggedOutIsRefused`, `ClosedIssuesNothing` | two access and two refresh tokens, two calls, four settings, four moments | 1.2 M |
| `IamAccess` | `TypeOK`, `CountMatches`, `WithdrawnStaysOut`, `ListsWhatGuardAllows`, `CacheCatchesUp` | one user, two roles, two permissions, two administrators, one list, three edits | 453 k |
| `LdapSync` | `TypeOK`, `FlagHasOwner`, `SweepsOnlyAbsent`, `ImportedHasUser` | every mode, two synchronisations, one administrator, one event | 1.2 M |
| `LdapLiveness` | `DueEventuallyPlanned`, `DirectConverges` | direct mode, one mail address with or without an attribute, two synchronisations, one event | 83 k |
| `Catalog` | `TypeOK`, `StoredFormComplete`, `OnlyGivenColumnsChange`, `RoutedToFirstMatching` | two editors, one submission, two workflows, two schemas, two edits | 1.5 M |
| `Seeding` | `TypeOK`, `RerunRepairs`, `OverlapSeedsAll` | two runs over the whole plan, stopped anywhere, one edit | 1.1 M |

Every property of a passing run has a mutant of the model, a plausible slip in the mapped code, that the same
run refutes. What each property says is written above it in its module.

Some hold under a condition that the code needs, and that is the point of them. Dropping "while no refresh
was using it" from `ClosedIssuesNothing`, the settings from `LoggedOutIsRefused`, "unless an older row was
being fetched across it" from `MailsUseAnsweredEdit`, "that never overlap" or the moved defaults from
`OneDefaultChannel`, the rows that went with their channel from `CommentedOnce`, "that has not been paused"
from `Countdown`, the saves that raced from `CountMatches`, the usernames of two identities from
`SweepsOnlyAbsent`, "nobody interferes" from `RerunRepairs` or "unless a default filled in an answer" from
`StoredFormComplete` makes TLC find a counterexample that is a real race or gap in the code.

### Disagreements between the code and its texts

Two runs check one sentence of a document each, stated as a property with its text in the module of the
component, and TLC finds it violated:

| run | the text | what happens |
|---|---|---|
| `SequentialSteps` | docs/APPROVAL_WORKFLOW.md:229, case creation only after final approval | only the first step is ever opened (`approval/listeners/request-approval.listener.ts:90`) |
| `PausedTime` | docs/DYNAMIC_SLA_SYSTEM.md:230, paused time doesn't count | `resumeTimer` leaves `lastTickAt` (`sla.service.ts:268`), and the next tick counts the pause |

The others are read from the code. The models do what the code does, and the properties have the condition that
leaves these cases out:

| the text | what happens | left out by |
|---|---|---|
| docs/APPROVAL_WORKFLOW.md:48, any one member can approve | the completion check (`approval.service.ts:198`) waits for all rows; `requireAll` is not read | "when all approvals are there" of `ApprovedEventuallyRouted` |
| docs/APPROVAL_WORKFLOW.md:269, steps are loaded once | `createRequest` (`request.service.ts:142`) and its listener each load them, and decide differently after an edit | `stepEdits = 0` of `ApprovalNotBypassed` |
| docs/APPROVAL_WORKFLOW.md:185, resolution set to the rejection reason | an approval's check loads the request, the rejection saves it, the check saves its old copy (`approval.service.ts:208`) | - |
| docs/CATALOG_REQUEST_SETUP.md:314, a case is created and linked | two approvals that finish together make two cases, `updateRequest` (`request.service.ts:361`) saves an old link, and a stop comes between the case and its link | `LinkedCaseIsOwn` is about links that are there |
| SLA_TIMER_FIX_SUMMARY.md:86 and 93, a stopped timer is Met, terminal timers are skipped | a tick that loaded the running row saves it after the stop (`sla.worker.ts:59`) | `InHand` of `SettledStaysSettled` |
| SLA_TIMER_FIX_SUMMARY.md:82, the timer stops when the case is resolved | the seeded rules compare the field `to` (`db/seeds/initial-data.seeder.ts:1155`), the event carries `before.status` and `after.status` (`case.service.ts:847`) | the run has rules that match |
| `helpers/ldap-sync.service.ts:565`, "Deactivated removed user" | an account recreated under its name is matched by the name (295), keeps its old `externalId` (328), and is swept by it (562) | `Unshared` of `SweepsOnlyAbsent` |
| `helpers/ldap-sync.service.ts:175`, users removed from LDAP are disabled | an entry that cannot be mapped is dropped (252), and its user is swept while the directory has the entry | "mapped" in `SweepsOnlyAbsent` |
| `helpers/ldap-sync.service.ts:538-539`, LDAP might have removed the attribute | the metadata are merged (325), so it stays, and every run finds a change | `Covers` of `DirectConverges` |
| `request.controller.ts:62`, filtered by role; `casl-ability.factory.ts:159`, null if no restrictions | the guard passes, the last permission is revoked and the cache expires, and the filter is null (190) | `GuardPasses` of the second answer in `ListsWhatGuardAllows` |
| `iam/iam.service.ts:14`, cache automatically invalidated | nothing emits the events (`iam-permission.service.ts:91`, `iam-cache-invalidation.handler.ts:31`) | "in the end" of `CacheCatchesUp` |
| `auth.controller.ts:116`, logout blacklists the access token | with `1w` the entry lives a minute (`auth.service.ts:66`), and the token is accepted after the cleanup | `Covered` of `LoggedOutIsRefused` |
| `.env:22`, 1 day in milliseconds | `parseExpiry` drops the last digit and counts minutes (`auth.service.ts:68`): the entry lives sixteen years, the token a day | the entry may outlive its token |
| `auth.controller.ts:136`, revoke all refresh tokens | a refresh saves the row it loaded before (`auth.service.ts:233`) | `Unused` of `ClosedIssuesNothing` |
| `case.service.ts:359`, the complete timeline | a stop between the commit and the event (`case.service.ts:211`) leaves the change out for good | `lost` of `StatusIsTold` |
| docs/WORKFLOW_BASED_ROUTING.md:156, the card's workflow is used | `createRequest` (`request.service.ts:115`) does not read it | cards without a workflow in `RoutedToFirstMatching` |

Also read from the code, and part of the models where they bear on a property:

* case: `updateCase` and `assignCase` save the status they read, so one can undo a status change whose event has
  been told; only `changeStatus` validates transitions.
* sessions: a login saves the whole user and so reactivates an account disabled since it was read; nothing
  calls the cleanup; tokens carry an empty list of groups.
* permissions: nothing emits the events `iam-cache-invalidation.handler.ts` listens for.
* mail: routing rules fail on the business line that is not loaded; the id of an outgoing mail is not stored,
  so answers to it are found by the subject; errors are thrown to "fail the outbox", of which there is none;
  sending resolves the default channel a second time.
* ldap: two configurations deactivate each other's users; an imported user counts as changed for ever.
* catalog: `submitRequest` validates the form before it merges the card's defaults, so a default can show a
  required field that is then missing from the stored answers; `updateRequestCard` ignores `serviceId`; the seeded workflows look at `priority` while the forms send
  `urgency` and `severity`; deleting a group deletes its request cards.
* seeding: the second tier-1 group is never created, as it is looked up by the first one's name.

### Bounds

* Two approvers are enough for the last-approval race and for approve-against-reject; two calls, handlers,
  editors, administrators, synchronisations or seeding processes because every race here is between a load
  and a save of two of them. `createRequest` and its listener are further concurrent processes. Two cases,
  since `request.approved` can be emitted twice.
* `RequestTargets`, `CaseTargets`, `Targets` are the statuses that are set. A run includes the ones its property
  can be upset by: `Pending`, which has to be translated for requests; `Resolved`; `Closed`, from which no
  transition leads.
* `MaxStepEdits`, `MaxEdits`, `MaxCalls`, `MaxEvents`, `MaxFaults`, `MaxRequests` bound how often the outside
  world acts; the steps that follow are not bounded. One delete-and-insert of steps, one crash or failed
  operation, one cancellation, at any time. Three calls at the desk give a comment, an edit and a delivery
  again, two edits and a notification, or two edits of channels that make a default each and one that changes a
  line. Three edits of roles
  give a grant, a deletion and the stale save that brings the role back; saves are two steps, so two grants
  interleave. Two catalog edits give the two halves of a lost update.
* `Goal = 2`: a timer can be counted down in part, then breach. `MaxTime = 2` lets it end, with ticks that
  start at different times and finish in the wrong order. `MaxChanges = 2` gives pause and resume, pause and
  stop, and the like. `MaxInt = 2` makes a save fail for overflow. The bound on time appears in
  `RunningEventuallyEnds`: a timer whose goal lies beyond the last tick of the clock need not end.
* The settings of `Sessions` are the one of `.env` (86400000 without a unit), a quarter of an hour, a week, which
  has a unit `parseExpiry` does not know, and a single digit, of which it leaves nothing. The clock stops at 600,
  1000, 90000 and 700000 seconds: within and after a quarter of an hour, after the day of `.env`, and after the
  week of a refresh token.
* `Take = 2` exceeds the number of timers in the runs; the proofs hold for every `Take`.
* Two permissions of `IamAccess`, one restricted to own requests and one to assigned ones, give every
  combination the filters distinguish but the unrestricted one; the proof covers all five.
* Two admins and one reader of `IamAccess`, with `TTL = 2`, let an entry of the cache age and expire between the
  guard and the filter of one list.
* One identity and one name in the passing runs of `LdapSync` (the accounts there before the sync may hold the
  name already): two synchronisations race on one row. The safety run has no attributes, which only
  `DirectConverges` reads; `LdapLiveness` has one. Both have
  entries without a name. Two identities of one name are left to the theorem about `SweepsOnlyAbsent`.
* `Catalog` has a second schema, which does not know the field `kind` and takes no other: it makes
  `removeAdditional` delete an answer. Edits can give both workflows one order and one name.
* The whole plan of the seeder is run, not an excerpt, by two processes. With three, two may die of an assignment
  the other has made and leave the third's copies as the last word, so the theorem for any number of them has
  the condition that none died so; with two it is not needed.
* Interchangeable calls, cases, handlers and tokens are symmetric in the safety runs; liveness runs use no
  symmetry.

Deadlock is not checked: when the bounds are used up the server is at rest.

### Fairness

`FairSpec` adds weak fairness of each handler that has begun: the event loop resumes a suspended function when
its query answers, and it does not starve one of them. Beyond that:

* `SlaTimer`: `setInterval` keeps firing, which is `StartTick`, and time passes, which is `Advance`.
* `LdapSync`: the cron job keeps running (`Cron`), time passes, and a synchronisation goes on (`SyncStep`),
  since queries to the directory and the database answer or time out.
* `IamAccess`: calls and requests that have begun go on, and entries age.

No fairness is assumed of users, administrators, the directory or faults. `ApprovedEventuallyRouted` and
`CreatedEventuallyHandled` promise nothing after a fault, since a crash drops an event for good;
`RunningEventuallyEnds`, `DueEventuallyPlanned` and `DirectConverges` are checked with them, because the
interval and the cron job start anew.

## 4. Proofs

For all values of the constants (any number of users, requests, cases, calls, tokens, roles, messages,
channels, timers, targets and ticks, any rules and step lists, any bounds), from the named assumptions on the
constants in the modules: sets of options are subsets of what the code admits, bounds are natural numbers, and
the value `None` is told from the values it stands beside.

Each proof has one inductive invariant `IInv`, a lemma for each action that says what the action does in terms
of typed values, and from these the three facts that `Init` implies `IInv`, each step keeps it, and it implies
the property.

* `RequestFulfilment_proofs!TypeCorrect`: `Spec => []TypeOK`. `TypeOK` is strengthened by what the handlers'
  records hold at each `pc`.
* `RequestFulfilment_proofs!GateCorrect`: `ApprovedBeforeRouting`. By itself it is not inductive: what is
  about to be written has to be right as well. `GateInv` adds that the listener inserts approvals once and
  only when there are none, that approved rows are votes cast, and that every call past its tally, which saw
  all rows approved, has everybody's vote behind it. Votes and voters only grow, so a late rejection does not
  take that back.
* `LinkCorrect`: `LinkedCaseIsOwn`, from `OwnInv`, which says the same of every copy of a request in a
  handler's memory; hence no stale save can spoil it.
* `BypassCorrect`: `ApprovalNotBypassed`, from `Undivided`: without step edits the two readings of the steps
  agree.
* `GateImplemented`: `Spec => ImplementsGate`. Initial states map to initial states, inserting the approvals
  is `Open`, saving an approval is `Vote`, creating the case is `Pass`, and all else stutters.
* `SlaTimer_proofs!TypeCorrect`: `Spec => []TypeOK`.
* `CountdownCorrect`: `Countdown`, for timers that have not been paused, from `Counted`, which says the same of
  the row a handler is going to save and of the copies a tick holds, and that ticks hold running rows only.
  Every copy is right by itself because `remaining` and `lastTickAt` are always written together. What a pause
  does to the count is the subject of the run `PausedTime`.
* `SettledCorrect`: the action property `SettledStaysSettled`. A step saves only what it has in hand and takes
  in hand only rows that are not terminal.
* `Sessions_proofs!SessionsTyped`, `LogoutIsFinal` (`LoggedOutIsRefused`) and `RevokedStaysClosed`
  (`ClosedIssuesNothing`). `LogoutIsFinal` holds for every setting `parseExpiry` gives at least the life that
  jsonwebtoken gives the token (`Covered`: one of its four letters, or a bare number). It needs that an access
  token is logged out only after it was issued (`OnlyIssued`), that none lives longer than the library reads in
  the setting (`LivesAsSet`), and hence that an entry does not expire before its token (`EntryOutlives`), so the
  cleanup removes it only when the token has expired. `Readings` does the arithmetic. `RevokedStaysClosed` needs
  that a closed token was issued and is not open (`ClosedNotOpen`), so that it is neither found nor issued again,
  and that whatever a call holds was issued (`HeldIssued`).
* `IamAccess_proofs!IamAccessTyped`, `CountsMatchUnlessRaced` (`CountMatches`), `RevocationsHold`
  (`WithdrawnStaysOut`) and `NothingListedThatIsRefused` (`ListsWhatGuardAllows`). `CountMatches` speaks of the
  roles of which no save has run into another (`raced`) and is inductive once the same is said of the copy every
  call has loaded (`CopiesCount`): the difference a save writes to an unchanged list is the copy.
  `WithdrawnStaysOut` needs that no call under way is going to bring the permission back (`NoneBringsBack`).
  The last follows from the answer each reader holds for its guard and the one it holds for its filter.
* `MailDesk_proofs`: `DeskTyped`; `StatusesWereTold` (`StatusIsTold`), with the same said of the status every
  handler has read and is going to save (`ReadIsTold`), and with the statuses whose event is still to be emitted
  or has been lost for good among those told; `CommentsOnce`, `LinksCommented` and `ThreadsFollowed`, from
  `MailInv`: a call under way works on its message's row, or the row has gone with its channel (`gone`), it has
  not commented before it comes to that, and it goes to the case of a message it refers to; comments are of calls
  that began, one each (`CommentsOfCalls`); `EditsReachMails` (`MailsUseAnsweredEdit`), from `TemplateInv`:
  nothing cached or being fetched is older than the answered edit; `OneDefault` (`OneDefaultChannel`), from
  `ChannelInv`: an edit with no other beside it knows every default of the line it clears, and saves into that
  line or into one that is remembered in `moved`.
* `LdapSync_proofs!LdapSyncTyped`; `FlagsAreRemoved` (`FlagHasOwner`): a flag in `activeSyncs` belongs to a
  synchronisation that has not come to its release, and `Begin` sets it together with taking it up.
  `SweepsTakeTheAbsent` says of every user a sweep is about to deactivate that the identity stored with it was
  not among the mapped entries of the answer. `SweepsSpareThePresent` (`SweepsOnlyAbsent`) draws from it that no
  user is deactivated whose username the answer has for an identity that shares it with no other (`Unshared`).
  Nothing is assumed of the usernames; of a shared one the conclusion is false (section 3). `ImportsHaveUsers` (`ImportedHasUser`): an import that is half done holds a row whose user it has
  created or found, and no step removes a user. Assumed of the constants: there are finitely many
  synchronisations (`SyncAssumption`), as their number stands for the work at one time.
* `Catalog_proofs!CatalogTyped`; `StoredFormsComplete` (`StoredFormComplete`): a submission holds the schema it
  has validated against from the validation to the save, and the stored answers are its form over that card's
  defaults. `UpdatesTouchTheirColumns` (`OnlyGivenColumnsChange`): an update writes from its own call only.
  `RequestsGoToTheFirstMatch` (`RoutedToFirstMatching`): whatever list the query answers with, it has every
  active workflow of the line and none behind one that comes after it in evaluation order and then name
  (`SortedList`), so of those that match the first has none before it (`FirstMatch`). It is about
  cards that name no workflow of their own (section 3). Two requests never get one number (`NumbersInv`), which
  `TypeOK` states. The assumptions are those TLC evaluates for the instance: there are finitely many workflows
  (`WorkflowsAreFinite`), schemas speak of fields of the form (`SchemasHaveFields`), edits give columns values of
  their types (`EditsFit`).
* `Seeding_proofs!SeedingTyped`, `RerunsRepair` (`RerunRepairs`) and `OverlappingRunsSeedAll`
  (`OverlapSeedsAll`), for any number of processes, deletions and stops. The second follows from `AloneInv`:
  a process that nobody has interfered with since its start has achieved every step it has passed, and its
  copy of a role is the stored one. The third needs more, as what a process has achieved another may undo by
  saving a role it loaded before. `CalmInv` says that whatever is missing of a passed step is going to be
  written: a permission that is not stored is one that some process is still going to grant, as its copy of the
  role lacks it and it has not just seen it stored (`GrantedSoon`, `Owes`), and a count that is wrong will be
  saved by a process between its load of the role and its save of the count. A process that fails for a new row
  owes nothing, as no such save lies between a load and the count. One that dies of a permission another has
  granted since its select (`clashed`) may owe the rest of the role, so the theorem is
  `~clashed => OverlapSeedsAll`; that the instance of two needs no such condition is only model-checked.
  The plan enters by three assumptions, `SectionsAssumption`, `OrderAssumption` and `CompletenessAssumption`, that
  state its order and that it is complete. `Plan` depends on no constant, so the evaluation of the three by TLC in the run `Seeding` settles them.

All safety properties of the passing runs, invariants and action properties, are proved, `OverlapSeedsAll`
under the condition just named. Only model-checked: the liveness properties (`ApprovedEventuallyRouted`, `CreatedEventuallyHandled`, `RunningEventuallyEnds`,
`DueEventuallyPlanned`, `DirectConverges`, `CacheCatchesUp`), which are out of the prover's reach, and the
violations. Not proved: what the rules engine computes, as the theorems hold for any result of it; and that
`Plan`, put together with `FlattenSeq`, has the order its assumptions state, which is evaluated.

## 5. Plan

Done, in this order: `ApprovalGate`, `RequestFulfilment`, `SlaRules`, `SlaTimer`, `LdapSync`, `Seeding`,
`IamAccess`, `Sessions`, `CaseDesk`, `MailDesk`, `Catalog`, and the proofs about all of them. Next:

1. Abstract specifications beside `ApprovalGate`: a token store for `Sessions` and a timer without copies for
   `SlaTimer`, and the proofs that the detailed modules implement them.
2. Larger instances: two configurations of `LdapSync`, three overlapping processes of `Seeding`.

## 6. Not modelled

* **case-category, user-preferences, createService, creation of business lines, users and groups**: one insert or one
  replaced row; nothing else of theirs interleaves with it. A missing category is a way for `createCase` to
  fail.
* **search, statistics, previews, list queries**: they only read.
* **mailbox polling**: it fetches nothing yet; incoming mails come from the simulate route, which is modelled.
* **`setupApproval`** of the catalog: the column it waits for does not exist, so it is never called.
* **attachments** of requests and cases: uploads go to a store outside `src/`, and nothing depends on them;
  **comments** of agents and **links** between cases: one insert each.
* **passwords, LDAP authentication and role mappings**: hashing and the directory's own protocol.
* **deletion of users** (`iam/users/users.service.ts:97`): an administrator's delete of the row. With it, the user of an imported
  staged row may be gone again: `ImportedHasUser` is about the synchronisations, imports and rejections alone.
* **group memberships**: tokens carry an empty list of groups, so no decision depends on them.
* **notification preferences**: nothing reads them.
* **record ids** (`shared/infra/subscribers/record.subscriber.ts`): two inserts may take one number, but nothing looks
  a row up by it. Other ids and case numbers are fresh values.
* HTTP, guards other than the two modelled, validation of input shapes, logging, formatting of mails and timelines,
  the event emitter's own implementation and migrations.
