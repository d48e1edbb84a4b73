# Placement portal: a verification project

The portal runs a campus placement season: students sign in, keep a profile and
resumes, join cycles, apply to jobs, go through rounds, receive offers and answer
them; staff keep the directory, the rules and the vocabulary, and intervene; a
worker enforces deadlines and delivers notices. All state is in PostgreSQL. Every
change is a *command* that one executor runs in one transaction:
`authorize -> load (with row locks) -> decide (pure) -> apply state operations,
events, audit, deferred jobs -> commit` (`core/executor.py`). Paths below are
relative to `src/backend/app/`.

The correctness of this program sits in five places, and the project has a group
of modules for each:

1. **what the commands decide about one student's season**, over long sequences
   of legal commands by students, staff and the clock: `Transitions`,
   `OfferLifecycle`, on top of it `Memberships`, `ExternalOffers` and
   `ConsistencyChecker`; for the rounds of one job `RoundPipeline` with
   `Discipline`, for their venues and times `RoundSlots`;
2. **what the row locks give them**, when several transactions run at once:
   `SerialCommands`, `CommandTransactions`;
3. **what the executor promises a client** that retries, double-submits or
   crashes: `BatchLedger`, `CommandExecutor`;
4. **what the worker delivers**, through failures, resends and crashes:
   `Notifications`;
5. **the desks around the season**, each with little state and its own races:
   `StudentRecords`, `Accounts`, `SignInStates`, `ResumeLibrary`, `JobForms`,
   `EligibilityRules`, `Overrides`, `Companies`, `Taxonomies`, `Findings`.

## 1. Inventory

| Component (source) | State it keeps | Operations | Hard behaviour | What makes it correct |
|---|---|---|---|---|
| Status table and deciders (`domain/transitions.py`, `gates.py`, `memberships.py`) | none; pure | `decide_transition`, acceptance and exit cascades, restore candidates, `decide_expiry`, gates | gate and cascade reach differ per cycle kind and outcome | after a cascade nothing is left that the gate would refuse |
| Offers (`modules/offers/`) | `offers` rows, `applications.status`, events, expiry tasks | extend, accept, decline, record open outcome, expire, terminate with restoration, re-extend | two rows per fact, written by many planners; stale expiry tasks; restorations long after the acceptance | one accepted placement, row and status agree, every deadline is scheduled, closed rows stay closed |
| External offers, supersession (`offers/external.py`, `supersession.py`) | `external_offers` rows, their attachment to a cycle | record, edit, accept, unaccept, delete, attach, detach, replace placement | a second source of placed facts; a swap in one transaction | no second placement but by override; what undoing gives back is what was taken |
| Offer row locking (`offers/locking.py`) | row locks | `lock_acceptance_state` in phases | acceptances reach into other cycles, so do their locks | commands serialize; no deadlock |
| Applications (`applications/commands.py`, `lifecycle.py`) | `applications`, answers, snapshots, the filed resume | apply, edit, withdraw | gates read unlocked facts; the form and the library change underneath | one active application per job; what was filed stays filed |
| Round pipeline (`rounds.py`, `finalization.py`, `attendance.py`, `venues.py`) | round states, positions, attendance, waitlist, slots | advance, eliminate, promote, bulk reject, waitlist, mark, finalize, assign venue and time | the next round is computed from the order of today; finalization against concurrent movement; overrides over moving defaults | nothing is in the way of the next round; one undecided round; one strike per absence; students know their slot |
| Interventions (`modules/interventions/`) | statuses, round positions | reinstate, force | jumps over the table's edges | duplicates stay excluded; consequences are only those documented |
| Jobs (`modules/jobs/`) | `jobs`, deadlines, publication, `job_rounds`, questions, eligibility | create, edit, publish, unpublish, cancel, rewrite rounds, questions or rule | a moved deadline reaches open offers and queued tasks; rounds and questions change under the applications in them | no open offer survives a cancellation; deadlines reach the queue; no round or option somebody refers to disappears |
| Memberships and cycles (`modules/cycles/`) | `cycle_memberships`, `cycles` | join, approve, reject, re-request, withdraw, remove, restore, archive | exit cascades under running offers, re-entry after them | nothing in the pipeline without a membership |
| Overrides (`modules/overrides/`) | `overrides` rows with scope and expiry | create, deactivate, resolve | granted while offers are out; several scopes match at once | the most specific wins, and a block among equals |
| Executor and idempotency (`core/executor.py`, `idempotency.py`) | `idempotency_keys`, audit rows | `run`, `run_bulk`, replay | retry, double submission, crash between chunks | each chunk at most once, in order, one batch per key |
| Worker (`worker.py`) | the Procrastinate queue | periodic and deferred tasks | tasks that fire late, twice in effect, or for changed rows | every due deadline is enforced |
| Notifications (`modules/notifications/`) | `notification_log`, templates, `reminder_sends` | deliver, retry, resend, switch off, remind, purge | retry chain racing a resend; a worker dying between the provider and the log | one chain of jobs per notice, confirmed once, settled in the end; one reminder per deadline |
| Discipline (`modules/discipline/`) | strikes, penalties, sessions | award, convert, revoke | several groups complete at once; a threshold that moves; dissolution on revocation | every complete group converts, no penalty without its strikes, no strike charged twice |
| Checker and findings (`modules/admin/`) | `consistency_findings` | run, acknowledge, dismiss | runs overlap each other and the verdicts | legal commands give it nothing to report; what is broken stays listed |
| Identity (`modules/identity/`) | users, sessions, OAuth states, coordinators | sign in and out, roles, deactivation | authorization read before the command; callbacks twice or late | an administrator remains; a state signs in once |
| Profiles, staged rows (`modules/profiles/`) | enrollments, profile columns, staged rows | declare, edit, upload, stage, retry, claim | rows staged while their student signs in for the first time | one holder per roll; live applications are eligible; staged rows end |
| Resumes (`profiles/resumes`, `applications/commands.py`) | resumes, default markers | add, edit, delete, choose | a plan of statements under a partial unique index | one default, and the filed link stays |
| Companies (`modules/companies/`) | companies, contacts | create, edit, merge | one merge is many statements under two indexes | the plan of every command passes the indexes |
| Taxonomies (`modules/taxonomies/`) | programmes, disciplines, their map | create, edit, deactivate, delete | checks of unlocked rows, foreign keys with the last word | a deletion that was decided applies |
| Eligibility rules (`domain/rules.py`, `pathways.py`) | none; pure | evaluate, requalify | three outcomes per leaf under NOT and OR | a blank never decides what its value could reverse |
| Analytics, exports, screens; frontend; schema and seeds | none | read, render | none | - |

Interaction: commands of all components meet only in the database rows they
lock, in the tasks they defer (which become visible with the commit that
deferred them) and in the pure deciders they share. There is no in-process
shared state and there are no callbacks; the concurrency is transactions against
transactions and the worker's tasks against everybody.

`PROJECT.json` lists every component with its status, and every hazard at its
line with the properties that would show it going wrong.

## 2. The modules

### Transitions (`domain/transitions.py`, `domain/gates.py`, `domain/memberships.py`)
Constant-level. `TRANSITIONS` is the APP-4 table, row by row; `Legal` is
`decide_transition`; `CascadeTakes` and `CascadeStatus` are
`compute_acceptance_cascade` for one other application; `ExitStatus` is the exit
cascade; `DecideExpiry` is `decide_expiry`; `OutcomeGateFails`, `GateBlocks` and
`Credited` are the gates with their override resolution. The state machines
EXTEND it, so all of them obey one table. The missing row of a first
application is the status `"none"`; no deadline is `0`.

### OfferLifecycle (offers, and whatever touches an application of a student)
One student, any number of applications, jobs and cycles. Other students are not
needed: every gate, cascade and lock of this code is keyed by the enrollment.
An action is one committed command. State and code:

| Variable | Code |
|---|---|
| `status` | `applications.status` |
| `offers`, `offerCount` | `offers` rows; the id `<<a, n>>` stands for `uuid5(application, prior_count)`, and the last row is the current one |
| `tasks` | queued `enforce_offer_expiry` jobs with their `scheduled_deadline` |
| `caused` | the cascade events of `application_events`, which `compute_restore_candidates` reads |
| `jobs`, `archived`, `member`, `overrides` | the columns the gates read |
| `external` | `external_offers`, which the gates read; only `ExternalOffers` writes it |
| `now`, `interventions` | the database clock; a bound |
| `standing`, `sanctioned`, `forced`, `waived` in a row | history, for the properties only: cascade events that are still the last thing that happened to their application, live applications staff or an override brought back, forced ones, the override domains an acceptance used |

Actions: `Apply`, `WithdrawApplication`, `AcceptOffer`, `DeclineOffer` (student);
`Promote`, `Reject`, `ExtendOffer`, `RecordOpenOutcome` (process);
`TerminateOffer` with any choice of restorations and fresh deadlines,
`ReExtendOffer`, `ReinstateApplication`, `ForceTransition`; `CancelJob` over any
previewed subset of rows, `UpdateJobBasics` with its propagation to open offers
and their tasks, `SetPublished`; `ExitCycle`, `RestoreMembership`,
`ArchiveCycle`; `SetOverride`; `EnforceOfferExpiry` (worker); `Tick`. The shared
planners of `modules/offers/planning.py` are the operators `PlanExtension`,
`PlanAcceptance` and `PlanDecline`, which every action that plans an offer uses.

Each gate these commands pass is judged with the override in force for its domain:
a denial blocks, a grant counts where the gate itself fails. The domains are those of
`AllDomains`; the outcome gate and the cap are shared by applying and accepting, the
others are the answer deadline of an offer, the application deadline
(`evaluate_gates`), the withdrawal window (`WithdrawWindowFails`) and the registration
window.

A row count per command of one: bulk sheets (`extend_offers`,
`record_open_outcome`, rounds) apply their rows one after another to virtual
facts, which for one student is a sequence of one-row commands. `CancelJob` and
the cascades move all their rows in one step, as the code does.

### Memberships, ExternalOffers, ConsistencyChecker (the rest of one student's books)
Three modules, each EXTENDing the one before, from `OfferLifecycle` on.

`Memberships` (`modules/cycles/memberships.py`, `domain/memberships.py`) gives the
membership its six states and the cycle the configuration joining depends on
(activity, approval, a registration window that opens and closes, in that order).
`MEMBERSHIP_TRANSITIONS` is the closed
table of CYC-3; `JoinCycle`, `RerequestMembership`, `ApproveMembership`,
`RejectMembership`, `WithdrawMembership`, `RemoveMembership`, `ReadmitMember` are
its commands, two of them with the exit cascade; `member` of `OfferLifecycle` is
`membership = "active"`. The commands of `OfferLifecycle` that these replace
(`ExitCycle`, `RestoreMembership`) are left out of `PortalStep`.

`ExternalOffers` (`offers/external.py`, `offers/supersession.py`): a *book* is the
record of rows one command threads through the parts of its plan, `Sweep` the
cascade of an acceptance whose subject is any holder, `Restore` the restoration.
Actions: `CreateExternalOffer`, `EditExternalOffer`, `AcceptExternalOffer`,
`UnacceptExternalOffer`, `DeleteExternalOffer`, `AttachExternalOffers` (which also
admits the student to the cycle), `DetachExternalOffer`, and `ReplacePlacement`
for all four combinations of a portal and an external placement, one cascade and
one restoration in one step.

`ConsistencyChecker` (`modules/admin/checker.py`): each definition is one of the
nightly queries over these rows, and `NothingToReport` says that no sequence of
legal commands gives seven of them a row. Left out are
`one_accepted_placement_offer_globally`, since a second accepted placement is
legal under an override, and the part of
`no_live_application_without_active_membership` that is about an offer held after
leaving its cycle, which the exit cascade keeps on purpose. A forced transition
may break everything (APP-4.17).

### Discipline and RoundPipeline (the rounds of one job)
`Discipline` is constant-level: the discipline record of one enrollment, two
sequences that only grow, and the rules that rewrite it. `MaybeConvert` is
`maybe_convert` with the rows `award_strikes` writes for it,
`RecomputeAfterRevoke` is the domain function of that name with the updates of
`revoke_strike`.

`RoundPipeline` is one job of a dedicated cycle with any number of applications,
each of another student (no rule of this component relates two applications of
one student). An action is one committed command; bulk sheets are one action per
row. State and code:

| Variable | Code |
|---|---|
| `rounds` | the `job_rounds` of the job by `ord` |
| `finalized` | those with `finalized_at` |
| `named` | those that `application_events.from_round_id` or `to_round_id` refers to: a foreign key with `ON DELETE RESTRICT` |
| `status`, `position` | `applications.status`, `current_round_id` |
| `states` | `application_round_states`: result and attendance, unique per application and round |
| `cascades` | the cascade events a restoration of a terminated acceptance reads |
| `record`, `threshold` | strikes and penalties of the student; the setting `strikes_per_penalty` |
| `cancelled`, `inactive` | `jobs.cancelled_at`; memberships not active |
| `standing`, `strayed`, `leapt`, `forced`, `reordered`, `retuned`, `interventions` | history for the properties, and a bound |

Actions: `Apply`, `Withdraw`; `Advance`, `Promote`, `Eliminate` (also the removal
by an eligibility edit), `Waitlist`, `MarkAttendance`, `FinalizeRound` (the whole
round in one step, its strikes and their conversion included); `ExtendOffer`,
`SweptAway`, `ExitCycle`, `RestoreMembership`, `RestoreSwept`, which are what the
commands of `OfferLifecycle` do to a round position; `Reinstate` to any round,
`ForceTransition`, `CancelJob`; `UpsertJobRounds` to any order of any rounds,
with the backfill of applications filed before there were rounds; `AwardStrike`,
`RevokeStrike`, `AwardPenalty`, `RevokePenalty`, `SetThreshold`.

Offers are collapsed: `"offered"` stands for itself and everything an offer can
lead to, since no offer command touches a round. `OfferLifecycle` is the other
half: there rounds are collapsed into `Promote` and `Reject`.

`AdvanceNeverCollides` and `OneOpenRound` name the histories after which the code
does not keep them, rather than leaving the commands out: two rounds changed
places (`reordered`); a restoration put the application into a round it had left
since, or into no round of a job that has got some (`strayed`); a reinstatement
jumped over an undecided round (`leapt`); a forced transition (`forced`).

### RoundSlots (`applications/venues.py`, `domain/slots.py`, `jobs/builder.py`)
Where and when one applicant sits one round. `default` is the venue and time of
the round, a `seat` the applicant's round state with its override; what the
student *sees* is the override cell by cell over the default. `AssignVenueTiming`
applies a typed or an uploaded line (unreadable times, blank cells, several lines
for one student: `Asked`), `UpsertDefaults` is the part of the builder that moves
a round, `SendRoundReminder` the hourly one. `told` is the last message.

### SerialCommands and CommandTransactions (locking)
`SerialCommands` is the abstract specification: each of twelve commands reads the
database and replaces it in one step. `CommandTransactions` runs the same
commands as PostgreSQL does at READ COMMITTED: each is a *script* of the
statements of its loader (`AcceptanceLocks`, `DeclineLocks`, `ExtendLocks`, ...:
lock rows in this order, read), then a commit that writes what was decided on
what was read. `AcquireLock` waits for whoever holds the row; rows that do not
exist cannot be locked; `CancelVictim` is the deadlock detector; `Overwrite`
writes the columns a plan changes over whatever is committed by then. `peek` is
the cycle header that some loaders fetch before they lock anything. The
property `Serialized` is `SerialCommands!Spec` on `db`: a refinement. It is what
entitles `OfferLifecycle` to one action per command. The order of a script's
rows (`ORDER BY id`) is given by the constants `AppOrder` and `OfferOrder`;
`Among` says directly which row is the n-th of those wanted.

### BatchLedger and CommandExecutor (idempotency)
`BatchLedger` is the promise: the first batch stored under a key owns it, and its
chunks take effect in order, each once. `CommandExecutor` is `run_bulk`,
`_run_impl` and `reserve`: a call walks its chunks; for each it inserts the key
`batch_key:n` (waiting for an open transaction that inserted it), replays,
conflicts or decides; commit makes effects, ledger row and audit visible
together; a call may crash at any point. The refinement maps `owner` to the
batch of the key's committed rows (`KeepsPromise`).

### Notifications (`modules/notifications/`, the tasks of `worker.py` that deliver)
All times are distances from now, so the clock never runs out. A *notice* is a row
of `notification_log`; a job of the queue waits, is taken up (`BeginDelivery`),
talks to the provider (`Send`), records the attempt and schedules the next
(`RecordAttempt`, `AfterFailure`); a worker may die at either stage (`Crash`);
staff resend what died and switch templates off (`Resend`, `UpdateTemplate`).
`left`, `open`, `marks` and `scans` are the deadline reminders: an hourly scan
that may run late, deadlines that move, dedup marks that are purged.
`stranded` and `confirmed` are history.

### StudentRecords (`modules/profiles/`, first sign-in, `jobs/requalification.py`)
Enrollments with rolls and profile columns, written by the student
(`DeclareProfile`), the office (`UpdateStudentFields`, `AdminUpdateProfile`,
`UploadRow`, `StartNewEnrollment`) and the staged rows. Commands on an existing
user lock its rows and are single steps. While there is no user there is no row to
lock: a first sign-in (`BeginFirstLogin`, `CommitFirstLogin`) and the staging of a
row (`BeginStaging`, `CommitStaging`) are two steps, as is `apply`'s eligibility
check (`CheckEligibility`, `FileApplication`). A first sign-in keeps what it loaded:
its rows in `signingIn`, and in `conflicts` those of their rolls somebody had then.
It judges by that when it commits, holding the rolls' advisory locks meanwhile
(`RollHeld`). `Requalified` is the re-evaluation every edit does. `plan_staged_rows`
folds over the rows of an address; `Landed` says what the fold leaves: rows that are
`unfit` for a taxonomy, a branch or a value (any may be) fail without a trace, of the
rest the oldest with an acceptable roll decides the roll, rows with another fail, and
of the others the latest decides each column.

### The desks
Small components that share no state. `MCStaffDesks` runs them side by side: a
behaviour is that of one of them, chosen initially.

| Module | Code | What is kept of it |
|---|---|---|
| `Companies` | `modules/companies/commands.py` | names, activity, contacts with addresses and primary flags; a plan is the sequence of tables its statements produce, each checked against the two unique indexes (`Apply`); merging; the unlocked look at a company before history is written for it |
| `Taxonomies` | `modules/taxonomies/commands.py` | programmes, disciplines, the map between them, one profile that names them; the check of unlocked rows and the commit are two steps, foreign keys may stop the second |
| `Accounts` | `modules/identity/admin_commands.py`, `cycles/coordinators` | roles, deactivation, sessions, coordinators; a request is authorised when it arrives and runs later |
| `SignInStates` | `modules/identity/commands.py`, `router.py` | the OAuth state, the marker in one browser's cookie, requests and replies of several tabs in any order |
| `ResumeLibrary` | `modules/profiles`, `resolve_resume` | the library, its default marker statement by statement, the cycle default, the link an application filed |
| `JobForms` | `jobs/builder.py`, `applications/lifecycle.py` | questions, options and answers; applicants read the form unlocked, the builder counts answers, waits for their key-share locks and decides on the count |
| `EligibilityRules` | `domain/rules.py`, `domain/pathways.py`, `jobs/requalification.py` | rule trees, three outcomes per leaf, the derived facts of dual programmes; when an application is re-checked and when not |
| `Overrides` | `modules/overrides/service.py` | scopes, precedence, creation stamps in any order, replacement, expiry; `InForce` is the resolution |
| `Findings` | `modules/admin/commands.py` | finding rows under overlapping runs (read violations, read findings, write) and verdicts |

### Proof modules
`OfferLifecycleProofs` and on top of it `OfferRecordsProofs` (about
`OfferLifecycle`), `RoundPipelineProofs` (lemmas about the operators of
`Discipline`, then `RoundPipeline`), `ExternalProofs` (about
`ConsistencyChecker` with `ExternalOffers`, `Memberships` and `OfferLifecycle`
under it, on top of `OfferRecordsProofs`),
`TransactionProofs` (about `CommandTransactions` and its refinement of
`SerialCommands`), `RecordsProofs` (about `StudentRecords`), `ServiceProofs`
(about `CommandExecutor` and `Notifications`) and `StaffDeskProofs` (about seven
of the desks): section 5.

### MC modules
`MCOfferSeason`, `MCOfferInterns`, `MCOfferExpiry`, `MCExternalOffers`,
`MCRoundPipeline`, `MCCommandTransactions` and `MCStudentRecords` only define
instances. `MCServices` and `MCStaffDesks` put components without shared state
side by side, so that one run explores the union of their state spaces.

## 3. The runs

| Run | Instance and bounds | Distinct states | What it shows |
|---|---|---|---|
| `offer_season` | an auto-declining and an auto-accepting placement cycle and an open cycle, one application each, 2 offers each, 2 instants, 2 interventions; outcome-gate override | 1,216,361 | the safety properties of a season across cycle kinds |
| `offer_interns` | an internship cycle with a cap of 1 and two jobs, beside an open internship applied to twice; 2 offers each, 2 instants, 1 intervention; an application deadline; overrides of gate, cap, deadline and withdrawal window | 257,396 | the cap and the internship gate, which stay within the cycle; one active application per job |
| `offer_expiry` | two auto-accepting cycles whose offers block each other, 3 instants, 2 interventions; deadlines that staff move, drop and add; fair | 217,188 | every open offer with a deadline is resolved in the end |
| `external_offers` | a placement job with 2 offers, 2 external offers, 2 instants, 1 intervention, memberships from "none", a registration window that closes and that staff move; its override beside those of gate and cap | 656,845 | two sources of placed facts agree for the checker, undoing gives back, nothing is in a pipeline without a membership |
| `round_pipeline` | 1 applicant, 2 rounds in any order or absent, marks present and excused, thresholds blank, 1 and 2, 2 strikes, 3 interventions | 1,494,461 | the properties of rounds and of discipline |
| `transactions` | 10 commands on 3 applications in 2 cycles, any 4 in a run, 3 at a time | 199,772 | they serialize; acceptances never deadlock |
| `services` | 4 calls on one key (a two-chunk batch, its retry, one that differs in the second chunk, one by somebody else); or 2 notices, 1 deadline, 2 retries, 1 crash | 313,299 | exactly-once batches and sound replay; one chain of jobs per notice, confirmed once; every call ends, every notice settles |
| `student_records` | 2 students, one roll, one office-owned column; rows staged, uploaded and claimed in any order, fit or not | 212,787 | one holder per roll, live applications stay eligible, staged rows settle |
| `staff_desks` | ten desks: 2 companies with 3 contacts; 2 programmes with 1 discipline; 2 users with 2 sessions; 3 OAuth states; 4 resumes; 2 findings under 2 runs; 2 overrides; 1 question with 3 options; three rule trees; 2 venues and 1 time | 622,915 | each desk's own property |
| `finalize_race`, `filed_resume`, `selected_options` | the instances of `transactions` and `staff_desks` | - | section 6 |

*Why the bounds are enough.* Two offers per application let a re-extension or a
restoration follow a first answer, so a stale task, a closed row and a fresh row
coexist; a third adds no new relation between rows (only the current one is
read). Three instants (0, 1, 2; two where no deadline moves to and fro) give a
deadline that is ahead, reached and passed, and allow it to be moved in either
direction. Interventions (rare staff commands, exits, overrides) are bounded per
run since each pair of them multiplies the state space; all student, process and
external-offer commands are unbounded. Two cycles and three applications give the
relations the rules distinguish: the same job, the same cycle, another cycle. Two
external offers, one of them for a swap. Four transactions, three of them open at
once, give every pair and every triple of commands; a cycle of waits among more is
a cycle over the same three kinds of rows. In `round_pipeline` one applicant is
enough: applications share only the list of rounds, and what others do to it (a
round that cannot be dropped because they entered it) only takes steps away. Two
rounds give before, after, inserted, dropped and swapped. Four calls on one key
are an owner, its retry and the two ways of conflicting. Two notices let one be
resent while the other is in hand; two retries are a first, a middle and a last
attempt. Of the desks: a merge needs two companies and a contact that collides, is
primary, or neither; mutual demotion needs two administrators and a request of
each under way; deleting the default resume needs three rows behind it to choose
among; an override contest is between two rows. Properties that are also proved do
not depend on any of this.

*Symmetry* is used in `offer_interns` for the two applications to the open job and
for the two jobs of the internship cycle together with their applications, in
`round_pipeline` for the rounds, and in `external_offers` for the external offers;
none of them checks a liveness property.

*Deadlock checking* is off where the system may stop: a season ends (the clock
stops at `MaxTime`, every application may reach a final status), calls finish,
transactions run out, identifiers are used up. Waiting in circles is checked
explicitly (`AcceptancesNeverDeadlock`, `EveryCallEnds`, `EveryNoticeSettles`,
`StagedRowsSettle`).

## 4. Fairness

`OfferLifecycle!FairSpec`: weak fairness of `Tick`, since time passes, and of
`DueTask`, since the queue is durable and the worker takes up every job whose
time has come (`worker.py`). It is assumed that the job's transaction commits:
`enforce_offer_expiry` is registered without a retry strategy (`worker.py:98`),
so an attempt that fails for good is outside the claim. The action takes *some*
due task; because a task is removed or moved to a later deadline when it runs and
the clock is bounded, none is starved. Students and staff owe nothing, so
`OfferEventuallyResolved` relies on the worker alone.

`MCServices!Spec` has the fairness of both services. Of the executor, weak
fairness of the calls' own work: the event loop runs whichever is not blocked on a
key. A crash is never required, so a lock held for ever would be seen. Of the
delivery, weak fairness of the clock and, for each notice, of the work on its
jobs: the queue is durable and polled. Staff owe nothing: `EveryNoticeSettles`
holds without a resend, unless the notice was stranded by a worker that died or by
a template switched off between two attempts.

`StudentRecords!FairRecordsSpec`: weak fairness of the commit of a staging that has
begun, and strong fairness of each student's sign-ins. Strong, because a sign-in
waits for the advisory locks of rolls, which come and go; and that students keep
signing in is an assumption about them, without which a staged row waits for ever
by design: `StagedRowsSettle` is about what a sign-in owes to the row.

`MCStaffDesks!Spec`: the worker starts the checker every night and a run that has
started ends (`NightlyRun`); administrators and the button owe nothing.

`CommandTransactions` states no fairness; its properties are safety.

## 5. What is proved

Every theorem holds for all values of the constants that satisfy the assumption
of its component. Its inductive invariant was an invariant of a run first.

`OfferLifecycleProofs`, under `ConstantsAssumption` (finite non-empty set of
applications; any jobs, cycles, policies, caps, overrides; any bounds):

- `TypeCorrect`: `Spec => []TypeOK`. `TypeOK` is inductive. Lemmas on the
  planners (`RecordType`, `PlanExtensionType`, `PlanAcceptanceType`, ...) carry
  it; there is one lemma per group of actions.
- `OneAcceptedPlacementHolds`: of two accepted placements one was accepted under
  an outcome-gate override. The only steps that make a row accepted are
  acceptances (`AcceptanceStep`); every other step leaves the set of accepted
  rows as it was or smaller (`QuietStep`). An acceptance went through the gate,
  so there was no other accepted placement, or the override was credited to the
  row.
- `NoCompetingApplicationHolds`: while a student is placed nothing in a dedicated
  cycle competes, unless sanctioned. It needs that the gate's reach is contained
  in the cascade's: whatever the gate refuses after an acceptance was swept by
  it. An application becomes live afterwards only through `Apply` (past the gate,
  or credited) or through an intervention (sanctioned); everything else moves
  live applications among live statuses or out of them.

There the inductive invariants are `TypeOK`, and `TypeOK` with each of the two
properties: neither says anything about an ill-typed `offers` function, and
`AcceptedIds` must range over rows that exist.

`OfferRecordsProofs`, about the same component. The step lemmas sort the actions
by their shape, so that each property is argued once per shape:

- `WithinCycleCapHolds`: the accepted offers of a cycle that were not waived are
  never more than its cap. An acceptance adds one row and met the cap gate below
  the cap (or is credited); every other step has a subset of the rows before
  (`QuietStep`), and cardinality is monotone.
- `OfferMatchesStatusHolds`: the row and the status tell one story unless a forced
  transition parted them. The invariant is that slots beyond `offerCount` have
  never been written, and for every application not forced the six ways a current
  row and a status belong together (`Booked`). Every step is one of five shapes of
  a book: unchanged, moved without an offer, extended, answered or ended, renewed.
- `ClosedOfferIsFinalHolds`: a row that was answered or terminated is never
  reopened, by the same shapes.
- `OneActivePerJobHolds`: two applications of one job are never both active. The
  difficulty is the restorations: two applications may both have been live, one
  after the other, and both have been swept. `SoleInv` says that one acceptance
  swept at most one application per job (`SoleSweep`) and that what is still to be
  given back was settled by a cascade (`SweptBySettled`), so a restoration returns
  at most one, and it is refused beside a live one.
- `ExpiryScheduledHolds`: an unanswered offer with a deadline has a task queued
  that will fire by then. It rests on `Booked`, since tasks are read through the
  current row; a step keeps the queue, extends it, moves the tasks with the
  deadline, or closes the offer.

`RoundPipelineProofs`, under `PipelineAssumption` (finitely many rounds, natural thresholds and bounds; any
applications, any marks, strikes on absence or not):

- `PipelineTypeCorrect`: `Spec => []TypeOK`. Here the types are not inductive by
  themselves: an event names the round an application sits in, so that it sits in
  a round the job still has is part of the argument.
- `AdvanceNeverCollidesHolds`: what the board shows as advanceable the database
  accepts. The inductive invariant is `PipelineInv`, with six conjuncts beside the
  types. `ClearAhead` is the core: ahead of an application's position it has no
  state. Moving on preserves it because whatever is ahead of the next round was
  ahead before (`NextRoundFacts`), reinstating because it deletes what is ahead,
  rewriting the rounds because two of them keep their order unless `reordered`, and
  because the round an application sits in cannot be dropped: an event names it or
  a state of the application holds it (`Routed`, `StatesListed`). `CascadesNamed`
  and `StandingAgrees` are for restorations: a cascade nothing has overtaken leads
  back to where the application still is. `UnfiledUntouched` is for `Apply`.
- `SpentStrikesStaySpentHolds`: a strike consumed by a penalty that is no longer
  active stays consumed. It follows from the types and from `AwardKeeps` and
  `RevokeKeeps`, the lemmas about `Discipline` that say what awarding and
  revoking keep of a record of any size.
- `OneStrikePerAbsenceHolds`: no two strikes for one round. The strengthening is
  `AbsencesFinalized`: the round of a strike is finalized and some event names it.
  The first excludes a second finalization, the second keeps the builder from
  dropping the round and creating it anew, unfinalized.

- `OneOpenRoundHolds`: an application in progress has one undecided round, the one
  it sits in, and none while the job has no rounds. `OpenInv` says so on top of
  `PipelineInv`, and says the same of an application whose sweep may still be taken
  back, since the restoration returns it as it was. The cases that take work are
  those that write two rounds of one application: moving on decides the old round
  and opens the next, reinstating deletes what is ahead, and the builder opens the
  first round for the unrouted.

- `ConvertedPenaltiesSupportedHolds` and `NoLeftoverGroupHolds` count. Ranks number
  the free strikes: they ascend with the index and reach no further than their number,
  so they are a bijection (`RankedWithin`), and the ranks of one group are as many as
  the threshold (`Groups`, `GroupOfRank`). Hence a conversion gives each new penalty a
  whole group (`ConvertSupports`) and what is left has the ranks above the last
  group, fewer than the threshold (`ConvertSettles`). `SupportInv` is stronger than
  the property in one point, that some strike backs an automatic penalty in force also
  while the threshold has never changed: a blank threshold asks for none, and the next
  one may not find the penalty standing on nothing. `RevokeSupports` is the case that
  takes work: a penalty either loses the revoked strike and still has enough, or is
  dissolved.

`ExternalProofs`, about `ExternalSpec`: the portal, the memberships and the external
offers of one student, in any number of cycles and with any number of external
offers. A command about an external offer changes many rows at once: it ends one
placement, gives back what that had swept, takes up another and sweeps for it. The
argument describes the outcome once: a *posting* (`Posting`) says row by row what
becomes of every status, offer row, count and task. Each command is shown to be a
posting (`CreatePosts`, `AcceptPosts`, `UnacceptPosts`, `ReplacementPosts`) or to
leave the applications alone (`Aside`), and everything below is about postings.

The inductive invariant is `ReportInv`, one conjunct for each thing a query of the
checker or a gate relies on:

- `ExternalTypes`: `TypeOK` of the portal and the types of memberships;
- `BooksInv` and `SoleInv`, the invariants of `OfferRecordsProofs`, now kept by
  postings too (`PostingBooks`, `PostingSole`): an ended placement is a current row,
  an incoming one is answerable, and what is swept is live, so a row keeps its place
  among the six ways a row and a status belong together;
- `CapsInv`: no cycle gives out more than its cap. A replacement within a cycle is
  one for another (`OneForAnother`); attaching several external offers at once
  counts them all, or credits those beyond (`AttachCap`);
- `AttachedInv`: an attached external offer has the outcome its cycle is for;
- `OpenJobsUndated`: a job of an open cycle has no answer deadline;
- `MembersInv`: the flag the portal reads is the membership, and whoever has left a
  cycle has nothing in its pipeline unless it was revived. A status enters the
  pipeline beside an active membership or by a revival (`EntersRightly`), an exit
  clears it in the same transaction.

From it:

- `NothingToReportHolds`: every query of the checker comes back empty, short of a
  forced transition. The property leaves out the query for two accepted placements
  (`OneAcceptedPlacement` is about it) and, of the one for applications without a
  membership, the offers held after leaving.
- `PipelineNeedsMembershipHolds` and `MembershipTypeCorrect` are conjuncts of it.
- `BooksStayInOrder`: `OfferMatchesStatus`, `OneActivePerJob` and
  `ClosedOfferIsFinal`, which `OfferRecordsProofs` proves of the portal alone, hold
  with external offers and memberships moving beside it.
- `ExpiryScheduledBesideExternal`: so does `ExpiryScheduled`. A posting answers or
  ends an open offer, leaves its row alone, or writes a fresh one together with a
  task at the deadline staff set (`PostingQueue`), and takes nothing out of the
  queue.
- `SecondPlacementNeedsOverrideHolds`: the placements held after a step are some of
  those held before, or one stands for one given up (`HeldStep`), and neither is
  more than before; anything else passed the outcome gate, which is shut for a
  placed student (`HeldIsPlaced`) unless staff allow it.
- `RestorationGivesBackHolds` needs `CausesInv`: of one application's sweeps by one
  acceptance only the latest is remembered, and an application a sweep was the last
  to touch is not live. So the event the command picks is the one the property is
  about, and no sweep of the same step takes the application again.

`TransactionProofs`, for any applications, jobs, cycles and cascades, any order of
rows, and any transactions:

- `AcceptancesNeverDeadlockHolds`. `LockInv` says that held rows are disjoint, that
  only open transactions hold any, and that an acceptance past its first statement
  holds the enrollment row. Two acceptances waiting for each other would both be
  past it, or one would wait for a row it alone may ask for first. Commands of all
  kinds, `apply` and `finalize_round` included, may run beside them.
- `LockedCommandsSerialized`: the refinement `Serialized`, for transactions none of
  which is `apply` or `finalize_round` (`Racing`). `SerialInv` adds to `LockInv` that
  the rows a transaction read are still what is committed wherever its decision or
  its writes look (`ReadIsCurrent`), since whoever could write them had to lock one of
  the rows it holds (`PassedIsHeld`); that what an archived cycle leaves behind stays
  left (`Quiet`); and that rows do not vanish (`RowsKept`). `Decided` says that a
  decision looks at those rows only, `StaysCurrent` that a commit of another
  transaction keeps them. The two racing commands decide on rows they have not
  locked; with one of them among the transactions the refinement fails, as
  `finalize_race` and `MCApplyRace.cfg` show (section 6).

`RecordsProofs`, for any students, rolls, columns and rows:

- `RecordsTypeCorrect`: `RecordsInv` adds to the types that a first sign-in is under
  way only where there is no user (`FirstLoginsAreFirst`), that only declared
  profiles have applied (`ApplicantsDeclared`), and `FirstLoginLocks` below.
- `RollsStayUniqueHolds`: whichever command brings a roll looks, under the roll's
  lock, whether another current enrollment has it. A first sign-in looked when it
  loaded its rows, a step or more before it commits. `FirstLoginLocks` says that
  nothing was missed: no two sign-ins hold the lock of one roll (`LocksApart`), and
  of the rolls a sign-in holds, all that are taken now it saw taken (`SawAllTaken`).
  `LocksKept` carries this over every step, since whoever has a roll after a step and
  had it not before brought it locked (`RollsComeLocked`). The converse fails: a roll
  that was taken at the load may be free at the commit. For
  `Landed` it takes that the roll it leaves is the old one or that of a row judged
  acceptable, and for that, that sets of row numbers have a least and a greatest
  element (`LeastOf`, `GreatestOf`: `<` is well-founded on the naturals).
- `LiveStaysEligibleHolds`: every write of a profile goes through `Requalified`, which
  leaves a live application only where the rule still holds.

`ServiceProofs`, for any calls, keys, principals and batches, and any crash:

- `KeepsPromiseHolds`: the executor implements `BatchLedger`. A commit is the step
  of the abstract specification for the batch that owns the key, every other step
  stutters. The inductive invariant `ExecutorInv` says that what is stored under a
  key is a prefix of one batch (`PrefixStored`), that a call at chunk `n` has the
  chunks below stored under its own fingerprint (`Placed`), and that a key not yet
  stored is held by one transaction (`KeyHeld`). From these, whoever commits chunk
  `n` finds exactly `n - 1` chunks of its own batch (`CommitsNext`).
- `SuccessIsStoredHolds` and `AuditedOnceHolds` from the same invariant.

And for any notices, deadlines, retries and crashes:

- `OneChainOfJobsHolds` and `ConfirmedOnceHolds`: a notice has at most one job,
  waiting or in hand, and the provider confirms it at most once. `DeliveryInv`
  adds that a notice without a job is settled, not yet queued or stranded
  (`Chained`), and that a confirmed one is sent, in hand or stranded
  (`Confirmable`). A resend starts from a settled failure, so it never starts a
  second chain.
- `RemindedOnceHolds`: one reminder per deadline within the retention of the marks.
  `ReminderInv`: a reminder younger than the retention has a mark of its own age.

`StaffDeskProofs`, one short argument per desk:

- `AnAdministratorRemainsHolds`: a removal counts the active administrators under
  the row locks of all of them, so one that is not refused leaves another
  (`NotTheLastOne`).
- `StateUsedOnceHolds`: `StatesInv` says that a state not yet deleted has signed
  nobody in and that those being started are distinct and not yet stored; the key
  leaves the table with the one callback that finds it.
- `OneDefaultResumeHolds`: a library with entries has one default and no statement
  of a plan meets the partial unique index. It needs that every part of the
  library has a newest entry to promote (`HasNewest`).
- `DeletesApplyHolds`: a delete never runs into a foreign key. `TaxonomiesInv` keeps
  the foreign keys and says that what a counted zero excludes is all there is
  (`UnusedProgram`, `UnusedBranch`).
- `ToldWhatTheySeeHolds`: a student who has not missed a change while off the job
  was last told the slot they see, override over default cell by cell.
- `DirectoryPlansApplyHolds`: every statement of a plan leaves a table that passes
  both unique indexes. `CompaniesInv` is that the stored table passes them; the case
  that takes work is the merge, of whose contacts any may have been moved when an
  index is consulted (`MergeFits`): known addresses are gone, and an incoming primary
  stays one only beside none.
- `BlocksHoldAlways`: an action property, of any step. Whatever is in force after the
  step is no less specific than the untouched block, a block if as specific as it
  (`RankIsInjective`: scopes of one rank are one scope).

*Only model-checked*: liveness (`OfferEventuallyResolved`, `EveryCallEnds`,
`EveryNoticeSettles`, `StagedRowsSettle`, `DriftIsListed`), which the provers cannot
reach; `KnownVerdictsStand`, which is about an evaluation of rule trees, that is, recursion
over data.

## 6. Where the code and its documents part

Three runs end in a counterexample and are recorded as findings:

- `finalize_race` (`MCFinalizeRace.cfg`). `finalize_round` judges application
  statuses it has not locked and may overwrite a withdrawal or a cascade.
  `docs/BEHAVIOR.md:389` says the later transaction re-reads and skips.
- `filed_resume` (`MCFiledResume.cfg`). An edit that names no resume replaces the
  filed one by the cycle default when there is one; the comment at
  `lifecycle.py:172` says it is kept. `ApplicationForm.tsx` swaps it likewise, and
  the test of APP-3 passes only because its pasted link equals the default.
- `selected_options` (`MCSelectedOptions.cfg`). The builder tests for a proper
  subset, so exchanging an option for a new one withdraws an option an answer has
  selected; `builder.py:855` says it may not.

The following configurations end in a counterexample as well when TLC is called
with them; they show what the code does where its documents are less definite.

| Configuration (module) | What the counterexample shows |
|---|---|
| `MCArchivedCycle.cfg` (`MCOfferSeason`) | Terminating an acceptance restores applications of other cycles, and nothing asks whether those are archived; `docs/BEHAVIOR.md:113` says archived is read-only. |
| `MCRestoration.cfg` (`MCOfferExpiry`) | What an acceptance swept is recognised by its current status: a student who declined a re-extended offer is offered it again when the acceptance is terminated. |
| `MCLockOrder.cfg` (`MCCommandTransactions`) | The last phase of `lock_acceptance_state` takes offers of other cycles after applications, `decline_offer` its offer before its application; PostgreSQL cancels one. `jobs/cancel.py:184` describes the order as ruling this out. |
| `MCApplyRace.cfg` (`MCCommandTransactions`) | `apply` is not serialized with acceptances: an application filed during one survives it. |
| `MCRoundOrder.cfg` (`MCRoundPipeline`) | `upsert_job_rounds` may swap rounds applications have entered; the insert of `advance` then violates the unique constraint for a row the board shows as advanceable. |
| `MCReturnedSlot.cfg` (`MCStaffDesks`) | A student reinstated after the round's default moved is never told; `venues.py` reasons that they have been. |

Observed while modelling, without a run. *Offers*: `docs/BEHAVIOR.md:278` lets the
cascade cover open cycles, line 33 and `domain/transitions.py` exempt them (the
models follow the code). `replace_placement` consults no outcome gate. Attaching an
accepted internship has no cascade. A status forced to `accepted` over an
unanswered offer lets `replace_placement` terminate an offer nobody accepted.
An external acceptance that was withdrawn and given again may have swept two
applications of one job (the student applied anew in between). When it ends, the
preview offers both for restoration: `_duplicate_restore_target`
(`termination.py:439`) compares each with the rows as they are, where the other is
withdrawn. Picking both meets the partial unique index and the command fails, where
`interventions/commands.py:436` prefers a reasoned rejection; `Restorable` has that
failure as `FitTheIndex`. (Without that conjunct, `NothingToReport` is refuted once
`MCExternalOffers` has a second application of a job.)
*Memberships*: `domain/memberships.py:82-87` argues that a pending member holds no
applications, which is false for an accepted or offered one after a withdrawal and a
re-request; the remedy the checker names, `restore_membership`, refuses a pending
member. *Notifications*: a worker that dies between `prepare` and `record`, or a
template disabled before a retry, leaves a notice without a job, and a resend
refuses it (`ARCHITECTURE.md:259`). *Records*: the old roll of a new enrollment
does not stay out of the sheets (`bulk.py:461`, `docs/BEHAVIOR.md:94`); staged rows are
not checked against fields closed to bulk uploads (`fields.py:88`); sign-in and
upload take their advisory locks in different orders (`commands.py:338`,
`bulk.py:134`), so one may be cancelled; a first sign-in refuses a
staged roll whose holder gave it up after the rows were loaded (staff may retry the
row); `contact_update` compares the unstripped
address and stores the stripped one; `create_job` and `record_external_offer` read
`company.is_active` unlocked. *Rules*: an edit that turns two plain degrees into a combined one is not
checked against the programmes built from them (`ComponentsArePlain` as an invariant of
`MCStaffDesks` with four programmes and `Desks = {"taxonomies"}` is refuted);
`is_dual_degree` is false, not unknown, for a student with no programme; a new session, placement or override re-checks no
application, but a later unrelated profile edit does (`docs/BEHAVIOR.md:91`, 165).
*Rounds*: of two upload lines for a student the first is kept, where `slots.py`
says neither is; students past a round are told that it moved; a round reminder is
sent once even when its slot moves afterwards. *Checker*: a stale run may close a
finding that another has just opened; the next night lists it again
(`DriftIsListed`).

## 7. What is left out of the models

Of modelled components:

- Text, notices' contents, audit contents, snapshots. They change no state the
  properties see. In `OfferLifecycle` eligibility, penalties and profile
  completeness only narrow who applies, so `Apply` may happen or not.
- In `RoundPipeline`: archival, which only takes steps away there; the academic sessions
  a penalty bars. Venues and reminders have a module of their own.
- Batches over several students: the lock model has one, so a batch locking
  several enrollments never meets another one in it. `SELECT ... FOR UPDATE` without
  `ORDER BY` (`rounds.py`, `cancel.py`) is modelled in id order.
- Failing attempts of `enforce_offer_expiry` (section 4), exports that a crash
  leaves queued, attempts of the checker's schedule that fail.
- Settings other than `strikes_per_penalty`; queries of the checker about
  discipline, rounds and profiles; dry runs of commands, which roll back.

Not modelled at all: `modules/analytics`, exports and the read-only queries of
every module (they change no state; what they show is what the properties above
say of the tables); the frontend (it keeps nothing the backend does not check
again); migrations, `seed.py` and `mock_seed.py` (the unique indexes and foreign
keys the code relies on are in the models that use them); logging, settings and
deployment.

Hazards without a passing property, and why, are in `PROJECT.json`: two are
refuted by the code (`PlacedStudentIsOut`, `ArchivedCycleIsReadOnly`), one is the
missing retry of the expiry task, two need an extension of the lock model.

## 8. Plan

| Step | Modules | Abstract specification, runs, theorems |
|---|---|---|
| done | all modules of section 2 | sections 3 and 5 |
| 1 | two more scripts of `CommandTransactions`: `upsert_job_rounds` against `apply` (`builder.py:389`) | nobody is left unrouted in a job that has rounds |
| 2 | a second student in `CommandTransactions`, for batches that lock several enrollments (`awards.py:55`) | which pairs of batches may be cancelled |
| 3 | the record of `Discipline` as an abstract specification of what a student owes | each strike is charged at most once through every revocation |
| 4 | proofs | the types of the desks that have none yet |
