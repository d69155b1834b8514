# LiquidHR in TLA+

LiquidHR is a Dutch HR and payroll suite: a Next.js application
(`src/apps/hr-suite`) on a Postgres database (Supabase) whose migrations hold much
of the logic as plpgsql functions. This directory holds TLA+ specifications of the
parts in which several actors, unreliable calls and time meet, the TLC
configurations that check them, and TLAPS proofs about them.

Contents: [1 The system](#1-the-system) ·
[2 The modules](#2-the-modules-and-the-code) ·
[3 The runs](#3-the-runs) ·
[4 Time, faults and fairness](#4-time-faults-and-fairness) ·
[5 The proofs](#5-the-proofs) ·
[6 Where code and text disagree](#6-where-code-and-text-disagree) ·
[7 Not modelled](#7-what-is-not-modelled) ·
[8 Plan](#8-plan)

`HR` stands for `src/apps/hr-suite` below and `M` for `HR/supabase/migrations`.

To check one run: `tlc -config MCAiCredits.cfg MCAiCredits`. To check the proofs of a
module: `tlapm AiCreditsProofs.tla`.

## 1 The system

### 1.1 The parts whose behaviour is hard

**Liquid Credits ledger** (`M/20260828133631_ai_liquid_credits_foundation.sql`,
`M/20260915163650_ai_admin_settings_voice_accounting.sql`).
*State:* batches of credits (`ai_credit_allocations`: a monthly allowance and grants,
each with an expiry and the counters reserved, settled, released, expired),
reservations, the links that say which batch a reservation draws on, charges of voice
sessions, and a usage row per actor and month.
*Operations:* ensure the monthly allowance, grant, read the balance (which sweeps
expired batches), reserve, settle, release, charge a voice session.
*Hard:* reserve and voice charge lock the policy row first, settle and release lock it
when the policy is active and the rows they change anyway, the balance's sweep and a test
grant are one statement each: so they are serial. But `now()` is the start of the
transaction, which may have waited for a lock across an expiry or the end of a month, and
the month is computed by the caller before that; the reaper charges a session in the month
the session ended in, however long ago. Reservations close long after the month or the
batch they were made from.
*Correct when:* no credit is lost or invented, the two books (batches and usage) agree,
limits hold, expired credits stay expired, and each use is charged once.

**AI invocation lifecycle** (`HR/lib/ai/orchestrator.ts`,
`supabase-invocation-repository.ts`, `M/20260828133631_*`, `M/20260928072242_*`).
*State:* a row per idempotency key with an execution status, a result status, the
charged credits, a release reason and an audit status; the reservation of that key; one
business audit record.
*Operations:* look up, insert, authorize, resolve the month, reserve, load the context,
lease, call the provider, validate, record usage, settle, release, write the audit: each
a separate database call, each a conditional update of the row.
*Hard:* the server function may be killed at every `await`; a call that timed out may
still execute; a reply may get lost; two requests may carry one key.
*Correct when:* money, row, audit and answer tell the same story, and the provider is
called once per key.

**Durable recovery** (`M/20260928072242_*`). Three loops that settle, release and audit what
was interrupted, and a reaper of voice sessions. There is no scheduler: every new
request runs them first.

**Provider safety** (`M/20260828124612_ai_provider_safety_fup.sql`,
`HR/lib/ai/provider-safety.ts`). Leases of one environment with caps per hour, per day
and at once. *Hard:* the clock is read before the lock; leases expire by themselves
whether or not their call still runs.

**Voice sessions** (`HR/lib/ai/realtime-voice.ts`, `voice-credits.ts`, `team-scope.ts`,
`M/20260915163650_*`, `M/20260928072242_*`). *State:* sessions of employees and teams, a
charge per session. *Operations:* start, store the members of a team session, end by the
client, reap. *Hard:* the client and the reaper end one session concurrently, the policy
may be off or locked, there may be too little credit, a client may disappear.
*Correct when:* session and charge agree, an end is final, nothing is charged twice or
for waiting, and everything ends and is charged eventually.

**Controlled actions** (`HR/lib/controlled-actions/service.ts`). *State:* a draft with a
status, a version, the hash of its preview, a confirmation and an expiry. *Operations:*
prepare, preview, confirm, cancel, execute, readback. *Hard:* every call loads, checks,
asks the domain for a fresh preview and then updates conditionally; rights and balances
change in between; the domain call may commit without saying so. *Correct when:* what
the user confirmed is executed at most once, with consent and in time, and what the user
was told stays true.

**Process engine** (`M/20260808142249_*`, `M/20261028125342_*`, `M/20261026190604_*`). *State:*
an instance pinned to a published version of its definition, the activations of its
steps, work items with candidates, a claimant and a version, and events that carry the
idempotency keys. *Operations:* start, act on an item, claim, release, reassign; acting
activates the following steps recursively, through forks, joins, automatic steps and
ends. *Hard:* everything locks the instance, but the page a person acts on is old; actions
are repeated and race; an exception deep in the recursion undoes all of it; branches meet
in a join. *Correct when:* steps and items agree, an action does what its user saw, each
step ends once, and the process neither hangs nor runs past a join.

**Process automation jobs** (`M/20261023104819_*`, `M/2026080817*_process_automation_p7_*`,
`HR/lib/process-automation/workflow-job-service.ts`). *State:* a queue of jobs with attempts,
a lock of fifteen minutes and a due time; deliveries of reminders; outputs with a document,
its readers and its file. *Operations:* enqueue, claim (which first takes back what is
locked for too long), the calls a worker makes, report, requeue. *Hard:* a worker is a
series of calls that each may fail, get lost or be its last, and two workers may be at one
job. *Correct when:* each result appears once, success is only said of what is there, and
every job ends or waits for an operator.

**Actual work** (`M/20260914192320_*` to `M/20261027163113_*`, `HR/lib/actual-work`,
`HR/lib/payroll/source/liquid-hr-source-provider.ts`). *State:* hours with their revisions, the
month that may be closed, versions of the mapping to salary components, approvals of a
revision for a payroll period, releases. *Operations:* create, import, void, correct,
close, review, approve, release, and the reading of it all by payroll. *Hard:* services
read, think and write back; the review and the payroll read several tables by several
queries; a correction may move an entry to another administration. *Correct when:* the
revisions tell the whole history, an approval is of the revision that was reviewed, and payroll
pays what was approved, once.

### 1.2 How they interact

```
 request --> AiInvocation --reserve/settle/release--> AiCredits
                  |  \--lease/complete-----------> AiProviderSafety
                  |
 next request --> recovery (rows of AiInvocation, sessions of AiVoice)
 client ------> AiVoice --charge----------------> AiCredits
 assistant ---> ControlledActions --one call----> talent, leave, ... (domain services)
 people ------> ProcessRuntime --enqueues--> WorkflowJobs ----> documents, deadlines
 people, CSV -> ActualWork ----------------released hours-----> payroll runs
```

The ledger and the lifecycle meet in `CreditContract`: what one reservation may do. Both
`AiCredits` and `AiInvocation` are shown to implement it, so `AiInvocation` may treat a
reservation as one status, and `AiCredits` may treat its callers as arbitrary. `AiVoice`
keeps of the ledger how much an actor can still be charged; `ChargeVoiceSession` of
`AiCredits` has the accounting. `WorkflowJobs` sees of the process engine when a job is due and
when a step is over (`StepEnds`); the engine never waits for a job. `JobContract` is what the rest
of the system may rely on.

### 1.3 The other parts

The remaining parts of the repository are listed in PROJECT.json with the reason each is
left out (section 7 sums them up): HeRa assistant, process studio and forms, public API and
MCP, documents and signing, leave, absence, recruitment, journeys, payroll
runs and the payroll engine, salary structures, employment and organisation, talent,
insights, authentication, imports, the control console, the user interface.

## 2 The modules and the code

| module | what it is |
|---|---|
| `CreditContract` | abstract: a use of credits is reserved once, then settled once or released once; a metered use is charged once |
| `AiCredits` | the ledger, one action per plpgsql function |
| `AiInvocation` | one run of the orchestrator per request, one action per database call, the credit functions it calls, and the reconciler |
| `AiProviderSafety` | the leases, the phases of a provider call, and the clock |
| `AiVoice` | sessions, clients' ends, charges, the reaper |
| `ControlledActions` | drafts, calls of the service, updates and domain calls that arrive late |
| `ProcessRuntime` | one instance: its steps, work items, and the requests of people |
| `JobContract` | abstract: the result of a job appears once, and done means that it is there or not needed |
| `WorkflowJobs` | the queue, its workers call by call, reminders and documents |
| `ActualWork` | hours of one month from their entry to the payroll run |
| `MC*` | instances for TLC |
| `*Proofs` | theorems and their proofs |

PROJECT.json maps every definition to the lines it stands for. Definitions marked
*Mutant* are plausible mistakes; nothing uses them, and each must make a run fail when it
replaces the definition that follows it.

**AiCredits.** `allocations`, `bookings`, `links`, `usage` are the tables. A row that does
not exist is a batch of amount 0 or a booking with status `NONE`. Every action takes
`now`, an instant up to `MaxWait` ago, and, where the caller passes one, a month computed
at or before `now`. `Expire` and `WithAllowance` are the two calls most functions make
first. `Draws` describes what the loop over the usable batches returns instead of
looping. Quotas and the allowance are constants.

**AiInvocation.** `row`, `reservation` and `audit` are the tables; `pc`, `doubt` and
`answer` are where a request is, which transition it has to read back, and what it told
its caller; `late` holds the calls that were given up and may still execute.
`Transition` is `InvocationRepository.transition`: update where the status is the
expected one, and, without a row in the reply, a read-back (`Confirm`) that compares
columns. `Call` is a credit call. The functions `ReserveOf`, `SettleOf`, `ReleaseOf`,
`RecordAuditOf` are the database's. `Reconcile...` are the loops of the recovery, one
candidate each, since a candidate is handled in a block of its own.
Legacy rows are what the release before `20260928072242` could leave
(`src/docs/quality/acceptance/runs/AI01-A-20260928.md:99` and `:155-163` name them:
`SETTLING` with settled credits, `RELEASING` with released ones, `FAILED` with reserved
ones).

In the model, as in the code, the transitions `Settled` and `Released` never match a row:
`settle_ai_invocation` and `release_ai_invocation` have already moved it. Both are then
read back with a timestamp in the patch, which never compares equal, so with the deployed
database functions no caller is ever told `SUCCEEDED` or `FAILED` (finding *delivery*): both
become `INTERNAL_CONFIGURATION_ERROR`, and so does a settlement that timed out and commits later.
That answer says nothing of the charge. `AnswersHold` states what each answer does say: one told
`FAILED`, `REJECTED` or `CREDITS_UNAVAILABLE` is never charged, one told `SUCCEEDED` is, and one
told `INTERNAL_CONFIGURATION_ERROR` may be, but only for a validated result of the one provider
call of the key. The cases of `FAILED` and `SUCCEEDED` are there for the day the comparison is
repaired.

**AiProviderSafety.** `lease` is the table, `phase` and `since` follow an invocation. `Ask`
reads the clock; `Grant` holds the lock and checks the caps with the instant of `Ask`.

**AiVoice.** One tick is a billable minute. `row` holds both session tables; `creating` the
team sessions whose members are not stored yet; `call` the requests to end a session;
`holder` who has the policy's row locked between reading the clock and commit. `Reap` and
`ReapWithoutPolicy` are the two branches of `reconcile_expired_ai_voice_sessions`, for a
whole batch. `WrapperIsDefiner` says with whose rights `public.finalize_ai_voice_session`
runs: TRUE as `M/20260915182841_*` set it, FALSE as `M/20260928072242_*` recreates it.

**ControlledActions.** `row` is the draft of an idempotency key, `effects` counts what the
domain did, `req` follows a call through its phases, `wire` holds updates and `late`
domain calls whose caller gave up, `shown`, `asked` and `told` what users saw, asked for
and were told. `Matches` and `Applied` are the conditional updates of the repository. A
preview is a payload plus the `terms` (rights, balances, goals) it was computed under;
the code compares hashes of the same.

**ProcessRuntime.** `db` are the tables as committed, `work` the same inside the transaction that
holds the instance, `todo` the steps it still has to activate: `activate_process_step` calls itself,
and each call is one step of the model on `work`, ended by `Commit` or undone by `Abort`. A
transaction begins with the check of a request (`MayAct`), so `acting` is the request it executes.
`SendAction` is the page: a request carries the item, and perhaps the step, as they were. It can
be executed later, again (its key is found in the events after `Commit`) or never (`Forget`). A
definition is a record of steps, modes and transitions; a transition that is not `sure` has a
condition on the data, and any outcome of it is possible. `IsNextRound` is the activation number.

**WorkflowJobs.** Each action `Remind` to `Succeed` is a call of a worker that took effect, answered
or not; `Refused` is one that did not. `late` says that the lock is older than fifteen minutes and
`due` that `available_at` has passed; both are set by time alone. A worker that is late goes on as
before. Calls of the user path do not ask who holds the job, those of the scheduler do.

**ActualWork.** A writer reads, is admitted (the month is open) and commits in separate steps; an
approval of a `PENDING` entry is admitted and committed too and holds the entry's row in
between. A screen lists rows first and numbers later (`List`, `Show`); a calculation reads the
entry, then number and releases in either order. `paid` collects what any calculation ever took as
payable. A content stands for hours, date, type, employment and note: the fingerprint compares them
all. `AdministrationOf` a content is that of its employment, so a correction may move an entry; a
screen, a release and a calculation are of the administration of their period, and `ClassOf` looks
for earlier releases in that administration only. `listed` of a screen and `read` of a calculation
are the revision that was current when the row was read. The code does not know it; approvals and
payments keep it, with what the screen `shown`, so that the properties can compare.

## 3 The runs

Passing runs. States are distinct states found.

| run | module | states | what it checks |
|---|---|---|---|
| credits | AiCredits | 97,396 | `BooksBalance`: both books equal the sum of the bookings. `LimitsHold`. `OpenReservationsCanClose`: the state checks of settle and release can never fire. `ExpiredBatchesStayShut`, `SoonestExpiryFirst`, `KeepsCreditContract` |
| invocation | AiInvocation | 222,740 | `FinanceAgrees`, `AuditTruthful`, `AnswersHold`, `ExecutesOnceWhileReserved`, `KeepsCreditContract`, and, as liveness, `InterruptedRunsFinish`, `ClosedRunsGetAudited` |
| provider_safety | AiProviderSafety | 1,042,573 | `VolumeCapsHold`, `CallsWithinConcurrency` |
| voice | AiVoice | 1,376,196 | `SettledMatchesCharge`, `ChargedOnce`, `WaitingIsNotBilled`, and `TypeOK`: no actor's credit becomes negative |
| voice_recovery | AiVoice | 62,930 | `ExpiredSessionsEnd`, `EndedSessionsSettle` (liveness) |
| controlled_actions | ControlledActions | 499,246 | `TypeOK`, `ExecutesAtMostOnce`, `StatusTellsEffect`, `AnswersHold`, `ConsentBinds`, `StartsInTime` |
| process_runtime | ProcessRuntime | 205,137 | `StepsMatchItems`, `RunningHasWork` (of definitions that are `WellFormed`), `JoinFollowsItsBranches`, `ActsOnWhatWasSeen` |
| workflow_jobs | WorkflowJobs | 325,488 | `AvailableHasItsFile`, `HolderIsLeftAlone`, `KeepsContract`, and `JobsSettle` (liveness) |
| actual_work | ActualWork | 2,173,734 | `HistoryTellsTheEntry`, `ApprovedAsReviewed`, `PaidInOnePeriod`, `PaidWasApproved`, `QuietOnceClosed` |

Every property has a mutant that breaks it, and every invariant and action property of a passing
run is also a theorem (section 5). `TypeOK` is in a run where it says more than the shape of the
state: in `AiVoice`, that no credit becomes negative, in `ControlledActions`, that a
draft is confirmed under the view it was prepared with. `ReleaseIntentIsFinal` (`AiInvocation`),
`EndIsFinal` (`AiVoice`) and `EndedForGood` (`ProcessRuntime`) are proved and in no run.

Bounds, and why they are enough to see the interesting cases:

* **credits.** Two actors, an invocation each, a voice session of one of them, a grant, two
  months of two instants, transactions that waited up to one instant. Quotas 3 and 2
  against an allowance of 2 and a grant of 2: every quota and every batch can run out, a
  draw can need two batches, a reservation can be made in one month and closed in the
  next, and a batch can expire under an open reservation or while a transaction waits. The
  reaper charges in any month that has begun (`EndedMonths`).
* **invocation.** One fresh key asked for twice with the same body (two requests race from
  the lookup on) and one legacy key, in every interrupted form, asked for again with
  another body. Faults on: any request may die anywhere, any transition may lose its
  reply, any credit call may be given up and execute at any later time. More requests of
  a key only add further duplicates, which read and stop.
* **provider_safety.** Four invocations against caps of 2 per hour, 3 per day and 2 at once,
  two days of two hours of two instants: each cap is reached before the others, and
  requests can wait across the end of an hour and of a day. Lease 3, delay 1, call 1:
  the smallest values with which a lease outlasts delay and call (`LeaseCoversCall`), as the
  deployed ones do. With a shorter lease TLC finds more calls under way than allowed, all but
  `MaxConcurrent` of them behind a lease that no longer counts.
* **voice.** One employee session and one team session of the same actor, so that the reaper's
  order and the shared credit matter; two requests to end a session; sessions of at most
  2 minutes, instants 0 to 4, credit 3 against a possible cost of 4, so that the second
  session may find too little.
* **voice_recovery.** One request. The batch is as large as the number of sessions that can
  wait. This matters: with a batch of 1 TLC shows a session that nobody can pay, whose end
  is the earliest, taking the batch's place in every run while a newer overdue session
  stays `ACTIVE`. In the code the batch is 20 (`M/20260928072242_*:662`), and the same
  happens with 20 such sessions; the property holds below that.
* **controlled_actions.** One draft key (drafts share nothing), two payloads, two terms, two
  concurrent calls, an expiry after one instant, one update under way without a sender.
  Two calls are every pair of racing operations; repeats follow because a finished call
  may be sent again without bound.

* **process_runtime.** Four of the five definitions of `MCProcessRuntime`, which are all
  accepted by the compiler: a fork whose branches (a decision of all candidates, a form) join;
  a decision with conditions and rework; branches that end on their own; and branches of which one
  may be rejected and the other not taken before they join. Two users make
  every race for an item, and a step of `ALL` with a first and a last. Two requests are two
  in flight, or one and its repetition. Two activations per step: a round and its rework.
  Item versions up to 4: claim, release or reassign, claim again, complete. `RunningHasWork` and
  `JoinFollowsItsBranches` are properties of definitions, too; they do not hold for all that the
  compiler accepts (section 6). `RunningHasWork` therefore speaks of instances whose definition is
  `WellFormed` (`GoingVersions`), and `JoinFollowsItsBranches` is run on definitions that are
  `WellJoined`. The assumptions `MCJoins` and `MCForks` of `MCProcessRuntime` let TLC decide which are such:
  the fourth, `Halting`, is the one that is not well formed, and TLC shows it `RUNNING` without
  an open item as soon as the property names it; the fifth, whose join fails in `process_join`, is
  the one that is not well joined.
* **workflow_jobs.** A reminder with one attempt that an operator may offer again once, and a
  document with two attempts and two workers: a second worker takes over while the first goes
  on, an attempt meets what the one before left, the last attempt dies. One language: a
  second one changes only which file is there first.
* **actual_work.** One entry (entries share only the month and the mappings) with three revisions,
  of which one may be a correction (`MaxCorrections`): it can come before an approval, between the
  reads of a screen or of a calculation, or after a release that is followed by another. Two contents
  and two periods of one administration, which both cover the date, two versions of its mapping; a
  content, a period and a version of the mapping of another administration. One request, one screen
  and one calculation at a time, each of which overlaps all the others.

Symmetry is used in the runs `provider_safety`, `voice`,
`controlled_actions`, `process_runtime` and `actual_work`, none of which checks liveness, over values the modules only compare for equality.

Deadlock checking is off where the system may stop: all requests of `AiInvocation` have
been answered, or the clocks of `AiProviderSafety` and `AiVoice` have reached `MaxClock`,
the process of `ProcessRuntime` has ended or reached its bounds, all jobs are over, or no
revision may be added to `ActualWork`.

## 4 Time, faults and fairness

*Faults.* In `AiInvocation` faults are a constant: with `Faults = FALSE` (run *delivery*) no
request dies and no call fails. In `ControlledActions` and `AiVoice` giving up and losing
requests are actions that are always possible. So are, in `ProcessRuntime`, the failure of a
transaction and the late or repeated execution of a request; in `WorkflowJobs`, the failure
of a call, the loss of its answer and the death of a worker; in `ActualWork`, the end of a
request between two calls.

*Assumptions on constants.* Where something is counted or summed the sets are finite: bookings and
batches in `AiCredits`, steps and users in `ProcessRuntime`. `LeaseCoversCall` (`AiProviderSafety`) is
no assumption but a condition in a property: that a lease outlasts the delay before the call plus the
call's timeout is not checked by the code (`HR/lib/ai/provider-safety.ts:93`), though the deployed values
(a lease of 120 s, timeouts of 20 s) satisfy it. `CallsWithinConcurrency` says what holds with it and
what holds without. In `AiVoice`, `Tick` and `StoreMembers` assume that storing the members of a team
session takes less time than the session may last.

*Fairness.* `AiInvocation!FairSpec` has weak fairness of `Reconcile(k)` for each key: the
reconciler is called by every AI request of the group before anything else
(`AI01-A-20260928.md:168`: it is called opportunistically before new AI invocations and
voice gates; there is no scheduler). So the liveness properties say: *while requests keep
coming*, what was interrupted is finished. Nothing is assumed of the interrupted requests
themselves. `AiVoice!FairSpec` has weak fairness of `Recover` for the same reason, of the clock,
of storing members and of a request's progress (it is answered, refused or lost).

`WorkflowJobs!FairSpec` has weak fairness of time (`FallDue`, `FallBehind`), of `ClaimAny(j)` and of the
calls of a worker. `ClaimAny(j)` says that drains that may claim the job keep being started: reminders are
drained by a scheduler, and everything by whoever acts on a process (`scheduleWorkflowDrain`).
Nothing says how a call ends: with these assumptions alone a worker may fail or die each
time, so `JobsSettle` promises an end or worn-out attempts, not success.

`EndedSessionsSettle` has two escapes, both in the code: the actor has too little credit,
or the policy is off.

## 5 The proofs

TLAPS proves, for every value of the constants that satisfies the modules' assumptions:

| module | theorem | states |
|---|---|---|
| AiCreditsProofs | LedgerTypes, LedgerLimits | `TypeOK`, `LimitsHold` |
| | ExpiryIsFinal, SoonestFirst | `ExpiredBatchesStayShut`, `SoonestExpiryFirst` |
| | LedgerBooks, LedgerBalance, ReservationsCanClose | `Books`, `BooksBalance`, `OpenReservationsCanClose` |
| | BookingsWithinMeans | what is booked stays within quotas and batches |
| | LedgerKeepsContract | the ledger implements `CreditContract` |
| AiInvocationProofs | InvocationTypes, BooksAgree, AuditIsTruthful, AnswersAreKept | `TypeOK`, `FinanceAgrees`, `AuditTruthful`, `AnswersHold` |
| | ExecutesOnce, ReleaseIsFinal | `ExecutesOnceWhileReserved`, `ReleaseIntentIsFinal` |
| | LifecycleKeepsContract | the lifecycle implements `CreditContract` |
| AiProviderSafetyProofs | SafetyTypes, VolumeIsCapped, ConcurrencyIsCapped | `TypeOK`, `VolumeCapsHold`, `CallsWithinConcurrency` |
| AiVoiceProofs | SessionsMatchCharges, EndsAreFinal, WaitingIsFree | `SettledMatchesCharge`, `EndIsFinal`, `WaitingIsNotBilled` |
| | TypesAreRight, EachChargedOnce | `TypeOK`, `ChargedOnce` |
| ControlledActionsProofs | TypesAreRight | `TypeOK` |
| | AtMostOnce, StatusIsTrue, AnswersAreFinal, ConsentHolds, StartIsInTime | `ExecutesAtMostOnce`, `StatusTellsEffect`, `AnswersHold`, `ConsentBinds`, `StartsInTime` |
| ProcessRuntimeProofs | StepsFitItems, SeenIsWhatIsActedOn | `StepsMatchItems`, `ActsOnWhatWasSeen` |
| | Typed, EndIsFinal | `TypeOK`, `EndedForGood` |
| | JoinsFollowTheirBranches | `JoinFollowsItsBranches`, for definitions that are `WellJoined` |
| | RunningInstancesHaveWork | `RunningHasWork`, which is about instances of `WellFormed` definitions |
| WorkflowJobsProofs | Typed, OutputsAreWhole, WorkersAreLeftAlone | `TypeOK`, `AvailableHasItsFile`, `HolderIsLeftAlone` |
| | QueueKeepsContract | the queue implements `JobContract` |
| ActualWorkProofs | Typed, RevisionsTellTheEntry, ApprovalsMeanTheirRevisions | `TypeOK`, `HistoryTellsTheEntry`, `ApprovedAsReviewed` |
| | OnePeriodPays, PaymentsRestOnApprovals, ClosedMonthsAreQuiet | `PaidInOnePeriod`, `PaidWasApproved`, `QuietOnceClosed` |

### The ledger

`IInv == TypeOK /\ LimitsHold /\ BookingsHaveMonths`. That no counter becomes negative
cannot be seen from the types alone: it follows from the checks that settle and release
make (`Accountable`) and from `Draws` never taking more than is available, hence the
limits; and the usage row is looked up by the booking's month, which must be one. The
sweep (`Expire`) and the allowance (`WithAllowance`) are dealt with once, in lemmas about any
set of batches. For the contract, each action is shown to move one booking or none.

The two books are sums over bookings. `Total` is a fold over a finite set, and the module proves
what a sum is before it speaks of credits: that a recursive function which computes the fold
exists (`SumsExist`), that a sum does not depend on the order (`TotalRemove`), and what happens to it when one
summand changes or enters or leaves the set (`TotalMoves`). Induction is over the size of the
set, by the least number without the property (`CountingUp`), since the library's own induction
theorems take an operator. The invariant is `Books`: both counters are the sums, what a
booking drew on its batches adds up to its units (`LinksExplained`), and a row that does not exist
counts nothing. Every step moves one booking between two statuses and both counters with it, so
each action has to show only which booking (`Moves`) and where it moves the counters (`Follows`). `ReservationsCanClose` needs
one more step: an open booking is one of the summands, hence no more than the counter it is
taken from. `SoonestFirst` is about the draw itself (`DrawInOrder`): if anything is taken
from a batch, all is taken from those that expire sooner, expired ones aside; no other step raises
what is in use.

### The lifecycle

`FinanceAgrees` is not inductive: whether a settlement that executes late is harmless
depends on where its request is. The invariant adds, in words:

* `DriverKnowsRow`: at most one request drives a row, from the insert to its answer; it is
  never a legacy row, and the row's status is one of those the request's step implies.
* `DoubtIsSafe`: the step a read-back may continue with suits the status it waits for.
* `LateCallsAreHarmless`: a reserve under way finds a row in `RESERVING` or `REJECTED`; the
  driver of a row with a call under way is past the point from which it could go on.
* `AnsweredRow`: the row of an answered request has reached a status it cannot leave.
* `Unexecuted`: the provider was not called before the step that calls it.
* `RowIsCoherent`: settling follows validation, and only terminal rows are audited.

All of the orchestrator's transitions are shown to have one form (`Permitted`), and every
transition of that form keeps the invariant; so do quiet steps, given-up and acknowledged
calls, and steps of the database that no request takes. Each action is then one of these.
`AnswersAreKept` needs one more layer, `ServedOnce`, which rests on the invariant: a row that reached
validation had its one provider call, and no legacy row is answered with
`INTERNAL_CONFIGURATION_ERROR`. The theorem `ExecutesOnce` combines `Unexecuted` with the status a driver at that step must
see; `LifecycleKeepsContract` and `ReleaseIsFinal` rest on `StepMoves`, which says that every
step is a call of one credit function or leaves reservations alone.

### Provider safety

`IInv == TypeOK /\ Timely /\ Covered /\ ActiveWithinCap /\ VolumeCapsHold`. For the caps by volume
it suffices that `Counted(now)` contains every lease of the window of `now`, those stamped
later included. For concurrency, `ActiveWithinCap` says that the leases active now never exceed the
cap, which bounds the calls that hold one whatever the lease is. `Timely` bounds how long a request
waits and a call runs, and `Covered` says that whoever may call, or calls, holds a lease, and, if
`LeaseCoversCall`, one that outlasts the call: then no call is without an active lease.

### Voice sessions

`IInv == Types /\ SettledMatchesCharge /\ EndsInTime /\ ChargedHasEnded /\ CreatedIsActive /\
RequestsKnowSession`. Everything that ends or charges sessions, the client's request, both
branches of the reaper and the steps that touch no session, has one form (`EndsAndPays`): some
active sessions end, and of the ended ones without a charge some are charged. `CreatedIsActive`
is what keeps a failed creation of a team session, which does not look at the session's
status, from rewriting an end; it rests on the assumption that storing the members takes
less time than the session may last, and on clients not knowing the session before.
`EndsInTime` carries `WaitingIsNotBilled` through a charge that a second request finds made: an ended
session ended at a deadline that had passed, or no later than a request that charged it arrived, or,
when its members could not be stored, before any request of it arrived (`BeforeRequests`).

That no actor's credit becomes negative is the one claim of `TypeOK` that needs an argument: the
reaper charges a whole batch, and each session is admitted if its actor can pay it *and all that are
taken before it*. Of any set of sessions of one actor one is taken last (`OneIsLast`), and its
admission bounds the cost of all (`LeftIsNat`). `EachChargedOnce` follows from the form of what is charged
(`Charging`, which refines `EndsAndPays` by the cost) and from sums over the charged sessions of
an actor.

### Controlled actions

`IInv` is the conjunction of `Types`, `NothingBeforeStart`, `OneRight`, `SuccessIsReal`, `ConsentTraced`,
`LoadedHolds` and `AnswersHold`. Its core is `OneRight`: for each draft there is at most one
right to call the domain, held by the call that claimed, by a domain call under way, or
used up. `NothingBeforeStart` says that before the claim nothing was executed or sent,
`SuccessIsReal` that only a call whose action took place can be about to record a success,
`ConsentTraced` follows a confirmation from the request through the update under way to the
row, and `LoadedHolds` that a draft loaded as `SUCCEEDED` still is. `StartIsInTime` follows from
the conditions of the claim, which is the only update that starts an execution.

`TypesAreRight` says more than types: a draft is confirmed under no other view than it was
prepared with. It needs an invariant of its own, `ViewsAreKept`: the view stored in a draft is
never replaced, so the view a call has loaded, and the one an update under way carries, is the
draft's, however late the update arrives.

### The process engine

`IInv == TypeOK /\ Sound(db) /\ Sound(work) /\ Grows(db, work) /\ (what requests carry) /\ ActingFits`.
`Sound` holds of one copy of the tables and is kept by every single step of a transaction, so
the depth of the recursion does not matter, and `Commit` and `Abort` have nothing left to show.
`Grows` says that a row that changed has a higher version; hence a request whose version still
matches saw the row as it is, in every field, which is `ActsOnWhatWasSeen`. `EndedForGood` follows
because the only transactions on an ended instance are those of the work item kernel. The engine
itself would set it `RUNNING` again without a look at its status; `ActingFits` is what excludes it.

*Joins.* A join compares two numbers, completed steps and transitions, over all rounds. That this
means what it is meant to mean depends on the definition. `WellJoined` asks for a set of steps that
leads to the joins and is entered once: each of its steps from one step (by one transition, if that
is a fork), the start not again, and no fork straight into a join. The invariant `Flow` says that then no such step
is ever activated twice, that it is on the list or activated only after its one source was
completed, and that the list has no duplicates of it. So the completed steps a join counts are
different branches, and enough of them are all of them (`OpenJoinIsComplete`).

*Work.* That something is always left to do is proved from the shape of the branches. `WellFormed` asks
for a *root* of every step, such that the branches of a join have the same root, that each step
between the root and the join can only be completed (no `REJECT`, no `CANCEL`), leads on to the next whatever the
data say, and is entered from nowhere else; and for a *depth*, so that the way back to the root
ends. Roots and depths are looked for among `Layouts`, a constant, so that TLC need not try all. The
invariant `GoingInv`, of instances whose definition is well formed, says that `Goings` holds: of the
tables and in the middle of a transaction, a step that is listed or activated comes after one that
was completed, a completed one led on or to a join that waits, and a `RUNNING` instance has something listed, under way or waiting. If nothing is listed or under way, then every
step was completed exactly if its root was, by induction on the depth (`QuietAsRoot`). The branches of a join that
waits share a root, one of them was completed, so all were, and then the join does not wait
(`FullJoinOpens`). Hence `QuietIsOver`: an instance that is `RUNNING` has a step under way, and `Sound` gives it an
item. Unlike `WellJoined`, this allows rework: the definition of `process_join` is well formed,
so it never hangs, although its join opens too early.

Both conditions hold of every definition the repository ships: only one, in
`HR/supabase/tests/process_automation_p4_parallel_all.sql:33-46`, has a fork or a join, and it is `Joined` of
`MCProcessRuntime` with acknowledgements for steps; without forks and joins the conditions ask for nothing.
Neither can be left out. TLC refutes both claims for definitions the compiler
accepts: `JoinFollowsItsBranches` in the run `process_join`, `RunningHasWork` if a branch can be rejected or
a fork may skip one (section 6).

### The queue

What a worker has reached (`WorkFits`: a document before its readers, readers before the file,
the file before `AVAILABLE`) speaks of data that is only added to, so it survives whatever
another worker does to the same job. That, and not the lock, is why the contract holds:
`QueueKeepsContract` maps each call to a step of `JobContract` or to a stutter.

### Actual work

Revisions, approvals and releases are only ever added to (`Continues`, `Grows`), so what a screen, a
request or a calculation has read stays true of the past (`At`). `RunFits` is the heart of
`PaidWasApproved`: the hours are those of the revision `read`, which is no later than the revision
number read afterwards; where the two are one, the approval of that number has the same content.
`ScreenFits` is the same of a screen, for `ApprovedAsReviewed`. `OnePeriodPays` needs only that an entry
has one `INITIAL` release in an administration.

### Model-checked only

Liveness and anything that needs ENABLED are out of the prover's reach: `InterruptedRunsFinish`,
`ClosedRunsGetAudited`, `ExpiredSessionsEnd`, `EndedSessionsSettle` and `JobsSettle` are checked by TLC on their
bounds only. So are the three properties of section 6, which are false. Whether a given definition
is `WellJoined` or `WellFormed` is a finite question, which TLC answers.

## 6 Where code and text disagree

Three runs are expected to fail; each checks what the repository says of itself.

| run | property | what TLC shows |
|---|---|---|
| delivery | `ChargedResultIsDelivered` | Without any fault, a validated and charged invocation is answered `INTERNAL_CONFIGURATION_ERROR`: `finished_at` is sent as `...Z`, comes back as `...+00:00`, and is compared with `!==` (`HR/lib/ai/supabase-invocation-repository.ts:307`). The test's repository in memory keeps the string. |
| voice_rights | `HangUpIsHonoured` | The recreated wrapper runs with its caller's rights and may not call what it wraps; every hang-up is denied and the reaper bills to the deadline. An older migration had repaired this. |
| process_join | `JoinFollowsItsBranches` | A join counts the completed steps of all rounds. After a rework that passes the fork again, it opens with the first branch of the new round, and once more with the second, although a join is to wait for `ALL` (`src/docs/requirements/workflows/LIQUID_PROCESS_AUTOMATION_BLUEPRINT.md:577`). The definition is `ReworkJoined` of `MCProcessRuntime`. |

Further observations made while modelling. The models contain the behaviour; no run is
dedicated to it.

*AI.*
* `HR/lib/ai/orchestrator.ts:162` calls the row "the durable audit outbox until reconciliation
  succeeds". A reserve whose reply was lost leaves a `REJECTED` row next to reserved credits; no
  loop of the recovery takes it, so it is never audited and the credits stay reserved. An
  invocation that dies before its release intent keeps its credits reserved too, its key answered
  `DUPLICATE_IN_FLIGHT` for ever.

*Controlled actions.*
* `execute` records `FAILED` for every error of a domain class, and the domain services wrap broken
  connections in such classes (`HR/lib/talent/goal-service.ts:414`): a goal that was stored can be
  reported as failed, against the comment at `HR/lib/controlled-actions/service.ts:731`.
* A confirmed draft can be cancelled; `src/docs/requirements/ai/APIAI-06_CONTROLLED_ACTIONS.md:32`
  excludes that.
* A `prepare` that loses a race to insert shows its own preview next to a draft that stores another
  one (`service.ts:632`).

*Process engine.*
* A `REJECT` in one branch of a join leaves the instance `RUNNING` without an active step, since the
  join counts `COMPLETED` steps only; so does a fork one of whose conditional branches was not taken.
  The compiler accepts both, and
  `src/docs/requirements/workflows/LIQUID_PROCESS_AUTOMATION_BLUEPRINT.md:595` says "`RUNNING` -
  minstens één stap actief" (at least one step active). `RunningHasWork` is restricted to the
  definitions in which it cannot happen; without the restriction TLC refutes it with the definition
  `Halting` of the run `process_runtime`.
* An `END` in one branch leaves the items of the others open. They can be claimed and released but
  not completed. A fork whose first branch is an `END` sets the instance `RUNNING` again with the
  second.
* A `WAIT_UNTIL` step completes at once. When all candidates have to act, the action of the last
  one decides the step, whatever the others chose.
* The compiler accepts a fork with a transition straight to a join
  (`HR/lib/process-automation/definition-compiler.ts:674-675` counts distinct branches and distinct
  steps before the join). The fork then counts as a completed step of the join from the start. If
  a branch of automatic steps comes first, it opens the join, and the transition of the fork opens it
  again: in one transaction everything behind the join is activated twice. `EnteredOnce` excludes it.

*Jobs.*
* A job whose last attempt never reports is put back to `RETRY`, where no claim takes it; the
  screen shows "Retry scheduled" (`HR/messages/en/processAutomation.json:251`).
* A retry in the other language leaves the file as the first attempt wrote it, or writes another
  one under the checksum of the first. A deleted document makes all its retries fail.

*Actual work.*
* The review reads the rows first and their revision numbers later
  (`HR/lib/actual-work/payroll-work-hours-service.ts:372-400`). A save in between puts older hours next
  to the newer number, and the approval by that number carries hours that were not on the screen;
  the comment at `M/20261027163113_*:3-5` says that an approval "identifies the exact entry revision"
  that "HR Admin reviewed". `ApprovedAsReviewed` compares what the screen showed with what was approved
  and admits only this case; without that exception (`x.shown = x.content`) TLC refutes it.
* A calculation reads the entry before its revision number (`HR/lib/actual-work/actual-work-service.ts:395-473`).
  A correction, approval and release in between make it pay the hours of the revision before, which
  nobody need have approved, under the approval of the later one. `PaidWasApproved` admits only this.
* A correction may name an employment of another administration (`HR/lib/actual-work/schemas.ts:9-21`,
  `M/20260921100000_*:297-300`). The release there looks for earlier releases in its own administration
  (`M/20261026130000_*:172-177`), finds none, and is `INITIAL`: the entry is paid by both.
  `PaidInOnePeriod` is about one administration; without that TLC refutes it.
* `src/docs/requirements/actual-work/ACTUAL_WORK_V1.md:47` says that a closed period
  takes no ordinary edits; one that found it open before the close can still land.
  `QuietOnceClosed` says how far that goes.
* A pending entry in a closed month cannot be approved for payroll, only corrected.

## 7 What is not modelled

* Row level security and authentication: every actor of a model is one that may act.
* Prompts, provider formats, tool schemas, documents, forms, rendering: data without a
  protocol.
* Payroll arithmetic, salary tables, leave and absence rules: pure calculation, with
  oracles of their own in the repository's tests.
* Single-row edits with an optimistic version (settings, recruitment stages, journeys,
  document templates): one conditional update each.
* In `ProcessRuntime`: the states `BLOCKED`, `WAITING` and `EXPIRED`, which no code sets, and with them the
  re-resolution of blocked items; permissions, forms and self-assignment rules, which only refuse;
  assignees, notes and the current step shown on a page; the wrappers of acknowledgements.
* In `WorkflowJobs`: the status `FAILED` of an output, which no code sets; the order of claims by
  `available_at` (any due job may be claimed); the text and language of a reminder.
* In `ActualWork`: limits of hours, overlap with leave, TVT, import keys, the order of corrections, releases
  made before approvals existed, and the status of the payroll period, which is checked in another
  database before the call. A `TWK_REQUIRED` release is never paid by the modelled calculation.
* Within the other modelled parts: edits of quotas and policies while credits are in use; the batch of
  20 of the invocation loops (`AiInvocation` takes one candidate at a time); the contents of
  voice conversations.

## 8 Plan

Done, in this order:

1. `CreditContract`, `AiCredits` and its proofs.
2. `AiInvocation` over the same contract, with the recovery, and its proofs.
3. `AiProviderSafety` and its proofs.
4. `AiVoice` and its proofs.
5. `ControlledActions` and its proofs.
6. `ProcessRuntime`, the engine with its work items, and its proofs.
7. `JobContract` and `WorkflowJobs`, and the refinement.
8. `ActualWork` and its proofs.

Left:

* `HeRaDrafts` (`HR/lib/hera/action-drafts.ts`): the assistant's own drafts in the table of
  `ControlledActions`. A draft is executed at most once, and a draft marked failed was not
  executed; the second half is in doubt where the mark of a success is lost.
* The composition of `ProcessRuntime` with `WorkflowJobs` through their common steps.
* Quotas and policies edited during use in `AiCredits`; the windows of the API rate limit
  (`M/20261005051804_*`).
* The leave ledger: requests, accrual and corrections as an append-only book.
