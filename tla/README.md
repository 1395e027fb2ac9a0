# Chat-Bot: TLA+ models, TLC checks and TLAPS proofs

Chat-Bot is a Korean chatbot platform in one pnpm monorepo: a NestJS API
(`apps/api`, SQLite through Prisma), a React console (`apps/web`), a widget
(`apps/widget`), a Python inference worker (`apps/ml-worker`) and packages for
the dialogue engine, PII masking and shared types.  What is hard about it is in
the API: background loops that poll tables, several API processes on one
database, leases and tokens instead of locks, console requests that meet work in
flight, and promises made to administrators ("at most once", "nothing runs
behind a failure", "held while paused").  This directory models that part.

Everything is translated from the code under `src/`; `PROJECT.json` maps every
definition to the lines it stands for.  In this README `deploy-schedules/…`
and the like are paths under `src/apps/api/src/`.

    tlc -workers 2 -config DeploySchedule_crash.cfg MCDeploySchedule.tla
    tlapm DeployScheduleProofs.tla

## 1. Inventory

State means what survives a step and is shared; "hard" is what a unit test
would hardly reach.

| Component | State | Operations | Talks to | Hard | Correct means |
|---|---|---|---|---|---|
| Scheduled deployments (`deploy-schedules`) | rows of `deploy_schedules`: status, time, attempts, lease token, expected and target content | create, update, cancel, resume; tick: plan, claim, execute, judge, reclaim, finalize, miss, hold | versions (restore), environment pointer, chatbot status, channel | crash between commit and result, several instances, stale plans, cancel against claim | each change once; the result tells the truth; order and fail-stop; what waits keeps what it builds on; everything settles |
| Workflow outbox (`workflow`) | rows of `workflow_runs`, pause marks of targets and subscriptions, subscription snapshot per process | enqueue (node, event), plan, claim, post, finalize, recover, pause/resume, expire, purge, resend, cancel, delete | dialogue turns, handoff and feedback events, external webhooks | crash after the post, lease dated at the start of the tick, snapshot older than a pause, release against cancel | delivered once unless an answer was lost; attempts bounded; bodies kept exactly while needed; every run ends |
| Environment pointers and approval (`environment`) | `stagingVersionId`, `prodVersionId`, switch log, approval requests and policy | enable, disable, stage, switch, request, approve, reject, withdraw, expire | schedules, versions, cache of served content | policy and approval checked outside the transaction that moves the pointer; ABA on the pointer | log is a linear history of the pointer; one approval moves it once |
| Handoff to human agents (`handoff`, and the page of `apps/widget`) | per visitor session: handoffs with status, client mode, token hash, assignee, numbered messages, raw text; settings with a cache per process; on the page: poll state, token and cursor in sessionStorage | intervene, write, take over, end; gate of a visitor's message, poll, sweep; settings; page: send, poll, store, restore | public conversation, widget, workflow events | end and token written from rows read before; answers of polls and messages overtaking each other; feature switched off in mid-conversation | one active handoff, one end, one token, one speaker; the gate passes nobody who holds the token to the bot; nothing passed unseen; every handoff ends and lets the page go |
| Versions (`versions`) | versions with hash, capture and restore lock, retention | capture, restore, prune | schedules, environment | two restores, prune of a referenced version | restore is all or nothing and leaves a way back |
| Polling loop (`common/polling`) | running promise, timer, stopping flag | runOnce, start, stop | every background job | stop while a tick runs, manual trigger and timer together | no two ticks of one loop overlap; stop waits |
| Knowledge-base sync (`kb-sync`) | runs with lease and heartbeat, pages, drafts | start, crawl, heartbeat, finish, recover | intents, RAG index | two crawlers on one source, restart in mid-crawl | one active run per source, counters agree |
| Audit chain (`audit-logs`, `governance/jobs`) | hash-chained rows, head, GENESIS and RETENTION anchor, lease of the retention job | record with retries, purge of old rows, verification by hand and weekly | every write of the console, retention job | two appends on one head, purge and verification in separate queries, crash between batches | one chain without gap or fork; the anchor reaches it; damage reported, nothing else |
| Inbox (`inbox`) | threads of unanswered questions, merges | collect, merge, unmerge, resolve | conversation log, intents | merge racing collect | every question in one thread |
| RAG pending answers (`rag`) | in-memory answers with expiry | start, poll, drain | public conversation, widget | answer after the poller gave up | an answer is shown once or expires |
| Feedback (`feedback`) | one vote per message | set, clear | workflow events | two votes at once | one vote and matching events |
| Training jobs, re-index, validation, analysis | job rows, in-process queues | enqueue, run, cancel, restart recovery | ml-worker | restart in mid-job | one job at a time, none stays RUNNING |
| Governance (`governance`) | retention and crypto jobs, legal holds | run, hold, release | every table with personal data | hold placed during deletion | nothing under a hold is erased |
| Dialogue engine (`packages/dialogue-engine`) | survey and context sessions | resolveTurn | conversation | sessions across turns and edits | a survey advances by one answer |
| Accounts, statistics, content administration, learning, guardrails, speech, topics, proactive rules, transfer, legacy API, web, widget, ml-worker, shared packages | single rows or none | create, read, update, delete; aggregation; text processing | | no protocol | not modelled |

Interaction happens through the database (shared tables), through in-process
calls and through the events that `workflow` subscribes to.  SQLite serialises
transactions; whatever an `await` separates can interleave.

## 2. Plan

Most important behaviour first; each step is useful on its own.

1. `DeploySchedule`, refined to the abstract `ScheduleLife` (what is promised about
   each schedule), with its proofs — done.  It composes the engine, the
   console, the four executors and the enable/disable of the environments.
2. `WorkflowOutbox`, refined to the abstract `MessageDelivery` (what the receiver
   sees of each message), with its proofs — done.
3. `ProdSwitch`: immediate, approved and scheduled switch, approval life cycle
   and policy, staging pointer, refined to the abstract `ProdPointer` (the
   switch log is a linear history, an approval is spent once), with the proofs
   of the refinement and of every invariant — done.
4. `AuditChain`: recording, purge and verification of the audit log, with the
   proofs of every safety invariant — done.
5. `Handoff`: gate, poll, agents, sweeper, settings and the page of the widget,
   with proofs of every safety invariant — done.
6. `VersionRestore` (capture, restore lock, retention) and its composition with
   `DeploySchedule` through the expected hash.
7. `PollingLoop` as the justification of the fairness used in all of them.
8. `PendingAnswers`, `Feedback`, job queues with restart recovery, `KbSync`,
   inbox merge, dialogue sessions.
9. Resends of several runs in one call (`retryManual` commits before it
   compares the count, where the design rolls back).

The runs are one per question; runs of one module that differ only in their
instance are merged.  Runs stay small (two schedules, two instances, one crash);
what needs three schedules (chains) has one instance.  Theorems first aimed at:
types, leases, at-most-once, the pointer and its approvals, the chain, threads
and tokens; then the truth of outcomes, order, chains and fail-stop, the bot's
silence, the cursors and the contracts of schedules and outbox — all done.

## 3. DeploySchedule

`DeploySchedule.tla` is one chatbot: `row` is the table, `asset` what the
executors change (draft content, production pointer, publication status, web
channel), `engine[i]` what instance `i` holds in memory, `request[r]` what a
console request has read before it writes, `clock` coarse time.  `effects` and
`known` are history variables (commits that carry a schedule's id; what the
person who confirmed a schedule could see).

| Code | Model |
|---|---|
| `DeployScheduleService.create` (one transaction that checks again) | `Create`, with `TimeAllowed`, `Insertable`, `ChainBase`, `AtChainEnd` |
| `update`, `cancel`, `resume` (status read, then a transaction that writes by id) | `UpdateRead`/`UpdateWrite`, `CancelRead`/`CancelWrite`, `ResumeRead`/`ResumeWrite`, `Refuse` |
| `EnvironmentModeService.enable`, `disable` | `ModeRead`, `EnableWrite`, `DisableWrite` |
| two queries of `tick` and `planTick` | `ReadDue`, `PlanDecision`, `DropDecision` |
| `holdBehindHeld`, `markMissed`, `expireRetry` | actions of the same name |
| `claim` | `Claim`: compare-and-set and the one-RUNNING-row index; the claim carries the start of the tick |
| executors | `Execute` (commit, or the reason why not), `ExecuteBlocked` |
| `reclaim`, `judgeRecovery`, `finalize` | `Reclaim`, `Judge`/`Verdict`, `Finalize`/`Result` |
| process death, `SQLITE_BUSY` at finalize | `Crash` |
| immediate edits, switches, publications | `EditAsset` |

`holdSuccessorsWithin` is part of the action whose transaction calls it.

Modelling decisions, each of which a reader can dispute:

- One chatbot is enough.  Chatbots share only the tick that walks them; the time
  a tick spends on others is `Deadline`, how late a decision may be used.
- A tick makes at most one decision for a chatbot and each of its two queries is
  a step; what the second query adds is read from the current table.
- A console request is answered within the unit of time in which it began.  It
  takes milliseconds and the shortest lead is minutes (`MinLead > 0`).
- `LeaseAssumption` (`Deadline + ExecSpan <= Lease`) is the lower bound that
  `config/env.validation.ts:319-326` enforces; a live execution ends within
  `ExecSpan` of its claim.
- `reclaim` keeps the old date of the claim, so a recovery that is still at work
  can be taken over again; `MaxSteals` bounds how often.
- The executor reads the expected hash of its row after the claim; only `resume`
  and `create` write it.
- Tokens are fresh UUIDs: `gen` counts them.

`ScheduleLife.tla` is the promise without clock, leases, instances or requests:
each schedule has a stage and a number of commits.  `LifeSpec` states that
`DeploySchedule` implements it with `Life(s)`, read off the row and `effects`:
SUCCEEDED counts as applied or as unchanged by the outcome the row shows.  It
says what the invariants leave open: a schedule starts only from the queue and
while no other runs, commits only while it runs, goes back to the queue only if
it has committed nothing, and nothing touches it after its end.  For the actions
without a trace (publication, web channel) the report of a recovery may be
wrong, as in the code; everything else is promised for them too.

### Runs

| Run | Instance | Shows |
|---|---|---|
| `deploy_crash` | 2 schedules, 2 instances, 1 crash, 1 take-over, 1 outside edit | `TypeOK`; `AppliedAtMostOnce`; `OutcomeTruthful` (what a row says is what was committed); `FailStop`; `LiveOwnerKept`; `LifeSpec` |
| `deploy_console` | 3 schedules (restores and production switches), 1 instance, 4 console requests or mode changes one at a time, no crash | what waits keeps the schedule it builds on through create, cancel, move and resume, while the environments are separated and joined (`ChainKept`); `StartsInOrder` and `FailStop` with console interference, also where a schedule is moved under a plan, claimed before its new time, fails there and is passed |
| `deploy_live` | 1 instance, 1 crash, blocked executions | `EveryScheduleSettles` under fairness |
| `deploy_waiting_only` | violation | a console request writes a row that is no longer waiting (`update`, `cancel`, `resume` write by id) |

Why these bounds are enough: two instances and one crash give every pair of
owner and thief; a third instance only repeats a thief.  `MaxTime` lets a lease
end, be recovered and end again; two schedules make every pair that
fail-stop speaks about, three make a chain whose middle is removed.  Four requests
are three creations and the cancellation of the middle one, or a planned schedule
that is moved, fails at a time still to come, and another moved past it.  The
crashes are in `deploy_crash`, which
has no console requests because the code's unguarded console writes (finding
`deploy_waiting_only`) break at-most-once as soon as two of them meet a claim:
a resume that read HELD before another resume brings back a row that has run.
That consequence is why three theorems below have the hypothesis they have.

## 4. WorkflowOutbox

`WorkflowOutbox.tla` is one target, its subscriptions and its runs: `run` is the
table, `paused`, `exists`, `enabled` the target and subscription rows, `cached`
the subscription snapshot, `job[i][r]` what instance `i`'s tick still has to do
with run `r`, `request[q]` a console call or enqueue under way.  `accepted` and
`lost` are history variables on the receiver's side: 2xx answers given, and
acceptances that nobody could record (crash, or answer after the time limit).

| Code | Model |
|---|---|
| `enqueueNodeEmissions` | `NodeRead`, `NodeInsert` |
| `enqueueEvent`, `WorkflowCatalogService` snapshot | `EventInsert`, `RefreshCache`, `Snapshot` |
| `tick`: candidates, recovery, plan | `TickRead`, `RecoverExpired`, `PlanClaims` (with `Room`, `Admitted`) |
| `holdAtClaim`, `skipAtClaim`, `claim` | actions of the same name |
| `dispatchOne`: target, post, result | `ReadTarget`, `Send`, `SendLate`, `Finalize`/`Recorded` |
| `runMaintenance` | `ExpireOverdueHolds`, `PurgeFailedPayloads` |
| `pauseTarget`, `pauseSubscription` | `Pause`, `PauseHold` |
| `resumeTarget`, `resumeSubscription` | `Resume`, `ResumeList`, `ReleaseRead`, `ReleaseWrite`, `ReleaseEnd` |
| target and subscription changes, manual resend and cancel | `SetEnabled`, `RemoveSubscription`, `RemoveTarget`, `RetryManual`, `CancelManual` |
| process death; a statement that meets a busy database ends the tick | `Crash` |

Modelling decisions: each database statement outside a transaction is a step;
runs of a tick are dispatched concurrently (a pool), so each run of a tick has a
job of its own; a snapshot is never older than a unit of time (its time to live
is 30 seconds, a unit is longer); `SendLeaseAssumption` (`TickSpan <= Lease`) is
the bound of `config/env.validation.ts:339-349`; the rate per minute and the
batch size only postpone a run and are left out; the console answers within its
unit.  A post has three outcomes (2xx, retryable, permanent) and a late one that
the receiver accepted but the sender counts as retryable.

`MessageDelivery.tla` is the promise without leases, tokens, instances or calls:
each message has a stage (waiting, sending, sent, failed, dropped) and the number
of acceptances in all and of those nobody heard.  `DeliverySpec` states that
`WorkflowOutbox` implements it with `Life(r)`: HELD counts as waiting like
PENDING, what is skipped, cancelled or expired is dropped, and acceptances are
the two history variables.  It says more than the invariants: a message may be
accepted again only while every earlier acceptance went unheard, what is being
sent can only be ended by a report, the report is `sent` exactly if an acceptance
was heard, and there is no way from sent or dropped back to the queue.  One step
of the outbox may move several messages (a pause, an expiry), never two stages of
one.

### Runs

| Run | Instance | Shows |
|---|---|---|
| `outbox_safety` | 2 instances, 1 run, 1 subscription, 1 crash, 1 late answer, 2 console calls, 1 resend or cancel | `TypeOK`; `DeliveredOnce`; `AttemptsBounded`; `BodyKeptWhileOpen`; `EndIsFinal`; `DeliverySpec` |
| `outbox_live` | 1 instance, 2 runs for 1 place, 1 crash, pause and resume or deletion of the target | `ConcurrencyKept`; `EveryRunEnds` under fairness |
| `outbox_held` | violation | a run stays HELD with nothing paused: it was enqueued from a snapshot older than the resume, or with the reason of its subscription while only the target was paused |

One run and two instances contain every race of claim, recovery and answer: rows
share nothing but the limit of the target, which `outbox_live` exercises with two
runs.  `ConcurrencyKept` is stated for one instance because the design accepts
that two exceed it together (`workflow-automation-설계.md:790`).  `MaxTime = 3`
lets a lease end and the recovered run be claimed, sent and recovered again.

## 5. ProdSwitch

`ProdSwitch.tla` is the production pointer of one chatbot with its log, the
approval requests and the schedules that switch it.  `call[c]` is the call of
the console that administrator `c`, or the execution that the scheduler, has in
flight: where it is (`pc`) and what it has read.  Between two queries every
other caller may act, and `Crash` ends a call anywhere.

| Code | Model |
|---|---|
| `switch()`: chatbot, pointer row, history, approval, gate and warnings, transaction | `SwitchNow` or `SwitchBegin`, `ReadPointer`, `ReadHistory`, `CheckApproval`, `Stop`, `Commit` |
| `approve` immediate / scheduled, `reject`, `cancel` | `ApproveNow` / `Decide`, then `Close` |
| `sweep`, `store.close` | `Sweep`, `Close` |
| `classifyApplyFailure`, `classifyExecutionError` | `Failed`, then `Close` |
| `createRequest`, `buildScheduledRequest`, `store.create` | `AskRead`, `AskPreview`, `AskForSchedule`, `AskInsert`, `AskRefused` |
| `updatePolicy` | `PolicyRead`, `PolicyWrite` |
| `enable`, `disable`, `promote` | `ModeRead`, `Enable`, `Disable`, `Promote` |
| schedules of this kind | `Schedule`, `RowRead`, `RowWrite`, `Hold`, `Miss`, `Due`, `Start`, `Settle` |

`via` and `watched` in a log entry are history: the request whose approval made
the call, and whether the policy was on ever since the call began.

Modelling decisions:

- Queries that follow each other with nothing but reads of one row between them
  are one step: the two reads of `getPointerStatus`, the two readings of the
  history, the four reads of `sweep`, policy and pending request in
  `createRequest`.
- The gate and the warnings depend on test runs and content, so `Stop` may
  refuse any switch; a direct rollback is never blocked by the gate.
- Expiry is judged when a call begins; the code uses one `now` per call too.
- Versions are never deleted and the history is shorter than the 50 rows that
  `getProdHistoryDesc` takes, so a rollback target always exists.
- The times of schedules are left to `DeploySchedule`; here a schedule is due or
  not, and its base is the target of any other active schedule or, without one,
  the pointer.  One engine instance executes.  As in `DeploySchedule`, update,
  cancel and resume write by id.

`ProdPointer.tla` is the promise without calls and reads: a pointer, the record
of its moves, the approvals spent.  `LedgerSpec` states that `ProdSwitch`
implements it with `moves` and `spent` read off the log.

### Runs

| Run | Instance | Shows |
|---|---|---|
| `switch_safety` | 2 administrators and the scheduler, 2 versions, 2 requests, 1 schedule, 4 log rows, 5 calls | `TypeOK`; `LedgerSpec`; `FourEyes`; `AppliedIsCommitted`; `PolicyEnforced`; `ClosedIsFinal` |

Two administrators and the scheduler give every race of an author, an approver
and an execution.  Four log rows let the pointer leave a version, come back and
leave again, which an approval for the first departure could misuse; five calls
are a request, an approval, two moves and one call that races them.  A third
administrator only adds a second approver: an instance with three and the same
bounds also passes, in about four minutes.

## 6. AuditChain

`AuditChain.tla` is the audit log with its chain: `rows`, `head` and the two
anchors are the tables, `call[i]` the call of `record` at work in instance `i`
(each process queues them), `job[i]` the tick of its retention job, `lease` and
`doneDay` the row the jobs share, `check` the one verification under way.  A
hash is the number of the row it was computed for: SHA-256 over the previous hash
and a random row id is taken to be injective.  `damaged` is a history variable:
rows altered or lost behind the program's back (`Damage`), which is what the
chain exists to show.

| Code | Model |
|---|---|
| `ensureChainHead` at start | `Boot` |
| `record`, `runSerialized`, `recordWithChain` | `Record`, `ReadHead`, `Commit` (compare-and-set and insert), `Retry`, `WriteLoose` after the last attempt |
| `JobLease.claim`, `release` | `Tick`, `Close` with `Owns` |
| `deleteAuditLogsBatch` | `PurgeLoose`, `PurgeRead` (bound, batch and its last row), `PurgeDelete` (delete and anchor in one transaction) |
| stop between batches, exception, process death | `Interrupt`, `Abort`, `Crash` |
| `verify` on request and `maybeRunWeeklyChainVerify` | `Manual`, `Weekly`, then `CheckHead`, `CheckRange`, `CheckStart`, `CheckAnchor`, `CheckRow` one query at a time; `Answer`, `Checked`, `Report` |

Modelling decisions: the pause between two attempts has no length, and an
attempt may fail at any time; the walk over a page of rows is one step per row,
so that rows are recorded and purged in between; the purge of rows outside the
chain is a step of its own, as in the code; the keys of the signature are left
out (a `KEY_UNAVAILABLE` answer changes nothing).  The other kinds of the job are
not modelled: a stop between two of them may skip the audit rows of that day
without marking the run partial, and the tick of the next day removes them.

### Runs

| Run | Instance | Shows |
|---|---|---|
| `audit_safety` | 2 instances, one of which purges, 2 attempts, 1 record besides those of the job, 1 verification, 1 damaged row, 1 crash or stop | `TypeOK`; `ChainIntact` (no gap, no fork); `AnchorReaches`; `DamageReported`; `UndamagedPasses`; `OldRowsGo` under fairness |
| `audit_alarm` | violation | `NoFalseAlarm`: a row recorded between the reading of the head and of the rows is reported as TAIL_MISSING |

Both instances record at once with retries, which contains every race on the
head: a third writer only loses again.  The job records too, so there are rows
enough for two batches of one.  `AnchorReaches` and `UndamagedPasses` are stated
for one purging instance: the lease of ten minutes is never renewed while the
design (`data-governance-설계.md:761`) wants it renewed with every batch, and
with two purgers TLC refutes `AnchorReaches` (the slower one writes the anchor of
a batch long gone over a newer one).  A period of which every row was lost is
answered `EMPTY`, never `OK`: `DamageReported` speaks of `OK`.

## 7. Handoff

`Handoff.tla` is one visitor session: the sequence of its handoffs, each with its
thread of numbered messages, and the page of the widget.  `req[r]` is a request
of the page (a message, a poll of the loop, the poll of a restore, or a poll
whose loop was stopped under it, `stale`), from the moment it is sent until its
answer is applied; `act[a]` what an agent's call has read; `sweep` the sweeper's
tick; `edit` what a change of the settings will write; `cached` what an instance
with an older entry still serves.  A token is the number of its handoff, because
the row keeps a hash from the moment it becomes MODERN.  Time is the set `past`
of limits a row has exceeded, reset where the code writes a date.

| Code | Model |
|---|---|
| `intervene`, `createHandoff` with the partial unique index | `Intervene`, `Create` with `Vacant` |
| `appendAgentMessage`, `end`, `takeover` | `Reply`/`Replied` with `StillMine`, `Finish`/`Finished`, `TakeOver` |
| `endHandoff` (status, message and raw text in one transaction) | `EndHandoff`, used by `Finished`, `Expire`, `SweepEnd` |
| `judgeHandoffExpiry` | `Judge`, `TimePasses` |
| banned-word filter of `sendMessage` (`public-conversation.service.ts:223-255`) | the answer `blocked` of `Read`, before anything is looked up |
| gate `evaluate`, `classifyHandoffCase` | `Read` with `NoLookup`, `Routed`, `ToActive`, `ToEnded`; `Expire`, `Issue`, `Mark`, `AppendUser`, `Collect`, `Advance` |
| public poll | `Read` with `ToPoll`, `Expire`, `Issue`, `ReadPage` (at most `PageSize` messages, the cursor from the row) |
| sweeper, `purgeExpiredRaw`, `clearDrainingIfIdle` | `SweepRead`, `SweepEnd`, `SweepPurge`, `SweepIdle`, `SweepClear` |
| `updateSettings`, cache of 30 seconds | `EditRead`, `EditWrite`, `CacheExpires` |
| page: `handleSend`, poll loop, restore, `onSendResponse`, `onPollResponse`, 404, failures | `Send`, `LoopPoll`, `Reload`, `Answered`, `Continued`, `Stopped`, `Fail`, `WatchEnds` |

Modelling decisions: the settings and the latest row of a request are read in
one step (nothing is written between them and both are only compared); purge and
the count of a draining chatbot are one step, since the purge leaves active rows
alone; of an answer only what the page uses is kept (`Settled`); the page writes
its storage with every change of token or cursor, so storage is not a variable of
its own; that an agent's session must be live to be taken up is left out.  `latest` is the
handoff created last; the code orders by `startedAt`, taken just before the
insert, which differs only if a handoff is opened and ended while another intervention
stands between taking its time and its insert.  Which words are banned is not modelled:
`Read` may block any message, with or without a token, and answers it without
a handoff block, which the page takes like any answer without one.  `cut` is a
history variable: some poll gave a cursor beyond the messages it may read.

### Runs

| Run | Instance | Shows |
|---|---|---|
| `handoff_safety` | an agent and an administrator, 2 requests at once, 1 handoff, 4 operations of people, 2 messages, 1 change of the settings or closing of the channel | `EndsOnce`; `SpokenByAssignee`; `OneHolder`; `HolderNeverBot`; `LegacyComplete` |
| `handoff_live` | the same people, 2 handoffs, 3 operations, 1 message, 1 failure or reload; a poll reads 2 messages (`PageSize`, 100 in the code) | `TypeOK`; `NothingSkipped`; `HandoffsEnd`, `RawGone`, `PageReturns` under fairness |

Two requests at once are what the page can have (one message and one poll; a
third is a poll of a loop already stopped).  Four operations let a handoff be
opened, answered, taken over and ended while one of them is still at work.
Nobody has to act in `handoff_live`: the sweeper alone must end what was left.
With `PageSize` 2 both kinds of polls occur: those that read all there is, also
after the thread has grown past a page, and those that find more than a page,
after which `NothingSkipped` says nothing (without `~cut` TLC refutes it in this
run).  In `handoff_safety` nothing fails, so the antecedent of `LegacyComplete`
(no answer lost) always holds there; the theorems cover any number of failures
and reloads.

## 8. Fairness

Liveness is checked under weak fairness of each loop's step: `PollingLoop`
(`common/polling/polling-loop.ts:47-69`) always schedules the next tick after
the last one, whatever the last one's result, so a step that stays possible is
taken.  A started request is answered or refused.  The clock advances; in the
outbox only after every resting instance has polled in the present unit
(`PromptAdvance`), because the loop polls many times per unit and a clock that
jumps would let held runs expire unseen.  Crashes and late answers are bounded
and never fair.  Nothing is assumed about console users.  In `AuditChain` the
calls of `record`, started verifications and the ticks go on; in `Handoff` the
sweeper, the timer of the page's loop (`app.ts:228-244`, rescheduled after every
answer and failure) and started requests; no visitor and no agent has to act.

## 9. Proofs

`DeployScheduleProofs.tla`, for every value of the constants that satisfies the
two assumptions:

- `TypeCorrect`: `Spec => []TypeOK`.  One step per action; `Earliest` and
  `ChainBase` are `CHOOSE`s over finite or bounded sets of numbers, so the lemma
  `LeastNat` (well-foundedness of `<`) is needed first.
- `LeaseProtects`: `Spec => LiveOwnerKept`.  The inductive invariant is
  `LeaseInv`: an engine at work on a row it claimed (`LiveClaim`) has the date of
  its tick in the row unless someone took a newer token, began within
  `Deadline` of that date and is younger than `ExecSpan`.  A take-over needs a
  date older than `Lease`, which contradicts `LeaseAssumption`.
- `AtMostOnce`: `Spec /\ WritesWaitingOnly => []AppliedAtMostOnce`.  The
  invariant is not inductive alone: `OnceInv` adds that a waiting row is
  `Untouched`, that whoever may still commit (`MayApply`) finds no commit, and
  that at most one instance may.  `WritesWaitingOnly` is a hypothesis because
  the code breaks it (finding `deploy_waiting_only`); without console requests
  it holds (`EnginesAlone`), which is the case `deploy_crash` checks.

`DeployOutcomeProofs.tla` and `DeployOrderProofs.tla` build on it:

- `OutcomeIsTrue`: `Spec /\ WritesWaitingOnly => []OutcomeTruthful`.  `TruthInv`
  adds to `LeaseInv` and `OnceInv` that a token was issued by its row (`Issued`),
  that no two instances share one (`Apart`), that whoever executes owns the row
  (`Holds`: here the lease is needed, or a recovery could read the trace before
  the commit it is about) and that an owner's outcome is what was committed
  (`Knows`).  Steps that neither start nor end an execution share the lemma
  `TruthKept`; a new token, a new outcome and a written result have one each.
- `LifeContract`: `Spec /\ WritesWaitingOnly => LifeSpec`, the refinement of
  `ScheduleLife`, from `TruthInv` too.  Every row drifts (`Drift`: it enters, is
  held, resumed, given up or cancelled, or stays in its stage) except in three
  steps, each with a lemma: `Claim` starts a row while none runs (`ClaimMoves`),
  `Execute` commits for the owner of a row that has committed nothing
  (`ExecuteMoves`), `Finalize` reports what its owner knows (`FinalizeMoves`).
- `EnginesAlone`: where there is no console request the proviso holds, so all
  three promises follow from `Spec` alone, for any number of instances.
- `InOrder`: `Spec => StartsInOrder`, without any proviso.  `OrderInv` says that
  no two active rows have the same time and that what an instance has read of the
  other rows is still true (`FirstInLine`): every step leaves a row where it was
  (`Stays`) or gives it a time that is not due (`GoesBack`).
- `ChainIsKept`: `Spec => ChainKept`, assuming `OneRequest`: one console request
  about the chatbot at a time.  `ChainInv` adds to `OrderInv` that rows are never
  earlier than an instance has read (`OnTime`) and that what a request read of
  its row is still true when it writes (`FreshWrites`, which two requests break:
  section 10).  What an engine may do to one row is said once
  (`EngineRow`, lemma `EngineRows`): it keeps its time, and if it ends without
  success every later row that waits is held (`Stops`).  The console writes have
  one lemma each (`CreateRows` to `ModeRows`); a move preserves the order of
  every pair of active rows (`ChainMoved`), a creation or a resumption goes to the
  end (`EndOfChain`), everything else only shrinks the chain (`ChainShrinks`).
- `StopsBehindFailure`: `Spec => FailStop`, assuming `OneRequest` and either one
  instance or no requests but creations.  Both cases are needed: with two
  instances and a move TLC finds the counterexample of section 10.  `FailStop`
  speaks of the moment of a start only; `StopInv` says of every row that may yet
  wait (`MayWait`: it is PENDING, or runs and may be put back) that whoever placed
  it could see every failure before it (`Informed`).  The hard step is a failure
  in front of a row that *runs* and is not held: without requests what runs is
  first in line (`Undisturbed`), with one instance nobody else can fail anything.

`WorkflowOutboxProofs.tla`, likewise for every value of the constants:

- `OutboxTypes`: `Spec => []TypeOK`.
- `Delivery`, `Attempts`, `Bodies`, `Ends`: `Spec => []DeliveredOnce`,
  `[]AttemptsBounded`, `[]BodyKeptWhileOpen` and `EndIsFinal`, all from one
  inductive invariant `OutboxInv`.  `DeliveredOnce` is far from inductive: it
  needs `Deliveries` (one acceptance that is recorded, or whose sender is about
  to record it), which needs `LeasesKept` (what a live tick has in hand is its
  own, dated with its start, and with nobody else; a tick is younger than
  `TickSpan`), which needs `TokensKept` (tokens never come back).  The crux is
  `RecoverAlone`: a run that is taken back has no live sender, because
  `SendLeaseAssumption` makes the lease cover a tick.  Most steps are `QuietStep`s
  (they touch no row in the hands of a sender) and share the lemma `QuietKeeps`;
  the five steps of a sender share `SenderKeeps`.
- `DeliveryContract`: `Spec => DeliverySpec`, the refinement of `MessageDelivery`,
  again from `OutboxInv`.  `Deliveries` has to be exact for it: the acceptances of
  a run are those lost and one more exactly if it SUCCEEDED or a live job holds
  the answer (`HeardIsCredit`), so that what an action finds in a job is what the
  abstract message has `Heard`.
- `Concurrency`: `Spec => []ConcurrencyKept` for at most one instance and finitely
  many runs.  `RoomTaken` counts the runs a tick has planned with those it sends
  (`InUse`) and says that what waits for a plan never stands beside what has one;
  only `PlanClaims` enlarges `InUse`, by the room that is left (`PlanFillsRoom`),
  every other step `PlansNothing`.  With two instances it does not hold (section
  10).

`ProdSwitchProofs.tla`, for every value of the constants:

- `SwitchTypes`, `TwoPersons`, `ApprovalIsMove`, `PolicyHolds`, `Finality`:
  `Spec => []TypeOK`, `[]FourEyes`, `[]AppliedIsCommitted`, `[]PolicyEnforced`
  and `ClosedIsFinal`.  What the log says is only true because of what each call
  in flight may rely on, so the inductive invariant `SwitchInv` says it call by
  call (`CallOK`): a call that approves names a request of somebody else for
  exactly its move; a call before its commit has an approval or was begun under
  no policy; a scheduled one names a request that was granted and that no move
  has used.  `CallKept` is the crux: what one call has read stays good while
  another takes a step, because a request keeps its author, its base and its
  target and, once closed, everything (`AskFrame`).  The steps that move the
  pointer share `MoveStep`, those that only note what was read `EnterStep`.
- `PointerLedger`: `Spec => LedgerSpec`, the refinement of `ProdPointer`.  Every
  step leaves pointer and log alone or is one recorded move (`PointerStep`); the
  request it names is not spent, by the claim in the same transaction for an
  immediate approval and by `CommitOK` for a scheduled one.

`AuditChainProofs.tla`, for every value of the constants:

- `AuditTypes`, `Intact`, `Reported`: `Spec => []TypeOK`, `[]ChainIntact`,
  `[]DamageReported`; and, for at most one purging instance, `Reaches` and
  `Passes`: `[]AnchorReaches`, `[]UndamagedPasses`.  The inductive invariant
  `ChainInv` ties the tables to what is in flight: `Linked` says of the rows that
  numbers are unique (`Alone`), without gap up to the head (`Dense`) and each
  continued by the next (`Links`), of a writer that the head it saw still fits
  (`SeenFits`), of a purge that its batch does (`BatchFits`) and of a
  verification that the place it has reached does (`WalkFits`), all through one
  notion, `Fits(q, h)`: whoever expects hash `h` at number `q` is right about it.
  A step either appends one row to the head or only deletes from the front
  (`Appends`, `Shrinks`), and these two lemmas carry every conjunct.

`HandoffProofs.tla`, for every value of the constants:

- `HandoffTypes`, `HandoffEndsOnce`, `HandoffSpoken`, `HandoffOneHolder`:
  `Spec => []TypeOK`, `[]EndsOnce`, `[]SpokenByAssignee`, `[]OneHolder`.  Every
  step either keeps the rows, each changed at most by a `RowStep`, or adds one
  while none is active (lemma `StepMoves`, one lemma per action under it).  What
  a single row may do then decides the thread: `Orderly` (one end message after
  which only the visitor speaks; the assignee is who last started or took over;
  each agent's message has its leader) is kept by every `RowStep`.  For the token
  the steps of the requests either give up answers (`Fewer`) or issue the token of
  a handoff that had none; `Tokens` says that page and answers hold only tokens of
  handoffs with a mode, pairwise different, and `Unissued` is what makes an issued
  one new.

`HandoffPageProofs.tla` builds on it:

- `HandoffHolderNeverBot`, `HandoffLegacyComplete`, `HandoffNothingSkipped`:
  `Spec => []HolderNeverBot`, `[]LegacyComplete`, `[]NothingSkipped`, all from
  `PageInvariant`. The first speaks of what the gate passes on: a banned word is
  answered by a fixed text before it, whoever sends it. The last holds for any
  `PageSize`, as long as no poll was cut. The parts are `Fit` (what a request
  has read and decided agrees with the rows: whom the gate may pass to the bot,
  what was collected, what the page will be told), `Cursor` (of the messages up
  to a number the page or an answer carries, all were shown or are in answers
  under way; once a poll was cut, everything counts as `Known`, so that the rest
  of the invariant goes on) and `Deliv` (the same of the cursor a legacy row
  keeps). A request reads in several transactions while others write, so `Fit`
  is stated of a request and a sequence of rows and kept by one fact: rows only
  grow (`Grows`: threads get longer, public messages stay where they are, an
  ended conversation stays ended, the cursor does not go back), and whatever was
  fit for the old rows is fit for grown ones (`KeptFits`). That leaves the step
  of the request itself (`Serves`) and the application of its answer
  (`Settled`), in whatever order answers arrive.

Out of the prover's reach and left to TLC: liveness (fairness and ENABLED:
`EveryScheduleSettles`, `EveryRunEnds`, `OldRowsGo`, `HandoffsEnd`, `RawGone`,
`PageReturns`) and anything by induction over data.  Every other property of the
passing runs is proved, with these restrictions: `AppliedAtMostOnce`,
`OutcomeTruthful` and `LifeSpec` under `WritesWaitingOnly`, `ChainKept` and `FailStop` for the
requests and instances named above, `AnchorReaches` and `UndamagedPasses` for one
purging instance, `ConcurrencyKept` for one instance.

## 10. Findings, and what the models show besides

| Run | Where | What |
|---|---|---|
| `deploy_waiting_only` | `deploy-schedule.service.ts:282` | status is checked in one read, written by id in another transaction |
| `outbox_held` | `workflow-trigger.service.ts:478` | hold decided from a snapshot that pause and resume do not invalidate, always with the reason SUBSCRIPTION |
| `audit_alarm` | `audit-chain-verifier.service.ts:88` | head, period and rows are read one after the other: a row recorded meanwhile makes a sound chain end with TAIL_MISSING |

`PROJECT.json` quotes the sentence of the repository each of them contradicts.

Other behaviour of the code that the models contain and that no run is kept for:

- A restore claimed between the RUNNING check of `enable`
  (`environment-mode.service.ts:184`) and its transaction runs after the
  environments were separated, against `environment-separation-설계.md:1017`
  (`ModeRead`, `Claim`, `EnableWrite` in that order).
- `deploy-schedule.repository.ts:37`: the claim compares status and attempts and
  not the time, so a schedule moved after the tick read it starts at its old time
  (or is marked missed for it).  `StartsInOrder` is therefore about the time the
  tick read, and with two instances fail-stop is lost: the row that runs has a
  time to come, another instance does not see it among the due rows, marks a row
  in front of it as missed, and the one that runs, if it was blocked, starts
  again behind that miss (`UpdateRead`, `ReadDue`, `UpdateWrite`, `Create`,
  `Claim`, `MarkMissed`, `Finalize`, `Claim`).  That is why `FailStop` is checked
  with two instances and no console (`deploy_crash`) or with the console and one
  instance (`deploy_console`), and proved for these two cases.
- A schedule resumed at the end of a chain leaves behind the ones that built on
  it: a restore or switch that waits expects what nobody will produce and fails
  at its time (rule R5 rebases the resumed one alone).  `ChainKept` names this
  case.
- `deploy-schedule.service.ts:286`: cancelling a schedule holds the later ones
  only if it is a restore.  After the cancellation of a switch in the middle of a
  chain the next switch still expects its target, waits for its time and then
  fails (ENV_POINTER_STALE), although `environment-separation.md:387` (FR-EN5-3)
  gives switches "the same rule as the chain of restores" (`Create` three times,
  `CancelRead`, `CancelWrite`).  `ChainKept` names this case too: that a chain is
  linked at every moment holds for neither kind.
- `deploy-schedule.service.ts:237`: a move is compared with the time read before
  its transaction, so of two moves of one schedule at the same time the second is
  checked against a place the schedule has left, and a schedule created in
  between is passed, against rule R3 (`scheduled-deploy-설계.md:534`): with two
  requests `ChainKept` fails (`UpdateRead` twice, `UpdateWrite`, `Create`,
  `UpdateWrite`), which is why it is checked and proved for one.
- `version-restore.service.ts:279`: the stale check precedes the no-change check,
  so a restore whose target is in place fails instead of ending as NOOP
  (`Execute`).
- `switch-approval.service.ts:144`: mode and old policy are read before the
  transaction that writes the policy and not compared in it, so it may come on
  after the environments were joined, against `ai-guardrails-설계.md:509`
  (`PolicyRead`, `Disable`, `PolicyWrite`).
- Handoff, all found by TLC as counterexamples to stronger forms of the
  properties: a late answer to the first handoff puts its token over that of the
  second; the cursor of the first is kept for the second, whose first messages
  are then skipped (`handoff-poll.ts:46`); a message may be shown twice, because
  the cursor is read before the messages; the answer CONNECTED applied after the
  poll has stopped leaves the page CONNECTED without token and polling for ever
  (`app.ts:727`); `draining` stays when the last handoff ends other than in the
  tick that saw it active, against the comment at
  `handoff-settings.service.ts:37`; a poll reads at most 100 messages
  (`handoff-public-poll.service.ts:107`) and answers the last number on the row as
  cursor (`:121`), so a page that comes back to more than 100 never sees the rest,
  although `hybrid-cs-설계.md:439` and `:601` define the cursor as the greatest
  number the answer has scanned (`NothingSkipped` leaves this case out by `cut`).
- Handoff, read off the code: a message with a banned word is answered by the
  guidance text even in the middle of a conversation with an agent, whose thread
  it does not enter (`public-conversation.service.ts:223-255`; the comment at
  224-226 intends it); the first message of a legacy page is answered but not
  stored (`handoff-gate.service.ts:188-193`); when storing the first message
  fails after the token was issued, the token is lost and the page stays
  unverified until the handoff ends; the answer ENDED that `app.ts:722` waits
  for is never produced; a sweeper that judged AGENT_NO_REPLY ends with FAILED a
  handoff the agent has answered since.

## 11. Not modelled

Components without a protocol (see the inventory), those the plan still lists
(versions, knowledge-base sync, inbox, pending answers, feedback, job queues,
dialogue sessions) and, inside the modelled ones: previews and lists,
`acknowledgedAt`, the content of audit rows, notification texts,
consecutive-failure counters, test sends, rate per minute and batch size, moving
a subscription to another target; the daily mark of `recordView`, the CSV export
and signing keys of the audit log; the other batches of the retention job and
field encryption; of handoff, identity sign-in, console lists, hints and
transcripts, masking, rate limits, the counter of unverified requests, the end
button, the cap of 500 active rows, and a sweep that fails half
way.  Numeric clustering, text scoring and masking are outside TLC's reach.
