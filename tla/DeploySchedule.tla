--------------------------- MODULE DeploySchedule ---------------------------
(***************************************************************************)
(* Scheduled deployments of ONE chatbot                                    *)
(* (apps/api/src/deploy-schedules).                                        *)
(*                                                                         *)
(* Administrators create, move, cancel and resume schedules; every API     *)
(* instance polls the table, plans at most one decision for the chatbot,   *)
(* claims the row by compare-and-set, runs the executor and writes the     *)
(* result.  The table is the only shared state: the transactions of SQLite *)
(* are the atomic steps, everything between two of them may interleave.    *)
(* Chatbots share nothing but the tick that walks them one after the       *)
(* other, so one chatbot is enough; the time a tick spends on the other    *)
(* chatbots is the delay allowed between a plan and its use (Deadline).    *)
(***************************************************************************)
EXTENDS Naturals, FiniteSets

CONSTANTS
  Schedules,    \* identities of the rows of deploy_schedules
  Instances,    \* API processes that run the engine
  Requests,     \* console requests that can be in flight at once
  Actions,      \* the kinds of schedule in use, a subset of AllActions
  Targets,      \* [Actions -> SUBSET Contents]: what a schedule may aim at
  Contents,     \* content hashes, version ids, chatbot or channel states
  Off,          \* no production pointer: environment mode is off
  NoSchedule,   \* the schedule of an idle engine or of no request
  MinLead,      \* a new time is at least this far ahead
  LastAt,       \* bound: no schedule is placed after this time
  MaxTime,      \* bound: the clock stops here
  Grace,        \* misfire grace and polling tolerance together
  RetryWindow,  \* how long a blocked schedule is retried
  Lease,        \* a RUNNING row older than this is taken over
  Deadline,     \* budget of a tick: a decision is used at most this late
  ExecSpan,     \* a live engine takes at most this long from claim to result
  MaxActive,    \* active schedules per chatbot
  MaxAttempts,  \* bound: a schedule is blocked fewer times than this
  MaxCrashes,   \* bound on crashes and on results lost to a busy database
  MaxSteals,    \* bound on take-overs from a recovery that is still alive
  MaxRequests,  \* bound on console requests
  MaxEdits      \* bound on changes made outside the schedules

AllActions == {"RESTORE_VERSION", "SWITCH_PROD_VERSION",
               "PUBLISH", "SET_WEB_CHANNEL"}

ASSUME ConstantsAssumption ==
  /\ Actions \subseteq AllActions
  /\ Targets \in [Actions -> SUBSET Contents]
  /\ Off \notin Contents
  /\ NoSchedule \notin Schedules
  /\ {MinLead, LastAt, MaxTime, Grace, RetryWindow, Lease, Deadline,
      ExecSpan, MaxActive, MaxAttempts, MaxCrashes, MaxSteals, MaxRequests,
      MaxEdits} \subseteq Nat
  /\ MinLead > 0

\* env.validation.ts raises the lease to the longest execution and a margin; the
\* margin covers the delay of a tick.
ASSUME LeaseAssumption == Deadline + ExecSpan <= Lease

VARIABLES
  clock,    \* the shared clock, in coarse units
  row,      \* the table deploy_schedules
  asset,    \* what the executors change: draft, prod pointer, status, channel
  engine,   \* per instance: the decision or execution it holds in memory
  request,  \* per console request: what it read before its transaction
  effects,  \* per schedule: commits that carry its id (backup / switch log)
  known,    \* per schedule: the failures whoever placed it last could see
  budget    \* what is left of the bounds above

vars == <<clock, row, asset, engine, request, effects, known, budget>>

Active == {"PENDING", "HELD", "RUNNING"}
Stopped == {"FAILED", "MISSED"}
Terminal == {"SUCCEEDED", "FAILED", "MISSED", "CANCELLED"}
Statuses == Active \cup Terminal \cup {"ABSENT"}

\* Actions whose commit leaves a trace with the id of the schedule.
Traced == {"RESTORE_VERSION", "SWITCH_PROD_VERSION"}

NoRow == [status |-> "ABSENT", action |-> "PUBLISH", at |-> 0,
          attempts |-> 0, gen |-> 0, claimedAt |-> 0,
          expected |-> Off, target |-> Off, outcome |-> "NONE"]

Idle == [pc |-> "idle", sid |-> NoSchedule,
         kind |-> "NONE", at |-> 0, attempts |-> 0, gen |-> 0,
         tickAt |-> 0, began |-> 0, outcome |-> "NONE"]

NoRequest == [op |-> "none", sid |-> NoSchedule, at |-> 0,
              draft |-> Off, prod |-> Off]

Content(a) == IF a \in Actions THEN asset[a] ELSE Off
Draft == Content("RESTORE_VERSION")
Prod == Content("SWITCH_PROD_VERSION")

\* The failures so far: what an administrator who confirms a schedule sees.
StoppedRows == {t \in Schedules : row[t].status \in Stopped}

Init ==
  /\ clock = 0
  /\ row = [s \in Schedules |-> NoRow]
  /\ asset \in [Actions -> Contents \cup {Off}]
  /\ \A a \in Actions \ {"SWITCH_PROD_VERSION"} : asset[a] # Off
  /\ engine = [i \in Instances |-> Idle]
  /\ request = [r \in Requests |-> NoRequest]
  /\ effects = [s \in Schedules |-> 0]
  /\ known = [s \in Schedules |-> StoppedRows]
  /\ budget = [crashes |-> MaxCrashes, steals |-> MaxSteals,
               requests |-> MaxRequests, edits |-> MaxEdits]

-----------------------------------------------------------------------------
(* Queries and the rules of a chain of schedules                           *)

ActiveRows(except) ==
  {t \in Schedules \ {except} : row[t].status \in Active}

\* checkScheduleTimeRules: lead, horizon and no other active row at that time.
TimeAllowed(s, at) ==
  /\ at >= clock + MinLead
  /\ at <= LastAt
  /\ \A t \in ActiveRows(s) : row[t].at # at

Siblings(s, a) == {t \in ActiveRows(s) : row[t].action = a}

\* findPredecessor / resolveSwitchBinding: a chain starts from the target of
\* the latest earlier schedule of the same kind, or from the current content.
ChainBase(s, a, at) ==
  LET earlier == {t \in Siblings(s, a) : row[t].at < at}
  IN  IF earlier = {}
      THEN Content(a)
      ELSE row[CHOOSE t \in earlier :
                 \A u \in earlier : row[u].at <= row[t].at].target

\* Slip: the check that chains grow at the end is missing.
AtChainEnd_Unchecked(s, a, at) == TRUE

\* hasLaterActiveRestore / hasLaterActiveSwitch: chains grow at the end only.
AtChainEnd(s, a, at) == \A t \in Siblings(s, a) : row[t].at < at

\* resolveForInsert of the four executors.
Insertable(s, a, at, target) ==
  CASE a = "RESTORE_VERSION" ->
         AtChainEnd(s, a, at) /\ ChainBase(s, a, at) # target
    [] a = "SWITCH_PROD_VERSION" ->
         AtChainEnd(s, a, at) /\ ChainBase(s, a, at) # Off
    [] a = "PUBLISH" ->
         Siblings(s, a) = {} /\ asset[a] # target
    [] OTHER -> TRUE

\* preservesOrder: moving a row keeps its place among the active rows; `was`
\* is the time the request read before its transaction.
PreservesOrder(s, was, at) ==
  \A t \in ActiveRows(s) :
    /\ row[t].at < was => row[t].at < at
    /\ row[t].at > was => row[t].at > at

\* Slip: whatever the trigger, only restores are held.
HoldSuccessors_RestoresOnly(rows, trigger, kinds) ==
  [t \in Schedules |->
     IF /\ rows[t].status = "PENDING"
        /\ rows[t].at > trigger
        /\ rows[t].action = "RESTORE_VERSION"
     THEN [rows[t] EXCEPT !.status = "HELD"]
     ELSE rows[t]]

\* Slip: the rows before the trigger are held, not those after it.
HoldSuccessors_Before(rows, trigger, kinds) ==
  [t \in Schedules |->
     IF /\ rows[t].status = "PENDING"
        /\ rows[t].at < trigger
        /\ rows[t].action \in kinds
     THEN [rows[t] EXCEPT !.status = "HELD"]
     ELSE rows[t]]

\* holdSuccessorsWithin: the PENDING rows after `trigger` become HELD.
HoldSuccessors(rows, trigger, kinds) ==
  [t \in Schedules |->
     IF /\ rows[t].status = "PENDING"
        /\ rows[t].at > trigger
        /\ rows[t].action \in kinds
     THEN [rows[t] EXCEPT !.status = "HELD"]
     ELSE rows[t]]

-----------------------------------------------------------------------------
(* Console requests                                                        *)

\* DeployScheduleService.create: everything is checked again inside the
\* transaction that inserts the row.
Create(s, a, at, target) ==
  /\ budget.requests > 0
  /\ row[s].status = "ABSENT"
  /\ target \in Targets[a]
  /\ TimeAllowed(s, at)
  /\ Cardinality(ActiveRows(s)) < MaxActive
  /\ Insertable(s, a, at, target)
  /\ row' = [row EXCEPT ![s] =
               [NoRow EXCEPT !.status = "PENDING", !.action = a, !.at = at,
                  !.target = target,
                  !.expected = IF a \in Traced THEN ChainBase(s, a, at)
                                               ELSE Off]]
  /\ known' = [known EXCEPT ![s] = StoppedRows]
  /\ budget' = [budget EXCEPT !.requests = @ - 1]
  /\ UNCHANGED <<clock, asset, engine, request, effects>>

\* The status check of update, cancel and resume: a read of its own, before
\* and outside the transaction that writes.
ReadRow(r, op, s, statuses) ==
  /\ budget.requests > 0
  /\ request[r].op = "none"
  /\ row[s].status \in statuses
  /\ request' = [request EXCEPT ![r] =
                   [NoRequest EXCEPT !.op = op, !.sid = s, !.at = row[s].at]]
  /\ budget' = [budget EXCEPT !.requests = @ - 1]
  /\ UNCHANGED <<clock, row, asset, engine, effects, known>>

UpdateRead(r, s) == ReadRow(r, "update", s, {"PENDING", "HELD"})
CancelRead(r, s) == ReadRow(r, "cancel", s, {"PENDING", "HELD"})
ResumeRead(r, s) == ReadRow(r, "resume", s, {"HELD"})

Respond(r) == request' = [request EXCEPT ![r] = NoRequest]

\* DeployScheduleService.update: the row is updated by id alone.
UpdateWrite(r) ==
  LET s == request[r].sid IN
  /\ request[r].op = "update"
  /\ \E at \in 0..LastAt :
       /\ TimeAllowed(s, at)
       /\ PreservesOrder(s, request[r].at, at)
       /\ row' = [row EXCEPT ![s].at = at]
  /\ known' = [known EXCEPT ![s] = StoppedRows]
  /\ Respond(r)
  /\ UNCHANGED <<clock, asset, engine, effects, budget>>

\* DeployScheduleService.cancel: by id alone; a cancelled restore holds the
\* PENDING restores after it (rule R6).
CancelWrite(r) ==
  LET s == request[r].sid
      cancelled == [row EXCEPT ![s].status = "CANCELLED"]
  IN
  /\ request[r].op = "cancel"
  /\ row' = IF row[s].action = "RESTORE_VERSION"
            THEN HoldSuccessors(cancelled, row[s].at, {"RESTORE_VERSION"})
            ELSE cancelled
  /\ Respond(r)
  /\ UNCHANGED <<clock, asset, engine, effects, known, budget>>

\* DeployScheduleService.resume: a new time, a new base for the chained
\* actions, the attempts start again; by id alone.
ResumeWrite(r) ==
  LET s == request[r].sid
      a == row[s].action
  IN
  /\ request[r].op = "resume"
  /\ \E at \in 0..LastAt :
       /\ TimeAllowed(s, at)
       /\ a \in Traced => Insertable(s, a, at, row[s].target)
       /\ row' = [row EXCEPT ![s] =
                    [@ EXCEPT !.status = "PENDING", !.at = at,
                       !.attempts = 0,
                       !.expected = IF a \in Traced THEN ChainBase(s, a, at)
                                                    ELSE row[s].expected]]
  /\ known' = [known EXCEPT ![s] = StoppedRows]
  /\ Respond(r)
  /\ UNCHANGED <<clock, asset, engine, effects, budget>>

\* Every request may also be refused after its read.
Refuse(r) ==
  /\ request[r].op # "none"
  /\ Respond(r)
  /\ UNCHANGED <<clock, row, asset, engine, effects, known, budget>>

\* Changes that do not come from a schedule: an edit or an immediate restore
\* of the draft, an immediate switch, a manual publish or channel change.
EditAsset(a) ==
  /\ budget.edits > 0
  /\ asset[a] # Off
  /\ \E c \in Contents \ {asset[a]} :
       /\ a = "PUBLISH" => c \in Targets[a]
       /\ asset' = [asset EXCEPT ![a] = c]
  /\ budget' = [budget EXCEPT !.edits = @ - 1]
  /\ UNCHANGED <<clock, row, engine, request, effects, known>>

\* EnvironmentModeService.enable and disable: that no schedule runs is a read
\* of its own, before the transaction.  The draft and the pointer the
\* administrator saw are compared again inside it.
ModeRead(r, op) ==
  /\ budget.requests > 0
  /\ request[r].op = "none"
  /\ "SWITCH_PROD_VERSION" \in Actions
  /\ Prod = Off <=> op = "enable"
  /\ \A s \in Schedules : row[s].status # "RUNNING"
  /\ request' = [request EXCEPT ![r] =
                   [NoRequest EXCEPT !.op = op, !.draft = Draft, !.prod = Prod]]
  /\ budget' = [budget EXCEPT !.requests = @ - 1]
  /\ UNCHANGED <<clock, row, asset, engine, effects, known>>

ModeWrite(r, op) ==
  /\ request[r].op = op
  /\ Draft = request[r].draft
  /\ Prod = request[r].prod
  /\ Respond(r)
  /\ UNCHANGED <<clock, engine, effects, known, budget>>

\* The pointer appears and, with it, the PENDING restores are held.
EnableWrite(r) ==
  /\ ModeWrite(r, "enable")
  /\ \E c \in Contents : asset' = [asset EXCEPT !["SWITCH_PROD_VERSION"] = c]
  /\ row' = [t \in Schedules |->
               IF row[t].status = "PENDING" /\ row[t].action = "RESTORE_VERSION"
               THEN [row[t] EXCEPT !.status = "HELD"] ELSE row[t]]

\* The pointer goes and, with it, the waiting switches are cancelled.
DisableWrite(r) ==
  /\ ModeWrite(r, "disable")
  /\ asset' = [asset EXCEPT !["SWITCH_PROD_VERSION"] = Off]
  /\ row' = [t \in Schedules |->
               IF /\ row[t].status \in {"PENDING", "HELD"}
                  /\ row[t].action = "SWITCH_PROD_VERSION"
               THEN [row[t] EXCEPT !.status = "CANCELLED"] ELSE row[t]]

-----------------------------------------------------------------------------
(* The engine: one tick                                                    *)

Due == {t \in Schedules : /\ row[t].status \in {"PENDING", "RUNNING"}
                          /\ row[t].at <= clock}

\* Slip: the due rows come in descending order.
Earliest_Latest(rows) == CHOOSE t \in rows : \A u \in rows : row[t].at >= row[u].at

Earliest(rows) == CHOOSE t \in rows : \A u \in rows : row[t].at <= row[u].at

\* Slips: the lease ends at its last instant, not after it; it never ends.
LeaseExpired_TooEarly(s, now) == now >= row[s].claimedAt + Lease
LeaseExpired_Never(s, now) == now > MaxTime + Lease

LeaseExpired(s, now) == now > row[s].claimedAt + Lease

\* First query of tick and the part of planTick it decides.  A RUNNING row
\* with a valid lease means SKIP: nothing to do for this chatbot.
ReadDue(i) ==
  LET running == {t \in Due : row[t].status = "RUNNING"} IN
  /\ engine[i].pc = "idle"
  /\ Due # {}
  /\ \A s \in running : LeaseExpired(s, clock)
  /\ LET s == Earliest(IF running # {} THEN running ELSE Due) IN
       engine' = [engine EXCEPT ![i] =
                    [Idle EXCEPT !.pc = IF running # {} THEN "planned" ELSE "due",
                       !.kind = IF running # {} THEN "RECOVER" ELSE "NONE",
                       !.sid = s, !.at = row[s].at, !.gen = row[s].gen,
                       !.attempts = row[s].attempts, !.tickAt = clock]]
  /\ UNCHANGED <<clock, row, asset, request, effects, known, budget>>

\* Second query of tick (the HELD rows) and the rest of planTick.
PlanDecision(i) ==
  LET e == engine[i]
      heldBefore == {t \in Schedules : row[t].status = "HELD" /\ row[t].at < e.at}
      kind == IF heldBefore # {} THEN "HOLD_BEHIND_HELD"
              ELSE IF e.attempts = 0 /\ e.tickAt > e.at + Grace THEN "MISS"
              ELSE IF e.attempts > 0 /\ e.tickAt > e.at + RetryWindow
                   THEN "EXPIRE_RETRY"
              ELSE "EXECUTE"
  IN
  /\ e.pc = "due"
  /\ engine' = [engine EXCEPT ![i].pc = "planned", ![i].kind = kind]
  /\ UNCHANGED <<clock, row, asset, request, effects, known, budget>>

\* A decision is taken up only while the tick is within its budget.
TakesUp(i, kind) ==
  /\ engine[i].pc = "planned"
  /\ engine[i].kind = kind
  /\ clock <= engine[i].tickAt + Deadline

Rest(i) == engine' = [engine EXCEPT ![i] = Idle]

\* The tick ends before this decision: stopping, or over its budget.
DropDecision(i) ==
  /\ engine[i].pc = "planned"
  /\ clock > engine[i].tickAt
  /\ Rest(i)
  /\ UNCHANGED <<clock, row, asset, request, effects, known, budget>>

\* repository.holdBehindHeld
HoldBehindHeld(i) ==
  LET s == engine[i].sid IN
  /\ TakesUp(i, "HOLD_BEHIND_HELD")
  /\ row' = IF row[s].status = "PENDING"
            THEN [row EXCEPT ![s].status = "HELD"] ELSE row
  /\ Rest(i)
  /\ UNCHANGED <<clock, asset, request, effects, known, budget>>

\* Slip: the row is updated by id alone.
MarkMissed_Unchecked(i) ==
  /\ TakesUp(i, "MISS")
  /\ row' = HoldSuccessors([row EXCEPT ![engine[i].sid].status = "MISSED"],
                           engine[i].at, AllActions)
  /\ Rest(i)
  /\ UNCHANGED <<clock, asset, request, effects, known, budget>>

\* repository.markMissed; the trigger of the hold is the time the tick read.
MarkMissed(i) ==
  LET s == engine[i].sid IN
  /\ TakesUp(i, "MISS")
  /\ row' = IF row[s].status = "PENDING" /\ row[s].attempts = 0
            THEN HoldSuccessors([row EXCEPT ![s].status = "MISSED"],
                                engine[i].at, AllActions)
            ELSE row
  /\ Rest(i)
  /\ UNCHANGED <<clock, asset, request, effects, known, budget>>

\* repository.expireRetry
ExpireRetry(i) ==
  LET s == engine[i].sid IN
  /\ TakesUp(i, "EXPIRE_RETRY")
  /\ row' = IF /\ row[s].status = "PENDING"
               /\ row[s].attempts = engine[i].attempts
            THEN HoldSuccessors([row EXCEPT ![s].status = "FAILED"],
                                engine[i].at, AllActions)
            ELSE row
  /\ Rest(i)
  /\ UNCHANGED <<clock, asset, request, effects, known, budget>>

\* The compare-and-set of repository.claim and the index that allows one
\* RUNNING row per chatbot.
Claimable(s, attempts) ==
  /\ row[s].status = "PENDING"
  /\ row[s].attempts = attempts
  /\ \A t \in Schedules : row[t].status # "RUNNING"

\* repository.claim: the claim is dated with the start of the tick.  The
\* token is a fresh UUID: the next generation of the row.
Claim(i) ==
  LET s == engine[i].sid IN
  /\ TakesUp(i, "EXECUTE")
  /\ IF Claimable(s, engine[i].attempts)
     THEN /\ row' = [row EXCEPT ![s].status = "RUNNING",
                       ![s].gen = @ + 1, ![s].attempts = @ + 1,
                       ![s].claimedAt = engine[i].tickAt]
          /\ engine' = [engine EXCEPT ![i].pc = "claimed",
                          ![i].gen = row[s].gen + 1, ![i].began = clock]
     ELSE Rest(i) /\ UNCHANGED row
  /\ UNCHANGED <<clock, asset, request, effects, known, budget>>

\* What a change inside executor.execute does to the asset, and its result.
Applies(s) ==
  LET a == row[s].action IN
  /\ asset[a] # Off
  /\ a \in Traced => asset[a] = row[s].expected
  /\ asset[a] # row[s].target

\* The outcome when nothing is changed: the content is not the expected one
\* (RESTORE_PREVIEW_STALE, ENV_POINTER_STALE, mode off), or it already is the
\* target.  The expected content is compared first.
UnchangedOutcome(s) ==
  LET a == row[s].action IN
  IF asset[a] = Off \/ (a \in Traced /\ asset[a] # row[s].expected)
  THEN "PERMANENT" ELSE "NOOP"

\* executor.execute: the change is one transaction of its own.
Execute(i) ==
  LET s == engine[i].sid
      a == row[s].action
  IN
  /\ engine[i].pc = "claimed"
  /\ IF Applies(s)
     THEN /\ asset' = [asset EXCEPT ![a] = row[s].target]
          /\ effects' = [effects EXCEPT ![s] = @ + 1]
          /\ engine' = [engine EXCEPT ![i].pc = "ran", ![i].outcome = "APPLIED"]
     ELSE /\ engine' = [engine EXCEPT ![i].pc = "ran",
                          ![i].outcome = UnchangedOutcome(s)]
          /\ UNCHANGED <<asset, effects>>
  /\ UNCHANGED <<clock, row, request, known, budget>>

\* An executor that is blocked (busy database, a running job, the restore
\* lock) or refused (creator lost the permission, version gone, archived).
ExecuteBlocked(i) ==
  /\ engine[i].pc = "claimed"
  /\ \E o \in {"TRANSIENT", "PERMANENT"} :
       /\ o = "TRANSIENT" => row[engine[i].sid].attempts < MaxAttempts
       /\ engine' = [engine EXCEPT ![i].pc = "ran", ![i].outcome = o]
  /\ UNCHANGED <<clock, row, asset, request, effects, known, budget>>

\* The compare-and-set of repository.finalize.
OwnsLease(i) ==
  /\ row[engine[i].sid].status = "RUNNING"
  /\ row[engine[i].sid].gen = engine[i].gen

Working(i) == engine[i].pc \in {"claimed", "reclaimed", "ran"} /\ OwnsLease(i)

\* repository.reclaim: a new token, the old date of the claim.  The date stays
\* expired, so a recovery that is still at work can be robbed in its turn:
\* MaxSteals bounds how often.
Reclaim(i) ==
  LET s == engine[i].sid
      robbed == \E j \in Instances : Working(j) /\ engine[j].sid = s
  IN
  /\ TakesUp(i, "RECOVER")
  /\ IF OwnsLease(i) /\ LeaseExpired(s, engine[i].tickAt)
     THEN /\ robbed => budget.steals > 0
          /\ row' = [row EXCEPT ![s].gen = @ + 1]
          /\ engine' = [engine EXCEPT ![i].pc = "reclaimed",
                          ![i].gen = row[s].gen + 1, ![i].began = clock]
          /\ budget' = [budget EXCEPT !.steals = IF robbed THEN @ - 1 ELSE @]
     ELSE Rest(i) /\ UNCHANGED <<row, budget>>
  /\ UNCHANGED <<clock, asset, request, effects, known>>

\* Slip: the present content alone decides, the trace is not looked up.
Verdict_ByContent(s) ==
  IF asset[row[s].action] = row[s].target THEN "RECOVERED" ELSE "INTERRUPTED"

\* judgeRecovery of the executors: the trace of the commit where there is
\* one, else the present content against the target.
Verdict(s) ==
  LET a == row[s].action
      reached == asset[a] = row[s].target
  IN  IF a \in Traced
      THEN IF effects[s] > 0 THEN "RECOVERED"
           ELSE IF reached THEN "NOOP" ELSE "INTERRUPTED"
      ELSE IF reached THEN "RECOVERED" ELSE "INTERRUPTED"

\* Slip: a recovery runs the schedule again.
Judge_RunAgain(i) ==
  /\ engine[i].pc = "reclaimed"
  /\ engine' = [engine EXCEPT ![i].pc = "claimed"]
  /\ UNCHANGED <<clock, row, asset, request, effects, known, budget>>

Judge(i) ==
  /\ engine[i].pc = "reclaimed"
  /\ engine' = [engine EXCEPT ![i].pc = "ran",
                  ![i].outcome = Verdict(engine[i].sid)]
  /\ UNCHANGED <<clock, row, asset, request, effects, known, budget>>

\* Slip: a blocked execution keeps its own status.
Result_Blocked(i) ==
  LET o == engine[i].outcome IN
  IF o \in {"APPLIED", "NOOP", "RECOVERED"} THEN "SUCCEEDED"
  ELSE IF o = "TRANSIENT" /\ engine[i].tickAt <= engine[i].at + RetryWindow
       THEN "BLOCKED"
  ELSE "FAILED"

\* What applyExecute and applyRecover write for the outcome.
Result(i) ==
  LET o == engine[i].outcome IN
  IF o \in {"APPLIED", "NOOP", "RECOVERED"} THEN "SUCCEEDED"
  ELSE IF o = "TRANSIENT" /\ engine[i].tickAt <= engine[i].at + RetryWindow
       THEN "PENDING"
  ELSE "FAILED"

\* repository.finalize: with the token, or LOST_LEASE and the result is
\* dropped.  A failure holds the schedules behind it in the same transaction.
Finalize(i) ==
  LET s == engine[i].sid
      done == [row EXCEPT ![s].status = Result(i),
                 ![s].outcome = IF Result(i) = "SUCCEEDED"
                                THEN engine[i].outcome ELSE @]
  IN
  /\ engine[i].pc = "ran"
  /\ row' = IF ~ OwnsLease(i) THEN row
            ELSE IF Result(i) = "FAILED"
                 THEN HoldSuccessors(done, row[s].at, AllActions)
            ELSE done
  /\ Rest(i)
  /\ UNCHANGED <<clock, asset, request, effects, known, budget>>

\* The process dies, or the final transaction meets a busy database and its
\* result is dropped: memory is lost, the row stays as it is.
Crash(i) ==
  /\ budget.crashes > 0
  /\ engine[i].pc # "idle"
  /\ Rest(i)
  /\ budget' = [budget EXCEPT !.crashes = @ - 1]
  /\ UNCHANGED <<clock, row, asset, request, effects, known>>

\* Time passes.  A live execution ends within ExecSpan; a console request takes
\* milliseconds, so it is answered within the unit of time it began in.
Advance ==
  /\ clock < MaxTime
  /\ \A i \in Instances :
       engine[i].pc \in {"claimed", "reclaimed", "ran"} =>
         clock < engine[i].began + ExecSpan
  /\ \A r \in Requests : request[r].op = "none"
  /\ clock' = clock + 1
  /\ UNCHANGED <<row, asset, engine, request, effects, known, budget>>

-----------------------------------------------------------------------------
EngineStep(i) ==
  \/ ReadDue(i) \/ PlanDecision(i) \/ DropDecision(i)
  \/ HoldBehindHeld(i) \/ MarkMissed(i) \/ ExpireRetry(i)
  \/ Claim(i) \/ Execute(i) \/ ExecuteBlocked(i)
  \/ Reclaim(i) \/ Judge(i) \/ Finalize(i)

RequestWrite(r) ==
  \/ UpdateWrite(r) \/ CancelWrite(r) \/ ResumeWrite(r)
  \/ EnableWrite(r) \/ DisableWrite(r)

RequestStep(r) ==
  \/ \E s \in Schedules : UpdateRead(r, s) \/ CancelRead(r, s) \/ ResumeRead(r, s)
  \/ \E op \in {"enable", "disable"} : ModeRead(r, op)
  \/ RequestWrite(r)
  \/ Refuse(r)

Next ==
  \/ \E s \in Schedules, a \in Actions, at \in 0..LastAt, c \in Contents :
       Create(s, a, at, c)
  \/ \E r \in Requests : RequestStep(r)
  \/ \E a \in Actions : EditAsset(a)
  \/ \E i \in Instances : EngineStep(i) \/ Crash(i)
  \/ Advance

Spec == Init /\ [][Next]_vars

\* The clock runs, every polling loop runs again after every tick, and a
\* request that was started is answered.
Fairness ==
  /\ WF_vars(Advance)
  /\ \A i \in Instances : WF_vars(EngineStep(i))
  /\ \A r \in Requests : WF_vars(RequestWrite(r) \/ Refuse(r))

FairSpec == Spec /\ Fairness

-----------------------------------------------------------------------------
(* Properties                                                              *)

RowType == [status : Statuses, action : AllActions, at : Nat, attempts : Nat,
            gen : Nat, claimedAt : Nat, expected : Contents \cup {Off},
            target : Contents \cup {Off},
            outcome : {"NONE", "APPLIED", "NOOP", "RECOVERED"}]

EngineType == [pc : {"idle", "due", "planned", "claimed", "reclaimed", "ran"},
               sid : Schedules \cup {NoSchedule},
               kind : {"NONE", "RECOVER", "HOLD_BEHIND_HELD", "MISS",
                       "EXPIRE_RETRY", "EXECUTE"},
               at : Nat, attempts : Nat, gen : Nat, tickAt : Nat, began : Nat,
               outcome : {"NONE", "APPLIED", "NOOP", "TRANSIENT", "PERMANENT",
                          "RECOVERED", "INTERRUPTED"}]

RowRequests == {"update", "cancel", "resume"}

RequestType == [op : {"none", "enable", "disable"} \cup RowRequests,
                sid : Schedules \cup {NoSchedule}, at : Nat,
                draft : Contents \cup {Off}, prod : Contents \cup {Off}]

\* Every variable keeps its shape, and a busy engine or a request about a row
\* names a schedule.
TypeOK ==
  /\ clock \in Nat
  /\ row \in [Schedules -> RowType]
  /\ asset \in [Actions -> Contents \cup {Off}]
  /\ engine \in [Instances -> EngineType]
  /\ \A i \in Instances : engine[i].pc # "idle" => engine[i].sid \in Schedules
  /\ request \in [Requests -> RequestType]
  /\ \A r \in Requests : request[r].op \in RowRequests => request[r].sid \in Schedules
  /\ effects \in [Schedules -> Nat]
  /\ known \in [Schedules -> SUBSET Schedules]
  /\ budget \in [crashes : Nat, steals : Nat, requests : Nat, edits : Nat]

\* At most once: whatever crashes, retries, take-overs and console requests
\* happen, the change of one schedule is committed no more than once
\* (the promise behind claim, finalize and judgeRecovery).
AppliedAtMostOnce == \A s \in Schedules : effects[s] <= 1

\* The result a row shows is what happened: APPLIED and RECOVERED rows have
\* committed, every other finished, waiting or held row has not.  (A row
\* cancelled while it ran shows neither.)  Needs executions that end within
\* the lease: the lower bound env.validation.ts puts on the lease.
OutcomeTruthful ==
  \A s \in Schedules :
    row[s].action \in Traced =>
      /\ row[s].status = "SUCCEEDED" =>
           (effects[s] = 1 <=> row[s].outcome \in {"APPLIED", "RECOVERED"})
      /\ row[s].status \in {"PENDING", "HELD", "FAILED", "MISSED"} =>
           effects[s] = 0

Starts(s) == row[s].status # "RUNNING" /\ row'[s].status = "RUNNING"

\* Schedules of a chatbot start in the order of their times: nothing that is
\* still waiting, held or running is overtaken by a later schedule.  The time
\* that counts is the one the tick read.
StartsInOrder ==
  [][\A i \in Instances, t \in Schedules :
       LET s == engine[i].sid IN
       (Claim(i) /\ Starts(s) /\ t # s /\ row[t].status \in Active)
         => row[t].at > engine[i].at]_vars

\* Fail-stop: a schedule starts behind a failed or missed one only if whoever
\* gave it its time, by creating, moving or resuming it, could already see that
\* failure.
FailStop ==
  [][\A s, t \in Schedules :
       /\ Starts(s)
       /\ row[t].status \in Stopped
       /\ row[t].at < row[s].at
       => t \in known[s]]_vars

\* Instance i takes a row over while instance j still executes it.
LiveOwnerRobbed(i, j) ==
  /\ Reclaim(i)
  /\ i # j
  /\ Working(j)
  /\ engine[j].kind = "EXECUTE"
  /\ engine[j].sid = engine[i].sid
  /\ row' # row

\* A row is taken over only when the execution that claimed it is gone, never
\* under a live one.
LiveOwnerKept == [][\A i, j \in Instances : ~ LiveOwnerRobbed(i, j)]_vars

\* p is the last active schedule of its kind before s: what s builds on.
LastBefore(s, p) ==
  LET earlier == {t \in Siblings(s, row[s].action) : row[t].at < row[s].at}
  IN  p \in earlier /\ \A t \in earlier : row[t].at <= row[p].at

\* A restore or switch that waits keeps the schedule it builds on (rules R1 to R3
\* and R6): none is ever put between the two, and when the other fails, is
\* missed or is cancelled, it does not wait on.  The other may succeed, which is
\* what it waits for; be resumed at the end of the chain (rule R5, which rebases
\* the resumed one alone); or, if a switch, be cancelled (then the
\* switches behind it still expect its target).
ChainKept ==
  [][\A s, p \in Schedules :
       /\ row[s].status = "PENDING" /\ row'[s].status = "PENDING"
       /\ row[s].action \in Traced
       /\ LastBefore(s, p)
       => \/ LastBefore(s, p)'
          \/ row'[p].status = "SUCCEEDED"
          \/ /\ row[p].status = "HELD" /\ row'[p].status = "PENDING"
             /\ row'[p].at > row'[s].at
          \/ row[p].action = "SWITCH_PROD_VERSION" /\ row'[p].status = "CANCELLED"]_vars

\* The stage in the life of a schedule that a row stands for.
Stage(x) ==
  CASE x.status = "ABSENT" -> "none"
    [] x.status = "PENDING" -> "waiting"
    [] x.status = "HELD" -> "held"
    [] x.status = "RUNNING" -> "running"
    [] x.status = "SUCCEEDED" ->
         IF x.outcome \in {"APPLIED", "RECOVERED"} THEN "applied" ELSE "unchanged"
    [] x.status = "FAILED" -> "failed"
    [] x.status = "MISSED" -> "missed"
    [] OTHER -> "cancelled"

Life(s) == [stage |-> Stage(row[s]), traced |-> row[s].action \in Traced,
            commits |-> effects[s]]

Contract == INSTANCE ScheduleLife WITH
  life <- [s \in Schedules |-> Life(s)]

\* Whatever engines, crashes and take-overs do, each schedule lives the life of
\* ScheduleLife: it starts only from the queue and alone, its change is
\* committed only while it runs, the report of a run is the truth of what it
\* committed, and what has ended is never touched again.
LifeSpec == Contract!Spec

\* Every schedule that waits or runs is settled: it ends, or is held for an
\* administrator.
EveryScheduleSettles ==
  \A s \in Schedules :
    row[s].status \in {"PENDING", "RUNNING"} ~>
      row[s].status \in Terminal \cup {"HELD"}

-----------------------------------------------------------------------------
(* Statements of the design that the code does not keep                    *)

WritesWaitingRow(r) ==
  LET status == row[request[r].sid].status IN
  /\ UpdateWrite(r) \/ CancelWrite(r) => status \in {"PENDING", "HELD"}
  /\ ResumeWrite(r) => status = "HELD"

\* "Changing or cancelling a RUNNING or finished schedule, and resuming one
\* that is not HELD, answers 409": the write meets the row in a state in which
\* the request is allowed.
WritesWaitingOnly ==
  [][\A r \in Requests : WritesWaitingRow(r)]_vars
=============================================================================
