---------------------------- MODULE WorkflowOutbox ----------------------------
(***************************************************************************)
(* The outbox of workflow automation (apps/api/src/workflow) for ONE       *)
(* webhook target.                                                         *)
(*                                                                         *)
(* Dialogue nodes and subscribed events enqueue runs; every API instance   *)
(* polls the outbox, takes back the runs whose sender was lost, plans,     *)
(* claims by compare-and-set, posts and writes the answer.  Administrators *)
(* pause and resume the target and the subscriptions, cancel and resend    *)
(* runs, and delete.  Each statement on the database is one step;          *)
(* whatever lies between two statements may interleave.  Targets share     *)
(* nothing but the size of a batch, so one target is enough.               *)
(***************************************************************************)
EXTENDS Naturals, FiniteSets

CONSTANTS
  Runs,           \* deliveries, one for each dedupe key
  Subscriptions,  \* event subscriptions that send to the target
  Target,         \* the webhook target
  Instances,      \* API processes with a dispatch loop
  Requests,       \* console calls and enqueues in flight at once
  NoRun, NoOwner,
  Lease,          \* a run SENDING for longer than this is taken back
  TickSpan,       \* a live tick ends within this time: time limit and margin
  Backoff,        \* delay before the next attempt, at least one unit
  HoldMax,        \* a run older than this expires when held
  Retention,      \* the body of a FAILED run is kept this long
  AttemptCap,     \* WORKFLOW_MAX_ATTEMPTS_CAP
  TargetAttempts, \* maxAttempts of the target
  Concurrent,     \* runs of the target that may be SENDING at once
  MaxTime,        \* bound: the clock stops here
  LastUse,        \* bound: nothing is requested and nothing fails later
  MaxRequests,    \* bound on pauses, resumes and changes of the target
  MaxRetries,     \* bound on manual resends and cancels
  MaxCrashes,     \* bound on crashes and on answers not written
  MaxLate         \* bound on answers that come after the time limit

Owners == Subscriptions \cup {Target}

ASSUME OutboxAssumption ==
  /\ Target \notin Subscriptions
  /\ NoRun \notin Runs
  /\ NoOwner \notin Owners
  /\ {Lease, TickSpan, Backoff, HoldMax, Retention, AttemptCap, TargetAttempts,
      Concurrent, MaxTime, LastUse, MaxRequests, MaxRetries, MaxCrashes,
      MaxLate} \subseteq Nat
  /\ Backoff > 0 /\ AttemptCap > 0 /\ TargetAttempts > 0

\* env.validation.ts raises the lease to the longest time limit and a margin.
ASSUME SendLeaseAssumption == TickSpan <= Lease

VARIABLES
  clock,     \* the shared clock, in coarse units
  run,       \* the table workflow_runs
  paused,    \* owners whose pausedAt is set
  exists,    \* owners that are not deleted
  enabled,   \* the switch of the target
  cached,    \* the snapshot of the subscriptions that events are matched with
  tickAt,    \* per instance: `now` of its tick
  job,       \* per instance and run: what the tick still has to do
  request,   \* per console call or enqueue: what it has read so far
  accepted,  \* per run: how often the receiver accepted it
  lost,      \* per run: acceptances nobody could record
  budget     \* what is left of the bounds above

vars == <<clock, run, paused, exists, enabled, cached, tickAt, job, request,
          accepted, lost, budget>>

table == <<run, paused, exists, enabled>>
ghosts == <<accepted, lost>>

Waiting == {"PENDING", "HELD"}
Open == Waiting \cup {"SENDING"}
Ended == {"SUCCEEDED", "FAILED", "SKIPPED", "CANCELLED", "EXPIRED"}

NoRow == [status |-> "ABSENT", hold |-> "NONE", origin |-> Target, body |-> FALSE,
          next |-> 0, attempts |-> 0, token |-> 0, claimedAt |-> 0,
          created |-> 0, completed |-> 0]

NoJob == [step |-> "none", token |-> 0, attempts |-> 0, outcome |-> "NONE"]

NoRequest == [op |-> "none", who |-> NoOwner, rest |-> {}, cur |-> NoRun,
              saw |-> "send"]

\* What an enqueue decides from a target and the owners that are paused.
Admission(isPaused) ==
  IF ~ enabled \/ Target \notin exists THEN "skip"
  ELSE IF isPaused THEN "hold" ELSE "send"

\* refreshSubscriptionCache: one flag for a paused target and a paused
\* subscription.
Snapshot ==
  [s \in Subscriptions |->
     IF s \notin exists THEN "absent"
     ELSE Admission(paused \cap {s, Target} # {})]

Init ==
  /\ clock = 0
  /\ run = [r \in Runs |-> NoRow]
  /\ paused = {}
  /\ exists = Owners
  /\ enabled = TRUE
  /\ cached = Snapshot
  /\ tickAt = [i \in Instances |-> 0]
  /\ job = [i \in Instances |-> [r \in Runs |-> NoJob]]
  /\ request = [q \in Requests |-> NoRequest]
  /\ accepted = [r \in Runs |-> 0]
  /\ lost = [r \in Runs |-> 0]
  /\ budget = [requests |-> MaxRequests, retries |-> MaxRetries,
               crashes |-> MaxCrashes, late |-> MaxLate]

Spend(kind) ==
  /\ budget[kind] > 0
  /\ clock <= LastUse
  /\ budget' = [budget EXCEPT ![kind] = @ - 1]

-----------------------------------------------------------------------------
(* The transitions of a row (WorkflowRunStore)                             *)

\* Slip: the owner itself is stored.
Reason_Owner(who) == who

\* The reason a run held for this owner carries.
Reason(who) == IF who = Target THEN "TARGET" ELSE "SUBSCRIPTION"

Held(row, reason) == [row EXCEPT !.status = "HELD", !.hold = reason]

\* The ends that erase the body.
Closed(row, status) == [row EXCEPT !.status = status, !.body = FALSE]

Failed(row, now) == [row EXCEPT !.status = "FAILED", !.completed = now]

\* Back to the queue, due at `next`.
Queued(row, next) ==
  [row EXCEPT !.status = "PENDING", !.hold = "NONE", !.next = next]

\* updateMany: the rows its condition selects are replaced, the others stay.
Write(rows, new) ==
  run' = [r \in Runs |-> IF r \in rows THEN new[r] ELSE run[r]]

With(statuses) == {r \in Runs : run[r].status \in statuses}
HeldBy(reason) == [r \in Runs |-> Held(run[r], reason)]
ClosedAs(status) == [r \in Runs |-> Closed(run[r], status)]

RowsOf(who) == {r \in Runs : who \in {Target, run[r].origin}}

HoldExpired(r, now) == run[r].created + HoldMax < now

-----------------------------------------------------------------------------
(* Enqueueing                                                              *)

\* A new row as the writer inserts it; the dedupe key absorbs a replay.
Insert(r, origin, decision) ==
  run' = IF run[r].status # "ABSENT" THEN run
         ELSE [run EXCEPT ![r] =
                [NoRow EXCEPT
                   !.origin = origin,
                   !.status = CASE decision = "skip" -> "SKIPPED"
                                [] decision = "hold" -> "HELD"
                                [] OTHER -> "PENDING",
                   !.hold = IF decision = "hold" THEN Reason(origin) ELSE "NONE",
                   !.body = decision # "skip",
                   !.next = clock,
                   !.created = clock]]

\* enqueueNodeEmissions reads the target, then inserts.  A missing binding or
\* secret, the limit of the session or the size of the body skip a run too.
NodeRead(q, r) ==
  /\ request[q].op = "none"
  /\ run[r].status = "ABSENT"
  /\ clock <= LastUse
  /\ \E decision \in {Admission(Target \in paused), "skip"} :
       request' = [request EXCEPT ![q] =
                     [NoRequest EXCEPT !.op = "node", !.cur = r, !.saw = decision]]
  /\ UNCHANGED <<clock, table, cached, tickAt, job, ghosts, budget>>

Respond(q) == request' = [request EXCEPT ![q] = NoRequest]

NodeInsert(q) ==
  /\ request[q].op = "node"
  /\ Insert(request[q].cur, Target, request[q].saw)
  /\ Respond(q)
  /\ UNCHANGED <<clock, paused, exists, enabled, cached, tickAt, job, ghosts, budget>>

\* enqueueEvent decides from the cached snapshot alone.  A held event always
\* carries the reason of its subscription.
EventInsert(s, r) ==
  /\ cached[s] # "absent"
  /\ run[r].status = "ABSENT"
  /\ clock <= LastUse
  /\ \E decision \in {cached[s], "skip"} : Insert(r, s, decision)
  /\ UNCHANGED <<clock, paused, exists, enabled, cached, tickAt, job, request,
                 ghosts, budget>>

\* The time to live is over, or this instance saved a target or subscription.
RefreshCache ==
  /\ cached # Snapshot
  /\ cached' = Snapshot
  /\ UNCHANGED <<clock, table, tickAt, job, request, ghosts, budget>>

-----------------------------------------------------------------------------
(* The dispatch tick                                                       *)

\* Slips: a lease ends the moment it is given; it never ends.
LeaseExpired_AtOnce(r, now) == now >= run[r].claimedAt
LeaseExpired_Never(r, now) == now > MaxTime + Lease

LeaseExpired(r, now) == now > run[r].claimedAt + Lease

Due(now) == {r \in With({"PENDING"}) : run[r].next <= now}
Abandoned(now) == {r \in With({"SENDING"}) : LeaseExpired(r, now)}

Jobs(i, steps) == {r \in Runs : job[i][r].step \in steps}
Resting(i) == Jobs(i, {"none"}) = Runs

\* The query for candidates: due runs and runs whose lease is over.
TickRead(i) ==
  /\ Resting(i)
  /\ Due(clock) \cup Abandoned(clock) # {}
  /\ tickAt' = [tickAt EXCEPT ![i] = clock]
  /\ job' = [job EXCEPT ![i] =
       [r \in Runs |->
          CASE r \in Due(clock) -> [NoJob EXCEPT !.step = "ready"]
            [] r \in Abandoned(clock) ->
                 [NoJob EXCEPT !.step = "recover", !.token = run[r].token,
                    !.attempts = run[r].attempts]
            [] OTHER -> NoJob]]
  /\ UNCHANGED <<clock, table, cached, request, ghosts, budget>>

Done(i, r) == job' = [job EXCEPT ![i][r] = NoJob]

\* Slip: the token is not compared.
Owner_AnyToken(i, r) == run[r].status = "SENDING"

Owner(i, r) == run[r].status = "SENDING" /\ run[r].token = job[i][r].token

\* Slip: a recovery never gives up.
RecoverExpired_Endless(i, r) ==
  /\ job[i][r].step = "recover"
  /\ run' = IF Owner(i, r)
            THEN [run EXCEPT ![r] = Queued(run[r], tickAt[i])] ELSE run
  /\ Done(i, r)
  /\ UNCHANGED <<clock, paused, exists, enabled, cached, tickAt, request, ghosts, budget>>

\* recoverExpired: back to the queue, or FAILED at the cap of the process
\* (the lower limit of the target is not looked at).
RecoverExpired(i, r) ==
  /\ job[i][r].step = "recover"
  /\ run' = IF ~ Owner(i, r) THEN run
            ELSE IF job[i][r].attempts >= AttemptCap
                 THEN [run EXCEPT ![r] = Failed(run[r], tickAt[i])]
                 ELSE [run EXCEPT ![r] = Queued(run[r], tickAt[i])]
  /\ Done(i, r)
  /\ UNCHANGED <<clock, paused, exists, enabled, cached, tickAt, request, ghosts, budget>>

\* Slip: the runs that are being sent already are not counted.
Room_Full == Concurrent

Room == LET sending == Cardinality(With({"SENDING"})) IN
        IF sending >= Concurrent THEN 0 ELSE Concurrent - sending

\* planClaims for a target that sends: the earliest runs, as many as there is
\* room for; the others wait for a later tick.
Admitted(i, claims) ==
  LET ready == Jobs(i, {"ready"}) IN
  /\ claims \subseteq ready
  /\ Cardinality(claims) =
       (IF Room < Cardinality(ready) THEN Room ELSE Cardinality(ready))
  /\ \A c \in claims, d \in ready \ claims : run[c].next <= run[d].next

\* The queries for the state and the load of the target, then planClaims.
PlanClaims(i) ==
  /\ Jobs(i, {"recover"}) = {}
  /\ Jobs(i, {"ready"}) # {}
  /\ \E claims \in SUBSET Jobs(i, {"ready"}) :
       /\ Admitted(i, claims)
       /\ job' = [job EXCEPT ![i] =
            [r \in Runs |->
               IF job[i][r].step # "ready" THEN job[i][r]
               ELSE IF ~ enabled \/ Target \notin exists
               THEN [job[i][r] EXCEPT !.step = "skip"]
               ELSE IF Target \in paused
               THEN [job[i][r] EXCEPT !.step = "hold"]
               ELSE IF r \in claims
               THEN [job[i][r] EXCEPT !.step = "claim"]
               ELSE NoJob]]
  /\ UNCHANGED <<clock, table, cached, tickAt, request, ghosts, budget>>

HoldAtClaim(i, r) ==
  /\ job[i][r].step = "hold"
  /\ Write({r} \cap With({"PENDING"}), HeldBy("TARGET"))
  /\ Done(i, r)
  /\ UNCHANGED <<clock, paused, exists, enabled, cached, tickAt, request, ghosts, budget>>

SkipAtClaim(i, r) ==
  /\ job[i][r].step = "skip"
  /\ Write({r} \cap With({"PENDING"}), ClosedAs("SKIPPED"))
  /\ Done(i, r)
  /\ UNCHANGED <<clock, paused, exists, enabled, cached, tickAt, request, ghosts, budget>>

\* claim: dated with the start of the tick; the token is a fresh UUID.
Claim(i, r) ==
  /\ job[i][r].step = "claim"
  /\ IF run[r].status = "PENDING" /\ run[r].next <= tickAt[i]
     THEN /\ run' = [run EXCEPT ![r].status = "SENDING", ![r].token = @ + 1,
                       ![r].claimedAt = tickAt[i], ![r].attempts = @ + 1]
          /\ job' = [job EXCEPT ![i][r] =
                       [NoJob EXCEPT !.step = "claimed", !.token = run[r].token + 1,
                          !.attempts = run[r].attempts + 1]]
     ELSE Done(i, r) /\ UNCHANGED run
  /\ UNCHANGED <<clock, paused, exists, enabled, cached, tickAt, request, ghosts, budget>>

Answer(i, r, outcome) ==
  job' = [job EXCEPT ![i][r].step = "answered", ![i][r].outcome = outcome]

\* A body that cannot be opened or a target that is gone ends without a post.
ReadTarget(i, r) ==
  /\ job[i][r].step = "claimed"
  /\ \/ /\ Target \in exists
        /\ job' = [job EXCEPT ![i][r].step = "sending"]
     \/ Answer(i, r, "PERMANENT")
  /\ UNCHANGED <<clock, table, cached, tickAt, request, ghosts, budget>>

\* The post and its answer: only a 2xx counts as accepted.
Send(i, r) ==
  /\ job[i][r].step = "sending"
  /\ \E outcome \in {"SUCCESS", "RETRY", "PERMANENT"} :
       /\ Answer(i, r, outcome)
       /\ accepted' = IF outcome = "SUCCESS"
                      THEN [accepted EXCEPT ![r] = @ + 1] ELSE accepted
  /\ UNCHANGED <<clock, table, cached, tickAt, request, lost, budget>>

\* The receiver accepts, but its answer comes after the time limit.
SendLate(i, r) ==
  /\ job[i][r].step = "sending"
  /\ Spend("late")
  /\ Answer(i, r, "RETRY")
  /\ accepted' = [accepted EXCEPT ![r] = @ + 1]
  /\ lost' = [lost EXCEPT ![r] = @ + 1]
  /\ UNCHANGED <<clock, table, cached, tickAt, request>>

LastAttempt(i, r) == job[i][r].attempts >= TargetAttempts \/ job[i][r].attempts >= AttemptCap

\* finalizeSuccess, finalizePermanent, finalizeRetry: with the token, or the
\* answer is dropped.
Recorded(i, r) ==
  LET o == job[i][r].outcome IN
  IF ~ Owner(i, r) THEN run[r]
  ELSE IF o = "SUCCESS" THEN Closed(run[r], "SUCCEEDED")
  ELSE IF o = "PERMANENT" \/ LastAttempt(i, r) THEN Failed(run[r], tickAt[i])
  ELSE Queued(run[r], tickAt[i] + Backoff)

Finalize(i, r) ==
  /\ job[i][r].step = "answered"
  /\ run' = [run EXCEPT ![r] = Recorded(i, r)]
  /\ Done(i, r)
  /\ UNCHANGED <<clock, paused, exists, enabled, cached, tickAt, request, ghosts, budget>>

\* The process dies, or a statement meets a busy database and the tick fails:
\* what it had in memory is gone, acceptances it had not written included.
Crash(i) ==
  /\ ~ Resting(i)
  /\ Spend("crashes")
  /\ job' = [job EXCEPT ![i] = [r \in Runs |-> NoJob]]
  /\ lost' = [r \in Runs |->
                IF job[i][r].step = "answered" /\ job[i][r].outcome = "SUCCESS"
                THEN lost[r] + 1 ELSE lost[r]]
  /\ UNCHANGED <<clock, table, cached, tickAt, request, accepted>>

\* Every twelfth tick: held runs that are too old, bodies kept long enough.
ExpireOverdueHolds ==
  LET overdue == {r \in With({"HELD"}) : HoldExpired(r, clock)} IN
  /\ overdue # {}
  /\ Write(overdue, ClosedAs("EXPIRED"))
  /\ UNCHANGED <<clock, paused, exists, enabled, cached, tickAt, job, request,
                 ghosts, budget>>

\* Slip: any old body is erased, not only that of a failed run.
KeptLongEnough_AnyStatus(r) == run[r].body /\ run[r].completed + Retention < clock

KeptLongEnough(r) ==
  /\ run[r].status = "FAILED"
  /\ run[r].body
  /\ run[r].completed + Retention < clock

PurgeFailedPayloads ==
  /\ \E r \in Runs : KeptLongEnough(r)
  /\ run' = [r \in Runs |-> IF KeptLongEnough(r)
                            THEN [run[r] EXCEPT !.body = FALSE] ELSE run[r]]
  /\ UNCHANGED <<clock, paused, exists, enabled, cached, tickAt, job, request,
                 ghosts, budget>>

-----------------------------------------------------------------------------
(* The console                                                             *)

Begin(q, op, who) ==
  /\ request[q].op = "none"
  /\ Spend("requests")
  /\ request' = [request EXCEPT ![q] =
                   [NoRequest EXCEPT !.op = op, !.who = who]]

\* pauseTarget, pauseSubscription: first the mark, then the waiting runs.
Pause(q, who) ==
  /\ who \in exists \ paused
  /\ Begin(q, "pause", who)
  /\ paused' = paused \cup {who}
  /\ UNCHANGED <<clock, run, exists, enabled, cached, tickAt, job, ghosts>>

PauseHold(q) ==
  LET who == request[q].who IN
  /\ request[q].op = "pause"
  /\ Write(RowsOf(who) \cap With({"PENDING"}), HeldBy(Reason(who)))
  /\ Respond(q)
  /\ UNCHANGED <<clock, paused, exists, enabled, cached, tickAt, job, ghosts, budget>>

\* resumeTarget, resumeSubscription: the mark goes, the runs held for this
\* owner are listed, then each of them is decided and written.
Resume(q, who) ==
  /\ who \in paused
  /\ Begin(q, "resume", who)
  /\ paused' = paused \ {who}
  /\ UNCHANGED <<clock, run, exists, enabled, cached, tickAt, job, ghosts>>

ResumeList(q) ==
  LET who == request[q].who IN
  /\ request[q].op = "resume"
  /\ request' = [request EXCEPT
       ![q].op = "release",
       ![q].rest = {r \in RowsOf(who) :
                      run[r].status = "HELD" /\ run[r].hold = Reason(who)}]
  /\ UNCHANGED <<clock, table, cached, tickAt, job, ghosts, budget>>

\* The other owner a run depends on: its subscription, or the target.
Other(q, r) == IF request[q].who = Target THEN run[r].origin ELSE Target

\* The look at the other owner, a query of its own.
ReleaseRead(q, r) ==
  /\ request[q].op = "release"
  /\ request[q].cur = NoRun
  /\ r \in request[q].rest
  /\ request' = [request EXCEPT
       ![q].cur = r,
       ![q].rest = @ \ {r},
       ![q].saw = IF Other(q, r) # request[q].who /\ Other(q, r) \in paused
                  THEN "hold" ELSE "send"]
  /\ UNCHANGED <<clock, table, cached, tickAt, job, ghosts, budget>>

\* Slip: a released run is queued whatever became of it.
StillHeld_Unchecked(r) == TRUE

StillHeld(r) == run[r].status = "HELD"

ReleaseWrite(q) ==
  LET r == request[q].cur
      row == run[r]
      released == IF HoldExpired(r, clock) THEN Closed(row, "EXPIRED")
                  ELSE IF request[q].saw = "hold"
                       THEN [row EXCEPT !.hold = Reason(Other(q, r))]
                       ELSE Queued(row, clock)
  IN
  /\ request[q].op = "release"
  /\ r # NoRun
  /\ run' = IF StillHeld(r) THEN [run EXCEPT ![r] = released] ELSE run
  /\ request' = [request EXCEPT ![q].cur = NoRun]
  /\ UNCHANGED <<clock, paused, exists, enabled, cached, tickAt, job, ghosts, budget>>

ReleaseEnd(q) ==
  /\ request[q].op = "release"
  /\ request[q].cur = NoRun
  /\ request[q].rest = {}
  /\ Respond(q)
  /\ UNCHANGED <<clock, table, cached, tickAt, job, ghosts, budget>>

\* WorkflowTargetsService.update, as far as it concerns the outbox.
SetEnabled ==
  /\ Target \in exists
  /\ Spend("requests")
  /\ enabled' = ~ enabled
  /\ UNCHANGED <<clock, run, paused, exists, cached, tickAt, job, request, ghosts>>

\* Deleting a subscription leaves its runs as they are.
RemoveSubscription(s) ==
  /\ s \in exists
  /\ Spend("requests")
  /\ exists' = exists \ {s}
  /\ paused' = paused \ {s}
  /\ UNCHANGED <<clock, run, enabled, cached, tickAt, job, request, ghosts>>

\* A target nobody refers to is deleted together with its waiting runs.
RemoveTarget ==
  /\ exists = {Target}
  /\ Spend("requests")
  /\ exists' = {}
  /\ paused' = {}
  /\ Write(With(Waiting), ClosedAs("CANCELLED"))
  /\ UNCHANGED <<clock, enabled, cached, tickAt, job, request, ghosts>>

Retryable(r) == run[r].status = "FAILED" /\ run[r].body

\* retryManual of one run: the attempts start again.
RetryManual(r) ==
  /\ Retryable(r)
  /\ Spend("retries")
  /\ run' = [run EXCEPT ![r] = [Queued(run[r], clock) EXCEPT !.attempts = 0]]
  /\ UNCHANGED <<clock, paused, exists, enabled, cached, tickAt, job, request, ghosts>>

CancelManual(r) ==
  /\ r \in With(Waiting)
  /\ Spend("retries")
  /\ Write({r}, ClosedAs("CANCELLED"))
  /\ UNCHANGED <<clock, paused, exists, enabled, cached, tickAt, job, request, ghosts>>

-----------------------------------------------------------------------------
\* Time passes.  A live tick ends within TickSpan, a console call within the
\* unit it began in, and a snapshot of the subscriptions does not live longer
\* than a unit.
Advance ==
  /\ clock < MaxTime
  /\ \A i \in Instances : Resting(i) \/ clock < tickAt[i] + TickSpan
  /\ \A q \in Requests : request[q].op = "none"
  /\ clock' = clock + 1
  /\ cached' = Snapshot
  /\ UNCHANGED <<table, tickAt, job, request, ghosts, budget>>

DispatchStep(i) ==
  \/ TickRead(i)
  \/ PlanClaims(i)
  \/ \E r \in Runs : \/ RecoverExpired(i, r) \/ HoldAtClaim(i, r)
                     \/ SkipAtClaim(i, r) \/ Claim(i, r)
                     \/ ReadTarget(i, r) \/ Send(i, r) \/ Finalize(i, r)

Maintenance == ExpireOverdueHolds \/ PurgeFailedPayloads

RequestStep(q) ==
  \/ NodeInsert(q) \/ PauseHold(q) \/ ResumeList(q)
  \/ \E r \in Runs : ReleaseRead(q, r)
  \/ ReleaseWrite(q) \/ ReleaseEnd(q)

RequestStart(q) ==
  \/ \E r \in Runs : NodeRead(q, r)
  \/ \E who \in Owners : Pause(q, who) \/ Resume(q, who)

Console ==
  \/ SetEnabled
  \/ \E s \in Subscriptions : RemoveSubscription(s)
  \/ RemoveTarget
  \/ \E r \in Runs : RetryManual(r) \/ CancelManual(r)

Next ==
  \/ \E i \in Instances : DispatchStep(i) \/ Crash(i)
  \/ \E i \in Instances, r \in Runs : SendLate(i, r)
  \/ \E q \in Requests : RequestStart(q) \/ RequestStep(q)
  \/ \E s \in Subscriptions, r \in Runs : EventInsert(s, r)
  \/ Console
  \/ RefreshCache
  \/ Maintenance
  \/ Advance

Spec == Init /\ [][Next]_vars

\* The loop polls several times in a unit: time passes only when every
\* instance that rests has looked at the outbox in this unit.
Polled(i) ==
  \/ ~ Resting(i)
  \/ tickAt[i] = clock
  \/ Due(clock) \cup Abandoned(clock) = {}

PromptAdvance == Advance /\ \A i \in Instances : Polled(i)

\* The loops and the maintenance run again and again, the clock runs, and a
\* console call that was started goes on to its end.
Fairness ==
  /\ WF_vars(PromptAdvance)
  /\ \A i \in Instances : WF_vars(DispatchStep(i))
  /\ WF_vars(Maintenance)
  /\ \A q \in Requests : WF_vars(RequestStep(q))

FairSpec ==
  /\ Init
  /\ [][Next /\ (clock' # clock => PromptAdvance)]_vars
  /\ Fairness

-----------------------------------------------------------------------------
(* Properties                                                              *)

RowType == [status : Open \cup Ended \cup {"ABSENT"},
            hold : {"NONE", "TARGET", "SUBSCRIPTION"},
            origin : Owners, body : BOOLEAN, next : Nat, attempts : Nat,
            token : Nat, claimedAt : Nat, created : Nat, completed : Nat]

JobType == [step : {"none", "recover", "ready", "hold", "skip", "claim",
                    "claimed", "sending", "answered"},
            token : Nat, attempts : Nat,
            outcome : {"NONE", "SUCCESS", "RETRY", "PERMANENT"}]

RequestType == [op : {"none", "node", "pause", "resume", "release"},
                who : Owners \cup {NoOwner}, rest : SUBSET Runs,
                cur : Runs \cup {NoRun}, saw : {"send", "hold", "skip"}]

\* Every variable keeps its shape; an enqueue names a run, a pause or a resume
\* names an owner.
TypeOK ==
  /\ clock \in Nat
  /\ run \in [Runs -> RowType]
  /\ exists \subseteq Owners /\ paused \subseteq exists
  /\ enabled \in BOOLEAN
  /\ cached \in [Subscriptions -> {"absent", "skip", "hold", "send"}]
  /\ tickAt \in [Instances -> Nat]
  /\ job \in [Instances -> [Runs -> JobType]]
  /\ request \in [Requests -> RequestType]
  /\ \A q \in Requests :
       /\ request[q].op = "node" => request[q].cur \in Runs
       /\ request[q].op \in {"pause", "resume", "release"} => request[q].who \in Owners
  /\ accepted \in [Runs -> Nat]
  /\ lost \in [Runs -> Nat]
  /\ budget \in [requests : Nat, retries : Nat, crashes : Nat, late : Nat]

\* The receiver accepts a run once, and once more for every acceptance that a
\* crash or a late answer kept from being recorded: never because of an
\* overlap of instances, a lease, a pause, a resend or a cancel.  A run shown
\* as sent was accepted; one that is not sent or being sent was accepted only
\* where the acceptance was lost.
DeliveredOnce ==
  \A r \in Runs :
    /\ accepted[r] <= lost[r] + (IF run[r].status \in {"SENDING", "SUCCEEDED"}
                                 THEN 1 ELSE 0)
    /\ run[r].status = "SUCCEEDED" => accepted[r] > 0

\* Whatever recoveries, retries and resends happen, a run is attempted no more
\* often than the cap, and one that waits has an attempt left.
AttemptsBounded ==
  \A r \in Runs :
    /\ run[r].attempts <= AttemptCap
    /\ run[r].status = "PENDING" => run[r].attempts < AttemptCap

\* A run that waits or is being sent has its body; a run that was sent,
\* skipped, cancelled or expired has none (personal data is not kept).
BodyKeptWhileOpen ==
  \A r \in Runs :
    /\ run[r].status \in Open => run[r].body
    /\ run[r].status \in Ended \ {"FAILED"} => ~ run[r].body

\* A run that has ended stays as it ended, except that a FAILED one which still
\* has its body can be sent again.
EndIsFinal ==
  [][\A r \in Runs :
       run[r].status \in Ended /\ run'[r].status # run[r].status
         => run[r].status = "FAILED" /\ run[r].body /\ run'[r].status = "PENDING"]_vars

\* The stage in the life of a message that a status stands for.
Stage(status) ==
  CASE status = "ABSENT" -> "none"
    [] status \in Waiting -> "waiting"
    [] status = "SENDING" -> "sending"
    [] status = "SUCCEEDED" -> "sent"
    [] status = "FAILED" -> "failed"
    [] OTHER -> "dropped"

Life(r) == [stage |-> Stage(run[r].status),
            received |-> accepted[r], unheard |-> lost[r]]

Contract == INSTANCE MessageDelivery WITH
  Messages <- Runs,
  life <- [r \in Runs |-> Life(r)]

\* Whatever leases, tokens, crashes, pauses and calls do, each run lives the life
\* of a message: it is posted again only while no acceptance was heard, nobody
\* but its sender ends it while it is being sent, and it is reported as sent
\* exactly if an acceptance was heard.
DeliverySpec == Contract!Spec

\* With one instance, no more runs of the target are SENDING than allowed.
ConcurrencyKept == Cardinality(With({"SENDING"})) <= Concurrent

\* No run is forgotten: whatever is enqueued is sent, fails, is skipped,
\* cancelled or expires, also when its sender dies or it is held.
EveryRunEnds ==
  \A r \in Runs : run[r].status \in Open ~> run[r].status \in Ended

-----------------------------------------------------------------------------
(* A statement of the design that the code does not keep                   *)

Quiet == /\ \A i \in Instances : Resting(i)
         /\ \A q \in Requests : request[q].op = "none"

\* "Held while paused, sent after the resume": when no call and no tick is
\* under way, a run that is held has a paused target or a paused subscription.
HeldOnlyWhilePaused ==
  Quiet => \A r \in With({"HELD"}) :
             run[r].origin \in exists => paused \cap {Target, run[r].origin} # {}
=============================================================================
