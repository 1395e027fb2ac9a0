------------------------- MODULE WorkflowOutboxProofs -------------------------
(***************************************************************************)
(* Theorems about WorkflowOutbox, for any number of runs, subscriptions,   *)
(* instances and calls and any bounds: types, the claim of a live sender,  *)
(* delivery, attempts, bodies and final states; and, for one instance, the *)
(* limit of the target.                                                    *)
(***************************************************************************)
EXTENDS WorkflowOutbox, FiniteSetTheorems, TLAPS

BudgetType == [requests : Nat, retries : Nat, crashes : Nat, late : Nat]

Rows == [Runs -> RowType]
JobTable == [Instances -> [Runs -> JobType]]

RequestOK(req) ==
  /\ req \in RequestType
  /\ req.op = "node" => req.cur \in Runs
  /\ req.op \in {"pause", "resume", "release"} => req.who \in Owners

Decisions == {"send", "hold", "skip"}

-----------------------------------------------------------------------------
(* Types                                                                   *)

\* The bounds are natural numbers.
LEMMA Bounds ==
  /\ Lease \in Nat /\ TickSpan \in Nat /\ Backoff \in Nat
  /\ AttemptCap \in Nat \ {0} /\ TargetAttempts \in Nat \ {0}
  /\ MaxRequests \in Nat /\ MaxRetries \in Nat
  /\ MaxCrashes \in Nat /\ MaxLate \in Nat
  /\ TickSpan <= Lease
BY OutboxAssumption, SendLeaseAssumption DEF OutboxAssumption

\* What the transitions of a row make of a row.
LEMMA RowForms ==
  ASSUME NEW row \in RowType, NEW n \in Nat, NEW who \in Owners
  PROVE  /\ Held(row, "TARGET") \in RowType
         /\ Held(row, Reason(who)) \in RowType
         /\ [row EXCEPT !.hold = Reason(who)] \in RowType
         /\ \A status \in Ended : Closed(row, status) \in RowType
         /\ Failed(row, n) \in RowType
         /\ Queued(row, n) \in RowType
         /\ [row EXCEPT !.body = FALSE] \in RowType
         /\ [Queued(row, n) EXCEPT !.attempts = 0] \in RowType
<1>1. Reason(who) \in {"NONE", "TARGET", "SUBSCRIPTION"}
  BY DEF Reason
<1>2. Held(row, "TARGET") \in RowType /\ Held(row, Reason(who)) \in RowType
  BY <1>1 DEF Held, RowType, Open, Waiting
<1>3. \A status \in Ended : Closed(row, status) \in RowType
  BY DEF Closed, RowType
<1>4. Failed(row, n) \in RowType
  BY DEF Failed, RowType, Ended
<1>5. Queued(row, n) \in RowType
  BY DEF Queued, RowType, Open, Waiting
<1>6. [Queued(row, n) EXCEPT !.attempts = 0] \in RowType
  <2>1. ASSUME NEW q \in RowType PROVE [q EXCEPT !.attempts = 0] \in RowType
    BY DEF RowType
  <2>2. QED
    BY <1>5, <2>1
<1>7. [row EXCEPT !.hold = Reason(who)] \in RowType
  BY <1>1 DEF RowType
<1>8. [row EXCEPT !.body = FALSE] \in RowType
  BY DEF RowType
<1>9. QED
  BY <1>2, <1>3, <1>4, <1>5, <1>6, <1>7, <1>8

\* Replacing rows by rows.
LEMMA WriteType ==
  ASSUME TypeOK, NEW rows, NEW new, \A r \in rows \cap Runs : new[r] \in RowType,
         Write(rows, new)
  PROVE  run' \in Rows
BY DEF TypeOK, Write, Rows

\* A new row is a row, a decision decides.
LEMMA InsertType ==
  ASSUME TypeOK, NEW r \in Runs, NEW origin \in Owners, NEW decision \in Decisions,
         Insert(r, origin, decision)
  PROVE  run' \in Rows
<1>1. CASE run[r].status # "ABSENT"
  BY <1>1 DEF Insert, TypeOK, Rows
<1>2. CASE run[r].status = "ABSENT"
  <2> DEFINE status == CASE decision = "skip" -> "SKIPPED"
                         [] decision = "hold" -> "HELD"
                         [] OTHER -> "PENDING"
             reason == IF decision = "hold" THEN Reason(origin) ELSE "NONE"
             new == [NoRow EXCEPT
                       !.origin = origin, !.status = status, !.hold = reason,
                       !.body = decision # "skip", !.next = clock,
                       !.created = clock]
  <2>1. status \in {"SKIPPED", "HELD", "PENDING"}
    BY DEF Decisions
  <2>2. reason \in {"NONE", "TARGET", "SUBSCRIPTION"}
    BY DEF Reason
  <2>3. clock \in Nat
    BY DEF TypeOK
  <2>4. run' = [run EXCEPT ![r] = new]
    BY <1>2 DEF Insert
  <2>5. new \in RowType
    <3> HIDE DEF status, reason
    <3> QED
      BY <2>1, <2>2, <2>3 DEF NoRow, RowType, Open, Waiting, Ended
  <2>6. QED
    <3> HIDE DEF new
    <3> QED
      BY <2>4, <2>5 DEF TypeOK, Rows
<1>3. QED
  BY <1>1, <1>2

\* The cached flags and the decisions of an enqueue.
LEMMA SnapshotType ==
  /\ \A p \in BOOLEAN : Admission(p) \in Decisions
  /\ Snapshot \in [Subscriptions -> Decisions \cup {"absent"}]
BY DEF Snapshot, Admission, Decisions

LEMMA SpendType ==
  ASSUME TypeOK, NEW kind \in {"requests", "retries", "crashes", "late"}, Spend(kind)
  PROVE  budget' \in BudgetType
BY DEF TypeOK, Spend, BudgetType

\* Steps that only write rows.
LEMMA RowsOnly ==
  ASSUME TypeOK, run' \in Rows,
         UNCHANGED <<clock, paused, exists, enabled, cached, tickAt, job, request, ghosts>>,
         budget' \in BudgetType
  PROVE  TypeOK'
BY DEF TypeOK, Rows, BudgetType, ghosts

\* Steps of a tick.
LEMMA TicksOnly ==
  ASSUME TypeOK, run' \in Rows, job' \in JobTable,
         tickAt' \in [Instances -> Nat],
         accepted' \in [Runs -> Nat], lost' \in [Runs -> Nat],
         UNCHANGED <<clock, paused, exists, enabled, cached, request>>,
         budget' \in BudgetType
  PROVE  TypeOK'
BY DEF TypeOK, Rows, BudgetType, JobTable

\* Steps of a call or an enqueue.
LEMMA CallsOnly ==
  ASSUME TypeOK, run' \in Rows, paused' \subseteq exists,
         NEW q \in Requests, NEW req, RequestOK(req),
         request' = [request EXCEPT ![q] = req],
         UNCHANGED <<clock, exists, enabled, cached, tickAt, job, ghosts>>,
         budget' \in BudgetType
  PROVE  TypeOK'
<1>1. request' \in [Requests -> RequestType]
  BY DEF TypeOK, RequestOK
<1>2. \A p \in Requests : RequestOK(request'[p])
  BY DEF TypeOK, RequestOK
<1>3. QED
  BY <1>1, <1>2 DEF TypeOK, Rows, BudgetType, ghosts, RequestOK

LEMMA NoRequestOK == RequestOK(NoRequest)
BY DEF NoRequest, RequestOK, RequestType

\* What is left as it is keeps its type.
LEMMA Parts ==
  ASSUME TypeOK
  PROVE  /\ run \in Rows /\ job \in JobTable /\ tickAt \in [Instances -> Nat]
         /\ clock \in Nat /\ budget \in BudgetType
         /\ accepted \in [Runs -> Nat] /\ lost \in [Runs -> Nat]
BY DEF TypeOK, Rows, JobTable, BudgetType

\* The jobs of a tick: one job changes, or all of one instance.
LEMMA JobForms ==
  ASSUME TypeOK, NEW i \in Instances
  PROVE  /\ NoJob \in JobType
         /\ \A jobs \in [Runs -> JobType] : [job EXCEPT ![i] = jobs] \in JobTable
         /\ \A r \in Runs, new \in JobType : [job EXCEPT ![i][r] = new] \in JobTable
         /\ \A j \in JobType : /\ [j EXCEPT !.step = "skip"] \in JobType
                               /\ [j EXCEPT !.step = "hold"] \in JobType
                               /\ [j EXCEPT !.step = "claim"] \in JobType
                               /\ [j EXCEPT !.step = "ready"] \in JobType
                               /\ [j EXCEPT !.step = "sending"] \in JobType
                               /\ \A o \in {"SUCCESS", "RETRY", "PERMANENT"} :
                                    [j EXCEPT !.step = "answered", !.outcome = o]
                                      \in JobType
         /\ \A r \in Runs : job[i][r] \in JobType
BY ZenonT(60) DEF TypeOK, NoJob, JobType, JobTable

LEMMA DoneType ==
  ASSUME TypeOK, NEW i \in Instances, NEW r \in Runs, Done(i, r)
  PROVE  job' \in JobTable
BY JobForms DEF Done

LEMMA AnswerType ==
  ASSUME TypeOK, NEW i \in Instances, NEW r \in Runs,
         NEW outcome \in {"SUCCESS", "RETRY", "PERMANENT"}, Answer(i, r, outcome)
  PROVE  job' \in JobTable
<1> DEFINE new == [job[i][r] EXCEPT !.step = "answered", !.outcome = outcome]
<1>1. job' = [job EXCEPT ![i][r] = new]
  BY DEF Answer, TypeOK, JobType
<1>2. new \in JobType
  BY JobForms
<1>3. QED
  <2> HIDE DEF new
  <2> QED
    BY <1>1, <1>2, JobForms

\* One row is replaced.
LEMMA RowReplaced ==
  ASSUME TypeOK, NEW r \in Runs, NEW new \in RowType, run' = [run EXCEPT ![r] = new]
  PROVE  run' \in Rows
BY DEF TypeOK, Rows

LEMMA HeldByType ==
  ASSUME TypeOK, NEW who \in Owners, NEW status \in Ended
  PROVE  /\ \A r \in Runs : HeldBy("TARGET")[r] \in RowType
         /\ \A r \in Runs : HeldBy(Reason(who))[r] \in RowType
         /\ \A r \in Runs : ClosedAs(status)[r] \in RowType
<1>1. 0 \in Nat /\ \A r \in Runs : run[r] \in RowType
  BY DEF TypeOK
<1>2. QED
  BY <1>1, RowForms DEF HeldBy, ClosedAs

LEMMA OwnerFacts == Target \in Owners /\ Subscriptions \subseteq Owners
BY DEF Owners

\* The steps of a tick keep the types.
LEMMA DispatchType ==
  ASSUME TypeOK, NEW i \in Instances, DispatchStep(i)
  PROVE  TypeOK'
<1>1. CASE TickRead(i)
  <2> DEFINE jobs == [r \in Runs |->
          CASE r \in Due(clock) -> [NoJob EXCEPT !.step = "ready"]
            [] r \in Abandoned(clock) ->
                 [NoJob EXCEPT !.step = "recover", !.token = run[r].token,
                    !.attempts = run[r].attempts]
            [] OTHER -> NoJob]
  <2>1. \A r \in Runs : run[r].token \in Nat /\ run[r].attempts \in Nat
    BY DEF TypeOK, RowType
  <2>2. \A t, a \in Nat :
          [NoJob EXCEPT !.step = "recover", !.token = t, !.attempts = a] \in JobType
    BY DEF NoJob, JobType
  <2>3. NoJob \in JobType /\ [NoJob EXCEPT !.step = "ready"] \in JobType
    BY JobForms
  <2>4. jobs \in [Runs -> JobType]
    BY <2>1, <2>2, <2>3
  <2>5. job' = [job EXCEPT ![i] = jobs]
    BY <1>1 DEF TickRead
  <2>6. job' \in JobTable
    <3> HIDE DEF jobs
    <3> QED
      BY <2>4, <2>5, JobForms
  <2>7. tickAt' \in [Instances -> Nat]
    BY <1>1, Parts DEF TickRead
  <2>8. QED
    BY <1>1, <2>6, <2>7, Parts, TicksOnly DEF TickRead, table, ghosts
<1>2. CASE PlanClaims(i)
  <2>1. PICK claims \in SUBSET Jobs(i, {"ready"}) :
          job' = [job EXCEPT ![i] =
            [r \in Runs |->
               IF job[i][r].step # "ready" THEN job[i][r]
               ELSE IF ~ enabled \/ Target \notin exists
               THEN [job[i][r] EXCEPT !.step = "skip"]
               ELSE IF Target \in paused
               THEN [job[i][r] EXCEPT !.step = "hold"]
               ELSE IF r \in claims
               THEN [job[i][r] EXCEPT !.step = "claim"]
               ELSE NoJob]]
    BY <1>2 DEF PlanClaims
  <2> DEFINE jobs ==
            [r \in Runs |->
               IF job[i][r].step # "ready" THEN job[i][r]
               ELSE IF ~ enabled \/ Target \notin exists
               THEN [job[i][r] EXCEPT !.step = "skip"]
               ELSE IF Target \in paused
               THEN [job[i][r] EXCEPT !.step = "hold"]
               ELSE IF r \in claims
               THEN [job[i][r] EXCEPT !.step = "claim"]
               ELSE NoJob]
  <2>2. jobs \in [Runs -> JobType]
    BY JobForms
  <2>3. job' \in JobTable
    <3>1. job' = [job EXCEPT ![i] = jobs]
      BY <2>1
    <3> HIDE DEF jobs
    <3>2. QED
      BY <2>2, <3>1, JobForms
  <2>4. QED
    BY <1>2, <2>3, Parts, TicksOnly DEF PlanClaims, table, ghosts
<1>3. CASE \E r \in Runs : RecoverExpired(i, r)
  <2>1. PICK r \in Runs : RecoverExpired(i, r)
    BY <1>3
  <2>2. run[r] \in RowType /\ tickAt[i] \in Nat
    BY DEF TypeOK
  <2>3. Failed(run[r], tickAt[i]) \in RowType /\ Queued(run[r], tickAt[i]) \in RowType
    BY <2>2, RowForms, OwnerFacts
  <2>4. run' \in Rows
    BY <2>1, <2>3, Parts, RowReplaced DEF RecoverExpired
  <2>5. job' \in JobTable
    BY <2>1, DoneType DEF RecoverExpired
  <2>6. QED
    BY <2>1, <2>4, <2>5, Parts, TicksOnly DEF RecoverExpired, ghosts
<1>4. CASE \E r \in Runs : HoldAtClaim(i, r)
  <2>1. PICK r \in Runs : HoldAtClaim(i, r)
    BY <1>4
  <2>2. run' \in Rows
    <3>1. \A s \in Runs : HeldBy("TARGET")[s] \in RowType
      BY HeldByType, OwnerFacts DEF Ended
    <3>2. QED
      BY <2>1, <3>1, WriteType DEF HoldAtClaim
  <2>3. job' \in JobTable
    BY <2>1, DoneType DEF HoldAtClaim
  <2>4. QED
    BY <2>1, <2>2, <2>3, Parts, TicksOnly DEF HoldAtClaim, ghosts
<1>5. CASE \E r \in Runs : SkipAtClaim(i, r)
  <2>1. PICK r \in Runs : SkipAtClaim(i, r)
    BY <1>5
  <2>2. run' \in Rows
    <3>1. \A s \in Runs : ClosedAs("SKIPPED")[s] \in RowType
      BY HeldByType, OwnerFacts DEF Ended
    <3>2. QED
      BY <2>1, <3>1, WriteType DEF SkipAtClaim
  <2>3. job' \in JobTable
    BY <2>1, DoneType DEF SkipAtClaim
  <2>4. QED
    BY <2>1, <2>2, <2>3, Parts, TicksOnly DEF SkipAtClaim, ghosts
<1>6. CASE \E r \in Runs : Claim(i, r)
  <2>1. PICK r \in Runs : Claim(i, r)
    BY <1>6
  <2>2. CASE run[r].status = "PENDING" /\ run[r].next <= tickAt[i]
    <3> DEFINE new == [run[r] EXCEPT !.status = "SENDING", !.token = run[r].token + 1,
                         !.claimedAt = tickAt[i], !.attempts = run[r].attempts + 1]
               nj == [NoJob EXCEPT !.step = "claimed", !.token = run[r].token + 1,
                        !.attempts = run[r].attempts + 1]
    <3>1. run' = [run EXCEPT ![r] = new] /\ job' = [job EXCEPT ![i][r] = nj]
      BY <2>1, <2>2 DEF Claim, TypeOK, RowType
    <3>2. run[r] \in RowType /\ tickAt[i] \in Nat /\ run[r].token + 1 \in Nat
          /\ run[r].attempts + 1 \in Nat
      BY DEF TypeOK, RowType
    <3>3. new \in RowType
      <4>1. \A row \in RowType, t, c, a \in Nat :
              [row EXCEPT !.status = "SENDING", !.token = t, !.claimedAt = c,
                 !.attempts = a] \in RowType
        BY DEF RowType, Open
      <4>2. QED
        BY <3>2, <4>1
    <3>4. nj \in JobType
      <4>1. \A t, a \in Nat :
              [NoJob EXCEPT !.step = "claimed", !.token = t, !.attempts = a] \in JobType
        BY DEF NoJob, JobType
      <4>2. QED
        BY <3>2, <4>1
    <3>5. run' \in Rows /\ job' \in JobTable
      <4> HIDE DEF new, nj
      <4> QED
        BY <3>1, <3>3, <3>4, RowReplaced, JobForms
    <3>6. QED
      BY <2>1, <3>5, Parts, TicksOnly DEF Claim, ghosts
  <2>3. CASE ~ (run[r].status = "PENDING" /\ run[r].next <= tickAt[i])
    <3>1. job' \in JobTable /\ run' = run
      BY <2>1, <2>3, DoneType DEF Claim
    <3>2. QED
      BY <2>1, <3>1, Parts, TicksOnly DEF Claim, ghosts
  <2>4. QED
    BY <2>2, <2>3
<1>7. CASE \E r \in Runs : ReadTarget(i, r)
  <2>1. PICK r \in Runs : ReadTarget(i, r)
    BY <1>7
  <2>2. job' \in JobTable
    <3>1. CASE job' = [job EXCEPT ![i][r].step = "sending"]
      <4> DEFINE new == [job[i][r] EXCEPT !.step = "sending"]
      <4>1. new \in JobType /\ job' = [job EXCEPT ![i][r] = new]
        BY ZenonT(60), <3>1, JobForms DEF TypeOK, JobType
      <4> HIDE DEF new
      <4>2. QED
        BY <4>1, JobForms
    <3>2. CASE Answer(i, r, "PERMANENT")
      BY <3>2, AnswerType
    <3>3. QED
      BY <2>1, <3>1, <3>2 DEF ReadTarget
  <2>3. QED
    BY <2>1, <2>2, Parts, TicksOnly DEF ReadTarget, table, ghosts
<1>8. CASE \E r \in Runs : Send(i, r)
  <2>1. PICK r \in Runs : Send(i, r)
    BY <1>8
  <2>2. job' \in JobTable
    BY <2>1, AnswerType DEF Send
  <2>3. accepted' \in [Runs -> Nat]
    BY <2>1, Parts DEF Send
  <2>4. QED
    BY <2>1, <2>2, <2>3, Parts, TicksOnly DEF Send, table
<1>9. CASE \E r \in Runs : Finalize(i, r)
  <2>1. PICK r \in Runs : Finalize(i, r)
    BY <1>9
  <2>2. Recorded(i, r) \in RowType
    <3>1. run[r] \in RowType /\ tickAt[i] \in Nat /\ tickAt[i] + Backoff \in Nat
      BY Bounds DEF TypeOK
    <3>2. /\ Closed(run[r], "SUCCEEDED") \in RowType
          /\ Failed(run[r], tickAt[i]) \in RowType
          /\ Queued(run[r], tickAt[i] + Backoff) \in RowType
      BY <3>1, RowForms, OwnerFacts DEF Ended
    <3>3. QED
      BY <3>1, <3>2 DEF Recorded
  <2>3. run' \in Rows /\ job' \in JobTable
    BY <2>1, <2>2, RowReplaced, DoneType DEF Finalize
  <2>4. QED
    BY <2>1, <2>3, Parts, TicksOnly DEF Finalize, ghosts
<1>10. QED
  BY <1>1, <1>2, <1>3, <1>4, <1>5, <1>6, <1>7, <1>8, <1>9 DEF DispatchStep

\* Losing a tick, or an answer.
LEMMA LossType ==
  ASSUME TypeOK, NEW i \in Instances, NEW r \in Runs, Crash(i) \/ SendLate(i, r)
  PROVE  TypeOK'
<1>1. budget' \in BudgetType
  BY SpendType DEF Crash, SendLate
<1>2. CASE Crash(i)
  <2> DEFINE none == [s \in Runs |-> NoJob]
  <2>1. none \in [Runs -> JobType]
    BY JobForms
  <2>2. job' \in JobTable
    <3>1. job' = [job EXCEPT ![i] = none]
      BY <1>2 DEF Crash
    <3> HIDE DEF none
    <3>2. QED
      BY <2>1, <3>1, JobForms
  <2>3. lost' \in [Runs -> Nat]
    BY <1>2, Parts DEF Crash
  <2>4. QED
    BY <1>1, <1>2, <2>2, <2>3, Parts, TicksOnly DEF Crash, table
<1>3. CASE SendLate(i, r)
  <2>1. job' \in JobTable
    BY <1>3, AnswerType DEF SendLate
  <2>2. accepted' \in [Runs -> Nat] /\ lost' \in [Runs -> Nat]
    BY <1>3, Parts DEF SendLate
  <2>3. QED
    BY <1>1, <1>3, <2>1, <2>2, Parts, TicksOnly DEF SendLate, table
<1>4. QED
  BY <1>2, <1>3

\* What a call or an enqueue writes down of its progress.
LEMMA RequestForms ==
  ASSUME TypeOK
  PROVE  /\ \A r \in Runs, d \in Decisions :
              RequestOK([NoRequest EXCEPT !.op = "node", !.cur = r, !.saw = d])
         /\ \A op \in {"pause", "resume"}, who \in Owners :
              RequestOK([NoRequest EXCEPT !.op = op, !.who = who])
         /\ \A q \in Requests : RequestOK(request[q])
         /\ \A req \in RequestType, rest \in SUBSET Runs : req.op = "resume" /\ RequestOK(req) =>
              RequestOK([req EXCEPT !.op = "release", !.rest = rest])
         /\ \A req \in RequestType, r \in Runs, rest \in SUBSET Runs, d \in {"hold", "send"} :
              req.op = "release" /\ RequestOK(req) =>
                RequestOK([req EXCEPT !.cur = r, !.rest = rest, !.saw = d])
         /\ \A req \in RequestType :
              req.op = "release" /\ RequestOK(req) =>
                RequestOK([req EXCEPT !.cur = NoRun])
<1>1. \A q \in Requests : RequestOK(request[q])
  BY DEF TypeOK, RequestOK
<1>2. \A r \in Runs, d \in Decisions :
        RequestOK([NoRequest EXCEPT !.op = "node", !.cur = r, !.saw = d])
  BY DEF RequestOK, RequestType, NoRequest, Decisions
<1>3. \A op \in {"pause", "resume"}, who \in Owners :
        RequestOK([NoRequest EXCEPT !.op = op, !.who = who])
  BY DEF RequestOK, RequestType, NoRequest
<1>4. \A req \in RequestType, rest \in SUBSET Runs : req.op = "resume" /\ RequestOK(req) =>
              RequestOK([req EXCEPT !.op = "release", !.rest = rest])
  BY DEF RequestOK, RequestType
<1>5. ASSUME NEW req \in RequestType, NEW r \in Runs, NEW rest \in SUBSET Runs,
             NEW d \in {"hold", "send"}, req.op = "release", RequestOK(req)
      PROVE  RequestOK([req EXCEPT !.cur = r, !.rest = rest, !.saw = d])
  <2> DEFINE new == [req EXCEPT !.cur = r, !.rest = rest, !.saw = d]
  <2>1. new \in RequestType
    BY DEF RequestType
  <2>2. new.op = "release" /\ new.who \in Owners
    BY <1>5 DEF RequestType, RequestOK
  <2>3. RequestOK(new)
    <3> HIDE DEF new
    <3> QED
      BY <2>1, <2>2 DEF RequestOK
  <2>4. QED
    BY <2>3
<1>6. \A req \in RequestType :
              req.op = "release" /\ RequestOK(req) => RequestOK([req EXCEPT !.cur = NoRun])
  BY DEF RequestOK, RequestType
<1>7. QED
  BY <1>1, <1>2, <1>3, <1>4, <1>5, <1>6

\* The steps of calls and enqueues keep the types.
LEMMA CallType ==
  ASSUME TypeOK, NEW q \in Requests, RequestStart(q) \/ RequestStep(q)
  PROVE  TypeOK'
<1>0. paused \subseteq exists /\ RequestOK(request[q]) /\ request[q] \in RequestType
      /\ RequestOK(NoRequest)
  BY RequestForms, NoRequestOK DEF TypeOK
<1>1. CASE \E r \in Runs : NodeRead(q, r)
  <2>1. PICK r \in Runs, d \in {Admission(Target \in paused), "skip"} :
          NodeRead(q, r) /\ request' = [request EXCEPT ![q] =
                     [NoRequest EXCEPT !.op = "node", !.cur = r, !.saw = d]]
    BY <1>1 DEF NodeRead
  <2>2. d \in Decisions
    BY <2>1 DEF Admission, Decisions
  <2>3. RequestOK([NoRequest EXCEPT !.op = "node", !.cur = r, !.saw = d])
    BY <2>2, RequestForms
  <2>4. QED
    BY <1>0, <2>1, <2>3, Parts, CallsOnly DEF NodeRead, table
<1>2. CASE NodeInsert(q)
  <2>1. request[q].cur \in Runs /\ request[q].saw \in Decisions
    BY <1>0, <1>2 DEF NodeInsert, RequestOK, RequestType, Decisions
  <2>2. run' \in Rows
    BY <1>2, <2>1, InsertType, OwnerFacts DEF NodeInsert
  <2>3. QED
    BY <1>0, <1>2, <2>2, Parts, CallsOnly DEF NodeInsert, Respond
<1>3. CASE \E who \in Owners : Pause(q, who)
  <2>1. PICK who \in Owners : Pause(q, who)
    BY <1>3
  <2>2. RequestOK([NoRequest EXCEPT !.op = "pause", !.who = who])
    BY RequestForms
  <2>3. budget' \in BudgetType
    BY <2>1, SpendType DEF Pause, Begin
  <2>4. paused' \subseteq exists
    BY <1>0, <2>1 DEF Pause
  <2>5. QED
    BY <2>1, <2>2, <2>3, <2>4, Parts, CallsOnly DEF Pause, Begin
<1>4. CASE \E who \in Owners : Resume(q, who)
  <2>1. PICK who \in Owners : Resume(q, who)
    BY <1>4
  <2>2. RequestOK([NoRequest EXCEPT !.op = "resume", !.who = who])
    BY RequestForms
  <2>3. budget' \in BudgetType
    BY <2>1, SpendType DEF Resume, Begin
  <2>4. paused' \subseteq exists
    BY <1>0, <2>1 DEF Resume
  <2>5. QED
    BY <2>1, <2>2, <2>3, <2>4, Parts, CallsOnly DEF Resume, Begin
<1>5. CASE PauseHold(q)
  <2>1. request[q].who \in Owners
    BY <1>0, <1>5 DEF PauseHold, RequestOK
  <2>2. \A r \in Runs : HeldBy(Reason(request[q].who))[r] \in RowType
    BY <2>1, HeldByType DEF Ended
  <2>3. run' \in Rows
    BY <1>5, <2>2, WriteType DEF PauseHold
  <2>4. QED
    BY <1>0, <1>5, <2>3, Parts, CallsOnly DEF PauseHold, Respond
<1>6. CASE ResumeList(q)
  <2> DEFINE rest == {r \in RowsOf(request[q].who) :
                      run[r].status = "HELD" /\ run[r].hold = Reason(request[q].who)}
             new == [request[q] EXCEPT !.op = "release", !.rest = rest]
  <2>1. request' = [request EXCEPT ![q] = new]
    BY <1>6 DEF ResumeList, TypeOK, RequestType
  <2>2. rest \in SUBSET Runs
    BY DEF RowsOf
  <2>3. RequestOK(new)
    <3> HIDE DEF rest
    <3> QED
      BY <1>0, <1>6, <2>2, RequestForms DEF ResumeList
  <2>4. QED
    <3> HIDE DEF new
    <3> QED
      BY <1>0, <1>6, <2>1, <2>3, Parts, CallsOnly DEF ResumeList, table
<1>7. CASE \E r \in Runs : ReleaseRead(q, r)
  <2>1. PICK r \in Runs : ReleaseRead(q, r)
    BY <1>7
  <2> DEFINE rest == request[q].rest \ {r}
             saw == IF Other(q, r) # request[q].who /\ Other(q, r) \in paused
                    THEN "hold" ELSE "send"
             new == [request[q] EXCEPT !.cur = r, !.rest = rest, !.saw = saw]
  <2>2. request' = [request EXCEPT ![q] = new]
    BY <2>1 DEF ReleaseRead, TypeOK, RequestType
  <2>3. rest \in SUBSET Runs /\ saw \in {"hold", "send"}
    BY <1>0 DEF RequestType
  <2>4. RequestOK(new)
    <3> HIDE DEF rest, saw
    <3> QED
      BY <1>0, <2>1, <2>3, RequestForms DEF ReleaseRead
  <2>5. QED
    <3> HIDE DEF new
    <3> QED
      BY <1>0, <2>1, <2>2, <2>4, Parts, CallsOnly DEF ReleaseRead, table
<1>8. CASE ReleaseWrite(q)
  <2> DEFINE r == request[q].cur
             new == [request[q] EXCEPT !.cur = NoRun]
  <2>1. request' = [request EXCEPT ![q] = new]
    BY <1>8 DEF ReleaseWrite, TypeOK, RequestType
  <2>2. RequestOK(new)
    BY <1>0, <1>8, RequestForms DEF ReleaseWrite
  <2>3. r \in Runs /\ run[r] \in RowType /\ clock \in Nat
    BY <1>0, <1>8 DEF ReleaseWrite, RequestType, TypeOK
  <2>4. Other(q, r) \in Owners
    BY <2>3, OwnerFacts DEF Other, RowType
  <2>5. /\ Closed(run[r], "EXPIRED") \in RowType
        /\ [run[r] EXCEPT !.hold = Reason(Other(q, r))] \in RowType
        /\ Queued(run[r], clock) \in RowType
    BY <2>3, <2>4, RowForms DEF Ended
  <2>6. run' \in Rows
    <3> DEFINE released == IF HoldExpired(r, clock) THEN Closed(run[r], "EXPIRED")
                  ELSE IF request[q].saw = "hold"
                       THEN [run[r] EXCEPT !.hold = Reason(Other(q, r))]
                       ELSE Queued(run[r], clock)
    <3>1. released \in RowType
      BY <2>5
    <3>2. run' = IF StillHeld(r) THEN [run EXCEPT ![r] = released] ELSE run
      BY <1>8 DEF ReleaseWrite
    <3> HIDE DEF released, r
    <3>3. QED
      BY <2>3, <3>1, <3>2, RowReplaced, Parts
  <2>7. QED
    <3> HIDE DEF new
    <3> QED
      BY <1>0, <1>8, <2>1, <2>2, <2>6, Parts, CallsOnly DEF ReleaseWrite
<1>9. CASE ReleaseEnd(q)
  BY <1>0, <1>9, Parts, CallsOnly DEF ReleaseEnd, Respond, table
<1>10. QED
  BY <1>1, <1>2, <1>3, <1>4, <1>5, <1>6, <1>7, <1>8, <1>9 DEF RequestStart, RequestStep

\* Events, console writes and the maintenance keep the types.
LEMMA RowWriteType ==
  ASSUME TypeOK,
         \/ \E s \in Subscriptions, r \in Runs : EventInsert(s, r)
         \/ \E r \in Runs : RetryManual(r) \/ CancelManual(r)
         \/ Maintenance
  PROVE  TypeOK'
<1>1. CASE \E s \in Subscriptions, r \in Runs : EventInsert(s, r)
  <2>0. PICK s \in Subscriptions, r \in Runs : EventInsert(s, r)
    BY <1>1
  <2>1. PICK d \in {cached[s], "skip"} : Insert(r, s, d)
    BY <2>0 DEF EventInsert
  <2>2. d \in Decisions /\ s \in Owners
    BY <2>0, <2>1, OwnerFacts DEF EventInsert, TypeOK, Decisions
  <2>3. run' \in Rows
    BY <2>1, <2>2, InsertType
  <2>4. QED
    BY <2>0, <2>3, Parts, RowsOnly DEF EventInsert
<1>2. CASE \E r \in Runs : RetryManual(r)
  <2>1. PICK r \in Runs : RetryManual(r)
    BY <1>2
  <2>2. run[r] \in RowType /\ clock \in Nat
    BY DEF TypeOK
  <2>3. [Queued(run[r], clock) EXCEPT !.attempts = 0] \in RowType
    BY <2>2, RowForms, OwnerFacts
  <2>4. run' \in Rows /\ budget' \in BudgetType
    BY <2>1, <2>3, RowReplaced, SpendType DEF RetryManual
  <2>5. QED
    BY <2>1, <2>4, RowsOnly DEF RetryManual
<1>3. CASE \E r \in Runs : CancelManual(r)
  <2>1. PICK r \in Runs : CancelManual(r)
    BY <1>3
  <2>2. \A s \in Runs : ClosedAs("CANCELLED")[s] \in RowType
    BY HeldByType, OwnerFacts DEF Ended
  <2>3. run' \in Rows /\ budget' \in BudgetType
    BY <2>1, <2>2, WriteType, SpendType DEF CancelManual
  <2>4. QED
    BY <2>1, <2>3, RowsOnly DEF CancelManual
<1>4. CASE ExpireOverdueHolds
  <2>1. \A s \in Runs : ClosedAs("EXPIRED")[s] \in RowType
    BY HeldByType, OwnerFacts DEF Ended
  <2>2. run' \in Rows
    BY <1>4, <2>1, WriteType DEF ExpireOverdueHolds
  <2>3. QED
    BY <1>4, <2>2, Parts, RowsOnly DEF ExpireOverdueHolds
<1>5. CASE PurgeFailedPayloads
  <2>1. \A r \in Runs : run[r] \in RowType /\ [run[r] EXCEPT !.body = FALSE] \in RowType
    BY RowForms, OwnerFacts, Parts DEF TypeOK
  <2>2. run' \in Rows
    BY <1>5, <2>1 DEF PurgeFailedPayloads, Rows
  <2>3. QED
    BY <1>5, <2>2, Parts, RowsOnly DEF PurgeFailedPayloads
<1>6. QED
  BY <1>1, <1>2, <1>3, <1>4, <1>5 DEF Maintenance

\* Changes of the target, a subscription, the snapshot or the clock.
LEMMA OwnerType ==
  ASSUME TypeOK,
         \/ SetEnabled \/ RemoveTarget \/ RefreshCache \/ Advance
         \/ \E s \in Subscriptions : RemoveSubscription(s)
  PROVE  TypeOK'
<1>1. CASE SetEnabled
  <2>1. budget' \in BudgetType
    BY <1>1, SpendType DEF SetEnabled
  <2>2. QED
    BY <1>1, <2>1 DEF SetEnabled, TypeOK, BudgetType, ghosts
<1>2. CASE RemoveTarget
  <2>1. budget' \in BudgetType
    BY <1>2, SpendType DEF RemoveTarget
  <2>2. \A s \in Runs : ClosedAs("CANCELLED")[s] \in RowType
    BY HeldByType, OwnerFacts DEF Ended
  <2>3. run' \in Rows
    BY <1>2, <2>2, WriteType DEF RemoveTarget
  <2>4. QED
    BY <1>2, <2>1, <2>3 DEF RemoveTarget, TypeOK, BudgetType, Rows, ghosts
<1>3. CASE RefreshCache
  <2>1. cached' \in [Subscriptions -> {"absent", "skip", "hold", "send"}]
    BY <1>3, SnapshotType DEF RefreshCache, Decisions
  <2>2. QED
    BY <1>3, <2>1 DEF RefreshCache, TypeOK, table, ghosts
<1>4. CASE Advance
  <2>1. cached' \in [Subscriptions -> {"absent", "skip", "hold", "send"}]
    BY <1>4, SnapshotType DEF Advance, Decisions
  <2>2. clock' \in Nat
    BY <1>4 DEF Advance, TypeOK
  <2>3. QED
    BY <1>4, <2>1, <2>2 DEF Advance, TypeOK, table, ghosts
<1>5. CASE \E s \in Subscriptions : RemoveSubscription(s)
  <2>1. budget' \in BudgetType
    BY <1>5, SpendType DEF RemoveSubscription
  <2>2. QED
    BY <1>5, <2>1 DEF RemoveSubscription, TypeOK, BudgetType, ghosts
<1>6. QED
  BY <1>1, <1>2, <1>3, <1>4, <1>5

\* What a property of the rows has to survive, one case for each kind of step.
LEMMA NextCases ==
  ASSUME Next
  PROVE  \/ \E i \in Instances : DispatchStep(i)
         \/ \E i \in Instances : Crash(i)
         \/ \E i \in Instances, r \in Runs : SendLate(i, r)
         \/ \E q \in Requests : RequestStart(q) \/ RequestStep(q)
         \/ \E s \in Subscriptions, r \in Runs : EventInsert(s, r)
         \/ \E r \in Runs : RetryManual(r) \/ CancelManual(r)
         \/ Maintenance
         \/ SetEnabled \/ RemoveTarget \/ RefreshCache \/ Advance
         \/ \E s \in Subscriptions : RemoveSubscription(s)
BY DEF Next, Console

LEMMA TypeStep == TypeOK /\ [Next]_vars => TypeOK'
<1> SUFFICES ASSUME TypeOK, [Next]_vars
             PROVE  TypeOK'
  OBVIOUS
<1>1. CASE Next
  <2>1. CASE \E i \in Instances : Crash(i)
    <3>1. CASE Runs = {}
      BY <2>1, <3>1 DEF Crash, Resting, Jobs
    <3>2. CASE Runs # {}
      BY <2>1, <3>2, LossType
    <3>3. QED
      BY <3>1, <3>2
  <2>2. CASE \E i \in Instances, r \in Runs : SendLate(i, r)
    BY <2>2, LossType
  <2>3. CASE \E i \in Instances : DispatchStep(i)
    BY <2>3, DispatchType
  <2>4. CASE \E q \in Requests : RequestStart(q) \/ RequestStep(q)
    BY <2>4, CallType
  <2>5. QED
    BY <1>1, <2>1, <2>2, <2>3, <2>4, NextCases, RowWriteType, OwnerType
<1>2. CASE UNCHANGED vars
  BY <1>2 DEF vars, TypeOK
<1>3. QED
  BY <1>1, <1>2

LEMMA InitType == Init => TypeOK
<1> SUFFICES ASSUME Init
             PROVE  TypeOK
  OBVIOUS
<1>1. NoRow \in RowType /\ NoJob \in JobType
  BY OwnerFacts DEF NoRow, RowType, NoJob, JobType, Open, Waiting, Ended
<1>2. NoRequest \in RequestType /\ NoRequest.op = "none"
  BY DEF NoRequest, RequestType
<1>3. cached \in [Subscriptions -> {"absent", "skip", "hold", "send"}]
  BY SnapshotType DEF Init, Decisions
<1>4. budget \in [requests : Nat, retries : Nat, crashes : Nat, late : Nat]
  BY Bounds DEF Init
<1>5. QED
  BY <1>1, <1>2, <1>3, <1>4 DEF Init, TypeOK

\* In every behaviour of the outbox every variable keeps its shape.
THEOREM OutboxTypes == Spec => []TypeOK
<1>1. Init => TypeOK
  BY InitType
<1>2. TypeOK /\ [Next]_vars => TypeOK'
  BY TypeStep
<1>3. QED
  BY <1>1, <1>2, PTL DEF Spec

-----------------------------------------------------------------------------
(* The inductive invariant                                                 *)

\* The run is in the hands of a live sender.
InHand == {"claimed", "sending", "answered"}

\* A token is never reused, and whoever holds the present one knows the count
\* of attempts.
TokensKept ==
  /\ \A r \in Runs : run[r].status = "ABSENT" => run[r].token = 0
  /\ \A i \in Instances, r \in Runs : job[i][r].token <= run[r].token
  /\ \A i \in Instances, r \in Runs :
       job[i][r].step \in InHand \cup {"recover"} /\ Owner(i, r) =>
         job[i][r].attempts = run[r].attempts

\* AttemptsBounded, and a held run has an attempt left when it is released.
AttemptsLeft ==
  /\ AttemptsBounded
  /\ \A r \in Runs : run[r].status = "HELD" => run[r].attempts < AttemptCap

\* A live tick is younger than TickSpan; what it has in hand is its own, dated
\* with its start and with nobody else; what it takes back is older than the
\* lease.
LeasesKept ==
  /\ \A i \in Instances : tickAt[i] <= clock
  /\ \A i \in Instances, r \in Runs :
       job[i][r].step # "none" => clock <= tickAt[i] + TickSpan
  /\ \A i \in Instances, r \in Runs :
       job[i][r].step \in InHand => Owner(i, r) /\ run[r].claimedAt = tickAt[i]
  /\ \A i \in Instances, r \in Runs :
       job[i][r].step = "recover" /\ Owner(i, r) =>
         tickAt[i] > run[r].claimedAt + Lease
  /\ \A i, j \in Instances, r \in Runs :
       job[i][r].step \in InHand /\ job[j][r].step \in InHand => i = j

\* The acceptance of a run is recorded, or its sender is about to record it.
Credit(r) ==
  \/ run[r].status = "SUCCEEDED"
  \/ \E i \in Instances : job[i][r].step = "answered" /\ job[i][r].outcome = "SUCCESS"

\* One acceptance that is or will be recorded, and those that were lost.
Deliveries ==
  \A r \in Runs : accepted[r] = lost[r] + (IF Credit(r) THEN 1 ELSE 0)

OutboxInv ==
  /\ TypeOK
  /\ BodyKeptWhileOpen
  /\ TokensKept
  /\ AttemptsLeft
  /\ LeasesKept
  /\ Deliveries

-----------------------------------------------------------------------------
(* Steps that touch no run in the hands of a sender                        *)

\* What they may do to a row: enter it, let it wait or end it, erase the body
\* of a failed one, resend a failed one.
QuietRow(r) ==
  \/ run'[r] = run[r]
  \/ /\ run[r].status = "ABSENT"
     /\ run'[r].status \in Waiting \cup {"SKIPPED"}
     /\ run'[r].token = 0 /\ run'[r].attempts = 0
     /\ run'[r].body <=> run'[r].status # "SKIPPED"
  \/ /\ run[r].status \in Waiting
     /\ run'[r].status \in Waiting \cup {"SKIPPED", "CANCELLED", "EXPIRED"}
     /\ run'[r].token = run[r].token /\ run'[r].attempts = run[r].attempts
     /\ run'[r].body = (run[r].body /\ run'[r].status \in Waiting)
  \/ /\ run[r].status = "FAILED" /\ run'[r].status = "FAILED"
     /\ run'[r].token = run[r].token /\ run'[r].attempts = run[r].attempts
  \/ /\ run[r].status = "FAILED" /\ run[r].body
     /\ run'[r].status = "PENDING" /\ run'[r].body
     /\ run'[r].token = run[r].token /\ run'[r].attempts = 0

\* What they may do to a job: nothing, or plan or drop one that is not in hand.
QuietJob(i, r) ==
  \/ job'[i][r] = job[i][r]
  \/ /\ job[i][r].step \notin InHand \cup {"none"}
     /\ job'[i][r].step \notin InHand \cup {"recover"}
     /\ job'[i][r].token <= job[i][r].token

QuietStep ==
  /\ \A r \in Runs : QuietRow(r)
  /\ \A i \in Instances, r \in Runs : QuietJob(i, r)
  /\ UNCHANGED <<clock, tickAt, ghosts>>

\* The transitions of a row that need no sender are quiet.
LEMMA QuietForms ==
  ASSUME TypeOK, NEW r \in Runs
  PROVE  /\ run[r].status \in Waiting =>
              /\ \A reason : run'[r] = Held(run[r], reason) => QuietRow(r)
              /\ \A reason : run'[r] = [run[r] EXCEPT !.hold = reason] => QuietRow(r)
              /\ \A n : run'[r] = Queued(run[r], n) => QuietRow(r)
              /\ \A status \in {"SKIPPED", "CANCELLED", "EXPIRED"} :
                   run'[r] = Closed(run[r], status) => QuietRow(r)
         /\ run'[r] = run[r] => QuietRow(r)
         /\ run[r].status = "FAILED" =>
              /\ run'[r] = [run[r] EXCEPT !.body = FALSE] => QuietRow(r)
              /\ \A n : run[r].body /\ run'[r] = [Queued(run[r], n) EXCEPT !.attempts = 0]
                   => QuietRow(r)
<1>1. run[r] \in RowType
  BY DEF TypeOK
<1>2. \A n : \A row \in RowType :
        LET queued == [Queued(row, n) EXCEPT !.attempts = 0] IN
        /\ queued.status = "PENDING" /\ queued.body = row.body
        /\ queued.token = row.token /\ queued.attempts = 0
  BY DEF Queued, RowType
<1>3. ASSUME run[r].status \in Waiting, NEW reason, run'[r] = Held(run[r], reason)
      PROVE  QuietRow(r)
  BY <1>1, <1>3 DEF QuietRow, Held, RowType, Waiting
<1>4. ASSUME run[r].status \in Waiting, NEW reason,
             run'[r] = [run[r] EXCEPT !.hold = reason]
      PROVE  QuietRow(r)
  BY <1>1, <1>4 DEF QuietRow, RowType, Waiting
<1>5. ASSUME run[r].status \in Waiting, NEW n, run'[r] = Queued(run[r], n)
      PROVE  QuietRow(r)
  BY <1>1, <1>5 DEF QuietRow, Queued, RowType, Waiting
<1>6. ASSUME run[r].status \in Waiting, NEW status \in {"SKIPPED", "CANCELLED", "EXPIRED"},
             run'[r] = Closed(run[r], status)
      PROVE  QuietRow(r)
  BY <1>1, <1>6 DEF QuietRow, Closed, RowType, Waiting
<1>7. ASSUME run[r].status = "FAILED", run'[r] = [run[r] EXCEPT !.body = FALSE]
      PROVE  QuietRow(r)
  BY <1>1, <1>7 DEF QuietRow, RowType
<1>8. ASSUME run[r].status = "FAILED", run[r].body, NEW n,
             run'[r] = [Queued(run[r], n) EXCEPT !.attempts = 0]
      PROVE  QuietRow(r)
  BY <1>1, <1>2, <1>8 DEF QuietRow
<1>9. run'[r] = run[r] => QuietRow(r)
  BY DEF QuietRow
<1>10. QED
  BY <1>3, <1>4, <1>5, <1>6, <1>7, <1>8, <1>9

LEMMA InsertIsQuiet ==
  ASSUME TypeOK, NEW r \in Runs, NEW origin, NEW decision \in Decisions,
         Insert(r, origin, decision), TokensKept
  PROVE  \A s \in Runs : QuietRow(s)
<1>1. CASE run[r].status # "ABSENT"
  BY <1>1 DEF Insert, QuietRow
<1>2. CASE run[r].status = "ABSENT"
  <2> DEFINE status == CASE decision = "skip" -> "SKIPPED"
                         [] decision = "hold" -> "HELD"
                         [] OTHER -> "PENDING"
             reason == IF decision = "hold" THEN Reason(origin) ELSE "NONE"
             new == [NoRow EXCEPT
                       !.origin = origin, !.status = status, !.hold = reason,
                       !.body = decision # "skip", !.next = clock,
                       !.created = clock]
  <2>1. /\ status \in Waiting \cup {"SKIPPED"}
        /\ status # "SKIPPED" <=> decision # "skip"
    BY DEF Decisions, Waiting
  <2>2. /\ new.status = status /\ new.token = 0 /\ new.attempts = 0
        /\ new.body = (decision # "skip")
    <3> HIDE DEF status, reason
    <3> QED
      BY DEF NoRow
  <2>3. run' = [run EXCEPT ![r] = new]
    BY <1>2 DEF Insert
  <2>4. QuietRow(r)
    <3>1. run'[r] = new
      <4> HIDE DEF new
      <4> QED
        BY <2>3 DEF TypeOK
    <3> HIDE DEF new, status
    <3>2. QED
      BY <1>2, <2>1, <2>2, <3>1 DEF QuietRow
  <2>5. QED
    <3> HIDE DEF new
    <3> QED
      BY <2>3, <2>4 DEF TypeOK, QuietRow
<1>3. QED
  BY <1>1, <1>2

\* updateMany on waiting rows.
LEMMA WriteIsQuiet ==
  ASSUME TypeOK, NEW rows \in SUBSET Runs, \A r \in rows : run[r].status \in Waiting,
         NEW new, Write(rows, new),
         \/ \E reason : new = HeldBy(reason)
         \/ \E status \in {"SKIPPED", "CANCELLED", "EXPIRED"} : new = ClosedAs(status)
  PROVE  \A r \in Runs : QuietRow(r)
<1> SUFFICES ASSUME NEW r \in Runs
             PROVE  QuietRow(r)
  OBVIOUS
<1>1. CASE r \notin rows
  BY <1>1, QuietForms DEF Write
<1>2. CASE r \in rows
  <2>1. run'[r] = new[r] /\ run[r].status \in Waiting
    BY <1>2 DEF Write
  <2>2. CASE \E reason : new = HeldBy(reason)
    BY <2>1, <2>2, QuietForms DEF HeldBy
  <2>3. CASE \E status \in {"SKIPPED", "CANCELLED", "EXPIRED"} : new = ClosedAs(status)
    BY <2>1, <2>3, QuietForms DEF ClosedAs
  <2>4. QED
    BY <2>2, <2>3
<1>3. QED
  BY <1>1, <1>2

\* One row is replaced.
LEMMA ReplaceIsQuiet ==
  ASSUME TypeOK, NEW r \in Runs, NEW new, run' = [run EXCEPT ![r] = new], QuietRow(r)
  PROVE  \A s \in Runs : QuietRow(s)
BY DEF TypeOK, QuietRow

\* No job changes.
LEMMA SameJobs ==
  UNCHANGED job => \A i \in Instances, r \in Runs : QuietJob(i, r)
BY DEF QuietJob

LEMMA SameRows ==
  UNCHANGED run => \A r \in Runs : QuietRow(r)
BY DEF QuietRow

\* Calls and enqueues are quiet.
LEMMA CallIsQuiet ==
  ASSUME TypeOK, TokensKept, NEW q \in Requests, RequestStart(q) \/ RequestStep(q)
  PROVE  QuietStep
<1>0. RequestOK(request[q]) /\ request[q] \in RequestType
  BY DEF TypeOK, RequestOK
<1>1. CASE \E r \in Runs : NodeRead(q, r)
  BY <1>1, SameRows, SameJobs DEF NodeRead, QuietStep, table
<1>2. CASE NodeInsert(q)
  <2>1. request[q].cur \in Runs /\ request[q].saw \in Decisions
    BY <1>0, <1>2 DEF NodeInsert, RequestOK, RequestType, Decisions
  <2>2. QED
    BY <1>2, <2>1, InsertIsQuiet, SameJobs DEF NodeInsert, QuietStep
<1>3. CASE \E who \in Owners : Pause(q, who) \/ Resume(q, who)
  BY <1>3, SameRows, SameJobs DEF Pause, Resume, QuietStep
<1>4. CASE PauseHold(q)
  <2>1. RowsOf(request[q].who) \cap With({"PENDING"}) \in SUBSET Runs
    BY DEF RowsOf
  <2>2. \A r \in RowsOf(request[q].who) \cap With({"PENDING"}) : run[r].status \in Waiting
    BY DEF With, Waiting
  <2>3. \A r \in Runs : QuietRow(r)
    BY <1>4, <2>1, <2>2, WriteIsQuiet DEF PauseHold
  <2>4. QED
    BY <1>4, <2>3, SameJobs DEF PauseHold, QuietStep
<1>5. CASE ResumeList(q)
  BY <1>5, SameRows, SameJobs DEF ResumeList, QuietStep, table
<1>6. CASE \E r \in Runs : ReleaseRead(q, r)
  BY <1>6, SameRows, SameJobs DEF ReleaseRead, QuietStep, table
<1>7. CASE ReleaseWrite(q)
  <2> DEFINE r == request[q].cur
             released == IF HoldExpired(r, clock) THEN Closed(run[r], "EXPIRED")
                  ELSE IF request[q].saw = "hold"
                       THEN [run[r] EXCEPT !.hold = Reason(Other(q, r))]
                       ELSE Queued(run[r], clock)
  <2>1. r \in Runs
    BY <1>0, <1>7 DEF ReleaseWrite, RequestType
  <2>2. run' = IF StillHeld(r) THEN [run EXCEPT ![r] = released] ELSE run
    BY <1>7 DEF ReleaseWrite
  <2>3. CASE StillHeld(r)
    <3>1. run[r].status \in Waiting
      BY <2>3 DEF StillHeld, Waiting
    <3>2. run'[r] = released
      <4> HIDE DEF released, r
      <4> QED
        BY <2>1, <2>2, <2>3 DEF TypeOK
    <3>3. QuietRow(r)
      <4> HIDE DEF r
      <4> QED
        BY <2>1, <3>1, <3>2, QuietForms
    <3>4. \A s \in Runs : QuietRow(s)
      <4> HIDE DEF released, r
      <4> QED
        BY <2>1, <2>2, <2>3, <3>3, ReplaceIsQuiet
    <3>5. QED
      BY <1>7, <3>4, SameJobs DEF ReleaseWrite, QuietStep
  <2>4. CASE ~ StillHeld(r)
    BY <1>7, <2>2, <2>4, SameRows, SameJobs DEF ReleaseWrite, QuietStep
  <2>5. QED
    BY <2>3, <2>4
<1>8. CASE ReleaseEnd(q)
  BY <1>8, SameRows, SameJobs DEF ReleaseEnd, QuietStep, table
<1>9. QED
  BY <1>1, <1>2, <1>3, <1>4, <1>5, <1>6, <1>7, <1>8 DEF RequestStart, RequestStep

\* Events, the console and the maintenance are quiet.
LEMMA ConsoleIsQuiet ==
  ASSUME TypeOK, TokensKept,
         \/ \E s \in Subscriptions, r \in Runs : EventInsert(s, r)
         \/ \E r \in Runs : RetryManual(r) \/ CancelManual(r)
         \/ Maintenance
         \/ SetEnabled \/ RemoveTarget \/ RefreshCache
         \/ \E s \in Subscriptions : RemoveSubscription(s)
  PROVE  QuietStep
<1>1. CASE \E s \in Subscriptions, r \in Runs : EventInsert(s, r)
  <2>0. PICK s \in Subscriptions, r \in Runs : EventInsert(s, r)
    BY <1>1
  <2>1. PICK d \in {cached[s], "skip"} : Insert(r, s, d)
    BY <2>0 DEF EventInsert
  <2>2. d \in Decisions
    BY <2>0, <2>1 DEF EventInsert, TypeOK, Decisions
  <2>3. QED
    BY <2>0, <2>1, <2>2, InsertIsQuiet, SameJobs DEF EventInsert, QuietStep
<1>2. CASE \E r \in Runs : RetryManual(r)
  <2>1. PICK r \in Runs : RetryManual(r)
    BY <1>2
  <2> DEFINE new == [Queued(run[r], clock) EXCEPT !.attempts = 0]
  <2>2. run' = [run EXCEPT ![r] = new] /\ run[r].status = "FAILED" /\ run[r].body
    BY <2>1 DEF RetryManual, Retryable
  <2>3. run'[r] = new
    <3> HIDE DEF new
    <3> QED
      BY <2>2 DEF TypeOK
  <2>4. QuietRow(r)
    BY <2>2, <2>3, QuietForms
  <2>5. \A s \in Runs : QuietRow(s)
    <3> HIDE DEF new
    <3> QED
      BY <2>2, <2>4, ReplaceIsQuiet
  <2>6. QED
    BY <2>1, <2>5, SameJobs DEF RetryManual, QuietStep
<1>3. CASE \E r \in Runs : CancelManual(r)
  <2>1. PICK r \in Runs : CancelManual(r)
    BY <1>3
  <2>2. \A s \in {r} : run[s].status \in Waiting
    BY <2>1 DEF CancelManual, With
  <2>3. \A s \in Runs : QuietRow(s)
    BY <2>1, <2>2, WriteIsQuiet DEF CancelManual
  <2>4. QED
    BY <2>1, <2>3, SameJobs DEF CancelManual, QuietStep
<1>4. CASE ExpireOverdueHolds
  <2> DEFINE overdue == {r \in With({"HELD"}) : HoldExpired(r, clock)}
  <2>1. overdue \in SUBSET Runs /\ \A r \in overdue : run[r].status \in Waiting
    BY DEF With, Waiting
  <2>2. Write(overdue, ClosedAs("EXPIRED"))
    BY <1>4 DEF ExpireOverdueHolds
  <2>3. \A r \in Runs : QuietRow(r)
    <3> HIDE DEF overdue
    <3> QED
      BY <2>1, <2>2, WriteIsQuiet
  <2>4. QED
    BY <1>4, <2>3, SameJobs DEF ExpireOverdueHolds, QuietStep
<1>5. CASE PurgeFailedPayloads
  <2>1. ASSUME NEW r \in Runs PROVE QuietRow(r)
    <3>1. run'[r] = IF KeptLongEnough(r) THEN [run[r] EXCEPT !.body = FALSE] ELSE run[r]
      BY <1>5 DEF PurgeFailedPayloads
    <3>2. KeptLongEnough(r) => run[r].status = "FAILED"
      BY DEF KeptLongEnough
    <3>3. QED
      BY <3>1, <3>2, QuietForms
  <2>2. QED
    BY <1>5, <2>1, SameJobs DEF PurgeFailedPayloads, QuietStep
<1>6. CASE RemoveTarget
  <2>1. With(Waiting) \in SUBSET Runs /\ \A r \in With(Waiting) : run[r].status \in Waiting
    BY DEF With
  <2>2. \A r \in Runs : QuietRow(r)
    BY <1>6, <2>1, WriteIsQuiet DEF RemoveTarget
  <2>3. QED
    BY <1>6, <2>2, SameJobs DEF RemoveTarget, QuietStep
<1>7. CASE SetEnabled \/ RefreshCache \/ \E s \in Subscriptions : RemoveSubscription(s)
  BY <1>7, SameRows, SameJobs
  DEF SetEnabled, RefreshCache, RemoveSubscription, QuietStep, table
<1>8. QED
  BY <1>1, <1>2, <1>3, <1>4, <1>5, <1>6, <1>7 DEF Maintenance

\* A job that is not in hand is dropped.
LEMMA DoneIsQuiet ==
  ASSUME TypeOK, NEW i \in Instances, NEW r \in Runs, Done(i, r),
         job[i][r].step \notin InHand \cup {"none"}
  PROVE  \A j \in Instances, s \in Runs : QuietJob(j, s)
<1>1. NoJob.step = "none" /\ NoJob.token = 0
  BY DEF NoJob
<1>2. job[i][r].token \in Nat
  BY DEF TypeOK, JobType
<1>3. job'[i][r] = NoJob
  BY DEF Done, TypeOK
<1>4. \A j \in Instances, s \in Runs : j # i \/ s # r => job'[j][s] = job[j][s]
  BY DEF Done, TypeOK
<1>5. QuietJob(i, r)
  BY <1>1, <1>2, <1>3 DEF QuietJob, InHand
<1>6. QED
  BY <1>4, <1>5 DEF QuietJob

\* So are the steps of a tick that plan, hold, skip or come too late.
LEMMA PlanIsQuiet ==
  ASSUME TypeOK, NEW i \in Instances,
         \/ PlanClaims(i)
         \/ \E r \in Runs : \/ HoldAtClaim(i, r) \/ SkipAtClaim(i, r)
                            \/ Claim(i, r) /\ Done(i, r) /\ run' = run
                            \/ RecoverExpired(i, r) /\ run' = run
  PROVE  QuietStep
<1>1. CASE PlanClaims(i)
  <2>1. PICK claims \in SUBSET Jobs(i, {"ready"}) :
          job' = [job EXCEPT ![i] =
            [r \in Runs |->
               IF job[i][r].step # "ready" THEN job[i][r]
               ELSE IF ~ enabled \/ Target \notin exists
               THEN [job[i][r] EXCEPT !.step = "skip"]
               ELSE IF Target \in paused
               THEN [job[i][r] EXCEPT !.step = "hold"]
               ELSE IF r \in claims
               THEN [job[i][r] EXCEPT !.step = "claim"]
               ELSE NoJob]]
    BY <1>1 DEF PlanClaims
  <2>2. \A r \in Runs :
          \/ job'[i][r] = job[i][r]
          \/ /\ job[i][r].step = "ready"
             /\ job'[i][r] \in {[job[i][r] EXCEPT !.step = "skip"],
                  [job[i][r] EXCEPT !.step = "hold"],
                  [job[i][r] EXCEPT !.step = "claim"], NoJob}
    BY <2>1 DEF TypeOK
  <2>3. \A j \in Instances, r \in Runs : j # i => job'[j][r] = job[j][r]
    BY <2>1 DEF TypeOK
  <2>4. ASSUME NEW r \in Runs PROVE QuietJob(i, r)
    <3>1. job[i][r] \in JobType
      BY DEF TypeOK
    <3>2. /\ [job[i][r] EXCEPT !.step = "skip"].step = "skip"
          /\ [job[i][r] EXCEPT !.step = "skip"].token = job[i][r].token
          /\ [job[i][r] EXCEPT !.step = "hold"].step = "hold"
          /\ [job[i][r] EXCEPT !.step = "hold"].token = job[i][r].token
          /\ [job[i][r] EXCEPT !.step = "claim"].step = "claim"
          /\ [job[i][r] EXCEPT !.step = "claim"].token = job[i][r].token
      BY <3>1 DEF JobType
    <3>3. NoJob.step = "none" /\ NoJob.token = 0 /\ job[i][r].token \in Nat
      BY <3>1 DEF NoJob, JobType
    <3>4. CASE job'[i][r] = job[i][r]
      BY <3>4 DEF QuietJob
    <3>5. CASE job'[i][r] # job[i][r]
      <4>1. /\ job[i][r].step = "ready"
            /\ job'[i][r].step \in {"skip", "hold", "claim", "none"}
            /\ job'[i][r].token <= job[i][r].token
        <5>0. job[i][r].step = "ready"
          BY <2>2, <3>5
        <5>1. CASE job'[i][r] = [job[i][r] EXCEPT !.step = "skip"]
          BY <3>2, <3>3, <5>0, <5>1
        <5>2. CASE job'[i][r] = [job[i][r] EXCEPT !.step = "hold"]
          BY <3>2, <3>3, <5>0, <5>2
        <5>3. CASE job'[i][r] = [job[i][r] EXCEPT !.step = "claim"]
          BY <3>2, <3>3, <5>0, <5>3
        <5>4. CASE job'[i][r] = NoJob
          BY <3>3, <5>0, <5>4
        <5>5. QED
          BY <2>2, <3>5, <5>1, <5>2, <5>3, <5>4
      <4>2. QED
        BY <4>1 DEF QuietJob, InHand
    <3>6. QED
      BY <3>4, <3>5
  <2>5. \A j \in Instances, r \in Runs : QuietJob(j, r)
    BY <2>3, <2>4 DEF QuietJob
  <2>6. QED
    BY <1>1, <2>5, SameRows DEF PlanClaims, QuietStep, table
<1>2. CASE \E r \in Runs : HoldAtClaim(i, r)
  <2>1. PICK r \in Runs : HoldAtClaim(i, r)
    BY <1>2
  <2>2. /\ {r} \cap With({"PENDING"}) \in SUBSET Runs
        /\ \A s \in {r} \cap With({"PENDING"}) : run[s].status \in Waiting
    BY DEF With, Waiting
  <2>3. \A s \in Runs : QuietRow(s)
    BY <2>1, <2>2, WriteIsQuiet DEF HoldAtClaim
  <2>4. \A j \in Instances, s \in Runs : QuietJob(j, s)
    BY <2>1, DoneIsQuiet DEF HoldAtClaim, InHand
  <2>5. QED
    BY <2>1, <2>3, <2>4 DEF HoldAtClaim, QuietStep
<1>3. CASE \E r \in Runs : SkipAtClaim(i, r)
  <2>1. PICK r \in Runs : SkipAtClaim(i, r)
    BY <1>3
  <2>2. /\ {r} \cap With({"PENDING"}) \in SUBSET Runs
        /\ \A s \in {r} \cap With({"PENDING"}) : run[s].status \in Waiting
    BY DEF With, Waiting
  <2>3. \A s \in Runs : QuietRow(s)
    BY <2>1, <2>2, WriteIsQuiet DEF SkipAtClaim
  <2>4. \A j \in Instances, s \in Runs : QuietJob(j, s)
    BY <2>1, DoneIsQuiet DEF SkipAtClaim, InHand
  <2>5. QED
    BY <2>1, <2>3, <2>4 DEF SkipAtClaim, QuietStep
<1>4. CASE \E r \in Runs : Claim(i, r) /\ Done(i, r) /\ run' = run
  BY <1>4, DoneIsQuiet, SameRows DEF Claim, QuietStep, InHand
<1>5. CASE \E r \in Runs : RecoverExpired(i, r) /\ run' = run
  BY <1>5, DoneIsQuiet, SameRows DEF RecoverExpired, QuietStep, InHand
<1>6. QED
  BY <1>1, <1>2, <1>3, <1>4, <1>5

\* A quiet step keeps the invariant.
LEMMA QuietKeeps ==
  ASSUME OutboxInv, TypeOK', QuietStep
  PROVE  OutboxInv'
<1>0. /\ \A r \in Runs : QuietRow(r) /\ run[r] \in RowType /\ run'[r] \in RowType
      /\ \A i \in Instances, r \in Runs :
           QuietJob(i, r) /\ job[i][r] \in JobType /\ job'[i][r] \in JobType
      /\ clock' = clock /\ tickAt' = tickAt /\ accepted' = accepted /\ lost' = lost
  BY DEF OutboxInv, TypeOK, QuietStep, ghosts
<1>1. \A r \in Runs : run[r].status = "SENDING" \/ run'[r].status = "SENDING"
                       \/ run[r].status = "SUCCEEDED" \/ run'[r].status = "SUCCEEDED"
                        => run'[r] = run[r]
  BY <1>0 DEF QuietRow, Waiting
<1>2. \A i \in Instances, r \in Runs :
        job[i][r].step \in InHand \/ job'[i][r].step \in InHand \cup {"recover"}
          => job'[i][r] = job[i][r]
  BY <1>0 DEF QuietJob
<1>3. \A i \in Instances, r \in Runs :
        job'[i][r].step \in InHand \cup {"recover"} /\ Owner(i, r)'
          => job'[i][r] = job[i][r] /\ run'[r] = run[r] /\ Owner(i, r)
  BY <1>1, <1>2 DEF Owner
<1>4. BodyKeptWhileOpen'
  <2> SUFFICES ASSUME NEW r \in Runs
               PROVE  /\ run'[r].status \in Open => run'[r].body
                      /\ run'[r].status \in Ended \ {"FAILED"} => ~ run'[r].body
    BY DEF BodyKeptWhileOpen
  <2>1. /\ run[r].status \in Open => run[r].body
        /\ run[r].status \in Ended \ {"FAILED"} => ~ run[r].body
    BY DEF OutboxInv, BodyKeptWhileOpen
  <2>2. QED
    BY <1>0, <2>1 DEF QuietRow, Open, Waiting, Ended
<1>5. TokensKept'
  <2>1. \A r \in Runs : /\ run'[r].status = "ABSENT" => run'[r].token = 0
                        /\ run[r].token <= run'[r].token
    BY <1>0 DEF QuietRow, Waiting, OutboxInv, TokensKept, RowType
  <2>2. \A i \in Instances, r \in Runs : job'[i][r].token <= job[i][r].token
    BY <1>0 DEF QuietJob, JobType
  <2>3. \A i \in Instances, r \in Runs :
          /\ job'[i][r].token \in Nat /\ job[i][r].token \in Nat
          /\ run[r].token \in Nat /\ run'[r].token \in Nat
    BY <1>0 DEF JobType, RowType
  <2>4. \A i \in Instances, r \in Runs : job'[i][r].token <= run'[r].token
    BY <2>1, <2>2, <2>3 DEF OutboxInv, TokensKept
  <2>5. \A i \in Instances, r \in Runs :
          job'[i][r].step \in InHand \cup {"recover"} /\ Owner(i, r)' =>
            job'[i][r].attempts = run'[r].attempts
    BY <1>3 DEF OutboxInv, TokensKept
  <2>6. QED
    BY <2>1, <2>4, <2>5 DEF TokensKept
<1>6. AttemptsLeft'
  <2> SUFFICES ASSUME NEW r \in Runs
               PROVE  /\ run'[r].attempts <= AttemptCap
                      /\ run'[r].status \in Waiting => run'[r].attempts < AttemptCap
    BY DEF AttemptsLeft, AttemptsBounded, Waiting
  <2>1. /\ run[r].attempts <= AttemptCap
        /\ run[r].status \in Waiting => run[r].attempts < AttemptCap
    BY DEF OutboxInv, AttemptsLeft, AttemptsBounded, Waiting
  <2>2. QED
    BY <1>0, <2>1, Bounds DEF QuietRow, Waiting
<1>7. LeasesKept'
  <2>1. \A i \in Instances, r \in Runs : job'[i][r].step # "none" => job[i][r].step # "none"
    BY <1>0 DEF QuietJob
  <2>2. ASSUME NEW i \in Instances, NEW r \in Runs, job'[i][r].step \in InHand
        PROVE  Owner(i, r)' /\ run'[r].claimedAt = tickAt'[i]
    <3>1. job'[i][r] = job[i][r] /\ Owner(i, r) /\ run[r].claimedAt = tickAt[i]
      BY <1>2, <2>2 DEF OutboxInv, LeasesKept
    <3>2. run'[r] = run[r]
      BY <1>1, <3>1 DEF Owner
    <3>3. QED
      BY <1>0, <3>1, <3>2 DEF Owner
  <2>3. \A i \in Instances, r \in Runs :
          job'[i][r].step = "recover" /\ Owner(i, r)' => tickAt'[i] > run'[r].claimedAt + Lease
    BY <1>0, <1>3 DEF OutboxInv, LeasesKept
  <2>4. \A i, j \in Instances, r \in Runs :
          job'[i][r].step \in InHand /\ job'[j][r].step \in InHand => i = j
    BY <1>2 DEF OutboxInv, LeasesKept
  <2>5. /\ \A i \in Instances : tickAt'[i] <= clock'
        /\ \A i \in Instances, r \in Runs :
             job'[i][r].step # "none" => clock' <= tickAt'[i] + TickSpan
    BY <1>0, <2>1 DEF OutboxInv, LeasesKept
  <2>6. QED
    BY <2>2, <2>3, <2>4, <2>5 DEF LeasesKept
<1>8. Deliveries'
  <2>1. \A r \in Runs : Credit(r)' <=> Credit(r)
    BY <1>1, <1>2 DEF Credit, InHand
  <2>2. QED
    BY <1>0, <2>1 DEF OutboxInv, Deliveries
<1>9. QED
  BY <1>4, <1>5, <1>6, <1>7, <1>8 DEF OutboxInv

-----------------------------------------------------------------------------
(* Steps of a sender                                                       *)

\* Nothing but run r, its job at i and what became of r changes.
SenderFrame(i, r) ==
  /\ \A s \in Runs \ {r} : run'[s] = run[s] /\ accepted'[s] = accepted[s] /\ lost'[s] = lost[s]
  /\ \A j \in Instances, s \in Runs : j # i \/ s # r => job'[j][s] = job[j][s]
  /\ UNCHANGED <<clock, tickAt>>

\* What a sender's step leaves in the row.
SenderRow(r) ==
  /\ run'[r].status # "ABSENT"
  /\ run[r].token <= run'[r].token
  /\ run'[r].status = "SENDING" /\ run'[r].token = run[r].token => run'[r] = run[r]
  /\ run'[r].status \in Open => run'[r].body
  /\ run'[r].status \in Ended \ {"FAILED"} => ~ run'[r].body
  /\ run'[r].attempts <= AttemptCap
  /\ run'[r].status \in Waiting => run'[r].attempts < AttemptCap

\* What it leaves in the job.
SenderJob(i, r) ==
  /\ job'[i][r].step # "recover"
  /\ job'[i][r].token <= run'[r].token
  /\ job'[i][r].step \in InHand =>
       /\ job[i][r].step # "none"
       /\ Owner(i, r)'
       /\ run'[r].claimedAt = tickAt[i]
       /\ job'[i][r].attempts = run'[r].attempts
  /\ job'[i][r].step \in InHand \cup {"none"}

\* Nobody else has the run in hand.
Alone(i, r) == \A j \in Instances \ {i} : job[j][r].step \notin InHand

Delivered(r) == accepted[r] = lost[r] + (IF Credit(r) THEN 1 ELSE 0)

\* Such a step keeps the invariant.
LEMMA SenderKeeps ==
  ASSUME OutboxInv, TypeOK', NEW i \in Instances, NEW r \in Runs,
         SenderFrame(i, r), SenderRow(r), SenderJob(i, r), Alone(i, r), Delivered(r)'
  PROVE  OutboxInv'
<1>0. /\ \A s \in Runs : run[s] \in RowType /\ run'[s] \in RowType
      /\ \A j \in Instances, s \in Runs : job[j][s] \in JobType /\ job'[j][s] \in JobType
  BY DEF OutboxInv, TypeOK
<1>1. BodyKeptWhileOpen'
  BY DEF OutboxInv, BodyKeptWhileOpen, SenderFrame, SenderRow
<1>2. TokensKept'
  <2>1. \A s \in Runs : run'[s].status = "ABSENT" => run'[s].token = 0
    BY DEF OutboxInv, TokensKept, SenderFrame, SenderRow
  <2>2. ASSUME NEW j \in Instances, NEW s \in Runs PROVE job'[j][s].token <= run'[s].token
    <3>1. CASE j = i /\ s = r
      BY <3>1 DEF SenderJob
    <3>2. CASE j # i \/ s # r
      <4>1. job'[j][s] = job[j][s] /\ job[j][s].token <= run[s].token
        BY <3>2 DEF SenderFrame, OutboxInv, TokensKept
      <4>2. run[s].token <= run'[s].token
        BY <1>0 DEF SenderFrame, SenderRow, RowType
      <4>3. run[s].token \in Nat /\ run'[s].token \in Nat /\ job[j][s].token \in Nat
        BY <1>0 DEF RowType, JobType
      <4>4. QED
        BY <4>1, <4>2, <4>3
    <3>3. QED
      BY <3>1, <3>2
  <2>3. ASSUME NEW j \in Instances, NEW s \in Runs,
               job'[j][s].step \in InHand \cup {"recover"}, Owner(j, s)'
        PROVE  job'[j][s].attempts = run'[s].attempts
    <3>1. CASE j = i /\ s = r
      BY <2>3, <3>1 DEF SenderJob
    <3>2. CASE j # i /\ s = r
      <4>1. job'[j][r] = job[j][r]
        BY <3>2 DEF SenderFrame
      <4>2. run'[r].status = "SENDING" /\ run'[r].token = job[j][r].token
        BY <2>3, <3>2, <4>1 DEF Owner
      <4>3. job[j][r].token <= run[r].token /\ run[r].token <= run'[r].token
        BY DEF OutboxInv, TokensKept, SenderRow
      <4>4. run'[r].token = run[r].token
        BY <1>0, <4>2, <4>3 DEF RowType, JobType
      <4>5. run'[r] = run[r]
        BY <4>2, <4>4 DEF SenderRow
      <4>6. QED
        BY <2>3, <3>2, <4>1, <4>2, <4>5 DEF OutboxInv, TokensKept, Owner
    <3>3. CASE s # r
      <4>1. job'[j][s] = job[j][s] /\ run'[s] = run[s]
        BY <3>3 DEF SenderFrame
      <4>2. QED
        BY <2>3, <4>1 DEF OutboxInv, TokensKept, Owner
    <3>4. QED
      BY <3>1, <3>2, <3>3
  <2>4. QED
    BY <2>1, <2>2, <2>3 DEF TokensKept
<1>3. AttemptsLeft'
  BY DEF OutboxInv, AttemptsLeft, AttemptsBounded, SenderFrame, SenderRow, Waiting
<1>4. LeasesKept'
  <2>1. \A j \in Instances : tickAt'[j] <= clock'
    BY DEF OutboxInv, LeasesKept, SenderFrame
  <2>2. \A j \in Instances, s \in Runs :
          job'[j][s].step # "none" => clock' <= tickAt'[j] + TickSpan
    <3>1. \A j \in Instances, s \in Runs : job'[j][s].step # "none" => job[j][s].step # "none"
      BY DEF SenderFrame, SenderJob
    <3>2. QED
      BY <3>1 DEF OutboxInv, LeasesKept, SenderFrame
  <2>3. \A s \in Runs, j \in Instances :
          job'[j][s].step \in InHand => \/ j = i /\ s = r
                                        \/ s # r /\ job'[j][s] = job[j][s] /\ run'[s] = run[s]
    BY DEF SenderFrame, Alone
  <2>4. \A j \in Instances, s \in Runs :
          job'[j][s].step \in InHand => Owner(j, s)' /\ run'[s].claimedAt = tickAt'[j]
    BY <2>3 DEF SenderFrame, SenderJob, OutboxInv, LeasesKept, Owner
  <2>5. ASSUME NEW j \in Instances, NEW s \in Runs,
               job'[j][s].step = "recover", Owner(j, s)'
        PROVE  tickAt'[j] > run'[s].claimedAt + Lease
    <3>1. job'[j][s] = job[j][s]
      BY <2>5 DEF SenderJob, SenderFrame
    <3>2. run'[s] = run[s]
      <4>1. CASE s # r
        BY <4>1 DEF SenderFrame
      <4>2. CASE s = r
        <5>1. run'[r].status = "SENDING" /\ run'[r].token = job[j][r].token
          BY <2>5, <3>1, <4>2 DEF Owner
        <5>2. job[j][r].token <= run[r].token /\ run[r].token <= run'[r].token
          BY DEF OutboxInv, TokensKept, SenderRow
        <5>3. run'[r].token = run[r].token
          BY <1>0, <5>1, <5>2 DEF RowType, JobType
        <5>4. QED
          BY <4>2, <5>1, <5>3 DEF SenderRow
      <4>3. QED
        BY <4>1, <4>2
    <3>3. QED
      BY <2>5, <3>1, <3>2 DEF OutboxInv, LeasesKept, Owner, SenderFrame
  <2>6. \A j, k \in Instances, s \in Runs :
          job'[j][s].step \in InHand /\ job'[k][s].step \in InHand => j = k
    BY <2>3 DEF OutboxInv, LeasesKept
  <2>7. QED
    BY <2>1, <2>2, <2>4, <2>5, <2>6 DEF LeasesKept
<1>5. Deliveries'
  <2>1. \A s \in Runs \ {r} : Delivered(s)'
    <3>1. \A s \in Runs \ {r} : Credit(s)' <=> Credit(s)
      BY DEF Credit, SenderFrame
    <3>2. \A s \in Runs \ {r} : Delivered(s)
      BY DEF OutboxInv, Deliveries, Delivered
    <3>3. QED
      BY <3>1, <3>2 DEF Delivered, SenderFrame
  <2>2. QED
    BY <2>1 DEF Deliveries, Delivered
<1>6. QED
  BY <1>1, <1>2, <1>3, <1>4, <1>5 DEF OutboxInv

\* The facts a sender's step starts from.
LEMMA Facts ==
  ASSUME OutboxInv, NEW i \in Instances, NEW r \in Runs
  PROVE  /\ run[r] \in RowType /\ job[i][r] \in JobType
         /\ tickAt[i] \in Nat /\ clock \in Nat
         /\ accepted[r] \in Nat /\ lost[r] \in Nat
         /\ run[r].attempts \in Nat /\ run[r].token \in Nat /\ run[r].claimedAt \in Nat
         /\ job[i][r].attempts \in Nat /\ job[i][r].token \in Nat
         /\ run[r].attempts <= AttemptCap
         /\ run[r].status \in Waiting => run[r].attempts < AttemptCap
         /\ run[r].status \in Open => run[r].body
         /\ Delivered(r)
BY DEF OutboxInv, TypeOK, RowType, JobType, AttemptsLeft, AttemptsBounded, Waiting,
       BodyKeptWhileOpen, Deliveries, Delivered

\* Whoever has a run in hand owns it, alone.
LEMMA HandFacts ==
  ASSUME OutboxInv, NEW i \in Instances, NEW r \in Runs, job[i][r].step \in InHand
  PROVE  /\ Owner(i, r) /\ Alone(i, r)
         /\ run[r].claimedAt = tickAt[i]
         /\ job[i][r].attempts = run[r].attempts
         /\ run[r].status = "SENDING"
BY DEF OutboxInv, LeasesKept, TokensKept, Alone, Owner

\* A done job and its row.
LEMMA DoneJob ==
  ASSUME TypeOK, NEW i \in Instances, NEW r \in Runs, Done(i, r),
         NEW row \in RowType, run' = [run EXCEPT ![r] = row],
         UNCHANGED <<clock, tickAt, ghosts>>
  PROVE  /\ SenderFrame(i, r)
         /\ run'[r] = row
         /\ SenderJob(i, r)
         /\ job'[i][r] = NoJob
<1>1. NoJob.step = "none" /\ NoJob.token = 0
  BY DEF NoJob
<1>2. job'[i][r] = NoJob /\ run'[r] = row
  BY DEF Done, TypeOK
<1>3. SenderFrame(i, r)
  BY DEF Done, TypeOK, SenderFrame, ghosts
<1>4. row.token \in Nat
  BY DEF RowType
<1>5. SenderJob(i, r)
  BY <1>1, <1>2, <1>4 DEF SenderJob, InHand
<1>6. QED
  BY <1>2, <1>3, <1>5

\* A run that is taken back has no live sender: its lease covers a tick.
LEMMA RecoverAlone ==
  ASSUME OutboxInv, NEW i \in Instances, NEW r \in Runs,
         job[i][r].step = "recover", Owner(i, r)
  PROVE  \A j \in Instances : job[j][r].step \notin InHand
<1> SUFFICES ASSUME NEW j \in Instances, job[j][r].step \in InHand
             PROVE  FALSE
  OBVIOUS
<1>1. run[r].claimedAt = tickAt[j] /\ clock <= tickAt[j] + TickSpan
  BY DEF OutboxInv, LeasesKept, InHand
<1>2. tickAt[i] <= clock /\ tickAt[i] > run[r].claimedAt + Lease
  BY DEF OutboxInv, LeasesKept
<1>3. /\ tickAt[i] \in Nat /\ tickAt[j] \in Nat /\ clock \in Nat
      /\ Lease \in Nat /\ TickSpan \in Nat /\ TickSpan <= Lease
  BY Facts, Bounds
<1>4. QED
  BY <1>1, <1>2, <1>3

LEMMA RecoverKeeps ==
  ASSUME OutboxInv, TypeOK', NEW i \in Instances, NEW r \in Runs, RecoverExpired(i, r)
  PROVE  OutboxInv'
<1>1. CASE ~ Owner(i, r)
  <2>1. run' = run /\ TypeOK /\ TokensKept
    BY <1>1 DEF RecoverExpired, OutboxInv
  <2>2. QED
    BY <2>1, PlanIsQuiet, QuietKeeps
<1>2. CASE Owner(i, r)
  <2> DEFINE row == IF job[i][r].attempts >= AttemptCap
                    THEN Failed(run[r], tickAt[i]) ELSE Queued(run[r], tickAt[i])
  <2>1. run' = [run EXCEPT ![r] = row] /\ Done(i, r)
        /\ UNCHANGED <<clock, tickAt, ghosts>> /\ TypeOK
    BY <1>2 DEF RecoverExpired, OutboxInv
  <2>2. job[i][r].step = "recover" /\ job[i][r].attempts = run[r].attempts
        /\ run[r].status = "SENDING"
    BY <1>2 DEF RecoverExpired, OutboxInv, TokensKept, Owner
  <2>3. row \in RowType
    BY Facts, RowForms, OwnerFacts
  <2>4. /\ row.token = run[r].token /\ row.attempts = run[r].attempts
        /\ row.body
        /\ \/ row.status = "FAILED"
           \/ row.status = "PENDING" /\ ~ (run[r].attempts >= AttemptCap)
    <3>1. run[r] \in RowType /\ run[r].body
      BY <2>2, Facts DEF Open
    <3>2. /\ Failed(run[r], tickAt[i]).body /\ Queued(run[r], tickAt[i]).body
      BY <3>1 DEF Failed, Queued, RowType
    <3>3. QED
      BY <2>2, <3>1, <3>2 DEF Failed, Queued, RowType
  <2> HIDE DEF row
  <2>5. SenderFrame(i, r) /\ run'[r] = row /\ SenderJob(i, r) /\ job'[i][r] = NoJob
    BY <2>1, <2>3, DoneJob
  <2>6. SenderRow(r)
    <3>1. run[r].token \in Nat /\ run[r].attempts \in Nat /\ AttemptCap \in Nat
          /\ run[r].attempts <= AttemptCap
      BY Facts, Bounds
    <3>2. QED
      BY <2>4, <2>5, <3>1 DEF SenderRow, Open, Waiting, Ended
  <2>7. \A j \in Instances : job[j][r].step \notin InHand
    BY <1>2, <2>2, RecoverAlone
  <2>8. Delivered(r)'
    <3>1. ~ Credit(r)
      BY <2>2, <2>7 DEF Credit, InHand
    <3>2. ~ Credit(r)'
      <4>1. \A j \in Instances : job'[j][r].step # "answered"
        BY <2>5, <2>7 DEF SenderFrame, NoJob, InHand
      <4>2. QED
        BY <2>4, <2>5, <4>1 DEF Credit
    <3>3. Delivered(r) /\ accepted' = accepted /\ lost' = lost
      BY <2>1, Facts DEF ghosts
    <3>4. accepted[r] = lost[r] + 0
      BY <3>1, <3>3 DEF Delivered
    <3>5. QED
      BY <3>2, <3>3, <3>4 DEF Delivered
  <2>9. QED
    BY <2>5, <2>6, <2>7, <2>8, SenderKeeps DEF Alone
<1>3. QED
  BY <1>1, <1>2

\* A job goes on with its run in hand.
LEMMA HandedOn ==
  ASSUME OutboxInv, TypeOK', NEW i \in Instances, NEW r \in Runs, NEW new,
         job[i][r].step \in InHand, new.step \in InHand,
         new.token = job[i][r].token, new.attempts = job[i][r].attempts,
         job' = [job EXCEPT ![i][r] = new],
         UNCHANGED <<run, clock, tickAt>>,
         \A s \in Runs \ {r} : accepted'[s] = accepted[s] /\ lost'[s] = lost[s],
         Delivered(r)'
  PROVE  OutboxInv'
<1>1. Alone(i, r) /\ Owner(i, r) /\ run[r].claimedAt = tickAt[i]
      /\ job[i][r].attempts = run[r].attempts /\ run[r].status = "SENDING"
  BY HandFacts
<1>2. job'[i][r] = new /\ \A j \in Instances, s \in Runs : j # i \/ s # r => job'[j][s] = job[j][s]
  BY DEF OutboxInv, TypeOK
<1>3. SenderFrame(i, r)
  BY <1>2 DEF SenderFrame
<1>4. SenderRow(r)
  <2>1. run[r].token <= run[r].token /\ run[r].body /\ run[r].attempts <= AttemptCap
    BY <1>1, Facts DEF Open
  <2>2. QED
    BY <1>1, <2>1 DEF SenderRow, Waiting, Ended
<1>5. SenderJob(i, r)
  <2>1. run[r].token <= run[r].token /\ job[i][r].token = run[r].token
    BY <1>1, Facts DEF Owner
  <2>2. Owner(i, r)'
    BY <1>1, <1>2 DEF Owner
  <2>3. QED
    BY <1>1, <1>2, <2>1, <2>2 DEF SenderJob, InHand
<1>6. QED
  BY <1>1, <1>3, <1>4, <1>5, SenderKeeps

\* While the answer is outstanding nothing is credited.
LEMMA NotYet ==
  ASSUME OutboxInv, NEW i \in Instances, NEW r \in Runs,
         job[i][r].step \in {"claimed", "sending"}
  PROVE  ~ Credit(r) /\ accepted[r] = lost[r]
<1>1. Alone(i, r) /\ run[r].status = "SENDING"
  BY HandFacts DEF InHand
<1>2. ~ Credit(r)
  BY <1>1 DEF Alone, Credit, InHand
<1>3. accepted[r] = lost[r] + 0 /\ lost[r] \in Nat
  BY <1>2, Facts DEF Delivered
<1>4. QED
  BY <1>2, <1>3

\* The answer that is written down.
LEMMA AnswerForm ==
  ASSUME TypeOK, NEW i \in Instances, NEW r \in Runs, NEW outcome, Answer(i, r, outcome)
  PROVE  \E new : /\ job' = [job EXCEPT ![i][r] = new]
                  /\ new.step = "answered" /\ new.outcome = outcome
                  /\ new.token = job[i][r].token /\ new.attempts = job[i][r].attempts
                  /\ job'[i][r] = new
                  /\ \A j \in Instances : j # i => job'[j][r] = job[j][r]
<1> DEFINE new == [job[i][r] EXCEPT !.step = "answered", !.outcome = outcome]
<1>1. job' = [job EXCEPT ![i][r] = new]
  BY DEF Answer, TypeOK, JobType
<1>2. new.step = "answered" /\ new.outcome = outcome
      /\ new.token = job[i][r].token /\ new.attempts = job[i][r].attempts
  BY DEF TypeOK, JobType
<1>3. job'[i][r] = new /\ \A j \in Instances : j # i => job'[j][r] = job[j][r]
  <2> HIDE DEF new
  <2> QED
    BY <1>1 DEF TypeOK
<1>4. QED
  <2> HIDE DEF new
  <2> QED
    BY <1>1, <1>2, <1>3

\* After an answer, the run is credited exactly if the answer was a success.
LEMMA AnswerCredit ==
  ASSUME OutboxInv, NEW i \in Instances, NEW r \in Runs,
         job[i][r].step \in {"claimed", "sending"}, NEW outcome,
         Answer(i, r, outcome), UNCHANGED run
  PROVE  Credit(r)' <=> outcome = "SUCCESS"
<1>1. Alone(i, r) /\ run[r].status = "SENDING"
  BY HandFacts DEF InHand
<1>2. /\ job'[i][r].step = "answered" /\ job'[i][r].outcome = outcome
      /\ \A j \in Instances : j # i => job'[j][r] = job[j][r]
  BY AnswerForm DEF OutboxInv
<1>3. QED
  BY <1>1, <1>2 DEF Credit, Alone, InHand

LEMMA ReadTargetKeeps ==
  ASSUME OutboxInv, TypeOK', NEW i \in Instances, NEW r \in Runs, ReadTarget(i, r)
  PROVE  OutboxInv'
<1>0. /\ job[i][r].step = "claimed" /\ TypeOK
      /\ UNCHANGED <<run, clock, tickAt, accepted, lost>>
  BY DEF ReadTarget, table, ghosts, OutboxInv
<1>1. accepted[r] = lost[r] /\ ~ Credit(r) /\ lost[r] \in Nat
  BY <1>0, NotYet, Facts
<1>2. CASE job' = [job EXCEPT ![i][r].step = "sending"]
  <2> DEFINE new == [job[i][r] EXCEPT !.step = "sending"]
  <2>1. job' = [job EXCEPT ![i][r] = new]
    BY <1>0, <1>2 DEF TypeOK, JobType
  <2>2. new.step = "sending" /\ new.token = job[i][r].token
        /\ new.attempts = job[i][r].attempts
    BY <1>0 DEF TypeOK, JobType
  <2> HIDE DEF new
  <2>3. \A j \in Instances : job'[j][r].step = "answered" => job'[j][r] = job[j][r]
    BY <1>0, <2>1, <2>2 DEF TypeOK
  <2>4. ~ Credit(r)'
    BY <1>0, <1>1, <2>3 DEF Credit
  <2>5. Delivered(r)'
    BY <1>0, <1>1, <2>4 DEF Delivered
  <2>6. QED
    <3>1. job[i][r].step \in InHand /\ new.step \in InHand
      BY <1>0, <2>2 DEF InHand
    <3>2. \A s \in Runs \ {r} : accepted'[s] = accepted[s] /\ lost'[s] = lost[s]
      BY <1>0
    <3>3. QED
      BY <1>0, <2>1, <2>2, <2>5, <3>1, <3>2, HandedOn
<1>3. CASE Answer(i, r, "PERMANENT")
  <2>1. PICK new : /\ job' = [job EXCEPT ![i][r] = new]
                   /\ new.step = "answered"
                   /\ new.token = job[i][r].token /\ new.attempts = job[i][r].attempts
    BY <1>0, <1>3, AnswerForm
  <2>2. ~ Credit(r)'
    BY <1>0, <1>3, AnswerCredit
  <2>3. Delivered(r)'
    BY <1>0, <1>1, <2>2 DEF Delivered
  <2>4. QED
    <3>1. job[i][r].step \in InHand /\ new.step \in InHand
      BY <1>0, <2>1 DEF InHand
    <3>2. \A s \in Runs \ {r} : accepted'[s] = accepted[s] /\ lost'[s] = lost[s]
      BY <1>0
    <3>3. QED
      BY <1>0, <2>1, <2>3, <3>1, <3>2, HandedOn
<1>4. QED
  BY <1>2, <1>3 DEF ReadTarget

LEMMA SendKeeps ==
  ASSUME OutboxInv, TypeOK', NEW i \in Instances, NEW r \in Runs,
         Send(i, r) \/ SendLate(i, r)
  PROVE  OutboxInv'
<1>0. /\ job[i][r].step = "sending" /\ TypeOK
      /\ UNCHANGED <<run, clock, tickAt>>
  BY DEF Send, SendLate, table, OutboxInv
<1>1. /\ accepted[r] = lost[r] /\ ~ Credit(r)
      /\ lost[r] \in Nat /\ accepted[r] \in Nat
      /\ lost \in [Runs -> Nat] /\ accepted \in [Runs -> Nat]
  BY <1>0, NotYet, Facts DEF TypeOK
<1>2. PICK outcome \in {"SUCCESS", "RETRY", "PERMANENT"} :
        /\ Answer(i, r, outcome)
        /\ \/ /\ accepted' = IF outcome = "SUCCESS"
                             THEN [accepted EXCEPT ![r] = accepted[r] + 1] ELSE accepted
              /\ lost' = lost
           \/ /\ outcome = "RETRY"
              /\ accepted' = [accepted EXCEPT ![r] = accepted[r] + 1]
              /\ lost' = [lost EXCEPT ![r] = lost[r] + 1]
  BY DEF Send, SendLate
<1>3. Credit(r)' <=> outcome = "SUCCESS"
  BY <1>0, <1>2, AnswerCredit
<1>4. Delivered(r)'
  BY <1>1, <1>2, <1>3 DEF Delivered
<1>5. PICK new : /\ job' = [job EXCEPT ![i][r] = new]
                 /\ new.step = "answered"
                 /\ new.token = job[i][r].token /\ new.attempts = job[i][r].attempts
  BY <1>0, <1>2, AnswerForm
<1>6. \A s \in Runs \ {r} : accepted'[s] = accepted[s] /\ lost'[s] = lost[s]
  BY <1>1, <1>2
<1>7. QED
  <2>1. job[i][r].step \in InHand /\ new.step \in InHand
    BY <1>0, <1>5 DEF InHand
  <2>2. QED
    BY <1>0, <1>4, <1>5, <1>6, <2>1, HandedOn

LEMMA FinalizeKeeps ==
  ASSUME OutboxInv, TypeOK', NEW i \in Instances, NEW r \in Runs, Finalize(i, r)
  PROVE  OutboxInv'
<1> DEFINE o == job[i][r].outcome
           row == Recorded(i, r)
<1>0. /\ job[i][r].step = "answered" /\ TypeOK /\ Done(i, r)
      /\ run' = [run EXCEPT ![r] = row]
      /\ UNCHANGED <<clock, tickAt, ghosts>>
  BY DEF Finalize, OutboxInv
<1>1. /\ Owner(i, r) /\ Alone(i, r) /\ run[r].status = "SENDING"
      /\ job[i][r].attempts = run[r].attempts
  BY <1>0, HandFacts DEF InHand
<1>2. /\ run[r] \in RowType /\ tickAt[i] \in Nat /\ run[r].body /\ run[r].token \in Nat
      /\ run[r].attempts \in Nat /\ run[r].attempts <= AttemptCap /\ AttemptCap \in Nat
      /\ tickAt[i] + Backoff \in Nat
  BY <1>1, Facts, Bounds DEF Open
<1>3. row \in RowType
  BY <1>1, <1>2, RowForms, OwnerFacts DEF Recorded, Ended
<1>4. /\ row.token = run[r].token /\ row.attempts = run[r].attempts
      /\ \/ row.status = "SUCCEEDED" /\ ~ row.body /\ o = "SUCCESS"
         \/ row.status = "FAILED" /\ o # "SUCCESS"
         \/ row.status = "PENDING" /\ row.body /\ ~ LastAttempt(i, r) /\ o # "SUCCESS"
  <2>1. CASE o = "SUCCESS"
    <3>1. row = Closed(run[r], "SUCCEEDED")
      BY <1>1, <2>1 DEF Recorded
    <3>2. QED
      BY <1>2, <2>1, <3>1 DEF Closed, RowType
  <2>2. CASE o # "SUCCESS" /\ (o = "PERMANENT" \/ LastAttempt(i, r))
    <3>1. row = Failed(run[r], tickAt[i])
      BY <1>1, <2>2 DEF Recorded
    <3>2. QED
      BY <1>2, <2>2, <3>1 DEF Failed, RowType
  <2>3. CASE o # "SUCCESS" /\ ~ (o = "PERMANENT" \/ LastAttempt(i, r))
    <3>1. row = Queued(run[r], tickAt[i] + Backoff)
      BY <1>1, <2>3 DEF Recorded
    <3>2. QED
      BY <1>2, <2>3, <3>1 DEF Queued, RowType
  <2>4. QED
    BY <2>1, <2>2, <2>3
<1> HIDE DEF row
<1>5. SenderFrame(i, r) /\ run'[r] = row /\ SenderJob(i, r) /\ job'[i][r] = NoJob
  BY <1>0, <1>3, DoneJob
<1>6. SenderRow(r)
  <2>1. row.status = "PENDING" => row.attempts < AttemptCap
    BY <1>1, <1>2, <1>4 DEF LastAttempt
  <2>2. QED
    BY <1>2, <1>4, <1>5, <2>1 DEF SenderRow, Open, Waiting, Ended
<1>7. \A j \in Instances : job'[j][r].step # "answered"
  BY <1>1, <1>5 DEF SenderFrame, Alone, NoJob, InHand
<1>8. Credit(r)' <=> Credit(r)
  <2>1. Credit(r)' <=> row.status = "SUCCEEDED"
    BY <1>5, <1>7 DEF Credit
  <2>2. Credit(r) <=> o = "SUCCESS"
    BY <1>0, <1>1 DEF Credit, Alone, InHand
  <2>3. QED
    BY <1>4, <2>1, <2>2
<1>9. Delivered(r)'
  BY <1>0, <1>8, Facts DEF Delivered, ghosts
<1>10. QED
  BY <1>1, <1>5, <1>6, <1>9, SenderKeeps

LEMMA ClaimKeeps ==
  ASSUME OutboxInv, TypeOK', NEW i \in Instances, NEW r \in Runs, Claim(i, r)
  PROVE  OutboxInv'
<1>0. TypeOK /\ job[i][r].step = "claim" /\ UNCHANGED <<clock, tickAt, ghosts>>
  BY DEF Claim, OutboxInv
<1>1. CASE ~ (run[r].status = "PENDING" /\ run[r].next <= tickAt[i])
  BY <1>0, <1>1, PlanIsQuiet, QuietKeeps DEF Claim
<1>2. CASE run[r].status = "PENDING" /\ run[r].next <= tickAt[i]
  <2> DEFINE row == [run[r] EXCEPT !.status = "SENDING", !.token = run[r].token + 1,
                       !.claimedAt = tickAt[i], !.attempts = run[r].attempts + 1]
             new == [NoJob EXCEPT !.step = "claimed", !.token = run[r].token + 1,
                       !.attempts = run[r].attempts + 1]
  <2>1. run' = [run EXCEPT ![r] = row] /\ job' = [job EXCEPT ![i][r] = new]
    BY <1>2 DEF Claim, OutboxInv, TypeOK, RowType
  <2>2. /\ row.status = "SENDING" /\ row.token = run[r].token + 1
        /\ row.claimedAt = tickAt[i] /\ row.attempts = run[r].attempts + 1
        /\ row.body = run[r].body
    BY Facts DEF RowType
  <2>3. new.step = "claimed" /\ new.token = run[r].token + 1
        /\ new.attempts = run[r].attempts + 1
    BY DEF NoJob
  <2> HIDE DEF row, new
  <2>4. /\ run'[r] = row /\ job'[i][r] = new
        /\ \A s \in Runs \ {r} : run'[s] = run[s]
        /\ \A j \in Instances, s \in Runs : j # i \/ s # r => job'[j][s] = job[j][s]
    BY <1>0, <2>1 DEF TypeOK
  <2>5. SenderFrame(i, r)
    BY <1>0, <2>4 DEF SenderFrame, ghosts
  <2>6. /\ run[r].token \in Nat /\ run[r].attempts \in Nat /\ AttemptCap \in Nat
        /\ run[r].attempts < AttemptCap /\ run[r].body
    BY <1>2, Facts, Bounds DEF Open, Waiting
  <2>7. SenderRow(r)
    <3>1. run'[r].body
      BY <2>2, <2>4, <2>6
    <3>2. run'[r].status = "SENDING" /\ run'[r].token # run[r].token
          /\ run[r].token <= run'[r].token /\ run'[r].attempts <= AttemptCap
      BY <2>2, <2>4, <2>6
    <3>3. QED
      BY <3>1, <3>2 DEF SenderRow, Waiting, Ended
  <2>8. SenderJob(i, r)
    <3>1. job'[i][r].token <= run'[r].token
      BY <2>2, <2>3, <2>4, <2>6
    <3>2. Owner(i, r)'
      BY <2>2, <2>3, <2>4 DEF Owner
    <3>3. QED
      BY <1>0, <2>2, <2>3, <2>4, <3>1, <3>2 DEF SenderJob, InHand
  <2>9. \A j \in Instances : job[j][r].step \notin InHand
    BY <1>2 DEF OutboxInv, LeasesKept, Owner
  <2>10. ~ Credit(r) /\ ~ Credit(r)'
    <3>1. \A j \in Instances : job[j][r].step # "answered" /\ job'[j][r].step # "answered"
      BY <2>3, <2>4, <2>9 DEF InHand
    <3>2. run[r].status # "SUCCEEDED" /\ run'[r].status # "SUCCEEDED"
      BY <1>2, <2>2, <2>4
    <3>3. QED
      BY <3>1, <3>2 DEF Credit
  <2>11. Delivered(r)'
    BY <1>0, <2>10, Facts DEF Delivered, ghosts
  <2>12. QED
    BY <2>5, <2>7, <2>8, <2>9, <2>11, SenderKeeps DEF Alone
<1>3. QED
  BY <1>1, <1>2

-----------------------------------------------------------------------------
(* A tick begins or is lost, time passes                                   *)

\* The rows stay as they are.
LEMMA SameTable ==
  ASSUME OutboxInv, UNCHANGED run
  PROVE  BodyKeptWhileOpen' /\ AttemptsLeft'
BY DEF OutboxInv, BodyKeptWhileOpen, AttemptsLeft, AttemptsBounded

LEMMA TickReadKeeps ==
  ASSUME OutboxInv, TypeOK', NEW i \in Instances, TickRead(i)
  PROVE  OutboxInv'
<1>0. /\ TypeOK
      /\ UNCHANGED <<clock, run, accepted, lost>>
      /\ tickAt' = [tickAt EXCEPT ![i] = clock]
      /\ \A r \in Runs : job[i][r].step = "none"
  BY DEF TickRead, table, ghosts, OutboxInv, Resting, Jobs
<1>1. /\ tickAt'[i] = clock
      /\ \A j \in Instances : j # i => tickAt'[j] = tickAt[j]
  BY <1>0 DEF TypeOK
<1>2. ASSUME NEW r \in Runs
      PROVE  \/ job'[i][r].step \in {"none", "ready"} /\ job'[i][r].token = 0
             \/ /\ job'[i][r].step = "recover" /\ job'[i][r].token = run[r].token
                /\ job'[i][r].attempts = run[r].attempts
                /\ r \in Abandoned(clock)
  <2>1. job'[i][r] = CASE r \in Due(clock) -> [NoJob EXCEPT !.step = "ready"]
            [] r \in Abandoned(clock) ->
                 [NoJob EXCEPT !.step = "recover", !.token = run[r].token,
                    !.attempts = run[r].attempts]
            [] OTHER -> NoJob
    BY DEF TickRead, OutboxInv, TypeOK
  <2>2. CASE r \in Due(clock)
    BY <2>1, <2>2 DEF NoJob, Due, Abandoned, With
  <2>3. CASE r \notin Due(clock) /\ r \in Abandoned(clock)
    BY <2>1, <2>3 DEF NoJob
  <2>4. CASE r \notin Due(clock) /\ r \notin Abandoned(clock)
    BY <2>1, <2>4 DEF NoJob
  <2>5. QED
    BY <2>2, <2>3, <2>4
<1>3. \A j \in Instances, r \in Runs : j # i => job'[j][r] = job[j][r]
  BY DEF TickRead, OutboxInv, TypeOK
<1>4. \A r \in Runs : r \in Abandoned(clock) => clock > run[r].claimedAt + Lease
  BY DEF Abandoned, LeaseExpired, With
<1>5. \A r \in Runs : run[r].token \in Nat /\ run[r].attempts \in Nat
  BY <1>0 DEF TypeOK, RowType
<1>6. TokensKept'
  <2>1. \A r \in Runs : run'[r].status = "ABSENT" => run'[r].token = 0
    BY <1>0 DEF OutboxInv, TokensKept
  <2>2. \A j \in Instances, r \in Runs : job'[j][r].token <= run'[r].token
    BY <1>0, <1>2, <1>3, <1>5 DEF OutboxInv, TokensKept
  <2>3. ASSUME NEW j \in Instances, NEW r \in Runs,
               job'[j][r].step \in InHand \cup {"recover"}, Owner(j, r)'
        PROVE  job'[j][r].attempts = run'[r].attempts
    <3>1. CASE j = i
      BY <1>0, <1>2, <2>3, <3>1 DEF InHand
    <3>2. CASE j # i
      BY <1>0, <1>3, <2>3, <3>2 DEF OutboxInv, TokensKept, Owner
    <3>3. QED
      BY <3>1, <3>2
  <2>4. QED
    BY <2>1, <2>2, <2>3 DEF TokensKept
<1>7. LeasesKept'
  <2>1. \A j \in Instances : tickAt'[j] <= clock'
    BY <1>0, <1>1 DEF OutboxInv, LeasesKept, TypeOK
  <2>2. \A j \in Instances, r \in Runs :
          job'[j][r].step # "none" => clock' <= tickAt'[j] + TickSpan
    <3>1. clock \in Nat /\ TickSpan \in Nat
      BY <1>0, Bounds DEF TypeOK
    <3>2. clock <= clock + TickSpan
      BY <3>1
    <3>3. QED
      BY <1>0, <1>1, <1>3, <3>2 DEF OutboxInv, LeasesKept
  <2>3. \A j \in Instances, r \in Runs : job'[j][r].step \in InHand => j # i
    BY <1>2 DEF InHand
  <2>4. \A j \in Instances, r \in Runs :
          job'[j][r].step \in InHand => Owner(j, r)' /\ run'[r].claimedAt = tickAt'[j]
    BY <1>0, <1>1, <1>3, <2>3 DEF OutboxInv, LeasesKept, Owner
  <2>5. ASSUME NEW j \in Instances, NEW r \in Runs,
               job'[j][r].step = "recover", Owner(j, r)'
        PROVE  tickAt'[j] > run'[r].claimedAt + Lease
    <3>1. CASE j = i
      BY <1>0, <1>1, <1>2, <1>4, <2>5, <3>1
    <3>2. CASE j # i
      BY <1>0, <1>1, <1>3, <2>5, <3>2 DEF OutboxInv, LeasesKept, Owner
    <3>3. QED
      BY <3>1, <3>2
  <2>6. \A j, k \in Instances, r \in Runs :
          job'[j][r].step \in InHand /\ job'[k][r].step \in InHand => j = k
    BY <1>3, <2>3 DEF OutboxInv, LeasesKept
  <2>7. QED
    BY <2>1, <2>2, <2>4, <2>5, <2>6 DEF LeasesKept
<1>8. Deliveries'
  <2>1. \A r \in Runs : job[i][r].step # "answered" /\ job'[i][r].step # "answered"
    BY <1>0, <1>2
  <2>2. \A r \in Runs : Credit(r)' <=> Credit(r)
    BY <1>0, <1>3, <2>1 DEF Credit
  <2>3. QED
    BY <1>0, <2>2 DEF OutboxInv, Deliveries
<1>9. QED
  BY <1>0, <1>6, <1>7, <1>8, SameTable DEF OutboxInv

LEMMA CrashKeeps ==
  ASSUME OutboxInv, TypeOK', NEW i \in Instances, Crash(i)
  PROVE  OutboxInv'
<1>0. /\ TypeOK
      /\ UNCHANGED <<clock, run, tickAt, accepted>>
      /\ \A r \in Runs : job'[i][r] = NoJob
      /\ \A j \in Instances, r \in Runs : j # i => job'[j][r] = job[j][r]
      /\ NoJob.step = "none" /\ NoJob.token = 0
  BY DEF Crash, table, OutboxInv, TypeOK, NoJob
<1>1. \A r \in Runs : run[r].token \in Nat
  BY <1>0 DEF TypeOK, RowType
<1>2. \A j \in Instances, r \in Runs :
        job'[j][r].step # "none" => j # i /\ job'[j][r] = job[j][r]
  BY <1>0
<1>3. TokensKept'
  <2>1. \A r \in Runs : run'[r].status = "ABSENT" => run'[r].token = 0
    BY <1>0 DEF OutboxInv, TokensKept
  <2>2. \A j \in Instances, r \in Runs : job'[j][r].token <= run'[r].token
    BY <1>0, <1>1 DEF OutboxInv, TokensKept
  <2>3. \A j \in Instances, r \in Runs :
          job'[j][r].step \in InHand \cup {"recover"} /\ Owner(j, r)' =>
            job'[j][r].attempts = run'[r].attempts
    BY <1>0, <1>2 DEF OutboxInv, TokensKept, Owner, InHand
  <2>4. QED
    BY <2>1, <2>2, <2>3 DEF TokensKept
<1>4. LeasesKept'
  BY <1>0, <1>2 DEF OutboxInv, LeasesKept, Owner, InHand
<1>5. Deliveries'
  <2> SUFFICES ASSUME NEW r \in Runs
               PROVE  Delivered(r)'
    BY DEF Deliveries, Delivered
  <2> DEFINE had == job[i][r].step = "answered" /\ job[i][r].outcome = "SUCCESS"
  <2>1. /\ lost'[r] = IF had THEN lost[r] + 1 ELSE lost[r]
        /\ accepted'[r] = accepted[r]
        /\ lost[r] \in Nat /\ accepted[r] \in Nat /\ Delivered(r)
    BY Facts DEF Crash
  <2>2. Credit(r)' => Credit(r)
    BY <1>0, <1>2 DEF Credit
  <2>3. CASE had
    <3>1. Alone(i, r) /\ run[r].status = "SENDING"
      BY <2>3, HandFacts DEF InHand
    <3>2. Credit(r)
      BY <2>3 DEF Credit
    <3>3. ~ Credit(r)'
      BY <1>0, <1>2, <3>1 DEF Credit, Alone, InHand
    <3>4. accepted[r] = lost[r] + 1
      BY <2>1, <3>2 DEF Delivered
    <3>5. QED
      BY <2>1, <2>3, <3>3, <3>4 DEF Delivered
  <2>4. CASE ~ had
    <3>1. Credit(r) => Credit(r)'
      BY <1>0, <2>4 DEF Credit
    <3>2. QED
      BY <2>1, <2>2, <2>4, <3>1 DEF Delivered
  <2>5. QED
    BY <2>3, <2>4
<1>6. QED
  BY <1>0, <1>3, <1>4, <1>5, SameTable DEF OutboxInv

LEMMA AdvanceKeeps ==
  ASSUME OutboxInv, TypeOK', Advance
  PROVE  OutboxInv'
<1>0. /\ TypeOK /\ clock' = clock + 1
      /\ UNCHANGED <<run, tickAt, job, accepted, lost>>
      /\ \A i \in Instances, r \in Runs :
           job[i][r].step # "none" => clock < tickAt[i] + TickSpan
  BY DEF Advance, table, ghosts, OutboxInv, Resting, Jobs
<1>1. clock \in Nat /\ TickSpan \in Nat /\ \A i \in Instances : tickAt[i] \in Nat
  BY <1>0, Bounds DEF TypeOK
<1>2. TokensKept' /\ Deliveries'
  BY <1>0 DEF OutboxInv, TokensKept, Deliveries, Credit, Owner
<1>3. LeasesKept'
  <2>1. \A i \in Instances : tickAt'[i] <= clock'
    BY <1>0, <1>1 DEF OutboxInv, LeasesKept
  <2>2. \A i \in Instances, r \in Runs :
          job'[i][r].step # "none" => clock' <= tickAt'[i] + TickSpan
    BY <1>0, <1>1
  <2>3. QED
    BY <1>0, <2>1, <2>2 DEF OutboxInv, LeasesKept, Owner
<1>4. QED
  BY <1>0, <1>2, <1>3, SameTable DEF OutboxInv

-----------------------------------------------------------------------------
(* The theorems                                                            *)

LEMMA InitInv == Init => OutboxInv
<1> SUFFICES ASSUME Init
             PROVE  OutboxInv
  OBVIOUS
<1>0. /\ \A r \in Runs : run[r].status = "ABSENT" /\ run[r].token = 0 /\ run[r].attempts = 0
      /\ \A i \in Instances, r \in Runs : job[i][r].step = "none" /\ job[i][r].token = 0
      /\ clock = 0 /\ \A i \in Instances : tickAt[i] = 0
      /\ \A r \in Runs : accepted[r] = 0 /\ lost[r] = 0
      /\ AttemptCap \in Nat \ {0}
  BY Bounds DEF Init, NoRow, NoJob
<1>1. BodyKeptWhileOpen
  BY <1>0 DEF BodyKeptWhileOpen, Open, Waiting, Ended
<1>2. TokensKept /\ AttemptsLeft /\ LeasesKept
  BY <1>0 DEF TokensKept, AttemptsLeft, AttemptsBounded, LeasesKept, InHand
<1>3. Deliveries
  BY <1>0 DEF Deliveries, Credit
<1>4. QED
  BY <1>1, <1>2, <1>3, InitType DEF OutboxInv

LEMMA DispatchKeeps ==
  ASSUME OutboxInv, TypeOK', NEW i \in Instances, DispatchStep(i)
  PROVE  OutboxInv'
<1>1. TypeOK
  BY DEF OutboxInv
<1>2. CASE TickRead(i)
  BY <1>2, TickReadKeeps
<1>3. CASE PlanClaims(i) \/ \E r \in Runs : HoldAtClaim(i, r) \/ SkipAtClaim(i, r)
  BY <1>1, <1>3, PlanIsQuiet, QuietKeeps
<1>4. CASE \E r \in Runs : \/ RecoverExpired(i, r) \/ Claim(i, r)
                           \/ ReadTarget(i, r) \/ Send(i, r) \/ Finalize(i, r)
  BY <1>4, RecoverKeeps, ClaimKeeps, ReadTargetKeeps, SendKeeps, FinalizeKeeps
<1>5. QED
  BY <1>2, <1>3, <1>4 DEF DispatchStep

LEMMA InvStep == OutboxInv /\ [Next]_vars => OutboxInv'
<1> SUFFICES ASSUME OutboxInv, [Next]_vars
             PROVE  OutboxInv'
  OBVIOUS
<1>1. TypeOK /\ TokensKept /\ TypeOK'
  BY TypeStep DEF OutboxInv
<1>2. CASE Next
  <2>1. CASE \E i \in Instances : DispatchStep(i)
    BY <1>1, <2>1, DispatchKeeps
  <2>2. CASE \E i \in Instances : Crash(i)
    BY <1>1, <2>2, CrashKeeps
  <2>3. CASE \E i \in Instances, r \in Runs : SendLate(i, r)
    BY <1>1, <2>3, SendKeeps
  <2>4. CASE \E q \in Requests : RequestStart(q) \/ RequestStep(q)
    BY <1>1, <2>4, CallIsQuiet, QuietKeeps
  <2>5. CASE Advance
    BY <1>1, <2>5, AdvanceKeeps
  <2>6. CASE \/ \E s \in Subscriptions, r \in Runs : EventInsert(s, r)
             \/ \E r \in Runs : RetryManual(r) \/ CancelManual(r)
             \/ Maintenance
             \/ SetEnabled \/ RemoveTarget \/ RefreshCache
             \/ \E s \in Subscriptions : RemoveSubscription(s)
    BY <1>1, <2>6, ConsoleIsQuiet, QuietKeeps
  <2>7. QED
    BY <1>2, <2>1, <2>2, <2>3, <2>4, <2>5, <2>6, NextCases
<1>3. CASE UNCHANGED vars
  <2>1. QuietStep
    BY <1>3, SameRows, SameJobs DEF vars, QuietStep, ghosts
  <2>2. QED
    BY <1>1, <2>1, QuietKeeps
<1>4. QED
  BY <1>2, <1>3

LEMMA Invariance == Spec => []OutboxInv
<1>1. Init => OutboxInv
  BY InitInv
<1>2. OutboxInv /\ [Next]_vars => OutboxInv'
  BY InvStep
<1>3. QED
  BY <1>1, <1>2, PTL DEF Spec

\* The receiver accepts a run once, and once more for every acceptance that
\* was lost, for any number of instances: leases never let two senders of one
\* run overlap.
THEOREM Delivery == Spec => []DeliveredOnce
<1>1. OutboxInv => DeliveredOnce
  <2> SUFFICES ASSUME OutboxInv, NEW r \in Runs
               PROVE  /\ accepted[r] <= lost[r] +
                           (IF run[r].status \in {"SENDING", "SUCCEEDED"} THEN 1 ELSE 0)
                      /\ run[r].status = "SUCCEEDED" => accepted[r] > 0
    BY DEF DeliveredOnce
  <2>1. Credit(r) => run[r].status \in {"SENDING", "SUCCEEDED"}
    BY HandFacts DEF Credit, InHand
  <2>2. Delivered(r) /\ accepted[r] \in Nat /\ lost[r] \in Nat
    BY DEF OutboxInv, Deliveries, Delivered, TypeOK
  <2>3. run[r].status = "SUCCEEDED" => Credit(r)
    BY DEF Credit
  <2>4. QED
    BY <2>1, <2>2, <2>3 DEF Delivered
<1>2. QED
  BY <1>1, Invariance, PTL

\* Whatever recoveries, retries and resends happen, a run is attempted no more
\* often than the cap.
THEOREM Attempts == Spec => []AttemptsBounded
<1>1. OutboxInv => AttemptsBounded
  BY DEF OutboxInv, AttemptsLeft
<1>2. QED
  BY <1>1, Invariance, PTL

\* The body of a run is there while it is needed and gone when it has ended.
THEOREM Bodies == Spec => []BodyKeptWhileOpen
<1>1. OutboxInv => BodyKeptWhileOpen
  BY DEF OutboxInv
<1>2. QED
  BY <1>1, Invariance, PTL

\* What a step may do to a row that has ended: a resend.
LEMMA EndStep ==
  ASSUME OutboxInv, [Next]_vars, NEW r \in Runs,
         run[r].status \in Ended, run'[r].status # run[r].status
  PROVE  run[r].status = "FAILED" /\ run[r].body /\ run'[r].status = "PENDING"
<1>0. TypeOK /\ TokensKept
  BY DEF OutboxInv
<1>1. ASSUME QuietStep
      PROVE  run[r].status = "FAILED" /\ run[r].body /\ run'[r].status = "PENDING"
  BY <1>1 DEF QuietStep, QuietRow, Waiting, Ended
<1>2. ASSUME NEW s \in Runs, run[s].status \in {"PENDING", "SENDING"},
             NEW row, run' = [run EXCEPT ![s] = row]
      PROVE  FALSE
  BY <1>0, <1>2 DEF TypeOK, Ended
<1>3. CASE run' = run
  BY <1>3
<1>4. CASE \E i \in Instances : DispatchStep(i)
  <2>1. PICK i \in Instances : DispatchStep(i)
    BY <1>4
  <2>2. CASE TickRead(i)
    BY <1>3, <2>2 DEF TickRead, table
  <2>3. CASE PlanClaims(i) \/ \E s \in Runs : HoldAtClaim(i, s) \/ SkipAtClaim(i, s)
    BY <1>0, <1>1, <2>3, PlanIsQuiet
  <2>4. CASE \E s \in Runs : RecoverExpired(i, s)
    BY <1>2, <1>3, <2>4 DEF RecoverExpired, Owner
  <2>5. CASE \E s \in Runs : Claim(i, s)
    <3>1. PICK s \in Runs : Claim(i, s)
      BY <2>5
    <3>2. CASE run[s].status = "PENDING" /\ run[s].next <= tickAt[i]
      <4> DEFINE row == [run[s] EXCEPT !.status = "SENDING", !.token = run[s].token + 1,
                       !.claimedAt = tickAt[i], !.attempts = run[s].attempts + 1]
      <4>1. run' = [run EXCEPT ![s] = row]
        BY <1>0, <3>1, <3>2 DEF Claim, TypeOK, RowType
      <4> HIDE DEF row
      <4>2. QED
        BY <1>2, <3>2, <4>1
    <3>3. CASE ~ (run[s].status = "PENDING" /\ run[s].next <= tickAt[i])
      BY <1>3, <3>1, <3>3 DEF Claim
    <3>4. QED
      BY <3>2, <3>3
  <2>6. CASE \E s \in Runs : ReadTarget(i, s) \/ Send(i, s)
    BY <1>3, <2>6 DEF ReadTarget, Send, table
  <2>7. CASE \E s \in Runs : Finalize(i, s)
    <3>1. PICK s \in Runs : Finalize(i, s)
      BY <2>7
    <3>2. run[s].status = "SENDING"
      BY <3>1, HandFacts DEF Finalize, InHand
    <3>3. QED
      BY <1>2, <3>1, <3>2 DEF Finalize
  <2>8. QED
    BY <2>1, <2>2, <2>3, <2>4, <2>5, <2>6, <2>7 DEF DispatchStep
<1>5. CASE \E i \in Instances : Crash(i) \/ \E s \in Runs : SendLate(i, s)
  BY <1>3, <1>5 DEF Crash, SendLate, table
<1>6. CASE Advance \/ UNCHANGED vars
  BY <1>3, <1>6 DEF Advance, table, vars
<1>7. CASE \E q \in Requests : RequestStart(q) \/ RequestStep(q)
  BY <1>0, <1>1, <1>7, CallIsQuiet
<1>8. CASE \/ \E s \in Subscriptions, t \in Runs : EventInsert(s, t)
           \/ \E t \in Runs : RetryManual(t) \/ CancelManual(t)
           \/ Maintenance
           \/ SetEnabled \/ RemoveTarget \/ RefreshCache
           \/ \E s \in Subscriptions : RemoveSubscription(s)
  BY <1>0, <1>1, <1>8, ConsoleIsQuiet
<1>9. QED
  BY <1>4, <1>5, <1>6, <1>7, <1>8, NextCases

\* A run that has ended stays as it ended, unless it failed, still has its
\* body and is sent again.
THEOREM Ends == Spec => EndIsFinal
<1>1. OutboxInv /\ [Next]_vars =>
        [\A r \in Runs :
           run[r].status \in Ended /\ run'[r].status # run[r].status
             => run[r].status = "FAILED" /\ run[r].body /\ run'[r].status = "PENDING"]_vars
  BY EndStep
<1>2. QED
  BY <1>1, Invariance, PTL DEF Spec, EndIsFinal

-----------------------------------------------------------------------------
(* Every run lives the life of a message                                   *)

LivesOn(r) == Life(r)' = Life(r) \/ Contract!Step(Life(r), Life(r)')

LEMMA StageFacts ==
  /\ Stage("ABSENT") = "none"
  /\ \A status \in Waiting : Stage(status) = "waiting"
  /\ Stage("SENDING") = "sending" /\ Stage("SUCCEEDED") = "sent"
  /\ Stage("FAILED") = "failed"
  /\ \A status \in {"SKIPPED", "CANCELLED", "EXPIRED"} : Stage(status) = "dropped"
  /\ \A status \in Open \cup Ended \cup {"ABSENT"} : Stage(status) \in Contract!Stages
BY DEF Stage, Waiting, Open, Ended, Contract!Stages

\* A run is heard of exactly if it is credited, while it is being sent.
LEMMA HeardIsCredit ==
  ASSUME OutboxInv, NEW r \in Runs
  PROVE  /\ Life(r).received = accepted[r] /\ Life(r).unheard = lost[r]
         /\ Life(r).stage = Stage(run[r].status)
         /\ Life(r) \in Contract!Lives
         /\ accepted[r] \in Nat /\ lost[r] \in Nat
         /\ accepted[r] = IF Credit(r) THEN lost[r] + 1 ELSE lost[r]
<1>1. run[r].status \in Open \cup Ended \cup {"ABSENT"} /\ accepted[r] \in Nat /\ lost[r] \in Nat
  BY DEF OutboxInv, TypeOK, RowType
<1>2. accepted[r] = lost[r] + (IF Credit(r) THEN 1 ELSE 0)
  BY DEF OutboxInv, Deliveries
<1>3. Life(r) \in Contract!Lives
  BY <1>1, StageFacts DEF Life, Contract!Lives
<1>4. QED
  BY <1>1, <1>2, <1>3 DEF Life

\* The rows of quiet steps.
LEMMA QuietLives ==
  ASSUME OutboxInv, QuietStep, NEW r \in Runs
  PROVE  LivesOn(r)
<1>1. accepted'[r] = accepted[r] /\ lost'[r] = lost[r]
  BY DEF QuietStep, ghosts
<1>2. QuietRow(r)
  BY DEF QuietStep
<1>3. CASE Stage(run'[r].status) = Stage(run[r].status)
  BY <1>1, <1>3 DEF LivesOn, Life
<1>4. CASE /\ Stage(run[r].status) = "none"
           /\ Stage(run'[r].status) \in {"waiting", "dropped"}
  BY <1>1, <1>4 DEF LivesOn, Life, Contract!Step, Contract!Enter, Contract!Moves
<1>5. CASE Stage(run[r].status) = "waiting" /\ Stage(run'[r].status) = "dropped"
  BY <1>1, <1>5 DEF LivesOn, Life, Contract!Step, Contract!Drop, Contract!Moves
<1>6. CASE Stage(run[r].status) = "failed" /\ Stage(run'[r].status) = "waiting"
  BY <1>1, <1>6 DEF LivesOn, Life, Contract!Step, Contract!Resend, Contract!Moves
<1>7. QED
  BY <1>2, <1>3, <1>4, <1>5, <1>6, StageFacts DEF QuietRow, Waiting

\* A run whose status and acceptances stay.
LEMMA RestLives ==
  ASSUME OutboxInv, NEW r \in Runs, run'[r].status = run[r].status,
         accepted'[r] = accepted[r], lost'[r] = lost[r]
  PROVE  LivesOn(r)
BY DEF LivesOn, Life

\* The end of a sending: as sent exactly if an acceptance was heard.
LEMMA ReportLives ==
  ASSUME OutboxInv, NEW r \in Runs, run[r].status = "SENDING",
         accepted'[r] = accepted[r], lost'[r] = lost[r],
         run'[r].status \in IF Credit(r) THEN {"SUCCEEDED"} ELSE {"PENDING", "FAILED"}
  PROVE  LivesOn(r)
<1>1. /\ Life(r).stage = "sending"
      /\ Life(r)'.received = Life(r).received /\ Life(r)'.unheard = Life(r).unheard
      /\ Life(r)'.stage = Stage(run'[r].status)
  BY StageFacts DEF Life
<1>2. Contract!Heard(Life(r)) <=> Credit(r)
  BY HeardIsCredit DEF Contract!Heard
<1>3. Stage(run'[r].status) \in IF Credit(r) THEN {"sent"} ELSE {"waiting", "failed"}
  BY StageFacts DEF Waiting
<1>4. Contract!Report(Life(r), Life(r)')
  BY <1>1, <1>2, <1>3 DEF Contract!Report, Contract!Moves
<1>5. QED
  BY <1>4 DEF LivesOn, Contract!Step

\* The receiver accepts a run in hand of which nothing was heard.
LEMMA DeliverLives ==
  ASSUME OutboxInv, NEW r \in Runs, run[r].status = "SENDING", UNCHANGED run,
         ~ Credit(r), accepted'[r] = accepted[r] + 1,
         lost'[r] \in {lost[r], lost[r] + 1}
  PROVE  LivesOn(r)
<1>1. /\ Life(r).stage = "sending" /\ Life(r)'.stage = "sending"
      /\ Life(r)'.received = accepted'[r] /\ Life(r)'.unheard = lost'[r]
  BY StageFacts DEF Life
<1>2. Contract!Deliver(Life(r), Life(r)')
  BY <1>1, HeardIsCredit DEF Contract!Deliver, Contract!Heard
<1>3. QED
  BY <1>2 DEF LivesOn, Contract!Step

\* The sender dies with what it heard.
LEMMA ForgetLives ==
  ASSUME OutboxInv, NEW r \in Runs, run[r].status = "SENDING", UNCHANGED run,
         Credit(r), accepted'[r] = accepted[r], lost'[r] = lost[r] + 1
  PROVE  LivesOn(r)
<1>1. /\ Life(r).stage = "sending" /\ Life(r)'.stage = "sending"
      /\ Life(r)'.received = accepted'[r] /\ Life(r)'.unheard = lost'[r]
  BY StageFacts DEF Life
<1>2. Contract!Forget(Life(r), Life(r)')
  BY <1>1, HeardIsCredit DEF Contract!Forget, Contract!Heard
<1>3. QED
  BY <1>2 DEF LivesOn, Contract!Step

LEMMA RecoverLives ==
  ASSUME OutboxInv, NEW i \in Instances, NEW s \in Runs, RecoverExpired(i, s), NEW r \in Runs
  PROVE  LivesOn(r)
<1>0. run \in [Runs -> RowType] /\ UNCHANGED <<accepted, lost>>
  BY DEF RecoverExpired, OutboxInv, TypeOK, ghosts
<1>1. CASE ~ Owner(i, s) \/ r # s
  <2>1. run'[r] = run[r]
    BY <1>0, <1>1 DEF RecoverExpired
  <2>2. QED
    BY <1>0, <2>1, RestLives
<1>2. CASE Owner(i, s) /\ r = s
  <2>1. run[r].status = "SENDING"
    BY <1>2 DEF Owner
  <2>2. ~ Credit(r)
    BY <1>2, <2>1, RecoverAlone DEF RecoverExpired, Credit, InHand
  <2>3. run'[r] = Failed(run[r], tickAt[i]) \/ run'[r] = Queued(run[r], tickAt[i])
    BY <1>0, <1>2 DEF RecoverExpired
  <2>4. run'[r].status \in {"PENDING", "FAILED"}
    BY <1>0, <2>3 DEF Failed, Queued, RowType
  <2>5. QED
    BY <1>0, <2>1, <2>2, <2>4, ReportLives
<1>3. QED
  BY <1>1, <1>2

LEMMA ClaimLives ==
  ASSUME OutboxInv, NEW i \in Instances, NEW s \in Runs, Claim(i, s), NEW r \in Runs
  PROVE  LivesOn(r)
<1>0. run \in [Runs -> RowType] /\ UNCHANGED <<accepted, lost>>
  BY DEF Claim, OutboxInv, TypeOK, ghosts
<1>1. CASE run'[r] = run[r]
  BY <1>0, <1>1, RestLives
<1>2. CASE run'[r] # run[r]
  <2>1. run[r].status = "PENDING" /\ run'[r].status = "SENDING"
    BY <1>0, <1>2 DEF Claim, RowType
  <2>2. Contract!Begin(Life(r), Life(r)')
    BY <1>0, <2>1, StageFacts DEF Life, Waiting, Contract!Begin, Contract!Moves
  <2>3. QED
    BY <2>2 DEF LivesOn, Contract!Step
<1>3. QED
  BY <1>1, <1>2

LEMMA SendLives ==
  ASSUME OutboxInv, NEW i \in Instances, NEW s \in Runs, Send(i, s) \/ SendLate(i, s),
         NEW r \in Runs
  PROVE  LivesOn(r)
<1>0. /\ accepted \in [Runs -> Nat] /\ lost \in [Runs -> Nat] /\ UNCHANGED run
      /\ job[i][s].step = "sending"
  BY DEF Send, SendLate, OutboxInv, TypeOK, table
<1>1. CASE accepted'[r] = accepted[r] /\ lost'[r] = lost[r]
  BY <1>0, <1>1, RestLives
<1>2. CASE ~ (accepted'[r] = accepted[r] /\ lost'[r] = lost[r])
  <2>1. /\ r = s /\ accepted'[r] = accepted[r] + 1
        /\ lost'[r] \in {lost[r], lost[r] + 1}
    BY <1>0, <1>2 DEF Send, SendLate
  <2>2. run[r].status = "SENDING" /\ ~ Credit(r)
    BY <1>0, <2>1, HandFacts, NotYet DEF InHand
  <2>3. QED
    BY <1>0, <2>1, <2>2, DeliverLives
<1>3. QED
  BY <1>1, <1>2

LEMMA FinalizeLives ==
  ASSUME OutboxInv, NEW i \in Instances, NEW s \in Runs, Finalize(i, s), NEW r \in Runs
  PROVE  LivesOn(r)
<1>0. /\ run \in [Runs -> RowType] /\ UNCHANGED <<accepted, lost>>
      /\ job[i][s].step = "answered"
  BY DEF Finalize, OutboxInv, TypeOK, ghosts
<1>1. CASE r # s
  BY <1>0, <1>1, RestLives DEF Finalize
<1>2. CASE r = s
  <2>1. /\ Owner(i, r) /\ Alone(i, r) /\ run[r].status = "SENDING"
    BY <1>0, <1>2, HandFacts DEF InHand
  <2>2. Credit(r) <=> job[i][r].outcome = "SUCCESS"
    BY <1>0, <1>2, <2>1 DEF Credit, Alone, InHand
  <2>3. run'[r] = Recorded(i, r)
    BY <1>0, <1>2 DEF Finalize
  <2>4. run'[r].status \in IF Credit(r) THEN {"SUCCEEDED"} ELSE {"PENDING", "FAILED"}
    <3>1. CASE Credit(r)
      BY <1>0, <2>1, <2>2, <2>3, <3>1 DEF Recorded, Closed, RowType
    <3>2. CASE ~ Credit(r)
      <4>1. run'[r] = Failed(run[r], tickAt[i]) \/ run'[r] = Queued(run[r], tickAt[i] + Backoff)
        BY <2>1, <2>2, <2>3, <3>2 DEF Recorded
      <4>2. QED
        BY <1>0, <3>2, <4>1 DEF Failed, Queued, RowType
    <3>3. QED
      BY <3>1, <3>2
  <2>5. QED
    BY <1>0, <2>1, <2>4, ReportLives
<1>3. QED
  BY <1>1, <1>2

LEMMA CrashLives ==
  ASSUME OutboxInv, NEW i \in Instances, Crash(i), NEW r \in Runs
  PROVE  LivesOn(r)
<1> DEFINE had == job[i][r].step = "answered" /\ job[i][r].outcome = "SUCCESS"
<1>1. /\ UNCHANGED run /\ accepted'[r] = accepted[r]
      /\ lost'[r] = IF had THEN lost[r] + 1 ELSE lost[r]
  BY DEF Crash, table
<1>2. CASE had
  <2>1. run[r].status = "SENDING" /\ Credit(r)
    BY <1>2, HandFacts DEF InHand, Credit
  <2>2. QED
    BY <1>1, <1>2, <2>1, ForgetLives
<1>3. CASE ~ had
  BY <1>1, <1>3, RestLives
<1>4. QED
  BY <1>2, <1>3

LEMMA DispatchLives ==
  ASSUME OutboxInv, NEW i \in Instances, DispatchStep(i), NEW r \in Runs
  PROVE  LivesOn(r)
<1>1. CASE TickRead(i)
  BY <1>1, RestLives DEF TickRead, table, ghosts
<1>2. CASE PlanClaims(i) \/ \E s \in Runs : HoldAtClaim(i, s) \/ SkipAtClaim(i, s)
  BY <1>2, PlanIsQuiet, QuietLives DEF OutboxInv
<1>3. CASE \E s \in Runs : RecoverExpired(i, s)
  BY <1>3, RecoverLives
<1>4. CASE \E s \in Runs : Claim(i, s)
  BY <1>4, ClaimLives
<1>5. CASE \E s \in Runs : ReadTarget(i, s)
  BY <1>5, RestLives DEF ReadTarget, table, ghosts
<1>6. CASE \E s \in Runs : Send(i, s)
  BY <1>6, SendLives
<1>7. CASE \E s \in Runs : Finalize(i, s)
  BY <1>7, FinalizeLives
<1>8. QED
  BY <1>1, <1>2, <1>3, <1>4, <1>5, <1>6, <1>7 DEF DispatchStep

LEMMA StepLives ==
  ASSUME OutboxInv, [Next]_vars, NEW r \in Runs
  PROVE  LivesOn(r)
<1>0. TypeOK /\ TokensKept
  BY DEF OutboxInv
<1>1. CASE UNCHANGED vars
  BY <1>1, RestLives DEF vars
<1>2. CASE \E i \in Instances : DispatchStep(i)
  BY <1>2, DispatchLives
<1>3. CASE \E i \in Instances : Crash(i)
  BY <1>3, CrashLives
<1>4. CASE \E i \in Instances, s \in Runs : SendLate(i, s)
  BY <1>4, SendLives
<1>5. CASE \E q \in Requests : RequestStart(q) \/ RequestStep(q)
  BY <1>0, <1>5, CallIsQuiet, QuietLives
<1>6. CASE Advance
  BY <1>6, RestLives DEF Advance, table, ghosts
<1>7. CASE \/ \E s \in Subscriptions, t \in Runs : EventInsert(s, t)
           \/ \E t \in Runs : RetryManual(t) \/ CancelManual(t)
           \/ Maintenance
           \/ SetEnabled \/ RemoveTarget \/ RefreshCache
           \/ \E s \in Subscriptions : RemoveSubscription(s)
  BY <1>0, <1>7, ConsoleIsQuiet, QuietLives
<1>8. QED
  BY <1>1, <1>2, <1>3, <1>4, <1>5, <1>6, <1>7, NextCases

\* The outbox implements MessageDelivery: with any number of instances, leases and
\* calls each run is posted again only while no acceptance was heard, is ended by
\* nobody but its sender while it is being sent, and is reported as sent exactly
\* if an acceptance was heard.
THEOREM DeliveryContract == Spec => DeliverySpec
<1>1. Init => Contract!Init
  BY StageFacts DEF Init, NoRow, Life, Contract!Init, Contract!Unborn
<1>2. OutboxInv /\ [Next]_vars => [Contract!Next]_([r \in Runs |-> Life(r)])
  <2> SUFFICES ASSUME OutboxInv, [Next]_vars
               PROVE  Contract!Next
    OBVIOUS
  <2>1. [r \in Runs |-> Life(r)]' \in [Runs -> Contract!Lives]
    <3>1. ASSUME NEW r \in Runs
          PROVE  /\ run'[r].status \in Open \cup Ended \cup {"ABSENT"}
                 /\ accepted'[r] \in Nat /\ lost'[r] \in Nat
      BY TypeStep DEF OutboxInv, TypeOK, RowType
    <3>2. ASSUME NEW r \in Runs PROVE Life(r)' \in Contract!Lives
      BY <3>1, StageFacts DEF Life, Contract!Lives
    <3>3. QED
      BY <3>2
  <2>2. \A r \in Runs : LivesOn(r)
    BY StepLives
  <2>3. QED
    BY <2>1, <2>2 DEF LivesOn, Contract!Next
<1>3. QED
  BY <1>1, <1>2, Invariance, PTL DEF Spec, DeliverySpec, Contract!Spec

-----------------------------------------------------------------------------
(* One instance does not exceed the limit of the target                    *)

\* The runs that are being sent and those a tick has planned to send.
InUse == With({"SENDING"}) \cup {r \in Runs : \E i \in Instances : job[i][r].step = "claim"}

\* Room is taken once, for the runs that are planned: what is not planned yet
\* and what is planned never stand side by side in one tick.
RoomTaken ==
  /\ Cardinality(InUse) <= Concurrent
  /\ \A i \in Instances : Jobs(i, {"ready"}) # {} => Jobs(i, {"claim"}) = {}

\* A step that plans nothing.
PlansNothing ==
  /\ \A r \in Runs : run'[r].status = "SENDING" => r \in InUse
  /\ \A i \in Instances, r \in Runs :
       job'[i][r].step = "claim" => job[i][r].step = "claim"
  /\ \A i \in Instances :
       \/ \A r \in Runs : job'[i][r].step # "claim"
       \/ \A r \in Runs : job'[i][r].step = "ready" => job[i][r].step = "ready"

LEMMA RoomKept ==
  ASSUME IsFiniteSet(Runs), Concurrent \in Nat, RoomTaken, PlansNothing
  PROVE  RoomTaken'
<1>1. InUse' \subseteq InUse /\ InUse \in SUBSET Runs
  BY DEF PlansNothing, InUse, With
<1>2. Cardinality(InUse') <= Cardinality(InUse) /\ Cardinality(InUse') \in Nat
  <2>1. IsFiniteSet(InUse)
    BY <1>1, FS_Subset
  <2>2. IsFiniteSet(InUse') /\ Cardinality(InUse') <= Cardinality(InUse)
    BY <1>1, <2>1, FS_Subset
  <2>3. QED
    BY <2>2, FS_CardinalityType
<1>3. Cardinality(InUse) \in Nat
  BY <1>1, FS_Subset, FS_CardinalityType
<1>4. Cardinality(InUse') <= Concurrent
  BY <1>2, <1>3 DEF RoomTaken
<1>5. ASSUME NEW i \in Instances, NEW r \in Runs, NEW s \in Runs,
             job'[i][r].step = "ready", job'[i][s].step = "claim"
      PROVE  FALSE
  <2>1. job[i][r].step = "ready" /\ job[i][s].step = "claim"
    BY <1>5 DEF PlansNothing
  <2>2. QED
    BY <2>1 DEF RoomTaken, Jobs
<1>6. QED
  BY <1>4, <1>5 DEF RoomTaken, Jobs

\* A quiet row is not claimed.
LEMMA QuietRowWaits ==
  ASSUME NEW r \in Runs, QuietRow(r), run'[r].status = "SENDING"
  PROVE  r \in InUse
BY DEF QuietRow, InUse, With, Waiting

LEMMA RowsPlanNothing ==
  ASSUME \A r \in Runs : QuietRow(r), UNCHANGED job
  PROVE  PlansNothing
BY QuietRowWaits DEF PlansNothing

\* A job that is done, with no row claimed.
LEMMA DonePlansNothing ==
  ASSUME TypeOK, NEW i \in Instances, NEW r \in Runs, Done(i, r),
         \A s \in Runs : run'[s].status = "SENDING" => s \in InUse
  PROVE  PlansNothing
<1>1. NoJob.step = "none"
  BY DEF NoJob
<1>2. \A j \in Instances, s \in Runs : job'[j][s] = job[j][s] \/ job'[j][s] = NoJob
  BY DEF Done, TypeOK
<1>3. QED
  BY <1>1, <1>2 DEF PlansNothing

\* A job that goes on, with no row written.
LEMMA StepPlansNothing ==
  ASSUME TypeOK, NEW i \in Instances, NEW r \in Runs, UNCHANGED run,
         NEW new, new.step \notin {"claim", "ready"},
         job' = [job EXCEPT ![i][r] = new]
  PROVE  PlansNothing
<1>1. \A j \in Instances, s \in Runs : job'[j][s] = job[j][s] \/ job'[j][s] = new
  BY DEF TypeOK
<1>2. QED
  BY <1>1 DEF PlansNothing, InUse, With

\* One planned run is claimed: it leaves the plan as it enters the sending.
LEMMA ClaimPlansNothing ==
  ASSUME TypeOK, NEW i \in Instances, NEW r \in Runs, Claim(i, r)
  PROVE  PlansNothing
<1>1. r \in InUse
  BY DEF Claim, InUse
<1>2. run \in [Runs -> RowType] /\ run[r] \in RowType
  BY DEF TypeOK
<1>3. \A s \in Runs : s # r => run'[s] = run[s]
  BY <1>2 DEF Claim
<1>4. \A s \in Runs : run'[s].status = "SENDING" => s \in InUse
  BY <1>1, <1>3 DEF InUse, With
<1>5. CASE Done(i, r)
  BY <1>4, <1>5, DonePlansNothing
<1>6. CASE job' = [job EXCEPT ![i][r] =
                     [NoJob EXCEPT !.step = "claimed", !.token = run[r].token + 1,
                        !.attempts = run[r].attempts + 1]]
  <2> DEFINE new == [NoJob EXCEPT !.step = "claimed", !.token = run[r].token + 1,
                       !.attempts = run[r].attempts + 1]
  <2>1. new.step = "claimed"
    BY DEF NoJob
  <2>2. \A j \in Instances, s \in Runs : job'[j][s] = job[j][s] \/ job'[j][s] = new
    <3>1. job' = [job EXCEPT ![i][r] = new]
      BY <1>6
    <3> HIDE DEF new
    <3>2. QED
      BY <3>1 DEF TypeOK
  <2>3. QED
    <3> HIDE DEF new
    <3> QED
      BY <1>4, <2>1, <2>2 DEF PlansNothing
<1>7. QED
  BY <1>5, <1>6 DEF Claim

\* The steps of a tick, except the planning.
LEMMA TickPlansNothing ==
  ASSUME OutboxInv, NEW i \in Instances,
         \/ TickRead(i)
         \/ \E r \in Runs : \/ RecoverExpired(i, r) \/ HoldAtClaim(i, r)
                            \/ SkipAtClaim(i, r) \/ Claim(i, r)
                            \/ ReadTarget(i, r) \/ Send(i, r) \/ Finalize(i, r)
  PROVE  PlansNothing
<1>0. TypeOK /\ run \in [Runs -> RowType]
  BY DEF OutboxInv, TypeOK
<1>1. CASE TickRead(i)
  <2>1. ASSUME NEW r \in Runs PROVE job'[i][r].step # "claim"
    <3>0. job'[i][r] = CASE r \in Due(clock) -> [NoJob EXCEPT !.step = "ready"]
            [] r \in Abandoned(clock) ->
                 [NoJob EXCEPT !.step = "recover", !.token = run[r].token,
                    !.attempts = run[r].attempts]
            [] OTHER -> NoJob
      BY <1>0, <1>1 DEF TickRead, TypeOK
    <3>1. CASE r \in Due(clock)
      BY <3>0, <3>1 DEF NoJob, Due, Abandoned, With
    <3>2. CASE r \notin Due(clock) /\ r \in Abandoned(clock)
      BY <3>0, <3>2 DEF NoJob
    <3>3. CASE r \notin Due(clock) /\ r \notin Abandoned(clock)
      <4>1. job'[i][r] = NoJob
        BY <3>0, <3>3
      <4>2. QED
        BY <4>1 DEF NoJob
    <3>4. QED
      BY <3>1, <3>2, <3>3
  <2>2. \A j \in Instances, r \in Runs : j # i => job'[j][r] = job[j][r]
    BY <1>0, <1>1 DEF TickRead, TypeOK
  <2>3. run' = run
    BY <1>1 DEF TickRead, table
  <2>4. QED
    BY <2>1, <2>2, <2>3 DEF PlansNothing, InUse, With
<1>2. ASSUME NEW r \in Runs, RecoverExpired(i, r) PROVE PlansNothing
  <2>1. \A s \in Runs : run'[s].status = "SENDING" => s \in InUse
    <3>1. CASE run' = run
      BY <3>1 DEF InUse, With
    <3>2. CASE Owner(i, r)
      BY <1>0, <1>2, <3>2 DEF RecoverExpired, Owner, InUse, With
    <3>3. QED
      BY <1>2, <3>1, <3>2 DEF RecoverExpired
  <2>2. QED
    BY <1>0, <1>2, <2>1, DonePlansNothing DEF RecoverExpired
<1>3. ASSUME NEW r \in Runs, HoldAtClaim(i, r) \/ SkipAtClaim(i, r) PROVE PlansNothing
  <2>1. QuietStep
    BY <1>0, <1>3, PlanIsQuiet
  <2>2. Done(i, r)
    BY <1>3 DEF HoldAtClaim, SkipAtClaim
  <2>3. QED
    BY <1>0, <2>1, <2>2, QuietRowWaits, DonePlansNothing DEF QuietStep
<1>4. ASSUME NEW r \in Runs, ReadTarget(i, r) \/ Send(i, r) PROVE PlansNothing
  <2>1. UNCHANGED run
    BY <1>4 DEF ReadTarget, Send, table
  <2>2. CASE \E outcome : Answer(i, r, outcome)
    BY <1>0, <2>1, <2>2, AnswerForm, StepPlansNothing
  <2>3. CASE job' = [job EXCEPT ![i][r].step = "sending"]
    <3> DEFINE new == [job[i][r] EXCEPT !.step = "sending"]
    <3>1. job' = [job EXCEPT ![i][r] = new]
      BY <1>0, <2>3 DEF TypeOK, JobType
    <3>2. new.step = "sending"
      BY <1>0 DEF TypeOK, JobType
    <3> HIDE DEF new
    <3>3. QED
      BY <1>0, <2>1, <3>1, <3>2, StepPlansNothing
  <2>4. QED
    BY <1>4, <2>2, <2>3 DEF ReadTarget, Send
<1>5. ASSUME NEW r \in Runs, Finalize(i, r) PROVE PlansNothing
  <2>1. run[r].status = "SENDING"
    BY <1>5, HandFacts DEF Finalize, InHand
  <2>2. \A s \in Runs : run'[s].status = "SENDING" => s \in InUse
    BY <1>0, <1>5, <2>1 DEF Finalize, InUse, With
  <2>3. QED
    BY <1>0, <1>5, <2>2, DonePlansNothing DEF Finalize
<1>6. QED
  BY <1>0, <1>1, <1>2, <1>3, <1>4, <1>5, ClaimPlansNothing

\* The planning of the only instance fills the room that is left.
LEMMA PlanFillsRoom ==
  ASSUME IsFiniteSet(Runs), Concurrent \in Nat, OutboxInv, RoomTaken,
         NEW i \in Instances, \A j \in Instances : j = i, PlanClaims(i)
  PROVE  RoomTaken'
<1> DEFINE sending == With({"SENDING"})
           ready == Jobs(i, {"ready"})
<1>1. PICK claims \in SUBSET ready :
        /\ Admitted(i, claims)
        /\ job' = [job EXCEPT ![i] =
             [r \in Runs |->
                IF job[i][r].step # "ready" THEN job[i][r]
                ELSE IF ~ enabled \/ Target \notin exists
                THEN [job[i][r] EXCEPT !.step = "skip"]
                ELSE IF Target \in paused
                THEN [job[i][r] EXCEPT !.step = "hold"]
                ELSE IF r \in claims
                THEN [job[i][r] EXCEPT !.step = "claim"]
                ELSE NoJob]]
  BY DEF PlanClaims
<1>2. \A r \in Runs :
        \/ job[i][r].step # "ready" /\ job'[i][r] = job[i][r]
        \/ /\ job[i][r].step = "ready"
           /\ \/ job'[i][r] \in {[job[i][r] EXCEPT !.step = "skip"],
                                 [job[i][r] EXCEPT !.step = "hold"], NoJob}
              \/ r \in claims /\ job'[i][r] = [job[i][r] EXCEPT !.step = "claim"]
  BY <1>1 DEF OutboxInv, TypeOK
<1>3. \A r \in Runs : /\ [job[i][r] EXCEPT !.step = "skip"].step = "skip"
                      /\ [job[i][r] EXCEPT !.step = "hold"].step = "hold"
                      /\ [job[i][r] EXCEPT !.step = "claim"].step = "claim"
                      /\ NoJob.step = "none"
  BY DEF OutboxInv, TypeOK, JobType, NoJob
<1>4. \A r \in Runs : job[i][r].step # "claim"
  BY DEF RoomTaken, PlanClaims, Jobs
<1>5. \A r \in Runs : job'[i][r].step # "ready"
  BY <1>2, <1>3, ZenonT(60)
<1>6. \A r \in Runs : job'[i][r].step = "claim" => r \in claims
  BY <1>2, <1>3, <1>4, ZenonT(60)
<1>7. InUse = sending /\ InUse' \subseteq sending \cup claims
  <2>1. run' = run
    BY DEF PlanClaims, table
  <2>2. QED
    BY <1>4, <1>6, <2>1 DEF InUse, With
<1>8. /\ IsFiniteSet(sending) /\ IsFiniteSet(claims) /\ IsFiniteSet(ready)
      /\ Cardinality(sending) \in Nat /\ Cardinality(claims) \in Nat
      /\ Cardinality(ready) \in Nat
  <2>1. sending \in SUBSET Runs /\ claims \in SUBSET Runs /\ ready \in SUBSET Runs
    BY DEF With, Jobs
  <2>2. QED
    BY <2>1, FS_Subset, FS_CardinalityType
<1>9. Cardinality(sending) <= Concurrent
  BY <1>7 DEF RoomTaken
<1>10. Cardinality(sending) + Cardinality(claims) <= Concurrent
  <2>1. Room \in Nat /\ Cardinality(sending) + Room = Concurrent
    <3> HIDE DEF sending
    <3>1. Room = IF Cardinality(sending) >= Concurrent THEN 0
                 ELSE Concurrent - Cardinality(sending)
      BY DEF Room, sending
    <3>2. QED
      BY <1>8, <1>9, <3>1
  <2>2. Cardinality(claims) = IF Room < Cardinality(ready) THEN Room ELSE Cardinality(ready)
    BY <1>1 DEF Admitted
  <2>3. QED
    <3> HIDE DEF sending, ready
    <3> QED
      BY <1>8, <2>1, <2>2
<1>11. Cardinality(InUse') <= Concurrent
  <2> HIDE DEF sending, ready
  <2>1. /\ IsFiniteSet(sending \cup claims)
        /\ Cardinality(sending \cup claims) =
             Cardinality(sending) + Cardinality(claims) - Cardinality(sending \cap claims)
    BY <1>8, FS_Union
  <2>2. Cardinality(sending \cap claims) \in Nat
    BY <1>8, FS_Subset, FS_CardinalityType
  <2>3. Cardinality(InUse') \in Nat /\ Cardinality(InUse') <= Cardinality(sending \cup claims)
    BY <1>7, <2>1, FS_Subset, FS_CardinalityType
  <2>4. QED
    BY <1>8, <1>10, <2>1, <2>2, <2>3
<1>12. QED
  BY <1>5, <1>11 DEF RoomTaken, Jobs

LEMMA RoomStep ==
  ASSUME IsFiniteSet(Runs), Concurrent \in Nat, \A i, j \in Instances : i = j,
         OutboxInv, RoomTaken, [Next]_vars
  PROVE  RoomTaken'
<1>0. TypeOK /\ TokensKept
  BY DEF OutboxInv
<1>1. ASSUME NEW i \in Instances, DispatchStep(i) PROVE RoomTaken'
  BY <1>1, PlanFillsRoom, TickPlansNothing, RoomKept DEF DispatchStep
<1>2. ASSUME NEW i \in Instances, Crash(i) PROVE PlansNothing
  <2>1. run' = run
    BY <1>2 DEF Crash, table
  <2>2. \A j \in Instances, r \in Runs : job'[j][r] = NoJob \/ job'[j][r] = job[j][r]
    BY <1>0, <1>2 DEF Crash, TypeOK
  <2>3. NoJob.step = "none"
    BY DEF NoJob
  <2>4. QED
    BY <2>1, <2>2, <2>3 DEF PlansNothing, InUse, With
<1>3. ASSUME NEW i \in Instances, NEW r \in Runs, SendLate(i, r) PROVE PlansNothing
  <2>1. UNCHANGED run /\ Answer(i, r, "RETRY")
    BY <1>3 DEF SendLate, table
  <2>2. QED
    BY <1>0, <2>1, AnswerForm, StepPlansNothing
<1>4. ASSUME NEW q \in Requests, RequestStart(q) \/ RequestStep(q) PROVE PlansNothing
  <2>1. UNCHANGED job
    BY <1>4 DEF RequestStart, RequestStep, NodeRead, Pause, Resume, NodeInsert, PauseHold,
                ResumeList, ReleaseRead, ReleaseWrite, ReleaseEnd
  <2>2. QED
    BY <1>0, <1>4, <2>1, CallIsQuiet, RowsPlanNothing DEF QuietStep
<1>5. ASSUME \/ \E s \in Subscriptions, r \in Runs : EventInsert(s, r)
             \/ \E r \in Runs : RetryManual(r) \/ CancelManual(r)
             \/ Maintenance
             \/ SetEnabled \/ RemoveTarget \/ RefreshCache
             \/ \E s \in Subscriptions : RemoveSubscription(s)
      PROVE  PlansNothing
  <2>1. UNCHANGED job
    BY <1>5 DEF EventInsert, RetryManual, CancelManual, Maintenance, ExpireOverdueHolds,
                PurgeFailedPayloads, SetEnabled, RemoveTarget, RefreshCache,
                RemoveSubscription
  <2>2. QED
    BY <1>0, <1>5, <2>1, ConsoleIsQuiet, RowsPlanNothing DEF QuietStep
<1>6. ASSUME Advance \/ UNCHANGED vars PROVE PlansNothing
  BY <1>6, SameRows, RowsPlanNothing DEF Advance, vars, table
<1>7. QED
  BY <1>1, <1>2, <1>3, <1>4, <1>5, <1>6, NextCases, RoomKept

\* One instance never has more runs of the target SENDING than the target
\* allows, though the load is counted before the claims and runs that a crash
\* left behind still count: the claims of a tick are taken out of the room that
\* was left when it planned.
THEOREM Concurrency ==
  ASSUME IsFiniteSet(Runs), \A i, j \in Instances : i = j
  PROVE  Spec => []ConcurrencyKept
<1>0. Concurrent \in Nat
  BY OutboxAssumption DEF OutboxAssumption
<1>1. Init => RoomTaken
  <2> SUFFICES ASSUME Init
               PROVE  RoomTaken
    OBVIOUS
  <2>1. NoRow.status = "ABSENT" /\ NoJob.step = "none"
    BY DEF NoRow, NoJob
  <2>2. InUse = {} /\ \A i \in Instances : Jobs(i, {"ready"}) = {}
    BY <2>1 DEF Init, InUse, With, Jobs
  <2>3. Cardinality(InUse) = 0
    BY <2>2, FS_EmptySet
  <2>4. QED
    BY <1>0, <2>2, <2>3 DEF RoomTaken
<1>2. OutboxInv /\ RoomTaken /\ [Next]_vars => RoomTaken'
  BY <1>0, RoomStep
<1>3. RoomTaken => ConcurrencyKept
  <2> SUFFICES ASSUME RoomTaken
               PROVE  Cardinality(With({"SENDING"})) <= Concurrent
    BY DEF ConcurrencyKept
  <2>1. InUse \in SUBSET Runs /\ With({"SENDING"}) \in SUBSET InUse
    BY DEF InUse, With
  <2>2. /\ Cardinality(With({"SENDING"})) <= Cardinality(InUse)
        /\ Cardinality(InUse) \in Nat /\ Cardinality(With({"SENDING"})) \in Nat
    BY <2>1, FS_Subset, FS_CardinalityType
  <2>3. QED
    BY <1>0, <2>2 DEF RoomTaken
<1>4. QED
  BY <1>1, <1>2, <1>3, Invariance, PTL DEF Spec

=============================================================================
