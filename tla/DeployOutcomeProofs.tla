------------------------ MODULE DeployOutcomeProofs -------------------------
(***************************************************************************)
(* What the row of a schedule shows is what was committed, for any number  *)
(* of schedules, instances and requests and any bounds.  Builds on the     *)
(* lease (LeaseInv) and on at-most-once (OnceInv).                         *)
(***************************************************************************)
EXTENDS DeployScheduleProofs

Settled == {"PENDING", "HELD", "FAILED", "MISSED"}
Committed == {"APPLIED", "RECOVERED"}

\* The token instance i works with was issued by the row it works on.
Issued(i) ==
  engine[i].pc \in LiveSteps =>
    /\ row[engine[i].sid].status # "ABSENT"
    /\ engine[i].gen <= row[engine[i].sid].gen

\* Who executes a row owns it, and only who executes commits.
Holds(i) ==
  /\ engine[i].pc = "claimed" => engine[i].kind = "EXECUTE"
  /\ engine[i].pc \in LiveSteps /\ engine[i].kind = "EXECUTE" => OwnsLease(i)

\* The outcome in the hands of an owner is what was committed.
Knows(i) ==
  engine[i].pc = "ran" /\ OwnsLease(i) /\ row[engine[i].sid].action \in Traced =>
    /\ engine[i].outcome # "NONE"
    /\ engine[i].outcome \in Committed <=> effects[engine[i].sid] = 1

\* No two instances work on a row with the same token.
Apart(i, j) ==
  ~ (/\ i # j
     /\ engine[i].pc \in LiveSteps /\ engine[j].pc \in LiveSteps
     /\ engine[i].sid = engine[j].sid
     /\ engine[i].gen = engine[j].gen)

\* What one row shows.
Shows(s) ==
  row[s].action \in Traced =>
    /\ row[s].status = "SUCCEEDED" =>
         (effects[s] = 1 <=> row[s].outcome \in Committed)
    /\ row[s].status \in Settled => effects[s] = 0

\* The inductive invariant behind OutcomeTruthful.
TruthInv ==
  /\ LeaseInv
  /\ OnceInv
  /\ \A i \in Instances : Issued(i) /\ Holds(i) /\ Knows(i)
  /\ \A i, j \in Instances : Apart(i, j)
  /\ \A s \in Schedules : Shows(s)

-----------------------------------------------------------------------------
(* Steps that execute nothing                                              *)

\* From x to y a row neither starts nor ends an execution.
Quiet(x, y) ==
  /\ x.status # "ABSENT" =>
       /\ y.status # "ABSENT"
       /\ y.gen = x.gen
       /\ y.action = x.action
       /\ y.status = "RUNNING" <=> x.status = "RUNNING"
       /\ y.status = "SUCCEEDED" => x.status = "SUCCEEDED" /\ y.outcome = x.outcome
       /\ y.status \in Settled => x.status \in Settled
  /\ x.status = "ABSENT" => y.status \in {"ABSENT", "PENDING", "HELD"}

QuietRow(s) == Quiet(row[s], row'[s])

\* Instance i goes on with what it has in hand, or has nothing.
QuietEngine(i) == engine'[i].pc \in LiveSteps => engine'[i] = engine[i]

LEMMA TruthKept ==
  ASSUME TruthInv, LeaseInv', OnceInv', effects' = effects,
         \A s \in Schedules : QuietRow(s),
         \A i \in Instances : QuietEngine(i)
  PROVE  TruthInv'
<1> USE DEF TruthInv
<1>1. ASSUME NEW i \in Instances PROVE (Issued(i) /\ Holds(i) /\ Knows(i))'
  <2>1. CASE engine'[i].pc \notin LiveSteps
    BY <2>1 DEF Issued, Holds, Knows, LiveSteps
  <2>2. CASE engine'[i].pc \in LiveSteps
    <3>1. engine'[i] = engine[i] /\ engine[i].pc \in LiveSteps
      BY <2>2 DEF QuietEngine
    <3>2. engine[i].sid \in Schedules
      BY <3>1 DEF LeaseInv, TypeOK, LiveSteps
    <3>3. QuietRow(engine[i].sid) /\ row[engine[i].sid].status # "ABSENT"
      BY <3>1, <3>2 DEF Issued
    <3>4. OwnsLease(i)' <=> OwnsLease(i)
      BY <3>1, <3>3 DEF OwnsLease, QuietRow, Quiet
    <3>5. Issued(i) /\ Holds(i) /\ Knows(i)
      OBVIOUS
    <3>6. QED
      BY <3>1, <3>3, <3>4, <3>5 DEF QuietRow, Quiet, Issued, Holds, Knows
  <2>3. QED
    BY <2>1, <2>2
<1>2. ASSUME NEW i \in Instances, NEW j \in Instances PROVE Apart(i, j)'
  <2>1. Apart(i, j) /\ QuietEngine(i) /\ QuietEngine(j)
    OBVIOUS
  <2>2. QED
    BY <2>1 DEF Apart, QuietEngine
<1>3. ASSUME NEW s \in Schedules PROVE Shows(s)'
  <2>1. Shows(s) /\ QuietRow(s)
    OBVIOUS
  <2>2. row[s].status = "ABSENT" => effects[s] = 0
    BY DEF OnceInv, Untouched
  <2>3. QED
    BY <2>1, <2>2 DEF Shows, QuietRow, Quiet, Settled
<1>4. QED
  BY <1>1, <1>2, <1>3

\* A row that stays as it is, is quiet.
LEMMA SameIsQuiet ==
  ASSUME NEW s, row'[s] = row[s]
  PROVE  QuietRow(s)
BY DEF QuietRow, Quiet

\* Holding the successors of a table is quiet.
LEMMA HoldIsQuiet ==
  ASSUME NEW rows \in [Schedules -> RowType], NEW trigger, NEW kinds,
         NEW t \in Schedules, NEW x, Quiet(x, rows[t])
  PROVE  Quiet(x, HoldSuccessors(rows, trigger, kinds)[t])
<1> DEFINE held == HoldSuccessors(rows, trigger, kinds)[t]
<1>1. \/ held = rows[t]
      \/ rows[t].status = "PENDING" /\ held = [rows[t] EXCEPT !.status = "HELD"]
  BY DEF HoldSuccessors
<1>2. CASE held = rows[t]
  BY <1>2
<1>3. CASE rows[t].status = "PENDING" /\ held = [rows[t] EXCEPT !.status = "HELD"]
  <2>1. rows[t] \in RowType
    OBVIOUS
  <2>2. /\ held.status = "HELD"
        /\ held.gen = rows[t].gen
        /\ held.action = rows[t].action
    BY <1>3, <2>1 DEF RowType
  <2>3. QED
    BY <1>3, <2>2 DEF Quiet, Settled
<1>4. QED
  BY <1>1, <1>2, <1>3

LEMMA HoldsQuietly ==
  ASSUME NEW rows \in [Schedules -> RowType], NEW trigger, NEW kinds,
         NEW T \in SUBSET Schedules,
         \A t \in T : Quiet(row[t], rows[t]),
         row' = rows \/ row' = HoldSuccessors(rows, trigger, kinds)
  PROVE  \A t \in T : QuietRow(t)
BY HoldIsQuiet DEF QuietRow

\* A console request that meets the row in the state it read.
LEMMA ConsoleIsQuiet ==
  ASSUME TypeOK, NEW r \in Requests, RequestWrite(r), WritesWaitingRow(r)
  PROVE  \A t \in Schedules : QuietRow(t)
<1> DEFINE s == request[r].sid
<1>1. CASE UpdateWrite(r)
  <2>1. PICK at \in 0..LastAt : row' = [row EXCEPT ![s].at = at]
    BY <1>1 DEF UpdateWrite
  <2>2. QED
    BY <2>1 DEF QuietRow, Quiet, TypeOK, RowType
<1>2. CASE CancelWrite(r)
  <2> DEFINE cancelled == [row EXCEPT ![s].status = "CANCELLED"]
  <2>1. s \in Schedules /\ row[s].status \in {"PENDING", "HELD"}
    BY <1>2 DEF CancelWrite, TypeOK, RowRequests, WritesWaitingRow
  <2>2. cancelled \in [Schedules -> RowType]
    BY <2>1, StatusType DEF TypeOK, Statuses, Terminal
  <2>3. \A t \in Schedules : Quiet(row[t], cancelled[t])
    BY <2>1 DEF TypeOK, RowType, Quiet, Settled
  <2>4. row' = cancelled \/ row' = HoldSuccessors(cancelled, row[s].at, {"RESTORE_VERSION"})
    BY <1>2 DEF CancelWrite
  <2>5. QED
    <3> HIDE DEF cancelled, s
    <3> QED
      BY <2>2, <2>3, <2>4, HoldsQuietly
<1>3. CASE ResumeWrite(r)
  <2>1. s \in Schedules /\ row[s].status = "HELD"
    BY <1>3 DEF ResumeWrite, TypeOK, RowRequests, WritesWaitingRow
  <2>2. PICK at \in 0..LastAt : \E base :
          row' = [row EXCEPT ![s] = [@ EXCEPT !.status = "PENDING", !.at = at,
                                       !.attempts = 0, !.expected = base]]
    BY <1>3 DEF ResumeWrite
  <2>3. QED
    BY <2>1, <2>2 DEF QuietRow, Quiet, Settled, TypeOK, RowType
<1>4. CASE EnableWrite(r)
  BY <1>4 DEF EnableWrite, QuietRow, Quiet, Settled, TypeOK, RowType
<1>5. CASE DisableWrite(r)
  BY <1>5 DEF DisableWrite, QuietRow, Quiet, Settled, TypeOK, RowType
<1>6. QED
  BY <1>1, <1>2, <1>3, <1>4, <1>5 DEF RequestWrite

-----------------------------------------------------------------------------
(* Steps of an execution                                                   *)

\* Claim and Reclaim: instance i gets a fresh token, and nobody executes s.
LEMMA TokenIssued ==
  ASSUME TruthInv, LeaseInv', OnceInv', effects' = effects,
         NEW i \in Instances, NEW s \in Schedules,
         row[s].status # "ABSENT",
         row'[s].status = "RUNNING",
         row'[s].gen = row[s].gen + 1,
         \A t \in Schedules \ {s} : row'[t] = row[t],
         engine'[i].sid = s,
         engine'[i].gen = row[s].gen + 1,
         engine'[i].pc \in {"claimed", "reclaimed"},
         engine'[i].pc = "claimed" => engine'[i].kind = "EXECUTE",
         \A j \in Instances \ {i} : engine'[j] = engine[j],
         \A j \in Instances \ {i} :
           engine[j].pc \in LiveSteps /\ engine[j].sid = s => engine[j].kind # "EXECUTE"
  PROVE  TruthInv'
<1> USE DEF TruthInv
<1>1. row[s].gen \in Nat
  BY DEF LeaseInv, TypeOK, RowType
<1>2. ASSUME NEW j \in Instances \ {i}, engine[j].pc \in LiveSteps
      PROVE  /\ engine[j].sid \in Schedules /\ engine[j].gen \in Nat
             /\ engine[j].sid = s => engine[j].gen <= row[s].gen
  BY <1>2 DEF LeaseInv, TypeOK, EngineType, LiveSteps, Issued
<1>3. (Issued(i) /\ Holds(i) /\ Knows(i))'
  BY <1>1 DEF Issued, Holds, Knows, OwnsLease
<1>4. ASSUME NEW j \in Instances \ {i} PROVE (Issued(j) /\ Holds(j) /\ Knows(j))'
  <2>1. CASE engine[j].pc \notin LiveSteps
    BY <2>1 DEF Issued, Holds, Knows, LiveSteps
  <2>2. CASE engine[j].pc \in LiveSteps /\ engine[j].sid # s
    <3>1. row'[engine[j].sid] = row[engine[j].sid]
      BY <1>2, <2>2
    <3>2. Issued(j) /\ Holds(j) /\ Knows(j)
      OBVIOUS
    <3>3. QED
      BY <3>1, <3>2 DEF Issued, Holds, Knows, OwnsLease
  <2>3. CASE engine[j].pc \in LiveSteps /\ engine[j].sid = s
    <3>1. engine[j].gen <= row[s].gen /\ engine[j].gen \in Nat
      BY <1>2, <2>3
    <3>2. ~ OwnsLease(j)'
      BY <1>1, <2>3, <3>1 DEF OwnsLease
    <3>3. Issued(j)'
      BY <1>1, <2>3, <3>1 DEF Issued
    <3>4. Holds(j)
      OBVIOUS
    <3>5. engine[j].kind # "EXECUTE"
      BY <2>3
    <3>6. QED
      BY <3>2, <3>3, <3>4, <3>5 DEF Holds, Knows
  <2>4. QED
    BY <2>1, <2>2, <2>3
<1>5. ASSUME NEW j \in Instances, NEW k \in Instances PROVE Apart(j, k)'
  <2>1. ASSUME NEW m \in Instances \ {i}, engine[m].pc \in LiveSteps, engine[m].sid = s
        PROVE  engine[m].gen # row[s].gen + 1
    BY <1>1, <1>2, <2>1
  <2>2. Apart(j, k)
    OBVIOUS
  <2>3. QED
    BY <2>1, <2>2 DEF Apart
<1>6. ASSUME NEW t \in Schedules PROVE Shows(t)'
  <2>1. Shows(t)
    OBVIOUS
  <2>2. QED
    BY <2>1 DEF Shows, Settled
<1>7. QED
  BY <1>3, <1>4, <1>5, <1>6

\* Execute, ExecuteBlocked and Judge: instance i now has an outcome.
LEMMA OutcomeKnown ==
  ASSUME TruthInv, LeaseInv', OnceInv', row' = row,
         NEW i \in Instances,
         engine[i].pc \in LiveSteps,
         engine'[i].pc = "ran",
         engine'[i].sid = engine[i].sid,
         engine'[i].gen = engine[i].gen,
         engine'[i].kind = engine[i].kind,
         \A j \in Instances \ {i} : engine'[j] = engine[j],
         \/ effects' = effects
         \/ /\ OwnsLease(i)
            /\ \A t \in Schedules \ {engine[i].sid} : effects'[t] = effects[t],
         Knows(i)'
  PROVE  TruthInv'
<1> DEFINE s == engine[i].sid
<1> USE DEF TruthInv
<1>1. s \in Schedules
  BY DEF LeaseInv, TypeOK, LiveSteps
<1>2. (Issued(i) /\ Holds(i))'
  <2>1. Issued(i) /\ Holds(i)
    OBVIOUS
  <2>2. QED
    BY <2>1 DEF Issued, Holds, OwnsLease, LiveSteps
<1>3. ASSUME NEW j \in Instances \ {i} PROVE (Issued(j) /\ Holds(j) /\ Knows(j))'
  <2>1. Issued(j) /\ Holds(j) /\ Knows(j) /\ Apart(i, j)
    OBVIOUS
  <2>2. (Issued(j) /\ Holds(j))'
    BY <2>1 DEF Issued, Holds, OwnsLease
  <2>3. ASSUME engine[j].pc = "ran", OwnsLease(j)
        PROVE  effects'[engine[j].sid] = effects[engine[j].sid]
    <3>1. engine[j].sid \in Schedules
      BY <2>3 DEF LeaseInv, TypeOK
    <3>2. OwnsLease(i) => engine[j].sid # s
      BY <2>1, <2>3 DEF OwnsLease, Apart, LiveSteps
    <3>3. QED
      BY <3>1, <3>2
  <2>4. Knows(j)'
    BY <2>1, <2>3 DEF Knows, OwnsLease
  <2>5. QED
    BY <2>2, <2>4
<1>4. ASSUME NEW j \in Instances, NEW k \in Instances PROVE Apart(j, k)'
  <2>1. Apart(j, k)
    OBVIOUS
  <2>2. QED
    BY <2>1 DEF Apart
<1>5. ASSUME NEW t \in Schedules PROVE Shows(t)'
  <2>1. Shows(t)
    OBVIOUS
  <2>2. CASE effects'[t] = effects[t]
    BY <2>1, <2>2 DEF Shows
  <2>3. CASE effects'[t] # effects[t]
    <3>1. t = s /\ OwnsLease(i)
      BY <2>3
    <3>2. QED
      BY <3>1 DEF OwnsLease, Shows, Settled
  <2>4. QED
    BY <2>2, <2>3
<1>6. QED
  BY <1>2, <1>3, <1>4, <1>5

\* Finalize: instance i, the owner, writes what it knows and rests.
LEMMA ResultShown ==
  ASSUME TruthInv, LeaseInv', OnceInv', effects' = effects,
         NEW i \in Instances, NEW s \in Schedules,
         engine[i].pc = "ran", engine[i].sid = s, OwnsLease(i),
         row'[s].status \notin {"ABSENT", "RUNNING"},
         row'[s].gen = row[s].gen,
         Shows(s)',
         \A t \in Schedules \ {s} : QuietRow(t),
         engine'[i].pc \notin LiveSteps,
         \A j \in Instances \ {i} : engine'[j] = engine[j]
  PROVE  TruthInv'
<1> USE DEF TruthInv
<1>1. (Issued(i) /\ Holds(i) /\ Knows(i))'
  BY DEF Issued, Holds, Knows, LiveSteps
<1>2. ASSUME NEW j \in Instances \ {i} PROVE (Issued(j) /\ Holds(j) /\ Knows(j))'
  <2>1. Issued(j) /\ Holds(j) /\ Knows(j) /\ Apart(i, j)
    OBVIOUS
  <2>2. CASE engine[j].pc \notin LiveSteps
    BY <2>2 DEF Issued, Holds, Knows, LiveSteps
  <2>3. CASE engine[j].pc \in LiveSteps /\ engine[j].sid = s
    <3>1. ~ OwnsLease(j)
      BY <2>1, <2>3 DEF Apart, OwnsLease, LiveSteps
    <3>2. engine[j].kind # "EXECUTE" /\ engine[j].pc # "claimed"
      BY <2>1, <2>3, <3>1 DEF Holds
    <3>3. ~ OwnsLease(j)'
      BY <2>3 DEF OwnsLease
    <3>4. QED
      BY <2>1, <2>3, <3>2, <3>3 DEF Issued, Holds, Knows
  <2>4. CASE engine[j].pc \in LiveSteps /\ engine[j].sid # s
    <3>1. engine[j].sid \in Schedules \ {s}
      BY <2>4 DEF LeaseInv, TypeOK, LiveSteps
    <3>2. QuietRow(engine[j].sid) /\ row[engine[j].sid].status # "ABSENT"
      BY <2>1, <2>4, <3>1 DEF Issued
    <3>3. OwnsLease(j)' <=> OwnsLease(j)
      BY <3>2 DEF OwnsLease, QuietRow, Quiet
    <3>4. QED
      BY <2>1, <3>2, <3>3 DEF QuietRow, Quiet, Issued, Holds, Knows
  <2>5. QED
    BY <2>2, <2>3, <2>4
<1>3. ASSUME NEW j \in Instances, NEW k \in Instances PROVE Apart(j, k)'
  <2>1. Apart(j, k)
    OBVIOUS
  <2>2. QED
    BY <2>1 DEF Apart
<1>4. ASSUME NEW t \in Schedules \ {s} PROVE Shows(t)'
  <2>1. Shows(t) /\ QuietRow(t)
    OBVIOUS
  <2>2. row[t].status = "ABSENT" => effects[t] = 0
    BY DEF OnceInv, Untouched
  <2>3. QED
    BY <2>1, <2>2 DEF Shows, QuietRow, Quiet, Settled
<1>5. QED
  BY <1>1, <1>2, <1>3, <1>4

\* There is one commit or none.
LEMMA OneOrNone ==
  ASSUME OnceInv, NEW s \in Schedules
  PROVE  effects[s] \in {0, 1}
<1>1. effects[s] \in Nat
  BY DEF OnceInv, TypeOK
<1>2. effects[s] <= 1
  BY DEF OnceInv, AppliedAtMostOnce
<1>3. QED
  BY <1>1, <1>2

\* A claim finds the row waiting, so nobody executes it.
LEMMA ClaimTruth ==
  ASSUME TruthInv, LeaseInv', OnceInv', NEW i \in Instances, Claim(i),
         Claimable(engine[i].sid, engine[i].attempts)
  PROVE  TruthInv'
<1> DEFINE s == engine[i].sid
<1> USE DEF TruthInv
<1>1. /\ s \in Schedules
      /\ row[s].status = "PENDING"
      /\ engine[i].kind = "EXECUTE"
      /\ effects' = effects
  BY DEF Claim, TakesUp, Claimable, LeaseInv, TypeOK
<1>2. /\ row'[s].status = "RUNNING"
      /\ row'[s].gen = row[s].gen + 1
      /\ \A t \in Schedules \ {s} : row'[t] = row[t]
  BY <1>1 DEF Claim, LeaseInv, TypeOK, RowType
<1>3. /\ engine'[i].pc = "claimed"
      /\ engine'[i].kind = "EXECUTE"
      /\ engine'[i].sid = s
      /\ engine'[i].gen = row[s].gen + 1
      /\ \A j \in Instances \ {i} : engine'[j] = engine[j]
  BY <1>1 DEF Claim, LeaseInv, TypeOK, EngineType
<1>4. ASSUME NEW j \in Instances \ {i}, engine[j].pc \in LiveSteps, engine[j].sid = s
      PROVE  engine[j].kind # "EXECUTE"
  BY <1>1, <1>4 DEF Holds, OwnsLease
<1>5. QED
  <2> HIDE DEF s, TruthInv
  <2> QED
    BY <1>1, <1>2, <1>3, <1>4, TokenIssued

\* A take-over finds a lease that is over, so the execution is gone.
LEMMA ReclaimTruth ==
  ASSUME TruthInv, LeaseInv', OnceInv', NEW i \in Instances, Reclaim(i),
         OwnsLease(i), LeaseExpired(engine[i].sid, engine[i].tickAt)
  PROVE  TruthInv'
<1> DEFINE s == engine[i].sid
<1> USE DEF TruthInv
<1>1. /\ s \in Schedules
      /\ row[s].status = "RUNNING"
      /\ effects' = effects
  BY DEF Reclaim, TakesUp, OwnsLease, LeaseInv, TypeOK
<1>2. /\ row'[s].status = "RUNNING"
      /\ row'[s].gen = row[s].gen + 1
      /\ \A t \in Schedules \ {s} : row'[t] = row[t]
  BY <1>1 DEF Reclaim, LeaseInv, TypeOK, RowType
<1>3. /\ engine'[i].pc = "reclaimed"
      /\ engine'[i].sid = s
      /\ engine'[i].gen = row[s].gen + 1
      /\ \A j \in Instances \ {i} : engine'[j] = engine[j]
  BY <1>1 DEF Reclaim, LeaseInv, TypeOK, EngineType
<1>4. ASSUME NEW j \in Instances \ {i}, engine[j].pc \in LiveSteps, engine[j].sid = s,
             engine[j].kind = "EXECUTE"
      PROVE  FALSE
  <2>1. OwnsLease(j) /\ LiveClaim(j) /\ engine[i].tickAt <= clock
    BY <1>4 DEF Holds, LeaseInv
  <2>2. /\ row[s].claimedAt = engine[j].tickAt
        /\ engine[j].began <= engine[j].tickAt + Deadline
        /\ clock <= engine[j].began + ExecSpan
    BY <1>4, <2>1 DEF OwnsLease, LiveClaim, LiveSteps
  <2>3. /\ clock \in Nat /\ engine[i].tickAt \in Nat
        /\ engine[j].tickAt \in Nat /\ engine[j].began \in Nat
    BY DEF LeaseInv, TypeOK, EngineType
  <2>4. engine[i].tickAt > engine[j].tickAt + Lease
    BY <2>2 DEF LeaseExpired
  <2>5. QED
    BY <2>1, <2>2, <2>3, <2>4, Bounds, LeaseAssumption DEF LeaseAssumption
<1>5. QED
  <2> HIDE DEF s, TruthInv
  <2> QED
    BY <1>1, <1>2, <1>3, <1>4, TokenIssued

\* An execution knows whether it committed.
LEMMA ExecuteTruth ==
  ASSUME TruthInv, LeaseInv', OnceInv', NEW i \in Instances,
         Execute(i) \/ ExecuteBlocked(i)
  PROVE  TruthInv'
<1> DEFINE s == engine[i].sid
<1> USE DEF TruthInv
<1>1. /\ s \in Schedules /\ engine[i].pc = "claimed"
      /\ MayApply(i, s)
      /\ OwnsLease(i)
      /\ row' = row
  BY DEF Execute, ExecuteBlocked, LeaseInv, TypeOK, MayApply, Holds, LiveSteps
<1>2. effects[s] = 0
  BY <1>1 DEF OnceInv
<1>3. /\ engine'[i].pc = "ran"
      /\ engine'[i].sid = s
      /\ engine'[i].gen = engine[i].gen
      /\ engine'[i].kind = engine[i].kind
      /\ \A j \in Instances \ {i} : engine'[j] = engine[j]
  BY DEF Execute, ExecuteBlocked, LeaseInv, TypeOK, EngineType
<1>4. /\ engine'[i].outcome # "NONE"
      /\ engine'[i].outcome \in Committed <=> effects'[s] = 1
      /\ \A t \in Schedules \ {s} : effects'[t] = effects[t]
  <2>1. CASE Execute(i) /\ Applies(s)
    <3>1. engine'[i].outcome = "APPLIED" /\ effects' = [effects EXCEPT ![s] = @ + 1]
      BY <2>1 DEF Execute, LeaseInv, TypeOK, EngineType
    <3>2. effects'[s] = 1 /\ \A t \in Schedules \ {s} : effects'[t] = effects[t]
      BY <1>1, <1>2, <3>1 DEF LeaseInv, TypeOK
    <3>3. QED
      BY <3>1, <3>2 DEF Committed
  <2>2. CASE Execute(i) /\ ~ Applies(s)
    <3>1. engine'[i].outcome \in {"PERMANENT", "NOOP"} /\ effects' = effects
      BY <2>2 DEF Execute, UnchangedOutcome, LeaseInv, TypeOK, EngineType
    <3>2. QED
      BY <1>2, <3>1 DEF Committed
  <2>3. CASE ExecuteBlocked(i)
    <3>1. engine'[i].outcome \in {"TRANSIENT", "PERMANENT"} /\ effects' = effects
      BY <2>3 DEF ExecuteBlocked, LeaseInv, TypeOK, EngineType
    <3>2. QED
      BY <1>2, <3>1 DEF Committed
  <2>4. QED
    BY <2>1, <2>2, <2>3
<1>5. Knows(i)'
  BY <1>3, <1>4 DEF Knows
<1>6. engine[i].pc \in LiveSteps
  BY <1>1 DEF LiveSteps
<1>7. QED
  <2> HIDE DEF TruthInv
  <2> QED
    BY <1>1, <1>3, <1>4, <1>5, <1>6, OutcomeKnown

\* A recovery reads off the trace whether there was a commit.
LEMMA JudgeTruth ==
  ASSUME TruthInv, LeaseInv', OnceInv', NEW i \in Instances, Judge(i)
  PROVE  TruthInv'
<1> DEFINE s == engine[i].sid
<1> USE DEF TruthInv
<1>1. s \in Schedules /\ engine[i].pc \in LiveSteps
  BY DEF Judge, LeaseInv, TypeOK, LiveSteps
<1>2. effects[s] \in {0, 1}
  BY <1>1, OneOrNone
<1>3. /\ engine'[i].pc = "ran"
      /\ engine'[i].sid = s
      /\ engine'[i].gen = engine[i].gen
      /\ engine'[i].kind = engine[i].kind
      /\ engine'[i].outcome = Verdict(s)
      /\ \A j \in Instances \ {i} : engine'[j] = engine[j]
      /\ row' = row /\ effects' = effects
  BY DEF Judge, LeaseInv, TypeOK, EngineType
<1>4. row[s].action \in Traced =>
        Verdict(s) # "NONE" /\ (Verdict(s) \in Committed <=> effects[s] = 1)
  BY <1>2 DEF Verdict, Committed
<1>5. Knows(i)'
  BY <1>3, <1>4 DEF Knows
<1>6. QED
  <2> HIDE DEF TruthInv
  <2> QED
    BY <1>1, <1>3, <1>5, OutcomeKnown

\* The owner writes its result; the rows behind a failure are held.
LEMMA FinalizeWrites ==
  ASSUME TypeOK, NEW i \in Instances, Finalize(i), OwnsLease(i),
         NEW s \in Schedules, s = engine[i].sid
  PROVE  /\ row'[s].status = Result(i)
         /\ row'[s].gen = row[s].gen
         /\ row'[s].action = row[s].action
         /\ Result(i) = "SUCCEEDED" => row'[s].outcome = engine[i].outcome
         /\ \E rows \in [Schedules -> RowType] :
              /\ \A t \in Schedules \ {s} : rows[t] = row[t]
              /\ row' = rows \/ row' = HoldSuccessors(rows, row[s].at, AllActions)
<1> DEFINE done == [row EXCEPT ![s].status = Result(i),
                      ![s].outcome = IF Result(i) = "SUCCEEDED"
                                     THEN engine[i].outcome ELSE @]
<1>1. row' = done \/ row' = HoldSuccessors(done, row[s].at, AllActions)
  BY DEF Finalize
<1>2. done \in [Schedules -> RowType]
  BY DoneType DEF Finalize
<1>3. /\ done[s].status = Result(i)
      /\ done[s].gen = row[s].gen
      /\ done[s].action = row[s].action
      /\ Result(i) = "SUCCEEDED" => done[s].outcome = engine[i].outcome
      /\ \A t \in Schedules \ {s} : done[t] = row[t]
  BY DEF TypeOK, RowType
<1>4. row'[s] = done[s]
  <2>1. Result(i) = "PENDING" => row' = done
    BY DEF Finalize
  <2>2. Result(i) # "PENDING" => row'[s] = done[s]
    <3> HIDE DEF done
    <3> QED
      BY <1>1, <1>3 DEF HoldSuccessors
  <2>3. QED
    BY <2>1, <2>2
<1>5. QED
  <2> HIDE DEF done
  <2> QED
    BY <1>1, <1>2, <1>3, <1>4

\* The owner writes what it knows; who lost the lease writes nothing.
LEMMA FinalizeTruth ==
  ASSUME TruthInv, LeaseInv', OnceInv', NEW i \in Instances, Finalize(i)
  PROVE  TruthInv'
<1>1. engine[i].pc = "ran" /\ TypeOK
  BY DEF Finalize, TruthInv, LeaseInv
<1>2. PICK s \in Schedules : s = engine[i].sid
  BY <1>1 DEF TypeOK
<1>3. /\ effects' = effects
      /\ engine'[i] = Idle
      /\ \A j \in Instances \ {i} : engine'[j] = engine[j]
  BY <1>1 DEF Finalize, Rest, TypeOK
<1>4. engine'[i].pc \notin LiveSteps
  BY <1>3 DEF Idle, LiveSteps
<1>5. CASE ~ OwnsLease(i)
  <2>1. row' = row
    BY <1>5 DEF Finalize
  <2>2. \A t \in Schedules : QuietRow(t)
    BY <2>1, SameIsQuiet
  <2>3. \A j \in Instances : QuietEngine(j)
    BY <1>3, <1>4 DEF QuietEngine
  <2>4. QED
    BY <1>3, <2>2, <2>3, TruthKept
<1>6. CASE OwnsLease(i)
  <2>1. PICK rows \in [Schedules -> RowType] :
          /\ \A t \in Schedules \ {s} : rows[t] = row[t]
          /\ row' = rows \/ row' = HoldSuccessors(rows, row[s].at, AllActions)
    BY <1>1, <1>2, <1>6, FinalizeWrites
  <2>2. Result(i) \in {"SUCCEEDED", "PENDING", "FAILED"}
    BY DEF Result
  <2>3. /\ row'[s].status = Result(i)
        /\ row'[s].gen = row[s].gen
        /\ row'[s].action = row[s].action
        /\ Result(i) = "SUCCEEDED" => row'[s].outcome = engine[i].outcome
    BY <1>1, <1>2, <1>6, FinalizeWrites
  <2>4. Shows(s)'
    <3>1. Knows(i)
      BY DEF TruthInv
    <3>2. effects[s] \in {0, 1}
      BY <1>1, OneOrNone DEF TruthInv
    <3>3. Result(i) = "SUCCEEDED" <=> engine[i].outcome \in {"APPLIED", "NOOP", "RECOVERED"}
      BY DEF Result
    <3>4. QED
      <4>1. row[s].action \in Traced =>
              (engine[i].outcome \in Committed <=> effects[s] = 1)
        BY <1>1, <1>2, <1>6, <3>1 DEF Knows
      <4>2. CASE Result(i) = "SUCCEEDED"
        BY <1>3, <2>3, <4>1, <4>2 DEF Shows, Settled
      <4>3. CASE Result(i) # "SUCCEEDED"
        <5>1. row[s].action \in Traced => effects[s] = 0
          BY <3>2, <3>3, <4>1, <4>3 DEF Committed
        <5>2. QED
          BY <1>3, <2>3, <4>3, <5>1 DEF Shows
      <4>4. QED
        BY <4>2, <4>3
  <2>5. \A t \in Schedules \ {s} : QuietRow(t)
    <3>1. \A t \in Schedules \ {s} : Quiet(row[t], rows[t])
      BY <2>1 DEF Quiet
    <3>2. QED
      BY <2>1, <3>1, HoldsQuietly
  <2>6. row'[s].status \notin {"ABSENT", "RUNNING"}
    BY <2>2, <2>3
  <2>7. QED
    BY <1>1, <1>2, <1>3, <1>4, <1>6, <2>3, <2>4, <2>5, <2>6, ResultShown
<1>7. QED
  BY <1>5, <1>6

-----------------------------------------------------------------------------
(* Every step                                                              *)

LEMMA EngineKeepsTruth ==
  ASSUME TruthInv, LeaseInv', OnceInv', NEW i \in Instances, EngineStep(i)
  PROVE  TruthInv'
<1> DEFINE s == engine[i].sid
<1>1. /\ TypeOK
      /\ engine[i].pc # "idle" => s \in Schedules
  BY DEF TruthInv, LeaseInv, TypeOK
<1>2. UNCHANGED row => \A t \in Schedules : QuietRow(t)
  BY SameIsQuiet
<1>3. Rest(i) => \A j \in Instances : QuietEngine(j)
  BY <1>1 DEF Rest, Idle, QuietEngine, LiveSteps, TypeOK
<1>4. CASE ReadDue(i)
  <2>1. \A j \in Instances : QuietEngine(j)
    <3>1. \E k, d, a, m, g :
            engine' = [engine EXCEPT ![i] =
                         [Idle EXCEPT !.pc = IF k THEN "planned" ELSE "due",
                            !.kind = IF k THEN "RECOVER" ELSE "NONE",
                            !.sid = d, !.at = a, !.gen = g,
                            !.attempts = m, !.tickAt = clock]]
      BY ZenonT(60), <1>4 DEF ReadDue
    <3>2. /\ engine'[i].pc \in {"planned", "due"}
          /\ \A j \in Instances \ {i} : engine'[j] = engine[j]
      BY <1>1, <3>1 DEF Idle, TypeOK
    <3>3. QED
      BY <3>2 DEF QuietEngine, LiveSteps
  <2>2. QED
    BY <1>2, <1>4, <2>1, TruthKept DEF ReadDue
<1>5. CASE PlanDecision(i)
  <2>1. PICK k : engine' = [engine EXCEPT ![i].pc = "planned", ![i].kind = k]
    BY <1>5 DEF PlanDecision
  <2>2. /\ engine'[i].pc = "planned"
        /\ \A j \in Instances \ {i} : engine'[j] = engine[j]
    BY <1>1, <2>1 DEF TypeOK, EngineType
  <2>3. \A j \in Instances : QuietEngine(j)
    BY <2>2 DEF QuietEngine, LiveSteps
  <2>4. QED
    BY <1>2, <1>5, <2>3, TruthKept DEF PlanDecision
<1>6. CASE DropDecision(i)
  BY <1>2, <1>3, <1>6, TruthKept DEF DropDecision
<1>7. CASE HoldBehindHeld(i)
  <2>1. \A t \in Schedules : QuietRow(t)
    BY <1>1, <1>7 DEF HoldBehindHeld, QuietRow, Quiet, Settled, TypeOK, RowType
  <2>2. QED
    BY <1>3, <1>7, <2>1, TruthKept DEF HoldBehindHeld
<1>8. CASE MarkMissed(i)
  <2> DEFINE missed == [row EXCEPT ![s].status = "MISSED"]
  <2>1. \A t \in Schedules : QuietRow(t)
    <3>1. CASE row[s].status = "PENDING" /\ row[s].attempts = 0
      <4>1. missed \in [Schedules -> RowType]
        BY <1>1, <1>8, StatusType DEF MarkMissed, TakesUp, TypeOK, Statuses, Terminal
      <4>2. \A t \in Schedules : Quiet(row[t], missed[t])
        BY <1>1, <3>1 DEF TypeOK, RowType, Quiet, Settled
      <4>3. row' = HoldSuccessors(missed, engine[i].at, AllActions)
        BY <1>8, <3>1 DEF MarkMissed
      <4>4. QED
        <5> HIDE DEF missed
        <5> QED
          BY <4>1, <4>2, <4>3, HoldsQuietly
    <3>2. CASE ~ (row[s].status = "PENDING" /\ row[s].attempts = 0)
      BY <1>2, <1>8, <3>2 DEF MarkMissed
    <3>3. QED
      BY <3>1, <3>2
  <2>2. QED
    BY <1>3, <1>8, <2>1, TruthKept DEF MarkMissed
<1>9. CASE ExpireRetry(i)
  <2> DEFINE failed == [row EXCEPT ![s].status = "FAILED"]
  <2>1. \A t \in Schedules : QuietRow(t)
    <3>1. CASE row[s].status = "PENDING" /\ row[s].attempts = engine[i].attempts
      <4>1. failed \in [Schedules -> RowType]
        BY <1>1, <1>9, StatusType DEF ExpireRetry, TakesUp, TypeOK, Statuses, Terminal
      <4>2. \A t \in Schedules : Quiet(row[t], failed[t])
        BY <1>1, <3>1 DEF TypeOK, RowType, Quiet, Settled
      <4>3. row' = HoldSuccessors(failed, engine[i].at, AllActions)
        BY <1>9, <3>1 DEF ExpireRetry
      <4>4. QED
        <5> HIDE DEF failed
        <5> QED
          BY <4>1, <4>2, <4>3, HoldsQuietly
    <3>2. CASE ~ (row[s].status = "PENDING" /\ row[s].attempts = engine[i].attempts)
      BY <1>2, <1>9, <3>2 DEF ExpireRetry
    <3>3. QED
      BY <3>1, <3>2
  <2>2. QED
    BY <1>3, <1>9, <2>1, TruthKept DEF ExpireRetry
<1>10. CASE Claim(i)
  <2>1. CASE ~ Claimable(s, engine[i].attempts)
    BY <1>2, <1>3, <1>10, <2>1, TruthKept DEF Claim
  <2>2. CASE Claimable(s, engine[i].attempts)
    BY <1>10, <2>2, ClaimTruth
  <2>3. QED
    BY <2>1, <2>2
<1>11. CASE Execute(i) \/ ExecuteBlocked(i)
  BY <1>11, ExecuteTruth
<1>12. CASE Reclaim(i)
  <2>1. CASE ~ (OwnsLease(i) /\ LeaseExpired(s, engine[i].tickAt))
    BY <1>2, <1>3, <1>12, <2>1, TruthKept DEF Reclaim
  <2>2. CASE OwnsLease(i) /\ LeaseExpired(s, engine[i].tickAt)
    BY <1>12, <2>2, ReclaimTruth
  <2>3. QED
    BY <2>1, <2>2
<1>13. CASE Judge(i)
  BY <1>13, JudgeTruth
<1>14. CASE Finalize(i)
  BY <1>14, FinalizeTruth
<1>15. QED
  BY <1>4, <1>5, <1>6, <1>7, <1>8, <1>9, <1>10, <1>11, <1>12, <1>13, <1>14
     DEF EngineStep

LEMMA TruthStep ==
  TruthInv /\ [Next]_vars /\ [\A r \in Requests : WritesWaitingRow(r)]_vars => TruthInv'
<1> SUFFICES ASSUME TruthInv, [Next]_vars,
                    [\A r \in Requests : WritesWaitingRow(r)]_vars
             PROVE  TruthInv'
  OBVIOUS
<1>1. TypeOK /\ LeaseInv' /\ OnceInv'
  BY LeaseStep, OnceStep DEF TruthInv, LeaseInv
<1>2. UNCHANGED engine => \A i \in Instances : QuietEngine(i)
  BY DEF QuietEngine
<1>3. UNCHANGED row => \A s \in Schedules : QuietRow(s)
  BY SameIsQuiet
<1>4. CASE UNCHANGED vars
  BY <1>1, <1>2, <1>3, <1>4, TruthKept DEF vars
<1>5. ASSUME NEW s \in Schedules, NEW a \in Actions, NEW at \in 0..LastAt,
             NEW c \in Contents, Create(s, a, at, c)
      PROVE  TruthInv'
  <2>1. /\ row[s].status = "ABSENT" /\ row'[s].status = "PENDING"
        /\ \A t \in Schedules \ {s} : row'[t] = row[t]
    BY <1>1, <1>5 DEF Create, TypeOK, NoRow
  <2>2. \A t \in Schedules : QuietRow(t)
    BY <2>1 DEF QuietRow, Quiet
  <2>3. QED
    BY <1>1, <1>2, <1>5, <2>2, TruthKept DEF Create
<1>6. ASSUME NEW r \in Requests, RequestStep(r) PROVE TruthInv'
  <2>1. CASE RequestWrite(r)
    <3>1. UNCHANGED <<engine, effects>>
      BY <2>1 DEF RequestWrite, UpdateWrite, CancelWrite, ResumeWrite,
                  EnableWrite, DisableWrite, ModeWrite
    <3>2. CASE ~ UNCHANGED vars
      <4>1. WritesWaitingRow(r)
        BY <3>2
      <4>2. \A t \in Schedules : QuietRow(t)
        BY <1>1, <2>1, <4>1, ConsoleIsQuiet
      <4>3. QED
        BY <1>1, <1>2, <3>1, <4>2, TruthKept
    <3>3. QED
      BY <1>4, <3>2
  <2>2. CASE ~ RequestWrite(r)
    <3>1. UNCHANGED <<row, engine, effects>>
      BY <1>6, <2>2 DEF RequestStep, UpdateRead, CancelRead, ResumeRead,
                        ReadRow, ModeRead, Refuse
    <3>2. QED
      BY <1>1, <1>2, <1>3, <3>1, TruthKept
  <2>3. QED
    BY <2>1, <2>2
<1>7. ASSUME NEW a \in Actions, EditAsset(a) PROVE TruthInv'
  BY <1>1, <1>2, <1>3, <1>7, TruthKept DEF EditAsset
<1>8. ASSUME NEW i \in Instances, EngineStep(i) PROVE TruthInv'
  BY <1>1, <1>8, EngineKeepsTruth
<1>9. ASSUME NEW i \in Instances, Crash(i) PROVE TruthInv'
  <2>1. \A j \in Instances : QuietEngine(j)
    BY <1>1, <1>9 DEF Crash, Rest, Idle, QuietEngine, LiveSteps, TypeOK
  <2>2. QED
    BY <1>1, <1>3, <1>9, <2>1, TruthKept DEF Crash
<1>10. CASE Advance
  BY <1>1, <1>2, <1>3, <1>10, TruthKept DEF Advance
<1>11. QED
  BY <1>4, <1>5, <1>6, <1>7, <1>8, <1>9, <1>10 DEF Next

LEMMA InitTruth == Init => TruthInv
<1> SUFFICES ASSUME Init PROVE TruthInv
  OBVIOUS
<1>1. TypeOK
  BY InitType
<1>2. LeaseInv
  BY <1>1 DEF Init, Idle, LeaseInv, LiveClaim
<1>3. \A i \in Instances, s \in Schedules : ~ MayApply(i, s)
  BY DEF Init, Idle, MayApply
<1>4. OnceInv
  BY <1>1, <1>3 DEF Init, OnceInv, AppliedAtMostOnce, Untouched
<1>5. QED
  BY <1>2, <1>4 DEF Init, Idle, NoRow, TruthInv, Issued, Holds, Knows, Apart,
                    Shows, Settled, LiveSteps

\* A schedule that shows APPLIED or RECOVERED has committed its change, and one
\* that shows NOOP, has failed, was missed or waits has not, however crashes,
\* retries and take-overs interleave (applyExecute, applyRecover,
\* judgeRecovery, finalize).  The recovery may trust the trace it finds because
\* the lease keeps it away from a live execution, and the result may trust its
\* token because no two instances share one.  As for AtMostOnce, a console
\* request must write the row only in a state that allows it.
THEOREM OutcomeIsTrue == Spec /\ WritesWaitingOnly => []OutcomeTruthful
<1>1. Init => TruthInv
  BY InitTruth
<1>2. TruthInv => OutcomeTruthful
  BY DEF TruthInv, Shows, OutcomeTruthful, Settled, Committed
<1>3. QED
  BY <1>1, <1>2, TruthStep, PTL DEF Spec, WritesWaitingOnly

-----------------------------------------------------------------------------
(* Every schedule lives the life of ScheduleLife                           *)

\* From x to y a row enters, waits, is held or given up, or stays in its stage.
Drift(x, y) ==
  \/ y.status = x.status /\ y.action = x.action /\ y.outcome = x.outcome
  \/ x.status = "ABSENT" /\ y.status = "PENDING"
  \/ /\ y.action = x.action
     /\ x.status = "PENDING" /\ y.status \in {"HELD", "FAILED", "MISSED", "CANCELLED"}
  \/ /\ y.action = x.action
     /\ x.status = "HELD" /\ y.status \in {"PENDING", "CANCELLED"}

DriftRow(s) == Drift(row[s], row'[s])

\* One step of the life of s, and whether it is a start.
LivesOn(s) == Life(s)' = Life(s) \/ Contract!Step(Life(s), Life(s)')
Begins(s) == Contract!Start(Life(s), Life(s)')

LEMMA StageOf ==
  ASSUME NEW x
  PROVE  /\ x.status = "ABSENT" => Stage(x) = "none"
         /\ x.status = "PENDING" => Stage(x) = "waiting"
         /\ x.status = "HELD" => Stage(x) = "held"
         /\ x.status = "RUNNING" => Stage(x) = "running"
         /\ x.status = "SUCCEEDED" =>
              /\ Stage(x) \in {"applied", "unchanged"}
              /\ Stage(x) = "applied" <=> x.outcome \in Committed
         /\ x.status = "FAILED" => Stage(x) = "failed"
         /\ x.status = "MISSED" => Stage(x) = "missed"
         /\ x.status = "CANCELLED" => Stage(x) = "cancelled"
BY DEF Stage, Committed

LEMMA LifeType ==
  ASSUME TypeOK, NEW s \in Schedules
  PROVE  Life(s) \in Contract!Lives
<1>1. row[s].status \in Statuses /\ effects[s] \in Nat
  BY DEF TypeOK, RowType
<1>2. Stage(row[s]) \in Contract!Stages
  BY <1>1, StageOf DEF Statuses, Active, Terminal, Contract!Stages
<1>3. QED
  BY <1>1, <1>2 DEF Life, Contract!Lives

\* A row that drifts takes a step of its life, and does not start.
LEMMA DriftLives ==
  ASSUME TypeOK, NEW s \in Schedules, effects' = effects, DriftRow(s)
  PROVE  LivesOn(s) /\ ~ Begins(s)
<1> DEFINE x == row[s]
           y == row'[s]
<1>1. /\ Life(s) = [stage |-> Stage(x), traced |-> x.action \in Traced,
                    commits |-> effects[s]]
      /\ Life(s)' = [stage |-> Stage(y), traced |-> y.action \in Traced,
                     commits |-> effects[s]]
  BY DEF Life, Stage
<1>2. CASE y.status = x.status /\ y.action = x.action /\ y.outcome = x.outcome
  <2>1. Stage(y) = Stage(x)
    BY <1>2 DEF Stage
  <2>2. Life(s)' = Life(s)
    BY <1>1, <1>2, <2>1
  <2>3. ~ Begins(s)
    BY <2>2 DEF Begins, Contract!Start, Contract!Moves
  <2>4. QED
    BY <2>2, <2>3 DEF LivesOn
<1>3. CASE x.status = "ABSENT" /\ y.status = "PENDING"
  <2>1. Stage(x) = "none" /\ Stage(y) = "waiting"
    BY <1>3, StageOf
  <2>2. Contract!Confirm(Life(s), Life(s)')
    BY <1>1, <2>1 DEF Contract!Confirm
  <2>3. ~ Begins(s)
    BY <1>1, <2>1 DEF Begins, Contract!Start, Contract!Moves
  <2>4. QED
    BY <2>2, <2>3 DEF LivesOn, Contract!Step
<1>4. CASE /\ y.action = x.action
           /\ x.status = "PENDING" /\ y.status \in {"HELD", "FAILED", "MISSED", "CANCELLED"}
  <2>1. Stage(x) = "waiting" /\ Stage(y) \in {"held", "failed", "missed", "cancelled"}
    BY <1>4, StageOf
  <2>2. \/ Contract!Hold(Life(s), Life(s)')
        \/ Contract!GiveUp(Life(s), Life(s)')
        \/ Contract!Cancel(Life(s), Life(s)')
    BY <1>1, <1>4, <2>1
       DEF Contract!Hold, Contract!GiveUp, Contract!Cancel, Contract!Moves
  <2>3. ~ Begins(s)
    BY <1>1, <2>1 DEF Begins, Contract!Start, Contract!Moves
  <2>4. QED
    BY <2>2, <2>3 DEF LivesOn, Contract!Step
<1>5. CASE /\ y.action = x.action
           /\ x.status = "HELD" /\ y.status \in {"PENDING", "CANCELLED"}
  <2>1. Stage(x) = "held" /\ Stage(y) \in {"waiting", "cancelled"}
    BY <1>5, StageOf
  <2>2. Contract!Resume(Life(s), Life(s)') \/ Contract!Cancel(Life(s), Life(s)')
    BY <1>1, <1>5, <2>1 DEF Contract!Resume, Contract!Cancel, Contract!Moves
  <2>3. ~ Begins(s)
    BY <1>1, <2>1 DEF Begins, Contract!Start, Contract!Moves
  <2>4. QED
    BY <2>2, <2>3 DEF LivesOn, Contract!Step
<1>6. QED
  BY <1>2, <1>3, <1>4, <1>5 DEF DriftRow, Drift

LEMMA SameDrifts ==
  ASSUME NEW s, row'[s] = row[s]
  PROVE  DriftRow(s)
BY DEF DriftRow, Drift

\* The rows behind a failure, a miss or a cancellation drift to HELD.
LEMMA HoldDrifts ==
  ASSUME NEW rows \in [Schedules -> RowType], NEW trigger, NEW kinds,
         NEW T \in SUBSET Schedules,
         \A t \in T : \/ rows[t] = row[t]
                      \/ rows[t].status # "PENDING" /\ Drift(row[t], rows[t]),
         row' = rows \/ row' = HoldSuccessors(rows, trigger, kinds)
  PROVE  \A t \in T : DriftRow(t)
<1> SUFFICES ASSUME NEW t \in T PROVE DriftRow(t)
  OBVIOUS
<1>1. Drift(row[t], rows[t])
  BY DEF Drift
<1>2. CASE row'[t] = rows[t]
  BY <1>1, <1>2 DEF DriftRow
<1>3. CASE row'[t] # rows[t]
  <2>1. /\ rows[t].status = "PENDING"
        /\ row'[t] = [rows[t] EXCEPT !.status = "HELD"]
    BY <1>3 DEF HoldSuccessors
  <2>2. rows[t] = row[t]
    BY <2>1
  <2>3. rows[t] \in RowType
    OBVIOUS
  <2>4. row'[t].status = "HELD" /\ row'[t].action = row[t].action
    BY <2>1, <2>2, <2>3 DEF RowType
  <2>5. QED
    BY <2>1, <2>2, <2>4 DEF DriftRow, Drift
<1>4. QED
  BY <1>2, <1>3

\* A console request that meets the row in the state it read.
LEMMA ConsoleDrifts ==
  ASSUME TypeOK, NEW r \in Requests, RequestWrite(r), WritesWaitingRow(r)
  PROVE  \A t \in Schedules : DriftRow(t)
<1> DEFINE s == request[r].sid
<1>1. CASE UpdateWrite(r)
  <2>1. PICK at \in 0..LastAt : row' = [row EXCEPT ![s].at = at]
    BY <1>1 DEF UpdateWrite
  <2>2. QED
    BY <2>1 DEF DriftRow, Drift, TypeOK, RowType
<1>2. CASE CancelWrite(r)
  <2> DEFINE cancelled == [row EXCEPT ![s].status = "CANCELLED"]
  <2>1. s \in Schedules /\ row[s].status \in {"PENDING", "HELD"}
    BY <1>2 DEF CancelWrite, TypeOK, RowRequests, WritesWaitingRow
  <2>2. cancelled \in [Schedules -> RowType]
    BY <2>1, StatusType DEF TypeOK, Statuses, Terminal
  <2>3. \A t \in Schedules \ {s} : cancelled[t] = row[t]
    BY DEF TypeOK
  <2>4. cancelled[s].status = "CANCELLED" /\ cancelled[s].action = row[s].action
    BY <2>1 DEF TypeOK, RowType
  <2>5. row' = cancelled \/ row' = HoldSuccessors(cancelled, row[s].at, {"RESTORE_VERSION"})
    BY <1>2 DEF CancelWrite
  <2>6. \A t \in Schedules : \/ cancelled[t] = row[t]
                             \/ cancelled[t].status # "PENDING" /\ Drift(row[t], cancelled[t])
    <3> HIDE DEF cancelled
    <3> QED
      BY <2>1, <2>3, <2>4 DEF Drift
  <2>7. QED
    <3> HIDE DEF cancelled, s
    <3> QED
      BY <2>2, <2>5, <2>6, HoldDrifts
<1>3. CASE ResumeWrite(r)
  <2>1. s \in Schedules /\ row[s].status = "HELD"
    BY <1>3 DEF ResumeWrite, TypeOK, RowRequests, WritesWaitingRow
  <2>2. PICK at \in 0..LastAt : \E base :
          row' = [row EXCEPT ![s] = [@ EXCEPT !.status = "PENDING", !.at = at,
                                       !.attempts = 0, !.expected = base]]
    BY <1>3 DEF ResumeWrite
  <2>3. QED
    BY <2>1, <2>2 DEF DriftRow, Drift, TypeOK, RowType
<1>4. CASE EnableWrite(r)
  BY <1>4 DEF EnableWrite, DriftRow, Drift, TypeOK, RowType
<1>5. CASE DisableWrite(r)
  BY <1>5 DEF DisableWrite, DriftRow, Drift, TypeOK, RowType
<1>6. QED
  BY <1>1, <1>2, <1>3, <1>4, <1>5 DEF RequestWrite

\* One step of the table: every schedule lives on, and who starts runs alone.
LifeMoves ==
  /\ \A s \in Schedules : LivesOn(s)
  /\ \A s, t \in Schedules :
       Begins(s) /\ t # s => row[t].status # "RUNNING" /\ row'[t].status # "RUNNING"

LEMMA DriftMoves ==
  ASSUME TypeOK, effects' = effects, \A s \in Schedules : DriftRow(s)
  PROVE  LifeMoves
BY DriftLives DEF LifeMoves

\* The claim finds the row waiting and nobody running.
LEMMA ClaimMoves ==
  ASSUME TypeOK, NEW i \in Instances, Claim(i),
         Claimable(engine[i].sid, engine[i].attempts)
  PROVE  LifeMoves
<1>1. PICK s \in Schedules : s = engine[i].sid
  BY DEF Claim, TakesUp, TypeOK
<1>2. /\ row[s].status = "PENDING"
      /\ \A t \in Schedules : row[t].status # "RUNNING"
      /\ effects' = effects
  BY <1>1 DEF Claimable, Claim
<1>3. /\ row'[s].status = "RUNNING"
      /\ row'[s].action = row[s].action
      /\ \A t \in Schedules \ {s} : row'[t] = row[t]
  BY <1>1 DEF Claim, TypeOK, RowType
<1>4. LivesOn(s)
  <2>1. Stage(row[s]) = "waiting" /\ Stage(row'[s]) = "running"
    BY <1>2, <1>3, StageOf
  <2>2. Life(s) = [stage |-> "waiting", traced |-> row[s].action \in Traced,
                   commits |-> effects[s]]
    BY <2>1 DEF Life
  <2>3. Life(s)' = [stage |-> "running", traced |-> row[s].action \in Traced,
                    commits |-> effects[s]]
    BY <1>2, <1>3, <2>1 DEF Life, Stage
  <2>4. Contract!Start(Life(s), Life(s)')
    BY <2>2, <2>3 DEF Contract!Start, Contract!Moves
  <2>5. QED
    BY <2>4 DEF LivesOn, Contract!Step
<1>5. ASSUME NEW t \in Schedules \ {s} PROVE LivesOn(t) /\ ~ Begins(t)
  BY <1>2, <1>3, SameDrifts, DriftLives
<1>6. QED
  BY <1>2, <1>3, <1>4, <1>5 DEF LifeMoves

\* A change is committed by the owner of a row that has committed nothing.
LEMMA ExecuteMoves ==
  ASSUME TruthInv, NEW i \in Instances, Execute(i)
  PROVE  LifeMoves
<1> USE DEF TruthInv
<1>1. PICK s \in Schedules : s = engine[i].sid
  BY DEF Execute, LeaseInv, TypeOK
<1>2. /\ row[s].status = "RUNNING"
      /\ MayApply(i, s)
      /\ row' = row /\ TypeOK
  BY <1>1 DEF Execute, Holds, OwnsLease, MayApply, LiveSteps, LeaseInv
<1>3. CASE ~ Applies(s)
  <2>1. effects' = effects
    BY <1>1, <1>3 DEF Execute
  <2>2. QED
    BY <1>2, <2>1, SameDrifts, DriftMoves
<1>4. CASE Applies(s)
  <2>1. /\ effects[s] = 0 /\ effects'[s] = 1
        /\ \A t \in Schedules \ {s} : effects'[t] = effects[t]
    <3>1. effects[s] = 0
      BY <1>2 DEF OnceInv
    <3>2. effects' = [effects EXCEPT ![s] = @ + 1]
      BY <1>1, <1>4 DEF Execute
    <3>3. QED
      BY <1>2, <3>1, <3>2 DEF TypeOK
  <2>2. Stage(row[s]) = "running"
    BY <1>2, StageOf
  <2>3. Life(s) = [stage |-> "running", traced |-> row[s].action \in Traced, commits |-> 0]
    BY <2>1, <2>2 DEF Life
  <2>4. Life(s)' = [stage |-> "running", traced |-> row[s].action \in Traced, commits |-> 1]
    BY <1>2, <2>1, <2>2 DEF Life, Stage
  <2>5. Contract!Commit(Life(s), Life(s)') /\ ~ Begins(s)
    BY <2>3, <2>4 DEF Contract!Commit, Begins, Contract!Start, Contract!Moves
  <2>6. ASSUME NEW t \in Schedules \ {s} PROVE LivesOn(t) /\ ~ Begins(t)
    <3>1. Life(t)' = Life(t)
      BY <1>2, <2>1 DEF Life, Stage
    <3>2. QED
      BY <3>1 DEF LivesOn, Begins, Contract!Start, Contract!Moves
  <2>7. QED
    BY <2>5, <2>6 DEF LifeMoves, LivesOn, Contract!Step
<1>5. QED
  BY <1>3, <1>4

\* What the owner reports is what it committed, and what goes back to the queue
\* has committed nothing.
LEMMA FinalizeMoves ==
  ASSUME TruthInv, OnceInv', NEW i \in Instances, Finalize(i)
  PROVE  LifeMoves
<1>1. engine[i].pc = "ran" /\ TypeOK /\ effects' = effects
  BY DEF Finalize, TruthInv, LeaseInv
<1>2. PICK s \in Schedules : s = engine[i].sid
  BY <1>1 DEF TypeOK
<1>3. CASE ~ OwnsLease(i)
  BY <1>1, <1>3, SameDrifts, DriftMoves DEF Finalize
<1>4. CASE OwnsLease(i)
  <2> DEFINE o == engine[i].outcome
  <2>1. PICK rows \in [Schedules -> RowType] :
          /\ \A t \in Schedules \ {s} : rows[t] = row[t]
          /\ row' = rows \/ row' = HoldSuccessors(rows, row[s].at, AllActions)
    BY <1>1, <1>2, <1>4, FinalizeWrites
  <2>2. /\ row'[s].status = Result(i)
        /\ row'[s].action = row[s].action
        /\ Result(i) = "SUCCEEDED" => row'[s].outcome = o
    BY <1>1, <1>2, <1>4, FinalizeWrites
  <2>3. \A t \in Schedules \ {s} : DriftRow(t)
    BY <2>1, HoldDrifts
  <2>4. /\ Result(i) \in {"SUCCEEDED", "PENDING", "FAILED"}
        /\ Result(i) = "SUCCEEDED" <=> o \in {"APPLIED", "NOOP", "RECOVERED"}
    BY DEF Result
  <2>5. row[s].action \in Traced => (o \in Committed <=> effects[s] = 1)
    BY <1>1, <1>2, <1>4 DEF TruthInv, Knows
  <2>6. Result(i) = "PENDING" => effects[s] = 0
    BY <1>1, <2>2 DEF OnceInv, Untouched
  <2>7. Stage(row'[s]) \in {"applied", "unchanged", "failed", "waiting"}
    BY <2>2, <2>4, StageOf
  <2>8. Stage(row'[s]) = "applied" <=> o \in Committed
    BY <2>2, <2>4, StageOf DEF Committed
  <2>9. Stage(row'[s]) = "waiting" => effects[s] = 0
    BY <2>2, <2>4, <2>6, StageOf
  <2>10. Stage(row[s]) = "running"
    BY <1>2, <1>4, StageOf DEF OwnsLease
  <2>11. /\ Life(s) = [stage |-> "running", traced |-> row[s].action \in Traced,
                       commits |-> effects[s]]
         /\ Life(s)' = [stage |-> Stage(row'[s]), traced |-> row[s].action \in Traced,
                        commits |-> effects[s]]
    BY <1>1, <2>2, <2>10 DEF Life, Stage
  <2>12. Contract!Report(Life(s), Life(s)') /\ ~ Begins(s)
    <3> DEFINE z == Stage(row'[s])
    <3> HIDE DEF z
    <3>1. /\ z \in {"applied", "unchanged", "failed", "waiting"}
          /\ row[s].action \in Traced => (z = "applied" <=> effects[s] = 1)
          /\ z = "waiting" => effects[s] = 0
      BY <2>5, <2>7, <2>8, <2>9 DEF z
    <3>2. Life(s)' = [stage |-> z, traced |-> row[s].action \in Traced,
                      commits |-> effects[s]]
      BY <2>11 DEF z
    <3>3. Life(s).stage = "running" /\ Life(s)'.stage = z
      BY <2>11, <3>2
    <3>4. /\ Life(s)'.traced = Life(s).traced /\ Life(s).traced = (row[s].action \in Traced)
          /\ Life(s)'.commits = Life(s).commits /\ Life(s).commits = effects[s]
      BY <2>11, <3>2
    <3>5. Contract!Moves(Life(s), Life(s)', {"running"},
                         {"applied", "unchanged", "failed", "waiting"})
      BY <3>1, <3>3, <3>4 DEF Contract!Moves
    <3>6. Contract!Report(Life(s), Life(s)')
      BY <3>1, <3>3, <3>4, <3>5 DEF Contract!Report
    <3>7. ~ Begins(s)
      BY <3>3 DEF Contract!Start, Contract!Moves, Begins
    <3>8. QED
      BY <3>6, <3>7
  <2>13. \A t \in Schedules \ {s} : LivesOn(t) /\ ~ Begins(t)
    BY <1>1, <2>3, DriftLives
  <2>14. QED
    BY <2>12, <2>13 DEF LifeMoves, LivesOn, Contract!Step
<1>5. QED
  BY <1>3, <1>4

LEMMA EngineMoves ==
  ASSUME TruthInv, OnceInv', NEW i \in Instances, EngineStep(i)
  PROVE  LifeMoves
<1> DEFINE s == engine[i].sid
<1>1. /\ TypeOK
      /\ engine[i].pc # "idle" => s \in Schedules
  BY DEF TruthInv, LeaseInv, TypeOK
<1>2. UNCHANGED <<row, effects>> => LifeMoves
  BY <1>1, SameDrifts, DriftMoves
<1>3. CASE ReadDue(i) \/ PlanDecision(i) \/ DropDecision(i) \/ ExecuteBlocked(i) \/ Judge(i)
  BY <1>2, <1>3 DEF ReadDue, PlanDecision, DropDecision, ExecuteBlocked, Judge
<1>4. CASE HoldBehindHeld(i)
  <2>1. \A t \in Schedules : DriftRow(t)
    BY <1>1, <1>4 DEF HoldBehindHeld, DriftRow, Drift, TypeOK, RowType
  <2>2. QED
    BY <1>1, <1>4, <2>1, DriftMoves DEF HoldBehindHeld
<1>5. ASSUME NEW status \in {"MISSED", "FAILED"},
             s \in Schedules, row[s].status = "PENDING", effects' = effects,
             row' = HoldSuccessors([row EXCEPT ![s].status = status],
                                   engine[i].at, AllActions)
      PROVE  LifeMoves
  <2> DEFINE rows == [row EXCEPT ![s].status = status]
  <2>1. rows \in [Schedules -> RowType]
    BY <1>1, <1>5, StatusType DEF TypeOK, Statuses, Terminal
  <2>2. /\ \A t \in Schedules \ {s} : rows[t] = row[t]
        /\ rows[s].status = status /\ rows[s].action = row[s].action
    BY <1>1, <1>5 DEF TypeOK, RowType
  <2>3. \A t \in Schedules : \/ rows[t] = row[t]
                             \/ rows[t].status # "PENDING" /\ Drift(row[t], rows[t])
    <3> HIDE DEF rows
    <3> QED
      BY <1>5, <2>2 DEF Drift
  <2>4. \A t \in Schedules : DriftRow(t)
    <3>1. row' = HoldSuccessors(rows, engine[i].at, AllActions)
      BY <1>5
    <3>2. QED
      <4> HIDE DEF rows
      <4> QED
        BY <2>1, <2>3, <3>1, HoldDrifts
  <2>5. QED
    BY <1>1, <1>5, <2>4, DriftMoves
<1>6. CASE MarkMissed(i)
  BY <1>1, <1>2, <1>5, <1>6 DEF MarkMissed, TakesUp
<1>7. CASE ExpireRetry(i)
  BY <1>1, <1>2, <1>5, <1>7 DEF ExpireRetry, TakesUp
<1>8. CASE Claim(i)
  <2>1. CASE ~ Claimable(s, engine[i].attempts)
    BY <1>2, <1>8, <2>1 DEF Claim
  <2>2. CASE Claimable(s, engine[i].attempts)
    BY <1>1, <1>8, <2>2, ClaimMoves
  <2>3. QED
    BY <2>1, <2>2
<1>9. CASE Execute(i)
  BY <1>9, ExecuteMoves
<1>10. CASE Reclaim(i)
  <2>1. \A t \in Schedules : DriftRow(t)
    BY <1>1, <1>10 DEF Reclaim, DriftRow, Drift, TypeOK, RowType
  <2>2. QED
    BY <1>1, <1>10, <2>1, DriftMoves DEF Reclaim
<1>11. CASE Finalize(i)
  BY <1>11, FinalizeMoves
<1>12. QED
  BY <1>3, <1>4, <1>6, <1>7, <1>8, <1>9, <1>10, <1>11 DEF EngineStep

LEMMA LifeStep ==
  TruthInv /\ [Next]_vars /\ [\A r \in Requests : WritesWaitingRow(r)]_vars => LifeMoves
<1> SUFFICES ASSUME TruthInv, [Next]_vars,
                    [\A r \in Requests : WritesWaitingRow(r)]_vars
             PROVE  LifeMoves
  OBVIOUS
<1>1. TypeOK /\ OnceInv'
  BY OnceStep DEF TruthInv, LeaseInv
<1>2. UNCHANGED <<row, effects>> => LifeMoves
  BY <1>1, SameDrifts, DriftMoves
<1>3. CASE UNCHANGED vars
  BY <1>2, <1>3 DEF vars
<1>4. ASSUME NEW s \in Schedules, NEW a \in Actions, NEW at \in 0..LastAt,
             NEW c \in Contents, Create(s, a, at, c)
      PROVE  LifeMoves
  <2>1. /\ row[s].status = "ABSENT" /\ row'[s].status = "PENDING"
        /\ \A t \in Schedules \ {s} : row'[t] = row[t]
        /\ effects' = effects
    BY <1>1, <1>4 DEF Create, TypeOK, NoRow
  <2>2. \A t \in Schedules : DriftRow(t)
    BY <2>1 DEF DriftRow, Drift
  <2>3. QED
    BY <1>1, <2>1, <2>2, DriftMoves
<1>5. ASSUME NEW r \in Requests, RequestStep(r) PROVE LifeMoves
  <2>1. CASE RequestWrite(r) /\ ~ UNCHANGED vars
    <3>1. effects' = effects
      BY <2>1 DEF RequestWrite, UpdateWrite, CancelWrite, ResumeWrite,
                  EnableWrite, DisableWrite, ModeWrite
    <3>2. WritesWaitingRow(r)
      BY <2>1
    <3>3. \A t \in Schedules : DriftRow(t)
      BY <1>1, <2>1, <3>2, ConsoleDrifts
    <3>4. QED
      BY <1>1, <3>1, <3>3, DriftMoves
  <2>2. CASE ~ RequestWrite(r)
    BY <1>2, <1>5, <2>2 DEF RequestStep, UpdateRead, CancelRead, ResumeRead,
                            ReadRow, ModeRead, Refuse
  <2>3. QED
    BY <1>3, <2>1, <2>2
<1>6. ASSUME NEW a \in Actions, EditAsset(a) PROVE LifeMoves
  BY <1>2, <1>6 DEF EditAsset
<1>7. ASSUME NEW i \in Instances, EngineStep(i) \/ Crash(i) PROVE LifeMoves
  BY <1>1, <1>2, <1>7, EngineMoves DEF Crash
<1>8. CASE Advance
  BY <1>2, <1>8 DEF Advance
<1>9. QED
  BY <1>3, <1>4, <1>5, <1>6, <1>7, <1>8 DEF Next

\* DeploySchedule implements ScheduleLife: a schedule starts only from the queue
\* and while no other runs (claim and the unique index), commits only while it
\* runs and once, is reported as what it committed (finalize, applyRecover) and
\* is never touched after its end, whatever engines crash or take over.  Console
\* requests must write the row only in a state that allows it, as above: the
\* same race lets a resume put a running schedule back to the queue.
THEOREM LifeContract == Spec /\ WritesWaitingOnly => LifeSpec
<1>1. Init => TruthInv
  BY InitTruth
<1>2. Init => Contract!Init
  <2> SUFFICES ASSUME Init PROVE Contract!Init
    OBVIOUS
  <2>1. Stage(NoRow) = "none" /\ NoRow.action \notin Traced
    BY StageOf DEF NoRow, Traced
  <2>2. \A s \in Schedules : row[s] = NoRow /\ effects[s] = 0
    BY DEF Init
  <2>3. ASSUME NEW s \in Schedules PROVE Life(s) = Contract!Unborn
    <3>1. Stage(row[s]) = "none" /\ effects[s] = 0
      BY <2>1, <2>2
    <3>2. (row[s].action \in Traced) = FALSE
      BY <2>1, <2>2
    <3>3. QED
      BY <3>1, <3>2 DEF Life, Contract!Unborn
  <2>4. QED
    BY <2>3 DEF Contract!Init
<1>3. TypeOK' /\ LifeMoves => [Contract!Next]_([s \in Schedules |-> Life(s)])
  <2> SUFFICES ASSUME TypeOK', LifeMoves
               PROVE  Contract!Next
    OBVIOUS
  <2>1. [s \in Schedules |-> Life(s)]' \in [Schedules -> Contract!Lives]
    <3>1. ASSUME NEW s \in Schedules
          PROVE  row'[s].status \in Statuses /\ effects'[s] \in Nat
      BY DEF TypeOK, RowType
    <3>2. ASSUME NEW s \in Schedules PROVE Stage(row'[s]) \in Contract!Stages
      BY <3>1, StageOf DEF Statuses, Active, Terminal, Contract!Stages
    <3>3. ASSUME NEW s \in Schedules PROVE Life(s)' \in Contract!Lives
      BY <3>1, <3>2 DEF Life, Stage, Contract!Lives
    <3>4. QED
      BY <3>3
  <2>2. ASSUME NEW s \in Schedules, NEW t \in Schedules, Begins(s), t # s
        PROVE  Life(t).stage # "running" /\ Life(t)'.stage # "running"
    <3>1. Stage(row[t]) # "running" /\ Stage(row'[t]) # "running"
      BY <2>2 DEF LifeMoves, Stage
    <3>2. QED
      BY <3>1 DEF Life, Stage
  <2>3. \A s \in Schedules : LivesOn(s)
    BY DEF LifeMoves
  <2>4. QED
    BY <2>1, <2>2, <2>3 DEF LivesOn, Begins, Contract!Next
<1>4. TruthInv => TypeOK
  BY DEF TruthInv, LeaseInv
<1>5. QED
  BY <1>1, <1>2, <1>3, <1>4, TruthStep, LifeStep, PTL
     DEF Spec, WritesWaitingOnly, LifeSpec, Contract!Spec

\* With no update, cancel or resume the proviso holds, so the engines alone,
\* any number of them and crashing as they may, keep all three promises: what
\* deploy_crash checks for two instances.
THEOREM EnginesAlone ==
  ASSUME Requests = {}
  PROVE  Spec => []AppliedAtMostOnce /\ []OutcomeTruthful /\ LifeSpec
<1>1. [Next]_vars => [\A r \in Requests : WritesWaitingRow(r)]_vars
  OBVIOUS
<1>2. Spec => WritesWaitingOnly
  BY <1>1, PTL DEF Spec, WritesWaitingOnly
<1>3. QED
  BY <1>2, AtMostOnce, OutcomeIsTrue, LifeContract
=============================================================================
