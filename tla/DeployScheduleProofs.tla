------------------------ MODULE DeployScheduleProofs ------------------------
(***************************************************************************)
(* Theorems about DeploySchedule, for any number of schedules, instances   *)
(* and requests and any bounds: types, the lease that protects a live      *)
(* execution, and at-most-once application.                                *)
(***************************************************************************)
EXTENDS DeploySchedule, NaturalsInduction, WellFoundedInduction, TLAPS

\* While instance i works on the row it claimed, the date of the claim stays
\* the start of its tick unless someone else claims the row, and its time is
\* not over.
LiveClaim(i) ==
  LET e == engine[i] IN
  (e.pc \in {"claimed", "reclaimed", "ran"} /\ e.kind = "EXECUTE") =>
    /\ row[e.sid].status # "ABSENT"
    /\ e.gen <= row[e.sid].gen
    /\ e.gen = row[e.sid].gen => row[e.sid].claimedAt = e.tickAt
    /\ e.began <= e.tickAt + Deadline
    /\ clock <= e.began + ExecSpan

\* The inductive invariant behind LiveOwnerKept.
LeaseInv ==
  /\ TypeOK
  /\ \A i \in Instances : engine[i].tickAt <= clock /\ LiveClaim(i)

\* Instance i has claimed s and may still commit, or has been blocked before
\* it could commit.
MayApply(i, s) ==
  /\ engine[i].sid = s
  /\ \/ engine[i].pc = "claimed"
     \/ engine[i].pc = "ran" /\ engine[i].outcome = "TRANSIENT"

\* Nobody has committed s and nobody can.
Untouched(s) == effects[s] = 0 /\ \A i \in Instances : ~ MayApply(i, s)

\* The inductive invariant behind AppliedAtMostOnce.
OnceInv ==
  /\ TypeOK
  /\ AppliedAtMostOnce
  /\ \A s \in Schedules :
       row[s].status \in {"ABSENT", "PENDING", "HELD"} => Untouched(s)
  /\ \A i \in Instances, s \in Schedules : MayApply(i, s) => effects[s] = 0
  /\ \A i, j \in Instances, s \in Schedules :
       MayApply(i, s) /\ MayApply(j, s) => i = j

-----------------------------------------------------------------------------
(* The choices of the scheduler exist                                      *)

\* The bounds are natural numbers.
LEMMA Bounds ==
  /\ LastAt \in Nat /\ MaxTime \in Nat /\ MinLead \in Nat
  /\ Lease \in Nat /\ Deadline \in Nat /\ ExecSpan \in Nat
  /\ MaxCrashes \in Nat /\ MaxSteals \in Nat
  /\ MaxRequests \in Nat /\ MaxEdits \in Nat
BY ConstantsAssumption DEF ConstantsAssumption

\* A non-empty set of natural numbers has a least element.
LEMMA LeastNat ==
  ASSUME NEW T \in SUBSET Nat, T # {}
  PROVE  \E x \in T : \A y \in T : x <= y
<1> DEFINE R == {ss \in Nat \X Nat : ss[1] < ss[2]}
<1>1. IsWellFoundedOn(R, Nat)
  BY NatLessThanWellFounded DEF OpToRel
<1>2. \E x \in T : \A y \in T : ~ (<<y, x>> \in R)
  <2> HIDE DEF R
  <2> QED
    BY <1>1, WFMin
<1>3. PICK x \in T : \A y \in T : ~ (<<y, x>> \in R)
  BY <1>2
<1>4. ASSUME NEW y \in T PROVE x <= y
  <2>1. ~ (<<y, x>> \in R)
    BY <1>3
  <2>2. x \in Nat /\ y \in Nat
    OBVIOUS
  <2>3. <<y, x>> \in Nat \X Nat /\ <<y, x>>[1] = y /\ <<y, x>>[2] = x
    BY <2>2
  <2>4. ~ (y < x)
    BY <2>1, <2>3
  <2>5. QED
    BY <2>2, <2>4
<1>5. QED
  BY <1>4

\* Earliest picks a row of the set it is given.
LEMMA EarliestIsDue ==
  ASSUME row \in [Schedules -> RowType], NEW rows \in SUBSET Schedules, rows # {}
  PROVE  Earliest(rows) \in rows
<1> DEFINE T == {row[t].at : t \in rows}
<1>1. T \in SUBSET Nat /\ T # {}
  BY DEF RowType
<1>2. PICK x \in T : \A y \in T : x <= y
  BY <1>1, LeastNat
<1>3. \E t \in rows : \A u \in rows : row[t].at <= row[u].at
  BY <1>2
<1>4. QED
  BY <1>3 DEF Earliest

\* A chain starts from a content, or from no production pointer.
LEMMA ChainBaseType ==
  ASSUME TypeOK, NEW s, NEW a, NEW at \in Nat
  PROVE  ChainBase(s, a, at) \in Contents \cup {Off}
<1> DEFINE earlier == {t \in Siblings(s, a) : row[t].at < at}
           T == {at - row[t].at : t \in earlier}
<1>1. /\ earlier \subseteq Schedules
      /\ \A t \in earlier : row[t].at \in Nat /\ row[t].at < at
      /\ \A t \in Schedules : row[t].target \in Contents \cup {Off}
  BY DEF TypeOK, RowType, Siblings, ActiveRows
<1>2. Content(a) \in Contents \cup {Off}
  BY DEF TypeOK, Content
<1>3. ASSUME earlier # {}
      PROVE  \E t \in earlier : \A u \in earlier : row[u].at <= row[t].at
  <2>1. T \in SUBSET Nat /\ T # {}
    BY <1>1, <1>3
  <2>2. PICK x \in T : \A y \in T : x <= y
    BY <2>1, LeastNat
  <2>3. PICK t \in earlier : x = at - row[t].at
    BY <2>2
  <2>4. ASSUME NEW u \in earlier PROVE row[u].at <= row[t].at
    <3>1. at - row[t].at <= at - row[u].at
      BY <2>2, <2>3
    <3>2. QED
      BY <3>1, <1>1
  <2>5. QED
    BY <2>4
<1>4. QED
  BY <1>1, <1>2, <1>3 DEF ChainBase

\* Holding the successors changes the status of PENDING rows to HELD and
\* nothing else.
LEMMA HoldType ==
  ASSUME NEW rows \in [Schedules -> RowType], NEW trigger, NEW kinds
  PROVE  /\ HoldSuccessors(rows, trigger, kinds) \in [Schedules -> RowType]
         /\ \A t \in Schedules :
              LET held == HoldSuccessors(rows, trigger, kinds)[t] IN
              /\ held = rows[t] \/ (rows[t].status = "PENDING" /\ held.status = "HELD")
              /\ held.gen = rows[t].gen
              /\ held.claimedAt = rows[t].claimedAt
BY DEF HoldSuccessors, RowType, Statuses, Active

-----------------------------------------------------------------------------
(* Types                                                                   *)

\* A new status keeps the type of the table.
LEMMA StatusType ==
  ASSUME NEW rows \in [Schedules -> RowType], NEW s \in Schedules,
         NEW status \in Statuses
  PROVE  [rows EXCEPT ![s].status = status] \in [Schedules -> RowType]
<1>1. [rows[s] EXCEPT !.status = status] \in RowType
  BY DEF RowType
<1>2. QED
  BY <1>1

\* So does a new time.
LEMMA TimeType ==
  ASSUME NEW rows \in [Schedules -> RowType], NEW s \in Schedules, NEW at \in Nat
  PROVE  [rows EXCEPT ![s].at = at] \in [Schedules -> RowType]
<1>1. [rows[s] EXCEPT !.at = at] \in RowType
  BY DEF RowType
<1>2. QED
  BY <1>1

\* So does a new token.
LEMMA GenType ==
  ASSUME NEW rows \in [Schedules -> RowType], NEW s \in Schedules
  PROVE  [rows EXCEPT ![s].gen = @ + 1] \in [Schedules -> RowType]
<1>1. rows[s].gen + 1 \in Nat
  BY DEF RowType
<1>2. [rows[s] EXCEPT !.gen = rows[s].gen + 1] \in RowType
  BY <1>1 DEF RowType
<1>3. QED
  BY <1>2

\* So does a resumed row.
LEMMA ResumedType ==
  ASSUME NEW old \in RowType, NEW at \in Nat, NEW base \in Contents \cup {Off}
  PROVE  [old EXCEPT !.status = "PENDING", !.at = at, !.attempts = 0,
                     !.expected = base] \in RowType
<1>1. "PENDING" \in Statuses
  BY DEF Statuses, Active
<1>2. QED
  BY <1>1 DEF RowType

\* What the steps of a console request and of an engine leave typed.
RequestOK ==
  /\ request \in [Requests -> RequestType]
  /\ \A r \in Requests : request[r].op \in RowRequests => request[r].sid \in Schedules

EngineOK ==
  /\ engine \in [Instances -> EngineType]
  /\ \A i \in Instances : engine[i].pc # "idle" => engine[i].sid \in Schedules

BudgetType == [crashes : Nat, steals : Nat, requests : Nat, edits : Nat]

\* Answering a request and resting keep the types.
LEMMA RespondType ==
  ASSUME TypeOK, NEW r \in Requests, Respond(r)
  PROVE  RequestOK'
BY DEF TypeOK, Respond, RequestOK, NoRequest, RequestType, RowRequests

LEMMA RestType ==
  ASSUME TypeOK, NEW i \in Instances, Rest(i)
  PROVE  EngineOK'
<1>1. Idle \in EngineType /\ Idle.pc = "idle"
  BY DEF Idle, EngineType
<1>2. QED
  BY <1>1 DEF TypeOK, Rest, EngineOK

\* The console keeps the types.
LEMMA CreateType ==
  ASSUME TypeOK, NEW s \in Schedules, NEW a \in Actions, NEW at \in 0..LastAt,
         NEW c \in Contents, Create(s, a, at, c)
  PROVE  TypeOK'
<1>1. ChainBase(s, a, at) \in Contents \cup {Off}
  BY ChainBaseType
<1>2. a \in AllActions
  BY ConstantsAssumption DEF ConstantsAssumption
<1>3. row'[s] = [status |-> "PENDING", action |-> a, at |-> at, attempts |-> 0,
                 gen |-> 0, claimedAt |-> 0,
                 expected |-> IF a \in Traced THEN ChainBase(s, a, at) ELSE Off,
                 target |-> c, outcome |-> "NONE"]
  BY DEF Create, NoRow, TypeOK
<1>4. row'[s] \in RowType
  BY <1>1, <1>2, <1>3, Bounds DEF RowType, Statuses, Active
<1>5. row' \in [Schedules -> RowType]
  BY <1>4 DEF Create, TypeOK
<1>6. StoppedRows \in SUBSET Schedules
  BY DEF StoppedRows
<1>7. known' \in [Schedules -> SUBSET Schedules]
  BY <1>6 DEF Create, TypeOK
<1>8. budget' \in BudgetType
  BY DEF Create, TypeOK, BudgetType
<1>9. QED
  BY <1>5, <1>7, <1>8 DEF Create, TypeOK, BudgetType

LEMMA ReadType ==
  ASSUME TypeOK, NEW r \in Requests, NEW s \in Schedules, NEW op \in RowRequests,
         NEW statuses, ReadRow(r, op, s, statuses)
  PROVE  TypeOK'
<1>1. row[s].at \in Nat
  BY DEF TypeOK, RowType
<1>2. request'[r] = [op |-> op, sid |-> s, at |-> row[s].at,
                     draft |-> Off, prod |-> Off]
  BY DEF ReadRow, NoRequest, TypeOK
<1>3. request'[r] \in RequestType
  BY <1>1, <1>2 DEF RequestType
<1>4. RequestOK'
  BY <1>2, <1>3 DEF ReadRow, RequestOK, TypeOK
<1>5. budget' \in BudgetType
  BY DEF ReadRow, TypeOK, BudgetType
<1>6. QED
  BY <1>4, <1>5 DEF ReadRow, TypeOK, RequestOK, BudgetType

LEMMA ModeReadType ==
  ASSUME TypeOK, NEW r \in Requests, NEW op \in {"enable", "disable"}, ModeRead(r, op)
  PROVE  TypeOK'
<1>1. Draft \in Contents \cup {Off} /\ Prod \in Contents \cup {Off}
  BY DEF TypeOK, Draft, Prod, Content
<1>2. request'[r] = [op |-> op, sid |-> NoSchedule, at |-> 0,
                     draft |-> Draft, prod |-> Prod]
  BY DEF ModeRead, NoRequest, TypeOK
<1>3. request'[r] \in RequestType /\ request'[r].op \notin RowRequests
  BY <1>1, <1>2 DEF RequestType, RowRequests
<1>4. RequestOK'
  BY <1>3 DEF ModeRead, RequestOK, TypeOK
<1>5. budget' \in BudgetType
  BY DEF ModeRead, TypeOK, BudgetType
<1>6. QED
  BY <1>4, <1>5 DEF ModeRead, TypeOK, RequestOK, BudgetType

LEMMA WriteType ==
  ASSUME TypeOK, NEW r \in Requests, RequestWrite(r)
  PROVE  TypeOK'
<1> DEFINE s == request[r].sid
<1>1. RequestOK'
  BY RespondType DEF RequestWrite, UpdateWrite, CancelWrite, ResumeWrite,
                     EnableWrite, DisableWrite, ModeWrite
<1>2. CASE UpdateWrite(r)
  <2>1. s \in Schedules
    BY <1>2 DEF UpdateWrite, TypeOK, RowRequests
  <2>2. PICK at \in 0..LastAt : row' = [row EXCEPT ![s].at = at]
    BY <1>2 DEF UpdateWrite
  <2>3. at \in Nat
    BY Bounds
  <2>4. row' \in [Schedules -> RowType]
    BY <2>1, <2>2, <2>3, TimeType DEF TypeOK
  <2>5. known' \in [Schedules -> SUBSET Schedules]
    BY <1>2 DEF UpdateWrite, TypeOK, StoppedRows
  <2>6. QED
    BY <1>1, <1>2, <2>4, <2>5 DEF UpdateWrite, TypeOK, RequestOK
<1>3. CASE CancelWrite(r)
  <2> DEFINE cancelled == [row EXCEPT ![s].status = "CANCELLED"]
  <2>1. s \in Schedules
    BY <1>3 DEF CancelWrite, TypeOK, RowRequests
  <2>2. cancelled \in [Schedules -> RowType]
    BY <2>1, StatusType DEF TypeOK, Statuses, Terminal
  <2>3. row' \in [Schedules -> RowType]
    BY ZenonT(60), <1>3, <2>2, HoldType DEF CancelWrite
  <2>4. QED
    BY <1>1, <1>3, <2>3 DEF CancelWrite, TypeOK, RequestOK
<1>4. CASE ResumeWrite(r)
  <2>1. s \in Schedules
    BY <1>4 DEF ResumeWrite, TypeOK, RowRequests
  <2> DEFINE base(at) == IF row[s].action \in Traced
                         THEN ChainBase(s, row[s].action, at)
                         ELSE row[s].expected
             resumed(at) == [row[s] EXCEPT !.status = "PENDING", !.at = at,
                               !.attempts = 0, !.expected = base(at)]
  <2>2. PICK at \in 0..LastAt : row' = [row EXCEPT ![s] = resumed(at)]
    BY <1>4 DEF ResumeWrite
  <2>3. at \in Nat
    BY Bounds
  <2>4. row[s] \in RowType
    BY <2>1 DEF TypeOK
  <2>5. base(at) \in Contents \cup {Off}
    BY <2>3, <2>4, ChainBaseType DEF RowType
  <2>6. resumed(at) \in RowType
    <3> HIDE DEF base, s
    <3> QED
      BY <2>3, <2>4, <2>5, ResumedType
  <2>7. row' \in [Schedules -> RowType]
    <3> HIDE DEF resumed
    <3> QED
      BY <2>1, <2>2, <2>6 DEF TypeOK
  <2>8. StoppedRows \in SUBSET Schedules
    BY DEF StoppedRows
  <2>9. known' \in [Schedules -> SUBSET Schedules]
    BY <1>4, <2>1, <2>8 DEF ResumeWrite, TypeOK
  <2>10. QED
    BY <1>1, <1>4, <2>7, <2>9 DEF ResumeWrite, TypeOK, RequestOK
<1>5. CASE EnableWrite(r)
  <2>1. \A t \in Schedules : [row[t] EXCEPT !.status = "HELD"] \in RowType
    BY SMTT(60) DEF TypeOK, RowType, Statuses, Active
  <2>2. row' \in [Schedules -> RowType]
    BY <1>5, <2>1 DEF EnableWrite, TypeOK
  <2>3. asset' \in [Actions -> Contents \cup {Off}]
    BY <1>5 DEF EnableWrite, TypeOK
  <2>4. QED
    BY <1>1, <1>5, <2>2, <2>3 DEF EnableWrite, ModeWrite, TypeOK, RequestOK
<1>6. CASE DisableWrite(r)
  <2>1. \A t \in Schedules : [row[t] EXCEPT !.status = "CANCELLED"] \in RowType
    BY SMTT(60) DEF TypeOK, RowType, Statuses, Terminal
  <2>2. row' \in [Schedules -> RowType]
    BY <1>6, <2>1 DEF DisableWrite, TypeOK
  <2>3. asset' \in [Actions -> Contents \cup {Off}]
    BY <1>6 DEF DisableWrite, TypeOK
  <2>4. QED
    BY <1>1, <1>6, <2>2, <2>3 DEF DisableWrite, ModeWrite, TypeOK, RequestOK
<1>7. QED
  BY <1>2, <1>3, <1>4, <1>5, <1>6 DEF RequestWrite

\* The table after a result is written is typed.
LEMMA DoneType ==
  ASSUME TypeOK, NEW i \in Instances, engine[i].pc = "ran"
  PROVE  [row EXCEPT ![engine[i].sid].status = Result(i),
            ![engine[i].sid].outcome = IF Result(i) = "SUCCEEDED"
                                       THEN engine[i].outcome ELSE @]
           \in [Schedules -> RowType]
<1> DEFINE s == engine[i].sid
           shown == IF Result(i) = "SUCCEEDED" THEN engine[i].outcome
                                               ELSE row[s].outcome
           done == [row EXCEPT ![s].status = Result(i),
                      ![s].outcome = IF Result(i) = "SUCCEEDED"
                                     THEN engine[i].outcome ELSE @]
<1>1. s \in Schedules /\ engine[i] \in EngineType /\ row[s] \in RowType
  BY DEF TypeOK
<1>2. /\ Result(i) \in Statuses
      /\ Result(i) = "SUCCEEDED" =>
           engine[i].outcome \in {"APPLIED", "NOOP", "RECOVERED"}
  BY DEF Result, Statuses, Active, Terminal
<1>3. shown \in {"NONE", "APPLIED", "NOOP", "RECOVERED"}
  BY <1>1, <1>2 DEF RowType
<1>4. done[s] = [row[s] EXCEPT !.status = Result(i), !.outcome = shown]
  BY <1>1 DEF TypeOK
<1>5. done[s] \in RowType
  <2> HIDE DEF shown, done
  <2> QED
    BY <1>1, <1>2, <1>3, <1>4 DEF RowType
<1>6. QED
  BY <1>1, <1>5 DEF TypeOK

\* The engine keeps the types.
LEMMA EngineStepType ==
  ASSUME TypeOK, NEW i \in Instances, EngineStep(i)
  PROVE  TypeOK'
<1> DEFINE s == engine[i].sid
<1>1. /\ engine[i] \in EngineType
      /\ \A t \in Schedules : row[t] \in RowType
      /\ engine[i].pc # "idle" => s \in Schedules
  BY DEF TypeOK
<1>2. CASE ReadDue(i)
  <2> DEFINE running == {t \in Due : row[t].status = "RUNNING"}
             due == Earliest(IF running # {} THEN running ELSE Due)
  <2>1. due \in Schedules
    <3> DEFINE rows == IF running # {} THEN running ELSE Due
    <3>1. rows \in SUBSET Schedules /\ rows # {}
      BY <1>2 DEF ReadDue, Due
    <3>2. row \in [Schedules -> RowType]
      BY DEF TypeOK
    <3>3. Earliest(rows) \in rows
      <4> HIDE DEF rows
      <4> QED
        BY <3>1, <3>2, EarliestIsDue
    <3>4. QED
      BY <3>1, <3>3
  <2>2. engine'[i] = [pc |-> IF running # {} THEN "planned" ELSE "due", sid |-> due,
                      kind |-> IF running # {} THEN "RECOVER" ELSE "NONE",
                      at |-> row[due].at, attempts |-> row[due].attempts,
                      gen |-> row[due].gen, tickAt |-> clock, began |-> 0,
                      outcome |-> "NONE"]
    BY <1>2 DEF ReadDue, Idle, TypeOK
  <2>3. engine'[i] \in EngineType /\ engine'[i].sid = due
    <3> HIDE DEF due
    <3> QED
      BY <1>1, <2>1, <2>2 DEF EngineType, RowType, TypeOK
  <2>4. EngineOK'
    BY <1>2, <2>1, <2>3 DEF ReadDue, EngineOK, TypeOK
  <2>5. QED
    BY <1>2, <2>4 DEF ReadDue, TypeOK, EngineOK
<1>3. CASE PlanDecision(i)
  <2>1. engine'[i] \in EngineType /\ engine'[i].sid = s /\ s \in Schedules
    BY <1>1, <1>3 DEF PlanDecision, EngineType, TypeOK
  <2>2. EngineOK'
    BY <1>3, <2>1 DEF PlanDecision, EngineOK, TypeOK
  <2>3. QED
    BY <1>3, <2>2 DEF PlanDecision, TypeOK, EngineOK
<1>4. CASE DropDecision(i)
  BY <1>4, RestType DEF DropDecision, TypeOK, EngineOK
<1>5. CASE HoldBehindHeld(i)
  <2>1. row' \in [Schedules -> RowType]
    BY <1>1, <1>5, StatusType DEF HoldBehindHeld, TakesUp, TypeOK, Statuses, Active
  <2>2. QED
    BY <1>5, <2>1, RestType DEF HoldBehindHeld, TypeOK, EngineOK
<1>6. CASE MarkMissed(i)
  <2> DEFINE missed == [row EXCEPT ![s].status = "MISSED"]
  <2>1. missed \in [Schedules -> RowType]
    BY <1>1, <1>6, StatusType DEF MarkMissed, TakesUp, TypeOK, Statuses, Terminal
  <2>2. row' = row \/ row' = HoldSuccessors(missed, engine[i].at, AllActions)
    BY <1>6 DEF MarkMissed
  <2>3. row' \in [Schedules -> RowType]
    <3> HIDE DEF missed
    <3> QED
      BY <2>1, <2>2, HoldType DEF TypeOK
  <2>4. QED
    BY <1>6, <2>3, RestType DEF MarkMissed, TypeOK, EngineOK
<1>7. CASE ExpireRetry(i)
  <2> DEFINE failed == [row EXCEPT ![s].status = "FAILED"]
  <2>1. failed \in [Schedules -> RowType]
    BY <1>1, <1>7, StatusType DEF ExpireRetry, TakesUp, TypeOK, Statuses, Terminal
  <2>2. row' = row \/ row' = HoldSuccessors(failed, engine[i].at, AllActions)
    BY <1>7 DEF ExpireRetry
  <2>3. row' \in [Schedules -> RowType]
    <3> HIDE DEF failed
    <3> QED
      BY <2>1, <2>2, HoldType DEF TypeOK
  <2>4. QED
    BY <1>7, <2>3, RestType DEF ExpireRetry, TypeOK, EngineOK
<1>8. CASE Claim(i)
  <2>1. s \in Schedules
    BY <1>1, <1>8 DEF Claim, TakesUp
  <2>2. CASE Claimable(s, engine[i].attempts)
    <3>1. row'[s] \in RowType
      BY <1>1, <1>8, <2>1, <2>2 DEF Claim, TypeOK, RowType, EngineType, Statuses, Active
    <3>2. row' \in [Schedules -> RowType]
      BY <1>8, <2>1, <2>2, <3>1 DEF Claim, TypeOK
    <3>3. engine'[i] \in EngineType /\ engine'[i].sid = s
      BY <1>1, <1>8, <2>1, <2>2 DEF Claim, TypeOK, RowType, EngineType
    <3>4. EngineOK'
      BY <1>8, <2>1, <2>2, <3>3 DEF Claim, EngineOK, TypeOK
    <3>5. QED
      BY <1>8, <3>2, <3>4 DEF Claim, TypeOK, EngineOK
  <2>3. CASE ~ Claimable(s, engine[i].attempts)
    BY <1>8, <2>3, RestType DEF Claim, TypeOK, EngineOK
  <2>4. QED
    BY <2>2, <2>3
<1>9. CASE Execute(i)
  <2>1. s \in Schedules
    BY <1>1, <1>9 DEF Execute
  <2>2. engine'[i] \in EngineType /\ engine'[i].sid = s
    BY <1>1, <1>9 DEF Execute, UnchangedOutcome, TypeOK, EngineType
  <2>3. EngineOK'
    BY <1>9, <2>1, <2>2 DEF Execute, EngineOK, TypeOK
  <2>4. row[s].target \in Contents \cup {Off}
    BY <1>1, <2>1 DEF RowType
  <2>5. asset' \in [Actions -> Contents \cup {Off}] /\ effects' \in [Schedules -> Nat]
    BY <1>9, <2>1, <2>4 DEF Execute, TypeOK
  <2>6. QED
    BY <1>9, <2>3, <2>5 DEF Execute, TypeOK, EngineOK
<1>10. CASE ExecuteBlocked(i)
  <2>1. engine'[i] \in EngineType /\ engine'[i].sid = s /\ s \in Schedules
    <3>1. PICK o \in {"TRANSIENT", "PERMANENT"} :
            engine' = [engine EXCEPT ![i].pc = "ran", ![i].outcome = o]
      BY <1>10 DEF ExecuteBlocked
    <3>2. QED
      BY <1>1, <1>10, <3>1 DEF ExecuteBlocked, TypeOK, EngineType
  <2>2. EngineOK'
    BY <1>10, <2>1 DEF ExecuteBlocked, EngineOK, TypeOK
  <2>3. QED
    BY <1>10, <2>2 DEF ExecuteBlocked, TypeOK, EngineOK
<1>11. CASE Reclaim(i)
  <2> DEFINE robbed == \E j \in Instances : Working(j) /\ engine[j].sid = s
  <2>1. s \in Schedules
    BY <1>1, <1>11 DEF Reclaim, TakesUp
  <2>2. CASE OwnsLease(i) /\ LeaseExpired(s, engine[i].tickAt)
    <3>1. row' = [row EXCEPT ![s].gen = @ + 1]
      BY <1>11, <2>2 DEF Reclaim
    <3>2. row' \in [Schedules -> RowType]
      BY <2>1, <3>1, GenType DEF TypeOK
    <3>3. engine'[i] \in EngineType /\ engine'[i].sid = s
      BY <1>1, <1>11, <2>1, <2>2 DEF Reclaim, TypeOK, RowType, EngineType
    <3>4. EngineOK'
      BY <1>11, <2>1, <2>2, <3>3 DEF Reclaim, EngineOK, TypeOK
    <3>5. budget' \in BudgetType
      <4>1. /\ robbed => budget.steals > 0
            /\ budget' = [budget EXCEPT !.steals = IF robbed THEN @ - 1 ELSE @]
        BY <1>11, <2>2 DEF Reclaim
      <4>2. QED
        <5> HIDE DEF robbed
        <5> QED
          BY <4>1 DEF TypeOK, BudgetType
    <3>6. QED
      BY <1>11, <3>2, <3>4, <3>5 DEF Reclaim, TypeOK, EngineOK, BudgetType
  <2>3. CASE ~ (OwnsLease(i) /\ LeaseExpired(s, engine[i].tickAt))
    BY <1>11, <2>3, RestType DEF Reclaim, TypeOK, EngineOK
  <2>4. QED
    BY <2>2, <2>3
<1>12. CASE Judge(i)
  <2>1. Verdict(s) \in {"RECOVERED", "NOOP", "INTERRUPTED"}
    BY DEF Verdict
  <2>2. engine'[i] \in EngineType /\ engine'[i].sid = s /\ s \in Schedules
    BY <1>1, <1>12, <2>1 DEF Judge, TypeOK, EngineType
  <2>3. EngineOK'
    BY <1>12, <2>2 DEF Judge, EngineOK, TypeOK
  <2>4. QED
    BY <1>12, <2>3 DEF Judge, TypeOK, EngineOK
<1>13. CASE Finalize(i)
  <2> DEFINE done == [row EXCEPT ![s].status = Result(i),
                        ![s].outcome = IF Result(i) = "SUCCEEDED"
                                       THEN engine[i].outcome ELSE @]
  <2>1. done \in [Schedules -> RowType]
    BY <1>13, DoneType DEF Finalize
  <2>2. row' = row \/ row' = HoldSuccessors(done, row[s].at, AllActions) \/ row' = done
    BY <1>13 DEF Finalize
  <2>3. row' \in [Schedules -> RowType]
    <3> HIDE DEF done
    <3> QED
      BY <2>1, <2>2, HoldType DEF TypeOK
  <2>4. QED
    BY <1>13, <2>3, RestType DEF Finalize, TypeOK, EngineOK
<1>14. QED
  BY <1>2, <1>3, <1>4, <1>5, <1>6, <1>7, <1>8, <1>9, <1>10, <1>11, <1>12, <1>13
     DEF EngineStep

\* Every step keeps the types.
LEMMA TypeStep == TypeOK /\ [Next]_vars => TypeOK'
<1> SUFFICES ASSUME TypeOK, [Next]_vars PROVE TypeOK'
  OBVIOUS
<1>1. ASSUME NEW s \in Schedules, NEW a \in Actions, NEW at \in 0..LastAt,
             NEW c \in Contents, Create(s, a, at, c)
      PROVE  TypeOK'
  BY <1>1, CreateType
<1>2. ASSUME NEW r \in Requests, NEW s \in Schedules,
             UpdateRead(r, s) \/ CancelRead(r, s) \/ ResumeRead(r, s)
      PROVE  TypeOK'
  BY <1>2, ReadType DEF UpdateRead, CancelRead, ResumeRead, RowRequests
<1>3. ASSUME NEW r \in Requests, NEW op \in {"enable", "disable"}, ModeRead(r, op)
      PROVE  TypeOK'
  BY <1>3, ModeReadType
<1>4. ASSUME NEW r \in Requests, RequestWrite(r) PROVE TypeOK'
  BY <1>4, WriteType
<1>5. ASSUME NEW r \in Requests, Refuse(r) PROVE TypeOK'
  BY <1>5, RespondType DEF Refuse, TypeOK, RequestOK
<1>6. ASSUME NEW a \in Actions, EditAsset(a) PROVE TypeOK'
  <2>1. budget' \in BudgetType
    BY <1>6 DEF EditAsset, TypeOK, BudgetType
  <2>2. asset' \in [Actions -> Contents \cup {Off}]
    BY <1>6 DEF EditAsset, TypeOK
  <2>3. QED
    BY <1>6, <2>1, <2>2 DEF EditAsset, TypeOK, BudgetType
<1>7. ASSUME NEW i \in Instances, EngineStep(i) PROVE TypeOK'
  BY <1>7, EngineStepType
<1>8. ASSUME NEW i \in Instances, Crash(i) PROVE TypeOK'
  <2>1. budget' \in BudgetType
    BY <1>8 DEF Crash, TypeOK, BudgetType
  <2>2. QED
    BY <1>8, <2>1, RestType DEF Crash, TypeOK, EngineOK, BudgetType
<1>9. CASE Advance
  BY <1>9 DEF Advance, TypeOK
<1>10. CASE UNCHANGED vars
  BY <1>10 DEF vars, TypeOK
<1>11. QED
  BY <1>1, <1>2, <1>3, <1>4, <1>5, <1>6, <1>7, <1>8, <1>9, <1>10
     DEF Next, RequestStep

LEMMA InitType == Init => TypeOK
<1> SUFFICES ASSUME Init PROVE TypeOK
  OBVIOUS
<1>1. NoRow \in RowType
  BY DEF NoRow, RowType, AllActions, Statuses, Active
<1>2. StoppedRows \in SUBSET Schedules
  BY DEF StoppedRows
<1>3. Idle \in EngineType /\ Idle.pc = "idle"
  BY DEF Idle, EngineType
<1>4. NoRequest \in RequestType /\ NoRequest.op \notin RowRequests
  BY DEF NoRequest, RequestType, RowRequests
<1>5. budget \in [crashes : Nat, steals : Nat, requests : Nat, edits : Nat]
  BY Bounds DEF Init
<1>6. QED
  BY <1>1, <1>2, <1>3, <1>4, <1>5 DEF Init, TypeOK

\* The tables, the memory of the engines and the requests keep their shape:
\* whatever is lost, blocked or raced, a row only ever has one of the statuses
\* of the schema, and no engine or request works without a row.
THEOREM TypeCorrect == Spec => []TypeOK
BY InitType, TypeStep, PTL DEF Spec

-----------------------------------------------------------------------------
(* A live execution keeps its row                                          *)

\* No row that exists is claimed or taken over.
KeepsClaims ==
  \A s \in Schedules :
    row[s].status # "ABSENT" =>
      /\ row'[s].status # "ABSENT"
      /\ row'[s].gen = row[s].gen
      /\ row'[s].claimedAt = row[s].claimedAt

LiveSteps == {"claimed", "reclaimed", "ran"}

\* Instance i keeps the claim it works on, or has none.
KeepsOwn(i) ==
  LET e == engine[i]
      n == engine'[i]
  IN
  /\ n.tickAt <= clock
  /\ (n.pc \in LiveSteps /\ n.kind = "EXECUTE") =>
       /\ e.pc \in LiveSteps
       /\ n.kind = e.kind
       /\ n.sid = e.sid
       /\ n.gen = e.gen
       /\ n.tickAt = e.tickAt
       /\ n.began = e.began

LEMMA LeaseKept ==
  ASSUME LeaseInv, TypeOK', clock' = clock, KeepsClaims,
         \A i \in Instances : KeepsOwn(i)
  PROVE  LeaseInv'
<1> SUFFICES ASSUME NEW i \in Instances
             PROVE  (engine[i].tickAt <= clock /\ LiveClaim(i))'
  BY DEF LeaseInv
<1>1. engine'[i].tickAt <= clock'
  BY DEF KeepsOwn
<1>2. ASSUME engine'[i].pc \in LiveSteps, engine'[i].kind = "EXECUTE"
      PROVE  LiveClaim(i)'
  <2>1. engine[i].pc \in LiveSteps /\ engine[i].kind = "EXECUTE"
    BY <1>2 DEF KeepsOwn
  <2>2. engine[i].sid \in Schedules
    BY <2>1 DEF LeaseInv, TypeOK, LiveSteps
  <2>3. LiveClaim(i)
    BY DEF LeaseInv
  <2>4. QED
    BY <1>2, <2>1, <2>2, <2>3 DEF LiveClaim, KeepsOwn, KeepsClaims, LiveSteps
<1>3. QED
  BY <1>1, <1>2 DEF LiveClaim, LiveSteps

\* An instance that takes a step to a state without a live execution, and
\* leaves the others alone, keeps every claim.
LEMMA OthersKeepOwn ==
  ASSUME NEW i \in Instances, LeaseInv,
         engine'[i].tickAt <= clock,
         engine'[i].pc \notin LiveSteps,
         \A j \in Instances \ {i} : engine'[j] = engine[j]
  PROVE  \A j \in Instances : KeepsOwn(j)
<1> SUFFICES ASSUME NEW j \in Instances PROVE KeepsOwn(j)
  OBVIOUS
<1>1. CASE j = i
  BY <1>1 DEF KeepsOwn
<1>2. CASE j # i
  <2>1. engine'[j] = engine[j]
    BY <1>2
  <2>2. engine[j].tickAt <= clock
    BY DEF LeaseInv
  <2>3. QED
    BY <2>1, <2>2 DEF KeepsOwn
<1>3. QED
  BY <1>1, <1>2

\* Holding the successors of a table claims nothing.
LEMMA HoldKeepsClaims ==
  ASSUME NEW rows \in [Schedules -> RowType], NEW trigger, NEW kinds,
         \A t \in Schedules :
           /\ rows[t].gen = row[t].gen
           /\ rows[t].claimedAt = row[t].claimedAt
           /\ row[t].status # "ABSENT" => rows[t].status # "ABSENT",
         row' = rows \/ row' = HoldSuccessors(rows, trigger, kinds)
  PROVE  KeepsClaims
BY HoldType DEF KeepsClaims

\* Nor does a console request.
LEMMA ConsoleKeepsClaims ==
  ASSUME TypeOK, NEW r \in Requests, RequestWrite(r)
  PROVE  KeepsClaims
<1> DEFINE s == request[r].sid
<1>1. CASE UpdateWrite(r)
  <2>1. PICK at \in 0..LastAt : row' = [row EXCEPT ![s].at = at]
    BY <1>1 DEF UpdateWrite
  <2>2. QED
    BY <2>1 DEF KeepsClaims, TypeOK, RowType
<1>2. CASE CancelWrite(r)
  <2> DEFINE cancelled == [row EXCEPT ![s].status = "CANCELLED"]
  <2>1. s \in Schedules
    BY <1>2 DEF CancelWrite, TypeOK, RowRequests
  <2>2. cancelled \in [Schedules -> RowType]
    BY <2>1, StatusType DEF TypeOK, Statuses, Terminal
  <2>3. \A t \in Schedules :
          /\ cancelled[t].gen = row[t].gen
          /\ cancelled[t].claimedAt = row[t].claimedAt
          /\ row[t].status # "ABSENT" => cancelled[t].status # "ABSENT"
    BY <2>1 DEF TypeOK, RowType
  <2>4. row' = cancelled \/ row' = HoldSuccessors(cancelled, row[s].at, {"RESTORE_VERSION"})
    BY <1>2 DEF CancelWrite
  <2>5. QED
    <3> HIDE DEF cancelled, s
    <3> QED
      BY <2>2, <2>3, <2>4, HoldKeepsClaims
<1>3. CASE ResumeWrite(r)
  <2>1. s \in Schedules
    BY <1>3 DEF ResumeWrite, TypeOK, RowRequests
  <2>2. PICK at \in 0..LastAt : \E base :
          row' = [row EXCEPT ![s] = [@ EXCEPT !.status = "PENDING", !.at = at,
                                       !.attempts = 0, !.expected = base]]
    BY <1>3 DEF ResumeWrite
  <2>3. QED
    BY <2>1, <2>2 DEF KeepsClaims, TypeOK, RowType
<1>4. CASE EnableWrite(r)
  BY <1>4 DEF EnableWrite, KeepsClaims, TypeOK, RowType
<1>5. CASE DisableWrite(r)
  BY <1>5 DEF DisableWrite, KeepsClaims, TypeOK, RowType
<1>6. QED
  BY <1>1, <1>2, <1>3, <1>4, <1>5 DEF RequestWrite

LEMMA EngineKeepsLease ==
  ASSUME LeaseInv, TypeOK', NEW i \in Instances, EngineStep(i)
  PROVE  LeaseInv'
<1> DEFINE s == engine[i].sid
<1> USE DEF LeaseInv
<1>1. /\ clock \in Nat /\ engine[i] \in EngineType
      /\ engine[i].pc # "idle" => s \in Schedules
      /\ \A j \in Instances : engine[j].tickAt <= clock
  BY DEF TypeOK
<1>2. UNCHANGED row => KeepsClaims
  BY DEF KeepsClaims
<1>3. UNCHANGED <<clock, engine>> => \A j \in Instances : KeepsOwn(j)
  BY <1>1 DEF KeepsOwn
<1>4. Rest(i) => \A j \in Instances : KeepsOwn(j)
  <2> SUFFICES ASSUME Rest(i) PROVE \A j \in Instances : KeepsOwn(j)
    OBVIOUS
  <2>1. /\ engine'[i] = Idle
        /\ \A j \in Instances \ {i} : engine'[j] = engine[j]
    BY DEF Rest, TypeOK
  <2>2. engine'[i].tickAt <= clock /\ engine'[i].pc \notin LiveSteps
    BY <1>1, <2>1 DEF Idle, LiveSteps
  <2>3. QED
    BY <2>1, <2>2, OthersKeepOwn
<1>5. CASE ReadDue(i)
  <2>1. \E k, d, a, m, g :
          engine' = [engine EXCEPT ![i] =
                       [Idle EXCEPT !.pc = IF k THEN "planned" ELSE "due",
                          !.kind = IF k THEN "RECOVER" ELSE "NONE",
                          !.sid = d, !.at = a, !.gen = g,
                          !.attempts = m, !.tickAt = clock]]
    BY ZenonT(60), <1>5 DEF ReadDue
  <2>2. /\ engine'[i].pc \in {"planned", "due"}
        /\ engine'[i].tickAt = clock
        /\ \A j \in Instances \ {i} : engine'[j] = engine[j]
    BY <2>1 DEF Idle, TypeOK
  <2>3. engine'[i].tickAt <= clock /\ engine'[i].pc \notin LiveSteps
    BY <1>1, <2>2 DEF LiveSteps
  <2>4. \A j \in Instances : KeepsOwn(j)
    BY <2>2, <2>3, OthersKeepOwn
  <2>5. QED
    BY <1>2, <1>5, <2>4, LeaseKept DEF ReadDue
<1>6. CASE PlanDecision(i)
  <2>1. PICK k : engine' = [engine EXCEPT ![i].pc = "planned", ![i].kind = k]
    BY <1>6 DEF PlanDecision
  <2>2. /\ engine'[i].pc = "planned"
        /\ engine'[i].tickAt = engine[i].tickAt
        /\ \A j \in Instances \ {i} : engine'[j] = engine[j]
    BY <2>1 DEF TypeOK, EngineType
  <2>3. engine'[i].tickAt <= clock /\ engine'[i].pc \notin LiveSteps
    BY <1>1, <2>2 DEF LiveSteps
  <2>4. \A j \in Instances : KeepsOwn(j)
    BY <2>2, <2>3, OthersKeepOwn
  <2>5. QED
    BY <1>2, <1>6, <2>4, LeaseKept DEF PlanDecision
<1>7. CASE DropDecision(i)
  BY <1>2, <1>4, <1>7, LeaseKept DEF DropDecision
<1>8. CASE HoldBehindHeld(i)
  <2>1. KeepsClaims
    BY <1>8 DEF HoldBehindHeld, KeepsClaims, TypeOK, RowType
  <2>2. QED
    BY <1>4, <1>8, <2>1, LeaseKept DEF HoldBehindHeld
<1>9. CASE MarkMissed(i)
  <2> DEFINE missed == [row EXCEPT ![s].status = "MISSED"]
  <2>1. missed \in [Schedules -> RowType]
    BY <1>1, <1>9, StatusType DEF MarkMissed, TakesUp, TypeOK, Statuses, Terminal
  <2>2. \A t \in Schedules :
          /\ missed[t].gen = row[t].gen
          /\ missed[t].claimedAt = row[t].claimedAt
          /\ row[t].status # "ABSENT" => missed[t].status # "ABSENT"
    BY DEF TypeOK, RowType
  <2>3. row' = row \/ row' = HoldSuccessors(missed, engine[i].at, AllActions)
    BY <1>9 DEF MarkMissed
  <2>4. KeepsClaims
    <3> HIDE DEF missed
    <3> QED
      BY <1>2, <2>1, <2>2, <2>3, HoldKeepsClaims
  <2>5. QED
    BY <1>4, <1>9, <2>4, LeaseKept DEF MarkMissed
<1>10. CASE ExpireRetry(i)
  <2> DEFINE failed == [row EXCEPT ![s].status = "FAILED"]
  <2>1. failed \in [Schedules -> RowType]
    BY <1>1, <1>10, StatusType DEF ExpireRetry, TakesUp, TypeOK, Statuses, Terminal
  <2>2. \A t \in Schedules :
          /\ failed[t].gen = row[t].gen
          /\ failed[t].claimedAt = row[t].claimedAt
          /\ row[t].status # "ABSENT" => failed[t].status # "ABSENT"
    BY DEF TypeOK, RowType
  <2>3. row' = row \/ row' = HoldSuccessors(failed, engine[i].at, AllActions)
    BY <1>10 DEF ExpireRetry
  <2>4. KeepsClaims
    <3> HIDE DEF failed
    <3> QED
      BY <1>2, <2>1, <2>2, <2>3, HoldKeepsClaims
  <2>5. QED
    BY <1>4, <1>10, <2>4, LeaseKept DEF ExpireRetry
<1>11. CASE Claim(i)
  <2>1. CASE ~ Claimable(s, engine[i].attempts)
    BY <1>2, <1>4, <1>11, <2>1, LeaseKept DEF Claim
  <2>2. CASE Claimable(s, engine[i].attempts)
    <3>1. /\ s \in Schedules
          /\ clock <= engine[i].tickAt + Deadline
          /\ engine[i].kind = "EXECUTE"
      BY <1>1, <1>11 DEF Claim, TakesUp
    <3>2. /\ row'[s].status = "RUNNING"
          /\ row'[s].gen = row[s].gen + 1
          /\ row'[s].claimedAt = engine[i].tickAt
          /\ \A t \in Schedules \ {s} : row'[t] = row[t]
      BY <1>11, <2>2, <3>1 DEF Claim, TypeOK, RowType
    <3>3. /\ engine'[i].pc = "claimed"
          /\ engine'[i].sid = s
          /\ engine'[i].kind = "EXECUTE"
          /\ engine'[i].tickAt = engine[i].tickAt
          /\ engine'[i].gen = row[s].gen + 1
          /\ engine'[i].began = clock
          /\ \A j \in Instances \ {i} : engine'[j] = engine[j]
          /\ clock' = clock
      BY <1>11, <2>2, <3>1 DEF Claim, TypeOK, EngineType
    <3>4. row[s].gen \in Nat
      BY <3>1 DEF TypeOK, RowType
    <3>5. engine'[i].tickAt <= clock' /\ LiveClaim(i)'
      BY <1>1, <3>1, <3>2, <3>3, <3>4, Bounds DEF LiveClaim
    <3>6. ASSUME NEW j \in Instances \ {i}
          PROVE  engine'[j].tickAt <= clock' /\ LiveClaim(j)'
      <4>1. LiveClaim(j) /\ engine[j].tickAt <= clock
        OBVIOUS
      <4>2. engine[j] \in EngineType /\ (engine[j].pc # "idle" => engine[j].sid \in Schedules)
        BY DEF TypeOK
      <4>3. engine[j].gen \in Nat
        BY <4>2 DEF EngineType
      <4>4. QED
        BY <3>2, <3>3, <3>4, <4>1, <4>2, <4>3 DEF LiveClaim
    <3>7. QED
      BY <3>5, <3>6
  <2>3. QED
    BY <2>1, <2>2
<1>12. CASE Execute(i) \/ ExecuteBlocked(i) \/ Judge(i)
  <2>1. /\ engine'[i].pc = "ran"
        /\ engine[i].pc \in LiveSteps
        /\ engine'[i].kind = engine[i].kind
        /\ engine'[i].sid = engine[i].sid
        /\ engine'[i].gen = engine[i].gen
        /\ engine'[i].tickAt = engine[i].tickAt
        /\ engine'[i].began = engine[i].began
        /\ \A j \in Instances \ {i} : engine'[j] = engine[j]
    BY <1>12 DEF Execute, ExecuteBlocked, Judge, TypeOK, EngineType, LiveSteps
  <2>2. \A j \in Instances : KeepsOwn(j)
    BY <1>1, <2>1 DEF KeepsOwn
  <2>3. UNCHANGED <<clock, row>>
    BY <1>12 DEF Execute, ExecuteBlocked, Judge
  <2>4. QED
    BY <1>2, <2>2, <2>3, LeaseKept
<1>13. CASE Reclaim(i)
  <2>1. CASE ~ (OwnsLease(i) /\ LeaseExpired(s, engine[i].tickAt))
    BY <1>2, <1>4, <1>13, <2>1, LeaseKept DEF Reclaim
  <2>2. CASE OwnsLease(i) /\ LeaseExpired(s, engine[i].tickAt)
    <3>1. s \in Schedules /\ engine[i].kind = "RECOVER"
      BY <1>1, <1>13 DEF Reclaim, TakesUp
    <3>2. /\ row'[s].status = row[s].status
          /\ row'[s].gen = row[s].gen + 1
          /\ row'[s].claimedAt = row[s].claimedAt
          /\ \A t \in Schedules \ {s} : row'[t] = row[t]
      BY SMTT(60), <1>13, <2>2, <3>1 DEF Reclaim, TypeOK, RowType
    <3>3. /\ engine'[i].kind = "RECOVER"
          /\ engine'[i].tickAt = engine[i].tickAt
          /\ \A j \in Instances \ {i} : engine'[j] = engine[j]
          /\ clock' = clock
      BY <1>13, <2>2, <3>1 DEF Reclaim, TypeOK, EngineType
    <3>4. row[s].gen \in Nat
      BY <3>1 DEF TypeOK, RowType
    <3>5. engine'[i].tickAt <= clock' /\ LiveClaim(i)'
      BY <1>1, <3>3 DEF LiveClaim
    <3>6. ASSUME NEW j \in Instances \ {i}
          PROVE  engine'[j].tickAt <= clock' /\ LiveClaim(j)'
      <4>1. LiveClaim(j) /\ engine[j].tickAt <= clock
        OBVIOUS
      <4>2. engine[j] \in EngineType /\ (engine[j].pc # "idle" => engine[j].sid \in Schedules)
        BY DEF TypeOK
      <4>3. engine[j].gen \in Nat
        BY <4>2 DEF EngineType
      <4>4. QED
        BY <3>2, <3>3, <3>4, <4>1, <4>2, <4>3 DEF LiveClaim
    <3>7. QED
      BY <3>5, <3>6
  <2>3. QED
    BY <2>1, <2>2
<1>14. CASE Finalize(i)
  <2> DEFINE done == [row EXCEPT ![s].status = Result(i),
                        ![s].outcome = IF Result(i) = "SUCCEEDED"
                                       THEN engine[i].outcome ELSE @]
  <2>1. s \in Schedules
    BY <1>1, <1>14 DEF Finalize
  <2>2. Result(i) # "ABSENT"
    BY DEF Result
  <2>3. \A t \in Schedules :
          /\ done[t].gen = row[t].gen
          /\ done[t].claimedAt = row[t].claimedAt
          /\ row[t].status # "ABSENT" => done[t].status # "ABSENT"
    BY <2>1, <2>2 DEF TypeOK, RowType
  <2>4. row' = row \/ row' = HoldSuccessors(done, row[s].at, AllActions) \/ row' = done
    BY <1>14 DEF Finalize
  <2>5. KeepsClaims
    <3>1. CASE row' = row
      BY <1>2, <3>1
    <3>2. CASE row' = HoldSuccessors(done, row[s].at, AllActions) \/ row' = done
      <4>1. done \in [Schedules -> RowType]
        BY <1>14, DoneType DEF Finalize
      <4>2. QED
        <5> HIDE DEF done
        <5> QED
          BY <2>3, <3>2, <4>1, HoldKeepsClaims
    <3>3. QED
      BY <2>4, <3>1, <3>2
  <2>6. QED
    BY <1>4, <1>14, <2>5, LeaseKept DEF Finalize
<1>15. QED
  BY <1>5, <1>6, <1>7, <1>8, <1>9, <1>10, <1>11, <1>12, <1>13, <1>14
     DEF EngineStep

LEMMA LeaseStep == LeaseInv /\ [Next]_vars => LeaseInv'
<1> SUFFICES ASSUME LeaseInv, [Next]_vars PROVE LeaseInv'
  OBVIOUS
<1>1. TypeOK /\ TypeOK'
  BY TypeStep DEF LeaseInv
<1>2. UNCHANGED <<clock, engine>> => \A i \in Instances : KeepsOwn(i)
  BY DEF KeepsOwn, LeaseInv
<1>3. UNCHANGED row => KeepsClaims
  BY DEF KeepsClaims
<1>4. ASSUME NEW s \in Schedules, NEW a \in Actions, NEW at \in 0..LastAt,
             NEW c \in Contents, Create(s, a, at, c)
      PROVE  LeaseInv'
  <2>1. KeepsClaims
    BY <1>1, <1>4 DEF Create, KeepsClaims, TypeOK
  <2>2. QED
    BY <1>1, <1>2, <1>4, <2>1, LeaseKept DEF Create
<1>5. ASSUME NEW r \in Requests, RequestStep(r) PROVE LeaseInv'
  <2>1. CASE RequestWrite(r)
    <3>1. KeepsClaims
      BY <1>1, <2>1, ConsoleKeepsClaims
    <3>2. UNCHANGED <<clock, engine>>
      BY <2>1 DEF RequestWrite, UpdateWrite, CancelWrite, ResumeWrite,
                  EnableWrite, DisableWrite, ModeWrite
    <3>3. QED
      BY <1>1, <1>2, <3>1, <3>2, LeaseKept
  <2>2. CASE ~ RequestWrite(r)
    <3>1. UNCHANGED <<clock, row, engine>>
      BY <1>5, <2>2 DEF RequestStep, UpdateRead, CancelRead, ResumeRead,
                        ReadRow, ModeRead, Refuse
    <3>2. QED
      BY <1>1, <1>2, <1>3, <3>1, LeaseKept
  <2>3. QED
    BY <2>1, <2>2
<1>6. ASSUME NEW a \in Actions, EditAsset(a) PROVE LeaseInv'
  BY <1>1, <1>2, <1>3, <1>6, LeaseKept DEF EditAsset
<1>7. ASSUME NEW i \in Instances, EngineStep(i) PROVE LeaseInv'
  BY <1>1, <1>7, EngineKeepsLease
<1>8. ASSUME NEW i \in Instances, Crash(i) PROVE LeaseInv'
  <2>1. \A j \in Instances : KeepsOwn(j)
    BY <1>1, <1>8 DEF Crash, Rest, Idle, KeepsOwn, LeaseInv, TypeOK, LiveSteps
  <2>2. QED
    BY <1>1, <1>3, <1>8, <2>1, LeaseKept DEF Crash
<1>9. CASE Advance
  <2> SUFFICES ASSUME NEW i \in Instances
               PROVE  (engine[i].tickAt <= clock /\ LiveClaim(i))'
    BY <1>1 DEF LeaseInv
  <2>1. /\ clock \in Nat /\ clock' = clock + 1 /\ UNCHANGED <<row, engine>>
        /\ engine[i].pc \in {"claimed", "reclaimed", "ran"} =>
             clock < engine[i].began + ExecSpan
    BY <1>1, <1>9 DEF Advance, TypeOK
  <2>2. /\ engine[i].tickAt \in Nat /\ engine[i].began \in Nat
        /\ engine[i].tickAt <= clock /\ LiveClaim(i)
    BY <1>1 DEF LeaseInv, TypeOK, EngineType
  <2>3. QED
    BY <2>1, <2>2, Bounds DEF LiveClaim
<1>10. CASE UNCHANGED vars
  BY <1>1, <1>2, <1>3, <1>10, LeaseKept DEF vars
<1>11. QED
  BY <1>4, <1>5, <1>6, <1>7, <1>8, <1>9, <1>10 DEF Next

\* No instance takes over a row whose claimant is still at work, however the
\* ticks of any number of instances interleave: the lease is counted from the
\* start of the tick that claims (repository.claim, reclaim, isLeaseExpired),
\* and it is as long as a decision may be late and an execution may last.
THEOREM LeaseProtects == Spec => LiveOwnerKept
<1>1. Init => LeaseInv
  <2> SUFFICES ASSUME Init PROVE LeaseInv
    OBVIOUS
  <2>1. TypeOK
    BY InitType
  <2>2. QED
    BY <2>1 DEF Init, Idle, LeaseInv, LiveClaim
<1>2. LeaseInv /\ [Next]_vars => [\A i, j \in Instances : ~ LiveOwnerRobbed(i, j)]_vars
  <2> SUFFICES ASSUME LeaseInv, NEW i \in Instances, NEW j \in Instances,
                      LiveOwnerRobbed(i, j)
               PROVE  FALSE
    OBVIOUS
  <2> DEFINE s == engine[i].sid
  <2>1. /\ row' # row
        /\ OwnsLease(i) /\ LeaseExpired(s, engine[i].tickAt)
    BY DEF LiveOwnerRobbed, Reclaim
  <2>2. /\ engine[j].pc \in {"claimed", "reclaimed", "ran"}
        /\ engine[j].kind = "EXECUTE"
        /\ engine[j].sid = s
        /\ row[s].gen = engine[j].gen
    BY DEF LiveOwnerRobbed, Working, OwnsLease
  <2>3. /\ row[s].claimedAt = engine[j].tickAt
        /\ engine[j].began <= engine[j].tickAt + Deadline
        /\ clock <= engine[j].began + ExecSpan
        /\ engine[i].tickAt <= clock
    BY <2>2 DEF LeaseInv, LiveClaim
  <2>4. /\ clock \in Nat /\ engine[i].tickAt \in Nat
        /\ engine[j].tickAt \in Nat /\ engine[j].began \in Nat
    BY DEF LeaseInv, TypeOK, EngineType
  <2>5. engine[i].tickAt > engine[j].tickAt + Lease
    BY <2>1, <2>3 DEF LeaseExpired
  <2>6. QED
    BY <2>3, <2>4, <2>5, Bounds, LeaseAssumption DEF LeaseAssumption
<1>3. QED
  BY <1>1, <1>2, LeaseStep, PTL DEF Spec, LiveOwnerKept

-----------------------------------------------------------------------------
(* At most once                                                            *)

Unclaimed == {"ABSENT", "PENDING", "HELD"}

\* A row that was claimed does not wait again.
KeepsWaiting ==
  \A s \in Schedules : row'[s].status \in Unclaimed => row[s].status \in Unclaimed

\* Whoever may apply a change could already.
KeepsAppliers ==
  \A i \in Instances, s \in Schedules : MayApply(i, s)' => MayApply(i, s)

LEMMA OnceKept ==
  ASSUME OnceInv, TypeOK', effects' = effects, KeepsWaiting, KeepsAppliers
  PROVE  OnceInv'
BY DEF OnceInv, AppliedAtMostOnce, Untouched, KeepsWaiting, KeepsAppliers, Unclaimed

\* Holding the successors of a table claims nothing.
LEMMA HoldKeepsWaiting ==
  ASSUME NEW rows \in [Schedules -> RowType], NEW trigger, NEW kinds,
         \A t \in Schedules : rows[t].status \in Unclaimed => row[t].status \in Unclaimed,
         row' = rows \/ row' = HoldSuccessors(rows, trigger, kinds)
  PROVE  KeepsWaiting
BY HoldType DEF KeepsWaiting, Unclaimed

\* A console request that meets the row in the state it read.
LEMMA ConsoleKeepsWaiting ==
  ASSUME TypeOK, NEW r \in Requests, RequestWrite(r), WritesWaitingRow(r)
  PROVE  KeepsWaiting
<1> DEFINE s == request[r].sid
<1>1. CASE UpdateWrite(r)
  <2>1. PICK at \in 0..LastAt : row' = [row EXCEPT ![s].at = at]
    BY <1>1 DEF UpdateWrite
  <2>2. QED
    BY <2>1 DEF KeepsWaiting, TypeOK, RowType
<1>2. CASE CancelWrite(r)
  <2> DEFINE cancelled == [row EXCEPT ![s].status = "CANCELLED"]
  <2>1. s \in Schedules
    BY <1>2 DEF CancelWrite, TypeOK, RowRequests
  <2>2. cancelled \in [Schedules -> RowType]
    BY <2>1, StatusType DEF TypeOK, Statuses, Terminal
  <2>3. \A t \in Schedules :
          cancelled[t].status \in Unclaimed => row[t].status \in Unclaimed
    BY <2>1 DEF TypeOK, RowType, Unclaimed
  <2>4. row' = cancelled \/ row' = HoldSuccessors(cancelled, row[s].at, {"RESTORE_VERSION"})
    BY <1>2 DEF CancelWrite
  <2>5. QED
    <3> HIDE DEF cancelled, s
    <3> QED
      BY <2>2, <2>3, <2>4, HoldKeepsWaiting
<1>3. CASE ResumeWrite(r)
  <2>1. s \in Schedules /\ row[s].status = "HELD"
    BY <1>3 DEF ResumeWrite, TypeOK, RowRequests, WritesWaitingRow
  <2>2. PICK at \in 0..LastAt : \E base :
          row' = [row EXCEPT ![s] = [@ EXCEPT !.status = "PENDING", !.at = at,
                                       !.attempts = 0, !.expected = base]]
    BY <1>3 DEF ResumeWrite
  <2>3. QED
    BY <2>1, <2>2 DEF KeepsWaiting, Unclaimed, TypeOK, RowType
<1>4. CASE EnableWrite(r)
  BY <1>4 DEF EnableWrite, KeepsWaiting, Unclaimed, TypeOK, RowType
<1>5. CASE DisableWrite(r)
  BY <1>5 DEF DisableWrite, KeepsWaiting, Unclaimed, TypeOK, RowType
<1>6. QED
  BY <1>1, <1>2, <1>3, <1>4, <1>5 DEF RequestWrite

\* The three steps of an execution that matter.
LEMMA ClaimOnce ==
  ASSUME OnceInv, TypeOK', NEW i \in Instances, Claim(i),
         Claimable(engine[i].sid, engine[i].attempts)
  PROVE  OnceInv'
<1> DEFINE s == engine[i].sid
<1>1. s \in Schedules /\ row[s].status = "PENDING"
  BY DEF Claim, TakesUp, Claimable, OnceInv, TypeOK
<1>2. Untouched(s)
  BY <1>1 DEF OnceInv
<1>3. /\ row'[s].status = "RUNNING"
      /\ \A t \in Schedules \ {s} : row'[t] = row[t]
      /\ effects' = effects
      /\ engine'[i].sid = s
      /\ \A j \in Instances \ {i} : engine'[j] = engine[j]
  BY <1>1 DEF Claim, OnceInv, TypeOK, RowType, EngineType
<1>4. \A j \in Instances, t \in Schedules :
        MayApply(j, t)' => MayApply(j, t) \/ (j = i /\ t = s)
  BY <1>3 DEF MayApply
<1>5. \A t \in Schedules : row'[t].status \in Unclaimed =>
                             t # s /\ row[t].status \in Unclaimed
  BY <1>3 DEF Unclaimed
<1>6. AppliedAtMostOnce'
  BY <1>3 DEF OnceInv, AppliedAtMostOnce
<1>7. \A t \in Schedules : row'[t].status \in Unclaimed => Untouched(t)'
  BY <1>3, <1>4, <1>5 DEF OnceInv, Untouched, Unclaimed
<1>8. \A j \in Instances, t \in Schedules : MayApply(j, t)' => effects'[t] = 0
  BY <1>2, <1>3, <1>4 DEF OnceInv, Untouched
<1>9. \A j, k \in Instances, t \in Schedules :
        MayApply(j, t)' /\ MayApply(k, t)' => j = k
  BY <1>2, <1>4 DEF OnceInv, Untouched
<1>10. QED
  BY <1>6, <1>7, <1>8, <1>9 DEF OnceInv, Unclaimed

LEMMA ExecuteOnce ==
  ASSUME OnceInv, TypeOK', NEW i \in Instances, Execute(i)
  PROVE  OnceInv'
<1> DEFINE s == engine[i].sid
<1>1. s \in Schedules /\ MayApply(i, s)
  BY DEF Execute, MayApply, OnceInv, TypeOK
<1>2. effects[s] = 0 /\ row[s].status \notin Unclaimed
  BY <1>1 DEF OnceInv, Untouched, Unclaimed
<1>3. /\ row' = row
      /\ effects'[s] \in {0, 1}
      /\ \A t \in Schedules \ {s} : effects'[t] = effects[t]
      /\ \A j \in Instances \ {i} : engine'[j] = engine[j]
      /\ engine'[i].pc = "ran"
      /\ engine'[i].outcome # "TRANSIENT"
  BY <1>1, <1>2 DEF Execute, UnchangedOutcome, OnceInv, TypeOK, EngineType
<1>4. \A j \in Instances, t \in Schedules :
        MayApply(j, t)' => MayApply(j, t) /\ j # i
  BY <1>3 DEF MayApply
<1>5. \A j \in Instances, t \in Schedules : MayApply(j, t)' => t # s
  BY <1>1, <1>4 DEF OnceInv
<1>6. AppliedAtMostOnce'
  BY <1>3 DEF OnceInv, AppliedAtMostOnce
<1>7. \A t \in Schedules : row'[t].status \in Unclaimed => Untouched(t)'
  BY <1>2, <1>3, <1>4 DEF OnceInv, Untouched, Unclaimed
<1>8. \A j \in Instances, t \in Schedules : MayApply(j, t)' => effects'[t] = 0
  BY <1>3, <1>4, <1>5 DEF OnceInv
<1>9. QED
  BY <1>4, <1>6, <1>7, <1>8 DEF OnceInv, Unclaimed

LEMMA FinalizeOnce ==
  ASSUME OnceInv, TypeOK', NEW i \in Instances, Finalize(i)
  PROVE  OnceInv'
<1> DEFINE s == engine[i].sid
           done == [row EXCEPT ![s].status = Result(i),
                      ![s].outcome = IF Result(i) = "SUCCEEDED"
                                     THEN engine[i].outcome ELSE @]
<1>1. s \in Schedules /\ engine[i].pc = "ran"
  BY DEF Finalize, OnceInv, TypeOK
<1>2. /\ effects' = effects
      /\ engine'[i] = Idle
      /\ \A j \in Instances \ {i} : engine'[j] = engine[j]
  BY DEF Finalize, Rest, OnceInv, TypeOK
<1>3. \A j \in Instances, t \in Schedules :
        MayApply(j, t)' => MayApply(j, t) /\ j # i
  BY <1>2 DEF MayApply, Idle
<1>4. CASE Result(i) = "PENDING" /\ row' = done
  <2>1. MayApply(i, s)
    BY <1>1, <1>4 DEF Result, MayApply
  <2>2. effects[s] = 0 /\ \A j \in Instances, t \in Schedules : MayApply(j, t)' => t # s
    BY <1>1, <1>3, <2>1 DEF OnceInv
  <2>3. \A t \in Schedules \ {s} : row'[t] = row[t]
    BY <1>4 DEF OnceInv, TypeOK
  <2>4. \A t \in Schedules : row'[t].status \in Unclaimed => Untouched(t)'
    BY <1>2, <1>3, <2>2, <2>3 DEF OnceInv, Untouched, Unclaimed
  <2>5. QED
    BY <1>2, <1>3, <2>4 DEF OnceInv, AppliedAtMostOnce, Unclaimed
<1>5. CASE Result(i) # "PENDING" \/ row' # done
  <2>1. Result(i) \in {"SUCCEEDED", "PENDING", "FAILED"}
    BY DEF Result
  <2>2. KeepsAppliers
    BY <1>3 DEF KeepsAppliers
  <2>3. KeepsWaiting
    <3>1. CASE row' = row
      BY <3>1 DEF KeepsWaiting
    <3>2. CASE row' # row
      <4>1. /\ Result(i) \in {"SUCCEEDED", "FAILED"}
            /\ row' = done \/ row' = HoldSuccessors(done, row[s].at, AllActions)
        BY <1>5, <2>1, <3>2 DEF Finalize
      <4>2. done \in [Schedules -> RowType]
        BY <1>1, DoneType DEF OnceInv
      <4>3. \A t \in Schedules :
              done[t].status \in Unclaimed => row[t].status \in Unclaimed
        BY <1>1, <4>1 DEF Unclaimed, OnceInv, TypeOK, RowType
      <4>4. QED
        <5> HIDE DEF done
        <5> QED
          BY <4>1, <4>2, <4>3, HoldKeepsWaiting
    <3>3. QED
      BY <3>1, <3>2
  <2>4. QED
    BY <1>2, <2>2, <2>3, OnceKept
<1>6. QED
  BY <1>4, <1>5

LEMMA EngineKeepsOnce ==
  ASSUME OnceInv, TypeOK', NEW i \in Instances, EngineStep(i)
  PROVE  OnceInv'
<1> DEFINE s == engine[i].sid
<1> USE DEF OnceInv
<1>1. engine[i].pc # "idle" => s \in Schedules
  BY DEF TypeOK
<1>2. UNCHANGED row => KeepsWaiting
  BY DEF KeepsWaiting
<1>3. Rest(i) => KeepsAppliers
  BY DEF Rest, Idle, KeepsAppliers, MayApply, TypeOK
<1>4. CASE ReadDue(i)
  <2>1. KeepsAppliers
    BY ZenonT(60), <1>4 DEF ReadDue, Idle, KeepsAppliers, MayApply, TypeOK
  <2>2. QED
    BY <1>2, <1>4, <2>1, OnceKept DEF ReadDue
<1>5. CASE PlanDecision(i)
  <2>1. engine'[i].pc = "planned" /\ \A j \in Instances \ {i} : engine'[j] = engine[j]
    BY ZenonT(60), <1>5 DEF PlanDecision, TypeOK, EngineType
  <2>2. KeepsAppliers
    BY <2>1 DEF KeepsAppliers, MayApply
  <2>3. QED
    BY <1>2, <1>5, <2>2, OnceKept DEF PlanDecision
<1>6. CASE DropDecision(i)
  BY <1>2, <1>3, <1>6, OnceKept DEF DropDecision
<1>7. CASE HoldBehindHeld(i)
  <2>1. KeepsWaiting
    BY <1>7 DEF HoldBehindHeld, KeepsWaiting, Unclaimed, TypeOK, RowType
  <2>2. QED
    BY <1>3, <1>7, <2>1, OnceKept DEF HoldBehindHeld
<1>8. CASE MarkMissed(i)
  <2> DEFINE missed == [row EXCEPT ![s].status = "MISSED"]
  <2>1. missed \in [Schedules -> RowType]
    BY <1>1, <1>8, StatusType DEF MarkMissed, TakesUp, TypeOK, Statuses, Terminal
  <2>2. \A t \in Schedules :
          missed[t].status \in Unclaimed => row[t].status \in Unclaimed
    BY DEF TypeOK, RowType, Unclaimed
  <2>3. row' = row \/ row' = HoldSuccessors(missed, engine[i].at, AllActions)
    BY <1>8 DEF MarkMissed
  <2>4. KeepsWaiting
    <3> HIDE DEF missed
    <3> QED
      BY <1>2, <2>1, <2>2, <2>3, HoldKeepsWaiting
  <2>5. QED
    BY <1>3, <1>8, <2>4, OnceKept DEF MarkMissed
<1>9. CASE ExpireRetry(i)
  <2> DEFINE failed == [row EXCEPT ![s].status = "FAILED"]
  <2>1. failed \in [Schedules -> RowType]
    BY <1>1, <1>9, StatusType DEF ExpireRetry, TakesUp, TypeOK, Statuses, Terminal
  <2>2. \A t \in Schedules :
          failed[t].status \in Unclaimed => row[t].status \in Unclaimed
    BY DEF TypeOK, RowType, Unclaimed
  <2>3. row' = row \/ row' = HoldSuccessors(failed, engine[i].at, AllActions)
    BY <1>9 DEF ExpireRetry
  <2>4. KeepsWaiting
    <3> HIDE DEF failed
    <3> QED
      BY <1>2, <2>1, <2>2, <2>3, HoldKeepsWaiting
  <2>5. QED
    BY <1>3, <1>9, <2>4, OnceKept DEF ExpireRetry
<1>10. CASE Claim(i)
  <2>1. CASE ~ Claimable(s, engine[i].attempts)
    BY <1>2, <1>3, <1>10, <2>1, OnceKept DEF Claim
  <2>2. CASE Claimable(s, engine[i].attempts)
    BY <1>10, <2>2, ClaimOnce
  <2>3. QED
    BY <2>1, <2>2
<1>11. CASE Execute(i)
  BY <1>11, ExecuteOnce
<1>12. CASE ExecuteBlocked(i)
  <2>1. /\ engine[i].pc = "claimed"
        /\ engine'[i].sid = s
        /\ \A j \in Instances \ {i} : engine'[j] = engine[j]
    BY <1>12 DEF ExecuteBlocked, TypeOK, EngineType
  <2>2. KeepsAppliers
    BY <2>1 DEF KeepsAppliers, MayApply
  <2>3. QED
    BY <1>2, <1>12, <2>2, OnceKept DEF ExecuteBlocked
<1>13. CASE Reclaim(i)
  <2>1. CASE ~ (OwnsLease(i) /\ LeaseExpired(s, engine[i].tickAt))
    BY <1>2, <1>3, <1>13, <2>1, OnceKept DEF Reclaim
  <2>2. CASE OwnsLease(i) /\ LeaseExpired(s, engine[i].tickAt)
    <3>1. s \in Schedules
      BY <1>1, <1>13 DEF Reclaim, TakesUp
    <3>2. /\ engine'[i].pc = "reclaimed"
          /\ \A j \in Instances \ {i} : engine'[j] = engine[j]
          /\ effects' = effects
      BY <1>13, <2>2 DEF Reclaim, TypeOK, EngineType
    <3>3. KeepsAppliers
      BY <3>2 DEF KeepsAppliers, MayApply
    <3>4. KeepsWaiting
      <4>1. row' = [row EXCEPT ![s].gen = @ + 1]
        BY <1>13, <2>2 DEF Reclaim
      <4>2. \A t \in Schedules : row'[t].status = row[t].status
        BY <3>1, <4>1 DEF TypeOK, RowType
      <4> QED
        BY <4>2 DEF KeepsWaiting
    <3>5. QED
      BY <3>2, <3>3, <3>4, OnceKept
  <2>3. QED
    BY <2>1, <2>2
<1>14. CASE Judge(i)
  <2>1. Verdict(s) # "TRANSIENT"
    BY DEF Verdict
  <2>2. /\ engine'[i].outcome # "TRANSIENT" /\ engine'[i].pc = "ran"
        /\ \A j \in Instances \ {i} : engine'[j] = engine[j]
    BY <1>14, <2>1 DEF Judge, TypeOK, EngineType
  <2>3. KeepsAppliers
    BY <2>2 DEF KeepsAppliers, MayApply
  <2>4. QED
    BY <1>2, <1>14, <2>3, OnceKept DEF Judge
<1>15. CASE Finalize(i)
  BY <1>15, FinalizeOnce
<1>16. QED
  BY <1>4, <1>5, <1>6, <1>7, <1>8, <1>9, <1>10, <1>11, <1>12, <1>13, <1>14, <1>15
     DEF EngineStep

LEMMA OnceStep ==
  OnceInv /\ [Next]_vars /\ [\A r \in Requests : WritesWaitingRow(r)]_vars => OnceInv'
<1> SUFFICES ASSUME OnceInv, [Next]_vars,
                    [\A r \in Requests : WritesWaitingRow(r)]_vars
             PROVE  OnceInv'
  OBVIOUS
<1>1. TypeOK /\ TypeOK'
  BY TypeStep DEF OnceInv
<1>2. UNCHANGED engine => KeepsAppliers
  BY DEF KeepsAppliers, MayApply
<1>3. UNCHANGED row => KeepsWaiting
  BY DEF KeepsWaiting
<1>4. CASE UNCHANGED vars
  BY <1>1, <1>2, <1>3, <1>4, OnceKept DEF vars
<1>5. ASSUME NEW s \in Schedules, NEW a \in Actions, NEW at \in 0..LastAt,
             NEW c \in Contents, Create(s, a, at, c)
      PROVE  OnceInv'
  <2>1. row[s].status = "ABSENT" /\ \A t \in Schedules \ {s} : row'[t] = row[t]
    BY <1>1, <1>5 DEF Create, TypeOK
  <2>2. KeepsWaiting
    BY <2>1 DEF KeepsWaiting, Unclaimed
  <2>3. QED
    BY <1>1, <1>2, <1>5, <2>2, OnceKept DEF Create
<1>6. ASSUME NEW r \in Requests, RequestStep(r) PROVE OnceInv'
  <2>1. CASE RequestWrite(r)
    <3>1. UNCHANGED <<engine, effects>>
      BY <2>1 DEF RequestWrite, UpdateWrite, CancelWrite, ResumeWrite,
                  EnableWrite, DisableWrite, ModeWrite
    <3>2. CASE ~ UNCHANGED vars
      <4>1. WritesWaitingRow(r)
        BY <3>2
      <4>2. KeepsWaiting
        BY <1>1, <2>1, <4>1, ConsoleKeepsWaiting
      <4>3. QED
        BY <1>1, <1>2, <3>1, <4>2, OnceKept
    <3>3. QED
      BY <1>4, <3>2
  <2>2. CASE ~ RequestWrite(r)
    <3>1. UNCHANGED <<row, engine, effects>>
      BY <1>6, <2>2 DEF RequestStep, UpdateRead, CancelRead, ResumeRead,
                        ReadRow, ModeRead, Refuse
    <3>2. QED
      BY <1>1, <1>2, <1>3, <3>1, OnceKept
  <2>3. QED
    BY <2>1, <2>2
<1>7. ASSUME NEW a \in Actions, EditAsset(a) PROVE OnceInv'
  BY <1>1, <1>2, <1>3, <1>7, OnceKept DEF EditAsset
<1>8. ASSUME NEW i \in Instances, EngineStep(i) PROVE OnceInv'
  BY <1>1, <1>8, EngineKeepsOnce
<1>9. ASSUME NEW i \in Instances, Crash(i) PROVE OnceInv'
  <2>1. KeepsAppliers
    BY <1>1, <1>9 DEF Crash, Rest, Idle, KeepsAppliers, MayApply, TypeOK
  <2>2. QED
    BY <1>1, <1>3, <1>9, <2>1, OnceKept DEF Crash
<1>10. CASE Advance
  BY <1>1, <1>2, <1>3, <1>10, OnceKept DEF Advance
<1>11. QED
  BY <1>4, <1>5, <1>6, <1>7, <1>8, <1>9, <1>10 DEF Next

\* The change of a schedule is committed at most once, for any number of
\* instances, crashes, retries and take-overs, provided a console request
\* writes the row only in a state that allows it: the guard that cancel, update
\* and resume check before their transaction and not in it.  Claiming,
\* judging and finalizing need no such help.
THEOREM AtMostOnce == Spec /\ WritesWaitingOnly => []AppliedAtMostOnce
<1>1. Init => OnceInv
  <2> SUFFICES ASSUME Init PROVE OnceInv
    OBVIOUS
  <2>1. TypeOK
    BY InitType
  <2>2. \A i \in Instances, s \in Schedules : ~ MayApply(i, s)
    BY DEF Init, Idle, MayApply
  <2>3. QED
    BY <2>1, <2>2 DEF Init, OnceInv, AppliedAtMostOnce, Untouched
<1>2. OnceInv => AppliedAtMostOnce
  BY DEF OnceInv
<1>3. QED
  BY <1>1, <1>2, OnceStep, PTL DEF Spec, WritesWaitingOnly
=============================================================================
