------------------------- MODULE DeployOrderProofs --------------------------
(***************************************************************************)
(* Schedules start in the order of their times, for any number of          *)
(* schedules, instances and requests and any bounds.                       *)
(***************************************************************************)
EXTENDS DeployScheduleProofs

Waits == {"PENDING", "RUNNING"}

\* No two active rows have the same time.
DistinctTimes ==
  \A t, u \in Schedules :
    t # u /\ row[t].status \in Active /\ row[u].status \in Active =>
      row[t].at # row[u].at

\* What instance i has read of the other rows is still true of them: nothing
\* that runs or is due was earlier, and a plan to execute saw nothing held.
FirstInLine(i) ==
  LET e == engine[i]
      others == Schedules \ {e.sid}
  IN
  /\ e.pc \in {"due", "planned"} => e.at <= clock
  /\ e.pc = "due" =>
       \A t \in others : /\ row[t].status \in Waits => row[t].at > e.at
                         /\ row[t].status = "HELD" => row[t].at # e.at
  /\ e.pc = "planned" /\ e.kind = "EXECUTE" =>
       \A t \in others : row[t].status \in Active => row[t].at > e.at

\* The inductive invariant behind StartsInOrder.
OrderInv ==
  /\ TypeOK
  /\ DistinctTimes
  /\ \A i \in Instances : FirstInLine(i)

-----------------------------------------------------------------------------
(* What a step may do to the line                                          *)

\* The row t is where it was, if it still counts.
Stays(t) ==
  row'[t].status \in Active =>
    /\ row[t].status \in Active
    /\ row'[t].at = row[t].at
    /\ row'[t].status \in Waits => row[t].status \in Waits

\* Otherwise it goes to a time that is not due yet.
GoesBack(t) == row'[t].at > clock

\* Instance i has in hand what it had, or has decided.
Decided(i) == engine'[i] = engine[i] \/ engine'[i].pc \notin {"due", "planned"}

LEMMA LineKept ==
  ASSUME OrderInv, TypeOK', NEW i \in Instances, Decided(i),
         clock' >= clock,
         \A t \in Schedules : Stays(t) \/ GoesBack(t)
  PROVE  FirstInLine(i)'
<1>1. FirstInLine(i) /\ clock \in Nat /\ clock' \in Nat
      /\ engine[i] \in EngineType
  BY DEF OrderInv, TypeOK
<1>2. engine[i].at \in Nat
  BY <1>1 DEF EngineType
<1>3. CASE engine'[i].pc \notin {"due", "planned"}
  BY <1>3 DEF FirstInLine
<1>4. CASE engine'[i] = engine[i] /\ engine[i].pc \in {"due", "planned"}
  <2>1. engine[i].at <= clock'
    BY <1>1, <1>2, <1>4 DEF FirstInLine
  <2>2. ASSUME NEW t \in Schedules \ {engine[i].sid}, engine[i].pc = "due"
        PROVE  /\ row'[t].status \in Waits => row'[t].at > engine[i].at
               /\ row'[t].status = "HELD" => row'[t].at # engine[i].at
    <3>1. row[t].at \in Nat /\ row'[t].at \in Nat
      BY DEF OrderInv, TypeOK, RowType
    <3>2. /\ row[t].status \in Waits => row[t].at > engine[i].at
          /\ row[t].status = "HELD" => row[t].at # engine[i].at
      BY <1>1, <2>2 DEF FirstInLine
    <3>3. CASE GoesBack(t)
      BY <1>1, <1>2, <1>4, <3>1, <3>3 DEF GoesBack, FirstInLine
    <3>4. CASE Stays(t)
      BY <1>2, <3>1, <3>2, <3>4 DEF Stays, Waits, Active
    <3>5. QED
      BY <3>3, <3>4
  <2>3. ASSUME NEW t \in Schedules \ {engine[i].sid}, engine[i].pc = "planned",
               engine[i].kind = "EXECUTE", row'[t].status \in Active
        PROVE  row'[t].at > engine[i].at
    <3>1. row[t].at \in Nat /\ row'[t].at \in Nat
      BY DEF OrderInv, TypeOK, RowType
    <3>2. row[t].status \in Active => row[t].at > engine[i].at
      BY <1>1, <2>3 DEF FirstInLine
    <3>3. CASE GoesBack(t)
      BY <1>1, <1>2, <1>4, <3>1, <3>3 DEF GoesBack, FirstInLine
    <3>4. CASE Stays(t)
      BY <2>3, <3>1, <3>2, <3>4 DEF Stays
    <3>5. QED
      BY <3>3, <3>4
  <2>4. QED
    BY <1>4, <2>1, <2>2, <2>3 DEF FirstInLine
<1>5. QED
  BY <1>3, <1>4 DEF Decided

\* Where every row stays, times stay distinct.
LEMMA PlacesKept ==
  ASSUME OrderInv, TypeOK', clock' >= clock,
         \A t \in Schedules : Stays(t),
         \A i \in Instances : Decided(i)
  PROVE  OrderInv'
<1>1. DistinctTimes'
  BY DEF OrderInv, DistinctTimes, Stays
<1>2. QED
  BY <1>1, LineKept DEF OrderInv

\* Where one row goes back to a free time, too.
LEMMA PlaceTaken ==
  ASSUME OrderInv, TypeOK', UNCHANGED <<clock, engine>>,
         NEW s \in Schedules, NEW at \in Nat, TimeAllowed(s, at),
         row'[s].at = at,
         \A t \in Schedules \ {s} : row'[t] = row[t]
  PROVE  OrderInv'
<1>1. clock \in Nat /\ at > clock
  <2>1. clock \in Nat /\ at >= clock + MinLead
    BY DEF OrderInv, TypeOK, TimeAllowed
  <2>2. MinLead \in Nat /\ MinLead > 0
    BY ConstantsAssumption DEF ConstantsAssumption
  <2>3. QED
    BY <2>1, <2>2
<1>2. \A t \in Schedules : Stays(t) \/ GoesBack(t)
  BY <1>1 DEF Stays, GoesBack
<1>3. ASSUME NEW t \in Schedules \ {s}, row'[t].status \in Active
      PROVE  row'[t].at # at
  BY <1>3 DEF TimeAllowed, ActiveRows
<1>4. DistinctTimes'
  BY <1>3 DEF OrderInv, DistinctTimes
<1>5. clock' >= clock /\ \A i \in Instances : Decided(i)
  BY <1>1 DEF Decided
<1>6. QED
  BY <1>2, <1>4, <1>5, LineKept DEF OrderInv

\* Holding the successors moves no row.
LEMMA HoldStays ==
  ASSUME NEW rows \in [Schedules -> RowType], NEW trigger, NEW kinds,
         \A t \in Schedules :
           rows[t].status \in Active =>
             /\ row[t].status \in Active
             /\ rows[t].at = row[t].at
             /\ rows[t].status \in Waits => row[t].status \in Waits,
         row' = rows \/ row' = HoldSuccessors(rows, trigger, kinds)
  PROVE  \A t \in Schedules : Stays(t)
<1> SUFFICES ASSUME NEW t \in Schedules PROVE Stays(t)
  OBVIOUS
<1>1. CASE row'[t] = rows[t]
  BY <1>1 DEF Stays
<1>2. CASE row'[t] = [rows[t] EXCEPT !.status = "HELD"] /\ rows[t].status = "PENDING"
  <2>1. rows[t] \in RowType
    OBVIOUS
  <2>2. row'[t].at = rows[t].at /\ row'[t].status = "HELD"
    BY <1>2, <2>1 DEF RowType
  <2>3. QED
    BY <1>2, <2>2 DEF Stays, Active, Waits
<1>3. QED
  BY <1>1, <1>2 DEF HoldSuccessors

-----------------------------------------------------------------------------
(* Every step                                                              *)

\* Earliest picks a row that no other precedes.
LEMMA EarliestIsFirst ==
  ASSUME row \in [Schedules -> RowType], NEW rows \in SUBSET Schedules, rows # {}
  PROVE  /\ Earliest(rows) \in rows
         /\ \A u \in rows : row[Earliest(rows)].at <= row[u].at
<1> DEFINE T == {row[t].at : t \in rows}
<1>1. T \in SUBSET Nat /\ T # {}
  BY DEF RowType
<1>2. PICK x \in T : \A y \in T : x <= y
  BY <1>1, LeastNat
<1>3. \E t \in rows : \A u \in rows : row[t].at <= row[u].at
  BY <1>2
<1>4. QED
  BY <1>3 DEF Earliest

\* A console request moves a row only to a free time that is not due yet.
LEMMA ConsoleKeepsOrder ==
  ASSUME OrderInv, TypeOK', NEW r \in Requests, RequestWrite(r)
  PROVE  OrderInv'
<1>1. TypeOK /\ UNCHANGED <<clock, engine>>
  BY DEF OrderInv, RequestWrite, UpdateWrite, CancelWrite, ResumeWrite,
         EnableWrite, DisableWrite, ModeWrite
<1>2. clock' >= clock /\ \A i \in Instances : Decided(i)
  BY <1>1 DEF Decided, TypeOK
<1>3. request[r].op \in RowRequests => request[r].sid \in Schedules
  BY <1>1 DEF TypeOK
<1>4. CASE UpdateWrite(r)
  <2>1. PICK s \in Schedules : s = request[r].sid
    BY <1>3, <1>4 DEF UpdateWrite, RowRequests
  <2>2. PICK at \in 0..LastAt :
          TimeAllowed(s, at) /\ row' = [row EXCEPT ![s].at = at]
    BY <1>4, <2>1 DEF UpdateWrite
  <2>3. row'[s].at = at /\ \A t \in Schedules \ {s} : row'[t] = row[t]
    BY <1>1, <2>2 DEF TypeOK, RowType
  <2>4. at \in Nat
    BY Bounds
  <2>5. QED
    BY <1>1, <2>2, <2>3, <2>4, PlaceTaken
<1>5. CASE CancelWrite(r)
  <2>1. PICK s \in Schedules : s = request[r].sid
    BY <1>3, <1>5 DEF CancelWrite, RowRequests
  <2> DEFINE cancelled == [row EXCEPT ![s].status = "CANCELLED"]
  <2>2. cancelled \in [Schedules -> RowType]
    BY <1>1, StatusType DEF TypeOK, Statuses, Terminal
  <2>3. \A t \in Schedules :
          cancelled[t].status \in Active =>
            /\ row[t].status \in Active
            /\ cancelled[t].at = row[t].at
            /\ cancelled[t].status \in Waits => row[t].status \in Waits
    BY <1>1 DEF TypeOK, RowType, Active
  <2>4. row' = cancelled \/ row' = HoldSuccessors(cancelled, row[s].at, {"RESTORE_VERSION"})
    BY <1>5, <2>1 DEF CancelWrite
  <2>5. \A t \in Schedules : Stays(t)
    <3> HIDE DEF cancelled
    <3> QED
      BY <2>2, <2>3, <2>4, HoldStays
  <2>6. QED
    BY <1>2, <2>5, PlacesKept
<1>6. CASE ResumeWrite(r)
  <2>1. PICK s \in Schedules : s = request[r].sid
    BY <1>3, <1>6 DEF ResumeWrite, RowRequests
  <2>2. PICK at \in 0..LastAt :
          /\ TimeAllowed(s, at)
          /\ \E base : row' = [row EXCEPT ![s] =
                                 [@ EXCEPT !.status = "PENDING", !.at = at,
                                    !.attempts = 0, !.expected = base]]
    BY <1>6, <2>1 DEF ResumeWrite
  <2>3. row'[s].at = at /\ \A t \in Schedules \ {s} : row'[t] = row[t]
    BY <1>1, <2>2 DEF TypeOK, RowType
  <2>4. at \in Nat
    BY Bounds
  <2>5. QED
    BY <1>1, <2>2, <2>3, <2>4, PlaceTaken
<1>7. CASE EnableWrite(r) \/ DisableWrite(r)
  <2>1. \A t \in Schedules : Stays(t)
    BY <1>1, <1>7 DEF EnableWrite, DisableWrite, Stays, Active, Waits, TypeOK, RowType
  <2>2. QED
    BY <1>2, <2>1, PlacesKept
<1>8. QED
  BY <1>4, <1>5, <1>6, <1>7 DEF RequestWrite

\* The first read of a tick puts the row it chooses at the head of the line.
LEMMA ReadDueOrder ==
  ASSUME OrderInv, TypeOK', NEW i \in Instances, ReadDue(i)
  PROVE  OrderInv'
<1> DEFINE running == {t \in Due : row[t].status = "RUNNING"}
           chosen == IF running # {} THEN running ELSE Due
           s == Earliest(chosen)
<1>1. /\ row \in [Schedules -> RowType]
      /\ engine \in [Instances -> EngineType]
      /\ clock \in Nat
      /\ clock' = clock /\ row' = row
  BY DEF OrderInv, TypeOK, ReadDue
<1>2. chosen # {} /\ chosen \subseteq Schedules /\ chosen \subseteq Due
  BY DEF ReadDue, Due
<1>3. s \in chosen /\ \A u \in chosen : row[s].at <= row[u].at
  <2> HIDE DEF chosen
  <2> QED
    BY <1>1, <1>2, EarliestIsFirst
<1>4. engine' = [engine EXCEPT ![i] =
                   [Idle EXCEPT !.pc = IF running # {} THEN "planned" ELSE "due",
                      !.kind = IF running # {} THEN "RECOVER" ELSE "NONE",
                      !.sid = s, !.at = row[s].at, !.gen = row[s].gen,
                      !.attempts = row[s].attempts, !.tickAt = clock]]
  BY DEF ReadDue
<1> HIDE DEF s
<1>5. /\ engine'[i].pc = IF running # {} THEN "planned" ELSE "due"
      /\ engine'[i].kind = IF running # {} THEN "RECOVER" ELSE "NONE"
      /\ engine'[i].sid = s
      /\ engine'[i].at = row[s].at
      /\ \A j \in Instances \ {i} : engine'[j] = engine[j]
  <2> HIDE DEF running
  <2> QED
    BY <1>1, <1>4 DEF Idle
<1>6. s \in Schedules /\ row[s].at \in Nat /\ row[s].at <= clock /\ row[s].status \in Waits
  BY <1>1, <1>2, <1>3 DEF Due, RowType, Waits
<1>7. ASSUME NEW t \in Schedules \ {s}, running = {}
      PROVE  /\ row[t].status \in Waits => row[t].at > row[s].at
             /\ row[t].status = "HELD" => row[t].at # row[s].at
  <2>1. row[t].at \in Nat
    BY <1>1 DEF RowType
  <2>2. row[t].status \in Active => row[t].at # row[s].at
    BY <1>6 DEF OrderInv, DistinctTimes, Waits, Active
  <2>3. row[t].status \in Waits => row[t].at > clock \/ row[t].at >= row[s].at
    BY <1>1, <1>3, <1>6, <1>7, <2>1 DEF Due, Waits
  <2>4. QED
    BY <1>1, <1>6, <2>1, <2>2, <2>3 DEF Active, Waits
<1>8. FirstInLine(i)'
  BY <1>1, <1>5, <1>6, <1>7 DEF FirstInLine
<1>9. \A t \in Schedules : Stays(t)
  BY <1>1 DEF Stays
<1>10. ASSUME NEW j \in Instances \ {i} PROVE FirstInLine(j)'
  BY <1>1, <1>5, <1>9, LineKept DEF Decided
<1>11. DistinctTimes'
  BY <1>1 DEF OrderInv, DistinctTimes
<1>12. QED
  BY <1>8, <1>10, <1>11 DEF OrderInv

\* The second read rules out the held rows.
LEMMA PlanOrder ==
  ASSUME OrderInv, TypeOK', NEW i \in Instances, PlanDecision(i)
  PROVE  OrderInv'
<1> DEFINE heldBefore == {t \in Schedules : row[t].status = "HELD" /\ row[t].at < engine[i].at}
           k == IF heldBefore # {} THEN "HOLD_BEHIND_HELD"
                ELSE IF engine[i].attempts = 0 /\ engine[i].tickAt > engine[i].at + Grace
                     THEN "MISS"
                ELSE IF engine[i].attempts > 0 /\ engine[i].tickAt > engine[i].at + RetryWindow
                     THEN "EXPIRE_RETRY"
                ELSE "EXECUTE"
<1>1. /\ TypeOK /\ engine[i].pc = "due"
      /\ clock \in Nat /\ clock' = clock /\ row' = row
  BY DEF OrderInv, TypeOK, PlanDecision
<1>2. /\ engine' = [engine EXCEPT ![i].pc = "planned", ![i].kind = k]
      /\ k = "EXECUTE" => heldBefore = {}
  BY DEF PlanDecision
<1> HIDE DEF k
<1>3. /\ engine'[i].pc = "planned"
      /\ engine'[i].kind = k
      /\ engine'[i].sid = engine[i].sid
      /\ engine'[i].at = engine[i].at
      /\ \A j \in Instances \ {i} : engine'[j] = engine[j]
  BY <1>1, <1>2 DEF TypeOK, EngineType
<1>4. FirstInLine(i) /\ engine[i].at \in Nat
  BY DEF OrderInv, TypeOK, EngineType
<1>5. ASSUME NEW t \in Schedules \ {engine[i].sid}, row[t].status \in Active, k = "EXECUTE"
      PROVE  row[t].at > engine[i].at
  <2>1. row[t].at \in Nat
    BY <1>1 DEF TypeOK, RowType
  <2>2. /\ row[t].status \in Waits => row[t].at > engine[i].at
        /\ row[t].status = "HELD" => row[t].at # engine[i].at
    BY <1>1, <1>4 DEF FirstInLine
  <2>3. row[t].status = "HELD" => ~ (row[t].at < engine[i].at)
    BY <1>2, <1>5
  <2>4. QED
    BY <1>4, <1>5, <2>1, <2>2, <2>3 DEF Active, Waits
<1>6. FirstInLine(i)'
  BY <1>1, <1>3, <1>4, <1>5 DEF FirstInLine
<1>7. \A t \in Schedules : Stays(t)
  BY <1>1 DEF Stays
<1>8. ASSUME NEW j \in Instances \ {i} PROVE FirstInLine(j)'
  BY <1>1, <1>3, <1>7, LineKept DEF Decided
<1>9. DistinctTimes'
  BY <1>1 DEF OrderInv, DistinctTimes
<1>10. QED
  BY <1>6, <1>8, <1>9 DEF OrderInv

LEMMA EngineKeepsOrder ==
  ASSUME OrderInv, TypeOK', NEW i \in Instances, EngineStep(i)
  PROVE  OrderInv'
<1> DEFINE s == engine[i].sid
<1>1. /\ TypeOK
      /\ engine[i].pc # "idle" => s \in Schedules
      /\ UNCHANGED row => \A t \in Schedules : Stays(t)
  BY DEF OrderInv, TypeOK, Stays
<1>2. Rest(i) => \A j \in Instances : Decided(j)
  BY <1>1 DEF Rest, Idle, Decided, TypeOK
<1>3. clock' = clock => clock' >= clock
  BY <1>1 DEF TypeOK
<1>4. CASE ReadDue(i)
  BY <1>4, ReadDueOrder
<1>5. CASE PlanDecision(i)
  BY <1>5, PlanOrder
<1>6. CASE DropDecision(i)
  BY <1>1, <1>2, <1>3, <1>6, PlacesKept DEF DropDecision
<1>7. CASE HoldBehindHeld(i)
  <2>1. \A t \in Schedules : Stays(t)
    BY <1>1, <1>7 DEF HoldBehindHeld, Stays, Active, Waits, TypeOK, RowType
  <2>2. QED
    BY <1>2, <1>3, <1>7, <2>1, PlacesKept DEF HoldBehindHeld
<1>8. CASE MarkMissed(i)
  <2> DEFINE missed == [row EXCEPT ![s].status = "MISSED"]
  <2>1. missed \in [Schedules -> RowType]
    BY <1>1, <1>8, StatusType DEF MarkMissed, TakesUp, TypeOK, Statuses, Terminal
  <2>2. \A t \in Schedules :
          missed[t].status \in Active =>
            /\ row[t].status \in Active
            /\ missed[t].at = row[t].at
            /\ missed[t].status \in Waits => row[t].status \in Waits
    BY <1>1 DEF TypeOK, RowType, Active
  <2>3. row' = row \/ row' = HoldSuccessors(missed, engine[i].at, AllActions)
    BY <1>8 DEF MarkMissed
  <2>4. \A t \in Schedules : Stays(t)
    <3> HIDE DEF missed
    <3> QED
      BY <1>1, <2>1, <2>2, <2>3, HoldStays
  <2>5. QED
    BY <1>2, <1>3, <1>8, <2>4, PlacesKept DEF MarkMissed
<1>9. CASE ExpireRetry(i)
  <2> DEFINE failed == [row EXCEPT ![s].status = "FAILED"]
  <2>1. failed \in [Schedules -> RowType]
    BY <1>1, <1>9, StatusType DEF ExpireRetry, TakesUp, TypeOK, Statuses, Terminal
  <2>2. \A t \in Schedules :
          failed[t].status \in Active =>
            /\ row[t].status \in Active
            /\ failed[t].at = row[t].at
            /\ failed[t].status \in Waits => row[t].status \in Waits
    BY <1>1 DEF TypeOK, RowType, Active
  <2>3. row' = row \/ row' = HoldSuccessors(failed, engine[i].at, AllActions)
    BY <1>9 DEF ExpireRetry
  <2>4. \A t \in Schedules : Stays(t)
    <3> HIDE DEF failed
    <3> QED
      BY <1>1, <2>1, <2>2, <2>3, HoldStays
  <2>5. QED
    BY <1>2, <1>3, <1>9, <2>4, PlacesKept DEF ExpireRetry
<1>10. CASE Claim(i)
  <2>1. clock' = clock
    BY <1>10 DEF Claim
  <2>2. CASE ~ Claimable(s, engine[i].attempts)
    BY <1>1, <1>2, <1>3, <1>10, <2>1, <2>2, PlacesKept DEF Claim
  <2>3. CASE Claimable(s, engine[i].attempts)
    <3>1. s \in Schedules /\ row[s].status = "PENDING"
      BY <1>1, <1>10, <2>3 DEF Claim, TakesUp, Claimable
    <3>2. \A t \in Schedules : Stays(t)
      BY <1>1, <1>10, <2>3, <3>1 DEF Claim, Stays, Active, Waits, TypeOK, RowType
    <3>3. \A j \in Instances : Decided(j)
      BY <1>1, <1>10, <2>3 DEF Claim, Decided, TypeOK, EngineType
    <3>4. QED
      BY <1>3, <2>1, <3>2, <3>3, PlacesKept
  <2>4. QED
    BY <2>2, <2>3
<1>11. CASE Execute(i) \/ ExecuteBlocked(i) \/ Judge(i)
  <2>1. clock' = clock /\ row' = row
    BY <1>11 DEF Execute, ExecuteBlocked, Judge
  <2>2. \A j \in Instances : Decided(j)
    BY <1>1, <1>11 DEF Execute, ExecuteBlocked, Judge, Decided, TypeOK, EngineType
  <2>3. QED
    BY <1>1, <1>3, <2>1, <2>2, PlacesKept
<1>12. CASE Reclaim(i)
  <2>1. clock' = clock
    BY <1>12 DEF Reclaim
  <2>2. CASE ~ (OwnsLease(i) /\ LeaseExpired(s, engine[i].tickAt))
    BY <1>1, <1>2, <1>3, <1>12, <2>1, <2>2, PlacesKept DEF Reclaim
  <2>3. CASE OwnsLease(i) /\ LeaseExpired(s, engine[i].tickAt)
    <3>1. row' = [row EXCEPT ![s].gen = @ + 1]
      BY <1>12, <2>3 DEF Reclaim
    <3>2. \A t \in Schedules : row'[t].status = row[t].status /\ row'[t].at = row[t].at
      BY <1>1, <3>1 DEF TypeOK, RowType
    <3>3. \A t \in Schedules : Stays(t)
      BY <3>2 DEF Stays
    <3>4. engine' = [engine EXCEPT ![i].pc = "reclaimed",
                       ![i].gen = row[s].gen + 1, ![i].began = clock]
      BY <1>12, <2>3 DEF Reclaim
    <3>5. \A j \in Instances : Decided(j)
      <4>1. engine \in [Instances -> EngineType]
        BY <1>1 DEF TypeOK
      <4>2. ASSUME NEW j \in Instances \ {i} PROVE engine'[j] = engine[j]
        BY <3>4, <4>1
      <4>3. engine'[i].pc = "reclaimed"
        BY <3>4, <4>1 DEF EngineType
      <4>4. QED
        BY <4>2, <4>3 DEF Decided
    <3>6. QED
      BY <1>3, <2>1, <3>3, <3>5, PlacesKept
  <2>4. QED
    BY <2>2, <2>3
<1>13. CASE Finalize(i)
  <2> DEFINE done == [row EXCEPT ![s].status = Result(i),
                        ![s].outcome = IF Result(i) = "SUCCEEDED"
                                       THEN engine[i].outcome ELSE @]
  <2>1. CASE ~ OwnsLease(i)
    BY <1>1, <1>2, <1>3, <1>13, <2>1, PlacesKept DEF Finalize
  <2>2. CASE OwnsLease(i)
    <3>1. s \in Schedules /\ row[s].status = "RUNNING"
      BY <1>1, <1>13, <2>2 DEF Finalize, OwnsLease
    <3>2. done \in [Schedules -> RowType]
      BY <1>1, <1>13, DoneType DEF Finalize
    <3>3. \A t \in Schedules :
            done[t].status \in Active =>
              /\ row[t].status \in Active
              /\ done[t].at = row[t].at
              /\ done[t].status \in Waits => row[t].status \in Waits
      <4>1. ASSUME NEW t \in Schedules \ {s} PROVE done[t] = row[t]
        BY <1>1 DEF TypeOK
      <4>2. done[s].at = row[s].at
        BY <1>1, <3>1 DEF TypeOK, RowType
      <4>3. QED
        <5> HIDE DEF done
        <5> QED
          BY <3>1, <4>1, <4>2 DEF Active, Waits
    <3>4. row' = done \/ row' = HoldSuccessors(done, row[s].at, AllActions)
      BY <1>13, <2>2 DEF Finalize
    <3>5. \A t \in Schedules : Stays(t)
      <4> HIDE DEF done
      <4> QED
        BY <3>2, <3>3, <3>4, HoldStays
    <3>6. QED
      BY <1>2, <1>3, <1>13, <3>5, PlacesKept DEF Finalize
  <2>3. QED
    BY <2>1, <2>2
<1>14. QED
  BY <1>4, <1>5, <1>6, <1>7, <1>8, <1>9, <1>10, <1>11, <1>12, <1>13
     DEF EngineStep

LEMMA OrderStep == OrderInv /\ [Next]_vars => OrderInv'
<1> SUFFICES ASSUME OrderInv, [Next]_vars PROVE OrderInv'
  OBVIOUS
<1>1. TypeOK /\ TypeOK'
  BY TypeStep DEF OrderInv
<1>2. UNCHANGED row => \A t \in Schedules : Stays(t)
  BY DEF Stays
<1>3. UNCHANGED engine => \A i \in Instances : Decided(i)
  BY DEF Decided
<1>4. clock' = clock => clock' >= clock
  BY <1>1 DEF TypeOK
<1>5. ASSUME NEW s \in Schedules, NEW a \in Actions, NEW at \in 0..LastAt,
             NEW c \in Contents, Create(s, a, at, c)
      PROVE  OrderInv'
  <2>1. /\ UNCHANGED <<clock, engine>>
        /\ TimeAllowed(s, at)
        /\ row'[s].at = at
        /\ \A t \in Schedules \ {s} : row'[t] = row[t]
    BY <1>1, <1>5 DEF Create, NoRow, TypeOK
  <2>2. at \in Nat
    BY Bounds
  <2>3. QED
    BY <1>1, <2>1, <2>2, PlaceTaken
<1>6. ASSUME NEW r \in Requests, RequestStep(r) PROVE OrderInv'
  <2>1. CASE RequestWrite(r)
    BY <1>1, <2>1, ConsoleKeepsOrder
  <2>2. CASE ~ RequestWrite(r)
    <3>1. UNCHANGED <<clock, row, engine>>
      BY <1>6, <2>2 DEF RequestStep, UpdateRead, CancelRead, ResumeRead,
                        ReadRow, ModeRead, Refuse
    <3>2. QED
      BY <1>1, <1>2, <1>3, <1>4, <3>1, PlacesKept
  <2>3. QED
    BY <2>1, <2>2
<1>7. ASSUME NEW a \in Actions, EditAsset(a) PROVE OrderInv'
  BY <1>1, <1>2, <1>3, <1>4, <1>7, PlacesKept DEF EditAsset
<1>8. ASSUME NEW i \in Instances, EngineStep(i) PROVE OrderInv'
  BY <1>1, <1>8, EngineKeepsOrder
<1>9. ASSUME NEW i \in Instances, Crash(i) PROVE OrderInv'
  <2>1. \A j \in Instances : Decided(j)
    BY <1>1, <1>9 DEF Crash, Rest, Idle, Decided, TypeOK
  <2>2. QED
    BY <1>1, <1>2, <1>4, <1>9, <2>1, PlacesKept DEF Crash
<1>10. CASE Advance
  <2>1. clock' >= clock /\ UNCHANGED <<row, engine>>
    BY <1>1, <1>10 DEF Advance, TypeOK
  <2>2. QED
    BY <1>1, <1>2, <1>3, <2>1, PlacesKept
<1>11. CASE UNCHANGED vars
  BY <1>1, <1>2, <1>3, <1>4, <1>11, PlacesKept DEF vars
<1>12. QED
  BY <1>5, <1>6, <1>7, <1>8, <1>9, <1>10, <1>11 DEF Next

\* No schedule starts while an earlier one of the chatbot waits, is held or
\* runs, though the due rows and the held rows are two queries of a tick, the
\* claim is a third, and other instances and console requests write between
\* them (tick, planTick, repository.claim).  A row that is not due cannot get in
\* front: checkScheduleTimeRules gives a new or changed row a free time that is
\* still to come.
THEOREM InOrder == Spec => StartsInOrder
<1>1. Init => OrderInv
  <2> SUFFICES ASSUME Init PROVE OrderInv
    OBVIOUS
  <2>1. TypeOK
    BY InitType
  <2>2. QED
    BY <2>1 DEF Init, NoRow, Idle, OrderInv, DistinctTimes, FirstInLine, Active
<1>2. OrderInv /\ [Next]_vars =>
        [\A i \in Instances, t \in Schedules :
           LET s == engine[i].sid IN
           (Claim(i) /\ Starts(s) /\ t # s /\ row[t].status \in Active)
             => row[t].at > engine[i].at]_vars
  <2> SUFFICES ASSUME OrderInv, NEW i \in Instances, NEW t \in Schedules, Claim(i),
                      t # engine[i].sid, row[t].status \in Active
               PROVE  row[t].at > engine[i].at
    OBVIOUS
  <2>1. engine[i].pc = "planned" /\ engine[i].kind = "EXECUTE"
    BY DEF Claim, TakesUp
  <2>2. FirstInLine(i)
    BY DEF OrderInv
  <2>3. QED
    BY <2>1, <2>2 DEF FirstInLine
<1>3. QED
  BY <1>1, <1>2, OrderStep, PTL DEF Spec, StartsInOrder

-----------------------------------------------------------------------------
(* What a step of an engine does to one row                                *)

\* Whatever instance i has read of its row, the row has that time or a later one.
OnTime(i) ==
  engine[i].pc \in {"due", "planned"} => engine[i].at <= row[engine[i].sid].at

\* Instance i ends t without success: no row that waits after t waits on.
Stops(i, t) ==
  /\ t = engine[i].sid
  /\ row[t].status \in Waits
  /\ row'[t].status \in Stopped
  /\ engine'[i].pc = "idle"
  /\ \A u \in Schedules \ {t} :
       row[u].status = "PENDING" /\ row[u].at > row[t].at => row'[u].status = "HELD"

\* What instance i may do to the row t.
EngineRow(i, t) ==
  /\ row'[t].at = row[t].at
  /\ row'[t].action = row[t].action
  /\ \/ row'[t].status = row[t].status
     \/ row[t].status = "PENDING" /\ row'[t].status = "HELD"
     \/ Claim(i) /\ t = engine[i].sid /\ row[t].status = "PENDING" /\ row'[t].status = "RUNNING"
     \/ MayApply(i, t) /\ row[t].status = "RUNNING" /\ row'[t].status = "PENDING"
     \/ row[t].status = "RUNNING" /\ row'[t].status = "SUCCEEDED"
     \/ Stops(i, t)

\* A row after the trigger is held.
Successor(rows, trigger, kinds, t) ==
  /\ rows[t].status = "PENDING"
  /\ rows[t].at > trigger
  /\ rows[t].action \in kinds

\* A row that is held keeps all but its status, and every successor is held.
LEMMA HoldRows ==
  ASSUME NEW rows \in [Schedules -> RowType], NEW trigger, NEW kinds,
         row' = HoldSuccessors(rows, trigger, kinds), NEW t \in Schedules
  PROVE  /\ row'[t].at = rows[t].at
         /\ row'[t].action = rows[t].action
         /\ Successor(rows, trigger, kinds, t) => row'[t].status = "HELD"
         /\ ~ Successor(rows, trigger, kinds, t) => row'[t].status = rows[t].status
<1>1. rows[t] \in RowType
  OBVIOUS
<1>2. CASE Successor(rows, trigger, kinds, t)
  <2>1. row'[t] = [rows[t] EXCEPT !.status = "HELD"]
    BY <1>2 DEF HoldSuccessors, Successor
  <2>2. QED
    BY <1>1, <1>2, <2>1 DEF RowType
<1>3. CASE ~ Successor(rows, trigger, kinds, t)
  <2>1. row'[t] = rows[t]
    BY <1>3 DEF HoldSuccessors, Successor
  <2>2. QED
    BY <1>3, <2>1
<1>4. QED
  BY <1>2, <1>3

\* Ending the row s without success, with the hold that goes with it.
LEMMA StopRows ==
  ASSUME TypeOK, NEW i \in Instances, NEW s \in Schedules, s = engine[i].sid,
         engine'[i].pc = "idle",
         row[s].status \in Waits,
         NEW rows \in [Schedules -> RowType], NEW trigger \in Nat, trigger <= row[s].at,
         rows[s].status \in Stopped, rows[s].at = row[s].at, rows[s].action = row[s].action,
         \A t \in Schedules \ {s} : rows[t] = row[t],
         row' = HoldSuccessors(rows, trigger, AllActions)
  PROVE  \A t \in Schedules : EngineRow(i, t)
<1>1. row'[s].status = rows[s].status /\ row'[s].at = row[s].at /\ row'[s].action = row[s].action
  BY HoldRows DEF Successor, Stopped
<1>2. ASSUME NEW u \in Schedules \ {s}
      PROVE  /\ row'[u].at = row[u].at /\ row'[u].action = row[u].action
             /\ \/ row'[u].status = row[u].status
                \/ row[u].status = "PENDING" /\ row'[u].status = "HELD"
             /\ row[u].status = "PENDING" /\ row[u].at > row[s].at => row'[u].status = "HELD"
  <2>1. rows[u] = row[u] /\ row[u].action \in AllActions /\ row[u].at \in Nat /\ row[s].at \in Nat
    BY DEF TypeOK, RowType
  <2>2. /\ row'[u].at = rows[u].at
        /\ row'[u].action = rows[u].action
        /\ Successor(rows, trigger, AllActions, u) => row'[u].status = "HELD"
        /\ ~ Successor(rows, trigger, AllActions, u) => row'[u].status = rows[u].status
    BY HoldRows
  <2>3. /\ Successor(rows, trigger, AllActions, u) => row[u].status = "PENDING"
        /\ row[u].status = "PENDING" /\ row[u].at > row[s].at
             => Successor(rows, trigger, AllActions, u)
    BY <2>1 DEF Successor
  <2>4. QED
    BY <2>1, <2>2, <2>3
<1>3. Stops(i, s)
  BY <1>1, <1>2 DEF Stops
<1>4. QED
  BY <1>1, <1>2, <1>3 DEF EngineRow

LEMMA SameRows ==
  ASSUME UNCHANGED row, NEW i \in Instances
  PROVE  \A t \in Schedules : EngineRow(i, t)
BY DEF EngineRow

LEMMA EngineRows ==
  ASSUME TypeOK, NEW i \in Instances, OnTime(i), EngineStep(i)
  PROVE  \A t \in Schedules : EngineRow(i, t)
<1> DEFINE s == engine[i].sid
<1>1. /\ row \in [Schedules -> RowType]
      /\ engine \in [Instances -> EngineType]
      /\ engine[i].pc # "idle" => s \in Schedules
      /\ engine[i].at \in Nat
  BY DEF TypeOK, EngineType
<1>2. Rest(i) => engine'[i].pc = "idle"
  BY <1>1 DEF Rest, Idle
<1>3. CASE UNCHANGED row
  BY <1>3, SameRows
<1>4. CASE HoldBehindHeld(i)
  BY <1>1, <1>4 DEF HoldBehindHeld, TakesUp, EngineRow, RowType
<1>5. CASE MarkMissed(i)
  <2> DEFINE missed == [row EXCEPT ![s].status = "MISSED"]
  <2>1. s \in Schedules /\ engine[i].at <= row[s].at /\ engine'[i].pc = "idle"
    BY <1>1, <1>2, <1>5 DEF MarkMissed, TakesUp, OnTime
  <2>2. missed \in [Schedules -> RowType]
    BY <1>1, <2>1, StatusType DEF Statuses, Terminal
  <2>3. /\ missed[s].status = "MISSED" /\ missed[s].at = row[s].at
        /\ missed[s].action = row[s].action
        /\ \A t \in Schedules \ {s} : missed[t] = row[t]
    BY <1>1, <2>1 DEF RowType
  <2>4. row' = row \/ (row[s].status = "PENDING"
                       /\ row' = HoldSuccessors(missed, engine[i].at, AllActions))
    BY <1>5 DEF MarkMissed
  <2>5. missed[s].status \in Stopped
    BY <2>3 DEF Stopped
  <2>6. row[s].status = "PENDING" => row[s].status \in Waits
    BY DEF Waits
  <2> HIDE DEF missed, s
  <2>7. QED
    BY <1>1, <1>3, <2>1, <2>2, <2>3, <2>4, <2>5, <2>6, StopRows DEF s
<1>6. CASE ExpireRetry(i)
  <2> DEFINE failed == [row EXCEPT ![s].status = "FAILED"]
  <2>1. s \in Schedules /\ engine[i].at <= row[s].at /\ engine'[i].pc = "idle"
    BY <1>1, <1>2, <1>6 DEF ExpireRetry, TakesUp, OnTime
  <2>2. failed \in [Schedules -> RowType]
    BY <1>1, <2>1, StatusType DEF Statuses, Terminal
  <2>3. /\ failed[s].status = "FAILED" /\ failed[s].at = row[s].at
        /\ failed[s].action = row[s].action
        /\ \A t \in Schedules \ {s} : failed[t] = row[t]
    BY <1>1, <2>1 DEF RowType
  <2>4. row' = row \/ (row[s].status = "PENDING"
                       /\ row' = HoldSuccessors(failed, engine[i].at, AllActions))
    BY <1>6 DEF ExpireRetry
  <2>5. failed[s].status \in Stopped
    BY <2>3 DEF Stopped
  <2>6. row[s].status = "PENDING" => row[s].status \in Waits
    BY DEF Waits
  <2> HIDE DEF failed, s
  <2>7. QED
    BY <1>1, <1>3, <2>1, <2>2, <2>3, <2>4, <2>5, <2>6, StopRows DEF s
<1>7. CASE Claim(i)
  BY <1>1, <1>7 DEF Claim, Claimable, TakesUp, EngineRow, RowType
<1>8. CASE Reclaim(i)
  BY <1>1, <1>8 DEF Reclaim, TakesUp, EngineRow, RowType
<1>9. CASE Finalize(i)
  <2> DEFINE done == [row EXCEPT ![s].status = Result(i),
                        ![s].outcome = IF Result(i) = "SUCCEEDED"
                                       THEN engine[i].outcome ELSE @]
  <2>1. s \in Schedules /\ engine'[i].pc = "idle" /\ engine[i].pc = "ran"
    BY <1>1, <1>2, <1>9 DEF Finalize
  <2>2. done \in [Schedules -> RowType]
    BY <2>1, DoneType
  <2>3. /\ done[s].status = Result(i) /\ done[s].at = row[s].at
        /\ done[s].action = row[s].action
        /\ \A t \in Schedules \ {s} : done[t] = row[t]
    BY <1>1, <2>1 DEF RowType
  <2>4. \/ row' = row
        \/ /\ row[s].status = "RUNNING"
           /\ row' = IF Result(i) = "FAILED" THEN HoldSuccessors(done, row[s].at, AllActions)
                                             ELSE done
    BY <1>9 DEF Finalize, OwnsLease
  <2>5. /\ Result(i) \in {"SUCCEEDED", "PENDING", "FAILED"}
        /\ Result(i) = "PENDING" => MayApply(i, s)
    BY <2>1 DEF Result, MayApply
  <2>6. row[s].at \in Nat /\ row[s].at <= row[s].at
    BY <1>1, <2>1 DEF RowType
  <2> HIDE DEF done
  <2>7. CASE row[s].status = "RUNNING" /\ Result(i) = "FAILED"
             /\ row' = HoldSuccessors(done, row[s].at, AllActions)
    <3>1. done[s].status \in Stopped /\ row[s].status \in Waits
      BY <2>3, <2>7 DEF Stopped, Waits
    <3> HIDE DEF s
    <3>2. QED
      BY <2>1, <2>2, <2>3, <2>6, <2>7, <3>1, StopRows DEF s
  <2>8. CASE row[s].status = "RUNNING" /\ Result(i) # "FAILED" /\ row' = done
    <3>1. EngineRow(i, s)
      BY <2>3, <2>5, <2>8 DEF EngineRow
    <3>2. ASSUME NEW t \in Schedules \ {s} PROVE EngineRow(i, t)
      BY <2>3, <2>8 DEF EngineRow
    <3>3. QED
      BY <3>1, <3>2
  <2>9. QED
    BY <1>3, <2>4, <2>7, <2>8
<1>10. QED
  BY <1>3, <1>4, <1>5, <1>6, <1>7, <1>8, <1>9
     DEF EngineStep, ReadDue, PlanDecision, DropDecision, Execute, ExecuteBlocked, Judge

-----------------------------------------------------------------------------
(* What a request of the console does to the table                         *)

\* A time that is allowed is not due yet.
LEMMA AllowedIsLater ==
  ASSUME TypeOK, NEW s \in Schedules, NEW at \in 0..LastAt, TimeAllowed(s, at)
  PROVE  at \in Nat /\ at > clock
<1>1. clock \in Nat /\ at \in Nat /\ at >= clock + MinLead
  BY Bounds DEF TypeOK, TimeAllowed
<1>2. MinLead \in Nat /\ MinLead > 0
  BY ConstantsAssumption DEF ConstantsAssumption
<1>3. QED
  BY <1>1, <1>2

\* A new row is PENDING at a time to come and, if chained, at the end of its chain.
LEMMA CreateRows ==
  ASSUME TypeOK, NEW x \in Schedules, NEW a \in Actions, NEW at \in 0..LastAt,
         NEW c \in Contents, Create(x, a, at, c)
  PROVE  /\ row[x].status = "ABSENT" /\ row'[x].status = "PENDING"
         /\ row'[x].at = at /\ at \in Nat /\ at > clock
         /\ row'[x].action \in Traced => AtChainEnd(x, row'[x].action, at)
         /\ known'[x] = StoppedRows
         /\ \A t \in Schedules \ {x} : row'[t] = row[t] /\ known'[t] = known[t]
         /\ UNCHANGED <<clock, engine, request>>
<1>1. at \in Nat /\ at > clock
  BY AllowedIsLater DEF Create
<1>2. row'[x].status = "PENDING" /\ row'[x].at = at /\ row'[x].action = a
  BY DEF Create, NoRow, TypeOK
<1>3. a \in Traced => AtChainEnd(x, a, at)
  BY DEF Create, Insertable, Traced
<1>4. QED
  BY <1>1, <1>2, <1>3 DEF Create, TypeOK

\* Moving a row changes its time and nothing else.
LEMMA UpdateRows ==
  ASSUME TypeOK, NEW r \in Requests, UpdateWrite(r),
         NEW x, x = request[r].sid
  PROVE  /\ x \in Schedules /\ request[r].op = "update"
         /\ row'[x].status = row[x].status /\ row'[x].action = row[x].action
         /\ row'[x].at \in Nat /\ row'[x].at > clock
         /\ TimeAllowed(x, row'[x].at)
         /\ PreservesOrder(x, request[r].at, row'[x].at)
         /\ known'[x] = StoppedRows
         /\ \A t \in Schedules \ {x} : row'[t] = row[t] /\ known'[t] = known[t]
         /\ Respond(r)
         /\ UNCHANGED <<clock, engine>>
<1>1. x \in Schedules /\ request[r].op = "update"
  BY DEF UpdateWrite, TypeOK, RowRequests
<1>2. PICK at \in 0..LastAt :
        /\ TimeAllowed(x, at)
        /\ PreservesOrder(x, request[r].at, at)
        /\ row' = [row EXCEPT ![x].at = at]
  BY DEF UpdateWrite
<1>3. at \in Nat /\ at > clock
  BY <1>1, <1>2, AllowedIsLater
<1>4. row'[x].at = at /\ row'[x].status = row[x].status /\ row'[x].action = row[x].action
  BY <1>1, <1>2 DEF TypeOK, RowType
<1>5. QED
  BY <1>1, <1>2, <1>3, <1>4 DEF UpdateWrite, TypeOK

\* Cancelling a row holds the PENDING restores after a restore.
LEMMA CancelRows ==
  ASSUME TypeOK, NEW r \in Requests, CancelWrite(r),
         NEW x, x = request[r].sid
  PROVE  /\ x \in Schedules /\ request[r].op = "cancel"
         /\ row'[x].status = "CANCELLED"
         /\ \A t \in Schedules : row'[t].at = row[t].at /\ row'[t].action = row[t].action
         /\ \A t \in Schedules \ {x} :
              /\ \/ row'[t].status = row[t].status
                 \/ row[t].status = "PENDING" /\ row'[t].status = "HELD"
              /\ /\ row[x].action = "RESTORE_VERSION" /\ row[t].action = "RESTORE_VERSION"
                 /\ row[t].status = "PENDING" /\ row[t].at > row[x].at
                 => row'[t].status = "HELD"
         /\ Respond(r)
         /\ UNCHANGED <<clock, engine, known>>
<1> DEFINE cancelled == [row EXCEPT ![x].status = "CANCELLED"]
<1>1. x \in Schedules /\ request[r].op = "cancel" /\ row \in [Schedules -> RowType]
  BY DEF CancelWrite, TypeOK, RowRequests
<1>2. /\ cancelled \in [Schedules -> RowType]
      /\ cancelled[x].status = "CANCELLED" /\ cancelled[x].at = row[x].at
      /\ cancelled[x].action = row[x].action
      /\ \A t \in Schedules \ {x} : cancelled[t] = row[t]
  BY <1>1 DEF RowType, Statuses, Terminal
<1>3. /\ row' = IF row[x].action = "RESTORE_VERSION"
                THEN HoldSuccessors(cancelled, row[x].at, {"RESTORE_VERSION"})
                ELSE cancelled
      /\ Respond(r)
      /\ UNCHANGED <<clock, engine, known>>
  BY DEF CancelWrite
<1> HIDE DEF cancelled
<1>4. CASE row[x].action = "RESTORE_VERSION"
  <2>1. /\ row' = HoldSuccessors(cancelled, row[x].at, {"RESTORE_VERSION"})
        /\ cancelled \in [Schedules -> RowType]
    BY <1>2, <1>3, <1>4
  <2>2. ASSUME NEW t \in Schedules
        PROVE  /\ row'[t].at = cancelled[t].at /\ row'[t].action = cancelled[t].action
               /\ Successor(cancelled, row[x].at, {"RESTORE_VERSION"}, t)
                    => row'[t].status = "HELD"
               /\ ~ Successor(cancelled, row[x].at, {"RESTORE_VERSION"}, t)
                    => row'[t].status = cancelled[t].status
    BY <2>1, HoldRows
  <2>3. row'[x].status = "CANCELLED"
    <3>1. ~ Successor(cancelled, row[x].at, {"RESTORE_VERSION"}, x)
      BY <1>2 DEF Successor
    <3>2. QED
      BY <1>1, <1>2, <2>2, <3>1
  <2>4. ASSUME NEW t \in Schedules \ {x}
        PROVE  /\ Successor(cancelled, row[x].at, {"RESTORE_VERSION"}, t)
                    => row[t].status = "PENDING"
               /\ row[t].action = "RESTORE_VERSION" /\ row[t].status = "PENDING"
                  /\ row[t].at > row[x].at
                    => Successor(cancelled, row[x].at, {"RESTORE_VERSION"}, t)
    BY <1>2, <2>4 DEF Successor
  <2>5. \A t \in Schedules : row'[t].at = row[t].at /\ row'[t].action = row[t].action
    BY <1>1, <1>2, <2>2
  <2>6. ASSUME NEW t \in Schedules \ {x}
        PROVE  /\ \/ row'[t].status = row[t].status
                  \/ row[t].status = "PENDING" /\ row'[t].status = "HELD"
               /\ /\ row[t].action = "RESTORE_VERSION"
                  /\ row[t].status = "PENDING" /\ row[t].at > row[x].at
                  => row'[t].status = "HELD"
    <3>1. CASE Successor(cancelled, row[x].at, {"RESTORE_VERSION"}, t)
      BY <2>2, <2>4, <3>1
    <3>2. CASE ~ Successor(cancelled, row[x].at, {"RESTORE_VERSION"}, t)
      <4>1. row'[t].status = row[t].status
        BY <1>2, <2>2, <3>2
      <4>2. ~ (/\ row[t].action = "RESTORE_VERSION"
               /\ row[t].status = "PENDING" /\ row[t].at > row[x].at)
        BY <2>4, <3>2
      <4>3. QED
        BY <4>1, <4>2
    <3>3. QED
      BY <3>1, <3>2
  <2>7. QED
    BY <1>1, <1>3, <2>3, <2>5, <2>6
<1>5. CASE row[x].action # "RESTORE_VERSION"
  BY <1>1, <1>2, <1>3, <1>5
<1>6. QED
  BY <1>4, <1>5

\* A resumed row is PENDING at a time to come and, if chained, at the end of its
\* chain.
LEMMA ResumeRows ==
  ASSUME TypeOK, NEW r \in Requests, ResumeWrite(r),
         NEW x, x = request[r].sid
  PROVE  /\ x \in Schedules /\ request[r].op = "resume"
         /\ row'[x].status = "PENDING" /\ row'[x].action = row[x].action
         /\ row'[x].at \in Nat /\ row'[x].at > clock
         /\ row[x].action \in Traced => AtChainEnd(x, row[x].action, row'[x].at)
         /\ known'[x] = StoppedRows
         /\ \A t \in Schedules \ {x} : row'[t] = row[t] /\ known'[t] = known[t]
         /\ Respond(r)
         /\ UNCHANGED <<clock, engine>>
<1>1. x \in Schedules /\ request[r].op = "resume"
  BY DEF ResumeWrite, TypeOK, RowRequests
<1>2. PICK at \in 0..LastAt :
        /\ TimeAllowed(x, at)
        /\ row[x].action \in Traced => Insertable(x, row[x].action, at, row[x].target)
        /\ \E base : row' = [row EXCEPT ![x] =
                               [@ EXCEPT !.status = "PENDING", !.at = at,
                                  !.attempts = 0, !.expected = base]]
  BY DEF ResumeWrite
<1>3. at \in Nat /\ at > clock
  BY <1>1, <1>2, AllowedIsLater
<1>4. row'[x].at = at /\ row'[x].status = "PENDING" /\ row'[x].action = row[x].action
  BY <1>1, <1>2 DEF TypeOK, RowType
<1>5. row[x].action \in Traced => AtChainEnd(x, row[x].action, at)
  BY <1>2 DEF Insertable, Traced
<1>6. \A t \in Schedules \ {x} : row'[t] = row[t]
  BY <1>1, <1>2 DEF TypeOK
<1>7. QED
  BY <1>1, <1>3, <1>4, <1>5, <1>6 DEF ResumeWrite, TypeOK

\* Switching the mode holds rows or cancels switches that wait.
LEMMA ModeRows ==
  ASSUME TypeOK, NEW r \in Requests, EnableWrite(r) \/ DisableWrite(r)
  PROVE  /\ request[r].op \in {"enable", "disable"}
         /\ \A t \in Schedules :
              /\ row'[t].at = row[t].at /\ row'[t].action = row[t].action
              /\ \/ row'[t].status = row[t].status
                 \/ row[t].status = "PENDING" /\ row'[t].status = "HELD"
                 \/ /\ row[t].status \in {"PENDING", "HELD"} /\ row'[t].status = "CANCELLED"
                    /\ row[t].action = "SWITCH_PROD_VERSION"
         /\ Respond(r)
         /\ UNCHANGED <<clock, engine, known>>
BY DEF EnableWrite, DisableWrite, ModeWrite, TypeOK, RowType

-----------------------------------------------------------------------------
(* What a row builds on is kept                                            *)

\* One request of the console about the chatbot at a time.
OneRequest == \A q, r \in Requests : q = r

\* What a request has read of its row is still true of it.
FreshWrites ==
  \A r \in Requests :
    /\ request[r].op = "update" =>
         /\ row[request[r].sid].at = request[r].at
         /\ row[request[r].sid].status # "ABSENT"
    /\ request[r].op = "resume" => row[request[r].sid].status = "HELD"

\* The inductive invariant behind ChainKept.
ChainInv ==
  /\ OrderInv
  /\ \A i \in Instances : OnTime(i)
  /\ FreshWrites

\* A row that no step takes back in time stays on time for every instance.
LEMMA OnTimeKept ==
  ASSUME OrderInv, TypeOK', NEW i \in Instances, OnTime(i), Decided(i),
         \A t \in Schedules : row'[t].at = row[t].at \/ GoesBack(t)
  PROVE  OnTime(i)'
<1>1. CASE engine'[i] = engine[i] /\ engine[i].pc \in {"due", "planned"}
  <2>1. engine[i].sid \in Schedules /\ engine[i].at \in Nat /\ clock \in Nat
    BY <1>1 DEF OrderInv, TypeOK, EngineType
  <2>2. engine[i].at <= clock
    BY <1>1 DEF OrderInv, FirstInLine
  <2>3. row'[engine[i].sid].at \in Nat
    BY <2>1 DEF TypeOK, RowType
  <2>4. CASE GoesBack(engine[i].sid)
    BY <1>1, <2>1, <2>2, <2>3, <2>4 DEF GoesBack, OnTime
  <2>5. CASE row'[engine[i].sid].at = row[engine[i].sid].at
    BY <1>1, <2>5 DEF OnTime
  <2>6. QED
    BY <2>1, <2>4, <2>5
<1>2. CASE engine'[i].pc \notin {"due", "planned"}
  BY <1>2 DEF OnTime
<1>3. CASE engine'[i] = engine[i] /\ engine[i].pc \notin {"due", "planned"}
  BY <1>3 DEF OnTime
<1>4. QED
  BY <1>1, <1>2, <1>3 DEF Decided

\* Where the rows keep their time and, if held, their status, what was read stays
\* true.
LEMMA FreshKept ==
  ASSUME FreshWrites, TypeOK, UNCHANGED request,
         \A t \in Schedules :
           /\ row[t].status # "ABSENT" => row'[t].at = row[t].at
           /\ row'[t].status = "ABSENT" => row[t].status = "ABSENT"
           /\ row[t].status = "HELD" => row'[t].status = "HELD"
  PROVE  FreshWrites'
<1>1. \A r \in Requests : request[r].op \in {"update", "resume"} => request[r].sid \in Schedules
  BY DEF TypeOK, RowRequests
<1>2. QED
  BY <1>1 DEF FreshWrites

\* The one request there is has been answered.
LEMMA FreshAnswered ==
  ASSUME OneRequest, TypeOK, NEW r \in Requests, Respond(r)
  PROVE  FreshWrites'
<1>1. request'[r].op = "none"
  BY DEF Respond, NoRequest, TypeOK
<1>2. QED
  BY <1>1 DEF OneRequest, FreshWrites

\* Where the rows that count are the same and in the same place, s builds on p as
\* before.
LEMMA LastKept ==
  ASSUME NEW s \in Schedules, NEW p \in Schedules, LastBefore(s, p),
         row'[s].at = row[s].at, row'[s].action = row[s].action,
         row'[p].at = row[p].at, row'[p].action = row[p].action,
         row'[p].status \in Active,
         \A t \in Schedules \ {s} :
           row'[t].status \in Active /\ row'[t].action = row[s].action
             /\ row'[t].at < row[s].at
           => /\ row[t].status \in Active /\ row[t].action = row[s].action
              /\ row'[t].at = row[t].at
  PROVE  LastBefore(s, p)'
BY DEF LastBefore, Siblings, ActiveRows

\* The first read of a tick chooses a row that waits or runs and notes its time.
LEMMA ReadDueChoice ==
  ASSUME TypeOK, NEW i \in Instances, ReadDue(i)
  PROVE  /\ row' = row
         /\ engine'[i].sid \in Schedules
         /\ engine'[i].at = row[engine'[i].sid].at
         /\ row[engine'[i].sid].status \in {"PENDING", "RUNNING"}
<1> DEFINE running == {t \in Due : row[t].status = "RUNNING"}
           chosen == IF running # {} THEN running ELSE Due
           s == Earliest(chosen)
<1>1. /\ engine' = [engine EXCEPT ![i] =
                   [Idle EXCEPT !.pc = IF running # {} THEN "planned" ELSE "due",
                      !.kind = IF running # {} THEN "RECOVER" ELSE "NONE",
                      !.sid = s, !.at = row[s].at, !.gen = row[s].gen,
                      !.attempts = row[s].attempts, !.tickAt = clock]]
      /\ row' = row
      /\ engine \in [Instances -> EngineType]
      /\ row \in [Schedules -> RowType]
  BY DEF ReadDue, TypeOK
<1>2. chosen # {} /\ chosen \in SUBSET Schedules /\ chosen \subseteq Due
  BY DEF ReadDue, Due
<1> HIDE DEF chosen
<1>3. s \in chosen
  BY <1>1, <1>2, EarliestIsDue
<1> HIDE DEF s, running
<1>4. engine'[i].sid = s /\ engine'[i].at = row[s].at
  BY <1>1 DEF Idle
<1>5. QED
  BY <1>1, <1>2, <1>3, <1>4 DEF Due

LEMMA ReadDueOnTime ==
  ASSUME TypeOK, NEW i \in Instances, ReadDue(i)
  PROVE  OnTime(i)'
<1>1. row[engine'[i].sid].at \in Nat
  BY ReadDueChoice DEF TypeOK, RowType
<1>2. QED
  BY <1>1, ReadDueChoice DEF OnTime

\* Only the two reads of a tick leave a decision to be taken up.
LEMMA DecidesOnReads ==
  ASSUME TypeOK, NEW i \in Instances, EngineStep(i), ~ ReadDue(i), ~ PlanDecision(i)
  PROVE  engine'[i] = engine[i] \/ engine'[i].pc \notin {"due", "planned"}
<1>1. engine \in [Instances -> EngineType]
  BY DEF TypeOK
<1>2. CASE DropDecision(i) \/ HoldBehindHeld(i) \/ MarkMissed(i) \/ ExpireRetry(i)
  BY <1>1, <1>2 DEF DropDecision, HoldBehindHeld, MarkMissed, ExpireRetry, Rest, Idle
<1>3. CASE Claim(i)
  BY <1>1, <1>3 DEF Claim, Rest, Idle, EngineType
<1>4. CASE Execute(i) \/ ExecuteBlocked(i)
  BY <1>1, <1>4 DEF Execute, ExecuteBlocked, EngineType
<1>5. CASE Reclaim(i)
  BY <1>1, <1>5 DEF Reclaim, Rest, Idle, EngineType
<1>6. CASE Judge(i)
  BY <1>1, <1>6 DEF Judge, EngineType
<1>7. CASE Finalize(i)
  BY <1>1, <1>7 DEF Finalize, Rest, Idle
<1>8. QED
  BY <1>2, <1>3, <1>4, <1>5, <1>6, <1>7 DEF EngineStep

\* A step of an engine keeps the times it has read.
LEMMA EngineKeepsOnTime ==
  ASSUME OrderInv, TypeOK', NEW i \in Instances, EngineStep(i),
         \A j \in Instances : OnTime(j)
  PROVE  \A j \in Instances : OnTime(j)'
<1>1. TypeOK /\ engine \in [Instances -> EngineType]
  BY DEF OrderInv, TypeOK
<1>2. \A t \in Schedules : row'[t].at = row[t].at
  BY <1>1, EngineRows DEF EngineRow
<1>3. ASSUME NEW j \in Instances \ {i} PROVE engine'[j] = engine[j]
  BY <1>1 DEF EngineStep, ReadDue, PlanDecision, DropDecision, HoldBehindHeld, MarkMissed,
              ExpireRetry, Claim, Execute, ExecuteBlocked, Reclaim, Judge, Finalize, Rest
<1>4. ASSUME NEW j \in Instances \ {i} PROVE OnTime(j)'
  BY <1>2, <1>3, OnTimeKept DEF Decided
<1>5. CASE ReadDue(i)
  BY <1>1, <1>4, <1>5, ReadDueOnTime
<1>6. CASE PlanDecision(i)
  <2>1. /\ engine[i].pc = "due"
        /\ engine'[i].sid = engine[i].sid /\ engine'[i].at = engine[i].at
    BY <1>1, <1>6 DEF PlanDecision, EngineType
  <2>2. engine[i].sid \in Schedules
    BY <1>1, <2>1 DEF TypeOK
  <2>3. OnTime(i)'
    BY <1>2, <2>1, <2>2 DEF OnTime
  <2>4. QED
    BY <1>4, <2>3
<1>7. CASE ~ ReadDue(i) /\ ~ PlanDecision(i)
  <2>1. engine'[i] = engine[i] \/ engine'[i].pc \notin {"due", "planned"}
    BY <1>1, <1>7, DecidesOnReads
  <2>2. OnTime(i)'
    BY <1>2, <2>1, OnTimeKept DEF Decided
  <2>3. QED
    BY <1>4, <2>2
<1>8. QED
  BY <1>5, <1>6, <1>7

\* A read leaves the table and notes the row and its time, and the status was allowed.
LEMMA ReadNotes ==
  ASSUME TypeOK, NEW r \in Requests, NEW s \in Schedules, NEW op, NEW statuses,
         ReadRow(r, op, s, statuses)
  PROVE  /\ UNCHANGED row
         /\ request'[r].op = op /\ request'[r].sid = s /\ request'[r].at = row[s].at
         /\ row[s].status \in statuses
<1>1. /\ UNCHANGED row /\ row[s].status \in statuses
      /\ request' = [request EXCEPT ![r] =
                       [NoRequest EXCEPT !.op = op, !.sid = s, !.at = row[s].at]]
      /\ request \in [Requests -> RequestType]
  BY DEF ReadRow, TypeOK
<1>2. request'[r] = [NoRequest EXCEPT !.op = op, !.sid = s, !.at = row[s].at]
  BY <1>1
<1>3. QED
  BY <1>1, <1>2 DEF NoRequest

\* The read of a request notes the time and the status of the row.
LEMMA ReadFresh ==
  ASSUME OneRequest, TypeOK, NEW r \in Requests, NEW s \in Schedules,
         UpdateRead(r, s) \/ CancelRead(r, s) \/ ResumeRead(r, s)
  PROVE  FreshWrites'
<1>1. \A q \in Requests : q = r
  BY DEF OneRequest
<1>2. CASE UpdateRead(r, s)
  <2>1. ReadRow(r, "update", s, {"PENDING", "HELD"})
    BY <1>2 DEF UpdateRead
  <2>2. QED
    BY <1>1, <2>1, ReadNotes DEF FreshWrites
<1>3. CASE CancelRead(r, s)
  <2>1. ReadRow(r, "cancel", s, {"PENDING", "HELD"})
    BY <1>3 DEF CancelRead
  <2>2. QED
    BY <1>1, <2>1, ReadNotes DEF FreshWrites
<1>4. CASE ResumeRead(r, s)
  <2>1. ReadRow(r, "resume", s, {"HELD"})
    BY <1>4 DEF ResumeRead
  <2>2. QED
    BY <1>1, <2>1, ReadNotes DEF FreshWrites
<1>5. QED
  BY <1>2, <1>3, <1>4

LEMMA ModeReadFresh ==
  ASSUME OneRequest, TypeOK, NEW r \in Requests, NEW op \in {"enable", "disable"},
         ModeRead(r, op)
  PROVE  FreshWrites'
<1>1. request'[r].op = op
  BY DEF ModeRead, NoRequest, TypeOK
<1>2. QED
  BY <1>1 DEF OneRequest, FreshWrites

\* A write moves a row only to a time that is not due yet.
LEMMA WriteRows ==
  ASSUME TypeOK, NEW r \in Requests, RequestWrite(r)
  PROVE  /\ \A t \in Schedules : row'[t].at = row[t].at \/ GoesBack(t)
         /\ Respond(r)
         /\ UNCHANGED <<clock, engine>>
<1> DEFINE x == request[r].sid
<1>1. CASE UpdateWrite(r)
  BY <1>1, UpdateRows DEF GoesBack
<1>2. CASE CancelWrite(r)
  BY <1>2, CancelRows
<1>3. CASE ResumeWrite(r)
  BY <1>3, ResumeRows DEF GoesBack
<1>4. CASE EnableWrite(r) \/ DisableWrite(r)
  BY <1>4, ModeRows
<1>5. QED
  BY <1>1, <1>2, <1>3, <1>4 DEF RequestWrite

LEMMA ChainStep == OneRequest /\ ChainInv /\ [Next]_vars => ChainInv'
<1> SUFFICES ASSUME OneRequest, ChainInv, [Next]_vars PROVE ChainInv'
  OBVIOUS
<1>1. OrderInv /\ OrderInv' /\ TypeOK /\ TypeOK'
  BY OrderStep DEF ChainInv, OrderInv
<1>2. (\A i \in Instances : OnTime(i)) /\ FreshWrites
  BY DEF ChainInv
<1>3. UNCHANGED <<row, engine>> => \A i \in Instances : OnTime(i)'
  BY <1>2 DEF OnTime
<1>4. UNCHANGED <<row, request>> => FreshWrites'
  BY <1>2 DEF FreshWrites
<1>5. ASSUME NEW s \in Schedules, NEW a \in Actions, NEW at \in 0..LastAt,
             NEW c \in Contents, Create(s, a, at, c)
      PROVE  ChainInv'
  <2>1. /\ row[s].status = "ABSENT" /\ row'[s].status = "PENDING"
        /\ row'[s].at = at /\ at > clock
        /\ \A t \in Schedules \ {s} : row'[t] = row[t]
        /\ UNCHANGED <<clock, engine, request>>
    BY <1>1, <1>5, CreateRows
  <2>2. \A i \in Instances : OnTime(i)'
    BY <1>1, <1>2, <2>1, OnTimeKept DEF Decided, GoesBack
  <2>3. FreshWrites'
    BY <1>1, <1>2, <2>1, FreshKept
  <2>4. QED
    BY <1>1, <2>2, <2>3 DEF ChainInv
<1>6. ASSUME NEW r \in Requests, RequestStep(r) PROVE ChainInv'
  <2>1. CASE RequestWrite(r)
    <3>1. /\ \A t \in Schedules : row'[t].at = row[t].at \/ GoesBack(t)
          /\ Respond(r)
          /\ UNCHANGED <<clock, engine>>
      BY <1>1, <2>1, WriteRows
    <3>2. \A i \in Instances : OnTime(i)'
      BY <1>1, <1>2, <3>1, OnTimeKept DEF Decided
    <3>3. QED
      BY <1>1, <3>1, <3>2, FreshAnswered DEF ChainInv
  <2>2. CASE Refuse(r)
    BY <1>1, <1>3, <2>2, FreshAnswered DEF ChainInv, Refuse
  <2>3. ASSUME NEW s \in Schedules, UpdateRead(r, s) \/ CancelRead(r, s) \/ ResumeRead(r, s)
        PROVE  ChainInv'
    <3>1. UNCHANGED <<row, engine>>
      BY <2>3 DEF UpdateRead, CancelRead, ResumeRead, ReadRow
    <3>2. QED
      BY <1>1, <1>3, <2>3, <3>1, ReadFresh DEF ChainInv
  <2>4. ASSUME NEW op \in {"enable", "disable"}, ModeRead(r, op) PROVE ChainInv'
    <3>1. UNCHANGED <<row, engine>>
      BY <2>4 DEF ModeRead
    <3>2. QED
      BY <1>1, <1>3, <2>4, <3>1, ModeReadFresh DEF ChainInv
  <2>5. QED
    BY <1>6, <2>1, <2>2, <2>3, <2>4 DEF RequestStep
<1>7. ASSUME NEW a \in Actions, EditAsset(a) PROVE ChainInv'
  BY <1>1, <1>3, <1>4, <1>7 DEF EditAsset, ChainInv
<1>8. ASSUME NEW i \in Instances, EngineStep(i) PROVE ChainInv'
  <2>1. \A j \in Instances : OnTime(j)'
    BY <1>1, <1>2, <1>8, EngineKeepsOnTime
  <2>2. \A t \in Schedules : EngineRow(i, t)
    BY <1>1, <1>2, <1>8, EngineRows
  <2>3. UNCHANGED request
    BY <1>8 DEF EngineStep, ReadDue, PlanDecision, DropDecision, HoldBehindHeld, MarkMissed,
              ExpireRetry, Claim, Execute, ExecuteBlocked, Reclaim, Judge, Finalize
  <2>4. FreshWrites'
    BY <1>1, <1>2, <2>2, <2>3, FreshKept DEF EngineRow, Stops, Stopped, Waits
  <2>5. QED
    BY <1>1, <2>1, <2>4 DEF ChainInv
<1>9. ASSUME NEW i \in Instances, Crash(i) PROVE ChainInv'
  <2>1. \A j \in Instances : Decided(j)
    BY <1>1, <1>9 DEF Crash, Rest, Idle, Decided, TypeOK
  <2>2. \A j \in Instances : OnTime(j)'
    BY <1>1, <1>2, <1>9, <2>1, OnTimeKept DEF Crash
  <2>3. QED
    BY <1>1, <1>4, <1>9, <2>2 DEF Crash, ChainInv
<1>10. CASE Advance
  BY <1>1, <1>3, <1>4, <1>10 DEF Advance, ChainInv
<1>11. CASE UNCHANGED vars
  BY <1>1, <1>3, <1>4, <1>11 DEF vars, ChainInv
<1>12. QED
  BY <1>5, <1>6, <1>7, <1>8, <1>9, <1>10, <1>11 DEF Next

LEMMA ChainInit == Init => ChainInv
<1> SUFFICES ASSUME Init PROVE ChainInv
  OBVIOUS
<1>1. TypeOK
  BY InitType
<1>2. OrderInv
  BY <1>1 DEF Init, NoRow, Idle, OrderInv, DistinctTimes, FirstInLine, Active
<1>3. FreshWrites
  BY DEF Init, NoRequest, FreshWrites
<1>4. \A i \in Instances : OnTime(i)
  BY DEF Init, Idle, OnTime
<1>5. QED
  BY <1>2, <1>3, <1>4 DEF ChainInv

\* What ChainKept says of a waiting row s that builds on p.
ChainEnds(s, p) ==
  \/ LastBefore(s, p)'
  \/ row'[p].status = "SUCCEEDED"
  \/ /\ row[p].status = "HELD" /\ row'[p].status = "PENDING"
     /\ row'[p].at > row'[s].at
  \/ row[p].action = "SWITCH_PROD_VERSION" /\ row'[p].status = "CANCELLED"

\* The two rows and what lies between them.
LEMMA LastMeans ==
  ASSUME TypeOK, NEW s \in Schedules, NEW p, LastBefore(s, p)
  PROVE  /\ p \in Schedules \ {s} /\ row[p].status \in Active
         /\ row[p].action = row[s].action
         /\ row[p].at \in Nat /\ row[s].at \in Nat /\ row[p].at < row[s].at
         /\ \A t \in Schedules \ {s} :
              /\ row[t].status \in Active /\ row[t].action = row[s].action
              /\ row[t].at < row[s].at
              => row[t].at <= row[p].at
BY DEF LastBefore, Siblings, ActiveRows, TypeOK, RowType

\* A row that goes to the end of its chain does not come between.
LEMMA EndOfChain ==
  ASSUME TypeOK, TypeOK', NEW s \in Schedules, NEW p \in Schedules, LastBefore(s, p),
         row[s].status \in Active, row[s].action \in Traced,
         NEW x \in Schedules \ {s, p},
         row'[x].action \in Traced => AtChainEnd(x, row'[x].action, row'[x].at),
         \A t \in Schedules \ {x} : row'[t] = row[t]
  PROVE  LastBefore(s, p)'
<1>1. row[p].status \in Active
  BY LastMeans
<1>2. row'[x].action = row[s].action => row[s].at < row'[x].at
  BY DEF AtChainEnd, Siblings, ActiveRows
<1>3. row'[x].at \in Nat /\ row[s].at \in Nat
  BY DEF TypeOK, RowType
<1>4. QED
  BY <1>1, <1>2, <1>3, LastKept

\* Moving a row leaves the order of the rows as it was.
LEMMA ChainMoved ==
  ASSUME ChainInv, TypeOK', NEW r \in Requests, UpdateWrite(r),
         NEW s \in Schedules, NEW p \in Schedules, LastBefore(s, p),
         row[s].status \in Active
  PROVE  LastBefore(s, p)'
<1> DEFINE x == request[r].sid
<1>1. TypeOK /\ DistinctTimes
  BY DEF ChainInv, OrderInv
<1>2. /\ x \in Schedules
      /\ row'[x].status = row[x].status /\ row'[x].action = row[x].action
      /\ row'[x].at \in Nat
      /\ PreservesOrder(x, request[r].at, row'[x].at)
      /\ \A t \in Schedules \ {x} : row'[t] = row[t]
  BY <1>1, UpdateRows
<1>3. request[r].at = row[x].at
  BY UpdateRows, <1>1 DEF ChainInv, FreshWrites
<1> HIDE DEF x
<1>4. \A t \in Schedules : row[t].at \in Nat
  BY <1>1 DEF TypeOK, RowType
<1>5. ASSUME NEW t \in Schedules \ {x}, row[t].status \in Active
      PROVE  /\ row[t].at < row[x].at => row[t].at < row'[x].at
             /\ row[t].at > row[x].at => row[t].at > row'[x].at
  BY <1>2, <1>3, <1>5 DEF PreservesOrder, ActiveRows
<1>6. \A t, u \in Schedules :
        row[t].status \in Active /\ row[u].status \in Active /\ t # u =>
          row[t].at # row[u].at
  BY <1>1 DEF DistinctTimes
<1>7. \A t \in Schedules :
        row'[t].status = row[t].status /\ row'[t].action = row[t].action
  BY <1>2
<1>8. /\ p # s /\ row[p].status \in Active /\ row[p].action = row[s].action
      /\ row[p].at < row[s].at
      /\ \A t \in Schedules \ {s} :
              /\ row[t].status \in Active /\ row[t].action = row[s].action
              /\ row[t].at < row[s].at
              => row[t].at <= row[p].at
  BY <1>1, LastMeans
<1>9. \* The order of any two active rows is what it was.
      ASSUME NEW t \in Schedules, NEW u \in Schedules,
             row[t].status \in Active, row[u].status \in Active, t # u
      PROVE  row'[t].at < row'[u].at <=> row[t].at < row[u].at
  <2>1. row[t].at # row[u].at
    BY <1>6, <1>9
  <2>2. CASE t = x
    BY <1>2, <1>4, <1>5, <1>9, <2>1, <2>2
  <2>3. CASE u = x
    BY <1>2, <1>4, <1>5, <1>9, <2>1, <2>3
  <2>4. CASE t # x /\ u # x
    BY <1>2, <2>4
  <2>5. QED
    BY <2>2, <2>3, <2>4
<1>10. \A t \in Schedules : row'[t].at \in Nat
  BY <1>2, <1>4
<1>11. row'[p].at < row'[s].at
  BY <1>8, <1>9
<1>12. ASSUME NEW t \in Schedules \ {s}, row'[t].status \in Active,
              row'[t].action = row'[s].action, row'[t].at < row'[s].at
       PROVE  row'[t].at <= row'[p].at
  <2>1. row[t].status \in Active /\ row[t].action = row[s].action /\ row[t].at < row[s].at
    BY <1>7, <1>9, <1>12
  <2>2. row[t].at <= row[p].at
    BY <1>8, <2>1
  <2>3. CASE t = p
    BY <1>10, <2>3
  <2>4. CASE t # p
    <3>1. row[t].at < row[p].at
      BY <1>4, <1>6, <1>8, <2>1, <2>2, <2>4
    <3>2. QED
      BY <1>8, <1>9, <1>10, <2>1, <2>4, <3>1
  <2>5. QED
    BY <2>3, <2>4
<1>13. QED
  BY <1>7, <1>8, <1>11, <1>12 DEF LastBefore, Siblings, ActiveRows

\* Where rows keep their place and none becomes active, only the end of p matters.
LEMMA ChainShrinks ==
  ASSUME TypeOK, NEW s \in Schedules, NEW p \in Schedules, LastBefore(s, p),
         \A t \in Schedules :
           /\ row'[t].at = row[t].at /\ row'[t].action = row[t].action
           /\ row'[t].status \in Active => row[t].status \in Active,
         row'[p].status \in Active
  PROVE  LastBefore(s, p)'
BY LastKept

LEMMA ChainKeptStep ==
  ASSUME ChainInv, TypeOK', [Next]_vars,
         NEW s \in Schedules, NEW p \in Schedules,
         row[s].status = "PENDING", row'[s].status = "PENDING",
         row[s].action \in Traced, LastBefore(s, p)
  PROVE  ChainEnds(s, p)
<1>1. TypeOK /\ FreshWrites /\ \A i \in Instances : OnTime(i)
  BY DEF ChainInv, OrderInv
<1>2. /\ p # s /\ row[p].status \in Active /\ row[p].action = row[s].action
      /\ row[p].at < row[s].at /\ row[s].status \in Active
  BY <1>1, LastMeans DEF Active
<1>3. CASE UNCHANGED row
  <2>1. LastBefore(s, p)'
    BY <1>1, <1>2, <1>3, ChainShrinks
  <2>2. QED
    BY <2>1 DEF ChainEnds
<1>4. ASSUME NEW x \in Schedules, NEW a \in Actions, NEW at \in 0..LastAt,
             NEW c \in Contents, Create(x, a, at, c)
      PROVE  ChainEnds(s, p)
  <2>1. /\ row[x].status = "ABSENT"
        /\ row'[x].action \in Traced => AtChainEnd(x, row'[x].action, row'[x].at)
        /\ \A t \in Schedules \ {x} : row'[t] = row[t]
    BY <1>1, <1>4, CreateRows
  <2>2. x \notin {s, p}
    BY <1>2, <2>1 DEF Active
  <2>3. LastBefore(s, p)'
    BY <1>1, <1>2, <2>1, <2>2, EndOfChain
  <2>4. QED
    BY <2>3 DEF ChainEnds
<1>5. ASSUME NEW r \in Requests, RequestWrite(r) PROVE ChainEnds(s, p)
  <2> DEFINE x == request[r].sid
  <2>1. CASE UpdateWrite(r)
    BY <1>2, <2>1, ChainMoved DEF ChainEnds
  <2>2. CASE CancelWrite(r)
    <3>1. /\ x \in Schedules /\ row'[x].status = "CANCELLED"
          /\ \A t \in Schedules : row'[t].at = row[t].at /\ row'[t].action = row[t].action
          /\ \A t \in Schedules \ {x} :
               /\ \/ row'[t].status = row[t].status
                  \/ row[t].status = "PENDING" /\ row'[t].status = "HELD"
               /\ /\ row[x].action = "RESTORE_VERSION" /\ row[t].action = "RESTORE_VERSION"
                  /\ row[t].status = "PENDING" /\ row[t].at > row[x].at
                  => row'[t].status = "HELD"
      BY <1>1, <2>2, CancelRows
    <3> HIDE DEF x
    <3>2. CASE x = p
      <4>1. row[p].action # "RESTORE_VERSION"
        BY <1>1, <1>2, <3>1, <3>2 DEF TypeOK, RowType
      <4>2. QED
        BY <1>2, <3>1, <3>2, <4>1 DEF ChainEnds, Traced
    <3>3. CASE x # p
      <4>1. row'[p].status \in Active
        BY <1>2, <3>1, <3>3 DEF Active
      <4>2. \A t \in Schedules : row'[t].status \in Active => row[t].status \in Active
        BY <3>1 DEF Active
      <4>3. QED
        BY <1>1, <3>1, <4>1, <4>2, ChainShrinks DEF ChainEnds
    <3>4. QED
      BY <3>2, <3>3
  <2>3. CASE ResumeWrite(r)
    <3>1. /\ x \in Schedules /\ request[r].op = "resume"
          /\ row'[x].status = "PENDING" /\ row'[x].action = row[x].action
          /\ row[x].action \in Traced => AtChainEnd(x, row[x].action, row'[x].at)
          /\ \A t \in Schedules \ {x} : row'[t] = row[t]
      BY <1>1, <2>3, ResumeRows
    <3>2. row[x].status = "HELD"
      BY <1>1, <3>1 DEF FreshWrites
    <3> HIDE DEF x
    <3>3. x # s
      BY <3>2
    <3>4. CASE x = p
      <4>1. row[s].at < row'[p].at
        BY <1>2, <3>1, <3>4 DEF AtChainEnd, Siblings, ActiveRows
      <4>2. row'[s].at = row[s].at /\ row[s].at \in Nat /\ row'[p].at \in Nat
        BY <1>1, <3>1, <3>3 DEF TypeOK, RowType
      <4>3. QED
        BY <3>1, <3>2, <3>4, <4>1, <4>2 DEF ChainEnds
    <3>5. CASE x # p
      BY <1>1, <1>2, <3>1, <3>3, <3>5, EndOfChain DEF ChainEnds
    <3>6. QED
      BY <3>4, <3>5
  <2>4. CASE EnableWrite(r) \/ DisableWrite(r)
    <3>1. \A t \in Schedules :
            /\ row'[t].at = row[t].at /\ row'[t].action = row[t].action
            /\ \/ row'[t].status = row[t].status
               \/ row[t].status = "PENDING" /\ row'[t].status = "HELD"
               \/ /\ row[t].status \in {"PENDING", "HELD"} /\ row'[t].status = "CANCELLED"
                  /\ row[t].action = "SWITCH_PROD_VERSION"
      BY <1>1, <2>4, ModeRows
    <3>2. \A t \in Schedules : row'[t].status \in Active => row[t].status \in Active
      BY <3>1 DEF Active
    <3>3. CASE row'[p].status \in Active
      BY <1>1, <3>1, <3>2, <3>3, ChainShrinks DEF ChainEnds
    <3>4. CASE row'[p].status \notin Active
      <4>1. row[p].action = "SWITCH_PROD_VERSION" /\ row'[p].status = "CANCELLED"
        BY <1>2, <3>1, <3>4 DEF Active
      <4>2. QED
        BY <4>1 DEF ChainEnds
    <3>5. QED
      BY <3>3, <3>4
  <2>5. QED
    BY <1>5, <2>1, <2>2, <2>3, <2>4 DEF RequestWrite
<1>6. ASSUME NEW i \in Instances, EngineStep(i) PROVE ChainEnds(s, p)
  <2>1. \A t \in Schedules : EngineRow(i, t)
    BY <1>1, <1>6, EngineRows
  <2>2. \A t \in Schedules :
          /\ row'[t].at = row[t].at /\ row'[t].action = row[t].action
          /\ row'[t].status \in Active => row[t].status \in Active
    BY <2>1 DEF EngineRow, Stops, Stopped, Active
  <2>3. CASE row'[p].status \in Active
    BY <1>1, <2>2, <2>3, ChainShrinks DEF ChainEnds
  <2>4. CASE row'[p].status \notin Active
    <3>1. row'[p].status = "SUCCEEDED" \/ Stops(i, p)
      BY <1>2, <2>1, <2>4 DEF EngineRow, Active
    <3>2. ~ Stops(i, p)
      BY <1>1, <1>2, LastMeans DEF Stops
    <3>3. QED
      BY <3>1, <3>2 DEF ChainEnds
  <2>5. QED
    BY <2>3, <2>4
<1>7. QED
  BY <1>3, <1>4, <1>5, <1>6
     DEF Next, vars, RequestStep, UpdateRead, CancelRead, ResumeRead, ReadRow, ModeRead,
         Refuse, EditAsset, Crash, Advance

\* With one request of the console at a time, a restore or switch that waits keeps
\* the schedule it builds on, whatever the engines, the crashes and the other
\* requests do to the table (rules R1 to R3, R5 and R6: hasLaterActiveRestore,
\* preservesOrder, holdSuccessorsWithin).  With two at a time a move can put
\* another schedule between the two: it is compared with a time that is no more.
THEOREM ChainIsKept ==
  ASSUME OneRequest
  PROVE  Spec => ChainKept
<1>1. ChainInv /\ [Next]_vars => ChainInv'
  BY ChainStep
<1>2. ChainInv /\ [Next]_vars =>
        [\A s, p \in Schedules :
           /\ row[s].status = "PENDING" /\ row'[s].status = "PENDING"
           /\ row[s].action \in Traced
           /\ LastBefore(s, p)
           => \/ LastBefore(s, p)'
              \/ row'[p].status = "SUCCEEDED"
              \/ /\ row[p].status = "HELD" /\ row'[p].status = "PENDING"
                 /\ row'[p].at > row'[s].at
              \/ row[p].action = "SWITCH_PROD_VERSION" /\ row'[p].status = "CANCELLED"]_vars
  <2> SUFFICES ASSUME ChainInv, [Next]_vars,
                      NEW s \in Schedules, NEW p \in Schedules,
                      row[s].status = "PENDING", row'[s].status = "PENDING",
                      row[s].action \in Traced, LastBefore(s, p)
               PROVE  \/ LastBefore(s, p)'
                      \/ row'[p].status = "SUCCEEDED"
                      \/ /\ row[p].status = "HELD" /\ row'[p].status = "PENDING"
                         /\ row'[p].at > row'[s].at
                      \/ row[p].action = "SWITCH_PROD_VERSION" /\ row'[p].status = "CANCELLED"
    OBVIOUS
  <2>1. TypeOK'
    BY TypeStep DEF ChainInv, OrderInv
  <2>2. ChainEnds(s, p)
    BY <2>1, ChainKeptStep
  <2>3. QED
    BY <2>2 DEF ChainEnds
<1>3. QED
  BY <1>1, <1>2, ChainInit, PTL DEF Spec, ChainKept

-----------------------------------------------------------------------------
(* Nothing starts behind a failure its administrator has not seen          *)

OneEngine == \A i, j \in Instances : i = j

\* s waits, or an execution of it may put it back to wait.
MayWait(s) ==
  \/ row[s].status = "PENDING"
  \/ row[s].status = "RUNNING" /\ \E i \in Instances : MayApply(i, s)

\* Whoever placed a row that waits could see the failures before it.
Informed ==
  \A s, t \in Schedules :
    /\ s # t /\ MayWait(s)
    /\ row[t].status \in Stopped
    /\ row[t].at <= row[s].at
    => t \in known[s]

\* Where no request moves a row, engines read the times rows keep, and what runs
\* is first.
Undisturbed ==
  /\ \A i \in Instances :
       engine[i].pc \in {"due", "planned"} =>
         /\ engine[i].at = row[engine[i].sid].at
         /\ row[engine[i].sid].status # "ABSENT"
  /\ \A s \in Schedules :
       row[s].status = "RUNNING" =>
         /\ row[s].at <= clock
         /\ \A t \in Schedules \ {s} : row[t].status \in Active => row[t].at > row[s].at

\* The inductive invariant behind FailStop.
StopInv ==
  /\ ChainInv
  /\ Requests = {} => Undisturbed
  /\ Informed

\* A step of one engine leaves the others alone.
LEMMA OthersIdle ==
  ASSUME TypeOK, NEW i \in Instances, EngineStep(i), NEW j \in Instances \ {i}
  PROVE  engine'[j] = engine[j]
<1>1. engine \in [Instances -> EngineType]
  BY DEF TypeOK
<1>2. QED
  BY <1>1 DEF EngineStep, ReadDue, PlanDecision, DropDecision, HoldBehindHeld, MarkMissed,
              ExpireRetry, Claim, Execute, ExecuteBlocked, Reclaim, Judge, Finalize, Rest

\* An execution that may put its row back to wait is one that did before, or has
\* just claimed a row that waits.
LEMMA ApplierKept ==
  ASSUME TypeOK, NEW i \in Instances, EngineStep(i),
         NEW s \in Schedules, NEW j \in Instances, MayApply(j, s)'
  PROVE  MayApply(j, s) \/ row[s].status = "PENDING"
<1>1. engine \in [Instances -> EngineType]
  BY DEF TypeOK
<1>2. CASE j # i
  BY <1>2, OthersIdle DEF MayApply
<1>3. CASE j = i
  <2>1. /\ engine'[i].sid = s
        /\ \/ engine'[i].pc = "claimed"
           \/ engine'[i].pc = "ran" /\ engine'[i].outcome = "TRANSIENT"
    BY <1>3 DEF MayApply
  <2>2. ~ Rest(i)
    BY <1>1, <2>1 DEF Rest, Idle
  <2>3. CASE ReadDue(i)
    BY <1>1, <2>1, <2>3 DEF ReadDue, Idle
  <2>4. CASE PlanDecision(i)
    BY <1>1, <2>1, <2>4 DEF PlanDecision, EngineType
  <2>5. CASE Claim(i)
    <3>1. Claimable(engine[i].sid, engine[i].attempts)
      BY <2>2, <2>5 DEF Claim
    <3>2. engine'[i].sid = engine[i].sid
      BY <1>1, <2>5, <3>1 DEF Claim, EngineType
    <3>3. QED
      BY <2>1, <3>1, <3>2 DEF Claimable
  <2>6. CASE Execute(i)
    <3>1. engine'[i].pc = "ran" /\ engine'[i].outcome # "TRANSIENT"
      BY <1>1, <2>6 DEF Execute, UnchangedOutcome, EngineType
    <3>2. QED
      BY <2>1, <3>1
  <2>7. CASE ExecuteBlocked(i)
    <3>1. engine[i].pc = "claimed" /\ engine'[i].sid = engine[i].sid
      BY <1>1, <2>7 DEF ExecuteBlocked, EngineType
    <3>2. QED
      BY <1>3, <2>1, <3>1 DEF MayApply
  <2>8. CASE Reclaim(i)
    <3>1. engine'[i].pc = "reclaimed"
      BY <1>1, <2>2, <2>8 DEF Reclaim, EngineType
    <3>2. QED
      BY <2>1, <3>1
  <2>9. CASE Judge(i)
    <3>1. engine'[i].pc = "ran" /\ engine'[i].outcome = Verdict(engine[i].sid)
      BY <1>1, <2>9 DEF Judge, EngineType
    <3>2. Verdict(engine[i].sid) # "TRANSIENT"
      BY DEF Verdict
    <3>3. QED
      BY <2>1, <3>1, <3>2
  <2>10. QED
    BY <2>2, <2>3, <2>4, <2>5, <2>6, <2>7, <2>8, <2>9
       DEF EngineStep, DropDecision, HoldBehindHeld, MarkMissed, ExpireRetry, Finalize
<1>4. QED
  BY <1>2, <1>3

\* No engine makes a row wait that did not.
LEMMA EngineKeepsMayWait ==
  ASSUME TypeOK, NEW i \in Instances, EngineStep(i), OnTime(i),
         NEW s \in Schedules, MayWait(s)'
  PROVE  MayWait(s)
<1>1. EngineRow(i, s)
  BY EngineRows
<1>2. CASE row'[s].status = "PENDING"
  BY <1>1, <1>2 DEF EngineRow, MayWait, Stops, Stopped
<1>3. CASE row'[s].status = "RUNNING" /\ \E j \in Instances : MayApply(j, s)'
  <2>1. PICK j \in Instances : MayApply(j, s)'
    BY <1>3
  <2>2. MayApply(j, s) \/ row[s].status = "PENDING"
    BY <2>1, ApplierKept
  <2>3. row[s].status \in {"RUNNING", "PENDING"}
    BY <1>1, <1>3 DEF EngineRow, Stops, Stopped
  <2>4. QED
    BY <2>2, <2>3 DEF MayWait
<1>4. QED
  BY <1>2, <1>3 DEF MayWait

LEMMA UndisturbedStep ==
  ASSUME Requests = {}, ChainInv, ChainInv', Undisturbed, [Next]_vars
  PROVE  Undisturbed'
<1>1. TypeOK /\ TypeOK' /\ \A i \in Instances : OnTime(i) /\ FirstInLine(i)
  BY DEF ChainInv, OrderInv
<1>2. /\ engine \in [Instances -> EngineType]
      /\ clock \in Nat
      /\ \A t \in Schedules : row[t].at \in Nat
      /\ \A i \in Instances : engine[i].pc # "idle" => engine[i].sid \in Schedules
  BY <1>1 DEF TypeOK, RowType
<1>3. CASE UNCHANGED <<clock, row, engine>>
  BY <1>3 DEF Undisturbed
<1>4. ASSUME NEW x \in Schedules, NEW a \in Actions, NEW at \in 0..LastAt,
             NEW c \in Contents, Create(x, a, at, c)
      PROVE  Undisturbed'
  <2>1. /\ row[x].status = "ABSENT" /\ row'[x].status = "PENDING"
        /\ row'[x].at = at /\ at \in Nat /\ at > clock
        /\ \A t \in Schedules \ {x} : row'[t] = row[t]
        /\ UNCHANGED <<clock, engine>>
    BY <1>1, <1>4, CreateRows
  <2>2. ASSUME NEW i \in Instances, engine[i].pc \in {"due", "planned"}
        PROVE  engine[i].sid \in Schedules \ {x}
    BY <1>2, <2>1, <2>2 DEF Undisturbed
  <2>3. ASSUME NEW s \in Schedules, row'[s].status = "RUNNING"
        PROVE  /\ row'[s].at <= clock
               /\ \A t \in Schedules \ {s} : row'[t].status \in Active => row'[t].at > row'[s].at
    <3>1. s # x /\ row'[s] = row[s] /\ row[s].status = "RUNNING" /\ row[s].at <= clock
      BY <2>1, <2>3 DEF Undisturbed
    <3>2. at > row[s].at
      BY <1>2, <2>1, <3>1
    <3>3. QED
      BY <2>1, <3>1, <3>2 DEF Undisturbed
  <2>4. QED
    BY <2>1, <2>2, <2>3 DEF Undisturbed
<1>5. ASSUME NEW i \in Instances, EngineStep(i) PROVE Undisturbed'
  <2>1. \A t \in Schedules : EngineRow(i, t)
    BY <1>1, <1>5, EngineRows
  <2>2. /\ clock' = clock
        /\ \A t \in Schedules :
             /\ row'[t].at = row[t].at
             /\ row'[t].status = "ABSENT" => row[t].status = "ABSENT"
             /\ row'[t].status \in Active => row[t].status \in Active
    <3>1. clock' = clock
      BY <1>5 DEF EngineStep, ReadDue, PlanDecision, DropDecision, HoldBehindHeld, MarkMissed,
                  ExpireRetry, Claim, Execute, ExecuteBlocked, Reclaim, Judge, Finalize
    <3>2. QED
      BY <2>1, <3>1 DEF EngineRow, Stops, Stopped, Active
  <2>3. ASSUME NEW j \in Instances, engine'[j].pc \in {"due", "planned"}
        PROVE  /\ engine'[j].at = row'[engine'[j].sid].at
               /\ row'[engine'[j].sid].status # "ABSENT"
    <3>1. CASE engine'[j] = engine[j]
      BY <1>2, <2>2, <2>3, <3>1 DEF Undisturbed
    <3>2. CASE j = i /\ PlanDecision(i)
      <4>1. /\ engine[i].pc = "due"
            /\ engine'[i].sid = engine[i].sid /\ engine'[i].at = engine[i].at
        BY <1>2, <3>2 DEF PlanDecision, EngineType
      <4>2. QED
        BY <1>2, <2>2, <3>2, <4>1 DEF Undisturbed
    <3>3. CASE j = i /\ ReadDue(i)
      <4>1. /\ row' = row
            /\ engine'[i].sid \in Schedules
            /\ engine'[i].at = row[engine'[i].sid].at
            /\ row[engine'[i].sid].status \in {"PENDING", "RUNNING"}
        BY <1>1, <3>3, ReadDueChoice
      <4>2. QED
        BY <3>3, <4>1
    <3>4. CASE j = i /\ ~ ReadDue(i) /\ ~ PlanDecision(i)
      <4>1. engine'[i] = engine[i] \/ engine'[i].pc \notin {"due", "planned"}
        BY <1>1, <1>5, <3>4, DecidesOnReads
      <4>2. QED
        BY <2>3, <3>1, <3>4, <4>1
    <3>5. QED
      BY <1>1, <1>5, <3>1, <3>2, <3>3, <3>4, OthersIdle
  <2>4. ASSUME NEW s \in Schedules, row'[s].status = "RUNNING"
        PROVE  /\ row[s].at <= clock
               /\ \A t \in Schedules \ {s} : row[t].status \in Active => row[t].at > row[s].at
    <3>1. row[s].status = "RUNNING" \/ (Claim(i) /\ s = engine[i].sid)
      BY <2>1, <2>4 DEF EngineRow, Stops, Stopped
    <3>2. CASE Claim(i) /\ s = engine[i].sid
      <4>1. engine[i].pc = "planned" /\ engine[i].kind = "EXECUTE"
        BY <3>2 DEF Claim, TakesUp
      <4>2. engine[i].at = row[s].at
        BY <3>2, <4>1 DEF Undisturbed
      <4>3. FirstInLine(i)
        BY <1>1
      <4>4. QED
        BY <3>2, <4>1, <4>2, <4>3 DEF FirstInLine
    <3>3. QED
      BY <3>1, <3>2 DEF Undisturbed
  <2>5. QED
    BY <2>2, <2>3, <2>4 DEF Undisturbed
<1>6. ASSUME NEW i \in Instances, Crash(i) PROVE Undisturbed'
  <2>1. /\ UNCHANGED <<clock, row>>
        /\ engine'[i].pc = "idle"
        /\ \A j \in Instances \ {i} : engine'[j] = engine[j]
    BY <1>2, <1>6 DEF Crash, Rest, Idle
  <2>2. QED
    BY <2>1 DEF Undisturbed
<1>7. CASE Advance
  <2>1. clock' = clock + 1 /\ UNCHANGED <<row, engine>>
    BY <1>7 DEF Advance
  <2>2. \A s \in Schedules : row[s].at <= clock => row[s].at <= clock'
    BY <1>2, <2>1
  <2>3. QED
    BY <2>1, <2>2 DEF Undisturbed
<1>8. QED
  BY <1>3, <1>4, <1>5, <1>6, <1>7 DEF Next, vars, EditAsset

\* Where no row moves, none starts to wait and no failure is forgotten, what was
\* known stays enough.
LEMMA InformedKept ==
  ASSUME Informed,
         \A s \in Schedules : MayWait(s)' => MayWait(s),
         \A t \in Schedules :
           /\ row'[t].status \in Stopped => row[t].status \in Stopped
           /\ row[t].status \in Stopped \/ MayWait(t) => row'[t].at = row[t].at,
         UNCHANGED known
  PROVE  Informed'
BY DEF Informed

\* What starts was waiting.
LEMMA OnlyWaitingStarts ==
  ASSUME TypeOK, \A i \in Instances : OnTime(i), [Next]_vars,
         NEW s \in Schedules, Starts(s)
  PROVE  row[s].status = "PENDING"
<1>1. row[s].status # "RUNNING" /\ row'[s].status = "RUNNING"
  BY DEF Starts
<1>2. ASSUME NEW x \in Schedules, NEW a \in Actions, NEW at \in 0..LastAt,
             NEW c \in Contents, Create(x, a, at, c)
      PROVE  FALSE
  BY <1>1, <1>2, CreateRows
<1>3. ASSUME NEW r \in Requests, RequestWrite(r) PROVE FALSE
  <2>1. ~ UpdateWrite(r)
    BY <1>1, UpdateRows
  <2>2. ~ CancelWrite(r)
    BY <1>1, CancelRows
  <2>3. ~ ResumeWrite(r)
    BY <1>1, ResumeRows
  <2>4. ~ (EnableWrite(r) \/ DisableWrite(r))
    BY <1>1, ModeRows
  <2>5. QED
    BY <1>3, <2>1, <2>2, <2>3, <2>4 DEF RequestWrite
<1>4. ASSUME NEW i \in Instances, EngineStep(i) PROVE row[s].status = "PENDING"
  BY <1>1, <1>4, EngineRows DEF EngineRow, Stops, Stopped
<1>5. ~ UNCHANGED row
  BY <1>1
<1>6. QED
  BY <1>2, <1>3, <1>4, <1>5
     DEF Next, vars, RequestStep, UpdateRead, CancelRead, ResumeRead, ReadRow, ModeRead,
         Refuse, EditAsset, Crash, Advance

\* What waits elsewhere is not changed by a request.
LEMMA WaitsElsewhere ==
  ASSUME NEW s \in Schedules, row'[s].status = row[s].status, UNCHANGED engine,
         MayWait(s)'
  PROVE  MayWait(s)
BY DEF MayWait, MayApply

\* A placed row waits knowing every failure there is.
LEMMA PlacedInformed ==
  ASSUME TypeOK, Informed, NEW x \in Schedules, UNCHANGED engine,
         row'[x].status \in Stopped => row[x].status \in Stopped,
         \A t \in Schedules \ {x} : row'[t] = row[t] /\ known'[t] = known[t],
         known'[x] = StoppedRows,
         \A s \in Schedules \ {x} :
           /\ MayWait(s)
           /\ row'[x].status \in Stopped
           /\ row'[x].at <= row[s].at
           => row[x].at <= row[s].at
  PROVE  Informed'
<1> SUFFICES ASSUME NEW s \in Schedules, NEW t \in Schedules,
                    s # t, MayWait(s)', row'[t].status \in Stopped, row'[t].at <= row'[s].at
             PROVE  t \in known'[s]
  BY DEF Informed
<1>1. CASE s = x
  BY <1>1 DEF StoppedRows
<1>2. CASE s # x
  <2>1. row'[s] = row[s] /\ known'[s] = known[s] /\ MayWait(s)
    BY <1>2, WaitsElsewhere
  <2>2. CASE t = x
    BY <1>2, <2>1, <2>2 DEF Informed
  <2>3. CASE t # x
    BY <2>1, <2>3 DEF Informed
  <2>4. QED
    BY <2>2, <2>3
<1>3. QED
  BY <1>1, <1>2

\* When an engine ends t without success, what it leaves waiting is before t.
LEMMA EngineKeepsInformed ==
  ASSUME StopInv, Requests = {} \/ OneEngine, NEW i \in Instances, EngineStep(i)
  PROVE  Informed'
<1>1. TypeOK /\ DistinctTimes /\ OnTime(i) /\ Informed
  BY DEF StopInv, ChainInv, OrderInv
<1>2. /\ \A t \in Schedules : EngineRow(i, t)
      /\ \A s \in Schedules : MayWait(s)' => MayWait(s)
  BY <1>1, EngineRows, EngineKeepsMayWait
<1>3. UNCHANGED known
  BY DEF EngineStep, ReadDue, PlanDecision, DropDecision, HoldBehindHeld, MarkMissed,
         ExpireRetry, Claim, Execute, ExecuteBlocked, Reclaim, Judge, Finalize
<1> SUFFICES ASSUME NEW s \in Schedules, NEW t \in Schedules,
                    s # t, MayWait(s)', row'[t].status \in Stopped, row'[t].at <= row'[s].at
             PROVE  t \in known[s]
  BY <1>3 DEF Informed
<1>4. /\ MayWait(s) /\ row[t].at <= row[s].at
      /\ row[t].at \in Nat /\ row[s].at \in Nat
  BY <1>1, <1>2 DEF EngineRow, TypeOK, RowType
<1>5. CASE row[t].status \in Stopped
  BY <1>1, <1>4, <1>5 DEF Informed
<1>6. CASE row[t].status \notin Stopped
  <2>1. Stops(i, t)
    BY <1>2, <1>6 DEF EngineRow, Stopped
  <2>2. t = engine[i].sid /\ row[t].status \in Waits
    BY <2>1 DEF Stops
  <2>3. row[s].status \in Waits
    BY <1>4 DEF MayWait, Waits
  <2>4. row[t].at < row[s].at
    BY <1>1, <1>4, <2>2, <2>3 DEF DistinctTimes, Waits, Active
  <2>5. row[s].status # "PENDING"
    BY <2>1, <2>4 DEF Stops, MayWait
  <2>6. row[s].status = "RUNNING" /\ \E j \in Instances : engine[j].sid = s
    BY <1>4, <2>5 DEF MayWait, MayApply
  <2>7. CASE Requests = {}
    BY <1>4, <2>2, <2>4, <2>6, <2>7 DEF StopInv, Undisturbed, Waits, Active
  <2>8. CASE OneEngine
    BY <2>2, <2>6, <2>8 DEF OneEngine
  <2>9. QED
    BY <2>7, <2>8
<1>7. QED
  BY <1>5, <1>6

\* A request moves a failed row behind a waiting one only from behind it.
LEMMA WriteKeepsInformed ==
  ASSUME StopInv, TypeOK', NEW r \in Requests, RequestWrite(r)
  PROVE  Informed'
<1> DEFINE x == request[r].sid
<1>1. TypeOK /\ FreshWrites /\ Informed
  BY DEF StopInv, ChainInv, OrderInv
<1>2. CASE UpdateWrite(r)
  <2>1. /\ x \in Schedules /\ request[r].op = "update"
        /\ row'[x].status = row[x].status
        /\ row'[x].at \in Nat
        /\ TimeAllowed(x, row'[x].at)
        /\ PreservesOrder(x, request[r].at, row'[x].at)
        /\ known'[x] = StoppedRows
        /\ \A t \in Schedules \ {x} : row'[t] = row[t] /\ known'[t] = known[t]
        /\ UNCHANGED engine
    BY <1>1, <1>2, UpdateRows
  <2>2. request[r].at = row[x].at
    BY <1>1, <2>1 DEF FreshWrites
  <2> HIDE DEF x
  <2>3. ASSUME NEW s \in Schedules \ {x}, MayWait(s), row'[x].at <= row[s].at
        PROVE  row[x].at <= row[s].at
    <3>1. row[x].at \in Nat /\ row[s].at \in Nat
      BY <1>1, <2>1 DEF TypeOK, RowType
    <3>2. s \in ActiveRows(x)
      BY <2>3 DEF MayWait, ActiveRows, Active
    <3>3. row[s].at < row[x].at => row[s].at < row'[x].at
      BY <2>1, <2>2, <3>2 DEF PreservesOrder
    <3>4. QED
      BY <2>1, <2>3, <3>1, <3>3
  <2>4. QED
    BY <1>1, <2>1, <2>3, PlacedInformed
<1>3. CASE CancelWrite(r)
  <2>1. /\ row'[x].status = "CANCELLED"
        /\ \A t \in Schedules : row'[t].at = row[t].at
        /\ \A t \in Schedules \ {x} :
             \/ row'[t].status = row[t].status
             \/ row[t].status = "PENDING" /\ row'[t].status = "HELD"
        /\ UNCHANGED <<engine, known>>
    BY <1>1, <1>3, CancelRows
  <2> HIDE DEF x
  <2>2. \A t \in Schedules :
          \/ row'[t].status = row[t].status
          \/ row'[t].status \in {"HELD", "CANCELLED"}
    BY <2>1
  <2>3. QED
    BY <1>1, <2>1, <2>2, InformedKept DEF MayWait, MayApply, Stopped
<1>4. CASE ResumeWrite(r)
  <2>1. /\ x \in Schedules
        /\ row'[x].status = "PENDING"
        /\ known'[x] = StoppedRows
        /\ \A t \in Schedules \ {x} : row'[t] = row[t] /\ known'[t] = known[t]
        /\ UNCHANGED engine
    BY <1>1, <1>4, ResumeRows
  <2> HIDE DEF x
  <2>2. row'[x].status \notin Stopped
    BY <2>1 DEF Stopped
  <2>3. QED
    BY <1>1, <2>1, <2>2, PlacedInformed
<1>5. CASE EnableWrite(r) \/ DisableWrite(r)
  <2>1. /\ \A t \in Schedules :
             /\ row'[t].at = row[t].at
             /\ \/ row'[t].status = row[t].status
                \/ row'[t].status \in {"HELD", "CANCELLED"}
        /\ UNCHANGED <<engine, known>>
    BY <1>1, <1>5, ModeRows
  <2>2. QED
    BY <1>1, <2>1, InformedKept DEF MayWait, MayApply, Stopped
<1>6. QED
  BY <1>2, <1>3, <1>4, <1>5 DEF RequestWrite

LEMMA StopStep ==
  ASSUME OneRequest, Requests = {} \/ OneEngine
  PROVE  StopInv /\ [Next]_vars => StopInv'
<1> SUFFICES ASSUME StopInv, [Next]_vars PROVE StopInv'
  OBVIOUS
<1>1. ChainInv /\ ChainInv' /\ TypeOK /\ TypeOK' /\ Informed
  BY ChainStep DEF StopInv, ChainInv, OrderInv
<1>2. Requests = {} => Undisturbed'
  BY <1>1, UndisturbedStep DEF StopInv
<1>3. UNCHANGED <<row, engine, known>> => Informed'
  <2> SUFFICES ASSUME UNCHANGED <<row, engine, known>> PROVE Informed'
    OBVIOUS
  <2>1. \A s \in Schedules : MayWait(s)' => MayWait(s)
    BY DEF MayWait, MayApply
  <2>2. QED
    BY <1>1, <2>1, InformedKept
<1>4. ASSUME NEW x \in Schedules, NEW a \in Actions, NEW at \in 0..LastAt,
             NEW c \in Contents, Create(x, a, at, c)
      PROVE  Informed'
  <2>1. /\ row'[x].status = "PENDING"
        /\ known'[x] = StoppedRows
        /\ \A t \in Schedules \ {x} : row'[t] = row[t] /\ known'[t] = known[t]
        /\ UNCHANGED engine
    BY <1>1, <1>4, CreateRows
  <2>2. row'[x].status \notin Stopped
    BY <2>1 DEF Stopped
  <2>3. QED
    BY <1>1, <2>1, <2>2, PlacedInformed
<1>5. ASSUME NEW r \in Requests, RequestWrite(r) PROVE Informed'
  BY <1>1, <1>5, WriteKeepsInformed
<1>6. ASSUME NEW i \in Instances, EngineStep(i) PROVE Informed'
  BY <1>6, EngineKeepsInformed
<1>7. ASSUME NEW i \in Instances, Crash(i) PROVE Informed'
  <2>1. \A s \in Schedules : MayWait(s)' => MayWait(s)
    BY <1>1, <1>7 DEF Crash, Rest, Idle, MayWait, MayApply, TypeOK
  <2>2. QED
    BY <1>1, <1>7, <2>1, InformedKept DEF Crash
<1>8. ASSUME NEW r \in Requests, RequestStep(r) PROVE Informed'
  BY <1>3, <1>5, <1>8 DEF RequestStep, UpdateRead, CancelRead, ResumeRead, ReadRow,
                          ModeRead, Refuse
<1>9. ASSUME NEW a \in Actions, EditAsset(a) PROVE Informed'
  <2>1. UNCHANGED <<row, engine, known>>
    BY <1>9 DEF EditAsset
  <2>2. QED
    BY <1>3, <2>1
<1>10. ASSUME Advance PROVE Informed'
  <2>1. UNCHANGED <<row, engine, known>>
    BY <1>10 DEF Advance
  <2>2. QED
    BY <1>3, <2>1
<1>11. ASSUME UNCHANGED vars PROVE Informed'
  <2>1. UNCHANGED <<row, engine, known>>
    BY <1>11 DEF vars
  <2>2. QED
    BY <1>3, <2>1
<1>12. Informed'
  BY <1>4, <1>6, <1>7, <1>8, <1>9, <1>10, <1>11 DEF Next
<1>13. QED
  BY <1>1, <1>2, <1>12 DEF StopInv

\* With one instance and one request of the console at a time, or with any number
\* of instances and no request but the creation of schedules, no schedule starts
\* behind a failed or missed one that whoever placed it could not see
\* (markMissed, expireRetry and finalize hold what is behind a failure in the
\* transaction that writes it).
THEOREM StopsBehindFailure ==
  ASSUME OneRequest, Requests = {} \/ OneEngine
  PROVE  Spec => FailStop
<1>1. Init => StopInv
  <2>1. Init => ChainInv
    BY ChainInit
  <2>2. Init => Undisturbed
    BY DEF Init, NoRow, Idle, Undisturbed
  <2>3. Init => Informed
    BY DEF Init, NoRow, Informed, Stopped
  <2>4. QED
    BY <2>1, <2>2, <2>3 DEF StopInv
<1>2. StopInv /\ [Next]_vars => StopInv'
  BY StopStep
<1>3. StopInv /\ [Next]_vars =>
        [\A s, t \in Schedules :
           /\ Starts(s)
           /\ row[t].status \in Stopped
           /\ row[t].at < row[s].at
           => t \in known[s]]_vars
  <2> SUFFICES ASSUME StopInv, [Next]_vars,
                      NEW s \in Schedules, NEW t \in Schedules,
                      Starts(s), row[t].status \in Stopped, row[t].at < row[s].at
               PROVE  t \in known[s]
    OBVIOUS
  <2>1. /\ TypeOK /\ TypeOK' /\ Informed
        /\ \A i \in Instances : OnTime(i)
    BY TypeStep DEF StopInv, ChainInv, OrderInv
  <2>2. row[s].at \in Nat /\ row[t].at \in Nat
    BY <2>1 DEF TypeOK, RowType
  <2>3. row[s].status = "PENDING"
    BY <2>1, OnlyWaitingStarts
  <2>4. QED
    BY <2>1, <2>2, <2>3 DEF Informed, MayWait
<1>4. QED
  BY <1>1, <1>2, <1>3, PTL DEF Spec, FailStop
=============================================================================
