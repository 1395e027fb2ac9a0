------------------------------ MODULE ProdSwitch ------------------------------
(***************************************************************************)
(* The production pointer of ONE chatbot and its two-person approval       *)
(* (apps/api/src/environment).                                             *)
(*                                                                         *)
(* A call of the console or of the scheduler reads what it needs in        *)
(* several queries and commits in one transaction; only the commit is a    *)
(* compare-and-set.  Everything between two queries may interleave, and    *)
(* a call may die between any two of its steps.                            *)
(***************************************************************************)
EXTENDS Naturals, Sequences, FiniteSets

CONSTANTS
  Users,        \* administrators with chatbot:deploy, one call each at a time
  Scheduler,    \* the caller that executes scheduled switches
  Versions,     \* captured versions
  Asks,         \* identities of approval requests
  Schedules,    \* identities of SWITCH_PROD_VERSION schedules
  Off,          \* no version: the pointer of a chatbot that is not separated
  NoUser, NoAsk, NoSchedule,
  OffLocked,    \* the server forbids switching the policy off
  MaxLog,       \* bound on the production moves
  MaxCalls      \* bound on the calls of the console

ASSUME ConstantsAssumption ==
  /\ Scheduler \notin Users /\ NoUser \notin Users
  /\ Off \notin Versions
  /\ NoAsk \notin Asks
  /\ NoSchedule \notin Schedules
  /\ OffLocked \in BOOLEAN
  /\ MaxLog \in Nat /\ MaxCalls \in Nat

VARIABLES
  prod,      \* Chatbot.prodVersionId
  staging,   \* ChatbotEnvironment.stagingVersionId
  policy,    \* ChatbotEnvironment.approvalRequired
  log,       \* EnvironmentSwitchLog, the PROD rows in order
  ask,       \* the table ProdSwitchApprovalRequest
  schedule,  \* the deploy_schedules rows of this kind
  call,      \* per caller: what the call in flight has read so far
  budget     \* calls of the console that may still come

vars == <<prod, staging, policy, log, ask, schedule, call, budget>>

Callers == Users \cup {Scheduler}
Kinds == {"SWITCH", "ROLLBACK"}
Closed == {"APPROVED", "REJECTED", "CANCELLED", "EXPIRED"}
Outcomes == {"NONE", "APPLIED", "FAILED", "SCHEDULED"}
Waiting == {"PENDING", "HELD"}

NoRequest == [status |-> "ABSENT", outcome |-> "NONE", kind |-> "SWITCH",
              target |-> Off, base |-> Off, sid |-> NoSchedule,
              by |-> NoUser, decider |-> NoUser, overdue |-> FALSE]

NoScheduleRow == [status |-> "ABSENT", target |-> Off, base |-> Off,
                  by |-> NoUser, due |-> FALSE]

\* An immediate call, an approved one and a scheduled one share switch(); the
\* other calls use the fields they need.  watched is a history variable: the
\* policy has been on ever since the call began.
Idle == [pc |-> "idle", op |-> "NONE", kind |-> "SWITCH", target |-> Off,
         expected |-> Off, qid |-> NoAsk, sid |-> NoSchedule, seen |-> Off,
         staged |-> Off, required |-> FALSE, direct |-> FALSE,
         mode |-> "NONE", trace |-> NoAsk, watched |-> FALSE,
         status |-> "NONE", outcome |-> "NONE"]

Entry(from, to, k, watched) ==
  [from |-> from, to |-> to, mode |-> k.mode, req |-> k.trace, via |-> k.qid,
   watched |-> watched]

\* A chatbot that is not separated yet, or has just been, with or without the
\* policy.
Init ==
  /\ prod \in Versions \cup {Off}
  /\ staging = prod
  /\ policy \in {FALSE, prod # Off}
  /\ log = IF prod = Off THEN <<>> ELSE <<Entry(Off, prod, Idle, FALSE)>>
  /\ ask = [q \in Asks |-> NoRequest]
  /\ schedule = [s \in Schedules |-> NoScheduleRow]
  /\ call = [c \in Callers |-> Idle]
  /\ budget = MaxCalls

-----------------------------------------------------------------------------
(* Queries                                                                 *)

Pending == {q \in Asks : ask[q].status = "PENDING"}

\* getProdHistoryDesc, as the set of versions that have been in production.
History == {log[i].to : i \in DOMAIN log} \ {Off}

\* isSwitchTargetAllowed
Allowed(kind, target, staged) ==
  \/ target \in History
  \/ kind = "SWITCH" /\ target = staged

Latest(S) == CHOOSE i \in S : \A j \in S : j <= i

\* pickRollbackTarget: where the move to the current version came from; else
\* the latest other version in the history.
RollbackTarget(moves, current) ==
  LET arrivals == {i \in DOMAIN moves : moves[i].to = current}
      others == {i \in DOMAIN moves : moves[i].to \notin {Off, current}}
      origin == IF arrivals = {} THEN Off ELSE moves[Latest(arrivals)].from
  IN  IF origin # Off THEN origin
      ELSE IF others # {} THEN moves[Latest(others)].to ELSE Off

\* computeDirectRollback
DirectRollback(kind, current, target) ==
  kind = "ROLLBACK" /\ RollbackTarget(log, current) = target

\* effectiveVerdict: what a pending request has become.
EffectiveStatus(q) ==
  LET r == ask[q]
      row == schedule[r.sid]
      bound == IF r.sid = NoSchedule THEN prod = r.base
               ELSE /\ row.status \in Waiting /\ ~row.due
                    /\ row.target = r.target /\ row.base = r.base
  IN  IF ~policy THEN "CANCELLED"
      ELSE IF r.overdue THEN "EXPIRED"
      ELSE IF bound THEN "PENDING" ELSE "CANCELLED"

\* A call of the console; a new one of an administrator who has none in flight.
Spend == budget > 0 /\ budget' = budget - 1

Calls(u) == call[u] = Idle /\ Spend

Answer(c) == call' = [call EXCEPT ![c] = Idle]

Enter(c, next) == call' = [call EXCEPT ![c] = next]

\* A decision that some later step of the same call writes.
Closing(q, op, status, outcome) ==
  [Idle EXCEPT !.pc = "close", !.op = op, !.qid = q,
     !.status = status, !.outcome = outcome]

-----------------------------------------------------------------------------
(* ProdSwitchService.switch                                                *)

\* switch() reads the chatbot: mode on, and not already there (NOOP).
SwitchRead(c, base) ==
  Enter(c, [base EXCEPT !.pc = "pointer", !.seen = prod, !.watched = policy])

\* POST environment/prod/switch and /rollback.  What the page showed as
\* production is a version that has been in production.
SwitchNow(u, kind, target, expected) ==
  /\ Calls(u)
  /\ prod # Off /\ target # prod
  /\ expected \in History
  /\ SwitchRead(u, [Idle EXCEPT !.op = "SWITCH", !.kind = kind,
                       !.target = target, !.expected = expected])
  /\ UNCHANGED <<prod, staging, policy, log, ask, schedule>>

\* classifyApplyFailure for an approval, classifyExecutionError for a schedule.
Failed(c, code) ==
  LET k == call[c] IN
  /\ Enter(c, CASE k.op = "APPROVE" /\ code = "STALE"
                     -> Closing(k.qid, "APPROVE", "CANCELLED", "NONE")
                [] k.op = "APPROVE" /\ code = "REFUSED"
                     -> Closing(k.qid, "APPROVE", "APPROVED", "FAILED")
                [] OTHER -> Idle)
  /\ schedule' = IF k.op = "SCHEDULED" /\ schedule[k.sid].status = "RUNNING"
                 THEN [schedule EXCEPT ![k.sid].status =
                         IF code = "BUSY" THEN "PENDING" ELSE "ENDED"]
                 ELSE schedule
  /\ UNCHANGED <<prod, staging, policy, log, ask, budget>>

\* The first query of switch() behind an approval or a schedule.
SwitchBegin(c) ==
  LET k == call[c] IN
  /\ k.pc = "begin"
  /\ \/ /\ prod # Off /\ k.target # prod
        /\ SwitchRead(c, k)
        /\ UNCHANGED <<prod, staging, policy, log, ask, schedule, budget>>
     \/ prod = Off /\ Failed(c, "REFUSED")
     \/ prod # Off /\ k.target = prod /\ Failed(c, "STALE")

\* getPointerStatus
ReadPointer(c) ==
  /\ call[c].pc = "pointer"
  /\ call' = [call EXCEPT ![c].pc = "history", ![c].staged = staging,
                          ![c].required = policy]
  /\ UNCHANGED <<prod, staging, policy, log, ask, schedule, budget>>

\* getProdHistoryDesc, isSwitchTargetAllowed, computeDirectRollback
ReadHistory(c) ==
  LET k == call[c] IN
  /\ k.pc = "history"
  /\ \/ /\ Allowed(k.kind, k.target, k.staged)
        /\ Enter(c, [k EXCEPT
                       !.pc = IF k.required THEN "approval" ELSE "commit",
                       !.direct = DirectRollback(k.kind, k.seen, k.target),
                       !.kind = "SWITCH", !.required = FALSE,
                       !.seen = Off, !.staged = Off])
        /\ UNCHANGED <<prod, staging, policy, log, ask, schedule, budget>>
     \/ ~Allowed(k.kind, k.target, k.staged) /\ Failed(c, "REFUSED")

\* A scheduled switch needs a request approved for exactly this move that no
\* move has used.
Usable(k) ==
  {q \in Asks :
     /\ ask[q].sid = k.sid /\ k.sid # NoSchedule
     /\ ask[q].status = "APPROVED" /\ ask[q].outcome = "SCHEDULED"
     /\ ask[q].target = k.target /\ ask[q].base = k.expected
     /\ \A i \in DOMAIN log : log[i].req # q}

\* Slip: any administrator may let a request through, its author as well.
MayDecide_Anyone(u, q) == TRUE

MayDecide(u, q) == ask[q].by # u

\* assertApprovalSatisfied when the policy that was read is on.
CheckApproval(c) ==
  LET k == call[c]
      pass(mode, q) ==
        /\ Enter(c, [k EXCEPT !.pc = "commit", !.mode = mode, !.trace = q])
        /\ UNCHANGED <<prod, staging, policy, log, ask, schedule, budget>>
  IN
  /\ k.pc = "approval"
  /\ \/ /\ k.op = "APPROVE"
        /\ IF ask[k.qid].status = "PENDING" /\ MayDecide(c, k.qid)
           THEN pass("APPROVED", k.qid) ELSE Failed(c, "KEPT")
     \/ k.op # "APPROVE" /\ k.direct /\ pass("SOLO_ROLLBACK", NoAsk)
     \/ /\ k.op # "APPROVE" /\ ~k.direct
        /\ \/ \E q \in Usable(k) : pass("APPROVED", q)
           \/ Usable(k) = {} /\ Failed(c, "MISSING")

\* The gate blocks (never a direct rollback), a warning is not acknowledged,
\* or the database is busy.
Stop(c) ==
  /\ call[c].pc = "commit"
  /\ \/ ~call[c].direct /\ Failed(c, "REFUSED")
     \/ call[c].op # "SCHEDULED" /\ Failed(c, "KEPT")
     \/ Failed(c, "BUSY")

\* Slip: the pointer is compared with what the call read, not in the update.
Unmoved_AsRead(c) == prod # Off

\* The compare-and-set of writer.switchProd.
Unmoved(c) == prod = call[c].expected

\* The compare-and-set of store.claimApplied, in the transaction of the move.
Claimable(c) ==
  call[c].op = "APPROVE" => ask[call[c].qid].status = "PENDING"

\* Slip: the move does not claim the request.
Claimed_Forgotten(c) == ask

Claimed(c) ==
  IF call[c].op # "APPROVE" THEN ask
  ELSE [ask EXCEPT ![call[c].qid].status = "APPROVED",
          ![call[c].qid].outcome = "APPLIED", ![call[c].qid].decider = c]

\* The transaction: move, log row and claim, or nothing.
Commit(c) ==
  LET k == call[c] IN
  /\ k.pc = "commit"
  /\ \/ /\ Unmoved(c) /\ Claimable(c)
        /\ Len(log) < MaxLog
        /\ prod' = k.target
        /\ log' = Append(log, Entry(k.expected, k.target, k, k.watched))
        /\ ask' = Claimed(c)
        /\ Answer(c)
        /\ UNCHANGED <<staging, policy, schedule, budget>>
     \/ ~Unmoved(c) /\ Failed(c, "STALE")
     \/ Unmoved(c) /\ ~Claimable(c) /\ Failed(c, "KEPT")

-----------------------------------------------------------------------------
(* SwitchApprovalService                                                   *)

\* approve of an immediate request: sweep finds it alive, switch() begins.
ApproveNow(u, q) ==
  /\ Calls(u)
  /\ ask[q].status = "PENDING" /\ EffectiveStatus(q) = "PENDING"
  /\ ask[q].sid = NoSchedule /\ MayDecide(u, q)
  /\ Enter(u, [Idle EXCEPT !.pc = "begin", !.op = "APPROVE", !.qid = q,
                 !.kind = ask[q].kind, !.target = ask[q].target,
                 !.expected = ask[q].base])
  /\ UNCHANGED <<prod, staging, policy, log, ask, schedule>>

\* approve of a scheduled request, reject, cancel: the decision before its
\* compare-and-set.
Decide(u, q) ==
  /\ Calls(u)
  /\ ask[q].status = "PENDING" /\ EffectiveStatus(q) = "PENDING"
  /\ \/ /\ MayDecide(u, q) /\ ask[q].sid # NoSchedule
        /\ Enter(u, Closing(q, "DECIDE", "APPROVED", "SCHEDULED"))
     \/ MayDecide(u, q) /\ Enter(u, Closing(q, "DECIDE", "REJECTED", "NONE"))
     \/ ask[q].by = u /\ Enter(u, Closing(q, "DECIDE", "CANCELLED", "NONE"))
  /\ UNCHANGED <<prod, staging, policy, log, ask, schedule>>

\* sweep in a view, a list or a refused decision: the verdict before its
\* compare-and-set.
Sweep(u, q) ==
  /\ Calls(u)
  /\ ask[q].status = "PENDING" /\ EffectiveStatus(q) # "PENDING"
  /\ Enter(u, Closing(q, "SWEEP", EffectiveStatus(q), "NONE"))
  /\ UNCHANGED <<prod, staging, policy, log, ask, schedule>>

\* Slip: the update names the row by its id alone.
Open_ById(q) == ask[q].status # "ABSENT"

\* The compare-and-set of store.close.
Open(q) == ask[q].status = "PENDING"

\* store.close.  Only the sweep inside createRequest goes on.
Close(c) ==
  LET k == call[c] IN
  /\ k.pc = "close"
  /\ ask' = IF ~Open(k.qid) THEN ask
            ELSE [ask EXCEPT ![k.qid].status = k.status,
                    ![k.qid].outcome = k.outcome,
                    ![k.qid].decider = IF k.op = "DECIDE" \/ k.status = "APPROVED"
                                       THEN c ELSE NoUser]
  /\ IF k.op = "ASK" THEN Enter(c, [k EXCEPT !.pc = "preview"]) ELSE Answer(c)
  /\ UNCHANGED <<prod, staging, policy, log, schedule, budget>>

\* createRequest: policy, mode and the pending request are read.
AskRead(u) ==
  /\ Calls(u)
  /\ prod # Off /\ policy
  /\ \/ /\ \A q \in Pending : EffectiveStatus(q) = "PENDING"
        /\ Enter(u, [Idle EXCEPT !.pc = "preview", !.op = "ASK"])
     \/ \E q \in Pending :
          /\ EffectiveStatus(q) # "PENDING"
          /\ Enter(u, Closing(q, "ASK", EffectiveStatus(q), "NONE"))
  /\ UNCHANGED <<prod, staging, policy, log, ask, schedule>>

\* The preview of an immediate request: the target is allowed, differs from
\* production, and production is what the page showed.
AskPreview(u, kind, target) ==
  /\ call[u].pc = "preview"
  /\ prod # Off /\ target # prod
  /\ Allowed(kind, target, staging)
  /\ Enter(u, [Idle EXCEPT !.pc = "insert", !.op = "ASK", !.kind = kind,
                 !.target = target, !.expected = prod])
  /\ UNCHANGED <<prod, staging, policy, log, ask, schedule, budget>>

\* buildScheduledRequest: the author of a waiting schedule asks for it.
AskForSchedule(u, s) ==
  LET row == schedule[s] IN
  /\ call[u].pc = "preview"
  /\ row.status \in Waiting /\ row.by = u /\ ~row.due
  /\ prod # Off
  /\ Enter(u, [Idle EXCEPT !.pc = "insert", !.op = "ASK", !.sid = s,
                 !.target = row.target, !.expected = row.base])
  /\ UNCHANGED <<prod, staging, policy, log, ask, schedule, budget>>

\* store.create: pendingLock is unique.
AskInsert(u, q) ==
  LET k == call[u] IN
  /\ k.pc = "insert"
  /\ Pending = {} /\ ask[q].status = "ABSENT"
  /\ ask' = [ask EXCEPT ![q] =
               [NoRequest EXCEPT !.status = "PENDING", !.kind = k.kind,
                  !.target = k.target, !.base = k.expected, !.sid = k.sid,
                  !.by = u]]
  /\ Answer(u)
  /\ UNCHANGED <<prod, staging, policy, log, schedule, budget>>

\* Refused: a preview that does not fit, or another request is pending.
AskRefused(u) ==
  /\ call[u].pc \in {"preview", "insert"}
  /\ Answer(u)
  /\ UNCHANGED <<prod, staging, policy, log, ask, schedule, budget>>

\* Time passes expiresAt.
Overdue(q) ==
  /\ ask[q].status = "PENDING" /\ ~ask[q].overdue
  /\ ask' = [ask EXCEPT ![q].overdue = TRUE]
  /\ UNCHANGED <<prod, staging, policy, log, schedule, call, budget>>

\* updatePolicy reads the old policy; an update may also only change the ttl.
PolicyRead(u, required) ==
  /\ Calls(u)
  /\ required /\ ~policy => prod # Off
  /\ ~required /\ policy => ~OffLocked
  /\ Enter(u, [Idle EXCEPT !.pc = "policy", !.op = "POLICY",
                 !.required = policy, !.direct = required])
  /\ UNCHANGED <<prod, staging, policy, log, ask, schedule>>

\* The transaction of updatePolicy decides from the old policy that was read.
PolicyWrite(u) ==
  LET required == call[u].direct
      before == call[u].required
      rest == [call EXCEPT ![u] = Idle]
  IN
  /\ call[u].pc = "policy"
  /\ policy' = required
  /\ ask' = IF required \/ ~before THEN ask
            ELSE [q \in Asks |-> IF q \in Pending
                                 THEN [ask[q] EXCEPT !.status = "CANCELLED"]
                                 ELSE ask[q]]
  /\ call' = IF required THEN rest
             ELSE [c \in Callers |-> [rest[c] EXCEPT !.watched = FALSE]]
  /\ UNCHANGED <<prod, staging, log, schedule, budget>>

-----------------------------------------------------------------------------
(* EnvironmentModeService and StagingPromotionService                      *)

\* Enable and disable look for a running schedule before their transaction.
ModeRead(u) ==
  /\ Calls(u)
  /\ \A s \in Schedules : schedule[s].status # "RUNNING"
  /\ Enter(u, [Idle EXCEPT !.pc = "mode", !.op = "MODE"])
  /\ UNCHANGED <<prod, staging, policy, log, ask, schedule>>

Enable(u, v) ==
  /\ call[u].pc = "mode"
  /\ prod = Off
  /\ Len(log) < MaxLog
  /\ prod' = v
  /\ staging' = v
  /\ log' = Append(log, Entry(Off, v, Idle, FALSE))
  /\ Answer(u)
  /\ UNCHANGED <<policy, ask, schedule, budget>>

\* Slip: the policy was looked at before the transaction.
MayDisable_AnyPolicy == TRUE

\* The transaction of disable reads the policy again.
MayDisable == ~policy

Disable(u) ==
  /\ call[u].pc = "mode"
  /\ prod # Off /\ MayDisable
  /\ Len(log) < MaxLog
  /\ prod' = Off
  /\ staging' = Off
  /\ log' = Append(log, Entry(prod, Off, Idle, policy))
  /\ schedule' = [s \in Schedules |->
                    IF schedule[s].status \in Waiting
                    THEN [schedule[s] EXCEPT !.status = "ENDED"]
                    ELSE schedule[s]]
  /\ Answer(u)
  /\ UNCHANGED <<policy, ask, budget>>

\* promote is one transaction.
Promote(v) ==
  /\ prod # Off /\ staging # v
  /\ staging' = v
  /\ Spend
  /\ UNCHANGED <<prod, policy, log, ask, schedule, call>>

-----------------------------------------------------------------------------
(* The schedules of the switch, as deploy-schedules keeps them             *)

ActiveOthers(s) ==
  {r \in Schedules \ {s} : schedule[r].status \in Waiting \cup {"RUNNING"}}

\* Slip: without another schedule the pointer is bound even when it is not set.
Bindings_AnyPointer(s) == {prod}

\* The base a schedule is bound to: the target of an active schedule before
\* it, else the present pointer.
Bindings(s) ==
  IF ActiveOthers(s) = {} THEN {prod} \ {Off}
  ELSE {schedule[r].target : r \in ActiveOthers(s)}

\* create is one transaction.
Schedule(s, u, v) ==
  /\ schedule[s].status = "ABSENT"
  /\ \E base \in Bindings(s) :
       schedule' = [schedule EXCEPT ![s] =
                      [NoScheduleRow EXCEPT !.status = "PENDING", !.by = u,
                         !.target = v, !.base = base]]
  /\ Spend
  /\ UNCHANGED <<prod, staging, policy, log, ask, call>>

\* cancel, update and resume read the status ...
RowRead(u, s, op) ==
  /\ Calls(u)
  /\ schedule[s].status \in (IF op = "RESUME" THEN {"HELD"} ELSE Waiting)
  /\ Enter(u, [Idle EXCEPT !.pc = "row", !.op = op, !.sid = s])
  /\ UNCHANGED <<prod, staging, policy, log, ask, schedule>>

\* ... and write the row by its id, in whatever status it is by then.
RowWrite(u) ==
  LET s == call[u].sid IN
  /\ call[u].pc = "row"
  /\ \/ /\ call[u].op = "CANCEL"
        /\ schedule' = [schedule EXCEPT ![s].status = "ENDED"]
     \/ /\ call[u].op = "MOVE"
        /\ schedule' = [schedule EXCEPT ![s].due = FALSE]
     \/ /\ call[u].op = "RESUME"
        /\ \E base \in Bindings(s) :
             schedule' = [schedule EXCEPT ![s].status = "PENDING",
                            ![s].base = base, ![s].due = FALSE]
  /\ Answer(u)
  /\ UNCHANGED <<prod, staging, policy, log, ask, budget>>

\* What the engine writes outside an execution.
SetStatus(s, old, new) ==
  /\ schedule[s].status \in old
  /\ schedule' = [schedule EXCEPT ![s].status = new]
  /\ UNCHANGED <<prod, staging, policy, log, ask, call, budget>>

\* A schedule before it in its chain failed or is held.
Hold(s) == SetStatus(s, {"PENDING"}, "HELD")

\* The engine comes too late.
Miss(s) == schedule[s].due /\ SetStatus(s, {"PENDING"}, "ENDED")

\* The scheduled time; a request for the schedule ends with it at the latest.
Due(s) ==
  /\ schedule[s].status \in Waiting /\ ~schedule[s].due
  /\ schedule' = [schedule EXCEPT ![s].due = TRUE]
  /\ ask' = [q \in Asks |-> IF q \in Pending /\ ask[q].sid = s
                            THEN [ask[q] EXCEPT !.overdue = TRUE] ELSE ask[q]]
  /\ UNCHANGED <<prod, staging, policy, log, call, budget>>

\* The engine claims the row.  It ends at once when the pointer is no longer
\* the base, or when its author may no longer deploy.
Start(s) ==
  LET row == schedule[s] IN
  /\ row.status = "PENDING" /\ row.due
  /\ call[Scheduler] = Idle
  /\ \/ /\ prod = row.base
        /\ schedule' = [schedule EXCEPT ![s].status = "RUNNING"]
        /\ Enter(Scheduler, [Idle EXCEPT !.pc = "begin", !.op = "SCHEDULED",
                               !.sid = s, !.target = row.target,
                               !.expected = row.base])
     \/ /\ schedule' = [schedule EXCEPT ![s].status = "ENDED"]
        /\ UNCHANGED call
  /\ UNCHANGED <<prod, staging, policy, log, ask, budget>>

\* The outcome of an execution is recorded, or judged from the log after a
\* crash; a row that was RUNNING is never run again.
Settle(s) ==
  /\ call[Scheduler] = Idle
  /\ SetStatus(s, {"RUNNING"}, "ENDED")

\* The process that answers a call dies.
Crash(c) ==
  /\ call[c] # Idle
  /\ Answer(c)
  /\ UNCHANGED <<prod, staging, policy, log, ask, schedule, budget>>

-----------------------------------------------------------------------------
Switching(c) ==
  \/ SwitchBegin(c) \/ ReadPointer(c) \/ ReadHistory(c) \/ CheckApproval(c)
  \/ Stop(c) \/ Commit(c) \/ Close(c) \/ Crash(c)

Requesting(u) ==
  \/ AskRead(u) \/ AskRefused(u)
  \/ \E kind \in Kinds, v \in Versions : AskPreview(u, kind, v)
  \/ \E s \in Schedules : AskForSchedule(u, s)
  \/ \E q \in Asks :
       AskInsert(u, q) \/ ApproveNow(u, q) \/ Decide(u, q) \/ Sweep(u, q)

Administering(u) ==
  \/ \E kind \in Kinds, v, w \in Versions : SwitchNow(u, kind, v, w)
  \/ \E required \in BOOLEAN : PolicyRead(u, required)
  \/ PolicyWrite(u)
  \/ ModeRead(u) \/ Disable(u) \/ RowWrite(u)
  \/ \E v \in Versions : Enable(u, v)

Scheduling(s) ==
  \/ Hold(s) \/ Miss(s) \/ Due(s) \/ Start(s) \/ Settle(s)
  \/ \E u \in Users, op \in {"CANCEL", "MOVE", "RESUME"} : RowRead(u, s, op)
  \/ \E u \in Users, v \in Versions : Schedule(s, u, v)

Next ==
  \/ \E c \in Callers : Switching(c)
  \/ \E u \in Users : Requesting(u) \/ Administering(u)
  \/ \E s \in Schedules : Scheduling(s)
  \/ \E q \in Asks : Overdue(q)
  \/ \E v \in Versions : Promote(v)

Spec == Init /\ [][Next]_vars

-----------------------------------------------------------------------------
(* Correctness                                                             *)

MaybeVersion == Versions \cup {Off}

EntryType == [from : MaybeVersion, to : MaybeVersion,
              mode : {"NONE", "APPROVED", "SOLO_ROLLBACK"},
              req : Asks \cup {NoAsk}, via : Asks \cup {NoAsk},
              watched : BOOLEAN]

RequestType == [status : Closed \cup {"ABSENT", "PENDING"},
                outcome : Outcomes, kind : Kinds,
                target : MaybeVersion, base : MaybeVersion,
                sid : Schedules \cup {NoSchedule},
                by : Users \cup {NoUser},
                decider : Callers \cup {NoUser}, overdue : BOOLEAN]

ScheduleType == [status : Waiting \cup {"ABSENT", "RUNNING", "ENDED"},
                 target : MaybeVersion, base : MaybeVersion,
                 by : Users \cup {NoUser}, due : BOOLEAN]

CallType == [pc : {"idle", "begin", "pointer", "history", "approval", "commit",
                   "close", "preview", "insert", "policy", "mode",
                   "row"},
             op : {"NONE", "SWITCH", "APPROVE", "SCHEDULED", "ASK", "SWEEP",
                   "DECIDE", "POLICY", "MODE", "CANCEL", "MOVE", "RESUME"},
             kind : Kinds, target : MaybeVersion, expected : MaybeVersion,
             qid : Asks \cup {NoAsk}, sid : Schedules \cup {NoSchedule},
             seen : MaybeVersion, staged : MaybeVersion,
             required : BOOLEAN, direct : BOOLEAN,
             mode : {"NONE", "APPROVED", "SOLO_ROLLBACK"},
             trace : Asks \cup {NoAsk}, watched : BOOLEAN,
             status : Closed \cup {"NONE", "PENDING"}, outcome : Outcomes]

\* Types.  Beyond them: both pointers are set and cleared together, and a row
\* that exists aims from a version at a version.
TypeOK ==
  /\ prod \in MaybeVersion
  /\ staging \in MaybeVersion
  /\ policy \in BOOLEAN
  /\ log \in Seq(EntryType)
  /\ ask \in [Asks -> RequestType]
  /\ schedule \in [Schedules -> ScheduleType]
  /\ call \in [Callers -> CallType]
  /\ budget \in Nat
  /\ prod = Off <=> staging = Off
  /\ \A s \in Schedules : schedule[s].status # "ABSENT" =>
       schedule[s].base \in Versions /\ schedule[s].target \in Versions

\* Refinement: seen through the pointer, its log and the approvals the log
\* names, every step of every call is a recorded move or nothing, and no
\* approval moves the pointer twice -- whatever the calls had read.
Ledger == INSTANCE ProdPointer WITH
  moves <- [i \in DOMAIN log |-> [from |-> log[i].from, to |-> log[i].to]],
  spent <- {log[i].req : i \in DOMAIN log} \ {NoAsk}

LedgerSpec == Ledger!Spec

\* A move marked APPROVED has a request for exactly this move, let through by
\* an administrator other than its author, for an immediate switch and for one
\* that a schedule made long after the decision.
FourEyes ==
  \A i \in DOMAIN log : log[i].mode = "APPROVED" =>
    /\ log[i].req \in Asks
    /\ LET r == ask[log[i].req] IN
         /\ r.status = "APPROVED" /\ r.outcome \in {"APPLIED", "SCHEDULED"}
         /\ r.decider \in Users /\ r.decider # r.by
         /\ r.base = log[i].from /\ r.target = log[i].to

\* The pointer was moved exactly once for a request that is APPROVED and
\* APPLIED, and never for another: no approval without its move, and no move
\* for a request withdrawn, refused, swept or switched off meanwhile.
AppliedIsCommitted ==
  \A q \in Asks :
    Cardinality({i \in DOMAIN log : log[i].via = q})
      = IF ask[q].status = "APPROVED" /\ ask[q].outcome = "APPLIED" THEN 1 ELSE 0

\* While the policy has been on ever since a call began, that call moves the
\* pointer only with an approval or back to the previous version, and never
\* removes it.
PolicyEnforced ==
  \A i \in DOMAIN log : log[i].watched => log[i].mode # "NONE"

\* A closed request is final: decision, sweep, policy and claim race for it and
\* one of them wins.
ClosedIsFinal ==
  [][\A q \in Asks : ask[q].status \in Closed => ask'[q] = ask[q]]_ask
===============================================================================
