--------------------------- MODULE ProdSwitchProofs ---------------------------
(***************************************************************************)
(* Theorems about ProdSwitch, for any number of administrators, versions,  *)
(* requests and schedules and any bounds: types, four eyes, approval and   *)
(* move, policy, final requests, and the refinement of ProdPointer.        *)
(***************************************************************************)
EXTENDS ProdSwitch, SequenceTheorems, FiniteSetTheorems, TLAPS

(***************************************************************************)
(* What a call in flight, a request and an entry of the log may rely on.   *)
(***************************************************************************)

\* A call is somewhere in switch().
SwitchPc == {"begin", "pointer", "history", "approval", "commit"}

\* Let through by somebody other than its author.
Granted(q) ==
  /\ ask[q].status = "APPROVED" /\ ask[q].outcome \in {"APPLIED", "SCHEDULED"}
  /\ ask[q].decider \in Users /\ ask[q].decider # ask[q].by

Fits(q, base, target) == ask[q].base = base /\ ask[q].target = target

\* A call in switch(): an approval acts on a request of somebody else, for
\* exactly the move it asks for.
SwitchOK(c, k) ==
  /\ k.op \in {"SWITCH", "APPROVE", "SCHEDULED"}
  /\ k.target \in Versions /\ k.expected \in Versions
  /\ k.op = "APPROVE" =>
       /\ c \in Users /\ k.qid \in Asks
       /\ ask[k.qid].status # "ABSENT" /\ ask[k.qid].by # c
       /\ Fits(k.qid, k.expected, k.target)
  /\ k.op # "APPROVE" => k.qid = NoAsk
  /\ k.op = "SWITCH" => k.sid = NoSchedule
  /\ k.op = "SCHEDULED" => c = Scheduler
  /\ k.pc # "commit" => k.mode = "NONE" /\ k.trace = NoAsk
  /\ k.pc = "history" /\ k.watched => k.required

\* The check of the approval is behind the call.
CommitOK(k) ==
  /\ k.watched => k.mode # "NONE"
  /\ k.mode # "APPROVED" => k.trace = NoAsk
  /\ k.mode = "APPROVED" =>
       /\ k.op # "SWITCH" /\ k.trace \in Asks
       /\ k.op = "APPROVE" => k.trace = k.qid
       /\ k.op = "SCHEDULED" =>
            /\ Granted(k.trace) /\ Fits(k.trace, k.expected, k.target)
            /\ \A i \in DOMAIN log : log[i].req # k.trace

\* A decision about to be written.
CloseOK(c, k) ==
  /\ k.qid \in Asks /\ ask[k.qid].status # "ABSENT"
  /\ k.status \in Closed /\ k.outcome # "APPLIED"
  /\ k.outcome = "SCHEDULED" =>
       k.status = "APPROVED" /\ c \in Users /\ ask[k.qid].by # c

CallOK(c, k) ==
  /\ k.pc \in SwitchPc => SwitchOK(c, k)
  /\ k.pc = "commit" => CommitOK(k)
  /\ k.pc = "close" => CloseOK(c, k)
  /\ k.pc = "insert" => k.target \in Versions /\ k.expected \in Versions
  /\ k.pc = "row" => k.sid \in Schedules /\ schedule[k.sid].status # "ABSENT"
  /\ k.watched => policy

\* A request that was applied has its move.
AskOK(q) ==
  /\ ask[q].status # "ABSENT" =>
       ask[q].target \in Versions /\ ask[q].base \in Versions
  /\ ask[q].status = "APPROVED" /\ ask[q].outcome \in {"APPLIED", "SCHEDULED"}
       => Granted(q)
  /\ ask[q].status = "APPROVED" /\ ask[q].outcome = "APPLIED"
       => \E i \in DOMAIN log : log[i].via = q

\* A move has the approval it claims.
EntryOK(e) ==
  /\ e.mode # "APPROVED" => e.req = NoAsk
  /\ e.mode = "APPROVED" =>
       e.req \in Asks /\ Granted(e.req) /\ Fits(e.req, e.from, e.to)
  /\ e.watched => e.mode # "NONE"
  /\ e.via # NoAsk =>
       ask[e.via].status = "APPROVED" /\ ask[e.via].outcome = "APPLIED"

\* No two moves for one request.
ViaOnce ==
  \A i, j \in DOMAIN log :
    log[i].via = log[j].via /\ log[i].via # NoAsk => i = j

\* The inductive invariant.
SwitchInv ==
  /\ TypeOK
  /\ \A c \in Callers : CallOK(c, call[c])
  /\ \A q \in Asks : AskOK(q)
  /\ \A i \in DOMAIN log : EntryOK(log[i])
  /\ ViaOnce

-----------------------------------------------------------------------------
(* Frames                                                                  *)

\* What every step leaves of the requests.
AskFrame ==
  \A q \in Asks :
    /\ ask[q].status \in Closed => ask'[q] = ask[q]
    /\ ask[q].status # "ABSENT" =>
         /\ ask'[q].status # "ABSENT"
         /\ ask'[q].by = ask[q].by
         /\ ask'[q].base = ask[q].base /\ ask'[q].target = ask[q].target

\* A schedule that exists stays a row.
RowFrame ==
  \A s \in Schedules :
    schedule[s].status # "ABSENT" => schedule'[s].status # "ABSENT"

\* A call in flight goes on with what it has read.
SameCall(d) ==
  /\ call'[d] \in {call[d], [call[d] EXCEPT !.watched = FALSE]}
  /\ call'[d].watched => policy'

LEMMA SameAsk ==
  ASSUME ask' = ask
  PROVE  AskFrame
BY DEF AskFrame

\* An approval stays one.
LEMMA GrantedKept ==
  ASSUME AskFrame, NEW q \in Asks, Granted(q)
  PROVE  Granted(q)' /\ ask'[q] = ask[q]
<1>1. ask[q].status \in Closed
  BY DEF Granted, Closed
<1>2. ask'[q] = ask[q]
  BY <1>1 DEF AskFrame
<1>3. QED
  BY <1>2 DEF Granted

\* A scheduled switch that counts on a request no move has used.
Booked(k) == k.pc = "commit" /\ k.op = "SCHEDULED" /\ k.mode = "APPROVED"

\* The invariant of a call that goes on.
LEMMA CallKept ==
  ASSUME TypeOK, AskFrame, RowFrame, NEW d \in Callers, CallOK(d, call[d]), SameCall(d),
         Booked(call[d]) => \A i \in DOMAIN log' :
           \/ i \in DOMAIN log /\ log'[i].req = log[i].req
           \/ log'[i].req # call[d].trace
  PROVE  CallOK(d, call[d])'
<1> DEFINE k == call[d]
<1>1. k \in CallType
  BY DEF TypeOK
<1>2. /\ k'.pc = k.pc /\ k'.op = k.op /\ k'.target = k.target
      /\ k'.expected = k.expected /\ k'.qid = k.qid /\ k'.sid = k.sid
      /\ k'.mode = k.mode /\ k'.trace = k.trace /\ k'.required = k.required
      /\ k'.status = k.status /\ k'.outcome = k.outcome
      /\ k'.watched => k.watched
  BY <1>1 DEF SameCall, CallType
<1>3. k'.watched => policy'
  BY DEF SameCall
<1>5. k.pc \in SwitchPc => SwitchOK(d, k)'
  <2>1. k.op = "APPROVE" /\ k.pc \in SwitchPc =>
          /\ ask'[k'.qid].status # "ABSENT" /\ ask'[k'.qid].by # d
          /\ Fits(k.qid, k.expected, k.target)'
    BY <1>2 DEF CallOK, SwitchOK, Fits, AskFrame
  <2>2. QED
    BY <1>2, <2>1 DEF CallOK, SwitchOK
<1>6. k.pc = "commit" => CommitOK(k)'
  <2>1. SUFFICES ASSUME k.pc = "commit" PROVE CommitOK(k)'
    OBVIOUS
  <2>2. SwitchOK(d, k) /\ CommitOK(k)
    BY <2>1 DEF CallOK, SwitchPc
  <2>3. ASSUME k.mode = "APPROVED", k.op = "SCHEDULED"
        PROVE  /\ Granted(k.trace)' /\ Fits(k.trace, k.expected, k.target)'
               /\ \A i \in DOMAIN log' : log'[i].req # k'.trace
    <3>1. k.trace \in Asks /\ Granted(k.trace) /\ Booked(k)
          /\ Fits(k.trace, k.expected, k.target)
          /\ \A i \in DOMAIN log : log[i].req # k.trace
      BY <2>1, <2>2, <2>3 DEF CommitOK, Booked
    <3>2. ask'[k.trace] = ask[k.trace] /\ k'.trace = k.trace
      BY <1>2, <3>1, GrantedKept
    <3>3. QED
      BY <1>2, <3>1, <3>2 DEF Granted, Fits
  <2>4. QED
    BY <1>2, <2>2, <2>3 DEF CommitOK
<1>7. k.pc = "close" => CloseOK(d, k)'
  BY <1>2 DEF CallOK, CloseOK, AskFrame
<1>8. k.pc = "row" => k.sid \in Schedules /\ schedule'[k.sid].status # "ABSENT"
  BY DEF CallOK, RowFrame
<1>9. QED
  BY <1>2, <1>3, <1>5, <1>6, <1>7, <1>8 DEF CallOK

\* An entry of the log stands whatever happens to the requests.
LEMMA EntryKept ==
  ASSUME SwitchInv, AskFrame, NEW i \in DOMAIN log, log'[i] = log[i]
  PROVE  EntryOK(log[i])'
<1> DEFINE e == log[i]
<1>1. EntryOK(e) /\ e \in EntryType
  BY DEF SwitchInv, TypeOK
<1>2. e' = e
  OBVIOUS
<1>3. e.mode = "APPROVED" => Granted(e.req)' /\ Fits(e.req, e.from, e.to)'
  BY <1>1, <1>2, GrantedKept DEF EntryOK, Granted, Fits
<1>4. e.via # NoAsk => e.via \in Asks /\ ask'[e.via] = ask[e.via]
  BY <1>1 DEF EntryOK, EntryType, AskFrame, Closed
<1>5. QED
  BY <1>1, <1>2, <1>3, <1>4 DEF EntryOK

\* The invariant of the requests and of the log under a step that moves no
\* pointer: only what has changed has to be looked at.
LEMMA TableKept ==
  ASSUME SwitchInv, AskFrame, log' = log,
         \A q \in Asks : ask'[q] # ask[q] =>
           /\ ask'[q].status = "APPROVED" =>
                /\ ask'[q].outcome # "APPLIED"
                /\ ask'[q].outcome = "SCHEDULED" => Granted(q)'
           /\ ask'[q].status # "ABSENT" =>
                ask'[q].target \in Versions /\ ask'[q].base \in Versions
  PROVE  /\ \A q \in Asks : AskOK(q)'
         /\ \A i \in DOMAIN log : EntryOK(log[i])'
         /\ ViaOnce'
<1>1. ASSUME NEW q \in Asks PROVE AskOK(q)'
  <2>1. CASE ask'[q] = ask[q]
    BY <2>1 DEF SwitchInv, AskOK, Granted
  <2>2. CASE ask'[q] # ask[q]
    BY <2>2 DEF AskOK
  <2>3. QED
    BY <2>1, <2>2
<1>2. ASSUME NEW i \in DOMAIN log PROVE EntryOK(log[i])'
  BY EntryKept
<1>3. ViaOnce'
  BY DEF SwitchInv, ViaOnce
<1>4. QED
  BY <1>1, <1>2, <1>3

\* A step that moves no pointer, taken by the call of c.
LEMMA CallStep ==
  ASSUME SwitchInv, TypeOK', AskFrame, RowFrame, log' = log,
         NEW c \in Callers,
         \A d \in Callers \ {c} : SameCall(d),
         CallOK(c, call[c])',
         \A q \in Asks : ask'[q] # ask[q] =>
           /\ ask'[q].status = "APPROVED" =>
                /\ ask'[q].outcome # "APPLIED"
                /\ ask'[q].outcome = "SCHEDULED" => Granted(q)'
           /\ ask'[q].status # "ABSENT" =>
                ask'[q].target \in Versions /\ ask'[q].base \in Versions
  PROVE  SwitchInv'
<1>1. ASSUME NEW d \in Callers PROVE CallOK(d, call[d])'
  <2>1. CASE d = c
    BY <2>1
  <2>2. CASE d # c
    BY <2>2, CallKept DEF SwitchInv
  <2>3. QED
    BY <2>1, <2>2
<1>2. /\ \A q \in Asks : AskOK(q)'
      /\ \A i \in DOMAIN log : EntryOK(log[i])'
      /\ ViaOnce'
  BY TableKept
<1>3. QED
  BY <1>1, <1>2 DEF SwitchInv

\* A step that moves no pointer and belongs to no call.
LEMMA TableStep ==
  ASSUME SwitchInv, TypeOK', AskFrame, RowFrame, log' = log, call' = call,
         policy' = policy,
         \A q \in Asks : ask'[q] # ask[q] =>
           /\ ask'[q].status # "APPROVED"
           /\ ask'[q].status # "ABSENT" =>
                ask'[q].target \in Versions /\ ask'[q].base \in Versions
  PROVE  SwitchInv'
<1>1. ASSUME NEW d \in Callers PROVE CallOK(d, call[d])'
  <2>1. SameCall(d) /\ CallOK(d, call[d])
    BY DEF SameCall, SwitchInv, CallOK
  <2>2. QED
    BY <2>1, CallKept DEF SwitchInv
<1>2. /\ \A q \in Asks : AskOK(q)'
      /\ \A i \in DOMAIN log : EntryOK(log[i])'
      /\ ViaOnce'
  BY TableKept
<1>3. QED
  BY <1>1, <1>2 DEF SwitchInv

\* What the invariant says of the schedules.
ScheduleOK ==
  /\ schedule \in [Schedules -> ScheduleType]
  /\ \A s \in Schedules : schedule[s].status # "ABSENT" =>
       schedule[s].base \in Versions /\ schedule[s].target \in Versions

\* A step that notes what a call has read, or ends it, and may write a schedule.
LEMMA EnterWrite ==
  ASSUME SwitchInv, NEW c \in Callers, NEW k \in CallType, CallOK(c, k),
         Enter(c, k), budget' \in Nat, ScheduleOK', RowFrame,
         UNCHANGED <<prod, staging, policy, log, ask>>
  PROVE  SwitchInv'
<1>1. call \in [Callers -> CallType] /\ TypeOK
  BY DEF SwitchInv, TypeOK
<1>2. call'[c] = k /\ call' \in [Callers -> CallType]
      /\ \A d \in Callers \ {c} : call'[d] = call[d]
  BY <1>1 DEF Enter
<1>3. TypeOK'
  BY <1>1, <1>2 DEF TypeOK, ScheduleOK
<1>4. CallOK(c, call[c])'
  <2>1. CallOK(c, k)
    OBVIOUS
  <2>2. QED
    BY <1>2, <2>1 DEF CallOK, SwitchOK, CommitOK, CloseOK, Granted, Fits, RowFrame
<1>5. \A d \in Callers \ {c} : SameCall(d)
  BY <1>2 DEF SameCall, SwitchInv, CallOK
<1>6. AskFrame
  BY SameAsk
<1>7. QED
  BY <1>3, <1>4, <1>5, <1>6, CallStep

LEMMA EnterStep ==
  ASSUME SwitchInv, NEW c \in Callers, NEW k \in CallType, CallOK(c, k),
         Enter(c, k), budget' \in Nat,
         UNCHANGED <<prod, staging, policy, log, ask, schedule>>
  PROVE  SwitchInv'
<1>1. ScheduleOK' /\ RowFrame
  BY DEF SwitchInv, TypeOK, ScheduleOK, RowFrame
<1>2. QED
  BY <1>1, EnterWrite

\* A new status of a row that exists.
LEMMA RowSet ==
  ASSUME TypeOK, NEW s \in Schedules, schedule[s].status # "ABSENT",
         NEW status \in Waiting \cup {"RUNNING", "ENDED"},
         schedule' = [schedule EXCEPT ![s].status = status]
  PROVE  ScheduleOK' /\ RowFrame
<1> DEFINE row == [schedule[s] EXCEPT !.status = status]
<1>1. schedule[s] \in ScheduleType
      /\ schedule[s].base \in Versions /\ schedule[s].target \in Versions
  BY DEF TypeOK
<1>1a. row.status # "ABSENT"
  BY <1>1 DEF ScheduleType, Waiting
<1>2. row \in ScheduleType /\ row.base \in Versions /\ row.target \in Versions
  BY <1>1 DEF ScheduleType
<1>3. schedule' = [schedule EXCEPT ![s] = row]
  OBVIOUS
<1> HIDE DEF row
<1>4. QED
  BY <1>1a, <1>2, <1>3 DEF TypeOK, ScheduleOK, RowFrame

LEMMA IdleCall == Idle \in CallType /\ \A c \in Callers : CallOK(c, Idle)
<1>1. Idle \in CallType
  BY DEF Idle, CallType, Kinds, MaybeVersion, Outcomes
<1>2. \A c \in Callers : CallOK(c, Idle)
  BY DEF Idle, CallOK, SwitchPc
<1>3. QED
  BY <1>1, <1>2

\* What every step may use of the state.
LEMMA Known ==
  ASSUME SwitchInv
  PROVE  /\ TypeOK /\ MaxCalls \in Nat
         /\ \A c \in Callers : call[c] \in CallType /\ CallOK(c, call[c])
         /\ \A q \in Asks : ask[q] \in RequestType /\ AskOK(q)
         /\ \A s \in Schedules : schedule[s] \in ScheduleType
         /\ History \subseteq Versions
         /\ prod \in MaybeVersion /\ policy \in BOOLEAN
<1>1. TypeOK
  BY DEF SwitchInv
<1>2. History \subseteq Versions
  <2>1. \A i \in DOMAIN log : log[i] \in EntryType
    BY <1>1 DEF TypeOK
  <2>2. \A i \in DOMAIN log : log[i].to \in Versions \cup {Off}
    BY <2>1 DEF EntryType, MaybeVersion
  <2>3. QED
    BY <2>2 DEF History
<1>3. QED
  BY <1>1, <1>2, ConstantsAssumption DEF SwitchInv, TypeOK

-----------------------------------------------------------------------------
(* Steps that read                                                         *)

\* The fields a call is given.
LEMMA PointerForm ==
  ASSUME NEW k \in CallType, NEW v \in MaybeVersion, NEW b \in BOOLEAN
  PROVE  [k EXCEPT !.pc = "pointer", !.seen = v, !.watched = b] \in CallType
BY DEF CallType

LEMMA HistoryForm ==
  ASSUME NEW k \in CallType, NEW v \in MaybeVersion, NEW b \in BOOLEAN
  PROVE  [k EXCEPT !.pc = "history", !.staged = v, !.required = b] \in CallType
BY DEF CallType

LEMMA CheckForm ==
  ASSUME NEW k \in CallType, NEW pc \in {"approval", "commit"},
         NEW b \in BOOLEAN
  PROVE  [k EXCEPT !.pc = pc, !.direct = b, !.kind = "SWITCH",
            !.required = FALSE, !.seen = Off, !.staged = Off] \in CallType
<1> DEFINE m == [k EXCEPT !.pc = pc, !.direct = b, !.required = FALSE]
<1>1. m \in CallType
  BY ZenonT(60) DEF CallType
<1>2. "SWITCH" \in Kinds /\ Off \in MaybeVersion
  BY DEF Kinds, MaybeVersion
<1>3. \A n \in CallType :
        [n EXCEPT !.kind = "SWITCH", !.seen = Off, !.staged = Off] \in CallType
  BY ZenonT(60), <1>2 DEF CallType
<1>4. [m EXCEPT !.kind = "SWITCH", !.seen = Off, !.staged = Off]
        = [k EXCEPT !.pc = pc, !.direct = b, !.kind = "SWITCH",
            !.required = FALSE, !.seen = Off, !.staged = Off]
  BY DEF CallType
<1> HIDE DEF m
<1>5. QED
  BY <1>1, <1>3, <1>4

LEMMA PassForm ==
  ASSUME NEW k \in CallType, NEW mode \in {"APPROVED", "SOLO_ROLLBACK"},
         NEW q \in Asks \cup {NoAsk}
  PROVE  [k EXCEPT !.pc = "commit", !.mode = mode, !.trace = q] \in CallType
BY ZenonT(60) DEF CallType

LEMMA SwitchNowKeeps ==
  ASSUME SwitchInv, NEW u \in Users, NEW kind \in Kinds,
         NEW v \in Versions, NEW w \in Versions, SwitchNow(u, kind, v, w)
  PROVE  SwitchInv'
<1> DEFINE k == [Idle EXCEPT !.op = "SWITCH", !.kind = kind, !.target = v,
                   !.expected = w]
           n == [k EXCEPT !.pc = "pointer", !.seen = prod, !.watched = policy]
<1>1. u \in Callers /\ budget' \in Nat
  BY Known DEF Callers, SwitchNow, Calls, Spend, TypeOK
<1>2. k \in CallType
  BY DEF Idle, CallType, Kinds, MaybeVersion, Outcomes
<1>3. n \in CallType
  BY <1>2, Known, PointerForm
<1>4. CallOK(u, n)
  BY DEF Idle, CallOK, SwitchPc, SwitchOK
<1>5. Enter(u, n) /\ UNCHANGED <<prod, staging, policy, log, ask, schedule>>
  BY DEF SwitchNow, SwitchRead
<1>6. QED
  BY <1>1, <1>3, <1>4, <1>5, EnterStep

\* The read of switch() behind an approval or a schedule.
LEMMA SwitchReadKeeps ==
  ASSUME SwitchInv, NEW c \in Callers, call[c].pc = "begin",
         SwitchRead(c, call[c]), budget' \in Nat,
         UNCHANGED <<prod, staging, policy, log, ask, schedule>>
  PROVE  SwitchInv'
<1> DEFINE k == call[c]
           n == [k EXCEPT !.pc = "pointer", !.seen = prod, !.watched = policy]
<1>1. k \in CallType /\ SwitchOK(c, k)
  BY Known DEF CallOK, SwitchPc
<1>2. n \in CallType
  BY <1>1, Known, PointerForm
<1>3. CallOK(c, n)
  BY <1>1 DEF CallType, CallOK, SwitchPc, SwitchOK
<1>4. QED
  BY <1>2, <1>3, EnterStep DEF SwitchRead

LEMMA ReadPointerKeeps ==
  ASSUME SwitchInv, NEW c \in Callers, ReadPointer(c)
  PROVE  SwitchInv'
<1> DEFINE k == call[c]
           n == [k EXCEPT !.pc = "history", !.staged = staging,
                          !.required = policy]
<1>1. k \in CallType /\ SwitchOK(c, k) /\ CallOK(c, k) /\ k.pc = "pointer"
  BY Known DEF CallOK, SwitchPc, ReadPointer
<1>2. staging \in MaybeVersion /\ policy \in BOOLEAN /\ budget' \in Nat
  BY Known DEF TypeOK, ReadPointer
<1>3. n \in CallType
  BY <1>1, <1>2, HistoryForm
<1>4. CallOK(c, n)
  BY <1>1 DEF CallType, CallOK, SwitchPc, SwitchOK
<1>5. Enter(c, n)
  <2>1. call \in [Callers -> CallType]
    BY Known DEF TypeOK
  <2>2. QED
    BY <2>1 DEF ReadPointer, Enter
<1>6. QED
  BY <1>2, <1>3, <1>4, <1>5, EnterStep DEF ReadPointer

\* The call of c may go on from its history to the check or the commit.
LEMMA ReadHistoryKeeps ==
  ASSUME SwitchInv, NEW c \in Callers, call[c].pc = "history",
         NEW n, Enter(c, n), NEW direct \in BOOLEAN,
         n = [call[c] EXCEPT
                !.pc = IF call[c].required THEN "approval" ELSE "commit",
                !.direct = direct, !.kind = "SWITCH", !.required = FALSE,
                !.seen = Off, !.staged = Off],
         UNCHANGED <<prod, staging, policy, log, ask, schedule, budget>>
  PROVE  SwitchInv'
<1> DEFINE k == call[c]
<1>1. k \in CallType /\ SwitchOK(c, k) /\ CallOK(c, k) /\ budget' \in Nat
  BY Known DEF CallOK, SwitchPc, TypeOK
<1>2. n \in CallType
  BY <1>1, CheckForm DEF MaybeVersion
<1>3. CallOK(c, n)
  <2>1. /\ n.op = k.op /\ n.target = k.target /\ n.expected = k.expected
        /\ n.qid = k.qid /\ n.sid = k.sid /\ n.mode = k.mode
        /\ n.trace = k.trace /\ n.watched = k.watched
        /\ n.pc = IF k.required THEN "approval" ELSE "commit"
    BY <1>1 DEF CallType
  <2>2. SwitchOK(c, n)
    BY <1>1, <2>1 DEF SwitchOK
  <2>3. n.pc = "commit" => CommitOK(n)
    BY <1>1, <2>1 DEF SwitchOK, CommitOK
  <2>4. QED
    BY <1>1, <2>1, <2>2, <2>3 DEF CallOK
<1>4. QED
  BY <1>1, <1>2, <1>3, EnterStep

\* What the check of the approval lets pass.
LEMMA PassKeeps ==
  ASSUME SwitchInv, NEW c \in Callers, call[c].pc = "approval",
         NEW mode \in {"APPROVED", "SOLO_ROLLBACK"},
         NEW q \in Asks \cup {NoAsk},
         Enter(c, [call[c] EXCEPT !.pc = "commit", !.mode = mode, !.trace = q]),
         CommitOK([call[c] EXCEPT !.pc = "commit", !.mode = mode, !.trace = q]),
         UNCHANGED <<prod, staging, policy, log, ask, schedule, budget>>
  PROVE  SwitchInv'
<1> DEFINE k == call[c]
           n == [k EXCEPT !.pc = "commit", !.mode = mode, !.trace = q]
<1>1. k \in CallType /\ SwitchOK(c, k) /\ CallOK(c, k) /\ budget' \in Nat
  BY Known DEF CallOK, SwitchPc, TypeOK
<1>2. n \in CallType
  BY <1>1, PassForm
<1>3. CallOK(c, n)
  <2>1. /\ n.op = k.op /\ n.target = k.target /\ n.expected = k.expected
        /\ n.qid = k.qid /\ n.sid = k.sid /\ n.watched = k.watched
        /\ n.pc = "commit"
    BY <1>1 DEF CallType
  <2>2. SwitchOK(c, n)
    BY <1>1, <2>1 DEF SwitchOK
  <2>3. QED
    BY <1>1, <2>1, <2>2 DEF CallOK
<1>4. QED
  BY <1>1, <1>2, <1>3, EnterStep

-----------------------------------------------------------------------------
(* Steps of switch() that fail, and those that decide                      *)

\* A decision is a call the closing step may carry out.
LEMMA ClosingForm ==
  ASSUME NEW c \in Callers, NEW q \in Asks, ask[q].status # "ABSENT",
         NEW op \in {"ASK", "SWEEP", "DECIDE", "APPROVE"},
         NEW status \in Closed, NEW outcome \in {"NONE", "FAILED", "SCHEDULED"},
         outcome = "SCHEDULED" =>
           status = "APPROVED" /\ c \in Users /\ ask[q].by # c
  PROVE  /\ Closing(q, op, status, outcome) \in CallType
         /\ CallOK(c, Closing(q, op, status, outcome))
<1> DEFINE n == Closing(q, op, status, outcome)
<1>1. /\ n.pc = "close" /\ n.qid = q /\ n.status = status
      /\ n.outcome = outcome /\ n.watched = FALSE
  BY DEF Closing, Idle
<1>2. n \in CallType
  <2> DEFINE m == [Idle EXCEPT !.pc = "close", !.op = op, !.qid = q]
  <2>1. m \in CallType
    BY IdleCall DEF CallType
  <2>2. outcome \in Outcomes
    BY DEF Outcomes
  <2>3. ASSUME NEW r \in CallType
        PROVE  [r EXCEPT !.status = status, !.outcome = outcome] \in CallType
    <3>1. \A o \in Outcomes : [r EXCEPT !.outcome = o] \in CallType
      BY DEF CallType
    <3>2. \A t \in CallType : [t EXCEPT !.status = status] \in CallType
      BY DEF CallType
    <3>3. [r EXCEPT !.status = status, !.outcome = outcome]
            = [[r EXCEPT !.outcome = outcome] EXCEPT !.status = status]
      BY DEF CallType
    <3>4. QED
      BY <2>2, <3>1, <3>2, <3>3
  <2>4. n = [m EXCEPT !.status = status, !.outcome = outcome]
    BY DEF Closing, Idle
  <2> HIDE DEF m, n
  <2>5. QED
    BY <2>1, <2>3, <2>4
<1> HIDE DEF n
<1>3. CallOK(c, n)
  BY <1>1 DEF CallOK, SwitchPc, CloseOK
<1>4. QED
  BY <1>2, <1>3 DEF n

LEMMA FailedKeeps ==
  ASSUME SwitchInv, NEW c \in Callers, NEW code, call[c].pc \in SwitchPc,
         Failed(c, code)
  PROVE  SwitchInv'
<1> DEFINE k == call[c]
           n == CASE k.op = "APPROVE" /\ code = "STALE"
                       -> Closing(k.qid, "APPROVE", "CANCELLED", "NONE")
                  [] k.op = "APPROVE" /\ code = "REFUSED"
                       -> Closing(k.qid, "APPROVE", "APPROVED", "FAILED")
                  [] OTHER -> Idle
<1>1. k \in CallType /\ SwitchOK(c, k)
  BY Known DEF CallOK
<1>2. k.op = "APPROVE" => k.qid \in Asks /\ ask[k.qid].status # "ABSENT"
  BY <1>1 DEF SwitchOK
<1>3. n \in CallType /\ CallOK(c, n)
  <2>1. CASE k.op = "APPROVE" /\ code = "STALE"
    <3>1. n = Closing(k.qid, "APPROVE", "CANCELLED", "NONE")
      BY <2>1
    <3> HIDE DEF n
    <3>2. QED
      BY <1>2, <2>1, <3>1, ClosingForm DEF Closed
  <2>2. CASE k.op = "APPROVE" /\ code = "REFUSED"
    <3>1. n = Closing(k.qid, "APPROVE", "APPROVED", "FAILED")
      BY <2>2
    <3> HIDE DEF n
    <3>2. QED
      BY <1>2, <2>2, <3>1, ClosingForm DEF Closed
  <2>3. CASE ~(k.op = "APPROVE" /\ code \in {"STALE", "REFUSED"})
    <3>1. n = Idle
      BY <2>3
    <3> HIDE DEF n
    <3>2. QED
      BY <3>1, IdleCall
  <2>4. QED
    BY <2>1, <2>2, <2>3
<1>4. Enter(c, n) /\ UNCHANGED <<prod, staging, policy, log, ask, budget>>
  BY DEF Failed
<1>5. ScheduleOK' /\ RowFrame
  <2>1. CASE schedule' = schedule
    BY <2>1 DEF SwitchInv, TypeOK, ScheduleOK, RowFrame
  <2>2. CASE k.op = "SCHEDULED" /\ schedule[k.sid].status = "RUNNING"
             /\ k.sid \in Schedules
    <3> DEFINE status == IF code = "BUSY" THEN "PENDING" ELSE "ENDED"
    <3>1. status \in Waiting \cup {"RUNNING", "ENDED"}
      BY DEF Waiting
    <3>2. schedule' = [schedule EXCEPT ![k.sid].status = status]
      BY <2>2 DEF Failed
    <3> HIDE DEF status
    <3>3. QED
      BY <2>2, <3>1, <3>2, RowSet DEF SwitchInv
  <2>3. CASE k.sid \notin Schedules
    <3>1. schedule \in [Schedules -> ScheduleType]
      BY DEF SwitchInv, TypeOK
    <3>2. schedule' = schedule
      BY <2>3, <3>1 DEF Failed
    <3>3. QED
      BY <3>2, <2>1
  <2>4. QED
    BY <2>1, <2>2, <2>3 DEF Failed
<1>5a. budget' \in Nat
  BY <1>4 DEF SwitchInv, TypeOK
<1> HIDE DEF n
<1>6. QED
  BY <1>3, <1>4, <1>5, <1>5a, EnterWrite

LEMMA SwitchBeginKeeps ==
  ASSUME SwitchInv, NEW c \in Callers, SwitchBegin(c)
  PROVE  SwitchInv'
<1>1. call[c].pc = "begin" /\ call[c].pc \in SwitchPc
  BY DEF SwitchBegin, SwitchPc
<1>2. CASE SwitchRead(c, call[c])
           /\ UNCHANGED <<prod, staging, policy, log, ask, schedule, budget>>
  BY <1>1, <1>2, SwitchReadKeeps DEF SwitchInv, TypeOK
<1>3. CASE \E code \in {"REFUSED", "STALE"} : Failed(c, code)
  BY <1>1, <1>3, FailedKeeps
<1>4. QED
  BY <1>2, <1>3 DEF SwitchBegin

LEMMA HistoryKeeps ==
  ASSUME SwitchInv, NEW c \in Callers, ReadHistory(c)
  PROVE  SwitchInv'
<1> DEFINE k == call[c]
           direct == DirectRollback(k.kind, k.seen, k.target)
           n == [k EXCEPT !.pc = IF k.required THEN "approval" ELSE "commit",
                   !.direct = direct, !.kind = "SWITCH", !.required = FALSE,
                   !.seen = Off, !.staged = Off]
<1>1. k.pc = "history" /\ k.pc \in SwitchPc
  BY DEF ReadHistory, SwitchPc
<1>2. CASE Enter(c, n)
           /\ UNCHANGED <<prod, staging, policy, log, ask, schedule, budget>>
  <2>1. direct \in BOOLEAN
    BY DEF DirectRollback
  <2> HIDE DEF direct
  <2>2. QED
    BY <1>1, <1>2, <2>1, ReadHistoryKeeps
<1>3. CASE Failed(c, "REFUSED")
  BY <1>1, <1>3, FailedKeeps
<1>4. QED
  BY <1>2, <1>3 DEF ReadHistory

LEMMA CheckApprovalKeeps ==
  ASSUME SwitchInv, NEW c \in Callers, CheckApproval(c)
  PROVE  SwitchInv'
<1> DEFINE k == call[c]
           n(mode, q) == [k EXCEPT !.pc = "commit", !.mode = mode, !.trace = q]
<1>1. k.pc = "approval" /\ k.pc \in SwitchPc
  BY DEF CheckApproval, SwitchPc
<1>2. k \in CallType /\ SwitchOK(c, k)
  BY <1>1, Known DEF CallOK
<1>3. \A mode, q : /\ n(mode, q).mode = mode /\ n(mode, q).trace = q
                   /\ n(mode, q).op = k.op /\ n(mode, q).qid = k.qid
                   /\ n(mode, q).expected = k.expected
                   /\ n(mode, q).target = k.target
  BY <1>2 DEF CallType
<1>4. CASE k.op = "APPROVE" /\ Enter(c, n("APPROVED", k.qid))
           /\ UNCHANGED <<prod, staging, policy, log, ask, schedule, budget>>
  <2>1. CommitOK(n("APPROVED", k.qid)) /\ k.qid \in Asks
    BY <1>2, <1>3, <1>4 DEF CommitOK, SwitchOK
  <2>2. QED
    BY <1>1, <1>4, <2>1, PassKeeps
<1>5. CASE Enter(c, n("SOLO_ROLLBACK", NoAsk))
           /\ UNCHANGED <<prod, staging, policy, log, ask, schedule, budget>>
  <2>1. CommitOK(n("SOLO_ROLLBACK", NoAsk))
    BY <1>3 DEF CommitOK
  <2>2. QED
    BY <1>1, <1>5, <2>1, PassKeeps
<1>6. ASSUME k.op # "APPROVE", NEW q \in Usable(k), Enter(c, n("APPROVED", q)),
             UNCHANGED <<prod, staging, policy, log, ask, schedule, budget>>
      PROVE  SwitchInv'
  <2>1. /\ q \in Asks /\ k.sid # NoSchedule
        /\ ask[q].status = "APPROVED" /\ ask[q].outcome = "SCHEDULED"
        /\ Fits(q, k.expected, k.target)
        /\ \A i \in DOMAIN log : log[i].req # q
    BY <1>6 DEF Usable, Fits
  <2>2. Granted(q) /\ k.op # "SWITCH"
    BY <1>2, <2>1, Known DEF AskOK, SwitchOK
  <2>3. CommitOK(n("APPROVED", q))
    BY <1>3, <1>6, <2>1, <2>2 DEF CommitOK
  <2>4. QED
    BY <1>1, <1>6, <2>1, <2>3, PassKeeps
<1>7. CASE \E code \in {"KEPT", "MISSING"} : Failed(c, code)
  BY <1>1, <1>7, FailedKeeps
<1>8. QED
  BY <1>4, <1>5, <1>6, <1>7 DEF CheckApproval

LEMMA StopKeeps ==
  ASSUME SwitchInv, NEW c \in Callers, Stop(c)
  PROVE  SwitchInv'
<1>1. call[c].pc \in SwitchPc
  BY DEF Stop, SwitchPc
<1>2. \E code \in {"REFUSED", "KEPT", "BUSY"} : Failed(c, code)
  BY DEF Stop
<1>3. QED
  BY <1>1, <1>2, FailedKeeps


-----------------------------------------------------------------------------
(* Steps that move the pointer                                             *)

LEMMA Grown ==
  ASSUME TypeOK, NEW e \in EntryType, log' = Append(log, e)
  PROVE  /\ log' \in Seq(EntryType)
         /\ DOMAIN log' = DOMAIN log \cup {Len(log) + 1}
         /\ Len(log) + 1 \notin DOMAIN log
         /\ log'[Len(log) + 1] = e
         /\ \A i \in DOMAIN log : log'[i] = log[i]
BY DEF TypeOK

\* A recorded move, by the call of c.
LEMMA MoveStep ==
  ASSUME SwitchInv, TypeOK', AskFrame, RowFrame,
         NEW c \in Callers, NEW e \in EntryType,
         log' = Append(log, e), Answer(c), policy' = policy,
         EntryOK(e)',
         e.via # NoAsk => ask[e.via].status # "APPROVED",
         \A d \in Callers \ {c} : Booked(call[d]) => e.req # call[d].trace,
         \A q \in Asks : ask'[q] # ask[q] =>
           /\ q = e.via /\ Granted(q)'
           /\ ask'[q].target \in Versions /\ ask'[q].base \in Versions
  PROVE  SwitchInv'
<1>1. /\ TypeOK
      /\ call \in [Callers -> CallType]
      /\ \A d \in Callers : CallOK(d, call[d])
  BY DEF SwitchInv, TypeOK
<1>2. /\ DOMAIN log' = DOMAIN log \cup {Len(log) + 1}
      /\ Len(log) + 1 \notin DOMAIN log
      /\ log'[Len(log) + 1] = e
      /\ \A i \in DOMAIN log : log'[i] = log[i]
  BY <1>1, Grown
<1>3. ASSUME NEW d \in Callers PROVE CallOK(d, call[d])'
  <2>1. CASE d = c
    <3>1. call'[c] = Idle
      BY <1>1 DEF Answer
    <3>2. QED
      BY <2>1, <3>1 DEF Idle, CallOK, SwitchPc
  <2>2. CASE d # c
    <3>1. call'[d] = call[d]
      BY <1>1, <2>2 DEF Answer
    <3>2. SameCall(d)
      BY <1>1, <3>1 DEF SameCall, CallOK
    <3>3. Booked(call[d]) => \A i \in DOMAIN log' :
            \/ i \in DOMAIN log /\ log'[i].req = log[i].req
            \/ log'[i].req # call[d].trace
      BY <1>2, <2>2
    <3>4. QED
      BY <1>1, <3>2, <3>3, CallKept
  <2>3. QED
    BY <2>1, <2>2
<1>4. ASSUME NEW q \in Asks PROVE AskOK(q)'
  <2>1. CASE ask'[q] = ask[q]
    <3>1. AskOK(q)
      BY DEF SwitchInv
    <3>2. (\E i \in DOMAIN log : log[i].via = q)
            => \E i \in DOMAIN log' : log'[i].via = q
      BY <1>2
    <3>3. QED
      BY <2>1, <3>1, <3>2 DEF AskOK, Granted
  <2>2. CASE ask'[q] # ask[q]
    <3>1. q = e.via /\ Granted(q)'
          /\ ask'[q].target \in Versions /\ ask'[q].base \in Versions
      BY <2>2
    <3>2. \E i \in DOMAIN log' : log'[i].via = q
      BY <1>2, <3>1
    <3>3. QED
      BY <3>1, <3>2 DEF AskOK
  <2>3. QED
    BY <2>1, <2>2
<1>5. ASSUME NEW i \in DOMAIN log' PROVE EntryOK(log[i])'
  <2>1. CASE i \in DOMAIN log
    <3>1. log'[i] = log[i]
      BY <1>2, <2>1
    <3>2. QED
      BY <2>1, <3>1, EntryKept
  <2>2. CASE i = Len(log) + 1
    <3>1. log'[i] = e /\ EntryOK(e)'
      BY <1>2, <2>2
    <3>2. QED
      BY <3>1 DEF EntryOK, Granted, Fits
  <2>3. QED
    BY <1>2, <2>1, <2>2
<1>6. ViaOnce'
  <2>1. \A i \in DOMAIN log : log[i].via # NoAsk => log[i].via # e.via
    BY DEF SwitchInv, EntryOK
  <2>2. ViaOnce
    BY DEF SwitchInv
  <2>3. QED
    BY <1>2, <2>1, <2>2 DEF ViaOnce
<1>7. QED
  BY <1>3, <1>4, <1>5, <1>6 DEF SwitchInv


LEMMA CommitMoves ==
  ASSUME SwitchInv, NEW c \in Callers, call[c].pc = "commit",
         Unmoved(c), Claimable(c), prod' = call[c].target,
         log' = Append(log, Entry(call[c].expected, call[c].target, call[c],
                                  call[c].watched)),
         ask' = Claimed(c), Answer(c),
         UNCHANGED <<staging, policy, schedule, budget>>
  PROVE  SwitchInv'
<1> DEFINE k == call[c]
<1>0. RowFrame
  BY DEF RowFrame
<1>1. /\ k \in CallType /\ SwitchOK(c, k) /\ CommitOK(k)
      /\ TypeOK /\ k.target \in Versions /\ k.expected \in Versions
  BY Known DEF CallOK, SwitchPc, SwitchOK
<1>2. PICK e \in EntryType :
        /\ log' = Append(log, e)
        /\ e.from = k.expected /\ e.to = k.target /\ e.mode = k.mode
        /\ e.req = k.trace /\ e.via = k.qid /\ e.watched = k.watched
  <2>1. Entry(k.expected, k.target, k, k.watched) \in EntryType
    BY <1>1 DEF Entry, EntryType, CallType
  <2>2. QED
    BY <2>1 DEF Entry
<1>3. CASE k.op = "APPROVE"
  <2>1. /\ k.qid \in Asks /\ ask[k.qid].status = "PENDING"
        /\ c \in Users /\ ask[k.qid].by # c
        /\ ask[k.qid].base = k.expected /\ ask[k.qid].target = k.target
        /\ k.qid # NoAsk
    BY <1>1, <1>3, ConstantsAssumption DEF SwitchOK, Claimable, Fits
  <2> DEFINE r == [ask[k.qid] EXCEPT !.status = "APPROVED",
                     !.outcome = "APPLIED", !.decider = c]
  <2>2. r \in RequestType
    <3>1. ask[k.qid] \in RequestType
      BY <2>1, Known
    <3>2. "APPROVED" \in Closed /\ "APPLIED" \in Outcomes
      BY DEF Closed, Outcomes
    <3>3. QED
      BY <3>1, <3>2 DEF RequestType
  <2>3. r.status = "APPROVED" /\ r.outcome = "APPLIED" /\ r.decider = c
        /\ r.by = ask[k.qid].by /\ r.base = ask[k.qid].base
        /\ r.target = ask[k.qid].target
    BY <2>1, Known DEF RequestType
  <2>4. ask' = [ask EXCEPT ![k.qid] = r]
    BY <1>3 DEF Claimed
  <2> HIDE DEF r
  <2>5. /\ ask' \in [Asks -> RequestType] /\ ask'[k.qid] = r
        /\ \A q \in Asks \ {k.qid} : ask'[q] = ask[q]
    BY <1>1, <2>1, <2>2, <2>4 DEF TypeOK
  <2>6. AskFrame
    BY <2>1, <2>3, <2>5 DEF AskFrame, Closed
  <2>7. \A q \in Asks : ask'[q] # ask[q] =>
           /\ q = e.via /\ Granted(q)'
           /\ ask'[q].target \in Versions /\ ask'[q].base \in Versions
    BY <1>1, <1>2, <2>1, <2>3, <2>5 DEF Granted
  <2>8. EntryOK(e)'
    BY <1>1, <1>2, <1>3, <2>1, <2>3, <2>5 DEF EntryOK, CommitOK, Granted, Fits
  <2>9. TypeOK'
    <3>1. log' \in Seq(EntryType)
      BY <1>1, <1>2, Grown
    <3>2. call' \in [Callers -> CallType]
      BY <1>1, IdleCall DEF TypeOK, Answer
    <3>3. prod \in Versions /\ prod' \in Versions
      BY <1>1 DEF Unmoved
    <3>4. QED
      BY <1>1, <2>5, <3>1, <3>2, <3>3, ConstantsAssumption
         DEF TypeOK, MaybeVersion
  <2>10. \A d \in Callers \ {c} : Booked(call[d]) => e.req # call[d].trace
    <3>1. ASSUME NEW d \in Callers, Booked(call[d])
          PROVE  call[d].trace \in Asks /\ ask[call[d].trace].status = "APPROVED"
      BY <3>1, Known DEF Booked, CallOK, CommitOK, Granted
    <3>2. e.req \in {NoAsk, k.qid}
      BY <1>1, <1>2, <1>3 DEF CommitOK
    <3>3. QED
      BY <2>1, <3>1, <3>2, ConstantsAssumption
  <2>11. QED
    BY <1>0, <1>2, <2>1, <2>6, <2>7, <2>8, <2>9, <2>10, MoveStep
<1>4. CASE k.op # "APPROVE"
  <2>1. ask' = ask /\ e.via = NoAsk
    BY <1>1, <1>2, <1>4 DEF Claimed, SwitchOK
  <2>2. AskFrame
    BY <2>1, SameAsk
  <2>3. EntryOK(e)'
    BY <1>1, <1>2, <1>4, <2>1 DEF EntryOK, CommitOK, SwitchOK, Granted, Fits
  <2>4. TypeOK'
    <3>1. log' \in Seq(EntryType)
      BY <1>1, <1>2, Grown
    <3>2. call' \in [Callers -> CallType]
      BY <1>1, IdleCall DEF TypeOK, Answer
    <3>3. prod \in Versions /\ prod' \in Versions
      BY <1>1 DEF Unmoved
    <3>4. QED
      BY <1>1, <2>1, <3>1, <3>2, <3>3, ConstantsAssumption
         DEF TypeOK, MaybeVersion
  <2>5. \A d \in Callers \ {c} : Booked(call[d]) => e.req # call[d].trace
    <3>1. ASSUME NEW d \in Callers, Booked(call[d])
          PROVE  call[d].trace \in Asks /\ d = Scheduler
      BY <3>1, Known DEF Booked, CallOK, CommitOK, SwitchOK, SwitchPc
    <3>2. e.req = NoAsk \/ c = Scheduler
      BY <1>1, <1>2, <1>4 DEF CommitOK, SwitchOK
    <3>3. QED
      BY <3>1, <3>2, ConstantsAssumption
  <2>6. QED
    BY <1>0, <1>2, <2>1, <2>2, <2>3, <2>4, <2>5, MoveStep
<1>5. QED
  BY <1>3, <1>4

LEMMA CommitKeeps ==
  ASSUME SwitchInv, NEW c \in Callers, Commit(c)
  PROVE  SwitchInv'
<1>1. call[c].pc = "commit" /\ call[c].pc \in SwitchPc
  BY DEF Commit, SwitchPc
<1>2. CASE \E code \in {"STALE", "KEPT"} : Failed(c, code)
  BY <1>1, <1>2, FailedKeeps
<1>3. CASE ~\E code \in {"STALE", "KEPT"} : Failed(c, code)
  BY <1>1, <1>3, CommitMoves DEF Commit
<1>4. QED
  BY <1>2, <1>3


-----------------------------------------------------------------------------
(* Requests                                                                *)

\* One request gets a new row; calls are free to end.
LEMMA AskSet ==
  ASSUME SwitchInv, NEW q \in Asks, NEW r \in RequestType,
         ask' = [ask EXCEPT ![q] = r],
         ask[q].status \notin Closed,
         r.status # "ABSENT", r.target \in Versions, r.base \in Versions,
         ask[q].status # "ABSENT" =>
           r.by = ask[q].by /\ r.base = ask[q].base /\ r.target = ask[q].target
  PROVE  /\ ask' \in [Asks -> RequestType] /\ AskFrame
         /\ ask'[q] = r /\ \A p \in Asks \ {q} : ask'[p] = ask[p]
<1>1. ask \in [Asks -> RequestType]
  BY DEF SwitchInv, TypeOK
<1>2. /\ ask' \in [Asks -> RequestType] /\ ask'[q] = r
      /\ \A p \in Asks \ {q} : ask'[p] = ask[p]
  BY <1>1
<1>3. AskFrame
  BY <1>2 DEF AskFrame
<1>4. QED
  BY <1>2, <1>3

LEMMA CloseKeeps ==
  ASSUME SwitchInv, NEW c \in Callers, Close(c)
  PROVE  SwitchInv'
<1> DEFINE k == call[c]
           n == IF k.op = "ASK" THEN [k EXCEPT !.pc = "preview"] ELSE Idle
<1>1. /\ k \in CallType /\ CallOK(c, k) /\ CloseOK(c, k)
      /\ TypeOK /\ k.pc = "close"
  BY Known DEF CallOK, Close
<1>2. n \in CallType /\ n.pc \in {"preview", "idle"} /\ n.watched \in {k.watched, FALSE}
  BY <1>1, IdleCall DEF CallType, Idle
<1>3. Enter(c, n) /\ UNCHANGED <<prod, staging, policy, log, schedule, budget>>
  BY DEF Close, Enter, Answer
<1> HIDE DEF n
<1>4. /\ call' \in [Callers -> CallType] /\ call'[c] = n
      /\ \A d \in Callers \ {c} : call'[d] = call[d]
  BY <1>1, <1>2, <1>3 DEF TypeOK, Enter
<1>5. CallOK(c, call[c])'
  BY <1>1, <1>2, <1>3, <1>4 DEF CallOK, SwitchPc
<1>6. \A d \in Callers \ {c} : SameCall(d)
  BY <1>3, <1>4, Known DEF SameCall, CallOK
<1>7. RowFrame
  BY <1>3 DEF RowFrame
<1>8. CASE ~Open(k.qid)
  <2>1. ask' = ask
    BY <1>8 DEF Close
  <2>2. TypeOK'
    BY <1>1, <1>3, <1>4, <2>1 DEF TypeOK
  <2>3. QED
    BY <1>3, <1>5, <1>6, <1>7, <2>1, <2>2, SameAsk, CallStep
<1>9. CASE Open(k.qid)
  <2> DEFINE by == IF k.op = "DECIDE" \/ k.status = "APPROVED" THEN c ELSE NoUser
             old == ask[k.qid]
             r == [old EXCEPT !.status = k.status, !.outcome = k.outcome,
                     !.decider = by]
  <2>1. /\ k.qid \in Asks /\ old \in RequestType /\ AskOK(k.qid)
        /\ old.status = "PENDING" /\ k.status \in Closed
        /\ k.outcome \in Outcomes /\ by \in Callers \cup {NoUser}
    BY <1>1, <1>9, Known DEF Open, CloseOK, CallType
  <2>2. r \in RequestType
    BY <2>1 DEF RequestType
  <2>3. /\ r.status = k.status /\ r.outcome = k.outcome /\ r.decider = by
        /\ r.by = old.by /\ r.base = old.base /\ r.target = old.target
        /\ r.target \in Versions /\ r.base \in Versions
        /\ r.status # "ABSENT" /\ old.status \notin Closed
    BY <2>1 DEF RequestType, AskOK, Closed
  <2>4. ask' = [ask EXCEPT ![k.qid] = r]
    BY <1>9 DEF Close
  <2>5. r.outcome # "APPLIED"
        /\ (r.outcome = "SCHEDULED" =>
             r.status = "APPROVED" /\ r.decider \in Users /\ r.decider # r.by)
    BY <1>1, <2>3 DEF CloseOK
  <2> HIDE DEF r
  <2>6. /\ ask' \in [Asks -> RequestType] /\ AskFrame /\ ask'[k.qid] = r
        /\ \A p \in Asks \ {k.qid} : ask'[p] = ask[p]
    BY <2>1, <2>2, <2>3, <2>4, AskSet
  <2>7. ASSUME NEW q \in Asks, ask'[q] # ask[q]
        PROVE  /\ ask'[q].status = "APPROVED" =>
                    /\ ask'[q].outcome # "APPLIED"
                    /\ ask'[q].outcome = "SCHEDULED" => Granted(q)'
               /\ ask'[q].status # "ABSENT" =>
                    ask'[q].target \in Versions /\ ask'[q].base \in Versions
    BY <2>3, <2>5, <2>6, <2>7 DEF Granted
  <2>8. TypeOK'
    BY <1>1, <1>3, <1>4, <2>6 DEF TypeOK
  <2>9. QED
    BY <1>3, <1>5, <1>6, <1>7, <2>6, <2>7, <2>8, CallStep
<1>10. QED
  BY <1>8, <1>9

\* A verdict other than pending closes the request.
LEMMA Verdict ==
  ASSUME NEW q \in Asks, EffectiveStatus(q) # "PENDING"
  PROVE  EffectiveStatus(q) \in Closed
BY DEF EffectiveStatus, Closed

LEMMA DecideKeeps ==
  ASSUME SwitchInv, NEW u \in Users, NEW q \in Asks,
         ApproveNow(u, q) \/ Decide(u, q) \/ Sweep(u, q)
  PROVE  SwitchInv'
<1>1. /\ u \in Callers /\ budget' \in Nat /\ ask[q].status = "PENDING"
      /\ UNCHANGED <<prod, staging, policy, log, ask, schedule>>
  BY Known DEF Callers, ApproveNow, Decide, Sweep, Calls, Spend, TypeOK
<1>2. CASE ApproveNow(u, q)
  <2> DEFINE n == [Idle EXCEPT !.pc = "begin", !.op = "APPROVE", !.qid = q,
                     !.kind = ask[q].kind, !.target = ask[q].target,
                     !.expected = ask[q].base]
  <2>1. ask[q] \in RequestType /\ AskOK(q)
    BY Known
  <2>2. n \in CallType
    <3>1. ask[q].kind \in Kinds /\ ask[q].target \in MaybeVersion
          /\ ask[q].base \in MaybeVersion
      BY <2>1 DEF RequestType
    <3>2. QED
      BY <3>1, IdleCall DEF CallType
  <2>3. /\ n.pc = "begin" /\ n.op = "APPROVE" /\ n.qid = q
        /\ n.target = ask[q].target /\ n.expected = ask[q].base
        /\ n.mode = "NONE" /\ n.trace = NoAsk /\ n.watched = FALSE
    BY DEF Idle
  <2>4. ask[q].by # u /\ Enter(u, n)
    BY <1>2 DEF ApproveNow, MayDecide
  <2> HIDE DEF n
  <2>5. CallOK(u, n)
    BY <1>1, <2>1, <2>3, <2>4 DEF CallOK, SwitchOK, Fits, AskOK
  <2>6. QED
    BY <1>1, <2>2, <2>4, <2>5, EnterStep
<1>3. CASE Decide(u, q) \/ Sweep(u, q)
  <2>1. PICK op \in {"SWEEP", "DECIDE"}, status \in Closed,
             outcome \in {"NONE", "FAILED", "SCHEDULED"} :
          /\ Enter(u, Closing(q, op, status, outcome))
          /\ outcome = "SCHEDULED" => status = "APPROVED" /\ ask[q].by # u
    <3>1. CASE Decide(u, q)
      BY <3>1 DEF Decide, MayDecide, Closed
    <3>2. CASE Sweep(u, q)
      BY <3>2, Verdict DEF Sweep
    <3>3. QED
      BY <1>3, <3>1, <3>2
  <2>2. Closing(q, op, status, outcome) \in CallType
        /\ CallOK(u, Closing(q, op, status, outcome))
    BY <1>1, <2>1, ClosingForm
  <2>3. QED
    BY <1>1, <2>1, <2>2, EnterStep
<1>4. QED
  BY <1>2, <1>3


\* A call that ends.
LEMMA AnswerKeeps ==
  ASSUME SwitchInv, NEW c \in Callers, Answer(c),
         UNCHANGED <<prod, staging, policy, log, ask, schedule, budget>>
  PROVE  SwitchInv'
<1>1. Enter(c, Idle) /\ budget' \in Nat
  BY Known DEF Answer, Enter, TypeOK
<1>2. QED
  BY <1>1, IdleCall, EnterStep

\* A call that notes what it has read, outside switch().
LEMMA NoteKeeps ==
  ASSUME SwitchInv, NEW u \in Users, NEW n \in CallType,
         n.pc \in {"preview", "insert", "policy", "mode", "row"},
         n.watched = FALSE,
         n.pc = "insert" => n.target \in Versions /\ n.expected \in Versions,
         n.pc = "row" => n.sid \in Schedules /\ schedule[n.sid].status # "ABSENT",
         Enter(u, n), budget' \in Nat,
         UNCHANGED <<prod, staging, policy, log, ask, schedule>>
  PROVE  SwitchInv'
<1>1. u \in Callers /\ CallOK(u, n)
  BY DEF Callers, CallOK, SwitchPc
<1>2. QED
  BY <1>1, EnterStep

LEMMA AskReadKeeps ==
  ASSUME SwitchInv, NEW u \in Users, AskRead(u)
  PROVE  SwitchInv'
<1>1. /\ u \in Callers /\ budget' \in Nat
      /\ UNCHANGED <<prod, staging, policy, log, ask, schedule>>
  BY Known DEF Callers, AskRead, Calls, Spend, TypeOK
<1>2. CASE Enter(u, [Idle EXCEPT !.pc = "preview", !.op = "ASK"])
  <2> DEFINE n == [Idle EXCEPT !.pc = "preview", !.op = "ASK"]
  <2>1. n \in CallType
    BY IdleCall DEF CallType
  <2>2. n.pc = "preview" /\ n.watched = FALSE
    BY DEF Idle
  <2>3. Enter(u, n)
    BY <1>2
  <2> HIDE DEF n
  <2>4. QED
    BY <1>1, <2>1, <2>2, <2>3, NoteKeeps
<1>3. ASSUME NEW q \in Pending, EffectiveStatus(q) # "PENDING",
             Enter(u, Closing(q, "ASK", EffectiveStatus(q), "NONE"))
      PROVE  SwitchInv'
  <2>1. q \in Asks /\ ask[q].status # "ABSENT"
    BY DEF Pending
  <2>2. EffectiveStatus(q) \in Closed
    BY <1>3, <2>1, Verdict
  <2>3. Closing(q, "ASK", EffectiveStatus(q), "NONE") \in CallType
        /\ CallOK(u, Closing(q, "ASK", EffectiveStatus(q), "NONE"))
    BY <1>1, <2>1, <2>2, ClosingForm
  <2>4. QED
    BY <1>1, <1>3, <2>3, EnterStep
<1>4. QED
  BY <1>2, <1>3 DEF AskRead

LEMMA AskPreviewKeeps ==
  ASSUME SwitchInv, NEW u \in Users, NEW kind \in Kinds, NEW v \in Versions,
         AskPreview(u, kind, v)
  PROVE  SwitchInv'
<1> DEFINE n == [Idle EXCEPT !.pc = "insert", !.op = "ASK", !.kind = kind,
                   !.target = v, !.expected = prod]
<1>1. budget' \in Nat /\ prod \in Versions
  BY Known DEF AskPreview, TypeOK, MaybeVersion
<1>2. n \in CallType
  <2>1. v \in MaybeVersion /\ prod \in MaybeVersion
    BY <1>1 DEF MaybeVersion
  <2>2. QED
    BY ZenonT(60), <2>1, IdleCall DEF CallType
<1>3. n.pc = "insert" /\ n.target = v /\ n.expected = prod /\ n.watched = FALSE
  BY DEF Idle
<1>4. Enter(u, n) /\ UNCHANGED <<prod, staging, policy, log, ask, schedule>>
  BY DEF AskPreview
<1> HIDE DEF n
<1>5. QED
  BY <1>1, <1>2, <1>3, <1>4, NoteKeeps

LEMMA AskForScheduleKeeps ==
  ASSUME SwitchInv, NEW u \in Users, NEW s \in Schedules,
         AskForSchedule(u, s)
  PROVE  SwitchInv'
<1> DEFINE row == schedule[s]
           n == [Idle EXCEPT !.pc = "insert", !.op = "ASK", !.sid = s,
                   !.target = row.target, !.expected = row.base]
<1>1. budget' \in Nat /\ row.target \in Versions /\ row.base \in Versions
  BY Known DEF AskForSchedule, TypeOK, Waiting
<1>2. n \in CallType
  <2>1. row.target \in MaybeVersion /\ row.base \in MaybeVersion
    BY <1>1 DEF MaybeVersion
  <2>2. QED
    BY ZenonT(60), <2>1, IdleCall DEF CallType
<1>3. n.pc = "insert" /\ n.target = row.target /\ n.expected = row.base
      /\ n.watched = FALSE
  BY DEF Idle
<1>4. Enter(u, n) /\ UNCHANGED <<prod, staging, policy, log, ask, schedule>>
  BY DEF AskForSchedule
<1> HIDE DEF n
<1>5. QED
  BY <1>1, <1>2, <1>3, <1>4, NoteKeeps

LEMMA AskInsertKeeps ==
  ASSUME SwitchInv, NEW u \in Users, NEW q \in Asks, AskInsert(u, q)
  PROVE  SwitchInv'
<1> DEFINE k == call[u]
           r == [NoRequest EXCEPT !.status = "PENDING", !.kind = k.kind,
                  !.target = k.target, !.base = k.expected, !.sid = k.sid,
                  !.by = u]
<1>1. /\ u \in Callers /\ k \in CallType /\ CallOK(u, k) /\ TypeOK
      /\ k.target \in Versions /\ k.expected \in Versions
      /\ UNCHANGED <<prod, staging, policy, log, schedule, budget>>
      /\ ask[q].status = "ABSENT"
  BY Known DEF Callers, AskInsert, CallOK
<1>2. /\ r.status = "PENDING" /\ r.target = k.target /\ r.base = k.expected
  BY DEF NoRequest
<1>3. r \in RequestType
  <2>1. NoRequest \in RequestType
    BY DEF NoRequest, RequestType, Outcomes, Kinds, MaybeVersion
  <2>2. k.kind \in Kinds /\ k.target \in MaybeVersion
        /\ k.expected \in MaybeVersion /\ k.sid \in Schedules \cup {NoSchedule}
    BY <1>1 DEF CallType
  <2>3. QED
    BY <2>1, <2>2 DEF RequestType
<1>4. ask' = [ask EXCEPT ![q] = r]
  BY DEF AskInsert
<1> HIDE DEF r
<1>5. /\ ask' \in [Asks -> RequestType] /\ AskFrame /\ ask'[q] = r
      /\ \A p \in Asks \ {q} : ask'[p] = ask[p]
  BY <1>1, <1>2, <1>3, <1>4, AskSet DEF Closed
<1>6. /\ call' \in [Callers -> CallType] /\ call'[u] = Idle
      /\ \A d \in Callers \ {u} : call'[d] = call[d]
  BY <1>1, IdleCall DEF TypeOK, AskInsert, Answer
<1>7. CallOK(u, call[u])'
  BY <1>6 DEF Idle, CallOK, SwitchPc
<1>8. \A d \in Callers \ {u} : SameCall(d)
  BY <1>1, <1>6, Known DEF SameCall, CallOK
<1>9. TypeOK' /\ RowFrame
  BY <1>1, <1>5, <1>6 DEF TypeOK, RowFrame
<1>10. ASSUME NEW p \in Asks, ask'[p] # ask[p]
       PROVE  ask'[p].status # "APPROVED"
              /\ ask'[p].target \in Versions /\ ask'[p].base \in Versions
  BY <1>1, <1>2, <1>5, <1>10
<1>11. QED
  BY <1>1, <1>5, <1>7, <1>8, <1>9, <1>10, CallStep

LEMMA AskRefusedKeeps ==
  ASSUME SwitchInv, NEW u \in Users, AskRefused(u)
  PROVE  SwitchInv'
<1>1. u \in Callers
  BY DEF Callers
<1>2. QED
  BY <1>1, AnswerKeeps DEF AskRefused

LEMMA CrashKeeps ==
  ASSUME SwitchInv, NEW c \in Callers, Crash(c)
  PROVE  SwitchInv'
BY AnswerKeeps DEF Crash

LEMMA OverdueKeeps ==
  ASSUME SwitchInv, NEW q \in Asks, Overdue(q)
  PROVE  SwitchInv'
<1> DEFINE old == ask[q]
           r == [old EXCEPT !.overdue = TRUE]
<1>1. /\ old \in RequestType /\ AskOK(q) /\ old.status = "PENDING" /\ TypeOK
      /\ UNCHANGED <<prod, staging, policy, log, schedule, call, budget>>
  BY Known DEF Overdue
<1>2. r \in RequestType /\ r.status = "PENDING" /\ r.by = old.by
      /\ r.target = old.target /\ r.base = old.base
  BY <1>1 DEF RequestType
<1>3. ask' = [ask EXCEPT ![q] = r]
  BY DEF Overdue
<1> HIDE DEF r
<1>4. /\ ask' \in [Asks -> RequestType] /\ AskFrame /\ ask'[q] = r
      /\ \A p \in Asks \ {q} : ask'[p] = ask[p]
  BY <1>1, <1>2, <1>3, AskSet DEF Closed, AskOK
<1>5. TypeOK' /\ RowFrame
  BY <1>1, <1>4 DEF TypeOK, RowFrame
<1>6. ASSUME NEW p \in Asks, ask'[p] # ask[p]
       PROVE  ask'[p].status # "APPROVED"
              /\ ask'[p].target \in Versions /\ ask'[p].base \in Versions
  BY <1>1, <1>2, <1>4, <1>6 DEF AskOK
<1>7. QED
  BY <1>1, <1>4, <1>5, <1>6, TableStep


-----------------------------------------------------------------------------
(* The policy, the mode and the schedules                                  *)

LEMMA PolicyReadKeeps ==
  ASSUME SwitchInv, NEW u \in Users, NEW required \in BOOLEAN,
         PolicyRead(u, required)
  PROVE  SwitchInv'
<1> DEFINE n == [Idle EXCEPT !.pc = "policy", !.op = "POLICY",
                   !.required = policy, !.direct = required]
<1>1. n \in CallType
  BY ZenonT(60), Known, IdleCall DEF CallType
<1>2. n.pc = "policy" /\ n.watched = FALSE
  BY DEF Idle
<1>3. /\ Enter(u, n) /\ budget' \in Nat
      /\ UNCHANGED <<prod, staging, policy, log, ask, schedule>>
  BY Known DEF PolicyRead, Calls, Spend, TypeOK
<1> HIDE DEF n
<1>4. QED
  BY <1>1, <1>2, <1>3, NoteKeeps

LEMMA ModeReadKeeps ==
  ASSUME SwitchInv, NEW u \in Users, ModeRead(u)
  PROVE  SwitchInv'
<1> DEFINE n == [Idle EXCEPT !.pc = "mode", !.op = "MODE"]
<1>1. n \in CallType
  BY IdleCall DEF CallType
<1>2. n.pc = "mode" /\ n.watched = FALSE
  BY DEF Idle
<1>3. /\ Enter(u, n) /\ budget' \in Nat
      /\ UNCHANGED <<prod, staging, policy, log, ask, schedule>>
  BY Known DEF ModeRead, Calls, Spend, TypeOK
<1> HIDE DEF n
<1>4. QED
  BY <1>1, <1>2, <1>3, NoteKeeps

LEMMA RowReadKeeps ==
  ASSUME SwitchInv, NEW u \in Users, NEW s \in Schedules,
         NEW op \in {"CANCEL", "MOVE", "RESUME"}, RowRead(u, s, op)
  PROVE  SwitchInv'
<1> DEFINE n == [Idle EXCEPT !.pc = "row", !.op = op, !.sid = s]
<1>1. n \in CallType
  BY ZenonT(60), IdleCall DEF CallType
<1>2. n.pc = "row" /\ n.sid = s /\ n.watched = FALSE
  BY DEF Idle
<1>3. /\ Enter(u, n) /\ budget' \in Nat
      /\ UNCHANGED <<prod, staging, policy, log, ask, schedule>>
  BY Known DEF RowRead, Calls, Spend, TypeOK
<1>4. schedule[s].status # "ABSENT"
  BY DEF RowRead, Waiting
<1> HIDE DEF n
<1>5. QED
  BY <1>1, <1>2, <1>3, <1>4, NoteKeeps

LEMMA PolicyWriteKeeps ==
  ASSUME SwitchInv, NEW u \in Users, PolicyWrite(u)
  PROVE  SwitchInv'
<1> DEFINE k == call[u]
           rest == [call EXCEPT ![u] = Idle]
<1>1. /\ TypeOK /\ u \in Callers /\ k \in CallType
      /\ policy' = k.direct
      /\ UNCHANGED <<prod, staging, log, schedule, budget>>
  BY Known DEF Callers, PolicyWrite
<1>2. /\ rest \in [Callers -> CallType] /\ rest[u] = Idle
      /\ \A d \in Callers \ {u} : rest[d] = call[d]
  BY <1>1, IdleCall DEF TypeOK
<1>3. /\ call' \in [Callers -> CallType]
      /\ \A d \in Callers : call'[d] = IF k.direct THEN rest[d]
                                       ELSE [rest[d] EXCEPT !.watched = FALSE]
  <2>1. CASE k.direct
    BY <1>2, <2>1 DEF PolicyWrite
  <2>2. CASE ~k.direct
    <3>1. call' = [d \in Callers |-> [rest[d] EXCEPT !.watched = FALSE]]
      BY <2>2 DEF PolicyWrite
    <3>2. \A m \in CallType : [m EXCEPT !.watched = FALSE] \in CallType
      BY ZenonT(60) DEF CallType
    <3> HIDE DEF rest
    <3>3. QED
      BY <1>2, <2>2, <3>1, <3>2
  <2>3. QED
    BY <2>1, <2>2
<1> HIDE DEF rest
<1>4. ASSUME NEW d \in Callers \ {u} PROVE SameCall(d)
  <2>1. rest[d] = call[d] /\ call[d] \in CallType
    BY <1>2, Known
  <2>2. [call[d] EXCEPT !.watched = FALSE].watched = FALSE
    BY <2>1 DEF CallType
  <2>3. CASE k.direct
    BY <1>1, <1>3, <2>1, <2>3 DEF SameCall
  <2>4. CASE ~k.direct
    <3>1. call'[d] = [call[d] EXCEPT !.watched = FALSE]
      BY <1>3, <2>1, <2>4
    <3>2. QED
      BY <2>2, <3>1 DEF SameCall
  <2>5. QED
    BY <2>3, <2>4
<1>5. CallOK(u, call[u])'
  <2>1. call'[u] \in {Idle, [Idle EXCEPT !.watched = FALSE]}
    BY <1>1, <1>2, <1>3
  <2>2. call'[u] = Idle
    BY ZenonT(60), <2>1 DEF Idle
  <2>3. QED
    BY <2>2 DEF Idle, CallOK, SwitchPc
<1>6. \A q \in Asks :
        \/ ask'[q] = ask[q]
        \/ ask[q].status = "PENDING"
           /\ ask'[q] = [ask[q] EXCEPT !.status = "CANCELLED"]
  BY DEF PolicyWrite, Pending
<1>7. /\ ask' \in [Asks -> RequestType] /\ AskFrame
      /\ \A q \in Asks : ask'[q] # ask[q] =>
           /\ ask'[q].status # "APPROVED"
           /\ ask'[q].target \in Versions /\ ask'[q].base \in Versions
  <2>1. \A r \in RequestType : LET n == [r EXCEPT !.status = "CANCELLED"] IN
          /\ n \in RequestType /\ n.status = "CANCELLED" /\ n.by = r.by
          /\ n.target = r.target /\ n.base = r.base
    BY DEF RequestType, Closed
  <2>2. ASSUME NEW q \in Asks PROVE ask'[q] \in RequestType
    <3>1. ask[q] \in RequestType
      BY Known
    <3>2. [ask[q] EXCEPT !.status = "CANCELLED"] \in RequestType
      BY <2>1, <3>1
    <3>3. QED
      BY <1>6, <3>1, <3>2
  <2>3. ask' \in [Asks -> RequestType]
    <3>1. \E f : ask' = [q \in Asks |-> f[q]]
      <4>1. CASE ask' = ask
        BY <1>1, <4>1 DEF TypeOK
      <4>2. CASE ask' = [q \in Asks |-> IF q \in Pending
                                 THEN [ask[q] EXCEPT !.status = "CANCELLED"]
                                 ELSE ask[q]]
        <5>1. ask' = [q \in Asks |-> ask'[q]]
          BY <4>2
        <5>2. QED
          BY <5>1
      <4>3. QED
        BY <4>1, <4>2 DEF PolicyWrite
    <3>2. QED
      BY <2>2, <3>1
  <2>4. AskFrame
    BY <1>6, <2>1, Known DEF AskFrame, Closed
  <2>5. ASSUME NEW q \in Asks, ask'[q] # ask[q]
        PROVE  /\ ask'[q].status # "APPROVED"
               /\ ask'[q].target \in Versions /\ ask'[q].base \in Versions
    <3>1. ask[q] \in RequestType /\ ask[q].status = "PENDING"
          /\ ask'[q] = [ask[q] EXCEPT !.status = "CANCELLED"]
      BY <1>6, <2>5, Known
    <3>2. /\ ask'[q].status = "CANCELLED" /\ ask'[q].target = ask[q].target
          /\ ask'[q].base = ask[q].base
      BY <3>1 DEF RequestType
    <3>3. ask[q].target \in Versions /\ ask[q].base \in Versions
      BY <3>1, Known DEF AskOK
    <3>4. QED
      BY <3>2, <3>3
  <2>6. QED
    BY <2>3, <2>4, <2>5
<1>8. TypeOK' /\ RowFrame
  <2>1. policy' \in BOOLEAN
    BY <1>1 DEF CallType
  <2>2. QED
    BY <1>1, <1>3, <1>7, <2>1 DEF TypeOK, RowFrame
<1>9. QED
  BY <1>1, <1>4, <1>5, <1>7, <1>8, CallStep


\* A step of the mode moves the pointer without a call that switches.
LEMMA ModeMoves ==
  ASSUME SwitchInv, NEW u \in Users, Enable(u, prod') \/ Disable(u),
         prod' \in MaybeVersion, ScheduleOK', RowFrame
  PROVE  SwitchInv'
<1>1. /\ TypeOK /\ u \in Callers /\ policy' = policy /\ ask' = ask
      /\ budget' = budget /\ Answer(u) /\ prod' = staging'
  BY Known DEF Callers, Enable, Disable
<1>2. PICK e \in EntryType :
        /\ log' = Append(log, e) /\ e.mode = "NONE" /\ e.req = NoAsk
        /\ e.via = NoAsk /\ e.watched = FALSE
  <2>1. \A from, to \in MaybeVersion :
          LET e == Entry(from, to, Idle, FALSE)
          IN  /\ e \in EntryType /\ e.mode = "NONE" /\ e.req = NoAsk
              /\ e.via = NoAsk /\ e.watched = FALSE
    BY DEF Entry, EntryType, Idle
  <2>2. prod \in MaybeVersion /\ Off \in MaybeVersion
    BY Known DEF MaybeVersion
  <2>3. \E from, to \in MaybeVersion :
          log' = Append(log, Entry(from, to, Idle, FALSE))
    <3>1. CASE Enable(u, prod')
      BY <2>2, <3>1 DEF Enable
    <3>2. CASE Disable(u)
      <4>1. policy = FALSE
        BY <3>2, Known DEF Disable, MayDisable
      <4>2. log' = Append(log, Entry(prod, Off, Idle, FALSE))
        BY <3>2, <4>1 DEF Disable
      <4>3. QED
        BY <2>2, <4>2
    <3>3. QED
      BY <3>1, <3>2
  <2>4. QED
    BY <2>1, <2>3
<1>3. AskFrame
  BY <1>1, SameAsk
<1>4. EntryOK(e)'
  BY <1>2 DEF EntryOK
<1>5. TypeOK'
  <2>1. log' \in Seq(EntryType)
    BY <1>1, <1>2, Grown
  <2>2. call' \in [Callers -> CallType]
    BY <1>1, IdleCall DEF TypeOK, Answer
  <2>3. QED
    BY <1>1, <2>1, <2>2 DEF TypeOK, ScheduleOK
<1>6. \A d \in Callers \ {u} : Booked(call[d]) => e.req # call[d].trace
  <2>1. ASSUME NEW d \in Callers, Booked(call[d]) PROVE call[d].trace \in Asks
    BY <2>1, Known DEF Booked, CallOK, CommitOK
  <2>2. QED
    BY <1>2, <2>1, ConstantsAssumption
<1>7. QED
  BY <1>1, <1>2, <1>3, <1>4, <1>5, <1>6, MoveStep

LEMMA EnableKeeps ==
  ASSUME SwitchInv, NEW u \in Users, NEW v \in Versions, Enable(u, v)
  PROVE  SwitchInv'
<1>1. prod' = v /\ prod' \in MaybeVersion /\ schedule' = schedule
  BY DEF Enable, MaybeVersion
<1>2. ScheduleOK' /\ RowFrame
  BY <1>1 DEF SwitchInv, TypeOK, ScheduleOK, RowFrame
<1>3. Enable(u, prod')
  BY <1>1
<1>4. QED
  BY <1>1, <1>2, <1>3, ModeMoves

LEMMA DisableKeeps ==
  ASSUME SwitchInv, NEW u \in Users, Disable(u)
  PROVE  SwitchInv'
<1>1. prod' \in MaybeVersion
  BY DEF Disable, MaybeVersion
<1>2. schedule' = [s \in Schedules |->
                    IF schedule[s].status \in Waiting
                    THEN [schedule[s] EXCEPT !.status = "ENDED"]
                    ELSE schedule[s]]
  BY DEF Disable
<1>3. \A r \in ScheduleType : LET n == [r EXCEPT !.status = "ENDED"] IN
        n \in ScheduleType /\ n.status = "ENDED"
        /\ n.base = r.base /\ n.target = r.target
  BY DEF ScheduleType
<1>4. ASSUME NEW s \in Schedules
      PROVE  /\ schedule'[s] \in ScheduleType
             /\ schedule'[s].base = schedule[s].base
             /\ schedule'[s].target = schedule[s].target
             /\ schedule'[s].status = "ABSENT" <=> schedule[s].status = "ABSENT"
  BY <1>2, <1>3, Known DEF Waiting
<1>5. ScheduleOK' /\ RowFrame
  BY <1>2, <1>4, Known DEF TypeOK, ScheduleOK, RowFrame
<1>6. QED
  BY <1>1, <1>5, ModeMoves

\* A step that only writes schedules, promotes or lets time pass.
LEMMA PlainStep ==
  ASSUME SwitchInv, ScheduleOK', RowFrame, budget' \in Nat,
         staging' \in MaybeVersion, prod = Off <=> staging' = Off,
         UNCHANGED <<prod, policy, log, ask, call>>
  PROVE  SwitchInv'
<1>1. TypeOK'
  BY DEF SwitchInv, TypeOK, ScheduleOK
<1>2. AskFrame
  BY SameAsk
<1>3. QED
  BY <1>1, <1>2, TableStep

LEMMA PromoteKeeps ==
  ASSUME SwitchInv, NEW v \in Versions, Promote(v)
  PROVE  SwitchInv'
<1>1. ScheduleOK' /\ RowFrame
  BY DEF SwitchInv, TypeOK, ScheduleOK, RowFrame, Promote
<1>2. QED
  BY <1>1, PlainStep, Known, ConstantsAssumption
     DEF Promote, Spend, TypeOK, MaybeVersion

\* One row is written.
LEMMA RowPut ==
  ASSUME TypeOK, NEW s \in Schedules, NEW row \in ScheduleType,
         row.status # "ABSENT", row.base \in Versions, row.target \in Versions,
         schedule' = [schedule EXCEPT ![s] = row]
  PROVE  ScheduleOK' /\ RowFrame
BY DEF TypeOK, ScheduleOK, RowFrame

LEMMA BindingsKnown ==
  ASSUME SwitchInv, NEW s \in Schedules
  PROVE  Bindings(s) \subseteq Versions
<1>1. \A r \in ActiveOthers(s) : schedule[r].target \in Versions
  BY Known DEF ActiveOthers, TypeOK, Waiting
<1>2. {prod} \ {Off} \subseteq Versions
  BY Known DEF MaybeVersion
<1>3. QED
  BY <1>1, <1>2 DEF Bindings

LEMMA ScheduleKeeps ==
  ASSUME SwitchInv, NEW s \in Schedules, NEW u \in Users, NEW v \in Versions,
         Schedule(s, u, v)
  PROVE  SwitchInv'
<1>1. PICK base \in Bindings(s) :
        schedule' = [schedule EXCEPT ![s] =
                       [NoScheduleRow EXCEPT !.status = "PENDING", !.by = u,
                          !.target = v, !.base = base]]
  BY DEF Schedule
<1> DEFINE row == [NoScheduleRow EXCEPT !.status = "PENDING", !.by = u,
                     !.target = v, !.base = base]
<1>2. base \in Versions
  BY BindingsKnown
<1>3. /\ row \in ScheduleType /\ row.status = "PENDING"
      /\ row.base = base /\ row.target = v
  BY <1>2 DEF NoScheduleRow, ScheduleType, Waiting, MaybeVersion
<1> HIDE DEF row
<1>4. ScheduleOK' /\ RowFrame
  BY <1>1, <1>2, <1>3, Known, RowPut DEF row
<1>5. QED
  BY <1>4, PlainStep, Known DEF Schedule, Spend, TypeOK

LEMMA RowWriteKeeps ==
  ASSUME SwitchInv, NEW u \in Users, RowWrite(u)
  PROVE  SwitchInv'
<1> DEFINE s == call[u].sid
           old == schedule[s]
<1>1. /\ u \in Callers /\ s \in Schedules /\ TypeOK
      /\ old \in ScheduleType /\ old.status # "ABSENT"
      /\ old.base \in Versions /\ old.target \in Versions
  BY Known DEF Callers, RowWrite, CallOK, TypeOK
<1>2. ScheduleOK' /\ RowFrame
  <2>1. CASE schedule' = [schedule EXCEPT ![s].status = "ENDED"]
    BY <1>1, <2>1, RowSet
  <2>2. CASE schedule' = [schedule EXCEPT ![s].due = FALSE]
    <3> DEFINE row == [old EXCEPT !.due = FALSE]
    <3>1. /\ row \in ScheduleType /\ row.status = old.status
          /\ row.base = old.base /\ row.target = old.target
      BY <1>1 DEF ScheduleType
    <3>2. schedule' = [schedule EXCEPT ![s] = row]
      BY <2>2
    <3> HIDE DEF row
    <3>3. QED
      BY <1>1, <3>1, <3>2, RowPut
  <2>3. ASSUME NEW base \in Bindings(s),
               schedule' = [schedule EXCEPT ![s].status = "PENDING",
                              ![s].base = base, ![s].due = FALSE]
        PROVE  ScheduleOK' /\ RowFrame
    <3> DEFINE row == [old EXCEPT !.status = "PENDING", !.base = base,
                         !.due = FALSE]
    <3>1. base \in Versions /\ base \in MaybeVersion
      BY <1>1, BindingsKnown DEF MaybeVersion
    <3>2. /\ row \in ScheduleType /\ row.status = "PENDING"
          /\ row.base = base /\ row.target = old.target
      BY <1>1, <3>1 DEF ScheduleType, Waiting
    <3>3. schedule' = [schedule EXCEPT ![s] = row]
      BY <1>1, <2>3 DEF TypeOK
    <3> HIDE DEF row
    <3>4. QED
      BY <1>1, <3>1, <3>2, <3>3, RowPut
  <2>4. QED
    BY <2>1, <2>2, <2>3 DEF RowWrite
<1>3. Enter(u, Idle) /\ budget' \in Nat
      /\ UNCHANGED <<prod, staging, policy, log, ask>>
  BY <1>1 DEF RowWrite, Answer, Enter, TypeOK
<1>4. QED
  BY <1>1, <1>2, <1>3, IdleCall, EnterWrite

LEMMA EngineKeeps ==
  ASSUME SwitchInv, NEW s \in Schedules, Hold(s) \/ Miss(s) \/ Settle(s)
  PROVE  SwitchInv'
<1>1. PICK status \in {"HELD", "ENDED"} :
        /\ schedule[s].status # "ABSENT"
        /\ schedule' = [schedule EXCEPT ![s].status = status]
        /\ UNCHANGED <<prod, staging, policy, log, ask, call, budget>>
  BY DEF Hold, Miss, Settle, SetStatus
<1>2. ScheduleOK' /\ RowFrame
  BY <1>1, Known, RowSet DEF Waiting
<1>3. QED
  BY <1>1, <1>2, Known, PlainStep DEF TypeOK

LEMMA DueKeeps ==
  ASSUME SwitchInv, NEW s \in Schedules, Due(s)
  PROVE  SwitchInv'
<1> DEFINE row == [schedule[s] EXCEPT !.due = TRUE]
<1>1. /\ TypeOK /\ schedule[s] \in ScheduleType
      /\ schedule[s].status # "ABSENT"
      /\ schedule[s].base \in Versions /\ schedule[s].target \in Versions
      /\ UNCHANGED <<prod, staging, policy, log, call, budget>>
  BY Known DEF Due, TypeOK, Waiting
<1>2. /\ row \in ScheduleType /\ row.status = schedule[s].status
      /\ row.base = schedule[s].base /\ row.target = schedule[s].target
  BY <1>1 DEF ScheduleType
<1>3. schedule' = [schedule EXCEPT ![s] = row]
  BY DEF Due
<1> HIDE DEF row
<1>4. ScheduleOK' /\ RowFrame
  BY <1>1, <1>2, <1>3, RowPut
<1>5. ask' = [q \in Asks |-> IF q \in Pending /\ ask[q].sid = s
                             THEN [ask[q] EXCEPT !.overdue = TRUE] ELSE ask[q]]
  BY DEF Due
<1>6. \A r \in RequestType : LET n == [r EXCEPT !.overdue = TRUE] IN
        /\ n \in RequestType /\ n.status = r.status /\ n.by = r.by
        /\ n.base = r.base /\ n.target = r.target
  BY DEF RequestType
<1>7. ASSUME NEW q \in Asks
      PROVE  /\ ask'[q] \in RequestType /\ ask'[q].status = ask[q].status
             /\ ask'[q].by = ask[q].by /\ ask'[q].base = ask[q].base
             /\ ask'[q].target = ask[q].target
             /\ ask'[q] # ask[q] => ask[q].status = "PENDING"
  BY <1>5, <1>6, Known DEF Pending
<1>8. ask' \in [Asks -> RequestType] /\ AskFrame
  BY <1>5, <1>7 DEF AskFrame, Closed
<1>9. TypeOK'
  BY <1>1, <1>4, <1>8 DEF TypeOK, ScheduleOK
<1>10. ASSUME NEW q \in Asks, ask'[q] # ask[q]
       PROVE  ask'[q].status # "APPROVED"
              /\ ask'[q].target \in Versions /\ ask'[q].base \in Versions
  BY <1>7, <1>10, Known DEF AskOK
<1>11. QED
  BY <1>1, <1>4, <1>8, <1>9, <1>10, TableStep

LEMMA StartKeeps ==
  ASSUME SwitchInv, NEW s \in Schedules, Start(s)
  PROVE  SwitchInv'
<1>1. /\ TypeOK /\ Scheduler \in Callers /\ budget' \in Nat
      /\ schedule[s].status # "ABSENT"
      /\ schedule[s].base \in Versions /\ schedule[s].target \in Versions
      /\ UNCHANGED <<prod, staging, policy, log, ask, budget>>
  BY Known DEF Start, TypeOK, Callers
<1>2. CASE UNCHANGED call /\ schedule' = [schedule EXCEPT ![s].status = "ENDED"]
  BY <1>1, <1>2, RowSet, PlainStep DEF TypeOK
<1> DEFINE n == [Idle EXCEPT !.pc = "begin", !.op = "SCHEDULED", !.sid = s,
                   !.target = schedule[s].target, !.expected = schedule[s].base]
<1>3. CASE /\ schedule' = [schedule EXCEPT ![s].status = "RUNNING"]
           /\ Enter(Scheduler, n)
  <2>1. ScheduleOK' /\ RowFrame
    BY <1>1, <1>3, RowSet
  <2>2. n \in CallType
    <3>1. schedule[s].target \in MaybeVersion /\ schedule[s].base \in MaybeVersion
      BY <1>1 DEF MaybeVersion
    <3>2. QED
      BY ZenonT(60), <3>1, IdleCall DEF CallType
  <2>3. /\ n.pc = "begin" /\ n.op = "SCHEDULED" /\ n.qid = NoAsk
        /\ n.target = schedule[s].target /\ n.expected = schedule[s].base
        /\ n.mode = "NONE" /\ n.trace = NoAsk /\ n.watched = FALSE
    BY DEF Idle
  <2>4. Enter(Scheduler, n)
    BY <1>3
  <2> HIDE DEF n
  <2>5. CallOK(Scheduler, n)
    BY <1>1, <2>3 DEF CallOK, SwitchOK
  <2>6. QED
    BY <1>1, <2>1, <2>2, <2>4, <2>5, EnterWrite
<1>4. QED
  BY <1>2, <1>3 DEF Start


-----------------------------------------------------------------------------
(* The inductive invariant                                                 *)

LEMMA InitInv ==
  ASSUME Init
  PROVE  SwitchInv
<1> DEFINE e == Entry(Off, prod, Idle, FALSE)
<1>1. prod \in MaybeVersion /\ Off \in MaybeVersion
  BY DEF Init, MaybeVersion
<1>2. /\ e \in EntryType /\ e.mode = "NONE" /\ e.req = NoAsk
      /\ e.via = NoAsk /\ e.watched = FALSE
  BY <1>1 DEF Entry, EntryType, Idle
<1>3. log = IF prod = Off THEN <<>> ELSE <<e>>
  BY DEF Init
<1> HIDE DEF e
<1>4. log \in Seq(EntryType) /\ \A i \in DOMAIN log : i = 1 /\ log[i] = e
  BY <1>2, <1>3
<1>5. NoRequest \in RequestType
  BY DEF NoRequest, RequestType, Outcomes, Kinds, MaybeVersion
<1>6. NoScheduleRow \in ScheduleType
  BY DEF NoScheduleRow, ScheduleType, MaybeVersion
<1>7. TypeOK
  <2>1. ask \in [Asks -> RequestType]
    BY <1>5 DEF Init
  <2>2. /\ schedule \in [Schedules -> ScheduleType]
        /\ \A s \in Schedules : schedule[s].status = "ABSENT"
    BY <1>6 DEF Init, NoScheduleRow
  <2>3. call \in [Callers -> CallType]
    BY IdleCall DEF Init
  <2>4. /\ staging \in MaybeVersion /\ prod = staging
        /\ policy \in BOOLEAN /\ budget \in Nat
    BY <1>1, ConstantsAssumption DEF Init
  <2>5. QED
    BY <1>1, <1>4, <2>1, <2>2, <2>3, <2>4 DEF TypeOK
<1>8. \A c \in Callers : CallOK(c, call[c])
  BY IdleCall DEF Init
<1>9. \A q \in Asks : AskOK(q)
  BY DEF Init, NoRequest, AskOK
<1>10. \A i \in DOMAIN log : EntryOK(log[i])
  BY <1>2, <1>4 DEF EntryOK
<1>11. ViaOnce
  BY <1>4 DEF ViaOnce
<1>12. QED
  BY <1>7, <1>8, <1>9, <1>10, <1>11 DEF SwitchInv

LEMMA StepInv ==
  ASSUME SwitchInv, [Next]_vars
  PROVE  SwitchInv'
<1>1. ASSUME NEW c \in Callers, Switching(c) PROVE SwitchInv'
  BY <1>1, SwitchBeginKeeps, ReadPointerKeeps, HistoryKeeps,
     CheckApprovalKeeps, StopKeeps, CommitKeeps, CloseKeeps, CrashKeeps
     DEF Switching
<1>2. ASSUME NEW u \in Users, Requesting(u) PROVE SwitchInv'
  BY <1>2, AskReadKeeps, AskRefusedKeeps, AskPreviewKeeps, AskForScheduleKeeps,
     AskInsertKeeps, DecideKeeps DEF Requesting
<1>3. ASSUME NEW u \in Users, Administering(u) PROVE SwitchInv'
  BY <1>3, SwitchNowKeeps, PolicyReadKeeps, PolicyWriteKeeps, ModeReadKeeps,
     DisableKeeps, RowWriteKeeps, EnableKeeps DEF Administering
<1>4. ASSUME NEW s \in Schedules, Scheduling(s) PROVE SwitchInv'
  BY <1>4, EngineKeeps, DueKeeps, StartKeeps, RowReadKeeps, ScheduleKeeps
     DEF Scheduling
<1>5. ASSUME UNCHANGED vars PROVE SwitchInv'
  <2>1. ScheduleOK' /\ RowFrame
    BY <1>5 DEF vars, SwitchInv, TypeOK, ScheduleOK, RowFrame
  <2>2. QED
    BY <1>5, <2>1, PlainStep DEF vars, SwitchInv, TypeOK
<1>6. QED
  BY <1>1, <1>2, <1>3, <1>4, <1>5, OverdueKeeps, PromoteKeeps DEF Next

LEMMA Invariance == Spec => []SwitchInv
<1>1. Init => SwitchInv
  BY InitInv
<1>2. SwitchInv /\ [Next]_vars => SwitchInv'
  BY StepInv
<1>3. QED
  BY <1>1, <1>2, PTL DEF Spec

-----------------------------------------------------------------------------
(* Theorems                                                                *)

\* Every variable of the environment services keeps its type, both pointers are
\* set and cleared together, and a schedule aims from a version at a version.
THEOREM SwitchTypes == Spec => []TypeOK
<1>1. SwitchInv => TypeOK
  BY DEF SwitchInv
<1>2. QED
  BY <1>1, Invariance, PTL

\* A move marked APPROVED was let through for exactly this move by an
\* administrator other than the author of its request.
THEOREM TwoPersons == Spec => []FourEyes
<1>1. SwitchInv => FourEyes
  BY DEF SwitchInv, EntryOK, Granted, Fits, FourEyes
<1>2. QED
  BY <1>1, Invariance, PTL

\* The pointer was moved once for each request that is APPROVED and APPLIED, and
\* never for another.
THEOREM ApprovalIsMove == Spec => []AppliedIsCommitted
<1>1. SwitchInv => AppliedIsCommitted
  <2> SUFFICES ASSUME SwitchInv, NEW q \in Asks
               PROVE  Cardinality({i \in DOMAIN log : log[i].via = q})
                        = IF ask[q].status = "APPROVED"
                             /\ ask[q].outcome = "APPLIED" THEN 1 ELSE 0
    BY DEF AppliedIsCommitted
  <2> DEFINE moves == {i \in DOMAIN log : log[i].via = q}
             applied == ask[q].status = "APPROVED" /\ ask[q].outcome = "APPLIED"
  <2>1. q # NoAsk
    BY ConstantsAssumption
  <2>2. CASE applied
    <3>1. PICK i \in DOMAIN log : log[i].via = q
      BY <2>2 DEF SwitchInv, AskOK
    <3>2. moves = {i}
      BY <2>1, <3>1 DEF SwitchInv, ViaOnce
    <3>3. QED
      BY <2>2, <3>2, FS_Singleton
  <2>3. CASE ~applied
    <3>1. moves = {}
      BY <2>1, <2>3 DEF SwitchInv, EntryOK
    <3>2. QED
      BY <2>3, <3>1, FS_EmptySet
  <2>4. QED
    BY <2>2, <2>3
<1>2. QED
  BY <1>1, Invariance, PTL

\* While the policy stays on, a call moves the pointer with an approval or back
\* to the previous version only.
THEOREM PolicyHolds == Spec => []PolicyEnforced
<1>1. SwitchInv => PolicyEnforced
  BY DEF SwitchInv, EntryOK, PolicyEnforced
<1>2. QED
  BY <1>1, Invariance, PTL

\* No step writes a request that is closed.
LEMMA ClosedStep ==
  ASSUME SwitchInv, Next, NEW q \in Asks, ask[q].status \in Closed
  PROVE  ask'[q] = ask[q]
<1>1. ask[q].status \notin {"PENDING", "ABSENT"} /\ ask \in [Asks -> RequestType]
  BY DEF Closed, SwitchInv, TypeOK
<1>2. ASSUME NEW c, NEW code, Failed(c, code) PROVE ask' = ask
  BY <1>2 DEF Failed
<1>3. ASSUME NEW c \in Callers, Switching(c) PROVE ask'[q] = ask[q]
  <2>1. CASE Commit(c)
    BY <1>1, <1>2, <2>1 DEF Commit, Claimed, Claimable
  <2>2. CASE Close(c)
    BY <1>1, <2>2 DEF Close, Open
  <2>3. CASE SwitchBegin(c) \/ ReadHistory(c) \/ Stop(c)
    BY <1>2, <2>3 DEF SwitchBegin, ReadHistory, Stop
  <2>4. CASE CheckApproval(c)
    BY <1>2, <2>4 DEF CheckApproval
  <2>5. CASE ReadPointer(c) \/ Crash(c)
    BY <2>5 DEF ReadPointer, Crash
  <2>6. QED
    BY <1>3, <2>1, <2>2, <2>3, <2>4, <2>5 DEF Switching
<1>4. ASSUME NEW u \in Users, Requesting(u) PROVE ask'[q] = ask[q]
  BY <1>1, <1>4 DEF Requesting, AskRead, AskRefused, AskPreview, AskForSchedule,
     AskInsert, ApproveNow, Decide, Sweep
<1>5. ASSUME NEW u \in Users, Administering(u) PROVE ask'[q] = ask[q]
  BY <1>1, <1>5 DEF Administering, SwitchNow, PolicyRead, PolicyWrite, Pending,
     ModeRead, Disable, RowWrite, Enable
<1>6. ASSUME NEW s \in Schedules, Scheduling(s) PROVE ask'[q] = ask[q]
  BY <1>1, <1>6 DEF Scheduling, Hold, Miss, Settle, SetStatus, Due, Pending,
     Start, RowRead, Schedule
<1>7. ASSUME NEW p \in Asks, Overdue(p) PROVE ask'[q] = ask[q]
  BY <1>1, <1>7 DEF Overdue
<1>8. ASSUME NEW v \in Versions, Promote(v) PROVE ask'[q] = ask[q]
  BY <1>8 DEF Promote
<1>9. QED
  BY <1>3, <1>4, <1>5, <1>6, <1>7, <1>8 DEF Next

\* A request that is closed stays as it is.
THEOREM Finality == Spec => ClosedIsFinal
<1>1. SwitchInv /\ [Next]_vars =>
        [\A q \in Asks : ask[q].status \in Closed => ask'[q] = ask[q]]_ask
  BY ClosedStep DEF vars
<1>2. QED
  BY <1>1, Invariance, PTL DEF Spec, ClosedIsFinal


-----------------------------------------------------------------------------
(* The refinement of ProdPointer                                           *)

Moves == [i \in DOMAIN log |-> [from |-> log[i].from, to |-> log[i].to]]

Spent == {log[i].req : i \in DOMAIN log} \ {NoAsk}

\* An entry of the log is a move of the ledger, and spends what it names.
LEMMA LedgerGrows ==
  ASSUME TypeOK, NEW e \in EntryType, log' = Append(log, e)
  PROVE  /\ Moves' = Append(Moves, [from |-> e.from, to |-> e.to])
         /\ Spent' = Spent \cup ({e.req} \ {NoAsk})
<1> DEFINE new == [from |-> e.from, to |-> e.to]
           Step == [from : MaybeVersion, to : MaybeVersion]
<1>1. /\ log \in Seq(EntryType) /\ Len(log) \in Nat
      /\ DOMAIN log = 1..Len(log) /\ DOMAIN log' = 1..(Len(log) + 1)
      /\ log'[Len(log) + 1] = e
      /\ \A i \in DOMAIN log : log'[i] = log[i]
  BY DEF TypeOK
<1>2. new \in Step
  BY DEF EntryType
<1>3. \A i \in DOMAIN log : [from |-> log[i].from, to |-> log[i].to] \in Step
  <2>1. \A i \in DOMAIN log : log[i] \in EntryType
    BY <1>1
  <2>2. QED
    BY <2>1 DEF EntryType
<1>4. Moves \in Seq(Step) /\ Len(Moves) = Len(log)
  BY <1>1, <1>3 DEF Moves
<1>5. Append(Moves, new) = [i \in 1..(Len(log) + 1) |->
                             IF i = Len(log) + 1 THEN new ELSE Moves[i]]
  <2> DEFINE longer == Append(Moves, new)
  <2>1. /\ longer \in Seq(Step) /\ Len(longer) = Len(Moves) + 1
        /\ \A i \in 1..Len(Moves) : longer[i] = Moves[i]
        /\ longer[Len(Moves) + 1] = new
    BY <1>2, <1>4, AppendProperties
  <2> HIDE DEF longer, Step, new
  <2>2. longer = [i \in 1..Len(longer) |-> longer[i]]
    BY <2>1
  <2>3. QED
    BY <1>1, <1>4, <2>1, <2>2 DEF longer
<1>6. Moves' = Append(Moves, new)
  <2>1. Moves' = [i \in 1..(Len(log) + 1) |->
                   [from |-> log'[i].from, to |-> log'[i].to]]
    BY <1>1 DEF Moves
  <2>2. ASSUME NEW i \in 1..(Len(log) + 1)
        PROVE  [from |-> log'[i].from, to |-> log'[i].to]
                 = IF i = Len(log) + 1 THEN new ELSE Moves[i]
    <3>1. CASE i = Len(log) + 1
      BY <1>1, <3>1
    <3>2. CASE i # Len(log) + 1
      <4>1. i \in DOMAIN log
        BY <1>1, <3>2
      <4>2. QED
        BY <1>1, <3>2, <4>1 DEF Moves
    <3>3. QED
      BY <3>1, <3>2
  <2> HIDE DEF new
  <2>3. QED
    BY <1>5, <2>1, <2>2
<1>7. Spent' = Spent \cup ({e.req} \ {NoAsk})
  <2>1. DOMAIN log' = DOMAIN log \cup {Len(log) + 1}
    BY <1>1
  <2>2. {log'[i].req : i \in DOMAIN log'}
          = {log[i].req : i \in DOMAIN log} \cup {e.req}
    BY <1>1, <2>1
  <2>3. QED
    BY <2>2 DEF Spent
<1>8. QED
  BY <1>6, <1>7

\* A step of the pointer, told in the terms of the ledger.
Pointed(v, q) ==
  /\ prod' = v
  /\ Moves' = Append(Moves, [from |-> prod, to |-> v])
  /\ Spent' = Spent \cup ({q} \ {NoAsk})
  /\ q # NoAsk => q \in Asks /\ q \notin Spent

LEMMA CommitPoints ==
  ASSUME SwitchInv, NEW c \in Callers, call[c].pc = "commit",
         Unmoved(c), Claimable(c), prod' = call[c].target,
         log' = Append(log, Entry(call[c].expected, call[c].target, call[c],
                                  call[c].watched))
  PROVE  /\ prod # Off /\ call[c].target \in Versions
         /\ Pointed(call[c].target, call[c].trace)
<1> DEFINE k == call[c]
           e == Entry(k.expected, k.target, k, k.watched)
<1>1. /\ k \in CallType /\ SwitchOK(c, k) /\ CommitOK(k) /\ TypeOK
      /\ k.target \in Versions /\ k.expected \in Versions /\ prod = k.expected
  BY Known DEF CallOK, SwitchPc, SwitchOK, Unmoved
<1>2. e \in EntryType /\ e.from = prod /\ e.to = k.target /\ e.req = k.trace
  BY <1>1 DEF Entry, EntryType, CallType
<1>3. log' = Append(log, e)
  OBVIOUS
<1> HIDE DEF e
<1>4. /\ Moves' = Append(Moves, [from |-> prod, to |-> k.target])
      /\ Spent' = Spent \cup ({k.trace} \ {NoAsk})
  <2>1. /\ Moves' = Append(Moves, [from |-> e.from, to |-> e.to])
        /\ Spent' = Spent \cup ({e.req} \ {NoAsk})
    BY <1>1, <1>2, <1>3, LedgerGrows
  <2>2. QED
    BY <1>2, <2>1
<1>5. ASSUME k.trace # NoAsk PROVE k.trace \in Asks /\ k.trace \notin Spent
  <2>1. k.mode = "APPROVED" /\ k.trace \in Asks
    BY <1>1, <1>5 DEF CommitOK
  <2>2. CASE k.op = "APPROVE"
    <3>1. ask[k.trace].status = "PENDING"
      BY <1>1, <2>1, <2>2 DEF CommitOK, Claimable
    <3>2. \A i \in DOMAIN log : log[i].req # k.trace
      BY <1>5, <3>1 DEF SwitchInv, EntryOK, Granted
    <3>3. QED
      BY <2>1, <3>2 DEF Spent
  <2>3. CASE k.op = "SCHEDULED"
    BY <1>1, <2>1, <2>3 DEF CommitOK, Spent
  <2>4. QED
    BY <1>1, <2>1, <2>2, <2>3 DEF SwitchOK, CommitOK
<1>6. prod # Off
  BY <1>1, ConstantsAssumption
<1>7. QED
  BY <1>1, <1>4, <1>5, <1>6 DEF Pointed

LEMMA ModePoints ==
  ASSUME SwitchInv, NEW u, NEW v \in Versions, Enable(u, v) \/ Disable(u)
  PROVE  \/ prod = Off /\ Pointed(v, NoAsk)
         \/ prod # Off /\ Pointed(Off, NoAsk)
<1>1. TypeOK /\ prod \in MaybeVersion /\ policy \in BOOLEAN
  BY Known
<1>2. \A from, to \in MaybeVersion, b \in BOOLEAN :
        LET e == Entry(from, to, Idle, b)
        IN  e \in EntryType /\ e.from = from /\ e.to = to /\ e.req = NoAsk
  BY DEF Entry, EntryType, Idle
<1>3. CASE Enable(u, v)
  <2>1. PICK e \in EntryType : log' = Append(log, e)
          /\ e.from = Off /\ e.to = v /\ e.req = NoAsk
    BY <1>2, <1>3 DEF Enable, MaybeVersion
  <2>2. Pointed(v, NoAsk)
    BY <1>1, <1>3, <2>1, LedgerGrows DEF Enable, Pointed
  <2>3. QED
    BY <1>3, <2>2 DEF Enable
<1>4. CASE Disable(u)
  <2>1. PICK e \in EntryType : log' = Append(log, e)
          /\ e.from = prod /\ e.to = Off /\ e.req = NoAsk
    <3>1. Off \in MaybeVersion
      BY DEF MaybeVersion
    <3>2. log' = Append(log, Entry(prod, Off, Idle, policy))
      BY <1>4 DEF Disable
    <3>3. QED
      BY <1>1, <1>2, <3>1, <3>2
  <2>2. Pointed(Off, NoAsk)
    BY <1>1, <1>4, <2>1, LedgerGrows DEF Disable, Pointed
  <2>3. QED
    BY <1>4, <2>2 DEF Disable
<1>5. QED
  BY <1>3, <1>4

\* What a step does to the pointer and its log.
LEMMA PointerStep ==
  ASSUME SwitchInv, [Next]_vars
  PROVE  \/ UNCHANGED <<prod, log>>
         \/ \E v \in Versions : prod = Off /\ Pointed(v, NoAsk)
         \/ prod # Off /\ Pointed(Off, NoAsk)
         \/ \E v \in Versions, q \in Asks \cup {NoAsk} :
              prod # Off /\ Pointed(v, q)
<1>1. ASSUME NEW c, NEW code, Failed(c, code) PROVE UNCHANGED <<prod, log>>
  BY <1>1 DEF Failed
<1>2. ASSUME NEW c \in Callers, Switching(c), ~UNCHANGED <<prod, log>>
      PROVE  \E v \in Versions, q \in Asks \cup {NoAsk} :
               prod # Off /\ Pointed(v, q)
  <2>1. Commit(c)
    BY <1>1, <1>2 DEF Switching, SwitchBegin, SwitchRead, ReadPointer,
       ReadHistory, CheckApproval, Stop, Close, Crash
  <2>2. /\ call[c].pc = "commit" /\ Unmoved(c) /\ Claimable(c)
        /\ prod' = call[c].target
        /\ log' = Append(log, Entry(call[c].expected, call[c].target, call[c],
                                    call[c].watched))
    BY <1>1, <1>2, <2>1 DEF Commit
  <2>3. QED
    BY <2>2, CommitPoints, Known DEF CallType
<1>3. ASSUME NEW u \in Users, Administering(u), ~UNCHANGED <<prod, log>>
      PROVE  \/ \E v \in Versions : prod = Off /\ Pointed(v, NoAsk)
             \/ prod # Off /\ Pointed(Off, NoAsk)
  <2>1. Disable(u) \/ \E v \in Versions : Enable(u, v)
    BY <1>3 DEF Administering, SwitchNow, PolicyRead, PolicyWrite, ModeRead,
       RowWrite
  <2>2. Disable(u) => prod \in Versions
    BY Known DEF Disable, MaybeVersion
  <2>3. QED
    BY <2>1, <2>2, ModePoints
<1>4. ASSUME NEW u \in Users, Requesting(u) PROVE UNCHANGED <<prod, log>>
  BY <1>4 DEF Requesting, AskRead, AskRefused, AskPreview, AskForSchedule,
     AskInsert, ApproveNow, Decide, Sweep
<1>5. ASSUME NEW s \in Schedules, Scheduling(s) PROVE UNCHANGED <<prod, log>>
  BY <1>5 DEF Scheduling, Hold, Miss, Settle, SetStatus, Due, Start, RowRead,
     Schedule
<1>6. QED
  BY <1>2, <1>3, <1>4, <1>5 DEF Next, Overdue, Promote, vars

\* Seen through the pointer, its log and the approvals the log names, every
\* behaviour of every interleaving is one of ProdPointer.
THEOREM PointerLedger == Spec => LedgerSpec
<1>1. Init => Ledger!Init
  <2> SUFFICES ASSUME Init PROVE Ledger!Init
    OBVIOUS
  <2>1. /\ prod \in Versions \cup {Off}
        /\ log = IF prod = Off THEN <<>> ELSE <<Entry(Off, prod, Idle, FALSE)>>
    BY DEF Init
  <2>2. /\ Moves = IF prod = Off THEN <<>> ELSE <<[from |-> Off, to |-> prod]>>
        /\ Spent = {}
    BY <2>1 DEF Moves, Spent, Entry, Idle
  <2>3. QED
    BY <2>1, <2>2 DEF Ledger!Init, Moves, Spent
<1>2. SwitchInv /\ [Next]_vars => [Ledger!Next]_(Ledger!vars)
  <2> SUFFICES ASSUME SwitchInv, [Next]_vars
               PROVE  [Ledger!Next]_(Ledger!vars)
    OBVIOUS
  <2>1. CASE UNCHANGED <<prod, log>>
    BY <2>1 DEF Ledger!vars
  <2>2. ASSUME NEW v \in Versions, prod = Off, Pointed(v, NoAsk)
        PROVE  Ledger!Next
    <3>1. Ledger!Enable(v)
      BY <2>2 DEF Pointed, Moves, Spent, Ledger!Enable, Ledger!Record
    <3>2. QED
      BY <3>1 DEF Ledger!Next
  <2>3. CASE prod # Off /\ Pointed(Off, NoAsk)
    <3>1. Ledger!Disable
      BY <2>3 DEF Pointed, Moves, Spent, Ledger!Disable, Ledger!Record
    <3>2. QED
      BY <3>1 DEF Ledger!Next
  <2>4. ASSUME NEW v \in Versions, NEW q \in Asks \cup {NoAsk}, prod # Off,
               Pointed(v, q)
        PROVE  Ledger!Next
    <3>1. CASE q = NoAsk
      <4>1. Ledger!MoveAlone(v)
        BY <2>4, <3>1 DEF Pointed, Moves, Spent, Ledger!MoveAlone, Ledger!Record
      <4>2. QED
        BY <4>1 DEF Ledger!Next
    <3>2. CASE q # NoAsk
      <4>1. Ledger!MoveApproved(v, q)
        BY <2>4, <3>2
           DEF Pointed, Moves, Spent, Ledger!MoveApproved, Ledger!Record
      <4>2. QED
        BY <2>4, <3>2, <4>1 DEF Ledger!Next
    <3>3. QED
      BY <3>1, <3>2
  <2>5. QED
    BY <2>1, <2>2, <2>3, <2>4, PointerStep
<1>3. QED
  BY <1>1, <1>2, Invariance, PTL DEF Spec, LedgerSpec, Ledger!Spec

===============================================================================
