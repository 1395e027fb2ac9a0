--------------------------- MODULE AuditChainProofs ---------------------------
(***************************************************************************)
(* Proofs about AuditChain.                                                *)
(***************************************************************************)
EXTENDS AuditChain, TLAPS

Calls == [pc : {"off", "idle", "read", "commit", "loose"}, tries : Nat, seen : Link]

Jobs == [pc : {"idle", "purge", "delete", "verify", "checking", "report", "close"},
         now : Nat, partial : BOOLEAN, first : Nat, last : Nat, hash : Nat]

Checks == [pc : {"idle", "head", "range", "start", "anchor", "rows", "done"},
           by : Instances \cup {Nobody}, from : Nat, to : Nat, tail : BOOLEAN,
           tip : Nat, lo : Nat, hi : Nat, prev : Nat, at : Nat,
           status : Statuses, hurt : SUBSET Nat, quiet : BOOLEAN]

Rows == [seq : Nat, prev : Nat, hash : Nat, at : Nat, sound : BOOLEAN]

Budgets == [records : Nat, checks : Nat, damage : Nat, crashes : Nat]

LEMMA Constants1 ==
  /\ Purgers \subseteq Instances /\ Nobody \notin Instances
  /\ Attempts \in Nat /\ Keep \in Nat /\ Span \in Nat /\ Lease \in Nat
  /\ Batch \in Nat /\ MaxTime \in Nat /\ MaxRecords \in Nat
  /\ MaxChecks \in Nat /\ MaxDamage \in Nat /\ MaxCrashes \in Nat
  /\ NoHead \notin Link /\ NoAnchor \notin Link
BY AuditAssumption DEF AuditAssumption, Link

LEMMA Blank ==
  /\ Idle \in Calls /\ Off \in Calls /\ NoJob \in Jobs /\ NoCheck \in Checks
  /\ Idle.pc = "idle" /\ Off.pc = "off" /\ NoJob.pc = "idle"
BY DEF Idle, Off, NoJob, NoCheck, Calls, Jobs, Checks, Link, Statuses

LEMMA TypeInit == Init => TypeOK
<1> SUFFICES ASSUME Init PROVE TypeOK
  OBVIOUS
<1>1. \A i \in Instances : call[i].pc = "off" /\ job[i].pc = "idle"
  BY Blank DEF Init
<1>2. budget \in Budgets
  BY Constants1 DEF Init, Budgets
<1>3. call \in [Instances -> Calls] /\ job \in [Instances -> Jobs] /\ check \in Checks
  BY Blank DEF Init
<1>4. /\ clock \in Nat /\ born \in Nat /\ doneDay \in Nat
      /\ head \in Link \cup {NoHead} /\ genesis \in BOOLEAN
      /\ anchor \in Link \cup {NoAnchor} /\ rows \in SUBSET Rows
      /\ lease \in [by : Instances, at : Nat] \cup {NoLease} /\ damaged \subseteq Nat
  BY DEF Init
<1> QED
  BY <1>1, <1>2, <1>3, <1>4 DEF TypeOK, Calls, Jobs, Checks, Rows, Budgets

-----------------------------------------------------------------------------
(* Typing.  Each lemma gives the type of what one kind of step writes.     *)

\* The typing parts of TypeOK, one by one.
Types ==
  /\ clock \in Nat /\ born \in Nat /\ doneDay \in Nat
  /\ head \in Link \cup {NoHead}
  /\ genesis \in BOOLEAN
  /\ anchor \in Link \cup {NoAnchor}
  /\ rows \in SUBSET Rows
  /\ lease \in [by : Instances, at : Nat] \cup {NoLease}
  /\ call \in [Instances -> Calls]
  /\ job \in [Instances -> Jobs]
  /\ check \in Checks
  /\ damaged \subseteq Nat
  /\ budget \in Budgets

Awake == (\E i \in Instances : call[i].pc # "off" \/ job[i].pc # "idle") => head # NoHead

LEMMA TypeParts == TypeOK <=> Types /\ Awake
BY DEF TypeOK, Types, Awake, Calls, Jobs, Checks, Rows, Budgets

\* Who is past its start knows that there is a head, and its head is a link.
LEMMA HeadThere ==
  ASSUME Types, Awake, NEW i \in Instances, call[i].pc # "off" \/ job[i].pc # "idle"
  PROVE  head # NoHead /\ head \in Link
BY DEF Types, Awake

LEMMA Reading == \A n \in Nat : [Idle EXCEPT !.pc = "read", !.tries = n] \in Calls
BY DEF Idle, Calls, Link

LEMMA BudgetTypes ==
  ASSUME Types
  PROVE  /\ budget.records > 0 => [budget EXCEPT !.records = @ - 1] \in Budgets
         /\ budget.checks > 0 => [budget EXCEPT !.checks = @ - 1] \in Budgets
         /\ budget.damage > 0 => [budget EXCEPT !.damage = @ - 1] \in Budgets
         /\ budget.crashes > 0 => [budget EXCEPT !.crashes = @ - 1] \in Budgets
<1>1. budget \in Budgets
  BY DEF Types
<1> QED
  BY <1>1 DEF Budgets

LEMMA CallTypes ==
  ASSUME Types, Awake, NEW i \in Instances,
         Record(i) \/ CallStep(i) \/ Boot(i)
  PROVE  Types' /\ Awake'
<1> USE DEF Types
<1>0. call[i] \in Calls
  OBVIOUS
<1>1. CASE Boot(i)
  <2>1. head' \in Link /\ head' # NoHead
    BY <1>1, Constants1 DEF Boot, EnsuredHead, GENESIS_HASH, Link
  <2>2. call' = [call EXCEPT ![i] = Idle] /\ Idle \in Calls
    BY <1>1, Blank DEF Boot
  <2>3. call' \in [Instances -> Calls]
    BY <2>2
  <2> QED
    BY <1>1, <2>1, <2>3 DEF Boot, Awake
<1>2. CASE Record(i)
  <2>1. [Idle EXCEPT !.pc = "read", !.tries = 1] \in Calls
    BY DEF Idle, Calls, Link
  <2>2. call' \in [Instances -> Calls]
    BY <1>2, <2>1 DEF Record, Enter
  <2>3. budget' \in Budgets
    BY <1>2 DEF Record, Budgets
  <2>4. head # NoHead
    BY <1>2, HeadThere DEF Record
  <2> QED
    BY <1>2, <2>2, <2>3, <2>4 DEF Record, Awake, chain
<1>3. CASE ReadHead(i)
  <2>1. head # NoHead /\ head \in Link
    BY <1>3, HeadThere DEF ReadHead
  <2>2. [call[i] EXCEPT !.pc = "commit", !.seen = head] \in Calls
    BY <1>0, <2>1 DEF Calls
  <2>3. call' = [call EXCEPT ![i] = [call[i] EXCEPT !.pc = "commit", !.seen = head]]
    BY <1>3 DEF ReadHead
  <2>4. call' \in [Instances -> Calls]
    BY <2>2, <2>3
  <2> QED
    BY <1>3, <2>1, <2>4 DEF ReadHead, Awake, chain
<1>4. CASE Commit(i)
  <2> DEFINE r == Row(call[i].seen.seq + 1, call[i].seen.hash)
  <2>1. r \in Rows
    BY <1>0 DEF Row, Rows, Calls, Link
  <2>2. [seq |-> r.seq, hash |-> r.hash] \in Link
    BY <2>1 DEF Rows, Link
  <2>3. head' = [seq |-> r.seq, hash |-> r.hash] /\ rows' = rows \cup {r}
    BY <1>4 DEF Commit
  <2>4. head' \in Link /\ rows' \in SUBSET Rows /\ head' # NoHead
    BY <2>1, <2>2, <2>3, Constants1
  <2>5. call' \in [Instances -> Calls]
    BY <1>4, Blank DEF Commit
  <2> QED
    BY <1>4, <2>4, <2>5 DEF Commit, Awake
<1>5. CASE Retry(i)
  <2>1. head # NoHead
    BY <1>5, HeadThere DEF Retry
  <2>2. call[i].tries \in Nat
    BY <1>0 DEF Calls
  <2>3. [Idle EXCEPT !.pc = "loose"] \in Calls
    BY DEF Idle, Calls, Link
  <2>4. [Idle EXCEPT !.pc = "read", !.tries = call[i].tries + 1] \in Calls
    <3>1. call[i].tries + 1 \in Nat
      BY <2>2
    <3> QED
      BY <3>1, Reading
  <2>5. call' \in [Instances -> Calls]
    BY <1>5, <2>3, <2>4 DEF Retry
  <2> QED
    BY <1>5, <2>1, <2>5 DEF Retry, Awake, chain
<1>6. CASE WriteLoose(i)
  <2>1. head # NoHead
    BY <1>6, HeadThere DEF WriteLoose
  <2>2. Row(0, 0) \in Rows
    BY DEF Row, Rows
  <2>3. rows' \in SUBSET Rows /\ born' \in Nat
    BY <1>6, <2>2 DEF WriteLoose
  <2>4. call' \in [Instances -> Calls]
    BY <1>6, Blank DEF WriteLoose
  <2> QED
    BY <1>6, <2>1, <2>3, <2>4 DEF WriteLoose, Awake
<1> QED
  BY <1>1, <1>2, <1>3, <1>4, <1>5, <1>6 DEF CallStep

\* What a tick writes about itself.
LEMMA JobTypes ==
  ASSUME Types, NEW i \in Instances
  PROVE  /\ job[i] \in Jobs
         /\ \A p \in {"idle", "purge", "delete", "verify", "checking", "report", "close"} :
              [job EXCEPT ![i].pc = p] \in [Instances -> Jobs]
         /\ [job EXCEPT ![i].pc = "verify", ![i].partial = TRUE] \in [Instances -> Jobs]
         /\ [job EXCEPT ![i] = NoJob] \in [Instances -> Jobs]
         /\ \A p \in {"idle", "purge", "delete", "verify", "checking", "report", "close"},
               n \in Nat : [NoJob EXCEPT !.pc = p, !.now = n] \in Jobs
<1>1. job \in [Instances -> Jobs] /\ job[i] \in Jobs
  BY DEF Types
<1>2. ASSUME NEW p \in {"idle", "purge", "delete", "verify", "checking", "report", "close"}
      PROVE  [job EXCEPT ![i].pc = p] \in [Instances -> Jobs]
  <2>1. [job[i] EXCEPT !.pc = p] \in Jobs
    BY <1>1 DEF Jobs
  <2>2. [job EXCEPT ![i].pc = p] = [job EXCEPT ![i] = [job[i] EXCEPT !.pc = p]]
    BY <1>1
  <2> QED
    BY <1>1, <2>1, <2>2
<1>3. [job EXCEPT ![i].pc = "verify", ![i].partial = TRUE] \in [Instances -> Jobs]
  <2>1. [job[i] EXCEPT !.pc = "verify", !.partial = TRUE] \in Jobs
    BY <1>1 DEF Jobs
  <2> QED
    BY <1>1, <2>1
<1>4. [job EXCEPT ![i] = NoJob] \in [Instances -> Jobs]
  BY <1>1, Blank
<1>5. \A p \in {"idle", "purge", "delete", "verify", "checking", "report", "close"},
        n \in Nat : [NoJob EXCEPT !.pc = p, !.now = n] \in Jobs
  BY DEF NoJob, Jobs
<1> QED
  BY <1>1, <1>2, <1>3, <1>4, <1>5

LEMMA BeginTypes ==
  ASSUME Types, NEW who \in Instances \cup {Nobody}, NEW from \in Nat, NEW to \in Nat,
         NEW tail \in BOOLEAN
  PROVE  Begin(who, from, to, tail) \in Checks
BY DEF Types, Begin, NoCheck, Checks, Statuses

\* The purge of one batch, read and deleted.
LEMMA PurgeTypes ==
  ASSUME Types, Awake, NEW i \in Instances,
         PurgeLoose(i) \/ PurgeRead(i) \/ PurgeDelete(i)
  PROVE  Types' /\ Awake'
<1> USE DEF Types
<1>0. job[i] \in Jobs /\ head # NoHead
  BY HeadThere DEF PurgeLoose, PurgeRead, PurgeDelete
<1>1. CASE PurgeLoose(i)
  <2>1. rows' \in SUBSET Rows
    BY <1>1 DEF PurgeLoose
  <2> QED
    BY <1>0, <1>1, <2>1 DEF PurgeLoose, Awake
<1>2. CASE PurgeRead(i)
  <2>1. CASE job' = [job EXCEPT ![i].pc = "verify"]
    <3>1. job' \in [Instances -> Jobs]
      BY <2>1, JobTypes
    <3> QED
      BY <1>0, <1>2, <3>1 DEF PurgeRead, Awake, chain
  <2>2. CASE \E f, l \in Expired(job[i].now) :
               job' = [job EXCEPT ![i].pc = "delete", ![i].first = f.seq,
                                  ![i].last = l.seq, ![i].hash = l.hash]
    <3>1. PICK f \in Rows, l \in Rows :
               job' = [job EXCEPT ![i].pc = "delete", ![i].first = f.seq,
                                  ![i].last = l.seq, ![i].hash = l.hash]
      BY <2>2 DEF Expired, Chained
    <3>2. [job[i] EXCEPT !.pc = "delete", !.first = f.seq, !.last = l.seq,
                         !.hash = l.hash] \in Jobs
      BY <1>0 DEF Jobs, Rows
    <3>3. job' = [job EXCEPT ![i] = [job[i] EXCEPT !.pc = "delete", !.first = f.seq,
                                                   !.last = l.seq, !.hash = l.hash]]
      BY <3>1
    <3>4. job' \in [Instances -> Jobs]
      BY <3>2, <3>3
    <3> QED
      BY <1>0, <1>2, <3>4 DEF PurgeRead, Awake, chain
  <2> QED
    BY <1>2, <2>1, <2>2 DEF PurgeRead
<1>3. CASE PurgeDelete(i)
  <2>1. rows' \in SUBSET Rows
    BY <1>3 DEF PurgeDelete
  <2>2. [seq |-> job[i].last, hash |-> job[i].hash] \in Link
    BY <1>0 DEF Jobs, Link
  <2>3. anchor' \in Link \cup {NoAnchor}
    BY <1>3, <2>2 DEF PurgeDelete
  <2>4. job[i].now \in Nat
    BY <1>0 DEF Jobs
  <2>5. /\ [NoJob EXCEPT !.pc = "verify", !.now = job[i].now] \in Jobs
        /\ [NoJob EXCEPT !.pc = "purge", !.now = job[i].now] \in Jobs
    BY <2>4, JobTypes
  <2>6. \E p \in {"verify", "purge"} :
          job' = [job EXCEPT ![i] = [NoJob EXCEPT !.pc = p, !.now = job[i].now]]
    BY <1>3 DEF PurgeDelete
  <2>7. job' \in [Instances -> Jobs]
    BY <2>5, <2>6
  <2>8. [check EXCEPT !.quiet = check.pc = "idle"] \in Checks
    BY DEF Checks
  <2>9. check' \in Checks
    BY <1>3, <2>8 DEF PurgeDelete
  <2> QED
    BY <1>0, <1>3, <2>1, <2>3, <2>7, <2>9 DEF PurgeDelete, Awake
<1> QED
  BY <1>1, <1>2, <1>3

\* The rest of a tick of the retention job.
LEMMA TickTypes ==
  ASSUME Types, Awake, NEW i \in Instances,
         Tick(i) \/ Weekly(i) \/ Checked(i) \/ Report(i) \/ Close(i)
         \/ Interrupt(i) \/ Abort(i) \/ Crash(i)
  PROVE  Types' /\ Awake'
<1> USE DEF Types
<1>0. job[i] \in Jobs /\ job[i].now \in Nat
  BY DEF Jobs
<1>1. head # NoHead
  BY HeadThere
     DEF Tick, Weekly, Checked, Report, Close, Interrupt, Abort, Crash
<1>2. head' = head => Awake'
  BY <1>1 DEF Awake
<1>3. CASE Tick(i)
  <2>1. [by |-> i, at |-> clock] \in [by : Instances, at : Nat]
    OBVIOUS
  <2>2. [NoJob EXCEPT !.pc = "purge", !.now = clock] \in Jobs
    BY JobTypes
  <2>3. job' \in [Instances -> Jobs] /\ lease' \in [by : Instances, at : Nat]
    BY <1>3, <2>1, <2>2 DEF Tick
  <2> QED
    BY <1>2, <1>3, <2>3 DEF Tick, chain
<1>4. CASE Weekly(i)
  <2>1. job' \in [Instances -> Jobs]
    <3>1. \/ job' = [job EXCEPT ![i].pc = "report"]
          \/ job' = [job EXCEPT ![i].pc = "checking"]
      BY <1>4 DEF Weekly
    <3>2. /\ [job EXCEPT ![i].pc = "report"] \in [Instances -> Jobs]
          /\ [job EXCEPT ![i].pc = "checking"] \in [Instances -> Jobs]
      BY JobTypes
    <3> QED
      BY <3>1, <3>2
  <2>2. CASE UNCHANGED <<check, budget>>
    BY <1>2, <1>4, <2>1, <2>2 DEF Weekly, chain
  <2>3. CASE ~ UNCHANGED <<check, budget>>
    <3>1. budget' \in Budgets
      BY <1>4, <2>3, BudgetTypes DEF Weekly
    <3> DEFINE now == job[i].now
               from == IF now > Span THEN now - Span ELSE 0
    <3>2. from \in Nat /\ now \in Nat
      BY <1>0, Constants1
    <3>3. check' = Begin(i, from, now, TRUE)
      BY <1>4, <2>3 DEF Weekly
    <3> HIDE DEF from, now
    <3>4. check' \in Checks
      BY <3>2, <3>3, BeginTypes
    <3> QED
      BY <1>2, <1>4, <2>1, <3>1, <3>4 DEF Weekly, chain
  <2> QED
    BY <2>2, <2>3
<1>5. CASE Checked(i)
  <2>1. job' \in [Instances -> Jobs] /\ check' \in Checks
    BY <1>5, JobTypes, Blank DEF Checked
  <2> QED
    BY <1>2, <1>5, <2>1 DEF Checked, chain
<1>6. CASE Report(i)
  <2>1. [Idle EXCEPT !.pc = "read", !.tries = 1] \in Calls
    BY DEF Idle, Calls, Link
  <2>2. call' \in [Instances -> Calls] /\ job' \in [Instances -> Jobs]
    BY <1>6, <2>1, JobTypes DEF Report, Enter
  <2> QED
    BY <1>2, <1>6, <2>2 DEF Report, chain
<1>7. CASE Close(i)
  <2>1. job' \in [Instances -> Jobs]
    BY <1>7, JobTypes DEF Close
  <2>2. doneDay' \in Nat
    BY <1>0, <1>7 DEF Close
  <2>3. lease' \in [by : Instances, at : Nat] \cup {NoLease}
    BY <1>7 DEF Close
  <2> QED
    BY <1>2, <1>7, <2>1, <2>2, <2>3 DEF Close, chain
<1>8. CASE Interrupt(i)
  <2>1. job' \in [Instances -> Jobs] /\ budget' \in Budgets
    BY <1>8, JobTypes, BudgetTypes DEF Interrupt
  <2> QED
    BY <1>2, <1>8, <2>1 DEF Interrupt, chain
<1>9. CASE Abort(i)
  <2>1. job' \in [Instances -> Jobs] /\ budget' \in Budgets
    BY <1>9, JobTypes, BudgetTypes DEF Abort
  <2>2. lease' \in [by : Instances, at : Nat] \cup {NoLease}
    BY <1>9 DEF Abort
  <2> QED
    BY <1>2, <1>9, <2>1, <2>2 DEF Abort, chain
<1>10. CASE Crash(i)
  <2>1. job' \in [Instances -> Jobs] /\ budget' \in Budgets
    BY <1>10, JobTypes, BudgetTypes DEF Crash
  <2>2. call' \in [Instances -> Calls] /\ check' \in Checks
    BY <1>10, Blank DEF Crash
  <2> QED
    BY <1>2, <1>10, <2>1, <2>2 DEF Crash, chain
<1> QED
  BY <1>3, <1>4, <1>5, <1>6, <1>7, <1>8, <1>9, <1>10

\* What an answer writes.
LEMMA VerdictTypes ==
  ASSUME Types, NEW s \in Statuses, Verdict(s)
  PROVE  check' \in Checks
<1>1. check \in Checks
  BY DEF Types
<1> QED
  BY <1>1 DEF Verdict, NoCheck, Checks

LEMMA WalkTypes ==
  ASSUME Types, NEW h \in Nat, Walk(h)
  PROVE  check' \in Checks
<1>1. check \in Checks
  BY DEF Types
<1> QED
  BY <1>1 DEF Walk, Checks

LEMMA CheckTypes ==
  ASSUME Types, Awake, CheckStep, head # NoHead
  PROVE  Types' /\ Awake'
<1> USE DEF Types
<1>0. check \in Checks /\ head \in Link
  OBVIOUS
<1>1. CASE CheckHead
  <2>1. [check EXCEPT !.pc = "range", !.tip = head.seq] \in Checks
    BY <1>0 DEF Checks, Link
  <2>2. check' \in Checks
    BY <1>1, <2>1 DEF CheckHead
  <2> QED
    BY <2>2 DEF CheckStep, Awake, chain
<1>2. CASE CheckRange
  <2>1. CASE Verdict("EMPTY")
    BY <2>1, VerdictTypes DEF Statuses, CheckStep, Awake, chain
  <2>2. CASE ~ Verdict("EMPTY")
    <3>1. PICK f \in Rows, l \in Rows :
               check' = [check EXCEPT !.pc = "start", !.lo = f.seq, !.hi = l.seq,
                                      !.from = 0, !.to = 0]
      BY <1>2, <2>2 DEF CheckRange, Chained
    <3>2. [check EXCEPT !.pc = "start", !.lo = f.seq, !.hi = l.seq,
                        !.from = 0, !.to = 0] \in Checks
      BY <1>0 DEF Checks, Rows
    <3> QED
      BY <3>1, <3>2 DEF CheckStep, Awake, chain
  <2> QED
    BY <2>1, <2>2
<1>3. CASE CheckStart
  <2>1. CASE check' = [check EXCEPT !.pc = "anchor"]
    <3>1. check' \in Checks
      BY <1>0, <2>1 DEF Checks
    <3> QED
      BY <3>1 DEF CheckStep, Awake, chain
  <2>2. CASE Verdict("ANCHOR_MISSING")
    BY <2>2, VerdictTypes DEF Statuses, CheckStep, Awake, chain
  <2>3. CASE \E h \in Nat : Walk(h)
    BY <2>3, WalkTypes DEF CheckStep, Awake, chain
  <2>4. \A r \in Chained : r.hash \in Nat
    BY DEF Chained, Rows
  <2> QED
    BY <1>3, <2>1, <2>2, <2>3, <2>4 DEF CheckStart, GENESIS_HASH
<1>4. CASE CheckAnchor
  <2>1. CASE Verdict("ANCHOR_MISSING")
    BY <2>1, VerdictTypes DEF Statuses, CheckStep, Awake, chain
  <2>2. CASE ~ Verdict("ANCHOR_MISSING")
    <3>1. anchor # NoAnchor /\ Walk(anchor.hash)
      BY <1>4, <2>2 DEF CheckAnchor, AnchorFor
    <3>2. anchor.hash \in Nat
      BY <3>1 DEF Link
    <3> QED
      BY <3>1, <3>2, WalkTypes DEF CheckStep, Awake, chain
  <2> QED
    BY <2>1, <2>2
<1>5. CASE CheckRow
  <2>1. CASE \E s \in Statuses : Verdict(s)
    BY <2>1, VerdictTypes DEF CheckStep, Awake, chain
  <2>2. CASE ~ \E s \in Statuses : Verdict(s)
    <3>1. {"TAIL_MISSING", "OK", "SEQ_GAP", "HASH_MISMATCH"} \subseteq Statuses
      BY DEF Statuses
    <3>2. PICK r \in Rows : check' = [check EXCEPT !.at = r.seq, !.prev = r.hash]
      BY <1>5, <2>2, <3>1 DEF CheckRow, Chained
    <3>3. [check EXCEPT !.at = r.seq, !.prev = r.hash] \in Checks
      BY <1>0 DEF Checks, Rows
    <3> QED
      BY <3>2, <3>3 DEF CheckStep, Awake, chain
  <2> QED
    BY <2>1, <2>2
<1> QED
  BY <1>1, <1>2, <1>3, <1>4, <1>5 DEF CheckStep

LEMMA OtherTypes ==
  ASSUME Types, Awake, Manual \/ Answer \/ Advance \/ Damage
  PROVE  Types' /\ Awake'
<1> USE DEF Types
<1>1. CASE Manual
  <2>1. PICK to \in Nat, tail \in BOOLEAN, from \in Nat :
             check' = Begin(Nobody, from, to, tail)
    BY <1>1 DEF Manual
  <2>3. check' \in Checks
    BY <2>1, BeginTypes
  <2>4. budget' \in Budgets
    BY <1>1, BudgetTypes DEF Manual
  <2> QED
    BY <1>1, <2>3, <2>4 DEF Manual, Awake, chain
<1>2. CASE Answer
  BY <1>2, Blank DEF Answer, Awake, chain
<1>3. CASE Advance
  BY <1>3 DEF Advance, Awake, chain
<1>4. CASE Damage
  <2>1. budget' \in Budgets
    BY <1>4, BudgetTypes DEF Damage
  <2>2. PICK r \in Chained :
          /\ damaged' = damaged \cup {r.seq}
          /\ \E new \in {{}, {[r EXCEPT !.sound = FALSE]}} : rows' = (rows \ {r}) \cup new
    BY <1>4 DEF Damage
  <2>3. r \in Rows
    BY DEF Chained
  <2>4. [r EXCEPT !.sound = FALSE] \in Rows /\ r.seq \in Nat
    BY <2>3 DEF Rows
  <2>5. rows' \in SUBSET Rows /\ damaged' \subseteq Nat
    BY <2>2, <2>4
  <2> QED
    BY <1>4, <2>1, <2>5 DEF Damage, Awake
<1> QED
  BY <1>1, <1>2, <1>3, <1>4

\* A verification is under way only once there is a head.
Watching == check.pc # "idle" => head # NoHead

LEMMA NextWatching ==
  ASSUME Types, Awake, Watching, Next
  PROVE  Watching'
<1> USE DEF Types
<1>1. CASE head # NoHead
  <2>1. CASE \E i \in Instances : Commit(i)
    <3>1. PICK i \in Instances : Commit(i)
      BY <2>1
    <3>2. call[i].pc # "off" /\ call[i] \in Calls
      BY <3>1 DEF Commit
    <3>3. Types' /\ head' = [seq |-> call[i].seen.seq + 1, hash |-> born + 1]
      BY <3>1, CallTypes DEF CallStep, Commit, Row
    <3>4. head' \in Link
      BY <3>2, <3>3 DEF Link, Calls
    <3> QED
      BY <3>4, Constants1 DEF Watching
  <2>2. CASE \E i \in Instances : Boot(i)
    BY <1>1, <2>2 DEF Boot, EnsuredHead, Watching
  <2>3. CASE UNCHANGED head
    BY <1>1, <2>3 DEF Watching
  <2>4. \/ \E i \in Instances : Commit(i)
        \/ \E i \in Instances : Boot(i)
        \/ UNCHANGED head
    BY ZenonT(60) DEF Next, Record, CallStep, ReadHead, Retry, WriteLoose, Tick,
           JobStep, PurgeLoose, PurgeRead, PurgeDelete, Weekly, Checked, Report, Close,
           Interrupt, Abort, Crash, Manual, Answer, CheckStep, Advance, Damage, chain
  <2> QED
    BY <2>1, <2>2, <2>3, <2>4
<1>2. CASE head = NoHead
  <2>1. \A i \in Instances : call[i].pc = "off" /\ job[i].pc = "idle"
    BY <1>2 DEF Awake
  <2>2. check.pc = "idle"
    BY <1>2 DEF Watching
  <2>3. UNCHANGED check
    BY ZenonT(60), <2>1, <2>2
       DEF Next, Boot, Record, CallStep, ReadHead, Commit, Retry, WriteLoose, Tick,
           JobStep, PurgeLoose, PurgeRead, PurgeDelete, Weekly, Checked, Report, Close,
           Interrupt, Abort, Crash, Manual, Answer, CheckStep, CheckHead, CheckRange,
           CheckStart, CheckAnchor, CheckRow, Advance, Damage
  <2> QED
    BY <2>2, <2>3 DEF Watching
<1> QED
  BY <1>1, <1>2

LEMMA TypeStep ==
  ASSUME TypeOK, Watching, [Next]_vars
  PROVE  TypeOK' /\ Watching'
<1>1. Types /\ Awake
  BY TypeParts
<1>2. CASE UNCHANGED vars
  BY <1>2 DEF vars, TypeOK, Watching
<1>3. CASE Next
  <2>1. Types' /\ Awake'
    <3>1. CASE \E i \in Instances : Boot(i) \/ Record(i) \/ CallStep(i)
      BY <1>1, <3>1, CallTypes
    <3>2. CASE \E i \in Instances : PurgeLoose(i) \/ PurgeRead(i) \/ PurgeDelete(i)
      BY <1>1, <3>2, PurgeTypes
    <3>3. CASE \E i \in Instances :
                 Tick(i) \/ Weekly(i) \/ Checked(i) \/ Report(i) \/ Close(i)
                 \/ Interrupt(i) \/ Abort(i) \/ Crash(i)
      BY <1>1, <3>3, TickTypes
    <3>4. CASE CheckStep
      <4>1. check.pc # "idle"
        BY <3>4 DEF CheckStep, CheckHead, CheckRange, CheckStart, CheckAnchor, CheckRow
      <4>2. head # NoHead
        BY <4>1 DEF Watching
      <4> QED
        BY <1>1, <3>4, <4>2, CheckTypes
    <3>5. CASE Manual \/ Answer \/ Advance \/ Damage
      BY <1>1, <3>5, OtherTypes
    <3> QED
      BY <1>3, <3>1, <3>2, <3>3, <3>4, <3>5 DEF Next, JobStep
  <2>2. Watching'
    BY <1>1, <1>3, NextWatching
  <2>3. TypeOK'
    BY <2>1, TypeParts DEF TypeOK, Types, Awake, Calls, Jobs, Checks, Rows, Budgets
  <2> QED
    BY <2>2, <2>3
<1> QED
  BY <1>2, <1>3

\* Every reachable state is well typed, and nobody works before there is a chain.
THEOREM AuditTypes == Spec => []TypeOK
<1>1. Init => TypeOK /\ Watching
  BY TypeInit DEF Init, Watching, NoCheck
<1>2. TypeOK /\ Watching /\ [Next]_vars => (TypeOK /\ Watching)'
  BY TypeStep
<1> QED
  BY <1>1, <1>2, PTL DEF Spec

-----------------------------------------------------------------------------
(* The chain.  A link (q, h) fits when no row can tell it from the row with  *)
(* number q: it is the head or older, its successor carries its hash and     *)
(* every later row a greater one.  Whatever was once read from the chain     *)
(* fits for ever, which is what the stale reads of this code rely on.        *)

Fits(q, h) ==
  /\ q <= head.seq
  /\ q = head.seq => h = head.hash
  /\ q < head.seq => h < head.hash
  /\ \A s \in Chained : /\ s.seq = q + 1 => s.prev = h
                        /\ s.seq > q + 1 => s.prev > h

Links ==
  /\ head.hash <= born
  /\ Fits(0, GENESIS_HASH)
  /\ \A r \in Chained : Fits(r.seq, r.hash)
  /\ anchor # NoAnchor => Fits(anchor.seq, anchor.hash)

Alone == \A r, s \in Chained : r.seq = s.seq => r = s

\* What a call has read.
SeenFits(i) ==
  call[i].pc = "commit" => Fits(call[i].seen.seq, call[i].seen.hash)

\* What the job has read: it starts at the first row there is.
BatchFits(i) ==
  job[i].pc = "delete" =>
    /\ Fits(job[i].last, job[i].hash)
    /\ 1 <= job[i].first /\ job[i].first <= job[i].last
    /\ \A r \in Chained : job[i].first <= r.seq

\* What a verification has read.
WalkFits ==
  /\ check.pc # "done" => check.status = "NONE"
  /\ check.pc \notin {"rows", "done"} => check.at = 0
  /\ check.pc \in {"start", "anchor", "rows"} => check.lo >= 1
  /\ check.pc = "rows" =>
       /\ check.at > 0 => check.lo <= check.at
       /\ Fits(IF check.at = 0 THEN check.lo - 1 ELSE check.at, check.prev)

\* Without damage no row is missing between a row and the head.
Dense ==
  damaged = {} =>
    \A r \in Chained, n \in Nat :
      r.seq <= n /\ n <= head.seq => \E s \in Chained : s.seq = n

Linked ==
  /\ Links /\ Alone /\ Dense /\ WalkFits
  /\ \A i \in Instances : SeenFits(i) /\ BatchFits(i)

\* Before the first start there is nothing.
Bare == rows = {} /\ anchor = NoAnchor /\ damaged = {} /\ ~ genesis /\ check = NoCheck

ChainInv ==
  /\ TypeOK /\ Watching
  /\ head = NoHead => Bare
  /\ head # NoHead => genesis /\ Linked

\* No row of the chain is new, and none is changed but in its content.
Shrinks ==
  /\ head' = head /\ born' \in Nat /\ born <= born'
  /\ \A s \in Chained' : \E t \in Chained :
       /\ t.seq = s.seq /\ t.prev = s.prev /\ t.hash = s.hash /\ t.at = s.at
       /\ s.sound => t.sound

\* Row r is put behind the head.
Appends(r) ==
  /\ r \in Rows /\ r.seq = head.seq + 1 /\ r.prev = head.hash /\ r.hash = born + 1
  /\ r.sound
  /\ head' = [seq |-> r.seq, hash |-> r.hash]
  /\ born' = born + 1
  /\ Chained' = Chained \cup {r}
  /\ UNCHANGED <<damaged, anchor, job, check, genesis>>

LEMMA ChainedTypes ==
  ASSUME Types
  PROVE  \A r \in Chained : r \in Rows /\ r \in rows /\ r.seq \in Nat /\ r.seq > 0
                            /\ r.prev \in Nat /\ r.hash \in Nat /\ r.at \in Nat
                            /\ r.sound \in BOOLEAN
BY DEF Types, Chained, Rows

LEMMA ChainedSame ==
  ASSUME UNCHANGED rows
  PROVE  Chained' = Chained
BY DEF Chained

\* How a step changes the chain.
LEMMA Moves ==
  ASSUME Types, head # NoHead, Linked, Next
  PROVE  Shrinks \/ \E r \in Rows : Appends(r)
<1>0. head \in Link /\ born \in Nat /\ head.seq \in Nat /\ head.hash \in Nat
  BY DEF Types, Link
<1>1. CASE UNCHANGED <<head, rows, born>>
  BY <1>0, <1>1, ChainedSame DEF Shrinks
<1>2. CASE \E i \in Instances : Boot(i)
  BY <1>0, <1>2, ChainedSame DEF Boot, EnsuredHead, Shrinks
<1>3. ASSUME NEW i \in Instances, Commit(i)
      PROVE  \E r \in Rows : Appends(r)
  <2> DEFINE r == Row(call[i].seen.seq + 1, call[i].seen.hash)
  <2>1. call[i].seen \in Link /\ call[i].seen.seq = head.seq
    BY <1>3 DEF Commit, HeadUnmoved, Types, Calls
  <2>2. call[i].seen.hash = head.hash
    BY <1>3, <2>1 DEF Commit, Linked, SeenFits, Fits
  <2>3. /\ r.seq = head.seq + 1 /\ r.prev = head.hash /\ r.hash = born + 1
        /\ r.sound /\ r \in Rows
    BY <1>0, <2>1, <2>2 DEF Row, Rows, Types
  <2>4. /\ head' = [seq |-> r.seq, hash |-> r.hash] /\ rows' = rows \cup {r}
        /\ born' = born + 1 /\ UNCHANGED <<damaged, anchor, job, check, genesis>>
    BY <1>3 DEF Commit
  <2> HIDE DEF r
  <2>5. Chained' = Chained \cup {r}
    BY <1>0, <2>3, <2>4 DEF Chained
  <2> QED
    BY <2>3, <2>4, <2>5 DEF Appends
<1>4. ASSUME NEW i \in Instances, WriteLoose(i)
      PROVE  Shrinks
  <2>1. head' = head /\ born' \in Nat /\ born <= born'
    BY <1>0, <1>4 DEF WriteLoose
  <2>2. Row(0, 0).seq = 0
    BY DEF Row
  <2>3. rows' \subseteq rows \cup {Row(0, 0)}
    BY <1>4 DEF WriteLoose
  <2>4. Chained' \subseteq Chained
    BY <2>2, <2>3 DEF Chained
  <2> QED
    BY <2>1, <2>4 DEF Shrinks
<1>5. ASSUME NEW i \in Instances, PurgeLoose(i) \/ PurgeDelete(i)
      PROVE  Shrinks
  <2>1. rows' \subseteq rows /\ head' = head /\ born' = born
    BY <1>5 DEF PurgeLoose, PurgeDelete
  <2>2. Chained' \subseteq Chained
    BY <2>1 DEF Chained
  <2> QED
    BY <1>0, <2>1, <2>2 DEF Shrinks
<1>6. CASE Damage
  <2>1. PICK t \in Chained :
          \E new \in {{}, {[t EXCEPT !.sound = FALSE]}} : rows' = (rows \ {t}) \cup new
    BY <1>6 DEF Damage
  <2> DEFINE u == [t EXCEPT !.sound = FALSE]
  <2>2. t \in Rows
    BY ChainedTypes
  <2>3. u.seq = t.seq /\ u.prev = t.prev /\ u.hash = t.hash /\ u.at = t.at /\ ~ u.sound
    BY <2>2 DEF Rows
  <2>4. rows' \subseteq rows \cup {u}
    BY <2>1
  <2>5. head' = head /\ born' = born
    BY <1>6 DEF Damage
  <2> HIDE DEF u
  <2>6. ASSUME NEW s \in Chained'
        PROVE  \E v \in Chained :
                 /\ v.seq = s.seq /\ v.prev = s.prev /\ v.hash = s.hash /\ v.at = s.at
                 /\ s.sound => v.sound
    <3>1. s \in rows' /\ s.seq > 0
      BY <2>6 DEF Chained
    <3>2. CASE s = u
      BY <2>3, <3>2
    <3>3. CASE s # u
      BY <2>4, <3>1, <3>3 DEF Chained
    <3> QED
      BY <3>2, <3>3
  <2> QED
    BY <1>0, <2>5, <2>6 DEF Shrinks
<1> QED
  BY ZenonT(60), <1>1, <1>2, <1>3, <1>4, <1>5, <1>6
  DEF Next, Record, CallStep, ReadHead, Retry, Tick, JobStep, PurgeRead, Weekly, Checked,
      Report, Close, Interrupt, Abort, Crash, Manual, Answer, CheckStep, Advance, chain

\* What fits keeps fitting.
LEMMA FitsKept ==
  ASSUME Types, head # NoHead, Links, Shrinks \/ \E r \in Rows : Appends(r),
         NEW q \in Nat, NEW h \in Nat, Fits(q, h)
  PROVE  Fits(q, h)'
<1>0. head.seq \in Nat /\ head.hash \in Nat /\ born \in Nat
  BY DEF Types, Link
<1>1. CASE Shrinks
  <2>1. ASSUME NEW s \in Chained'
        PROVE  (s.seq = q + 1 => s.prev = h) /\ (s.seq > q + 1 => s.prev > h)
    <3>1. PICK t \in Chained : t.seq = s.seq /\ t.prev = s.prev
      BY <1>1 DEF Shrinks
    <3> QED
      BY <3>1 DEF Fits
  <2> QED
    BY <1>1, <2>1 DEF Fits, Shrinks
<1>2. ASSUME NEW r \in Rows, Appends(r) PROVE Fits(q, h)'
  <2>1. /\ head'.seq = head.seq + 1 /\ head'.hash = born + 1
        /\ r.seq = head.seq + 1 /\ r.prev = head.hash
    BY <1>0, <1>2 DEF Appends
  <2>2. q <= head.seq /\ h <= head.hash /\ head.hash <= born
    BY <1>0 DEF Fits, Links
  <2>3. q <= head'.seq /\ q # head'.seq /\ h < head'.hash
    BY <1>0, <2>1, <2>2
  <2>4. ASSUME NEW s \in Chained'
        PROVE  (s.seq = q + 1 => s.prev = h) /\ (s.seq > q + 1 => s.prev > h)
    <3>1. CASE s \in Chained
      BY <3>1 DEF Fits
    <3>2. CASE s = r
      BY <1>0, <2>1, <3>2 DEF Fits
    <3> QED
      BY <1>2, <3>1, <3>2 DEF Appends
  <2> QED
    BY <2>3, <2>4 DEF Fits
<1> QED
  BY <1>1, <1>2

\* No row is ahead of the head.
LEMMA Behind ==
  ASSUME Types, head # NoHead, Links
  PROVE  /\ \A r \in Chained : r.seq <= head.seq
         /\ head.seq \in Nat /\ head.hash \in Nat /\ born \in Nat
BY DEF Links, Fits, Types, Link

\* A new row fits.
LEMMA NewFits ==
  ASSUME Types, head # NoHead, Links, NEW r \in Rows, Appends(r)
  PROVE  Fits(r.seq, r.hash)'
<1>1. \A s \in Chained : s.seq <= head.seq
  BY Behind
<1>2. /\ head'.seq = head.seq + 1 /\ head'.hash = r.hash /\ r.seq = head.seq + 1
      /\ Chained' = Chained \cup {r}
  BY <1>1 DEF Appends
<1>3. \A s \in Chained' : s.seq <= r.seq
  BY <1>1, <1>2, Behind, ChainedTypes
<1>4. \A s \in Chained' : s.seq \in Nat
  BY <1>2, ChainedTypes DEF Rows
<1> QED
  BY <1>2, <1>3, <1>4, Behind DEF Fits

LEMMA LinksKept ==
  ASSUME Types, head # NoHead, Linked, Next
  PROVE  Links'
<1>0. Links /\ (Shrinks \/ \E r \in Rows : Appends(r))
  BY Moves DEF Linked
<1>1. head.hash \in Nat /\ born \in Nat /\ born' \in Nat /\ head'.hash <= born'
  BY <1>0, Behind DEF Shrinks, Appends, Links
<1>2. Fits(0, GENESIS_HASH)'
  BY <1>0, FitsKept DEF Links, GENESIS_HASH
<1>3. ASSUME NEW s \in Chained' PROVE Fits(s.seq, s.hash)'
  <2> DEFINE q == s.seq
             h == s.hash
  <2>1. CASE \E t \in Chained : t.seq = s.seq /\ t.hash = s.hash
    <3>1. PICK t \in Chained : t.seq = s.seq /\ t.hash = s.hash
      BY <2>1
    <3>2. PICK k \in Nat, g \in Nat : k = t.seq /\ g = t.hash
      BY ChainedTypes
    <3>3. Fits(k, g)
      BY <1>0, <3>2 DEF Links
    <3>4. Fits(k, g)'
      BY <1>0, <3>3, FitsKept
    <3> QED
      BY <3>1, <3>2, <3>4
  <2>2. ASSUME NEW r \in Rows, Appends(r), s = r PROVE Fits(s.seq, s.hash)'
    BY <1>0, <2>2, NewFits
  <2> QED
    BY <1>0, <2>1, <2>2 DEF Shrinks, Appends
<1>4. ASSUME anchor' # NoAnchor PROVE Fits(anchor.seq, anchor.hash)'
  <2>1. CASE anchor' = anchor
    <3>1. PICK k \in Nat, g \in Nat : k = anchor.seq /\ g = anchor.hash
      BY <1>4, <2>1 DEF Types, Link
    <3>2. Fits(k, g)
      BY <1>0, <1>4, <2>1, <3>1 DEF Links
    <3>3. Fits(k, g)'
      BY <1>0, <3>2, FitsKept
    <3> QED
      BY <2>1, <3>1, <3>3 DEF Fits
  <2>2. ASSUME NEW i \in Instances, PurgeDelete(i) PROVE Fits(anchor.seq, anchor.hash)'
    <3>1. PICK k \in Nat, g \in Nat : k = job[i].last /\ g = job[i].hash
      BY <2>2 DEF Types, Jobs
    <3>2. Fits(k, g)
      BY <2>2, <3>1 DEF PurgeDelete, Linked, BatchFits
    <3>3. Fits(k, g)'
      BY <1>0, <3>2, FitsKept
    <3>4. anchor' = [seq |-> k, hash |-> g]
      BY <2>2, <3>1 DEF PurgeDelete
    <3> QED
      BY <3>3, <3>4 DEF Fits
  <2> QED
    BY ZenonT(60), <2>1, <2>2
    DEF Next, Boot, Record, CallStep, ReadHead, Commit, Retry, WriteLoose, Tick, JobStep,
        PurgeLoose, PurgeRead, Weekly, Checked, Report, Close, Interrupt, Abort, Crash,
        Manual, Answer, CheckStep, Advance, Damage, chain
<1> QED
  BY <1>1, <1>2, <1>3, <1>4 DEF Links

\* Rows of the same number.
LEMMA AloneKept ==
  ASSUME Types, head # NoHead, Linked, Next
  PROVE  Alone'
<1>0. Links /\ Alone
  BY DEF Linked
<1>1. CASE \E r \in Rows : Appends(r)
  BY <1>0, <1>1, Behind, ChainedTypes DEF Appends, Alone
<1>2. CASE Damage
  <2>1. PICK t \in Chained :
          \E new \in {{}, {[t EXCEPT !.sound = FALSE]}} : rows' = (rows \ {t}) \cup new
    BY <1>2 DEF Damage
  <2> DEFINE u == [t EXCEPT !.sound = FALSE]
  <2>2. t \in Rows /\ u.seq = t.seq
    BY ChainedTypes DEF Rows
  <2>3. \A s \in Chained' : s = u \/ (s \in Chained /\ s # t)
    BY <2>1 DEF Chained
  <2> HIDE DEF u
  <2> QED
    BY <1>0, <2>2, <2>3 DEF Alone
<1>3. CASE Chained' \subseteq Chained
  BY <1>0, <1>3 DEF Alone
<1>4. \/ \E i \in Instances : Commit(i)
      \/ Damage
      \/ rows' \subseteq rows
      \/ \E i \in Instances : WriteLoose(i)
  BY ZenonT(60) DEF Next, Boot, Record, CallStep, ReadHead, Retry, Tick, JobStep, PurgeLoose, PurgeRead,
         PurgeDelete, Weekly, Checked, Report, Close, Interrupt, Abort, Crash, Manual,
         Answer, CheckStep, Advance, chain
<1>5. rows' \subseteq rows => Chained' \subseteq Chained
  BY DEF Chained
<1>6. ASSUME NEW i \in Instances, WriteLoose(i) PROVE Chained' \subseteq Chained
  <2>1. Row(0, 0).seq = 0 /\ rows' \subseteq rows \cup {Row(0, 0)}
    BY <1>6 DEF Row, WriteLoose
  <2> QED
    BY <2>1 DEF Chained
<1>7. ASSUME NEW i \in Instances, Commit(i) PROVE Alone'
  <2>1. Shrinks => head'.seq = head.seq
    BY DEF Shrinks
  <2>2. head'.seq = head.seq + 1
    BY <1>7 DEF Commit, HeadUnmoved, Row
  <2>3. \E r \in Rows : Appends(r)
    BY <1>0, <2>1, <2>2, Behind, Moves
  <2> QED
    BY <1>1, <2>3
<1> QED
  BY <1>2, <1>3, <1>4, <1>5, <1>6, <1>7

\* What a call has read.
LEMMA SeenKept ==
  ASSUME Types, head # NoHead, Linked, Next, NEW j \in Instances
  PROVE  SeenFits(j)'
<1>0. Links /\ (Shrinks \/ \E r \in Rows : Appends(r)) /\ SeenFits(j)
  BY Moves DEF Linked
<1>1. CASE call'[j] = call[j]
  <2>1. PICK k \in Nat, g \in Nat : k = call[j].seen.seq /\ g = call[j].seen.hash
    BY DEF Types, Calls, Link
  <2>2. CASE call[j].pc = "commit"
    <3>1. Fits(k, g)
      BY <1>0, <2>1, <2>2 DEF SeenFits
    <3>2. Fits(k, g)'
      BY <1>0, <3>1, FitsKept
    <3> QED
      BY <1>1, <2>1, <3>2 DEF SeenFits, Fits
  <2> QED
    BY <1>1, <2>2 DEF SeenFits
<1>2. CASE ReadHead(j)
  <2>1. PICK k \in Nat, g \in Nat : k = head.seq /\ g = head.hash
    BY Behind, <1>0
  <2>2. Fits(k, g)
    BY <1>0, <2>1, Behind, ChainedTypes DEF Fits
  <2>3. Fits(k, g)'
    BY <1>0, <2>2, FitsKept
  <2>4. call'[j].seen = head
    BY <1>2 DEF ReadHead, Types, Calls
  <2>5. call'[j].seen.seq = k /\ call'[j].seen.hash = g
    BY <2>1, <2>4
  <2> QED
    BY <2>3, <2>5 DEF SeenFits, Fits
<1>3. CASE call'[j].pc # "commit"
  BY <1>3 DEF SeenFits
<1>4. call'[j] = call[j] \/ ReadHead(j) \/ call'[j].pc # "commit"
  <2>1. call \in [Instances -> Calls]
    BY DEF Types
  <2>2. \/ UNCHANGED call
        \/ \E i \in Instances : ReadHead(i)
        \/ \E i \in Instances, c \in Calls :
              c.pc # "commit" /\ call' = [call EXCEPT ![i] = c]
    <3>1. Idle \in Calls /\ Off \in Calls /\ Idle.pc = "idle" /\ Off.pc = "off"
      BY Blank
    <3>2. \A n \in Nat : /\ [Idle EXCEPT !.pc = "read", !.tries = n] \in Calls
                        /\ [Idle EXCEPT !.pc = "read", !.tries = n].pc = "read"
      BY Reading DEF Idle
    <3>3. [Idle EXCEPT !.pc = "loose"] \in Calls /\ [Idle EXCEPT !.pc = "loose"].pc = "loose"
      BY DEF Idle, Calls, Link
    <3>4. ASSUME NEW i \in Instances, Record(i) \/ Report(i)
          PROVE  \E c \in Calls : c.pc # "commit" /\ call' = [call EXCEPT ![i] = c]
      BY <3>2, <3>4 DEF Record, Report, Enter
    <3>5. ASSUME NEW i \in Instances, Retry(i)
          PROVE  \E c \in Calls : c.pc # "commit" /\ call' = [call EXCEPT ![i] = c]
      <4>1. call[i].tries + 1 \in Nat
        BY <2>1 DEF Calls
      <4>2. \/ call' = [call EXCEPT ![i] =
                          [Idle EXCEPT !.pc = "read", !.tries = call[i].tries + 1]]
            \/ call' = [call EXCEPT ![i] = [Idle EXCEPT !.pc = "loose"]]
        BY <3>5 DEF Retry
      <4> QED
        BY <3>2, <3>3, <4>1, <4>2
    <3>6. ASSUME NEW i \in Instances,
                 Boot(i) \/ Commit(i) \/ WriteLoose(i) \/ Crash(i)
          PROVE  \E c \in Calls : c.pc # "commit" /\ call' = [call EXCEPT ![i] = c]
      BY <3>1, <3>6 DEF Boot, Commit, WriteLoose, Crash
    <3> QED
      BY <3>4, <3>5, <3>6
      DEF Next, CallStep, Tick, JobStep, PurgeLoose, PurgeRead, PurgeDelete, Weekly,
          Checked, Close, Interrupt, Abort, Manual, Answer, CheckStep, Advance, Damage,
          chain
  <2>3. ASSUME NEW i \in Instances, ReadHead(i)
        PROVE  call'[j] = call[j] \/ ReadHead(j)
    BY <2>1, <2>3 DEF ReadHead
  <2> QED
    BY <2>1, <2>2, <2>3
<1> QED
  BY <1>1, <1>2, <1>3, <1>4

\* The oldest row to delete is the oldest there is.
LEMMA PurgeReads ==
  ASSUME Types, head # NoHead, Linked, NEW i \in Instances, PurgeRead(i)
  PROVE  \/ job' = [job EXCEPT ![i].pc = "verify"]
         \/ \E f, l \in Chained :
              /\ f.seq <= l.seq /\ \A r \in Chained : f.seq <= r.seq
              /\ job' = [job EXCEPT ![i].pc = "delete", ![i].first = f.seq,
                                    ![i].last = l.seq, ![i].hash = l.hash]
<1> DEFINE old == Expired(job[i].now)
<1>1. CASE old = {}
  BY <1>1 DEF PurgeRead
<1>2. CASE old # {}
  <2>1. PICK f \in old, l \in old :
          /\ UpTo(old, f) = {f}
          /\ job' = [job EXCEPT ![i].pc = "delete", ![i].first = f.seq,
                                ![i].last = l.seq, ![i].hash = l.hash]
    BY <1>2 DEF PurgeRead
  <2>2. old \subseteq Chained
    BY DEF Expired
  <2>3. \A r \in old : f.seq <= r.seq
    <3>1. \A r \in old : r.seq \in Nat
      BY <2>2, ChainedTypes
    <3>2. \A r \in old : r.seq <= f.seq => r = f
      BY <2>1 DEF UpTo
    <3> QED
      BY <3>1, <3>2
  <2>4. \A r \in Chained : f.seq <= r.seq
    <3>1. SUFFICES ASSUME NEW r \in Chained, r \notin old PROVE f.seq <= r.seq
      BY <2>3
    <3>2. PICK k \in Chained : ~ Old(k, job[i].now) /\ ~ (r.seq < k.seq)
      BY <3>1 DEF Expired
    <3>3. f.seq < k.seq
      BY <3>2 DEF Expired
    <3> QED
      BY <2>2, <3>2, <3>3, ChainedTypes
  <2> QED
    BY <2>1, <2>2, <2>3, <2>4
<1> QED
  BY <1>1, <1>2

\* Which steps set a batch.
LEMMA JobMoves ==
  ASSUME Types, Next, NEW j \in Instances
  PROVE  job'[j] = job[j] \/ PurgeRead(j) \/ job'[j].pc # "delete"
<1>1. job \in [Instances -> Jobs]
  BY DEF Types
<1>2. \/ UNCHANGED job
      \/ \E i \in Instances : PurgeRead(i)
      \/ \E i \in Instances, n \in Jobs :
           n.pc # "delete" /\ job' = [job EXCEPT ![i] = n]
  <2>1. NoJob \in Jobs /\ NoJob.pc = "idle"
    BY Blank
  <2>2. \A n \in Nat, p \in {"purge", "verify"} :
          /\ [NoJob EXCEPT !.pc = p, !.now = n] \in Jobs
          /\ [NoJob EXCEPT !.pc = p, !.now = n].pc = p
    BY DEF NoJob, Jobs
  <2>3. ASSUME NEW i \in Instances, Tick(i)
        PROVE  \E n \in Jobs : n.pc # "delete" /\ job' = [job EXCEPT ![i] = n]
    BY <2>2, <2>3 DEF Tick, Types
  <2>4. ASSUME NEW i \in Instances, PurgeDelete(i)
        PROVE  \E n \in Jobs :
                 n.pc # "delete" /\ job' = [job EXCEPT ![i] = n]
    <3>1. \E p \in {"purge", "verify"} :
            job' = [job EXCEPT ![i] = [NoJob EXCEPT !.pc = p, !.now = job[i].now]]
      BY <2>4 DEF PurgeDelete
    <3>2. job[i].now \in Nat
      BY <1>1 DEF Jobs
    <3> QED
      BY <2>2, <3>1, <3>2
  <2>5. ASSUME NEW i \in Instances, NEW p \in {"verify", "checking", "report", "close"},
               job' = [job EXCEPT ![i].pc = p]
        PROVE  \E n \in Jobs : n.pc # "delete" /\ job' = [job EXCEPT ![i] = n]
    <3>1. [job[i] EXCEPT !.pc = p] \in Jobs /\ [job[i] EXCEPT !.pc = p].pc = p
      BY <1>1 DEF Jobs
    <3>2. job' = [job EXCEPT ![i] = [job[i] EXCEPT !.pc = p]]
      BY <2>5
    <3> QED
      BY <3>1, <3>2
  <2>6. ASSUME NEW i \in Instances, Interrupt(i)
        PROVE  \E n \in Jobs : n.pc # "delete" /\ job' = [job EXCEPT ![i] = n]
    <3> DEFINE n == [job[i] EXCEPT !.pc = "verify", !.partial = TRUE]
    <3>1. n \in Jobs /\ n.pc = "verify"
      BY <1>1 DEF Jobs
    <3>2. job' = [job EXCEPT ![i] = n]
      BY <2>6 DEF Interrupt
    <3> QED
      BY <3>1, <3>2
  <2>7. ASSUME NEW i \in Instances, Abort(i) \/ Crash(i) \/ Close(i)
        PROVE  \E n \in Jobs : n.pc # "delete" /\ job' = [job EXCEPT ![i] = n]
    BY <2>1, <2>7 DEF Abort, Crash, Close
  <2>8. ASSUME NEW i \in Instances, Weekly(i) \/ Checked(i) \/ Report(i)
        PROVE  \E n \in Jobs : n.pc # "delete" /\ job' = [job EXCEPT ![i] = n]
    <3>1. \E p \in {"checking", "report", "close"} : job' = [job EXCEPT ![i].pc = p]
      BY <2>8 DEF Weekly, Checked, Report
    <3> QED
      BY <2>5, <3>1
  <2>9. \A i \in Instances : PurgeDelete(i) \/ Abort(i) \/ Crash(i) \/ Close(i)
                           \/ Tick(i) \/ Interrupt(i) \/ Weekly(i) \/ Checked(i)
                           \/ Report(i)
          => \E n \in Jobs : n.pc # "delete" /\ job' = [job EXCEPT ![i] = n]
    BY <2>3, <2>4, <2>6, <2>7, <2>8
  <2> QED
    BY <2>9
    DEF Next, Boot, Record, CallStep, ReadHead, Commit, Retry, WriteLoose, JobStep,
        PurgeLoose, Manual, Answer, CheckStep, Advance, Damage
<1>3. ASSUME NEW i \in Instances, PurgeRead(i)
      PROVE  job'[j] = job[j] \/ PurgeRead(j)
  <2>1. CASE job' = [job EXCEPT ![i].pc = "verify"]
    BY <1>1, <1>3, <2>1
  <2>2. CASE \E f, l \in Expired(job[i].now) :
               job' = [job EXCEPT ![i].pc = "delete", ![i].first = f.seq,
                                  ![i].last = l.seq, ![i].hash = l.hash]
    BY <1>1, <1>3, <2>2
  <2> QED
    BY <1>3, <2>1, <2>2 DEF PurgeRead
<1>4. ASSUME NEW i \in Instances, NEW n \in Jobs, n.pc # "delete", job' = [job EXCEPT ![i] = n]
      PROVE  job'[j] = job[j] \/ job'[j].pc # "delete"
  BY <1>1, <1>4
<1> QED
  BY <1>2, <1>3, <1>4

LEMMA BatchKept ==
  ASSUME Types, head # NoHead, Linked, Next, NEW j \in Instances
  PROVE  BatchFits(j)'
<1>0. Links /\ (Shrinks \/ \E r \in Rows : Appends(r)) /\ BatchFits(j)
  BY Moves DEF Linked
<1>1. CASE job'[j] = job[j] /\ job[j].pc = "delete"
  <2>1. PICK k \in Nat, g \in Nat, f \in Nat :
             k = job[j].last /\ g = job[j].hash /\ f = job[j].first
    BY DEF Types, Jobs
  <2>2. Fits(k, g) /\ 1 <= f /\ f <= k /\ \A r \in Chained : f <= r.seq
    BY <1>0, <1>1, <2>1 DEF BatchFits
  <2>3. Fits(k, g)'
    BY <1>0, <2>2, FitsKept
  <2>4. ASSUME NEW r \in Chained' PROVE f <= r.seq
    <3>1. CASE Shrinks
      BY <2>2, <3>1 DEF Shrinks
    <3>2. ASSUME NEW s \in Rows, Appends(s) PROVE f <= r.seq
      <4>1. k <= head.seq /\ head.seq \in Nat /\ s.seq = head.seq + 1
        BY <1>0, <2>2, <3>2, Behind DEF Fits, Appends
      <4>2. r \in Chained \/ r = s
        BY <3>2 DEF Appends
      <4> QED
        BY <2>1, <2>2, <4>1, <4>2
    <3> QED
      BY <1>0, <3>1, <3>2
  <2> QED
    BY <1>1, <2>1, <2>2, <2>3, <2>4 DEF BatchFits, Fits
<1>2. CASE job'[j].pc # "delete"
  BY <1>2 DEF BatchFits
<1>3. ASSUME PurgeRead(j), job'[j].pc = "delete" PROVE BatchFits(j)'
  <2>1. job \in [Instances -> Jobs]
    BY DEF Types
  <2>2. PICK f \in Chained, l \in Chained :
          /\ f.seq <= l.seq /\ \A r \in Chained : f.seq <= r.seq
          /\ job' = [job EXCEPT ![j].pc = "delete", ![j].first = f.seq,
                                ![j].last = l.seq, ![j].hash = l.hash]
    <3>1. job' # [job EXCEPT ![j].pc = "verify"]
      BY <1>3, <2>1 DEF Jobs
    <3> QED
      BY <1>3, <3>1, PurgeReads
  <2>3. PICK k \in Nat, g \in Nat, m \in Nat : k = l.seq /\ g = l.hash /\ m = f.seq
    BY ChainedTypes
  <2>4. Fits(k, g) /\ Fits(k, g)'
    BY <1>0, <2>3, FitsKept DEF Links
  <2>5. job'[j].first = m /\ job'[j].last = k /\ job'[j].hash = g
    BY <2>1, <2>2, <2>3 DEF Jobs
  <2>6. m >= 1 /\ m <= k
    BY <2>2, <2>3, ChainedTypes
  <2>7. Chained' = Chained
    BY <1>3, ChainedSame DEF PurgeRead, chain
  <2>8. \A r \in Chained' : m <= r.seq
    BY <2>2, <2>3, <2>7
  <2> QED
    BY <2>4, <2>5, <2>6, <2>8 DEF BatchFits, Fits
<1> QED
  BY <1>1, <1>2, <1>3, JobMoves

\* Rows go from the front only, or by damage.
LEMMA DenseKept ==
  ASSUME Types, head # NoHead, Linked, Next
  PROVE  Dense'
<1>0. Links /\ Dense /\ (Shrinks \/ \E r \in Rows : Appends(r))
  BY Moves DEF Linked
<1>1. SUFFICES ASSUME damaged' = {},
                      NEW r \in Chained', NEW n \in Nat, r.seq <= n, n <= head'.seq
               PROVE  \E s \in Chained' : s.seq = n
  BY DEF Dense
<1>2. CASE Damage
  BY <1>1, <1>2 DEF Damage
<1>3. ASSUME NEW a \in Rows, Appends(a) PROVE \E s \in Chained' : s.seq = n
  <2>1. /\ a.seq = head.seq + 1 /\ head'.seq = a.seq /\ Chained' = Chained \cup {a}
        /\ damaged' = damaged
    BY <1>3 DEF Appends
  <2>2. CASE n = a.seq
    BY <2>1, <2>2
  <2>3. CASE n # a.seq
    <3>1. n <= head.seq /\ r # a
      BY <1>0, <1>1, <2>1, <2>3, Behind
    <3> QED
      BY <1>0, <1>1, <2>1, <3>1 DEF Dense
  <2> QED
    BY <2>2, <2>3
<1>4. ASSUME NEW i \in Instances, PurgeDelete(i) PROVE \E s \in Chained' : s.seq = n
  <2>1. rows' = {s \in rows : ~ Between(s, job[i].first, job[i].last)}
        /\ head' = head /\ damaged' = damaged
    BY <1>4 DEF PurgeDelete
  <2>2. Chained' = {s \in Chained : ~ Between(s, job[i].first, job[i].last)}
    BY <2>1 DEF Chained
  <2>3. /\ r \in Chained /\ r.seq \in Nat /\ job[i].first \in Nat /\ job[i].last \in Nat
        /\ job[i].first <= r.seq
    BY <1>4, <2>2, ChainedTypes DEF PurgeDelete, Linked, BatchFits, Types, Jobs
  <2>4. job[i].last < r.seq
    BY <2>2, <2>3 DEF Between
  <2>5. PICK s \in Chained : s.seq = n
    BY <1>0, <1>1, <2>1, <2>3 DEF Dense
  <2>6. ~ Between(s, job[i].first, job[i].last)
    BY <1>1, <2>3, <2>4, <2>5 DEF Between
  <2> QED
    BY <2>2, <2>5, <2>6
<1>5. CASE UNCHANGED <<head, damaged>> /\ Chained' = Chained
  BY <1>0, <1>1, <1>5 DEF Dense
<1>6. ASSUME NEW i \in Instances, PurgeLoose(i) \/ WriteLoose(i)
      PROVE  UNCHANGED <<head, damaged>> /\ Chained' = Chained
  <2>1. Row(0, 0).seq = 0
    BY DEF Row
  <2>2. CASE PurgeLoose(i)
    <3>1. rows' \subseteq rows /\ \A x \in rows : x \in Chained => x \in rows'
      BY <2>2 DEF PurgeLoose, OldLoose
    <3> QED
      BY <2>2, <3>1 DEF PurgeLoose, Chained
  <2>3. CASE WriteLoose(i)
    BY <2>1, <2>3 DEF WriteLoose, Chained
  <2> QED
    BY <1>6, <2>2, <2>3
<1>7. ASSUME NEW i \in Instances, Boot(i) PROVE UNCHANGED <<head, damaged>> /\ Chained' = Chained
  BY <1>7, ChainedSame DEF Boot, EnsuredHead
<1>8. ASSUME NEW i \in Instances, Commit(i) PROVE \E a \in Rows : Appends(a)
  <2>1. Shrinks => head'.seq = head.seq
    BY DEF Shrinks
  <2>2. head'.seq = head.seq + 1
    BY <1>8 DEF Commit, HeadUnmoved, Row
  <2> QED
    BY <1>0, <2>1, <2>2, Behind
<1> QED
  BY <1>2, <1>3, <1>4, <1>5, <1>6, <1>7, <1>8, ChainedSame
  DEF Next, Record, CallStep, ReadHead, Retry, Tick, JobStep, PurgeRead, Weekly, Checked,
      Report, Close, Interrupt, Abort, Crash, Manual, Answer, CheckStep, Advance, chain

-----------------------------------------------------------------------------
(* The verification.                                                       *)

\* What an answer keeps.
LEMMA VerdictFields ==
  ASSUME Types, NEW s \in Statuses, Verdict(s)
  PROVE  /\ check'.pc = "done" /\ check'.status = s
         /\ check'.lo = check.lo /\ check'.at = check.at /\ check'.hurt = check.hurt
         /\ check'.quiet = check.quiet /\ check'.tail = check.tail
BY DEF Types, Verdict, NoCheck, Checks

LEMMA WalkFields ==
  ASSUME Types, NEW h \in Nat, Walk(h)
  PROVE  /\ check'.pc = "rows" /\ check'.prev = h
         /\ check'.lo = check.lo /\ check'.hi = check.hi /\ check'.at = check.at
         /\ check'.hurt = check.hurt /\ check'.status = check.status
         /\ check'.quiet = check.quiet /\ check'.tail = check.tail
BY DEF Types, Walk, Checks

\* Every way a verification can change.
LEMMA CheckMoves ==
  ASSUME Types, Next
  PROVE  \/ CheckStep
         \/ check' = check
         \/ check' = NoCheck
         \/ \E who \in Instances \cup {Nobody}, from, to \in Nat, tail \in BOOLEAN :
              check' = Begin(who, from, to, tail) /\ UNCHANGED <<chain, damaged>>
         \/ /\ check' = [check EXCEPT !.quiet = check.pc = "idle"]
            /\ \E i \in Instances : PurgeDelete(i)
<1>1. ASSUME NEW i \in Instances, Weekly(i), check' # check
      PROVE  \E who \in Instances \cup {Nobody}, from, to \in Nat, tail \in BOOLEAN :
               check' = Begin(who, from, to, tail) /\ UNCHANGED <<chain, damaged>>
  <2> DEFINE now == job[i].now
             from == IF now > Span THEN now - Span ELSE 0
  <2>1. check' = Begin(i, from, now, TRUE) /\ UNCHANGED <<chain, damaged>>
    BY <1>1 DEF Weekly
  <2>2. now \in Nat /\ from \in Nat
    BY Constants1 DEF Types, Jobs
  <2> HIDE DEF from, now
  <2> QED
    BY <2>1, <2>2
<1>2. ASSUME Manual
      PROVE  \E who \in Instances \cup {Nobody}, from, to \in Nat, tail \in BOOLEAN :
               check' = Begin(who, from, to, tail) /\ UNCHANGED <<chain, damaged>>
  <2>1. PICK to \in Nat, tail \in BOOLEAN, from \in Nat :
             check' = Begin(Nobody, from, to, tail)
    BY <1>2 DEF Manual, Types
  <2> QED
    BY <1>2, <2>1 DEF Manual
<1>3. ASSUME NEW i \in Instances, Crash(i) \/ Checked(i) PROVE check' = check \/ check' = NoCheck
  BY <1>3 DEF Crash, Checked
<1> QED
  BY ZenonT(60), <1>1, <1>2, <1>3
  DEF Next, Boot, Record, CallStep, ReadHead, Commit, Retry, WriteLoose, Tick, JobStep,
      PurgeLoose, PurgeRead, PurgeDelete, Report, Close, Interrupt, Abort,
      Answer, Advance, Damage

\* A row that is not refused is the next one there was.
LEMMA NextRow ==
  ASSUME Types, head # NoHead, Linked, CheckStep, CheckRow,
         \A s \in Statuses : ~ Verdict(s)
  PROVE  \E r \in Chained :
           /\ check' = [check EXCEPT !.at = r.seq, !.prev = r.hash]
           /\ r.seq = IF check.at = 0 THEN check.lo ELSE check.at + 1
           /\ r.seq <= check.hi /\ r.sound
<1> DEFINE left == {r \in Chained : /\ check.lo <= r.seq /\ r.seq <= check.hi
                                   /\ check.at < r.seq}
<1>1. {"TAIL_MISSING", "OK", "SEQ_GAP", "HASH_MISMATCH"} \subseteq Statuses
  BY DEF Statuses
<1>2. PICK r \in left :
        /\ check.at > 0 => r.seq = check.at + 1
        /\ Continues(r)
        /\ check' = [check EXCEPT !.at = r.seq, !.prev = r.hash]
  BY <1>1 DEF CheckRow
<1>3. check \in Checks /\ check.lo \in Nat /\ check.at \in Nat /\ check.prev \in Nat
  BY DEF Types, Checks
<1>4. r \in Chained /\ r.seq \in Nat /\ r.prev \in Nat /\ check.lo <= r.seq /\ r.seq <= check.hi
  BY <1>2, ChainedTypes
<1>5. CASE check.at = 0
  <2>1. check.pc = "rows"
    BY DEF CheckRow
  <2>2. Fits(check.lo - 1, check.prev) /\ check.lo >= 1
    BY <1>5, <2>1 DEF Linked, WalkFits
  <2>3. r.prev = check.prev
    BY <1>2 DEF Continues
  <2>4. ~ (r.seq > (check.lo - 1) + 1)
    BY <1>3, <1>4, <2>2, <2>3 DEF Fits
  <2>5. r.seq = check.lo
    BY <1>3, <1>4, <2>4
  <2> QED
    BY <1>2, <1>4, <1>5, <2>5 DEF Continues
<1>6. CASE check.at # 0
  <2>1. r.seq = check.at + 1
    BY <1>2, <1>3, <1>6
  <2>2. r.sound
    BY <1>2 DEF Continues
  <2> QED
    BY <1>2, <1>4, <1>6, <2>1, <2>2
<1> QED
  BY <1>5, <1>6

LEMMA WalkKept ==
  ASSUME Types, head # NoHead, genesis, Linked, Next
  PROVE  WalkFits'
<1>0. /\ Links /\ (Shrinks \/ \E r \in Rows : Appends(r)) /\ WalkFits
      /\ check \in Checks /\ check.at \in Nat /\ check.lo \in Nat /\ check.prev \in Nat
  BY Moves DEF Linked, Types, Checks
<1>1. ASSUME check'.pc = check.pc, check'.status = check.status, check'.at = check.at,
             check'.lo = check.lo, check'.prev = check.prev
      PROVE  WalkFits'
  <2>1. PICK k \in Nat, g \in Nat :
          (check.lo >= 1 => k = IF check.at = 0 THEN check.lo - 1 ELSE check.at)
          /\ g = check.prev
    <3>1. CASE check.lo >= 1 /\ check.at = 0
      <4>1. check.lo - 1 \in Nat
        BY <1>0, <3>1
      <4> QED
        BY <1>0, <3>1, <4>1
    <3>2. CASE ~ (check.lo >= 1 /\ check.at = 0)
      BY <1>0, <3>2
    <3> QED
      BY <3>1, <3>2
  <2>2. check.pc = "rows" => Fits(k, g)
    BY <1>0, <2>1 DEF WalkFits
  <2>3. check.pc = "rows" => Fits(k, g)'
    BY <1>0, <2>2, FitsKept
  <2>4. ASSUME check.pc = "rows"
        PROVE  Fits(IF check.at = 0 THEN check.lo - 1 ELSE check.at, check.prev)'
    <3>1. k = IF check'.at = 0 THEN check'.lo - 1 ELSE check'.at
      BY <1>0, <1>1, <2>1, <2>4 DEF WalkFits
    <3>2. g = check'.prev
      BY <1>1, <2>1
    <3> QED
      BY <2>3, <2>4, <3>1, <3>2 DEF Fits
  <2> QED
    BY <1>0, <1>1, <2>4 DEF WalkFits
<1>2. CASE check' = check
  BY <1>1, <1>2
<1>3. CASE check' = [check EXCEPT !.quiet = check.pc = "idle"]
  BY <1>0, <1>1, <1>3 DEF Checks
<1>4. CASE check' = NoCheck
  BY <1>4 DEF NoCheck, WalkFits
<1>5. ASSUME NEW who \in Instances \cup {Nobody}, NEW from \in Nat, NEW to \in Nat,
             NEW tail \in BOOLEAN, check' = Begin(who, from, to, tail)
      PROVE  WalkFits'
  BY <1>5 DEF Begin, NoCheck, WalkFits
<1>6. ASSUME NEW s \in Statuses, Verdict(s) PROVE WalkFits'
  BY <1>6, VerdictFields DEF WalkFits
<1>7. ASSUME CheckStep, \A s \in Statuses : ~ Verdict(s) PROVE WalkFits'
  <2>0. Chained' = Chained /\ head' = head
    BY <1>7, ChainedSame DEF CheckStep, chain
  <2>1. CASE CheckHead
    BY <1>0, <2>1 DEF CheckHead, WalkFits, Checks
  <2>2. CASE CheckRange
    <3>1. "EMPTY" \in Statuses
      BY DEF Statuses
    <3>2. PICK f \in Chained, l \in Chained :
               check' = [check EXCEPT !.pc = "start", !.lo = f.seq, !.hi = l.seq,
                                      !.from = 0, !.to = 0]
      BY <1>7, <2>2, <3>1 DEF CheckRange
    <3>3. check'.pc = "start" /\ check'.lo = f.seq /\ check'.at = check.at
          /\ check'.status = check.status
      BY <1>0, <3>2 DEF Checks
    <3>4. f.seq >= 1
      BY ChainedTypes
    <3> QED
      BY <1>0, <2>2, <3>3, <3>4 DEF CheckRange, WalkFits
  <2>3. ASSUME NEW k \in Nat, NEW h \in Nat, Fits(k, h), Walk(h),
               check.pc \in {"start", "anchor"}, k + 1 = check.lo
        PROVE  WalkFits'
    <3>1. check.at = 0 /\ check.status = "NONE" /\ check.lo >= 1
      BY <1>0, <2>3 DEF WalkFits
    <3>2. /\ check'.pc = "rows" /\ check'.prev = h /\ check'.lo = check.lo
          /\ check'.at = 0 /\ check'.status = "NONE"
      BY <2>3, <3>1, WalkFields
    <3>3. check'.lo - 1 = k
      BY <1>0, <2>3, <3>2
    <3>4. Fits(k, h)'
      BY <2>0, <2>3 DEF Fits
    <3> QED
      BY <3>1, <3>2, <3>3, <3>4 DEF WalkFits, Fits
  <2>4. CASE CheckStart
    <3>1. CASE check.lo = 1
      <4>1. Walk(GENESIS_HASH) /\ Fits(0, GENESIS_HASH) /\ GENESIS_HASH \in Nat
        BY <1>0, <2>4, <3>1 DEF CheckStart, Links, GENESIS_HASH
      <4> QED
        BY <2>3, <2>4, <3>1, <4>1 DEF CheckStart
    <3>2. ASSUME NEW r \in Chained, r.seq + 1 = check.lo, Walk(r.hash) PROVE WalkFits'
      <4>1. Fits(r.seq, r.hash) /\ r.seq \in Nat /\ r.hash \in Nat
        BY <1>0, ChainedTypes DEF Links
      <4> QED
        BY <2>3, <2>4, <3>2, <4>1 DEF CheckStart
    <3>3. CASE check' = [check EXCEPT !.pc = "anchor"]
      <4>1. /\ check'.pc = "anchor" /\ check'.at = check.at /\ check'.lo = check.lo
            /\ check'.status = check.status
        BY <1>0, <3>3 DEF Checks
      <4> QED
        BY <1>0, <2>4, <4>1 DEF WalkFits, CheckStart
    <3> QED
      BY <2>4, <3>1, <3>2, <3>3 DEF CheckStart
  <2>5. CASE CheckAnchor
    <3>1. "ANCHOR_MISSING" \in Statuses
      BY DEF Statuses
    <3>2. anchor # NoAnchor /\ anchor.seq + 1 = check.lo /\ Walk(anchor.hash)
      BY <1>7, <2>5, <3>1 DEF CheckAnchor, AnchorFor
    <3>3. Fits(anchor.seq, anchor.hash) /\ anchor.seq \in Nat /\ anchor.hash \in Nat
      BY <1>0, <3>2 DEF Links, Types, Link
    <3> QED
      BY <2>3, <2>5, <3>2, <3>3 DEF CheckAnchor
  <2>6. CASE CheckRow
    <3>1. PICK r \in Chained :
           /\ check' = [check EXCEPT !.at = r.seq, !.prev = r.hash]
           /\ r.seq = IF check.at = 0 THEN check.lo ELSE check.at + 1
      BY <1>7, <2>6, NextRow
    <3>2. /\ check'.at = r.seq /\ check'.prev = r.hash /\ check'.pc = check.pc
          /\ check'.lo = check.lo /\ check'.status = check.status
      BY <1>0, <3>1 DEF Checks
    <3>3. Fits(r.seq, r.hash) /\ r.seq \in Nat /\ r.seq > 0
      BY <1>0, ChainedTypes DEF Links
    <3>4. Fits(r.seq, r.hash)'
      BY <2>0, <3>3 DEF Fits
    <3>5. check.pc = "rows" /\ check.lo <= r.seq
      <4>1. check.pc = "rows"
        BY <2>6 DEF CheckRow
      <4>2. check.at > 0 => check.lo <= check.at
        BY <1>0, <4>1 DEF WalkFits
      <4> QED
        BY <1>0, <3>1, <4>1, <4>2
    <3> QED
      BY <1>0, <3>2, <3>3, <3>4, <3>5 DEF WalkFits, Fits
  <2> QED
    BY <1>7, <2>1, <2>2, <2>4, <2>5, <2>6 DEF CheckStep
<1> QED
  BY <1>2, <1>3, <1>4, <1>5, <1>6, <1>7, CheckMoves

\* Before the first start: only a start, and time.
LEMMA FirstStep ==
  ASSUME TypeOK, Watching, head = NoHead, Bare, Next
  PROVE  /\ head' = NoHead => Bare'
         /\ head' # NoHead => genesis' /\ Linked'
         /\ rows' = {} /\ UNCHANGED <<anchor, damaged, check, job>>
<1>1. Types /\ Awake
  BY TypeParts
<1>2. \A i \in Instances : call[i].pc = "off" /\ job[i].pc = "idle"
  BY <1>1 DEF Awake
<1>3. check.pc = "idle" /\ Chained = {}
  BY DEF Watching, Bare, Chained
<1>4. \/ \E i \in Instances : Boot(i)
      \/ Advance
  BY ZenonT(60), <1>2, <1>3
  DEF Next, Record, CallStep, ReadHead, Commit, Retry, WriteLoose, Tick, JobStep,
      PurgeLoose, PurgeRead, PurgeDelete, Weekly, Checked, Report, Close, Interrupt,
      Abort, Crash, Manual, Answer, CheckStep, CheckHead, CheckRange, CheckStart,
      CheckAnchor, CheckRow, Damage
<1>5. CASE Advance
  BY <1>5 DEF Advance, chain, Bare
<1>6. ASSUME NEW i \in Instances, Boot(i) PROVE head' # NoHead /\ genesis' /\ Linked'
  <2>1. head' = [seq |-> 0, hash |-> GENESIS_HASH] /\ genesis'
    BY <1>6 DEF Boot, EnsuredHead
  <2>2. head' \in Link
    BY <2>1 DEF GENESIS_HASH, Link
  <2>3. Chained' = {} /\ UNCHANGED <<anchor, job, check, born, damaged>>
    BY <1>3, <1>6, ChainedSame DEF Boot
  <2>4. Links'
    BY <1>1, <2>1, <2>3 DEF Links, Fits, GENESIS_HASH, Bare, Types
  <2>5. Alone' /\ Dense'
    BY <2>3 DEF Alone, Dense
  <2>6. check'.pc = "idle" /\ \A j \in Instances : job'[j].pc = "idle"
    BY <1>2, <1>3, <2>3
  <2>7. \A j \in Instances : call'[j].pc # "commit"
    BY <1>1, <1>2, <1>6, Blank DEF Boot, Types
  <2>8. \A j \in Instances : SeenFits(j)' /\ BatchFits(j)'
    BY <2>6, <2>7 DEF SeenFits, BatchFits
  <2>9. WalkFits'
    BY <2>3 DEF WalkFits, Bare, NoCheck
  <2> QED
    BY <2>1, <2>2, <2>4, <2>5, <2>8, <2>9, Constants1 DEF Linked
<1>7. rows' = {} /\ UNCHANGED <<anchor, damaged, check, job>>
  BY <1>4 DEF Advance, Boot, chain, Bare
<1> QED
  BY <1>4, <1>5, <1>6, <1>7

LEMMA HeadKept ==
  ASSUME Types, head # NoHead, genesis, Linked, Next
  PROVE  head' # NoHead /\ genesis'
<1>1. CASE Shrinks
  BY ZenonT(60), <1>1 DEF Shrinks, Next, Boot, Record, CallStep, ReadHead, Commit, Retry, WriteLoose,
      Tick, JobStep, PurgeLoose, PurgeRead, PurgeDelete, Weekly, Checked, Report, Close,
      Interrupt, Abort, Crash, Manual, Answer, CheckStep, Advance, Damage, chain
<1>2. ASSUME NEW r \in Rows, Appends(r) PROVE head' # NoHead /\ genesis'
  <2>1. head' \in Link
    BY <1>2 DEF Appends, Rows, Link
  <2> QED
    BY <1>2, <2>1, Constants1 DEF Appends
<1> QED
  BY <1>1, <1>2, Moves

LEMMA ChainStep ==
  ASSUME ChainInv, [Next]_vars
  PROVE  ChainInv'
<1>1. CASE UNCHANGED vars
  BY <1>1 DEF vars, ChainInv, TypeOK, Watching, Bare, Linked, Links, Fits, Alone, Dense,
              WalkFits, SeenFits, BatchFits, Chained
<1>2. CASE Next
  <2>1. TypeOK' /\ Watching'
    BY <1>2, TypeStep DEF ChainInv
  <2>2. CASE head = NoHead
    BY <1>2, <2>1, <2>2, FirstStep DEF ChainInv
  <2>3. CASE head # NoHead
    <3>1. Types /\ genesis /\ Linked
      BY <2>3, TypeParts DEF ChainInv
    <3>2. head' # NoHead /\ genesis'
      BY <1>2, <2>3, <3>1, HeadKept
    <3>3. Links' /\ Alone' /\ Dense' /\ WalkFits'
      BY <1>2, <2>3, <3>1, LinksKept, AloneKept, DenseKept, WalkKept
    <3>4. \A j \in Instances : SeenFits(j)' /\ BatchFits(j)'
      BY <1>2, <2>3, <3>1, SeenKept, BatchKept
    <3> QED
      BY <2>1, <3>2, <3>3, <3>4 DEF ChainInv, Linked
  <2> QED
    BY <2>2, <2>3
<1> QED
  BY <1>1, <1>2

LEMMA ChainInit == Init => ChainInv
<1> SUFFICES ASSUME Init PROVE ChainInv
  OBVIOUS
<1>1. TypeOK /\ Watching
  BY TypeInit DEF Init, Watching, NoCheck
<1>2. head = NoHead /\ Bare
  BY DEF Init, Bare
<1> QED
  BY <1>1, <1>2 DEF ChainInv

\* The rows of an undamaged chain form an interval that ends at the head, each
\* carrying the hash of the one before it, whatever contends, fails or is deleted.
THEOREM Intact == Spec => []ChainIntact
<1>1. ChainInv => ChainIntact
  <2> SUFFICES ASSUME ChainInv, damaged = {} PROVE
        /\ \A r, s \in Chained : r.seq = s.seq => r = s
        /\ \A r \in Chained :
             \/ r.seq = head.seq /\ r.hash = head.hash
             \/ \E s \in Chained : s.seq = r.seq + 1 /\ s.prev = r.hash
    BY DEF ChainIntact
  <2>1. CASE head = NoHead
    BY <2>1 DEF ChainInv, Bare, Chained
  <2>2. CASE head # NoHead
    <3>1. Types /\ Links /\ Alone /\ Dense
      BY <2>2, TypeParts DEF ChainInv, Linked
    <3>2. ASSUME NEW r \in Chained, r.seq # head.seq
          PROVE  \E s \in Chained : s.seq = r.seq + 1 /\ s.prev = r.hash
      <4>1. r.seq <= head.seq /\ r.seq \in Nat /\ head.seq \in Nat
        BY <2>2, <3>1, Behind, ChainedTypes
      <4>2. PICK s \in Chained : s.seq = r.seq + 1
        BY <3>1, <3>2, <4>1 DEF Dense
      <4> QED
        BY <3>1, <4>2 DEF Links, Fits
    <3>3. \A r \in Chained : r.seq = head.seq => r.hash = head.hash
      BY <3>1 DEF Links, Fits
    <3> QED
      BY <3>1, <3>2, <3>3 DEF Alone
  <2> QED
    BY <2>1, <2>2
<1> QED
  BY <1>1, ChainInit, ChainStep, PTL DEF Spec

-----------------------------------------------------------------------------
(* Damage.                                                                 *)

\* What was damaged stays damaged: gone, or of another content than its hash;
\* nothing else is.  A verification under way has not passed over what was
\* damaged when it began.
Harmed ==
  /\ \A n \in damaged : head # NoHead /\ n <= head.seq
  /\ \A r \in Chained : r.seq \in damaged <=> ~ r.sound
  /\ check.hurt \subseteq damaged
  /\ check.pc = "rows" \/ check.status = "OK" =>
       \A n \in check.hurt : ~ (check.lo <= n /\ n <= check.at)

\* The rows there were, or one that is new and sound.
Spares ==
  /\ damaged' = damaged
  /\ \A s \in Chained' : \/ s \in Chained
                         \/ s.seq = head.seq + 1 /\ s.sound

\* Row t is altered or lost.
Harms(t) ==
  /\ damaged' = damaged \cup {t.seq}
  /\ \A s \in Chained' : \/ s \in Chained /\ s # t
                         \/ s.seq = t.seq /\ ~ s.sound

\* The content of a row changes by damage only.
LEMMA SoundKept ==
  ASSUME Types, head # NoHead, Linked, Next
  PROVE  Spares \/ \E t \in Chained : Harms(t)
<1>0. Links /\ (Shrinks \/ \E r \in Rows : Appends(r))
  BY Moves DEF Linked
<1>1. CASE Damage
  <2>1. PICK t \in Chained :
          /\ damaged' = damaged \cup {t.seq}
          /\ \E new \in {{}, {[t EXCEPT !.sound = FALSE]}} : rows' = (rows \ {t}) \cup new
    BY <1>1 DEF Damage
  <2> DEFINE u == [t EXCEPT !.sound = FALSE]
  <2>2. t \in Rows /\ u.seq = t.seq /\ ~ u.sound
    BY ChainedTypes DEF Rows
  <2>3. \A s \in Chained' : s = u \/ (s \in Chained /\ s # t)
    BY <2>1 DEF Chained
  <2>4. \A s \in Chained' : \/ s \in Chained /\ s # t
                            \/ s.seq = t.seq /\ ~ s.sound
    BY <2>2, <2>3
  <2> HIDE DEF u
  <2> QED
    BY <2>1, <2>4 DEF Harms
<1>2. ASSUME NEW r \in Rows, Appends(r) PROVE Spares
  BY <1>2 DEF Appends, Spares
<1>3. \/ damaged' = damaged /\ rows' \subseteq rows
      \/ \E i \in Instances : WriteLoose(i)
      \/ Damage
      \/ \E i \in Instances : Commit(i)
  BY ZenonT(60) DEF Next, Boot, Record, CallStep, ReadHead, Retry, Tick, JobStep, PurgeLoose,
         PurgeRead, PurgeDelete, Weekly, Checked, Report, Close, Interrupt, Abort, Crash,
         Manual, Answer, CheckStep, Advance, chain
<1>4. rows' \subseteq rows => Chained' \subseteq Chained
  BY DEF Chained
<1>5. ASSUME NEW i \in Instances, WriteLoose(i) PROVE Chained' \subseteq Chained
  <2>1. Row(0, 0).seq = 0 /\ rows' \subseteq rows \cup {Row(0, 0)}
    BY <1>5 DEF Row, WriteLoose
  <2> QED
    BY <2>1 DEF Chained
<1>6. ASSUME NEW i \in Instances, Commit(i) PROVE \E r \in Rows : Appends(r)
  <2>1. Shrinks => head'.seq = head.seq
    BY DEF Shrinks
  <2>2. head'.seq = head.seq + 1
    BY <1>6 DEF Commit, HeadUnmoved, Row
  <2> QED
    BY <1>0, <2>1, <2>2, Behind
<1>7. ASSUME NEW i \in Instances, WriteLoose(i) PROVE damaged' = damaged
  BY <1>7 DEF WriteLoose
<1> QED
  BY <1>1, <1>2, <1>3, <1>4, <1>5, <1>6, <1>7 DEF Spares

\* A verification that walks on keeps what it passed over undamaged.
LEMMA HurtKept ==
  ASSUME Types, head # NoHead, Linked, Harmed, Next
  PROVE  /\ check'.hurt \subseteq damaged'
         /\ check'.pc = "rows" \/ check'.status = "OK" =>
              \A n \in check'.hurt : ~ (check'.lo <= n /\ n <= check'.at)
<1>0. /\ check \in Checks /\ check.lo \in Nat /\ check.at \in Nat
      /\ damaged \subseteq damaged' /\ damaged \subseteq Nat /\ WalkFits
  BY SoundKept DEF Types, Checks, Linked, Spares, Harms
<1>1. CASE check' = check
  BY <1>0, <1>1 DEF Harmed
<1>2. CASE check' = NoCheck
  BY <1>2 DEF NoCheck
<1>3. CASE check' = [check EXCEPT !.quiet = check.pc = "idle"]
  BY <1>0, <1>3 DEF Harmed, Checks
<1>4. ASSUME NEW who \in Instances \cup {Nobody}, NEW from \in Nat, NEW to \in Nat,
             NEW tail \in BOOLEAN, check' = Begin(who, from, to, tail),
             UNCHANGED <<chain, damaged>>
      PROVE  /\ check'.hurt \subseteq damaged'
             /\ check'.pc # "rows" /\ check'.status # "OK"
  BY <1>4 DEF Begin, NoCheck
<1>5. ASSUME CheckStep, NEW s \in Statuses, Verdict(s), s = "OK" => check.pc = "rows"
      PROVE  /\ check'.hurt \subseteq damaged'
             /\ check'.pc # "rows"
             /\ check'.status = "OK" =>
                  \A n \in check'.hurt : ~ (check'.lo <= n /\ n <= check'.at)
  BY <1>0, <1>5, VerdictFields DEF Harmed
<1>6. ASSUME CheckStep, NEW s \in Statuses, Verdict(s) PROVE s = "OK" => check.pc = "rows"
  <2>1. check'.status = s
    BY <1>6, VerdictFields
  <2>2. check.pc # "done" => check.status = "NONE"
    BY <1>0 DEF WalkFits
  <2>3. \A x \in Statuses : Verdict(x) => x = s
    BY <2>1, VerdictFields
  <2>4. check'.pc = "done"
    BY <1>6, VerdictFields
  <2>5. {"EMPTY", "ANCHOR_MISSING"} \subseteq Statuses
    BY DEF Statuses
  <2>6. CASE CheckHead
    BY <1>0, <2>4, <2>6 DEF CheckHead, Checks
  <2>7. CASE CheckRange
    BY <1>0, <2>3, <2>4, <2>5, <2>7 DEF CheckRange, Checks
  <2>8. CASE CheckStart
    BY <1>0, <2>3, <2>4, <2>5, <2>8 DEF CheckStart, Walk, Checks
  <2>9. CASE CheckAnchor
    BY <1>0, <2>3, <2>4, <2>5, <2>9 DEF CheckAnchor, Walk, Checks
  <2>10. CASE CheckRow
    BY <2>10 DEF CheckRow
  <2> QED
    BY <1>6, <2>6, <2>7, <2>8, <2>9, <2>10 DEF CheckStep
<1>7. ASSUME CheckStep, \A s \in Statuses : ~ Verdict(s)
      PROVE  /\ check'.hurt = check.hurt /\ check'.status = check.status
             /\ check'.pc = "rows" =>
                  \A n \in check.hurt : ~ (check'.lo <= n /\ n <= check'.at)
  <2>1. CASE CheckRow
    <3>1. PICK r \in Chained :
           /\ check' = [check EXCEPT !.at = r.seq, !.prev = r.hash]
           /\ r.seq = IF check.at = 0 THEN check.lo ELSE check.at + 1
           /\ r.sound
      BY <1>7, <2>1, NextRow
    <3>2. /\ check'.at = r.seq /\ check'.pc = "rows" /\ check'.lo = check.lo
          /\ check'.hurt = check.hurt /\ check'.status = check.status /\ check.pc = "rows"
      BY <1>0, <2>1, <3>1 DEF Checks, CheckRow
    <3>3. ASSUME NEW n \in check.hurt PROVE ~ (check.lo <= n /\ n <= r.seq)
      <4>1. n \in Nat /\ n \in damaged /\ n # r.seq
        BY <1>0, <3>1 DEF Harmed
      <4>2. ~ (check.lo <= n /\ n <= check.at)
        BY <3>2 DEF Harmed
      <4> QED
        BY <1>0, <3>1, <4>1, <4>2
    <3> QED
      BY <3>2, <3>3
  <2>2. ASSUME NEW h \in Nat, Walk(h), check.pc \in {"start", "anchor"}
        PROVE  /\ check'.hurt = check.hurt /\ check'.status = check.status
               /\ \A n \in check.hurt : ~ (check'.lo <= n /\ n <= check'.at)
    <3>1. check'.at = 0 /\ check'.lo >= 1
      BY <1>0, <2>2, WalkFields DEF WalkFits
    <3>2. check'.lo \in Nat /\ check.hurt \subseteq Nat
      BY <1>0, <2>2, WalkFields DEF Checks
    <3> QED
      BY <2>2, <3>1, <3>2, WalkFields
  <2>3. GENESIS_HASH \in Nat /\ \A r \in Chained : r.hash \in Nat
    BY ChainedTypes DEF GENESIS_HASH
  <2>4. {"EMPTY", "ANCHOR_MISSING"} \subseteq Statuses
    BY DEF Statuses
  <2>5. CASE CheckStart
    <3>1. CASE check' = [check EXCEPT !.pc = "anchor"]
      BY <1>0, <3>1 DEF Checks
    <3>2. CASE \E h \in Nat : Walk(h)
      BY <2>2, <2>5, <3>2 DEF CheckStart
    <3> QED
      BY <1>7, <2>3, <2>4, <2>5, <3>1, <3>2 DEF CheckStart
  <2>6. CASE CheckAnchor
    <3>1. Walk(anchor.hash) /\ anchor.hash \in Nat
      BY <1>7, <2>4, <2>6 DEF CheckAnchor, AnchorFor, Types, Link
    <3> QED
      BY <2>2, <2>6, <3>1 DEF CheckAnchor
  <2>7. CASE CheckHead
    BY <1>0, <2>7 DEF CheckHead, Checks
  <2>8. CASE CheckRange
    <3>1. PICK f \in Chained, l \in Chained :
               check' = [check EXCEPT !.pc = "start", !.lo = f.seq, !.hi = l.seq,
                                      !.from = 0, !.to = 0]
      BY <1>7, <2>4, <2>8 DEF CheckRange
    <3> QED
      BY <1>0, <3>1 DEF Checks
  <2> QED
    BY <1>7, <2>1, <2>5, <2>6, <2>7, <2>8 DEF CheckStep
<1>8. ASSUME CheckStep, \A s \in Statuses : ~ Verdict(s)
      PROVE  check.status # "OK"
  BY <1>0, <1>8 DEF WalkFits, CheckStep, CheckHead, CheckRange, CheckStart, CheckAnchor, CheckRow
<1> QED
  <2>1. check.hurt \subseteq damaged'
    BY <1>0 DEF Harmed
  <2> QED
    BY <1>1, <1>2, <1>3, <1>4, <1>5, <1>6, <1>7, <1>8, <2>1, CheckMoves

LEMMA HarmedStep ==
  ASSUME ChainInv, Harmed, [Next]_vars
  PROVE  Harmed'
<1>1. CASE UNCHANGED vars
  BY <1>1 DEF vars, Harmed, Chained
<1>2. CASE Next /\ head = NoHead
  <2>1. rows' = {} /\ damaged' = {} /\ check' = NoCheck
    BY <1>2, FirstStep DEF ChainInv, Bare
  <2> QED
    BY <2>1 DEF Harmed, Chained, NoCheck
<1>3. CASE Next /\ head # NoHead
  <2>1. Types /\ Linked /\ genesis /\ Links
    BY <1>3, TypeParts DEF ChainInv, Linked
  <2>2. head.seq \in Nat /\ damaged \subseteq Nat /\ \A r \in Chained : r.seq <= head.seq
    BY <1>3, <2>1, Behind DEF Types
  <2>3. head' # NoHead /\ (head'.seq = head.seq \/ head'.seq = head.seq + 1)
    BY <1>3, <2>1, Moves, HeadKept DEF Shrinks, Appends
  <2>4. /\ check'.hurt \subseteq damaged'
        /\ check'.pc = "rows" \/ check'.status = "OK" =>
             \A n \in check'.hurt : ~ (check'.lo <= n /\ n <= check'.at)
    BY <1>3, <2>1, HurtKept
  <2>5. \A n \in damaged' : n <= head'.seq
    <3>1. \A n \in damaged' : n \in Nat /\ n <= head.seq
      BY <1>3, <2>1, <2>2, SoundKept, ChainedTypes DEF Spares, Harms, Harmed
    <3> QED
      BY <2>2, <2>3, <3>1
  <2>6. ASSUME NEW s \in Chained' PROVE s.seq \in damaged' <=> ~ s.sound
    <3>1. CASE Spares
      <4>1. CASE s \in Chained
        BY <3>1, <4>1 DEF Spares, Harmed
      <4>2. CASE s.seq = head.seq + 1 /\ s.sound
        BY <2>2, <3>1, <4>2 DEF Spares, Harmed
      <4> QED
        BY <3>1, <4>1, <4>2 DEF Spares
    <3>2. ASSUME NEW t \in Chained, Harms(t) PROVE s.seq \in damaged' <=> ~ s.sound
      <4>1. CASE s \in Chained /\ s # t
        <5>1. s.seq # t.seq
          BY <2>1, <4>1 DEF Linked, Alone
        <5> QED
          BY <3>2, <4>1, <5>1 DEF Harms, Harmed
      <4>2. CASE s.seq = t.seq /\ ~ s.sound
        BY <3>2, <4>2 DEF Harms
      <4> QED
        BY <3>2, <4>1, <4>2 DEF Harms
    <3> QED
      BY <1>3, <2>1, <3>1, <3>2, SoundKept
  <2> QED
    BY <2>3, <2>4, <2>5, <2>6 DEF Harmed
<1> QED
  BY <1>1, <1>2, <1>3

\* A verification that says OK did not pass over a row that had been altered or
\* lost when it began.
THEOREM Reported == Spec => []DamageReported
<1>1. Init => ChainInv /\ Harmed
  BY ChainInit DEF Init, Harmed, Chained, NoCheck
<1>2. ChainInv /\ Harmed /\ [Next]_vars => (ChainInv /\ Harmed)'
  BY ChainStep, HarmedStep
<1>3. ChainInv /\ Harmed => DamageReported
  BY DEF Harmed, DamageReported
<1> QED
  BY <1>1, <1>2, <1>3, PTL DEF Spec

-----------------------------------------------------------------------------
(* The front of the chain, with one instance that purges.                  *)

Base == IF anchor = NoAnchor THEN 0 ELSE anchor.seq

\* Without damage the chain begins behind the anchor, and so does a batch.
Front ==
  /\ \A i \in Instances : job[i].pc # "idle" => i \in Purgers
  /\ damaged = {} =>
       /\ \A r \in Chained : Base < r.seq
       /\ head # NoHead => \A n \in Nat :
            Base < n /\ n <= head.seq => \E s \in Chained : s.seq = n
       /\ \A i \in Instances : job[i].pc = "delete" => job[i].first = Base + 1

LEMMA FrontStep ==
  ASSUME \A i, j \in Purgers : i = j, ChainInv, Harmed, Front, [Next]_vars
  PROVE  Front'
<1>1. CASE UNCHANGED vars
  BY <1>1 DEF vars, Front, Base, Chained
<1>2. CASE Next /\ head = NoHead
  <2>1. rows' = {} /\ UNCHANGED <<anchor, damaged, check, job>> /\ anchor = NoAnchor
    BY <1>2, FirstStep DEF ChainInv, Bare
  <2>2. \A i \in Instances : job[i].pc = "idle"
    BY <1>2 DEF ChainInv, TypeOK
  <2>3. head' # NoHead => head'.seq = 0
    <3>1. \/ \E i \in Instances : Boot(i)
          \/ head' = head
          \/ \E i \in Instances : Commit(i)
      BY ZenonT(60), <1>2 DEF Next, Record, CallStep, ReadHead, Retry, WriteLoose, Tick, JobStep,
           PurgeLoose, PurgeRead, PurgeDelete, Weekly, Checked, Report, Close, Interrupt,
           Abort, Crash, Manual, Answer, CheckStep, Advance, Damage, chain
    <3>2. \A i \in Instances : ~ Commit(i)
      BY <1>2 DEF ChainInv, TypeOK, Commit
    <3> QED
      BY <1>2, <3>1, <3>2 DEF Boot, EnsuredHead
  <2>4. Chained' = {}
    BY <2>1 DEF Chained
  <2> QED
    BY <2>1, <2>2, <2>3, <2>4 DEF Front, Base
<1>3. CASE Next /\ head # NoHead
  <2>1. Types /\ Linked /\ genesis /\ Links
    BY <1>3, TypeParts DEF ChainInv, Linked
  <2>2. head.seq \in Nat /\ \A r \in Chained : r.seq <= head.seq /\ r.seq \in Nat /\ r.seq > 0
    BY <1>3, <2>1, Behind, ChainedTypes
  <2>3. Base \in Nat /\ Base <= head.seq
    <3>1. CASE anchor = NoAnchor
      BY <2>2, <3>1 DEF Base
    <3>2. CASE anchor # NoAnchor
      BY <2>1, <3>2 DEF Base, Links, Fits, Types, Link
    <3> QED
      BY <3>1, <3>2
  <2>4. ASSUME NEW i \in Instances, job'[i].pc # "idle" PROVE i \in Purgers
    <3>1. job \in [Instances -> Jobs]
      BY <2>1 DEF Types
    <3>2. \A k \in Instances : k \notin Purgers => job[k].pc = "idle"
      BY DEF Front
    <3>3. \/ job' = job
          \/ \E k \in Purgers, n \in Jobs : job' = [job EXCEPT ![k] = n]
          \/ \E k \in Instances : job' = [job EXCEPT ![k] = NoJob]
      <4>1. job' \in [Instances -> Jobs]
        BY <1>3, TypeStep, TypeParts DEF ChainInv, TypeOK, Jobs
      <4>2. ASSUME NEW k \in Instances, k \in Purgers,
                   \A m \in Instances : m # k => job'[m] = job[m]
            PROVE  \E n \in Jobs : job' = [job EXCEPT ![k] = n]
        <5>1. job' = [job EXCEPT ![k] = job'[k]] /\ job'[k] \in Jobs
          BY <3>1, <4>1, <4>2
        <5> QED
          BY <5>1
      <4>3. ASSUME NEW k \in Instances, JobStep(k) \/ Interrupt(k) \/ Tick(k)
            PROVE  k \in Purgers
        BY <3>2, <4>3
        DEF JobStep, PurgeLoose, PurgeRead, PurgeDelete, Weekly, Checked, Report, Close,
            Interrupt, Tick
      <4>4. ASSUME NEW k \in Instances, JobStep(k) \/ Interrupt(k) \/ Tick(k)
            PROVE  \A m \in Instances : m # k => job'[m] = job[m]
        <5>1. CASE PurgeRead(k)
          <6>1. CASE job' = [job EXCEPT ![k].pc = "verify"]
            BY <3>1, <6>1
          <6>2. CASE \E f, l \in Expired(job[k].now) :
                       job' = [job EXCEPT ![k].pc = "delete", ![k].first = f.seq,
                                          ![k].last = l.seq, ![k].hash = l.hash]
            BY <3>1, <6>2
          <6> QED
            BY <5>1, <6>1, <6>2 DEF PurgeRead
        <5>2. CASE ~ PurgeRead(k)
          BY <3>1, <4>4, <5>2
          DEF JobStep, PurgeLoose, PurgeDelete, Weekly, Checked, Report, Close, Interrupt, Tick
        <5> QED
          BY <5>1, <5>2
      <4>5. ASSUME NEW k \in Instances, Abort(k) \/ Crash(k)
            PROVE  job' = [job EXCEPT ![k] = NoJob]
        BY <4>5 DEF Abort, Crash
      <4> QED
        BY <1>3, <4>2, <4>3, <4>4, <4>5
        DEF Next, Boot, Record, CallStep, ReadHead, Commit, Retry, WriteLoose, Manual,
            Answer, CheckStep, Advance, Damage
    <3> QED
      BY <2>4, <3>1, <3>2, <3>3, Blank
  <2>5. CASE damaged' # {}
    BY <2>4, <2>5 DEF Front
  <2>6. CASE damaged' = {}
    <3>1. damaged = {} /\ ~ Damage
      BY <1>3, <2>1, <2>6, SoundKept DEF Spares, Harms, Damage
    <3>2. /\ \A r \in Chained : Base < r.seq
          /\ \A n \in Nat : Base < n /\ n <= head.seq => \E s \in Chained : s.seq = n
          /\ \A i \in Instances : job[i].pc = "delete" => job[i].first = Base + 1
      BY <1>3, <3>1 DEF Front
    <3>3. ASSUME NEW j \in Instances, PurgeDelete(j) PROVE Front'
      <4>1. /\ 1 <= job[j].first /\ job[j].first <= job[j].last
            /\ job[j].first = Base + 1 /\ job[j].last \in Nat /\ j \in Purgers
        BY <2>1, <3>2, <3>3 DEF PurgeDelete, Linked, BatchFits, Types, Jobs, Front
      <4>2. Base' = job[j].last
        <5>1. [seq |-> job[j].last, hash |-> job[j].hash] \in Link
          BY <2>1 DEF Types, Jobs, Link
        <5> QED
          BY <3>3, <5>1, Constants1 DEF PurgeDelete, Base
      <4>3. Chained' = {s \in Chained : ~ Between(s, job[j].first, job[j].last)}
        BY <3>3 DEF PurgeDelete, Chained
      <4>4. \A s \in Chained : Between(s, job[j].first, job[j].last) <=> s.seq <= job[j].last
        BY <2>2, <2>3, <3>2, <4>1 DEF Between
      <4>5. \A s \in Chained' : Base' < s.seq
        BY <2>2, <4>1, <4>2, <4>3, <4>4
      <4>6. ASSUME NEW n \in Nat, Base' < n, n <= head'.seq PROVE \E s \in Chained' : s.seq = n
        <5>1. head' = head
          BY <3>3 DEF PurgeDelete
        <5>2. PICK s \in Chained : s.seq = n
          BY <2>3, <3>2, <4>1, <4>2, <4>6, <5>1
        <5> QED
          BY <2>2, <4>1, <4>2, <4>3, <4>4, <4>6, <5>2
      <4>7. ASSUME NEW k \in Instances PROVE job'[k].pc # "delete"
        <5>1. CASE k = j
          BY <2>1, <3>3, <5>1 DEF PurgeDelete, Types, Jobs, NoJob
        <5>2. CASE k # j
          <6>1. job'[k] = job[k]
            BY <2>1, <3>3, <5>2 DEF PurgeDelete, Types
          <6>2. job[k].pc = "idle"
            BY <4>1, <5>2 DEF Front
          <6> QED
            BY <6>1, <6>2
        <5> QED
          BY <5>1, <5>2
      <4> QED
        BY <2>4, <4>5, <4>6, <4>7 DEF Front
    <3>4. CASE \A j \in Instances : ~ PurgeDelete(j)
      <4>1. Base' = Base
        BY ZenonT(60), <1>3, <3>4
        DEF Base, Next, Boot, Record, CallStep, ReadHead, Commit, Retry, WriteLoose, Tick,
            JobStep, PurgeLoose, PurgeRead, Weekly, Checked, Report, Close, Interrupt,
            Abort, Crash, Manual, Answer, CheckStep, Advance, Damage, chain
      <4>2. CASE \E a \in Rows : Appends(a)
        <5>1. PICK a \in Rows : Appends(a)
          BY <4>2
        <5>2. /\ a.seq = head.seq + 1 /\ head'.seq = a.seq /\ Chained' = Chained \cup {a}
              /\ job' = job
          BY <5>1 DEF Appends
        <5>3. \A r \in Chained' : Base < r.seq
          BY <2>2, <2>3, <3>2, <5>2
        <5>4. ASSUME NEW n \in Nat, Base < n, n <= head'.seq
              PROVE  \E s \in Chained' : s.seq = n
          <6>1. CASE n = a.seq
            BY <5>2, <6>1
          <6>2. CASE n # a.seq
            BY <2>2, <3>2, <5>2, <5>4, <6>2
          <6> QED
            BY <6>1, <6>2
        <5> QED
          BY <2>4, <3>2, <4>1, <5>2, <5>3, <5>4 DEF Front
      <4>3. CASE Chained' = Chained /\ head' = head
        <5>1. ASSUME NEW j \in Instances, job'[j].pc = "delete"
              PROVE  job'[j].first = Base + 1
          <6>1. CASE job'[j] = job[j]
            BY <3>2, <5>1, <6>1
          <6>2. CASE PurgeRead(j)
            <7>1. job \in [Instances -> Jobs]
              BY <2>1 DEF Types
            <7>2. PICK f \in Chained, l \in Chained :
                    /\ f.seq <= l.seq /\ \A r \in Chained : f.seq <= r.seq
                    /\ job' = [job EXCEPT ![j].pc = "delete", ![j].first = f.seq,
                                          ![j].last = l.seq, ![j].hash = l.hash]
              <8>1. job' # [job EXCEPT ![j].pc = "verify"]
                BY <5>1, <7>1 DEF Jobs
              <8> QED
                BY <1>3, <2>1, <6>2, <8>1, PurgeReads
            <7>3. job'[j].first = f.seq
              BY <7>1, <7>2 DEF Jobs
            <7>4. Base + 1 \in Nat /\ Base < f.seq /\ f.seq <= head.seq
              BY <2>2, <2>3, <3>2
            <7>5. PICK s \in Chained : s.seq = Base + 1
              BY <2>2, <2>3, <3>2, <7>4
            <7> QED
              BY <2>2, <2>3, <7>2, <7>3, <7>4, <7>5
          <6> QED
            BY <1>3, <2>1, <5>1, <6>1, <6>2, JobMoves
        <5> QED
          BY <2>4, <3>2, <4>1, <4>3, <5>1 DEF Front
      <4>4. \/ \E a \in Rows : Appends(a)
            \/ Chained' = Chained /\ head' = head
        <5>1. ASSUME NEW i \in Instances, PurgeLoose(i) \/ WriteLoose(i)
              PROVE  head' = head /\ Chained' = Chained
          <6>1. Row(0, 0).seq = 0
            BY DEF Row
          <6>2. CASE PurgeLoose(i)
            <7>1. rows' \subseteq rows /\ \A x \in rows : x \in Chained => x \in rows'
              BY <6>2 DEF PurgeLoose, OldLoose
            <7> QED
              BY <6>2, <7>1 DEF PurgeLoose, Chained
          <6>3. CASE WriteLoose(i)
            BY <6>1, <6>3 DEF WriteLoose, Chained
          <6> QED
            BY <5>1, <6>2, <6>3
        <5>2. ASSUME NEW i \in Instances, Boot(i) PROVE head' = head /\ Chained' = Chained
          BY <1>3, <5>2, ChainedSame DEF Boot, EnsuredHead
        <5>3. ASSUME NEW i \in Instances, Commit(i) PROVE \E a \in Rows : Appends(a)
          <6>1. Shrinks => head'.seq = head.seq
            BY DEF Shrinks
          <6>2. head'.seq = head.seq + 1
            BY <5>3 DEF Commit, HeadUnmoved, Row
          <6> QED
            BY <1>3, <2>1, <2>2, <6>1, <6>2, Moves
        <5> QED
          BY ZenonT(60), <1>3, <3>1, <3>4, <5>1, <5>2, <5>3, ChainedSame
          DEF Next, Record, CallStep, ReadHead, Retry, Tick, JobStep, PurgeRead, Weekly,
              Checked, Report, Close, Interrupt, Abort, Crash, Manual, Answer, CheckStep,
              Advance, chain
      <4> QED
        BY <4>2, <4>3, <4>4
    <3> QED
      BY <3>3, <3>4
  <2> QED
    BY <2>5, <2>6
<1> QED
  BY <1>1, <1>2, <1>3

\* With one purging instance the first row that is left continues the RETENTION
\* anchor, or the GENESIS anchor when nothing was purged.
THEOREM Reaches ==
  ASSUME \A i, j \in Purgers : i = j
  PROVE  Spec => []AnchorReaches
<1>1. Init => ChainInv /\ Harmed /\ Front
  BY ChainInit, Blank DEF Init, Harmed, Chained, NoCheck, Front, Base
<1>2. ChainInv /\ Harmed /\ Front /\ [Next]_vars => (ChainInv /\ Harmed /\ Front)'
  BY ChainStep, HarmedStep, FrontStep
<1>3. ChainInv /\ Harmed /\ Front => AnchorReaches
  <2> SUFFICES ASSUME ChainInv, Harmed, Front, damaged = {}, NEW r \in Chained,
                      \A s \in Chained : r.seq <= s.seq
               PROVE  IF anchor = NoAnchor
                      THEN genesis /\ r.seq = 1 /\ r.prev = GENESIS_HASH
                      ELSE r.seq = anchor.seq + 1 /\ r.prev = anchor.hash
    BY DEF AnchorReaches
  <2>1. head # NoHead
    BY DEF ChainInv, Bare, Chained
  <2>2. Types /\ Linked /\ Links /\ genesis
    BY <2>1, TypeParts DEF ChainInv, Linked
  <2>3. Base \in Nat /\ r.seq \in Nat /\ Base < r.seq /\ r.seq <= head.seq /\ head.seq \in Nat
    BY <2>1, <2>2, Behind, ChainedTypes DEF Front, Base, Types, Link
  <2>4. r.seq = Base + 1
    <3>1. PICK s \in Chained : s.seq = Base + 1
      BY <2>1, <2>3 DEF Front
    <3> QED
      BY <2>3, <3>1
  <2>5. CASE anchor = NoAnchor
    BY <2>2, <2>4, <2>5 DEF Base, Links, Fits
  <2>6. CASE anchor # NoAnchor
    BY <2>2, <2>4, <2>6 DEF Base, Links, Fits
  <2> QED
    BY <2>5, <2>6
<1> QED
  BY <1>1, <1>2, <1>3, PTL DEF Spec

\* While nothing is deleted or damaged a verification finds what it looks for:
\* the rows of its range, and an anchor when the first of them has no other
\* before it.
Calm ==
  damaged = {} /\ check.quiet =>
    /\ check.pc \in {"start", "anchor", "rows"} =>
         /\ \E r \in Chained : r.seq = check.lo
         /\ check.lo <= check.hi /\ check.hi <= head.seq
    /\ check.pc = "anchor" => Base + 1 = check.lo /\ Base > 0
    /\ check.pc = "done" /\ ~ check.tail => check.status \in {"OK", "EMPTY"}

\* Without a deletion the chain only grows.
LEMMA Grows ==
  ASSUME Types, head # NoHead, Linked, Next, damaged' = {},
         \A i \in Instances : ~ PurgeDelete(i)
  PROVE  /\ damaged = {} /\ anchor' = anchor
         /\ Chained \subseteq Chained'
         /\ head'.seq \in Nat /\ head.seq <= head'.seq
<1>1. damaged = {} /\ ~ Damage
  BY SoundKept DEF Spares, Harms, Damage
<1>2. anchor' = anchor
  BY ZenonT(60) DEF Next, Boot, Record, CallStep, ReadHead, Commit, Retry, WriteLoose, Tick, JobStep,
         PurgeLoose, PurgeRead, Weekly, Checked, Report, Close, Interrupt, Abort, Crash,
         Manual, Answer, CheckStep, Advance, Damage, chain
<1>3. head'.seq \in Nat /\ head.seq <= head'.seq
  BY Moves, Behind DEF Linked, Shrinks, Appends
<1>4. ASSUME NEW i \in Instances, PurgeLoose(i) PROVE Chained \subseteq Chained'
  BY <1>4 DEF PurgeLoose, OldLoose, Chained
<1>5. rows \subseteq rows' => Chained \subseteq Chained'
  BY DEF Chained
<1>6. rows \subseteq rows' \/ \E i \in Instances : PurgeLoose(i)
  BY ZenonT(60), <1>1
  DEF Next, Boot, Record, CallStep, ReadHead, Commit, Retry, WriteLoose, Tick, JobStep,
      PurgeRead, Weekly, Checked, Report, Close, Interrupt, Abort, Crash, Manual, Answer,
      CheckStep, Advance, chain
<1> QED
  BY <1>1, <1>2, <1>3, <1>4, <1>5, <1>6

LEMMA CalmStep ==
  ASSUME ChainInv, Harmed, Front, Calm, [Next]_vars
  PROVE  Calm'
<1>1. CASE UNCHANGED vars
  BY <1>1 DEF vars, Calm, Base, Chained
<1>2. CASE Next /\ head = NoHead
  <2>1. check' = NoCheck
    BY <1>2, FirstStep DEF ChainInv, Bare
  <2> QED
    BY <2>1 DEF Calm, NoCheck
<1>3. CASE Next /\ head # NoHead
  <2>1. Types /\ Linked /\ genesis /\ Links /\ WalkFits /\ check \in Checks
    BY <1>3, TypeParts DEF ChainInv, Linked, Types
  <2>2. /\ head.seq \in Nat /\ check.lo \in Nat /\ check.hi \in Nat /\ check.at \in Nat
        /\ \A r \in Chained : r.seq <= head.seq /\ r.seq \in Nat /\ r.seq > 0
    BY <1>3, <2>1, Behind, ChainedTypes DEF Checks
  <2>3. ASSUME NEW i \in Instances, PurgeDelete(i) PROVE Calm'
    <3>1. check'.pc = check.pc /\ check'.quiet = (check.pc = "idle")
      BY <2>1, <2>3 DEF PurgeDelete, Checks
    <3> QED
      BY <3>1 DEF Calm
  <2>4. SUFFICES ASSUME damaged' = {}, check'.quiet, \A i \in Instances : ~ PurgeDelete(i)
                 PROVE  Calm'
    BY <2>3 DEF Calm
  <2>5. /\ damaged = {} /\ anchor' = anchor /\ Chained \subseteq Chained'
        /\ head'.seq \in Nat /\ head.seq <= head'.seq /\ Base' = Base
    BY <1>3, <2>1, <2>4, Grows DEF Base
  <2>6. CASE check' = check
    <3>1. /\ check.pc \in {"start", "anchor", "rows"} =>
                /\ \E r \in Chained : r.seq = check.lo
                /\ check.lo <= check.hi /\ check.hi <= head.seq
          /\ check.pc = "anchor" => Base + 1 = check.lo /\ Base > 0
          /\ check.pc = "done" /\ ~ check.tail => check.status \in {"OK", "EMPTY"}
      BY <2>4, <2>5, <2>6 DEF Calm
    <3> QED
      BY <2>2, <2>5, <2>6, <3>1 DEF Calm
  <2>7. CASE check' = NoCheck
    BY <2>7 DEF Calm, NoCheck
  <2>8. ASSUME NEW who \in Instances \cup {Nobody}, NEW from \in Nat, NEW to \in Nat,
               NEW tail \in BOOLEAN, check' = Begin(who, from, to, tail)
        PROVE  Calm'
    BY <2>8 DEF Calm, Begin, NoCheck
  <2>9. ASSUME CheckStep PROVE Calm'
    <3>1. Chained' = Chained /\ head' = head
      BY <2>9, ChainedSame DEF CheckStep, chain
    <3>2. {"EMPTY", "OK", "ANCHOR_MISSING", "TAIL_MISSING", "SEQ_GAP", "HASH_MISMATCH"}
            \subseteq Statuses
      BY DEF Statuses
    <3>3. ASSUME NEW s \in Statuses, Verdict(s), check.tail \/ s \in {"OK", "EMPTY"}
          PROVE  Calm'
      BY <2>1, <3>3, VerdictFields DEF Calm
    <3>4. ASSUME NEW h \in Nat, Walk(h), check.pc \in {"start", "anchor"} PROVE Calm'
      <4>1. /\ check'.pc = "rows" /\ check'.lo = check.lo /\ check'.hi = check.hi
            /\ check'.quiet = check.quiet
        BY <2>1, <3>4, WalkFields
      <4>2. /\ \E r \in Chained : r.seq = check.lo
            /\ check.lo <= check.hi /\ check.hi <= head.seq
        BY <2>4, <2>5, <3>4, <4>1 DEF Calm
      <4> QED
        BY <3>1, <4>1, <4>2 DEF Calm
    <3>5. CASE CheckHead
      <4>1. check'.pc = "range"
        BY <2>1, <3>5 DEF CheckHead, Checks
      <4> QED
        BY <4>1 DEF Calm
    <3>6. CASE CheckRange
      <4>1. CASE Verdict("EMPTY")
        BY <3>2, <3>3, <4>1
      <4>2. CASE ~ Verdict("EMPTY")
        <5> DEFINE period == {r \in Chained : check.from <= r.at /\ r.at <= check.to}
        <5>1. PICK f \in period, l \in period :
                /\ \A r \in period : f.seq <= r.seq /\ r.seq <= l.seq
                /\ check' = [check EXCEPT !.pc = "start", !.lo = f.seq, !.hi = l.seq,
                                          !.from = 0, !.to = 0]
          BY <3>6, <4>2 DEF CheckRange
        <5>2. f \in Chained /\ l \in Chained /\ f.seq <= l.seq
          BY <5>1
        <5>3. check'.pc = "start" /\ check'.lo = f.seq /\ check'.hi = l.seq
          BY <2>1, <5>1 DEF Checks
        <5> QED
          BY <2>2, <3>1, <5>2, <5>3 DEF Calm
      <4> QED
        BY <4>1, <4>2
    <3>7. CASE CheckStart
      <4>1. CASE check.lo = 1
        <5>1. Walk(GENESIS_HASH) /\ GENESIS_HASH \in Nat
          BY <2>1, <3>7, <4>1 DEF CheckStart, GENESIS_HASH
        <5> QED
          BY <3>4, <3>7, <5>1 DEF CheckStart
      <4>2. CASE check.lo # 1 /\ \E r \in Chained : r.seq + 1 = check.lo
        <5>1. \E h \in Nat : Walk(h)
          BY <2>1, <3>7, <4>2, ChainedTypes DEF CheckStart
        <5> QED
          BY <3>4, <3>7, <5>1 DEF CheckStart
      <4>3. CASE check.lo # 1 /\ ~ \E r \in Chained : r.seq + 1 = check.lo
        <5>1. check' = [check EXCEPT !.pc = "anchor"]
          BY <3>7, <4>3 DEF CheckStart
        <5>2. /\ check'.pc = "anchor" /\ check'.lo = check.lo /\ check'.hi = check.hi
              /\ check'.quiet = check.quiet
          BY <2>1, <5>1 DEF Checks
        <5>3. PICK r \in Chained : r.seq = check.lo
          BY <2>4, <2>5, <3>7, <5>2 DEF Calm, CheckStart
        <5>4. check.lo <= check.hi /\ check.hi <= head.seq
          BY <2>4, <2>5, <3>7, <5>2 DEF Calm, CheckStart
        <5>5. Base \in Nat
          BY <2>1 DEF Base, Types, Link
        <5>6. Base < check.lo
          BY <2>5, <5>3 DEF Front
        <5>7. check.lo > 1
          BY <2>2, <4>3, <5>3
        <5>8. ~ (Base < check.lo - 1)
          <6>1. SUFFICES ASSUME Base < check.lo - 1 PROVE FALSE
            OBVIOUS
          <6>2. check.lo - 1 \in Nat /\ check.lo - 1 <= head.seq
            BY <2>2, <5>4, <5>7
          <6>3. PICK s \in Chained : s.seq = check.lo - 1
            BY <1>3, <2>5, <6>1, <6>2 DEF Front
          <6> QED
            BY <2>2, <4>3, <6>3
        <5>9. Base + 1 = check.lo /\ Base > 0
          BY <2>2, <5>5, <5>6, <5>7, <5>8
        <5> QED
          BY <2>5, <3>1, <5>2, <5>3, <5>4, <5>9 DEF Calm
      <4> QED
        BY <4>1, <4>2, <4>3
    <3>8. CASE CheckAnchor
      <4>1. CASE check.quiet
        <5>1. Base + 1 = check.lo /\ Base > 0
          BY <2>5, <3>8, <4>1 DEF Calm, CheckAnchor
        <5>2. AnchorFor(check.lo)
          BY <5>1 DEF Base, AnchorFor
        <5>3. Walk(anchor.hash) /\ anchor.hash \in Nat
          BY <2>1, <3>8, <5>2 DEF CheckAnchor, AnchorFor, Types, Link
        <5> QED
          BY <3>4, <3>8, <5>3 DEF CheckAnchor
      <4>2. CASE ~ check.quiet
        <5>1. \A s \in Statuses : ~ Verdict(s)
          BY <2>1, <2>4, <4>2, VerdictFields
        <5>2. Walk(anchor.hash) /\ anchor.hash \in Nat
          BY <2>1, <3>2, <3>8, <5>1 DEF CheckAnchor, AnchorFor, Types, Link
        <5> QED
          BY <3>4, <3>8, <5>2 DEF CheckAnchor
      <4> QED
        BY <4>1, <4>2
    <3>9. CASE CheckRow
      <4>1. CASE \A s \in Statuses : ~ Verdict(s)
        <5>1. PICK r \in Chained : check' = [check EXCEPT !.at = r.seq, !.prev = r.hash]
          BY <1>3, <2>1, <2>9, <3>9, <4>1, NextRow
        <5>2. /\ check'.pc = check.pc /\ check'.lo = check.lo /\ check'.hi = check.hi
              /\ check'.quiet = check.quiet /\ check.pc = "rows"
          BY <2>1, <3>9, <5>1 DEF Checks, CheckRow
        <5> QED
          BY <2>4, <2>5, <3>1, <5>2 DEF Calm
      <4>2. ASSUME NEW s \in Statuses, Verdict(s) PROVE Calm'
        <5> DEFINE left == {r \in Chained : /\ check.lo <= r.seq /\ r.seq <= check.hi
                                           /\ check.at < r.seq}
        <5>1. check.quiet /\ check.pc = "rows" /\ check.lo >= 1
          BY <2>1, <2>4, <3>9, <4>2, VerdictFields DEF CheckRow, WalkFits
        <5>2. PICK o \in Chained : o.seq = check.lo
          BY <2>5, <5>1 DEF Calm
        <5>3. check.lo <= check.hi /\ check.hi <= head.seq
          BY <2>5, <5>1 DEF Calm
        <5>4. CASE left = {}
          <6>1. Verdict(IF check.tail /\ check.at # check.tip THEN "TAIL_MISSING" ELSE "OK")
            BY <3>9, <5>4 DEF CheckRow
          <6> QED
            BY <3>2, <3>3, <6>1
        <5>5. CASE left # {}
          <6>1. PICK r \in left :
                  /\ UpTo(left, r) = {r}
                  /\ IF check.at > 0 /\ r.seq # check.at + 1 THEN Verdict("SEQ_GAP")
                     ELSE IF ~ Continues(r) THEN Verdict("HASH_MISMATCH")
                     ELSE check' = [check EXCEPT !.at = r.seq, !.prev = r.hash]
            BY <3>9, <5>5 DEF CheckRow
          <6>2. \A v \in left : v.seq <= r.seq => v = r
            BY <6>1 DEF UpTo
          <6>3. PICK k \in Nat : k = IF check.at = 0 THEN check.lo ELSE check.at + 1
            BY <2>2
          <6>4. r \in Chained /\ k <= r.seq /\ r.seq <= check.hi
            BY <2>2, <6>1, <6>3
          <6>5. check.lo <= k
            BY <2>1, <2>2, <5>1, <6>3 DEF WalkFits
          <6>6. PICK v \in Chained : v.seq = k
            BY <2>1, <2>2, <2>5, <5>2, <5>3, <6>4, <6>5 DEF Linked, Dense
          <6>7. v \in left
            BY <2>2, <5>1, <6>3, <6>4, <6>5, <6>6
          <6>8. r.seq = k
            BY <6>2, <6>4, <6>6, <6>7
          <6>9. r.sound
            BY <2>5, <6>4 DEF Harmed
          <6>10. r.prev = check.prev
            <7>1. CASE check.at = 0
              <8>1. Fits(check.lo - 1, check.prev)
                BY <2>1, <5>1, <7>1 DEF WalkFits
              <8> QED
                BY <2>2, <6>3, <6>4, <6>8, <7>1, <8>1 DEF Fits
            <7>2. CASE check.at # 0
              <8>1. Fits(check.at, check.prev)
                BY <2>1, <5>1, <7>2 DEF WalkFits
              <8> QED
                BY <6>3, <6>4, <6>8, <7>2, <8>1 DEF Fits
            <7> QED
              BY <7>1, <7>2
          <6>11. check' = [check EXCEPT !.at = r.seq, !.prev = r.hash]
            BY <6>1, <6>3, <6>8, <6>9, <6>10 DEF Continues
          <6>12. check'.pc = "rows"
            BY <2>1, <5>1, <6>11 DEF Checks
          <6> QED
            BY <2>1, <4>2, <6>12, VerdictFields
        <5> QED
          BY <5>4, <5>5
      <4> QED
        BY <4>1, <4>2
    <3> QED
      BY <2>9, <3>5, <3>6, <3>7, <3>8, <3>9 DEF CheckStep
  <2> QED
    BY <1>3, <2>1, <2>4, <2>6, <2>7, <2>8, <2>9, CheckMoves
<1> QED
  BY <1>1, <1>2, <1>3

\* With one purging instance a verification of a past period of an undamaged
\* chain never raises an alarm while no row is deleted.
THEOREM Passes ==
  ASSUME \A i, j \in Purgers : i = j
  PROVE  Spec => []UndamagedPasses
<1>1. Init => ChainInv /\ Harmed /\ Front /\ Calm
  BY ChainInit, Blank DEF Init, Harmed, Chained, NoCheck, Front, Base, Calm
<1>2. /\ ChainInv /\ Harmed /\ Front /\ Calm /\ [Next]_vars
      => (ChainInv /\ Harmed /\ Front /\ Calm)'
  BY ChainStep, HarmedStep, FrontStep, CalmStep
<1>3. Calm => UndamagedPasses
  BY DEF Calm, UndamagedPasses
<1> QED
  BY <1>1, <1>2, <1>3, PTL DEF Spec

=============================================================================
