------------------------------ MODULE AuditChain ------------------------------
(***************************************************************************)
(* The hash chain of the audit log (apps/api/src/audit-logs) with the      *)
(* retention job that deletes its oldest rows (apps/api/src/governance).   *)
(*                                                                         *)
(* Every API instance records one call at a time: a transaction reads the  *)
(* head, moves it by compare-and-set and inserts the row; after Attempts   *)
(* failures the row is written outside the chain.  Once a day the instance *)
(* that holds the lease deletes old rows from the front, leaving the last  *)
(* one as RETENTION anchor, and may verify the chain.  A verification is a *)
(* series of queries without a transaction.                                *)
(*                                                                         *)
(* A hash is the number of the row it was computed for: SHA-256 over the   *)
(* previous hash and a random row id is taken to be injective.  A row      *)
(* outside the chain has seq 0.  Signing keys are left out.                *)
(***************************************************************************)
EXTENDS Naturals, FiniteSets

CONSTANTS
  Instances,   \* API processes
  Purgers,     \* those with DATA_RETENTION_JOB_ENABLED
  Attempts,    \* CHAIN_RETRY_ATTEMPTS
  Keep,        \* retention of audit rows
  Span,        \* AUDIT_LIMITS.defaultRangeDays
  Lease,       \* LEASE_MS of the retention job
  Batch,       \* DATA_RETENTION_BATCH_SIZE
  NoLease, NoAnchor, NoHead, Nobody,
  Servers,     \* bound: the instances requests reach
  MaxTime,     \* bound: the clock stops here
  MaxRecords,  \* bound on calls of record, those of the job apart
  MaxChecks,   \* bound on verifications
  MaxDamage,   \* bound on rows altered or lost behind the program's back
  MaxCrashes   \* bound on crashes and on stops asked of the job

ASSUME AuditAssumption ==
  /\ Purgers \subseteq Instances
  /\ Servers \subseteq Instances
  /\ Nobody \notin Instances
  /\ {Attempts, Keep, Span, Lease, Batch, MaxTime, MaxRecords, MaxChecks,
      MaxDamage, MaxCrashes} \subseteq Nat
  /\ Attempts > 0 /\ Batch > 0
  /\ NoHead \notin [seq : Nat, hash : Nat]
  /\ NoAnchor \notin [seq : Nat, hash : Nat]
  /\ NoLease \notin [by : Instances, at : Nat]

VARIABLES
  clock,    \* the shared clock, in coarse units
  head,     \* audit_chain_heads
  genesis,  \* whether the GENESIS anchor exists
  anchor,   \* the RETENTION anchor
  rows,     \* audit_logs
  lease,    \* claimToken and claimedAt of the retention job
  doneDay,  \* lastCompletedDay of the job, one more than the day
  call,     \* per instance: the call of record at work
  job,      \* per instance: the tick of the retention job
  check,    \* the verification under way
  born,     \* rows written so far: the next hash
  damaged,  \* chained rows altered or lost behind the program's back
  budget    \* what is left of the bounds above

vars == <<clock, head, genesis, anchor, rows, lease, doneDay, call, job, check,
          born, damaged, budget>>

chain == <<head, genesis, anchor, rows, born>>

GENESIS_HASH == 0

\* Rows inside the chain.
Chained == {r \in rows : r.seq > 0}

Idle == [pc |-> "idle", tries |-> 0, seen |-> [seq |-> 0, hash |-> 0]]
Off == [Idle EXCEPT !.pc = "off"]
NoJob == [pc |-> "idle", now |-> 0, partial |-> FALSE, first |-> 0, last |-> 0,
          hash |-> 0]
NoCheck == [pc |-> "idle", by |-> Nobody, from |-> 0, to |-> 0, tail |-> FALSE,
            tip |-> 0, lo |-> 0, hi |-> 0, prev |-> 0, at |-> 0,
            status |-> "NONE", hurt |-> {}, quiet |-> TRUE]

Init ==
  /\ clock = 0
  /\ head = NoHead
  /\ genesis = FALSE
  /\ anchor = NoAnchor
  /\ rows = {}
  /\ lease = NoLease
  /\ doneDay = 0
  /\ call = [i \in Instances |-> Off]
  /\ job = [i \in Instances |-> NoJob]
  /\ check = NoCheck
  /\ born = 0
  /\ damaged = {}
  /\ budget = [records |-> MaxRecords, checks |-> MaxChecks,
               damage |-> MaxDamage, crashes |-> MaxCrashes]

-----------------------------------------------------------------------------
(* Recording.                                                              *)

\* Mutant: the head is left to the first call of record.
EnsuredHead_Lazy == head

EnsuredHead ==
  IF head = NoHead THEN [seq |-> 0, hash |-> GENESIS_HASH] ELSE head

\* ensureChainHead: the transaction looks again, so head and GENESIS anchor are
\* created together and once.
Boot(i) ==
  /\ call[i].pc = "off"
  /\ call' = [call EXCEPT ![i] = Idle]
  /\ head' = EnsuredHead
  /\ genesis' = (genesis \/ head = NoHead)
  /\ UNCHANGED <<clock, anchor, rows, lease, doneDay, job, check, born, damaged,
                 budget>>

\* A call of record reaches the front of the queue of its instance.
Enter(i) == call' = [call EXCEPT ![i] = [Idle EXCEPT !.pc = "read", !.tries = 1]]

Record(i) ==
  /\ i \in Servers
  /\ call[i].pc = "idle"
  /\ budget.records > 0
  /\ budget' = [budget EXCEPT !.records = @ - 1]
  /\ Enter(i)
  /\ UNCHANGED <<clock, chain, lease, doneDay, job, check, damaged>>

ReadHead(i) ==
  /\ call[i].pc = "read"
  /\ call' = [call EXCEPT ![i].pc = "commit", ![i].seen = head]
  /\ UNCHANGED <<clock, chain, lease, doneDay, job, check, damaged, budget>>

\* Mutant: the head is written by id alone.
HeadUnmoved_Any(seen) == TRUE

\* updateMany where headSeq is still the one that was read.
HeadUnmoved(seen) == head.seq = seen.seq

Row(seq, prev) ==
  [seq |-> seq, prev |-> prev, hash |-> born + 1, at |-> clock, sound |-> TRUE]

\* Head and row are written in one transaction.
Commit(i) ==
  /\ call[i].pc = "commit"
  /\ HeadUnmoved(call[i].seen)
  /\ LET r == Row(call[i].seen.seq + 1, call[i].seen.hash)
     IN /\ head' = [seq |-> r.seq, hash |-> r.hash]
        /\ rows' = rows \cup {r}
  /\ born' = born + 1
  /\ call' = [call EXCEPT ![i] = Idle]
  /\ UNCHANGED <<clock, genesis, anchor, lease, doneDay, job, check, damaged,
                 budget>>

\* The compare-and-set fails, or the database is busy in either statement: an
\* attempt that fails in the first one changes no more than one that fails here.
Retry(i) ==
  /\ call[i].pc = "commit"
  /\ call' = [call EXCEPT ![i] =
       IF @.tries < Attempts
       THEN [Idle EXCEPT !.pc = "read", !.tries = call[i].tries + 1]
       ELSE [Idle EXCEPT !.pc = "loose"]]
  /\ UNCHANGED <<clock, chain, lease, doneDay, job, check, damaged, budget>>

\* The row is written outside the chain, or the call fails and is swallowed.
WriteLoose(i) ==
  /\ call[i].pc = "loose"
  /\ call' = [call EXCEPT ![i] = Idle]
  /\ \/ /\ rows' = rows \cup {Row(0, 0)}
        /\ born' = born + 1
     \/ UNCHANGED <<rows, born>>
  /\ UNCHANGED <<clock, head, genesis, anchor, lease, doneDay, job, check,
                 damaged, budget>>

-----------------------------------------------------------------------------
(* The retention job.                                                      *)

\* Mutant: a lease ends with its release only.
LeaseExpired_Never(claimedAt) == FALSE

LeaseExpired(claimedAt) == claimedAt + Lease < clock

\* Reading the lease and taking it by compare-and-set: it succeeds only if
\* nothing changed in between.
Tick(i) ==
  /\ i \in Purgers
  /\ call[i].pc # "off"
  /\ job[i].pc = "idle"
  /\ doneDay # clock + 1
  /\ lease # NoLease => LeaseExpired(lease.at)
  /\ lease' = [by |-> i, at |-> clock]
  /\ job' = [job EXCEPT ![i] = [NoJob EXCEPT !.pc = "purge", !.now = clock]]
  /\ UNCHANGED <<clock, chain, doneDay, call, check, damaged, budget>>

\* The token of the lease is the one this tick took.
Owns(i) == lease = [by |-> i, at |-> job[i].now]

Old(r, now) == r.at + Keep < now

\* Old rows outside the chain go first.
OldLoose(now) == {r \in rows \ Chained : Old(r, now)}

PurgeLoose(i) ==
  /\ job[i].pc = "purge"
  /\ \E gone \in SUBSET OldLoose(job[i].now) :
       /\ gone # {}
       /\ \/ Cardinality(gone) = Batch
          \/ Cardinality(gone) < Batch /\ gone = OldLoose(job[i].now)
       /\ rows' = rows \ gone
  /\ UNCHANGED <<clock, head, genesis, anchor, lease, doneDay, call, job, check,
                 born, damaged, budget>>

\* The rows before the first one to keep.
Expired(now) ==
  {r \in Chained : \A k \in Chained : ~ Old(k, now) => r.seq < k.seq}

UpTo(S, l) == {r \in S : r.seq <= l.seq}

\* The batch runs from the first row to row l.
BatchEnd(S, l) ==
  \/ Cardinality(UpTo(S, l)) = Batch
  \/ Cardinality(S) < Batch /\ UpTo(S, l) = S

\* Head, first row to keep and batch are three reads; rows that are added in
\* between are too young to be in any of them.
PurgeRead(i) ==
  /\ job[i].pc = "purge"
  /\ OldLoose(job[i].now) = {}
  /\ LET old == Expired(job[i].now)
     IN IF old = {} THEN job' = [job EXCEPT ![i].pc = "verify"]
        ELSE \E f, l \in old :
               /\ UpTo(old, f) = {f}
               /\ BatchEnd(old, l)
               /\ job' = [job EXCEPT ![i].pc = "delete", ![i].first = f.seq,
                                     ![i].last = l.seq, ![i].hash = l.hash]
  /\ UNCHANGED <<clock, chain, lease, doneDay, call, check, damaged, budget>>

\* Mutant: the last row of the batch stays, the anchor names it all the same.
Between_Short(r, first, last) == first <= r.seq /\ r.seq < last

Between(r, first, last) == first <= r.seq /\ r.seq <= last

\* Deletion and anchor in one transaction; a batch that deleted nothing ends
\* the loop.
PurgeDelete(i) ==
  /\ job[i].pc = "delete"
  /\ rows' = {r \in rows : ~ Between(r, job[i].first, job[i].last)}
  /\ anchor' = [seq |-> job[i].last, hash |-> job[i].hash]
  /\ job' = [job EXCEPT ![i] =
       [NoJob EXCEPT !.pc = IF rows' = rows THEN "verify" ELSE "purge",
                     !.now = job[i].now]]
  /\ check' = [check EXCEPT !.quiet = check.pc = "idle"]
  /\ UNCHANGED <<clock, head, genesis, lease, doneDay, call, born, damaged,
                 budget>>

\* The loop is asked to stop, or the rows of this run are used up.
Interrupt(i) ==
  /\ job[i].pc = "purge"
  /\ budget.crashes > 0
  /\ budget' = [budget EXCEPT !.crashes = @ - 1]
  /\ job' = [job EXCEPT ![i].pc = "verify", ![i].partial = TRUE]
  /\ UNCHANGED <<clock, chain, lease, doneDay, call, check, damaged>>

\* A query of the tick throws: only the lease is given back.
Abort(i) ==
  /\ job[i].pc \in {"purge", "delete"}
  /\ budget.crashes > 0
  /\ budget' = [budget EXCEPT !.crashes = @ - 1]
  /\ lease' = IF Owns(i) THEN NoLease ELSE lease
  /\ job' = [job EXCEPT ![i] = NoJob]
  /\ UNCHANGED <<clock, chain, doneDay, call, check, damaged>>

Begin(who, from, to, tail) ==
  [NoCheck EXCEPT !.pc = "head", !.by = who, !.from = from, !.to = to,
                  !.tail = tail, !.hurt = damaged]

\* The weekly verification, up to the time the tick began; or it is not due.
Weekly(i) ==
  /\ job[i].pc = "verify"
  /\ \/ /\ job' = [job EXCEPT ![i].pc = "report"]
        /\ UNCHANGED <<check, budget>>
     \/ /\ check.pc = "idle"
        /\ budget.checks > 0
        /\ budget' = [budget EXCEPT !.checks = @ - 1]
        /\ LET now == job[i].now
           IN check' = Begin(i, IF now > Span THEN now - Span ELSE 0, now, TRUE)
        /\ job' = [job EXCEPT ![i].pc = "checking"]
  /\ UNCHANGED <<clock, chain, lease, doneDay, call, damaged>>

Checked(i) ==
  /\ job[i].pc = "checking"
  /\ check.by = i /\ check.pc = "done"
  /\ check' = NoCheck
  /\ job' = [job EXCEPT ![i].pc = "report"]
  /\ UNCHANGED <<clock, chain, lease, doneDay, call, damaged, budget>>

\* The run is recorded in the audit log itself.
Report(i) ==
  /\ job[i].pc = "report"
  /\ call[i].pc = "idle"
  /\ Enter(i)
  /\ job' = [job EXCEPT ![i].pc = "close"]
  /\ UNCHANGED <<clock, chain, lease, doneDay, check, damaged, budget>>

Close(i) ==
  /\ job[i].pc = "close"
  /\ call[i].pc = "idle"
  /\ doneDay' = IF job[i].partial THEN doneDay ELSE job[i].now + 1
  /\ lease' = IF Owns(i) THEN NoLease ELSE lease
  /\ job' = [job EXCEPT ![i] = NoJob]
  /\ UNCHANGED <<clock, chain, call, check, damaged, budget>>

-----------------------------------------------------------------------------
(* Verification.                                                           *)

Manual ==
  /\ \E i \in Instances : call[i].pc # "off"
  /\ check.pc = "idle"
  /\ budget.checks > 0
  /\ budget' = [budget EXCEPT !.checks = @ - 1]
  /\ \E to \in 0 .. clock, tail \in BOOLEAN : \E from \in 0 .. to :
       /\ tail => to = clock
       /\ check' = Begin(Nobody, from, to, tail)
  /\ UNCHANGED <<clock, chain, lease, doneDay, call, job, damaged>>

Answer ==
  /\ check.pc = "done"
  /\ check.by = Nobody
  /\ check' = NoCheck
  /\ UNCHANGED <<clock, chain, lease, doneDay, call, job, damaged, budget>>

CheckHead ==
  /\ check.pc = "head"
  /\ check' = [check EXCEPT !.pc = "range", !.tip = head.seq]

\* What was read is dropped with the answer.
Verdict(status) ==
  check' = [NoCheck EXCEPT !.pc = "done", !.by = check.by, !.tail = check.tail,
                           !.lo = check.lo, !.at = check.at, !.hurt = check.hurt,
                           !.quiet = check.quiet, !.status = status]

\* The first and the last sequence number among the rows of the period.
CheckRange ==
  /\ check.pc = "range"
  /\ LET period == {r \in Chained : check.from <= r.at /\ r.at <= check.to}
     IN IF period = {} THEN Verdict("EMPTY")
        ELSE \E f, l \in period :
               /\ \A r \in period : f.seq <= r.seq /\ r.seq <= l.seq
               /\ check' = [check EXCEPT !.pc = "start", !.lo = f.seq, !.hi = l.seq,
                                         !.from = 0, !.to = 0]

Walk(hash) == check' = [check EXCEPT !.pc = "rows", !.prev = hash]

\* resolveStartHash: the GENESIS anchor or the row before the first one, ...
CheckStart ==
  /\ check.pc = "start"
  /\ IF check.lo = 1
     THEN IF genesis THEN Walk(GENESIS_HASH) ELSE Verdict("ANCHOR_MISSING")
     ELSE IF \E r \in Chained : r.seq + 1 = check.lo
          THEN \E r \in Chained : r.seq + 1 = check.lo /\ Walk(r.hash)
          ELSE check' = [check EXCEPT !.pc = "anchor"]

\* Mutant: the anchor is looked up by the first row that is left.
AnchorFor_First(lo) == anchor # NoAnchor /\ anchor.seq = lo

AnchorFor(lo) == anchor # NoAnchor /\ anchor.seq + 1 = lo

\* ... or else the RETENTION anchor.
CheckAnchor ==
  /\ check.pc = "anchor"
  /\ IF AnchorFor(check.lo)
     THEN Walk(anchor.hash) ELSE Verdict("ANCHOR_MISSING")

\* Mutant: the links are compared, the hashes not computed again.
Continues_LinksOnly(r) == r.prev = check.prev

\* A row continues the one before it and its content gives its hash.
Continues(r) == r.prev = check.prev /\ r.sound

\* Rows are read in pages and compared afterwards; reading a page of one row
\* and comparing it at once allows every interleaving of the code and more.
CheckRow ==
  /\ check.pc = "rows"
  /\ LET left == {r \in Chained : /\ check.lo <= r.seq /\ r.seq <= check.hi
                                  /\ check.at < r.seq}
     IN IF left = {}
        THEN Verdict(IF check.tail /\ check.at # check.tip
                     THEN "TAIL_MISSING" ELSE "OK")
        ELSE \E r \in left :
               /\ UpTo(left, r) = {r}
               /\ IF check.at > 0 /\ r.seq # check.at + 1 THEN Verdict("SEQ_GAP")
                  ELSE IF ~ Continues(r) THEN Verdict("HASH_MISMATCH")
                  ELSE check' = [check EXCEPT !.at = r.seq, !.prev = r.hash]

CheckStep ==
  /\ CheckHead \/ CheckRange \/ CheckStart \/ CheckAnchor \/ CheckRow
  /\ UNCHANGED <<clock, chain, lease, doneDay, call, job, damaged, budget>>

-----------------------------------------------------------------------------
(* The environment.                                                        *)

Advance ==
  /\ clock < MaxTime
  /\ clock' = clock + 1
  /\ UNCHANGED <<chain, lease, doneDay, call, job, check, damaged, budget>>

\* An instance dies with what it had in memory.
Crash(i) ==
  /\ call[i].pc # "off"
  /\ budget.crashes > 0
  /\ budget' = [budget EXCEPT !.crashes = @ - 1]
  /\ call' = [call EXCEPT ![i] = Off]
  /\ job' = [job EXCEPT ![i] = NoJob]
  /\ check' = IF check.by = i THEN NoCheck ELSE check
  /\ UNCHANGED <<clock, chain, lease, doneDay, damaged>>

\* A row is altered or lost behind the program's back, while a verification is
\* still to come.
Damage ==
  /\ budget.damage > 0
  /\ budget.checks > 0
  /\ budget' = [budget EXCEPT !.damage = @ - 1]
  /\ \E r \in Chained :
       /\ damaged' = damaged \cup {r.seq}
       /\ \E new \in {{}, {[r EXCEPT !.sound = FALSE]}} :
            rows' = (rows \ {r}) \cup new
  /\ UNCHANGED <<clock, head, genesis, anchor, lease, doneDay, call, job, check,
                 born>>

CallStep(i) == ReadHead(i) \/ Commit(i) \/ Retry(i) \/ WriteLoose(i)

JobStep(i) ==
  \/ PurgeLoose(i) \/ PurgeRead(i) \/ PurgeDelete(i)
  \/ Weekly(i) \/ Checked(i) \/ Report(i) \/ Close(i)

Next ==
  \/ \E i \in Instances :
       \/ Boot(i) \/ Record(i) \/ CallStep(i)
       \/ Tick(i) \/ JobStep(i) \/ Interrupt(i) \/ Abort(i) \/ Crash(i)
  \/ Manual \/ Answer \/ CheckStep \/ Advance \/ Damage

Spec == Init /\ [][Next]_vars

\* Polling loops run, calls end one way or another, requests are answered.
Fairness ==
  /\ WF_vars(Advance) /\ WF_vars(CheckStep) /\ WF_vars(Answer)
  /\ \A i \in Instances :
       /\ WF_vars(Boot(i)) /\ WF_vars(CallStep(i))
       /\ WF_vars(Tick(i)) /\ WF_vars(JobStep(i))

FairSpec == Spec /\ Fairness

-----------------------------------------------------------------------------
(* Properties.                                                             *)

Link == [seq : Nat, hash : Nat]

Statuses == {"NONE", "OK", "EMPTY", "HASH_MISMATCH", "SEQ_GAP", "TAIL_MISSING",
             "ANCHOR_MISSING"}

\* The variables have their types, and an instance records, purges and waits
\* for a chain only after its start made sure there is one.
TypeOK ==
  /\ clock \in Nat /\ born \in Nat /\ doneDay \in Nat
  /\ head \in Link \cup {NoHead}
  /\ genesis \in BOOLEAN
  /\ anchor \in Link \cup {NoAnchor}
  /\ rows \in SUBSET [seq : Nat, prev : Nat, hash : Nat, at : Nat, sound : BOOLEAN]
  /\ lease \in [by : Instances, at : Nat] \cup {NoLease}
  /\ call \in [Instances ->
       [pc : {"off", "idle", "read", "commit", "loose"}, tries : Nat, seen : Link]]
  /\ job \in [Instances ->
       [pc : {"idle", "purge", "delete", "verify", "checking", "report", "close"},
        now : Nat, partial : BOOLEAN, first : Nat, last : Nat, hash : Nat]]
  /\ check \in
       [pc : {"idle", "head", "range", "start", "anchor", "rows", "done"},
        by : Instances \cup {Nobody}, from : Nat, to : Nat, tail : BOOLEAN,
        tip : Nat, lo : Nat, hi : Nat, prev : Nat, at : Nat, status : Statuses,
        hurt : SUBSET Nat, quiet : BOOLEAN]
  /\ damaged \subseteq Nat
  /\ budget \in [records : Nat, checks : Nat, damage : Nat, crashes : Nat]
  /\ (\E i \in Instances : call[i].pc # "off" \/ job[i].pc # "idle")
       => head # NoHead

\* Whatever calls contend, fail and crash and whatever the job deletes, the rows
\* of an undamaged chain have the numbers of an interval that ends at the head,
\* none twice and none missing, and each carries the hash of the one before it:
\* a gap is evidence of a deletion (record, deleteAuditLogsBatch).
ChainIntact ==
  damaged = {} =>
    /\ \A r, s \in Chained : r.seq = s.seq => r = s
    /\ \A r \in Chained :
         \/ r.seq = head.seq /\ r.hash = head.hash
         \/ \E s \in Chained : s.seq = r.seq + 1 /\ s.prev = r.hash

\* With one purging instance the first row that is left continues the RETENTION
\* anchor, or the GENESIS anchor when nothing was purged, however the job was
\* stopped: a verification of everything that is left can always start.
AnchorReaches ==
  damaged = {} =>
    \A r \in Chained :
      (\A s \in Chained : r.seq <= s.seq) =>
        IF anchor = NoAnchor
        THEN genesis /\ r.seq = 1 /\ r.prev = GENESIS_HASH
        ELSE r.seq = anchor.seq + 1 /\ r.prev = anchor.hash

\* A verification that says OK did not pass over a row that had been altered or
\* lost when it began (verify, verifySegment).
DamageReported ==
  check.status = "OK" =>
    \A n \in check.hurt : ~ (check.lo <= n /\ n <= check.at)

\* A verification of a past period of an undamaged chain never raises an alarm
\* while no row is deleted, however many rows are being recorded.
UndamagedPasses ==
  check.pc = "done" /\ damaged = {} /\ ~ check.tail /\ check.quiet
    => check.status \in {"OK", "EMPTY"}

\* "A head that is ahead of the last row means TAIL_MISSING: the newest rows were
\* deleted" - so a chain nobody damaged is never reported.
NoFalseAlarm ==
  check.pc = "done" /\ damaged = {} => check.status \in {"OK", "EMPTY"}

\* Rows older than the retention period go in the end, although a job may die
\* with the lease or be stopped half way; unless it died so late that the clock
\* stops before its lease has expired, or rows were lost under its hands, which
\* puts the rest off until the next day.
OldRowsGo ==
  <>[](\/ damaged # {}
       \/ \A r \in rows : ~ Old(r, MaxTime)
       \/ lease # NoLease /\ lease.at + Lease >= MaxTime)
=============================================================================
