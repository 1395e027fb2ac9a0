---------------------------- MODULE HandoffProofs ----------------------------
(***************************************************************************)
(* Proofs about Handoff.  Every step leaves each row of the session as it  *)
(* is, moves it by RowStep, or adds a row while none is active (Moves):    *)
(* what is true of one row for ever follows from RowStep alone.            *)
(***************************************************************************)
EXTENDS Handoff, SequenceTheorems, WellFoundedInduction, TLAPS

Ended(kind) == kind \in {"ENDED", "FAILED"}

\* The message msg may follow in row x, which becomes y.
Follows(x, y, msg) ==
  \/ msg.kind = "USER" /\ y.status = x.status /\ y.assignee = x.assignee
  \/ /\ msg.kind = "AGENT" /\ msg.by = x.assignee
     /\ Active(x) /\ y.status = x.status /\ y.assignee = x.assignee
  \/ /\ msg.kind = "TAKEOVER" /\ msg.by = y.assignee
     /\ Active(x) /\ y.status = x.status
  \/ /\ Ended(msg.kind) /\ Active(x) /\ y.status = "ENDED" /\ y.assignee = x.assignee

\* What a step may make of row x.
RowStep(x, y) ==
  /\ y \in Handoffs
  /\ x.mode # "NONE" => y.mode = x.mode
  /\ \/ /\ y.thread = x.thread /\ y.assignee = x.assignee
        /\ Active(y) <=> Active(x)
     \/ \E msg \in Message :
          /\ y.thread = Append(x.thread, msg)
          /\ Follows(x, y, msg)

-----------------------------------------------------------------------------
(* The writes of the thread service.                                       *)

LEMMA SameRow ==
  ASSUME NEW x \in Handoffs
  PROVE  RowStep(x, x)
BY DEF RowStep

LEMMA SpokenRow ==
  ASSUME NEW x \in Handoffs, NEW msg \in Message,
         \/ msg.kind = "USER"
         \/ msg.kind = "AGENT" /\ Active(x) /\ msg.by = x.assignee
  PROVE  RowStep(x, Spoken(x, msg))
<1> DEFINE raw == x.raw \/ msg.kind = "USER"
           past == IF x.status = "CONNECTED" THEN x.past \ {"idle"} ELSE x.past
           thread == Append(x.thread, msg)
<1>a. Spoken(x, msg) = [x EXCEPT !.thread = thread, !.raw = raw, !.past = past]
  BY DEF Spoken, Handoffs
<1>b. raw \in BOOLEAN
  OBVIOUS
<1>c. past \in SUBSET {"idle", "reply", "grace"}
  BY DEF Handoffs
<1>d. thread \in Seq(Message)
  BY DEF Handoffs
<1> HIDE DEF raw, past, thread
<1>1. Spoken(x, msg) \in Handoffs
  BY <1>a, <1>b, <1>c, <1>d DEF Handoffs
<1>2. /\ Spoken(x, msg).thread = Append(x.thread, msg)
      /\ Spoken(x, msg).status = x.status
      /\ Spoken(x, msg).assignee = x.assignee
      /\ Spoken(x, msg).mode = x.mode
  BY DEF Spoken, Handoffs
<1>3. Follows(x, Spoken(x, msg), msg)
  BY <1>2 DEF Follows
<1> QED
  BY <1>1, <1>2, <1>3 DEF RowStep

LEMMA ConnectedRow ==
  ASSUME NEW x \in Handoffs, NEW mode \in {"MODERN", "LEGACY"}, Unissued(x)
  PROVE  RowStep(x, Connected(x, mode)) /\ Connected(x, mode).mode = mode
<1>1. Connected(x, mode) \in Handoffs
  BY DEF Connected, Handoffs, Statuses
<1>2. /\ Connected(x, mode).thread = x.thread
      /\ Connected(x, mode).assignee = x.assignee
      /\ Connected(x, mode).mode = mode
      /\ Active(Connected(x, mode)) /\ Active(x)
  BY DEF Connected, Handoffs, Active, Unissued
<1> QED
  BY <1>1, <1>2 DEF RowStep, Unissued

LEMMA EndStep ==
  ASSUME NEW x \in Handoffs, NEW why
  PROVE  RowStep(x, EndedRow(x, why))
<1> DEFINE msg == Said(EndKind(why), Nobody)
           y == EndedRow(x, why)
<1>1. CASE ~Active(x)
  <2>1. y = [x EXCEPT !.raw = FALSE]
    BY <1>1 DEF EndedRow, Ends
  <2>2. y \in Handoffs /\ y.thread = x.thread /\ y.assignee = x.assignee
        /\ y.status = x.status /\ y.mode = x.mode
    BY <2>1 DEF Handoffs
  <2> QED
    BY <2>2 DEF RowStep, Active
<1>2. CASE Active(x)
  <2>1. msg \in Message /\ Ended(msg.kind)
    BY DEF Said, EndKind, Message, Kinds, Ended
  <2>2. y = [x EXCEPT !.status = "ENDED", !.past = {}, !.raw = FALSE,
                      !.thread = Append(x.thread, msg)]
    BY <1>2 DEF EndedRow, Ends, Handoffs
  <2>3. Append(x.thread, msg) \in Seq(Message)
    BY <2>1 DEF Handoffs
  <2> HIDE DEF msg
  <2>4. y \in Handoffs
    BY <2>2, <2>3 DEF Handoffs, Statuses
  <2>5. /\ y.thread = Append(x.thread, msg)
        /\ y.status = "ENDED" /\ y.assignee = x.assignee /\ y.mode = x.mode
    BY <2>2 DEF Handoffs
  <2>6. Follows(x, y, msg)
    BY <1>2, <2>1, <2>5 DEF Follows
  <2> HIDE DEF y
  <2> QED
    BY <2>1, <2>4, <2>5, <2>6 DEF RowStep, y
<1> QED
  BY <1>1, <1>2

LEMMA TakenRow ==
  ASSUME NEW x \in Handoffs, NEW a \in Agents, Active(x)
  PROVE  RowStep(x, [x EXCEPT !.assignee = a,
                              !.thread = Append(@, Said("TAKEOVER", a))])
<1> DEFINE msg == Said("TAKEOVER", a)
           thread == Append(x.thread, msg)
           y == [x EXCEPT !.assignee = a, !.thread = thread]
<1>1. /\ msg \in Message /\ msg.kind = "TAKEOVER" /\ msg.by = a
  BY DEF Said, Message, Kinds
<1>2. thread \in Seq(Message)
  BY <1>1 DEF Handoffs
<1>3. y.thread = Append(x.thread, msg) /\ y.status = x.status /\ y.assignee = a
      /\ y.mode = x.mode
  BY DEF Handoffs
<1> HIDE DEF thread, msg
<1>4. y \in Handoffs
  BY <1>2 DEF Handoffs
<1>5. Follows(x, y, msg)
  BY <1>1, <1>3 DEF Follows
<1>6. y = [x EXCEPT !.assignee = a, !.thread = Append(@, Said("TAKEOVER", a))]
  BY DEF thread, msg, Handoffs
<1> QED
  BY <1>1, <1>3, <1>4, <1>5, <1>6 DEF RowStep

\* Changes of a row that nobody reads in its thread.
LEMMA QuietRow ==
  ASSUME NEW x \in Handoffs,
         NEW past \in SUBSET {"idle", "reply", "grace"},
         NEW raw \in BOOLEAN, NEW delivered \in Nat
  PROVE  /\ RowStep(x, [x EXCEPT !.past = past])
         /\ RowStep(x, [x EXCEPT !.raw = raw])
         /\ RowStep(x, [x EXCEPT !.delivered = delivered])
<1>1. /\ [x EXCEPT !.past = past] \in Handoffs
      /\ [x EXCEPT !.raw = raw] \in Handoffs
      /\ [x EXCEPT !.delivered = delivered] \in Handoffs
  BY DEF Handoffs
<1>2. \A y \in {[x EXCEPT !.past = past], [x EXCEPT !.raw = raw],
              [x EXCEPT !.delivered = delivered]} :
        /\ y.thread = x.thread /\ y.assignee = x.assignee
        /\ y.status = x.status /\ y.mode = x.mode
  BY DEF Handoffs
<1> QED
  BY <1>1, <1>2 DEF RowStep, Active

-----------------------------------------------------------------------------
(* Steps of the session.                                                   *)

Keeps ==
  /\ handoff' \in Seq(Handoffs) /\ Len(handoff') = Len(handoff)
  /\ \A h \in DOMAIN handoff : RowStep(handoff[h], handoff'[h])

Adds == ~HasActive /\ \E a \in Agents : handoff' = Append(handoff, Begun(a))

Moves == Keeps \/ Adds

LEMMA OneRow ==
  ASSUME handoff \in Seq(Handoffs), NEW h \in DOMAIN handoff,
         NEW y, RowStep(handoff[h], y), handoff' = [handoff EXCEPT ![h] = y]
  PROVE  Keeps
<1>1. y \in Handoffs
  BY DEF RowStep
<1>2. /\ handoff' \in Seq(Handoffs) /\ Len(handoff') = Len(handoff)
      /\ \A j \in DOMAIN handoff : handoff'[j] = IF j = h THEN y ELSE handoff[j]
  BY <1>1
<1>3. \A j \in DOMAIN handoff : RowStep(handoff[j], handoff[j])
  BY SameRow
<1> QED
  BY <1>2, <1>3 DEF Keeps

LEMMA NoRow ==
  ASSUME handoff \in Seq(Handoffs), UNCHANGED handoff
  PROVE  Keeps
BY SameRow DEF Keeps

LEMMA EndMoves ==
  ASSUME handoff \in Seq(Handoffs), NEW h \in DOMAIN handoff, NEW why,
         EndHandoff(h, why)
  PROVE  Keeps
<1>1. handoff' = [handoff EXCEPT ![h] = EndedRow(handoff[h], why)]
  BY DEF EndHandoff
<1>2. handoff[h] \in Handoffs
  OBVIOUS
<1> QED
  BY <1>1, <1>2, EndStep, OneRow

-----------------------------------------------------------------------------
(* Types.                                                                  *)

RowsOK ==
  /\ handoff \in Seq(Handoffs)
  /\ \A h \in DOMAIN handoff : Active(handoff[h]) => h = latest

ConsoleOK ==
  /\ setting \in {"on", "draining", "off"} /\ cached \in {"on", "draining", "off"}
  /\ edit \in {"none", "on", "draining", "off"} /\ open \in BOOLEAN

ActsOK ==
  /\ act \in [Agents -> Acts]
  /\ \A a \in Agents : act[a].pc \in {"reply", "end"} => act[a].h \in DOMAIN handoff

SweepOK ==
  /\ sweep \in Sweeps
  /\ sweep.pc = "end" => sweep.h \in DOMAIN handoff

Placed(q) == q.pc \notin {"idle", "sent", "answer"} => q.h \in DOMAIN handoff

\* What the cursor is moved to is there to be moved to, and a request that has
\* not been read gives nothing.
Bounded(q) ==
  /\ q.pc = "advance" => q.got # {} /\ \E n \in Nat : \A k \in q.got : k =< n
  /\ q.pc = "sent" => ~q.gives
  /\ q.then \notin {"advance", "sent"}
Whole == \A r \in Requests : Bounded(req[r])

ReqsOK ==
  /\ req \in [Requests -> Calls]
  /\ \A r \in Requests : Placed(req[r])

ClientOK == page \in Pages /\ shown \subseteq Nat \X Nat /\ cut \in BOOLEAN
LeftOK == left \in [{"ops", "sends", "extras", "faults"} -> Nat]

LEMMA Parts ==
  TypeOK <=> /\ RowsOK /\ ConsoleOK /\ ActsOK /\ SweepOK
             /\ ReqsOK /\ ClientOK /\ LeftOK
BY DEF TypeOK, RowsOK, ConsoleOK, ActsOK, SweepOK, ReqsOK, Placed, ClientOK, LeftOK

LEMMA BegunRow ==
  ASSUME NEW a \in Agents
  PROVE  Begun(a) \in Handoffs
<1>1. Said("CONNECTED", a) \in Message
  BY DEF Said, Message, Kinds
<1> QED
  BY <1>1 DEF Begun, Handoffs, Statuses

LEMMA RowsKept ==
  ASSUME RowsOK, Moves
  PROVE  RowsOK' /\ DOMAIN handoff \subseteq DOMAIN handoff'
<1>1. CASE Keeps
  <2>1. /\ handoff' \in Seq(Handoffs) /\ Len(handoff') = Len(handoff)
        /\ DOMAIN handoff' = DOMAIN handoff
    BY <1>1 DEF Keeps, RowsOK
  <2>2. ASSUME NEW h \in DOMAIN handoff', Active(handoff'[h])
        PROVE  h = Len(handoff')
    <3>1. RowStep(handoff[h], handoff'[h])
      BY <1>1, <2>1 DEF Keeps
    <3>2. Active(handoff[h])
      BY <2>2, <3>1 DEF RowStep, Follows, Active
    <3> QED
      BY <2>1, <3>2 DEF RowsOK, latest
  <2> QED
    BY <2>1, <2>2 DEF RowsOK, latest, Active
<1>2. CASE Adds
  <2>1. PICK a \in Agents : handoff' = Append(handoff, Begun(a))
    BY <1>2 DEF Adds
  <2>2. /\ handoff' \in Seq(Handoffs) /\ Len(handoff') = Len(handoff) + 1
        /\ \A h \in DOMAIN handoff : handoff'[h] = handoff[h] /\ h \in DOMAIN handoff'
        /\ \A h \in DOMAIN handoff' : h \in DOMAIN handoff \/ h = Len(handoff')
    BY <2>1, BegunRow DEF RowsOK
  <2>3. \A h \in DOMAIN handoff : ~Active(handoff[h])
    BY <1>2 DEF Adds, HasActive, RowsOK, latest
  <2> QED
    BY <2>2, <2>3 DEF RowsOK, latest, Active
<1> QED
  BY <1>1, <1>2 DEF Moves

\* What a step that leaves the variables alone keeps, though rows are added.
LEMMA ActsKept ==
  ASSUME ActsOK, DOMAIN handoff \subseteq DOMAIN handoff', UNCHANGED act
  PROVE  ActsOK'
BY DEF ActsOK

LEMMA SweepKept ==
  ASSUME SweepOK, DOMAIN handoff \subseteq DOMAIN handoff', UNCHANGED sweep
  PROVE  SweepOK'
BY DEF SweepOK

LEMMA ReqsKept ==
  ASSUME ReqsOK, DOMAIN handoff \subseteq DOMAIN handoff', UNCHANGED req
  PROVE  ReqsOK'
BY DEF ReqsOK, Placed

LEMMA ActTyped ==
  ASSUME ActsOK, DOMAIN handoff \subseteq DOMAIN handoff',
         NEW a \in Agents, NEW x \in Acts, act' = [act EXCEPT ![a] = x],
         x.pc \in {"reply", "end"} => x.h \in DOMAIN handoff
  PROVE  ActsOK'
BY DEF ActsOK

LEMMA SpendTyped ==
  ASSUME LeftOK, NEW what \in {"ops", "sends", "extras", "faults"}, Spend(what)
  PROVE  LeftOK'
<1>1. left["ops"] \in Nat \ {0} /\ left[what] \in Nat \ {0}
  BY DEF Spend, LeftOK
<1> QED
  BY <1>1 DEF Spend, LeftOK

LEMMA NoReqTyped == NoReq \in Calls
BY DEF NoReq, Calls, Steps, Reasons, Answers

LEMMA SettledTyped ==
  ASSUME NEW q \in Calls
  PROVE  /\ Settled(q) \in Calls
         /\ Placed(q) => Placed(Settled(q))
         /\ Bounded(q) => Bounded(Settled(q))
<1> DEFINE token == IF q.says = "bot" THEN q.token ELSE 0
           h == IF q.gives \/ q.got # {} \/ q.says = "page" THEN q.h ELSE 0
           last == IF q.says = "page" THEN Larger(q.after, q.last)
                   ELSE IF q.says = "none" THEN q.after ELSE 0
           y == [q EXCEPT !.after = 0, !.token = token, !.h = h, !.last = last]
<1>1. token \in Nat /\ h \in Nat /\ last \in Nat
  BY DEF Calls, Larger
<1>2. Settled(q) \in {q, NoReq, y}
  BY DEF Settled, Calls
<1> HIDE DEF token, h, last
<1>3. y \in Calls /\ y.pc = q.pc /\ y.then = q.then
  BY <1>1 DEF Calls
<1>4. q.pc # "answer" => Settled(q) = q
  BY DEF Settled
<1>5. q.pc = "answer" => /\ Settled(q).pc \in {"idle", "answer"}
                         /\ Settled(q).then \in {q.then, "idle"}
  BY <1>2, <1>3 DEF Settled, NoReq
<1> QED
  BY <1>2, <1>3, <1>4, <1>5, NoReqTyped DEF Placed, Bounded

\* No request comes to give a token.
Fewer ==
  \A x \in Requests :
    (req'[x]).gives => req[x].gives /\ (req'[x]).h = req[x].h

LEMMA GoesFewer ==
  ASSUME ReqsOK, NEW r \in Requests, NEW q, Goes(r, q),
         q.gives => req[r].gives /\ q.h = req[r].h
  PROVE  Fewer
<1>1. Settled(q).gives => q.gives /\ Settled(q).h = q.h
  BY DEF Settled, NoReq
<1> HIDE DEF Settled
<1> QED
  BY <1>1 DEF Goes, ReqsOK, Fewer

LEMMA GoesTyped ==
  ASSUME ReqsOK, DOMAIN handoff \subseteq DOMAIN handoff',
         NEW r \in Requests, NEW q \in Calls, Placed(q), Goes(r, q),
         Whole, Bounded(q)
  PROVE  ReqsOK' /\ Whole'
<1>1. Settled(q) \in Calls /\ Placed(Settled(q)) /\ Bounded(Settled(q))
  BY SettledTyped
<1>2. ReqsOK'
  BY <1>1 DEF Goes, ReqsOK, Placed
<1>3. Whole'
  BY <1>1 DEF Goes, ReqsOK, Whole, Bounded
<1> QED
  BY <1>2, <1>3

-----------------------------------------------------------------------------
(* One lemma per action: its move, and the types of what it changes.       *)

LEMMA InitTyped == Init => TypeOK
<1> SUFFICES ASSUME Init PROVE TypeOK
  OBVIOUS
<1>1. RowsOK /\ ConsoleOK
  BY DEF Init, RowsOK, ConsoleOK
<1>2. ActsOK /\ SweepOK
  BY DEF Init, ActsOK, Acts, NoAct, SweepOK, Sweeps, NoSweep, Reasons
<1>3. ReqsOK
  BY NoReqTyped DEF Init, ReqsOK, Placed, NoReq
<1>4. ClientOK
  <2>1. page \in Pages
    BY DEF Init, Pages, NewPage
  <2>2. shown = {} /\ cut = FALSE
    BY DEF Init
  <2> QED
    BY <2>1, <2>2 DEF ClientOK
<1>5. LeftOK
  BY HandoffAssumption DEF Init, LeftOK
<1> QED
  BY <1>1, <1>2, <1>3, <1>4, <1>5, Parts

LEMMA LatestRow ==
  ASSUME RowsOK, HasActive \/ latest > 0
  PROVE  latest \in DOMAIN handoff /\ handoff[latest] \in Handoffs
BY DEF RowsOK, latest, HasActive

LEMMA TimePassesMoves ==
  ASSUME TypeOK, TimePasses
  PROVE  Keeps /\ UNCHANGED <<console, act, sweep, req, client, left>>
<1>1. PICK limit \in {"idle", "reply", "grace"} :
        handoff' = [handoff EXCEPT ![latest].past = @ \cup {limit}]
  BY DEF TimePasses
<1>2. latest \in DOMAIN handoff /\ handoff[latest] \in Handoffs
  BY LatestRow, Parts DEF TimePasses
<1> DEFINE x == handoff[latest]
           past == x.past \cup {limit}
<1>3. past \in SUBSET {"idle", "reply", "grace"}
  BY <1>2 DEF Handoffs
<1>4. handoff' = [handoff EXCEPT ![latest] = [x EXCEPT !.past = past]]
  BY <1>1, <1>2 DEF Handoffs
<1> HIDE DEF past
<1>5. RowStep(x, [x EXCEPT !.past = past])
  BY <1>2, <1>3, QuietRow
<1>6. handoff \in Seq(Handoffs)
  BY Parts DEF RowsOK
<1> HIDE DEF x
<1> QED
  BY <1>2, <1>4, <1>5, <1>6, OneRow DEF TimePasses, x

LEMMA InterveneMoves ==
  ASSUME TypeOK, NEW a \in Agents, Intervene(a)
  PROVE  /\ Keeps /\ ActsOK' /\ LeftOK'
         /\ UNCHANGED <<handoff, console, sweep, req, client>>
<1>1. ActsOK'
  BY Parts, ActTyped DEF Intervene, ActTo, Acts
<1>2. LeftOK'
  BY Parts, SpendTyped DEF Intervene
<1> QED
  BY <1>1, <1>2, NoRow DEF Intervene, TypeOK

LEMMA CreateMoves ==
  ASSUME TypeOK, NEW a \in Agents, Create(a)
  PROVE  /\ Moves /\ ActsOK'
         /\ UNCHANGED <<console, sweep, req, client, left>>
<1>1. Moves
  BY NoRow DEF Create, Vacant, Moves, Adds, TypeOK
<1>2. ActsOK'
  BY <1>1, RowsKept, ActTyped, Parts DEF Create, NoAct, Acts
<1> QED
  BY <1>1, <1>2 DEF Create

LEMMA BeginMoves ==
  ASSUME TypeOK, NEW a \in Agents, NEW h \in DOMAIN handoff,
         Reply(a, h) \/ Finish(a, h)
  PROVE  /\ Keeps /\ ActsOK' /\ LeftOK'
         /\ UNCHANGED <<handoff, console, sweep, req, client>>
<1>1. h \in Nat
  BY DEF TypeOK
<1>2. ActsOK'
  BY <1>1, Parts, ActTyped DEF Reply, Finish, ActTo, Acts
<1>3. LeftOK'
  BY Parts, SpendTyped DEF Reply, Finish
<1> QED
  BY <1>2, <1>3, NoRow DEF Reply, Finish, TypeOK

LEMMA RepliedMoves ==
  ASSUME TypeOK, NEW a \in Agents, Replied(a)
  PROVE  /\ Keeps /\ ActsOK'
         /\ UNCHANGED <<console, sweep, req, client, left>>
<1> DEFINE h == act[a].h
           x == handoff[h]
           msg == Said("AGENT", a)
           y == IF StillMine(a, x) THEN Spoken(x, msg) ELSE x
<1>1. h \in DOMAIN handoff /\ x \in Handoffs
  BY DEF TypeOK, Replied
<1>2. handoff' = [handoff EXCEPT ![h] = y]
  BY DEF Replied
<1>3. msg \in Message /\ msg.kind = "AGENT" /\ msg.by = a
  BY DEF Said, Message, Kinds
<1> HIDE DEF x, h, msg
<1>4. RowStep(x, y)
  BY <1>1, <1>3, SameRow, SpokenRow DEF StillMine
<1>5. Keeps
  <2> HIDE DEF y
  <2> QED
    BY <1>1, <1>2, <1>4, OneRow DEF x, TypeOK
<1>6. ActsOK'
  BY <1>5, RowsKept, ActTyped, Parts DEF Replied, NoAct, Acts, Moves
<1> QED
  BY <1>5, <1>6 DEF Replied

LEMMA FinishedMoves ==
  ASSUME TypeOK, NEW a \in Agents, Finished(a)
  PROVE  /\ Keeps /\ ActsOK'
         /\ UNCHANGED <<console, sweep, req, client, left>>
<1>1. Keeps
  BY EndMoves DEF Finished, TypeOK
<1>2. ActsOK'
  BY <1>1, RowsKept, ActTyped, Parts DEF Finished, NoAct, Acts, Moves
<1> QED
  BY <1>1, <1>2 DEF Finished

LEMMA TakeOverMoves ==
  ASSUME TypeOK, NEW a \in Agents, NEW h \in DOMAIN handoff, TakeOver(a, h)
  PROVE  /\ Keeps /\ LeftOK'
         /\ UNCHANGED <<console, act, sweep, req, client>>
<1> DEFINE x == handoff[h]
           y == [x EXCEPT !.assignee = a, !.thread = Append(@, Said("TAKEOVER", a))]
<1>1. x \in Handoffs
  BY DEF TypeOK
<1>2. handoff' = [handoff EXCEPT ![h] = y]
  BY <1>1 DEF TakeOver, Handoffs, TypeOK
<1>3. RowStep(x, y)
  BY <1>1, TakenRow DEF TakeOver
<1>4. LeftOK'
  BY Parts, SpendTyped DEF TakeOver
<1> HIDE DEF y
<1> QED
  BY <1>2, <1>3, <1>4, OneRow DEF TakeOver, TypeOK

LEMMA ConsoleMoves ==
  ASSUME TypeOK,
         \/ \E enabled \in BOOLEAN : EditRead(enabled)
         \/ EditWrite \/ CacheExpires \/ CloseChannel
  PROVE  /\ Keeps /\ ConsoleOK' /\ LeftOK'
         /\ UNCHANGED <<handoff, act, sweep, req, client>>
<1>1. ConsoleOK'
  BY DEF EditRead, EditWrite, CacheExpires, CloseChannel, TypeOK, ConsoleOK
<1>2. LeftOK'
  <2>1. CASE (\E enabled \in BOOLEAN : EditRead(enabled)) \/ CloseChannel
    BY <2>1, Parts, SpendTyped DEF EditRead, CloseChannel
  <2>2. CASE EditWrite \/ CacheExpires
    BY <2>2, Parts DEF EditWrite, CacheExpires, LeftOK
  <2> QED
    BY <2>1, <2>2
<1> QED
  BY <1>1, <1>2, NoRow
     DEF EditRead, EditWrite, CacheExpires, CloseChannel, TypeOK

LEMMA PurgeMoves ==
  ASSUME TypeOK, Purge
  PROVE  Keeps
<1>1. PICK old \in BOOLEAN :
        handoff' = [h \in DOMAIN handoff |->
                      [handoff[h] EXCEPT !.raw = @ /\ ~Purged(handoff[h], old)]]
  BY DEF Purge
<1>2. ASSUME NEW h \in DOMAIN handoff
      PROVE  RowStep(handoff[h], handoff'[h])
  <2> DEFINE x == handoff[h]
             raw == x.raw /\ ~Purged(x, old)
  <2>1. x \in Handoffs
    BY DEF TypeOK
  <2>2. raw \in BOOLEAN
    BY <2>1 DEF Handoffs
  <2>3. handoff'[h] = [x EXCEPT !.raw = raw]
    BY <1>1
  <2> HIDE DEF raw, x
  <2>4. RowStep(x, [x EXCEPT !.raw = raw])
    BY <2>1, <2>2, QuietRow
  <2> QED
    BY <2>3, <2>4 DEF x
<1>3. \A h \in DOMAIN handoff : handoff'[h] \in Handoffs
  BY <1>2 DEF RowStep
<1>4. handoff \in Seq(Handoffs) /\ DOMAIN handoff = 1 .. Len(handoff)
  BY DEF TypeOK
<1>5. DOMAIN handoff' = 1 .. Len(handoff) /\ Len(handoff) \in Nat
      /\ handoff' = [h \in 1 .. Len(handoff) |-> handoff'[h]]
  BY <1>1, <1>4
<1>6. handoff' \in Seq(Handoffs) /\ Len(handoff') = Len(handoff)
  BY <1>3, <1>4, <1>5, SeqDef
<1> QED
  BY <1>2, <1>6 DEF Keeps

LEMMA SweepMoves ==
  ASSUME TypeOK, SweepStep
  PROVE  /\ Keeps /\ SweepOK' /\ ConsoleOK'
         /\ UNCHANGED <<cached, edit, open, act, req, client, left>>
<1> USE DEF NoSweep, Sweeps
<1>1. CASE SweepRead
  <2>1. Keeps
    BY <1>1, NoRow DEF SweepRead, TypeOK
  <2>2. Judge(handoff[latest]) \in Reasons
    BY DEF Judge, Reasons
  <2>3. latest \in DOMAIN handoff /\ latest \in Nat
    BY <1>1, LatestRow, Parts DEF SweepRead, TypeOK, latest
  <2>4. SweepOK'
    BY <1>1, <2>2, <2>3 DEF SweepRead, SweepOK, Reasons
  <2> QED
    BY <1>1, <2>1, <2>4, Parts DEF SweepRead, ConsoleOK, console
<1>2. CASE SweepEnd
  <2>1. Keeps
    BY <1>2, EndMoves DEF SweepEnd, TypeOK
  <2>2. SweepOK'
    BY <1>2 DEF SweepEnd, SweepOK, Reasons
  <2> QED
    BY <1>2, <2>1, <2>2, Parts DEF SweepEnd, ConsoleOK, console
<1>3. CASE SweepPurge
  <2>1. Keeps
    BY <1>3, PurgeMoves DEF SweepPurge
  <2>2. SweepOK'
    BY <1>3 DEF SweepPurge, SweepOK, Reasons
  <2> QED
    BY <1>3, <2>1, <2>2, Parts DEF SweepPurge, ConsoleOK, console
<1>4. CASE SweepIdle
  <2>1. Keeps
    BY <1>4, PurgeMoves DEF SweepIdle
  <2> QED
    BY <1>4, <2>1, Parts, RowsKept, SweepKept DEF SweepIdle, ConsoleOK, console, Moves
<1>5. CASE SweepClear
  <2>1. Keeps
    BY <1>5, NoRow DEF SweepClear, TypeOK
  <2>2. SweepOK' /\ ConsoleOK'
    BY <1>5, Parts DEF SweepClear, SweepOK, ConsoleOK, Reasons
  <2> QED
    BY <1>5, <2>1, <2>2 DEF SweepClear
<1> QED
  BY <1>1, <1>2, <1>3, <1>4, <1>5 DEF SweepStep

-----------------------------------------------------------------------------
(* Requests at work.                                                       *)

\* A request goes on, still for the same handoff.
Turn(q, y) ==
  /\ y \in Calls /\ Bounded(y)
  /\ y.h = q.h /\ y.gives = q.gives /\ y.kind = q.kind /\ y.heard = q.heard

LEMMA TurnPlaced ==
  ASSUME NEW q, NEW y, Turn(q, y), q.h \in DOMAIN handoff
  PROVE  Placed(y)
BY DEF Turn, Placed

LEMMA SaidTurn ==
  ASSUME NEW q \in Calls, Bounded(q), NEW pc \in Steps \ {"advance", "sent"}, NEW says \in Answers
  PROVE  /\ Turn(q, [q EXCEPT !.pc = pc, !.says = says]) /\ Turn(q, [q EXCEPT !.pc = pc])
         /\ [q EXCEPT !.pc = pc, !.says = says].pc \notin {"advance", "sent"}
         /\ [q EXCEPT !.pc = pc].pc \notin {"advance", "sent"}
BY DEF Turn, Calls, Bounded

LEMMA ToActiveTurn ==
  ASSUME NEW q \in Calls, Bounded(q), NEW x
  PROVE  Turn(q, ToActive(q, x)) /\ ToActive(q, x).pc \notin {"advance", "sent"}
<1>1. {"issue", "mark", "append", "answer"} \subseteq Steps \ {"advance", "sent"}
      /\ {"connected", "legacy", "unverified"} \subseteq Answers
  BY DEF Steps, Answers
<1> QED
  BY <1>1, SaidTurn DEF ToActive, Say

LEMMA ToEndedTurn ==
  ASSUME NEW q \in Calls, Bounded(q), NEW x
  PROVE  Turn(q, ToEnded(q, x)) /\ ToEnded(q, x).pc \notin {"advance", "sent"}
<1>1. {"collect", "answer"} \subseteq Steps \ {"advance", "sent"} /\ "bot" \in Answers
  BY DEF Steps, Answers
<1> QED
  BY <1>1, SaidTurn DEF ToEnded, Say

LEMMA ToPollTurn ==
  ASSUME NEW q \in Calls, Bounded(q), NEW x, NEW ended
  PROVE  Turn(q, ToPoll(q, x, ended)) /\ ToPoll(q, x, ended).pc \notin {"advance", "sent"}
<1>1. {"issue", "read", "answer"} \subseteq Steps \ {"advance", "sent"}
      /\ {"none", "ended", "page", "gone"} \subseteq Answers
  BY DEF Steps, Answers
<1> QED
  BY <1>1, SaidTurn DEF ToPoll, Say

LEMMA RoutedTurn ==
  ASSUME NEW q \in Calls, Bounded(q), NEW x
  PROVE  Turn(q, Routed(q, x))
<1> DEFINE why == IF Active(x) THEN Judge(x) ELSE "NONE"
           ended == ~Active(x) \/ why # "NONE"
           to == IF q.kind # "send" THEN ToPoll(q, x, ended)
                 ELSE IF ended THEN ToEnded(q, x) ELSE ToActive(q, x)
<1>1. why \in Reasons
  BY DEF Judge, Reasons
<1>2. Turn(q, to) /\ to.pc \notin {"advance", "sent"}
  BY ToPollTurn, ToEndedTurn, ToActiveTurn
<1>3. Routed(q, x) = IF why = "NONE" THEN to
                     ELSE [to EXCEPT !.pc = "expire", !.then = to.pc, !.why = why]
  BY DEF Routed
<1> HIDE DEF why, to
<1>4. "expire" \in Steps /\ to.pc \in Steps
  BY <1>2 DEF Steps, Turn, Calls
<1>5. Turn(q, [to EXCEPT !.pc = "expire", !.then = to.pc, !.why = why])
  BY <1>1, <1>2, <1>4 DEF Turn, Calls, Bounded
<1> QED
  BY <1>2, <1>3, <1>5

LEMMA ReadMoves ==
  ASSUME TypeOK, Whole, NEW r \in Requests, Read(r)
  PROVE  /\ Keeps /\ ReqsOK' /\ Whole' /\ Fewer
         /\ UNCHANGED <<handoff, console, act, sweep, client, left>>
<1> DEFINE q == req[r]
           read == IF q.kind = "send"
                   THEN [q EXCEPT !.h = latest, !.after = handoff[latest].delivered]
                   ELSE [q EXCEPT !.h = latest, !.last = Len(handoff[latest].thread)]
<1>1. \/ Goes(r, Say(q, "blocked"))
      \/ \E s \in Settings :
           Goes(r, IF ~open THEN Say(q, "refused")
                   ELSE IF q.kind = "send" /\ (NoLookup(s, q) \/ latest = 0) THEN Say(q, "bot")
                   ELSE IF latest = 0 THEN Say(q, "none")
                   ELSE Routed(read, handoff[latest]))
  BY DEF Read
<1>2. q \in Calls /\ Bounded(q)
  BY DEF TypeOK, Whole
<1>3. "answer" \in Steps \ {"advance", "sent"} /\ {"refused", "blocked", "bot", "none"} \subseteq Answers
  BY DEF Steps, Answers
<1>4. \A what \in {"refused", "blocked", "bot", "none"} :
        /\ Say(q, what) \in Calls /\ Placed(Say(q, what)) /\ Bounded(Say(q, what))
        /\ ~Say(q, what).gives
  <2>0. ~q.gives
    BY <1>2 DEF Bounded, Read
  <2>1. \A what \in {"refused", "blocked", "bot", "none"} :
          Say(q, what).pc = "answer" /\ ~Say(q, what).gives
    BY <1>2, <2>0 DEF Say, Calls
  <2> QED
    BY <1>2, <1>3, <2>1, SaidTurn DEF Say, Turn, Placed
<1>5. ASSUME latest # 0
      PROVE  /\ Routed(read, handoff[latest]) \in Calls
             /\ Placed(Routed(read, handoff[latest]))
             /\ Bounded(Routed(read, handoff[latest]))
             /\ ~Routed(read, handoff[latest]).gives
  <2>1. latest \in DOMAIN handoff /\ handoff[latest] \in Handoffs
    BY <1>5, LatestRow, Parts DEF TypeOK, latest
  <2>2. latest \in Nat /\ handoff[latest].delivered \in Nat
        /\ Len(handoff[latest].thread) \in Nat
    BY <2>1 DEF Handoffs, TypeOK, latest
  <2>3. read \in Calls /\ read.h = latest /\ Bounded(read) /\ ~read.gives
    BY <1>2, <2>2 DEF Calls, Bounded, Read
  <2> HIDE DEF read
  <2> QED
    BY <2>1, <2>3, RoutedTurn, TurnPlaced DEF Turn
<1>6. handoff' = handoff /\ DOMAIN handoff \subseteq DOMAIN handoff'
  BY DEF Read
<1> HIDE DEF q, read
<1>7. ReqsOK' /\ Whole' /\ Fewer
  BY <1>1, <1>4, <1>5, <1>6, GoesTyped, GoesFewer, Parts
<1> QED
  BY <1>6, <1>7, NoRow DEF Read, TypeOK

LEMMA ExpireMoves ==
  ASSUME TypeOK, Whole, NEW r \in Requests, Expire(r)
  PROVE  /\ Keeps /\ ReqsOK' /\ Whole' /\ Fewer
         /\ UNCHANGED <<console, act, sweep, client, left>>
<1> DEFINE q == req[r]
           y == [q EXCEPT !.pc = q.then, !.then = "idle", !.why = "NONE"]
<1>1. q \in Calls /\ q.h \in DOMAIN handoff /\ Bounded(q)
  BY DEF TypeOK, Whole, Expire
<1>2. Keeps
  BY <1>1, EndMoves DEF Expire, TypeOK
<1>3. y \in Calls /\ y.h = q.h /\ Bounded(y) /\ y.gives = q.gives
  BY <1>1 DEF Calls, Steps, Reasons, Bounded
<1>4. Goes(r, y)
  BY DEF Expire
<1> HIDE DEF y
<1>5. ReqsOK' /\ Whole' /\ Fewer
  BY <1>1, <1>2, <1>3, <1>4, RowsKept, GoesTyped, GoesFewer, Parts DEF Placed, Moves
<1> QED
  BY <1>2, <1>5 DEF Expire

\* A request that goes on for the same handoff while one row is moved.
LEMMA TurnMoves ==
  ASSUME TypeOK, Whole, NEW r \in Requests, NEW y, Turn(req[r], y), Goes(r, y),
         req[r].h \in DOMAIN handoff, Keeps
  PROVE  ReqsOK' /\ Whole' /\ Fewer
<1>1. y \in Calls /\ Placed(y) /\ Bounded(y)
  BY TurnPlaced DEF Turn
<1>2. Fewer
  BY GoesFewer, Parts DEF Turn
<1> QED
  BY <1>1, <1>2, RowsKept, GoesTyped, Parts DEF Moves

LEMMA ConnectMoves ==
  ASSUME TypeOK, NEW h \in DOMAIN handoff, NEW mode \in {"MODERN", "LEGACY"},
         Unissued(handoff[h]),
         handoff' = [handoff EXCEPT ![h] = Connected(@, mode)]
  PROVE  Keeps
<1>1. handoff[h] \in Handoffs
  BY DEF TypeOK
<1>2. handoff' = [handoff EXCEPT ![h] = Connected(handoff[h], mode)]
  OBVIOUS
<1>3. RowStep(handoff[h], Connected(handoff[h], mode))
  BY <1>1, ConnectedRow
<1> QED
  BY <1>2, <1>3, OneRow DEF TypeOK

\* A request takes the token of its handoff, which nobody had.
Issued(r) ==
  LET h == req[r].h IN
  /\ h \in DOMAIN handoff
  /\ handoff[h].mode = "NONE" /\ (handoff'[h]).mode # "NONE"
  /\ (req'[r]).gives => (req'[r]).h = h
  /\ \A x \in Requests \ {r} : req'[x] = req[x]

LEMMA IssueMoves ==
  ASSUME TypeOK, Whole, NEW r \in Requests, Issue(r)
  PROVE  /\ Keeps /\ ReqsOK' /\ Whole' /\ (Fewer \/ Issued(r))
         /\ UNCHANGED <<console, act, sweep, client, left>>
<1> DEFINE q == req[r]
           given == IF q.kind = "send"
                    THEN [q EXCEPT !.pc = "append", !.says = "connected", !.gives = TRUE]
                    ELSE [q EXCEPT !.pc = "read", !.says = "page", !.gives = TRUE]
           lost == Say(q, IF q.kind = "send" THEN "unverified" ELSE "none")
<1>1. q \in Calls /\ q.h \in DOMAIN handoff /\ Bounded(q)
  BY DEF TypeOK, Whole, Issue
<1>2. given \in Calls /\ given.h = q.h /\ Bounded(given)
  <2>0. {"append", "read"} \subseteq Steps /\ {"connected", "page"} \subseteq Answers
    BY DEF Steps, Answers
  <2> HIDE DEF q
  <2>1. /\ given \in Calls /\ given.h = q.h
        /\ given.pc \in {"append", "read"} /\ given.then = q.then
    <3>1. CASE q.kind = "send"
      <4>1. given = [q EXCEPT !.pc = "append", !.says = "connected", !.gives = TRUE]
        BY <3>1
      <4> HIDE DEF given
      <4> QED
        BY <1>1, <2>0, <4>1 DEF Calls
    <3>2. CASE q.kind # "send"
      <4>1. given = [q EXCEPT !.pc = "read", !.says = "page", !.gives = TRUE]
        BY <3>2
      <4> HIDE DEF given
      <4> QED
        BY <1>1, <2>0, <4>1 DEF Calls
    <3> QED
      BY <3>1, <3>2
  <2> HIDE DEF given
  <2> QED
    BY <1>1, <2>1 DEF Bounded
<1>3. Turn(q, lost)
  <2>1. "answer" \in Steps \ {"advance", "sent"} /\ {"unverified", "none"} \subseteq Answers
    BY DEF Steps, Answers
  <2> QED
    BY <1>1, <2>1, SaidTurn DEF Say
<1>4. \/ /\ Unissued(handoff[q.h])
         /\ handoff' = [handoff EXCEPT ![q.h] = Connected(@, "MODERN")]
         /\ Goes(r, given)
      \/ Goes(r, lost) /\ UNCHANGED handoff
  BY DEF Issue
<1>5. Keeps
  BY <1>1, <1>4, ConnectMoves, NoRow DEF TypeOK
<1>7. ASSUME Goes(r, given), Unissued(handoff[q.h]),
             handoff' = [handoff EXCEPT ![q.h] = Connected(@, "MODERN")]
      PROVE  Issued(r)
  <2>1. /\ handoff[q.h] \in Handoffs
        /\ handoff'[q.h] = Connected(handoff[q.h], "MODERN")
    BY <1>1, <1>7 DEF TypeOK
  <2>2. handoff[q.h].mode = "NONE" /\ (handoff'[q.h]).mode = "MODERN"
    BY <1>7, <2>1, ConnectedRow DEF Unissued
  <2>3. Settled(given).gives => Settled(given).h = given.h
    BY DEF Settled, NoReq
  <2> HIDE DEF given, Settled
  <2>4. /\ req'[r] = Settled(given)
        /\ \A x \in Requests \ {r} : req'[x] = req[x]
    BY <1>7 DEF Goes, TypeOK
  <2> QED
    BY <1>1, <1>2, <2>2, <2>3, <2>4 DEF Issued
<1> HIDE DEF q, given, lost
<1>6. ReqsOK' /\ Whole' /\ (Fewer \/ Issued(r))
  <2>1. CASE /\ Unissued(handoff[q.h])
             /\ handoff' = [handoff EXCEPT ![q.h] = Connected(@, "MODERN")]
             /\ Goes(r, given)
    <3>1. ReqsOK' /\ Whole'
      BY <1>1, <1>2, <1>5, <2>1, RowsKept, GoesTyped, Parts DEF Placed, Moves
    <3> QED
      BY <3>1, <1>7, <2>1
  <2>2. CASE Goes(r, lost)
    BY <1>1, <1>3, <1>5, <2>2, TurnMoves DEF q
  <2> QED
    BY <1>4, <2>1, <2>2
<1> QED
  BY <1>5, <1>6 DEF Issue

LEMMA MarkMoves ==
  ASSUME TypeOK, Whole, NEW r \in Requests, Mark(r)
  PROVE  /\ Keeps /\ ReqsOK' /\ Whole' /\ Fewer
         /\ UNCHANGED <<console, act, sweep, client, left>>
<1> DEFINE q == req[r]
           marked == [q EXCEPT !.pc = "collect", !.says = "legacy", !.after = 0]
           lost == Say(q, "unverified")
<1>1. q \in Calls /\ q.h \in DOMAIN handoff /\ Bounded(q)
  BY DEF TypeOK, Whole, Mark
<1>2. Turn(q, marked)
  <2>1. /\ marked \in Calls /\ marked.h = q.h /\ marked.gives = q.gives
        /\ marked.kind = q.kind /\ marked.heard = q.heard
        /\ marked.pc = "collect" /\ marked.then = q.then
    <3>1. "collect" \in Steps /\ "legacy" \in Answers
      BY DEF Steps, Answers
    <3> HIDE DEF q
    <3>2. marked \in Calls
      BY <1>1, <3>1 DEF Calls
    <3> QED
      BY <1>1, <3>2 DEF Calls
  <2> HIDE DEF marked, q
  <2> QED
    BY <1>1, <2>1 DEF Bounded, Turn
<1>3. Turn(q, lost)
  BY <1>1, SaidTurn DEF Say, Steps, Answers
<1>4. \/ /\ Unissued(handoff[q.h])
         /\ handoff' = [handoff EXCEPT ![q.h] = Connected(@, "LEGACY")]
         /\ Goes(r, marked)
      \/ Goes(r, lost) /\ UNCHANGED handoff
  BY DEF Mark
<1>5. Keeps
  BY <1>1, <1>4, ConnectMoves, NoRow DEF TypeOK
<1> HIDE DEF marked, lost
<1>6. ReqsOK' /\ Whole' /\ Fewer
  BY <1>1, <1>2, <1>3, <1>4, <1>5, TurnMoves
<1> QED
  BY <1>5, <1>6 DEF Mark

LEMMA AppendUserMoves ==
  ASSUME TypeOK, Whole, NEW r \in Requests, AppendUser(r)
  PROVE  /\ Keeps /\ ReqsOK' /\ Whole' /\ Fewer
         /\ UNCHANGED <<console, act, sweep, client, left>>
<1> DEFINE q == req[r]
           pc == IF q.says = "legacy" THEN "collect" ELSE "answer"
           msg == Said("USER", Nobody)
           x == handoff[q.h]
<1>1. q \in Calls /\ q.h \in DOMAIN handoff /\ x \in Handoffs /\ Bounded(q)
  BY DEF TypeOK, Whole, AppendUser
<1>2. handoff' = [handoff EXCEPT ![q.h] = Spoken(x, msg)] /\ Goes(r, [q EXCEPT !.pc = pc])
  BY DEF AppendUser
<1>3. msg \in Message /\ msg.kind = "USER"
  BY DEF Said, Message, Kinds
<1>4. pc \in Steps \ {"advance", "sent"}
  BY DEF Steps
<1> HIDE DEF msg, x, pc
<1>5. RowStep(x, Spoken(x, msg))
  BY <1>1, <1>3, SpokenRow
<1>6. Keeps
  BY <1>1, <1>2, <1>5, OneRow DEF TypeOK, x
<1>7. Turn(q, [q EXCEPT !.pc = pc])
  BY <1>1, <1>4, SaidTurn DEF Answers, Calls
<1>8. ReqsOK' /\ Whole' /\ Fewer
  BY <1>1, <1>2, <1>6, <1>7, TurnMoves
<1> QED
  BY <1>6, <1>8 DEF AppendUser

LEMMA GotTurn ==
  ASSUME TypeOK, NEW q \in Calls, Bounded(q), q.h \in DOMAIN handoff,
         NEW pc \in {"answer", "advance"}, NEW got \in SUBSET After(q.h, q.after),
         pc = "advance" => got # {}
  PROVE  Turn(q, [q EXCEPT !.got = got, !.pc = pc])
<1> DEFINE n == Len(handoff[q.h].thread)
<1>1. DOMAIN handoff[q.h].thread = 1 .. n /\ n \in Nat
  BY DEF TypeOK, Handoffs
<1>2. got \in SUBSET Nat /\ \A k \in got : k =< n
  BY <1>1 DEF After
<1> HIDE DEF n
<1>3. Turn(q, [q EXCEPT !.got = got, !.pc = pc])
  <2> DEFINE y == [q EXCEPT !.got = got, !.pc = pc]
  <2>1. /\ y \in Calls /\ y.h = q.h /\ y.gives = q.gives
        /\ y.kind = q.kind /\ y.heard = q.heard
        /\ y.pc = pc /\ y.then = q.then /\ y.got = got
    BY <1>2 DEF Calls, Steps
  <2> HIDE DEF y
  <2>2. Bounded(y)
    BY <1>1, <1>2, <2>1 DEF Bounded
  <2>3. Turn(q, y)
    BY <2>1, <2>2 DEF Turn
  <2> QED
    BY <2>3 DEF y
<1> QED
  BY <1>3

LEMMA ReadsMoves ==
  ASSUME TypeOK, Whole, NEW r \in Requests, Collect(r) \/ ReadPage(r)
  PROVE  /\ Keeps /\ ReqsOK' /\ Whole' /\ Fewer /\ ClientOK'
         /\ UNCHANGED <<handoff, console, act, sweep, page, left>>
<1> DEFINE q == req[r]
<1>1. q \in Calls /\ q.h \in DOMAIN handoff /\ Bounded(q)
  BY DEF TypeOK, Whole, Collect, ReadPage
<1>2. Keeps
  BY NoRow DEF TypeOK, Collect, ReadPage
<1>3. PICK pc \in {"answer", "advance"}, got \in SUBSET After(q.h, q.after) :
        /\ Goes(r, [q EXCEPT !.got = got, !.pc = pc])
        /\ pc = "advance" => got # {}
  <2>1. CASE Collect(r)
    <3> DEFINE all == After(q.h, q.after)
    <3>1. Goes(r, [q EXCEPT !.got = all, !.pc = IF all = {} THEN "answer" ELSE "advance"])
      BY <2>1 DEF Collect
    <3>2. all \in SUBSET After(q.h, q.after)
      OBVIOUS
    <3> HIDE DEF all, q
    <3> QED
      BY <3>1, <3>2
  <2>2. CASE ReadPage(r)
    <3> DEFINE some == {k \in After(q.h, q.after) : k =< q.after + PageSize}
    <3>1. Goes(r, [q EXCEPT !.got = some, !.pc = "answer"])
      BY <2>2 DEF ReadPage
    <3>2. some \in SUBSET After(q.h, q.after)
      OBVIOUS
    <3> HIDE DEF some, q
    <3> QED
      BY <3>1, <3>2
  <2> QED
    BY <2>1, <2>2
<1>5. Turn(q, [q EXCEPT !.got = got, !.pc = pc])
  BY <1>1, <1>3, GotTurn
<1>6. ReqsOK' /\ Whole' /\ Fewer
  BY <1>1, <1>2, <1>3, <1>5, TurnMoves
<1>7. ClientOK'
  BY Parts DEF Collect, ReadPage, client, ClientOK
<1> QED
  BY <1>2, <1>6, <1>7 DEF Collect, ReadPage, client

LEMMA GreatestIn ==
  ASSUME NEW S \in SUBSET Nat, S # {}, NEW n \in Nat, \A k \in S : k =< n
  PROVE  Greatest(S) \in S /\ \A k \in S : k =< Greatest(S)
<1> DEFINE R == {ss \in Nat \X Nat : ss[1] < ss[2]}
           T == {n - k : k \in S}
<1>1. IsWellFoundedOn(R, Nat)
  BY NatLessThanWellFounded DEF OpToRel
<1>2. T \subseteq Nat /\ T # {}
  <2>1. PICK k \in S : TRUE
    OBVIOUS
  <2>2. n - k \in T
    BY <2>1
  <2>3. \A j \in S : n - j \in Nat
    OBVIOUS
  <2> QED
    BY <2>2, <2>3
<1>3. PICK m \in T : \A y \in T : ~ (<<y, m>> \in R)
  <2> HIDE DEF R, T
  <2> QED
    BY <1>1, <1>2, WFMin
<1>4. PICK j \in S : m = n - j
  OBVIOUS
<1>5. ASSUME NEW k \in S PROVE k =< j
  <2>1. n - k \in T /\ n - k \in Nat /\ m \in Nat
    BY <1>2
  <2>2. ~ (n - k < m)
    BY <1>3, <2>1
  <2> QED
    BY <1>4, <2>1, <2>2
<1> QED
  BY <1>5 DEF Greatest

LEMMA AdvanceMoves ==
  ASSUME TypeOK, Whole, NEW r \in Requests, Advance(r)
  PROVE  /\ Keeps /\ ReqsOK' /\ Whole' /\ Fewer
         /\ UNCHANGED <<console, act, sweep, client, left>>
<1> DEFINE q == req[r]
           x == handoff[q.h]
           n == Larger(x.delivered, Reached(q))
<1>0. q.pc = "advance"
  BY DEF Advance
<1>1. q \in Calls /\ q.h \in DOMAIN handoff /\ Bounded(q) /\ x \in Handoffs
  <2>1. handoff \in Seq(Handoffs) /\ q \in Calls /\ q.h \in DOMAIN handoff
    BY <1>0 DEF TypeOK
  <2>2. Bounded(q)
    BY DEF Whole
  <2> QED
    BY <2>1, <2>2
<1>2. q.got \in SUBSET Nat /\ q.got # {} /\ \E m \in Nat : \A k \in q.got : k =< m
  <2>1. q.got \in SUBSET Nat
    BY <1>1 DEF Calls
  <2> HIDE DEF q
  <2> QED
    BY <1>0, <1>1, <2>1 DEF Bounded
<1>3. Reached(q) \in Nat
  BY <1>2, GreatestIn DEF Reached
<1>4. n \in Nat
  BY <1>1, <1>3 DEF Larger, Handoffs
<1>5. handoff' = [handoff EXCEPT ![q.h] = [x EXCEPT !.delivered = n]]
  BY <1>1 DEF Advance, TypeOK
<1> HIDE DEF n, x
<1>6. RowStep(x, [x EXCEPT !.delivered = n])
  BY <1>1, <1>4, QuietRow
<1>7. Keeps
  BY <1>1, <1>5, <1>6, OneRow DEF TypeOK, x
<1>8. Turn(q, [q EXCEPT !.pc = "answer"])
  BY <1>1 DEF Turn, Calls, Bounded, Steps
<1>9. ReqsOK' /\ Whole' /\ Fewer
  BY <1>1, <1>7, <1>8, TurnMoves DEF Advance
<1> QED
  BY <1>7, <1>9 DEF Advance

-----------------------------------------------------------------------------
(* The page.                                                               *)

\* A slot that is emptied or begins a request.
LEMMA SlotTyped ==
  ASSUME ReqsOK, Whole, UNCHANGED handoff, NEW r \in Requests, NEW y \in Calls,
         y.pc \in {"idle", "sent"}, y.then = "idle", ~y.gives,
         req' = [req EXCEPT ![r] = y]
  PROVE  ReqsOK' /\ Whole' /\ Fewer
<1>1. Placed(y) /\ Bounded(y)
  BY DEF Placed, Bounded
<1>2. ReqsOK'
  BY <1>1 DEF ReqsOK, Placed
<1>3. Whole'
  BY <1>1 DEF ReqsOK, Whole, Bounded
<1>4. Fewer
  BY DEF ReqsOK, Fewer
<1> QED
  BY <1>2, <1>3, <1>4

LEMMA EmptyTyped ==
  ASSUME ReqsOK, Whole, UNCHANGED handoff, NEW r \in Requests,
         req' = [req EXCEPT ![r] = NoReq]
  PROVE  ReqsOK' /\ Whole' /\ Fewer
<1>1. NoReq.pc = "idle" /\ NoReq.then = "idle" /\ ~NoReq.gives
  BY DEF NoReq
<1> QED
  BY <1>1, NoReqTyped, SlotTyped

LEMMA AskedTyped ==
  ASSUME page \in Pages, NEW kind \in {"send"} \cup Polls, NEW after \in Nat
  PROVE  /\ ~Asked(kind).gives /\ ~[Asked(kind) EXCEPT !.after = after].gives
         /\ Asked(kind) \in Calls /\ Asked(kind).pc = "sent" /\ Asked(kind).then = "idle"
         /\ [Asked(kind) EXCEPT !.after = after] \in Calls
         /\ [Asked(kind) EXCEPT !.after = after].pc = "sent"
         /\ [Asked(kind) EXCEPT !.after = after].then = "idle"
BY DEF Asked, NoReq, Calls, Steps, Reasons, Answers, Pages, Polls

LEMMA FreshTyped ==
  ASSUME page \in Pages
  PROVE  Fresh \in Pages
BY DEF Fresh, NewPage, Pages

LEMMA PolledTyped ==
  ASSUME NEW p \in Pages, NEW kind
  PROVE  PolledOn(kind, p) \in Pages /\ PolledOn(kind, p).token = p.token
<1> DEFINE loop == IF kind = "loop" THEN ShouldPoll(p.mode)
                   ELSE IF kind = "restore" THEN p.loop \/ ShouldPoll(p.mode)
                   ELSE p.loop
<1>0. p.loop \in BOOLEAN /\ ShouldPoll(p.mode) \in BOOLEAN
  BY DEF Pages, ShouldPoll
<1>1. loop \in BOOLEAN
  BY <1>0, Zenon
<1>2. PolledOn(kind, p) = [p EXCEPT !.loop = loop]
  <2>1. CASE kind = "loop"
    BY <2>1 DEF PolledOn
  <2>2. CASE kind = "restore"
    BY <2>2 DEF PolledOn
  <2>3. CASE kind \notin {"loop", "restore"}
    <3>1. PolledOn(kind, p) = [p EXCEPT !.loop = @]
      BY <2>3 DEF PolledOn
    <3>2. loop = p.loop
      BY <2>3
    <3> QED
      BY <3>1, <3>2
  <2> QED
    BY <2>1, <2>2, <2>3
<1> HIDE DEF loop
<1> QED
  BY <1>1, <1>2 DEF Pages

LEMMA ShowsTyped ==
  ASSUME ReqsOK, ClientOK, NEW r \in Requests, Shows(req[r]), page' \in Pages,
         UNCHANGED cut
  PROVE  ClientOK'
BY DEF Shows, ReqsOK, ClientOK, Calls

\* Whatever the page does leaves the server alone.
TokenStep ==
  \/ (page'.token) \in {0, page.token}
  \/ \E r \in Requests :
       req[r].gives /\ (page'.token) = req[r].h /\ ~(req'[r]).gives

Local ==
  /\ ReqsOK' /\ Whole' /\ ClientOK' /\ LeftOK'
  /\ Fewer /\ TokenStep
  /\ UNCHANGED <<handoff, console, act, sweep>>

LEMMA AsksLocal ==
  ASSUME TypeOK, Whole, NEW r \in Requests, Send(r) \/ LoopPoll(r)
  PROVE  Local
<1>1. page \in Pages /\ page.cursor \in Nat
  BY DEF TypeOK, Pages
<1>2. LeftOK'
  <2>1. CASE Send(r)
    BY <2>1, Parts, SpendTyped DEF Send
  <2>2. CASE LoopPoll(r)
    BY <2>2, Parts DEF LoopPoll, LeftOK
  <2> QED
    BY <2>1, <2>2
<1>3. ReqsOK' /\ Whole' /\ Fewer
  <2>1. CASE Send(r)
    BY <1>1, <2>1, AskedTyped, SlotTyped, Parts DEF Send
  <2>2. CASE LoopPoll(r)
    BY <1>1, <2>2, AskedTyped, SlotTyped, Parts DEF LoopPoll, Polls
  <2> QED
    BY <2>1, <2>2
<1>4. ClientOK' /\ TokenStep
  BY Parts DEF Send, LoopPoll, client, ClientOK, TokenStep
<1> QED
  BY <1>2, <1>3, <1>4 DEF Local, Send, LoopPoll

LEMMA WatchEndsLocal ==
  ASSUME TypeOK, Whole, WatchEnds
  PROVE  Local
<1>1. ClientOK'
  BY DEF WatchEnds, TypeOK, ClientOK, Pages
<1>2. ReqsOK' /\ Whole' /\ LeftOK'
  BY Parts DEF WatchEnds, ReqsOK, Whole, Placed, LeftOK
<1>3. Fewer /\ TokenStep
  BY DEF WatchEnds, TypeOK, Fewer, TokenStep, Pages
<1> QED
  BY <1>1, <1>2, <1>3 DEF Local, WatchEnds

LEMMA ReloadLocal ==
  ASSUME TypeOK, Whole, NEW r \in Requests, Reload(r)
  PROVE  Local
<1> DEFINE back == [page EXCEPT !.mode = "CONNECTED", !.loop = FALSE]
           ask == [Asked("restore") EXCEPT !.after = page.cursor]
<1>1. page \in Pages /\ page.cursor \in Nat
  BY DEF TypeOK, Pages
<1>2. Fresh \in Pages /\ back \in Pages /\ page' \in {Fresh, back}
  <2>1. Fresh \in Pages
    BY <1>1, FreshTyped
  <2>2. back \in Pages
    BY <1>1 DEF Pages
  <2> QED
    BY <2>1, <2>2 DEF Reload
<1>3. ask \in Calls /\ ask.pc = "sent" /\ ask.then = "idle" /\ ~ask.gives
  BY <1>1, AskedTyped DEF Polls
<1>4. NoReq \in Calls /\ NoReq.pc = "idle" /\ NoReq.then = "idle" /\ ~NoReq.gives
  BY NoReqTyped DEF NoReq
<1>5. ASSUME NEW x \in Requests
      PROVE  LET y == [req[x] EXCEPT !.heard = FALSE]
             IN  /\ y \in Calls /\ Placed(y) /\ Bounded(y)
                 /\ y.gives = req[x].gives /\ y.h = req[x].h
  <2> DEFINE y == [req[x] EXCEPT !.heard = FALSE]
  <2>1. req[x] \in Calls /\ Placed(req[x]) /\ Bounded(req[x])
    BY Parts DEF ReqsOK, Whole
  <2>2. /\ y \in Calls /\ y.gives = req[x].gives /\ y.h = req[x].h /\ y.pc = req[x].pc
        /\ y.then = req[x].then /\ y.got = req[x].got
    BY <2>1 DEF Calls
  <2> HIDE DEF y
  <2>3. Placed(y) /\ Bounded(y)
    BY <2>1, <2>2 DEF Placed, Bounded
  <2> QED
    BY <2>2, <2>3 DEF y
<1>6. \A y \in {ask, NoReq} : Placed(y) /\ Bounded(y)
  BY <1>3, <1>4 DEF Placed, Bounded
<1>7. req' = [x \in Requests |-> req'[x]]
      /\ \A x \in Requests : req'[x] \in {ask, NoReq, [req[x] EXCEPT !.heard = FALSE]}
  BY DEF Reload
<1> HIDE DEF ask, back
<1>8. \A x \in Requests : req'[x] \in Calls /\ Placed(req'[x]) /\ Bounded(req'[x])
  BY <1>3, <1>4, <1>5, <1>6, <1>7
<1>9. handoff' = handoff
  BY DEF Reload
<1>10. ReqsOK' /\ Whole'
  BY <1>7, <1>8, <1>9 DEF ReqsOK, Whole, Placed, Bounded
<1>11. LeftOK'
  BY Parts, SpendTyped DEF Reload
<1>12. ClientOK'
  BY <1>2, Parts DEF Reload, ClientOK
<1>13. Fewer
  BY <1>3, <1>4, <1>5, <1>7 DEF Fewer
<1>14. TokenStep
  <2>1. Fresh.token = 0
    BY DEF Fresh, NewPage
  <2>2. back.token = page.token
    BY <1>1 DEF back, Pages
  <2> QED
    BY <1>2, <2>1, <2>2 DEF TokenStep
<1> QED
  BY <1>10, <1>11, <1>12, <1>13, <1>14 DEF Local, Reload

LEMMA FailLocal ==
  ASSUME TypeOK, Whole, NEW r \in Requests, Fail(r)
  PROVE  Local
<1>1. page' \in Pages /\ (page'.token) = page.token
  BY PolledTyped DEF Fail, TypeOK
<1>2. ReqsOK' /\ Whole' /\ Fewer
  BY EmptyTyped, Parts DEF Fail
<1>3. LeftOK'
  BY Parts, SpendTyped DEF Fail
<1> QED
  BY <1>1, <1>2, <1>3, Parts DEF Local, Fail, ClientOK, TokenStep

LEMMA AnsweredLocal ==
  ASSUME TypeOK, Whole, NEW r \in Requests, Answered(r)
  PROVE  Local
<1> DEFINE q == req[r]
<1>1. q \in Calls /\ page \in Pages
  BY DEF TypeOK
<1>2. PICK watch \in BOOLEAN :
        LET mode == IF q.says = "connected" THEN "CONNECTED"
                    ELSE IF watch /\ page.mode # "CONNECTED" THEN "WATCHING"
                    ELSE page.mode
        IN page' = [page EXCEPT !.mode = mode,
                                !.token = IF q.gives THEN q.h ELSE @,
                                !.loop = @ \/ (q.says # "refused" /\ ShouldPoll(mode))]
  BY DEF Answered
<1> DEFINE mode == IF q.says = "connected" THEN "CONNECTED"
                   ELSE IF watch /\ page.mode # "CONNECTED" THEN "WATCHING"
                   ELSE page.mode
           token == IF q.gives THEN q.h ELSE page.token
           loop == page.loop \/ (q.says # "refused" /\ ShouldPoll(mode))
<1>3. page' = [page EXCEPT !.mode = mode, !.token = token, !.loop = loop]
  BY <1>1, <1>2 DEF Pages
<1>4. /\ mode \in {"IDLE", "WATCHING", "WATCHED", "CONNECTED"}
      /\ token \in Nat /\ loop \in BOOLEAN
  BY <1>1 DEF Calls, Pages, ShouldPoll
<1> HIDE DEF mode, token, loop
<1>5. page' \in Pages /\ (page'.token) = token
  BY <1>1, <1>3, <1>4 DEF Pages
<1>6. ReqsOK' /\ Whole' /\ Fewer
  BY EmptyTyped, Parts DEF Answered
<1>7. ~(req'[r]).gives
  BY DEF Answered, TypeOK, NoReq
<1>8. TokenStep
  BY <1>5, <1>7 DEF TokenStep, token
<1> QED
  BY <1>5, <1>6, <1>8, ShowsTyped, Parts DEF Local, Answered, LeftOK

LEMMA StoppedLocal ==
  ASSUME TypeOK, Whole, NEW r \in Requests, Stopped(r)
  PROVE  Local
<1>1. page' \in Pages
  BY FreshTyped DEF Stopped, TypeOK
<1>2. \A x \in Requests :
        req'[x] \in {NoReq, req[x], [req[x] EXCEPT !.kind = "stale"]}
      /\ req' = [z \in Requests |-> req'[z]]
  BY DEF Stopped
<1>3. ASSUME NEW x \in Requests
      PROVE  /\ req'[x] \in Calls /\ Placed(req'[x]) /\ Bounded(req'[x])
             /\ (req'[x]).gives => req[x].gives /\ (req'[x]).h = req[x].h
  <2>1. req[x] \in Calls /\ Placed(req[x]) /\ Bounded(req[x])
    BY Parts DEF ReqsOK, Whole
  <2> DEFINE y == [req[x] EXCEPT !.kind = "stale"]
  <2>a. /\ y \in Calls /\ y.gives = req[x].gives /\ y.h = req[x].h /\ y.pc = req[x].pc
        /\ y.then = req[x].then /\ y.got = req[x].got
    BY <2>1 DEF Calls, Polls
  <2> HIDE DEF y
  <2>2. y \in Calls /\ Placed(y) /\ Bounded(y)
    BY <2>1, <2>a DEF Placed, Bounded
  <2>3. Placed(NoReq) /\ Bounded(NoReq) /\ NoReq \in Calls
    BY NoReqTyped DEF NoReq, Placed, Bounded
  <2>4. ~NoReq.gives
    BY DEF NoReq
  <2> QED
    BY <1>2, <2>1, <2>2, <2>3, <2>4, <2>a DEF y
<1>4. handoff' = handoff
  BY DEF Stopped
<1>5. ReqsOK' /\ Whole'
  BY <1>2, <1>3, <1>4 DEF ReqsOK, Whole, Placed, Bounded
<1>6. Fewer
  BY <1>3 DEF Fewer
<1>7. TokenStep
  BY DEF Stopped, TokenStep, Fresh, NewPage
<1> QED
  BY <1>1, <1>5, <1>6, <1>7, ShowsTyped, Parts DEF Local, Stopped, LeftOK

LEMMA ContinuedLocal ==
  ASSUME TypeOK, Whole, NEW r \in Requests, Continued(r)
  PROVE  Local
<1> DEFINE q == req[r]
           mode == IF q.says = "page" THEN "CONNECTED" ELSE page.mode
           token == IF q.gives THEN q.h ELSE page.token
           cursor == Larger(page.cursor, Scanned(q))
           p == [page EXCEPT !.mode = mode, !.token = token, !.cursor = cursor]
<1>1. q \in Calls /\ page \in Pages
  BY DEF TypeOK
<1>2. page' = PolledOn(q.kind, p)
  BY <1>1 DEF Continued, Pages
<1>3. /\ mode \in {"IDLE", "WATCHING", "WATCHED", "CONNECTED"}
      /\ token \in Nat /\ cursor \in Nat
  BY <1>1 DEF Calls, Pages, Larger, Scanned
<1> HIDE DEF mode, token, cursor
<1>4. p \in Pages /\ p.token = token
  BY <1>1, <1>3 DEF Pages
<1> HIDE DEF p
<1>5. page' \in Pages /\ (page'.token) = token
  BY <1>2, <1>4, PolledTyped
<1>6. ReqsOK' /\ Whole' /\ Fewer
  BY EmptyTyped, Parts DEF Continued
<1>7. ~(req'[r]).gives
  BY DEF Continued, TypeOK, NoReq
<1>8. TokenStep
  BY <1>5, <1>7 DEF TokenStep, token
<1> QED
  BY <1>5, <1>6, <1>8, ShowsTyped, Parts DEF Local, Continued, LeftOK

-----------------------------------------------------------------------------
(* Every step.                                                             *)

IInv == TypeOK /\ Whole

\* How tokens pass: none is added, or the page takes over that of an answer,
\* or one request is given the token of a handoff nobody had one of.
Passes ==
  \/ Fewer /\ TokenStep
  \/ UNCHANGED page /\ \E r \in Requests : Issued(r)

LEMMA StepMoves ==
  ASSUME IInv, [Next]_vars
  PROVE  IInv' /\ Moves /\ Passes
<1> USE DEF IInv
<1> DEFINE Rest == ConsoleOK /\ ActsOK /\ SweepOK /\ ReqsOK /\ Whole /\ ClientOK /\ LeftOK
<1>0. RowsOK /\ Rest
  BY Parts
<1>a. ASSUME Moves, UNCHANGED act
      PROVE  ActsOK'
  BY <1>0, <1>a, RowsKept, ActsKept
<1>b. ASSUME Moves, UNCHANGED sweep
      PROVE  SweepOK'
  BY <1>0, <1>b, RowsKept, SweepKept
<1>c. ASSUME Moves, UNCHANGED req
      PROVE  ReqsOK' /\ Whole'
  BY <1>0, <1>c, RowsKept, ReqsKept DEF Whole
<1>d. ASSUME UNCHANGED console
      PROVE  ConsoleOK'
  BY <1>0, <1>d DEF console, ConsoleOK
<1>e. ASSUME UNCHANGED client
      PROVE  ClientOK'
  BY <1>0, <1>e DEF client, ClientOK
<1>f. ASSUME UNCHANGED left
      PROVE  LeftOK'
  BY <1>0, <1>f DEF LeftOK
<1>i. ASSUME UNCHANGED <<req, client>>
      PROVE  Passes
  BY <1>i DEF client, Passes, Fewer, TokenStep
<1>j. ASSUME UNCHANGED page, Fewer \/ \E r \in Requests : Issued(r)
      PROVE  Passes
  BY <1>j DEF Passes, TokenStep
<1>g. ASSUME Keeps, UNCHANGED <<console, act, sweep, page, left>>, ReqsOK', Whole',
             ClientOK', Fewer \/ \E r \in Requests : Issued(r)
      PROVE  Moves /\ Rest' /\ Passes
  BY <1>a, <1>b, <1>d, <1>f, <1>g, <1>j DEF Moves
<1>h. ASSUME Local
      PROVE  Moves /\ Rest' /\ Passes
  <2>1. Moves
    BY <1>h, <1>0, NoRow DEF Local, Moves, RowsOK
  <2> QED
    BY <1>h, <1>a, <1>b, <1>d, <2>1 DEF Local, Passes
<1>1. ASSUME NEW a \in Agents, Intervene(a)
      PROVE  Moves /\ Rest' /\ Passes
  BY <1>1, InterveneMoves, <1>b, <1>c, <1>d, <1>e, <1>i DEF Moves
<1>2. ASSUME NEW a \in Agents, NEW h \in DOMAIN handoff, Reply(a, h) \/ Finish(a, h)
      PROVE  Moves /\ Rest' /\ Passes
  BY <1>2, BeginMoves, <1>b, <1>c, <1>d, <1>e, <1>i DEF Moves
<1>3. ASSUME NEW a \in Agents, NEW h \in DOMAIN handoff, TakeOver(a, h)
      PROVE  Moves /\ Rest' /\ Passes
  BY <1>3, TakeOverMoves, <1>a, <1>b, <1>c, <1>d, <1>e, <1>i DEF Moves
<1>4. ASSUME \/ \E enabled \in BOOLEAN : EditRead(enabled)
             \/ EditWrite \/ CacheExpires \/ CloseChannel
      PROVE  Moves /\ Rest' /\ Passes
  BY <1>4, ConsoleMoves, <1>a, <1>b, <1>c, <1>e, <1>i DEF Moves
<1>5. ASSUME SweepStep
      PROVE  Moves /\ Rest' /\ Passes
  BY <1>5, SweepMoves, <1>a, <1>c, <1>e, <1>f, <1>i DEF Moves
<1>6. ASSUME NEW r \in Requests, Send(r) \/ LoopPoll(r) \/ Reload(r) \/ Fail(r)
      PROVE  Moves /\ Rest' /\ Passes
  BY <1>6, <1>h, AsksLocal, ReloadLocal, FailLocal
<1>7. ASSUME NEW r \in Requests, ServeStep(r)
      PROVE  Moves /\ Rest' /\ Passes
  <2>1. CASE Read(r) \/ Expire(r) \/ Issue(r) \/ Mark(r)
    BY <2>1, <1>e, <1>g, ReadMoves, ExpireMoves, IssueMoves, MarkMoves DEF client
  <2>2. CASE AppendUser(r) \/ Collect(r) \/ Advance(r) \/ ReadPage(r)
    BY <2>2, <1>e, <1>g, AppendUserMoves, ReadsMoves, AdvanceMoves DEF client
  <2>3. CASE Answered(r) \/ Stopped(r) \/ Continued(r)
    BY <2>3, <1>h, AnsweredLocal, StoppedLocal, ContinuedLocal
  <2> QED
    BY <1>7, <2>1, <2>2, <2>3 DEF ServeStep
<1>8. ASSUME NEW a \in Agents, AgentStep(a)
      PROVE  Moves /\ Rest' /\ Passes
  <2>1. CASE Create(a)
    BY <2>1, CreateMoves, <1>b, <1>c, <1>d, <1>e, <1>f, <1>i
  <2>2. CASE Replied(a) \/ Finished(a)
    BY <2>2, RepliedMoves, FinishedMoves, <1>b, <1>c, <1>d, <1>e, <1>f, <1>i DEF Moves
  <2> QED
    BY <1>8, <2>1, <2>2 DEF AgentStep
<1>9. ASSUME TimePasses
      PROVE  Moves /\ Rest' /\ Passes
  BY <1>9, TimePassesMoves, <1>a, <1>b, <1>c, <1>d, <1>e, <1>f, <1>i DEF Moves
<1>10. ASSUME WatchEnds
      PROVE  Moves /\ Rest' /\ Passes
  BY <1>10, <1>h, WatchEndsLocal
<1>11. ASSUME UNCHANGED vars
      PROVE  Moves /\ Rest' /\ Passes
  <2>1. Keeps
    BY <1>0, <1>11, NoRow DEF vars, RowsOK
  <2> QED
    BY <1>11, <2>1, <1>a, <1>b, <1>c, <1>d, <1>e, <1>f, <1>i DEF Moves, vars, console, client
<1>12. Moves /\ Rest' /\ Passes
  <2> HIDE DEF Rest
  <2> QED
    BY <1>1, <1>2, <1>3, <1>4, <1>5, <1>6, <1>7, <1>8, <1>9, <1>10, <1>11
       DEF Next, Background
<1>13. RowsOK'
  BY <1>0, <1>12, RowsKept
<1>14. TypeOK'
  BY <1>12, <1>13
     DEF TypeOK, RowsOK, ConsoleOK, ActsOK, SweepOK, ReqsOK, Placed, ClientOK, LeftOK
<1> QED
  BY <1>12, <1>14

LEMMA InitWhole == Init => IInv
<1>1. Init => Whole
  BY DEF Init, Whole, Bounded, NoReq
<1> QED
  BY <1>1, InitTyped DEF IInv

\* Types, and of the handoffs of a session only the last may be active.
THEOREM HandoffTypes == Spec => []TypeOK
<1>1. Init => IInv
  BY InitWhole
<1>2. IInv /\ [Next]_vars => IInv'
  BY StepMoves
<1>3. IInv => TypeOK
  BY DEF IInv
<1> QED
  BY <1>1, <1>2, <1>3, PTL DEF Spec

-----------------------------------------------------------------------------
(* What a thread says.                                                     *)

Ends1(thread) == {k \in DOMAIN thread : Ended(thread[k].kind)}

EndedOnce(x) ==
  /\ Active(x) => Ends1(x.thread) = {}
  /\ ~Active(x) =>
       \E k \in DOMAIN x.thread :
         /\ Ends1(x.thread) = {k}
         /\ \A n \in DOMAIN x.thread : n > k => x.thread[n].kind = "USER"

\* Message k made who the assignee, and no message before n changed it again.
LeadsAt(thread, k, who, n) ==
  /\ thread[k].kind \in {"CONNECTED", "TAKEOVER"}
  /\ thread[k].by = who
  /\ \A m \in k + 1 .. n - 1 : thread[m].kind # "TAKEOVER"

Led(x) == \E k \in DOMAIN x.thread : LeadsAt(x.thread, k, x.assignee, Len(x.thread) + 1)

Written(x) ==
  \A n \in DOMAIN x.thread : x.thread[n].kind = "AGENT" =>
    \E k \in 1 .. n - 1 : LeadsAt(x.thread, k, x.thread[n].by, n)

LEMMA OneMore ==
  ASSUME NEW t \in Seq(Message), NEW msg \in Message, NEW u, u = Append(t, msg)
  PROVE  /\ u \in Seq(Message) /\ Len(u) = Len(t) + 1 /\ Len(t) \in Nat
         /\ DOMAIN u = 1 .. Len(t) + 1 /\ DOMAIN t = 1 .. Len(t)
         /\ u[Len(t) + 1] = msg
         /\ \A k \in DOMAIN t : u[k] = t[k]
OBVIOUS

LEMMA EndedOnceKept ==
  ASSUME NEW x \in Handoffs, NEW y, RowStep(x, y), EndedOnce(x)
  PROVE  EndedOnce(y)
<1>1. CASE y.thread = x.thread /\ (Active(y) <=> Active(x))
  BY <1>1 DEF EndedOnce
<1>2. CASE \E msg \in Message : y.thread = Append(x.thread, msg) /\ Follows(x, y, msg)
  <2>1. PICK msg \in Message : y.thread = Append(x.thread, msg) /\ Follows(x, y, msg)
    BY <1>2
  <2> DEFINE t == x.thread
             u == y.thread
             n == Len(t) + 1
  <2>2. /\ Len(t) \in Nat /\ DOMAIN u = 1 .. n /\ DOMAIN t = 1 .. Len(t)
        /\ u[n] = msg /\ \A k \in DOMAIN t : u[k] = t[k]
    BY <2>1, OneMore DEF Handoffs
  <2>3. /\ ~Ended(msg.kind) => Ends1(u) = Ends1(t)
        /\ Ended(msg.kind) => Ends1(u) = Ends1(t) \cup {n}
    <3> HIDE DEF t, u
    <3>1. DOMAIN u = DOMAIN t \cup {n} /\ n \notin DOMAIN t
      BY <2>2
    <3> HIDE DEF n
    <3> QED
      BY <2>2, <3>1 DEF Ends1
  <2>4. CASE Active(x) /\ ~Ended(msg.kind)
    <3>1. Active(y)
      BY <2>1, <2>4 DEF Follows, Active
    <3> QED
      BY <2>3, <2>4, <3>1 DEF EndedOnce
  <2>5. CASE Active(x) /\ Ended(msg.kind)
    <3>1. ~Active(y)
      BY <2>1, <2>5 DEF Follows, Active, Ended
    <3>2. Ends1(u) = {n}
      BY <2>3, <2>5 DEF EndedOnce
    <3>3. n \in DOMAIN u /\ \A m \in DOMAIN u : ~(m > n)
      BY <2>2
    <3> QED
      BY <3>1, <3>2, <3>3 DEF EndedOnce
  <2>6. CASE ~Active(x)
    <3>1. msg.kind = "USER" /\ ~Active(y)
      BY <2>1, <2>6 DEF Follows, Active
    <3>2. PICK k \in DOMAIN t :
            Ends1(t) = {k} /\ \A m \in DOMAIN t : m > k => t[m].kind = "USER"
      BY <2>6 DEF EndedOnce
    <3>3. Ends1(u) = {k} /\ k \in DOMAIN u
      BY <2>2, <2>3, <3>1, <3>2 DEF Ended
    <3>4. \A m \in DOMAIN u : m > k => u[m].kind = "USER"
      BY <2>2, <3>1, <3>2
    <3> QED
      BY <3>1, <3>3, <3>4 DEF EndedOnce
  <2> QED
    BY <2>4, <2>5, <2>6
<1> QED
  BY <1>1, <1>2 DEF RowStep

LEMMA LedKept ==
  ASSUME NEW x \in Handoffs, NEW y, RowStep(x, y), Led(x)
  PROVE  Led(y)
<1>1. CASE y.thread = x.thread /\ y.assignee = x.assignee
  BY <1>1 DEF Led
<1>2. CASE \E msg \in Message : y.thread = Append(x.thread, msg) /\ Follows(x, y, msg)
  <2>1. PICK msg \in Message : y.thread = Append(x.thread, msg) /\ Follows(x, y, msg)
    BY <1>2
  <2> DEFINE t == x.thread
             u == y.thread
             n == Len(t) + 1
  <2>2. /\ Len(u) = n /\ Len(t) \in Nat /\ DOMAIN u = 1 .. n /\ DOMAIN t = 1 .. Len(t)
        /\ u[n] = msg /\ \A k \in DOMAIN t : u[k] = t[k]
    BY <2>1, OneMore DEF Handoffs
  <2>3. CASE msg.kind = "TAKEOVER"
    <3>1. msg.by = y.assignee
      BY <2>1, <2>3 DEF Follows, Ended
    <3>2. LeadsAt(u, n, y.assignee, Len(u) + 1) /\ n \in DOMAIN u
      BY <2>2, <2>3, <3>1 DEF LeadsAt
    <3> QED
      BY <3>2 DEF Led
  <2>4. CASE msg.kind # "TAKEOVER"
    <3>1. y.assignee = x.assignee
      BY <2>1, <2>4 DEF Follows
    <3>2. PICK k \in DOMAIN t : LeadsAt(t, k, x.assignee, n)
      BY DEF Led
    <3>3. \A i \in k + 1 .. n + 1 - 1 : (i \in k + 1 .. n - 1 /\ i \in DOMAIN t) \/ i = n
      BY <2>2
    <3>4. ASSUME NEW i \in k + 1 .. n + 1 - 1 PROVE u[i].kind # "TAKEOVER"
      <4>1. CASE i \in k + 1 .. n - 1 /\ i \in DOMAIN t
        BY <2>2, <3>2, <4>1 DEF LeadsAt
      <4>2. CASE i = n
        BY <2>2, <2>4, <4>2
      <4> QED
        BY <3>3, <4>1, <4>2
    <3>5. LeadsAt(u, k, y.assignee, n + 1) /\ k \in DOMAIN u
      BY <2>2, <3>1, <3>2, <3>4 DEF LeadsAt
    <3> QED
      BY <2>2, <3>5 DEF Led
  <2> QED
    BY <2>3, <2>4
<1> QED
  BY <1>1, <1>2 DEF RowStep

LEMMA WrittenKept ==
  ASSUME NEW x \in Handoffs, NEW y, RowStep(x, y), Led(x), Written(x)
  PROVE  Written(y)
<1>1. CASE y.thread = x.thread
  BY <1>1 DEF Written
<1>2. CASE \E msg \in Message : y.thread = Append(x.thread, msg) /\ Follows(x, y, msg)
  <2>1. PICK msg \in Message : y.thread = Append(x.thread, msg) /\ Follows(x, y, msg)
    BY <1>2
  <2> DEFINE t == x.thread
             u == y.thread
             n == Len(t) + 1
  <2>2. /\ Len(u) = n /\ Len(t) \in Nat /\ DOMAIN u = 1 .. n /\ DOMAIN t = 1 .. Len(t)
        /\ u[n] = msg /\ \A k \in DOMAIN t : u[k] = t[k]
    BY <2>1, OneMore DEF Handoffs
  <2>3. ASSUME NEW m \in DOMAIN t, u[m].kind = "AGENT"
        PROVE  \E k \in 1 .. m - 1 : LeadsAt(u, k, u[m].by, m)
    <3>1. PICK k \in 1 .. m - 1 : LeadsAt(t, k, t[m].by, m)
      BY <2>2, <2>3 DEF Written
    <3>2. u[m] = t[m] /\ u[k] = t[k] /\ \A i \in k + 1 .. m - 1 : u[i] = t[i]
      <4> HIDE DEF t, u, n
      <4>1. m \in 1 .. Len(t) /\ k \in 1 .. m - 1
        BY <2>2
      <4>2. k \in DOMAIN t /\ \A i \in k + 1 .. m - 1 : i \in DOMAIN t
        BY <2>2, <4>1
      <4> QED
        BY <2>2, <4>2
    <3>3. LeadsAt(u, k, u[m].by, m)
      BY <3>1, <3>2 DEF LeadsAt
    <3> QED
      BY <3>3
  <2>4. ASSUME msg.kind = "AGENT"
        PROVE  \E k \in 1 .. n - 1 : LeadsAt(u, k, u[n].by, n)
    <3>1. msg.by = x.assignee
      BY <2>1, <2>4 DEF Follows, Ended
    <3>2. PICK k \in DOMAIN t : LeadsAt(t, k, x.assignee, n)
      BY DEF Led
    <3>3. u[k] = t[k] /\ \A i \in k + 1 .. n - 1 : u[i] = t[i]
      BY <2>2
    <3>4. LeadsAt(u, k, u[n].by, n)
      BY <2>2, <3>1, <3>2, <3>3 DEF LeadsAt
    <3> QED
      BY <2>2, <3>4
  <2>5. \A m \in DOMAIN u : m \in DOMAIN t \/ m = n
    BY <2>2
  <2> QED
    BY <2>2, <2>3, <2>4, <2>5 DEF Written
<1> QED
  BY <1>1, <1>2 DEF RowStep

Orderly(x) == EndedOnce(x) /\ Led(x) /\ Written(x)

LEMMA BegunOrderly ==
  ASSUME NEW a \in Agents
  PROVE  Orderly(Begun(a))
<1> DEFINE x == Begun(a)
<1>1. /\ x.thread = <<Said("CONNECTED", a)>> /\ x.assignee = a /\ Active(x)
  BY DEF Begun, Active
<1>2. /\ DOMAIN x.thread = {1} /\ Len(x.thread) = 1
      /\ x.thread[1].kind = "CONNECTED" /\ x.thread[1].by = a
  BY <1>1 DEF Said
<1> HIDE DEF x
<1>3. EndedOnce(x)
  BY <1>1, <1>2 DEF EndedOnce, Ends1, Ended
<1>4. LeadsAt(x.thread, 1, x.assignee, Len(x.thread) + 1)
  BY <1>1, <1>2 DEF LeadsAt
<1>5. Led(x) /\ Written(x)
  BY <1>2, <1>4 DEF Led, Written
<1> QED
  BY <1>3, <1>5 DEF x, Orderly

Threads == \A h \in DOMAIN handoff : Orderly(handoff[h])

LEMMA ThreadsKept ==
  ASSUME IInv, Threads, [Next]_vars
  PROVE  Threads'
<1>1. handoff \in Seq(Handoffs)
  BY DEF IInv, TypeOK
<1>2. CASE Keeps
  <2>1. DOMAIN handoff' = DOMAIN handoff
    BY <1>1, <1>2 DEF Keeps
  <2>2. ASSUME NEW h \in DOMAIN handoff
        PROVE  Orderly(handoff'[h])
    <3>1. RowStep(handoff[h], handoff'[h]) /\ handoff[h] \in Handoffs /\ Orderly(handoff[h])
      BY <1>1, <1>2 DEF Keeps, Threads
    <3> QED
      BY <3>1, EndedOnceKept, LedKept, WrittenKept DEF Orderly
  <2> QED
    BY <2>1, <2>2 DEF Threads, Orderly, EndedOnce, Led, Written
<1>3. CASE Adds
  <2>1. PICK a \in Agents : handoff' = Append(handoff, Begun(a))
    BY <1>3 DEF Adds
  <2>2. /\ \A h \in DOMAIN handoff : handoff'[h] = handoff[h]
        /\ \A h \in DOMAIN handoff' : h \in DOMAIN handoff \/ handoff'[h] = Begun(a)
    BY <1>1, <2>1, BegunRow
  <2> QED
    BY <2>2, BegunOrderly DEF Threads
<1> QED
  BY <1>2, <1>3, StepMoves DEF Moves

LEMMA Orders == Spec => [](IInv /\ Threads)
<1>1. Init => IInv /\ Threads
  BY InitWhole DEF Init, Threads
<1>2. IInv /\ Threads /\ [Next]_vars => (IInv /\ Threads)'
  BY StepMoves, ThreadsKept
<1> QED
  BY <1>1, <1>2, PTL DEF Spec

\* Whoever ends a handoff, and how often: one end message, and after it
\* nothing but what the visitor had under way.
THEOREM HandoffEndsOnce == Spec => []EndsOnce
<1>1. Threads => EndsOnce
  BY DEF Threads, Orderly, EndedOnce, Ends1, Ended, EndsOnce
<1> QED
  BY <1>1, Orders, PTL

\* Every message of an agent was written by the assignee of that moment.
THEOREM HandoffSpoken == Spec => []SpokenByAssignee
<1>1. Threads => SpokenByAssignee
  BY DEF Threads, Orderly, Written, LeadsAt, SpokenByAssignee
<1> QED
  BY <1>1, Orders, PTL

-----------------------------------------------------------------------------
(* Who has a token.                                                        *)

\* A handoff whose token is out: it has a mode.
Out(h) == h \in DOMAIN handoff /\ handoff[h].mode # "NONE"

Tokens ==
  /\ page.token = 0 \/ Out(page.token)
  /\ \A r \in Requests : req[r].gives => Out(req[r].h) /\ page.token # req[r].h
  /\ \A r, x \in Requests :
       req[r].gives /\ req[x].gives /\ req[r].h = req[x].h => r = x

LEMMA OutKept ==
  ASSUME handoff \in Seq(Handoffs), Moves, NEW h, Out(h)
  PROVE  h \in DOMAIN handoff' /\ (handoff'[h]).mode # "NONE"
<1>1. CASE Keeps
  <2>1. h \in DOMAIN handoff' /\ RowStep(handoff[h], handoff'[h])
    BY <1>1 DEF Keeps, Out
  <2> QED
    BY <2>1 DEF RowStep, Out
<1>2. CASE Adds
  <2>1. PICK a \in Agents : handoff' = Append(handoff, Begun(a))
    BY <1>2 DEF Adds
  <2>2. h \in DOMAIN handoff' /\ handoff'[h] = handoff[h]
    BY <2>1, BegunRow DEF Out
  <2> QED
    BY <2>2 DEF Out
<1> QED
  BY <1>1, <1>2 DEF Moves

LEMMA TokensKept ==
  ASSUME IInv, Tokens, [Next]_vars
  PROVE  Tokens'
<1>1. IInv' /\ Moves /\ Passes /\ handoff \in Seq(Handoffs)
  BY StepMoves DEF IInv, TypeOK
<1>2. \A h : Out(h) => h \in DOMAIN handoff' /\ (handoff'[h]).mode # "NONE"
  BY <1>1, OutKept
<1>3. CASE Fewer /\ TokenStep
  <2>1. \A r \in Requests :
          (req'[r]).gives => req[r].gives /\ (req'[r]).h = req[r].h /\ Out(req[r].h)
    BY <1>3 DEF Fewer, Tokens
  <2>2. \A r, x \in Requests :
          (req'[r]).gives /\ (req'[x]).gives /\ (req'[r]).h = (req'[x]).h => r = x
    BY <2>1 DEF Tokens
  <2>3. CASE (page'.token) \in {0, page.token}
    <3>1. \A r \in Requests : (req'[r]).gives => (req'[r]).h # (page'.token)
      BY <1>1, <2>1, <2>3 DEF Tokens, Out
    <3>2. (page'.token) = 0 \/ Out((page'.token))
      BY <2>3 DEF Tokens
    <3> QED
      BY <1>2, <2>1, <2>2, <3>1, <3>2 DEF Tokens, Out
  <2>4. CASE \E r \in Requests :
               req[r].gives /\ (page'.token) = req[r].h /\ ~(req'[r]).gives
    <3>1. PICK r \in Requests :
            req[r].gives /\ (page'.token) = req[r].h /\ ~(req'[r]).gives
      BY <2>4
    <3>2. Out((page'.token))
      BY <3>1 DEF Tokens
    <3>3. \A x \in Requests : (req'[x]).gives => (req'[x]).h # (page'.token)
      BY <2>1, <3>1 DEF Tokens
    <3> QED
      BY <1>2, <2>1, <2>2, <3>2, <3>3 DEF Tokens, Out
  <2> QED
    BY <1>3, <2>3, <2>4 DEF TokenStep
<1>4. CASE UNCHANGED page /\ \E r \in Requests : Issued(r)
  <2>1. PICK r \in Requests : Issued(r)
    BY <1>4
  <2> DEFINE h == req[r].h
  <2>2. /\ h \in DOMAIN handoff /\ ~Out(h) /\ (handoff'[h]).mode # "NONE"
        /\ (req'[r]).gives => (req'[r]).h = h
        /\ \A x \in Requests \ {r} : req'[x] = req[x]
    BY <2>1 DEF Issued, Out
  <2> HIDE DEF h
  <2>3. h \in DOMAIN handoff' /\ h \in Nat \ {0}
    BY <1>1, <2>2, RowsKept, Parts DEF IInv, RowsOK
  <2>4. page.token # h /\ \A x \in Requests : req[x].gives => req[x].h # h
    BY <2>2, <2>3 DEF Tokens
  <2>5. ASSUME NEW x \in Requests, (req'[x]).gives
        PROVE  /\ x # r => req[x].gives /\ (req'[x]).h = req[x].h /\ req[x].h # h
               /\ x = r => (req'[x]).h = h
    BY <2>2, <2>4, <2>5
  <2>6. \A x \in Requests : (req'[x]).gives =>
          /\ (req'[x]).h \in DOMAIN handoff' /\ (handoff'[(req'[x]).h]).mode # "NONE"
          /\ (req'[x]).h # page.token
    BY <1>2, <2>2, <2>3, <2>4, <2>5 DEF Tokens
  <2>7. \A z, x \in Requests :
          (req'[z]).gives /\ (req'[x]).gives /\ (req'[z]).h = (req'[x]).h => z = x
    BY <2>5 DEF Tokens
  <2>8. page' = page /\ ((page'.token) = 0 \/ Out(page.token))
    BY <1>4 DEF Tokens
  <2> QED
    BY <1>2, <2>6, <2>7, <2>8 DEF Tokens, Out
<1> QED
  BY <1>1, <1>3, <1>4 DEF Passes

\* A token leaves the server once: the page has it, or one answer.
THEOREM HandoffOneHolder == Spec => []OneHolder
<1>1. Init => IInv /\ Tokens
  <2> SUFFICES ASSUME Init PROVE Tokens
    BY InitWhole
  <2>1. page.token = 0
    BY DEF Init, NewPage
  <2>2. \A r \in Requests : ~req[r].gives
    BY DEF Init, NoReq
  <2> QED
    BY <2>1, <2>2 DEF Tokens
<1>2. IInv /\ Tokens /\ [Next]_vars => (IInv /\ Tokens)'
  BY StepMoves, TokensKept
<1>3. Tokens => OneHolder
  <2> SUFFICES ASSUME Tokens, NEW h \in DOMAIN handoff
               PROVE  LET answers == {r \in Requests : req[r].gives /\ req[r].h = h}
                      IN  /\ \A r, x \in answers : r = x
                          /\ page.token = h => answers = {}
    BY DEF OneHolder
  <2> QED
    BY DEF Tokens
<1> QED
  BY <1>1, <1>2, <1>3, PTL DEF Spec

=============================================================================
