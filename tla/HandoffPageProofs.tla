-------------------------- MODULE HandoffPageProofs --------------------------
(***************************************************************************)
(* What the page of the visitor may rely on: the gate keeps the bot out of *)
(* a conversation, the cursors of a legacy conversation and of the page    *)
(* pass only what was shown.  What a request has read stays good while     *)
(* rows only grow (Grows); what it says of the rows is stated of a request *)
(* and a sequence of rows, so that the rows of a later state may be given. *)
(***************************************************************************)
EXTENDS HandoffProofs

Publics(x) == {k \in DOMAIN x.thread : Public(x.thread[k])}

\* What a row keeps for ever.
RowGrows(x, y) ==
  /\ Len(x.thread) =< Len(y.thread)
  /\ Publics(x) \subseteq Publics(y)
  /\ \A k \in Publics(y) : k \in Publics(x) \/ Len(x.thread) < k
  /\ Active(y) => Active(x)
  /\ x.delivered =< y.delivered

Grows(rows, new) ==
  /\ rows \in Seq(Handoffs) /\ new \in Seq(Handoffs)
  /\ Len(rows) =< Len(new)
  /\ \A h \in DOMAIN rows : RowGrows(rows[h], new[h])

-----------------------------------------------------------------------------
(* What a request may rely on.                                             *)

Working == Steps \ {"idle", "sent", "answer"}

\* Which steps follow which.
Ordered(q) ==
  /\ q.pc \in {"mark", "append", "collect", "advance"} => q.kind = "send"
  /\ q.pc = "expire" => /\ q.then \in {"mark", "append", "collect"} => q.kind = "send"
                        /\ q.then = "answer" => q.says # "page"
                        /\ q.then # "expire"
  /\ q.pc \notin {"advance", "answer"} => q.got = {}
  /\ q.pc = "sent" => q.says = "none" /\ q.last = 0

\* The bot is to answer: the conversation of the token is over, or this request
\* is about to end it.
BotFit(q, rows) ==
  /\ q.token = 0 \/ q.token \in DOMAIN rows
  /\ q.kind = "send" /\ q.says = "bot" /\ q.token # 0 =>
       IF q.pc = "expire" THEN q.token =< q.h ELSE ~Active(rows[q.token])

\* A message of the visitor brings the public messages that follow a number not
\* above the cursor, without a gap.
SendFit(q, rows) ==
  /\ q.kind = "send" /\ q.pc \in Working => q.after =< rows[q.h].delivered
  /\ q.pc = "advance" =>
       /\ q.got \subseteq Publics(rows[q.h])
       /\ \A k \in Publics(rows[q.h]), n \in q.got : q.after < k /\ k =< n => k \in q.got

Top(rows) == IF Len(rows) = 0 THEN 0 ELSE Len(rows[1].thread)

\* Of the only handoff, all public messages up to n were shown.
Seen(n, rows, seen) ==
  Len(rows) =< 1 =>
    /\ n =< Top(rows)
    /\ Len(rows) = 1 => \A k \in Publics(rows[1]) : k =< n => <<1, k>> \in seen

\* A poll starts from what was shown, and brings all up to the cursor it gives.
PollFit(q, rows, seen) ==
  q.kind \in Polls =>
    /\ q.pc # "answer" => Seen(q.after, rows, seen)
    /\ q.pc # "sent" /\ Len(rows) =< 1 => q.last =< Top(rows)
    /\ q.pc = "answer" /\ Len(rows) = 1 =>
         \A k \in Publics(rows[1]) : k =< q.last =>
           <<1, k>> \in seen \/ (q.h = 1 /\ k \in q.got)

Fits(q, rows, seen) ==
  Ordered(q) /\ BotFit(q, rows) /\ SendFit(q, rows) /\ PollFit(q, rows, seen)

\* The same of a request before its answer is reduced to what it carries.
Replies(q, rows, seen) ==
  q.kind \in Polls =>
    /\ Seen(q.after, rows, seen)
    /\ Len(rows) =< 1 => q.last =< Top(rows)
    /\ q.pc = "answer" /\ q.says = "page" /\ Len(rows) = 1 =>
         /\ q.h = 1
         /\ \A k \in Publics(rows[1]) : q.after < k /\ k =< q.last =>
              <<1, k>> \in seen \/ k \in q.got

Ready(q, rows, seen) ==
  Ordered(q) /\ BotFit(q, rows) /\ SendFit(q, rows) /\ Replies(q, rows, seen)

-----------------------------------------------------------------------------
(* What was read stays good.                                               *)

LEMMA RowGrown ==
  ASSUME NEW x \in Handoffs, NEW y, RowStep(x, y), x.delivered =< y.delivered
  PROVE  RowGrows(x, y)
<1>1. x.thread \in Seq(Message) /\ y \in Handoffs
  BY DEF Handoffs, RowStep
<1>2. Active(y) => Active(x)
  BY DEF RowStep, Follows, Active
<1>3. CASE y.thread = x.thread
  BY <1>1, <1>2, <1>3 DEF RowGrows, Publics
<1>4. CASE \E msg \in Message : y.thread = Append(x.thread, msg)
  <2>1. /\ Len(y.thread) = Len(x.thread) + 1 /\ Len(x.thread) \in Nat
        /\ \A k \in DOMAIN x.thread : k \in DOMAIN y.thread /\ y.thread[k] = x.thread[k]
        /\ \A k \in DOMAIN y.thread : k \in DOMAIN x.thread \/ k = Len(x.thread) + 1
    BY <1>1, <1>4
  <2>2. Publics(x) \subseteq Publics(y)
    BY <2>1 DEF Publics
  <2>3. \A k \in Publics(y) : k \in Publics(x) \/ Len(x.thread) < k
    BY <2>1 DEF Publics
  <2> QED
    BY <1>2, <2>1, <2>2, <2>3 DEF RowGrows
<1> QED
  BY <1>3, <1>4 DEF RowStep

LEMMA RowStays ==
  ASSUME NEW x \in Handoffs
  PROVE  RowGrows(x, x)
<1>1. x.delivered \in Nat
  BY DEF Handoffs
<1> QED
  BY <1>1, SameRow, RowGrown

\* The numbers of messages and of rows.
LEMMA PublicNumbers ==
  ASSUME NEW x \in Handoffs
  PROVE  /\ Len(x.thread) \in Nat /\ x.delivered \in Nat
         /\ \A k \in Publics(x) : k \in Nat /\ 0 < k /\ k =< Len(x.thread)
<1>1. DOMAIN x.thread = 1 .. Len(x.thread) /\ Len(x.thread) \in Nat
  BY DEF Handoffs
<1> QED
  BY <1>1 DEF Publics, Handoffs

LEMMA BotKept ==
  ASSUME NEW q \in Calls, NEW rows, NEW new, Grows(rows, new), BotFit(q, rows)
  PROVE  BotFit(q, new)
<1>1. DOMAIN rows \subseteq DOMAIN new
  BY DEF Grows
<1> QED
  BY <1>1 DEF BotFit, Grows, RowGrows

LEMMA SendKept ==
  ASSUME NEW q \in Calls, NEW rows, NEW new, Grows(rows, new), SendFit(q, rows),
         q.pc \in Working => q.h \in DOMAIN rows
  PROVE  SendFit(q, new)
<1>1. CASE q.pc \in Working
  <2> DEFINE x == rows[q.h]
             y == new[q.h]
  <2>1. x \in Handoffs /\ y \in Handoffs /\ RowGrows(x, y)
    BY <1>1 DEF Grows
  <2>2. /\ x.delivered \in Nat /\ y.delivered \in Nat /\ q.after \in Nat
        /\ x.delivered =< y.delivered
    BY <2>1, PublicNumbers DEF RowGrows, Calls
  <2> HIDE DEF x, y
  <2>3. q.kind = "send" => q.after =< y.delivered
    BY <1>1, <2>2 DEF SendFit, x
  <2>4. ASSUME q.pc = "advance"
        PROVE  /\ q.got \subseteq Publics(y)
               /\ \A k \in Publics(y), n \in q.got : q.after < k /\ k =< n => k \in q.got
    <3>1. /\ q.got \subseteq Publics(x) /\ Publics(x) \subseteq Publics(y)
          /\ \A k \in Publics(x), n \in q.got : q.after < k /\ k =< n => k \in q.got
      BY <2>1, <2>4 DEF SendFit, RowGrows, x
    <3>2. ASSUME NEW k \in Publics(y), NEW n \in q.got, k =< n
          PROVE  k \in Publics(x)
      <4>1. n \in Nat /\ n =< Len(x.thread) /\ k \in Nat /\ Len(x.thread) \in Nat
        BY <2>1, <3>1, PublicNumbers
      <4> QED
        BY <2>1, <3>2, <4>1 DEF RowGrows
    <3> QED
      BY <3>1, <3>2
  <2> QED
    BY <2>3, <2>4 DEF SendFit, y
<1>2. CASE q.pc \notin Working
  BY <1>2 DEF SendFit, Working, Steps, Calls
<1> QED
  BY <1>1, <1>2

LEMMA ZeroOrOne ==
  ASSUME NEW m \in Nat, NEW n \in Nat, m =< n, n =< 1
  PROVE  (m = 0 \/ m = 1) /\ (n = 0 \/ n = 1) /\ m =< 1
OBVIOUS

LEMMA SeenKept ==
  ASSUME NEW n \in Nat, NEW rows, NEW new, Grows(rows, new),
         NEW seen, NEW more, seen \subseteq more, Seen(n, rows, seen)
  PROVE  Seen(n, new, more)
<1>1. Len(rows) \in Nat /\ Len(new) \in Nat /\ Len(rows) =< Len(new)
  BY DEF Grows
<1>2. CASE Len(new) =< 1 /\ Len(rows) = 1
  <2>1. /\ rows[1] \in Handoffs /\ new[1] \in Handoffs /\ RowGrows(rows[1], new[1])
        /\ Len(new) = 1
    BY <1>1, <1>2 DEF Grows
  <2> DEFINE x == rows[1]
             y == new[1]
  <2>2. /\ Len(x.thread) \in Nat /\ Len(y.thread) \in Nat
        /\ Len(x.thread) =< Len(y.thread)
        /\ \A k \in Publics(y) : k \in Nat
    BY <2>1, PublicNumbers DEF RowGrows
  <2>3. n =< Len(x.thread) /\ \A k \in Publics(x) : k =< n => <<1, k>> \in seen
    BY <1>2 DEF Seen, Top
  <2>4. \A k \in Publics(y) : k \in Publics(x) \/ Len(x.thread) < k
    BY <2>1 DEF RowGrows
  <2> HIDE DEF x, y
  <2>5. n =< Len(y.thread) /\ \A k \in Publics(y) : k =< n => <<1, k>> \in more
    BY <2>2, <2>3, <2>4
  <2> QED
    BY <2>1, <2>5 DEF Seen, Top, y
<1>3. CASE Len(new) =< 1 /\ Len(rows) = 0
  <2>1. n = 0
    BY <1>3 DEF Seen, Top
  <2>2. CASE Len(new) = 1
    <3>1. new[1] \in Handoffs
      BY <2>2 DEF Grows
    <3>2. Len(new[1].thread) \in Nat /\ \A k \in Publics(new[1]) : k \in Nat /\ 0 < k
      BY <3>1, PublicNumbers
    <3> QED
      BY <2>1, <2>2, <3>2 DEF Seen, Top
  <2>3. CASE Len(new) = 0
    BY <2>1, <2>3 DEF Seen, Top
  <2>4. Len(new) = 0 \/ Len(new) = 1
    BY <1>1, <1>3, ZeroOrOne
  <2> QED
    BY <2>2, <2>3, <2>4
<1>4. CASE ~(Len(new) =< 1)
  BY <1>4 DEF Seen
<1>5. ~(Len(new) =< 1) \/ Len(rows) = 0 \/ Len(rows) = 1
  BY <1>1, ZeroOrOne
<1> QED
  BY <1>2, <1>3, <1>4, <1>5

LEMMA TopNumber ==
  ASSUME NEW rows \in Seq(Handoffs)
  PROVE  /\ Top(rows) \in Nat
         /\ Len(rows) = 1 => rows[1] \in Handoffs /\ Top(rows) = Len(rows[1].thread)
<1>1. CASE Len(rows) = 0
  BY <1>1 DEF Top
<1>2. CASE Len(rows) # 0
  <2>1. rows[1] \in Handoffs
    BY <1>2
  <2>2. Top(rows) = Len(rows[1].thread)
    BY <1>2 DEF Top
  <2> QED
    BY <2>1, <2>2, PublicNumbers
<1> QED
  BY <1>1, <1>2

LEMMA TopGrows ==
  ASSUME NEW rows, NEW new, Grows(rows, new), Len(new) =< 1
  PROVE  /\ Top(rows) \in Nat /\ Top(new) \in Nat /\ Top(rows) =< Top(new)
         /\ Len(rows) =< 1
<1>1. /\ rows \in Seq(Handoffs) /\ new \in Seq(Handoffs)
      /\ Len(rows) \in Nat /\ Len(new) \in Nat /\ Len(rows) =< Len(new)
  BY DEF Grows
<1>2. Top(rows) \in Nat /\ Top(new) \in Nat
  BY <1>1, TopNumber
<1>3. CASE Len(rows) = 1
  <2>1. RowGrows(rows[1], new[1]) /\ Len(new) = 1
    BY <1>1, <1>3 DEF Grows
  <2>2. Top(rows) = Len(rows[1].thread) /\ Top(new) = Len(new[1].thread)
    BY <1>1, <1>3, <2>1, TopNumber
  <2> QED
    BY <1>2, <1>3, <2>1, <2>2 DEF RowGrows
<1>4. CASE Len(rows) = 0
  <2>1. Top(rows) = 0
    BY <1>4 DEF Top
  <2> QED
    BY <1>2, <1>4, <2>1
<1>5. (Len(rows) = 0 \/ Len(rows) = 1) /\ Len(rows) =< 1
  BY <1>1, ZeroOrOne
<1> QED
  BY <1>3, <1>4, <1>5

LEMMA PollKept ==
  ASSUME NEW q \in Calls, NEW rows, NEW new, Grows(rows, new),
         NEW seen, NEW more, seen \subseteq more, PollFit(q, rows, seen)
  PROVE  PollFit(q, new, more)
<1>1. CASE q.kind \notin Polls
  BY <1>1 DEF PollFit
<1>2. CASE q.kind \in Polls
  <2>0. q.after \in Nat /\ q.last \in Nat
    BY DEF Calls
  <2>1. q.pc # "answer" => Seen(q.after, new, more)
    BY <1>2, <2>0, SeenKept DEF PollFit
  <2>2. q.pc # "sent" /\ Len(new) =< 1 => q.last =< Top(new)
    BY <1>2, <2>0, TopGrows DEF PollFit
  <2>3. ASSUME q.pc = "answer", Len(new) = 1, NEW k \in Publics(new[1]), k =< q.last
        PROVE  <<1, k>> \in more \/ (q.h = 1 /\ k \in q.got)
    <3>1. Len(rows) \in {0, 1} /\ new[1] \in Handoffs /\ rows \in Seq(Handoffs)
      BY <2>3 DEF Grows
    <3>2. k \in Nat /\ 0 < k
      BY <3>1, PublicNumbers
    <3>3. q.last =< Top(rows) /\ Top(rows) \in Nat
      <4>1. Len(new) =< 1 /\ q.pc # "sent"
        BY <2>3
      <4>2. Len(rows) =< 1 /\ Top(rows) \in Nat
        BY <4>1, TopGrows
      <4> QED
        BY <1>2, <4>1, <4>2 DEF PollFit
    <3>4. Len(rows) = 1
      <4>1. CASE Len(rows) = 0
        BY <2>0, <2>3, <3>2, <3>3, <4>1 DEF Top
      <4> QED
        BY <3>1, <4>1
    <3>5. k \in Publics(rows[1])
      <4>1. RowGrows(rows[1], new[1]) /\ Top(rows) = Len(rows[1].thread)
        BY <3>1, <3>4, TopNumber DEF Grows
      <4>2. k =< Len(rows[1].thread) /\ Len(rows[1].thread) \in Nat
        BY <2>0, <2>3, <3>2, <3>3, <4>1
      <4>3. k \in Publics(rows[1]) \/ Len(rows[1].thread) < k
        BY <2>3, <4>1 DEF RowGrows
      <4> QED
        BY <3>2, <4>2, <4>3
    <3> QED
      BY <1>2, <2>3, <3>4, <3>5 DEF PollFit
  <2> QED
    BY <2>1, <2>2, <2>3 DEF PollFit
<1> QED
  BY <1>1, <1>2

\* What an answer is reduced to keeps what the page may rely on.
LEMMA EmptyFits ==
  ASSUME NEW rows, NEW seen
  PROVE  Fits(NoReq, rows, seen)
BY DEF Fits, Ordered, BotFit, SendFit, PollFit, NoReq, Polls

LEMMA SettledFits ==
  ASSUME NEW q \in Calls, NEW rows \in Seq(Handoffs), NEW seen, Ready(q, rows, seen)
  PROVE  Fits(Settled(q), rows, seen)
<1> USE DEF Ready, Fits
<1>1. CASE q.pc # "answer"
  BY <1>1 DEF Settled, Replies, PollFit
<1>2. CASE q.pc = "answer" /\ ~q.heard
  BY <1>2, EmptyFits DEF Settled
<1>3. CASE q.pc = "answer" /\ q.heard
  <2> DEFINE token == IF q.says = "bot" THEN q.token ELSE 0
             h == IF q.gives \/ q.got # {} \/ q.says = "page" THEN q.h ELSE 0
             last == IF q.says = "page" THEN Larger(q.after, q.last)
                     ELSE IF q.says = "none" THEN q.after ELSE 0
             y == [q EXCEPT !.after = 0, !.token = token, !.h = h, !.last = last]
  <2>1. Settled(q) = y
    BY <1>3 DEF Settled, Calls
  <2>2. /\ y.pc = "answer" /\ y.kind = q.kind /\ y.says = q.says /\ y.got = q.got
        /\ y.token = token /\ y.h = h /\ y.last = last
    BY <1>3 DEF Calls
  <2> HIDE DEF y
  <2>3. Ordered(y) /\ SendFit(y, rows)
    BY <2>2 DEF Ordered, SendFit, Working
  <2>4. BotFit(y, rows)
    <3>1. token = 0 \/ token = q.token
      OBVIOUS
    <3> QED
      BY <1>3, <2>2, <3>1 DEF BotFit
  <2>5. PollFit(y, rows, seen)
    <3> SUFFICES ASSUME q.kind \in Polls
                 PROVE  /\ Len(rows) =< 1 => y.last =< Top(rows)
                        /\ Len(rows) = 1 =>
                             \A k \in Publics(rows[1]) : k =< y.last =>
                               <<1, k>> \in seen \/ (y.h = 1 /\ k \in y.got)
      BY <2>2 DEF PollFit
    <3>1. q.after \in Nat /\ q.last \in Nat /\ Top(rows) \in Nat
      BY TopNumber DEF Calls
    <3>2. /\ Seen(q.after, rows, seen)
          /\ Len(rows) =< 1 => q.last =< Top(rows)
      BY DEF Replies
    <3>3. Len(rows) =< 1 => y.last =< Top(rows)
      <4> HIDE DEF token, h
      <4> QED
        BY <2>2, <3>1, <3>2 DEF Seen, Larger
    <3>4. ASSUME Len(rows) = 1, NEW k \in Publics(rows[1]), k =< y.last
          PROVE  <<1, k>> \in seen \/ (y.h = 1 /\ k \in y.got)
      <4>1. k \in Nat /\ 0 < k
        BY <3>4, TopNumber, PublicNumbers
      <4>2. k =< q.after => <<1, k>> \in seen
        BY <3>2, <3>4 DEF Seen
      <4>3. CASE q.says = "page"
        <5>1. /\ q.h = 1
              /\ q.after < k /\ k =< q.last => <<1, k>> \in seen \/ k \in q.got
          BY <1>3, <3>4, <4>3 DEF Replies
        <5>2. k =< q.after \/ (q.after < k /\ k =< q.last)
          BY <2>2, <3>1, <3>4, <4>1, <4>3 DEF Larger
        <5> QED
          BY <2>2, <4>2, <4>3, <5>1, <5>2
      <4>4. CASE q.says = "none"
        BY <2>2, <3>4, <4>2, <4>4
      <4>5. CASE q.says \notin {"page", "none"}
        BY <2>2, <3>4, <4>1, <4>5
      <4> QED
        BY <4>3, <4>4, <4>5
    <3> QED
      BY <3>3, <3>4
  <2> QED
    BY <2>1, <2>3, <2>4, <2>5
<1> QED
  BY <1>1, <1>2, <1>3 DEF Calls

LEMMA KeptFits ==
  ASSUME NEW q \in Calls, NEW rows, NEW new, Grows(rows, new),
         NEW seen, NEW more, seen \subseteq more, Fits(q, rows, seen),
         q.pc \in Working => q.h \in DOMAIN rows
  PROVE  Fits(q, new, more)
BY BotKept, SendKept, PollKept DEF Fits

\* Nothing is passed by the number 0.
LEMMA SeenZero ==
  ASSUME NEW rows \in Seq(Handoffs), NEW seen
  PROVE  Seen(0, rows, seen)
<1>1. ASSUME Len(rows) = 1, NEW k \in Publics(rows[1])
      PROVE  ~(k =< 0)
  <2>1. k \in Nat /\ 0 < k
    BY <1>1, TopNumber, PublicNumbers
  <2> QED
    BY <2>1
<1>2. 0 =< Top(rows)
  BY TopNumber
<1> QED
  BY <1>1, <1>2 DEF Seen

-----------------------------------------------------------------------------
(* The ways of a request.                                                  *)

\* What a request reads, sends and carries.
Same(q, y) ==
  /\ y.kind = q.kind /\ y.heard = q.heard /\ y.token = q.token
  /\ y.after = q.after /\ y.h = q.h /\ y.last = q.last /\ y.got = q.got

\* Where the classification of an ended row (ended) or an active one leads.
Leads(q, y, pc, ended) ==
  /\ Same(q, y)
  /\ pc \in IF q.kind = "send" THEN {"issue", "mark", "append", "collect", "answer"}
            ELSE {"issue", "read", "answer"}
  /\ pc = "answer" => y.says # "page"
  /\ y.says = "bot" => q.kind = "send" /\ ended

LEMMA ToActiveLeads ==
  ASSUME NEW q \in Calls, q.kind = "send", q.says = "none", NEW x,
         NEW y, y = ToActive(q, x)
  PROVE  Leads(q, y, y.pc, FALSE)
<1>1. CASE x.mode = "NONE"
  <2>1. PICK pc \in {"issue", "mark"} : y = [q EXCEPT !.pc = pc]
    BY <1>1 DEF ToActive
  <2>2. Same(q, y) /\ y.pc = pc /\ y.says = "none"
    BY <2>1 DEF Same, Calls
  <2> QED
    BY <2>1, <2>2 DEF Leads
<1>2. CASE x.mode # "NONE"
  <2>1. PICK pc \in {"append", "answer"}, says \in {"connected", "legacy", "unverified"} :
          y = [q EXCEPT !.pc = pc, !.says = says]
    BY <1>2 DEF ToActive, Say
  <2>2. Same(q, y) /\ y.pc = pc /\ y.says = says
    BY <2>1 DEF Same, Calls
  <2> QED
    BY <2>1, <2>2 DEF Leads
<1> QED
  BY <1>1, <1>2

LEMMA ToEndedLeads ==
  ASSUME NEW q \in Calls, q.kind = "send", NEW x, NEW y, y = ToEnded(q, x)
  PROVE  Leads(q, y, y.pc, TRUE)
<1>1. PICK pc \in {"collect", "answer"} : y = [q EXCEPT !.pc = pc, !.says = "bot"]
  BY DEF ToEnded, Say
<1>2. Same(q, y) /\ y.pc = pc /\ y.says = "bot"
  BY <1>1 DEF Same, Calls
<1> QED
  BY <1>1, <1>2 DEF Leads

LEMMA ToPollLeads ==
  ASSUME NEW q \in Calls, q.kind # "send", q.says = "none", NEW x, NEW ended,
         NEW y, y = ToPoll(q, x, ended)
  PROVE  Leads(q, y, y.pc, ended)
<1>1. \/ y = [q EXCEPT !.pc = "issue"]
      \/ y = [q EXCEPT !.pc = "answer", !.says = "none"]
      \/ y = [q EXCEPT !.pc = "answer", !.says = "gone"]
      \/ y = [q EXCEPT !.pc = "read", !.says = "ended"]
      \/ y = [q EXCEPT !.pc = "read", !.says = "page"]
  BY DEF ToPoll, Say
<1>2. Same(q, y)
  <2>1. CASE y = [q EXCEPT !.pc = "issue"]
    BY <2>1 DEF Same, Calls
  <2>2. ASSUME NEW pc, NEW says, y = [q EXCEPT !.pc = pc, !.says = says]
        PROVE  Same(q, y)
    BY <2>2 DEF Same, Calls
  <2> QED
    BY <1>1, <2>1, <2>2
<1>3. \/ y.pc = "issue" /\ y.says = "none"
      \/ y.pc = "answer" /\ y.says \in {"none", "gone"}
      \/ y.pc = "read" /\ y.says \in {"ended", "page"}
  BY <1>1 DEF Calls
<1> QED
  BY <1>2, <1>3 DEF Leads

LEMMA RoutedLeads ==
  ASSUME NEW q \in Calls, Bounded(q), q.says = "none", NEW x, NEW y, y = Routed(q, x)
  PROVE  /\ y \in Calls
         /\ \/ y.pc # "expire" /\ Leads(q, y, y.pc, ~Active(x))
            \/ y.pc = "expire" /\ Leads(q, y, y.then, TRUE)
<1> DEFINE why == IF Active(x) THEN Judge(x) ELSE "NONE"
           ended == ~Active(x) \/ why # "NONE"
           to == IF q.kind # "send" THEN ToPoll(q, x, ended)
                 ELSE IF ended THEN ToEnded(q, x) ELSE ToActive(q, x)
           past == [to EXCEPT !.pc = "expire", !.then = to.pc, !.why = why]
<1>1. y = IF why = "NONE" THEN to ELSE past
  BY DEF Routed
<1>2. y \in Calls
  BY RoutedTurn DEF Turn
<1>3. to \in Calls
  BY ToPollTurn, ToEndedTurn, ToActiveTurn DEF Turn
<1>4. Leads(q, to, to.pc, ended)
  <2>1. CASE q.kind # "send"
    BY <2>1, ToPollLeads
  <2>2. CASE q.kind = "send" /\ ended
    BY <2>2, ToEndedLeads DEF Leads
  <2>3. CASE q.kind = "send" /\ ~ended
    BY <2>3, ToActiveLeads DEF Leads
  <2> QED
    BY <2>1, <2>2, <2>3
<1> HIDE DEF to
<1>5. CASE why = "NONE"
  <2>1. y = to /\ (ended => ~Active(x))
    BY <1>1, <1>5
  <2>2. to.pc # "expire"
    BY <1>4 DEF Leads
  <2> QED
    BY <1>2, <1>4, <2>1, <2>2 DEF Leads
<1>6. CASE why # "NONE"
  <2>1. y = past
    BY <1>1, <1>6
  <2>2. Same(to, y) /\ y.pc = "expire" /\ y.then = to.pc /\ y.says = to.says
    BY <1>3, <2>1 DEF Same, Calls
  <2> QED
    BY <1>2, <1>4, <2>2 DEF Leads, Same
<1> QED
  BY <1>5, <1>6

-----------------------------------------------------------------------------
(* Only a request that has sent messages along moves the cursor of a row.  *)

SameDelivered == \A h \in DOMAIN handoff : (handoff'[h]).delivered = handoff[h].delivered

LEMMA WrittenDelivered ==
  ASSUME NEW x \in Handoffs
  PROVE  /\ \A why : EndedRow(x, why).delivered = x.delivered
         /\ \A msg : Spoken(x, msg).delivered = x.delivered
         /\ \A mode : Connected(x, mode).delivered = x.delivered
BY DEF EndedRow, Spoken, Connected, Handoffs

LEMMA OneDelivered ==
  ASSUME handoff \in Seq(Handoffs), NEW h \in DOMAIN handoff, NEW y,
         y.delivered = handoff[h].delivered, handoff' = [handoff EXCEPT ![h] = y]
  PROVE  SameDelivered
BY DEF SameDelivered

LEMMA EndDelivered ==
  ASSUME handoff \in Seq(Handoffs), NEW h \in DOMAIN handoff, NEW why, EndHandoff(h, why)
  PROVE  SameDelivered
<1>1. handoff' = [handoff EXCEPT ![h] = EndedRow(handoff[h], why)]
  BY DEF EndHandoff
<1>2. handoff[h] \in Handoffs
  OBVIOUS
<1>3. EndedRow(handoff[h], why).delivered = handoff[h].delivered
  BY <1>2, WrittenDelivered
<1> QED
  BY <1>1, <1>3, OneDelivered

LEMMA SameRows ==
  ASSUME UNCHANGED handoff
  PROVE  SameDelivered
BY DEF SameDelivered

LEMMA AgentDelivered ==
  ASSUME TypeOK, NEW a \in Agents
  PROVE  /\ AgentStep(a) => SameDelivered
         /\ \A h \in DOMAIN handoff : TakeOver(a, h) => SameDelivered
<1>0. handoff \in Seq(Handoffs)
  BY DEF TypeOK
<1>1. ASSUME Create(a) PROVE SameDelivered
  <2>1. CASE UNCHANGED handoff
    BY <2>1, SameRows
  <2>2. CASE handoff' = Append(handoff, Begun(a))
    BY <1>0, <2>2, BegunRow DEF SameDelivered
  <2> QED
    BY <1>1, <2>1, <2>2 DEF Create
<1>2. ASSUME Replied(a) PROVE SameDelivered
  <2> DEFINE h == act[a].h
             y == IF StillMine(a, handoff[h]) THEN Spoken(handoff[h], Said("AGENT", a))
                  ELSE handoff[h]
  <2>1. h \in DOMAIN handoff /\ handoff[h] \in Handoffs
    BY <1>2 DEF TypeOK, Replied
  <2>2. handoff' = [handoff EXCEPT ![h] = y]
    BY <1>2 DEF Replied
  <2> HIDE DEF h
  <2>3. y.delivered = handoff[h].delivered
    BY <2>1, WrittenDelivered
  <2> HIDE DEF y
  <2> QED
    BY <1>0, <2>1, <2>2, <2>3, OneDelivered
<1>3. ASSUME Finished(a) PROVE SameDelivered
  BY <1>3, EndDelivered DEF Finished, TypeOK
<1>4. ASSUME NEW h \in DOMAIN handoff, TakeOver(a, h) PROVE SameDelivered
  <2>1. handoff[h] \in Handoffs
    BY DEF TypeOK
  <2>2. handoff' = [handoff EXCEPT ![h] =
          [handoff[h] EXCEPT !.assignee = a,
                             !.thread = Append(handoff[h].thread, Said("TAKEOVER", a))]]
    BY <1>4, <2>1 DEF TakeOver, Handoffs, TypeOK
  <2> DEFINE y == [handoff[h] EXCEPT !.assignee = a,
                     !.thread = Append(handoff[h].thread, Said("TAKEOVER", a))]
  <2>3. y.delivered = handoff[h].delivered
    BY <2>1 DEF Handoffs
  <2> HIDE DEF y
  <2>4. handoff' = [handoff EXCEPT ![h] = y]
    BY <2>2 DEF y
  <2> QED
    BY <1>0, <2>3, <2>4, OneDelivered
<1> QED
  BY <1>1, <1>2, <1>3, <1>4 DEF AgentStep

LEMMA SweepDelivered ==
  ASSUME TypeOK, SweepStep \/ TimePasses
  PROVE  SameDelivered
<1>1. ASSUME Purge PROVE SameDelivered
  <2>1. \A h \in DOMAIN handoff : handoff[h] \in Handoffs
    BY DEF TypeOK
  <2>2. PICK old \in BOOLEAN :
          handoff' = [h \in DOMAIN handoff |->
                        [handoff[h] EXCEPT !.raw = @ /\ ~Purged(handoff[h], old)]]
    BY <1>1 DEF Purge
  <2>3. ASSUME NEW h \in DOMAIN handoff
        PROVE  (handoff'[h]).delivered = handoff[h].delivered
    <3> DEFINE raw == handoff[h].raw /\ ~Purged(handoff[h], old)
    <3>1. handoff'[h] = [handoff[h] EXCEPT !.raw = raw]
      BY <2>2
    <3> HIDE DEF raw
    <3> QED
      BY <2>1, <3>1 DEF Handoffs
  <2> QED
    BY <2>3 DEF SameDelivered
<1>2. CASE SweepEnd
  BY <1>2, EndDelivered DEF SweepEnd, TypeOK
<1>3. CASE TimePasses
  <2>1. PICK limit \in {"idle", "reply", "grace"} :
          handoff' = [handoff EXCEPT ![latest].past = @ \cup {limit}]
    BY <1>3 DEF TimePasses
  <2>2. \A h \in DOMAIN handoff : handoff[h] \in Handoffs
    BY DEF TypeOK
  <2> QED
    BY <2>1, <2>2 DEF SameDelivered, Handoffs
<1>4. CASE SweepRead \/ SweepClear
  BY <1>4, SameRows DEF SweepRead, SweepClear
<1> QED
  BY <1>1, <1>2, <1>3, <1>4 DEF SweepStep, SweepPurge, SweepIdle

LEMMA ServeDelivered ==
  ASSUME TypeOK, NEW r \in Requests, ServeStep(r), ~Advance(r)
  PROVE  SameDelivered
<1> DEFINE h == req[r].h
<1>0. handoff \in Seq(Handoffs)
  BY DEF TypeOK
<1>1. CASE Expire(r)
  BY <1>1, EndDelivered DEF Expire, TypeOK
<1>2. CASE Issue(r) \/ Mark(r)
  <2>1. h \in DOMAIN handoff /\ handoff[h] \in Handoffs
    BY <1>2 DEF TypeOK, Issue, Mark
  <2>2. CASE UNCHANGED handoff
    BY <2>2, SameRows
  <2>3. CASE \E mode : handoff' = [handoff EXCEPT ![h] = Connected(handoff[h], mode)]
    <3> HIDE DEF h
    <3> QED
      BY <1>0, <2>1, <2>3, WrittenDelivered, OneDelivered
  <2> QED
    BY <1>2, <2>2, <2>3 DEF Issue, Mark
<1>3. CASE AppendUser(r)
  <2>0. req[r].pc = "append"
    BY <1>3 DEF AppendUser
  <2>1. h \in DOMAIN handoff
    BY <2>0 DEF TypeOK
  <2>2. handoff[h] \in Handoffs
    BY <1>0, <2>1
  <2>3. handoff' = [handoff EXCEPT ![h] = Spoken(handoff[h], Said("USER", Nobody))]
    BY <1>3 DEF AppendUser
  <2> HIDE DEF h
  <2> QED
    BY <1>0, <2>1, <2>2, <2>3, WrittenDelivered, OneDelivered
<1>4. CASE \/ Read(r) \/ Collect(r) \/ ReadPage(r)
           \/ Answered(r) \/ Stopped(r) \/ Continued(r)
  BY <1>4, SameRows DEF Read, Collect, ReadPage, Answered, Stopped, Continued
<1> QED
  BY <1>1, <1>2, <1>3, <1>4 DEF ServeStep

LEMMA AdvanceRow ==
  ASSUME TypeOK, Whole, NEW r \in Requests, Advance(r)
  PROVE  LET q == req[r]
             n == Reached(q)
         IN  /\ q.h \in DOMAIN handoff /\ n \in q.got /\ n \in Nat
             /\ \A k \in q.got : k =< n
             /\ handoff' = [handoff EXCEPT ![q.h].delivered = Larger(@, n)]
             /\ (handoff'[q.h]).delivered = Larger(handoff[q.h].delivered, n)
<1> DEFINE q == req[r]
<1>0. q.pc = "advance"
  BY DEF Advance
<1>1. q \in Calls /\ q.h \in DOMAIN handoff /\ Bounded(q) /\ handoff[q.h] \in Handoffs
  <2>1. handoff \in Seq(Handoffs) /\ q \in Calls /\ q.h \in DOMAIN handoff
    BY <1>0 DEF TypeOK
  <2>2. Bounded(q)
    BY DEF Whole
  <2> QED
    BY <2>1, <2>2
<1>2. q.got \in SUBSET Nat /\ q.got # {} /\ \E m \in Nat : \A k \in q.got : k =< m
  <2>1. q.got \in SUBSET Nat
    BY <1>1 DEF Calls
  <2> HIDE DEF q
  <2> QED
    BY <1>0, <1>1, <2>1 DEF Bounded
<1>3. Reached(q) \in q.got /\ \A k \in q.got : k =< Reached(q)
  BY <1>2, GreatestIn DEF Reached
<1>4. Reached(q) \in Nat
  BY <1>2, <1>3
<1>5. handoff' = [handoff EXCEPT ![q.h].delivered = Larger(@, Reached(q))]
  BY DEF Advance
<1> HIDE DEF q
<1>6. (handoff'[q.h]).delivered = Larger(handoff[q.h].delivered, Reached(q))
  BY <1>1, <1>5 DEF Handoffs, TypeOK
<1> QED
  BY <1>1, <1>3, <1>4, <1>5, <1>6 DEF q

\* The steps that no request takes.
Calm ==
  /\ SameDelivered
  /\ UNCHANGED <<req, shown, cut>>
  /\ (page'.token) = page.token /\ (page'.cursor) = page.cursor
  /\ (left'.faults) = left.faults

LEMMA OtherSpent ==
  ASSUME TypeOK, NEW what \in {"ops", "sends", "extras"}, Spend(what)
  PROVE  (left'.faults) = left.faults
BY DEF Spend, TypeOK

LEMMA FaultSpent ==
  ASSUME TypeOK, Spend("faults")
  PROVE  (left'.faults) = left.faults - 1 /\ left.faults \in Nat
BY DEF Spend, TypeOK

LEMMA StepKinds ==
  ASSUME IInv, [Next]_vars
  PROVE  \/ Calm
         \/ \E r \in Requests :
              Send(r) \/ LoopPoll(r) \/ Reload(r) \/ Fail(r) \/ ServeStep(r)
<1>0. TypeOK
  BY DEF IInv
<1>1. ASSUME NEW a \in Agents, Intervene(a) PROVE Calm
  BY <1>0, <1>1, SameRows, OtherSpent DEF Intervene, Calm, client
<1>2. ASSUME NEW a \in Agents, NEW h \in DOMAIN handoff, Reply(a, h) \/ Finish(a, h)
      PROVE  Calm
  BY <1>0, <1>2, SameRows, OtherSpent DEF Reply, Finish, Calm, client
<1>3. ASSUME NEW a \in Agents, NEW h \in DOMAIN handoff, TakeOver(a, h) PROVE Calm
  BY <1>0, <1>3, AgentDelivered, OtherSpent DEF TakeOver, Calm, client
<1>4. ASSUME (\E enabled \in BOOLEAN : EditRead(enabled)) \/ CloseChannel PROVE Calm
  BY <1>0, <1>4, SameRows, OtherSpent DEF EditRead, CloseChannel, Calm, client
<1>5. ASSUME EditWrite \/ CacheExpires PROVE Calm
  BY <1>5, SameRows DEF EditWrite, CacheExpires, Calm, client
<1>6. ASSUME SweepStep PROVE Calm
  BY <1>0, <1>6, SweepDelivered, SweepMoves DEF Calm, client
<1>7. ASSUME NEW a \in Agents, AgentStep(a) PROVE Calm
  BY <1>0, <1>7, AgentDelivered DEF AgentStep, Create, Replied, Finished, Calm, client
<1>8. ASSUME TimePasses PROVE Calm
  BY <1>0, <1>8, SweepDelivered DEF TimePasses, Calm, client
<1>9. ASSUME WatchEnds PROVE Calm
  BY <1>0, <1>9, SameRows DEF WatchEnds, Calm, TypeOK, Pages
<1>10. ASSUME UNCHANGED vars PROVE Calm
  BY <1>10, SameRows DEF vars, Calm
<1> QED
  BY <1>1, <1>2, <1>3, <1>4, <1>5, <1>6, <1>7, <1>8, <1>9, <1>10 DEF Next, Background

LEMMA StepGrows ==
  ASSUME IInv, [Next]_vars
  PROVE  Grows(handoff, handoff')
<1>1. /\ handoff \in Seq(Handoffs) /\ handoff' \in Seq(Handoffs) /\ Moves
      /\ TypeOK /\ Whole
  BY StepMoves DEF IInv, TypeOK
<1>2. ASSUME NEW h \in DOMAIN handoff
      PROVE  handoff[h].delivered =< (handoff'[h]).delivered
  <2>1. handoff[h] \in Handoffs /\ handoff[h].delivered \in Nat
    BY <1>1, PublicNumbers
  <2>2. CASE SameDelivered
    BY <2>1, <2>2 DEF SameDelivered
  <2>3. ASSUME NEW r \in Requests, Advance(r)
        PROVE  handoff[h].delivered =< (handoff'[h]).delivered
    <3>1. /\ Reached(req[r]) \in Nat
          /\ handoff' = [handoff EXCEPT ![req[r].h].delivered = Larger(@, Reached(req[r]))]
          /\ (handoff'[req[r].h]).delivered
               = Larger(handoff[req[r].h].delivered, Reached(req[r]))
      BY <1>1, <2>3, AdvanceRow
    <3>2. CASE h = req[r].h
      BY <2>1, <3>1, <3>2 DEF Larger
    <3>3. CASE h # req[r].h
      BY <2>1, <3>1, <3>3
    <3> QED
      BY <3>2, <3>3
  <2>4. SameDelivered \/ \E r \in Requests : Advance(r)
    BY <1>1, StepKinds, ServeDelivered, SameRows
       DEF Calm, Send, LoopPoll, Reload, Fail
  <2> QED
    BY <2>2, <2>3, <2>4
<1>3. CASE Keeps
  <2>1. Len(handoff) =< Len(handoff')
    BY <1>1, <1>3 DEF Keeps
  <2>2. ASSUME NEW h \in DOMAIN handoff
        PROVE  RowGrows(handoff[h], handoff'[h])
    BY <1>1, <1>2, <1>3, RowGrown DEF Keeps
  <2> QED
    BY <1>1, <2>1, <2>2 DEF Grows
<1>4. CASE Adds
  <2>1. PICK a \in Agents : handoff' = Append(handoff, Begun(a))
    BY <1>4 DEF Adds
  <2>2. Len(handoff) =< Len(handoff') /\ \A h \in DOMAIN handoff : handoff'[h] = handoff[h]
    BY <1>1, <2>1, BegunRow
  <2>3. \A h \in DOMAIN handoff : RowGrows(handoff[h], handoff'[h])
    BY <1>1, <2>2, RowStays
  <2> QED
    BY <1>1, <2>2, <2>3 DEF Grows
<1> QED
  BY <1>1, <1>3, <1>4 DEF Moves

-----------------------------------------------------------------------------
(* A request at work keeps what the page may rely on.                      *)

\* What the visitor was shown, and anything once a poll has found more than a
\* page of messages.
Known == shown \cup (IF cut THEN Nat \X Nat ELSE {})

LEMMA KnownGrows ==
  ASSUME IInv, [Next]_vars
  PROVE  Known \subseteq Known'
<1>1. (shown' = shown /\ cut' = cut) => Known \subseteq Known'
  BY DEF Known
<1>2. ASSUME Calm \/ \E r \in Requests : Send(r) \/ LoopPoll(r) \/ Reload(r) \/ Fail(r)
      PROVE  shown' = shown /\ cut' = cut
  BY <1>2 DEF Calm, Send, LoopPoll, Reload, Fail, client
<1>3. ASSUME NEW r \in Requests,
             \/ Read(r) \/ Expire(r) \/ Issue(r) \/ Mark(r) \/ AppendUser(r)
             \/ Collect(r) \/ Advance(r)
      PROVE  shown' = shown /\ cut' = cut
  BY <1>3 DEF Read, Expire, Issue, Mark, AppendUser, Collect, Advance, client
<1>4. ASSUME NEW r \in Requests, ReadPage(r)
      PROVE  Known \subseteq Known'
  <2>1. shown' = shown /\ (cut => cut')
    BY <1>4, Zenon DEF ReadPage
  <2> QED
    BY <2>1 DEF Known
<1>5. ASSUME NEW r \in Requests, Answered(r) \/ Stopped(r) \/ Continued(r)
      PROVE  Known \subseteq Known'
  <2>1. Shows(req[r]) /\ cut' = cut
    BY <1>5 DEF Answered, Stopped, Continued
  <2>2. shown \subseteq shown'
    BY <2>1 DEF Shows
  <2> QED
    BY <2>1, <2>2 DEF Known
<1> QED
  BY <1>1, <1>2, <1>3, <1>4, <1>5, StepKinds DEF ServeStep

Fit == \A r \in Requests : Fits(req[r], handoff, Known)

\* The request goes on as y, and what it carries goes with it.
Serves(r, y) ==
  /\ Goes(r, y) /\ y \in Calls
  /\ Ready(y, handoff', Known')
  /\ y.heard = req[r].heard
  /\ req[r].got # {} => y.h = req[r].h /\ y.got = req[r].got
  /\ UNCHANGED <<page, shown, left>>

\* What is known of a request when a step is over, its own change apart.
LEMMA AfterStep ==
  ASSUME IInv, [Next]_vars, Fit, NEW r \in Requests
  PROVE  /\ req[r] \in Calls /\ Placed(req[r]) /\ Bounded(req[r])
         /\ req[r].pc \in Working => req[r].h \in DOMAIN handoff
         /\ handoff' \in Seq(Handoffs) /\ DOMAIN handoff \subseteq DOMAIN handoff'
         /\ Fits(req[r], handoff', Known')
<1>1. /\ req[r] \in Calls /\ Placed(req[r]) /\ Bounded(req[r])
      /\ RowsOK /\ Moves /\ Grows(handoff, handoff')
  BY StepMoves, StepGrows, Parts DEF IInv, ReqsOK, Whole
<1>2. req[r].pc \in Working => req[r].h \in DOMAIN handoff
  BY <1>1 DEF Placed, Working
<1>3. handoff' \in Seq(Handoffs) /\ DOMAIN handoff \subseteq DOMAIN handoff'
  BY <1>1, RowsKept DEF Grows
<1>4. Fits(req[r], handoff, Known) /\ Known \subseteq Known'
  BY KnownGrows DEF Fit
<1> QED
  BY <1>1, <1>2, <1>3, <1>4, KeptFits

LEMMA ReadServes ==
  ASSUME IInv, [Next]_vars, Fit, NEW r \in Requests, Read(r)
  PROVE  \E y : Serves(r, y)
<1> DEFINE q == req[r]
           read == IF q.kind = "send"
                   THEN [q EXCEPT !.h = latest, !.after = handoff[latest].delivered]
                   ELSE [q EXCEPT !.h = latest, !.last = Len(handoff[latest].thread)]
<1>1. \/ Goes(r, Say(q, "blocked"))
      \/ \E s \in Settings :
           Goes(r, IF ~open THEN Say(q, "refused")
                   ELSE IF q.kind = "send" /\ (NoLookup(s, q) \/ latest = 0) THEN Say(q, "bot")
                   ELSE IF latest = 0 THEN Say(q, "none")
                   ELSE Routed(read, handoff[latest]))
  BY DEF Read
<1>2. /\ q \in Calls /\ Bounded(q) /\ q.pc = "sent"
      /\ handoff' = handoff /\ handoff \in Seq(Handoffs) /\ RowsOK
      /\ Fits(q, handoff, Known') /\ UNCHANGED <<page, shown, left>>
  BY AfterStep, Parts DEF Read, IInv, client
<1>3. /\ q.got = {} /\ q.says = "none" /\ q.last = 0
      /\ q.kind \in Polls => Seen(q.after, handoff, Known')
      /\ q.token = 0 \/ q.token \in DOMAIN handoff
  BY <1>2 DEF Fits, Ordered, PollFit, BotFit
<1>4. ASSUME NEW what \in {"refused", "blocked", "bot", "none"},
             what = "bot" => q.kind = "send" /\ (q.token = 0 \/ latest = 0),
             Goes(r, Say(q, what))
      PROVE  Serves(r, Say(q, what))
  <2> DEFINE y == Say(q, what)
  <2>1. /\ y \in Calls /\ Same(q, y) /\ y.pc = "answer" /\ y.says = what
    BY <1>2 DEF Say, Calls, Same, Steps, Answers
  <2> HIDE DEF y
  <2>2. Ordered(y) /\ SendFit(y, handoff)
    BY <2>1 DEF Ordered, SendFit, Working
  <2>3. BotFit(y, handoff)
    <3>1. latest = 0 => q.token = 0
      BY <1>2, <1>3 DEF latest
    <3> QED
      BY <1>3, <1>4, <2>1, <3>1 DEF BotFit, Same
  <2>4. Replies(y, handoff, Known')
    <3>1. 0 =< Top(handoff)
      BY <1>2, TopNumber
    <3> QED
      BY <1>3, <2>1, <3>1 DEF Replies, Same
  <2> HIDE DEF q
  <2>5. Ready(y, handoff', Known')
    BY <1>2, <2>2, <2>3, <2>4 DEF Ready
  <2>6. Serves(r, y)
    BY <1>2, <1>3, <1>4, <2>1, <2>5 DEF Serves, Same, y, q
  <2> QED
    BY <2>6 DEF y
<1>5. ASSUME latest # 0, Goes(r, Routed(read, handoff[latest]))
      PROVE  \E y : Serves(r, y)
  <2> DEFINE x == handoff[latest]
             y == Routed(read, x)
  <2>1. /\ latest \in DOMAIN handoff /\ x \in Handoffs /\ latest \in Nat
        /\ x.delivered \in Nat /\ Len(x.thread) \in Nat
    BY <1>2, <1>5, LatestRow, PublicNumbers DEF latest
  <2>2. /\ read \in Calls /\ Bounded(read)
        /\ read.kind = q.kind /\ read.heard = q.heard /\ read.token = q.token
        /\ read.h = latest /\ read.got = q.got /\ read.says = q.says
        /\ q.kind = "send" => read.after = x.delivered
        /\ q.kind # "send" => read.after = q.after /\ read.last = Len(x.thread)
    BY <1>2, <2>1 DEF Calls, Bounded
  <2> HIDE DEF read
  <2>3. /\ y \in Calls
        /\ \/ y.pc # "expire" /\ Leads(read, y, y.pc, ~Active(x))
           \/ y.pc = "expire" /\ Leads(read, y, y.then, TRUE)
    BY <1>3, <2>2, RoutedLeads
  <2> HIDE DEF y, x
  <2>4. Same(read, y)
    BY <2>3 DEF Leads
  <2>5. Ordered(y)
    BY <1>3, <2>2, <2>3, <2>4 DEF Ordered, Leads, Same, Polls
  <2>6. BotFit(y, handoff)
    <3>1. ASSUME y.says = "bot", y.token # 0, y.pc # "expire"
          PROVE  ~Active(handoff[y.token])
      <4>1. ~Active(x)
        BY <2>3, <3>1 DEF Leads
      <4>2. y.token \in DOMAIN handoff
        BY <1>3, <2>2, <2>4, <3>1 DEF Same
      <4> QED
        BY <1>2, <4>1, <4>2 DEF RowsOK, x
    <3>2. y.token # 0 => y.token =< y.h
      <4>1. y.token # 0 => y.token \in 1 .. latest
        BY <1>2, <1>3, <2>2, <2>4 DEF Same, latest
      <4> QED
        BY <2>1, <2>2, <2>4, <4>1 DEF Same
    <3> QED
      BY <1>3, <2>2, <2>4, <3>1, <3>2 DEF BotFit, Same
  <2>7. SendFit(y, handoff)
    <3>1. y.pc # "advance"
      BY <2>3 DEF Leads
    <3>2. y.kind = "send" => y.after =< handoff[y.h].delivered
      BY <2>1, <2>2, <2>4 DEF Same, x
    <3> QED
      BY <3>1, <3>2 DEF SendFit
  <2>8. Replies(y, handoff, Known')
    <3>1. q.kind \in Polls => q.kind # "send"
      BY DEF Polls
    <3>2. q.kind \in Polls /\ Len(handoff) =< 1 => y.last =< Top(handoff)
      <4>0. latest =< 1 => latest = 1
        BY <1>5, <2>1
      <4>1. Len(handoff) =< 1 => latest = 1
        BY <4>0 DEF latest
      <4>2. latest = 1 => Top(handoff) = Len(x.thread) /\ Top(handoff) \in Nat
        BY <1>2, TopNumber DEF x, latest
      <4> QED
        BY <2>2, <2>4, <3>1, <4>1, <4>2 DEF Same
    <3>3. y.pc = "answer" => y.says # "page"
      BY <2>3 DEF Leads
    <3> QED
      BY <1>3, <2>2, <2>4, <3>1, <3>2, <3>3 DEF Replies, Same
  <2>9. Ready(y, handoff', Known')
    BY <1>2, <2>5, <2>6, <2>7, <2>8 DEF Ready
  <2>10. Serves(r, y)
    BY <1>2, <1>3, <1>5, <2>2, <2>3, <2>4, <2>9 DEF Serves, Same, y, x
  <2> QED
    BY <2>10
<1>6. \/ Goes(r, Say(q, "refused"))
      \/ Goes(r, Say(q, "blocked"))
      \/ Goes(r, Say(q, "bot")) /\ q.kind = "send" /\ (q.token = 0 \/ latest = 0)
      \/ Goes(r, Say(q, "none"))
      \/ latest # 0 /\ Goes(r, Routed(read, handoff[latest]))
  <2> HIDE DEF read
  <2> QED
    BY <1>1 DEF NoLookup
<1> HIDE DEF q, read
<1> QED
  BY <1>4, <1>5, <1>6

LEMMA ExpireServes ==
  ASSUME IInv, [Next]_vars, Fit, NEW r \in Requests, Expire(r)
  PROVE  \E y : Serves(r, y)
<1> DEFINE q == req[r]
           y == [q EXCEPT !.pc = q.then, !.then = "idle", !.why = "NONE"]
           rows == handoff'
<1>1. /\ q \in Calls /\ Bounded(q) /\ q.pc = "expire" /\ q.h \in DOMAIN handoff
      /\ rows \in Seq(Handoffs) /\ Fits(q, rows, Known')
      /\ Goes(r, y) /\ UNCHANGED <<page, shown, left>>
  BY AfterStep DEF Expire, Working, Steps, client
<1>2. /\ y \in Calls /\ Same(q, y) /\ y.pc = q.then /\ y.says = q.says /\ y.then = "idle"
  BY <1>1 DEF Calls, Same, Steps, Reasons
<1> HIDE DEF y
<1>3. /\ q.then \notin {"advance", "sent", "expire"} /\ q.got = {}
      /\ q.then \in {"mark", "append", "collect"} => q.kind = "send"
      /\ q.then = "answer" => q.says # "page"
  BY <1>1 DEF Bounded, Fits, Ordered
<1>4. Ordered(y)
  BY <1>2, <1>3 DEF Ordered, Same
<1>5. BotFit(y, rows)
  <2>1. q.token = 0 \/ q.token \in DOMAIN rows
    BY <1>1 DEF Fits, BotFit
  <2>2. ASSUME q.kind = "send", q.says = "bot", q.token # 0
        PROVE  ~Active(rows[q.token])
    <3>1. q.token =< q.h /\ q.token \in DOMAIN rows
      BY <1>1, <2>1, <2>2 DEF Fits, BotFit
    <3>2. /\ Len(rows) = Len(handoff) /\ q.h \in 1 .. Len(handoff) /\ Len(handoff) \in Nat
          /\ ~Active(rows[q.h])
      <4>1. handoff \in Seq(Handoffs) /\ EndHandoff(q.h, q.why)
        BY DEF IInv, TypeOK, Expire
      <4>2. handoff[q.h] \in Handoffs /\ rows[q.h] = EndedRow(handoff[q.h], q.why)
        BY <1>1, <4>1 DEF EndHandoff
      <4>3. ~Active(EndedRow(handoff[q.h], q.why))
        BY <4>2 DEF EndedRow, Ends, Active, Handoffs
      <4> QED
        BY <1>1, <4>1, <4>2, <4>3 DEF EndHandoff
    <3>3. \A h \in DOMAIN rows : Active(rows[h]) => h = Len(rows)
      BY StepMoves DEF IInv, TypeOK, latest, Active
    <3>4. q.token \in 1 .. Len(handoff)
      BY <1>1, <3>1, <3>2
    <3> HIDE DEF q, rows
    <3> QED
      BY <3>1, <3>2, <3>3, <3>4
  <2> QED
    BY <1>2, <1>3, <2>1, <2>2 DEF BotFit, Same
<1>6. SendFit(y, rows)
  BY <1>1, <1>2, <1>3 DEF SendFit, Same, Fits, Working, Steps
<1>7. Replies(y, rows, Known')
  BY <1>1, <1>2, <1>3 DEF Replies, Same, Fits, PollFit
<1>8. Ready(y, handoff', Known')
  BY <1>4, <1>5, <1>6, <1>7 DEF Ready
<1>9. Serves(r, y)
  BY <1>1, <1>2, <1>8 DEF Serves, Same
<1> QED
  BY <1>9

\* A request that goes on and says something new, but not that the bot answers.
LEMMA TurnReady ==
  ASSUME NEW q \in Calls, NEW rows, NEW seen, Fits(q, rows, seen),
         q.pc \in {"issue", "mark", "append"},
         NEW y, y.kind = q.kind, y.token = q.token, y.h = q.h, y.got = q.got,
         y.last = q.last, y.after = q.after \/ (q.kind = "send" /\ y.after = 0),
         y.pc \in IF q.kind = "send" THEN {"append", "collect", "answer"}
                  ELSE {"read", "answer"},
         y.pc = "answer" /\ q.kind # "send" => y.says # "page",
         y.says # "bot" \/ (y.says = q.says /\ q.pc = "append"),
         q.kind = "send" => rows[q.h].delivered \in Nat
  PROVE  Ready(y, rows, seen)
<1>1. q.got = {} /\ q.pc \in Working /\ q.pc \notin {"sent", "answer", "expire", "advance"}
  BY DEF Fits, Ordered, Working, Steps
<1>2. Ordered(y)
  BY <1>1 DEF Ordered
<1>3. BotFit(y, rows)
  BY <1>1 DEF BotFit, Fits
<1>4. SendFit(y, rows)
  <2>1. q.kind = "send" => q.after =< rows[q.h].delivered
    BY <1>1 DEF SendFit, Fits
  <2>2. y.kind = "send" => y.after =< rows[y.h].delivered
    BY <2>1
  <2> QED
    BY <2>2 DEF SendFit
<1>5. Replies(y, rows, seen)
  BY <1>1 DEF Replies, PollFit, Fits, Polls
<1> QED
  BY <1>2, <1>3, <1>4, <1>5 DEF Ready

LEMMA IssueServes ==
  ASSUME IInv, [Next]_vars, Fit, NEW r \in Requests,
         Issue(r) \/ Mark(r) \/ AppendUser(r)
  PROVE  \E y : Serves(r, y)
<1> DEFINE q == req[r]
<1>1. /\ q \in Calls /\ q.pc \in {"issue", "mark", "append"} /\ q.h \in DOMAIN handoff
      /\ Fits(q, handoff', Known')
      /\ UNCHANGED <<page, shown, left>>
  BY AfterStep DEF Issue, Mark, AppendUser, Working, Steps, client
<1>2. q.got = {} /\ (q.pc \in {"mark", "append"} => q.kind = "send")
  BY <1>1 DEF Fits, Ordered
<1>3. handoff'[q.h] \in Handoffs /\ (handoff'[q.h]).delivered \in Nat
  BY <1>1, AfterStep, PublicNumbers
<1>4. PICK y : /\ Goes(r, y) /\ y \in Calls
               /\ y.kind = q.kind /\ y.token = q.token /\ y.h = q.h /\ y.got = q.got
               /\ y.last = q.last /\ y.heard = q.heard
               /\ y.after = q.after \/ (q.kind = "send" /\ y.after = 0)
               /\ y.pc \in IF q.kind = "send" THEN {"append", "collect", "answer"}
                           ELSE {"read", "answer"}
               /\ y.pc = "answer" /\ q.kind # "send" => y.says # "page"
               /\ y.says # "bot" \/ (y.says = q.says /\ q.pc = "append")
  <2>1. CASE Issue(r) \/ Mark(r)
    <3>1. PICK y :
            /\ Goes(r, y)
            /\ \/ /\ q.kind = "send"
                  /\ \/ y = [q EXCEPT !.pc = "append", !.says = "connected", !.gives = TRUE]
                     \/ y = [q EXCEPT !.pc = "collect", !.says = "legacy", !.after = 0]
                     \/ y = [q EXCEPT !.pc = "answer", !.says = "unverified"]
               \/ /\ q.kind # "send"
                  /\ \/ y = [q EXCEPT !.pc = "read", !.says = "page", !.gives = TRUE]
                     \/ y = [q EXCEPT !.pc = "answer", !.says = "none"]
      BY <1>2, <2>1 DEF Issue, Mark, Say
    <3>2. {"append", "read", "collect", "answer"} \subseteq Steps
          /\ {"connected", "page", "legacy", "unverified", "none"} \subseteq Answers
      BY DEF Steps, Answers
    <3> HIDE DEF q
    <3>3. /\ y \in Calls
          /\ y.kind = q.kind /\ y.token = q.token /\ y.h = q.h /\ y.got = q.got
          /\ y.last = q.last /\ y.heard = q.heard
      <4>1. CASE y = [q EXCEPT !.pc = "append", !.says = "connected", !.gives = TRUE]
        BY <1>1, <3>2, <4>1 DEF Calls
      <4>2. CASE y = [q EXCEPT !.pc = "collect", !.says = "legacy", !.after = 0]
        BY <1>1, <3>2, <4>2 DEF Calls
      <4>3. CASE y = [q EXCEPT !.pc = "answer", !.says = "unverified"]
        BY <1>1, <3>2, <4>3 DEF Calls
      <4>4. CASE y = [q EXCEPT !.pc = "read", !.says = "page", !.gives = TRUE]
        BY <1>1, <3>2, <4>4 DEF Calls
      <4>5. CASE y = [q EXCEPT !.pc = "answer", !.says = "none"]
        BY <1>1, <3>2, <4>5 DEF Calls
      <4> QED
        BY <3>1, <4>1, <4>2, <4>3, <4>4, <4>5
    <3>4. /\ y.after = q.after \/ (q.kind = "send" /\ y.after = 0)
          /\ q.kind = "send" => y.pc \in {"append", "collect", "answer"}
          /\ q.kind # "send" => y.pc \in {"read", "answer"}
          /\ y.pc = "answer" /\ q.kind # "send" => y.says # "page"
          /\ y.says # "bot"
      <4>1. CASE q.kind = "send"
        BY <1>1, <3>1, <4>1 DEF Calls
      <4>2. CASE q.kind # "send"
        BY <1>1, <3>1, <4>2 DEF Calls
      <4> QED
        BY <4>1, <4>2
    <3> QED
      BY <3>1, <3>3, <3>4
  <2>2. CASE AppendUser(r)
    <3>1. PICK pc \in {"collect", "answer"} : Goes(r, [q EXCEPT !.pc = pc])
      BY <2>2 DEF AppendUser
    <3>2. q.pc = "append" /\ q.kind = "send" /\ pc \in Steps
      BY <1>2, <2>2 DEF AppendUser, Steps
    <3> HIDE DEF q
    <3> QED
      BY <1>1, <3>1, <3>2 DEF Calls
  <2> QED
    BY <2>1, <2>2
<1> HIDE DEF q
<1>5. Ready(y, handoff', Known')
  BY <1>1, <1>2, <1>3, <1>4, TurnReady
<1>6. Serves(r, y)
  BY <1>1, <1>2, <1>4, <1>5 DEF Serves, q
<1> QED
  BY <1>6

LEMMA PublicsAfter ==
  ASSUME NEW h, NEW n
  PROVE  After(h, n) = {k \in Publics(handoff[h]) : k > n}
BY DEF After, Publics

LEMMA CollectServes ==
  ASSUME IInv, [Next]_vars, Fit, NEW r \in Requests, Collect(r) \/ ReadPage(r)
  PROVE  \E y : Serves(r, y)
<1> DEFINE q == req[r]
           x == handoff[q.h]
           fresh == {k \in Publics(x) : k > q.after}
           end == q.after + PageSize
<1>1. /\ q \in Calls /\ Bounded(q) /\ q.pc \in {"collect", "read"} /\ q.h \in DOMAIN handoff
      /\ handoff' = handoff /\ handoff \in Seq(Handoffs) /\ x \in Handoffs
      /\ Fits(q, handoff, Known') /\ TypeOK
      /\ UNCHANGED <<page, shown, left>>
  BY AfterStep DEF Collect, ReadPage, Working, Steps, IInv, client
<1>2. /\ q.got = {}
      /\ q.pc = "collect" => q.kind = "send"
  BY <1>1 DEF Fits, Ordered
\* All that is new, or a page of it: then a cursor beyond it is noted.
<1>3. PICK pc \in {"answer", "advance"}, got \in SUBSET fresh :
        /\ Goes(r, [q EXCEPT !.got = got, !.pc = pc])
        /\ pc = "advance" => q.kind = "send" /\ got # {}
        /\ \/ got = fresh
           \/ /\ pc = "answer" /\ got = {k \in fresh : k =< end}
              /\ cut' \/ ~(q.last > end)
  <2>0. After(q.h, q.after) = fresh
    BY PublicsAfter
  <2>1. CASE Collect(r)
    <3>1. /\ Goes(r, [q EXCEPT !.got = fresh,
                              !.pc = IF fresh = {} THEN "answer" ELSE "advance"])
          /\ q.kind = "send"
      BY <1>2, <2>0, <2>1 DEF Collect
    <3> HIDE DEF fresh, q, end
    <3> QED
      BY <3>1
  <2>2. CASE ReadPage(r)
    <3> DEFINE some == {k \in fresh : k =< end}
    <3>1. /\ Goes(r, [q EXCEPT !.got = some, !.pc = "answer"])
          /\ cut' \/ ~(q.last > end)
      BY <2>0, <2>2 DEF ReadPage, Scanned
    <3>2. some \in SUBSET fresh
      OBVIOUS
    <3> HIDE DEF fresh, q, end
    <3> QED
      BY <3>1, <3>2
  <2> QED
    BY <2>1, <2>2
<1> DEFINE y == [q EXCEPT !.got = got, !.pc = pc]
<1>4. /\ y.kind = q.kind /\ y.heard = q.heard /\ y.token = q.token /\ y.after = q.after
      /\ y.h = q.h /\ y.last = q.last /\ y.says = q.says /\ y.got = got /\ y.pc = pc
  BY <1>1 DEF Calls
<1>5. y \in Calls
  <2>1. fresh = After(q.h, q.after)
    BY PublicsAfter
  <2> HIDE DEF fresh, q
  <2> QED
    BY <1>1, <1>3, <2>1, GotTurn DEF Turn
<1>6. /\ \A k \in Publics(x) : k \in Nat
      /\ q.after \in Nat /\ q.last \in Nat /\ x.delivered \in Nat /\ PageSize \in Nat
  BY <1>1, PublicNumbers, HandoffAssumption DEF Calls
<1> HIDE DEF y
<1>7. Ordered(y)
  BY <1>3, <1>4 DEF Ordered
<1>8. BotFit(y, handoff)
  BY <1>1, <1>3, <1>4 DEF BotFit, Fits
<1>9. SendFit(y, handoff)
  <2>1. q.kind = "send" => q.after =< x.delivered
    BY <1>1 DEF Fits, SendFit, Working, Steps
  <2>2. /\ got \subseteq Publics(x)
        /\ pc = "advance" => \A k \in Publics(x) : q.after < k => k \in got
    BY <1>3, <1>6
  <2> QED
    BY <1>4, <2>1, <2>2 DEF SendFit
<1>10. Replies(y, handoff, Known')
  <2>1. Len(handoff) = 1 => q.h = 1
    BY <1>1
  <2>2. ASSUME NEW k \in Publics(x), q.after < k, k =< q.last
        PROVE  <<1, k>> \in Known' \/ k \in got
    <3>1. k \in Nat /\ k \in fresh
      BY <1>6, <2>2
    <3>2. CASE k =< end
      BY <1>3, <3>1, <3>2
    <3>3. CASE ~(k =< end)
      <4>1. q.last > end
        BY <1>6, <2>2, <3>1, <3>3
      <4>2. got = fresh \/ cut'
        BY <1>3, <4>1
      <4>3. CASE cut'
        BY <3>1, <4>3 DEF Known
      <4> QED
        BY <3>1, <4>2, <4>3
    <3> QED
      BY <3>2, <3>3
  <2> QED
    BY <1>1, <1>4, <2>1, <2>2 DEF Replies, Fits, PollFit
<1>11. Ready(y, handoff', Known')
  BY <1>1, <1>7, <1>8, <1>9, <1>10 DEF Ready
<1>12. Serves(r, y)
  BY <1>1, <1>2, <1>3, <1>4, <1>5, <1>11 DEF Serves, y
<1> QED
  BY <1>12

LEMMA AdvanceServes ==
  ASSUME IInv, [Next]_vars, Fit, NEW r \in Requests, Advance(r)
  PROVE  \E y : Serves(r, y) /\ y = [req[r] EXCEPT !.pc = "answer"]
<1> DEFINE q == req[r]
           y == [q EXCEPT !.pc = "answer"]
<1>1. /\ q \in Calls /\ q.pc = "advance" /\ Fits(q, handoff', Known')
      /\ Goes(r, y) /\ UNCHANGED <<page, shown, left>>
  BY AfterStep DEF Advance, client
<1>2. y \in Calls /\ Same(q, y) /\ y.pc = "answer" /\ y.says = q.says
  BY <1>1 DEF Calls, Same, Steps
<1>3. q.kind = "send"
  BY <1>1 DEF Fits, Ordered
<1> HIDE DEF y
<1>4. Ready(y, handoff', Known')
  BY <1>1, <1>2, <1>3
     DEF Ready, Fits, Ordered, BotFit, SendFit, Replies, Same, Working, Polls
<1>5. Serves(r, y)
  BY <1>1, <1>2, <1>4 DEF Serves, Same
<1> QED
  BY <1>5 DEF y

\* What a step of the server makes of a request.
Works(r) ==
  \/ Read(r) \/ Expire(r) \/ Issue(r) \/ Mark(r) \/ AppendUser(r)
  \/ Collect(r) \/ Advance(r) \/ ReadPage(r)

Shown(r) == Answered(r) \/ Stopped(r) \/ Continued(r)

LEMMA WorksServes ==
  ASSUME IInv, [Next]_vars, Fit, NEW r \in Requests, Works(r)
  PROVE  \E y : Serves(r, y)
BY ReadServes, ExpireServes, IssueServes, CollectServes, AdvanceServes DEF Works

-----------------------------------------------------------------------------
(* The page.                                                               *)

Cursor == Seen(page.cursor, handoff, Known)

LEMMA AskedFits ==
  ASSUME TypeOK, Tokens, Cursor, NEW kind \in {"send"} \cup Polls,
         NEW after \in {0, page.cursor}, NEW y, y = [Asked(kind) EXCEPT !.after = after]
  PROVE  Fits(y, handoff, Known) /\ y.heard /\ y.got = {}
<1>1. /\ y.kind = kind /\ y.pc = "sent" /\ y.heard /\ y.token = page.token
      /\ y.after = after /\ y.last = 0 /\ y.then = "idle" /\ y.got = {} /\ y.says = "none"
  BY DEF Asked, NoReq
<1>2. page.token = 0 \/ page.token \in DOMAIN handoff
  BY DEF Tokens, Out
<1>3. Seen(after, handoff, Known)
  BY SeenZero DEF Cursor, TypeOK
<1> QED
  BY <1>1, <1>2, <1>3
     DEF Fits, Ordered, BotFit, SendFit, PollFit, Working

LEMMA AsksOne ==
  ASSUME TypeOK, Tokens, Cursor, NEW r \in Requests, Send(r) \/ LoopPoll(r)
  PROVE  \E y : /\ req' = [req EXCEPT ![r] = y]
                /\ Fits(y, handoff, Known) /\ y.heard /\ y.got = {}
                /\ UNCHANGED <<handoff, client>> /\ (left'.faults) = left.faults
<1>1. CASE Send(r)
  <2> DEFINE y == [Asked("send") EXCEPT !.after = 0]
  <2>1. y = Asked("send")
    <3>1. Asked("send") \in Calls /\ Asked("send").after = 0
      BY AskedTyped DEF TypeOK, Asked, NoReq
    <3> HIDE DEF Asked
    <3> QED
      BY <3>1 DEF Calls
  <2>2. Fits(y, handoff, Known) /\ y.heard /\ y.got = {}
    BY AskedFits
  <2> HIDE DEF y
  <2> QED
    BY <1>1, <2>1, <2>2, OtherSpent DEF Send
<1>2. CASE LoopPoll(r)
  <2> DEFINE y == [Asked("loop") EXCEPT !.after = page.cursor]
  <2>1. Fits(y, handoff, Known) /\ y.heard /\ y.got = {}
    BY AskedFits DEF Polls
  <2> HIDE DEF y
  <2>2. req' = [req EXCEPT ![r] = y]
    BY <1>2 DEF LoopPoll, y
  <2> QED
    BY <1>2, <2>1, <2>2 DEF LoopPoll
<1> QED
  BY <1>1, <1>2

LEMMA StaleFits ==
  ASSUME NEW q \in Calls, q.kind = "loop", NEW rows, NEW seen, Fits(q, rows, seen)
  PROVE  Fits([q EXCEPT !.kind = "stale"], rows, seen)
<1> DEFINE y == [q EXCEPT !.kind = "stale"]
<1>1. /\ y.kind = "stale" /\ y.pc = q.pc /\ y.then = q.then /\ y.says = q.says
      /\ y.token = q.token /\ y.after = q.after /\ y.h = q.h /\ y.last = q.last
      /\ y.got = q.got
  BY DEF Calls
<1> HIDE DEF y
<1>2. Fits(y, rows, seen)
  BY <1>1 DEF Fits, Ordered, BotFit, SendFit, PollFit, Polls
<1> QED
  BY <1>2 DEF y

LEMMA UnheardFits ==
  ASSUME NEW q \in Calls, NEW rows, NEW seen, Fits(q, rows, seen)
  PROVE  Fits([q EXCEPT !.heard = FALSE], rows, seen)
<1> DEFINE y == [q EXCEPT !.heard = FALSE]
<1>1. /\ y.kind = q.kind /\ y.pc = q.pc /\ y.then = q.then /\ y.says = q.says
      /\ y.token = q.token /\ y.after = q.after /\ y.h = q.h /\ y.last = q.last
      /\ y.got = q.got
  BY DEF Calls
<1> HIDE DEF y
<1>2. Fits(y, rows, seen)
  BY <1>1 DEF Fits, Ordered, BotFit, SendFit, PollFit
<1> QED
  BY <1>2 DEF y

\* What becomes of each request when the page acts.
LEMMA PageFits ==
  ASSUME IInv, Tokens, Cursor, Fit, NEW r \in Requests,
         Send(r) \/ LoopPoll(r) \/ Reload(r) \/ Fail(r) \/ Shown(r)
  PROVE  \A x \in Requests : Fits(req'[x], handoff, Known)
<1>0. TypeOK /\ req \in [Requests -> Calls]
  BY DEF IInv, TypeOK
<1>1. \A x \in Requests : req[x] \in Calls /\ Fits(req[x], handoff, Known)
  BY <1>0 DEF Fit
<1>2. Fits(NoReq, handoff, Known)
  BY EmptyFits
<1>3. CASE Send(r) \/ LoopPoll(r)
  <2>1. PICK y : req' = [req EXCEPT ![r] = y] /\ Fits(y, handoff, Known)
    BY <1>0, <1>3, AsksOne
  <2> QED
    BY <1>0, <1>1, <2>1
<1>4. CASE Reload(r)
  <2> DEFINE ask == [Asked("restore") EXCEPT !.after = page.cursor]
  <2>1. Fits(ask, handoff, Known)
    BY <1>0, AskedFits DEF Polls
  <2>2. \A x \in Requests : req'[x] \in {ask, NoReq, [req[x] EXCEPT !.heard = FALSE]}
    BY <1>4 DEF Reload
  <2> HIDE DEF ask
  <2>3. \A x \in Requests : Fits([req[x] EXCEPT !.heard = FALSE], handoff, Known)
    BY <1>1, UnheardFits
  <2> QED
    BY <1>2, <2>1, <2>2, <2>3
<1>5. CASE Fail(r) \/ Answered(r) \/ Continued(r)
  BY <1>0, <1>1, <1>2, <1>5 DEF Fail, Answered, Continued
<1>6. CASE Stopped(r)
  <2>1. \A x \in Requests :
          \/ req'[x] \in {NoReq, req[x]}
          \/ req[x].kind = "loop" /\ req'[x] = [req[x] EXCEPT !.kind = "stale"]
    BY <1>6 DEF Stopped
  <2>2. \A x \in Requests : req[x].kind = "loop" =>
          Fits([req[x] EXCEPT !.kind = "stale"], handoff, Known)
    BY <1>1, StaleFits
  <2> QED
    BY <1>1, <1>2, <2>1, <2>2
<1> QED
  BY <1>3, <1>4, <1>5, <1>6 DEF Shown

LEMMA FitKept ==
  ASSUME IInv, Tokens, Cursor, Fit, [Next]_vars
  PROVE  Fit'
<1>0. /\ IInv' /\ TypeOK /\ req \in [Requests -> Calls] /\ req' \in [Requests -> Calls]
      /\ handoff \in Seq(Handoffs) /\ handoff' \in Seq(Handoffs)
  BY StepMoves DEF IInv, TypeOK
<1>1. CASE Calm
  <2>1. \A r \in Requests : Fits(req[r], handoff', Known')
    BY AfterStep
  <2> QED
    BY <1>1, <2>1 DEF Calm, Fit
<1>2. ASSUME NEW r \in Requests, NEW y, Serves(r, y)
      PROVE  Fit'
  <2>1. Fits(Settled(y), handoff', Known')
    BY <1>0, <1>2, SettledFits DEF Serves
  <2>2. \A x \in Requests : Fits(req[x], handoff', Known')
    BY AfterStep
  <2>3. \A x \in Requests : Fits(req'[x], handoff', Known')
    BY <1>0, <1>2, <2>1, <2>2 DEF Serves, Goes
  <2> QED
    BY <2>3 DEF Fit
<1>3. ASSUME NEW r \in Requests,
             Send(r) \/ LoopPoll(r) \/ Reload(r) \/ Fail(r) \/ Shown(r)
      PROVE  Fit'
  <2>1. \A x \in Requests : Fits(req'[x], handoff, Known)
    BY <1>3, PageFits
  <2>2. Known \subseteq Known' /\ handoff' = handoff
    BY <1>3, KnownGrows
       DEF Send, LoopPoll, Reload, Fail, Shown, Answered, Stopped, Continued
  <2>3. \A x \in Requests : req'[x] \in Calls /\ Placed(req'[x])
    BY <1>0, <2>2 DEF IInv, TypeOK, Placed
  <2>4. Grows(handoff, handoff')
    BY StepGrows
  <2>5. ASSUME NEW x \in Requests
        PROVE  Fits(req'[x], handoff', Known')
    <3> DEFINE q == req'[x]
    <3>1. q \in Calls /\ Fits(q, handoff, Known) /\ (q.pc \in Working => q.h \in DOMAIN handoff)
      BY <2>1, <2>3 DEF Placed, Working
    <3> HIDE DEF q
    <3>2. Fits(q, handoff', Known')
      BY <2>2, <2>4, <3>1, KeptFits
    <3> QED
      BY <3>2 DEF q
  <2> QED
    BY <2>5 DEF Fit
<1> QED
  BY <1>1, <1>2, <1>3, StepKinds, WorksServes DEF ServeStep, Works, Shown

LEMMA PolledCursor ==
  ASSUME NEW p \in Pages, NEW kind
  PROVE  PolledOn(kind, p).cursor = p.cursor
BY DEF PolledOn, Pages

LEMMA CursorKept ==
  ASSUME IInv, Cursor, Fit, [Next]_vars
  PROVE  Cursor'
<1>0. /\ TypeOK /\ page \in Pages /\ page.cursor \in Nat /\ handoff \in Seq(Handoffs)
      /\ handoff' \in Seq(Handoffs) /\ Grows(handoff, handoff')
  BY StepMoves, StepGrows DEF IInv, TypeOK, Pages
<1>1. ASSUME (page'.cursor) = page.cursor
      PROVE  Cursor'
  BY <1>0, <1>1, SeenKept, KnownGrows DEF Cursor
<1>2. ASSUME (page'.cursor) = 0
      PROVE  Cursor'
  BY <1>0, <1>2, SeenZero DEF Cursor
<1>3. Fresh.cursor = 0
  BY DEF Fresh, NewPage
<1>4. ASSUME NEW r \in Requests, Continued(r)
      PROVE  Cursor'
  <2> DEFINE q == req[r]
             rows == handoff
             new == Larger(page.cursor, q.last)
  <2>1. /\ q \in Calls /\ q.pc = "answer" /\ q.kind \in Polls /\ PollFit(q, rows, Known)
        /\ q.last \in Nat /\ handoff' = handoff /\ Shows(q)
    BY <1>0, <1>4 DEF Continued, TypeOK, Calls, Fit, Fits
  <2>2. (page'.cursor) = new
    <3> DEFINE p == [page EXCEPT
                 !.mode = IF q.says = "page" THEN "CONNECTED" ELSE page.mode,
                 !.token = IF q.gives THEN q.h ELSE @,
                 !.cursor = Larger(@, Scanned(q))]
    <3>1. page' = PolledOn(q.kind, p)
      BY <1>4 DEF Continued
    <3>2. p \in Pages /\ p.cursor = new
      BY <1>0, <2>1 DEF Pages, Calls, Larger, Scanned
    <3> HIDE DEF p, new, q
    <3> QED
      BY <3>1, <3>2, PolledCursor
  <2>3. Seen(page.cursor, rows, Known)
    BY DEF Cursor
  <2>4. ASSUME Len(rows) =< 1
        PROVE  new =< Top(rows)
    <3>1. page.cursor =< Top(rows) /\ q.last =< Top(rows) /\ Top(rows) \in Nat
      BY <1>0, <2>1, <2>3, <2>4, TopNumber DEF Seen, PollFit
    <3> HIDE DEF q, rows
    <3> QED
      BY <1>0, <2>1, <3>1 DEF Larger
  <2>5. ASSUME Len(rows) = 1, NEW k \in Publics(rows[1]), k =< new
        PROVE  <<1, k>> \in Known'
    <3>1. k \in Nat /\ (k =< page.cursor \/ k =< q.last)
      <4>1. k \in Nat
        BY <1>0, <2>5, TopNumber, PublicNumbers
      <4> HIDE DEF q, rows
      <4> QED
        BY <1>0, <2>1, <2>5, <4>1 DEF Larger
    <3>2. k =< page.cursor => <<1, k>> \in Known
      BY <2>3, <2>5 DEF Seen
    <3>3. k =< q.last => <<1, k>> \in Known \/ (q.h = 1 /\ k \in q.got)
      BY <2>1, <2>5 DEF PollFit
    <3>4. Known \subseteq Known' /\ {<<q.h, n>> : n \in q.got} \subseteq Known'
      BY <2>1, KnownGrows DEF Shows, Known
    <3> HIDE DEF q, rows, new
    <3> QED
      BY <3>1, <3>2, <3>3, <3>4
  <2>6. Len(rows) = 1 => \A k \in Publics(rows[1]) : k =< new => <<1, k>> \in Known'
    BY <2>5
  <2> HIDE DEF new, q
  <2> QED
    BY <2>1, <2>2, <2>4, <2>6 DEF Cursor, Seen
<1>5. ASSUME NEW r \in Requests, Answered(r)
      PROVE  Cursor'
  BY <1>0, <1>1, <1>5 DEF Answered, Pages
<1>6. ASSUME NEW r \in Requests, Stopped(r)
      PROVE  Cursor'
  BY <1>2, <1>3, <1>6 DEF Stopped
<1>7. ASSUME NEW r \in Requests, Fail(r)
      PROVE  Cursor'
  BY <1>0, <1>1, <1>7, PolledCursor DEF Fail
<1>8. ASSUME NEW r \in Requests, Reload(r)
      PROVE  Cursor'
  BY <1>0, <1>1, <1>2, <1>3, <1>8 DEF Reload, Pages
<1>9. ASSUME NEW r \in Requests, Works(r)
      PROVE  Cursor'
  BY <1>1, <1>9, WorksServes DEF Serves
<1>10. ASSUME NEW r \in Requests, Send(r) \/ LoopPoll(r)
       PROVE  Cursor'
  BY <1>1, <1>10 DEF Send, LoopPoll, client
<1>11. CASE Calm
  BY <1>1, <1>11 DEF Calm
<1> QED
  BY <1>4, <1>5, <1>6, <1>7, <1>8, <1>9, <1>10, <1>11, StepKinds DEF ServeStep, Works

-----------------------------------------------------------------------------
(* The cursor of a legacy conversation.                                    *)

Carried(h, k) ==
  \/ <<h, k>> \in shown
  \/ \E r \in Requests : req[r].h = h /\ k \in req[r].got

\* Before the first fault, the page waits for every request.
Waited == \A r \in Requests : req[r].pc # "idle" => req[r].heard

Passed ==
  \A h \in DOMAIN handoff : \A k \in Publics(handoff[h]) :
    k =< handoff[h].delivered => Carried(h, k)

Deliv ==
  /\ \A h \in DOMAIN handoff : handoff[h].delivered =< Len(handoff[h].thread)
  /\ left.faults =< MaxFaults
  /\ left.faults = MaxFaults => Waited /\ Passed

Faulty == \E r \in Requests : Reload(r) \/ Fail(r)

LEMMA FaultsKept ==
  ASSUME IInv, Fit, [Next]_vars, left.faults =< MaxFaults
  PROVE  /\ (left'.faults) =< MaxFaults
         /\ (left'.faults) = MaxFaults => left.faults = MaxFaults /\ ~Faulty
<1>0. TypeOK /\ left.faults \in Nat /\ MaxFaults \in Nat
  BY HandoffAssumption DEF IInv, TypeOK
<1>1. ASSUME NEW r \in Requests, Reload(r) \/ Fail(r)
      PROVE  (left'.faults) = left.faults - 1
  BY <1>0, <1>1, FaultSpent DEF Reload, Fail
<1>2. CASE Faulty
  <2>1. (left'.faults) = left.faults - 1
    BY <1>1, <1>2 DEF Faulty
  <2> QED
    BY <1>0, <2>1
<1>3. CASE ~Faulty
  <2>1. (left'.faults) = left.faults
    <3>1. ASSUME NEW r \in Requests, Send(r) \/ LoopPoll(r)
          PROVE  (left'.faults) = left.faults
      BY <1>0, <3>1, OtherSpent DEF Send, LoopPoll
    <3>2. ASSUME NEW r \in Requests, Works(r)
          PROVE  (left'.faults) = left.faults
      BY <3>2, WorksServes DEF Serves
    <3>3. ASSUME NEW r \in Requests, Shown(r)
          PROVE  (left'.faults) = left.faults
      BY <3>3 DEF Shown, Answered, Stopped, Continued
    <3> QED
      BY <1>3, <3>1, <3>2, <3>3, StepKinds DEF Calm, Faulty, ServeStep, Works, Shown
  <2> QED
    BY <1>3, <2>1
<1> QED
  BY <1>2, <1>3

LEMMA SettledCarries ==
  ASSUME NEW y \in Calls, y.heard
  PROVE  /\ Settled(y).pc # "idle" => Settled(y).heard
         /\ y.got # {} => Settled(y).h = y.h /\ Settled(y).got = y.got
BY DEF Settled, Calls

LEMMA WaitedKept ==
  ASSUME IInv, Tokens, Cursor, Fit, [Next]_vars, ~Faulty, Waited
  PROVE  Waited'
<1>0. TypeOK /\ req \in [Requests -> Calls]
  BY DEF IInv, TypeOK
<1>1. CASE Calm
  BY <1>1 DEF Calm, Waited
<1>2. ASSUME NEW r \in Requests, Send(r) \/ LoopPoll(r) PROVE Waited'
  <2>1. PICK y : req' = [req EXCEPT ![r] = y] /\ y.heard
    BY <1>0, <1>2, AsksOne
  <2> QED
    BY <1>0, <2>1 DEF Waited
<1>3. ASSUME NEW r \in Requests, Works(r) PROVE Waited'
  <2>1. PICK y : Serves(r, y)
    BY <1>3, WorksServes
  <2>2. req[r].pc # "idle"
    BY <1>3 DEF Works, Read, Expire, Issue, Mark, AppendUser, Collect, Advance, ReadPage
  <2>3. y \in Calls /\ y.heard
    BY <2>1, <2>2 DEF Serves, Waited
  <2>4. Settled(y).pc # "idle" => Settled(y).heard
    BY <2>3, SettledCarries
  <2> QED
    BY <1>0, <2>1, <2>4 DEF Waited, Serves, Goes
<1>4. ASSUME NEW r \in Requests, Shown(r) PROVE Waited'
  <2>1. \A x \in Requests :
          \/ req'[x] \in {NoReq, req[x]}
          \/ req'[x] = [req[x] EXCEPT !.kind = "stale"]
    BY <1>0, <1>4 DEF Shown, Answered, Stopped, Continued
  <2>2. NoReq.pc = "idle"
    BY DEF NoReq
  <2>3. \A x \in Requests : LET y == [req[x] EXCEPT !.kind = "stale"]
                            IN  y.pc = req[x].pc /\ y.heard = req[x].heard
    BY <1>0 DEF Calls
  <2> QED
    BY <2>1, <2>2, <2>3 DEF Waited
<1> QED
  BY <1>1, <1>2, <1>3, <1>4, StepKinds DEF ServeStep, Works, Shown, Faulty

\* What is carried stays carried until it is shown.
LEMMA CarriedKept ==
  ASSUME IInv, Tokens, Cursor, Fit, [Next]_vars, ~Faulty, Waited,
         NEW h, NEW k, Carried(h, k)
  PROVE  Carried(h, k)'
<1>0. TypeOK /\ req \in [Requests -> Calls]
  BY DEF IInv, TypeOK
<1>1. CASE Calm
  BY <1>1 DEF Calm, Carried
<1>2. ASSUME NEW r \in Requests, Send(r) \/ LoopPoll(r) PROVE Carried(h, k)'
  <2>1. PICK y : req' = [req EXCEPT ![r] = y] /\ UNCHANGED client
    BY <1>0, <1>2, AsksOne
  <2>2. req[r].got = {}
    BY <1>2 DEF Send, LoopPoll, Free, NoReq
  <2> QED
    BY <1>0, <2>1, <2>2 DEF Carried, client
<1>3. ASSUME NEW r \in Requests, Works(r) PROVE Carried(h, k)'
  <2>1. PICK y : Serves(r, y)
    BY <1>3, WorksServes
  <2>2. req[r].pc # "idle"
    BY <1>3 DEF Works, Read, Expire, Issue, Mark, AppendUser, Collect, Advance, ReadPage
  <2>3. y \in Calls /\ y.heard
    BY <2>1, <2>2 DEF Serves, Waited
  <2>4. req[r].got # {} => Settled(y).h = req[r].h /\ Settled(y).got = req[r].got
    BY <2>1, <2>3, SettledCarries DEF Serves
  <2>5. /\ req'[r] = Settled(y) /\ \A x \in Requests \ {r} : req'[x] = req[x]
        /\ shown' = shown
    BY <1>0, <2>1 DEF Serves, Goes
  <2> QED
    BY <2>4, <2>5 DEF Carried
<1>4. ASSUME NEW r \in Requests, Shown(r) PROVE Carried(h, k)'
  <2>1. /\ \A x \in Requests \ {r} :
             req'[x] = req[x] \/ req'[x] = [req[x] EXCEPT !.kind = "stale"]
        /\ Shows(req[r])
    BY <1>0, <1>4 DEF Shown, Answered, Stopped, Continued
  <2>2. \A x \in Requests : LET y == [req[x] EXCEPT !.kind = "stale"]
                            IN  y.h = req[x].h /\ y.got = req[x].got
    BY <1>0 DEF Calls
  <2>3. \A x \in Requests \ {r} : (req'[x]).h = req[x].h /\ (req'[x]).got = req[x].got
    BY <2>1, <2>2
  <2> QED
    BY <2>1, <2>3 DEF Carried, Shows
<1> QED
  BY <1>1, <1>2, <1>3, <1>4, StepKinds DEF ServeStep, Works, Shown, Faulty

\* The cursor of a row is where it was, or a request has moved it over what it
\* carries.
LEMMA OldRow ==
  ASSUME IInv, Fit, [Next]_vars, NEW h \in DOMAIN handoff
  PROVE  \/ (handoff'[h]).delivered = handoff[h].delivered
         \/ \E r \in Requests :
              /\ req[r].h = h /\ Reached(req[r]) \in req[r].got
              /\ req[r].pc = "advance" /\ req[r].kind = "send"
              /\ (handoff'[h]).delivered = Larger(handoff[h].delivered, Reached(req[r]))
<1>0. TypeOK /\ Whole /\ handoff \in Seq(Handoffs)
  BY DEF IInv, TypeOK
<1>1. CASE SameDelivered
  BY <1>1 DEF SameDelivered
<1>2. ASSUME NEW r \in Requests, Advance(r), req[r].h = h
      PROVE  /\ req[r].h = h /\ Reached(req[r]) \in req[r].got
             /\ req[r].pc = "advance" /\ req[r].kind = "send"
             /\ (handoff'[h]).delivered = Larger(handoff[h].delivered, Reached(req[r]))
  BY <1>0, <1>2, AdvanceRow DEF Fit, Fits, Ordered, Advance
<1>3. ASSUME NEW r \in Requests, Advance(r), req[r].h # h
      PROVE  (handoff'[h]).delivered = handoff[h].delivered
  <2>1. handoff' = [handoff EXCEPT ![req[r].h].delivered = Larger(@, Reached(req[r]))]
    BY <1>0, <1>3, AdvanceRow
  <2> QED
    BY <1>0, <1>3, <2>1
<1>4. SameDelivered \/ \E r \in Requests : Advance(r)
  BY <1>0, StepKinds, ServeDelivered, SameRows DEF Calm, Send, LoopPoll, Reload, Fail
<1> QED
  BY <1>1, <1>2, <1>3, <1>4

LEMMA DelivKept ==
  ASSUME IInv, Tokens, Cursor, Fit, Deliv, [Next]_vars
  PROVE  Deliv'
<1>0. /\ TypeOK /\ handoff \in Seq(Handoffs) /\ handoff' \in Seq(Handoffs)
      /\ req \in [Requests -> Calls] /\ Moves /\ Grows(handoff, handoff')
  BY StepMoves, StepGrows DEF IInv, TypeOK
\* A row that is added.
<1>1. ASSUME NEW h \in DOMAIN handoff', h \notin DOMAIN handoff
      PROVE  handoff'[h] \in Handoffs /\ (handoff'[h]).delivered = 0
  <2>1. CASE Keeps
    BY <1>0, <1>1, <2>1 DEF Keeps
  <2>2. CASE Adds
    <3>1. PICK a \in Agents : handoff' = Append(handoff, Begun(a))
      BY <2>2 DEF Adds
    <3>2. handoff'[h] = Begun(a) /\ Begun(a) \in Handoffs
      BY <1>0, <1>1, <3>1, BegunRow
    <3> QED
      BY <3>2 DEF Begun
  <2> QED
    BY <1>0, <2>1, <2>2 DEF Moves
\* A row that was there.
<1>2. ASSUME NEW h \in DOMAIN handoff
      PROVE  LET x == handoff[h]
                 y == handoff'[h]
             IN  /\ y.delivered =< Len(x.thread)
                 /\ Passed => \A k \in Publics(y) : k =< y.delivered => Carried(h, k)
  <2> DEFINE x == handoff[h]
             y == handoff'[h]
  <2>1. /\ x \in Handoffs /\ y \in Handoffs /\ RowGrows(x, y)
        /\ x.delivered =< Len(x.thread)
    BY <1>0 DEF Grows, Deliv
  <2>2. /\ Len(x.thread) \in Nat /\ x.delivered \in Nat /\ y.delivered \in Nat
        /\ \A k \in Publics(x) : k \in Nat /\ k =< Len(x.thread)
        /\ \A k \in Publics(y) : k \in Nat
        /\ \A k \in Publics(y) : k \in Publics(x) \/ Len(x.thread) < k
    BY <2>1, PublicNumbers DEF RowGrows
  <2>3. Passed => \A k \in Publics(x) : k =< x.delivered => Carried(h, k)
    BY DEF Passed
  <2>4. CASE y.delivered = x.delivered
    <3> HIDE DEF x, y
    <3>1. \A k \in Publics(y) : k =< x.delivered => k \in Publics(x)
      BY <2>1, <2>2
    <3> QED
      BY <2>1, <2>3, <2>4, <3>1 DEF x, y
  <2>5. CASE \E r \in Requests :
              /\ req[r].h = h /\ Reached(req[r]) \in req[r].got
              /\ req[r].pc = "advance" /\ req[r].kind = "send"
              /\ y.delivered = Larger(x.delivered, Reached(req[r]))
    <3>1. PICK r \in Requests :
            /\ req[r].h = h /\ Reached(req[r]) \in req[r].got
            /\ req[r].pc = "advance" /\ req[r].kind = "send"
            /\ y.delivered = Larger(x.delivered, Reached(req[r]))
      BY <2>5
    <3> DEFINE q == req[r]
               n == Reached(q)
    <3>2. /\ q.after =< x.delivered /\ q.after \in Nat
          /\ q.got \subseteq Publics(x)
          /\ \A k \in Publics(x) : q.after < k /\ k =< n => k \in q.got
      BY <1>0, <3>1 DEF Fit, Fits, SendFit, Working, Steps, Calls
    <3>3. n \in Publics(x) /\ n \in Nat /\ n =< Len(x.thread)
      BY <2>2, <3>1, <3>2
    <3>4. y.delivered = Larger(x.delivered, n)
      BY <3>1
    <3>5. \A k : k \in q.got => Carried(h, k)
      BY <3>1 DEF Carried
    <3> HIDE DEF x, y, q, n
    <3>6. y.delivered =< Len(x.thread)
      BY <2>1, <2>2, <3>3, <3>4 DEF Larger
    <3>7. ASSUME Passed, NEW k \in Publics(y), k =< y.delivered
          PROVE  Carried(h, k)
      <4>1. k \in Nat /\ k =< Len(x.thread)
        BY <2>2, <3>6, <3>7
      <4>2. k \in Publics(x)
        BY <2>2, <3>7, <4>1
      <4>3. CASE k =< x.delivered
        BY <2>3, <3>7, <4>2, <4>3
      <4>4. CASE ~(k =< x.delivered)
        <5>1. q.after < k /\ k =< n
          BY <2>2, <3>2, <3>3, <3>4, <3>7, <4>1, <4>4 DEF Larger
        <5> QED
          BY <3>2, <3>5, <4>2, <5>1
      <4> QED
        BY <4>3, <4>4
    <3> QED
      BY <3>6, <3>7 DEF x, y
  <2> QED
    BY <2>4, <2>5, OldRow
<1>3. ASSUME NEW h \in DOMAIN handoff'
      PROVE  (handoff'[h]).delivered =< Len((handoff'[h]).thread)
  <2>1. CASE h \in DOMAIN handoff
    <3> DEFINE x == handoff[h]
               y == handoff'[h]
    <3>1. /\ x \in Handoffs /\ y \in Handoffs /\ Len(x.thread) =< Len(y.thread)
          /\ y.delivered =< Len(x.thread)
      BY <1>0, <1>2, <2>1 DEF Grows, RowGrows
    <3>2. Len(x.thread) \in Nat /\ Len(y.thread) \in Nat /\ y.delivered \in Nat
      BY <3>1, PublicNumbers
    <3> HIDE DEF x, y
    <3>3. y.delivered =< Len(y.thread)
      BY <3>1, <3>2
    <3> QED
      BY <3>3 DEF y
  <2>2. CASE h \notin DOMAIN handoff
    BY <1>1, <2>2, PublicNumbers
  <2> QED
    BY <2>1, <2>2
<1>4. /\ (left'.faults) =< MaxFaults
      /\ (left'.faults) = MaxFaults => Waited /\ Passed /\ ~Faulty
  BY FaultsKept DEF Deliv
<1>5. ASSUME (left'.faults) = MaxFaults
      PROVE  Waited' /\ Passed'
  <2>1. Waited'
    BY <1>4, <1>5, WaitedKept
  <2>2. ASSUME NEW h \in DOMAIN handoff', NEW k \in Publics(handoff'[h]),
               k =< (handoff'[h]).delivered
        PROVE  Carried(h, k)'
    <3>1. CASE h \in DOMAIN handoff
      <4>1. Carried(h, k)
        BY <1>2, <1>4, <1>5, <2>2, <3>1
      <4> QED
        BY <1>4, <1>5, <4>1, CarriedKept
    <3>2. CASE h \notin DOMAIN handoff
      <4>1. handoff'[h] \in Handoffs /\ k =< 0
        BY <1>1, <2>2, <3>2
      <4>2. k \in Nat /\ 0 < k
        BY <2>2, <4>1, PublicNumbers
      <4> QED
        BY <4>1, <4>2
    <3> QED
      BY <3>1, <3>2
  <2> QED
    BY <2>1, <2>2 DEF Passed
<1> QED
  BY <1>3, <1>4, <1>5 DEF Deliv

-----------------------------------------------------------------------------
LEMMA PageInvariant == Spec => [](Fit /\ Cursor /\ Deliv)
<1> DEFINE Inv == IInv /\ Tokens /\ Fit /\ Cursor /\ Deliv
<1>1. Init => Inv
  <2> SUFFICES ASSUME Init PROVE Inv
    OBVIOUS
  <2>1. /\ handoff = <<>> /\ page.token = 0 /\ page.cursor = 0
        /\ \A r \in Requests : req[r] = NoReq
        /\ left.faults = MaxFaults /\ MaxFaults \in Nat
    BY HandoffAssumption DEF Init, NewPage
  <2>2. ~NoReq.gives /\ NoReq.pc = "idle"
    BY DEF NoReq
  <2>3. Tokens /\ Fit
    BY <2>1, <2>2, EmptyFits DEF Tokens, Fit
  <2>4. Cursor
    BY <2>1, SeenZero, InitWhole DEF Cursor, IInv, TypeOK
  <2>5. Deliv
    BY <2>1, <2>2 DEF Deliv, Waited, Passed
  <2> QED
    BY <2>3, <2>4, <2>5, InitWhole
<1>2. Inv /\ [Next]_vars => Inv'
  BY StepMoves, TokensKept, FitKept, CursorKept, DelivKept
<1> QED
  BY <1>1, <1>2, PTL DEF Spec

\* The gate never passes a message with the token of a conversation that goes on
\* to the bot: what a request read of a row that was over stays true, and one
\* that decided to end the conversation has ended it before it answers.
THEOREM HandoffHolderNeverBot == Spec => []HolderNeverBot
<1>1. Fit => HolderNeverBot
  BY DEF Fit, Fits, BotFit, HolderNeverBot
<1> QED
  BY <1>1, PageInvariant, PTL

\* With no answer lost, the cursor of a legacy conversation passes only what
\* was shown or is on its way, though requests read and move it in two steps.
THEOREM HandoffLegacyComplete == Spec => []LegacyComplete
<1>1. Deliv => LegacyComplete
  <2> SUFFICES ASSUME Deliv, left.faults = MaxFaults, NEW h \in DOMAIN handoff,
                      NEW k \in After(h, 0), k =< handoff[h].delivered
               PROVE  Carried(h, k)
    BY DEF LegacyComplete, Carried
  <2> QED
    BY PublicsAfter DEF Deliv, Passed
<1> QED
  BY <1>1, PageInvariant, PTL

\* On a page with the token of the only handoff, the cursor has passed only
\* what was shown, over lost and late answers and pages loaded again, as long as
\* no poll found more than a page of messages, whatever the size of a page.
THEOREM HandoffNothingSkipped == Spec => []NothingSkipped
<1>1. Cursor => NothingSkipped
  <2> SUFFICES ASSUME Cursor, latest = 1, ~cut, NEW k \in After(1, 0),
                      k =< page.cursor
               PROVE  <<1, k>> \in shown
    BY DEF NothingSkipped
  <2>1. <<1, k>> \in Known
    BY PublicsAfter DEF Cursor, Seen, latest
  <2> QED
    BY <2>1 DEF Known
<1> QED
  BY <1>1, PageInvariant, PTL
=============================================================================
