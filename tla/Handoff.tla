------------------------------- MODULE Handoff -------------------------------
(***************************************************************************)
(* Handoff of a conversation to a human agent (apps/api/src/handoff), with *)
(* the page of the widget (apps/widget) that sends and polls.              *)
(*                                                                         *)
(* One visitor session.  Its handoffs form a sequence, of which only the   *)
(* last may be active; each has a thread of numbered messages.  A request  *)
(* of the page reads the settings and the latest handoff, then works on    *)
(* what it read in further queries and transactions; agents and the        *)
(* sweeper do the same.  A transaction is one step.                        *)
(*                                                                         *)
(* The token of handoff h is h (0 is none): the row keeps its hash from    *)
(* the moment the mode is MODERN.  Time is the set of limits a row is past *)
(* ("idle", "reply", and "grace" once ended), recomputed where the code    *)
(* writes a date.  `raw' says that raw text of the visitor is still        *)
(* stored.                                                                 *)
(***************************************************************************)
EXTENDS Naturals, Sequences, FiniteSets

CONSTANTS
  Agents,       \* users who may take over a conversation
  Admins,       \* those with the role ADMIN
  Nobody,
  Requests,     \* bound: requests of the page at work at once
  PageSize,     \* messages a poll reads at most (100 in the code)
  MaxHandoffs,  \* bound on handoffs of the session
  MaxOps,       \* bound on what people do and what fails, together
  MaxSends,     \* bound on messages of the visitor among them
  MaxExtras,    \* bound on changes of the settings and closings of the channel
  MaxFaults     \* bound on requests that fail and pages loaded again

ASSUME HandoffAssumption ==
  /\ Admins \subseteq Agents
  /\ Nobody \notin Agents
  /\ {PageSize, MaxHandoffs, MaxOps, MaxSends, MaxExtras, MaxFaults} \subseteq Nat

VARIABLES
  handoff,  \* handoff_sessions of this session with their messages
  setting,  \* chatbot_handoff_settings: enabled and draining
  cached,   \* what an instance with an older cache entry still serves
  edit,     \* what a change of the settings is about to write
  open,     \* chatbot ACTIVE and WEB channel enabled
  act,      \* per agent: the operation at work
  sweep,    \* the tick of the sweeper
  req,      \* per slot: a request of the page
  page,     \* the page: poll state and sessionStorage
  shown,    \* messages the visitor was shown, over all pages
  cut,      \* some poll was to give a cursor beyond what it may read
  left      \* what is left of the bounds above

vars == <<handoff, setting, cached, edit, open, act, sweep, req, page, shown, cut, left>>

console == <<setting, cached, edit, open>>
client == <<page, shown, cut>>

Active(x) == x.status \in {"CONNECTING", "CONNECTED"}
latest == Len(handoff)
HasActive == latest > 0 /\ Active(handoff[latest])

Said(kind, who) == [kind |-> kind, by |-> who]

\* What a visitor may see: the AGENT and SYSTEM messages except TAKEOVER.
Public(msg) == msg.kind \in {"CONNECTED", "ENDED", "FAILED", "AGENT"}

\* The public messages of handoff h numbered after n.
After(h, n) == {k \in DOMAIN handoff[h].thread : k > n /\ Public(handoff[h].thread[k])}

\* firstAgentReplyAt is null.
Unanswered(x) == \A k \in DOMAIN x.thread : x.thread[k].kind # "AGENT"

Settings == {setting, cached}
NoAct == [pc |-> "idle", h |-> 0]
NoSweep == [pc |-> "idle", h |-> 0, why |-> "NONE"]
NoReq == [kind |-> "idle", pc |-> "idle", heard |-> FALSE, token |-> 0,
          after |-> 0, h |-> 0, last |-> 0, why |-> "NONE", then |-> "idle",
          got |-> {}, says |-> "none", gives |-> FALSE]
NewPage(modern) == [modern |-> modern, mode |-> "IDLE", token |-> 0,
                    cursor |-> 0, loop |-> FALSE]

\* The feature is on, or has been switched off while a cache still serves it.
Init ==
  /\ handoff = <<>>
  /\ setting = "on" /\ cached = "on" /\ edit = "none"
  /\ open = TRUE
  /\ act = [a \in Agents |-> NoAct]
  /\ sweep = NoSweep
  /\ req = [r \in Requests |-> NoReq]
  /\ \E modern \in BOOLEAN : page = NewPage(modern)
  /\ shown = {} /\ cut = FALSE
  /\ left = [ops |-> MaxOps, sends |-> MaxSends, extras |-> MaxExtras,
             faults |-> MaxFaults]

Spend(what) ==
  /\ left.ops > 0 /\ left[what] > 0
  /\ left' = [k \in DOMAIN left |-> left[k] - IF k \in {"ops", what} THEN 1 ELSE 0]

-----------------------------------------------------------------------------
(* Writes of the thread service, each the body of one transaction.         *)

Begun(a) == [status |-> "CONNECTING", mode |-> "NONE", assignee |-> a,
             delivered |-> 0, past |-> {}, raw |-> FALSE,
             thread |-> <<Said("CONNECTED", a)>>]

\* Mutant: a token is given whatever the mode, so to a second request too.
Unissued_Any(x) == Active(x)
\* The condition of issueModernToken and markLegacy.
Unissued(x) == x.status = "CONNECTING" /\ x.mode = "NONE"

Connected(x, mode) == [x EXCEPT !.status = "CONNECTED", !.mode = mode,
                                !.past = @ \ {"idle"}]

\* A message of either side puts off USER_IDLE, which starts with connectedAt.
Spoken(x, msg) ==
  [x EXCEPT !.thread = Append(@, msg),
            !.raw = @ \/ msg.kind = "USER",
            !.past = IF x.status = "CONNECTED" THEN @ \ {"idle"} ELSE @]

\* Mutant: the end is written without asking whether the row is active.
Ends_Always(x) == TRUE
Ends(x) == Active(x)

EndKind(why) == IF why \in {"NOT_DELIVERED", "AGENT_NO_REPLY"} THEN "FAILED" ELSE "ENDED"

\* endHandoff: status, end message and raw text in one transaction; a handoff
\* that has ended is only cleared of raw text.
EndedRow(x, why) ==
  IF Ends(x)
  THEN [x EXCEPT !.status = "ENDED", !.past = {}, !.raw = FALSE,
                 !.thread = Append(x.thread, Said(EndKind(why), Nobody))]
  ELSE [x EXCEPT !.raw = FALSE]

EndHandoff(h, why) == handoff' = [handoff EXCEPT ![h] = EndedRow(@, why)]

\* Mutant: a conversation nobody came back to is left waiting.
Judge_Connected(x) ==
  IF ~open THEN "CHANNEL_CLOSED"
  ELSE IF Unanswered(x) /\ "reply" \in x.past THEN "AGENT_NO_REPLY"
  ELSE IF "idle" \in x.past /\ x.status = "CONNECTED" THEN "USER_IDLE"
  ELSE "NONE"

\* judgeHandoffExpiry of an active row: the first reason that holds.
Judge(x) ==
  IF ~open THEN "CHANNEL_CLOSED"
  ELSE IF Unanswered(x) /\ "reply" \in x.past THEN "AGENT_NO_REPLY"
  ELSE IF "idle" \notin x.past THEN "NONE"
  ELSE IF x.status = "CONNECTING" THEN "NOT_DELIVERED" ELSE "USER_IDLE"

\* A limit passes: of silence, of the first reply, of the token after the end.
\* Only those of the latest handoff are ever asked for.
TimePasses ==
  /\ latest > 0
  /\ \E limit \in IF ~HasActive
                    THEN {l \in {"grace"} : handoff[latest].mode = "MODERN"}
                    ELSE {"idle"} \cup {l \in {"reply"} : Unanswered(handoff[latest])} :
       /\ limit \notin handoff[latest].past
       /\ handoff' = [handoff EXCEPT ![latest].past = @ \cup {limit}]
  /\ UNCHANGED <<console, act, sweep, req, client, left>>

-----------------------------------------------------------------------------
(* Agents.                                                                 *)

ActTo(a, pc, h) == act' = [act EXCEPT ![a] = [pc |-> pc, h |-> h]]

\* intervene reads the cached settings and the channel, then creates.
Intervene(a) ==
  /\ act[a].pc = "idle" /\ latest < MaxHandoffs
  /\ "on" \in Settings /\ open
  /\ Spend("ops")
  /\ ActTo(a, "create", 0)
  /\ UNCHANGED <<handoff, console, sweep, req, client>>

\* Mutant: no index, and who looked first creates.
Vacant_Unchecked == TRUE
\* The partial unique index refuses a second active row.
Vacant == ~HasActive

\* createHandoff.
Create(a) ==
  /\ act[a].pc = "create"
  /\ handoff' = IF Vacant /\ latest < MaxHandoffs THEN Append(handoff, Begun(a))
                ELSE handoff
  /\ act' = [act EXCEPT ![a] = NoAct]
  /\ UNCHANGED <<console, sweep, req, client, left>>

Reply(a, h) ==
  /\ act[a].pc = "idle"
  /\ Active(handoff[h]) /\ handoff[h].assignee = a
  /\ Spend("ops")
  /\ ActTo(a, "reply", h)
  /\ UNCHANGED <<handoff, console, sweep, req, client>>

\* Mutant: the transaction trusts the row read before it.
StillMine_Trusted(a, x) == TRUE
StillMine(a, x) == Active(x) /\ x.assignee = a

\* appendAgentMessage: the transaction asks again.
Replied(a) ==
  /\ act[a].pc = "reply"
  /\ handoff' = [handoff EXCEPT ![act[a].h] =
                   IF StillMine(a, @) THEN Spoken(@, Said("AGENT", a)) ELSE @]
  /\ act' = [act EXCEPT ![a] = NoAct]
  /\ UNCHANGED <<console, sweep, req, client, left>>

\* end: the assignee, or an administrator, by the row read first.
Finish(a, h) ==
  /\ act[a].pc = "idle"
  /\ handoff[h].assignee = a \/ a \in Admins
  /\ Spend("ops")
  /\ ActTo(a, "end", h)
  /\ UNCHANGED <<handoff, console, sweep, req, client>>

Finished(a) ==
  /\ act[a].pc = "end"
  /\ EndHandoff(act[a].h, "AGENT_ENDED")
  /\ act' = [act EXCEPT ![a] = NoAct]
  /\ UNCHANGED <<console, sweep, req, client, left>>

TakeOver(a, h) ==
  /\ act[a].pc = "idle" /\ a \in Admins
  /\ Active(handoff[h])
  /\ Spend("ops")
  /\ handoff' = [handoff EXCEPT ![h].assignee = a,
                                ![h].thread = Append(@, Said("TAKEOVER", a))]
  /\ UNCHANGED <<console, act, sweep, req, client>>

-----------------------------------------------------------------------------
(* Settings, channel and sweeper.                                          *)

\* updateSettings reads the old settings and counts the active rows, ...
EditRead(enabled) ==
  /\ edit = "none"
  /\ Spend("extras")
  /\ edit' = IF enabled THEN "on"
             ELSE IF setting # "on" THEN setting
             ELSE IF HasActive THEN "draining" ELSE "off"
  /\ UNCHANGED <<handoff, setting, cached, open, act, sweep, req, client>>

\* ... then writes; only the cache of its own instance forgets the old ones.
EditWrite ==
  /\ edit # "none"
  /\ setting' = edit
  /\ edit' = "none"
  /\ UNCHANGED <<handoff, cached, open, act, sweep, req, client, left>>

CacheExpires ==
  /\ cached' = setting
  /\ UNCHANGED <<handoff, setting, edit, open, act, sweep, req, client, left>>

CloseChannel ==
  /\ open
  /\ Spend("extras")
  /\ open' = FALSE
  /\ UNCHANGED <<handoff, setting, cached, edit, act, sweep, req, client>>

\* A tick with an active row, whose limits and channel it reads, ...
SweepRead ==
  /\ sweep.pc = "idle" /\ HasActive
  /\ LET why == Judge(handoff[latest])
     IN sweep' = IF why = "NONE" THEN [NoSweep EXCEPT !.pc = "purge"]
                 ELSE [pc |-> "end", h |-> latest, why |-> why]
  /\ UNCHANGED <<handoff, console, act, req, client, left>>

\* ... ends it, ...
SweepEnd ==
  /\ sweep.pc = "end"
  /\ EndHandoff(sweep.h, sweep.why)
  /\ sweep' = [NoSweep EXCEPT !.pc = "purge"]
  /\ UNCHANGED <<console, act, req, client, left>>

\* purgeExpiredRaw: everything of an ended handoff, and what is past its date.
Purged(x, old) == ~Active(x) \/ old

Purge ==
  \E old \in BOOLEAN :
    handoff' = [h \in DOMAIN handoff |->
                  [handoff[h] EXCEPT !.raw = @ /\ ~Purged(handoff[h], old)]]

\* ... purges, and counts the active rows of a chatbot that drains, which the
\* purge leaves alone: the two are one step.
SweepPurge ==
  /\ sweep.pc = "purge"
  /\ Purge
  /\ \E s \in Settings :
        sweep' = [NoSweep EXCEPT !.pc =
                    IF s = "draining" /\ ~HasActive THEN "clear" ELSE "idle"]
  /\ UNCHANGED <<console, act, req, client, left>>

\* Mutant: a tick that finds no active row returns at once.
SweepIdle_Returns == sweep.pc = "idle" /\ ~HasActive /\ UNCHANGED vars
\* A tick that finds no active row only purges.
SweepIdle ==
  /\ sweep.pc = "idle" /\ ~HasActive
  /\ Purge
  /\ UNCHANGED <<console, act, sweep, req, client, left>>

SweepClear ==
  /\ sweep.pc = "clear"
  /\ setting' = IF setting = "draining" THEN "off" ELSE setting
  /\ sweep' = NoSweep
  /\ UNCHANGED <<handoff, cached, edit, open, act, req, client, left>>

-----------------------------------------------------------------------------
(* Requests of the page, as the server handles them.                       *)

Polls == {"loop", "stale", "restore"}

Larger(m, n) == IF m < n THEN n ELSE m

\* Of an answer only what it carries is kept, `last' being its cursor, and
\* nothing where no page waits for it.
Settled(q) ==
  IF q.pc # "answer" THEN q
  ELSE IF ~q.heard THEN NoReq
  ELSE [q EXCEPT !.after = 0,
                 !.token = IF q.says = "bot" THEN @ ELSE 0,
                 !.h = IF q.gives \/ q.got # {} \/ q.says = "page" THEN @ ELSE 0,
                 !.last = IF q.says = "page" THEN Larger(q.after, @)
                          ELSE IF q.says = "none" THEN q.after ELSE 0]

\* A request goes on as q.
Goes(r, q) == req' = [req EXCEPT ![r] = Settled(q)]
Say(q, what) == [q EXCEPT !.pc = "answer", !.says = what]

\* Mutant: a request that carries a token is not looked up either.
NoLookup_Token(s, q) == s = "off"
NoLookup(s, q) == s = "off" /\ q.token = 0

\* The classification of an active row, and of one that has ended.
ToActive(q, x) ==
  CASE x.mode = "NONE" -> [q EXCEPT !.pc = IF page.modern THEN "issue" ELSE "mark"]
    [] x.mode = "MODERN" /\ q.token = q.h -> [q EXCEPT !.pc = "append", !.says = "connected"]
    [] x.mode = "LEGACY" /\ q.token = 0 /\ ~page.modern ->
         [q EXCEPT !.pc = "append", !.says = "legacy"]
    [] OTHER -> Say(q, "unverified")

ToEnded(q, x) ==
  IF x.mode = "LEGACY" /\ x.delivered < Len(x.thread)
  THEN [q EXCEPT !.pc = "collect", !.says = "bot"] ELSE Say(q, "bot")

\* The same for a poll; `gone' is the 404.
ToPoll(q, x, ended) ==
  IF q.token = 0
  THEN IF x.status = "CONNECTING" /\ x.mode = "NONE" /\ ~ended
       THEN [q EXCEPT !.pc = "issue"] ELSE Say(q, "none")
  ELSE IF x.mode = "MODERN" /\ q.token = q.h /\ "grace" \notin x.past
       THEN [q EXCEPT !.pc = "read", !.says = IF ended THEN "ended" ELSE "page"]
       ELSE Say(q, "gone")

\* What the request does next, from the row it read: first end it when a limit
\* has passed, and then treat it as ended, whatever it has become since.
Routed(q, x) ==
  LET why == IF Active(x) THEN Judge(x) ELSE "NONE"
      ended == ~Active(x) \/ why # "NONE"
      to == IF q.kind # "send" THEN ToPoll(q, x, ended)
            ELSE IF ended THEN ToEnded(q, x) ELSE ToActive(q, x)
  IN IF why = "NONE" THEN to
     ELSE [to EXCEPT !.pc = "expire", !.then = to.pc, !.why = why]

\* evaluate and poll: settings and latest row.  Before them sendMessage turns
\* back a message with a banned word, whatever token it carries.
Read(r) ==
  LET q == req[r]
      read == IF q.kind = "send"
              THEN [q EXCEPT !.h = latest, !.after = handoff[latest].delivered]
              ELSE [q EXCEPT !.h = latest, !.last = Len(handoff[latest].thread)]
  IN /\ q.pc = "sent"
     /\ \/ open /\ q.kind = "send" /\ Goes(r, Say(q, "blocked"))
        \/ \E s \in Settings :
             Goes(r,
               IF ~open THEN Say(q, "refused")
               ELSE IF q.kind = "send" /\ (NoLookup(s, q) \/ latest = 0) THEN Say(q, "bot")
               ELSE IF latest = 0 THEN Say(q, "none")
               ELSE Routed(read, handoff[latest]))
     /\ UNCHANGED <<handoff, console, act, sweep, client, left>>

Expire(r) ==
  /\ req[r].pc = "expire"
  /\ EndHandoff(req[r].h, req[r].why)
  /\ Goes(r, [req[r] EXCEPT !.pc = req[r].then, !.then = "idle", !.why = "NONE"])
  /\ UNCHANGED <<console, act, sweep, client, left>>

\* issueModernToken: who loses is answered as if unverified.
Issue(r) ==
  LET q == req[r] IN
  /\ q.pc = "issue"
  /\ \/ /\ Unissued(handoff[q.h])
        /\ handoff' = [handoff EXCEPT ![q.h] = Connected(@, "MODERN")]
        /\ Goes(r, IF q.kind = "send"
             THEN [q EXCEPT !.pc = "append", !.says = "connected", !.gives = TRUE]
             ELSE [q EXCEPT !.pc = "read", !.says = "page", !.gives = TRUE])
     \/ /\ ~Unissued(handoff[q.h])
        /\ Goes(r, Say(q, IF q.kind = "send" THEN "unverified" ELSE "none"))
        /\ UNCHANGED handoff
  /\ UNCHANGED <<console, act, sweep, client, left>>

\* markLegacy: the first message of a legacy page is answered, not stored.
Mark(r) ==
  LET q == req[r] IN
  /\ q.pc = "mark"
  /\ \/ /\ Unissued(handoff[q.h])
        /\ handoff' = [handoff EXCEPT ![q.h] = Connected(@, "LEGACY")]
        /\ Goes(r, [q EXCEPT !.pc = "collect", !.says = "legacy", !.after = 0])
     \/ /\ ~Unissued(handoff[q.h])
        /\ Goes(r, Say(q, "unverified"))
        /\ UNCHANGED handoff
  /\ UNCHANGED <<console, act, sweep, client, left>>

\* appendUserMessage, which does not ask for the status again.
AppendUser(r) ==
  LET q == req[r] IN
  /\ q.pc = "append"
  /\ handoff' = [handoff EXCEPT ![q.h] = Spoken(@, Said("USER", Nobody))]
  /\ Goes(r, [q EXCEPT !.pc = IF q.says = "legacy" THEN "collect" ELSE "answer"])
  /\ UNCHANGED <<console, act, sweep, client, left>>

\* collectUndeliveredLegacyOutputs: the messages, then the cursor.
Collect(r) ==
  LET q == req[r]
      got == After(q.h, q.after)
  IN /\ q.pc = "collect"
     /\ Goes(r, [q EXCEPT !.got = got, !.pc = IF got = {} THEN "answer" ELSE "advance"])
     /\ UNCHANGED <<handoff, console, act, sweep, client, left>>

Greatest(S) == CHOOSE n \in S : \A k \in S : k =< n

\* Mutant: the cursor moves to the newest message, sent along or not.
Reached_Newest(q) == Len(handoff[q.h].thread)
Reached(q) == Greatest(q.got)

Advance(r) ==
  LET q == req[r] IN
  /\ q.pc = "advance"
  /\ handoff' = [handoff EXCEPT ![q.h].delivered =
                   Larger(@, Reached(q))]
  /\ Goes(r, [q EXCEPT !.pc = "answer"])
  /\ UNCHANGED <<console, act, sweep, client, left>>

\* Mutant: the cursor is the last number after the messages were read.
Scanned_Now(q) == IF q.says = "page" THEN Len(handoff[q.h].thread) ELSE q.last
\* The last number of the row read before the messages, and never less than
\* the cursor the page sent.
Scanned(q) == q.last

\* buildResponse: of a page of messages after the cursor of the widget, the
\* public ones are sent.  The cursor answered may lie beyond that page.
ReadPage(r) ==
  LET q == req[r]
      end == q.after + PageSize
  IN /\ q.pc = "read"
     /\ Goes(r, [q EXCEPT !.got = {k \in After(q.h, q.after) : k =< end},
                          !.pc = "answer"])
     /\ cut' = (cut \/ Scanned(q) > end)
     /\ UNCHANGED <<handoff, console, act, sweep, page, shown, left>>

-----------------------------------------------------------------------------
(* The page.  Storage is written with every change of token or cursor, so   *)
(* it is the token and cursor of the page, and empty without a token.       *)

ShouldPoll(mode) == mode \in {"WATCHING", "CONNECTED"}
Fresh == NewPage(page.modern)
Free(r) == req[r] = NoReq
AtWork(kind) == \E r \in Requests : req[r].kind = kind /\ req[r].heard
Asked(kind) == [NoReq EXCEPT !.kind = kind, !.pc = "sent", !.heard = TRUE,
                             !.token = page.token]

Send(r) ==
  /\ Free(r) /\ ~AtWork("send")
  /\ Spend("sends")
  /\ req' = [req EXCEPT ![r] = Asked("send")]
  /\ UNCHANGED <<handoff, console, act, sweep, client>>

\* The timer of the loop fires; one request of the loop at a time.
LoopPoll(r) ==
  /\ Free(r) /\ ~AtWork("loop")
  /\ page.loop
  /\ req' = [req EXCEPT ![r] = [Asked("loop") EXCEPT !.after = page.cursor]]
  /\ UNCHANGED <<handoff, console, act, sweep, client, left>>

WatchEnds ==
  /\ page.mode = "WATCHING"
  /\ page' = [page EXCEPT !.mode = "WATCHED"]
  /\ UNCHANGED <<handoff, console, act, sweep, req, shown, cut, left>>

\* The page is loaded again: what was under way is not heard any more, and a
\* stored token is taken up with one poll.
Reload(r) ==
  /\ Free(r)
  /\ Spend("faults")
  /\ page' = IF page.token = 0 THEN Fresh
             ELSE [page EXCEPT !.mode = "CONNECTED", !.loop = FALSE]
  /\ req' = [x \in Requests |->
       IF x # r THEN IF req[x].pc \in {"idle", "answer"} THEN NoReq
                     ELSE [req[x] EXCEPT !.heard = FALSE]
       ELSE IF page.token = 0 THEN NoReq
       ELSE [Asked("restore") EXCEPT !.after = page.cursor]]
  /\ UNCHANGED <<handoff, console, act, sweep, shown, cut>>

\* The page p after a poll: the loop asks whether to go on, the restore whether
\* to begin one.
PolledOn(kind, p) ==
  [p EXCEPT !.loop = CASE kind = "loop" -> ShouldPoll(p.mode)
                       [] kind = "restore" -> @ \/ ShouldPoll(p.mode)
                       [] OTHER -> @]

\* A request that fails: the network, the instance or the database.
Fail(r) ==
  /\ req[r] # NoReq
  /\ Spend("faults")
  /\ req' = [req EXCEPT ![r] = NoReq]
  /\ page' = IF req[r].heard THEN PolledOn(req[r].kind, page) ELSE page
  /\ UNCHANGED <<handoff, console, act, sweep, shown, cut>>

Shows(q) == shown' = shown \cup {<<q.h, k>> : k \in q.got}

\* handleSend and onSendResponse.  A bot answer may open the watch window.
Answered(r) ==
  LET q == req[r] IN
  /\ q.pc = "answer" /\ q.kind = "send"
  /\ \E watch \in {FALSE} \cup {w \in {TRUE} :
                     q.says = "bot" /\ page.modern /\ "on" \in Settings} :
       LET mode == IF q.says = "connected" THEN "CONNECTED"
                   ELSE IF watch /\ page.mode # "CONNECTED" THEN "WATCHING"
                   ELSE page.mode
       IN page' = [page EXCEPT !.mode = mode,
                               !.token = IF q.gives THEN q.h ELSE @,
                               !.loop = @ \/ (q.says # "refused" /\ ShouldPoll(mode))]
  /\ Shows(q)
  /\ req' = [req EXCEPT ![r] = NoReq]
  /\ UNCHANGED <<handoff, console, act, sweep, cut, left>>

\* Mutant: the 404 is retried like a failure.
Over_Retried(q) ==
  \/ q.says = "ended"
  \/ q.says = "none" /\ page.mode = "WATCHED"
Over(q) ==
  \/ q.says \in {"gone", "ended"}
  \/ q.says = "none" /\ page.mode = "WATCHED"

\* onPollResponse with STOP, and the 404: the page forgets the handoff, and a
\* request of the loop that is still under way belongs to no loop.
Stopped(r) ==
  LET q == req[r] IN
  /\ q.pc = "answer" /\ q.kind \in Polls /\ Over(q)
  /\ page' = Fresh
  /\ Shows(q)
  /\ req' = [x \in Requests |->
       IF x = r THEN NoReq
       ELSE IF req[x].kind = "loop" THEN [req[x] EXCEPT !.kind = "stale"] ELSE req[x]]
  /\ UNCHANGED <<handoff, console, act, sweep, cut, left>>

\* onPollResponse with CONTINUE, and onPollFailure.
Continued(r) ==
  LET q == req[r]
      mode == IF q.says = "page" THEN "CONNECTED" ELSE page.mode
  IN /\ q.pc = "answer" /\ q.kind \in Polls /\ ~Over(q)
     /\ page' = PolledOn(q.kind, [page EXCEPT
          !.mode = mode,
          !.token = IF q.gives THEN q.h ELSE @,
          !.cursor = Larger(@, Scanned(q))])
     /\ Shows(q)
     /\ req' = [req EXCEPT ![r] = NoReq]
     /\ UNCHANGED <<handoff, console, act, sweep, cut, left>>

-----------------------------------------------------------------------------
ServeStep(r) ==
  \/ Read(r) \/ Expire(r) \/ Issue(r) \/ Mark(r) \/ AppendUser(r)
  \/ Collect(r) \/ Advance(r) \/ ReadPage(r)
  \/ Answered(r) \/ Stopped(r) \/ Continued(r)

AgentStep(a) == Create(a) \/ Replied(a) \/ Finished(a)

SweepStep ==
  SweepRead \/ SweepEnd \/ SweepPurge \/ SweepClear \/ SweepIdle

\* What nobody decides: started operations go on, time passes, caches expire.
Background ==
  \/ \E a \in Agents : AgentStep(a)
  \/ TimePasses \/ EditWrite \/ CacheExpires \/ WatchEnds

Next ==
  \/ \E a \in Agents :
       \/ Intervene(a)
       \/ \E h \in DOMAIN handoff : Reply(a, h) \/ Finish(a, h) \/ TakeOver(a, h)
  \/ \E enabled \in BOOLEAN : EditRead(enabled)
  \/ CloseChannel
  \/ SweepStep
  \/ \E r \in Requests :
       Send(r) \/ LoopPoll(r) \/ Reload(r) \/ Fail(r) \/ ServeStep(r)
  \/ Background

Spec == Init /\ [][Next]_vars

\* The sweeper's loop and the page's timer keep firing, and requests go on.
\* Nobody has to write, to call or to end.
Fairness ==
  /\ WF_vars(SweepStep)
  /\ WF_vars(\E r \in Requests : LoopPoll(r))
  /\ \A r \in Requests : WF_vars(ServeStep(r))
  /\ WF_vars(Background)

FairSpec == Spec /\ Fairness

-----------------------------------------------------------------------------
Statuses == {"CONNECTING", "CONNECTED", "ENDED"}
Kinds == {"CONNECTED", "TAKEOVER", "ENDED", "FAILED", "USER", "AGENT"}
Reasons == {"NONE", "CHANNEL_CLOSED", "AGENT_NO_REPLY", "NOT_DELIVERED", "USER_IDLE"}
Steps == {"idle", "sent", "expire", "issue", "mark", "append", "collect",
          "advance", "read", "answer"}
Message == [kind : Kinds, by : Agents \cup {Nobody}]
Handoffs == [status : Statuses, mode : {"NONE", "MODERN", "LEGACY"},
             assignee : Agents, delivered : Nat, raw : BOOLEAN,
             past : SUBSET {"idle", "reply", "grace"}, thread : Seq(Message)]

Acts == [pc : {"idle", "create", "reply", "end"}, h : Nat]
Sweeps == [pc : {"idle", "end", "purge", "clear"}, h : Nat, why : Reasons]
Answers == {"none", "bot", "unverified", "connected", "legacy", "page", "ended",
            "gone", "refused", "blocked"}
Calls == [kind : {"idle", "send"} \cup Polls, pc : Steps, heard : BOOLEAN,
          token : Nat, after : Nat, h : Nat, last : Nat, why : Reasons,
          then : Steps, got : SUBSET Nat, says : Answers, gives : BOOLEAN]
Pages == [modern : BOOLEAN, mode : {"IDLE", "WATCHING", "WATCHED", "CONNECTED"},
          token : Nat, cursor : Nat, loop : BOOLEAN]

\* Type invariant; of the handoffs of the session, only the last may be active.
TypeOK ==
  /\ handoff \in Seq(Handoffs)
  /\ \A h \in DOMAIN handoff : Active(handoff[h]) => h = latest
  /\ setting \in {"on", "draining", "off"} /\ cached \in {"on", "draining", "off"}
  /\ edit \in {"none", "on", "draining", "off"} /\ open \in BOOLEAN
  /\ act \in [Agents -> Acts]
  /\ \A a \in Agents : act[a].pc \in {"reply", "end"} => act[a].h \in DOMAIN handoff
  /\ sweep \in Sweeps
  /\ sweep.pc = "end" => sweep.h \in DOMAIN handoff
  /\ req \in [Requests -> Calls]
  /\ \A r \in Requests : req[r].pc \notin {"idle", "sent", "answer"} =>
        req[r].h \in DOMAIN handoff
  /\ page \in Pages
  /\ shown \subseteq Nat \X Nat /\ cut \in BOOLEAN
  /\ left \in [{"ops", "sends", "extras", "faults"} -> Nat]

\* An ended handoff has one end message, an active one none, and nothing but
\* messages the visitor had under way follows it, whoever ends it how often
\* (page, gate, sweeper and agents all do, from rows read before).
EndsOnce ==
  \A h \in DOMAIN handoff :
    LET thread == handoff[h].thread
        ends == {k \in DOMAIN thread : thread[k].kind \in {"ENDED", "FAILED"}}
    IN /\ Active(handoff[h]) => ends = {}
       /\ ~Active(handoff[h]) =>
            \E k \in DOMAIN thread :
              /\ ends = {k}
              /\ \A n \in DOMAIN thread : n > k => thread[n].kind = "USER"

\* Every message of an agent was written by the assignee of that moment: the
\* last to have started or taken over the conversation before it.
SpokenByAssignee ==
  \A h \in DOMAIN handoff :
    LET thread == handoff[h].thread IN
    \A n \in DOMAIN thread : thread[n].kind = "AGENT" =>
      \E k \in 1 .. n - 1 :
        /\ thread[k].kind \in {"CONNECTED", "TAKEOVER"}
        /\ thread[k].by = thread[n].by
        /\ \A m \in k + 1 .. n - 1 : thread[m].kind # "TAKEOVER"

\* A token leaves the server once: it is on the page or in one answer, though
\* a poll and a message of the page may both find the handoff without one.
OneHolder ==
  \A h \in DOMAIN handoff :
    LET answers == {r \in Requests : req[r].gives /\ req[r].h = h} IN
    /\ \A r, x \in answers : r = x
    /\ page.token = h => answers = {}

\* The gate never passes a message with the token of a conversation that goes
\* on to the bot, also when the feature has been switched off meanwhile.  (One
\* with a banned word does not reach the gate: a fixed text answers it.)
HolderNeverBot ==
  \A r \in Requests :
    LET q == req[r] IN
    q.kind = "send" /\ q.pc = "answer" /\ q.says = "bot" /\ q.token # 0 =>
      ~Active(handoff[q.token])

\* With no answer lost, what the cursor of a legacy conversation has passed was
\* shown or is in an answer on its way.
LegacyComplete ==
  left.faults = MaxFaults =>
    \A h \in DOMAIN handoff : handoff[h].mode = "LEGACY" =>
      \A k \in After(h, 0) : k =< handoff[h].delivered =>
        \/ <<h, k>> \in shown
        \/ \E r \in Requests : req[r].h = h /\ k \in req[r].got

\* On a page that holds the token of the only handoff, the cursor has passed
\* only messages that were shown, over lost answers, reloads and late answers,
\* unless a poll found more than a page of them to pass.
NothingSkipped ==
  latest = 1 /\ page.token = 1 /\ ~cut =>
    \A k \in After(1, 0) : k =< page.cursor => <<1, k>> \in shown

\* Every handoff ends once everybody has fallen silent, whether or not anyone
\* asks for it again.
HandoffsEnd ==
  \A h \in 1 .. MaxHandoffs :
    h \in DOMAIN handoff ~> h \in DOMAIN handoff /\ ~Active(handoff[h])

\* Raw text of ended handoffs is gone in the end, also what was stored after
\* the end.
RawGone ==
  <>[](\A h \in DOMAIN handoff : ~Active(handoff[h]) => ~handoff[h].raw)

\* A page that holds the token of a conversation nobody leads any more lets go
\* of it, unless requests fail, it is loaded again, or the channel is closed.
PageReturns ==
  page.token # 0 /\ ~HasActive ~>
    page.token = 0 \/ HasActive \/ ~open \/ left.faults < MaxFaults
=============================================================================
