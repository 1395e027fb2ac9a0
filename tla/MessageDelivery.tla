--------------------------- MODULE MessageDelivery ---------------------------
(***************************************************************************)
(* What the outbox promises about each message, without leases, instances  *)
(* or calls.  A message lives its life alone; a step of the system may     *)
(* move several.  The receiver may accept a message only while it is being *)
(* sent and while every acceptance so far went unheard; a message is       *)
(* reported as sent exactly if its last acceptance was heard, and then or  *)
(* when it is dropped its life is over.                                    *)
(***************************************************************************)
EXTENDS Naturals

CONSTANT Messages

VARIABLE life  \* per message: its stage, and how often the receiver accepted
               \* it in all and without the sender ever hearing of it

Stages == {"none", "waiting", "sending", "sent", "failed", "dropped"}

Lives == [stage : Stages, received : Nat, unheard : Nat]

Unborn == [stage |-> "none", received |-> 0, unheard |-> 0]

Init == life = [m \in Messages |-> Unborn]

\* The sender is about to hear of an acceptance.
Heard(x) == x.received > x.unheard

Moves(x, y, from, to) ==
  /\ x.stage \in from /\ y.stage \in to
  /\ y.received = x.received /\ y.unheard = x.unheard

\* A message is admitted, or skipped at once.
Enter(x, y) == Moves(x, y, {"none"}, {"waiting", "dropped"})

Begin(x, y) == Moves(x, y, {"waiting"}, {"sending"})

\* The receiver accepts; the answer is on its way or comes too late.
Deliver(x, y) ==
  /\ x.stage = "sending" /\ y.stage = "sending"
  /\ ~ Heard(x)
  /\ y.received = x.received + 1
  /\ y.unheard \in {x.unheard, y.received}

\* The answer is lost with the sender that was about to record it.
Forget(x, y) ==
  /\ x.stage = "sending" /\ y.stage = "sending"
  /\ Heard(x)
  /\ y.received = x.received /\ y.unheard = x.received

Report(x, y) ==
  Moves(x, y, {"sending"}, IF Heard(x) THEN {"sent"} ELSE {"waiting", "failed"})

\* Cancelled, expired, or its target is gone or switched off.
Drop(x, y) == Moves(x, y, {"waiting"}, {"dropped"})

\* An administrator has a failed message sent again.
Resend(x, y) == Moves(x, y, {"failed"}, {"waiting"})

Step(x, y) ==
  \/ Enter(x, y) \/ Begin(x, y) \/ Deliver(x, y) \/ Forget(x, y)
  \/ Report(x, y) \/ Drop(x, y) \/ Resend(x, y)

Next ==
  /\ life' \in [Messages -> Lives]
  /\ \A m \in Messages : life'[m] = life[m] \/ Step(life[m], life'[m])

Spec == Init /\ [][Next]_life
==============================================================================
