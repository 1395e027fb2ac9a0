----------------------------- MODULE ScheduleLife -----------------------------
(***************************************************************************)
(* What the scheduler promises about each schedule, without clock, leases, *)
(* instances or console requests.  One schedule of a chatbot runs at a     *)
(* time; its change is committed while it runs and at most once; a run is  *)
(* reported as what it was; what has ended stays as it ended.              *)
(***************************************************************************)
EXTENDS Naturals

CONSTANT Schedules

VARIABLE life  \* per schedule: its stage, whether its commits leave a trace,
               \* and how many there were

Stages == {"none", "waiting", "held", "running", "applied", "unchanged",
           "failed", "missed", "cancelled"}

Lives == [stage : Stages, traced : BOOLEAN, commits : Nat]

Unborn == [stage |-> "none", traced |-> FALSE, commits |-> 0]

Init == life = [s \in Schedules |-> Unborn]

Moves(x, y, from, to) ==
  /\ x.stage \in from /\ y.stage \in to
  /\ y.traced = x.traced /\ y.commits = x.commits

Confirm(x, y) ==
  x.stage = "none" /\ y.stage = "waiting" /\ y.commits = x.commits

\* Held behind a failure or by an administrator's change, and resumed.
Hold(x, y) == Moves(x, y, {"waiting"}, {"held"})
Resume(x, y) == Moves(x, y, {"held"}, {"waiting"})

Start(x, y) == Moves(x, y, {"waiting"}, {"running"})

Commit(x, y) ==
  /\ x.stage = "running" /\ y.stage = "running" /\ y.traced = x.traced
  /\ x.commits = 0 /\ y.commits = 1

\* With a trace the report is the truth; without one a recovery can only compare
\* the content, but nothing that was committed is ever put back to wait.
Report(x, y) ==
  /\ Moves(x, y, {"running"}, {"applied", "unchanged", "failed", "waiting"})
  /\ x.traced => (y.stage = "applied" <=> x.commits = 1)
  /\ y.stage = "waiting" => x.commits = 0

\* Its time, or the time for retries, has passed.
GiveUp(x, y) == Moves(x, y, {"waiting"}, {"missed", "failed"})

Cancel(x, y) == Moves(x, y, {"waiting", "held"}, {"cancelled"})

Step(x, y) ==
  \/ Confirm(x, y) \/ Hold(x, y) \/ Resume(x, y) \/ Start(x, y)
  \/ Commit(x, y) \/ Report(x, y) \/ GiveUp(x, y) \/ Cancel(x, y)

\* One step may move several schedules, but it starts one at most and none
\* while another runs.
Next ==
  /\ life' \in [Schedules -> Lives]
  /\ \A s \in Schedules : life'[s] = life[s] \/ Step(life[s], life'[s])
  /\ \A s, t \in Schedules :
       Start(life[s], life'[s]) /\ t # s =>
         life[t].stage # "running" /\ life'[t].stage # "running"

Spec == Init /\ [][Next]_life
==============================================================================
