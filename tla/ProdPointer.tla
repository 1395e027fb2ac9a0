----------------------------- MODULE ProdPointer -----------------------------
(***************************************************************************)
(* What the environments promise about the production pointer of one       *)
(* chatbot, without calls, reads or races: it moves in single steps, every *)
(* move is recorded with the version it left and the version it reached,   *)
(* and a second administrator's approval is spent by the move it allows.   *)
(***************************************************************************)
EXTENDS Naturals, Sequences

CONSTANTS
  Versions,  \* captured versions of the chatbot
  Off,       \* no pointer: the environments are not separated
  Asks       \* approval requests

VARIABLES
  prod,   \* the production pointer
  moves,  \* the record of its moves
  spent   \* approvals that have moved it

vars == <<prod, moves, spent>>

\* Not separated yet, or just separated.
Init ==
  /\ prod \in Versions \cup {Off}
  /\ moves = IF prod = Off THEN <<>> ELSE <<[from |-> Off, to |-> prod]>>
  /\ spent = {}

Record(v) ==
  /\ moves' = Append(moves, [from |-> prod, to |-> v])
  /\ prod' = v

Enable(v) == prod = Off /\ Record(v) /\ UNCHANGED spent

Disable == prod # Off /\ Record(Off) /\ UNCHANGED spent

MoveAlone(v) == prod # Off /\ Record(v) /\ UNCHANGED spent

MoveApproved(v, q) ==
  /\ prod # Off
  /\ q \notin spent
  /\ Record(v)
  /\ spent' = spent \cup {q}

Next ==
  \/ Disable
  \/ \E v \in Versions :
       \/ Enable(v)
       \/ MoveAlone(v)
       \/ \E q \in Asks : MoveApproved(v, q)

Spec == Init /\ [][Next]_vars
==============================================================================
