------------------------------ MODULE VideoFifo -----------------------------
(***************************************************************************)
(* What a V4L2 streaming queue promises its client, with no lock, thread   *)
(* or device in sight: buffers are completed in the order they were        *)
(* queued, returned in that order, each at most once, and only by a        *)
(* queue that streams; stopping hands everything back at once.             *)
(***************************************************************************)
EXTENDS Integers, Sequences

CONSTANT Buffer

VARIABLES
  fifo,   \* the queued buffers, oldest first: [buf, ready]
  on      \* the queue streams

fvars == <<fifo, on>>

TypeOK ==
  /\ fifo \in Seq([buf : Buffer, ready : BOOLEAN])
  /\ on \in BOOLEAN

Init ==
  /\ fifo = <<>>
  /\ on = FALSE

Put(b) ==
  /\ \A i \in DOMAIN fifo : fifo[i].buf # b
  /\ fifo' = Append(fifo, [buf |-> b, ready |-> FALSE])
  /\ on' = on

Complete ==
  /\ on
  /\ \E i \in DOMAIN fifo :
       /\ ~fifo[i].ready
       /\ \A j \in 1 .. i - 1 : fifo[j].ready
       /\ fifo' = [fifo EXCEPT ![i] = [buf |-> fifo[i].buf, ready |-> TRUE]]
  /\ on' = on

Take ==
  /\ fifo # <<>>
  /\ Head(fifo).ready
  /\ fifo' = Tail(fifo)
  /\ on' = on

Start ==
  /\ on' = TRUE
  /\ fifo' = fifo

Stop ==
  /\ on' = FALSE
  /\ fifo' = <<>>

Next == (\E b \in Buffer : Put(b)) \/ Complete \/ Take \/ Start \/ Stop

Spec == Init /\ [][Next]_fvars
=============================================================================
