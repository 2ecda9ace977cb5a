--------------------------- MODULE SerialExecutor ---------------------------
(* What a strand promises: the handlers given to it run one at a time, in    *)
(* the order in which they were given to it.                                 *)
EXTENDS Sequences

CONSTANTS Handlers, None
VARIABLES
  queue,    \* handlers that have not started
  running   \* the handler that runs, or None

Init == queue = <<>> /\ running = None

Submit(h) == queue' = Append(queue, h) /\ UNCHANGED running

Start ==
  /\ running = None /\ queue # <<>>
  /\ running' = Head(queue) /\ queue' = Tail(queue)

Finish == running # None /\ running' = None /\ UNCHANGED queue

Next == (\E h \in Handlers : Submit(h)) \/ Start \/ Finish
Spec == Init /\ [][Next]_<<queue, running>>
=============================================================================
