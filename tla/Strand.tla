------------------------------- MODULE Strand -------------------------------
(* strand_executor_service: a queue of handlers and the invoker that runs    *)
(* them, on whatever thread the inner executor runs it.  Here that executor  *)
(* is only a flag, scheduled; Scheduler puts the io_context in its place.     *)
EXTENDS Integers, Sequences

CONSTANTS
  Handlers,   \* the functions given to the strand
  Threads,    \* the threads that may run the invoker
  None

ASSUME NoneAssumption == None \notin Handlers

VARIABLES
  locked_, ready_queue_, waiting_queue_,   \* of strand_impl
  entering,    \* the handler that has locked the strand and is not in a queue yet
  scheduled,   \* an invoker was given to the inner executor and has not begun
  inv,         \* the invoker on a thread: "none", "loop", "exit" or "again"
  cur          \* the handler that runs on a thread, or None

strandVars == <<locked_, ready_queue_, waiting_queue_, entering, scheduled, inv, cur>>

StrandTypeOK ==
  /\ locked_ \in BOOLEAN /\ scheduled \in BOOLEAN
  /\ ready_queue_ \in Seq(Handlers) /\ waiting_queue_ \in Seq(Handlers)
  /\ entering \in Handlers \cup {None}
  /\ inv \in [Threads -> {"none", "loop", "exit", "again"}]
  /\ cur \in [Threads -> Handlers \cup {None}]

StrandInit ==
  /\ locked_ = FALSE /\ ready_queue_ = <<>> /\ waiting_queue_ = <<>>
  /\ entering = None /\ scheduled = FALSE
  /\ inv = [t \in Threads |-> "none"] /\ cur = [t \in Threads |-> None]

\* Mutant of TakesLock: the lock is looked at before the mutex is taken
BugTakesLock == entering = None /\ ready_queue_ = <<>>

TakesLock == ~locked_

\* enqueue: under the mutex
Enqueue(h) ==
  /\ IF TakesLock
     THEN locked_' = TRUE /\ entering' = h /\ UNCHANGED waiting_queue_
     ELSE waiting_queue_' = Append(waiting_queue_, h) /\ UNCHANGED <<locked_, entering>>
  /\ UNCHANGED <<ready_queue_, scheduled, inv, cur>>

\* ... and behind it, for the function that has taken the lock: it schedules the strand.
Entered ==
  /\ entering # None /\ ~scheduled
  /\ ready_queue_' = Append(ready_queue_, entering)
  /\ entering' = None /\ scheduled' = TRUE
  /\ UNCHANGED <<locked_, waiting_queue_, inv, cur>>

\* ... or, when a thread of the executor dispatches the function, runs the invoker at once.
EnteredInline(t) ==
  /\ entering # None /\ inv[t] = "none"
  /\ ready_queue_' = Append(ready_queue_, entering)
  /\ entering' = None /\ inv' = [inv EXCEPT ![t] = "loop"]
  /\ UNCHANGED <<locked_, waiting_queue_, scheduled, cur>>

\* invoker::operator()
InvokerBegins(t) ==
  /\ scheduled /\ inv[t] = "none"
  /\ scheduled' = FALSE /\ inv' = [inv EXCEPT ![t] = "loop"]
  /\ UNCHANGED <<locked_, ready_queue_, waiting_queue_, entering, cur>>

HandlerStarts(t) ==
  /\ inv[t] = "loop" /\ cur[t] = None /\ ready_queue_ # <<>>
  /\ cur' = [cur EXCEPT ![t] = Head(ready_queue_)]
  /\ ready_queue_' = Tail(ready_queue_)
  /\ UNCHANGED <<locked_, waiting_queue_, entering, scheduled, inv>>

\* A handler returns, or leaves the loop with an exception.
HandlerEnds(t) ==
  /\ cur[t] # None
  /\ cur' = [cur EXCEPT ![t] = None]
  /\ inv' \in {inv, [inv EXCEPT ![t] = "exit"]}
  /\ UNCHANGED <<locked_, ready_queue_, waiting_queue_, entering, scheduled>>

NothingReady(t) ==
  /\ inv[t] = "loop" /\ cur[t] = None /\ ready_queue_ = <<>>
  /\ inv' = [inv EXCEPT ![t] = "exit"]
  /\ UNCHANGED <<locked_, ready_queue_, waiting_queue_, entering, scheduled, cur>>

\* Mutant of StaysLocked: handlers that came in the meantime are not looked at
BugStaysLocked == ready_queue_ # <<>>

StaysLocked == ready_queue_ \o waiting_queue_ # <<>>

\* ~on_invoker_exit: under the mutex
InvokerExits(t) ==
  /\ inv[t] = "exit"
  /\ ready_queue_' = ready_queue_ \o waiting_queue_ /\ waiting_queue_' = <<>>
  /\ locked_' = StaysLocked
  /\ inv' = [inv EXCEPT ![t] = IF StaysLocked THEN "again" ELSE "none"]
  /\ UNCHANGED <<entering, scheduled, cur>>

\* ... and behind it, when there are more handlers
Rescheduled(t) ==
  /\ inv[t] = "again"
  /\ scheduled' = TRUE /\ inv' = [inv EXCEPT ![t] = "none"]
  /\ UNCHANGED <<locked_, ready_queue_, waiting_queue_, entering, cur>>

StrandNext ==
  \/ \E h \in Handlers : Enqueue(h)
  \/ Entered
  \/ \E t \in Threads : EnteredInline(t) \/ InvokerBegins(t) \/ HandlerStarts(t) \/ HandlerEnds(t)
                          \/ NothingReady(t) \/ InvokerExits(t) \/ Rescheduled(t)
StrandSpec == StrandInit /\ [][StrandNext]_strandVars

-----------------------------------------------------------------------------
(* The strand is a serial executor: what runs is what runs on any thread.    *)
Running == IF \E t \in Threads : cur[t] # None
           THEN cur[CHOOSE t \in Threads : cur[t] # None] ELSE None
Pending == ready_queue_ \o (IF entering = None THEN <<>> ELSE <<entering>>) \o waiting_queue_
Serial == INSTANCE SerialExecutor WITH queue <- Pending, running <- Running

\* Handlers run one at a time and in order, however the invoker moves between
\* threads, and no handler is forgotten when the invoker leaves.
ImplementsSerial == Serial!Spec

\* Two handlers of the strand never run at the same time, on which every composed
\* operation of a stream relies.
OneAtATime == \A s, t \in Threads : cur[s] # None /\ cur[t] # None => s = t

\* Whoever has locked the strand will run what is in it: exactly one of the poster,
\* the scheduled invoker and the running invoker exists while it is locked.
Holders == (IF entering # None THEN {"poster"} ELSE {}) \cup (IF scheduled THEN {"executor"} ELSE {})
             \cup {t \in Threads : inv[t] # "none"}
NobodyForgotten == ~locked_ => (ready_queue_ = <<>> /\ waiting_queue_ = <<>> /\ Holders = {})
=============================================================================
