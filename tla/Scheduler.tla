----------------------------- MODULE Scheduler -----------------------------
(* detail::scheduler, the io_context under a strand: threads in run(), the   *)
(* queue they share, the reactor that one of them runs as a task, and the    *)
(* count of outstanding work that ends run().  Handlers reach the strand     *)
(* when their operation completes, and start further operations from there.  *)
EXTENDS Strand, FiniteSets, Functions

ASSUME OperationAssumption == "task" \notin Handlers /\ "invoker" \notin Handlers

VARIABLES
  op_queue_, stopped_, outstanding_work_, task_interrupted_,   \* of scheduler
  signalled,     \* posix_event: bit 0 of state_; the waiters are the threads below
  signals,       \* calls of pthread_cond_signal that an unlocked thread still owes
  interrupt,     \* the interrupter of the reactor is ready
  in_reactor,    \* operations that wait for an event
  unused,        \* operations that nobody has started
  pc,            \* where a thread is
  op,            \* the operation a thread completes
  private_op_queue, private_outstanding_work,                  \* of thread_info
  main           \* the thread that has made the io_context

queueVars == <<op_queue_, task_interrupted_, signalled, signals, interrupt>>
threadVars == <<pc, op, private_op_queue, private_outstanding_work>>
countVars == <<stopped_, outstanding_work_>>
sourceVars == <<in_reactor, unused>>
vars == <<strandVars, queueVars, threadVars, countVars, sourceVars, main>>

TypeOK ==
  /\ StrandTypeOK
  /\ op_queue_ \in Seq(Handlers \cup {"task", "invoker"})
  /\ {stopped_, task_interrupted_, signalled, interrupt} \subseteq BOOLEAN
  /\ outstanding_work_ \in Int /\ signals \in Nat
  /\ in_reactor \subseteq Handlers /\ unused \subseteq Handlers
  /\ pc \in [Threads -> {"loop", "asleep", "woken", "block", "poll", "back", "complete",
                         "enter", "invoke", "cleanup", "flush", "out"}]
  /\ op \in [Threads -> Handlers \cup {None}]
  /\ private_op_queue \in [Threads -> Seq(Handlers)]
  /\ private_outstanding_work \in [Threads -> Nat]
  /\ main \in {"open", "enter", "closed"}

\* The reactor's task is in the queue; main holds work while it posts.
Init ==
  /\ StrandInit
  /\ op_queue_ = <<"task">> /\ task_interrupted_ = TRUE
  /\ signalled = FALSE /\ signals = 0 /\ interrupt = FALSE
  /\ stopped_ = FALSE /\ outstanding_work_ = 1
  /\ in_reactor = {} /\ unused = Handlers
  /\ pc = [t \in Threads |-> "loop"] /\ op = [t \in Threads |-> None]
  /\ private_op_queue = [t \in Threads |-> <<>>]
  /\ private_outstanding_work = [t \in Threads |-> 0]
  /\ main = "open"

\* state_ / 2: a thread counts until it has the mutex again.
Waiting == {t \in Threads : pc[t] \in {"asleep", "woken"}}

\* wake_one_thread_and_unlock
Wake(waiters) ==
  /\ signalled' = TRUE
  /\ IF waiters # {}
     THEN signals' = signals + 1 /\ UNCHANGED <<task_interrupted_, interrupt>>
     ELSE /\ task_interrupted_' = TRUE /\ interrupt' = (interrupt \/ ~task_interrupted_)
          /\ UNCHANGED signals
Push(o) == op_queue_' = Append(op_queue_, o) /\ Wake(Waiting)

\* pthread_cond_signal, behind the unlock: no thread may be asleep any more.
SignalArrives ==
  /\ signals > 0 /\ signals' = signals - 1
  /\ IF \E t \in Threads : pc[t] = "asleep"
     THEN \E t \in Threads : pc[t] = "asleep" /\ pc' = [pc EXCEPT ![t] = "woken"]
     ELSE UNCHANGED pc
  /\ UNCHANGED <<strandVars, op_queue_, task_interrupted_, signalled, interrupt, op,
                 private_op_queue, private_outstanding_work, countVars, sourceVars, main>>

\* work_finished, which stops all threads when no work is left; newpc is what the
\* step does to the caller
WorkFinished(newpc) ==
  /\ outstanding_work_' = outstanding_work_ - 1
  /\ IF outstanding_work_ = 1
     THEN /\ stopped_' = TRUE /\ signalled' = TRUE
          /\ pc' = [t \in Threads |-> IF newpc[t] = "asleep" THEN "woken" ELSE newpc[t]]
          /\ task_interrupted_' = TRUE /\ interrupt' = (interrupt \/ ~task_interrupted_)
     ELSE pc' = newpc /\ UNCHANGED <<stopped_, signalled, task_interrupted_, interrupt>>

-----------------------------------------------------------------------------
(* do_run_one.  A thread that was woken has the mutex with the signal.       *)
InLoop(t) == pc[t] = "loop" \/ (pc[t] = "woken" /\ signalled)
Others(t) == Waiting \ {t}

Goes(t, where) == pc' = [pc EXCEPT ![t] = where]

Returns(t) ==
  /\ InLoop(t) /\ stopped_ /\ Goes(t, "out")
  /\ UNCHANGED <<strandVars, queueVars, op, private_op_queue, private_outstanding_work,
                 countVars, sourceVars, main>>

\* clear, then wait
Sleeps(t) ==
  /\ InLoop(t) /\ ~stopped_ /\ op_queue_ = <<>>
  /\ signalled' = FALSE /\ Goes(t, "asleep")
  /\ UNCHANGED <<strandVars, op_queue_, task_interrupted_, signals, interrupt, op,
                 private_op_queue, private_outstanding_work, countVars, sourceVars, main>>

SleepsOn(t) ==
  /\ pc[t] = "woken" /\ ~signalled /\ Goes(t, "asleep")
  /\ UNCHANGED <<strandVars, queueVars, op, private_op_queue, private_outstanding_work,
                 countVars, sourceVars, main>>

\* Mutant of MoreHandlers: the next thread is woken by whoever posts
BugMoreHandlers == FALSE

MoreHandlers == Tail(op_queue_) # <<>>

RunsTask(t) ==
  /\ InLoop(t) /\ ~stopped_ /\ op_queue_ # <<>> /\ Head(op_queue_) = "task"
  /\ op_queue_' = Tail(op_queue_) /\ task_interrupted_' = MoreHandlers
  /\ signalled' = (signalled \/ MoreHandlers)
  /\ signals' = IF MoreHandlers /\ Others(t) # {} THEN signals + 1 ELSE signals
  /\ Goes(t, IF MoreHandlers THEN "poll" ELSE "block")
  /\ UNCHANGED <<strandVars, interrupt, op, private_op_queue, private_outstanding_work,
                 countVars, sourceVars, main>>

\* An operation completes, or the invoker of the strand runs.
RunsHandler(t) ==
  /\ InLoop(t) /\ ~stopped_ /\ op_queue_ # <<>> /\ Head(op_queue_) # "task"
  /\ op_queue_' = Tail(op_queue_)
  /\ IF MoreHandlers THEN Wake(Others(t)) ELSE UNCHANGED <<task_interrupted_, signalled, signals, interrupt>>
  /\ IF Head(op_queue_) = "invoker"
     THEN InvokerBegins(t) /\ Goes(t, "invoke") /\ UNCHANGED op
     ELSE op' = [op EXCEPT ![t] = Head(op_queue_)] /\ Goes(t, "complete") /\ UNCHANGED strandVars
  /\ UNCHANGED <<private_op_queue, private_outstanding_work, countVars, sourceVars, main>>

\* reactor::run returns what is ready, in the order of the events; a blocking one
\* returns with an event or when it is interrupted.
TaskRun(t) ==
  /\ pc[t] \in {"poll", "block"}
  /\ \E n \in 0 .. Cardinality(in_reactor) : \E ready \in [1 .. n -> in_reactor] :
       /\ IsInjective(ready)
       /\ pc[t] = "block" => (n > 0 \/ interrupt)
       /\ in_reactor' = in_reactor \ Range(ready)
       /\ private_op_queue' = [private_op_queue EXCEPT ![t] = ready]
  /\ interrupt' = FALSE /\ Goes(t, "back")
  /\ UNCHANGED <<strandVars, op_queue_, task_interrupted_, signalled, signals, op,
                 private_outstanding_work, countVars, unused, main>>

TaskCleanup(t) ==
  /\ pc[t] = "back"
  /\ op_queue_' = op_queue_ \o private_op_queue[t] \o <<"task">>
  /\ private_op_queue' = [private_op_queue EXCEPT ![t] = <<>>]
  /\ task_interrupted_' = TRUE /\ Goes(t, "loop")
  /\ UNCHANGED <<strandVars, signalled, signals, interrupt, op, private_outstanding_work,
                 countVars, sourceVars, main>>

\* Mutant of Surplus: what a handler has posted on its own thread is not counted
BugSurplus(t) == -1

\* The work this thread has added less the work of the handler that has ended
Surplus(t) == private_outstanding_work[t] - 1

\* work_cleanup, first the count and then, under the mutex, the private queue
WorkCleanup(t) ==
  LET then == [pc EXCEPT ![t] = IF private_op_queue[t] = <<>> THEN "loop" ELSE "flush"]
  IN /\ pc[t] = "cleanup"
     /\ IF Surplus(t) < 0
        THEN WorkFinished(then)
        ELSE /\ outstanding_work_' = outstanding_work_ + Surplus(t) /\ pc' = then
             /\ UNCHANGED <<stopped_, signalled, task_interrupted_, interrupt>>
     /\ private_outstanding_work' = [private_outstanding_work EXCEPT ![t] = 0]
     /\ UNCHANGED <<strandVars, op_queue_, signals, op, private_op_queue, sourceVars, main>>

Flush(t) ==
  /\ pc[t] = "flush"
  /\ op_queue_' = op_queue_ \o private_op_queue[t]
  /\ private_op_queue' = [private_op_queue EXCEPT ![t] = <<>>] /\ Goes(t, "loop")
  /\ UNCHANGED <<strandVars, task_interrupted_, signalled, signals, interrupt, op,
                 private_outstanding_work, countVars, sourceVars, main>>

-----------------------------------------------------------------------------
(* The completion of an operation dispatches its handler through the strand. *)
Completes(t) ==
  /\ pc[t] = "complete"
  /\ Enqueue(op[t]) /\ op' = [op EXCEPT ![t] = None]
  /\ Goes(t, IF TakesLock THEN "enter" ELSE "cleanup")
  /\ UNCHANGED <<queueVars, private_op_queue, private_outstanding_work, countVars, sourceVars, main>>

EntersStrand(t) ==
  /\ pc[t] = "enter" /\ EnteredInline(t) /\ Goes(t, "invoke")
  /\ UNCHANGED <<queueVars, op, private_op_queue, private_outstanding_work, countVars, sourceVars, main>>

InvokerRuns(t) ==
  /\ pc[t] = "invoke"
  /\ HandlerStarts(t) \/ HandlerEnds(t) \/ NothingReady(t)
  /\ UNCHANGED <<queueVars, threadVars, countVars, sourceVars, main>>

InvokerLeaves(t) ==
  /\ pc[t] = "invoke" /\ InvokerExits(t)
  /\ Goes(t, IF StaysLocked THEN "invoke" ELSE "cleanup")
  /\ UNCHANGED <<queueVars, op, private_op_queue, private_outstanding_work, countVars, sourceVars, main>>

\* post of the invoker: post_immediate_completion, not as a continuation
InvokerPosted(t) ==
  /\ pc[t] = "invoke" /\ Rescheduled(t) /\ Goes(t, "cleanup")
  /\ Push("invoker") /\ outstanding_work_' = outstanding_work_ + 1
  /\ UNCHANGED <<op, private_op_queue, private_outstanding_work, stopped_, sourceVars, main>>

-----------------------------------------------------------------------------
(* What a handler does: h is a handler that nobody has used.                 *)
InHandler(t) == pc[t] = "invoke" /\ cur[t] # None

\* start_op and schedule_timer: the operation waits in the reactor.
HandlerWaits(t, h) ==
  /\ InHandler(t) /\ h \in unused /\ unused' = unused \ {h}
  /\ in_reactor' = in_reactor \cup {h} /\ outstanding_work_' = outstanding_work_ + 1
  /\ UNCHANGED <<strandVars, queueVars, threadVars, stopped_, main>>

\* start_op that is done at once, as the continuation it is: post_immediate_completion
HandlerContinues(t, h) ==
  /\ InHandler(t) /\ h \in unused /\ unused' = unused \ {h}
  /\ private_outstanding_work' = [private_outstanding_work EXCEPT ![t] = @ + 1]
  /\ private_op_queue' = [private_op_queue EXCEPT ![t] = Append(@, h)]
  /\ UNCHANGED <<strandVars, queueVars, pc, op, countVars, in_reactor, main>>

\* A handler posts to its own strand.
HandlerPosts(t, h) ==
  /\ InHandler(t) /\ h \in unused /\ unused' = unused \ {h} /\ ~TakesLock
  /\ Enqueue(h)
  /\ UNCHANGED <<queueVars, threadVars, countVars, in_reactor, main>>

\* cancel: post_deferred_completions
HandlerCancels(t, h) ==
  /\ InHandler(t) /\ h \in in_reactor /\ in_reactor' = in_reactor \ {h}
  /\ Push(h)
  /\ UNCHANGED <<strandVars, threadVars, countVars, unused, main>>

(* The main thread, which keeps run() going until it has posted all it will. *)
MainWaits(h) ==
  /\ main = "open" /\ h \in unused /\ unused' = unused \ {h}
  /\ in_reactor' = in_reactor \cup {h} /\ outstanding_work_' = outstanding_work_ + 1
  /\ UNCHANGED <<strandVars, queueVars, threadVars, stopped_, main>>

MainPosts(h) ==
  /\ main = "open" /\ h \in unused /\ unused' = unused \ {h}
  /\ Enqueue(h) /\ main' = IF TakesLock THEN "enter" ELSE "open"
  /\ UNCHANGED <<queueVars, threadVars, countVars, in_reactor>>

MainEnters ==
  /\ main = "enter" /\ Entered /\ main' = "open"
  /\ Push("invoker") /\ outstanding_work_' = outstanding_work_ + 1
  /\ UNCHANGED <<threadVars, stopped_, sourceVars>>

MainCloses ==
  /\ main = "open" /\ main' = "closed" /\ WorkFinished(pc)
  /\ UNCHANGED <<strandVars, op_queue_, signals, op, private_op_queue,
                 private_outstanding_work, sourceVars>>

AllReturned == (\A t \in Threads : pc[t] = "out") /\ main = "closed" /\ UNCHANGED vars

Step(t) ==
  \/ Returns(t) \/ Sleeps(t) \/ SleepsOn(t) \/ RunsTask(t) \/ RunsHandler(t)
  \/ TaskRun(t) \/ TaskCleanup(t) \/ WorkCleanup(t) \/ Flush(t)
  \/ Completes(t) \/ EntersStrand(t) \/ InvokerRuns(t) \/ InvokerLeaves(t) \/ InvokerPosted(t)
Acts(t, h) ==
  HandlerWaits(t, h) \/ HandlerContinues(t, h) \/ HandlerPosts(t, h) \/ HandlerCancels(t, h)

Next ==
  \/ SignalArrives \/ MainEnters \/ MainCloses \/ AllReturned
  \/ \E h \in Handlers : MainWaits(h) \/ MainPosts(h)
  \/ \E t \in Threads : Step(t) \/ \E h \in Handlers : Acts(t, h)

Spec == Init /\ [][Next]_vars

-----------------------------------------------------------------------------
(* Threads, signals and the poster are scheduled; the reactor owes nothing,  *)
(* so a thread is not bound to leave it but for an interrupt.                *)
Scheduled(t) == Step(t) /\ (pc[t] = "block" => interrupt)
FairSpec ==
  /\ Spec /\ WF_vars(SignalArrives) /\ WF_vars(MainEnters)
  /\ \A t \in Threads : WF_vars(Scheduled(t))

\* No handler and not the reactor waits in the queue while a thread is idle, unless a
\* thread that runs no handler, or a signal, is on its way to the queue.
Idle(t) == pc[t] = "asleep" \/ (pc[t] = "block" /\ ~interrupt)
Coming(t) ==
  \/ pc[t] \in {"loop", "poll", "back", "cleanup", "flush"}
  \/ pc[t] = "woken" /\ signalled
  \/ pc[t] = "block" /\ interrupt
NoLostWakeup ==
  op_queue_ # <<>> /\ ~stopped_ /\ (\E t \in Threads : Idle(t)) =>
     \/ \E t \in Threads : Coming(t)
     \/ signals > 0 /\ signalled /\ \E t \in Threads : pc[t] = "asleep"

\* The count of outstanding work lets run() return only when nothing is left to run
\* or to wait for: not in the queue, in a thread, in the reactor or in the strand.
RunsOut ==
  stopped_ =>
    /\ main = "closed" /\ in_reactor = {} /\ ~locked_
    /\ op_queue_ \in {<<>>, <<"task">>}
    /\ \A t \in Threads : private_op_queue[t] = <<>> /\ op[t] = None /\ cur[t] = None

\* A handler whose operation is complete runs, on some thread and in the strand.
Ready(h) ==
  \/ h = entering
  \/ \E i \in DOMAIN op_queue_ : op_queue_[i] = h
  \/ \E i \in DOMAIN ready_queue_ : ready_queue_[i] = h
  \/ \E i \in DOMAIN waiting_queue_ : waiting_queue_[i] = h
  \/ \E t \in Threads : op[t] = h \/ \E i \in DOMAIN private_op_queue[t] : private_op_queue[t][i] = h
EveryHandlerRuns == \A h \in Handlers : Ready(h) ~> \E t \in Threads : cur[t] = h
=============================================================================
