--------------------------- MODULE SchedulerProofs ---------------------------
(* The strand and the io_context under it, for any number of threads and
   operations.

   A strand is a serial executor.  The proof rests on who holds a locked strand:
   the function that has locked it and not yet given the invoker to the executor,
   the executor, or a thread that runs the invoker.  There is one while the strand
   is locked, and none while it is not; what it leaves behind is then empty.

   An io_context runs a strand as Strand says it is run, so that what it runs is
   serial; and it never leaves an operation in its queue while a thread sleeps
   that nobody will wake.  The second proof rests on the reactor's task being at
   one place only, and on a thread that blocks in it being the one
   task_interrupted_ speaks of.

   outstanding_work_ is the number of the things that are still to be done.  The
   proof names them, as sets, and shows that no operation is at two places; so
   that run() returns when nothing is left, and not before.                    *)
EXTENDS Scheduler, SequenceTheorems, FiniteSetTheorems, TLAPS

OneHolder ==
  /\ entering # None => ~scheduled /\ ready_queue_ = <<>> /\ \A t \in Threads : inv[t] = "none"
  /\ scheduled => \A t \in Threads : inv[t] = "none"
  /\ \A s, t \in Threads : inv[s] # "none" /\ inv[t] # "none" => s = t

Unlocked ==
  ~locked_ => /\ ready_queue_ = <<>> /\ waiting_queue_ = <<>>
              /\ entering = None /\ ~scheduled /\ \A t \in Threads : inv[t] = "none"

InStrand == \A t \in Threads : cur[t] # None => inv[t] = "loop"

Inv == StrandTypeOK /\ OneHolder /\ Unlocked /\ InStrand

-----------------------------------------------------------------------------
(* The invariant holds at the start and is preserved.                        *)
LEMMA StrandStarts == StrandInit => Inv
  BY EmptySeq DEF StrandInit, Inv, StrandTypeOK, OneHolder, Unlocked, InStrand

LEMMA EnqueueKeeps ==
  ASSUME Inv, NEW h \in Handlers, Enqueue(h)
  PROVE  Inv'
<1>1. CASE TakesLock
  BY <1>1, NoneAssumption
  DEF Enqueue, TakesLock, Inv, StrandTypeOK, OneHolder, Unlocked, InStrand
<1>2. CASE ~TakesLock
  <2>1. waiting_queue_' \in Seq(Handlers)
    BY <1>2, AppendProperties DEF Enqueue, Inv, StrandTypeOK
  <2> QED
    BY <1>2, <2>1 DEF Enqueue, TakesLock, Inv, StrandTypeOK, OneHolder, Unlocked, InStrand
<1> QED
  BY <1>1, <1>2

LEMMA EnteredKeeps ==
  ASSUME Inv, Entered \/ \E t \in Threads : EnteredInline(t)
  PROVE  Inv'
<1>1. entering \in Handlers /\ locked_
  BY DEF Entered, EnteredInline, Inv, StrandTypeOK, Unlocked
<1>2. ready_queue_' \in Seq(Handlers)
  <2>1. ready_queue_' = Append(ready_queue_, entering)
    BY DEF Entered, EnteredInline
  <2> QED
    BY <1>1, <2>1, AppendProperties DEF Inv, StrandTypeOK
<1>3. CASE Entered
  BY <1>1, <1>2, <1>3 DEF Entered, Inv, StrandTypeOK, OneHolder, Unlocked, InStrand
<1>4. ASSUME NEW t \in Threads, EnteredInline(t)
      PROVE  Inv'
  BY <1>1, <1>2, <1>4 DEF EnteredInline, Inv, StrandTypeOK, OneHolder, Unlocked, InStrand
<1> QED
  BY <1>3, <1>4

LEMMA InvokerKeeps ==
  ASSUME Inv, NEW t \in Threads,
         InvokerBegins(t) \/ HandlerEnds(t) \/ NothingReady(t) \/ Rescheduled(t)
  PROVE  Inv'
<1>1. CASE InvokerBegins(t)
  BY <1>1 DEF InvokerBegins, Inv, StrandTypeOK, OneHolder, Unlocked, InStrand
<1>2. CASE HandlerEnds(t)
  BY <1>2 DEF HandlerEnds, Inv, StrandTypeOK, OneHolder, Unlocked, InStrand
<1>3. CASE NothingReady(t)
  BY <1>3 DEF NothingReady, Inv, StrandTypeOK, OneHolder, Unlocked, InStrand
<1>4. CASE Rescheduled(t)
  BY <1>4 DEF Rescheduled, Inv, StrandTypeOK, OneHolder, Unlocked, InStrand
<1> QED
  BY <1>1, <1>2, <1>3, <1>4

LEMMA HandlerStartKeeps ==
  ASSUME Inv, NEW t \in Threads, HandlerStarts(t)
  PROVE  Inv'
<1>1. Head(ready_queue_) \in Handlers /\ ready_queue_' \in Seq(Handlers)
  BY HeadTailProperties DEF HandlerStarts, Inv, StrandTypeOK
<1> QED
  BY <1>1 DEF HandlerStarts, Inv, StrandTypeOK, OneHolder, Unlocked, InStrand

LEMMA ExitKeeps ==
  ASSUME Inv, NEW t \in Threads, InvokerExits(t)
  PROVE  Inv'
<1>1. ready_queue_' \in Seq(Handlers) /\ waiting_queue_' \in Seq(Handlers)
  BY ConcatProperties, EmptySeq DEF InvokerExits, Inv, StrandTypeOK
<1>2. StaysLocked \in BOOLEAN /\ (~StaysLocked => ready_queue_' = <<>>)
  BY DEF InvokerExits, StaysLocked
<1> QED
  BY <1>1, <1>2 DEF InvokerExits, Inv, StrandTypeOK, OneHolder, Unlocked, InStrand

LEMMA StrandKeeps == Inv /\ [StrandNext]_strandVars => Inv'
<1> SUFFICES ASSUME Inv, [StrandNext]_strandVars
             PROVE  Inv'
  OBVIOUS
<1>1. CASE UNCHANGED strandVars
  BY <1>1 DEF strandVars, Inv, StrandTypeOK, OneHolder, Unlocked, InStrand
<1> QED
  BY <1>1, EnqueueKeeps, EnteredKeeps, InvokerKeeps, HandlerStartKeeps, ExitKeeps DEF StrandNext

THEOREM StrandInvariant == StrandSpec => []Inv
  BY StrandStarts, StrandKeeps, PTL DEF StrandSpec

-----------------------------------------------------------------------------
\* Two functions of one strand never run at the same time, whichever threads
\* run the invoker and however they leave it.
THEOREM StrandOneAtATime == StrandSpec => []OneAtATime
<1>1. Inv => OneAtATime
  BY DEF Inv, InStrand, OneHolder, OneAtATime
<1> QED
  BY <1>1, StrandInvariant, PTL

\* When the strand is unlocked nothing is left in its queues, so that no
\* function waits for an invoker that nobody will schedule.
THEOREM StrandNobodyForgotten == StrandSpec => []NobodyForgotten
<1>1. Inv => NobodyForgotten
  BY DEF Inv, Unlocked, NobodyForgotten, Holders
<1> QED
  BY <1>1, StrandInvariant, PTL

\* Whoever holds a locked strand exists.
Held == locked_ => entering # None \/ scheduled \/ \E t \in Threads : inv[t] # "none"

(* A locked strand keeps a holder.                                           *)
LEMMA HeldKeeps ==
  ASSUME Inv, Held, [StrandNext]_strandVars
  PROVE  Held'
<1> USE DEF Held, Inv, StrandTypeOK
<1>1. ASSUME NEW h \in Handlers, Enqueue(h)
      PROVE  Held'
  BY <1>1, NoneAssumption DEF Enqueue
<1>2. CASE Entered
  BY <1>2 DEF Entered
<1>3. ASSUME NEW t \in Threads,
             \/ EnteredInline(t) \/ InvokerBegins(t) \/ HandlerStarts(t) \/ NothingReady(t) \/ Rescheduled(t)
      PROVE  Held'
  BY <1>3 DEF EnteredInline, InvokerBegins, HandlerStarts, NothingReady, Rescheduled
<1>4. ASSUME NEW t \in Threads, HandlerEnds(t)
      PROVE  Held'
  BY <1>4 DEF HandlerEnds, InStrand
<1>5. ASSUME NEW t \in Threads, InvokerExits(t)
      PROVE  Held'
  BY <1>5 DEF InvokerExits
<1>6. CASE UNCHANGED strandVars
  BY <1>6 DEF strandVars
<1> QED
  BY <1>1, <1>2, <1>3, <1>4, <1>5, <1>6 DEF StrandNext

\* A strand is locked exactly as long as somebody has to run what is in it: the
\* function that has locked it, the executor that was given the invoker, or the
\* thread that runs it.
THEOREM StrandLockedWhileHeld == StrandSpec => [](locked_ <=> Holders # {})
<1>1. Inv /\ Held => (locked_ <=> Holders # {})
  BY DEF Inv, Unlocked, Held, Holders
<1>2. StrandInit => Held
  BY DEF StrandInit, Held
<1> QED
  BY <1>1, <1>2, StrandInvariant, HeldKeeps, PTL DEF StrandSpec

-----------------------------------------------------------------------------
LEMMA ConcatHeadTail ==
  ASSUME NEW S, NEW s \in Seq(S), NEW r \in Seq(S), s # <<>>
  PROVE  s \o r # <<>> /\ Head(s \o r) = Head(s) /\ Tail(s \o r) = Tail(s) \o r
<1>1. s \o r \in Seq(S) /\ Len(s \o r) = Len(s) + Len(r) /\ Len(s) > 0
  BY ConcatProperties, EmptySeq
<1>2. s \o r # <<>>
  BY <1>1
<1>3. Head(s \o r) = Head(s)
  BY <1>1, <1>2, ConcatProperties
<1>4. Tail(s) \in Seq(S) /\ Tail(s \o r) \in Seq(S) /\ Tail(s) \o r \in Seq(S)
  BY <1>1, <1>2, HeadTailProperties, ConcatProperties
<1>5. Len(Tail(s \o r)) = Len(s) + Len(r) - 1 /\ Len(Tail(s) \o r) = Len(s) + Len(r) - 1
  BY <1>1, <1>2, HeadTailProperties, ConcatProperties
<1>6. \A i \in 1 .. (Len(s) + Len(r) - 1) : Tail(s \o r)[i] = (Tail(s) \o r)[i]
  BY <1>1, <1>2, HeadTailProperties, ConcatProperties
<1>7. Tail(s \o r) = Tail(s) \o r
  BY <1>4, <1>5, <1>6, SeqEqual
<1> QED
  BY <1>2, <1>3, <1>7

-----------------------------------------------------------------------------
(* The refinement.  Only the thread in the invoker has a running function.   *)
Middle == IF entering = None THEN <<>> ELSE <<entering>>

LEMMA RunningIs ==
  ASSUME Inv
  PROVE  /\ \A t \in Threads : cur[t] # None => Running = cur[t]
         /\ (\A t \in Threads : cur[t] = None) => Running = None
<1>1. ASSUME NEW t \in Threads, cur[t] # None
      PROVE  Running = cur[t]
  <2>1. \A s \in Threads : cur[s] # None => s = t
    BY <1>1 DEF Inv, InStrand, OneHolder
  <2>2. (CHOOSE s \in Threads : cur[s] # None) = t
    BY <1>1, <2>1
  <2> QED
    BY <1>1, <2>2 DEF Running
<1> QED
  BY <1>1 DEF Running

LEMMA SeqsAre ==
  ASSUME Inv
  PROVE  /\ Middle \in Seq(Handlers) /\ ready_queue_ \in Seq(Handlers) /\ waiting_queue_ \in Seq(Handlers)
         /\ Pending = (ready_queue_ \o Middle) \o waiting_queue_
         /\ Pending = ready_queue_ \o (Middle \o waiting_queue_)
         /\ ready_queue_ \o Middle \in Seq(Handlers) /\ Middle \o waiting_queue_ \in Seq(Handlers)
<1>1. Middle \in Seq(Handlers)
  BY EmptySeq DEF Middle, Inv, StrandTypeOK
<1>2. ready_queue_ \in Seq(Handlers) /\ waiting_queue_ \in Seq(Handlers)
  BY DEF Inv, StrandTypeOK
<1>3. Pending = (ready_queue_ \o Middle) \o waiting_queue_
  <2>1. (ready_queue_ \o Middle) \o waiting_queue_ = ready_queue_ \o (Middle \o waiting_queue_)
    BY <1>1, <1>2, ConcatAssociative
  <2> QED
    BY <2>1 DEF Pending, Middle
<1>4. Pending = ready_queue_ \o (Middle \o waiting_queue_)
  BY <1>1, <1>2, <1>3, ConcatAssociative
<1>5. ready_queue_ \o Middle \in Seq(Handlers) /\ Middle \o waiting_queue_ \in Seq(Handlers)
  BY <1>1, <1>2, ConcatProperties
<1> QED
  BY <1>1, <1>2, <1>3, <1>4, <1>5

LEMMA EnqueueSubmits ==
  ASSUME Inv, Inv', NEW h \in Handlers, Enqueue(h)
  PROVE  Serial!Submit(h)
<1>1. Running' = Running
  BY DEF Running, Enqueue
<1>2. CASE TakesLock
  <2>1. ready_queue_ = <<>> /\ waiting_queue_ = <<>> /\ entering = None
    BY <1>2 DEF TakesLock, Inv, Unlocked
  <2>2. ready_queue_' = <<>> /\ waiting_queue_' = <<>> /\ entering' = h /\ h # None
    BY <1>2, <2>1, NoneAssumption DEF Enqueue
  <2>3. <<>> \o <<>> = <<>> /\ <<>> \o <<h>> = <<h>> /\ <<h>> \o <<>> = <<h>>
    <3>1. <<h>> \in Seq(Handlers) /\ <<>> \in Seq(Handlers)
      BY EmptySeq
    <3> QED
      BY <3>1, ConcatEmptySeq
  <2>4. Pending = <<>> /\ Pending' = <<h>>
    BY <2>1, <2>2, <2>3 DEF Pending
  <2>5. Append(<<>>, h) = <<h>>
    <3>1. Append(<<>>, h) = <<>> \o <<h>>
      BY EmptySeq, AppendIsConcat
    <3> QED
      BY <2>3, <3>1
  <2> QED
    BY <1>1, <2>4, <2>5 DEF Serial!Submit
<1>3. CASE ~TakesLock
  <2>1. Pending' = (ready_queue_ \o Middle) \o Append(waiting_queue_, h)
    BY <1>3, SeqsAre DEF Pending, Middle, Enqueue
  <2>2. Append(waiting_queue_, h) = waiting_queue_ \o <<h>> /\ <<h>> \in Seq(Handlers)
    BY SeqsAre, AppendIsConcat
  <2>3. Pending' = ((ready_queue_ \o Middle) \o waiting_queue_) \o <<h>>
    BY <2>1, <2>2, SeqsAre, ConcatAssociative
  <2>4. Pending \in Seq(Handlers) /\ Pending = (ready_queue_ \o Middle) \o waiting_queue_
    BY SeqsAre, ConcatProperties
  <2>5. Append(Pending, h) = Pending \o <<h>>
    BY <2>4, AppendIsConcat
  <2> QED
    BY <1>1, <2>3, <2>4, <2>5 DEF Serial!Submit
<1> QED
  BY <1>2, <1>3

LEMMA EnteredStutters ==
  ASSUME Inv, Inv', Entered \/ \E t \in Threads : EnteredInline(t)
  PROVE  UNCHANGED <<Pending, Running>>
<1>1. Running' = Running
  BY DEF Running, Entered, EnteredInline
<1>2. ready_queue_ = <<>> /\ entering \in Handlers
  BY DEF Inv, StrandTypeOK, OneHolder, Entered, EnteredInline
<1>3. ready_queue_' = <<entering>> /\ entering' = None /\ waiting_queue_' = waiting_queue_
  BY <1>2 DEF Entered, EnteredInline
<1>4. Pending = (<<>> \o <<entering>>) \o waiting_queue_
  BY <1>2, NoneAssumption DEF Pending, Entered, EnteredInline
<1>5. Pending' = (<<entering>> \o <<>>) \o waiting_queue_
  BY <1>3 DEF Pending
<1>6. <<>> \o <<entering>> = <<entering>> \o <<>>
  BY <1>2, ConcatEmptySeq
<1> QED
  BY <1>1, <1>4, <1>5, <1>6

LEMMA StartStarts ==
  ASSUME Inv, Inv', NEW t \in Threads, HandlerStarts(t)
  PROVE  Serial!Start
<1>1. \A s \in Threads : cur[s] = None
  BY DEF Inv, InStrand, OneHolder, HandlerStarts
<1>2. Running = None
  BY <1>1, RunningIs
<1>3. Head(ready_queue_) \in Handlers /\ Tail(ready_queue_) \in Seq(Handlers)
  BY SeqsAre, HeadTailProperties DEF HandlerStarts
<1>4. cur'[t] = Head(ready_queue_) /\ cur'[t] # None
  <2>1. cur'[t] = Head(ready_queue_)
    BY DEF HandlerStarts, Inv, StrandTypeOK
  <2> QED
    BY <1>3, <2>1, NoneAssumption
<1>5. Running' = Head(ready_queue_)
  <2>1. \A s \in Threads : cur'[s] # None => s = t
    BY <1>1 DEF HandlerStarts, Inv, StrandTypeOK
  <2>2. (CHOOSE s \in Threads : cur'[s] # None) = t
    BY <1>4, <2>1
  <2> QED
    BY <1>4, <2>2 DEF Running
<1>6. Pending = ready_queue_ \o (Middle \o waiting_queue_) /\ Middle' = Middle
      /\ waiting_queue_' = waiting_queue_ /\ ready_queue_' = Tail(ready_queue_)
  BY SeqsAre DEF HandlerStarts, Middle
<1>7. Pending' = Tail(ready_queue_) \o (Middle \o waiting_queue_)
  <2>1. Pending' = (Tail(ready_queue_) \o Middle) \o waiting_queue_
    BY <1>6 DEF Pending, Middle
  <2> QED
    BY <1>3, <2>1, SeqsAre, ConcatAssociative
<1>8. Pending # <<>> /\ Head(Pending) = Head(ready_queue_) /\ Tail(Pending) = Tail(ready_queue_) \o (Middle \o waiting_queue_)
  BY <1>6, SeqsAre, ConcatHeadTail DEF HandlerStarts
<1> QED
  BY <1>2, <1>5, <1>7, <1>8 DEF Serial!Start

LEMMA EndFinishes ==
  ASSUME Inv, Inv', NEW t \in Threads, HandlerEnds(t)
  PROVE  Serial!Finish
<1>1. Running # None
  BY RunningIs DEF HandlerEnds
<1>2. \A s \in Threads : cur'[s] = None
  BY DEF Inv, StrandTypeOK, InStrand, OneHolder, HandlerEnds
<1>3. Running' = None
  BY <1>2 DEF Running
<1>4. Pending' = Pending
  BY DEF Pending, HandlerEnds
<1> QED
  BY <1>1, <1>3, <1>4 DEF Serial!Finish

LEMMA OthersStutter ==
  ASSUME Inv, Inv', NEW t \in Threads,
         InvokerBegins(t) \/ NothingReady(t) \/ InvokerExits(t) \/ Rescheduled(t)
  PROVE  UNCHANGED <<Pending, Running>>
<1>1. Running' = Running
  BY DEF Running, InvokerBegins, NothingReady, InvokerExits, Rescheduled
<1>2. CASE InvokerExits(t)
  <2>1. entering = None /\ entering' = None
    BY <1>2 DEF Inv, OneHolder, InvokerExits
  <2>2. Pending = (ready_queue_ \o <<>>) \o waiting_queue_
        /\ Pending' = ((ready_queue_ \o waiting_queue_) \o <<>>) \o <<>>
    BY <1>2, <2>1 DEF Pending, InvokerExits
  <2>3. ready_queue_ \o waiting_queue_ \in Seq(Handlers)
    BY SeqsAre, ConcatProperties
  <2> QED
    BY <1>1, <2>2, <2>3, SeqsAre, ConcatEmptySeq
<1>3. CASE InvokerBegins(t) \/ NothingReady(t) \/ Rescheduled(t)
  BY <1>1, <1>3 DEF Pending, InvokerBegins, NothingReady, Rescheduled
<1> QED
  BY <1>2, <1>3

\* What runs in a strand runs one at a time and in the order in which it was
\* given to the strand: the strand is a SerialExecutor.
THEOREM StrandImplementsSerial == StrandSpec => ImplementsSerial
<1>1. StrandInit => Serial!Init
  BY ConcatEmptySeq, EmptySeq DEF StrandInit, Serial!Init, Pending, Running
<1>2. Inv /\ Inv' /\ [StrandNext]_strandVars => [Serial!Next]_<<Pending, Running>>
  <2> SUFFICES ASSUME Inv, Inv', [StrandNext]_strandVars
               PROVE  [Serial!Next]_<<Pending, Running>>
    OBVIOUS
  <2>1. CASE UNCHANGED strandVars
    BY <2>1 DEF strandVars, Pending, Running
  <2> QED
    BY <2>1, EnqueueSubmits, EnteredStutters, StartStarts, EndFinishes, OthersStutter
    DEF StrandNext, Serial!Next
<1> QED
  BY <1>1, <1>2, StrandInvariant, PTL DEF StrandSpec, ImplementsSerial, Serial!Spec

-----------------------------------------------------------------------------
(* The io_context.                                                           *)
Operations == Handlers \cup {"task", "invoker"}
InTask(t) == pc[t] \in {"poll", "block", "back"}

QueueOK ==
  /\ op_queue_ \in Seq(Operations)
  /\ task_interrupted_ \in BOOLEAN /\ signalled \in BOOLEAN /\ interrupt \in BOOLEAN
  /\ signals \in Nat
  /\ in_reactor \subseteq Handlers /\ unused \subseteq Handlers

ThreadOK ==
  /\ pc \in [Threads -> {"loop", "asleep", "woken", "block", "poll", "back", "complete",
                         "enter", "invoke", "cleanup", "flush", "out"}]
  /\ op \in [Threads -> Handlers \cup {None}]
  /\ private_op_queue \in [Threads -> Seq(Handlers)]
  /\ \A t \in Threads : pc[t] = "complete" => op[t] \in Handlers

\* task_operation_ is once in the queue, or with the thread that runs it.
TaskOnce ==
  /\ \A s, t \in Threads : InTask(s) /\ InTask(t) => s = t
  /\ \A t \in Threads : InTask(t) => \A i \in 1 .. Len(op_queue_) : op_queue_[i] # "task"
  /\ \A i, j \in 1 .. Len(op_queue_) : op_queue_[i] = "task" /\ op_queue_[j] = "task" => i = j

\* A thread that blocks is interrupted already, or can be.
Interruptible == \A t \in Threads : pc[t] = "block" => interrupt \/ ~task_interrupted_

\* NoLostWakeup, with the threads that were woken and do not have the mutex yet
WakesUp ==
  op_queue_ # <<>> /\ ~stopped_ /\ (\E t \in Threads : Idle(t) \/ pc[t] = "woken") =>
     \/ \E t \in Threads : Coming(t)
     \/ signals > 0 /\ signalled /\ \E t \in Threads : pc[t] = "asleep"

SchedulerInv == QueueOK /\ ThreadOK /\ TaskOnce /\ Interruptible /\ WakesUp

-----------------------------------------------------------------------------
(* What the operations on the queue do to its elements.                      *)
LEMMA PushFacts ==
  ASSUME QueueOK, NEW o \in Operations
  PROVE  /\ Append(op_queue_, o) \in Seq(Operations) /\ Len(Append(op_queue_, o)) = Len(op_queue_) + 1
         /\ \A i \in 1 .. Len(op_queue_) + 1 :
              Append(op_queue_, o)[i] = IF i <= Len(op_queue_) THEN op_queue_[i] ELSE o
  BY AppendProperties, LenProperties DEF QueueOK

LEMMA PopFacts ==
  ASSUME QueueOK, op_queue_ # <<>>
  PROVE  /\ Head(op_queue_) \in Operations /\ Head(op_queue_) = op_queue_[1]
         /\ Tail(op_queue_) \in Seq(Operations) /\ Len(Tail(op_queue_)) = Len(op_queue_) - 1
         /\ Len(op_queue_) \in Nat \ {0}
         /\ \A i \in 1 .. Len(op_queue_) - 1 : Tail(op_queue_)[i] = op_queue_[i + 1]
<1>1. Len(op_queue_) \in Nat \ {0}
  BY EmptySeq DEF QueueOK
<1> QED
  BY <1>1, HeadTailProperties DEF QueueOK

LEMMA FlushFacts ==
  ASSUME QueueOK, ThreadOK, NEW t \in Threads
  PROVE  LET q == op_queue_ \o private_op_queue[t]
         IN  /\ q \in Seq(Operations) /\ Len(q) \in Nat /\ Len(q) >= Len(op_queue_)
             /\ \A i \in 1 .. Len(q) : IF i <= Len(op_queue_) THEN q[i] = op_queue_[i] ELSE q[i] # "task"
<1> DEFINE p == private_op_queue[t]
<1>1. p \in Seq(Handlers)
  BY DEF ThreadOK
<1>2. p \in Seq(Operations)
  BY <1>1, SeqMonotonic DEF Operations
<1>3. \A i \in 1 .. Len(p) : p[i] # "task"
  BY <1>1, ElementOfSeq, OperationAssumption
<1>4. Len(p) \in Nat /\ Len(op_queue_) \in Nat
  BY <1>2, LenProperties DEF QueueOK
<1> HIDE DEF p
<1>5. /\ op_queue_ \o p \in Seq(Operations) /\ Len(op_queue_ \o p) = Len(op_queue_) + Len(p)
      /\ \A i \in 1 .. Len(op_queue_) + Len(p) :
           (op_queue_ \o p)[i] = IF i <= Len(op_queue_) THEN op_queue_[i] ELSE p[i - Len(op_queue_)]
  BY <1>2, ConcatProperties DEF QueueOK
<1> QED
  BY <1>3, <1>4, <1>5 DEF p

LEMMA WakeTyped ==
  ASSUME QueueOK, NEW waiters, Wake(waiters)
  PROVE  /\ task_interrupted_' \in BOOLEAN /\ signalled' \in BOOLEAN /\ interrupt' \in BOOLEAN
         /\ signals' \in Nat
<1>1. CASE waiters # {}
  BY <1>1 DEF Wake, QueueOK
<1>2. CASE waiters = {}
  BY <1>2 DEF Wake, QueueOK
<1> QED
  BY <1>1, <1>2

-----------------------------------------------------------------------------
(* Steps that leave the queue alone.                                         *)
LEMMA QuietStep ==
  ASSUME SchedulerInv, UNCHANGED <<op_queue_, task_interrupted_, signalled, signals, interrupt>>,
         in_reactor' \subseteq Handlers, unused' \subseteq Handlers, ThreadOK',
         stopped_' = stopped_,
         \A t \in Threads :
            \/ pc'[t] = pc[t]
            \/ pc[t] \in {"complete", "enter", "invoke"} /\ pc'[t] \in {"enter", "invoke", "cleanup"}
            \/ pc[t] = "cleanup" /\ pc'[t] \in {"loop", "flush"}
            \/ pc[t] = "woken" /\ ~signalled /\ pc'[t] = "asleep"
            \/ stopped_ /\ pc'[t] = "out"
  PROVE  SchedulerInv'
<1>1. QueueOK'
  BY DEF SchedulerInv, QueueOK
<1>2. \A t \in Threads : /\ InTask(t)' => InTask(t)
                         /\ pc'[t] = "block" => pc[t] = "block"
  BY DEF InTask
<1>3. TaskOnce' /\ Interruptible'
  BY <1>2 DEF SchedulerInv, TaskOnce, Interruptible
<1>4. WakesUp'
  BY DEF SchedulerInv, WakesUp, Idle, Coming
<1> QED
  BY <1>1, <1>3, <1>4 DEF SchedulerInv

(* An operation other than the task is pushed, and a thread is woken.        *)
LEMMA PushStep ==
  ASSUME SchedulerInv, NEW o \in Operations, o # "task", Push(o),
         in_reactor' \subseteq Handlers, unused' \subseteq Handlers, ThreadOK',
         stopped_' = stopped_,
         \A t \in Threads : pc'[t] = pc[t] \/ (pc[t] = "invoke" /\ pc'[t] = "cleanup")
  PROVE  SchedulerInv'
<1>1. op_queue_' = Append(op_queue_, o) /\ Wake(Waiting)
  BY DEF Push
<1>2. QueueOK'
  <2>1. op_queue_' \in Seq(Operations)
    BY <1>1, PushFacts DEF SchedulerInv
  <2> QED
    BY <1>1, <2>1, WakeTyped DEF SchedulerInv, QueueOK
<1>3. \A t \in Threads : /\ InTask(t)' <=> InTask(t)
                         /\ pc'[t] = "block" => pc[t] = "block"
  BY DEF InTask
<1>4. TaskOnce'
  <2>1. \A i \in 1 .. Len(op_queue_') : op_queue_'[i] = "task" =>
           i \in 1 .. Len(op_queue_) /\ op_queue_[i] = "task"
    BY <1>1, PushFacts, LenProperties DEF SchedulerInv, QueueOK
  <2> QED
    BY <1>3, <2>1 DEF SchedulerInv, TaskOnce
<1>5. Interruptible'
  BY <1>1, <1>3 DEF SchedulerInv, QueueOK, Interruptible, Wake
<1>6. WakesUp'
  <2>1. CASE Waiting # {}
    BY <1>1, <2>1 DEF SchedulerInv, QueueOK, WakesUp, Idle, Coming, Wake, Waiting
  <2>2. CASE Waiting = {}
    BY <1>1, <2>2 DEF SchedulerInv, QueueOK, WakesUp, Idle, Coming, Wake, Waiting, Interruptible
  <2> QED
    BY <2>1, <2>2
<1> QED
  BY <1>2, <1>4, <1>5, <1>6 DEF SchedulerInv

-----------------------------------------------------------------------------
(* Steps that take from the queue.                                           *)
LEMMA SignalStep ==
  ASSUME SchedulerInv, SignalArrives
  PROVE  SchedulerInv'
<1>1. QueueOK' /\ ThreadOK'
  <2>1. QueueOK'
    BY DEF SignalArrives, SchedulerInv, QueueOK, sourceVars
  <2>2. ThreadOK'
    BY DEF SignalArrives, SchedulerInv, ThreadOK
  <2> QED
    BY <2>1, <2>2
<1>2. \A t \in Threads : pc'[t] = pc[t] \/ (pc[t] = "asleep" /\ pc'[t] = "woken")
  BY DEF SignalArrives, SchedulerInv, ThreadOK
<1>3. TaskOnce' /\ Interruptible'
  BY <1>2 DEF SignalArrives, SchedulerInv, TaskOnce, Interruptible, InTask
<1>4. WakesUp'
  <2>1. CASE \E t \in Threads : pc[t] = "asleep"
    BY <2>1 DEF SignalArrives, SchedulerInv, ThreadOK, WakesUp, Idle, Coming, countVars
  <2>2. CASE ~ \E t \in Threads : pc[t] = "asleep"
    BY <2>2 DEF SignalArrives, SchedulerInv, ThreadOK, WakesUp, Idle, Coming, countVars
  <2> QED
    BY <2>1, <2>2
<1> QED
  BY <1>1, <1>3, <1>4 DEF SchedulerInv

LEMMA SleepStep ==
  ASSUME SchedulerInv, NEW t \in Threads, Sleeps(t)
  PROVE  SchedulerInv'
<1>1. QueueOK' /\ ThreadOK'
  BY DEF Sleeps, Goes, SchedulerInv, QueueOK, ThreadOK, sourceVars
<1>2. TaskOnce' /\ Interruptible'
  BY DEF Sleeps, Goes, SchedulerInv, ThreadOK, TaskOnce, Interruptible, InTask
<1>3. WakesUp'
  BY DEF Sleeps, WakesUp
<1> QED
  BY <1>1, <1>2, <1>3 DEF SchedulerInv

LEMMA TaskStep ==
  ASSUME SchedulerInv, NEW t \in Threads, RunsTask(t)
  PROVE  SchedulerInv'
<1> USE DEF SchedulerInv
<1>1. ThreadOK'
  BY DEF RunsTask, Goes, ThreadOK
<1>2. QueueOK'
  BY PopFacts DEF RunsTask, QueueOK, MoreHandlers, sourceVars
<1>3. \A s \in Threads : ~InTask(s)
  BY PopFacts DEF RunsTask, TaskOnce
<1>4. \A i \in 1 .. Len(op_queue_') : op_queue_'[i] # "task"
  BY PopFacts DEF RunsTask, TaskOnce
<1>5. \A s \in Threads : s # t => pc'[s] = pc[s]
  BY DEF RunsTask, Goes, ThreadOK
<1>6. pc'[t] = (IF MoreHandlers THEN "poll" ELSE "block") /\ task_interrupted_' = MoreHandlers
  BY DEF RunsTask, Goes, ThreadOK
<1>7. TaskOnce'
  BY <1>3, <1>4, <1>5 DEF TaskOnce, InTask
<1>8. Interruptible'
  BY <1>3, <1>5, <1>6 DEF Interruptible, InTask, MoreHandlers
<1>9. WakesUp'
  BY <1>6 DEF RunsTask, WakesUp, Coming, MoreHandlers
<1> QED
  BY <1>1, <1>2, <1>7, <1>8, <1>9

LEMMA HandlerStep ==
  ASSUME SchedulerInv, NEW t \in Threads, RunsHandler(t)
  PROVE  SchedulerInv'
<1> USE DEF SchedulerInv
<1>1. Head(op_queue_) # "task" /\ op_queue_ # <<>> /\ op_queue_' = Tail(op_queue_) /\ stopped_' = stopped_
  BY DEF RunsHandler, countVars
<1>2. pc'[t] \in {"invoke", "complete"} /\ \A s \in Threads : s # t => pc'[s] = pc[s]
  BY DEF RunsHandler, Goes, ThreadOK
<1>3. ThreadOK'
  BY <1>1, PopFacts DEF RunsHandler, Goes, ThreadOK, Operations
<1>4. QueueOK'
  <2>1. op_queue_' \in Seq(Operations)
    BY <1>1, PopFacts
  <2>2. in_reactor' \subseteq Handlers /\ unused' \subseteq Handlers
    BY DEF RunsHandler, QueueOK, sourceVars
  <2>3. CASE MoreHandlers
    BY <2>1, <2>2, <2>3, WakeTyped DEF RunsHandler, QueueOK
  <2>4. CASE ~MoreHandlers
    BY <2>1, <2>2, <2>4 DEF RunsHandler, QueueOK
  <2> QED
    BY <2>3, <2>4
<1>5. TaskOnce'
  <2>1. \A i \in 1 .. Len(op_queue_') : op_queue_'[i] = "task" =>
           i + 1 \in 1 .. Len(op_queue_) /\ op_queue_[i + 1] = "task"
    BY <1>1, PopFacts
  <2>2. \A i \in 1 .. Len(op_queue_') : i \in Int
    OBVIOUS
  <2>3. \A s \in Threads : InTask(s)' => InTask(s)
    BY <1>2 DEF InTask
  <2> QED
    BY <2>1, <2>2, <2>3 DEF TaskOnce
<1>6. Interruptible'
  BY <1>2 DEF RunsHandler, Interruptible, Wake, QueueOK
<1>7. WakesUp'
  <2>1. CASE ~MoreHandlers
    BY <1>1, <2>1 DEF WakesUp, MoreHandlers
  <2>2. CASE MoreHandlers
    <3>1. Wake(Others(t))
      BY <2>2 DEF RunsHandler
    <3>2. CASE Others(t) # {}
      BY <1>2, <3>1, <3>2 DEF WakesUp, Idle, Coming, Wake, Others, Waiting, QueueOK
    <3>3. CASE Others(t) = {}
      BY <1>2, <3>1, <3>3 DEF WakesUp, Idle, Coming, Wake, Others, Waiting, QueueOK, Interruptible
    <3> QED
      BY <3>2, <3>3
  <2> QED
    BY <2>1, <2>2
<1> QED
  BY <1>3, <1>4, <1>5, <1>6, <1>7

-----------------------------------------------------------------------------
(* The reactor, and the ends of its task and of a handler.                   *)
LEMMA ReactorStep ==
  ASSUME SchedulerInv, NEW t \in Threads, TaskRun(t)
  PROVE  SchedulerInv'
<1> USE DEF SchedulerInv
<1>1. PICK n \in 0 .. Cardinality(in_reactor) : \E ready \in [1 .. n -> in_reactor] :
         /\ in_reactor' = in_reactor \ Range(ready)
         /\ private_op_queue' = [private_op_queue EXCEPT ![t] = ready]
  BY DEF TaskRun
<1>2. PICK ready \in [1 .. n -> in_reactor] :
         /\ in_reactor' = in_reactor \ Range(ready)
         /\ private_op_queue' = [private_op_queue EXCEPT ![t] = ready]
  BY <1>1
<1>3. ready \in Seq(Handlers)
  <2>1. n \in Nat /\ \A i \in 1 .. n : ready[i] \in Handlers
    BY <1>2 DEF QueueOK
  <2>2. [i \in 1 .. n |-> ready[i]] \in Seq(Handlers)
    BY <2>1, IsASeq
  <2>3. ready = [i \in 1 .. n |-> ready[i]]
    BY <1>2
  <2> QED
    BY <2>2, <2>3
<1>4. ThreadOK'
  BY <1>2, <1>3 DEF TaskRun, Goes, ThreadOK
<1>5. QueueOK'
  BY <1>2 DEF TaskRun, QueueOK
<1>6. InTask(t) /\ pc'[t] = "back" /\ \A s \in Threads : s # t => pc'[s] = pc[s]
  BY DEF TaskRun, Goes, InTask, ThreadOK
<1>7. \A s \in Threads : pc'[s] # "block"
  BY <1>6 DEF TaskOnce, InTask
<1>8. TaskOnce' /\ Interruptible'
  BY <1>6, <1>7 DEF TaskRun, TaskOnce, InTask, Interruptible
<1>9. WakesUp'
  BY <1>6 DEF WakesUp, Coming
<1> QED
  BY <1>4, <1>5, <1>8, <1>9

LEMMA CleanupStep ==
  ASSUME SchedulerInv, NEW t \in Threads, TaskCleanup(t)
  PROVE  SchedulerInv'
<1> USE DEF SchedulerInv
<1> DEFINE q == op_queue_ \o private_op_queue[t]
<1>1. /\ q \in Seq(Operations) /\ Len(q) \in Nat /\ Len(q) >= Len(op_queue_)
      /\ \A i \in 1 .. Len(q) : IF i <= Len(op_queue_) THEN q[i] = op_queue_[i] ELSE q[i] # "task"
  BY FlushFacts
<1>2. op_queue_' = q \o <<"task">>
  BY DEF TaskCleanup
<1>3. InTask(t) /\ pc'[t] = "loop" /\ \A s \in Threads : s # t => pc'[s] = pc[s]
  BY DEF TaskCleanup, Goes, InTask, ThreadOK
<1>4. \A i \in 1 .. Len(q) : q[i] # "task"
  BY <1>1, <1>3, LenProperties DEF TaskOnce, QueueOK
<1> HIDE DEF q
<1>5. op_queue_' \in Seq(Operations) /\ Len(op_queue_') = Len(q) + 1
      /\ \A i \in 1 .. Len(q) : op_queue_'[i] = q[i]
  <2>1. op_queue_' = Append(q, "task")
    BY <1>1, <1>2, AppendIsConcat DEF Operations
  <2> QED
    BY <1>1, <2>1, AppendProperties DEF Operations
<1>6. ThreadOK'
  BY EmptySeq DEF TaskCleanup, Goes, ThreadOK
<1>7. QueueOK'
  BY <1>5 DEF TaskCleanup, QueueOK, sourceVars
<1>8. \A s \in Threads : ~InTask(s)'
  BY <1>3 DEF TaskOnce, InTask
<1>9. TaskOnce'
  <2>1. \A i \in 1 .. Len(op_queue_') : op_queue_'[i] = "task" => i = Len(q) + 1
    BY <1>1, <1>4, <1>5
  <2> QED
    BY <1>8, <2>1 DEF TaskOnce
<1>10. Interruptible' /\ WakesUp'
  BY <1>3, <1>8 DEF Interruptible, InTask, WakesUp, Coming
<1> QED
  BY <1>6, <1>7, <1>9, <1>10

LEMMA FlushStep ==
  ASSUME SchedulerInv, NEW t \in Threads, Flush(t)
  PROVE  SchedulerInv'
<1> USE DEF SchedulerInv
<1>1. op_queue_' = op_queue_ \o private_op_queue[t]
  BY DEF Flush
<1>2. /\ op_queue_' \in Seq(Operations) /\ Len(op_queue_') \in Nat
      /\ \A i \in 1 .. Len(op_queue_') : op_queue_'[i] = "task" =>
           i \in 1 .. Len(op_queue_) /\ op_queue_[i] = "task"
  BY <1>1, FlushFacts, LenProperties DEF QueueOK
<1>3. ThreadOK'
  BY EmptySeq DEF Flush, Goes, ThreadOK
<1>4. QueueOK'
  BY <1>2 DEF Flush, QueueOK, sourceVars
<1>5. pc'[t] = "loop" /\ \A s \in Threads : s # t => pc'[s] = pc[s]
  BY DEF Flush, Goes, ThreadOK
<1>6. TaskOnce'
  BY <1>2, <1>5 DEF TaskOnce, InTask
<1>7. Interruptible' /\ WakesUp'
  BY <1>5 DEF Flush, Interruptible, WakesUp, Coming
<1> QED
  BY <1>3, <1>4, <1>6, <1>7

(* Work ends: nothing happens to the queue, or all threads are stopped.      *)
LEMMA FinishedStep ==
  ASSUME SchedulerInv, NEW newpc, WorkFinished(newpc), UNCHANGED <<op_queue_, signals, sourceVars>>,
         ThreadOK', \A t \in Threads : newpc[t] = pc[t] \/ (pc[t] = "cleanup" /\ newpc[t] \in {"loop", "flush"})
  PROVE  SchedulerInv'
<1> USE DEF SchedulerInv
<1>1. CASE outstanding_work_ = 1
  <2>1. QueueOK' /\ stopped_'
    BY <1>1 DEF WorkFinished, QueueOK, sourceVars
  <2>2. \A t \in Threads : (InTask(t)' <=> InTask(t)) /\ (pc'[t] = "block" => pc[t] = "block")
    BY <1>1 DEF WorkFinished, InTask
  <2>3. TaskOnce' /\ Interruptible'
    BY <1>1, <2>2 DEF WorkFinished, TaskOnce, Interruptible, QueueOK
  <2> QED
    BY <2>1, <2>3 DEF WakesUp
<1>2. CASE outstanding_work_ # 1
  BY <1>2, QuietStep DEF WorkFinished, sourceVars, QueueOK
<1> QED
  BY <1>1, <1>2

LEMMA WorkStep ==
  ASSUME SchedulerInv, NEW t \in Threads, WorkCleanup(t)
  PROVE  SchedulerInv'
<1> DEFINE then == [pc EXCEPT ![t] = IF private_op_queue[t] = <<>> THEN "loop" ELSE "flush"]
<1>1. ThreadOK
  BY DEF SchedulerInv
<1>2. /\ pc[t] = "cleanup"
      /\ IF Surplus(t) < 0
         THEN WorkFinished(then)
         ELSE /\ pc' = then
              /\ UNCHANGED <<stopped_, signalled, task_interrupted_, interrupt>>
      /\ UNCHANGED <<op_queue_, signals, op, private_op_queue, sourceVars>>
  BY DEF WorkCleanup
<1>3. then \in [Threads -> {"loop", "asleep", "woken", "block", "poll", "back", "complete",
                            "enter", "invoke", "cleanup", "flush", "out"}]
      /\ \A s \in Threads : then[s] = pc[s] \/ (pc[s] = "cleanup" /\ then[s] \in {"loop", "flush"})
  BY <1>1, <1>2 DEF ThreadOK
<1> HIDE DEF then
<1>4. ThreadOK'
  <2>1. CASE pc' = then
    BY <1>1, <1>2, <1>3, <2>1 DEF ThreadOK
  <2>2. CASE pc' # then
    <3>1. WorkFinished(then) /\ pc' = [s \in Threads |-> IF then[s] = "asleep" THEN "woken" ELSE then[s]]
      BY <1>2, <2>2 DEF WorkFinished
    <3> QED
      BY <1>1, <1>2, <1>3, <3>1 DEF ThreadOK
  <2> QED
    BY <2>1, <2>2
<1>5. CASE Surplus(t) < 0
  BY <1>2, <1>3, <1>4, <1>5, FinishedStep
<1>6. CASE ~(Surplus(t) < 0)
  <2>1. in_reactor' \subseteq Handlers /\ unused' \subseteq Handlers
    BY <1>2 DEF sourceVars, SchedulerInv, QueueOK
  <2>2. \A s \in Threads : pc'[s] = pc[s] \/ (pc[s] = "cleanup" /\ pc'[s] \in {"loop", "flush"})
    BY <1>2, <1>3, <1>6
  <2> QED
    BY <1>2, <1>4, <1>6, <2>1, <2>2, QuietStep
<1> QED
  BY <1>5, <1>6

-----------------------------------------------------------------------------
(* The steps of a thread that leave the queue alone, and those that push.    *)
LEMMA QuietSteps ==
  ASSUME SchedulerInv, NEW t \in Threads,
         Returns(t) \/ SleepsOn(t) \/ Completes(t) \/ EntersStrand(t) \/ InvokerRuns(t) \/ InvokerLeaves(t)
  PROVE  SchedulerInv'
<1>1. UNCHANGED <<op_queue_, task_interrupted_, signalled, signals, interrupt, stopped_, sourceVars,
                  private_op_queue>>
  BY DEF Returns, SleepsOn, Completes, EntersStrand, InvokerRuns, InvokerLeaves, queueVars, countVars, threadVars
<1>2. \A s \in Threads : s # t => pc'[s] = pc[s] /\ op'[s] = op[s]
  BY DEF Returns, SleepsOn, Completes, EntersStrand, InvokerRuns, InvokerLeaves, Goes, threadVars,
         SchedulerInv, ThreadOK
<1>3. \/ pc[t] \in {"complete", "enter", "invoke"} /\ pc'[t] \in {"enter", "invoke", "cleanup"}
      \/ pc[t] = "woken" /\ ~signalled /\ pc'[t] = "asleep"
      \/ stopped_ /\ pc'[t] = "out"
  BY DEF Returns, SleepsOn, Completes, EntersStrand, InvokerRuns, InvokerLeaves, Goes, threadVars,
         SchedulerInv, ThreadOK
<1>4. op' \in [Threads -> Handlers \cup {None}]
  BY DEF Returns, SleepsOn, Completes, EntersStrand, InvokerRuns, InvokerLeaves, threadVars,
         SchedulerInv, ThreadOK
<1>5. pc' \in [Threads -> {"loop", "asleep", "woken", "block", "poll", "back", "complete",
                            "enter", "invoke", "cleanup", "flush", "out"}]
  BY DEF Returns, SleepsOn, Completes, EntersStrand, InvokerRuns, InvokerLeaves, Goes, threadVars,
         SchedulerInv, ThreadOK
<1>6. ThreadOK'
  BY <1>1, <1>2, <1>3, <1>4, <1>5 DEF SchedulerInv, ThreadOK
<1>7. in_reactor' \subseteq Handlers /\ unused' \subseteq Handlers
  BY <1>1 DEF SchedulerInv, QueueOK, sourceVars
<1> QED
  BY <1>1, <1>2, <1>3, <1>6, <1>7, QuietStep

LEMMA PostedStep ==
  ASSUME SchedulerInv, NEW t \in Threads, InvokerPosted(t)
  PROVE  SchedulerInv'
<1>1. ThreadOK'
  BY DEF InvokerPosted, Goes, SchedulerInv, ThreadOK
<1>2. \A s \in Threads : pc'[s] = pc[s] \/ (pc[s] = "invoke" /\ pc'[s] = "cleanup")
  BY DEF InvokerPosted, Goes, SchedulerInv, ThreadOK
<1>3. in_reactor' \subseteq Handlers /\ unused' \subseteq Handlers /\ stopped_' = stopped_
  BY DEF InvokerPosted, SchedulerInv, QueueOK, sourceVars
<1> QED
  BY <1>1, <1>2, <1>3, PushStep, OperationAssumption DEF InvokerPosted, Operations

LEMMA ActsKeep ==
  ASSUME SchedulerInv, NEW t \in Threads, NEW h \in Handlers, Acts(t, h)
  PROVE  SchedulerInv'
<1> USE DEF SchedulerInv
<1>1. CASE HandlerWaits(t, h) \/ HandlerPosts(t, h)
  <2>1. UNCHANGED <<queueVars, threadVars, stopped_>>
    BY <1>1 DEF HandlerWaits, HandlerPosts, countVars
  <2>2. in_reactor' \subseteq Handlers /\ unused' \subseteq Handlers
    BY <1>1 DEF HandlerWaits, HandlerPosts, QueueOK
  <2>3. ThreadOK'
    BY <2>1 DEF ThreadOK, threadVars
  <2> QED
    BY <2>1, <2>2, <2>3, QuietStep DEF queueVars, threadVars
<1>2. CASE HandlerContinues(t, h)
  <2>1. ThreadOK'
    <3>1. Append(private_op_queue[t], h) \in Seq(Handlers)
      BY AppendProperties DEF ThreadOK
    <3> QED
      BY <1>2, <3>1 DEF HandlerContinues, ThreadOK
  <2>2. in_reactor' \subseteq Handlers /\ unused' \subseteq Handlers
    BY <1>2 DEF HandlerContinues, QueueOK
  <2> QED
    BY <1>2, <2>1, <2>2, QuietStep DEF HandlerContinues, queueVars, countVars
<1>3. CASE HandlerCancels(t, h)
  <2>1. in_reactor' \subseteq Handlers /\ unused' \subseteq Handlers
    BY <1>3 DEF HandlerCancels, QueueOK
  <2>2. ThreadOK' /\ stopped_' = stopped_ /\ pc' = pc
    BY <1>3 DEF HandlerCancels, ThreadOK, threadVars, countVars
  <2>3. Push(h) /\ h \in Operations /\ h # "task"
    BY <1>3, OperationAssumption DEF HandlerCancels, Operations
  <2> QED
    BY <2>1, <2>2, <2>3, PushStep
<1> QED
  BY <1>1, <1>2, <1>3 DEF Acts

LEMMA MainKeeps ==
  ASSUME SchedulerInv, MainEnters \/ MainCloses \/ \E h \in Handlers : MainWaits(h) \/ MainPosts(h)
  PROVE  SchedulerInv'
<1> USE DEF SchedulerInv
<1>1. CASE MainEnters
  <2>1. ThreadOK' /\ stopped_' = stopped_ /\ pc' = pc /\ in_reactor' \subseteq Handlers /\ unused' \subseteq Handlers
    BY <1>1 DEF MainEnters, ThreadOK, threadVars, sourceVars, QueueOK
  <2>2. Push("invoker") /\ "invoker" \in Operations
    BY <1>1 DEF MainEnters, Operations
  <2> QED
    BY <2>1, <2>2, PushStep
<1>2. CASE MainCloses
  <2>1. WorkFinished(pc) /\ UNCHANGED <<op_queue_, signals, sourceVars>>
    BY <1>2 DEF MainCloses
  <2>2. ThreadOK'
    <3>1. pc' = pc \/ pc' = [s \in Threads |-> IF pc[s] = "asleep" THEN "woken" ELSE pc[s]]
      BY <2>1 DEF WorkFinished
    <3> QED
      BY <1>2, <3>1 DEF MainCloses, ThreadOK
  <2> QED
    BY <2>1, <2>2, FinishedStep
<1>3. ASSUME NEW h \in Handlers, MainWaits(h) \/ MainPosts(h)
      PROVE  SchedulerInv'
  <2>1. UNCHANGED <<queueVars, threadVars, stopped_>>
    BY <1>3 DEF MainWaits, MainPosts, countVars
  <2>2. in_reactor' \subseteq Handlers /\ unused' \subseteq Handlers
    BY <1>3 DEF MainWaits, MainPosts, QueueOK
  <2>3. ThreadOK'
    BY <2>1 DEF ThreadOK, threadVars
  <2> QED
    BY <2>1, <2>2, <2>3, QuietStep DEF queueVars, threadVars
<1> QED
  BY <1>1, <1>2, <1>3

LEMMA SchedulerStarts == Init => SchedulerInv
<1> SUFFICES ASSUME Init PROVE SchedulerInv
  OBVIOUS
<1>1. op_queue_ = <<"task">> /\ op_queue_ \in Seq(Operations) /\ Len(op_queue_) = 1
  BY DEF Init, Operations
<1>2. QueueOK
  BY <1>1 DEF Init, QueueOK
<1>3. ThreadOK
  BY EmptySeq DEF Init, ThreadOK
<1>4. TaskOnce /\ Interruptible
  BY <1>1 DEF Init, TaskOnce, Interruptible, InTask
<1>5. WakesUp
  BY DEF Init, WakesUp, Coming
<1> QED
  BY <1>2, <1>3, <1>4, <1>5 DEF SchedulerInv

LEMMA SchedulerKeeps == SchedulerInv /\ [Next]_vars => SchedulerInv'
<1> SUFFICES ASSUME SchedulerInv, [Next]_vars
             PROVE  SchedulerInv'
  OBVIOUS
<1>1. CASE UNCHANGED vars
  BY <1>1 DEF vars, queueVars, threadVars, countVars, sourceVars, SchedulerInv, QueueOK, ThreadOK,
              TaskOnce, Interruptible, WakesUp, InTask, Idle, Coming
<1>2. ASSUME NEW t \in Threads, Step(t)
      PROVE  SchedulerInv'
  BY <1>2, QuietSteps, SleepStep, TaskStep, HandlerStep, ReactorStep, CleanupStep, WorkStep,
     FlushStep, PostedStep DEF Step
<1>3. CASE AllReturned
  BY <1>1, <1>3 DEF AllReturned
<1> QED
  BY <1>1, <1>2, <1>3, SignalStep, MainKeeps, ActsKeep DEF Next

THEOREM SchedulerInvariant == Spec => []SchedulerInv
  BY SchedulerStarts, SchedulerKeeps, PTL DEF Spec

-----------------------------------------------------------------------------
\* No operation waits in the queue while a thread sleeps, or blocks in the
\* reactor, that neither a signal nor another thread is going to relieve: the
\* wakeup that one thread owes another is never lost.
THEOREM SchedulerNoLostWakeup == Spec => []NoLostWakeup
<1>1. SchedulerInv => NoLostWakeup
  BY DEF SchedulerInv, WakesUp, NoLostWakeup
<1> QED
  BY <1>1, SchedulerInvariant, PTL

(* Every step of the io_context is a step of the strand, or leaves it alone.  *)
LEMMA StrandIsRun == SchedulerInv /\ [Next]_vars => [StrandNext]_strandVars
<1> SUFFICES ASSUME SchedulerInv, [Next]_vars
             PROVE  [StrandNext]_strandVars
  OBVIOUS
<1>1. ASSUME NEW t \in Threads, Step(t)
      PROVE  [StrandNext]_strandVars
  <2>1. CASE Returns(t) \/ Sleeps(t) \/ SleepsOn(t) \/ RunsTask(t) \/ TaskRun(t) \/ TaskCleanup(t)
               \/ WorkCleanup(t) \/ Flush(t)
    BY <2>1 DEF Returns, Sleeps, SleepsOn, RunsTask, TaskRun, TaskCleanup, WorkCleanup, Flush
  <2>2. CASE RunsHandler(t)
    BY <2>2 DEF RunsHandler, StrandNext
  <2>3. CASE Completes(t)
    BY <2>3 DEF Completes, StrandNext, SchedulerInv, ThreadOK
  <2>4. CASE EntersStrand(t) \/ InvokerRuns(t) \/ InvokerLeaves(t) \/ InvokerPosted(t)
    BY <2>4 DEF EntersStrand, InvokerRuns, InvokerLeaves, InvokerPosted, StrandNext
  <2> QED
    BY <1>1, <2>1, <2>2, <2>3, <2>4 DEF Step
<1>2. ASSUME NEW t \in Threads, NEW h \in Handlers, Acts(t, h)
      PROVE  [StrandNext]_strandVars
  BY <1>2 DEF Acts, HandlerWaits, HandlerContinues, HandlerPosts, HandlerCancels, StrandNext
<1>3. CASE MainEnters \/ MainCloses \/ \E h \in Handlers : MainWaits(h) \/ MainPosts(h)
  BY <1>3 DEF MainEnters, MainCloses, MainWaits, MainPosts, StrandNext
<1>4. CASE SignalArrives \/ AllReturned \/ UNCHANGED vars
  BY <1>4 DEF SignalArrives, AllReturned, vars
<1> QED
  BY <1>1, <1>2, <1>3, <1>4 DEF Next

\* The io_context runs the strand as the strand is specified: it begins an
\* invoker only when one was given to it, and once.
THEOREM SchedulerRunsStrand == Spec => StrandSpec
<1>1. Init => StrandInit
  BY DEF Init
<1> QED
  BY <1>1, StrandIsRun, SchedulerInvariant, PTL DEF Spec, StrandSpec

\* Whatever the threads of the io_context do, the functions of a strand run one
\* at a time and in the order in which they were given to it.
THEOREM SchedulerImplementsSerial == Spec => ImplementsSerial
  BY SchedulerRunsStrand, StrandImplementsSerial

-----------------------------------------------------------------------------
(* The work of the io_context.                                               *)
Inside == {"complete", "enter", "invoke", "cleanup"}
Elements(s) == {s[i] : i \in 1 .. Len(s)}
Distinct(s) == \A i, j \in 1 .. Len(s) : s[i] = s[j] => i = j
Private(t) == Elements(private_op_queue[t])

\* What counts as work: operations that wait or are complete, the invoker of the
\* strand, threads that are busy with one of these, and main.
Flushing == {t \in Threads : pc[t] \in {"back", "flush"}}
Flushed == {h \in Handlers : \E t \in Flushing : h \in Private(t)}
Works == in_reactor \cup (Elements(op_queue_) \ {"task"}) \cup Flushed
Busy == {t \in Threads : pc[t] \in Inside}
MainWork == IF main = "closed" THEN 0 ELSE 1

\* An operation that has not completed is at one place, and there once.
OnePlace ==
  /\ Distinct(op_queue_) /\ \A t \in Threads : Distinct(private_op_queue[t])
  /\ unused \cap in_reactor = {}
  /\ (unused \cup in_reactor) \cap Elements(op_queue_) = {}
  /\ \A t \in Threads : Private(t) \cap (unused \cup in_reactor \cup Elements(op_queue_)) = {}
  /\ \A s, t \in Threads : s # t => Private(s) \cap Private(t) = {}

\* Where a thread is says what it has.
Where ==
  /\ "invoker" \in Elements(op_queue_) <=> scheduled
  /\ entering # None => main = "enter" \/ \E t \in Threads : pc[t] = "enter"
  /\ \A t \in Threads :
       /\ inv[t] # "none" <=> pc[t] = "invoke"
       /\ op[t] # None <=> pc[t] = "complete"
       /\ private_op_queue[t] # <<>> => pc[t] \in {"back", "invoke", "cleanup", "flush"}

\* A handler counts what it leaves to its thread.
PrivateWork ==
  /\ private_outstanding_work \in [Threads -> Nat]
  /\ main \in {"open", "enter", "closed"}
  /\ \A t \in Threads :
       /\ IsFiniteSet(Private(t))
       /\ private_outstanding_work[t] = IF pc[t] \in {"invoke", "cleanup"} THEN Cardinality(Private(t)) ELSE 0

Counted ==
  /\ IsFiniteSet(Works) /\ IsFiniteSet(Busy)
  /\ outstanding_work_ = Cardinality(Works) + Cardinality(Busy) + MainWork
  /\ stopped_ <=> outstanding_work_ = 0

WorkInv == OnePlace /\ Held /\ Where /\ PrivateWork /\ Counted
WorkBase == SchedulerInv /\ Inv /\ WorkInv

-----------------------------------------------------------------------------
(* What the operations on sequences do to their elements.                    *)
LEMMA ElementsIn ==
  ASSUME NEW S, NEW s \in Seq(S)
  PROVE  Elements(s) \subseteq S /\ (Elements(s) = {} <=> s = <<>>)
<1>1. Len(s) \in Nat /\ \A i \in 1 .. Len(s) : s[i] \in S
  BY LenProperties, ElementOfSeq
<1>2. ASSUME s # <<>> PROVE s[1] \in Elements(s)
  <2>1. 1 \in 1 .. Len(s)
    BY <1>1, <1>2, EmptySeq
  <2> QED
    BY <2>1 DEF Elements
<1>3. Elements(<<>>) = {}
  <2>1. Len(<<>>) = 0
    BY EmptySeq
  <2> QED
    BY <2>1 DEF Elements
<1> QED
  BY <1>1, <1>2, <1>3 DEF Elements

LEMMA ElementsAppend ==
  ASSUME NEW S, NEW s \in Seq(S), NEW e \in S
  PROVE  /\ Elements(Append(s, e)) = Elements(s) \cup {e}
         /\ Distinct(s) /\ e \notin Elements(s) => Distinct(Append(s, e))
<1>1. /\ Len(s) \in Nat /\ Len(Append(s, e)) = Len(s) + 1
      /\ \A i \in 1 .. Len(s) : Append(s, e)[i] = s[i]
      /\ Append(s, e)[Len(s) + 1] = e
  BY LenProperties, AppendProperties
<1> DEFINE r == Append(s, e)
<1> HIDE DEF r
<1>2. /\ Len(s) \in Nat /\ Len(r) = Len(s) + 1
      /\ \A i \in 1 .. Len(s) : r[i] = s[i]
      /\ r[Len(s) + 1] = e
  BY <1>1 DEF r
<1>3. \A i \in 1 .. Len(r) : i \in 1 .. Len(s) \/ i = Len(s) + 1
  BY <1>2
<1>4. \A i \in 1 .. Len(s) : i \in 1 .. Len(r)
  BY <1>2
<1>5. Len(s) + 1 \in 1 .. Len(r)
  BY <1>2
<1>6. Elements(r) = Elements(s) \cup {e}
  BY <1>2, <1>3, <1>4, <1>5 DEF Elements
<1>7. Distinct(s) /\ e \notin Elements(s) => Distinct(r)
  BY <1>2, <1>3 DEF Distinct, Elements
<1> QED
  BY <1>6, <1>7 DEF r

LEMMA ElementsTail ==
  ASSUME NEW S, NEW s \in Seq(S), s # <<>>, Distinct(s)
  PROVE  /\ Head(s) \in Elements(s)
         /\ Elements(Tail(s)) = Elements(s) \ {Head(s)}
         /\ Distinct(Tail(s))
<1> DEFINE r == Tail(s)
<1>1. Len(s) \in Nat /\ Len(s) # 0
  BY LenProperties, EmptySeq
<1>2. /\ Head(s) = s[1] /\ Len(r) = Len(s) - 1
      /\ \A i \in 1 .. Len(r) : r[i] = s[i + 1]
  BY <1>1, HeadTailProperties
<1> HIDE DEF r
<1>3. 1 \in 1 .. Len(s) /\ \A i \in 1 .. Len(r) : i + 1 \in 1 .. Len(s) /\ i + 1 # 1
  BY <1>1, <1>2
<1>4. \A i \in 1 .. Len(s) : i = 1 \/ (i - 1 \in 1 .. Len(r) /\ (i - 1) + 1 = i)
  BY <1>1, <1>2
<1>5. Elements(r) \subseteq Elements(s) \ {Head(s)}
  <2>1. \A i \in 1 .. Len(r) : r[i] = s[i + 1] /\ s[i + 1] # s[1]
    BY <1>2, <1>3 DEF Distinct
  <2> QED
    BY <1>2, <1>3, <2>1 DEF Elements
<1>6. Elements(s) \ {Head(s)} \subseteq Elements(r)
  <2> SUFFICES ASSUME NEW i \in 1 .. Len(s), i # 1
               PROVE  s[i] \in Elements(r)
    BY <1>2 DEF Elements
  <2>1. i - 1 \in 1 .. Len(r) /\ r[i - 1] = s[i]
    BY <1>2, <1>4
  <2> QED
    BY <2>1 DEF Elements
<1>7. Distinct(r)
  <2>1. \A i, j \in 1 .. Len(r) : r[i] = r[j] => i + 1 = j + 1
    BY <1>2, <1>3 DEF Distinct
  <2> QED
    BY <1>1, <1>2, <2>1 DEF Distinct
<1>8. Head(s) \in Elements(s)
  BY <1>2, <1>3 DEF Elements
<1> QED
  BY <1>5, <1>6, <1>7, <1>8 DEF r

LEMMA ElementsConcat ==
  ASSUME NEW S, NEW s \in Seq(S), NEW q \in Seq(S)
  PROVE  /\ Elements(s \o q) = Elements(s) \cup Elements(q)
         /\ Distinct(s) /\ Distinct(q) /\ Elements(s) \cap Elements(q) = {} => Distinct(s \o q)
<1> DEFINE r == s \o q
<1>1. /\ Len(s) \in Nat /\ Len(q) \in Nat /\ Len(r) = Len(s) + Len(q)
      /\ \A i \in 1 .. Len(r) : r[i] = IF i <= Len(s) THEN s[i] ELSE q[i - Len(s)]
  BY LenProperties, ConcatProperties
<1> HIDE DEF r
<1>2. \A i \in 1 .. Len(r) : \/ i \in 1 .. Len(s) /\ r[i] = s[i]
                             \/ i - Len(s) \in 1 .. Len(q) /\ r[i] = q[i - Len(s)] /\ i = (i - Len(s)) + Len(s)
  BY <1>1
<1>3. \A i \in 1 .. Len(s) : i \in 1 .. Len(r) /\ r[i] = s[i]
  BY <1>1
<1>4. \A i \in 1 .. Len(q) : i + Len(s) \in 1 .. Len(r) /\ r[i + Len(s)] = q[i]
  BY <1>1
<1>5. Elements(r) = Elements(s) \cup Elements(q)
  <2>1. Elements(r) \subseteq Elements(s) \cup Elements(q)
    BY <1>2 DEF Elements
  <2>2. Elements(s) \subseteq Elements(r)
    BY <1>3 DEF Elements
  <2>3. Elements(q) \subseteq Elements(r)
    BY <1>4 DEF Elements
  <2> QED
    BY <2>1, <2>2, <2>3
<1>6. Distinct(s) /\ Distinct(q) /\ Elements(s) \cap Elements(q) = {} => Distinct(r)
  <2> SUFFICES ASSUME Distinct(s), Distinct(q), Elements(s) \cap Elements(q) = {},
                      NEW i \in 1 .. Len(r), NEW j \in 1 .. Len(r), r[i] = r[j]
               PROVE  i = j
    BY DEF Distinct
  <2>1. CASE i \in 1 .. Len(s) /\ r[i] = s[i] /\ j \in 1 .. Len(s) /\ r[j] = s[j]
    BY <2>1 DEF Distinct
  <2>2. CASE /\ i - Len(s) \in 1 .. Len(q) /\ r[i] = q[i - Len(s)] /\ i = (i - Len(s)) + Len(s)
             /\ j - Len(s) \in 1 .. Len(q) /\ r[j] = q[j - Len(s)] /\ j = (j - Len(s)) + Len(s)
    <3>1. i - Len(s) = j - Len(s)
      BY <2>2 DEF Distinct
    <3> QED
      BY <2>2, <3>1
  <2>3. \A k \in 1 .. Len(s), l \in 1 .. Len(q) : s[k] # q[l]
    BY DEF Elements
  <2> QED
    BY <1>2, <2>1, <2>2, <2>3
<1> QED
  BY <1>5, <1>6 DEF r

-----------------------------------------------------------------------------
(* The parts that a step may disturb, when Held is taken care of.            *)
PlacesOK == OnePlace /\ Where /\ PrivateWork /\ Counted
Outside == {"loop", "asleep", "woken", "block", "poll", "out"}

LEMMA SetsTyped ==
  ASSUME WorkBase
  PROVE  /\ Elements(op_queue_) \subseteq Operations
         /\ \A t \in Threads : Private(t) \subseteq Handlers
         /\ in_reactor \subseteq Handlers /\ unused \subseteq Handlers
         /\ \A t \in Threads : private_op_queue[t] = <<>> <=> Private(t) = {}
  BY ElementsIn DEF WorkBase, SchedulerInv, QueueOK, ThreadOK, Private

(* While a thread is busy, or main has not closed, the work has not run out. *)
LEMMA NotStopped ==
  ASSUME WorkBase, main # "closed" \/ \E t \in Threads : pc[t] \in Inside
  PROVE  ~stopped_ /\ outstanding_work_ \in Nat \ {0}
<1>1. Cardinality(Works) \in Nat /\ Cardinality(Busy) \in Nat /\ (Cardinality(Busy) = 0 <=> Busy = {})
  BY FS_CardinalityType, FS_EmptySet DEF WorkBase, WorkInv, Counted
<1>2. main # "closed" \/ Busy # {}
  BY DEF Busy
<1> QED
  BY <1>1, <1>2 DEF WorkBase, WorkInv, Counted, MainWork

LEMMA CountIsNat ==
  ASSUME WorkBase
  PROVE  outstanding_work_ \in Nat /\ Cardinality(Works) \in Nat /\ Cardinality(Busy) \in Nat
  BY FS_CardinalityType DEF WorkBase, WorkInv, Counted, MainWork

(* Threads move without taking up an operation or leaving one.               *)
LEMMA KeptStep ==
  ASSUME WorkBase, Where',
         UNCHANGED <<op_queue_, in_reactor, unused, private_op_queue, private_outstanding_work, main, countVars>>,
         \A t \in Threads :
            \/ pc'[t] = pc[t]
            \/ pc[t] \in Outside /\ pc'[t] \in Outside
            \/ pc[t] \in {"complete", "enter"} /\ pc'[t] \in {"enter", "invoke", "cleanup"}
            \/ pc[t] = "invoke" /\ pc'[t] = "cleanup"
  PROVE  PlacesOK'
<1>1. Busy' = Busy
  BY DEF Busy, Inside, Outside
<1>2. Flushing' = Flushing
  BY DEF Flushing, Outside
<1>3. Works' = Works
  BY <1>2 DEF Works, Flushed, Private
<1>4. OnePlace'
  BY DEF WorkBase, WorkInv, OnePlace, Private
<1>5. PrivateWork'
  <2>1. ASSUME NEW t \in Threads
        PROVE  private_outstanding_work'[t] =
                 IF pc'[t] \in {"invoke", "cleanup"} THEN Cardinality(Private(t)') ELSE 0
    <3>1. Private(t)' = Private(t)
      BY DEF Private
    <3>2. CASE pc[t] \in {"complete", "enter"}
      <4>1. private_op_queue[t] = <<>> /\ private_outstanding_work[t] = 0
        BY <3>2 DEF WorkBase, WorkInv, Where, PrivateWork
      <4>2. Cardinality(Private(t)) = 0
        BY <4>1, SetsTyped, FS_EmptySet
      <4> QED
        BY <3>1, <4>1, <4>2
    <3> QED
      BY <3>1, <3>2 DEF WorkBase, WorkInv, PrivateWork, Outside
  <2> QED
    BY <2>1 DEF WorkBase, WorkInv, PrivateWork, Private
<1>6. Counted'
  BY <1>1, <1>3 DEF WorkBase, WorkInv, Counted, MainWork, countVars
<1> QED
  BY <1>4, <1>5, <1>6 DEF PlacesOK

LEMMA KeptSteps ==
  ASSUME WorkBase, SignalArrives \/ \E t \in Threads : Returns(t) \/ Sleeps(t) \/ SleepsOn(t)
  PROVE  PlacesOK'
<1> USE DEF WorkBase, SchedulerInv, ThreadOK, Outside, InLoop, Goes
<1>1. UNCHANGED <<op_queue_, in_reactor, unused, private_op_queue, private_outstanding_work, main, countVars,
                  strandVars, op>>
  BY DEF SignalArrives, Returns, Sleeps, SleepsOn, sourceVars, queueVars
<1>2. \A t \in Threads : pc'[t] = pc[t] \/ (pc[t] \in Outside /\ pc'[t] \in Outside)
  <2>1. CASE SignalArrives
    BY <2>1 DEF SignalArrives
  <2>2. ASSUME NEW t \in Threads, Returns(t) \/ Sleeps(t) \/ SleepsOn(t)
        PROVE  \A s \in Threads : pc'[s] = pc[s] \/ (pc[s] \in Outside /\ pc'[s] \in Outside)
    BY <2>2 DEF Returns, Sleeps, SleepsOn
  <2> QED
    BY <2>1, <2>2
<1>3. Where'
  BY <1>1, <1>2 DEF WorkInv, Where, strandVars
<1> QED
  BY <1>1, <1>2, <1>3, KeptStep

LEMMA StrandSteps ==
  ASSUME WorkBase, NEW t \in Threads,
         Completes(t) \/ EntersStrand(t) \/ InvokerRuns(t) \/ InvokerLeaves(t)
  PROVE  PlacesOK'
<1> USE DEF WorkBase, SchedulerInv, ThreadOK, Inv, StrandTypeOK, Goes
<1>1. UNCHANGED <<op_queue_, in_reactor, unused, private_op_queue, private_outstanding_work, main, countVars,
                  scheduled>>
  BY DEF Completes, EntersStrand, InvokerRuns, InvokerLeaves, sourceVars, queueVars, threadVars,
         Enqueue, EnteredInline, HandlerStarts, HandlerEnds, NothingReady, InvokerExits
<1>2. \A s \in Threads : s # t => pc'[s] = pc[s] /\ inv'[s] = inv[s] /\ op'[s] = op[s]
  BY DEF Completes, EntersStrand, InvokerRuns, InvokerLeaves, threadVars,
         Enqueue, EnteredInline, HandlerStarts, HandlerEnds, NothingReady, InvokerExits
<1>3. \/ /\ pc[t] = "complete" /\ op'[t] = None /\ inv' = inv
         /\ \/ pc'[t] = "enter"
            \/ pc'[t] = "cleanup" /\ entering' = entering
      \/ pc[t] = "enter" /\ pc'[t] = "invoke" /\ inv'[t] # "none" /\ entering' = None /\ op' = op
      \/ pc[t] = "invoke" /\ pc'[t] = "invoke" /\ inv'[t] # "none" /\ entering' = entering /\ op' = op
      \/ pc[t] = "invoke" /\ pc'[t] = "cleanup" /\ inv'[t] = "none" /\ entering' = entering /\ op' = op
  <2>1. CASE Completes(t)
    BY <2>1 DEF Completes, Enqueue, TakesLock
  <2>2. CASE EntersStrand(t)
    BY <2>2 DEF EntersStrand, EnteredInline
  <2>3. CASE InvokerRuns(t)
    BY <2>3 DEF InvokerRuns, HandlerStarts, HandlerEnds, NothingReady, threadVars, InStrand
  <2>4. CASE InvokerLeaves(t)
    BY <2>4 DEF InvokerLeaves, InvokerExits
  <2> QED
    BY <2>1, <2>2, <2>3, <2>4
<1>4. Where'
  BY <1>1, <1>2, <1>3 DEF WorkInv, Where
<1> QED
  BY <1>1, <1>2, <1>3, <1>4, KeptStep

-----------------------------------------------------------------------------
(* Steps of a thread on the queue.                                           *)
LEMMA TaskTaken ==
  ASSUME WorkBase, NEW t \in Threads, RunsTask(t)
  PROVE  PlacesOK'
<1> USE DEF WorkBase, WorkInv
<1>1. /\ Elements(op_queue_)' = Elements(op_queue_) \ {"task"}
      /\ Distinct(op_queue_)'
  BY ElementsTail DEF RunsTask, SchedulerInv, QueueOK, OnePlace
<1>2. UNCHANGED <<in_reactor, unused, private_op_queue, private_outstanding_work, main, countVars, strandVars, op>>
  BY DEF RunsTask, sourceVars
<1>3. /\ pc[t] \in Outside /\ pc'[t] \in Outside
      /\ \A s \in Threads : s # t => pc'[s] = pc[s]
  BY DEF RunsTask, InLoop, Goes, Outside, SchedulerInv, ThreadOK
<1>4. Busy' = Busy /\ Flushing' = Flushing
  BY <1>3 DEF Busy, Flushing, Inside, Outside
<1>5. Works' = Works
  BY <1>1, <1>2, <1>4 DEF Works, Flushed, Private
<1>6. OnePlace'
  BY <1>1, <1>2 DEF OnePlace, Private
<1>7. Where'
  BY <1>1, <1>2, <1>3 DEF Where, Outside, strandVars
<1>8. PrivateWork'
  BY <1>2, <1>3 DEF PrivateWork, Private, Outside
<1>9. Counted'
  BY <1>2, <1>4, <1>5 DEF Counted, MainWork, countVars
<1> QED
  BY <1>6, <1>7, <1>8, <1>9 DEF PlacesOK

LEMMA HandlerTaken ==
  ASSUME WorkBase, NEW t \in Threads, RunsHandler(t)
  PROVE  PlacesOK'
<1> DEFINE o == Head(op_queue_)
<1> USE DEF WorkBase, WorkInv
<1>1. /\ o \in Elements(op_queue_) /\ o # "task" /\ o \in Operations
      /\ Elements(op_queue_)' = Elements(op_queue_) \ {o}
      /\ Distinct(op_queue_)'
  BY ElementsTail, SetsTyped DEF RunsHandler, SchedulerInv, QueueOK, OnePlace
<1>2. UNCHANGED <<in_reactor, unused, private_op_queue, private_outstanding_work, main, countVars>> /\ ~stopped_
  BY DEF RunsHandler, sourceVars
<1>3. \/ o = "invoker" /\ InvokerBegins(t) /\ Goes(t, "invoke") /\ UNCHANGED op
      \/ o # "invoker" /\ op' = [op EXCEPT ![t] = o] /\ Goes(t, "complete") /\ UNCHANGED strandVars
  BY DEF RunsHandler
<1>4. /\ pc[t] \in {"loop", "woken"} /\ pc'[t] = IF o = "invoker" THEN "invoke" ELSE "complete"
      /\ \A s \in Threads : s # t => pc'[s] = pc[s]
  BY <1>3 DEF RunsHandler, InLoop, Goes, SchedulerInv, ThreadOK
<1> HIDE DEF o
<1>5. Busy' = Busy \cup {t} /\ t \notin Busy /\ Flushing' = Flushing
  BY <1>4 DEF Busy, Flushing, Inside
<1>6. o \in Works /\ Works' = Works \ {o}
  <2>1. Flushed' = Flushed
    BY <1>2, <1>5 DEF Flushed, Private
  <2>2. o \notin in_reactor
    BY <1>1 DEF OnePlace
  <2>3. o \notin Flushed
    BY <1>1 DEF OnePlace, Flushed, Flushing
  <2> QED
    BY <1>1, <1>2, <2>1, <2>2, <2>3 DEF Works
<1>7. OnePlace'
  BY <1>1, <1>2 DEF OnePlace, Private
<1>8. Where'
  <2>1. CASE o = "invoker"
    <3>1. ~scheduled' /\ entering' = entering /\ op' = op
          /\ inv'[t] = "loop" /\ \A s \in Threads : s # t => inv'[s] = inv[s]
      BY <1>3, <2>1 DEF InvokerBegins, Inv, StrandTypeOK
    <3> QED
      BY <1>1, <1>2, <1>4, <2>1, <3>1 DEF Where
  <2>2. CASE o # "invoker"
    <3>1. UNCHANGED <<scheduled, entering, inv>>
      BY <1>3, <2>2 DEF strandVars
    <3>2. op'[t] # None /\ \A s \in Threads : s # t => op'[s] = op[s]
      BY <1>1, <1>3, <2>2, NoneAssumption DEF Operations, SchedulerInv, ThreadOK
    <3> QED
      BY <1>1, <1>2, <1>4, <2>2, <3>1, <3>2 DEF Where
  <2> QED
    BY <2>1, <2>2
<1>9. PrivateWork'
  <2>1. private_op_queue[t] = <<>> /\ private_outstanding_work[t] = 0
    BY <1>4 DEF Where, PrivateWork
  <2>2. Cardinality(Private(t)) = 0
    BY <2>1, SetsTyped, FS_EmptySet
  <2> QED
    BY <1>2, <1>4, <2>1, <2>2 DEF PrivateWork, Private
<1>10. Counted'
  <2>1. IsFiniteSet(Works') /\ Cardinality(Works') = Cardinality(Works) - 1
    BY <1>6, FS_RemoveElement DEF Counted
  <2>2. IsFiniteSet(Busy') /\ Cardinality(Busy') = Cardinality(Busy) + 1
    BY <1>5, FS_AddElement DEF Counted
  <2> QED
    BY <1>2, <2>1, <2>2, CountIsNat DEF Counted, MainWork, countVars
<1> QED
  BY <1>7, <1>8, <1>9, <1>10 DEF PlacesOK

LEMMA EventsTaken ==
  ASSUME WorkBase, NEW t \in Threads, TaskRun(t)
  PROVE  PlacesOK'
<1> USE DEF WorkBase, WorkInv
<1>1. PICK n \in 0 .. Cardinality(in_reactor) : \E ready \in [1 .. n -> in_reactor] :
         /\ IsInjective(ready)
         /\ in_reactor' = in_reactor \ Range(ready)
         /\ private_op_queue' = [private_op_queue EXCEPT ![t] = ready]
  BY DEF TaskRun
<1>2. PICK ready \in [1 .. n -> in_reactor] :
         /\ IsInjective(ready)
         /\ in_reactor' = in_reactor \ Range(ready)
         /\ private_op_queue' = [private_op_queue EXCEPT ![t] = ready]
  BY <1>1
<1>3. Elements(ready) = Range(ready) /\ Range(ready) \subseteq in_reactor /\ Distinct(ready)
  <2>1. Len(ready) = n
    <3>1. IsFiniteSet(in_reactor)
      BY FS_Subset DEF Counted, Works
    <3>2. n \in Nat
      BY <3>1, FS_CardinalityType
    <3>3. ready = [i \in 1 .. n |-> ready[i]] /\ \A i \in 1 .. n : ready[i] \in in_reactor
      OBVIOUS
    <3> QED
      BY <3>2, <3>3, IsASeq
  <2> QED
    BY <1>2, <2>1 DEF Elements, Range, IsInjective, Distinct
<1>4. UNCHANGED <<op_queue_, unused, private_outstanding_work, main, countVars, strandVars, op>>
  BY DEF TaskRun
<1>5. /\ pc[t] \in {"poll", "block"} /\ pc'[t] = "back"
      /\ \A s \in Threads : s # t => pc'[s] = pc[s]
  BY DEF TaskRun, Goes, SchedulerInv, ThreadOK
<1>6. /\ private_op_queue[t] = <<>>
      /\ Private(t) = {} /\ Private(t)' = Range(ready)
      /\ \A s \in Threads : s # t => private_op_queue'[s] = private_op_queue[s] /\ Private(s)' = Private(s)
  BY <1>2, <1>3, <1>5, SetsTyped DEF Where, Private, SchedulerInv, ThreadOK
<1>7. Busy' = Busy /\ Flushing' = Flushing \cup {t}
  BY <1>5 DEF Busy, Flushing, Inside
<1>8. Works' = Works
  <2>1. Flushed' = Flushed \cup Range(ready)
    <3>1. Range(ready) \subseteq Handlers
      BY <1>3, SetsTyped
    <3> QED
      BY <1>5, <1>6, <1>7, <3>1 DEF Flushed, Flushing
  <2> QED
    BY <1>2, <1>3, <1>4, <2>1 DEF Works
<1>9. OnePlace'
  <2>1. \A s \in Threads : Distinct(private_op_queue'[s])
    BY <1>2, <1>3, <1>6 DEF OnePlace, SchedulerInv, ThreadOK
  <2>2. Distinct(op_queue_)' /\ (unused \cap in_reactor)' = {} /\ ((unused \cup in_reactor) \cap Elements(op_queue_))' = {}
    BY <1>2, <1>4 DEF OnePlace
  <2>3. \A s \in Threads : (Private(s) \cap (unused \cup in_reactor \cup Elements(op_queue_)))' = {}
    BY <1>2, <1>3, <1>4, <1>6 DEF OnePlace
  <2>4. \A r, s \in Threads : r # s => Private(r)' \cap Private(s)' = {}
    BY <1>3, <1>6 DEF OnePlace
  <2> QED
    BY <2>1, <2>2, <2>3, <2>4 DEF OnePlace
<1>10. Where'
  BY <1>4, <1>5, <1>6 DEF Where, strandVars
<1>11. PrivateWork'
  <2>1. IsFiniteSet(Range(ready))
    BY <1>3, FS_Subset DEF Counted, Works
  <2> QED
    BY <1>4, <1>5, <1>6, <2>1 DEF PrivateWork
<1>12. Counted'
  BY <1>4, <1>7, <1>8 DEF Counted, MainWork, countVars
<1> QED
  BY <1>9, <1>10, <1>11, <1>12 DEF PlacesOK

(* A thread gives its private queue to the shared one.                       *)
LEMMA PrivateGiven ==
  ASSUME WorkBase, NEW t \in Threads, TaskCleanup(t) \/ Flush(t)
  PROVE  PlacesOK'
<1> DEFINE q == op_queue_ \o private_op_queue[t]
<1> USE DEF WorkBase, WorkInv
<1>1. op_queue_ \in Seq(Operations) /\ private_op_queue[t] \in Seq(Operations)
  <2>1. private_op_queue[t] \in Seq(Handlers)
    BY DEF SchedulerInv, ThreadOK
  <2> QED
    BY <2>1, SeqMonotonic DEF SchedulerInv, QueueOK, Operations
<1>2. q \in Seq(Operations) /\ Elements(q) = Elements(op_queue_) \cup Private(t) /\ Distinct(q)
  BY <1>1, ElementsConcat, ConcatProperties DEF Private, OnePlace
<1> HIDE DEF q
<1>3. /\ Elements(op_queue_)' \in {Elements(q), Elements(q) \cup {"task"}}
      /\ Distinct(op_queue_)'
  <2>1. CASE TaskCleanup(t)
    <3>1. op_queue_' = Append(q, "task")
      BY <1>2, <2>1, AppendIsConcat DEF TaskCleanup, Operations, q
    <3>2. "task" \notin Elements(q)
      <4>1. "task" \notin Elements(op_queue_)
        BY <2>1 DEF TaskCleanup, InTask, Elements, SchedulerInv, TaskOnce
      <4>2. "task" \notin Private(t)
        BY SetsTyped, OperationAssumption
      <4> QED
        BY <1>2, <4>1, <4>2
    <3> QED
      BY <1>2, <3>1, <3>2, ElementsAppend DEF Operations
  <2>2. CASE Flush(t)
    BY <1>2, <2>2 DEF Flush, q
  <2> QED
    BY <2>1, <2>2
<1>4. UNCHANGED <<in_reactor, unused, private_outstanding_work, main, countVars, strandVars, op>>
  BY DEF TaskCleanup, Flush, sourceVars
<1>5. /\ pc[t] \in {"back", "flush"} /\ pc'[t] = "loop"
      /\ \A s \in Threads : s # t => pc'[s] = pc[s]
  BY DEF TaskCleanup, Flush, Goes, SchedulerInv, ThreadOK
<1>6. /\ private_op_queue'[t] = <<>> /\ Private(t)' = {} /\ Distinct(private_op_queue'[t])
      /\ \A s \in Threads : s # t => private_op_queue'[s] = private_op_queue[s] /\ Private(s)' = Private(s)
  <2>1. Elements(<<>>) = {} /\ Distinct(<<>>)
    BY EmptySeq DEF Elements, Distinct
  <2> QED
    BY <2>1 DEF TaskCleanup, Flush, Private, SchedulerInv, ThreadOK
<1>7. Busy' = Busy
  BY <1>5 DEF Busy, Inside
<1>8. Works' = Works
  <2>1. t \in Flushing /\ Flushing' = Flushing \ {t} /\ Flushing \subseteq Threads
    BY <1>5 DEF Flushing
  <2>2. Flushed = Flushed' \cup Private(t)
    BY <1>6, <2>1, SetsTyped DEF Flushed
  <2>3. "task" \notin Private(t)
    BY SetsTyped, OperationAssumption
  <2> QED
    BY <1>2, <1>3, <1>4, <2>2, <2>3 DEF Works
<1>9. OnePlace'
  <2>1. \A s \in Threads : Distinct(private_op_queue'[s])
    BY <1>6 DEF OnePlace
  <2>2. "task" \notin unused \cup in_reactor /\ \A s \in Threads : "task" \notin Private(s)
    BY SetsTyped, OperationAssumption
  <2>3. (unused \cap in_reactor)' = {} /\ ((unused \cup in_reactor) \cap Elements(op_queue_))' = {}
    BY <1>2, <1>3, <1>4, <2>2 DEF OnePlace
  <2>4. \A s \in Threads : (Private(s) \cap (unused \cup in_reactor \cup Elements(op_queue_)))' = {}
    BY <1>2, <1>3, <1>4, <1>6, <2>2 DEF OnePlace
  <2>5. \A r, s \in Threads : r # s => Private(r)' \cap Private(s)' = {}
    BY <1>6 DEF OnePlace
  <2> QED
    BY <1>3, <2>1, <2>3, <2>4, <2>5 DEF OnePlace
<1>10. Where'
  <2>1. "invoker" \in Elements(op_queue_)' <=> "invoker" \in Elements(op_queue_)
    BY <1>2, <1>3, SetsTyped, OperationAssumption
  <2> QED
    BY <1>4, <1>5, <1>6, <2>1 DEF Where, strandVars
<1>11. PrivateWork'
  BY <1>4, <1>5, <1>6, FS_EmptySet DEF PrivateWork
<1>12. Counted'
  BY <1>4, <1>7, <1>8 DEF Counted, MainWork, countVars
<1> QED
  BY <1>9, <1>10, <1>11, <1>12 DEF PlacesOK

(* The end of a handler: what it has left to its thread becomes work of the
   io_context, and the thread is no longer busy.                             *)
LEMMA HandlerDone ==
  ASSUME WorkBase, NEW t \in Threads, WorkCleanup(t)
  PROVE  PlacesOK'
<1> DEFINE next == IF private_op_queue[t] = <<>> THEN "loop" ELSE "flush"
           then == [pc EXCEPT ![t] = next]
<1> USE DEF WorkBase, WorkInv
<1>1. UNCHANGED <<op_queue_, in_reactor, unused, private_op_queue, main, strandVars, op>>
      /\ pc[t] = "cleanup" /\ private_outstanding_work' = [private_outstanding_work EXCEPT ![t] = 0]
  BY DEF WorkCleanup, sourceVars
<1>2. \/ pc' = then
      \/ pc' = [s \in Threads |-> IF then[s] = "asleep" THEN "woken" ELSE then[s]]
  BY DEF WorkCleanup, WorkFinished
<1>3. /\ pc'[t] = next
      /\ \A s \in Threads : s # t => pc'[s] = pc[s] \/ (pc[s] = "asleep" /\ pc'[s] = "woken")
  BY <1>2 DEF SchedulerInv, ThreadOK
<1>4. private_outstanding_work[t] = Cardinality(Private(t)) /\ IsFiniteSet(Private(t))
      /\ (private_op_queue[t] = <<>> <=> Private(t) = {})
  BY <1>1, SetsTyped DEF PrivateWork
<1>5. Busy' = Busy \ {t} /\ t \in Busy
  BY <1>1, <1>3 DEF Busy, Inside
<1>6. Works' = Works \cup Private(t) /\ Works \cap Private(t) = {}
  <2>1. t \notin Flushing /\ Flushing \subseteq Threads
    BY <1>1 DEF Flushing
  <2>2. Flushing' = IF Private(t) = {} THEN Flushing ELSE Flushing \cup {t}
    BY <1>1, <1>3, <1>4 DEF Flushing
  <2>3. Flushed' = Flushed \cup Private(t)
    BY <1>1, <2>2, SetsTyped DEF Flushed, Private
  <2>4. Flushed \cap Private(t) = {}
    BY <2>1 DEF Flushed, OnePlace
  <2>5. Private(t) \cap (in_reactor \cup Elements(op_queue_)) = {}
    BY DEF OnePlace
  <2> QED
    BY <1>1, <2>3, <2>4, <2>5 DEF Works
<1>7. OnePlace'
  BY <1>1 DEF OnePlace, Private
<1>8. Where'
  BY <1>1, <1>3 DEF Where, strandVars
<1>9. PrivateWork'
  BY <1>1, <1>3 DEF PrivateWork, Private
<1>10. Counted'
  <2>1. IsFiniteSet(Busy') /\ Cardinality(Busy') = Cardinality(Busy) - 1
    BY <1>5, FS_RemoveElement DEF Counted
  <2>2. Cardinality(Works \cap Private(t)) = 0
    BY <1>6, FS_EmptySet
  <2>3. IsFiniteSet(Works') /\ Cardinality(Works') = Cardinality(Works) + Cardinality(Private(t))
    <3>1. IsFiniteSet(Works \cup Private(t))
          /\ Cardinality(Works \cup Private(t)) = Cardinality(Works) + Cardinality(Private(t)) - Cardinality(Works \cap Private(t))
      BY <1>4, FS_Union DEF Counted
    <3> QED
      BY <1>4, <1>6, <2>2, <3>1, CountIsNat, FS_CardinalityType
  <2>4. Cardinality(Private(t)) \in Nat
    BY <1>4, FS_CardinalityType
  <2>5. ~stopped_ /\ outstanding_work_ \in Nat \ {0}
    BY <1>1, NotStopped DEF Inside
  <2>6. CASE Surplus(t) < 0
    <3>1. WorkFinished(then)
      BY <2>6 DEF WorkCleanup
    <3>2. Cardinality(Private(t)) = 0
      BY <1>4, <2>4, <2>6 DEF Surplus
    <3>3. outstanding_work_' = outstanding_work_ - 1 /\ (stopped_' <=> outstanding_work_ = 1)
      BY <2>5, <3>1 DEF WorkFinished
    <3> QED
      BY <1>1, <2>1, <2>3, <2>5, <3>2, <3>3, CountIsNat DEF Counted, MainWork
  <2>7. CASE ~(Surplus(t) < 0)
    <3>1. outstanding_work_' = outstanding_work_ + Cardinality(Private(t)) - 1 /\ stopped_' = stopped_
      BY <1>4, <2>4, <2>5, <2>7 DEF WorkCleanup, Surplus
    <3>2. Cardinality(Private(t)) >= 1
      BY <1>4, <2>4, <2>7 DEF Surplus
    <3> QED
      BY <1>1, <2>1, <2>3, <2>4, <2>5, <3>1, <3>2, CountIsNat DEF Counted, MainWork
  <2> QED
    BY <2>6, <2>7
<1> QED
  BY <1>7, <1>8, <1>9, <1>10 DEF PlacesOK

-----------------------------------------------------------------------------
(* Steps that add to the queue, or start an operation.                       *)
LEMMA InvokerGiven ==
  ASSUME WorkBase, MainEnters \/ \E t \in Threads : InvokerPosted(t)
  PROVE  PlacesOK'
<1> USE DEF WorkBase, WorkInv
<1>1. /\ UNCHANGED <<in_reactor, unused, op, private_op_queue, private_outstanding_work, stopped_>>
      /\ op_queue_' = Append(op_queue_, "invoker")
      /\ outstanding_work_' = outstanding_work_ + 1
      /\ scheduled'
  BY DEF MainEnters, InvokerPosted, Entered, Rescheduled, Push, threadVars, sourceVars
<1>2. "invoker" \notin Elements(op_queue_)
  <2>1. ~scheduled
    BY DEF MainEnters, InvokerPosted, Entered, Rescheduled, Inv, OneHolder
  <2> QED
    BY <2>1 DEF Where
<1>3. /\ Elements(op_queue_)' = Elements(op_queue_) \cup {"invoker"}
      /\ Distinct(op_queue_)'
  BY <1>1, <1>2, ElementsAppend DEF SchedulerInv, QueueOK, Operations, OnePlace
<1>4. \A t \in Threads : \/ pc'[t] = pc[t] /\ inv'[t] = inv[t]
                         \/ pc[t] = "invoke" /\ pc'[t] = "cleanup" /\ inv'[t] = "none"
  BY DEF MainEnters, InvokerPosted, Goes, Entered, Rescheduled, threadVars, SchedulerInv, ThreadOK,
         Inv, StrandTypeOK
<1>5. \/ main' = main /\ entering' = entering
      \/ main = "enter" /\ main' = "open" /\ entering' = None
  BY DEF MainEnters, InvokerPosted, Entered, Rescheduled
<1>6. "invoker" \notin Works /\ Works' = Works \cup {"invoker"} /\ Busy' = Busy
  <2>1. Flushing' = Flushing /\ Busy' = Busy
    BY <1>4 DEF Busy, Flushing, Inside
  <2>2. Flushed' = Flushed
    BY <1>1, <2>1 DEF Flushed, Private
  <2> QED
    BY <1>1, <1>2, <1>3, <2>1, <2>2, SetsTyped, OperationAssumption DEF Works, Flushed
<1>7. OnePlace'
  <2>1. "invoker" \notin unused \cup in_reactor /\ \A t \in Threads : "invoker" \notin Private(t)
    BY SetsTyped, OperationAssumption
  <2> QED
    BY <1>1, <1>3, <2>1 DEF OnePlace, Private
<1>8. Where'
  BY <1>1, <1>3, <1>4, <1>5 DEF Where
<1>9. PrivateWork'
  BY <1>1, <1>4, <1>5 DEF PrivateWork, Private
<1>10. Counted'
  <2>1. IsFiniteSet(Works') /\ Cardinality(Works') = Cardinality(Works) + 1
    BY <1>6, FS_AddElement DEF Counted
  <2>2. ~stopped_
    BY NotStopped DEF MainEnters, InvokerPosted, Inside
  <2>3. MainWork' = MainWork /\ MainWork \in {0, 1}
    BY <1>5 DEF MainWork
  <2> QED
    BY <1>1, <1>6, <2>1, <2>2, <2>3, CountIsNat DEF Counted
<1> QED
  BY <1>7, <1>8, <1>9, <1>10 DEF PlacesOK

LEMMA OperationWaits ==
  ASSUME WorkBase, NEW h \in Handlers, MainWaits(h) \/ \E t \in Threads : HandlerWaits(t, h)
  PROVE  PlacesOK'
<1> USE DEF WorkBase, WorkInv
<1>1. /\ UNCHANGED <<strandVars, queueVars, threadVars, stopped_, main>>
      /\ h \in unused /\ unused' = unused \ {h} /\ in_reactor' = in_reactor \cup {h}
      /\ outstanding_work_' = outstanding_work_ + 1
  BY DEF MainWaits, HandlerWaits
<1>2. h \notin Works /\ Works' = Works \cup {h} /\ Busy' = Busy
  <2>1. h # "task" /\ Flushing \subseteq Threads
    BY OperationAssumption DEF Flushing
  <2> QED
    BY <1>1, <2>1 DEF Works, Busy, Flushed, Flushing, Private, OnePlace, queueVars, threadVars
<1>3. OnePlace'
  BY <1>1 DEF OnePlace, Private, queueVars, threadVars
<1>4. Where'
  BY <1>1 DEF Where, queueVars, threadVars, strandVars
<1>5. PrivateWork'
  BY <1>1 DEF PrivateWork, Private, threadVars
<1>6. Counted'
  <2>1. IsFiniteSet(Works') /\ Cardinality(Works') = Cardinality(Works) + 1
    BY <1>2, FS_AddElement DEF Counted
  <2>2. ~stopped_
    BY NotStopped DEF MainWaits, HandlerWaits, InHandler, Inside
  <2> QED
    BY <1>1, <1>2, <2>1, <2>2, CountIsNat DEF Counted, MainWork
<1> QED
  BY <1>3, <1>4, <1>5, <1>6 DEF PlacesOK

LEMMA OperationContinues ==
  ASSUME WorkBase, NEW t \in Threads, NEW h \in Handlers, HandlerContinues(t, h)
  PROVE  PlacesOK'
<1> USE DEF WorkBase, WorkInv
<1>1. /\ UNCHANGED <<strandVars, queueVars, pc, op, countVars, in_reactor, main>>
      /\ h \in unused /\ unused' = unused \ {h} /\ pc[t] = "invoke"
  BY DEF HandlerContinues, InHandler
<1>2. h \notin Private(t) /\ \A s \in Threads : h \notin Private(s)
  BY <1>1 DEF OnePlace
<1>3. /\ private_op_queue'[t] = Append(private_op_queue[t], h)
      /\ Private(t)' = Private(t) \cup {h} /\ Distinct(private_op_queue'[t])
      /\ \A s \in Threads : s # t => private_op_queue'[s] = private_op_queue[s] /\ Private(s)' = Private(s)
  BY <1>2, ElementsAppend DEF HandlerContinues, Private, SchedulerInv, ThreadOK, OnePlace
<1>4. Works' = Works /\ Busy' = Busy
  <2>1. Flushing' = Flushing /\ t \notin Flushing /\ Flushing \subseteq Threads
    BY <1>1 DEF Flushing
  <2>2. Flushed' = Flushed
    BY <1>3, <2>1 DEF Flushed
  <2> QED
    BY <1>1, <2>2 DEF Works, Busy, queueVars
<1>5. OnePlace'
  <2>1. \A s \in Threads : Distinct(private_op_queue'[s])
    BY <1>3 DEF OnePlace
  <2>2. \A s \in Threads : (Private(s) \cap (unused \cup in_reactor \cup Elements(op_queue_)))' = {}
    BY <1>1, <1>3 DEF OnePlace, queueVars
  <2>3. \A r, s \in Threads : r # s => Private(r)' \cap Private(s)' = {}
    BY <1>2, <1>3 DEF OnePlace
  <2> QED
    BY <1>1, <2>1, <2>2, <2>3 DEF OnePlace, queueVars
<1>6. Where'
  BY <1>1, <1>3 DEF Where, strandVars, queueVars
<1>7. PrivateWork'
  <2>1. private_outstanding_work' = [private_outstanding_work EXCEPT ![t] = @ + 1]
    BY DEF HandlerContinues
  <2>2. IsFiniteSet(Private(t)') /\ Cardinality(Private(t)') = Cardinality(Private(t)) + 1
    BY <1>2, <1>3, FS_AddElement DEF PrivateWork
  <2>3. private_outstanding_work[t] = Cardinality(Private(t))
    BY <1>1 DEF PrivateWork
  <2>4. private_outstanding_work' \in [Threads -> Nat] /\ private_outstanding_work'[t] = Cardinality(Private(t)')
    BY <2>1, <2>2, <2>3 DEF PrivateWork
  <2>5. \A s \in Threads : s # t => private_outstanding_work'[s] = private_outstanding_work[s]
    BY <2>1 DEF PrivateWork
  <2> QED
    BY <1>1, <1>3, <2>2, <2>4, <2>5 DEF PrivateWork
<1>8. Counted'
  BY <1>1, <1>4 DEF Counted, MainWork, countVars
<1> QED
  BY <1>5, <1>6, <1>7, <1>8 DEF PlacesOK

LEMMA OperationPosted ==
  ASSUME WorkBase, NEW h \in Handlers, MainPosts(h) \/ \E t \in Threads : HandlerPosts(t, h)
  PROVE  PlacesOK'
<1> USE DEF WorkBase, WorkInv
<1>1. /\ UNCHANGED <<queueVars, threadVars, countVars, in_reactor, scheduled, inv>>
      /\ unused' = unused \ {h}
  BY DEF MainPosts, HandlerPosts, Enqueue
<1>2. \/ main' = main /\ entering' = entering
      \/ main = "open" /\ main' = "enter"
  BY DEF MainPosts, HandlerPosts, Enqueue, TakesLock
<1>3. Works' = Works /\ Busy' = Busy
  BY <1>1 DEF Works, Busy, Flushed, Flushing, Private, queueVars, threadVars
<1>4. OnePlace'
  BY <1>1 DEF OnePlace, Private, queueVars, threadVars
<1>5. Where'
  BY <1>1, <1>2 DEF Where, queueVars, threadVars
<1>6. PrivateWork'
  BY <1>1, <1>2 DEF PrivateWork, Private, threadVars
<1>7. Counted'
  BY <1>1, <1>2, <1>3 DEF Counted, MainWork, countVars
<1> QED
  BY <1>4, <1>5, <1>6, <1>7 DEF PlacesOK

LEMMA OperationCancelled ==
  ASSUME WorkBase, NEW t \in Threads, NEW h \in Handlers, HandlerCancels(t, h)
  PROVE  PlacesOK'
<1> USE DEF WorkBase, WorkInv
<1>1. /\ UNCHANGED <<strandVars, threadVars, countVars, unused, main>>
      /\ h \in in_reactor /\ in_reactor' = in_reactor \ {h} /\ op_queue_' = Append(op_queue_, h)
  BY DEF HandlerCancels, Push
<1>2. /\ Elements(op_queue_)' = Elements(op_queue_) \cup {h}
      /\ Distinct(op_queue_)'
  BY <1>1, ElementsAppend DEF SchedulerInv, QueueOK, Operations, OnePlace
<1>3. Works' = Works /\ Busy' = Busy
  <2>1. h # "task" /\ Flushed' = Flushed /\ Busy' = Busy
    BY <1>1, OperationAssumption DEF Flushed, Flushing, Private, Busy, threadVars
  <2> QED
    BY <1>1, <1>2, <2>1 DEF Works
<1>4. OnePlace'
  <2>1. h \notin unused /\ \A s \in Threads : h \notin Private(s)
    BY <1>1 DEF OnePlace
  <2> QED
    BY <1>1, <1>2, <2>1 DEF OnePlace, Private, threadVars
<1>5. Where'
  <2>1. h # "invoker"
    BY OperationAssumption
  <2> QED
    BY <1>1, <1>2, <2>1 DEF Where, threadVars, strandVars
<1>6. PrivateWork'
  BY <1>1 DEF PrivateWork, Private, threadVars
<1>7. Counted'
  BY <1>1, <1>3 DEF Counted, MainWork, countVars
<1> QED
  BY <1>4, <1>5, <1>6, <1>7 DEF PlacesOK

LEMMA MainDone ==
  ASSUME WorkBase, MainCloses
  PROVE  PlacesOK'
<1> USE DEF WorkBase, WorkInv
<1>1. /\ UNCHANGED <<strandVars, op_queue_, op, private_op_queue, private_outstanding_work, in_reactor, unused>>
      /\ main = "open" /\ main' = "closed" /\ WorkFinished(pc)
  BY DEF MainCloses, sourceVars
<1>2. \A t \in Threads : pc'[t] = pc[t] \/ (pc[t] = "asleep" /\ pc'[t] = "woken")
  BY <1>1 DEF WorkFinished
<1>3. Works' = Works /\ Busy' = Busy
  <2>1. Flushing' = Flushing /\ Busy' = Busy
    BY <1>2 DEF Busy, Flushing, Inside
  <2> QED
    BY <1>1, <2>1 DEF Works, Flushed, Private
<1>4. OnePlace'
  BY <1>1 DEF OnePlace, Private
<1>5. Where'
  <2>1. entering # None => \E t \in Threads : pc'[t] = "enter"
    BY <1>1, <1>2 DEF Where
  <2> QED
    BY <1>1, <1>2, <2>1 DEF Where, strandVars
<1>6. PrivateWork'
  BY <1>1, <1>2 DEF PrivateWork, Private
<1>7. Counted'
  <2>1. ~stopped_ /\ outstanding_work_ \in Nat \ {0}
    BY <1>1, NotStopped
  <2>2. outstanding_work_' = outstanding_work_ - 1 /\ (stopped_' <=> outstanding_work_ = 1)
    BY <1>1, <2>1 DEF WorkFinished
  <2> QED
    BY <1>1, <1>3, <2>1, <2>2, CountIsNat DEF Counted, MainWork
<1> QED
  BY <1>4, <1>5, <1>6, <1>7 DEF PlacesOK

-----------------------------------------------------------------------------
LEMMA WorkStarts == Init => WorkInv
<1> SUFFICES ASSUME Init PROVE WorkInv
  OBVIOUS
<1>1. op_queue_ = <<"task">> /\ Len(op_queue_) = 1
  BY DEF Init
<1>2. Elements(op_queue_) = {"task"} /\ Distinct(op_queue_)
  BY <1>1 DEF Elements, Distinct
<1>3. \A t \in Threads : private_op_queue[t] = <<>> /\ Private(t) = {} /\ Distinct(private_op_queue[t])
  <2>1. Elements(<<>>) = {} /\ Distinct(<<>>)
    BY EmptySeq DEF Elements, Distinct
  <2> QED
    BY <2>1 DEF Init, Private
<1>4. OnePlace
  BY <1>2, <1>3, OperationAssumption DEF Init, OnePlace
<1>5. Held /\ Where
  BY <1>2, <1>3 DEF Init, StrandInit, Held, Where
<1>6. PrivateWork
  BY <1>3, FS_EmptySet DEF Init, PrivateWork
<1>7. Counted
  <2>1. Works = {} /\ Busy = {}
    BY <1>2, <1>3 DEF Init, Works, Flushed, Flushing, Busy, Inside
  <2> QED
    BY <2>1, FS_EmptySet DEF Init, Counted, MainWork
<1> QED
  BY <1>4, <1>5, <1>6, <1>7 DEF WorkInv

LEMMA WorkKeeps == WorkBase /\ [StrandNext]_strandVars /\ [Next]_vars => WorkInv'
<1> SUFFICES ASSUME WorkBase, [StrandNext]_strandVars, [Next]_vars
             PROVE  WorkInv'
  OBVIOUS
<1>1. Held'
  BY HeldKeeps DEF WorkBase, WorkInv
<1>2. CASE UNCHANGED vars
  <2>1. Works' = Works /\ Busy' = Busy
    BY <1>2 DEF vars, queueVars, threadVars, sourceVars, Works, Flushed, Flushing, Private, Busy
  <2> QED
    BY <1>1, <1>2, <2>1 DEF vars, queueVars, threadVars, countVars, sourceVars, strandVars, WorkBase, WorkInv,
                OnePlace, Where, PrivateWork, Counted, Private, MainWork
<1>3. ASSUME NEW t \in Threads, Step(t)
      PROVE  PlacesOK'
  BY <1>3, KeptSteps, StrandSteps, TaskTaken, HandlerTaken, EventsTaken, PrivateGiven, HandlerDone,
     InvokerGiven DEF Step
<1>4. ASSUME NEW t \in Threads, NEW h \in Handlers, Acts(t, h)
      PROVE  PlacesOK'
  BY <1>4, OperationWaits, OperationContinues, OperationPosted, OperationCancelled DEF Acts
<1>5. ASSUME NEW h \in Handlers, MainWaits(h) \/ MainPosts(h)
      PROVE  PlacesOK'
  BY <1>5, OperationWaits, OperationPosted
<1>6. PlacesOK' => WorkInv'
  BY <1>1 DEF PlacesOK, WorkInv
<1> QED
  BY <1>2, <1>3, <1>4, <1>5, <1>6, KeptSteps, InvokerGiven, MainDone DEF Next, AllReturned

\* outstanding_work_ counts what is still to be done, and no operation is at two
\* places or lost between two.
THEOREM WorkInvariant == Spec => []WorkInv
<1>1. SchedulerInv /\ Inv /\ WorkInv /\ [Next]_vars => WorkInv'
  BY StrandIsRun, WorkKeeps DEF WorkBase
<1>2. Spec => []Inv
  BY SchedulerRunsStrand, StrandInvariant
<1> QED
  BY <1>1, <1>2, WorkStarts, SchedulerInvariant, PTL DEF Spec

LEMMA StoppedWhenDone ==
  ASSUME WorkBase
  PROVE  stopped_ <=> main = "closed" /\ Works = {} /\ Busy = {}
<1>1. stopped_ <=> Cardinality(Works) + Cardinality(Busy) + MainWork = 0
  BY DEF WorkBase, WorkInv, Counted
<1>2. /\ Cardinality(Works) \in Nat /\ (Cardinality(Works) = 0 <=> Works = {})
      /\ Cardinality(Busy) \in Nat /\ (Cardinality(Busy) = 0 <=> Busy = {})
  BY FS_EmptySet, CountIsNat DEF WorkBase, WorkInv, Counted
<1> QED
  BY <1>1, <1>2 DEF MainWork

\* run() returns exactly when main holds no work any more, no operation waits or is
\* complete, and no thread runs a handler: it neither drops work nor goes on for
\* nothing.
THEOREM SchedulerStopsWhenDone == Spec => [](stopped_ <=> main = "closed" /\ Works = {} /\ Busy = {})
<1>1. SchedulerInv /\ Inv /\ WorkInv => (stopped_ <=> main = "closed" /\ Works = {} /\ Busy = {})
  BY StoppedWhenDone DEF WorkBase
<1>2. Spec => []Inv
  BY SchedulerRunsStrand, StrandInvariant
<1> QED
  BY <1>1, <1>2, SchedulerInvariant, WorkInvariant, PTL

\* When the count of outstanding work lets run() return, nothing is left to run or
\* to wait for, in the queue, in a thread, in the reactor or in the strand.
THEOREM SchedulerRunsOut == Spec => []RunsOut
<1>1. SchedulerInv /\ Inv /\ WorkInv => RunsOut
  <2> SUFFICES ASSUME SchedulerInv, Inv, WorkInv, stopped_
               PROVE  /\ main = "closed" /\ in_reactor = {} /\ ~locked_
                      /\ op_queue_ \in {<<>>, <<"task">>}
                      /\ \A t \in Threads : private_op_queue[t] = <<>> /\ op[t] = None /\ cur[t] = None
    BY DEF RunsOut
  <2>1. WorkBase
    BY DEF WorkBase
  <2>2. main = "closed" /\ Works = {} /\ \A t \in Threads : pc[t] \notin Inside
    BY <2>1, StoppedWhenDone DEF Busy
  <2>3. in_reactor = {} /\ Elements(op_queue_) \subseteq {"task"} /\ Flushed = {}
    BY <2>2 DEF Works
  <2>4. \A t \in Threads : private_op_queue[t] = <<>>
    <3> SUFFICES ASSUME NEW t \in Threads, private_op_queue[t] # <<>>
                 PROVE  FALSE
      OBVIOUS
    <3>1. t \in Flushing
      BY <2>2 DEF WorkInv, Where, Flushing, Inside
    <3>2. Private(t) # {} /\ Private(t) \subseteq Handlers
      BY <2>1, SetsTyped
    <3> QED
      BY <2>3, <3>1, <3>2 DEF Flushed
  <2>5. \A t \in Threads : op[t] = None /\ inv[t] = "none" /\ cur[t] = None
    BY <2>2 DEF WorkInv, Where, Inside, Inv, InStrand
  <2>6. ~locked_
    BY <2>2, <2>3, <2>5 DEF WorkInv, Held, Where, Inside
  <2>7. op_queue_ \in {<<>>, <<"task">>}
    <3>1. Len(op_queue_) \in Nat /\ \A i \in 1 .. Len(op_queue_) : op_queue_[i] = "task"
      BY <2>3, LenProperties DEF SchedulerInv, QueueOK, Elements
    <3>2. \A i, j \in 1 .. Len(op_queue_) : i = j
      BY <3>1 DEF SchedulerInv, TaskOnce
    <3>3. Len(op_queue_) \in {0, 1}
      BY <3>1, <3>2
    <3>4. CASE Len(op_queue_) = 0
      BY <3>4, EmptySeq DEF SchedulerInv, QueueOK
    <3>5. CASE Len(op_queue_) = 1
      <4>1. op_queue_[1] = "task"
        BY <3>1, <3>5
      <4>2. <<"task">> \in Seq(Operations) /\ Len(<<"task">>) = 1
        BY DEF Operations
      <4> QED
        BY <3>5, <4>1, <4>2, SeqEqual DEF SchedulerInv, QueueOK
    <3> QED
      BY <3>3, <3>4, <3>5
  <2> QED
    BY <2>2, <2>3, <2>4, <2>5, <2>6, <2>7
<1>2. Spec => []Inv
  BY SchedulerRunsStrand, StrandInvariant
<1> QED
  BY <1>1, <1>2, SchedulerInvariant, WorkInvariant, PTL
=============================================================================
