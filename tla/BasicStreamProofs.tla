-------------------------- MODULE BasicStreamProofs --------------------------
(* The deadlines of a basic_stream, without a rate policy, and the count of
   those who wait for the rate timer, with any policy; for any number of calls.

   A handler of a deadline acts on whatever operation it finds.  What makes that
   right is the tick: a handler whose tick is not stale belongs to an I/O that is
   outstanding, is the only one of its direction, and has not run before.  With
   a rate policy this fails, as the wait for budget may end and leave the wait on
   the deadline behind.                                                        *)
EXTENDS BasicStream, SequenceTheorems, FiniteSetTheorems, TLAPS

\* An I/O is outstanding that was started under a deadline
Armed(d) == phase[d] \in {"io", "connect"} /\ expiry[d] # "never"

\* A direction with an operation is pending, and a connect takes both
PhaseOK ==
  /\ \A d \in Dirs : phase[d] # "idle" => pending[d]
  /\ phase["write"] = "connect" => pending["read"] /\ phase["read"] = "idle"

\* Without a policy there is always budget, and nobody waits for it
NoPolicy ==
  /\ \A d \in Dirs : avail[d] = Limit /\ phase[d] # "rate"
  /\ \A w \in Waiters : rate[w] = "none"

\* The wait on a deadline is that of the I/O, and the flag belongs to it
WaitsOK(d) ==
  /\ Len(waits[d]) <= 1
  /\ waits[d] # <<>> =>
       waits[d][1] = tick[d] /\ Armed(d) /\ expiry[d] = "set" /\ ~timeout[d]
FlagOK(d) == timeout[d] => Armed(d) /\ expiry[d] = "past" /\ waits[d] = <<>>

\* At most one handler that has expired is not stale, and then it is the I/O's
ExpiredOK(d) ==
  \A i \in 1 .. Len(expired[d]) :
    /\ expired[d][i] <= tick[d]
    /\ expired[d][i] = tick[d] =>
         /\ Armed(d) /\ expiry[d] = "past" /\ waits[d] = <<>> /\ ~timeout[d]
         /\ \A j \in 1 .. Len(expired[d]) : expired[d][j] = tick[d] => i = j

DirOK(d) == WaitsOK(d) /\ FlagOK(d) /\ ExpiredOK(d)
Deadlines == \A d \in Dirs : DirOK(d)

DeadlineInv == TypeOK /\ PhaseOK /\ NoPolicy /\ Deadlines /\ AssertionsHold

(* The rate policy *)
RateOK == \A d \in Dirs : rate[d] # "none" => phase[d] = "rate"
CallsOK == calls["stop"] <= Stops /\ calls["connect"] <= Connects
WaitsOn(w) == IF rate[w] = "none" THEN 0 ELSE 1
Sum == WaitsOn("read") + WaitsOn("write") + WaitsOn("slice")
Counted == Sum <= waiting /\ (Uncut => waiting = Sum /\ \A w \in Waiters : rate[w] # "aborted")

RateInv == TypeOK /\ PhaseOK /\ RateOK /\ CallsOK /\ Counted

-----------------------------------------------------------------------------
(* Types, for any policy, one part of the state after the other *)

OpsOK ==
  /\ pending \in [Dirs -> BOOLEAN]
  /\ phase \in [Dirs -> {"idle", "rate", "io", "empty", "connect"}]
IoOK == io \in [Dirs -> {"none", "pending", "ok", "err"}]
ClockOK ==
  /\ tick \in [Dirs -> Nat] /\ timeout \in [Dirs -> BOOLEAN]
  /\ expiry \in [Dirs -> {"never", "set", "past"}]
QueuesOK == waits \in [Dirs -> Seq(Nat)] /\ expired \in [Dirs -> Seq(Nat)]
RateTyped == rate \in [Waiters -> {"none", "wait", "ok", "aborted"}]
BudgetOK ==
  /\ sock \in BOOLEAN /\ avail \in [Dirs -> 0 .. Limit] /\ waiting \in Nat /\ ratePast \in BOOLEAN
CallsTyped == calls \in [{"read", "write", "connect", "expires", "stop"} -> Nat]
ToldOK == result \in [Dirs -> Results] /\ asserts \subseteq Assertions

LEMMA TypeParts ==
  TypeOK <=> /\ OpsOK /\ IoOK /\ ClockOK /\ QueuesOK /\ RateTyped
             /\ BudgetOK /\ CallsTyped /\ ToldOK
  BY DEF TypeOK, OpsOK, IoOK, ClockOK, QueuesOK, RateTyped, BudgetOK, CallsTyped, ToldOK

\* The actions, as the proofs below take them apart
Actions ==
  \/ \E d \in Dirs : \/ AsyncTransfer(d) \/ AsyncEmptyTransfer(d) \/ timeout_handler(d)
                      \/ BudgetGranted(d) \/ BudgetCanceled(d) \/ TransferDone(d)
                      \/ EmptyTransferDone(d) \/ DeadlinePasses(d) \/ IoCompletes(d)
  \/ \E e \in {"never", "set", "past"} : ExpiresAt(e)
  \/ \E c \in BOOLEAN : Cancel(c)
  \/ AsyncConnect \/ ConnectDone \/ RateTimerExpires \/ SliceEnds
LEMMA NextActions == Next => Actions
  BY DEF Next, Application, Handler, Actions

LEMMA OpsStep == ASSUME OpsOK, Actions PROVE OpsOK'
<1> USE DEF OpsOK
<1>1. CASE \E d \in Dirs : AsyncTransfer(d)
  BY <1>1 DEF AsyncTransfer
<1>2. CASE \E d \in Dirs : AsyncEmptyTransfer(d)
  BY <1>2 DEF AsyncEmptyTransfer
<1>3. CASE \E d \in Dirs : timeout_handler(d) \/ DeadlinePasses(d) \/ IoCompletes(d)
  BY <1>3 DEF timeout_handler, DeadlinePasses, IoCompletes
<1>4. CASE \E d \in Dirs : BudgetGranted(d) \/ BudgetCanceled(d)
  BY <1>4 DEF BudgetGranted, BudgetCanceled, Completes
<1>5. CASE \E d \in Dirs : TransferDone(d) \/ EmptyTransferDone(d)
  BY <1>5 DEF TransferDone, EmptyTransferDone, Completes
<1>6. CASE \/ \E e \in {"never", "set", "past"} : ExpiresAt(e)
           \/ \E c \in BOOLEAN : Cancel(c)
           \/ RateTimerExpires \/ SliceEnds
  BY <1>6 DEF ExpiresAt, Cancel, RateTimerExpires, SliceEnds
<1>7. CASE AsyncConnect \/ ConnectDone
  BY <1>7 DEF AsyncConnect, ConnectDone, Dirs
<1> QED
  BY <1>1, <1>2, <1>3, <1>4, <1>5, <1>6, <1>7 DEF Actions

LEMMA IoStep == ASSUME IoOK, Actions PROVE IoOK'
<1> USE DEF IoOK
<1>1. Aborted(io) \in [Dirs -> {"none", "pending", "ok", "err"}]
  BY DEF Aborted
<1>2. Started \in {"pending", "err"}
  BY DEF Started
<1>3. CASE \E d \in Dirs : AsyncTransfer(d) \/ AsyncEmptyTransfer(d) \/ BudgetGranted(d)
  BY <1>2, <1>3 DEF AsyncTransfer, AsyncEmptyTransfer, BudgetGranted
<1>4. CASE \E d \in Dirs : timeout_handler(d) \/ DeadlinePasses(d)
  BY <1>1, <1>4 DEF timeout_handler, DeadlinePasses, ClosesSocket
<1>5. CASE \E d \in Dirs : TransferDone(d) \/ BudgetCanceled(d) \/ IoCompletes(d)
  BY <1>5 DEF TransferDone, BudgetCanceled, IoCompletes
<1>6. CASE \E d \in Dirs : EmptyTransferDone(d)
  BY <1>1, <1>6 DEF EmptyTransferDone
<1>7. CASE \/ \E e \in {"never", "set", "past"} : ExpiresAt(e)
           \/ \E c \in BOOLEAN : Cancel(c)
           \/ RateTimerExpires \/ SliceEnds
  BY <1>1, <1>7 DEF ExpiresAt, Cancel, ClosesSocket, RateTimerExpires, SliceEnds
<1>8. CASE AsyncConnect \/ ConnectDone
  BY <1>8 DEF AsyncConnect, ConnectDone, Dirs
<1> QED
  BY <1>3, <1>4, <1>5, <1>6, <1>7, <1>8 DEF Actions

\* What the end of an I/O does to tick and flag
LEMMA FinishesClock == ASSUME ClockOK, NEW d \in Dirs, NEW r, Finishes(d, r) PROVE ClockOK'
<1>1. CASE expiry[d] = "never"
  BY <1>1 DEF Finishes, ClockOK, deadline
<1>2. CASE expiry[d] # "never"
  <2> DEFINE after == FlagAfter(timeout[d], waits[d] = <<>> /\ timeout[d])
  <2>1. after \in BOOLEAN
    BY DEF FlagAfter
  <2>2. timeout' = [timeout EXCEPT ![d] = after]
    BY <1>2, Zenon DEF Finishes
  <2>3. tick' = [tick EXCEPT ![d] = @ + 1] /\ expiry' = expiry
    BY <1>2 DEF Finishes, NextTick
  <2> HIDE DEF after
  <2> QED
    BY <2>1, <2>2, <2>3 DEF ClockOK
<1> QED
  BY <1>1, <1>2

LEMMA ClockStep == ASSUME ClockOK, Actions PROVE ClockOK'
<1>1. CASE \E d \in Dirs : TransferDone(d)
  BY <1>1, FinishesClock DEF TransferDone
<1>2. CASE ConnectDone
  BY <1>2, FinishesClock DEF ConnectDone, Dirs
<1> USE DEF ClockOK
<1>3. CASE \E d \in Dirs : AsyncTransfer(d) \/ AsyncEmptyTransfer(d)
  BY <1>3 DEF AsyncTransfer, AsyncEmptyTransfer, deadline
<1>4. CASE \E d \in Dirs : timeout_handler(d) \/ DeadlinePasses(d) \/ IoCompletes(d)
  BY <1>4 DEF timeout_handler, DeadlinePasses, IoCompletes, deadline
<1>5. CASE \E d \in Dirs : BudgetGranted(d) \/ BudgetCanceled(d) \/ EmptyTransferDone(d)
  BY <1>5 DEF BudgetGranted, BudgetCanceled, EmptyTransferDone, deadline
<1>6. CASE \/ \E e \in {"never", "set", "past"} : ExpiresAt(e)
           \/ \E c \in BOOLEAN : Cancel(c)
           \/ AsyncConnect \/ RateTimerExpires \/ SliceEnds
  BY <1>6 DEF ExpiresAt, Cancel, AsyncConnect, RateTimerExpires, SliceEnds, deadline
<1> QED
  BY <1>1, <1>2, <1>3, <1>4, <1>5, <1>6 DEF Actions

\* A wait starts: in waits, in expired, or not at all
LEMMA WaitStartsTyped == ASSUME QueuesOK, ClockOK, NEW d \in Dirs, WaitStarts(d) PROVE QueuesOK'
<1>1. Append(waits[d], tick[d]) \in Seq(Nat) /\ Append(expired[d], tick[d]) \in Seq(Nat)
  BY AppendProperties DEF QueuesOK, ClockOK
<1> QED
  BY <1>1 DEF WaitStarts, QueuesOK

LEMMA FinishesQueues == ASSUME QueuesOK, NEW d \in Dirs, NEW r, Finishes(d, r) PROVE QueuesOK'
<1>1. <<>> \in Seq(Nat)
  BY EmptySeq
<1> QED
  BY <1>1 DEF Finishes, QueuesOK, deadline

LEMMA QueuesStep == ASSUME QueuesOK, ClockOK, Actions PROVE QueuesOK'
<1>1. CASE \E d \in Dirs : TransferDone(d)
  BY <1>1, FinishesQueues DEF TransferDone
<1>2. CASE ConnectDone
  BY <1>2, FinishesQueues DEF ConnectDone, Dirs
<1>3. CASE \E d \in Dirs : AsyncTransfer(d)
  BY <1>3, WaitStartsTyped DEF AsyncTransfer
<1>4. CASE AsyncConnect
  BY <1>4, WaitStartsTyped DEF AsyncConnect, Dirs
<1> USE DEF QueuesOK
<1>5. ASSUME NEW d \in Dirs, timeout_handler(d)
      PROVE  QueuesOK'
  <2>1. Tail(expired[d]) \in Seq(Nat)
    BY <1>5, HeadTailProperties DEF timeout_handler
  <2> QED
    BY <1>5, <2>1 DEF timeout_handler
<1>6. ASSUME NEW d \in Dirs, DeadlinePasses(d)
      PROVE  QueuesOK'
  <2>1. expired[d] \o waits[d] \in Seq(Nat) /\ <<>> \in Seq(Nat)
    BY ConcatProperties, EmptySeq
  <2> QED
    BY <1>6, <2>1 DEF DeadlinePasses
<1>7. CASE \E e \in {"never", "set", "past"} : ExpiresAt(e)
  <2>1. <<>> \in Seq(Nat)
    BY EmptySeq
  <2> QED
    BY <1>7, <2>1 DEF ExpiresAt
<1>8. CASE \E d \in Dirs : \/ AsyncEmptyTransfer(d) \/ IoCompletes(d) \/ BudgetGranted(d)
                          \/ BudgetCanceled(d) \/ EmptyTransferDone(d)
  BY <1>8
  DEF AsyncEmptyTransfer, IoCompletes, BudgetGranted, BudgetCanceled, EmptyTransferDone, deadline
<1>9. CASE RateTimerExpires \/ SliceEnds \/ \E c \in BOOLEAN : Cancel(c)
  BY <1>9 DEF Cancel, RateTimerExpires, SliceEnds, deadline
<1> QED
  BY <1>1, <1>2, <1>3, <1>4, <1>5, <1>6, <1>7, <1>8, <1>9 DEF Actions

\* The rate timer: what a close leaves of the waits, and what a waiter does
LEMMA RateStep == ASSUME RateTyped, Actions PROVE RateTyped'
<1> USE DEF RateTyped
<1>1. RateAborted \in [Waiters -> {"none", "wait", "ok", "aborted"}]
  BY DEF RateAborted
<1>2. \A d \in Dirs : d \in Waiters
  BY DEF Waiters
<1>3. ASSUME NEW w \in Waiters, on_timer(w)
      PROVE  RateTyped'
  BY <1>3 DEF on_timer, Waiters
<1>4. CASE SliceEnds \/ \E d \in Dirs : BudgetGranted(d)
  BY <1>2, <1>3, <1>4 DEF SliceEnds, BudgetGranted, Waiters
<1>5. CASE \E d \in Dirs : AsyncTransfer(d) \/ BudgetCanceled(d)
  BY <1>2, <1>5 DEF AsyncTransfer, BudgetCanceled
<1>6. CASE \E d \in Dirs : timeout_handler(d) \/ EmptyTransferDone(d)
  BY <1>1, <1>6 DEF timeout_handler, EmptyTransferDone, ClosesSocket
<1>7. CASE \E c \in BOOLEAN : Cancel(c)
  BY <1>1, <1>7 DEF Cancel, ClosesSocket
<1>8. CASE RateTimerExpires
  BY <1>8 DEF RateTimerExpires
<1>9. CASE \/ \E d \in Dirs : \/ AsyncEmptyTransfer(d) \/ TransferDone(d) \/ DeadlinePasses(d)
                              \/ IoCompletes(d)
           \/ \E e \in {"never", "set", "past"} : ExpiresAt(e)
           \/ AsyncConnect \/ ConnectDone
  BY <1>9 DEF AsyncEmptyTransfer, TransferDone, DeadlinePasses, IoCompletes, ExpiresAt,
              AsyncConnect, ConnectDone, policy
<1> QED
  BY <1>4, <1>5, <1>6, <1>7, <1>8, <1>9 DEF Actions

LEMMA BudgetStep == ASSUME BudgetOK, StreamAssumption, Actions PROVE BudgetOK'
<1> USE DEF BudgetOK
<1>1. ASSUME NEW w \in Waiters, on_timer(w)
      PROVE  avail' \in [Dirs -> 0 .. Limit] /\ waiting' \in Nat /\ ratePast' \in BOOLEAN
  <2>1. CASE OthersWait
    BY <1>1, <2>1 DEF on_timer, OthersWait
  <2>2. CASE ~OthersWait
    <3>1. avail' = [d \in Dirs |-> Limit] /\ waiting' = 1 /\ ratePast' = FALSE
      BY <1>1, <2>2 DEF on_timer, NewSliceWaiters
    <3>2. Limit \in 0 .. Limit
      BY DEF StreamAssumption
    <3> QED
      BY <3>1, <3>2
  <2> QED
    BY <2>1, <2>2
<1>2. CASE SliceEnds \/ \E d \in Dirs : BudgetGranted(d)
  BY <1>1, <1>2 DEF SliceEnds, BudgetGranted, Waiters
<1>3. CASE \E d \in Dirs : AsyncTransfer(d) \/ BudgetCanceled(d)
  BY <1>3 DEF AsyncTransfer, Joined, BudgetCanceled
<1>4. CASE \E d \in Dirs : timeout_handler(d) \/ EmptyTransferDone(d)
  BY <1>4 DEF timeout_handler, EmptyTransferDone, ClosesSocket
<1>5. CASE \E c \in BOOLEAN : Cancel(c)
  BY <1>5 DEF Cancel, ClosesSocket
<1>6. CASE AsyncConnect \/ RateTimerExpires
  BY <1>6 DEF AsyncConnect, RateTimerExpires, policy
<1>7. ASSUME NEW d \in Dirs, TransferDone(d)
      PROVE  BudgetOK'
  <2>1. \A n \in 0 .. Limit : Spent(d, n) \in 0 .. Limit
    BY DEF Spent, StreamAssumption
  <2>2. avail' \in [Dirs -> 0 .. Limit]
    BY <1>7, <2>1, 0 \in 0 .. Limit DEF TransferDone, StreamAssumption
  <2> QED
    BY <1>7, <2>2 DEF TransferDone
<1>8. CASE \/ \E d \in Dirs : AsyncEmptyTransfer(d) \/ DeadlinePasses(d) \/ IoCompletes(d)
           \/ \E e \in {"never", "set", "past"} : ExpiresAt(e)
           \/ ConnectDone
  BY <1>8 DEF AsyncEmptyTransfer, DeadlinePasses, IoCompletes, ExpiresAt, ConnectDone, policy
<1> QED
  BY <1>2, <1>3, <1>4, <1>5, <1>6, <1>7, <1>8 DEF Actions

LEMMA CallsStep == ASSUME CallsTyped, Actions PROVE CallsTyped'
<1> USE DEF CallsTyped
<1>1. CASE \E d \in Dirs : AsyncTransfer(d) \/ AsyncEmptyTransfer(d)
  BY <1>1 DEF AsyncTransfer, AsyncEmptyTransfer, Dirs
<1>2. ASSUME NEW k \in {"connect", "expires", "stop"}, calls[k] > 0,
             calls' = [calls EXCEPT ![k] = @ - 1]
      PROVE  CallsTyped'
  BY <1>2
<1>4. CASE AsyncConnect
  BY <1>2, <1>4 DEF AsyncConnect
<1>5. CASE \E e \in {"never", "set", "past"} : ExpiresAt(e)
  BY <1>2, <1>5 DEF ExpiresAt
<1>6. CASE \E c \in BOOLEAN : Cancel(c)
  BY <1>2, <1>6 DEF Cancel
<1>3. CASE \/ \E d \in Dirs : \/ timeout_handler(d) \/ BudgetGranted(d) \/ BudgetCanceled(d)
                              \/ TransferDone(d) \/ EmptyTransferDone(d) \/ DeadlinePasses(d)
                              \/ IoCompletes(d)
           \/ ConnectDone \/ RateTimerExpires \/ SliceEnds
  BY <1>3 DEF timeout_handler, BudgetGranted, BudgetCanceled, TransferDone, EmptyTransferDone,
              DeadlinePasses, IoCompletes, ConnectDone, RateTimerExpires, SliceEnds
<1> QED
  BY <1>1, <1>3, <1>4, <1>5, <1>6 DEF Actions

LEMMA FailTyped == \A name \in Assertions : \A c : Fail(name, c) \subseteq Assertions
  BY DEF Fail

LEMMA FinishesTold ==
  ASSUME ToldOK, NEW d \in Dirs, NEW r \in Results, Finishes(d, r)
  PROVE  ToldOK'
<1>1. result' \in [Dirs -> Results]
  BY DEF Finishes, ToldOK, Results
<1>2. asserts' \subseteq Assertions
  <2>1. {"cancel: more than one wait", "cancel: timed out but waiting"} \subseteq Assertions
    BY DEF Assertions
  <2> QED
    BY <2>1, FailTyped DEF Finishes, ToldOK
<1> QED
  BY <1>1, <1>2 DEF ToldOK

LEMMA ToldStep == ASSUME ToldOK, Actions PROVE ToldOK'
<1>1. ASSUME NEW d \in Dirs, TransferDone(d)
      PROVE  ToldOK'
  BY <1>1, FinishesTold DEF TransferDone, Results
<1>2. CASE ConnectDone
  BY <1>2, FinishesTold DEF ConnectDone, Results, Dirs
<1>3. ASSUME NEW w \in Waiters, on_timer(w), result' = result
      PROVE  ToldOK'
  <2>1. {"rate: nobody was waiting", "rate: a wait is outstanding"} \subseteq Assertions
    BY DEF Assertions
  <2> QED
    BY <1>3, <2>1, FailTyped DEF on_timer, ToldOK
<1>4. CASE SliceEnds \/ \E d \in Dirs : BudgetGranted(d)
  BY <1>3, <1>4 DEF SliceEnds, BudgetGranted, Waiters
<1> USE DEF ToldOK
<1>5. CASE \E d \in Dirs : timeout_handler(d)
  <2>1. {"timeout: tick in the future", "timeout: already timed out"} \subseteq Assertions
    BY DEF Assertions
  <2> QED
    BY <1>5, <2>1, FailTyped DEF timeout_handler
<1>6. CASE \E e \in {"never", "set", "past"} : ExpiresAt(e)
  BY <1>6, FailTyped, "expires: a wait is outstanding" \in Assertions DEF ExpiresAt, Assertions
<1>7. CASE \E d \in Dirs : BudgetCanceled(d) \/ EmptyTransferDone(d)
  BY <1>7 DEF BudgetCanceled, EmptyTransferDone, Results
<1>8. CASE \/ \E d \in Dirs : \/ AsyncTransfer(d) \/ AsyncEmptyTransfer(d) \/ DeadlinePasses(d)
                              \/ IoCompletes(d)
           \/ \E c \in BOOLEAN : Cancel(c)
           \/ AsyncConnect \/ RateTimerExpires
  BY <1>8 DEF AsyncTransfer, AsyncEmptyTransfer, DeadlinePasses, IoCompletes, Cancel,
              AsyncConnect, RateTimerExpires, history
<1> QED
  BY <1>1, <1>2, <1>4, <1>5, <1>6, <1>7, <1>8 DEF Actions

LEMMA InitTyped == StreamAssumption /\ Init => TypeOK
<1> SUFFICES ASSUME StreamAssumption, Init
             PROVE  TypeOK
  OBVIOUS
<1>1. <<>> \in Seq(Nat)
  BY EmptySeq
<1> QED
  BY <1>1 DEF StreamAssumption, Init, TypeOK, Results

LEMMA StepTyped == ASSUME StreamAssumption, TypeOK, [Next]_vars PROVE TypeOK'
<1>1. CASE Next
  BY <1>1, NextActions, TypeParts, OpsStep, IoStep, ClockStep, QueuesStep, RateStep,
     BudgetStep, CallsStep, ToldStep
     DEF TypeOK, OpsOK, IoOK, ClockOK, QueuesOK, RateTyped, BudgetOK, CallsTyped, ToldOK
<1>2. CASE UNCHANGED vars
  BY <1>2 DEF vars, deadline, policy, history, TypeOK
<1> QED
  BY <1>1, <1>2

\* The type invariant, for any number of calls and with any rate policy.
THEOREM StreamTypes == Spec => []TypeOK
<1>1. Init => TypeOK
  BY InitTyped, StreamAssumption
<1>2. TypeOK /\ [Next]_vars => TypeOK'
  BY StepTyped, StreamAssumption
<1> QED
  BY <1>1, <1>2, PTL DEF Spec

-----------------------------------------------------------------------------
(* One direction: what each kind of step does to its deadline *)

Clock(d) == <<tick[d], timeout[d], expiry[d], waits[d], expired[d]>>

LEMMA Same ==
  ASSUME NEW d \in Dirs, DirOK(d), UNCHANGED <<Clock(d), phase[d]>>
  PROVE  DirOK(d)'
  BY DEF Clock, DirOK, WaitsOK, FlagOK, ExpiredOK, Armed

\* Without an I/O under a deadline there are only stale handlers
LEMMA Unarmed ==
  ASSUME NEW d \in Dirs, TypeOK, DirOK(d), ~Armed(d)
  PROVE  /\ waits[d] = <<>> /\ ~timeout[d]
         /\ \A i \in 1 .. Len(expired[d]) : expired[d][i] \in Nat /\ expired[d][i] < tick[d]
<1>1. expired[d] \in Seq(Nat) /\ tick[d] \in Nat
  BY DEF TypeOK
<1>2. \A i \in 1 .. Len(expired[d]) : expired[d][i] \in Nat
  BY <1>1, ElementOfSeq
<1> QED
  BY <1>1, <1>2 DEF DirOK, WaitsOK, FlagOK, ExpiredOK

LEMMA StaysUnarmed ==
  ASSUME NEW d \in Dirs, TypeOK, DirOK(d), ~Armed(d),
         UNCHANGED <<tick[d], timeout[d], expired[d]>>, waits'[d] = <<>>
  PROVE  DirOK(d)'
<1>1. Len(<<>>) = 0
  BY EmptySeq
<1>2. tick[d] \in Nat
  BY DEF TypeOK
<1> QED
  BY <1>1, <1>2, Unarmed DEF DirOK, WaitsOK, FlagOK, ExpiredOK

\* An I/O starts: its wait is the only one, or its handler is queued at once
LEMMA Arms ==
  ASSUME NEW d \in Dirs, TypeOK, DirOK(d), ~Armed(d), WaitStarts(d),
         phase'[d] \in {"io", "connect"}, UNCHANGED <<tick[d], timeout[d], expiry[d]>>
  PROVE  DirOK(d)'
<1> DEFINE t == tick[d]
<1>1. t \in Nat /\ waits[d] = <<>> /\ ~timeout[d] /\ expired[d] \in Seq(Nat)
  BY Unarmed DEF TypeOK
<1>2. CASE expiry[d] = "set"
  <2>1. waits'[d] = Append(<<>>, t) /\ expired'[d] = expired[d]
    BY <1>1, <1>2 DEF WaitStarts, TypeOK
  <2>2. Append(<<>>, t) # <<>> /\ Len(Append(<<>>, t)) = 1 /\ Append(<<>>, t)[1] = t
    BY <1>1, EmptySeq, AppendProperties
  <2> QED
    BY <1>1, <1>2, <2>1, <2>2, Unarmed DEF DirOK, WaitsOK, FlagOK, ExpiredOK, Armed
<1>3. CASE expiry[d] = "past"
  <2>1. waits'[d] = <<>> /\ expired'[d] = Append(expired[d], t)
    BY <1>1, <1>3 DEF WaitStarts, TypeOK
  <2>2. /\ Len(expired'[d]) = Len(expired[d]) + 1 /\ Len(expired[d]) \in Nat
        /\ \A i \in 1 .. Len(expired'[d]) :
             expired'[d][i] = IF i <= Len(expired[d]) THEN expired[d][i] ELSE t
    BY <1>1, <2>1, AppendProperties, LenProperties
  <2>3. WaitsOK(d)' /\ FlagOK(d)'
    BY <1>1, <2>1, EmptySeq DEF WaitsOK, FlagOK
  <2>4. ASSUME NEW i \in 1 .. Len(expired'[d])
        PROVE  IF i <= Len(expired[d]) THEN expired'[d][i] < t
               ELSE expired'[d][i] = t /\ i = Len(expired[d]) + 1
    BY <1>1, <2>2, <2>4, Unarmed
  <2>5. ExpiredOK(d)'
    BY <1>1, <1>3, <2>1, <2>2, <2>4 DEF ExpiredOK, Armed
  <2> QED
    BY <2>3, <2>5 DEF DirOK
<1>4. CASE expiry[d] = "never"
  <2>1. waits'[d] = <<>> /\ expired'[d] = expired[d]
    BY <1>1, <1>4 DEF WaitStarts, TypeOK
  <2> QED
    BY <2>1, StaysUnarmed
<1> QED
  BY <1>2, <1>3, <1>4 DEF TypeOK

\* The deadline passes: the wait becomes the one handler that is not stale
LEMMA Passes ==
  ASSUME NEW d \in Dirs, TypeOK, DirOK(d), DeadlinePasses(d)
  PROVE  DirOK(d)'
<1>1. /\ expiry[d] = "set" /\ expiry'[d] = "past" /\ waits'[d] = <<>>
      /\ expired'[d] = expired[d] \o waits[d]
      /\ UNCHANGED <<tick, timeout, phase>>
  BY DEF DeadlinePasses, TypeOK
<1>2. tick[d] \in Nat /\ ~timeout[d] /\ expired[d] \in Seq(Nat) /\ waits[d] \in Seq(Nat)
  BY <1>1 DEF TypeOK, DirOK, FlagOK
<1>3. \A i \in 1 .. Len(expired[d]) : expired[d][i] < tick[d]
  <2> SUFFICES ASSUME NEW i \in 1 .. Len(expired[d])
               PROVE  expired[d][i] < tick[d]
    OBVIOUS
  <2>1. expired[d][i] \in Nat
    BY <1>2, ElementOfSeq
  <2> QED
    BY <1>1, <1>2, <2>1 DEF DirOK, ExpiredOK
<1>4. WaitsOK(d)' /\ FlagOK(d)'
  BY <1>1, <1>2, EmptySeq DEF WaitsOK, FlagOK
<1>5. CASE waits[d] = <<>>
  <2>1. expired'[d] = expired[d]
    BY <1>1, <1>2, <1>5, ConcatEmptySeq
  <2> QED
    BY <1>1, <1>2, <1>3, <1>4, <2>1 DEF DirOK, ExpiredOK
<1>6. CASE waits[d] # <<>>
  <2>1. Len(waits[d]) = 1 /\ waits[d][1] = tick[d] /\ Armed(d)
    <3>1. Len(waits[d]) \in Nat \ {0}
      BY <1>2, <1>6, EmptySeq
    <3>2. Len(waits[d]) <= 1
      BY Zenon DEF DirOK, WaitsOK
    <3>3. Len(waits[d]) = 1
      <4>1. \A k \in Nat \ {0} : k <= 1 => k = 1
        OBVIOUS
      <4> QED
        BY <3>1, <3>2, <4>1, Zenon
    <3>4. waits[d][1] = tick[d] /\ Armed(d)
      BY <1>6, Zenon DEF DirOK, WaitsOK
    <3> QED
      BY <3>3, <3>4
  <2>2. /\ Len(expired'[d]) = Len(expired[d]) + 1 /\ Len(expired[d]) \in Nat
        /\ \A i \in 1 .. Len(expired'[d]) :
             expired'[d][i] = IF i <= Len(expired[d]) THEN expired[d][i] ELSE tick[d]
    <3> DEFINE a == expired[d]
               b == waits[d]
    <3>1. Len(a) \in Nat /\ Len(a \o b) = Len(a) + Len(b)
      BY <1>2, ConcatProperties, LenProperties
    <3>2. \A i \in 1 .. Len(a) + Len(b) : (a \o b)[i] = IF i <= Len(a) THEN a[i] ELSE b[i - Len(a)]
      BY <1>2, ConcatProperties
    <3>3. expired'[d] = a \o b /\ Len(b) = 1
      BY <1>1, <2>1
    <3>4. \A i \in 1 .. Len(a) + 1 : i <= Len(a) \/ (i - Len(a) = 1 /\ ~(i <= Len(a)))
      BY <3>1
    <3>5. \A i \in 1 .. Len(a) + 1 : (a \o b)[i] = IF i <= Len(a) THEN a[i] ELSE b[1]
      BY <3>1, <3>2, <3>3, <3>4
    <3> HIDE DEF a, b
    <3>6. /\ Len(expired'[d]) = Len(a) + 1 /\ Len(a) \in Nat
          /\ \A i \in 1 .. Len(expired'[d]) :
               expired'[d][i] = IF i <= Len(a) THEN a[i] ELSE b[1]
      BY <3>1, <3>3, <3>5
    <3> QED
      BY <2>1, <3>6 DEF a, b
  <2>3. Armed(d)'
    BY <1>1, <2>1 DEF Armed
  <2>4. ExpiredOK(d)'
    <3>1. \A i \in 1 .. Len(expired'[d]) :
            IF i <= Len(expired[d]) THEN expired'[d][i] = expired[d][i] /\ expired[d][i] < tick[d]
            ELSE expired'[d][i] = tick[d] /\ i = Len(expired[d]) + 1
      BY <1>3, <2>2
    <3>2. \A i \in 1 .. Len(expired[d]) : expired[d][i] \in Nat
      BY <1>2, ElementOfSeq
    <3>3. \A i \in 1 .. Len(expired'[d]) :
            expired'[d][i] <= tick[d] /\ (expired'[d][i] = tick[d] => i = Len(expired[d]) + 1)
      <4> SUFFICES ASSUME NEW i \in 1 .. Len(expired'[d])
                   PROVE  expired'[d][i] <= tick[d] /\ (expired'[d][i] = tick[d] => i = Len(expired[d]) + 1)
        OBVIOUS
      <4>1. CASE i <= Len(expired[d])
        <5>1. i \in 1 .. Len(expired[d])
          BY <1>2, <4>1
        <5>2. expired'[d][i] = expired[d][i] /\ expired[d][i] < tick[d]
          BY <3>1, <4>1
        <5>3. expired[d][i] \in Nat
          BY <3>2, <5>1
        <5> QED
          BY <1>2, <5>2, <5>3
      <4>2. CASE ~(i <= Len(expired[d]))
        <5>1. expired'[d][i] = tick[d] /\ i = Len(expired[d]) + 1
          BY <3>1, <4>2
        <5> QED
          BY <1>2, <5>1
      <4> QED
        BY <4>1, <4>2
    <3> QED
      BY <1>1, <1>2, <2>3, <3>3 DEF ExpiredOK
  <2> QED
    BY <1>4, <2>4 DEF DirOK
<1> QED
  BY <1>5, <1>6

\* A handler runs: it is stale, or the I/O's and then the last of them
LEMMA Handled ==
  ASSUME NEW d \in Dirs, TypeOK, DirOK(d), timeout_handler(d)
  PROVE  /\ DirOK(d)' /\ asserts' = asserts
         /\ ~Stale(Head(expired[d]), d) => Armed(d) /\ expiry[d] = "past"
<1>1. /\ expired[d] # <<>> /\ expired'[d] = Tail(expired[d])
      /\ UNCHANGED <<phase, tick, expiry, waits>>
  BY DEF timeout_handler, TypeOK
<1>2. tick[d] \in Nat /\ expired[d] \in Seq(Nat)
  BY DEF TypeOK
<1>3. /\ Len(expired'[d]) = Len(expired[d]) - 1 /\ Len(expired[d]) \in Nat \ {0}
      /\ \A i \in 1 .. Len(expired'[d]) : expired'[d][i] = expired[d][i + 1]
      /\ Head(expired[d]) = expired[d][1] /\ expired[d][1] \in Nat
  BY <1>1, <1>2, HeadTailProperties, EmptySeq, ElementOfSeq
<1>4. CASE Stale(Head(expired[d]), d)
  <2>1. timeout' = timeout /\ asserts' = asserts
    BY <1>4 DEF timeout_handler
  <2>2. ExpiredOK(d)'
    BY <1>1, <1>2, <1>3, <2>1 DEF DirOK, ExpiredOK, Armed
  <2> QED
    BY <1>1, <1>4, <2>1, <2>2 DEF DirOK, WaitsOK, FlagOK, Armed
<1>5. CASE ~Stale(Head(expired[d]), d)
  <2>1. expired[d][1] = tick[d]
    BY <1>2, <1>3, <1>5 DEF DirOK, ExpiredOK, Stale
  <2>2. Armed(d) /\ expiry[d] = "past" /\ waits[d] = <<>> /\ ~timeout[d]
    BY <1>3, <2>1 DEF DirOK, ExpiredOK
  <2>3. timeout'[d] = TRUE
    BY <1>5 DEF timeout_handler, TypeOK
  <2>4. asserts' = asserts
    <3>1. Fail("timeout: tick in the future", Head(expired[d]) > tick[d]) = {}
      <4>1. ~(Head(expired[d]) > tick[d])
        BY <1>2, <1>3, <2>1
      <4> QED
        BY <4>1 DEF Fail
    <3>2. Fail("timeout: already timed out", timeout[d]) = {}
      BY <2>2 DEF Fail
    <3> QED
      BY <1>5, <3>1, <3>2 DEF timeout_handler
  <2>5. WaitsOK(d)' /\ FlagOK(d)'
    BY <1>1, <2>2, EmptySeq DEF WaitsOK, FlagOK, Armed
  <2>6. \A i \in 1 .. Len(expired'[d]) : expired'[d][i] # tick[d]
    BY <1>2, <1>3, <2>1 DEF DirOK, ExpiredOK
  <2>7. ExpiredOK(d)'
    BY <1>1, <1>2, <1>3, <2>6 DEF DirOK, ExpiredOK
  <2> QED
    BY <2>2, <2>4, <2>5, <2>7 DEF DirOK
<1> QED
  BY <1>4, <1>5

\* The I/O is over: its waits are stale or canceled, and the flag is taken down
LEMMA Finished ==
  ASSUME NEW d \in Dirs, NEW r, TypeOK, DirOK(d), Finishes(d, r), phase[d] \in {"io", "connect"}
  PROVE  /\ DirOK(d)' /\ asserts' = asserts
         /\ result'[d] = IF timeout[d] THEN "timeout" ELSE r
<1>1. /\ tick[d] \in Nat /\ expired[d] \in Seq(Nat) /\ d \in DOMAIN tick /\ d \in DOMAIN timeout
      /\ d \in DOMAIN waits /\ d \in DOMAIN result
  BY DEF TypeOK
<1>2. CASE expiry[d] = "never"
  <2>1. ~Armed(d)
    BY <1>2 DEF Armed
  <2>2. waits[d] = <<>> /\ ~timeout[d]
    BY <2>1, Unarmed
  <2>3. result'[d] = r /\ UNCHANGED <<deadline, asserts>>
    BY <1>1, <1>2 DEF Finishes
  <2>4. DirOK(d)'
    BY <2>1, <2>2, <2>3, StaysUnarmed DEF deadline
  <2> QED
    BY <2>2, <2>3, <2>4
<1>3. CASE expiry[d] # "never"
  <2> DEFINE late == waits[d] = <<>> /\ timeout[d]
             after == FlagAfter(timeout[d], late)
  <2>1. late <=> timeout[d]
    BY Zenon DEF DirOK, FlagOK
  <2>2. /\ timeout' = [timeout EXCEPT ![d] = after]
        /\ result' = [result EXCEPT ![d] = IF late THEN "timeout" ELSE r]
        /\ asserts' = asserts \cup Fail("cancel: more than one wait", Len(waits[d]) > 1)
                              \cup Fail("cancel: timed out but waiting",
                                        waits[d] # <<>> /\ timeout[d])
    BY <1>3, Zenon DEF Finishes
  <2>3. ~after
    BY <2>1, Zenon DEF FlagAfter
  <2>4. result'[d] = IF timeout[d] THEN "timeout" ELSE r
    BY <1>1, <2>1, <2>2
  <2>5. ~timeout'[d]
    <3> HIDE DEF after
    <3> QED
      BY <1>1, <2>2, <2>3
  <2>6. tick'[d] = tick[d] + 1 /\ waits'[d] = <<>> /\ expired'[d] = expired[d]
    BY <1>1, <1>3 DEF Finishes, NextTick
  <2>7. asserts' = asserts
    <3>1. ~(Len(waits[d]) > 1)
      BY LenProperties DEF DirOK, WaitsOK, TypeOK
    <3>2. Fail("cancel: more than one wait", Len(waits[d]) > 1) = {}
      BY <3>1 DEF Fail
    <3>3. ~(waits[d] # <<>> /\ timeout[d])
      BY Zenon DEF DirOK, FlagOK
    <3>4. Fail("cancel: timed out but waiting", waits[d] # <<>> /\ timeout[d]) = {}
      BY <3>3, Zenon DEF Fail
    <3> QED
      BY <2>2, <3>2, <3>4
  <2>8. \A i \in 1 .. Len(expired[d]) : expired[d][i] \in Nat /\ expired[d][i] <= tick[d]
    BY <1>1, ElementOfSeq DEF DirOK, ExpiredOK
  <2>9. \A i \in 1 .. Len(expired'[d]) : expired'[d][i] <= tick'[d] /\ expired'[d][i] # tick'[d]
    BY <1>1, <2>6, <2>8
  <2>10. DirOK(d)'
    BY <2>5, <2>6, <2>9, EmptySeq DEF DirOK, WaitsOK, FlagOK, ExpiredOK
  <2> QED
    BY <2>4, <2>7, <2>10
<1> QED
  BY <1>2, <1>3

-----------------------------------------------------------------------------
(* The invariant of the deadlines *)

LEMMA PhaseStep == ASSUME OpsOK, PhaseOK, Actions PROVE PhaseOK'
<1> USE DEF OpsOK, PhaseOK
<1>1. CASE \E d \in Dirs : AsyncTransfer(d)
  BY <1>1 DEF AsyncTransfer, Dirs
<1>2. CASE \E d \in Dirs : AsyncEmptyTransfer(d)
  BY <1>2 DEF AsyncEmptyTransfer, Dirs
<1>3. CASE \E d \in Dirs : timeout_handler(d) \/ DeadlinePasses(d) \/ IoCompletes(d)
  BY <1>3 DEF timeout_handler, DeadlinePasses, IoCompletes
<1>4. CASE \E d \in Dirs : BudgetGranted(d)
  BY <1>4 DEF BudgetGranted, Dirs
<1>5. CASE \E d \in Dirs : BudgetCanceled(d) \/ TransferDone(d) \/ EmptyTransferDone(d)
  BY <1>5 DEF BudgetCanceled, TransferDone, EmptyTransferDone, Completes, Dirs
<1>6. CASE \/ \E e \in {"never", "set", "past"} : ExpiresAt(e)
           \/ \E c \in BOOLEAN : Cancel(c)
           \/ RateTimerExpires \/ SliceEnds
  BY <1>6 DEF ExpiresAt, Cancel, RateTimerExpires, SliceEnds
<1>7. CASE AsyncConnect \/ ConnectDone
  BY <1>7 DEF AsyncConnect, ConnectDone, Dirs
<1> QED
  BY <1>1, <1>2, <1>3, <1>4, <1>5, <1>6, <1>7 DEF Actions

\* Nobody waits for budget when there is always some
LEMMA NoPolicyStep ==
  ASSUME StreamAssumption, ~Limited, TypeOK, NoPolicy, Actions
  PROVE  NoPolicy'
<1>1. Limit > 0 /\ \A d \in Dirs : d \in Waiters
  BY DEF StreamAssumption, Waiters
<1>2. RateAborted = rate
  BY DEF TypeOK, NoPolicy, RateAborted
<1>3. /\ \A d \in Dirs : ~BudgetGranted(d) /\ ~BudgetCanceled(d)
      /\ ~SliceEnds
  BY DEF NoPolicy, BudgetGranted, BudgetCanceled, SliceEnds, Waiters
<1> USE DEF NoPolicy, TypeOK
<1>4. CASE \E d \in Dirs : AsyncTransfer(d) \/ AsyncEmptyTransfer(d)
  BY <1>1, <1>4 DEF AsyncTransfer, AsyncEmptyTransfer, policy
<1>5. CASE \E d \in Dirs : timeout_handler(d) \/ DeadlinePasses(d) \/ IoCompletes(d)
  BY <1>2, <1>5 DEF timeout_handler, ClosesSocket, DeadlinePasses, IoCompletes, policy
<1>6. CASE \E d \in Dirs : TransferDone(d) \/ EmptyTransferDone(d)
  BY <1>2, <1>6 DEF TransferDone, EmptyTransferDone, Completes
<1>7. CASE \/ \E e \in {"never", "set", "past"} : ExpiresAt(e)
           \/ \E c \in BOOLEAN : Cancel(c)
  BY <1>2, <1>7 DEF ExpiresAt, Cancel, ClosesSocket, policy
<1>8. CASE AsyncConnect
  BY <1>8 DEF AsyncConnect, policy, Dirs
<1>9. CASE ConnectDone
  BY <1>9 DEF ConnectDone, policy, Dirs
<1>10. CASE RateTimerExpires
  <2>1. \A w \in Waiters : rate'[w] = "none"
    BY <1>10 DEF RateTimerExpires
  <2>2. avail' = avail /\ phase' = phase
    BY <1>10 DEF RateTimerExpires
  <2> QED
    BY <2>1, <2>2
<1> QED
  BY <1>3, <1>4, <1>5, <1>6, <1>7, <1>8, <1>9, <1>10 DEF Actions

\* A direction with no operation has no I/O
LEMMA IdleUnarmed == ASSUME PhaseOK, NEW d \in Dirs, ~pending[d] PROVE phase[d] = "idle" /\ ~Armed(d)
  BY DEF PhaseOK, Armed

LEMMA DeadlinesStep ==
  ASSUME StreamAssumption, TypeOK, PhaseOK, NoPolicy, Deadlines, Actions
  PROVE  Deadlines' /\ asserts' = asserts
<1>1. \A d \in Dirs : DirOK(d)
  BY DEF Deadlines
<1>2. Limit > 0 /\ \A d \in Dirs : d \in DOMAIN phase
  BY DEF StreamAssumption, TypeOK
<1>3. ASSUME NEW d \in Dirs, DirOK(d)',
             \A x \in Dirs : x # d => UNCHANGED <<Clock(x), phase[x]>>
      PROVE  Deadlines'
  BY <1>1, <1>3, Same DEF Deadlines
<1>4. ASSUME \A d \in Dirs : UNCHANGED <<Clock(d), phase[d]>>
      PROVE  Deadlines'
  BY <1>1, <1>4, Same DEF Deadlines
<1>5. ASSUME NEW d \in Dirs, AsyncTransfer(d)
      PROVE  Deadlines' /\ asserts' = asserts
  <2>1. phase' = [phase EXCEPT ![d] = "io"]
    BY <1>2, <1>5 DEF AsyncTransfer, NoPolicy
  <2>2. ~Armed(d)
    BY <1>5, IdleUnarmed DEF AsyncTransfer
  <2>3. WaitStarts(d) /\ UNCHANGED <<tick, timeout, expiry>> /\ asserts' = asserts
    BY <1>5 DEF AsyncTransfer, history
  <2>4. phase'[d] = "io"
    BY <1>2, <2>1
  <2>5. DirOK(d)'
    BY <1>1, <2>2, <2>3, <2>4, Arms
  <2>6. \A x \in Dirs : x # d => UNCHANGED <<Clock(x), phase[x]>>
    BY <2>1, <2>3 DEF WaitStarts, Clock, TypeOK
  <2> QED
    BY <1>3, <2>3, <2>5, <2>6
<1>6. CASE AsyncConnect
  <2>1. "write" \in Dirs /\ ~pending["write"]
    BY <1>6 DEF AsyncConnect, Dirs
  <2>2. phase' = [phase EXCEPT !["write"] = "connect"]
    BY <1>6 DEF AsyncConnect
  <2>3. WaitStarts("write") /\ UNCHANGED <<tick, timeout, expiry>> /\ asserts' = asserts
    BY <1>6 DEF AsyncConnect, history
  <2>4. ~Armed("write") /\ phase'["write"] = "connect"
    BY <1>2, <2>1, <2>2, IdleUnarmed
  <2>5. DirOK("write")'
    BY <1>1, <2>1, <2>3, <2>4, Arms
  <2>6. \A x \in Dirs : x # "write" => UNCHANGED <<Clock(x), phase[x]>>
    BY <2>2, <2>3 DEF WaitStarts, Clock, TypeOK
  <2> QED
    BY <1>3, <2>1, <2>3, <2>5, <2>6
<1>7. ASSUME NEW d \in Dirs, AsyncEmptyTransfer(d) \/ EmptyTransferDone(d)
      PROVE  Deadlines' /\ asserts' = asserts
  <2>1. ~Armed(d)
    <3>1. CASE AsyncEmptyTransfer(d)
      BY <3>1, IdleUnarmed DEF AsyncEmptyTransfer
    <3>2. CASE EmptyTransferDone(d)
      BY <3>2 DEF EmptyTransferDone, Armed
    <3> QED
      BY <1>7, <3>1, <3>2
  <2>2. UNCHANGED <<tick, timeout, expiry, waits, expired, asserts>>
    BY <1>7 DEF AsyncEmptyTransfer, EmptyTransferDone, deadline, history
  <2>3. \A x \in Dirs : x # d => phase'[x] = phase[x]
    BY <1>7 DEF AsyncEmptyTransfer, EmptyTransferDone, Completes, TypeOK
  <2>4. DirOK(d)'
    BY <1>1, <2>1, <2>2, Unarmed, StaysUnarmed
  <2> QED
    BY <1>3, <2>2, <2>3, <2>4 DEF Clock
<1>8. ASSUME NEW e \in {"never", "set", "past"}, ExpiresAt(e)
      PROVE  Deadlines' /\ asserts' = asserts
  <2>1. \A d \in Dirs : ~pending[d] => ~Armed(d) /\ waits[d] = <<>>
    BY <1>1, IdleUnarmed, Unarmed
  <2>2. asserts' = asserts
    BY <1>8, <2>1 DEF ExpiresAt, Fail
  <2>3. UNCHANGED <<phase, tick, timeout, expired>>
    BY <1>8 DEF ExpiresAt
  <2>4. ASSUME NEW d \in Dirs, ~pending[d]
        PROVE  DirOK(d)'
    <3>1. waits'[d] = <<>>
      BY <1>8, <2>4 DEF ExpiresAt
    <3> QED
      BY <1>1, <2>1, <2>3, <2>4, <3>1, StaysUnarmed
  <2>5. ASSUME NEW d \in Dirs, pending[d]
        PROVE  DirOK(d)'
    <3>1. waits'[d] = waits[d] /\ expiry'[d] = expiry[d]
      BY <1>8, <2>5 DEF ExpiresAt
    <3> QED
      BY <1>1, <2>3, <3>1, Same DEF Clock
  <2> QED
    BY <2>2, <2>4, <2>5 DEF Deadlines
<1>9. CASE \/ \E c \in BOOLEAN : Cancel(c)
           \/ \E d \in Dirs : IoCompletes(d)
           \/ RateTimerExpires
  <2>1. UNCHANGED <<phase, tick, timeout, expiry, waits, expired, asserts>>
    BY <1>9 DEF Cancel, IoCompletes, RateTimerExpires, deadline, history
  <2> QED
    BY <1>4, <2>1 DEF Clock
<1>10. ASSUME NEW d \in Dirs, DeadlinePasses(d)
       PROVE  Deadlines' /\ asserts' = asserts
  <2>1. DirOK(d)'
    BY <1>1, <1>10, Passes
  <2>2. \A x \in Dirs : x # d => UNCHANGED <<Clock(x), phase[x]>>
    BY <1>10 DEF DeadlinePasses, Clock, TypeOK
  <2>3. asserts' = asserts
    BY <1>10 DEF DeadlinePasses, history
  <2> QED
    BY <1>3, <2>1, <2>2, <2>3
<1>11. ASSUME NEW d \in Dirs, timeout_handler(d)
       PROVE  Deadlines' /\ asserts' = asserts
  <2>1. DirOK(d)' /\ asserts' = asserts
    BY <1>1, <1>11, Handled
  <2>2. \A x \in Dirs : x # d => timeout'[x] = timeout[x]
    BY <1>11 DEF timeout_handler, TypeOK
  <2>3. \A x \in Dirs : x # d => UNCHANGED <<Clock(x), phase[x]>>
    BY <1>11, <2>2 DEF timeout_handler, Clock, TypeOK
  <2> QED
    BY <1>3, <2>1, <2>3
<1>12. ASSUME NEW d \in Dirs, NEW r, Finishes(d, r), phase[d] \in {"io", "connect"},
              phase' = [phase EXCEPT ![d] = "idle"]
       PROVE  Deadlines' /\ asserts' = asserts
  <2>1. DirOK(d)' /\ asserts' = asserts
    BY <1>1, <1>12, Finished
  <2>2. \A x \in Dirs : x # d => UNCHANGED <<Clock(x), phase[x]>>
    <3>1. CASE expiry[d] = "never"
      BY <1>12, <3>1 DEF Finishes, deadline, Clock, TypeOK
    <3>2. CASE expiry[d] # "never"
      <4> DEFINE after == FlagAfter(timeout[d], waits[d] = <<>> /\ timeout[d])
      <4>1. timeout' = [timeout EXCEPT ![d] = after]
        BY <3>2, <1>12, Zenon DEF Finishes
      <4> HIDE DEF after
      <4>2. /\ tick' = [tick EXCEPT ![d] = NextTick(d)] /\ waits' = [waits EXCEPT ![d] = <<>>]
            /\ expiry' = expiry /\ expired' = expired
        BY <3>2, <1>12 DEF Finishes
      <4> QED
        BY <1>12, <4>1, <4>2 DEF Clock, TypeOK
    <3> QED
      BY <3>1, <3>2
  <2> QED
    BY <1>3, <2>1, <2>2
<1>13. CASE ConnectDone \/ \E d \in Dirs : TransferDone(d)
  BY <1>12, <1>13 DEF ConnectDone, TransferDone, Completes, Dirs
<1>14. /\ \A d \in Dirs : ~BudgetGranted(d) /\ ~BudgetCanceled(d)
       /\ ~SliceEnds
  BY DEF NoPolicy, BudgetGranted, BudgetCanceled, SliceEnds, Waiters
<1> QED
  BY <1>5, <1>6, <1>7, <1>8, <1>9, <1>10, <1>11, <1>13, <1>14 DEF Actions

LEMMA DeadlineInit == Init => DeadlineInv
<1> SUFFICES ASSUME Init
             PROVE  DeadlineInv
  OBVIOUS
<1>1. TypeOK
  BY InitTyped, StreamAssumption
<1>2. PhaseOK /\ NoPolicy /\ AssertionsHold
  BY DEF Init, PhaseOK, NoPolicy, AssertionsHold, Dirs
<1>3. Deadlines
  BY EmptySeq DEF Init, Deadlines, DirOK, WaitsOK, FlagOK, ExpiredOK
<1> QED
  BY <1>1, <1>2, <1>3 DEF DeadlineInv

LEMMA DeadlineStep == ASSUME ~Limited, DeadlineInv, [Next]_vars PROVE DeadlineInv'
<1> USE DEF DeadlineInv
<1>1. TypeOK'
  BY StepTyped, StreamAssumption
<1>2. CASE Next
  <2>1. Actions
    BY <1>2, NextActions
  <2>2. PhaseOK' /\ NoPolicy'
    BY <2>1, StreamAssumption, PhaseStep, NoPolicyStep, TypeParts
  <2>3. Deadlines' /\ AssertionsHold'
    BY <2>1, StreamAssumption, DeadlinesStep DEF AssertionsHold
  <2> QED
    BY <1>1, <2>2, <2>3
<1>3. CASE UNCHANGED vars
  BY <1>1, <1>3 DEF vars, deadline, policy, history, PhaseOK, NoPolicy, Deadlines, DirOK,
                    WaitsOK, FlagOK, ExpiredOK, Armed, AssertionsHold
<1> QED
  BY <1>2, <1>3

\* Without a rate policy the deadlines are in order, for any number of calls.
THEOREM DeadlineInvariant == ASSUME ~Limited PROVE Spec => []DeadlineInv
<1>1. Init => DeadlineInv
  BY DeadlineInit
<1>2. DeadlineInv /\ [Next]_vars => DeadlineInv'
  BY DeadlineStep
<1> QED
  BY <1>1, <1>2, PTL DEF Spec

\* No BOOST_ASSERT or BOOST_VERIFY of basic_stream fails without a rate policy:
\* an operation leaves no wait on its deadline behind.
THEOREM StreamAssertions == ASSUME ~Limited PROVE Spec => []AssertionsHold
<1>1. DeadlineInv => AssertionsHold
  BY DEF DeadlineInv
<1> QED
  BY <1>1, DeadlineInvariant, PTL

\* The flag of a timeout is only up while the operation is outstanding whose
\* deadline has passed, so that no later one can be told of it.
THEOREM StreamFlagOwned == ASSUME ~Limited PROVE Spec => []TimeoutFlagOwned
<1>1. DeadlineInv => TimeoutFlagOwned
  BY DEF DeadlineInv, Deadlines, DirOK, FlagOK, Armed, TimeoutFlagOwned
<1> QED
  BY <1>1, DeadlineInvariant, PTL

\* The socket is closed by the application or for a deadline that has passed
\* during its operation: a handler that came too late for its own is stale.
THEOREM StreamClosedForCause == ASSUME ~Limited PROVE Spec => ClosedForCause
<1>1. ASSUME DeadlineInv, [Next]_vars, sock, ~sock'
      PROVE  \/ calls'["stop"] < calls["stop"]
             \/ \E d \in Dirs : phase[d] # "idle" /\ expiry[d] = "past"
  <2>1. Actions
    BY <1>1, NextActions DEF vars
  <2>2. CASE \E d \in Dirs : timeout_handler(d)
    <3>1. PICK d \in Dirs : timeout_handler(d)
      BY <2>2
    <3>2. ~Stale(Head(expired[d]), d)
      BY <1>1, <3>1 DEF timeout_handler
    <3>3. Armed(d) /\ expiry[d] = "past"
      BY <1>1, <3>1, <3>2, Handled DEF DeadlineInv, Deadlines
    <3> QED
      BY <3>3 DEF Armed
  <2>3. CASE \E d \in Dirs : EmptyTransferDone(d)
    BY <1>1, <2>3 DEF EmptyTransferDone
  <2>4. CASE \E c \in BOOLEAN : Cancel(c)
    BY <1>1, <2>4 DEF Cancel, DeadlineInv, TypeOK
  <2>5. CASE \E d \in Dirs : \/ AsyncTransfer(d) \/ AsyncEmptyTransfer(d) \/ BudgetGranted(d)
                             \/ BudgetCanceled(d) \/ TransferDone(d) \/ DeadlinePasses(d)
                             \/ IoCompletes(d)
    BY <1>1, <2>5 DEF AsyncTransfer, AsyncEmptyTransfer, BudgetGranted, BudgetCanceled,
                      TransferDone, DeadlinePasses, IoCompletes
  <2>6. CASE \/ \E e \in {"never", "set", "past"} : ExpiresAt(e)
             \/ AsyncConnect \/ ConnectDone \/ RateTimerExpires \/ SliceEnds
    BY <1>1, <2>6 DEF ExpiresAt, AsyncConnect, ConnectDone, RateTimerExpires, SliceEnds
  <2> QED
    BY <2>1, <2>2, <2>3, <2>4, <2>5, <2>6 DEF Actions
<1>2. DeadlineInv /\ [Next]_vars =>
        [(sock /\ ~sock') => \/ calls'["stop"] < calls["stop"]
                             \/ \E d \in Dirs : phase[d] # "idle" /\ expiry[d] = "past"]_vars
  BY <1>1
<1> QED
  BY <1>2, DeadlineInvariant, PTL DEF Spec, ClosedForCause

\* An operation is told error::timeout exactly when its own deadline has closed
\* the socket, even if its I/O was done by then.
THEOREM StreamTimeoutTold == ASSUME ~Limited PROVE Spec => TimeoutTold
<1>1. ASSUME DeadlineInv, [Next]_vars, NEW d \in Dirs,
             phase[d] \notin {"idle", "empty"}, phase'[d] = "idle"
      PROVE  result'[d] = "timeout" <=> timeout[d]
  <2>1. Actions
    BY <1>1, NextActions DEF vars
  <2>2. ASSUME NEW x \in Dirs, NEW r \in {"ok", "err"}, Finishes(x, r),
               phase[x] \in {"io", "connect"}, phase' = [phase EXCEPT ![x] = "idle"]
        PROVE  result'[d] = "timeout" <=> timeout[d]
    <3>1. x = d
      BY <1>1, <2>2 DEF DeadlineInv, TypeOK
    <3>2. result'[d] = IF timeout[d] THEN "timeout" ELSE r
      BY <1>1, <2>2, <3>1, Finished DEF DeadlineInv, Deadlines
    <3>3. r # "timeout"
      BY <2>2
    <3> QED
      BY <3>2, <3>3
  <2>3. CASE ConnectDone \/ \E x \in Dirs : TransferDone(x)
    BY <2>2, <2>3 DEF ConnectDone, TransferDone, Completes, Dirs
  <2>4. ASSUME NEW x \in Dirs, EmptyTransferDone(x)
        PROVE  FALSE
    BY <1>1, <2>4 DEF EmptyTransferDone, Completes, DeadlineInv, TypeOK
  <2>5. ASSUME NEW x \in Dirs, AsyncTransfer(x) \/ AsyncEmptyTransfer(x)
        PROVE  FALSE
    BY <1>1, <2>5 DEF AsyncTransfer, AsyncEmptyTransfer, DeadlineInv, TypeOK
  <2>6. CASE AsyncConnect
    BY <1>1, <2>6 DEF AsyncConnect, DeadlineInv, TypeOK
  <2>7. CASE \E x \in Dirs : timeout_handler(x) \/ DeadlinePasses(x) \/ IoCompletes(x)
    BY <1>1, <2>7 DEF timeout_handler, DeadlinePasses, IoCompletes
  <2>8. CASE \/ \E e \in {"never", "set", "past"} : ExpiresAt(e)
             \/ \E c \in BOOLEAN : Cancel(c)
             \/ RateTimerExpires
    BY <1>1, <2>8 DEF ExpiresAt, Cancel, RateTimerExpires
  <2>9. /\ \A x \in Dirs : ~BudgetGranted(x) /\ ~BudgetCanceled(x)
        /\ ~SliceEnds
    BY <1>1 DEF DeadlineInv, NoPolicy, BudgetGranted, BudgetCanceled, SliceEnds, Waiters
  <2> QED
    BY <2>1, <2>3, <2>4, <2>5, <2>6, <2>7, <2>8, <2>9 DEF Actions
<1>2. DeadlineInv /\ [Next]_vars =>
        [\A d \in Dirs :
           (phase[d] \notin {"idle", "empty"} /\ phase'[d] = "idle") =>
             (result'[d] = "timeout" <=> timeout[d])]_vars
  BY <1>1
<1> QED
  BY <1>2, DeadlineInvariant, PTL DEF Spec, TimeoutTold

-----------------------------------------------------------------------------
(* The invariant of the rate policy *)

LEMMA SumTyped == WaitsOn("read") \in 0 .. 1 /\ WaitsOn("write") \in 0 .. 1 /\ WaitsOn("slice") \in 0 .. 1
  BY DEF WaitsOn

LEMMA RateOKStep == ASSUME TypeOK, PhaseOK, RateOK, Actions PROVE RateOK'
<1> USE DEF RateOK
<1>1. OpsOK /\ \A d \in Dirs : d \in Waiters /\ d # "slice"
  BY TypeParts DEF Waiters, Dirs
<1>2. rate \in [Waiters -> {"none", "wait", "ok", "aborted"}]
  BY DEF TypeOK
<1>3. \A d \in Dirs : rate[d] = "none" => RateAborted[d] = "none"
  BY <1>1 DEF RateAborted
<1>4. ASSUME NEW d \in Dirs, AsyncTransfer(d) \/ AsyncEmptyTransfer(d)
      PROVE  RateOK'
  <2>1. phase[d] = "idle"
    BY <1>4, IdleUnarmed DEF AsyncTransfer, AsyncEmptyTransfer
  <2>2. CASE AsyncTransfer(d)
    BY <1>1, <1>2, <2>1, <2>2 DEF AsyncTransfer, OpsOK
  <2>3. CASE AsyncEmptyTransfer(d)
    BY <1>1, <1>2, <2>1, <2>3 DEF AsyncEmptyTransfer, OpsOK, policy
  <2> QED
    BY <1>4, <2>2, <2>3
<1>5. CASE AsyncConnect
  <2>1. phase["write"] = "idle"
    BY <1>5, IdleUnarmed DEF AsyncConnect, Dirs
  <2> QED
    BY <1>1, <1>5, <2>1 DEF AsyncConnect, OpsOK, policy
<1>6. CASE \/ \E d \in Dirs : timeout_handler(d)
           \/ \E c \in BOOLEAN : Cancel(c)
  BY <1>3, <1>6 DEF timeout_handler, Cancel, ClosesSocket
<1>7. CASE \E d \in Dirs : EmptyTransferDone(d)
  BY <1>1, <1>3, <1>7 DEF EmptyTransferDone, Completes, OpsOK
<1>8. CASE \E d \in Dirs : TransferDone(d)
  BY <1>1, <1>8 DEF TransferDone, Completes, OpsOK
<1>9. CASE ConnectDone
  BY <1>1, <1>9 DEF ConnectDone, OpsOK, policy
<1>10. CASE \E d \in Dirs : BudgetCanceled(d)
  BY <1>1, <1>2, <1>10 DEF BudgetCanceled, Completes, OpsOK
<1>11. ASSUME NEW w \in Waiters, on_timer(w)
       PROVE  \A d \in Dirs : rate'[d] = IF d = w THEN "none" ELSE rate[d]
  BY <1>1, <1>2, <1>11 DEF on_timer
<1>12. CASE SliceEnds \/ \E d \in Dirs : BudgetGranted(d)
  BY <1>1, <1>11, <1>12 DEF SliceEnds, BudgetGranted, OpsOK, Waiters
<1>13. CASE \/ \E d \in Dirs : DeadlinePasses(d) \/ IoCompletes(d)
            \/ \E e \in {"never", "set", "past"} : ExpiresAt(e)
            \/ RateTimerExpires
  BY <1>1, <1>13 DEF DeadlinePasses, IoCompletes, ExpiresAt, RateTimerExpires, policy
<1> QED
  BY <1>4, <1>5, <1>6, <1>7, <1>8, <1>9, <1>10, <1>12, <1>13 DEF Actions

\* Calls are only ever used up, so a wait that was cut off stays so
LEMMA CallsLower ==
  ASSUME TypeOK, CallsOK, Actions, StreamAssumption
  PROVE  /\ CallsOK'
         /\ calls'["stop"] <= calls["stop"] /\ calls'["connect"] <= calls["connect"]
         /\ \A c \in BOOLEAN : Cancel(c) => calls'["stop"] < Stops
         /\ AsyncConnect => calls'["connect"] < Connects
<1>1. calls \in [{"read", "write", "connect", "expires", "stop"} -> Nat] /\ Stops \in Nat /\ Connects \in Nat
  BY DEF TypeOK, StreamAssumption
<1>2. ASSUME NEW k \in {"read", "write", "connect", "expires", "stop"},
             calls' = [calls EXCEPT ![k] = @ - 1]
      PROVE  /\ CallsOK'
             /\ calls'["stop"] <= calls["stop"] /\ calls'["connect"] <= calls["connect"]
             /\ k = "stop" => calls'["stop"] < Stops
             /\ k = "connect" => calls'["connect"] < Connects
  BY <1>1, <1>2 DEF CallsOK
<1>3. ASSUME calls' = calls
      PROVE  /\ CallsOK'
             /\ calls'["stop"] <= calls["stop"] /\ calls'["connect"] <= calls["connect"]
  BY <1>1, <1>3 DEF CallsOK
<1>4. \A c \in BOOLEAN : Cancel(c) => calls' = [calls EXCEPT !["stop"] = @ - 1]
  BY DEF Cancel
<1>5. AsyncConnect => calls' = [calls EXCEPT !["connect"] = @ - 1]
  BY DEF AsyncConnect
<1>6. \/ \E k \in {"read", "write", "connect", "expires", "stop"} : calls' = [calls EXCEPT ![k] = @ - 1]
      \/ calls' = calls
  <2>1. CASE \E d \in Dirs : AsyncTransfer(d) \/ AsyncEmptyTransfer(d)
    BY <2>1 DEF AsyncTransfer, AsyncEmptyTransfer, Dirs
  <2>2. CASE \E e \in {"never", "set", "past"} : ExpiresAt(e)
    BY <2>2 DEF ExpiresAt
  <2>3. CASE AsyncConnect \/ \E c \in BOOLEAN : Cancel(c)
    BY <1>4, <1>5, <2>3
  <2>4. CASE \/ \E d \in Dirs : \/ timeout_handler(d) \/ BudgetGranted(d) \/ BudgetCanceled(d)
                                \/ TransferDone(d) \/ EmptyTransferDone(d) \/ DeadlinePasses(d)
                                \/ IoCompletes(d)
             \/ ConnectDone \/ RateTimerExpires \/ SliceEnds
    BY <2>4 DEF timeout_handler, BudgetGranted, BudgetCanceled, TransferDone, EmptyTransferDone,
                DeadlinePasses, IoCompletes, ConnectDone, RateTimerExpires, SliceEnds
  <2> QED
    BY <2>1, <2>2, <2>3, <2>4 DEF Actions
<1> QED
  BY <1>2, <1>3, <1>4, <1>5, <1>6

\* Once cut off, only that nobody waits uncounted is left to show
LEMMA CountedStays ==
  ASSUME TypeOK, Counted, CallsOK, CallsOK', StreamAssumption, UNCHANGED <<waiting, rate>>,
         calls'["stop"] <= calls["stop"], calls'["connect"] <= calls["connect"],
         sock' => sock \/ calls'["connect"] < Connects
  PROVE  Counted'
<1>1. Sum' = Sum
  BY DEF Sum, WaitsOn
<1>2. Uncut' => Uncut
  BY DEF Uncut, CallsOK, TypeOK, StreamAssumption
<1> QED
  BY <1>1, <1>2 DEF Counted

\* Cancel, close and a timeout take the waits off, but leave the count
LEMMA CountedCut ==
  ASSUME TypeOK, Counted, rate' = RateAborted, waiting' = waiting, ~Uncut'
  PROVE  Counted'
<1>1. \A w \in Waiters : rate'[w] # "none" => rate[w] # "none"
  BY DEF RateAborted
<1>2. WaitsOn("read")' <= WaitsOn("read") /\ WaitsOn("write")' <= WaitsOn("write")
      /\ WaitsOn("slice")' <= WaitsOn("slice")
  BY <1>1 DEF WaitsOn, Waiters, Dirs
<1>3. WaitsOn("read")' \in 0 .. 1 /\ WaitsOn("write")' \in 0 .. 1 /\ WaitsOn("slice")' \in 0 .. 1
  BY DEF WaitsOn
<1>4. Sum' <= Sum /\ Sum \in Nat /\ Sum' \in Nat
  BY <1>2, <1>3, SumTyped DEF Sum
<1> QED
  BY <1>4 DEF Counted, TypeOK

LEMMA SumNat == Sum \in Nat
  BY SumTyped DEF Sum

\* One waiter more, or less
LEMMA SumMore ==
  ASSUME NEW w \in Waiters, NEW a \in {"ok", "wait"}, rate[w] = "none",
         rate \in [Waiters -> {"none", "wait", "ok", "aborted"}], rate' = [rate EXCEPT ![w] = a]
  PROVE  Sum' = Sum + 1
<1>1. \A x \in Waiters : WaitsOn(x)' = IF x = w THEN 1 ELSE WaitsOn(x)
  BY DEF WaitsOn
<1>2. WaitsOn(w) = 0
  BY DEF WaitsOn
<1> QED
  BY <1>1, <1>2, SumTyped DEF Sum, Waiters, Dirs

LEMMA SumLess ==
  ASSUME NEW w \in Waiters, rate[w] # "none",
         rate \in [Waiters -> {"none", "wait", "ok", "aborted"}],
         rate' = [rate EXCEPT ![w] = "none"]
  PROVE  Sum' = Sum - 1
<1>1. \A x \in Waiters : WaitsOn(x)' = IF x = w THEN 0 ELSE WaitsOn(x)
  BY DEF WaitsOn
<1>2. WaitsOn(w) = 1
  BY DEF WaitsOn
<1> QED
  BY <1>1, <1>2, SumTyped DEF Sum, Waiters, Dirs

LEMMA CountedTimer ==
  ASSUME TypeOK, Counted, NEW w \in Waiters, rate[w] = "ok", on_timer(w),
         sock' = sock, calls' = calls
  PROVE  Counted'
<1>1. waiting \in Nat /\ rate \in [Waiters -> {"none", "wait", "ok", "aborted"}]
  BY DEF TypeOK
<1>2. Sum \in Nat /\ WaitsOn(w) = 1 /\ Sum >= 1
  BY SumTyped DEF Sum, WaitsOn, Waiters, Dirs
<1>3. Uncut' <=> Uncut
  BY DEF Uncut
<1>4. CASE OthersWait
  <2>1. waiting' = waiting - 1 /\ rate' = [rate EXCEPT ![w] = "none"]
    BY <1>4 DEF on_timer
  <2>2. Sum' = Sum - 1
    BY <1>1, <2>1, SumLess
  <2>3. \A x \in Waiters : rate[x] # "aborted" => rate'[x] # "aborted"
    BY <1>1, <2>1
  <2> QED
    BY <1>1, <1>2, <1>3, <2>1, <2>2, <2>3 DEF Counted
<1>5. CASE ~OthersWait
  <2>1. waiting' = 1 /\ rate' = [rate EXCEPT ![w] = "none", !["slice"] = "wait"]
    BY <1>5 DEF on_timer, NewSliceWaiters
  <2>2. waiting = 1 /\ Sum = 1
    BY <1>1, <1>2, <1>5 DEF OthersWait, Counted
  <2>3. \A x \in Waiters : x # w => rate[x] = "none"
    BY <1>1, <1>2, <2>2, SumTyped DEF Sum, WaitsOn, Waiters, Dirs
  <2>4. \A x \in Waiters : rate'[x] = IF x = "slice" THEN "wait" ELSE "none"
    BY <1>1, <2>1, <2>3 DEF Waiters
  <2>5. Sum' = 1
    BY <2>4 DEF Sum, WaitsOn, Waiters, Dirs
  <2>6. \A x \in Waiters : rate'[x] # "aborted"
    BY <2>4
  <2>7. Sum' <= waiting' /\ waiting' = Sum'
    BY <2>1, <2>5
  <2> QED
    BY <2>6, <2>7 DEF Counted
<1> QED
  BY <1>4, <1>5

LEMMA CountedStep ==
  ASSUME StreamAssumption, TypeOK, PhaseOK, RateOK, CallsOK, Counted, Actions
  PROVE  Counted'
<1>1. /\ CallsOK'
      /\ calls'["stop"] <= calls["stop"] /\ calls'["connect"] <= calls["connect"]
      /\ \A c \in BOOLEAN : Cancel(c) => calls'["stop"] < Stops
      /\ AsyncConnect => calls'["connect"] < Connects
  BY CallsLower
<1>2. /\ waiting \in Nat /\ rate \in [Waiters -> {"none", "wait", "ok", "aborted"}]
      /\ Stops \in Nat /\ Connects \in Nat
      /\ calls \in [{"read", "write", "connect", "expires", "stop"} -> Nat]
  BY DEF TypeOK, StreamAssumption
<1>3. \A d \in Dirs : d \in Waiters
  BY DEF Waiters
<1>4. ASSUME UNCHANGED <<waiting, rate>>, sock' => sock \/ calls'["connect"] < Connects
      PROVE  Counted'
  BY <1>1, <1>4, CountedStays
<1>5. ASSUME NEW d \in Dirs, AsyncTransfer(d)
      PROVE  Counted'
  <2>1. CASE avail[d] = 0
    <3>1. PICK a \in {"ok", "wait"} : rate' = [rate EXCEPT ![d] = a]
      BY <1>5, <2>1 DEF AsyncTransfer
    <3>2. rate[d] = "none" /\ waiting' = waiting + 1 /\ sock' = sock
      BY <1>5, <2>1, IdleUnarmed DEF AsyncTransfer, Joined, RateOK
    <3>3. Sum' = Sum + 1 /\ Sum \in Nat
      BY <1>2, <1>3, <3>1, <3>2, SumMore, SumNat
    <3>4. Uncut' => Uncut
      BY <1>1, <1>2, <3>2 DEF Uncut, CallsOK
    <3>5. \A w \in Waiters : rate[w] # "aborted" => rate'[w] # "aborted"
      BY <1>2, <3>1
    <3> QED
      BY <1>2, <3>2, <3>3, <3>4, <3>5 DEF Counted
  <2>2. CASE avail[d] # 0
    BY <1>4, <1>5, <2>2 DEF AsyncTransfer
  <2> QED
    BY <2>1, <2>2
<1>6. CASE AsyncConnect
  BY <1>1, <1>4, <1>6 DEF AsyncConnect, policy
<1>7. ASSUME NEW d \in Dirs, timeout_handler(d)
      PROVE  Counted'
  <2>1. CASE Stale(Head(expired[d]), d)
    BY <1>4, <1>7, <2>1 DEF timeout_handler
  <2>2. CASE ~Stale(Head(expired[d]), d)
    <3>1. rate' = RateAborted /\ ~sock' /\ waiting' = waiting
      BY <1>7, <2>2 DEF timeout_handler, ClosesSocket
    <3> QED
      BY <3>1, CountedCut DEF Uncut
  <2> QED
    BY <2>1, <2>2
<1>8. ASSUME NEW d \in Dirs, EmptyTransferDone(d)
      PROVE  Counted'
  <2>1. CASE expiry[d] = "past"
    BY <1>8, <2>1, CountedCut DEF EmptyTransferDone, Uncut
  <2>2. CASE expiry[d] # "past"
    BY <1>4, <1>8, <2>2 DEF EmptyTransferDone
  <2> QED
    BY <2>1, <2>2
<1>9. ASSUME NEW c \in BOOLEAN, Cancel(c)
      PROVE  Counted'
  <2>1. rate' = RateAborted /\ waiting' = waiting
    BY <1>9 DEF Cancel, ClosesSocket
  <2>2. ~Uncut'
    BY <1>1, <1>2, <1>9 DEF Uncut, CallsOK
  <2> QED
    BY <2>1, <2>2, CountedCut
<1>10. CASE RateTimerExpires
  <2>1. \A w \in Waiters : /\ rate'[w] = "none" <=> rate[w] = "none"
                           /\ rate'[w] = "aborted" <=> rate[w] = "aborted"
    BY <1>2, <1>10 DEF RateTimerExpires
  <2>2. Sum' = Sum /\ waiting' = waiting /\ (Uncut' <=> Uncut)
    BY <1>10, <2>1 DEF Sum, WaitsOn, RateTimerExpires, Uncut, Waiters, Dirs
  <2> QED
    BY <2>1, <2>2 DEF Counted
<1>11. CASE SliceEnds \/ \E d \in Dirs : BudgetGranted(d)
  BY <1>3, <1>11, CountedTimer DEF SliceEnds, BudgetGranted, Waiters
<1>12. ASSUME NEW d \in Dirs, BudgetCanceled(d)
       PROVE  Counted'
  <2>1. /\ rate[d] = "aborted" /\ rate' = [rate EXCEPT ![d] = "none"]
        /\ UNCHANGED <<waiting, sock, calls>>
    BY <1>12 DEF BudgetCanceled
  <2>2. ~Uncut /\ ~Uncut'
    BY <1>3, <2>1 DEF Counted, Uncut
  <2>3. Sum' = Sum - 1 /\ Sum \in Nat
    BY <1>2, <1>3, <2>1, SumLess, SumNat
  <2> QED
    BY <1>2, <2>1, <2>2, <2>3 DEF Counted
<1>13. CASE \/ \E d \in Dirs : \/ AsyncEmptyTransfer(d) \/ TransferDone(d) \/ DeadlinePasses(d)
                               \/ IoCompletes(d)
            \/ \E e \in {"never", "set", "past"} : ExpiresAt(e)
            \/ ConnectDone
  <2>1. UNCHANGED <<waiting, rate, sock>>
    BY <1>13 DEF AsyncEmptyTransfer, TransferDone, DeadlinePasses, IoCompletes, ExpiresAt,
                 ConnectDone, policy
  <2> QED
    BY <1>4, <2>1
<1> QED
  BY <1>5, <1>6, <1>7, <1>8, <1>9, <1>10, <1>11, <1>12, <1>13 DEF Actions

\* The number of those who wait is the sum of who waits
LEMMA SumCardinality == Cardinality({w \in Waiters : rate[w] # "none"}) = Sum
<1> DEFINE On(w) == IF rate[w] # "none" THEN {w} ELSE {}
<1>1. \A w : IsFiniteSet(On(w)) /\ Cardinality(On(w)) = WaitsOn(w)
  BY FS_EmptySet, FS_Singleton DEF WaitsOn
<1> HIDE DEF On
<1>2. IsFiniteSet(On("read") \cup On("write"))
      /\ Cardinality(On("read") \cup On("write")) = WaitsOn("read") + WaitsOn("write")
  <2>1. On("read") \cap On("write") = {}
    BY DEF On
  <2> QED
    BY <1>1, <2>1, FS_Union, FS_EmptySet, SumTyped
<1>3. (On("read") \cup On("write")) \cap On("slice") = {}
  BY DEF On
<1>4. Cardinality((On("read") \cup On("write")) \cup On("slice")) = Sum
  BY <1>1, <1>2, <1>3, FS_Union, FS_EmptySet, SumTyped DEF Sum
<1>5. {w \in Waiters : rate[w] # "none"} = (On("read") \cup On("write")) \cup On("slice")
  BY DEF On, Waiters, Dirs
<1> QED
  BY <1>4, <1>5

LEMMA RateInit == Init => RateInv
<1> SUFFICES ASSUME Init
             PROVE  RateInv
  OBVIOUS
<1>1. TypeOK
  BY InitTyped, StreamAssumption
<1>2. PhaseOK /\ RateOK
  BY DEF Init, PhaseOK, RateOK, Dirs, Waiters
<1>3. CallsOK
  BY StreamAssumption DEF Init, CallsOK, StreamAssumption
<1>4. Counted
  BY DEF Init, Counted, Sum, WaitsOn, Waiters, Dirs
<1> QED
  BY <1>1, <1>2, <1>3, <1>4 DEF RateInv

LEMMA RateInvStep == ASSUME RateInv, [Next]_vars PROVE RateInv'
<1> USE DEF RateInv
<1>1. TypeOK'
  BY StepTyped, StreamAssumption
<1>2. CASE Next
  <2>1. Actions
    BY <1>2, NextActions
  <2>2. PhaseOK' /\ RateOK' /\ CallsOK'
    BY <2>1, StreamAssumption, PhaseStep, RateOKStep, CallsLower, TypeParts
  <2>3. Counted'
    BY <2>1, StreamAssumption, CountedStep
  <2> QED
    BY <1>1, <2>2, <2>3
<1>3. CASE UNCHANGED vars
  BY <1>1, <1>3 DEF vars, deadline, policy, history, PhaseOK, RateOK, CallsOK, Counted, Sum,
                    WaitsOn, Uncut
<1> QED
  BY <1>2, <1>3

\* The policy counts every wait on the rate timer, so that one of them is the
\* last and starts the next slice; for any limit and any number of calls.
THEOREM StreamWaitersCounted == Spec => []RateWaitersCounted
<1>1. Init => RateInv
  BY RateInit
<1>2. RateInv /\ [Next]_vars => RateInv'
  BY RateInvStep
<1>3. RateInv => RateWaitersCounted
  BY SumCardinality DEF RateInv, Counted, RateWaitersCounted
<1> QED
  BY <1>1, <1>2, <1>3, PTL DEF Spec
=============================================================================
