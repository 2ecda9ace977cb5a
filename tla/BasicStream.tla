---------------------------- MODULE BasicStream ----------------------------
(* basic_stream: a socket whose reads, writes and connects may have a deadline
   each, and whose transfers may be limited by a rate policy.

   Every deadline has a steady_timer.  An operation that starts while one is set
   waits on it with the current  tick ; when the operation completes it bumps the
   tick, so that the handler of a wait that has expired meanwhile is stale.  A
   handler that is not stale closes the socket, which cancels both directions.
   A transfer without budget waits on the shared rate timer; the last waiter to
   resume starts a new slice and leaves a waiter of its own behind.

   A handler runs without interruption, so a step of the model is one handler or
   one call of the application.  Deadlines and slices are abstract times: a timer
   is set, then at some moment it has passed.                                  *)
EXTENDS Integers, Sequences, FiniteSets

CONSTANTS
  Transfers, Connects,   \* bounds: calls in each direction, connects
  Expires, Stops,        \* bounds: expires_xxx calls, cancel and close calls
  Limit,                 \* bytes of a direction in a slice of a second
  Limited,               \* is the policy simple_rate_policy with that limit?
  NetErrors              \* may an I/O fail on its own?

ASSUME StreamAssumption ==
  /\ {Transfers, Connects, Expires, Stops} \subseteq Nat /\ Limit \in Nat \ {0}
  /\ {Limited, NetErrors} \subseteq BOOLEAN

Dirs == {"read", "write"}

VARIABLES
  pending,   \* pending[d]: is an operation outstanding? (connect takes both)
  phase,     \* phase[d]: "idle", "rate", "io", "empty" (no buffers), "connect"
  io,        \* io[d]: "none", "pending", "ok", "err" (aborted, or failed)
  tick, timeout,   \* op_state
  expiry,    \* expiry[d]: "never", "set" or "past"
  waits,     \* waits[d]: ticks of the waits on d's timer
  expired,   \* expired[d]: ticks of its handlers that are ready to run
  sock,      \* is the socket open?
  avail,     \* avail[d]: bytes left to d in this slice
  waiting,   \* the policy's count of waiters
  rate,      \* rate[w]: w's wait on the rate timer: "none", "wait", "ok", "aborted"
  ratePast,  \* has the rate timer expired?
  calls,     \* calls the application may still make
  result, asserts  \* history: what each direction was last told, failures

deadline == <<tick, timeout, expiry, waits, expired>>
policy   == <<avail, waiting, rate, ratePast>>
history  == <<result, asserts>>
vars == <<pending, phase, io, deadline, sock, policy, calls, history>>

Waiters == Dirs \cup {"slice"}
Results == {"none", "ok", "err", "timeout"}

\* The BOOST_ASSERTs and BOOST_VERIFYs of basic_stream and of the rate policy
Assertions == {"expires: a wait is outstanding", "timeout: tick in the future",
               "timeout: already timed out", "rate: nobody was waiting",
               "rate: a wait is outstanding", "cancel: more than one wait",
               "cancel: timed out but waiting"}

TypeOK ==
  /\ pending \in [Dirs -> BOOLEAN]
  /\ phase \in [Dirs -> {"idle", "rate", "io", "empty", "connect"}]
  /\ io \in [Dirs -> {"none", "pending", "ok", "err"}]
  /\ tick \in [Dirs -> Nat] /\ timeout \in [Dirs -> BOOLEAN]
  /\ expiry \in [Dirs -> {"never", "set", "past"}]
  /\ waits \in [Dirs -> Seq(Nat)] /\ expired \in [Dirs -> Seq(Nat)]
  /\ sock \in BOOLEAN
  /\ avail \in [Dirs -> 0 .. Limit] /\ waiting \in Nat
  /\ rate \in [Waiters -> {"none", "wait", "ok", "aborted"}]
  /\ ratePast \in BOOLEAN
  /\ calls \in [{"read", "write", "connect", "expires", "stop"} -> Nat]
  /\ result \in [Dirs -> Results]
  /\ asserts \subseteq Assertions

Init ==
  /\ pending = [d \in Dirs |-> FALSE] /\ phase = [d \in Dirs |-> "idle"]
  /\ io = [d \in Dirs |-> "none"]
  /\ tick = [d \in Dirs |-> 0] /\ timeout = [d \in Dirs |-> FALSE]
  /\ expiry = [d \in Dirs |-> "never"]
  /\ waits = [d \in Dirs |-> <<>>] /\ expired = [d \in Dirs |-> <<>>]
  /\ sock = TRUE
  /\ avail = [d \in Dirs |-> Limit] /\ waiting = 0
  /\ rate = [w \in Waiters |-> "none"] /\ ratePast = TRUE
  /\ calls = [read |-> Transfers, write |-> Transfers, connect |-> Connects,
              expires |-> Expires, stop |-> Stops]
  /\ result = [d \in Dirs |-> "none"] /\ asserts = {}

----------------------------------------------------------------------------
(* The socket and the timers below *)

Fail(name, cond) == IF cond THEN {name} ELSE {}
Started == IF sock THEN "pending" ELSE "err"   \* a closed socket fails at once
Aborted(f) == [d \in DOMAIN f |-> IF f[d] = "pending" THEN "err" ELSE f[d]]
RateAborted ==
  [w \in Waiters |-> IF rate[w] # "wait" THEN rate[w]
                     ELSE IF w = "slice" THEN "none" ELSE "aborted"]

\* state().timer.async_wait(timeout_handler{tick}), when a deadline is set
WaitStarts(d) ==
  /\ waits' = [waits EXCEPT ![d] =
                 IF expiry[d] = "set" THEN Append(@, tick[d]) ELSE @]
  /\ expired' = [expired EXCEPT ![d] =
                 IF expiry[d] = "past" THEN Append(@, tick[d]) ELSE @]

\* impl_type::close
ClosesSocket == sock' = FALSE /\ io' = Aborted(io) /\ rate' = RateAborted

----------------------------------------------------------------------------
(* What the application calls *)

Joined == waiting + 1

\* transfer_op: its constructor up to the first I/O or the wait for budget
AsyncTransfer(d) ==
  /\ ~pending[d] /\ calls[d] > 0
  /\ calls' = [calls EXCEPT ![d] = @ - 1]
  /\ pending' = [pending EXCEPT ![d] = TRUE]
  /\ WaitStarts(d)
  /\ \/ /\ avail[d] > 0
        /\ phase' = [phase EXCEPT ![d] = "io"]
        /\ io' = [io EXCEPT ![d] = Started]
        /\ UNCHANGED <<waiting, rate>>
     \/ /\ avail[d] = 0
        /\ phase' = [phase EXCEPT ![d] = "rate"]
        /\ waiting' = Joined
        /\ rate' = [rate EXCEPT ![d] = IF ratePast THEN "ok" ELSE "wait"]
        /\ UNCHANGED io
  /\ UNCHANGED <<tick, timeout, expiry, sock, avail, ratePast, history>>

\* The same with no buffers: an I/O of no bytes, and no wait on the deadline
AsyncEmptyTransfer(d) ==
  /\ ~pending[d] /\ calls[d] > 0
  /\ calls' = [calls EXCEPT ![d] = @ - 1]
  /\ pending' = [pending EXCEPT ![d] = TRUE]
  /\ phase' = [phase EXCEPT ![d] = "empty"]
  /\ io' = [io EXCEPT ![d] = Started]
  /\ UNCHANGED <<deadline, sock, policy, history>>

\* connect_op: pending in both directions, with the write deadline
AsyncConnect ==
  /\ ~pending["read"] /\ ~pending["write"] /\ calls["connect"] > 0
  /\ calls' = [calls EXCEPT !["connect"] = @ - 1]
  /\ pending' = [d \in Dirs |-> TRUE]
  /\ phase' = [phase EXCEPT !["write"] = "connect"]
  /\ sock' = TRUE /\ io' = [io EXCEPT !["write"] = "pending"]
  /\ WaitStarts("write")
  /\ UNCHANGED <<tick, timeout, expiry, policy, history>>

\* expires_after, expires_at, expires_never: for the directions that are idle
ExpiresAt(e) ==
  /\ \E d \in Dirs : ~pending[d]
  /\ calls["expires"] > 0 /\ calls' = [calls EXCEPT !["expires"] = @ - 1]
  /\ expiry' = [d \in Dirs |-> IF pending[d] THEN expiry[d] ELSE e]
  /\ waits' = [d \in Dirs |-> IF pending[d] THEN waits[d] ELSE <<>>]
  /\ asserts' = asserts \cup
       Fail("expires: a wait is outstanding",
            \E d \in Dirs : ~pending[d] /\ waits[d] # <<>>)
  /\ UNCHANGED <<pending, phase, io, tick, timeout, expired, sock, policy, result>>

\* cancel; close and release_socket also leave the stream without a socket
Cancel(closes) ==
  /\ calls["stop"] > 0 /\ calls' = [calls EXCEPT !["stop"] = @ - 1]
  /\ IF closes THEN ClosesSocket
     ELSE io' = Aborted(io) /\ rate' = RateAborted /\ UNCHANGED sock
  /\ UNCHANGED <<pending, phase, deadline, avail, waiting, ratePast, history>>

----------------------------------------------------------------------------
(* The deadlines *)

\* A deadline passes: the handlers of the waits on it are ready
DeadlinePasses(d) ==
  /\ expiry[d] = "set" /\ expiry' = [expiry EXCEPT ![d] = "past"]
  /\ expired' = [expired EXCEPT ![d] = @ \o waits[d]]
  /\ waits' = [waits EXCEPT ![d] = <<>>]
  /\ UNCHANGED <<pending, phase, io, tick, timeout, sock, policy, calls, history>>

\* Mutants of Stale: no check; off by one
BugNeverStale(t, d) == FALSE
BugAlwaysStale(t, d) == t <= tick[d]

\* The operation the handler was started for has completed
Stale(t, d) == t < tick[d]

timeout_handler(d) ==
  /\ expired[d] # <<>>
  /\ expired' = [expired EXCEPT ![d] = Tail(@)]
  /\ IF Stale(Head(expired[d]), d)
     THEN UNCHANGED <<io, timeout, sock, rate, asserts>>
     ELSE /\ ClosesSocket
          /\ timeout' = [timeout EXCEPT ![d] = TRUE]
          /\ asserts' = asserts
               \cup Fail("timeout: tick in the future", Head(expired[d]) > tick[d])
               \cup Fail("timeout: already timed out", timeout[d])
  /\ UNCHANGED <<pending, phase, tick, expiry, waits, avail, waiting, ratePast,
                 calls, result>>

----------------------------------------------------------------------------
(* The rate policy *)

RateTimerExpires ==
  /\ ~ratePast /\ ratePast' = TRUE
  /\ rate' = [w \in Waiters |-> IF rate[w] = "wait" THEN "ok" ELSE rate[w]]
  /\ UNCHANGED <<pending, phase, io, deadline, sock, avail, waiting, calls,
                 history>>

\* Mutant of NewSliceWaiters: the handler is not counted
BugSliceUncounted == 0

\* ++waiting for the handler that ends the slice
NewSliceWaiters == 1

\* Mutant of OthersWait: the caller counts itself among the others
BugCountsItself == waiting > 0

OthersWait == waiting - 1 > 0

\* impl_type::on_timer, called by the waiter w
on_timer(w) ==
  IF OthersWait
  THEN /\ waiting' = waiting - 1
       /\ rate' = [rate EXCEPT ![w] = "none"]
       /\ UNCHANGED <<avail, ratePast, asserts>>
  ELSE /\ avail' = [d \in Dirs |-> Limit]
       /\ waiting' = NewSliceWaiters /\ ratePast' = FALSE
       /\ rate' = [rate EXCEPT ![w] = "none", !["slice"] = "wait"]
       /\ asserts' = asserts
            \cup Fail("rate: nobody was waiting", waiting = 0)
            \cup Fail("rate: a wait is outstanding",
                      \E x \in Waiters : rate[x] = "wait")

SliceEnds ==
  /\ rate["slice"] = "ok" /\ on_timer("slice")
  /\ UNCHANGED <<pending, phase, io, deadline, sock, calls, result>>

\* The operation of direction d is over
Completes(d) ==
  /\ pending' = [pending EXCEPT ![d] = FALSE]
  /\ phase' = [phase EXCEPT ![d] = "idle"]

\* The wait for budget ends: the transfer starts, with at least one byte
BudgetGranted(d) ==
  /\ phase[d] = "rate" /\ rate[d] = "ok" /\ on_timer(d)
  /\ phase' = [phase EXCEPT ![d] = "io"]
  /\ io' = [io EXCEPT ![d] = Started]
  /\ UNCHANGED <<pending, deadline, sock, calls, result>>

\* ... or is canceled: the wait on the deadline stays outstanding
BudgetCanceled(d) ==
  /\ phase[d] = "rate" /\ rate[d] = "aborted"
  /\ rate' = [rate EXCEPT ![d] = "none"]
  /\ Completes(d)
  /\ result' = [result EXCEPT ![d] = IF timeout[d] THEN "timeout" ELSE "err"]
  /\ timeout' = [timeout EXCEPT ![d] = FALSE]
  /\ UNCHANGED <<io, tick, expiry, waits, expired, sock, avail, waiting, ratePast,
                 calls, asserts>>

----------------------------------------------------------------------------
(* Completion of the I/O *)

\* Mutant of NextTick: the waits of the last operation are not made stale
BugSameTick(d) == tick[d]

NextTick(d) == tick[d] + 1

\* Mutant of FlagAfter: it stays up
BugFlagKept(flag, delivered) == flag

\* The flag is cleared by the operation that delivers the timeout
FlagAfter(flag, delivered) == flag /\ ~delivered

\* The tail of transfer_op and connect_op for an I/O that ended with r
Finishes(d, r) ==
  IF expiry[d] = "never"
  THEN result' = [result EXCEPT ![d] = r] /\ UNCHANGED <<deadline, asserts>>
  ELSE /\ tick' = [tick EXCEPT ![d] = NextTick(d)]
       /\ waits' = [waits EXCEPT ![d] = <<>>]
       /\ LET late == waits[d] = <<>> /\ timeout[d] IN
          /\ timeout' = [timeout EXCEPT ![d] = FlagAfter(@, late)]
          /\ result' = [result EXCEPT ![d] = IF late THEN "timeout" ELSE r]
       /\ asserts' = asserts
            \cup Fail("cancel: more than one wait", Len(waits[d]) > 1)
            \cup Fail("cancel: timed out but waiting",
                      waits[d] # <<>> /\ timeout[d])
       /\ UNCHANGED <<expiry, expired>>

\* transfer_bytes: n bytes of the budget are spent, and never more than it has
Spent(d, n) == IF n < avail[d] THEN avail[d] - n ELSE 0

TransferDone(d) ==
  /\ phase[d] = "io" /\ io[d] \in {"ok", "err"}
  /\ Finishes(d, io[d])
  /\ \E n \in IF io[d] = "err" THEN {0} ELSE 1 .. Limit :
       /\ n <= 1 \/ n <= avail[d]
       /\ avail' = [avail EXCEPT ![d] = IF Limited THEN Spent(d, n) ELSE @]
  /\ Completes(d)
  /\ io' = [io EXCEPT ![d] = "none"]
  /\ UNCHANGED <<sock, waiting, rate, ratePast, calls>>

\* The deadline is looked at once, after the fact
EmptyTransferDone(d) ==
  /\ phase[d] = "empty" /\ io[d] \in {"ok", "err"}
  /\ Completes(d)
  /\ IF expiry[d] = "past"
     THEN /\ sock' = FALSE /\ rate' = RateAborted
          /\ io' = [Aborted(io) EXCEPT ![d] = "none"]
          /\ result' = [result EXCEPT ![d] = "timeout"]
     ELSE /\ io' = [io EXCEPT ![d] = "none"]
          /\ result' = [result EXCEPT ![d] = io[d]]
                  /\ UNCHANGED <<sock, rate>>
  /\ UNCHANGED <<deadline, avail, waiting, ratePast, calls, asserts>>

ConnectDone ==
  /\ phase["write"] = "connect" /\ io["write"] \in {"ok", "err"}
  /\ Finishes("write", io["write"])
  /\ pending' = [d \in Dirs |-> FALSE]
  /\ phase' = [phase EXCEPT !["write"] = "idle"]
  /\ io' = [io EXCEPT !["write"] = "none"]
  /\ UNCHANGED <<sock, policy, calls>>

\* The network: an I/O is done, or fails
IoCompletes(d) ==
  /\ io[d] = "pending"
  /\ \E r \in {"ok"} \cup (IF NetErrors THEN {"err"} ELSE {}) :
       io' = [io EXCEPT ![d] = r]
  /\ UNCHANGED <<pending, phase, deadline, sock, policy, calls, history>>
----------------------------------------------------------------------------
Application == \/ \E d \in Dirs : AsyncTransfer(d) \/ AsyncEmptyTransfer(d)
               \/ AsyncConnect
               \/ \E e \in {"never", "set", "past"} : ExpiresAt(e)
               \/ \E c \in BOOLEAN : Cancel(c)
Handler(d) == \/ timeout_handler(d) \/ BudgetGranted(d) \/ BudgetCanceled(d)
              \/ TransferDone(d) \/ EmptyTransferDone(d)
              \/ d = "write" /\ ConnectDone
Next == \/ Application \/ RateTimerExpires \/ SliceEnds
        \/ \E d \in Dirs : Handler(d) \/ DeadlinePasses(d) \/ IoCompletes(d)

Spec == Init /\ [][Next]_vars

(* Ready handlers run and timers expire.  An I/O of no bytes is done at once;
   of any other I/O nothing is assumed.                                       *)
Fairness ==
  /\ \A d \in Dirs : /\ WF_vars(timeout_handler(d))
                     /\ WF_vars(BudgetGranted(d)) /\ WF_vars(BudgetCanceled(d))
                     /\ WF_vars(TransferDone(d)) /\ WF_vars(EmptyTransferDone(d))
                     /\ WF_vars(DeadlinePasses(d))
                     /\ WF_vars(phase[d] = "empty" /\ IoCompletes(d))
  /\ WF_vars(ConnectDone) /\ WF_vars(SliceEnds) /\ WF_vars(RateTimerExpires)
FairSpec == Spec /\ Fairness

----------------------------------------------------------------------------
(* Correctness *)

\* No BOOST_ASSERT or BOOST_VERIFY fails: every wait on a deadline is canceled
\* or stale when its operation is over, a timeout is never delivered twice, and
\* nobody waits on the rate timer when a slice starts.
AssertionsHold == asserts = {}

\* A timeout is delivered to the operation whose deadline passed, never to a
\* later one: the flag is only up while that operation is outstanding.
TimeoutFlagOwned == \A d \in Dirs : timeout[d] => phase[d] # "idle"

\* The socket is closed by the application, or because the deadline of an
\* operation that is still outstanding has passed (the stale-timer check).
ClosedForCause ==
  [][(sock /\ ~sock') =>
       \/ calls'["stop"] < calls["stop"]
       \/ \E d \in Dirs : phase[d] # "idle" /\ expiry[d] = "past"]_vars

\* Who is told error::timeout: an operation whose deadline has closed the socket,
\* even if its I/O was done by then, and no other one.
TimeoutTold ==
  [][\A d \in Dirs :
       (phase[d] \notin {"idle", "empty"} /\ phase'[d] = "idle") =>
         (result'[d] = "timeout" <=> timeout[d])]_vars

\* An operation that was started under a deadline completes, whatever the
\* network does.
DeadlineEnds ==
  \A d \in Dirs : (phase[d] # "idle" /\ expiry[d] # "never") ~> phase[d] = "idle"

\* No wait for budget has been cut off: by cancel or close, or by a timeout.
Uncut == sock /\ calls["stop"] = Stops /\ calls["connect"] = Connects

\* The policy counts every wait on the rate timer, so that one of them is the
\* last; and it counts no others until one is cut off.
RateWaitersCounted ==
  LET waits_on == Cardinality({w \in Waiters : rate[w] # "none"})
  IN  waits_on <= waiting /\ (Uncut => waiting = waits_on)

\* It does so as long as no wait has been cut off.
BudgetRenewedUncut ==
  \A d \in Dirs : phase[d] = "rate" ~> (avail[d] > 0 \/ ~Uncut)
=============================================================================
