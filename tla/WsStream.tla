------------------------------ MODULE WsStream ------------------------------
(* The asynchronous operations of one websocket::stream after its handshake:
   read, write, ping, close, the idle ping the timer starts, the expiration
   timer, the two soft mutexes that order them, the saved handlers that park an
   operation on a mutex, and the error-delivery rule they share.

   An operation is a stackless coroutine.  Between two yields it runs without
   interruption, so a step of the model is one stretch of code between labels or
   yields, and while  cur  names an operation no other step is possible.
     pc[o]   where operation o stands: a yield, a label of its code, or "idle"
     io[o]   what resumes it: "pending" (an I/O in flight), "ok" or "err" (its
             handler is ready to run), "none" (parked, or running)
   Handlers that are ready run in any order.  The peer and the network are the
   environment; wire data is a sequence of frame headers and payloads.         *)
EXTENDS Integers, Sequences, FiniteSets

CONSTANTS
  ReadCalls, WriteCalls, PingCalls,  \* bounds: calls the application makes
  MaxFrames,                         \* bound: frames of one outgoing message
  MaxPeer,                           \* bound: frames the peer sends
  IdleTimeout, HandshakeTimeout,     \* timeout_opt: is each limit set?
  KeepAlive,                         \* timeout_opt.keep_alive_pings
  CtrlCb,                            \* has a control callback been set?
  PeerErrors,                        \* may the peer break the protocol?
  NetErrors,                         \* may an I/O fail on its own?
  FullBuffers                        \* may an async_read's buffer be full?

ASSUME ConstantsAssumption ==
  /\ {ReadCalls, WriteCalls, PingCalls, MaxFrames, MaxPeer} \subseteq Nat
  /\ {IdleTimeout, HandshakeTimeout, KeepAlive, CtrlCb, PeerErrors, NetErrors,
      FullBuffers} \subseteq BOOLEAN

Ops == {"rd", "wr", "ping", "idle_ping", "close"}
Simple == {"wr", "ping", "idle_ping"}    \* they only ever take the write block
None == "none"

VARIABLES
  pc, io, cur,
  rd_block, wr_block,        \* the soft mutexes: None or the operation inside
  status, ec_delivered, timed_out, rd_close, wr_close,
  ec,                        \* ec[o]: the error an operation carries
  armed, fired, idle_counter, idle_pinging,
  sock,                      \* is the lowest layer's socket open?
  rd_buf, rd_remain, rd_fin, rd_done, rd_cont, cont, some_,
  frag, left,                \* the write in progress: autofragment? frames left
  net, peer,                 \* received but unread wire data; the peer's state
  calls,                     \* calls the application may still make
  told, expired, cut, asserts \* history

locks   == <<rd_block, wr_block>>
session == <<status, ec_delivered, timed_out>>
closing == <<rd_close, wr_close>>
timer   == <<armed, fired, idle_counter, idle_pinging>>
frame   == <<rd_remain, rd_fin, rd_done, rd_cont>>
parser  == <<rd_buf, frame, cont, some_>>
writer  == <<frag, left>>
world   == <<net, peer>>
history == <<told, expired, cut, asserts>>
vars == <<pc, io, cur, locks, session, closing, ec, timer, sock, parser,
          writer, world, calls, history>>

----------------------------------------------------------------------------
(* Data: what the peer puts on the wire, and the places an operation can be. *)

Control == {"ping", "pong", "close", "badclose"}
Frame(k, f, n) == [kind |-> k, fin |-> f, len |-> n]
Frames == [kind : Control \cup {"data", "bad", "payload"},
           fin : BOOLEAN, len : {0, 1}]

SimplePcs == {"idle", "begin", "susp", "post", "write", "upcall"}
Pcs == [rd |-> {"idle", "next", "acquire", "r_susp", "r_post", "loop", "hdr",
                "ctl", "cb", "pong_susp", "pong_post", "pong_write", "payload",
                "pay", "closing", "cl_susp", "cl_post", "cl_write", "td", "upcall"},
        wr |-> SimplePcs, ping |-> SimplePcs, idle_ping |-> SimplePcs,
        close |-> SimplePcs \cup {"r_susp", "r_post", "drain", "hdr", "pay", "td"}]
Labels == UNION {Pcs[o] : o \in Ops}

\* The BOOST_ASSERTs that are recorded: those of the operations on the blocks, on the
\* closing flags and on the error of a suspended read, and those of soft_mutex
Assertions == {"try_lock: same operation twice", "unlock by a stranger",
               "write block lost while posted", "write block lost while sending",
               "read without the read block", "read block already taken",
               "teardown without the write block", "close frame sent twice",
               "close frame read twice", "close frame already read",
               "closing but no close frame", "suspended read but no close frame",
               "suspended read stopped by a timeout"}

Reading(o)  == pc[o] \in {"hdr", "pay"}
Writing(o)  == pc[o] \in {"write", "pong_write", "cl_write"}
TearingDown(o) == pc[o] = "td"

\* Mutants of Dead: a failed, or a closed, stream is not seen as dead
BugFailedIsAlive == {"closed"}
BugClosedIsAlive == {"failed"}

\* The states of the stream in which every operation stops
Dead == {"closed", "failed"}
Results == {"ok", "err", "aborted", "timeout", "closed", "proto", "torn"}

\* The results that name a cause: what check_stop_now lets an operation deliver,
\* and how a teardown ends, by its own error or with the one that led to it
StopCauses     == {"err", "timeout"}
TeardownCauses == {"proto", "torn"}

\* Which step of which operation runs, waits or may run, and the two blocks
ControlOK ==
  /\ pc \in [Ops -> Labels] /\ \A o \in Ops : pc[o] \in Pcs[o]
  /\ io \in [Ops -> {"none", "pending", "ok", "err"}]
  /\ cur \in Ops \cup {None}
  /\ rd_block \in {None, "rd", "close"} /\ wr_block \in Ops \cup {None}

SessionOK ==
  /\ status \in {"open", "closing", "closed", "failed"}
  /\ ec_delivered \in BOOLEAN /\ timed_out \in BOOLEAN
  /\ rd_close \in BOOLEAN /\ wr_close \in BOOLEAN
  /\ ec \in [Ops -> Results]
  /\ armed \in BOOLEAN /\ idle_pinging \in BOOLEAN /\ sock \in BOOLEAN
  /\ fired \in Nat /\ idle_counter \in {0, 1}

DataOK ==
  /\ rd_buf \in Seq(Frames) /\ net \in Seq(Frames)
  /\ rd_remain \in {0, 1}
  /\ rd_fin \in BOOLEAN /\ rd_done \in BOOLEAN /\ rd_cont \in BOOLEAN
  /\ cont \in BOOLEAN /\ some_ \in BOOLEAN /\ frag \in BOOLEAN /\ left \in Nat
  /\ peer \in {"open", "owes", "done", "gone"}
  /\ calls \in [{"rd", "wr", "ping", "close", "peer"} -> Nat]

HistoryOK ==
  /\ told \in Seq(Results) /\ expired \in BOOLEAN
  /\ cut \subseteq Ops /\ asserts \subseteq Assertions

TypeOK == ControlOK /\ SessionOK /\ DataOK /\ HistoryOK

Init ==
  /\ pc = [o \in Ops |-> "idle"] /\ io = [o \in Ops |-> "none"] /\ cur = None
  /\ rd_block = None /\ wr_block = None
  /\ status = "open"
  /\ ec_delivered = FALSE /\ timed_out = FALSE
  /\ rd_close = FALSE /\ wr_close = FALSE
  /\ ec = [o \in Ops |-> "ok"]
  /\ armed = FALSE /\ fired = 0 /\ idle_counter = 0 /\ idle_pinging = FALSE
  /\ sock = TRUE
  /\ rd_buf = <<>> /\ rd_remain = 0 /\ rd_fin = FALSE /\ rd_done = TRUE
  /\ rd_cont = FALSE /\ cont = FALSE /\ some_ = FALSE
  /\ frag = FALSE /\ left = 0
  /\ net = <<>> /\ peer = "open"
  /\ calls = [rd |-> ReadCalls, wr |-> WriteCalls, ping |-> PingCalls,
              close |-> 1, peer |-> MaxPeer]
  /\ told = <<>> /\ expired = FALSE /\ cut = {} /\ asserts = {}

----------------------------------------------------------------------------
(* Control transfer.  Each sets pc, io and cur; the functions pcs and ios are
   pc and io, or pc and io with another operation resumed.                    *)

Resumed(o) == cur = None /\ io[o] \in {"ok", "err"}   \* o's handler is called

GotoFrom(pcs, ios, o, label) ==
  /\ pc' = [pcs EXCEPT ![o] = label]
  /\ io' = [ios EXCEPT ![o] = "none"]
  /\ cur' = o
YieldFrom(pcs, ios, o, label, how) ==
  /\ pc' = [pcs EXCEPT ![o] = label]
  /\ io' = [ios EXCEPT ![o] = how]
  /\ cur' = None
Goto(o, label) == GotoFrom(pc, io, o, label)
Park(o, label) == YieldFrom(pc, io, o, label, "none")   \* saved_handler::emplace
Post(o, label) == YieldFrom(pc, io, o, label, "ok")     \* net::post
IoFrom(s) == IF s THEN "pending" ELSE "err"  \* a closed socket fails every I/O
StartIo(o, label) == YieldFrom(pc, io, o, label, IoFrom(sock))

Assert(name, cond) == asserts' = IF cond THEN asserts ELSE asserts \cup {name}

----------------------------------------------------------------------------
(* check_stop_now: stop with the error an operation must deliver, or go on.  *)

\* Mutant of TimeoutDue: the status is tested before the timeout
BugStatusFirst == timed_out /\ status \notin Dead

\* The timeout goes to the first caller, before anything else is looked at
TimeoutDue == timed_out

\* Mutant of Aborts: an operation with an error of its own tells it
BugEachTells(e) == status \in Dead /\ e = "ok"

\* Another operation has told the cause: this one only has the consequence
Aborts(e) == status \in Dead \/ (e # "ok" /\ ec_delivered)

Stop(o, e) ==
  \/ /\ TimeoutDue
     /\ timed_out' = FALSE
     /\ ec' = [ec EXCEPT ![o] = "timeout"]
     /\ UNCHANGED <<status, ec_delivered>>
  \/ /\ ~TimeoutDue /\ Aborts(e)
     /\ ec' = [ec EXCEPT ![o] = "aborted"]
     /\ UNCHANGED session
  \/ /\ ~TimeoutDue /\ ~Aborts(e) /\ e # "ok"
     /\ ec' = [ec EXCEPT ![o] = e]
     /\ ec_delivered' = TRUE /\ status' = "failed"
     /\ UNCHANGED timed_out

\* Mutant of GoOn: no error, so go on, whatever the status
BugStatusIgnored(e) == ~TimeoutDue /\ e = "ok"

GoOn(e) == ~TimeoutDue /\ status \notin Dead /\ e = "ok"

----------------------------------------------------------------------------
(* The write block.  A holder hands it to the first parked operation of its
   own list of maybe_invoke() calls; that operation locks it and posts.       *)

WaitsWr(o) == pc[o] \in {"susp", "pong_susp", "cl_susp"}
PostOf == [susp |-> "post", pong_susp |-> "pong_post", cl_susp |-> "cl_post"]

\* Mutant of WakeOrder: every operation has a copy of the read's list
BugReadsListCopied == [o \in Ops |-> <<"close", "idle_ping", "ping", "wr">>]

WakeOrder == [rd        |-> <<"close", "idle_ping", "ping", "wr">>,
              wr        |-> <<"close", "idle_ping", "rd", "ping">>,
              ping      |-> <<"close", "idle_ping", "rd", "wr">>,
              idle_ping |-> <<"close", "ping", "rd", "wr">>,
              close     |-> <<"rd", "idle_ping", "ping", "wr">>]
FirstWaiter(o, n) ==
  \E i \in 1 .. 4 : /\ n = WakeOrder[o][i] /\ WaitsWr(n)
                    /\ \A j \in 1 .. i - 1 : ~WaitsWr(WakeOrder[o][j])

\* Mutant of NextWriter: the unlock without its maybe_invoke() calls
BugNoInvoke(o, n) == n = None

\* n, the next owner once o unlocks: None when nobody is parked
NextWriter(o, n) ==
  \/ n \in Ops /\ FirstWaiter(o, n)
  \/ n = None /\ \A i \in 1 .. 4 : ~WaitsWr(WakeOrder[o][i])

\* Mutant of Woken: every saved handler is invoked, not just the first one
BugAllWoken(n, x) == n # None /\ WaitsWr(x)

\* Is x the one whose saved handler is invoked?
Woken(n, x) == x = n
PcWoken(n) == [x \in Ops |-> IF Woken(n, x) THEN PostOf[pc[x]] ELSE pc[x]]
IoWoken(n) == [x \in Ops |-> IF Woken(n, x) THEN "ok" ELSE io[x]]

\* The operation is done: its result, if it is a cause and not a consequence,
\* is reported to the application.  An idle ping has no handler to tell.
Report(o) ==
  /\ told' = IF o # "idle_ping" /\ ec[o] \in StopCauses \cup TeardownCauses
             THEN Append(told, ec[o]) ELSE told
  /\ cut' = cut \ {o}

----------------------------------------------------------------------------
(* The expiration timer.  expires_after cancels the wait in progress; a wait
   that has already expired stays queued in  fired  and runs anyway.          *)

\* Mutant of Limited: the limit of the closing handshake is forgotten
BugIdleOnly(st) == st = "open" /\ IdleTimeout

\* Is there a time limit in state st of the stream?
Limited(st) == \/ st = "open" /\ IdleTimeout
               \/ st = "closing" /\ HandshakeTimeout

UpdateTimer(st) ==
  /\ armed' = (Limited(st) \/ (st = "closing" /\ armed))
  /\ idle_counter' = IF Limited(st) THEN 0 ELSE idle_counter
  /\ UNCHANGED <<fired, idle_pinging>>

TimerExpires ==
  /\ armed /\ armed' = FALSE /\ fired' = fired + 1
  /\ UNCHANGED <<pc, io, cur, locks, session, closing, ec, idle_counter,
                 idle_pinging, sock, parser, writer, world, calls, history>>

\* close_socket: every I/O in flight is canceled
CloseSocket == sock' = FALSE

TimeOut ==
  /\ timed_out' = TRUE /\ status' = "closed"
  /\ CloseSocket
  /\ io' = [o \in Ops |-> IF io[o] = "pending" THEN "err" ELSE io[o]]
  /\ LET out == {o \in Ops \ {"idle_ping"} : pc[o] # "idle"} IN
       cut' = out /\ expired' = (expired \/ (status = "open" /\ out # {}))
  /\ UNCHANGED <<pc, cur, armed, idle_counter, idle_pinging, ec_delivered>>

\* The first interval without data: send a ping, wait another half interval
IdlePing ==
  /\ idle_counter' = idle_counter + 1 /\ armed' = TRUE
  /\ idle_pinging' = TRUE
  /\ IF idle_pinging THEN UNCHANGED <<pc, io, cur>> ELSE Goto("idle_ping",
                                      "begin")
  /\ UNCHANGED <<session, sock, expired, cut>>

\* Mutant of PingsOnIdle: nothing counts the silent intervals
BugPingsForever == KeepAlive

\* keep_alive_pings, and this is the first interval without data
PingsOnIdle == KeepAlive /\ idle_counter < 1

timeout_handler ==
  /\ cur = None /\ fired > 0 /\ fired' = fired - 1
  /\ \/ status = "open" /\ IdleTimeout /\ PingsOnIdle /\ IdlePing
     \/ status = "open" /\ IdleTimeout /\ ~PingsOnIdle /\ TimeOut
     \/ status = "closing" /\ TimeOut
     \/ /\ status \in Dead \cup (IF IdleTimeout THEN {} ELSE {"open"})
        /\ UNCHANGED <<pc, io, cur, session, sock, armed, idle_counter,
                       idle_pinging, expired, cut>>
  /\ UNCHANGED <<locks, closing, ec, parser, writer, world, calls, told, asserts>>

----------------------------------------------------------------------------
(* write_some_op, ping_op, idle_ping_op: take the write block, send, unlock.  *)

\* The documented contract: once a close has been started only reads may be
CloseStarted == calls["close"] = 0

AsyncWrite(f, n) ==
  /\ cur = None /\ pc["wr"] = "idle" /\ calls["wr"] > 0 /\ ~CloseStarted
  /\ calls' = [calls EXCEPT !["wr"] = @ - 1]
  /\ frag' = f /\ left' = n
  /\ ec' = [ec EXCEPT !["wr"] = "ok"]
  /\ Goto("wr", "begin")
  /\ UNCHANGED <<locks, session, closing, timer, sock, parser, world, history>>

AsyncPing ==
  /\ cur = None /\ pc["ping"] = "idle" /\ calls["ping"] > 0 /\ ~CloseStarted
  /\ calls' = [calls EXCEPT !["ping"] = @ - 1]
  /\ ec' = [ec EXCEPT !["ping"] = "ok"]
  /\ Goto("ping", "begin")
  /\ UNCHANGED <<locks, session, closing, timer, sock, parser, writer, world,
                 history>>

\* The write block is held: stop, or start sending the (next) frame.  A
\* compressed write may have no frame to send yet (left = 0).
SimpleLocked(o) ==
  \/ Stop(o, "ok") /\ Goto(o, "upcall")
  \/ /\ GoOn("ok") /\ UNCHANGED <<session, ec>>
     /\ IF o = "wr" /\ left = 0 THEN Goto(o, "upcall") ELSE StartIo(o, "write")

SimpleBegin(o) ==
  /\ cur = o /\ pc[o] = "begin"
  /\ \/ wr_block = None /\ wr_block' = o /\ SimpleLocked(o)
     \/ wr_block # None /\ Park(o, "susp") /\ UNCHANGED <<wr_block, session, ec>>
  /\ Assert("try_lock: same operation twice", wr_block # o)
  /\ UNCHANGED <<rd_block, closing, timer, sock, parser, writer, world, calls,
                 told, expired, cut>>

SimplePosted(o) ==
  /\ Resumed(o) /\ pc[o] = "post"
  /\ SimpleLocked(o)
  /\ Assert("write block lost while posted", wr_block = o)
  /\ UNCHANGED <<locks, closing, timer, sock, parser, writer, world, calls,
                 told, expired, cut>>

PingSent(o) ==
  /\ o # "wr" /\ Resumed(o) /\ pc[o] = "write"
  /\ Goto(o, "upcall")
  /\ \/ Stop(o, io[o])
     \/ GoOn(io[o]) /\ UNCHANGED <<session, ec>>
  /\ UNCHANGED <<locks, closing, timer, sock, parser, writer, world, calls,
                 history>>

\* Between two frames of an autofragmented message the write block goes to
\* whoever is parked on it, and the write parks behind them.
FrameSent ==
  /\ Resumed("wr") /\ pc["wr"] = "write"
  /\ left' = left - 1
  /\ \/ /\ Stop("wr", io["wr"]) /\ Goto("wr", "upcall") /\ UNCHANGED wr_block
     \/ /\ GoOn(io["wr"]) /\ UNCHANGED <<session, ec>>
        /\ \/ left = 1 /\ Goto("wr", "upcall") /\ UNCHANGED wr_block
           \/ left > 1 /\ ~frag /\ StartIo("wr", "write") /\ UNCHANGED wr_block
           \/ /\ left > 1 /\ frag
              /\ \/ /\ NextWriter("wr", None)
                    /\ StartIo("wr", "write") /\ UNCHANGED wr_block
                 \/ \E n \in Ops :
                      /\ NextWriter("wr", n) /\ wr_block' = n
                      /\ YieldFrom(PcWoken(n), IoWoken(n), "wr", "susp", "none")
  /\ UNCHANGED <<rd_block, closing, timer, sock, parser, frag, world, calls,
                 history>>

SimpleUpcall(o) ==
  /\ cur = o /\ pc[o] = "upcall"
  /\ \E n \in Ops \cup {None} :
       /\ NextWriter(o, n) /\ wr_block' = n
       /\ YieldFrom(PcWoken(n), IoWoken(n), o, "idle", "none")
  /\ Assert("unlock by a stranger", wr_block = o)
  /\ Report(o)
  /\ idle_pinging' = (idle_pinging /\ o # "idle_ping")
  /\ UNCHANGED <<rd_block, session, closing, ec, armed, fired, idle_counter, sock,
                 parser, writer, world, calls, expired>>

----------------------------------------------------------------------------
(* close_op *)

AsyncClose ==
  /\ cur = None /\ pc["close"] = "idle" /\ calls["close"] > 0
  /\ calls' = [calls EXCEPT !["close"] = @ - 1]
  /\ ec' = [ec EXCEPT !["close"] = "ok"]
  /\ Goto("close", "begin")
  /\ UNCHANGED <<locks, session, closing, timer, sock, parser, writer, world,
                 history>>

\* The write block is held: start the closing handshake
CloseLocked ==
  \/ /\ Stop("close", "ok") /\ Goto("close", "upcall")
     /\ UNCHANGED <<wr_close, timer, asserts>>
  \/ /\ GoOn("ok")
     /\ Assert("close frame sent twice", ~wr_close)
     /\ wr_close' = TRUE /\ status' = "closing"
     /\ UpdateTimer("closing")
     /\ StartIo("close", "write")
     /\ UNCHANGED <<ec_delivered, timed_out, ec>>

CloseBegin ==
  /\ cur = "close" /\ pc["close"] = "begin"
  /\ \/ wr_block = None /\ wr_block' = "close" /\ CloseLocked
     \/ /\ wr_block # None /\ Park("close", "susp")
        /\ UNCHANGED <<wr_block, session, ec, wr_close, timer, asserts>>
  /\ UNCHANGED <<rd_block, rd_close, sock, parser, writer, world, calls,
                 told, expired, cut>>

ClosePosted ==
  /\ Resumed("close") /\ pc["close"] = "post" /\ CloseLocked
  /\ UNCHANGED <<locks, rd_close, sock, parser, writer, world, calls,
                 told, expired, cut>>

\* Mutants of PeerCloseSeen: the wrong flag is tested; the test is missing
BugOwnCloseSeen == wr_close

\* The read_op has read the peer's close frame: nothing is left to read
PeerCloseSeen == rd_close

CloseSent ==
  /\ Resumed("close") /\ pc["close"] = "write"
  /\ \/ Stop("close", io["close"]) /\ Goto("close", "upcall") /\ UNCHANGED rd_block
     \/ /\ GoOn(io["close"]) /\ UNCHANGED <<session, ec>>
        /\ \/ PeerCloseSeen /\ StartIo("close", "td") /\ UNCHANGED rd_block
           \/ /\ ~PeerCloseSeen /\ rd_block = None
              /\ rd_block' = "close" /\ Goto("close", "drain")
           \/ /\ ~PeerCloseSeen /\ rd_block # None
              /\ Park("close", "r_susp") /\ UNCHANGED rd_block
  /\ UNCHANGED <<wr_block, closing, timer, sock, parser, writer, world, calls,
                 history>>

CloseGotReadBlock ==
  /\ Resumed("close") /\ pc["close"] = "r_post"
  /\ \/ Stop("close", "ok") /\ Goto("close", "upcall") /\ UNCHANGED asserts
     \/ /\ GoOn("ok") /\ UNCHANGED <<session, ec>> /\ Goto("close", "drain")
        /\ Assert("close frame already read", ~rd_close)
  /\ UNCHANGED <<locks, closing, timer, sock, parser, writer, world, calls,
                 told, expired, cut>>

\* Discard everything up to the peer's close frame
CloseDrain ==
  /\ cur = "close" /\ pc["close"] = "drain"
  /\ IF rd_buf = <<>>
     THEN /\ StartIo("close", IF rd_remain > 0 THEN "pay" ELSE "hdr")
          /\ UNCHANGED <<rd_buf, rd_remain, rd_fin, rd_cont, rd_close, ec,
                         asserts>>
     ELSE LET f == Head(rd_buf) IN
          /\ rd_buf' = IF f.kind = "bad" THEN rd_buf ELSE Tail(rd_buf)
          /\ rd_fin' = IF f.kind = "payload" THEN rd_fin ELSE f.fin
          /\ rd_remain' = IF f.kind = "data" THEN f.len ELSE 0
          /\ rd_cont' = IF f.kind = "data" THEN ~f.fin ELSE rd_cont
          /\ rd_close' = (rd_close \/ f.kind \in {"close", "badclose"})
          /\ Assert("close frame read twice",
                    f.kind \in {"close", "badclose"} => ~rd_close)
          /\ ec' = [ec EXCEPT !["close"] =
                      IF f.kind \in {"bad", "badclose"} THEN "proto" ELSE @]
          /\ IF f.kind \in {"bad", "close", "badclose"}
             THEN StartIo("close", "td") ELSE Goto("close", "drain")
  /\ UNCHANGED <<locks, session, wr_close, timer, sock, rd_done, cont, some_,
                 writer, world, calls, told, expired, cut>>

\* An async_read_some of operation o commits k >= 1 items, or none on error
Commit(o) ==
  IF io[o] = "err" THEN UNCHANGED <<rd_buf, net>>
  ELSE \E k \in 1 .. Len(net) :
         /\ rd_buf' = rd_buf \o SubSeq(net, 1, k)
         /\ net' = SubSeq(net, k + 1, Len(net))

CloseReceived ==
  /\ Resumed("close") /\ Reading("close") /\ Commit("close")
  /\ \/ Stop("close", io["close"]) /\ Goto("close", "upcall")
     \/ GoOn(io["close"]) /\ UNCHANGED <<session, ec>> /\ Goto("close", "drain")
  /\ UNCHANGED <<locks, closing, timer, sock, frame, cont,
                 some_, writer, peer, calls, history>>

\* The connection is torn down.  An error of the teardown wins over the one
\* that led here; the timer is canceled by impl_type::close.

\* Mutant of FinalStatus: an error of the teardown leaves the status as it was
BugStatusKept(e) == IF e \in {"ok", "closed"} THEN "closed" ELSE status

FinalStatus(e) == IF e \in {"ok", "closed"} THEN "closed" ELSE "failed"

TornDown(o) ==
  /\ Resumed(o) /\ TearingDown(o)
  /\ LET e == IF io[o] = "err" THEN "torn" ELSE ec[o] IN
     /\ ec' = [ec EXCEPT ![o] = e]
     /\ status' = FinalStatus(e)
  /\ sock' = (sock /\ io[o] = "err")
  /\ armed' = FALSE
  /\ Goto(o, "upcall")
  /\ Assert("teardown without the write block", wr_block = o)
  /\ UNCHANGED <<locks, ec_delivered, timed_out, closing, fired, idle_counter,
                 idle_pinging, parser, writer, world, calls, told, expired, cut>>

\* Mutant of ReadBlockAfterClose: no unlock when nobody waits
BugReadBlockKept ==
  IF rd_block = "close" /\ pc["rd"] = "r_susp" THEN "rd" ELSE rd_block

\* The read block once close_op has let go of it, if it held it
ReadBlockAfterClose ==
  CASE rd_block # "close" -> rd_block
    [] rd_block = "close" /\ pc["rd"] = "r_susp" -> "rd"
    [] OTHER -> None

CloseUpcall ==
  /\ cur = "close" /\ pc["close"] = "upcall"
  /\ LET wakes == rd_block = "close" /\ pc["rd"] = "r_susp"
         rd(f, v) == IF wakes THEN [f EXCEPT !["rd"] = v] ELSE f IN
     /\ rd_block' = ReadBlockAfterClose
     /\ \E n \in Ops \cup {None} :
          /\ NextWriter("close", n) /\ wr_block' = n
          /\ YieldFrom(rd(PcWoken(n), "r_post"), rd(IoWoken(n), "ok"),
                       "close", "idle", "none")
  /\ Assert("unlock by a stranger", wr_block = "close")
  /\ Report("close")
  /\ UNCHANGED <<session, closing, ec, timer, sock, parser, writer, world, calls,
                 expired>>

----------------------------------------------------------------------------
(* read_op (a message, or some_ of one) looping over read_some_op *)

\* Mutant of CloseParked: op_r_close is never invoked
BugCloseForgotten == FALSE

\* op_r_close holds a close_op that waits for the read block
CloseParked == pc["close"] = "r_susp"

AsyncRead(s) ==
  /\ cur = None /\ pc["rd"] = "idle" /\ calls["rd"] > 0
  /\ calls' = [calls EXCEPT !["rd"] = @ - 1]
  /\ some_' = s
  /\ ec' = [ec EXCEPT !["rd"] = "ok"]
  /\ Goto("rd", "next")
  /\ UNCHANGED <<locks, session, closing, timer, sock, rd_buf, frame, cont,
                 writer, world, history>>

\* async_read_some into a caller's buffers is a read_some_op with no read_op
AsyncReadSome ==
  /\ cur = None /\ pc["rd"] = "idle" /\ calls["rd"] > 0
  /\ calls' = [calls EXCEPT !["rd"] = @ - 1]
  /\ some_' = TRUE /\ cont' = FALSE
  /\ ec' = [ec EXCEPT !["rd"] = "ok"]
  /\ UpdateTimer(status)
  /\ Goto("rd", "acquire")
  /\ UNCHANGED <<locks, session, closing, sock, rd_buf, frame, writer, world,
                 history>>

\* read_op, then the first lines of read_some_op.  read_op first prepares room in
\* the caller's dynamic buffer: when that is full, check_stop_now is asked with
\* error::buffer_overflow, and fails the stream like any other error.
ReadNext ==
  /\ pc["rd"] = "next" /\ (cur = "rd" \/ Resumed("rd"))
  /\ \/ /\ \/ Stop("rd", "ok")
           \/ FullBuffers /\ Stop("rd", "err")
        /\ UNCHANGED <<timer, cont>>
        /\ YieldFrom(pc, io, "rd", "idle", "none")
        /\ told' = IF ec'["rd"] \in StopCauses THEN Append(told, ec'["rd"]) ELSE told
        /\ cut' = cut \ {"rd"}
     \/ /\ GoOn("ok") /\ UNCHANGED <<session, ec, told, cut>>
        /\ UpdateTimer(status)
        /\ cont' = FALSE
        /\ Goto("rd", "acquire")
  /\ UNCHANGED <<locks, closing, sock, rd_buf, frame, some_,
                 writer, world, calls, expired, asserts>>

ReadAcquire ==
  /\ cur = "rd" /\ pc["rd"] = "acquire"
  /\ \/ /\ rd_block = None /\ rd_block' = "rd"
        /\ IF status \in Dead
           THEN ec' = [ec EXCEPT !["rd"] = "aborted"] /\ Goto("rd", "upcall")
           ELSE UNCHANGED ec /\ Goto("rd", "loop")
     \/ rd_block # None /\ Park("rd", "r_susp") /\ UNCHANGED <<rd_block, ec>>
  /\ Assert("try_lock: same operation twice", rd_block # "rd")
  /\ UNCHANGED <<wr_block, session, closing, timer, sock, parser, writer, world,
                 calls, told, expired, cut>>

\* A close_op has had the read block: the read can only be aborted
ReadGotReadBlock ==
  /\ Resumed("rd") /\ pc["rd"] = "r_post" /\ Goto("rd", "upcall")
  /\ IF GoOn("ok")
     THEN /\ UNCHANGED session
          /\ ec' = [ec EXCEPT !["rd"] = "aborted"]
          /\ Assert("suspended read but no close frame",
                    wr_close /\ status # "open")
     ELSE /\ Stop("rd", "ok")
          /\ Assert("suspended read stopped by a timeout", ec'["rd"] = "aborted")
  /\ UNCHANGED <<locks, closing, timer, sock, parser, writer, world, calls,
                 told, expired, cut>>

\* Mutant of FinAfterControl: the control frame's own bit
BugFinKept(f) == f.fin

\* The fin bit kept once a control frame has been dispatched: not its own, or
\* the next look at the parser would take a message for complete
FinAfterControl(f) == FALSE

NeedsHeader == rd_remain = 0 /\ (~rd_fin \/ rd_done)

\* Label loop, when a frame header is to be parsed: wait for bytes, fail the
\* connection, dispatch a control frame, or start on a data frame
ReadLoop ==
  /\ cur = "rd" /\ pc["rd"] = "loop" /\ NeedsHeader
  /\ \/ /\ rd_buf = <<>> /\ StartIo("rd", "hdr")
        /\ UNCHANGED <<rd_buf, frame, ec>>
     \/ /\ rd_buf # <<>> /\ Head(rd_buf).kind = "bad"
        /\ rd_fin' = Head(rd_buf).fin
        /\ ec' = [ec EXCEPT !["rd"] = "proto"]
        /\ Goto("rd", "closing")
        /\ UNCHANGED <<rd_buf, rd_remain, rd_done, rd_cont>>
     \/ /\ rd_buf # <<>> /\ Head(rd_buf).kind \in Control
        /\ rd_fin' = FinAfterControl(Head(rd_buf))
        /\ Goto("rd", "ctl")
        /\ UNCHANGED <<rd_buf, rd_remain, rd_done, rd_cont, ec>>
     \/ /\ rd_buf # <<>> /\ Head(rd_buf).kind = "data"
        /\ LET f == Head(rd_buf) IN
           /\ rd_buf' = Tail(rd_buf) /\ rd_remain' = f.len
           /\ rd_fin' = f.fin /\ rd_cont' = ~f.fin
           /\ IF f.len = 0 /\ ~f.fin
              THEN Goto("rd", "loop") /\ UNCHANGED rd_done
              ELSE Goto("rd", "payload") /\ rd_done' = FALSE
        /\ UNCHANGED ec
  /\ Assert("read without the read block", rd_block = "rd")
  /\ UNCHANGED <<locks, session, closing, timer, sock, cont, some_, writer, world,
                 calls, told, expired, cut>>

ReadSkipsHeader ==
  /\ cur = "rd" /\ pc["rd"] = "loop" /\ ~NeedsHeader /\ Goto("rd", "payload")
  /\ UNCHANGED <<locks, session, closing, ec, timer, sock, parser, writer, world,
                 calls, history>>

\* Mutant of Relocked: no lock after the unlock
BugNotRelocked == None

\* The read block when no close_op has taken it from the read
Relocked == "rd"

\* Header bytes have arrived.  A close_op waiting for the read block gets it.
ReadHeaderBytes ==
  /\ Resumed("rd") /\ pc["rd"] = "hdr" /\ Commit("rd") /\ cont' = TRUE
  /\ \/ /\ Stop("rd", io["rd"]) /\ Goto("rd", "upcall")
        /\ UNCHANGED <<rd_block, idle_counter>>
     \/ /\ GoOn(io["rd"]) /\ UNCHANGED <<session, ec>> /\ idle_counter' = 0
        /\ IF CloseParked
           THEN /\ rd_block' = "close"
                /\ YieldFrom([pc EXCEPT !["close"] = "r_post"],
                             [io EXCEPT !["close"] = "ok"], "rd", "r_susp", "none")
           ELSE rd_block' = Relocked /\ Goto("rd", "loop")
  /\ Assert("read without the read block", rd_block = "rd")
  /\ UNCHANGED <<wr_block, closing, armed, fired, idle_pinging, sock, frame,
                 some_, writer, peer, calls, told, expired, cut>>

\* The control callback is never invoked from within the initiating function:
\* the operation first posts itself
CallsBack(k) == \/ k \in {"ping", "close", "badclose"} /\ CtrlCb
                \/ k = "pong" /\ CtrlCb /\ ~wr_close

ReadDefersCallback ==
  /\ cur = "rd" /\ pc["rd"] = "ctl" /\ CallsBack(Head(rd_buf).kind) /\ ~cont
  /\ Post("rd", "cb") /\ cont' = TRUE
  /\ UNCHANGED <<locks, session, closing, ec, timer, sock, rd_buf, frame, some_,
                 writer, world, calls, history>>

Handles(k) == /\ pc["rd"] = "ctl" /\ cur = "rd" /\ (CallsBack(k) => cont)
              /\ Head(rd_buf).kind = k /\ rd_buf' = Tail(rd_buf)

ReadCallback ==
  /\ Resumed("rd") /\ pc["rd"] = "cb" /\ Goto("rd", "ctl")
  /\ UNCHANGED <<locks, session, closing, ec, timer, sock, parser, writer, world,
                 calls, history>>

\* A ping: unless closing, offer the read block to close_op, then answer
\* under the write block
ReadPing ==
  /\ Handles("ping")
  /\ \/ status = "closing" /\ Goto("rd", "loop") /\ UNCHANGED locks
     \/ /\ status # "closing"
        /\ LET wakes == CloseParked
               on(f, v) == IF wakes THEN [f EXCEPT !["close"] = v] ELSE f IN
           /\ rd_block' = IF wakes THEN "close" ELSE None
           /\ IF wr_block = None
              THEN /\ wr_block' = "rd"
                   /\ YieldFrom(on(pc, "r_post"), on(io, "ok"), "rd", "pong_write",
                                IoFrom(sock))
              ELSE /\ UNCHANGED wr_block
                   /\ YieldFrom(on(pc, "r_post"), on(io, "ok"), "rd", "pong_susp",
                                "none")
  /\ UNCHANGED <<session, closing, ec, timer, sock, frame, cont,
                 some_, writer, world, calls, history>>

ReadPongPosted ==
  /\ Resumed("rd") /\ pc["rd"] = "pong_post" /\ cont' = TRUE
  /\ \/ Stop("rd", "ok") /\ Goto("rd", "upcall")
     \/ GoOn("ok") /\ UNCHANGED <<session, ec>> /\ StartIo("rd", "pong_write")
  /\ Assert("write block lost while posted", wr_block = "rd")
  /\ UNCHANGED <<locks, closing, timer, sock, rd_buf, frame,
                 some_, writer, world, calls, told, expired, cut>>

ReadPongSent ==
  /\ Resumed("rd") /\ pc["rd"] = "pong_write" /\ cont' = TRUE
  /\ \/ Stop("rd", io["rd"]) /\ Goto("rd", "upcall") /\ UNCHANGED wr_block
     \/ /\ GoOn(io["rd"]) /\ UNCHANGED <<session, ec>>
        /\ \E n \in Ops \cup {None} :
             /\ NextWriter("rd", n) /\ wr_block' = n
             /\ GotoFrom(PcWoken(n), IoWoken(n), "rd", "acquire")
  /\ Assert("unlock by a stranger", wr_block = "rd")
  /\ UNCHANGED <<rd_block, closing, timer, sock, rd_buf, frame,
                 some_, writer, world, calls, told, expired, cut>>

ReadPong ==
  /\ Handles("pong") /\ Goto("rd", "loop")
  /\ UNCHANGED <<locks, session, closing, ec, timer, sock, frame,
                 cont, some_, writer, world, calls, history>>

\* The peer's close frame; a malformed one fails the connection
ReadClose ==
  /\ \/ Handles("close") /\ ec' = [ec EXCEPT !["rd"] = "closed"]
     \/ Handles("badclose") /\ ec' = [ec EXCEPT !["rd"] = "proto"]
  /\ rd_close' = TRUE
  /\ Goto("rd", "closing")
  /\ asserts' = asserts
       \cup (IF rd_close THEN {"close frame read twice"} ELSE {})
       \cup (IF ec'["rd"] = "closed" /\ status = "closing" /\ ~wr_close
             THEN {"closing but no close frame"} ELSE {})
  /\ UNCHANGED <<locks, session, wr_close, timer, sock, frame,
                 cont, some_, writer, world, calls, told, expired, cut>>

\* The payload of a data frame: whatever is buffered, else one read.  When the
\* caller's buffer fills up before the decompressor has emitted its end of the
\* message, the message is not done.  Bad text fails the connection, before or
\* after rd_done is set.  Only behind the decompressor is check_stop_now asked
\* again, with the error of bad data.
ReadPayload ==
  /\ cur = "rd" /\ pc["rd"] = "payload"
  /\ \/ /\ rd_remain > 0 /\ rd_buf = <<>> /\ StartIo("rd", "pay")
        /\ UNCHANGED <<session, ec, rd_buf, rd_remain, rd_done>>
     \/ /\ rd_remain > 0 => rd_buf # <<>>
        /\ rd_buf' = IF rd_remain > 0 THEN Tail(rd_buf) ELSE rd_buf
        /\ rd_remain' = 0
        /\ \/ /\ Goto("rd", "upcall") /\ UNCHANGED <<session, ec>>
              /\ rd_done' \in {rd_fin} \cup (IF rd_remain > 0 THEN {FALSE} ELSE {})
           \/ /\ PeerErrors /\ UNCHANGED session /\ rd_done' \in {rd_done, rd_fin}
              /\ ec' = [ec EXCEPT !["rd"] = "proto"] /\ Goto("rd", "closing")
           \/ /\ Goto("rd", "upcall") /\ UNCHANGED rd_done
              /\ \/ Stop("rd", "ok")
                 \/ PeerErrors /\ Stop("rd", "err")
  /\ UNCHANGED <<locks, closing, timer, sock, rd_fin, rd_cont, cont, some_,
                 writer,
                 world, calls, history>>

ReadPayloadBytes ==
  /\ Resumed("rd") /\ pc["rd"] = "pay" /\ Commit("rd") /\ cont' = TRUE
  /\ \/ Stop("rd", io["rd"]) /\ Goto("rd", "upcall") /\ UNCHANGED idle_counter
     \/ /\ GoOn(io["rd"]) /\ UNCHANGED <<session, ec>>
        /\ idle_counter' = 0 /\ Goto("rd", "payload")
  /\ UNCHANGED <<locks, closing, armed, fired, idle_pinging, sock, frame, some_,
                 writer, peer, calls, history>>

\* Label close with the write block held: send a close frame if none was sent,
\* then tear down
ReadCloseLocked ==
  /\ status' = "closing" /\ wr_close' = TRUE
  /\ StartIo("rd", IF wr_close THEN "td" ELSE "cl_write")
  /\ UNCHANGED <<ec_delivered, timed_out, ec>>

ReadClosing ==
  /\ cur = "rd" /\ pc["rd"] = "closing"
  /\ \/ wr_block = None /\ wr_block' = "rd" /\ ReadCloseLocked
     \/ wr_block # None /\ Park("rd", "cl_susp")
        /\ UNCHANGED <<wr_block, session, ec, wr_close>>
  /\ Assert("try_lock: same operation twice", wr_block # "rd")
  /\ UNCHANGED <<rd_block, rd_close, timer, sock, parser, writer, world, calls,
                 told, expired, cut>>

ReadClosePosted ==
  /\ Resumed("rd") /\ pc["rd"] = "cl_post" /\ cont' = TRUE
  /\ \/ Stop("rd", "ok") /\ Goto("rd", "upcall") /\ UNCHANGED wr_close
     \/ GoOn("ok") /\ ReadCloseLocked
  /\ Assert("write block lost while posted", wr_block = "rd")
  /\ UNCHANGED <<locks, rd_close, timer, sock, rd_buf, frame,
                 some_, writer, world, calls, told, expired, cut>>

ReadCloseSent ==
  /\ Resumed("rd") /\ pc["rd"] = "cl_write" /\ cont' = TRUE
  /\ \/ Stop("rd", io["rd"]) /\ Goto("rd", "upcall")
     \/ GoOn(io["rd"]) /\ UNCHANGED <<session, ec>> /\ StartIo("rd", "td")
  /\ Assert("write block lost while sending", wr_block = "rd")
  /\ UNCHANGED <<locks, closing, timer, sock, rd_buf, frame,
                 some_, writer, world, calls, told, expired, cut>>

\* Label upcall: release what is held, wake who waits; read_op then loops
\* until the message is complete, through a post if nothing was yielded
ReadUpcall ==
  /\ cur = "rd" /\ pc["rd"] = "upcall"
  /\ LET wakes == CloseParked
         on(f, v) == IF wakes THEN [f EXCEPT !["close"] = v] ELSE f
         more == ec["rd"] = "ok" /\ ~some_ /\ ~rd_done
     IN
     /\ rd_block' = IF wakes THEN "close"
                    ELSE IF rd_block = "rd" THEN None ELSE rd_block
     /\ Assert("read block already taken", wakes => rd_block \in {None, "rd"})
     /\ \E n \in Ops \cup {None} :
          /\ IF wr_block = "rd" THEN NextWriter("rd", n) /\ wr_block' = n
                                ELSE n = None /\ UNCHANGED wr_block
          /\ LET pcs == on(PcWoken(n), "r_post") ios == on(IoWoken(n), "ok") IN
             \/ more /\ cont /\ GotoFrom(pcs, ios, "rd", "next")
             \/ more /\ ~cont /\ YieldFrom(pcs, ios, "rd", "next", "ok")
             \/ ~more /\ YieldFrom(pcs, ios, "rd", "idle", "none")
     /\ IF more THEN UNCHANGED <<told, cut>> ELSE Report("rd")
  /\ UNCHANGED <<session, closing, ec, timer, sock, parser, writer, world, calls,
                 expired>>

----------------------------------------------------------------------------
(* The environment: the peer, and the completion of I/O by the system below *)

PeerSends ==
  /\ \/ /\ peer = "owes" /\ peer' = "open" /\ UNCHANGED calls
        /\ net' = Append(net, Frame("payload", TRUE, 0))
     \/ /\ peer = "open" /\ calls["peer"] > 0
        /\ calls' = [calls EXCEPT !["peer"] = @ - 1]
        /\ \/ \E f \in BOOLEAN, n \in {0, 1} :
                /\ net' = Append(net, Frame("data", f, n))
                /\ peer' = IF n = 1 THEN "owes" ELSE "open"
           \/ \E k \in {"ping", "pong", "close"}
                       \cup (IF PeerErrors THEN {"bad", "badclose"} ELSE {}) :
                /\ net' = Append(net, Frame(k, TRUE, 0))
                /\ peer' = IF k \in {"ping", "pong"} THEN "open" ELSE "done"
  /\ UNCHANGED <<pc, io, cur, locks, session, closing, ec, timer, sock, parser,
                 writer, history>>

PeerCloses ==
  /\ peer # "gone" /\ peer' = "gone"
  /\ UNCHANGED <<pc, io, cur, locks, session, closing, ec, timer, sock, parser,
                 writer, net, calls, history>>

\* A read completes when there is something to read; so does a teardown, which
\* waits until the socket is readable and closes it after one read
Due(o) ==
  {r \in {"ok", "err"} :
     \/ r = "ok" /\ (Writing(o) \/ net # <<>> \/ (TearingDown(o) /\ peer = "gone"))
     \/ r = "err" /\ peer = "gone" /\ net = <<>> /\ ~TearingDown(o)}
IoCompletes(o, r) ==
  /\ io[o] = "pending" /\ r \in Due(o) \cup (IF NetErrors THEN {"err"} ELSE {})
  /\ io' = [io EXCEPT ![o] = r]
  /\ UNCHANGED <<pc, cur, locks, session, closing, ec, timer, sock, parser,
                 writer,
                 world, calls, history>>

----------------------------------------------------------------------------
SimpleStep(o) ==
  SimpleBegin(o) \/ SimplePosted(o) \/ PingSent(o) \/ SimpleUpcall(o)
WriteStep == SimpleStep("wr") \/ FrameSent
CloseStep == \/ CloseBegin \/ ClosePosted \/ CloseSent \/ CloseGotReadBlock
             \/ CloseDrain \/ CloseReceived \/ TornDown("close") \/ CloseUpcall
ReadStep == \/ ReadNext \/ ReadAcquire \/ ReadGotReadBlock \/ ReadLoop
            \/ ReadSkipsHeader \/ ReadHeaderBytes
            \/ ReadDefersCallback \/ ReadCallback
            \/ ReadPing \/ ReadPongPosted \/ ReadPongSent \/ ReadPong \/ ReadClose
            \/ ReadPayload \/ ReadPayloadBytes \/ ReadClosing \/ ReadClosePosted
            \/ ReadCloseSent \/ TornDown("rd") \/ ReadUpcall
Application == \/ AsyncReadSome \/ \E s \in BOOLEAN : AsyncRead(s)
               \/ \E f \in BOOLEAN, n \in 0 .. MaxFrames :
                    (n = 0 => f) /\ AsyncWrite(f, n)
               \/ AsyncPing \/ AsyncClose
Handlers == \/ ReadStep \/ WriteStep \/ CloseStep
            \/ SimpleStep("ping") \/ SimpleStep("idle_ping") \/ timeout_handler
Next == \/ Handlers \/ Application \/ TimerExpires \/ PeerSends \/ PeerCloses
        \/ \E o \in Ops, r \in {"ok", "err"} : IoCompletes(o, r)

Spec == Init /\ [][Next]_vars

(* The executor runs every ready handler, a timer that is set expires, and an
   I/O that is due completes: data in the socket is delivered, the end of the
   stream is seen, a write is taken by the network.  Nothing is assumed of the
   peer or the application, nor that an I/O fails.                            *)
Fairness ==
  /\ WF_vars(ReadStep) /\ WF_vars(WriteStep) /\ WF_vars(CloseStep)
  /\ WF_vars(SimpleStep("ping")) /\ WF_vars(SimpleStep("idle_ping"))
  /\ WF_vars(timeout_handler) /\ WF_vars(TimerExpires)
  /\ \A o \in Ops : WF_vars(\E r \in Due(o) : IoCompletes(o, r))
FairSpec == Spec /\ Fairness

----------------------------------------------------------------------------
(* Correctness *)

\* None of the recorded BOOST_ASSERTs fails, of the operations on their blocks, the
\* closing flags and the error of a suspended read, and of soft_mutex.  Not recorded are
\* those on data (buffers, lengths, rd_done at read.hpp:498), on idle_pinging
\* (ping.hpp:229) and of saved_handler::emplace.
AssertionsHold == asserts = {}

\* The sections of an operation that run inside the write block, inside the read
\* block, and those where it may still be inside it
InWrite(o) ==
  CASE o = "rd" -> pc[o] \in {"pong_post", "pong_write", "cl_post", "cl_write",
                              "td"}
    [] o = "close" -> pc[o] \notin {"idle", "begin", "susp"}
    [] OTHER -> pc[o] \in {"post", "write", "upcall"}
InRead(o) ==
  CASE o = "rd" -> pc[o] \in {"r_post", "loop", "hdr", "ctl", "cb", "payload",
                              "pay", "closing", "cl_susp", "cl_post", "cl_write", "td"}
    [] o = "close" -> pc[o] \in {"r_post", "drain", "hdr", "pay"}
    [] OTHER -> FALSE

\* Each section runs inside its block: the assertions is_locked(this), wherever
\* an operation has got there from and whatever has run while it yielded.
BlocksHeld == \A o \in Ops : /\ InWrite(o) => wr_block = o
                             /\ InRead(o) => rd_block = o

\* Each block is free or belongs to an operation that will release it: no
\* operation has completed, or is parked on the block, while it is inside it.
BlocksReleased ==
  /\ wr_block # None => InWrite(wr_block) \/ pc[wr_block] = "upcall"
  /\ rd_block # None => InRead(rd_block) \/ pc[rd_block] \in {"td", "upcall"}

\* No lost wakeup: while an operation is parked on a block, another operation is
\* inside it, whose upcall will run the saved handler.
NobodyStranded ==
  /\ \A o \in Ops : WaitsWr(o) => wr_block \in Ops \ {o}
  /\ pc["rd"] = "r_susp" => rd_block = "close"
  /\ pc["close"] = "r_susp" => rd_block = "rd"

\* The next layer never sees two outstanding writes (a teardown may shut down
\* the socket): read.hpp, write.hpp, ping.hpp and close.hpp reach it only
\* through the write block.
OneWriter == \A a, b \in Ops : /\ Writing(a) \/ TearingDown(a)
                               /\ Writing(b) \/ TearingDown(b)
                              => a = b

\* ... nor two outstanding reads (a teardown reads): the read block keeps read
\* and close apart, and rd_close the read and the teardown of close_op.
OneReader == \A a, b \in Ops : /\ Reading(a) \/ TearingDown(a)
                               /\ Reading(b) \/ TearingDown(b)
                              => a = b

\* read.hpp:127 "Should never get here": a read that lent the read block to
\* close_op gets it back only after the stream is closed, failed or timed out.
LenderFindsItDead == pc["rd"] = "r_post" => ~GoOn("ok")

\* ... at least until an error has been delivered: on a stream that has failed and
\* that a read behind a callback has revived, close_op may stop for another error.
SuspendedReadStops == ~ec_delivered => LenderFindsItDead

\* After the close frame nothing but the end of the closing handshake is sent:
\* no data frame, ping or pong is started or in flight once wr_close is set.
CloseFrameIsLast ==
  wr_close => \A o \in Ops : pc[o] \in {"write", "pong_write"} => o = "close"

\* A read of a whole message ends at the end of a message: whatever control
\* frames came between its fragments, rd_done is only reported once the final
\* fragment was parsed and its payload consumed.
WholeMessage ==
  pc["rd"] = "upcall" /\ ec["rd"] = "ok" /\ rd_done => ~rd_cont /\ rd_remain = 0

\* No operation, an idle ping included, has been ended by an error yet
Unharmed == told = <<>> /\ ~ec_delivered

\* ... at least until an operation has been told of an error: what a read does that
\* is started after that, on a stream a callback has revived, is not promised.
EndOfMessage == Unharmed => WholeMessage

\* One cause, one report: of all the operations that check_stop_now ends, a single
\* one is told the cause and the others get operation_aborted; and of the teardowns,
\* which do not ask it, a single one reports how it ended.  So there are two reports
\* only when an operation is told a cause while another tears the connection down.
OneReport ==
  \A i, j \in 1 .. Len(told) :
    i # j => /\ ~({told[i], told[j]} \subseteq StopCauses)
             /\ ~({told[i], told[j]} \subseteq TeardownCauses)

\* A timeout is not lost: when the idle limit has cut off operations of the
\* application and all of them have completed, one was told error::timeout.
TimeoutReported ==
  expired /\ cut = {} => \E i \in 1 .. Len(told) : told[i] = "timeout"

\* A closed or failed stream stays so until the next handshake, because every
\* operation asks check_stop_now whenever it resumes (stream_impl.hpp:327-331).
DeadIsFinal == [][(status \in Dead) => (status' \in Dead)]_vars

\* A close that was started completes, whatever the peer sends and the application
\* reads: handshake_timeout is the limit of close operations, and "if any of the
\* applicable operations takes longer than this amount of time, the operation will be
\* canceled and a timeout error delivered" (stream_base.hpp:88-97).
CloseTerminates == pc["close"] # "idle" ~> pc["close"] = "idle"

\* Somebody reads from a silent peer, or tears down, on a stream that has failed
\* for an error that is not a time limit: timeout_handler does nothing then, and it
\* waits for ever.
Forsaken == /\ status = "failed"
            /\ \E i \in 1 .. Len(told) : told[i] \in {"err", "proto"}
            /\ \E o \in Ops : io[o] = "pending" /\ (Reading(o) \/ TearingDown(o))

\* A read that fails the connection and the close are parked, each on the block
\* the other is inside.
Embraced == pc["rd"] = "cl_susp" /\ pc["close"] = "r_susp"

\* Every read, write and close completes, as data arrives or a time limit ends it,
\* whoever it has to wait behind; failures, full buffers and a hostile peer
\* included, unless the stream ends for ever in one of these two ways.  (Without a
\* control callback: a read revives a failed stream behind its post.)
EndsUnlessForsaken ==
  \A o \in {"rd", "wr", "close"} :
    []<>(pc[o] = "idle") \/ <>[](Forsaken \/ Embraced)

----------------------------------------------------------------------------
(* Each block is a hand-off lock: nobody takes it over the head of a parked
   operation, and it is passed on, not dropped, when somebody is parked.      *)
WriteBlock == INSTANCE HandOff WITH Procs <- Ops, Nobody <- None,
  owner <- wr_block, parked <- {o \in Ops : WaitsWr(o)}
ReadBlock == INSTANCE HandOff WITH Procs <- {"rd", "close"}, Nobody <- None,
  owner <- rd_block, parked <- {o \in {"rd", "close"} : pc[o] = "r_susp"}

ImplementsWriteBlock == WriteBlock!HandOffSpec
ImplementsReadBlock  == ReadBlock!HandOffSpec
=============================================================================
