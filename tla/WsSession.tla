----------------------------- MODULE WsSession ------------------------------
(* The sessions of one websocket stream: it is opened by a handshake or an   *)
(* accept, read from, and opened again on a new connection after an error.   *)
(* Reads stand for all operations of the open stream; WsStream has the rest. *)
EXTENDS Integers, Sequences

CONSTANTS
  Roles,             \* what the stream is used as: "client", "server"
  Sessions,          \* how many connections it is used with
  Frames,            \* frames the peer sends in a session
  HeadSizes,         \* the sizes of the peer's HTTP message, in pieces
  Room,              \* the capacity of rd_buf, in pieces
  HandshakeTimeout, IdleTimeout, KeepAlive,
  NetErrors          \* an I/O may fail at any time

ConstantsAssumption ==
  /\ Roles \subseteq {"client", "server"} /\ {Sessions, Frames} \subseteq Nat
  /\ HeadSizes \subseteq Nat \ {0} /\ Room \in Nat \ {0}
  /\ {HandshakeTimeout, IdleTimeout, KeepAlive, NetErrors} \subseteq BOOLEAN
ASSUME ConstantsAssumption

VARIABLES
  role, session,
  status, timed_out, ec_delivered, idle_counter, \* of impl_type
  expiry,      \* of its timer: "never", "set" or "past"
  waits,       \* waits on it
  fired,       \* handlers of waits that have expired, not run yet
  rd_buf, fb,  \* what has been read and not consumed; data::fb
  op,          \* handshake_op, accept_op or response_op: where it waits
  rd,          \* the read: "idle", or the state of its I/O
  io,          \* the I/O of op: "none", "pending", or how it ended
  sock,        \* the connection is open
  peer,        \* [agrees, head, sent, closed]: what the peer does in this session
  wire,        \* what it has sent and nobody has read
  told,        \* history: what the application was told in this session
  got,         \* history: the frames that were read in this session
  inherited,   \* history: ec_delivered when the session began
  failed       \* history: the assertions that did not hold

flags == <<status, timed_out, ec_delivered, idle_counter>>
timer == <<expiry, waits, fired>>
ops   == <<op, io, rd>>
net   == <<sock, peer, wire>>
hist  == <<told, got, inherited, failed>>
vars == <<role, session, flags, timer, rd_buf, fb, ops, net, hist>>

Least(a, b) == IF a < b THEN a ELSE b
Head_(n, i) == [session |-> n, kind |-> "head", i |-> i]
Frame(n, i) == [session |-> n, kind |-> "frame", i |-> i]
HeadOf(n, h) == [i \in 1 .. h |-> Head_(n, i)]

NoPeer == [agrees |-> TRUE, head |-> 1, sent |-> 0, closed |-> FALSE]

Init ==
  /\ role \in Roles /\ session = 0
  /\ status = "closed" /\ timed_out = FALSE /\ ec_delivered = FALSE /\ idle_counter = 0
  /\ expiry = "never" /\ waits = 0 /\ fired = 0
  /\ rd_buf = <<>> /\ fb = <<>>
  /\ op = "idle" /\ io = "none" /\ rd = "idle"
  /\ sock = FALSE /\ peer = NoPeer /\ wire = <<>>
  /\ told = <<>> /\ got = <<>> /\ inherited = FALSE /\ failed = {}

-----------------------------------------------------------------------------
(* impl_type                                                                 *)

\* Mutant of Stop: only the error is looked at
BugStopOnError(ec) == [stop |-> ec # "ok", ec |-> ec, first |-> ec # "ok"]

\* Mutant of Stop: a timeout is not delivered
BugStop(ec) ==
  IF status \in {"closed", "failed"} THEN [stop |-> TRUE, ec |-> "aborted", first |-> FALSE]
  ELSE [stop |-> ec # "ok", ec |-> IF ec_delivered /\ ec # "ok" THEN "aborted" ELSE ec,
        first |-> ec # "ok" /\ ~ec_delivered]

\* check_stop_now(ec): does the operation stop, with what, and as the first one?
Stop(ec) ==
  IF timed_out THEN [stop |-> TRUE, ec |-> "timeout", first |-> FALSE]
  ELSE IF status \in {"closed", "failed"} THEN [stop |-> TRUE, ec |-> "aborted", first |-> FALSE]
  ELSE IF ec = "ok" THEN [stop |-> FALSE, ec |-> ec, first |-> FALSE]
  ELSE [stop |-> TRUE, ec |-> IF ec_delivered THEN "aborted" ELSE ec, first |-> ~ec_delivered]

\* What check_stop_now leaves behind, when it is called with ec.
Checked(ec) ==
  /\ timed_out' = FALSE
  /\ ec_delivered' = (ec_delivered \/ Stop(ec).first)
  /\ status' = IF Stop(ec).first THEN "failed" ELSE status

Tell(who, ec) == told' = Append(told, [op |-> who, ec |-> ec])

\* Mutant of TimerAfterReset: the timer of the last session stays as it is
BugTimerAfterReset == expiry

\* timer.expires_at(never) of reset()
TimerAfterReset == "never"

\* update_timer for the status handshake, when the expiry is e and n handlers wait
HandshakeTimer(e, n) ==
  /\ expiry' = IF HandshakeTimeout /\ e = "never" THEN "set" ELSE e
  /\ waits' = IF HandshakeTimeout /\ e = "never" THEN n + 1 ELSE n
  /\ failed' = failed \cup (IF idle_counter = 0 THEN {} ELSE {"idle_counter"})

\* time_out
TimesOut ==
  /\ timed_out' = TRUE /\ status' = "closed" /\ sock' = FALSE
  /\ io' = IF io = "pending" THEN "err" ELSE io
  /\ rd' = IF rd = "pending" THEN "err" ELSE rd

\* open
Opens ==
  /\ expiry' = "never" /\ waits' = 0
  /\ timed_out' = FALSE /\ status' = "open"

-----------------------------------------------------------------------------
(* http::async_read of the peer's message into b                             *)

Complete(b) == Len(b) >= peer.head /\ b[1].kind = "head"
Behind(b) == SubSeq(b, peer.head + 1, Len(b))
ReadIo(b, room) ==
  IF Complete(b) THEN "ok" ELSE IF Len(b) >= room THEN "overflow" ELSE "pending"
NoLimit == peer.head + Frames

\* The parser takes the message from the buffer when it is there.
HttpReads(b, room) ==
  io' = IF ~sock /\ ReadIo(b, room) = "pending" THEN "err" ELSE ReadIo(b, room)
Unparsed(b) == IF Complete(b) THEN Behind(b) ELSE b

-----------------------------------------------------------------------------
(* The application opens the stream                                          *)

SessionOver == told # <<>> /\ told[Len(told)].ec # "ok"

\* rd_buf after reset(), with what async_accept was given
BufferAfterReset(b) == b

\* A new connection, on which the peer will agree or not
Connects(p) ==
  /\ op = "idle" /\ rd = "idle" /\ session < Sessions
  /\ session = 0 \/ SessionOver
  /\ session' = session + 1 /\ sock' = TRUE /\ peer' = p
  /\ inherited' = ec_delivered /\ got' = <<>> /\ fb' = <<>>
  /\ status' = "handshake"
  /\ HandshakeTimer(TimerAfterReset, IF TimerAfterReset = "never" THEN 0 ELSE waits)
  /\ UNCHANGED <<role, timed_out, ec_delivered, idle_counter, fired, rd>>

Peers == [agrees : BOOLEAN, head : HeadSizes, sent : {0}, closed : {FALSE}]

\* async_handshake: reset, then the request is written.
AsyncHandshake ==
  /\ role = "client"
  /\ \E p \in Peers : Connects(p)
  /\ op' = "write" /\ io' = "pending"
  /\ rd_buf' = BufferAfterReset(<<>>) /\ wire' = <<>> /\ told' = <<>>

\* async_accept, with the first pieces of the request if the application has read
\* them before.  If they do not fit, the handler is called at once.
AsyncAccept ==
  /\ role = "server"
  /\ \E p \in Peers : \E pre \in 0 .. p.head :
       /\ Connects(p)
       /\ LET b == BufferAfterReset(SubSeq(HeadOf(session + 1, p.head), 1, pre))
              whole == pre = p.head
          IN  IF pre > Room
              THEN /\ op' = "idle" /\ io' = "none" /\ rd_buf' = BufferAfterReset(<<>>)
                   /\ told' = <<[op |-> "open", ec |-> "overflow"]>>
              ELSE /\ op' = "read" /\ told' = <<>>
                   /\ rd_buf' = IF whole THEN BufferAfterReset(<<>>) ELSE b
                   /\ io' = IF whole THEN "ok" ELSE IF Len(b) >= Room THEN "overflow" ELSE "pending"
       /\ wire' = SubSeq(HeadOf(session + 1, p.head), pre + 1, p.head)

-----------------------------------------------------------------------------
(* handshake_op, accept_op and response_op resume                            *)

Upcall(ec) == op' = "idle" /\ io' = "none" /\ Tell("open", ec)

Ready == io \notin {"none", "pending"}

\* It stops, as check_stop_now says.
OpStops(ec) ==
  /\ Stop(ec).stop /\ Checked(ec)
  /\ Upcall(Stop(ec).ec)
  /\ UNCHANGED <<role, session, idle_counter, timer, rd, net, got, inherited, failed>>

\* The request has been written: read the response.
RequestWritten ==
  /\ role = "client" /\ op = "write" /\ Ready
  /\ \/ OpStops(io) /\ UNCHANGED <<rd_buf, fb>>
     \/ /\ ~Stop(io).stop
        /\ op' = "read" /\ HttpReads(rd_buf, Room) /\ rd_buf' = Unparsed(rd_buf)
        /\ UNCHANGED <<role, session, flags, timer, fb, rd, net, hist>>

\* The response does not fit into rd_buf: go on in a buffer of its own.
ResponseOverflows ==
  /\ role = "client" /\ op = "read" /\ io = "overflow"
  /\ op' = "reread" /\ HttpReads(rd_buf, NoLimit)
  /\ fb' = Unparsed(rd_buf) /\ rd_buf' = <<>>
  /\ UNCHANGED <<role, session, flags, timer, rd, net, hist>>

\* on_response, for a response that has been read
OnResponse ==
  /\ idle_counter' = 0
  /\ IF peer.agrees THEN Opens /\ Upcall("ok")
     ELSE UNCHANGED <<status, timed_out, expiry, waits>> /\ Upcall("declined")
  /\ UNCHANGED <<role, session, ec_delivered, fired, rd, net, got, inherited, failed>>

\* Mutant of Leftovers: they are dropped with fb
BugLeftovers == <<>>

\* What was read behind the response belongs to the websocket.
Leftovers == fb

ResponseRead ==
  /\ role = "client" /\ Ready
  /\ \/ /\ op = "read" /\ io # "overflow"
        /\ OpStops(io) \/ (~Stop(io).stop /\ OnResponse)
        /\ UNCHANGED <<rd_buf, fb>>
     \/ /\ op = "reread"
        /\ LET fits == io = "ok" /\ Len(fb) <= Room
               ec == IF io = "ok" /\ ~fits THEN "overflow" ELSE io
           IN  /\ rd_buf' = IF fits THEN Leftovers ELSE rd_buf
               /\ OpStops(ec) \/ (~Stop(ec).stop /\ OnResponse)
        /\ fb' = <<>>

\* The request has been read: response_op writes the response.
RequestRead ==
  /\ role = "server" /\ op = "read" /\ Ready
  /\ \/ OpStops(io)
     \/ /\ ~Stop(io).stop
        /\ status' = "handshake" /\ HandshakeTimer(expiry, waits)
        /\ op' = "write" /\ io' = (IF sock THEN "pending" ELSE "err")
        /\ UNCHANGED <<role, session, timed_out, ec_delivered, idle_counter, fired, rd, net,
                       told, got, inherited>>
  /\ UNCHANGED <<rd_buf, fb>>

ResponseWritten ==
  /\ role = "server" /\ op = "write" /\ Ready
  /\ \/ OpStops(io)
     \/ /\ ~Stop(io).stop
        /\ IF peer.agrees THEN Opens /\ Upcall("ok")
           ELSE UNCHANGED <<status, timed_out, expiry, waits>> /\ Upcall("declined")
        /\ UNCHANGED <<role, session, ec_delivered, idle_counter, fired, rd, net, got,
                       inherited, failed>>
  /\ UNCHANGED <<rd_buf, fb>>

-----------------------------------------------------------------------------
(* async_read_some, for one frame                                            *)

Opened == told # <<>> /\ told[1] = [op |-> "open", ec |-> "ok"]

AsyncRead ==
  /\ Opened /\ ~SessionOver /\ rd = "idle"
  /\ rd' = IF status \in {"closed", "failed"} THEN "closed"
           ELSE IF rd_buf # <<>> THEN "ok" ELSE IF sock THEN "pending" ELSE "err"
  /\ CASE status = "open" /\ IdleTimeout ->
            expiry' = "set" /\ waits' = 1 /\ idle_counter' = 0
       [] status = "open" /\ ~IdleTimeout ->
            expiry' = "never" /\ waits' = 0 /\ UNCHANGED idle_counter
       [] OTHER -> expiry' = "never" /\ waits' = 0 /\ UNCHANGED idle_counter
  /\ UNCHANGED <<role, session, status, timed_out, ec_delivered, fired, rd_buf, fb, op, io, net,
                 hist>>

ReadResumes ==
  /\ rd \in {"ok", "err", "closed"}
  /\ rd' = "idle"
  /\ \/ /\ rd = "closed" /\ Tell("read", "aborted")
        /\ UNCHANGED <<flags, rd_buf, got>>
     \/ /\ rd # "closed" /\ Stop(rd).stop
        /\ Checked(rd) /\ Tell("read", Stop(rd).ec)
        /\ UNCHANGED <<idle_counter, rd_buf, got>>
     \/ /\ rd # "closed" /\ ~Stop(rd).stop
        /\ idle_counter' = 0
        /\ got' = Append(got, Head(rd_buf)) /\ rd_buf' = Tail(rd_buf)
        /\ Tell("read", "ok")
        /\ UNCHANGED <<status, timed_out, ec_delivered>>
  /\ UNCHANGED <<role, session, timer, fb, op, io, net, inherited, failed>>

-----------------------------------------------------------------------------
(* The timer                                                                 *)

TimerExpires ==
  /\ expiry = "set" /\ expiry' = "past"
  /\ fired' = fired + waits /\ waits' = 0
  /\ UNCHANGED <<role, session, flags, rd_buf, fb, ops, net, hist>>

\* timeout_handler of a wait that has expired.  A ping is taken to be sent at once.
timeout_handler ==
  /\ fired > 0
  /\ \/ /\ \/ status = "handshake"
           \/ status = "open" /\ IdleTimeout /\ ~(KeepAlive /\ idle_counter < 1)
        /\ TimesOut
        /\ fired' = fired - 1
        /\ UNCHANGED <<idle_counter, expiry, waits>>
     \/ /\ status = "open" /\ IdleTimeout /\ KeepAlive /\ idle_counter < 1
        /\ idle_counter' = idle_counter + 1
        /\ expiry' = "set" /\ waits' = 1 /\ fired' = fired - 1
        /\ UNCHANGED <<timed_out, status, sock, io, rd>>
     \/ /\ status \in {"closed", "failed"} \/ (status = "open" /\ ~IdleTimeout)
        /\ fired' = fired - 1
        /\ UNCHANGED <<timed_out, status, idle_counter, expiry, waits, sock, io, rd>>
  /\ UNCHANGED <<role, session, ec_delivered, rd_buf, fb, op, peer, wire, hist>>

-----------------------------------------------------------------------------
(* The connection and the peer                                               *)

Writes ==
  /\ op = "write" /\ io = "pending"
  /\ io' = "ok"
  /\ wire' = IF role = "client" THEN HeadOf(session, peer.head) ELSE wire
  /\ UNCHANGED <<role, session, flags, timer, rd_buf, fb, op, rd, sock, peer, hist>>

\* A read takes what has arrived, in pieces.
OpReads ==
  /\ op \in {"read", "reread"} /\ io = "pending"
  /\ LET b == IF op = "read" THEN rd_buf ELSE fb
         room == IF op = "read" THEN Room ELSE NoLimit
     IN  \E k \in 1 .. Least(Len(wire), room - Len(b)) :
           LET all == b \o SubSeq(wire, 1, k) IN
           /\ wire' = SubSeq(wire, k + 1, Len(wire))
           /\ HttpReads(all, room)
           /\ IF op = "read" THEN rd_buf' = Unparsed(all) /\ UNCHANGED fb
              ELSE fb' = Unparsed(all) /\ UNCHANGED rd_buf
  /\ UNCHANGED <<role, session, flags, timer, op, rd, sock, peer, hist>>

Reads ==
  /\ rd = "pending" /\ rd' = "ok"
  /\ \E k \in 1 .. Least(Len(wire), Room) :
       rd_buf' = SubSeq(wire, 1, k) /\ wire' = SubSeq(wire, k + 1, Len(wire))
  /\ UNCHANGED <<role, session, flags, timer, fb, op, io, sock, peer, hist>>

Ended == NetErrors \/ (peer.closed /\ wire = <<>>)
IoFails ==
  /\ Ended
  /\ \/ io = "pending" /\ io' = "err" /\ UNCHANGED rd
     \/ rd = "pending" /\ rd' = "err" /\ UNCHANGED io
  /\ UNCHANGED <<role, session, flags, timer, rd_buf, fb, op, net, hist>>

\* The peer sends a frame behind its HTTP message: a client may not wait for the
\* response.
PeerSends ==
  /\ sock /\ peer.agrees /\ ~peer.closed /\ peer.sent < Frames
  /\ role = "client" => (op \notin {"write"} \/ io = "ok")
  /\ peer' = [peer EXCEPT !.sent = @ + 1]
  /\ wire' = Append(wire, Frame(session, peer.sent + 1))
  /\ UNCHANGED <<role, session, flags, timer, rd_buf, fb, ops, sock, hist>>

PeerCloses ==
  /\ sock /\ ~peer.closed /\ peer' = [peer EXCEPT !.closed = TRUE]
  /\ role = "client" => (op \notin {"write"} \/ io = "ok")
  /\ UNCHANGED <<role, session, flags, timer, rd_buf, fb, ops, sock, wire, hist>>

-----------------------------------------------------------------------------
OpResumes == RequestWritten \/ ResponseOverflows \/ ResponseRead \/ RequestRead \/ ResponseWritten
Next ==
  \/ AsyncHandshake \/ AsyncAccept \/ OpResumes \/ AsyncRead \/ ReadResumes
  \/ TimerExpires \/ timeout_handler
  \/ Writes \/ OpReads \/ Reads \/ IoFails \/ PeerSends \/ PeerCloses
Spec == Init /\ [][Next]_vars

\* Handlers run, timers expire; nothing is assumed of the connection.
Fairness == WF_vars(OpResumes) /\ WF_vars(TimerExpires) /\ WF_vars(timeout_handler)
FairSpec == Spec /\ Fairness

-----------------------------------------------------------------------------
(* Correctness                                                               *)

\* The frames of a session are read in order, and nothing else is: neither what
\* an earlier session has left behind (reset), nor less than what came behind the
\* response (the copy back from fb).
FramesInOrder ==
  (status = "open" /\ sock)
    => got \o rd_buf \o wire = [i \in 1 .. peer.sent |-> Frame(session, i)]

\* A stream is reported open only if the peer has agreed and the time limit of the
\* handshake has not closed the connection, also while both are on their way.
OpenedForReal ==
  [][(told' # told /\ Opened') => (peer.agrees /\ (told = <<>> => sock /\ status' = "open"))]_vars

\* A handshake or accept ends within its time limit, in every session.
HandshakeTerminates == op # "idle" ~> op = "idle"

\* Somebody is told why a session ended.  An operation is told operation_aborted
\* only when a timeout had closed the stream before it started, or when another
\* error was delivered before.
CauseTold ==
  (SessionOver /\ told[Len(told)].ec = "aborted") => (timed_out \/ inherited)

\* The same for every session of the stream.
CauseToldAgain == (SessionOver /\ told[Len(told)].ec = "aborted") => timed_out

\* The assertions of reset() and of update_timer hold.
AssertionsHold == failed = {}
=============================================================================
