--------------------------- MODULE WsSessionProofs ---------------------------
(* The sessions of a websocket stream, for any number of connections, frames
   and pieces, any buffer and any time limits.

   Why a session ended: while it runs, the stream is dead only after a timeout
   nobody has been told of, so that an operation is aborted only if the error
   flag was set before the session began.

   The order of the frames: every step takes pieces from the front of what the
   peer has sent, and what has been taken is the HTTP message or in a buffer. *)
EXTENDS WsSession, SequenceTheorems, TLAPS

\* The session is being opened, or is open
Running == op # "idle" \/ (Opened /\ ~SessionOver)

Pieces == [session : Nat, kind : {"head", "frame"}, i : Nat]
Results == {"ok", "err", "overflow", "timeout", "aborted", "declined"}
Reports == [op : {"open", "read"}, ec : Results]

FlagsOK ==
  /\ status \in {"handshake", "open", "closed", "failed"}
  /\ timed_out \in BOOLEAN /\ ec_delivered \in BOOLEAN /\ inherited \in BOOLEAN
TimerOK ==
  /\ idle_counter \in Nat /\ waits \in Nat /\ fired \in Nat
  /\ expiry \in {"never", "set", "past"} /\ failed \subseteq {"idle_counter"}
OpsOK ==
  /\ role \in {"client", "server"} /\ session \in Nat
  /\ op \in {"idle", "write", "read", "reread"}
  /\ io \in {"none", "pending", "ok", "err", "overflow"}
  /\ rd \in {"idle", "pending", "ok", "err", "closed"}
  /\ sock \in BOOLEAN
PeerOK == peer \in [agrees : BOOLEAN, head : Nat \ {0}, sent : Nat, closed : BOOLEAN]
ToldOK == told \in Seq(Reports)
BuffersOK ==
  /\ rd_buf \in Seq(Pieces) /\ fb \in Seq(Pieces) /\ wire \in Seq(Pieces) /\ got \in Seq(Pieces)
TypeOK == FlagsOK /\ TimerOK /\ OpsOK /\ PeerOK /\ ToldOK /\ BuffersOK

-----------------------------------------------------------------------------
(* check_stop_now *)

LEMMA Stopped ==
  ASSUME NEW e, Stop(e).stop
  PROVE  \/ timed_out /\ Stop(e).ec = "timeout" /\ ~Stop(e).first
         \/ /\ ~timed_out /\ status \in {"closed", "failed"}
            /\ Stop(e).ec = "aborted" /\ ~Stop(e).first
         \/ /\ ~timed_out /\ status \notin {"closed", "failed"} /\ e # "ok"
            /\ Stop(e).ec = (IF ec_delivered THEN "aborted" ELSE e)
            /\ Stop(e).first <=> ~ec_delivered
<1>1. CASE timed_out
  BY <1>1 DEF Stop
<1>2. CASE ~timed_out /\ status \in {"closed", "failed"}
  BY <1>2 DEF Stop
<1>3. CASE ~timed_out /\ status \notin {"closed", "failed"}
  <2>1. e # "ok"
    BY <1>3 DEF Stop
  <2> QED
    BY <1>3, <2>1 DEF Stop
<1> QED
  BY <1>1, <1>2, <1>3

LEMMA NotStopped ==
  ASSUME NEW e, ~Stop(e).stop
  PROVE  ~timed_out /\ status \notin {"closed", "failed"} /\ e = "ok"
<1>1. ~timed_out
  BY DEF Stop
<1>2. status \notin {"closed", "failed"}
  BY <1>1 DEF Stop
<1>3. e = "ok"
  BY <1>1, <1>2 DEF Stop
<1> QED
  BY <1>1, <1>2, <1>3

-----------------------------------------------------------------------------
(* Types *)

\* The effect of telling something
LEMMA Reported ==
  ASSUME told \in Seq(Reports), NEW r \in Reports, told' = Append(told, r)
  PROVE  /\ told' \in Seq(Reports) /\ told' # <<>>
         /\ told'[Len(told')] = r
         /\ told # <<>> => told'[1] = told[1]
         /\ told = <<>> => told'[1] = r
<1>1. told = <<>> => Len(told) = 0
  OBVIOUS
<1>2. told # <<>> => Len(told) > 0
  BY EmptySeq
<1> QED
  BY <1>1, <1>2, AppendProperties

LEMMA Sizes ==
  /\ HeadSizes \subseteq Nat \ {0} /\ Roles \subseteq {"client", "server"}
  /\ Room \in Nat /\ Frames \in Nat
  BY ConstantsAssumption DEF ConstantsAssumption

LEMMA PeerTyped == ASSUME NEW p \in Peers PROVE p \in [agrees : BOOLEAN, head : Nat \ {0}, sent : Nat, closed : BOOLEAN]
<1>1. p.agrees \in BOOLEAN /\ p.closed \in BOOLEAN
  BY DEF Peers
<1>2. p.head \in HeadSizes /\ p.sent = 0
  BY DEF Peers
<1>3. p = [agrees |-> p.agrees, head |-> p.head, sent |-> p.sent, closed |-> p.closed]
  BY DEF Peers
<1> QED
  BY <1>1, <1>2, <1>3, Sizes

LEMMA InitTyped == Init => TypeOK
<1> SUFFICES ASSUME Init PROVE TypeOK
  OBVIOUS
<1>1. FlagsOK
  BY DEF Init, FlagsOK
<1>2. TimerOK
  BY DEF Init, TimerOK
<1>3. OpsOK
  BY Sizes DEF Init, OpsOK
<1>4. PeerOK
  BY DEF Init, PeerOK, NoPeer
<1>5. ToldOK /\ BuffersOK
  BY EmptySeq DEF Init, ToldOK, BuffersOK
<1> QED
  BY <1>1, <1>2, <1>3, <1>4, <1>5 DEF TypeOK

LEMMA FlagsStep == ASSUME TypeOK, [Next]_vars PROVE FlagsOK'
<1> FlagsOK
  BY DEF TypeOK
<1>a. CASE AsyncHandshake
  BY <1>a DEF AsyncHandshake, Connects, FlagsOK
<1>b. CASE AsyncAccept
  BY <1>b DEF AsyncAccept, Connects, FlagsOK
<1>c. ASSUME NEW e, OpStops(e) PROVE FlagsOK'
  BY <1>c DEF OpStops, Checked, FlagsOK
<1>d. CASE RequestWritten
  BY <1>c, <1>d DEF RequestWritten, FlagsOK, flags, hist
<1>e. CASE ResponseOverflows
  BY <1>e DEF ResponseOverflows, FlagsOK, flags, hist
<1>f. ASSUME OnResponse PROVE FlagsOK'
  BY <1>f DEF OnResponse, Opens, FlagsOK
<1>g. CASE ResponseRead
  BY <1>c, <1>f, <1>g DEF ResponseRead
<1>h. CASE RequestRead
  BY <1>c, <1>h DEF RequestRead, FlagsOK
<1>i. CASE ResponseWritten
  BY <1>c, <1>i DEF ResponseWritten, Opens, FlagsOK
<1>j. CASE AsyncRead
  BY <1>j DEF AsyncRead, FlagsOK, hist
<1>k. CASE ReadResumes
  BY <1>k DEF ReadResumes, Checked, FlagsOK, flags
<1>l. CASE TimerExpires
  BY <1>l DEF TimerExpires, FlagsOK, flags, hist
<1>m. CASE timeout_handler
  BY <1>m DEF timeout_handler, TimesOut, FlagsOK, hist
<1>n. CASE Writes \/ OpReads \/ Reads \/ IoFails \/ PeerSends \/ PeerCloses
  BY <1>n DEF Writes, OpReads, Reads, IoFails, PeerSends, PeerCloses, FlagsOK, flags, hist
<1>o. CASE UNCHANGED vars
  BY <1>o DEF vars, FlagsOK, flags, hist
<1> QED
  BY <1>a, <1>b, <1>d, <1>e, <1>g, <1>h, <1>i, <1>j, <1>k, <1>l, <1>m, <1>n, <1>o
     DEF Next, OpResumes

LEMMA TimerStep == ASSUME TypeOK, [Next]_vars PROVE TimerOK'
<1> TimerOK
  BY DEF TypeOK
<1>a. ASSUME NEW p, Connects(p) PROVE TimerOK'
  BY <1>a DEF Connects, HandshakeTimer, TimerOK, TimerAfterReset
<1>b. CASE AsyncHandshake \/ AsyncAccept
  BY <1>a, <1>b DEF AsyncHandshake, AsyncAccept
<1>c. ASSUME NEW e, OpStops(e) PROVE TimerOK'
  BY <1>c DEF OpStops, TimerOK, timer
<1>d. CASE RequestWritten
  BY <1>c, <1>d DEF RequestWritten, TimerOK, flags, timer, hist
<1>e. CASE ResponseOverflows
  BY <1>e DEF ResponseOverflows, TimerOK, flags, timer, hist
<1>f. ASSUME OnResponse PROVE TimerOK'
  BY <1>f DEF OnResponse, Opens, TimerOK
<1>g. CASE ResponseRead
  BY <1>c, <1>f, <1>g DEF ResponseRead
<1>h. CASE RequestRead
  <2>1. CASE HandshakeTimer(expiry, waits) /\ UNCHANGED <<idle_counter, fired>>
    BY <2>1 DEF HandshakeTimer, TimerOK
  <2> QED
    BY <1>c, <1>h, <2>1 DEF RequestRead
<1>i. CASE ResponseWritten
  <2>1. CASE Opens /\ UNCHANGED <<idle_counter, fired, failed>>
    BY <2>1 DEF Opens, TimerOK
  <2>2. CASE UNCHANGED <<expiry, waits, idle_counter, fired, failed>>
    BY <2>2 DEF TimerOK
  <2> QED
    BY <1>c, <1>i, <2>1, <2>2 DEF ResponseWritten
<1>j. CASE AsyncRead
  BY <1>j DEF AsyncRead, TimerOK, hist
<1>k. CASE ReadResumes
  BY <1>k DEF ReadResumes, TimerOK, flags, timer
<1>l. CASE TimerExpires
  BY <1>l DEF TimerExpires, TimerOK, flags, hist
<1>m. CASE timeout_handler
  BY <1>m DEF timeout_handler, TimerOK, hist
<1>n. CASE Writes \/ OpReads \/ Reads \/ IoFails \/ PeerSends \/ PeerCloses
  BY <1>n DEF Writes, OpReads, Reads, IoFails, PeerSends, PeerCloses, TimerOK, flags, timer, hist
<1>o. CASE UNCHANGED vars
  BY <1>o DEF vars, TimerOK, flags, timer, hist
<1> QED
  BY <1>b, <1>d, <1>e, <1>g, <1>h, <1>i, <1>j, <1>k, <1>l, <1>m, <1>n, <1>o DEF Next, OpResumes

LEMMA OpsStep == ASSUME TypeOK, [Next]_vars PROVE OpsOK'
<1> OpsOK
  BY DEF TypeOK
<1>a. CASE AsyncHandshake
  BY <1>a DEF AsyncHandshake, Connects, OpsOK
<1>b. CASE AsyncAccept
  BY <1>b DEF AsyncAccept, Connects, OpsOK
<1>c. ASSUME NEW e, OpStops(e) PROVE OpsOK'
  BY <1>c DEF OpStops, Upcall, OpsOK, net
<1>d. ASSUME NEW b, NEW r, HttpReads(b, r) PROVE io' \in {"ok", "err", "overflow", "pending"}
  BY <1>d DEF HttpReads, ReadIo
<1>e. CASE RequestWritten
  BY <1>c, <1>d, <1>e DEF RequestWritten, OpsOK, net
<1>f. CASE ResponseOverflows
  BY <1>d, <1>f DEF ResponseOverflows, OpsOK, net
<1>g. ASSUME OnResponse PROVE OpsOK'
  BY <1>g DEF OnResponse, Upcall, OpsOK, net
<1>h. CASE ResponseRead
  BY <1>c, <1>g, <1>h DEF ResponseRead
<1>i. CASE RequestRead
  BY <1>c, <1>i DEF RequestRead, OpsOK, net
<1>j. CASE ResponseWritten
  BY <1>c, <1>j DEF ResponseWritten, Upcall, OpsOK, net
<1>k. CASE AsyncRead
  BY <1>k DEF AsyncRead, OpsOK, net
<1>l. CASE ReadResumes
  BY <1>l DEF ReadResumes, OpsOK, net
<1>m. CASE TimerExpires
  BY <1>m DEF TimerExpires, OpsOK, net, ops
<1>n. CASE timeout_handler
  BY <1>n DEF timeout_handler, TimesOut, OpsOK
<1>o. CASE Writes
  BY <1>o DEF Writes, OpsOK
<1>p. CASE OpReads
  BY <1>d, <1>p DEF OpReads, OpsOK
<1>q. CASE Reads \/ IoFails
  BY <1>q DEF Reads, IoFails, OpsOK, net
<1>r. CASE PeerSends \/ PeerCloses
  BY <1>r DEF PeerSends, PeerCloses, OpsOK, ops
<1>s. CASE UNCHANGED vars
  BY <1>s DEF vars, OpsOK, ops, net
<1> QED
  BY <1>a, <1>b, <1>e, <1>f, <1>h, <1>i, <1>j, <1>k, <1>l, <1>m, <1>n, <1>o, <1>p, <1>q, <1>r,
     <1>s DEF Next, OpResumes

LEMMA PeerStep == ASSUME TypeOK, [Next]_vars PROVE PeerOK'
<1> PeerOK
  BY DEF TypeOK
<1>1. CASE AsyncHandshake \/ AsyncAccept
  BY <1>1, PeerTyped DEF AsyncHandshake, AsyncAccept, Connects, PeerOK
<1>2. CASE OpResumes
  BY <1>2 DEF OpResumes, RequestWritten, ResponseOverflows, ResponseRead, RequestRead,
              ResponseWritten, OpStops, OnResponse, PeerOK, net
<1>3. CASE AsyncRead \/ ReadResumes \/ TimerExpires \/ timeout_handler
  BY <1>3 DEF AsyncRead, ReadResumes, TimerExpires, timeout_handler, PeerOK, net
<1>4. CASE Writes \/ OpReads \/ Reads \/ IoFails \/ UNCHANGED vars
  BY <1>4 DEF Writes, OpReads, Reads, IoFails, vars, PeerOK, net
<1>5. CASE PeerSends
  BY <1>5 DEF PeerSends, PeerOK
<1>6. CASE PeerCloses
  BY <1>6 DEF PeerCloses, PeerOK
<1> QED
  BY <1>1, <1>2, <1>3, <1>4, <1>5, <1>6 DEF Next

LEMMA ToldStep == ASSUME TypeOK, [Next]_vars PROVE ToldOK'
<1> USE DEF TypeOK, ToldOK
<1>1. ASSUME NEW w \in {"open", "read"}, NEW e \in Results, Tell(w, e) PROVE ToldOK'
  BY <1>1, AppendProperties DEF Tell, Reports
<1>2. ASSUME NEW e \in Results, Upcall(e) PROVE ToldOK'
  BY <1>1, <1>2 DEF Upcall
<1>3. ASSUME NEW e \in Results, Stop(e).stop PROVE Stop(e).ec \in Results
  BY <1>3, Stopped DEF Results
<1>4. ASSUME NEW e \in Results, OpStops(e) PROVE ToldOK'
  BY <1>2, <1>3, <1>4 DEF OpStops
<1>5. ASSUME OnResponse PROVE ToldOK'
  BY <1>2, <1>5 DEF OnResponse, Results
<1>7. <<[op |-> "open", ec |-> "overflow"]>> \in Seq(Reports)
  BY DEF Reports, Results
<1>6. Ready => io \in Results
  BY DEF Ready, OpsOK, Results
<1>a. CASE AsyncHandshake
  BY <1>a, EmptySeq DEF AsyncHandshake
<1>b. CASE AsyncAccept
  <2>1. told' = <<>> \/ told' = <<[op |-> "open", ec |-> "overflow"]>>
    BY <1>b DEF AsyncAccept
  <2> QED
    BY <2>1, EmptySeq, <1>7
<1>c. CASE RequestWritten
  BY <1>4, <1>6, <1>c DEF RequestWritten, hist
<1>d. CASE ResponseRead
  BY <1>4, <1>5, <1>6, <1>d DEF ResponseRead, Results
<1>e. CASE RequestRead
  BY <1>4, <1>6, <1>e DEF RequestRead
<1>f. CASE ResponseWritten
  BY <1>2, <1>4, <1>6, <1>f DEF ResponseWritten, Results
<1>g. CASE ReadResumes
  <2>1. rd # "closed" => rd \in Results
    BY <1>g DEF ReadResumes, Results
  <2> QED
    BY <1>1, <1>3, <1>g, <2>1 DEF ReadResumes, Results
<1>h. CASE ResponseOverflows \/ AsyncRead \/ TimerExpires \/ timeout_handler
  BY <1>h DEF ResponseOverflows, AsyncRead, TimerExpires, timeout_handler, hist
<1>i. CASE Writes \/ OpReads \/ Reads \/ IoFails \/ PeerSends \/ PeerCloses \/ UNCHANGED vars
  BY <1>i DEF Writes, OpReads, Reads, IoFails, PeerSends, PeerCloses, vars, hist
<1> QED
  BY <1>a, <1>b, <1>c, <1>d, <1>e, <1>f, <1>g, <1>h, <1>i DEF Next, OpResumes

-----------------------------------------------------------------------------
(* Why a session ended *)

CauseInv ==
  /\ op # "idle" => told = <<>> /\ rd = "idle"
  /\ rd # "idle" => Opened /\ ~SessionOver
  /\ Running => (timed_out \/ (sock /\ status \notin {"closed", "failed"}))
                /\ ec_delivered = inherited
  /\ rd = "closed" => timed_out
  /\ Opened => peer.agrees
  /\ CauseTold

\* Nothing is told
LEMMA Silent ==
  ASSUME CauseInv, UNCHANGED <<told, inherited, ec_delivered>>,
         op' # "idle" => op # "idle", rd' = rd \/ (rd # "idle" /\ rd' # "closed"),
         peer'.agrees = peer.agrees,
         UNCHANGED <<timed_out, status, sock>> \/ timed_out'
  PROVE  CauseInv'
  BY DEF CauseInv, Running, Opened, SessionOver, CauseTold

\* The operation that opens the stream tells ec, and this is why
LEMMA OpTells ==
  ASSUME TypeOK, CauseInv, op # "idle", NEW e \in Results, Upcall(e),
         UNCHANGED <<rd, inherited, peer, sock>>,
         e = "ok" => peer.agrees /\ ec_delivered' = ec_delivered
                     /\ sock /\ status' \notin {"closed", "failed"},
         e = "aborted" => inherited
  PROVE  CauseInv'
<1>1. /\ told' # <<>> /\ told'[Len(told')] = [op |-> "open", ec |-> e]
      /\ told'[1] = [op |-> "open", ec |-> e] /\ op' = "idle"
  BY Reported DEF Upcall, Tell, Reports, TypeOK, ToldOK, CauseInv
<1> QED
  BY <1>1 DEF CauseInv, Running, Opened, SessionOver, CauseTold

LEMMA OpStopsCause ==
  ASSUME TypeOK, CauseInv, op # "idle", NEW e \in {"ok", "err", "overflow"}, OpStops(e)
  PROVE  CauseInv'
<1>1. Running
  BY DEF Running
<1>2. Stop(e).ec \in Results \ {"ok"} /\ (Stop(e).ec = "aborted" => inherited)
  BY <1>1, Stopped DEF OpStops, CauseInv, Results
<1> QED
  BY <1>2, OpTells DEF OpStops, net

LEMMA OnResponseCause ==
  ASSUME TypeOK, CauseInv, op # "idle", ~timed_out, OnResponse
  PROVE  CauseInv'
<1>1. sock
  BY DEF CauseInv, Running
<1>2. CASE peer.agrees
  BY <1>1, <1>2, OpTells DEF OnResponse, Opens, net, Results
<1>3. CASE ~peer.agrees
  BY <1>3, OpTells DEF OnResponse, net, Results
<1> QED
  BY <1>2, <1>3

LEMMA InitCause == Init => CauseInv
  BY DEF Init, CauseInv, Running, Opened, SessionOver, CauseTold

LEMMA OpResumesCause == ASSUME TypeOK, CauseInv, OpResumes PROVE CauseInv'
<1>1. op # "idle"
  BY DEF OpResumes, RequestWritten, ResponseOverflows, ResponseRead, RequestRead, ResponseWritten
<1>2. Ready => io \in {"ok", "err", "overflow"}
  BY DEF Ready, TypeOK, OpsOK
<1>a. CASE RequestWritten
  <2>1. CASE OpStops(io)
    BY <1>1, <1>2, <1>a, <2>1, OpStopsCause DEF RequestWritten
  <2>2. CASE ~OpStops(io)
    BY <1>1, <1>a, <2>2, Silent DEF RequestWritten, flags, net, hist
  <2> QED
    BY <2>1, <2>2
<1>b. CASE ResponseOverflows
  BY <1>1, <1>b, Silent DEF ResponseOverflows, flags, net, hist
<1>c. CASE ResponseRead
  <2>1. ASSUME NEW e \in {"ok", "err", "overflow"}, OpStops(e) PROVE CauseInv'
    BY <1>1, <2>1, OpStopsCause
  <2>2. ASSUME NEW e, ~Stop(e).stop, OnResponse PROVE CauseInv'
    BY <1>1, <2>2, NotStopped, OnResponseCause
  <2> QED
    BY <1>2, <1>c, <2>1, <2>2 DEF ResponseRead
<1>d. CASE RequestRead
  <2>1. CASE OpStops(io)
    BY <1>1, <1>2, <1>d, <2>1, OpStopsCause DEF RequestRead
  <2>2. CASE ~OpStops(io)
    <3>1. ~Stop(io).stop /\ status' = "handshake" /\ op' = "write"
          /\ UNCHANGED <<timed_out, ec_delivered, rd, net, told, inherited>>
      BY <1>d, <2>2 DEF RequestRead
    <3>2. ~timed_out /\ sock
      BY <1>1, <3>1, NotStopped DEF CauseInv, Running
    <3> QED
      BY <1>1, <3>1, <3>2 DEF CauseInv, Running, Opened, SessionOver, CauseTold, net
  <2> QED
    BY <2>1, <2>2
<1>e. CASE ResponseWritten
  <2>1. CASE OpStops(io)
    BY <1>1, <1>2, <1>e, <2>1, OpStopsCause DEF ResponseWritten
  <2>2. CASE ~OpStops(io)
    <3>1. ~timed_out /\ sock
      BY <1>1, <1>e, <2>2, NotStopped DEF ResponseWritten, CauseInv, Running
    <3>2. CASE peer.agrees
      BY <1>1, <1>e, <2>2, <3>1, <3>2, OpTells DEF ResponseWritten, Opens, net, Results
    <3>3. CASE ~peer.agrees
      BY <1>1, <1>e, <2>2, <3>3, OpTells DEF ResponseWritten, net, Results
    <3> QED
      BY <3>2, <3>3
  <2> QED
    BY <2>1, <2>2
<1> QED
  BY <1>a, <1>b, <1>c, <1>d, <1>e DEF OpResumes

LEMMA CauseStep == ASSUME TypeOK, CauseInv, [Next]_vars PROVE CauseInv'
<1>a. ASSUME AsyncHandshake \/ AsyncAccept PROVE CauseInv'
  <2>1. PICK p \in Peers : Connects(p)
    BY <1>a DEF AsyncHandshake, AsyncAccept
  <2>2. \/ told' = <<>>
        \/ told' = <<[op |-> "open", ec |-> "overflow"]>> /\ op' = "idle"
    BY <1>a DEF AsyncHandshake, AsyncAccept
  <2>3. sock' /\ status' = "handshake" /\ inherited' = ec_delivered' /\ rd' = "idle"
    BY <2>1 DEF Connects
  <2> QED
    BY <2>2, <2>3 DEF CauseInv, Running, Opened, SessionOver, CauseTold
<1>b. CASE AsyncRead
  BY <1>b DEF AsyncRead, net, hist, CauseInv, Running, Opened, SessionOver, CauseTold
<1>c. CASE ReadResumes
  <2>1. Running /\ Opened /\ ~SessionOver /\ op = "idle"
    BY <1>c DEF ReadResumes, CauseInv, Running
  <2>2. ASSUME NEW e \in Results, Tell("read", e), rd' = "idle",
               UNCHANGED <<op, inherited, peer, sock>>,
               e = "ok" => UNCHANGED <<status, timed_out, ec_delivered>>,
               e = "aborted" => timed_out' \/ inherited
        PROVE  CauseInv'
    <3>1. /\ told' # <<>> /\ told'[Len(told')] = [op |-> "read", ec |-> e]
          /\ told'[1] = told[1]
      BY <2>1, <2>2, Reported DEF Tell, Reports, TypeOK, ToldOK, Opened
    <3> QED
      BY <2>1, <2>2, <3>1 DEF CauseInv, Running, Opened, SessionOver, CauseTold
  <2>3. rd' = "idle" /\ UNCHANGED <<op, inherited, peer, sock>>
    BY <1>c DEF ReadResumes, net
  <2>4. CASE rd = "closed"
    BY <1>c, <2>2, <2>3, <2>4 DEF ReadResumes, CauseInv, flags, Results
  <2>5. CASE rd # "closed" /\ Stop(rd).stop
    <3>1. Stop(rd).ec \in Results \ {"ok"} /\ (Stop(rd).ec = "aborted" => inherited)
      BY <1>c, <2>1, <2>5, Stopped DEF ReadResumes, CauseInv, Results
    <3> QED
      BY <1>c, <2>2, <2>3, <2>5, <3>1 DEF ReadResumes
  <2>6. CASE rd # "closed" /\ ~Stop(rd).stop
    BY <1>c, <2>2, <2>3, <2>6 DEF ReadResumes, Results
  <2> QED
    BY <2>4, <2>5, <2>6
<1>d. CASE timeout_handler
  <2>1. UNCHANGED <<told, inherited, ec_delivered, op, peer>>
    BY <1>d DEF timeout_handler, hist
  <2>2. \/ timed_out' /\ (rd' = rd \/ (rd = "pending" /\ rd' = "err"))
        \/ UNCHANGED <<timed_out, status, sock, rd>>
    BY <1>d DEF timeout_handler, TimesOut
  <2> QED
    BY <2>1, <2>2, Silent
<1>e. CASE TimerExpires \/ Writes \/ OpReads \/ Reads \/ IoFails \/ PeerSends \/ PeerCloses
  <2>1. UNCHANGED <<told, inherited, flags, sock>> /\ op' = op
    BY <1>e DEF TimerExpires, Writes, OpReads, Reads, IoFails, PeerSends, PeerCloses, hist, ops,
                net
  <2>2. peer'.agrees = peer.agrees
    BY <1>e DEF TimerExpires, Writes, OpReads, Reads, IoFails, PeerSends, PeerCloses, net, TypeOK,
                PeerOK
  <2>3. rd' = rd \/ (rd = "pending" /\ rd' \in {"ok", "err"})
    BY <1>e DEF TimerExpires, Writes, OpReads, Reads, IoFails, PeerSends, PeerCloses, ops
  <2> QED
    BY <2>1, <2>2, <2>3, Silent DEF flags
<1>f. CASE UNCHANGED vars
  BY <1>f, Silent DEF vars, flags, ops, net, hist
<1> QED
  BY <1>a, <1>b, <1>c, <1>d, <1>e, <1>f, OpResumesCause DEF Next

-----------------------------------------------------------------------------
(* What is read *)

\* Concatenation, under a name of its own: the solvers rewrite \o before they
\* look at the facts about it.
Then(a, b) == a \o b

SentFrames == [i \in 1 .. peer.sent |-> Frame(session, i)]
Message == Then(HeadOf(session, peer.head), SentFrames)

OpenInv ==
  /\ status = "open" => Opened
  /\ Opened => Then(Then(got, rd_buf), wire) = SentFrames
  /\ rd = "pending" => rd_buf = <<>>
  /\ rd = "ok" => rd_buf # <<>>
  /\ op # "idle" => got = <<>>
WriteInv ==
  op = "write" =>
    /\ role = "client" /\ io = "pending" => wire = <<>> /\ peer.sent = 0
    /\ role = "client" /\ io \in {"pending", "ok"} => rd_buf = <<>>
    /\ role = "client" /\ io = "ok" => wire = Message
    /\ role = "server" => Then(rd_buf, wire) = SentFrames

\* Where the HTTP message is read into b
ReadsInto(b) ==
  /\ io = "ok" => Then(b, wire) = SentFrames
  /\ io \in {"pending", "overflow"} => Then(b, wire) = Message
ReadInv ==
  /\ op = "read" => ReadsInto(rd_buf)
  /\ op = "reread" => ReadsInto(fb)
OrderInv == OpenInv /\ WriteInv /\ ReadInv

(* Sequences *)

LEMMA Tabulated ==
  ASSUME NEW n \in Nat, NEW f \in [1 .. n -> Pieces]
  PROVE  f \in Seq(Pieces) /\ Len(f) = n
<1>1. f \in Seq(Pieces)
  BY SeqDef
<1>2. DOMAIN f = 1 .. n /\ DOMAIN f = 1 .. Len(f) /\ Len(f) \in Nat
  BY <1>1, LenProperties
<1>3. n \in 1 .. n \/ n = 0
  OBVIOUS
<1>4. Len(f) \in 1 .. Len(f) \/ Len(f) = 0
  BY <1>2
<1>5. n <= Len(f) /\ Len(f) <= n
  BY <1>2, <1>3, <1>4
<1> QED
  BY <1>1, <1>2, <1>5

LEMMA HeadTyped ==
  ASSUME NEW n \in Nat, NEW h \in Nat
  PROVE  HeadOf(n, h) \in Seq(Pieces) /\ Len(HeadOf(n, h)) = h
<1>1. \A i \in 1 .. h : Head_(n, i) \in Pieces
  BY DEF Head_, Pieces
<1>2. HeadOf(n, h) \in [1 .. h -> Pieces]
  BY <1>1 DEF HeadOf
<1> QED
  BY <1>2, Tabulated

LEMMA SentTyped ==
  ASSUME OpsOK, PeerOK
  PROVE  SentFrames \in Seq(Pieces) /\ Len(SentFrames) = peer.sent
<1>1. peer.sent \in Nat /\ session \in Nat
  BY DEF PeerOK, OpsOK
<1>2. \A i \in 1 .. peer.sent : Frame(session, i) \in Pieces
  BY <1>1 DEF Frame, Pieces
<1>3. SentFrames \in [1 .. peer.sent -> Pieces]
  BY <1>2 DEF SentFrames
<1> QED
  BY <1>1, <1>3, Tabulated

LEMMA ThenTyped ==
  ASSUME NEW a \in Seq(Pieces), NEW b \in Seq(Pieces)
  PROVE  /\ Then(a, b) \in Seq(Pieces) /\ Len(Then(a, b)) = Len(a) + Len(b)
         /\ \A i \in 1 .. Len(a) + Len(b) :
              Then(a, b)[i] = IF i <= Len(a) THEN a[i] ELSE b[i - Len(a)]
  BY ConcatProperties DEF Then

LEMMA ThenAssociative ==
  ASSUME NEW a \in Seq(Pieces), NEW b \in Seq(Pieces), NEW c \in Seq(Pieces)
  PROVE  Then(Then(a, b), c) = Then(a, Then(b, c))
  BY ConcatAssociative DEF Then

LEMMA ThenEmpty ==
  ASSUME NEW a \in Seq(Pieces) PROVE Then(a, <<>>) = a /\ Then(<<>>, a) = a
  BY ConcatEmptySeq DEF Then

LEMMA ThenAppend ==
  ASSUME NEW a \in Seq(Pieces), NEW b \in Seq(Pieces), NEW p \in Pieces
  PROVE  Then(a, Append(b, p)) = Append(Then(a, b), p)
<1> DEFINE t == <<p>>
<1>1. \A c \in Seq(Pieces) : Append(c, p) = Then(c, t)
  BY AppendIsConcat DEF Then
<1>2. t \in Seq(Pieces)
  OBVIOUS
<1> HIDE DEF t
<1>3. Then(a, b) \in Seq(Pieces)
  BY ThenTyped
<1>4. Then(Then(a, b), t) = Then(a, Then(b, t))
  BY <1>2, ThenAssociative
<1> QED
  BY <1>1, <1>3, <1>4, Zenon

\* Some pieces are taken from w, and the rest is left
LEMMA Taken ==
  ASSUME NEW w \in Seq(Pieces), NEW k \in 0 .. Len(w)
  PROVE  /\ SubSeq(w, 1, k) \in Seq(Pieces) /\ (k # 0 => SubSeq(w, 1, k) # <<>>)
         /\ SubSeq(w, k + 1, Len(w)) \in Seq(Pieces)
         /\ Then(SubSeq(w, 1, k), SubSeq(w, k + 1, Len(w))) = w
<1>1. \A i \in 1 .. Len(w) : w[i] \in Pieces
  BY ElementOfSeq
<1>2. Len(w) \in Nat
  BY LenProperties
<1>3. SubSeq(w, 1, k) \in Seq(Pieces) /\ Len(SubSeq(w, 1, k)) = k
  BY <1>1, <1>2, SubSeqProperties
<1>4. SubSeq(w, k + 1, Len(w)) \in Seq(Pieces)
  BY <1>1, <1>2, SubSeqProperties
<1>5. SubSeq(w, 1, k) \o SubSeq(w, k + 1, Len(w)) = SubSeq(w, 1, Len(w))
  <2>1. 1 \in 1 .. Len(w) + 1 /\ k \in 1 - 1 .. Len(w) /\ Len(w) \in k .. Len(w)
    BY <1>2
  <2> QED
    BY <2>1, ConcatAdjacentSubSeq
<1>6. k # 0 => SubSeq(w, 1, k) # <<>>
  BY <1>3, EmptySeq
<1> QED
  BY <1>3, <1>4, <1>5, <1>6, SubSeqFull DEF Then

\* The first piece of b goes behind a
LEMMA HeadTaken ==
  ASSUME NEW a \in Seq(Pieces), NEW b \in Seq(Pieces), b # <<>>
  PROVE  /\ Append(a, Head(b)) \in Seq(Pieces) /\ Tail(b) \in Seq(Pieces)
         /\ Then(Append(a, Head(b)), Tail(b)) = Then(a, b)
<1> DEFINE p == Head(b)
           t == <<p>>
           q == Tail(b)
<1>1. p \in Pieces /\ q \in Seq(Pieces) /\ t \in Seq(Pieces)
  BY HeadTailProperties
<1>2. Then(t, q) = b
  BY HeadTailProperties DEF Then
<1> HIDE DEF p, q
<1>3. Append(a, p) = Then(a, t) /\ Append(a, p) \in Seq(Pieces)
  BY <1>1, AppendIsConcat, AppendProperties DEF Then
<1> HIDE DEF t
<1>4. Then(Then(a, t), q) = Then(a, b)
  BY <1>1, <1>2, ThenAssociative
<1> QED
  BY <1>1, <1>3, <1>4 DEF p, q

\* h is the front of b, and the rest of b is what f begins with
LEMMA Parsed ==
  ASSUME NEW b \in Seq(Pieces), NEW w \in Seq(Pieces),
         NEW h \in Seq(Pieces), NEW f \in Seq(Pieces),
         Then(b, w) = Then(h, f), Len(b) >= Len(h)
  PROVE  /\ SubSeq(b, Len(h) + 1, Len(b)) \in Seq(Pieces)
         /\ Then(SubSeq(b, Len(h) + 1, Len(b)), w) = f
<1> DEFINE r == SubSeq(b, Len(h) + 1, Len(b))
<1>1. Len(b) \in Nat /\ Len(h) \in Nat /\ Len(w) \in Nat /\ Len(f) \in Nat
  BY LenProperties
<1>2. \A i \in 1 .. Len(b) : b[i] \in Pieces
  BY ElementOfSeq
<1>3. /\ r \in Seq(Pieces) /\ Len(r) = Len(b) - Len(h)
      /\ \A i \in 1 .. Len(b) - Len(h) : r[i] = b[Len(h) + i]
  BY <1>1, <1>2, SubSeqProperties
<1> HIDE DEF r
<1>4. /\ Then(r, w) \in Seq(Pieces) /\ Len(Then(r, w)) = Len(r) + Len(w)
      /\ \A i \in 1 .. Len(r) + Len(w) :
           Then(r, w)[i] = IF i <= Len(r) THEN r[i] ELSE w[i - Len(r)]
  BY <1>3, ThenTyped
<1>a. /\ Len(Then(b, w)) = Len(b) + Len(w)
      /\ \A i \in 1 .. Len(b) + Len(w) :
           Then(b, w)[i] = IF i <= Len(b) THEN b[i] ELSE w[i - Len(b)]
  BY ThenTyped
<1>b. /\ Len(Then(h, f)) = Len(h) + Len(f)
      /\ \A i \in 1 .. Len(h) + Len(f) :
           Then(h, f)[i] = IF i <= Len(h) THEN h[i] ELSE f[i - Len(h)]
  BY ThenTyped
<1>5. Len(Then(r, w)) = Len(f)
  <2>1. Len(b) + Len(w) = Len(h) + Len(f)
    BY <1>a, <1>b
  <2>2. Len(Then(r, w)) = Len(r) + Len(w) /\ Len(r) = Len(b) - Len(h)
    BY <1>3, <1>4
  <2> QED
    BY <1>1, <2>1, <2>2
<1>6. ASSUME NEW i \in 1 .. Len(Then(r, w)) PROVE Then(r, w)[i] = f[i]
  <2> DEFINE j == Len(h) + i
  <2>1. j \in 1 .. Len(h) + Len(f) /\ ~(j <= Len(h)) /\ j - Len(h) = i
    BY <1>1, <1>5
  <2>2. Then(h, f)[j] = f[i]
    BY <1>b, <2>1
  <2>3. CASE i <= Len(r)
    <3>1. i \in 1 .. Len(b) - Len(h) /\ j \in 1 .. Len(b) + Len(w) /\ j <= Len(b)
          /\ i \in 1 .. Len(r) + Len(w)
      BY <1>1, <1>3, <2>3
    <3>2. Then(r, w)[i] = r[i] /\ r[i] = b[j]
      BY <1>3, <1>4, <2>3, <3>1
    <3>3. Then(b, w)[j] = b[j]
      BY <1>a, <3>1
    <3> QED
      BY <2>2, <3>2, <3>3
  <2>4. CASE ~(i <= Len(r))
    <3>1. Len(r) \in Nat /\ i \in Nat \ {0} /\ i <= Len(r) + Len(w)
      BY <1>1, <1>3, <1>4, LenProperties
    <3>2. /\ j \in 1 .. Len(b) + Len(w) /\ ~(j <= Len(b)) /\ j - Len(b) = i - Len(r)
          /\ i \in 1 .. Len(r) + Len(w)
      BY <1>1, <1>3, <2>4, <3>1
    <3>3. Then(r, w)[i] = w[i - Len(r)]
      BY <1>4, <2>4, <3>2
    <3>4. Then(b, w)[j] = w[j - Len(b)]
      BY <1>a, <3>2
    <3> QED
      BY <2>2, <3>2, <3>3, <3>4
  <2> QED
    BY <2>3, <2>4
<1>7. Then(r, w) = f
  BY <1>4, <1>5, <1>6, SeqEqual
<1> QED
  BY <1>3, <1>7 DEF r

\* What http::async_read does to the buffer b, when w is still to come
LEMMA HttpReadsFacts ==
  ASSUME OpsOK, PeerOK, NEW b \in Seq(Pieces), NEW w \in Seq(Pieces), Then(b, w) = Message,
         NEW r, HttpReads(b, r)
  PROVE  /\ Unparsed(b) \in Seq(Pieces)
         /\ io' = "ok" => Then(Unparsed(b), w) = SentFrames
         /\ io' \in {"pending", "overflow"} => Then(Unparsed(b), w) = Message
<1>1. session \in Nat /\ peer.head \in Nat
  BY DEF OpsOK, PeerOK
<1>2. CASE Complete(b)
  <2>1. Len(b) >= peer.head /\ io' = "ok"
    BY <1>2 DEF Complete, HttpReads, ReadIo
  <2>2. Behind(b) \in Seq(Pieces) /\ Then(Behind(b), w) = SentFrames
    <3> DEFINE h == HeadOf(session, peer.head)
    <3>1. h \in Seq(Pieces) /\ Len(h) = peer.head
      BY <1>1, HeadTyped
    <3>2. Then(b, w) = Then(h, SentFrames) /\ SentFrames \in Seq(Pieces)
      BY SentTyped DEF Message
    <3> HIDE DEF h
    <3> QED
      BY <2>1, <3>1, <3>2, Parsed DEF Behind
  <2> QED
    BY <1>2, <2>1, <2>2 DEF Unparsed
<1>3. CASE ~Complete(b)
  BY <1>3 DEF Unparsed, HttpReads, ReadIo
<1> QED
  BY <1>2, <1>3

(* The steps *)

LEMMA SameFrames ==
  ASSUME UNCHANGED <<session, peer>> PROVE UNCHANGED <<SentFrames, Message>>
  BY DEF SentFrames, Message, HeadOf, Head_, Frame, Then

\* The peer sends a frame
LEMMA FrameSent ==
  ASSUME TypeOK, peer'.sent = peer.sent + 1, peer'.head = peer.head, session' = session
  PROVE  /\ SentFrames' = Append(SentFrames, Frame(session, peer.sent + 1))
         /\ Message' = Append(Message, Frame(session, peer.sent + 1))
<1> DEFINE p == Frame(session, peer.sent + 1)
           f == [i \in 1 .. peer.sent + 1 |-> Frame(session, i)]
           h == HeadOf(session, peer.head)
<1>1. peer.sent \in Nat /\ peer.head \in Nat /\ session \in Nat
  BY DEF TypeOK, OpsOK, PeerOK
<1>2. \A i \in 1 .. peer.sent + 1 : Frame(session, i) \in Pieces
  BY <1>1 DEF Frame, Pieces
<1>3. f \in Seq(Pieces) /\ Len(f) = peer.sent + 1
  <2>1. f \in [1 .. peer.sent + 1 -> Pieces]
    BY <1>2
  <2> QED
    BY <1>1, <2>1, Tabulated
<1>4. p \in Pieces
  BY <1>1, <1>2
<1>5. SentFrames \in Seq(Pieces) /\ Len(SentFrames) = peer.sent
  BY SentTyped DEF TypeOK
<1>6. /\ Append(SentFrames, p) \in Seq(Pieces) /\ Len(Append(SentFrames, p)) = peer.sent + 1
      /\ \A i \in 1 .. peer.sent : Append(SentFrames, p)[i] = SentFrames[i]
      /\ Append(SentFrames, p)[peer.sent + 1] = p
  BY <1>4, <1>5, AppendProperties
<1>7. ASSUME NEW i \in 1 .. peer.sent + 1 PROVE f[i] = Append(SentFrames, p)[i]
  <2>1. f[i] = Frame(session, i)
    OBVIOUS
  <2>2. CASE i \in 1 .. peer.sent
    <3>1. SentFrames[i] = Frame(session, i)
      BY <2>2 DEF SentFrames
    <3> HIDE DEF f, p
    <3> QED
      BY <1>6, <2>1, <2>2, <3>1
  <2>3. CASE i = peer.sent + 1
    BY <1>6, <2>1, <2>3
  <2>4. i \in 1 .. peer.sent \/ i = peer.sent + 1
    BY <1>1
  <2> QED
    BY <2>2, <2>3, <2>4
<1>8. f = Append(SentFrames, p)
  <2> HIDE DEF f, p
  <2> QED
    BY <1>3, <1>6, <1>7, SeqEqual
<1>9. SentFrames' = f /\ Message' = Then(h, SentFrames')
  BY DEF SentFrames, Message, Frame, HeadOf, Head_, Then
<1>10. Then(h, Append(SentFrames, p)) = Append(Then(h, SentFrames), p)
  <2>1. h \in Seq(Pieces)
    BY <1>1, HeadTyped
  <2> HIDE DEF h, p
  <2> QED
    BY <1>4, <1>5, <2>1, ThenAppend
<1> QED
  BY <1>8, <1>9, <1>10 DEF Message

LEMMA Leasts ==
  ASSUME NEW a \in Nat, NEW b \in Int, NEW k \in 1 .. Least(a, b) PROVE k \in 1 .. a
  BY DEF Least

\* The peer's pieces go into b
Arrive(b, newB) == \E k \in 1 .. Len(wire), room \in Int :
  /\ wire' = SubSeq(wire, k + 1, Len(wire))
  /\ HttpReads(Then(b, SubSeq(wire, 1, k)), room)
  /\ newB = Unparsed(Then(b, SubSeq(wire, 1, k)))

LEMMA OpReadsFacts ==
  ASSUME TypeOK, OpReads
  PROVE  \/ op = "read" /\ Arrive(rd_buf, rd_buf') /\ fb' = fb
         \/ op = "reread" /\ Arrive(fb, fb') /\ rd_buf' = rd_buf
<1>1. Len(wire) \in Nat /\ Len(rd_buf) \in Nat /\ Len(fb) \in Nat
  BY LenProperties DEF TypeOK, BuffersOK
<1>2. /\ Room - Len(rd_buf) \in Int /\ NoLimit - Len(fb) \in Int
      /\ Room \in Int /\ NoLimit \in Int
  BY <1>1, Sizes DEF NoLimit, TypeOK, PeerOK
<1>3. CASE op = "read"
  <2>1. PICK k \in 1 .. Least(Len(wire), Room - Len(rd_buf)) :
          /\ wire' = SubSeq(wire, k + 1, Len(wire))
          /\ HttpReads(Then(rd_buf, SubSeq(wire, 1, k)), Room)
          /\ rd_buf' = Unparsed(Then(rd_buf, SubSeq(wire, 1, k))) /\ fb' = fb
    BY <1>3 DEF OpReads, Then
  <2>2. k \in 1 .. Len(wire)
    BY <1>1, <1>2, Leasts
  <2> QED
    BY <1>2, <1>3, <2>1, <2>2 DEF Arrive
<1>4. CASE op = "reread"
  <2>1. PICK k \in 1 .. Least(Len(wire), NoLimit - Len(fb)) :
          /\ wire' = SubSeq(wire, k + 1, Len(wire))
          /\ HttpReads(Then(fb, SubSeq(wire, 1, k)), NoLimit)
          /\ fb' = Unparsed(Then(fb, SubSeq(wire, 1, k))) /\ rd_buf' = rd_buf
    BY <1>4 DEF OpReads, Then
  <2>2. k \in 1 .. Len(wire)
    BY <1>1, <1>2, Leasts
  <2> QED
    BY <1>2, <1>4, <2>1, <2>2 DEF Arrive
<1> QED
  BY <1>3, <1>4 DEF OpReads

LEMMA ReadsFacts ==
  ASSUME TypeOK, Reads
  PROVE  \E k \in 1 .. Len(wire) :
           rd_buf' = SubSeq(wire, 1, k) /\ wire' = SubSeq(wire, k + 1, Len(wire))
<1>1. PICK k \in 1 .. Least(Len(wire), Room) :
           rd_buf' = SubSeq(wire, 1, k) /\ wire' = SubSeq(wire, k + 1, Len(wire))
  BY DEF Reads
<1>2. k \in 1 .. Len(wire)
  <2>1. Len(wire) \in Nat /\ Room \in Int
    BY LenProperties, Sizes DEF TypeOK, BuffersOK
  <2> QED
    BY <2>1, Leasts
<1> QED
  BY <1>1, <1>2

LEMMA BuffersStep == ASSUME TypeOK, OpenInv, [Next]_vars PROVE BuffersOK'
<1> BuffersOK /\ OpsOK /\ PeerOK
  BY DEF TypeOK
<1>1. <<>> \in Seq(Pieces)
  BY EmptySeq
<1>2. ASSUME NEW b \in Seq(Pieces) PROVE Unparsed(b) \in Seq(Pieces)
  <2>1. peer.head \in Nat /\ Len(b) \in Nat /\ \A i \in 1 .. Len(b) : b[i] \in Pieces
    BY LenProperties, ElementOfSeq DEF PeerOK
  <2>2. Behind(b) \in Seq(Pieces)
    BY <2>1, SubSeqProperties DEF Behind
  <2> QED
    BY <2>2 DEF Unparsed
<1>3. ASSUME NEW w \in Seq(Pieces), NEW k \in 0 .. Len(w)
      PROVE  SubSeq(w, 1, k) \in Seq(Pieces) /\ SubSeq(w, k + 1, Len(w)) \in Seq(Pieces)
  BY Taken
<1>a. CASE AsyncHandshake
  BY <1>1, <1>a DEF AsyncHandshake, Connects, BufferAfterReset, BuffersOK
<1>b. CASE AsyncAccept
  <2>0. PICK p \in Peers : \E pre \in 0 .. p.head :
          /\ Connects(p)
          /\ rd_buf' \in {<<>>, SubSeq(HeadOf(session + 1, p.head), 1, pre)}
          /\ wire' = SubSeq(HeadOf(session + 1, p.head), pre + 1, p.head)
    BY <1>b DEF AsyncAccept, BufferAfterReset
  <2>1. PICK pre \in 0 .. p.head :
          /\ Connects(p)
          /\ rd_buf' \in {<<>>, SubSeq(HeadOf(session + 1, p.head), 1, pre)}
          /\ wire' = SubSeq(HeadOf(session + 1, p.head), pre + 1, p.head)
    BY <2>0
  <2> DEFINE h == HeadOf(session + 1, p.head)
  <2>2. p.head \in Nat /\ session + 1 \in Nat
    BY PeerTyped DEF OpsOK
  <2>3. h \in Seq(Pieces) /\ Len(h) = p.head
    BY <2>2, HeadTyped
  <2>4. rd_buf' \in {<<>>, SubSeq(h, 1, pre)} /\ wire' = SubSeq(h, pre + 1, p.head)
    BY <2>1
  <2> HIDE DEF h
  <2> QED
    BY <1>1, <1>3, <2>1, <2>3, <2>4 DEF Connects, BuffersOK
<1>c. CASE RequestWritten
  BY <1>2, <1>c DEF RequestWritten, OpStops, BuffersOK, net, hist
<1>d. CASE ResponseOverflows
  BY <1>1, <1>2, <1>d DEF ResponseOverflows, BuffersOK, net, hist
<1>e. CASE ResponseRead
  <2>1. UNCHANGED <<wire, got>>
    BY <1>e DEF ResponseRead, OpStops, OnResponse, net
  <2>2. rd_buf' \in {rd_buf, fb} /\ fb' \in {<<>>, fb}
    BY <1>e DEF ResponseRead, Leftovers
  <2> QED
    BY <1>1, <2>1, <2>2 DEF BuffersOK
<1>f. CASE RequestRead \/ ResponseWritten
  BY <1>f DEF RequestRead, ResponseWritten, OpStops, BuffersOK, net
<1>g. CASE AsyncRead \/ TimerExpires \/ timeout_handler
  BY <1>g DEF AsyncRead, TimerExpires, timeout_handler, BuffersOK, net, hist
<1>h. CASE Writes
  <2>1. HeadOf(session, peer.head) \in Seq(Pieces)
    BY HeadTyped DEF OpsOK, PeerOK
  <2> QED
    BY <1>h, <2>1 DEF Writes, BuffersOK, hist
<1>i. CASE OpReads
  <2>1. ASSUME NEW b \in Seq(Pieces), NEW c, Arrive(b, c)
        PROVE  wire' \in Seq(Pieces) /\ c \in Seq(Pieces)
    <3>1. PICK k \in 1 .. Len(wire) :
            /\ wire' = SubSeq(wire, k + 1, Len(wire))
            /\ c = Unparsed(Then(b, SubSeq(wire, 1, k)))
      BY <2>1 DEF Arrive
    <3>2. SubSeq(wire, 1, k) \in Seq(Pieces) /\ wire' \in Seq(Pieces)
      BY <1>3, <3>1 DEF BuffersOK
    <3> DEFINE t == SubSeq(wire, 1, k)
    <3>3. t \in Seq(Pieces) /\ c = Unparsed(Then(b, t))
      BY <3>1, <3>2
    <3> HIDE DEF t
    <3> QED
      BY <1>2, <3>2, <3>3, ThenTyped
  <2>2. UNCHANGED got
    BY <1>i DEF OpReads, hist
  <2> QED
    BY <1>i, <2>1, <2>2, OpReadsFacts DEF BuffersOK
<1>j. CASE Reads
  <2>1. PICK k \in 1 .. Len(wire) :
          rd_buf' = SubSeq(wire, 1, k) /\ wire' = SubSeq(wire, k + 1, Len(wire))
    BY <1>j, ReadsFacts
  <2> QED
    BY <1>3, <1>j, <2>1 DEF BuffersOK, Reads, hist
<1>k. CASE IoFails \/ PeerCloses \/ UNCHANGED vars
  BY <1>k DEF IoFails, PeerCloses, vars, BuffersOK, net, hist
<1>l. CASE PeerSends
  <2>1. Frame(session, peer.sent + 1) \in Pieces
    BY DEF Frame, Pieces, OpsOK, PeerOK
  <2> QED
    BY <1>l, <2>1, AppendProperties DEF PeerSends, BuffersOK, hist
<1>m. CASE ReadResumes
  <2>1. UNCHANGED <<fb, wire>>
    BY <1>m DEF ReadResumes, net
  <2>2. CASE UNCHANGED <<rd_buf, got>>
    BY <2>1, <2>2 DEF BuffersOK
  <2>3. CASE rd # "closed" /\ ~Stop(rd).stop
    <3>1. rd_buf # <<>>
      BY <2>3, NotStopped DEF OpenInv
    <3> QED
      BY <1>m, <2>1, <2>3, <3>1, HeadTaken DEF ReadResumes, BuffersOK
  <2> QED
    BY <1>m, <2>2, <2>3 DEF ReadResumes
<1> QED
  BY <1>a, <1>b, <1>c, <1>d, <1>e, <1>f, <1>g, <1>h, <1>i, <1>j, <1>k, <1>l, <1>m
     DEF Next, OpResumes

\* No piece moves
LEMMA NoPieceMoves ==
  ASSUME OrderInv, UNCHANGED <<rd_buf, fb, wire, got, role, SentFrames, Message, op>>,
         peer'.sent = peer.sent, Opened' <=> Opened, status' = "open" => status = "open",
         io' \in {io, "err"}, rd' = "pending" => rd_buf = <<>>, rd' = "ok" => rd_buf # <<>>
  PROVE  OrderInv'
<1>1. OpenInv'
  BY DEF OrderInv, OpenInv
<1>2. WriteInv'
  BY DEF OrderInv, WriteInv
<1>3. ReadInv'
  BY DEF OrderInv, ReadInv, ReadsInto
<1> QED
  BY <1>1, <1>2, <1>3 DEF OrderInv

\* The operation that opens the stream ends
LEMMA OpEnds ==
  ASSUME TypeOK, CauseInv, OrderInv, BuffersOK', op # "idle", NEW e \in Results, Upcall(e),
         UNCHANGED <<got, wire, session, peer, rd>>, status' = "open" => e = "ok",
         e = "ok" => Then(rd_buf', wire) = SentFrames
  PROVE  OrderInv'
<1>1. /\ told' # <<>> /\ told'[1] = [op |-> "open", ec |-> e] /\ op' = "idle"
      /\ rd' = "idle" /\ got' = <<>>
  BY Reported DEF Upcall, Tell, Reports, TypeOK, ToldOK, CauseInv, OrderInv, OpenInv
<1>2. Then(<<>>, rd_buf') = rd_buf'
  BY ThenEmpty DEF BuffersOK
<1>3. SentFrames' = SentFrames
  BY SameFrames
<1>4. OpenInv'
  BY <1>1, <1>2, <1>3 DEF OpenInv, Opened
<1> QED
  BY <1>1, <1>4 DEF OrderInv, WriteInv, ReadInv

LEMMA OpStopsOrder ==
  ASSUME TypeOK, CauseInv, OrderInv, BuffersOK', op # "idle",
         NEW e \in {"ok", "err", "overflow"}, OpStops(e)
  PROVE  OrderInv'
<1>1. Stop(e).ec \in Results \ {"ok"}
  BY Stopped DEF OpStops, Results
<1>2. status # "open"
  BY DEF OrderInv, OpenInv, CauseInv, Opened
<1>3. status' # "open"
  BY <1>2 DEF OpStops, Checked
<1> QED
  BY <1>1, <1>3, OpEnds DEF OpStops, net

LEMMA OnResponseOrder ==
  ASSUME TypeOK, CauseInv, OrderInv, BuffersOK', op # "idle", OnResponse,
         Then(rd_buf', wire) = SentFrames
  PROVE  OrderInv'
<1>1. status # "open"
  BY DEF OrderInv, OpenInv, CauseInv, Opened
<1>2. CASE peer.agrees
  BY <1>2, OpEnds DEF OnResponse, net, Results
<1>3. CASE ~peer.agrees
  BY <1>1, <1>3, OpEnds DEF OnResponse, net, Results
<1> QED
  BY <1>2, <1>3

LEMMA OpResumesOrder ==
  ASSUME TypeOK, CauseInv, OrderInv, BuffersOK', OpResumes PROVE OrderInv'
<1> BuffersOK /\ OpsOK /\ PeerOK
  BY DEF TypeOK
<1>1. op # "idle"
  BY DEF OpResumes, RequestWritten, ResponseOverflows, ResponseRead, RequestRead, ResponseWritten
<1>2. Ready => io \in {"ok", "err", "overflow"}
  BY DEF Ready, OpsOK
<1>3. ~Opened /\ got = <<>> /\ status # "open" /\ rd = "idle"
  BY <1>1 DEF CauseInv, Opened, OrderInv, OpenInv
<1>4. ASSUME UNCHANGED <<status, got, told, rd>>, op' \in {"write", "read", "reread"},
             WriteInv', ReadInv'
      PROVE  OrderInv'
  BY <1>3, <1>4 DEF OrderInv, OpenInv, Opened
<1>a. CASE RequestWritten
  <2>1. CASE OpStops(io)
    BY <1>1, <1>2, <1>a, <2>1, OpStopsOrder DEF RequestWritten
  <2>2. CASE ~OpStops(io)
    <3>1. ~Stop(io).stop
      BY <1>a, <2>2 DEF RequestWritten
    <3>2. rd_buf = <<>> /\ wire = Message
      BY <1>a, <3>1, NotStopped DEF RequestWritten, OrderInv, WriteInv
    <3>3. Then(rd_buf, wire) = Message
      BY <3>2, ThenEmpty DEF BuffersOK
    <3>4. op' = "read" /\ HttpReads(rd_buf, Room) /\ rd_buf' = Unparsed(rd_buf)
          /\ UNCHANGED <<session, peer, wire, rd, status, got, told>>
      BY <1>a, <2>2 DEF RequestWritten, flags, net, hist
    <3>5. UNCHANGED <<SentFrames, Message>>
      BY <3>4, SameFrames
    <3>6. ReadsInto(rd_buf)'
      BY <3>3, <3>4, <3>5, HttpReadsFacts DEF ReadsInto, BuffersOK
    <3> QED
      BY <1>4, <3>4, <3>6 DEF WriteInv, ReadInv
  <2> QED
    BY <2>1, <2>2
<1>b. CASE ResponseOverflows
  <2>1. Then(rd_buf, wire) = Message
    BY <1>b DEF ResponseOverflows, OrderInv, ReadInv, ReadsInto
  <2>2. op' = "reread" /\ HttpReads(rd_buf, NoLimit) /\ fb' = Unparsed(rd_buf)
        /\ UNCHANGED <<session, peer, wire, rd, status, got, told>>
    BY <1>b DEF ResponseOverflows, flags, net, hist
  <2>3. UNCHANGED <<SentFrames, Message>>
    BY <2>2, SameFrames
  <2>4. ReadsInto(fb)'
    BY <2>1, <2>2, <2>3, HttpReadsFacts DEF ReadsInto, BuffersOK
  <2> QED
    BY <1>4, <2>2, <2>4 DEF WriteInv, ReadInv
<1>c. CASE ResponseRead
  <2>1. ASSUME NEW e \in {"ok", "err", "overflow"}, OpStops(e) PROVE OrderInv'
    BY <1>1, <2>1, OpStopsOrder
  <2>2. ASSUME ~Stop(io).stop, OnResponse, op = "read", rd_buf' = rd_buf PROVE OrderInv'
    <3>1. Then(rd_buf', wire) = SentFrames
      BY <2>2, NotStopped DEF OrderInv, ReadInv, ReadsInto
    <3> QED
      BY <1>1, <2>2, <3>1, OnResponseOrder
  <2>3. ASSUME io = "ok", OnResponse, op = "reread", rd_buf' = fb PROVE OrderInv'
    <3>1. Then(rd_buf', wire) = SentFrames
      BY <2>3 DEF OrderInv, ReadInv, ReadsInto
    <3> QED
      BY <1>1, <2>3, <3>1, OnResponseOrder
  <2>4. CASE op = "read"
    BY <1>2, <1>c, <2>1, <2>2, <2>4 DEF ResponseRead
  <2>5. CASE op = "reread"
    <3> DEFINE fits == io = "ok" /\ Len(fb) <= Room
               e == IF io = "ok" /\ ~fits THEN "overflow" ELSE io
    <3>1. /\ rd_buf' = IF fits THEN fb ELSE rd_buf
          /\ OpStops(e) \/ (~Stop(e).stop /\ OnResponse)
      BY <1>c, <2>5 DEF ResponseRead, Leftovers
    <3>2. e \in {"ok", "err", "overflow"}
      BY <1>2, <1>c DEF ResponseRead
    <3>3. ~Stop(e).stop => e = "ok"
      BY NotStopped
    <3>4. e = "ok" => fits
      OBVIOUS
    <3> QED
      BY <2>1, <2>3, <2>5, <3>1, <3>2, <3>3, <3>4
  <2> QED
    BY <1>c, <2>4, <2>5 DEF ResponseRead
<1>d. CASE RequestRead
  <2>1. CASE OpStops(io)
    BY <1>1, <1>2, <1>d, <2>1, OpStopsOrder DEF RequestRead
  <2>2. CASE ~OpStops(io)
    <3>1. ~Stop(io).stop /\ op' = "write" /\ role = "server" /\ op = "read"
          /\ UNCHANGED <<role, session, peer, wire, rd, got, told, rd_buf>>
          /\ status' = "handshake"
      BY <1>d, <2>2 DEF RequestRead, net
    <3>2. Then(rd_buf, wire) = SentFrames
      BY <3>1, NotStopped DEF OrderInv, ReadInv, ReadsInto
    <3>3. SentFrames' = SentFrames
      BY <3>1, SameFrames
    <3>4. WriteInv' /\ ReadInv'
      BY <3>1, <3>2, <3>3 DEF WriteInv, ReadInv
    <3> QED
      BY <1>3, <3>1, <3>4 DEF OrderInv, OpenInv, Opened
  <2> QED
    BY <2>1, <2>2
<1>e. CASE ResponseWritten
  <2>1. CASE OpStops(io)
    BY <1>1, <1>2, <1>e, <2>1, OpStopsOrder DEF ResponseWritten
  <2>2. CASE ~OpStops(io)
    <3>1. Then(rd_buf, wire) = SentFrames /\ UNCHANGED <<got, wire, session, peer, rd, rd_buf>>
      BY <1>e, <2>2 DEF ResponseWritten, OrderInv, WriteInv, net
    <3>2. CASE peer.agrees
      BY <1>1, <1>e, <2>2, <3>1, <3>2, OpEnds DEF ResponseWritten, Results
    <3>3. CASE ~peer.agrees
      BY <1>1, <1>3, <1>e, <2>2, <3>1, <3>3, OpEnds DEF ResponseWritten, Results
    <3> QED
      BY <3>2, <3>3
  <2> QED
    BY <2>1, <2>2
<1> QED
  BY <1>a, <1>b, <1>c, <1>d, <1>e DEF OpResumes

\* A new connection: only the pieces the application has read before are there
LEMMA ConnectsOrder ==
  ASSUME TypeOK, CauseInv, BuffersOK', AsyncHandshake \/ AsyncAccept PROVE OrderInv'
<1>0. BuffersOK /\ OpsOK /\ PeerOK
  BY DEF TypeOK
<1>1. PICK p \in Peers : Connects(p)
  BY DEF AsyncHandshake, AsyncAccept
<1>2. p.head \in Nat /\ p.sent = 0 /\ session + 1 \in Nat
  <2>1. p.head \in Nat
    BY PeerTyped
  <2>2. p.sent = 0
    BY DEF Peers
  <2> QED
    BY <1>0, <2>1, <2>2 DEF OpsOK
<1>3. session' = session + 1 /\ peer' = p /\ got' = <<>> /\ status' = "handshake"
      /\ rd' = "idle" /\ role' = role
  BY <1>1 DEF Connects
<1>4. SentFrames' = <<>>
  BY <1>2, <1>3 DEF SentFrames
<1>a. CASE AsyncHandshake
  <2>1. op' = "write" /\ io' = "pending" /\ rd_buf' = <<>> /\ wire' = <<>> /\ told' = <<>>
        /\ role = "client"
    BY <1>a DEF AsyncHandshake, BufferAfterReset
  <2> QED
    BY <1>2, <1>3, <2>1 DEF OrderInv, OpenInv, WriteInv, ReadInv, Opened
<1>b. CASE AsyncAccept
  <2>0. PICK q \in Peers : \E pre \in 0 .. q.head :
          /\ Connects(q)
          /\ \/ op' = "idle" /\ told' = <<[op |-> "open", ec |-> "overflow"]>>
             \/ /\ op' = "read" /\ told' = <<>>
                /\ rd_buf' = IF pre = q.head THEN <<>>
                             ELSE SubSeq(HeadOf(session + 1, q.head), 1, pre)
                /\ pre = q.head <=> io' = "ok"
          /\ wire' = SubSeq(HeadOf(session + 1, q.head), pre + 1, q.head)
    BY <1>b DEF AsyncAccept, BufferAfterReset
  <2>1. q = p
    BY <1>3, <2>0 DEF Connects
  <2> DEFINE h == HeadOf(session + 1, p.head)
  <2>2. h \in Seq(Pieces) /\ Len(h) = p.head
    BY <1>2, HeadTyped
  <2>3. PICK pre \in 0 .. p.head :
          /\ \/ op' = "idle" /\ told' = <<[op |-> "open", ec |-> "overflow"]>>
             \/ /\ op' = "read" /\ told' = <<>>
                /\ rd_buf' = IF pre = p.head THEN <<>> ELSE SubSeq(h, 1, pre)
                /\ pre = p.head <=> io' = "ok"
          /\ wire' = SubSeq(h, pre + 1, p.head)
    BY <2>0, <2>1
  <2>4. Message' = Then(h, SentFrames')
    BY <1>3 DEF Message, HeadOf, Head_, Then
  <2> HIDE DEF h
  <2>5. Message' = h
    BY <1>4, <2>2, <2>4, ThenEmpty
  <2>6. CASE op' = "idle"
    BY <1>3, <2>3, <2>6 DEF OrderInv, OpenInv, WriteInv, ReadInv, Opened
  <2>7. CASE op' = "read"
    <3>1. CASE pre = p.head
      <4>1. wire' = <<>>
        BY <1>2, <2>3, <3>1, SubSeqEmpty
      <4>2. Then(rd_buf', wire') = SentFrames'
        BY <1>4, <2>3, <2>7, <3>1, <4>1, ThenEmpty, EmptySeq
      <4> QED
        BY <1>3, <2>3, <2>7, <3>1, <4>2 DEF OrderInv, OpenInv, WriteInv, ReadInv, ReadsInto, Opened
    <3>2. CASE pre # p.head
      <4>1. rd_buf' = SubSeq(h, 1, pre) /\ wire' = SubSeq(h, pre + 1, Len(h))
        BY <2>2, <2>3, <2>7, <3>2
      <4>2. Then(rd_buf', wire') = Message'
        BY <2>2, <2>5, <4>1, Taken
      <4> QED
        BY <1>3, <2>3, <2>7, <3>2, <4>2 DEF OrderInv, OpenInv, WriteInv, ReadInv, ReadsInto, Opened
    <3> QED
      BY <3>1, <3>2
  <2> QED
    BY <2>3, <2>6, <2>7
<1> QED
  BY <1>a, <1>b

\* Pieces arrive in the buffer of the operation that opens the stream
LEMMA ArriveFacts ==
  ASSUME TypeOK, UNCHANGED <<session, peer>>, NEW b \in Seq(Pieces), NEW c, Arrive(b, c),
         Then(b, wire) = Message
  PROVE  /\ io' = "ok" => Then(c, wire') = SentFrames'
         /\ io' \in {"pending", "overflow"} => Then(c, wire') = Message'
<1>1. UNCHANGED <<SentFrames, Message>>
  BY SameFrames
<1>2. PICK k \in 1 .. Len(wire), r \in Int :
        /\ wire' = SubSeq(wire, k + 1, Len(wire))
        /\ HttpReads(Then(b, SubSeq(wire, 1, k)), r)
        /\ c = Unparsed(Then(b, SubSeq(wire, 1, k)))
  BY DEF Arrive
<1> DEFINE x == SubSeq(wire, 1, k)
           y == SubSeq(wire, k + 1, Len(wire))
<1>3. wire \in Seq(Pieces) /\ k \in 0 .. Len(wire)
  BY DEF TypeOK, BuffersOK
<1>4. x \in Seq(Pieces) /\ y \in Seq(Pieces) /\ Then(x, y) = wire
  BY <1>3, Taken
<1>5. wire' = y /\ HttpReads(Then(b, x), r) /\ c = Unparsed(Then(b, x))
  BY <1>2
<1> HIDE DEF x, y
<1> DEFINE z == Then(b, x)
<1>6. z \in Seq(Pieces) /\ Then(z, y) = Message
  BY <1>4, ThenTyped, ThenAssociative
<1> HIDE DEF z
<1>7. HttpReads(z, r) /\ c = Unparsed(z)
  BY <1>5 DEF z
<1> QED
  BY <1>1, <1>4, <1>5, <1>6, <1>7, HttpReadsFacts DEF TypeOK

LEMMA OrderStep ==
  ASSUME TypeOK, CauseInv, OrderInv, BuffersOK', [Next]_vars PROVE OrderInv'
<1> BuffersOK /\ OpsOK /\ PeerOK
  BY DEF TypeOK
<1>0. op # "idle" => ~Opened /\ rd = "idle" /\ got = <<>> /\ status # "open"
  BY DEF CauseInv, Opened, OrderInv, OpenInv
<1>a. CASE AsyncRead
  <2>1. rd' = "pending" => rd_buf = <<>>
    BY <1>a DEF AsyncRead
  <2>2. rd' = "ok" => rd_buf # <<>>
    BY <1>a DEF AsyncRead
  <2>3. UNCHANGED <<rd_buf, fb, wire, got, role, session, peer, op, io, told, status>>
    BY <1>a DEF AsyncRead, net, hist
  <2> QED
    BY <2>1, <2>2, <2>3, SameFrames, NoPieceMoves DEF Opened
<1>b. CASE ReadResumes
  <2>1. /\ rd' = "idle" /\ op = "idle" /\ op' = "idle" /\ Opened
        /\ UNCHANGED <<wire, session, peer>>
    BY <1>b DEF ReadResumes, CauseInv, net
  <2>2. told' # <<>> /\ told'[1] = told[1]
    <3>1. told # <<>> /\ \E r : told' = Append(told, r)
      BY <1>b, <2>1 DEF ReadResumes, Tell, Opened
    <3>2. Len(told) \in Nat \ {0}
      BY <3>1, EmptySeq DEF TypeOK, ToldOK
    <3> QED
      BY <3>1, <3>2 DEF TypeOK, ToldOK
  <2>3. SentFrames' = SentFrames
    BY <2>1, SameFrames
  <2>4. Then(got', rd_buf') = Then(got, rd_buf)
    <3>1. CASE UNCHANGED <<got, rd_buf>>
      BY <3>1
    <3>2. CASE rd # "closed" /\ ~Stop(rd).stop
      <4>1. rd_buf # <<>>
        BY <3>2, NotStopped DEF OrderInv, OpenInv
      <4> QED
        BY <1>b, <3>2, <4>1, HeadTaken DEF ReadResumes, BuffersOK
    <3> QED
      BY <1>b, <3>1, <3>2 DEF ReadResumes
  <2>5. OpenInv'
    BY <2>1, <2>2, <2>3, <2>4 DEF OrderInv, OpenInv, Opened
  <2> QED
    BY <2>1, <2>5 DEF OrderInv, WriteInv, ReadInv
<1>c. CASE TimerExpires \/ timeout_handler \/ IoFails \/ PeerCloses \/ UNCHANGED vars
  <2>1. UNCHANGED <<rd_buf, fb, wire, got, role, session, op, told>>
    BY <1>c DEF TimerExpires, timeout_handler, IoFails, PeerCloses, vars, ops, net, hist
  <2>2. peer'.sent = peer.sent /\ peer'.head = peer.head
    BY <1>c DEF TimerExpires, timeout_handler, IoFails, PeerCloses, vars, net, PeerOK
  <2>3. status' = status \/ status' = "closed"
    BY <1>c DEF TimerExpires, timeout_handler, TimesOut, IoFails, PeerCloses, vars, flags
  <2>4. io' \in {io, "err"} /\ rd' \in {rd, "err"}
    BY <1>c DEF TimerExpires, timeout_handler, TimesOut, IoFails, PeerCloses, vars, ops
  <2>5. UNCHANGED <<SentFrames, Message>>
    BY <2>1, <2>2 DEF SentFrames, Message, HeadOf, Head_, Frame, Then
  <2>6. rd' = "pending" => rd_buf = <<>>
    BY <2>4 DEF OrderInv, OpenInv
  <2>7. rd' = "ok" => rd_buf # <<>>
    BY <2>4 DEF OrderInv, OpenInv
  <2> QED
    BY <2>1, <2>2, <2>3, <2>4, <2>5, <2>6, <2>7, NoPieceMoves DEF Opened
<1>d. CASE Writes
  <2>1. op = "write" /\ io = "pending" /\ io' = "ok"
        /\ UNCHANGED <<role, session, peer, op, rd, rd_buf, fb, got, told, status>>
    BY <1>d DEF Writes, flags, hist
  <2>2. UNCHANGED <<SentFrames, Message>>
    BY <2>1, SameFrames
  <2>3. OpenInv' /\ ReadInv'
    BY <1>0, <2>1 DEF OrderInv, OpenInv, ReadInv, Opened
  <2>4. CASE role = "client"
    <3>1. wire' = HeadOf(session, peer.head) /\ rd_buf = <<>> /\ peer.sent = 0
      BY <1>d, <2>1, <2>4 DEF Writes, OrderInv, WriteInv
    <3>2. SentFrames = <<>>
      BY <3>1 DEF SentFrames
    <3>3. Message = HeadOf(session, peer.head)
      BY <3>2, HeadTyped, ThenEmpty DEF Message, OpsOK, PeerOK
    <3> QED
      BY <2>1, <2>2, <2>3, <2>4, <3>1, <3>3 DEF OrderInv, WriteInv
  <2>5. CASE role # "client"
    BY <1>d, <2>1, <2>2, <2>3, <2>5 DEF Writes, OrderInv, WriteInv
  <2> QED
    BY <2>4, <2>5
<1>e. CASE OpReads
  <2>1. op \in {"read", "reread"} /\ io = "pending"
        /\ UNCHANGED <<role, session, peer, op, rd, got, told, status>>
    BY <1>e DEF OpReads, flags, hist
  <2>2. OpenInv' /\ WriteInv'
    BY <1>0, <2>1 DEF OrderInv, OpenInv, WriteInv, Opened
  <2>3. CASE op = "read"
    <3>1. Arrive(rd_buf, rd_buf') /\ Then(rd_buf, wire) = Message
      BY <1>e, <2>1, <2>3, OpReadsFacts DEF OrderInv, ReadInv, ReadsInto
    <3> QED
      BY <2>1, <2>2, <2>3, <3>1, ArriveFacts DEF OrderInv, ReadInv, ReadsInto, BuffersOK
  <2>4. CASE op = "reread"
    <3>1. Arrive(fb, fb') /\ Then(fb, wire) = Message
      BY <1>e, <2>1, <2>4, OpReadsFacts DEF OrderInv, ReadInv, ReadsInto
    <3> QED
      BY <2>1, <2>2, <2>4, <3>1, ArriveFacts DEF OrderInv, ReadInv, ReadsInto, BuffersOK
  <2> QED
    BY <2>1, <2>3, <2>4
<1>f. CASE Reads
  <2>1. PICK k \in 1 .. Len(wire) :
          rd_buf' = SubSeq(wire, 1, k) /\ wire' = SubSeq(wire, k + 1, Len(wire))
    BY <1>f, ReadsFacts
  <2>2. rd_buf' # <<>> /\ Then(rd_buf', wire') = wire /\ wire \in Seq(Pieces)
    <3>1. k \in 0 .. Len(wire) /\ k # 0
      OBVIOUS
    <3> QED
      BY <2>1, <3>1, Taken DEF BuffersOK
  <2>3. /\ rd = "pending" /\ rd' = "ok" /\ op = "idle"
        /\ UNCHANGED <<session, peer, op, got, told, status>>
    BY <1>f DEF Reads, CauseInv, flags, hist
  <2>4. SentFrames' = SentFrames
    BY <2>3, SameFrames
  <2>5. Then(Then(got, rd_buf), wire) = Then(Then(got, rd_buf'), wire')
    <3>1. Then(got, rd_buf) = got
      BY <2>3, ThenEmpty DEF OrderInv, OpenInv, BuffersOK
    <3>2. Then(Then(got, rd_buf'), wire') = Then(got, Then(rd_buf', wire'))
      BY ThenAssociative DEF BuffersOK
    <3> QED
      BY <2>2, <3>1, <3>2
  <2>6. OpenInv'
    BY <2>2, <2>3, <2>4, <2>5 DEF OrderInv, OpenInv, Opened
  <2> QED
    BY <2>3, <2>6 DEF OrderInv, WriteInv, ReadInv
<1>g. CASE PeerSends
  <2> DEFINE p == Frame(session, peer.sent + 1)
  <2>1. /\ UNCHANGED <<role, session, rd_buf, fb, op, io, rd, got, told, status>>
        /\ wire' = Append(wire, p)
        /\ peer'.sent = peer.sent + 1 /\ peer'.head = peer.head
    BY <1>g DEF PeerSends, flags, ops, hist, PeerOK
  <2>2. p \in Pieces
    BY DEF Frame, Pieces, OpsOK, PeerOK
  <2>3. SentFrames' = Append(SentFrames, p) /\ Message' = Append(Message, p)
    BY <2>1, FrameSent
  <2> HIDE DEF p
  <2>4. ASSUME NEW b \in Seq(Pieces) PROVE Then(b, wire') = Append(Then(b, wire), p)
    BY <2>1, <2>2, ThenAppend DEF BuffersOK
  <2>5. OpenInv'
    <3>1. Then(Then(got, rd_buf), wire') = Append(Then(Then(got, rd_buf), wire), p)
      BY <2>4, ThenTyped DEF BuffersOK
    <3> QED
      BY <2>1, <2>3, <3>1 DEF OrderInv, OpenInv, Opened
  <2>6. WriteInv'
    <3>1. op = "write" /\ role = "client" => io = "ok"
      BY <1>g DEF PeerSends
    <3> QED
      BY <2>1, <2>3, <2>4, <3>1 DEF OrderInv, WriteInv, BuffersOK
  <2>7. ReadInv'
    BY <2>1, <2>3, <2>4 DEF OrderInv, ReadInv, ReadsInto, BuffersOK
  <2> QED
    BY <2>5, <2>6, <2>7 DEF OrderInv
<1> QED
  BY <1>a, <1>b, <1>c, <1>d, <1>e, <1>f, <1>g, OpResumesOrder, ConnectsOrder DEF Next

-----------------------------------------------------------------------------
Inv == TypeOK /\ CauseInv /\ OrderInv

LEMMA InitInv == Init => Inv
<1> SUFFICES ASSUME Init PROVE OrderInv
  BY InitTyped, InitCause DEF Inv
<1> QED
  BY DEF Init, OrderInv, OpenInv, WriteInv, ReadInv, Opened

LEMMA StepInv == Inv /\ [Next]_vars => Inv'
<1> SUFFICES ASSUME Inv, [Next]_vars PROVE Inv'
  OBVIOUS
<1>1. TypeOK /\ CauseInv /\ OrderInv /\ OpenInv
  BY DEF Inv, OrderInv
<1>2. TypeOK'
  BY <1>1, FlagsStep, TimerStep, OpsStep, PeerStep, ToldStep, BuffersStep DEF TypeOK
<1> QED
  BY <1>1, <1>2, CauseStep, OrderStep DEF Inv, TypeOK

\* The state of a session has the types its variables are declared with.
THEOREM SessionTypes == Spec => []TypeOK
<1> QED
  BY InitInv, StepInv, PTL DEF Spec, Inv

\* Somebody is told why a session ended: an operation is told operation_aborted by
\* check_stop_now only if a timeout or an error told before is the cause.
THEOREM CauseIsTold == Spec => []CauseTold
<1>1. Inv => CauseTold
  BY DEF Inv, CauseInv
<1> QED
  BY <1>1, InitInv, StepInv, PTL DEF Spec

\* The frames of every session are read in the order in which the peer has sent
\* them, none of them twice and none left out, whatever part of them came with the
\* HTTP message, in rd_buf or in the buffer of its own.
THEOREM FramesAreInOrder == Spec => []FramesInOrder
<1>1. Inv => FramesInOrder
  <2> SUFFICES ASSUME Inv, status = "open"
               PROVE  got \o rd_buf \o wire = [i \in 1 .. peer.sent |-> Frame(session, i)]
    BY DEF FramesInOrder
  <2>1. Then(Then(got, rd_buf), wire) = SentFrames
    BY DEF Inv, OrderInv, OpenInv
  <2> QED
    BY <2>1 DEF Then, SentFrames
<1> QED
  BY <1>1, InitInv, StepInv, PTL DEF Spec

\* What opens a session in a step
LEMMA OpeningStep ==
  ASSUME Inv, Next, told' # told, Opened'
  PROVE  peer.agrees /\ (told = <<>> => sock /\ status' = "open")
<1>1. TypeOK /\ CauseInv
  BY DEF Inv
<1>2. ASSUME NEW e \in Results, Upcall(e), op # "idle"
      PROVE  told = <<>> /\ e = "ok" /\ (~timed_out => sock)
  <2>1. told = <<>> /\ told' = Append(told, [op |-> "open", ec |-> e])
    BY <1>1, <1>2 DEF Upcall, Tell, CauseInv
  <2>2. told' = <<[op |-> "open", ec |-> e]>>
    BY <2>1
  <2> QED
    BY <1>1, <1>2, <2>1, <2>2 DEF Opened, CauseInv, Running
<1>3. ASSUME NEW e \in {"ok", "err", "overflow"}, OpStops(e), op # "idle" PROVE FALSE
  <2>1. Stop(e).ec \in Results \ {"ok"}
    BY <1>3, Stopped DEF OpStops, Results
  <2> QED
    BY <1>2, <1>3, <2>1 DEF OpStops
<1>4. Ready => io \in {"ok", "err", "overflow"}
  BY <1>1 DEF Ready, TypeOK, OpsOK
<1>5. ASSUME OnResponse, ~timed_out, op # "idle" PROVE peer.agrees /\ sock /\ status' = "open"
  <2>1. "declined" \in Results /\ "ok" \in Results
    BY DEF Results
  <2> QED
    BY <1>2, <1>5, <2>1 DEF OnResponse, Opens
<1>a. CASE AsyncHandshake \/ AsyncAccept
  BY <1>a DEF AsyncHandshake, AsyncAccept, Opened
<1>b. CASE RequestWritten
  BY <1>3, <1>4, <1>b DEF RequestWritten, hist
<1>c. CASE ResponseOverflows
  BY <1>c DEF ResponseOverflows, hist
<1>d. CASE ResponseRead
  <2>1. PICK e \in {"ok", "err", "overflow"} : OpStops(e) \/ (~Stop(e).stop /\ OnResponse)
    BY <1>4, <1>d DEF ResponseRead
  <2>2. op # "idle"
    BY <1>d DEF ResponseRead
  <2> QED
    BY <1>3, <1>5, <2>1, <2>2, NotStopped
<1>e. CASE RequestRead
  BY <1>3, <1>4, <1>e DEF RequestRead
<1>f. CASE ResponseWritten
  <2>1. ~Stop(io).stop /\ op # "idle"
    BY <1>3, <1>4, <1>f DEF ResponseWritten
  <2>2. "declined" \in Results /\ "ok" \in Results
    BY DEF Results
  <2> QED
    BY <1>2, <1>3, <1>4, <1>f, <2>1, <2>2, NotStopped DEF ResponseWritten, Opens
<1>g. CASE ReadResumes
  BY <1>1, <1>g DEF ReadResumes, CauseInv, Opened
<1>h. CASE AsyncRead \/ TimerExpires \/ timeout_handler \/ Writes \/ OpReads \/ Reads
  BY <1>h DEF AsyncRead, TimerExpires, timeout_handler, Writes, OpReads, Reads, hist
<1>i. CASE IoFails \/ PeerSends \/ PeerCloses
  BY <1>i DEF IoFails, PeerSends, PeerCloses, hist
<1> QED
  BY <1>a, <1>b, <1>c, <1>d, <1>e, <1>f, <1>g, <1>h, <1>i DEF Next, OpResumes

\* A stream is reported open only if the peer has agreed and the connection has not
\* been closed by the time limit, whichever of the two came first.
THEOREM OpenMeansOpen == Spec => OpenedForReal
<1>1. Inv /\ [Next]_vars
        => [(told' # told /\ Opened')
              => (peer.agrees /\ (told = <<>> => sock /\ status' = "open"))]_vars
  BY OpeningStep
<1> QED
  BY <1>1, InitInv, StepInv, PTL DEF Spec, OpenedForReal
=============================================================================
