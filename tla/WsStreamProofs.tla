--------------------------- MODULE WsStreamProofs ---------------------------
(* The two soft mutexes of a websocket::stream, for any number of calls, frames
   and messages and any options: no operation runs inside a block it does not
   own, none forgets to release one, none is left parked on a free block, the
   socket never sees two writers, and both blocks implement the lock with
   hand-off.

   Every step moves one operation o.  On the way it may take a free block, hand
   the write block to a parked operation n and the read block to a parked
   operation q: Steps(o, n, q).  Where an operation stands decides which blocks
   it owns: Placed(o).  That is the inductive invariant.

   Behind it, the type invariant, which is inductive together with it.

   The second half is about the flags of the closing handshake and what the
   application is told.                                                        *)
EXTENDS WsStream, TLAPS

PcOK == pc \in [Ops -> Labels] /\ \A o \in Ops : pc[o] \in Pcs[o]
BlockOK == rd_block \in {None, "rd", "close"} /\ wr_block \in Ops \cup {None}

\* An idle ping is under way only while idle_pinging says so: timeout_handler
\* starts no second one
PingOK == pc["idle_ping"] # "idle" => idle_pinging

\* What the label of operation o says of the two blocks
Placed(o) ==
  /\ InWrite(o) => wr_block = o
  /\ InRead(o) => rd_block = o
  /\ wr_block = o => InWrite(o) \/ pc[o] = "upcall"
  /\ rd_block = o => InRead(o) \/ pc[o] \in {"td", "upcall"}
  /\ WaitsWr(o) => wr_block \in Ops \ {o}
  /\ pc[o] = "r_susp" => rd_block \in {"rd", "close"} \ {o}
LockInv == PcOK /\ BlockOK /\ PingOK /\ \A o \in Ops : Placed(o)

\* Operation o moves; n is given the write block and q the read block, if any
Steps(o, n, q) ==
  /\ pc' \in [Ops -> Labels] /\ pc'[o] \in Pcs[o] /\ ~WaitsWr(o) /\ pc[o] # "r_susp"
  /\ \A x \in Ops \ {o} : pc'[x] = IF x = n THEN PostOf[pc[x]]
                                   ELSE IF x = q THEN "r_post" ELSE pc[x]
  /\ \/ n = None /\ (wr_block' = wr_block \/ (wr_block = None /\ wr_block' = o))
     \/ /\ wr_block = o /\ wr_block' = n
        /\ \/ n \in Ops /\ WaitsWr(n)
           \/ n = None /\ \A x \in Ops : ~WaitsWr(x)
  /\ \/ q = None /\ (rd_block' = rd_block \/ (rd_block = None /\ rd_block' = o))
     \/ /\ rd_block = o /\ rd_block' = q
        /\ \/ q \in {"rd", "close"} /\ pc[q] = "r_susp"
           \/ q = None /\ \A x \in {"rd", "close"} : pc[x] # "r_susp"
  /\ Placed(o)' /\ PingOK' /\ BlockOK'

\* Operation o moves and wakes nobody
Lone(o) ==
  /\ pc' = [pc EXCEPT ![o] = pc'[o]] /\ pc'[o] \in Pcs[o]
  /\ ~WaitsWr(o) /\ pc[o] # "r_susp"
  /\ wr_block' = wr_block \/ (wr_block = None /\ wr_block' = o)
  /\ \/ rd_block' = rd_block
     \/ rd_block = None /\ rd_block' = o /\ o \in {"rd", "close"}
  /\ idle_pinging' = idle_pinging /\ (o = "idle_ping" => pc[o] # "idle")
  /\ Placed(o)'

\* Nothing moves
Quiet == UNCHANGED <<pc, rd_block, wr_block>> /\ PingOK'

----------------------------------------------------------------------------
(* The three kinds of steps keep the invariant *)

\* An operation that does not move keeps its place while the blocks change hands
\* between others
LEMMA Stays ==
  ASSUME NEW x \in Ops, Placed(x), pc'[x] = pc[x],
         \/ wr_block' = wr_block
         \/ x \notin {wr_block, wr_block'} /\ (WaitsWr(x) => wr_block' \in Ops),
         \/ rd_block' = rd_block
         \/ /\ x \notin {rd_block, rd_block'}
            /\ pc[x] = "r_susp" => rd_block' \in {"rd", "close"}
  PROVE  Placed(x)'
  BY DEF Placed, InWrite, InRead, WaitsWr

\* A woken operation resumes at the post that follows its saved handler
LEMMA PostLabel ==
  ASSUME NEW n \in Ops, PcOK, WaitsWr(n)
  PROVE  /\ PostOf[pc[n]] \in Pcs[n]
         /\ \/ pc[n] = "susp" /\ n # "rd" /\ PostOf[pc[n]] = "post"
            \/ pc[n] = "pong_susp" /\ n = "rd" /\ PostOf[pc[n]] = "pong_post"
            \/ pc[n] = "cl_susp" /\ n = "rd" /\ PostOf[pc[n]] = "cl_post"
<1>1. /\ pc[n] = "susp" => n # "rd"
      /\ pc[n] \in {"pong_susp", "cl_susp"} => n = "rd"
  BY DEF PcOK, Pcs, SimplePcs, Ops
<1>2. CASE pc[n] = "susp"
  <2>1. PostOf[pc[n]] = "post"
    BY <1>2 DEF PostOf
  <2> QED
    BY <1>1, <1>2, <2>1 DEF Pcs, SimplePcs, Ops
<1>3. CASE pc[n] = "pong_susp"
  <2>1. PostOf[pc[n]] = "pong_post"
    BY <1>3 DEF PostOf
  <2> QED
    BY <1>1, <1>3, <2>1 DEF Pcs
<1>4. CASE pc[n] = "cl_susp"
  <2>1. PostOf[pc[n]] = "cl_post"
    BY <1>4 DEF PostOf
  <2> QED
    BY <1>1, <1>4, <2>1 DEF Pcs
<1> QED
  BY <1>2, <1>3, <1>4 DEF WaitsWr

\* A step that hands over keeps the invariant
LEMMA StepsKeepLocks ==
  ASSUME LockInv, NEW o \in Ops, NEW n \in Ops \cup {None},
         NEW q \in {None, "rd", "close"}, Steps(o, n, q)
  PROVE  LockInv'
<1>1. n # None => /\ n \in Ops /\ n # o /\ WaitsWr(n)
                  /\ wr_block = o /\ wr_block' = n
  BY DEF Steps
<1>2. q # None => /\ q \in Ops /\ q # o /\ q # n /\ pc[q] = "r_susp"
                  /\ rd_block = o /\ rd_block' = q
  BY DEF Steps, Ops, None, WaitsWr
<1>3. ASSUME NEW x \in Ops PROVE Placed(x)' /\ pc'[x] \in Pcs[x]
  <2>1. CASE x = o
    BY <2>1 DEF Steps
  <2>2. CASE x = n
    <3>1. x # o /\ x # None /\ WaitsWr(x) /\ wr_block' = x /\ Placed(x)
      BY <1>1, <2>2 DEF LockInv, Ops, None
    <3>2. pc'[x] = PostOf[pc[x]]
      BY <3>1, <2>2 DEF Steps
    <3>3. rd_block' = rd_block \/ x \notin {rd_block, rd_block'}
      BY <3>1, <1>2, <2>2 DEF Steps
    <3> QED
      BY <3>1, <3>2, <3>3, PostLabel
         DEF LockInv, Placed, InWrite, InRead, WaitsWr, Ops
  <2>3. CASE x = q /\ x # n
    <3>1. /\ x # o /\ Placed(x) /\ rd_block' = x
          /\ pc[x] = "r_susp" /\ pc'[x] = "r_post"
      BY <1>2, <2>3 DEF LockInv, Ops, None, Steps
    <3>2. wr_block' = wr_block \/ x \notin {wr_block, wr_block'}
      BY <3>1, <1>1, <2>3 DEF Steps
    <3> QED
      BY <3>1, <3>2, <2>3
         DEF LockInv, Placed, InWrite, InRead, WaitsWr, Ops, Pcs, None,
             SimplePcs
  <2>4. CASE x \notin {o, n, q}
    <3>1. pc'[x] = pc[x] /\ Placed(x) /\ x # None /\ pc[x] \in Pcs[x]
      BY <2>4 DEF LockInv, PcOK, Steps, Ops, None
    <3>2. WaitsWr(x) => wr_block # None
      BY <3>1 DEF Placed, Ops, None
    <3>3. pc[x] = "r_susp" => rd_block # None /\ x \in {"rd", "close"}
      BY <3>1 DEF Placed, None, Ops, Pcs, SimplePcs
    <3>4. \/ wr_block' = wr_block
          \/ x \notin {wr_block, wr_block'} /\ (WaitsWr(x) => wr_block' \in Ops)
      BY <3>1, <3>2, <2>4 DEF Steps
    <3>5. \/ rd_block' = rd_block
          \/ /\ x \notin {rd_block, rd_block'}
             /\ pc[x] = "r_susp" => rd_block' \in {"rd", "close"}
      BY <3>1, <3>3, <2>4 DEF Steps, BlockOK, LockInv
    <3> QED
      BY <3>1, <3>4, <3>5, Stays
  <2> QED
    BY <2>1, <2>2, <2>3, <2>4
<1> QED
  BY <1>3 DEF LockInv, PcOK, Steps

\* A step that wakes nobody hands over nothing
LEMMA LoneSteps ==
  ASSUME LockInv, NEW o \in Ops, Lone(o)
  PROVE  Steps(o, None, None)
<1>1. pc' \in [Ops -> Labels] /\ \A x \in Ops \ {o} : pc'[x] = pc[x]
  BY DEF LockInv, PcOK, Labels, Lone
<1>2. PingOK'
  BY <1>1 DEF LockInv, PingOK, Lone, Ops
<1>3. None \notin Ops
  BY DEF None, Ops
<1> QED
  BY <1>1, <1>2, <1>3 DEF LockInv, BlockOK, Lone, Steps

\* A step of the environment moves nobody
LEMMA QuietKeepsLocks == ASSUME LockInv, Quiet PROVE LockInv'
<1>1. \A x \in Ops : Placed(x)'
  BY Stays DEF LockInv, Quiet
<1> QED
  BY <1>1 DEF LockInv, Quiet, PcOK, BlockOK

----------------------------------------------------------------------------
(* Who gets the write block: all that maybe_invoke() chains are needed for *)

\* The chain of maybe_invoke() calls of a holder wakes somebody if anybody waits
LEMMA NextWriterIs ==
  ASSUME NEW o \in Ops, NEW n \in Ops \cup {None}, NextWriter(o, n), ~WaitsWr(o)
  PROVE  \/ n \in Ops /\ WaitsWr(n)
         \/ n = None /\ \A x \in Ops : ~WaitsWr(x)
  BY DEF NextWriter, FirstWaiter, WakeOrder, Ops, None

\* A free block belongs to no operation
LEMMA NoneIsNoOp == None \notin Ops
  BY DEF None, Ops

\* Invoking a saved handler moves the operation in it, and no other
LEMMA PcWokenIs ==
  ASSUME PcOK, NEW n \in Ops \cup {None}, n = None \/ WaitsWr(n)
  PROVE  /\ PcWoken(n) \in [Ops -> Labels]
         /\ \A x \in Ops : PcWoken(n)[x] = IF x = n THEN PostOf[pc[x]] ELSE pc[x]
<1>1. None \notin Ops
  BY DEF Ops, None
<1>2. ASSUME NEW x \in Ops
      PROVE  (IF x = n THEN PostOf[pc[x]] ELSE pc[x]) \in Labels
  BY <1>1, PostLabel DEF PcOK, Labels
<1> QED
  BY <1>2 DEF PcWoken, Woken

\* ... nor does it start an idle ping
LEMMA PingWoken ==
  ASSUME LockInv, NEW n \in Ops \cup {None}, n = None \/ WaitsWr(n)
  PROVE  PcWoken(n)["idle_ping"] # "idle" => pc["idle_ping"] # "idle"
<1>1. "idle_ping" \in Ops /\ "idle_ping" # None
  BY DEF Ops, None
<1>2. CASE n = "idle_ping"
  BY <1>1, <1>2 DEF WaitsWr
<1>3. CASE n # "idle_ping"
  BY <1>1, <1>3, PcWokenIs DEF LockInv
<1> QED
  BY <1>2, <1>3

\* An operation that unlocks and completes, or goes on, hands over what it held
LEMMA HandsOver ==
  ASSUME LockInv, NEW o \in Ops, NEW n \in Ops \cup {None},
         NEW q \in {None, "rd", "close"}, NEW l \in Pcs[o],
         pc' = [(IF q = None THEN PcWoken(n)
                 ELSE [PcWoken(n) EXCEPT ![q] = "r_post"]) EXCEPT ![o] = l],
         ~WaitsWr(o), pc[o] # "r_susp",
         \/ wr_block = o /\ wr_block' = n /\ NextWriter(o, n)
         \/ n = None /\ wr_block' = wr_block,
         \/ rd_block = o /\ rd_block' = q /\ q # None /\ pc[q] = "r_susp"
         \/ /\ rd_block = o /\ rd_block' = None /\ q = None
            /\ \A x \in {"rd", "close"} : pc[x] # "r_susp"
         \/ q = None /\ rd_block' = rd_block,
         Placed(o)', PingOK'
  PROVE  Steps(o, n, q)
<1>1. \/ n = None /\ wr_block' = wr_block
      \/ /\ wr_block = o /\ wr_block' = n
         /\ \/ n \in Ops /\ WaitsWr(n)
            \/ n = None /\ \A x \in Ops : ~WaitsWr(x)
  BY NextWriterIs
<1>2. /\ PcWoken(n) \in [Ops -> Labels]
      /\ \A x \in Ops : PcWoken(n)[x] = IF x = n THEN PostOf[pc[x]] ELSE pc[x]
  BY <1>1, PcWokenIs DEF LockInv
<1>3. l \in Labels /\ "r_post" \in Labels
  BY DEF Labels, Pcs, Ops
<1>4. q \notin {n, o} \/ q = None
  BY <1>1 DEF WaitsWr, None
<1>5. /\ pc' \in [Ops -> Labels] /\ pc'[o] = l
      /\ \A x \in Ops \ {o} : pc'[x] = IF x = n THEN PostOf[pc[x]]
                                       ELSE IF x = q THEN "r_post" ELSE pc[x]
  <2>1. CASE q = None
    BY <1>2, <1>3, <2>1, NoneIsNoOp
  <2>2. CASE q # None
    BY <1>2, <1>3, <1>4, <2>2, NoneIsNoOp
  <2> QED
    BY <2>1, <2>2
<1>6. BlockOK'
  BY <1>1 DEF LockInv, BlockOK, None
<1>7. pc'[o] \in Pcs[o]
  BY <1>5
<1>8. \/ q = None /\ (rd_block' = rd_block \/ (rd_block = None /\ rd_block' = o))
      \/ /\ rd_block = o /\ rd_block' = q
         /\ \/ q \in {"rd", "close"} /\ pc[q] = "r_susp"
            \/ q = None /\ \A x \in {"rd", "close"} : pc[x] # "r_susp"
  OBVIOUS
<1> QED
  BY <1>1, <1>5, <1>6, <1>7, <1>8 DEF Steps

----------------------------------------------------------------------------
(* write_some_op, ping_op, idle_ping_op *)

\* The three operations that only write are alike in what they hold, and where
LEMMA SimpleFacts ==
  ASSUME NEW o \in Simple
  PROVE  /\ o \in Ops /\ o \notin {"rd", "close", None} /\ Pcs[o] = SimplePcs
         /\ InWrite(o) <=> pc[o] \in {"post", "write", "upcall"}
         /\ ~InRead(o)
         /\ InWrite(o)' <=> pc'[o] \in {"post", "write", "upcall"}
         /\ ~InRead(o)'
  BY DEF Simple, Ops, Pcs, None, InWrite, InRead

\* Until they complete they wake nobody
LEMMA SimpleLone ==
  ASSUME LockInv, NEW o \in Simple, SimpleBegin(o) \/ SimplePosted(o) \/ PingSent(o)
  PROVE  Lone(o)
<1> USE SimpleFacts DEF Lone, LockInv, PcOK, BlockOK, SimplePcs, Placed, WaitsWr
<1>1. CASE SimpleBegin(o)
  BY <1>1
     DEF SimpleBegin, SimpleLocked, Goto, GotoFrom, Park, StartIo, YieldFrom,
         timer
<1>2. CASE SimplePosted(o)
  <2>1. /\ UNCHANGED <<wr_block, rd_block, idle_pinging>> /\ pc[o] = "post"
        /\ \E l \in {"write", "upcall"} : pc' = [pc EXCEPT ![o] = l]
    BY <1>2
       DEF SimplePosted, SimpleLocked, Goto, GotoFrom, StartIo, YieldFrom,
           locks, timer
  <2> QED
    BY <2>1
<1>3. CASE PingSent(o)
  BY <1>3 DEF PingSent, Goto, GotoFrom, locks, timer
<1> QED
  BY <1>1, <1>2, <1>3

\* When they complete they hand the write block over
LEMMA SimpleUpcallSteps ==
  ASSUME LockInv, NEW o \in Simple, SimpleUpcall(o)
  PROVE  \E n \in Ops \cup {None} : Steps(o, n, None)
<1>1. PICK n \in Ops \cup {None} :
        /\ NextWriter(o, n) /\ wr_block' = n
        /\ YieldFrom(PcWoken(n), IoWoken(n), o, "idle", "none")
  BY DEF SimpleUpcall
<1>2. /\ pc[o] = "upcall" /\ wr_block = o /\ rd_block' = rd_block
      /\ idle_pinging' = (idle_pinging /\ o # "idle_ping")
  BY SimpleFacts DEF SimpleUpcall, LockInv, Placed
<1>3. "idle" \in Pcs[o] /\ o \in Ops /\ ~WaitsWr(o) /\ pc[o] # "r_susp"
  BY <1>2, SimpleFacts DEF SimplePcs, WaitsWr
<1>4. pc' = [PcWoken(n) EXCEPT ![o] = "idle"]
  BY <1>1 DEF YieldFrom
<1>5. n = None \/ WaitsWr(n)
  BY <1>1, <1>3, NextWriterIs
<1>6. pc'[o] = "idle" /\ (o # "idle_ping" =>
        (pc'["idle_ping"] # "idle" => pc["idle_ping"] # "idle"))
  <2>1. pc' \in [Ops -> Labels] /\ pc'[o] = "idle"
        /\ (o # "idle_ping" => pc'["idle_ping"] = PcWoken(n)["idle_ping"])
    BY <1>3, <1>4, <1>5, PcWokenIs DEF LockInv, Labels, Ops
  <2> QED
    BY <1>5, <2>1, PingWoken
<1>7. PingOK'
  BY <1>2, <1>6 DEF PingOK, LockInv
<1>8. Placed(o)'
  BY <1>1, <1>2, <1>5, <1>6, SimpleFacts DEF LockInv, BlockOK, Placed, WaitsWr
<1>9. Steps(o, n, None)
  BY <1>1, <1>2, <1>3, <1>4, <1>7, <1>8, HandsOver
<1> QED
  BY <1>9

\* Between two frames of a message a write steps aside for whoever is parked
LEMMA FrameSentSteps ==
  ASSUME LockInv, FrameSent
  PROVE  Lone("wr") \/ \E n \in Ops : Steps("wr", n, None)
<1>1. /\ pc["wr"] = "write" /\ wr_block = "wr" /\ rd_block' = rd_block
      /\ idle_pinging' = idle_pinging
  BY DEF FrameSent, timer, LockInv, Placed, InWrite, Ops
<1>2. CASE /\ wr_block' = wr_block
           /\ \E l \in {"upcall", "write"} : pc' = [pc EXCEPT !["wr"] = l]
  BY <1>1, <1>2 DEF Lone, LockInv, PcOK, BlockOK, Pcs, SimplePcs, Placed, InWrite,
                    InRead, WaitsWr, Ops
<1>3. CASE \E n \in Ops : /\ NextWriter("wr", n) /\ wr_block' = n
                          /\ pc' = [PcWoken(n) EXCEPT !["wr"] = "susp"]
  <2>1. PICK n \in Ops : /\ NextWriter("wr", n) /\ wr_block' = n
                         /\ pc' = [PcWoken(n) EXCEPT !["wr"] = "susp"]
    BY <1>3
  <2>2. WaitsWr(n) /\ n # "wr" /\ n # None
    BY <1>1, <2>1, NextWriterIs, NoneIsNoOp DEF WaitsWr, Ops
  <2>3. pc'["wr"] = "susp" /\ (pc'["idle_ping"] # "idle" => pc["idle_ping"] # "idle")
    BY <2>1, <2>2, PcWokenIs, PingWoken DEF LockInv, Ops
  <2>4. PingOK'
    BY <1>1, <2>3 DEF PingOK, LockInv
  <2>5. Placed("wr")'
    BY <1>1, <2>1, <2>2, <2>3
       DEF LockInv, BlockOK, Placed, InWrite, InRead, WaitsWr, Ops
  <2>6. "susp" \in Pcs["wr"] /\ "wr" \in Ops /\ ~WaitsWr("wr")
    BY <1>1 DEF Pcs, SimplePcs, Ops, WaitsWr
  <2>7. Steps("wr", n, None)
    BY <1>1, <2>1, <2>4, <2>5, <2>6, HandsOver
  <2> QED
    BY <2>7
<1> QED
  BY <1>2, <1>3 DEF FrameSent, Goto, GotoFrom, StartIo, YieldFrom

----------------------------------------------------------------------------
(* close_op *)

\* close_op keeps both blocks until it completes
LEMMA CloseLone ==
  ASSUME LockInv,
         \/ CloseBegin \/ ClosePosted \/ CloseSent \/ CloseGotReadBlock
         \/ CloseDrain \/ CloseReceived \/ TornDown("close")
  PROVE  Lone("close")
<1> USE DEF Lone, LockInv, PcOK, BlockOK, Pcs, SimplePcs, Placed, InWrite, InRead,
            WaitsWr, Ops, None
<1>1. CASE CloseBegin
  BY <1>1
     DEF GotoFrom, Goto, timer, UpdateTimer, YieldFrom, StartIo, CloseLocked,
         Park, CloseBegin
<1>2. CASE ClosePosted
  BY <1>2
     DEF Resumed, GotoFrom, Goto, timer, UpdateTimer, YieldFrom, StartIo,
         CloseLocked, locks, ClosePosted
<1>3. CASE CloseSent
  BY <1>3 DEF Resumed, GotoFrom, Goto, YieldFrom, StartIo, Park, timer, CloseSent
<1>4. CASE CloseGotReadBlock
  BY <1>4 DEF Resumed, GotoFrom, Goto, locks, timer, CloseGotReadBlock
<1>5. CASE CloseDrain
  <2>1. /\ UNCHANGED <<rd_block, wr_block, idle_pinging>> /\ pc["close"] = "drain"
        /\ \E l \in {"hdr", "pay", "td", "drain"} : pc' = [pc EXCEPT !["close"] = l]
    BY <1>5 DEF YieldFrom, StartIo, GotoFrom, Goto, locks, timer, CloseDrain
  <2> QED
    BY <2>1
<1>6. CASE CloseReceived
  BY <1>6 DEF Resumed, Reading, GotoFrom, Goto, locks, timer, CloseReceived
<1>7. CASE TornDown("close")
  BY <1>7 DEF Resumed, TearingDown, GotoFrom, Goto, locks, TornDown
<1> QED
  BY <1>1, <1>2, <1>3, <1>4, <1>5, <1>6, <1>7

\* When close_op completes it hands both blocks over
LEMMA CloseUpcallSteps ==
  ASSUME LockInv, CloseUpcall
  PROVE  \E n \in Ops \cup {None}, q \in {None, "rd"} : Steps("close", n, q)
<1> DEFINE q == IF rd_block = "close" /\ pc["rd"] = "r_susp" THEN "rd" ELSE None
<1>1. PICK n \in Ops \cup {None} :
        /\ NextWriter("close", n) /\ wr_block' = n
        /\ pc' = [(IF q = None THEN PcWoken(n)
                   ELSE [PcWoken(n) EXCEPT ![q] = "r_post"]) EXCEPT !["close"] = "idle"]
  BY DEF CloseUpcall, YieldFrom, None
<1>2. /\ pc["close"] = "upcall" /\ wr_block = "close"
      /\ idle_pinging' = idle_pinging
      /\ rd_block' = ReadBlockAfterClose
  BY DEF CloseUpcall, timer, LockInv, Placed, InWrite, Ops
<1>3. "idle" \in Pcs["close"] /\ "close" \in Ops /\ ~WaitsWr("close")
  BY <1>2 DEF Pcs, SimplePcs, Ops, WaitsWr
<1>4. n = None \/ WaitsWr(n)
  BY <1>1, <1>3, NextWriterIs
<1>5. pc'["close"] = "idle" /\ pc'["idle_ping"] = PcWoken(n)["idle_ping"]
  BY <1>1, <1>3, <1>4, PcWokenIs DEF LockInv, Ops
<1>6. PingOK'
  BY <1>2, <1>4, <1>5, PingWoken DEF PingOK, LockInv
<1>7. Placed("close")'
  BY <1>1, <1>2, <1>4, <1>5
     DEF LockInv, BlockOK, Placed, InWrite, InRead, WaitsWr, Ops,
                           None, ReadBlockAfterClose
<1>8. \/ rd_block = "close" /\ rd_block' = q /\ q # None /\ pc[q] = "r_susp"
      \/ /\ rd_block = "close" /\ rd_block' = None /\ q = None
         /\ \A x \in {"rd", "close"} : pc[x] # "r_susp"
      \/ q = None /\ rd_block' = rd_block
  BY <1>2 DEF ReadBlockAfterClose, None
<1>9. Steps("close", n, q)
  BY <1>1, <1>2, <1>3, <1>6, <1>7, <1>8, HandsOver
<1> QED
  BY <1>9

----------------------------------------------------------------------------
(* read_op, read_some_op *)

\* The steps of the read that hand nothing over
LEMMA ReadLone ==
  ASSUME LockInv,
         \/ ReadNext \/ ReadAcquire \/ ReadGotReadBlock \/ ReadLoop
         \/ ReadSkipsHeader \/ ReadDefersCallback \/ ReadCallback
         \/ ReadPongPosted \/ ReadPong \/ ReadClose \/ ReadPayload
         \/ ReadPayloadBytes \/ ReadClosing \/ ReadClosePosted
         \/ ReadCloseSent \/ TornDown("rd")
  PROVE  Lone("rd")
<1> USE DEF Lone, LockInv, PcOK, BlockOK, Pcs, SimplePcs, Placed, InWrite, InRead,
            WaitsWr, Ops, None
<1>1. CASE ReadNext
  BY <1>1
     DEF Resumed, timer, YieldFrom, UpdateTimer, GotoFrom, Goto, locks, ReadNext
<1>2. CASE ReadAcquire
  BY <1>2 DEF GotoFrom, Goto, YieldFrom, Park, timer, ReadAcquire
<1>3. CASE ReadGotReadBlock
  BY <1>3 DEF Resumed, GotoFrom, Goto, locks, timer, ReadGotReadBlock
<1>4. CASE ReadLoop
  <2>1. /\ UNCHANGED <<rd_block, wr_block, idle_pinging>> /\ pc["rd"] = "loop"
        /\ \E l \in {"hdr", "closing", "ctl", "loop", "payload"} :
             pc' = [pc EXCEPT !["rd"] = l]
    <3>1. CASE rd_buf = <<>>
      BY <1>4, <3>1 DEF YieldFrom, StartIo, GotoFrom, Goto, locks, timer, ReadLoop
    <3>2. CASE rd_buf # <<>>
      BY <1>4, <3>2 DEF YieldFrom, StartIo, GotoFrom, Goto, locks, timer, ReadLoop
    <3> QED
      BY <3>1, <3>2
  <2> QED
    BY <2>1
<1>5. CASE ReadSkipsHeader
  BY <1>5 DEF GotoFrom, Goto, locks, timer, ReadSkipsHeader
<1>6. CASE ReadDefersCallback
  BY <1>6 DEF YieldFrom, Post, locks, timer, ReadDefersCallback
<1>7. CASE ReadCallback
  BY <1>7 DEF Resumed, GotoFrom, Goto, locks, timer, ReadCallback
<1>8. CASE ReadPongPosted
  BY <1>8
     DEF Resumed, GotoFrom, Goto, YieldFrom, StartIo, locks, timer,
         ReadPongPosted
<1>9. CASE ReadPong
  BY <1>9 DEF Handles, GotoFrom, Goto, locks, timer, ReadPong
<1>10. CASE ReadClose
  BY <1>10 DEF Handles, GotoFrom, Goto, locks, timer, ReadClose
<1>11. CASE ReadPayload
  BY <1>11 DEF YieldFrom, StartIo, GotoFrom, Goto, locks, timer, ReadPayload
<1>12. CASE ReadPayloadBytes
  BY <1>12 DEF Resumed, GotoFrom, Goto, locks, ReadPayloadBytes
<1>13. CASE ReadClosing
  BY <1>13 DEF YieldFrom, StartIo, ReadCloseLocked, Park, timer, ReadClosing
<1>14. CASE ReadClosePosted
  BY <1>14
     DEF Resumed, GotoFrom, Goto, YieldFrom, StartIo, ReadCloseLocked, locks,
         timer, ReadClosePosted
<1>15. CASE ReadCloseSent
  BY <1>15
     DEF Resumed, GotoFrom, Goto, YieldFrom, StartIo, locks, timer,
         ReadCloseSent
<1>16. CASE TornDown("rd")
  BY <1>16 DEF Resumed, TearingDown, GotoFrom, Goto, locks, TornDown
<1> QED
  BY <1>1, <1>2, <1>3, <1>4, <1>5, <1>6, <1>7, <1>8, <1>9, <1>10, <1>11, <1>12,
     <1>13, <1>14, <1>15, <1>16

\* With header bytes received, the read gives way to a parked close_op
LEMMA ReadHeaderBytesSteps ==
  ASSUME LockInv, ReadHeaderBytes
  PROVE  Lone("rd") \/ Steps("rd", None, "close")
<1>1. /\ pc["rd"] = "hdr" /\ rd_block = "rd" /\ wr_block # "rd"
      /\ wr_block' = wr_block /\ idle_pinging' = idle_pinging
  BY DEF ReadHeaderBytes, LockInv, Placed, InWrite, InRead, Ops
<1>2. CASE /\ rd_block' = rd_block
           /\ \E l \in {"upcall", "loop"} : pc' = [pc EXCEPT !["rd"] = l]
  BY <1>1, <1>2
     DEF Lone, LockInv, PcOK, BlockOK, Pcs, Placed, InWrite, InRead, WaitsWr,
         Ops
<1>3. CASE /\ rd_block' = "close" /\ pc["close"] = "r_susp"
           /\ pc' = [[pc EXCEPT !["close"] = "r_post"] EXCEPT !["rd"] = "r_susp"]
  <2>1. /\ pc' \in [Ops -> Labels] /\ pc'["rd"] = "r_susp"
        /\ \A x \in Ops \ {"rd"} : pc'[x] = IF x = "close" THEN "r_post" ELSE pc[x]
    BY <1>3 DEF LockInv, PcOK, Labels, Pcs, SimplePcs, Ops
  <2>2. PingOK'
    BY <1>1, <2>1 DEF PingOK, LockInv, Ops
  <2>3. Placed("rd")'
    BY <1>1, <1>3, <2>1 DEF Placed, InWrite, InRead, WaitsWr, Ops
  <2>4. BlockOK' /\ pc'["rd"] \in Pcs["rd"] /\ ~WaitsWr("rd") /\ pc["rd"] # "r_susp"
    BY <1>1, <1>3, <2>1 DEF LockInv, BlockOK, Pcs, WaitsWr
  <2> QED
    BY <1>1, <1>3, <2>1, <2>2, <2>3, <2>4, NoneIsNoOp DEF Steps
<1> QED
  BY <1>1, <1>2, <1>3
     DEF ReadHeaderBytes, CloseParked, Relocked, Goto, GotoFrom, YieldFrom

\* Before its pong, the read gives up the read block, to a parked close_op if any
LEMMA ReadPingSteps ==
  ASSUME LockInv, ReadPing
  PROVE  Lone("rd") \/ \E q \in {None, "close"} : Steps("rd", None, q)
<1>1. /\ pc["rd"] = "ctl" /\ rd_block = "rd" /\ wr_block # "rd"
      /\ idle_pinging' = idle_pinging
  BY DEF ReadPing, Handles, timer, LockInv, Placed, InWrite, InRead, Ops
<1>2. CASE UNCHANGED <<rd_block, wr_block>> /\ pc' = [pc EXCEPT !["rd"] = "loop"]
  BY <1>1, <1>2
     DEF Lone, LockInv, PcOK, BlockOK, Pcs, Placed, InWrite, InRead, WaitsWr,
         Ops
<1>3. CASE /\ rd_block' = IF CloseParked THEN "close" ELSE None
           /\ \E l \in {"pong_write", "pong_susp"} :
                /\ pc' = [(IF CloseParked THEN [pc EXCEPT !["close"] = "r_post"]
                           ELSE pc) EXCEPT !["rd"] = l]
                /\ IF l = "pong_write" THEN wr_block = None /\ wr_block' = "rd"
                                       ELSE wr_block # None /\ wr_block' = wr_block
  <2> DEFINE q == IF CloseParked THEN "close" ELSE None
  <2>1. PICK l \in {"pong_write", "pong_susp"} :
          /\ pc' = [(IF CloseParked THEN [pc EXCEPT !["close"] = "r_post"]
                     ELSE pc) EXCEPT !["rd"] = l]
          /\ IF l = "pong_write" THEN wr_block = None /\ wr_block' = "rd"
                                 ELSE wr_block # None /\ wr_block' = wr_block
    BY <1>3
  <2>2. /\ pc' \in [Ops -> Labels] /\ pc'["rd"] = l
        /\ \A x \in Ops \ {"rd"} : pc'[x] = IF x = q THEN "r_post" ELSE pc[x]
    BY <2>1 DEF LockInv, PcOK, Labels, Pcs, SimplePcs, Ops, None
  <2>3. PingOK'
    BY <1>1, <2>2 DEF PingOK, LockInv, Ops, None
  <2>4. Placed("rd")'
    BY <1>1, <1>3, <2>1, <2>2
       DEF LockInv, BlockOK, Placed, InWrite, InRead, WaitsWr, Ops, None
  <2>5. BlockOK' /\ pc'["rd"] \in Pcs["rd"] /\ ~WaitsWr("rd") /\ pc["rd"] # "r_susp"
    BY <1>1, <1>3, <2>1, <2>2 DEF LockInv, BlockOK, Pcs, WaitsWr, Ops
  <2>6. /\ rd_block' = q
        /\ \/ q \in {"rd", "close"} /\ pc[q] = "r_susp"
           \/ q = None /\ \A x \in {"rd", "close"} : pc[x] # "r_susp"
    BY <1>1, <1>3 DEF CloseParked
  <2>7. Steps("rd", None, q)
    BY <1>1, <2>1, <2>2, <2>3, <2>4, <2>5, <2>6, NoneIsNoOp DEF Steps
  <2> QED
    BY <2>7
<1> QED
  BY <1>1, <1>2, <1>3 DEF ReadPing, Goto, GotoFrom, YieldFrom, locks

\* After its pong, the read hands the write block over
LEMMA ReadPongSentSteps ==
  ASSUME LockInv, ReadPongSent
  PROVE  Lone("rd") \/ \E n \in Ops \cup {None} : Steps("rd", n, None)
<1>1. /\ pc["rd"] = "pong_write" /\ wr_block = "rd" /\ rd_block # "rd"
      /\ rd_block' = rd_block /\ idle_pinging' = idle_pinging
  BY DEF ReadPongSent, timer, LockInv, Placed, InWrite, InRead, Ops
<1>2. CASE wr_block' = wr_block /\ pc' = [pc EXCEPT !["rd"] = "upcall"]
  BY <1>1, <1>2
     DEF Lone, LockInv, PcOK, BlockOK, Pcs, Placed, InWrite, InRead, WaitsWr,
         Ops
<1>3. CASE \E n \in Ops \cup {None} : /\ NextWriter("rd", n) /\ wr_block' = n
                                      /\ pc' = [PcWoken(n) EXCEPT !["rd"] = "acquire"]
  <2>1. PICK n \in Ops \cup {None} : /\ NextWriter("rd", n) /\ wr_block' = n
                                     /\ pc' = [PcWoken(n) EXCEPT !["rd"] = "acquire"]
    BY <1>3
  <2>2. "acquire" \in Pcs["rd"] /\ "rd" \in Ops /\ ~WaitsWr("rd")
    BY <1>1 DEF Pcs, Ops, WaitsWr
  <2>3. n = None \/ WaitsWr(n)
    BY <2>1, <2>2, NextWriterIs
  <2>4. n # "rd"
    BY <2>2, <2>3 DEF None
  <2>5. pc'["rd"] = "acquire" /\ pc'["idle_ping"] = PcWoken(n)["idle_ping"]
    BY <2>1, <2>2, <2>3, PcWokenIs DEF LockInv, Ops
  <2>6. PingOK'
    BY <1>1, <2>3, <2>5, PingWoken DEF PingOK, LockInv
  <2>7. Placed("rd")'
    BY <1>1, <2>1, <2>4, <2>5 DEF Placed, InWrite, InRead, WaitsWr, Ops
  <2>8. Steps("rd", n, None)
    BY <1>1, <2>1, <2>2, <2>6, <2>7, HandsOver
  <2> QED
    BY <2>8
<1> QED
  BY <1>1, <1>2, <1>3 DEF ReadPongSent, Goto, GotoFrom

\* When the read completes it hands over whatever it holds
LEMMA ReadUpcallSteps ==
  ASSUME LockInv, ReadUpcall
  PROVE  \E n \in Ops \cup {None}, q \in {None, "close"} : Steps("rd", n, q)
<1> DEFINE q == IF CloseParked THEN "close" ELSE None
<1>1. PICK n \in Ops \cup {None}, l \in {"next", "idle"} :
        /\ IF wr_block = "rd" THEN NextWriter("rd", n) /\ wr_block' = n
                              ELSE n = None /\ wr_block' = wr_block
        /\ pc' = [(IF q = None THEN PcWoken(n)
                   ELSE [PcWoken(n) EXCEPT ![q] = "r_post"]) EXCEPT !["rd"] = l]
  BY DEF ReadUpcall, GotoFrom, YieldFrom, None
<1>2. /\ pc["rd"] = "upcall" /\ idle_pinging' = idle_pinging
      /\ rd_block' = IF CloseParked THEN "close"
                     ELSE IF rd_block = "rd" THEN None ELSE rd_block
  BY DEF ReadUpcall, timer
<1>3. l \in Pcs["rd"] /\ "rd" \in Ops /\ ~WaitsWr("rd")
  BY <1>2 DEF Pcs, Ops, WaitsWr
<1>4. n = None \/ WaitsWr(n)
  BY <1>1, <1>3, NextWriterIs
<1>5. n # "rd"
  BY <1>3, <1>4 DEF None
<1>6. pc'["rd"] = l /\ pc'["idle_ping"] = PcWoken(n)["idle_ping"]
  BY <1>1, <1>3, <1>4, PcWokenIs DEF LockInv, Ops
<1>7. PingOK'
  BY <1>2, <1>4, <1>6, PingWoken DEF PingOK, LockInv
<1>8. Placed("rd")'
  BY <1>1, <1>2, <1>5, <1>6 DEF Placed, InWrite, InRead, WaitsWr, Ops, None
<1>9. \/ rd_block = "rd" /\ rd_block' = q /\ q # None /\ pc[q] = "r_susp"
      \/ /\ rd_block = "rd" /\ rd_block' = None /\ q = None
         /\ \A x \in {"rd", "close"} : pc[x] # "r_susp"
      \/ q = None /\ rd_block' = rd_block
  BY <1>2 DEF CloseParked, None, LockInv, Placed, Ops
<1>10. Steps("rd", n, q)
  BY <1>1, <1>2, <1>3, <1>7, <1>8, <1>9, HandsOver
<1> QED
  BY <1>10

----------------------------------------------------------------------------
(* The application, the timer, the network *)

\* Starting an operation takes no block
LEMMA CallsLone ==
  ASSUME LockInv
  PROVE  /\ AsyncReadSome => Lone("rd")
         /\ \A s : AsyncRead(s) => Lone("rd")
         /\ \A f, n : AsyncWrite(f, n) => Lone("wr")
         /\ AsyncPing => Lone("ping")
         /\ AsyncClose => Lone("close")
<1> USE DEF Lone, LockInv, PcOK, BlockOK, Pcs, SimplePcs, Placed, InWrite, InRead,
            WaitsWr, Ops, None, Goto, GotoFrom, locks, timer, UpdateTimer
<1>1. AsyncReadSome => Lone("rd")
  BY DEF AsyncReadSome
<1>2. ASSUME NEW s, AsyncRead(s) PROVE Lone("rd")
  BY <1>2 DEF AsyncRead
<1>3. ASSUME NEW f, NEW n, AsyncWrite(f, n) PROVE Lone("wr")
  BY <1>3 DEF AsyncWrite
<1>4. AsyncPing => Lone("ping")
  BY DEF AsyncPing
<1>5. AsyncClose => Lone("close")
  BY DEF AsyncClose
<1> QED
  BY <1>1, <1>2, <1>3, <1>4, <1>5

\* The timer starts an idle ping, or closes the socket, and touches no block
LEMMA TimerSteps ==
  ASSUME LockInv, timeout_handler
  PROVE  Quiet \/ Steps("idle_ping", None, None)
<1>1. UNCHANGED <<rd_block, wr_block>>
  BY DEF timeout_handler, locks
<1>2. CASE pc' = pc /\ (idle_pinging => idle_pinging')
  BY <1>1, <1>2 DEF Quiet, LockInv, PingOK
<1>3. CASE ~idle_pinging /\ idle_pinging' /\ pc' = [pc EXCEPT !["idle_ping"] = "begin"]
  <2>1. pc["idle_ping"] = "idle"
    BY <1>3 DEF LockInv, PingOK
  <2>2. /\ pc' \in [Ops -> Labels] /\ pc'["idle_ping"] = "begin"
        /\ \A x \in Ops \ {"idle_ping"} : pc'[x] = pc[x]
    BY <1>3 DEF LockInv, PcOK, Labels, Pcs, SimplePcs, Ops
  <2>3. Placed("idle_ping")' /\ BlockOK' /\ PingOK'
    BY <1>1, <1>3, <2>1, <2>2
       DEF LockInv, BlockOK, PingOK, Placed, InWrite, InRead, WaitsWr, Ops
  <2>4. "begin" \in Pcs["idle_ping"] /\ ~WaitsWr("idle_ping")
    BY <2>1 DEF Pcs, SimplePcs, WaitsWr
  <2> QED
    BY <1>1, <2>1, <2>2, <2>3, <2>4, NoneIsNoOp DEF Steps
<1> QED
  BY <1>1, <1>2, <1>3 DEF timeout_handler, IdlePing, TimeOut, Goto, GotoFrom

\* The peer, the network and the clock move no operation
LEMMA EnvironmentQuiet ==
  ASSUME LockInv,
         \/ TimerExpires \/ PeerSends \/ PeerCloses
         \/ \E o \in Ops, r \in {"ok", "err"} : IoCompletes(o, r)
         \/ UNCHANGED vars
  PROVE  Quiet
  BY DEF Quiet, LockInv, PingOK, TimerExpires, PeerSends, PeerCloses,
     IoCompletes, locks, timer, vars

----------------------------------------------------------------------------
(* The invariant *)

\* Every step moves one operation, and wakes those it hands a block to
LEMMA NextIsSteps ==
  ASSUME LockInv, [Next]_vars
  PROVE  \/ Quiet
         \/ \E o \in Ops, n \in Ops \cup {None}, q \in {None, "rd", "close"} :
                    Steps(o, n, q)
<1>1. ASSUME NEW o \in Ops, Lone(o)
      PROVE  Steps(o, None, None)
  BY <1>1, LoneSteps
<1>2. CASE ReadStep
  <2>1. \/ Lone("rd")
        \/ \E n \in Ops \cup {None}, q \in {None, "close"} : Steps("rd", n, q)
    BY <1>2, ReadLone, ReadHeaderBytesSteps, ReadPingSteps, ReadPongSentSteps,
       ReadUpcallSteps DEF ReadStep
  <2> QED
    BY <1>1, <2>1 DEF Ops
<1>3. CASE CloseStep
  <2>1. \/ Lone("close")
        \/ \E n \in Ops \cup {None}, q \in {None, "rd"} : Steps("close", n, q)
    BY <1>3, CloseLone, CloseUpcallSteps DEF CloseStep
  <2> QED
    BY <1>1, <2>1 DEF Ops
<1>4. ASSUME NEW o \in Simple, SimpleStep(o)
      PROVE  \E n \in Ops \cup {None} : Steps(o, n, None)
  <2>1. Lone(o) \/ \E n \in Ops \cup {None} : Steps(o, n, None)
    BY <1>4, SimpleLone, SimpleUpcallSteps DEF SimpleStep
  <2> QED
    BY <1>1, <2>1, SimpleFacts
<1>5. CASE FrameSent
  <2>1. Lone("wr") \/ \E n \in Ops : Steps("wr", n, None)
    BY <1>5, FrameSentSteps
  <2> QED
    BY <1>1, <2>1 DEF Ops
<1>6. CASE Application
  <2>1. Lone("rd") \/ Lone("wr") \/ Lone("ping") \/ Lone("close")
    BY <1>6, CallsLone DEF Application
  <2> QED
    BY <1>1, <2>1 DEF Ops
<1>7. CASE timeout_handler
  BY <1>7, TimerSteps DEF Ops
<1>8. CASE \/ TimerExpires \/ PeerSends \/ PeerCloses
           \/ \E o \in Ops, r \in {"ok", "err"} : IoCompletes(o, r)
           \/ UNCHANGED vars
  BY <1>8, EnvironmentQuiet
<1>9. {"wr", "ping", "idle_ping"} = Simple /\ Simple \subseteq Ops
  BY DEF Simple, Ops
<1> QED
  BY <1>2, <1>3, <1>4, <1>5, <1>6, <1>7, <1>8, <1>9 DEF Next, Handlers, WriteStep

\* At first nobody is anywhere and both blocks are free
LEMMA InitLocks == Init => LockInv
<1> SUFFICES ASSUME Init
             PROVE  LockInv
  OBVIOUS
<1>1. PcOK
  BY DEF Init, PcOK, Labels, Pcs, SimplePcs, Ops
<1>2. BlockOK /\ PingOK
  BY DEF Init, BlockOK, PingOK, Ops
<1>3. \A o \in Ops : Placed(o)
  BY DEF Init, Placed, InWrite, InRead, WaitsWr, Ops, None
<1> QED
  BY <1>1, <1>2, <1>3 DEF LockInv

\* Every operation owns the blocks its label says it owns, in every reachable
\* state.
THEOREM LocksInvariant == Spec => []LockInv
<1>1. LockInv /\ [Next]_vars => LockInv'
  BY NextIsSteps, StepsKeepLocks, QuietKeepsLocks
<1> QED
  BY InitLocks, <1>1, PTL DEF Spec

\* No code between a lock and its unlock runs without the block: the assertions
\* is_locked(this) of read.hpp, write.hpp, ping.hpp and close.hpp hold.
THEOREM BlocksAreHeld == Spec => []BlocksHeld
<1>1. LockInv => BlocksHeld
  BY DEF LockInv, Placed, BlocksHeld
<1> QED
  BY LocksInvariant, <1>1, PTL

\* Whoever owns a block is an operation under way that still has to reach the
\* label upcall, where it unlocks: no error path forgets a block.
THEOREM BlocksAreReleased == Spec => []BlocksReleased
<1>1. LockInv => BlocksReleased
  BY DEF LockInv, BlockOK, Placed, BlocksReleased, Ops, None
<1> QED
  BY LocksInvariant, <1>1, PTL

\* No wakeup is lost: whatever an operation is parked on is owned by another
\* operation, in whose list of maybe_invoke() calls it is.
THEOREM NobodyIsStranded == Spec => []NobodyStranded
<1>1. LockInv => NobodyStranded
  BY DEF LockInv, Placed, NobodyStranded, Ops
<1> QED
  BY LocksInvariant, <1>1, PTL

\* The socket never has two writes outstanding, nor a write beside a teardown.
THEOREM AtMostOneWriter == Spec => []OneWriter
<1>1. ASSUME LockInv, NEW o \in Ops, Writing(o) \/ TearingDown(o)
      PROVE  wr_block = o
  BY <1>1
     DEF LockInv, PcOK, Placed, InWrite, Writing, TearingDown, Pcs, SimplePcs,
         Ops
<1>2. LockInv => OneWriter
  BY <1>1 DEF OneWriter
<1> QED
  BY LocksInvariant, <1>2, PTL

----------------------------------------------------------------------------
(* Refinement *)

\* A step of one operation is a step of the write block as a hand-off lock
LEMMA StepsHandOffWrite ==
  ASSUME LockInv, LockInv', NEW o \in Ops, NEW n \in Ops \cup {None},
         NEW q \in {None, "rd", "close"}, Steps(o, n, q)
  PROVE  [WriteBlock!HandOffNext]_<<wr_block, {x \in Ops : WaitsWr(x)}>>
<1> DEFINE parked == {x \in Ops : WaitsWr(x)}
<1>1. ASSUME NEW x \in Ops, x # o, x # n
      PROVE  WaitsWr(x)' <=> WaitsWr(x)
  <2>1. CASE x = q
    <3>1. pc[x] = "r_susp" /\ pc'[x] = "r_post"
      BY <1>1, <2>1, NoneIsNoOp DEF Steps
    <3> QED
      BY <3>1 DEF WaitsWr
  <2>2. CASE x # q
    BY <1>1, <2>2 DEF Steps, WaitsWr
  <2> QED
    BY <2>1, <2>2
<1>2. WaitsWr(o)' => wr_block' \in Ops \ {o}
  BY DEF LockInv, Placed
<1>3. CASE n = None /\ wr_block' = wr_block
  <2>1. CASE WaitsWr(o)'
    <3>1. parked' = parked \cup {o} /\ o \notin parked
      BY <1>1, <1>3, <2>1, NoneIsNoOp DEF Steps
    <3>2. WriteBlock!ParkOn(o)
      BY <1>2, <1>3, <2>1, <3>1, NoneIsNoOp DEF WriteBlock!ParkOn
    <3> QED
      BY <3>2 DEF WriteBlock!HandOffNext
  <2>2. CASE ~WaitsWr(o)'
    <3>1. parked' = parked
      BY <1>1, <1>3, <2>2, NoneIsNoOp DEF Steps
    <3> QED
      BY <1>3, <3>1
  <2> QED
    BY <2>1, <2>2
<1>4. CASE n = None /\ wr_block = None /\ wr_block' = o
  <2>1. parked' = parked /\ o \notin parked
    BY <1>1, <1>2, <1>4, NoneIsNoOp DEF Steps
  <2>2. WriteBlock!Enter(o)
    BY <1>4, <2>1 DEF WriteBlock!Enter
  <2> QED
    BY <2>2 DEF WriteBlock!HandOffNext
<1>5. CASE wr_block = o /\ wr_block' = n /\ n = None /\ \A x \in Ops : ~WaitsWr(x)
  <2>1. parked = {} /\ parked' = {}
    BY <1>1, <1>2, <1>5, NoneIsNoOp
  <2>2. WriteBlock!Leave(o)
    BY <1>5, <2>1 DEF WriteBlock!Leave
  <2> QED
    BY <2>2 DEF WriteBlock!HandOffNext
<1>6. CASE wr_block = o /\ wr_block' = n /\ n \in Ops /\ WaitsWr(n)
  <2>1. n \in parked /\ n # o
    BY <1>6 DEF Steps
  <2>2. ~WaitsWr(n)'
    BY <1>6 DEF LockInv, Placed
  <2>3. CASE WaitsWr(o)'
    <3>1. parked' = (parked \ {n}) \cup {o}
      BY <1>1, <2>1, <2>2, <2>3
    <3>2. WriteBlock!StepAside(o)
      BY <1>6, <2>1, <3>1 DEF WriteBlock!StepAside
    <3> QED
      BY <3>2 DEF WriteBlock!HandOffNext
  <2>4. CASE ~WaitsWr(o)'
    <3>1. parked' = parked \ {n}
      BY <1>1, <2>1, <2>2, <2>4 DEF Steps
    <3>2. WriteBlock!Leave(o)
      BY <1>6, <2>1, <3>1 DEF WriteBlock!Leave
    <3> QED
      BY <3>2 DEF WriteBlock!HandOffNext
  <2> QED
    BY <2>3, <2>4
<1> QED
  BY <1>3, <1>4, <1>5, <1>6 DEF Steps

\* The write block is a lock with hand-off: operations of five kinds, their
\* error paths and a write that steps aside between two frames only ever take
\* it when it is free, park, or pass it on.
THEOREM WriteBlockHandsOff == Spec => ImplementsWriteBlock
<1>1. Init => WriteBlock!HandOffInit
  BY DEF Init, WriteBlock!HandOffInit, WaitsWr, Ops
<1>2. LockInv /\ LockInv' /\ [Next]_vars =>
        [WriteBlock!HandOffNext]_WriteBlock!handOffVars
  <2> SUFFICES ASSUME LockInv, LockInv', [Next]_vars
               PROVE  [WriteBlock!HandOffNext]_WriteBlock!handOffVars
    OBVIOUS
  <2>1. CASE Quiet
    BY <2>1 DEF Quiet, WaitsWr, WriteBlock!handOffVars
  <2>2. CASE \E o \in Ops, n \in Ops \cup {None}, q \in {None, "rd", "close"} :
               Steps(o, n, q)
    BY <2>2, StepsHandOffWrite DEF WriteBlock!handOffVars
  <2> QED
    BY <2>1, <2>2, NextIsSteps
<1> QED
  BY <1>1, <1>2, LocksInvariant, PTL
     DEF Spec, ImplementsWriteBlock, WriteBlock!HandOffSpec

\* ... and of the read block
LEMMA StepsHandOffRead ==
  ASSUME LockInv, LockInv', NEW o \in Ops, NEW n \in Ops \cup {None},
         NEW q \in {None, "rd", "close"}, Steps(o, n, q)
  PROVE  [ReadBlock!HandOffNext]_<<rd_block, {x \in {"rd", "close"} : pc[x] = "r_susp"}>>
<1> DEFINE parked == {x \in {"rd", "close"} : pc[x] = "r_susp"}
<1>1. ASSUME NEW x \in {"rd", "close"}, x # o, x # q
      PROVE  pc'[x] = "r_susp" <=> pc[x] = "r_susp"
  <2>1. x \in Ops
    BY DEF Ops
  <2>2. CASE x = n
    <3>1. WaitsWr(x) /\ pc'[x] = PostOf[pc[x]]
      BY <1>1, <2>1, <2>2, NoneIsNoOp DEF Steps
    <3>2. pc'[x] # "r_susp" /\ pc[x] # "r_susp"
      BY <2>1, <3>1, PostLabel DEF LockInv, WaitsWr
    <3> QED
      BY <3>2
  <2>3. CASE x # n
    BY <1>1, <2>1, <2>3 DEF Steps
  <2> QED
    BY <2>2, <2>3
<1>2. pc'[o] = "r_susp" => /\ o \in {"rd", "close"}
                            /\ rd_block' \in {"rd", "close"} \ {o}
  BY DEF LockInv, PcOK, Placed, Ops, Pcs, SimplePcs
<1>3. pc[o] # "r_susp" /\ None \notin {"rd", "close"}
  BY DEF Steps, None
<1>4. CASE q = None /\ rd_block' = rd_block
  <2>1. CASE pc'[o] = "r_susp"
    <3>1. parked' = parked \cup {o}
      BY <1>1, <1>2, <1>3, <1>4, <2>1
    <3>2. ReadBlock!ParkOn(o)
      BY <1>2, <1>3, <1>4, <2>1, <3>1 DEF ReadBlock!ParkOn
    <3> QED
      BY <1>2, <2>1, <3>2 DEF ReadBlock!HandOffNext
  <2>2. CASE pc'[o] # "r_susp"
    <3>1. parked' = parked
      BY <1>1, <1>3, <1>4, <2>2
    <3> QED
      BY <1>4, <3>1
  <2> QED
    BY <2>1, <2>2
<1>5. CASE q = None /\ rd_block = None /\ rd_block' = o
  <2>1. o \in {"rd", "close"} /\ pc'[o] # "r_susp"
    BY <1>2, <1>5, NoneIsNoOp DEF LockInv, BlockOK
  <2>2. parked' = parked
    BY <1>1, <1>3, <1>5, <2>1
  <2>3. ReadBlock!Enter(o)
    BY <1>3, <1>5, <2>1, <2>2 DEF ReadBlock!Enter
  <2> QED
    BY <2>1, <2>3 DEF ReadBlock!HandOffNext
<1>6. CASE rd_block = o /\ rd_block' = q /\ q = None /\ parked = {}
  <2>1. o \in {"rd", "close"} /\ pc'[o] # "r_susp"
    BY <1>2, <1>3, <1>6, NoneIsNoOp DEF LockInv, BlockOK
  <2>2. parked' = {}
    BY <1>1, <1>3, <1>6, <2>1
  <2>3. ReadBlock!Leave(o)
    BY <1>6, <2>2 DEF ReadBlock!Leave
  <2> QED
    BY <2>1, <2>3 DEF ReadBlock!HandOffNext
<1>7. CASE rd_block = o /\ rd_block' = q /\ q \in {"rd", "close"} /\ pc[q] = "r_susp"
  <2>1. o \in {"rd", "close"} /\ q # o
    BY <1>3, <1>7, NoneIsNoOp DEF LockInv, BlockOK
  <2>2. pc'[q] # "r_susp"
    BY <1>7 DEF LockInv, Placed, Ops
  <2>3. CASE pc'[o] = "r_susp"
    <3>1. parked' = (parked \ {q}) \cup {o}
      BY <1>1, <2>1, <2>2, <2>3
    <3>2. ReadBlock!StepAside(o)
      BY <1>7, <3>1 DEF ReadBlock!StepAside
    <3> QED
      BY <2>1, <3>2 DEF ReadBlock!HandOffNext
  <2>4. CASE pc'[o] # "r_susp"
    <3>1. parked' = parked \ {q}
      BY <1>1, <1>3, <2>1, <2>2, <2>4
    <3>2. ReadBlock!Leave(o)
      BY <1>7, <3>1 DEF ReadBlock!Leave
    <3> QED
      BY <2>1, <3>2 DEF ReadBlock!HandOffNext
  <2> QED
    BY <2>3, <2>4
<1> QED
  BY <1>4, <1>5, <1>6, <1>7 DEF Steps

\* So is the read block, which read and close lend each other in the middle of
\* a frame header and around a pong.
THEOREM ReadBlockHandsOff == Spec => ImplementsReadBlock
<1>1. Init => ReadBlock!HandOffInit
  BY DEF Init, ReadBlock!HandOffInit, Ops
<1>2. LockInv /\ LockInv' /\ [Next]_vars =>
        [ReadBlock!HandOffNext]_ReadBlock!handOffVars
  <2> SUFFICES ASSUME LockInv, LockInv', [Next]_vars
               PROVE  [ReadBlock!HandOffNext]_ReadBlock!handOffVars
    OBVIOUS
  <2>1. CASE Quiet
    BY <2>1 DEF Quiet, ReadBlock!handOffVars
  <2>2. CASE \E o \in Ops, n \in Ops \cup {None}, q \in {None, "rd", "close"} :
               Steps(o, n, q)
    BY <2>2, StepsHandOffRead DEF ReadBlock!handOffVars
  <2> QED
    BY <2>1, <2>2, NextIsSteps
<1> QED
  BY <1>1, <1>2, LocksInvariant, PTL
     DEF Spec, ImplementsReadBlock, ReadBlock!HandOffSpec

----------------------------------------------------------------------------
(* The type invariant.  It is inductive together with the lock invariant and two
   facts about the data: a read that dispatches a control frame has one in its
   buffer, and a write that is sending has a frame left to send.               *)

IoStates == {"none", "pending", "ok", "err"}
IoOK == io \in [Ops -> IoStates] /\ cur \in Ops \cup {None}
StatusOK ==
  /\ status \in {"open", "closing", "closed", "failed"}
  /\ ec_delivered \in BOOLEAN /\ timed_out \in BOOLEAN /\ ec \in [Ops -> Results]
FlagsOK ==
  /\ rd_close \in BOOLEAN /\ wr_close \in BOOLEAN
  /\ armed \in BOOLEAN /\ idle_pinging \in BOOLEAN /\ sock \in BOOLEAN
CountsOK == fired \in Nat /\ idle_counter \in {0, 1}
FrameOK ==
  /\ rd_buf \in Seq(Frames) /\ net \in Seq(Frames)
  /\ rd_remain \in {0, 1}
  /\ rd_fin \in BOOLEAN /\ rd_done \in BOOLEAN /\ rd_cont \in BOOLEAN
  /\ cont \in BOOLEAN /\ some_ \in BOOLEAN
  /\ peer \in {"open", "owes", "done", "gone"}
WriterOK == frag \in BOOLEAN /\ left \in Nat
CallsOK == calls \in [{"rd", "wr", "ping", "close", "peer"} -> Nat]

\* The control frame being dispatched is in the buffer until it is consumed
BufOK == pc["rd"] \in {"ctl", "cb"} => rd_buf # <<>>

\* A write that is sending has not sent its last frame
LeftOK == pc["wr"] = "write" => left > 0

TypeInv == /\ LockInv /\ IoOK /\ StatusOK /\ FlagsOK /\ CountsOK /\ FrameOK
           /\ WriterOK /\ CallsOK /\ HistoryOK /\ BufOK /\ LeftOK

\* The inductive invariant is at least the type invariant
LEMMA TypeInvTypes == TypeInv => TypeOK
  BY DEF TypeInv, TypeOK, ControlOK, SessionOK, DataOK, LockInv, PcOK, BlockOK,
         IoOK, IoStates, StatusOK, FlagsOK, CountsOK, FrameOK, WriterOK, CallsOK

\* It holds of a stream that has just completed its handshake
LEMMA InitTypes == Init /\ ConstantsAssumption => TypeInv
<1> SUFFICES ASSUME Init, ConstantsAssumption
             PROVE  TypeInv
  OBVIOUS
<1>1. IoOK /\ StatusOK
  BY DEF Init, IoOK, IoStates, StatusOK, Results, Ops, None
<1>2. FlagsOK /\ CountsOK
  BY DEF Init, FlagsOK, CountsOK
<1>3. FrameOK
  <2>1. rd_buf \in Seq(Frames) /\ net \in Seq(Frames)
    BY DEF Init
  <2> QED
    BY <2>1 DEF Init, FrameOK
<1>4. HistoryOK
  <2>1. told \in Seq(Results)
    BY DEF Init
  <2> QED
    BY <2>1 DEF Init, HistoryOK
<1>6. WriterOK /\ BufOK /\ LeftOK
  BY DEF Init, WriterOK, BufOK, LeftOK, Ops
<1>5. CallsOK
  BY DEF Init, CallsOK, ConstantsAssumption
<1> QED
  BY <1>1, <1>2, <1>3, <1>4, <1>5, <1>6, InitLocks DEF TypeInv

----------------------------------------------------------------------------
(* Who may run: io and cur *)

\* Transferring control keeps io and cur typed, whichever handler runs next
LEMMA TransferTyped ==
  ASSUME NEW ios \in [Ops -> IoStates], NEW pcs, NEW o \in Ops, NEW l,
         NEW how \in IoStates
  PROVE  /\ GotoFrom(pcs, ios, o, l) => IoOK'
         /\ YieldFrom(pcs, ios, o, l, how) => IoOK'
  BY DEF GotoFrom, YieldFrom, IoOK, IoStates, Ops

\* ... going on within the same operation
LEMMA GotoTyped == ASSUME IoOK, NEW o \in Ops, NEW l, Goto(o, l) PROVE IoOK'
  BY TransferTyped DEF Goto, IoOK, IoStates

\* ... parking on a saved handler
LEMMA ParkTyped == ASSUME IoOK, NEW o \in Ops, NEW l, Park(o, l) PROVE IoOK'
  BY TransferTyped DEF Park, IoOK, IoStates

\* ... posting to the executor
LEMMA PostTyped == ASSUME IoOK, NEW o \in Ops, NEW l, Post(o, l) PROVE IoOK'
  BY TransferTyped DEF Post, IoOK, IoStates

\* ... starting an I/O, on an open or on a closed socket
LEMMA StartIoTyped == ASSUME IoOK, NEW o \in Ops, NEW l, StartIo(o, l) PROVE IoOK'
  BY TransferTyped DEF StartIo, IoFrom, IoOK, IoStates

\* Invoking a saved handler keeps io typed
LEMMA IoWokenTyped == ASSUME IoOK, NEW n PROVE IoWoken(n) \in [Ops -> IoStates]
  BY DEF IoOK, IoWoken, IoStates

\* Every step leaves at most one operation running and every other resumable
LEMMA IoStep == ASSUME IoOK, Next PROVE IoOK'
<1> USE GotoTyped, ParkTyped, PostTyped, StartIoTyped, TransferTyped, IoWokenTyped
<1>1. CASE ReadStep
  BY <1>1
     DEF IoOK, ReadStep, ReadNext, ReadAcquire, ReadGotReadBlock, ReadSkipsHeader,
         ReadDefersCallback, ReadCallback, ReadLoop, ReadHeaderBytes, ReadPing,
         ReadPongPosted, ReadPongSent, ReadClosing, ReadClosePosted, ReadCloseSent,
         ReadPong, ReadClose, ReadPayload, ReadPayloadBytes, TornDown, ReadUpcall,
         ReadCloseLocked, Ops, IoStates, IoFrom
<1>2. CASE CloseStep
  BY <1>2
     DEF IoOK, CloseStep, CloseBegin, ClosePosted, CloseSent, CloseGotReadBlock,
         CloseDrain, CloseReceived, TornDown, CloseUpcall, CloseLocked, Ops,
         IoStates, IoFrom
<1>3. ASSUME NEW o \in Simple, SimpleStep(o)
      PROVE  IoOK'
  <2>1. o \in Ops
    BY SimpleFacts
  <2>2. CASE SimpleUpcall(o)
    BY <2>1, <2>2 DEF SimpleUpcall, IoStates
  <2>3. CASE SimpleBegin(o) \/ SimplePosted(o) \/ PingSent(o)
    BY <2>1, <2>3 DEF SimpleBegin, SimplePosted, PingSent, SimpleLocked
  <2> QED
    BY <1>3, <2>2, <2>3 DEF SimpleStep
<1>4. CASE FrameSent \/ Application
  BY <1>4
     DEF IoOK, FrameSent, Application, AsyncRead, AsyncReadSome, AsyncWrite,
         AsyncPing, AsyncClose, Ops, IoStates
<1>5. CASE timeout_handler
  BY <1>5 DEF timeout_handler, IdlePing, TimeOut, IoOK, Ops, IoStates
<1>6. CASE TimerExpires \/ PeerSends \/ PeerCloses
  BY <1>6 DEF IoOK, PeerSends, PeerCloses, TimerExpires
<1>7. ASSUME NEW o \in Ops, NEW r \in {"ok", "err"}, IoCompletes(o, r)
      PROVE  IoOK'
  BY <1>7 DEF IoOK, IoCompletes, IoStates
<1> QED
  BY <1>1, <1>2, <1>3, <1>4, <1>5, <1>6, <1>7 DEF Next, Handlers, WriteStep, Simple

----------------------------------------------------------------------------
(* The session: check_stop_now, the closing handshake, the timer *)

\* check_stop_now sets the status, the flags and the error of one operation
LEMMA StopTyped ==
  ASSUME StatusOK, NEW o \in Ops, NEW e \in {"ok", "err"}, Stop(o, e)
  PROVE  StatusOK'
  BY DEF StatusOK, Stop, session, Results

\* So does an operation that finds an error by itself
LEMMA EcTyped ==
  ASSUME StatusOK, NEW o \in Ops, NEW e \in Results, ec' = [ec EXCEPT ![o] = e]
  PROVE  ec' \in [Ops -> Results]
  BY DEF StatusOK

\* Every step keeps the status of the session and the errors typed
LEMMA StatusStep == ASSUME StatusOK, Next PROVE StatusOK'
<1> USE StopTyped, EcTyped DEF StatusOK, Ops, Results, Resumed, session
<1>1. CASE ReadStep
  BY <1>1
     DEF ReadStep, ReadNext, ReadAcquire, ReadGotReadBlock, ReadSkipsHeader,
         ReadDefersCallback, ReadCallback, ReadLoop, ReadHeaderBytes, ReadPing,
         ReadPongPosted, ReadPongSent, ReadClosing, ReadClosePosted, ReadCloseSent,
         ReadPong, ReadClose, ReadPayload, ReadPayloadBytes, TornDown, ReadUpcall,
         ReadCloseLocked, FinalStatus
<1>2. CASE CloseStep
  BY <1>2
     DEF CloseStep, CloseBegin, ClosePosted, CloseSent, CloseGotReadBlock,
         CloseDrain, CloseReceived, TornDown, CloseUpcall, CloseLocked, FinalStatus
<1>3. CASE WriteStep \/ SimpleStep("ping") \/ SimpleStep("idle_ping")
  BY <1>3
     DEF WriteStep, FrameSent, SimpleStep, SimpleBegin, SimplePosted, PingSent,
         SimpleUpcall, SimpleLocked
<1>4. CASE Application \/ timeout_handler
  BY <1>4
     DEF Application, AsyncRead, AsyncReadSome, AsyncWrite, AsyncPing, AsyncClose,
         timeout_handler, IdlePing, TimeOut
<1>5. CASE \/ TimerExpires \/ PeerSends \/ PeerCloses
           \/ \E o \in Ops, r \in {"ok", "err"} : IoCompletes(o, r)
  BY <1>5 DEF TimerExpires, PeerSends, PeerCloses, IoCompletes
<1> QED
  BY <1>1, <1>2, <1>3, <1>4, <1>5 DEF Next, Handlers

\* Restarting the timer only touches the timer
LEMMA UpdateTimerTyped ==
  ASSUME ConstantsAssumption, FlagsOK, CountsOK, NEW st, UpdateTimer(st)
  PROVE  /\ armed' \in BOOLEAN /\ idle_pinging' = idle_pinging
         /\ fired' = fired /\ idle_counter' \in {0, 1}
  BY DEF FlagsOK, CountsOK, UpdateTimer

\* Every step keeps the flags typed and the two counts in range
LEMMA FlagsStep ==
  ASSUME ConstantsAssumption, FlagsOK, CountsOK, Next
  PROVE  FlagsOK' /\ CountsOK'
<1> USE UpdateTimerTyped DEF FlagsOK, CountsOK, timer, closing
<1>1. CASE ReadStep
  BY <1>1
     DEF ReadStep, ReadNext, ReadAcquire, ReadGotReadBlock, ReadSkipsHeader,
         ReadDefersCallback, ReadCallback, ReadLoop, ReadHeaderBytes, ReadPing,
         ReadPongPosted, ReadPongSent, ReadClosing, ReadClosePosted, ReadCloseSent,
         ReadPong, ReadClose, ReadPayload, ReadPayloadBytes, TornDown, ReadUpcall,
         ReadCloseLocked
<1>2. CASE CloseStep
  BY <1>2
     DEF CloseStep, CloseBegin, ClosePosted, CloseSent, CloseGotReadBlock,
         CloseDrain, CloseReceived, TornDown, CloseUpcall, CloseLocked
<1>3. CASE WriteStep \/ SimpleStep("ping") \/ SimpleStep("idle_ping")
  BY <1>3
     DEF WriteStep, FrameSent, SimpleStep, SimpleBegin, SimplePosted, PingSent,
         SimpleUpcall
<1>4. CASE Application
  BY <1>4
     DEF Application, AsyncRead, AsyncReadSome, AsyncWrite, AsyncPing, AsyncClose
<1>5. CASE timeout_handler
  <2>1. FlagsOK'
    BY <1>5 DEF timeout_handler, IdlePing, TimeOut, CloseSocket
  <2>2. fired' \in Nat
    BY <1>5 DEF timeout_handler
  <2>3. idle_counter' \in {0, 1}
    BY <1>5 DEF timeout_handler, IdlePing, TimeOut, PingsOnIdle
  <2> QED
    BY <2>1, <2>2, <2>3
<1>6. CASE TimerExpires
  <2>1. FlagsOK'
    BY <1>6 DEF TimerExpires
  <2>2. fired' = fired + 1 /\ idle_counter' = idle_counter
    BY <1>6 DEF TimerExpires
  <2> QED
    BY <2>1, <2>2
<1>7. CASE \/ PeerSends \/ PeerCloses
           \/ \E o \in Ops, r \in {"ok", "err"} : IoCompletes(o, r)
  BY <1>7 DEF PeerSends, PeerCloses, IoCompletes
<1> QED
  BY <1>1, <1>2, <1>3, <1>4, <1>5, <1>6, <1>7 DEF Next, Handlers

----------------------------------------------------------------------------
(* The data: what is read, what is written, the calls left *)

\* A buffer that is not empty starts with a frame
LEMMA HeadTyped ==
  ASSUME FrameOK, rd_buf # <<>>
  PROVE  Head(rd_buf) \in Frames /\ Tail(rd_buf) \in Seq(Frames)
  BY DEF FrameOK

\* What a frame header is made of
LEMMA FrameFields == \A f \in Frames : f.fin \in BOOLEAN /\ f.len \in {0, 1}
  BY DEF Frames

\* What the peer can send
LEMMA FrameTyped ==
  ASSUME NEW k \in Control \cup {"data", "bad", "payload"}, NEW f \in BOOLEAN,
         NEW n \in {0, 1}
  PROVE  Frame(k, f, n) \in Frames
  BY DEF Frame, Frames

\* Dispatching a control frame consumes it from a buffer that has it
LEMMA HandlesTyped ==
  ASSUME FrameOK, BufOK, NEW k, Handles(k)
  PROVE  rd_buf' \in Seq(Frames)
  BY HeadTyped DEF Handles, BufOK

\* Data received is moved from the network to the end of the buffer
LEMMA CommitTyped ==
  ASSUME FrameOK, NEW o, Commit(o)
  PROVE  /\ rd_buf' \in Seq(Frames) /\ net' \in Seq(Frames)
         /\ rd_buf # <<>> => rd_buf' # <<>>
<1>1. CASE io[o] = "err"
  BY <1>1 DEF Commit, FrameOK
<1>2. CASE io[o] # "err"
  <2>1. PICK k \in 1 .. Len(net) : /\ rd_buf' = rd_buf \o SubSeq(net, 1, k)
                                   /\ net' = SubSeq(net, k + 1, Len(net))
    BY <1>2 DEF Commit
  <2> QED
    BY <2>1 DEF FrameOK
<1> QED
  BY <1>1, <1>2

\* Every step keeps the parser, the buffer and the wire typed
LEMMA FrameStep == ASSUME FrameOK, BufOK, Next PROVE FrameOK'
<1> USE DEF FrameOK, parser, frame, world
<1>1. CASE ReadLoop
  <2>1. rd_buf' \in Seq(Frames) /\ rd_remain' \in {0, 1}
    BY <1>1, HeadTyped, FrameFields DEF ReadLoop
  <2>2. rd_fin' \in BOOLEAN
    BY <1>1, HeadTyped, FrameFields DEF ReadLoop, FinAfterControl
  <2>3. rd_cont' \in BOOLEAN
    BY <1>1, HeadTyped, FrameFields DEF ReadLoop
  <2>4. rd_done' \in BOOLEAN
    BY <1>1 DEF ReadLoop
  <2> QED
    BY <1>1, <2>1, <2>2, <2>3, <2>4 DEF ReadLoop
<1>2. CASE CloseDrain
  <2>1. rd_buf' \in Seq(Frames) /\ rd_remain' \in {0, 1}
    BY <1>2, HeadTyped, FrameFields DEF CloseDrain
  <2>2. rd_fin' \in BOOLEAN
    BY <1>2, HeadTyped, FrameFields DEF CloseDrain
  <2>3. rd_cont' \in BOOLEAN
    BY <1>2, HeadTyped, FrameFields DEF CloseDrain
  <2> QED
    BY <1>2, <2>1, <2>2, <2>3 DEF CloseDrain
<1>3. CASE PeerSends
  <2>1. \E f \in Frames : net' = Append(net, f)
    BY <1>3, FrameTyped DEF PeerSends, Control
  <2>2. peer' \in {"open", "owes", "done", "gone"}
    BY <1>3 DEF PeerSends
  <2> QED
    BY <1>3, <2>1, <2>2 DEF PeerSends
<1>4. CASE ReadPing \/ ReadPong \/ ReadClose
  BY <1>4, HandlesTyped DEF ReadPing, ReadPong, ReadClose
<1>5. CASE ReadHeaderBytes \/ ReadPayloadBytes \/ CloseReceived
  BY <1>5, CommitTyped DEF ReadHeaderBytes, ReadPayloadBytes, CloseReceived
<1>6. CASE ReadPayload
  BY <1>6, HeadTyped DEF ReadPayload
<1>7. CASE \/ ReadNext \/ ReadAcquire \/ ReadGotReadBlock \/ ReadSkipsHeader
           \/ ReadDefersCallback \/ ReadCallback
  BY <1>7
     DEF ReadNext, ReadAcquire, ReadGotReadBlock, ReadSkipsHeader,
         ReadDefersCallback, ReadCallback
<1>8. CASE \/ ReadPongPosted \/ ReadPongSent \/ ReadClosing \/ ReadClosePosted
           \/ ReadCloseSent
  BY <1>8
     DEF ReadPongPosted, ReadPongSent, ReadClosing, ReadClosePosted, ReadCloseSent
<1>9. CASE ReadUpcall \/ TornDown("rd") \/ TornDown("close") \/ CloseUpcall
  BY <1>9 DEF ReadUpcall, TornDown, CloseUpcall
<1>10. CASE CloseBegin \/ ClosePosted \/ CloseSent \/ CloseGotReadBlock
  BY <1>10 DEF CloseBegin, ClosePosted, CloseSent, CloseGotReadBlock
<1>11. ASSUME NEW o \in Simple, SimpleStep(o)
      PROVE  FrameOK'
  BY <1>11 DEF SimpleStep, SimpleBegin, SimplePosted, PingSent,
           SimpleUpcall
<1>12. CASE FrameSent \/ timeout_handler \/ TimerExpires
  BY <1>12 DEF FrameSent, timeout_handler, TimerExpires
<1>13. CASE Application
  <2>1. CASE AsyncReadSome
    BY <2>1 DEF AsyncReadSome
  <2>2. ASSUME NEW some \in BOOLEAN, AsyncRead(some)
        PROVE  FrameOK'
    BY <2>2 DEF AsyncRead
  <2>3. ASSUME NEW f \in BOOLEAN, NEW n \in 0 .. MaxFrames, AsyncWrite(f, n)
        PROVE  FrameOK'
    BY <2>3 DEF AsyncWrite
  <2>4. CASE AsyncPing \/ AsyncClose
    BY <2>4 DEF AsyncPing, AsyncClose
  <2> QED
    BY <1>13, <2>1, <2>2, <2>3, <2>4 DEF Application
<1>14. CASE PeerCloses \/ \E o \in Ops, r \in {"ok", "err"} : IoCompletes(o, r)
  BY <1>14 DEF PeerCloses, IoCompletes
<1> QED
  BY <1>1, <1>2, <1>3, <1>4, <1>5, <1>6, <1>7, <1>8, <1>9, <1>10, <1>11,
     <1>12, <1>13, <1>14
     DEF Next, Handlers, ReadStep, CloseStep, WriteStep, Simple

\* Every step keeps the number of calls left a natural number
LEMMA CallsStep == ASSUME CallsOK, Next PROVE CallsOK'
<1> USE DEF CallsOK
<1>1. CASE ReadStep
  BY <1>1
     DEF ReadStep, ReadNext, ReadAcquire, ReadGotReadBlock, ReadSkipsHeader,
         ReadDefersCallback, ReadCallback, ReadLoop, ReadHeaderBytes, ReadPing,
         ReadPongPosted, ReadPongSent, ReadClosing, ReadClosePosted, ReadCloseSent,
         ReadPong, ReadClose, ReadPayload, ReadPayloadBytes, TornDown, ReadUpcall
<1>2. CASE CloseStep
  BY <1>2
     DEF CloseStep, CloseBegin, ClosePosted, CloseSent, CloseGotReadBlock,
         CloseDrain, CloseReceived, TornDown, CloseUpcall
<1>3. CASE WriteStep \/ SimpleStep("ping") \/ SimpleStep("idle_ping")
  BY <1>3
     DEF WriteStep, FrameSent, SimpleStep, SimpleBegin, SimplePosted, PingSent,
         SimpleUpcall
<1>4. CASE Application
  BY <1>4
     DEF Application, AsyncRead, AsyncReadSome, AsyncWrite, AsyncPing, AsyncClose
<1>5. CASE PeerSends
  <2>1. \/ calls' = calls
        \/ calls["peer"] > 0 /\ calls' = [calls EXCEPT !["peer"] = @ - 1]
    BY <1>5 DEF PeerSends
  <2> QED
    BY <2>1
<1>6. CASE \/ timeout_handler \/ TimerExpires \/ PeerCloses
           \/ \E o \in Ops, r \in {"ok", "err"} : IoCompletes(o, r)
  BY <1>6 DEF timeout_handler, TimerExpires, PeerCloses, IoCompletes
<1> QED
  BY <1>1, <1>2, <1>3, <1>4, <1>5, <1>6 DEF Next, Handlers

\* A write never has fewer than no frames left: it counts down only while it sends
LEMMA WriterStep ==
  ASSUME ConstantsAssumption, WriterOK, LeftOK, Next
  PROVE  WriterOK'
<1> USE DEF WriterOK, writer
<1>1. CASE ReadStep
  BY <1>1
     DEF ReadStep, ReadNext, ReadAcquire, ReadGotReadBlock, ReadSkipsHeader,
         ReadDefersCallback, ReadCallback, ReadLoop, ReadHeaderBytes, ReadPing,
         ReadPongPosted, ReadPongSent, ReadClosing, ReadClosePosted, ReadCloseSent,
         ReadPong, ReadClose, ReadPayload, ReadPayloadBytes, TornDown, ReadUpcall
<1>2. CASE CloseStep
  BY <1>2
     DEF CloseStep, CloseBegin, ClosePosted, CloseSent, CloseGotReadBlock,
         CloseDrain, CloseReceived, TornDown, CloseUpcall
<1>3. CASE SimpleStep("wr") \/ SimpleStep("ping") \/ SimpleStep("idle_ping")
  BY <1>3 DEF SimpleStep, SimpleBegin, SimplePosted, PingSent,
           SimpleUpcall
<1>4. CASE FrameSent
  BY <1>4 DEF FrameSent, LeftOK
<1>5. CASE Application
  BY <1>5
     DEF Application, AsyncRead, AsyncReadSome, AsyncWrite, AsyncPing, AsyncClose,
         ConstantsAssumption
<1>6. CASE \/ timeout_handler \/ TimerExpires \/ PeerSends \/ PeerCloses
           \/ \E o \in Ops, r \in {"ok", "err"} : IoCompletes(o, r)
  BY <1>6 DEF timeout_handler, TimerExpires, PeerSends, PeerCloses, IoCompletes
<1> QED
  BY <1>1, <1>2, <1>3, <1>4, <1>5, <1>6 DEF Next, Handlers, WriteStep

----------------------------------------------------------------------------
(* The history *)

\* A failed assertion is one of the assertions
LEMMA AssertTyped ==
  ASSUME asserts \subseteq Assertions, NEW name \in Assertions, NEW cond,
         Assert(name, cond)
  PROVE  asserts' \subseteq Assertions
  BY DEF Assert

\* What the application is told is a result
LEMMA ReportTyped ==
  ASSUME HistoryOK, StatusOK, NEW o \in Ops, Report(o)
  PROVE  told' \in Seq(Results) /\ cut' \subseteq Ops
<1>1. told' = told \/ told' = Append(told, ec[o])
  BY DEF Report
<1>2. ec[o] \in Results /\ told \in Seq(Results)
  BY DEF StatusOK, HistoryOK
<1>3. told' \in Seq(Results)
  BY <1>1, <1>2
<1> QED
  BY <1>3 DEF Report, HistoryOK

\* Every step keeps the history typed
LEMMA HistoryStep == ASSUME HistoryOK, StatusOK, Next PROVE HistoryOK'
<1> USE DEF history
<1>1. ASSUME asserts' \subseteq Assertions, told' \in Seq(Results),
             cut' \subseteq Ops, expired' \in BOOLEAN
      PROVE  HistoryOK'
  BY <1>1 DEF HistoryOK
<1>2. CASE \/ ReadAcquire \/ ReadGotReadBlock \/ ReadSkipsHeader
           \/ ReadDefersCallback \/ ReadCallback \/ ReadLoop \/ ReadHeaderBytes
           \/ ReadPing \/ ReadPongPosted
  <2>1. asserts' \subseteq Assertions
    BY <1>2, AssertTyped
       DEF HistoryOK, Assertions, ReadAcquire, ReadGotReadBlock, ReadSkipsHeader,
           ReadDefersCallback, ReadCallback, ReadLoop, ReadHeaderBytes, ReadPing,
           ReadPongPosted
  <2>2. told' = told /\ cut' = cut /\ expired' = expired
    BY <1>2
       DEF ReadAcquire, ReadGotReadBlock, ReadSkipsHeader, ReadDefersCallback,
           ReadCallback, ReadLoop, ReadHeaderBytes, ReadPing, ReadPongPosted
  <2> QED
    BY <1>1, <2>1, <2>2 DEF HistoryOK
<1>3. CASE \/ ReadPongSent \/ ReadClosing \/ ReadClosePosted \/ ReadCloseSent
           \/ ReadPong \/ ReadClose \/ ReadPayload \/ ReadPayloadBytes
           \/ TornDown("rd")
  <2>1. asserts' \subseteq Assertions
    BY <1>3, AssertTyped
       DEF HistoryOK, Assertions, ReadPongSent, ReadClosing, ReadClosePosted,
           ReadCloseSent, ReadPong, ReadClose, ReadPayload, ReadPayloadBytes,
           TornDown
  <2>2. told' = told /\ cut' = cut /\ expired' = expired
    BY <1>3
       DEF ReadPongSent, ReadClosing, ReadClosePosted, ReadCloseSent, ReadPong,
           ReadClose, ReadPayload, ReadPayloadBytes, TornDown
  <2> QED
    BY <1>1, <2>1, <2>2 DEF HistoryOK
<1>4. CASE ReadNext
  <2>1. told' = told \/ \E e \in StopCauses : told' = Append(told, e)
    BY <1>4 DEF ReadNext
  <2>2. told' \in Seq(Results)
    BY <2>1 DEF HistoryOK, Results, StopCauses
  <2> QED
    BY <1>1, <1>4, <2>2 DEF ReadNext, HistoryOK
<1>5. CASE ReadUpcall
  <2>1. asserts' \subseteq Assertions /\ expired' = expired
    BY <1>5, AssertTyped DEF HistoryOK, Assertions, ReadUpcall
  <2>2. told' \in Seq(Results) /\ cut' \subseteq Ops
    BY <1>5, ReportTyped DEF HistoryOK, ReadUpcall, Ops
  <2> QED
    BY <1>1, <2>1, <2>2 DEF HistoryOK
<1>6. CASE \/ CloseBegin \/ ClosePosted \/ CloseSent \/ CloseGotReadBlock
           \/ CloseDrain \/ CloseReceived \/ TornDown("close")
  <2>1. asserts' \subseteq Assertions
    BY <1>6, AssertTyped
       DEF HistoryOK, Assertions, CloseBegin, ClosePosted, CloseSent,
           CloseGotReadBlock, CloseDrain, CloseReceived, TornDown, CloseLocked
  <2>2. told' = told /\ cut' = cut /\ expired' = expired
    BY <1>6
       DEF CloseBegin, ClosePosted, CloseSent, CloseGotReadBlock, CloseDrain,
           CloseReceived, TornDown, CloseLocked
  <2> QED
    BY <1>1, <2>1, <2>2 DEF HistoryOK
<1>7. CASE CloseUpcall
  <2>1. asserts' \subseteq Assertions /\ expired' = expired
    BY <1>7, AssertTyped DEF HistoryOK, Assertions, CloseUpcall
  <2>2. told' \in Seq(Results) /\ cut' \subseteq Ops
    BY <1>7, ReportTyped DEF CloseUpcall, Ops
  <2> QED
    BY <1>1, <2>1, <2>2 DEF HistoryOK
<1>8. ASSUME NEW o \in Simple, SimpleStep(o)
      PROVE  HistoryOK'
  <2>1. asserts' \subseteq Assertions /\ expired' = expired
    BY <1>8, AssertTyped
       DEF HistoryOK, Assertions, SimpleStep, SimpleBegin, SimplePosted, PingSent,
           SimpleUpcall
  <2>2. told' \in Seq(Results) /\ cut' \subseteq Ops
    BY <1>8, ReportTyped, SimpleFacts
       DEF HistoryOK, SimpleStep, SimpleBegin, SimplePosted, PingSent,
           SimpleUpcall
  <2> QED
    BY <1>1, <2>1, <2>2 DEF HistoryOK
<1>9. CASE \/ FrameSent \/ Application \/ TimerExpires \/ PeerSends \/ PeerCloses
           \/ \E o \in Ops, r \in {"ok", "err"} : IoCompletes(o, r)
  BY <1>9
     DEF HistoryOK, FrameSent, Application, AsyncRead, AsyncReadSome, AsyncWrite,
         AsyncPing, AsyncClose, TimerExpires, PeerSends, PeerCloses, IoCompletes
<1>10. CASE timeout_handler
  <2>1. asserts' = asserts /\ told' = told
    BY <1>10 DEF timeout_handler
  <2>2. cut' \subseteq Ops
    BY <1>10 DEF timeout_handler, HistoryOK, IdlePing, TimeOut
  <2>3. expired' \in BOOLEAN
    BY <1>10 DEF timeout_handler, HistoryOK, IdlePing, TimeOut
  <2> QED
    BY <1>1, <2>1, <2>2, <2>3 DEF HistoryOK
<1> QED
  BY <1>2, <1>3, <1>4, <1>5, <1>6, <1>7, <1>8, <1>9, <1>10
     DEF Next, Handlers, ReadStep, CloseStep, WriteStep, Simple

----------------------------------------------------------------------------
(* The two facts about the data *)

\* Where a woken operation resumes
Woke == {"post", "pong_post", "cl_post", "r_post"}

\* A step of another operation puts no operation where it was not, but for the
\* one it wakes
LEMMA OthersKeep ==
  ASSUME LockInv, NEW x \in Ops, NEW o \in Ops \ {x}, NEW n \in Ops \cup {None},
         NEW q \in {None, "rd", "close"}, Steps(o, n, q)
  PROVE  pc'[x] = pc[x] \/ pc'[x] \in Woke
<1>1. CASE x = n
  BY <1>1, PostLabel, NoneIsNoOp DEF Woke, Steps, LockInv
<1>2. CASE x # n
  BY <1>2, NoneIsNoOp DEF Woke, Steps
<1> QED
  BY <1>1, <1>2

\* The read and the write are where they were, or woken, after any step that is
\* not their own
LEMMA StepsOfOthers ==
  ASSUME LockInv, Next, NEW x \in Ops,
         x = "rd" => /\ ~ReadStep /\ ~AsyncReadSome
                     /\ \A s \in BOOLEAN : ~AsyncRead(s),
         x = "wr" => /\ ~WriteStep
                     /\ \A f \in BOOLEAN, n \in 0 .. MaxFrames : ~AsyncWrite(f, n)
  PROVE  x \in {"rd", "wr"} =>
           pc'[x] = pc[x] \/ pc'[x] \in Woke
<1> SUFFICES ASSUME x \in {"rd", "wr"}
             PROVE  pc'[x] = pc[x] \/ pc'[x] \in Woke
  OBVIOUS
<1>1. ASSUME NEW o \in Ops \ {x},
             \/ Lone(o)
             \/ \E n \in Ops \cup {None}, q \in {None, "rd", "close"} : Steps(o, n, q)
      PROVE  pc'[x] = pc[x] \/ pc'[x] \in Woke
  <2>1. CASE Lone(o)
    BY <2>1, <1>1 DEF Lone, LockInv, PcOK, Ops
  <2>2. CASE \E n \in Ops \cup {None}, q \in {None, "rd", "close"} : Steps(o, n, q)
    <3>1. PICK n \in Ops \cup {None}, q \in {None, "rd", "close"} : Steps(o, n, q)
      BY <2>2
    <3> QED
      BY <3>1, <1>1, OthersKeep
  <2> QED
    BY <1>1, <2>1, <2>2
<1>2. CASE ReadStep
  <2>1. x # "rd"
    BY <1>2
  <2>2. \/ Lone("rd")
        \/ \E n \in Ops \cup {None}, q \in {None, "close"} : Steps("rd", n, q)
    BY <1>2, ReadLone, ReadHeaderBytesSteps, ReadPingSteps, ReadPongSentSteps,
       ReadUpcallSteps DEF ReadStep
  <2> QED
    BY <1>1, <2>1, <2>2 DEF Ops
<1>3. CASE CloseStep
  <2>1. \/ Lone("close")
        \/ \E n \in Ops \cup {None}, q \in {None, "rd"} : Steps("close", n, q)
    BY <1>3, CloseLone, CloseUpcallSteps DEF CloseStep
  <2> QED
    BY <1>1, <2>1 DEF Ops
<1>4. ASSUME NEW o \in Simple \ {x}, SimpleStep(o)
      PROVE  pc'[x] = pc[x] \/ pc'[x] \in Woke
  <2>1. Lone(o) \/ \E n \in Ops \cup {None} : Steps(o, n, None)
    BY <1>4, SimpleLone, SimpleUpcallSteps DEF SimpleStep
  <2> QED
    BY <1>1, <1>4, <2>1, SimpleFacts
<1>5. CASE WriteStep
  <2>1. x # "wr" /\ x # None
    BY <1>5, NoneIsNoOp
  <2>2. Lone("wr") \/ \E n \in Ops \cup {None} : Steps("wr", n, None)
    BY <1>5, FrameSentSteps, SimpleLone, SimpleUpcallSteps
       DEF WriteStep, SimpleStep, Simple
  <2> QED
    BY <1>1, <2>1, <2>2 DEF Ops
<1>6. CASE Application
  <2>1. \/ x # "rd" /\ Lone("rd")
        \/ x # "wr" /\ Lone("wr")
        \/ Lone("ping") \/ Lone("close")
    BY <1>6, CallsLone DEF Application
  <2> QED
    BY <1>1, <2>1 DEF Ops
<1>7. CASE timeout_handler
  <2>1. Quiet \/ Steps("idle_ping", None, None)
    BY <1>7, TimerSteps
  <2> QED
    BY <1>1, <2>1 DEF Quiet, Ops
<1>8. CASE \/ TimerExpires \/ PeerSends \/ PeerCloses
           \/ \E o \in Ops, r \in {"ok", "err"} : IoCompletes(o, r)
  BY <1>8, EnvironmentQuiet DEF Quiet
<1>9. {"ping", "idle_ping"} \subseteq Simple \ {x}
  BY DEF Simple
<1> QED
  BY <1>2, <1>3, <1>4, <1>5, <1>6, <1>7, <1>8, <1>9 DEF Next, Handlers

\* A write that is sending always has a frame to send
LEMMA LeftStep == ASSUME LockInv, WriterOK, LeftOK, Next PROVE LeftOK'
<1> USE DEF LeftOK
<1>1. CASE WriteStep
  <2>1. CASE SimpleUpcall("wr")
    <3>1. PICK n \in Ops \cup {None} : pc' = [PcWoken(n) EXCEPT !["wr"] = "idle"]
      BY <2>1 DEF SimpleUpcall, YieldFrom
    <3>2. pc'["wr"] = "idle"
      BY <3>1 DEF PcWoken, Ops
    <3> QED
      BY <3>2
  <2>2. CASE FrameSent
    <3>1. CASE left > 1
      <4>1. left' = left - 1
        BY <2>2 DEF FrameSent
      <4> QED
        BY <3>1, <4>1 DEF WriterOK
    <3>2. CASE ~(left > 1)
      <4>1. pc' = [pc EXCEPT !["wr"] = "upcall"]
        BY <2>2, <3>2 DEF FrameSent, Goto, GotoFrom
      <4> QED
        BY <4>1 DEF LockInv, PcOK, Ops
    <3> QED
      BY <3>1, <3>2
  <2>3. CASE SimpleBegin("wr") \/ SimplePosted("wr")
    <3>1. left' = left
      BY <2>3 DEF SimpleBegin, SimplePosted, writer
    <3>2. \/ left # 0
          \/ \E l \in {"upcall", "susp"} : pc' = [pc EXCEPT !["wr"] = l]
      BY <2>3
         DEF SimpleBegin, SimplePosted, SimpleLocked, Goto, GotoFrom, Park,
             YieldFrom
    <3>3. CASE left # 0
      BY <3>1, <3>3 DEF WriterOK
    <3>4. CASE \E l \in {"upcall", "susp"} : pc' = [pc EXCEPT !["wr"] = l]
      BY <3>4 DEF LockInv, PcOK, Ops
    <3> QED
      BY <3>2, <3>3, <3>4
  <2> QED
    BY <1>1, <2>1, <2>2, <2>3 DEF WriteStep, SimpleStep, PingSent
<1>2. CASE \E f \in BOOLEAN, n \in 0 .. MaxFrames : AsyncWrite(f, n)
  <2>1. pc' = [pc EXCEPT !["wr"] = "begin"]
    BY <1>2 DEF AsyncWrite, Goto, GotoFrom
  <2> QED
    BY <2>1 DEF LockInv, PcOK, Ops
<1>3. CASE ~WriteStep /\ ~\E f \in BOOLEAN, n \in 0 .. MaxFrames : AsyncWrite(f, n)
  <2>1. left' = left
    <3>1. CASE ReadStep
      BY <3>1
         DEF writer, ReadStep, ReadNext, ReadAcquire, ReadGotReadBlock,
             ReadSkipsHeader, ReadDefersCallback, ReadCallback, ReadLoop,
             ReadHeaderBytes, ReadPing, ReadPongPosted, ReadPongSent, ReadClosing,
             ReadClosePosted, ReadCloseSent, ReadPong, ReadClose, ReadPayload,
             ReadPayloadBytes, TornDown, ReadUpcall
    <3>2. CASE CloseStep
      BY <3>2
         DEF writer, CloseStep, CloseBegin, ClosePosted, CloseSent,
             CloseGotReadBlock, CloseDrain, CloseReceived, TornDown, CloseUpcall
    <3>3. CASE SimpleStep("ping") \/ SimpleStep("idle_ping")
      BY <3>3
         DEF writer, SimpleStep, SimpleBegin, SimplePosted, PingSent,
           SimpleUpcall
    <3>4. CASE \/ AsyncReadSome \/ AsyncPing \/ AsyncClose
               \/ \E s \in BOOLEAN : AsyncRead(s)
      BY <3>4 DEF writer, AsyncReadSome, AsyncRead, AsyncPing, AsyncClose
    <3>5. CASE \/ timeout_handler \/ TimerExpires \/ PeerSends \/ PeerCloses
               \/ \E o \in Ops, r \in {"ok", "err"} : IoCompletes(o, r)
      BY <3>5
         DEF writer, timeout_handler, TimerExpires, PeerSends, PeerCloses,
             IoCompletes
    <3> QED
      BY <1>3, <3>1, <3>2, <3>3, <3>4, <3>5 DEF Next, Handlers, Application
  <2>2. pc'["wr"] = pc["wr"] \/ pc'["wr"] # "write"
    BY <1>3, StepsOfOthers DEF Woke, Ops
  <2> QED
    BY <2>1, <2>2
<1> QED
  BY <1>1, <1>2, <1>3

\* Nothing takes a control frame out of the buffer while the read dispatches it:
\* close_op, the other reader, is kept out by the read block
LEMMA BufStep == ASSUME LockInv, FrameOK, BufOK, Next PROVE BufOK'
<1> USE DEF BufOK
<1>1. CASE ReadLoop
  <2>1. \/ rd_buf' = rd_buf /\ rd_buf # <<>>
        \/ \E l \in {"hdr", "loop", "payload"} : pc' = [pc EXCEPT !["rd"] = l]
    BY <1>1 DEF ReadLoop, StartIo, YieldFrom, Goto, GotoFrom
  <2>2. CASE rd_buf' = rd_buf /\ rd_buf # <<>>
    BY <2>2
  <2>3. CASE \E l \in {"hdr", "loop", "payload"} : pc' = [pc EXCEPT !["rd"] = l]
    BY <2>3 DEF LockInv, PcOK, Ops
  <2> QED
    BY <2>1, <2>2, <2>3
<1>2. CASE ReadDefersCallback \/ ReadCallback
  BY <1>2 DEF ReadDefersCallback, ReadCallback, parser
<1>3. CASE \/ ReadNext \/ ReadAcquire \/ ReadGotReadBlock \/ ReadSkipsHeader
           \/ ReadPongPosted \/ ReadPong \/ ReadClose \/ ReadPayload
           \/ ReadPayloadBytes \/ ReadClosing \/ ReadClosePosted \/ ReadCloseSent
           \/ TornDown("rd")
  BY <1>3
     DEF LockInv, PcOK, Ops, Goto, GotoFrom, Park, StartIo, YieldFrom,
         ReadCloseLocked, ReadNext, ReadAcquire, ReadGotReadBlock, ReadSkipsHeader,
         ReadPongPosted, ReadPong, ReadClose, ReadPayload, ReadPayloadBytes,
         ReadClosing, ReadClosePosted, ReadCloseSent, TornDown
<1>4. CASE ReadHeaderBytes \/ ReadPing \/ ReadPongSent \/ ReadUpcall
  <2>1. CASE ReadHeaderBytes
    <3>1. \E l \in {"upcall", "loop", "r_susp"} :
            \/ pc' = [pc EXCEPT !["rd"] = l]
            \/ pc' = [[pc EXCEPT !["close"] = "r_post"] EXCEPT !["rd"] = l]
      BY <2>1 DEF ReadHeaderBytes, Goto, GotoFrom, YieldFrom
    <3> QED
      BY <3>1 DEF LockInv, PcOK, Ops
  <2>2. CASE ReadPing
    <3>1. \E l \in {"loop", "pong_write", "pong_susp"} :
            \/ pc' = [pc EXCEPT !["rd"] = l]
            \/ pc' = [[pc EXCEPT !["close"] = "r_post"] EXCEPT !["rd"] = l]
      BY <2>2 DEF ReadPing, Goto, GotoFrom, YieldFrom
    <3> QED
      BY <3>1 DEF LockInv, PcOK, Ops
  <2>3. CASE ReadPongSent
    <3>1. \/ pc' = [pc EXCEPT !["rd"] = "upcall"]
          \/ \E n \in Ops \cup {None} : pc' = [PcWoken(n) EXCEPT !["rd"] = "acquire"]
      BY <2>3 DEF ReadPongSent, Goto, GotoFrom
    <3> QED
      BY <3>1 DEF PcWoken, LockInv, PcOK, Ops
  <2>4. CASE ReadUpcall
    <3>1. \E n \in Ops \cup {None}, l \in {"next", "idle"} :
            \/ pc' = [PcWoken(n) EXCEPT !["rd"] = l]
            \/ pc' = [[PcWoken(n) EXCEPT !["close"] = "r_post"] EXCEPT !["rd"] = l]
      BY <2>4 DEF ReadUpcall, GotoFrom, YieldFrom
    <3> QED
      BY <3>1 DEF PcWoken, Ops
  <2> QED
    BY <1>4, <2>1, <2>2, <2>3, <2>4
<1>5. CASE AsyncReadSome \/ \E s \in BOOLEAN : AsyncRead(s)
  BY <1>5 DEF AsyncReadSome, AsyncRead, Goto, GotoFrom, LockInv, PcOK, Ops
<1>6. CASE ~ReadStep /\ ~AsyncReadSome /\ ~\E s \in BOOLEAN : AsyncRead(s)
  <2>1. pc'["rd"] = pc["rd"] \/ pc'["rd"] \notin {"ctl", "cb"}
    BY <1>6, StepsOfOthers DEF Woke, Ops
  <2>2. CASE CloseDrain
    <3>1. pc["close"] = "drain"
      BY <2>2 DEF CloseDrain
    <3>2. rd_block = "close"
      BY <3>1 DEF LockInv, Placed, InRead, Ops
    <3>3. pc["rd"] \notin {"ctl", "cb"}
      BY <3>2 DEF LockInv, Placed, InRead, Ops
    <3> QED
      BY <2>1, <3>3
  <2>3. CASE CloseReceived
    BY <2>1, <2>3, CommitTyped DEF CloseReceived
  <2>4. CASE \/ CloseBegin \/ ClosePosted \/ CloseSent \/ CloseGotReadBlock
             \/ TornDown("close") \/ CloseUpcall
    BY <2>1, <2>4
       DEF parser, CloseBegin, ClosePosted, CloseSent, CloseGotReadBlock, TornDown,
           CloseUpcall
  <2>5. CASE WriteStep \/ SimpleStep("ping") \/ SimpleStep("idle_ping")
    BY <2>1, <2>5
       DEF parser, WriteStep, FrameSent, SimpleStep, SimpleBegin, SimplePosted,
           PingSent, SimpleUpcall
  <2>6. CASE \/ AsyncPing \/ AsyncClose
             \/ \E f \in BOOLEAN, n \in 0 .. MaxFrames : AsyncWrite(f, n)
    BY <2>1, <2>6 DEF parser, AsyncWrite, AsyncPing, AsyncClose
  <2>7. CASE \/ timeout_handler \/ TimerExpires \/ PeerSends \/ PeerCloses
             \/ \E o \in Ops, r \in {"ok", "err"} : IoCompletes(o, r)
    BY <2>1, <2>7
       DEF parser, timeout_handler, TimerExpires, PeerSends, PeerCloses, IoCompletes
  <2> QED
    BY <1>6, <2>2, <2>3, <2>4, <2>5, <2>6, <2>7
       DEF Next, Handlers, Application, CloseStep
<1> QED
  BY <1>1, <1>2, <1>3, <1>4, <1>5, <1>6 DEF ReadStep

----------------------------------------------------------------------------
\* Every variable has its type in every reachable state: in particular the read
\* never parses or consumes from an empty buffer, and the counts of frames,
\* calls and queued timer handlers never go below zero.
THEOREM TypeCorrect == Spec => []TypeOK
<1>1. Init => TypeInv
  BY InitTypes, ConstantsAssumption
<1>2. TypeInv /\ [Next]_vars => TypeInv'
  <2> SUFFICES ASSUME TypeInv, [Next]_vars
               PROVE  TypeInv'
    OBVIOUS
  <2>1. LockInv'
    BY NextIsSteps, StepsKeepLocks, QuietKeepsLocks DEF TypeInv
  <2>2. CASE Next
    BY <2>1, <2>2, ConstantsAssumption, IoStep, StatusStep, FlagsStep, FrameStep,
       CallsStep, WriterStep, HistoryStep, LeftStep, BufStep DEF TypeInv
  <2>3. CASE UNCHANGED vars
    <3> USE <2>3 DEF vars, TypeInv
    <3>1. IoOK' /\ StatusOK'
      BY DEF IoOK, StatusOK, session
    <3>2. FlagsOK' /\ CountsOK'
      BY DEF FlagsOK, CountsOK, closing, timer
    <3>3. FrameOK' /\ BufOK'
      BY DEF FrameOK, BufOK, parser, frame, world
    <3>4. WriterOK' /\ LeftOK' /\ CallsOK' /\ HistoryOK'
      BY DEF WriterOK, LeftOK, CallsOK, HistoryOK, writer, history
    <3> QED
      BY <2>1, <3>1, <3>2, <3>3, <3>4
  <2> QED
    BY <2>2, <2>3
<1> QED
  BY <1>1, <1>2, TypeInvTypes, PTL DEF Spec

-----------------------------------------------------------------------------
(* What the flags of a websocket::stream promise, for any number of calls,
   frames and messages, any time limits and any failing I/O, as long as no
   control callback is set: a dead stream stays dead, nothing is sent behind the
   close frame, a read that lent the read block to close_op stops, and the
   socket never sees two readers.

   Without a callback the read dispatches a frame in the same run of the
   executor in which check_stop_now let it go on, so it never closes a stream
   that has died in the meantime; with one it yields in between, and may.      *)

Alive == status \notin Dead

\* The labels between two yields where the read works on what it has received
Dispatching == {"loop", "ctl", "payload", "closing"}

\* Only a live stream is read from, and whoever stops or completes a closing
\* handshake leaves a dead one
AliveInv ==
  /\ pc["rd"] \in Dispatching => cur = "rd" /\ Alive
  /\ pc["close"] = "drain" => cur = "close" /\ Alive
  /\ pc["rd"] # "cb"
  /\ timed_out \/ ec_delivered => ~Alive
  /\ pc["close"] = "upcall" \/ pc["rd"] = "r_post" => ~Alive

\* The operation that has sent, or is sending, the close frame
Closes == \/ /\ wr_block = "close"
             /\ pc["close"] \in {"write", "r_susp", "r_post", "drain", "hdr", "pay", "td"}
          \/ wr_block = "rd" /\ pc["rd"] \in {"cl_write", "td"}

\* Once the close frame is sent the write block stays with its sender until the
\* stream is dead, and no other write is in flight
SentInv ==
  /\ status = "open" => ~wr_close
  /\ status = "closing" => wr_close
  /\ wr_close /\ Alive => Closes
  /\ wr_close => pc["rd"] # "pong_write" /\ \A o \in Simple : pc[o] # "write"

\* Once the peer's close frame is read nothing more is read, but by a teardown
ReceivedInv ==
  /\ pc["close"] = "td" => rd_close \/ rd_block = "close"
  /\ rd_close => pc["rd"] \notin {"hdr", "pay"}
  /\ rd_close /\ Alive => \/ pc["rd"] \in {"closing", "cl_susp", "cl_post", "cl_write", "td"}
                          \/ pc["close"] = "td" /\ rd_block = "close"

CloseInv == AliveInv /\ SentInv /\ ReceivedInv

\* What the other two invariants give the proofs below
Base == LockInv /\ TypeOK

----------------------------------------------------------------------------
(* Stopping and waking *)

\* Whoever stops leaves a dead stream behind
LEMMA StopIsDead ==
  ASSUME AliveInv, NEW o, NEW e, Stop(o, e)
  PROVE  ~Alive'
  BY DEF AliveInv, Stop, TimeoutDue, Aborts, Alive, Dead, session

\* Whoever goes on has a live stream
LEMMA GoOnIsAlive ==
  ASSUME NEW e, GoOn(e)
  PROVE  Alive /\ ~timed_out /\ e = "ok"
  BY DEF GoOn, TimeoutDue, Alive

\* An invoked saved handler resumes its operation at a post, nobody else moves
LEMMA WokenAt ==
  ASSUME LockInv, NEW o \in Ops, NEW n \in Ops \cup {None}, NextWriter(o, n),
         ~WaitsWr(o)
  PROVE  /\ PcWoken(n) \in [Ops -> Labels]
         /\ \A x \in Ops : \/ PcWoken(n)[x] = pc[x]
                           \/ /\ WaitsWr(x) /\ x = n
                              /\ PcWoken(n)[x] \in {"post", "pong_post", "cl_post"}
<1>1. n = None \/ WaitsWr(n)
  BY NextWriterIs
<1>2. n # None => n \in Ops
  OBVIOUS
<1>3. /\ PcWoken(n) \in [Ops -> Labels]
      /\ \A x \in Ops : PcWoken(n)[x] = IF x = n THEN PostOf[pc[x]] ELSE pc[x]
  BY <1>1, PcWokenIs DEF LockInv
<1>4. n # None => PostOf[pc[n]] \in {"post", "pong_post", "cl_post"}
  BY <1>1, <1>2, PostLabel, NoneIsNoOp DEF LockInv
<1> QED
  BY <1>1, <1>3, <1>4, NoneIsNoOp

----------------------------------------------------------------------------
(* AliveInv: the steps of each operation *)

\* A write or a ping that goes on, stops or completes
LEMMA SimpleAlive ==
  ASSUME Base, AliveInv, NEW o \in Simple, SimpleStep(o)
  PROVE  AliveInv' /\ (~Alive => ~Alive')
<1> USE SimpleFacts DEF Base, LockInv, PcOK, AliveInv, Alive, Dispatching
<1>1. CASE SimpleBegin(o)
  <2>1. /\ \E l \in {"upcall", "write", "susp"} : pc' = [pc EXCEPT ![o] = l]
        /\ \/ UNCHANGED session
           \/ ~Alive'
        /\ cur = o
    BY <1>1, StopIsDead
       DEF SimpleBegin, SimpleLocked, Goto, GotoFrom, Park, StartIo, YieldFrom
  <2> QED
    BY <2>1 DEF session
<1>2. CASE SimplePosted(o)
  <2>1. /\ \E l \in {"upcall", "write"} : pc' = [pc EXCEPT ![o] = l]
        /\ \/ UNCHANGED session
           \/ ~Alive'
        /\ cur = None
    BY <1>2, StopIsDead
       DEF SimplePosted, SimpleLocked, Resumed, Goto, GotoFrom, StartIo, YieldFrom
  <2> QED
    BY <2>1 DEF session, None
<1>3. CASE PingSent(o)
  <2>1. /\ pc' = [pc EXCEPT ![o] = "upcall"]
        /\ \/ UNCHANGED session
           \/ ~Alive'
        /\ cur = None
    BY <1>3, StopIsDead DEF PingSent, Resumed, Goto, GotoFrom
  <2> QED
    BY <2>1 DEF session, None
<1>4. CASE SimpleUpcall(o)
  <2>1. PICK n \in Ops \cup {None} :
          NextWriter(o, n) /\ pc' = [PcWoken(n) EXCEPT ![o] = "idle"]
    BY <1>4 DEF SimpleUpcall, YieldFrom
  <2>2. cur = o /\ UNCHANGED session /\ pc[o] = "upcall"
    BY <1>4 DEF SimpleUpcall
  <2>3. \A x \in Ops \ {o} : pc'[x] = pc[x] \/ pc'[x] \in {"post", "pong_post", "cl_post"}
    BY <2>1, <2>2, WokenAt DEF WaitsWr
  <2> QED
    BY <2>2, <2>3 DEF session, Ops
<1> QED
  BY <1>1, <1>2, <1>3, <1>4 DEF SimpleStep

\* ... or sends the next frame of its message
LEMMA FrameSentAlive ==
  ASSUME Base, AliveInv, FrameSent
  PROVE  AliveInv' /\ (~Alive => ~Alive')
<1>1. /\ pc["wr"] = "write" /\ cur = None
      /\ UNCHANGED session \/ ~Alive'
  BY StopIsDead DEF FrameSent, Resumed
<1>2. \A x \in Ops \ {"wr"} : pc'[x] = pc[x] \/ pc'[x] \in {"post", "pong_post", "cl_post"}
  <2>1. CASE \E l \in {"upcall", "write"} : pc' = [pc EXCEPT !["wr"] = l]
    BY <2>1 DEF Base, LockInv, PcOK
  <2>2. CASE \E n \in Ops : NextWriter("wr", n) /\ pc' = [PcWoken(n) EXCEPT !["wr"] = "susp"]
    BY <1>1, <2>2, WokenAt DEF WaitsWr, Base, Ops
  <2> QED
    BY <2>1, <2>2 DEF FrameSent, Goto, GotoFrom, StartIo, YieldFrom
<1> QED
  BY <1>1, <1>2 DEF AliveInv, Alive, Dispatching, session, Ops, None

\* close_op drains only a live stream and completes on a dead one
LEMMA CloseAlive ==
  ASSUME Base, AliveInv, CloseStep
  PROVE  AliveInv' /\ (~Alive => ~Alive')
<1> USE DEF Base, LockInv, PcOK, AliveInv, Alive, Dispatching, Ops, None, Goto, GotoFrom,
            Park, StartIo, YieldFrom
<1>1. CASE CloseBegin \/ ClosePosted
  <2>1. /\ cur \in {"close", None}
        /\ \/ pc' = [pc EXCEPT !["close"] = "upcall"] /\ ~Alive'
           \/ pc' = [pc EXCEPT !["close"] = "susp"] /\ UNCHANGED session
           \/ /\ pc' = [pc EXCEPT !["close"] = "write"] /\ Alive
              /\ UNCHANGED <<timed_out, ec_delivered>>
    BY <1>1, StopIsDead, GoOnIsAlive DEF CloseBegin, ClosePosted, CloseLocked, Resumed
  <2> QED
    BY <2>1 DEF session
<1>2. CASE CloseSent \/ CloseGotReadBlock \/ CloseDrain \/ CloseReceived
  <2>1. /\ cur \in {"close", None}
        /\ \/ pc' = [pc EXCEPT !["close"] = "upcall"] /\ ~Alive'
           \/ /\ \E l \in {"td", "r_susp", "hdr", "pay"} : pc' = [pc EXCEPT !["close"] = l]
              /\ UNCHANGED session
           \/ /\ pc' = [pc EXCEPT !["close"] = "drain"] /\ cur' = "close" /\ Alive
              /\ UNCHANGED session
    BY <1>2, StopIsDead, GoOnIsAlive
       DEF CloseSent, CloseGotReadBlock, CloseDrain, CloseReceived, Resumed
  <2> QED
    BY <2>1 DEF session
<1>3. CASE TornDown("close")
  <2>1. cur = None /\ ~Alive' /\ pc' = [pc EXCEPT !["close"] = "upcall"]
    BY <1>3 DEF TornDown, Resumed, FinalStatus, Dead
  <2> QED
    BY <2>1
<1>4. CASE CloseUpcall
  <2>1. PICK n \in Ops \cup {None} :
          /\ NextWriter("close", n)
          /\ \/ pc' = [PcWoken(n) EXCEPT !["close"] = "idle"]
             \/ pc' = [[PcWoken(n) EXCEPT !["rd"] = "r_post"] EXCEPT !["close"] = "idle"]
    BY <1>4 DEF CloseUpcall
  <2>2. cur = "close" /\ UNCHANGED session /\ pc["close"] = "upcall"
    BY <1>4 DEF CloseUpcall
  <2>3. pc'["close"] = "idle"
        /\ pc'["rd"] \in {pc["rd"], "post", "pong_post", "cl_post", "r_post"}
    BY <2>1, <2>2, WokenAt DEF WaitsWr
  <2> QED
    BY <2>2, <2>3 DEF session
<1> QED
  BY <1>1, <1>2, <1>3, <1>4 DEF CloseStep

\* The read moves to label l: it dispatches only what check_stop_now let through
ReadMoves(l) ==
  /\ pc'["rd"] = l /\ l \notin {"cb", "r_post"}
  /\ pc'["close"] \in {"upcall", "drain"} => pc'["close"] = pc["close"]
  /\ l \in Dispatching => cur' = "rd" /\ Alive
  /\ \/ UNCHANGED session
     \/ ~Alive' /\ l \notin Dispatching
     \/ Alive /\ UNCHANGED <<timed_out, ec_delivered>> /\ (l \in Dispatching => Alive')

\* Such a move keeps the invariant
LEMMA ReadMovesAlive ==
  ASSUME AliveInv, NEW l, ReadMoves(l), cur # "close"
  PROVE  AliveInv' /\ (~Alive => ~Alive')
  BY DEF ReadMoves, AliveInv, Alive, session

\* The read runs while no other operation does
LEMMA ReadRuns == ReadStep => cur # "close"
  BY DEF ReadStep, ReadNext, ReadAcquire, ReadGotReadBlock, ReadLoop, ReadSkipsHeader,
     ReadHeaderBytes, ReadDefersCallback, ReadCallback, ReadPing, ReadPongPosted,
     ReadPongSent, ReadPong, ReadClose, ReadPayload, ReadPayloadBytes, ReadClosing,
     ReadClosePosted, ReadCloseSent, TornDown, ReadUpcall, Handles, Resumed, None

\* Two of its steps are those of a stream with a control callback
LEMMA NoCallback ==
  ASSUME ~CtrlCb, AliveInv
  PROVE  ~ReadDefersCallback /\ ~ReadCallback
  BY DEF ReadDefersCallback, ReadCallback, CallsBack, AliveInv

\* Every step of the read is such a move
LEMMA ReadAlive ==
  ASSUME ~CtrlCb, Base, AliveInv, ReadStep
  PROVE  \E l : ReadMoves(l)
<1> USE DEF Base, LockInv, PcOK, Ops, None, Goto, GotoFrom, Park, Post, StartIo, YieldFrom
<1>1. CASE ReadNext
  <2>1. ReadMoves("idle") \/ ReadMoves("acquire")
    BY <1>1, StopIsDead DEF ReadNext, ReadMoves, Dispatching
  <2> QED
    BY <2>1
<1>2. CASE ReadAcquire \/ ReadGotReadBlock
  <2>1. ReadMoves("loop") \/ ReadMoves("upcall") \/ ReadMoves("r_susp")
    BY <1>2, StopIsDead DEF ReadAcquire, ReadGotReadBlock, ReadMoves, Dispatching, Alive
  <2> QED
    BY <2>1
<1>3. CASE ReadLoop \/ ReadSkipsHeader
  <2>1. Alive /\ UNCHANGED session
    BY <1>3 DEF ReadLoop, ReadSkipsHeader, AliveInv, Dispatching
  <2>2. \/ pc' = [pc EXCEPT !["rd"] = "hdr"]
        \/ \E l \in {"closing", "ctl", "loop", "payload"} :
             pc' = [pc EXCEPT !["rd"] = l] /\ cur' = "rd"
    BY <1>3 DEF ReadLoop, ReadSkipsHeader
  <2>3. \E l \in {"hdr", "closing", "ctl", "loop", "payload"} : ReadMoves(l)
    BY <2>1, <2>2 DEF ReadMoves, Dispatching
  <2> QED
    BY <2>3
<1>4. CASE ReadHeaderBytes
  <2>1. ReadMoves("upcall") \/ ReadMoves("r_susp") \/ ReadMoves("loop")
    BY <1>4, StopIsDead, GoOnIsAlive DEF ReadHeaderBytes, ReadMoves, Dispatching
  <2> QED
    BY <2>1
<1>5. CASE ReadPing
  <2>1. Alive /\ UNCHANGED session
    BY <1>5 DEF ReadPing, Handles, AliveInv, Dispatching
  <2>2. ReadMoves("loop") \/ ReadMoves("pong_write") \/ ReadMoves("pong_susp")
    BY <1>5, <2>1 DEF ReadPing, ReadMoves, Dispatching
  <2> QED
    BY <2>2
<1>6. CASE ReadPongPosted
  <2>1. ReadMoves("upcall") \/ ReadMoves("pong_write")
    BY <1>6, StopIsDead DEF ReadPongPosted, ReadMoves, Dispatching
  <2> QED
    BY <2>1
<1>7. CASE ReadPongSent
  <2>1. CASE pc' = [pc EXCEPT !["rd"] = "upcall"] /\ ~Alive'
    <3>1. ReadMoves("upcall")
      BY <2>1 DEF ReadMoves, Dispatching
    <3> QED
      BY <3>1
  <2>2. CASE UNCHANGED session /\ \E n \in Ops \cup {None} :
               NextWriter("rd", n) /\ pc' = [PcWoken(n) EXCEPT !["rd"] = "acquire"]
    <3>1. PICK n \in Ops \cup {None} :
            NextWriter("rd", n) /\ pc' = [PcWoken(n) EXCEPT !["rd"] = "acquire"]
      BY <2>2
    <3>2. ~WaitsWr("rd")
      BY <1>7 DEF ReadPongSent, WaitsWr
    <3>3. pc'["rd"] = "acquire" /\ (pc'["close"] \in {"upcall", "drain"} => pc'["close"] = pc["close"])
      BY <3>1, <3>2, WokenAt
    <3>4. ReadMoves("acquire")
      BY <2>2, <3>3 DEF ReadMoves, Dispatching
    <3> QED
      BY <3>4
  <2> QED
    BY <1>7, <2>1, <2>2, StopIsDead DEF ReadPongSent
<1>8. CASE ReadPong \/ ReadClose
  <2>1. Alive /\ UNCHANGED session /\ cur' = "rd"
    BY <1>8 DEF ReadPong, ReadClose, Handles, AliveInv, Dispatching
  <2>2. ReadMoves("loop") \/ ReadMoves("closing")
    BY <1>8, <2>1 DEF ReadPong, ReadClose, ReadMoves, Dispatching
  <2> QED
    BY <2>2
<1>9. CASE ReadPayload
  <2>1. Alive
    BY <1>9 DEF ReadPayload, AliveInv, Dispatching
  <2>2. ReadMoves("pay") \/ ReadMoves("upcall") \/ ReadMoves("closing")
    BY <1>9, <2>1, StopIsDead DEF ReadPayload, ReadMoves, Dispatching
  <2> QED
    BY <2>2
<1>10. CASE ReadPayloadBytes
  <2>1. ReadMoves("upcall") \/ ReadMoves("payload")
    BY <1>10, StopIsDead, GoOnIsAlive DEF ReadPayloadBytes, ReadMoves, Dispatching
  <2> QED
    BY <2>1
<1>11. CASE ReadClosing
  <2>1. Alive
    BY <1>11 DEF ReadClosing, AliveInv, Dispatching
  <2>2. ReadMoves("cl_susp") \/ ReadMoves("cl_write") \/ ReadMoves("td")
    BY <1>11, <2>1 DEF ReadClosing, ReadCloseLocked, ReadMoves, Dispatching
  <2> QED
    BY <2>2
<1>12. CASE ReadClosePosted \/ ReadCloseSent
  <2>1. \/ pc' = [pc EXCEPT !["rd"] = "upcall"] /\ ~Alive'
        \/ /\ \E l \in {"cl_write", "td"} : pc' = [pc EXCEPT !["rd"] = l]
           /\ UNCHANGED session \/ (Alive /\ UNCHANGED <<timed_out, ec_delivered>>)
    BY <1>12, StopIsDead, GoOnIsAlive DEF ReadClosePosted, ReadCloseSent, ReadCloseLocked
  <2>2. ReadMoves("upcall") \/ ReadMoves("cl_write") \/ ReadMoves("td")
    BY <2>1 DEF ReadMoves, Dispatching
  <2> QED
    BY <2>2
<1>13. CASE TornDown("rd")
  <2>1. ReadMoves("upcall")
    BY <1>13 DEF TornDown, FinalStatus, ReadMoves, Dispatching, Alive, Dead
  <2> QED
    BY <2>1
<1>14. CASE ReadUpcall
  <2>1. PICK n \in Ops \cup {None}, l \in {"next", "idle"} :
          /\ NextWriter("rd", n) \/ n = None
          /\ \/ pc' = [PcWoken(n) EXCEPT !["rd"] = l]
             \/ pc' = [[PcWoken(n) EXCEPT !["close"] = "r_post"] EXCEPT !["rd"] = l]
    BY <1>14 DEF ReadUpcall
  <2>2. ~WaitsWr("rd") /\ UNCHANGED session
    BY <1>14 DEF ReadUpcall, WaitsWr
  <2>3. CASE NextWriter("rd", n)
    <3>1. pc'["rd"] = l /\ (pc'["close"] \in {"upcall", "drain"} => pc'["close"] = pc["close"])
      BY <2>1, <2>2, <2>3, WokenAt
    <3> QED
      BY <2>2, <3>1 DEF ReadMoves, Dispatching
  <2>4. CASE n = None
    <3>1. PcWoken(n) \in [Ops -> Labels] /\ PcWoken(n)["close"] = pc["close"]
      BY <2>4, PcWokenIs, NoneIsNoOp
    <3>2. pc'["rd"] = l /\ (pc'["close"] \in {"upcall", "drain"} => pc'["close"] = pc["close"])
      BY <2>1, <3>1
    <3> QED
      BY <2>2, <3>2 DEF ReadMoves, Dispatching
  <2> QED
    BY <2>1, <2>3, <2>4
<1> QED
  BY <1>1, <1>2, <1>3, <1>4, <1>5, <1>6, <1>7, <1>8, <1>9, <1>10, <1>11, <1>12, <1>13,
     <1>14, NoCallback DEF ReadStep

\* Starting an operation leaves the stream as it is
LEMMA CallsAlive ==
  ASSUME Base, AliveInv, Application
  PROVE  AliveInv' /\ (~Alive => ~Alive')
<1>1. \/ \E l \in {"next", "acquire"} : pc' = [pc EXCEPT !["rd"] = l]
      \/ \E o \in Ops \ {"rd"} : pc' = [pc EXCEPT ![o] = "begin"]
  BY DEF Application, AsyncReadSome, AsyncRead, AsyncWrite, AsyncPing, AsyncClose,
         Goto, GotoFrom, Ops
<1>2. cur = None /\ UNCHANGED session
  BY DEF Application, AsyncReadSome, AsyncRead, AsyncWrite, AsyncPing, AsyncClose
<1> QED
  BY <1>1, <1>2 DEF Base, LockInv, PcOK, AliveInv, Alive, Dispatching, session, Ops, None

\* A timeout leaves a dead stream, and the rest of the environment does not touch it
LEMMA EnvironmentAlive ==
  ASSUME Base, AliveInv,
         \/ timeout_handler \/ TimerExpires \/ PeerSends \/ PeerCloses
         \/ \E o \in Ops, r \in {"ok", "err"} : IoCompletes(o, r)
         \/ UNCHANGED vars
  PROVE  AliveInv' /\ (~Alive => ~Alive')
<1>1. CASE timeout_handler
  <2>1. cur = None /\ pc["rd"] \notin Dispatching /\ pc["close"] # "drain"
    BY <1>1 DEF timeout_handler, AliveInv, Ops, None
  <2>2. /\ \/ UNCHANGED session
           \/ ~Alive'
        /\ pc' = pc \/ pc' = [pc EXCEPT !["idle_ping"] = "begin"]
    BY <1>1 DEF timeout_handler, IdlePing, TimeOut, Goto, GotoFrom, Alive, Dead
  <2> QED
    BY <2>1, <2>2 DEF Base, LockInv, PcOK, AliveInv, Alive, session, Ops
<1>2. CASE \/ TimerExpires \/ PeerSends \/ PeerCloses
           \/ \E o \in Ops, r \in {"ok", "err"} : IoCompletes(o, r)
           \/ UNCHANGED vars
  <2>1. UNCHANGED <<pc, cur, session>>
    BY <1>2 DEF TimerExpires, PeerSends, PeerCloses, IoCompletes, vars
  <2> QED
    BY <2>1 DEF AliveInv, Alive, session
<1> QED
  BY <1>1, <1>2

\* A step from a state where the three invariants hold never revives the stream
LEMMA NextAlive ==
  ASSUME ~CtrlCb, Base, AliveInv, [Next]_vars
  PROVE  AliveInv' /\ (~Alive => ~Alive')
<1>1. CASE ReadStep
  BY <1>1, ReadAlive, ReadMovesAlive, ReadRuns
<1>2. CASE WriteStep \/ SimpleStep("ping") \/ SimpleStep("idle_ping")
  BY <1>2, SimpleAlive, FrameSentAlive DEF WriteStep, Simple
<1>3. CASE CloseStep
  BY <1>3, CloseAlive
<1>4. CASE Application
  BY <1>4, CallsAlive
<1>5. CASE \/ timeout_handler \/ TimerExpires \/ PeerSends \/ PeerCloses
           \/ \E o \in Ops, r \in {"ok", "err"} : IoCompletes(o, r)
           \/ UNCHANGED vars
  BY <1>5, EnvironmentAlive
<1> QED
  BY <1>1, <1>2, <1>3, <1>4, <1>5 DEF Next, Handlers

----------------------------------------------------------------------------
(* SentInv *)

\* Operations that do not hold the write block leave it with the one that closes
LEMMA OthersKeepCloses ==
  ASSUME LockInv, NEW o \in Ops, NEW n \in Ops \cup {None},
         NEW q \in {None, "rd", "close"}, Steps(o, n, q), Closes, wr_block # o
  PROVE  Closes'
<1>1. wr_block' = wr_block /\ wr_block # None
  BY NoneIsNoOp DEF Steps, Closes, None
<1>2. n = None
  BY NoneIsNoOp DEF Steps
<1>3. CASE wr_block = "close"
  <2>1. pc'["close"] = pc["close"] \/ pc'["close"] = "r_post"
    BY <1>2, <1>3, NoneIsNoOp DEF Steps, Ops
  <2> QED
    BY <1>1, <1>3, <2>1 DEF Closes
<1>4. CASE wr_block = "rd" /\ pc["rd"] \in {"cl_write", "td"}
  <2>1. q # "rd"
    BY <1>4 DEF Steps, None
  <2>2. pc'["rd"] = pc["rd"]
    BY <1>2, <1>4, <2>1, NoneIsNoOp DEF Steps, Ops
  <2> QED
    BY <1>1, <1>4, <2>2 DEF Closes
<1> QED
  BY <1>3, <1>4 DEF Closes

\* Nobody is woken into the middle of a write
LEMMA NobodyElseWrites ==
  ASSUME LockInv, NEW o \in Ops, NEW n \in Ops \cup {None},
         NEW q \in {None, "rd", "close"}, Steps(o, n, q), NEW x \in Ops \ {o}
  PROVE  pc'[x] \in {"write", "pong_write"} => pc'[x] = pc[x]
<1>1. CASE x = n
  <2>1. WaitsWr(n) /\ n \in Ops
    BY <1>1, NoneIsNoOp DEF Steps
  <2>2. pc'[x] = PostOf[pc[n]]
    BY <1>1 DEF Steps
  <2> QED
    BY <2>1, <2>2, PostLabel DEF LockInv
<1> QED
  BY <1>1 DEF Steps

\* A step that leaves wr_close alone, starts no write once it is set, and keeps
\* the block if it closes
LEMMA KeepsSent ==
  ASSUME Base, SentInv, ~Alive => ~Alive',
         NEW o \in Ops, NEW n \in Ops \cup {None},
         NEW q \in {None, "rd", "close"}, Steps(o, n, q),
         wr_close' = wr_close, status' = status \/ ~Alive',
         o = wr_block /\ wr_close /\ Alive' => Closes',
         \/ ~wr_close \/ o = "close"
         \/ pc'[o] = pc[o] \/ pc'[o] \notin {"write", "pong_write"}
  PROVE  SentInv'
<1>1. /\ status' = "open" => ~wr_close'
      /\ status' = "closing" => wr_close'
  BY DEF SentInv, Alive, Dead
<1>2. wr_close' /\ Alive' => Closes'
  BY OthersKeepCloses DEF Base, SentInv
<1>3. wr_close' => pc'["rd"] # "pong_write" /\ \A x \in Simple : pc'[x] # "write"
  <2>1. SUFFICES ASSUME wr_close
                 PROVE  pc'["rd"] # "pong_write" /\ \A x \in Simple : pc'[x] # "write"
    OBVIOUS
  <2>2. ASSUME NEW x \in Ops \ {"close"}, pc'[x] \in {"write", "pong_write"}
        PROVE  pc'[x] = pc[x]
    BY <2>1, <2>2, NobodyElseWrites DEF Base
  <2>3. "rd" \in Ops \ {"close"} /\ Simple \subseteq Ops \ {"close"}
    BY DEF Ops, Simple
  <2> QED
    BY <2>1, <2>2, <2>3 DEF SentInv
<1> QED
  BY <1>1, <1>2, <1>3 DEF SentInv

\* A step that moves nobody
LEMMA QuietKeepsSent ==
  ASSUME SentInv, Quiet, wr_close' = wr_close, status' = status \/ ~Alive',
         ~Alive => ~Alive'
  PROVE  SentInv'
  BY DEF SentInv, Quiet, Closes, Alive, Dead

\* A write or a ping never closes, and sends nothing behind the close frame
LEMMA SimpleSent ==
  ASSUME Base, AliveInv, SentInv, ~Alive => ~Alive',
         NEW o \in Simple, SimpleStep(o) \/ (o = "wr" /\ FrameSent)
  PROVE  SentInv'
<1>1. wr_close' = wr_close /\ (status' = status \/ ~Alive')
  BY StopIsDead DEF SimpleStep, SimpleBegin, SimplePosted, PingSent, SimpleUpcall,
     SimpleLocked, FrameSent, closing, session
<1>2. o \in Ops /\ o \notin {"rd", "close"}
  BY DEF Simple, Ops
<1>3. ~(o = wr_block /\ wr_close /\ Alive)
  BY <1>2 DEF SentInv, Closes
<1>4. PICK n \in Ops \cup {None} : Steps(o, n, None)
  BY <1>2, SimpleLone, SimpleUpcallSteps, FrameSentSteps, LoneSteps DEF SimpleStep, Base
<1>5. \/ ~wr_close
      \/ pc'[o] = pc[o] \/ pc'[o] \notin {"write", "pong_write"}
  <2>1. CASE pc[o] = "write"
    <3>1. pc'[o] # "pong_write"
      BY <1>4, SimpleFacts DEF Steps, SimplePcs
    <3> QED
      BY <2>1, <3>1
  <2>2. CASE (SimpleBegin(o) \/ SimplePosted(o)) /\ GoOn("ok") /\ wr_block \in {None, o}
    <3>1. wr_block \notin {"rd", "close"}
      BY <1>2, <2>2 DEF None
    <3> QED
      BY <2>2, <3>1, GoOnIsAlive DEF SentInv, Closes
  <2>3. CASE \E l \in {"susp", "upcall", "idle"} :
               pc' = [pc EXCEPT ![o] = l] \/ \E m \in Ops \cup {None} :
                 /\ NextWriter(o, m) /\ ~WaitsWr(o)
                 /\ pc' = [PcWoken(m) EXCEPT ![o] = l]
    <3>1. pc'[o] \in {"susp", "upcall", "idle"}
      BY <1>2, <2>3, WokenAt DEF Base, LockInv, PcOK
    <3> QED
      BY <3>1
  <2>4. CASE SimpleBegin(o)
    BY <2>2, <2>3, <2>4 DEF SimpleBegin, SimpleLocked, Park, Goto, GotoFrom, YieldFrom
  <2>5. CASE SimplePosted(o)
    <3>1. wr_block = o
      BY <2>5, SimpleFacts DEF SimplePosted, Base, LockInv, Placed
    <3> QED
      BY <2>2, <2>3, <2>5, <3>1 DEF SimplePosted, SimpleLocked, Goto, GotoFrom
  <2>6. CASE SimpleUpcall(o)
    <3>1. ~WaitsWr(o)
      BY <2>6 DEF SimpleUpcall, WaitsWr
    <3> QED
      BY <2>3, <2>6, <3>1 DEF SimpleUpcall, YieldFrom
  <2> QED
    BY <2>1, <2>4, <2>5, <2>6 DEF SimpleStep, PingSent, FrameSent
<1> QED
  BY <1>1, <1>2, <1>3, <1>4, <1>5, KeepsSent

\* close_op moves, and wakes those it hands its blocks to
LEMMA CloseSteps ==
  ASSUME LockInv, CloseStep
  PROVE  \E n \in Ops \cup {None}, q \in {None, "rd"} : Steps("close", n, q)
<1>1. "close" \in Ops
  BY DEF Ops
<1> QED
  BY <1>1, CloseLone, LoneSteps, CloseUpcallSteps DEF CloseStep

\* close_op sends one close frame and then keeps the write block
LEMMA CloseKeepsSent ==
  ASSUME Base, AliveInv, SentInv, ~Alive => ~Alive', CloseStep
  PROVE  SentInv'
<1>1. PICK n \in Ops \cup {None}, q \in {None, "rd"} : Steps("close", n, q)
  BY CloseSteps DEF Base
<1>2. CASE /\ CloseBegin \/ ClosePosted
           /\ GoOn("ok") /\ wr_close' /\ status' = "closing" /\ wr_block' = "close"
           /\ wr_block \in {None, "close"} /\ pc["close"] \in {"begin", "post"}
           /\ pc' = [pc EXCEPT !["close"] = "write"]
  <2>1. pc'["close"] = "write" /\ \A x \in Ops \ {"close"} : pc'[x] = pc[x]
    BY <1>2 DEF Base, LockInv, PcOK, Ops
  <2>2. \A x \in Ops \ {"close"} : ~InWrite(x)
    BY <1>2, NoneIsNoOp DEF Base, LockInv, Placed
  <2>3. pc["rd"] # "pong_write" /\ \A x \in Simple : pc[x] # "write"
    BY <2>2 DEF InWrite, Ops, Simple
  <2>4. Closes'
    BY <1>2, <2>1 DEF Closes
  <2> QED
    BY <1>2, <2>1, <2>3, <2>4 DEF SentInv, Ops, Simple
<1>3. CASE wr_close' = wr_close /\ (~Alive' \/ (UNCHANGED session /\ ~CloseUpcall))
  <2>1. ASSUME wr_close, Alive', wr_block = "close"
        PROVE  Closes'
    <3>1. pc["close"] \in {"write", "r_susp", "r_post", "drain", "hdr", "pay", "td"}
      BY <2>1 DEF SentInv, Closes
    <3>2. CloseSent \/ CloseGotReadBlock \/ CloseDrain \/ CloseReceived
      BY <1>3, <2>1, <3>1
         DEF CloseStep, CloseBegin, ClosePosted, TornDown, FinalStatus, Alive, Dead
    <3>3. /\ wr_block' = "close"
          /\ \E l \in {"td", "drain", "r_susp", "hdr", "pay"} : pc' = [pc EXCEPT !["close"] = l]
      BY <2>1, <3>2, StopIsDead
         DEF CloseSent, CloseGotReadBlock, CloseDrain, CloseReceived, locks, Goto, GotoFrom,
             Park, StartIo, YieldFrom
    <3> QED
      BY <3>3 DEF Closes, Base, LockInv, PcOK, Ops
  <2> QED
    BY <1>1, <1>3, <2>1, KeepsSent DEF session, Ops
<1>4. CASE CloseBegin
  <2>1. CASE Stop("close", "ok") /\ wr_close' = wr_close
    BY <1>3, <2>1, StopIsDead
  <2>2. CASE UNCHANGED session /\ wr_close' = wr_close
    BY <1>3, <1>4, <2>2 DEF CloseBegin, CloseUpcall
  <2>3. CASE wr_block = None /\ wr_block' = "close" /\ CloseLocked /\ GoOn("ok")
    BY <1>2, <1>4, <2>3, GoOnIsAlive
       DEF CloseBegin, CloseLocked, StartIo, YieldFrom, Stop, GoOn, Aborts, session, None
  <2> QED
    BY <1>4, <2>1, <2>2, <2>3 DEF CloseBegin, CloseLocked
<1>5. CASE ClosePosted
  <2>1. wr_block = "close" /\ pc["close"] = "post" /\ wr_block' = wr_block
    BY <1>5 DEF ClosePosted, Base, LockInv, Placed, InWrite, Ops, locks
  <2>2. CASE Stop("close", "ok") /\ wr_close' = wr_close
    BY <1>3, <2>2, StopIsDead
  <2>3. CASE CloseLocked /\ GoOn("ok")
    BY <1>2, <1>5, <2>1, <2>3
       DEF CloseLocked, StartIo, YieldFrom, Stop, GoOn, Aborts
  <2> QED
    BY <1>5, <2>2, <2>3 DEF ClosePosted, CloseLocked
<1>6. CASE CloseSent \/ CloseGotReadBlock \/ CloseDrain \/ CloseReceived
  <2>1. wr_close' = wr_close /\ (~Alive' \/ UNCHANGED session)
    BY <1>6, StopIsDead
       DEF CloseSent, CloseGotReadBlock, CloseDrain, CloseReceived, closing
  <2>2. pc["close"] # "upcall"
    BY <1>6 DEF CloseSent, CloseGotReadBlock, CloseDrain, CloseReceived, Reading
  <2> QED
    BY <1>3, <2>1, <2>2 DEF CloseUpcall
<1>7. CASE TornDown("close")
  BY <1>3, <1>7 DEF TornDown, FinalStatus, Alive, Dead, closing
<1>8. CASE CloseUpcall
  <2>1. wr_close' = wr_close /\ ~Alive
    BY <1>8 DEF CloseUpcall, AliveInv, closing
  <2> QED
    BY <1>3, <2>1
<1> QED
  BY <1>4, <1>5, <1>7, <1>8, <1>6 DEF CloseStep

\* The read moves, and wakes those it hands its blocks to
LEMMA ReadSteps ==
  ASSUME LockInv, ReadStep
  PROVE  \E n \in Ops \cup {None}, q \in {None, "close"} : Steps("rd", n, q)
<1>1. "rd" \in Ops
  BY DEF Ops
<1> QED
  BY <1>1, ReadLone, LoneSteps, ReadHeaderBytesSteps, ReadPingSteps, ReadPongSentSteps,
     ReadUpcallSteps DEF ReadStep

\* The read answers the peer's close frame, or sends one of its own
LEMMA ReadCloseLockedSent ==
  ASSUME Base, SentInv, wr_block \in {None, "rd"}, wr_block' = "rd", ReadCloseLocked,
         pc["rd"] \in {"closing", "cl_post"}
  PROVE  SentInv'
<1>1. \E l \in {"td", "cl_write"} : pc' = [pc EXCEPT !["rd"] = l]
  BY DEF ReadCloseLocked, StartIo, YieldFrom
<1>2. pc'["rd"] \in {"td", "cl_write"} /\ \A x \in Ops \ {"rd"} : pc'[x] = pc[x]
  BY <1>1 DEF Base, LockInv, PcOK, Ops
<1>3. \A x \in Simple : pc[x] # "write"
  <2>1. \A x \in Ops \ {"rd"} : ~InWrite(x)
    BY NoneIsNoOp DEF Base, LockInv, Placed
  <2> QED
    BY <2>1 DEF InWrite, Ops, Simple
<1> QED
  BY <1>2, <1>3 DEF SentInv, Closes, ReadCloseLocked, Ops, Simple

\* Where the read goes when it neither sends nor closes
LEMMA ReadLabel ==
  ASSUME Base,
         \/ ReadNext \/ ReadAcquire \/ ReadGotReadBlock \/ ReadLoop \/ ReadSkipsHeader
         \/ ReadHeaderBytes \/ ReadPong \/ ReadClose \/ ReadPayload \/ ReadPayloadBytes
         \/ ReadPongSent \/ ReadUpcall
  PROVE  /\ pc'["rd"] \notin {"write", "pong_write"}
         /\ pc'["rd"] \in {"hdr", "pay"} => ReadLoop \/ ReadPayload
<1> USE DEF Base, LockInv, PcOK, Goto, GotoFrom, StartIo, YieldFrom, Park, Ops
<1>1. CASE ReadPongSent
  <2>1. \/ pc' = [pc EXCEPT !["rd"] = "upcall"]
        \/ \E n \in Ops \cup {None} :
             NextWriter("rd", n) /\ pc' = [PcWoken(n) EXCEPT !["rd"] = "acquire"]
    BY <1>1 DEF ReadPongSent
  <2>2. ~WaitsWr("rd")
    BY <1>1 DEF ReadPongSent, WaitsWr
  <2> QED
    BY <2>1, <2>2, WokenAt
<1>2. CASE ReadUpcall
  <2>1. PICK n \in Ops \cup {None}, l \in {"next", "idle"} :
          /\ NextWriter("rd", n) \/ n = None
          /\ \/ pc' = [PcWoken(n) EXCEPT !["rd"] = l]
             \/ pc' = [[PcWoken(n) EXCEPT !["close"] = "r_post"] EXCEPT !["rd"] = l]
    BY <1>2 DEF ReadUpcall
  <2>2. ~WaitsWr("rd")
    BY <1>2 DEF ReadUpcall, WaitsWr
  <2>3. PcWoken(n) \in [Ops -> Labels]
    BY <2>1, <2>2, PcWokenIs, WokenAt
  <2> QED
    BY <2>1, <2>3
<1>3. CASE ReadNext \/ ReadAcquire \/ ReadGotReadBlock \/ ReadHeaderBytes
  BY <1>3 DEF ReadNext, ReadAcquire, ReadGotReadBlock, ReadHeaderBytes
<1>4. CASE ReadLoop \/ ReadSkipsHeader \/ ReadPong \/ ReadClose
  BY <1>4 DEF ReadLoop, ReadSkipsHeader, ReadPong, ReadClose
<1>5. CASE ReadPayload \/ ReadPayloadBytes
  BY <1>5 DEF ReadPayload, ReadPayloadBytes
<1> QED
  BY <1>1, <1>2, <1>3, <1>4, <1>5

\* The read sends no pong behind a close frame, and keeps the block it closes with
LEMMA ReadKeepsSent ==
  ASSUME ~CtrlCb, Base, AliveInv, SentInv, ~Alive => ~Alive', ReadStep
  PROVE  SentInv'
<1>1. PICK n \in Ops \cup {None}, q \in {None, "close"} : Steps("rd", n, q)
  BY ReadSteps DEF Base
<1>2. CASE ReadClosing
  <2>1. CASE wr_block = None /\ wr_block' = "rd" /\ ReadCloseLocked
    BY <1>2, <2>1, ReadCloseLockedSent DEF ReadClosing
  <2>2. CASE Park("rd", "cl_susp") /\ UNCHANGED <<session, wr_close>>
    <3>1. pc'["rd"] = "cl_susp" /\ pc["rd"] = "closing"
      BY <1>2, <2>2 DEF ReadClosing, Park, YieldFrom, Base, LockInv, PcOK, Ops
    <3>2. ~(wr_close /\ wr_block = "rd" /\ Alive)
      BY <3>1 DEF SentInv, Closes
    <3> QED
      BY <1>1, <2>2, <3>1, <3>2, KeepsSent DEF session, Ops
  <2> QED
    BY <1>2, <2>1, <2>2 DEF ReadClosing
<1>3. CASE ReadClosePosted
  <2>1. wr_block = "rd" /\ pc["rd"] = "cl_post" /\ wr_block' = wr_block
    BY <1>3 DEF ReadClosePosted, Base, LockInv, Placed, InWrite, Ops, locks
  <2>2. CASE ReadCloseLocked
    BY <2>1, <2>2, ReadCloseLockedSent
  <2>3. CASE Stop("rd", "ok") /\ Goto("rd", "upcall") /\ wr_close' = wr_close
    <3>1. ~Alive' /\ pc'["rd"] = "upcall"
      BY <2>3, StopIsDead DEF Goto, GotoFrom, Base, LockInv, PcOK, Ops
    <3> QED
      BY <1>1, <2>3, <3>1, KeepsSent DEF Ops
  <2> QED
    BY <1>3, <2>2, <2>3 DEF ReadClosePosted
<1>4. CASE ReadCloseSent \/ TornDown("rd")
  <2>1. /\ wr_close' = wr_close /\ wr_block' = wr_block /\ pc["rd"] \in {"cl_write", "td"}
        /\ \/ pc' = [pc EXCEPT !["rd"] = "upcall"] /\ ~Alive'
           \/ pc' = [pc EXCEPT !["rd"] = "td"] /\ UNCHANGED session
    BY <1>4, StopIsDead
       DEF ReadCloseSent, TornDown, TearingDown, closing, locks, Goto, GotoFrom, StartIo,
           YieldFrom, FinalStatus, Alive, Dead
  <2>2. wr_block = "rd" /\ pc'["rd"] \in {"upcall", "td"} /\ (Alive' => pc'["rd"] = "td")
    BY <2>1 DEF Base, LockInv, PcOK, Placed, InWrite, Ops
  <2>3. Alive' => Closes'
    BY <2>1, <2>2 DEF Closes
  <2> QED
    BY <1>1, <2>1, <2>2, <2>3, KeepsSent DEF session, Ops
<1>5. CASE /\ wr_close' = wr_close /\ (UNCHANGED session \/ ~Alive')
           /\ pc["rd"] \notin {"cl_write", "td"}
           /\ ~wr_close \/ pc'["rd"] = pc["rd"] \/ pc'["rd"] \notin {"write", "pong_write"}
  <2>1. ~(wr_close /\ wr_block = "rd" /\ Alive)
    BY <1>5 DEF SentInv, Closes
  <2> QED
    BY <1>1, <1>5, <2>1, KeepsSent DEF session, Ops
<1>6. CASE ReadPing
  <2>1. Alive /\ wr_close' = wr_close /\ UNCHANGED session /\ pc["rd"] = "ctl"
    BY <1>6 DEF ReadPing, Handles, AliveInv, Dispatching, closing
  <2>2. CASE status = "closing" /\ Goto("rd", "loop")
    BY <1>5, <2>1, <2>2 DEF Goto, GotoFrom, Base, LockInv, PcOK, Ops
  <2>3. CASE status # "closing"
    <3>1. ~wr_close
      BY <2>1, <2>3 DEF SentInv, Alive, Dead, Base, TypeOK, SessionOK
    <3> QED
      BY <1>5, <2>1, <3>1
  <2> QED
    BY <1>6, <2>2, <2>3 DEF ReadPing
<1>7. CASE ReadPongPosted
  <2>1. /\ wr_block = "rd" /\ pc["rd"] = "pong_post" /\ wr_close' = wr_close
    BY <1>7 DEF ReadPongPosted, Base, LockInv, Placed, InWrite, Ops, closing
  <2>2. CASE Stop("rd", "ok") /\ Goto("rd", "upcall")
    <3>1. ~Alive' /\ pc'["rd"] = "upcall"
      BY <2>2, StopIsDead DEF Goto, GotoFrom, Base, LockInv, PcOK, Ops
    <3> QED
      BY <1>5, <2>1, <3>1
  <2>3. CASE GoOn("ok") /\ UNCHANGED session
    <3>1. ~wr_close
      BY <2>1, <2>3, GoOnIsAlive DEF SentInv, Closes
    <3> QED
      BY <1>5, <2>1, <2>3, <3>1
  <2> QED
    BY <1>7, <2>2, <2>3 DEF ReadPongPosted
<1>8. CASE \/ ReadNext \/ ReadAcquire \/ ReadGotReadBlock \/ ReadLoop \/ ReadSkipsHeader
           \/ ReadHeaderBytes \/ ReadPong \/ ReadClose \/ ReadPayload \/ ReadPayloadBytes
           \/ ReadPongSent \/ ReadUpcall
  <2>1. wr_close' = wr_close /\ pc["rd"] \notin {"cl_write", "td"}
    BY <1>8 DEF ReadNext, ReadAcquire, ReadGotReadBlock, ReadLoop, ReadSkipsHeader,
       ReadHeaderBytes, ReadPong, ReadClose, ReadPayload, ReadPayloadBytes, ReadPongSent,
       ReadUpcall, Handles, closing
  <2>2. UNCHANGED session \/ ~Alive'
    BY <1>8, StopIsDead DEF ReadNext, ReadAcquire, ReadGotReadBlock, ReadLoop,
       ReadSkipsHeader, ReadHeaderBytes, ReadPong, ReadClose, ReadPayload,
       ReadPayloadBytes, ReadPongSent, ReadUpcall
  <2>3. pc'["rd"] \notin {"write", "pong_write"}
    BY <1>8, ReadLabel
  <2> QED
    BY <1>5, <2>1, <2>2, <2>3
<1> QED
  BY <1>2, <1>3, <1>4, <1>6, <1>7, <1>8, NoCallback DEF ReadStep

\* The application and the timer start operations, which send nothing yet
LEMMA CallsSteps ==
  ASSUME LockInv, Application
  PROVE  \E o \in Ops : /\ Steps(o, None, None) /\ pc'[o] \in {"next", "acquire", "begin"}
                        /\ pc[o] = "idle"
<1>1. PICK o \in {"rd", "wr", "ping", "close"} :
        /\ Lone(o) /\ pc[o] = "idle"
        /\ \E l \in {"next", "acquire", "begin"} : pc' = [pc EXCEPT ![o] = l]
  BY CallsLone DEF Application, AsyncReadSome, AsyncRead, AsyncWrite, AsyncPing, AsyncClose,
     Goto, GotoFrom
<1>2. o \in Ops
  BY DEF Ops
<1> QED
  BY <1>1, <1>2, LoneSteps DEF LockInv, PcOK

\* The application, the timer and the network send nothing themselves
LEMMA OthersKeepSent ==
  ASSUME Base, AliveInv, SentInv, ~Alive => ~Alive',
         \/ Application \/ timeout_handler \/ TimerExpires \/ PeerSends \/ PeerCloses
         \/ \E o \in Ops, r \in {"ok", "err"} : IoCompletes(o, r)
         \/ UNCHANGED vars
  PROVE  SentInv'
<1>1. CASE Application
  <2>1. wr_close' = wr_close /\ status' = status
    BY <1>1 DEF Application, AsyncReadSome, AsyncRead, AsyncWrite, AsyncPing, AsyncClose,
       closing, session
  <2>2. PICK o \in Ops : /\ Steps(o, None, None) /\ pc[o] = "idle"
                         /\ pc'[o] \in {"next", "acquire", "begin"}
    BY <1>1, CallsSteps DEF Base
  <2>3. wr_block # o
    BY <2>2 DEF Base, LockInv, Placed, InWrite, Ops
  <2> QED
    BY <2>1, <2>2, <2>3, KeepsSent
<1>2. CASE timeout_handler
  <2>1. wr_close' = wr_close /\ (status' = status \/ ~Alive')
    BY <1>2 DEF timeout_handler, IdlePing, TimeOut, session, closing, Alive, Dead
  <2>2. CASE Quiet
    BY <2>1, <2>2, QuietKeepsSent
  <2>3. CASE Steps("idle_ping", None, None) /\ ~Quiet
    <3>1. pc' = [pc EXCEPT !["idle_ping"] = "begin"] /\ ~idle_pinging
      BY <1>2, <2>3
         DEF timeout_handler, IdlePing, TimeOut, Goto, GotoFrom, Steps, Quiet, locks
    <3>2. pc["idle_ping"] = "idle" /\ pc'["idle_ping"] = "begin"
      BY <3>1 DEF Base, LockInv, PingOK, PcOK, Ops
    <3>3. wr_block # "idle_ping" /\ "idle_ping" \in Ops
      BY <3>2 DEF Base, LockInv, Placed, InWrite, Ops
    <3> QED
      BY <2>1, <2>3, <3>2, <3>3, KeepsSent
  <2> QED
    BY <1>2, <2>2, <2>3, TimerSteps DEF Base
<1>3. CASE \/ TimerExpires \/ PeerSends \/ PeerCloses
           \/ \E o \in Ops, r \in {"ok", "err"} : IoCompletes(o, r)
           \/ UNCHANGED vars
  <2>1. Quiet
    BY <1>3, EnvironmentQuiet DEF Base
  <2>2. wr_close' = wr_close /\ status' = status
    BY <1>3 DEF TimerExpires, PeerSends, PeerCloses, IoCompletes, vars, session, closing
  <2> QED
    BY <2>1, <2>2, QuietKeepsSent
<1> QED
  BY <1>1, <1>2, <1>3

\* Every step keeps SentInv
LEMMA NextSent ==
  ASSUME ~CtrlCb, Base, AliveInv, SentInv, [Next]_vars
  PROVE  SentInv'
<1>1. ~Alive => ~Alive'
  BY NextAlive
<1>2. CASE ReadStep
  BY <1>1, <1>2, ReadKeepsSent
<1>3. CASE WriteStep \/ SimpleStep("ping") \/ SimpleStep("idle_ping")
  BY <1>1, <1>3, SimpleSent DEF WriteStep, Simple
<1>4. CASE CloseStep
  BY <1>1, <1>4, CloseKeepsSent
<1> QED
  BY <1>1, <1>2, <1>3, <1>4, OthersKeepSent DEF Next, Handlers

----------------------------------------------------------------------------
(* ReceivedInv *)

\* Operations that neither read nor close leave the read block alone
LEMMA SimpleKeepsReceived ==
  ASSUME Base, ReceivedInv, ~Alive => ~Alive',
         NEW o \in Simple, NEW n \in Ops \cup {None}, Steps(o, n, None),
         rd_close' = rd_close
  PROVE  ReceivedInv'
<1>1. rd_block' = rd_block
  BY DEF Steps, Simple, None, Base, LockInv, BlockOK
<1>2. ASSUME NEW x \in {"rd", "close"}
      PROVE  \/ pc'[x] = pc[x]
             \/ pc[x] = "cl_susp" /\ pc'[x] = "cl_post"
             \/ pc[x] # "cl_susp" /\ pc'[x] \in {"post", "pong_post"}
  <2>1. x \in Ops \ {o}
    BY DEF Simple, Ops
  <2>2. CASE x = n
    <3>1. n \in Ops /\ WaitsWr(n) /\ pc'[x] = PostOf[pc[n]]
      BY <2>1, <2>2, NoneIsNoOp DEF Steps
    <3> QED
      BY <2>2, <3>1, PostLabel DEF Base, LockInv
  <2> QED
    BY <2>1, <2>2, NoneIsNoOp DEF Steps
<1>3. \/ pc'["rd"] = pc["rd"]
      \/ pc["rd"] = "cl_susp" /\ pc'["rd"] = "cl_post"
      \/ pc["rd"] # "cl_susp" /\ pc'["rd"] \in {"post", "pong_post"}
  BY <1>2
<1>4. pc["close"] # "cl_susp"
  BY DEF Base, LockInv, PcOK, Pcs, SimplePcs, Ops
<1>5. pc'["close"] = pc["close"] \/ pc'["close"] \in {"post", "pong_post"}
  BY <1>2, <1>4
<1>6. pc["close"] = "td" => pc'["close"] = "td"
  <2>1. CASE n = "close"
    BY <2>1 DEF Steps, WaitsWr, Ops, None
  <2>2. CASE n # "close"
    BY <2>2, NoneIsNoOp DEF Steps, Simple, Ops
  <2> QED
    BY <2>1, <2>2
<1>7. pc["rd"] \in {"closing", "cl_post", "cl_write", "td"} => pc'["rd"] = pc["rd"]
  <2>1. CASE n = "rd"
    BY <2>1 DEF Steps, WaitsWr, Ops, None
  <2>2. CASE n # "rd"
    BY <2>2, NoneIsNoOp DEF Steps, Simple, Ops
  <2> QED
    BY <2>1, <2>2
<1> QED
  BY <1>1, <1>3, <1>5, <1>6, <1>7 DEF ReceivedInv

\* close_op tears down with the read block, or after the read has seen the close frame
LEMMA CloseKeepsReceived ==
  ASSUME Base, AliveInv, ReceivedInv, ~Alive => ~Alive', CloseStep
  PROVE  ReceivedInv'
<1> USE DEF Base, LockInv, PcOK, Ops, Goto, GotoFrom, StartIo, YieldFrom, Park
<1>1. CASE CloseBegin \/ ClosePosted
  <2>1. \E l \in {"upcall", "susp", "write"} : pc' = [pc EXCEPT !["close"] = l]
    BY <1>1 DEF CloseBegin, ClosePosted, CloseLocked
  <2>2. /\ UNCHANGED <<rd_close, rd_block>>
        /\ pc["close"] # "td"
    BY <1>1 DEF CloseBegin, ClosePosted, locks
  <2> QED
    BY <2>1, <2>2 DEF ReceivedInv
<1>2. CASE CloseSent
  <2>1. /\ pc["close"] = "write" /\ rd_close' = rd_close
        /\ \E l \in {"upcall", "td", "drain", "r_susp"} :
             pc' = [pc EXCEPT !["close"] = l] /\ (l = "td" => rd_close)
    BY <1>2 DEF CloseSent, closing, PeerCloseSeen
  <2> QED
    BY <2>1 DEF ReceivedInv
<1>3. CASE CloseGotReadBlock \/ CloseReceived
  <2>1. /\ pc["close"] \in {"r_post", "hdr", "pay"} /\ rd_close' = rd_close
        /\ \E l \in {"upcall", "drain"} : pc' = [pc EXCEPT !["close"] = l]
    BY <1>3 DEF CloseGotReadBlock, CloseReceived, Reading, closing
  <2> QED
    BY <2>1 DEF ReceivedInv
<1>4. CASE CloseDrain
  <2>1. /\ pc["close"] = "drain" /\ rd_block' = rd_block
        /\ \E l \in {"td", "drain", "hdr", "pay"} :
             pc' = [pc EXCEPT !["close"] = l] /\ (rd_close' => rd_close \/ l = "td")
    <3>1. CASE rd_buf = <<>>
      BY <1>4, <3>1 DEF CloseDrain, locks
    <3>2. CASE rd_buf # <<>>
      BY <1>4, <3>2 DEF CloseDrain, locks
    <3> QED
      BY <3>1, <3>2
  <2>2. Placed("close") /\ Placed("rd")
    OBVIOUS
  <2>3. rd_block = "close"
    BY <2>1, <2>2 DEF Placed, InRead
  <2>4. pc["rd"] \notin {"hdr", "pay"}
    BY <2>2, <2>3 DEF Placed, InRead
  <2> QED
    BY <2>1, <2>3, <2>4 DEF ReceivedInv
<1>5. CASE TornDown("close")
  <2>1. pc' = [pc EXCEPT !["close"] = "upcall"] /\ ~Alive' /\ rd_close' = rd_close
    BY <1>5 DEF TornDown, FinalStatus, Alive, Dead, closing
  <2> QED
    BY <2>1 DEF ReceivedInv
<1>6. CASE CloseUpcall
  <2>1. PICK n \in Ops \cup {None} :
          /\ NextWriter("close", n)
          /\ \/ pc' = [PcWoken(n) EXCEPT !["close"] = "idle"]
             \/ pc' = [[PcWoken(n) EXCEPT !["rd"] = "r_post"] EXCEPT !["close"] = "idle"]
    BY <1>6 DEF CloseUpcall
  <2>2. ~Alive' /\ ~WaitsWr("close") /\ rd_close' = rd_close
    BY <1>6 DEF CloseUpcall, AliveInv, WaitsWr, closing
  <2>3. pc'["close"] = "idle"
        /\ pc'["rd"] \in {pc["rd"], "post", "pong_post", "cl_post", "r_post"}
    BY <2>1, <2>2, WokenAt
  <2> QED
    BY <2>2, <2>3 DEF ReceivedInv
<1> QED
  BY <1>1, <1>2, <1>3, <1>4, <1>5, <1>6 DEF CloseStep

\* The read moves on while the peer's close frame has not been read, or is done
\* with it
ReadKeeps ==
  /\ pc["close"] = "td" => pc'["close"] = "td"
  /\ pc'["close"] = "td" => pc["close"] = "td"
  /\ rd_block = "close" => rd_block' = "close"

\* The read neither starts nor ends the teardown of close_op, nor takes its block
LEMMA StepsReadKeeps ==
  ASSUME LockInv, NEW n \in Ops \cup {None}, NEW q \in {None, "close"}, Steps("rd", n, q)
  PROVE  ReadKeeps
<1>1. "close" \in Ops \ {"rd"} /\ "rd" # "close"
  BY DEF Ops
<1>2. rd_block = "close" => rd_block' = "close"
  BY DEF Steps, None
<1>3. CASE n = "close"
  <2>1. WaitsWr("close") /\ pc'["close"] = PostOf[pc["close"]]
    BY <1>1, <1>3 DEF Steps, None
  <2>2. pc["close"] # "td" /\ pc'["close"] # "td"
    BY <1>1, <2>1, PostLabel DEF LockInv, WaitsWr
  <2> QED
    BY <1>2, <2>2 DEF ReadKeeps
<1>4. CASE n # "close"
  <2>1. pc'["close"] = pc["close"] \/ (pc["close"] = "r_susp" /\ pc'["close"] = "r_post")
    BY <1>1, <1>4 DEF Steps, None
  <2> QED
    BY <1>2, <2>1 DEF ReadKeeps
<1> QED
  BY <1>3, <1>4

\* The labels of a read that has read the close frame of its peer
RdCloses == {"closing", "cl_susp", "cl_post", "cl_write", "td"}

\* The read either stays with the close frame it has read, or has read none
LEMMA ReadKeepsReceivedIf ==
  ASSUME ReceivedInv, ~Alive => ~Alive', ReadKeeps,
         rd_close' = rd_close \/ (rd_close' /\ pc'["rd"] = "closing"),
         pc["rd"] \in RdCloses => pc'["rd"] \in RdCloses \/ ~Alive',
         pc'["rd"] \in {"hdr", "pay"} => ~rd_close
  PROVE  ReceivedInv'
  BY DEF ReceivedInv, ReadKeeps, RdCloses

\* The read reads no more once it has read a close frame
LEMMA ReadKeepsReceived ==
  ASSUME ~CtrlCb, Base, AliveInv, ReceivedInv, ~Alive => ~Alive', ReadStep
  PROVE  ReceivedInv'
<1> USE DEF Goto, GotoFrom, StartIo, YieldFrom, Park
<1>1. ReadKeeps
  BY ReadSteps, StepsReadKeeps DEF Base
<1>2. pc \in [Ops -> Labels] /\ "rd" \in Ops
  BY DEF Base, LockInv, PcOK, Ops
<1>3. CASE ReadLoop \/ ReadSkipsHeader \/ ReadPayload
  <2>1. pc["rd"] \in {"loop", "payload"} /\ Alive /\ rd_close' = rd_close
    BY <1>3 DEF ReadLoop, ReadSkipsHeader, ReadPayload, AliveInv, Dispatching, closing
  <2>2. rd_block = "rd"
    BY <1>2, <2>1 DEF Base, LockInv, Placed, InRead
  <2>3. ~rd_close /\ pc["rd"] \notin RdCloses
    BY <2>1, <2>2 DEF ReceivedInv, RdCloses
  <2> QED
    BY <1>1, <2>1, <2>3, ReadKeepsReceivedIf
<1>4. CASE ReadPong \/ ReadClose \/ ReadPing
  <2>1. /\ pc["rd"] = "ctl" /\ (rd_close' = rd_close \/ (rd_close' /\ pc'["rd"] = "closing"))
        /\ pc'["rd"] \in {"loop", "closing", "pong_write", "pong_susp"}
    BY <1>2, <1>4 DEF ReadPong, ReadClose, ReadPing, Handles, closing
  <2> QED
    BY <1>1, <2>1, ReadKeepsReceivedIf DEF RdCloses
<1>5. CASE ReadClosing \/ ReadClosePosted \/ ReadCloseSent \/ TornDown("rd")
  <2>1. /\ rd_close' = rd_close
        /\ \/ \E l \in {"cl_susp", "cl_write", "td"} : pc' = [pc EXCEPT !["rd"] = l]
           \/ pc' = [pc EXCEPT !["rd"] = "upcall"] /\ ~Alive'
    BY <1>5, StopIsDead DEF ReadClosing, ReadClosePosted, ReadCloseSent, TornDown,
       ReadCloseLocked, FinalStatus, Alive, Dead, closing
  <2>2. pc'["rd"] \in {"cl_susp", "cl_write", "td"} \/ (pc'["rd"] = "upcall" /\ ~Alive')
    BY <1>2, <2>1
  <2> QED
    BY <1>1, <2>1, <2>2, ReadKeepsReceivedIf DEF RdCloses
<1>6. CASE \/ ReadNext \/ ReadAcquire \/ ReadGotReadBlock \/ ReadHeaderBytes
           \/ ReadPayloadBytes \/ ReadPongPosted \/ ReadPongSent \/ ReadUpcall
  <2>1. /\ pc["rd"] \in {"next", "acquire", "r_post", "hdr", "pay", "pong_post", "pong_write",
                         "upcall"}
        /\ rd_close' = rd_close
    BY <1>6 DEF ReadNext, ReadAcquire, ReadGotReadBlock, ReadHeaderBytes, ReadPayloadBytes,
       ReadPongPosted, ReadPongSent, ReadUpcall, closing
  <2>2. pc'["rd"] \in {"hdr", "pay"} => ReadLoop \/ ReadPayload
    <3>1. CASE ReadPongPosted
      BY <1>2, <3>1 DEF ReadPongPosted
    <3> QED
      BY <1>6, <3>1, ReadLabel
  <2>3. pc'["rd"] \notin {"hdr", "pay"}
    BY <2>1, <2>2 DEF ReadLoop, ReadPayload
  <2> QED
    BY <1>1, <2>1, <2>3, ReadKeepsReceivedIf DEF RdCloses
<1> QED
  BY <1>3, <1>4, <1>5, <1>6, NoCallback DEF ReadStep

\* Every step keeps ReceivedInv
LEMMA NextReceived ==
  ASSUME ~CtrlCb, Base, AliveInv, ReceivedInv, [Next]_vars
  PROVE  ReceivedInv'
<1>1. ~Alive => ~Alive'
  BY NextAlive
<1>2. CASE ReadStep
  BY <1>1, <1>2, ReadKeepsReceived
<1>3. CASE CloseStep
  BY <1>1, <1>3, CloseKeepsReceived
<1>4. ASSUME NEW o \in Simple, SimpleStep(o) \/ (o = "wr" /\ FrameSent)
      PROVE  ReceivedInv'
  <2>1. PICK n \in Ops \cup {None} : Steps(o, n, None)
    BY <1>4, SimpleFacts, SimpleLone, SimpleUpcallSteps, FrameSentSteps, LoneSteps
       DEF SimpleStep, Base
  <2>2. rd_close' = rd_close
    BY <1>4 DEF SimpleStep, SimpleBegin, SimplePosted, PingSent, SimpleUpcall, FrameSent,
       closing
  <2> QED
    BY <1>1, <2>1, <2>2, SimpleKeepsReceived
<1>5. CASE Application
  <2>1. rd_close' = rd_close /\ rd_block' = rd_block /\ UNCHANGED session
    BY <1>5 DEF Application, AsyncReadSome, AsyncRead, AsyncWrite, AsyncPing, AsyncClose,
       closing, locks
  <2>2. \E o \in Ops, l \in {"next", "acquire", "begin"} :
          pc[o] = "idle" /\ pc' = [pc EXCEPT ![o] = l]
    BY <1>5 DEF Application, AsyncReadSome, AsyncRead, AsyncWrite, AsyncPing, AsyncClose,
       Goto, GotoFrom, Ops
  <2> QED
    BY <2>1, <2>2 DEF ReceivedInv, Base, LockInv, PcOK, Alive, session
<1>6. CASE timeout_handler
  <2>1. rd_close' = rd_close /\ rd_block' = rd_block
    BY <1>6 DEF timeout_handler, closing, locks
  <2>2. pc' = pc \/ pc' = [pc EXCEPT !["idle_ping"] = "begin"]
    BY <1>6 DEF timeout_handler, IdlePing, TimeOut, Goto, GotoFrom
  <2> QED
    BY <1>1, <2>1, <2>2 DEF ReceivedInv, Base, LockInv, PcOK, Ops
<1>7. CASE \/ TimerExpires \/ PeerSends \/ PeerCloses
           \/ \E o \in Ops, r \in {"ok", "err"} : IoCompletes(o, r)
           \/ UNCHANGED vars
  <2>1. UNCHANGED <<pc, rd_close, rd_block, status>>
    BY <1>7 DEF TimerExpires, PeerSends, PeerCloses, IoCompletes, vars, session, closing,
       locks
  <2> QED
    BY <2>1 DEF ReceivedInv, Alive
<1> QED
  BY <1>2, <1>3, <1>4, <1>5, <1>6, <1>7 DEF Next, Handlers, WriteStep, Simple

----------------------------------------------------------------------------
(* The theorems *)

\* At first no flag is set
LEMMA InitClose == Init => CloseInv
<1> SUFFICES ASSUME Init PROVE CloseInv
  OBVIOUS
<1>1. \A o \in Ops : pc[o] = "idle"
  BY DEF Init
<1>2. "rd" \in Ops /\ "close" \in Ops /\ Simple \subseteq Ops
  BY DEF Ops, Simple
<1> QED
  BY <1>1, <1>2 DEF Init, CloseInv, AliveInv, SentInv, ReceivedInv, Dispatching, Alive, Dead

\* The lock and the type invariants, for the proofs of this module
LEMMA BaseHolds == Spec => []Base
  BY LocksInvariant, TypeCorrect, PTL DEF Base

\* Without a control callback the flags mean what the comments of stream_impl.hpp
\* and read.hpp say, in every reachable state.
THEOREM FlagsInvariant == ASSUME ~CtrlCb PROVE Spec => []CloseInv
<1>1. Base /\ CloseInv /\ [Next]_vars => CloseInv'
  BY NextAlive, NextSent, NextReceived DEF CloseInv
<1> QED
  BY <1>1, InitClose, BaseHolds, PTL DEF Spec

\* A stream that is closed or has failed never opens again, whatever handlers
\* are still queued: the first sentence of check_stop_now holds of every step.
THEOREM DeadStaysDead == ASSUME ~CtrlCb PROVE Spec => DeadIsFinal
<1>1. Base /\ CloseInv /\ [Next]_vars => [(status \in Dead) => (status' \in Dead)]_vars
  BY NextAlive DEF CloseInv, Alive
<1> QED
  BY <1>1, FlagsInvariant, BaseHolds, PTL DEF Spec, DeadIsFinal

\* Nothing but the closing handshake uses the socket for writing once the close
\* frame is on its way, whoever sent it and whoever was parked behind it.
THEOREM NothingAfterClose == ASSUME ~CtrlCb PROVE Spec => []CloseFrameIsLast
<1>1. Base /\ CloseInv => CloseFrameIsLast
  BY DEF Base, CloseInv, SentInv, CloseFrameIsLast, LockInv, PcOK, Pcs, SimplePcs, Ops, Simple
<1> QED
  BY <1>1, FlagsInvariant, BaseHolds, PTL

\* read.hpp:127 is never reached without a control callback: by the time close_op
\* returns the read block to a suspended read, the stream is dead.
THEOREM LendersFindItDead == ASSUME ~CtrlCb PROVE Spec => []LenderFindsItDead
<1>1. CloseInv => LenderFindsItDead
  BY GoOnIsAlive DEF CloseInv, AliveInv, LenderFindsItDead
<1> QED
  BY <1>1, FlagsInvariant, PTL

\* The socket never has two reads outstanding, nor a read beside a teardown.
THEOREM AtMostOneReader == ASSUME ~CtrlCb PROVE Spec => []OneReader
<1>1. ASSUME Base, CloseInv, NEW a \in Ops, Reading(a) \/ TearingDown(a)
      PROVE  a \in {"rd", "close"} /\ (a = "rd" => ~(Reading("close") \/ TearingDown("close")))
  <2>1. a \in {"rd", "close"}
    BY <1>1 DEF Base, LockInv, PcOK, Pcs, SimplePcs, Ops, Reading, TearingDown
  <2>2. Placed("rd") /\ Placed("close")
    BY <1>1 DEF Base, LockInv, Ops
  <2>3. ~((Reading("rd") \/ TearingDown("rd")) /\ (Reading("close") \/ TearingDown("close")))
    BY <1>1, <2>2 DEF Placed, InWrite, InRead, CloseInv, ReceivedInv, Reading, TearingDown
  <2> QED
    BY <1>1, <2>1, <2>3
<1>2. Base /\ CloseInv => OneReader
  BY <1>1 DEF OneReader, Ops
<1> QED
  BY <1>2, FlagsInvariant, BaseHolds, PTL

----------------------------------------------------------------------------
(* No assertion fails, when no time limit is set: the read that a timeout stops
   behind close_op is the one case in which the comment at read.hpp:127 errs.  *)

NoLimits == ~IdleTimeout /\ ~HandshakeTimeout
Untimed == ~armed /\ fired = 0 /\ ~timed_out

\* Without limits the timer is never armed
LEMMA NextUntimed ==
  ASSUME NoLimits, Untimed, TypeOK, [Next]_vars
  PROVE  Untimed'
<1>1. \A st : ~Limited(st)
  BY DEF NoLimits, Limited
<1>2. ASSUME NEW st, UpdateTimer(st) PROVE ~armed' /\ fired' = fired
  BY <1>1, <1>2 DEF UpdateTimer, Untimed
<1>3. ASSUME NEW o, NEW e, Stop(o, e) PROVE ~timed_out'
  BY <1>3 DEF Stop, TimeoutDue, Untimed, session
<1>4. ~timeout_handler /\ ~TimerExpires
  BY DEF timeout_handler, TimerExpires, Untimed
<1>5. CASE WriteStep \/ SimpleStep("ping") \/ SimpleStep("idle_ping")
  <2>1. UNCHANGED <<armed, fired>>
    BY <1>5 DEF WriteStep, SimpleStep, SimpleBegin, SimplePosted, PingSent, SimpleUpcall,
       FrameSent, timer
  <2>2. timed_out' = timed_out \/ ~timed_out'
    BY <1>3, <1>5 DEF WriteStep, SimpleStep, SimpleBegin, SimplePosted, PingSent,
       SimpleUpcall, SimpleLocked, FrameSent, session
  <2> QED
    BY <2>1, <2>2 DEF Untimed
<1>6. CASE CloseStep
  <2>1. UNCHANGED <<armed, fired>> \/ (~armed' /\ fired' = fired)
    BY <1>2, <1>6 DEF CloseStep, CloseBegin, ClosePosted, CloseLocked, CloseSent,
       CloseGotReadBlock, CloseDrain, CloseReceived, TornDown, CloseUpcall, timer
  <2>2. timed_out' = timed_out \/ ~timed_out'
    BY <1>3, <1>6 DEF CloseStep, CloseBegin, ClosePosted, CloseLocked, CloseSent,
       CloseGotReadBlock, CloseDrain, CloseReceived, TornDown, CloseUpcall, session
  <2> QED
    BY <2>1, <2>2 DEF Untimed
<1>7. CASE ReadStep
  <2>1. UNCHANGED <<armed, fired>> \/ (~armed' /\ fired' = fired)
    BY <1>2, <1>7 DEF ReadStep, ReadNext, ReadAcquire, ReadGotReadBlock, ReadLoop,
       ReadSkipsHeader, ReadHeaderBytes, ReadDefersCallback, ReadCallback, ReadPing,
       ReadPongPosted, ReadPongSent, ReadPong, ReadClose, ReadPayload, ReadPayloadBytes,
       ReadClosing, ReadClosePosted, ReadCloseSent, TornDown, ReadUpcall, timer
  <2>2. timed_out' = timed_out \/ ~timed_out'
    BY <1>3, <1>7 DEF ReadStep, ReadNext, ReadAcquire, ReadGotReadBlock, ReadLoop,
       ReadSkipsHeader, ReadHeaderBytes, ReadDefersCallback, ReadCallback, ReadPing,
       ReadPongPosted, ReadPongSent, ReadPong, ReadClose, ReadPayload, ReadPayloadBytes,
       ReadClosing, ReadClosePosted, ReadCloseSent, ReadCloseLocked, TornDown, ReadUpcall,
       session
  <2> QED
    BY <2>1, <2>2 DEF Untimed
<1>8. CASE Application
  <2>1. (UNCHANGED <<armed, fired>> \/ (~armed' /\ fired' = fired)) /\ timed_out' = timed_out
    BY <1>2, <1>8 DEF Application, AsyncReadSome, AsyncRead, AsyncWrite, AsyncPing,
       AsyncClose, session, timer
  <2> QED
    BY <2>1 DEF Untimed
<1>9. CASE \/ PeerSends \/ PeerCloses \/ UNCHANGED vars
           \/ \E o \in Ops, r \in {"ok", "err"} : IoCompletes(o, r)
  <2>1. UNCHANGED <<armed, fired, timed_out>>
    BY <1>9 DEF PeerSends, PeerCloses, IoCompletes, vars, session, timer
  <2> QED
    BY <2>1 DEF Untimed
<1> QED
  BY <1>4, <1>5, <1>6, <1>7, <1>8, <1>9 DEF Next, Handlers

\* Who is where owns what, as the assertions of soft_mutex say
LEMMA SimpleAsserts ==
  ASSUME Base, NEW o \in Simple, SimpleStep(o) \/ (o = "wr" /\ FrameSent)
  PROVE  asserts' = asserts
<1>1. Placed(o)
  BY SimpleFacts DEF Base, LockInv
<1>2. CASE SimpleBegin(o)
  BY <1>1, <1>2, SimpleFacts DEF SimpleBegin, Placed, Assert
<1>3. CASE SimplePosted(o)
  BY <1>1, <1>3, SimpleFacts DEF SimplePosted, Placed, Assert
<1>4. CASE SimpleUpcall(o)
  BY <1>1, <1>4, SimpleFacts DEF SimpleUpcall, Placed, Assert
<1>5. CASE PingSent(o) \/ FrameSent
  BY <1>5 DEF PingSent, FrameSent, history
<1> QED
  BY <1>2, <1>3, <1>4, <1>5 DEF SimpleStep

\* ... and close_op finds the flags as its assertions say
LEMMA CloseAsserts ==
  ASSUME Base, CloseInv, CloseStep
  PROVE  asserts' = asserts
<1>1. Placed("close") /\ Placed("rd")
  BY DEF Base, LockInv, Ops
<1>2. ASSUME CloseLocked, wr_block \in {None, "close"}, pc["close"] \in {"begin", "post"}
      PROVE  asserts' = asserts
  <2>1. wr_close => ~GoOn("ok")
    BY <1>2, GoOnIsAlive DEF CloseInv, SentInv, Closes, None
  <2> QED
    BY <1>2, <2>1 DEF CloseLocked, Assert
<1>3. CASE CloseBegin
  BY <1>2, <1>3 DEF CloseBegin
<1>4. CASE ClosePosted
  <2>1. wr_block = "close"
    BY <1>1, <1>4 DEF ClosePosted, Placed, InWrite
  <2> QED
    BY <1>2, <1>4, <2>1 DEF ClosePosted
<1>5. CASE CloseGotReadBlock
  <2>1. pc["close"] = "r_post" /\ rd_block = "close"
    BY <1>1, <1>5 DEF CloseGotReadBlock, Placed, InRead
  <2>2. pc["rd"] \notin {"closing", "cl_susp", "cl_post", "cl_write", "td"}
    BY <1>1, <2>1 DEF Placed, InRead
  <2>3. GoOn("ok") => ~rd_close
    BY <2>1, <2>2, GoOnIsAlive DEF CloseInv, ReceivedInv
  <2> QED
    BY <1>5, <2>3 DEF CloseGotReadBlock, Assert
<1>6. CASE CloseDrain
  <2>1. pc["close"] = "drain" /\ rd_block = "close" /\ Alive
    BY <1>1, <1>6 DEF CloseDrain, Placed, InRead, CloseInv, AliveInv
  <2>2. pc["rd"] \notin {"closing", "cl_susp", "cl_post", "cl_write", "td"}
    BY <1>1, <2>1 DEF Placed, InRead
  <2>3. ~rd_close
    BY <2>1, <2>2 DEF CloseInv, ReceivedInv
  <2> QED
    BY <1>6, <2>3 DEF CloseDrain, Assert
<1>7. CASE TornDown("close") \/ CloseUpcall
  <2>1. wr_block = "close"
    BY <1>1, <1>7 DEF TornDown, TearingDown, CloseUpcall, Placed, InWrite
  <2> QED
    BY <1>7, <2>1 DEF TornDown, CloseUpcall, Assert
<1>8. CASE CloseSent \/ CloseReceived
  BY <1>8 DEF CloseSent, CloseReceived, history
<1> QED
  BY <1>3, <1>4, <1>5, <1>6, <1>7, <1>8 DEF CloseStep

\* ... and so does the read
LEMMA ReadAsserts ==
  ASSUME ~CtrlCb, Untimed, Base, CloseInv, ReadStep
  PROVE  asserts' = asserts
<1>1. Placed("close") /\ Placed("rd")
  BY DEF Base, LockInv, Ops
<1>2. CASE ReadAcquire
  <2>1. rd_block # "rd"
    BY <1>1, <1>2 DEF ReadAcquire, Placed, InRead
  <2> QED
    BY <1>2, <2>1 DEF ReadAcquire, Assert
<1>3. CASE ReadGotReadBlock
  <2>1. ~GoOn("ok")
    BY <1>3, GoOnIsAlive DEF ReadGotReadBlock, CloseInv, AliveInv
  <2>2. Stop("rd", "ok") => ec' = [ec EXCEPT !["rd"] = "aborted"]
    BY DEF Stop, TimeoutDue, Untimed
  <2>3. Stop("rd", "ok") => ec'["rd"] = "aborted"
    BY <2>2 DEF Base, TypeOK, SessionOK, Ops
  <2> QED
    BY <1>3, <2>1, <2>3 DEF ReadGotReadBlock, Assert
<1>4. CASE ReadLoop \/ ReadHeaderBytes
  <2>1. rd_block = "rd"
    BY <1>1, <1>4 DEF ReadLoop, ReadHeaderBytes, Placed, InRead
  <2> QED
    BY <1>4, <2>1 DEF ReadLoop, ReadHeaderBytes, Assert
<1>5. CASE ReadPongPosted \/ ReadPongSent \/ ReadClosePosted \/ ReadCloseSent \/ TornDown("rd")
  <2>1. wr_block = "rd"
    BY <1>1, <1>5
       DEF ReadPongPosted, ReadPongSent, ReadClosePosted, ReadCloseSent, TornDown,
           TearingDown, Placed, InWrite
  <2> QED
    BY <1>5, <2>1
       DEF ReadPongPosted, ReadPongSent, ReadClosePosted, ReadCloseSent, TornDown, Assert
<1>6. CASE ReadClose
  <2>1. pc["rd"] = "ctl" /\ rd_block = "rd" /\ Alive
    BY <1>1, <1>6
       DEF ReadClose, Handles, Placed, InRead, CloseInv, AliveInv, Dispatching
  <2>2. ~rd_close /\ (status = "closing" => wr_close)
    BY <2>1 DEF CloseInv, ReceivedInv, SentInv
  <2> QED
    BY <1>6, <2>2 DEF ReadClose
<1>7. CASE ReadClosing
  <2>1. wr_block # "rd"
    BY <1>1, <1>7 DEF ReadClosing, Placed, InWrite
  <2> QED
    BY <1>7, <2>1 DEF ReadClosing, Assert
<1>8. CASE ReadUpcall
  <2>1. CloseParked => rd_block = "rd"
    BY <1>1 DEF CloseParked, Placed
  <2> QED
    BY <1>8, <2>1 DEF ReadUpcall, Assert
<1>9. CASE \/ ReadNext \/ ReadSkipsHeader \/ ReadPing \/ ReadPong \/ ReadPayload
           \/ ReadPayloadBytes
  BY <1>9 DEF ReadNext, ReadSkipsHeader, ReadPing, ReadPong, ReadPayload, ReadPayloadBytes,
     history
<1> QED
  BY <1>2, <1>3, <1>4, <1>5, <1>6, <1>7, <1>8, <1>9, NoCallback DEF ReadStep, CloseInv

\* None of the recorded BOOST_ASSERTs fails (those of the operations on their blocks,
\* the closing flags and the error of a suspended read, and those of soft_mutex),
\* without a control callback and time limits.
THEOREM NoAssertionFails ==
  ASSUME ~CtrlCb, NoLimits PROVE Spec => []AssertionsHold
<1>1. Init => Untimed /\ AssertionsHold
  BY DEF Init, Untimed, AssertionsHold
<1>2. Base /\ CloseInv /\ Untimed /\ AssertionsHold /\ [Next]_vars => Untimed' /\ AssertionsHold'
  <2> SUFFICES ASSUME Base, CloseInv, Untimed, AssertionsHold, [Next]_vars
               PROVE  Untimed' /\ AssertionsHold'
    OBVIOUS
  <2>1. Untimed'
    BY NextUntimed DEF Base
  <2>2. CASE ReadStep \/ CloseStep
    BY <2>1, <2>2, ReadAsserts, CloseAsserts DEF AssertionsHold
  <2>3. CASE WriteStep \/ SimpleStep("ping") \/ SimpleStep("idle_ping")
    BY <2>1, <2>3, SimpleAsserts DEF WriteStep, Simple, AssertionsHold
  <2>4. CASE Application \/ timeout_handler
    BY <2>1, <2>4 DEF Application, AsyncReadSome, AsyncRead, AsyncWrite, AsyncPing, AsyncClose,
       timeout_handler, history, AssertionsHold
  <2>5. CASE \/ TimerExpires \/ PeerSends \/ PeerCloses \/ UNCHANGED vars
             \/ \E o \in Ops, r \in {"ok", "err"} : IoCompletes(o, r)
    BY <2>1, <2>5 DEF TimerExpires, PeerSends, PeerCloses, IoCompletes, vars, history, AssertionsHold
  <2> QED
    BY <2>1, <2>2, <2>3, <2>4, <2>5 DEF Next, Handlers
<1> QED
  BY <1>1, <1>2, FlagsInvariant, BaseHolds, PTL DEF Spec

-----------------------------------------------------------------------------
(* What the application is told, for any calls, frames and messages, any failing
   I/O, full buffers and time limits, without a control callback.

   One cause, one report: an operation that check_stop_now tells a cause, and one
   that tells how its teardown ended, does so in the run of the executor in which
   it learned of it.  The first learned of it on a live stream, or took the timeout:
   by then no other operation has been told one.  The second was let into its
   teardown on a live stream and, inside the write block, is the only one in a
   teardown: nobody has told how another ended.  Neither says anything about the
   other, so that there may be one report of each kind.

   The end of a message is told where it is, and a timeout is told to somebody. *)

Causes == StopCauses \cup TeardownCauses

\* The labels of an operation that has met no error
Fresh == {"begin", "susp", "post", "write", "next", "acquire", "loop", "hdr", "ctl",
          "payload", "pay", "drain", "pong_susp", "pong_post", "pong_write", "r_susp",
          "r_post"}

\* No operation has been told a cause of the set C
NotTold(C) == \A i \in 1 .. Len(told) : told[i] \notin C

\* Operation o is about to tell a cause of the set C
Carries(o, C) == pc[o] = "upcall" /\ ec[o] \in C

\* Whoever is about to tell a cause is the first of its kind to do so
ToldOnce ==
  /\ OneReport
  /\ told # <<>> => ~Alive
  /\ timed_out => NotTold(StopCauses)
  /\ \A o \in Ops : pc[o] = "td" => NotTold(TeardownCauses)

Carriers ==
  \A o \in Ops :
    /\ Carries(o, Causes) => ~Alive /\ cur = o
    /\ Carries(o, StopCauses) => ~timed_out /\ NotTold(StopCauses)
    /\ Carries(o, TeardownCauses) => /\ NotTold(TeardownCauses)
                                     /\ \A x \in Ops : pc[x] # "td"

\* Where an operation has met no error of check_stop_now
ErrorFree ==
  /\ \A o \in Ops : /\ pc[o] \in Fresh => ec[o] = "ok"
                    /\ pc[o] \in RdCloses => ec[o] \notin StopCauses
  /\ Alive => ec["idle_ping"] = "ok"

ToldInv == ToldOnce /\ Carriers /\ ErrorFree

\* What the proofs below start from
Ground == Base /\ CloseInv

----------------------------------------------------------------------------
(* The shape of a step *)

\* Operation o moves and tells nothing yet
Tells(o) ==
  /\ told' = told /\ cur \in {o, None} /\ \A x \in Ops \ {o} : ec'[x] = ec[x]
  /\ timed_out' => timed_out
  /\ pc'[o] = "td" => Alive'
  /\ Carries(o, Causes)' => ~Alive' /\ cur' = o
  /\ Carries(o, StopCauses)' => ~timed_out' /\ NotTold(StopCauses)
  /\ Carries(o, TeardownCauses)' => pc[o] = "td"
  /\ pc'[o] \in Fresh => ec'[o] = "ok"
  /\ pc'[o] \in RdCloses => ec'[o] \notin StopCauses
  /\ o = "idle_ping" /\ Alive' => ec'[o] = "ok"

\* A teardown is alone: it is inside the write block
LEMMA Alone ==
  ASSUME Base, NEW o \in Ops, pc[o] = "td", NEW x \in Ops \ {o}
  PROVE  pc[x] # "td"
<1>1. Placed(o) /\ Placed(x)
  BY DEF Base, LockInv
<1>2. ASSUME NEW y \in Ops, Placed(y), pc[y] = "td" PROVE wr_block = y
  BY <1>2 DEF Base, LockInv, PcOK, Pcs, SimplePcs, Ops, Placed, InWrite
<1> QED
  BY <1>1, <1>2

\* Nobody is woken into a teardown or at the end of an operation
LEMMA WokenLabels ==
  ASSUME LockInv, NEW o \in Ops, NEW n \in Ops \cup {None},
         NEW q \in {None, "rd", "close"}, Steps(o, n, q), NEW x \in Ops \ {o}
  PROVE  /\ pc'[x] \in {"upcall", "td"} => pc'[x] = pc[x]
         /\ pc'[x] \in Fresh => pc[x] \in Fresh
         /\ pc'[x] \in RdCloses => pc[x] \in RdCloses
<1>1. CASE x = n
  <2>1. WaitsWr(n) /\ n \in Ops /\ pc'[x] = PostOf[pc[n]]
    BY <1>1, NoneIsNoOp DEF Steps
  <2> QED
    BY <1>1, <2>1, PostLabel DEF LockInv, Fresh, RdCloses
<1>2. CASE x # n
  BY <1>2, NoneIsNoOp DEF Steps, Fresh, RdCloses
<1> QED
  BY <1>1, <1>2

\* One more report of a kind that has not been told yet
LEMMA AppendTold ==
  ASSUME told \in Seq(Results), OneReport, NEW e \in Causes, told' = Append(told, e),
         e \in StopCauses => NotTold(StopCauses),
         e \in TeardownCauses => NotTold(TeardownCauses)
  PROVE  /\ OneReport'
         /\ e \in StopCauses /\ NotTold(TeardownCauses) => NotTold(TeardownCauses)'
         /\ e \in TeardownCauses /\ NotTold(StopCauses) => NotTold(StopCauses)'
<1>1. /\ Len(told') = Len(told) + 1 /\ Len(told) \in Nat
      /\ \A i \in 1 .. Len(told) : told'[i] = told[i]
      /\ told'[Len(told) + 1] = e
  BY DEF Causes, StopCauses, TeardownCauses, Results
<1>2. \A i \in 1 .. Len(told') : i \in 1 .. Len(told) \/ i = Len(told) + 1
  BY <1>1
<1>3. (e \in StopCauses /\ e \notin TeardownCauses) \/ (e \in TeardownCauses /\ e \notin StopCauses)
  BY DEF Causes, StopCauses, TeardownCauses
<1>4. ASSUME NEW i \in 1 .. Len(told'), NEW j \in 1 .. Len(told'), i # j
      PROVE  /\ ~({told'[i], told'[j]} \subseteq StopCauses)
             /\ ~({told'[i], told'[j]} \subseteq TeardownCauses)
  <2>1. CASE i \in 1 .. Len(told) /\ j \in 1 .. Len(told)
    BY <1>1, <1>4, <2>1 DEF OneReport
  <2>2. CASE i = Len(told) + 1 /\ j \in 1 .. Len(told)
    BY <1>1, <1>3, <2>2 DEF NotTold
  <2>3. CASE j = Len(told) + 1 /\ i \in 1 .. Len(told)
    BY <1>1, <1>3, <2>3 DEF NotTold
  <2> QED
    BY <1>2, <1>4, <2>1, <2>2, <2>3
<1>5. OneReport'
  BY <1>4 DEF OneReport
<1>6. ASSUME NEW C, NotTold(C), e \notin C PROVE \A i \in 1 .. Len(told') : told'[i] \notin C
  BY <1>1, <1>2, <1>6 DEF NotTold
<1> QED
  BY <1>3, <1>5, <1>6 DEF NotTold

\* Such a step keeps the invariant
LEMMA TellsKeeps ==
  ASSUME Ground, ToldInv, ~Alive => ~Alive',
         NEW o \in Ops, NEW n \in Ops \cup {None}, NEW q \in {None, "rd", "close"},
         Steps(o, n, q), Tells(o)
  PROVE  ToldInv'
<1>1. LockInv /\ o # None
  BY NoneIsNoOp DEF Ground, Base
<1>2. told' = told /\ \A C : NotTold(C)' = NotTold(C)
  BY DEF Tells, NotTold
<1>3. ASSUME NEW x \in Ops \ {o} PROVE ~Carries(x, Causes)'
  <2>1. Carries(x, Causes)' => Carries(x, Causes)
    BY <1>1, <1>3, WokenLabels DEF Tells, Carries
  <2> QED
    BY <1>1, <1>3, <2>1, NoneIsNoOp DEF Tells, ToldInv, Carriers
<1>4. ToldOnce'
  <2>1. ASSUME NEW x \in Ops, pc'[x] = "td" PROVE NotTold(TeardownCauses)
    <3>1. CASE x = o
      <4>1. told = <<>>
        BY <2>1, <3>1 DEF Tells, ToldInv, ToldOnce
      <4> QED
        BY <4>1 DEF NotTold
    <3>2. CASE x # o
      BY <1>1, <2>1, <3>2, WokenLabels DEF ToldInv, ToldOnce
    <3> QED
      BY <3>1, <3>2
  <2>2. OneReport' /\ (told' # <<>> => ~Alive')
    BY <1>2 DEF ToldInv, ToldOnce, OneReport
  <2>3. timed_out' => NotTold(StopCauses)
    BY DEF Tells, ToldInv, ToldOnce
  <2> QED
    BY <1>2, <2>1, <2>2, <2>3 DEF ToldOnce
<1>5. Carriers'
  <2>1. ASSUME NEW x \in Ops, Carries(x, Causes)' PROVE x = o
    BY <1>3, <2>1
  <2>2. Carries(o, TeardownCauses)' => /\ NotTold(TeardownCauses)
                                       /\ \A x \in Ops : pc'[x] # "td"
    <3> SUFFICES ASSUME Carries(o, TeardownCauses)'
                 PROVE  NotTold(TeardownCauses) /\ \A x \in Ops : pc'[x] # "td"
      OBVIOUS
    <3>1. pc[o] = "td" /\ pc'[o] = "upcall"
      BY DEF Tells, Carries
    <3>2. \A x \in Ops \ {o} : pc'[x] # "td"
      BY <1>1, <3>1, Alone, WokenLabels DEF Ground
    <3> QED
      BY <3>1, <3>2 DEF ToldInv, ToldOnce
  <2>3. \A x : Carries(x, StopCauses)' \/ Carries(x, TeardownCauses)' => Carries(x, Causes)'
    BY DEF Carries, Causes
  <2> QED
    BY <1>2, <2>1, <2>2, <2>3 DEF Carriers, Tells
<1>6. ErrorFree'
  <2>1. ASSUME NEW x \in Ops PROVE /\ pc'[x] \in Fresh => ec'[x] = "ok"
                                   /\ pc'[x] \in RdCloses => ec'[x] \notin StopCauses
    BY <1>1, <2>1, WokenLabels DEF ToldInv, ErrorFree, Tells
  <2>2. Alive' => ec'["idle_ping"] = "ok"
    BY DEF ToldInv, ErrorFree, Tells, Ops
  <2> QED
    BY <2>1, <2>2 DEF ErrorFree
<1> QED
  BY <1>4, <1>5, <1>6 DEF ToldInv

\* Whoever stops takes the timeout, is aborted, or tells an error of its own that
\* ends a live stream
LEMMA StopFacts ==
  ASSUME Ground, ToldInv, NEW o \in Ops, NEW e \in {"ok", "err"}, Stop(o, e)
  PROVE  /\ \A x \in Ops \ {o} : ec'[x] = ec[x]
         /\ ~Alive' /\ ~timed_out'
         /\ ec'[o] \in {"timeout", "aborted", "err"}
         /\ ec'[o] \in StopCauses => NotTold(StopCauses)
<1>1. ec \in [Ops -> Results]
  BY DEF Ground, Base, TypeOK, SessionOK
<1>2. /\ ~timed_out'
      /\ \/ ec' = [ec EXCEPT ![o] = "timeout"] /\ timed_out
         \/ ec' = [ec EXCEPT ![o] = "aborted"]
         \/ ec' = [ec EXCEPT ![o] = "err"] /\ Alive
  BY DEF Stop, TimeoutDue, Aborts, Alive, session
<1>3. ~Alive'
  BY StopIsDead DEF Ground, CloseInv
<1>4. timed_out \/ Alive => NotTold(StopCauses)
  <2>1. Alive => told = <<>>
    BY DEF ToldInv, ToldOnce
  <2> QED
    BY <2>1 DEF ToldInv, ToldOnce, NotTold
<1> QED
  BY <1>1, <1>2, <1>3, <1>4 DEF StopCauses

\* An operation that stops tells at most a cause of check_stop_now
LEMMA StoppedTells ==
  ASSUME Ground, ToldInv, NEW o \in Ops, NEW e \in {"ok", "err"}, Stop(o, e),
         told' = told, cur \in {o, None}, pc'[o] = "upcall", cur' = o
  PROVE  Tells(o)
<1>1. /\ \A x \in Ops \ {o} : ec'[x] = ec[x]
      /\ ~Alive' /\ ~timed_out'
      /\ ec'[o] \in {"timeout", "aborted", "err"}
      /\ ec'[o] \in StopCauses => NotTold(StopCauses)
  BY StopFacts
<1>2. ec'[o] \notin TeardownCauses
  BY <1>1 DEF TeardownCauses
<1> QED
  BY <1>1, <1>2 DEF Tells, Carries, Fresh, RdCloses

\* An operation that goes on tells nothing
LEMMA GoesOnTells ==
  ASSUME ToldInv, NEW o \in Ops, ec' = [ec EXCEPT ![o] = ec'[o]] \/ ec' = ec,
         Ground, told' = told, cur \in {o, None}, timed_out' = timed_out,
         pc'[o] = "td" => Alive', ~Alive => ~Alive',
         pc'[o] = "upcall" => ec'[o] \notin Causes,
         pc'[o] \in Fresh => pc[o] \in Fresh /\ ec'[o] = ec[o],
         pc'[o] \in RdCloses => \/ ec'[o] \in {"ok", "closed", "proto"}
                                \/ pc[o] \in RdCloses /\ ec'[o] = ec[o],
         o = "idle_ping" => ec' = ec
  PROVE  Tells(o)
<1>1. \A x \in Ops \ {o} : ec'[x] = ec[x]
  BY DEF Ground, Base, TypeOK, SessionOK
<1>2. ~Carries(o, Causes)' /\ ~Carries(o, StopCauses)' /\ ~Carries(o, TeardownCauses)'
  BY DEF Carries, Causes
<1>3. pc'[o] \in Fresh => ec'[o] = "ok"
  BY DEF ToldInv, ErrorFree
<1>4. pc'[o] \in RdCloses => ec'[o] \notin StopCauses
  BY DEF ToldInv, ErrorFree, StopCauses
<1>5. o = "idle_ping" /\ Alive' => ec'[o] = "ok"
  BY DEF ToldInv, ErrorFree
<1> QED
  BY <1>1, <1>2, <1>3, <1>4, <1>5 DEF Tells

----------------------------------------------------------------------------
(* The steps that tell nothing *)

\* A write or a ping, until it completes
LEMMA SimpleTells ==
  ASSUME Ground, ToldInv, NEW o \in Simple,
         \/ SimpleBegin(o) \/ SimplePosted(o) \/ PingSent(o)
         \/ o = "wr" /\ FrameSent
  PROVE  Tells(o)
<1> USE DEF Goto, GotoFrom, StartIo, YieldFrom, Park
<1>1. o \in Ops /\ o \notin {"rd", "close"} /\ pc \in [Ops -> Labels]
  BY SimpleFacts DEF Ground, Base, LockInv, PcOK
<1>2. /\ told' = told /\ cur \in {o, None}
      /\ pc[o] \in {"begin", "post", "write"} /\ ec[o] = "ok"
  BY <1>1 DEF SimpleBegin, SimplePosted, PingSent, FrameSent, Resumed, history, ToldInv,
     ErrorFree, Fresh
<1>3. ASSUME NEW e \in {"ok", "err"}, Stop(o, e), pc' = [pc EXCEPT ![o] = "upcall"],
             cur' = o
      PROVE  Tells(o)
  BY <1>1, <1>2, <1>3, StoppedTells
<1>4. ASSUME UNCHANGED <<session, ec>>, pc'[o] # "td" PROVE Tells(o)
  <2>1. Alive' = Alive /\ timed_out' = timed_out /\ ec'[o] \notin Causes
    BY <1>2, <1>4 DEF Alive, session, Causes, StopCauses, TeardownCauses
  <2> QED
    BY <1>1, <1>2, <1>4, <2>1, GoesOnTells DEF Fresh
<1>5. CASE SimpleBegin(o) \/ SimplePosted(o)
  <2>1. \/ Stop(o, "ok") /\ pc' = [pc EXCEPT ![o] = "upcall"] /\ cur' = o
        \/ /\ UNCHANGED <<session, ec>>
           /\ \E l \in {"upcall", "write", "susp"} : pc' = [pc EXCEPT ![o] = l]
    BY <1>5 DEF SimpleBegin, SimplePosted, SimpleLocked
  <2> QED
    BY <1>1, <1>3, <1>4, <2>1
<1>6. CASE PingSent(o)
  BY <1>1, <1>3, <1>4, <1>6 DEF PingSent, Resumed
<1>7. CASE o = "wr" /\ FrameSent
  <2>1. \/ Stop(o, io[o]) /\ pc' = [pc EXCEPT ![o] = "upcall"] /\ cur' = o
        \/ /\ UNCHANGED <<session, ec>>
           /\ \/ \E l \in {"upcall", "write"} : pc' = [pc EXCEPT ![o] = l]
              \/ \E n \in Ops : /\ NextWriter(o, n)
                                /\ pc' = [PcWoken(n) EXCEPT ![o] = "susp"]
    BY <1>7 DEF FrameSent
  <2>2. io[o] \in {"ok", "err"} /\ pc[o] = "write"
    BY <1>7 DEF FrameSent, Resumed
  <2>3. ASSUME NEW n \in Ops, NextWriter(o, n), pc' = [PcWoken(n) EXCEPT ![o] = "susp"]
        PROVE  pc'[o] # "td"
    BY <1>1, <2>2, <2>3, WokenAt DEF WaitsWr, Ground, Base
  <2> QED
    BY <1>1, <1>3, <1>4, <2>1, <2>2, <2>3
<1> QED
  BY <1>5, <1>6, <1>7

\* A teardown ends with an error of its own, or with the one that led to it
LEMMA TornDownTells ==
  ASSUME Ground, ToldInv, NEW o \in {"rd", "close"}, TornDown(o)
  PROVE  Tells(o)
<1>1. o \in Ops /\ pc \in [Ops -> Labels] /\ ec \in [Ops -> Results] /\ o # "idle_ping"
  BY DEF Ops, Ground, Base, LockInv, PcOK, TypeOK, SessionOK
<1>2. /\ told' = told /\ cur \in {o, None} /\ timed_out' = timed_out /\ ~Alive'
      /\ pc[o] = "td" /\ pc'[o] = "upcall" /\ cur' = o
      /\ \A x \in Ops \ {o} : ec'[x] = ec[x]
      /\ ec'[o] = "torn" \/ ec'[o] = ec[o]
  BY <1>1 DEF TornDown, TearingDown, Resumed, Goto, GotoFrom, Alive, Dead, FinalStatus
<1>3. ec'[o] \notin StopCauses
  BY <1>1, <1>2 DEF ToldInv, ErrorFree, RdCloses, StopCauses
<1> QED
  BY <1>1, <1>2, <1>3 DEF Tells, Carries, Fresh, RdCloses

\* close_op, until it completes
LEMMA CloseTells ==
  ASSUME Ground, ToldInv, ~Alive => ~Alive', CloseStep, ~CloseUpcall
  PROVE  Tells("close")
<1> USE DEF Goto, GotoFrom, StartIo, YieldFrom, Park
<1>1. "close" \in Ops /\ pc \in [Ops -> Labels] /\ ec \in [Ops -> Results]
  BY DEF Ops, Ground, Base, LockInv, PcOK, TypeOK, SessionOK
<1>2. told' = told /\ cur \in {"close", None}
  BY DEF CloseStep, CloseBegin, ClosePosted, CloseSent, CloseGotReadBlock, CloseDrain,
     CloseReceived, TornDown, Resumed, history
<1>3. ASSUME NEW e \in {"ok", "err"}, Stop("close", e),
             pc' = [pc EXCEPT !["close"] = "upcall"], cur' = "close"
      PROVE  Tells("close")
  BY <1>1, <1>2, <1>3, StoppedTells
<1>4. ASSUME pc["close"] \in Fresh, timed_out' = timed_out,
             NEW l, l # "upcall", pc' = [pc EXCEPT !["close"] = l],
             \/ ec' = ec
             \/ l = "td" /\ ec' = [ec EXCEPT !["close"] = "proto"],
             l = "td" => Alive'
      PROVE  Tells("close")
  <2>1. ec["close"] = "ok" /\ pc'["close"] = l
    BY <1>1, <1>4 DEF ToldInv, ErrorFree
  <2>2. ec' = [ec EXCEPT !["close"] = ec'["close"]] \/ ec' = ec
    BY <1>1, <1>4
  <2>3. l \in Fresh => ec' = ec
    BY <1>4 DEF Fresh
  <2>4. ec'["close"] \in {"ok", "proto"}
    BY <1>1, <1>4, <2>1
  <2> QED
    BY <1>1, <1>2, <1>4, <2>1, <2>2, <2>3, <2>4, GoesOnTells
<1>5. CASE CloseBegin \/ ClosePosted
  <2>1. pc["close"] \in Fresh
    BY <1>5 DEF CloseBegin, ClosePosted, Fresh
  <2>2. \/ Stop("close", "ok") /\ pc' = [pc EXCEPT !["close"] = "upcall"] /\ cur' = "close"
        \/ /\ \E l \in {"write", "susp"} : pc' = [pc EXCEPT !["close"] = l]
           /\ ec' = ec /\ timed_out' = timed_out
    BY <1>5 DEF CloseBegin, ClosePosted, CloseLocked, session
  <2> QED
    BY <1>3, <1>4, <2>1, <2>2
<1>6. CASE CloseSent \/ CloseReceived
  <2>1. io["close"] \in {"ok", "err"} /\ pc["close"] \in Fresh
    BY <1>6 DEF CloseSent, CloseReceived, Resumed, Reading, Fresh
  <2>2. \/ Stop("close", io["close"]) /\ pc' = [pc EXCEPT !["close"] = "upcall"]
                                      /\ cur' = "close"
        \/ /\ \E l \in {"td", "drain", "r_susp"} : pc' = [pc EXCEPT !["close"] = l]
           /\ UNCHANGED <<session, ec>> /\ GoOn(io["close"])
    BY <1>6 DEF CloseSent, CloseReceived
  <2> QED
    BY <1>3, <1>4, <2>1, <2>2, GoOnIsAlive DEF Alive, session
<1>7. CASE CloseGotReadBlock
  <2>1. pc["close"] \in Fresh
    BY <1>7 DEF CloseGotReadBlock, Fresh
  <2>2. \/ Stop("close", "ok") /\ pc' = [pc EXCEPT !["close"] = "upcall"] /\ cur' = "close"
        \/ pc' = [pc EXCEPT !["close"] = "drain"] /\ UNCHANGED <<session, ec>>
    BY <1>7 DEF CloseGotReadBlock
  <2> QED
    BY <1>3, <1>4, <2>1, <2>2 DEF session
<1>8. CASE CloseDrain
  <2>1. pc["close"] \in Fresh /\ Alive' /\ timed_out' = timed_out
    BY <1>8 DEF CloseDrain, session, Alive, Ground, CloseInv, AliveInv, Fresh
  <2>2. \/ ec' = ec /\ \E l \in {"td", "drain", "hdr", "pay"} : pc' = [pc EXCEPT !["close"] = l]
        \/ ec' = [ec EXCEPT !["close"] = "proto"] /\ pc' = [pc EXCEPT !["close"] = "td"]
    BY <1>1, <1>8 DEF CloseDrain
  <2> QED
    BY <1>4, <2>1, <2>2
<1>9. CASE TornDown("close")
  BY <1>9, TornDownTells
<1> QED
  BY <1>5, <1>6, <1>7, <1>8, <1>9 DEF CloseStep

\* The read, until it completes
LEMMA ReadTells ==
  ASSUME ~CtrlCb, Ground, ToldInv, ~Alive => ~Alive', ReadStep, ~ReadUpcall, ~ReadNext
  PROVE  Tells("rd")
<1> USE DEF Goto, GotoFrom, StartIo, YieldFrom, Park
<1>1. "rd" \in Ops /\ pc \in [Ops -> Labels] /\ ec \in [Ops -> Results] /\ "rd" # "idle_ping"
  BY DEF Ops, Ground, Base, LockInv, PcOK, TypeOK, SessionOK
<1>2. cur \in {"rd", None}
  BY DEF ReadStep, ReadNext, ReadAcquire, ReadGotReadBlock, ReadLoop, ReadSkipsHeader,
     ReadHeaderBytes, ReadDefersCallback, ReadCallback, ReadPing, ReadPongPosted,
     ReadPongSent, ReadPong, ReadClose, ReadPayload, ReadPayloadBytes, ReadClosing,
     ReadClosePosted, ReadCloseSent, TornDown, Handles, Resumed
<1>3. ASSUME told' = told, NEW e \in {"ok", "err"}, Stop("rd", e),
             pc' = [pc EXCEPT !["rd"] = "upcall"], cur' = "rd"
      PROVE  Tells("rd")
  BY <1>1, <1>2, <1>3, StoppedTells
<1>4. ASSUME told' = told, ec' = ec, timed_out' = timed_out,
             pc'["rd"] = "td" => Alive',
             pc'["rd"] = "upcall" => ec["rd"] = "ok",
             pc'["rd"] \in Fresh => pc["rd"] \in Fresh,
             pc'["rd"] \in RdCloses => pc["rd"] \in RdCloses
      PROVE  Tells("rd")
  <2>1. pc'["rd"] = "upcall" => ec'["rd"] \notin Causes
    BY <1>4 DEF Causes, StopCauses, TeardownCauses
  <2> QED
    BY <1>1, <1>2, <1>4, <2>1, GoesOnTells
<1>5. ASSUME told' = told, timed_out' = timed_out,
             NEW e, ec' = [ec EXCEPT !["rd"] = e],
             NEW l, pc' = [pc EXCEPT !["rd"] = l],
             \/ l = "closing" /\ e \in {"closed", "proto"}
             \/ l = "upcall" /\ e = "aborted"
      PROVE  Tells("rd")
  <2>1. /\ pc'["rd"] \notin Fresh \cup {"td"} /\ ec' = [ec EXCEPT !["rd"] = ec'["rd"]]
        /\ pc'["rd"] = "upcall" => ec'["rd"] \notin Causes
        /\ pc'["rd"] \in RdCloses => ec'["rd"] \in {"closed", "proto"}
    BY <1>1, <1>5 DEF Fresh, RdCloses, Causes, StopCauses, TeardownCauses
  <2> QED
    BY <1>1, <1>2, <1>5, <2>1, GoesOnTells
<1>6. pc["rd"] \in Fresh => ec["rd"] = "ok"
  BY <1>1 DEF ToldInv, ErrorFree
<1>8. CASE ReadAcquire
  <2>1. /\ told' = told /\ timed_out' = timed_out /\ pc["rd"] = "acquire"
        /\ \/ ec' = [ec EXCEPT !["rd"] = "aborted"] /\ pc' = [pc EXCEPT !["rd"] = "upcall"]
           \/ ec' = ec /\ \E l \in {"loop", "r_susp"} : pc' = [pc EXCEPT !["rd"] = l]
    BY <1>8 DEF ReadAcquire, session
  <2> QED
    BY <1>1, <1>4, <1>5, <2>1 DEF Fresh, RdCloses
<1>9. CASE ReadGotReadBlock
  <2>1. /\ told' = told /\ pc' = [pc EXCEPT !["rd"] = "upcall"] /\ cur' = "rd"
        /\ \/ Stop("rd", "ok")
           \/ ec' = [ec EXCEPT !["rd"] = "aborted"] /\ timed_out' = timed_out
    BY <1>9 DEF ReadGotReadBlock, session
  <2> QED
    BY <1>3, <1>5, <2>1
<1>10. CASE ReadLoop \/ ReadSkipsHeader
  <2>1. /\ told' = told /\ timed_out' = timed_out /\ pc["rd"] = "loop"
        /\ \/ /\ ec' = ec
              /\ \E l \in {"hdr", "ctl", "loop", "payload"} : pc' = [pc EXCEPT !["rd"] = l]
           \/ ec' = [ec EXCEPT !["rd"] = "proto"] /\ pc' = [pc EXCEPT !["rd"] = "closing"]
    BY <1>10 DEF ReadLoop, ReadSkipsHeader, session, history
  <2> QED
    BY <1>1, <1>4, <1>5, <2>1 DEF Fresh, RdCloses
<1>11. CASE ReadHeaderBytes \/ ReadPayloadBytes
  <2>1. /\ told' = told /\ pc["rd"] \in {"hdr", "pay"} /\ io["rd"] \in {"ok", "err"}
        /\ \/ Stop("rd", io["rd"]) /\ pc' = [pc EXCEPT !["rd"] = "upcall"] /\ cur' = "rd"
           \/ /\ UNCHANGED <<session, ec>>
              /\ \/ \E l \in {"loop", "payload"} : pc' = [pc EXCEPT !["rd"] = l]
                 \/ pc' = [[pc EXCEPT !["close"] = "r_post"] EXCEPT !["rd"] = "r_susp"]
    BY <1>11 DEF ReadHeaderBytes, ReadPayloadBytes, Resumed, history
  <2>2. pc["rd"] \in Fresh
    BY <2>1 DEF Fresh
  <2> QED
    BY <1>1, <1>3, <1>4, <2>1, <2>2 DEF session, RdCloses
<1>12. CASE ReadPing \/ ReadPong
  <2>1. /\ told' = told /\ UNCHANGED <<session, ec>> /\ pc["rd"] = "ctl"
        /\ \E l \in {"loop", "pong_write", "pong_susp"} :
             \/ pc' = [pc EXCEPT !["rd"] = l]
             \/ pc' = [[pc EXCEPT !["close"] = "r_post"] EXCEPT !["rd"] = l]
    BY <1>12 DEF ReadPing, ReadPong, Handles, history
  <2> QED
    BY <1>1, <1>4, <2>1 DEF session, Fresh, RdCloses
<1>13. CASE ReadPongPosted
  <2>1. /\ told' = told /\ pc["rd"] = "pong_post"
        /\ \/ Stop("rd", "ok") /\ pc' = [pc EXCEPT !["rd"] = "upcall"] /\ cur' = "rd"
           \/ UNCHANGED <<session, ec>> /\ pc' = [pc EXCEPT !["rd"] = "pong_write"]
    BY <1>13 DEF ReadPongPosted
  <2> QED
    BY <1>1, <1>3, <1>4, <2>1 DEF session, Fresh, RdCloses
<1>14. CASE ReadPongSent
  <2>1. /\ told' = told /\ pc["rd"] = "pong_write" /\ io["rd"] \in {"ok", "err"}
        /\ \/ Stop("rd", io["rd"]) /\ pc' = [pc EXCEPT !["rd"] = "upcall"] /\ cur' = "rd"
           \/ /\ UNCHANGED <<session, ec>>
              /\ \E n \in Ops \cup {None} :
                   NextWriter("rd", n) /\ pc' = [PcWoken(n) EXCEPT !["rd"] = "acquire"]
    BY <1>14 DEF ReadPongSent, Resumed
  <2>2. ~WaitsWr("rd")
    BY <2>1 DEF WaitsWr
  <2>3. ASSUME NEW n \in Ops \cup {None}, NextWriter("rd", n),
               pc' = [PcWoken(n) EXCEPT !["rd"] = "acquire"]
        PROVE  pc'["rd"] = "acquire"
    BY <1>1, <2>2, <2>3, WokenAt DEF Ground, Base
  <2> QED
    BY <1>1, <1>3, <1>4, <2>1, <2>2, <2>3 DEF session, Fresh, RdCloses
<1>15. CASE ReadClose
  <2>1. /\ told' = told /\ timed_out' = timed_out /\ pc' = [pc EXCEPT !["rd"] = "closing"]
        /\ \E e \in {"closed", "proto"} : ec' = [ec EXCEPT !["rd"] = e]
    BY <1>15 DEF ReadClose, session
  <2> QED
    BY <1>5, <2>1
<1>16. CASE ReadPayload
  <2>1. /\ told' = told /\ pc["rd"] = "payload"
        /\ \/ /\ Stop("rd", "ok") \/ Stop("rd", "err")
              /\ pc' = [pc EXCEPT !["rd"] = "upcall"] /\ cur' = "rd"
           \/ /\ UNCHANGED <<session, ec>>
              /\ \E l \in {"pay", "upcall"} : pc' = [pc EXCEPT !["rd"] = l]
           \/ /\ UNCHANGED session /\ ec' = [ec EXCEPT !["rd"] = "proto"]
              /\ pc' = [pc EXCEPT !["rd"] = "closing"]
    BY <1>16 DEF ReadPayload, history
  <2>2. pc["rd"] \in Fresh
    BY <2>1 DEF Fresh
  <2> QED
    BY <1>1, <1>3, <1>4, <1>5, <1>6, <2>1, <2>2 DEF session, Fresh, RdCloses
<1>17. CASE ReadClosing \/ ReadClosePosted \/ ReadCloseSent
  <2>1. /\ told' = told /\ pc["rd"] \in RdCloses
        /\ \/ /\ \/ Stop("rd", "ok")
                 \/ Stop("rd", io["rd"]) /\ io["rd"] \in {"ok", "err"}
              /\ pc' = [pc EXCEPT !["rd"] = "upcall"] /\ cur' = "rd"
           \/ UNCHANGED <<session, ec>> /\ pc' = [pc EXCEPT !["rd"] = "cl_susp"]
           \/ /\ ec' = ec /\ timed_out' = timed_out
              /\ status' = "closing" \/ (UNCHANGED session /\ GoOn(io["rd"]))
              /\ \E l \in {"td", "cl_write"} : pc' = [pc EXCEPT !["rd"] = l]
    BY <1>17 DEF ReadClosing, ReadClosePosted, ReadCloseSent, ReadCloseLocked, Resumed,
       session, RdCloses
  <2>2. status' = "closing" \/ (UNCHANGED session /\ GoOn(io["rd"])) => Alive'
    BY GoOnIsAlive DEF Alive, session, Dead
  <2> QED
    BY <1>1, <1>3, <1>4, <2>1, <2>2 DEF session, Fresh, RdCloses
<1>18. CASE TornDown("rd")
  BY <1>18, TornDownTells
<1> QED
  BY <1>8, <1>9, <1>10, <1>11, <1>12, <1>13, <1>14, <1>15, <1>16, <1>17, <1>18,
     NoCallback DEF ReadStep, Ground, CloseInv

----------------------------------------------------------------------------
(* The steps that tell *)

\* An operation that completes tells its cause, if it has one, as the first of its
\* kind
LEMMA CompletionKeeps ==
  ASSUME Ground, ToldInv,
         NEW o \in Ops, NEW n \in Ops \cup {None}, NEW q \in {None, "rd", "close"},
         Steps(o, n, q), cur = o, pc[o] = "upcall", UNCHANGED <<session, ec>>,
         \/ told' = told
         \/ ec[o] \in Causes /\ told' = Append(told, ec[o]),
         pc'[o] \notin {"upcall", "td"} \cup RdCloses,
         pc'[o] \in Fresh => ec[o] = "ok"
  PROVE  ToldInv'
<1>1. LockInv /\ o # None /\ Alive' = Alive /\ timed_out' = timed_out
      /\ told \in Seq(Results)
  BY NoneIsNoOp DEF Ground, Base, Alive, session, TypeOK, HistoryOK
<1>2. told' # told => /\ ec[o] \in Causes /\ told' = Append(told, ec[o])
                      /\ ~Alive
                      /\ ec[o] \in StopCauses => ~timed_out /\ NotTold(StopCauses)
                      /\ ec[o] \in TeardownCauses => /\ NotTold(TeardownCauses)
                                                    /\ \A x \in Ops : pc[x] # "td"
  BY DEF ToldInv, Carriers, Carries
<1>3. /\ OneReport'
      /\ timed_out => NotTold(StopCauses)'
      /\ (\E x \in Ops : pc[x] = "td") => NotTold(TeardownCauses)'
  <2>1. CASE told' = told
    BY <2>1 DEF ToldInv, ToldOnce, OneReport, NotTold
  <2>2. CASE told' # told
    <3>1. /\ OneReport'
          /\ ec[o] \in StopCauses /\ NotTold(TeardownCauses) => NotTold(TeardownCauses)'
          /\ ec[o] \in TeardownCauses /\ NotTold(StopCauses) => NotTold(StopCauses)'
      BY <1>1, <1>2, <2>2, AppendTold DEF ToldInv, ToldOnce
    <3>2. ec[o] \in StopCauses \/ ec[o] \in TeardownCauses
      BY <1>2, <2>2 DEF Causes
    <3> QED
      BY <1>2, <2>2, <3>1, <3>2 DEF ToldInv, ToldOnce
  <2> QED
    BY <2>1, <2>2
<1>4. \A x \in Ops \ {o} : pc'[x] \in {"upcall", "td"} => pc'[x] = pc[x]
  BY <1>1, WokenLabels
<1>5. ToldOnce'
  <2>1. told' # <<>> => ~Alive'
    BY <1>1, <1>2 DEF ToldInv, ToldOnce
  <2> QED
    BY <1>1, <1>3, <1>4, <2>1 DEF ToldOnce
<1>6. Carriers'
  <2>1. ASSUME NEW x \in Ops, pc'[x] = "upcall" PROVE ec'[x] \notin Causes
    <3>1. x # o /\ pc[x] = "upcall" /\ ec' = ec
      BY <1>4, <2>1
    <3> QED
      BY <3>1 DEF ToldInv, Carriers, Carries
  <2> QED
    BY <2>1 DEF Carriers, Carries, Causes
<1>7. ErrorFree'
  <2>1. ASSUME NEW x \in Ops PROVE /\ pc'[x] \in Fresh => ec'[x] = "ok"
                                   /\ pc'[x] \in RdCloses => ec'[x] \notin StopCauses
    BY <1>1, <2>1, WokenLabels DEF ToldInv, ErrorFree
  <2> QED
    BY <1>1, <2>1 DEF ToldInv, ErrorFree
<1> QED
  BY <1>5, <1>6, <1>7 DEF ToldInv

\* A read that stops before its next read_some tells the cause at once
LEMMA ReadNextTold ==
  ASSUME Ground, ToldInv, ~Alive => ~Alive', ReadNext
  PROVE  ToldInv'
<1> USE DEF Goto, GotoFrom, YieldFrom
<1>1. /\ "rd" \in Ops /\ pc \in [Ops -> Labels] /\ told \in Seq(Results) /\ LockInv
      /\ cur \in {"rd", None} /\ pc["rd"] = "next"
  BY DEF Ops, Ground, Base, LockInv, PcOK, TypeOK, HistoryOK, ReadNext, Resumed
<1>2. CASE UNCHANGED <<session, ec, told>> /\ pc' = [pc EXCEPT !["rd"] = "acquire"]
  <2>1. PICK n \in Ops \cup {None}, q \in {None, "close"} : Steps("rd", n, q)
    BY <1>1, ReadSteps DEF ReadStep
  <2>2. pc'["rd"] = "acquire" /\ timed_out' = timed_out
    BY <1>1, <1>2 DEF session
  <2>3. Tells("rd")
    BY <1>1, <1>2, <2>2, GoesOnTells DEF Fresh, RdCloses
  <2> QED
    BY <1>1, <2>1, <2>3, TellsKeeps
<1>3. CASE /\ Stop("rd", "ok") \/ Stop("rd", "err")
           /\ pc' = [pc EXCEPT !["rd"] = "idle"]
           /\ told' = IF ec'["rd"] \in StopCauses THEN Append(told, ec'["rd"]) ELSE told
  <2>1. /\ \A x \in Ops \ {"rd"} : ec'[x] = ec[x]
        /\ ~Alive' /\ ~timed_out'
        /\ ec'["rd"] \in StopCauses => NotTold(StopCauses)
    BY <1>1, <1>3, StopFacts
  <2>2. OneReport' /\ (NotTold(TeardownCauses) => NotTold(TeardownCauses)')
    <3>1. CASE ec'["rd"] \in StopCauses
      BY <1>1, <1>3, <2>1, <3>1, AppendTold
         DEF ToldInv, ToldOnce, Causes, StopCauses, TeardownCauses
    <3>2. CASE ec'["rd"] \notin StopCauses
      BY <1>3, <3>2 DEF ToldInv, ToldOnce, OneReport, NotTold
    <3> QED
      BY <3>1, <3>2
  <2>3. ToldOnce'
    BY <1>1, <1>3, <2>1, <2>2 DEF ToldInv, ToldOnce
  <2>4. Carriers'
    <3>1. ASSUME NEW x \in Ops, pc'[x] = "upcall" PROVE ec'[x] \notin Causes
      <4>1. x # "rd" /\ pc[x] = "upcall" /\ ec'[x] = ec[x] /\ cur # x
        BY <1>1, <1>3, <2>1, <3>1, NoneIsNoOp
      <4> QED
        BY <4>1 DEF ToldInv, Carriers, Carries
    <3> QED
      BY <3>1 DEF Carriers, Carries, Causes
  <2>5. ErrorFree'
    <3>1. pc'["rd"] = "idle" /\ \A x \in Ops \ {"rd"} : pc'[x] = pc[x]
      BY <1>1, <1>3
    <3> QED
      BY <2>1, <3>1 DEF ToldInv, ErrorFree, Fresh, RdCloses
  <2> QED
    BY <2>3, <2>4, <2>5 DEF ToldInv
<1> QED
  BY <1>2, <1>3 DEF ReadNext

\* The timer: a timeout ends a live stream, where nothing has been told yet
LEMMA TimerTold ==
  ASSUME Ground, ToldInv, timeout_handler
  PROVE  ToldInv'
<1>1. /\ cur = None /\ told' = told /\ ec' = ec /\ pc \in [Ops -> Labels]
      /\ "idle_ping" \in Ops
  BY DEF timeout_handler, Ground, Base, LockInv, PcOK, Ops
<1>2. \A x \in Ops : ~Carries(x, Causes)
  BY <1>1, NoneIsNoOp DEF ToldInv, Carriers
<1>3. \/ UNCHANGED session /\ pc' = pc
      \/ Alive /\ UNCHANGED session /\ pc' = [pc EXCEPT !["idle_ping"] = "begin"]
      \/ Alive /\ ~Alive' /\ pc' = pc
  BY DEF timeout_handler, TimeOut, IdlePing, Goto, GotoFrom, Alive, Dead
<1>4. \A x \in Ops : pc'[x] # pc[x] => x = "idle_ping" /\ pc'[x] = "begin" /\ Alive
  BY <1>1, <1>3
<1>5. (~Alive => ~Alive') /\ (Alive => told = <<>>)
  BY <1>3 DEF Alive, session, ToldInv, ToldOnce
<1>6. ToldOnce'
  <2>1. timed_out' => timed_out \/ told = <<>>
    BY <1>3, <1>5 DEF session
  <2>2. \A C : (told = <<>> => NotTold(C)) /\ NotTold(C)' = NotTold(C)
    BY <1>1 DEF NotTold
  <2>3. OneReport' /\ (told' # <<>> => ~Alive')
    BY <1>1, <1>5 DEF OneReport, ToldInv, ToldOnce
  <2>4. \A x \in Ops : pc'[x] = "td" => pc[x] = "td"
    BY <1>4
  <2> QED
    BY <2>1, <2>2, <2>3, <2>4 DEF ToldInv, ToldOnce
<1>7. Carriers'
  BY <1>1, <1>2, <1>4 DEF Carriers, Carries, Causes
<1>8. ErrorFree'
  BY <1>1, <1>4, <1>5 DEF ToldInv, ErrorFree, Fresh, RdCloses
<1> QED
  BY <1>6, <1>7, <1>8 DEF ToldInv

\* A write, a ping or an idle ping that completes
LEMMA SimpleUpcallTold ==
  ASSUME Ground, ToldInv, NEW o \in Simple, SimpleUpcall(o)
  PROVE  ToldInv'
<1>1. o \in Ops /\ LockInv
  BY SimpleFacts DEF Ground, Base
<1>2. PICK n \in Ops \cup {None} : Steps(o, n, None)
  BY <1>1, SimpleUpcallSteps
<1>3. /\ cur = o /\ pc[o] = "upcall" /\ UNCHANGED <<session, ec>>
      /\ told' = told \/ (ec[o] \in Causes /\ told' = Append(told, ec[o]))
  BY DEF SimpleUpcall, Report, Causes
<1>4. pc'[o] = "idle"
  <2>1. PICK m \in Ops \cup {None} :
          NextWriter(o, m) /\ pc' = [PcWoken(m) EXCEPT ![o] = "idle"]
    BY DEF SimpleUpcall, YieldFrom
  <2> QED
    BY <1>1, <1>3, <2>1, WokenAt DEF WaitsWr
<1> QED
  BY <1>1, <1>2, <1>3, <1>4, CompletionKeeps DEF Fresh, RdCloses

\* A close that completes
LEMMA CloseUpcallTold ==
  ASSUME Ground, ToldInv, CloseUpcall
  PROVE  ToldInv'
<1>1. "close" \in Ops /\ LockInv
  BY DEF Ops, Ground, Base
<1>2. PICK n \in Ops \cup {None}, q \in {None, "rd"} : Steps("close", n, q)
  BY <1>1, CloseUpcallSteps
<1>3. /\ cur = "close" /\ pc["close"] = "upcall" /\ UNCHANGED <<session, ec>>
      /\ told' = told \/ (ec["close"] \in Causes /\ told' = Append(told, ec["close"]))
  BY DEF CloseUpcall, Report, Causes
<1>4. pc'["close"] = "idle"
  <2>1. PICK m \in Ops \cup {None} :
          /\ NextWriter("close", m)
          /\ \/ pc' = [PcWoken(m) EXCEPT !["close"] = "idle"]
             \/ pc' = [[PcWoken(m) EXCEPT !["rd"] = "r_post"] EXCEPT !["close"] = "idle"]
    BY DEF CloseUpcall, YieldFrom
  <2> QED
    BY <1>1, <1>3, <2>1, WokenAt DEF WaitsWr
<1> QED
  BY <1>1, <1>2, <1>3, <1>4, CompletionKeeps DEF Fresh, RdCloses

\* A read that completes, or goes on with the next part of its message
LEMMA ReadUpcallTold ==
  ASSUME Ground, ToldInv, ReadUpcall
  PROVE  ToldInv'
<1>1. "rd" \in Ops /\ LockInv
  BY DEF Ops, Ground, Base
<1>2. PICK n \in Ops \cup {None}, q \in {None, "close"} : Steps("rd", n, q)
  BY <1>1, ReadUpcallSteps
<1>3. /\ cur = "rd" /\ pc["rd"] = "upcall" /\ UNCHANGED <<session, ec>>
      /\ told' = told \/ (ec["rd"] \in Causes /\ told' = Append(told, ec["rd"]))
  BY DEF ReadUpcall, Report, Causes
<1>4. pc'["rd"] = "idle" \/ (pc'["rd"] = "next" /\ ec["rd"] = "ok")
  <2>1. PICK m \in Ops \cup {None}, l \in {"next", "idle"} :
          /\ NextWriter("rd", m) \/ m = None
          /\ l = "next" => ec["rd"] = "ok"
          /\ \/ pc' = [PcWoken(m) EXCEPT !["rd"] = l]
             \/ pc' = [[PcWoken(m) EXCEPT !["close"] = "r_post"] EXCEPT !["rd"] = l]
    BY DEF ReadUpcall, GotoFrom, YieldFrom
  <2>2. PcWoken(m) \in [Ops -> Labels]
    BY <1>1, <1>3, <2>1, WokenAt, PcWokenIs, NoneIsNoOp DEF WaitsWr, LockInv
  <2> QED
    BY <1>1, <2>1, <2>2
<1> QED
  BY <1>1, <1>2, <1>3, <1>4, CompletionKeeps DEF Fresh, RdCloses

----------------------------------------------------------------------------
(* The theorem *)

\* A call starts an operation without an error, while none runs
LEMMA CallsTold ==
  ASSUME Ground, ToldInv, ~Alive => ~Alive', Application
  PROVE  ToldInv'
<1>1. PICK o \in Ops : /\ Steps(o, None, None) /\ pc'[o] \in {"next", "acquire", "begin"}
                       /\ pc[o] = "idle"
  BY CallsSteps DEF Ground, Base
<1>2. PICK p \in Ops, l \in {"next", "acquire", "begin"} :
        pc' = [pc EXCEPT ![p] = l] /\ ec' = [ec EXCEPT ![p] = "ok"]
  BY DEF Application, AsyncReadSome, AsyncRead, AsyncWrite, AsyncPing, AsyncClose, Goto,
     GotoFrom, Ops
<1>3. o = p
  BY <1>1, <1>2 DEF Ground, Base, LockInv, PcOK
<1>4. told' = told /\ cur = None /\ UNCHANGED session
  BY DEF Application, AsyncReadSome, AsyncRead, AsyncWrite, AsyncPing, AsyncClose, history
<1>5. ec'[o] = "ok" /\ \A x \in Ops \ {o} : ec'[x] = ec[x]
  BY <1>2, <1>3 DEF Ground, Base, TypeOK, SessionOK
<1>6. Tells(o)
  BY <1>1, <1>4, <1>5 DEF Tells, Carries, session, Fresh, RdCloses
<1> QED
  BY <1>1, <1>6, TellsKeeps

\* Every step keeps the invariant
LEMMA NextTold ==
  ASSUME ~CtrlCb, Ground, ToldInv, [Next]_vars
  PROVE  ToldInv'
<1>1. (~Alive => ~Alive') /\ LockInv
  BY NextAlive DEF Ground, CloseInv, Base
<1>2. CASE ReadStep
  <2>1. PICK n \in Ops \cup {None}, q \in {None, "close"} : Steps("rd", n, q)
    BY <1>1, <1>2, ReadSteps
  <2>2. "rd" \in Ops
    BY DEF Ops
  <2> QED
    BY <1>1, <1>2, <2>1, <2>2, ReadTells, ReadNextTold, ReadUpcallTold, TellsKeeps
<1>3. CASE CloseStep
  <2>1. PICK n \in Ops \cup {None}, q \in {None, "rd"} : Steps("close", n, q)
    BY <1>1, <1>3, CloseSteps
  <2>2. "close" \in Ops
    BY DEF Ops
  <2> QED
    BY <1>1, <1>3, <2>1, <2>2, CloseTells, CloseUpcallTold, TellsKeeps
<1>4. ASSUME NEW o \in Simple, SimpleStep(o) \/ (o = "wr" /\ FrameSent) PROVE ToldInv'
  <2>1. CASE SimpleUpcall(o)
    BY <2>1, SimpleUpcallTold
  <2>2. CASE ~SimpleUpcall(o)
    <3>1. Tells(o) /\ o \in Ops
      BY <1>4, <2>2, SimpleTells, SimpleFacts DEF SimpleStep
    <3>2. PICK n \in Ops \cup {None} : Steps(o, n, None)
      BY <1>1, <1>4, <2>2, <3>1, SimpleLone, FrameSentSteps, LoneSteps DEF SimpleStep
    <3> QED
      BY <1>1, <3>1, <3>2, TellsKeeps
  <2> QED
    BY <2>1, <2>2
<1>5. CASE Application
  BY <1>1, <1>5, CallsTold
<1>6. CASE \/ TimerExpires \/ PeerSends \/ PeerCloses \/ UNCHANGED vars
           \/ \E o \in Ops, r \in {"ok", "err"} : IoCompletes(o, r)
  <2>1. UNCHANGED <<pc, ec, told, session, cur>>
    BY <1>6 DEF TimerExpires, PeerSends, PeerCloses, IoCompletes, vars, history
  <2> QED
    BY <2>1 DEF ToldInv, ToldOnce, OneReport, NotTold, Carriers, Carries, ErrorFree, Alive,
       session
<1>7. CASE timeout_handler
  BY <1>7, TimerTold
<1> QED
  BY <1>2, <1>3, <1>4, <1>5, <1>6, <1>7 DEF Next, Handlers, WriteStep, Simple

\* At first nothing has been told, and nobody has anything to tell
LEMMA InitTold == Init => ToldInv
<1> SUFFICES ASSUME Init PROVE ToldInv
  OBVIOUS
<1>1. told = <<>> /\ ~timed_out /\ \A o \in Ops : pc[o] = "idle" /\ ec[o] = "ok"
  BY DEF Init
<1>2. OneReport
  BY <1>1 DEF OneReport
<1> QED
  BY <1>1, <1>2 DEF ToldInv, ToldOnce, Carriers, Carries, ErrorFree, NotTold, Fresh,
     RdCloses, Ops

\* Of all the operations that check_stop_now ends, for an error of the connection, a
\* full buffer or a timeout, at most one tells its handler the cause, and every other
\* one is told operation_aborted; and at most one tells how a teardown ended.  For
\* any time limits, without a control callback.
THEOREM CauseToldOnce ==
  ASSUME ~CtrlCb PROVE Spec => []OneReport
<1>1. Base /\ CloseInv /\ ToldInv /\ [Next]_vars => ToldInv'
  BY NextTold DEF Ground
<1>2. ToldInv => OneReport
  BY DEF ToldInv, ToldOnce
<1> QED
  BY <1>1, <1>2, InitTold, FlagsInvariant, BaseHolds, PTL DEF Spec

----------------------------------------------------------------------------
(* With a control callback or without.  Behind the post for the callback the read
   does not ask check_stop_now, and may close a dead stream once more: for that
   while the stream is alive again, and the next error that strikes is not the
   first.  What a read that lent its block to close_op finds is still right, as
   long as no operation has been told an error of its own.                     *)

\* A dead stream is still dead behind an operation that stops
LEMMA StopLeavesDead ==
  ASSUME NEW o, NEW e, Stop(o, e)
  PROVE  /\ ~Alive => ~Alive'
         /\ ~timed_out'
         /\ ec_delivered => ec_delivered'
         /\ Alive' => timed_out \/ ec_delivered
  BY DEF Stop, TimeoutDue, Aborts, Alive, Dead, session

\* What a step may do to the state of the stream, but for a read that closes it
SoundStep ==
  /\ ~Alive => ~Alive'
  /\ timed_out' /\ Alive' => timed_out
  /\ ec_delivered => ec_delivered'

\* To leave the stream alone is one such step, and to stop another
LEMMA SessionSound ==
  ASSUME UNCHANGED session \/ \E o, e : Stop(o, e)
  PROVE  SoundStep
  BY StopLeavesDead DEF SoundStep, session, Alive

\* All steps are, but the one with which the read closes
LEMMA OnlyClosingRevives ==
  ASSUME [Next]_vars, ~ReadClosing
  PROVE  SoundStep
<1>1. CASE \/ ReadAcquire \/ ReadLoop \/ ReadSkipsHeader \/ ReadDefersCallback
           \/ ReadCallback \/ ReadPing \/ ReadPong \/ ReadClose \/ ReadUpcall
           \/ CloseDrain \/ CloseUpcall \/ Application
           \/ \E o \in Ops : SimpleUpcall(o)
  <2>1. UNCHANGED session
    BY <1>1 DEF ReadAcquire, ReadLoop, ReadSkipsHeader, ReadDefersCallback, ReadCallback,
       ReadPing, ReadPong, ReadClose, ReadUpcall, CloseDrain, CloseUpcall, Application,
       AsyncReadSome, AsyncRead, AsyncWrite, AsyncPing, AsyncClose, SimpleUpcall
  <2> QED
    BY <2>1, SessionSound
<1>2. CASE \/ ReadNext \/ ReadGotReadBlock \/ ReadHeaderBytes \/ ReadPongPosted
           \/ ReadPongSent \/ ReadPayload \/ ReadPayloadBytes \/ ReadCloseSent
  <2>1. UNCHANGED session \/ \E e : Stop("rd", e)
    BY <1>2 DEF ReadNext, ReadGotReadBlock, ReadHeaderBytes, ReadPongPosted,
       ReadPongSent, ReadPayload, ReadPayloadBytes, ReadCloseSent
  <2> QED
    BY <2>1, SessionSound
<1>3. CASE ReadClosePosted
  <2>1. \/ Stop("rd", "ok")
        \/ GoOn("ok") /\ UNCHANGED <<timed_out, ec_delivered>>
    BY <1>3 DEF ReadClosePosted, ReadCloseLocked
  <2> QED
    BY <2>1, SessionSound, GoOnIsAlive DEF SoundStep
<1>4. CASE CloseSent \/ CloseGotReadBlock \/ CloseReceived
  <2>1. UNCHANGED session \/ \E e : Stop("close", e)
    BY <1>4 DEF CloseSent, CloseGotReadBlock, CloseReceived
  <2> QED
    BY <2>1, SessionSound
<1>5. CASE CloseBegin \/ ClosePosted
  <2>1. \/ UNCHANGED session \/ Stop("close", "ok")
        \/ GoOn("ok") /\ UNCHANGED <<timed_out, ec_delivered>>
    BY <1>5 DEF CloseBegin, ClosePosted, CloseLocked
  <2> QED
    BY <2>1, SessionSound, GoOnIsAlive DEF SoundStep
<1>6. CASE \E o \in Ops : TornDown(o)
  <2>1. PICK o \in Ops : TornDown(o)
    BY <1>6
  <2>2. ~Alive' /\ UNCHANGED ec_delivered
    BY <2>1 DEF TornDown, Alive, Dead, FinalStatus
  <2> QED
    BY <2>2 DEF SoundStep
<1>7. CASE FrameSent \/ \E o \in Ops : SimpleBegin(o) \/ SimplePosted(o) \/ PingSent(o)
  <2>1. UNCHANGED session \/ \E o, e : Stop(o, e)
    BY <1>7 DEF FrameSent, SimpleBegin, SimplePosted, PingSent, SimpleLocked
  <2> QED
    BY <2>1, SessionSound
<1>8. CASE timeout_handler
  <2>1. UNCHANGED session \/ (~Alive' /\ UNCHANGED ec_delivered)
    BY <1>8 DEF timeout_handler, IdlePing, TimeOut, Alive, Dead
  <2> QED
    BY <2>1, SessionSound DEF SoundStep
<1>9. CASE \/ TimerExpires \/ PeerSends \/ PeerCloses
           \/ \E o \in Ops, r \in {"ok", "err"} : IoCompletes(o, r)
           \/ UNCHANGED vars
  <2>1. UNCHANGED session
    BY <1>9 DEF TimerExpires, PeerSends, PeerCloses, IoCompletes, vars
  <2> QED
    BY <2>1, SessionSound
<1>10. {"rd", "wr", "ping", "idle_ping", "close"} \subseteq Ops
  BY DEF Ops
<1> QED
  BY <1>1, <1>2, <1>3, <1>4, <1>5, <1>6, <1>7, <1>8, <1>9, <1>10
     DEF Next, Handlers, ReadStep, CloseStep, WriteStep, SimpleStep

\* A timeout is pending on a live stream only in the closing handshake of a read
\* that has revived it; and a close_op that has used the read block, or a read it
\* gave the block back to, finds a dead stream, if no error was delivered
ReviveInv ==
  /\ \A o \in {"rd", "close"} : pc[o] = "upcall" => cur = o
  /\ timed_out /\ Alive => pc["rd"] \in {"cl_write", "td"}
  /\ ~ec_delivered => /\ pc["close"] = "upcall" /\ rd_block = "close" => ~Alive
                      /\ pc["rd"] = "r_post" => ~Alive

\* A step of another operation, or of the environment, that is sound for the stream
LEMMA SoundKeepsRevive ==
  ASSUME ReviveInv, SoundStep,
         \A x \in {"rd", "close"} : pc'[x] = "upcall" => pc[x] = "upcall",
         cur' = cur \/ cur \notin {"rd", "close"},
         pc'["rd"] = "r_post" => pc["rd"] = "r_post",
         pc["rd"] \in {"cl_write", "td"} => pc'["rd"] = pc["rd"],
         rd_block' = rd_block
  PROVE  ReviveInv'
  BY DEF ReviveInv, SoundStep

\* An operation other than the read and close_op moves
LEMMA OthersRevive ==
  ASSUME LockInv, ReviveInv, SoundStep, NEW o \in Simple, NEW n \in Ops \cup {None},
         Steps(o, n, None), cur \in {o, None}
  PROVE  ReviveInv'
<1>1. o \in Ops /\ o \notin {"rd", "close", None}
  BY SimpleFacts
<1>2. \A x \in {"rd", "close"} : pc'[x] = "upcall" => pc[x] = "upcall"
  BY <1>1, WokenLabels DEF Ops
<1>3. /\ pc'["rd"] = "r_post" => pc["rd"] = "r_post"
      /\ pc["rd"] \in {"cl_write", "td"} => pc'["rd"] = pc["rd"]
  BY <1>1, PostLabel, NoneIsNoOp DEF Steps, LockInv, WaitsWr, Ops
<1>4. rd_block' = rd_block
  BY <1>1 DEF Steps, LockInv, Placed, BlockOK
<1> QED
  BY <1>1, <1>2, <1>3, <1>4, SoundKeepsRevive DEF None

\* Where the read goes, when it is not resumed
LEMMA ReadGoes ==
  ASSUME Base, ReadStep
  PROVE  /\ pc'["rd"] = "upcall" => cur' = "rd"
         /\ pc'["rd"] # "r_post"
         /\ pc["rd"] \in {"cl_write", "td"} => ReadCloseSent \/ TornDown("rd")
<1> USE DEF Goto, GotoFrom, StartIo, YieldFrom, Park, Post
<1>1. "rd" \in Ops /\ pc \in [Ops -> Labels]
  BY DEF Ops, Base, LockInv, PcOK
<1>2. CASE ReadUpcall
  <2>1. PICK n \in Ops \cup {None}, l \in {"next", "idle"} :
          /\ NextWriter("rd", n) \/ n = None
          /\ \/ pc' = [PcWoken(n) EXCEPT !["rd"] = l]
             \/ pc' = [[PcWoken(n) EXCEPT !["close"] = "r_post"] EXCEPT !["rd"] = l]
    BY <1>2 DEF ReadUpcall
  <2>2. ~WaitsWr("rd") /\ pc["rd"] = "upcall"
    BY <1>2 DEF ReadUpcall, WaitsWr
  <2>3. PcWoken(n) \in [Ops -> Labels]
    BY <1>1, <2>1, <2>2, PcWokenIs, NextWriterIs DEF Base, LockInv
  <2> QED
    BY <1>1, <2>1, <2>2, <2>3
<1>3. CASE ReadPongSent
  <2>1. /\ pc["rd"] = "pong_write" /\ cur' = "rd"
        /\ \/ pc' = [pc EXCEPT !["rd"] = "upcall"]
           \/ \E n \in Ops \cup {None} :
                NextWriter("rd", n) /\ pc' = [PcWoken(n) EXCEPT !["rd"] = "acquire"]
    BY <1>3 DEF ReadPongSent
  <2>2. ~WaitsWr("rd")
    BY <2>1 DEF WaitsWr
  <2> QED
    BY <1>1, <2>1, <2>2, WokenAt DEF Base
<1>4. CASE \/ ReadNext \/ ReadAcquire \/ ReadGotReadBlock \/ ReadLoop \/ ReadSkipsHeader
           \/ ReadDefersCallback \/ ReadCallback
  BY <1>1, <1>4 DEF ReadNext, ReadAcquire, ReadGotReadBlock, ReadLoop, ReadSkipsHeader,
     ReadDefersCallback, ReadCallback
<1>5. CASE ReadHeaderBytes \/ ReadPing \/ ReadPongPosted \/ ReadPong \/ ReadClose
  BY <1>1, <1>5 DEF ReadHeaderBytes, ReadPing, ReadPongPosted, ReadPong, ReadClose, Handles
<1>6. CASE \/ ReadPayload \/ ReadPayloadBytes \/ ReadClosing \/ ReadClosePosted
           \/ ReadCloseSent \/ TornDown("rd")
  BY <1>1, <1>6 DEF ReadPayload, ReadPayloadBytes, ReadClosing, ReadClosePosted,
     ReadCloseSent, ReadCloseLocked, TornDown
<1> QED
  BY <1>2, <1>3, <1>4, <1>5, <1>6 DEF ReadStep

\* The read moves
LEMMA ReadRevives ==
  ASSUME Base, ReviveInv, ReadStep
  PROVE  ReviveInv'
<1>1. "rd" \in Ops /\ "close" \in Ops \ {"rd"} /\ pc \in [Ops -> Labels]
  BY DEF Ops, Base, LockInv, PcOK
<1>2. PICK n \in Ops \cup {None}, q \in {None, "close"} : Steps("rd", n, q)
  BY ReadSteps DEF Base
<1>3. pc["close"] # "upcall" /\ pc'["close"] # "upcall"
  BY <1>1, <1>2, ReadRuns, WokenLabels DEF Base, ReviveInv
<1>4. timed_out' /\ Alive' => pc'["rd"] \in {"cl_write", "td"}
  <2>1. CASE ReadClosing
    <3>1. CASE ReadCloseLocked
      BY <1>1, <3>1 DEF ReadCloseLocked, StartIo, YieldFrom
    <3>2. CASE UNCHANGED session
      <4>1. pc["rd"] = "closing"
        BY <2>1 DEF ReadClosing
      <4> QED
        BY <3>2, <4>1 DEF ReviveInv, session, Alive
    <3> QED
      BY <2>1, <3>1, <3>2 DEF ReadClosing
  <2>2. CASE ReadCloseSent
    <3>1. (\E e : Stop("rd", e)) \/ (\E e : GoOn(e) /\ UNCHANGED session)
      BY <2>2 DEF ReadCloseSent
    <3> QED
      BY <3>1, StopLeavesDead, GoOnIsAlive DEF session
  <2>3. CASE TornDown("rd")
    BY <2>3 DEF TornDown, Alive, Dead, FinalStatus
  <2>4. CASE ~ReadClosing /\ ~ReadCloseSent /\ ~TornDown("rd")
    <3>1. pc["rd"] \notin {"cl_write", "td"}
      BY <2>4, ReadGoes
    <3>2. SoundStep
      BY <2>4, OnlyClosingRevives DEF Next, Handlers
    <3> QED
      BY <3>1, <3>2 DEF ReviveInv, SoundStep
  <2> QED
    BY <2>1, <2>2, <2>3, <2>4
<1> QED
  BY <1>3, <1>4, ReadGoes DEF ReviveInv

\* close_op stops behind the read block on a live stream only for an error that is
\* not the first
LEMMA CloseStopsDead ==
  ASSUME LockInv, ReviveInv, rd_block = "close", NEW e, Stop("close", e), ~ec_delivered'
  PROVE  ~Alive'
<1>1. pc["rd"] \notin {"cl_write", "td"}
  BY DEF LockInv, Placed, InRead, Ops
<1>2. timed_out => ~Alive
  BY <1>1 DEF ReviveInv
<1> QED
  BY <1>2, StopLeavesDead

\* close_op moves
LEMMA CloseRevives ==
  ASSUME Base, ReviveInv, CloseStep
  PROVE  ReviveInv'
<1> USE DEF Goto, GotoFrom, StartIo, YieldFrom, Park
<1>1. "close" \in Ops /\ "rd" \in Ops \ {"close"} /\ pc \in [Ops -> Labels]
  BY DEF Ops, Base, LockInv, PcOK
<1>2. PICK n \in Ops \cup {None}, q \in {None, "rd"} : Steps("close", n, q)
  BY CloseSteps DEF Base
<1>3. ~ReadClosing /\ cur \in {"close", None}
  BY DEF CloseStep, CloseBegin, ClosePosted, CloseSent, CloseGotReadBlock, CloseDrain,
     CloseReceived, TornDown, CloseUpcall, Resumed, ReadClosing, None
<1>4. SoundStep
  BY <1>3, OnlyClosingRevives DEF Next, Handlers
<1>5. pc["rd"] # "upcall" /\ pc'["rd"] # "upcall"
  BY <1>1, <1>2, <1>3, WokenLabels DEF Base, ReviveInv, None
<1>6. timed_out' /\ Alive' => pc'["rd"] \in {"cl_write", "td"}
  <2>1. pc["rd"] \in {"cl_write", "td"} => pc'["rd"] = pc["rd"]
    BY <1>1, <1>2, PostLabel, NoneIsNoOp DEF Base, Steps, LockInv, WaitsWr
  <2> QED
    BY <1>4, <2>1 DEF ReviveInv, SoundStep
<1>7. CASE CloseUpcall
  <2>1. PICK m \in Ops \cup {None} :
          /\ NextWriter("close", m)
          /\ \/ pc' = [PcWoken(m) EXCEPT !["close"] = "idle"]
             \/ /\ pc' = [[PcWoken(m) EXCEPT !["rd"] = "r_post"] EXCEPT !["close"] = "idle"]
                /\ rd_block = "close"
    BY <1>7 DEF CloseUpcall
  <2>2. pc["close"] = "upcall" /\ UNCHANGED session /\ ~WaitsWr("close")
    BY <1>7 DEF CloseUpcall, WaitsWr
  <2>3. /\ PcWoken(m) \in [Ops -> Labels]
        /\ PcWoken(m)["rd"] \in {pc["rd"], "post", "pong_post", "cl_post"}
    BY <1>1, <2>1, <2>2, WokenAt DEF Base
  <2>4. /\ pc'["close"] = "idle"
        /\ pc'["rd"] = "r_post" => pc["rd"] = "r_post" \/ rd_block = "close"
    BY <1>1, <2>1, <2>3
  <2> QED
    BY <1>5, <1>6, <2>2, <2>4 DEF ReviveInv, session, Alive
<1>8. CASE ~CloseUpcall
  <2>1. pc'["rd"] = pc["rd"]
    BY <1>1, <1>8, CloseLone DEF CloseStep, Base, Lone
  <2>2. pc'["close"] = "upcall" => cur' = "close"
    BY <1>1, <1>8 DEF CloseStep, CloseBegin, ClosePosted, CloseLocked, CloseSent,
       CloseGotReadBlock, CloseDrain, CloseReceived, TornDown
  <2>3. pc'["close"] = "upcall" /\ rd_block' = "close" /\ ~ec_delivered' => ~Alive'
    <3>1. CASE CloseBegin \/ ClosePosted \/ CloseSent
      <4>1. rd_block # "close" /\ (pc'["close"] = "upcall" => rd_block' = rd_block)
        BY <1>1, <3>1 DEF CloseBegin, ClosePosted, CloseSent, locks, Base, LockInv, Placed,
           InRead
      <4> QED
        BY <4>1
    <3>2. CASE CloseGotReadBlock \/ CloseReceived
      <4>1. /\ rd_block = "close"
            /\ pc'["close"] = "upcall" => \E e : Stop("close", e)
        BY <1>1, <3>2 DEF CloseGotReadBlock, CloseReceived, Reading, Base, LockInv, Placed,
           InRead
      <4> QED
        BY <4>1, CloseStopsDead DEF Base
    <3>3. CASE CloseDrain
      <4>1. \E l \in {"td", "drain", "hdr", "pay"} : pc' = [pc EXCEPT !["close"] = l]
        BY <3>3 DEF CloseDrain
      <4> QED
        BY <1>1, <4>1
    <3>4. CASE TornDown("close")
      BY <3>4 DEF TornDown, Alive, Dead, FinalStatus
    <3> QED
      BY <1>8, <3>1, <3>2, <3>3, <3>4 DEF CloseStep
  <2> QED
    BY <1>4, <1>5, <1>6, <2>1, <2>2, <2>3 DEF ReviveInv, SoundStep
<1> QED
  BY <1>7, <1>8

\* None of these steps is the one with which the read closes
LEMMA EnvironmentIsNotClosing ==
  ASSUME Base,
         \/ Application \/ timeout_handler \/ TimerExpires \/ PeerSends \/ PeerCloses
         \/ \E o \in Ops, r \in {"ok", "err"} : IoCompletes(o, r)
         \/ UNCHANGED vars
  PROVE  ~ReadClosing \/ UNCHANGED vars
  BY NoneIsNoOp DEF Application, AsyncReadSome, AsyncRead, AsyncWrite, AsyncPing, AsyncClose,
     timeout_handler, ReadClosing, TimerExpires, PeerSends, PeerCloses, IoCompletes,
     GotoFrom, Goto, YieldFrom, Park, StartIo, ReadCloseLocked, locks, IdlePing, TimeOut,
     Base, LockInv, PcOK, Ops, None, vars

\* The application starts an operation, the timer runs, or the environment moves
LEMMA EnvironmentRevives ==
  ASSUME Base, ReviveInv,
         \/ Application \/ timeout_handler \/ TimerExpires \/ PeerSends \/ PeerCloses
         \/ \E o \in Ops, r \in {"ok", "err"} : IoCompletes(o, r)
         \/ UNCHANGED vars
  PROVE  ReviveInv'
<1>1. SoundStep
  <2>1. ~ReadClosing \/ UNCHANGED vars
    BY EnvironmentIsNotClosing
  <2> QED
    BY <2>1, OnlyClosingRevives, SessionSound DEF Next, Handlers, vars, session
<1>2. CASE \/ TimerExpires \/ PeerSends \/ PeerCloses
           \/ \E o \in Ops, r \in {"ok", "err"} : IoCompletes(o, r)
           \/ UNCHANGED vars
  <2>1. UNCHANGED <<pc, cur, rd_block>>
    BY <1>2 DEF TimerExpires, PeerSends, PeerCloses, IoCompletes, locks, vars
  <2> QED
    BY <1>1, <2>1, SoundKeepsRevive
<1>3. CASE Application
  <2>1. /\ cur = None /\ rd_block' = rd_block
        /\ \E o \in Ops, l \in {"next", "acquire", "begin"} :
             pc' = [pc EXCEPT ![o] = l] /\ pc[o] = "idle"
    BY <1>3 DEF Application, AsyncReadSome, AsyncRead, AsyncWrite, AsyncPing, AsyncClose,
       locks, Goto, GotoFrom, Ops
  <2>2. pc \in [Ops -> Labels] /\ "rd" \in Ops /\ "close" \in Ops
    BY DEF Base, LockInv, PcOK, Ops
  <2> QED
    BY <1>1, <2>1, <2>2, SoundKeepsRevive DEF None
<1>4. CASE timeout_handler
  <2>1. cur = None /\ rd_block' = rd_block
    BY <1>4 DEF timeout_handler, locks
  <2>2. pc' = pc \/ pc' = [pc EXCEPT !["idle_ping"] = "begin"]
    BY <1>4 DEF timeout_handler, IdlePing, TimeOut, Goto, GotoFrom
  <2>3. pc'["rd"] = pc["rd"] /\ pc'["close"] = pc["close"]
    BY <2>2 DEF Base, LockInv, PcOK, Ops
  <2> QED
    BY <1>1, <2>1, <2>3, SoundKeepsRevive DEF None
<1> QED
  BY <1>2, <1>3, <1>4

\* Every step keeps the invariant
LEMMA NextRevives ==
  ASSUME Base, ReviveInv, [Next]_vars
  PROVE  ReviveInv'
<1>1. CASE ReadStep
  BY <1>1, ReadRevives
<1>2. CASE CloseStep
  BY <1>2, CloseRevives
<1>3. ASSUME NEW o \in Simple, SimpleStep(o) \/ (o = "wr" /\ FrameSent)
      PROVE  ReviveInv'
  <2>1. PICK n \in Ops \cup {None} : Steps(o, n, None)
    BY <1>3, SimpleFacts, SimpleLone, SimpleUpcallSteps, FrameSentSteps, LoneSteps
       DEF SimpleStep, Base
  <2>2. cur \in {o, None}
    BY <1>3 DEF SimpleStep, SimpleBegin, SimplePosted, PingSent, SimpleUpcall, FrameSent,
       Resumed
  <2>3. /\ o \in Ops /\ (SimpleUpcall(o) => UNCHANGED session)
        /\ SimpleBegin(o) \/ SimplePosted(o) \/ PingSent(o) \/ FrameSent =>
             UNCHANGED session \/ \E x, e : Stop(x, e)
    BY SimpleFacts DEF SimpleUpcall, FrameSent, SimpleBegin, SimplePosted, PingSent,
       SimpleLocked
  <2>4. SoundStep
    BY <1>3, <2>3, SessionSound DEF SimpleStep
  <2> QED
    BY <2>1, <2>2, <2>4, OthersRevive DEF Base
<1>4. CASE \/ Application \/ timeout_handler \/ TimerExpires \/ PeerSends \/ PeerCloses
           \/ \E o \in Ops, r \in {"ok", "err"} : IoCompletes(o, r)
           \/ UNCHANGED vars
  BY <1>4, EnvironmentRevives
<1> QED
  BY <1>1, <1>2, <1>3, <1>4 DEF Next, Handlers, WriteStep, Simple

\* At first the stream is alive and no operation is under way
LEMMA InitRevives == Init => ReviveInv
  BY DEF Init, ReviveInv, Ops

\* Only the closing handshake of a read revives a stream, and until an error has
\* been delivered it does not outlive the stream's next stop: with a control
\* callback or without, whoever gets the read block back finds a dead stream.
LEMMA ReviveInvariant == Spec => []ReviveInv
<1>1. Base /\ ReviveInv /\ [Next]_vars => ReviveInv'
  BY NextRevives
<1> QED
  BY <1>1, InitRevives, BaseHolds, PTL DEF Spec

\* With a callback or without, a read that lent the read block to close_op gets it
\* back only after the stream is closed, failed or timed out, as "Should never get
\* here" says, on every stream on which no error has been delivered yet.
THEOREM SuspendedReadsStop == Spec => []SuspendedReadStops
<1>1. ReviveInv => SuspendedReadStops
  BY DEF ReviveInv, SuspendedReadStops, LenderFindsItDead, GoOn, Alive
<1> QED
  BY <1>1, ReviveInvariant, PTL

----------------------------------------------------------------------------
(* A read that succeeds ends at the end of a message, if it says so: what the two
   operations that consume frames leave in rd_fin, rd_cont and rd_remain.      *)

\* Without a control callback always, and with one until an operation is ended by
\* an error: where what the proof follows is kept
Steady == ~CtrlCb \/ Unharmed

\* close_op discards what it reads: no read_op will look at the frame again
Draining == rd_block = "close" /\ pc["close"] \in {"drain", "hdr", "pay", "td"}

\* The labels at which the read holds no read block
Outside == {"idle", "next", "acquire", "r_susp", "r_post",
            "pong_susp", "pong_post", "pong_write"}

\* The read has ended in an error, its last or one it is about to tell
Ended == /\ pc["rd"] = "upcall" /\ ec["rd"] # "ok"
         /\ ~Alive \/ (CtrlCb /\ ec["rd"] = "timeout")

\* Nobody will take the frame for the end of a message, whatever rd_fin says
NotForReading == \/ pc["rd"] \in RdCloses \/ Draining
                 \/ ~Alive /\ pc["rd"] \in Outside
                 \/ Ended

\* rd_fin is set between two messages only, unless nobody looks at it; the
\* handshake of a closing read ends in an error
EndInv ==
  /\ pc["rd"] \in RdCloses => ec["rd"] # "ok"
  /\ pc["rd"] = "upcall" => cur = "rd"
  /\ Steady => (rd_fin /\ rd_cont => NotForReading) /\ WholeMessage

\* What the proofs below start from
Known == Base /\ ReviveInv /\ (~CtrlCb => CloseInv)

\* Once an operation has been ended by an error, one has
LEMMA SteadyBefore ==
  ASSUME TypeOK, [Next]_vars
  PROVE  Steady' => Steady
<1>1. told' = told \/ \E r : told' = Append(told, r)
  <2>1. CASE ReadNext
    BY <2>1 DEF ReadNext
  <2>2. CASE \E o \in Ops : SimpleUpcall(o)
    BY <2>2 DEF SimpleUpcall, Report
  <2>3. CASE CloseUpcall \/ ReadUpcall
    BY <2>3 DEF CloseUpcall, ReadUpcall, Report
  <2>4. CASE CloseStep /\ ~CloseUpcall
    BY <2>4 DEF CloseStep, CloseBegin, ClosePosted, CloseSent, CloseGotReadBlock, CloseDrain,
       CloseReceived, TornDown, history
  <2>5. CASE ReadStep /\ ~ReadUpcall /\ ~ReadNext
    BY <2>5 DEF ReadStep, ReadAcquire, ReadGotReadBlock, ReadLoop, ReadSkipsHeader,
       ReadHeaderBytes, ReadDefersCallback, ReadCallback, ReadPing, ReadPongPosted,
       ReadPongSent, ReadPong, ReadClose, ReadPayload, ReadPayloadBytes, ReadClosing,
       ReadClosePosted, ReadCloseSent, TornDown, history
  <2>6. CASE FrameSent \/ \E o \in Ops : SimpleBegin(o) \/ SimplePosted(o) \/ PingSent(o)
    BY <2>6 DEF FrameSent, SimpleBegin, SimplePosted, PingSent, history
  <2>7. CASE Application \/ timeout_handler
    BY <2>7 DEF Application, AsyncReadSome, AsyncRead, AsyncWrite, AsyncPing, AsyncClose,
       timeout_handler, history
  <2>8. CASE \/ TimerExpires \/ PeerSends \/ PeerCloses
             \/ \E o \in Ops, r \in {"ok", "err"} : IoCompletes(o, r)
             \/ UNCHANGED vars
    BY <2>8 DEF TimerExpires, PeerSends, PeerCloses, IoCompletes, history, vars
  <2>9. {"wr", "ping", "idle_ping"} \subseteq Ops
    BY DEF Ops
  <2> QED
    BY <2>1, <2>2, <2>3, <2>4, <2>5, <2>6, <2>7, <2>8, <2>9
       DEF Next, Handlers, WriteStep, SimpleStep
<1>2. told # <<>> => told' # <<>>
  <2>1. \A r : Append(told, r) # <<>>
    BY DEF TypeOK, HistoryOK
  <2> QED
    BY <1>1, <2>1
<1>3. ec_delivered => ec_delivered'
  <2>1. CASE ReadClosing
    BY <2>1 DEF ReadClosing, ReadCloseLocked, session
  <2> QED
    BY <2>1, OnlyClosingRevives DEF SoundStep
<1> QED
  BY <1>2, <1>3 DEF Steady, Unharmed

\* A read that stops has ended
LEMMA StopEnds ==
  ASSUME Known, NEW e, Stop("rd", e)
  PROVE  ec'["rd"] # "ok" /\ (pc'["rd"] = "upcall" /\ Steady' => Ended')
<1>1. ec'["rd"] # "ok"
  BY DEF Stop, Known, Base, TypeOK, SessionOK, Ops
<1>2. CASE ~CtrlCb
  BY <1>1, <1>2, StopIsDead DEF Known, CloseInv, Ended
<1>3. CASE CtrlCb /\ ~ec_delivered'
  <2>1. ~Alive' \/ ec'["rd"] = "timeout"
    BY <1>3 DEF Stop, Known, Base, TypeOK, SessionOK, Ops, Alive, Aborts, Dead, session
  <2> QED
    BY <1>1, <1>3, <2>1 DEF Ended
<1> QED
  BY <1>1, <1>2, <1>3 DEF Steady, Unharmed

\* The read moves without a look at the frame
PassesBy ==
  /\ UNCHANGED frame
  /\ pc'["rd"] \in RdCloses => ec'["rd"] # "ok"
  /\ pc'["rd"] = "upcall" => cur' = "rd" /\ ec'["rd"] # "ok"
  /\ pc["rd"] \in RdCloses => pc'["rd"] \in RdCloses \/ (Steady' => Ended')
  /\ pc["rd"] \in Outside /\ ~Alive =>
       \/ ~Alive' /\ pc'["rd"] \in Outside
       \/ Steady' => Ended'
  /\ Ended => (Steady' => ~Alive' /\ pc'["rd"] \in Outside)

\* ... and keeps the invariant
LEMMA PassesByKeeps ==
  ASSUME LockInv, EndInv, Steady' => Steady, PassesBy,
         NEW n \in Ops \cup {None}, NEW q \in {None, "close"}, Steps("rd", n, q)
  PROVE  EndInv'
<1>1. "close" \in Ops \ {"rd"} /\ "close" # None
  BY DEF Ops, None
<1>2. pc["close"] \in {"drain", "hdr", "pay", "td"} => pc'["close"] = pc["close"]
  BY <1>1, PostLabel DEF Steps, WaitsWr
<1>3. Draining => Draining'
  BY <1>2, StepsReadKeeps DEF Draining, ReadKeeps
<1>4. (Steady /\ rd_fin /\ rd_cont => NotForReading)'
  BY <1>3 DEF EndInv, PassesBy, frame, NotForReading
<1> QED
  BY <1>4 DEF EndInv, PassesBy, WholeMessage

\* The read before it holds the read block, or waiting to send a pong
LEMMA OutsideEnds ==
  ASSUME Known, EndInv, Steady' => Steady,
         ReadNext \/ ReadAcquire \/ ReadGotReadBlock \/ ReadPongPosted \/ ReadPongSent
  PROVE  PassesBy
<1> USE DEF Goto, GotoFrom, StartIo, YieldFrom, Park
<1>1. /\ "rd" \in Ops /\ pc \in [Ops -> Labels] /\ ec \in [Ops -> Results]
  BY DEF Ops, Known, Base, LockInv, PcOK, TypeOK, SessionOK
<1>2. /\ UNCHANGED frame /\ pc["rd"] \in Outside /\ pc["rd"] # "upcall"
      /\ pc["rd"] \notin RdCloses
  BY DEF ReadNext, ReadAcquire, ReadGotReadBlock, ReadPongPosted, ReadPongSent, parser,
     Outside, RdCloses
<1>3. CASE ReadNext
  <2>1. \/ /\ pc' = [pc EXCEPT !["rd"] = "idle"]
           /\ Stop("rd", "ok") \/ Stop("rd", "err")
        \/ pc' = [pc EXCEPT !["rd"] = "acquire"] /\ GoOn("ok")
    BY <1>3 DEF ReadNext
  <2> QED
    BY <1>1, <1>2, <2>1, StopLeavesDead, GoOnIsAlive DEF PassesBy, Ended, Outside, RdCloses
<1>4. CASE ReadAcquire
  <2>1. /\ status' = status
        /\ \/ /\ pc' = [pc EXCEPT !["rd"] = "upcall"] /\ cur' = "rd"
              /\ ec' = [ec EXCEPT !["rd"] = "aborted"] /\ status \in Dead
           \/ pc' = [pc EXCEPT !["rd"] = "loop"] /\ status \notin Dead
           \/ pc' = [pc EXCEPT !["rd"] = "r_susp"]
    BY <1>4 DEF ReadAcquire, session
  <2> QED
    BY <1>1, <1>2, <2>1 DEF PassesBy, Ended, Outside, RdCloses, Alive
<1>5. CASE ReadGotReadBlock
  <2>1. /\ pc' = [pc EXCEPT !["rd"] = "upcall"] /\ cur' = "rd"
        /\ \/ Stop("rd", "ok")
           \/ ec' = [ec EXCEPT !["rd"] = "aborted"] /\ GoOn("ok")
    BY <1>5 DEF ReadGotReadBlock
  <2> QED
    BY <1>1, <1>2, <2>1, StopEnds, GoOnIsAlive DEF PassesBy, Ended, RdCloses
<1>6. CASE ReadPongPosted
  <2>1. \/ /\ pc' = [pc EXCEPT !["rd"] = "upcall"] /\ cur' = "rd"
           /\ Stop("rd", "ok")
        \/ pc' = [pc EXCEPT !["rd"] = "pong_write"] /\ GoOn("ok")
    BY <1>6 DEF ReadPongPosted
  <2> QED
    BY <1>1, <1>2, <2>1, StopEnds, GoOnIsAlive DEF PassesBy, Ended, RdCloses
<1>7. CASE ReadPongSent
  <2>1. /\ pc["rd"] = "pong_write"
        /\ \/ /\ pc' = [pc EXCEPT !["rd"] = "upcall"] /\ cur' = "rd"
              /\ Stop("rd", io["rd"])
           \/ /\ GoOn(io["rd"])
              /\ \E m \in Ops \cup {None} :
                   NextWriter("rd", m) /\ pc' = [PcWoken(m) EXCEPT !["rd"] = "acquire"]
    BY <1>7 DEF ReadPongSent
  <2>2. ASSUME NEW m \in Ops \cup {None}, NextWriter("rd", m),
               pc' = [PcWoken(m) EXCEPT !["rd"] = "acquire"]
        PROVE  pc'["rd"] = "acquire"
    BY <1>1, <2>1, <2>2, WokenAt DEF Known, Base, WaitsWr
  <2> QED
    BY <1>1, <1>2, <2>1, <2>2, StopEnds, GoOnIsAlive DEF PassesBy, Ended, RdCloses
<1> QED
  BY <1>3, <1>4, <1>5, <1>6, <1>7

\* The labels of a read that holds the read block and has read no close frame
Inside == {"loop", "hdr", "ctl", "cb", "payload", "pay"}

\* While the read is there the block is its own, and nothing has ended
LEMMA InsideIsClean ==
  ASSUME Known, EndInv, pc["rd"] \in Inside
  PROVE  /\ rd_block = "rd" /\ pc["rd"] \notin RdCloses \cup Outside /\ pc["rd"] # "upcall"
         /\ Steady => ~(rd_fin /\ rd_cont)
<1>1. rd_block = "rd"
  BY DEF Inside, Known, Base, LockInv, Placed, InRead, Ops
<1>2. pc["rd"] \notin RdCloses \cup Outside /\ pc["rd"] # "upcall"
  BY DEF Inside, RdCloses, Outside
<1> QED
  BY <1>1, <1>2 DEF EndInv, NotForReading, Draining, Ended

\* The read between two looks at the frame
LEMMA InsideEnds ==
  ASSUME Known, EndInv, Steady' => Steady,
         \/ ReadSkipsHeader \/ ReadHeaderBytes \/ ReadPayloadBytes \/ ReadPing \/ ReadPong
         \/ ReadDefersCallback \/ ReadCallback \/ ReadClose
  PROVE  PassesBy
<1> USE DEF Goto, GotoFrom, StartIo, YieldFrom, Park, Post
<1>1. /\ "rd" \in Ops /\ pc \in [Ops -> Labels] /\ ec \in [Ops -> Results]
  BY DEF Ops, Known, Base, LockInv, PcOK, TypeOK, SessionOK
<1>2. UNCHANGED frame /\ pc["rd"] \in Inside
  BY DEF ReadSkipsHeader, ReadHeaderBytes, ReadPayloadBytes, ReadPing, ReadPong,
     ReadDefersCallback, ReadCallback, ReadClose, Handles, parser, Inside
<1>3. \/ \E l \in {"payload", "loop", "pong_write", "pong_susp", "r_susp", "cb", "ctl"} :
           \/ pc' = [pc EXCEPT !["rd"] = l]
           \/ pc' = [[pc EXCEPT !["close"] = "r_post"] EXCEPT !["rd"] = l]
      \/ /\ pc' = [pc EXCEPT !["rd"] = "upcall"] /\ cur' = "rd"
         /\ Stop("rd", io["rd"])
      \/ /\ pc' = [pc EXCEPT !["rd"] = "closing"]
         /\ \E e \in {"closed", "proto"} : ec' = [ec EXCEPT !["rd"] = e]
  <2>1. CASE ReadSkipsHeader \/ ReadHeaderBytes \/ ReadPayloadBytes
    BY <2>1 DEF ReadSkipsHeader, ReadHeaderBytes, ReadPayloadBytes
  <2>2. CASE ReadPing \/ ReadPong \/ ReadDefersCallback \/ ReadCallback
    BY <2>2 DEF ReadPing, ReadPong, ReadDefersCallback, ReadCallback, Handles
  <2>3. CASE ReadClose
    BY <2>3 DEF ReadClose, Handles
  <2> QED
    BY <2>1, <2>2, <2>3
<1>4. pc["rd"] \notin RdCloses \cup Outside /\ ~Ended
  BY <1>2, InsideIsClean DEF Ended
<1> QED
  BY <1>1, <1>2, <1>3, <1>4, StopEnds DEF PassesBy, RdCloses

\* The read answers a close frame, or closes the connection after an error
LEMMA ClosingEnds ==
  ASSUME Known, EndInv, Steady' => Steady,
         ReadClosing \/ ReadClosePosted \/ ReadCloseSent \/ TornDown("rd")
  PROVE  PassesBy
<1> USE DEF Goto, GotoFrom, StartIo, YieldFrom, Park
<1>1. /\ "rd" \in Ops /\ pc \in [Ops -> Labels] /\ ec \in [Ops -> Results]
  BY DEF Ops, Known, Base, LockInv, PcOK, TypeOK, SessionOK
<1>2. UNCHANGED frame /\ pc["rd"] \in RdCloses
  BY DEF ReadClosing, ReadClosePosted, ReadCloseSent, TornDown, TearingDown, parser, RdCloses
<1>3. \/ /\ ec' = ec
         /\ \E l \in {"cl_susp", "cl_write", "td"} : pc' = [pc EXCEPT !["rd"] = l]
      \/ /\ pc' = [pc EXCEPT !["rd"] = "upcall"] /\ cur' = "rd"
         /\ \/ Stop("rd", "ok") \/ Stop("rd", io["rd"])
            \/ ec' = [ec EXCEPT !["rd"] = IF io["rd"] = "err" THEN "torn" ELSE ec["rd"]]
               /\ ~Alive'
  BY DEF ReadClosing, ReadClosePosted, ReadCloseSent, TornDown, ReadCloseLocked,
     Alive, Dead, FinalStatus
<1>4. ec["rd"] # "ok" /\ pc["rd"] \notin Outside /\ ~Ended
  BY <1>2 DEF EndInv, RdCloses, Outside, Ended
<1> QED
  BY <1>1, <1>2, <1>3, <1>4, StopEnds DEF PassesBy, RdCloses, Ended

\* The read completes, or read_op goes on with the message
LEMMA UpcallEnds ==
  ASSUME Known, EndInv, Steady' => Steady, ReadUpcall
  PROVE  PassesBy
<1>1. /\ "rd" \in Ops /\ pc \in [Ops -> Labels]
      /\ pc["rd"] = "upcall" /\ ~WaitsWr("rd") /\ UNCHANGED <<frame, session>>
  BY DEF Ops, Known, Base, LockInv, PcOK, ReadUpcall, WaitsWr, parser
<1>2. pc'["rd"] = "idle" \/ (pc'["rd"] = "next" /\ ec["rd"] = "ok")
  <2>1. PICK m \in Ops \cup {None}, l \in {"next", "idle"} :
          /\ NextWriter("rd", m) \/ m = None
          /\ l = "next" => ec["rd"] = "ok"
          /\ \/ pc' = [PcWoken(m) EXCEPT !["rd"] = l]
             \/ pc' = [[PcWoken(m) EXCEPT !["close"] = "r_post"] EXCEPT !["rd"] = l]
    BY DEF ReadUpcall, GotoFrom, YieldFrom
  <2>2. PcWoken(m) \in [Ops -> Labels]
    BY <1>1, <2>1, WokenAt, PcWokenIs, NoneIsNoOp DEF LockInv, Known, Base
  <2> QED
    BY <1>1, <2>1, <2>2
<1>3. ec["rd"] = "timeout" => told' # <<>>
  <2>1. ec["rd"] = "timeout" => told' = Append(told, "timeout")
    BY DEF ReadUpcall, Report, StopCauses
  <2>2. Append(told, "timeout") # <<>>
    BY DEF Known, Base, TypeOK, HistoryOK
  <2> QED
    BY <2>1, <2>2
<1>4. Ended => (Steady' => ~Alive' /\ pc'["rd"] \in Outside)
  BY <1>1, <1>2, <1>3 DEF Ended, Steady, Unharmed, Outside, Alive, session
<1> QED
  BY <1>1, <1>2, <1>4 DEF PassesBy, RdCloses, Outside

\* Only a data frame that is its message's last and is consumed ends a message
LEMMA FrameEnds ==
  ASSUME Known, EndInv, Steady' => Steady, ReadLoop \/ ReadPayload,
         PassesBy => EndInv'
  PROVE  EndInv'
<1> USE DEF Goto, GotoFrom, StartIo, YieldFrom
<1>1. /\ "rd" \in Ops /\ pc \in [Ops -> Labels] /\ ec \in [Ops -> Results]
      /\ rd_fin \in BOOLEAN /\ rd_cont \in BOOLEAN /\ rd_remain \in {0, 1}
  BY DEF Ops, Known, Base, LockInv, PcOK, TypeOK, SessionOK, DataOK
<1>2. pc["rd"] \in Inside
  BY DEF ReadLoop, ReadPayload, Inside
<1>3. Steady' => ~(rd_fin /\ rd_cont)
  BY <1>2, InsideIsClean
<1>4. CASE pc' = [pc EXCEPT !["rd"] = "closing"] /\ ec' = [ec EXCEPT !["rd"] = "proto"]
  BY <1>1, <1>4 DEF EndInv, WholeMessage, NotForReading, RdCloses
<1>5. CASE ReadLoop
  <2>1. CASE rd_buf = <<>>
    <3>1. UNCHANGED frame /\ pc' = [pc EXCEPT !["rd"] = "hdr"]
      BY <1>5, <2>1 DEF ReadLoop
    <3> QED
      BY <1>1, <1>2, <3>1, InsideIsClean DEF PassesBy, Ended, RdCloses
  <2>2. CASE \E l \in {"loop", "payload", "ctl"} :
               pc' = [pc EXCEPT !["rd"] = l] /\ ~(rd_fin' /\ rd_cont')
    BY <1>1, <2>2 DEF EndInv, WholeMessage, RdCloses
  <2> QED
    BY <1>4, <1>5, <2>1, <2>2 DEF ReadLoop, FinAfterControl
<1>6. CASE ReadPayload
  <2>1. UNCHANGED <<rd_fin, rd_cont>>
    BY <1>6 DEF ReadPayload
  <2>2. CASE rd_remain > 0 /\ pc' = [pc EXCEPT !["rd"] = "pay"]
    BY <1>1, <1>3, <2>1, <2>2 DEF EndInv, WholeMessage, RdCloses
  <2>3. CASE /\ pc' = [pc EXCEPT !["rd"] = "upcall"] /\ cur' = "rd" /\ rd_remain' = 0
             /\ rd_done' => rd_fin
    BY <1>1, <1>3, <2>1, <2>3 DEF EndInv, WholeMessage, RdCloses
  <2>4. CASE /\ pc' = [pc EXCEPT !["rd"] = "upcall"] /\ cur' = "rd"
             /\ \E e : Stop("rd", e)
    <3>1. ec'["rd"] # "ok"
      BY <2>4, StopEnds
    <3> QED
      BY <1>1, <1>3, <2>1, <2>4, <3>1 DEF EndInv, WholeMessage, RdCloses
  <2> QED
    BY <1>1, <1>4, <1>6, <2>2, <2>3, <2>4 DEF ReadPayload
<1> QED
  BY <1>5, <1>6

\* The read moves
LEMMA ReadEnds ==
  ASSUME Known, EndInv, Steady' => Steady, ReadStep
  PROVE  EndInv'
<1>1. PICK n \in Ops \cup {None}, q \in {None, "close"} : Steps("rd", n, q)
  BY ReadSteps DEF Known, Base
<1>2. PassesBy => EndInv'
  BY <1>1, PassesByKeeps DEF Known, Base
<1>3. CASE ReadNext \/ ReadAcquire \/ ReadGotReadBlock \/ ReadPongPosted \/ ReadPongSent
  BY <1>2, <1>3, OutsideEnds
<1>4. CASE \/ ReadSkipsHeader \/ ReadHeaderBytes \/ ReadPayloadBytes \/ ReadPing \/ ReadPong
           \/ ReadDefersCallback \/ ReadCallback \/ ReadClose
  BY <1>2, <1>4, InsideEnds
<1>5. CASE ReadClosing \/ ReadClosePosted \/ ReadCloseSent \/ TornDown("rd")
  BY <1>2, <1>5, ClosingEnds
<1>6. CASE ReadUpcall
  BY <1>2, <1>6, UpcallEnds
<1>7. CASE ReadLoop \/ ReadPayload
  BY <1>2, <1>7, FrameEnds
<1> QED
  BY <1>3, <1>4, <1>5, <1>6, <1>7 DEF ReadStep

\* Another operation moves: the read stays where it is, or is resumed at a post
LEMMA OthersEnd ==
  ASSUME LockInv, EndInv, Steady' => Steady, NEW o \in Ops \ {"rd"}, cur \in {o, None},
         NEW n \in Ops \cup {None}, NEW q \in {None, "rd"}, Steps(o, n, q),
         ec'["rd"] = ec["rd"], ~Alive => ~Alive',
         Steady' /\ rd_fin' /\ rd_cont' =>
           \/ rd_fin /\ rd_cont /\ (Draining => Draining' \/ ~Alive')
           \/ Draining'
  PROVE  EndInv'
<1>1. "rd" \in Ops \ {o} /\ "rd" # None
  BY DEF Ops, None
<1>2. pc["rd"] # "upcall"
  BY <1>1 DEF EndInv
<1>3. /\ pc'["rd"] # "upcall" /\ (pc'["rd"] \in RdCloses <=> pc["rd"] \in RdCloses)
      /\ pc["rd"] \in Outside => pc'["rd"] \in Outside
  BY <1>1, <1>2, PostLabel DEF Steps, RdCloses, Outside, LockInv, WaitsWr
<1>4. Draining => pc["rd"] \in Outside
  <2>1. rd_block = "close" => ~InRead("rd")
    BY <1>1 DEF LockInv, Placed
  <2>2. pc["rd"] \in Pcs["rd"]
    BY <1>1 DEF LockInv, PcOK
  <2> QED
    BY <1>2, <2>1, <2>2 DEF Draining, InRead, Pcs, Outside
<1>5. ~Ended
  BY <1>2 DEF Ended
<1> QED
  BY <1>3, <1>4, <1>5 DEF EndInv, WholeMessage, NotForReading

\* Who stops has a result of its own, and changes nobody else's
LEMMA StopKeepsOthers ==
  ASSUME ec \in [Ops -> Results], NEW o \in Ops, NEW e, Stop(o, e)
  PROVE  \A x \in Ops \ {o} : ec'[x] = ec[x]
  BY DEF Stop

\* close_op consumes frames while it drains, and leaves no live stream after that
LEMMA CloseEnds ==
  ASSUME Known, EndInv, Steady' => Steady, CloseStep
  PROVE  EndInv'
<1> USE DEF Goto, GotoFrom, StartIo, YieldFrom, Park
<1>1. /\ "close" \in Ops \ {"rd"} /\ "rd" \in Ops /\ pc \in [Ops -> Labels]
      /\ ec \in [Ops -> Results] /\ LockInv
  BY DEF Ops, Known, Base, LockInv, PcOK, TypeOK, SessionOK
<1>2. PICK n \in Ops \cup {None}, q \in {None, "rd"} : Steps("close", n, q)
  BY <1>1, CloseSteps
<1>3. ec'["rd"] = ec["rd"] /\ cur \in {"close", None} /\ (~Alive => ~Alive')
  <2>1. cur \in {"close", None}
    BY DEF CloseStep, CloseBegin, ClosePosted, CloseSent, CloseGotReadBlock, CloseDrain,
       CloseReceived, TornDown, CloseUpcall, Resumed
  <2>2. \A e : Stop("close", e) => ec'["rd"] = ec["rd"]
    BY <1>1, StopKeepsOthers DEF Ops
  <2>3. CloseDrain \/ TornDown("close") \/ CloseUpcall => ec'["rd"] = ec["rd"]
    BY <1>1 DEF CloseDrain, TornDown, CloseUpcall
  <2>4. CloseBegin \/ ClosePosted \/ CloseSent \/ CloseGotReadBlock \/ CloseReceived
          => ec'["rd"] = ec["rd"]
    BY <2>2 DEF CloseBegin, ClosePosted, CloseSent, CloseGotReadBlock,
       CloseReceived, CloseLocked
  <2>5. ~ReadClosing
    BY <2>1 DEF ReadClosing, None
  <2> QED
    BY <2>1, <2>3, <2>4, <2>5, OnlyClosingRevives DEF CloseStep, Next, Handlers, SoundStep
<1>4. CASE CloseDrain
  <2>1. rd_block' = "close" /\ pc["close"] = "drain"
    BY <1>1, <1>4 DEF CloseDrain, LockInv, Placed, InRead, locks
  <2>2. \E l \in {"td", "drain", "hdr", "pay"} : pc' = [pc EXCEPT !["close"] = l]
    BY <1>4 DEF CloseDrain
  <2>3. Draining'
    BY <1>1, <2>1, <2>2 DEF Draining
  <2> QED
    BY <1>1, <1>2, <1>3, <2>3, OthersEnd
<1>5. CASE CloseReceived
  <2>1. /\ UNCHANGED frame /\ rd_block' = rd_block
        /\ (\E e : Stop("close", e)) \/ pc' = [pc EXCEPT !["close"] = "drain"]
    BY <1>5 DEF CloseReceived, locks
  <2>2. ASSUME Steady', Draining, NEW e, Stop("close", e) PROVE ~Alive'
    BY <1>1, <2>2, StopIsDead, CloseStopsDead
       DEF Known, CloseInv, Steady, Unharmed, Draining
  <2>3. Steady' => (Draining => Draining' \/ ~Alive')
    BY <1>1, <2>1, <2>2 DEF Draining
  <2>4. rd_fin' = rd_fin /\ rd_cont' = rd_cont
    BY <2>1 DEF frame
  <2> QED
    BY <1>1, <1>2, <1>3, <2>3, <2>4, OthersEnd
<1>6. CASE TornDown("close")
  <2>1. ~Alive' /\ rd_fin' = rd_fin /\ rd_cont' = rd_cont
    BY <1>6 DEF TornDown, Alive, Dead, FinalStatus, parser, frame
  <2> QED
    BY <1>1, <1>2, <1>3, <2>1, OthersEnd
<1>7. CASE CloseBegin \/ ClosePosted \/ CloseSent \/ CloseGotReadBlock \/ CloseUpcall
  <2>1. UNCHANGED frame /\ ~Draining
    BY <1>7 DEF CloseBegin, ClosePosted, CloseSent, CloseGotReadBlock, CloseUpcall, Draining,
       parser
  <2> QED
    BY <1>1, <1>2, <1>3, <2>1, OthersEnd DEF frame
<1> QED
  BY <1>4, <1>5, <1>6, <1>7 DEF CloseStep

\* A step that leaves close_op where it is, or resumes it at a post, keeps draining
LEMMA KeepsDraining ==
  ASSUME LockInv, NEW o \in Ops \ {"rd", "close"}, NEW n \in Ops \cup {None}, Steps(o, n, None)
  PROVE  Draining => Draining'
<1>1. "close" \in Ops \ {o} /\ "close" # None /\ o # None
  BY NoneIsNoOp DEF Ops, None
<1>2. pc["close"] \in {"drain", "hdr", "pay", "td"} => pc'["close"] = pc["close"]
  BY <1>1, PostLabel DEF Steps, WaitsWr
<1>3. rd_block = "close" => rd_block' = "close"
  BY <1>1 DEF Steps, None
<1> QED
  BY <1>2, <1>3 DEF Draining

\* The application starts an operation, the timer runs, or the environment moves
LEMMA EnvironmentEnds ==
  ASSUME Known, EndInv, Steady' => Steady, ~Alive => ~Alive',
         \/ Application \/ timeout_handler \/ TimerExpires \/ PeerSends \/ PeerCloses
         \/ \E o \in Ops, r \in {"ok", "err"} : IoCompletes(o, r)
         \/ UNCHANGED vars
  PROVE  EndInv'
<1>1. pc \in [Ops -> Labels] /\ "rd" \in Ops /\ "close" \in Ops /\ ec \in [Ops -> Results]
  BY DEF Known, Base, LockInv, PcOK, Ops, TypeOK, SessionOK
<1>2. CASE Application
  <2>1. /\ UNCHANGED <<frame, status, rd_block>> /\ cur = None
        /\ \E o \in Ops, l \in {"next", "acquire", "begin"} :
             pc' = [pc EXCEPT ![o] = l] /\ pc[o] = "idle" /\ ec' = [ec EXCEPT ![o] = "ok"]
    BY <1>2 DEF Application, AsyncReadSome, AsyncRead, AsyncWrite, AsyncPing, AsyncClose,
       parser, session, locks, Goto, GotoFrom, Ops
  <2>2. pc["rd"] # "upcall" /\ pc'["rd"] # "upcall"
    BY <1>1, <2>1, NoneIsNoOp DEF EndInv
  <2>3. PICK o \in Ops, l \in {"next", "acquire", "begin"} :
          pc' = [pc EXCEPT ![o] = l] /\ pc[o] = "idle" /\ ec' = [ec EXCEPT ![o] = "ok"]
    BY <2>1
  <2>4. \/ pc'["rd"] = pc["rd"] /\ ec'["rd"] = ec["rd"]
        \/ pc["rd"] = "idle" /\ pc'["rd"] = l
    <3>1. CASE o = "rd"
      BY <1>1, <2>3, <3>1
    <3>2. CASE o # "rd"
      BY <1>1, <2>3, <3>2
    <3> QED
      BY <3>1, <3>2
  <2>5. pc'["rd"] \in RdCloses => pc["rd"] \in RdCloses /\ ec'["rd"] = ec["rd"]
    BY <2>4 DEF RdCloses
  <2>6. pc["rd"] \in RdCloses => pc'["rd"] \in RdCloses
    BY <2>4 DEF RdCloses
  <2>7. Draining => Draining'
    BY <1>1, <2>1, <2>3 DEF Draining
  <2>8. pc["rd"] \in Outside => pc'["rd"] \in Outside \cup {"begin"}
    BY <2>4 DEF Outside
  <2>9. pc'["rd"] # "begin"
    BY <1>2, <1>1 DEF Application, AsyncReadSome, AsyncRead, AsyncWrite, AsyncPing,
       AsyncClose, Goto, GotoFrom, Known, Base, LockInv, PcOK, Pcs, Ops
  <2>10. Alive' = Alive /\ rd_fin' = rd_fin /\ rd_cont' = rd_cont
    BY <2>1 DEF Alive, frame
  <2> QED
    BY <2>2, <2>5, <2>6, <2>7, <2>8, <2>9, <2>10
       DEF EndInv, WholeMessage, NotForReading, Ended
<1>3. CASE timeout_handler
  <2>1. UNCHANGED <<frame, rd_block, ec>> /\ cur = None
    BY <1>3 DEF timeout_handler, locks, parser
  <2>2. pc' = pc \/ pc' = [pc EXCEPT !["idle_ping"] = "begin"]
    BY <1>3 DEF timeout_handler, IdlePing, TimeOut, Goto, GotoFrom
  <2>3. pc'["rd"] = pc["rd"] /\ pc'["close"] = pc["close"] /\ pc["rd"] # "upcall"
    BY <1>1, <2>1, <2>2, NoneIsNoOp DEF EndInv, Ops
  <2> QED
    BY <2>1, <2>3 DEF EndInv, WholeMessage, frame, Draining, NotForReading, Ended
<1>4. CASE \/ TimerExpires \/ PeerSends \/ PeerCloses
           \/ \E o \in Ops, r \in {"ok", "err"} : IoCompletes(o, r)
           \/ UNCHANGED vars
  <2>1. UNCHANGED <<pc, ec, cur, rd_block, status, frame>>
    BY <1>4 DEF TimerExpires, PeerSends, PeerCloses, IoCompletes, vars, session, locks,
       parser
  <2> QED
    BY <2>1 DEF EndInv, WholeMessage, Alive, frame, Draining, NotForReading, Ended
<1> QED
  BY <1>2, <1>3, <1>4

\* Every step keeps the invariant
LEMMA NextEnds ==
  ASSUME Known, EndInv, [Next]_vars
  PROVE  EndInv'
<1>1. (Steady' => Steady) /\ LockInv /\ ec \in [Ops -> Results]
  BY SteadyBefore DEF Known, Base, TypeOK, SessionOK
<1>2. CASE ReadStep
  BY <1>1, <1>2, ReadEnds
<1>3. CASE CloseStep
  BY <1>1, <1>3, CloseEnds
<1>4. ASSUME NEW o \in Simple, SimpleStep(o) \/ (o = "wr" /\ FrameSent)
      PROVE  EndInv'
  <2>1. PICK n \in Ops \cup {None} : Steps(o, n, None)
    BY <1>1, <1>4, SimpleFacts, SimpleLone, SimpleUpcallSteps, FrameSentSteps, LoneSteps
       DEF SimpleStep
  <2>2. o \in Ops \ {"rd", "close"}
    BY SimpleFacts
  <2>3. cur \in {o, None} /\ UNCHANGED frame
    BY <1>4 DEF SimpleStep, SimpleBegin, SimplePosted, PingSent, SimpleUpcall,
       FrameSent, Resumed, parser
  <2>4. \A e : Stop(o, e) => ec'["rd"] = ec["rd"]
    BY <1>1, <2>2, StopKeepsOthers DEF Ops
  <2>5. ec'["rd"] = ec["rd"]
    BY <1>4, <2>4 DEF SimpleStep, SimpleBegin, SimplePosted, PingSent, SimpleUpcall,
       FrameSent, SimpleLocked
  <2>6. ~Alive => ~Alive'
    <3>1. UNCHANGED session \/ \E x, e : Stop(x, e)
      BY <1>4 DEF SimpleStep, SimpleUpcall, FrameSent, SimpleBegin, SimplePosted, PingSent,
         SimpleLocked
    <3> QED
      BY <3>1, SessionSound DEF SoundStep
  <2>7. Draining => Draining'
    BY <1>1, <2>1, <2>2, KeepsDraining
  <2> QED
    BY <1>1, <2>1, <2>2, <2>3, <2>5, <2>6, <2>7, OthersEnd DEF frame
<1>5. CASE \/ Application \/ timeout_handler \/ TimerExpires \/ PeerSends \/ PeerCloses
           \/ \E o \in Ops, r \in {"ok", "err"} : IoCompletes(o, r)
           \/ UNCHANGED vars
  <2>1. ~ReadClosing \/ UNCHANGED vars
    BY <1>5, EnvironmentIsNotClosing DEF Known
  <2>2. ~Alive => ~Alive'
    BY <2>1, OnlyClosingRevives DEF SoundStep, vars, session, Alive
  <2> QED
    BY <1>1, <1>5, <2>2, EnvironmentEnds
<1> QED
  BY <1>2, <1>3, <1>4, <1>5 DEF Next, Handlers, WriteStep, Simple

\* At first no read is under way, and none has begun a message
LEMMA InitEnds == Init => EndInv
  BY DEF Init, EndInv, WholeMessage, RdCloses, Ops

\* The invariant holds with a control callback or without
LEMMA EndInvariant == Spec => []EndInv
<1>1. ASSUME ~CtrlCb PROVE Spec => [](~CtrlCb => CloseInv)
  <2>1. CloseInv => (~CtrlCb => CloseInv)
    OBVIOUS
  <2> QED
    BY <1>1, <2>1, FlagsInvariant, PTL
<1>2. ASSUME CtrlCb PROVE Spec => [](~CtrlCb => CloseInv)
  <2>1. ~CtrlCb => CloseInv
    BY <1>2
  <2> QED
    BY <2>1, PTL
<1>3. Spec => [](~CtrlCb => CloseInv)
  BY <1>1, <1>2
<1>4. Base /\ ReviveInv /\ (~CtrlCb => CloseInv) /\ EndInv /\ [Next]_vars => EndInv'
  BY NextEnds DEF Known
<1> QED
  BY <1>3, <1>4, InitEnds, ReviveInvariant, BaseHolds, PTL DEF Spec

\* A read that reports a complete message has consumed its final fragment and the
\* payload of it, whatever control frames came in between, whoever else read from
\* the stream and whether or not there is a control callback, as long as no
\* operation has been ended by an error: rd_done is never set early.
THEOREM EndOfMessageRead == Spec => []EndOfMessage
<1>1. EndInv => EndOfMessage
  BY DEF EndInv, EndOfMessage, Steady
<1> QED
  BY <1>1, EndInvariant, PTL

\* Without a control callback that holds to the end, after an error too.
THEOREM WholeMessagesRead == ASSUME ~CtrlCb PROVE Spec => []WholeMessage
<1>1. EndInv => WholeMessage
  BY DEF EndInv, Steady
<1> QED
  BY <1>1, EndInvariant, PTL

----------------------------------------------------------------------------
(* Without idle pings the timeout is told: first where operations may stand when
   the timer fires, with PlaceInv, then what those that it cuts off do.        *)

\* An operation that completes, or is about to take the read block, runs; the
\* closing handshake goes on only behind a close frame that was sent
PlaceInv ==
  /\ pc["idle_ping"] = "idle"
  /\ \A o \in Ops : pc[o] = "upcall" => cur = o
  /\ pc["rd"] = "acquire" => cur = "rd"
  /\ pc["rd"] \in {"cl_write", "td"} => wr_close
  /\ pc["close"] \in {"write", "r_susp", "r_post", "drain", "hdr", "pay", "td"} => wr_close

\* Operation o comes to such a place only that way
Arrives(o) ==
  /\ cur \in {o, None} /\ (wr_close => wr_close')
  /\ pc'[o] = "upcall" => cur' = o
  /\ o = "rd" => /\ pc'["rd"] = "acquire" => cur' = "rd"
                 /\ pc'["rd"] \in {"cl_write", "td"} => wr_close'
  /\ o = "close" /\ pc'["close"] \in {"write", "r_susp", "r_post", "drain", "hdr", "pay", "td"}
       => wr_close'

\* ... and so do those it wakes
LEMMA ArrivesKeeps ==
  ASSUME LockInv, PlaceInv, NEW o \in Ops \ {"idle_ping"}, Arrives(o),
         NEW n \in Ops \cup {None}, NEW q \in {None, "rd", "close"}, Steps(o, n, q)
  PROVE  PlaceInv'
<1>1. \A x \in Ops \ {o} : cur # x
  BY NoneIsNoOp DEF Arrives
<1>2. \A x \in Ops \ {o} : \/ pc'[x] = pc[x] \/ pc'[x] \in {"post", "pong_post", "cl_post"}
                           \/ x = q /\ pc[x] = "r_susp" /\ pc'[x] = "r_post"
  <2>1. ASSUME NEW x \in Ops \ {o}, x = n
        PROVE  pc'[x] \in {"post", "pong_post", "cl_post"}
    <3>1. WaitsWr(x) /\ pc'[x] = PostOf[pc[x]]
      BY <2>1, NoneIsNoOp DEF Steps
    <3> QED
      BY <3>1, PostLabel DEF LockInv
  <2> QED
    BY <2>1, NoneIsNoOp DEF Steps
<1>3. pc'["idle_ping"] = "idle"
  <2>1. "idle_ping" \in Ops \ {o} /\ ~WaitsWr("idle_ping")
    BY DEF Ops, PlaceInv, WaitsWr
  <2> QED
    BY <2>1, NoneIsNoOp DEF Steps, PlaceInv
<1>4. \A x \in Ops : pc'[x] = "upcall" => cur' = x
  BY <1>1, <1>2 DEF PlaceInv, Arrives
<1>5. /\ pc'["rd"] = "acquire" => cur' = "rd"
      /\ pc'["rd"] \in {"cl_write", "td"} => wr_close'
  <2>1. CASE o = "rd"
    BY <2>1 DEF Arrives
  <2>2. CASE o # "rd"
    <3>1. "rd" \in Ops \ {o}
      BY <2>2 DEF Ops
    <3> QED
      BY <1>1, <1>2, <3>1 DEF PlaceInv, Arrives
  <2> QED
    BY <2>1, <2>2
<1>6. pc'["close"] \in {"write", "r_susp", "r_post", "drain", "hdr", "pay", "td"} => wr_close'
  <2>1. CASE o = "close"
    BY <2>1 DEF Arrives
  <2>2. CASE o # "close"
    <3>1. "close" \in Ops \ {o}
      BY <2>2 DEF Ops
    <3> QED
      BY <1>2, <3>1 DEF PlaceInv, Arrives
  <2> QED
    BY <2>1, <2>2
<1> QED
  BY <1>3, <1>4, <1>5, <1>6 DEF PlaceInv

\* A write or a ping runs when it completes
LEMMA SimpleArrives ==
  ASSUME LockInv, NEW o \in Simple, SimpleStep(o) \/ (o = "wr" /\ FrameSent)
  PROVE  Arrives(o)
<1> USE DEF Goto, GotoFrom, StartIo, YieldFrom, Park
<1>1. o \in Ops /\ o \notin {"rd", "close"} /\ pc \in [Ops -> Labels]
  BY SimpleFacts DEF LockInv, PcOK
<1>2. cur \in {o, None} /\ wr_close' = wr_close
  BY DEF SimpleStep, SimpleBegin, SimplePosted, PingSent, SimpleUpcall, FrameSent, Resumed,
     closing
<1>3. CASE SimpleBegin(o) \/ SimplePosted(o) \/ PingSent(o)
  <2>1. \/ cur' = o
        \/ \E l \in {"write", "susp"} : pc' = [pc EXCEPT ![o] = l]
    BY <1>3 DEF SimpleBegin, SimplePosted, PingSent, SimpleLocked
  <2> QED
    BY <1>1, <1>2, <2>1 DEF Arrives
<1>4. CASE o = "wr" /\ FrameSent
  <2>1. \/ cur' = o
        \/ pc' = [pc EXCEPT ![o] = "write"]
        \/ \E n \in Ops : NextWriter(o, n) /\ pc' = [PcWoken(n) EXCEPT ![o] = "susp"]
    BY <1>4 DEF FrameSent
  <2>2. ~WaitsWr(o)
    BY <1>4 DEF FrameSent, WaitsWr
  <2>3. ASSUME NEW n \in Ops, NextWriter(o, n), pc' = [PcWoken(n) EXCEPT ![o] = "susp"]
        PROVE  pc'[o] = "susp"
    BY <1>1, <2>2, <2>3, WokenAt
  <2> QED
    BY <1>1, <1>2, <2>1, <2>3 DEF Arrives
<1>5. CASE SimpleUpcall(o)
  <2>1. PICK n \in Ops \cup {None} :
          NextWriter(o, n) /\ pc' = [PcWoken(n) EXCEPT ![o] = "idle"]
    BY <1>5 DEF SimpleUpcall
  <2>2. ~WaitsWr(o)
    BY <1>5 DEF SimpleUpcall, WaitsWr
  <2>3. pc'[o] = "idle"
    BY <1>1, <2>1, <2>2, WokenAt
  <2> QED
    BY <1>1, <1>2, <2>3 DEF Arrives
<1> QED
  BY <1>3, <1>4, <1>5 DEF SimpleStep

\* close_op has set wr_close before it goes on
LEMMA CloseArrives ==
  ASSUME LockInv, PlaceInv, CloseStep
  PROVE  Arrives("close")
<1> USE DEF Goto, GotoFrom, StartIo, YieldFrom, Park
<1>1. "close" \in Ops /\ pc \in [Ops -> Labels] /\ "close" # "rd"
  BY DEF LockInv, PcOK, Ops
<1>2. cur \in {"close", None} /\ (wr_close => wr_close')
  <2>1. cur \in {"close", None}
    BY DEF CloseStep, CloseBegin, ClosePosted, CloseSent, CloseGotReadBlock, CloseDrain,
       CloseReceived, TornDown, CloseUpcall, Resumed
  <2>2. wr_close' = wr_close \/ wr_close' = TRUE
    BY DEF CloseStep, CloseBegin, ClosePosted, CloseSent, CloseGotReadBlock, CloseDrain,
       CloseReceived, TornDown, CloseUpcall, CloseLocked, closing
  <2> QED
    BY <2>1, <2>2
<1>3. CASE CloseBegin \/ ClosePosted
  <2>1. \/ pc' = [pc EXCEPT !["close"] = "upcall"] /\ cur' = "close"
        \/ pc' = [pc EXCEPT !["close"] = "susp"]
        \/ pc' = [pc EXCEPT !["close"] = "write"] /\ wr_close'
    BY <1>3 DEF CloseBegin, ClosePosted, CloseLocked
  <2> QED
    BY <1>1, <1>2, <2>1 DEF Arrives
<1>4. CASE \/ CloseSent \/ CloseGotReadBlock \/ CloseDrain \/ CloseReceived
           \/ TornDown("close")
  <2>1. wr_close
    BY <1>4 DEF CloseSent, CloseGotReadBlock, CloseDrain, CloseReceived, TornDown, Reading,
       TearingDown, PlaceInv
  <2>2. \/ pc' = [pc EXCEPT !["close"] = "upcall"] /\ cur' = "close"
        \/ \E l \in {"td", "drain", "r_susp", "hdr", "pay"} :
             pc' = [pc EXCEPT !["close"] = l]
    BY <1>4 DEF CloseSent, CloseGotReadBlock, CloseDrain, CloseReceived, TornDown
  <2> QED
    BY <1>1, <1>2, <2>1, <2>2 DEF Arrives
<1>5. CASE CloseUpcall
  <2>1. ~WaitsWr("close")
    BY <1>5 DEF CloseUpcall, WaitsWr
  <2>2. PICK m \in Ops \cup {None} :
          /\ NextWriter("close", m)
          /\ \/ pc' = [PcWoken(m) EXCEPT !["close"] = "idle"]
             \/ pc' = [[PcWoken(m) EXCEPT !["rd"] = "r_post"] EXCEPT !["close"] = "idle"]
    BY <1>5 DEF CloseUpcall
  <2>3. pc'["close"] = "idle"
    BY <1>1, <2>1, <2>2, WokenAt
  <2> QED
    BY <1>1, <1>2, <2>3 DEF Arrives
<1> QED
  BY <1>3, <1>4, <1>5 DEF CloseStep

\* The read sends a close frame, or tears down, behind wr_close
LEMMA ReadArrives ==
  ASSUME LockInv, PlaceInv, ReadStep
  PROVE  Arrives("rd")
<1> USE DEF Goto, GotoFrom, StartIo, YieldFrom, Park, Post
<1>1. "rd" \in Ops /\ pc \in [Ops -> Labels] /\ "close" # "rd"
  BY DEF LockInv, PcOK, Ops
<1>2. cur \in {"rd", None} /\ (wr_close => wr_close')
  <2>1. cur \in {"rd", None}
    BY DEF ReadStep, ReadNext, ReadAcquire, ReadGotReadBlock, ReadLoop, ReadSkipsHeader,
       ReadHeaderBytes, ReadDefersCallback, ReadCallback, ReadPing, ReadPongPosted,
       ReadPongSent, ReadPong, ReadClose, ReadPayload, ReadPayloadBytes, ReadClosing,
       ReadClosePosted, ReadCloseSent, TornDown, ReadUpcall, Handles, Resumed
  <2>2. wr_close => wr_close'
    BY DEF ReadStep, ReadNext, ReadAcquire, ReadGotReadBlock, ReadLoop, ReadSkipsHeader,
       ReadHeaderBytes, ReadDefersCallback, ReadCallback, ReadPing, ReadPongPosted,
       ReadPongSent, ReadPong, ReadClose, ReadPayload, ReadPayloadBytes, ReadClosing,
       ReadClosePosted, ReadCloseSent, ReadCloseLocked, TornDown, ReadUpcall, closing
  <2> QED
    BY <2>1, <2>2
<1>3. CASE \/ ReadNext \/ ReadAcquire \/ ReadGotReadBlock \/ ReadLoop \/ ReadSkipsHeader
           \/ ReadDefersCallback \/ ReadCallback \/ ReadPong \/ ReadClose
           \/ ReadPayload \/ ReadPayloadBytes \/ ReadPongPosted
  <2>1. \/ \E l \in {"upcall", "acquire"} : pc' = [pc EXCEPT !["rd"] = l] /\ cur' = "rd"
        \/ \E l \in {"idle", "loop", "r_susp", "hdr", "closing", "ctl", "payload", "cb", "pay",
                     "pong_write"} :
             pc' = [pc EXCEPT !["rd"] = l]
    BY <1>3 DEF ReadNext, ReadAcquire, ReadGotReadBlock, ReadLoop, ReadSkipsHeader,
       ReadDefersCallback, ReadCallback, ReadPong, ReadClose, ReadPayload,
       ReadPayloadBytes, ReadPongPosted, Handles
  <2> QED
    BY <1>1, <1>2, <2>1 DEF Arrives
<1>4. CASE ReadHeaderBytes \/ ReadPing
  <2>1. \/ cur' = "rd" /\ \E l \in {"upcall", "loop"} : pc' = [pc EXCEPT !["rd"] = l]
        \/ \E l \in {"pong_write", "pong_susp", "r_susp"} :
             \/ pc' = [pc EXCEPT !["rd"] = l]
             \/ pc' = [[pc EXCEPT !["close"] = "r_post"] EXCEPT !["rd"] = l]
    BY <1>4 DEF ReadHeaderBytes, ReadPing
  <2> QED
    BY <1>1, <1>2, <2>1 DEF Arrives
<1>5. CASE ReadPongSent
  <2>1. \/ cur' = "rd" /\ pc' = [pc EXCEPT !["rd"] = "upcall"]
        \/ /\ cur' = "rd"
           /\ \E m \in Ops \cup {None} :
                NextWriter("rd", m) /\ pc' = [PcWoken(m) EXCEPT !["rd"] = "acquire"]
    BY <1>5 DEF ReadPongSent
  <2>2. ~WaitsWr("rd")
    BY <1>5 DEF ReadPongSent, WaitsWr
  <2>3. ASSUME NEW m \in Ops \cup {None}, NextWriter("rd", m),
               pc' = [PcWoken(m) EXCEPT !["rd"] = "acquire"]
        PROVE  pc'["rd"] = "acquire"
    BY <1>1, <2>2, <2>3, WokenAt
  <2> QED
    BY <1>1, <1>2, <2>1, <2>3 DEF Arrives
<1>6. CASE ReadClosing \/ ReadClosePosted \/ ReadCloseSent \/ TornDown("rd")
  <2>1. \/ pc' = [pc EXCEPT !["rd"] = "upcall"] /\ cur' = "rd"
        \/ pc' = [pc EXCEPT !["rd"] = "cl_susp"]
        \/ /\ \E l \in {"td", "cl_write"} : pc' = [pc EXCEPT !["rd"] = l]
           /\ wr_close' \/ pc["rd"] = "cl_write"
    BY <1>6 DEF ReadClosing, ReadClosePosted, ReadCloseSent, ReadCloseLocked, TornDown
  <2> QED
    BY <1>1, <1>2, <2>1 DEF Arrives, PlaceInv
<1>7. CASE ReadUpcall
  <2>1. PICK m \in Ops \cup {None}, l \in {"next", "idle"} :
          /\ NextWriter("rd", m) \/ m = None
          /\ \/ pc' = [PcWoken(m) EXCEPT !["rd"] = l]
             \/ pc' = [[PcWoken(m) EXCEPT !["close"] = "r_post"] EXCEPT !["rd"] = l]
    BY <1>7 DEF ReadUpcall
  <2>2. PcWoken(m) \in [Ops -> Labels]
    BY <1>1, <1>7, <2>1, WokenAt, PcWokenIs, NoneIsNoOp DEF ReadUpcall, WaitsWr, LockInv
  <2>3. pc'["rd"] \in {"next", "idle"}
    BY <1>1, <2>1, <2>2
  <2> QED
    BY <1>1, <1>2, <2>3 DEF Arrives
<1> QED
  BY <1>3, <1>4, <1>5, <1>6, <1>7 DEF ReadStep

\* Every step keeps PlaceInv: without idle pings their operation stays idle
LEMMA NextPlaces ==
  ASSUME ~KeepAlive, LockInv, PlaceInv, [Next]_vars
  PROVE  PlaceInv'
<1>1. "rd" \in Ops \ {"idle_ping"} /\ "close" \in Ops \ {"idle_ping"}
  BY DEF Ops
<1>2. CASE ReadStep
  BY <1>1, <1>2, ReadSteps, ReadArrives, ArrivesKeeps
<1>3. CASE CloseStep
  BY <1>1, <1>3, CloseSteps, CloseArrives, ArrivesKeeps
<1>4. ASSUME NEW o \in Simple, SimpleStep(o) \/ (o = "wr" /\ FrameSent)
      PROVE  PlaceInv'
  <2>1. PICK n \in Ops \cup {None} : Steps(o, n, None)
    BY <1>4, SimpleFacts, SimpleLone, SimpleUpcallSteps, FrameSentSteps, LoneSteps
       DEF SimpleStep
  <2>2. o \in Ops \ {"idle_ping"}
    BY <1>4, SimpleFacts DEF SimpleStep, SimpleBegin, SimplePosted, PingSent, SimpleUpcall,
       PlaceInv
  <2> QED
    BY <1>4, <2>1, <2>2, SimpleArrives, ArrivesKeeps
<1>5. CASE Application
  <2>1. /\ wr_close' = wr_close /\ cur = None
        /\ \E o \in Ops \ {"idle_ping"}, l \in {"next", "acquire", "begin"} :
             /\ pc' = [pc EXCEPT ![o] = l] /\ cur' = o
             /\ l = "acquire" => o = "rd"
    BY <1>5 DEF Application, AsyncReadSome, AsyncRead, AsyncWrite, AsyncPing, AsyncClose,
       closing, Goto, GotoFrom, Ops
  <2> QED
    BY <1>1, <2>1, NoneIsNoOp DEF PlaceInv, LockInv, PcOK
<1>6. CASE timeout_handler
  <2>1. wr_close' = wr_close /\ pc' = pc /\ cur' = cur
    BY <1>6 DEF timeout_handler, PingsOnIdle, TimeOut, closing
  <2> QED
    BY <2>1 DEF PlaceInv
<1>7. CASE \/ TimerExpires \/ PeerSends \/ PeerCloses
           \/ \E o \in Ops, r \in {"ok", "err"} : IoCompletes(o, r)
           \/ UNCHANGED vars
  <2>1. UNCHANGED <<pc, cur, wr_close>>
    BY <1>7 DEF TimerExpires, PeerSends, PeerCloses, IoCompletes, vars, closing
  <2> QED
    BY <2>1 DEF PlaceInv
<1> QED
  BY <1>2, <1>3, <1>4, <1>5, <1>6, <1>7 DEF Next, Handlers, WriteStep, Simple

----------------------------------------------------------------------------
(* The timeout *)

\* The labels at which an operation that was cut off waits for its turn to stop
Unstopped == {"next", "begin", "susp", "post", "write", "r_susp", "r_post", "hdr", "pay",
              "pong_susp", "pong_post", "pong_write", "cl_susp", "cl_post", "cl_write"}

TimeoutTold == \E i \in 1 .. Len(told) : told[i] = "timeout"

\* Once operations were cut off by the idle limit: until somebody has stopped with
\* the timeout all of them are still to stop, and then it is told or about to be
TimeInv ==
  /\ expired => ~Alive /\ pc["rd"] # "td" /\ pc["close"] # "td"
  /\ expired /\ timed_out => cut # {} /\ \A o \in cut : pc[o] \in Unstopped
  /\ expired /\ ~timed_out =>
       \/ TimeoutTold
       \/ cut # {} /\ \E o \in Ops : pc[o] = "upcall" /\ ec[o] = "timeout"

\* What o does on a stream the idle limit has closed: it moves on, stops with the
\* timeout, and tells it; or a read_op does both at once
Waits(o) ==
  /\ timed_out' = timed_out /\ told' = told /\ pc[o] # "upcall"
  /\ timed_out => cut' = cut /\ (pc[o] \in Unstopped => pc'[o] \in Unstopped)
Takes(o) ==
  /\ timed_out /\ ~timed_out' /\ told' = told /\ cut' = cut
  /\ pc'[o] = "upcall" /\ ec'[o] = "timeout"
TakesAndTells == ~timed_out' /\ told' = Append(told, "timeout")
Completes(o) ==
  /\ pc[o] = "upcall" /\ timed_out' = timed_out
  /\ \/ told' = told /\ cut' = cut /\ ec[o] # "timeout"
     \/ told' = told /\ cut' = cut \ {o} /\ ec[o] # "timeout"
     \/ told' = Append(told, ec[o]) /\ cut' = cut \ {o}
Answers(o) ==
  /\ cur \in {o, None} /\ expired' = expired /\ pc'[o] # "td"
  /\ Waits(o) \/ Takes(o) \/ TakesAndTells \/ Completes(o)

\* What has been told stays told
LEMMA AppendTells ==
  ASSUME NEW S, told \in Seq(S), NEW r \in S, told' = Append(told, r),
         TimeoutTold \/ r = "timeout"
  PROVE  TimeoutTold'
<1>1. Len(told') = Len(told) + 1 /\ Len(told) \in Nat /\ told'[Len(told) + 1] = r
  OBVIOUS
<1>2. CASE r = "timeout"
  BY <1>1, <1>2 DEF TimeoutTold
<1>3. CASE TimeoutTold
  <2>1. PICK i \in 1 .. Len(told) : told[i] = "timeout"
    BY <1>3 DEF TimeoutTold
  <2>2. i \in 1 .. Len(told') /\ told'[i] = "timeout"
    BY <1>1, <2>1
  <2> QED
    BY <2>2 DEF TimeoutTold
<1> QED
  BY <1>2, <1>3

\* Such a step keeps the invariant
LEMMA AnswersKeeps ==
  ASSUME Base, PlaceInv, TimeInv, expired, ~Alive => ~Alive',
         NEW o \in Ops, NEW n \in Ops \cup {None}, NEW q \in {None, "rd", "close"},
         Steps(o, n, q), Answers(o)
  PROVE  TimeInv'
<1>1. LockInv /\ told \in Seq(Results) /\ ec \in [Ops -> Results] /\ cut \subseteq Ops
  BY DEF Base, TypeOK, HistoryOK, SessionOK
<1>2. /\ ~Alive' /\ pc'["rd"] # "td" /\ pc'["close"] # "td"
  <2>1. pc["rd"] # "td" /\ pc["close"] # "td" /\ ~Alive /\ "rd" \in Ops /\ "close" \in Ops
    BY DEF TimeInv, Ops
  <2> QED
    BY <1>1, <2>1, WokenLabels DEF Answers
<1>3. ASSUME NEW x \in Ops \ {o}, pc[x] \in Unstopped PROVE pc'[x] \in Unstopped
  <2>1. CASE x = n
    <3>1. WaitsWr(x) /\ pc'[x] = PostOf[pc[x]]
      BY <2>1, NoneIsNoOp DEF Steps
    <3> QED
      BY <1>1, <3>1, PostLabel DEF LockInv, Unstopped
  <2>2. CASE x # n
    BY <1>3, <2>2 DEF Steps, Unstopped
  <2> QED
    BY <2>1, <2>2
<1>4. \A x \in Ops : pc[x] = "upcall" => x = o
  BY NoneIsNoOp DEF PlaceInv, Answers
<1>5. CASE Waits(o)
  <2>1. CASE timed_out
    <3>1. cut' # {} /\ \A x \in cut' : pc'[x] \in Unstopped
      BY <1>1, <1>3, <1>5, <2>1 DEF TimeInv, Waits
    <3> QED
      BY <1>2, <1>5, <2>1, <3>1 DEF TimeInv, Waits
  <2>2. CASE ~timed_out
    <3>1. TimeoutTold /\ TimeoutTold'
      BY <1>4, <1>5, <2>2 DEF TimeInv, Waits, TimeoutTold
    <3> QED
      BY <1>2, <1>5, <2>2, <3>1 DEF TimeInv, Waits
  <2> QED
    BY <2>1, <2>2
<1>6. CASE Takes(o)
  BY <1>2, <1>6 DEF TimeInv, Takes
<1>7. CASE TakesAndTells
  <2>1. "timeout" \in Results
    BY DEF Results
  <2>2. TimeoutTold'
    BY <1>1, <1>7, <2>1, AppendTells DEF TakesAndTells
  <2> QED
    BY <1>2, <1>7, <2>2 DEF TimeInv, TakesAndTells
<1>8. CASE Completes(o)
  <2>1. CASE timed_out
    <3>1. o \notin cut
      BY <1>8, <2>1 DEF TimeInv, Completes, Unstopped
    <3>2. cut' = cut
      BY <1>8, <3>1 DEF Completes
    <3>3. cut' # {} /\ \A x \in cut' : pc'[x] \in Unstopped
      BY <1>1, <1>3, <2>1, <3>1, <3>2 DEF TimeInv
    <3> QED
      BY <1>2, <1>8, <2>1, <3>3 DEF TimeInv, Completes
  <2>2. CASE ~timed_out
    <3>1. TimeoutTold \/ ec[o] = "timeout"
      BY <1>4, <2>2 DEF TimeInv
    <3>2. TimeoutTold'
      <4>1. CASE told' = told /\ ec[o] # "timeout"
        BY <3>1, <4>1 DEF TimeoutTold
      <4>2. CASE told' = Append(told, ec[o])
        BY <1>1, <3>1, <4>2, AppendTells
      <4> QED
        BY <1>8, <4>1, <4>2 DEF Completes
    <3> QED
      BY <1>2, <1>8, <2>2, <3>2 DEF TimeInv, Completes
  <2> QED
    BY <2>1, <2>2
<1> QED
  BY <1>5, <1>6, <1>7, <1>8 DEF Answers

----------------------------------------------------------------------------

\* Who stops takes the timeout if it is still there
LEMMA DeadStops ==
  ASSUME ~Alive, ec \in [Ops -> Results], NEW o \in Ops, NEW e, Stop(o, e)
  PROVE  \/ timed_out /\ ~timed_out' /\ ec'[o] = "timeout"
         \/ ~timed_out /\ timed_out' = timed_out
  BY DEF Stop, TimeoutDue, Aborts, Alive, session

\* ... and nobody goes on
LEMMA DeadGoesNot == ASSUME ~Alive, NEW e PROVE ~GoOn(e)
  BY DEF GoOn, Alive

\* An operation that stops on a dead stream
LEMMA StoppedAnswers ==
  ASSUME Base, ~Alive, NEW o \in Ops, NEW e, Stop(o, e), pc' = [pc EXCEPT ![o] = "upcall"],
         UNCHANGED <<told, cut, expired>>, cur \in {o, None}, pc[o] # "upcall"
  PROVE  Answers(o)
<1>1. pc'[o] = "upcall" /\ ec \in [Ops -> Results]
  BY DEF Base, LockInv, PcOK, TypeOK, SessionOK
<1> QED
  BY <1>1, DeadStops DEF Answers, Waits, Takes

\* A write or a ping on a stream the idle limit has closed
LEMMA SimpleAnswers ==
  ASSUME Base, PlaceInv, ~Alive, NEW o \in Simple, SimpleStep(o) \/ (o = "wr" /\ FrameSent)
  PROVE  Answers(o)
<1> USE DEF Goto, GotoFrom, StartIo, YieldFrom, Park
<1>1. /\ o \in Ops /\ pc \in [Ops -> Labels] /\ LockInv
      /\ \A e : ~GoOn(e)
  BY SimpleFacts, DeadGoesNot DEF Base, LockInv, PcOK
<1>2. cur \in {o, None} /\ expired' = expired
  BY DEF SimpleStep, SimpleBegin, SimplePosted, PingSent, SimpleUpcall, FrameSent, Resumed,
     history
<1>3. CASE SimpleBegin(o) \/ SimplePosted(o) \/ PingSent(o) \/ (o = "wr" /\ FrameSent)
  <2>1. UNCHANGED <<told, cut, expired>> /\ pc[o] # "upcall"
    BY <1>3 DEF SimpleBegin, SimplePosted, PingSent, FrameSent, history
  <2>2. \/ /\ Stop(o, "ok") \/ Stop(o, io[o])
           /\ pc' = [pc EXCEPT ![o] = "upcall"]
        \/ pc' = [pc EXCEPT ![o] = "susp"] /\ UNCHANGED session
    BY <1>1, <1>3 DEF SimpleBegin, SimplePosted, PingSent, FrameSent, SimpleLocked
  <2>3. CASE pc' = [pc EXCEPT ![o] = "susp"] /\ UNCHANGED session
    BY <1>1, <1>2, <2>1, <2>3 DEF Answers, Waits, session, Unstopped
  <2> QED
    BY <1>1, <1>2, <2>1, <2>2, <2>3, StoppedAnswers
<1>4. CASE SimpleUpcall(o)
  <2>1. PICK n \in Ops \cup {None} :
          NextWriter(o, n) /\ pc' = [PcWoken(n) EXCEPT ![o] = "idle"]
    BY <1>4 DEF SimpleUpcall
  <2>2. ~WaitsWr(o) /\ pc[o] = "upcall" /\ timed_out' = timed_out /\ o # "idle_ping"
    BY <1>4 DEF SimpleUpcall, WaitsWr, session, PlaceInv
  <2>3. pc'[o] = "idle"
    BY <1>1, <2>1, <2>2, WokenAt
  <2>4. /\ cut' = cut \ {o}
        /\ \/ told' = told /\ ec[o] # "timeout"
           \/ told' = Append(told, ec[o])
    BY <1>4, <2>2 DEF SimpleUpcall, Report, StopCauses
  <2> QED
    BY <1>2, <2>2, <2>3, <2>4 DEF Answers, Completes
<1> QED
  BY <1>3, <1>4 DEF SimpleStep

\* A close_op that was waiting, or that is started on it
LEMMA CloseAnswers ==
  ASSUME Base, CloseInv, PlaceInv, TimeInv, expired, CloseStep
  PROVE  Answers("close")
<1> USE DEF Goto, GotoFrom, StartIo, YieldFrom, Park
<1>1. /\ "close" \in Ops /\ pc \in [Ops -> Labels] /\ LockInv /\ ~Alive
      /\ \A e : ~GoOn(e)
  BY DeadGoesNot DEF Base, LockInv, PcOK, Ops, TimeInv
<1>2. cur \in {"close", None} /\ expired' = expired
  BY DEF CloseStep, CloseBegin, ClosePosted, CloseSent, CloseGotReadBlock, CloseDrain,
     CloseReceived, TornDown, CloseUpcall, Resumed, history
<1>3. ~CloseDrain /\ ~TornDown("close")
  BY <1>1 DEF CloseDrain, TornDown, TearingDown, TimeInv, CloseInv, AliveInv
<1>4. CASE CloseBegin \/ ClosePosted \/ CloseSent \/ CloseGotReadBlock \/ CloseReceived
  <2>1. UNCHANGED <<told, cut, expired>> /\ pc["close"] # "upcall"
    BY <1>4 DEF CloseBegin, ClosePosted, CloseSent, CloseGotReadBlock, CloseReceived, Reading,
       history
  <2>2. \/ /\ Stop("close", "ok") \/ Stop("close", io["close"])
           /\ pc' = [pc EXCEPT !["close"] = "upcall"]
        \/ pc' = [pc EXCEPT !["close"] = "susp"] /\ UNCHANGED session
    BY <1>1, <1>4 DEF CloseBegin, ClosePosted, CloseSent, CloseGotReadBlock, CloseReceived,
       CloseLocked
  <2>3. CASE pc' = [pc EXCEPT !["close"] = "susp"] /\ UNCHANGED session
    BY <1>1, <1>2, <2>1, <2>3 DEF Answers, Waits, session, Unstopped
  <2> QED
    BY <1>1, <1>2, <2>1, <2>2, <2>3, StoppedAnswers
<1>5. CASE CloseUpcall
  <2>1. ~WaitsWr("close") /\ pc["close"] = "upcall" /\ timed_out' = timed_out
    BY <1>5 DEF CloseUpcall, WaitsWr, session
  <2>2. PICK m \in Ops \cup {None} :
          /\ NextWriter("close", m)
          /\ \/ pc' = [PcWoken(m) EXCEPT !["close"] = "idle"]
             \/ pc' = [[PcWoken(m) EXCEPT !["rd"] = "r_post"] EXCEPT !["close"] = "idle"]
    BY <1>5 DEF CloseUpcall
  <2>3. pc'["close"] = "idle"
    BY <1>1, <2>1, <2>2, WokenAt
  <2>4. /\ cut' = cut \ {"close"}
        /\ \/ told' = told /\ ec["close"] # "timeout"
           \/ told' = Append(told, ec["close"])
    BY <1>5 DEF CloseUpcall, Report, StopCauses
  <2> QED
    BY <1>2, <2>1, <2>3, <2>4 DEF Answers, Completes
<1> QED
  BY <1>3, <1>4, <1>5 DEF CloseStep

\* A read: it has nothing more to dispatch
LEMMA ReadAnswers ==
  ASSUME ~CtrlCb, Base, CloseInv, PlaceInv, TimeInv, expired, ReadStep
  PROVE  Answers("rd")
<1> USE DEF Goto, GotoFrom, StartIo, YieldFrom, Park
<1>1. /\ "rd" \in Ops /\ pc \in [Ops -> Labels] /\ LockInv /\ ~Alive
      /\ \A e : ~GoOn(e)
  BY DeadGoesNot DEF Base, LockInv, PcOK, Ops, TimeInv
<1>2. pc["rd"] \notin Dispatching /\ pc["rd"] # "td"
  BY <1>1 DEF CloseInv, AliveInv, TimeInv
<1>3. ~\/ ReadLoop \/ ReadSkipsHeader \/ ReadPing \/ ReadPong \/ ReadClose \/ ReadPayload
       \/ ReadClosing \/ TornDown("rd")
  BY <1>2 DEF ReadLoop, ReadSkipsHeader, ReadPing, ReadPong, ReadClose, ReadPayload,
     ReadClosing, TornDown, Handles, Dispatching, TearingDown
<1>4. cur \in {"rd", None} /\ expired' = expired
  <2>1. CASE \/ ReadNext \/ ReadAcquire \/ ReadGotReadBlock \/ ReadHeaderBytes
             \/ ReadPayloadBytes
    BY <2>1 DEF ReadNext, ReadAcquire, ReadGotReadBlock, ReadHeaderBytes, ReadPayloadBytes,
       Resumed, history
  <2>2. CASE ReadPongPosted \/ ReadPongSent \/ ReadClosePosted \/ ReadCloseSent \/ ReadUpcall
    BY <2>2 DEF ReadPongPosted, ReadPongSent, ReadClosePosted, ReadCloseSent, ReadUpcall,
       Resumed
  <2> QED
    BY <1>3, <2>1, <2>2, NoCallback DEF ReadStep, CloseInv
<1>5. CASE \/ ReadGotReadBlock \/ ReadHeaderBytes \/ ReadPayloadBytes \/ ReadPongPosted
           \/ ReadPongSent \/ ReadClosePosted \/ ReadCloseSent
  <2>1. UNCHANGED <<told, cut>> /\ pc["rd"] # "upcall"
    BY <1>5 DEF ReadGotReadBlock, ReadHeaderBytes, ReadPayloadBytes, ReadPongPosted,
       ReadPongSent, ReadClosePosted, ReadCloseSent, history
  <2>2. /\ Stop("rd", "ok") \/ Stop("rd", io["rd"])
        /\ pc' = [pc EXCEPT !["rd"] = "upcall"]
    BY <1>1, <1>5 DEF ReadGotReadBlock, ReadHeaderBytes, ReadPayloadBytes, ReadPongPosted,
       ReadPongSent, ReadClosePosted, ReadCloseSent
  <2> QED
    BY <1>1, <1>4, <2>1, <2>2, StoppedAnswers
<1>6. CASE ReadNext
  <2>1. /\ Stop("rd", "ok") \/ Stop("rd", "err")
        /\ pc' = [pc EXCEPT !["rd"] = "idle"] /\ pc["rd"] = "next"
        /\ told' = IF ec'["rd"] \in StopCauses THEN Append(told, ec'["rd"]) ELSE told
        /\ cut' = cut \ {"rd"}
    BY <1>1, <1>6 DEF ReadNext
  <2>2. pc'["rd"] = "idle" /\ ec \in [Ops -> Results]
    BY <1>1, <2>1 DEF Base, TypeOK, SessionOK
  <2>3. CASE timed_out /\ ~timed_out' /\ ec'["rd"] = "timeout"
    BY <1>4, <2>1, <2>2, <2>3 DEF Answers, TakesAndTells, StopCauses
  <2>4. CASE ~timed_out /\ timed_out' = timed_out
    <3>1. ec' = [ec EXCEPT !["rd"] = "aborted"]
      BY <1>1, <2>1, <2>4 DEF Stop, TimeoutDue, Aborts, Alive
    <3> QED
      BY <1>1, <1>4, <2>1, <2>2, <2>4, <3>1 DEF Answers, Waits, StopCauses
  <2> QED
    BY <1>1, <2>1, <2>2, <2>3, <2>4, DeadStops
<1>7. CASE ReadAcquire
  <2>1. /\ UNCHANGED <<told, cut>> /\ pc["rd"] = "acquire" /\ timed_out' = timed_out
        /\ \E l \in {"upcall", "loop", "r_susp"} : pc' = [pc EXCEPT !["rd"] = l]
    BY <1>7 DEF ReadAcquire, session
  <2> QED
    BY <1>1, <1>4, <2>1 DEF Answers, Waits, Unstopped
<1>8. CASE ReadUpcall
  <2>1. ~WaitsWr("rd") /\ pc["rd"] = "upcall" /\ timed_out' = timed_out
    BY <1>8 DEF ReadUpcall, WaitsWr, session
  <2>2. pc'["rd"] \in {"next", "idle"}
    <3>1. PICK m \in Ops \cup {None}, l \in {"next", "idle"} :
            /\ NextWriter("rd", m) \/ m = None
            /\ \/ pc' = [PcWoken(m) EXCEPT !["rd"] = l]
               \/ pc' = [[PcWoken(m) EXCEPT !["close"] = "r_post"] EXCEPT !["rd"] = l]
      BY <1>8 DEF ReadUpcall
    <3>2. PcWoken(m) \in [Ops -> Labels]
      BY <1>1, <2>1, <3>1, WokenAt, PcWokenIs, NoneIsNoOp DEF LockInv
    <3> QED
      BY <1>1, <3>1, <3>2
  <2>3. \/ told' = told /\ cut' = cut /\ ec["rd"] = "ok"
        \/ cut' = cut \ {"rd"} /\ \/ told' = told /\ ec["rd"] # "timeout"
                                  \/ told' = Append(told, ec["rd"])
    BY <1>8 DEF ReadUpcall, Report, StopCauses
  <2> QED
    BY <1>4, <2>1, <2>2, <2>3 DEF Answers, Completes
<1> QED
  BY <1>3, <1>5, <1>6, <1>7, <1>8, NoCallback DEF ReadStep, CloseInv

----------------------------------------------------------------------------

\* A timeout of the open stream cuts off whoever is there
LEMMA TimesOut ==
  ASSUME ~KeepAlive, Base, CloseInv, PlaceInv, TimeInv, timeout_handler
  PROVE  TimeInv'
<1>1. UNCHANGED <<pc, ec, told>> /\ cur = None
  BY DEF timeout_handler, PingsOnIdle, TimeOut
<1>2. CASE status = "open" /\ TimeOut
  <2>1. /\ timed_out' /\ ~Alive' /\ Alive
        /\ cut' = {o \in Ops \ {"idle_ping"} : pc[o] # "idle"}
        /\ expired' = (expired \/ cut' # {})
    BY <1>2 DEF TimeOut, Alive, Dead
  <2>2. ~expired /\ (expired' => cut' # {})
    BY <2>1 DEF TimeInv
  <2>3. pc["rd"] # "td" /\ pc["close"] # "td" /\ pc["rd"] # "cl_write"
    BY <1>2 DEF PlaceInv, CloseInv, SentInv
  <2>4. ASSUME NEW o \in cut' PROVE pc'[o] \in Unstopped
    <3>1. o \in Ops \ {"idle_ping"} /\ pc[o] # "idle" /\ pc[o] \in Pcs[o]
      BY <2>1 DEF Base, LockInv, PcOK
    <3>2. cur # o
      BY <1>1, <3>1, NoneIsNoOp
    <3>3. pc[o] # "upcall"
      BY <3>1, <3>2 DEF PlaceInv
    <3>4. CASE o = "rd"
      <4>1. pc["rd"] \notin {"acquire", "loop", "ctl", "payload", "closing", "cb", "td"}
        BY <2>3, <3>2, <3>4 DEF PlaceInv, CloseInv, AliveInv, Dispatching
      <4> QED
        BY <1>1, <3>1, <3>3, <3>4, <4>1 DEF Pcs, Unstopped
    <3>5. CASE o = "close"
      <4>1. pc["close"] \notin {"drain", "td"}
        BY <2>3, <3>2, <3>5 DEF CloseInv, AliveInv
      <4> QED
        BY <1>1, <3>1, <3>3, <3>5, <4>1 DEF Pcs, SimplePcs, Unstopped
    <3>6. CASE o \in {"wr", "ping"}
      BY <1>1, <3>1, <3>3, <3>6 DEF Pcs, SimplePcs, Unstopped
    <3> QED
      BY <3>1, <3>4, <3>5, <3>6 DEF Ops
  <2> QED
    BY <1>1, <2>1, <2>2, <2>3, <2>4 DEF TimeInv
<1>3. CASE status = "closing" /\ TimeOut
  <2>1. ~expired /\ ~expired'
    BY <1>3 DEF TimeInv, Alive, Dead, TimeOut
  <2> QED
    BY <2>1 DEF TimeInv
<1>4. CASE UNCHANGED <<session, expired, cut>>
  BY <1>1, <1>4 DEF TimeInv, Alive, session, TimeoutTold
<1> QED
  BY <1>2, <1>3, <1>4 DEF timeout_handler, PingsOnIdle

\* A new call is not one of those cut off
LEMMA CallsKeepTime ==
  ASSUME Base, PlaceInv, TimeInv, Application
  PROVE  TimeInv'
<1>1. /\ UNCHANGED <<status, timed_out, told, cut, expired>> /\ cur = None
      /\ \E o \in Ops, l \in {"next", "acquire", "begin"} :
           pc[o] = "idle" /\ pc' = [pc EXCEPT ![o] = l]
  BY DEF Application, AsyncReadSome, AsyncRead, AsyncWrite, AsyncPing, AsyncClose, session,
     history, Goto, GotoFrom, Ops
<1>2. PICK o \in Ops, l \in {"next", "acquire", "begin"} :
        pc[o] = "idle" /\ pc' = [pc EXCEPT ![o] = l]
  BY <1>1
<1>3. pc \in [Ops -> Labels] /\ cut \subseteq Ops /\ "rd" \in Ops /\ "close" \in Ops
  BY DEF Base, LockInv, PcOK, TypeOK, HistoryOK, Ops
<1>4. \A x \in Ops : pc[x] # "upcall"
  BY <1>1, NoneIsNoOp DEF PlaceInv
<1>5. expired /\ timed_out => \A x \in cut : pc'[x] \in Unstopped
  BY <1>2, <1>3 DEF TimeInv, Unstopped
<1>6. expired /\ ~timed_out => TimeoutTold
  BY <1>4 DEF TimeInv
<1>7. expired => pc'["rd"] # "td" /\ pc'["close"] # "td"
  BY <1>2, <1>3 DEF TimeInv
<1> QED
  BY <1>1, <1>5, <1>6, <1>7 DEF TimeInv, Alive, TimeoutTold

\* Only the timer cuts off
LEMMA ReadExpires == ASSUME ReadStep PROVE expired' = expired
  BY DEF ReadStep, ReadNext, ReadAcquire, ReadGotReadBlock, ReadLoop, ReadSkipsHeader,
     ReadHeaderBytes, ReadDefersCallback, ReadCallback, ReadPing, ReadPongPosted,
     ReadPongSent, ReadPong, ReadClose, ReadPayload, ReadPayloadBytes, ReadClosing,
     ReadClosePosted, ReadCloseSent, TornDown, ReadUpcall, history

\* Every step keeps TimeInv
LEMMA NextTime ==
  ASSUME ~CtrlCb, ~KeepAlive, Base, CloseInv, PlaceInv, TimeInv, [Next]_vars
  PROVE  TimeInv'
<1>1. (~Alive => ~Alive') /\ LockInv /\ (expired => ~Alive)
  BY NextAlive DEF CloseInv, Base, TimeInv
<1>2. CASE ~expired /\ ~expired'
  BY <1>2 DEF TimeInv
<1>3. CASE timeout_handler
  BY <1>3, TimesOut
<1>4. CASE Application
  BY <1>4, CallsKeepTime
<1>5. CASE \/ TimerExpires \/ PeerSends \/ PeerCloses
           \/ \E o \in Ops, r \in {"ok", "err"} : IoCompletes(o, r)
           \/ UNCHANGED vars
  <2>1. UNCHANGED <<pc, ec, status, timed_out, told, cut, expired>>
    BY <1>5 DEF TimerExpires, PeerSends, PeerCloses, IoCompletes, vars, session, history
  <2> QED
    BY <2>1 DEF TimeInv, Alive, TimeoutTold
<1>6. CASE ReadStep
  <2>1. CASE expired
    <3>1. "rd" \in Ops
      BY DEF Ops
    <3> QED
      BY <1>1, <1>6, <2>1, <3>1, ReadSteps, ReadAnswers, AnswersKeeps
  <2>2. CASE ~expired
    <3>1. expired' = expired
      BY <1>6, ReadExpires
    <3> QED
      BY <1>2, <2>2, <3>1
  <2> QED
    BY <2>1, <2>2
<1>7. CASE CloseStep
  <2>1. CASE expired
    <3>1. "close" \in Ops
      BY DEF Ops
    <3> QED
      BY <1>1, <1>7, <2>1, <3>1, CloseSteps, CloseAnswers, AnswersKeeps
  <2>2. CASE ~expired
    <3>1. expired' = expired
      BY <1>7 DEF CloseStep, CloseBegin, ClosePosted, CloseSent, CloseGotReadBlock, CloseDrain,
         CloseReceived, TornDown, CloseUpcall, history
    <3> QED
      BY <1>2, <2>2, <3>1
  <2> QED
    BY <2>1, <2>2
<1>8. ASSUME NEW o \in Simple, SimpleStep(o) \/ (o = "wr" /\ FrameSent)
      PROVE  TimeInv'
  <2>1. CASE expired
    <3>1. PICK n \in Ops \cup {None} : Steps(o, n, None)
      BY <1>1, <1>8, SimpleFacts, SimpleLone, SimpleUpcallSteps, FrameSentSteps, LoneSteps
         DEF SimpleStep
    <3> QED
      BY <1>1, <1>8, <2>1, <3>1, SimpleFacts, SimpleAnswers, AnswersKeeps
  <2>2. CASE ~expired
    <3>1. expired' = expired
      BY <1>8 DEF SimpleStep, SimpleBegin, SimplePosted, PingSent, SimpleUpcall, FrameSent,
         history
    <3> QED
      BY <1>2, <2>2, <3>1
  <2> QED
    BY <2>1, <2>2
<1> QED
  BY <1>3, <1>4, <1>5, <1>6, <1>7, <1>8 DEF Next, Handlers, WriteStep, Simple

\* At first nobody is cut off
LEMMA InitTime == Init => PlaceInv /\ TimeInv
  BY DEF Init, PlaceInv, TimeInv, Ops

\* A timeout is not lost: once the operations that the idle limit has cut off have
\* completed, one of them, or one started after it, was told error::timeout.
\* Without idle pings, which have nobody to tell, and without a control callback.
THEOREM TimeoutIsTold ==
  ASSUME ~CtrlCb, ~KeepAlive PROVE Spec => []TimeoutReported
<1>1. Base /\ CloseInv /\ PlaceInv /\ TimeInv /\ [Next]_vars => PlaceInv' /\ TimeInv'
  BY NextPlaces, NextTime DEF Base
<1>2. TimeInv => TimeoutReported
  BY DEF TimeInv, TimeoutReported, TimeoutTold
<1> QED
  BY <1>1, <1>2, InitTime, FlagsInvariant, BaseHolds, PTL DEF Spec
=============================================================================
