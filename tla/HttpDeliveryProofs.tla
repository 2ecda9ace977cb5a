-------------------------- MODULE HttpDeliveryProofs --------------------------
(* What the reader of an HTTP stream gets is what the sender has put on it.

   ReadInv says at every moment which symbols of which message are behind the parser,
   in its buffer and on the wire, and what the parser has understood of those behind
   it: in the header, in a body of known length, in a body up to the end of the
   stream, in each part of a chunk.  A parser that waits has less in front of it than
   it needs (NothingIsWaitedFor); a parser that is done has taken the message to its
   last octet (BytesAreAgreed); and what the application is told is what HttpPipe
   says (ExchangeImplementsPipe).                                                   *)
EXTENDS HttpProofs

-----------------------------------------------------------------------------
(* The reader has what was sent, and has understood what it has read *)

\* The message the reader is at, and how far it has come in it
Reading == IF rop.pc = "idle" /\ (Done(par) \/ Stopped) THEN Len(received) ELSE Len(received) + 1
Was == script[Reading]
Taken == MessageEnd(Reading - 1) + taken
Got == taken + (IF rop.pc = "field" THEN rop.q ELSE rop.p)

ScriptInv ==
  /\ \A k \in 1 .. at - 1 : ~NeedEof(script[k], IsRequest)
  /\ Reading \in 1 .. Len(script) + 1
WireInv ==
  /\ Taken + Len(buf) + Len(wire) = Written
  /\ \A i \in 1 .. Len(buf) : buf[i] = SymbolAt(Taken + i)
  /\ \A i \in 1 .. Len(wire) : wire[i] = SymbolAt(Taken + Len(buf) + i)

Errors == {"header_limit", "body_limit", "buffer_overflow", "partial_message", "end_of_stream"}
Fine == ~Stopped /\ rop.ec \notin Errors
EofStates == {"body_to_eof0", "body_to_eof"}

Flags(m) == IF m.framing = "none" THEN {} ELSE {m.framing}

\* The state of the parser p with g symbols of m behind it, and the b octets of the
\* body among them
InHeader(p, m, g, b) ==
  /\ b = 0 /\ p.limit = BodyLimit
  /\ p.skip # 0 => p.skip + 4 <= HeaderEnd(m) - g /\ p.skip + 4 <= HeaderLimit
  /\ p.s \in {"nothing_yet", "start_line"} => g = 0 /\ p.f = {} /\ p.len = 0
  /\ p.s = "fields" =>
       /\ g \in {3, Folds(m), HeaderEnd(m) - 2} /\ p.bodiless = m.bodiless
       /\ p.f = IF g = HeaderEnd(m) - 2 THEN Flags(m) ELSE {}
       /\ p.len = IF g = HeaderEnd(m) - 2 /\ m.framing = "length" THEN m.length ELSE 0

InBody(p, m, g, b) ==
  /\ p.s \in {"body0", "body"} =>
       /\ m.framing = "length" /\ "length" \in p.f /\ p.len >= 1 /\ Total(m) <= BodyLimit
       /\ b + p.len = Total(m) /\ g = HeaderEnd(m) + b
  /\ p.s \in EofStates =>
       /\ NeedEof(m, IsRequest) /\ p.f = {"has_body", "need_eof"}
       /\ g = HeaderEnd(m) + b

InChunks(p, m, g, b) ==
  /\ m.framing = "chunked" /\ "chunked" \in p.f /\ p.limit >= 0
  /\ p.s = "chunk_header0" => Start(p) = 0
  /\ p.s \in {"chunk_header0", "chunk_header"} =>
       \E j \in 0 .. Len(m.sizes) :
         /\ g + Start(p) = PieceEnd(m, j) /\ (Start(p) = 0) = (j = 0)
         /\ b = Before(m, j) /\ p.limit = BodyLimit - Before(m, j)
         /\ "final" \in p.f => j = Len(m.sizes)
  /\ p.s = "chunk_body" =>
       \E j \in 1 .. Len(m.sizes) :
         /\ p.len \in 1 .. m.sizes[j] /\ g + p.len + 2 = PieceEnd(m, j)
         /\ b + p.len = Before(m, j) /\ p.limit = BodyLimit - Before(m, j)

AtTheEnd(p, m, g, b) ==
  IF NeedEof(m, IsRequest) THEN "need_eof" \in p.f
  ELSE g = Size(m) /\ b = Total(m) /\ "need_eof" \notin p.f /\ Total(m) <= BodyLimit

ParserAt(p, m, g, b) ==
  /\ p.s \notin {"nothing_yet", "start_line"} => p.bodiless = m.bodiless
  /\ p.s \notin EofStates \cup {"complete"} => "need_eof" \notin p.f
  /\ p.s \in HeaderStates => InHeader(p, m, g, b)
  /\ p.s \in BodyStates => ~m.bodiless /\ InBody(p, m, g, b)
  /\ p.s \in {"chunk_header0", "chunk_header", "chunk_body"} => InChunks(p, m, g, b)
  /\ p.s = "complete" => AtTheEnd(p, m, g, b)

\* What the parser has to see before it can go on
Needs(p, m, g) ==
  CASE p.s \in HeaderStates -> HeaderEnd(m) - g
    [] p.s \in {"chunk_header0", "chunk_header"} -> Start(p) + TailLen(m)
    [] OTHER -> 1

Reports == [ec : ReadCodes, bodiless : BOOLEAN, body : Texts]
ReadOpInv ==
  /\ received \in Seq(Reports) /\ taken \in Nat /\ body \in Texts
  /\ rop.ec \in {"", "need_more", "need_buffer"} \cup Errors
  /\ rop.ec = "need_more" => rop.pc \in {"ret", "read"}
  /\ rop.ec \in Errors \cup {"need_buffer"} => rop.pc \in {"ret", "told"}
  /\ rop.ec = "need_buffer" => ~Done(par)
  /\ Stopped => rop.pc = "idle"
  /\ rop.pc = "put" => rop.p < Len(buf)
  /\ rop.pc = "field" => /\ rop.n = Len(buf) - rop.p
                         /\ rop.last = rop.p + Least(HeaderLimit, Len(buf) - rop.p)

UnderstoodInv ==
  Fine /\ Reading <= Len(script) =>
    /\ ParserAt(par, Was, Got, Len(body))
    /\ how.body = "string" /\ par.s \in EofStates => par.limit = BodyLimit - Len(body)
    /\ par.s = "complete" /\ NeedEof(Was, IsRequest) => closed /\ wire = <<>> /\ buf = <<>>
    /\ rop.pc = "read" \/ rop.ec = "need_more" => Len(Rest) < Needs(par, Was, Got)
    /\ rop.pc = "trailer" => /\ rop.last = rop.p + Start(par) + TailLen(Was)
                             /\ rop.q \in {rop.p + Start(par) + 3, rop.last - 2}

AtEndInv ==
  Reading = Len(script) + 1 => par = NewParser /\ taken = 0 /\ body = <<>>

BodyInv ==
  Reading <= Len(script) =>
    /\ Len(body) <= Total(Was)
    /\ \A i \in 1 .. Len(body) : body[i] = Sym("octet", i)

\* A message is refused only for a limit that it exceeds
RefusalInv ==
  /\ rop.ec = "header_limit" => Reading <= Len(script) /\ HeaderLimit < HeaderEnd(Was)
  /\ rop.ec = "body_limit" =>
       Reading <= Len(script) /\ (BodyLimit < Total(Was) \/ (NeedEof(Was, IsRequest) /\ how.body # "string"))
  /\ rop.ec = "buffer_overflow" =>
       /\ Reading <= Len(script)
       /\ MaxBuffer < HeaderEnd(Was) \/ MaxBuffer < 2 + TailLen(Was)
  /\ rop.ec \in {"partial_message", "end_of_stream"} => closed /\ wire = <<>>
  /\ rop.ec = "partial_message" => Reading <= Len(script) /\ Reading = at

-----------------------------------------------------------------------------
(* The stream *)

LEMMA Bound == \A a, b, c \in Nat : a + b = c => a <= c
  OBVIOUS

\* The sender never writes past the end of the message
LEMMA SentBound ==
  ASSUME SendInv
  PROVE  /\ script \in Seq(Messages) /\ at \in 1 .. Len(script) /\ Msg \in Messages
         /\ Sent \in Nat /\ Len(ser.view) \in Nat
         /\ Sent <= Size(Msg) /\ (ser.s = "complete" => Sent = Size(Msg))
<1>1. /\ SenderTypes /\ HeaderInv /\ Fits(Msg) /\ OpInv /\ SerAt(ser, Pending, Sent)
      /\ ser \in Sers /\ Serializes(ser) /\ wop \in WriteOps
      /\ Stretch(Msg, ser.view, Sent, ShownTo(ser, Pending))
  BY SentIs
<1>2. Msg \in Messages /\ script \in Seq(Messages) /\ at \in 1 .. Len(script)
  BY <1>1, MsgType DEF SenderTypes
<1>3. Sent \in Nat /\ Len(ser.view) \in Nat /\ Sent + Len(ser.view) = ShownTo(ser, Pending)
  BY <1>1, LenProperties DEF Stretch, Texts
<1> DEFINE N == Len(Msg.sizes)
<1>4. /\ N \in Nat /\ HeaderEnd(Msg) \in Nat /\ TailLen(Msg) \in {0, 5, 8}
      /\ \A j \in 0 .. N : PieceEnd(Msg, j) \in Nat /\ HeaderEnd(Msg) <= PieceEnd(Msg, j)
  BY <1>2, EndsAre
<1>5. \A j \in 0 .. N : PieceEnd(Msg, j) <= BodyEnd(Msg)
  <2> TAKE j \in 0 .. N
  <2>1. N \in j .. N
    BY <1>4
  <2> QED
    BY <1>2, <2>1, EndsGrow DEF BodyEnd
<1>6. /\ BodyEnd(Msg) \in Nat /\ HeaderEnd(Msg) <= BodyEnd(Msg)
      /\ Size(Msg) = BodyEnd(Msg) + TailLen(Msg)
  <2>1. N \in 0 .. N
    BY <1>4
  <2> QED
    BY <1>4, <2>1 DEF BodyEnd, Size
<1>7. /\ Size(Msg) \in Nat /\ BodyEnd(Msg) <= Size(Msg) /\ HeaderEnd(Msg) <= Size(Msg)
  BY <1>4, <1>6
<1>8. ShownTo(ser, Pending) \in Nat /\ ShownTo(ser, Pending) <= Size(Msg)
  <2>1. CASE ser.s \in {"construct", "init"}
    BY <1>7, <2>1 DEF ShownTo
  <2>2. CASE ser.s = "header_only"
    BY <1>4, <1>7, <2>2 DEF ShownTo
  <2>3. CASE ser.s \in {"header", "body", "body1", "body2"}
    <3>1. Given(ser, Pending) \in 0 .. N
      BY <1>1, <2>3 DEF SerAt
    <3>2. ShownTo(ser, Pending) = PieceEnd(Msg, Given(ser, Pending))
      BY <2>3 DEF ShownTo
    <3>3. PieceEnd(Msg, Given(ser, Pending)) \in Nat /\ PieceEnd(Msg, Given(ser, Pending)) <= BodyEnd(Msg)
      BY <1>4, <1>5, <3>1
    <3> QED
      BY <1>6, <1>7, <3>2, <3>3
  <2>4. CASE ser.s = "final"
    BY <1>6, <1>7, <2>4 DEF ShownTo
  <2>5. CASE ser.s \notin {"construct", "init", "header_only", "header", "body", "body1", "body2", "final"}
    <3>1. ShownTo(ser, Pending) = Size(Msg)
      BY <2>5 DEF ShownTo
    <3> QED
      BY <1>7, <3>1
  <2> QED
    BY <2>1, <2>2, <2>3, <2>4, <2>5
<1>9. Sent <= Size(Msg)
  <2>1. Sent <= ShownTo(ser, Pending)
    BY <1>3, <1>8, Bound
  <2> QED
    BY <1>3, <1>7, <1>8, <2>1
<1>10. ser.s = "complete" => Sent = Size(Msg)
  <2>1. ser.s = "complete" => ser.view = <<>> /\ ShownTo(ser, Pending) = Size(Msg)
    BY <1>1 DEF Serializes, Quiet, ShownTo
  <2>2. ser.s = "complete" => Sent + 0 = Size(Msg)
    BY <1>3, <2>1, EmptyText
  <2> QED
    BY <1>3, <2>2, Nought
<1> QED
  BY <1>2, <1>3, <1>9, <1>10

\* What a step of the sender adds to the stream
Adds(d) ==
  /\ d \in Texts /\ wire' = wire \o d
  /\ Written \in Nat /\ Written' = Written + Len(d)
  /\ \A i \in 1 .. Len(d) : d[i] = SymbolAt(Written + i)

\* What stands in the message stands in the script
LEMMA StretchAdds ==
  ASSUME SendInv, SendInv', UNCHANGED <<script, at>>, NEW d, wire' = wire \o d,
         Stretch(Msg, d, Sent, wrote' + wop'.n)
  PROVE  Adds(d)
<1>1. /\ script \in Seq(Messages) /\ at \in 1 .. Len(script) /\ Msg \in Messages
      /\ Sent \in Nat
  BY SentBound
<1>2. Sent' <= Size(Msg) /\ Sent' = wrote' + wop'.n
  <2>1. (Sent <= Size(Msg))'
    BY SentBound, PTL
  <2>2. Msg' = Msg /\ Size(Msg)' = Size(Msg)
    BY DEF Msg, Size, BodyEnd, PieceEnd, HeaderEnd, TailLen, Folds
  <2> QED
    BY <2>1, <2>2 DEF Sent
<1>3. /\ d \in Texts /\ Sent + Len(d) = Sent' /\ Len(d) \in Nat
      /\ \A i \in 1 .. Len(d) : d[i] = SymbolOf(Msg, Sent + i)
  <2>1. d \in Texts /\ Sent + Len(d) = wrote' + wop'.n /\ \A i \in 1 .. Len(d) : d[i] = SymbolOf(Msg, Sent + i)
    BY DEF Stretch
  <2> QED
    BY <1>2, <2>1, LenProperties DEF Texts
<1>4. /\ MessageEnd(at - 1) \in Nat /\ Size(Msg) \in Nat /\ Msg = script[at]
      /\ at - 1 \in 0 .. Len(script)
  <2>1. /\ Len(script) \in Nat
        /\ \A k \in 1 .. Len(script) : Size(script[k]) \in Nat
        /\ \A k \in 0 .. Len(script) : MessageEnd(k) \in Nat
    BY <1>1, MessagesEnd
  <2>2. at - 1 \in 0 .. Len(script)
    BY <1>1, <2>1
  <2> QED
    BY <1>1, <2>1, <2>2 DEF Msg
<1> DEFINE e == MessageEnd(at - 1)
<1>5. e' = e
  <2>1. MessageEnd(at - 1)' = MessageEnd(at - 1)
    BY ScriptStays
  <2> QED
    BY <2>1
<1>6. Written = e + Sent /\ Written' = e + Sent'
  BY <1>5 DEF Written
<1> HIDE DEF e
<1>7. Written \in Nat /\ Written' = Written + Len(d)
  <2>1. e \in Nat
    BY <1>4 DEF e
  <2> QED
    BY <1>1, <1>3, <1>6, <2>1
<1>8. ASSUME NEW i \in 1 .. Len(d) PROVE d[i] = SymbolAt(Written + i)
  <2>1. Sent + i \in 1 .. Size(Msg) /\ e + (Sent + i) = Written + i
    <3>1. e \in Nat /\ Sent \in Nat /\ Size(Msg) \in Nat /\ Sent' <= Size(Msg) /\ Len(d) \in Nat
          /\ Sent + Len(d) = Sent' /\ Written = e + Sent
      BY <1>1, <1>2, <1>3, <1>4, <1>6 DEF e
    <3> QED
      BY <3>1
  <2>2. SymbolAt(MessageEnd(at - 1) + (Sent + i)) = SymbolOf(script[at], Sent + i)
    BY <1>1, <1>4, <2>1, MessageSymbol
  <2> QED
    BY <1>3, <1>4, <2>1, <2>2 DEF e
<1> QED
  BY <1>3, <1>7, <1>8 DEF Adds

LEMMA NothingSent ==
  ASSUME SendInv, wire \in Texts, wire' = wire, Sent = wrote' + wop'.n
  PROVE  <<>> \in Texts /\ ChunkSent(<<>>)
<1>1. wire \o <<>> = wire
  BY ConcatEmptySeq DEF Texts
<1>2. Stretch(Msg, <<>>, Sent, Sent)
  BY SentBound, EmptyStretch
<1> QED
  BY <1>1, <1>2, EmptyText DEF ChunkSent

\* What the sender writes continues the message where it stopped
LEMMA SenderWrites ==
  ASSUME SendInv, wire \in Texts, Sender, ~NextMessage
  PROVE  UNCHANGED <<script, at>> /\ \E d \in Texts : ChunkSent(d)
<1>1. /\ SenderTypes /\ HeaderInv /\ Fits(Msg) /\ OpInv /\ SerAt(ser, Pending, Sent)
      /\ ser \in Sers /\ Serializes(ser) /\ wop \in WriteOps
  BY SentIs
<1>2. wrote \in Nat /\ wop.n \in Nat
  BY <1>1 DEF OpInv, WriteOps
<1>3. ASSUME WriteResumes(0, wop.ec) \/ WriteResumes(0, "error"), UNCHANGED <<wrote, wire>>
      PROVE  \E d \in Texts : ChunkSent(d)
  <2>1. wop'.n = wop.n + 0
    BY <1>1, <1>3 DEF WriteResumes, WriteOps
  <2>2. wop'.n = wop.n
    BY <1>2, <2>1, Nought
  <2> QED
    BY <1>3, <2>2, NothingSent DEF Sent
<1>4. CASE StartWrite
  <2>1. wop.pc = "idle" /\ wop'.n = 0 /\ UNCHANGED <<script, at, wrote, wire>>
    BY <1>4 DEF StartWrite
  <2>2. wop.n = 0
    <3>1. wop = IdleOp
      BY <1>1, <2>1, IdleIs
    <3> QED
      BY <3>1 DEF IdleOp
  <2> QED
    BY <2>1, <2>2, NothingSent DEF Sent
<1>5. CASE WriteNext
  <2>1. UNCHANGED <<script, at, wrote, wire>>
    BY <1>5 DEF WriteNext
  <2>2. wop'.n = wop.n
    BY <1>1, <1>5 DEF WriteNext, WriteOps
  <2> QED
    BY <2>1, <2>2, NothingSent DEF Sent
<1>6. CASE WriteIo
  <2>1. Len(ser.view) \in Nat /\ Stretch(Msg, ser.view, Sent, ShownTo(ser, Pending))
    BY <1>1, LenProperties DEF SerAt, Stretch, Texts
  <2> DEFINE most == IF Len(ser.view) < Limit THEN Len(ser.view) ELSE Limit
  <2>2. PICK n \in (IF most = 0 THEN {0} ELSE 1 .. most) :
          WriteResumes(n, "") /\ wire' = wire \o SubSeq(ser.view, 1, n)
    BY <1>6 DEF WriteIo
  <2>3. n \in Nat /\ n \in 0 .. Len(ser.view)
    <3>1. Limit \in Nat
      BY ConstantsAssumption DEF ConstantsAssumption
    <3>2. most \in Nat /\ most <= Len(ser.view)
      BY <2>1, <3>1
    <3>3. n \in IF most = 0 THEN {0} ELSE 1 .. most
      BY <2>2
    <3> HIDE DEF most
    <3>4. CASE most = 0
      BY <2>1, <3>2, <3>3, <3>4
    <3>5. CASE most # 0
      <4>1. n \in 1 .. most
        BY <3>3, <3>5
      <4> QED
        BY <2>1, <3>2, <4>1
    <3> QED
      BY <3>4, <3>5
  <2>4. wop'.n = wop.n + n
    BY <1>1, <2>2 DEF WriteResumes, WriteOps
  <2>5. UNCHANGED <<script, at, wrote>>
    BY <1>6 DEF WriteIo
  <2>6. Sent + n = wrote' + wop'.n
    BY <1>2, <2>3, <2>4, <2>5, Counting DEF Sent
  <2>7. Stretch(Msg, SubSeq(ser.view, 1, n), Sent, Sent + n)
    BY <2>1, <2>3, CutStretch
  <2>8. SubSeq(ser.view, 1, n) \in Texts
    BY <2>7 DEF Stretch
  <2> QED
    BY <2>2, <2>5, <2>6, <2>7, <2>8 DEF ChunkSent
<1>7. CASE WriteFails \/ WritePosted
  BY <1>3, <1>7 DEF WriteFails, WritePosted
<1>8. CASE WriteTold
  <2>1. wrote' = wrote + wop.n /\ wop' = IdleOp /\ UNCHANGED <<script, at, wire>>
    BY <1>8 DEF WriteTold
  <2>2. wop'.n = 0
    BY <2>1 DEF IdleOp
  <2>3. Sent = wrote' + wop'.n
    BY <1>2, <2>1, <2>2, Nought DEF Sent
  <2> QED
    BY <2>1, <2>3, NothingSent
<1>9. CASE WriteChunks
  BY <1>9, WriteChunksSends DEF WriteChunks
<1>10. CASE CloseStream
  <2>1. UNCHANGED <<script, at, wrote, wire, wop>>
    BY <1>10 DEF CloseStream
  <2> QED
    BY <2>1, NothingSent DEF Sent
<1> QED
  BY <1>4, <1>5, <1>6, <1>7, <1>8, <1>9, <1>10 DEF Sender, SerStep

\* The next message begins where the one before it ends
LEMMA NextMessageAdds ==
  ASSUME SendInv, NextMessage, wire \in Texts
  PROVE  /\ Adds(<<>>) /\ script' = script /\ at' = at + 1
         /\ ~NeedEof(Msg, IsRequest) /\ ~closed
<1>1. /\ script \in Seq(Messages) /\ at \in 1 .. Len(script) /\ Sent \in Nat
      /\ (ser.s = "complete" => Sent = Size(Msg)) /\ SenderTypes
  BY SentBound, SentIs
<1>2. /\ script' = script /\ at' = at + 1 /\ wrote' = 0 /\ wop' = wop /\ wire' = wire
      /\ wop.pc = "idle" /\ ser.s = "complete" /\ ~NeedEof(Msg, IsRequest) /\ ~closed
  BY DEF NextMessage
<1>3. wop'.n = 0 /\ 0 + 0 = 0
  <2>1. wop = IdleOp
    BY <1>1, <1>2, IdleIs
  <2>2. IdleOp.n = 0
    BY DEF IdleOp
  <2>3. 0 + 0 = 0
    OBVIOUS
  <2> QED
    BY <1>2, <2>1, <2>2, <2>3
<1>4. Sent' = 0
  BY <1>2, <1>3 DEF Sent
<1>5. /\ Len(script) \in Nat /\ MessageEnd(at) = MessageEnd(at - 1) + Size(Msg)
      /\ MessageEnd(at) \in Nat /\ at' - 1 = at
  <2>1. /\ Len(script) \in Nat
        /\ \A k \in 1 .. Len(script) : MessageEnd(k) = MessageEnd(k - 1) + Size(script[k])
        /\ \A k \in 0 .. Len(script) : MessageEnd(k) \in Nat
    BY <1>1, MessagesEnd
  <2>2. at \in 0 .. Len(script) /\ at' - 1 = at
    BY <1>1, <1>2, <2>1
  <2> QED
    BY <1>1, <2>1, <2>2 DEF Msg
<1>6. Written = MessageEnd(at)
  BY <1>1, <1>2, <1>5 DEF Written
<1>7. MessageEnd(at - 1)' = MessageEnd(at)
  <2>1. Lengths' = Lengths
    BY <1>2 DEF Lengths, Size, BodyEnd, PieceEnd, HeaderEnd, TailLen, Folds
  <2> QED
    BY <1>5, <2>1 DEF MessageEnd
<1>8. Written' = MessageEnd(at) + 0
  BY <1>4, <1>7 DEF Written
<1>9. wire \o <<>> = wire /\ \A i \in 1 .. 0 : FALSE
  BY ConcatEmptySeq DEF Texts
<1> QED
  BY <1>2, <1>5, <1>6, <1>8, <1>9, EmptyText DEF Adds

LEMMA SenderAdds ==
  ASSUME FitScripts, SendInv, SendInv', wire \in Texts, Sender
  PROVE  \E d : Adds(d)
<1>1. CASE NextMessage
  BY <1>1, NextMessageAdds
<1>2. CASE ~NextMessage
  <2>1. UNCHANGED <<script, at>> /\ \E d \in Texts : ChunkSent(d)
    BY <1>2, SenderWrites
  <2> QED
    BY <2>1, StretchAdds DEF ChunkSent
<1> QED
  BY <1>1, <1>2

ReadInv ==
  /\ SendInv /\ ReaderInv /\ ScriptInv /\ WireInv
  /\ ReadOpInv /\ UnderstoodInv /\ AtEndInv /\ BodyInv /\ RefusalInv

\* The sender takes no step once it has closed
LEMMA ClosedStops ==
  ASSUME SendInv, Sender
  PROVE  ~closed
<1>1. closed => wop.pc = "idle"
  BY DEF SendInv, OpInv
<1> QED
  BY <1>1 DEF Sender, SerStep, StartWrite, WriteNext, WriteIo, WriteFails, WritePosted, WriteTold,
                  WriteChunks, NextMessage, CloseStream

LEMMA Beyond ==
  ASSUME NEW a \in Nat, NEW b \in Nat, NEW i \in 1 .. a + b, ~(i <= a)
  PROVE  i - a \in 1 .. b /\ (\A c \in Nat : (c + a) + (i - a) = c + i)
  OBVIOUS

\* What is added to the stream is the next part of the script
LEMMA AddedDelivers ==
  ASSUME SendInv, WireInv, buf \in Texts, wire \in Texts, Taken \in Nat, NEW d, Adds(d),
         script' = script, buf' = buf, Taken' = Taken
  PROVE  WireInv'
<1>1. /\ d \in Texts /\ wire' = wire \o d /\ Written \in Nat /\ Written' = Written + Len(d)
      /\ \A i \in 1 .. Len(d) : d[i] = SymbolAt(Written + i)
  BY DEF Adds
<1>2. /\ Len(wire) \in Nat /\ Len(d) \in Nat /\ Len(buf) \in Nat
      /\ Len(wire') = Len(wire) + Len(d)
      /\ \A i \in 1 .. Len(wire) + Len(d) : wire'[i] = IF i <= Len(wire) THEN wire[i] ELSE d[i - Len(wire)]
  BY <1>1, ConcatProperties, LenProperties DEF Texts
<1>3. Taken + Len(buf) + Len(wire) = Written
  BY DEF WireInv
<1>4. Taken' + Len(buf') + Len(wire') = Written'
  <2> DEFINE x == Taken  y == Len(buf)  z == Len(wire)  n == Len(d)
  <2>1. x + y + z = Written /\ x \in Nat /\ y \in Nat /\ z \in Nat /\ n \in Nat
    BY <1>2, <1>3
  <2> HIDE DEF x, y, z, n
  <2>2. x + y + (z + n) = Written + n
    BY <2>1
  <2> QED
    BY <1>1, <1>2, <2>2 DEF x, y, z, n
<1>5. \A p : SymbolAt(p)' = SymbolAt(p)
  BY ScriptStays
<1>6. ASSUME NEW i \in 1 .. Len(wire) + Len(d)
      PROVE  wire'[i] = SymbolAt(Taken + Len(buf) + i)
  <2>1. CASE i <= Len(wire)
    <3>1. i \in 1 .. Len(wire) /\ wire'[i] = wire[i]
      BY <1>2, <2>1
    <3> QED
      BY <3>1 DEF WireInv
  <2>2. CASE ~(i <= Len(wire))
    <3> DEFINE k == i - Len(wire)
    <3>1. Taken + Len(buf) \in Nat
      BY <1>2
    <3>2. k \in 1 .. Len(d) /\ (Taken + Len(buf) + Len(wire)) + k = Taken + Len(buf) + i
      BY <1>2, <2>2, <3>1, Beyond
    <3>3. wire'[i] = d[k]
      BY <1>2, <2>2
    <3> HIDE DEF k
    <3>4. wire'[i] = SymbolAt(Written + k) /\ Written + k = Taken + Len(buf) + i
      BY <1>1, <1>3, <3>2, <3>3
    <3> QED
      BY <3>4
  <2> QED
    BY <2>1, <2>2
<1> QED
  BY <1>2, <1>4, <1>5, <1>6 DEF WireInv

LEMMA ReaderIs ==
  ASSUME ReadInv
  PROVE  /\ SenderTypes /\ script \in Seq(Messages) /\ Len(script) \in Nat /\ at \in 1 .. Len(script)
         /\ buf \in Texts /\ wire \in Texts /\ body \in Texts
         /\ Len(buf) \in Nat /\ Len(wire) \in Nat /\ Len(body) \in Nat /\ taken \in Nat
         /\ rop \in ReadOps /\ par \in Parsers /\ rop.p \in Nat /\ rop.p <= Len(buf)
         /\ received \in Seq(Reports) /\ Len(received) \in Nat
         /\ Reading \in 1 .. Len(script) + 1
<1>1. SenderTypes /\ ReaderInv /\ ReadOpInv /\ ScriptInv
  BY SentIs DEF ReadInv
<1>2. script \in Seq(Messages) /\ at \in 1 .. Len(script)
  BY SentBound DEF ReadInv
<1>3. Len(script) \in Nat
  BY <1>2, LenProperties
<1>4. buf \in Texts /\ wire \in Texts /\ Len(buf) \in Nat /\ Len(wire) \in Nat
  BY <1>1, Buffered DEF ReaderInv, Texts
<1>5. body \in Texts /\ taken \in Nat /\ received \in Seq(Reports)
  BY <1>1 DEF ReadOpInv
<1>6. Len(body) \in Nat /\ Len(received) \in Nat
  BY <1>5, LenProperties DEF Texts
<1>7. rop \in ReadOps /\ par \in Parsers /\ rop.p \in Nat /\ rop.p <= Len(buf)
  BY <1>1 DEF ReaderInv, Reads, Parses, ReadOps
<1>8. Reading \in 1 .. Len(script) + 1
  BY <1>1 DEF ScriptInv
<1> QED
  BY <1>1, <1>2, <1>3, <1>4, <1>5, <1>6, <1>7, <1>8

LEMMA TakenIs ==
  ASSUME ReadInv
  PROVE  MessageEnd(Reading - 1) \in Nat /\ Taken \in Nat
<1>1. script \in Seq(Messages) /\ Len(script) \in Nat /\ Reading \in 1 .. Len(script) + 1 /\ taken \in Nat
  BY ReaderIs
<1>2. Reading - 1 \in 0 .. Len(script)
  BY <1>1
<1>3. MessageEnd(Reading - 1) \in Nat
  BY <1>1, <1>2, MessagesEnd
<1> QED
  BY <1>1, <1>3, Nought DEF Taken

\* The reader is where it was while the sender goes on
LEMMA SenderReads ==
  ASSUME FitScripts, ReadInv, SendInv', ReaderInv', Sender, UNCHANGED parVars
  PROVE  ReadInv'
<1>1. UNCHANGED <<buf, par, rop, how, body, taken, received>>
  BY DEF parVars
<1>2. /\ SenderTypes /\ script \in Seq(Messages) /\ Len(script) \in Nat /\ at \in 1 .. Len(script)
      /\ buf \in Texts /\ wire \in Texts
  BY ReaderIs
<1>3. PICK d : Adds(d)
  BY <1>2, SenderAdds DEF ReadInv
<1>4. ~closed /\ SendInv /\ WireInv
  BY ClosedStops DEF ReadInv
<1>5. script' = script
  BY DEF Sender, SerStep, StartWrite, WriteNext, WriteIo, WriteFails, WritePosted, WriteTold,
         WriteChunks, NextMessage, CloseStream
<1>6. Reading' = Reading /\ Was' = Was /\ Stopped' = Stopped /\ Rest' = Rest /\ Got' = Got
  <2>1. Reading' = Reading
    BY <1>1 DEF Reading, Stopped, Done
  <2> QED
    BY <1>1, <1>5, <2>1 DEF Was, Stopped, Rest, Got
<1>7. Taken' = Taken
  <2>1. Lengths' = Lengths
    BY <1>5 DEF Lengths
  <2>2. MessageEnd(Reading - 1)' = MessageEnd(Reading - 1)
    BY <1>6, <2>1 DEF MessageEnd
  <2> QED
    BY <1>1, <2>2 DEF Taken
<1>8. WireInv'
  BY <1>1, <1>2, <1>3, <1>4, <1>5, <1>7, AddedDelivers, TakenIs
<1>9. ScriptInv'
  <2>1. (\A k \in 1 .. at - 1 : ~NeedEof(script[k], IsRequest)) /\ Reading \in 1 .. Len(script) + 1
    BY DEF ReadInv, ScriptInv
  <2>2. CASE NextMessage
    <3>1. at' = at + 1 /\ ~NeedEof(script[at], IsRequest)
      BY <1>2, <1>4, <2>2, NextMessageAdds DEF Msg
    <3>2. \A k \in 1 .. at' - 1 : k \in 1 .. at - 1 \/ k = at
      BY <1>2, <3>1
    <3>3. \A k \in 1 .. at' - 1 : ~NeedEof(script[k], IsRequest)
      BY <2>1, <3>1, <3>2
    <3> QED
      BY <1>5, <1>6, <2>1, <3>3 DEF ScriptInv, NeedEof
  <2>3. CASE ~NextMessage
    <3>1. at' = at
      BY <1>2, <1>4, <2>3, SenderWrites
    <3> QED
      BY <1>5, <1>6, <2>1, <3>1 DEF ScriptInv, NeedEof
  <2> QED
    BY <2>2, <2>3
<1>10. ReadOpInv'
  BY <1>1, <1>6 DEF ReadInv, ReadOpInv, Done
<1>11. UnderstoodInv'
  <2>1. Fine' = Fine
    BY <1>1, <1>6 DEF Fine
  <2>2. UnderstoodInv
    BY DEF ReadInv
  <2>3. Fine /\ Reading <= Len(script) => ~(par.s = "complete" /\ NeedEof(Was, IsRequest))
    BY <1>4, <2>2 DEF UnderstoodInv
  <2> QED
    BY <1>1, <1>5, <1>6, <2>1, <2>2, <2>3 DEF UnderstoodInv
<1>12. AtEndInv' /\ BodyInv'
  BY <1>1, <1>5, <1>6 DEF ReadInv, AtEndInv, BodyInv
<1>13. RefusalInv'
  <2>1. RefusalInv
    BY DEF ReadInv
  <2>2. rop.ec \notin {"partial_message", "end_of_stream"}
    BY <1>4, <2>1 DEF RefusalInv
  <2> QED
    BY <1>1, <1>5, <1>6, <2>1, <2>2 DEF RefusalInv
<1> QED
  BY <1>8, <1>9, <1>10, <1>11, <1>12, <1>13 DEF ReadInv

-----------------------------------------------------------------------------
(* The parser in the message that is read *)

Parsing == rop.pc \in {"put", "field", "trailer"}

\* r is what follows the first g symbols of m
InFront(m, g, r) ==
  /\ r \in Texts /\ Len(r) \in Nat /\ g \in Nat
  /\ \A i \in 1 .. Len(r) : g + i <= Size(m) => r[i] = SymbolOf(m, g + i)

\* No message follows one that goes on to the end of the stream
LEMMA LastIsCut ==
  ASSUME ReadInv, Reading <= Len(script), NeedEof(Was, IsRequest)
  PROVE  Reading \in 1 .. Len(script) /\ taken + Len(buf) <= Size(Was)
<1>1. /\ script \in Seq(Messages) /\ Len(script) \in Nat /\ at \in 1 .. Len(script)
      /\ Len(buf) \in Nat /\ Len(wire) \in Nat /\ taken \in Nat
      /\ Reading \in 1 .. Len(script) + 1
  BY ReaderIs
<1>2. Reading \in 1 .. Len(script)
  BY <1>1
<1>3. at <= Reading
  <2>1. ~(Reading \in 1 .. at - 1)
    BY DEF ReadInv, ScriptInv, Was
  <2> QED
    BY <1>1, <1>2, <2>1
<1>4. Sent \in Nat /\ Sent <= Size(Msg)
  BY SentBound DEF ReadInv
<1>5. /\ MessageEnd(at) = MessageEnd(at - 1) + Size(Msg) /\ MessageEnd(at - 1) \in Nat
      /\ MessageEnd(Reading) = MessageEnd(Reading - 1) + Size(Was) /\ MessageEnd(Reading - 1) \in Nat
      /\ Size(Was) \in Nat /\ Size(Msg) \in Nat
  <2>1. /\ \A k \in 1 .. Len(script) : /\ MessageEnd(k) = MessageEnd(k - 1) + Size(script[k])
                                       /\ Size(script[k]) \in Nat
        /\ \A k \in 0 .. Len(script) : MessageEnd(k) \in Nat
    BY <1>1, MessagesEnd
  <2>2. at - 1 \in 0 .. Len(script) /\ Reading - 1 \in 0 .. Len(script)
    BY <1>1, <1>2
  <2> QED
    BY <1>1, <1>2, <2>1, <2>2 DEF Msg, Was
<1>6. MessageEnd(at) <= MessageEnd(Reading)
  <2>1. at \in 0 .. Len(script) /\ Reading \in at .. Len(script)
    BY <1>1, <1>2, <1>3
  <2> QED
    BY <1>1, <2>1, MessagesGrow
<1>7. MessageEnd(Reading - 1) + taken + Len(buf) + Len(wire) = MessageEnd(at - 1) + Sent
  BY DEF ReadInv, WireInv, Taken, Written
<1>8. taken + Len(buf) <= Size(Was)
  <2> DEFINE a == MessageEnd(at - 1)  c == MessageEnd(Reading - 1)  s == Sent  n == Size(Msg)
             w == Size(Was)  x == Len(buf)  y == Len(wire)
  <2>1. /\ a \in Nat /\ c \in Nat /\ s \in Nat /\ n \in Nat /\ w \in Nat /\ x \in Nat /\ y \in Nat
        /\ taken \in Nat /\ c + taken + x + y = a + s /\ s <= n /\ a + n <= c + w
    BY <1>1, <1>4, <1>5, <1>6, <1>7
  <2> HIDE DEF a, c, s, n, w, x, y
  <2>2. taken + x <= w
    BY <2>1
  <2> QED
    BY <2>2 DEF x, w
<1> QED
  BY <1>2, <1>8

\* What is in the buffer stands in the message
LEMMA BufferIs ==
  ASSUME ReadInv, Reading <= Len(script), NEW q \in Nat, NEW e \in Nat, q <= e, e <= Len(buf)
  PROVE  InFront(Was, taken + q, SubSeq(buf, q + 1, e)) /\ Len(SubSeq(buf, q + 1, e)) = e - q
<1>1. /\ script \in Seq(Messages) /\ Len(script) \in Nat /\ taken \in Nat
      /\ buf \in Texts /\ Len(buf) \in Nat /\ Reading \in 1 .. Len(script) + 1
  BY ReaderIs
<1>2. Reading \in 1 .. Len(script) /\ MessageEnd(Reading - 1) \in Nat
  BY <1>1, TakenIs
<1> DEFINE r == SubSeq(buf, q + 1, e)
<1>3. r \in Texts /\ Len(r) = e - q /\ \A i \in 1 .. e - q : r[i] = buf[q + i]
  BY <1>1, SubSeqProperties DEF Texts
<1> HIDE DEF r
<1>4. ASSUME NEW i \in 1 .. e - q, (taken + q) + i <= Size(Was)
      PROVE  r[i] = SymbolOf(Was, (taken + q) + i)
  <2> DEFINE c == MessageEnd(Reading - 1)  j == (taken + q) + i
  <2>1. q + i \in 1 .. Len(buf) /\ j \in Nat /\ j # 0
    BY <1>1, <1>4
  <2>2. c + taken + (q + i) = c + j
    BY <1>1, <1>2
  <2>3. buf[q + i] = SymbolAt(Taken + (q + i))
    BY <2>1 DEF ReadInv, WireInv
  <2>4. j \in 1 .. Size(script[Reading])
    <3>1. Size(script[Reading]) \in Nat
      BY <1>1, <1>2, MessagesEnd
    <3> QED
      BY <1>4, <2>1, <3>1 DEF Was
  <2> HIDE DEF j
  <2>5. SymbolAt(c + j) = SymbolOf(Was, j)
    BY <1>1, <1>2, <2>4, MessageSymbol DEF Was
  <2> QED
    BY <1>3, <2>2, <2>3, <2>5 DEF Taken, j
<1>5. Len(r) \in Nat /\ taken + q \in Nat
  BY <1>1, <1>3
<1>6. InFront(Was, taken + q, r)
  BY <1>3, <1>4, <1>5 DEF InFront
<1> QED
  BY <1>3, <1>6 DEF r

\* What put has in front of it
Meets ==
  /\ Reading \in 1 .. Len(script) /\ Was \in Messages /\ Fits(Was) /\ rop.ec = "" /\ ~Stopped
  /\ ParserAt(par, Was, Got, Len(body))
  /\ how.body = "string" /\ par.s \in EofStates => par.limit = BodyLimit - Len(body)
  /\ InFront(Was, taken + rop.p, Rest) /\ Len(Rest) = Len(buf) - rop.p /\ Len(Rest) \in Nat
  /\ NeedEof(Was, IsRequest) => (taken + rop.p) + Len(Rest) <= Size(Was)
  /\ Len(body) <= Total(Was) /\ \A i \in 1 .. Len(body) : body[i] = Sym("octet", i)

LEMMA ParsingIs ==
  ASSUME ReadInv, Parsing
  PROVE  Meets
<1>1. /\ script \in Seq(Messages) /\ Len(script) \in Nat /\ taken \in Nat /\ SenderTypes
      /\ buf \in Texts /\ Len(buf) \in Nat /\ Reading \in 1 .. Len(script) + 1
      /\ rop.p \in Nat /\ rop.p <= Len(buf)
  BY ReaderIs
<1>2. rop.ec = "" /\ ~Stopped
  BY DEF ReadInv, ReadOpInv, Parsing
<1>3. Fine
  BY <1>2 DEF Fine, Errors
<1>4. Reading # Len(script) + 1
  <2> SUFFICES ASSUME Reading = Len(script) + 1 PROVE FALSE
    OBVIOUS
  <2>1. par = NewParser /\ taken = 0
    BY DEF ReadInv, AtEndInv
  <2>2. par.s = "nothing_yet"
    BY <2>1 DEF NewParser
  <2>3. rop.pc = "put" /\ rop.p < Len(buf)
    BY <2>2 DEF ReadInv, ReaderInv, Reads, ReadOpInv, Parsing
  <2>4. Taken = MessageEnd(Len(script)) /\ MessageEnd(Len(script)) \in Nat
    <3>1. Reading - 1 = Len(script) /\ Len(script) \in 0 .. Len(script)
      BY <1>1
    <3>2. MessageEnd(Len(script)) \in Nat
      BY <1>1, <3>1, MessagesEnd
    <3> QED
      BY <2>1, <3>1, <3>2, Nought DEF Taken
  <2>5. Written <= MessageEnd(Len(script)) /\ Written \in Nat
    <3>1. at \in 1 .. Len(script) /\ Sent \in Nat /\ Sent <= Size(Msg)
      BY SentBound DEF ReadInv
    <3>2. at \in 0 .. Len(script) /\ Len(script) \in at .. Len(script) /\ at - 1 \in 0 .. Len(script)
      BY <1>1, <3>1
    <3>3. MessageEnd(at) <= MessageEnd(Len(script))
      BY <1>1, <3>2, MessagesGrow
    <3>4. MessageEnd(at) = MessageEnd(at - 1) + Size(Msg) /\ MessageEnd(at - 1) \in Nat /\ Size(Msg) \in Nat
      <4>1. \A k \in 1 .. Len(script) : /\ MessageEnd(k) = MessageEnd(k - 1) + Size(script[k])
                                        /\ Size(script[k]) \in Nat
        BY <1>1, MessagesEnd
      <4>2. MessageEnd(at - 1) \in Nat
        BY <1>1, <3>2, MessagesEnd
      <4> QED
        BY <3>1, <4>1, <4>2 DEF Msg
    <3> DEFINE a == MessageEnd(at - 1)  e == MessageEnd(Len(script))  s == Sent  n == Size(Msg)
    <3>5. a \in Nat /\ e \in Nat /\ s \in Nat /\ n \in Nat /\ s <= n /\ a + n <= e
      BY <2>4, <3>1, <3>3, <3>4
    <3> HIDE DEF a, e, s, n
    <3>6. a + s <= e /\ a + s \in Nat
      BY <3>5
    <3> QED
      BY <3>6 DEF a, e, s, Written
  <2>6. Taken + Len(buf) + Len(wire) = Written
    BY DEF ReadInv, WireInv
  <2> DEFINE e == MessageEnd(Len(script))  w == Written  x == Len(buf)  y == Len(wire)
  <2>7. e \in Nat /\ w \in Nat /\ x \in Nat /\ y \in Nat /\ e + x + y = w /\ w <= e /\ rop.p < x
        /\ rop.p \in Nat
    <3>1. Len(wire) \in Nat
      BY ReaderIs
    <3> QED
      BY <1>1, <2>3, <2>4, <2>5, <2>6, <3>1
  <2> HIDE DEF e, w, x, y
  <2> QED
    BY <2>7
<1>5. Reading \in 1 .. Len(script) /\ Reading <= Len(script)
  BY <1>1, <1>4
<1>6. Was \in Messages /\ Fits(Was)
  <2>1. Was \in Messages
    BY <1>1, <1>5, MessagesEnd DEF Was
  <2> QED
    BY <1>5, <2>1 DEF Was, ReadInv, SendInv, FitInv
<1>7. /\ ParserAt(par, Was, Got, Len(body))
      /\ how.body = "string" /\ par.s \in EofStates => par.limit = BodyLimit - Len(body)
  BY <1>3, <1>5 DEF ReadInv, UnderstoodInv
<1>8. InFront(Was, taken + rop.p, Rest) /\ Len(Rest) = Len(buf) - rop.p
  <2>1. Len(buf) \in Nat /\ Len(buf) <= Len(buf)
    BY <1>1
  <2> QED
    BY <1>1, <1>5, <2>1, BufferIs DEF Rest
<1>9. Len(Rest) \in Nat
  BY <1>1, <1>8
<1>10. NeedEof(Was, IsRequest) => (taken + rop.p) + Len(Rest) <= Size(Was)
  <2> SUFFICES ASSUME NeedEof(Was, IsRequest) PROVE (taken + rop.p) + Len(Rest) <= Size(Was)
    OBVIOUS
  <2>1. taken + Len(buf) <= Size(Was)
    BY <1>5, LastIsCut
  <2>2. (taken + rop.p) + Len(Rest) = taken + Len(buf)
    BY <1>1, <1>8
  <2> QED
    BY <2>1, <2>2
<1>11. Len(body) <= Total(Was) /\ \A i \in 1 .. Len(body) : body[i] = Sym("octet", i)
  BY <1>5 DEF ReadInv, BodyInv
<1> QED
  BY <1>2, <1>5, <1>6, <1>7, <1>8, <1>9, <1>10, <1>11 DEF Meets

\* put leaves all but the parser, the operation and the body
Still == UNCHANGED <<serVars, buf, how, taken, received>>

\* The parser p at g has understood the message up to the b octets of its body
Understands(p, g, b) ==
  /\ ParserAt(p, Was, g, b)
  /\ how.body = "string" /\ p.s \in EofStates => p.limit = BodyLimit - b
  /\ p.s = "complete" => ~NeedEof(Was, IsRequest)

BodyIs(b) ==
  /\ b \in Texts /\ Len(b) <= Total(Was)
  /\ \A i \in 1 .. Len(b) : b[i] = Sym("octet", i)

Justified(ec) ==
  /\ ec = "header_limit" => HeaderLimit < HeaderEnd(Was)
  /\ ec = "body_limit" =>
       BodyLimit < Total(Was) \/ (NeedEof(Was, IsRequest) /\ how.body # "string")

Limits == {"header_limit", "body_limit"}
PutCodes == {"", "need_more", "need_buffer"} \cup Limits

\* What put may do next
Goes(pc, ec) ==
  /\ pc \in {"put", "field", "trailer", "ret"} /\ ec \in PutCodes
  /\ pc # "ret" => ec = ""

LEMMA PutsOn ==
  ASSUME ReadInv, SendInv', ReaderInv', Parsing, Still, Goes(rop'.pc, rop'.ec),
         rop'.pc = "put" => rop'.p < Len(buf),
         rop'.pc = "field" => /\ rop'.n = Len(buf) - rop'.p
                              /\ rop'.last = rop'.p + Least(HeaderLimit, Len(buf) - rop'.p),
         rop'.ec = "need_buffer" => ~Done(par'),
         BodyIs(body'), Justified(rop'.ec),
         NEW g, g = taken + (IF rop'.pc = "field" THEN rop'.q ELSE rop'.p),
         rop'.ec \notin Limits => Understands(par', g, Len(body')),
         rop'.ec = "need_more" => Len(buf) - rop'.p < Needs(par', Was, g),
         rop'.pc = "trailer" => /\ rop'.last = rop'.p + Start(par') + TailLen(Was)
                                /\ rop'.q \in {rop'.p + Start(par') + 3, rop'.last - 2}
  PROVE  ReadInv'
<1>1. /\ UNCHANGED <<script, at, wire, closed, buf, how, taken, received>>
      /\ Len(script) \in Nat
  BY ReaderIs DEF Still, serVars
<1>2. Meets
  BY ParsingIs
<1>3. /\ Reading \in 1 .. Len(script) /\ ~Stopped /\ Reading <= Len(script) /\ Reading # Len(script) + 1
  <2>1. Reading \in 1 .. Len(script) /\ ~Stopped
    BY <1>2 DEF Meets
  <2> QED
    BY <1>1, <2>1
<1>4. /\ rop.pc # "idle" /\ rop'.pc # "idle"
      /\ rop'.pc \in {"put", "field", "trailer", "ret"} /\ rop'.ec \in PutCodes
      /\ rop'.pc # "ret" => rop'.ec = ""
  BY DEF Parsing, Goes
<1>5. Reading' = Reading /\ Stopped' = Stopped
  BY <1>1, <1>4 DEF Reading, Stopped
<1>6. Was' = Was /\ Got' = g
  BY <1>1, <1>5 DEF Was, Got
<1>7. Taken' = Taken
  <2>1. Lengths' = Lengths
    BY <1>1 DEF Lengths
  <2>2. MessageEnd(Reading - 1)' = MessageEnd(Reading - 1)
    BY <1>5, <2>1 DEF MessageEnd
  <2> QED
    BY <1>1, <2>2 DEF Taken
<1>8. WireInv'
  <2>1. Written' = Written
    <3>1. UNCHANGED <<script, at, wrote, wop>>
      BY DEF Still, serVars
    <3>2. Lengths' = Lengths
      BY <1>1 DEF Lengths
    <3> QED
      BY <3>1, <3>2 DEF Written, Sent, MessageEnd
  <2>2. \A p : SymbolAt(p)' = SymbolAt(p)
    BY <1>1, ScriptStays
  <2> QED
    BY <1>1, <1>7, <2>1, <2>2 DEF ReadInv, WireInv
<1>9. ScriptInv'
  BY <1>1, <1>5 DEF ReadInv, ScriptInv, NeedEof
<1>10. ReadOpInv'
  <2>1. rop'.ec \in {"", "need_more", "need_buffer"} \cup Errors
    BY <1>4 DEF PutCodes, Limits, Errors
  <2>2. received' \in Seq(Reports) /\ taken' \in Nat /\ body' \in Texts
    BY <1>1, ReaderIs DEF BodyIs
  <2>3. rop'.ec \in Errors \cup {"need_buffer", "need_more"} => rop'.pc = "ret"
    BY <1>4 DEF PutCodes, Limits, Errors
  <2>4. ~Stopped'
    BY <1>3, <1>5
  <2> QED
    BY <1>1, <2>1, <2>2, <2>3, <2>4 DEF ReadOpInv, Errors, Done
<1>11. UnderstoodInv'
  <2>1. Fine' => rop'.ec \notin Limits
    BY DEF Fine, Errors, Limits
  <2>2. Len(Rest)' = Len(buf) - rop'.p
    <3>1. rop'.p \in Nat /\ rop'.p <= Len(buf)
      BY <1>1 DEF ReaderInv, Reads, ReadOps
    <3>2. buf \in Seq(Symbols) /\ Len(buf) \in Nat
      BY ReaderIs DEF Texts
    <3>3. Len(SubSeq(buf, rop'.p + 1, Len(buf))) = Len(buf) - rop'.p
      BY <3>1, <3>2, SubSeqProperties
    <3> QED
      BY <1>1, <3>3 DEF Rest
  <2>3. rop'.pc # "read"
    BY <1>4
  <2>4. TailLen(Was)' = TailLen(Was) /\ Start(par)' = Start(par')
    BY <1>6 DEF TailLen, Start
  <2> QED
    BY <1>1, <1>6, <2>1, <2>2, <2>3, <2>4 DEF UnderstoodInv, Understands
<1>12. AtEndInv'
  BY <1>1, <1>3, <1>5 DEF AtEndInv
<1>13. BodyInv'
  BY <1>1, <1>6 DEF BodyIs, BodyInv
<1>14. RefusalInv'
  <2>1. rop'.ec \notin {"buffer_overflow", "partial_message", "end_of_stream"}
    BY <1>4 DEF PutCodes, Limits
  <2> QED
    BY <1>1, <1>3, <1>5, <1>6, <2>1 DEF RefusalInv, Justified
<1> QED
  BY <1>8, <1>9, <1>10, <1>11, <1>12, <1>13, <1>14 DEF ReadInv

\* put returns
LEMMA ReturnReads ==
  ASSUME ReadInv, SendInv', ReaderInv', Parsing, Still, NEW q, NEW ec \in PutCodes, Return(q, ec),
         ec = "need_buffer" => ~Done(par'), BodyIs(body'), Justified(ec),
         ec \notin Limits => Understands(par', taken + q, Len(body')),
         ec = "need_more" => Len(buf) - q < Needs(par', Was, taken + q)
  PROVE  ReadInv'
<1>1. rop \in ReadOps
  BY ReaderIs
<1>2. rop'.pc = "ret" /\ rop'.p = q /\ rop'.ec = ec
  BY <1>1 DEF Return, ReadOps
<1>3. Goes(rop'.pc, rop'.ec)
  BY <1>2 DEF Goes
<1>4. taken + q = taken + (IF rop'.pc = "field" THEN rop'.q ELSE rop'.p)
  BY <1>2
<1> QED
  BY <1>2, <1>3, <1>4, PutsOn

\* The switch of put is left
LEMMA BreakReads ==
  ASSUME ReadInv, SendInv', ReaderInv', Parsing, Still, NEW q, Break(q, par'),
         BodyIs(body'), Understands(par', taken + q, Len(body'))
  PROVE  ReadInv'
<1>1. rop \in ReadOps
  BY ReaderIs
<1>2. /\ rop'.pc \in {"put", "ret"} /\ rop'.p = q /\ rop'.ec = ""
      /\ rop'.pc = "put" => q < Len(buf)
  BY <1>1 DEF Break, ReadOps
<1>3. Goes(rop'.pc, rop'.ec) /\ Justified(rop'.ec) /\ rop'.ec \notin Limits
  BY <1>2 DEF Goes, Justified, PutCodes, Limits
<1>4. taken + q = taken + (IF rop'.pc = "field" THEN rop'.q ELSE rop'.p)
  BY <1>2
<1>5. /\ rop'.pc # "field" /\ rop'.pc # "trailer" /\ rop'.ec # "need_buffer" /\ rop'.ec # "need_more"
      /\ (rop'.pc = "put" => rop'.p < Len(buf))
  BY <1>2
<1> QED
  BY <1>3, <1>4, <1>5, PutsOn

-----------------------------------------------------------------------------
(* The header *)

LEMMA FrontAt ==
  ASSUME NEW m, NEW g, NEW r, InFront(m, g, r), NEW i \in 1 .. Len(r), NEW k, k = g + i, k <= Size(m)
  PROVE  r[i] = SymbolOf(m, k)
  BY DEF InFront

\* The header ends with the first CRLF CRLF
LEMMA HeaderEom ==
  ASSUME NEW m \in Messages
  PROVE  LET n == HeaderEnd(m) IN
         /\ SymbolOf(m, n - 3) = Sym("cr", 0) /\ SymbolOf(m, n - 2) = Sym("lf", 0)
         /\ SymbolOf(m, n - 1) = Sym("cr", 0) /\ SymbolOf(m, n) = Sym("lf", 0)
         /\ n <= Size(m)
<1> DEFINE n == HeaderEnd(m)
           k == IF m.framing # "none" THEN Folds(m) ELSE IF m.folded THEN 6 ELSE 0
<1>1. n \in Nat /\ 5 <= n /\ Folds(m) \in Nat /\ n <= Size(m)
  <2>1. /\ n \in Nat /\ 5 <= n /\ Folds(m) \in {3, 9} /\ TailLen(m) \in {0, 5, 8}
        /\ BodyEnd(m) \in Nat /\ n <= BodyEnd(m) /\ Size(m) = BodyEnd(m) + TailLen(m)
    BY EndsAre
  <2> HIDE DEF n
  <2> QED
    BY <2>1
<1>2. k + 2 = n - 3 /\ k + 3 = n - 2 /\ (n - 2) + 1 = n - 1 /\ (n - 2) + 2 = n
  <2>1. n = Folds(m) + (IF m.framing = "none" THEN 2 ELSE 5) /\ Folds(m) = (IF m.folded THEN 9 ELSE 3)
    BY DEF HeaderEnd, Folds
  <2> HIDE DEF n
  <2> QED
    BY <1>1, <2>1
<1>3. \E x : LineIn(m, k, x)
  BY HeaderIn DEF HeaderStands
<1>4. EndIn(m, n - 2)
  BY HeaderIn DEF HeaderStands
<1>5. SymbolOf(m, k + 2) = Sym("cr", 0) /\ SymbolOf(m, k + 3) = Sym("lf", 0)
  BY <1>3 DEF LineIn
<1>6. SymbolOf(m, (n - 2) + 1) = Sym("cr", 0) /\ SymbolOf(m, (n - 2) + 2) = Sym("lf", 0)
  BY <1>4 DEF EndIn
<1> HIDE DEF n, k
<1>7. /\ SymbolOf(m, n - 3) = Sym("cr", 0) /\ SymbolOf(m, n - 2) = Sym("lf", 0)
      /\ SymbolOf(m, n - 1) = Sym("cr", 0) /\ SymbolOf(m, n) = Sym("lf", 0) /\ n <= Size(m)
  BY <1>1, <1>2, <1>5, <1>6
<1> QED
  BY <1>7 DEF n

\* What maybe_need_more says where the header ends left symbols further on
Waits(x, left, n) ==
  /\ x.ec \in {"", "need_more", "header_limit"} /\ x.skip \in Nat
  /\ x.ec = "" => x.skip = 0
  /\ x.ec = "need_more" => /\ n < left
                           /\ x.skip # 0 => x.skip + 4 <= left /\ x.skip + 4 <= HeaderLimit
  /\ x.ec = "header_limit" => HeaderLimit < left

LEMMA NeedMoreWaits ==
  ASSUME NEW m \in Messages, NEW g, NEW r, InFront(m, g, r), NEW p \in Parsers,
         NEW left \in Nat, g + left = HeaderEnd(m),
         p.skip # 0 => p.skip + 4 <= left /\ p.skip + 4 <= HeaderLimit
  PROVE  Waits(MaybeNeedMore(p, r), left, Len(r))
<1> DEFINE x == MaybeNeedMore(p, r)
           n == Least(Len(r), HeaderLimit)
           s == SubSeq(r, 1, n)
<1>1. Len(r) \in Nat /\ g \in Nat /\ r \in Seq(Symbols)
  BY DEF InFront, Texts
<1>2. HeaderLimit \in Nat /\ HeaderLimit # 0
  BY ConstantsAssumption DEF ConstantsAssumption
<1>3. x.skip \in Nat /\ x.ec \in {"", "need_more", "header_limit"} /\ (x.ec = "" => x.skip = 0)
  BY <1>1, NeedMoreGives
<1>4. n \in Nat /\ n <= Len(r) /\ n <= HeaderLimit /\ (n < HeaderLimit => n = Len(r)) /\ p.skip \in Nat
  BY <1>1, <1>2 DEF Least, Parsers
<1>5. CASE p.skip = 0
  <2>1. x.ec = ""
    BY <1>5 DEF MaybeNeedMore
  <2> HIDE DEF x
  <2>2. Waits(x, left, Len(r))
    BY <1>3, <2>1 DEF Waits
  <2> QED
    BY <2>2 DEF x
<1>6. CASE p.skip # 0 /\ n < p.skip + 4
  <2>1. x.ec = "need_more" /\ x.skip = p.skip
    BY <1>6 DEF MaybeNeedMore
  <2> HIDE DEF x
  <2>2. Len(r) < left
    <3>1. p.skip + 4 <= left /\ p.skip + 4 <= HeaderLimit
      BY <1>6
    <3> HIDE DEF n
    <3> QED
      BY <1>1, <1>2, <1>4, <1>6, <3>1
  <2>3. Waits(x, left, Len(r))
    BY <1>3, <1>6, <2>1, <2>2 DEF Waits
  <2> QED
    BY <2>3 DEF x
<1>7. CASE p.skip # 0 /\ ~(n < p.skip + 4)
  <2>1. x = IF FindEom(s, p.skip) # 0 THEN [ec |-> "", skip |-> 0]
            ELSE [ec |-> IF n + 1 > HeaderLimit THEN "header_limit" ELSE "need_more", skip |-> n - 3]
    BY <1>7 DEF MaybeNeedMore
  <2>2. Len(s) = n /\ \A i \in 1 .. n : s[i] = r[i]
    BY <1>1, <1>4, SubSeqProperties
  <2>3. FirstEom(s, p.skip, FindEom(s, p.skip))
    <3>1. Len(s) \in Nat
      BY <1>4, <2>2
    <3> HIDE DEF s, n
    <3> QED
      BY <1>4, <3>1, FindEomIs
  <2> HIDE DEF s, x
  <2>4. CASE FindEom(s, p.skip) # 0
    <3>1. x.ec = ""
      BY <2>1, <2>4
    <3>2. Waits(x, left, Len(r))
      BY <1>3, <3>1 DEF Waits
    <3> QED
      BY <3>2 DEF x
  <2>5. CASE FindEom(s, p.skip) = 0
    <3>1. x.ec = (IF n + 1 > HeaderLimit THEN "header_limit" ELSE "need_more") /\ x.skip = n - 3
      BY <2>1, <2>5
    <3>2. n < left
      <4> SUFFICES ASSUME ~(n < left) PROVE FALSE
        OBVIOUS
      <4> HIDE DEF n
      <4>1. p.skip + 4 <= left /\ left <= n
        BY <1>4, <1>7
      <4>2. Eom(s, left)
        <5>1. /\ left - 3 \in 1 .. n /\ left - 2 \in 1 .. n /\ left - 1 \in 1 .. n /\ left \in 1 .. n
              /\ g + (left - 3) = HeaderEnd(m) - 3 /\ g + (left - 2) = HeaderEnd(m) - 2
              /\ g + (left - 1) = HeaderEnd(m) - 1
          BY <1>1, <1>4, <4>1
        <5>2. /\ HeaderEnd(m) - 3 <= Size(m) /\ HeaderEnd(m) - 2 <= Size(m)
              /\ HeaderEnd(m) - 1 <= Size(m) /\ HeaderEnd(m) <= Size(m)
          BY HeaderEom, EndsAre
        <5>3. /\ r[left - 3] = Sym("cr", 0) /\ r[left - 2] = Sym("lf", 0)
              /\ r[left - 1] = Sym("cr", 0) /\ r[left] = Sym("lf", 0)
          <6>1. \A i \in 1 .. n : i \in 1 .. Len(r)
            BY <1>1, <1>4
          <6>2. /\ r[left - 3] = SymbolOf(m, HeaderEnd(m) - 3)
                /\ r[left - 2] = SymbolOf(m, HeaderEnd(m) - 2)
                /\ r[left - 1] = SymbolOf(m, HeaderEnd(m) - 1)
                /\ r[left] = SymbolOf(m, HeaderEnd(m))
            BY <5>1, <5>2, <6>1, FrontAt
          <6> QED
            BY <6>2, HeaderEom
        <5> QED
          BY <2>2, <5>1, <5>3 DEF Eom, Cr, Lf
      <4>3. left \in p.skip + 4 .. Len(s)
        BY <1>4, <2>2, <4>1
      <4>4. \A j \in p.skip + 4 .. Len(s) : ~Eom(s, j)
        <5>1. ~(0 \in p.skip + 4 .. Len(s))
          BY <1>4
        <5> QED
          BY <2>3, <2>5, <5>1 DEF FirstEom
      <4> QED
        BY <4>2, <4>3, <4>4
    <3> HIDE DEF n
    <3>3. x.ec = "need_more" => Len(r) < left /\ x.skip + 4 <= left /\ x.skip + 4 <= HeaderLimit
      BY <1>1, <1>2, <1>4, <3>1, <3>2
    <3>4. x.ec = "header_limit" => HeaderLimit < left
      BY <1>1, <1>2, <1>4, <3>1, <3>2
    <3>5. Waits(x, left, Len(r))
      BY <1>3, <3>3, <3>4 DEF Waits
    <3> QED
      BY <3>5 DEF x
  <2> QED
    BY <2>4, <2>5
<1> QED
  BY <1>5, <1>6, <1>7

LEMMA HeaderUnderstood ==
  ASSUME NEW p, p.s \in HeaderStates, "need_eof" \notin p.f, p.s = "fields" => p.bodiless = Was.bodiless,
         NEW g, NEW b, InHeader(p, Was, g, b)
  PROVE  Understands(p, g, b)
<1>1. /\ p.s \notin EofStates \cup {"complete"} /\ p.s \notin BodyStates
      /\ p.s \notin {"chunk_header0", "chunk_header", "chunk_body"}
  BY DEF HeaderStates, EofStates, BodyStates
<1>2. p.s \notin {"nothing_yet", "start_line"} => p.s = "fields"
  BY DEF HeaderStates
<1> QED
  BY <1>1, <1>2 DEF Understands, ParserAt, HeaderStates

\* The parser is in the header, with left symbols of it to come
LEMMA HeaderMeets ==
  ASSUME ReadInv, Meets, par.s \in HeaderStates
  PROVE  /\ InHeader(par, Was, Got, Len(body)) /\ Len(body) = 0 /\ BodyIs(body)
         /\ "need_eof" \notin par.f /\ (par.s = "fields" => par.bodiless = Was.bodiless)
         /\ par.limit = BodyLimit
         /\ Got \in Nat /\ HeaderEnd(Was) - Got \in Nat /\ Got + (HeaderEnd(Was) - Got) = HeaderEnd(Was)
         /\ 2 <= HeaderEnd(Was) - Got
<1>1. /\ ParserAt(par, Was, Got, Len(body)) /\ Was \in Messages
      /\ Len(body) <= Total(Was) /\ \A i \in 1 .. Len(body) : body[i] = Sym("octet", i)
  BY DEF Meets
<1>2. InHeader(par, Was, Got, Len(body)) /\ "need_eof" \notin par.f
      /\ (par.s = "fields" => par.bodiless = Was.bodiless)
  BY <1>1 DEF ParserAt, HeaderStates, EofStates
<1>3. Got \in {0, 3, Folds(Was), HeaderEnd(Was) - 2} /\ Len(body) = 0 /\ par.limit = BodyLimit
  BY <1>2 DEF InHeader, HeaderStates
<1>4. HeaderEnd(Was) \in Nat /\ 5 <= HeaderEnd(Was) /\ Folds(Was) \in {3, 9} /\ Folds(Was) + 2 <= HeaderEnd(Was)
  <2>1. HeaderEnd(Was) \in Nat /\ 5 <= HeaderEnd(Was) /\ Folds(Was) \in {3, 9}
    BY <1>1, EndsAre
  <2> QED
    BY <2>1 DEF HeaderEnd
<1>5. /\ Got \in Nat /\ HeaderEnd(Was) - Got \in Nat /\ Got + (HeaderEnd(Was) - Got) = HeaderEnd(Was)
      /\ 2 <= HeaderEnd(Was) - Got
  <2> DEFINE x == Got  h == HeaderEnd(Was)  f == Folds(Was)
  <2>1. x \in {0, 3, f, h - 2} /\ h \in Nat /\ 5 <= h /\ f \in Nat /\ f + 2 <= h
    BY <1>3, <1>4
  <2> HIDE DEF x, h, f
  <2>2. x \in Nat /\ h - x \in Nat /\ x + (h - x) = h /\ 2 <= h - x
    BY <2>1
  <2> QED
    BY <2>2 DEF x, h
<1>6. BodyIs(body)
  BY <1>1, ReaderIs DEF BodyIs
<1> QED
  BY <1>2, <1>3, <1>5, <1>6

LEMMA HeaderNeeds ==
  ASSUME NEW p, NEW m, NEW g, p.s \in HeaderStates
  PROVE  Needs(p, m, g) = HeaderEnd(m) - g
  BY DEF Needs, HeaderStates

LEMMA Ahead ==
  ASSUME NEW l \in Nat, NEW p \in Nat, NEW n \in Nat, n = l - p
  PROVE  /\ p < l => 1 <= n /\ 1 \in 1 .. n
         /\ n = 3 => l - (p + 3) = 0
         /\ 3 <= n /\ n # 3 => p + 3 < l
         /\ 3 <= n => p + 3 \in Nat /\ p + 3 <= l
  OBVIOUS

\* The start line does not fit, or is not all there
LEMMA Short ==
  ASSUME NEW n \in Nat, NEW l \in Nat, NEW h \in Nat, 5 <= h
  PROVE  /\ Least(l, n) < 3 => /\ ~(n < l /\ n >= 3)
                               /\ n >= l => l < h
                               /\ ~(n >= l) => n < h
         /\ Least(l, n) >= 3 => 3 <= n
  BY DEF Least

LEMMA StartLineReads ==
  ASSUME ReadInv, SendInv', ReaderInv', PutStartLine, UNCHANGED serVars
  PROVE  ReadInv'
<1>1. /\ rop.pc = "put" /\ par.s \in {"nothing_yet", "start_line"}
      /\ UNCHANGED <<buf, how, body, taken, received>>
  BY DEF PutStartLine
<1>2. Parsing /\ Still /\ Meets
  BY <1>1, ParsingIs DEF Parsing, Still
<1>3. /\ par.s \in HeaderStates /\ par \in Parsers /\ rop \in ReadOps /\ rop.p \in Nat /\ rop.p <= Len(buf)
      /\ Len(buf) \in Nat /\ taken \in Nat /\ rop.p < Len(buf)
  BY <1>1, ReaderIs DEF HeaderStates, ReadInv, ReadOpInv
<1>4. /\ InHeader(par, Was, Got, Len(body)) /\ Len(body) = 0 /\ BodyIs(body)
      /\ "need_eof" \notin par.f /\ par.limit = BodyLimit
  BY <1>2, <1>3, HeaderMeets
<1> DEFINE x == MaybeNeedMore(par, Rest)
           n == Len(Rest)
           w == Least(HeaderLimit, n)
           h == HeaderEnd(Was)
           now == [par EXCEPT !.s = "start_line", !.skip = x.skip]
<1>5. /\ Was \in Messages /\ InFront(Was, taken + rop.p, Rest) /\ n = Len(buf) - rop.p /\ n \in Nat
      /\ rop.ec = ""
  BY <1>2 DEF Meets
<1>6. taken + rop.p = 0 /\ Got = taken + rop.p /\ par.f = {} /\ par.len = 0
      /\ (par.skip # 0 => par.skip + 4 <= h - 0 /\ par.skip + 4 <= HeaderLimit)
  BY <1>1, <1>4 DEF InHeader, Got
<1>7. h \in Nat /\ 5 <= h /\ h <= Size(Was)
  BY <1>5, EndsAre, HeaderEom
<1>8. HeaderLimit \in Nat
  BY ConstantsAssumption DEF ConstantsAssumption
<1>9. Waits(x, h, n)
  <2>1. h - 0 = h /\ 0 + h = h
    BY <1>7
  <2> HIDE DEF h
  <2> QED
    BY <1>3, <1>5, <1>6, <1>7, <2>1, NeedMoreWaits DEF h
<1>10. 1 <= n /\ Rest[1] = StartOf(Was)
  <2>1. 1 <= n /\ 1 \in 1 .. n
    BY <1>3, <1>5, Ahead
  <2>2. taken + rop.p + 1 = 1 /\ 1 <= Size(Was)
    <3>1. Size(Was) \in Nat
      BY <1>5, EndsAre
    <3> QED
      BY <1>6, <1>7, <3>1
  <2>3. Rest[1] = SymbolOf(Was, 1)
    <3>1. InFront(Was, 0, Rest) /\ 1 \in 1 .. Len(Rest) /\ 1 = 0 + 1
      <4>1. InFront(Was, 0, Rest)
        BY <1>5, <1>6
      <4>2. 1 \in 1 .. Len(Rest)
        BY <2>1
      <4>3. 1 = 0 + 1
        OBVIOUS
      <4> QED
        BY <4>1, <4>2, <4>3
    <3> QED
      BY <2>2, <3>1, FrontAt
  <2>4. SymbolOf(Was, 0 + 1) = StartOf(Was) /\ 0 + 1 = 1
    <3>1. LineIn(Was, 0, StartOf(Was))
      BY <1>5, HeaderIn DEF HeaderStands
    <3> QED
      BY <3>1 DEF LineIn
  <2> QED
    BY <2>1, <2>3, <2>4
<1>11. StartOf(Was).k = "start" /\ (StartOf(Was).n = 1) = Was.bodiless
  <2>1. Was.bodiless \in BOOLEAN
    BY <1>5 DEF Messages
  <2> QED
    BY <2>1 DEF StartOf, Sym
<1>12. now.s = "start_line" /\ now.skip = x.skip /\ now.f = {} /\ now.len = 0 /\ now.limit = BodyLimit
       /\ now \in Parsers
  <2>1. x.skip \in Nat
    BY <1>9 DEF Waits
  <2> HIDE DEF x
  <2> QED
    BY <1>3, <1>4, <1>6, <2>1 DEF Parsers, ParserStates, HeaderStates
<1>13. 0 \in Nat /\ "header_limit" \in PutCodes /\ "need_more" \in PutCodes /\ "header_limit" \in Limits
       /\ "need_more" \notin Limits
  BY DEF PutCodes, Limits
<1>14. Needs(now, Was, 0) = h /\ h - 0 = h
  <2>1. now.s \in HeaderStates /\ h - 0 = h
    BY <1>7, <1>12 DEF HeaderStates
  <2> QED
    BY <2>1 DEF Needs
<1> HIDE DEF now, h
<1>15. ASSUME par' = now, NEW ec \in {"need_more", "header_limit"}, Return(rop.p, ec),
              ec = "need_more" => n < h /\ (x.skip # 0 => x.skip + 4 <= h /\ x.skip + 4 <= HeaderLimit),
              ec = "header_limit" => HeaderLimit < h
       PROVE  ReadInv'
  <2>1. Justified(ec)
    BY <1>15 DEF Justified, h
  <2>2. ec \notin Limits => Understands(par', taken + rop.p, Len(body'))
    <3> SUFFICES ASSUME ec = "need_more" PROVE Understands(par', 0, 0)
      BY <1>1, <1>4, <1>6, <1>13, <1>15
    <3>1. InHeader(now, Was, 0, 0)
      BY <1>12, <1>14, <1>15 DEF InHeader, h
    <3>2. now.s \in HeaderStates /\ "need_eof" \notin now.f /\ now.s # "fields"
      BY <1>12 DEF HeaderStates
    <3> QED
      BY <1>15, <3>1, <3>2, HeaderUnderstood
  <2>3. ec = "need_more" => Len(buf) - rop.p < Needs(par', Was, taken + rop.p)
    BY <1>5, <1>6, <1>14, <1>15
  <2>4. ec \in PutCodes /\ ec # "need_buffer" /\ BodyIs(body')
    BY <1>1, <1>4, <1>13, <1>15 DEF BodyIs
  <2> QED
    BY <1>2, <1>15, <2>1, <2>2, <2>3, <2>4, ReturnReads
<1>16. CASE x.ec # "" /\ par' = now /\ Return(rop.p, x.ec)
  <2>1. x.ec \in {"need_more", "header_limit"}
    BY <1>9, <1>16 DEF Waits
  <2>2. /\ x.ec = "need_more" => n < h /\ (x.skip # 0 => x.skip + 4 <= h /\ x.skip + 4 <= HeaderLimit)
        /\ x.ec = "header_limit" => HeaderLimit < h
    BY <1>9 DEF Waits
  <2> HIDE DEF x, n
  <2> QED
    BY <1>15, <1>16, <2>1, <2>2
<1>17. CASE Rest[1].k # "start"
  BY <1>10, <1>11, <1>17
<1>18. CASE /\ x.ec = "" /\ w < 3
            /\ par' = [now EXCEPT !.skip = IF n < HeaderLimit /\ n >= 3 THEN n - 3 ELSE @]
            /\ Return(rop.p, IF n >= HeaderLimit THEN "header_limit" ELSE "need_more")
  <2>1. x.skip = 0
    BY <1>9, <1>18 DEF Waits
  <2>2. ~(n < HeaderLimit /\ n >= 3) /\ (n >= HeaderLimit => HeaderLimit < h) /\ (~(n >= HeaderLimit) => n < h)
    BY <1>5, <1>7, <1>8, <1>18, Short
  <2>3. par' = now
    <3>1. par' = [now EXCEPT !.skip = now.skip]
      BY <1>18, <2>2
    <3> QED
      BY <1>12, <3>1 DEF Parsers
  <2> HIDE DEF x, n
  <2>4. CASE n >= HeaderLimit
    BY <1>15, <1>18, <2>1, <2>2, <2>3, <2>4
  <2>5. CASE ~(n >= HeaderLimit)
    BY <1>15, <1>18, <2>1, <2>2, <2>3, <2>5
  <2> QED
    BY <2>4, <2>5
<1>19. CASE /\ x.ec = "" /\ w >= 3
            /\ par' = [now EXCEPT !.s = "fields", !.bodiless = Rest[1].n = 1]
            /\ rop' = IF n = 3 THEN [rop EXCEPT !.pc = "ret", !.p = @ + 3, !.ec = "need_more"]
                               ELSE [rop EXCEPT !.p = @ + 3]
  <2>1. x.skip = 0
    BY <1>9, <1>19 DEF Waits
  <2>2. /\ par'.s = "fields" /\ par'.skip = 0 /\ par'.f = {} /\ par'.len = 0 /\ par'.limit = BodyLimit
        /\ par'.bodiless = Was.bodiless
    BY <1>10, <1>11, <1>12, <1>19, <2>1 DEF Parsers
  <2>3. 3 <= n
    BY <1>5, <1>7, <1>8, <1>19, Short
  <2>4. taken + (rop.p + 3) = 3 /\ rop.p + 3 \in Nat
    <3> DEFINE t == taken  p == rop.p
    <3>1. t \in Nat /\ p \in Nat /\ t + p = 0
      BY <1>3, <1>6
    <3> HIDE DEF t, p
    <3>2. t + (p + 3) = 3 /\ p + 3 \in Nat
      BY <3>1
    <3> QED
      BY <3>2 DEF t, p
  <2>5. Understands(par', 3, 0)
    <3>1. HeaderEnd(Was) - 2 = 3 => Was.framing = "none"
      BY DEF HeaderEnd, Folds
    <3>2. InHeader(par', Was, 3, 0)
      BY <2>2, <3>1 DEF InHeader, Flags
    <3>3. "need_eof" \notin par'.f /\ par'.s \in HeaderStates
      BY <2>2 DEF HeaderStates
    <3> QED
      BY <2>2, <3>2, <3>3, HeaderUnderstood
  <2>6. Understands(par', taken + (rop.p + 3), Len(body')) /\ BodyIs(body')
    BY <1>1, <1>4, <2>4, <2>5
  <2>7. CASE n = 3
    <3>1. Return(rop.p + 3, "need_more")
      BY <1>19, <2>7 DEF Return
    <3>2. Len(buf) - (rop.p + 3) < Needs(par', Was, taken + (rop.p + 3))
      <4>1. Len(buf) - (rop.p + 3) = 0
        BY <1>3, <1>5, <2>7, Ahead
      <4>2. Needs(par', Was, 3) = h - 3 /\ 0 < h - 3
        <5>1. par'.s \in HeaderStates
          BY <2>2 DEF HeaderStates
        <5> QED
          <6>1. Needs(par', Was, 3) = h - 3
            BY <5>1, HeaderNeeds DEF h
          <6> QED
            BY <1>7, <6>1
      <4> QED
        BY <2>4, <4>1, <4>2
    <3>3. Justified("need_more") /\ "need_more" # "need_buffer"
      BY DEF Justified
    <3> QED
      BY <1>2, <1>13, <2>6, <3>1, <3>2, <3>3, ReturnReads
  <2>8. CASE n # 3
    <3>1. rop'.pc = "put" /\ rop'.p = rop.p + 3 /\ rop'.ec = ""
      BY <1>1, <1>3, <1>5, <1>19, <2>8 DEF ReadOps
    <3>2. rop'.p < Len(buf)
      BY <1>3, <1>5, <2>3, <2>8, <3>1, Ahead
    <3>3. Goes(rop'.pc, rop'.ec) /\ Justified(rop'.ec)
      BY <3>1 DEF Goes, Justified, PutCodes
    <3>4. taken + (rop.p + 3) = taken + (IF rop'.pc = "field" THEN rop'.q ELSE rop'.p)
      BY <3>1
    <3> QED
      BY <1>2, <2>6, <3>1, <3>2, <3>3, <3>4, PutsOn
  <2> QED
    BY <2>7, <2>8
<1> QED
  BY <1>16, <1>17, <1>18, <1>19 DEF PutStartLine, now

\* The fields go on where they were, and the search for their end may be elsewhere
LEMMA FieldsGoOn ==
  ASSUME NEW p \in Parsers, p.s = "fields", NEW g, NEW b, InHeader(p, Was, g, b), "need_eof" \notin p.f,
         p.bodiless = Was.bodiless, NEW k \in Nat, NEW r, r = [p EXCEPT !.skip = k],
         k # 0 => k + 4 <= HeaderEnd(Was) - g /\ k + 4 <= HeaderLimit
  PROVE  Understands(r, g, b) /\ Needs(r, Was, g) = HeaderEnd(Was) - g /\ r.s = "fields"
<1>1. /\ r.s = "fields" /\ r.f = p.f /\ r.skip = k /\ r.len = p.len /\ r.limit = p.limit
      /\ r.bodiless = p.bodiless /\ r.s \in HeaderStates
  BY DEF Parsers, HeaderStates
<1>2. InHeader(r, Was, g, b)
  BY <1>1 DEF InHeader
<1> QED
  BY <1>1, <1>2, HeaderUnderstood, HeaderNeeds

LEMMA PutFieldsReads ==
  ASSUME ReadInv, SendInv', ReaderInv', PutFields, UNCHANGED serVars
  PROVE  ReadInv'
<1>1. rop.pc = "put" /\ par.s = "fields" /\ UNCHANGED <<buf, how, body, taken, received>>
  BY DEF PutFields
<1>2. Parsing /\ Still /\ Meets
  BY <1>1, ParsingIs DEF Parsing, Still
<1>3. /\ par.s \in HeaderStates /\ par \in Parsers /\ rop \in ReadOps /\ rop.p \in Nat
      /\ Len(buf) \in Nat /\ taken \in Nat /\ rop.p < Len(buf)
  BY <1>1, ReaderIs DEF HeaderStates, ReadInv, ReadOpInv
<1> DEFINE x == MaybeNeedMore(par, Rest)
           n == Len(Rest)
           g == taken + rop.p
           left == HeaderEnd(Was) - g
<1>4. /\ InHeader(par, Was, g, Len(body)) /\ BodyIs(body) /\ "need_eof" \notin par.f
      /\ par.bodiless = Was.bodiless /\ left \in Nat /\ g + left = HeaderEnd(Was) /\ g = Got
  <2>1. Got = g
    BY <1>1 DEF Got
  <2> QED
    BY <1>1, <1>2, <1>3, <2>1, HeaderMeets
<1>5. /\ Was \in Messages /\ InFront(Was, g, Rest) /\ n = Len(buf) - rop.p /\ n \in Nat /\ rop.ec = ""
  BY <1>2 DEF Meets
<1> HIDE DEF left
<1>6. par.skip # 0 => par.skip + 4 <= left /\ par.skip + 4 <= HeaderLimit
  BY <1>4 DEF InHeader, left
<1> HIDE DEF g
<1>7. Waits(x, left, n)
  BY <1>3, <1>4, <1>5, <1>6, NeedMoreWaits
<1>8. /\ x.ec \in {"", "need_more", "header_limit"} /\ x.skip \in Nat
      /\ (x.ec = "" => x.skip = 0)
      /\ (x.ec = "need_more" => n < left /\ (x.skip # 0 => x.skip + 4 <= left /\ x.skip + 4 <= HeaderLimit))
      /\ (x.ec = "header_limit" => HeaderLimit < left)
  BY <1>7 DEF Waits
<1>9. /\ par' = [par EXCEPT !.skip = x.skip]
      /\ IF x.ec # "" THEN Return(rop.p, x.ec)
         ELSE rop' = [rop EXCEPT !.pc = "field", !.n = Len(Rest), !.q = rop.p,
                      !.last = rop.p + Least(HeaderLimit, Len(Rest))]
  BY DEF PutFields
<1> HIDE DEF x
<1>10. x.ec # "header_limit" => Understands(par', g, Len(body')) /\ Needs(par', Was, g) = left
  <2> SUFFICES ASSUME x.ec # "header_limit" PROVE Understands(par', g, Len(body')) /\ Needs(par', Was, g) = left
    OBVIOUS
  <2>1. x.skip # 0 => x.skip + 4 <= HeaderEnd(Was) - g /\ x.skip + 4 <= HeaderLimit
    BY <1>8 DEF left
  <2>2. Understands(par', g, Len(body)) /\ Needs(par', Was, g) = HeaderEnd(Was) - g
    BY <1>1, <1>3, <1>4, <1>8, <1>9, <2>1, FieldsGoOn
  <2> QED
    BY <1>1, <2>2 DEF left
<1>11. BodyIs(body')
  BY <1>1, <1>4 DEF BodyIs
<1>12. x.ec = "header_limit" => Justified("header_limit")
  <2>1. HeaderEnd(Was) \in Nat /\ g \in Nat /\ HeaderLimit \in Nat
    <3>1. g \in Nat
      BY <1>3 DEF g
    <3> QED
      BY <1>5, <3>1, EndsAre, ConstantsAssumption DEF ConstantsAssumption
  <2>2. HeaderLimit < left => HeaderLimit < HeaderEnd(Was)
    BY <1>4, <2>1
  <2> QED
    BY <1>8, <2>2 DEF Justified
<1>13. CASE x.ec # ""
  <2>1. x.ec \in PutCodes /\ x.ec # "need_buffer" /\ (x.ec = "need_more" => x.ec \notin Limits)
    BY <1>8, <1>13 DEF PutCodes, Limits
  <2>2. Justified(x.ec)
    BY <1>8, <1>12, <1>13 DEF Justified
  <2>3. Return(rop.p, x.ec)
    BY <1>9, <1>13
  <2>4. x.ec \notin Limits => Understands(par', taken + rop.p, Len(body'))
    BY <1>10 DEF Limits, g
  <2>5. x.ec = "need_more" => Len(buf) - rop.p < Needs(par', Was, taken + rop.p)
    BY <1>5, <1>8, <1>10 DEF g
  <2> QED
    BY <1>2, <1>11, <2>1, <2>2, <2>3, <2>4, <2>5, ReturnReads
<1>14. CASE x.ec = ""
  <2>1. /\ rop'.pc = "field" /\ rop'.n = n /\ rop'.q = rop.p /\ rop'.p = rop.p
        /\ rop'.last = rop.p + Least(HeaderLimit, n) /\ rop'.ec = ""
    <3>1. rop' = [rop EXCEPT !.pc = "field", !.n = Len(Rest), !.q = rop.p,
                     !.last = rop.p + Least(HeaderLimit, Len(Rest))]
      BY <1>9, <1>14
    <3> HIDE DEF n
    <3> QED
      BY <1>3, <1>5, <3>1 DEF ReadOps, n
  <2>2. Goes(rop'.pc, rop'.ec) /\ Justified(rop'.ec)
    BY <2>1 DEF Goes, PutCodes, Justified
  <2>3. Understands(par', g, Len(body')) /\ g = taken + (IF rop'.pc = "field" THEN rop'.q ELSE rop'.p)
    BY <1>10, <1>14, <2>1 DEF g
  <2>4. rop'.n = Len(buf) - rop'.p /\ rop'.last = rop'.p + Least(HeaderLimit, Len(buf) - rop'.p)
    BY <1>5, <2>1
  <2>5. rop'.pc # "put" /\ rop'.pc # "trailer" /\ rop'.ec # "need_buffer" /\ rop'.ec # "need_more"
    BY <2>1
  <2> QED
    BY <1>2, <1>11, <2>2, <2>3, <2>4, <2>5, PutsOn
<1> QED
  BY <1>13, <1>14

\* The rounds of parse_fields, case by case
LEMMA FieldCases ==
  ASSUME Field
  PROVE  LET s == FieldInput
             x == DoField(par, s[1])
         IN  \/ Len(s) < 2 /\ FieldsNeedMore
             \/ ~(Len(s) < 2) /\ s[1] = Sym("cr", 0) /\ s[2] = Sym("lf", 0) /\ FieldsEnd
             \/ ~(Len(s) < 2) /\ s[1] = Sym("cr", 0) /\ s[2] # Sym("lf", 0)
             \/ /\ ~(Len(s) < 2) /\ s[1] # Sym("cr", 0)
                /\ \/ ParseField(s).r = "need_more" /\ FieldsNeedMore
                   \/ ParseField(s).r = "bad_field"
                   \/ /\ ParseField(s).r = "field" /\ par' = x.p
                      /\ IF x.ec # "" THEN Return(Behind(rop.q), x.ec)
                         ELSE rop' = [rop EXCEPT !.q = @ + ParseField(s).n]
  BY DEF Field, FieldInput, Behind

\* The first field of s, when at most one line of it is folded
LEMMA ParseFieldIs ==
  ASSUME NEW s, Len(s) \in Nat, s[1].k \in {"field", "length", "chunked"}
  PROVE  /\ Len(s) < 4 => ParseField(s).r = "need_more"
         /\ ~(Len(s) < 4) /\ s[4].k # "fold" => ParseField(s) = [r |-> "field", n |-> 3]
         /\ ~(Len(s) < 4) /\ s[4].k = "fold" /\ Len(s) < 7 => ParseField(s).r = "need_more"
         /\ ~(Len(s) < 7) /\ s[4].k = "fold" /\ s[7].k # "fold" => ParseField(s) = [r |-> "field", n |-> 6]
<1> DEFINE f == LineFinder(s)
<1>1. f[0] = LineStep(f, s, 0) /\ f[3] = LineStep(f, s, 3)
  BY LineFinderIs
<1>2. ParseField(s) = f[0]
  BY DEF ParseField, LineFinder, LineStep
<1> HIDE DEF f
<1>3. f[0] = IF Len(s) < 4 THEN [r |-> "need_more", n |-> 0]
             ELSE IF s[4].k = "fold" THEN f[3] ELSE [r |-> "field", n |-> 3]
  BY <1>1 DEF LineStep
<1>4. f[3] = IF Len(s) < 7 THEN [r |-> "need_more", n |-> 0]
             ELSE IF s[7].k = "fold" THEN f[6] ELSE [r |-> "field", n |-> 6]
  BY <1>1 DEF LineStep
<1> QED
  BY <1>2, <1>3, <1>4

\* Where the field at g ends
FieldEnd(m, g) == IF g = 3 /\ m.folded THEN 9 ELSE HeaderEnd(m) - 2
FieldOf(m, g) == IF g = 3 /\ m.folded THEN Sym("field", 0) ELSE FramingOf(m)

LEMMA FieldMeets ==
  ASSUME NEW m \in Messages, NEW g \in {3, Folds(m)}, g # HeaderEnd(m) - 2, NEW s, InFront(m, g, s),
         ~(Len(s) < 2)
  PROVE  /\ s[1] = FieldOf(m, g) /\ s[1].k \in {"field", "length", "chunked"} /\ s[1] # Sym("cr", 0)
         /\ ParseField(s).r \in {"need_more", "field"}
         /\ ParseField(s).r = "need_more" => Len(s) < HeaderEnd(m) - g
         /\ ParseField(s).r = "field" => ParseField(s).n \in Nat /\ g + ParseField(s).n = FieldEnd(m, g)
         /\ FieldEnd(m, g) \in {Folds(m), HeaderEnd(m) - 2}
<1> DEFINE h == HeaderEnd(m)
           n == Len(s)
<1>1. n \in Nat /\ m.folded \in BOOLEAN /\ h \in Nat /\ h <= Size(m) /\ HeaderStands(m) /\ Size(m) \in Nat
  BY HeaderEom, HeaderIn, EndsAre DEF InFront, Messages
<1>2. h = Folds(m) + (IF m.framing = "none" THEN 2 ELSE 5) /\ Folds(m) = (IF m.folded THEN 9 ELSE 3)
  BY DEF HeaderEnd, Folds
<1>3. ASSUME NEW i \in Nat, 1 <= i, i <= n, NEW k \in Nat, k = g + i, k <= h
      PROVE  s[i] = SymbolOf(m, k)
  <2> HIDE DEF h
  <2>1. i \in 1 .. Len(s) /\ k <= Size(m)
    BY <1>1, <1>3
  <2> QED
    BY <1>3, <2>1, FrontAt
<1> HIDE DEF h, n
<1>4. CASE g = 3 /\ m.folded
  <2>1. Folds(m) = 9 /\ 11 <= h
    BY <1>1, <1>2, <1>4
  <2>2. LineIn(m, 3, Sym("field", 0)) /\ LineIn(m, 6, Sym("fold", 0))
    BY <1>1, <1>4 DEF HeaderStands
  <2>3. SymbolOf(m, 3 + 1) = Sym("field", 0) /\ SymbolOf(m, 6 + 1) = Sym("fold", 0)
    BY <2>2 DEF LineIn
  <2>4. SymbolOf(m, 10).k # "fold"
    <3>1. CASE m.framing = "none"
      <4>1. h - 2 = 9
        BY <1>1, <1>2, <2>1, <3>1
      <4>2. EndIn(m, 9)
        BY <1>1, <4>1 DEF HeaderStands, h
      <4>3. SymbolOf(m, 9 + 1) = Sym("cr", 0)
        BY <4>2 DEF EndIn
      <4> QED
        <5>1. 9 + 1 = 10
          OBVIOUS
        <5> QED
          BY <4>3, <5>1 DEF Sym
    <3>2. CASE m.framing # "none"
      <4>1. LineIn(m, 9, FramingOf(m))
        BY <1>1, <2>1, <3>2 DEF HeaderStands
      <4>2. SymbolOf(m, 9 + 1) = FramingOf(m)
        BY <4>1 DEF LineIn
      <4> QED
        <5>1. 9 + 1 = 10
          OBVIOUS
        <5> QED
          BY <4>2, <5>1 DEF FramingOf, Sym
    <3> QED
      BY <3>1, <3>2
  <2>5. s[1] = SymbolOf(m, 4)
    BY <1>1, <1>3, <1>4, <2>1 DEF n
  <2>6. ~(n < 4) => s[4] = SymbolOf(m, 7)
    BY <1>1, <1>3, <1>4, <2>1
  <2>7. ~(n < 7) => s[7] = SymbolOf(m, 10)
    BY <1>1, <1>3, <1>4, <2>1
  <2>8. /\ s[1] = Sym("field", 0) /\ s[1].k = "field" /\ s[1] # Sym("cr", 0)
        /\ ~(n < 4) => s[4].k = "fold"
        /\ ~(n < 7) => s[7].k # "fold"
    <3>1. 3 + 1 = 4 /\ 6 + 1 = 7
      OBVIOUS
    <3>2. s[1] = Sym("field", 0)
      BY <2>3, <2>5, <3>1
    <3>3. ~(n < 4) => s[4] = Sym("fold", 0)
      BY <2>3, <2>6, <3>1
    <3>4. ~(n < 7) => s[7].k # "fold"
      BY <2>4, <2>7
    <3> QED
      BY <3>2, <3>3, <3>4 DEF Sym
  <2>9. \/ n < 7 /\ ParseField(s).r = "need_more"
        \/ ParseField(s) = [r |-> "field", n |-> 6]
    BY <1>1, <2>8, ParseFieldIs DEF n
  <2>10. n < 7 => n < h - g
    BY <1>1, <1>4, <2>1
  <2>11. FieldEnd(m, g) = 9 /\ FieldOf(m, g) = Sym("field", 0) /\ g + 6 = 9
    BY <1>4 DEF FieldEnd, FieldOf
  <2> QED
    BY <2>1, <2>8, <2>9, <2>10, <2>11 DEF n, h
<1>5. CASE ~(g = 3 /\ m.folded)
  <2>1. g = Folds(m) /\ m.framing # "none" /\ h = g + 5 /\ g \in {3, 9}
    BY <1>1, <1>2, <1>5 DEF h
  <2>2. LineIn(m, g, FramingOf(m)) /\ EndIn(m, h - 2)
    BY <1>1, <2>1 DEF HeaderStands, h
  <2>3. SymbolOf(m, g + 1) = FramingOf(m) /\ SymbolOf(m, (h - 2) + 1) = Sym("cr", 0)
    BY <2>2 DEF LineIn, EndIn
  <2>4. s[1] = SymbolOf(m, g + 1)
    BY <1>1, <1>3, <2>1 DEF n
  <2>5. ~(n < 4) => s[4] = SymbolOf(m, (h - 2) + 1)
    <3>1. (h - 2) + 1 = g + 4
      BY <2>1
    <3>2. g + 4 \in Nat /\ g + 4 <= h
      BY <2>1
    <3> QED
      BY <1>1, <1>3, <3>1, <3>2
  <2>6. /\ s[1] = FramingOf(m) /\ s[1].k \in {"length", "chunked"} /\ s[1] # Sym("cr", 0)
        /\ ~(n < 4) => s[4].k # "fold"
    <3>1. s[1] = FramingOf(m) /\ (~(n < 4) => s[4] = Sym("cr", 0))
      BY <2>3, <2>4, <2>5
    <3> QED
      BY <3>1 DEF FramingOf, Sym
  <2>7. \/ n < 4 /\ ParseField(s).r = "need_more"
        \/ ParseField(s) = [r |-> "field", n |-> 3]
    BY <1>1, <2>6, ParseFieldIs DEF n
  <2>8. n < 4 => n < h - g
    BY <1>1, <2>1
  <2>9. FieldEnd(m, g) = h - 2 /\ FieldOf(m, g) = FramingOf(m) /\ g + 3 = h - 2
    BY <1>5, <2>1 DEF FieldEnd, FieldOf, h
  <2> QED
    BY <2>6, <2>7, <2>8, <2>9 DEF n, h
<1> QED
  BY <1>4, <1>5

\* The empty line
LEMMA EmptyMeets ==
  ASSUME NEW m \in Messages, NEW s, InFront(m, HeaderEnd(m) - 2, s), ~(Len(s) < 2)
  PROVE  s[1] = Sym("cr", 0) /\ s[2] = Sym("lf", 0)
<1> DEFINE h == HeaderEnd(m)
<1>1. /\ Len(s) \in Nat /\ h \in Nat /\ h <= Size(m) /\ Size(m) \in Nat /\ HeaderStands(m) /\ 5 <= h
  BY HeaderEom, HeaderIn, EndsAre DEF InFront
<1>2. SymbolOf(m, (h - 2) + 1) = Sym("cr", 0) /\ SymbolOf(m, (h - 2) + 2) = Sym("lf", 0)
  BY <1>1 DEF HeaderStands, EndIn
<1> HIDE DEF h
<1>3. 1 \in 1 .. Len(s) /\ 2 \in 1 .. Len(s) /\ (h - 2) + 1 <= Size(m) /\ (h - 2) + 2 <= Size(m)
  BY <1>1
<1>4. s[1] = SymbolOf(m, (h - 2) + 1) /\ s[2] = SymbolOf(m, (h - 2) + 2)
  BY <1>3, FrontAt DEF h
<1> QED
  BY <1>2, <1>4

\* finish_header
LEMMA FinishUnderstands ==
  ASSUME Was \in Messages, Fits(Was), par \in Parsers, par.s = "fields", "need_eof" \notin par.f,
         InHeader(par, Was, HeaderEnd(Was) - 2, 0), par.bodiless = Was.bodiless
  PROVE  LET y == FinishHeader(par) IN
         \/ y.ec = "" /\ Understands(y.p, HeaderEnd(Was), 0)
         \/ y.ec = "body_limit" /\ Justified("body_limit")
<1> DEFINE y == FinishHeader(par)
           h == HeaderEnd(Was)
           m == Was
           To(s, f) == [par EXCEPT !.s = s, !.f = @ \cup f]
<1>1. /\ par.f = Flags(m) /\ par.len = (IF m.framing = "length" THEN m.length ELSE 0)
      /\ par.limit = BodyLimit /\ m.bodiless \in BOOLEAN /\ m.length \in Nat
      /\ m.framing \in {"length", "chunked", "none"} /\ par.bodiless = m.bodiless
  BY DEF InHeader, HeaderStates, Messages
<1>2. ToServer = IsRequest /\ IsRequest \in BOOLEAN /\ BodyLimit \in Nat
  BY ConstantsAssumption DEF ConstantsAssumption
<1>3. /\ m.bodiless => ~IsRequest /\ m.framing # "chunked" /\ Total(m) = 0
      /\ m.framing = "length" /\ ~m.bodiless => m.length = Total(m)
      /\ m.framing = "none" /\ IsRequest => Total(m) = 0
  BY DEF Fits
<1>4. /\ Total(m) \in Nat /\ h \in Nat
      /\ m.framing # "chunked" => Size(m) = h + Total(m)
  <2>1. Total(m) = Before(m, Len(m.sizes)) /\ Len(m.sizes) \in Nat
    BY EndsAre DEF Total
  <2>2. Total(m) \in Nat /\ h \in Nat
    BY <2>1, EndsAre
  <2> QED
    BY <2>2, NoTail
<1> HIDE DEF h, m
<1>6. ASSUME Total(m) = 0, m.framing # "chunked", ~NeedEof(m, IsRequest),
             NEW p, p.s = "complete", p.f = Flags(m), p.bodiless = m.bodiless
      PROVE  Understands(p, h, 0)
  <2>1. h = Size(m) /\ Total(m) <= BodyLimit
    BY <1>2, <1>4, <1>6
  <2>2. "need_eof" \notin p.f
    BY <1>1, <1>6 DEF Flags, m
  <2>3. AtTheEnd(p, m, h, 0)
    BY <1>6, <2>1, <2>2 DEF AtTheEnd
  <2>4. p.s \notin HeaderStates /\ p.s \notin BodyStates /\ p.s \notin EofStates
        /\ p.s \notin {"chunk_header0", "chunk_header", "chunk_body"}
    BY <1>6 DEF HeaderStates, BodyStates, EofStates
  <2>5. ParserAt(p, m, h, 0)
    BY <1>6, <2>3, <2>4 DEF ParserAt
  <2> QED
    BY <1>6, <2>4, <2>5 DEF Understands, m
<1>7. CASE m.bodiless
  <2>1. y.p = To("complete", {}) /\ y.ec = ""
    BY <1>1, <1>2, <1>3, <1>7 DEF FinishHeader
  <2> HIDE DEF y
  <2>2. y.p.s = "complete" /\ y.p.f = Flags(m) /\ y.p.bodiless = m.bodiless
    <3>1. y.p.s = "complete" /\ y.p.f = par.f \cup {} /\ y.p.bodiless = m.bodiless
      BY <1>1, <2>1 DEF Parsers
    <3>2. par.f \cup {} = par.f
      OBVIOUS
    <3> QED
      BY <1>1, <3>1, <3>2
  <2>3. ~NeedEof(m, IsRequest)
    BY <1>7 DEF NeedEof
  <2> HIDE DEF y
  <2> QED
    BY <1>3, <1>6, <1>7, <2>1, <2>2, <2>3 DEF y, h
<1>8. CASE ~m.bodiless /\ m.framing = "length"
  <2>1. "length" \in par.f /\ par.len = Total(m) /\ ~(~ToServer /\ par.bodiless) /\ par.f = {"length"}
    BY <1>1, <1>3, <1>8 DEF Flags
  <2>2. CASE Total(m) > BodyLimit
    <3>1. par.len > 0 /\ par.len > par.limit
      BY <1>1, <1>2, <1>4, <2>1, <2>2
    <3>2. y.ec = "body_limit"
      BY <2>1, <3>1 DEF FinishHeader
    <3>3. Justified("body_limit")
      <4>1. BodyLimit < Total(m)
        BY <1>2, <1>4, <2>2
      <4> QED
        BY <4>1 DEF Justified, m
    <3> QED
      BY <3>2, <3>3 DEF y
  <2>3. CASE ~(Total(m) > BodyLimit) /\ Total(m) > 0
    <3>1. y.p = To("body0", {"has_body"}) /\ y.ec = ""
      BY <1>1, <2>1, <2>3 DEF FinishHeader
    <3> HIDE DEF y
    <3>2. /\ y.p.s = "body0" /\ y.p.f = {"length", "has_body"} /\ y.p.bodiless = m.bodiless
          /\ y.p.len = Total(m)
      BY <1>1, <2>1, <3>1 DEF Parsers
    <3> HIDE DEF y
    <3>3. Total(m) >= 1 /\ Total(m) <= BodyLimit /\ 0 + Total(m) = Total(m) /\ h = h + 0
      BY <1>2, <1>4, <2>3
    <3>4. InBody(y.p, m, h, 0)
      BY <1>8, <3>2, <3>3 DEF InBody, EofStates, h, m
    <3>5. /\ y.p.s \notin HeaderStates /\ y.p.s \notin EofStates /\ y.p.s # "complete"
          /\ y.p.s \notin {"chunk_header0", "chunk_header", "chunk_body"} /\ "need_eof" \notin y.p.f
      BY <3>2 DEF HeaderStates, EofStates
    <3>6. ParserAt(y.p, m, h, 0)
      BY <1>8, <3>2, <3>4, <3>5 DEF ParserAt
    <3> QED
      BY <3>1, <3>5, <3>6 DEF Understands, y, m, h
  <2>4. CASE ~(Total(m) > 0)
    <3>1. y.p = To("complete", {}) /\ y.ec = "" /\ Total(m) = 0
      BY <1>1, <1>4, <2>1, <2>4 DEF FinishHeader
    <3> HIDE DEF y
    <3>2. y.p.s = "complete" /\ y.p.f = Flags(m) /\ y.p.bodiless = m.bodiless
      <4>1. y.p.s = "complete" /\ y.p.f = par.f \cup {} /\ y.p.bodiless = m.bodiless
        BY <1>1, <3>1 DEF Parsers
      <4>2. par.f \cup {} = par.f
        OBVIOUS
      <4> QED
        BY <1>1, <4>1, <4>2
    <3>3. ~NeedEof(m, IsRequest)
      BY <1>8 DEF NeedEof
    <3> HIDE DEF y
    <3> QED
      BY <1>6, <1>8, <3>1, <3>2, <3>3 DEF y, h
  <2> QED
    BY <2>2, <2>3, <2>4
<1>9. CASE ~m.bodiless /\ m.framing = "chunked"
  <2>1. /\ "length" \notin par.f /\ "chunked" \in par.f /\ ~(~ToServer /\ par.bodiless)
        /\ par.f = {"chunked"}
    BY <1>1, <1>9 DEF Flags
  <2>2. y.p = To("chunk_header0", {"has_body"}) /\ y.ec = ""
    BY <2>1 DEF FinishHeader
  <2> HIDE DEF y
  <2>3. /\ y.p.s = "chunk_header0" /\ y.p.f = {"chunked", "has_body"} /\ y.p.bodiless = m.bodiless
        /\ y.p.limit = BodyLimit
    BY <1>1, <2>1, <2>2 DEF Parsers
  <2> HIDE DEF y
  <2>4. Start(y.p) = 0
    BY <2>3 DEF Start
  <2>5. 0 \in 0 .. Len(m.sizes) /\ h + 0 = PieceEnd(m, 0) /\ Before(m, 0) = 0 /\ BodyLimit - 0 = BodyLimit
        /\ BodyLimit >= 0
    <3>1. m.sizes \in Seq(Nat)
      BY DEF Messages, m
    <3>2. Before(m, 0) = 0
      BY <3>1, Sums
    <3>3. Len(m.sizes) \in Nat /\ PieceEnd(m, 0) = h
      BY EndsAre DEF m, h
    <3> QED
      BY <1>2, <1>4, <3>2, <3>3
  <2>6. InChunks(y.p, m, h, 0)
    <3>1. /\ h + Start(y.p) = PieceEnd(m, 0) /\ (Start(y.p) = 0) = (0 = 0)
          /\ 0 = Before(m, 0) /\ y.p.limit = BodyLimit - Before(m, 0)
          /\ "final" \notin y.p.f
      BY <2>3, <2>4, <2>5
    <3> QED
      BY <1>9, <2>3, <2>4, <2>5, <3>1 DEF InChunks
  <2>7. /\ y.p.s \notin HeaderStates /\ y.p.s \notin EofStates /\ y.p.s # "complete"
        /\ y.p.s \notin BodyStates /\ "need_eof" \notin y.p.f
    BY <2>3 DEF HeaderStates, EofStates, BodyStates
  <2>8. ParserAt(y.p, m, h, 0)
    BY <2>3, <2>6, <2>7 DEF ParserAt
  <2> QED
    BY <2>2, <2>7, <2>8 DEF Understands, y, m, h
<1>10. CASE ~m.bodiless /\ m.framing = "none" /\ IsRequest
  <2>1. "length" \notin par.f /\ "chunked" \notin par.f /\ ~(~ToServer /\ par.bodiless) /\ par.f = {}
    BY <1>1, <1>10 DEF Flags
  <2>2. y.p = To("complete", {}) /\ y.ec = ""
    BY <1>2, <1>10, <2>1 DEF FinishHeader
  <2> HIDE DEF y
  <2>3. y.p.s = "complete" /\ y.p.f = Flags(m) /\ y.p.bodiless = m.bodiless
    <3>1. y.p.s = "complete" /\ y.p.f = par.f \cup {} /\ y.p.bodiless = m.bodiless
      BY <1>1, <2>2 DEF Parsers
    <3>2. par.f \cup {} = par.f
      OBVIOUS
    <3> QED
      BY <1>1, <3>1, <3>2
  <2>4. ~NeedEof(m, IsRequest)
    BY <1>10 DEF NeedEof
  <2> HIDE DEF y
  <2> QED
    BY <1>3, <1>6, <1>10, <2>2, <2>3, <2>4 DEF y, h
<1>11. CASE ~m.bodiless /\ m.framing = "none" /\ ~IsRequest
  <2>1. "length" \notin par.f /\ "chunked" \notin par.f /\ ~(~ToServer /\ par.bodiless) /\ par.f = {}
    BY <1>1, <1>11 DEF Flags
  <2>2. y.p = To("body_to_eof0", {"has_body", "need_eof"}) /\ y.ec = ""
    BY <1>2, <1>11, <2>1 DEF FinishHeader
  <2> HIDE DEF y
  <2>3. /\ y.p.s = "body_to_eof0" /\ y.p.f = {"has_body", "need_eof"} /\ y.p.bodiless = m.bodiless
        /\ y.p.limit = BodyLimit
    BY <1>1, <2>1, <2>2 DEF Parsers
  <2>4. NeedEof(m, IsRequest)
    BY <1>11 DEF NeedEof
  <2> HIDE DEF y
  <2>5. h = h + 0 /\ BodyLimit = BodyLimit - 0
    BY <1>2, <1>4
  <2>6. InBody(y.p, m, h, 0)
    BY <2>3, <2>4, <2>5 DEF InBody, EofStates, h, m
  <2>7. /\ y.p.s \notin HeaderStates /\ y.p.s \in EofStates /\ y.p.s # "complete"
        /\ y.p.s \notin {"chunk_header0", "chunk_header", "chunk_body"}
    BY <2>3 DEF HeaderStates, EofStates
  <2>8. ParserAt(y.p, m, h, 0)
    BY <1>11, <2>3, <2>6, <2>7 DEF ParserAt
  <2> QED
    BY <2>2, <2>3, <2>5, <2>7, <2>8 DEF Understands, y, m, h
<1> QED
  BY <1>1, <1>7, <1>8, <1>9, <1>10, <1>11

LEMMA Upto ==
  ASSUME NEW n \in Nat, NEW i \in 1 .. n
  PROVE  i <= n /\ i \in Nat /\ i - 1 \in 0 .. n /\ i # n + 1
  OBVIOUS

\* Where parse_fields is in the message
FieldsAt ==
  /\ par.s = "fields" /\ par.skip = 0 /\ par \in Parsers /\ Was \in Messages /\ Fits(Was) /\ Len(body) = 0
  /\ InHeader(par, Was, taken + rop.q, 0) /\ "need_eof" \notin par.f /\ par.bodiless = Was.bodiless
  /\ taken + rop.q \in {3, Folds(Was), HeaderEnd(Was) - 2}
  /\ taken + rop.q \in Nat /\ HeaderEnd(Was) - (taken + rop.q) \in Nat /\ 2 <= HeaderEnd(Was) - (taken + rop.q)
  /\ InFront(Was, taken + rop.q, FieldInput) /\ Len(FieldInput) = rop.last - rop.q
  /\ rop \in ReadOps /\ rop.p \in Nat /\ rop.q \in Nat /\ rop.last \in Nat /\ Len(buf) \in Nat /\ taken \in Nat
  /\ rop.p <= rop.q /\ rop.q <= rop.last /\ rop.last <= Len(buf)
  /\ rop.n = Len(buf) - rop.p /\ rop.last = rop.p + Least(HeaderLimit, Len(buf) - rop.p)
  /\ rop.ec = "" /\ BodyIs(body)

LEMMA FieldsMeet ==
  ASSUME ReadInv, rop.pc = "field"
  PROVE  FieldsAt /\ Parsing /\ Meets
<1>1. Parsing /\ Meets
  BY ParsingIs DEF Parsing
<1>2. /\ ReaderInv /\ SenderTypes /\ taken \in Nat
      /\ rop.n = Len(buf) - rop.p /\ rop.last = rop.p + Least(HeaderLimit, Len(buf) - rop.p)
  BY ReaderIs DEF ReadInv, ReadOpInv
<1>3. /\ Len(FieldInput) = rop.last - rop.q /\ par \in Parsers
      /\ rop \in ReadOps /\ rop.p \in Nat /\ rop.q \in Nat /\ rop.last \in Nat /\ Len(buf) \in Nat
      /\ rop.p <= rop.q /\ rop.q <= rop.last /\ rop.last <= Len(buf)
  BY <1>2, FieldInputIs
<1>4. par.s = "fields" /\ par.skip = 0 /\ par.s \in HeaderStates
  BY <1>2, FieldParser DEF HeaderStates
<1>5. Got = taken + rop.q
  BY DEF Got
<1>6. /\ InHeader(par, Was, taken + rop.q, Len(body)) /\ Len(body) = 0 /\ BodyIs(body)
      /\ "need_eof" \notin par.f /\ par.bodiless = Was.bodiless
      /\ taken + rop.q \in Nat /\ HeaderEnd(Was) - (taken + rop.q) \in Nat
      /\ 2 <= HeaderEnd(Was) - (taken + rop.q)
  BY <1>1, <1>4, <1>5, HeaderMeets
<1>7. taken + rop.q \in {3, Folds(Was), HeaderEnd(Was) - 2}
  BY <1>4, <1>6 DEF InHeader
<1>8. Was \in Messages /\ Fits(Was) /\ rop.ec = "" /\ Reading <= Len(script)
  <2>1. Was \in Messages /\ Fits(Was) /\ rop.ec = "" /\ Reading \in 1 .. Len(script)
    BY <1>1 DEF Meets
  <2>2. Len(script) \in Nat
    BY ReaderIs
  <2>3. Reading <= Len(script)
    BY <2>1, <2>2, Upto
  <2> QED
    BY <2>1, <2>3
<1>9. InFront(Was, taken + rop.q, FieldInput)
  BY <1>3, <1>8, BufferIs DEF FieldInput
<1> QED
  BY <1>1, <1>2, <1>3, <1>4, <1>6, <1>7, <1>8, <1>9 DEF FieldsAt

\* How far parse_fields looked, when it ran out of input n symbols behind p
Looked(t, p, q, e, n, l, h, c) ==
  /\ {t, p, q, e, n, l, h, c} \subseteq Nat /\ p <= q /\ q <= e /\ e <= l /\ n = l - p
  /\ e = p + Least(c, n) /\ e - q < h - (t + q)
SawLess(t, q, n, l, h, c) ==
  /\ n >= c => c < h
  /\ ~(n >= c) => /\ l - q < h - (t + q)
                  /\ l - q >= 3 => /\ (l - q) - 3 \in Nat
                                   /\ ((l - q) - 3) + 4 <= h - (t + q) /\ ((l - q) - 3) + 4 <= c

LEMMA RanOut ==
  ASSUME NEW t, NEW p, NEW q, NEW e, NEW n, NEW l, NEW h, NEW c, Looked(t, p, q, e, n, l, h, c)
  PROVE  SawLess(t, q, n, l, h, c)
<1>0. /\ t \in Nat /\ p \in Nat /\ q \in Nat /\ e \in Nat /\ n \in Nat /\ l \in Nat /\ h \in Nat
      /\ c \in Nat /\ p <= q /\ q <= e /\ e <= l /\ n = l - p /\ e = p + Least(c, n)
      /\ e - q < h - (t + q)
  BY DEF Looked
<1>1. CASE n >= c
  <2>1. e = p + c
    <3>1. Least(c, n) = c
      BY <1>0, <1>1 DEF Least
    <3> QED
      BY <1>0, <3>1
  <2> QED
    BY <1>0, <1>1, <2>1 DEF SawLess
<1>2. CASE ~(n >= c)
  <2>1. e = l
    <3>1. Least(c, n) = n
      BY <1>0, <1>2 DEF Least
    <3> QED
      BY <1>0, <3>1
  <2> QED
    BY <1>0, <1>2, <2>1 DEF SawLess
<1> QED
  BY <1>1, <1>2

LEMMA FieldsWait ==
  ASSUME ReadInv, SendInv', ReaderInv', rop.pc = "field", Still, body' = body, FieldsNeedMore,
         Len(FieldInput) < HeaderEnd(Was) - (taken + rop.q)
  PROVE  ReadInv'
<1> DEFINE q == rop.q
           g == taken + q
           h == HeaderEnd(Was)
           left == Len(buf) - q
           k == IF left >= 3 THEN left - 3 ELSE par.skip
<1>1. FieldsAt /\ Parsing
  BY FieldsMeet
<1>2. \/ rop.n >= HeaderLimit /\ par' = par /\ Return(q, "header_limit")
      \/ ~(rop.n >= HeaderLimit) /\ par' = [par EXCEPT !.skip = k] /\ Return(q, "need_more")
  BY DEF FieldsNeedMore
<1>3. HeaderLimit \in Nat /\ h \in Nat
  BY <1>1, EndsAre, ConstantsAssumption DEF FieldsAt, ConstantsAssumption
<1>4. /\ rop.n >= HeaderLimit => HeaderLimit < h
      /\ ~(rop.n >= HeaderLimit) =>
           /\ left < h - g
           /\ left >= 3 => left - 3 \in Nat /\ (left - 3) + 4 <= h - g /\ (left - 3) + 4 <= HeaderLimit
  <2>1. /\ taken \in Nat /\ rop.p \in Nat /\ q \in Nat /\ rop.last \in Nat /\ Len(buf) \in Nat
        /\ rop.n \in Nat /\ rop.p <= q /\ q <= rop.last /\ rop.last <= Len(buf)
        /\ rop.n = Len(buf) - rop.p /\ rop.last = rop.p + Least(HeaderLimit, rop.n)
        /\ rop.last - q < h - (taken + q)
    BY <1>1 DEF FieldsAt, ReadOps
  <2> HIDE DEF q, h
  <2> QED
    <3>1. Looked(taken, rop.p, q, rop.last, rop.n, Len(buf), h, HeaderLimit)
      BY <1>3, <2>1 DEF Looked
    <3>2. SawLess(taken, q, rop.n, Len(buf), h, HeaderLimit)
      BY <3>1, RanOut
    <3> QED
      BY <3>2 DEF SawLess
<1>5. BodyIs(body') /\ Len(body') = 0
  BY <1>1 DEF FieldsAt
<1>6. CASE rop.n >= HeaderLimit /\ par' = par /\ Return(q, "header_limit")
  <2>1. "header_limit" \in PutCodes /\ "header_limit" \in Limits /\ Justified("header_limit")
    BY <1>4, <1>6 DEF PutCodes, Limits, Justified
  <2> QED
    BY <1>1, <1>5, <1>6, <2>1, ReturnReads
<1>7. CASE ~(rop.n >= HeaderLimit) /\ par' = [par EXCEPT !.skip = k] /\ Return(q, "need_more")
  <2>1. "need_more" \in PutCodes /\ "need_more" \notin Limits /\ Justified("need_more")
    BY DEF PutCodes, Limits, Justified
  <2>2. k \in Nat /\ (k # 0 => k + 4 <= h - g /\ k + 4 <= HeaderLimit)
    <3>1. par.skip = 0
      BY <1>1 DEF FieldsAt
    <3> HIDE DEF left, h, g
    <3>2. CASE left >= 3
      BY <1>4, <1>7, <3>2
    <3>3. CASE ~(left >= 3)
      BY <3>1, <3>3
    <3> QED
      BY <3>2, <3>3
  <2> HIDE DEF k
  <2>3. Understands(par', g, 0) /\ Needs(par', Was, g) = h - g
    <3>1. /\ par \in Parsers /\ par.s = "fields" /\ InHeader(par, Was, g, 0) /\ "need_eof" \notin par.f
          /\ par.bodiless = Was.bodiless
      BY <1>1 DEF FieldsAt
    <3>2. par' = [par EXCEPT !.skip = k]
      BY <1>7
    <3> HIDE DEF g
    <3> QED
      BY <2>2, <3>1, <3>2, FieldsGoOn DEF h
  <2>4. Understands(par', taken + q, Len(body')) /\ Len(buf) - q < Needs(par', Was, taken + q)
    BY <1>4, <1>5, <1>7, <2>3
  <2> QED
    BY <1>1, <1>5, <1>7, <2>1, <2>4, ReturnReads
<1> QED
  BY <1>2, <1>6, <1>7

Added(x, old, len, f) ==
  /\ x.ec = "" /\ x.p.s = old.s /\ x.p.skip = old.skip /\ x.p.limit = old.limit
  /\ x.p.bodiless = old.bodiless /\ x.p.f = f /\ x.p.len = len

LEMMA DoFieldIs ==
  ASSUME NEW old \in Parsers, old.f = {}, NEW z
  PROVE  /\ z.k = "field" => DoField(old, z).p = old /\ DoField(old, z).ec = ""
         /\ z.k = "length" => Added(DoField(old, z), old, z.n, {"length"})
         /\ z.k = "chunked" => Added(DoField(old, z), old, 0, {"chunked"})
<1> DEFINE x == DoField(old, z)
<1>1. z.k = "field" => x.p = old /\ x.ec = ""
  BY DEF DoField
<1>2. z.k = "length" => Added(x, old, z.n, {"length"})
  <2> SUFFICES ASSUME z.k = "length" PROVE Added(x, old, z.n, {"length"})
    OBVIOUS
  <2>1. x.p = [old EXCEPT !.len = z.n, !.len0 = z.n, !.f = @ \cup {"length"}] /\ x.ec = ""
    BY DEF DoField
  <2> HIDE DEF x
  <2> QED
    BY <2>1 DEF Added, Parsers
<1>3. z.k = "chunked" => Added(x, old, 0, {"chunked"})
  <2> SUFFICES ASSUME z.k = "chunked" PROVE Added(x, old, 0, {"chunked"})
    OBVIOUS
  <2>1. x.p = [old EXCEPT !.len = 0, !.f = @ \cup {"chunked"}] /\ x.ec = ""
    BY DEF DoField
  <2> HIDE DEF x
  <2> QED
    BY <2>1 DEF Added, Parsers
<1> QED
  BY <1>1, <1>2, <1>3

LEMMA Shorter ==
  ASSUME NEW n \in Nat, NEW a \in Nat, 2 <= a, n < 2
  PROVE  n < a
  OBVIOUS

LEMMA Ending ==
  ASSUME NEW t \in Nat, NEW q \in Nat, NEW h \in Nat, t + q = h - 2
  PROVE  t + (q + 2) = h
  OBVIOUS

LEMMA Onward ==
  ASSUME NEW t \in Nat, NEW q \in Nat, NEW n \in Nat
  PROVE  t + (q + n) = (t + q) + n
  OBVIOUS

\* do_field
LEMMA DoFieldUnderstands ==
  ASSUME FieldsAt, taken + rop.q # HeaderEnd(Was) - 2
  PROVE  LET g == taken + rop.q
             x == DoField(par, FieldOf(Was, g))
         IN  x.ec = "" /\ Understands(x.p, FieldEnd(Was, g), 0)
<1> DEFINE g == taken + rop.q
           m == Was
           h == HeaderEnd(m)
           x == DoField(par, FieldOf(m, g))
           e == FieldEnd(m, g)
<1>1. /\ par.s = "fields" /\ par.skip = 0 /\ par \in Parsers /\ m \in Messages
      /\ InHeader(par, m, g, 0) /\ "need_eof" \notin par.f /\ par.bodiless = m.bodiless
      /\ g \in {3, Folds(m), h - 2} /\ g # h - 2 /\ g \in Nat
  BY DEF FieldsAt
<1>2. /\ h = Folds(m) + (IF m.framing = "none" THEN 2 ELSE 5) /\ Folds(m) = (IF m.folded THEN 9 ELSE 3)
      /\ m.framing \in {"length", "chunked", "none"} /\ m.folded \in BOOLEAN /\ m.length \in Nat
  BY <1>1 DEF HeaderEnd, Folds, Messages
<1> HIDE DEF g, m, h
<1>3. par.f = {} /\ par.len = 0 /\ par.limit = BodyLimit
  BY <1>1 DEF InHeader, HeaderStates, h
<1>4. ASSUME NEW p, p.s = "fields", p.skip = 0, p.limit = BodyLimit, p.bodiless = m.bodiless,
             NEW y \in {Folds(m), h - 2}, "need_eof" \notin p.f,
             p.f = (IF y = h - 2 THEN Flags(m) ELSE {}),
             p.len = (IF y = h - 2 /\ m.framing = "length" THEN m.length ELSE 0)
      PROVE  Understands(p, y, 0)
  <2>1. p.s \in HeaderStates
    BY <1>4 DEF HeaderStates
  <2>2. InHeader(p, m, y, 0)
    BY <1>4 DEF InHeader, h
  <2> QED
    BY <1>4, <2>1, <2>2, HeaderUnderstood DEF m
<1>5. CASE g = 3 /\ m.folded
  <2>1. e = 9 /\ Folds(m) = 9 /\ FieldOf(m, g) = Sym("field", 0)
    BY <1>2, <1>5 DEF FieldEnd, FieldOf
  <2>2. x.p = par /\ x.ec = ""
    <3>1. FieldOf(m, g).k = "field"
      BY <2>1 DEF Sym
    <3> QED
      BY <1>1, <1>3, <3>1, DoFieldIs
  <2>3. 9 = h - 2 => m.framing = "none"
    BY <1>2, <2>1
  <2>4. par.f = (IF 9 = h - 2 THEN Flags(m) ELSE {})
    BY <1>3, <2>3 DEF Flags
  <2>5. par.len = (IF 9 = h - 2 /\ m.framing = "length" THEN m.length ELSE 0)
    BY <1>3, <2>3
  <2> HIDE DEF x, e
  <2>6. Understands(par, 9, 0)
    BY <1>1, <1>3, <1>4, <2>1, <2>4, <2>5
  <2> QED
    BY <2>1, <2>2, <2>6 DEF x, e, g, m
<1>6. CASE ~(g = 3 /\ m.folded)
  <2>1. e = h - 2 /\ FieldOf(m, g) = FramingOf(m) /\ m.framing # "none"
    <3>1. m.framing # "none"
      BY <1>1, <1>2, <1>6
    <3> QED
      BY <1>6, <3>1 DEF FieldEnd, FieldOf, h
  <2>2. CASE m.framing = "length"
    <3>1. FramingOf(m) = Sym("length", m.length)
      BY <2>2 DEF FramingOf
    <3>2. FieldOf(m, g).k = "length" /\ FieldOf(m, g).n = m.length
      BY <2>1, <3>1 DEF Sym
    <3>3. /\ x.p.s = "fields" /\ x.p.skip = 0 /\ x.p.limit = BodyLimit /\ x.p.bodiless = m.bodiless
          /\ x.p.f = {"length"} /\ x.p.len = m.length /\ x.ec = ""
      <4>1. Added(x, par, m.length, {"length"})
        BY <1>1, <1>3, <3>2, DoFieldIs
      <4> HIDE DEF x
      <4> QED
        BY <1>1, <1>3, <4>1 DEF Added
    <3> HIDE DEF x, e
    <3>4. Flags(m) = {"length"}
      BY <2>2 DEF Flags
    <3>5. Understands(x.p, h - 2, 0)
      BY <1>4, <2>2, <3>3, <3>4
    <3> QED
      BY <2>1, <3>3, <3>5 DEF x, e, g, m
  <2>3. CASE m.framing = "chunked"
    <3>1. FramingOf(m) = Sym("chunked", 0)
      BY <2>3 DEF FramingOf
    <3>2. FieldOf(m, g).k = "chunked"
      BY <2>1, <3>1 DEF Sym
    <3>3. /\ x.p.s = "fields" /\ x.p.skip = 0 /\ x.p.limit = BodyLimit /\ x.p.bodiless = m.bodiless
          /\ x.p.f = {"chunked"} /\ x.p.len = 0 /\ x.ec = ""
      <4>1. Added(x, par, 0, {"chunked"})
        BY <1>1, <1>3, <3>2, DoFieldIs
      <4> HIDE DEF x
      <4> QED
        BY <1>1, <1>3, <4>1 DEF Added
    <3> HIDE DEF x, e
    <3>4. Flags(m) = {"chunked"}
      BY <2>3 DEF Flags
    <3>5. Understands(x.p, h - 2, 0)
      BY <1>4, <2>3, <3>3, <3>4
    <3> QED
      BY <2>1, <3>3, <3>5 DEF x, e, g, m
  <2> QED
    BY <1>2, <2>1, <2>2, <2>3
<1> QED
  BY <1>5, <1>6

LEMMA FieldReads ==
  ASSUME ReadInv, SendInv', ReaderInv', rop.pc = "field", Field, UNCHANGED serVars
  PROVE  ReadInv'
<1> DEFINE s == FieldInput
           g == taken + rop.q
           h == HeaderEnd(Was)
           x == DoField(par, s[1])
           y == FinishHeader(par)
<1>1. Still /\ body' = body
  BY FieldDoes DEF Still
<1>2. FieldsAt /\ Parsing
  BY FieldsMeet
<1>3. /\ Was \in Messages /\ InFront(Was, g, s) /\ g \in {3, Folds(Was), h - 2} /\ rop \in ReadOps
      /\ g \in Nat /\ 2 <= h - g /\ h - g \in Nat /\ Behind(rop.q) = rop.q /\ rop.ec = "" /\ Len(body) = 0
      /\ rop.q \in Nat /\ taken \in Nat
  BY <1>2 DEF FieldsAt, Behind
<1>4. BodyIs(body')
  BY <1>1, <1>2 DEF FieldsAt
<1>5. Len(s) \in Nat /\ h \in Nat
  BY <1>3, EndsAre DEF InFront
<1> HIDE DEF s, h
<1>6. ASSUME FieldsNeedMore, Len(s) < h - g PROVE ReadInv'
  BY <1>1, <1>6, FieldsWait DEF s, h
<1>7. CASE Len(s) < 2
  <2>1. FieldsNeedMore
    BY <1>7, FieldCases DEF s
  <2>2. Len(s) < h - g
    <3> HIDE DEF g
    <3> QED
      BY <1>3, <1>5, <1>7, Shorter
  <2> QED
    BY <1>6, <2>1, <2>2
<1>8. CASE ~(Len(s) < 2) /\ g = h - 2
  <2>1. s[1] = Sym("cr", 0) /\ s[2] = Sym("lf", 0)
    BY <1>3, <1>8, EmptyMeets DEF h
  <2>2. FieldsEnd
    BY <1>8, <2>1, FieldCases DEF s
  <2>3. /\ par' = y.p
        /\ y.ec # "" => Return(rop.q + 2, y.ec)
        /\ y.ec = "" => Break(rop.q + 2, par')
    BY <2>2, FieldsEndDoes
  <2>4. taken + (rop.q + 2) = h
    <3>1. taken \in Nat /\ rop.q \in Nat /\ h \in Nat /\ taken + rop.q = h - 2
      BY <1>3, <1>5, <1>8
    <3> QED
      BY <3>1, Ending
  <2>5. \/ y.ec = "" /\ Understands(y.p, h, 0)
        \/ y.ec = "body_limit" /\ Justified("body_limit")
    <3>1. /\ Fits(Was) /\ par \in Parsers /\ par.s = "fields" /\ "need_eof" \notin par.f
          /\ par.bodiless = Was.bodiless /\ InHeader(par, Was, HeaderEnd(Was) - 2, 0)
      BY <1>2, <1>8 DEF FieldsAt, h
    <3> QED
      BY <1>3, <3>1, FinishUnderstands DEF h
  <2> HIDE DEF y, g
  <2>6. CASE y.ec = "" /\ Understands(y.p, h, 0)
    <3>1. Understands(par', taken + (rop.q + 2), Len(body'))
      BY <1>1, <1>3, <2>3, <2>4, <2>6
    <3>2. Break(rop.q + 2, par')
      BY <2>3, <2>6
    <3> QED
      BY <1>1, <1>2, <1>4, <3>1, <3>2, BreakReads
  <2>7. CASE y.ec = "body_limit" /\ Justified("body_limit")
    <3>1. "body_limit" \in PutCodes /\ "body_limit" \in Limits /\ Return(rop.q + 2, "body_limit")
      BY <2>3, <2>7 DEF PutCodes, Limits
    <3> QED
      BY <1>1, <1>2, <1>4, <2>7, <3>1, ReturnReads
  <2> QED
    BY <2>5, <2>6, <2>7
<1>9. CASE ~(Len(s) < 2) /\ g # h - 2
  <2>1. g \in {3, Folds(Was)}
    BY <1>3, <1>9
  <2>2. /\ s[1] = FieldOf(Was, g) /\ s[1].k \in {"field", "length", "chunked"} /\ s[1] # Sym("cr", 0)
        /\ ParseField(s).r \in {"need_more", "field"}
        /\ ParseField(s).r = "need_more" => Len(s) < HeaderEnd(Was) - g
        /\ ParseField(s).r = "field" => ParseField(s).n \in Nat /\ g + ParseField(s).n = FieldEnd(Was, g)
    <3>1. g # HeaderEnd(Was) - 2
      BY <1>9 DEF h
    <3> HIDE DEF g
    <3> QED
      BY <1>3, <1>9, <2>1, <3>1, FieldMeets
  <2>3. \/ ParseField(s).r = "need_more" /\ FieldsNeedMore
        \/ /\ ParseField(s).r = "field" /\ par' = x.p
           /\ IF x.ec # "" THEN Return(Behind(rop.q), x.ec)
              ELSE rop' = [rop EXCEPT !.q = @ + ParseField(s).n]
    BY <1>9, <2>2, FieldCases DEF s
  <2>4. CASE ParseField(s).r = "need_more" /\ FieldsNeedMore
    BY <1>6, <2>2, <2>4 DEF h
  <2>5. CASE /\ ParseField(s).r = "field" /\ par' = x.p
             /\ IF x.ec # "" THEN Return(Behind(rop.q), x.ec)
                ELSE rop' = [rop EXCEPT !.q = @ + ParseField(s).n]
    <3> DEFINE n == ParseField(s).n
    <3>1. x.ec = "" /\ Understands(par', FieldEnd(Was, g), 0)
      BY <1>2, <1>9, <2>2, <2>5, DoFieldUnderstands DEF h
    <3>2. n \in Nat /\ g + n = FieldEnd(Was, g)
      BY <2>2, <2>5
    <3>3. rop' = [rop EXCEPT !.q = @ + n]
      BY <2>5, <3>1
    <3> HIDE DEF n
    <3>4. /\ rop'.q = rop.q + n /\ rop'.pc = "field" /\ rop'.ec = "" /\ rop'.p = rop.p /\ rop'.n = rop.n
          /\ rop'.last = rop.last
      BY <1>3, <3>3 DEF ReadOps
    <3>5. taken + rop'.q = FieldEnd(Was, g)
      <4>1. taken + (rop.q + n) = g + n
        BY <1>3, <3>2, Onward
      <4> QED
        BY <3>2, <3>4, <4>1
    <3>6. Understands(par', taken + (IF rop'.pc = "field" THEN rop'.q ELSE rop'.p), Len(body'))
      BY <1>1, <1>3, <3>1, <3>4, <3>5
    <3>7. Goes(rop'.pc, rop'.ec) /\ Justified(rop'.ec)
      BY <3>4 DEF Goes, PutCodes, Justified
    <3>8. rop'.n = Len(buf) - rop'.p /\ rop'.last = rop'.p + Least(HeaderLimit, Len(buf) - rop'.p)
      BY <1>2, <3>4 DEF FieldsAt
    <3>9. rop'.pc # "put" /\ rop'.pc # "trailer" /\ rop'.ec # "need_buffer" /\ rop'.ec # "need_more"
      BY <3>4
    <3> QED
      BY <1>1, <1>2, <1>4, <3>6, <3>7, <3>8, <3>9, PutsOn
  <2> QED
    BY <2>3, <2>4, <2>5
<1> QED
  BY <1>7, <1>8, <1>9

LEMMA Same ==
  ASSUME NEW n \in Nat
  PROVE  n <= n
  OBVIOUS

-----------------------------------------------------------------------------
(* The body *)

LEMMA AcceptTakes ==
  ASSUME par \in Parsers, NEW s, Len(s) \in Nat
  PROVE  LET a == Accept(s) IN
         /\ a.n \in Nat /\ a.n <= Len(s) /\ a.ec \in {"", "need_buffer"}
         /\ a.ec = "" => a.n = Len(s)
         /\ a.ec # "" => a.n < Len(s)
         /\ how.body = "string" => a.ec = ""
<1> DEFINE a == Accept(s)
           n == Len(s)
           room == par.room
<1>0. room \in Nat /\ n \in Nat
  BY DEF Parsers
<1>1. CASE how.body = "string"
  <2>1. a.n = n /\ a.ec = ""
    BY <1>1 DEF Accept
  <2> HIDE DEF a, n
  <2> QED
    <3>1. /\ a.n \in Nat /\ a.n <= n /\ a.ec \in {"", "need_buffer"} /\ (a.ec = "" => a.n = n)
          /\ (a.ec # "" => a.n < n) /\ (how.body = "string" => a.ec = "")
      <4>1. n <= n
        BY <1>0, Same
      <4> QED
        BY Zenon, <1>0, <2>1, <4>1
    <3> QED
      BY Zenon, <3>1 DEF a, n
<1>2. CASE how.body # "string"
  <2>1. a.n = Least(n, room) /\ a.ec = (IF n <= room THEN "" ELSE "need_buffer")
    BY <1>2 DEF Accept
  <2> HIDE DEF a, n, room
  <2>2. CASE n <= room
    <3>1. Least(n, room) = n
      BY <1>0, <2>2 DEF Least
    <3>2. a.n = n /\ a.ec = ""
      BY <2>1, <2>2, <3>1
    <3> QED
      <4>1. /\ a.n \in Nat /\ a.n <= n /\ a.ec \in {"", "need_buffer"} /\ (a.ec = "" => a.n = n)
            /\ (a.ec # "" => a.n < n) /\ (how.body = "string" => a.ec = "")
        <5>1. n <= n
          BY <1>0, Same
        <5> QED
          BY Zenon, <1>0, <3>2, <5>1
      <4> QED
        BY Zenon, <4>1 DEF a, n
  <2>3. CASE ~(n <= room)
    <3>1. Least(n, room) = room
      BY <1>0, <2>3 DEF Least
    <3>2. a.n = room /\ a.ec = "need_buffer" /\ room < n
      BY <1>0, <2>1, <2>3, <3>1
    <3>3. a.n \in Nat /\ a.n <= n /\ a.n < n
      BY <1>0, <3>2
    <3> QED
      <4>1. /\ a.n \in Nat /\ a.n <= n /\ a.ec \in {"", "need_buffer"} /\ (a.ec = "" => a.n = n)
            /\ (a.ec # "" => a.n < n) /\ (how.body = "string" => a.ec = "")
        BY <1>2, <3>2, <3>3
      <4> QED
        BY Zenon, <4>1 DEF a, n
  <2> QED
    BY <2>2, <2>3
<1> QED
  BY <1>1, <1>2

Begins(s, r, l) ==
  /\ s \in Texts /\ Len(s) \in Nat /\ Len(s) <= l /\ Len(s) <= Len(r)
  /\ \A i \in 1 .. Len(s) : i \in 1 .. Len(r) /\ s[i] = r[i]

LEMMA Beginning ==
  ASSUME NEW r \in Texts, NEW l \in Nat, NEW s, s = SubSeq(r, 1, Least(l, Len(r)))
  PROVE  Begins(s, r, l)
<1> DEFINE k == Least(l, Len(r))
<1>1. r \in Seq(Symbols) /\ Len(r) \in Nat
  BY LenProperties DEF Texts
<1>2. k \in Nat /\ k <= l /\ k <= Len(r)
  BY <1>1 DEF Least
<1> HIDE DEF k
<1>3. s = SubSeq(r, 1, k)
  BY DEF k
<1>4. s \in Seq(Symbols) /\ Len(s) = k /\ \A i \in 1 .. k : s[i] = r[i]
  <2> DEFINE t == SubSeq(r, 1, k)
  <2>1. \A i \in 1 .. k : r[i] \in Symbols
    <3>1. \A i \in 1 .. k : i \in 1 .. Len(r)
      BY <1>1, <1>2
    <3> QED
      BY <1>1, <3>1, ElementOfSeq
  <2>2. t \in Seq(Symbols) /\ Len(t) = k /\ \A i \in 1 .. k : t[i] = r[i]
    BY <1>2, <2>1, SubSeqProperties
  <2> HIDE DEF t
  <2> QED
    BY <1>3, <2>2 DEF t
<1> QED
  BY <1>1, <1>2, <1>4 DEF Texts, Begins

\* The body grows by the next of its octets
LEMMA BodyTakes ==
  ASSUME BodyIs(body), Len(body) \in Nat, NEW s \in Texts, NEW n \in Nat, n <= Len(s), Len(s) \in Nat,
         body' = body \o SubSeq(s, 1, n), Len(body) + n <= Total(Was),
         \A i \in 1 .. n : s[i] = Sym("octet", Len(body) + i)
  PROVE  BodyIs(body') /\ Len(body') = Len(body) + n
<1> DEFINE d == SubSeq(s, 1, n)
           b == Len(body)
<1>1. d \in Seq(Symbols) /\ Len(d) = n /\ \A i \in 1 .. n : d[i] = s[i]
  BY SubSeqProperties DEF Texts
<1> HIDE DEF d
<1>2. body \in Seq(Symbols) /\ \A i \in 1 .. b : body[i] = Sym("octet", i)
  BY DEF BodyIs, Texts
<1>3. /\ body' \in Seq(Symbols) /\ Len(body') = b + n
      /\ \A i \in 1 .. b + n : body'[i] = IF i <= b THEN body[i] ELSE d[i - b]
  <2>1. body' = body \o d
    BY DEF d
  <2> QED
    BY <1>1, <1>2, <2>1, ConcatProperties
<1>4. ASSUME NEW i \in 1 .. b + n PROVE body'[i] = Sym("octet", i)
  <2>1. CASE i <= b
    <3>1. i \in 1 .. b /\ body'[i] = body[i]
      BY <1>3, <2>1
    <3> QED
      BY <1>2, <3>1
  <2>2. CASE ~(i <= b)
    <3>1. i - b \in 1 .. n /\ b + (i - b) = i
      BY <2>2
    <3>2. body'[i] = d[i - b]
      BY <1>3, <2>2
    <3> HIDE DEF b
    <3> QED
      BY <1>1, <3>1, <3>2 DEF b
  <2> QED
    BY <2>1, <2>2
<1> QED
  BY <1>3, <1>4 DEF BodyIs, Texts

LEMMA BodyReads ==
  ASSUME ReadInv, SendInv', ReaderInv', Parsing, Still, NEW n, NEW ec \in {"", "need_buffer"},
         ec # "" => Return(rop.p + n, ec) /\ ~Done(par'), ec = "" => Break(rop.p + n, par'),
         BodyIs(body'), Understands(par', taken + (rop.p + n), Len(body'))
  PROVE  ReadInv'
<1>1. CASE ec = ""
  BY <1>1, BreakReads
<1>2. CASE ec = "need_buffer"
  <2>1. "need_buffer" \in PutCodes /\ Justified("need_buffer")
    BY DEF PutCodes, Justified
  <2> QED
    BY <1>2, <2>1, ReturnReads
<1> QED
  BY <1>1, <1>2

\* What the body states know
LEMMA BodyMeets ==
  ASSUME ReadInv, rop.pc = "put"
  PROVE  /\ Parsing /\ Meets /\ par \in Parsers /\ BodyIs(body) /\ Len(body) \in Nat
         /\ rop.p \in Nat /\ taken \in Nat /\ Got = taken + rop.p /\ Was \in Messages
         /\ Rest \in Texts /\ Len(Rest) \in Nat /\ InFront(Was, taken + rop.p, Rest)
         /\ ParserAt(par, Was, taken + rop.p, Len(body)) /\ Len(Rest) = Len(buf) - rop.p
         /\ Len(buf) \in Nat /\ Fits(Was) /\ rop.p < Len(buf) /\ 1 <= Len(Rest)
<1>1. Parsing /\ Meets
  BY ParsingIs DEF Parsing
<1>2. /\ par \in Parsers /\ Len(body) \in Nat /\ rop.p \in Nat /\ taken \in Nat /\ body \in Texts
      /\ Len(buf) \in Nat /\ rop.p < Len(buf)
  BY ReaderIs DEF ReadInv, ReadOpInv
<1>3. Got = taken + rop.p
  BY DEF Got
<1>4. /\ Was \in Messages /\ InFront(Was, taken + rop.p, Rest) /\ ParserAt(par, Was, Got, Len(body))
      /\ Len(Rest) = Len(buf) - rop.p /\ Fits(Was) /\ Len(Rest) \in Nat
      /\ Len(body) <= Total(Was) /\ \A i \in 1 .. Len(body) : body[i] = Sym("octet", i)
  BY <1>1 DEF Meets
<1>5. Rest \in Texts
  BY <1>4 DEF InFront
<1>6. BodyIs(body)
  BY <1>2, <1>4 DEF BodyIs
<1>7. 1 <= Len(Rest)
  BY <1>2, <1>4, Ahead
<1> QED
  BY <1>1, <1>2, <1>3, <1>4, <1>5, <1>6, <1>7

LEMMA Below ==
  ASSUME NEW n \in Nat, NEW k \in Nat, NEW l \in Nat, k <= l
  PROVE  (n <= k => n <= l) /\ (n < k => n < l) /\ (n <= k => \A i \in 1 .. n : i \in 1 .. k)
  OBVIOUS

BodyGoes(b, n, l, t, h, g) ==
  /\ b + n <= t /\ g + n = h + (b + n)
  /\ n < l => l - n >= 1 /\ (b + n) + (l - n) = t
  /\ l - n = 0 => b + n = t
  /\ ~(n < l) => l - n = 0
  /\ \A i \in 1 .. n : b + i \in 1 .. t /\ g + i = h + (b + i) /\ h + (b + i) <= h + t

LEMMA BodyCounts ==
  ASSUME NEW b \in Nat, NEW n \in Nat, NEW l \in Nat, NEW t \in Nat, NEW h \in Nat, NEW g \in Nat,
         b + l = t, g = h + b, n <= l, l >= 1
  PROVE  BodyGoes(b, n, l, t, h, g)
  BY DEF BodyGoes

LEMMA PutBodyReads ==
  ASSUME ReadInv, SendInv', ReaderInv', PutBody, UNCHANGED serVars
  PROVE  ReadInv'
<1> DEFINE s == SubSeq(Rest, 1, Least(par.len, Len(Rest)))
           a == Accept(s)
           left == par.len - a.n
           to == IF a.ec = "" /\ left = 0 THEN "complete" ELSE "body"
           m == Was
           g == taken + rop.p
           b == Len(body)
           h == HeaderEnd(m)
           t == Total(m)
<1>1. /\ rop.pc = "put" /\ par.s \in {"body0", "body"} /\ Store(s, a)
      /\ par' = [par EXCEPT !.len = left, !.room = Room(a), !.s = to]
      /\ a.ec # "" => Return(rop.p + a.n, a.ec)
      /\ a.ec = "" => Break(rop.p + a.n, par')
      /\ UNCHANGED <<buf, how, taken, received>>
  BY DEF PutBody
<1>2. Still /\ body' = body \o SubSeq(s, 1, a.n)
  BY <1>1 DEF Still, Store
<1>3. /\ Parsing /\ par \in Parsers /\ BodyIs(body) /\ b \in Nat /\ rop.p \in Nat /\ taken \in Nat
      /\ m \in Messages /\ Rest \in Texts /\ Len(Rest) \in Nat /\ InFront(m, g, Rest)
      /\ ParserAt(par, m, g, b) /\ g \in Nat
  BY <1>1, BodyMeets DEF InFront
<1>4. /\ m.framing = "length" /\ "length" \in par.f /\ par.len >= 1 /\ t <= BodyLimit
      /\ b + par.len = t /\ g = h + b /\ ~m.bodiless /\ "need_eof" \notin par.f
      /\ par.bodiless = m.bodiless
  BY <1>1, <1>3 DEF ParserAt, InBody, BodyStates, EofStates
<1>5. par.len \in Nat /\ h \in Nat /\ t \in Nat /\ Size(m) = h + t
  <2>1. par.len \in Int /\ par.len >= 1
    BY <1>3, <1>4 DEF Parsers
  <2>2. par.len \in Nat
    BY <2>1
  <2>3. t = Before(m, Len(m.sizes)) /\ Len(m.sizes) \in Nat
    BY <1>3, EndsAre DEF Total
  <2>4. t \in Nat /\ h \in Nat
    BY <1>3, <2>3, EndsAre
  <2>5. m.framing # "chunked"
    BY <1>4
  <2>6. Size(m) = h + t
    BY <1>3, <2>5, NoTail
  <2> QED
    BY <2>2, <2>4, <2>6
<1>6. /\ s \in Texts /\ Len(s) \in Nat /\ Len(s) <= par.len /\ Len(s) <= Len(Rest)
      /\ \A i \in 1 .. Len(s) : i \in 1 .. Len(Rest) /\ s[i] = Rest[i]
  <2>1. s = SubSeq(Rest, 1, Least(par.len, Len(Rest)))
    OBVIOUS
  <2> HIDE DEF s
  <2>2. Begins(s, Rest, par.len)
    BY <1>3, <1>5, <2>1, Beginning
  <2> QED
    BY <2>2 DEF Begins
<1> HIDE DEF s
<1>7. /\ a.n \in Nat /\ a.n <= Len(s) /\ a.ec \in {"", "need_buffer"}
      /\ a.ec = "" => a.n = Len(s)
      /\ a.ec # "" => a.n < Len(s)
  BY <1>3, <1>6, AcceptTakes
<1> HIDE DEF a
<1> DEFINE n == a.n
<1>8. n \in Nat /\ n <= par.len /\ (a.ec # "" => n < par.len)
  BY <1>5, <1>6, <1>7, Below
<1> HIDE DEF n, m, g, b, h, t
<1>9. /\ b + n <= t /\ (n < par.len => left >= 1 /\ (b + n) + left = t) /\ (left = 0 => b + n = t)
      /\ (~(n < par.len) => left = 0) /\ (g + n = h + (b + n))
      /\ \A i \in 1 .. n : b + i \in 1 .. t /\ g + i = h + (b + i) /\ h + (b + i) <= Size(m)
  <2>1. left = par.len - n
    BY DEF n
  <2> HIDE DEF left
  <2>2. BodyGoes(b, n, par.len, t, h, g)
    BY <1>3, <1>4, <1>5, <1>8, BodyCounts
  <2> QED
    BY <1>5, <2>1, <2>2 DEF BodyGoes
<1> HIDE DEF left
<1>10. ASSUME NEW i \in 1 .. n PROVE s[i] = Sym("octet", b + i)
  <2>1. i \in 1 .. Len(s) /\ i \in 1 .. Len(Rest) /\ s[i] = Rest[i] /\ i \in Nat
    <3>1. n \in Nat /\ n <= Len(s) /\ Len(s) <= Len(s)
      BY <1>6, <1>7, Same DEF n
    <3>2. i \in 1 .. Len(s)
      BY <1>6, <3>1, Below
    <3> QED
      BY <1>6, <3>2
  <2>2. b + i \in 1 .. t /\ g + i = h + (b + i) /\ h + (b + i) <= Size(m)
    BY <1>9
  <2>3. Rest[i] = SymbolOf(m, h + (b + i))
    BY <1>3, <2>1, <2>2, FrontAt
  <2>4. m.framing # "chunked"
    BY <1>4
  <2>5. SymbolOf(m, h + (b + i)) = Sym("octet", b + i)
    BY <1>3, <2>2, <2>4, BodyIn DEF h, t
  <2> QED
    BY <2>1, <2>3, <2>5
<1>11. BodyIs(body') /\ Len(body') = b + n
  <2>1. body' = body \o SubSeq(s, 1, n) /\ n <= Len(s)
    BY <1>2, <1>7 DEF n
  <2> QED
    BY <1>3, <1>6, <1>8, <1>9, <1>10, <2>1, BodyTakes DEF b, t, m
<1>12. /\ par'.s = to /\ par'.len = left /\ par'.f = par.f /\ par'.bodiless = par.bodiless
  BY <1>1, <1>3 DEF Parsers
<1>13. Understands(par', g + n, b + n)
  <2>1. par'.s \notin HeaderStates /\ par'.s \notin EofStates
        /\ par'.s \notin {"chunk_header0", "chunk_header", "chunk_body"}
    BY <1>12 DEF HeaderStates, EofStates
  <2>2. ~NeedEof(m, IsRequest)
    BY <1>4 DEF NeedEof
  <2>3. CASE to = "complete"
    <3>1. left = 0
      BY <2>3
    <3>2. b + n = t /\ g + n = Size(m)
      BY <1>5, <1>9, <3>1
    <3>3. AtTheEnd(par', m, g + n, b + n)
      BY <1>4, <1>12, <2>2, <3>2 DEF AtTheEnd, t
    <3>4. ParserAt(par', m, g + n, b + n)
      BY <1>4, <1>12, <2>1, <2>3, <3>3 DEF ParserAt, BodyStates
    <3> QED
      BY <2>1, <2>2, <3>4 DEF Understands, m
  <2>4. CASE to = "body"
    <3>1. n < par.len
      <4>1. CASE a.ec # ""
        BY <1>8, <4>1
      <4>2. CASE a.ec = ""
        BY <1>9, <2>4, <4>2
      <4> QED
        BY <4>1, <4>2
    <3>2. InBody(par', m, g + n, b + n)
      BY <1>4, <1>9, <1>12, <2>1, <3>1 DEF InBody, h, t
    <3>3. ParserAt(par', m, g + n, b + n)
      BY <1>4, <1>12, <2>1, <2>4, <3>2 DEF ParserAt
    <3> QED
      BY <1>12, <2>1, <2>4, <3>3 DEF Understands, m
  <2> QED
    BY <2>3, <2>4
<1>14. Understands(par', taken + (rop.p + n), Len(body'))
  <2>1. taken + (rop.p + n) = g + n
    BY <1>3, <1>8, Onward DEF g
  <2> QED
    BY <1>11, <1>13, <2>1
<1>15. a.ec # "" => Return(rop.p + n, a.ec) /\ ~Done(par')
  <2>1. a.ec # "" => to = "body"
    OBVIOUS
  <2> QED
    BY <1>1, <1>12, <2>1 DEF Done, n
<1>16. a.ec = "" => Break(rop.p + n, par')
  BY <1>1 DEF n
<1> HIDE DEF to
<1> QED
  BY <1>2, <1>3, <1>7, <1>11, <1>14, <1>15, <1>16, BodyReads

LEMMA Among ==
  ASSUME NEW n \in Nat, NEW k \in Nat, n <= k, NEW i \in 1 .. n
  PROVE  i \in 1 .. k /\ i \in Nat
  OBVIOUS

EofGoes(b, n, r, t, h, g, l) ==
  /\ b + n <= t /\ g + n = h + (b + n) /\ (n = r => l - b - r = l - (b + n))
  /\ r > l - b => l < t
  /\ \A i \in 1 .. n : b + i \in 1 .. t /\ g + i = h + (b + i) /\ h + (b + i) <= h + t

LEMMA EofCounts ==
  ASSUME NEW b \in Nat, NEW n \in Nat, NEW r \in Nat, NEW t \in Nat, NEW h \in Nat, NEW g \in Nat,
         NEW l \in Nat, n <= r, g = h + b, g + r <= h + t
  PROVE  EofGoes(b, n, r, t, h, g, l)
<1>1. b + r <= t
  OBVIOUS
<1>2. b + n <= t /\ g + n = h + (b + n)
  BY <1>1
<1>3. (n = r => l - b - r = l - (b + n)) /\ (r > l - b => l < t)
  BY <1>1
<1>4. \A i \in 1 .. n : b + i \in 1 .. t /\ g + i = h + (b + i) /\ h + (b + i) <= h + t
  BY <1>2
<1> QED
  BY <1>2, <1>3, <1>4 DEF EofGoes

LEMMA PutBodyToEofReads ==
  ASSUME ReadInv, SendInv', ReaderInv', PutBodyToEof, UNCHANGED serVars
  PROVE  ReadInv'
<1> DEFINE a == Accept(Rest)
           r == Len(Rest)
           n == a.n
           m == Was
           g == taken + rop.p
           b == Len(body)
           h == HeaderEnd(m)
           t == Total(m)
<1>1. rop.pc = "put" /\ par.s \in EofStates /\ UNCHANGED <<buf, how, taken, received>>
  BY DEF PutBodyToEof, EofStates
<1>2. Still
  BY <1>1 DEF Still
<1>3. /\ Parsing /\ Meets /\ par \in Parsers /\ BodyIs(body) /\ b \in Nat /\ rop.p \in Nat /\ taken \in Nat
      /\ m \in Messages /\ Rest \in Texts /\ r \in Nat /\ InFront(m, g, Rest)
      /\ ParserAt(par, m, g, b) /\ g \in Nat
  BY <1>1, BodyMeets DEF InFront
<1>4. /\ NeedEof(m, IsRequest) /\ par.f = {"has_body", "need_eof"} /\ g = h + b /\ ~m.bodiless
      /\ par.bodiless = m.bodiless
  BY <1>1, <1>3 DEF ParserAt, InBody, BodyStates, EofStates
<1>5. /\ how.body = "string" => par.limit = BodyLimit - b
      /\ g + r <= Size(m)
  BY <1>1, <1>3, <1>4 DEF Meets
<1>6. h \in Nat /\ t \in Nat /\ Size(m) = h + t /\ BodyLimit \in Nat /\ m.framing # "chunked"
  <2>1. t = Before(m, Len(m.sizes)) /\ Len(m.sizes) \in Nat
    BY <1>3, EndsAre DEF Total
  <2>2. t \in Nat /\ h \in Nat
    BY <1>3, <2>1, EndsAre
  <2>3. m.framing # "chunked"
    BY <1>4 DEF NeedEof
  <2>4. Size(m) = h + t
    BY <1>3, <2>3, NoTail
  <2> QED
    BY <2>2, <2>3, <2>4, ConstantsAssumption DEF ConstantsAssumption
<1>7. /\ n \in Nat /\ n <= r /\ a.ec \in {"", "need_buffer"}
      /\ a.ec = "" => n = r
      /\ how.body = "string" => a.ec = ""
  BY <1>3, AcceptTakes
<1>8. \/ /\ r > par.limit /\ par' = [par EXCEPT !.s = "body_to_eof"]
         /\ Return(rop.p, "body_limit") /\ body' = body
      \/ /\ ~(r > par.limit) /\ Store(Rest, a)
         /\ par' = [par EXCEPT !.s = "body_to_eof", !.limit = @ - r, !.room = Room(a)]
         /\ IF a.ec # "" THEN Return(rop.p + n, a.ec) ELSE Break(rop.p + n, par')
  BY DEF PutBodyToEof
<1> HIDE DEF a, r, n, m, g, b, h, t
<1>9. EofGoes(b, n, r, t, h, g, BodyLimit)
  BY <1>3, <1>4, <1>5, <1>6, <1>7, EofCounts
<1>10. /\ b + n <= t /\ g + n = h + (b + n) /\ (n = r => BodyLimit - b - r = BodyLimit - (b + n))
       /\ r > BodyLimit - b => BodyLimit < t
       /\ \A i \in 1 .. n : b + i \in 1 .. t /\ g + i = h + (b + i) /\ h + (b + i) <= Size(m)
  BY <1>6, <1>9 DEF EofGoes
<1>11. CASE /\ r > par.limit /\ par' = [par EXCEPT !.s = "body_to_eof"]
            /\ Return(rop.p, "body_limit") /\ body' = body
  <2>1. Justified("body_limit")
    <3>1. CASE how.body = "string"
      <4>1. BodyLimit < t
        BY <1>5, <1>10, <1>11, <3>1
      <4> QED
        BY <4>1 DEF Justified, t, m
    <3>2. CASE how.body # "string"
      BY <1>4, <3>2 DEF Justified, m
    <3> QED
      BY <3>1, <3>2
  <2>2. "body_limit" \in PutCodes /\ "body_limit" \in Limits
    BY DEF PutCodes, Limits
  <2>3. BodyIs(body')
    BY <1>3, <1>11
  <2> QED
    BY <1>2, <1>3, <1>11, <2>1, <2>2, <2>3, ReturnReads
<1>12. CASE /\ ~(r > par.limit) /\ Store(Rest, a)
            /\ par' = [par EXCEPT !.s = "body_to_eof", !.limit = @ - r, !.room = Room(a)]
            /\ IF a.ec # "" THEN Return(rop.p + n, a.ec) ELSE Break(rop.p + n, par')
  <2>1. body' = body \o SubSeq(Rest, 1, n)
    BY <1>12 DEF Store, n
  <2>2. ASSUME NEW i \in 1 .. n PROVE Rest[i] = Sym("octet", b + i)
    <3>1. i \in 1 .. r /\ i \in Nat
      BY <1>3, <1>7, Among
    <3>2. b + i \in 1 .. t /\ g + i = h + (b + i) /\ h + (b + i) <= Size(m)
      BY <1>10
    <3>3. Rest[i] = SymbolOf(m, h + (b + i))
      BY <1>3, <3>1, <3>2, FrontAt DEF r
    <3>4. SymbolOf(m, h + (b + i)) = Sym("octet", b + i)
      BY <1>3, <1>6, <3>2, BodyIn DEF h, t
    <3> QED
      BY <3>3, <3>4
  <2>3. BodyIs(body') /\ Len(body') = b + n
    BY <1>3, <1>7, <1>10, <2>1, <2>2, BodyTakes DEF b, t, m, r
  <2>4. /\ par'.s = "body_to_eof" /\ par'.limit = par.limit - r /\ par'.f = par.f
        /\ par'.bodiless = par.bodiless
    BY <1>3, <1>12 DEF Parsers
  <2>5. Understands(par', g + n, b + n)
    <3>1. /\ par'.s \notin HeaderStates /\ par'.s \in EofStates /\ par'.s # "complete"
          /\ par'.s \notin {"chunk_header0", "chunk_header", "chunk_body"} /\ par'.s \notin {"body0", "body"}
      BY <2>4 DEF HeaderStates, EofStates
    <3>2. InBody(par', m, g + n, b + n)
      BY <1>4, <1>10, <2>4, <3>1 DEF InBody, h
    <3>3. ParserAt(par', m, g + n, b + n)
      BY <1>4, <2>4, <3>1, <3>2 DEF ParserAt
    <3>4. how.body = "string" => par'.limit = BodyLimit - (b + n)
      <4> SUFFICES ASSUME how.body = "string" PROVE par'.limit = BodyLimit - (b + n)
        OBVIOUS
      <4>1. n = r /\ par.limit = BodyLimit - b
        BY <1>5, <1>7
      <4> QED
        BY <1>10, <2>4, <4>1
    <3> QED
      BY <3>1, <3>3, <3>4 DEF Understands, m
  <2>6. Understands(par', taken + (rop.p + n), Len(body'))
    <3>1. taken + (rop.p + n) = g + n
      BY <1>3, <1>7, Onward DEF g
    <3> QED
      BY <2>3, <2>5, <3>1
  <2>7. a.ec # "" => Return(rop.p + n, a.ec) /\ ~Done(par')
    BY <1>12, <2>4 DEF Done
  <2>8. a.ec = "" => Break(rop.p + n, par')
    BY <1>12
  <2> QED
    BY <1>2, <1>3, <1>7, <2>3, <2>6, <2>7, <2>8, BodyReads
<1> QED
  BY <1>8, <1>11, <1>12

LEMMA Adding ==
  ASSUME NEW a \in Nat, NEW b \in Nat
  PROVE  a + b \in Nat
  OBVIOUS

ChunkGoes(b, n, l, z, g, e0, e, c0, c) ==
  /\ b + n <= c /\ (n = l => (g + n) + 2 = e /\ b + n = c)
  /\ n # l => l - n \in 1 .. z /\ (g + n) + (l - n) + 2 = e /\ (b + n) + (l - n) = c
  /\ \A i \in 1 .. n : /\ (z - l) + i \in 1 .. z /\ g + i = e0 + (3 + ((z - l) + i)) /\ g + i <= e
                       /\ c0 + ((z - l) + i) = b + i

LEMMA ChunkCounts ==
  ASSUME NEW b \in Nat, NEW n \in Nat, NEW z \in Nat, NEW l \in 1 .. z, NEW g \in Nat,
         NEW e0 \in Nat, NEW e \in Nat, NEW c0 \in Nat, NEW c \in Nat, n <= l,
         e = (e0 + z) + 5, c = c0 + z, g + l + 2 = e, b + l = c
  PROVE  ChunkGoes(b, n, l, z, g, e0, e, c0, c)
<1>1. b + n <= c /\ (n = l => (g + n) + 2 = e /\ b + n = c)
  OBVIOUS
<1>2. n # l => l - n \in 1 .. z /\ (g + n) + (l - n) + 2 = e /\ (b + n) + (l - n) = c
  OBVIOUS
<1>3. ASSUME NEW i \in 1 .. n
      PROVE  /\ (z - l) + i \in 1 .. z /\ g + i = e0 + (3 + ((z - l) + i)) /\ g + i <= e
             /\ c0 + ((z - l) + i) = b + i
  OBVIOUS
<1> QED
  BY <1>1, <1>2, <1>3 DEF ChunkGoes

\* What there is to know about the j-th chunk
LEMMA ChunkEnds ==
  ASSUME NEW m \in Messages, m.framing = "chunked", NEW j \in 1 .. Len(m.sizes)
  PROVE  /\ m.sizes[j] \in Nat /\ PieceEnd(m, j - 1) \in Nat /\ PieceEnd(m, j) \in Nat
         /\ Before(m, j - 1) \in Nat /\ Before(m, j) \in Nat
         /\ PieceEnd(m, j) = (PieceEnd(m, j - 1) + m.sizes[j]) + 5
         /\ Before(m, j) = Before(m, j - 1) + m.sizes[j]
         /\ PieceEnd(m, j) <= Size(m) /\ Before(m, j) <= Total(m) /\ Size(m) \in Nat /\ Total(m) \in Nat
<1>1. Frame(m) = 5
  BY DEF Frame
<1>2. Len(m.sizes) \in Nat /\ j \in 0 .. Len(m.sizes) /\ j - 1 \in 0 .. Len(m.sizes)
      /\ Len(m.sizes) \in j .. Len(m.sizes) /\ Len(m.sizes) \in 0 .. Len(m.sizes)
  <2>1. Len(m.sizes) \in Nat
    BY EndsAre
  <2> QED
    BY <2>1
<1>3. /\ m.sizes[j] \in Nat /\ Before(m, j) = Before(m, j - 1) + m.sizes[j]
      /\ PieceEnd(m, j) = (PieceEnd(m, j - 1) + m.sizes[j]) + 5
  BY <1>1, EndsAre
<1>4. /\ PieceEnd(m, j - 1) \in Nat /\ PieceEnd(m, j) \in Nat
      /\ Before(m, j - 1) \in Nat /\ Before(m, j) \in Nat /\ Total(m) \in Nat
  BY <1>2, EndsAre DEF Total
<1>5. /\ PieceEnd(m, j) <= BodyEnd(m) /\ Before(m, j) <= Total(m)
  BY <1>2, EndsGrow DEF BodyEnd, Total
<1>6. Size(m) = BodyEnd(m) + TailLen(m) /\ TailLen(m) \in {0, 5, 8} /\ BodyEnd(m) \in Nat /\ Size(m) \in Nat
  BY EndsAre
<1>7. PieceEnd(m, j) <= Size(m)
  <2> DEFINE x == PieceEnd(m, j)  y == BodyEnd(m)  z == Size(m)  k == TailLen(m)
  <2>1. x \in Nat /\ y \in Nat /\ x <= y /\ z = y + k /\ k \in {0, 5, 8}
    BY <1>4, <1>5, <1>6
  <2> HIDE DEF x, y, z, k
  <2>2. x <= z
    BY <2>1
  <2> QED
    BY <2>2 DEF x, z
<1> QED
  BY <1>3, <1>4, <1>5, <1>6, <1>7

LEMMA PutChunkBodyReads ==
  ASSUME ReadInv, SendInv', ReaderInv', PutChunkBody, UNCHANGED serVars
  PROVE  ReadInv'
<1> DEFINE s == SubSeq(Rest, 1, Least(par.len, Len(Rest)))
           a == Accept(s)
           n == a.n
           to == IF par.len = n THEN "chunk_header" ELSE par.s
           left == par.len - n
           m == Was
           g == taken + rop.p
           b == Len(body)
           l == par.len
           t == Total(m)
<1>1. /\ rop.pc = "put" /\ par.s = "chunk_body" /\ Store(s, a)
      /\ par' = [par EXCEPT !.len = left, !.room = Room(a), !.s = to]
      /\ a.ec # "" => Return(rop.p + n, a.ec)
      /\ a.ec = "" => Break(rop.p + n, par')
      /\ UNCHANGED <<buf, how, taken, received>>
  BY DEF PutChunkBody
<1>2. Still /\ body' = body \o SubSeq(s, 1, n)
  BY <1>1 DEF Still, Store
<1>3. /\ Parsing /\ par \in Parsers /\ BodyIs(body) /\ b \in Nat /\ rop.p \in Nat /\ taken \in Nat
      /\ m \in Messages /\ Rest \in Texts /\ Len(Rest) \in Nat /\ InFront(m, g, Rest)
      /\ ParserAt(par, m, g, b) /\ g \in Nat
  BY <1>1, BodyMeets DEF InFront
<1>4. /\ InChunks(par, m, g, b) /\ m.framing = "chunked" /\ "chunked" \in par.f /\ par.limit >= 0
      /\ "need_eof" \notin par.f /\ par.bodiless = m.bodiless
  BY <1>1, <1>3 DEF ParserAt, InChunks, EofStates
<1>5. "expect_crlf" \in par.f /\ "final" \notin par.f
  BY <1>1 DEF ReadInv, ReaderInv, Parses
<1>6. PICK j \in 1 .. Len(m.sizes) :
        /\ l \in 1 .. m.sizes[j] /\ g + l + 2 = PieceEnd(m, j)
        /\ b + l = Before(m, j) /\ par.limit = BodyLimit - Before(m, j)
  BY <1>1, <1>4 DEF InChunks
<1> DEFINE z == m.sizes[j]
           e0 == PieceEnd(m, j - 1)
           e == PieceEnd(m, j)
           c0 == Before(m, j - 1)
           c == Before(m, j)
<1>7. /\ z \in Nat /\ e0 \in Nat /\ e \in Nat /\ c0 \in Nat /\ c \in Nat /\ e = (e0 + z) + 5 /\ c = c0 + z
      /\ e <= Size(m) /\ c <= t /\ Size(m) \in Nat /\ t \in Nat
  BY <1>3, <1>4, ChunkEnds
<1>8. l \in Nat /\ l \in 1 .. z
  <2>1. l \in 1 .. z
    BY <1>6
  <2> HIDE DEF l, z
  <2>2. l \in Nat
    BY <1>7, <2>1
  <2> QED
    BY <2>1, <2>2
<1>9. Begins(s, Rest, l)
  <2>1. s = SubSeq(Rest, 1, Least(l, Len(Rest)))
    OBVIOUS
  <2> HIDE DEF s, l
  <2> QED
    BY <1>3, <1>8, <2>1, Beginning
<1> HIDE DEF s
<1>10. /\ s \in Texts /\ Len(s) \in Nat /\ Len(s) <= l /\ Len(s) <= Len(Rest)
       /\ \A i \in 1 .. Len(s) : i \in 1 .. Len(Rest) /\ s[i] = Rest[i]
  BY <1>9 DEF Begins
<1>11. /\ n \in Nat /\ n <= Len(s) /\ a.ec \in {"", "need_buffer"}
       /\ a.ec # "" => n < Len(s)
  BY <1>3, <1>10, AcceptTakes
<1> HIDE DEF a, n
<1>12. n <= l
  BY <1>8, <1>10, <1>11, Below DEF n
<1> HIDE DEF m, g, b, l, t, z, e0, e, c0, c, left
<1>13. ChunkGoes(b, n, l, z, g, e0, e, c0, c)
  <2>1. g + l + 2 = e /\ b + l = c
    BY <1>6 DEF e, c
  <2> QED
    BY <1>3, <1>7, <1>8, <1>11, <1>12, <2>1, ChunkCounts
<1>14. b + n <= t
  <2>1. b + n <= c /\ b + n \in Nat
    <3>1. b + n <= c
      BY <1>13 DEF ChunkGoes
    <3>2. b + n \in Nat
      BY <1>3, <1>11, Adding
    <3> QED
      BY <3>1, <3>2
  <2> QED
    BY <1>7, <2>1, Below
<1>15. ASSUME NEW i \in 1 .. n PROVE s[i] = Sym("octet", b + i)
  <2> DEFINE k == (z - l) + i
  <2>1. i \in 1 .. Len(s) /\ i \in 1 .. Len(Rest) /\ s[i] = Rest[i] /\ i \in Nat
    <3>1. i \in 1 .. Len(s) /\ i \in Nat
      BY <1>10, <1>11, Among
    <3> QED
      BY <1>10, <3>1
  <2>2. k \in 1 .. z /\ g + i = e0 + (3 + k) /\ g + i <= e /\ c0 + k = b + i
    BY <1>13 DEF ChunkGoes
  <2> HIDE DEF k
  <2>3. g + i <= Size(m)
    <3>1. g + i \in Nat
      BY <1>3, <2>1
    <3> QED
      BY <1>7, <2>2, <3>1, Below
  <2>4. Rest[i] = SymbolOf(m, e0 + (3 + k))
    <3> DEFINE p == e0 + (3 + k)
    <3>1. p = g + i /\ p <= Size(m)
      BY <2>2, <2>3
    <3> HIDE DEF p
    <3>2. Rest[i] = SymbolOf(m, p)
      BY <1>3, <2>1, <3>1, FrontAt
    <3> QED
      BY <3>2 DEF p
  <2>5. ChunkStands(m, j)
    BY <1>3, <1>4, ChunkIn DEF m
  <2>6. SymbolOf(m, e0 + (3 + k)) = Sym("octet", c0 + k)
    BY <2>2, <2>5 DEF ChunkStands, e0, c0, z
  <2> QED
    BY <2>1, <2>2, <2>4, <2>6
<1>16. BodyIs(body') /\ Len(body') = b + n
  <2>1. body' = body \o SubSeq(s, 1, n) /\ n <= Len(s)
    BY <1>2, <1>11
  <2> QED
    BY <1>3, <1>10, <1>11, <1>14, <1>15, <2>1, BodyTakes DEF b, t, m
<1>17. /\ par'.s = to /\ par'.len = left /\ par'.f = par.f /\ par'.bodiless = par.bodiless
       /\ par'.limit = par.limit
  BY <1>1, <1>3 DEF Parsers
<1>18. Understands(par', g + n, b + n)
  <2>1. to \in {"chunk_header", "chunk_body"}
    BY <1>1
  <2>2. par'.s \notin HeaderStates /\ par'.s \notin EofStates /\ par'.s # "complete"
        /\ par'.s \notin BodyStates
    BY <1>17, <2>1 DEF HeaderStates, EofStates, BodyStates
  <2>3. Start(par') = 2
    BY <1>5, <1>17 DEF Start
  <2>4. InChunks(par', m, g + n, b + n)
    <3>1. CASE n = l
      <4>1. to = "chunk_header"
        BY <3>1 DEF l
      <4>2. (g + n) + 2 = e /\ b + n = c
        BY <1>13, <3>1 DEF ChunkGoes
      <4>3. j \in 0 .. Len(m.sizes) /\ j # 0
        BY <1>3, EndsAre DEF m
      <4>4. /\ (g + n) + Start(par') = PieceEnd(m, j) /\ (Start(par') = 0) = (j = 0)
            /\ b + n = Before(m, j) /\ par'.limit = BodyLimit - Before(m, j)
            /\ "final" \notin par'.f
        BY <1>5, <1>6, <1>17, <2>3, <4>2, <4>3 DEF e, c
      <4> QED
        BY <1>4, <1>17, <4>1, <4>3, <4>4 DEF InChunks
    <3>2. CASE n # l
      <4>1. to = "chunk_body"
        BY <1>1, <3>2 DEF l
      <4>2. left \in 1 .. z /\ (g + n) + left + 2 = e /\ (b + n) + left = c
        <5>1. left = l - n
          BY DEF left, l
        <5> QED
          BY <1>13, <3>2, <5>1 DEF ChunkGoes
      <4>3. /\ par'.len \in 1 .. m.sizes[j] /\ (g + n) + par'.len + 2 = PieceEnd(m, j)
            /\ (b + n) + par'.len = Before(m, j) /\ par'.limit = BodyLimit - Before(m, j)
        BY <1>6, <1>17, <4>2 DEF e, c, z
      <4> QED
        BY <1>4, <1>17, <4>1, <4>3 DEF InChunks
    <3> QED
      BY <3>1, <3>2
  <2>5. ParserAt(par', m, g + n, b + n)
    BY <1>4, <1>17, <2>1, <2>2, <2>4 DEF ParserAt
  <2> QED
    BY <2>2, <2>5 DEF Understands, m
<1>19. Understands(par', taken + (rop.p + n), Len(body'))
  <2>1. taken + (rop.p + n) = g + n
    BY <1>3, <1>11, Onward DEF g
  <2> QED
    BY <1>16, <1>18, <2>1
<1>20. /\ a.ec # "" => Return(rop.p + n, a.ec) /\ ~Done(par')
       /\ a.ec = "" => Break(rop.p + n, par')
  <2>1. to # "complete"
    BY <1>1
  <2> QED
    BY <1>1, <1>17, <2>1 DEF Done
<1> HIDE DEF to
<1> QED
  BY <1>2, <1>3, <1>11, <1>16, <1>19, <1>20, BodyReads

-----------------------------------------------------------------------------
(* The header of a chunk *)

\* In r there stands the header of a chunk of z octets, behind the end of the chunk before
Heading(r, b, z) ==
  /\ 1 <= Len(r) /\ b = 2 => Cr(r, 1)
  /\ 2 <= Len(r) /\ b = 2 => Lf(r, 2)
  /\ b + 1 <= Len(r) => r[b + 1] = Sym("size", z)
  /\ b + 2 <= Len(r) => Cr(r, b + 2)
  /\ b + 3 <= Len(r) => Lf(r, b + 3)

\* The size of the chunk behind the j-th one
SizeAt(m, j) == IF j < Len(m.sizes) THEN m.sizes[j + 1] ELSE 0

LEMMA Fore ==
  ASSUME NEW n \in Nat, NEW b \in {0, 2}, NEW g \in Nat, NEW e \in Nat, NEW l \in Nat, g + b = e, e + 3 <= l
  PROVE  /\ b + 1 <= n => b + 1 \in 1 .. n
         /\ b + 2 <= n => b + 2 \in 1 .. n
         /\ b + 3 <= n => b + 3 \in 1 .. n
         /\ e + 1 = g + (b + 1) /\ e + 2 = g + (b + 2) /\ e + 3 = g + (b + 3)
         /\ e + 1 <= l /\ e + 2 <= l /\ e + 3 <= l /\ e <= l /\ e - 1 <= l
         /\ b = 2 => (e - 2) + 1 = g + 1 /\ (e - 2) + 2 = g + 2 /\ (e - 2) + 1 <= l /\ (e - 2) + 2 <= l
         /\ 1 <= n => 1 \in 1 .. n
         /\ 2 <= n => 2 \in 1 .. n
  OBVIOUS

LEMMA SizeIs ==
  ASSUME NEW m \in Messages, m.framing = "chunked", Fits(m), NEW j \in 0 .. Len(m.sizes)
  PROVE  /\ SizeAt(m, j) \in Nat /\ (SizeAt(m, j) = 0 <=> j = Len(m.sizes))
         /\ PieceEnd(m, j) \in Nat /\ PieceEnd(m, j) + 3 <= Size(m) /\ Size(m) \in Nat
         /\ LineIn(m, PieceEnd(m, j), Sym("size", SizeAt(m, j)))
<1> DEFINE n == Len(m.sizes)
<1>1. n \in Nat /\ PieceEnd(m, j) \in Nat /\ Size(m) \in Nat /\ BodyEnd(m) \in Nat
      /\ Size(m) = BodyEnd(m) + TailLen(m) /\ BodyEnd(m) = PieceEnd(m, n)
  BY EndsAre
<1>2. TailLen(m) \in {5, 8}
  BY DEF TailLen
<1>3. CASE j = n
  <2>1. SizeAt(m, j) = 0
    BY <1>1, <1>3 DEF SizeAt
  <2>2. LineIn(m, BodyEnd(m), Sym("size", 0))
    BY TailIn DEF TailStands
  <2>3. PieceEnd(m, j) + 3 <= Size(m)
    BY <1>1, <1>2, <1>3
  <2> QED
    BY <1>1, <1>3, <2>1, <2>2, <2>3
<1>4. CASE j # n
  <2>1. j + 1 \in 1 .. n /\ j < n /\ (j + 1) - 1 = j
    BY <1>1, <1>4
  <2>2. SizeAt(m, j) = m.sizes[j + 1]
    BY <2>1 DEF SizeAt
  <2>3. m.sizes[j + 1] > 0
    BY <2>1 DEF Fits
  <2>4. /\ m.sizes[j + 1] \in Nat /\ PieceEnd(m, j + 1) = (PieceEnd(m, (j + 1) - 1) + m.sizes[j + 1]) + 5
        /\ PieceEnd(m, j + 1) <= Size(m)
    BY <2>1, ChunkEnds
  <2>5. PieceEnd(m, j) + 3 <= Size(m)
    <3> DEFINE e == PieceEnd(m, j)  z == m.sizes[j + 1]  l == Size(m)  y == PieceEnd(m, j + 1)
    <3>1. e \in Nat /\ z \in Nat /\ l \in Nat /\ y = (e + z) + 5 /\ y <= l
      BY <1>1, <2>1, <2>4
    <3> HIDE DEF e, z, l, y
    <3>2. e + 3 <= l
      BY <3>1
    <3> QED
      BY <3>2 DEF e, l
  <2>6. ChunkStands(m, j + 1)
    BY <2>1, ChunkIn
  <2>7. LineIn(m, PieceEnd(m, j), Sym("size", m.sizes[j + 1]))
    BY <2>1, <2>6 DEF ChunkStands
  <2>8. m.sizes[j + 1] # 0
    BY <2>3, <2>4
  <2> QED
    BY <1>1, <1>4, <2>2, <2>4, <2>5, <2>7, <2>8
<1> QED
  BY <1>3, <1>4

LEMMA HeadingIs ==
  ASSUME NEW m \in Messages, m.framing = "chunked", Fits(m), NEW j \in 0 .. Len(m.sizes),
         NEW g, NEW r, InFront(m, g, r), NEW b \in {0, 2}, g + b = PieceEnd(m, j), (b = 0) = (j = 0)
  PROVE  Heading(r, b, SizeAt(m, j))
<1> DEFINE e == PieceEnd(m, j)
           l == Size(m)
           n == Len(r)
           z == SizeAt(m, j)
<1>1. n \in Nat /\ g \in Nat
  BY DEF InFront
<1>2. e \in Nat /\ e + 3 <= l /\ l \in Nat /\ LineIn(m, e, Sym("size", z))
  BY SizeIs
<1>3. b = 2 => EndIn(m, e - 2)
  <2> SUFFICES ASSUME b = 2 PROVE EndIn(m, e - 2)
    OBVIOUS
  <2>1. j \in 1 .. Len(m.sizes)
    <3>1. j # 0 /\ Len(m.sizes) \in Nat
      BY EndsAre
    <3> QED
      BY <3>1
  <2> QED
    BY <2>1, ChunkIn DEF ChunkStands
<1>4. g + b = e
  OBVIOUS
<1> HIDE DEF e, l, n, z
<1>5. /\ b + 1 <= n => b + 1 \in 1 .. n
      /\ b + 2 <= n => b + 2 \in 1 .. n
      /\ b + 3 <= n => b + 3 \in 1 .. n
      /\ e + 1 = g + (b + 1) /\ e + 2 = g + (b + 2) /\ e + 3 = g + (b + 3)
      /\ e + 1 <= l /\ e + 2 <= l /\ e + 3 <= l /\ e <= l /\ e - 1 <= l
      /\ b = 2 => (e - 2) + 1 = g + 1 /\ (e - 2) + 2 = g + 2 /\ (e - 2) + 1 <= l /\ (e - 2) + 2 <= l
      /\ 1 <= n => 1 \in 1 .. n
      /\ 2 <= n => 2 \in 1 .. n
  BY <1>1, <1>2, <1>4, Fore
<1>6. ASSUME NEW i \in 1 .. n, NEW k, k = g + i, k <= l PROVE r[i] = SymbolOf(m, k)
  BY <1>6, FrontAt DEF n, l
<1>7. /\ SymbolOf(m, e + 1) = Sym("size", z) /\ SymbolOf(m, e + 2) = Sym("cr", 0)
      /\ SymbolOf(m, e + 3) = Sym("lf", 0)
  BY <1>2 DEF LineIn
<1>8. b = 2 => SymbolOf(m, (e - 2) + 1) = Sym("cr", 0) /\ SymbolOf(m, (e - 2) + 2) = Sym("lf", 0)
  BY <1>3 DEF EndIn
<1>9. /\ b + 1 <= n => r[b + 1] = Sym("size", z)
      /\ b + 2 <= n => r[b + 2] = Sym("cr", 0)
      /\ b + 3 <= n => r[b + 3] = Sym("lf", 0)
  BY <1>5, <1>6, <1>7
<1>10. b = 2 => /\ 1 <= n => r[1] = Sym("cr", 0)
                /\ 2 <= n => r[2] = Sym("lf", 0)
  BY <1>5, <1>6, <1>8
<1>11. Heading(r, b, z)
  BY <1>9, <1>10 DEF Heading, Cr, Lf, n
<1> QED
  BY <1>11 DEF z

\* The parser p is in front of the header of the chunk behind the j-th one
HeaderAt(p, m, j, g, b) ==
  /\ j \in 0 .. Len(m.sizes) /\ g + Start(p) = PieceEnd(m, j) /\ (Start(p) = 0) = (j = 0)
  /\ b = Before(m, j) /\ p.limit = BodyLimit - Before(m, j) /\ p.limit >= 0
  /\ "final" \in p.f => j = Len(m.sizes)
  /\ m.framing = "chunked" /\ "chunked" \in p.f /\ "need_eof" \notin p.f /\ p.bodiless = m.bodiless

LEMMA ChunkUnderstood ==
  ASSUME NEW p, p.s = "chunk_header", NEW j, NEW g, NEW b, HeaderAt(p, Was, j, g, b)
  PROVE  Understands(p, g, b) /\ Needs(p, Was, g) = Start(p) + TailLen(Was)
<1>1. /\ p.s \notin EofStates \cup {"complete"} /\ p.s \notin BodyStates /\ p.s \notin HeaderStates
  BY DEF HeaderStates, EofStates, BodyStates
<1>2. InChunks(p, Was, g, b)
  BY DEF HeaderAt, InChunks
<1>3. ParserAt(p, Was, g, b)
  BY <1>1, <1>2 DEF ParserAt, HeaderAt
<1>4. Needs(p, Was, g) = Start(p) + TailLen(Was)
  BY <1>1 DEF Needs
<1> QED
  BY <1>1, <1>3, <1>4 DEF Understands

LEMMA ChunkMeets ==
  ASSUME NEW p, p.s \in {"chunk_header0", "chunk_header"}, NEW m, NEW g, NEW b, ParserAt(p, m, g, b)
  PROVE  \E j \in 0 .. Len(m.sizes) : HeaderAt(p, m, j, g, b)
<1>1. InChunks(p, m, g, b) /\ "need_eof" \notin p.f /\ p.bodiless = m.bodiless
  BY DEF ParserAt, EofStates
<1>2. /\ m.framing = "chunked" /\ "chunked" \in p.f /\ p.limit >= 0
  BY <1>1 DEF InChunks
<1>3. PICK j \in 0 .. Len(m.sizes) :
         /\ g + Start(p) = PieceEnd(m, j) /\ (Start(p) = 0) = (j = 0)
         /\ b = Before(m, j) /\ p.limit = BodyLimit - Before(m, j)
         /\ "final" \in p.f => j = Len(m.sizes)
  BY <1>1 DEF InChunks
<1>4. HeaderAt(p, m, j, g, b)
  BY <1>1, <1>2, <1>3 DEF HeaderAt
<1> QED
  BY <1>4

LEMMA Behind3 ==
  ASSUME NEW b \in {0, 2}, NEW n \in Nat, NEW g \in Nat, NEW e \in Nat, g + b = e, NEW t \in {5, 8}, NEW l, l = e + t
  PROVE  /\ b + 4 <= n => b + 4 \in 1 .. n
         /\ b + t <= n => b + t \in 1 .. n /\ b + t - 1 \in 1 .. n
         /\ e + 4 = g + (b + 4) /\ e + 5 = g + (b + 5) /\ e + 6 = g + (b + 6)
         /\ e + 4 <= l /\ e + 5 <= l
         /\ (l - 2) + 1 = g + (b + t - 1) /\ (l - 2) + 2 = g + (b + t) /\ (l - 2) + 1 <= l /\ (l - 2) + 2 <= l
         /\ (e + 3) + 1 = e + 4 /\ (e + 3) + 2 = e + 5 /\ (e + 3) + 3 = e + 6
         /\ b + 5 <= n => b + 5 \in 1 .. n
         /\ b + 6 <= n => b + 6 \in 1 .. n
         /\ t = 8 => e + 6 <= l
         /\ t = 8 /\ b + 8 <= n => b + 5 <= n /\ b + 6 <= n
         /\ b + t <= n => b + 2 <= n /\ b + 3 <= n
  OBVIOUS

\* In r there stands what follows the size of the last chunk
LastPart(r, b, t) ==
  /\ t = 8 /\ b + 4 <= Len(r) => r[b + 4] = Sym("field", 0)
  /\ t = 8 /\ b + 5 <= Len(r) => Cr(r, b + 5)
  /\ t = 8 /\ b + 6 <= Len(r) => Lf(r, b + 6)
  /\ b + t <= Len(r) => Cr(r, b + t - 1) /\ Lf(r, b + t)

LEMMA TailMeets ==
  ASSUME NEW m \in Messages, m.framing = "chunked", NEW g, NEW r, InFront(m, g, r),
         NEW b \in {0, 2}, g + b = BodyEnd(m)
  PROVE  LastPart(r, b, TailLen(m)) /\ TailLen(m) \in {5, 8} /\ (TailLen(m) = 8 <=> m.trailer)
<1> DEFINE e == BodyEnd(m)
           l == Size(m)
           n == Len(r)
           t == TailLen(m)
<1>1. n \in Nat /\ g \in Nat /\ e \in Nat /\ l \in Nat /\ l = e + t /\ g + b = e
  BY EndsAre DEF InFront
<1>2. t \in {5, 8} /\ (t = 8 <=> m.trailer)
  BY DEF TailLen
<1>3. TailStands(m)
  BY TailIn
<1>4. (t = 8 => LineIn(m, e + 3, Sym("field", 0))) /\ EndIn(m, l - 2)
  BY <1>2, <1>3 DEF TailStands
<1> HIDE DEF e, l, n, t
<1>5. /\ b + 4 <= n => b + 4 \in 1 .. n
      /\ b + t <= n => b + t \in 1 .. n /\ b + t - 1 \in 1 .. n
      /\ e + 4 = g + (b + 4) /\ e + 5 = g + (b + 5) /\ e + 6 = g + (b + 6)
      /\ e + 4 <= l /\ e + 5 <= l
      /\ (l - 2) + 1 = g + (b + t - 1) /\ (l - 2) + 2 = g + (b + t) /\ (l - 2) + 1 <= l /\ (l - 2) + 2 <= l
      /\ (e + 3) + 1 = e + 4 /\ (e + 3) + 2 = e + 5 /\ (e + 3) + 3 = e + 6
      /\ b + 5 <= n => b + 5 \in 1 .. n
      /\ b + 6 <= n => b + 6 \in 1 .. n
      /\ t = 8 => e + 6 <= l
  BY <1>1, <1>2, Behind3
<1>6. ASSUME NEW i \in 1 .. n, NEW k, k = g + i, k <= l PROVE r[i] = SymbolOf(m, k)
  BY <1>6, FrontAt DEF n, l
<1>7. SymbolOf(m, (l - 2) + 1) = Sym("cr", 0) /\ SymbolOf(m, (l - 2) + 2) = Sym("lf", 0)
  BY <1>4 DEF EndIn
<1>8. t = 8 => /\ SymbolOf(m, e + 4) = Sym("field", 0) /\ SymbolOf(m, e + 5) = Sym("cr", 0)
               /\ SymbolOf(m, e + 6) = Sym("lf", 0)
  BY <1>4, <1>5 DEF LineIn
<1>9. b + t <= n => r[b + t - 1] = Sym("cr", 0) /\ r[b + t] = Sym("lf", 0)
  BY <1>5, <1>6, <1>7
<1>10. t = 8 => /\ b + 4 <= n => r[b + 4] = Sym("field", 0)
                /\ b + 5 <= n => r[b + 5] = Sym("cr", 0)
                /\ b + 6 <= n => r[b + 6] = Sym("lf", 0)
  BY <1>5, <1>6, <1>8
<1>11. LastPart(r, b, t)
  BY <1>9, <1>10 DEF LastPart, Cr, Lf, n
<1> QED
  BY <1>2, <1>11 DEF t

\* The last chunk ends with the first CRLF CRLF
LEMMA NoEomBefore ==
  ASSUME NEW r, Len(r) \in Nat, NEW b \in {0, 2}, NEW t \in {5, 8}, Heading(r, b, 0), LastPart(r, b, t)
  PROVE  /\ b + t <= Len(r) => Eom(r, b + t)
         /\ \A i \in 4 .. b + t - 1 : i <= Len(r) => ~Eom(r, i)
<1> DEFINE n == Len(r)
<1>1. /\ b = 2 => (1 <= n => Cr(r, 1)) /\ (2 <= n => Lf(r, 2))
      /\ b + 1 <= n => r[b + 1] = Sym("size", 0)
      /\ b + 2 <= n => Cr(r, b + 2)
      /\ b + 3 <= n => Lf(r, b + 3)
  BY DEF Heading
<1>2. /\ t = 8 /\ b + 4 <= n => r[b + 4] = Sym("field", 0)
      /\ t = 8 /\ b + 5 <= n => Cr(r, b + 5)
      /\ t = 8 /\ b + 6 <= n => Lf(r, b + 6)
      /\ b + t <= n => Cr(r, b + t - 1) /\ Lf(r, b + t)
  BY DEF LastPart
<1>3. /\ b + 1 <= n => ~Cr(r, b + 1) /\ ~Lf(r, b + 1)
      /\ t = 8 /\ b + 4 <= n => ~Cr(r, b + 4) /\ ~Lf(r, b + 4)
  BY <1>1, <1>2 DEF Sym, Cr, Lf
<1>4. \A i : ~(Cr(r, i) /\ Lf(r, i))
  BY CrIsNotLf
<1> HIDE DEF n
<1>5. n \in Nat
  BY DEF n
<1>6. ASSUME b + t <= n PROVE Eom(r, b + t)
  <2>1. CASE t = 5
    <3>1. Cr(r, b + 2) /\ Lf(r, b + 3) /\ Cr(r, b + 4) /\ Lf(r, b + 5)
      <4>1. b + 2 <= n /\ b + 3 <= n /\ b + 5 - 1 = b + 4 /\ b + 5 <= n
        BY <1>5, <1>6, <2>1
      <4> QED
        BY <1>1, <1>2, <2>1, <4>1
    <3>2. b \in Int
      OBVIOUS
    <3> QED
      BY <2>1, <3>1, <3>2, EomAt
  <2>2. CASE t = 8
    <3>1. Cr(r, b + 5) /\ Lf(r, b + 6) /\ Cr(r, b + 7) /\ Lf(r, b + 8)
      <4>1. b + 5 <= n /\ b + 6 <= n /\ b + 8 - 1 = b + 7 /\ b + 8 <= n
        BY <1>5, <1>6, <2>2
      <4> QED
        BY <1>2, <2>2, <4>1
    <3>2. /\ b + 4 \in Int /\ (b + 4) + 1 = b + 5 /\ (b + 4) + 2 = b + 6 /\ (b + 4) + 3 = b + 7
          /\ (b + 4) + 4 = b + 8
      OBVIOUS
    <3>3. Eom(r, (b + 4) + 4)
      BY <3>1, <3>2, EomAt
    <3> QED
      BY <2>2, <3>2, <3>3
  <2> QED
    BY <2>1, <2>2
<1>7. ASSUME NEW i \in 4 .. b + t - 1, i <= n, Eom(r, i) PROVE FALSE
  <2>1. Cr(r, i - 3) /\ Lf(r, i - 2) /\ Cr(r, i - 1) /\ Lf(r, i)
    BY <1>7 DEF Eom
  <2>2. i \in Int /\ 4 <= i /\ i <= b + t - 1 /\ i <= n
    BY <1>7
  <2>3. CASE i <= b + 4
    <3>1. \/ i - 3 = b + 1 /\ b + 1 <= n
          \/ b = 2 /\ (i - 3 = 1 \/ i - 3 = 2) /\ 2 <= n /\ (i - 3 = 1 => i - 1 = b + 1 /\ b + 1 <= n)
      BY <1>5, <2>2, <2>3
    <3> QED
      BY <1>1, <1>3, <1>4, <2>1, <3>1
  <2>4. CASE i > b + 4
    <3>1. t = 8 /\ (i = b + 5 \/ i = b + 6 \/ i = b + 7)
      BY <2>2, <2>4
    <3>2. i = b + 5 => i - 1 = b + 4 /\ b + 4 <= n
      BY <1>5, <2>2
    <3>3. i = b + 6 => i - 3 = b + 3 /\ b + 3 <= n
      BY <1>5, <2>2
    <3>4. i = b + 7 => i - 3 = b + 4 /\ b + 4 <= n
      BY <1>5, <2>2
    <3> QED
      BY <1>1, <1>3, <1>4, <2>1, <3>1, <3>2, <3>3, <3>4
  <2> QED
    BY <2>2, <2>3, <2>4
<1> QED
  BY <1>6, <1>7 DEF n

NoEom(r, b, skip) == \A i \in b + 5 .. skip + 3 : ~Eom(r, i)
EndsAt(r, e, k) == (e = 0 => Len(r) < k) /\ (e # 0 => e = k /\ k <= Len(r))

LEMMA LastEom ==
  ASSUME NEW r, Len(r) \in Nat, NEW b \in {0, 2}, NEW t \in {5, 8}, Heading(r, b, 0), LastPart(r, b, t),
         NEW skip \in Nat, NEW e, FirstEom(r, skip, e), NoEom(r, b, skip)
  PROVE  EndsAt(r, e, b + t)
<1> DEFINE n == Len(r)
           k == b + t
<1>1. /\ k <= n => Eom(r, k)
      /\ \A i \in 4 .. k - 1 : i <= n => ~Eom(r, i)
  BY NoEomBefore
<1>2. \/ e = 0 /\ \A j \in skip + 4 .. n : ~Eom(r, j)
      \/ e \in skip + 4 .. n /\ Eom(r, e) /\ \A j \in skip + 4 .. e - 1 : ~Eom(r, j)
  BY DEF FirstEom
<1>20. \A i \in b + 5 .. skip + 3 : ~Eom(r, i)
  BY DEF NoEom
<1>3. k \in Nat /\ b + 5 <= k /\ n \in Nat
  OBVIOUS
<1> HIDE DEF n, k
<1>4. k <= n => ~(k <= skip + 3)
  <2> SUFFICES ASSUME k <= n, k <= skip + 3 PROVE FALSE
    OBVIOUS
  <2>1. k \in b + 5 .. skip + 3
    BY <1>3
  <2> QED
    BY <1>1, <1>20, <2>1
<1>5. ASSUME e = 0 PROVE n < k
  <2> SUFFICES ASSUME ~(n < k) PROVE FALSE
    OBVIOUS
  <2>1. k <= n
    BY <1>3
  <2>2. k \in skip + 4 .. n
    BY <1>3, <1>4, <2>1
  <2>3. ~(0 \in skip + 4 .. n)
    BY <1>3
  <2> QED
    BY <1>1, <1>2, <1>5, <2>1, <2>2, <2>3
<1>6. ASSUME e # 0 PROVE e = k /\ k <= n
  <2>1. e \in skip + 4 .. n /\ Eom(r, e) /\ \A j \in skip + 4 .. e - 1 : ~Eom(r, j)
    BY <1>2, <1>6
  <2>2. e \in Nat /\ skip + 4 <= e /\ e <= n
    BY <1>3, <2>1
  <2>3. ~(e < k)
    <3> SUFFICES ASSUME e < k PROVE FALSE
      OBVIOUS
    <3>1. e \in 4 .. k - 1
      BY <1>3, <2>2
    <3> QED
      BY <1>1, <2>1, <2>2, <3>1
  <2>4. ~(k < e)
    <3> SUFFICES ASSUME k < e PROVE FALSE
      OBVIOUS
    <3>1. k <= n
      BY <1>3, <2>2
    <3>2. k \in skip + 4 .. e - 1
      BY <1>3, <1>4, <2>2, <3>1
    <3> QED
      BY <1>1, <2>1, <3>1, <3>2
  <2> QED
    BY <1>3, <2>2, <2>3, <2>4
<1> QED
  BY <1>5, <1>6 DEF n, k, EndsAt

\* The search for the end of the line finds it, if it is there
LEMMA NeverBad ==
  ASSUME NEW r, Len(r) \in Nat, NEW b \in {0, 2}, NEW z, Heading(r, b, z),
         NEW skip \in {b, b + 1}, b + 1 <= Len(r)
  PROVE  /\ FindEol(r, skip).r # "bad" /\ r[b + 1].k = "size"
         /\ b + 3 <= Len(r) => FindEol(r, skip).r = "found"
<1> DEFINE cr == EolFinder(r)[skip]
           n == Len(r)
           x == FindEol(r, skip)
<1>1. skip \in Nat /\ n \in Nat
  OBVIOUS
<1>2. FirstCr(r, skip, cr)
  BY <1>1, FindsCr
<1>3. x = CASE cr = 0 \/ cr = n -> [r |-> "none", at |-> 0]
            [] cr # 0 /\ cr < n /\ r[cr + 1] = Sym("lf", 0) -> [r |-> "found", at |-> cr + 1]
            [] OTHER -> [r |-> "bad", at |-> 0]
  BY FindEolIs
<1>4. /\ r[b + 1].k = "size" /\ ~Cr(r, b + 1)
      /\ b + 2 <= n => Cr(r, b + 2)
      /\ b + 3 <= n => Lf(r, b + 3)
  BY DEF Heading, Sym, Cr
<1> HIDE DEF cr, n, x
<1>5. \/ cr = 0 /\ \A j \in skip + 1 .. n : ~Cr(r, j)
      \/ cr \in skip + 1 .. n /\ Cr(r, cr) /\ \A j \in skip + 1 .. cr - 1 : ~Cr(r, j)
  BY <1>2 DEF FirstCr, n
<1>6. CASE cr = 0
  <2>1. x.r = "none"
    BY <1>3, <1>6
  <2>2. ~(b + 2 <= n)
    <3> SUFFICES ASSUME b + 2 <= n PROVE FALSE
      OBVIOUS
    <3>1. b + 2 \in skip + 1 .. n /\ ~(cr \in skip + 1 .. n)
      BY <1>1, <1>6
    <3> QED
      BY <1>4, <1>5, <3>1
  <2>3. ~(b + 3 <= n)
    BY <1>1, <2>2
  <2> QED
    BY <1>4, <2>1, <2>3 DEF x, n
<1>7. CASE cr # 0
  <2>1. cr \in skip + 1 .. n /\ Cr(r, cr) /\ \A j \in skip + 1 .. cr - 1 : ~Cr(r, j)
    BY <1>5, <1>7
  <2>2. cr \in Nat /\ skip + 1 <= cr /\ cr <= n
    BY <1>1, <2>1
  <2>3. cr # b + 1
    BY <1>4, <2>1
  <2>4. cr = b + 2
    <3> SUFFICES ASSUME b + 2 < cr PROVE FALSE
      BY <1>1, <2>2, <2>3
    <3>1. b + 2 \in skip + 1 .. cr - 1 /\ b + 2 <= n
      BY <1>1, <2>2
    <3> QED
      BY <1>4, <2>1, <3>1
  <2>5. cr # n => r[cr + 1] = Sym("lf", 0) /\ cr < n
    <3> SUFFICES ASSUME cr # n PROVE r[cr + 1] = Sym("lf", 0) /\ cr < n
      OBVIOUS
    <3>1. cr < n /\ b + 3 <= n /\ cr + 1 = b + 3
      BY <1>1, <2>2, <2>4
    <3> QED
      BY <1>4, <3>1 DEF Lf
  <2>6. cr = n => x.r = "none" /\ ~(b + 3 <= n)
    BY <1>1, <1>3, <2>4
  <2>7. cr # n => x.r = "found"
    BY <1>3, <1>7, <2>5
  <2> QED
    BY <1>4, <2>6, <2>7 DEF x, n
<1> QED
  BY <1>6, <1>7

LEMMA EolFound ==
  ASSUME NEW r \in Cuts, NEW b \in {0, 2}, NEW z, Heading(r, b, z), NEW skip \in {b, b + 1}, b + 1 <= Len(r)
  PROVE  LET x == FindEol(r, skip) IN
         /\ x.r \in {"found", "none"} /\ r[b + 1].k = "size"
         /\ x.r = "found" => x.at = b + 3 /\ b + 3 <= Len(r)
         /\ x.r = "none" => Len(r) <= b + 2
         /\ b + 3 <= Len(r) => x.at = b + 3
<1> DEFINE x == FindEol(r, skip)
<1>1. Len(r) \in Nat /\ skip \in Nat /\ b \in Nat /\ b <= skip /\ skip <= b + 1
  BY LenProperties DEF Cuts
<1>2. EolGives(r, skip, x)
  BY <1>1, EolIs
<1>3. x.r # "bad" /\ r[b + 1].k = "size" /\ (b + 3 <= Len(r) => x.r = "found")
  BY <1>1, NeverBad
<1> HIDE DEF x
<1>4. x.r \in {"found", "none", "bad"}
  BY <1>2 DEF EolGives
<1>5. /\ x.r # "none" /\ x.r # "bad" => x.at = b + 3 /\ b + 3 <= Len(r) /\ Cr(r, b + 2) /\ Lf(r, b + 3)
      /\ x.r = "none" => Len(r) <= b + 2
  BY <1>1, <1>2, <1>3, SizeEnds
<1>6. /\ x.r \in {"found", "none"} /\ r[b + 1].k = "size"
      /\ x.r = "found" => x.at = b + 3 /\ b + 3 <= Len(r)
      /\ x.r = "none" => Len(r) <= b + 2
      /\ b + 3 <= Len(r) => x.at = b + 3
  BY <1>3, <1>4, <1>5
<1> QED
  BY <1>6 DEF x

LEMMA AtTail ==
  ASSUME NEW p \in Nat, NEW b \in {0, 2}, NEW t \in {5, 8}, NEW n \in Nat, b + t <= n
  PROVE  b + 3 <= n /\ p + (b + 3) = p + b + 3 /\ p + (b + t) = p + b + t
  OBVIOUS

LEMMA LastChunkReads ==
  ASSUME ReadInv, SendInv', ReaderInv', rop.pc = "put", Still, body' = body,
         NEW p \in Parsers, p.s = "chunk_header", "final" \in p.f,
         HeaderAt(p, Was, Len(Was.sizes), taken + rop.p, Len(body)),
         \A i \in Start(p) + 5 .. p.skip + 3 : ~Eom(Rest, i),
         NEW eol, Start(p) + 3 <= Len(Rest) => eol = Start(p) + 3,
         LastChunkHeader(Rest, p, Start(p), eol)
  PROVE  ReadInv'
<1> DEFINE m == Was
           g == taken + rop.p
           b == Start(p)
           t == TailLen(m)
           n == Len(Rest)
           e == FindEom(Rest, p.skip)
           j == Len(m.sizes)
<1>1. /\ Parsing /\ BodyIs(body) /\ rop.p \in Nat /\ m \in Messages /\ n \in Nat
      /\ InFront(m, g, Rest) /\ n = Len(buf) - rop.p /\ Fits(m) /\ rop \in ReadOps
  BY BodyMeets, ReaderIs
<1>2. /\ m.framing = "chunked" /\ g + b = PieceEnd(m, j) /\ (b = 0) = (j = 0) /\ j \in 0 .. Len(m.sizes)
  BY DEF HeaderAt
<1>3. b \in {0, 2} /\ p.skip \in Nat
  BY DEF Start, Parsers
<1>4. Heading(Rest, b, 0)
  <2>1. SizeAt(m, j) = 0
    BY <1>1, <1>2, SizeIs
  <2> HIDE DEF g, b
  <2>2. Heading(Rest, b, SizeAt(m, j))
    BY <1>1, <1>2, <1>3, HeadingIs
  <2> QED
    BY <2>1, <2>2
<1>5. LastPart(Rest, b, t) /\ t \in {5, 8}
  <2>1. g + b = BodyEnd(m)
    BY <1>2 DEF BodyEnd
  <2> HIDE DEF g, b
  <2> QED
    BY <1>1, <1>2, <1>3, <2>1, TailMeets
<1>6. /\ e = 0 => n < b + t
      /\ e # 0 => e = b + t /\ b + t <= n
  <2>1. FirstEom(Rest, p.skip, e)
    BY <1>1, <1>3, FindEomIs
  <2>2. NoEom(Rest, b, p.skip)
    BY DEF NoEom
  <2> HIDE DEF e, b, t
  <2>3. EndsAt(Rest, e, b + t)
    BY <1>1, <1>3, <1>4, <1>5, <2>1, <2>2, LastEom
  <2> QED
    BY <2>3 DEF EndsAt
<1>8. \/ /\ e = 0 /\ par' = [p EXCEPT !.skip = n - 3]
         /\ Return(rop.p, "need_more")
      \/ e # 0 /\ eol # b + 3
      \/ /\ e # 0 /\ eol = b + 3 /\ par' = p
         /\ rop' = [rop EXCEPT !.pc = "trailer", !.q = rop.p + eol, !.last = rop.p + e]
  BY DEF LastChunkHeader
<1>9. \/ par'.s = p.s /\ par'.f = p.f /\ par'.limit = p.limit /\ par'.bodiless = p.bodiless
      \/ e # 0 /\ eol # b + 3
  <2> DEFINE l == n - 3
  <2>1. par' = [p EXCEPT !.skip = l] \/ par' = p \/ (e # 0 /\ eol # b + 3)
    BY <1>8
  <2> HIDE DEF l, e, b, n
  <2>2. ASSUME par' = [p EXCEPT !.skip = l]
        PROVE  par'.s = p.s /\ par'.f = p.f /\ par'.limit = p.limit /\ par'.bodiless = p.bodiless
    BY <2>2 DEF Parsers
  <2>3. \/ par'.s = p.s /\ par'.f = p.f /\ par'.limit = p.limit /\ par'.bodiless = p.bodiless
        \/ e # 0 /\ eol # b + 3
    BY <2>1, <2>2
  <2> QED
    BY <2>3
<1>10. e # 0 => eol = b + 3
  <2> HIDE DEF e, b, t, n
  <2>1. e # 0 => b + 3 <= n
    BY <1>1, <1>3, <1>5, <1>6, AtTail
  <2> QED
    BY <2>1 DEF b, n
<1>11. /\ par'.s = p.s /\ par'.f = p.f /\ par'.limit = p.limit /\ par'.bodiless = p.bodiless
  BY <1>9, <1>10
<1>12. Start(par') = b
  BY <1>11 DEF Start
<1>13. Understands(par', g, Len(body')) /\ Needs(par', m, g) = b + t
  <2>1. HeaderAt(par', m, j, g, Len(body))
    BY <1>11, <1>12 DEF HeaderAt
  <2>2. par'.s = "chunk_header" /\ body' = body
    BY <1>11
  <2> QED
    BY <1>12, <2>1, <2>2, ChunkUnderstood
<1> HIDE DEF e, b, t, n, g, m
<1>14. CASE /\ e = 0 /\ par' = [p EXCEPT !.skip = n - 3]
            /\ Return(rop.p, "need_more")
  <2>1. "need_more" \in PutCodes /\ Justified("need_more") /\ "need_more" \notin Limits
    BY DEF PutCodes, Justified, Limits
  <2>2. Len(buf) - rop.p < Needs(par', m, g)
    BY <1>1, <1>6, <1>13, <1>14
  <2>3. BodyIs(body')
    BY <1>1
  <2> QED
    BY <1>1, <1>13, <1>14, <2>1, <2>2, <2>3, ReturnReads DEF g, m
<1>15. CASE /\ e # 0 /\ eol = b + 3 /\ par' = p
            /\ rop' = [rop EXCEPT !.pc = "trailer", !.q = rop.p + eol, !.last = rop.p + e]
  <2> DEFINE q == rop.p + eol
             last == rop.p + e
  <2>1. rop' = [rop EXCEPT !.pc = "trailer", !.q = q, !.last = last]
    BY <1>15
  <2>2. q = rop.p + b + 3 /\ last = rop.p + b + t
    <3>1. e = b + t /\ b + t <= n
      BY <1>6, <1>15
    <3>2. b + 3 <= n /\ rop.p + (b + 3) = rop.p + b + 3 /\ rop.p + (b + t) = rop.p + b + t
      BY <1>1, <1>3, <1>5, <3>1, AtTail
    <3> QED
      BY <1>15, <3>1, <3>2
  <2> HIDE DEF q, last
  <2>3. rop'.pc = "trailer" /\ rop'.q = q /\ rop'.last = last /\ rop'.p = rop.p /\ rop'.ec = rop.ec
    BY <1>1, <2>1 DEF ReadOps
  <2>4. rop.ec = ""
    BY <1>1, BodyMeets DEF Meets
  <2>5. Goes(rop'.pc, rop'.ec) /\ Justified(rop'.ec)
    BY <2>3, <2>4 DEF Goes, PutCodes, Justified
  <2>6. rop'.last = rop'.p + Start(par') + TailLen(Was) /\ rop'.q = rop'.p + Start(par') + 3
    BY <1>12, <2>2, <2>3 DEF t, m
  <2>7. g = taken + (IF rop'.pc = "field" THEN rop'.q ELSE rop'.p)
    BY <2>3 DEF g
  <2>8. rop'.pc # "put" /\ rop'.pc # "field" /\ rop'.ec # "need_buffer" /\ rop'.ec # "need_more"
    BY <2>3, <2>4
  <2>9. BodyIs(body')
    BY <1>1
  <2> QED
    BY <1>1, <1>13, <2>5, <2>6, <2>7, <2>8, <2>9, PutsOn DEF m
<1> QED
  BY <1>8, <1>10, <1>14, <1>15

LEMMA PutLastChunkReads ==
  ASSUME ReadInv, SendInv', ReaderInv', PutLastChunk, UNCHANGED serVars
  PROVE  ReadInv'
<1> DEFINE b == Start(par)
           eol == FindEol(Rest, b + 1).at
<1>1. /\ rop.pc = "put" /\ par.s = "chunk_header" /\ "final" \in par.f
      /\ LastChunkHeader(Rest, par, b, eol)
  BY PutLastChunkDoes
<1>2. UNCHANGED <<buf, how, body, taken, received>>
  BY DEF PutLastChunk
<1>3. Still /\ body' = body
  BY <1>2 DEF Still
<1>4. /\ par \in Parsers /\ ParserAt(par, Was, taken + rop.p, Len(body)) /\ Was \in Messages
      /\ InFront(Was, taken + rop.p, Rest) /\ Fits(Was) /\ Len(Rest) \in Nat /\ 1 <= Len(Rest)
  BY <1>1, BodyMeets
<1>5. PICK j \in 0 .. Len(Was.sizes) : HeaderAt(par, Was, j, taken + rop.p, Len(body))
  BY <1>1, <1>4, ChunkMeets
<1>6. j = Len(Was.sizes) /\ Was.framing = "chunked" /\ (taken + rop.p) + b = PieceEnd(Was, j)
      /\ (b = 0) = (j = 0)
  BY <1>1, <1>5 DEF HeaderAt
<1>7. \A i \in b + 5 .. par.skip + 3 : ~Eom(Rest, i)
  BY <1>1 DEF ReadInv, ReaderInv, Parses, Searches
<1>8. b + 3 <= Len(Rest) => eol = b + 3
  <2> SUFFICES ASSUME b + 3 <= Len(Rest) PROVE eol = b + 3
    OBVIOUS
  <2>1. b \in {0, 2}
    BY DEF Start
  <2>2. Rest \in Cuts
    BY RestIs, ReaderIs DEF ReadInv
  <2>3. Heading(Rest, b, SizeAt(Was, j))
    <3> HIDE DEF b
    <3> QED
      BY <1>4, <1>5, <1>6, <2>1, HeadingIs
  <2> HIDE DEF b
  <2>4. b + 1 <= Len(Rest) /\ b + 1 \in {b, b + 1}
    BY <1>4, <2>1
  <2> QED
    BY <2>1, <2>2, <2>3, <2>4, EolFound
<1> HIDE DEF eol
<1> QED
  BY <1>1, <1>3, <1>4, <1>5, <1>6, <1>7, <1>8, LastChunkReads

LEMMA HeaderCases ==
  ASSUME PutChunkHeader
  PROVE  LET now == [par EXCEPT !.s = "chunk_header"]
             x == FindEol(Rest, par.skip)
             q == Start(par)
             r == Rest
             l == Len(r)
             Sees == ~(l < par.skip + 2) /\ x.r # "bad"
         IN  /\ rop.pc = "put" /\ par.s \in {"chunk_header0", "chunk_header"} /\ "final" \notin par.f
             /\ UNCHANGED <<buf, how, body, taken, received>>
             /\ \/ l < par.skip + 2 /\ par' = now /\ Return(rop.p, "need_more")
                \/ ~(l < par.skip + 2) /\ q = 2 /\ SubSeq(r, 1, 2) # CRLF
                \/ ~(l < par.skip + 2) /\ x.r = "bad"
                \/ Sees /\ x.r = "none" /\ par' = [now EXCEPT !.skip = l - 1] /\ Return(rop.p, "need_more")
                \/ Sees /\ r[q + 1].k # "size"
                \/ /\ Sees /\ x.r # "none" /\ r[q + 1].n = 0
                   /\ LastChunkHeader(r, [now EXCEPT !.f = @ \cup {"final"}, !.skip = x.at - 2], q, x.at)
                \/ /\ Sees /\ r[q + 1].n # 0 /\ r[q + 1].n > par.limit /\ par' = now
                   /\ Return(rop.p, "body_limit")
                \/ Sees /\ x.r # "none" /\ x.at # q + 3
                \/ /\ Sees /\ x.r # "none" /\ r[q + 1].n # 0 /\ ~(r[q + 1].n > par.limit)
                   /\ par' = [now EXCEPT !.s = "chunk_body", !.len = r[q + 1].n, !.skip = 2,
                              !.limit = @ - r[q + 1].n, !.f = @ \cup {"expect_crlf"}]
                   /\ Break(rop.p + x.at, par')
<1> DEFINE now == [par EXCEPT !.s = "chunk_header"]
           x == FindEol(Rest, par.skip)
           q == Start(par)
           r == Rest
           l == Len(r)
           Sees == ~(l < par.skip + 2) /\ x.r # "bad"
<1>1. /\ rop.pc = "put" /\ par.s \in {"chunk_header0", "chunk_header"} /\ "final" \notin par.f
      /\ UNCHANGED <<buf, how, body, taken, received>>
  BY DEF PutChunkHeader
<1>2. IF l < par.skip + 2 THEN par' = now /\ Return(rop.p, "need_more") /\ UNCHANGED failed
      ELSE IF q = 2 /\ SubSeq(r, 1, 2) # CRLF
        THEN par' = now /\ Return(rop.p, "bad_chunk") /\ UNCHANGED failed
      ELSE IF x.r = "bad" THEN par' = now /\ Return(rop.p, "bad_line_ending") /\ UNCHANGED failed
      ELSE IF x.r = "none" THEN
        par' = [now EXCEPT !.skip = l - 1] /\ Return(rop.p, "need_more") /\ UNCHANGED failed
      ELSE IF r[q + 1].k # "size" THEN par' = now /\ Return(rop.p, "bad_chunk") /\ UNCHANGED failed
      ELSE IF r[q + 1].n = 0 THEN
        /\ LastChunkHeader(r, [now EXCEPT !.f = @ \cup {"final"}, !.skip = x.at - 2], q, x.at)
        /\ Check("n >= 3", l >= 3)
      ELSE IF r[q + 1].n > par.limit
        THEN par' = now /\ Return(rop.p, "body_limit") /\ UNCHANGED failed
      ELSE IF x.at # q + 3
        THEN par' = now /\ Return(rop.p, "bad_chunk_extension") /\ UNCHANGED failed
      ELSE /\ par' = [now EXCEPT !.s = "chunk_body", !.len = r[q + 1].n, !.skip = 2,
                       !.limit = @ - r[q + 1].n, !.f = @ \cup {"expect_crlf"}]
           /\ Break(rop.p + x.at, par')
           /\ UNCHANGED failed
  BY Zenon DEF PutChunkHeader, Start
<1>3. \/ l < par.skip + 2 /\ par' = now /\ Return(rop.p, "need_more")
      \/ ~(l < par.skip + 2) /\ q = 2 /\ SubSeq(r, 1, 2) # CRLF
      \/ ~(l < par.skip + 2) /\ x.r = "bad"
      \/ Sees /\ x.r = "none" /\ par' = [now EXCEPT !.skip = l - 1] /\ Return(rop.p, "need_more")
      \/ Sees /\ r[q + 1].k # "size"
      \/ /\ Sees /\ x.r # "none" /\ r[q + 1].n = 0
         /\ LastChunkHeader(r, [now EXCEPT !.f = @ \cup {"final"}, !.skip = x.at - 2], q, x.at)
      \/ /\ Sees /\ r[q + 1].n # 0 /\ r[q + 1].n > par.limit /\ par' = now
         /\ Return(rop.p, "body_limit")
      \/ Sees /\ x.r # "none" /\ x.at # q + 3
      \/ /\ Sees /\ x.r # "none" /\ r[q + 1].n # 0 /\ ~(r[q + 1].n > par.limit)
         /\ par' = [now EXCEPT !.s = "chunk_body", !.len = r[q + 1].n, !.skip = 2,
                    !.limit = @ - r[q + 1].n, !.f = @ \cup {"expect_crlf"}]
         /\ Break(rop.p + x.at, par')
  <2> HIDE DEF now, x, q, r, l
  <2> QED
    BY Zenon, <1>2
<1> QED
  BY Zenon, <1>1, <1>3

\* What stands in front of the parser there
HeaderFront(m, j, g, b, n, skip) ==
  /\ b \in {0, 2} /\ n \in Nat /\ g \in Nat /\ skip \in Nat /\ g + b = PieceEnd(m, j)
  /\ j \in 0 .. Len(m.sizes) /\ Heading(Rest, b, SizeAt(m, j)) /\ SizeAt(m, j) \in Nat
  /\ (SizeAt(m, j) = 0 <=> j = Len(m.sizes))
  /\ ~(n < skip + 2) => skip \in {b, b + 1} /\ b + 1 <= n /\ b + 2 <= n

LEMMA HeaderFrontIs ==
  ASSUME ReadInv, rop.pc = "put", par.s \in {"chunk_header0", "chunk_header"}, "final" \notin par.f,
         NEW j, HeaderAt(par, Was, j, taken + rop.p, Len(body))
  PROVE  HeaderFront(Was, j, taken + rop.p, Start(par), Len(Rest), par.skip)
<1> DEFINE m == Was
           g == taken + rop.p
           b == Start(par)
           n == Len(Rest)
           skip == par.skip
<1>1. /\ m \in Messages /\ n \in Nat /\ InFront(m, g, Rest) /\ Fits(m) /\ par \in Parsers /\ 1 <= n
  BY BodyMeets
<1>2. /\ m.framing = "chunked" /\ g + b = PieceEnd(m, j) /\ (b = 0) = (j = 0) /\ j \in 0 .. Len(m.sizes)
  BY DEF HeaderAt
<1>3. b \in {0, 2} /\ skip \in Nat /\ g \in Nat
  BY <1>1 DEF Start, Parsers, InFront
<1>4. SizeAt(m, j) \in Nat /\ (SizeAt(m, j) = 0 <=> j = Len(m.sizes))
  BY <1>1, <1>2, SizeIs
<1>5. Heading(Rest, b, SizeAt(m, j))
  <2> HIDE DEF g, b
  <2> QED
    BY <1>1, <1>2, <1>3, HeadingIs
<1>6. /\ b <= skip
      /\ \/ skip <= b
         \/ b + 1 <= n /\ (skip <= b + 1 \/ Rest[b + 1].k # "size")
  BY ChunkHeaderParses DEF Searches, ReadInv
<1>7. b + 1 <= n => Rest[b + 1].k = "size"
  BY <1>5 DEF Heading, Sym
<1> HIDE DEF m, g, b, n, skip
<1>8. ~(n < skip + 2) => skip \in {b, b + 1} /\ b + 1 <= n /\ b + 2 <= n
  BY <1>1, <1>3, <1>6, <1>7
<1>9. HeaderFront(m, j, g, b, n, skip)
  BY <1>1, <1>2, <1>3, <1>4, <1>5, <1>8 DEF HeaderFront, n
<1> QED
  BY <1>9 DEF m, g, b, n, skip

LEMMA IsCrlf ==
  ASSUME NEW r \in Texts, 2 <= Len(r), Len(r) \in Nat, NEW z, Heading(r, 2, z)
  PROVE  SubSeq(r, 1, 2) = CRLF
<1> DEFINE s == SubSeq(r, 1, 2)
<1>1. r[1] = Sym("cr", 0) /\ r[2] = Sym("lf", 0)
  BY DEF Heading, Cr, Lf
<1>2. CRLF \in Seq(Symbols) /\ Len(CRLF) = 2 /\ CRLF[1] = Sym("cr", 0) /\ CRLF[2] = Sym("lf", 0)
  <2>1. CRLF \in Texts /\ Len(CRLF) = 2 /\ EndAt(CRLF, 0)
    BY EmptyLineIs
  <2>2. Cr(CRLF, 1) /\ Lf(CRLF, 2)
    <3>1. 0 + 1 = 1 /\ 0 + 2 = 2
      OBVIOUS
    <3> QED
      BY <2>1, <3>1 DEF EndAt
  <2> QED
    BY <2>1, <2>2 DEF Texts, Cr, Lf
<1>3. s \in Seq(Symbols) /\ Len(s) = 2 /\ s[1] = r[1] /\ s[2] = r[2]
  <2>1. \A i \in 1 .. 2 : r[i] \in Symbols
    <3>1. \A i \in 1 .. 2 : i \in 1 .. Len(r)
      OBVIOUS
    <3> QED
      BY <3>1, ElementOfSeq DEF Texts
  <2>2. s \in Seq(Symbols) /\ Len(s) = 2 /\ \A i \in 1 .. 2 : s[i] = r[1 + i - 1]
    BY <2>1, SubSeqProperties
  <2> HIDE DEF s
  <2> QED
    BY <2>2
<1> HIDE DEF s
<1>4. Len(s) = Len(CRLF) /\ \A i \in 1 .. Len(s) : s[i] = CRLF[i]
  BY <1>1, <1>2, <1>3
<1>5. s = CRLF
  BY <1>2, <1>3, <1>4, SeqEqual
<1> QED
  BY <1>5 DEF s

ChunkOpens(g, b, z, e1, c0, c1, limit) ==
  /\ z >= 1 => z \in 1 .. z
  /\ (g + (b + 3)) + z + 2 = e1 /\ c0 + z = c1
  /\ limit - c0 - z = limit - c1 /\ (~(z > limit - c0) => limit - c1 >= 0)
  /\ z > limit - c0 => limit < c1

LEMMA OpenCounts ==
  ASSUME NEW g \in Nat, NEW b \in Nat, NEW z \in Nat, NEW e \in Nat, NEW e1 \in Nat, NEW c0 \in Nat,
         NEW c1 \in Nat, NEW limit \in Nat, g + b = e, e1 = (e + z) + 5, c1 = c0 + z
  PROVE  ChunkOpens(g, b, z, e1, c0, c1, limit)
  BY DEF ChunkOpens

LEMMA PutChunkHeaderReads ==
  ASSUME ReadInv, SendInv', ReaderInv', PutChunkHeader, UNCHANGED serVars
  PROVE  ReadInv'
<1> DEFINE now == [par EXCEPT !.s = "chunk_header"]
           x == FindEol(Rest, par.skip)
           b == Start(par)
           n == Len(Rest)
           m == Was
           g == taken + rop.p
           t == TailLen(m)
           c == Len(body)
           skip == par.skip
<1>1. /\ rop.pc = "put" /\ par.s \in {"chunk_header0", "chunk_header"} /\ "final" \notin par.f
      /\ UNCHANGED <<buf, how, body, taken, received>>
  BY HeaderCases
<1>2. Still /\ body' = body
  BY <1>1 DEF Still
<1>3. /\ Parsing /\ par \in Parsers /\ BodyIs(body) /\ c \in Nat /\ rop.p \in Nat /\ taken \in Nat
      /\ m \in Messages /\ Rest \in Texts /\ n \in Nat /\ Fits(m)
      /\ ParserAt(par, m, g, c) /\ n = Len(buf) - rop.p
  BY <1>1, BodyMeets
<1>4. PICK j \in 0 .. Len(m.sizes) : HeaderAt(par, m, j, g, c)
  BY <1>1, <1>3, ChunkMeets
<1> DEFINE z == SizeAt(m, j)
<1>5. /\ b \in {0, 2} /\ n \in Nat /\ g \in Nat /\ skip \in Nat /\ g + b = PieceEnd(m, j)
      /\ Heading(Rest, b, z) /\ z \in Nat /\ (z = 0 <=> j = Len(m.sizes))
      /\ ~(n < skip + 2) => skip \in {b, b + 1} /\ b + 1 <= n /\ b + 2 <= n
  BY <1>1, <1>4, HeaderFrontIs DEF HeaderFront
<1>6. t \in {5, 8}
  BY <1>4 DEF HeaderAt, TailLen
<1>7. Rest \in Cuts
  BY RestIs, ReaderIs DEF ReadInv
<1>8. /\ now \in Parsers /\ now.s = "chunk_header" /\ now.skip = skip /\ now.f = par.f
      /\ now.limit = par.limit /\ now.bodiless = par.bodiless
  <2>1. "chunk_header" \in ParserStates
    BY DEF ParserStates
  <2> QED
    BY <1>3, <2>1 DEF Parsers
<1> HIDE DEF now, x, b, n, m, g, t, c, skip, z
<1>9. ASSUME ~(n < skip + 2)
      PROVE  /\ x.r \in {"found", "none"} /\ Rest[b + 1].k = "size" /\ Rest[b + 1].n = z
             /\ x.r = "found" => x.at = b + 3 /\ b + 3 <= n
             /\ x.r = "none" => n <= b + 2
             /\ b = 2 => SubSeq(Rest, 1, 2) = CRLF
  <2>1. /\ x.r \in {"found", "none"} /\ Rest[b + 1].k = "size"
        /\ x.r = "found" => x.at = b + 3 /\ b + 3 <= Len(Rest)
        /\ x.r = "none" => Len(Rest) <= b + 2
    BY <1>5, <1>7, <1>9, EolFound DEF x, skip, n
  <2>2. Rest[b + 1].n = z
    BY <1>5, <1>9 DEF Heading, Sym, n
  <2>3. b = 2 => SubSeq(Rest, 1, 2) = CRLF
    <3> SUFFICES ASSUME b = 2 PROVE SubSeq(Rest, 1, 2) = CRLF
      OBVIOUS
    <3>1. 2 <= Len(Rest) /\ Len(Rest) \in Nat /\ Heading(Rest, 2, z)
      <4>1. 2 <= n
        BY <1>5, <1>9
      <4> QED
        BY <1>5, <4>1 DEF n
    <3> QED
      BY <1>3, <3>1, IsCrlf
  <2> QED
    BY <2>1, <2>2, <2>3 DEF n
<1>10. \/ n < skip + 2 /\ par' = now /\ Return(rop.p, "need_more")
       \/ /\ ~(n < skip + 2) /\ x.r = "none" /\ par' = [now EXCEPT !.skip = n - 1]
          /\ Return(rop.p, "need_more")
       \/ /\ ~(n < skip + 2) /\ x.r = "found" /\ z = 0
          /\ LastChunkHeader(Rest, [now EXCEPT !.f = @ \cup {"final"}, !.skip = x.at - 2], b, x.at)
       \/ ~(n < skip + 2) /\ z # 0 /\ z > par.limit /\ par' = now /\ Return(rop.p, "body_limit")
       \/ /\ ~(n < skip + 2) /\ x.r = "found" /\ z # 0 /\ ~(z > par.limit)
          /\ par' = [now EXCEPT !.s = "chunk_body", !.len = z, !.skip = 2,
                     !.limit = @ - z, !.f = @ \cup {"expect_crlf"}]
          /\ Break(rop.p + x.at, par')
  <2> DEFINE Sees == ~(n < skip + 2) /\ x.r # "bad"
  <2>1. \/ n < skip + 2 /\ par' = now /\ Return(rop.p, "need_more")
        \/ ~(n < skip + 2) /\ b = 2 /\ SubSeq(Rest, 1, 2) # CRLF
        \/ ~(n < skip + 2) /\ x.r = "bad"
        \/ Sees /\ x.r = "none" /\ par' = [now EXCEPT !.skip = n - 1] /\ Return(rop.p, "need_more")
        \/ Sees /\ Rest[b + 1].k # "size"
        \/ /\ Sees /\ x.r # "none" /\ Rest[b + 1].n = 0
           /\ LastChunkHeader(Rest, [now EXCEPT !.f = @ \cup {"final"}, !.skip = x.at - 2], b, x.at)
        \/ /\ Sees /\ Rest[b + 1].n # 0 /\ Rest[b + 1].n > par.limit /\ par' = now
           /\ Return(rop.p, "body_limit")
        \/ Sees /\ x.r # "none" /\ x.at # b + 3
        \/ /\ Sees /\ x.r # "none" /\ Rest[b + 1].n # 0 /\ ~(Rest[b + 1].n > par.limit)
           /\ par' = [now EXCEPT !.s = "chunk_body", !.len = Rest[b + 1].n, !.skip = 2,
                      !.limit = @ - Rest[b + 1].n, !.f = @ \cup {"expect_crlf"}]
           /\ Break(rop.p + x.at, par')
    BY Zenon, HeaderCases DEF now, x, b, n, skip
  <2>2. CASE n < skip + 2
    BY Zenon, <2>1, <2>2
  <2>3. CASE ~(n < skip + 2)
    <3>1. Rest[b + 1].n = z /\ Rest[b + 1].k = "size" /\ (b = 2 => SubSeq(Rest, 1, 2) = CRLF)
          /\ x.r \in {"found", "none"} /\ (x.r = "found" => x.at = b + 3)
      BY <1>9, <2>3
    <3>2. x.r # "bad" /\ (x.r # "none" => x.r = "found" /\ x.at = b + 3)
      BY <3>1
    <3> QED
      BY Zenon, <2>1, <2>3, <3>1, <3>2
  <2> QED
    BY <2>2, <2>3
<1>11. ASSUME NEW k, par' = [now EXCEPT !.skip = k] \/ par' = now
       PROVE  /\ HeaderAt(par', m, j, g, c) /\ par'.s = "chunk_header" /\ Start(par') = b
  <2>1. /\ par'.s = "chunk_header" /\ par'.f = par.f /\ par'.limit = par.limit
        /\ par'.bodiless = par.bodiless
    BY <1>8, <1>11 DEF Parsers
  <2>2. Start(par') = b
    BY <2>1 DEF Start, b
  <2> QED
    BY <1>4, <2>1, <2>2 DEF HeaderAt, b
<1>12. ASSUME NEW k, par' = [now EXCEPT !.skip = k] \/ par' = now, Return(rop.p, "need_more"), n < b + t
       PROVE  ReadInv'
  <2>1. /\ HeaderAt(par', m, j, g, c) /\ par'.s = "chunk_header" /\ Start(par') = b
    BY <1>11, <1>12
  <2>2. Understands(par', g, c) /\ Needs(par', m, g) = b + t
    BY <2>1, ChunkUnderstood DEF m, t
  <2>3. "need_more" \in PutCodes /\ Justified("need_more") /\ "need_more" \notin Limits
    BY DEF PutCodes, Justified, Limits
  <2>4. Len(buf) - rop.p < Needs(par', Was, g)
    BY <1>3, <1>12, <2>2 DEF m
  <2>5. Understands(par', taken + rop.p, Len(body')) /\ BodyIs(body')
    BY <1>2, <1>3, <2>2 DEF g, c
  <2> QED
    BY <1>2, <1>3, <1>12, <2>3, <2>4, <2>5, ReturnReads DEF g
<1>13. CASE n < skip + 2 /\ par' = now /\ Return(rop.p, "need_more")
  <2>1. skip <= b + 1
    <3>1. /\ b <= skip
          /\ \/ skip <= b
             \/ b + 1 <= n /\ (skip <= b + 1 \/ Rest[b + 1].k # "size")
      BY <1>1, ChunkHeaderParses DEF Searches, ReadInv, b, n, skip
    <3>2. b + 1 <= n => Rest[b + 1].k = "size"
      BY <1>5 DEF Heading, Sym, n
    <3> QED
      BY <1>5, <3>1, <3>2
  <2>2. n < b + t
    BY <1>5, <1>6, <1>13, <2>1
  <2> QED
    BY <1>12, <1>13, <2>2
<1>14. CASE /\ ~(n < skip + 2) /\ x.r = "none" /\ par' = [now EXCEPT !.skip = n - 1]
            /\ Return(rop.p, "need_more")
  <2>1. n <= b + 2
    BY <1>9, <1>14
  <2>2. n < b + t
    BY <1>5, <1>6, <2>1
  <2> DEFINE k == n - 1
  <2>3. par' = [now EXCEPT !.skip = k]
    BY <1>14
  <2> HIDE DEF k
  <2> QED
    BY <1>12, <1>14, <2>2, <2>3
<1>15. CASE /\ ~(n < skip + 2) /\ x.r = "found" /\ z = 0
            /\ LastChunkHeader(Rest, [now EXCEPT !.f = @ \cup {"final"}, !.skip = x.at - 2], b, x.at)
  <2> DEFINE f == now.f \cup {"final"}
             k == x.at - 2
             p == [now EXCEPT !.f = f, !.skip = k]
  <2>1. x.at = b + 3 /\ b + 3 <= n
    BY <1>9, <1>15
  <2>2. k = b + 1 /\ k \in Nat
    BY <1>5, <2>1
  <2>3. /\ f \in SUBSET {"length", "chunked", "has_body", "need_eof", "final", "expect_crlf"}
        /\ "final" \in f /\ ("expect_crlf" \in f <=> "expect_crlf" \in par.f)
        /\ ("chunked" \in f <=> "chunked" \in par.f) /\ ("need_eof" \in f <=> "need_eof" \in par.f)
    BY <1>8 DEF Parsers
  <2>4. LastChunkHeader(Rest, p, b, x.at)
    BY <1>8, <1>15 DEF Parsers
  <2> HIDE DEF f, k
  <2>5. p \in Parsers /\ p.s = "chunk_header" /\ p.f = f /\ p.skip = k /\ p.limit = par.limit
        /\ p.bodiless = par.bodiless
    BY <1>8, <2>2, <2>3 DEF Parsers
  <2> HIDE DEF p
  <2>6. Start(p) = b
    BY <2>3, <2>5 DEF Start, b
  <2>7. j = Len(m.sizes)
    BY <1>5, <1>15
  <2>8. HeaderAt(p, m, j, g, c)
    BY <1>4, <2>3, <2>5, <2>6, <2>7 DEF HeaderAt, b
  <2>9. \A i \in Start(p) + 5 .. p.skip + 3 : ~Eom(Rest, i)
    <3>1. p.skip = b + 1 /\ Start(p) = b
      BY <2>2, <2>5, <2>6
    <3>2. \A i \in Start(p) + 5 .. p.skip + 3 : FALSE
      BY <1>5, <3>1
    <3> QED
      BY <3>2
  <2>10. "final" \in p.f
    BY <2>3, <2>5
  <2>11. LastChunkHeader(Rest, p, Start(p), x.at)
    BY <2>4, <2>6
  <2>12. Start(p) + 3 <= Len(Rest) => x.at = Start(p) + 3
    BY <2>1, <2>6
  <2>13. HeaderAt(p, Was, Len(Was.sizes), taken + rop.p, Len(body))
    BY <2>7, <2>8 DEF m, g, c
  <2> HIDE DEF x
  <2> QED
    BY <1>1, <1>2, <2>5, <2>9, <2>10, <2>11, <2>12, <2>13, LastChunkReads
<1> DEFINE e == PieceEnd(m, j)
           e1 == PieceEnd(m, j + 1)
           c1 == Before(m, j + 1)
<1>16. ASSUME z # 0
       PROVE  /\ j + 1 \in 1 .. Len(m.sizes) /\ j + 1 \in 0 .. Len(m.sizes) /\ z = m.sizes[j + 1] /\ c1 \in Nat
              /\ c1 <= Total(m) /\ Total(m) \in Nat /\ ChunkOpens(g, b, z, e1, c, c1, BodyLimit)
              /\ par.limit = BodyLimit - c /\ z >= 1
  <2>1. Len(m.sizes) \in Nat
    BY <1>3, EndsAre
  <2>2. j + 1 \in 1 .. Len(m.sizes) /\ j < Len(m.sizes) /\ j + 1 \in 0 .. Len(m.sizes) /\ (j + 1) - 1 = j
    BY <1>5, <1>16, <2>1
  <2>3. z = m.sizes[j + 1]
    BY <2>2 DEF SizeAt, z
  <2>4. m.framing = "chunked" /\ c = Before(m, j) /\ par.limit = BodyLimit - Before(m, j)
    BY <1>4 DEF HeaderAt
  <2>5. /\ m.sizes[j + 1] \in Nat /\ e \in Nat /\ e1 \in Nat
        /\ c1 \in Nat /\ Total(m) \in Nat /\ c1 <= Total(m)
        /\ e1 = (e + m.sizes[j + 1]) + 5
        /\ c1 = Before(m, j) + m.sizes[j + 1]
    BY <1>3, <2>2, <2>4, ChunkEnds
  <2>6. BodyLimit \in Nat
    BY ConstantsAssumption DEF ConstantsAssumption
  <2>7. g + b = e
    BY <1>5
  <2> HIDE DEF e, e1, c1
  <2>8. b \in Nat /\ z >= 1
    BY <1>5, <1>16
  <2>9. ChunkOpens(g, b, z, e1, c, c1, BodyLimit)
    BY <1>3, <1>5, <2>3, <2>4, <2>5, <2>6, <2>7, <2>8, OpenCounts
  <2> QED
    BY <2>2, <2>3, <2>4, <2>5, <2>8, <2>9
<1> HIDE DEF e, e1, c1
<1>17. CASE ~(n < skip + 2) /\ z # 0 /\ z > par.limit /\ par' = now /\ Return(rop.p, "body_limit")
  <2>1. BodyLimit < c1 /\ c1 <= Total(m) /\ Total(m) \in Nat /\ c1 \in Nat
    BY <1>16, <1>17 DEF ChunkOpens
  <2>2. BodyLimit < Total(m)
    <3>1. BodyLimit \in Nat
      BY ConstantsAssumption DEF ConstantsAssumption
    <3> QED
      BY <2>1, <3>1
  <2>3. Justified("body_limit")
    BY <2>2 DEF Justified, m
  <2>4. "body_limit" \in PutCodes /\ "body_limit" \in Limits
    BY DEF PutCodes, Limits
  <2>5. BodyIs(body')
    BY <1>2, <1>3
  <2> QED
    BY <1>2, <1>3, <1>17, <2>3, <2>4, <2>5, ReturnReads
<1>18. CASE /\ ~(n < skip + 2) /\ x.r = "found" /\ z # 0 /\ ~(z > par.limit)
            /\ par' = [now EXCEPT !.s = "chunk_body", !.len = z, !.skip = 2,
                       !.limit = @ - z, !.f = @ \cup {"expect_crlf"}]
            /\ Break(rop.p + x.at, par')
  <2> DEFINE f == now.f \cup {"expect_crlf"}
             k == now.limit - z
             two == 2
             g1 == g + (b + 3)
  <2>1. par' = [now EXCEPT !.s = "chunk_body", !.len = z, !.skip = two, !.limit = k, !.f = f]
    BY <1>8, <1>18 DEF Parsers
  <2>2. /\ "chunked" \in f <=> "chunked" \in par.f
        /\ "need_eof" \in f <=> "need_eof" \in par.f
    BY <1>8
  <2> HIDE DEF f, k, two
  <2>3. /\ par'.s = "chunk_body" /\ par'.len = z /\ par'.limit = k /\ par'.f = f
        /\ par'.bodiless = par.bodiless
    BY <1>8, <2>1 DEF Parsers
  <2>4. /\ z \in 1 .. z /\ g1 + z + 2 = e1 /\ c + z = c1
        /\ k = BodyLimit - c1 /\ k >= 0
    <3>1. ChunkOpens(g, b, z, e1, c, c1, BodyLimit) /\ par.limit = BodyLimit - c /\ z >= 1
      BY <1>16, <1>18
    <3>2. k = BodyLimit - c - z /\ ~(z > BodyLimit - c)
      BY <1>8, <1>18, <3>1 DEF k
    <3> HIDE DEF g1
    <3> QED
      BY <3>1, <3>2 DEF ChunkOpens, g1
  <2>5. /\ m.framing = "chunked" /\ "chunked" \in par.f /\ "need_eof" \notin par.f
        /\ par.bodiless = m.bodiless
    BY <1>4 DEF HeaderAt
  <2> HIDE DEF g1
  <2>6. InChunks(par', m, g1, c)
    <3>1. /\ j + 1 \in 1 .. Len(m.sizes) /\ par'.len \in 1 .. m.sizes[j + 1]
          /\ g1 + par'.len + 2 = PieceEnd(m, j + 1) /\ c + par'.len = Before(m, j + 1)
          /\ par'.limit = BodyLimit - Before(m, j + 1)
      BY <1>16, <1>18, <2>3, <2>4 DEF e1, c1
    <3>2. par'.limit >= 0 /\ "chunked" \in par'.f
      BY <2>2, <2>3, <2>4, <2>5
    <3> QED
      BY <2>3, <2>5, <3>1, <3>2 DEF InChunks
  <2>7. par'.s \notin HeaderStates /\ par'.s \notin EofStates /\ par'.s # "complete"
        /\ par'.s \notin BodyStates /\ "need_eof" \notin par'.f
    BY <2>2, <2>3, <2>5 DEF HeaderStates, EofStates, BodyStates
  <2>8. ParserAt(par', m, g1, c)
    BY <2>3, <2>5, <2>6, <2>7 DEF ParserAt
  <2>9. Understands(par', g1, c)
    BY <2>7, <2>8 DEF Understands, m
  <2>10. x.at = b + 3
    BY <1>9, <1>18
  <2>11. taken + (rop.p + (b + 3)) = g1
    <3>1. b + 3 \in Nat
      BY <1>5
    <3> QED
      BY <1>3, <3>1, Onward DEF g1, g
  <2> DEFINE q == rop.p + (b + 3)
  <2>12. Break(q, par') /\ taken + q = g1
    BY <1>18, <2>10, <2>11
  <2>13. BodyIs(body') /\ Len(body') = c
    BY <1>2, <1>3 DEF c
  <2> HIDE DEF q
  <2> QED
    BY <1>2, <1>3, <2>9, <2>12, <2>13, BreakReads
<1> QED
  BY <1>10, <1>13, <1>14, <1>15, <1>17, <1>18

\* The fields behind the last chunk
TrailerAt ==
  /\ Reading \in 1 .. Len(script) /\ Reading <= Len(script) /\ Was \in Messages /\ Fits(Was)
  /\ rop \in ReadOps /\ par \in Parsers /\ taken \in Nat /\ rop.p \in Nat /\ rop.q \in Nat
  /\ rop.last \in Nat /\ rop.pc = "trailer" /\ rop.ec = ""
  /\ par.s = "chunk_header" /\ "final" \in par.f /\ rop.last <= Len(buf)
  /\ Start(par) \in {0, 2} /\ TailLen(Was) \in {5, 8} /\ (TailLen(Was) = 8 <=> Was.trailer)
  /\ rop.last = rop.p + Start(par) + TailLen(Was)
  /\ rop.q = rop.p + Start(par) + 3 \/ rop.q = rop.last - 2
  /\ HeaderAt(par, Was, Len(Was.sizes), taken + rop.p, Len(body))
  /\ Was.framing = "chunked" /\ (taken + rop.p) + Start(par) = BodyEnd(Was)
  /\ InFront(Was, taken + rop.q, FieldInput) /\ Len(FieldInput) = rop.last - rop.q
  /\ BodyEnd(Was) \in Nat /\ Size(Was) \in Nat /\ Size(Was) = BodyEnd(Was) + TailLen(Was)

LEMMA TrailerMeets ==
  ASSUME ReadInv, rop.pc = "trailer"
  PROVE  TrailerAt /\ Parsing
<1>1. /\ rop \in ReadOps /\ par \in Parsers /\ taken \in Nat /\ rop.p \in Nat
      /\ Len(buf) \in Nat /\ SenderTypes
  BY ReaderIs
<1>2. Parsing
  BY DEF Parsing
<1>3. /\ Reading \in 1 .. Len(script) /\ Was \in Messages /\ Fits(Was) /\ rop.ec = "" /\ ~Stopped
      /\ ParserAt(par, Was, Got, Len(body)) /\ Len(script) \in Nat
  BY <1>2, ParsingIs, ReaderIs DEF Meets
<1>4. Reading <= Len(script)
  <2>1. Reading \in 1 .. Len(script) /\ Len(script) \in Nat
    BY <1>3
  <2> QED
    BY <2>1
<1>5. ParserAt(par, Was, taken + rop.p, Len(body))
  <2>1. Got = taken + rop.p
    BY DEF Got
  <2> QED
    BY <1>3, <2>1
<1>6. /\ rop.q \in Nat /\ rop.last \in Nat /\ rop.q <= rop.last /\ rop.last <= Len(buf)
      /\ Len(FieldInput) = rop.last - rop.q
  BY <1>1, FieldInputIs DEF ReadInv
<1>7. par.s = "chunk_header" /\ "final" \in par.f
  BY DEF ReadInv, ReaderInv, Reads
<1>8. PICK j \in 0 .. Len(Was.sizes) : HeaderAt(par, Was, j, taken + rop.p, Len(body))
  BY <1>5, <1>7, ChunkMeets
<1>9. /\ HeaderAt(par, Was, Len(Was.sizes), taken + rop.p, Len(body)) /\ Was.framing = "chunked"
      /\ (taken + rop.p) + Start(par) = BodyEnd(Was)
  BY <1>7, <1>8 DEF HeaderAt, BodyEnd
<1>10. Start(par) \in {0, 2}
  BY DEF Start
<1>11. TailLen(Was) \in {5, 8} /\ (TailLen(Was) = 8 <=> Was.trailer)
  BY <1>9 DEF TailLen
<1>12. /\ rop.last = rop.p + Start(par) + TailLen(Was)
       /\ rop.q = rop.p + Start(par) + 3 \/ rop.q = rop.last - 2
  BY <1>3, <1>4 DEF ReadInv, UnderstoodInv, Fine, Errors
<1>13. InFront(Was, taken + rop.q, FieldInput)
  BY <1>4, <1>6, BufferIs DEF FieldInput
<1>14. BodyEnd(Was) \in Nat /\ Size(Was) \in Nat /\ Size(Was) = BodyEnd(Was) + TailLen(Was)
  BY <1>3, EndsAre
<1> QED
  BY <1>1, <1>2, <1>3, <1>4, <1>6, <1>7, <1>9, <1>10, <1>11, <1>12, <1>13, <1>14 DEF TrailerAt

LEMMA TrailerCounts ==
  ASSUME NEW t \in {5, 8}, NEW b \in {0, 2}, NEW k \in Nat, NEW p \in Nat, NEW q \in Nat, NEW last \in Nat,
         NEW e \in Nat, NEW z \in Nat, z = e + t, (k + p) + b = e, last = p + b + t,
         q = p + b + 3 \/ q = last - 2
  PROVE  /\ k + last = z /\ (q = last - 2 => last - q = 2 /\ (k + q) + 1 = (z - 2) + 1 /\ (k + q) + 2 = (z - 2) + 2)
         /\ q # last - 2 => /\ t = 8 /\ last - q = 5 /\ q + 3 = last - 2 /\ (k + q) + 1 = (e + 3) + 1
                            /\ (k + q) + 4 = (z - 2) + 1 /\ (e + 3) + 1 <= z
         /\ (z - 2) + 1 <= z /\ (z - 2) + 2 <= z
  OBVIOUS

\* What put sees there: the empty line, or one field and then the empty line
LEMMA TrailerSees ==
  ASSUME TrailerAt
  PROVE  LET s == FieldInput IN
         /\ taken + rop.last = Size(Was)
         /\ rop.q = rop.last - 2 => Len(s) = 2 /\ s[1] = Sym("cr", 0) /\ s[2] = Sym("lf", 0)
         /\ rop.q # rop.last - 2 => /\ Len(s) = 5 /\ s[1] = Sym("field", 0) /\ s[4].k = "cr"
                                    /\ rop.q + 3 = rop.last - 2
<1> DEFINE s == FieldInput
           m == Was
           t == TailLen(m)
           b == Start(par)
           k == taken
           p == rop.p
           q == rop.q
           last == rop.last
           e == BodyEnd(m)
           z == Size(m)
<1>1. /\ t \in {5, 8} /\ b \in {0, 2} /\ k \in Nat /\ p \in Nat /\ q \in Nat /\ last \in Nat
      /\ e \in Nat /\ z \in Nat /\ z = e + t /\ (k + p) + b = e /\ last = p + b + t
      /\ q = p + b + 3 \/ q = last - 2
  BY DEF TrailerAt
<1>2. /\ m \in Messages /\ m.framing = "chunked" /\ InFront(m, k + q, s) /\ Len(s) = last - q
      /\ (t = 8 <=> m.trailer)
  BY DEF TrailerAt
<1>3. (m.trailer => LineIn(m, e + 3, Sym("field", 0))) /\ EndIn(m, z - 2)
  BY <1>2, TailIn DEF TailStands
<1> HIDE DEF s, m, t, b, k, p, q, last, e, z
<1>4. /\ k + last = z /\ (q = last - 2 => last - q = 2 /\ (k + q) + 1 = (z - 2) + 1 /\ (k + q) + 2 = (z - 2) + 2)
      /\ q # last - 2 => /\ t = 8 /\ last - q = 5 /\ q + 3 = last - 2 /\ (k + q) + 1 = (e + 3) + 1
                         /\ (k + q) + 4 = (z - 2) + 1 /\ (e + 3) + 1 <= z
      /\ (z - 2) + 1 <= z /\ (z - 2) + 2 <= z
  BY <1>1, TrailerCounts
<1>5. SymbolOf(m, (z - 2) + 1) = Sym("cr", 0) /\ SymbolOf(m, (z - 2) + 2) = Sym("lf", 0)
  BY <1>3 DEF EndIn
<1>6. m.trailer => SymbolOf(m, (e + 3) + 1) = Sym("field", 0)
  BY <1>3 DEF LineIn
<1>7. ASSUME NEW i \in 1 .. Len(s), NEW y, y = (k + q) + i, y <= z PROVE s[i] = SymbolOf(m, y)
  BY <1>2, <1>7, FrontAt DEF z
<1>8. ASSUME q = last - 2 PROVE Len(s) = 2 /\ s[1] = Sym("cr", 0) /\ s[2] = Sym("lf", 0)
  <2>1. Len(s) = 2 /\ 1 \in 1 .. Len(s) /\ 2 \in 1 .. Len(s)
    BY <1>2, <1>4, <1>8
  <2>2. (z - 2) + 1 = (k + q) + 1 /\ (z - 2) + 2 = (k + q) + 2 /\ (z - 2) + 1 <= z /\ (z - 2) + 2 <= z
    BY <1>4, <1>8
  <2>3. s[1] = SymbolOf(m, (z - 2) + 1)
    BY <1>7, <2>1, <2>2
  <2>4. s[2] = SymbolOf(m, (z - 2) + 2)
    BY <1>7, <2>1, <2>2
  <2> QED
    BY <1>5, <2>1, <2>3, <2>4
<1>9. ASSUME q # last - 2 PROVE Len(s) = 5 /\ s[1] = Sym("field", 0) /\ s[4].k = "cr"
  <2>1. Len(s) = 5 /\ 1 \in 1 .. Len(s) /\ 4 \in 1 .. Len(s)
    BY <1>2, <1>4, <1>9
  <2>2. (e + 3) + 1 = (k + q) + 1 /\ (z - 2) + 1 = (k + q) + 4 /\ (z - 2) + 1 <= z /\ (e + 3) + 1 <= z
    BY <1>4, <1>9
  <2>3. s[1] = SymbolOf(m, (e + 3) + 1)
    BY <1>7, <2>1, <2>2
  <2>4. s[4] = SymbolOf(m, (z - 2) + 1)
    BY <1>7, <2>1, <2>2
  <2>5. s[1] = Sym("field", 0)
    BY <1>2, <1>4, <1>6, <1>9, <2>3
  <2>6. s[4].k = "cr"
    BY <1>5, <2>4 DEF Sym
  <2> QED
    BY <2>1, <2>5, <2>6
<1>10. /\ k + last = z
       /\ q = last - 2 => Len(s) = 2 /\ s[1] = Sym("cr", 0) /\ s[2] = Sym("lf", 0)
       /\ q # last - 2 => Len(s) = 5 /\ s[1] = Sym("field", 0) /\ s[4].k = "cr" /\ q + 3 = last - 2
  BY <1>4, <1>8, <1>9
<1> QED
  BY <1>10 DEF k, last, z, q, s, m

LEMMA TrailerReads ==
  ASSUME ReadInv, SendInv', ReaderInv', rop.pc = "trailer", Field, UNCHANGED serVars
  PROVE  ReadInv'
<1> DEFINE s == FieldInput
           x == DoField(par, s[1])
<1>1. Still /\ body' = body
  BY FieldDoes DEF Still
<1>2. TrailerAt /\ Parsing
  BY TrailerMeets
<1>3. BodyIs(body')
  <2>1. Meets /\ body \in Texts
    BY <1>2, ParsingIs, ReaderIs
  <2> QED
    BY <1>1, <2>1 DEF Meets, BodyIs
<1>4. /\ taken + rop.last = Size(Was)
      /\ rop.q = rop.last - 2 => Len(s) = 2 /\ s[1] = Sym("cr", 0) /\ s[2] = Sym("lf", 0)
      /\ rop.q # rop.last - 2 => /\ Len(s) = 5 /\ s[1] = Sym("field", 0) /\ s[4].k = "cr"
                                 /\ rop.q + 3 = rop.last - 2
  BY <1>2, TrailerSees
<1> HIDE DEF s
<1>5. /\ par \in Parsers /\ rop \in ReadOps /\ par.s = "chunk_header" /\ rop.pc = "trailer" /\ rop.ec = ""
      /\ HeaderAt(par, Was, Len(Was.sizes), taken + rop.p, Len(body)) /\ Was.framing = "chunked"
      /\ Was \in Messages
  BY <1>2 DEF TrailerAt
<1>6. CASE rop.q = rop.last - 2
  <2>1. FieldsEnd
    <3>1. Len(s) = 2 /\ s[1] = Sym("cr", 0) /\ s[2] = Sym("lf", 0)
      BY <1>4, <1>6
    <3>2. ~(Len(s) < 2)
      BY <3>1
    <3> QED
      BY <3>1, <3>2, FieldCases DEF s
  <2>2. par' = [par EXCEPT !.s = "complete"] /\ Break(rop.last, par')
    BY <1>5, <2>1, FieldsEndDoes
  <2>3. par'.s = "complete" /\ par'.f = par.f /\ par'.bodiless = par.bodiless
    BY <1>5, <2>2 DEF Parsers
  <2>4. ~NeedEof(Was, IsRequest)
    BY <1>5 DEF NeedEof
  <2>5. Len(body) = Total(Was) /\ Total(Was) <= BodyLimit
    <3>1. /\ Total(Was) = Before(Was, Len(Was.sizes)) /\ Before(Was, Len(Was.sizes)) \in Nat
      <4>1. Was \in Messages
        BY <1>5
      <4>2. Len(Was.sizes) \in 0 .. Len(Was.sizes) /\ Total(Was) = Before(Was, Len(Was.sizes))
        BY <4>1, EndsAre
      <4> QED
        BY <4>1, <4>2, EndsAre
    <3>2. Len(body) = Before(Was, Len(Was.sizes)) /\ par.limit = BodyLimit - Before(Was, Len(Was.sizes))
          /\ par.limit >= 0
      BY <1>5 DEF HeaderAt
    <3>3. BodyLimit \in Nat
      BY ConstantsAssumption DEF ConstantsAssumption
    <3> QED
      BY <3>1, <3>2, <3>3
  <2>6. "need_eof" \notin par.f /\ par.bodiless = Was.bodiless
    BY <1>5 DEF HeaderAt
  <2>7. AtTheEnd(par', Was, Size(Was), Len(body))
    BY <2>3, <2>4, <2>5, <2>6 DEF AtTheEnd
  <2>8. Understands(par', taken + rop.last, Len(body'))
    <3>1. ParserAt(par', Was, Size(Was), Len(body))
      BY <2>3, <2>6, <2>7 DEF ParserAt, HeaderStates, BodyStates
    <3> QED
      BY <1>1, <1>4, <2>3, <2>4, <3>1 DEF Understands, EofStates
  <2> QED
    BY <1>1, <1>2, <1>3, <2>2, <2>8, BreakReads
<1>7. CASE rop.q # rop.last - 2
  <2>1. Len(s) = 5 /\ s[1] = Sym("field", 0) /\ s[4].k # "fold" /\ s[1].k = "field" /\ s[1] # Sym("cr", 0)
    BY <1>4, <1>7 DEF Sym
  <2>2. ParseField(s) = [r |-> "field", n |-> 3]
    <3>1. Len(s) \in Nat /\ ~(Len(s) < 4) /\ s[1].k \in {"field", "length", "chunked"}
      BY <2>1
    <3> QED
      BY <2>1, <3>1, ParseFieldIs
  <2>3. x.p = par /\ x.ec = ""
    BY <2>1 DEF DoField
  <2>4. par' = x.p /\ (IF x.ec # "" THEN Return(Behind(rop.q), x.ec)
                       ELSE rop' = [rop EXCEPT !.q = @ + ParseField(s).n])
    <3>1. ~(Len(s) < 2) /\ s[1] # Sym("cr", 0) /\ ParseField(s).r = "field"
      BY <2>1, <2>2
    <3> QED
      BY <3>1, FieldCases DEF s
  <2> HIDE DEF x
  <2> DEFINE q == rop.q + 3
  <2>5. par' = par /\ rop' = [rop EXCEPT !.q = q]
    <3>1. rop' = [rop EXCEPT !.q = @ + ParseField(s).n]
      BY <2>3, <2>4
    <3>2. ParseField(s).n = 3
      BY <2>2
    <3> QED
      BY <1>5, <2>3, <2>4, <3>1, <3>2
  <2>6. q = rop.last - 2
    BY <1>4, <1>7
  <2> HIDE DEF q
  <2>7. rop'.pc = "trailer" /\ rop'.ec = "" /\ rop'.p = rop.p /\ rop'.last = rop.last /\ rop'.q = q
    BY <1>5, <2>5 DEF ReadOps
  <2>8. Goes(rop'.pc, rop'.ec) /\ Justified(rop'.ec)
    BY <2>7 DEF Goes, PutCodes, Justified
  <2>9. Understands(par', taken + rop.p, Len(body'))
    BY <1>1, <1>5, <2>5, ChunkUnderstood
  <2>10. rop'.last = rop'.p + Start(par') + TailLen(Was)
         /\ rop'.q \in {rop'.p + Start(par') + 3, rop'.last - 2}
    BY <1>2, <2>5, <2>6, <2>7 DEF TrailerAt
  <2>11. taken + rop.p = taken + (IF rop'.pc = "field" THEN rop'.q ELSE rop'.p)
    BY <2>7
  <2>12. rop'.pc # "put" /\ rop'.pc # "field" /\ rop'.ec # "need_buffer" /\ rop'.ec # "need_more"
    BY <2>7
  <2> QED
    BY <1>1, <1>2, <1>3, <2>8, <2>9, <2>10, <2>11, <2>12, PutsOn
<1> QED
  BY <1>6, <1>7

\* Every step of put
LEMMA PutReads ==
  ASSUME ReadInv, SendInv', ReaderInv', Put, UNCHANGED serVars
  PROVE  ReadInv'
<1>1. CASE Field
  <2>1. rop.pc \in {"field", "trailer"}
    BY <1>1, FieldDoes
  <2> QED
    BY <1>1, <2>1, FieldReads, TrailerReads
<1> QED
  BY <1>1, StartLineReads, PutFieldsReads, PutBodyReads, PutBodyToEofReads, PutChunkHeaderReads,
     PutLastChunkReads, PutChunkBodyReads DEF Put

-----------------------------------------------------------------------------
(* The steps of the operation around put *)

\* What does not change while the reader stays with the message and its octets
LEMMA Stays ==
  ASSUME ReadInv, UNCHANGED <<script, wire, at, wrote, wop, buf, taken>>, Reading' = Reading
  PROVE  Was' = Was /\ Taken' = Taken /\ ScriptInv' /\ WireInv' /\ (body' = body => BodyInv')
<1>1. UNCHANGED <<script, wire, at, wrote, wop, buf, taken>>
  OBVIOUS
<1>2. (\A k : MessageEnd(k)' = MessageEnd(k)) /\ \A p : SymbolAt(p)' = SymbolAt(p)
  BY <1>1, ScriptStays
<1>3. Was' = Was
  BY <1>1 DEF Was
<1>4. Taken' = Taken
  <2>1. MessageEnd(Reading - 1)' = MessageEnd(Reading - 1)
    <3>1. Lengths' = Lengths
      BY <1>1 DEF Lengths
    <3> QED
      BY <3>1 DEF MessageEnd
  <2> QED
    BY <1>1, <2>1 DEF Taken
<1>5. Written' = Written
  <2>1. Lengths' = Lengths
    BY <1>1 DEF Lengths
  <2> QED
    BY <1>1, <2>1 DEF Written, Sent, MessageEnd
<1>6. ScriptInv'
  BY <1>1 DEF ReadInv, ScriptInv, NeedEof
<1>7. WireInv'
  BY <1>1, <1>2, <1>4, <1>5 DEF ReadInv, WireInv
<1>8. body' = body => BodyInv'
  BY <1>1, <1>3 DEF ReadInv, BodyInv
<1> QED
  BY <1>3, <1>4, <1>6, <1>7, <1>8

\* Between the calls of put there is no error
LEMMA BetweenIs ==
  ASSUME ReadInv, rop.pc \in {"idle", "some", "read"}
  PROVE  /\ rop.ec \in {"", "need_more"} /\ (rop.pc # "read" => rop.ec = "") /\ rop.p = 0
         /\ Got = taken /\ (~Stopped => Fine)
<1>1. rop.ec \in {"", "need_more"} /\ (rop.pc # "read" => rop.ec = "")
  BY DEF ReadInv, ReadOpInv, Errors
<1>2. rop.p = 0
  BY DEF ReadInv, ReaderInv, Reads
<1>3. taken \in Nat
  BY ReaderIs
<1>4. Got = taken
  BY <1>2, <1>3 DEF Got
<1>5. ~Stopped => Fine
  BY <1>1 DEF Fine, Errors
<1> QED
  BY <1>1, <1>2, <1>4, <1>5

LEMMA StartReadReads ==
  ASSUME ReadInv, SendInv', ReaderInv', StartRead, UNCHANGED serVars
  PROVE  ReadInv'
<1>1. /\ rop.pc = "idle" /\ ~Stopped /\ ~Done(par)
      /\ UNCHANGED <<buf, par, how, body, taken, received>>
      /\ UNCHANGED <<script, at, wop, wrote, wire, closed>>
  BY DEF StartRead, serVars
<1>2. PICK until \in {"done", "header", "some"} :
        rop' = [IdleRead EXCEPT !.pc = "some", !.until = until, !.eager = until = "done"]
  BY DEF StartRead
<1>3. rop'.pc = "some" /\ rop'.p = 0 /\ rop'.ec = ""
  <2> DEFINE e == until = "done"
  <2>1. rop' = [IdleRead EXCEPT !.pc = "some", !.until = until, !.eager = e]
    BY <1>2
  <2> HIDE DEF e
  <2> QED
    BY <2>1 DEF IdleRead
<1>4. rop.ec = "" /\ rop.p = 0 /\ Got = taken /\ Fine /\ taken \in Nat
  BY <1>1, BetweenIs, ReaderIs
<1>5. Stopped' = Stopped /\ Reading' = Reading
  BY <1>1, <1>3 DEF Stopped, Reading
<1>6. Was' = Was /\ ScriptInv' /\ WireInv' /\ BodyInv'
  BY <1>1, <1>5, Stays
<1>7. Got' = taken
  BY <1>1, <1>3, <1>4 DEF Got
<1>8. ReadOpInv'
  BY <1>1, <1>3, <1>5 DEF ReadInv, ReadOpInv, Errors, Done
<1>9. UnderstoodInv'
  BY <1>1, <1>3, <1>4, <1>5, <1>6, <1>7 DEF ReadInv, UnderstoodInv
<1>10. AtEndInv'
  BY <1>1, <1>5 DEF ReadInv, AtEndInv
<1>11. RefusalInv'
  BY <1>3 DEF RefusalInv
<1> QED
  BY <1>6, <1>8, <1>9, <1>10, <1>11 DEF ReadInv

LEMMA HeaderLeft ==
  ASSUME NEW h \in Nat, 5 <= h, NEW f \in {3, 9}, NEW x \in {2, 5}, h = f + x,
         NEW g \in Nat, g = 0 \/ g \in {3, f, h - 2}, NEW n, n = h - g
  PROVE  n \in Nat /\ 1 <= n /\ g + n = h /\ n <= h
  OBVIOUS

LEMMA TailLeft ==
  ASSUME NEW g \in Nat, NEW b \in {0, 2}, NEW t \in {5, 8}, NEW e \in Nat, NEW z \in Nat, z = e + t,
         NEW y \in Nat, y <= e, g + b = y, NEW n, n = b + t
  PROVE  n \in Nat /\ 1 <= n /\ g + n <= z /\ n <= 2 + t
  OBVIOUS

LEMMA ChunkLeft ==
  ASSUME NEW g \in Nat, NEW w \in Nat, NEW l \in 1 .. w, NEW y \in Nat, g + l + 2 = y,
         NEW e \in Nat, y <= e, NEW z \in Nat, e <= z
  PROVE  g + 1 <= z
  OBVIOUS

\* What the parser waits for stands in the message
LEMMA NeedsBound ==
  ASSUME NEW m \in Messages, NEW p \in Parsers, NEW g \in Nat, NEW b \in Nat, ParserAt(p, m, g, b)
  PROVE  /\ Needs(p, m, g) \in Nat /\ 1 <= Needs(p, m, g)
         /\ p.s \notin EofStates \cup {"complete"} => g + Needs(p, m, g) <= Size(m)
         /\ p.s \in HeaderStates => Needs(p, m, g) <= HeaderEnd(m)
         /\ p.s \notin HeaderStates => Needs(p, m, g) <= 2 + TailLen(m)
<1> DEFINE h == HeaderEnd(m)  z == Size(m)  e == BodyEnd(m)  t == TailLen(m)  n == Needs(p, m, g)
<1>1. /\ h \in Nat /\ 5 <= h /\ Folds(m) \in {3, 9} /\ e \in Nat /\ z \in Nat /\ h <= e /\ z = e + t
      /\ t \in {0, 5, 8} /\ Len(m.sizes) \in Nat /\ e = PieceEnd(m, Len(m.sizes))
  BY EndsAre
<1>2. h = Folds(m) + (IF m.framing = "none" THEN 2 ELSE 5)
  BY DEF HeaderEnd
<1> HIDE DEF h, z, e, t
<1>3. CASE p.s \in HeaderStates
  <2>1. n = h - g
    <3>1. p.s \notin {"chunk_header0", "chunk_header"}
      BY <1>3 DEF HeaderStates
    <3> QED
      BY <1>3, <3>1 DEF Needs, h
  <2>2. InHeader(p, m, g, b)
    BY <1>3 DEF ParserAt
  <2>3. g = 0 \/ g \in {3, Folds(m), h - 2}
    BY <1>3, <2>2 DEF InHeader, HeaderStates, h
  <2>4. p.s \notin EofStates \cup {"complete"}
    BY <1>3 DEF HeaderStates, EofStates
  <2> HIDE DEF n
  <2>5. n \in Nat /\ 1 <= n /\ g + n = h /\ n <= h
    <3> DEFINE f == Folds(m)  x == IF m.framing = "none" THEN 2 ELSE 5
    <3>1. x \in {2, 5} /\ h = f + x /\ f \in {3, 9} /\ (g = 0 \/ g \in {3, f, h - 2})
      BY <1>1, <1>2, <2>3
    <3> HIDE DEF f, x
    <3> QED
      BY <1>1, <2>1, <3>1, HeaderLeft
  <2>6. h <= z
    BY <1>1
  <2> QED
    BY <1>3, <2>4, <2>5, <2>6 DEF n, h, z
<1>4. CASE p.s \in {"chunk_header0", "chunk_header"}
  <2>1. p.s \notin HeaderStates /\ p.s \notin EofStates \cup {"complete"}
    BY <1>4 DEF HeaderStates, EofStates
  <2>2. n = Start(p) + t
    BY <1>4, <2>1 DEF Needs, t
  <2>3. PICK j \in 0 .. Len(m.sizes) : HeaderAt(p, m, j, g, b)
    BY <1>4, ChunkMeets
  <2>4. g + Start(p) = PieceEnd(m, j) /\ m.framing = "chunked"
    BY <2>3 DEF HeaderAt
  <2>5. t \in {5, 8} /\ Start(p) \in {0, 2}
    BY <2>4 DEF t, TailLen, Start
  <2>6. PieceEnd(m, j) <= e
    BY <1>1, EndsGrow
  <2>7. PieceEnd(m, j) \in Nat
    BY EndsAre
  <2> HIDE DEF n
  <2>8. n \in Nat /\ 1 <= n /\ g + n <= z /\ n <= 2 + t
    <3> DEFINE s == Start(p)  y == PieceEnd(m, j)
    <3>1. s \in {0, 2} /\ y \in Nat /\ y <= e /\ g + s = y /\ n = s + t
      BY <2>2, <2>4, <2>5, <2>6, <2>7
    <3>2. t \in {5, 8} /\ e \in Nat /\ z \in Nat /\ z = e + t
      BY <1>1, <2>5
    <3> HIDE DEF s, y
    <3>3. n \in Nat /\ 1 <= n /\ g + n <= z /\ n <= 2 + t
      BY <3>1, <3>2, TailLeft
    <3> QED
      BY <3>3
  <2> QED
    BY <2>1, <2>8 DEF n, z, t
<1>5. CASE p.s \notin HeaderStates \cup {"chunk_header0", "chunk_header"}
  <2>1. n = 1
    BY <1>5 DEF Needs
  <2> HIDE DEF n
  <2>2. n \in Nat /\ 1 <= n /\ n <= 2 + t
    BY <1>1, <2>1
  <2>3. ASSUME p.s \notin EofStates \cup {"complete"}
        PROVE  g + 1 <= z
    <3>1. p.s \in {"body0", "body", "chunk_body"}
      BY <1>5, <2>3 DEF Parsers, ParserStates, HeaderStates, BodyStates, EofStates
    <3>2. CASE p.s = "chunk_body"
      <4>1. PICK j \in 1 .. Len(m.sizes) : p.len \in 1 .. m.sizes[j] /\ g + p.len + 2 = PieceEnd(m, j)
        BY <3>2 DEF ParserAt, InChunks
      <4>2. PieceEnd(m, j) <= e /\ PieceEnd(m, j) \in Nat /\ m.sizes[j] \in Nat
        <5>1. j \in 0 .. Len(m.sizes) /\ Len(m.sizes) \in j .. Len(m.sizes)
          BY <1>1
        <5>2. PieceEnd(m, j) <= PieceEnd(m, Len(m.sizes))
          BY <5>1, EndsGrow
        <5> QED
          BY <1>1, <5>1, <5>2, EndsAre
      <4> DEFINE l == p.len  y == PieceEnd(m, j)  w == m.sizes[j]
      <4>3. l \in 1 .. w /\ g + l + 2 = y /\ y <= e /\ y \in Nat /\ w \in Nat /\ e <= z
        BY <1>1, <4>1, <4>2
      <4> HIDE DEF l, y, w
      <4> QED
        BY <1>1, <4>3, ChunkLeft
    <3>3. CASE p.s \in {"body0", "body"}
      <4>1. m.framing = "length" /\ p.len >= 1 /\ b + p.len = Total(m) /\ g = h + b
        BY <3>3 DEF ParserAt, InBody, BodyStates, h
      <4>2. z = e /\ e = h + Total(m)
        BY <4>1, NoTail DEF z, e, h
      <4>3. p.len \in Int
        BY DEF Parsers
      <4>4. Total(m) \in Nat
        <5>1. Len(m.sizes) \in 0 .. Len(m.sizes)
          BY <1>1
        <5> QED
          BY <5>1, EndsAre
      <4> DEFINE l == p.len  y == Total(m)
      <4>5. l \in Int /\ 1 <= l /\ b + l = y /\ g = h + b /\ z = h + y
        BY <4>1, <4>2, <4>3
      <4> HIDE DEF l, y
      <4> QED
        BY <1>1, <4>5
    <3> QED
      BY <3>1, <3>2, <3>3
  <2> QED
    BY <1>5, <2>1, <2>2, <2>3 DEF n, z, t
<1> QED
  BY <1>3, <1>4, <1>5

LEMMA ReadSomeReads ==
  ASSUME ReadInv, SendInv', ReaderInv', ReadSome, UNCHANGED serVars
  PROVE  ReadInv'
<1>1. /\ rop.pc = "some"
      /\ UNCHANGED <<buf, par, how, body, taken, received>>
      /\ UNCHANGED <<script, at, wop, wrote, wire, closed>>
  BY DEF ReadSome, serVars
<1>2. rop' = [rop EXCEPT !.pc = IF buf = <<>> THEN "read" ELSE "put", !.p = 0]
  BY ReadSomeDoes
<1>3. rop \in ReadOps /\ par \in Parsers /\ Len(buf) \in Nat /\ Len(body) \in Nat
      /\ buf \in Texts /\ rop.p <= Len(buf) /\ script \in Seq(Messages) /\ Len(script) \in Nat
      /\ Reading \in 1 .. Len(script) + 1 /\ taken \in Nat
  BY ReaderIs
<1>4. rop.ec = "" /\ rop.p = 0 /\ Got = taken /\ (~Stopped => Fine)
  BY <1>1, BetweenIs
<1>5. ~Stopped /\ ~Done(par)
  <2>1. ~Stopped
    BY <1>1 DEF ReadInv, ReadOpInv
  <2>2. par.s # "complete"
    BY <1>1 DEF ReadInv, ReaderInv, Reads
  <2> QED
    BY <2>1, <2>2 DEF Done
<1>6. /\ rop'.pc = (IF buf = <<>> THEN "read" ELSE "put") /\ rop'.p = 0 /\ rop'.ec = ""
  BY <1>2, <1>3, <1>4 DEF ReadOps
<1>7. rop'.pc \in {"read", "put"}
  BY <1>6
<1>8. Stopped' = Stopped /\ Reading' = Reading
  BY <1>1, <1>7 DEF Stopped, Reading
<1>9. Was' = Was /\ ScriptInv' /\ WireInv' /\ BodyInv'
  BY <1>1, <1>8, Stays
<1>10. Got' = taken
  <2>1. Got' = taken' + rop'.p
    BY <1>7 DEF Got
  <2>2. taken + 0 = taken
    BY <1>3
  <2> QED
    BY <1>1, <1>6, <2>1, <2>2
<1>11. ReadOpInv'
  <2>1. rop'.pc = "put" => rop'.p < Len(buf')
    <3>1. buf # <<>> => Len(buf) # 0
      BY <1>3, EmptySeq DEF Texts
    <3>2. rop'.pc = "put" => buf # <<>>
      BY <1>6
    <3>3. Len(buf) # 0 => 0 < Len(buf)
      BY <1>3
    <3> QED
      BY <1>1, <1>6, <3>1, <3>2, <3>3
  <2> QED
    BY <1>1, <1>5, <1>6, <1>7, <1>8, <2>1 DEF ReadInv, ReadOpInv, Errors
<1>12. UnderstoodInv'
  <2> SUFFICES ASSUME Reading <= Len(script) PROVE UnderstoodInv'
    BY <1>1, <1>8 DEF UnderstoodInv
  <2>1. Fine /\ ParserAt(par, Was, taken, Len(body))
    BY <1>4, <1>5 DEF ReadInv, UnderstoodInv
  <2>2. Was \in Messages
    <3>1. Reading \in 1 .. Len(script)
      BY <1>3
    <3> QED
      BY <1>3, <3>1, MessagesEnd DEF Was
  <2>3. 1 <= Needs(par, Was, taken) /\ Needs(par, Was, taken) \in Nat
    BY <1>3, <2>1, <2>2, NeedsBound
  <2>4. rop'.pc = "read" => Len(Rest)' = 0
    <3> SUFFICES ASSUME buf = <<>> PROVE Len(Rest)' = 0
      BY <1>6
    <3>1. Len(buf) = 0
      OBVIOUS
    <3>2. Rest' = SubSeq(buf, 1, 0)
      <4>1. 0 + 1 = 1
        OBVIOUS
      <4> QED
        BY <1>1, <1>6, <3>1, <4>1 DEF Rest
    <3>3. Len(SubSeq(buf, 1, 0)) = 0
      BY SubSeqProperties
    <3> QED
      BY <3>2, <3>3
  <2>5. rop'.pc = "read" \/ rop'.ec = "need_more" => Len(Rest)' < Needs(par, Was, taken)
    <3>1. 0 < Needs(par, Was, taken)
      BY <2>3
    <3> QED
      BY <1>6, <2>4, <3>1
  <2> QED
    BY <1>1, <1>5, <1>7, <1>9, <1>10, <2>1, <2>5 DEF ReadInv, UnderstoodInv, Done
<1>13. AtEndInv'
  BY <1>1, <1>8 DEF ReadInv, AtEndInv
<1>14. RefusalInv'
  BY <1>6 DEF RefusalInv
<1> QED
  BY <1>9, <1>11, <1>12, <1>13, <1>14 DEF ReadInv

\* Where the sender is, and the reader behind it
LEMMA WrittenIs ==
  ASSUME ReadInv
  PROVE  /\ at \in 1 .. Len(script) /\ MessageEnd(at - 1) \in Nat /\ Size(Msg) \in Nat
         /\ MessageEnd(at) = MessageEnd(at - 1) + Size(Msg) /\ Sent \in Nat /\ Sent <= Size(Msg)
         /\ Taken + Len(buf) + Len(wire) = MessageEnd(at - 1) + Sent
         /\ \A k \in at .. Len(script) : MessageEnd(at) <= MessageEnd(k) /\ MessageEnd(k) \in Nat
<1>1. /\ script \in Seq(Messages) /\ Len(script) \in Nat /\ at \in 1 .. Len(script)
  BY ReaderIs
<1>2. Sent \in Nat /\ Sent <= Size(Msg)
  BY SentBound DEF ReadInv
<1>3. at - 1 \in 0 .. Len(script) /\ at \in 0 .. Len(script)
  BY <1>1
<1>4. MessageEnd(at) = MessageEnd(at - 1) + Size(Msg) /\ MessageEnd(at - 1) \in Nat /\ Size(Msg) \in Nat
  <2>1. MessageEnd(at) = MessageEnd(at - 1) + Size(script[at]) /\ Size(script[at]) \in Nat
    BY <1>1, MessagesEnd
  <2>2. MessageEnd(at - 1) \in Nat
    BY <1>1, <1>3, MessagesEnd
  <2> QED
    BY <2>1, <2>2 DEF Msg
<1>5. Taken + Len(buf) + Len(wire) = MessageEnd(at - 1) + Sent
  BY DEF ReadInv, WireInv, Written
<1>6. ASSUME NEW k \in at .. Len(script)
      PROVE  MessageEnd(at) <= MessageEnd(k) /\ MessageEnd(k) \in Nat
  <2>1. k \in 0 .. Len(script)
    BY <1>1
  <2> QED
    BY <1>1, <1>3, <2>1, MessagesEnd, MessagesGrow
<1> QED
  BY <1>1, <1>2, <1>4, <1>5, <1>6

LEMMA NothingLeft ==
  ASSUME NEW c \in Nat, NEW x \in Nat, NEW y \in Nat, NEW a \in Nat, NEW s \in Nat, NEW n \in Nat,
         c + x + y = a + s, s <= n, NEW e \in Nat, e = a + n, e <= c
  PROVE  x = 0 /\ y = 0
  OBVIOUS

LEMMA NothingBehind ==
  ASSUME ReadInv, Reading = Len(script) + 1
  PROVE  Len(buf) = 0 /\ par = NewParser /\ taken = 0 /\ body = <<>>
<1>1. par = NewParser /\ taken = 0 /\ body = <<>>
  BY DEF ReadInv, AtEndInv
<1>2. /\ Len(buf) \in Nat /\ Len(wire) \in Nat /\ Len(script) \in Nat
  BY ReaderIs
<1>3. /\ at \in 1 .. Len(script) /\ MessageEnd(at - 1) \in Nat /\ Size(Msg) \in Nat
      /\ MessageEnd(at) = MessageEnd(at - 1) + Size(Msg) /\ Sent \in Nat /\ Sent <= Size(Msg)
      /\ Taken + Len(buf) + Len(wire) = MessageEnd(at - 1) + Sent
      /\ \A k \in at .. Len(script) : MessageEnd(at) <= MessageEnd(k) /\ MessageEnd(k) \in Nat
  BY WrittenIs
<1>4. Len(script) \in at .. Len(script) /\ Reading - 1 = Len(script)
  BY <1>2, <1>3
<1>5. MessageEnd(at) <= MessageEnd(Len(script)) /\ MessageEnd(Len(script)) \in Nat
  BY <1>3, <1>4
<1>6. Taken = MessageEnd(Len(script))
  <2>1. Taken = MessageEnd(Len(script)) + 0
    BY <1>1, <1>4 DEF Taken
  <2> QED
    BY <1>5, <2>1, Nought
<1> DEFINE c == Taken  x == Len(buf)  y == Len(wire)  a == MessageEnd(at - 1)  s == Sent  n == Size(Msg)
           e == MessageEnd(at)
<1>7. /\ c \in Nat /\ x \in Nat /\ y \in Nat /\ a \in Nat /\ s \in Nat /\ n \in Nat /\ c + x + y = a + s
      /\ s <= n /\ e = a + n /\ e <= c
  BY <1>2, <1>3, <1>5, <1>6
<1>8. e \in Nat
  <2> HIDE DEF c, x, y, a, s, n, e
  <2> QED
    BY <1>7
<1> HIDE DEF c, x, y, a, s, n, e
<1>9. x = 0
  BY <1>7, <1>8, NothingLeft
<1> QED
  BY <1>1, <1>9 DEF x

LEMMA CutOff ==
  ASSUME NEW c \in Nat, NEW k \in Nat, NEW p \in Nat, NEW n \in Nat, p <= n, NEW w \in Nat
  PROVE  /\ n - p \in Nat /\ k + p \in Nat
         /\ (c + (k + p)) + (n - p) = (c + k) + n
         /\ (c + (k + p)) + (n - p) + w = (c + k) + n + w
         /\ \A i \in 1 .. n - p : p + i \in 1 .. n /\ (c + (k + p)) + i = (c + k) + (p + i)
         /\ \A i \in 1 .. w : (c + (k + p)) + (n - p) + i = (c + k) + n + i
  OBVIOUS

LEMMA PutReturnedReads ==
  ASSUME ReadInv, SendInv', ReaderInv', PutReturned, UNCHANGED serVars
  PROVE  ReadInv'
<1>1. /\ rop.pc = "ret" /\ UNCHANGED <<par, how, body, received>>
      /\ buf' = SubSeq(buf, rop.p + 1, Len(buf)) /\ taken' = taken + rop.p
      /\ UNCHANGED <<script, at, wop, wrote, wire, closed>>
  BY DEF PutReturned, TakenAfter, serVars
<1> DEFINE pc == CASE rop.ec = "need_more" -> "read"
                   [] rop.ec # "need_more" /\ Complete(par, rop.ec, rop.until) -> "told"
                   [] OTHER -> "some"
           n == Len(buf)
           p == rop.p
<1>2. rop' = [rop EXCEPT !.p = 0, !.pc = pc]
  BY DEF PutReturned
<1>3. /\ rop \in ReadOps /\ par \in Parsers /\ n \in Nat /\ Len(body) \in Nat /\ Len(wire) \in Nat
      /\ buf \in Texts /\ p \in Nat /\ p <= n /\ script \in Seq(Messages) /\ Len(script) \in Nat
      /\ Reading \in 1 .. Len(script) + 1 /\ taken \in Nat
  BY ReaderIs
<1>4. /\ rop.ec = "need_more" => pc = "read"
      /\ rop.ec \notin {"", "need_more"} => pc = "told"
      /\ rop.ec = "" => pc \in {"told", "some"}
      /\ pc \in {"read", "told", "some"}
  BY DEF Complete
<1> HIDE DEF pc
<1>5. rop'.pc = pc /\ rop'.p = 0 /\ rop'.ec = rop.ec
  BY <1>2, <1>3 DEF ReadOps
<1>6. ~Stopped
  BY <1>1 DEF ReadInv, ReadOpInv
<1>7. Stopped' = Stopped
  BY <1>1 DEF Stopped
<1>8. Reading' = Reading
  BY <1>1, <1>4, <1>5 DEF Reading
<1>9. buf' \in Texts /\ Len(buf') = n - p /\ \A i \in 1 .. n - p : buf'[i] = buf[p + i]
  <2>1. buf' = SubSeq(buf, p + 1, n)
    BY <1>1
  <2> HIDE DEF p
  <2>2. /\ Len(SubSeq(buf, p + 1, n)) = n - p
        /\ \A i \in 1 .. n - p : SubSeq(buf, p + 1, n)[i] = buf[p + i]
    BY <1>3, SubSeqProperties DEF Texts
  <2>3. SubSeq(buf, p + 1, n) \in Texts
    <3>1. \A i \in p + 1 .. n : buf[i] \in Symbols
      <4>1. \A i \in p + 1 .. n : i \in 1 .. Len(buf)
        BY <1>3
      <4> QED
        BY <1>3, <4>1, ElementOfSeq DEF Texts
    <3>2. p + 1 \in Int /\ n \in Int
      BY <1>3
    <3> QED
      BY <3>1, <3>2, SubSeqProperties DEF Texts
  <2> QED
    BY <2>1, <2>2, <2>3
<1>10. Was' = Was
  BY <1>1, <1>8 DEF Was
<1> DEFINE c == MessageEnd(Reading - 1)  k == taken  w == Len(wire)
<1>11. /\ n - p \in Nat /\ k + p \in Nat
       /\ (c + (k + p)) + (n - p) = (c + k) + n
       /\ (c + (k + p)) + (n - p) + w = (c + k) + n + w
       /\ \A i \in 1 .. n - p : p + i \in 1 .. n /\ (c + (k + p)) + i = (c + k) + (p + i)
       /\ \A i \in 1 .. w : (c + (k + p)) + (n - p) + i = (c + k) + n + i
  <2>1. c \in Nat /\ k \in Nat /\ w \in Nat /\ n \in Nat /\ p \in Nat /\ p <= n
    BY <1>3, TakenIs
  <2> HIDE DEF c, k, w, n, p
  <2> QED
    BY <2>1, CutOff
<1>12. Taken' = c + (k + p) /\ Taken = c + k
  <2>1. Lengths' = Lengths
    BY <1>1 DEF Lengths
  <2>2. MessageEnd(Reading - 1)' = MessageEnd(Reading - 1)
    BY <1>8, <2>1 DEF MessageEnd
  <2> QED
    BY <1>1, <2>2 DEF Taken
<1>13. WireInv'
  <2>1. Written' = Written
    <3>1. Lengths' = Lengths
      BY <1>1 DEF Lengths
    <3> QED
      BY <1>1, <3>1 DEF Written, Sent, MessageEnd
  <2>2. \A x : SymbolAt(x)' = SymbolAt(x)
    BY <1>1, ScriptStays
  <2>3. WireInv
    BY DEF ReadInv
  <2> HIDE DEF c, k, w, n, p
  <2>4. (c + k) + n + w = Written
    BY <1>12, <2>3 DEF WireInv, n, w
  <2>5. ASSUME NEW i \in 1 .. n - p PROVE buf'[i] = SymbolAt((c + (k + p)) + i)
    <3>1. buf[p + i] = SymbolAt((c + k) + (p + i))
      BY <1>11, <1>12, <2>3 DEF WireInv, n
    <3> QED
      BY <1>9, <1>11, <3>1
  <2>6. ASSUME NEW i \in 1 .. w PROVE wire[i] = SymbolAt((c + (k + p)) + (n - p) + i)
    <3>1. wire[i] = SymbolAt((c + k) + n + i)
      BY <1>12, <2>3 DEF WireInv, n, w
    <3> QED
      BY <1>11, <3>1
  <2> QED
    BY <1>1, <1>9, <1>11, <1>12, <2>1, <2>2, <2>4, <2>5, <2>6 DEF WireInv, w
<1>14. ScriptInv'
  BY <1>1, <1>8 DEF ReadInv, ScriptInv, NeedEof
<1>15. BodyInv'
  BY <1>1, <1>8, <1>10 DEF ReadInv, BodyInv
<1>16. RefusalInv'
  BY <1>1, <1>5, <1>8, <1>10 DEF ReadInv, RefusalInv
<1>17. AtEndInv'
  <2> SUFFICES ASSUME Reading = Len(script) + 1 PROVE par = NewParser /\ taken' = 0 /\ body = <<>>
    BY <1>1, <1>8 DEF AtEndInv
  <2>1. n = 0 /\ par = NewParser /\ taken = 0 /\ body = <<>>
    BY NothingBehind
  <2>2. p = 0
    <3> HIDE DEF n, p
    <3> QED
      BY <1>3, <2>1
  <2> QED
    BY <1>1, <2>1, <2>2
<1>18. Got' = Got /\ Got = taken + p
  <2>1. Got' = taken' + rop'.p
    BY <1>4, <1>5 DEF Got
  <2>2. Got = taken + p
    BY <1>1 DEF Got
  <2>3. (taken + p) + 0 = taken + p
    BY <1>11
  <2> QED
    BY <1>1, <1>5, <2>1, <2>2, <2>3
<1>19. Len(Rest)' = Len(Rest)
  <2>1. Len(Rest) = n - p
    BY RestIs, ReaderIs DEF ReadInv
  <2>2. Len(Rest)' = n - p
    <3>1. Rest' = SubSeq(buf', 1, Len(buf'))
      <4>1. 0 + 1 = 1
        OBVIOUS
      <4> QED
        BY <1>5, <4>1 DEF Rest
    <3>2. Len(SubSeq(buf', 1, Len(buf'))) = n - p
      <4>1. Len(buf') \in Nat
        BY <1>9, <1>11
      <4>2. Len(SubSeq(buf', 1, Len(buf'))) = Len(buf')
        BY <1>9, <4>1, SubSeqProperties DEF Texts
      <4> QED
        BY <1>9, <4>2
    <3> QED
      BY <3>1, <3>2
  <2> QED
    BY <2>1, <2>2
<1>20. buf = <<>> => buf' = <<>>
  <2> SUFFICES ASSUME buf = <<>> PROVE buf' = <<>>
    OBVIOUS
  <2>1. n = 0
    OBVIOUS
  <2> HIDE DEF n, p
  <2>2. Len(buf') = 0
    BY <1>3, <1>9, <2>1
  <2> QED
    BY <1>9, <2>2, EmptySeq DEF Texts
<1>21. UnderstoodInv'
  <2>1. Fine' = Fine
    BY <1>5, <1>7 DEF Fine
  <2>2. rop'.pc = "read" => rop.ec = "need_more"
    BY <1>4, <1>5 DEF ReadInv, ReadOpInv, Errors
  <2>3. rop'.pc # "trailer"
    BY <1>4, <1>5
  <2> QED
    BY <1>1, <1>5, <1>8, <1>10, <1>18, <1>19, <1>20, <2>1, <2>2, <2>3 DEF ReadInv, UnderstoodInv
<1>22. ReadOpInv'
  <2>1. taken' \in Nat
    BY <1>1, <1>11
  <2>2. rop'.pc # "put" /\ rop'.pc # "field"
    BY <1>4, <1>5
  <2>3. /\ rop'.ec = "need_more" => rop'.pc \in {"ret", "read"}
        /\ rop'.ec \in Errors \cup {"need_buffer"} => rop'.pc \in {"ret", "told"}
    BY <1>4, <1>5 DEF Errors
  <2> QED
    BY <1>1, <1>5, <1>6, <1>7, <2>1, <2>2, <2>3 DEF ReadInv, ReadOpInv, Done
<1> QED
  BY <1>13, <1>14, <1>15, <1>16, <1>17, <1>21, <1>22 DEF ReadInv

LEMMA ReadOverflowsReads ==
  ASSUME ReadInv, SendInv', ReaderInv', ReadOverflows, UNCHANGED serVars
  PROVE  ReadInv'
<1>1. /\ rop.pc = "read" /\ Len(buf) = MaxBuffer /\ UNCHANGED <<buf, par, how, body, taken, received>>
      /\ UNCHANGED <<script, at, wop, wrote, wire, closed>>
      /\ rop' = [rop EXCEPT !.pc = "told", !.ec = "buffer_overflow"]
  BY DEF ReadOverflows, Full, serVars
<1>2. /\ rop \in ReadOps /\ par \in Parsers /\ Len(buf) \in Nat /\ Len(body) \in Nat
      /\ script \in Seq(Messages) /\ Len(script) \in Nat
      /\ Reading \in 1 .. Len(script) + 1 /\ taken \in Nat /\ SenderTypes
  BY ReaderIs
<1>3. rop'.pc = "told" /\ rop'.ec = "buffer_overflow" /\ rop'.p = rop.p
  BY <1>1, <1>2 DEF ReadOps
<1>4. /\ rop.ec \in {"", "need_more"} /\ rop.p = 0 /\ Got = taken /\ (~Stopped => Fine)
  BY <1>1, BetweenIs
<1>5. ~Stopped
  BY <1>1 DEF ReadInv, ReadOpInv
<1>6. Stopped' = Stopped /\ Reading' = Reading
  BY <1>1, <1>3 DEF Stopped, Reading
<1>7. Was' = Was /\ ScriptInv' /\ WireInv' /\ BodyInv'
  BY <1>1, <1>6, Stays
<1>8. ReadOpInv'
  BY <1>1, <1>3, <1>5, <1>6 DEF ReadInv, ReadOpInv, Errors
<1>9. UnderstoodInv'
  BY <1>3 DEF UnderstoodInv, Fine, Errors
<1>10. AtEndInv'
  BY <1>1, <1>6 DEF ReadInv, AtEndInv
<1>11. MaxBuffer \in Nat /\ MaxBuffer # 0
  BY ConstantsAssumption DEF ConstantsAssumption
<1>12. Reading \in 1 .. Len(script) /\ Reading <= Len(script)
  <2>1. Reading # Len(script) + 1
    BY <1>1, <1>11, NothingBehind
  <2> QED
    BY <1>2, <2>1
<1>13. Was \in Messages
  BY <1>2, <1>12, MessagesEnd DEF Was
<1>14. ParserAt(par, Was, taken, Len(body)) /\ Len(Rest) < Needs(par, Was, taken)
  BY <1>1, <1>4, <1>5, <1>12 DEF ReadInv, UnderstoodInv
<1>15. Len(Rest) = MaxBuffer
  <2>1. Len(Rest) = Len(buf) - rop.p
    BY <1>2, RestIs DEF ReadInv
  <2>2. Len(buf) - 0 = Len(buf)
    BY <1>2
  <2> QED
    BY <1>1, <1>4, <2>1, <2>2
<1>16. /\ Needs(par, Was, taken) \in Nat
       /\ par.s \in HeaderStates => Needs(par, Was, taken) <= HeaderEnd(Was)
       /\ par.s \notin HeaderStates => Needs(par, Was, taken) <= 2 + TailLen(Was)
  BY <1>2, <1>13, <1>14, NeedsBound
<1>17. MaxBuffer < HeaderEnd(Was) \/ MaxBuffer < 2 + TailLen(Was)
  <2>1. HeaderEnd(Was) \in Nat /\ TailLen(Was) \in {0, 5, 8}
    BY <1>13, EndsAre
  <2> QED
    BY <1>11, <1>14, <1>15, <1>16, <2>1
<1>18. RefusalInv'
  <2>1. HeaderEnd(Was)' = HeaderEnd(Was) /\ TailLen(Was)' = TailLen(Was)
    BY <1>7 DEF HeaderEnd, Folds, TailLen
  <2> QED
    BY <1>1, <1>3, <1>6, <1>7, <1>12, <1>17, <2>1 DEF RefusalInv
<1> QED
  BY <1>7, <1>8, <1>9, <1>10, <1>18 DEF ReadInv

\* A new parser is in front of a message
LEMMA NewMeets ==
  ASSUME NEW m
  PROVE  ParserAt(NewParser, m, 0, 0) /\ NewParser.s \notin EofStates \cup {"complete"}
<1>1. NewParser.s = "nothing_yet" /\ NewParser.f = {} /\ NewParser.skip = 0 /\ NewParser.len = 0
      /\ NewParser.limit = BodyLimit
  BY DEF NewParser
<1> HIDE DEF NewParser
<1>2. NewParser.s \in HeaderStates /\ NewParser.s \notin BodyStates /\ NewParser.s \notin EofStates
      /\ NewParser.s \notin {"chunk_header0", "chunk_header", "chunk_body", "complete", "fields"}
  BY <1>1 DEF HeaderStates, BodyStates, EofStates
<1>3. InHeader(NewParser, m, 0, 0)
  BY <1>1, <1>2 DEF InHeader
<1>4. ParserAt(NewParser, m, 0, 0)
  BY <1>1, <1>2, <1>3 DEF ParserAt
<1> QED
  BY <1>2, <1>4

LEMMA NextReadReads ==
  ASSUME ReadInv, SendInv', ReaderInv', NextRead, UNCHANGED serVars
  PROVE  ReadInv'
<1>1. /\ rop.pc = "idle" /\ ~Stopped /\ Done(par) /\ "need_eof" \notin par.f
      /\ par' = NewParser /\ body' = <<>> /\ taken' = 0 /\ UNCHANGED <<buf, rop, received>>
      /\ UNCHANGED <<script, at, wop, wrote, wire, closed>>
  BY DEF NextRead, serVars
<1>2. /\ script \in Seq(Messages) /\ Len(script) \in Nat /\ Reading \in 1 .. Len(script) + 1
      /\ taken \in Nat /\ received \in Seq(Reports) /\ Len(received) \in Nat
  BY ReaderIs
<1>3. rop.ec = "" /\ rop.p = 0 /\ Got = taken /\ Fine
  BY <1>1, BetweenIs
<1>4. Reading = Len(received)
  BY <1>1 DEF Reading
<1>5. Reading \in 1 .. Len(script) /\ Reading <= Len(script)
  <2>1. Reading # Len(script) + 1
    BY <1>1, NothingBehind DEF Done, NewParser
  <2> QED
    BY <1>2, <2>1
<1>6. taken = Size(Was)
  <2>1. ParserAt(par, Was, taken, Len(body))
    BY <1>3, <1>5 DEF ReadInv, UnderstoodInv
  <2>2. AtTheEnd(par, Was, taken, Len(body))
    BY <1>1, <2>1 DEF ParserAt, Done
  <2> QED
    BY <1>1, <2>2 DEF AtTheEnd
<1>7. Stopped' = Stopped /\ ~Done(par')
  BY <1>1 DEF Stopped, Done, NewParser
<1>8. Reading' = Reading + 1
  BY <1>1, <1>4, <1>7 DEF Reading
<1>9. Reading' \in 1 .. Len(script) + 1 /\ Reading' - 1 = Reading
  BY <1>5, <1>8
<1>10. Taken' = Taken
  <2>1. Lengths' = Lengths
    BY <1>1 DEF Lengths
  <2>2. Taken' = MessageEnd(Reading) + 0
    <3>1. MessageEnd(Reading - 1)' = MessageEnd(Reading' - 1)
      BY <2>1 DEF MessageEnd
    <3> QED
      BY <1>1, <1>9, <3>1 DEF Taken
  <2>3. MessageEnd(Reading) = MessageEnd(Reading - 1) + Size(Was) /\ MessageEnd(Reading) \in Nat
    <3>1. Reading \in 0 .. Len(script)
      BY <1>5
    <3> QED
      BY <1>2, <1>5, <3>1, MessagesEnd DEF Was
  <2> QED
    BY <1>6, <2>2, <2>3, Nought DEF Taken
<1>11. ScriptInv'
  BY <1>1, <1>9 DEF ReadInv, ScriptInv, NeedEof
<1>12. WireInv'
  <2>1. \A p : SymbolAt(p)' = SymbolAt(p)
    BY <1>1, ScriptStays
  <2>2. Written' = Written
    <3>1. Lengths' = Lengths
      BY <1>1 DEF Lengths
    <3> QED
      BY <1>1, <3>1 DEF Written, Sent, MessageEnd
  <2> QED
    BY <1>1, <1>10, <2>1, <2>2 DEF ReadInv, WireInv
<1>13. Len(<<>>) = 0 /\ <<>> \in Texts
  BY DEF Texts
<1>14. ReadOpInv'
  BY <1>1, <1>2, <1>3, <1>7, <1>13 DEF ReadInv, ReadOpInv, Errors
<1>15. Got' = 0
  <2>1. Got' = taken' + rop'.p
    BY <1>1 DEF Got
  <2>2. 0 + 0 = 0
    OBVIOUS
  <2> QED
    BY <1>1, <1>3, <2>1, <2>2
<1>16. UnderstoodInv'
  <2>1. ParserAt(NewParser, Was', 0, 0) /\ NewParser.s \notin EofStates \cup {"complete"}
    BY NewMeets
  <2>2. ParserAt(par, Was, Got, Len(body))'
    <3>1. Len(body') = 0
      BY <1>1, <1>13
    <3>2. ParserAt(par', Was', Got', Len(body'))
      BY <1>1, <1>15, <2>1, <3>1
    <3> QED
      BY <3>2 DEF ParserAt, InHeader, InBody, InChunks, AtTheEnd, NeedEof, HeaderEnd, Folds, Total, Flags,
                  PieceEnd, Before, Size, BodyEnd, TailLen
  <2> QED
    BY <1>1, <1>3, <2>1, <2>2 DEF UnderstoodInv
<1>17. AtEndInv'
  BY <1>1 DEF AtEndInv
<1>18. BodyInv'
  <2> SUFFICES ASSUME Reading' <= Len(script') PROVE 0 <= Total(Was')
    BY <1>1, <1>13 DEF BodyInv, Total, Before
  <2>1. Reading' \in 1 .. Len(script)
    BY <1>1, <1>9
  <2>2. Was' \in Messages
    <3>1. Was' = script[Reading']
      BY <1>1 DEF Was
    <3> QED
      BY <1>2, <2>1, <3>1, MessagesEnd
  <2>3. Total(Was') \in Nat
    <3>1. Len(Was'.sizes) \in 0 .. Len(Was'.sizes)
      BY <2>2, EndsAre
    <3> QED
      BY <2>2, <3>1, EndsAre
  <2> QED
    BY <2>3
<1>19. RefusalInv'
  BY <1>1, <1>3 DEF RefusalInv
<1> QED
  BY <1>11, <1>12, <1>14, <1>16, <1>17, <1>18, <1>19 DEF ReadInv

LEMMA SameRoom ==
  ASSUME NEW p, NEW s, NEW f, NEW k, NEW l, NEW l0, NEW n, NEW b, NEW r,
         p = [s |-> s, f |-> f, skip |-> k, len |-> l, len0 |-> l0, limit |-> n, bodiless |-> b, room |-> r]
  PROVE  [p EXCEPT !.room = r] = p
  OBVIOUS

LEMMA FreshNew == [NewParser EXCEPT !.room = Window] = NewParser
  BY SameRoom DEF NewParser

LEMMA ReadToldReads ==
  ASSUME ReadInv, SendInv', ReaderInv', ReadTold, UNCHANGED serVars
  PROVE  ReadInv'
<1> DEFINE fresh == [par EXCEPT !.room = Window]
           report == [ec |-> rop.ec, bodiless |-> par.bodiless, body |-> body]
<1>1. /\ rop.pc = "told" /\ rop' = IdleRead /\ UNCHANGED <<buf, how, body, taken>>
      /\ UNCHANGED <<script, at, wop, wrote, wire, closed>>
      /\ \/ rop.ec = "need_buffer" /\ par' = fresh /\ received' = received
         \/ rop.ec = "" /\ ~Done(par) /\ par' = par /\ received' = received
         \/ rop.ec = "" /\ Done(par) /\ par' = par /\ received' = Append(received, report)
         \/ rop.ec \notin {"", "need_buffer"} /\ par' = par /\ received' = Append(received, report)
  BY DEF ReadTold, serVars
<1>2. /\ rop \in ReadOps /\ par \in Parsers /\ Len(buf) \in Nat /\ Len(body) \in Nat /\ body \in Texts
      /\ script \in Seq(Messages) /\ Len(script) \in Nat /\ received \in Seq(Reports)
      /\ Reading \in 1 .. Len(script) + 1 /\ taken \in Nat /\ Len(received) \in Nat
  BY ReaderIs
<1>3. rop'.pc = "idle" /\ rop'.p = 0 /\ rop'.ec = ""
  BY <1>1 DEF IdleRead
<1>4. rop.p = 0 /\ ~Stopped /\ Reading = Len(received) + 1
  BY <1>1 DEF ReadInv, ReadOpInv, ReaderInv, Reads, Reading
<1>5. Got' = Got /\ Got = taken
  <2>1. Got' = taken' + rop'.p /\ Got = taken + rop.p
    BY <1>1, <1>3 DEF Got
  <2>2. taken + 0 = taken
    BY <1>2
  <2> QED
    BY <1>1, <1>3, <1>4, <2>1, <2>2
<1>6. /\ fresh.s = par.s /\ fresh.f = par.f /\ fresh.skip = par.skip /\ fresh.len = par.len
      /\ fresh.limit = par.limit /\ fresh.bodiless = par.bodiless
      /\ par = NewParser => fresh = NewParser
  <2>1. /\ fresh.s = par.s /\ fresh.f = par.f /\ fresh.skip = par.skip /\ fresh.len = par.len
        /\ fresh.limit = par.limit /\ fresh.bodiless = par.bodiless
    BY <1>2 DEF Parsers
  <2>2. ASSUME par = NewParser PROVE fresh = NewParser
    <3>1. fresh = [NewParser EXCEPT !.room = Window]
      BY <2>2
    <3> QED
      BY <3>1, FreshNew
  <2> QED
    BY <2>1, <2>2
<1>7. report \in Reports /\ report.ec = rop.ec
  BY <1>2 DEF Reports, ReadOps, Parsers
<1> HIDE DEF fresh, report
<1>8. received' = received \/ received' = Append(received, report)
  BY <1>1
<1>9. /\ received' \in Seq(Reports)
      /\ received' = Append(received, report) =>
           received' # <<>> /\ Len(received') = Len(received) + 1 /\ received'[Len(received')] = report
  <2>1. /\ Append(received, report) \in Seq(Reports) /\ Append(received, report) # <<>>
        /\ Len(Append(received, report)) = Len(received) + 1
        /\ Append(received, report)[Len(received) + 1] = report
    BY <1>2, <1>7, AppendProperties
  <2> QED
    BY <1>2, <1>8, <2>1
<1>10. /\ received' = received => ~Stopped'
       /\ received' = Append(received, report) => (Stopped' <=> rop.ec # "")
  <2>1. received' = received => (Stopped' <=> Stopped)
    BY DEF Stopped
  <2>2. received' = Append(received, report) => (Stopped' <=> rop.ec # "")
    BY <1>7, <1>9 DEF Stopped
  <2> QED
    BY <1>4, <2>1, <2>2
<1>11. par'.s = par.s
  BY <1>1, <1>6
<1>12. Reading' = Reading
  <2>1. CASE rop.ec = "need_buffer" /\ par' = fresh /\ received' = received
    <3>1. ~Done(par')
      BY <1>11, <2>1 DEF ReadInv, ReadOpInv, Done
    <3> QED
      BY <1>3, <1>4, <1>10, <2>1, <3>1 DEF Reading
  <2>2. CASE rop.ec = "" /\ ~Done(par) /\ par' = par /\ received' = received
    BY <1>3, <1>4, <1>10, <2>2 DEF Reading
  <2>3. CASE rop.ec = "" /\ Done(par) /\ par' = par /\ received' = Append(received, report)
    BY <1>3, <1>4, <1>9, <2>3 DEF Reading
  <2>4. CASE rop.ec \notin {"", "need_buffer"} /\ par' = par /\ received' = Append(received, report)
    BY <1>3, <1>4, <1>9, <1>10, <2>4 DEF Reading
  <2> QED
    BY <1>1, <2>1, <2>2, <2>3, <2>4
<1>13. Was' = Was /\ ScriptInv' /\ WireInv' /\ BodyInv'
  BY <1>1, <1>12, Stays
<1>14. ReadOpInv'
  BY <1>1, <1>3, <1>9 DEF ReadInv, ReadOpInv, Errors
<1>15. Fine' => Fine
  <2> SUFFICES ASSUME ~Stopped' PROVE Fine
    BY DEF Fine
  <2>1. rop.ec \in {"", "need_buffer"}
    BY <1>1, <1>10
  <2> QED
    BY <1>4, <2>1 DEF Fine, Errors
<1>16. UnderstoodInv'
  <2> SUFFICES ASSUME Fine, Reading <= Len(script) PROVE UnderstoodInv'
    BY <1>1, <1>12, <1>15 DEF UnderstoodInv
  <2>1. UnderstoodInv
    BY DEF ReadInv
  <2>2. ParserAt(par', Was, taken, Len(body))
    <3>1. ParserAt(par, Was, taken, Len(body))
      BY <1>5, <2>1 DEF UnderstoodInv
    <3>2. CASE par' = par
      BY <3>1, <3>2
    <3>3. CASE par' = fresh
      <4>1. Start(fresh) = Start(par)
        BY <1>6 DEF Start
      <4>2. ParserAt(fresh, Was, taken, Len(body))
        BY <1>6, <3>1, <4>1 DEF ParserAt, InHeader, InBody, InChunks, AtTheEnd
      <4> QED
        BY <3>3, <4>2
    <3> QED
      BY <1>1, <3>2, <3>3
  <2>3. ParserAt(par, Was, Got, Len(body))'
    <3>1. ParserAt(par', Was', Got', Len(body'))
      BY <1>1, <1>5, <1>13, <2>2
    <3> QED
      BY <3>1 DEF ParserAt, InHeader, InBody, InChunks, AtTheEnd, NeedEof, HeaderEnd, Folds, Total, Flags,
                  PieceEnd, Before, Size, BodyEnd, TailLen
  <2>4. par'.limit = par.limit
    BY <1>1, <1>6
  <2> QED
    BY <1>1, <1>3, <1>11, <1>13, <2>1, <2>3, <2>4 DEF UnderstoodInv, NeedEof
<1>17. AtEndInv'
  <2> SUFFICES ASSUME Reading = Len(script) + 1 PROVE par' = NewParser
    BY <1>1, <1>12 DEF ReadInv, AtEndInv
  <2>1. par = NewParser
    BY DEF ReadInv, AtEndInv
  <2> QED
    BY <1>1, <1>6, <2>1
<1>18. RefusalInv'
  BY <1>3 DEF RefusalInv
<1> QED
  BY <1>13, <1>14, <1>16, <1>17, <1>18 DEF ReadInv

LEMMA Moved ==
  ASSUME NEW c \in Nat, NEW b \in Nat, NEW w \in Nat, NEW n \in 1 .. w
  PROVE  /\ n \in Nat /\ n <= w /\ w - n \in Nat /\ b + n \in Nat /\ 0 < b + n
         /\ c + (b + n) + (w - n) = c + b + w
         /\ \A i \in 1 .. b + n : i <= b \/ (i - b \in 1 .. n /\ i - b \in 1 .. w /\ c + b + (i - b) = c + i)
         /\ \A i \in 1 .. b + n : i <= b => i \in 1 .. b
         /\ \A i \in 1 .. w - n : n + i \in 1 .. w /\ c + (b + n) + i = c + b + (n + i)
  OBVIOUS

LEMMA WireDeliversReads ==
  ASSUME ReadInv, SendInv', ReaderInv', WireDelivers
  PROVE  ReadInv'
<1>1. PICK n \in 1 .. Least(MaxBuffer - Len(buf), Len(wire)) :
        /\ ReadArrives(SubSeq(wire, 1, n)) /\ wire' = SubSeq(wire, n + 1, Len(wire))
        /\ UNCHANGED <<script, at, mode, ser, wop, wrote, closed>>
  BY DEF WireDelivers
<1> DEFINE d == SubSeq(wire, 1, n)
           b == Len(buf)
           w == Len(wire)
<1>2. /\ rop.pc = "read" /\ buf' = buf \o d /\ rop' = [rop EXCEPT !.pc = "put", !.ec = ""]
      /\ UNCHANGED <<par, how, body, taken, received>>
  BY <1>1 DEF ReadArrives
<1>3. /\ rop \in ReadOps /\ par \in Parsers /\ b \in Nat /\ w \in Nat /\ Len(body) \in Nat
      /\ buf \in Texts /\ wire \in Texts
      /\ script \in Seq(Messages) /\ Len(script) \in Nat
      /\ Reading \in 1 .. Len(script) + 1 /\ taken \in Nat /\ SenderTypes
  BY ReaderIs
<1>4. rop'.pc = "put" /\ rop'.ec = "" /\ rop'.p = rop.p
  BY <1>2, <1>3 DEF ReadOps
<1>5. /\ rop.p = 0 /\ Got = taken /\ (~Stopped => Fine)
  BY <1>2, BetweenIs
<1>6. ~Stopped /\ ~Done(par)
  BY <1>2 DEF ReadInv, ReadOpInv, ReaderInv, Reads, Done
<1>7. Stopped' = Stopped /\ Reading' = Reading
  BY <1>2, <1>4 DEF Stopped, Reading
<1>8. n \in 1 .. w
  <2>1. MaxBuffer \in Nat
    BY ConstantsAssumption DEF ConstantsAssumption
  <2> HIDE DEF b, w
  <2>2. n \in 1 .. Least(MaxBuffer - b, w)
    BY DEF b, w
  <2> QED
    BY <1>3, <2>1, <2>2 DEF Least
<1>9. MessageEnd(Reading - 1) \in Nat /\ Taken \in Nat
  BY TakenIs
<1> DEFINE c == Taken
<1>10. /\ n \in Nat /\ n <= w /\ w - n \in Nat /\ b + n \in Nat /\ 0 < b + n
       /\ c + (b + n) + (w - n) = c + b + w
       /\ \A i \in 1 .. b + n : i <= b \/ (i - b \in 1 .. n /\ i - b \in 1 .. w /\ c + b + (i - b) = c + i)
       /\ \A i \in 1 .. b + n : i <= b => i \in 1 .. b
       /\ \A i \in 1 .. w - n : n + i \in 1 .. w /\ c + (b + n) + i = c + b + (n + i)
  <2> HIDE DEF c, b, w
  <2>1. c \in Nat
    BY <1>9 DEF c
  <2> QED
    BY <1>3, <1>8, <2>1, Moved
<1>11. d \in Texts /\ Len(d) = n /\ \A i \in 1 .. n : d[i] = wire[i]
  <2>1. \A i \in 1 .. n : wire[i] \in Symbols
    <3>1. \A i \in 1 .. n : i \in 1 .. w
      BY <1>3, <1>8
    <3> QED
      BY <1>3, <3>1, ElementOfSeq DEF Texts
  <2>2. d \in Seq(Symbols)
    <3>1. 1 \in Int /\ n \in Int
      BY <1>10
    <3> QED
      BY <1>3, <2>1, <3>1, SubSeqProperties DEF Texts
  <2>3. Len(d) = n /\ \A i \in 1 .. n : d[i] = wire[i]
    <3>1. /\ n - 1 + 1 = n /\ \A i \in 1 .. n : 1 + i - 1 = i
      BY <1>10
    <3>2. Len(SubSeq(wire, 1, n)) = n
      BY <1>3, <1>10, SubSeqProperties DEF Texts
    <3>3. \A i \in 1 .. n : SubSeq(wire, 1, n)[i] = wire[i]
      BY <1>3, <1>10, <3>1, SubSeqProperties DEF Texts
    <3> QED
      BY <3>2, <3>3
  <2> QED
    BY <2>2, <2>3 DEF Texts
<1> HIDE DEF d
<1>12. /\ Len(buf') = b + n
       /\ \A i \in 1 .. b + n : buf'[i] = IF i <= b THEN buf[i] ELSE d[i - b]
  BY <1>2, <1>3, <1>11, ConcatProperties DEF Texts
<1>13. Len(wire') = w - n /\ \A i \in 1 .. w - n : wire'[i] = wire[n + i]
  <2> HIDE DEF w
  <2>1. wire' = SubSeq(wire, n + 1, w)
    BY <1>1 DEF w
  <2>2. Len(SubSeq(wire, n + 1, w)) = w - n /\ \A i \in 1 .. w - n : SubSeq(wire, n + 1, w)[i] = wire[n + i]
    BY <1>3, <1>10, SubSeqProperties DEF Texts, w
  <2> QED
    BY <2>1, <2>2
<1>14. Was' = Was
  BY <1>1, <1>7 DEF Was
<1>15. Taken' = Taken /\ Written' = Written
  <2>1. Lengths' = Lengths
    BY <1>1 DEF Lengths
  <2>2. MessageEnd(Reading - 1)' = MessageEnd(Reading - 1)
    BY <1>7, <2>1 DEF MessageEnd
  <2>3. Taken' = Taken
    BY <1>2, <2>2 DEF Taken
  <2>4. Written' = Written
    BY <1>1, <2>1 DEF Written, Sent, MessageEnd
  <2> QED
    BY <2>3, <2>4
<1>16. WireInv'
  <2>1. \A x : SymbolAt(x)' = SymbolAt(x)
    BY <1>1, ScriptStays
  <2> HIDE DEF c, b, w
  <2>2. /\ c + b + w = Written
        /\ \A i \in 1 .. b : buf[i] = SymbolAt(c + i)
        /\ \A i \in 1 .. w : wire[i] = SymbolAt(c + b + i)
    BY DEF ReadInv, WireInv, c, b, w
  <2>3. ASSUME NEW i \in 1 .. b + n PROVE buf'[i] = SymbolAt(c + i)
    <3>1. CASE i <= b
      BY <1>10, <1>12, <2>2, <3>1
    <3>2. CASE ~(i <= b)
      <4>1. i - b \in 1 .. n /\ i - b \in 1 .. w /\ c + b + (i - b) = c + i
        BY <1>10, <3>2
      <4>2. buf'[i] = d[i - b]
        BY <1>12, <3>2
      <4>3. d[i - b] = wire[i - b]
        BY <1>11, <4>1
      <4>4. wire[i - b] = SymbolAt(c + b + (i - b))
        BY <2>2, <4>1
      <4> QED
        BY <4>1, <4>2, <4>3, <4>4
    <3> QED
      BY <3>1, <3>2
  <2>4. ASSUME NEW i \in 1 .. w - n PROVE wire'[i] = SymbolAt(c + (b + n) + i)
    <3>1. n + i \in 1 .. w /\ c + (b + n) + i = c + b + (n + i)
      BY <1>10
    <3>2. wire[n + i] = SymbolAt(c + b + (n + i))
      BY <2>2, <3>1
    <3> QED
      BY <1>13, <3>1, <3>2
  <2> QED
    BY <1>10, <1>12, <1>13, <1>15, <2>1, <2>2, <2>3, <2>4 DEF WireInv, c
<1>17. ScriptInv'
  BY <1>1, <1>7 DEF ReadInv, ScriptInv, NeedEof
<1>18. ReadOpInv'
  <2>1. rop'.p < Len(buf')
    BY <1>4, <1>5, <1>10, <1>12
  <2> QED
    BY <1>2, <1>4, <1>6, <1>7, <2>1 DEF ReadInv, ReadOpInv, Errors
<1>19. Got' = Got
  BY <1>2, <1>4 DEF Got
<1>20. UnderstoodInv'
  <2> SUFFICES ASSUME Reading <= Len(script) PROVE UnderstoodInv'
    BY <1>1, <1>7 DEF UnderstoodInv
  <2>1. Fine
    BY <1>5, <1>6
  <2> QED
    BY <1>2, <1>4, <1>6, <1>7, <1>14, <1>19, <2>1 DEF ReadInv, UnderstoodInv, Done
<1>21. AtEndInv'
  BY <1>1, <1>2, <1>7 DEF ReadInv, AtEndInv
<1>22. BodyInv'
  BY <1>1, <1>2, <1>7, <1>14 DEF ReadInv, BodyInv
<1>23. RefusalInv'
  BY <1>4 DEF RefusalInv
<1> QED
  BY <1>16, <1>17, <1>18, <1>20, <1>21, <1>22, <1>23 DEF ReadInv

\* What has been seen of a start line stays in the buffer
Started == par.s = "start_line" => rop.p < Len(buf)

LEMMA CutShort ==
  ASSUME NEW c \in Nat, NEW g \in Nat, NEW n \in Nat, NEW x \in Nat, NEW z \in Nat, x < n, g + n <= z,
         NEW a \in Nat, NEW s \in Nat, NEW l \in Nat, s <= l, (c + g) + x = a + s
  PROVE  c + z <= a => FALSE
  OBVIOUS

LEMMA Behindhand ==
  ASSUME NEW c \in Nat, NEW g \in Nat, NEW x \in Nat, 0 < g + x,
         NEW a \in Nat, NEW s \in Nat, NEW l \in Nat, s <= l, (c + g) + x = a + s
  PROVE  a + l <= c => FALSE
  OBVIOUS

LEMMA Least3 ==
  ASSUME NEW g \in Nat, NEW e \in Nat, NEW h \in Nat, NEW y \in Nat, 5 <= h, h <= e, g + y = e, y <= 2
  PROVE  3 <= g
  OBVIOUS

LEMMA Chunk3 ==
  ASSUME NEW g \in Nat, NEW e \in Nat, NEW h \in Nat, NEW w \in Nat, NEW y \in 1 .. w, NEW e1, 5 <= h, h <= e,
         e1 = (e + w) + 5, g + y + 2 = e1
  PROVE  3 <= g
  OBVIOUS

LEMMA Body3 ==
  ASSUME NEW g, NEW h \in Nat, NEW b \in Nat, 5 <= h, g = h + b
  PROVE  3 <= g
  OBVIOUS

\* Once the start line is parsed, three symbols of the message are taken
LEMMA ThreeTaken ==
  ASSUME NEW m \in Messages, NEW p \in Parsers, NEW g \in Nat, NEW b \in Nat, ParserAt(p, m, g, b),
         p.s \notin {"nothing_yet", "start_line", "complete"} \cup EofStates
  PROVE  3 <= g
<1>1. HeaderEnd(m) \in Nat /\ 5 <= HeaderEnd(m)
  BY EndsAre
<1>2. CASE p.s = "fields"
  <2>1. g \in {3, Folds(m), HeaderEnd(m) - 2}
    BY <1>2 DEF ParserAt, InHeader, HeaderStates
  <2>2. Folds(m) \in {3, 9}
    BY EndsAre
  <2>3. g \in {3, 9} \/ g = HeaderEnd(m) - 2
    BY <2>1, <2>2
  <2> QED
    BY <1>1, <2>3
<1>3. CASE p.s \in {"chunk_header0", "chunk_header"}
  <2>1. PICK j \in 0 .. Len(m.sizes) : HeaderAt(p, m, j, g, b)
    BY <1>3, ChunkMeets
  <2>2. g + Start(p) = PieceEnd(m, j) /\ Start(p) \in Nat /\ Start(p) <= 2
    BY <2>1 DEF HeaderAt, Start
  <2>3. PieceEnd(m, j) \in Nat /\ HeaderEnd(m) <= PieceEnd(m, j)
    BY EndsAre
  <2> QED
    BY <1>1, <2>2, <2>3, Least3
<1>4. CASE p.s = "chunk_body"
  <2>1. PICK j \in 1 .. Len(m.sizes) : p.len \in 1 .. m.sizes[j] /\ g + p.len + 2 = PieceEnd(m, j)
    BY <1>4 DEF ParserAt, InChunks
  <2>2. m.framing = "chunked"
    BY <1>4 DEF ParserAt, InChunks
  <2>3. Len(m.sizes) \in Nat
    BY EndsAre
  <2>4. j - 1 \in 0 .. Len(m.sizes)
    BY <2>3
  <2>5. HeaderEnd(m) <= PieceEnd(m, j - 1)
    BY <2>4, EndsAre
  <2>6. /\ PieceEnd(m, j - 1) \in Nat
        /\ PieceEnd(m, j) = (PieceEnd(m, j - 1) + m.sizes[j]) + 5 /\ m.sizes[j] \in Nat
    BY <2>2, ChunkEnds
  <2> QED
    BY <1>1, <2>1, <2>5, <2>6, Chunk3
<1>5. CASE p.s \in {"body0", "body"}
  <2>1. g = HeaderEnd(m) + b
    BY <1>5 DEF ParserAt, InBody, BodyStates
  <2> QED
    BY <1>1, <2>1, Body3
<1> QED
  BY <1>2, <1>3, <1>4, <1>5 DEF Parsers, ParserStates, HeaderStates, BodyStates, EofStates

LEMMA Something ==
  ASSUME NEW g \in Nat, NEW x \in Nat, 0 < x \/ 3 <= g
  PROVE  0 < g + x
  OBVIOUS

LEMMA NotLast ==
  ASSUME NEW n \in Nat, NEW r \in 1 .. n + 1, r # n + 1
  PROVE  r \in 1 .. n /\ r <= n
  OBVIOUS

LEMMA Less0 ==
  ASSUME NEW n \in Nat
  PROVE  n - 0 = n
  OBVIOUS

LEMMA Earlier ==
  ASSUME NEW n \in Nat, NEW r \in 1 .. n, NEW q \in 1 .. n, q < r
  PROVE  r - 1 \in q .. n /\ q \in 0 .. n /\ r - 1 \in q .. n
  OBVIOUS

LEMMA SameOne ==
  ASSUME NEW n \in Nat, NEW r \in 1 .. n, NEW q \in 1 .. n, ~(q < r), ~(r < q)
  PROVE  r = q
  OBVIOUS

\* If the stream ends in the header, in a body that has a length or in a chunk, the
\* message is the one that was being sent
LEMMA PartialIs ==
  ASSUME ReadInv, Started, rop.pc = "read", wire = <<>>, par.s # "nothing_yet",
         PutEof(par).ec # ""
  PROVE  Reading <= Len(script) /\ Reading = at
<1>1. /\ script \in Seq(Messages) /\ Len(script) \in Nat /\ Reading \in 1 .. Len(script) + 1 /\ par \in Parsers
      /\ taken \in Nat /\ Len(buf) \in Nat /\ Len(body) \in Nat /\ SenderTypes
  BY ReaderIs
<1>2. /\ rop.p = 0 /\ Got = taken /\ (~Stopped => Fine)
  BY BetweenIs
<1>3. ~Stopped
  BY DEF ReadInv, ReadOpInv
<1>4. Reading \in 1 .. Len(script) /\ Reading <= Len(script)
  <2>1. NewParser.s = "nothing_yet"
    BY DEF NewParser
  <2>2. par # NewParser
    BY <2>1
  <2>3. Reading # Len(script) + 1
    BY <2>2, NothingBehind
  <2>4. Reading \in 1 .. Len(script) + 1 /\ Len(script) \in Nat
    BY <1>1
  <2> QED
    BY <2>3, <2>4, NotLast
<1>5. Was \in Messages
  BY <1>1, <1>4, MessagesEnd DEF Was
<1>6. ParserAt(par, Was, taken, Len(body)) /\ Len(Rest) < Needs(par, Was, taken)
  BY <1>2, <1>3, <1>4 DEF ReadInv, UnderstoodInv
<1>7. Len(Rest) = Len(buf)
  <2>1. Len(Rest) = Len(buf) - rop.p
    BY <1>1, RestIs DEF ReadInv
  <2>2. Len(buf) - 0 = Len(buf)
    BY <1>1, Less0
  <2> QED
    BY <1>2, <2>1, <2>2
<1>8. par.s \in {"start_line", "fields"} \/ (par.f \cap {"length", "chunked"} # {} /\ par.s # "complete")
  BY DEF PutEof, Done
<1>9. par.s \notin EofStates \cup {"complete"}
  <2>1. par.s \in EofStates => par.f = {"has_body", "need_eof"}
    BY <1>6 DEF ParserAt, InBody, EofStates, BodyStates
  <2> QED
    BY <1>8, <2>1 DEF EofStates
<1>10. Needs(par, Was, taken) \in Nat /\ taken + Needs(par, Was, taken) <= Size(Was)
  BY <1>1, <1>5, <1>6, <1>9, NeedsBound
<1>11. 0 < taken + Len(buf)
  <2>1. CASE par.s = "start_line"
    <3>1. 0 < Len(buf)
      BY <1>2, <2>1 DEF Started
    <3> QED
      BY <1>1, <3>1, Something
  <2>2. CASE par.s # "start_line"
    <3>1. 3 <= taken
      BY <1>1, <1>5, <1>6, <1>9, <2>2, ThreeTaken
    <3> QED
      BY <1>1, <3>1, Something
  <2> QED
    BY <2>1, <2>2
<1>12. /\ at \in 1 .. Len(script) /\ MessageEnd(at - 1) \in Nat /\ Size(Msg) \in Nat
       /\ MessageEnd(at) = MessageEnd(at - 1) + Size(Msg) /\ Sent \in Nat /\ Sent <= Size(Msg)
       /\ \A k \in at .. Len(script) : MessageEnd(at) <= MessageEnd(k) /\ MessageEnd(k) \in Nat
  BY WrittenIs
<1>13. (Taken + Len(buf)) + 0 = MessageEnd(at - 1) + Sent
  <2>1. Taken + Len(buf) + Len(wire) = MessageEnd(at - 1) + Sent
    BY WrittenIs
  <2>2. Len(wire) = 0
    OBVIOUS
  <2> QED
    BY <2>1, <2>2
<1>14. MessageEnd(Reading - 1) \in Nat /\ Taken = MessageEnd(Reading - 1) + taken /\ Taken \in Nat
  BY <1>1, TakenIs DEF Taken
<1>15. (MessageEnd(Reading - 1) + taken) + Len(buf) = MessageEnd(at - 1) + Sent
  <2>1. Taken + Len(buf) \in Nat
    BY <1>1, <1>14, Nought
  <2>2. (Taken + Len(buf)) + 0 = Taken + Len(buf)
    BY <2>1, Nought
  <2> QED
    BY <1>13, <1>14, <2>2
<1>16. Size(Was) \in Nat /\ MessageEnd(Reading) = MessageEnd(Reading - 1) + Size(Was)
  BY <1>1, <1>4, MessagesEnd DEF Was
<1>17. ~(at < Reading)
  <2> SUFFICES ASSUME at < Reading PROVE FALSE
    OBVIOUS
  <2>1. Reading - 1 \in at .. Len(script)
    <3>1. at \in 1 .. Len(script) /\ Reading \in 1 .. Len(script) /\ Len(script) \in Nat
      BY <1>1, <1>4, <1>12
    <3> QED
      BY <3>1, Earlier
  <2>2. MessageEnd(at - 1) + Size(Msg) <= MessageEnd(Reading - 1)
    BY <1>12, <2>1
  <2> QED
    BY <1>1, <1>11, <1>12, <1>14, <1>15, <2>2, Behindhand
<1>18. ~(Reading < at)
  <2> SUFFICES ASSUME Reading < at PROVE FALSE
    OBVIOUS
  <2>1. Reading \in 0 .. Len(script) /\ at - 1 \in Reading .. Len(script)
    <3>1. at \in 1 .. Len(script) /\ Reading \in 1 .. Len(script) /\ Len(script) \in Nat
      BY <1>1, <1>4, <1>12
    <3> QED
      BY <3>1, Earlier
  <2>2. MessageEnd(Reading) <= MessageEnd(at - 1)
    BY <1>1, <2>1, MessagesGrow
  <2>3. MessageEnd(Reading - 1) + Size(Was) <= MessageEnd(at - 1)
    BY <1>16, <2>2
  <2>4. Len(buf) < Needs(par, Was, taken)
    BY <1>6, <1>7
  <2> QED
    BY <1>1, <1>10, <1>12, <1>14, <1>15, <1>16, <2>3, <2>4, CutShort
<1>19. at \in 1 .. Len(script) /\ Reading \in 1 .. Len(script) /\ Len(script) \in Nat
  BY <1>1, <1>4, <1>12
<1> QED
  BY <1>4, <1>17, <1>18, <1>19, SameOne

\* What put_eof says when the stream ends in a parser that is not complete
LEMMA EofSays ==
  ASSUME NEW p \in Parsers, p.s \notin {"nothing_yet", "complete"}, PutEof(p).ec = ""
  PROVE  /\ p.s \notin {"start_line", "fields"} /\ "length" \notin p.f /\ "chunked" \notin p.f
         /\ PutEof(p).p = [p EXCEPT !.s = "complete"]
  BY DEF PutEof, Done

LEMMA EofGives ==
  ASSUME NEW p \in Parsers
  PROVE  (PutEof(p).ec = "partial_message" /\ PutEof(p).p = p) \/ PutEof(p).ec = ""
<1>1. CASE p.s \in {"start_line", "fields"} \/ (p.f \cap {"length", "chunked"} # {} /\ ~Done(p))
  BY <1>1 DEF PutEof
<1>2. CASE ~(p.s \in {"start_line", "fields"} \/ (p.f \cap {"length", "chunked"} # {} /\ ~Done(p)))
  BY <1>2 DEF PutEof
<1> QED
  BY <1>1, <1>2

LEMMA EofParser ==
  ASSUME NEW p \in Parsers, NEW m, NEW g, NEW b, ParserAt(p, m, g, b),
         p.s \notin {"nothing_yet", "start_line", "fields", "complete"},
         "length" \notin p.f, "chunked" \notin p.f
  PROVE  /\ p.s \in EofStates /\ NeedEof(m, IsRequest) /\ "need_eof" \in p.f
         /\ ParserAt([p EXCEPT !.s = "complete"], m, g, b) /\ Needs(p, m, g) = 1
<1>1. p.s \in EofStates
  <2>1. p.s \notin {"body0", "body"}
    BY DEF ParserAt, InBody, BodyStates
  <2>2. p.s \notin {"chunk_header0", "chunk_header", "chunk_body"}
    BY DEF ParserAt, InChunks
  <2> QED
    BY <2>1, <2>2 DEF Parsers, ParserStates, HeaderStates, BodyStates, EofStates
<1>2. NeedEof(m, IsRequest) /\ p.f = {"has_body", "need_eof"} /\ p.bodiless = m.bodiless
  BY <1>1 DEF ParserAt, InBody, BodyStates, EofStates
<1> DEFINE c == [p EXCEPT !.s = "complete"]
<1>3. c.s = "complete" /\ c.f = p.f /\ c.bodiless = p.bodiless
  BY DEF Parsers
<1> HIDE DEF c
<1>4. AtTheEnd(c, m, g, b)
  BY <1>2, <1>3 DEF AtTheEnd
<1>5. ParserAt(c, m, g, b)
  BY <1>2, <1>3, <1>4 DEF ParserAt, HeaderStates, BodyStates, EofStates
<1>6. Needs(p, m, g) = 1
  <2>1. p.s \notin HeaderStates /\ p.s \notin {"chunk_header0", "chunk_header"}
    BY <1>1 DEF HeaderStates, EofStates
  <2> QED
    BY <2>1 DEF Needs
<1> QED
  BY <1>1, <1>2, <1>5, <1>6 DEF c

LEMMA ReadEofIs ==
  ASSUME ReadEof, par \in Parsers
  PROVE  /\ rop.pc = "read" /\ UNCHANGED <<buf, how, body, taken, received>>
         /\ \/ /\ par.s = "nothing_yet" /\ par' = par
               /\ rop' = [rop EXCEPT !.pc = "told", !.ec = "end_of_stream"]
            \/ /\ par.s # "nothing_yet" /\ PutEof(par).ec # "" /\ par' = par
               /\ rop' = [rop EXCEPT !.pc = "told", !.ec = "partial_message"]
            \/ /\ par.s # "nothing_yet" /\ PutEof(par).ec = "" /\ par' = PutEof(par).p
               /\ rop' = [rop EXCEPT !.pc = "told", !.ec = ""]
<1> DEFINE x == IF par.s = "nothing_yet" THEN [p |-> par, ec |-> "end_of_stream"]
                ELSE PutEof(par)
<1>1. /\ rop.pc = "read" /\ buf' = buf /\ par' = x.p
      /\ rop' = [rop EXCEPT !.pc = "told", !.ec = x.ec]
  BY ReadEofDoes
<1>2. UNCHANGED <<how, body, taken, received>>
  BY Zenon DEF ReadEof
<1>3. CASE par.s = "nothing_yet"
  BY <1>1, <1>2, <1>3
<1>4. CASE par.s # "nothing_yet"
  <2>1. x = PutEof(par)
    BY <1>4
  <2>2. \/ PutEof(par).ec = "partial_message" /\ PutEof(par).p = par
        \/ PutEof(par).ec = ""
    BY EofGives
  <2> HIDE DEF x
  <2> QED
    BY <1>1, <1>2, <1>4, <2>1, <2>2
<1> QED
  BY <1>3, <1>4

\* The stream ends where the message is not: it is refused
LEMMA RefusedReads ==
  ASSUME ReadInv, SendInv', ReaderInv', rop.pc = "read", UNCHANGED <<buf, par, how, body, taken, received>>,
         UNCHANGED serVars, closed, wire = <<>>, NEW e \in {"end_of_stream", "partial_message"},
         rop' = [rop EXCEPT !.pc = "told", !.ec = e],
         e = "partial_message" => Reading <= Len(script) /\ Reading = at
  PROVE  ReadInv'
<1>1. /\ rop.pc = "read" /\ UNCHANGED <<buf, par, how, body, taken, received>>
      /\ UNCHANGED <<script, at, wop, wrote, wire, closed>>
  BY DEF serVars
<1>2. rop \in ReadOps
  BY ReaderIs
<1>3. rop'.pc = "told" /\ rop'.ec = e /\ rop'.p = rop.p
  BY <1>2 DEF ReadOps
<1>5. ~Stopped
  BY <1>1 DEF ReadInv, ReadOpInv
<1>6. Stopped' = Stopped /\ Reading' = Reading
  BY <1>1, <1>3 DEF Stopped, Reading
<1>7. Was' = Was /\ ScriptInv' /\ WireInv' /\ BodyInv'
  BY <1>1, <1>6, Stays
<1>8. ReadOpInv'
  BY <1>1, <1>3, <1>5, <1>6 DEF ReadInv, ReadOpInv, Errors
<1>9. UnderstoodInv'
  BY <1>3 DEF UnderstoodInv, Fine, Errors
<1>10. AtEndInv'
  BY <1>1, <1>6 DEF ReadInv, AtEndInv
<1>11. RefusalInv'
  BY <1>1, <1>3, <1>6 DEF RefusalInv
<1> QED
  BY <1>7, <1>8, <1>9, <1>10, <1>11 DEF ReadInv

LEMMA WireEndsReads ==
  ASSUME ReadInv, Started, SendInv', ReaderInv', WireEnds
  PROVE  ReadInv'
<1>1. /\ script \in Seq(Messages) /\ Len(script) \in Nat /\ Reading \in 1 .. Len(script) + 1 /\ par \in Parsers
      /\ rop \in ReadOps /\ buf \in Texts /\ taken \in Nat /\ Len(buf) \in Nat /\ Len(body) \in Nat
      /\ SenderTypes
  BY ReaderIs
<1>2. ReadEof /\ UNCHANGED serVars /\ closed /\ wire = <<>>
  BY DEF WireEnds
<1>3. rop.pc = "read" /\ UNCHANGED <<buf, how, body, taken, received>>
  BY <1>1, <1>2, ReadEofIs
<1>4. CASE par.s = "nothing_yet" /\ par' = par /\ rop' = [rop EXCEPT !.pc = "told", !.ec = "end_of_stream"]
  BY <1>2, <1>3, <1>4, RefusedReads
<1>5. CASE par.s # "nothing_yet" /\ PutEof(par).ec # "" /\ par' = par
             /\ rop' = [rop EXCEPT !.pc = "told", !.ec = "partial_message"]
  <2>1. Reading <= Len(script) /\ Reading = at
    BY <1>2, <1>3, <1>5, PartialIs
  <2> QED
    BY <1>2, <1>3, <1>5, <2>1, RefusedReads
<1>6. CASE par.s # "nothing_yet" /\ PutEof(par).ec = "" /\ par' = PutEof(par).p
             /\ rop' = [rop EXCEPT !.pc = "told", !.ec = ""]
  <2>1. rop'.pc = "told" /\ rop'.ec = "" /\ rop'.p = rop.p
    BY <1>1, <1>6 DEF ReadOps
  <2>2. UNCHANGED <<script, at, wop, wrote, wire, closed>>
    BY <1>2 DEF serVars
  <2>3. ~Stopped /\ par.s # "complete"
    BY <1>3 DEF ReadInv, ReadOpInv, ReaderInv, Reads
  <2>4. Stopped' = Stopped /\ Reading' = Reading
    BY <1>3, <2>1 DEF Stopped, Reading
  <2>5. Was' = Was /\ ScriptInv' /\ WireInv' /\ BodyInv'
    BY <1>3, <2>2, <2>4, Stays
  <2>6. Reading \in 1 .. Len(script) /\ Reading <= Len(script)
    <3>1. NewParser.s = "nothing_yet"
      BY DEF NewParser
    <3>2. par # NewParser
      BY <1>6, <3>1
    <3>3. Reading # Len(script) + 1
      BY <3>2, NothingBehind
    <3> QED
      BY <1>1, <3>3, NotLast
  <2>7. rop.p = 0 /\ Got = taken /\ Fine
    BY <1>3, <2>3, BetweenIs
  <2>8. ParserAt(par, Was, taken, Len(body)) /\ Len(Rest) < Needs(par, Was, taken)
    BY <1>3, <2>6, <2>7 DEF ReadInv, UnderstoodInv
  <2>9. /\ par.s \notin {"start_line", "fields"} /\ "length" \notin par.f /\ "chunked" \notin par.f
        /\ par' = [par EXCEPT !.s = "complete"]
    BY <1>1, <1>6, <2>3, EofSays
  <2>10. /\ par.s \in EofStates /\ NeedEof(Was, IsRequest)
         /\ ParserAt([par EXCEPT !.s = "complete"], Was, taken, Len(body)) /\ Needs(par, Was, taken) = 1
    BY <1>1, <1>6, <2>3, <2>8, <2>9, EofParser
  <2>11. par'.s = "complete"
    BY <1>1, <2>9 DEF Parsers
  <2>12. buf = <<>>
    <3>1. Len(Rest) = Len(buf) - rop.p
      BY <1>1, RestIs DEF ReadInv
    <3>2. Len(buf) - 0 = Len(buf)
      BY <1>1, Less0
    <3>3. Len(buf) < 1
      BY <2>7, <2>8, <2>10, <3>1, <3>2
    <3>4. Len(buf) = 0
      BY <1>1, <3>3
    <3> QED
      BY <1>1, <3>4, EmptySeq DEF Texts
  <2>13. Got' = Got
    BY <1>3, <2>1 DEF Got
  <2>14. ReadOpInv'
    BY <1>3, <2>1, <2>3, <2>4 DEF ReadInv, ReadOpInv, Errors
  <2>15. ParserAt(par, Was, Got, Len(body))'
    <3>1. ParserAt(par', Was', Got', Len(body'))
      BY <1>3, <2>5, <2>7, <2>9, <2>10, <2>13
    <3> QED
      BY <3>1 DEF ParserAt, InHeader, InBody, InChunks, AtTheEnd, NeedEof, HeaderEnd, Folds, Total, Flags,
                  PieceEnd, Before, Size, BodyEnd, TailLen
  <2>16. UnderstoodInv'
    BY <1>2, <1>3, <2>1, <2>2, <2>11, <2>12, <2>15 DEF UnderstoodInv, EofStates
  <2>17. Reading # Len(script) + 1
    BY <1>1, <2>6
  <2>18. AtEndInv'
    BY <2>2, <2>4, <2>17 DEF AtEndInv
  <2>19. RefusalInv'
    BY <2>1 DEF RefusalInv
  <2> QED
    BY <2>5, <2>14, <2>16, <2>18, <2>19 DEF ReadInv
<1> QED
  BY <1>1, <1>2, <1>4, <1>5, <1>6, ReadEofIs

-----------------------------------------------------------------------------
(* put goes into a message, and leaves its start line but for the start line *)

Begun == {"nothing_yet", "start_line"}
Leaves == par'.s \notin Begun

LEMMA NeedMoreLeaves ==
  ASSUME par \in Parsers, par.s \notin Begun, FieldsNeedMore
  PROVE  Leaves
<1>1. par' = par \/ \E n : par' = [par EXCEPT !.skip = n]
  BY DEF FieldsNeedMore
<1>2. CASE par' = par
  BY <1>2 DEF Leaves
<1>3. CASE \E n : par' = [par EXCEPT !.skip = n]
  <2>1. PICK n : par' = [par EXCEPT !.skip = n]
    BY <1>3
  <2> QED
    BY <2>1 DEF Leaves, Parsers
<1> QED
  BY <1>1, <1>2, <1>3

LEMMA FieldLeaves ==
  ASSUME ReaderInv, SenderTypes, Field
  PROVE  Leaves
<1> DEFINE s == FieldInput
           x == DoField(par, s[1])
<1>1. rop.pc \in {"field", "trailer"}
  BY FieldDoes
<1>2. par \in Parsers /\ s \in Cuts
  BY <1>1, FieldInputIs
<1>3. par.s \notin Begun
  BY <1>1, FieldParser DEF Begun
<1>4. \/ FieldsNeedMore
      \/ FieldsEnd
      \/ par' = par
      \/ ~(Len(s) < 2) /\ par' = x.p /\ ParseField(s).r = "field"
  BY FieldDoes
<1>5. CASE FieldsNeedMore
  BY <1>2, <1>3, <1>5, NeedMoreLeaves
<1>6. CASE FieldsEnd
  <2>1. CASE rop.pc = "trailer"
    <3>1. par' = [par EXCEPT !.s = "complete"]
      BY <1>6, <2>1, FieldsEndDoes
    <3> QED
      BY <1>2, <3>1 DEF Parsers, Leaves, Begun
  <2>2. CASE rop.pc = "field"
    <3>1. par' = FinishHeader(par).p
      BY <1>6, <2>2, FieldsEndDoes
    <3>2. par.s = "fields" /\ par.skip = 0 /\ "final" \notin par.f /\ "expect_crlf" \notin par.f
      BY <2>2, FieldParser
    <3>3. FinishHeader(par).p.s \in {"fields", "complete", "body0", "chunk_header0", "body_to_eof0"}
      BY <1>2, <3>2, FinishGives
    <3> QED
      BY <3>1, <3>3 DEF Leaves, Begun
  <2> QED
    BY <1>1, <2>1, <2>2
<1>7. CASE par' = par
  BY <1>3, <1>7 DEF Leaves
<1>8. CASE ~(Len(s) < 2) /\ par' = x.p /\ ParseField(s).r = "field"
  <2>1. s[1].k \in {"field", "length", "chunked"}
    BY <1>8 DEF ParseField
  <2>2. s[1] \in Symbols
    <3>0. Len(s) \in Nat /\ ~(Len(s) < 2)
      <4>1. ~(Len(s) < 2)
        BY <1>8
      <4>2. Len(s) \in Nat
        BY <1>1, FieldInputIs
      <4> HIDE DEF s
      <4> QED
        BY <4>1, <4>2
    <3>1. s \in Seq(Symbols) /\ 1 \in 1 .. Len(s)
      <4> HIDE DEF s
      <4> QED
        BY <1>2, <3>0 DEF Cuts
    <3> QED
      BY <3>1, ElementOfSeq
  <2>3. x.p.s = par.s
    BY <1>2, <2>1, <2>2, DoFieldGives
  <2> QED
    BY <1>3, <1>8, <2>3 DEF Leaves
<1> QED
  BY <1>4, <1>5, <1>6, <1>7, <1>8

LEMMA BodyLeaves ==
  ASSUME par \in Parsers, PutBody
  PROVE  Leaves
<1> DEFINE a == Accept(SubSeq(Rest, 1, Least(par.len, Len(Rest))))
           left == par.len - a.n
           room == Room(a)
           to == IF a.ec = "" /\ left = 0 THEN "complete" ELSE "body"
<1>1. par' = [par EXCEPT !.len = left, !.room = room, !.s = to]
  BY DEF PutBody
<1>2. to \notin Begun
  BY DEF Begun
<1> HIDE DEF left, room, to
<1> QED
  BY <1>1, <1>2 DEF Parsers, Leaves, Begun

LEMMA ToEofLeaves ==
  ASSUME par \in Parsers, PutBodyToEof
  PROVE  Leaves
<1> DEFINE limit == par.limit - Len(Rest)
           room == Room(Accept(Rest))
<1>1. \/ par' = [par EXCEPT !.s = "body_to_eof"]
      \/ par' = [par EXCEPT !.s = "body_to_eof", !.limit = limit, !.room = room]
  BY DEF PutBodyToEof
<1> HIDE DEF limit, room
<1> QED
  BY <1>1 DEF Parsers, Leaves, Begun

LEMMA ChunkBodyLeaves ==
  ASSUME par \in Parsers, PutChunkBody
  PROVE  Leaves
<1> DEFINE a == Accept(SubSeq(Rest, 1, Least(par.len, Len(Rest))))
           left == par.len - a.n
           room == Room(a)
           to == IF par.len = a.n THEN "chunk_header" ELSE par.s
<1>1. par' = [par EXCEPT !.len = @ - a.n, !.room = room, !.s = IF par.len = a.n THEN "chunk_header" ELSE @]
      /\ par.s = "chunk_body"
  BY DEF PutChunkBody
<1>2. to \notin Begun
  BY <1>1 DEF Begun
<1> HIDE DEF a, room
<1>3. par' = [par EXCEPT !.len = left, !.room = room, !.s = to]
  BY <1>1
<1> HIDE DEF left, to
<1> QED
  BY <1>2, <1>3 DEF Parsers, Leaves, Begun

LEMMA LastLeaves ==
  ASSUME NEW rest, NEW p \in Parsers, NEW q, NEW eol, LastChunkHeader(rest, p, q, eol), p.s = "chunk_header"
  PROVE  Leaves
<1> DEFINE n == Len(rest) - 3
<1>1. par' = p \/ par' = [p EXCEPT !.skip = n]
  BY LastChunkHeaderDoes
<1> HIDE DEF n
<1> QED
  BY <1>1 DEF Parsers, Leaves, Begun

LEMMA ChunkHeaderLeaves ==
  ASSUME par \in Parsers, PutChunkHeader
  PROVE  Leaves
<1> DEFINE now == [par EXCEPT !.s = "chunk_header"]
           x == FindEol(Rest, par.skip)
<1>1. \/ HeaderFails(now) \/ HeaderWaits(now, x)
      \/ HeaderEnds(now, Start(par), x) \/ HeaderOpens(now, Start(par), x)
  BY PutChunkHeaderDoes
<1>2. now \in Parsers /\ now.s = "chunk_header"
  BY DEF Parsers, ParserStates
<1> HIDE DEF now, x
<1>3. CASE HeaderFails(now)
  BY <1>2, <1>3 DEF HeaderFails, Leaves, Begun
<1>4. CASE HeaderWaits(now, x)
  <2> DEFINE n == Len(Rest) - 1
  <2>1. par' = [now EXCEPT !.skip = n]
    BY <1>4 DEF HeaderWaits
  <2> HIDE DEF n
  <2> QED
    BY <1>2, <2>1 DEF Parsers, Leaves, Begun
<1>5. CASE HeaderEnds(now, Start(par), x)
  <2> DEFINE p == [now EXCEPT !.f = @ \cup {"final"}, !.skip = x.at - 2]
             d == x.at - 2
  <2>1. LastChunkHeader(Rest, p, Start(par), x.at)
    BY <1>5 DEF HeaderEnds
  <2>2. p.s = "chunk_header"
    <3> HIDE DEF d
    <3>1. p = [now EXCEPT !.f = @ \cup {"final"}, !.skip = d]
      BY DEF d
    <3> HIDE DEF p
    <3> QED
      BY <1>2, <3>1 DEF Parsers
  <2>3. par' = p \/ par' = [p EXCEPT !.skip = Len(Rest) - 3]
    BY <2>1, LastChunkHeaderDoes
  <2> QED
    <3> DEFINE n == Len(Rest) - 3
               f == now.f \cup {"final"}
    <3>1. par' = [now EXCEPT !.f = f, !.skip = d] \/ par' = [now EXCEPT !.f = f, !.skip = n]
      BY <1>2, <2>3 DEF Parsers
    <3> HIDE DEF p, n, d, f
    <3> QED
      BY <1>2, <3>1 DEF Parsers, Leaves, Begun
<1>6. CASE HeaderOpens(now, Start(par), x)
  <2> DEFINE l == Rest[Start(par) + 1].n
             m == now.limit - l
             f == now.f \cup {"expect_crlf"}
  <2>1. par' = [now EXCEPT !.s = "chunk_body", !.len = l, !.skip = 2, !.limit = @ - l, !.f = @ \cup {"expect_crlf"}]
    BY <1>6 DEF HeaderOpens
  <2> HIDE DEF l
  <2>2. par' = [now EXCEPT !.s = "chunk_body", !.len = l, !.skip = 2, !.limit = m, !.f = f]
    BY <2>1
  <2> HIDE DEF m, f
  <2> QED
    BY <1>2, <2>2 DEF Parsers, Leaves, Begun
<1> QED
  BY <1>1, <1>3, <1>4, <1>5, <1>6

LEMMA PutLeaves ==
  ASSUME ReaderInv, SenderTypes, Put, ~PutStartLine
  PROVE  Leaves
<1>1. par \in Parsers
  BY DEF ReaderInv, Parses
<1>2. CASE PutFields
  <2> DEFINE n == MaybeNeedMore(par, Rest).skip
  <2>1. par' = [par EXCEPT !.skip = n] /\ par.s = "fields"
    BY <1>2 DEF PutFields
  <2> HIDE DEF n
  <2> QED
    BY <1>1, <2>1 DEF Parsers, Leaves, Begun
<1>3. CASE PutLastChunk
  <2>1. par.s = "chunk_header" /\ LastChunkHeader(Rest, par, Start(par), FindEol(Rest, Start(par) + 1).at)
    BY <1>3, PutLastChunkDoes
  <2> QED
    BY <1>1, <2>1, LastLeaves
<1> QED
  BY <1>1, <1>2, <1>3, FieldLeaves, BodyLeaves, ToEofLeaves, ChunkBodyLeaves, ChunkHeaderLeaves DEF Put

LEMMA StartLineStarts ==
  ASSUME ReadInv, PutStartLine
  PROVE  Started'
<1>1. /\ rop.pc = "put" /\ rop \in ReadOps /\ par \in Parsers /\ rop.p < Len(buf) /\ buf' = buf
  BY ReaderIs DEF PutStartLine, ReadInv, ReadOpInv
<1> DEFINE m == MaybeNeedMore(par, Rest)
           n == Len(Rest)
           late == IF n >= HeaderLimit THEN "header_limit" ELSE "need_more"
           now == [par EXCEPT !.s = "start_line", !.skip = m.skip]
           b == Rest[1].n = 1
<1>2. \/ Return(rop.p, m.ec) \/ Return(rop.p, "bad_start_line") \/ Return(rop.p, late)
      \/ par' = [now EXCEPT !.s = "fields", !.bodiless = b]
  BY Zenon DEF PutStartLine
<1>3. ASSUME NEW e, Return(rop.p, e) PROVE Started'
  <2>1. rop' = [rop EXCEPT !.pc = "ret", !.p = rop.p, !.ec = e]
    BY <1>3 DEF Return
  <2>2. rop'.p = rop.p
    BY <1>1, <2>1 DEF ReadOps
  <2> QED
    BY <1>1, <2>2 DEF Started
<1>4. CASE par' = [now EXCEPT !.s = "fields", !.bodiless = b]
  <2> DEFINE k == m.skip
  <2>1. par' = [[par EXCEPT !.s = "start_line", !.skip = k] EXCEPT !.s = "fields", !.bodiless = b]
    BY <1>4
  <2> HIDE DEF k, b, now, late
  <2>2. par'.s = "fields"
    BY <1>1, <2>1 DEF Parsers
  <2> QED
    BY <2>2 DEF Started
<1> HIDE DEF m, late, now, b
<1> QED
  BY <1>2, <1>3, <1>4

LEMMA LeftOver ==
  ASSUME NEW n \in Nat, NEW p \in Nat, p < n
  PROVE  0 < n - p
  OBVIOUS

LEMMA ReturnedStarts ==
  ASSUME ReadInv, Started, PutReturned
  PROVE  Started'
<1>1. par' = par /\ buf' = SubSeq(buf, rop.p + 1, Len(buf))
  BY DEF PutReturned
<1>2. rop \in ReadOps /\ rop.p \in Nat /\ Len(buf) \in Nat /\ SenderTypes
  BY ReaderIs
<1>3. rop'.p = 0
  <2> DEFINE pc == CASE rop.ec = "need_more" -> "read"
                     [] rop.ec # "need_more" /\ Complete(par, rop.ec, rop.until) -> "told"
                     [] OTHER -> "some"
  <2>1. rop' = [rop EXCEPT !.p = 0, !.pc = pc]
    BY DEF PutReturned
  <2> HIDE DEF pc
  <2> QED
    BY <1>2, <2>1 DEF ReadOps
<1>4. Len(buf') = Len(buf) - rop.p
  <2>1. Len(Rest) = Len(buf) - rop.p
    BY <1>2, RestIs DEF ReadInv
  <2> QED
    BY <1>1, <2>1 DEF Rest
<1>5. par'.s = "start_line" => 0 < Len(buf) - rop.p
  BY <1>1, <1>2, LeftOver DEF Started
<1> QED
  BY <1>3, <1>4, <1>5 DEF Started

\* While an operation begins, waits or ends, nothing of the buffer is parsed
LEMMA RestStarts ==
  ASSUME ReadInv, Started, rop.p = 0, rop'.p = 0, Len(buf) <= Len(buf'), Len(buf') \in Nat,
         par'.s = par.s \/ par'.s # "start_line"
  PROVE  Started'
<1>1. Len(buf) \in Nat
  BY ReaderIs
<1>2. par'.s = "start_line" => 0 < Len(buf)
  BY DEF Started
<1>3. par'.s = "start_line" => 0 < Len(buf')
  BY <1>1, <1>2
<1> QED
  BY <1>3 DEF Started

LEMMA Grows ==
  ASSUME ReadInv, WireDelivers
  PROVE  Len(buf) <= Len(buf') /\ Len(buf') \in Nat
<1>1. Len(buf) \in Nat /\ Len(wire) \in Nat /\ buf \in Texts /\ wire \in Texts
  BY ReaderIs
<1>2. PICK n \in 1 .. Least(MaxBuffer - Len(buf), Len(wire)) : ReadArrives(SubSeq(wire, 1, n))
  BY DEF WireDelivers
<1>3. n \in 1 .. Len(wire)
  <2>1. MaxBuffer \in Nat
    BY ConstantsAssumption DEF ConstantsAssumption
  <2> QED
    BY <1>1, <1>2, <2>1 DEF Least
<1> DEFINE d == SubSeq(wire, 1, n)
<1>4. d \in Seq(Symbols) /\ Len(d) \in Nat
  <2>1. \A i \in 1 .. n : i \in 1 .. Len(wire)
    BY <1>1, <1>3
  <2>2. \A i \in 1 .. n : wire[i] \in Symbols
    BY <1>1, <2>1, ElementOfSeq DEF Texts
  <2>3. d \in Seq(Symbols)
    BY <1>1, <1>3, <2>2, SubSeqProperties DEF Texts
  <2> HIDE DEF d
  <2> QED
    BY <2>3, LenProperties
<1>5. buf' = buf \o d
  BY <1>2, ReadArrivesDoes
<1> HIDE DEF d
<1>6. Len(buf') = Len(buf) + Len(d)
  BY <1>1, <1>4, <1>5, ConcatProperties DEF Texts
<1> QED
  BY <1>1, <1>4, <1>6

LEMMA StartedKeeps ==
  ASSUME ReadInv, Started, ReaderInv', SenderTypes', [Next]_vars
  PROVE  Started'
<1>1. rop \in ReadOps /\ par \in Parsers /\ SenderTypes /\ Len(buf) \in Nat
  BY ReaderIs
<1>2. /\ rop.pc \in {"idle", "some", "read", "told"} => rop.p = 0
      /\ rop'.pc \in {"idle", "some", "read", "told"} => rop'.p = 0
  BY DEF ReadInv, ReaderInv, Reads
<1>3. buf' = buf => Len(buf) <= Len(buf') /\ Len(buf') \in Nat
  BY <1>1
<1>4. CASE UNCHANGED <<buf, par, rop>>
  BY <1>4 DEF Started
<1>5. CASE StartRead
  <2>1. rop.pc = "idle" /\ buf' = buf /\ par' = par
    BY <1>5 DEF StartRead
  <2>2. rop'.p = 0
    <3> DEFINE until == CASE how.mode = "header" /\ ~HeaderDone(par) -> "header"
                          [] how.mode = "some" -> "some"
                          [] OTHER -> "done"
               eager == until = "done"
    <3>1. rop' = [IdleRead EXCEPT !.pc = "some", !.until = until, !.eager = eager]
      BY <1>5 DEF StartRead
    <3> HIDE DEF until, eager
    <3> QED
      BY <3>1 DEF IdleRead
  <2> QED
    BY <1>2, <1>3, <2>1, <2>2, RestStarts
<1>6. CASE ReadSome
  <2>1. rop.pc = "some" /\ buf' = buf /\ par' = par
        /\ rop' = [rop EXCEPT !.pc = IF buf = <<>> THEN "read" ELSE "put", !.p = 0]
    BY <1>6, ReadSomeDoes
  <2>2. rop'.p = 0
    BY <1>1, <2>1 DEF ReadOps
  <2> QED
    BY <1>2, <1>3, <2>1, <2>2, RestStarts
<1>7. CASE Put
  <2>1. CASE PutStartLine
    BY <2>1, StartLineStarts
  <2>2. CASE ~PutStartLine
    <3>1. Leaves
      BY <1>1, <1>7, <2>2, PutLeaves DEF ReadInv
    <3> QED
      BY <3>1 DEF Leaves, Begun, Started
  <2> QED
    BY <2>1, <2>2
<1>8. CASE PutReturned
  BY <1>8, ReturnedStarts
<1>9. CASE ReadOverflows
  <2>1. rop.pc = "read" /\ buf' = buf /\ par' = par
        /\ rop' = [rop EXCEPT !.pc = "told", !.ec = "buffer_overflow"]
    BY <1>9 DEF ReadOverflows
  <2>2. rop'.p = rop.p
    BY <1>1, <2>1 DEF ReadOps
  <2> QED
    BY <1>2, <1>3, <2>1, <2>2, RestStarts
<1>10. CASE ReadTold
  <2>1. rop.pc = "told" /\ rop' = IdleRead /\ buf' = buf
        /\ (par' = par \/ par' = [par EXCEPT !.room = Window])
    BY <1>10 DEF ReadTold
  <2>2. rop'.p = 0 /\ par'.s = par.s
    BY <1>1, <2>1 DEF IdleRead, Parsers
  <2> QED
    BY <1>2, <1>3, <2>1, <2>2, RestStarts
<1>11. CASE NextRead
  <2>1. par' = NewParser
    BY <1>11 DEF NextRead
  <2> QED
    BY <2>1 DEF Started, NewParser
<1>12. CASE WireDelivers
  <2>1. PICK n : ReadArrives(SubSeq(wire, 1, n))
    BY <1>12 DEF WireDelivers
  <2>2. rop.pc = "read" /\ par' = par /\ rop' = [rop EXCEPT !.pc = "put", !.ec = ""]
    BY <2>1, ReadArrivesDoes
  <2>3. rop'.p = rop.p
    BY <1>1, <2>2 DEF ReadOps
  <2>4. Len(buf) <= Len(buf') /\ Len(buf') \in Nat
    BY <1>12, Grows DEF ReadInv
  <2> QED
    BY <1>2, <2>2, <2>3, <2>4, RestStarts
<1>13. CASE WireEnds
  <2>1. /\ rop.pc = "read" /\ buf' = buf
        /\ \/ par' = par
           \/ PutEof(par).ec = "" /\ par' = PutEof(par).p /\ par.s # "nothing_yet"
        /\ \E e : rop' = [rop EXCEPT !.pc = "told", !.ec = e]
    BY <1>1, <1>13, ReadEofIs DEF WireEnds
  <2>2. rop'.p = rop.p
    BY <1>1, <2>1 DEF ReadOps
  <2>3. par'.s = par.s \/ par'.s # "start_line"
    <3>1. CASE par' = par
      BY <3>1
    <3>2. CASE PutEof(par).ec = "" /\ par' = PutEof(par).p /\ par.s # "nothing_yet"
      <4>1. par.s # "complete"
        BY <2>1 DEF ReadInv, ReaderInv, Reads
      <4>2. par' = [par EXCEPT !.s = "complete"]
        BY <1>1, <3>2, <4>1, EofSays
      <4> QED
        BY <1>1, <4>2 DEF Parsers
    <3> QED
      BY <2>1, <3>1, <3>2
  <2> QED
    BY <1>2, <1>3, <2>1, <2>2, <2>3, RestStarts
<1>14. UNCHANGED parVars => UNCHANGED <<buf, par, rop>>
  BY DEF parVars
<1>15. UNCHANGED vars => UNCHANGED <<buf, par, rop>>
  BY DEF vars, parVars
<1> QED
  BY <1>4, <1>5, <1>6, <1>7, <1>8, <1>9, <1>10, <1>11, <1>12, <1>13, <1>14, <1>15 DEF Next, ParStep

LEMMA ReadStarts == FitScripts /\ Init => ReadInv /\ Started
<1> SUFFICES ASSUME FitScripts, Init PROVE ReadInv /\ Started
  OBVIOUS
<1>1. SendInv /\ ReaderInv
  BY SendStarts, AssertionsStart DEF Assertions
<1>2. /\ buf = <<>> /\ wire = <<>> /\ par = NewParser /\ rop = IdleRead /\ body = <<>> /\ taken = 0
      /\ received = <<>> /\ at = 1 /\ wop = IdleOp /\ wrote = 0
  BY DEF Init, SerInit, ParInit
<1>3. script \in Seq(Messages) /\ script # <<>>
  BY ConstantsAssumption DEF ConstantsAssumption, Init
<1>4. Len(script) \in Nat /\ 1 \in 1 .. Len(script)
  BY <1>3, EmptySeq, LenProperties
<1>5. Len(<<>>) = 0 /\ <<>> \in Texts /\ <<>> \in Seq(Reports)
  BY EmptySeq DEF Texts
<1>6. rop.pc = "idle" /\ rop.ec = "" /\ rop.p = 0 /\ wop.n = 0
  BY <1>2 DEF IdleRead, IdleOp
<1>7. ~Stopped /\ ~Done(par) /\ par.s = "nothing_yet"
  BY <1>2 DEF Stopped, Done, NewParser
<1>8. Len(received) = 0
  BY <1>2, <1>5
<1>9. Reading = 1
  <2>1. 0 + 1 = 1
    OBVIOUS
  <2> QED
    BY <1>7, <1>8, <2>1 DEF Reading
<1>10. MessageEnd(0) = 0 /\ Was \in Messages
  BY <1>3, <1>4, <1>9, MessagesEnd DEF Was
<1>11. Taken = 0 /\ Written = 0 /\ Got = 0
  <2>1. 1 - 1 = 0 /\ 0 + 0 = 0
    OBVIOUS
  <2>2. Taken = 0
    BY <1>2, <1>9, <1>10, <2>1 DEF Taken
  <2>3. Written = 0
    BY <1>2, <1>6, <1>10, <2>1 DEF Written, Sent
  <2> QED
    BY <1>2, <1>6, <2>1, <2>2, <2>3 DEF Got
<1>12. ScriptInv
  BY <1>2, <1>4, <1>9 DEF ScriptInv
<1>13. WireInv
  <2>1. 0 + 0 + 0 = 0 /\ 1 .. 0 = {}
    OBVIOUS
  <2> QED
    BY <1>2, <1>5, <1>11, <2>1 DEF WireInv
<1>14. ReadOpInv
  BY <1>2, <1>5, <1>6, <1>7 DEF ReadOpInv, Errors
<1>15. UnderstoodInv
  <2>1. ParserAt(NewParser, Was, 0, 0) /\ NewParser.s \notin EofStates \cup {"complete"}
    BY NewMeets
  <2> QED
    BY <1>2, <1>5, <1>6, <1>11, <2>1 DEF UnderstoodInv
<1>16. AtEndInv
  BY <1>2 DEF AtEndInv
<1>17. BodyInv
  <2>1. Total(Was) \in Nat
    <3>1. Len(Was.sizes) \in 0 .. Len(Was.sizes)
      BY <1>10, EndsAre
    <3> QED
      BY <1>10, <3>1, EndsAre
  <2>2. 1 .. 0 = {}
    OBVIOUS
  <2> QED
    BY <1>2, <1>5, <2>1, <2>2 DEF BodyInv
<1>18. RefusalInv
  BY <1>6 DEF RefusalInv
<1>19. Started
  BY <1>7 DEF Started
<1> QED
  BY <1>1, <1>12, <1>13, <1>14, <1>15, <1>16, <1>17, <1>18, <1>19 DEF ReadInv

\* A step in which nothing moves
LEMMA StutterReads ==
  ASSUME ReadInv, SendInv', ReaderInv', UNCHANGED vars
  PROVE  ReadInv'
<1>1. /\ UNCHANGED <<script, at, mode, ser, wop, wrote, wire, closed>>
      /\ UNCHANGED <<buf, par, rop, how, body, taken, received>>
  BY DEF vars, serVars, parVars
<1>2. Stopped' = Stopped /\ Reading' = Reading /\ Got' = Got
  BY <1>1 DEF Stopped, Reading, Got
<1>3. Was' = Was /\ ScriptInv' /\ WireInv' /\ BodyInv'
  BY <1>1, <1>2, Stays
<1>4. ReadOpInv'
  BY <1>1, <1>2 DEF ReadInv, ReadOpInv, Errors
<1>5. UnderstoodInv'
  <2> SUFFICES ASSUME Fine, Reading <= Len(script) PROVE UnderstoodInv'
    BY <1>1, <1>2 DEF UnderstoodInv, Fine
  <2>1. UnderstoodInv
    BY DEF ReadInv
  <2>2. ParserAt(par, Was, Got, Len(body))'
    <3>1. ParserAt(par', Was', Got', Len(body'))
      BY <1>1, <1>2, <1>3, <2>1 DEF UnderstoodInv
    <3> QED
      BY <3>1 DEF ParserAt, InHeader, InBody, InChunks, AtTheEnd, NeedEof, HeaderEnd, Folds, Total, Flags,
                  PieceEnd, Before, Size, BodyEnd, TailLen
  <2>3. Rest' = Rest
    BY <1>1 DEF Rest
  <2>4. Needs(par, Was, Got)' = Needs(par, Was, Got)
    BY <1>1, <1>2, <1>3 DEF Needs, HeaderEnd, Folds, TailLen
  <2>5. TailLen(Was)' = TailLen(Was)
    BY <1>3 DEF TailLen
  <2> QED
    BY <1>1, <1>2, <1>3, <2>1, <2>2, <2>3, <2>4, <2>5 DEF UnderstoodInv, NeedEof
<1>6. AtEndInv'
  BY <1>1, <1>2 DEF ReadInv, AtEndInv
<1>7. RefusalInv'
  <2>1. HeaderEnd(Was)' = HeaderEnd(Was) /\ TailLen(Was)' = TailLen(Was) /\ Total(Was)' = Total(Was)
    BY <1>3 DEF HeaderEnd, Folds, TailLen, Total, Before
  <2> QED
    BY <1>1, <1>2, <1>3, <2>1 DEF ReadInv, RefusalInv, NeedEof
<1> QED
  BY <1>3, <1>4, <1>5, <1>6, <1>7 DEF ReadInv

LEMMA ReadKeeps == FitScripts /\ ReadInv /\ Started /\ [Next]_vars => ReadInv' /\ Started'
<1> SUFFICES ASSUME FitScripts, ReadInv, Started, [Next]_vars PROVE ReadInv' /\ Started'
  OBVIOUS
<1>1. SendInv' /\ SenderTypes'
  <2>1. SendInv'
    BY SendKeeps DEF ReadInv
  <2> QED
    BY <2>1 DEF SendInv, SenderInv
<1>2. ReaderInv'
  BY ReaderIs, ReaderKeeps DEF ReadInv
<1>3. Started'
  BY <1>1, <1>2, StartedKeeps
<1>4. CASE Sender /\ UNCHANGED parVars
  BY <1>1, <1>2, <1>3, <1>4, SenderReads
<1>5. CASE StartRead /\ UNCHANGED serVars
  BY <1>1, <1>2, <1>3, <1>5, StartReadReads
<1>6. CASE ReadSome /\ UNCHANGED serVars
  BY <1>1, <1>2, <1>3, <1>6, ReadSomeReads
<1>7. CASE Put /\ UNCHANGED serVars
  BY <1>1, <1>2, <1>3, <1>7, PutReads
<1>8. CASE PutReturned /\ UNCHANGED serVars
  BY <1>1, <1>2, <1>3, <1>8, PutReturnedReads
<1>9. CASE ReadOverflows /\ UNCHANGED serVars
  BY <1>1, <1>2, <1>3, <1>9, ReadOverflowsReads
<1>10. CASE ReadTold /\ UNCHANGED serVars
  BY <1>1, <1>2, <1>3, <1>10, ReadToldReads
<1>11. CASE NextRead /\ UNCHANGED serVars
  BY <1>1, <1>2, <1>3, <1>11, NextReadReads
<1>12. CASE WireDelivers
  BY <1>1, <1>2, <1>3, <1>12, WireDeliversReads
<1>13. CASE WireEnds
  BY <1>1, <1>2, <1>3, <1>13, WireEndsReads
<1>14. CASE UNCHANGED vars
  BY <1>1, <1>2, <1>3, <1>14, StutterReads
<1> QED
  BY <1>3, <1>4, <1>5, <1>6, <1>7, <1>8, <1>9, <1>10, <1>11, <1>12, <1>13, <1>14 DEF Next, ParStep

-----------------------------------------------------------------------------
(* What follows *)

LEMMA AllOfIt ==
  ASSUME NEW c \in Nat, NEW a, NEW x, NEW y, NEW k \in Nat, NEW s \in Nat, a = c + k, x = 0, y = 0, a + x + y = c + s
  PROVE  k = s
  OBVIOUS

LEMMA ReadIsWritten ==
  ASSUME ReadInv
  PROVE  BytesAgree
<1> SUFFICES ASSUME ser.s = "complete", wop.pc = "idle", Done(par), rop.pc = "idle", ~Stopped,
                    Len(received) = at
             PROVE  wrote = taken
  BY DEF BytesAgree
<1>1. /\ SenderTypes /\ script \in Seq(Messages) /\ Len(script) \in Nat /\ at \in 1 .. Len(script)
      /\ taken \in Nat /\ wrote \in Nat
  BY ReaderIs, SentIs DEF ReadInv, OpInv
<1>2. Reading = at
  BY DEF Reading
<1>3. Was = Msg /\ Reading <= Len(script)
  BY <1>1, <1>2 DEF Was, Msg
<1>4. Sent = Size(Msg) /\ Sent \in Nat
  BY SentBound DEF ReadInv
<1>5. wrote = Sent
  <2>1. wop.n = 0
    <3>1. wop = IdleOp
      BY <1>1 DEF SenderTypes
    <3> QED
      BY <3>1 DEF IdleOp
  <2> QED
    BY <1>1, <2>1, Nought DEF Sent
<1>6. Fine /\ Got = taken
  BY BetweenIs
<1>7. AtTheEnd(par, Was, taken, Len(body)) /\ par.s = "complete"
  BY <1>3, <1>6 DEF ReadInv, UnderstoodInv, ParserAt, Done
<1>8. CASE NeedEof(Was, IsRequest)
  <2>1. wire = <<>> /\ buf = <<>>
    BY <1>3, <1>6, <1>7, <1>8 DEF ReadInv, UnderstoodInv
  <2>2. Len(buf) = 0 /\ Len(wire) = 0
    BY <2>1
  <2>3. Taken + Len(buf) + Len(wire) = MessageEnd(at - 1) + Sent
    BY DEF ReadInv, WireInv, Written
  <2>4. MessageEnd(at - 1) \in Nat /\ Taken = MessageEnd(at - 1) + taken
    BY <1>2, WrittenIs DEF Taken
  <2> QED
    BY <1>1, <1>4, <1>5, <2>2, <2>3, <2>4, AllOfIt
<1>9. CASE ~NeedEof(Was, IsRequest)
  BY <1>3, <1>4, <1>5, <1>7, <1>9 DEF AtTheEnd
<1> QED
  BY <1>8, <1>9

LEMMA AllHere ==
  ASSUME NEW c \in Nat, NEW k \in Nat, NEW x \in Nat, NEW y, NEW a, NEW s \in Nat, NEW n \in Nat,
         a = c + k, y = 0, a + x + y = c + s, k + n <= s
  PROVE  ~(x < n)
  OBVIOUS

LEMMA WaitsForMore ==
  ASSUME ReadInv
  PROVE  NothingToWaitFor
<1> SUFFICES ASSUME rop.pc = "read", ser.s = "complete", wire = <<>>, Len(received) + 1 = at,
                    ~NeedEof(Msg, IsRequest)
             PROVE  FALSE
  BY DEF NothingToWaitFor
<1>1. /\ SenderTypes /\ script \in Seq(Messages) /\ Len(script) \in Nat /\ at \in 1 .. Len(script)
      /\ taken \in Nat /\ Len(buf) \in Nat /\ Len(body) \in Nat /\ par \in Parsers
  BY ReaderIs
<1>2. Reading = at
  BY DEF Reading
<1>3. Was = Msg /\ Reading <= Len(script) /\ Was \in Messages
  BY <1>1, <1>2, MsgType DEF Was, Msg
<1>4. Sent = Size(Was) /\ Size(Was) \in Nat
  BY <1>3, SentBound DEF ReadInv
<1>5. ~Stopped /\ par.s # "complete"
  BY DEF ReadInv, ReadOpInv, ReaderInv, Reads
<1>6. Fine /\ Got = taken /\ rop.p = 0
  BY <1>5, BetweenIs
<1>7. ParserAt(par, Was, taken, Len(body)) /\ Len(Rest) < Needs(par, Was, taken)
  BY <1>3, <1>6 DEF ReadInv, UnderstoodInv
<1>8. par.s \notin EofStates
  BY <1>3, <1>7 DEF ParserAt, InBody, EofStates, BodyStates
<1>9. Needs(par, Was, taken) \in Nat /\ taken + Needs(par, Was, taken) <= Size(Was)
  BY <1>1, <1>3, <1>5, <1>7, <1>8, NeedsBound
<1>10. Len(Rest) = Len(buf)
  <2>1. Len(Rest) = Len(buf) - rop.p
    BY <1>1, RestIs DEF ReadInv
  <2>2. Len(buf) - 0 = Len(buf)
    BY <1>1, Less0
  <2> QED
    BY <1>6, <2>1, <2>2
<1>11. Len(wire) = 0
  OBVIOUS
<1>12. Taken + Len(buf) + Len(wire) = MessageEnd(at - 1) + Size(Was)
  BY <1>4 DEF ReadInv, WireInv, Written
<1>13. MessageEnd(at - 1) \in Nat /\ Taken = MessageEnd(at - 1) + taken
  BY <1>2, WrittenIs DEF Taken
<1>14. ~(Len(buf) < Needs(par, Was, taken))
  BY <1>1, <1>4, <1>9, <1>11, <1>12, <1>13, AllHere
<1> QED
  BY <1>7, <1>10, <1>14

\* If the header of every message tells what its body is, and no header is written in
\* pieces, the reader has at every moment what was sent and has understood what it has
\* read.
THEOREM DeliveryIsRight == ASSUME FitScripts PROVE Spec => [](ReadInv /\ Started)
<1>1. Init => ReadInv /\ Started
  BY ReadStarts
<1>2. (ReadInv /\ Started) /\ [Next]_vars => (ReadInv /\ Started)'
  BY ReadKeeps
<1> QED
  BY <1>1, <1>2, PTL DEF Spec

THEOREM BytesAreAgreed == ASSUME FitScripts PROVE Spec => []BytesAgree
<1>1. ReadInv => BytesAgree
  BY ReadIsWritten
<1> QED
  BY <1>1, DeliveryIsRight, PTL

THEOREM NothingIsWaitedFor == ASSUME FitScripts PROVE Spec => []NothingToWaitFor
<1>1. ReadInv => NothingToWaitFor
  BY WaitsForMore
<1> QED
  BY <1>1, DeliveryIsRight, PTL

\* put never says that the stream has ended
Says == rop'.ec # "end_of_stream"

LEMMA ReturnSays ==
  ASSUME rop \in ReadOps, NEW p, NEW e, Return(p, e), e # "end_of_stream"
  PROVE  Says
<1>1. rop' = [rop EXCEPT !.pc = "ret", !.p = p, !.ec = e]
  BY DEF Return
<1> QED
  BY <1>1 DEF ReadOps, Says

LEMMA BreakSays ==
  ASSUME rop \in ReadOps, NEW p, NEW q, Break(p, q)
  PROVE  Says
<1> DEFINE pc == IF p < Len(buf) /\ ~Done(q) /\ rop.eager THEN "put" ELSE "ret"
<1>1. rop' = [rop EXCEPT !.p = p, !.ec = "", !.pc = pc]
  BY DEF Break
<1> HIDE DEF pc
<1> QED
  BY <1>1 DEF ReadOps, Says

LEMMA NeedMoreSays ==
  ASSUME rop \in ReadOps, FieldsNeedMore
  PROVE  Says
<1>1. \/ Return(rop.p, "need_more") \/ Return(rop.q, "header_limit") \/ Return(rop.q, "need_more")
  BY DEF FieldsNeedMore
<1> QED
  BY <1>1, ReturnSays

LEMMA FieldSays ==
  ASSUME ReaderInv, SenderTypes, Field, rop \in ReadOps, rop.ec # "end_of_stream"
  PROVE  Says
<1> DEFINE s == FieldInput
           x == DoField(par, s[1])
<1>1. rop.pc \in {"field", "trailer"}
  BY FieldDoes
<1>2. par \in Parsers /\ s \in Cuts
  BY <1>1, FieldInputIs
<1>3. \/ FieldsNeedMore
      \/ FieldsEnd
      \/ Return(Behind(rop.q + 2), "bad_line_ending") \/ Return(Behind(rop.q), "bad_field")
      \/ /\ ~(Len(s) < 2) /\ ParseField(s).r = "field"
         /\ x.ec # "" => Return(Behind(rop.q), x.ec)
         /\ x.ec = "" => rop' = [rop EXCEPT !.q = @ + ParseField(s).n]
  BY FieldDoes
<1>4. CASE FieldsNeedMore
  BY <1>4, NeedMoreSays
<1>5. CASE FieldsEnd
  <2>1. CASE rop.pc = "trailer"
    BY <1>5, <2>1, FieldsEndDoes, BreakSays
  <2>2. CASE rop.pc = "field"
    <3>1. /\ FinishHeader(par).ec # "" => Return(rop.q + 2, FinishHeader(par).ec)
          /\ FinishHeader(par).ec = "" => Break(rop.q + 2, par')
      BY <1>5, <2>2, FieldsEndDoes
    <3>2. par.s = "fields" /\ par.skip = 0 /\ "final" \notin par.f /\ "expect_crlf" \notin par.f
      BY <2>2, FieldParser
    <3>3. FinishHeader(par).ec \in {"", "body_limit"}
      BY <1>2, <3>2, FinishGives
    <3>4. CASE FinishHeader(par).ec = ""
      BY <3>1, <3>4, BreakSays
    <3>5. CASE FinishHeader(par).ec = "body_limit"
      <4>1. Return(rop.q + 2, "body_limit")
        BY <3>1, <3>5
      <4> QED
        BY <4>1, ReturnSays
    <3> QED
      BY <3>3, <3>4, <3>5
  <2> QED
    BY <1>1, <2>1, <2>2
<1>6. CASE Return(Behind(rop.q + 2), "bad_line_ending") \/ Return(Behind(rop.q), "bad_field")
  BY <1>6, ReturnSays
<1>7. CASE /\ ~(Len(s) < 2) /\ ParseField(s).r = "field"
           /\ x.ec # "" => Return(Behind(rop.q), x.ec)
           /\ x.ec = "" => rop' = [rop EXCEPT !.q = @ + ParseField(s).n]
  <2>1. s[1].k \in {"field", "length", "chunked"}
    BY <1>7 DEF ParseField
  <2>2. s[1] \in Symbols
    <3>0. Len(s) \in Nat /\ ~(Len(s) < 2)
      <4>1. ~(Len(s) < 2)
        BY <1>7
      <4>2. Len(s) \in Nat
        BY <1>1, FieldInputIs
      <4> HIDE DEF s
      <4> QED
        BY <4>1, <4>2
    <3>1. s \in Seq(Symbols) /\ 1 \in 1 .. Len(s)
      <4> HIDE DEF s
      <4> QED
        BY <1>2, <3>0 DEF Cuts
    <3> QED
      BY <3>1, ElementOfSeq
  <2>3. x.ec \in {"", "bad_content_length", "bad_transfer_encoding"}
    BY <1>2, <2>1, <2>2, DoFieldGives
  <2>4. CASE x.ec # ""
    BY <1>7, <2>3, <2>4, ReturnSays
  <2>5. CASE x.ec = ""
    <3> DEFINE q == rop.q + ParseField(s).n
    <3>1. rop' = [rop EXCEPT !.q = q]
      BY <1>7, <2>5
    <3> HIDE DEF q
    <3> QED
      BY <3>1 DEF ReadOps, Says
  <2> QED
    BY <2>4, <2>5
<1> QED
  BY <1>3, <1>4, <1>5, <1>6, <1>7

LEMMA StartLineSays ==
  ASSUME PutStartLine, rop \in ReadOps, rop.ec # "end_of_stream"
  PROVE  Says
<1> DEFINE m == MaybeNeedMore(par, Rest)
           late == IF Len(Rest) >= HeaderLimit THEN "header_limit" ELSE "need_more"
           p == rop.p + 3
<1>1. \/ Return(rop.p, m.ec) \/ Return(rop.p, "bad_start_line") \/ Return(rop.p, late)
      \/ rop' = [rop EXCEPT !.pc = "ret", !.p = @ + 3, !.ec = "need_more"]
      \/ rop' = [rop EXCEPT !.p = @ + 3]
  BY DEF PutStartLine
<1>2. m.ec \in {"", "need_more", "header_limit"}
  BY DEF MaybeNeedMore
<1>3. late # "end_of_stream" /\ m.ec # "end_of_stream"
  BY <1>2
<1> HIDE DEF m, late, p
<1>4. CASE \/ rop' = [rop EXCEPT !.pc = "ret", !.p = p, !.ec = "need_more"]
           \/ rop' = [rop EXCEPT !.p = p]
  BY <1>4 DEF ReadOps, Says
<1> QED
  BY <1>1, <1>3, <1>4, ReturnSays DEF p

LEMMA AcceptSays ==
  ASSUME NEW s
  PROVE  Accept(s).ec \in {"", "need_buffer"}
  BY DEF Accept

LEMMA BodySays ==
  ASSUME rop \in ReadOps, PutBody \/ PutBodyToEof \/ PutChunkBody
  PROVE  Says
<1>1. \/ Return(rop.p, "body_limit")
      \/ \E s : IF Accept(s).ec # "" THEN Return(rop.p + Accept(s).n, Accept(s).ec)
                ELSE Break(rop.p + Accept(s).n, par')
  BY DEF PutBody, PutBodyToEof, PutChunkBody
<1>2. ASSUME NEW s, IF Accept(s).ec # "" THEN Return(rop.p + Accept(s).n, Accept(s).ec)
                    ELSE Break(rop.p + Accept(s).n, par')
      PROVE  Says
  <2>1. Accept(s).ec # "end_of_stream"
    BY AcceptSays
  <2> QED
    BY <1>2, <2>1, ReturnSays, BreakSays
<1> QED
  BY <1>1, <1>2, ReturnSays

LEMMA LastSays ==
  ASSUME rop \in ReadOps, rop.ec # "end_of_stream", NEW rest, NEW p, NEW q, NEW eol, LastChunkHeader(rest, p, q, eol)
  PROVE  Says
<1> DEFINE eom == FindEom(rest, p.skip)
           a == rop.p + eol
           b == rop.p + eom
<1>1. \/ Return(rop.p, "need_more") \/ Return(rop.p, "bad_chunk_extension")
      \/ rop' = [rop EXCEPT !.pc = "trailer", !.q = a, !.last = b]
  BY LastChunkHeaderDoes
<1> HIDE DEF a, b
<1> QED
  BY <1>1, ReturnSays DEF ReadOps, Says

LEMMA ChunkHeaderSays ==
  ASSUME rop \in ReadOps, rop.ec # "end_of_stream", PutChunkHeader
  PROVE  Says
<1> DEFINE now == [par EXCEPT !.s = "chunk_header"]
           x == FindEol(Rest, par.skip)
<1>1. \/ HeaderFails(now) \/ HeaderWaits(now, x)
      \/ HeaderEnds(now, Start(par), x) \/ HeaderOpens(now, Start(par), x)
  BY PutChunkHeaderDoes
<1> HIDE DEF now, x
<1>2. CASE HeaderFails(now)
  BY <1>2, ReturnSays DEF HeaderFails
<1>3. CASE HeaderWaits(now, x)
  BY <1>3, ReturnSays DEF HeaderWaits
<1>4. CASE HeaderEnds(now, Start(par), x)
  BY <1>4, LastSays DEF HeaderEnds
<1>5. CASE HeaderOpens(now, Start(par), x)
  BY <1>5, BreakSays DEF HeaderOpens
<1> QED
  BY <1>1, <1>2, <1>3, <1>4, <1>5

LEMMA PutSays ==
  ASSUME ReadInv, Put
  PROVE  Says /\ par'.s # "nothing_yet"
<1>1. rop \in ReadOps /\ par \in Parsers /\ SenderTypes /\ ReaderInv /\ ReadOpInv
  BY ReaderIs DEF ReadInv
<1>2. rop.pc \in {"put", "field", "trailer"}
  BY FieldDoes DEF Put, PutStartLine, PutFields, PutBody, PutBodyToEof, PutChunkHeader, PutLastChunk, PutChunkBody
<1>3. rop.ec # "end_of_stream"
  BY <1>1, <1>2 DEF ReadOpInv, Errors
<1>4. CASE PutStartLine
  <2>1. Says
    BY <1>1, <1>3, <1>4, StartLineSays
  <2> DEFINE m == MaybeNeedMore(par, Rest)
             k == m.skip
             now == [par EXCEPT !.s = "start_line", !.skip = k]
             l == IF Len(Rest) < HeaderLimit /\ Len(Rest) >= 3 THEN Len(Rest) - 3 ELSE k
             b == Rest[1].n = 1
  <2>2. now \in [s : {"start_line"}, f : SUBSET {"length", "chunked", "has_body", "need_eof", "final", "expect_crlf"},
                 skip : {k}, len : Int, len0 : Int, limit : Int, bodiless : BOOLEAN, room : Nat]
    <3> HIDE DEF k
    <3> QED
      BY <1>1 DEF Parsers
  <2>3. \/ par' = now
        \/ par' = [now EXCEPT !.skip = IF Len(Rest) < HeaderLimit /\ Len(Rest) >= 3 THEN Len(Rest) - 3 ELSE @]
        \/ par' = [now EXCEPT !.s = "fields", !.bodiless = b]
    BY <1>4 DEF PutStartLine
  <2>4. par' = now \/ par' = [now EXCEPT !.skip = l] \/ par' = [now EXCEPT !.s = "fields", !.bodiless = b]
    <3> HIDE DEF b, k
    <3>1. now.skip = k
      BY <1>1 DEF Parsers
    <3> HIDE DEF now
    <3> QED
      BY <2>2, <2>3, <3>1
  <2> HIDE DEF now, l, b, k
  <2>5. par'.s # "nothing_yet"
    BY <2>2, <2>4
  <2> QED
    BY <2>1, <2>5
<1>5. CASE ~PutStartLine
  <2>1. par'.s # "nothing_yet"
    BY <1>1, <1>5, PutLeaves DEF Leaves, Begun
  <2>2. CASE PutFields
    <3> DEFINE m == MaybeNeedMore(par, Rest)
               p == rop.p
               a == Len(Rest)
               b == rop.p + Least(HeaderLimit, Len(Rest))
    <3>1. Return(rop.p, m.ec) \/ rop' = [rop EXCEPT !.pc = "field", !.n = a, !.q = rop.p, !.last = b]
      BY <2>2 DEF PutFields
    <3>2. m.ec # "end_of_stream"
      BY DEF MaybeNeedMore
    <3> HIDE DEF m, a, b
    <3>3. CASE rop' = [rop EXCEPT !.pc = "field", !.n = a, !.q = rop.p, !.last = b]
      <4>1. rop' = [rop EXCEPT !.pc = "field", !.n = a, !.q = p, !.last = b]
        BY <3>3
      <4> HIDE DEF p
      <4>2. rop'.ec = rop.ec
        BY <1>1, <4>1 DEF ReadOps
      <4> QED
        BY <1>3, <2>1, <4>2 DEF Says
    <3>4. Says
      BY <1>1, <3>1, <3>2, <3>3, ReturnSays
    <3> QED
      BY <2>1, <3>4
  <2>3. CASE Field
    BY <1>1, <1>3, <2>1, <2>3, FieldSays
  <2>4. CASE PutBody \/ PutBodyToEof \/ PutChunkBody
    BY <1>1, <2>1, <2>4, BodySays
  <2>5. CASE PutChunkHeader
    BY <1>1, <1>3, <2>1, <2>5, ChunkHeaderSays
  <2>6. CASE PutLastChunk
    BY <1>1, <1>3, <2>1, <2>6, PutLastChunkDoes, LastSays
  <2> QED
    BY <1>5, <2>2, <2>3, <2>4, <2>5, <2>6 DEF Put
<1> QED
  BY <1>4, <1>5

-----------------------------------------------------------------------------
(* What the application is told *)

\* The header of m, a chunk header and the part behind the last chunk fit where the
\* parser looks for them.  A body up to the end of the stream goes to a reader that
\* takes all that it is shown: the limit counts what is shown to it.
HasRoom(m) ==
  /\ HeaderEnd(m) <= HeaderLimit /\ HeaderEnd(m) <= MaxBuffer
  /\ 2 + TailLen(m) <= MaxBuffer
  /\ NeedEof(m, IsRequest) => Readers \subseteq {"string"}
RoomyScripts == \A s \in Scripts : \A k \in 1 .. Len(s) : HasRoom(s[k])

Seen == par.s # "nothing_yet" => 0 < taken + Len(buf)
AtClose == rop.ec = "end_of_stream" => closed /\ body = <<>> /\ Len(received) \in {at - 1, at}
TellInv ==
  /\ \A k \in 1 .. Len(script) : HasRoom(script[k])
  /\ how.body \in Readers
  /\ Seen
  /\ rop.ec = "body_limit" => par.s # "nothing_yet"
  /\ AtClose

LEMMA SumGrows ==
  ASSUME NEW t \in Nat, NEW n \in Nat, NEW t1 \in Nat, NEW n1 \in Nat,
         \/ t1 = t /\ n <= n1
         \/ \E p \in Nat : t1 = t + p /\ n1 = n - p
  PROVE  0 < t + n => 0 < t1 + n1
  OBVIOUS

LEMMA PutSees ==
  ASSUME ReadInv, Seen, Put
  PROVE  0 < taken + Len(buf) /\ UNCHANGED <<buf, taken>>
<1>1. Len(buf) \in Nat /\ taken \in Nat /\ rop.p \in Nat /\ ReaderInv /\ ReadOpInv
  BY ReaderIs DEF ReadInv
<1>2. rop.pc \in {"put", "field", "trailer"} /\ UNCHANGED <<buf, taken>>
  BY FieldDoes DEF Put, PutStartLine, PutFields, PutBody, PutBodyToEof, PutChunkHeader, PutLastChunk, PutChunkBody
<1>3. CASE rop.pc = "put"
  <2>1. rop.p < Len(buf)
    BY <1>1, <1>3 DEF ReadOpInv
  <2>2. 0 < Len(buf)
    BY <1>1, <2>1
  <2> QED
    BY <1>1, <1>2, <2>2, Something
<1>4. CASE rop.pc \in {"field", "trailer"}
  <2>1. par.s # "nothing_yet"
    BY <1>1, <1>4, FieldParser
  <2> QED
    BY <1>2, <2>1 DEF Seen
<1> QED
  BY <1>2, <1>3, <1>4

LEMMA PartTaken ==
  ASSUME NEW t \in Nat, NEW p \in Nat, NEW n \in Nat, p <= n
  PROVE  t + p \in Nat /\ n - p \in Nat
  OBVIOUS

LEMMA ReturnedIs ==
  ASSUME ReadInv, PutReturned
  PROVE  /\ rop'.ec = rop.ec /\ UNCHANGED <<par, how, body, received>> /\ rop.p \in Nat
         /\ taken' = taken + rop.p /\ Len(buf') = Len(buf) - rop.p /\ taken' \in Nat /\ Len(buf') \in Nat
<1>1. UNCHANGED <<par, how, body, received>> /\ taken' = taken + rop.p /\ buf' = SubSeq(buf, rop.p + 1, Len(buf))
  BY DEF PutReturned, TakenAfter
<1>2. /\ rop \in ReadOps /\ rop.p \in Nat /\ Len(buf) \in Nat /\ SenderTypes /\ taken \in Nat /\ rop.p <= Len(buf)
  BY ReaderIs
<1>3. rop'.ec = rop.ec
  <2> DEFINE pc == CASE rop.ec = "need_more" -> "read"
                     [] rop.ec # "need_more" /\ Complete(par, rop.ec, rop.until) -> "told"
                     [] OTHER -> "some"
  <2>1. rop' = [rop EXCEPT !.p = 0, !.pc = pc]
    BY DEF PutReturned
  <2> HIDE DEF pc
  <2> QED
    BY <1>2, <2>1 DEF ReadOps
<1>4. Len(buf') = Len(buf) - rop.p
  <2>1. Len(Rest) = Len(buf) - rop.p
    BY <1>2, RestIs DEF ReadInv
  <2> QED
    BY <1>1, <2>1 DEF Rest
<1>5. taken + rop.p \in Nat /\ Len(buf) - rop.p \in Nat
  BY <1>2, PartTaken
<1>6. taken' \in Nat /\ Len(buf') \in Nat
  BY <1>1, <1>4, <1>5
<1> QED
  BY <1>1, <1>2, <1>3, <1>4, <1>6

LEMMA AtMostOne ==
  ASSUME NEW c \in Nat, NEW x \in Nat, NEW a \in Nat, NEW s \in Nat, NEW l \in Nat, s <= l, (c + 0) + x = a + s,
         NEW e \in Nat, e = a + l, NEW e1 \in Nat, e + 5 <= e1, e1 <= c
  PROVE  FALSE
  OBVIOUS

LEMMA Afterwards ==
  ASSUME NEW n \in Nat, NEW a \in 1 .. n, NEW r \in 1 .. n + 1, a + 1 < r
  PROVE  a + 1 \in 1 .. n /\ a + 1 \in 0 .. n /\ r - 1 \in a + 1 .. n /\ (a + 1) - 1 = a
  OBVIOUS

LEMMA BeforeIt ==
  ASSUME NEW n \in Nat, NEW a \in 1 .. n, NEW r \in 1 .. n + 1, r < a
  PROVE  r \in 1 .. n /\ r <= n
  OBVIOUS

LEMMA OneOfTwo ==
  ASSUME NEW n \in Nat, NEW a \in Nat, NEW r, r = n + 1, ~(a + 1 < r), ~(r < a)
  PROVE  n \in {a - 1, a}
  OBVIOUS

\* The stream ends between two messages: behind the one that was being sent, or in
\* front of it
LEMMA EndIs ==
  ASSUME ReadInv, rop.pc = "read", wire = <<>>, par.s = "nothing_yet"
  PROVE  body = <<>> /\ Len(received) \in {at - 1, at}
<1>1. /\ script \in Seq(Messages) /\ Len(script) \in Nat /\ Reading \in 1 .. Len(script) + 1 /\ par \in Parsers
      /\ taken \in Nat /\ Len(buf) \in Nat /\ Len(body) \in Nat /\ SenderTypes /\ body \in Texts
      /\ Len(received) \in Nat
  BY ReaderIs
<1>2. ~Stopped
  BY DEF ReadInv, ReadOpInv
<1>3. Fine /\ rop.p = 0 /\ Got = taken
  BY <1>2, BetweenIs
<1>4. taken = 0 /\ body = <<>>
  <2>1. CASE Reading <= Len(script)
    <3>1. InHeader(par, Was, taken, Len(body))
      BY <1>3, <2>1 DEF ReadInv, UnderstoodInv, ParserAt, HeaderStates
    <3>2. taken = 0 /\ Len(body) = 0
      BY <3>1 DEF InHeader
    <3> QED
      BY <1>1, <3>2, EmptySeq DEF Texts
  <2>2. CASE ~(Reading <= Len(script))
    <3>1. Reading = Len(script) + 1
      BY <1>1, <2>2, NotLast
    <3> QED
      BY <3>1, NothingBehind
  <2> QED
    BY <2>1, <2>2
<1>5. Reading = Len(received) + 1
  BY DEF Reading
<1>6. /\ at \in 1 .. Len(script) /\ MessageEnd(at - 1) \in Nat /\ Size(Msg) \in Nat
      /\ MessageEnd(at) = MessageEnd(at - 1) + Size(Msg) /\ Sent \in Nat /\ Sent <= Size(Msg)
      /\ \A k \in at .. Len(script) : MessageEnd(at) <= MessageEnd(k) /\ MessageEnd(k) \in Nat
  BY WrittenIs
<1>7. MessageEnd(Reading - 1) \in Nat /\ Taken = MessageEnd(Reading - 1) + taken /\ Taken \in Nat
  BY <1>1, TakenIs DEF Taken
<1>8. (MessageEnd(Reading - 1) + 0) + Len(buf) = MessageEnd(at - 1) + Sent
  <2>1. Taken + Len(buf) + Len(wire) = MessageEnd(at - 1) + Sent
    BY WrittenIs
  <2>2. Len(wire) = 0
    OBVIOUS
  <2>3. Taken + Len(buf) \in Nat
    BY <1>1, <1>7, Nought
  <2>4. (Taken + Len(buf)) + 0 = Taken + Len(buf)
    BY <2>3, Nought
  <2> QED
    BY <1>4, <1>7, <2>1, <2>2, <2>4
<1>9. ~(at + 1 < Reading)
  <2> SUFFICES ASSUME at + 1 < Reading PROVE FALSE
    OBVIOUS
  <2>1. at + 1 \in 1 .. Len(script) /\ at + 1 \in 0 .. Len(script) /\ Reading - 1 \in at + 1 .. Len(script) /\ (at + 1) - 1 = at
    BY <1>1, <1>6, Afterwards
  <2>2. MessageEnd(at + 1) = MessageEnd(at) + Size(script[at + 1]) /\ Size(script[at + 1]) \in Nat /\ 5 <= Size(script[at + 1])
        /\ MessageEnd(at + 1) \in Nat
    BY <1>1, <2>1, MessagesEnd
  <2>3. MessageEnd(at) \in Nat
    BY <1>6
  <2>4. MessageEnd(at) + 5 <= MessageEnd(at + 1)
    BY <2>2, <2>3
  <2>5. MessageEnd(at + 1) <= MessageEnd(Reading - 1)
    BY <1>1, <2>1, MessagesGrow
  <2> QED
    BY <1>1, <1>6, <1>7, <1>8, <2>2, <2>3, <2>4, <2>5, AtMostOne
<1>10. ~(Reading < at)
  <2> SUFFICES ASSUME Reading < at PROVE FALSE
    OBVIOUS
  <2>1. Reading \in 1 .. Len(script) /\ Reading <= Len(script)
    BY <1>1, <1>6, BeforeIt
  <2>2. Was \in Messages
    BY <1>1, <2>1, MessagesEnd DEF Was
  <2>3. ParserAt(par, Was, taken, Len(body)) /\ Len(Rest) < Needs(par, Was, taken)
    BY <1>3, <2>1 DEF ReadInv, UnderstoodInv
  <2>4. Needs(par, Was, taken) \in Nat /\ taken + Needs(par, Was, taken) <= Size(Was)
    BY <1>1, <2>2, <2>3, NeedsBound DEF EofStates
  <2>5. Len(Rest) = Len(buf)
    <3>1. Len(Rest) = Len(buf) - rop.p
      BY <1>1, RestIs DEF ReadInv
    <3>2. Len(buf) - 0 = Len(buf)
      BY <1>1, Less0
    <3> QED
      BY <1>3, <3>1, <3>2
  <2>6. Size(Was) \in Nat /\ MessageEnd(Reading) = MessageEnd(Reading - 1) + Size(Was)
    BY <1>1, <2>1, MessagesEnd DEF Was
  <2>7. Reading \in 0 .. Len(script) /\ at - 1 \in Reading .. Len(script)
    BY <1>1, <1>6, <2>1, Earlier
  <2>8. MessageEnd(Reading) <= MessageEnd(at - 1)
    BY <1>1, <2>7, MessagesGrow
  <2>9. MessageEnd(Reading - 1) + Size(Was) <= MessageEnd(at - 1)
    BY <2>6, <2>8
  <2>10. (MessageEnd(Reading - 1) + taken) + Len(buf) = MessageEnd(at - 1) + Sent
    BY <1>4, <1>8
  <2>11. Len(buf) < Needs(par, Was, taken)
    BY <2>3, <2>5
  <2> QED
    BY <1>1, <1>6, <1>7, <2>4, <2>6, <2>9, <2>10, <2>11, CutShort
<1>11. at \in Nat
  BY <1>1, <1>6
<1> QED
  BY <1>1, <1>4, <1>5, <1>9, <1>10, <1>11, OneOfTwo

LEMMA TellStarts == RoomyScripts /\ Init => TellInv
<1> SUFFICES ASSUME RoomyScripts, Init PROVE TellInv
  OBVIOUS
<1>1. /\ par = NewParser /\ rop = IdleRead /\ how \in [mode : ReadModes, body : Readers] /\ script \in Scripts
  BY DEF Init, ParInit
<1>2. par.s = "nothing_yet" /\ rop.ec = "" /\ how.body \in Readers
  BY <1>1 DEF NewParser, IdleRead
<1> QED
  BY <1>1, <1>2 DEF RoomyScripts, TellInv, Seen, AtClose

LEMMA SeenKeeps ==
  ASSUME ReadInv, Seen, [Next]_vars
  PROVE  Seen'
<1>1. rop \in ReadOps /\ par \in Parsers /\ Len(buf) \in Nat /\ taken \in Nat
  BY ReaderIs
<1>2. CASE UNCHANGED <<buf, taken>> /\ (par'.s = par.s \/ par'.s = "nothing_yet" \/ par.s # "nothing_yet")
  BY <1>2 DEF Seen
<1>3. CASE UNCHANGED parVars \/ UNCHANGED vars
  BY <1>2, <1>3 DEF parVars, vars
<1>4. CASE StartRead \/ ReadOverflows
  BY <1>2, <1>4 DEF StartRead, ReadOverflows
<1>5. CASE ReadSome
  <2>1. UNCHANGED <<buf, taken, par>>
    BY Zenon, <1>5 DEF ReadSome
  <2> QED
    BY <1>2, <2>1
<1>6. CASE Put
  BY <1>6, PutSees DEF Seen
<1>7. CASE PutReturned
  <2>1. /\ par' = par /\ rop.p \in Nat /\ taken' = taken + rop.p /\ Len(buf') = Len(buf) - rop.p
        /\ taken' \in Nat /\ Len(buf') \in Nat
    BY <1>7, ReturnedIs
  <2>2. 0 < taken + Len(buf) => 0 < taken' + Len(buf')
    BY <1>1, <2>1, SumGrows
  <2> QED
    BY <2>1, <2>2 DEF Seen
<1>8. CASE ReadTold
  <2>1. UNCHANGED <<buf, taken>> /\ (par' = par \/ par' = [par EXCEPT !.room = Window])
    BY <1>8 DEF ReadTold
  <2>2. par'.s = par.s
    BY <1>1, <2>1 DEF Parsers
  <2> QED
    BY <1>2, <2>1, <2>2
<1>9. CASE NextRead
  <2>1. par'.s = "nothing_yet"
    BY <1>9 DEF NextRead, NewParser
  <2> QED
    BY <2>1 DEF Seen
<1>10. CASE WireDelivers
  <2>1. par' = par /\ taken' = taken
    BY <1>10 DEF WireDelivers, ReadArrives
  <2>2. Len(buf) <= Len(buf') /\ Len(buf') \in Nat
    BY <1>10, Grows
  <2>3. 0 < taken + Len(buf) => 0 < taken' + Len(buf')
    BY <1>1, <2>1, <2>2, SumGrows
  <2> QED
    BY <2>1, <2>3 DEF Seen
<1>11. CASE WireEnds
  <2>1. UNCHANGED <<buf, taken>> /\ (par' = par \/ par.s # "nothing_yet")
    BY <1>1, <1>11, ReadEofIs DEF WireEnds
  <2> QED
    BY <1>2, <2>1
<1> QED
  BY <1>3, <1>4, <1>5, <1>6, <1>7, <1>8, <1>9, <1>10, <1>11 DEF Next, ParStep

\* What a step does to the error of the read operation, if it does not come from put
LEMMA CodeIs ==
  ASSUME ReadInv, [Next]_vars, ~Put
  PROVE  \/ rop'.ec \notin {"body_limit", "end_of_stream"}
         \/ /\ rop'.ec = rop.ec /\ UNCHANGED <<par, body, received>>
         \/ /\ rop'.ec = "end_of_stream" /\ WireEnds /\ par.s = "nothing_yet" /\ rop.pc = "read"
            /\ UNCHANGED <<body, received>>
<1>1. rop \in ReadOps /\ par \in Parsers
  BY ReaderIs
<1>2. CASE UNCHANGED parVars \/ UNCHANGED vars
  BY <1>2 DEF parVars, vars
<1>3. CASE StartRead
  <2> DEFINE until == CASE how.mode = "header" /\ ~HeaderDone(par) -> "header"
                        [] how.mode = "some" -> "some"
                        [] OTHER -> "done"
             eager == until = "done"
  <2>1. rop' = [IdleRead EXCEPT !.pc = "some", !.until = until, !.eager = eager]
    BY <1>3 DEF StartRead
  <2> HIDE DEF until, eager
  <2>2. rop'.ec = ""
    BY <2>1 DEF IdleRead
  <2> QED
    BY <2>2
<1>4. CASE ReadOverflows
  <2>1. rop' = [rop EXCEPT !.pc = "told", !.ec = "buffer_overflow"]
    BY <1>4 DEF ReadOverflows
  <2>2. rop'.ec = "buffer_overflow"
    BY <1>1, <2>1 DEF ReadOps
  <2> QED
    BY <2>2
<1>5. CASE ReadSome
  <2>1. UNCHANGED <<par, body, received>>
    BY Zenon, <1>5 DEF ReadSome
  <2>2. rop' = [rop EXCEPT !.pc = IF buf = <<>> THEN "read" ELSE "put", !.p = 0]
    BY <1>5, ReadSomeDoes
  <2>3. rop'.ec = rop.ec
    BY <1>1, <2>2 DEF ReadOps
  <2> QED
    BY <2>1, <2>3
<1>6. CASE PutReturned
  BY <1>6, ReturnedIs
<1>7. CASE ReadTold
  <2>1. rop'.ec = ""
    BY <1>7 DEF ReadTold, IdleRead
  <2> QED
    BY <2>1
<1>8. CASE NextRead
  <2>1. rop.pc = "idle" /\ rop' = rop
    BY <1>8 DEF NextRead
  <2>2. rop'.ec = ""
    BY <2>1, BetweenIs
  <2> QED
    BY <2>2
<1>9. CASE WireDelivers
  <2>1. PICK n : ReadArrives(SubSeq(wire, 1, n))
    BY <1>9 DEF WireDelivers
  <2>2. rop' = [rop EXCEPT !.pc = "put", !.ec = ""]
    BY <2>1, ReadArrivesDoes
  <2>3. rop'.ec = ""
    BY <1>1, <2>2 DEF ReadOps
  <2> QED
    BY <2>3
<1>10. CASE WireEnds
  <2>1. /\ rop.pc = "read" /\ UNCHANGED <<body, received>>
        /\ \/ par.s = "nothing_yet" /\ rop' = [rop EXCEPT !.pc = "told", !.ec = "end_of_stream"]
           \/ rop' = [rop EXCEPT !.pc = "told", !.ec = "partial_message"]
           \/ rop' = [rop EXCEPT !.pc = "told", !.ec = ""]
    BY <1>1, <1>10, ReadEofIs DEF WireEnds
  <2>2. rop'.ec \in {"partial_message", ""} \/ (rop'.ec = "end_of_stream" /\ par.s = "nothing_yet")
    BY <1>1, <2>1 DEF ReadOps
  <2> QED
    BY <1>10, <2>1, <2>2
<1> QED
  BY <1>2, <1>3, <1>4, <1>5, <1>6, <1>7, <1>8, <1>9, <1>10 DEF Next, ParStep

LEMMA TellKeeps == ReadInv /\ TellInv /\ [Next]_vars => TellInv'
<1> SUFFICES ASSUME ReadInv, TellInv, [Next]_vars PROVE TellInv'
  OBVIOUS
<1> USE DEF TellInv
<1>1. Seen'
  BY SeenKeeps
<1>2. script' = script
  BY DEF Next, vars, serVars, Sender, SerStep, StartWrite, WriteNext, WriteIo, WriteFails, WritePosted, WriteTold,
         WriteChunks, NextMessage, CloseStream, WireDelivers, WireEnds
<1>3. how.body \in Readers => how'.body \in Readers
  <2>1. how' = how \/ how' \in [mode : ReadModes, body : Readers]
    <3>1. CASE ReadSome
      BY Zenon, <3>1 DEF ReadSome
    <3>2. CASE Put
      <4>1. CASE PutLastChunk
        BY Zenon, <4>1 DEF PutLastChunk
      <4>2. CASE PutChunkHeader
        BY Zenon, <4>2 DEF PutChunkHeader
      <4>3. CASE Field
        BY <4>3, FieldDoes
      <4> QED
        BY <3>2, <4>1, <4>2, <4>3 DEF Put, PutStartLine, PutFields, PutBody, PutBodyToEof, PutChunkBody
    <3>3. CASE WireEnds
      BY <3>3, ReadEofIs, ReaderIs DEF WireEnds
    <3>4. CASE WireDelivers
      BY <3>4 DEF WireDelivers, ReadArrives
    <3> QED
      BY <3>1, <3>2, <3>3, <3>4 DEF Next, vars, parVars, ParStep, StartRead, PutReturned, ReadOverflows, ReadTold, NextRead
  <2> QED
    BY <2>1
<1>4. rop'.ec = "body_limit" => par'.s # "nothing_yet"
  <2>1. CASE Put
    BY <2>1, PutSays
  <2>2. CASE ~Put
    BY <2>2, CodeIs
  <2> QED
    BY <2>1, <2>2
<1>5. AtClose'
  <2> SUFFICES ASSUME rop'.ec = "end_of_stream" PROVE closed' /\ body' = <<>> /\ Len(received') \in {at' - 1, at'}
    BY DEF AtClose
  <2>1. ~Put
    BY PutSays DEF Says
  <2>2. \/ rop'.ec = rop.ec /\ UNCHANGED <<par, body, received>>
        \/ WireEnds /\ par.s = "nothing_yet" /\ rop.pc = "read" /\ UNCHANGED <<body, received>>
    BY <2>1, CodeIs
  <2>3. closed /\ body = <<>> /\ Len(received) \in {at - 1, at} /\ UNCHANGED <<body, received>>
    <3>1. CASE rop'.ec = rop.ec /\ UNCHANGED <<par, body, received>>
      BY <3>1 DEF AtClose
    <3>2. CASE WireEnds /\ par.s = "nothing_yet" /\ rop.pc = "read" /\ UNCHANGED <<body, received>>
      BY <3>2, EndIs DEF WireEnds
    <3> QED
      BY <2>2, <3>1, <3>2
  <2>4. ~Sender
    BY <2>3, ClosedStops DEF ReadInv
  <2>5. closed' = closed /\ at' = at
    BY <2>4 DEF Next, vars, serVars, WireDelivers, WireEnds
  <2> QED
    BY <2>3, <2>5
<1> QED
  BY <1>1, <1>2, <1>3, <1>4, <1>5 DEF HasRoom, NeedEof, HeaderEnd, Folds, TailLen

-----------------------------------------------------------------------------
(* What the application is told is what the pipe tells *)

LEMMA NotAhead ==
  ASSUME NEW n \in Nat, NEW a \in 1 .. n, NEW r \in 1 .. n + 1, ~(r <= a)
  PROVE  r - 1 \in a .. n
  OBVIOUS

LEMMA TooFar ==
  ASSUME NEW c \in Nat, NEW g \in Nat, NEW x \in Nat, NEW y \in Nat, NEW a \in Nat, NEW s \in Nat, NEW l \in Nat,
         s <= l, ((c + g) + x) + y = a + s, 0 < g + x, NEW e \in Nat, e = a + l, e <= c
  PROVE  FALSE
  OBVIOUS

LEMMA OneLess ==
  ASSUME NEW a \in Nat, NEW n \in Nat, n + 1 <= a
  PROVE  n < a
  OBVIOUS

LEMMA ToldFacts ==
  ASSUME ReadInv, rop.pc = "told"
  PROVE  /\ ~Stopped /\ Reading = Len(received) + 1 /\ par.bodiless \in BOOLEAN
         /\ Pipe!Current = Was /\ Pipe!Listening
<1>1. ~Stopped
  BY DEF ReadInv, ReadOpInv
<1>2. Reading = Len(received) + 1
  BY DEF Reading
<1>3. par.bodiless \in BOOLEAN
  BY ReaderIs DEF Parsers
<1>4. Pipe!Current = Was
  BY <1>2 DEF Pipe!Current, Was
<1>5. Pipe!Listening
  BY <1>1 DEF Pipe!Listening, Stopped
<1> QED
  BY <1>1, <1>2, <1>3, <1>4, <1>5

LEMMA AheadOf ==
  ASSUME ReadInv, Seen, rop.pc = "told", par.s # "nothing_yet"
  PROVE  Len(received) < at
<1>1. /\ script \in Seq(Messages) /\ Len(script) \in Nat /\ at \in 1 .. Len(script) /\ Reading \in 1 .. Len(script) + 1
      /\ taken \in Nat /\ Len(buf) \in Nat /\ Len(wire) \in Nat /\ Len(received) \in Nat
  BY ReaderIs
<1>2. /\ MessageEnd(at - 1) \in Nat /\ Size(Msg) \in Nat
      /\ MessageEnd(at) = MessageEnd(at - 1) + Size(Msg) /\ Sent \in Nat /\ Sent <= Size(Msg)
      /\ Taken + Len(buf) + Len(wire) = MessageEnd(at - 1) + Sent
      /\ MessageEnd(at) \in Nat
  BY <1>1, WrittenIs, MessagesEnd
<1>3. MessageEnd(Reading - 1) \in Nat /\ Taken = MessageEnd(Reading - 1) + taken
  BY <1>1, TakenIs DEF Taken
<1>4. 0 < taken + Len(buf)
  BY DEF Seen
<1>5. Reading <= at
  <2> SUFFICES ASSUME ~(Reading <= at) PROVE FALSE
    OBVIOUS
  <2>1. Reading - 1 \in at .. Len(script)
    BY <1>1, NotAhead
  <2>2. at \in 0 .. Len(script)
    BY <1>1
  <2>3. MessageEnd(at) <= MessageEnd(Reading - 1)
    BY <1>1, <2>1, <2>2, MessagesGrow
  <2> QED
    BY <1>1, <1>2, <1>3, <1>4, <2>3, TooFar
<1>6. at \in Nat
  BY <1>1
<1>7. Len(received) + 1 <= at
  BY <1>5, ToldFacts
<1> QED
  BY <1>1, <1>6, <1>7, OneLess

LEMMA PipeReads ==
  ASSUME NEW m
  PROVE  /\ Pipe!Total(m) = Total(m) /\ Pipe!NeedEof(m, IsRequest) = NeedEof(m, IsRequest)
         /\ Pipe!Body(m) = [i \in 1 .. Total(m) |-> Sym("octet", i)]
         /\ Pipe!Prefixes(m) = { [i \in 1 .. n |-> Sym("octet", i)] : n \in 0 .. Total(m) }
<1>1. Pipe!Total(m) = Total(m)
  BY DEF Pipe!Total, Total, Pipe!Before, Before
<1>2. Pipe!NeedEof(m, IsRequest) = NeedEof(m, IsRequest)
  BY DEF Pipe!NeedEof, NeedEof
<1>3. Pipe!Body(m) = [i \in 1 .. Total(m) |-> Sym("octet", i)]
  BY <1>1 DEF Pipe!Body, Pipe!Sym, Sym
<1>4. Pipe!Prefixes(m) = { [i \in 1 .. n |-> Sym("octet", i)] : n \in 0 .. Total(m) }
  BY <1>1 DEF Pipe!Prefixes, Pipe!Sym, Sym
<1> QED
  BY <1>1, <1>2, <1>3, <1>4

LEMMA TotalIsNat ==
  ASSUME NEW m \in Messages
  PROVE  Total(m) \in Nat
<1>1. Len(m.sizes) \in Nat
  BY EndsAre
<1>2. Len(m.sizes) \in 0 .. Len(m.sizes)
  BY <1>1
<1> QED
  BY <1>2, BeforeIsNatural DEF Total

\* The body is a prefix of the one of the message
LEMMA BodyStands ==
  ASSUME ReadInv, Reading <= Len(script)
  PROVE  /\ body = [i \in 1 .. Len(body) |-> Sym("octet", i)]
         /\ Len(body) \in 0 .. Total(Was) /\ body \in Pipe!Prefixes(Was)
<1>1. /\ script \in Seq(Messages) /\ body \in Texts /\ Len(body) \in Nat /\ Reading \in 1 .. Len(script) + 1
      /\ Len(script) \in Nat
  BY ReaderIs
<1>2. Len(body) <= Total(Was) /\ \A i \in 1 .. Len(body) : body[i] = Sym("octet", i)
  BY DEF ReadInv, BodyInv
<1>3. Total(Was) \in Nat
  <2>1. Reading \in 1 .. Len(script)
    BY <1>1
  <2>2. Was \in Messages
    BY <1>1, <2>1, MessagesEnd DEF Was
  <2> QED
    BY <2>2, TotalIsNat
<1>4. body = [i \in 1 .. Len(body) |-> body[i]]
  BY <1>1 DEF Texts
<1>5. body = [i \in 1 .. Len(body) |-> Sym("octet", i)]
  BY <1>2, <1>4
<1>6. Len(body) \in 0 .. Total(Was)
  BY <1>1, <1>2, <1>3
<1>7. body \in { [i \in 1 .. n |-> Sym("octet", i)] : n \in 0 .. Total(Was) }
  BY <1>5, <1>6
<1> QED
  BY <1>5, <1>6, <1>7, PipeReads

LEMMA Tells ==
  ASSUME ReadInv, rop.pc = "told", NEW bodies, body \in bodies, UNCHANGED <<script, at, closed>>,
         rop.ec = "" => par.bodiless = Was.bodiless,
         received' = Append(received, [ec |-> rop.ec, bodiless |-> par.bodiless, body |-> body])
  PROVE  Pipe!Tell(rop.ec, bodies)
<1>1. par.bodiless \in BOOLEAN /\ Pipe!Current = Was /\ Pipe!Listening
  BY ToldFacts
<1> QED
  BY <1>1 DEF Pipe!Tell

\* A complete message has its body, or what there was before the end of the stream
LEMMA CompleteIs ==
  ASSUME ReadInv, rop.pc = "told", rop.ec = "", Done(par)
  PROVE  /\ Reading <= Len(script) /\ par.bodiless = Was.bodiless
         /\ NeedEof(Was, IsRequest) => closed
         /\ ~NeedEof(Was, IsRequest) => Len(body) = Total(Was) /\ Total(Was) <= BodyLimit
<1>1. Reading \in 1 .. Len(script) + 1 /\ Len(script) \in Nat /\ par.s = "complete"
  BY ReaderIs DEF Done
<1>2. Reading <= Len(script)
  <2> SUFFICES ASSUME ~(Reading <= Len(script)) PROVE FALSE
    OBVIOUS
  <2>1. Reading = Len(script) + 1
    BY <1>1, NotLast
  <2>2. par = NewParser
    BY <2>1, NothingBehind
  <2> QED
    BY <1>1, <2>2 DEF NewParser
<1>3. Fine
  BY ToldFacts DEF Fine, Errors
<1>4. /\ ParserAt(par, Was, Got, Len(body))
      /\ NeedEof(Was, IsRequest) => closed
  BY <1>1, <1>2, <1>3 DEF ReadInv, UnderstoodInv
<1>5. par.bodiless = Was.bodiless /\ AtTheEnd(par, Was, Got, Len(body))
  BY <1>1, <1>4 DEF ParserAt
<1> QED
  BY <1>2, <1>4, <1>5 DEF AtTheEnd

LEMMA MessageTold ==
  ASSUME ReadInv, TellInv, rop.pc = "told", rop.ec = "", Done(par), UNCHANGED <<script, at, closed>>,
         received' = Append(received, [ec |-> rop.ec, bodiless |-> par.bodiless, body |-> body])
  PROVE  Pipe!Deliver \/ Pipe!Cut
<1>1. /\ Reading <= Len(script) /\ par.bodiless = Was.bodiless
      /\ NeedEof(Was, IsRequest) => closed
      /\ ~NeedEof(Was, IsRequest) => Len(body) = Total(Was) /\ Total(Was) <= BodyLimit
  BY CompleteIs
<1>2. Pipe!Current = Was
  BY ToldFacts
<1>3. Len(received) < at
  BY AheadOf DEF TellInv, Done
<1>4. CASE NeedEof(Was, IsRequest)
  <2>1. body \in Pipe!Prefixes(Was)
    BY <1>1, BodyStands
  <2>2. Pipe!Tell(rop.ec, Pipe!Prefixes(Was))
    BY <1>1, <2>1, Tells
  <2>3. Pipe!NeedEof(Was, IsRequest)
    BY <1>4, PipeReads
  <2>4. Pipe!Cut
    BY <1>1, <1>2, <1>3, <1>4, <2>2, <2>3 DEF Pipe!Cut
  <2> QED
    BY <2>4
<1>5. CASE ~NeedEof(Was, IsRequest)
  <2>1. body = [i \in 1 .. Total(Was) |-> Sym("octet", i)]
    BY <1>1, <1>5, BodyStands
  <2>2. body \in {Pipe!Body(Was)}
    BY <2>1, PipeReads
  <2>3. Pipe!Tell(rop.ec, {Pipe!Body(Was)})
    BY <1>1, <2>2, Tells
  <2>4. Pipe!Total(Was) <= BodyLimit
    BY <1>1, <1>5, PipeReads
  <2>5. Pipe!Deliver
    BY <1>2, <1>3, <2>3, <2>4 DEF Pipe!Deliver
  <2> QED
    BY <2>5
<1> QED
  BY <1>4, <1>5

LEMMA Over ==
  ASSUME NEW a \in Nat, NEW b \in Nat
  PROVE  (a < b => b > a) /\ ~(a < b /\ b <= a)
  OBVIOUS

LEMMA InRange ==
  ASSUME NEW n \in Nat, NEW a \in 1 .. n
  PROVE  a \in Nat
  OBVIOUS

LEMMA OneBehind ==
  ASSUME NEW r \in Nat, NEW a \in Nat, NEW b, b = r + 1, b = a
  PROVE  r = a - 1
  OBVIOUS

LEMMA InScript ==
  ASSUME NEW n \in Nat, NEW r \in 1 .. n + 1, r <= n
  PROVE  r \in 1 .. n
  OBVIOUS

LEMMA TailRoom ==
  ASSUME NEW t \in {0, 5, 8}
  PROVE  t \in Nat /\ 2 + t \in Nat
  OBVIOUS

LEMMA ErrorTold ==
  ASSUME ReadInv, TellInv, rop.pc = "told", rop.ec \notin {"", "need_buffer"}, UNCHANGED <<script, at, closed>>,
         received' = Append(received, [ec |-> rop.ec, bodiless |-> par.bodiless, body |-> body])
  PROVE  Pipe!Refuse \/ Pipe!Break \/ Pipe!End
<1>1. /\ Len(script) \in Nat /\ Reading \in 1 .. Len(script) + 1 /\ script \in Seq(Messages) /\ Len(received) \in Nat
      /\ at \in 1 .. Len(script) /\ SenderTypes
  BY ReaderIs
<1>2. rop.ec \in Errors
  BY DEF ReadInv, ReadOpInv
<1>3. Pipe!Current = Was /\ Reading = Len(received) + 1
  BY ToldFacts
<1>4. /\ rop.ec = "header_limit" => Reading <= Len(script) /\ HeaderLimit < HeaderEnd(Was)
      /\ rop.ec = "body_limit" =>
           Reading <= Len(script) /\ (BodyLimit < Total(Was) \/ (NeedEof(Was, IsRequest) /\ how.body # "string"))
      /\ rop.ec = "buffer_overflow" =>
           /\ Reading <= Len(script)
           /\ MaxBuffer < HeaderEnd(Was) \/ MaxBuffer < 2 + TailLen(Was)
      /\ rop.ec \in {"partial_message", "end_of_stream"} => closed
      /\ rop.ec = "partial_message" => Reading <= Len(script) /\ Reading = at
  BY DEF ReadInv, RefusalInv
<1>5. Reading <= Len(script) =>
        /\ HasRoom(Was) /\ HeaderEnd(Was) \in Nat /\ TailLen(Was) \in Nat /\ 2 + TailLen(Was) \in Nat /\ Total(Was) \in Nat
        /\ body \in Pipe!Prefixes(Was)
  <2> SUFFICES ASSUME Reading <= Len(script)
               PROVE  /\ HasRoom(Was) /\ HeaderEnd(Was) \in Nat /\ TailLen(Was) \in Nat /\ 2 + TailLen(Was) \in Nat /\ Total(Was) \in Nat
                      /\ body \in Pipe!Prefixes(Was)
    OBVIOUS
  <2>1. Reading \in 1 .. Len(script)
    BY <1>1, InScript
  <2>2. Was \in Messages
    BY <1>1, <2>1, MessagesEnd DEF Was
  <2>3. HeaderEnd(Was) \in Nat /\ TailLen(Was) \in {0, 5, 8} /\ Total(Was) \in Nat
    <3>1. HeaderEnd(Was) \in Nat /\ TailLen(Was) \in {0, 5, 8}
      BY <2>2, EndsAre
    <3>2. Total(Was) \in Nat
      BY <2>2, TotalIsNat
    <3> QED
      BY <3>1, <3>2
  <2>4. TailLen(Was) \in Nat /\ 2 + TailLen(Was) \in Nat
    BY <2>3, TailRoom
  <2>5. HasRoom(Was)
    BY <2>1 DEF TellInv, Was
  <2> QED
    BY <2>3, <2>4, <2>5, BodyStands
<1>6. HeaderLimit \in Nat /\ MaxBuffer \in Nat /\ BodyLimit \in Nat
  BY ConstantsAssumption DEF ConstantsAssumption
<1>7. rop.ec # "header_limit"
  BY <1>4, <1>5, <1>6, Over DEF HasRoom
<1>8. rop.ec # "buffer_overflow"
  <2> SUFFICES ASSUME rop.ec = "buffer_overflow" PROVE FALSE
    OBVIOUS
  <2>1. HeaderEnd(Was) \in Nat /\ 2 + TailLen(Was) \in Nat /\ HeaderEnd(Was) <= MaxBuffer /\ 2 + TailLen(Was) <= MaxBuffer
    BY <1>4, <1>5 DEF HasRoom
  <2> QED
    BY <1>4, <1>6, <2>1, Over
<1>9. CASE rop.ec = "body_limit"
  <2>1. Reading <= Len(script) /\ BodyLimit < Total(Was)
    BY <1>4, <1>5, <1>9 DEF HasRoom, TellInv
  <2>2. Pipe!Tell(rop.ec, Pipe!Prefixes(Was))
    BY <1>5, <1>9, <2>1, Tells
  <2>3. Pipe!Total(Was) > BodyLimit
    BY <1>5, <1>6, <2>1, Over, PipeReads
  <2>4. Len(received) < at
    BY <1>9, AheadOf DEF TellInv
  <2> QED
    BY <1>3, <1>9, <2>2, <2>3, <2>4 DEF Pipe!Refuse
<1>10. CASE rop.ec = "partial_message"
  <2>1. Reading <= Len(script) /\ Reading = at /\ closed
    BY <1>4, <1>10
  <2>2. Pipe!Tell(rop.ec, Pipe!Prefixes(Was))
    BY <1>5, <1>10, <2>1, Tells
  <2>3. at \in Nat
    BY <1>1, InRange
  <2>4. Len(received) = at - 1
    BY <1>1, <1>3, <2>1, <2>3, OneBehind
  <2> QED
    BY <1>3, <1>10, <2>1, <2>2, <2>4 DEF Pipe!Break
<1>11. CASE rop.ec = "end_of_stream"
  <2>1. closed /\ body \in {<<>>} /\ Len(received) \in {at - 1, at}
    BY <1>11 DEF TellInv, AtClose
  <2>2. Pipe!Tell(rop.ec, {<<>>})
    BY <1>11, <2>1, Tells
  <2> QED
    BY <1>11, <2>1, <2>2 DEF Pipe!End
<1> QED
  BY <1>2, <1>7, <1>8, <1>9, <1>10, <1>11 DEF Errors

LEMMA ToldIsPipe ==
  ASSUME ReadInv, TellInv, ReadTold, UNCHANGED serVars
  PROVE  [Pipe!Next]_(Pipe!pipeVars)
<1>1. UNCHANGED <<script, at, closed>> /\ rop.pc = "told"
  BY DEF ReadTold, serVars
<1>2. \/ UNCHANGED received
      \/ /\ rop.ec = "" /\ Done(par)
         /\ received' = Append(received, [ec |-> "", bodiless |-> par.bodiless, body |-> body])
      \/ /\ rop.ec \notin {"", "need_buffer"}
         /\ received' = Append(received, [ec |-> rop.ec, bodiless |-> par.bodiless, body |-> body])
  BY DEF ReadTold
<1>3. CASE UNCHANGED received
  BY <1>1, <1>3 DEF Pipe!pipeVars
<1>4. CASE /\ rop.ec = "" /\ Done(par)
           /\ received' = Append(received, [ec |-> "", bodiless |-> par.bodiless, body |-> body])
  <2>1. received' = Append(received, [ec |-> rop.ec, bodiless |-> par.bodiless, body |-> body])
    BY <1>4
  <2> QED
    BY <1>1, <1>4, <2>1, MessageTold DEF Pipe!Next
<1>5. CASE /\ rop.ec \notin {"", "need_buffer"}
           /\ received' = Append(received, [ec |-> rop.ec, bodiless |-> par.bodiless, body |-> body])
  BY <1>1, <1>5, ErrorTold DEF Pipe!Next
<1> QED
  BY <1>2, <1>3, <1>4, <1>5

LEMMA SenderIsPipe ==
  ASSUME ReadInv, Sender, UNCHANGED parVars
  PROVE  [Pipe!Next]_(Pipe!pipeVars)
<1>1. UNCHANGED received /\ ~closed
  BY ClosedStops DEF parVars, ReadInv
<1>2. CASE NextMessage
  BY <1>1, <1>2 DEF NextMessage, Pipe!Next, Pipe!Begin
<1>3. CASE ~NextMessage
  <2>1. /\ UNCHANGED <<script, at>>
        /\ closed' = closed \/ closed' = TRUE
    BY <1>3 DEF Sender, SerStep, StartWrite, WriteNext, WriteIo, WriteFails, WritePosted, WriteTold, WriteChunks, CloseStream
  <2> QED
    BY <1>1, <2>1 DEF Pipe!Next, Pipe!Close, Pipe!pipeVars
<1> QED
  BY <1>2, <1>3

LEMMA OthersArePipe ==
  ASSUME ReadInv,
         \/ UNCHANGED vars
         \/ ParStep /\ ~ReadTold /\ UNCHANGED serVars
         \/ NextRead /\ UNCHANGED serVars
         \/ WireDelivers
         \/ WireEnds
  PROVE  UNCHANGED <<script, at, closed, received>>
<1>1. CASE UNCHANGED vars
  BY <1>1 DEF vars, serVars, parVars
<1>2. CASE ParStep /\ ~ReadTold /\ UNCHANGED serVars
  <2>1. UNCHANGED <<script, at, closed>>
    BY <1>2 DEF serVars
  <2>2. received' = received
    <3>1. CASE Put
      <4>1. CASE Field
        BY <4>1, FieldDoes
      <4>2. CASE PutChunkHeader \/ PutLastChunk
        BY Zenon, <4>2 DEF PutChunkHeader, PutLastChunk
      <4> QED
        BY <3>1, <4>1, <4>2 DEF Put, PutStartLine, PutFields, PutBody, PutBodyToEof, PutChunkBody
    <3>2. CASE ReadSome
      BY Zenon, <3>2 DEF ReadSome
    <3> QED
      BY <1>2, <3>1, <3>2 DEF ParStep, StartRead, PutReturned, ReadOverflows
  <2> QED
    BY <2>1, <2>2
<1>3. CASE NextRead /\ UNCHANGED serVars
  BY <1>3 DEF NextRead, serVars
<1>4. CASE WireDelivers
  BY <1>4 DEF WireDelivers, ReadArrives
<1>5. CASE WireEnds
  BY <1>5, ReaderIs, ReadEofIs DEF WireEnds, serVars
<1> QED
  BY <1>1, <1>2, <1>3, <1>4, <1>5

LEMMA StepIsPipe == ReadInv /\ TellInv /\ [Next]_vars => [Pipe!Next]_(Pipe!pipeVars)
<1> SUFFICES ASSUME ReadInv, TellInv, [Next]_vars PROVE [Pipe!Next]_(Pipe!pipeVars)
  OBVIOUS
<1>1. CASE Sender /\ UNCHANGED parVars
  BY <1>1, SenderIsPipe
<1>2. CASE ReadTold /\ UNCHANGED serVars
  BY <1>2, ToldIsPipe
<1>3. CASE \/ UNCHANGED vars
           \/ ParStep /\ ~ReadTold /\ UNCHANGED serVars
           \/ NextRead /\ UNCHANGED serVars
           \/ WireDelivers
           \/ WireEnds
  BY <1>3, OthersArePipe DEF Pipe!pipeVars
<1> QED
  BY <1>1, <1>2, <1>3 DEF Next

LEMMA StartsAsPipe == Init => Pipe!Init
  BY DEF Init, SerInit, ParInit, Pipe!Init

\* If moreover every header, every chunk header and the last chunk fit the limits of
\* the reader, and a body that the end of the stream ends is read into a string, then
\* the stream with serializer and parser at its ends is a pipe of messages: each is
\* read in order, once and whole, and an error says what became of the next one.
THEOREM ExchangeImplementsPipe == ASSUME FitScripts, RoomyScripts PROVE Spec => ImplementsPipe
<1>1. Init => Pipe!Init /\ TellInv
  BY StartsAsPipe, TellStarts
<1>2. ReadInv /\ TellInv /\ [Next]_vars => TellInv' /\ [Pipe!Next]_(Pipe!pipeVars)
  BY TellKeeps, StepIsPipe
<1>3. Spec => []ReadInv
  BY DeliveryIsRight, PTL
<1> QED
  BY <1>1, <1>2, <1>3, PTL DEF Spec, ImplementsPipe, Pipe!Spec
=============================================================================
