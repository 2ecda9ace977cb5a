--------------------------- MODULE HttpSerializer ---------------------------
(* The sending side of an HTTP stream: serializer, the body writers, and the *)
(* operations async_write_some, async_write_header and async_write.  The     *)
(* application writes the messages of script one after the other.            *)
EXTENDS HttpWire

CONSTANTS
  IsRequest,    \* the messages are requests
  Limit,        \* serializer::limit, in symbols
  WriteModes,   \* how a message is written: "write", "header", "split_some"
  MayFail       \* a write may fail, or the sender close, at any time

VARIABLES
  script,   \* the messages to write
  at,       \* the message being written
  mode,     \* how it is written
  ser,      \* the serializer of that message
  wop,      \* the write operation
  wrote,    \* what the operations on that message said they have written
  wire,     \* symbols written and not read yet
  closed    \* the sender has closed the stream

serVars == <<script, at, mode, ser, wop, wrote, wire, closed>>

Msg == script[at]

-----------------------------------------------------------------------------

(* serializer.  s is s_, without the suffix _c of the states of a chunked    *)
(* message: "body1" is do_body + 1, "body2" do_body + 2, "final1"            *)
(* do_final_c + 1.  view is what is left of the buffers in v_.               *)

\* The body writer: piece counts what it has returned; data, more and toggle
\* are the members of buffer_body and of its writer.
NewSer(m, data) ==
  [s |-> "construct", view |-> <<>>, more |-> FALSE, split |-> FALSE, done |-> FALSE,
   piece |-> 0, data |-> data, toggle |-> FALSE, last |-> data /\ Len(m.sizes) = 1]
NewSers(m) ==
  { NewSer(m, data) : data \in IF m.writer = "buffer" /\ m.sizes # <<>> THEN BOOLEAN ELSE {FALSE} }
ModesOf(m) == IF m.writer = "chunks" THEN {"header"} ELSE WriteModes

Chunked == Msg.framing = "chunked"

Nothing(w) == [r |-> "none", d |-> <<>>, more |-> FALSE, w |-> w]
Buffer(d, more, w) == [r |-> "buffer", d |-> d, more |-> more, w |-> w]
NeedBuffer(w) == [r |-> "need_buffer", d |-> <<>>, more |-> FALSE, w |-> w]

\* writer::get.  last says that body().more is false.
Get(w) ==
  CASE Msg.writer = "string" -> Buffer(Body(Msg), FALSE, w)
    [] Msg.writer \in {"empty", "chunks"} -> Nothing(w)
    [] Msg.writer = "file" ->
         IF w.piece = Len(Msg.sizes) THEN Nothing(w)
         ELSE Buffer(Piece(Msg, w.piece + 1), w.piece + 1 < Len(Msg.sizes),
                     [w EXCEPT !.piece = @ + 1])
    [] Msg.writer = "buffer" /\ w.toggle ->
         IF w.last THEN Nothing(w) ELSE NeedBuffer([w EXCEPT !.toggle = FALSE])
    [] Msg.writer = "buffer" /\ ~w.toggle /\ w.data ->
         Buffer(Piece(Msg, w.piece + 1), ~w.last, [w EXCEPT !.toggle = TRUE])
    [] OTHER -> IF w.last THEN Nothing(w) ELSE NeedBuffer(w)

\* serializer::next up to the call of visit: the state it leaves, the error it
\* returns, and whether it visits.
Visits(w, s, view) == [w |-> [w EXCEPT !.s = s, !.view = view], ec |-> "", visit |-> TRUE]
HeaderOnly(w) == Visits(w, "header_only", Header(Msg))

\* Mutant of HeaderFirst: split is not looked at
BugHeaderFirst(w) == FALSE

HeaderFirst(w) == w.split

NextInit(w) ==
  LET g == Get(w)
      w1 == [g.w EXCEPT !.more = g.more]
  IN  IF HeaderFirst(w) THEN HeaderOnly(w)
      ELSE CASE g.r = "need_buffer" ->
                  [w |-> [g.w EXCEPT !.s = "init"], ec |-> "need_buffer", visit |-> FALSE]
             [] g.r = "none" -> HeaderOnly(g.w)
             [] g.r = "buffer" /\ ~Chunked -> Visits(w1, "header", Header(Msg) \o g.d)
             [] g.r = "buffer" /\ Chunked /\ g.more ->
                  Visits(w1, "header", Header(Msg) \o Chunk(g.d))
             [] g.r = "buffer" /\ Chunked /\ ~g.more ->
                  Visits(w1, "all", Header(Msg) \o Chunk(g.d) \o LastChunk(FALSE))

NextBody(w) ==
  LET g == Get(w)
      w1 == [g.w EXCEPT !.more = g.more]
  IN  CASE g.r = "need_buffer" ->
             [w |-> [g.w EXCEPT !.s = "body1"], ec |-> "need_buffer", visit |-> FALSE]
        [] g.r = "none" /\ ~Chunked ->
             [w |-> [g.w EXCEPT !.s = "complete"], ec |-> "", visit |-> FALSE]
        [] g.r = "none" /\ Chunked -> Visits(g.w, "final1", LastChunk(FALSE))
        [] g.r = "buffer" /\ ~Chunked -> Visits(w1, "body2", g.d)
        [] g.r = "buffer" /\ Chunked /\ g.more -> Visits(w1, "body2", Chunk(g.d))
        [] g.r = "buffer" /\ Chunked /\ ~g.more ->
             Visits(w1, "body_final", Chunk(g.d) \o LastChunk(FALSE))

SerNext(w) ==
  CASE w.s \in {"construct", "init"} -> NextInit(w)
    [] w.s \in {"body", "body1"} -> NextBody(w)
    [] w.s = "final" -> Visits(w, "final1", LastChunk(FALSE))
    [] OTHER -> Visits(w, w.s, w.view)

\* Mutant of AfterBuffers: the last chunk is forgotten
BugAfterBuffers(w) == IF w.more THEN "body1" ELSE "complete"

\* The state behind the buffers of the header or of the body.
AfterBuffers(w) == IF w.more THEN "body1" ELSE IF Chunked THEN "final" ELSE "complete"

\* serializer::consume(n).
SerConsume(w, n) ==
  LET v == SubSeq(w.view, n + 1, Len(w.view))
      To(s) == [w EXCEPT !.s = s, !.view = <<>>, !.done = @ \/ w.s \in {"header", "header_only", "all"}]
  IN  CASE w.s = "complete" -> w
        [] w.s # "complete" /\ v # <<>> -> [w EXCEPT !.view = v]
        [] w.s # "complete" /\ v = <<>> ->
             To(CASE w.s \in {"header", "body2"} -> AfterBuffers(w)
                  [] w.s = "header_only" /\ w.split -> "body"
                  [] w.s = "header_only" /\ ~w.split -> AfterBuffers([w EXCEPT !.more = FALSE])
                  [] OTHER -> "complete")

-----------------------------------------------------------------------------
(* The operations.  wop.pc is "idle", "next" (about to call write_some_op),  *)
(* "io" (async_write_some in flight), "post" (a completion that was posted)  *)
(* or "told" (the handler of the application has run).                       *)
IdleOp == [pc |-> "idle", until |-> "done", n |-> 0, ec |-> ""]

SerInit ==
  /\ at = 1
  /\ mode \in ModesOf(script[1])
  /\ ser \in NewSers(script[1])
  /\ wop = IdleOp
  /\ wrote = 0
  /\ wire = <<>>
  /\ closed = FALSE

Reached(w, until) == CASE until = "done"   -> w.s = "complete"
                       [] until = "header" -> w.done
                       [] until = "some"   -> FALSE

\* async_write_header, async_write and async_write_some, called by an application
\* that follows mode.  "split_some" sets split and writes some, then the rest.
\* It does not call an operation whose condition holds already.
StartWrite ==
  /\ wop.pc = "idle" /\ ~closed /\ ser.s # "complete"
  /\ ~(Msg.writer = "chunks" /\ ser.done)
  /\ LET op == CASE mode = "header" /\ ~ser.done -> "header"
                 [] mode = "split_some" /\ ser.s = "construct" -> "some"
                 [] OTHER -> "done"
     IN  /\ ser' = [ser EXCEPT !.split = op # "done"]
         /\ wop' = [pc |-> "next", until |-> op, n |-> 0, ec |-> ""]
  /\ UNCHANGED <<script, at, mode, wrote, wire, closed>>

\* write_some_op::operator()().
WriteNext ==
  /\ wop.pc = "next"
  /\ IF ser.s = "complete"
     THEN /\ wop' = [wop EXCEPT !.pc = "post"]
          /\ UNCHANGED ser
     ELSE LET x == SerNext(ser) IN
          /\ ser' = x.w
          /\ wop' = [wop EXCEPT !.pc = IF x.visit THEN "io" ELSE "post", !.ec = x.ec]
  /\ UNCHANGED <<script, at, mode, wrote, wire, closed>>

\* write_some_op and then write_op resume with n symbols written, or with an error.
WriteResumes(n, ec) ==
  LET w == IF ec = "" THEN SerConsume(ser, n) ELSE ser IN
  /\ ser' = w
  /\ wop' = [wop EXCEPT !.n = @ + n, !.ec = ec,
             !.pc = IF ec # "" \/ wop.until = "some" \/ Reached(w, wop.until)
                    THEN "told" ELSE "next"]

\* The stream takes some of the buffers the serializer showed it.
WriteIo ==
  /\ wop.pc = "io" /\ ~closed
  /\ LET most == IF Len(ser.view) < Limit THEN Len(ser.view) ELSE Limit IN
     \E n \in (IF most = 0 THEN {0} ELSE 1 .. most) :
       /\ wire' = wire \o SubSeq(ser.view, 1, n)
       /\ WriteResumes(n, "")
  /\ UNCHANGED <<script, at, mode, wrote, closed>>

WriteFails ==
  /\ MayFail /\ wop.pc = "io"
  /\ WriteResumes(0, "error")
  /\ UNCHANGED <<script, at, mode, wrote, wire, closed>>

WritePosted ==
  /\ wop.pc = "post"
  /\ WriteResumes(0, wop.ec)
  /\ UNCHANGED <<script, at, mode, wrote, wire, closed>>

-----------------------------------------------------------------------------
(* The application when an operation completes.  After need_buffer it gives  *)
(* buffer_body the next buffer, or says that there is none; after any other  *)
(* error it closes.                                                          *)
Refill(w) ==
  LET next == IF w.data THEN w.piece + 1 ELSE w.piece IN
  { [w EXCEPT !.piece = next, !.data = next < Len(Msg.sizes), !.last = l] :
      l \in {l \in BOOLEAN : /\ next = Len(Msg.sizes) => l
                             /\ next + 1 < Len(Msg.sizes) => ~l} }

WriteTold ==
  /\ wop.pc = "told"
  /\ wrote' = wrote + wop.n
  /\ wop' = IdleOp
  /\ \/ /\ wop.ec = "need_buffer"
        /\ ser' \in Refill(ser)
        /\ UNCHANGED closed
     \/ /\ wop.ec = ""
        /\ UNCHANGED <<ser, closed>>
     \/ /\ wop.ec = "error"
        /\ closed' = TRUE
        /\ UNCHANGED ser
  /\ UNCHANGED <<script, at, mode, wire>>

\* The application encodes the chunks itself: make_chunk for each buffer, then
\* make_chunk_last, after async_write_header has written the header.
WriteChunks ==
  /\ wop.pc = "idle" /\ ~closed
  /\ Msg.writer = "chunks" /\ ser.s = "body" /\ ser.piece <= Len(Msg.sizes)
  /\ LET j == ser.piece + 1
         d == IF j <= Len(Msg.sizes) THEN Chunk(Piece(Msg, j)) ELSE LastChunk(Msg.trailer)
     IN  /\ wire' = wire \o d
         /\ wrote' = wrote + Len(d)
         /\ ser' = [ser EXCEPT !.piece = j, !.s = IF j > Len(Msg.sizes) THEN "complete" ELSE @]
  /\ UNCHANGED <<script, at, mode, wop, closed>>

\* The next message, with a serializer of its own; or the end of the stream, which
\* a message without a length has to be followed by.
NextMessage ==
  /\ wop.pc = "idle" /\ ~closed /\ ser.s = "complete"
  /\ at < Len(script) /\ ~NeedEof(Msg, IsRequest)
  /\ at' = at + 1
  /\ mode' \in ModesOf(script[at + 1])
  /\ ser' \in NewSers(script[at + 1])
  /\ wrote' = 0
  /\ UNCHANGED <<script, wop, wire, closed>>

CloseStream ==
  /\ wop.pc = "idle" /\ ~closed
  /\ \/ MayFail
     \/ ser.s = "complete" /\ (at = Len(script) \/ NeedEof(Msg, IsRequest))
  /\ closed' = TRUE
  /\ UNCHANGED <<script, at, mode, ser, wop, wrote, wire>>

SerStep == StartWrite \/ WriteNext \/ WriteIo \/ WritePosted \/ WriteTold \/ WriteChunks
Sender == SerStep \/ WriteFails \/ NextMessage \/ CloseStream
=============================================================================
