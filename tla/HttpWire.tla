------------------------------ MODULE HttpWire ------------------------------
(* What an HTTP/1 message is on the wire.  A symbol stands for a run of      *)
(* octets that no operation of the library takes apart for a reason of its   *)
(* own: the text of a start line, of a field, of a chunk size.  CR and LF    *)
(* are symbols of their own, since the parser looks for them and a read may  *)
(* end between them, and so is each octet of a body.                         *)
EXTENDS Integers, Sequences

Sym(k, n) == [k |-> k, n |-> n]
CRLF == <<Sym("cr", 0), Sym("lf", 0)>>
Line(x) == <<x>> \o CRLF

-----------------------------------------------------------------------------
(* A message is a record of                                                  *)
(*   bodiless  its status admits no body (1xx, 204, 304)                     *)
(*   framing   "length", "chunked", or "none": what its header says          *)
(*   length    the value of Content-Length                                   *)
(*   folded    it has a field that goes on in a second line                  *)
(*   writer    the Body, or "chunks" for an application that encodes chunks  *)
(*             itself with make_chunk and make_chunk_last                    *)
(*   sizes     the sizes of the buffers the body writer returns              *)
(*   trailer   a field follows the last chunk                                *)
Messages ==
  [bodiless : BOOLEAN, framing : {"length", "chunked", "none"}, length : Nat, folded : BOOLEAN,
   writer : {"string", "empty", "file", "buffer", "chunks"}, sizes : Seq(Nat), trailer : BOOLEAN]

Before(m, j) == LET s[i \in 0 .. Len(m.sizes)] ==
                      IF i = 0 THEN 0 ELSE s[i - 1] + m.sizes[i]
                IN  s[j]
Total(m) == Before(m, Len(m.sizes))

\* The octets of the j-th buffer, and of the whole body.
Piece(m, j) == [i \in 1 .. m.sizes[j] |-> Sym("octet", Before(m, j - 1) + i)]
Body(m) == [i \in 1 .. Total(m) |-> Sym("octet", i)]

Header(m) ==
  Line(Sym("start", IF m.bodiless THEN 1 ELSE 0))
    \o (IF m.folded THEN Line(Sym("field", 0)) \o Line(Sym("fold", 0)) ELSE <<>>)
    \o (CASE m.framing = "length"  -> Line(Sym("length", m.length))
          [] m.framing = "chunked" -> Line(Sym("chunked", 0))
          [] m.framing = "none"    -> <<>>)
    \o CRLF

Chunk(d) == Line(Sym("size", Len(d))) \o d \o CRLF
LastChunk(trailer) ==
  Line(Sym("size", 0)) \o (IF trailer THEN Line(Sym("field", 0)) ELSE <<>>) \o CRLF

\* Where the end of the message lies is only known from the end of the stream.
NeedEof(m, isRequest) == ~isRequest /\ ~m.bodiless /\ m.framing = "none"
=============================================================================
