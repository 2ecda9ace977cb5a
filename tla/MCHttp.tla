------------------------------- MODULE MCHttp -------------------------------
(* The messages TLC sends.                                                   *)
EXTENDS HttpExchange

Mess(framing, length, writer, sizes) ==
  [bodiless |-> FALSE, framing |-> framing, length |-> length, folded |-> FALSE,
   writer |-> writer, sizes |-> sizes, trailer |-> FALSE]
Folded(m) == [m EXCEPT !.folded = TRUE]
Trailer(m) == [m EXCEPT !.trailer = TRUE]
Bodiless(m) == [m EXCEPT !.bodiless = TRUE]

Str0   == Mess("length", 0, "string", <<0>>)
Empty  == Mess("none", 0, "empty", <<>>)
Buf    == Mess("length", 2, "buffer", <<1, 1>>)
ChStr  == Mess("chunked", 0, "string", <<2>>)
ChBuf  == Mess("chunked", 0, "buffer", <<1>>)
ChNone == Mess("chunked", 0, "buffer", <<>>)
Own    == Mess("chunked", 0, "chunks", <<1>>)
ToEof  == Mess("none", 0, "file", <<1, 1>>)
Large  == Mess("length", 3, "string", <<3>>)
ChLarge == Mess("chunked", 0, "file", <<1, 2>>)
Not == Bodiless(Mess("length", 2, "empty", <<>>))

RequestScripts ==
  { <<Empty, ChStr>>, <<ChNone, Folded(Empty)>>, <<Trailer(Own), Str0>>, <<Buf>>, <<Large>>,
    <<ChLarge>> }
ResponseScripts ==
  { <<Not, ToEof>>, <<ChNone>>, <<ChBuf>>, <<Folded(Empty)>>, <<Trailer(Own)>> }
=============================================================================
