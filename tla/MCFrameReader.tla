---------------------------- MODULE MCFrameReader ----------------------------
EXTENDS FrameReader

\* ASCII, a continuation and a lead of three
MCBytes == {\h41, \hA0, \hE1}
OfLen(k) == [1 .. k -> MCBytes]
Frame(op, fin, payloads) ==
  [op : {op}, fin : {fin}, mask : {TRUE}, rsv : {FALSE}, long : {FALSE}, payload : payloads]
Long(fs) == {[f EXCEPT !.long = TRUE] : f \in fs}
Rejected ==
  Frame("ping", FALSE, {<<>>}) \cup Frame("reserved", TRUE, {<<>>}) \cup Long(Frame("ping", TRUE, {<<>>}))
    \cup {[f EXCEPT !.mask = FALSE] : f \in Frame("text", TRUE, {<<\h41>>})}
    \cup {[f EXCEPT !.rsv = TRUE] : f \in Frame("text", TRUE, {<<\h41>>})}
    \cup Long(Frame("text", TRUE, {<<\h41>>}))

MCFrames ==
  Frame("text", FALSE, {<<>>} \cup OfLen(1)) \cup Frame("text", TRUE, {<<>>} \cup OfLen(1))
    \cup Frame("cont", FALSE, {<<>>} \cup OfLen(1)) \cup Frame("cont", TRUE, {<<>>} \cup OfLen(1))
    \cup Long(Frame("text", FALSE, OfLen(2))) \cup Long(Frame("cont", TRUE, OfLen(2)))
    \cup Frame("binary", FALSE, {<<\hA0>>}) \cup Frame("ping", TRUE, {<<>>, <<\hA0>>}) \cup Rejected

(* Of the checker alone, with a byte on each side of every limit it tests: for *)
(* all texts of up to four bytes, cut at one place or around one byte, it      *)
(* rejects what no text begins with, and when it does not reject, it waits for *)
(* the rest of a code point if and only if the text ends inside one.           *)
Limits == {\h7F, \h8F, \h90, \h9F, \hA0, \hBF, \hC1, \hC2, \hE0, \hED, \hF0, \hF4, \hF5}
Feed(r, s) == IF r.ok THEN Write(r.cp, r.need, s) ELSE r
Judged(s, i, j) ==
  LET r == Feed(Feed(Feed([ok |-> TRUE, cp |-> <<>>, need |-> 0], SubSeq(s, 1, i)), SubSeq(s, i + 1, j)),
                SubSeq(s, j + 1, Len(s)))
      t == AddBytes([rest |-> <<>>, proper |-> TRUE], s)
  IN r.ok = t.proper /\ (r.ok => (r.need = 0 <=> t.rest = <<>>))
ASSUME CheckerAgrees ==
  \A s \in BoundedSeq(Limits, 4) : \A j \in 0 .. Len(s) : \A i \in {0, j - 1} \cap Nat : Judged(s, i, j)
=============================================================================
