----------------------------- MODULE Utf8Checker -----------------------------
(* detail::utf8_checker, which is fed a text in pieces: what is left of a     *)
(* code point at the end of a piece is kept for the next one.  Words of ASCII *)
(* that the code skips at once are code points like all others here.          *)
EXTENDS Integers, Sequences

Continues(b) == b \in \h80 .. \hBF

\* needed: the length of the code point that b leads, 0 when it cannot lead one
Needed(b) ==
  IF b < 128 THEN 1 ELSE IF b < 192 THEN 0 ELSE IF b < 224 THEN 2
  ELSE IF b < 240 THEN 3 ELSE IF b < 248 THEN 4 ELSE 0

\* The first two bytes: not a continuation, overlong, a surrogate, above U+10FFFF
SecondBad(p) ==
  \/ ~Continues(p[2])
  \/ p[1] = \hE0 /\ p[2] < \hA0
  \/ p[1] = \hED /\ p[2] >= \hA0
  \/ p[1] = \hF0 /\ p[2] < \h90
  \/ p[1] = \hF4 /\ p[2] > \h8F

\* valid of a code point that is complete, and fail_fast of one that is not: what is
\* known of it is already wrong.
Wrong(p) ==
  /\ p[1] >= 128
  /\ \/ p[1] \in {\hC0, \hC1} \/ p[1] > \hF4
     \/ Len(p) >= 2 /\ SecondBad(p)
     \/ \E i \in 3 .. Len(p) : ~Continues(p[i])

\* The loops over a piece that begins with a code point: scan[i] is the verdict on
\* the bytes from i on and what they leave of a code point.
ScanFrom(s, i, scan) ==
  IF i > Len(s) THEN [ok |-> TRUE, cp |-> <<>>, need |-> 0]
  ELSE LET n == Needed(s[i])
           left == Len(s) - i + 1
       IN IF n = 0 THEN [ok |-> FALSE, cp |-> <<>>, need |-> 0]
          ELSE IF n > left
               THEN [ok |-> ~Wrong(SubSeq(s, i, Len(s))), cp |-> SubSeq(s, i, Len(s)), need |-> n - left]
               ELSE IF Wrong(SubSeq(s, i, i + n - 1))
                    THEN [ok |-> FALSE, cp |-> <<>>, need |-> 0] ELSE scan[i + n]
Scan(s) ==
  LET scan[i \in 1 .. Len(s) + 4] == ScanFrom(s, i, scan) IN scan[1]

\* write: cp and need are what the pieces before have left
Write(cp, need, s) ==
  LET n == IF Len(s) < need THEN Len(s) ELSE need
      whole == cp \o SubSeq(s, 1, n)
  IN IF need > n THEN [ok |-> ~Wrong(whole), cp |-> whole, need |-> need - n]
     ELSE IF need > 0 /\ Wrong(whole) THEN [ok |-> FALSE, cp |-> whole, need |-> 0]
     ELSE Scan(SubSeq(s, n + 1, Len(s)))

-----------------------------------------------------------------------------
(* The encoding itself (RFC 3629), byte by byte: one row for each form.      *)
Tail1 == \h80 .. \hBF
Forms == {
  << 0 .. \h7F >>, << \hC2 .. \hDF, Tail1 >>,
  << {\hE0}, \hA0 .. \hBF, Tail1 >>, << \hE1 .. \hEC, Tail1, Tail1 >>,
  << {\hED}, \h80 .. \h9F, Tail1 >>, << {\hEE, \hEF}, Tail1, Tail1 >>,
  << {\hF0}, \h90 .. \hBF, Tail1, Tail1 >>, << \hF1 .. \hF3, Tail1, Tail1, Tail1 >>,
  << {\hF4}, \h80 .. \h8F, Tail1, Tail1 >> }
Begins(p, f) == Len(p) <= Len(f) /\ \A i \in 1 .. Len(p) : p[i] \in f[i]
IsCodePoint(p) == \E f \in Forms : Len(p) = Len(f) /\ Begins(p, f)
BeginsCodePoint(p) == \E f \in Forms : Begins(p, f)

\* A text so far: what the last code point has of it, and that nothing is against it
AddByte(t, b) ==
  IF ~t.proper THEN t
  ELSE LET p == Append(t.rest, b)
       IN [rest |-> IF IsCodePoint(p) THEN <<>> ELSE p, proper |-> BeginsCodePoint(p)]
AddBytes(t, s) ==
  LET add[i \in 0 .. Len(s)] == IF i = 0 THEN t ELSE AddByte(add[i - 1], s[i])
  IN  add[Len(s)]
=============================================================================
