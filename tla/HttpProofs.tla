----------------------------- MODULE HttpProofs -----------------------------
(* What the two ends of an HTTP stream promise, for any messages (also ones whose
   header does not fit their body), any pieces, limits, windows and errors:
   async_write_header writes the header alone, and the assertions of the parser and
   of its operations hold.

   The parser asserts that it is never called on a complete message and never with
   too little in front of it.  What it may rely on is the form of what it is given:
   on the wire there are only blocks, in which each symbol that stands for a line has
   CR LF behind it, and the reader has a stream of blocks that was cut somewhere
   (StreamInv).  Where a search found an end of line or of a header, what lies in
   front of it follows from that form.  The sender must show only blocks (SenderInv),
   and the offset skip_ where a search goes on must not lie behind what the search
   has to find (Searches).                                                          *)
EXTENDS HttpExchange, SequenceTheorems, FiniteSetTheorems, WellFoundedInduction, TLAPS

Kinds == {"start", "field", "fold", "length", "chunked", "size", "octet", "cr", "lf"}
Symbols == [k : Kinds, n : Nat]

\* A symbol that stands for the text of a line has the end of the line behind it
Whole(s) ==
  \A i \in 1 .. Len(s) : s[i].k \notin {"octet", "cr", "lf"} =>
    i + 2 <= Len(s) /\ s[i + 1] = Sym("cr", 0) /\ s[i + 2] = Sym("lf", 0)
Blocks == {s \in Seq(Symbols) : Whole(s)}

-----------------------------------------------------------------------------
(* Induction.  The theorems of the library on induction take a predicate, which
   the provers cannot instantiate; these take a set.                         *)

LEMMA LeastNumber ==
  ASSUME NEW A, A \subseteq Nat, A # {}
  PROVE  \E m \in A : \A k \in A : m <= k
<1> DEFINE Below == {0 .. (k - 1) : k \in A}
<1>1. Below \subseteq FiniteSubsetsOf(Nat)
  <2>1. \A k \in A : IsFiniteSet(0 .. (k - 1)) /\ 0 .. (k - 1) \subseteq Nat
    BY FS_Interval
  <2> QED
    BY <2>1 DEF FiniteSubsetsOf
<1>2. Below # {}
  OBVIOUS
<1>3. PICK x \in Below : \A y \in Below : ~(<<y, x>> \in StrictSubsetOrdering(Nat))
  <2>1. IsWellFoundedOn(StrictSubsetOrdering(Nat), FiniteSubsetsOf(Nat))
    BY FS_StrictSubsetOrderingWellFounded
  <2> HIDE DEF Below
  <2> QED
    BY <1>1, <1>2, <2>1, WFMin
<1>4. PICK m \in A : x = 0 .. (m - 1)
  OBVIOUS
<1>5. ASSUME NEW k \in A, k < m PROVE FALSE
  <2>1. 0 .. (k - 1) \in Below /\ m \in Nat /\ k \in Nat
    OBVIOUS
  <2>2. 0 .. (k - 1) \subseteq x /\ k \in x /\ k \notin 0 .. (k - 1)
    BY <1>4, <1>5, <2>1
  <2>3. <<0 .. (k - 1), x>> \in StrictSubsetOrdering(Nat)
    BY <2>1, <2>2, <1>4 DEF StrictSubsetOrdering
  <2> QED
    BY <1>3, <2>1, <2>3
<1> QED
  BY <1>5

LEMMA Induction ==
  ASSUME NEW A, 0 \in A, \A k \in Nat : k \in A => k + 1 \in A
  PROVE  Nat \subseteq A
<1> DEFINE B == Nat \ A
<1> SUFFICES ASSUME B # {} PROVE FALSE
  OBVIOUS
<1>1. PICK m \in B : \A k \in B : m <= k
  BY LeastNumber
<1>2. m \in Nat \ {0} /\ m - 1 \in Nat /\ ~(m <= m - 1)
  OBVIOUS
<1>3. m - 1 \in A
  BY <1>1, <1>2
<1> QED
  BY <1>2, <1>3

-----------------------------------------------------------------------------
(* Blocks *)

LEMMA EmptyBlock == <<>> \in Blocks
  BY EmptySeq DEF Blocks, Whole

LEMMA JoinedBlocks ==
  ASSUME NEW s \in Blocks, NEW t \in Blocks
  PROVE  s \o t \in Blocks /\ Len(s \o t) = Len(s) + Len(t)
<1>1. s \in Seq(Symbols) /\ t \in Seq(Symbols)
  BY DEF Blocks
<1>2. Len(s) \in Nat /\ Len(t) \in Nat
  BY <1>1, LenProperties
<1>3. /\ s \o t \in Seq(Symbols) /\ Len(s \o t) = Len(s) + Len(t)
      /\ \A i \in 1 .. Len(s) + Len(t) :
           (s \o t)[i] = IF i <= Len(s) THEN s[i] ELSE t[i - Len(s)]
  BY <1>1, ConcatProperties
<1> DEFINE u == s \o t
<1> HIDE DEF u
<1>4. ASSUME NEW i \in 1 .. Len(u), u[i].k \notin {"octet", "cr", "lf"}
      PROVE  i + 2 <= Len(u) /\ u[i + 1] = Sym("cr", 0) /\ u[i + 2] = Sym("lf", 0)
  <2>1. CASE i <= Len(s)
    <3>1. i \in 1 .. Len(s) /\ u[i] = s[i]
      BY <1>2, <1>3, <2>1 DEF u
    <3>2. i + 2 <= Len(s) /\ s[i + 1] = Sym("cr", 0) /\ s[i + 2] = Sym("lf", 0)
      BY <1>4, <3>1 DEF Blocks, Whole
    <3>3. /\ i + 1 \in 1 .. Len(s) + Len(t) /\ i + 1 <= Len(s)
          /\ i + 2 \in 1 .. Len(s) + Len(t) /\ i + 2 <= Len(s)
      BY <1>2, <3>1, <3>2
    <3>4. u[i + 1] = s[i + 1] /\ u[i + 2] = s[i + 2]
      BY <1>3, <3>3 DEF u
    <3>5. Len(u) = Len(s) + Len(t)
      BY <1>3 DEF u
    <3> QED
      BY <1>2, <3>2, <3>3, <3>4, <3>5
  <2>2. CASE ~(i <= Len(s))
    <3>0. Len(u) = Len(s) + Len(t)
      BY <1>3 DEF u
    <3>1. i - Len(s) \in 1 .. Len(t) /\ u[i] = t[i - Len(s)]
      BY <1>2, <1>3, <2>2, <3>0 DEF u
    <3>2. /\ i - Len(s) + 2 <= Len(t)
          /\ t[i - Len(s) + 1] = Sym("cr", 0) /\ t[i - Len(s) + 2] = Sym("lf", 0)
      BY <1>4, <3>1 DEF Blocks, Whole
    <3>3. /\ i + 1 \in 1 .. Len(s) + Len(t) /\ ~(i + 1 <= Len(s))
          /\ i + 2 \in 1 .. Len(s) + Len(t) /\ ~(i + 2 <= Len(s))
          /\ i + 1 - Len(s) = i - Len(s) + 1 /\ i + 2 - Len(s) = i - Len(s) + 2
      BY <1>2, <2>2, <3>1, <3>2
    <3>4. u[i + 1] = t[i + 1 - Len(s)] /\ u[i + 2] = t[i + 2 - Len(s)]
      BY <1>3, <3>3 DEF u
    <3> QED
      BY <1>2, <3>0, <3>2, <3>3, <3>4
  <2> QED
    BY <2>1, <2>2
<1>5. Whole(u)
  BY <1>4 DEF Whole
<1> QED
  BY <1>3, <1>5 DEF Blocks, u

LEMMA RestOfBlock ==
  ASSUME NEW s \in Blocks, NEW k \in 0 .. Len(s)
  PROVE  /\ SubSeq(s, k + 1, Len(s)) \in Blocks
         /\ Len(SubSeq(s, k + 1, Len(s))) = Len(s) - k
         /\ \A i \in 1 .. Len(s) - k : SubSeq(s, k + 1, Len(s))[i] = s[k + i]
<1> DEFINE t == SubSeq(s, k + 1, Len(s))
<1>1. s \in Seq(Symbols) /\ Len(s) \in Nat /\ \A i \in 1 .. Len(s) : s[i] \in Symbols
  BY LenProperties, ElementOfSeq DEF Blocks
<1>2. /\ t \in Seq(Symbols) /\ Len(t) = Len(s) - k
      /\ \A i \in 1 .. Len(s) - k : t[i] = s[k + i]
  BY <1>1, SubSeqProperties
<1> HIDE DEF t
<1>3. ASSUME NEW i \in 1 .. Len(t), t[i].k \notin {"octet", "cr", "lf"}
      PROVE  i + 2 <= Len(t) /\ t[i + 1] = Sym("cr", 0) /\ t[i + 2] = Sym("lf", 0)
  <2>1. k + i \in 1 .. Len(s) /\ t[i] = s[k + i]
    BY <1>1, <1>2
  <2>2. k + i + 2 <= Len(s) /\ s[k + i + 1] = Sym("cr", 0) /\ s[k + i + 2] = Sym("lf", 0)
    BY <1>3, <2>1 DEF Blocks, Whole
  <2>3. /\ i + 1 \in 1 .. Len(s) - k /\ i + 2 \in 1 .. Len(s) - k
        /\ k + (i + 1) = k + i + 1 /\ k + (i + 2) = k + i + 2
    BY <1>1, <2>1, <2>2
  <2>4. t[i + 1] = s[k + i + 1] /\ t[i + 2] = s[k + i + 2]
    BY <1>2, <2>3
  <2> QED
    BY <1>1, <1>2, <2>2, <2>3, <2>4
<1>4. Whole(t)
  BY <1>3 DEF Whole
<1> QED
  BY <1>2, <1>4 DEF Blocks, t

LEMMA LineBlock ==
  ASSUME NEW x \in Symbols
  PROVE  Line(x) \in Blocks /\ Len(Line(x)) = 3 /\ CRLF \in Blocks /\ Len(CRLF) = 2
<1>1. Sym("cr", 0) \in Symbols /\ Sym("lf", 0) \in Symbols
  BY DEF Sym, Symbols, Kinds
<1>2. <<x>> \in Seq(Symbols) /\ Len(<<x>>) = 1 /\ CRLF \in Seq(Symbols) /\ Len(CRLF) = 2
  BY <1>1 DEF CRLF
<1>3. /\ Line(x) \in Seq(Symbols) /\ Len(Line(x)) = 3
      /\ \A i \in 1 .. 3 : Line(x)[i] = IF i <= 1 THEN <<x>>[i] ELSE CRLF[i - 1]
  <2>1. /\ <<x>> \o CRLF \in Seq(Symbols) /\ Len(<<x>> \o CRLF) = Len(<<x>>) + Len(CRLF)
        /\ \A i \in 1 .. Len(<<x>>) + Len(CRLF) :
             (<<x>> \o CRLF)[i] = IF i <= Len(<<x>>) THEN <<x>>[i] ELSE CRLF[i - Len(<<x>>)]
    BY <1>2, ConcatProperties
  <2>2. Len(<<x>>) = 1 /\ Len(CRLF) = 2 /\ Len(<<x>>) + Len(CRLF) = 3
    BY <1>2
  <2> QED
    BY <2>1, <2>2 DEF Line
<1>4. CRLF[1] = Sym("cr", 0) /\ CRLF[2] = Sym("lf", 0)
  BY DEF CRLF
<1>5. Line(x)[2] = Sym("cr", 0) /\ Line(x)[3] = Sym("lf", 0)
  BY <1>3, <1>4
<1>6. Sym("cr", 0).k = "cr" /\ Sym("lf", 0).k = "lf"
  BY DEF Sym
<1>7. Whole(Line(x))
  <2> SUFFICES ASSUME NEW i \in 1 .. 3, Line(x)[i].k \notin {"octet", "cr", "lf"}
               PROVE  i = 1
    BY <1>3, <1>5 DEF Whole
  <2> QED
    BY <1>5, <1>6
<1>8. Whole(CRLF)
  <2> SUFFICES ASSUME NEW i \in 1 .. 2 PROVE CRLF[i].k \in {"octet", "cr", "lf"}
    BY <1>2 DEF Whole
  <2> QED
    BY <1>4, <1>6
<1> QED
  BY <1>2, <1>3, <1>7, <1>8 DEF Blocks

LEMMA HeaderBlock ==
  ASSUME NEW m \in Messages
  PROVE  Header(m) \in Blocks
<1> DEFINE fold == IF m.folded THEN Line(Sym("field", 0)) \o Line(Sym("fold", 0)) ELSE <<>>
           frame == CASE m.framing = "length"  -> Line(Sym("length", m.length))
                      [] m.framing = "chunked" -> Line(Sym("chunked", 0))
                      [] m.framing = "none"    -> <<>>
           start == Line(Sym("start", IF m.bodiless THEN 1 ELSE 0))
<1>1. /\ Sym("start", IF m.bodiless THEN 1 ELSE 0) \in Symbols /\ Sym("field", 0) \in Symbols
      /\ Sym("fold", 0) \in Symbols /\ Sym("length", m.length) \in Symbols
      /\ Sym("chunked", 0) \in Symbols
  BY DEF Sym, Symbols, Messages, Kinds
<1>2. start \in Blocks /\ CRLF \in Blocks
  BY <1>1, LineBlock
<1>3. fold \in Blocks
  BY <1>1, LineBlock, JoinedBlocks, EmptyBlock
<1>4. frame \in Blocks
  BY <1>1, LineBlock, EmptyBlock DEF Messages
<1>5. Header(m) = start \o fold \o frame \o CRLF
  BY DEF Header
<1> HIDE DEF start, fold, frame
<1> QED
  BY <1>2, <1>3, <1>4, <1>5, JoinedBlocks

\* The octets of a body, however they are numbered
LEMMA OctetBlock ==
  ASSUME NEW l \in Nat, NEW f \in [1 .. l -> [k : {"octet"}, n : Nat]]
  PROVE  f \in Blocks /\ Len(f) = l
<1>1. [k : {"octet"}, n : Nat] \subseteq Symbols
  BY DEF Symbols, Kinds
<1>2. f \in [1 .. l -> Symbols]
  BY <1>1
<1>3. f \in Seq(Symbols)
  BY <1>2, SeqDef
<1>4. DOMAIN f = 1 .. l /\ DOMAIN f = 1 .. Len(f) /\ Len(f) \in Nat
  BY <1>3, LenProperties
<1>5. l \in 1 .. l \/ l = 0
  OBVIOUS
<1>6. Len(f) \in 1 .. Len(f) \/ Len(f) = 0
  BY <1>4
<1>7. l <= Len(f) /\ Len(f) <= l
  BY <1>4, <1>5, <1>6
<1>8. \A i \in 1 .. Len(f) : f[i].k = "octet"
  BY <1>4
<1>9. Whole(f)
  BY <1>8 DEF Whole
<1> QED
  BY <1>3, <1>4, <1>7, <1>9 DEF Blocks

Summer(m) == CHOOSE s : s = [i \in 0 .. Len(m.sizes) |->
                               IF i = 0 THEN 0 ELSE s[i - 1] + m.sizes[i]]

IsSummer(s, m, l) == s = [i \in 0 .. l |-> IF i = 0 THEN 0 ELSE s[i - 1] + m.sizes[i]]

LEMMA BeforeIs == \A m, j : Before(m, j) = Summer(m)[j]
  BY DEF Before, Summer

LEMMA SummerIs ==
  ASSUME NEW m \in Messages
  PROVE  /\ Summer(m)[0] = 0
         /\ \A i \in 1 .. Len(m.sizes) : Summer(m)[i] = Summer(m)[i - 1] + m.sizes[i]
<1>0. Len(m.sizes) \in Nat
  BY LenProperties DEF Messages
<1> DEFINE A == {l \in Nat : \E s : IsSummer(s, m, l)}
<1>1. 0 \in A
  <2> DEFINE g == [i \in 0 .. 0 |-> 0]
  <2>1. g = [i \in 0 .. 0 |-> IF i = 0 THEN 0 ELSE g[i - 1] + m.sizes[i]]
    OBVIOUS
  <2>2. IsSummer(g, m, 0)
    BY <2>1 DEF IsSummer
  <2> QED
    BY <2>2
<1>2. ASSUME NEW l \in Nat, l \in A PROVE l + 1 \in A
  <2>0. \E s : IsSummer(s, m, l)
    BY <1>2
  <2>1. PICK g : g = [i \in 0 .. l |-> IF i = 0 THEN 0 ELSE g[i - 1] + m.sizes[i]]
    BY <2>0 DEF IsSummer
  <2> DEFINE h == [i \in 0 .. l + 1 |-> IF i <= l THEN g[i] ELSE g[l] + m.sizes[i]]
  <2>2. \A i \in 0 .. l + 1 : h[i] = IF i = 0 THEN 0 ELSE h[i - 1] + m.sizes[i]
    <3> SUFFICES ASSUME NEW i \in 0 .. l + 1
                 PROVE  h[i] = IF i = 0 THEN 0 ELSE h[i - 1] + m.sizes[i]
      OBVIOUS
    <3>1. CASE i = 0
      BY <2>1, <3>1
    <3>2. CASE i \in 1 .. l
      BY <2>1, <3>2
    <3>3. CASE i = l + 1
      <4>1. h[l] = g[l] /\ i - 1 = l /\ i # 0 /\ ~(i <= l)
        BY <3>3
      <4>2. h[i] = g[l] + m.sizes[i]
        BY <4>1
      <4> QED
        BY <4>1, <4>2
    <3> QED
      BY <3>1, <3>2, <3>3
  <2>3. h = [i \in 0 .. l + 1 |-> IF i = 0 THEN 0 ELSE h[i - 1] + m.sizes[i]]
    BY <2>2
  <2>4. IsSummer(h, m, l + 1)
    BY <2>3 DEF IsSummer
  <2> QED
    BY <2>4
<1>3. Len(m.sizes) \in A
  <2> HIDE DEF A
  <2> QED
    BY <1>0, <1>1, <1>2, Induction
<1>4. \E s : s = [i \in 0 .. Len(m.sizes) |-> IF i = 0 THEN 0 ELSE s[i - 1] + m.sizes[i]]
  BY <1>0, <1>3 DEF IsSummer
<1>5. Summer(m) = [i \in 0 .. Len(m.sizes) |->
                     IF i = 0 THEN 0 ELSE Summer(m)[i - 1] + m.sizes[i]]
  BY <1>4 DEF Summer
<1> QED
  BY <1>0, <1>5

LEMMA BeforeIsNatural ==
  ASSUME NEW m \in Messages, NEW j \in 0 .. Len(m.sizes)
  PROVE  Before(m, j) \in Nat
<1>0. Len(m.sizes) \in Nat /\ \A i \in 1 .. Len(m.sizes) : m.sizes[i] \in Nat
  BY LenProperties, ElementOfSeq DEF Messages
<1> DEFINE A == {l \in Nat : l <= Len(m.sizes) => Summer(m)[l] \in Nat}
<1>1. 0 \in A
  BY SummerIs
<1>2. ASSUME NEW l \in Nat, l \in A PROVE l + 1 \in A
  <2> SUFFICES ASSUME l + 1 <= Len(m.sizes) PROVE Summer(m)[l + 1] \in Nat
    OBVIOUS
  <2>1. l + 1 \in 1 .. Len(m.sizes) /\ l + 1 - 1 = l /\ Summer(m)[l] \in Nat
    BY <1>0, <1>2
  <2>2. Summer(m)[l + 1] = Summer(m)[l] + m.sizes[l + 1]
    BY <2>1, SummerIs
  <2> QED
    BY <1>0, <2>1, <2>2
<1>3. j \in A
  <2> HIDE DEF A
  <2> QED
    BY <1>0, <1>1, <1>2, Induction
<1> QED
  BY <1>0, <1>3, BeforeIs

LEMMA PieceBlock ==
  ASSUME NEW m \in Messages, NEW j \in 1 .. Len(m.sizes)
  PROVE  Piece(m, j) \in Blocks
<1>1. Len(m.sizes) \in Nat /\ m.sizes[j] \in Nat
  BY LenProperties, ElementOfSeq DEF Messages
<1>2. Before(m, j - 1) \in Nat
  BY <1>1, BeforeIsNatural
<1>3. Piece(m, j) \in [1 .. m.sizes[j] -> [k : {"octet"}, n : Nat]]
  BY <1>2 DEF Piece, Sym
<1> QED
  BY <1>1, <1>3, OctetBlock

LEMMA BodyBlock ==
  ASSUME NEW m \in Messages
  PROVE  Body(m) \in Blocks
<1>1. Len(m.sizes) \in Nat
  BY LenProperties DEF Messages
<1>2. Total(m) \in Nat
  BY <1>1, BeforeIsNatural DEF Total
<1>3. Body(m) \in [1 .. Total(m) -> [k : {"octet"}, n : Nat]]
  BY DEF Body, Sym
<1> QED
  BY <1>2, <1>3, OctetBlock

LEMMA ChunkBlock ==
  ASSUME NEW d \in Blocks
  PROVE  Chunk(d) \in Blocks /\ \A t \in BOOLEAN : LastChunk(t) \in Blocks
<1>1. Len(d) \in Nat
  BY LenProperties DEF Blocks
<1>2. Sym("size", Len(d)) \in Symbols /\ Sym("size", 0) \in Symbols /\ Sym("field", 0) \in Symbols
  BY <1>1 DEF Sym, Symbols, Kinds
<1>3. /\ Line(Sym("size", Len(d))) \in Blocks /\ Line(Sym("size", 0)) \in Blocks
      /\ Line(Sym("field", 0)) \in Blocks /\ CRLF \in Blocks /\ <<>> \in Blocks
  BY <1>2, LineBlock, EmptyBlock
<1>4. Chunk(d) \in Blocks
  BY <1>3, JoinedBlocks DEF Chunk
<1>5. ASSUME NEW t \in BOOLEAN PROVE LastChunk(t) \in Blocks
  BY <1>3, JoinedBlocks DEF LastChunk
<1> QED
  BY <1>4, <1>5

-----------------------------------------------------------------------------
(* The sender *)

\* The states in which the serializer has nothing to show yet, and the others
Quiet == {"construct", "init", "body", "body1", "final", "complete"}
Visiting == {"header", "header_only", "all", "body2", "final1", "body_final"}
Sers == [s : Quiet \cup Visiting, view : Blocks, more : BOOLEAN, split : BOOLEAN, done : BOOLEAN,
         piece : Nat, data : BOOLEAN, toggle : BOOLEAN, last : BOOLEAN]
WriteOps == [pc : {"idle", "next", "io", "post", "told"}, until : {"done", "header", "some"},
             n : Nat, ec : {"", "need_buffer", "error"}]

\* The serializer w of the message at hand: the buffers it still has to show are
\* blocks of the message, and the writer has not run past the last of its buffers
Serializes(w) ==
  /\ w \in Sers
  /\ Msg.writer # "chunks" => w.piece <= Len(Msg.sizes)
  /\ Msg.writer = "buffer" /\ w.data => w.piece < Len(Msg.sizes)
  /\ w.s \in Quiet => w.view = <<>>

SenderTypes ==
  /\ script \in Seq(Messages) /\ at \in 1 .. Len(script)
  /\ mode \in {"write", "header", "split_some"} /\ closed \in BOOLEAN
  /\ Serializes(ser)
  /\ wop \in WriteOps
  /\ wop.pc = "idle" => wop = IdleOp
  /\ wop.pc = "io" => ser.s \in Visiting
  /\ wop.pc = "post" /\ wop.ec = "" => ser.s = "complete"
  /\ wop.ec = "need_buffer" => Msg.writer = "buffer"

LEMMA MsgType ==
  ASSUME SenderTypes
  PROVE  Msg \in Messages /\ Len(Msg.sizes) \in Nat
<1>1. Msg \in Messages
  BY ElementOfSeq DEF SenderTypes, Msg
<1> QED
  BY <1>1, LenProperties DEF Messages

LEMMA GetGives ==
  ASSUME SenderTypes, NEW w, Serializes(w)
  PROVE  LET g == Get(w) IN
         /\ g.r \in {"none", "buffer", "need_buffer"} /\ g.d \in Blocks /\ g.more \in BOOLEAN
         /\ g.r = "need_buffer" => Msg.writer = "buffer"
         /\ Serializes(g.w) /\ g.w.s = w.s /\ g.w.view = w.view
         /\ g.w.split = w.split /\ g.w.done = w.done
<1>1. Msg \in Messages /\ Len(Msg.sizes) \in Nat /\ w \in Sers
  BY MsgType DEF Serializes
<1>2. CASE Msg.writer = "string"
  BY <1>1, <1>2, BodyBlock DEF Get, Buffer
<1>3. CASE Msg.writer \in {"empty", "chunks"}
  BY <1>1, <1>3, EmptyBlock DEF Get, Nothing
<1>4. CASE Msg.writer = "file"
  <2>1. CASE w.piece = Len(Msg.sizes)
    BY <1>1, <1>4, <2>1, EmptyBlock DEF Get, Nothing
  <2>2. CASE w.piece # Len(Msg.sizes)
    <3>1. w.piece \in Nat /\ w.piece + 1 \in 1 .. Len(Msg.sizes)
      BY <1>1, <1>4, <2>2 DEF Serializes, Sers
    <3>2. Get(w) = Buffer(Piece(Msg, w.piece + 1), w.piece + 1 < Len(Msg.sizes),
                          [w EXCEPT !.piece = w.piece + 1])
      BY <1>4, <2>2 DEF Get
    <3>3. Serializes([w EXCEPT !.piece = w.piece + 1])
      BY <1>1, <1>4, <3>1 DEF Serializes, Sers
    <3> QED
      BY <1>1, <3>1, <3>2, <3>3, PieceBlock DEF Buffer, Sers
  <2> QED
    BY <2>1, <2>2
<1>5. CASE Msg.writer = "buffer"
  <2>1. CASE w.toggle
    <3>1. Serializes([w EXCEPT !.toggle = FALSE])
      BY <1>1 DEF Serializes, Sers
    <3>2. Get(w) = IF w.last THEN Nothing(w) ELSE NeedBuffer([w EXCEPT !.toggle = FALSE])
      BY <1>5, <2>1 DEF Get
    <3> QED
      BY <1>1, <1>5, <3>1, <3>2, EmptyBlock DEF Nothing, NeedBuffer, Sers
  <2>2. CASE ~w.toggle /\ w.data
    <3>1. w.piece + 1 \in 1 .. Len(Msg.sizes)
      BY <1>1, <1>5, <2>2 DEF Serializes, Sers
    <3>2. Serializes([w EXCEPT !.toggle = TRUE])
      BY <1>1 DEF Serializes, Sers
    <3>3. Get(w) = Buffer(Piece(Msg, w.piece + 1), ~w.last, [w EXCEPT !.toggle = TRUE])
      BY <1>5, <2>2 DEF Get
    <3> QED
      BY <1>1, <3>1, <3>2, <3>3, PieceBlock DEF Buffer, Sers
  <2>3. CASE ~w.toggle /\ ~w.data
    <3>1. Get(w) = IF w.last THEN Nothing(w) ELSE NeedBuffer(w)
      BY <1>5, <2>3 DEF Get
    <3> QED
      BY <1>1, <1>5, <3>1, EmptyBlock DEF Nothing, NeedBuffer, Sers
  <2> QED
    BY <2>1, <2>2, <2>3
<1> QED
  BY <1>1, <1>2, <1>3, <1>4, <1>5 DEF Messages

LEMMA VisitsGives ==
  ASSUME SenderTypes, NEW w, Serializes(w), NEW s \in Visiting, NEW view \in Blocks
  PROVE  /\ Serializes(Visits(w, s, view).w)
         /\ Visits(w, s, view).w.s = s /\ Visits(w, s, view).w.view = view
         /\ Visits(w, s, view).visit = TRUE /\ Visits(w, s, view).ec = ""
         /\ Visits(w, s, view).w.split = w.split /\ Visits(w, s, view).w.done = w.done
<1>1. w \in Sers /\ s \notin Quiet
  BY DEF Serializes, Visiting, Quiet
<1>2. [w EXCEPT !.s = s, !.view = view] \in Sers
  BY <1>1 DEF Sers
<1> QED
  BY <1>1, <1>2 DEF Visits, Serializes, Sers

\* What next does, for a serializer that is not done
Advanced(w, x) ==
  /\ Serializes(x.w) /\ x.ec \in {"", "need_buffer"} /\ x.visit \in BOOLEAN
  /\ x.w.split = w.split /\ x.w.done = w.done
  /\ x.visit => x.w.s \in Visiting
  /\ ~x.visit => x.w.s \in Quiet
  /\ ~x.visit /\ x.ec = "" => x.w.s = "complete"
  /\ x.ec = "need_buffer" => Msg.writer = "buffer"
  /\ w.s \in Visiting => x.w = w

\* The serializer stays quiet and needs a buffer, or is done
LEMMA StaysQuiet ==
  ASSUME SenderTypes, NEW w, NEW g, Serializes(w), Serializes(g), g.view = w.view,
         w.s \in Quiet, g.split = w.split, g.done = w.done, NEW s \in Quiet,
         NEW ec \in {"", "need_buffer"}, ec = "" => s = "complete",
         ec = "need_buffer" => Msg.writer = "buffer"
  PROVE  Advanced(w, [w |-> [g EXCEPT !.s = s], ec |-> ec, visit |-> FALSE])
<1>1. g \in Sers /\ w.view = <<>>
  BY DEF Serializes
<1>2. Serializes([g EXCEPT !.s = s])
  BY <1>1 DEF Serializes, Sers
<1>3. w.s \notin Visiting
  BY DEF Quiet, Visiting
<1> QED
  BY <1>1, <1>2, <1>3 DEF Advanced, Sers

LEMMA GoesOn ==
  ASSUME SenderTypes, NEW w, NEW g, Serializes(w), Serializes(g), w.s \in Quiet,
         g.split = w.split, g.done = w.done, NEW s \in Visiting, NEW view \in Blocks
  PROVE  Advanced(w, Visits(g, s, view))
<1>1. w.s \notin Visiting
  BY DEF Quiet, Visiting
<1> DEFINE x == Visits(g, s, view)
<1>2. /\ Serializes(x.w) /\ x.w.s = s /\ x.visit = TRUE /\ x.ec = ""
      /\ x.w.split = g.split /\ x.w.done = g.done
  <2>1. g \in Sers /\ s \in Visiting /\ view \in Blocks /\ Serializes(g)
    BY DEF Serializes
  <2>2. Serializes(x.w)
    BY <2>1, VisitsGives
  <2>3. x.w.s = s
    BY <2>1 DEF Visits, Sers
  <2>4. x.visit = TRUE /\ x.ec = ""
    BY DEF Visits
  <2>5. x.w.split = g.split /\ x.w.done = g.done
    BY <2>1 DEF Visits, Sers
  <2> QED
    BY <2>2, <2>3, <2>4, <2>5
<1>3. x.w.split = w.split /\ x.w.done = w.done
  BY <1>2
<1> HIDE DEF x
<1>4. Advanced(w, x)
  BY <1>1, <1>2, <1>3 DEF Advanced
<1> QED
  BY <1>4 DEF x

LEMMA NextGives ==
  ASSUME SenderTypes, NEW w, Serializes(w), w.s # "complete"
  PROVE  Advanced(w, SerNext(w))
<1> DEFINE g == Get(w)
           w1 == [g.w EXCEPT !.more = g.more]
<1>1. Msg \in Messages /\ w \in Sers
  BY MsgType DEF Serializes
<1>2. /\ g.r \in {"none", "buffer", "need_buffer"} /\ g.d \in Blocks /\ g.more \in BOOLEAN
      /\ g.r = "need_buffer" => Msg.writer = "buffer"
      /\ Serializes(g.w) /\ g.w.s = w.s /\ g.w.view = w.view
      /\ g.w.split = w.split /\ g.w.done = w.done
  BY GetGives
<1>3. Serializes(w1) /\ w1.split = w.split /\ w1.done = w.done
  <2>1. g.w \in Sers
    BY <1>2 DEF Serializes
  <2> HIDE DEF g
  <2> QED
    BY <1>2, <2>1 DEF Serializes, Sers
<1>4. /\ Header(Msg) \in Blocks /\ Chunk(g.d) \in Blocks /\ LastChunk(FALSE) \in Blocks
  BY <1>1, <1>2, HeaderBlock, ChunkBlock
<1>5. {"header", "header_only", "all", "body2", "final1", "body_final"} = Visiting
  BY DEF Visiting
<1>6. {"construct", "init", "body", "body1", "final", "complete"} = Quiet
  BY DEF Quiet
<1>7. CASE w.s \in {"construct", "init"}
  <2>1. SerNext(w) = NextInit(w)
    BY <1>7 DEF SerNext
  <2>2. w.s \in Quiet
    BY <1>6, <1>7
  <2>3. Advanced(w, HeaderOnly(w)) /\ Advanced(w, HeaderOnly(g.w))
    <3> HIDE DEF g
    <3> QED
      BY <1>2, <1>4, <1>5, <2>2, GoesOn DEF HeaderOnly
  <2>4. CASE HeaderFirst(w)
    BY <2>1, <2>3, <2>4 DEF NextInit
  <2>5. CASE ~HeaderFirst(w) /\ g.r = "need_buffer"
    <3>1. SerNext(w) = [w |-> [g.w EXCEPT !.s = "init"], ec |-> "need_buffer", visit |-> FALSE]
      BY <2>1, <2>5 DEF NextInit
    <3> HIDE DEF g
    <3> QED
      BY <1>2, <1>6, <2>2, <2>5, <3>1, StaysQuiet
  <2>6. CASE ~HeaderFirst(w) /\ g.r = "none"
    <3>1. SerNext(w) = HeaderOnly(g.w)
      BY <2>1, <2>6 DEF NextInit
    <3> QED
      BY <2>3, <3>1
  <2>7. CASE ~HeaderFirst(w) /\ g.r = "buffer"
    <3>1. \/ SerNext(w) = Visits(w1, "header", Header(Msg) \o g.d)
          \/ SerNext(w) = Visits(w1, "header", Header(Msg) \o Chunk(g.d))
          \/ SerNext(w) = Visits(w1, "all", Header(Msg) \o Chunk(g.d) \o LastChunk(FALSE))
      BY <1>2, <2>1, <2>7 DEF NextInit
    <3> HIDE DEF g, w1
    <3>2. /\ Header(Msg) \o g.d \in Blocks /\ Header(Msg) \o Chunk(g.d) \in Blocks
          /\ Header(Msg) \o Chunk(g.d) \o LastChunk(FALSE) \in Blocks
      BY <1>2, <1>4, JoinedBlocks
    <3> QED
      BY <1>3, <1>5, <2>2, <3>1, <3>2, GoesOn
  <2> QED
    BY <1>2, <2>4, <2>5, <2>6, <2>7
<1>8. CASE w.s \in {"body", "body1"}
  <2>1. SerNext(w) = NextBody(w)
    BY <1>8 DEF SerNext
  <2>2. w.s \in Quiet
    BY <1>6, <1>8
  <2>3. CASE g.r = "need_buffer"
    <3>1. SerNext(w) = [w |-> [g.w EXCEPT !.s = "body1"], ec |-> "need_buffer", visit |-> FALSE]
      BY <2>1, <2>3 DEF NextBody
    <3> HIDE DEF g
    <3> QED
      BY <1>2, <1>6, <2>2, <2>3, <3>1, StaysQuiet
  <2>4. CASE g.r = "none" /\ ~Chunked
    <3>1. SerNext(w) = [w |-> [g.w EXCEPT !.s = "complete"], ec |-> "", visit |-> FALSE]
      BY <2>1, <2>4 DEF NextBody
    <3> HIDE DEF g
    <3> QED
      BY <1>2, <1>6, <2>2, <2>4, <3>1, StaysQuiet
  <2>5. CASE g.r = "none" /\ Chunked
    <3>1. SerNext(w) = Visits(g.w, "final1", LastChunk(FALSE))
      BY <2>1, <2>5 DEF NextBody
    <3> HIDE DEF g
    <3> QED
      BY <1>2, <1>4, <1>5, <2>2, <3>1, GoesOn
  <2>6. CASE g.r = "buffer"
    <3>1. \/ SerNext(w) = Visits(w1, "body2", g.d)
          \/ SerNext(w) = Visits(w1, "body2", Chunk(g.d))
          \/ SerNext(w) = Visits(w1, "body_final", Chunk(g.d) \o LastChunk(FALSE))
      BY <1>2, <2>1, <2>6 DEF NextBody
    <3> HIDE DEF g, w1
    <3>2. Chunk(g.d) \o LastChunk(FALSE) \in Blocks
      BY <1>4, JoinedBlocks
    <3> QED
      BY <1>2, <1>3, <1>4, <1>5, <2>2, <3>1, <3>2, GoesOn
  <2> QED
    BY <1>2, <2>3, <2>4, <2>5, <2>6
<1>9. CASE w.s = "final"
  <2>1. SerNext(w) = Visits(w, "final1", LastChunk(FALSE))
    BY <1>9 DEF SerNext
  <2> QED
    BY <1>4, <1>5, <1>6, <1>9, <2>1, GoesOn
<1>10. CASE w.s \in Visiting
  <2>1. SerNext(w) = Visits(w, w.s, w.view)
    BY <1>10 DEF SerNext, Visiting
  <2>2. [w EXCEPT !.s = w.s, !.view = w.view] = w /\ w.view \in Blocks
    BY <1>1 DEF Sers
  <2>3. SerNext(w) = [w |-> w, ec |-> "", visit |-> TRUE]
    BY <2>1, <2>2 DEF Visits
  <2> DEFINE x == SerNext(w)
  <2>4. x.w = w /\ x.ec = "" /\ x.visit = TRUE
    <3> DEFINE y == [w |-> w, ec |-> "", visit |-> TRUE]
    <3>1. y.w = w /\ y.ec = "" /\ y.visit = TRUE
      OBVIOUS
    <3> HIDE DEF y
    <3>2. x = y
      BY <2>3 DEF y
    <3> HIDE DEF x
    <3> QED
      BY <3>1, <3>2
  <2> HIDE DEF x
  <2>5. Advanced(w, x)
    BY <1>10, <2>4 DEF Advanced
  <2> QED
    BY <2>5 DEF x
<1> QED
  BY <1>1, <1>7, <1>8, <1>9, <1>10 DEF Sers, Quiet

\* What consume(n) does: in the end the buffers of v_ are gone
Consumed(w, n, c) ==
  /\ Serializes(c) /\ c.split = w.split /\ (w.done => c.done)
  /\ w.s \in Visiting => c.view = SubSeq(w.view, n + 1, Len(w.view))
  /\ w.s = "complete" => c = w

LEMMA ConsumeGives ==
  ASSUME SenderTypes, NEW w, Serializes(w), w.s \in Visiting \cup {"complete"},
         NEW n \in 0 .. Len(w.view)
  PROVE  Consumed(w, n, SerConsume(w, n))
<1> DEFINE v == SubSeq(w.view, n + 1, Len(w.view))
           next == CASE w.s \in {"header", "body2"} -> AfterBuffers(w)
                     [] w.s = "header_only" /\ w.split -> "body"
                     [] w.s = "header_only" /\ ~w.split -> AfterBuffers([w EXCEPT !.more = FALSE])
                     [] OTHER -> "complete"
           done == w.done \/ w.s \in {"header", "header_only", "all"}
<1>1. w \in Sers /\ w.view \in Blocks /\ w.done \in BOOLEAN
  BY DEF Serializes, Sers
<1>2. v \in Blocks
  BY <1>1, RestOfBlock
<1>3. next \in Quiet
  BY <1>1 DEF AfterBuffers, Quiet, Sers
<1>4. CASE w.s = "complete"
  <2>1. SerConsume(w, n) = w
    BY <1>4 DEF SerConsume
  <2>2. w.s \notin Visiting
    BY <1>4 DEF Visiting
  <2> QED
    BY <2>1, <2>2 DEF Consumed
<1>5. CASE w.s \in Visiting
  <2>0. w.s # "complete" /\ w.s \notin Quiet
    BY <1>5 DEF Visiting, Quiet
  <2>1. CASE v = <<>>
    <3>1. SerConsume(w, n) = [w EXCEPT !.s = next, !.view = <<>>, !.done = done]
      BY <2>0, <2>1 DEF SerConsume
    <3> DEFINE c == [w EXCEPT !.s = next, !.view = <<>>, !.done = done]
    <3> HIDE DEF next
    <3>2. c \in Sers /\ c.view = <<>> /\ c.split = w.split /\ (w.done => c.done)
            /\ c.piece = w.piece /\ c.data = w.data
      BY <1>1, <1>3, EmptyBlock DEF Sers
    <3> HIDE DEF c
    <3>3. Serializes(c)
      BY <3>2 DEF Serializes
    <3>4. Consumed(w, n, c)
      BY <2>0, <2>1, <3>2, <3>3 DEF Consumed
    <3> QED
      BY <3>1, <3>4 DEF c
  <2>2. CASE v # <<>>
    <3>1. SerConsume(w, n) = [w EXCEPT !.view = v]
      BY <2>0, <2>2 DEF SerConsume
    <3> DEFINE c == [w EXCEPT !.view = v]
    <3> HIDE DEF v
    <3>2. c \in Sers /\ c.view = v /\ c.split = w.split /\ c.done = w.done
            /\ c.piece = w.piece /\ c.data = w.data /\ c.s = w.s
      BY <1>1, <1>2 DEF Sers
    <3> HIDE DEF c
    <3>3. Serializes(c)
      BY <2>0, <3>2 DEF Serializes
    <3>4. Consumed(w, n, c)
      BY <2>0, <3>2, <3>3 DEF Consumed, v
    <3> QED
      BY <3>1, <3>4 DEF c
  <2> QED
    BY <2>1, <2>2
<1> QED
  BY <1>4, <1>5

\* write_header: the symbols of the header are written or shown, and nothing else is
HeaderInv ==
  /\ mode = "header" /\ ~ser.done =>
       IF wop.pc = "idle" THEN closed \/ ser.s = "construct" ELSE wop.until = "header"
  /\ wop.until = "header" =>
       /\ mode = "header" /\ ser.split
       /\ wop.pc # "post"
       /\ wop.pc = "next" =>
            /\ ~ser.done
            /\ \/ ser.s = "construct" /\ wop.n = 0
               \/ ser.s = "header_only" /\ wop.n + Len(ser.view) = Len(Header(Msg))
       /\ wop.pc = "io" =>
            ~ser.done /\ ser.s = "header_only" /\ wop.n + Len(ser.view) = Len(Header(Msg))
       /\ wop.pc = "told" =>
            \/ wop.ec = "error"
            \/ wop.ec = "" /\ ser.done /\ ser.s = "body" /\ wop.n = Len(Header(Msg))

SenderInv == SenderTypes /\ HeaderInv

LEMMA NewSerializes ==
  ASSUME NEW m \in Messages, NEW w \in NewSers(m)
  PROVE  /\ w \in Sers /\ w.s = "construct" /\ ~w.done /\ w.piece = 0 /\ w.view = <<>>
         /\ m.writer # "chunks" => w.piece <= Len(m.sizes)
         /\ m.writer = "buffer" /\ w.data => w.piece < Len(m.sizes)
<1>1. m.sizes \in Seq(Nat) /\ Len(m.sizes) \in Nat /\ (m.sizes # <<>> => Len(m.sizes) > 0)
  BY LenProperties, EmptySeq DEF Messages
<1>2. PICK data \in IF m.writer = "buffer" /\ m.sizes # <<>> THEN BOOLEAN ELSE {FALSE} :
        w = NewSer(m, data)
  BY DEF NewSers
<1>3. data \in BOOLEAN /\ (data => m.sizes # <<>>)
  BY <1>2
<1>4. (data /\ Len(m.sizes) = 1) \in BOOLEAN
  OBVIOUS
<1>5. w \in Sers
  BY <1>2, <1>3, <1>4, EmptyBlock DEF NewSer, Sers, Quiet
<1> QED
  BY <1>1, <1>2, <1>3, <1>5 DEF NewSer

LEMMA SenderStarts == Init => SenderInv
<1> SUFFICES ASSUME Init PROVE SenderInv
  OBVIOUS
<1> USE DEF Init, SerInit
<1>1. script \in Seq(Messages) /\ script # <<>>
  BY ConstantsAssumption DEF ConstantsAssumption
<1>2. 1 \in 1 .. Len(script)
  BY <1>1, EmptySeq
<1>3. script[1] \in Messages /\ Msg = script[1]
  BY <1>1, <1>2, ElementOfSeq DEF Msg
<1>4. mode \in {"write", "header", "split_some"}
  BY ConstantsAssumption DEF ConstantsAssumption, ModesOf
<1>5. Serializes(ser) /\ ser.s = "construct"
  BY <1>3, NewSerializes DEF Serializes
<1>6. /\ wop \in WriteOps /\ wop = IdleOp /\ wop.pc = "idle" /\ wop.until = "done" /\ wop.ec = ""
      /\ closed = FALSE /\ at = 1
  BY DEF WriteOps, IdleOp
<1> HIDE DEF Init, SerInit
<1>7. SenderTypes
  BY <1>1, <1>2, <1>4, <1>5, <1>6 DEF SenderTypes
<1>8. HeaderInv
  BY <1>5, <1>6 DEF HeaderInv
<1> QED
  BY <1>7, <1>8 DEF SenderInv

\* A step that stays with the message
LEMMA SameMessage ==
  ASSUME SenderTypes, UNCHANGED <<script, at, mode>>, closed' \in BOOLEAN,
         Serializes(ser'), wop' \in WriteOps,
         wop'.pc = "idle" => wop' = IdleOp,
         wop'.pc = "io" => ser'.s \in Visiting,
         wop'.pc = "post" /\ wop'.ec = "" => ser'.s = "complete",
         wop'.ec = "need_buffer" => Msg.writer = "buffer"
  PROVE  SenderTypes' /\ Msg' = Msg
<1>1. Msg' = Msg
  BY DEF Msg
<1>2. Serializes(ser)'
  BY <1>1 DEF Serializes
<1>3. IdleOp' = IdleOp
  BY DEF IdleOp
<1> QED
  BY <1>1, <1>2, <1>3 DEF SenderTypes

LEMMA StartWriteKeeps ==
  ASSUME SenderInv, StartWrite
  PROVE  SenderInv'
<1> USE DEF SenderInv
<1>1. PICK op \in {"header", "some", "done"} :
        /\ op = CASE mode = "header" /\ ~ser.done -> "header"
                  [] mode = "split_some" /\ ser.s = "construct" -> "some"
                  [] OTHER -> "done"
        /\ ser' = [ser EXCEPT !.split = op # "done"]
        /\ wop' = [pc |-> "next", until |-> op, n |-> 0, ec |-> ""]
        /\ wop.pc = "idle" /\ ~closed
        /\ UNCHANGED <<script, at, mode, closed>>
  BY DEF StartWrite
<1>2. ser \in Sers /\ Serializes(ser)
  BY DEF SenderTypes, Serializes
<1>3. (op # "done") \in BOOLEAN
  OBVIOUS
<1>4. /\ ser' \in Sers /\ ser'.s = ser.s /\ ser'.view = ser.view /\ ser'.done = ser.done
      /\ ser'.piece = ser.piece /\ ser'.data = ser.data /\ (op = "header" => ser'.split)
  BY <1>1, <1>2, <1>3 DEF Sers
<1>5. Serializes(ser')
  BY <1>2, <1>4 DEF Serializes
<1>6. /\ wop' \in WriteOps /\ wop'.pc = "next" /\ wop'.n = 0 /\ wop'.ec = "" /\ wop'.until = op
  BY <1>1 DEF WriteOps
<1>7. SenderTypes' /\ Msg' = Msg
  BY <1>1, <1>5, <1>6, SameMessage DEF SenderTypes
<1>8. op = "header" <=> mode = "header" /\ ~ser.done
  BY <1>1
<1>9. HeaderInv'
  BY <1>1, <1>4, <1>6, <1>8 DEF HeaderInv
<1> QED
  BY <1>7, <1>9

LEMMA WriteNextKeeps ==
  ASSUME SenderInv, WriteNext
  PROVE  SenderInv'
<1> USE DEF SenderInv
<1>1. ser \in Sers /\ Serializes(ser) /\ wop \in WriteOps /\ wop.pc = "next"
  BY DEF SenderTypes, Serializes, WriteNext
<1>2. UNCHANGED <<script, at, mode, closed>> /\ closed' \in BOOLEAN
  BY DEF WriteNext, SenderTypes
<1>3. CASE ser.s = "complete"
  <2>1. wop' = [wop EXCEPT !.pc = "post"] /\ UNCHANGED ser
    BY <1>3 DEF WriteNext
  <2>2. wop' \in WriteOps /\ wop'.pc = "post" /\ wop'.ec = wop.ec /\ wop'.until = wop.until
    BY <1>1, <2>1 DEF WriteOps
  <2>3. SenderTypes' /\ Msg' = Msg
    BY <1>1, <1>2, <1>3, <2>1, <2>2, SameMessage DEF SenderTypes
  <2>4. wop.until # "header"
    BY <1>1, <1>3 DEF HeaderInv
  <2>5. HeaderInv'
    BY <1>1, <1>2, <2>1, <2>2, <2>4 DEF HeaderInv
  <2> QED
    BY <2>3, <2>5
<1>4. CASE ser.s # "complete"
  <2> DEFINE x == SerNext(ser)
  <2>1. ser' = x.w /\ wop' = [wop EXCEPT !.pc = IF x.visit THEN "io" ELSE "post", !.ec = x.ec]
    BY <1>4 DEF WriteNext
  <2>2. Advanced(ser, x)
    BY <1>1, <1>4, NextGives
  <2> HIDE DEF x
  <2>3. /\ wop' \in WriteOps /\ wop'.ec = x.ec /\ wop'.until = wop.until /\ wop'.n = wop.n
        /\ wop'.pc = IF x.visit THEN "io" ELSE "post"
    BY <1>1, <2>1, <2>2 DEF WriteOps, Advanced
  <2>4. Serializes(ser')
    BY <2>1, <2>2 DEF Advanced
  <2>5. SenderTypes' /\ Msg' = Msg
    <3>1. wop'.pc = "io" => ser'.s \in Visiting
      <4>1. wop'.pc = "io" => x.visit
        BY <2>3
      <4>2. x.visit => x.w.s \in Visiting
        BY <2>2 DEF Advanced
      <4> QED
        BY <2>1, <4>1, <4>2
    <3>2. wop'.pc = "post" /\ wop'.ec = "" => ser'.s = "complete"
      <4>1. wop'.pc = "post" => ~x.visit
        BY <2>3
      <4>2. ~x.visit /\ x.ec = "" => x.w.s = "complete"
        BY <2>2 DEF Advanced
      <4> QED
        BY <2>1, <2>3, <4>1, <4>2
    <3>3. wop'.ec = "need_buffer" => Msg.writer = "buffer"
      BY <2>2, <2>3 DEF Advanced
    <3>4. wop'.pc # "idle"
      BY <2>3
    <3> QED
      BY <1>2, <2>3, <2>4, <3>1, <3>2, <3>3, <3>4, SameMessage
  <2>6. HeaderInv'
    <3>1. CASE wop.until # "header"
      <4>1. ser'.done = ser.done
        BY <2>1, <2>2 DEF Advanced
      <4> QED
        BY <1>1, <1>2, <2>3, <3>1, <4>1 DEF HeaderInv
    <3>2. CASE wop.until = "header"
      <4>1. /\ mode = "header" /\ ser.split /\ ~ser.done
            /\ \/ ser.s = "construct" /\ wop.n = 0
               \/ ser.s = "header_only" /\ wop.n + Len(ser.view) = Len(Header(Msg))
        BY <1>1, <3>2 DEF HeaderInv
      <4>2. x.visit /\ ser'.s = "header_only" /\ wop.n + Len(ser'.view) = Len(Header(Msg))
        <5>1. CASE ser.s = "construct"
          <6>1. x = HeaderOnly(ser)
            BY <4>1, <5>1 DEF x, SerNext, NextInit, HeaderFirst
          <6>2. x.visit /\ x.w.s = "header_only" /\ x.w.view = Header(Msg)
            BY <1>1, <6>1 DEF HeaderOnly, Visits, Sers
          <6>3. Header(Msg) \in Blocks
            BY HeaderBlock, MsgType
          <6>4. Len(Header(Msg)) \in Nat
            BY <6>3, LenProperties DEF Blocks
          <6> QED
            BY <2>1, <4>1, <5>1, <6>2, <6>4
        <5>2. CASE ser.s = "header_only"
          <6>1. x.w = ser
            BY <2>2, <5>2 DEF Advanced, Visiting
          <6>2. x.visit = TRUE
            BY <5>2 DEF x, SerNext, Visits
          <6> QED
            BY <2>1, <4>1, <5>2, <6>1, <6>2
        <5> QED
          BY <4>1, <5>1, <5>2
      <4>3. ser'.split = ser.split /\ ser'.done = ser.done
        BY <2>1, <2>2 DEF Advanced
      <4> QED
        BY <1>2, <2>3, <2>5, <3>2, <4>1, <4>2, <4>3 DEF HeaderInv
    <3> QED
      BY <3>1, <3>2
  <2> QED
    BY <2>5, <2>6
<1> QED
  BY <1>3, <1>4

\* A write that ends, with ec, or the completion that was posted
Ends(n, ec) ==
  /\ ec \in {"", "need_buffer", "error"}
  /\ wop.pc \in {"io", "post"}
  /\ wop.pc = "post" => n = 0 /\ ec = wop.ec
  /\ wop.pc = "io" => ec # "need_buffer"

\* Where the operation goes on after a write, with n symbols written or an error
LEMMA WriteResumesKeeps ==
  ASSUME SenderInv, NEW n \in Nat, n <= Len(ser.view),
         NEW ec, Ends(n, ec), WriteResumes(n, ec),
         UNCHANGED <<script, at, mode, closed>>
  PROVE  SenderInv'
<1> USE DEF SenderInv
<1> DEFINE w == IF ec = "" THEN SerConsume(ser, n) ELSE ser
<1>1. /\ ser \in Sers /\ Serializes(ser) /\ wop \in WriteOps /\ closed' \in BOOLEAN
      /\ ser.view \in Seq(Symbols) /\ Len(ser.view) \in Nat /\ n \in Nat
  <2>1. ser \in Sers /\ Serializes(ser) /\ wop \in WriteOps /\ closed' \in BOOLEAN
    BY DEF SenderTypes, Serializes
  <2>2. ser.view \in Seq(Symbols)
    BY <2>1 DEF Sers, Blocks
  <2>3. Len(ser.view) \in Nat
    BY <2>2, LenProperties
  <2> QED
    BY <2>1, <2>2, <2>3
<1>2. ec = "" => ser.s \in Visiting \cup {"complete"}
  BY DEF SenderTypes, Ends
<1>3. /\ Serializes(w) /\ w.split = ser.split /\ (ser.done => w.done)
      /\ ser.s \in Visiting /\ ec = "" => w.view = SubSeq(ser.view, n + 1, Len(ser.view))
  <2>1. CASE ec = ""
    <3>1. n \in 0 .. Len(ser.view)
      BY <1>1
    <3> QED
      BY <1>1, <1>2, <2>1, <3>1, ConsumeGives DEF Consumed
  <2>2. CASE ec # ""
    BY <1>1, <2>2
  <2> QED
    BY <2>1, <2>2
<1>4. ser' = w
  BY DEF WriteResumes
<1>10. wop.n \in Nat /\ wop.n + n \in Nat /\ wop.until \in {"done", "header", "some"}
  <2>1. wop.n \in Nat /\ wop.until \in {"done", "header", "some"}
    BY <1>1 DEF WriteOps
  <2>2. n \in Nat
    BY <1>1
  <2> QED
    BY <2>1, <2>2
<1>5. PICK pc :
        /\ pc \in {"told", "next"}
        /\ pc = IF ec # "" \/ wop.until = "some" \/ Reached(w, wop.until) THEN "told" ELSE "next"
        /\ wop' = [wop EXCEPT !.n = wop.n + n, !.ec = ec, !.pc = pc]
  BY DEF WriteResumes
<1>6. /\ wop' \in WriteOps /\ wop'.pc = pc /\ wop'.ec = ec /\ wop'.until = wop.until
      /\ wop'.n = wop.n + n /\ wop.n \in Nat
  BY <1>1, <1>10, <1>5 DEF WriteOps, Ends
<1>7. SenderTypes' /\ Msg' = Msg
  <2>1. ec = "need_buffer" => Msg.writer = "buffer"
    BY DEF SenderTypes, Ends
  <2> HIDE DEF w
  <2> QED
    BY <1>1, <1>3, <1>4, <1>5, <1>6, <2>1, SameMessage
<1>8. HeaderInv'
  <2>1. CASE wop.until # "header"
    <3> HIDE DEF w
    <3>1. mode = "header" => ser.done
      BY <2>1 DEF HeaderInv, Ends
    <3> QED
      BY <1>3, <1>4, <1>6, <2>1, <3>1 DEF HeaderInv
  <2>2. CASE wop.until = "header"
    <3>1. /\ mode = "header" /\ ser.split /\ ~ser.done /\ wop.pc = "io"
          /\ ser.s = "header_only" /\ wop.n + Len(ser.view) = Len(Header(Msg))
      BY <2>2 DEF HeaderInv, Ends
    <3>2. CASE ec = "error"
      BY <1>4, <1>5, <1>6, <1>7, <2>2, <3>1, <3>2 DEF HeaderInv
    <3>3. CASE ec = ""
      <4> DEFINE v == SubSeq(ser.view, n + 1, Len(ser.view))
      <4>1. w = SerConsume(ser, n)
        BY <3>3
      <4>2. Len(v) = Len(ser.view) - n /\ (v = <<>> => n = Len(ser.view))
        <5>1. ser.view \in Blocks
          BY <1>1 DEF Sers
        <5>2. Len(v) = Len(ser.view) - n
          <6>1. n \in 0 .. Len(ser.view)
            BY <1>1
          <6> QED
            BY <5>1, <6>1, RestOfBlock
        <5>3. v = <<>> => Len(v) = 0
          BY EmptySeq
        <5> HIDE DEF v
        <5> QED
          BY <1>1, <5>2, <5>3
      <4>3. wop.n \in Nat
        BY <1>1 DEF WriteOps
      <4>4. pc = IF w.done THEN "told" ELSE "next"
        BY <1>5, <2>2, <3>3 DEF Reached
      <4>5. CASE v = <<>>
        <5>1. w.s = "body" /\ w.done /\ w.split
          BY <1>1, <3>1, <4>1, <4>5 DEF SerConsume, Sers
        <5>2. wop'.n = Len(Header(Msg))
          BY <1>1, <1>6, <3>1, <4>2, <4>3, <4>5
        <5> HIDE DEF w
        <5> QED
          BY <1>4, <1>6, <1>7, <2>2, <3>1, <3>3, <4>4, <5>1, <5>2 DEF HeaderInv
      <4>6. CASE v # <<>>
        <5>1. w = [ser EXCEPT !.view = v]
          BY <3>1, <4>1, <4>6 DEF SerConsume
        <5>2. w.s = "header_only" /\ ~w.done /\ w.split /\ w.view = v
          BY <1>1, <3>1, <5>1 DEF Sers
        <5>3. wop'.n + Len(v) = Len(Header(Msg))
          <6>1. Len(ser.view) \in Nat /\ n \in Nat /\ wop.n \in Nat
            BY <1>1, <4>3
          <6>2. wop'.n = wop.n + n /\ Len(v) = Len(ser.view) - n
            BY <1>6, <4>2
          <6>3. wop.n + Len(ser.view) = Len(Header(Msg))
            BY <3>1
          <6> HIDE DEF v
          <6> QED
            BY <6>1, <6>2, <6>3
        <5> HIDE DEF w, v
        <5> QED
          BY <1>4, <1>6, <1>7, <2>2, <3>1, <4>4, <5>2, <5>3 DEF HeaderInv
      <4> QED
        BY <4>5, <4>6
    <3> QED
      BY <3>1, <3>2, <3>3 DEF Ends
  <2> QED
    BY <2>1, <2>2
<1> QED
  BY <1>7, <1>8

LEMMA WriteIoKeeps ==
  ASSUME SenderInv, WriteIo
  PROVE  SenderInv'
<1>1. Len(ser.view) \in Nat
  BY LenProperties DEF SenderInv, SenderTypes, Serializes, Sers, Blocks
<1> DEFINE most == IF Len(ser.view) < Limit THEN Len(ser.view) ELSE Limit
<1>2. PICK n \in (IF most = 0 THEN {0} ELSE 1 .. most) : WriteResumes(n, "")
  BY DEF WriteIo
<1>3. n \in Nat /\ n <= Len(ser.view)
  <2>1. Limit \in Nat
    BY ConstantsAssumption DEF ConstantsAssumption
  <2>2. most \in Nat /\ most <= Len(ser.view)
    BY <1>1, <2>1
  <2>3. n \in IF most = 0 THEN {0} ELSE 1 .. most
    BY <1>2
  <2> HIDE DEF most
  <2>4. CASE most = 0
    BY <2>2, <2>3, <2>4
  <2>5. CASE most # 0
    <3>1. n \in 1 .. most
      BY <2>3, <2>5
    <3>2. n \in Nat /\ n <= most
      BY <2>2, <3>1
    <3> QED
      BY <1>1, <2>2, <3>2
  <2> QED
    BY <2>4, <2>5
<1>4. Ends(n, "") /\ UNCHANGED <<script, at, mode, closed>>
  BY DEF WriteIo, Ends
<1> QED
  BY <1>2, <1>3, <1>4, WriteResumesKeeps

LEMMA WriteEndsKeeps ==
  ASSUME SenderInv, WriteFails \/ WritePosted
  PROVE  SenderInv'
<1>1. Len(ser.view) \in Nat
  BY LenProperties DEF SenderInv, SenderTypes, Serializes, Sers, Blocks
<1>2. CASE WriteFails
  <2>1. Ends(0, "error") /\ WriteResumes(0, "error") /\ UNCHANGED <<script, at, mode, closed>>
    BY <1>2 DEF WriteFails, Ends
  <2> QED
    BY <1>1, <2>1, WriteResumesKeeps
<1>3. CASE WritePosted
  <2>1. wop.ec \in {"", "need_buffer", "error"}
    BY DEF SenderInv, SenderTypes, WriteOps
  <2>2. /\ Ends(0, wop.ec) /\ WriteResumes(0, wop.ec)
        /\ UNCHANGED <<script, at, mode, closed>>
    BY <1>3, <2>1 DEF WritePosted, Ends
  <2> QED
    BY <1>1, <2>2, WriteResumesKeeps
<1> QED
  BY <1>2, <1>3

LEMMA WriteToldKeeps ==
  ASSUME SenderInv, WriteTold
  PROVE  SenderInv'
<1> USE DEF SenderInv
<1>1. /\ ser \in Sers /\ Serializes(ser) /\ wop \in WriteOps /\ wop.pc = "told"
      /\ wop' = IdleOp /\ UNCHANGED <<script, at, mode>> /\ closed \in BOOLEAN
  BY DEF SenderTypes, Serializes, WriteTold
<1>2. /\ wop' \in WriteOps /\ wop'.pc = "idle" /\ wop'.ec = "" /\ wop'.until = "done"
  BY <1>1 DEF IdleOp, WriteOps
<1>3. CASE wop.ec = "need_buffer" /\ ser' \in Refill(ser) /\ UNCHANGED closed
  <2> DEFINE next == IF ser.data THEN ser.piece + 1 ELSE ser.piece
  <2>1. PICK l \in BOOLEAN :
          ser' = [ser EXCEPT !.piece = next, !.data = next < Len(Msg.sizes), !.last = l]
    BY <1>3 DEF Refill
  <2>2. Msg.writer = "buffer" /\ Len(Msg.sizes) \in Nat
    BY <1>3, MsgType DEF SenderTypes
  <2>3. next \in Nat /\ next <= Len(Msg.sizes)
    BY <1>1, <2>2 DEF Serializes, Sers
  <2>4. (next < Len(Msg.sizes)) \in BOOLEAN
    OBVIOUS
  <2>5. /\ ser' \in Sers /\ ser'.piece = next /\ (ser'.data => next < Len(Msg.sizes))
        /\ ser'.view = ser.view /\ ser'.s = ser.s /\ ser'.done = ser.done
    <3> HIDE DEF next
    <3> QED
      BY <1>1, <2>1, <2>3, <2>4 DEF Sers
  <2>6. Serializes(ser')
    BY <1>1, <2>2, <2>3, <2>5 DEF Serializes
  <2>7. SenderTypes'
    BY <1>1, <1>2, <1>3, <2>6, SameMessage
  <2>8. ~(mode = "header" /\ ~ser.done)
    BY <1>1, <1>3 DEF HeaderInv
  <2>9. HeaderInv'
    BY <1>1, <1>2, <2>5, <2>8 DEF HeaderInv
  <2> QED
    BY <2>7, <2>9
<1>4. CASE wop.ec = "" /\ UNCHANGED <<ser, closed>>
  <2>1. SenderTypes'
    BY <1>1, <1>2, <1>4, SameMessage
  <2>2. ~(mode = "header" /\ ~ser.done)
    BY <1>1, <1>4 DEF HeaderInv
  <2>3. HeaderInv'
    BY <1>1, <1>2, <1>4, <2>2 DEF HeaderInv
  <2> QED
    BY <2>1, <2>3
<1>5. CASE wop.ec = "error" /\ closed' = TRUE /\ UNCHANGED ser
  <2>1. SenderTypes'
    BY <1>1, <1>2, <1>5, SameMessage
  <2>2. HeaderInv'
    BY <1>1, <1>2, <1>5 DEF HeaderInv
  <2> QED
    BY <2>1, <2>2
<1> QED
  BY <1>3, <1>4, <1>5 DEF WriteTold

LEMMA IdleIs ==
  ASSUME SenderTypes, wop.pc = "idle"
  PROVE  wop = IdleOp /\ wop.until = "done" /\ wop.ec = ""
<1>1. wop = IdleOp
  BY DEF SenderTypes
<1>2. IdleOp.until = "done" /\ IdleOp.ec = ""
  BY DEF IdleOp
<1> QED
  BY <1>1, <1>2

LEMMA WriteChunksKeeps ==
  ASSUME SenderInv, WriteChunks
  PROVE  SenderInv'
<1> USE DEF SenderInv
<1> DEFINE j == ser.piece + 1
           s == IF j > Len(Msg.sizes) THEN "complete" ELSE ser.s
<1>1. /\ ser \in Sers /\ Serializes(ser) /\ wop \in WriteOps /\ wop.pc = "idle"
      /\ UNCHANGED <<script, at, mode, wop, closed>> /\ closed' \in BOOLEAN
      /\ Msg.writer = "chunks" /\ ser.s = "body" /\ ser' = [ser EXCEPT !.piece = j, !.s = s]
  BY DEF SenderTypes, Serializes, WriteChunks
<1>2. s \in Quiet /\ ser.s \in Quiet
  BY <1>1 DEF Quiet
<1>3. j \in Nat
  BY <1>1 DEF Sers
<1> HIDE DEF j, s
<1>4. ser' \in Sers /\ ser'.s = s /\ ser'.view = ser.view /\ ser'.done = ser.done
  BY <1>1, <1>2, <1>3 DEF Sers
<1>5. Serializes(ser')
  BY <1>1, <1>2, <1>4 DEF Serializes
<1>6. SenderTypes'
  BY <1>1, <1>5, SameMessage DEF SenderTypes
<1>7. HeaderInv'
  <2>1. wop = IdleOp /\ wop.until = "done"
    BY <1>1, IdleIs
  <2> QED
    BY <1>1, <1>4, <2>1 DEF HeaderInv
<1> QED
  BY <1>6, <1>7

LEMMA NextMessageKeeps ==
  ASSUME SenderInv, NextMessage
  PROVE  SenderInv'
<1> USE DEF SenderInv
<1>1. /\ wop \in WriteOps /\ wop.pc = "idle" /\ wop = IdleOp /\ wop.until = "done" /\ wop.ec = ""
      /\ UNCHANGED <<script, wop, closed>> /\ closed' \in BOOLEAN
      /\ script \in Seq(Messages) /\ at \in 1 .. Len(script) /\ at < Len(script) /\ at' = at + 1
      /\ mode' \in ModesOf(script[at + 1]) /\ ser' \in NewSers(script[at + 1])
  BY IdleIs DEF SenderTypes, NextMessage
<1>2. Len(script) \in Nat
  BY <1>1, LenProperties
<1>3. at + 1 \in 1 .. Len(script) /\ at' = at + 1 /\ script' = script
  <2>1. at \in 1 .. Len(script) /\ at < Len(script)
    BY <1>1
  <2>2. at + 1 \in 1 .. Len(script)
    BY <1>2, <2>1
  <2> QED
    BY <1>1, <2>2
<1>4. script[at + 1] \in Messages /\ Msg' = script[at + 1]
  BY <1>1, <1>3, ElementOfSeq DEF Msg
<1>5. mode' \in {"write", "header", "split_some"}
  BY <1>1, ConstantsAssumption DEF ConstantsAssumption, ModesOf
<1>6. Serializes(ser)' /\ ser'.s = "construct"
  BY <1>1, <1>4, NewSerializes DEF Serializes
<1>7. SenderTypes'
  <2>1. wop'.pc = "idle" /\ wop'.ec = "" /\ wop' \in WriteOps /\ wop' = IdleOp /\ IdleOp' = IdleOp
    BY <1>1 DEF IdleOp
  <2> QED
    BY <1>1, <1>3, <1>5, <1>6, <2>1 DEF SenderTypes
<1>8. HeaderInv'
  BY <1>1, <1>6 DEF HeaderInv
<1> QED
  BY <1>7, <1>8

LEMMA SenderKeeps == SenderInv /\ [Next]_vars => SenderInv'
<1> SUFFICES ASSUME SenderInv, [Next]_vars PROVE SenderInv'
  OBVIOUS
<1>1. CASE StartWrite
  BY <1>1, StartWriteKeeps
<1>2. CASE WriteNext
  BY <1>2, WriteNextKeeps
<1>3. CASE WriteIo
  BY <1>3, WriteIoKeeps
<1>4. CASE WriteFails \/ WritePosted
  BY <1>4, WriteEndsKeeps
<1>5. CASE WriteTold
  BY <1>5, WriteToldKeeps
<1>6. CASE WriteChunks
  BY <1>6, WriteChunksKeeps
<1>7. CASE NextMessage
  BY <1>7, NextMessageKeeps
<1>8. CASE CloseStream
  <2>1. UNCHANGED <<script, at, mode, ser, wop>> /\ closed' = TRUE /\ wop.pc = "idle"
    BY <1>8 DEF CloseStream
  <2>2. SenderTypes'
    BY <2>1, SameMessage DEF SenderInv, SenderTypes
  <2>3. wop = IdleOp /\ wop.until = "done"
    BY <2>1, IdleIs DEF SenderInv
  <2>4. HeaderInv'
    BY <2>1, <2>3 DEF HeaderInv
  <2> QED
    BY <2>2, <2>4 DEF SenderInv
<1>9. CASE UNCHANGED <<script, at, mode, ser, wop, closed>>
  <2>1. Msg' = Msg /\ IdleOp' = IdleOp
    BY <1>9 DEF Msg, IdleOp
  <2>2. Serializes(ser)' <=> Serializes(ser)
    BY <1>9, <2>1 DEF Serializes
  <2>3. SenderTypes'
    BY <1>9, <2>1, <2>2 DEF SenderInv, SenderTypes
  <2>4. HeaderInv'
    BY <1>9, <2>1 DEF SenderInv, HeaderInv
  <2> QED
    BY <2>3, <2>4 DEF SenderInv
<1>10. \/ Sender
       \/ UNCHANGED <<script, at, mode, ser, wop, closed>>
  BY DEF Next, vars, serVars, WireDelivers, WireEnds
<1> QED
  BY <1>1, <1>2, <1>3, <1>4, <1>5, <1>6, <1>7, <1>8, <1>9, <1>10 DEF Sender, SerStep

\* async_write_header writes the header of the message to its last symbol and
\* nothing behind it: write_some_op stops at the border, whatever the pieces are
\* that the stream takes and whatever was written before.
THEOREM HeaderIsAlone == Spec => []HeaderAlone
<1>1. SenderInv => HeaderAlone
  BY DEF SenderInv, HeaderInv, HeaderAlone
<1> QED
  BY <1>1, SenderStarts, SenderKeeps, PTL DEF Spec

-----------------------------------------------------------------------------
(* The searches of the parser.  Each is a function that looks only further on,
   so it is built from the end of the buffer.                                *)

Cr(s, i) == s[i] = Sym("cr", 0)
Lf(s, i) == s[i] = Sym("lf", 0)

\* CRLF CRLF ends at j
Eom(s, j) == Cr(s, j - 3) /\ Lf(s, j - 2) /\ Cr(s, j - 1) /\ Lf(s, j)

\* The positions from which less than m symbols are left
Final(s, m) == {i \in Nat : i + m >= Len(s)}

EolStep(f, s, i) == IF i >= Len(s) THEN 0 ELSE IF Cr(s, i + 1) THEN i + 1 ELSE f[i + 1]
EolFinder(s) == CHOOSE f : f = [i \in Nat |-> EolStep(f, s, i)]

LEMMA EolFinderIs ==
  ASSUME NEW s, Len(s) \in Nat
  PROVE  \A i \in Nat : EolFinder(s)[i] = EolStep(EolFinder(s), s, i)
<1> DEFINE A == {m \in Nat : \E f : f = [i \in Final(s, m) |-> EolStep(f, s, i)]}
<1>1. 0 \in A
  <2> DEFINE f == [i \in Final(s, 0) |-> 0]
  <2>1. f = [i \in Final(s, 0) |-> EolStep(f, s, i)]
    BY DEF Final, EolStep
  <2> QED
    BY <2>1
<1>2. ASSUME NEW m \in Nat, m \in A PROVE m + 1 \in A
  <2>1. PICK f : f = [i \in Final(s, m) |-> EolStep(f, s, i)]
    BY <1>2
  <2> DEFINE g == [i \in Final(s, m + 1) |-> EolStep(f, s, i)]
  <2>2. \A i \in Final(s, m) : i \in Final(s, m + 1) /\ g[i] = f[i]
    BY <2>1 DEF Final
  <2>3. \A i \in Final(s, m + 1) : i \in Nat /\ i + 1 \in Final(s, m)
    BY DEF Final
  <2>4. \A i \in Final(s, m + 1) : EolStep(g, s, i) = EolStep(f, s, i)
    BY <2>2, <2>3 DEF EolStep
  <2>5. g = [i \in Final(s, m + 1) |-> EolStep(g, s, i)]
    BY <2>4
  <2> HIDE DEF g
  <2> QED
    BY <2>5
<1>3. Len(s) \in A
  <2> HIDE DEF A
  <2> QED
    BY <1>1, <1>2, Induction
<1>4. Final(s, Len(s)) = Nat
  BY DEF Final
<1>5. \E f : f = [i \in Nat |-> EolStep(f, s, i)]
  BY <1>3, <1>4
<1>6. EolFinder(s) = [i \in Nat |-> EolStep(EolFinder(s), s, i)]
  BY <1>5 DEF EolFinder
<1> QED
  BY <1>6

\* The first CR behind the position p, or none
FirstCr(s, p, r) ==
  \/ r = 0 /\ \A j \in p + 1 .. Len(s) : ~Cr(s, j)
  \/ r \in p + 1 .. Len(s) /\ Cr(s, r) /\ \A j \in p + 1 .. r - 1 : ~Cr(s, j)

LEMMA FindsCr ==
  ASSUME NEW s, Len(s) \in Nat, NEW p \in Nat
  PROVE  FirstCr(s, p, EolFinder(s)[p])
<1> DEFINE f == EolFinder(s)
           A == {m \in Nat : \A i \in Final(s, m) : FirstCr(s, i, f[i])}
<1>0. \A i \in Nat : f[i] = EolStep(f, s, i)
  BY EolFinderIs
<1> HIDE DEF f
<1>1. 0 \in A
  BY <1>0 DEF Final, EolStep, FirstCr
<1>2. ASSUME NEW m \in Nat, m \in A PROVE m + 1 \in A
  <2> SUFFICES ASSUME NEW i \in Final(s, m + 1) PROVE FirstCr(s, i, f[i])
    OBVIOUS
  <2>1. i \in Nat /\ i + 1 \in Final(s, m)
    BY DEF Final
  <2>2. f[i] = EolStep(f, s, i) /\ FirstCr(s, i + 1, f[i + 1])
    BY <1>0, <1>2, <2>1
  <2>3. CASE i >= Len(s)
    BY <2>1, <2>2, <2>3 DEF EolStep, FirstCr
  <2>4. CASE ~(i >= Len(s)) /\ Cr(s, i + 1)
    BY <2>1, <2>2, <2>4 DEF EolStep, FirstCr
  <2>5. CASE ~(i >= Len(s)) /\ ~Cr(s, i + 1)
    <3>1. f[i] = f[i + 1]
      BY <2>2, <2>5 DEF EolStep
    <3>2. \A k, r : k \in i + 1 .. r => k = i + 1 \/ k \in i + 1 + 1 .. r
      BY <2>1
    <3> QED
      BY <2>1, <2>2, <2>5, <3>1 DEF FirstCr
  <2> QED
    BY <2>3, <2>4, <2>5
<1>3. Len(s) \in A
  <2> HIDE DEF A
  <2> QED
    BY <1>1, <1>2, Induction
<1>4. p \in Final(s, Len(s))
  BY DEF Final
<1> QED
  BY <1>3, <1>4 DEF f

LEMMA FindEolIs ==
  ASSUME NEW s, NEW p
  PROVE  LET cr == EolFinder(s)[p] IN
         FindEol(s, p) = CASE cr = 0 \/ cr = Len(s) -> [r |-> "none", at |-> 0]
                           [] cr # 0 /\ cr < Len(s) /\ s[cr + 1] = Sym("lf", 0)
                                -> [r |-> "found", at |-> cr + 1]
                           [] OTHER -> [r |-> "bad", at |-> 0]
  BY DEF FindEol, EolFinder, EolStep, Cr

EomStep(f, s, i) ==
  IF i + 4 > Len(s) THEN 0
  ELSE IF ~Lf(s, i + 4) THEN f[i + Jump(s[i + 4])]
  ELSE IF ~Cr(s, i + 3) THEN f[i + 4]
  ELSE IF ~(Lf(s, i + 2) /\ Cr(s, i + 1)) THEN f[i + 2]
  ELSE i + 4
EomFinder(s) == CHOOSE f : f = [i \in Nat |-> EomStep(f, s, i)]

LEMMA EomFinderIs ==
  ASSUME NEW s, Len(s) \in Nat
  PROVE  \A i \in Nat : EomFinder(s)[i] = EomStep(EomFinder(s), s, i)
<1> DEFINE A == {m \in Nat : \E f : f = [i \in Final(s, m) |-> EomStep(f, s, i)]}
<1>0. \A x : Jump(x) \in {1, 4}
  BY DEF Jump
<1>1. 0 \in A
  <2> DEFINE f == [i \in Final(s, 0) |-> 0]
  <2>1. f = [i \in Final(s, 0) |-> EomStep(f, s, i)]
    BY DEF Final, EomStep
  <2> QED
    BY <2>1
<1>2. ASSUME NEW m \in Nat, m \in A PROVE m + 1 \in A
  <2>1. PICK f : f = [i \in Final(s, m) |-> EomStep(f, s, i)]
    BY <1>2
  <2> DEFINE g == [i \in Final(s, m + 1) |-> EomStep(f, s, i)]
  <2>2. \A i \in Final(s, m) : i \in Final(s, m + 1) /\ g[i] = f[i]
    BY <2>1 DEF Final
  <2>3. \A i \in Final(s, m + 1) : \A k \in {1, 2, 4} : i \in Nat /\ i + k \in Final(s, m)
    BY DEF Final
  <2> HIDE DEF g
  <2>4. ASSUME NEW i \in Final(s, m + 1) PROVE EomStep(g, s, i) = EomStep(f, s, i)
    <3>1. g[i + 1] = f[i + 1] /\ g[i + 2] = f[i + 2] /\ g[i + 4] = f[i + 4]
      BY <2>2, <2>3
    <3>2. g[i + Jump(s[i + 4])] = f[i + Jump(s[i + 4])]
      BY <1>0, <3>1
    <3> QED
      BY <3>1, <3>2 DEF EomStep
  <2>5. g = [i \in Final(s, m + 1) |-> EomStep(g, s, i)]
    BY <2>4 DEF g
  <2> QED
    BY <2>5
<1>3. Len(s) \in A
  <2> HIDE DEF A
  <2> QED
    BY <1>1, <1>2, Induction
<1>4. Final(s, Len(s)) = Nat
  BY DEF Final
<1>5. \E f : f = [i \in Nat |-> EomStep(f, s, i)]
  BY <1>3, <1>4
<1>6. EomFinder(s) = [i \in Nat |-> EomStep(EomFinder(s), s, i)]
  BY <1>5 DEF EomFinder
<1> QED
  BY <1>6

\* Where the first CRLF CRLF that begins behind p ends, or 0
FirstEom(s, p, r) ==
  \/ r = 0 /\ \A j \in p + 4 .. Len(s) : ~Eom(s, j)
  \/ r \in p + 4 .. Len(s) /\ Eom(s, r) /\ \A j \in p + 4 .. r - 1 : ~Eom(s, j)

LEMMA FirstEomSkips ==
  ASSUME NEW s, Len(s) \in Nat, NEW i \in Nat, NEW k \in Nat, NEW r, FirstEom(s, i + k, r),
         \A j \in i + 4 .. i + k + 3 : ~Eom(s, j)
  PROVE  FirstEom(s, i, r)
<1>1. ASSUME NEW j \in Nat, j >= i + 4, j <= Len(s), r # 0 => j <= r - 1
      PROVE  ~Eom(s, j)
  <2>1. CASE j <= i + k + 3
    BY <1>1, <2>1
  <2>2. CASE ~(j <= i + k + 3)
    BY <1>1, <2>2 DEF FirstEom
  <2> QED
    BY <2>1, <2>2
<1>2. CASE r = 0
  <2>1. \A j \in i + 4 .. Len(s) : ~Eom(s, j)
    BY <1>1, <1>2
  <2> QED
    BY <1>2, <2>1 DEF FirstEom
<1>3. CASE r # 0
  <2>1. r \in i + k + 4 .. Len(s) /\ Eom(s, r)
    BY <1>3 DEF FirstEom
  <2>2. r \in i + 4 .. Len(s)
    BY <2>1
  <2>3. \A j \in i + 4 .. r - 1 : ~Eom(s, j)
    BY <1>1, <1>3, <2>2
  <2> QED
    BY <2>1, <2>2, <2>3 DEF FirstEom
<1> QED
  BY <1>2, <1>3

LEMMA CrIsNotLf ==
  \A s, i : ~(Cr(s, i) /\ Lf(s, i))
<1>1. Sym("cr", 0).k = "cr" /\ Sym("lf", 0).k = "lf"
  BY DEF Sym
<1> QED
  BY <1>1 DEF Cr, Lf

\* The places of the four symbols, counted from a place in front
LEMMA EomAt ==
  ASSUME NEW s, NEW i \in Int
  PROVE  /\ Eom(s, i + 4) <=> Cr(s, i + 1) /\ Lf(s, i + 2) /\ Cr(s, i + 3) /\ Lf(s, i + 4)
         /\ Eom(s, i + 5) <=> Cr(s, i + 2) /\ Lf(s, i + 3) /\ Cr(s, i + 4) /\ Lf(s, i + 5)
         /\ Eom(s, i + 6) <=> Cr(s, i + 3) /\ Lf(s, i + 4) /\ Cr(s, i + 5) /\ Lf(s, i + 6)
         /\ Eom(s, i + 7) <=> Cr(s, i + 4) /\ Lf(s, i + 5) /\ Cr(s, i + 6) /\ Lf(s, i + 7)
  BY DEF Eom, Cr, Lf

\* find_eom looks at every fourth symbol where it can and misses no CRLF CRLF
LEMMA FindsEom ==
  ASSUME NEW s, Len(s) \in Nat, NEW p \in Nat
  PROVE  FirstEom(s, p, EomFinder(s)[p])
<1> DEFINE f == EomFinder(s)
           A == {m \in Nat : \A i \in Final(s, m) : FirstEom(s, i, f[i])}
<1>0. \A i \in Nat : f[i] = EomStep(f, s, i)
  BY EomFinderIs
<1> HIDE DEF f
<1>1. 0 \in A
  <2> SUFFICES ASSUME NEW i \in Final(s, 0) PROVE FirstEom(s, i, f[i])
    OBVIOUS
  <2>1. i \in Nat /\ i + 4 > Len(s)
    BY DEF Final
  <2>2. f[i] = 0
    BY <1>0, <2>1 DEF EomStep
  <2>3. \A j \in i + 4 .. Len(s) : FALSE
    BY <2>1
  <2> QED
    BY <2>2, <2>3 DEF FirstEom
<1>2. ASSUME NEW m \in Nat, m \in A PROVE m + 1 \in A
  <2> SUFFICES ASSUME NEW i \in Final(s, m + 1) PROVE FirstEom(s, i, f[i])
    OBVIOUS
  <2>1. i \in Nat /\ \A k \in {1, 2, 4} : i + k \in Final(s, m)
    BY DEF Final
  <2>2. /\ f[i] = EomStep(f, s, i)
        /\ FirstEom(s, i + 1, f[i + 1]) /\ FirstEom(s, i + 2, f[i + 2])
        /\ FirstEom(s, i + 4, f[i + 4])
    BY <1>0, <1>2, <2>1
  <2>3. CASE i + 4 > Len(s)
    BY <2>1, <2>2, <2>3 DEF EomStep, FirstEom
  <2>4. CASE i + 4 <= Len(s) /\ ~Lf(s, i + 4) /\ Cr(s, i + 4)
    <3>1. Jump(s[i + 4]) = 1
      BY <2>4 DEF Jump, Cr
    <3>2. f[i] = f[i + 1]
      BY <2>1, <2>2, <2>4, <3>1 DEF EomStep
    <3>3. ~Eom(s, i + 4)
      BY <2>4 DEF Eom
    <3>4. \A j \in i + 4 .. i + 1 + 3 : ~Eom(s, j)
      BY <2>1, <3>3
    <3> QED
      BY <2>1, <2>2, <3>2, <3>4, FirstEomSkips
  <2>5. CASE i + 4 <= Len(s) /\ ~Lf(s, i + 4) /\ ~Cr(s, i + 4)
    <3>1. Jump(s[i + 4]) = 4
      BY <2>5 DEF Jump, Cr
    <3>2. f[i] = f[i + 4]
      BY <2>1, <2>2, <2>5, <3>1 DEF EomStep
    <3>3. ~Eom(s, i + 4) /\ ~Eom(s, i + 5) /\ ~Eom(s, i + 6) /\ ~Eom(s, i + 7)
      BY <2>1, <2>5, EomAt
    <3>4. \A j \in i + 4 .. i + 4 + 3 : j = i + 4 \/ j = i + 5 \/ j = i + 6 \/ j = i + 7
      BY <2>1
    <3>5. \A j \in i + 4 .. i + 4 + 3 : ~Eom(s, j)
      BY <3>3, <3>4
    <3> QED
      BY <2>1, <2>2, <3>2, <3>5, FirstEomSkips
  <2>6. CASE i + 4 <= Len(s) /\ Lf(s, i + 4) /\ ~Cr(s, i + 3)
    <3>1. f[i] = f[i + 4]
      BY <2>1, <2>2, <2>6 DEF EomStep
    <3>2. ~Cr(s, i + 4)
      BY <2>6, CrIsNotLf
    <3>3. ~Eom(s, i + 4) /\ ~Eom(s, i + 5) /\ ~Eom(s, i + 6) /\ ~Eom(s, i + 7)
      BY <2>1, <2>6, <3>2, EomAt
    <3>4. \A j \in i + 4 .. i + 4 + 3 : j = i + 4 \/ j = i + 5 \/ j = i + 6 \/ j = i + 7
      BY <2>1
    <3>5. \A j \in i + 4 .. i + 4 + 3 : ~Eom(s, j)
      BY <3>3, <3>4
    <3> QED
      BY <2>1, <2>2, <3>1, <3>5, FirstEomSkips
  <2>7. CASE /\ i + 4 <= Len(s) /\ Lf(s, i + 4) /\ Cr(s, i + 3)
             /\ ~(Lf(s, i + 2) /\ Cr(s, i + 1))
    <3>1. f[i] = f[i + 2]
      BY <2>1, <2>2, <2>7 DEF EomStep
    <3>2. ~Cr(s, i + 4)
      BY <2>7, CrIsNotLf
    <3>3. ~Eom(s, i + 4) /\ ~Eom(s, i + 5)
      BY <2>1, <2>7, <3>2, EomAt
    <3>4. \A j \in i + 4 .. i + 2 + 3 : j = i + 4 \/ j = i + 5
      BY <2>1
    <3>5. \A j \in i + 4 .. i + 2 + 3 : ~Eom(s, j)
      BY <3>3, <3>4
    <3> QED
      BY <2>1, <2>2, <3>1, <3>5, FirstEomSkips
  <2>8. CASE /\ i + 4 <= Len(s) /\ Lf(s, i + 4) /\ Cr(s, i + 3)
             /\ Lf(s, i + 2) /\ Cr(s, i + 1)
    <3>1. f[i] = i + 4
      BY <2>1, <2>2, <2>8 DEF EomStep
    <3>3. Eom(s, i + 4)
      BY <2>1, <2>8, EomAt
    <3> QED
      BY <2>1, <2>8, <3>1, <3>3 DEF FirstEom
  <2>9. i + 4 > Len(s) \/ i + 4 <= Len(s)
    BY <2>1
  <2> QED
    BY <2>3, <2>4, <2>5, <2>6, <2>7, <2>8, <2>9
<1>3. Len(s) \in A
  <2> HIDE DEF A
  <2> QED
    BY <1>1, <1>2, Induction
<1>4. p \in Final(s, Len(s))
  BY DEF Final
<1> QED
  BY <1>3, <1>4 DEF f

LEMMA FindEomIs ==
  ASSUME NEW s, Len(s) \in Nat, NEW p \in Nat
  PROVE  FirstEom(s, p, FindEom(s, p))
<1>1. FindEom(s, p) = EomFinder(s)[p]
  BY DEF FindEom, EomFinder, EomStep, Cr, Lf
<1> QED
  BY <1>1, FindsEom

-----------------------------------------------------------------------------
(* What is in the buffer of the reader: a stream that may be cut anywhere *)

Cut(s) ==
  \A i \in 1 .. Len(s) : s[i].k \notin {"octet", "cr", "lf"} =>
    /\ i + 1 <= Len(s) => Cr(s, i + 1)
    /\ i + 2 <= Len(s) => Lf(s, i + 2)
Cuts == {s \in Seq(Symbols) : Cut(s)}

LEMMA FrontOfBlock ==
  ASSUME NEW s \in Seq(Symbols), NEW t \in Seq(Symbols), s \o t \in Blocks
  PROVE  s \in Cuts
<1> DEFINE u == s \o t
<1>1. Len(s) \in Nat /\ Len(t) \in Nat
  BY LenProperties
<1>2. Len(u) = Len(s) + Len(t) /\ \A i \in 1 .. Len(s) : i \in 1 .. Len(u) /\ u[i] = s[i]
  BY <1>1, ConcatProperties
<1>3. Whole(u)
  BY DEF Blocks
<1> HIDE DEF u
<1>4. ASSUME NEW i \in 1 .. Len(s), s[i].k \notin {"octet", "cr", "lf"}
      PROVE  (i + 1 <= Len(s) => Cr(s, i + 1)) /\ (i + 2 <= Len(s) => Lf(s, i + 2))
  <2>1. i \in 1 .. Len(u) /\ u[i] = s[i]
    BY <1>2
  <2>2. u[i + 1] = Sym("cr", 0) /\ u[i + 2] = Sym("lf", 0)
    BY <1>3, <1>4, <2>1 DEF Whole
  <2>3. i + 1 <= Len(s) => u[i + 1] = s[i + 1]
    BY <1>1, <1>2
  <2>4. i + 2 <= Len(s) => u[i + 2] = s[i + 2]
    BY <1>1, <1>2
  <2> QED
    BY <2>2, <2>3, <2>4 DEF Cr, Lf
<1> QED
  BY <1>4 DEF Cuts, Cut

LEMMA PartOfCut ==
  ASSUME NEW s \in Cuts, NEW a \in Nat, NEW b \in Nat, a <= b, b <= Len(s)
  PROVE  /\ SubSeq(s, a + 1, b) \in Cuts /\ Len(SubSeq(s, a + 1, b)) = b - a
         /\ \A i \in 1 .. b - a : SubSeq(s, a + 1, b)[i] = s[a + i]
<1> DEFINE t == SubSeq(s, a + 1, b)
<1>1. s \in Seq(Symbols) /\ Len(s) \in Nat /\ \A i \in 1 .. Len(s) : s[i] \in Symbols
  BY LenProperties, ElementOfSeq DEF Cuts
<1>2. t \in Seq(Symbols) /\ Len(t) = b - a /\ \A i \in 1 .. b - a : t[i] = s[a + i]
  BY <1>1, SubSeqProperties
<1> HIDE DEF t
<1>3. ASSUME NEW i \in 1 .. Len(t), t[i].k \notin {"octet", "cr", "lf"}
      PROVE  (i + 1 <= Len(t) => Cr(t, i + 1)) /\ (i + 2 <= Len(t) => Lf(t, i + 2))
  <2>1. a + i \in 1 .. Len(s) /\ t[i] = s[a + i]
    BY <1>1, <1>2
  <2>2. /\ a + i + 1 <= Len(s) => Cr(s, a + i + 1)
        /\ a + i + 2 <= Len(s) => Lf(s, a + i + 2)
    BY <1>3, <2>1 DEF Cuts, Cut
  <2>3. i + 1 <= Len(t) => a + i + 1 <= Len(s) /\ t[i + 1] = s[a + i + 1]
    BY <1>1, <1>2
  <2>4. i + 2 <= Len(t) => a + i + 2 <= Len(s) /\ t[i + 2] = s[a + i + 2]
    BY <1>1, <1>2
  <2> QED
    BY <2>2, <2>3, <2>4 DEF Cr, Lf
<1> QED
  BY <1>2, <1>3 DEF Cuts, Cut, t

LineStep(f, s, i) ==
  IF Len(s) < i + 4 THEN [r |-> "need_more", n |-> 0]
  ELSE IF s[i + 4].k = "fold" THEN f[i + 3]
  ELSE [r |-> "field", n |-> i + 3]
LineFinder(s) == CHOOSE f : f = [i \in Nat |-> LineStep(f, s, i)]

LEMMA LineFinderIs ==
  ASSUME NEW s, Len(s) \in Nat
  PROVE  \A i \in Nat : LineFinder(s)[i] = LineStep(LineFinder(s), s, i)
<1> DEFINE A == {m \in Nat : \E f : f = [i \in Final(s, m) |-> LineStep(f, s, i)]}
<1>1. 0 \in A
  <2> DEFINE f == [i \in Final(s, 0) |-> [r |-> "need_more", n |-> 0]]
  <2>1. f = [i \in Final(s, 0) |-> LineStep(f, s, i)]
    BY DEF Final, LineStep
  <2> QED
    BY <2>1
<1>2. ASSUME NEW m \in Nat, m \in A PROVE m + 1 \in A
  <2>1. PICK f : f = [i \in Final(s, m) |-> LineStep(f, s, i)]
    BY <1>2
  <2> DEFINE g == [i \in Final(s, m + 1) |-> LineStep(f, s, i)]
  <2>2. \A i \in Final(s, m) : i \in Final(s, m + 1) /\ g[i] = f[i]
    BY <2>1 DEF Final
  <2>3. \A i \in Final(s, m + 1) : i \in Nat /\ i + 3 \in Final(s, m)
    BY DEF Final
  <2>4. \A i \in Final(s, m + 1) : LineStep(g, s, i) = LineStep(f, s, i)
    BY <2>2, <2>3 DEF LineStep
  <2>5. g = [i \in Final(s, m + 1) |-> LineStep(g, s, i)]
    BY <2>4
  <2> HIDE DEF g
  <2> QED
    BY <2>5
<1>3. Len(s) \in A
  <2> HIDE DEF A
  <2> QED
    BY <1>1, <1>2, Induction
<1>4. Final(s, Len(s)) = Nat
  BY DEF Final
<1>5. \E f : f = [i \in Nat |-> LineStep(f, s, i)]
  BY <1>3, <1>4
<1>6. LineFinder(s) = [i \in Nat |-> LineStep(LineFinder(s), s, i)]
  BY <1>5 DEF LineFinder
<1> QED
  BY <1>6

\* What parse_field says of the line that begins behind the place i
EndsLine(s, i, x) ==
  \/ x.r = "need_more"
  \/ x.r = "field" /\ x.n \in i + 3 .. Len(s) - 1 /\ Cr(s, x.n - 1) /\ Lf(s, x.n)

\* However many lines a field is folded into, parse_field stops behind a CRLF
LEMMA FieldEndsLine ==
  ASSUME NEW s \in Cuts, s[1].k \in {"field", "length", "chunked"}, Len(s) >= 1
  PROVE  EndsLine(s, 0, ParseField(s)) /\ ParseField(s).r \in {"need_more", "field"}
<1> DEFINE f == LineFinder(s)
           A == {m \in Nat : \A i \in Final(s, m) :
                   i + 1 <= Len(s) /\ s[i + 1].k \notin {"octet", "cr", "lf"} => EndsLine(s, i, f[i])}
<1>0. Len(s) \in Nat
  BY LenProperties DEF Cuts
<1>1. \A i \in Nat : f[i] = LineStep(f, s, i)
  BY <1>0, LineFinderIs
<1> HIDE DEF f
<1>2. 0 \in A
  <2>1. \A i \in Final(s, 0) : ~(i + 1 <= Len(s))
    BY <1>0 DEF Final
  <2> QED
    BY <2>1
<1>3. ASSUME NEW m \in Nat, m \in A PROVE m + 1 \in A
  <2> SUFFICES ASSUME NEW i \in Final(s, m + 1), i + 1 <= Len(s),
                      s[i + 1].k \notin {"octet", "cr", "lf"}
               PROVE  EndsLine(s, i, f[i])
    OBVIOUS
  <2>1. i \in Nat /\ i + 3 \in Final(s, m) /\ i + 1 \in 1 .. Len(s)
    BY <1>0 DEF Final
  <2>2. f[i] = LineStep(f, s, i)
    BY <1>1, <2>1
  <2>3. CASE Len(s) < i + 4
    BY <2>2, <2>3 DEF LineStep, EndsLine
  <2>4. CASE ~(Len(s) < i + 4) /\ s[i + 4].k = "fold"
    <3>1. f[i] = f[i + 3]
      BY <2>2, <2>4 DEF LineStep
    <3>2. i + 3 + 1 <= Len(s) /\ s[i + 3 + 1].k \notin {"octet", "cr", "lf"}
      BY <1>0, <2>1, <2>4
    <3>3. EndsLine(s, i + 3, f[i + 3])
      BY <1>3, <2>1, <3>2
    <3>4. \A n : n \in i + 3 + 3 .. Len(s) - 1 => n \in i + 3 .. Len(s) - 1
      BY <1>0, <2>1
    <3> QED
      BY <3>1, <3>3, <3>4 DEF EndsLine
  <2>5. CASE ~(Len(s) < i + 4) /\ s[i + 4].k # "fold"
    <3>1. f[i] = [r |-> "field", n |-> i + 3]
      BY <2>2, <2>5 DEF LineStep
    <3>2. i + 1 + 1 <= Len(s) /\ i + 1 + 2 <= Len(s) /\ i + 3 \in i + 3 .. Len(s) - 1
      BY <1>0, <2>1, <2>5
    <3>3. Cr(s, i + 1 + 1) /\ Lf(s, i + 1 + 2)
      BY <2>1, <3>2 DEF Cuts, Cut
    <3>4. i + 1 + 1 = i + 3 - 1 /\ i + 1 + 2 = i + 3
      BY <2>1
    <3>5. Cr(s, i + 3 - 1) /\ Lf(s, i + 3)
      BY <3>3, <3>4
    <3>6. f[i].r = "field" /\ f[i].n = i + 3
      BY <3>1
    <3>7. f[i].n - 1 = i + 3 - 1
      BY <2>1, <3>6
    <3>8. Cr(s, f[i].n - 1) /\ Lf(s, f[i].n)
      BY Zenon, <3>5, <3>6, <3>7
    <3> QED
      BY <3>2, <3>6, <3>8 DEF EndsLine
  <2> QED
    BY <2>3, <2>4, <2>5
<1>4. Len(s) \in A
  <2> HIDE DEF A
  <2> QED
    BY <1>0, <1>2, <1>3, Induction
<1>5. 0 \in Final(s, Len(s)) /\ 0 + 1 <= Len(s) /\ s[0 + 1].k \notin {"octet", "cr", "lf"}
  BY <1>0 DEF Final
<1>6. EndsLine(s, 0, f[0])
  BY <1>4, <1>5
<1>7. ParseField(s) = f[0]
  BY DEF ParseField, LineFinder, LineStep, f
<1> QED
  BY <1>6, <1>7 DEF EndsLine

-----------------------------------------------------------------------------
(* The reader *)

HeaderStates == {"nothing_yet", "start_line", "fields"}
BodyStates == {"body0", "body", "body_to_eof0", "body_to_eof"}
ParserStates == HeaderStates \cup BodyStates
                  \cup {"chunk_header0", "chunk_header", "chunk_body", "complete"}
Parsers ==
  [s : ParserStates,
   f : SUBSET {"length", "chunked", "has_body", "need_eof", "final", "expect_crlf"},
   skip : Nat, len : Int, len0 : Int, limit : Int, bodiless : BOOLEAN, room : Nat]

ReadCodes ==
  {"", "need_more", "header_limit", "bad_start_line", "bad_line_ending", "bad_field",
   "bad_content_length", "bad_transfer_encoding", "body_limit", "need_buffer", "bad_chunk",
   "bad_chunk_extension", "buffer_overflow", "end_of_stream", "partial_message"}
ReadOps ==
  [pc : {"idle", "some", "put", "field", "trailer", "ret", "read", "told"},
   until : {"done", "header", "some"}, eager : BOOLEAN, p : Nat, q : Nat, last : Nat, n : Nat,
   ec : ReadCodes]

\* Where a chunk header begins: behind the CRLF of the chunk before
Start(p) == IF "expect_crlf" \in p.f THEN 2 ELSE 0

\* What the offset skip_ tells in a chunk header: in front of it in r there is no
\* CR but the one of the chunk before and the one behind a size; and for the last
\* chunk, no CRLF CRLF ends up to three symbols further on
Searches(p, r) ==
  IF "final" \in p.f
  THEN p.skip + 3 <= Len(r) /\ \A j \in Start(p) + 5 .. p.skip + 3 : ~Eom(r, j)
  ELSE /\ Start(p) <= p.skip
       /\ \/ p.skip <= Start(p)
          \/ /\ Start(p) + 1 <= Len(r)
             /\ p.skip <= Start(p) + 1 \/ r[Start(p) + 1].k # "size"

\* A parser with r in front of it
Parses(p, r) ==
  /\ p \in Parsers
  /\ p.s \in BodyStates \cup {"chunk_header0"} => p.skip = 0
  /\ p.s \in HeaderStates \cup {"chunk_header0"} => "final" \notin p.f /\ "expect_crlf" \notin p.f
  /\ p.s = "chunk_body" => p.skip = 2 /\ "expect_crlf" \in p.f /\ "final" \notin p.f
  /\ p.s = "chunk_header" => Searches(p, r)

\* In the trailer a line has just ended at q, and the empty line is at the end
InTrailer(q, last) ==
  /\ q >= 2 /\ Cr(buf, q - 1) /\ Lf(buf, q)
  /\ \A j \in q + 2 .. last - 1 : ~Eom(buf, j)

Reads ==
  /\ rop \in ReadOps /\ rop.p <= Len(buf)
  /\ rop.pc \in {"idle", "some", "read", "told"} => rop.p = 0
  /\ rop.pc \in {"some", "read", "put", "field", "trailer"} => par.s # "complete"
  /\ rop.pc = "ret" /\ rop.ec = "need_more" => par.s # "complete"
  /\ rop.pc \in {"field", "trailer"} => rop.p <= rop.q /\ rop.q <= rop.last /\ rop.last <= Len(buf)
  /\ rop.pc = "field" => par.s = "fields" /\ par.skip = 0
  /\ rop.pc = "trailer" =>
       par.s = "chunk_header" /\ "final" \in par.f /\ InTrailer(rop.q, rop.last)

StreamInv ==
  /\ buf \in Seq(Symbols) /\ wire \in Seq(Symbols)
  /\ buf \o (wire \o ser.view) \in Blocks

ReaderInv == StreamInv /\ Parses(par, Rest) /\ Reads

LEMMA Buffered ==
  ASSUME StreamInv, SenderTypes
  PROVE  /\ buf \in Cuts /\ buf \in Seq(Symbols) /\ Len(buf) \in Nat
         /\ wire \in Seq(Symbols) /\ Len(wire) \in Nat
         /\ ser.view \in Seq(Symbols) /\ wire \o ser.view \in Seq(Symbols)
<1>1. ser.view \in Seq(Symbols)
  BY DEF SenderTypes, Serializes, Sers, Blocks
<1>2. wire \o ser.view \in Seq(Symbols)
  BY <1>1, ConcatProperties DEF StreamInv
<1>3. buf \in Cuts
  BY <1>2, FrontOfBlock DEF StreamInv
<1> QED
  BY <1>1, <1>2, <1>3, LenProperties DEF StreamInv

LEMMA RestIs ==
  ASSUME ReaderInv, SenderTypes
  PROVE  /\ Rest \in Cuts /\ Len(Rest) = Len(buf) - rop.p /\ Len(Rest) \in Nat
         /\ Rest \in Seq(Symbols)
         /\ \A i \in 1 .. Len(Rest) : Rest[i] = buf[rop.p + i] /\ Rest[i] \in Symbols
<1>1. buf \in Cuts /\ Len(buf) \in Nat
  BY Buffered DEF ReaderInv
<1>2. rop.p \in Nat /\ rop.p <= Len(buf)
  BY DEF ReaderInv, Reads, ReadOps
<1>3. /\ Rest \in Cuts /\ Len(Rest) = Len(buf) - rop.p
      /\ \A i \in 1 .. Len(buf) - rop.p : Rest[i] = buf[rop.p + i]
  BY <1>1, <1>2, PartOfCut DEF Rest
<1>4. Rest \in Seq(Symbols)
  BY <1>3 DEF Cuts
<1>5. Len(Rest) \in Nat /\ \A i \in 1 .. Len(Rest) : Rest[i] \in Symbols
  BY <1>4, LenProperties, ElementOfSeq
<1> QED
  BY <1>3, <1>4, <1>5

\* put returns, or goes on behind the symbols it has parsed
LEMMA ReturnKeeps ==
  ASSUME rop \in ReadOps, buf' = buf, NEW p \in Nat, p <= Len(buf), NEW ec \in ReadCodes,
         Return(p, ec), ec = "need_more" => par'.s # "complete"
  PROVE  Reads' /\ rop'.p = p
<1>1. /\ rop' \in ReadOps /\ rop'.pc = "ret" /\ rop'.p = p /\ rop'.ec = ec
  BY DEF Return, ReadOps
<1> QED
  BY <1>1 DEF Reads

LEMMA BreakKeeps ==
  ASSUME rop \in ReadOps, buf' = buf, NEW p \in Nat, p <= Len(buf), Break(p, par')
  PROVE  Reads' /\ rop'.p = p
<1>1. PICK pc : /\ pc \in {"put", "ret"}
                /\ rop' = [rop EXCEPT !.p = p, !.ec = "", !.pc = pc]
                /\ pc = "put" => par'.s # "complete"
  BY DEF Break, Done
<1>2. "" \in ReadCodes
  BY DEF ReadCodes
<1>3. /\ rop' \in ReadOps /\ rop'.pc = pc /\ rop'.p = p /\ rop'.ec = ""
  BY <1>1, <1>2 DEF ReadOps
<1> QED
  BY <1>1, <1>3 DEF Reads

\* The steps of the parser leave the sender and the stream alone
LEMMA ParserSteps ==
  ASSUME ReaderInv, buf' = buf, UNCHANGED serVars, Parses(par', Rest'), Reads'
  PROVE  ReaderInv'
  BY DEF ReaderInv, StreamInv, Parses, Searches, Rest, serVars

LEMMA RestStays ==
  ASSUME buf' = buf, rop'.p = rop.p
  PROVE  Rest' = Rest
  BY DEF Rest

LEMMA NeedMoreGives ==
  ASSUME NEW p \in Parsers, NEW r, Len(r) \in Nat
  PROVE  /\ MaybeNeedMore(p, r).skip \in Nat
         /\ MaybeNeedMore(p, r).ec \in {"", "need_more", "header_limit"}
         /\ MaybeNeedMore(p, r).ec = "" => MaybeNeedMore(p, r).skip = 0
<1> DEFINE n == Least(Len(r), HeaderLimit)
<1>1. HeaderLimit \in Nat
  BY ConstantsAssumption DEF ConstantsAssumption
<1>2. n \in Nat /\ p.skip \in Nat
  BY <1>1 DEF Least, Parsers
<1> HIDE DEF n
<1>3. CASE p.skip = 0
  BY <1>3 DEF MaybeNeedMore
<1>4. CASE p.skip # 0 /\ n < p.skip + 4
  BY <1>2, <1>4 DEF MaybeNeedMore, n
<1>5. CASE p.skip # 0 /\ ~(n < p.skip + 4)
  <2>1. n - 3 \in Nat
    BY <1>2, <1>5
  <2>2. MaybeNeedMore(p, r) =
          IF FindEom(SubSeq(r, 1, n), p.skip) # 0 THEN [ec |-> "", skip |-> 0]
          ELSE [ec |-> IF n + 1 > HeaderLimit THEN "header_limit" ELSE "need_more",
                skip |-> n - 3]
    BY <1>5 DEF MaybeNeedMore, n
  <2>3. CASE FindEom(SubSeq(r, 1, n), p.skip) # 0
    <3> DEFINE x == MaybeNeedMore(p, r)
    <3>1. x = [ec |-> "", skip |-> 0]
      BY <2>2, <2>3
    <3> HIDE DEF x
    <3>2. x.ec = "" /\ x.skip = 0 /\ x.skip \in Nat /\ x.ec \in {"", "need_more", "header_limit"}
      BY <3>1
    <3> QED
      BY Zenon, <3>2 DEF x
  <2>4. CASE FindEom(SubSeq(r, 1, n), p.skip) = 0
    <3> DEFINE x == MaybeNeedMore(p, r)
    <3>1. \/ x = [ec |-> "header_limit", skip |-> n - 3]
          \/ x = [ec |-> "need_more", skip |-> n - 3]
      BY <2>2, <2>4
    <3> HIDE DEF x
    <3>2. x.ec \in {"header_limit", "need_more"} /\ x.skip = n - 3
      BY <3>1
    <3>3. x.ec # ""
      BY <3>2
    <3> QED
      BY <2>1, <3>2, <3>3 DEF x
  <2> QED
    BY <2>3, <2>4
<1> QED
  BY <1>3, <1>4, <1>5

\* A state of the parser in front of the header and its body
LEMMA EarlyParses ==
  ASSUME NEW p \in Parsers, p.s \in HeaderStates, "final" \notin p.f, "expect_crlf" \notin p.f,
         NEW r
  PROVE  Parses(p, r)
  BY DEF Parses, HeaderStates, BodyStates

LEMMA StartLineKeeps ==
  ASSUME ReaderInv, SenderTypes, PutStartLine, UNCHANGED serVars
  PROVE  ReaderInv'
<1>1. /\ par \in Parsers /\ par.s \in HeaderStates /\ "final" \notin par.f
      /\ "expect_crlf" \notin par.f /\ rop \in ReadOps /\ rop.p \in Nat /\ rop.p <= Len(buf)
      /\ buf' = buf /\ Len(buf) \in Nat /\ rop.pc = "put"
  BY Buffered DEF ReaderInv, Parses, Reads, ReadOps, PutStartLine, HeaderStates
<1>2. Len(Rest) = Len(buf) - rop.p /\ Len(Rest) \in Nat
  BY RestIs
<1> DEFINE m == MaybeNeedMore(par, Rest)
           n == Len(Rest)
           w == Least(HeaderLimit, n)
<1>3. m.skip \in Nat /\ m.ec \in {"", "need_more", "header_limit"}
  BY <1>1, <1>2, NeedMoreGives
<1>4. w \in Nat /\ w <= n
  BY <1>2, ConstantsAssumption DEF ConstantsAssumption, Least
<1> HIDE DEF m, w
<1> DEFINE Good == par' \in Parsers /\ par'.s \in HeaderStates /\ par'.f = par.f
           Stops == \E ec \in ReadCodes : Return(rop.p, ec)
           Goes == /\ w >= 3
                   /\ rop' = IF n = 3 THEN [rop EXCEPT !.pc = "ret", !.p = @ + 3, !.ec = "need_more"]
                                      ELSE [rop EXCEPT !.p = @ + 3]
<1>5. Good /\ (Stops \/ Goes)
  <2>0. /\ {"start_line", "fields"} \subseteq HeaderStates
        /\ {"start_line", "fields"} \subseteq ParserStates
    BY DEF HeaderStates, ParserStates
  <2>1. CASE /\ m.ec # "" /\ par' = [par EXCEPT !.s = "start_line", !.skip = m.skip]
             /\ Return(rop.p, m.ec)
    <3>1. Good
      BY <1>1, <1>3, <2>0, <2>1 DEF Parsers
    <3>2. m.ec \in ReadCodes
      BY <1>3 DEF ReadCodes
    <3> QED
      BY <2>1, <3>1, <3>2
  <2>2. CASE /\ par' = [par EXCEPT !.s = "start_line", !.skip = m.skip]
             /\ Return(rop.p, "bad_start_line")
    <3>1. Good
      BY <1>1, <1>3, <2>0, <2>2 DEF Parsers
    <3>2. "bad_start_line" \in ReadCodes
      BY DEF ReadCodes
    <3> QED
      BY <2>2, <3>1, <3>2
  <2>3. CASE /\ par' = [[par EXCEPT !.s = "start_line", !.skip = m.skip]
                          EXCEPT !.skip = IF n < HeaderLimit /\ n >= 3 THEN n - 3 ELSE @]
             /\ Return(rop.p, IF n >= HeaderLimit THEN "header_limit" ELSE "need_more")
    <3> DEFINE skip == IF n < HeaderLimit /\ n >= 3 THEN n - 3 ELSE m.skip
    <3>1. skip \in Nat
      <4>1. n >= 3 => n - 3 \in Nat
        BY <1>2
      <4> HIDE DEF n
      <4> QED
        BY <1>3, <4>1
    <3>2. par' = [par EXCEPT !.s = "start_line", !.skip = skip]
      BY <1>1, <2>3 DEF Parsers
    <3> HIDE DEF skip
    <3>3. Good
      BY <1>1, <2>0, <3>1, <3>2 DEF Parsers
    <3>4. {"header_limit", "need_more"} \subseteq ReadCodes
      BY DEF ReadCodes
    <3>5. CASE n >= HeaderLimit
      BY <2>3, <3>3, <3>4, <3>5
    <3>6. CASE ~(n >= HeaderLimit)
      BY <2>3, <3>3, <3>4, <3>6
    <3> QED
      BY <3>5, <3>6
  <2>4. CASE /\ w >= 3
             /\ par' = [[par EXCEPT !.s = "start_line", !.skip = m.skip]
                          EXCEPT !.s = "fields", !.bodiless = Rest[1].n = 1]
             /\ rop' = IF n = 3 THEN [rop EXCEPT !.pc = "ret", !.p = @ + 3, !.ec = "need_more"]
                                ELSE [rop EXCEPT !.p = @ + 3]
    <3> DEFINE b == Rest[1].n = 1
    <3>1. b \in BOOLEAN
      OBVIOUS
    <3>2. par' = [par EXCEPT !.s = "fields", !.skip = m.skip, !.bodiless = b]
      BY <1>1, <2>4 DEF Parsers
    <3> HIDE DEF b
    <3>3. Good
      BY <1>1, <1>3, <2>0, <3>1, <3>2 DEF Parsers
    <3> QED
      BY <2>4, <3>3
  <2> QED
    BY <2>1, <2>2, <2>3, <2>4 DEF PutStartLine, m, w
<1>6. par' \in Parsers /\ par'.s \in HeaderStates /\ par'.f = par.f
  BY <1>5
<1>7. Parses(par', Rest')
  BY <1>1, <1>6, EarlyParses
<1>8. par'.s # "complete"
  BY <1>6 DEF HeaderStates
<1>9. Reads'
  <2>1. CASE Stops
    <3>1. PICK ec \in ReadCodes : Return(rop.p, ec)
      BY <2>1
    <3> QED
      BY <1>1, <1>8, <3>1, ReturnKeeps
  <2>2. CASE Goes
    <3>1. rop.p + 3 \in Nat /\ rop.p + 3 <= Len(buf)
      BY <1>1, <1>2, <1>4, <2>2
    <3>2. "need_more" \in ReadCodes
      BY DEF ReadCodes
    <3>3. /\ rop' \in ReadOps /\ rop'.p = rop.p + 3 /\ rop'.pc \in {"ret", "put"}
      BY <1>1, <2>2, <3>1, <3>2 DEF ReadOps
    <3> QED
      BY <1>1, <1>8, <3>1, <3>3 DEF Reads
  <2> QED
    BY <1>5, <2>1, <2>2
<1> QED
  BY <1>1, <1>7, <1>9, ParserSteps

LEMMA PutFieldsKeeps ==
  ASSUME ReaderInv, SenderTypes, PutFields, UNCHANGED serVars
  PROVE  ReaderInv'
<1>1. /\ par \in Parsers /\ par.s = "fields" /\ "final" \notin par.f
      /\ "expect_crlf" \notin par.f /\ rop \in ReadOps /\ rop.p \in Nat /\ rop.p <= Len(buf)
      /\ buf' = buf /\ Len(buf) \in Nat /\ rop.pc = "put"
  BY Buffered DEF ReaderInv, Parses, Reads, ReadOps, PutFields, HeaderStates
<1>2. Len(Rest) = Len(buf) - rop.p /\ Len(Rest) \in Nat
  BY RestIs
<1> DEFINE m == MaybeNeedMore(par, Rest)
           last == rop.p + Least(HeaderLimit, Len(Rest))
<1>3. /\ m.skip \in Nat /\ m.ec \in {"", "need_more", "header_limit"}
      /\ m.ec = "" => m.skip = 0
  BY <1>1, <1>2, NeedMoreGives
<1>4. last \in Nat /\ rop.p <= last /\ last <= Len(buf)
  BY <1>1, <1>2, ConstantsAssumption DEF ConstantsAssumption, Least
<1> HIDE DEF m, last
<1>5. /\ par' = [par EXCEPT !.skip = m.skip]
      /\ m.ec # "" => Return(rop.p, m.ec)
      /\ m.ec = "" => rop' = [rop EXCEPT !.pc = "field", !.n = Len(Rest), !.q = rop.p,
                              !.last = last]
  BY DEF PutFields, m, last
<1>6. par' \in Parsers /\ par'.s = "fields" /\ par'.f = par.f /\ par'.skip = m.skip
  BY <1>1, <1>3, <1>5 DEF Parsers
<1>7. Parses(par', Rest')
  BY <1>1, <1>6, EarlyParses DEF HeaderStates
<1>8. CASE m.ec # ""
  <2>1. m.ec \in ReadCodes
    BY <1>3 DEF ReadCodes
  <2>2. Reads'
    BY <1>1, <1>5, <1>6, <1>8, <2>1, ReturnKeeps
  <2> QED
    BY <1>1, <1>7, <2>2, ParserSteps
<1>9. CASE m.ec = ""
  <2>1. /\ rop' \in ReadOps /\ rop'.pc = "field" /\ rop'.p = rop.p /\ rop'.q = rop.p
        /\ rop'.last = last
    BY <1>1, <1>2, <1>4, <1>5, <1>9 DEF ReadOps
  <2>2. par'.s # "complete" /\ par'.skip = 0 /\ Len(buf') = Len(buf) /\ rop'.last <= Len(buf')
    BY <1>1, <1>3, <1>4, <1>6, <1>9, <2>1
  <2>3. Reads'
    BY <1>1, <1>4, <1>6, <2>1, <2>2 DEF Reads
  <2> QED
    BY <1>1, <1>7, <2>3, ParserSteps
<1> QED
  BY <1>8, <1>9

-----------------------------------------------------------------------------
(* parse_fields *)

FieldInput == SubSeq(buf, rop.q + 1, rop.last)
Behind(q) == IF rop.pc = "trailer" THEN rop.p ELSE q

LEMMA FieldsEndDoes ==
  ASSUME FieldsEnd
  PROVE  /\ rop.pc = "trailer" => /\ par' = [par EXCEPT !.s = "complete"]
                                  /\ Break(rop.last, par')
                                  /\ rop.q + 2 = rop.last => failed' = failed
         /\ rop.pc # "trailer" =>
              /\ par' = FinishHeader(par).p
              /\ FinishHeader(par).ec # "" => Return(rop.q + 2, FinishHeader(par).ec)
              /\ FinishHeader(par).ec = "" => Break(rop.q + 2, par')
              /\ failed' = failed
  BY Zenon DEF FieldsEnd, Check

LEMMA FieldDoes ==
  ASSUME Field
  PROVE  LET s == FieldInput
             x == DoField(par, s[1])
         IN  /\ rop.pc \in {"field", "trailer"} /\ UNCHANGED <<buf, how, body, taken, received>>
             /\ \/ FieldsNeedMore /\ failed' = failed
                \/ ~(Len(s) < 2) /\ s[1] = Sym("cr", 0) /\ s[2] = Sym("lf", 0) /\ FieldsEnd
                \/ /\ ~(Len(s) < 2) /\ par' = par /\ failed' = failed
                   /\ \/ Return(Behind(rop.q + 2), "bad_line_ending")
                      \/ Return(Behind(rop.q), "bad_field")
                \/ /\ ~(Len(s) < 2) /\ par' = x.p /\ failed' = failed
                   /\ ParseField(s).r = "field"
                   /\ x.ec # "" => Return(Behind(rop.q), x.ec)
                   /\ x.ec = "" => rop' = [rop EXCEPT !.q = @ + ParseField(s).n]
  BY DEF Field, FieldInput, Behind

LEMMA DoFieldGives ==
  ASSUME NEW p \in Parsers, NEW x \in Symbols, x.k \in {"field", "length", "chunked"}
  PROVE  /\ DoField(p, x).p \in Parsers /\ DoField(p, x).p.s = p.s
         /\ DoField(p, x).p.skip = p.skip
         /\ \A flag \in {"final", "expect_crlf"} : flag \in DoField(p, x).p.f <=> flag \in p.f
         /\ DoField(p, x).ec \in {"", "bad_content_length", "bad_transfer_encoding"}
<1> DEFINE y == DoField(p, x)
<1>0. x.n \in Int
  BY DEF Symbols
<1>1. \/ y.p = p
      \/ y.p = [p EXCEPT !.len = x.n, !.len0 = x.n, !.f = @ \cup {"length"}]
      \/ y.p = [p EXCEPT !.len = 0, !.f = @ \cup {"chunked"}]
  BY DEF DoField
<1>2. y.ec \in {"", "bad_content_length", "bad_transfer_encoding"}
  BY DEF DoField
<1> HIDE DEF y
<1>3. CASE y.p = p
  BY <1>2, <1>3 DEF y
<1>4. CASE y.p = [p EXCEPT !.len = x.n, !.len0 = x.n, !.f = @ \cup {"length"}]
  <2>1. p.f \cup {"length"}
          \in SUBSET {"length", "chunked", "has_body", "need_eof", "final", "expect_crlf"}
    BY DEF Parsers
  <2>2. /\ y.p \in Parsers /\ y.p.s = p.s /\ y.p.skip = p.skip /\ y.p.f = p.f \cup {"length"}
    BY <1>0, <1>4, <2>1 DEF Parsers
  <2> QED
    BY <1>2, <2>2 DEF y
<1>5. CASE y.p = [p EXCEPT !.len = 0, !.f = @ \cup {"chunked"}]
  <2> DEFINE g == p.f \cup {"chunked"}
  <2>0. g \in SUBSET {"length", "chunked", "has_body", "need_eof", "final", "expect_crlf"}
    BY DEF Parsers
  <2>1. \A flag \in {"final", "expect_crlf"} : flag \in g <=> flag \in p.f
    OBVIOUS
  <2> DEFINE z == 0
  <2>2. y.p = [p EXCEPT !.len = z, !.f = g] /\ z \in Int
    BY <1>5 DEF Parsers
  <2> HIDE DEF g, z
  <2>3. y.p \in Parsers /\ y.p.s = p.s /\ y.p.skip = p.skip /\ y.p.f = g
    BY <2>0, <2>2 DEF Parsers
  <2> QED
    BY <1>2, <2>1, <2>3 DEF y
<1> QED
  BY <1>1, <1>3, <1>4, <1>5

LEMMA FinishGives ==
  ASSUME NEW p \in Parsers, p.s = "fields", p.skip = 0, "final" \notin p.f,
         "expect_crlf" \notin p.f
  PROVE  /\ FinishHeader(p).p \in Parsers
         /\ FinishHeader(p).p.s \in {"fields", "complete", "body0", "chunk_header0", "body_to_eof0"}
         /\ FinishHeader(p).p.skip = 0
         /\ "final" \notin FinishHeader(p).p.f /\ "expect_crlf" \notin FinishHeader(p).p.f
         /\ FinishHeader(p).ec \in {"", "body_limit"}
<1> DEFINE y == FinishHeader(p)
           To(s, f) == [p EXCEPT !.s = s, !.f = @ \cup f]
<1>1. \/ y.p = p \/ y.p = To("complete", {}) \/ y.p = To("body0", {"has_body"})
      \/ y.p = To("chunk_header0", {"has_body"})
      \/ y.p = To("body_to_eof0", {"has_body", "need_eof"})
  BY DEF FinishHeader
<1>2. y.ec \in {"", "body_limit"}
  BY DEF FinishHeader
<1>3. ASSUME NEW s, s \in {"complete", "body0", "chunk_header0", "body_to_eof0"},
             NEW f, f \subseteq {"has_body", "need_eof"}
      PROVE  /\ To(s, f) \in Parsers /\ To(s, f).s = s /\ To(s, f).skip = 0
             /\ "final" \notin To(s, f).f /\ "expect_crlf" \notin To(s, f).f
  <2>1. s \in ParserStates
    BY <1>3 DEF ParserStates, BodyStates
  <2>2. /\ p.f \cup f \in SUBSET {"length", "chunked", "has_body", "need_eof", "final",
                                   "expect_crlf"}
        /\ "final" \notin p.f \cup f /\ "expect_crlf" \notin p.f \cup f
    BY <1>3 DEF Parsers
  <2> DEFINE g == p.f \cup f
  <2>3. To(s, f) = [p EXCEPT !.s = s, !.f = g]
    BY DEF Parsers
  <2> HIDE DEF g
  <2>4. g \in SUBSET {"length", "chunked", "has_body", "need_eof", "final", "expect_crlf"}
    BY <2>2 DEF g
  <2>5. To(s, f) \in Parsers /\ To(s, f).s = s /\ To(s, f).skip = 0 /\ To(s, f).f = g
    BY <2>1, <2>3, <2>4 DEF Parsers
  <2> QED
    BY <2>2, <2>5 DEF g
<1> HIDE DEF y, To
<1>4. /\ {"has_body", "need_eof"} \subseteq {"has_body", "need_eof"}
      /\ {"has_body"} \subseteq {"has_body", "need_eof"} /\ {} \subseteq {"has_body", "need_eof"}
  OBVIOUS
<1>5. /\ y.p \in Parsers /\ y.p.skip = 0
      /\ y.p.s \in {"fields", "complete", "body0", "chunk_header0", "body_to_eof0"}
      /\ "final" \notin y.p.f /\ "expect_crlf" \notin y.p.f
  BY <1>1, <1>3, <1>4
<1> QED
  BY <1>2, <1>5 DEF y


LEMMA FieldInputIs ==
  ASSUME ReaderInv, SenderTypes, rop.pc \in {"field", "trailer"}
  PROVE  /\ FieldInput \in Cuts /\ Len(FieldInput) = rop.last - rop.q
         /\ \A i \in 1 .. rop.last - rop.q : FieldInput[i] = buf[rop.q + i]
         /\ rop \in ReadOps /\ rop.p \in Nat /\ rop.q \in Nat /\ rop.last \in Nat /\ Len(buf) \in Nat
         /\ rop.p <= rop.q /\ rop.q <= rop.last /\ rop.last <= Len(buf)
         /\ par \in Parsers
<1>1. buf \in Cuts /\ Len(buf) \in Nat
  BY Buffered DEF ReaderInv
<1>2. /\ rop \in ReadOps /\ rop.p \in Nat /\ rop.q \in Nat /\ rop.last \in Nat
      /\ rop.p <= rop.q /\ rop.q <= rop.last /\ rop.last <= Len(buf)
  BY DEF ReaderInv, Reads, ReadOps
<1>3. /\ FieldInput \in Cuts /\ Len(FieldInput) = rop.last - rop.q
      /\ \A i \in 1 .. rop.last - rop.q : FieldInput[i] = buf[rop.q + i]
  BY <1>1, <1>2, PartOfCut DEF FieldInput
<1>4. par \in Parsers
  BY DEF ReaderInv, Parses
<1> QED
  BY <1>1, <1>2, <1>3, <1>4

\* What the parser is while parse_fields runs
LEMMA FieldParser ==
  ASSUME ReaderInv
  PROVE  /\ rop.pc = "field" => /\ par.s = "fields" /\ par.skip = 0
                                /\ "final" \notin par.f /\ "expect_crlf" \notin par.f
         /\ rop.pc = "trailer" => /\ par.s = "chunk_header" /\ "final" \in par.f
                                  /\ Searches(par, Rest) /\ InTrailer(rop.q, rop.last)
<1>1. CASE rop.pc = "field"
  <2>1. par.s = "fields" /\ par.skip = 0
    BY <1>1 DEF ReaderInv, Reads
  <2>2. "final" \notin par.f /\ "expect_crlf" \notin par.f
    BY <2>1 DEF ReaderInv, Parses, HeaderStates
  <2> QED
    BY <1>1, <2>1, <2>2
<1>2. CASE rop.pc = "trailer"
  <2>1. par.s = "chunk_header" /\ "final" \in par.f /\ InTrailer(rop.q, rop.last)
    BY <1>2 DEF ReaderInv, Reads
  <2>2. Searches(par, Rest)
    BY <2>1 DEF ReaderInv, Parses
  <2> QED
    BY <1>2, <2>1, <2>2
<1> QED
  BY <1>1, <1>2

\* put returns out of parse_fields with the parser as it was but for its flags
\* of the framing
LEMMA FieldReturns ==
  ASSUME ReaderInv, SenderTypes, rop.pc \in {"field", "trailer"}, buf' = buf, UNCHANGED serVars,
         NEW q \in Nat, rop.p <= q, q <= Len(buf), NEW ec \in ReadCodes, Return(Behind(q), ec),
         par' \in Parsers, par'.s = par.s, rop.pc = "trailer" => par'.skip = par.skip,
         "final" \in par'.f <=> "final" \in par.f,
         "expect_crlf" \in par'.f <=> "expect_crlf" \in par.f
  PROVE  ReaderInv'
<1>1. rop \in ReadOps /\ rop.p \in Nat /\ Len(buf) \in Nat /\ rop.p <= Len(buf)
  BY FieldInputIs
<1>2. Behind(q) \in Nat /\ Behind(q) <= Len(buf)
  BY <1>1 DEF Behind
<1>3. par'.s # "complete"
  BY FieldParser
<1>4. Reads' /\ rop'.p = Behind(q)
  BY <1>1, <1>2, <1>3, ReturnKeeps
<1>5. Parses(par', Rest')
  <2>1. CASE rop.pc = "field"
    BY <2>1, FieldParser, EarlyParses DEF HeaderStates
  <2>2. CASE rop.pc = "trailer"
    <3>1. Rest' = Rest
      BY <1>4, <2>2, RestStays DEF Behind
    <3>2. Start(par') = Start(par)
      BY DEF Start
    <3>3. Searches(par', Rest)
      BY <2>2, <3>2, FieldParser DEF Searches
    <3>4. par'.s = "chunk_header"
      BY <2>2, FieldParser
    <3> QED
      BY <3>1, <3>3, <3>4 DEF Parses, BodyStates, HeaderStates
  <2> QED
    BY <2>1, <2>2
<1> QED
  BY <1>4, <1>5, ParserSteps

LEMMA FieldsNeedMoreKeeps ==
  ASSUME ReaderInv, SenderTypes, rop.pc \in {"field", "trailer"}, FieldsNeedMore,
         buf' = buf, UNCHANGED serVars
  PROVE  ReaderInv'
<1>1. /\ rop.p \in Nat /\ rop.q \in Nat /\ rop.p <= rop.q /\ rop.q <= Len(buf)
      /\ Len(buf) \in Nat /\ par \in Parsers
  BY FieldInputIs
<1>2. "need_more" \in ReadCodes /\ "header_limit" \in ReadCodes
  BY DEF ReadCodes
<1>3. CASE par' = par /\ Return(Behind(rop.q), "need_more")
  BY <1>1, <1>2, <1>3, FieldReturns
<1>4. CASE rop.pc = "field" /\ par' = par /\ Return(Behind(rop.q), "header_limit")
  BY <1>1, <1>2, <1>4, FieldReturns
<1>5. CASE /\ rop.pc = "field"
           /\ \E skip \in Nat : par' = [par EXCEPT !.skip = skip]
           /\ Return(Behind(rop.q), "need_more")
  <2>1. PICK skip \in Nat : par' = [par EXCEPT !.skip = skip]
    BY <1>5
  <2>2. par' \in Parsers /\ par'.s = par.s /\ par'.f = par.f
    BY <1>1, <2>1 DEF Parsers
  <2> QED
    BY <1>1, <1>2, <1>5, <2>2, FieldReturns
<1>6. CASE rop.pc = "trailer"
  <2>1. par' = par /\ Return(rop.p, "need_more")
    BY <1>6 DEF FieldsNeedMore
  <2> QED
    BY <1>3, <1>6, <2>1 DEF Behind
<1>7. CASE rop.pc = "field"
  <2> DEFINE left == Len(buf) - rop.q
             skip == IF left >= 3 THEN left - 3 ELSE par.skip
  <2>1. skip \in Nat
    BY <1>1 DEF Parsers
  <2>2. /\ Behind(rop.q) = rop.q
        /\ \/ par' = par /\ Return(rop.q, "header_limit")
           \/ par' = [par EXCEPT !.skip = skip] /\ Return(rop.q, "need_more")
    BY <1>7 DEF FieldsNeedMore, Behind
  <2> HIDE DEF skip
  <2> QED
    BY <1>4, <1>5, <1>7, <2>1, <2>2
<1> QED
  BY <1>6, <1>7

LEMMA EomBehind ==
  ASSUME NEW s, NEW i \in Int, Cr(s, i - 1), Lf(s, i), Cr(s, i + 1), Lf(s, i + 2)
  PROVE  Eom(s, i + 2)
  BY DEF Eom, Cr, Lf

LEMMA TrailerMoves ==
  ASSUME NEW a \in Nat, NEW b \in Nat, NEW last \in Nat, a <= b, b >= 2,
         InTrailer(a, last), Cr(buf, b - 1), Lf(buf, b)
  PROVE  InTrailer(b, last)
<1>1. \A j \in b + 2 .. last - 1 : j \in a + 2 .. last - 1
  OBVIOUS
<1>2. \A j \in a + 2 .. last - 1 : ~Eom(buf, j)
  BY DEF InTrailer
<1>3. \A j \in b + 2 .. last - 1 : ~Eom(buf, j)
  BY <1>1, <1>2
<1> QED
  BY <1>3 DEF InTrailer

\* A parser that has left the header for the body, or is done
LEMMA LaterParses ==
  ASSUME NEW p \in Parsers, p.s \in {"fields", "complete", "body0", "chunk_header0", "body_to_eof0"},
         p.skip = 0, "final" \notin p.f, "expect_crlf" \notin p.f, NEW r
  PROVE  Parses(p, r)
  BY DEF Parses, HeaderStates, BodyStates

\* put leaves parse_fields by break: everything is as it was with parser q
LEMMA BreaksOff ==
  ASSUME ReaderInv, SenderTypes, buf' = buf, UNCHANGED serVars,
         NEW p \in Nat, p <= Len(buf), Break(p, par'), Parses(par', Rest')
  PROVE  ReaderInv'
<1>1. rop \in ReadOps
  BY DEF ReaderInv, Reads
<1>2. Reads'
  BY <1>1, BreakKeeps
<1> QED
  BY <1>2, ParserSteps

LEMMA FieldsEndKeeps ==
  ASSUME ReaderInv, SenderTypes, rop.pc \in {"field", "trailer"}, FieldsEnd,
         ~(Len(FieldInput) < 2), Cr(FieldInput, 1), Lf(FieldInput, 2),
         buf' = buf, UNCHANGED serVars
  PROVE  ReaderInv' /\ failed' = failed
<1>1. /\ rop.p \in Nat /\ rop.q \in Nat /\ rop.p <= rop.q /\ rop.last <= Len(buf)
      /\ rop.last \in Nat /\ Len(buf) \in Nat /\ par \in Parsers /\ rop.q + 2 <= rop.last
  BY FieldInputIs
<1>2. CASE rop.pc = "trailer"
  <2>1. par' = [par EXCEPT !.s = "complete"] /\ Break(rop.last, par')
    BY <1>2, FieldsEndDoes
  <2>2. par' \in Parsers /\ par'.s = "complete"
    BY <1>1, <2>1 DEF Parsers, ParserStates
  <2>3. Parses(par', Rest')
    BY <2>2 DEF Parses, BodyStates, HeaderStates
  <2>4. ReaderInv'
    BY <1>1, <2>1, <2>3, BreaksOff
  <2>5. Cr(buf, rop.q + 1) /\ Lf(buf, rop.q + 2)
    <3>1. 1 \in 1 .. rop.last - rop.q /\ 2 \in 1 .. rop.last - rop.q
      BY <1>1
    <3>2. FieldInput[1] = buf[rop.q + 1] /\ FieldInput[2] = buf[rop.q + 2]
      BY <3>1, FieldInputIs
    <3> QED
      BY <3>2 DEF Cr, Lf
  <2>6. InTrailer(rop.q, rop.last)
    BY <1>2, FieldParser
  <2>7. Eom(buf, rop.q + 2)
    <3>2. Cr(buf, rop.q - 1) /\ Lf(buf, rop.q)
      BY <2>6 DEF InTrailer
    <3> QED
      BY <1>1, <2>5, <3>2, EomBehind
  <2>8. rop.q + 2 = rop.last
    BY <1>1, <2>6, <2>7 DEF InTrailer
  <2>9. failed' = failed
    BY <1>2, <2>8, FieldsEndDoes
  <2> QED
    BY <2>4, <2>9
<1>3. CASE rop.pc = "field"
  <2> DEFINE x == FinishHeader(par)
  <2>1. /\ par.s = "fields" /\ par.skip = 0 /\ "final" \notin par.f /\ "expect_crlf" \notin par.f
    BY <1>3, FieldParser
  <2>2. /\ x.p \in Parsers
        /\ x.p.s \in {"fields", "complete", "body0", "chunk_header0", "body_to_eof0"}
        /\ x.p.skip = 0 /\ "final" \notin x.p.f /\ "expect_crlf" \notin x.p.f
    BY <1>1, <2>1, FinishGives
  <2>3. x.ec \in {"", "body_limit"}
    BY <1>1, <2>1, FinishGives
  <2>4. /\ par' = x.p /\ failed' = failed
        /\ x.ec # "" => Return(rop.q + 2, x.ec)
        /\ x.ec = "" => Break(rop.q + 2, par')
    BY <1>3, FieldsEndDoes
  <2> HIDE DEF x
  <2>5. Parses(par', Rest')
    BY <2>2, <2>4, LaterParses
  <2>6. rop.q + 2 \in Nat /\ rop.q + 2 <= Len(buf)
    BY <1>1
  <2>7. CASE x.ec = ""
    BY <2>4, <2>5, <2>6, <2>7, BreaksOff
  <2>8. CASE x.ec # ""
    <3>1. Return(rop.q + 2, "body_limit")
      BY <2>3, <2>4, <2>8
    <3>2. "body_limit" \in ReadCodes /\ rop \in ReadOps
      BY DEF ReadCodes, ReaderInv, Reads
    <3>3. Reads'
      BY <2>6, <3>1, <3>2, ReturnKeeps
    <3> QED
      BY <2>4, <2>5, <3>3, ParserSteps
  <2> QED
    BY <2>7, <2>8
<1> QED
  BY <1>2, <1>3

\* parse_fields goes on behind a field
LEMMA LineKeeps ==
  ASSUME ReaderInv, SenderTypes, rop.pc \in {"field", "trailer"}, buf' = buf, UNCHANGED serVars,
         ParseField(FieldInput).r = "field", ~(Len(FieldInput) < 2),
         rop' = [rop EXCEPT !.q = @ + ParseField(FieldInput).n],
         par' \in Parsers, par'.s = par.s, par'.skip = par.skip,
         "final" \in par'.f <=> "final" \in par.f,
         "expect_crlf" \in par'.f <=> "expect_crlf" \in par.f,
         FieldInput[1].k \in {"field", "length", "chunked"}
  PROVE  ReaderInv'
<1> DEFINE n == ParseField(FieldInput).n
           l == Len(FieldInput)
<1>1. /\ rop.p \in Nat /\ rop.q \in Nat /\ rop.p <= rop.q /\ rop.last <= Len(buf)
      /\ rop.last \in Nat /\ Len(buf) \in Nat /\ par \in Parsers /\ rop.q <= rop.last
      /\ rop \in ReadOps /\ l = rop.last - rop.q /\ FieldInput \in Cuts
  BY FieldInputIs
<1>2. n \in 3 .. l - 1 /\ Cr(FieldInput, n - 1) /\ Lf(FieldInput, n)
  <2>1. l >= 1
    BY <1>1
  <2>2. EndsLine(FieldInput, 0, ParseField(FieldInput))
    BY <1>1, <2>1, FieldEndsLine
  <2>3. ParseField(FieldInput).r # "need_more"
    OBVIOUS
  <2> QED
    BY <2>2, <2>3 DEF EndsLine
<1> HIDE DEF n, l
<1>3. n \in Nat /\ n >= 3 /\ n <= l - 1
  BY <1>1, <1>2
<1>4. /\ rop' \in ReadOps /\ rop'.pc = rop.pc /\ rop'.p = rop.p /\ rop'.q = rop.q + n
      /\ rop'.last = rop.last
  <2>1. rop' = [rop EXCEPT !.q = rop.q + n] /\ rop.q + n \in Nat
    BY <1>1, <1>3 DEF n, ReadOps
  <2> QED
    BY <1>1, <2>1 DEF ReadOps
<1>5. rop.q + n <= rop.last
  BY <1>1, <1>3
<1>6. Rest' = Rest
  BY <1>4, RestStays
<1>7. CASE rop.pc = "field"
  <2>1. par.s = "fields" /\ par.skip = 0 /\ "final" \notin par.f /\ "expect_crlf" \notin par.f
    BY <1>7, FieldParser
  <2>2. Parses(par', Rest')
    BY <2>1, LaterParses
  <2>3. Reads'
    <3>1. rop'.p <= Len(buf') /\ rop'.p <= rop'.q /\ rop'.q <= rop'.last /\ rop'.last <= Len(buf')
      BY <1>1, <1>3, <1>4, <1>5
    <3> QED
      BY <1>4, <1>7, <2>1, <3>1 DEF Reads
  <2> QED
    BY <2>2, <2>3, ParserSteps
<1>8. CASE rop.pc = "trailer"
  <2>1. par.s = "chunk_header" /\ "final" \in par.f /\ Searches(par, Rest)
          /\ InTrailer(rop.q, rop.last)
    BY <1>8, FieldParser
  <2>2. Parses(par', Rest')
    <3>1. Start(par') = Start(par)
      BY DEF Start
    <3>2. Searches(par', Rest)
      BY <2>1, <3>1 DEF Searches
    <3> QED
      BY <1>6, <2>1, <3>2 DEF Parses, BodyStates, HeaderStates
  <2>3. Cr(buf, (rop.q + n) - 1) /\ Lf(buf, rop.q + n)
    <3>1. n - 1 \in 1 .. rop.last - rop.q /\ n \in 1 .. rop.last - rop.q
      BY <1>1, <1>3
    <3>2. FieldInput[n - 1] = buf[rop.q + (n - 1)] /\ FieldInput[n] = buf[rop.q + n]
      BY <3>1, FieldInputIs
    <3>3. rop.q + (n - 1) = (rop.q + n) - 1
      <4>1. rop.q \in Nat /\ n \in Nat
        BY <1>1, <1>3
      <4> QED
        BY <4>1
    <3> QED
      BY <1>2, <3>2, <3>3 DEF Cr, Lf
  <2>4. InTrailer(rop.q + n, rop.last)
    <3>1. rop.q + n \in Nat /\ rop.q <= rop.q + n /\ rop.q + n >= 2
      BY <1>1, <1>3
    <3> DEFINE q == rop.q + n
    <3>2. Cr(buf, q - 1) /\ Lf(buf, q) /\ q \in Nat /\ rop.q <= q /\ q >= 2
      BY <2>3, <3>1
    <3> HIDE DEF q
    <3>3. InTrailer(q, rop.last)
      BY <1>1, <2>1, <3>2, TrailerMoves
    <3> QED
      BY Zenon, <3>3 DEF q
  <2>5. InTrailer(rop.q, rop.last)'
    BY <1>4, <2>4 DEF InTrailer, Cr, Lf, Eom
  <2>6. Reads'
    <3>1. rop'.p <= Len(buf') /\ rop'.p <= rop'.q /\ rop'.q <= rop'.last /\ rop'.last <= Len(buf')
      BY <1>1, <1>3, <1>4, <1>5
    <3> QED
      BY <1>4, <1>8, <2>1, <2>5, <3>1 DEF Reads
  <2> QED
    BY <2>2, <2>6, ParserSteps
<1> QED
  BY <1>7, <1>8

LEMMA FieldKeeps ==
  ASSUME ReaderInv, SenderTypes, Field, UNCHANGED serVars
  PROVE  ReaderInv' /\ failed' = failed
<1> DEFINE s == FieldInput
           x == DoField(par, s[1])
<1>1. rop.pc \in {"field", "trailer"} /\ buf' = buf
  BY FieldDoes
<1>2. /\ rop.p \in Nat /\ rop.q \in Nat /\ rop.p <= rop.q /\ rop.q <= rop.last
      /\ rop.last \in Nat /\ Len(buf) \in Nat /\ rop.last <= Len(buf) /\ par \in Parsers
      /\ s \in Cuts /\ Len(s) = rop.last - rop.q
  BY <1>1, FieldInputIs
<1>3. \/ FieldsNeedMore /\ failed' = failed
      \/ ~(Len(s) < 2) /\ s[1] = Sym("cr", 0) /\ s[2] = Sym("lf", 0) /\ FieldsEnd
      \/ /\ ~(Len(s) < 2) /\ par' = par /\ failed' = failed
         /\ Return(Behind(rop.q + 2), "bad_line_ending") \/ Return(Behind(rop.q), "bad_field")
      \/ /\ ~(Len(s) < 2) /\ par' = x.p /\ failed' = failed
         /\ ParseField(s).r = "field"
         /\ x.ec # "" => Return(Behind(rop.q), x.ec)
         /\ x.ec = "" => rop' = [rop EXCEPT !.q = @ + ParseField(s).n]
  BY FieldDoes
<1>4. CASE FieldsNeedMore /\ failed' = failed
  BY <1>1, <1>4, FieldsNeedMoreKeeps
<1>5. CASE ~(Len(s) < 2) /\ s[1] = Sym("cr", 0) /\ s[2] = Sym("lf", 0) /\ FieldsEnd
  BY <1>1, <1>5, FieldsEndKeeps DEF Cr, Lf
<1>6. CASE /\ ~(Len(s) < 2) /\ par' = par /\ failed' = failed
           /\ Return(Behind(rop.q + 2), "bad_line_ending") \/ Return(Behind(rop.q), "bad_field")
  <2>1. "bad_line_ending" \in ReadCodes /\ "bad_field" \in ReadCodes
    BY DEF ReadCodes
  <2>2. rop.q + 2 \in Nat /\ rop.q + 2 <= Len(buf) /\ rop.p <= rop.q + 2 /\ rop.q <= Len(buf)
    BY <1>2, <1>6
  <2> QED
    BY <1>1, <1>2, <1>6, <2>1, <2>2, FieldReturns
<1>7. CASE /\ ~(Len(s) < 2) /\ par' = x.p /\ failed' = failed
           /\ ParseField(s).r = "field"
           /\ x.ec # "" => Return(Behind(rop.q), x.ec)
           /\ x.ec = "" => rop' = [rop EXCEPT !.q = @ + ParseField(s).n]
  <2>1. s[1].k \in {"field", "length", "chunked"}
    BY <1>7 DEF ParseField
  <2>2. s[1] \in Symbols
    <3>0. Len(s) \in Nat /\ ~(Len(s) < 2)
      <4>1. ~(Len(s) < 2)
        BY <1>7
      <4> HIDE DEF s
      <4> QED
        BY <1>2, <4>1
    <3>1. s \in Seq(Symbols) /\ 1 \in 1 .. Len(s)
      <4> HIDE DEF s
      <4> QED
        BY <1>2, <3>0 DEF Cuts
    <3> QED
      BY <3>1, ElementOfSeq
  <2>3. /\ x.p \in Parsers /\ x.p.s = par.s /\ x.p.skip = par.skip
        /\ "final" \in x.p.f <=> "final" \in par.f
        /\ "expect_crlf" \in x.p.f <=> "expect_crlf" \in par.f
    BY <1>2, <2>1, <2>2, DoFieldGives
  <2>4. x.ec \in {"", "bad_content_length", "bad_transfer_encoding"}
    BY <1>2, <2>1, <2>2, DoFieldGives
  <2> HIDE DEF x
  <2>5. CASE x.ec = ""
    BY <1>1, <1>7, <2>1, <2>3, <2>5, LineKeeps
  <2>6. CASE x.ec # ""
    <3>1. x.ec \in ReadCodes
      BY <2>4 DEF ReadCodes
    <3>2. rop.q <= Len(buf)
      BY <1>2
    <3> QED
      BY <1>1, <1>2, <1>7, <2>3, <2>6, <3>1, <3>2, FieldReturns
  <2> QED
    BY <2>5, <2>6
<1> QED
  BY <1>3, <1>4, <1>5, <1>6, <1>7

-----------------------------------------------------------------------------
(* The body *)

LEMMA FrontOf ==
  ASSUME NEW s \in Seq(Symbols), NEW l \in Int
  PROVE  LET t == SubSeq(s, 1, Least(l, Len(s))) IN Len(t) \in Nat /\ Len(t) <= Len(s)
<1> DEFINE k == Least(l, Len(s))
           t == SubSeq(s, 1, k)
<1>1. Len(s) \in Nat /\ \A i \in 1 .. Len(s) : s[i] \in Symbols
  BY LenProperties, ElementOfSeq
<1>2. k \in Int /\ k <= Len(s)
  BY <1>1 DEF Least
<1> HIDE DEF k
<1>3. \A i \in 1 .. k : s[i] \in Symbols
  BY <1>1, <1>2
<1>4. Len(t) = IF 1 <= k THEN k - 1 + 1 ELSE 0
  BY <1>2, <1>3, SubSeqProperties
<1> HIDE DEF t
<1>5. Len(t) \in Nat /\ Len(t) <= Len(s)
  BY <1>1, <1>2, <1>4
<1> QED
  BY <1>5 DEF t, k

LEMMA AcceptGives ==
  ASSUME par \in Parsers, NEW s, Len(s) \in Nat
  PROVE  LET a == Accept(s) IN
         a.n \in Nat /\ a.n <= Len(s) /\ a.ec \in {"", "need_buffer"} /\ Room(a) \in Nat
<1>0. par.room \in Nat
  BY DEF Parsers
<1> DEFINE a == Accept(s)
           k == Least(Len(s), par.room)
<1>1. CASE how.body = "string"
  <2>1. a.n = Len(s) /\ a.ec = ""
    BY <1>1 DEF Accept
  <2> HIDE DEF a
  <2>2. Room(a) = par.room
    BY <1>1 DEF Room
  <2>3. a.n \in Nat /\ a.n <= Len(s)
    <3>1. a.n = Len(s)
      BY <2>1
    <3> QED
      BY <3>1
  <2>4. a.ec \in {"", "need_buffer"} /\ Room(a) \in Nat
    BY <1>0, <2>1, <2>2
  <2> QED
    BY Zenon, <2>3, <2>4 DEF a
<1>2. CASE how.body # "string"
  <2>1. k \in Nat /\ k <= Len(s) /\ par.room - k \in Nat
    BY <1>0 DEF Least
  <2> HIDE DEF k
  <2>2. a.n = k /\ a.ec \in {"", "need_buffer"}
    BY <1>2 DEF Accept, k
  <2> HIDE DEF a
  <2>3. Room(a) = par.room - k
    BY <1>2, <2>2 DEF Room
  <2>4. a.n \in Nat /\ a.n <= Len(s)
    BY <2>1, <2>2
  <2>5. a.ec \in {"", "need_buffer"} /\ Room(a) \in Nat
    BY <2>1, <2>2, <2>3
  <2> QED
    BY Zenon, <2>4, <2>5 DEF a
<1> QED
  BY <1>1, <1>2

LEMMA StoreDoes ==
  ASSUME NEW s, NEW a, Store(s, a), par.skip = 0 \/ par.s = "chunk_body"
  PROVE  failed' = failed
  BY Zenon DEF Store, Check

LEMMA Within ==
  ASSUME NEW l \in Nat, NEW x \in Nat, NEW y \in Nat, x <= l, y <= l - x
  PROVE  x + y \in Nat /\ x + y <= l
  OBVIOUS

\* put goes on behind what the body has taken
LEMMA Takes ==
  ASSUME ReaderInv, SenderTypes, buf' = buf, UNCHANGED serVars,
         NEW a, a.n \in Nat, a.n <= Len(Rest), a.ec \in {"", "need_buffer"},
         a.ec # "" => Return(rop.p + a.n, a.ec), a.ec = "" => Break(rop.p + a.n, par'),
         Parses(par', Rest')
  PROVE  ReaderInv'
<1>1. /\ rop \in ReadOps /\ rop.p \in Nat /\ Len(buf) \in Nat /\ rop.p <= Len(buf)
  BY Buffered DEF ReaderInv, Reads, ReadOps
<1>2. rop.p + a.n \in Nat /\ rop.p + a.n <= Len(buf)
  <2>1. Len(Rest) = Len(buf) - rop.p
    BY RestIs
  <2>2. a.n \in Nat /\ a.n <= Len(buf) - rop.p
    BY Zenon, <2>1
  <2>3. rop.p \in Nat /\ Len(buf) \in Nat /\ rop.p <= Len(buf)
    BY <1>1
  <2> QED
    BY Zenon, <2>2, <2>3, Within
<1>3. CASE a.ec = ""
  BY <1>2, <1>3, BreaksOff
<1>4. CASE a.ec # ""
  <2>1. Return(rop.p + a.n, "need_buffer") /\ "need_buffer" \in ReadCodes
    BY <1>4 DEF ReadCodes
  <2>2. Reads'
    BY <1>1, <1>2, <2>1, ReturnKeeps
  <2> QED
    BY <2>2, ParserSteps
<1> QED
  BY <1>3, <1>4

LEMMA PutBodyKeeps ==
  ASSUME ReaderInv, SenderTypes, PutBody, UNCHANGED serVars
  PROVE  ReaderInv' /\ failed' = failed
<1> DEFINE s == SubSeq(Rest, 1, Least(par.len, Len(Rest)))
           a == Accept(s)
           left == par.len - a.n
           to == IF a.ec = "" /\ left = 0 THEN "complete" ELSE "body"
<1>1. /\ par.s \in {"body0", "body"} /\ buf' = buf /\ Store(s, a)
      /\ par' = [par EXCEPT !.len = left, !.room = Room(a), !.s = to]
      /\ a.ec # "" => Return(rop.p + a.n, a.ec)
      /\ a.ec = "" => Break(rop.p + a.n, par')
  BY DEF PutBody
<1>2. par \in Parsers /\ par.skip = 0 /\ par.len \in Int
  BY <1>1 DEF ReaderInv, Parses, Parsers, BodyStates
<1>3. Rest \in Seq(Symbols) /\ Len(Rest) \in Nat
  BY RestIs
<1>4. Len(s) \in Nat /\ Len(s) <= Len(Rest)
  BY <1>2, <1>3, FrontOf
<1> HIDE DEF s
<1>5. a.ec \in {"", "need_buffer"} /\ Room(a) \in Nat /\ a.n \in Nat
  BY <1>2, <1>4, AcceptGives
<1>11. a.n \in Nat /\ a.n <= Len(s)
  BY <1>2, <1>4, AcceptGives
<1> HIDE DEF a
<1>6. left \in Int /\ to \in {"complete", "body"}
  <2>1. left \in Int
    <3>1. par.len \in Int
      BY <1>2
    <3> QED
      BY <1>11, <3>1
  <2> QED
    BY <2>1
<1> HIDE DEF left, to
<1>7. par' \in Parsers /\ par'.skip = 0 /\ par'.s = to
  <2>1. to \in ParserStates
    BY <1>6 DEF ParserStates, BodyStates
  <2> QED
    BY <1>1, <1>2, <1>5, <1>6, <2>1 DEF Parsers
<1>8. Parses(par', Rest')
  BY <1>6, <1>7 DEF Parses, HeaderStates
<1>9. a.n <= Len(Rest)
  BY <1>3, <1>4, <1>11
<1>10. failed' = failed
  BY <1>1, <1>2, StoreDoes
<1> QED
  BY <1>1, <1>5, <1>8, <1>9, <1>10, Takes

LEMMA PutBodyToEofKeeps ==
  ASSUME ReaderInv, SenderTypes, PutBodyToEof, UNCHANGED serVars
  PROVE  ReaderInv' /\ failed' = failed
<1> DEFINE a == Accept(Rest)
<1>1. par.s \in {"body_to_eof0", "body_to_eof"} /\ buf' = buf
  BY DEF PutBodyToEof
<1>2. par \in Parsers /\ par.skip = 0 /\ par.limit \in Int
  BY <1>1 DEF ReaderInv, Parses, Parsers, BodyStates
<1>3. Rest \in Seq(Symbols) /\ Len(Rest) \in Nat
  BY RestIs
<1>4. a.n \in Nat /\ a.n <= Len(Rest) /\ a.ec \in {"", "need_buffer"} /\ Room(a) \in Nat
  BY <1>2, <1>3, AcceptGives
<1>5. "body_to_eof" \in ParserStates
  BY DEF ParserStates, BodyStates
<1>6. CASE Len(Rest) > par.limit
  <2>1. /\ par' = [par EXCEPT !.s = "body_to_eof"] /\ Return(rop.p, "body_limit")
        /\ failed' = failed
    BY <1>6 DEF PutBodyToEof
  <2>2. par' \in Parsers /\ par'.skip = 0 /\ par'.s = "body_to_eof"
    BY <1>2, <1>5, <2>1 DEF Parsers
  <2>3. Parses(par', Rest')
    BY <2>2 DEF Parses, HeaderStates
  <2>4. "body_limit" \in ReadCodes /\ rop \in ReadOps /\ rop.p \in Nat /\ rop.p <= Len(buf)
    BY DEF ReadCodes, ReaderInv, Reads, ReadOps
  <2>5. Reads'
    BY <1>1, <2>1, <2>4, ReturnKeeps
  <2> QED
    BY <1>1, <2>1, <2>3, <2>5, ParserSteps
<1>7. CASE ~(Len(Rest) > par.limit)
  <2> DEFINE limit == par.limit - Len(Rest)
             room == Room(a)
  <2>1. /\ Store(Rest, a)
        /\ par' = [par EXCEPT !.s = "body_to_eof", !.limit = limit, !.room = room]
        /\ a.ec # "" => Return(rop.p + a.n, a.ec)
        /\ a.ec = "" => Break(rop.p + a.n, par')
    BY <1>7 DEF PutBodyToEof
  <2> HIDE DEF a
  <2>2. limit \in Int /\ room \in Nat
    <3>1. par.limit \in Int /\ Len(Rest) \in Nat
      BY <1>2, <1>3
    <3>2. limit \in Int
      BY <3>1
    <3> HIDE DEF limit
    <3> QED
      BY <1>4, <3>2
  <2> HIDE DEF limit, room
  <2>3. par' \in Parsers /\ par'.skip = 0 /\ par'.s = "body_to_eof"
    BY <1>2, <1>5, <2>1, <2>2 DEF Parsers
  <2>4. Parses(par', Rest')
    BY <2>3 DEF Parses, HeaderStates
  <2>5. failed' = failed
    BY <1>2, <2>1, StoreDoes
  <2> QED
    BY <1>1, <1>4, <2>1, <2>4, <2>5, Takes
<1> QED
  BY <1>6, <1>7

LEMMA PutChunkBodyKeeps ==
  ASSUME ReaderInv, SenderTypes, PutChunkBody, UNCHANGED serVars
  PROVE  ReaderInv' /\ failed' = failed
<1> DEFINE s == SubSeq(Rest, 1, Least(par.len, Len(Rest)))
           a == Accept(s)
           left == par.len - a.n
           to == IF par.len = a.n THEN "chunk_header" ELSE "chunk_body"
<1>1. par.s = "chunk_body" /\ buf' = buf /\ Store(s, a)
  BY DEF PutChunkBody
<1>2. /\ par' = [par EXCEPT !.len = left, !.room = Room(a), !.s = to]
      /\ a.ec # "" => Return(rop.p + a.n, a.ec)
      /\ a.ec = "" => Break(rop.p + a.n, par')
  <2>1. par' = [par EXCEPT !.len = @ - a.n, !.room = Room(a),
                 !.s = IF par.len = a.n THEN "chunk_header" ELSE @]
    BY DEF PutChunkBody
  <2>2. /\ a.ec # "" => Return(rop.p + a.n, a.ec)
        /\ a.ec = "" => Break(rop.p + a.n, par')
    BY DEF PutChunkBody
  <2> HIDE DEF a
  <2>3. par' = [par EXCEPT !.len = left, !.room = Room(a), !.s = to]
    BY <1>1, <2>1
  <2> QED
    BY <2>2, <2>3
<1>3. /\ par \in Parsers /\ par.skip = 2 /\ par.len \in Int /\ "expect_crlf" \in par.f
      /\ "final" \notin par.f
  BY <1>1 DEF ReaderInv, Parses, Parsers
<1>4. Rest \in Seq(Symbols) /\ Len(Rest) \in Nat
  BY RestIs
<1>5. Len(s) \in Nat /\ Len(s) <= Len(Rest)
  BY <1>3, <1>4, FrontOf
<1> HIDE DEF s
<1>6. a.ec \in {"", "need_buffer"} /\ Room(a) \in Nat /\ a.n \in Nat
  BY <1>3, <1>5, AcceptGives
<1>12. a.n \in Nat /\ a.n <= Len(s)
  BY <1>3, <1>5, AcceptGives
<1> HIDE DEF a
<1>7. left \in Int /\ to \in {"chunk_header", "chunk_body"}
  <2>1. left \in Int
    <3>1. par.len \in Int
      BY <1>3
    <3> QED
      BY <1>12, <3>1
  <2> QED
    BY <2>1
<1> HIDE DEF left, to
<1>8. par' \in Parsers /\ par'.skip = 2 /\ par'.s = to /\ par'.f = par.f
  <2>1. to \in ParserStates
    BY <1>7 DEF ParserStates
  <2> QED
    BY <1>2, <1>3, <1>6, <1>7, <2>1 DEF Parsers
<1>9. Parses(par', Rest')
  <2>1. Start(par') = 2
    BY <1>3, <1>8 DEF Start
  <2>2. Searches(par', Rest')
    BY <1>3, <1>8, <2>1 DEF Searches
  <2> QED
    BY <1>3, <1>7, <1>8, <2>2 DEF Parses, HeaderStates, BodyStates
<1>10. a.n <= Len(Rest)
  BY <1>4, <1>5, <1>12
<1>11. failed' = failed
  BY <1>1, StoreDoes
<1> QED
  BY <1>1, <1>2, <1>6, <1>9, <1>10, <1>11, Takes

-----------------------------------------------------------------------------
(* The header of a chunk *)

\* What is in front of the parser is a part of the buffer
LEMMA EomInRest ==
  ASSUME ReaderInv, SenderTypes, NEW j \in Nat, j >= 4, j <= Len(Rest)
  PROVE  Eom(buf, rop.p + j) <=> Eom(Rest, j)
<1>1. rop.p \in Nat /\ Len(Rest) \in Nat
  BY RestIs DEF ReaderInv, Reads, ReadOps
<1>2. \A i \in 1 .. Len(Rest) : Rest[i] = buf[rop.p + i]
  BY RestIs
<1>3. j - 3 \in 1 .. Len(Rest) /\ j - 2 \in 1 .. Len(Rest) /\ j - 1 \in 1 .. Len(Rest)
        /\ j \in 1 .. Len(Rest)
  BY <1>1
<1>4. /\ Rest[j - 3] = buf[rop.p + j - 3] /\ Rest[j - 2] = buf[rop.p + j - 2]
      /\ Rest[j - 1] = buf[rop.p + j - 1] /\ Rest[j] = buf[rop.p + j]
  BY <1>2, <1>3
<1>5. /\ rop.p + j - 3 = (rop.p + j) - 3 /\ rop.p + j - 2 = (rop.p + j) - 2
      /\ rop.p + j - 1 = (rop.p + j) - 1
  BY <1>1
<1> QED
  BY <1>4, <1>5 DEF Eom, Cr, Lf

LEMMA LastChunkHeaderDoes ==
  ASSUME NEW rest, NEW p, NEW q, NEW eol, LastChunkHeader(rest, p, q, eol)
  PROVE  LET eom == FindEom(rest, p.skip) IN
         \/ /\ eom = 0 /\ par' = [p EXCEPT !.skip = Len(rest) - 3]
            /\ Return(rop.p, "need_more")
         \/ eom # 0 /\ par' = p /\ Return(rop.p, "bad_chunk_extension")
         \/ /\ eom # 0 /\ eol = q + 3 /\ par' = p
            /\ rop' = [rop EXCEPT !.pc = "trailer", !.q = rop.p + eol, !.last = rop.p + eom]
  BY DEF LastChunkHeader

\* Behind the size of the last chunk there is a CRLF, and from there on the first
\* CRLF CRLF ends the message
LEMMA LastChunkKeeps ==
  ASSUME ReaderInv, SenderTypes, rop.pc = "put", buf' = buf, UNCHANGED serVars,
         NEW p \in Parsers, p.s = "chunk_header", "final" \in p.f, Len(Rest) >= 3,
         \A j \in Start(p) + 5 .. p.skip + 3 : ~Eom(Rest, j),
         NEW eol, LastChunkHeader(Rest, p, Start(p), eol),
         eol = Start(p) + 3 =>
           Start(p) + 3 <= Len(Rest) /\ Cr(Rest, Start(p) + 2) /\ Lf(Rest, Start(p) + 3)
  PROVE  ReaderInv'
<1> DEFINE eom == FindEom(Rest, p.skip)
           b == Start(p)
<1>1. /\ rop \in ReadOps /\ rop.p \in Nat /\ Len(buf) \in Nat /\ rop.p <= Len(buf)
      /\ Len(Rest) \in Nat /\ Len(Rest) = Len(buf) - rop.p /\ p.skip \in Nat
  BY Buffered, RestIs DEF ReaderInv, Reads, ReadOps, Parsers
<1>2. b \in {0, 2}
  BY DEF Start
<1>3. FirstEom(Rest, p.skip, eom)
  BY <1>1, FindEomIs
<1>4. \/ /\ eom = 0 /\ par' = [p EXCEPT !.skip = Len(Rest) - 3]
         /\ Return(rop.p, "need_more")
      \/ eom # 0 /\ par' = p /\ Return(rop.p, "bad_chunk_extension")
      \/ /\ eom # 0 /\ eol = b + 3 /\ par' = p
         /\ rop' = [rop EXCEPT !.pc = "trailer", !.q = rop.p + eol, !.last = rop.p + eom]
  BY LastChunkHeaderDoes
<1>5. \A j \in b + 5 .. p.skip + 3 : ~Eom(Rest, j)
  OBVIOUS
<1>6. eol = b + 3 => b + 3 <= Len(Rest) /\ Cr(Rest, b + 2) /\ Lf(Rest, b + 3)
  OBVIOUS
<1> HIDE DEF eom, b
<1>7. CASE /\ eom = 0 /\ par' = [p EXCEPT !.skip = Len(Rest) - 3]
           /\ Return(rop.p, "need_more")
  <2> DEFINE l == Len(Rest) - 3
  <2>1. l \in Nat /\ l + 3 = Len(Rest)
    BY <1>1
  <2>2. ASSUME NEW j \in b + 5 .. l + 3 PROVE ~Eom(Rest, j)
    <3>1. CASE j <= p.skip + 3
      BY <1>1, <1>2, <1>5, <3>1
    <3>2. CASE ~(j <= p.skip + 3)
      <4>1. j \in p.skip + 4 .. Len(Rest)
        BY <1>1, <1>2, <2>1, <3>2
      <4>2. eom = 0
        BY <1>7
      <4>3. \A i \in p.skip + 4 .. Len(Rest) : ~Eom(Rest, i)
        BY <1>1, <1>3, <4>2 DEF FirstEom
      <4> QED
        BY <4>1, <4>3
    <3> QED
      BY <3>1, <3>2
  <2>3. par' = [p EXCEPT !.skip = l]
    BY <1>7
  <2> HIDE DEF l
  <2>4. par' \in Parsers /\ par'.skip = l /\ par'.f = p.f /\ par'.s = "chunk_header"
    BY <2>1, <2>3 DEF Parsers
  <2>5. Searches(par', Rest)
    <3>1. Start(par') = b
      BY <2>4 DEF Start, b
    <3>2. l + 3 <= Len(Rest)
      BY <1>1, <2>1
    <3> QED
      BY <2>2, <2>4, <3>1, <3>2 DEF Searches
  <2>6. "need_more" \in ReadCodes /\ par'.s # "complete"
    BY <2>4 DEF ReadCodes
  <2>7. Reads' /\ rop'.p = rop.p
    BY <1>1, <1>7, <2>6, ReturnKeeps
  <2>8. Rest' = Rest
    BY <2>7, RestStays
  <2>9. Parses(par', Rest')
    BY <2>4, <2>5, <2>8 DEF Parses, HeaderStates, BodyStates
  <2> QED
    BY <2>7, <2>9, ParserSteps
<1>8. CASE eom # 0 /\ par' = p
  <2>1. eom \in p.skip + 4 .. Len(Rest) /\ Eom(Rest, eom)
          /\ \A j \in p.skip + 4 .. eom - 1 : ~Eom(Rest, j)
    BY <1>3, <1>8 DEF FirstEom
  <2>2. eom \in Nat /\ p.skip + 4 <= eom /\ eom <= Len(Rest) /\ p.skip + 3 <= Len(Rest)
    BY <1>1, <2>1
  <2>3. Searches(p, Rest)
    BY <1>5, <2>2 DEF Searches, b
  <2>4. Parses(p, Rest)
    BY <2>3 DEF Parses, HeaderStates, BodyStates
  <2>5. CASE Return(rop.p, "bad_chunk_extension")
    <3>1. "bad_chunk_extension" \in ReadCodes
      BY DEF ReadCodes
    <3>2. Reads' /\ rop'.p = rop.p
      BY <1>1, <2>5, <3>1, ReturnKeeps
    <3>3. Rest' = Rest
      BY <3>2, RestStays
    <3> QED
      BY <1>8, <2>4, <3>2, <3>3, ParserSteps
  <2>6. CASE /\ eol = b + 3
             /\ rop' = [rop EXCEPT !.pc = "trailer", !.q = rop.p + eol, !.last = rop.p + eom]
    <3>1. b + 3 <= Len(Rest) /\ Cr(Rest, b + 2) /\ Lf(Rest, b + 3)
      BY <1>6, <2>6
    <3>2. eom # 4 \/ b = 0
      <4> SUFFICES ASSUME eom = 4, b = 2 PROVE FALSE
        BY <1>2
      <4>1. Lf(Rest, 4) /\ Cr(Rest, 4)
        BY <2>1, <3>1 DEF Eom
      <4> QED
        BY <4>1, CrIsNotLf
    <3>3. b + 3 <= eom
      BY <1>1, <1>2, <2>2, <3>2
    <3> DEFINE q == rop.p + (b + 3)
               last == rop.p + eom
    <3>4. /\ q \in Nat /\ last \in Nat /\ rop.p <= q /\ q <= last /\ last <= Len(buf) /\ q >= 2
      BY <1>1, <1>2, <2>2, <3>3
    <3>5. Cr(buf, q - 1) /\ Lf(buf, q)
      <4>1. b + 2 \in 1 .. Len(Rest) /\ b + 3 \in 1 .. Len(Rest)
        BY <1>1, <1>2, <3>1
      <4>2. Rest[b + 2] = buf[rop.p + (b + 2)] /\ Rest[b + 3] = buf[q]
        BY <4>1, RestIs
      <4>3. rop.p + (b + 2) = q - 1
        BY <1>1, <1>2
      <4> QED
        BY <3>1, <4>2, <4>3 DEF Cr, Lf
    <3>6. ASSUME NEW j \in q + 2 .. last - 1 PROVE ~Eom(buf, j)
      <4> DEFINE i == j - rop.p
      <4>0. rop.p \in Nat /\ b \in Nat /\ eom \in Nat /\ Len(Rest) \in Nat /\ p.skip \in Nat
        BY <1>1, <1>2, <2>2
      <4>1. i \in Nat /\ i >= b + 5 /\ i <= eom - 1 /\ j = rop.p + i
        BY <4>0 DEF q, last
      <4> HIDE DEF i
      <4>2. i >= 4 /\ i <= Len(Rest)
        BY <2>2, <4>0, <4>1
      <4>3. ~Eom(Rest, i)
        <5>1. CASE i <= p.skip + 3
          BY <1>1, <1>2, <1>5, <4>1, <5>1
        <5>2. CASE ~(i <= p.skip + 3)
          <6>1. i \in p.skip + 4 .. eom - 1
            BY <1>1, <2>2, <4>1, <5>2
          <6> QED
            BY <2>1, <6>1
        <5> QED
          BY <5>1, <5>2
      <4> QED
        BY <4>1, <4>2, <4>3, EomInRest
    <3> HIDE DEF q, last
    <3>7. InTrailer(q, last)
      BY <3>4, <3>5, <3>6 DEF InTrailer
    <3>8. /\ rop' \in ReadOps /\ rop'.pc = "trailer" /\ rop'.p = rop.p /\ rop'.q = q
          /\ rop'.last = last
      <4>1. rop' = [rop EXCEPT !.pc = "trailer", !.q = q, !.last = last]
        BY <2>6 DEF q, last
      <4> QED
        BY <1>1, <3>4, <4>1 DEF ReadOps
    <3>9. InTrailer(rop.q, rop.last)'
      BY <3>7, <3>8 DEF InTrailer, Cr, Lf, Eom
    <3>10. Reads'
      <4>1. rop'.p <= Len(buf') /\ rop'.p <= rop'.q /\ rop'.q <= rop'.last
              /\ rop'.last <= Len(buf')
        BY <1>1, <3>4, <3>8
      <4> QED
        BY <1>8, <3>8, <3>9, <4>1 DEF Reads
    <3>11. Rest' = Rest
      BY <3>8, RestStays
    <3> QED
      BY <1>8, <2>4, <3>10, <3>11, ParserSteps
  <2> QED
    BY <1>4, <1>8, <2>5, <2>6
<1> QED
  BY <1>4, <1>7, <1>8


\* Where find_eol stops: at a CR, with what is behind it
EolGives(s, p, x) ==
  /\ x.at # 0 => /\ x.r = "found" /\ x.at - 1 \in p + 1 .. Len(s) - 1
                 /\ Cr(s, x.at - 1) /\ Lf(s, x.at) /\ \A j \in p + 1 .. x.at - 2 : ~Cr(s, j)
  /\ x.r = "none" => \A j \in p + 1 .. Len(s) - 1 : ~Cr(s, j)
  /\ x.r = "found" => x.at # 0
  /\ x.r \in {"found", "none", "bad"} /\ x.at \in Int

LEMMA EolIs ==
  ASSUME NEW s, Len(s) \in Nat, NEW p \in Nat
  PROVE  EolGives(s, p, FindEol(s, p))
<1> DEFINE cr == EolFinder(s)[p]
           x == FindEol(s, p)
<1>1. FirstCr(s, p, cr)
  BY FindsCr
<1>2. x = CASE cr = 0 \/ cr = Len(s) -> [r |-> "none", at |-> 0]
            [] cr # 0 /\ cr < Len(s) /\ s[cr + 1] = Sym("lf", 0)
                 -> [r |-> "found", at |-> cr + 1]
            [] OTHER -> [r |-> "bad", at |-> 0]
  BY FindEolIs
<1> HIDE DEF cr, x
<1>3. CASE cr = 0 \/ cr = Len(s)
  <2>1. x = [r |-> "none", at |-> 0]
    BY <1>2, <1>3
  <2>2. x.r = "none" /\ x.at = 0
    BY <2>1
  <2>3. \A j \in p + 1 .. Len(s) - 1 : ~Cr(s, j)
    BY <1>1, <1>3 DEF FirstCr
  <2>4. EolGives(s, p, x)
    BY <2>2, <2>3 DEF EolGives
  <2> QED
    BY <2>4 DEF x
<1>4. CASE /\ ~(cr = 0 \/ cr = Len(s))
           /\ cr # 0 /\ cr < Len(s) /\ s[cr + 1] = Sym("lf", 0)
  <2>1. x = [r |-> "found", at |-> cr + 1]
    BY <1>2, <1>4
  <2>2. x.r = "found" /\ x.at = cr + 1
    BY <2>1
  <2>3. cr \in p + 1 .. Len(s) /\ Cr(s, cr) /\ \A j \in p + 1 .. cr - 1 : ~Cr(s, j)
    BY <1>1, <1>4 DEF FirstCr
  <2>4. Lf(s, x.at)
    BY <1>4, <2>2 DEF Lf
  <2>5. x.at # 0 /\ x.at - 1 = cr /\ x.at - 2 = cr - 1 /\ cr \in p + 1 .. Len(s) - 1
    <3>1. x.at = cr + 1
      BY <2>2
    <3>2. cr \in p + 1 .. Len(s) /\ cr < Len(s)
      BY <1>4, <2>3
    <3> QED
      BY <3>1, <3>2
  <2>6. EolGives(s, p, x)
    <3>1. x.at = cr + 1 /\ cr \in Nat
      BY <2>2, <2>3
    <3>2. x.at \in Int
      BY <3>1
    <3> QED
      BY Zenon, <2>2, <2>3, <2>4, <2>5, <3>2 DEF EolGives
  <2> QED
    BY <2>6 DEF x
<1>5. CASE /\ ~(cr = 0 \/ cr = Len(s))
           /\ ~(cr # 0 /\ cr < Len(s) /\ s[cr + 1] = Sym("lf", 0))
  <2>1. x = [r |-> "bad", at |-> 0]
    BY <1>2, <1>5
  <2>2. x.r = "bad" /\ x.at = 0
    BY <2>1
  <2>4. EolGives(s, p, x)
    BY <2>2 DEF EolGives
  <2> QED
    BY <2>4 DEF x
<1> QED
  BY <1>3, <1>4, <1>5

LEMMA PutLastChunkDoes ==
  ASSUME PutLastChunk
  PROVE  /\ rop.pc = "put" /\ par.s = "chunk_header" /\ "final" \in par.f
         /\ LastChunkHeader(Rest, par, Start(par), FindEol(Rest, Start(par) + 1).at)
         /\ failed' = failed \/ failed' = failed \cup {"n >= 5"}
         /\ buf' = buf
  BY Zenon DEF PutLastChunk, Check, Start

LEMMA PutLastChunkKeeps ==
  ASSUME ReaderInv, SenderTypes, PutLastChunk, UNCHANGED serVars
  PROVE  ReaderInv'
<1> DEFINE b == Start(par)
           x == FindEol(Rest, b + 1)
<1>1. /\ rop.pc = "put" /\ par.s = "chunk_header" /\ "final" \in par.f /\ buf' = buf
      /\ LastChunkHeader(Rest, par, b, x.at)
  BY PutLastChunkDoes
<1>2. b \in {0, 2} /\ Len(Rest) \in Nat /\ par \in Parsers /\ par.skip \in Nat
  BY RestIs DEF Start, ReaderInv, Parses, Parsers
<1>3. par.skip + 3 <= Len(Rest) /\ \A j \in b + 5 .. par.skip + 3 : ~Eom(Rest, j)
  BY <1>1 DEF ReaderInv, Parses, Searches
<1>4. EolGives(Rest, b + 1, x)
  BY <1>2, EolIs
<1> HIDE DEF x
<1>5. ASSUME x.at = b + 3
      PROVE  b + 3 <= Len(Rest) /\ Cr(Rest, b + 2) /\ Lf(Rest, b + 3)
  <2>1. x.at # 0 /\ x.at - 1 = b + 2
    BY <1>2, <1>5
  <2>2. /\ x.at - 1 \in b + 1 + 1 .. Len(Rest) - 1 /\ Cr(Rest, x.at - 1) /\ Lf(Rest, x.at)
    BY <1>4, <2>1 DEF EolGives
  <2>3. b + 3 <= Len(Rest)
    BY <1>2, <2>1, <2>2
  <2> QED
    BY <1>5, <2>1, <2>2, <2>3
<1>6. Len(Rest) >= 3
  BY <1>2, <1>3
<1> QED
  BY <1>1, <1>2, <1>3, <1>5, <1>6, LastChunkKeeps


\* The ways out of parse_chunk_header
HeaderFails(now) ==
  /\ par' = now /\ failed' = failed
  /\ \/ Return(rop.p, "need_more") \/ Return(rop.p, "bad_chunk") \/ Return(rop.p, "bad_line_ending")
     \/ Return(rop.p, "body_limit") \/ Return(rop.p, "bad_chunk_extension")
HeaderWaits(now, x) ==
  /\ ~(Len(Rest) < par.skip + 2) /\ x.r = "none" /\ failed' = failed
  /\ par' = [now EXCEPT !.skip = Len(Rest) - 1] /\ Return(rop.p, "need_more")
HeaderEnds(now, q, x) ==
  /\ ~(Len(Rest) < par.skip + 2) /\ x.r # "none" /\ x.r # "bad" /\ Rest[q + 1].k = "size"
  /\ LastChunkHeader(Rest, [now EXCEPT !.f = @ \cup {"final"}, !.skip = x.at - 2], q, x.at)
  /\ Len(Rest) >= 3 => failed' = failed
HeaderOpens(now, q, x) ==
  /\ ~(Len(Rest) < par.skip + 2) /\ x.r # "none" /\ x.r # "bad" /\ failed' = failed
  /\ par' = [now EXCEPT !.s = "chunk_body", !.len = Rest[q + 1].n, !.skip = 2,
             !.limit = @ - Rest[q + 1].n, !.f = @ \cup {"expect_crlf"}]
  /\ Break(rop.p + x.at, par')

LEMMA PutChunkHeaderDoes ==
  ASSUME PutChunkHeader
  PROVE  LET now == [par EXCEPT !.s = "chunk_header"]
             x == FindEol(Rest, par.skip)
         IN  /\ rop.pc = "put" /\ par.s \in {"chunk_header0", "chunk_header"}
             /\ "final" \notin par.f /\ buf' = buf
             /\ \/ HeaderFails(now) \/ HeaderWaits(now, x)
                \/ HeaderEnds(now, Start(par), x) \/ HeaderOpens(now, Start(par), x)
<1> DEFINE now == [par EXCEPT !.s = "chunk_header"]
           x == FindEol(Rest, par.skip)
           q == Start(par)
           r == Rest
           l == Len(r)
<1>1. /\ rop.pc = "put" /\ par.s \in {"chunk_header0", "chunk_header"}
      /\ "final" \notin par.f /\ buf' = buf
  BY DEF PutChunkHeader
<1>2. IF l < par.skip + 2 THEN par' = now /\ Return(rop.p, "need_more") /\ UNCHANGED failed
      ELSE IF q = 2 /\ SubSeq(r, 1, 2) # CRLF
        THEN par' = now /\ Return(rop.p, "bad_chunk") /\ UNCHANGED failed
      ELSE IF x.r = "bad" THEN par' = now /\ Return(rop.p, "bad_line_ending") /\ UNCHANGED failed
      ELSE IF x.r = "none" THEN
        par' = [now EXCEPT !.skip = l - 1] /\ Return(rop.p, "need_more") /\ UNCHANGED failed
      ELSE IF r[q + 1].k # "size" THEN par' = now /\ Return(rop.p, "bad_chunk") /\ UNCHANGED failed
      ELSE IF r[q + 1].n = 0 THEN
        /\ LastChunkHeader(r, [now EXCEPT !.f = @ \cup {"final"}, !.skip = x.at - 2], q, x.at)
        /\ Check("n >= 3", l >= 3)
      ELSE IF r[q + 1].n > par.limit
        THEN par' = now /\ Return(rop.p, "body_limit") /\ UNCHANGED failed
      ELSE IF x.at # q + 3
        THEN par' = now /\ Return(rop.p, "bad_chunk_extension") /\ UNCHANGED failed
      ELSE /\ par' = [now EXCEPT !.s = "chunk_body", !.len = r[q + 1].n, !.skip = 2,
                       !.limit = @ - r[q + 1].n, !.f = @ \cup {"expect_crlf"}]
           /\ Break(rop.p + x.at, par')
           /\ UNCHANGED failed
  BY Zenon DEF PutChunkHeader, Start
<1>3. Check("n >= 3", l >= 3) => (l >= 3 => failed' = failed)
  BY Zenon DEF Check
<1>4. \/ HeaderFails(now) \/ HeaderWaits(now, x)
      \/ HeaderEnds(now, q, x) \/ HeaderOpens(now, q, x)
  <2> HIDE DEF now, x, q
  <2> QED
    BY Zenon, <1>2, <1>3 DEF HeaderFails, HeaderWaits, HeaderEnds, HeaderOpens
<1> QED
  BY Zenon, <1>1, <1>4

\* In front of a size there is no CR, and the first one is the one behind it
LEMMA SizeEnds ==
  ASSUME NEW r \in Cuts, NEW b \in Nat, NEW skip \in Nat, b <= skip, skip <= b + 1,
         b + 1 <= Len(r), r[b + 1].k = "size", NEW x, EolGives(r, skip, x)
  PROVE  /\ x.r # "none" /\ x.r # "bad" => x.at = b + 3 /\ b + 3 <= Len(r) /\ Cr(r, b + 2) /\ Lf(r, b + 3)
         /\ x.r = "none" => Len(r) <= b + 2
<1>1. Len(r) \in Nat
  BY LenProperties DEF Cuts
<1>2. b + 2 <= Len(r) => Cr(r, b + 2)
  <2>1. b + 1 \in 1 .. Len(r) /\ b + 1 + 1 = b + 2
    BY <1>1
  <2>2. b + 1 + 1 <= Len(r) => Cr(r, b + 1 + 1)
    BY <2>1 DEF Cuts, Cut
  <2> QED
    BY <2>1, <2>2
<1>3. ~Cr(r, b + 1)
  <2>1. Sym("cr", 0).k = "cr"
    BY DEF Sym
  <2> QED
    BY <2>1 DEF Cr
<1>4. ASSUME x.r # "none", x.r # "bad"
      PROVE  x.at = b + 3 /\ b + 3 <= Len(r) /\ Cr(r, b + 2) /\ Lf(r, b + 3)
  <2>1. x.at # 0
    BY <1>4 DEF EolGives
  <2>2. x.at - 1 \in skip + 1 .. Len(r) - 1 /\ Cr(r, x.at - 1) /\ Lf(r, x.at)
          /\ \A j \in skip + 1 .. x.at - 2 : ~Cr(r, j)
    BY <2>1 DEF EolGives
  <2> DEFINE a == x.at - 1
  <2>3. a \in Nat /\ skip + 1 <= a /\ a <= Len(r) - 1 /\ x.at - 2 = a - 1
    <3>1. a \in skip + 1 .. Len(r) - 1
      BY <2>2
    <3>2. a \in Int /\ skip + 1 <= a /\ a <= Len(r) - 1
      <4> HIDE DEF a
      <4> QED
        BY <1>1, <3>1
    <3>3. x.at - 2 = a - 1 /\ a >= 0
      <4>1. x.at \in Int
        BY DEF EolGives
      <4>2. x.at - 2 = a - 1
        BY <4>1
      <4> HIDE DEF a
      <4> QED
        BY <3>2, <4>2
    <3> QED
      BY <3>2, <3>3
  <2>4. \A j \in skip + 1 .. a - 1 : ~Cr(r, j)
    BY Zenon, <2>2, <2>3
  <2>5. Cr(r, a)
    BY <2>2
  <2>6. Lf(r, x.at)
    BY <2>2
  <2>7. x.at = a + 1
    <3>1. x.at \in Int
      BY DEF EolGives
    <3> QED
      BY <3>1
  <2> HIDE DEF a
  <2>8. a # b + 1
    BY <1>3, <2>5
  <2>9. b + 2 <= a
    BY <1>1, <2>3, <2>8
  <2>10. ~(b + 2 < a)
    <3> SUFFICES ASSUME b + 2 < a PROVE FALSE
      OBVIOUS
    <3>1. b + 2 \in skip + 1 .. a - 1 /\ b + 2 <= Len(r)
      BY <1>1, <2>3
    <3> QED
      BY <1>2, <2>4, <3>1
  <2>11. a = b + 2 /\ x.at = b + 3
    BY <2>3, <2>7, <2>9, <2>10
  <2>12. b + 3 <= Len(r)
    BY <1>1, <2>3, <2>11
  <2> QED
    BY <2>5, <2>6, <2>11, <2>12
<1>5. ASSUME x.r = "none" PROVE Len(r) <= b + 2
  <2>1. \A j \in skip + 1 .. Len(r) - 1 : ~Cr(r, j)
    BY <1>5 DEF EolGives
  <2> SUFFICES ASSUME ~(Len(r) <= b + 2) PROVE FALSE
    OBVIOUS
  <2>2. b + 2 \in skip + 1 .. Len(r) - 1 /\ b + 2 <= Len(r)
    BY <1>1
  <2> QED
    BY <1>2, <2>1, <2>2
<1> QED
  BY <1>4, <1>5

\* A chunk header is looked at from where the search for its CRLF has stopped
LEMMA ChunkHeaderParses ==
  ASSUME ReaderInv, par.s \in {"chunk_header0", "chunk_header"}, "final" \notin par.f
  PROVE  Searches(par, Rest)
<1>1. CASE par.s = "chunk_header"
  BY <1>1 DEF ReaderInv, Parses
<1>2. CASE par.s = "chunk_header0"
  <2>1. par.skip = 0 /\ "expect_crlf" \notin par.f
    BY <1>2 DEF ReaderInv, Parses
  <2>2. Start(par) = 0
    BY <2>1 DEF Start
  <2> QED
    BY <2>1, <2>2 DEF Searches
<1> QED
  BY <1>1, <1>2

LEMMA PutChunkHeaderKeeps ==
  ASSUME ReaderInv, SenderTypes, PutChunkHeader, UNCHANGED serVars
  PROVE  ReaderInv' /\ failed' = failed
<1> DEFINE now == [par EXCEPT !.s = "chunk_header"]
           x == FindEol(Rest, par.skip)
           b == Start(par)
<1>1. /\ rop.pc = "put" /\ par.s \in {"chunk_header0", "chunk_header"}
      /\ "final" \notin par.f /\ buf' = buf
  BY PutChunkHeaderDoes
<1>2. \/ HeaderFails(now) \/ HeaderWaits(now, x)
      \/ HeaderEnds(now, b, x) \/ HeaderOpens(now, b, x)
  BY PutChunkHeaderDoes
<1>3. /\ par \in Parsers /\ par.skip \in Nat /\ rop \in ReadOps /\ rop.p \in Nat
      /\ Len(buf) \in Nat /\ rop.p <= Len(buf) /\ Len(Rest) \in Nat /\ Rest \in Cuts
      /\ Len(Rest) = Len(buf) - rop.p
  BY Buffered, RestIs DEF ReaderInv, Parses, Parsers, Reads, ReadOps
<1>4. now \in Parsers /\ now.s = "chunk_header" /\ now.skip = par.skip /\ now.f = par.f
  <2>1. "chunk_header" \in ParserStates
    BY DEF ParserStates
  <2> QED
    BY <1>3, <2>1 DEF Parsers
<1>5. b \in {0, 2} /\ Start(now) = b
  BY <1>4 DEF Start
<1>6. /\ b <= par.skip
      /\ \/ par.skip <= b
         \/ /\ b + 1 <= Len(Rest)
            /\ par.skip <= b + 1 \/ Rest[b + 1].k # "size"
  BY <1>1, ChunkHeaderParses DEF Searches
<1>7. EolGives(Rest, par.skip, x)
  BY <1>3, EolIs
<1> HIDE DEF now, x, b
<1>8. ASSUME ~(Len(Rest) < par.skip + 2), b + 1 <= Len(Rest), Rest[b + 1].k = "size"
      PROVE  par.skip <= b + 1
  BY <1>3, <1>5, <1>6, <1>8
<1>9. ~(Len(Rest) < par.skip + 2) => b + 2 <= Len(Rest) /\ b + 1 <= Len(Rest)
  <2>1. b \in Nat /\ b <= par.skip /\ par.skip \in Nat /\ Len(Rest) \in Nat
    BY <1>3, <1>5, <1>6
  <2> QED
    BY <2>1
<1>10. CASE HeaderFails(now)
  <2>1. par' = now /\ failed' = failed
    BY <1>10 DEF HeaderFails
  <2>2. Searches(now, Rest)
    BY <1>1, <1>4, <1>5, <1>6 DEF Searches
  <2>3. Parses(par', Rest)
    BY <1>1, <1>4, <2>1, <2>2 DEF Parses, HeaderStates, BodyStates
  <2>4. /\ {"need_more", "bad_chunk", "bad_line_ending"} \subseteq ReadCodes
        /\ {"body_limit", "bad_chunk_extension"} \subseteq ReadCodes
        /\ par'.s # "complete"
    BY <1>4, <2>1 DEF ReadCodes
  <2>5. Reads' /\ rop'.p = rop.p
    BY <1>1, <1>3, <1>10, <2>4, ReturnKeeps DEF HeaderFails
  <2>6. Rest' = Rest
    BY <1>1, <2>5, RestStays
  <2> QED
    BY <1>1, <2>1, <2>3, <2>5, <2>6, ParserSteps
<1>11. CASE HeaderWaits(now, x)
  <2> DEFINE l == Len(Rest) - 1
  <2>1. /\ ~(Len(Rest) < par.skip + 2) /\ x.r = "none" /\ failed' = failed
        /\ par' = [now EXCEPT !.skip = l] /\ Return(rop.p, "need_more")
    BY <1>11 DEF HeaderWaits
  <2>2. b + 2 <= Len(Rest) /\ b + 1 <= Len(Rest) /\ b \in Nat
    BY <1>5, <1>9, <2>1
  <2>3. l \in Nat /\ b <= l
    BY <1>3, <2>2
  <2>4. l <= b + 1 \/ Rest[b + 1].k # "size"
    <3> SUFFICES ASSUME Rest[b + 1].k = "size" PROVE l <= b + 1
      OBVIOUS
    <3>1. par.skip <= b + 1
      BY <1>8, <2>1, <2>2
    <3>2. Len(Rest) <= b + 2
      BY <1>3, <1>6, <1>7, <2>1, <2>2, <3>1, SizeEnds
    <3> QED
      BY <1>3, <2>2, <3>2
  <2> HIDE DEF l
  <2>5. par' \in Parsers /\ par'.skip = l /\ par'.s = "chunk_header" /\ par'.f = par.f
    BY <1>4, <2>1, <2>3 DEF Parsers
  <2>6. Searches(par', Rest)
    <3>1. Start(par') = b
      BY <2>5 DEF Start, b
    <3> QED
      BY <1>1, <2>2, <2>3, <2>4, <2>5, <3>1 DEF Searches
  <2>7. Parses(par', Rest)
    BY <1>1, <2>5, <2>6 DEF Parses, HeaderStates, BodyStates
  <2>8. "need_more" \in ReadCodes /\ par'.s # "complete"
    BY <2>5 DEF ReadCodes
  <2>9. Reads' /\ rop'.p = rop.p
    BY <1>1, <1>3, <2>1, <2>8, ReturnKeeps
  <2>10. Rest' = Rest
    BY <1>1, <2>9, RestStays
  <2> QED
    BY <1>1, <2>1, <2>7, <2>9, <2>10, ParserSteps
<1>12. CASE HeaderEnds(now, b, x)
  <2> DEFINE p == [now EXCEPT !.f = @ \cup {"final"}, !.skip = x.at - 2]
  <2>1. /\ ~(Len(Rest) < par.skip + 2) /\ x.r # "none" /\ x.r # "bad" /\ Rest[b + 1].k = "size"
        /\ LastChunkHeader(Rest, p, b, x.at)
    BY <1>12 DEF HeaderEnds
  <2>2. Len(Rest) >= 3 => failed' = failed
    BY <1>12 DEF HeaderEnds
  <2>3. b \in Nat /\ b <= par.skip /\ par.skip <= b + 1 /\ b + 1 <= Len(Rest)
    BY <1>5, <1>6, <1>8, <1>9, <2>1
  <2>4. x.at = b + 3 /\ b + 3 <= Len(Rest) /\ Cr(Rest, b + 2) /\ Lf(Rest, b + 3)
    BY <1>3, <1>7, <2>1, <2>3, SizeEnds
  <2>5. Len(Rest) >= 3
    BY <1>3, <2>3, <2>4
  <2> DEFINE g == now.f \cup {"final"}
             l == x.at - 2
  <2>6. l = b + 1 /\ l \in Nat
    BY <2>3, <2>4
  <2>7. /\ g \in SUBSET {"length", "chunked", "has_body", "need_eof", "final", "expect_crlf"}
        /\ "final" \in g /\ ("expect_crlf" \in g <=> "expect_crlf" \in par.f)
    BY <1>4 DEF Parsers
  <2>8. p = [now EXCEPT !.f = g, !.skip = l]
    BY <1>4 DEF Parsers
  <2> HIDE DEF g, l, p
  <2>9. p \in Parsers /\ p.s = "chunk_header" /\ p.f = g /\ p.skip = l
    BY <1>4, <2>6, <2>7, <2>8 DEF Parsers
  <2>10. Start(p) = b
    BY <2>7, <2>9 DEF Start, b
  <2>11. \A j \in b + 5 .. p.skip + 3 : ~Eom(Rest, j)
    <3>1. p.skip = b + 1
      BY <2>6, <2>9
    <3>2. \A j \in b + 5 .. p.skip + 3 : FALSE
      BY <2>3, <3>1
    <3> QED
      BY <3>2
  <2>12. "final" \in p.f
    BY <2>7, <2>9
  <2> HIDE DEF b
  <2>13. ReaderInv'
    BY Zenon, <1>1, <2>1, <2>4, <2>5, <2>9, <2>10, <2>11, <2>12, LastChunkKeeps
  <2> QED
    BY <2>2, <2>5, <2>13
<1>13. CASE HeaderOpens(now, b, x)
  <2>1. /\ ~(Len(Rest) < par.skip + 2) /\ x.r # "none" /\ x.r # "bad"
    BY <1>13 DEF HeaderOpens
  <2> DEFINE n == Rest[b + 1].n
             g == now.f \cup {"expect_crlf"}
             limit == now.limit - n
  <2>2. /\ failed' = failed /\ Break(rop.p + x.at, par')
        /\ par' = [now EXCEPT !.s = "chunk_body", !.len = Rest[b + 1].n, !.skip = 2,
                   !.limit = @ - Rest[b + 1].n, !.f = @ \cup {"expect_crlf"}]
    BY <1>13 DEF HeaderOpens
  <2>3. n \in Int
    <3>1. b + 1 \in 1 .. Len(Rest)
      BY <1>3, <1>5, <1>9, <2>1
    <3>2. Rest[b + 1] \in Symbols
      BY <3>1, RestIs
    <3> QED
      BY <3>2 DEF Symbols
  <2>4. /\ g \in SUBSET {"length", "chunked", "has_body", "need_eof", "final", "expect_crlf"}
        /\ "final" \notin g /\ "expect_crlf" \in g
    BY <1>1, <1>4 DEF Parsers
  <2>5. par' = [now EXCEPT !.s = "chunk_body", !.len = n, !.skip = 2, !.limit = limit, !.f = g]
    BY <1>4, <2>2 DEF Parsers
  <2> HIDE DEF n
  <2>6. limit \in Int
    <3>1. now.limit \in Int
      BY <1>4 DEF Parsers
    <3> QED
      BY <2>3, <3>1
  <2>7. "chunk_body" \in ParserStates
    BY DEF ParserStates
  <2> DEFINE two == 2
  <2>8. two \in Nat /\ par' = [now EXCEPT !.s = "chunk_body", !.len = n, !.skip = two,
                                !.limit = limit, !.f = g]
    BY <2>5
  <2> HIDE DEF g, limit, two
  <2>9. par' \in Parsers /\ par'.s = "chunk_body" /\ par'.skip = two /\ par'.f = g
    BY <1>4, <2>3, <2>4, <2>6, <2>7, <2>8 DEF Parsers
  <2>10. par'.skip = 2
    BY <2>9 DEF two
  <2>11. Parses(par', Rest')
    BY <2>4, <2>9, <2>10 DEF Parses, HeaderStates, BodyStates
  <2>12. x.at \in Nat /\ x.at <= Len(Rest)
    <3>1. x.at # 0
      BY <1>7, <2>1 DEF EolGives
    <3>2. x.at - 1 \in par.skip + 1 .. Len(Rest) - 1 /\ Lf(Rest, x.at)
      BY <1>7, <3>1 DEF EolGives
    <3>3. x.at \in Int
      BY <1>7 DEF EolGives
    <3> QED
      BY <1>3, <3>2, <3>3
  <2>13. rop.p + x.at \in Nat /\ rop.p + x.at <= Len(buf)
    BY <1>3, <2>12
  <2> QED
    BY <1>1, <2>2, <2>11, <2>13, BreaksOff
<1> QED
  BY <1>2, <1>10, <1>11, <1>12, <1>13

-----------------------------------------------------------------------------
(* The operations around put *)

LEMMA StartReadKeeps ==
  ASSUME ReaderInv, StartRead, UNCHANGED serVars
  PROVE  ReaderInv' /\ failed' = failed
<1>1. PICK until \in {"done", "header", "some"} :
        rop' = [IdleRead EXCEPT !.pc = "some", !.until = until, !.eager = until = "done"]
  BY DEF StartRead
<1>2. /\ rop.pc = "idle" /\ par.s # "complete" /\ par' = par /\ buf' = buf /\ failed' = failed
      /\ rop.p = 0
  BY DEF StartRead, Done, ReaderInv, Reads
<1> DEFINE e == until = "done"
<1>3. e \in BOOLEAN /\ rop' = [IdleRead EXCEPT !.pc = "some", !.until = until, !.eager = e]
  BY <1>1
<1> HIDE DEF e
<1>4. rop' \in ReadOps /\ rop'.p = 0 /\ rop'.pc = "some"
  BY <1>3 DEF IdleRead, ReadOps, ReadCodes
<1>5. Rest' = Rest
  BY <1>2, <1>4, RestStays
<1>6. Reads'
  <2>1. 0 <= Len(buf')
    BY <1>2 DEF ReaderInv, Reads
  <2> QED
    BY <1>2, <1>4, <2>1 DEF Reads
<1>7. Parses(par', Rest')
  BY <1>2, <1>5 DEF ReaderInv
<1> QED
  BY <1>2, <1>6, <1>7, ParserSteps

LEMMA ReadSomeDoes ==
  ASSUME ReadSome
  PROVE  /\ rop.pc = "some" /\ UNCHANGED <<buf, par>>
         /\ rop' = [rop EXCEPT !.pc = IF buf = <<>> THEN "read" ELSE "put", !.p = 0]
         /\ ~Done(par) => failed' = failed
  BY Zenon DEF ReadSome, Check

LEMMA ReadSomeKeeps ==
  ASSUME ReaderInv, ReadSome, UNCHANGED serVars
  PROVE  ReaderInv' /\ failed' = failed
<1>1. /\ rop.pc = "some" /\ par' = par /\ buf' = buf
      /\ rop' = [rop EXCEPT !.pc = IF buf = <<>> THEN "read" ELSE "put", !.p = 0]
  BY ReadSomeDoes
<1>2. par.s # "complete" /\ rop \in ReadOps /\ rop.p = 0 /\ rop.p <= Len(buf)
  BY <1>1 DEF ReaderInv, Reads
<1>3. failed' = failed
  BY <1>2, ReadSomeDoes DEF Done
<1>4. rop' \in ReadOps /\ rop'.p = 0 /\ rop'.pc \in {"read", "put"}
  BY <1>1, <1>2 DEF ReadOps
<1>5. Rest' = Rest
  BY <1>1, <1>2, <1>4, RestStays
<1>6. Reads'
  BY <1>1, <1>2, <1>4 DEF Reads
<1>7. Parses(par', Rest')
  BY <1>1, <1>5 DEF ReaderInv
<1> QED
  BY <1>1, <1>3, <1>6, <1>7, ParserSteps

\* The operation leaves its loop or the application goes on: nothing is parsed
LEMMA Rests ==
  ASSUME ReaderInv, buf' = buf, UNCHANGED serVars, rop.p = 0,
         rop' \in ReadOps, rop'.p = 0, rop'.pc \in {"idle", "told"},
         Parses(par', Rest)
  PROVE  ReaderInv'
<1>1. Rest' = Rest
  BY RestStays
<1>2. Reads'
  <2>1. 0 <= Len(buf')
    BY DEF ReaderInv, Reads
  <2> QED
    BY <2>1 DEF Reads
<1> QED
  BY <1>1, <1>2, ParserSteps

LEMMA ReadOverflowsKeeps ==
  ASSUME ReaderInv, ReadOverflows, UNCHANGED serVars
  PROVE  ReaderInv' /\ failed' = failed
<1>1. /\ rop.pc = "read" /\ par' = par /\ buf' = buf /\ failed' = failed /\ rop.p = 0
      /\ rop' = [rop EXCEPT !.pc = "told", !.ec = "buffer_overflow"] /\ rop \in ReadOps
  BY DEF ReadOverflows, ReaderInv, Reads
<1>2. rop' \in ReadOps /\ rop'.p = 0 /\ rop'.pc = "told"
  BY <1>1 DEF ReadOps, ReadCodes
<1>3. Parses(par', Rest)
  BY <1>1 DEF ReaderInv
<1> QED
  BY <1>1, <1>2, <1>3, Rests

\* The parser gets other memory for the body
LEMMA NewRoom ==
  ASSUME NEW p, NEW r, Parses(p, r), NEW room \in Nat
  PROVE  Parses([p EXCEPT !.room = room], r)
<1> DEFINE t == [p EXCEPT !.room = room]
<1>1. p \in Parsers
  BY DEF Parses
<1>2. t \in Parsers /\ t.s = p.s /\ t.f = p.f /\ t.skip = p.skip
  BY <1>1 DEF Parsers
<1> HIDE DEF t
<1>3. Start(t) = Start(p)
  BY <1>2 DEF Start
<1>4. Searches(p, r) => Searches(t, r)
  BY <1>2, <1>3 DEF Searches
<1>5. Parses(t, r)
  BY <1>2, <1>4 DEF Parses
<1> QED
  BY <1>5 DEF t

LEMMA ReadToldKeeps ==
  ASSUME ReaderInv, ReadTold, UNCHANGED serVars
  PROVE  ReaderInv' /\ failed' = failed
<1>1. /\ rop.pc = "told" /\ buf' = buf /\ failed' = failed /\ rop.p = 0 /\ rop' = IdleRead
  BY DEF ReadTold, ReaderInv, Reads
<1>2. rop' \in ReadOps /\ rop'.p = 0 /\ rop'.pc = "idle"
  BY <1>1 DEF ReadOps, ReadCodes, IdleRead
<1>3. par' = par \/ par' = [par EXCEPT !.room = Window]
  BY DEF ReadTold
<1>4. Window \in Nat
  BY ConstantsAssumption DEF ConstantsAssumption
<1>5. Parses(par', Rest)
  BY <1>3, <1>4, NewRoom DEF ReaderInv
<1> QED
  BY <1>1, <1>2, <1>5, Rests

LEMMA NewParses ==
  ASSUME NEW r
  PROVE  NewParser \in Parsers /\ NewParser.s = "nothing_yet" /\ Parses(NewParser, r)
<1>1. Window \in Nat /\ BodyLimit \in Int
  BY ConstantsAssumption DEF ConstantsAssumption
<1>2. "nothing_yet" \in ParserStates /\ "nothing_yet" \in HeaderStates
  BY DEF ParserStates, HeaderStates
<1>3. /\ NewParser \in Parsers /\ NewParser.s = "nothing_yet" /\ NewParser.f = {}
  BY <1>1, <1>2 DEF NewParser, Parsers
<1> QED
  BY <1>2, <1>3, EarlyParses

LEMMA NextReadKeeps ==
  ASSUME ReaderInv, NextRead, UNCHANGED serVars
  PROVE  ReaderInv' /\ failed' = failed
<1>1. /\ rop.pc = "idle" /\ buf' = buf /\ failed' = failed /\ rop.p = 0 /\ rop' = rop
      /\ rop \in ReadOps /\ par' = NewParser
  BY DEF NextRead, ReaderInv, Reads
<1> QED
  BY <1>1, NewParses, Rests

\* What put has parsed is dropped from the buffer
LEMMA PutReturnedKeeps ==
  ASSUME ReaderInv, SenderTypes, PutReturned, UNCHANGED serVars
  PROVE  ReaderInv' /\ failed' = failed
<1>1. rop.pc = "ret" /\ buf' = Rest /\ par' = par /\ failed' = failed
  BY DEF PutReturned, Rest
<1>2. PICK pc \in {"read", "told", "some"} :
        /\ rop' = [rop EXCEPT !.p = 0, !.pc = pc]
        /\ pc = "read" => rop.ec = "need_more"
        /\ pc = "some" => rop.ec # "need_more" /\ ~Complete(par, rop.ec, rop.until)
  BY DEF PutReturned
<1>3. rop \in ReadOps /\ rop.p \in Nat /\ rop.p <= Len(buf)
  BY DEF ReaderInv, Reads, ReadOps
<1>4. rop' \in ReadOps /\ rop'.p = 0 /\ rop'.pc = pc
  BY <1>2, <1>3 DEF ReadOps
<1>5. par.s # "complete" \/ pc = "told"
  <2>1. CASE pc = "read"
    BY <1>1, <1>2, <2>1 DEF ReaderInv, Reads
  <2>2. CASE pc = "some"
    BY <1>2, <2>2 DEF Complete, HeaderDone, Done
  <2> QED
    BY <2>1, <2>2
<1>6. /\ buf \in Seq(Symbols) /\ Len(buf) \in Nat /\ Rest \in Seq(Symbols) /\ Len(Rest) \in Nat
      /\ wire \in Seq(Symbols) /\ wire \o ser.view \in Seq(Symbols) /\ ser.view \in Seq(Symbols)
      /\ Len(Rest) = Len(buf) - rop.p
  BY Buffered, RestIs DEF ReaderInv
<1>7. Rest' = Rest
  <2>1. Rest' = SubSeq(Rest, 1, Len(Rest))
    <3>1. Rest' = SubSeq(buf', rop'.p + 1, Len(buf'))
      BY DEF Rest
    <3>2. rop'.p + 1 = 1
      BY <1>4
    <3> QED
      BY Zenon, <1>1, <3>1, <3>2
  <2>2. SubSeq(Rest, 1, Len(Rest)) = Rest
    BY <1>6, SubSeqFull
  <2> QED
    BY <2>1, <2>2
<1>8. Reads'
  <2>1. 0 <= Len(buf')
    BY <1>1, <1>6
  <2> QED
    BY <1>1, <1>4, <1>5, <2>1 DEF Reads
<1>9. Parses(par', Rest')
  BY <1>1, <1>7 DEF ReaderInv
<1>10. StreamInv'
  <2> DEFINE t == wire \o ser.view
             u == buf \o t
  <2>1. t \in Seq(Symbols) /\ u \in Blocks
    BY <1>6 DEF ReaderInv, StreamInv
  <2> HIDE DEF t
  <2>2. Len(u) = Len(buf) + Len(t) /\ Len(t) \in Nat
    BY <1>6, <2>1, ConcatProperties, LenProperties
  <2>3. rop.p \in 0 .. Len(u)
    BY <1>3, <1>6, <2>2
  <2>4. SubSeq(u, rop.p + 1, Len(u)) \in Blocks
    <3> HIDE DEF u
    <3> QED
      BY <2>1, <2>3, RestOfBlock
  <2>5. SubSeq(u, rop.p + 1, Len(u)) = Rest \o t
    <3> DEFINE a == SubSeq(u, rop.p + 1, Len(u))
               b == Rest \o t
    <3>1. /\ Len(a) = Len(u) - rop.p
          /\ \A i \in 1 .. Len(u) - rop.p : a[i] = u[rop.p + i]
      <4> HIDE DEF u
      <4> QED
        BY <2>1, <2>3, RestOfBlock
    <3>2. /\ b \in Seq(Symbols) /\ Len(b) = Len(Rest) + Len(t)
          /\ \A i \in 1 .. Len(Rest) + Len(t) :
               b[i] = IF i <= Len(Rest) THEN Rest[i] ELSE t[i - Len(Rest)]
      BY <1>6, <2>1, ConcatProperties
    <3>3. \A i \in 1 .. Len(buf) + Len(t) :
            u[i] = IF i <= Len(buf) THEN buf[i] ELSE t[i - Len(buf)]
      BY <1>6, <2>1, ConcatProperties
    <3>4. a \in Seq(Symbols)
      BY <2>4 DEF Blocks
    <3> HIDE DEF a, b, u
    <3>5. Len(a) = Len(b)
      BY <1>3, <1>6, <2>2, <3>1, <3>2
    <3>6. ASSUME NEW i \in 1 .. Len(a) PROVE a[i] = b[i]
      <4>1. i \in Nat /\ i >= 1 /\ i <= Len(Rest) + Len(t)
        BY <1>6, <2>2, <3>2, <3>5
      <4>2. i \in 1 .. Len(Rest) + Len(t) /\ i \in 1 .. Len(u) - rop.p
        BY <1>3, <1>6, <2>2, <4>1
      <4>3. a[i] = u[rop.p + i]
        BY <3>1, <4>2
      <4>4. rop.p + i \in 1 .. Len(buf) + Len(t)
        BY <1>3, <1>6, <2>2, <4>1
      <4>5. CASE i <= Len(Rest)
        <5>1. rop.p + i <= Len(buf)
          BY <1>3, <1>6, <4>1, <4>5
        <5>2. u[rop.p + i] = buf[rop.p + i]
          BY <3>3, <4>4, <5>1
        <5>3. i \in 1 .. Len(Rest)
          BY <1>6, <4>1, <4>5
        <5>4. Rest[i] = buf[rop.p + i]
          BY <5>3, RestIs
        <5>5. b[i] = Rest[i]
          BY <3>2, <4>2, <4>5
        <5> QED
          BY <4>3, <5>2, <5>4, <5>5
      <4>6. CASE ~(i <= Len(Rest))
        <5>1. ~(rop.p + i <= Len(buf)) /\ (rop.p + i) - Len(buf) = i - Len(Rest)
          BY <1>3, <1>6, <4>1, <4>6
        <5>2. u[rop.p + i] = t[(rop.p + i) - Len(buf)]
          BY <3>3, <4>4, <5>1
        <5>3. b[i] = t[i - Len(Rest)]
          BY <3>2, <4>2, <4>6
        <5> QED
          BY <4>3, <5>1, <5>2, <5>3
      <4> QED
        BY <4>5, <4>6
    <3>7. a = b
      BY <3>2, <3>4, <3>5, <3>6, SeqEqual
    <3> QED
      BY <3>7 DEF a, b
  <2>6. Rest \o t \in Blocks
    BY Zenon, <2>4, <2>5
  <2> QED
    BY <1>1, <1>6, <2>6 DEF StreamInv, serVars, t
<1> QED
  BY <1>1, <1>8, <1>9, <1>10 DEF ReaderInv

-----------------------------------------------------------------------------
(* The stream *)

\* More symbols behind r change nothing of what is known of it
LEMMA MoreSymbols ==
  ASSUME NEW p, NEW r \in Seq(Symbols), NEW s \in Seq(Symbols), Parses(p, r)
  PROVE  Parses(p, r \o s)
<1> DEFINE u == r \o s
           b == Start(p)
<1>1. /\ Len(r) \in Nat /\ Len(s) \in Nat /\ Len(u) = Len(r) + Len(s)
      /\ \A i \in 1 .. Len(r) + Len(s) : u[i] = IF i <= Len(r) THEN r[i] ELSE s[i - Len(r)]
  BY LenProperties, ConcatProperties
<1>2. \A i \in 1 .. Len(r) : u[i] = r[i]
  BY <1>1
<1>3. b \in {0, 2}
  BY DEF Start
<1>4. p \in Parsers /\ p.skip \in Nat
  BY DEF Parses, Parsers
<1> HIDE DEF u, b
<1>5. ASSUME Searches(p, r) PROVE Searches(p, u)
  <2>1. CASE "final" \in p.f
    <3>1. p.skip + 3 <= Len(r) /\ \A j \in b + 5 .. p.skip + 3 : ~Eom(r, j)
      BY <1>5, <2>1 DEF Searches, b
    <3>2. ASSUME NEW j \in b + 5 .. p.skip + 3 PROVE ~Eom(u, j)
      <4>1. j \in 1 .. Len(r) /\ j - 1 \in 1 .. Len(r) /\ j - 2 \in 1 .. Len(r) /\ j - 3 \in 1 .. Len(r)
        BY <1>1, <1>3, <1>4, <3>1
      <4>2. u[j] = r[j] /\ u[j - 1] = r[j - 1] /\ u[j - 2] = r[j - 2] /\ u[j - 3] = r[j - 3]
        BY <1>2, <4>1
      <4>3. ~Eom(r, j)
        BY <3>1
      <4> QED
        BY <4>2, <4>3 DEF Eom, Cr, Lf
    <3>3. p.skip + 3 <= Len(u)
      BY <1>1, <1>4, <3>1
    <3> QED
      BY <2>1, <3>2, <3>3 DEF Searches, b
  <2>2. CASE "final" \notin p.f
    <3>1. /\ b <= p.skip
          /\ \/ p.skip <= b
             \/ b + 1 <= Len(r) /\ (p.skip <= b + 1 \/ r[b + 1].k # "size")
      BY <1>5, <2>2 DEF Searches, b
    <3>2. b + 1 <= Len(r) => b + 1 <= Len(u) /\ u[b + 1] = r[b + 1]
      BY <1>1, <1>2, <1>3
    <3> QED
      BY <2>2, <3>1, <3>2 DEF Searches, b
  <2> QED
    BY <2>1, <2>2
<1>6. Parses(p, u)
  BY <1>5 DEF Parses
<1> QED
  BY <1>6 DEF u

\* The middle of what is joined may be taken with either side
Joined(a, b) == a \o b

LEMMA JoinedInTurn ==
  ASSUME NEW a \in Seq(Symbols), NEW b \in Seq(Symbols), NEW c \in Seq(Symbols)
  PROVE  Joined(Joined(a, b), c) = Joined(a, Joined(b, c)) /\ Joined(a, b) \in Seq(Symbols)
<1>1. Joined(Joined(a, b), c) = Joined(a, Joined(b, c))
  BY ConcatAssociative DEF Joined
<1>2. Joined(a, b) \in Seq(Symbols)
  BY ConcatProperties DEF Joined
<1> QED
  BY <1>1, <1>2

LEMMA Regrouped ==
  ASSUME NEW a \in Seq(Symbols), NEW b \in Seq(Symbols), NEW c \in Seq(Symbols),
         NEW d \in Seq(Symbols)
  PROVE  Joined(Joined(a, b), Joined(c, d)) = Joined(a, Joined(Joined(b, c), d))
<1>1. Joined(c, d) \in Seq(Symbols)
  BY JoinedInTurn
<1>2. Joined(Joined(a, b), Joined(c, d)) = Joined(a, Joined(b, Joined(c, d)))
  BY <1>1, JoinedInTurn
<1>3. Joined(b, Joined(c, d)) = Joined(Joined(b, c), d)
  BY JoinedInTurn
<1> QED
  BY <1>2, <1>3

LEMMA ReadArrivesDoes ==
  ASSUME NEW s, ReadArrives(s)
  PROVE  /\ rop.pc = "read" /\ buf' = buf \o s /\ rop' = [rop EXCEPT !.pc = "put", !.ec = ""]
         /\ par' = par /\ (~Done(par) => failed' = failed)
  BY Zenon DEF ReadArrives, Check

\* What is taken from the front, and what is left
LEMMA CutInTwo ==
  ASSUME NEW s \in Seq(Symbols), NEW n \in Nat, n <= Len(s)
  PROVE  /\ SubSeq(s, 1, n) \in Seq(Symbols) /\ SubSeq(s, n + 1, Len(s)) \in Seq(Symbols)
         /\ SubSeq(s, 1, n) \o SubSeq(s, n + 1, Len(s)) = s
<1>1. Len(s) \in Nat /\ \A i \in 1 .. Len(s) : s[i] \in Symbols
  BY LenProperties, ElementOfSeq
<1>2. SubSeq(s, 1, n) \in Seq(Symbols)
  <2>1. \A i \in 1 .. n : s[i] \in Symbols
    BY <1>1
  <2> QED
    BY <2>1, SubSeqProperties
<1>3. SubSeq(s, n + 1, Len(s)) \in Seq(Symbols)
  <2>1. \A i \in n + 1 .. Len(s) : s[i] \in Symbols
    BY <1>1
  <2>2. n + 1 \in Int /\ Len(s) \in Int
    BY <1>1
  <2> QED
    BY <2>1, <2>2, SubSeqProperties
<1>4. SubSeq(s, 1, n) \o SubSeq(s, n + 1, Len(s)) = SubSeq(s, 1, Len(s))
  <2>1. Len(s) \in Nat
    BY <1>1
  <2>2. 1 \in 1 .. Len(s) + 1 /\ n \in 1 - 1 .. Len(s) /\ Len(s) \in n .. Len(s)
    BY <2>1
  <2> QED
    BY <2>2, ConcatAdjacentSubSeq
<1>5. SubSeq(s, 1, Len(s)) = s
  BY SubSeqFull
<1> QED
  BY <1>2, <1>3, <1>4, <1>5

LEMMA WireDeliversKeeps ==
  ASSUME ReaderInv, SenderTypes, WireDelivers
  PROVE  ReaderInv' /\ failed' = failed
<1> DEFINE k == Least(MaxBuffer - Len(buf), Len(wire))
<1>1. PICK n \in 1 .. k : /\ ReadArrives(SubSeq(wire, 1, n))
                          /\ wire' = SubSeq(wire, n + 1, Len(wire))
                          /\ ser' = ser
  BY DEF WireDelivers
<1>2. /\ buf \in Seq(Symbols) /\ Len(buf) \in Nat /\ wire \in Seq(Symbols) /\ Len(wire) \in Nat
      /\ ser.view \in Seq(Symbols)
  BY Buffered DEF ReaderInv
<1>3. n \in Nat /\ 1 <= n /\ n <= Len(wire)
  <2>1. MaxBuffer - Len(buf) \in Int
    BY <1>2, ConstantsAssumption DEF ConstantsAssumption
  <2>2. k \in Int /\ k <= Len(wire)
    BY <1>2, <2>1 DEF Least
  <2> HIDE DEF k
  <2> QED
    BY <1>2, <2>2
<1> DEFINE s == SubSeq(wire, 1, n)
           t == SubSeq(wire, n + 1, Len(wire))
<1>4. s \in Seq(Symbols) /\ t \in Seq(Symbols) /\ s \o t = wire
  BY <1>2, <1>3, CutInTwo
<1>5. /\ rop.pc = "read" /\ buf' = buf \o s /\ rop' = [rop EXCEPT !.pc = "put", !.ec = ""]
      /\ par' = par /\ (~Done(par) => failed' = failed)
  BY <1>1, ReadArrivesDoes
<1>6. par.s # "complete" /\ rop \in ReadOps /\ rop.p = 0
  BY <1>5 DEF ReaderInv, Reads
<1>7. failed' = failed
  BY <1>5, <1>6 DEF Done
<1> HIDE DEF s, t
<1>8. buf' \in Seq(Symbols) /\ Len(buf') \in Nat
  BY <1>2, <1>4, <1>5, ConcatProperties, LenProperties
<1>9. rop' \in ReadOps /\ rop'.p = 0 /\ rop'.pc = "put"
  BY <1>5, <1>6 DEF ReadOps, ReadCodes
<1>10. Reads'
  <2>1. 0 <= Len(buf')
    BY <1>8
  <2> QED
    BY <1>5, <1>6, <1>9, <2>1 DEF Reads
<1>11. Parses(par', Rest')
  <2>1. Rest = buf
    <3>1. Rest = SubSeq(buf, 1, Len(buf))
      BY <1>6 DEF Rest
    <3> QED
      BY <1>2, <3>1, SubSeqFull
  <2>2. Rest' = buf'
    <3>1. Rest' = SubSeq(buf', rop'.p + 1, Len(buf'))
      BY DEF Rest
    <3>2. rop'.p + 1 = 1
      BY <1>9
    <3>3. SubSeq(buf', 1, Len(buf')) = buf'
      BY <1>8, SubSeqFull
    <3> QED
      BY Zenon, <3>1, <3>2, <3>3
  <2>3. Parses(par, buf \o s)
    BY <1>2, <1>4, <2>1, MoreSymbols DEF ReaderInv
  <2> QED
    BY Zenon, <1>5, <2>2, <2>3
<1>12. StreamInv'
  <2>1. wire' = t /\ ser'.view = ser.view
    BY <1>1 DEF t
  <2>2. (buf \o s) \o (t \o ser.view) = buf \o (wire \o ser.view)
    <3>1. Joined(Joined(buf, s), Joined(t, ser.view)) = Joined(buf, Joined(Joined(s, t), ser.view))
      BY <1>2, <1>4, Regrouped
    <3>2. Joined(s, t) = wire
      BY Zenon, <1>4 DEF Joined
    <3>3. Joined(Joined(buf, s), Joined(t, ser.view)) = Joined(buf, Joined(wire, ser.view))
      BY Zenon, <3>1, <3>2
    <3> QED
      BY Zenon, <3>3 DEF Joined
  <2>3. buf' \o (wire' \o ser'.view) \in Blocks
    BY Zenon, <1>5, <2>1, <2>2 DEF ReaderInv, StreamInv
  <2> QED
    BY Zenon, <1>4, <1>8, <2>1, <2>3 DEF StreamInv
<1> QED
  BY <1>7, <1>10, <1>11, <1>12 DEF ReaderInv

LEMMA ReadEofDoes ==
  ASSUME ReadEof
  PROVE  LET x == IF par.s = "nothing_yet" THEN [p |-> par, ec |-> "end_of_stream"]
                  ELSE PutEof(par)
         IN  /\ rop.pc = "read" /\ buf' = buf /\ par' = x.p
             /\ rop' = [rop EXCEPT !.pc = "told", !.ec = x.ec]
             /\ x.ec # "" \/ Done(x.p) => failed' = failed
  BY Zenon DEF ReadEof, Check

LEMMA WireEndsKeeps ==
  ASSUME ReaderInv, WireEnds
  PROVE  ReaderInv' /\ failed' = failed
<1> DEFINE x == IF par.s = "nothing_yet" THEN [p |-> par, ec |-> "end_of_stream"]
                ELSE PutEof(par)
           c == [par EXCEPT !.s = "complete"]
<1>1. /\ rop.pc = "read" /\ buf' = buf /\ par' = x.p
      /\ rop' = [rop EXCEPT !.pc = "told", !.ec = x.ec] /\ UNCHANGED serVars
      /\ x.ec # "" \/ Done(x.p) => failed' = failed
  BY ReadEofDoes DEF WireEnds
<1>2. \/ x = [p |-> par, ec |-> "end_of_stream"]
      \/ x = [p |-> par, ec |-> "partial_message"]
      \/ x = [p |-> c, ec |-> ""]
  BY DEF PutEof
<1> HIDE DEF x
<1>3. \/ x.p = par /\ x.ec \in {"end_of_stream", "partial_message"}
      \/ x.p = c /\ x.ec = ""
  <2> HIDE DEF c
  <2>1. CASE x = [p |-> par, ec |-> "end_of_stream"]
    BY <2>1
  <2>2. CASE x = [p |-> par, ec |-> "partial_message"]
    BY <2>2
  <2>3. CASE x = [p |-> c, ec |-> ""]
    BY <2>3
  <2> QED
    BY Zenon, <1>2, <2>1, <2>2, <2>3
<1>4. rop \in ReadOps /\ rop.p = 0 /\ par \in Parsers
  BY <1>1 DEF ReaderInv, Reads, Parses
<1>5. x.ec \in ReadCodes
  BY <1>3 DEF ReadCodes
<1>6. rop' \in ReadOps /\ rop'.p = 0 /\ rop'.pc = "told"
  BY <1>1, <1>4, <1>5 DEF ReadOps
<1>7. c \in Parsers /\ c.s = "complete"
  BY <1>4 DEF Parsers, ParserStates
<1>8. failed' = failed
  BY <1>1, <1>3, <1>7 DEF Done
<1> HIDE DEF c
<1>9. Parses(c, Rest)
  BY <1>7 DEF Parses, HeaderStates, BodyStates
<1>10. Parses(par', Rest)
  BY <1>1, <1>3, <1>9 DEF ReaderInv
<1> QED
  BY <1>1, <1>4, <1>6, <1>8, <1>10, Rests

-----------------------------------------------------------------------------
(* The steps of the sender, seen from the reader: what is in the buffer, on  *)
(* the wire and in the view of the serializer is still a row of blocks.      *)

LEMMA ParserStays ==
  ASSUME ReaderInv, UNCHANGED parVars, StreamInv'
  PROVE  ReaderInv' /\ failed' = failed
<1>1. par' = par /\ rop' = rop /\ buf' = buf /\ failed' = failed
  BY DEF parVars
<1>2. Rest' = Rest
  BY <1>1, RestStays
<1>3. Parses(par', Rest')
  BY <1>1, <1>2 DEF ReaderInv
<1>4. Reads'
  BY <1>1 DEF ReaderInv, Reads, InTrailer
<1> QED
  BY <1>1, <1>3, <1>4 DEF ReaderInv

LEMMA StreamIs ==
  ASSUME StreamInv, SenderTypes
  PROVE  /\ buf \in Seq(Symbols) /\ wire \in Seq(Symbols) /\ ser.view \in Seq(Symbols)
         /\ Joined(buf, Joined(wire, ser.view)) \in Blocks
  BY Buffered DEF StreamInv, Joined

\* The view is the one it was
LEMMA ViewStays ==
  ASSUME ReaderInv, UNCHANGED parVars, wire' = wire, ser'.view = ser.view
  PROVE  ReaderInv' /\ failed' = failed
<1>1. buf' = buf
  BY DEF parVars
<1>2. StreamInv'
  BY <1>1 DEF ReaderInv, StreamInv
<1> QED
  BY <1>2, ParserStays

\* The front d of the view goes to the wire
LEMMA ViewMoves ==
  ASSUME ReaderInv, SenderTypes, UNCHANGED parVars,
         NEW d \in Seq(Symbols), NEW v \in Seq(Symbols),
         Joined(d, v) = ser.view, wire' = wire \o d, ser'.view = v
  PROVE  ReaderInv' /\ failed' = failed
<1>1. buf' = buf
  BY DEF parVars
<1>2. /\ buf \in Seq(Symbols) /\ wire \in Seq(Symbols)
      /\ Joined(buf, Joined(wire, ser.view)) \in Blocks
  BY StreamIs DEF ReaderInv
<1>3. Joined(wire, d) \in Seq(Symbols) /\ Joined(Joined(wire, d), v) = Joined(wire, Joined(d, v))
  BY <1>2, JoinedInTurn
<1>4. wire' = Joined(wire, d)
  BY DEF Joined
<1>5. Joined(buf', Joined(wire', ser'.view)) = Joined(buf, Joined(wire, ser.view))
  BY <1>1, <1>3, <1>4
<1>6. StreamInv'
  BY <1>1, <1>2, <1>3, <1>4, <1>5 DEF StreamInv, Joined
<1> QED
  BY <1>6, ParserStays

\* Nothing was in the view: blocks d go to the wire, and blocks v are in the view now
LEMMA BlocksFollow ==
  ASSUME ReaderInv, SenderTypes, UNCHANGED parVars, ser.view = <<>>,
         NEW d \in Blocks, NEW v \in Blocks, wire' = wire \o d, ser'.view = v
  PROVE  ReaderInv' /\ failed' = failed
<1>1. buf' = buf
  BY DEF parVars
<1>2. /\ buf \in Seq(Symbols) /\ wire \in Seq(Symbols)
      /\ Joined(buf, Joined(wire, <<>>)) \in Blocks
  BY StreamIs DEF ReaderInv
<1>3. d \in Seq(Symbols) /\ v \in Seq(Symbols)
  BY DEF Blocks
<1>4. Joined(wire, <<>>) = wire
  BY <1>2, ConcatEmptySeq DEF Joined
<1>5. Joined(buf, wire) \in Blocks
  BY <1>2, <1>4
<1>6. Joined(d, v) \in Blocks
  BY JoinedBlocks DEF Joined
<1>7. Joined(Joined(buf, wire), Joined(d, v)) \in Blocks
  BY <1>5, <1>6, JoinedBlocks DEF Joined
<1>8. Joined(buf, Joined(Joined(wire, d), v)) \in Blocks
  BY <1>2, <1>3, <1>7, Regrouped
<1>9. Joined(wire, d) \in Seq(Symbols)
  BY <1>2, <1>3, JoinedInTurn
<1>10. StreamInv'
  BY <1>1, <1>2, <1>8, <1>9 DEF StreamInv, Joined
<1> QED
  BY <1>10, ParserStays

LEMMA SenderQuiet ==
  ASSUME SenderTypes
  PROVE  /\ ser \in Sers /\ Serializes(ser)
         /\ ser.s \in Quiet => ser.view = <<>>
         /\ wire \in Seq(Symbols) => wire \o <<>> = wire
  BY ConcatEmptySeq DEF SenderTypes, Serializes

LEMMA StartWriteShows ==
  ASSUME ReaderInv, SenderTypes, StartWrite, UNCHANGED parVars
  PROVE  ReaderInv' /\ failed' = failed
<1>1. PICK split \in BOOLEAN : ser' = [ser EXCEPT !.split = split] /\ wire' = wire
  BY DEF StartWrite
<1>2. ser'.view = ser.view
  BY <1>1, SenderQuiet DEF Sers
<1> QED
  BY <1>1, <1>2, ViewStays

LEMMA WriteNextShows ==
  ASSUME ReaderInv, SenderTypes, WriteNext, UNCHANGED parVars
  PROVE  ReaderInv' /\ failed' = failed
<1>1. wire' = wire /\ wire \o <<>> = wire /\ ser \in Sers /\ Serializes(ser)
  BY SenderQuiet DEF WriteNext, ReaderInv, StreamInv
<1>2. CASE ser.s = "complete"
  BY <1>1, <1>2, ViewStays DEF WriteNext
<1>3. CASE ser.s # "complete"
  <2> DEFINE x == SerNext(ser)
  <2>1. ser' = x.w
    BY <1>3 DEF WriteNext
  <2>2. Advanced(ser, x)
    BY <1>1, <1>3, NextGives
  <2> HIDE DEF x
  <2>3. CASE ser.s \in Visiting
    <3>1. ser' = ser
      BY <2>1, <2>2, <2>3 DEF Advanced
    <3> QED
      BY <1>1, <3>1, ViewStays
  <2>4. CASE ser.s \in Quiet
    <3>1. ser'.view \in Blocks
      BY <2>1, <2>2 DEF Advanced, Serializes, Sers
    <3>2. ser.view = <<>>
      BY <2>4, SenderQuiet
    <3> QED
      BY <1>1, <3>1, <3>2, EmptyBlock, BlocksFollow
  <2> QED
    BY <1>1, <2>3, <2>4 DEF Sers
<1> QED
  BY <1>2, <1>3

LEMMA WriteIoShows ==
  ASSUME ReaderInv, SenderTypes, WriteIo, UNCHANGED parVars
  PROVE  ReaderInv' /\ failed' = failed
<1> DEFINE view == ser.view
           most == IF Len(view) < Limit THEN Len(view) ELSE Limit
<1>1. view \in Seq(Symbols) /\ Len(view) \in Nat /\ ser \in Sers /\ Serializes(ser)
  BY SenderQuiet, LenProperties DEF Sers, Blocks
<1>2. ser.s \in Visiting
  BY DEF SenderTypes, WriteIo
<1>3. PICK n \in (IF most = 0 THEN {0} ELSE 1 .. most) :
        wire' = wire \o SubSeq(view, 1, n) /\ WriteResumes(n, "")
  BY DEF WriteIo
<1>4. n \in Nat /\ n <= Len(view)
  <2>1. Limit \in Nat
    BY ConstantsAssumption DEF ConstantsAssumption
  <2>2. most \in Nat /\ most <= Len(view)
    BY <1>1, <2>1
  <2>3. n \in IF most = 0 THEN {0} ELSE 1 .. most
    BY <1>3
  <2> HIDE DEF most
  <2>4. CASE most = 0
    BY <2>2, <2>3, <2>4
  <2>5. CASE most # 0
    BY <1>1, <2>2, <2>3, <2>5
  <2> QED
    BY <2>4, <2>5
<1>5. n \in 0 .. Len(view)
  BY <1>1, <1>4
<1> DEFINE d == SubSeq(view, 1, n)
           v == SubSeq(view, n + 1, Len(view))
<1>6. ser' = SerConsume(ser, n)
  BY <1>3 DEF WriteResumes
<1>7. ser'.view = v
  BY <1>1, <1>2, <1>5, <1>6, ConsumeGives DEF Consumed
<1>8. d \in Seq(Symbols) /\ v \in Seq(Symbols) /\ Joined(d, v) = view
  <2>1. d \in Seq(Symbols) /\ v \in Seq(Symbols) /\ d \o v = view
    <3> HIDE DEF view, most
    <3> QED
      BY <1>1, <1>4, CutInTwo
  <2> QED
    BY Zenon, <2>1 DEF Joined
<1> HIDE DEF d, v
<1>9. wire' = wire \o d
  BY <1>3 DEF d
<1> QED
  BY <1>7, <1>8, <1>9, ViewMoves

LEMMA WriteEndsShows ==
  ASSUME ReaderInv, SenderTypes, WriteFails \/ WritePosted, UNCHANGED parVars
  PROVE  ReaderInv' /\ failed' = failed
<1>1. ser' = ser /\ wire' = wire
  <2>1. CASE WriteFails
    BY <2>1 DEF WriteFails, WriteResumes
  <2>2. CASE WritePosted
    <3>1. wop.pc = "post" /\ wire' = wire
          /\ ser' = IF wop.ec = "" THEN SerConsume(ser, 0) ELSE ser
      BY <2>2 DEF WritePosted, WriteResumes
    <3>2. wop.ec = "" => ser.s = "complete"
      BY <3>1 DEF SenderTypes
    <3>3. ser.s = "complete" => SerConsume(ser, 0) = ser
      BY DEF SerConsume
    <3> QED
      BY <3>1, <3>2, <3>3
  <2> QED
    BY <2>1, <2>2
<1> QED
  BY <1>1, ViewStays

LEMMA WriteToldShows ==
  ASSUME ReaderInv, SenderTypes, WriteTold, UNCHANGED parVars
  PROVE  ReaderInv' /\ failed' = failed
<1>1. wire' = wire /\ (ser' = ser \/ ser' \in Refill(ser)) /\ ser \in Sers
  BY SenderQuiet DEF WriteTold
<1>2. ser'.view = ser.view
  BY <1>1 DEF Refill, Sers
<1> QED
  BY <1>1, <1>2, ViewStays

LEMMA WriteChunksShows ==
  ASSUME ReaderInv, SenderTypes, WriteChunks, UNCHANGED parVars
  PROVE  ReaderInv' /\ failed' = failed
<1> DEFINE j == ser.piece + 1
           d == IF j <= Len(Msg.sizes) THEN Chunk(Piece(Msg, j)) ELSE LastChunk(Msg.trailer)
           s == IF j > Len(Msg.sizes) THEN "complete" ELSE ser.s
<1>1. ser.s = "body" /\ wire' = wire \o d /\ ser' = [ser EXCEPT !.piece = j, !.s = s]
  BY DEF WriteChunks
<1>2. ser \in Sers /\ ser.view = <<>>
  BY <1>1, SenderQuiet DEF Quiet
<1>3. ser'.view = <<>>
  <2> HIDE DEF j, s
  <2> QED
    BY <1>1, <1>2 DEF Sers
<1>4. d \in Blocks
  <2>1. Msg \in Messages /\ Len(Msg.sizes) \in Nat /\ Msg.trailer \in BOOLEAN /\ ser.piece \in Nat
    BY <1>2, MsgType DEF Messages, Sers
  <2>2. CASE j <= Len(Msg.sizes)
    <3>1. j \in 1 .. Len(Msg.sizes)
      BY <2>1, <2>2
    <3>2. Piece(Msg, j) \in Blocks
      BY <2>1, <3>1, PieceBlock
    <3>3. Chunk(Piece(Msg, j)) \in Blocks
      BY <3>2, ChunkBlock
    <3> QED
      BY <2>2, <3>3
  <2>3. CASE ~(j <= Len(Msg.sizes))
    <3>1. LastChunk(Msg.trailer) \in Blocks
      BY <2>1, EmptyBlock, ChunkBlock
    <3> QED
      BY <2>3, <3>1
  <2> QED
    BY <2>2, <2>3
<1> HIDE DEF d
<1> QED
  BY <1>1, <1>2, <1>3, <1>4, EmptyBlock, BlocksFollow

LEMMA NextMessageShows ==
  ASSUME ReaderInv, SenderTypes, NextMessage, UNCHANGED parVars
  PROVE  ReaderInv' /\ failed' = failed
<1>1. /\ ser.s = "complete" /\ wire' = wire /\ at < Len(script) /\ ser' \in NewSers(script[at + 1])
      /\ script \in Seq(Messages) /\ at \in 1 .. Len(script)
  BY DEF NextMessage, SenderTypes
<1>2. script[at + 1] \in Messages
  <2>1. Len(script) \in Nat
    BY <1>1, LenProperties
  <2>2. at + 1 \in 1 .. Len(script)
    BY <1>1, <2>1
  <2> QED
    BY <1>1, <2>2, ElementOfSeq
<1>3. ser'.view = <<>>
  BY <1>1, <1>2, NewSerializes
<1>4. ser.view = <<>>
  BY <1>1, SenderQuiet DEF Quiet
<1> QED
  BY <1>1, <1>3, <1>4, ViewStays

LEMMA CloseStreamShows ==
  ASSUME ReaderInv, CloseStream, UNCHANGED parVars
  PROVE  ReaderInv' /\ failed' = failed
  BY ViewStays DEF CloseStream

LEMMA SenderShows ==
  ASSUME ReaderInv, SenderTypes, Sender, UNCHANGED parVars
  PROVE  ReaderInv' /\ failed' = failed
<1>1. CASE StartWrite
  BY <1>1, StartWriteShows
<1>2. CASE WriteNext
  BY <1>2, WriteNextShows
<1>3. CASE WriteIo
  BY <1>3, WriteIoShows
<1>4. CASE WriteFails \/ WritePosted
  BY <1>4, WriteEndsShows
<1>5. CASE WriteTold
  BY <1>5, WriteToldShows
<1>6. CASE WriteChunks
  BY <1>6, WriteChunksShows
<1>7. CASE NextMessage
  BY <1>7, NextMessageShows
<1>8. CASE CloseStream
  BY <1>8, CloseStreamShows
<1> QED
  BY <1>1, <1>2, <1>3, <1>4, <1>5, <1>6, <1>7, <1>8 DEF Sender, SerStep

-----------------------------------------------------------------------------
(* The assertions *)

Assertions == SenderInv /\ ReaderInv /\ AssertionsHold

\* The only assertion that may fail
MayAssert == failed' = failed \/ failed' = failed \cup {"n >= 5"}

LEMMA NothingFails ==
  ASSUME AssertionsHold, MayAssert
  PROVE  AssertionsHold'
  BY Zenon DEF AssertionsHold, MayAssert

LEMMA AssertionsStart == Init => Assertions
<1> SUFFICES ASSUME Init PROVE Assertions
  OBVIOUS
<1>1. SenderInv
  BY SenderStarts
<1>2. buf = <<>> /\ wire = <<>> /\ par = NewParser /\ rop = IdleRead /\ failed = {}
  BY DEF Init, SerInit, ParInit
<1>3. ser.view = <<>>
  <2>1. script \in Seq(Messages) /\ script # <<>> /\ ser \in NewSers(script[1])
    BY ConstantsAssumption DEF ConstantsAssumption, Init, SerInit
  <2>2. script[1] \in Messages
    <3>1. 1 \in 1 .. Len(script)
      BY <2>1, EmptySeq
    <3> QED
      BY <2>1, <3>1, ElementOfSeq
  <2> QED
    BY <2>1, <2>2, NewSerializes
<1>4. <<>> \in Seq(Symbols) /\ <<>> \o <<>> = <<>> /\ Len(<<>>) = 0
  BY EmptySeq, ConcatEmptySeq
<1>5. StreamInv
  <2>1. buf \o (wire \o ser.view) = <<>>
    BY <1>2, <1>3, <1>4
  <2> QED
    BY <1>2, <1>4, <2>1, EmptyBlock DEF StreamInv
<1>6. Parses(par, Rest)
  BY <1>2, NewParses
<1>7. Reads
  <2>1. IdleRead \in ReadOps /\ IdleRead.p = 0 /\ IdleRead.pc = "idle"
    BY DEF IdleRead, ReadOps, ReadCodes
  <2> QED
    BY <1>2, <1>4, <2>1 DEF Reads
<1>8. AssertionsHold
  BY <1>2 DEF AssertionsHold
<1> QED
  BY <1>1, <1>5, <1>6, <1>7, <1>8 DEF Assertions, ReaderInv

LEMMA PutKeeps ==
  ASSUME ReaderInv, SenderTypes, Put, UNCHANGED serVars
  PROVE  ReaderInv' /\ MayAssert
<1>1. CASE PutStartLine
  <2>1. failed' = failed
    BY <1>1 DEF PutStartLine
  <2> QED
    BY <1>1, <2>1, StartLineKeeps DEF MayAssert
<1>2. CASE PutFields
  <2>1. failed' = failed
    BY <1>2 DEF PutFields
  <2> QED
    BY <1>2, <2>1, PutFieldsKeeps DEF MayAssert
<1>3. CASE Field
  BY <1>3, FieldKeeps DEF MayAssert
<1>4. CASE PutBody
  BY <1>4, PutBodyKeeps DEF MayAssert
<1>5. CASE PutBodyToEof
  BY <1>5, PutBodyToEofKeeps DEF MayAssert
<1>6. CASE PutChunkHeader
  BY <1>6, PutChunkHeaderKeeps DEF MayAssert
<1>7. CASE PutLastChunk
  <2>1. MayAssert
    BY Zenon, <1>7, PutLastChunkDoes DEF MayAssert
  <2> QED
    BY <1>7, <2>1, PutLastChunkKeeps
<1>8. CASE PutChunkBody
  BY <1>8, PutChunkBodyKeeps DEF MayAssert
<1> QED
  BY <1>1, <1>2, <1>3, <1>4, <1>5, <1>6, <1>7, <1>8 DEF Put

LEMMA ReaderKeeps ==
  ASSUME ReaderInv, SenderTypes, [Next]_vars
  PROVE  ReaderInv' /\ MayAssert
<1>1. CASE Sender /\ UNCHANGED parVars
  BY <1>1, SenderShows DEF MayAssert
<1>2. CASE StartRead /\ UNCHANGED serVars
  BY <1>2, StartReadKeeps DEF MayAssert
<1>3. CASE ReadSome /\ UNCHANGED serVars
  BY <1>3, ReadSomeKeeps DEF MayAssert
<1>4. CASE Put /\ UNCHANGED serVars
  BY <1>4, PutKeeps
<1>5. CASE PutReturned /\ UNCHANGED serVars
  BY <1>5, PutReturnedKeeps DEF MayAssert
<1>6. CASE ReadOverflows /\ UNCHANGED serVars
  BY <1>6, ReadOverflowsKeeps DEF MayAssert
<1>7. CASE ReadTold /\ UNCHANGED serVars
  BY <1>7, ReadToldKeeps DEF MayAssert
<1>8. CASE NextRead /\ UNCHANGED serVars
  BY <1>8, NextReadKeeps DEF MayAssert
<1>9. CASE WireDelivers
  BY <1>9, WireDeliversKeeps DEF MayAssert
<1>10. CASE WireEnds
  BY <1>10, WireEndsKeeps DEF MayAssert
<1>11. CASE UNCHANGED vars
  <2>1. UNCHANGED parVars /\ wire' = wire /\ ser'.view = ser.view
    BY <1>11 DEF vars, serVars
  <2> QED
    BY <2>1, ViewStays DEF MayAssert
<1> QED
  BY <1>1, <1>2, <1>3, <1>4, <1>5, <1>6, <1>7, <1>8, <1>9, <1>10, <1>11 DEF Next, ParStep

\* Whatever the messages, the pieces they come in, the limits and the errors, none of
\* the recorded assertions of basic_parser, of the body readers and of read_some_op
\* fails, but for "n >= 5" in parse_chunk_header.
THEOREM AssertionsAreTrue == Spec => []AssertionsHold
<1>1. Init => Assertions
  BY AssertionsStart
<1>2. Assertions /\ [Next]_vars => Assertions'
  <2> SUFFICES ASSUME Assertions, [Next]_vars PROVE Assertions'
    OBVIOUS
  <2>1. SenderInv'
    BY SenderKeeps DEF Assertions
  <2>2. ReaderInv' /\ MayAssert
    BY ReaderKeeps DEF Assertions, SenderInv
  <2>3. AssertionsHold'
    BY <2>2, NothingFails DEF Assertions
  <2> QED
    BY <2>1, <2>2, <2>3 DEF Assertions
<1>3. Assertions => AssertionsHold
  BY DEF Assertions
<1> QED
  BY <1>1, <1>2, <1>3, PTL DEF Spec

-----------------------------------------------------------------------------
(* A message on the wire, symbol by symbol *)

Texts == Seq(Symbols)

\* The header of m tells what its body is, and the body comes from the writer that
\* its type says.  A chunk of no octets would be the last one.
Fits(m) ==
  /\ m.writer = "string" => Len(m.sizes) = 1
  /\ m.writer = "empty" => Len(m.sizes) = 0
  /\ m.writer = "chunks" => m.framing = "chunked"
  /\ m.trailer => m.writer = "chunks"
  /\ m.bodiless => ~IsRequest /\ m.framing # "chunked" /\ Total(m) = 0
  /\ m.framing = "length" /\ ~m.bodiless => m.length = Total(m)
  /\ m.framing = "none" /\ IsRequest => Total(m) = 0
  /\ m.framing = "chunked" => \A j \in 1 .. Len(m.sizes) : m.sizes[j] > 0

\* Where the fields that tell the framing begin, and where the header ends
Folds(m) == IF m.folded THEN 9 ELSE 3
HeaderEnd(m) == Folds(m) + (IF m.framing = "none" THEN 2 ELSE 5)

\* The j-th buffer as it is sent, where it ends, and what follows the last one
Encoded(m, j) == IF m.framing = "chunked" THEN Chunk(Piece(m, j)) ELSE Piece(m, j)
PieceEnd(m, j) == HeaderEnd(m) + Before(m, j) + (IF m.framing = "chunked" THEN 5 * j ELSE 0)
TailLen(m) == IF m.framing # "chunked" THEN 0 ELSE IF m.trailer THEN 8 ELSE 5
BodyEnd(m) == PieceEnd(m, Len(m.sizes))
Size(m) == BodyEnd(m) + TailLen(m)

\* The i-th symbol of m
PieceAt(m, i) == CHOOSE j \in 1 .. Len(m.sizes) : PieceEnd(m, j - 1) < i /\ i <= PieceEnd(m, j)
SymbolOf(m, i) ==
  IF i <= HeaderEnd(m) THEN Header(m)[i]
  ELSE IF i > BodyEnd(m) THEN LastChunk(m.trailer)[i - BodyEnd(m)]
  ELSE Encoded(m, PieceAt(m, i))[i - PieceEnd(m, PieceAt(m, i) - 1)]

\* The messages of the script one behind the other: where the k-th ends, and the
\* symbol at position p of all of them
Lengths == [sizes |-> [k \in 1 .. Len(script) |-> Size(script[k])]]
MessageEnd(k) == Before(Lengths, k)
MessageAt(p) == CHOOSE k \in 1 .. Len(script) : MessageEnd(k - 1) < p /\ p <= MessageEnd(k)
SymbolAt(p) == SymbolOf(script[MessageAt(p)], p - MessageEnd(MessageAt(p) - 1))

-----------------------------------------------------------------------------
(* The sender has come as far as it says *)

Sent == wrote + wop.n
Written == MessageEnd(at - 1) + Sent

\* v is what stands in m from position a to e
Stretch(m, v, a, e) ==
  /\ v \in Texts /\ a \in Nat /\ a + Len(v) = e
  /\ \A i \in 1 .. Len(v) : v[i] = SymbolOf(m, a + i)

\* How many of its buffers the writer has handed out; pending says that the
\* application is about to be asked for the next one
Count(w, pending) ==
  w.piece + (IF Msg.writer = "buffer" /\ w.data /\ (w.toggle \/ pending) THEN 1 ELSE 0)
Given(w, pending) ==
  CASE Msg.writer = "string" -> IF w.s \in {"construct", "header_only", "body"} THEN 0 ELSE 1
    [] Msg.writer = "empty" -> 0
    [] OTHER -> Count(w, pending)

BufferAt(w) ==
  Msg.writer = "buffer" =>
    /\ w.last => w.piece + (IF w.data THEN 1 ELSE 0) = Len(Msg.sizes)
    /\ w.toggle => w.data
WriterAt(w) ==
  /\ BufferAt(w)
  /\ Msg.writer = "string" =>
       w.s \notin {"init", "body1"} /\ (w.s \in {"header", "body2"} => ~w.more)
  /\ Msg.writer = "chunks" =>
       /\ w.s \in {"construct", "header_only", "body", "complete"}
       /\ w.s \in {"construct", "header_only"} => w.piece = 0

\* Where the buffers that the serializer shows end in the message
ShownTo(w, pending) ==
  CASE w.s \in {"construct", "init"} -> 0
    [] w.s = "header_only" -> HeaderEnd(Msg)
    [] w.s \in {"header", "body", "body1", "body2"} -> PieceEnd(Msg, Given(w, pending))
    [] w.s = "final" -> BodyEnd(Msg)
    [] OTHER -> Size(Msg)

\* The serializer w with n symbols of the message behind it
SerAt(w, pending, n) ==
  /\ WriterAt(w) /\ (pending => ~w.toggle)
  /\ Stretch(Msg, w.view, n, ShownTo(w, pending))
  /\ w.s # "complete" => Given(w, pending) \in 0 .. Len(Msg.sizes)
  /\ w.s \in {"construct", "init", "header_only"} => Given(w, pending) = 0
  /\ w.s = "header_only" /\ ~w.split => Len(Msg.sizes) = 0
  /\ w.s \in {"header", "body2"} /\ ~w.more => Given(w, pending) = Len(Msg.sizes)
  /\ w.s \in {"final", "final1", "all", "body_final"} => Chunked

Pending == wop.ec = "need_buffer"
OpInv ==
  /\ wrote \in Nat
  /\ wop.pc # "idle" => ser.split = (wop.until # "done")
  /\ mode # "split_some" /\ wop.until # "some"
  /\ closed => wop.pc = "idle"
  /\ wop.pc \in {"idle", "next", "io"} => wop.ec = ""
  /\ ser.s \in Visiting =>
       \/ wop.pc \in {"next", "io"}
       \/ wop.pc = "told" /\ wop.ec = "error"
       \/ wop.pc = "idle" /\ closed
  /\ Pending => ser.s \in {"init", "body1"}
  /\ Msg.writer = "chunks" => mode = "header" /\ (wop.pc # "idle" => wop.until = "header")

FitInv == \A k \in 1 .. Len(script) : Fits(script[k])
SendInv == SenderInv /\ FitInv /\ OpInv /\ SerAt(ser, Pending, Sent)

-----------------------------------------------------------------------------
(* Sums *)

\* Before(m, j) is the sum of the first j sizes
LEMMA Sums ==
  ASSUME NEW m, m.sizes \in Seq(Nat)
  PROVE  /\ Len(m.sizes) \in Nat /\ \A j \in 1 .. Len(m.sizes) : m.sizes[j] \in Nat
         /\ Before(m, 0) = 0
         /\ \A j \in 0 .. Len(m.sizes) : Before(m, j) \in Nat
         /\ \A j \in 1 .. Len(m.sizes) : Before(m, j) = Before(m, j - 1) + m.sizes[j]
<1> DEFINE n == [bodiless |-> FALSE, framing |-> "none", length |-> 0, folded |-> FALSE,
                 writer |-> "file", sizes |-> m.sizes, trailer |-> FALSE]
<1>1. n \in Messages /\ n.sizes = m.sizes
  BY DEF Messages
<1> HIDE DEF n
<1>2. \A j : Before(m, j) = Before(n, j)
  BY <1>1 DEF Before
<1>3. Len(m.sizes) \in Nat /\ \A j \in 1 .. Len(m.sizes) : m.sizes[j] \in Nat
  BY LenProperties, ElementOfSeq
<1>4. /\ Before(n, 0) = 0
      /\ \A j \in 1 .. Len(n.sizes) : Before(n, j) = Before(n, j - 1) + n.sizes[j]
  BY <1>1, SummerIs, BeforeIs
<1>5. \A j \in 0 .. Len(n.sizes) : Before(n, j) \in Nat
  BY <1>1, BeforeIsNatural
<1> QED
  BY <1>1, <1>2, <1>3, <1>4, <1>5

LEMMA SumsGrow ==
  ASSUME NEW m, m.sizes \in Seq(Nat), NEW i \in 0 .. Len(m.sizes), NEW j \in i .. Len(m.sizes)
  PROVE  Before(m, i) <= Before(m, j)
<1> DEFINE A == {k \in Nat : i + k <= Len(m.sizes) => Before(m, i) <= Before(m, i + k)}
<1>1. Len(m.sizes) \in Nat /\ i \in Nat /\ j \in Nat /\ Before(m, i) \in Nat
  BY Sums
<1>2. 0 \in A
  BY <1>1
<1>3. ASSUME NEW k \in Nat, k \in A PROVE k + 1 \in A
  <2> SUFFICES ASSUME i + (k + 1) <= Len(m.sizes) PROVE Before(m, i) <= Before(m, i + (k + 1))
    OBVIOUS
  <2>1. i + (k + 1) \in 1 .. Len(m.sizes) /\ (i + (k + 1)) - 1 = i + k /\ i + k \in 0 .. Len(m.sizes)
    BY <1>1
  <2>2. /\ Before(m, i + (k + 1)) = Before(m, i + k) + m.sizes[i + (k + 1)]
        /\ m.sizes[i + (k + 1)] \in Nat /\ Before(m, i + k) \in Nat
    BY <2>1, Sums
  <2>3. Before(m, i) <= Before(m, i + k)
    BY <1>1, <1>3, <2>1
  <2> QED
    BY <1>1, <2>2, <2>3
<1>4. j - i \in Nat /\ i + (j - i) = j
  BY <1>1
<1>5. j - i \in A
  <2> HIDE DEF A
  <2> QED
    BY <1>2, <1>3, <1>4, Induction
<1> QED
  BY <1>1, <1>4, <1>5

\* Every number up to the whole sum lies in one of the terms
LEMMA SumsCover ==
  ASSUME NEW m, m.sizes \in Seq(Nat), NEW i \in 1 .. Before(m, Len(m.sizes))
  PROVE  \E j \in 1 .. Len(m.sizes) : Before(m, j - 1) < i /\ i <= Before(m, j)
<1>1. Len(m.sizes) \in Nat /\ \A j \in 0 .. Len(m.sizes) : Before(m, j) \in Nat
  BY Sums
<1> DEFINE A == {j \in 0 .. Len(m.sizes) : i <= Before(m, j)}
<1>2. A \subseteq Nat /\ Len(m.sizes) \in A /\ i \in Nat
  BY <1>1
<1>3. PICK j \in A : \A k \in A : j <= k
  BY <1>2, LeastNumber
<1>4. j \in 0 .. Len(m.sizes) /\ i <= Before(m, j)
  OBVIOUS
<1>5. j # 0
  BY <1>4, Sums
<1>6. j \in 1 .. Len(m.sizes) /\ j - 1 \in 0 .. Len(m.sizes) /\ ~(j <= j - 1)
  BY <1>1, <1>4, <1>5
<1>7. j - 1 \notin A
  BY <1>3, <1>6
<1>8. ~(i <= Before(m, j - 1)) /\ Before(m, j - 1) \in Nat
  BY <1>1, <1>6, <1>7
<1> QED
  BY <1>2, <1>4, <1>6, <1>8

-----------------------------------------------------------------------------
(* The parts of a message, symbol by symbol *)

\* At position p of s there is the line x, or the empty line
LineAt(s, p, x) == s[p + 1] = x /\ Cr(s, p + 2) /\ Lf(s, p + 3)
EndAt(s, p) == Cr(s, p + 1) /\ Lf(s, p + 2)

LEMMA EmptyText == <<>> \in Texts /\ Len(<<>>) = 0
  BY EmptySeq DEF Texts

\* u is s and t, one behind the other
InTurn(s, t, u) ==
  /\ u \in Texts /\ Len(u) = Len(s) + Len(t) /\ Len(s) \in Nat /\ Len(t) \in Nat
  /\ \A i \in 1 .. Len(s) : u[i] = s[i]
  /\ \A i \in 1 .. Len(t) : u[Len(s) + i] = t[i]

LEMMA JoinedAt ==
  ASSUME NEW s \in Texts, NEW t \in Texts
  PROVE  InTurn(s, t, Joined(s, t))
<1>1. Len(s) \in Nat /\ Len(t) \in Nat
  BY LenProperties DEF Texts
<1>2. /\ Joined(s, t) \in Texts /\ Len(Joined(s, t)) = Len(s) + Len(t)
      /\ \A i \in 1 .. Len(s) + Len(t) :
           Joined(s, t)[i] = IF i <= Len(s) THEN s[i] ELSE t[i - Len(s)]
  BY ConcatProperties DEF Joined, Texts
<1>3. \A i \in 1 .. Len(s) : i \in 1 .. Len(s) + Len(t) /\ i <= Len(s)
  BY <1>1
<1>4. \A i \in 1 .. Len(t) : /\ Len(s) + i \in 1 .. Len(s) + Len(t) /\ ~(Len(s) + i <= Len(s))
                             /\ (Len(s) + i) - Len(s) = i
  BY <1>1
<1> QED
  BY <1>1, <1>2, <1>3, <1>4 DEF InTurn

LEMMA LineIs ==
  ASSUME NEW x \in Symbols
  PROVE  Line(x) \in Texts /\ Len(Line(x)) = 3 /\ LineAt(Line(x), 0, x)
<1>1. <<x>> \in Texts /\ Len(<<x>>) = 1 /\ <<x>>[1] = x
  BY DEF Texts
<1>2. CRLF \in Texts /\ Len(CRLF) = 2
  BY LineBlock DEF Blocks, Texts
<1>3. CRLF[1] = Sym("cr", 0) /\ CRLF[2] = Sym("lf", 0)
  BY DEF CRLF
<1>4. Line(x) = Joined(<<x>>, CRLF)
  BY DEF Line, Joined
<1>5. /\ Line(x)[1] = x /\ Line(x)[1 + 1] = Sym("cr", 0) /\ Line(x)[1 + 2] = Sym("lf", 0)
      /\ Line(x) \in Texts /\ Len(Line(x)) = 1 + 2
  <2>1. 1 \in 1 .. 1 /\ 1 \in 1 .. 2 /\ 2 \in 1 .. 2
    OBVIOUS
  <2>2. InTurn(<<x>>, CRLF, Line(x))
    BY <1>1, <1>2, <1>4, JoinedAt
  <2> QED
    BY <1>1, <1>2, <1>3, <2>1, <2>2 DEF InTurn
<1>6. 1 + 1 = 0 + 2 /\ 1 + 2 = 0 + 3 /\ 0 + 1 = 1 /\ 1 + 2 = 3
  OBVIOUS
<1> QED
  BY <1>5, <1>6 DEF LineAt, Cr, Lf

LEMMA EmptyLineIs == CRLF \in Texts /\ Len(CRLF) = 2 /\ EndAt(CRLF, 0)
<1>1. Sym("cr", 0) \in Symbols
  BY DEF Sym, Symbols, Kinds
<1>2. CRLF \in Texts /\ Len(CRLF) = 2
  BY <1>1, LineBlock DEF Blocks, Texts
<1>3. CRLF[1] = Sym("cr", 0) /\ CRLF[2] = Sym("lf", 0)
  BY DEF CRLF
<1> QED
  BY <1>2, <1>3 DEF EndAt, Cr, Lf

\* What stands in a part stands in the whole
LEMMA StandsInFront ==
  ASSUME NEW s, NEW t, NEW u, InTurn(s, t, u), NEW p \in Nat
  PROVE  /\ \A x : LineAt(s, p, x) /\ p + 3 <= Len(s) => LineAt(u, p, x)
         /\ EndAt(s, p) /\ p + 2 <= Len(s) => EndAt(u, p)
<1>1. Len(s) \in Nat /\ \A i \in 1 .. Len(s) : u[i] = s[i]
  BY DEF InTurn
<1>2. /\ p + 2 <= Len(s) => p + 1 \in 1 .. Len(s) /\ p + 2 \in 1 .. Len(s)
      /\ p + 3 <= Len(s) => p + 2 <= Len(s) /\ p + 3 \in 1 .. Len(s)
  BY <1>1
<1> QED
  BY <1>1, <1>2 DEF LineAt, EndAt, Cr, Lf

LEMMA StandsBehind ==
  ASSUME NEW s, NEW t, NEW u, InTurn(s, t, u), NEW p \in Nat, NEW q, q = Len(s) + p
  PROVE  /\ \A x : LineAt(t, p, x) /\ p + 3 <= Len(t) => LineAt(u, q, x)
         /\ EndAt(t, p) /\ p + 2 <= Len(t) => EndAt(u, q)
<1>1. /\ Len(s) \in Nat /\ Len(t) \in Nat
      /\ \A i \in 1 .. Len(t) : u[Len(s) + i] = t[i]
  BY DEF InTurn
<1>2. /\ p + 2 <= Len(t) => p + 1 \in 1 .. Len(t) /\ p + 2 \in 1 .. Len(t)
      /\ p + 3 <= Len(t) => p + 2 <= Len(t) /\ p + 3 \in 1 .. Len(t)
      /\ q + 1 = Len(s) + (p + 1) /\ q + 2 = Len(s) + (p + 2) /\ q + 3 = Len(s) + (p + 3)
  BY <1>1
<1> QED
  BY <1>1, <1>2 DEF LineAt, EndAt, Cr, Lf

StartOf(m) == Sym("start", IF m.bodiless THEN 1 ELSE 0)
FramingOf(m) == IF m.framing = "length" THEN Sym("length", m.length) ELSE Sym("chunked", 0)

LEMMA HeaderIs ==
  ASSUME NEW m \in Messages
  PROVE  LET h == Header(m) IN
         /\ h \in Texts /\ Len(h) = HeaderEnd(m)
         /\ LineAt(h, 0, StartOf(m))
         /\ m.folded => LineAt(h, 3, Sym("field", 0)) /\ LineAt(h, 6, Sym("fold", 0))
         /\ m.framing # "none" => LineAt(h, Folds(m), FramingOf(m))
         /\ EndAt(h, HeaderEnd(m) - 2)
<1> DEFINE two == Joined(Line(Sym("field", 0)), Line(Sym("fold", 0)))
           fold == IF m.folded THEN two ELSE <<>>
           frame == IF m.framing = "none" THEN <<>> ELSE Line(FramingOf(m))
           a == Line(StartOf(m))
           b == Joined(a, fold)
           c == Joined(b, frame)
<1>1. /\ StartOf(m) \in Symbols /\ Sym("field", 0) \in Symbols /\ Sym("fold", 0) \in Symbols
      /\ FramingOf(m) \in Symbols
  BY DEF Sym, Symbols, Messages, Kinds, StartOf, FramingOf
<1>2. Header(m) = Joined(c, CRLF)
  <2>1. (CASE m.framing = "length"  -> Line(Sym("length", m.length))
           [] m.framing = "chunked" -> Line(Sym("chunked", 0))
           [] m.framing = "none"    -> <<>>) = frame
    BY DEF FramingOf, Messages
  <2> HIDE DEF frame
  <2> QED
    BY <2>1 DEF Header, Joined, StartOf
<1>3. a \in Texts /\ Len(a) = 3 /\ LineAt(a, 0, StartOf(m))
  BY <1>1, LineIs
<1>4. /\ two \in Texts /\ Len(two) = 6
      /\ LineAt(two, 0, Sym("field", 0)) /\ LineAt(two, 3, Sym("fold", 0))
  <2> DEFINE s == Line(Sym("field", 0))
             t == Line(Sym("fold", 0))
  <2>1. /\ s \in Texts /\ Len(s) = 3 /\ LineAt(s, 0, Sym("field", 0))
        /\ t \in Texts /\ Len(t) = 3 /\ LineAt(t, 0, Sym("fold", 0))
    BY <1>1, LineIs
  <2> HIDE DEF s, t
  <2>2. InTurn(s, t, two)
    BY <2>1, JoinedAt DEF s, t
  <2>3. two \in Texts /\ Len(two) = 6 /\ 0 + 3 <= Len(s) /\ 0 + 3 <= Len(t) /\ 3 = Len(s) + 0
    BY <2>1, <2>2 DEF InTurn
  <2> HIDE DEF two
  <2>4. LineAt(two, 0, Sym("field", 0))
    BY <2>1, <2>2, <2>3, StandsInFront
  <2>5. LineAt(two, 3, Sym("fold", 0))
    BY <2>1, <2>2, <2>3, StandsBehind
  <2> QED
    BY <2>3, <2>4, <2>5
<1>5. /\ frame \in Texts /\ Len(frame) = (IF m.framing = "none" THEN 0 ELSE 3)
      /\ m.framing # "none" => LineAt(frame, 0, FramingOf(m))
  <2>1. /\ Line(FramingOf(m)) \in Texts /\ Len(Line(FramingOf(m))) = 3
        /\ LineAt(Line(FramingOf(m)), 0, FramingOf(m))
    BY <1>1, LineIs
  <2>2. CASE m.framing = "none"
    BY <2>2, EmptyText
  <2>3. CASE m.framing # "none"
    BY <2>1, <2>3
  <2> QED
    BY <2>2, <2>3
<1> HIDE DEF two, frame, a
<1>6. /\ b \in Texts /\ Len(b) = Folds(m) /\ LineAt(b, 0, StartOf(m))
      /\ m.folded => LineAt(b, 3, Sym("field", 0)) /\ LineAt(b, 6, Sym("fold", 0))
  <2>1. fold \in Texts /\ (m.folded => fold = two) /\ Len(fold) = Folds(m) - 3
    <3>1. CASE m.folded
      <4>1. fold = two /\ Folds(m) = 9 /\ 9 - 3 = 6
        BY <3>1 DEF Folds
      <4> QED
        BY <1>4, <4>1
    <3>2. CASE ~m.folded
      <4>1. fold = <<>> /\ Folds(m) = 3 /\ 3 - 3 = 0
        BY <3>2 DEF Folds
      <4> QED
        BY <3>2, <4>1, EmptyText
    <3> QED
      BY <3>1, <3>2
  <2> HIDE DEF fold
  <2>2. InTurn(a, fold, b)
    BY <1>3, <2>1, JoinedAt
  <2> HIDE DEF b
  <2>3. Folds(m) \in {3, 9} /\ (m.folded => Folds(m) = 9)
    BY DEF Folds
  <2>4. b \in Texts /\ Len(b) = Folds(m) /\ 0 + 3 <= Len(a)
    BY <1>3, <2>1, <2>2, <2>3 DEF InTurn
  <2>5. LineAt(b, 0, StartOf(m))
    BY <1>3, <2>2, <2>4, StandsInFront
  <2>6. ASSUME m.folded PROVE LineAt(b, 3, Sym("field", 0)) /\ LineAt(b, 6, Sym("fold", 0))
    <3>1. /\ 3 = Len(a) + 0 /\ 6 = Len(a) + 3
          /\ LineAt(fold, 0, Sym("field", 0)) /\ LineAt(fold, 3, Sym("fold", 0))
      BY <1>3, <1>4, <2>1, <2>6
    <3>2. Len(fold) = 6
      BY <2>1, <2>3, <2>6
    <3>3. 0 + 3 <= Len(fold) /\ 3 + 3 <= Len(fold)
      BY <3>2
    <3> QED
      BY <2>2, <3>1, <3>3, StandsBehind
  <2> QED
    BY <2>4, <2>5, <2>6
<1> HIDE DEF b
<1>7. /\ Folds(m) \in Nat /\ 3 <= Folds(m) /\ (m.folded => 9 <= Folds(m))
  BY DEF Folds
<1>8. InTurn(b, frame, c)
  BY <1>5, <1>6, JoinedAt
<1> HIDE DEF c
<1>9. /\ c \in Texts /\ Len(c) = HeaderEnd(m) - 2 /\ HeaderEnd(m) - 2 \in Nat /\ HeaderEnd(m) \in Nat
      /\ (m.framing # "none" => Folds(m) + 3 <= HeaderEnd(m) - 2) /\ Folds(m) <= HeaderEnd(m) - 2
  <2>1. c \in Texts /\ Len(c) = Len(b) + Len(frame)
    BY <1>8 DEF InTurn
  <2> QED
    BY <1>5, <1>6, <1>7, <2>1 DEF HeaderEnd
<1>10. /\ LineAt(c, 0, StartOf(m))
       /\ m.folded => LineAt(c, 3, Sym("field", 0)) /\ LineAt(c, 6, Sym("fold", 0))
  <2>1. 0 + 3 <= Len(b) /\ (m.folded => 3 + 3 <= Len(b) /\ 6 + 3 <= Len(b))
    BY <1>6, <1>7
  <2> QED
    BY <1>6, <1>8, <2>1, StandsInFront
<1>11. ASSUME m.framing # "none" PROVE LineAt(c, Folds(m), FramingOf(m))
  <2>1. Folds(m) = Len(b) + 0 /\ 0 + 3 <= Len(frame) /\ LineAt(frame, 0, FramingOf(m))
    BY <1>5, <1>6, <1>7, <1>11
  <2> QED
    BY <1>8, <2>1, StandsBehind
<1> DEFINE h == Joined(c, CRLF)
<1>12. InTurn(c, CRLF, h)
  BY <1>9, EmptyLineIs, JoinedAt
<1> HIDE DEF h
<1>13. h \in Texts /\ Len(h) = HeaderEnd(m)
  <2>1. h \in Texts /\ Len(h) = Len(c) + Len(CRLF)
    BY <1>12 DEF InTurn
  <2>2. Len(CRLF) = 2
    BY EmptyLineIs
  <2> QED
    BY <1>9, <2>1, <2>2
<1>14. EndAt(h, HeaderEnd(m) - 2)
  <2>1. HeaderEnd(m) - 2 = Len(c) + 0 /\ 0 + 2 <= Len(CRLF)
    BY <1>9, EmptyLineIs
  <2> QED
    BY <1>12, <2>1, EmptyLineIs, StandsBehind
<1>15. /\ LineAt(h, 0, StartOf(m))
       /\ m.folded => LineAt(h, 3, Sym("field", 0)) /\ LineAt(h, 6, Sym("fold", 0))
       /\ m.framing # "none" => LineAt(h, Folds(m), FramingOf(m))
  <2>1. /\ 0 + 3 <= Len(c) /\ (m.framing # "none" => Folds(m) + 3 <= Len(c))
        /\ (m.folded => 3 + 3 <= Len(c) /\ 6 + 3 <= Len(c))
    BY <1>7, <1>9
  <2> QED
    BY <1>7, <1>10, <1>11, <1>12, <2>1, StandsInFront
<1> QED
  BY <1>2, <1>13, <1>14, <1>15 DEF h

OctetsFrom(d, n, b) == d \in Texts /\ Len(d) = n /\ \A i \in 1 .. n : d[i] = Sym("octet", b + i)

LEMMA PieceIs ==
  ASSUME NEW m \in Messages, NEW j \in 1 .. Len(m.sizes)
  PROVE  OctetsFrom(Piece(m, j), m.sizes[j], Before(m, j - 1)) /\ m.sizes[j] \in Nat
<1>1. m.sizes \in Seq(Nat)
  BY DEF Messages
<1>2. /\ Len(m.sizes) \in Nat /\ m.sizes[j] \in Nat /\ j - 1 \in 0 .. Len(m.sizes)
      /\ Before(m, j - 1) \in Nat
  BY <1>1, Sums
<1> DEFINE n == m.sizes[j]
           b == Before(m, j - 1)
<1>3. n \in Nat /\ b \in Nat /\ Piece(m, j) = [i \in 1 .. n |-> Sym("octet", b + i)]
  BY <1>2 DEF Piece
<1> HIDE DEF n, b
<1>4. \A i \in 1 .. n : Sym("octet", b + i) \in Symbols
  <2> SUFFICES ASSUME NEW i \in 1 .. n PROVE Sym("octet", b + i) \in Symbols
    OBVIOUS
  <2>1. b + i \in Nat
    BY <1>3
  <2> QED
    BY <2>1 DEF Sym, Symbols, Kinds
<1>5. Piece(m, j) \in Seq(Symbols) /\ Len(Piece(m, j)) = n
  BY <1>3, <1>4
<1> QED
  BY <1>2, <1>3, <1>5 DEF OctetsFrom, Texts, n, b

ChunkOf(c, d, n) ==
  /\ c \in Texts /\ Len(c) = n + 5 /\ n \in Nat
  /\ LineAt(c, 0, Sym("size", n)) /\ EndAt(c, n + 3)
  /\ \A i \in 1 .. n : c[3 + i] = d[i]

LEMMA ChunkIs ==
  ASSUME NEW d \in Texts
  PROVE  ChunkOf(Chunk(d), d, Len(d))
<1> DEFINE n == Len(d)
           s == Line(Sym("size", n))
           t == Joined(s, d)
           u == Joined(t, CRLF)
<1>1. n \in Nat
  BY LenProperties DEF Texts
<1>2. Sym("size", n) \in Symbols
  BY <1>1 DEF Sym, Symbols, Kinds
<1>3. Chunk(d) = u
  BY DEF Chunk, Joined
<1>4. s \in Texts /\ Len(s) = 3 /\ LineAt(s, 0, Sym("size", n))
  BY <1>2, LineIs
<1> HIDE DEF s
<1>5. InTurn(s, d, t)
  BY <1>4, JoinedAt
<1> HIDE DEF t
<1>6. t \in Texts /\ Len(t) = Len(s) + n
  BY <1>5 DEF InTurn
<1>7. Len(t) = 3 + n
  BY <1>4, <1>6
<1>8. InTurn(t, CRLF, u)
  BY <1>6, EmptyLineIs, JoinedAt
<1> HIDE DEF u
<1>9. u \in Texts /\ Len(u) = Len(t) + Len(CRLF)
  BY <1>8 DEF InTurn
<1>10. Len(CRLF) = 2 /\ EndAt(CRLF, 0)
  BY EmptyLineIs
<1>11. Len(u) = n + 5
  BY <1>1, <1>7, <1>9, <1>10
<1>12. 0 + 3 <= Len(s) /\ 0 + 3 <= Len(t) /\ n + 3 = Len(t) + 0 /\ 0 + 2 <= Len(CRLF)
  BY <1>1, <1>4, <1>7, <1>10
<1>13. LineAt(t, 0, Sym("size", n))
  BY <1>4, <1>5, <1>12, StandsInFront
<1>14. LineAt(u, 0, Sym("size", n))
  BY <1>8, <1>12, <1>13, StandsInFront
<1>15. EndAt(u, n + 3)
  BY <1>8, <1>10, <1>12, StandsBehind
<1>16. ASSUME NEW i \in 1 .. n PROVE u[3 + i] = d[i]
  <2>1. t[Len(s) + i] = d[i]
    BY <1>5 DEF InTurn
  <2>2. 3 + i \in 1 .. Len(t)
    BY <1>1, <1>7
  <2>3. u[3 + i] = t[3 + i]
    BY <1>8, <2>2 DEF InTurn
  <2> QED
    BY <1>4, <2>1, <2>3
<1> HIDE DEF n
<1> QED
  BY <1>1, <1>3, <1>9, <1>11, <1>14, <1>15, <1>16 DEF ChunkOf, n

LastChunkOf(c, trailer) ==
  /\ c \in Texts /\ Len(c) = IF trailer THEN 8 ELSE 5
  /\ LineAt(c, 0, Sym("size", 0)) /\ EndAt(c, Len(c) - 2)
  /\ trailer => LineAt(c, 3, Sym("field", 0))

LEMMA LastChunkIs ==
  ASSUME NEW trailer \in BOOLEAN
  PROVE  LastChunkOf(LastChunk(trailer), trailer)
<1> DEFINE s == Line(Sym("size", 0))
           f == Line(Sym("field", 0))
           d == IF trailer THEN f ELSE <<>>
           t == Joined(s, d)
           u == Joined(t, CRLF)
           n == IF trailer THEN 3 ELSE 0
<1>1. Sym("size", 0) \in Symbols /\ Sym("field", 0) \in Symbols
  BY DEF Sym, Symbols, Kinds
<1>2. LastChunk(trailer) = u
  BY DEF LastChunk, Joined
<1>3. /\ s \in Texts /\ Len(s) = 3 /\ LineAt(s, 0, Sym("size", 0))
      /\ f \in Texts /\ Len(f) = 3 /\ LineAt(f, 0, Sym("field", 0))
  BY <1>1, LineIs
<1> HIDE DEF s, f
<1>4. d \in Texts /\ Len(d) = n /\ n \in Nat /\ (trailer => d = f /\ n = 3)
  <2>1. CASE trailer
    <3>1. d = f /\ n = 3
      BY <2>1
    <3> QED
      BY <1>3, <3>1
  <2>2. CASE ~trailer
    <3>1. d = <<>> /\ n = 0
      BY <2>2
    <3> QED
      BY <2>2, <3>1, EmptyText
  <2> QED
    BY <2>1, <2>2
<1> HIDE DEF d
<1>5. InTurn(s, d, t)
  BY <1>3, <1>4, JoinedAt
<1> HIDE DEF t
<1>6. t \in Texts /\ Len(t) = Len(s) + Len(d)
  BY <1>5 DEF InTurn
<1> HIDE DEF n
<1>7. Len(t) = 3 + n
  BY <1>3, <1>4, <1>6
<1>8. InTurn(t, CRLF, u)
  BY <1>6, EmptyLineIs, JoinedAt
<1> HIDE DEF u
<1>9. u \in Texts /\ Len(u) = Len(t) + Len(CRLF)
  BY <1>8 DEF InTurn
<1>10. Len(CRLF) = 2 /\ EndAt(CRLF, 0)
  BY EmptyLineIs
<1>11. Len(u) = n + 5
  BY <1>4, <1>7, <1>9, <1>10
<1>12. /\ 0 + 3 <= Len(s) /\ 0 + 3 <= Len(t) /\ Len(u) - 2 = Len(t) + 0 /\ 0 + 2 <= Len(CRLF)
       /\ 3 = Len(s) + 0 /\ (trailer => 0 + 3 <= Len(d) /\ 3 + 3 <= Len(t))
  BY <1>3, <1>4, <1>7, <1>10, <1>11
<1>13. LineAt(t, 0, Sym("size", 0))
  BY <1>3, <1>5, <1>12, StandsInFront
<1>14. LineAt(u, 0, Sym("size", 0))
  BY <1>8, <1>12, <1>13, StandsInFront
<1>15. EndAt(u, Len(u) - 2)
  BY <1>8, <1>10, <1>12, StandsBehind
<1>16. ASSUME trailer PROVE LineAt(u, 3, Sym("field", 0))
  <2>1. LineAt(d, 0, Sym("field", 0))
    BY <1>3, <1>4, <1>16
  <2>2. LineAt(t, 3, Sym("field", 0))
    BY <1>5, <1>12, <1>16, <2>1, StandsBehind
  <2> QED
    BY <1>8, <1>12, <1>16, <2>2, StandsInFront
<1>17. n + 5 = IF trailer THEN 8 ELSE 5
  BY DEF n
<1> QED
  BY <1>2, <1>9, <1>11, <1>14, <1>15, <1>16, <1>17 DEF LastChunkOf

\* How much longer a buffer is on the wire
Frame(m) == IF m.framing = "chunked" THEN 5 ELSE 0

LEMMA EncodedIs ==
  ASSUME NEW m \in Messages, NEW j \in 1 .. Len(m.sizes)
  PROVE  /\ Encoded(m, j) \in Texts /\ Len(Encoded(m, j)) = m.sizes[j] + Frame(m)
         /\ m.framing = "chunked" => ChunkOf(Encoded(m, j), Piece(m, j), m.sizes[j])
         /\ m.framing # "chunked" => Encoded(m, j) = Piece(m, j)
<1>1. Piece(m, j) \in Texts /\ Len(Piece(m, j)) = m.sizes[j] /\ m.sizes[j] \in Nat
  BY PieceIs DEF OctetsFrom
<1>2. CASE m.framing = "chunked"
  <2>1. Encoded(m, j) = Chunk(Piece(m, j)) /\ Frame(m) = 5
    BY <1>2 DEF Encoded, Frame
  <2>2. ChunkOf(Encoded(m, j), Piece(m, j), m.sizes[j])
    BY <1>1, <2>1, ChunkIs
  <2>3. Encoded(m, j) \in Texts /\ Len(Encoded(m, j)) = m.sizes[j] + 5
    BY <2>2 DEF ChunkOf
  <2> QED
    BY <1>2, <2>1, <2>2, <2>3
<1>3. CASE m.framing # "chunked"
  <2>1. Encoded(m, j) = Piece(m, j) /\ Frame(m) = 0 /\ m.sizes[j] + 0 = m.sizes[j]
    BY <1>1, <1>3 DEF Encoded, Frame
  <2> QED
    BY <1>1, <1>3, <2>1
<1> QED
  BY <1>2, <1>3

-----------------------------------------------------------------------------
(* Where the parts of a message stand *)

LEMMA EndsAre ==
  ASSUME NEW m \in Messages
  PROVE  LET n == Len(m.sizes) IN
         /\ n \in Nat /\ HeaderEnd(m) \in Nat /\ Folds(m) \in {3, 9}
         /\ 5 <= HeaderEnd(m) /\ Frame(m) \in {0, 5} /\ TailLen(m) \in {0, 5, 8}
         /\ PieceEnd(m, 0) = HeaderEnd(m)
         /\ \A j \in 0 .. n : PieceEnd(m, j) = (HeaderEnd(m) + Before(m, j)) + Frame(m) * j
         /\ \A j \in 0 .. n : PieceEnd(m, j) \in Nat /\ HeaderEnd(m) <= PieceEnd(m, j)
         /\ \A j \in 1 .. n : /\ m.sizes[j] \in Nat /\ Before(m, j) = Before(m, j - 1) + m.sizes[j]
                              /\ PieceEnd(m, j) = (PieceEnd(m, j - 1) + m.sizes[j]) + Frame(m)
         /\ \A j \in 0 .. n : Before(m, j) \in Nat
         /\ Size(m) \in Nat /\ BodyEnd(m) \in Nat /\ HeaderEnd(m) <= BodyEnd(m)
         /\ Size(m) = BodyEnd(m) + TailLen(m) /\ BodyEnd(m) = PieceEnd(m, n)
         /\ Total(m) = Before(m, n)
<1> DEFINE n == Len(m.sizes)
<1>1. m.sizes \in Seq(Nat)
  BY DEF Messages
<1>2. /\ n \in Nat /\ \A j \in 1 .. n : m.sizes[j] \in Nat
      /\ Before(m, 0) = 0 /\ \A j \in 0 .. n : Before(m, j) \in Nat
      /\ \A j \in 1 .. n : Before(m, j) = Before(m, j - 1) + m.sizes[j]
  BY <1>1, Sums
<1> HIDE DEF n
<1>3. Folds(m) \in {3, 9} /\ HeaderEnd(m) \in Nat /\ 5 <= HeaderEnd(m)
  BY DEF Folds, HeaderEnd
<1>4. Frame(m) \in {0, 5} /\ TailLen(m) \in {0, 5, 8}
  BY DEF Frame, TailLen
<1>5. \A j \in 0 .. n : PieceEnd(m, j) = (HeaderEnd(m) + Before(m, j)) + Frame(m) * j
  <2>1. CASE m.framing = "chunked"
    BY <1>2, <1>3, <2>1 DEF PieceEnd, Frame
  <2>2. CASE m.framing # "chunked"
    BY <1>2, <1>3, <2>2 DEF PieceEnd, Frame
  <2> QED
    BY <2>1, <2>2
<1>6. \A j \in 0 .. n : Frame(m) * j \in Nat
  BY <1>2, <1>4
<1>7. \A j \in 0 .. n : PieceEnd(m, j) \in Nat /\ HeaderEnd(m) <= PieceEnd(m, j)
  <2> SUFFICES ASSUME NEW j \in 0 .. n
               PROVE  PieceEnd(m, j) \in Nat /\ HeaderEnd(m) <= PieceEnd(m, j)
    OBVIOUS
  <2>1. /\ PieceEnd(m, j) = (HeaderEnd(m) + Before(m, j)) + Frame(m) * j
        /\ Before(m, j) \in Nat /\ Frame(m) * j \in Nat
    BY <1>2, <1>5, <1>6
  <2> QED
    BY <1>3, <2>1
<1>8. ASSUME NEW j \in 1 .. n PROVE PieceEnd(m, j) = (PieceEnd(m, j - 1) + m.sizes[j]) + Frame(m)
  <2>1. j - 1 \in 0 .. n /\ j \in 0 .. n
    BY <1>2
  <2>2. /\ PieceEnd(m, j) = (HeaderEnd(m) + Before(m, j)) + Frame(m) * j
        /\ PieceEnd(m, j - 1) = (HeaderEnd(m) + Before(m, j - 1)) + Frame(m) * (j - 1)
        /\ Before(m, j) = Before(m, j - 1) + m.sizes[j]
        /\ Before(m, j - 1) \in Nat /\ m.sizes[j] \in Nat
    BY <1>2, <1>5, <2>1
  <2>3. Frame(m) * j = Frame(m) * (j - 1) + Frame(m) /\ Frame(m) * (j - 1) \in Nat
    <3>1. CASE Frame(m) = 0
      BY <1>2, <3>1
    <3>2. CASE Frame(m) = 5
      BY <1>2, <3>2
    <3> QED
      BY <1>4, <3>1, <3>2
  <2> QED
    BY <1>3, <1>4, <2>2, <2>3
<1>9. PieceEnd(m, 0) = HeaderEnd(m)
  <2>1. 0 \in 0 .. n /\ Frame(m) * 0 = 0
    BY <1>2, <1>4
  <2> QED
    BY <1>2, <1>3, <1>5, <2>1
<1>10. BodyEnd(m) = PieceEnd(m, n) /\ n \in 0 .. n /\ Size(m) = BodyEnd(m) + TailLen(m)
        /\ Total(m) = Before(m, n)
  BY <1>2 DEF BodyEnd, Size, Total, n
<1>11. BodyEnd(m) \in Nat /\ HeaderEnd(m) <= BodyEnd(m)
  BY <1>7, <1>10
<1>12. Size(m) \in Nat
  BY <1>4, <1>10, <1>11
<1> QED
  BY <1>2, <1>3, <1>4, <1>5, <1>7, <1>8, <1>9, <1>10, <1>11, <1>12 DEF n

LEMMA EndsGrow ==
  ASSUME NEW m \in Messages, NEW i \in 0 .. Len(m.sizes), NEW j \in i .. Len(m.sizes)
  PROVE  PieceEnd(m, i) <= PieceEnd(m, j) /\ Before(m, i) <= Before(m, j)
<1>1. m.sizes \in Seq(Nat)
  BY DEF Messages
<1>2. Before(m, i) <= Before(m, j)
  BY <1>1, SumsGrow
<1>3. Len(m.sizes) \in Nat /\ j \in 0 .. Len(m.sizes) /\ i <= j /\ HeaderEnd(m) \in Nat /\ Frame(m) \in {0, 5}
  BY EndsAre
<1>4. /\ PieceEnd(m, i) = (HeaderEnd(m) + Before(m, i)) + Frame(m) * i
      /\ PieceEnd(m, j) = (HeaderEnd(m) + Before(m, j)) + Frame(m) * j
      /\ Before(m, i) \in Nat /\ Before(m, j) \in Nat
  BY <1>3, EndsAre
<1>5. CASE Frame(m) = 0
  <2>1. Frame(m) * i = 0 /\ Frame(m) * j = 0
    BY <1>3, <1>5
  <2> QED
    BY <1>2, <1>3, <1>4, <2>1
<1>6. CASE Frame(m) = 5
  <2>1. Frame(m) * i = 5 * i /\ Frame(m) * j = 5 * j /\ i \in Nat /\ j \in Nat
    BY <1>3, <1>6
  <2> QED
    BY <1>2, <1>3, <1>4, <2>1
<1> QED
  BY <1>3, <1>5, <1>6

LEMMA HeaderSymbol ==
  ASSUME NEW m \in Messages, NEW i \in 1 .. HeaderEnd(m)
  PROVE  SymbolOf(m, i) = Header(m)[i]
<1>1. i <= HeaderEnd(m)
  BY EndsAre
<1> QED
  BY <1>1 DEF SymbolOf

LEMMA TailSymbol ==
  ASSUME NEW m \in Messages, NEW i \in 1 .. TailLen(m)
  PROVE  SymbolOf(m, BodyEnd(m) + i) = LastChunk(m.trailer)[i]
<1>1. /\ HeaderEnd(m) \in Nat /\ BodyEnd(m) \in Nat /\ HeaderEnd(m) <= BodyEnd(m)
      /\ TailLen(m) \in {0, 5, 8}
  BY EndsAre
<1>2. i \in Nat /\ i > 0
  BY <1>1
<1>3. ~(BodyEnd(m) + i <= HeaderEnd(m)) /\ BodyEnd(m) + i > BodyEnd(m) /\ (BodyEnd(m) + i) - BodyEnd(m) = i
  BY <1>1, <1>2
<1> QED
  BY <1>3 DEF SymbolOf

LEMMA NotPast ==
  ASSUME NEW a \in Nat, NEW b \in Nat, NEW c \in Nat, a <= b, b <= c
  PROVE  ~(a > c)
  OBVIOUS

LEMMA PieceSymbol ==
  ASSUME NEW m \in Messages, NEW j \in 1 .. Len(m.sizes),
         NEW i \in 1 .. m.sizes[j] + Frame(m)
  PROVE  SymbolOf(m, PieceEnd(m, j - 1) + i) = Encoded(m, j)[i]
<1> DEFINE n == Len(m.sizes)
           p == PieceEnd(m, j - 1) + i
           Holds(k) == PieceEnd(m, k - 1) < p /\ p <= PieceEnd(m, k)
<1>1. /\ n \in Nat /\ HeaderEnd(m) \in Nat /\ Frame(m) \in {0, 5} /\ BodyEnd(m) = PieceEnd(m, n)
      /\ \A k \in 0 .. n : PieceEnd(m, k) \in Nat /\ HeaderEnd(m) <= PieceEnd(m, k)
  BY EndsAre
<1>2. m.sizes[j] \in Nat /\ PieceEnd(m, j) = (PieceEnd(m, j - 1) + m.sizes[j]) + Frame(m)
  BY EndsAre
<1>3. j - 1 \in 0 .. n /\ j \in 0 .. n /\ i \in Nat /\ i >= 1 /\ n \in j .. n /\ j \in Nat
  BY <1>1, <1>2
<1>4. PieceEnd(m, j - 1) \in Nat /\ PieceEnd(m, j) \in Nat /\ HeaderEnd(m) <= PieceEnd(m, j - 1)
  BY <1>1, <1>3
<1>5. i <= m.sizes[j] + Frame(m)
  BY <1>1, <1>2
<1>6. Holds(j) /\ p \in Nat /\ ~(p <= HeaderEnd(m)) /\ p - PieceEnd(m, j - 1) = i
  <2>1. HeaderEnd(m) \in Nat /\ Frame(m) \in Nat
    BY <1>1
  <2>2. p \in Nat /\ p = PieceEnd(m, j - 1) + i
    BY <1>3, <1>4
  <2> HIDE DEF p
  <2>3. p <= PieceEnd(m, j)
    BY <1>2, <1>3, <1>4, <1>5, <2>1, <2>2
  <2> QED
    BY <1>3, <1>4, <2>1, <2>2, <2>3
<1>7. PieceEnd(m, j) <= PieceEnd(m, n)
  BY <1>3, EndsGrow
<1>8. ~(p > BodyEnd(m))
  <2>1. n \in 0 .. n /\ BodyEnd(m) = PieceEnd(m, n)
    BY <1>1
  <2>2. p \in Nat /\ p <= PieceEnd(m, j) /\ PieceEnd(m, j) \in Nat /\ PieceEnd(m, n) \in Nat
    BY <1>1, <1>4, <1>6, <2>1
  <2> HIDE DEF p, n
  <2>3. ~(p > PieceEnd(m, n))
    BY <1>7, <2>2, NotPast
  <2> QED
    BY <2>1, <2>3
<1> HIDE DEF p
<1>9. ASSUME NEW k \in 1 .. n, Holds(k) PROVE k = j
  <2>1. k - 1 \in 0 .. n /\ k \in 0 .. n /\ k \in Nat
    BY <1>1
  <2>2. PieceEnd(m, k - 1) \in Nat /\ PieceEnd(m, k) \in Nat
    BY <1>1, <2>1
  <2>3. CASE k < j
    <3>1. j - 1 \in k .. n
      BY <1>1, <1>3, <2>1, <2>3
    <3>2. PieceEnd(m, k) <= PieceEnd(m, j - 1)
      BY <2>1, <3>1, EndsGrow
    <3> QED
      BY <1>4, <1>6, <1>9, <2>2, <3>2
  <2>4. CASE j < k
    <3>1. k - 1 \in j .. n
      BY <1>1, <1>3, <2>1, <2>4
    <3>2. PieceEnd(m, j) <= PieceEnd(m, k - 1)
      BY <1>3, <3>1, EndsGrow
    <3> QED
      BY <1>4, <1>6, <1>9, <2>2, <3>2
  <2> QED
    BY <1>3, <2>1, <2>3, <2>4
<1>10. PieceAt(m, p) = j
  BY <1>6, <1>9 DEF PieceAt
<1>11. SymbolOf(m, p) = Encoded(m, j)[i]
  BY <1>6, <1>8, <1>10 DEF SymbolOf
<1> QED
  BY <1>11 DEF p

\* In m there stands at p the line x, or the empty line
LineIn(m, p, x) ==
  SymbolOf(m, p + 1) = x /\ SymbolOf(m, p + 2) = Sym("cr", 0) /\ SymbolOf(m, p + 3) = Sym("lf", 0)
EndIn(m, p) == SymbolOf(m, p + 1) = Sym("cr", 0) /\ SymbolOf(m, p + 2) = Sym("lf", 0)

LEMMA PartIn ==
  ASSUME NEW m, NEW s, NEW q \in Nat, NEW n \in Nat,
         \A i \in 1 .. n : SymbolOf(m, q + i) = s[i], NEW p \in Nat
  PROVE  /\ \A x : LineAt(s, p, x) /\ p + 3 <= n => LineIn(m, q + p, x)
         /\ EndAt(s, p) /\ p + 2 <= n => EndIn(m, q + p)
<1>1. /\ p + 2 <= n => p + 1 \in 1 .. n /\ p + 2 \in 1 .. n
      /\ p + 3 <= n => p + 2 <= n /\ p + 3 \in 1 .. n
      /\ (q + p) + 1 = q + (p + 1) /\ (q + p) + 2 = q + (p + 2) /\ (q + p) + 3 = q + (p + 3)
  OBVIOUS
<1> QED
  BY <1>1 DEF LineAt, EndAt, LineIn, EndIn, Cr, Lf

HeaderStands(m) ==
  /\ LineIn(m, 0, StartOf(m))
  /\ m.folded => LineIn(m, 3, Sym("field", 0)) /\ LineIn(m, 6, Sym("fold", 0))
  /\ m.framing # "none" => LineIn(m, Folds(m), FramingOf(m))
  /\ EndIn(m, HeaderEnd(m) - 2)

LEMMA HeaderIn ==
  ASSUME NEW m \in Messages
  PROVE  HeaderStands(m)
<1> DEFINE h == Header(m)
           n == HeaderEnd(m)
<1>1. n \in Nat /\ Folds(m) \in Nat
  BY EndsAre
<1>2. \A i \in 1 .. n : SymbolOf(m, 0 + i) = h[i]
  <2> SUFFICES ASSUME NEW i \in 1 .. n PROVE SymbolOf(m, 0 + i) = h[i]
    OBVIOUS
  <2>1. 0 + i = i
    BY <1>1
  <2> QED
    BY <2>1, HeaderSymbol
<1>3. /\ LineAt(h, 0, StartOf(m))
      /\ m.folded => LineAt(h, 3, Sym("field", 0)) /\ LineAt(h, 6, Sym("fold", 0))
      /\ m.framing # "none" => LineAt(h, Folds(m), FramingOf(m))
      /\ EndAt(h, n - 2)
  BY HeaderIs
<1>4. /\ 0 + 3 <= n /\ (m.folded => 3 + 3 <= n /\ 6 + 3 <= n)
      /\ (m.framing # "none" => Folds(m) + 3 <= n)
      /\ n - 2 \in Nat /\ (n - 2) + 2 <= n
      /\ 0 + Folds(m) = Folds(m) /\ 0 + (n - 2) = n - 2 /\ 0 + 0 = 0 /\ 0 + 3 = 3 /\ 0 + 6 = 6
  BY <1>1 DEF HeaderEnd, Folds
<1> HIDE DEF h, n
<1>5. \A p \in Nat : \A x : LineAt(h, p, x) /\ p + 3 <= n => LineIn(m, 0 + p, x)
  BY <1>1, <1>2, PartIn
<1>6. EndIn(m, 0 + (n - 2))
  BY <1>1, <1>2, <1>3, <1>4, PartIn
<1>7. LineIn(m, 0 + 0, StartOf(m))
  BY <1>3, <1>4, <1>5
<1>8. m.folded => LineIn(m, 0 + 3, Sym("field", 0)) /\ LineIn(m, 0 + 6, Sym("fold", 0))
  BY <1>3, <1>4, <1>5
<1>9. m.framing # "none" => LineIn(m, 0 + Folds(m), FramingOf(m))
  BY <1>1, <1>3, <1>4, <1>5
<1>10. EndIn(m, HeaderEnd(m) - 2)
  BY <1>4, <1>6 DEF n
<1> QED
  BY <1>4, <1>7, <1>8, <1>9, <1>10 DEF HeaderStands

ChunkStands(m, j) ==
  /\ LineIn(m, PieceEnd(m, j - 1), Sym("size", m.sizes[j]))
  /\ \A i \in 1 .. m.sizes[j] :
       SymbolOf(m, PieceEnd(m, j - 1) + (3 + i)) = Sym("octet", Before(m, j - 1) + i)
  /\ EndIn(m, PieceEnd(m, j) - 2)

LEMMA ChunkIn ==
  ASSUME NEW m \in Messages, m.framing = "chunked", NEW j \in 1 .. Len(m.sizes)
  PROVE  ChunkStands(m, j)
<1> DEFINE c == Encoded(m, j)
           d == Piece(m, j)
           z == m.sizes[j]
           q == PieceEnd(m, j - 1)
           e == PieceEnd(m, j)
           b == Before(m, j - 1)
<1>1. ChunkOf(c, d, z)
  BY EncodedIs
<1>2. z \in Nat /\ \A i \in 1 .. z : d[i] = Sym("octet", b + i)
  BY PieceIs DEF OctetsFrom
<1>3. Frame(m) = 5
  BY DEF Frame
<1>4. \A i \in 1 .. z + 5 : SymbolOf(m, q + i) = c[i]
  BY <1>3, PieceSymbol
<1>5. j - 1 \in 0 .. Len(m.sizes) /\ j \in 0 .. Len(m.sizes)
  BY EndsAre
<1>6. q \in Nat /\ e \in Nat /\ e = (q + z) + 5
  BY <1>3, <1>5, EndsAre
<1> HIDE DEF c, d, z, q, b, e
<1>7. z + 5 \in Nat /\ z + 3 \in Nat /\ 0 + 3 <= z + 5 /\ (z + 3) + 2 <= z + 5 /\ q + 0 = q
      /\ q + (z + 3) = e - 2
  BY <1>2, <1>6
<1>8. LineIn(m, q + 0, Sym("size", z))
  <2>1. LineAt(c, 0, Sym("size", z))
    BY <1>1 DEF ChunkOf
  <2> QED
    BY <1>4, <1>6, <1>7, <2>1, PartIn
<1>9. EndIn(m, q + (z + 3))
  <2>1. EndAt(c, z + 3)
    BY <1>1, <1>2 DEF ChunkOf
  <2> QED
    BY <1>4, <1>6, <1>7, <2>1, PartIn
<1>10. ASSUME NEW i \in 1 .. z
       PROVE  SymbolOf(m, q + (3 + i)) = Sym("octet", b + i)
  <2>1. 3 + i \in 1 .. z + 5
    BY <1>2
  <2>2. SymbolOf(m, q + (3 + i)) = c[3 + i]
    BY <1>4, <2>1
  <2>3. c[3 + i] = d[i]
    BY <1>1 DEF ChunkOf
  <2> QED
    BY <1>2, <2>2, <2>3
<1>11. LineIn(m, q, Sym("size", z)) /\ EndIn(m, e - 2)
  BY <1>7, <1>8, <1>9
<1> QED
  BY <1>10, <1>11 DEF ChunkStands, q, z, b, e

TailStands(m) ==
  /\ LineIn(m, BodyEnd(m), Sym("size", 0))
  /\ m.trailer => LineIn(m, BodyEnd(m) + 3, Sym("field", 0))
  /\ EndIn(m, Size(m) - 2)

LEMMA TailIn ==
  ASSUME NEW m \in Messages, m.framing = "chunked"
  PROVE  TailStands(m)
<1> DEFINE c == LastChunk(m.trailer)
           n == TailLen(m)
           q == BodyEnd(m)
           e == Size(m)
<1>1. m.trailer \in BOOLEAN
  BY DEF Messages
<1>2. LastChunkOf(c, m.trailer)
  BY <1>1, LastChunkIs
<1>3. n = (IF m.trailer THEN 8 ELSE 5)
  BY DEF TailLen
<1>4. Len(c) = n /\ LineAt(c, 0, Sym("size", 0)) /\ (m.trailer => LineAt(c, 3, Sym("field", 0)))
  BY <1>2, <1>3 DEF LastChunkOf
<1>5. EndAt(c, n - 2)
  <2>1. EndAt(c, Len(c) - 2)
    BY <1>2 DEF LastChunkOf
  <2> QED
    BY <1>4, <2>1
<1>6. \A i \in 1 .. n : SymbolOf(m, q + i) = c[i]
  BY TailSymbol
<1>7. q \in Nat /\ e = q + n
  BY EndsAre
<1>8. n \in {5, 8} /\ (m.trailer => n = 8)
  BY <1>3
<1> HIDE DEF c, n, q, e
<1>9. /\ n \in Nat /\ 0 + 3 <= n /\ (m.trailer => 3 + 3 <= n) /\ n - 2 \in Nat
      /\ (n - 2) + 2 <= n /\ q + 0 = q /\ q + (n - 2) = e - 2
  BY <1>7, <1>8
<1>10. LineIn(m, q + 0, Sym("size", 0)) /\ EndIn(m, q + (n - 2))
  BY <1>4, <1>5, <1>6, <1>7, <1>9, PartIn
<1>11. m.trailer => LineIn(m, q + 3, Sym("field", 0))
  BY <1>4, <1>6, <1>7, <1>9, PartIn
<1>12. LineIn(m, q, Sym("size", 0)) /\ EndIn(m, e - 2)
  BY <1>9, <1>10
<1> QED
  BY <1>11, <1>12 DEF TailStands, q, e

\* A body without chunks
LEMMA BodyIn ==
  ASSUME NEW m \in Messages, m.framing # "chunked", NEW i \in 1 .. Total(m)
  PROVE  SymbolOf(m, HeaderEnd(m) + i) = Sym("octet", i)
<1>1. m.sizes \in Seq(Nat) /\ i \in 1 .. Before(m, Len(m.sizes))
  BY DEF Messages, Total
<1>2. PICK j \in 1 .. Len(m.sizes) : Before(m, j - 1) < i /\ i <= Before(m, j)
  BY <1>1, SumsCover
<1> DEFINE b == Before(m, j - 1)
           z == m.sizes[j]
           d == Piece(m, j)
<1>3. Frame(m) = 0 /\ j - 1 \in 0 .. Len(m.sizes) /\ HeaderEnd(m) \in Nat
  BY EndsAre DEF Frame
<1>4. /\ PieceEnd(m, j - 1) = (HeaderEnd(m) + b) + Frame(m) * (j - 1)
      /\ b \in Nat /\ z \in Nat /\ Before(m, j) = b + z
  BY <1>3, EndsAre
<1>5. Frame(m) * (j - 1) = 0
  BY <1>3, EndsAre
<1>6. i \in Nat /\ b < i /\ i <= b + z
  <2>1. Total(m) \in Nat
    BY EndsAre
  <2>2. i \in Nat
    BY <2>1
  <2> QED
    BY <1>2, <1>4, <2>2
<1>7. Encoded(m, j) = d /\ \A k \in 1 .. z : d[k] = Sym("octet", b + k)
  BY EncodedIs, PieceIs DEF OctetsFrom
<1>8. \A k \in 1 .. z + Frame(m) : SymbolOf(m, PieceEnd(m, j - 1) + k) = Encoded(m, j)[k]
  BY PieceSymbol
<1> HIDE DEF b, z, d
<1>9. i - b \in 1 .. z /\ i - b \in 1 .. z + Frame(m) /\ b + (i - b) = i
  BY <1>3, <1>4, <1>6
<1>10. PieceEnd(m, j - 1) + (i - b) = HeaderEnd(m) + i
  BY <1>3, <1>4, <1>5, <1>6
<1>11. SymbolOf(m, PieceEnd(m, j - 1) + (i - b)) = Sym("octet", b + (i - b))
  BY <1>7, <1>8, <1>9
<1> QED
  BY <1>9, <1>10, <1>11

-----------------------------------------------------------------------------
(* Where the messages of the script stand *)

LEMMA MessagesEnd ==
  ASSUME script \in Seq(Messages)
  PROVE  /\ Len(script) \in Nat /\ MessageEnd(0) = 0
         /\ \A k \in 1 .. Len(script) :
              /\ script[k] \in Messages /\ Size(script[k]) \in Nat /\ 5 <= Size(script[k])
              /\ MessageEnd(k) = MessageEnd(k - 1) + Size(script[k])
         /\ \A k \in 0 .. Len(script) : MessageEnd(k) \in Nat
<1>1. Len(script) \in Nat /\ \A k \in 1 .. Len(script) : script[k] \in Messages
  BY LenProperties, ElementOfSeq
<1>2. \A k \in 1 .. Len(script) : Size(script[k]) \in Nat /\ 5 <= Size(script[k])
  <2> SUFFICES ASSUME NEW k \in 1 .. Len(script)
               PROVE  Size(script[k]) \in Nat /\ 5 <= Size(script[k])
    OBVIOUS
  <2> DEFINE m == script[k]
  <2>1. m \in Messages
    BY <1>1
  <2> HIDE DEF m
  <2>2. /\ Size(m) \in Nat /\ Size(m) = BodyEnd(m) + TailLen(m) /\ BodyEnd(m) \in Nat
        /\ HeaderEnd(m) <= BodyEnd(m) /\ TailLen(m) \in {0, 5, 8} /\ 5 <= HeaderEnd(m)
        /\ HeaderEnd(m) \in Nat
    BY <2>1, EndsAre
  <2>3. 5 <= Size(m)
    BY <2>2
  <2> QED
    BY <2>2, <2>3 DEF m
<1> DEFINE n == Len(script)
           z == [k \in 1 .. n |-> Size(script[k])]
<1>3. Lengths.sizes = z
  BY DEF Lengths
<1>4. z \in Seq(Nat) /\ Len(z) = n
  BY <1>1, <1>2
<1>5. Lengths.sizes \in Seq(Nat) /\ Len(Lengths.sizes) = n
  BY <1>3, <1>4
<1>6. /\ Before(Lengths, 0) = 0
      /\ \A j \in 0 .. Len(Lengths.sizes) : Before(Lengths, j) \in Nat
      /\ \A j \in 1 .. Len(Lengths.sizes) :
           Before(Lengths, j) = Before(Lengths, j - 1) + Lengths.sizes[j]
  BY <1>5, Sums
<1>7. \A k \in 1 .. n : Lengths.sizes[k] = Size(script[k])
  BY <1>3
<1> QED
  BY <1>1, <1>2, <1>5, <1>6, <1>7 DEF MessageEnd

LEMMA MessagesGrow ==
  ASSUME script \in Seq(Messages), NEW i \in 0 .. Len(script), NEW j \in i .. Len(script)
  PROVE  MessageEnd(i) <= MessageEnd(j)
<1>1. Len(script) \in Nat /\ \A k \in 1 .. Len(script) : Size(script[k]) \in Nat
  BY MessagesEnd
<1> DEFINE n == Len(script)
           z == [k \in 1 .. n |-> Size(script[k])]
<1>2. Lengths.sizes = z /\ z \in Seq(Nat) /\ Len(z) = n
  BY <1>1 DEF Lengths
<1>3. Lengths.sizes \in Seq(Nat) /\ Len(Lengths.sizes) = n
  BY <1>2
<1> QED
  BY <1>3, SumsGrow DEF MessageEnd

\* The symbols of the k-th message stand behind those of the messages before it
LEMMA MessageSymbol ==
  ASSUME script \in Seq(Messages), NEW k \in 1 .. Len(script), NEW i \in 1 .. Size(script[k])
  PROVE  SymbolAt(MessageEnd(k - 1) + i) = SymbolOf(script[k], i)
<1> DEFINE n == Len(script)
           z == Size(script[k])
           p == MessageEnd(k - 1) + i
           Holds(l) == MessageEnd(l - 1) < p /\ p <= MessageEnd(l)
<1>1. n \in Nat /\ \A l \in 0 .. n : MessageEnd(l) \in Nat
  BY MessagesEnd
<1>2. z \in Nat /\ MessageEnd(k) = MessageEnd(k - 1) + z
  BY MessagesEnd
<1>3. k - 1 \in 0 .. n /\ k \in 0 .. n /\ k \in Nat
  BY <1>1
<1>4. MessageEnd(k - 1) \in Nat /\ MessageEnd(k) \in Nat
  BY <1>1, <1>3
<1>5. i \in Nat /\ 1 <= i /\ i <= z
  BY <1>2
<1> HIDE DEF z
<1>6. Holds(k) /\ p \in Nat /\ p - MessageEnd(k - 1) = i
  BY <1>2, <1>4, <1>5
<1> HIDE DEF p
<1>7. ASSUME NEW l \in 1 .. n, Holds(l) PROVE l = k
  <2>1. l - 1 \in 0 .. n /\ l \in 0 .. n /\ l \in Nat
    BY <1>1
  <2>2. MessageEnd(l - 1) \in Nat /\ MessageEnd(l) \in Nat
    BY <1>1, <2>1
  <2>3. CASE l < k
    <3>1. k - 1 \in l .. n
      BY <1>1, <1>3, <2>1, <2>3
    <3>2. MessageEnd(l) <= MessageEnd(k - 1)
      BY <2>1, <3>1, MessagesGrow
    <3> QED
      BY <1>4, <1>6, <1>7, <2>2, <3>2
  <2>4. CASE k < l
    <3>1. l - 1 \in k .. n
      BY <1>1, <1>3, <2>1, <2>4
    <3>2. MessageEnd(k) <= MessageEnd(l - 1)
      BY <1>3, <3>1, MessagesGrow
    <3> QED
      BY <1>4, <1>6, <1>7, <2>2, <3>2
  <2> QED
    BY <1>3, <2>1, <2>3, <2>4
<1>8. MessageAt(p) = k
  BY <1>6, <1>7 DEF MessageAt
<1>9. SymbolAt(p) = SymbolOf(script[k], i)
  BY <1>6, <1>8 DEF SymbolAt
<1> QED
  BY <1>9 DEF p

LEMMA ScriptStays ==
  ASSUME script' = script
  PROVE  /\ \A k : MessageEnd(k)' = MessageEnd(k)
         /\ \A p : SymbolAt(p)' = SymbolAt(p)
<1>1. Lengths' = Lengths
  BY DEF Lengths
<1>2. \A k : MessageEnd(k)' = MessageEnd(k)
  BY <1>1 DEF MessageEnd
<1>3. \A p : MessageAt(p)' = MessageAt(p)
  BY <1>2 DEF MessageAt
<1> QED
  BY <1>2, <1>3 DEF SymbolAt

-----------------------------------------------------------------------------
(* Stretches of a message *)

LEMMA EmptyStretch ==
  ASSUME NEW m, NEW a \in Nat
  PROVE  Stretch(m, <<>>, a, a)
<1>1. <<>> \in Texts /\ Len(<<>>) = 0
  BY EmptyText
<1> QED
  BY <1>1 DEF Stretch

LEMMA JoinedStretch ==
  ASSUME NEW m, NEW s, NEW t, NEW a, NEW b, NEW c, Stretch(m, s, a, b), Stretch(m, t, b, c)
  PROVE  Stretch(m, Joined(s, t), a, c)
<1> DEFINE u == Joined(s, t)
<1>1. /\ s \in Texts /\ a \in Nat /\ a + Len(s) = b /\ \A i \in 1 .. Len(s) : s[i] = SymbolOf(m, a + i)
      /\ t \in Texts /\ b \in Nat /\ b + Len(t) = c /\ \A i \in 1 .. Len(t) : t[i] = SymbolOf(m, b + i)
  BY DEF Stretch
<1>2. InTurn(s, t, u)
  BY <1>1, JoinedAt
<1> HIDE DEF u
<1>3. u \in Texts /\ Len(u) = Len(s) + Len(t) /\ Len(s) \in Nat /\ Len(t) \in Nat
  BY <1>2 DEF InTurn
<1>4. a + Len(u) = c
  BY <1>1, <1>3
<1>5. ASSUME NEW i \in 1 .. Len(u) PROVE u[i] = SymbolOf(m, a + i)
  <2>1. CASE i <= Len(s)
    <3>1. i \in 1 .. Len(s)
      BY <1>3, <2>1
    <3> QED
      BY <1>1, <1>2, <3>1 DEF InTurn
  <2>2. CASE ~(i <= Len(s))
    <3> DEFINE k == i - Len(s)
    <3>3. b = a + Len(s) /\ a \in Nat
      BY <1>1
    <3>4. Len(u) \in Nat /\ i \in 1 .. Len(s) + Len(t)
      BY <1>3
    <3>1. k \in 1 .. Len(t) /\ Len(s) + k = i /\ b + k = a + i
      BY <1>3, <2>2, <3>3, <3>4
    <3>2. u[Len(s) + k] = t[k] /\ t[k] = SymbolOf(m, b + k)
      BY <1>1, <1>2, <3>1 DEF InTurn
    <3> QED
      BY <3>1, <3>2
  <2> QED
    BY <2>1, <2>2
<1> QED
  BY <1>1, <1>3, <1>4, <1>5 DEF Stretch, u

LEMMA CutStretch ==
  ASSUME NEW m, NEW s, NEW a, NEW e, Stretch(m, s, a, e), NEW n \in 0 .. Len(s)
  PROVE  /\ Stretch(m, SubSeq(s, 1, n), a, a + n)
         /\ Stretch(m, SubSeq(s, n + 1, Len(s)), a + n, e)
         /\ Len(SubSeq(s, n + 1, Len(s))) = Len(s) - n
<1>1. /\ s \in Seq(Symbols) /\ a \in Nat /\ a + Len(s) = e
      /\ \A i \in 1 .. Len(s) : s[i] = SymbolOf(m, a + i)
  BY DEF Stretch, Texts
<1>2. Len(s) \in Nat /\ n \in Nat /\ n <= Len(s) /\ a + n \in Nat
  BY <1>1, LenProperties
<1> DEFINE f == SubSeq(s, 1, n)
           r == SubSeq(s, n + 1, Len(s))
<1>3. f \in Texts /\ r \in Texts
  BY <1>1, <1>2, CutInTwo DEF Texts
<1>4. Len(f) = n /\ \A i \in 1 .. n : f[i] = s[i]
  BY <1>1, <1>2
<1>5. Len(r) = Len(s) - n /\ \A i \in 1 .. Len(s) - n : r[i] = s[n + i]
  BY <1>1, <1>2
<1> HIDE DEF f, r
<1>6. \A i \in 1 .. n : f[i] = SymbolOf(m, a + i)
  <2>1. \A i \in 1 .. n : i \in 1 .. Len(s)
    BY <1>2
  <2> QED
    BY <1>1, <1>4, <2>1
<1>7. \A i \in 1 .. Len(s) - n : r[i] = SymbolOf(m, (a + n) + i)
  <2>1. \A i \in 1 .. Len(s) - n : n + i \in 1 .. Len(s) /\ a + (n + i) = (a + n) + i
    BY <1>1, <1>2
  <2> QED
    BY <1>1, <1>5, <2>1
<1>8. (a + n) + Len(r) = e
  BY <1>1, <1>2, <1>5
<1> QED
  BY <1>2, <1>3, <1>4, <1>5, <1>6, <1>7, <1>8 DEF Stretch, f, r

LEMMA HeaderStretch ==
  ASSUME NEW m \in Messages
  PROVE  Stretch(m, Header(m), 0, HeaderEnd(m)) /\ HeaderEnd(m) = PieceEnd(m, 0)
<1>1. Header(m) \in Texts /\ Len(Header(m)) = HeaderEnd(m)
  BY HeaderIs
<1>2. HeaderEnd(m) \in Nat /\ HeaderEnd(m) = PieceEnd(m, 0)
  BY EndsAre
<1>3. ASSUME NEW i \in 1 .. HeaderEnd(m) PROVE Header(m)[i] = SymbolOf(m, 0 + i)
  <2>1. 0 + i = i
    BY <1>2
  <2> QED
    BY <2>1, HeaderSymbol
<1> QED
  BY <1>1, <1>2, <1>3 DEF Stretch

LEMMA PieceStretch ==
  ASSUME NEW m \in Messages, NEW j \in 1 .. Len(m.sizes)
  PROVE  Stretch(m, Encoded(m, j), PieceEnd(m, j - 1), PieceEnd(m, j))
<1>1. Encoded(m, j) \in Texts /\ Len(Encoded(m, j)) = m.sizes[j] + Frame(m)
  BY EncodedIs
<1>2. j - 1 \in 0 .. Len(m.sizes)
  BY EndsAre
<1>3. /\ PieceEnd(m, j - 1) \in Nat /\ m.sizes[j] \in Nat /\ Frame(m) \in {0, 5}
      /\ PieceEnd(m, j) = (PieceEnd(m, j - 1) + m.sizes[j]) + Frame(m)
  BY <1>2, EndsAre
<1>4. PieceEnd(m, j - 1) + Len(Encoded(m, j)) = PieceEnd(m, j)
  BY <1>1, <1>3
<1> QED
  BY <1>1, <1>3, <1>4, PieceSymbol DEF Stretch

LEMMA TailStretch ==
  ASSUME NEW m \in Messages, m.framing = "chunked"
  PROVE  Stretch(m, LastChunk(m.trailer), BodyEnd(m), Size(m))
<1>1. m.trailer \in BOOLEAN
  BY DEF Messages
<1>2. LastChunkOf(LastChunk(m.trailer), m.trailer)
  BY <1>1, LastChunkIs
<1>3. TailLen(m) = (IF m.trailer THEN 8 ELSE 5)
  BY DEF TailLen
<1>4. LastChunk(m.trailer) \in Texts /\ Len(LastChunk(m.trailer)) = TailLen(m)
  BY <1>2, <1>3 DEF LastChunkOf
<1>5. BodyEnd(m) \in Nat /\ Size(m) = BodyEnd(m) + TailLen(m)
  BY EndsAre
<1> QED
  BY <1>4, <1>5, TailSymbol DEF Stretch

\* Without chunks the message ends where its body does
LEMMA NoTail ==
  ASSUME NEW m \in Messages, m.framing # "chunked"
  PROVE  Size(m) = BodyEnd(m) /\ BodyEnd(m) = HeaderEnd(m) + Total(m)
<1>1. TailLen(m) = 0 /\ Frame(m) = 0
  BY DEF TailLen, Frame
<1>2. /\ BodyEnd(m) \in Nat /\ Size(m) = BodyEnd(m) + TailLen(m) /\ Len(m.sizes) \in 0 .. Len(m.sizes)
      /\ BodyEnd(m) = PieceEnd(m, Len(m.sizes)) /\ Total(m) = Before(m, Len(m.sizes))
      /\ Len(m.sizes) \in Nat /\ HeaderEnd(m) \in Nat
  BY EndsAre
<1>3. /\ PieceEnd(m, Len(m.sizes)) = (HeaderEnd(m) + Before(m, Len(m.sizes))) + Frame(m) * Len(m.sizes)
      /\ Before(m, Len(m.sizes)) \in Nat
  BY <1>2, EndsAre
<1>4. Frame(m) * Len(m.sizes) = 0
  BY <1>1, <1>2
<1> QED
  BY <1>1, <1>2, <1>3, <1>4

-----------------------------------------------------------------------------
(* What the serializer shows *)

\* What get returns when G of the buffers have been handed out
GetsAt(g, w, G) ==
  /\ Msg.writer = "string" => g.r = "buffer" /\ ~g.more /\ g.w = w
  /\ g.r = "buffer" => /\ G + 1 \in 1 .. Len(Msg.sizes) /\ g.d = Piece(Msg, G + 1)
                       /\ ~g.more => G + 1 = Len(Msg.sizes)
                       /\ Msg.writer # "string" => Count(g.w, FALSE) = G + 1
  /\ g.r = "none" => g.w = w /\ G = Len(Msg.sizes)
  /\ g.r = "need_buffer" => Count(g.w, TRUE) = G /\ ~g.w.toggle
  /\ Msg.writer = "buffer" => BufferAt(g.w)

LEMMA Answers ==
  ASSUME NEW d, NEW more, NEW w
  PROVE  /\ Nothing(w).r = "none" /\ Nothing(w).w = w
         /\ NeedBuffer(w).r = "need_buffer" /\ NeedBuffer(w).w = w
         /\ Buffer(d, more, w).r = "buffer" /\ Buffer(d, more, w).d = d
         /\ Buffer(d, more, w).more = more /\ Buffer(d, more, w).w = w
  BY DEF Nothing, NeedBuffer, Buffer

LEMMA GivesNothing ==
  ASSUME NEW w, NEW G, Msg.writer # "string", G = Len(Msg.sizes),
         Msg.writer = "buffer" => BufferAt(w)
  PROVE  GetsAt(Nothing(w), w, G)
<1> DEFINE g == Nothing(w)
<1>1. g.r = "none" /\ g.w = w
  BY Answers
<1> HIDE DEF g
<1>2. GetsAt(g, w, G)
  BY <1>1 DEF GetsAt
<1> QED
  BY <1>2 DEF g

LEMMA GivesNone ==
  ASSUME NEW w, NEW u, NEW G, Msg.writer = "buffer", Count(u, TRUE) = G, BufferAt(u), ~u.toggle
  PROVE  GetsAt(NeedBuffer(u), w, G)
<1> DEFINE g == NeedBuffer(u)
<1>1. g.r = "need_buffer" /\ g.w = u
  BY Answers
<1> HIDE DEF g
<1>2. GetsAt(g, w, G)
  BY <1>1 DEF GetsAt
<1> QED
  BY <1>2 DEF g

LEMMA GivesPiece ==
  ASSUME NEW w, NEW u, NEW G, NEW k, k = G + 1, k \in 1 .. Len(Msg.sizes), NEW more,
         NEW d, d = Piece(Msg, k), ~more => k = Len(Msg.sizes),
         Msg.writer = "string" => ~more /\ u = w,
         Msg.writer # "string" => Count(u, FALSE) = k,
         Msg.writer = "buffer" => BufferAt(u)
  PROVE  GetsAt(Buffer(d, more, u), w, G)
<1> DEFINE g == Buffer(d, more, u)
<1>1. g.r = "buffer" /\ g.w = u /\ g.d = d /\ g.more = more
  BY Answers
<1> HIDE DEF g
<1>2. GetsAt(g, w, G)
  BY <1>1 DEF GetsAt
<1> QED
  BY <1>2 DEF g

LEMMA GetAt ==
  ASSUME SenderTypes, Fits(Msg), NEW w, Serializes(w), BufferAt(w), Msg.writer # "chunks",
         Msg.writer = "string" => w.s \in {"construct", "body"}
  PROVE  GetsAt(Get(w), w, Given(w, FALSE))
<1> DEFINE n == Len(Msg.sizes)
           G == Given(w, FALSE)
<1>1. /\ Msg \in Messages /\ n \in Nat /\ w \in Sers /\ w.piece \in Nat
      /\ w.data \in BOOLEAN /\ w.toggle \in BOOLEAN /\ w.last \in BOOLEAN
  BY MsgType DEF Serializes, Sers
<1> HIDE DEF G
<1>2. CASE Msg.writer = "string"
  <2>1. n = 1 /\ G = 0
    BY <1>2 DEF Fits, Given, G
  <2>2. Before(Msg, 0) = 0 /\ Msg.sizes[1] \in Nat /\ Before(Msg, 1) = Before(Msg, 1 - 1) + Msg.sizes[1]
    <3>1. Msg.sizes \in Seq(Nat) /\ 1 \in 1 .. n
      BY <1>1, <2>1 DEF Messages
    <3> QED
      BY <3>1, Sums
  <2>3. Total(Msg) = Msg.sizes[1] /\ Before(Msg, 1 - 1) = 0
    BY <2>1, <2>2 DEF Total
  <2>4. \A i \in 1 .. Msg.sizes[1] : 0 + i = i
    BY <2>2
  <2>5. Body(Msg) = Piece(Msg, 1)
    BY <2>3, <2>4 DEF Body, Piece
  <2>6. Get(w) = Buffer(Body(Msg), FALSE, w)
    BY <1>2 DEF Get
  <2>7. 0 + 1 = 1 /\ 1 \in 1 .. 1
    OBVIOUS
  <2> QED
    BY <1>2, <2>1, <2>5, <2>6, <2>7, GivesPiece DEF G
<1>3. CASE Msg.writer = "empty"
  <2>1. Get(w) = Nothing(w) /\ n = 0 /\ G = 0
    BY <1>3 DEF Get, Fits, Given, G
  <2> QED
    BY <1>3, <2>1, GivesNothing DEF G
<1>4. CASE Msg.writer = "file"
  <2>1. G = w.piece + 0 /\ Count(w, FALSE) = w.piece + 0 /\ w.piece <= n
    BY <1>4 DEF Given, Count, Serializes, G
  <2>2. CASE w.piece = n
    <3>1. Get(w) = Nothing(w)
      BY <1>4, <2>2 DEF Get
    <3>2. G = n
      BY <1>1, <2>1, <2>2
    <3> QED
      BY <1>4, <3>1, <3>2, GivesNothing DEF G
  <2>3. CASE w.piece # n
    <3> DEFINE k == w.piece + 1
               u == [w EXCEPT !.piece = k]
    <3>1. Get(w) = Buffer(Piece(Msg, k), k < n, u)
      BY <1>4, <2>3 DEF Get
    <3>10. w.piece \in Nat /\ n \in Nat
      BY <1>1
    <3>2. k \in 1 .. n /\ k \in Nat /\ G + 1 = k /\ (~(k < n) => k = n) /\ k + 0 = k
      BY <2>1, <2>3, <3>10
    <3>3. u.piece = k
      BY <1>1 DEF Sers
    <3> HIDE DEF u, k
    <3>4. Count(u, FALSE) = k
      BY <1>4, <3>2, <3>3 DEF Count
    <3> QED
      BY <1>4, <3>1, <3>2, <3>4, GivesPiece DEF G
  <2> QED
    BY <2>2, <2>3
<1>5. CASE Msg.writer = "buffer"
  <2>1. G = Count(w, FALSE)
    BY <1>5 DEF Given, G
  <2>2. /\ w.last => w.piece + (IF w.data THEN 1 ELSE 0) = n
        /\ w.toggle => w.data
    BY <1>5 DEF BufferAt
  <2>3. CASE w.toggle
    <3>1. w.data /\ G = w.piece + 1
      BY <1>5, <2>1, <2>2, <2>3 DEF Count
    <3>2. CASE w.last
      <4>1. Get(w) = Nothing(w)
        BY <1>5, <2>3, <3>2 DEF Get
      <4>2. G = n
        BY <2>2, <3>1, <3>2
      <4> QED
        BY <1>5, <4>1, <4>2, GivesNothing DEF G
    <3>3. CASE ~w.last
      <4> DEFINE u == [w EXCEPT !.toggle = FALSE]
      <4>1. Get(w) = NeedBuffer(u)
        BY <1>5, <2>3, <3>3 DEF Get
      <4>2. u.piece = w.piece /\ u.data = w.data /\ u.last = w.last /\ u.toggle = FALSE
        BY <1>1 DEF Sers
      <4> HIDE DEF u
      <4>3. Count(u, TRUE) = G
        BY <1>5, <3>1, <4>2 DEF Count
      <4>4. BufferAt(u)
        BY <3>3, <4>2 DEF BufferAt
      <4> QED
        BY <1>5, <4>1, <4>2, <4>3, <4>4, GivesNone DEF G
    <3> QED
      BY <3>2, <3>3
  <2>4. CASE ~w.toggle /\ w.data
    <3> DEFINE k == w.piece + 1
               u == [w EXCEPT !.toggle = TRUE]
    <3>1. Get(w) = Buffer(Piece(Msg, k), ~w.last, u)
      BY <1>5, <2>4 DEF Get
    <3>2. G = w.piece + 0
      BY <1>5, <2>1, <2>4 DEF Count
    <3>3. w.piece < n
      BY <1>5, <2>4 DEF Serializes
    <3>10. w.piece \in Nat /\ n \in Nat
      BY <1>1
    <3>4. k \in 1 .. n /\ k \in Nat /\ G + 1 = k
      BY <3>2, <3>3, <3>10
    <3>5. u.piece = w.piece /\ u.data = w.data /\ u.last = w.last /\ u.toggle = TRUE
      BY <1>1 DEF Sers
    <3> HIDE DEF u
    <3>6. Count(u, FALSE) = G + 1
      BY <1>5, <2>4, <3>4, <3>5 DEF Count
    <3>7. BufferAt(u)
      BY <1>5, <2>2, <2>4, <3>5 DEF BufferAt
    <3>8. ~(~w.last) => k = n
      BY <2>2, <2>4
    <3> HIDE DEF k
    <3>9. Count(u, FALSE) = k
      BY <3>4, <3>6
    <3> QED
      BY <1>5, <3>1, <3>4, <3>7, <3>8, <3>9, GivesPiece DEF G
  <2>5. CASE ~w.toggle /\ ~w.data
    <3>1. Get(w) = IF w.last THEN Nothing(w) ELSE NeedBuffer(w)
      BY <1>5, <2>5 DEF Get
    <3>2. G = w.piece + 0 /\ Count(w, TRUE) = w.piece + 0
      BY <1>5, <2>1, <2>5 DEF Count
    <3>3. w.last => G = n
      BY <1>1, <2>2, <2>5, <3>2
    <3>4. Count(w, TRUE) = G
      BY <3>2
    <3> QED
      BY <1>5, <2>5, <3>1, <3>3, <3>4, GivesNothing, GivesNone DEF G
  <2> QED
    BY <1>1, <2>3, <2>4, <2>5
<1> QED
  BY <1>1, <1>2, <1>3, <1>4, <1>5 DEF Messages

\* x and w have handed out the same buffers
SameWriter(x, w) ==
  x.piece = w.piece /\ x.data = w.data /\ x.toggle = w.toggle /\ x.last = w.last

LEMMA SameCounts ==
  ASSUME NEW x, NEW w, SameWriter(x, w)
  PROVE  /\ BufferAt(w) => BufferAt(x)
         /\ \A b : Count(x, b) = Count(w, b)
  BY DEF SameWriter, BufferAt, Count

\* The serializer x shows the buffer that get has returned
LEMMA ShowsBuffer ==
  ASSUME SenderTypes, Fits(Msg), Msg.writer # "chunks", NEW w, NEW g, NEW G \in Nat,
         GetsAt(g, w, G), g.r = "buffer", NEW x, SameWriter(x, g.w), x.more = g.more,
         x.s \in {"header", "body2", "all", "body_final"},
         x.s \in {"all", "body_final"} => Chunked, NEW k,
         Stretch(Msg, x.view, k,
                 IF x.s \in {"header", "body2"} THEN PieceEnd(Msg, G + 1) ELSE Size(Msg))
  PROVE  SerAt(x, FALSE, k)
<1>1. Msg \in Messages /\ Len(Msg.sizes) \in Nat
  BY MsgType
<1>2. /\ G + 1 \in 1 .. Len(Msg.sizes) /\ (~g.more => G + 1 = Len(Msg.sizes))
      /\ Msg.writer # "string" => Count(g.w, FALSE) = G + 1
      /\ Msg.writer = "string" => ~g.more
      /\ Msg.writer = "buffer" => BufferAt(g.w)
  BY DEF GetsAt
<1>3. BufferAt(x)
  BY <1>2, SameCounts DEF BufferAt
<1>4. Given(x, FALSE) = G + 1
  <2>1. CASE Msg.writer = "string"
    <3>1. Len(Msg.sizes) = 1
      BY <2>1 DEF Fits
    <3>2. G + 1 = 1
      BY <1>2, <3>1
    <3> QED
      BY <2>1, <3>2 DEF Given
  <2>2. CASE Msg.writer = "empty"
    <3>1. Len(Msg.sizes) = 0
      BY <2>2 DEF Fits
    <3> QED
      BY <1>2, <3>1
  <2>3. CASE Msg.writer \in {"file", "buffer"}
    BY <1>2, <2>3, SameCounts DEF Given
  <2> QED
    BY <1>1, <2>1, <2>2, <2>3 DEF Messages
<1>5. WriterAt(x)
  BY <1>2, <1>3 DEF WriterAt
<1>6. Given(x, FALSE) \in 0 .. Len(Msg.sizes)
  <2>1. G + 1 \in 1 .. Len(Msg.sizes) /\ Len(Msg.sizes) \in Nat
    BY <1>1, <1>2
  <2>2. G + 1 \in 0 .. Len(Msg.sizes)
    BY <2>1
  <2> QED
    BY <1>4, <2>2
<1>7. ShownTo(x, FALSE) = IF x.s \in {"header", "body2"} THEN PieceEnd(Msg, G + 1) ELSE Size(Msg)
  BY <1>4 DEF ShownTo
<1>8. x.s \notin {"construct", "init", "header_only", "final", "final1", "complete", "body", "body1"}
  OBVIOUS
<1>9. Stretch(Msg, x.view, k, ShownTo(x, FALSE))
  BY <1>7
<1>10. ~x.more => Given(x, FALSE) = Len(Msg.sizes)
  BY <1>2, <1>4
<1> QED
  BY <1>5, <1>6, <1>8, <1>9, <1>10 DEF SerAt

\* The header is shown alone
HeaderShown(x, w) ==
  /\ SameWriter(x, w) /\ x.s = "header_only" /\ x.view = Header(Msg) /\ x.split = w.split
  /\ ~w.split => Len(Msg.sizes) = 0

LEMMA ShowsHeader ==
  ASSUME SenderTypes, NEW w, NEW k, SerAt(w, FALSE, k), w.s \in {"construct", "init"},
         w.view = <<>>, NEW x, HeaderShown(x, w)
  PROVE  SerAt(x, FALSE, k)
<1>0. /\ SameWriter(x, w) /\ x.s = "header_only" /\ x.view = Header(Msg) /\ x.split = w.split
      /\ ~w.split => Len(Msg.sizes) = 0
  BY DEF HeaderShown
<1>1. Msg \in Messages
  BY MsgType
<1>2. WriterAt(w) /\ Stretch(Msg, <<>>, k, 0) /\ Given(w, FALSE) = 0
  BY DEF SerAt, ShownTo
<1>3. k = 0
  BY <1>2 DEF Stretch
<1>4. /\ BufferAt(x) /\ Count(x, FALSE) = Count(w, FALSE)
  BY <1>0, <1>2, SameCounts DEF WriterAt
<1>5. Given(x, FALSE) = 0
  BY <1>0, <1>2, <1>4 DEF Given
<1>6. x.s \notin {"construct", "init", "body", "body1", "body2", "header", "final", "final1", "all",
                  "body_final", "complete"}
  BY <1>0
<1>7. WriterAt(x)
  <2>1. Msg.writer = "chunks" => w.s = "construct" /\ w.piece = 0
    BY <1>2 DEF WriterAt
  <2> QED
    BY <1>0, <1>4, <1>6, <2>1 DEF WriterAt, SameWriter
<1>8. Stretch(Msg, x.view, k, ShownTo(x, FALSE))
  BY <1>0, <1>1, <1>3, HeaderStretch DEF ShownTo
<1>9. 0 \in 0 .. Len(Msg.sizes)
  BY MsgType
<1> QED
  BY <1>0, <1>5, <1>6, <1>7, <1>8, <1>9 DEF SerAt

\* The writer waits for the next buffer
LEMMA ShowsNothing ==
  ASSUME SenderTypes, NEW w, NEW k, SerAt(w, FALSE, k), Msg.writer = "buffer",
         w.s \in {"construct", "init", "body", "body1"},
         NEW g, GetsAt(g, w, Given(w, FALSE)), g.r = "need_buffer", NEW x, SameWriter(x, g.w),
         x.view = w.view, x.s = IF w.s \in {"construct", "init"} THEN "init" ELSE "body1"
  PROVE  SerAt(x, TRUE, k)
<1>1. Stretch(Msg, w.view, k, ShownTo(w, FALSE)) /\ Given(w, FALSE) \in 0 .. Len(Msg.sizes)
  BY DEF SerAt
<1>2. Count(x, TRUE) = Given(w, FALSE) /\ BufferAt(x) /\ ~x.toggle
  BY SameCounts DEF GetsAt, SameWriter
<1>3. Given(x, TRUE) = Given(w, FALSE)
  BY <1>2 DEF Given
<1>4. WriterAt(x)
  BY <1>2 DEF WriterAt
<1>5. CASE w.s \in {"construct", "init"}
  <2>1. x.s = "init" /\ Given(w, FALSE) = 0
    BY <1>5 DEF SerAt
  <2>2. ShownTo(x, TRUE) = ShownTo(w, FALSE)
    BY <1>5, <2>1 DEF ShownTo
  <2> QED
    BY <1>1, <1>2, <1>3, <1>4, <2>1, <2>2 DEF SerAt
<1>6. CASE w.s \in {"body", "body1"}
  <2>1. x.s = "body1"
    BY <1>6
  <2>2. ShownTo(x, TRUE) = ShownTo(w, FALSE)
    BY <1>3, <1>6, <2>1 DEF ShownTo
  <2> QED
    BY <1>1, <1>2, <1>3, <1>4, <2>1, <2>2 DEF SerAt
<1> QED
  BY <1>5, <1>6

\* The end of a body, and of a message in chunks
LEMMA ShowsEnd ==
  ASSUME SenderTypes, Fits(Msg), NEW w, NEW k, SerAt(w, FALSE, k), w.view = <<>>,
         Msg.writer # "chunks",
         \/ w.s \in {"body", "body1"} /\ Given(w, FALSE) = Len(Msg.sizes)
         \/ w.s = "final",
         NEW x, SameWriter(x, w),
         \/ x.s = "complete" /\ ~Chunked /\ x.view = <<>>
         \/ x.s = "final1" /\ Chunked /\ x.view = LastChunk(FALSE)
  PROVE  SerAt(x, FALSE, k)
<1>1. Msg \in Messages /\ Len(Msg.sizes) \in Nat
  BY MsgType
<1>2. Stretch(Msg, <<>>, k, BodyEnd(Msg)) /\ WriterAt(w)
  <2>1. ShownTo(w, FALSE) = BodyEnd(Msg)
    BY DEF ShownTo, BodyEnd
  <2> QED
    BY <2>1 DEF SerAt
<1>3. BodyEnd(Msg) \in Nat /\ k = BodyEnd(Msg)
  <2>1. k \in Nat /\ k + Len(<<>>) = BodyEnd(Msg)
    BY <1>2 DEF Stretch
  <2> QED
    BY <2>1, EmptyText
<1>4. BufferAt(x) /\ Count(x, FALSE) = Count(w, FALSE)
  BY <1>2, SameCounts DEF WriterAt
<1>5. WriterAt(x)
  BY <1>4 DEF WriterAt
<1>6. CASE x.s = "complete" /\ ~Chunked /\ x.view = <<>>
  <2>1. Size(Msg) = BodyEnd(Msg) /\ ShownTo(x, FALSE) = Size(Msg)
    BY <1>1, <1>6, NoTail DEF Chunked, ShownTo
  <2> QED
    BY <1>2, <1>5, <1>6, <2>1 DEF SerAt
<1>7. CASE x.s = "final1" /\ Chunked /\ x.view = LastChunk(FALSE)
  <2>1. ShownTo(x, FALSE) = Size(Msg)
    BY <1>7 DEF ShownTo
  <2>2. Msg.trailer = FALSE /\ Msg.framing = "chunked"
    BY <1>1, <1>7 DEF Fits, Chunked, Messages
  <2>3. Stretch(Msg, x.view, k, Size(Msg))
    BY <1>1, <1>3, <1>7, <2>2, TailStretch
  <2>4. Given(x, FALSE) \in 0 .. Len(Msg.sizes)
    <3>1. Given(w, FALSE) \in 0 .. Len(Msg.sizes)
      BY DEF SerAt
    <3>2. CASE Msg.writer = "string"
      <4>1. Given(x, FALSE) = 1 /\ Len(Msg.sizes) = 1
        BY <1>7, <3>2 DEF Given, Fits
      <4>2. 1 \in 0 .. 1
        OBVIOUS
      <4> QED
        BY <4>1, <4>2
    <3>3. CASE Msg.writer # "string"
      <4>1. Given(x, FALSE) = Given(w, FALSE)
        BY <1>4, <3>3 DEF Given
      <4> QED
        BY <3>1, <4>1
    <3> QED
      BY <3>2, <3>3
  <2> QED
    BY <1>5, <1>7, <2>1, <2>3, <2>4 DEF SerAt
<1> QED
  BY <1>6, <1>7

\* What next shows, and what it leaves to be asked for
AdvancedAt(x, k) ==
  /\ SerAt(x.w, x.ec = "need_buffer", k)
  /\ x.ec = "need_buffer" => x.w.s \in {"init", "body1"}

VisitsIs(x, w, s, v) ==
  /\ x.ec = "" /\ x.w.s = s /\ x.w.view = v /\ x.w.more = w.more /\ x.w.split = w.split
  /\ SameWriter(x.w, w)

LEMMA VisitsAt ==
  ASSUME SenderTypes, NEW w \in Sers, NEW s \in Visiting, NEW v \in Blocks
  PROVE  VisitsIs(Visits(w, s, v), w, s, v)
<1>1. [w EXCEPT !.s = s, !.view = v] \in Sers
  BY DEF Sers
<1>2. /\ Visits(w, s, v).ec = "" /\ Visits(w, s, v).w.s = s /\ Visits(w, s, v).w.view = v
      /\ Visits(w, s, v).w.more = w.more /\ Visits(w, s, v).w.split = w.split
  BY <1>1 DEF Visits, Sers
<1>3. SameWriter(Visits(w, s, v).w, w)
  BY <1>1 DEF Visits, Sers, SameWriter
<1> QED
  BY <1>2, <1>3 DEF VisitsIs

LEMMA NextAt ==
  ASSUME SenderTypes, Fits(Msg), NEW w, Serializes(w), w.s # "complete", NEW k,
         SerAt(w, FALSE, k),
         Msg.writer = "chunks" => w.split /\ w.s \in {"construct", "header_only"}
  PROVE  AdvancedAt(SerNext(w), k)
<1> DEFINE g == Get(w)
           w1 == [g.w EXCEPT !.more = g.more]
           G == Given(w, FALSE)
<1>1. Msg \in Messages /\ w \in Sers /\ (w.s \in Quiet => w.view = <<>>)
  BY MsgType DEF Serializes
<1>2. /\ g.r \in {"none", "buffer", "need_buffer"} /\ g.d \in Blocks /\ g.more \in BOOLEAN
      /\ g.r = "need_buffer" => Msg.writer = "buffer"
      /\ Serializes(g.w) /\ g.w.s = w.s /\ g.w.view = w.view
      /\ g.w.split = w.split /\ g.w.done = w.done
  BY GetGives
<1>3. WriterAt(w) /\ BufferAt(w) /\ Stretch(Msg, w.view, k, ShownTo(w, FALSE))
  BY DEF SerAt, WriterAt
<1>4. ASSUME Msg.writer # "chunks", w.s \in {"construct", "init", "body", "body1"}
      PROVE  GetsAt(g, w, G) /\ G \in 0 .. Len(Msg.sizes) /\ G \in Nat
  <2>1. Msg.writer = "string" => w.s \in {"construct", "body"}
    BY <1>3, <1>4 DEF WriterAt
  <2>2. GetsAt(g, w, G)
    BY <1>3, <1>4, <2>1, GetAt
  <2>3. G \in 0 .. Len(Msg.sizes)
    BY <1>4 DEF SerAt
  <2>4. Len(Msg.sizes) \in Nat
    BY MsgType
  <2> HIDE DEF G, g
  <2>5. G \in Nat
    BY <2>3, <2>4
  <2> QED
    BY <2>2, <2>3, <2>5
<1>5. w1 \in Sers /\ w1.more = g.more /\ SameWriter(w1, g.w) /\ g.w \in Sers
  <2>1. g.w \in Sers
    BY <1>2 DEF Serializes
  <2> HIDE DEF g
  <2> QED
    BY <1>2, <2>1 DEF Sers, SameWriter
<1>6. /\ Header(Msg) \in Blocks /\ Chunk(g.d) \in Blocks /\ LastChunk(FALSE) \in Blocks
  BY <1>1, <1>2, HeaderBlock, ChunkBlock
<1>7. {"header", "header_only", "all", "body2", "final1", "body_final"} = Visiting
  BY DEF Visiting
<1>8. \A a \in Blocks, b \in Blocks : a \o b \in Blocks
  BY JoinedBlocks
<1>9. /\ Header(Msg) \o g.d \in Blocks /\ Header(Msg) \o Chunk(g.d) \in Blocks
      /\ (Header(Msg) \o Chunk(g.d)) \o LastChunk(FALSE) \in Blocks
      /\ Chunk(g.d) \o LastChunk(FALSE) \in Blocks
  BY <1>2, <1>6, <1>8
<1>10. ASSUME Msg.writer # "chunks", w.s \in {"construct", "init", "body", "body1"}, g.r = "buffer"
       PROVE  LET e == IF Chunked THEN Chunk(g.d) ELSE g.d IN
              /\ Stretch(Msg, e, PieceEnd(Msg, G), PieceEnd(Msg, G + 1))
              /\ ~g.more => G + 1 = Len(Msg.sizes)
  <2>1. /\ GetsAt(g, w, G) /\ G \in Nat
    BY <1>4, <1>10
  <2>2. G + 1 \in 1 .. Len(Msg.sizes) /\ g.d = Piece(Msg, G + 1) /\ (~g.more => G + 1 = Len(Msg.sizes))
    BY <1>10, <2>1 DEF GetsAt
  <2>3. (G + 1) - 1 = G
    <3> HIDE DEF G
    <3> QED
      BY <2>1
  <2> HIDE DEF g, G
  <2>4. Encoded(Msg, G + 1) = IF Chunked THEN Chunk(g.d) ELSE g.d
    BY <2>2 DEF Encoded, Chunked
  <2>5. Stretch(Msg, Encoded(Msg, G + 1), PieceEnd(Msg, (G + 1) - 1), PieceEnd(Msg, G + 1))
    BY <1>1, <2>2, PieceStretch
  <2> QED
    BY <2>2, <2>3, <2>4, <2>5
<1>11. ASSUME Chunked, Msg.writer # "chunks"
       PROVE  Stretch(Msg, LastChunk(FALSE), PieceEnd(Msg, Len(Msg.sizes)), Size(Msg))
  <2>1. Msg.trailer = FALSE /\ Msg.framing = "chunked"
    BY <1>1, <1>11 DEF Fits, Chunked, Messages
  <2> QED
    BY <1>1, <2>1, TailStretch DEF BodyEnd
<1>12. CASE w.s \in {"construct", "init"}
  <2>1. SerNext(w) = NextInit(w)
    BY <1>12 DEF SerNext
  <2>2. G = 0 /\ k = 0 /\ w.view = <<>>
    <3>1. G = 0 /\ Stretch(Msg, w.view, k, 0)
      BY <1>3, <1>12 DEF SerAt, ShownTo
    <3>2. w.view = <<>>
      BY <1>1, <1>12 DEF Quiet
    <3>3. k \in Nat /\ k + Len(<<>>) = 0
      BY <3>1, <3>2 DEF Stretch
    <3> HIDE DEF G
    <3> QED
      BY <3>1, <3>2, <3>3, EmptyText
  <2>3. CASE w.split
    <3>1. SerNext(w) = Visits(w, "header_only", Header(Msg))
      BY <2>1, <2>3 DEF NextInit, HeaderFirst, HeaderOnly
    <3> DEFINE x == SerNext(w)
    <3>2. x.ec = "" /\ x.w.s = "header_only" /\ x.w.view = Header(Msg) /\ x.w.split = w.split /\ SameWriter(x.w, w)
      <4>1. VisitsIs(Visits(w, "header_only", Header(Msg)), w, "header_only", Header(Msg))
        BY <1>1, <1>6, <1>7, <3>1, VisitsAt
      <4> QED
        BY <1>1, <1>6, <1>7, <3>1, <4>1 DEF VisitsIs
    <3> HIDE DEF x
    <3>3. SerAt(x.w, FALSE, k)
      <4>1. SerAt(w, FALSE, k) /\ w.view = <<>> /\ w.s \in {"construct", "init"}
        BY <1>12, <2>2
      <4>2. HeaderShown(x.w, w)
        BY <2>3, <3>2 DEF HeaderShown
      <4> QED
        BY <4>1, <4>2, ShowsHeader
    <3> QED
      BY <3>2, <3>3 DEF AdvancedAt, x
  <2>4. CASE ~w.split
    <3>0. Msg.writer # "chunks" /\ GetsAt(g, w, G)
      BY <1>4, <1>12, <2>4
    <3>1. CASE g.r = "none"
      <4>1. SerNext(w) = Visits(w, "header_only", Header(Msg))
        <5>1. SerNext(w) = HeaderOnly(g.w)
          BY <2>1, <2>4, <3>1 DEF NextInit, HeaderFirst
        <5>2. g.w = w
          BY <3>0, <3>1 DEF GetsAt
        <5> QED
          BY <5>1, <5>2 DEF HeaderOnly
      <4> DEFINE x == SerNext(w)
      <4>2. x.ec = "" /\ x.w.s = "header_only" /\ x.w.view = Header(Msg) /\ x.w.split = w.split /\ SameWriter(x.w, w)
        <5>1. VisitsIs(Visits(w, "header_only", Header(Msg)), w, "header_only", Header(Msg))
          BY <1>1, <1>6, <1>7, <4>1, VisitsAt
        <5> QED
          BY <1>1, <1>6, <1>7, <4>1, <5>1 DEF VisitsIs
      <4>3. Len(Msg.sizes) = 0
        BY <2>2, <3>0, <3>1 DEF GetsAt
      <4> HIDE DEF x
      <4>4. SerAt(x.w, FALSE, k)
        <5>1. SerAt(w, FALSE, k) /\ w.view = <<>> /\ w.s \in {"construct", "init"}
          BY <1>12, <2>2
        <5>2. HeaderShown(x.w, w)
          BY <4>2, <4>3 DEF HeaderShown
        <5> QED
          BY <5>1, <5>2, ShowsHeader
      <4> QED
        BY <4>2, <4>4 DEF AdvancedAt, x
    <3>2. CASE g.r = "need_buffer"
      <4> DEFINE y == [g.w EXCEPT !.s = "init"]
                 x == [w |-> y, ec |-> "need_buffer", visit |-> FALSE]
      <4>1. SerNext(w) = x
        BY <2>1, <2>4, <3>2 DEF NextInit, HeaderFirst
      <4>2. y.s = "init" /\ y.view = w.view /\ SameWriter(y, g.w)
        <5> HIDE DEF g
        <5> QED
          BY <1>2, <1>5 DEF Sers, SameWriter
      <4>3. x.w = y /\ x.ec = "need_buffer"
        OBVIOUS
      <4> HIDE DEF y, x, g
      <4>4. SerAt(y, TRUE, k)
        BY <1>2, <1>12, <3>0, <3>2, <4>2, ShowsNothing DEF G
      <4>5. AdvancedAt(x, k)
        BY <4>2, <4>3, <4>4 DEF AdvancedAt
      <4> QED
        BY <4>1, <4>5
    <3>3. CASE g.r = "buffer"
      <4> DEFINE e == IF Chunked THEN Chunk(g.d) ELSE g.d
                 h == Joined(Header(Msg), e)
      <4>1. Stretch(Msg, e, PieceEnd(Msg, G), PieceEnd(Msg, G + 1)) /\ (~g.more => G + 1 = Len(Msg.sizes))
        BY <1>10, <1>12, <3>0, <3>3
      <4>2. Stretch(Msg, h, k, PieceEnd(Msg, G + 1))
        <5>1. Stretch(Msg, Header(Msg), 0, PieceEnd(Msg, 0))
          BY <1>1, HeaderStretch
        <5>2. Stretch(Msg, e, PieceEnd(Msg, 0), PieceEnd(Msg, G + 1))
          BY <2>2, <4>1
        <5> HIDE DEF e, G
        <5>3. Stretch(Msg, h, 0, PieceEnd(Msg, G + 1))
          BY <5>1, <5>2, JoinedStretch
        <5> QED
          BY <2>2, <5>3
      <4>3. CASE ~Chunked \/ g.more
        <5>1. SerNext(w) = Visits(w1, "header", h)
          BY <2>1, <2>4, <3>3, <4>3 DEF NextInit, HeaderFirst, Joined
        <5> DEFINE x == SerNext(w)
        <5>2. h \in Blocks
          BY <1>9 DEF Joined
        <5> HIDE DEF h
        <5>3. x.ec = "" /\ x.w.s = "header" /\ x.w.view = h /\ x.w.more = w1.more /\ SameWriter(x.w, w1)
          <6>1. VisitsIs(Visits(w1, "header", h), w1, "header", h)
            BY <1>5, <1>7, <5>1, <5>2, VisitsAt
          <6> QED
            BY <1>5, <1>7, <5>1, <5>2, <6>1 DEF VisitsIs
        <5>4. SameWriter(x.w, g.w) /\ x.w.more = g.more
          BY <1>5, <5>3 DEF SameWriter
        <5> HIDE DEF x, w1, g, G
        <5>5. SerAt(x.w, FALSE, k)
          BY <1>4, <1>12, <3>0, <3>3, <4>2, <5>3, <5>4, ShowsBuffer
        <5> QED
          BY <5>3, <5>5 DEF AdvancedAt, x
      <4>4. CASE Chunked /\ ~g.more
        <5> DEFINE a == Joined(h, LastChunk(FALSE))
        <5>1. SerNext(w) = Visits(w1, "all", a)
          BY <2>1, <2>4, <3>3, <4>4 DEF NextInit, HeaderFirst, Joined
        <5> DEFINE x == SerNext(w)
        <5>2. a \in Blocks
          BY <1>9, <4>4 DEF Joined
        <5>6. Stretch(Msg, a, k, Size(Msg))
          <6>1. G + 1 = Len(Msg.sizes)
            BY <4>1, <4>4
          <6>2. Stretch(Msg, LastChunk(FALSE), PieceEnd(Msg, G + 1), Size(Msg))
            BY <1>11, <3>0, <4>4, <6>1
          <6> HIDE DEF h, G
          <6> QED
            BY <4>2, <6>2, JoinedStretch
        <5> HIDE DEF h, a
        <5>3. x.ec = "" /\ x.w.s = "all" /\ x.w.view = a /\ x.w.more = w1.more /\ SameWriter(x.w, w1)
          <6>1. VisitsIs(Visits(w1, "all", a), w1, "all", a)
            BY <1>5, <1>7, <5>1, <5>2, VisitsAt
          <6> QED
            BY <1>5, <1>7, <5>1, <5>2, <6>1 DEF VisitsIs
        <5>4. SameWriter(x.w, g.w) /\ x.w.more = g.more
          BY <1>5, <5>3 DEF SameWriter
        <5> HIDE DEF x, w1, g, G
        <5>5. SerAt(x.w, FALSE, k)
          BY <1>4, <1>12, <3>0, <3>3, <4>4, <5>3, <5>4, <5>6, ShowsBuffer
        <5> QED
          BY <5>3, <5>5 DEF AdvancedAt, x
      <4> QED
        BY <1>2, <4>3, <4>4
    <3> QED
      BY <1>2, <3>1, <3>2, <3>3
  <2> QED
    BY <2>3, <2>4
<1>13. CASE w.s \in {"body", "body1"}
  <2>1. SerNext(w) = NextBody(w) /\ Msg.writer # "chunks"
    BY <1>13 DEF SerNext
  <2>2. GetsAt(g, w, G) /\ G \in Nat
    BY <1>4, <1>13, <2>1
  <2>3. w.view = <<>>
    BY <1>1, <1>13 DEF Quiet
  <2>4. Stretch(Msg, <<>>, k, PieceEnd(Msg, G))
    BY <1>3, <1>13, <2>3 DEF ShownTo
  <2>5. k = PieceEnd(Msg, G)
    <3>1. k \in Nat /\ k + Len(<<>>) = PieceEnd(Msg, G)
      BY <2>4 DEF Stretch
    <3> HIDE DEF G
    <3> QED
      BY <3>1, EmptyText
  <2>6. CASE g.r = "none"
    <3>1. g.w = w /\ G = Len(Msg.sizes)
      BY <2>2, <2>6 DEF GetsAt
    <3>2. CASE ~Chunked
      <4> DEFINE y == [w EXCEPT !.s = "complete"]
                 x == [w |-> y, ec |-> "", visit |-> FALSE]
      <4>1. SerNext(w) = x
        BY <2>1, <2>6, <3>1, <3>2 DEF NextBody
      <4>2. y.s = "complete" /\ y.view = <<>> /\ SameWriter(y, w)
        BY <1>1, <2>3 DEF Sers, SameWriter
      <4>3. x.w = y /\ x.ec = ""
        OBVIOUS
      <4> HIDE DEF y, x
      <4>4. SerAt(y, FALSE, k)
        BY <1>13, <2>1, <2>3, <3>1, <3>2, <4>2, ShowsEnd
      <4>5. AdvancedAt(x, k)
        BY <4>3, <4>4 DEF AdvancedAt
      <4> QED
        BY <4>1, <4>5
    <3>3. CASE Chunked
      <4>1. SerNext(w) = Visits(w, "final1", LastChunk(FALSE))
        BY <2>1, <2>6, <3>1, <3>3 DEF NextBody
      <4> DEFINE x == SerNext(w)
      <4>2. x.ec = "" /\ x.w.s = "final1" /\ x.w.view = LastChunk(FALSE) /\ SameWriter(x.w, w)
        <5>1. VisitsIs(Visits(w, "final1", LastChunk(FALSE)), w, "final1", LastChunk(FALSE))
          BY <1>1, <1>6, <1>7, <4>1, VisitsAt
        <5> QED
          BY <1>1, <1>6, <1>7, <4>1, <5>1 DEF VisitsIs
      <4> HIDE DEF x
      <4>3. SerAt(x.w, FALSE, k)
        BY <1>13, <2>1, <2>3, <3>1, <3>3, <4>2, ShowsEnd
      <4> QED
        BY <4>2, <4>3 DEF AdvancedAt, x
    <3> QED
      BY <3>2, <3>3
  <2>7. CASE g.r = "need_buffer"
    <3> DEFINE y == [g.w EXCEPT !.s = "body1"]
               x == [w |-> y, ec |-> "need_buffer", visit |-> FALSE]
    <3>1. SerNext(w) = x
      BY <2>1, <2>7 DEF NextBody
    <3>2. y.s = "body1" /\ y.view = w.view /\ SameWriter(y, g.w)
      <4> HIDE DEF g
      <4> QED
        BY <1>2, <1>5 DEF Sers, SameWriter
    <3>3. x.w = y /\ x.ec = "need_buffer"
      OBVIOUS
    <3> HIDE DEF y, x, g
    <3>4. SerAt(y, TRUE, k)
      BY <1>2, <1>13, <2>2, <2>7, <3>2, ShowsNothing DEF G
    <3>5. AdvancedAt(x, k)
      BY <3>2, <3>3, <3>4 DEF AdvancedAt
    <3> QED
      BY <3>1, <3>5
  <2>8. CASE g.r = "buffer"
    <3> DEFINE e == IF Chunked THEN Chunk(g.d) ELSE g.d
    <3>1. Stretch(Msg, e, k, PieceEnd(Msg, G + 1)) /\ (~g.more => G + 1 = Len(Msg.sizes))
      BY <1>10, <1>13, <2>1, <2>5, <2>8
    <3>2. CASE ~Chunked \/ g.more
      <4>1. SerNext(w) = Visits(w1, "body2", e)
        BY <2>1, <2>8, <3>2 DEF NextBody
      <4> DEFINE x == SerNext(w)
      <4>2. e \in Blocks
        BY <1>2, <1>6
      <4> HIDE DEF e
      <4>3. x.ec = "" /\ x.w.s = "body2" /\ x.w.view = e /\ x.w.more = w1.more /\ SameWriter(x.w, w1)
        <5>1. VisitsIs(Visits(w1, "body2", e), w1, "body2", e)
          BY <1>5, <1>7, <4>1, <4>2, VisitsAt
        <5> QED
          BY <1>5, <1>7, <4>1, <4>2, <5>1 DEF VisitsIs
      <4>4. SameWriter(x.w, g.w) /\ x.w.more = g.more
        BY <1>5, <4>3 DEF SameWriter
      <4> HIDE DEF x, w1, g, G
      <4>5. SerAt(x.w, FALSE, k)
        BY <2>1, <2>2, <2>8, <3>1, <4>3, <4>4, ShowsBuffer
      <4> QED
        BY <4>3, <4>5 DEF AdvancedAt, x
    <3>3. CASE Chunked /\ ~g.more
      <4> DEFINE a == Joined(e, LastChunk(FALSE))
      <4>1. SerNext(w) = Visits(w1, "body_final", a)
        BY <2>1, <2>8, <3>3 DEF NextBody, Joined
      <4> DEFINE x == SerNext(w)
      <4>2. a \in Blocks
        BY <1>9, <3>3 DEF Joined
      <4>6. Stretch(Msg, a, k, Size(Msg))
        <5>1. Stretch(Msg, LastChunk(FALSE), PieceEnd(Msg, G + 1), Size(Msg))
          BY <1>11, <2>1, <3>1, <3>3
        <5> HIDE DEF e, G
        <5> QED
          BY <3>1, <5>1, JoinedStretch
      <4> HIDE DEF e, a
      <4>3. x.ec = "" /\ x.w.s = "body_final" /\ x.w.view = a /\ x.w.more = w1.more /\ SameWriter(x.w, w1)
        <5>1. VisitsIs(Visits(w1, "body_final", a), w1, "body_final", a)
          BY <1>5, <1>7, <4>1, <4>2, VisitsAt
        <5> QED
          BY <1>5, <1>7, <4>1, <4>2, <5>1 DEF VisitsIs
      <4>4. SameWriter(x.w, g.w) /\ x.w.more = g.more
        BY <1>5, <4>3 DEF SameWriter
      <4> HIDE DEF x, w1, g, G
      <4>5. SerAt(x.w, FALSE, k)
        BY <2>1, <2>2, <2>8, <3>3, <4>3, <4>4, <4>6, ShowsBuffer
      <4> QED
        BY <4>3, <4>5 DEF AdvancedAt, x
    <3> QED
      BY <1>2, <3>2, <3>3
  <2> QED
    BY <1>2, <2>6, <2>7, <2>8
<1>14. CASE w.s = "final"
  <2>1. SerNext(w) = Visits(w, "final1", LastChunk(FALSE))
    BY <1>14 DEF SerNext
  <2> DEFINE x == SerNext(w)
  <2>2. x.ec = "" /\ x.w.s = "final1" /\ x.w.view = LastChunk(FALSE) /\ SameWriter(x.w, w)
    <3>1. VisitsIs(Visits(w, "final1", LastChunk(FALSE)), w, "final1", LastChunk(FALSE))
      BY <1>1, <1>6, <1>7, <2>1, VisitsAt
    <3> QED
      BY <1>1, <1>6, <1>7, <2>1, <3>1 DEF VisitsIs
  <2>3. w.view = <<>> /\ Chunked /\ Msg.writer # "chunks"
    BY <1>1, <1>3, <1>14 DEF Quiet, SerAt, WriterAt
  <2> HIDE DEF x
  <2>4. SerAt(x.w, FALSE, k)
    BY <1>14, <2>2, <2>3, ShowsEnd
  <2> QED
    BY <2>2, <2>4 DEF AdvancedAt, x
<1>15. CASE w.s \in Visiting
  <2>1. SerNext(w) = Visits(w, w.s, w.view)
    BY <1>15 DEF SerNext, Visiting
  <2>2. [w EXCEPT !.s = w.s, !.view = w.view] = w /\ w.view \in Blocks
    BY <1>1 DEF Sers
  <2>3. SerNext(w) = [w |-> w, ec |-> "", visit |-> TRUE]
    BY <2>1, <2>2 DEF Visits
  <2> DEFINE x == SerNext(w)
             y == [w |-> w, ec |-> "", visit |-> TRUE]
  <2>4. y.w = w /\ y.ec = "" /\ x = y
    BY <2>3
  <2> HIDE DEF x, y
  <2>5. AdvancedAt(x, k)
    BY <2>4 DEF AdvancedAt
  <2> QED
    BY <2>5 DEF x
<1>16. w.s \in {"construct", "init"} \/ w.s \in {"body", "body1"} \/ w.s = "final" \/ w.s \in Visiting
  BY <1>1 DEF Sers, Quiet
<1> QED
  BY <1>12, <1>13, <1>14, <1>15, <1>16

-----------------------------------------------------------------------------
(* The steps of the sender *)

\* What is left when the stream has taken all that was shown
LEMMA ConsumedAt ==
  ASSUME SenderTypes, NEW w, NEW k, NEW c, Fits(Msg), WriterAt(w), SameWriter(c, w),
         c.view = <<>>, Stretch(Msg, <<>>, k, ShownTo(w, FALSE)),
         \/ /\ w.s \in {"header", "body2"} /\ w.more /\ c.s = "body1"
            /\ Given(w, FALSE) \in 0 .. Len(Msg.sizes)
         \/ /\ w.s \in {"header", "body2"} /\ ~w.more /\ c.s = IF Chunked THEN "final" ELSE "complete"
            /\ Given(w, FALSE) = Len(Msg.sizes)
         \/ w.s = "header_only" /\ c.s = "body" /\ Given(w, FALSE) = 0
         \/ /\ w.s = "header_only" /\ Len(Msg.sizes) = 0 /\ Msg.writer # "chunks"
            /\ c.s = (IF Chunked THEN "final" ELSE "complete") /\ Given(w, FALSE) = 0
         \/ w.s \in {"all", "body_final", "final1"} /\ c.s = "complete"
  PROVE  SerAt(c, FALSE, k)
<1>1. Msg \in Messages /\ Len(Msg.sizes) \in Nat
  BY MsgType
<1>2. BufferAt(c) /\ Count(c, FALSE) = Count(w, FALSE) /\ c.piece = w.piece
  BY SameCounts DEF WriterAt, SameWriter
<1>3. 0 \in 0 .. Len(Msg.sizes) /\ Len(Msg.sizes) \in 0 .. Len(Msg.sizes)
  BY <1>1
<1>4. Msg.writer = "string" => Len(Msg.sizes) = 1
  BY DEF Fits
<1>5. ~Chunked => Size(Msg) = BodyEnd(Msg)
  BY <1>1, NoTail DEF Chunked
<1>6. PieceEnd(Msg, 0) = HeaderEnd(Msg) /\ PieceEnd(Msg, Len(Msg.sizes)) = BodyEnd(Msg)
  BY <1>1, EndsAre
<1>7. CASE /\ w.s \in {"header", "body2"} /\ w.more /\ c.s = "body1"
           /\ Given(w, FALSE) \in 0 .. Len(Msg.sizes)
  <2>1. Msg.writer \notin {"string", "chunks"}
    BY <1>7 DEF WriterAt
  <2>2. Given(c, FALSE) = Given(w, FALSE) /\ WriterAt(c)
    BY <1>2, <2>1 DEF Given, WriterAt
  <2>3. ShownTo(c, FALSE) = ShownTo(w, FALSE)
    BY <1>7, <2>2 DEF ShownTo
  <2> QED
    BY <1>7, <2>2, <2>3 DEF SerAt
<1>8. CASE /\ w.s \in {"header", "body2"} /\ ~w.more /\ c.s = IF Chunked THEN "final" ELSE "complete"
           /\ Given(w, FALSE) = Len(Msg.sizes)
  <2>1. Msg.writer # "chunks"
    BY <1>8 DEF WriterAt
  <2>2. WriterAt(c)
    BY <1>2, <1>8, <2>1 DEF WriterAt
  <2>3. ShownTo(w, FALSE) = BodyEnd(Msg)
    BY <1>6, <1>8 DEF ShownTo
  <2>4. ShownTo(c, FALSE) = BodyEnd(Msg)
    BY <1>5, <1>8 DEF ShownTo
  <2>5. Given(c, FALSE) = Given(w, FALSE)
    BY <1>2, <1>8 DEF Given
  <2> QED
    BY <1>3, <1>8, <2>2, <2>3, <2>4, <2>5 DEF SerAt
<1>9. CASE w.s = "header_only" /\ c.s = "body" /\ Given(w, FALSE) = 0
  <2>1. WriterAt(c)
    BY <1>2, <1>9 DEF WriterAt
  <2>2. Given(c, FALSE) = 0
    BY <1>2, <1>9 DEF Given
  <2>3. ShownTo(c, FALSE) = ShownTo(w, FALSE)
    BY <1>6, <1>9, <2>2 DEF ShownTo
  <2> QED
    BY <1>3, <1>9, <2>1, <2>2, <2>3 DEF SerAt
<1>10. CASE /\ w.s = "header_only" /\ Len(Msg.sizes) = 0 /\ Msg.writer # "chunks"
            /\ c.s = (IF Chunked THEN "final" ELSE "complete") /\ Given(w, FALSE) = 0
  <2>1. WriterAt(c) /\ Msg.writer # "string"
    BY <1>2, <1>4, <1>10 DEF WriterAt
  <2>2. ShownTo(c, FALSE) = BodyEnd(Msg) /\ ShownTo(w, FALSE) = BodyEnd(Msg)
    BY <1>5, <1>6, <1>10 DEF ShownTo
  <2>3. Given(c, FALSE) = 0
    BY <1>2, <1>10, <2>1 DEF Given
  <2> QED
    BY <1>3, <1>10, <2>1, <2>2, <2>3 DEF SerAt
<1>11. CASE w.s \in {"all", "body_final", "final1"} /\ c.s = "complete"
  <2>1. Msg.writer # "chunks"
    BY <1>11 DEF WriterAt
  <2>2. WriterAt(c)
    BY <1>2, <1>11, <2>1 DEF WriterAt
  <2>3. ShownTo(c, FALSE) = ShownTo(w, FALSE)
    BY <1>11 DEF ShownTo
  <2> QED
    BY <1>11, <2>2, <2>3 DEF SerAt
<1> QED
  BY <1>7, <1>8, <1>9, <1>10, <1>11

LEMMA ConsumeAt ==
  ASSUME SenderTypes, NEW w, NEW k, NEW n \in Nat, n <= Len(w.view), Fits(Msg), Serializes(w),
         w.s \in Visiting \cup {"complete"}, SerAt(w, FALSE, k), Msg.writer = "chunks" => w.split
  PROVE  SerAt(SerConsume(w, n), FALSE, k + n)
<1> DEFINE v == SubSeq(w.view, n + 1, Len(w.view))
           next == CASE w.s \in {"header", "body2"} -> AfterBuffers(w)
                     [] w.s = "header_only" /\ w.split -> "body"
                     [] w.s = "header_only" /\ ~w.split -> AfterBuffers([w EXCEPT !.more = FALSE])
                     [] OTHER -> "complete"
           done == w.done \/ w.s \in {"header", "header_only", "all"}
<1>1. w \in Sers /\ w.view \in Seq(Symbols) /\ w.more \in BOOLEAN /\ w.split \in BOOLEAN
  BY DEF Serializes, Sers, Blocks
<1>2. Len(w.view) \in Nat /\ n \in 0 .. Len(w.view)
  <2>1. Len(w.view) \in Nat
    BY <1>1, LenProperties
  <2> QED
    BY <2>1
<1>3. WriterAt(w) /\ Stretch(Msg, w.view, k, ShownTo(w, FALSE))
  BY DEF SerAt
<1>4. Stretch(Msg, v, k + n, ShownTo(w, FALSE))
  BY <1>2, <1>3, CutStretch
<1>5. CASE w.s = "complete"
  <2>1. SerConsume(w, n) = w /\ w.view = <<>>
    BY <1>5 DEF SerConsume, Serializes, Quiet
  <2>2. n = 0 /\ k \in Nat
    <3>1. n <= 0
      BY <2>1, EmptyText
    <3>2. k \in Nat
      BY <1>3 DEF Stretch
    <3> QED
      BY <3>1, <3>2
  <2>3. k + n = k
    BY <2>2
  <2> QED
    BY <2>1, <2>3
<1>6. CASE w.s # "complete" /\ v # <<>>
  <2> DEFINE c == [w EXCEPT !.view = v]
  <2>1. SerConsume(w, n) = c
    BY <1>6 DEF SerConsume
  <2> HIDE DEF v
  <2>2. /\ c.view = v /\ c.s = w.s /\ c.more = w.more /\ c.split = w.split /\ SameWriter(c, w)
    BY <1>1 DEF Sers, SameWriter
  <2> HIDE DEF c
  <2>3. BufferAt(c) /\ Count(c, FALSE) = Count(w, FALSE) /\ c.piece = w.piece
    BY <1>3, <2>2, SameCounts DEF WriterAt, SameWriter
  <2>4. WriterAt(c)
    BY <1>3, <2>2, <2>3 DEF WriterAt
  <2>5. Given(c, FALSE) = Given(w, FALSE)
    BY <2>2, <2>3 DEF Given
  <2>6. ShownTo(c, FALSE) = ShownTo(w, FALSE)
    BY <2>2, <2>5 DEF ShownTo
  <2>7. Stretch(Msg, c.view, k + n, ShownTo(c, FALSE))
    BY <1>4, <2>2, <2>6
  <2>8. SerAt(c, FALSE, k + n)
    BY <2>2, <2>4, <2>5, <2>7 DEF SerAt
  <2> QED
    BY <2>1, <2>8
<1>7. CASE w.s # "complete" /\ v = <<>>
  <2> DEFINE c == [w EXCEPT !.s = next, !.view = <<>>, !.done = done]
  <2>1. SerConsume(w, n) = c
    BY <1>7 DEF SerConsume
  <2>2. /\ w.s \in {"header", "body2"} => next = (IF w.more THEN "body1" ELSE IF Chunked THEN "final" ELSE "complete")
        /\ w.s = "header_only" => next = IF w.split THEN "body" ELSE IF Chunked THEN "final" ELSE "complete"
        /\ w.s \in {"all", "body_final", "final1"} => next = "complete"
    <3>1. [w EXCEPT !.more = FALSE].more = FALSE
      BY <1>1 DEF Sers
    <3>2. AfterBuffers([w EXCEPT !.more = FALSE]) = IF Chunked THEN "final" ELSE "complete"
      BY <3>1 DEF AfterBuffers
    <3>3. AfterBuffers(w) = (IF w.more THEN "body1" ELSE IF Chunked THEN "final" ELSE "complete")
      BY DEF AfterBuffers
    <3>4. w.s = "header_only" => next = IF w.split THEN "body" ELSE IF Chunked THEN "final" ELSE "complete"
      BY <1>1, <3>2
    <3>5. w.s \in {"header", "body2"} => next = AfterBuffers(w)
      OBVIOUS
    <3> QED
      BY <3>3, <3>4, <3>5
  <2> HIDE DEF next, done
  <2>3. c.s = next /\ c.view = <<>> /\ SameWriter(c, w)
    BY <1>1 DEF Sers, SameWriter
  <2> HIDE DEF c
  <2>4. Stretch(Msg, <<>>, k + n, ShownTo(w, FALSE))
    BY <1>4, <1>7
  <2>5. w.s \in {"header", "header_only", "body2", "all", "body_final", "final1"}
    BY <1>7 DEF Visiting
  <2>6. Given(w, FALSE) \in 0 .. Len(Msg.sizes)
    BY <1>7 DEF SerAt
  <2>7. CASE w.s \in {"header", "body2"} /\ w.more
    BY <1>3, <2>2, <2>3, <2>4, <2>6, <2>7, <2>1, ConsumedAt
  <2>8. CASE w.s \in {"header", "body2"} /\ ~w.more
    <3>1. Given(w, FALSE) = Len(Msg.sizes)
      BY <2>8 DEF SerAt
    <3> QED
      BY <1>3, <2>2, <2>3, <2>4, <2>8, <2>1, <3>1, ConsumedAt
  <2>9. CASE w.s = "header_only"
    <3>1. Given(w, FALSE) = 0 /\ (~w.split => Len(Msg.sizes) = 0)
      BY <2>9 DEF SerAt
    <3>2. CASE w.split
      BY <1>3, <2>2, <2>3, <2>4, <2>9, <2>1, <3>1, <3>2, ConsumedAt
    <3>3. CASE ~w.split
      <4>1. Msg.writer # "chunks" /\ Len(Msg.sizes) = 0
        BY <3>1, <3>3
      <4>2. c.s = IF Chunked THEN "final" ELSE "complete"
        BY <2>2, <2>3, <2>9, <3>3
      <4> QED
        BY <1>3, <2>3, <2>4, <2>9, <2>1, <3>1, <4>1, <4>2, ConsumedAt
    <3> QED
      BY <3>2, <3>3
  <2>10. CASE w.s \in {"all", "body_final", "final1"}
    BY <1>3, <2>2, <2>3, <2>4, <2>10, <2>1, ConsumedAt
  <2> QED
    BY <2>5, <2>7, <2>8, <2>9, <2>10
<1> QED
  BY <1>5, <1>6, <1>7

\* What the constants say of the messages and of how they are written
FitScripts ==
  /\ \A s \in Scripts : \A k \in 1 .. Len(s) : Fits(s[k])
  /\ "split_some" \notin WriteModes

LEMMA SentIs ==
  ASSUME SendInv
  PROVE  /\ SenderTypes /\ HeaderInv /\ Fits(Msg) /\ OpInv /\ SerAt(ser, Pending, Sent)
         /\ ser \in Sers /\ Serializes(ser) /\ wop \in WriteOps
         /\ WriterAt(ser) /\ Stretch(Msg, ser.view, Sent, ShownTo(ser, Pending))
<1>1. SenderTypes /\ HeaderInv /\ OpInv /\ SerAt(ser, Pending, Sent)
  BY DEF SendInv, SenderInv
<1>2. Fits(Msg)
  BY <1>1 DEF SendInv, FitInv, Msg, SenderTypes
<1>3. ser \in Sers /\ Serializes(ser) /\ wop \in WriteOps
  BY <1>1 DEF SenderTypes, Serializes
<1> QED
  BY <1>1, <1>2, <1>3 DEF SerAt

\* A step that stays with the message keeps what its parts say
LEMMA SendsOn ==
  ASSUME SendInv, SenderInv', UNCHANGED <<script, at, mode>>,
         NEW k, SerAt(ser', wop'.ec = "need_buffer", k), k = wrote' + wop'.n, OpInv'
  PROVE  SendInv'
<1>1. Msg' = Msg
  BY DEF Msg
<1>2. FitInv'
  BY DEF SendInv, FitInv, Fits
<1>3. SerAt(ser, Pending, Sent)'
  <2>1. Pending' = (wop'.ec = "need_buffer") /\ Sent' = k
    BY DEF Pending, Sent
  <2>2. SerAt(ser', Pending', Sent')
    BY <2>1
  <2>3. SerAt(ser', Pending', Sent') = SerAt(ser, Pending, Sent)'
    BY <1>1 DEF SerAt, WriterAt, BufferAt, ShownTo, Given, Count, Chunked
  <2> QED
    BY <2>2, <2>3
<1> QED
  BY <1>2, <1>3 DEF SendInv

LEMMA StartWriteSends ==
  ASSUME SendInv, StartWrite
  PROVE  SendInv'
<1>1. /\ SenderTypes /\ HeaderInv /\ Fits(Msg) /\ OpInv /\ SerAt(ser, Pending, Sent)
      /\ ser \in Sers /\ Serializes(ser) /\ wop \in WriteOps
  BY SentIs
<1>2. PICK op \in {"header", "some", "done"} :
        /\ op = CASE mode = "header" /\ ~ser.done -> "header"
                  [] mode = "split_some" /\ ser.s = "construct" -> "some"
                  [] OTHER -> "done"
        /\ ser' = [ser EXCEPT !.split = op # "done"]
        /\ wop' = [pc |-> "next", until |-> op, n |-> 0, ec |-> ""]
        /\ wop.pc = "idle" /\ ~closed /\ ~(Msg.writer = "chunks" /\ ser.done)
        /\ UNCHANGED <<script, at, mode, wrote, closed>>
  BY DEF StartWrite
<1>3. (op # "done") \in BOOLEAN
  OBVIOUS
<1>4. /\ ser'.s = ser.s /\ ser'.view = ser.view /\ ser'.more = ser.more /\ SameWriter(ser', ser)
      /\ ser'.split = (op # "done")
  BY <1>1, <1>2, <1>3 DEF Sers, SameWriter
<1>5. wop'.pc = "next" /\ wop'.until = op /\ wop'.n = 0 /\ wop'.ec = ""
  BY <1>2
<1>6. wop = IdleOp /\ wop.n = 0 /\ ~Pending
  <2>1. wop = IdleOp
    BY <1>1, <1>2 DEF SenderTypes
  <2>2. IdleOp.n = 0 /\ IdleOp.ec = ""
    BY DEF IdleOp
  <2> QED
    BY <2>1, <2>2 DEF Pending
<1>7. SenderInv'
  BY StartWriteKeeps DEF SendInv
<1>8. ser.s \notin Visiting
  BY <1>1, <1>2 DEF OpInv
<1>9. OpInv'
  <2>1. mode # "split_some" /\ op # "some"
    BY <1>1, <1>2 DEF OpInv
  <2>2. Msg' = Msg
    BY <1>2 DEF Msg
  <2>3. Msg.writer = "chunks" => mode = "header" /\ op = "header"
    BY <1>1, <1>2 DEF OpInv
  <2>4. ~Pending'
    BY <1>5 DEF Pending
  <2>5. Msg'.writer = "chunks" => mode' = "header" /\ wop'.until = "header"
    BY <1>2, <1>5, <2>2, <2>3
  <2>6. mode' # "split_some" /\ wop'.until # "some"
    BY <1>2, <1>5, <2>1
  <2>8. wrote' \in Nat
    BY <1>1, <1>2 DEF OpInv
  <2>7. ser'.s \notin Visiting /\ ~closed' /\ ser'.split = (wop'.until # "done")
    <3>1. ser'.s \notin Visiting /\ ~closed'
      BY <1>2, <1>4, <1>8
    <3>2. ser'.split = (wop'.until # "done")
      BY <1>4, <1>5
    <3> QED
      BY <3>1, <3>2
  <2> QED
    BY <1>5, <2>4, <2>5, <2>6, <2>7, <2>8 DEF OpInv
<1>10. SerAt(ser', FALSE, Sent)
  <2>6. Pending = FALSE
    BY <1>6 DEF Pending
  <2>7. "header_only" \in Visiting
    BY DEF Visiting
  <2>1. SerAt(ser, FALSE, Sent) /\ ser.s # "header_only"
    BY <1>1, <1>8, <2>6, <2>7
  <2>2. Count(ser', FALSE) = Count(ser, FALSE) /\ (BufferAt(ser) => BufferAt(ser')) /\ ser'.piece = ser.piece
    BY <1>4, SameCounts DEF SameWriter
  <2>3. Given(ser', FALSE) = Given(ser, FALSE)
    BY <1>4, <2>2 DEF Given
  <2>4. ShownTo(ser', FALSE) = ShownTo(ser, FALSE)
    BY <1>4, <2>3 DEF ShownTo
  <2>5. WriterAt(ser')
    BY <1>4, <2>1, <2>2 DEF SerAt, WriterAt
  <2> QED
    BY <1>4, <2>1, <2>3, <2>4, <2>5 DEF SerAt
<1>11. Sent = wrote' + wop'.n
  BY <1>2, <1>5, <1>6 DEF Sent
<1>12. SerAt(ser', wop'.ec = "need_buffer", Sent)
  <2>1. (wop'.ec = "need_buffer") = FALSE
    BY <1>5
  <2> QED
    BY <1>10, <2>1
<1> QED
  BY <1>2, <1>7, <1>9, <1>11, <1>12, SendsOn

LEMMA Counting ==
  /\ \A a, b, c \in Nat : (a + b) + c = a + (b + c)
  /\ \A a, b \in Nat : a <= b => a \in 0 .. b
  OBVIOUS

LEMMA Nought == \A a, b \in Nat : a + 0 = a /\ a + b \in Nat
  OBVIOUS

LEMMA WriteNextSends ==
  ASSUME SendInv, WriteNext
  PROVE  SendInv'
<1>1. /\ SenderTypes /\ HeaderInv /\ Fits(Msg) /\ OpInv /\ SerAt(ser, Pending, Sent)
      /\ ser \in Sers /\ Serializes(ser) /\ wop \in WriteOps
  BY SentIs
<1>2. wop.pc = "next" /\ UNCHANGED <<script, at, mode, wrote, closed>>
  BY DEF WriteNext
<1>3. wrote \in Nat /\ wop.ec = "" /\ ~closed /\ ser.split = (wop.until # "done") /\ wop.until # "some" /\ mode # "split_some"
  BY <1>1, <1>2 DEF OpInv
<1>4. SerAt(ser, FALSE, Sent)
  <2>1. Pending = FALSE
    BY <1>3 DEF Pending
  <2> QED
    BY <1>1, <2>1
<1>5. SenderInv'
  BY WriteNextKeeps DEF SendInv
<1>6. Msg' = Msg
  BY <1>2 DEF Msg
<1>7. Msg.writer = "chunks" => mode = "header" /\ wop.until = "header"
  BY <1>1, <1>2 DEF OpInv
<1>8. CASE ser.s = "complete"
  <2>1. wop' = [wop EXCEPT !.pc = "post"] /\ UNCHANGED ser
    BY <1>8 DEF WriteNext
  <2>2. wop'.pc = "post" /\ wop'.ec = "" /\ wop'.until = wop.until /\ wop'.n = wop.n
    BY <1>1, <1>3, <2>1 DEF WriteOps
  <2>3. Msg'.writer = "chunks" => mode' = "header" /\ wop'.until = "header"
    BY <1>2, <1>6, <1>7, <2>2
  <2>4. ser'.s \notin Visiting
    BY <1>8, <2>1 DEF Visiting
  <2>5. OpInv'
    BY <1>2, <1>3, <2>1, <2>2, <2>3, <2>4 DEF OpInv, Pending
  <2>6. Sent = wrote' + wop'.n
    BY <1>2, <2>2 DEF Sent
  <2>7. SerAt(ser', wop'.ec = "need_buffer", Sent)
    <3>1. (wop'.ec = "need_buffer") = FALSE
      BY <2>2
    <3> QED
      BY <1>4, <2>1, <3>1
  <2> QED
    BY <1>2, <1>5, <2>5, <2>6, <2>7, SendsOn
<1>9. CASE ser.s # "complete"
  <2> DEFINE x == SerNext(ser)
  <2>1. ser' = x.w /\ wop' = [wop EXCEPT !.pc = IF x.visit THEN "io" ELSE "post", !.ec = x.ec]
    BY <1>9 DEF WriteNext
  <2>2. Advanced(ser, x)
    BY <1>1, <1>9, NextGives
  <2>3. AdvancedAt(x, Sent)
    <3>1. Msg.writer = "chunks" => ser.split /\ ser.s \in {"construct", "header_only"}
      BY <1>1, <1>2, <1>7 DEF HeaderInv
    <3> QED
      BY <1>1, <1>4, <1>9, <3>1, NextAt
  <2> HIDE DEF x
  <2>4. /\ wop'.ec = x.ec /\ wop'.until = wop.until /\ wop'.n = wop.n
        /\ wop'.pc = IF x.visit THEN "io" ELSE "post"
    BY <1>1, <2>1, <2>2 DEF WriteOps, Advanced
  <2>5. /\ x.ec \in {"", "need_buffer"} /\ x.w.split = ser.split
        /\ (x.visit => x.w.s \in Visiting) /\ (~x.visit => x.w.s \in Quiet)
    BY <2>2 DEF Advanced
  <2>6. x.ec = "need_buffer" => x.w.s \in {"init", "body1"}
    BY <2>3 DEF AdvancedAt
  <2>7. x.visit => x.ec = ""
    BY <2>5, <2>6 DEF Visiting
  <2>8. ser'.s \in Visiting => wop'.pc = "io"
    <3>1. ser'.s \in Visiting => x.visit
      BY <2>1, <2>5 DEF Quiet, Visiting
    <3> QED
      BY <2>4, <3>1
  <2>9. Msg'.writer = "chunks" => mode' = "header" /\ wop'.until = "header"
    BY <1>2, <1>6, <1>7, <2>4
  <2>10. ser'.split = (wop'.until # "done") /\ wop'.pc \in {"io", "post"}
    <3>1. wop'.pc \in {"io", "post"}
      BY <2>4
    <3>2. ser'.split = (wop'.until # "done")
      BY <1>3, <2>1, <2>4, <2>5
    <3> QED
      BY <3>1, <3>2
  <2>11. wop'.pc = "io" => wop'.ec = ""
    <3>1. wop'.pc = "io" => x.visit
      BY <2>4
    <3> QED
      BY <2>4, <2>7, <3>1
  <2>12. wop'.ec = "need_buffer" => ser'.s \in {"init", "body1"}
    BY <2>1, <2>4, <2>6
  <2>13. mode' # "split_some" /\ wop'.until # "some" /\ ~closed'
    BY <1>2, <1>3, <2>4
  <2>17. wrote' \in Nat
    BY <1>2, <1>3
  <2>14. OpInv'
    BY <2>8, <2>9, <2>10, <2>11, <2>12, <2>13, <2>17 DEF OpInv, Pending
  <2>15. Sent = wrote' + wop'.n
    BY <1>2, <2>4 DEF Sent
  <2>16. SerAt(ser', wop'.ec = "need_buffer", Sent)
    <3>1. SerAt(x.w, x.ec = "need_buffer", Sent)
      BY <2>3 DEF AdvancedAt
    <3> QED
      BY <2>1, <2>4, <3>1
  <2> QED
    BY <1>2, <1>5, <2>14, <2>15, <2>16, SendsOn
<1> QED
  BY <1>8, <1>9

LEMMA WriteResumesSends ==
  ASSUME SendInv, SenderInv', NEW n \in Nat, n <= Len(ser.view),
         NEW ec, Ends(n, ec), WriteResumes(n, ec), ec # "" => n = 0,
         UNCHANGED <<script, at, mode, wrote, closed>>
  PROVE  SendInv'
<1> DEFINE w == IF ec = "" THEN SerConsume(ser, n) ELSE ser
<1>1. /\ SenderTypes /\ HeaderInv /\ Fits(Msg) /\ OpInv /\ SerAt(ser, Pending, Sent)
      /\ ser \in Sers /\ Serializes(ser) /\ wop \in WriteOps
  BY SentIs
<1>2. /\ ec \in {"", "need_buffer", "error"} /\ wop.pc \in {"io", "post"}
      /\ wop.pc = "post" => n = 0 /\ ec = wop.ec
      /\ wop.pc = "io" => ec # "need_buffer"
  BY DEF Ends
<1>3. /\ wrote \in Nat /\ ~closed /\ ser.split = (wop.until # "done") /\ wop.until # "some" /\ mode # "split_some"
      /\ wop.pc = "io" => wop.ec = ""
      /\ Msg.writer = "chunks" => mode = "header" /\ wop.until = "header"
  BY <1>1, <1>2 DEF OpInv
<1>4. Pending = (ec = "need_buffer")
  BY <1>2, <1>3 DEF Pending
<1>5. Msg' = Msg
  BY DEF Msg
<1>6. ser' = w
  BY DEF WriteResumes
<1>7. PICK pc : /\ pc \in {"told", "next"}
                /\ pc = IF ec # "" \/ wop.until = "some" \/ Reached(w, wop.until) THEN "told" ELSE "next"
                /\ wop' = [wop EXCEPT !.n = wop.n + n, !.ec = ec, !.pc = pc]
  BY DEF WriteResumes
<1>8. wop'.pc = pc /\ wop'.ec = ec /\ wop'.until = wop.until /\ wop'.n = wop.n + n
  BY <1>1, <1>7 DEF WriteOps
<1>9. Msg'.writer = "chunks" => mode' = "header" /\ wop'.until = "header"
  BY <1>3, <1>5, <1>8
<1>10. Sent + n = wrote' + wop'.n
  <2>1. wop.n \in Nat
    BY <1>1 DEF WriteOps
  <2>2. wrote' = wrote /\ wrote \in Nat
    BY <1>3
  <2>4. (wrote + wop.n) + n = wrote + (wop.n + n)
    BY <2>1, <2>2, Counting
  <2> QED
    BY <1>8, <2>2, <2>4 DEF Sent
<1>11. CASE ec = ""
  <2>1. ser' = SerConsume(ser, n)
    BY <1>6, <1>11
  <2>2. ser.s \in Visiting \cup {"complete"}
    BY <1>1, <1>2, <1>11 DEF SenderTypes
  <2>3. SerAt(ser, FALSE, Sent)
    BY <1>1, <1>4, <1>11
  <2>4. Msg.writer = "chunks" => ser.split
    BY <1>3
  <2>5. SerAt(ser', FALSE, Sent + n)
    BY <1>1, <2>1, <2>2, <2>3, <2>4, ConsumeAt
  <2>6. ser'.split = ser.split
    <3>1. n \in 0 .. Len(ser.view)
      <4>1. Len(ser.view) \in Nat
        BY <1>1, LenProperties DEF Sers, Blocks
      <4> QED
        BY <4>1, Counting
    <3> QED
      BY <1>1, <2>1, <2>2, <3>1, ConsumeGives DEF Consumed
  <2>7. ser'.s \in Visiting => wop'.pc = "next"
    <3>1. CASE pc = "told" /\ wop.until = "done"
      <4>1. ser'.s = "complete"
        BY <1>3, <1>6, <1>7, <1>11, <3>1 DEF Reached
      <4> QED
        BY <4>1 DEF Visiting
    <3>2. CASE pc = "told" /\ wop.until = "header"
      <4>1. HeaderInv'
        BY DEF SenderInv
      <4>2. ser'.s = "body"
        BY <1>8, <1>11, <3>2, <4>1 DEF HeaderInv
      <4> QED
        BY <4>2 DEF Visiting
    <3> QED
      BY <1>1, <1>3, <1>7, <1>8, <3>1, <3>2 DEF WriteOps
  <2>8. ser'.split = (wop'.until # "done")
    BY <1>3, <1>8, <2>6
  <2>9. OpInv'
    BY <1>3, <1>7, <1>8, <1>9, <1>11, <2>7, <2>8 DEF OpInv, Pending
  <2>10. SerAt(ser', wop'.ec = "need_buffer", Sent + n)
    <3>1. (wop'.ec = "need_buffer") = FALSE
      BY <1>8, <1>11
    <3> QED
      BY <2>5, <3>1
  <2> QED
    BY <1>10, <2>9, <2>10, SendsOn
<1>12. CASE ec # ""
  <2>1. ser' = ser /\ pc = "told"
    BY <1>6, <1>7, <1>12
  <2>2. ser.s \in Visiting => ec = "error"
    <3>1. ec = "need_buffer" => ser.s \in {"init", "body1"}
      BY <1>1, <1>4 DEF OpInv
    <3> QED
      BY <1>2, <1>12, <3>1 DEF Visiting
  <2>3. ser'.split = (wop'.until # "done")
    BY <1>3, <1>8, <2>1
  <2>4. wop'.ec = "need_buffer" => ser'.s \in {"init", "body1"}
    BY <1>1, <1>4, <1>8, <2>1 DEF OpInv
  <2>5. OpInv'
    BY <1>3, <1>8, <1>9, <2>1, <2>2, <2>3, <2>4 DEF OpInv, Pending
  <2>6. SerAt(ser', wop'.ec = "need_buffer", Sent)
    <3>1. (wop'.ec = "need_buffer") = Pending
      BY <1>4, <1>8
    <3> QED
      BY <1>1, <2>1, <3>1
  <2>7. Sent = wrote' + wop'.n
    <3>1. n = 0 /\ wop.n \in Nat
      BY <1>1, <1>12 DEF WriteOps
    <3>2. wrote' = wrote /\ wop'.n = wop.n + 0
      BY <1>8, <3>1
    <3>3. wop'.n = wop.n
      BY <3>1, <3>2
    <3> QED
      BY <3>2, <3>3 DEF Sent
  <2> QED
    BY <2>5, <2>6, <2>7, SendsOn
<1> QED
  BY <1>11, <1>12

LEMMA WriteIoSends ==
  ASSUME SendInv, WriteIo
  PROVE  SendInv'
<1>1. Len(ser.view) \in Nat
  BY LenProperties DEF SendInv, SenderInv, SenderTypes, Serializes, Sers, Blocks
<1> DEFINE most == IF Len(ser.view) < Limit THEN Len(ser.view) ELSE Limit
<1>2. PICK n \in (IF most = 0 THEN {0} ELSE 1 .. most) : WriteResumes(n, "")
  BY DEF WriteIo
<1>3. n \in Nat /\ n <= Len(ser.view)
  <2>1. Limit \in Nat
    BY ConstantsAssumption DEF ConstantsAssumption
  <2>2. most \in Nat /\ most <= Len(ser.view)
    BY <1>1, <2>1
  <2>3. n \in IF most = 0 THEN {0} ELSE 1 .. most
    BY <1>2
  <2> HIDE DEF most
  <2>4. CASE most = 0
    BY <2>2, <2>3, <2>4
  <2>5. CASE most # 0
    <3>1. n \in 1 .. most
      BY <2>3, <2>5
    <3>2. n \in Nat /\ n <= most
      BY <2>2, <3>1
    <3> QED
      BY <1>1, <2>2, <3>2
  <2> QED
    BY <2>4, <2>5
<1>4. Ends(n, "") /\ UNCHANGED <<script, at, mode, wrote, closed>>
  BY DEF WriteIo, Ends
<1>5. SenderInv'
  BY WriteIoKeeps DEF SendInv
<1> QED
  BY <1>2, <1>3, <1>4, <1>5, WriteResumesSends

LEMMA WriteEndsSends ==
  ASSUME SendInv, WriteFails \/ WritePosted
  PROVE  SendInv'
<1>1. Len(ser.view) \in Nat
  BY LenProperties DEF SendInv, SenderInv, SenderTypes, Serializes, Sers, Blocks
<1>2. SenderInv' /\ 0 \in Nat /\ 0 <= Len(ser.view)
  <2>1. SenderInv'
    BY WriteEndsKeeps DEF SendInv
  <2> QED
    BY <1>1, <2>1
<1>3. CASE WriteFails
  <2>1. Ends(0, "error") /\ WriteResumes(0, "error") /\ UNCHANGED <<script, at, mode, wrote, closed>>
    BY <1>3 DEF WriteFails, Ends
  <2> QED
    BY <1>2, <2>1, WriteResumesSends
<1>4. CASE WritePosted
  <2>1. wop.ec \in {"", "need_buffer", "error"}
    BY DEF SendInv, SenderInv, SenderTypes, WriteOps
  <2>2. /\ Ends(0, wop.ec) /\ WriteResumes(0, wop.ec)
        /\ UNCHANGED <<script, at, mode, wrote, closed>>
    BY <1>4, <2>1 DEF WritePosted, Ends
  <2> QED
    BY <1>2, <2>2, WriteResumesSends
<1> QED
  BY <1>3, <1>4

LEMMA WriteToldSends ==
  ASSUME SendInv, WriteTold
  PROVE  SendInv'
<1>1. /\ SenderTypes /\ HeaderInv /\ Fits(Msg) /\ OpInv /\ SerAt(ser, Pending, Sent)
      /\ ser \in Sers /\ Serializes(ser) /\ wop \in WriteOps
  BY SentIs
<1>2. /\ wop.pc = "told" /\ wop' = IdleOp /\ wrote' = wrote + wop.n
      /\ UNCHANGED <<script, at, mode>>
  BY DEF WriteTold
<1>3. /\ wop'.pc = "idle" /\ wop'.ec = "" /\ wop'.until = "done" /\ wop'.n = 0
  BY <1>2 DEF IdleOp
<1>4. Msg' = Msg
  BY <1>2 DEF Msg
<1>5. wrote \in Nat /\ wop.n \in Nat
  BY <1>1 DEF OpInv, WriteOps
<1>6. Sent = wrote' + wop'.n /\ wrote' \in Nat
  <2>1. wrote' = wrote + wop.n
    BY <1>2
  <2>2. wrote' \in Nat
    BY <1>5, <2>1, Nought
  <2>3. wrote' + 0 = wrote'
    BY <2>2, Nought
  <2> QED
    BY <1>3, <2>1, <2>2, <2>3 DEF Sent
<1>7. SenderInv'
  BY WriteToldKeeps DEF SendInv
<1>8. Msg'.writer = "chunks" => mode' = "header"
  BY <1>1, <1>2, <1>4 DEF OpInv
<1>9. ASSUME ser'.s \in Visiting => closed' = TRUE
      PROVE  OpInv'
  <2>1. mode' # "split_some"
    BY <1>1, <1>2 DEF OpInv
  <2> QED
    BY <1>3, <1>6, <1>8, <1>9, <2>1 DEF OpInv, Pending
<1>10. (wop'.ec = "need_buffer") = FALSE
  BY <1>3
<1>11. CASE wop.ec = "need_buffer" /\ ser' \in Refill(ser) /\ UNCHANGED closed
  <2> DEFINE next == IF ser.data THEN ser.piece + 1 ELSE ser.piece
             N == Len(Msg.sizes)
  <2>1. PICK l \in BOOLEAN :
          /\ next = N => l
          /\ next + 1 < N => ~l
          /\ ser' = [ser EXCEPT !.piece = next, !.data = next < N, !.last = l]
    BY <1>11 DEF Refill
  <2>2. Msg.writer = "buffer" /\ N \in Nat
    BY <1>1, <1>11, MsgType DEF SenderTypes
  <2>3. next \in Nat /\ next <= N
    BY <1>1, <2>2 DEF Serializes, Sers
  <2>4. (next < N) \in BOOLEAN
    OBVIOUS
  <2>5. SerAt(ser, TRUE, Sent) /\ ser.s \in {"init", "body1"}
    <3>1. Pending = TRUE
      BY <1>11 DEF Pending
    <3> QED
      BY <1>1, <3>1 DEF OpInv
  <2>6. ~ser.toggle /\ ser.toggle \in BOOLEAN
    BY <1>1, <2>5 DEF SerAt, Sers
  <2>7. Count(ser, TRUE) = next
    BY <1>1, <2>2 DEF Count, Sers
  <2> HIDE DEF next, N
  <2>8. /\ ser'.piece = next /\ ser'.data = (next < N) /\ ser'.last = l
        /\ ser'.toggle = ser.toggle /\ ser'.view = ser.view /\ ser'.s = ser.s
    BY <1>1, <2>1, <2>3, <2>4 DEF Sers
  <2>9. Count(ser', FALSE) = next + 0
    BY <2>6, <2>8 DEF Count
  <2>10. Given(ser', FALSE) = Given(ser, TRUE)
    <3>1. next + 0 = next
      BY <2>3
    <3> QED
      BY <2>2, <2>7, <2>9, <3>1 DEF Given
  <2>11. BufferAt(ser')
    <3>1. l => next + (IF next < N THEN 1 ELSE 0) = N
      BY <2>1, <2>2, <2>3
    <3>2. l => ser'.piece + (IF ser'.data THEN 1 ELSE 0) = N
      BY <2>8, <3>1
    <3> QED
      BY <2>6, <2>8, <3>2 DEF BufferAt, N
  <2>12. WriterAt(ser')
    BY <2>2, <2>11 DEF WriterAt
  <2>13. ShownTo(ser', FALSE) = ShownTo(ser, TRUE)
    BY <2>8, <2>10 DEF ShownTo
  <2>14. SerAt(ser', FALSE, Sent)
    BY <2>5, <2>8, <2>10, <2>12, <2>13 DEF SerAt
  <2>15. OpInv'
    BY <1>9, <2>5, <2>8 DEF Visiting
  <2> QED
    BY <1>2, <1>6, <1>7, <1>10, <2>14, <2>15, SendsOn
<1>12. CASE wop.ec \in {"", "error"} /\ UNCHANGED ser /\ (wop.ec = "error" => closed' = TRUE)
  <2>1. Pending = FALSE
    BY <1>12 DEF Pending
  <2>2. ser.s \in Visiting => wop.ec = "error"
    BY <1>1, <1>2 DEF OpInv
  <2>3. OpInv'
    BY <1>9, <1>12, <2>2
  <2>4. SerAt(ser', FALSE, Sent)
    BY <1>1, <1>12, <2>1
  <2> QED
    BY <1>2, <1>6, <1>7, <1>10, <2>3, <2>4, SendsOn
<1> QED
  BY <1>11, <1>12 DEF WriteTold

LEMMA CloseStreamSends ==
  ASSUME SendInv, SenderInv', CloseStream
  PROVE  SendInv'
<1>1. /\ SenderTypes /\ HeaderInv /\ Fits(Msg) /\ OpInv /\ SerAt(ser, Pending, Sent)
  BY SentIs
<1>2. wop.pc = "idle" /\ closed' = TRUE /\ UNCHANGED <<script, at, mode, ser, wop, wrote>>
  BY DEF CloseStream
<1>3. OpInv'
  BY <1>1, <1>2 DEF OpInv, Pending, Msg
<1> QED
  BY <1>1, <1>2, <1>3, <1>3, SendsOn DEF Pending, Sent

\* What a chunk that the application has encoded itself adds to the stream
ChunkSent(d) ==
  /\ wire' = wire \o d
  /\ Stretch(Msg, d, Sent, wrote' + wop'.n)

LEMMA WriteChunksSends ==
  ASSUME SendInv, WriteChunks
  PROVE  SendInv' /\ \E d \in Texts : ChunkSent(d)
<1> DEFINE N == Len(Msg.sizes)
           j == ser.piece + 1
           d == IF j <= N THEN Chunk(Piece(Msg, j)) ELSE LastChunk(Msg.trailer)
           s == IF j > N THEN "complete" ELSE ser.s
<1>1. /\ SenderTypes /\ HeaderInv /\ Fits(Msg) /\ OpInv /\ SerAt(ser, Pending, Sent)
      /\ ser \in Sers /\ Serializes(ser) /\ wop \in WriteOps
  BY SentIs
<1>2. /\ wop.pc = "idle" /\ Msg.writer = "chunks" /\ ser.s = "body" /\ ser.piece <= N /\ ~closed
      /\ wire' = wire \o d /\ wrote' = wrote + Len(d)
      /\ ser' = [ser EXCEPT !.piece = j, !.s = s]
      /\ UNCHANGED <<script, at, mode, wop, closed>>
  BY DEF WriteChunks
<1>3. wop.n = 0 /\ wop.ec = "" /\ Pending = FALSE
  <2>1. wop = IdleOp
    BY <1>1, <1>2 DEF SenderTypes
  <2>2. IdleOp.n = 0 /\ IdleOp.ec = ""
    BY DEF IdleOp
  <2> QED
    BY <2>1, <2>2 DEF Pending
<1>4. Msg' = Msg /\ Msg \in Messages /\ N \in Nat /\ ser.piece \in Nat /\ wrote \in Nat
  BY <1>1, <1>2, MsgType DEF Msg, Sers, OpInv
<1>5. Msg.framing = "chunked"
  BY <1>1, <1>2 DEF Fits
<1>6. Sent = PieceEnd(Msg, ser.piece) /\ Sent = wrote /\ ser.view = <<>>
  <2>1. Sent = wrote
    BY <1>3, <1>4, Nought DEF Sent
  <2>2. Given(ser, FALSE) = ser.piece
    <3>1. Count(ser, FALSE) = ser.piece + 0
      BY <1>2 DEF Count
    <3> QED
      BY <1>2, <1>4, <3>1, Nought DEF Given
  <2>3. ser.view = <<>>
    BY <1>1, <1>2 DEF Serializes, Quiet
  <2>4. Stretch(Msg, <<>>, Sent, PieceEnd(Msg, ser.piece))
    BY <1>1, <1>2, <1>3, <2>2, <2>3 DEF SerAt, ShownTo
  <2>5. Sent + 0 = PieceEnd(Msg, ser.piece) /\ Sent \in Nat
    BY <2>4, EmptyText DEF Stretch
  <2> QED
    BY <2>1, <2>3, <2>5, Nought
<1>7. /\ Stretch(Msg, d, Sent, IF j <= N THEN PieceEnd(Msg, j) ELSE Size(Msg))
      /\ j \in Nat /\ (j <= N => j \in 1 .. N) /\ (j > N <=> ~(j <= N))
  <2>1. j \in Nat /\ (j <= N => j \in 1 .. N) /\ j - 1 = ser.piece /\ (j > N <=> ~(j <= N))
        /\ (j > N => ser.piece = N)
    BY <1>2, <1>4
  <2>2. CASE j <= N
    <3>1. Stretch(Msg, Encoded(Msg, j), PieceEnd(Msg, j - 1), PieceEnd(Msg, j))
      BY <1>4, <2>1, <2>2, PieceStretch
    <3>2. Encoded(Msg, j) = d
      BY <1>5, <2>2 DEF Encoded
    <3> HIDE DEF j, d
    <3> QED
      BY <1>6, <2>1, <2>2, <3>1, <3>2
  <2>3. CASE ~(j <= N)
    <3>1. Stretch(Msg, LastChunk(Msg.trailer), PieceEnd(Msg, N), Size(Msg))
      BY <1>4, <1>5, TailStretch DEF BodyEnd
    <3>2. d = LastChunk(Msg.trailer)
      BY <2>3
    <3> HIDE DEF j, d
    <3> QED
      BY <1>6, <2>1, <2>3, <3>1, <3>2
  <2> QED
    BY <2>1, <2>2, <2>3
<1> HIDE DEF d
<1>8. d \in Texts /\ Sent \in Nat /\ Sent + Len(d) = IF j <= N THEN PieceEnd(Msg, j) ELSE Size(Msg)
  BY <1>7 DEF Stretch
<1>9. wrote' + wop'.n = wrote' /\ wrote' \in Nat /\ wrote' = IF j <= N THEN PieceEnd(Msg, j) ELSE Size(Msg)
  <2>1. wrote' = Sent + Len(d)
    BY <1>2, <1>6
  <2>2. Len(d) \in Nat
    BY <1>8, LenProperties DEF Texts
  <2>3. wrote' \in Nat
    BY <1>8, <2>1, <2>2, Nought
  <2>4. wop'.n = 0
    BY <1>2, <1>3
  <2> QED
    BY <1>8, <2>1, <2>3, <2>4, Nought
<1>10. ChunkSent(d)
  BY <1>2, <1>7, <1>9 DEF ChunkSent
<1>11. SenderInv'
  BY WriteChunksKeeps DEF SendInv
<1>12. s \in {"body", "complete"} /\ (s = "body" => j \in 1 .. N)
  BY <1>2, <1>7
<1>13. /\ ser'.s = s /\ ser'.piece = j /\ ser'.view = <<>> /\ ser'.split = ser.split
       /\ ser'.toggle = ser.toggle /\ ser'.data = ser.data
  <2>1. s \in Quiet
    BY <1>12 DEF Quiet
  <2> HIDE DEF s, j
  <2> QED
    BY <1>1, <1>2, <1>6, <1>7, <2>1 DEF Sers
<1>14. OpInv'
  <2>1. mode = "header" /\ mode # "split_some" /\ wop.until # "some"
    BY <1>1, <1>2 DEF OpInv
  <2>2. ser'.s \notin Visiting
    BY <1>12, <1>13 DEF Visiting
  <2> HIDE DEF s, j, N
  <2> QED
    BY <1>2, <1>3, <1>9, <2>1, <2>2 DEF OpInv, Pending
<1>15. SerAt(ser', FALSE, wrote' + wop'.n)
  <2>1. WriterAt(ser')
    BY <1>2, <1>12, <1>13 DEF WriterAt, BufferAt
  <2>2. Given(ser', FALSE) = j
    <3>1. Count(ser', FALSE) = j + 0
      BY <1>2, <1>13 DEF Count
    <3> HIDE DEF j
    <3> QED
      BY <1>2, <1>7, <3>1, Nought DEF Given
  <2>3. ShownTo(ser', FALSE) = wrote'
    <3> HIDE DEF j, s
    <3>1. CASE j <= N
      <4>1. ser'.s = "body"
        BY <1>2, <1>13, <3>1, <1>7 DEF s
      <4> QED
        BY <1>9, <2>2, <3>1, <4>1 DEF ShownTo
    <3>2. CASE ~(j <= N)
      <4>1. ser'.s = "complete"
        BY <1>7, <1>13, <3>2 DEF s
      <4> QED
        BY <1>9, <3>2, <4>1 DEF ShownTo
    <3> QED
      BY <3>1, <3>2
  <2>4. Stretch(Msg, ser'.view, wrote', wrote')
    BY <1>9, <1>13, EmptyStretch
  <2>5. ser'.s # "complete" => Given(ser', FALSE) \in 0 .. N
    <3>1. ser'.s # "complete" => j \in 1 .. N
      BY <1>12, <1>13
    <3> HIDE DEF j
    <3>2. j \in 1 .. N => j \in 0 .. N
      BY <1>4
    <3> QED
      BY <2>2, <3>1, <3>2
  <2> HIDE DEF s, j, N
  <2>6. ser'.s \in {"body", "complete"}
    BY <1>12, <1>13
  <2> QED
    BY <1>9, <2>1, <2>3, <2>4, <2>5, <2>6 DEF SerAt, N
<1>16. SerAt(ser', wop'.ec = "need_buffer", wrote' + wop'.n)
  <2>1. (wop'.ec = "need_buffer") = FALSE
    BY <1>2, <1>3
  <2> QED
    BY <1>15, <2>1
<1>17. SendInv'
  BY <1>2, <1>11, <1>14, <1>16, SendsOn
<1> QED
  BY <1>8, <1>10, <1>17

\* A message begins with nothing written of it
JustBegun ==
  /\ SenderInv /\ FitInv /\ FitScripts
  /\ mode \in ModesOf(Msg) /\ ser \in NewSers(Msg) /\ wop = IdleOp /\ wrote = 0 /\ closed = FALSE

LEMMA BeginSends == JustBegun => SendInv
<1> SUFFICES ASSUME JustBegun PROVE SendInv
  OBVIOUS
<1> USE DEF JustBegun
<1>1. /\ SenderTypes /\ Msg \in Messages /\ Len(Msg.sizes) \in Nat
      /\ Msg.writer \in {"string", "empty", "file", "buffer", "chunks"}
  BY MsgType DEF SenderInv, Messages
<1>2. /\ wop.pc = "idle" /\ wop.ec = "" /\ wop.n = 0 /\ wop.until = "done"
  BY DEF IdleOp
<1>3. PICK data \in IF Msg.writer = "buffer" /\ Msg.sizes # <<>> THEN BOOLEAN ELSE {FALSE} :
        ser = NewSer(Msg, data)
  BY DEF NewSers
<1>4. /\ ser.s = "construct" /\ ser.view = <<>> /\ ser.piece = 0 /\ ser.data = data
      /\ ser.toggle = FALSE /\ ser.last = (data /\ Len(Msg.sizes) = 1)
  BY <1>3 DEF NewSer
<1>5. BufferAt(ser)
  <2>1. ser.last => ser.data /\ Len(Msg.sizes) = 1
    BY <1>4
  <2>2. 0 + 1 = 1
    OBVIOUS
  <2>3. ser.last => ser.piece + (IF ser.data THEN 1 ELSE 0) = Len(Msg.sizes)
    BY <1>4, <2>1, <2>2
  <2> QED
    BY <1>4, <2>3 DEF BufferAt
<1>6. WriterAt(ser)
  BY <1>4, <1>5 DEF WriterAt
<1>7. Given(ser, FALSE) = 0
  <2>1. Count(ser, FALSE) = 0
    BY <1>4 DEF Count
  <2> QED
    BY <1>1, <1>4, <2>1 DEF Given
<1>8. Stretch(Msg, ser.view, 0, ShownTo(ser, FALSE))
  <2>1. ShownTo(ser, FALSE) = 0
    BY <1>4 DEF ShownTo
  <2>2. 0 \in Nat
    OBVIOUS
  <2> QED
    BY <1>4, <2>1, <2>2, EmptyStretch
<1>9. SerAt(ser, FALSE, 0)
  <2>1. 0 \in 0 .. Len(Msg.sizes)
    BY <1>1
  <2> QED
    BY <1>4, <1>6, <1>7, <1>8, <2>1 DEF SerAt
<1>10. Pending = FALSE /\ Sent = 0
  <2>1. Pending = FALSE
    BY <1>2 DEF Pending
  <2>2. wrote = 0 /\ 0 + 0 = 0
    OBVIOUS
  <2>3. Sent = 0
    BY <1>2, <2>2 DEF Sent
  <2> QED
    BY <2>1, <2>3
<1>11. mode # "split_some" /\ (Msg.writer = "chunks" => mode = "header")
  BY DEF ModesOf, FitScripts
<1>12. OpInv
  BY <1>2, <1>4, <1>10, <1>11 DEF OpInv, Visiting
<1> QED
  BY <1>9, <1>10, <1>12 DEF SendInv

LEMMA SendStarts == FitScripts /\ Init => SendInv
<1> SUFFICES ASSUME FitScripts, Init PROVE SendInv
  OBVIOUS
<1>1. script \in Scripts /\ SerInit
  BY DEF Init
<1>2. FitInv
  BY <1>1 DEF FitScripts, FitInv
<1>3. JustBegun
  BY <1>1, <1>2, SenderStarts DEF JustBegun, SerInit, Msg
<1> QED
  BY <1>3, BeginSends

LEMMA NextMessageSends ==
  ASSUME FitScripts, SendInv, NextMessage
  PROVE  SendInv'
<1>1. JustBegun'
  <2>1. SenderInv'
    BY NextMessageKeeps DEF SendInv
  <2>2. /\ wop.pc = "idle" /\ closed = FALSE
        /\ script' = script /\ at' = at + 1 /\ mode' \in ModesOf(script[at + 1])
        /\ ser' \in NewSers(script[at + 1]) /\ wrote' = 0 /\ UNCHANGED <<wop, closed>>
    BY DEF NextMessage, SendInv, SenderInv, SenderTypes
  <2>3. FitInv' /\ FitScripts'
    BY <2>2 DEF SendInv, FitInv, Fits, FitScripts
  <2>4. Msg' = script[at + 1] /\ wop' = IdleOp
    BY <2>2 DEF Msg, SendInv, SenderInv, SenderTypes
  <2>5. mode' \in ModesOf(Msg)' /\ ser' \in NewSers(Msg)' /\ IdleOp' = IdleOp
    BY <2>2, <2>4 DEF ModesOf, NewSers, NewSer, IdleOp
  <2> QED
    BY <2>1, <2>2, <2>3, <2>4, <2>5 DEF JustBegun
<1>2. JustBegun' => SendInv'
  BY BeginSends, PTL
<1> QED
  BY <1>1, <1>2

\* The sender always has sent what it says
LEMMA SendKeeps == FitScripts /\ SendInv /\ [Next]_vars => SendInv'
<1> SUFFICES ASSUME FitScripts, SendInv, [Next]_vars PROVE SendInv'
  OBVIOUS
<1>0. SenderInv'
  BY SenderKeeps DEF SendInv
<1>1. CASE StartWrite
  BY <1>1, StartWriteSends
<1>2. CASE WriteNext
  BY <1>2, WriteNextSends
<1>3. CASE WriteIo
  BY <1>3, WriteIoSends
<1>4. CASE WriteFails \/ WritePosted
  BY <1>4, WriteEndsSends
<1>5. CASE WriteTold
  BY <1>5, WriteToldSends
<1>6. CASE WriteChunks
  BY <1>6, WriteChunksSends
<1>7. CASE NextMessage
  BY <1>7, NextMessageSends
<1>8. CASE CloseStream
  BY <1>0, <1>8, CloseStreamSends
<1>9. CASE UNCHANGED <<script, at, mode, ser, wop, wrote, closed>>
  <2>1. /\ SenderTypes /\ HeaderInv /\ Fits(Msg) /\ OpInv /\ SerAt(ser, Pending, Sent)
    BY SentIs
  <2>2. OpInv'
    BY <1>9, <2>1 DEF OpInv, Pending, Msg
  <2> QED
    BY <1>0, <1>9, <2>1, <2>2, SendsOn DEF Pending, Sent
<1>10. \/ Sender
       \/ UNCHANGED <<script, at, mode, ser, wop, wrote, closed>>
  BY DEF Next, vars, serVars, WireDelivers, WireEnds
<1> QED
  BY <1>1, <1>2, <1>3, <1>4, <1>5, <1>6, <1>7, <1>8, <1>9, <1>10 DEF Sender, SerStep

\* If the header of every message tells what its body is, and no header is written in
\* pieces, then whatever the stream takes at a time, the sender has put on it what the
\* messages are, symbol by symbol, and the serializer shows what comes next.
THEOREM WhatIsSent == ASSUME FitScripts PROVE Spec => []SendInv
<1>1. Init => SendInv
  BY SendStarts
<1>2. SendInv /\ [Next]_vars => SendInv'
  BY SendKeeps
<1> QED
  BY <1>1, <1>2, PTL DEF Spec
=============================================================================
