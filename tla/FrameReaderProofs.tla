-------------------------- MODULE FrameReaderProofs --------------------------
(* The payload of every frame is unmasked once and with the right byte of the
   key, and a text is refused when and only when the encoding is against it, for
   any frames, any sizes of the buffers and however the bytes arrive.

   What is in the read buffer is unmasked already, what is not there is still as
   the peer has sent it, and the key has been rotated as far as the one reaches.

   The checker reads code points, the encoding is given byte by byte.  That they
   agree on every text is proved by induction on it.  The theorems on induction
   of the library take a predicate, which the provers cannot instantiate, but a
   set will do: Induction below.                                              *)
EXTENDS FrameReader, SequenceTheorems, FiniteSetTheorems, WellFoundedInduction, TLAPS

Bytes == [b : Nat, at : 0 .. 3, clear : BOOLEAN]

TypeOK ==
  /\ wire \in Seq(Frames) /\ body \in Seq(Bytes) /\ given \in Seq(Bytes)
  /\ arrived \in Nat /\ rd_size \in Nat /\ rd_key \in 0 .. 3 /\ n \in Nat

\* The first a bytes of s are clear and the others wait for the key at position k
Masking(s, a, k) ==
  \A i \in 1 .. Len(s) :
    IF i <= a THEN s[i].clear ELSE ~s[i].clear /\ s[i].at = (k + i - 1 - a) % 4
Clear(s) == \A i \in 1 .. Len(s) : s[i].clear

PayloadInv ==
  /\ rd_remain = Len(body) /\ (state = "header" => body = <<>>)
  /\ Masking(body, arrived, rd_key) /\ Clear(given)
  /\ rd_size + rd_remain <= MsgMax

Inv == TypeOK /\ PayloadInv

-----------------------------------------------------------------------------
(* Bytes *)

LEMMA Tabulated ==
  ASSUME NEW m \in Nat, NEW f \in [1 .. m -> Bytes]
  PROVE  f \in Seq(Bytes) /\ Len(f) = m
<1>1. f \in Seq(Bytes)
  BY SeqDef
<1>2. DOMAIN f = 1 .. m /\ DOMAIN f = 1 .. Len(f) /\ Len(f) \in Nat
  BY <1>1, LenProperties
<1>3. m \in 1 .. m \/ m = 0
  OBVIOUS
<1>4. Len(f) \in 1 .. Len(f) \/ Len(f) = 0
  BY <1>2
<1>5. m <= Len(f) /\ Len(f) <= m
  BY <1>2, <1>3, <1>4
<1> QED
  BY <1>1, <1>2, <1>5

LEMMA Minimum ==
  ASSUME NEW a \in Nat, NEW b \in Nat
  PROVE  Min2(a, b) \in Nat /\ Min2(a, b) <= a /\ Min2(a, b) <= b /\ Min2(a, b) \in {a, b}
  BY DEF Min2

\* The first k bytes are handed on, of the a that are clear
LEMMA FirstBytes ==
  ASSUME NEW s \in Seq(Bytes), NEW k \in 0 .. Len(s), \A i \in 1 .. k : s[i].clear
  PROVE  SubSeq(s, 1, k) \in Seq(Bytes) /\ Len(SubSeq(s, 1, k)) = k /\ Clear(SubSeq(s, 1, k))
<1>1. Len(s) \in Nat /\ \A i \in 1 .. Len(s) : s[i] \in Bytes
  BY LenProperties, ElementOfSeq
<1>2. /\ SubSeq(s, 1, k) \in Seq(Bytes) /\ Len(SubSeq(s, 1, k)) = k
      /\ \A i \in 1 .. k : SubSeq(s, 1, k)[i] = s[i]
  BY <1>1, SubSeqProperties
<1> QED
  BY <1>2 DEF Clear

LEMMA Back ==
  ASSUME NEW s \in Seq(Bytes), NEW k \in 0 .. Len(s)
  PROVE  /\ SubSeq(s, k + 1, Len(s)) \in Seq(Bytes)
         /\ Len(SubSeq(s, k + 1, Len(s))) = Len(s) - k
         /\ \A i \in 1 .. Len(s) - k : SubSeq(s, k + 1, Len(s))[i] = s[k + i]
<1>1. Len(s) \in Nat /\ \A i \in 1 .. Len(s) : s[i] \in Bytes
  BY LenProperties, ElementOfSeq
<1> QED
  BY <1>1, SubSeqProperties

LEMMA BackMasking ==
  ASSUME NEW s \in Seq(Bytes), NEW a \in Nat, NEW k \in 0 .. Len(s), k <= a,
         NEW key \in 0 .. 3, Masking(s, a, key)
  PROVE  Masking(SubSeq(s, k + 1, Len(s)), a - k, key)
<1> DEFINE t == SubSeq(s, k + 1, Len(s))
<1>1. Len(s) \in Nat
  BY LenProperties
<1>2. Len(t) = Len(s) - k /\ \A i \in 1 .. Len(s) - k : t[i] = s[k + i]
  BY Back
<1> HIDE DEF t
<1> SUFFICES ASSUME NEW i \in 1 .. Len(t)
             PROVE  IF i <= a - k THEN t[i].clear
                    ELSE ~t[i].clear /\ t[i].at = (key + i - 1 - (a - k)) % 4
  BY DEF Masking, t
<1>3. k + i \in 1 .. Len(s) /\ t[i] = s[k + i]
  BY <1>1, <1>2
<1>4. k + i <= a <=> i <= a - k
  BY <1>3
<1>5. key + (k + i) - 1 - a = key + i - 1 - (a - k)
  BY <1>3
<1> QED
  BY <1>3, <1>4, <1>5 DEF Masking

\* mask_inplace
LEMMA Unmasking ==
  ASSUME NEW s \in Seq(Bytes), NEW k \in Nat, rd_key \in 0 .. 3, Masking(s, 0, rd_key)
  PROVE  /\ Unmasked(s, k) \in Seq(Bytes) /\ Len(Unmasked(s, k)) = Len(s)
         /\ \A i \in 1 .. Len(s) : Unmasked(s, k)[i].at = s[i].at
         /\ \A i \in 1 .. Len(s) : Unmasked(s, k)[i].clear <=> i <= k
<1>1. Len(s) \in Nat /\ \A i \in 1 .. Len(s) : s[i] \in Bytes
  BY LenProperties, ElementOfSeq
<1>2. ASSUME NEW i \in 1 .. Len(s)
      PROVE  /\ Unmasked(s, k)[i] \in Bytes /\ Unmasked(s, k)[i].at = s[i].at
             /\ Unmasked(s, k)[i].clear <=> i <= k
  <2>1. ~s[i].clear /\ s[i].at = (rd_key + i - 1) % 4 /\ s[i] \in Bytes
    BY <1>1 DEF Masking
  <2>2. CASE i > k
    BY <1>1, <2>1, <2>2 DEF Unmasked
  <2>3. CASE ~(i > k)
    <3>1. Unmasked(s, k)[i]
            = [s[i] EXCEPT !.clear = ~s[i].clear /\ (rd_key + i - 1) % 4 = s[i].at]
      BY <2>3 DEF Unmasked
    <3>2. (~s[i].clear /\ (rd_key + i - 1) % 4 = s[i].at) = TRUE
      BY <2>1
    <3>3. Unmasked(s, k)[i] = [s[i] EXCEPT !.clear = TRUE]
      BY <3>1, <3>2
    <3>4. Unmasked(s, k)[i].clear /\ Unmasked(s, k)[i].at = s[i].at
      BY <2>1, <3>3 DEF Bytes
    <3>5. Unmasked(s, k)[i] \in Bytes
      BY <2>1, <3>3 DEF Bytes
    <3> QED
      BY <1>1, <2>3, <3>4, <3>5
  <2> QED
    BY <2>2, <2>3
<1>3. Unmasked(s, k) \in [1 .. Len(s) -> Bytes]
  BY <1>2 DEF Unmasked
<1> QED
  BY <1>1, <1>2, <1>3, Tabulated

\* The payload of f, of which k bytes are unmasked
LEMMA PayloadMasking ==
  ASSUME NEW f \in Frames, NEW k \in Nat
  PROVE  LET s == [i \in 1 .. Len(f.payload) |-> [Masked(f)[i] EXCEPT !.clear = i <= k]]
         IN  /\ s \in Seq(Bytes) /\ Len(s) = Len(f.payload)
             /\ \A i \in 1 .. Len(f.payload) : s[i].at = (i - 1) % 4
             /\ \A i \in 1 .. Len(f.payload) : s[i].clear <=> i <= k
<1> DEFINE s == [i \in 1 .. Len(f.payload) |-> [Masked(f)[i] EXCEPT !.clear = i <= k]]
<1>1. /\ f.payload \in Seq(Nat) /\ Len(f.payload) \in Nat
      /\ \A i \in 1 .. Len(f.payload) : f.payload[i] \in Nat
  BY FramesAssumption, LenProperties, ElementOfSeq
<1>2. ASSUME NEW i \in 1 .. Len(f.payload)
      PROVE  s[i] \in Bytes /\ s[i].at = (i - 1) % 4 /\ (s[i].clear <=> i <= k)
  <2>1. Masked(f)[i] = [b |-> f.payload[i], at |-> (i - 1) % 4, clear |-> FALSE]
    BY DEF Masked
  <2>2. s[i] = [[b |-> f.payload[i], at |-> (i - 1) % 4, clear |-> FALSE] EXCEPT !.clear = i <= k]
    BY <2>1
  <2>3. (i - 1) % 4 \in 0 .. 3 /\ f.payload[i] \in Nat
    BY <1>1
  <2> HIDE DEF s
  <2>4. CASE i <= k
    <3>1. s[i] = [b |-> f.payload[i], at |-> (i - 1) % 4, clear |-> TRUE]
      BY <2>2, <2>4
    <3>2. s[i] \in Bytes
      BY <2>3, <3>1 DEF Bytes
    <3> QED
      BY <2>4, <3>1, <3>2
  <2>5. CASE ~(i <= k)
    <3>1. s[i] = [b |-> f.payload[i], at |-> (i - 1) % 4, clear |-> FALSE]
      <4>1. (i <= k) = FALSE
        BY <2>5
      <4> QED
        BY <2>2, <4>1
    <3>2. s[i] \in Bytes
      BY <2>3, <3>1 DEF Bytes
    <3> QED
      BY <2>5, <3>1, <3>2
  <2> QED
    BY <2>4, <2>5
<1>3. s \in [1 .. Len(f.payload) -> Bytes]
  BY <1>2
<1> QED
  BY <1>1, <1>2, <1>3, Tabulated

-----------------------------------------------------------------------------
LEMMA Bounds == MsgMax \in Nat /\ Buffers \subseteq Nat
  BY BoundsAssumption

LEMMA InitInv == Init => Inv
<1> SUFFICES ASSUME Init PROVE Inv
  OBVIOUS
<1>1. /\ wire = <<>> /\ body = <<>> /\ given = <<>> /\ arrived = 0 /\ rd_size = 0
      /\ rd_remain = 0 /\ rd_key = 0 /\ n = 0
  BY DEF Init
<1>2. TypeOK
  BY <1>1, EmptySeq DEF TypeOK
<1>3. Len(<<>>) = 0
  OBVIOUS
<1>4. PayloadInv
  BY <1>1, <1>3, Bounds DEF PayloadInv, Masking, Clear
<1> QED
  BY <1>2, <1>4 DEF Inv

\* Nothing of the payload changes
LEMMA PayloadSame ==
  ASSUME Inv, UNCHANGED <<body, arrived, rd_remain, rd_size, rd_key>>,
         Clear(given'), state' = "header" => body = <<>>
  PROVE  PayloadInv'
  BY DEF Inv, PayloadInv, Masking

\* The bytes of s are handed out, and the rest waits
LEMMA Delivered ==
  ASSUME Inv, state = "payload", NEW s \in Seq(Bytes), NEW k \in 0 .. rd_remain,
         Len(s) = k, Clear(s), Delivers(s), body' = SubSeq(body, k + 1, Len(body)),
         arrived' \in Nat, rd_key' \in 0 .. 3, UNCHANGED <<wire, n>>,
         Masking(body', arrived', rd_key')
  PROVE  Inv'
<1>1. rd_remain = Len(body) /\ Len(body) \in Nat /\ body \in Seq(Bytes) /\ rd_size \in Nat
      /\ rd_size + rd_remain <= MsgMax
  BY LenProperties DEF Inv, PayloadInv, TypeOK
<1>2. /\ given' = s /\ rd_remain' = rd_remain - k /\ rd_size' = rd_size + k
      /\ state' # "header"
  BY DEF Delivers, Checks
<1>3. k \in 0 .. Len(body)
  BY <1>1
<1>4. body' \in Seq(Bytes) /\ Len(body') = Len(body) - k
  BY <1>1, <1>3, Back
<1>5. TypeOK'
  BY <1>1, <1>2, <1>4 DEF Inv, TypeOK
<1>6. rd_size' + rd_remain' <= MsgMax
  BY <1>1, <1>2, Bounds
<1>7. Clear(given')
  BY <1>2 DEF Clear
<1>8. rd_remain' = Len(body')
  BY <1>1, <1>2, <1>4
<1>9. PayloadInv'
  BY <1>2, <1>6, <1>7, <1>8 DEF PayloadInv, Masking
<1> QED
  BY <1>5, <1>9 DEF Inv

LEMMA StepInv == Inv /\ [Next]_vars => Inv'
<1> SUFFICES ASSUME Inv, [Next]_vars PROVE Inv'
  OBVIOUS
<1>0. /\ wire \in Seq(Frames) /\ body \in Seq(Bytes) /\ given \in Seq(Bytes)
      /\ arrived \in Nat /\ rd_size \in Nat /\ rd_key \in 0 .. 3 /\ n \in Nat
      /\ rd_remain = Len(body) /\ Len(body) \in Nat
      /\ (state = "header" => body = <<>>)
      /\ Masking(body, arrived, rd_key) /\ Clear(given)
      /\ rd_size + rd_remain <= MsgMax
  BY LenProperties DEF Inv, TypeOK, PayloadInv
<1>1. ASSUME NEW f \in Frames, Sends(f) PROVE Inv'
  <2>1. /\ wire' = Append(wire, f)
        /\ UNCHANGED <<body, arrived, rd_remain, rd_size, rd_key, state, n, given>>
    BY <1>1 DEF Sends, readVars
  <2>2. wire' \in Seq(Frames)
    BY <1>0, <2>1, AppendProperties
  <2>3. Clear(given')
    BY <1>0, <2>1 DEF Clear
  <2> QED
    BY <1>0, <2>1, <2>2, <2>3, PayloadSame DEF Inv, TypeOK
<1>2. ASSUME NEW size \in Buffers, Call(size) PROVE Inv'
  <2>1. /\ given' = <<>> /\ n' = size /\ (state' = "header" => rd_remain = 0)
        /\ UNCHANGED <<wire, body, arrived, rd_remain, rd_size, rd_key>>
    BY <1>2 DEF Call, readVars
  <2>2. n' \in Nat /\ given' \in Seq(Bytes) /\ Clear(given')
    BY <2>1, Bounds, EmptySeq DEF Clear
  <2>3. rd_remain = 0 => body = <<>>
    BY <1>0, EmptySeq
  <2> QED
    BY <1>0, <2>1, <2>2, <2>3, PayloadSame DEF Inv, TypeOK
<1>3. CASE MoreHeader
  <2>1. /\ body = <<>> /\ arrived' \in Nat
        /\ UNCHANGED <<wire, body, rd_remain, rd_size, rd_key, state, n, given>>
    BY <1>0, <1>3 DEF MoreHeader
  <2>2. Len(body) = 0
    BY <2>1, EmptySeq
  <2>3. PayloadInv'
    BY <1>0, <2>1, <2>2 DEF PayloadInv, Masking, Clear
  <2> QED
    BY <1>0, <2>1, <2>3 DEF Inv, TypeOK
<1>4. CASE Fails
  <2>1. UNCHANGED <<wire, body, arrived, rd_remain, rd_size, rd_key, n, given>> /\ body = <<>>
    BY <1>0, <1>4 DEF Fails
  <2>2. Clear(given')
    BY <1>0, <2>1 DEF Clear
  <2> QED
    BY <1>0, <2>1, <2>2, PayloadSame DEF Inv, TypeOK
<1>5. CASE Control \/ Data
  <2> DEFINE f == Head(wire)
             h == Fields(f)
             p == Len(f.payload)
             k == Min2(p, arrived - h)
             s == [i \in 1 .. Len(f.payload) |-> [Masked(f)[i] EXCEPT !.clear = i <= k]]
  <2>1. Accepts /\ wire # <<>> /\ arrived >= h
    BY <1>5 DEF Control, Data, Accepts, Complete
  <2>2. f \in Frames /\ wire' \in Seq(Frames)
    BY <1>0, <2>1, HeadTailProperties DEF Accepts
  <2>3. h \in Nat /\ p \in Nat
    BY <2>2, FramesAssumption, LenProperties DEF Fields
  <2>4. k \in Nat /\ k <= p /\ k <= arrived - h /\ k \in {p, arrived - h}
        /\ arrived - h \in Nat
    <3>1. arrived - h \in Nat
      BY <1>0, <2>1, <2>3
    <3> QED
      BY <2>3, <3>1, Minimum
  <2>5. /\ s \in Seq(Bytes) /\ Len(s) = p
        /\ \A i \in 1 .. p : s[i].at = (i - 1) % 4
        /\ \A i \in 1 .. p : s[i].clear <=> i <= k
    BY <2>2, <2>4, PayloadMasking
  <2>6. body = <<>> /\ rd_remain = 0
    BY <1>0, <2>1, EmptySeq DEF Accepts
  <2>7. k % 4 \in 0 .. 3
    BY <2>4
  <2>a. CASE Control
    <3>1. /\ rd_key' = k % 4 /\ arrived' = arrived - h - k /\ given' = s
          /\ UNCHANGED <<body, rd_remain, rd_size, state, n>> /\ IsControl(f.op)
      BY <2>a DEF Control
    <3> HIDE DEF s, k
    <3>2. k = p
      <4>1. Refused(f) = "no" /\ ControlHere(f, arrived)
        BY <2>1 DEF Accepts, Complete
      <4>2. ~f.long
        BY <3>1, <4>1 DEF Refused, IsControl
      <4>3. arrived >= h + p
        BY <3>1, <4>1, <4>2 DEF ControlHere, RawLen
      <4> QED
        BY <1>0, <2>3, <2>4, <4>3
    <3>3. Clear(given')
      BY <2>5, <3>1, <3>2 DEF Clear
    <3>4. arrived' \in Nat
      BY <1>0, <2>3, <2>4, <3>1
    <3>5. TypeOK'
      BY <1>0, <2>2, <2>5, <2>7, <3>1, <3>4 DEF TypeOK
    <3>6. Masking(body', arrived', rd_key')
      BY <2>6, <3>1, EmptySeq DEF Masking
    <3>7. PayloadInv'
      BY <1>0, <2>6, <3>1, <3>3, <3>6 DEF PayloadInv, Masking
    <3> QED
      BY <3>5, <3>7 DEF Inv
  <2>b. CASE Data
    <3>1. /\ rd_key' = k % 4 /\ arrived' = arrived - h /\ body' = s /\ rd_remain' = p
          /\ UNCHANGED <<n, given>> /\ ~IsControl(f.op)
          /\ (state' = "header" => p = 0)
          /\ rd_size' = IF f.op = "cont" THEN rd_size ELSE 0
      BY <1>0, <2>b DEF Data
    <3> HIDE DEF s, k
    <3>2. rd_size' \in Nat /\ rd_size' + rd_remain' <= MsgMax
      <4>1. RefusedLate(f) = "no"
        BY <2>1 DEF Accepts
      <4>2. ~((IF f.op = "cont" THEN rd_size ELSE 0) + p > MsgMax)
        BY <3>1, <4>1 DEF RefusedLate
      <4> QED
        <5>1. CASE f.op = "cont"
          BY <1>0, <2>3, <3>1, <4>2, <5>1, Bounds
        <5>2. CASE f.op # "cont"
          BY <1>0, <2>3, <3>1, <4>2, <5>2, Bounds
        <5> QED
          BY <5>1, <5>2
    <3>3. Masking(body', arrived', rd_key')
      <4> SUFFICES ASSUME NEW i \in 1 .. p
                   PROVE  IF i <= arrived' THEN s[i].clear
                          ELSE ~s[i].clear
                               /\ s[i].at = (rd_key' + i - 1 - arrived') % 4
        BY <2>5, <3>1 DEF Masking
      <4>1. CASE i <= arrived'
        BY <2>3, <2>4, <2>5, <3>1, <4>1
      <4>2. CASE ~(i <= arrived')
        <5>1. k = arrived' /\ ~(i <= k)
          BY <2>3, <2>4, <3>1, <4>2
        <5>2. ((k % 4) + i - 1 - k) % 4 = (i - 1) % 4
          BY <2>3, <2>4
        <5> QED
          BY <2>5, <3>1, <4>2, <5>1, <5>2
      <4> QED
        BY <4>1, <4>2
    <3>4. TypeOK'
      BY <1>0, <2>2, <2>4, <2>5, <2>7, <3>1, <3>2 DEF TypeOK
    <3>5. state' = "header" => body' = <<>>
      BY <2>5, <3>1, EmptySeq
    <3>6. PayloadInv'
      BY <1>0, <2>5, <3>1, <3>2, <3>3, <3>5 DEF PayloadInv, Masking, Clear
    <3> QED
      BY <3>4, <3>6 DEF Inv
  <2> QED
    BY <1>5, <2>a, <2>b
<1>6. CASE Fill
  <2>1. PICK k \in 1 .. Outstanding :
          /\ arrived' = k /\ body' = Unmasked(body, Min2(rd_remain, k))
          /\ rd_key' = (rd_key + Min2(rd_remain, k)) % 4
    BY <1>6 DEF Fill, Rotated
  <2> DEFINE m == Min2(rd_remain, k)
  <2>2. arrived = 0 /\ state = "payload"
        /\ UNCHANGED <<wire, rd_remain, rd_size, state, n, given>>
    BY <1>6 DEF Fill
  <2>3. k \in Nat /\ m \in Nat /\ m <= rd_remain /\ m <= k /\ m \in {rd_remain, k}
    BY <1>0, Minimum
  <2>4. rd_key' = (rd_key + m) % 4 /\ body' = Unmasked(body, m)
    BY <2>1
  <2> HIDE DEF m
  <2>5. /\ body' \in Seq(Bytes) /\ Len(body') = Len(body)
        /\ \A i \in 1 .. Len(body) : body'[i].at = body[i].at
        /\ \A i \in 1 .. Len(body) : body'[i].clear <=> i <= m
    BY <1>0, <2>2, <2>3, <2>4, Unmasking
  <2>6. rd_key' \in 0 .. 3
    BY <1>0, <2>3, <2>4
  <2>7. Masking(body', arrived', rd_key')
    <3> SUFFICES ASSUME NEW i \in 1 .. Len(body)
                 PROVE  IF i <= k THEN body'[i].clear
                        ELSE ~body'[i].clear /\ body'[i].at = (rd_key' + i - 1 - k) % 4
      BY <2>1, <2>5 DEF Masking
    <3>1. CASE i <= k
      BY <1>0, <2>3, <2>5, <3>1
    <3>2. CASE ~(i <= k)
      <4>1. m = k
        BY <1>0, <2>3, <3>2
      <4>2. body[i].at = (rd_key + i - 1) % 4
        BY <1>0, <2>2 DEF Masking
      <4>3. (((rd_key + k) % 4) + i - 1 - k) % 4 = (rd_key + i - 1) % 4
        BY <1>0, <2>3
      <4> QED
        BY <2>3, <2>4, <2>5, <3>2, <4>1, <4>2, <4>3
    <3> QED
      BY <3>1, <3>2
  <2>8. TypeOK'
    BY <1>0, <2>1, <2>2, <2>3, <2>5, <2>6 DEF TypeOK
  <2>9. PayloadInv'
    BY <1>0, <2>2, <2>5, <2>7 DEF PayloadInv, Masking, Clear
  <2> QED
    BY <2>8, <2>9 DEF Inv
<1>7. CASE Copy
  <2> DEFINE k == Min2(n, Min2(rd_remain, arrived))
  <2>1. /\ state = "payload" /\ Delivers(SubSeq(body, 1, k)) /\ arrived' = arrived - k
        /\ body' = SubSeq(body, k + 1, Len(body)) /\ UNCHANGED <<wire, rd_key, n>>
    BY <1>7 DEF Copy
  <2>2. k \in Nat /\ k <= rd_remain /\ k <= arrived
    <3>1. /\ Min2(rd_remain, arrived) \in Nat /\ Min2(rd_remain, arrived) <= rd_remain
          /\ Min2(rd_remain, arrived) <= arrived
      BY <1>0, Minimum
    <3>2. k \in Nat /\ k <= Min2(rd_remain, arrived)
      BY <1>0, <3>1, Minimum
    <3> QED
      BY <1>0, <3>1, <3>2
  <2> HIDE DEF k
  <2>3. k \in 0 .. Len(body)
    BY <1>0, <2>2
  <2>4. \A i \in 1 .. k : body[i].clear
    BY <1>0, <2>2, <2>3 DEF Masking
  <2>5. SubSeq(body, 1, k) \in Seq(Bytes) /\ Len(SubSeq(body, 1, k)) = k
        /\ Clear(SubSeq(body, 1, k))
    BY <1>0, <2>3, <2>4, FirstBytes
  <2>6. Masking(body', arrived', rd_key')
    BY <1>0, <2>1, <2>2, <2>3, BackMasking DEF Masking
  <2>7. /\ k \in 0 .. rd_remain /\ body' = SubSeq(body, k + 1, Len(body))
        /\ arrived' \in Nat /\ rd_key' \in 0 .. 3
    BY <1>0, <2>1, <2>2
  <2> QED
    BY <2>1, <2>5, <2>6, <2>7, Delivered
<1>8. CASE Direct
  <2>1. PICK k \in (1 .. Outstanding) \cap (1 .. Min2(rd_remain, n)) :
          /\ Delivers(SubSeq(Unmasked(body, k), 1, k)) /\ rd_key' = (rd_key + k) % 4
          /\ body' = SubSeq(body, k + 1, Len(body))
    BY <1>8 DEF Direct, Rotated
  <2>2. state = "payload" /\ arrived = 0 /\ UNCHANGED <<wire, arrived, n>>
    BY <1>8 DEF Direct
  <2>3. k \in 1 .. Len(body)
    <3>1. Min2(rd_remain, n) \in Nat /\ Min2(rd_remain, n) <= Len(body)
      BY <1>0, Minimum
    <3> QED
      BY <1>0, <3>1
  <2> DEFINE u == Unmasked(body, k)
  <2>4. /\ u \in Seq(Bytes) /\ Len(u) = Len(body)
        /\ \A i \in 1 .. Len(body) : u[i].clear <=> i <= k
    BY <1>0, <2>2, <2>3, Unmasking
  <2>5. Delivers(SubSeq(u, 1, k))
    BY <2>1
  <2> HIDE DEF u
  <2>6. \A i \in 1 .. k : u[i].clear
    BY <1>0, <2>3, <2>4
  <2>7. SubSeq(u, 1, k) \in Seq(Bytes) /\ Len(SubSeq(u, 1, k)) = k /\ Clear(SubSeq(u, 1, k))
    BY <2>3, <2>4, <2>6, FirstBytes
  <2>8. /\ body' \in Seq(Bytes) /\ Len(body') = Len(body) - k
        /\ \A i \in 1 .. Len(body) - k : body'[i] = body[k + i]
    BY <1>0, <2>1, <2>3, Back
  <2>9. Masking(body', arrived', rd_key')
    <3> SUFFICES ASSUME NEW i \in 1 .. Len(body) - k
                 PROVE  /\ ~(i <= 0) /\ ~body'[i].clear
                        /\ body'[i].at = (rd_key' + i - 1 - 0) % 4
      BY <2>2, <2>8 DEF Masking
    <3>1. k + i \in 1 .. Len(body) /\ body'[i] = body[k + i] /\ ~(k + i <= 0)
      BY <1>0, <2>3, <2>8
    <3>2. ~body[k + i].clear /\ body[k + i].at = (rd_key + (k + i) - 1 - 0) % 4
      BY <1>0, <2>2, <3>1 DEF Masking
    <3>3. (((rd_key + k) % 4) + i - 1 - 0) % 4 = (rd_key + (k + i) - 1 - 0) % 4
      BY <1>0, <2>3
    <3> QED
      BY <1>0, <2>1, <3>1, <3>2, <3>3
  <2>10. k \in 0 .. rd_remain /\ arrived' \in Nat /\ rd_key' \in 0 .. 3
    BY <1>0, <2>1, <2>2, <2>3
  <2> QED
    BY <2>1, <2>2, <2>5, <2>7, <2>9, <2>10, Delivered
<1>9. CASE Nothing
  <2>1. /\ state' = "idle"
        /\ UNCHANGED <<wire, body, arrived, rd_remain, rd_size, rd_key, n, given>>
    BY <1>9 DEF Nothing
  <2>2. Clear(given')
    BY <1>0, <2>1 DEF Clear
  <2> QED
    BY <1>0, <2>1, <2>2, PayloadSame DEF Inv, TypeOK
<1>10. CASE UNCHANGED vars
  <2>1. UNCHANGED <<wire, body, arrived, rd_remain, rd_size, rd_key, n, given, state>>
    BY <1>10 DEF vars, readVars
  <2>2. Clear(given')
    BY <1>0, <2>1 DEF Clear
  <2> QED
    BY <1>0, <2>1, <2>2, PayloadSame DEF Inv, TypeOK
<1> QED
  BY <1>1, <1>2, <1>3, <1>4, <1>5, <1>6, <1>7, <1>8, <1>9, <1>10 DEF Next

\* However the bytes arrive and whatever the sizes of the buffers, what is handed out
\* has been unmasked once with the right bytes of the key, and no message is longer
\* than rd_msg_max.
THEOREM PayloadIsIntact == Spec => []PayloadIntact
<1>1. Inv => PayloadIntact
  <2> SUFFICES ASSUME Inv PROVE PayloadIntact
    OBVIOUS
  <2>1. Len(body) \in Nat
    BY LenProperties DEF Inv, TypeOK
  <2>2. rd_size <= MsgMax
    BY <2>1, Bounds DEF Inv, TypeOK, PayloadInv
  <2> QED
    BY <2>2 DEF Inv, PayloadInv, Clear, PayloadIntact
<1> QED
  BY <1>1, InitInv, StepInv, PTL DEF Spec
-----------------------------------------------------------------------------
(* The forms of a code point *)

\* The length of the code point that a byte leads
LEMMA Lengths ==
  ASSUME NEW b \in Nat
  PROVE \/ Needed(b) = 0 /\ (b \in 128 .. 191 \/ b >= 248)
        \/ Needed(b) = 1 /\ b < 128
        \/ Needed(b) = 2 /\ b \in 192 .. 223
        \/ Needed(b) = 3 /\ b \in 224 .. 239
        \/ Needed(b) = 4 /\ b \in 240 .. 247
  BY DEF Needed

\* The rows of Forms that begin with a, with a and b, and so on
Leads1(a) == \E f \in Forms : a \in f[1] /\ 1 <= Len(f)
Leads2(a, b) == \E f \in Forms : a \in f[1] /\ b \in f[2] /\ 2 <= Len(f)
Leads3(a, b, c) == \E f \in Forms : a \in f[1] /\ b \in f[2] /\ c \in f[3] /\ 3 <= Len(f)
Leads4(a, b, c, d) == \E f \in Forms : a \in f[1] /\ b \in f[2] /\ c \in f[3] /\ d \in f[4] /\ 4 <= Len(f)

LEMMA Row1 ==
  ASSUME NEW a \in Nat
  PROVE  Leads1(a) <=> a < 128 \/ a \in 194 .. 244
  BY DEF Forms, Leads1

\* The second byte of a form
Second(a, b) ==
  /\ b \in 128 .. 191
  /\ a = 224 => b >= 160
  /\ a = 237 => b < 160
  /\ a = 240 => b >= 144
  /\ a = 244 => b <= 143

LEMMA Row2 ==
  ASSUME NEW a \in Nat, NEW b \in Nat
  PROVE  Leads2(a, b) <=> a \in 194 .. 244 /\ Second(a, b)
  BY DEF Forms, Tail1, Second, Leads2

LEMMA Row3 ==
  ASSUME NEW a \in Nat, NEW b \in Nat, NEW c \in Nat
  PROVE  Leads3(a, b, c) <=> a \in 224 .. 244 /\ Second(a, b) /\ c \in 128 .. 191
  BY DEF Forms, Tail1, Second, Leads3

LEMMA Row4 ==
  ASSUME NEW a \in Nat, NEW b \in Nat, NEW c \in Nat, NEW d \in Nat
  PROVE  Leads4(a, b, c, d) <=> a \in 240 .. 244 /\ Second(a, b) /\ c \in 128 .. 191 /\ d \in 128 .. 191
  BY DEF Forms, Tail1, Second, Leads4

\* The first bytes of a code point, as the checker judges them: the beginning of one
\* of the forms
LEMMA Judgement == 
  ASSUME NEW p \in Seq(Nat), p # <<>>, Needed(p[1]) > 0, Len(p) <= Needed(p[1])
  PROVE BeginsCodePoint(p) <=> ~Wrong(p)
<1>1. Len(p) \in Nat /\ Len(p) # 0 /\ \A i \in 1 .. Len(p) : p[i] \in Nat
  BY EmptySeq, LenProperties, ElementOfSeq
<1> DEFINE a == p[1] b == p[2] c == p[3] d == p[4] k == Len(p)
<1>2. a \in Nat /\ k \in Nat \ {0} /\ Needed(a) > 0 /\ k <= Needed(a)
  BY <1>1
<1>3. (k >= 2 => b \in Nat) /\ (k >= 3 => c \in Nat) /\ (k >= 4 => d \in Nat)
  BY <1>1
<1>4. Wrong(p) <=> /\ a >= 128
                   /\ \/ a \in {192, 193} \/ a > 244
                      \/ k >= 2 /\ SecondBad(p)
                      \/ \E i \in 3 .. k : ~(p[i] \in 128 .. 191)
  BY DEF Wrong, Continues
<1>5. b \in Nat => (SecondBad(p) <=> ~Second(a, b))
  BY <1>2 DEF SecondBad, Continues, Second
<1>6. BeginsCodePoint(p) <=> \E f \in Forms : k <= Len(f) /\ \A i \in 1 .. k : p[i] \in f[i]
  BY DEF BeginsCodePoint, Begins
<1> HIDE DEF a, b, c, d, k
<1>l. /\ Needed(a) = 1 <=> a < 128
      /\ Needed(a) >= 2 <=> a >= 192
      /\ Needed(a) >= 3 <=> a >= 224
      /\ Needed(a) >= 4 <=> a >= 240
      /\ a < 248 /\ ~(a \in 128 .. 191) /\ Needed(a) \in 1 .. 4
  BY <1>2, Lengths
<1>7. CASE k = 1
  <2>1. 1 .. k = {1} /\ 3 .. k = {}
    BY <1>7
  <2>2. BeginsCodePoint(p) <=> Leads1(a)
    BY <1>6, <1>7, <2>1 DEF Leads1, a, b, c, d, k
  <2>3. Wrong(p) <=> a >= 128 /\ (a \in {192, 193} \/ a > 244)
    BY <1>4, <1>7, <2>1 DEF a, b, c, d, k
  <2>4. Leads1(a) <=> a < 128 \/ a \in 194 .. 244
    BY <1>2, <1>7, Row1
  <2> QED
    BY <1>2, <1>7, <1>l, <2>2, <2>3, <2>4
<1>8. CASE k = 2
  <2>1. 1 .. k = {1, 2} /\ 3 .. k = {}
    BY <1>8
  <2>2. BeginsCodePoint(p) <=> Leads2(a, b)
    BY <1>6, <1>8, <2>1 DEF Leads2, a, b, c, d, k
  <2>3. Wrong(p) <=> a >= 128 /\ (a \in {192, 193} \/ a > 244 \/ SecondBad(p))
    BY <1>4, <1>8, <2>1 DEF a, b, c, d, k
  <2>4. Leads2(a, b) <=> a \in 194 .. 244 /\ Second(a, b)
    BY <1>2, <1>3, <1>8, Row2
  <2> QED
    BY <1>2, <1>3, <1>5, <1>8, <1>l, <2>2, <2>3, <2>4
<1>9. CASE k = 3
  <2>1. 1 .. k = {1, 2, 3} /\ 3 .. k = {3}
    BY <1>9
  <2>2. BeginsCodePoint(p) <=> Leads3(a, b, c)
    BY <1>6, <1>9, <2>1 DEF Leads3, a, b, c, d, k
  <2>3. Wrong(p) <=> a >= 128 /\ (a \in {192, 193} \/ a > 244 \/ SecondBad(p) \/ ~(c \in 128 .. 191))
    BY <1>4, <1>9, <2>1 DEF a, b, c, d, k
  <2>0. b \in Nat /\ c \in Nat
    BY <1>3, <1>9
  <2>4. Leads3(a, b, c) <=> a \in 224 .. 244 /\ Second(a, b) /\ c \in 128 .. 191
    BY <1>2, <2>0, Row3
  <2> QED
    BY <1>2, <1>3, <1>5, <1>9, <1>l, <2>2, <2>3, <2>4
<1>10. CASE k = 4
  <2>1. 1 .. k = {1, 2, 3, 4} /\ 3 .. k = {3, 4}
    BY <1>10
  <2>2. BeginsCodePoint(p) <=> Leads4(a, b, c, d)
    BY <1>6, <1>10, <2>1 DEF Leads4, a, b, c, d, k
  <2>3. Wrong(p) <=> /\ a >= 128
                     /\ \/ a \in {192, 193} \/ a > 244 \/ SecondBad(p)
                        \/ ~(c \in 128 .. 191) \/ ~(d \in 128 .. 191)
    BY <1>4, <1>10, <2>1 DEF a, b, c, d, k
  <2>0. b \in Nat /\ c \in Nat /\ d \in Nat
    BY <1>3, <1>10
  <2>4. Leads4(a, b, c, d) <=> a \in 240 .. 244 /\ Second(a, b) /\ c \in 128 .. 191 /\ d \in 128 .. 191
    BY <1>2, <2>0, Row4
  <2> QED
    BY <1>2, <1>3, <1>5, <1>10, <1>l, <2>2, <2>3, <2>4
<1> QED
  BY <1>2, <1>l, <1>7, <1>8, <1>9, <1>10


LEMMA FormLength ==
  ASSUME NEW f \in Forms, NEW a \in f[1]
  PROVE  a \in Nat /\ Needed(a) > 0 /\ Len(f) = Needed(a)
<1>1. a \in 0 .. 244 /\ Len(f) \in 1 .. 4
      /\ (Len(f) = 1 <=> a < 128) /\ (Len(f) = 2 <=> a \in 194 .. 223)
      /\ (Len(f) = 3 <=> a \in 224 .. 239) /\ (Len(f) = 4 <=> a \in 240 .. 244)
  BY DEF Forms
<1>2. a \in Nat /\ Len(f) \in Nat
  BY <1>1
<1>3. CASE Len(f) = 1
  <2>1. Needed(a) = 1
    BY <1>1, <1>2, <1>3, Lengths
  <2> QED
    BY <1>2, <1>3, <2>1
<1>4. CASE Len(f) = 2
  <2>1. Needed(a) = 2
    BY <1>1, <1>2, <1>4, Lengths
  <2> QED
    BY <1>2, <1>4, <2>1
<1>5. CASE Len(f) = 3
  <2>1. Needed(a) = 3
    BY <1>1, <1>2, <1>5, Lengths
  <2> QED
    BY <1>2, <1>5, <2>1
<1>6. CASE Len(f) = 4
  <2>1. Needed(a) = 4
    BY <1>1, <1>2, <1>6, Lengths
  <2> QED
    BY <1>2, <1>6, <2>1
<1> QED
  BY <1>1, <1>3, <1>4, <1>5, <1>6

LEMMA CodePoints ==
  ASSUME NEW p \in Seq(Nat), p # <<>>
  PROVE  /\ BeginsCodePoint(p) => Needed(p[1]) > 0 /\ Len(p) <= Needed(p[1])
         /\ IsCodePoint(p) <=> BeginsCodePoint(p) /\ Len(p) = Needed(p[1])
<1>1. Len(p) \in Nat /\ 1 \in 1 .. Len(p)
  BY EmptySeq, LenProperties
<1>2. ASSUME NEW f \in Forms, Begins(p, f)
      PROVE  Needed(p[1]) > 0 /\ Len(p) <= Needed(p[1]) /\ Len(f) = Needed(p[1])
  <2>1. p[1] \in f[1] /\ Len(p) <= Len(f)
    BY <1>1, <1>2 DEF Begins
  <2> QED
    BY <2>1, FormLength
<1> QED
  BY <1>2 DEF BeginsCodePoint, IsCodePoint

LEMMA Shorter ==
  ASSUME NEW p \in Seq(Nat), NEW b \in Nat, BeginsCodePoint(Append(p, b))
  PROVE  BeginsCodePoint(p)
<1>1. PICK f \in Forms : Begins(Append(p, b), f)
  BY DEF BeginsCodePoint
<1>2. Len(Append(p, b)) = Len(p) + 1 /\ Len(p) \in Nat
      /\ \A i \in 1 .. Len(p) : Append(p, b)[i] = p[i]
  BY AppendProperties, LenProperties
<1>4. Len(f) \in Nat
  BY DEF Forms
<1>3. Begins(p, f)
  <2>1. Len(p) <= Len(f)
    BY <1>1, <1>2, <1>4 DEF Begins
  <2>2. ASSUME NEW i \in 1 .. Len(p) PROVE p[i] \in f[i]
    BY <1>1, <1>2 DEF Begins
  <2> QED
    BY <2>1, <2>2 DEF Begins
<1> QED
  BY <1>3 DEF BeginsCodePoint
-----------------------------------------------------------------------------
(* Induction.  The theorems of the library on induction take a predicate, which
   the provers cannot instantiate; these take a set.                         *)

LEMMA LeastNumber ==
  ASSUME NEW A, A \subseteq Nat, A # {}
  PROVE  \E m \in A : \A k \in A : m <= k
<1> DEFINE Below == {0 .. (k - 1) : k \in A}
<1>1. Below \subseteq FiniteSubsetsOf(Nat)
  <2>1. \A k \in A : IsFiniteSet(0 .. (k - 1)) /\ 0 .. (k - 1) \subseteq Nat
    BY FS_Interval
  <2> QED
    BY <2>1 DEF FiniteSubsetsOf
<1>2. Below # {}
  OBVIOUS
<1>3. PICK x \in Below : \A y \in Below : ~(<<y, x>> \in StrictSubsetOrdering(Nat))
  <2>1. IsWellFoundedOn(StrictSubsetOrdering(Nat), FiniteSubsetsOf(Nat))
    BY FS_StrictSubsetOrderingWellFounded
  <2> HIDE DEF Below
  <2> QED
    BY <1>1, <1>2, <2>1, WFMin
<1>4. PICK m \in A : x = 0 .. (m - 1)
  OBVIOUS
<1>5. ASSUME NEW k \in A, k < m PROVE FALSE
  <2>1. 0 .. (k - 1) \in Below /\ m \in Nat /\ k \in Nat
    OBVIOUS
  <2>2. 0 .. (k - 1) \subseteq x /\ k \in x /\ k \notin 0 .. (k - 1)
    BY <1>4, <1>5, <2>1
  <2>3. <<0 .. (k - 1), x>> \in StrictSubsetOrdering(Nat)
    BY <2>1, <2>2, <1>4 DEF StrictSubsetOrdering
  <2> QED
    BY <1>3, <2>1, <2>3
<1> QED
  BY <1>5

LEMMA Induction ==
  ASSUME NEW A, 0 \in A, \A k \in Nat : k \in A => k + 1 \in A
  PROVE  Nat \subseteq A
<1> DEFINE B == Nat \ A
<1> SUFFICES ASSUME B # {} PROVE FALSE
  OBVIOUS
<1>1. PICK m \in B : \A k \in B : m <= k
  BY LeastNumber
<1>2. m \in Nat \ {0} /\ m - 1 \in Nat /\ ~(m <= m - 1)
  OBVIOUS
<1>3. m - 1 \in A
  BY <1>1, <1>2
<1> QED
  BY <1>2, <1>3

-----------------------------------------------------------------------------
(* The encoding, byte by byte *)

Adder(t, s) == CHOOSE add : add = [i \in 0 .. Len(s) |-> IF i = 0 THEN t ELSE AddByte(add[i - 1], s[i])]

LEMMA AddBytesIs == \A t, s : AddBytes(t, s) = Adder(t, s)[Len(s)]
  BY DEF AddBytes, Adder

IsAdder(add, t, s, m) ==
  add = [i \in 0 .. m |-> IF i = 0 THEN t ELSE AddByte(add[i - 1], s[i])]

LEMMA AdderIs ==
  ASSUME NEW t, NEW s \in Seq(Nat)
  PROVE  /\ Adder(t, s)[0] = t
         /\ \A i \in 1 .. Len(s) : Adder(t, s)[i] = AddByte(Adder(t, s)[i - 1], s[i])
<1>0. Len(s) \in Nat
  BY LenProperties
<1> DEFINE A == {m \in Nat : m <= Len(s) => \E add : IsAdder(add, t, s, m)}
<1>1. 0 \in A
  <2> DEFINE g == [i \in 0 .. 0 |-> t]
  <2>1. g = [i \in 0 .. 0 |-> IF i = 0 THEN t ELSE AddByte(g[i - 1], s[i])]
    OBVIOUS
  <2>2. IsAdder(g, t, s, 0)
    BY <2>1 DEF IsAdder
  <2> QED
    BY <2>2
<1>2. ASSUME NEW m \in Nat, m \in A PROVE m + 1 \in A
  <2> SUFFICES ASSUME m + 1 <= Len(s) PROVE \E add : IsAdder(add, t, s, m + 1)
    OBVIOUS
  <2>0. \E add : IsAdder(add, t, s, m)
    BY <1>0, <1>2
  <2>1. PICK g : g = [i \in 0 .. m |-> IF i = 0 THEN t ELSE AddByte(g[i - 1], s[i])]
    BY <2>0 DEF IsAdder
  <2> DEFINE h == [i \in 0 .. m + 1 |-> IF i <= m THEN g[i] ELSE AddByte(g[m], s[i])]
  <2>2. \A i \in 0 .. m + 1 : h[i] = IF i = 0 THEN t ELSE AddByte(h[i - 1], s[i])
    <3> SUFFICES ASSUME NEW i \in 0 .. m + 1 PROVE h[i] = IF i = 0 THEN t ELSE AddByte(h[i - 1], s[i])
      OBVIOUS
    <3>1. CASE i = 0
      BY <2>1, <3>1
    <3>2. CASE i \in 1 .. m
      BY <2>1, <3>2
    <3>3. CASE i = m + 1
      <4>1. h[m] = g[m] /\ i - 1 = m /\ i # 0 /\ ~(i <= m)
        BY <3>3
      <4>2. h[i] = AddByte(g[m], s[i])
        BY <4>1
      <4> QED
        BY <4>1, <4>2
    <3> QED
      BY <3>1, <3>2, <3>3
  <2>3. h = [i \in 0 .. m + 1 |-> IF i = 0 THEN t ELSE AddByte(h[i - 1], s[i])]
    BY <2>2
  <2>4. IsAdder(h, t, s, m + 1)
    BY <2>3 DEF IsAdder
  <2> QED
    BY <2>4
<1>3. Len(s) \in A
  <2> HIDE DEF A
  <2> QED
    BY <1>0, <1>1, <1>2, Induction
<1>4. \E add : add = [i \in 0 .. Len(s) |-> IF i = 0 THEN t ELSE AddByte(add[i - 1], s[i])]
  BY <1>0, <1>3 DEF IsAdder
<1>5. Adder(t, s) = [i \in 0 .. Len(s) |-> IF i = 0 THEN t ELSE AddByte(Adder(t, s)[i - 1], s[i])]
  BY <1>4 DEF Adder
<1> QED
  BY <1>0, <1>5
\* What is against the encoding is against it for good
LEMMA StaysRefused ==
  ASSUME NEW t, NEW s \in Seq(Nat), NEW i \in 0 .. Len(s), ~Adder(t, s)[i].proper
  PROVE  \A k \in i .. Len(s) : Adder(t, s)[k] = Adder(t, s)[i]
<1>0. Len(s) \in Nat
  BY LenProperties
<1> DEFINE x == Adder(t, s)[i]
           A == {m \in Nat : i + m <= Len(s) => Adder(t, s)[i + m] = x}
<1>1. 0 \in A
  BY <1>0
<1>2. ASSUME NEW m \in Nat, m \in A PROVE m + 1 \in A
  <2> SUFFICES ASSUME i + (m + 1) <= Len(s) PROVE Adder(t, s)[i + (m + 1)] = x
    OBVIOUS
  <2>1. Adder(t, s)[i + m] = x
    BY <1>0, <1>2
  <2>2. i + (m + 1) \in 1 .. Len(s) /\ i + (m + 1) - 1 = i + m
    BY <1>0
  <2>3. Adder(t, s)[i + (m + 1)] = AddByte(x, s[i + (m + 1)])
    BY <2>1, <2>2, AdderIs
  <2> QED
    BY <2>3 DEF AddByte
<1> HIDE DEF A
<1>3. Nat \subseteq A
  BY <1>1, <1>2, Induction
<1> SUFFICES ASSUME NEW k \in i .. Len(s) PROVE Adder(t, s)[k] = x
  OBVIOUS
<1>4. k - i \in Nat /\ i + (k - i) = k /\ k <= Len(s)
  BY <1>0
<1>5. k - i \in A
  BY <1>3, <1>4
<1> QED
  BY <1>4, <1>5 DEF A

\* The beginning of a code point that c and the first m bytes behind position a make
With(c, s, a, m) == c \o SubSeq(s, a + 1, a + m)

LEMMA WithIs ==
  ASSUME NEW c \in Seq(Nat), NEW s \in Seq(Nat), NEW a \in Nat, NEW m \in Nat, a + m <= Len(s)
  PROVE  /\ With(c, s, a, m) \in Seq(Nat) /\ Len(With(c, s, a, m)) = Len(c) + m
         /\ m = 0 => With(c, s, a, m) = c
         /\ \A i \in 1 .. Len(c) + m :
              With(c, s, a, m)[i] = IF i <= Len(c) THEN c[i] ELSE s[a + i - Len(c)]
<1>0. /\ Len(s) \in Nat /\ Len(c) \in Nat /\ \A i \in 1 .. Len(s) : s[i] \in Nat
  BY LenProperties, ElementOfSeq
<1> DEFINE u == SubSeq(s, a + 1, a + m)
<1>1. /\ u \in Seq(Nat) /\ Len(u) = m
      /\ \A i \in 1 .. m : u[i] = s[a + i]
  BY <1>0, SubSeqProperties
<1>2. m = 0 => u = <<>>
  BY <1>1, EmptySeq
<1> HIDE DEF u
<1>3. /\ c \o u \in Seq(Nat) /\ Len(c \o u) = Len(c) + m
      /\ \A i \in 1 .. Len(c) + m : (c \o u)[i] = IF i <= Len(c) THEN c[i] ELSE u[i - Len(c)]
  BY <1>0, <1>1, ConcatProperties
<1>4. With(c, s, a, m) = c \o u
  BY DEF With, u
<1>5. m = 0 => With(c, s, a, m) = c
  BY <1>2, <1>4, ConcatEmptySeq
<1>6. ASSUME NEW i \in 1 .. Len(c) + m, ~(i <= Len(c))
      PROVE  u[i - Len(c)] = s[a + i - Len(c)]
  <2>1. i - Len(c) \in 1 .. m /\ a + (i - Len(c)) = a + i - Len(c)
    BY <1>0, <1>6
  <2> QED
    BY <1>1, <2>1
<1> QED
  BY <1>3, <1>4, <1>5, <1>6

LEMMA NextAfter ==
  ASSUME NEW x \in Nat, NEW m \in Nat, NEW a \in Nat, NEW i \in 1 .. x + (m + 1)
  PROVE  \/ i \in 1 .. x + m
         \/ i = x + m + 1 /\ ~(i <= x) /\ a + i - x = a + m + 1 /\ ~(i <= x + m)
  OBVIOUS

LEMMA WithMore ==
  ASSUME NEW c \in Seq(Nat), NEW s \in Seq(Nat), NEW a \in Nat, NEW m \in Nat, a + m < Len(s)
  PROVE  With(c, s, a, m + 1) = Append(With(c, s, a, m), s[a + m + 1])
<1> DEFINE v == With(c, s, a, m)
           w == With(c, s, a, m + 1)
           z == Append(v, s[a + m + 1])
<1>0. Len(s) \in Nat /\ Len(c) \in Nat /\ \A i \in 1 .. Len(s) : s[i] \in Nat
  BY LenProperties, ElementOfSeq
<1>1. /\ v \in Seq(Nat) /\ Len(v) = Len(c) + m
      /\ \A i \in 1 .. Len(c) + m : v[i] = IF i <= Len(c) THEN c[i] ELSE s[a + i - Len(c)]
  <2>1. a + m <= Len(s)
    BY <1>0
  <2> HIDE DEF w, z
  <2> QED
    BY <2>1, WithIs
<1>2. /\ w \in Seq(Nat) /\ Len(w) = Len(c) + (m + 1)
      /\ \A i \in 1 .. Len(c) + (m + 1) : w[i] = IF i <= Len(c) THEN c[i] ELSE s[a + i - Len(c)]
  <2>1. m + 1 \in Nat /\ a + (m + 1) <= Len(s)
    BY <1>0
  <2> HIDE DEF v, z
  <2> QED
    BY <2>1, WithIs
<1>3. s[a + m + 1] \in Nat
  BY <1>0
<1> HIDE DEF v, w
<1>4. /\ z \in Seq(Nat) /\ Len(z) = Len(v) + 1
      /\ (\A i \in 1 .. Len(v) : z[i] = v[i]) /\ z[Len(v) + 1] = s[a + m + 1]
  BY <1>1, <1>3, AppendProperties
<1> HIDE DEF z
<1>5. ASSUME NEW i \in 1 .. Len(w) PROVE w[i] = z[i]
  <2>0. i \in 1 .. Len(c) + (m + 1) /\ Len(c) \in Nat
    BY <1>0, <1>2
  <2>1. CASE i \in 1 .. Len(c) + m
    <3>1. i \in 1 .. Len(v)
      BY <1>1, <2>1
    <3>2. z[i] = v[i]
      BY <1>4, <3>1
    <3> QED
      BY <1>1, <1>2, <2>0, <2>1, <3>2
  <2>2. CASE i = Len(c) + m + 1 /\ ~(i <= Len(c)) /\ a + i - Len(c) = a + m + 1
    <3>1. i = Len(v) + 1
      BY <1>1, <2>2
    <3>2. w[i] = s[a + i - Len(c)]
      BY <1>2, <2>0, <2>2
    <3> QED
      BY <1>4, <2>2, <3>1, <3>2
  <2> QED
    BY <2>0, <2>1, <2>2, NextAfter
<1>6. Len(w) = Len(z)
  BY <1>0, <1>1, <1>2, <1>4
<1>7. w = z
  BY <1>2, <1>4, <1>5, <1>6, SeqEqual
<1> QED
  BY <1>7 DEF v, w, z

\* The byte that leads them
Lead(c, s, a) == IF c = <<>> THEN s[a + 1] ELSE c[1]

\* As far as the length goes that the lead promises, they are added one by one
LEMMA OneCodePoint ==
  ASSUME NEW c \in Seq(Nat), NEW s \in Seq(Nat), NEW a \in Nat, NEW t, c # <<>> \/ a < Len(s),
         a <= Len(s), Adder(t, s)[a] = [rest |-> c, proper |-> TRUE],
         BeginsCodePoint(c), ~IsCodePoint(c),
         NEW m \in Nat, a + m <= Len(s), Len(c) + m <= Needed(Lead(c, s, a))
  PROVE  /\ Adder(t, s)[a + m].proper <=> BeginsCodePoint(With(c, s, a, m))
         /\ Adder(t, s)[a + m].proper =>
              Adder(t, s)[a + m].rest = IF IsCodePoint(With(c, s, a, m)) THEN <<>> ELSE With(c, s, a, m)
<1> DEFINE L == Needed(Lead(c, s, a))
           Good(k) == /\ Adder(t, s)[a + k].proper <=> BeginsCodePoint(With(c, s, a, k))
                      /\ Adder(t, s)[a + k].proper =>
                           Adder(t, s)[a + k].rest =
                             IF IsCodePoint(With(c, s, a, k)) THEN <<>> ELSE With(c, s, a, k)
           A == {k \in Nat : a + k <= Len(s) /\ Len(c) + k <= L => Good(k)}
<1>0. /\ Len(s) \in Nat /\ Len(c) \in Nat /\ L \in Nat /\ \A i \in 1 .. Len(s) : s[i] \in Nat
      /\ (c = <<>> <=> Len(c) = 0)
  <2>1. /\ Len(s) \in Nat /\ Len(c) \in Nat /\ \A i \in 1 .. Len(s) : s[i] \in Nat
        /\ (c = <<>> <=> Len(c) = 0)
    BY LenProperties, ElementOfSeq, EmptySeq
  <2> QED
    BY <2>1 DEF Needed
<1>1. 0 \in A
  <2>1. With(c, s, a, 0) = c /\ a + 0 = a
    BY <1>0, WithIs
  <2> QED
    BY <2>1
<1>2. ASSUME NEW k \in Nat, k \in A PROVE k + 1 \in A
  <2> SUFFICES ASSUME a + (k + 1) <= Len(s), Len(c) + (k + 1) <= L PROVE Good(k + 1)
    OBVIOUS
  <2>0. /\ a + k < Len(s) /\ a + (k + 1) = a + k + 1 /\ a + k + 1 \in 1 .. Len(s)
        /\ a + k + 1 - 1 = a + k
    <3>1. Len(s) \in Nat
      BY <1>0
    <3> HIDE DEF A, Good, L
    <3> QED
      BY <3>1
  <2> DEFINE w == With(c, s, a, k)
             b == s[a + k + 1]
             x == Adder(t, s)[a + k]
  <2>1. Good(k)
    <3>1. a + k <= Len(s) /\ Len(c) + k <= L
      <4> HIDE DEF A, Good, L
      <4> QED
        BY <1>0, <2>0
    <3> QED
      BY <1>2, <3>1
  <2> HIDE DEF L
  <2>2. With(c, s, a, k + 1) = Append(w, b) /\ b \in Nat
    <3>1. With(c, s, a, k + 1) = Append(w, b)
      BY <2>0, WithMore
    <3> QED
      BY <1>0, <2>0, <3>1
  <2>3. Adder(t, s)[a + (k + 1)] = AddByte(x, b)
    <3>1. Adder(t, s)[a + k + 1] = AddByte(Adder(t, s)[a + k + 1 - 1], s[a + k + 1])
      BY <2>0, AdderIs
    <3>2. Adder(t, s)[a + k + 1] = AddByte(x, b)
      BY <2>0, <3>1
    <3> QED
      BY <2>0, <3>2
  <2>4. w \in Seq(Nat) /\ Len(w) = Len(c) + k
        /\ (w # <<>> => w[1] = Lead(c, s, a))
    <3>1. /\ w \in Seq(Nat) /\ Len(w) = Len(c) + k
          /\ \A i \in 1 .. Len(c) + k : w[i] = IF i <= Len(c) THEN c[i] ELSE s[a + i - Len(c)]
      <4>1. a + k <= Len(s)
        BY <1>0, <2>0
      <4> QED
        BY <4>1, WithIs
    <3> HIDE DEF w
    <3>2. w # <<>> => 1 \in 1 .. Len(c) + k
      BY <1>0, <3>1, EmptySeq
    <3>3. ASSUME w # <<>> PROVE w[1] = Lead(c, s, a)
      <4>1. CASE c = <<>>
        <5>1. w[1] = s[a + 1 - 0]
          BY <1>0, <3>1, <3>2, <3>3, <4>1
        <5>2. a + 1 - 0 = a + 1
          OBVIOUS
        <5> QED
          BY <4>1, <5>1, <5>2 DEF Lead
      <4>2. CASE c # <<>>
        BY <1>0, <3>1, <3>2, <3>3, <4>2 DEF Lead
      <4> QED
        BY <4>1, <4>2
    <3> QED
      BY <3>1, <3>3
  <2>5. ~IsCodePoint(w)
    <3>1. CASE k = 0
      <4>1. w = c
        <5>1. a + 0 <= Len(s)
          BY <1>0, <2>0
        <5>2. With(c, s, a, 0) = c
          BY <5>1, WithIs
        <5> QED
          BY <3>1, <5>2
      <4> QED
        BY <4>1
    <3>2. CASE k # 0
      <4> HIDE DEF w, L
      <4>1. w # <<>>
        BY <1>0, <2>4, <3>2, EmptySeq
      <4>2. Len(w) # L
        BY <1>0, <2>4
      <4>3. IsCodePoint(w) => Len(w) = Needed(w[1])
        BY <2>4, <4>1, CodePoints
      <4> QED
        BY <2>4, <4>1, <4>2, <4>3 DEF L
    <3> QED
      BY <3>1, <3>2
  <2>6. CASE x.proper
    <3>1. x.rest = w
      BY <2>1, <2>5, <2>6
    <3>2. AddByte(x, b) = [rest |-> IF IsCodePoint(Append(w, b)) THEN <<>> ELSE Append(w, b),
                           proper |-> BeginsCodePoint(Append(w, b))]
      BY <2>6, <3>1 DEF AddByte
    <3> HIDE DEF w, b, x
    <3>3. /\ Adder(t, s)[a + (k + 1)].proper = BeginsCodePoint(Append(w, b))
          /\ Adder(t, s)[a + (k + 1)].rest = IF IsCodePoint(Append(w, b)) THEN <<>> ELSE Append(w, b)
      BY <2>3, <3>2
    <3> QED
      BY <2>2, <3>3
  <2>7. CASE ~x.proper
    <3>1. AddByte(x, b) = x
      BY <2>7 DEF AddByte
    <3>2. ~BeginsCodePoint(w)
      BY <2>1, <2>7
    <3>3. ~BeginsCodePoint(Append(w, b))
      BY <2>2, <2>4, <3>2, Shorter
    <3> QED
      BY <2>2, <2>3, <2>7, <3>1, <3>3
  <2> QED
    BY <2>6, <2>7
<1> HIDE DEF A
<1>3. m \in A
  BY <1>1, <1>2, Induction
<1> QED
  BY <1>3 DEF A
-----------------------------------------------------------------------------
Judged == [rest : Seq(Nat), proper : BOOLEAN]
Clean == [rest |-> <<>>, proper |-> TRUE]

LEMMA AdderTypes ==
  ASSUME NEW t \in Judged, NEW s \in Seq(Nat)
  PROVE  \A k \in 0 .. Len(s) : Adder(t, s)[k] \in Judged
<1> DEFINE A == {k \in Nat : k <= Len(s) => Adder(t, s)[k] \in Judged}
<1>0. Len(s) \in Nat /\ \A i \in 1 .. Len(s) : s[i] \in Nat
  BY LenProperties, ElementOfSeq
<1>1. 0 \in A
  BY AdderIs
<1>2. ASSUME NEW k \in Nat, k \in A PROVE k + 1 \in A
  <2> SUFFICES ASSUME k + 1 <= Len(s) PROVE Adder(t, s)[k + 1] \in Judged
    OBVIOUS
  <2>1. k + 1 \in 1 .. Len(s) /\ k + 1 - 1 = k /\ k <= Len(s)
    BY <1>0
  <2> DEFINE x == Adder(t, s)[k]
             b == s[k + 1]
  <2>2. x \in Judged /\ b \in Nat
    BY <1>0, <1>2, <2>1
  <2>3. Adder(t, s)[k + 1] = AddByte(Adder(t, s)[k + 1 - 1], s[k + 1])
    BY <2>1, AdderIs
  <2>4. Adder(t, s)[k + 1] = AddByte(x, b)
    BY <2>1, <2>3
  <2> HIDE DEF x, b
  <2>5. x.rest \in Seq(Nat)
    BY <2>2 DEF Judged
  <2>6. Append(x.rest, b) \in Seq(Nat)
    BY <2>2, <2>5, AppendProperties
  <2>7. BeginsCodePoint(Append(x.rest, b)) \in BOOLEAN /\ <<>> \in Seq(Nat)
    BY EmptySeq DEF BeginsCodePoint
  <2>8. AddByte(x, b) \in Judged
    <3>1. CASE ~x.proper
      BY <2>2, <3>1 DEF AddByte
    <3>2. CASE x.proper
      <4>1. AddByte(x, b) = [rest |-> IF IsCodePoint(Append(x.rest, b)) THEN <<>> ELSE Append(x.rest, b),
                             proper |-> BeginsCodePoint(Append(x.rest, b))]
        BY <3>2 DEF AddByte
      <4> QED
        BY <2>6, <2>7, <4>1 DEF Judged
    <3> QED
      BY <3>1, <3>2
  <2> QED
    BY <2>4, <2>8
<1> HIDE DEF A
<1>3. Nat \subseteq A
  BY <1>1, <1>2, Induction
<1> QED
  BY <1>0, <1>3 DEF A

\* From somewhere on, the judgement is that of the rest
LEMMA Shifted ==
  ASSUME NEW t, NEW s \in Seq(Nat), NEW a \in 0 .. Len(s)
  PROVE  LET u == SubSeq(s, a + 1, Len(s))
         IN  /\ u \in Seq(Nat) /\ Len(u) = Len(s) - a
             /\ AddBytes(t, s) = AddBytes(Adder(t, s)[a], u)
<1> DEFINE u == SubSeq(s, a + 1, Len(s))
           x == Adder(t, s)[a]
           A == {k \in Nat : a + k <= Len(s) => Adder(t, s)[a + k] = Adder(x, u)[k]}
<1>0. Len(s) \in Nat /\ a \in Nat /\ a <= Len(s) /\ \A i \in 1 .. Len(s) : s[i] \in Nat
  BY LenProperties, ElementOfSeq
<1>1. /\ u \in Seq(Nat) /\ Len(u) = Len(s) - a
      /\ \A i \in 1 .. Len(s) - a : u[i] = s[a + i]
  BY <1>0, SubSeqProperties
<1> HIDE DEF u, x
<1>2. 0 \in A
  <2>1. Adder(x, u)[0] = x /\ a + 0 = a
    BY <1>0, <1>1, AdderIs
  <2> QED
    BY <2>1 DEF x
<1>3. ASSUME NEW k \in Nat, k \in A PROVE k + 1 \in A
  <2> SUFFICES ASSUME a + (k + 1) <= Len(s) PROVE Adder(t, s)[a + (k + 1)] = Adder(x, u)[k + 1]
    OBVIOUS
  <2>1. /\ a + k <= Len(s) /\ a + (k + 1) \in 1 .. Len(s) /\ a + (k + 1) - 1 = a + k
        /\ k + 1 \in 1 .. Len(s) - a /\ k + 1 - 1 = k
    <3> HIDE DEF A
    <3> QED
      BY <1>0
  <2>2. Adder(t, s)[a + k] = Adder(x, u)[k]
    BY <1>3, <2>1
  <2> HIDE DEF A
  <2>3. Adder(t, s)[a + (k + 1)] = AddByte(Adder(t, s)[a + (k + 1) - 1], s[a + (k + 1)])
    BY <2>1, AdderIs
  <2>4. Adder(x, u)[k + 1] = AddByte(Adder(x, u)[k + 1 - 1], u[k + 1])
    BY <1>1, <2>1, AdderIs
  <2>5. u[k + 1] = s[a + (k + 1)]
    BY <1>1, <2>1
  <2> QED
    BY <2>1, <2>2, <2>3, <2>4, <2>5
<1> HIDE DEF A
<1>4. Nat \subseteq A
  BY <1>2, <1>3, Induction
<1>5. Adder(t, s)[Len(s)] = Adder(x, u)[Len(u)]
  <2>1. Len(u) \in Nat /\ a + Len(u) = Len(s)
    BY <1>0, <1>1
  <2>2. Len(u) \in A
    BY <1>4, <2>1
  <2>3. a + Len(u) <= Len(s) => Adder(t, s)[a + Len(u)] = Adder(x, u)[Len(u)]
    BY <2>2 DEF A
  <2>4. Adder(t, s)[a + Len(u)] = Adder(x, u)[Len(u)]
    BY <1>0, <2>1, <2>3
  <2> QED
    BY <2>1, <2>4
<1> QED
  BY <1>1, <1>5, AddBytesIs DEF u, x

-----------------------------------------------------------------------------
(* The scan of a piece *)

Done == [ok |-> TRUE, cp |-> <<>>, need |-> 0]
Scanner(s) == CHOOSE f : f = [i \in 1 .. Len(s) + 4 |-> ScanFrom(s, i, f)]

LEMMA ScanIs == \A s : Scan(s) = Scanner(s)[1]
  BY DEF Scan, Scanner

LEMMA StepLooksAhead ==
  ASSUME NEW s \in Seq(Nat), NEW f, NEW g, NEW i \in 1 .. Len(s) + 4,
         \A j \in i + 1 .. Len(s) + 4 : f[j] = g[j]
  PROVE  ScanFrom(s, i, f) = ScanFrom(s, i, g)
<1>0. Len(s) \in Nat /\ \A j \in 1 .. Len(s) : s[j] \in Nat
  BY LenProperties, ElementOfSeq
<1>1. CASE i > Len(s)
  BY <1>1 DEF ScanFrom
<1>2. CASE ~(i > Len(s))
  <2> DEFINE k == Needed(s[i])
  <2>1. k \in 0 .. 4
    BY DEF Needed
  <2>2. f[i + k] = g[i + k] \/ k = 0 \/ k > Len(s) - i + 1
    <3>1. k = 0 \/ k > Len(s) - i + 1 \/ i + k \in i + 1 .. Len(s) + 4
      <4> HIDE DEF k
      <4> QED
        BY <1>0, <1>2, <2>1
    <3> QED
      BY <3>1
  <2> QED
    BY <1>2, <2>2 DEF ScanFrom
<1> QED
  BY <1>1, <1>2

IsScanner(g, s, m) == g = [i \in Len(s) + 5 - m .. Len(s) + 4 |-> ScanFrom(s, i, g)]

LEMMA ScannerIs ==
  ASSUME NEW s \in Seq(Nat)
  PROVE  \A i \in 1 .. Len(s) + 4 : Scanner(s)[i] = ScanFrom(s, i, Scanner(s))
<1>0. Len(s) \in Nat
  BY LenProperties
<1> DEFINE A == {m \in Nat : m <= Len(s) + 4 => \E g : IsScanner(g, s, m)}
<1>1. 0 \in A
  <2> DEFINE g == [i \in {} |-> 0]
  <2>1. Len(s) + 5 - 0 .. Len(s) + 4 = {}
    BY <1>0
  <2>2. g = [i \in Len(s) + 5 - 0 .. Len(s) + 4 |-> ScanFrom(s, i, g)]
    BY <2>1
  <2>3. IsScanner(g, s, 0)
    BY <2>2 DEF IsScanner
  <2> QED
    BY <2>3
<1>2. ASSUME NEW m \in Nat, m \in A PROVE m + 1 \in A
  <2> SUFFICES ASSUME m + 1 <= Len(s) + 4 PROVE \E g : IsScanner(g, s, m + 1)
    OBVIOUS
  <2>0. \E g : IsScanner(g, s, m)
    BY <1>0, <1>2
  <2>1. PICK g : g = [i \in Len(s) + 5 - m .. Len(s) + 4 |-> ScanFrom(s, i, g)]
    BY <2>0 DEF IsScanner
  <2> DEFINE a == Len(s) + 5 - (m + 1)
             h == [i \in a .. Len(s) + 4 |-> IF i = a THEN ScanFrom(s, i, g) ELSE g[i]]
  <2> HIDE DEF A
  <2>2. a \in 1 .. Len(s) + 4 /\ a + 1 = Len(s) + 5 - m
    BY <1>0
  <2> HIDE DEF a
  <2>3. ASSUME NEW j \in a + 1 .. Len(s) + 4 PROVE j \in a .. Len(s) + 4 /\ h[j] = g[j]
    <3>1. j \in a .. Len(s) + 4 /\ j # a
      BY <1>0, <2>2
    <3> QED
      BY <3>1
  <2>4. ASSUME NEW i \in a .. Len(s) + 4 PROVE h[i] = ScanFrom(s, i, h)
    <3>1. i \in 1 .. Len(s) + 4 /\ \A j \in i + 1 .. Len(s) + 4 : j \in a + 1 .. Len(s) + 4
      BY <1>0, <2>2
    <3>2. \A j \in i + 1 .. Len(s) + 4 : h[j] = g[j]
      BY <2>3, <3>1
    <3>3. ScanFrom(s, i, h) = ScanFrom(s, i, g)
      <4> HIDE DEF h
      <4> QED
        BY <3>1, <3>2, StepLooksAhead
    <3>4. CASE i = a
      BY <3>3, <3>4
    <3>5. CASE i # a
      <4>1. i \in Len(s) + 5 - m .. Len(s) + 4 /\ i \in a + 1 .. Len(s) + 4
        BY <1>0, <2>2, <3>5
      <4>2. g[i] = ScanFrom(s, i, g)
        BY <2>1, <4>1
      <4> QED
        BY <2>3, <3>3, <4>1, <4>2
    <3> QED
      BY <3>4, <3>5
  <2>5. h = [i \in a .. Len(s) + 4 |-> ScanFrom(s, i, h)]
    BY <2>4
  <2>6. IsScanner(h, s, m + 1)
    BY <2>5 DEF IsScanner, a
  <2> QED
    BY <2>6
<1> HIDE DEF A
<1>3. Len(s) + 4 \in A
  <2>1. Nat \subseteq A
    BY <1>1, <1>2, Induction
  <2> QED
    BY <1>0, <2>1
<1>4. \E g : IsScanner(g, s, Len(s) + 4)
  BY <1>0, <1>3 DEF A
<1>5. Len(s) + 5 - (Len(s) + 4) = 1
  BY <1>0
<1>6. \E g : g = [i \in 1 .. Len(s) + 4 |-> ScanFrom(s, i, g)]
  BY <1>4, <1>5 DEF IsScanner
<1>7. Scanner(s) = [i \in 1 .. Len(s) + 4 |-> ScanFrom(s, i, Scanner(s))]
  BY <1>6 DEF Scanner
<1> QED
  BY <1>7

\* What the checker keeps of a code point that is not complete
Partial(cp, need) ==
  /\ cp \in Seq(Nat) /\ need \in Nat /\ BeginsCodePoint(cp)
  /\ IF cp = <<>> THEN need = 0
     ELSE need > 0 /\ Needed(cp[1]) > 0 /\ Len(cp) + need = Needed(cp[1])
Agrees(r, t) ==
  /\ r.ok <=> t.proper
  /\ t.proper => r.cp = t.rest /\ Partial(r.cp, r.need)

LEMMA NoBytes == BeginsCodePoint(<<>>) /\ ~IsCodePoint(<<>>) /\ Partial(<<>>, 0) /\ Clean \in Judged
<1>1. <<>> \in Seq(Nat) /\ Len(<<>>) = 0
  BY EmptySeq
<1>2. \A f \in Forms : Begins(<<>>, f)
  BY <1>1 DEF Begins, Forms
<1>3. << 0 .. \h7F >> \in Forms
  BY DEF Forms
<1>4. \A f \in Forms : Len(f) # 0
  BY DEF Forms
<1> QED
  BY <1>1, <1>2, <1>3, <1>4 DEF BeginsCodePoint, IsCodePoint, Partial, Clean, Judged

\* A code point is taken as a whole, from what is left of it and the next m bytes
Taken(c, s, a, t, m, w) ==
  /\ w \in Seq(Nat) /\ Len(w) = Len(c) + m /\ w # <<>> /\ w[1] = Lead(c, s, a)
  /\ Wrong(w) => ~Adder(t, s)[Len(s)].proper
  /\ ~Wrong(w) /\ Len(w) < Needed(w[1]) =>
       /\ Adder(t, s)[a + m] = [rest |-> w, proper |-> TRUE]
       /\ Partial(w, Needed(w[1]) - Len(w))
  /\ ~Wrong(w) /\ Len(w) = Needed(w[1]) => Adder(t, s)[a + m] = Clean

\* Behind the first a bytes, c is left of a code point, or one begins there.
Begun(c, s, a, t) ==
  /\ c \in Seq(Nat) /\ a \in Nat /\ a <= Len(s) /\ t \in Judged
  /\ Adder(t, s)[a] = [rest |-> c, proper |-> TRUE] /\ BeginsCodePoint(c) /\ ~IsCodePoint(c)
  /\ c # <<>> \/ a < Len(s)
  /\ Needed(Lead(c, s, a)) > 0

LEMMA OneTaken ==
  ASSUME NEW c, NEW s \in Seq(Nat), NEW a, NEW t, Begun(c, s, a, t),
         NEW m \in Nat, m # 0, a + m <= Len(s), Len(c) + m <= Needed(Lead(c, s, a)),
         NEW w, w = With(c, s, a, m)
  PROVE  Taken(c, s, a, t, m, w)
<1> DEFINE x == Adder(t, s)[a + m]
<1>b. /\ c \in Seq(Nat) /\ a \in Nat /\ a <= Len(s) /\ t \in Judged
      /\ Adder(t, s)[a] = [rest |-> c, proper |-> TRUE] /\ BeginsCodePoint(c) /\ ~IsCodePoint(c)
      /\ c # <<>> \/ a < Len(s)
      /\ Needed(Lead(c, s, a)) > 0
  BY DEF Begun
<1>0. Len(s) \in Nat /\ Len(c) \in Nat /\ (c = <<>> <=> Len(c) = 0)
  BY <1>b, LenProperties, EmptySeq
<1>1. /\ w \in Seq(Nat) /\ Len(w) = Len(c) + m
      /\ \A i \in 1 .. Len(c) + m : w[i] = IF i <= Len(c) THEN c[i] ELSE s[a + i - Len(c)]
  <2>2. /\ With(c, s, a, m) \in Seq(Nat) /\ Len(With(c, s, a, m)) = Len(c) + m
        /\ \A i \in 1 .. Len(c) + m :
             With(c, s, a, m)[i] = IF i <= Len(c) THEN c[i] ELSE s[a + i - Len(c)]
    BY <1>b, WithIs, Zenon
  <2> QED
    BY <2>2
<1>2. w # <<>> /\ w[1] = Lead(c, s, a)
  <2>1. w # <<>> /\ 1 \in 1 .. Len(c) + m
    BY <1>0, <1>1, EmptySeq
  <2>2. CASE c = <<>>
    <3>1. ~(1 <= Len(c)) /\ a + 1 - Len(c) = a + 1
      BY <1>0, <1>b, <2>2
    <3>2. w[1] = s[a + 1 - Len(c)]
      BY <1>1, <2>1, <3>1
    <3> QED
      BY <2>1, <2>2, <3>1, <3>2 DEF Lead
  <2>3. CASE c # <<>>
    <3>1. 1 <= Len(c)
      BY <1>0, <2>3
    <3> QED
      BY <1>1, <2>1, <2>3, <3>1 DEF Lead
  <2> QED
    BY <2>2, <2>3
<1>3. /\ x.proper <=> BeginsCodePoint(w)
      /\ x.proper => x.rest = IF IsCodePoint(w) THEN <<>> ELSE w
  <2>2. /\ x.proper <=> BeginsCodePoint(With(c, s, a, m))
        /\ x.proper => x.rest = IF IsCodePoint(With(c, s, a, m)) THEN <<>> ELSE With(c, s, a, m)
    BY <1>b, OneCodePoint
  <2> QED
    BY <2>2
<1>4. BeginsCodePoint(w) <=> ~Wrong(w)
  BY <1>1, <1>2, <1>b, Judgement
<1>5. IsCodePoint(w) <=> BeginsCodePoint(w) /\ Len(w) = Needed(w[1])
  BY <1>1, <1>2, CodePoints
<1>6. x \in Judged
  BY <1>0, <1>b, AdderTypes
<1>7. Wrong(w) => ~Adder(t, s)[Len(s)].proper
  <2> SUFFICES ASSUME Wrong(w) PROVE ~Adder(t, s)[Len(s)].proper
    OBVIOUS
  <2>1. ~Adder(t, s)[a + m].proper
    BY <1>3, <1>4
  <2>2. a + m \in 0 .. Len(s) /\ Len(s) \in a + m .. Len(s)
    BY <1>0, <1>b
  <2>3. Adder(t, s)[Len(s)] = Adder(t, s)[a + m]
    BY <1>b, <2>1, <2>2, StaysRefused
  <2> QED
    BY <2>1, <2>3
<1> HIDE DEF x
<1>8. ASSUME ~Wrong(w), Len(w) < Needed(w[1])
      PROVE  x = [rest |-> w, proper |-> TRUE] /\ Partial(w, Needed(w[1]) - Len(w))
  <2>0. Needed(w[1]) \in Nat /\ Len(w) \in Nat
    BY <1>0, <1>1 DEF Needed
  <2>1. x.proper /\ x.rest = w
    BY <1>3, <1>4, <1>5, <1>8, <2>0
  <2>2. x = [rest |-> w, proper |-> TRUE]
    BY <1>6, <2>1 DEF Judged
  <2>3. /\ Needed(w[1]) - Len(w) \in Nat /\ Needed(w[1]) - Len(w) > 0 /\ Needed(w[1]) > 0
        /\ Len(w) + (Needed(w[1]) - Len(w)) = Needed(w[1])
    BY <1>8, <2>0
  <2> QED
    BY <1>1, <1>2, <1>4, <1>8, <2>2, <2>3 DEF Partial
<1>9. ASSUME ~Wrong(w), Len(w) = Needed(w[1]) PROVE x = Clean
  <2>1. x.proper /\ x.rest = <<>>
    BY <1>3, <1>4, <1>5, <1>9
  <2> QED
    BY <1>6, <2>1 DEF Judged, Clean
<1> QED
  BY <1>1, <1>2, <1>7, <1>8, <1>9 DEF Taken, x

LEMMA FromTheStart ==
  ASSUME NEW s \in Seq(Nat), NEW a \in Nat, NEW m \in Nat, a + m <= Len(s)
  PROVE  With(<<>>, s, a, m) = SubSeq(s, a + 1, a + m)
<1>0. Len(s) \in Nat /\ \A i \in 1 .. Len(s) : s[i] \in Nat
  BY LenProperties, ElementOfSeq
<1>1. SubSeq(s, a + 1, a + m) \in Seq(Nat)
  BY <1>0, SubSeqProperties
<1> QED
  BY <1>1, ConcatEmptySeq DEF With

\* Where a code point begins at i, the scan from i and the judgement agree.
ScanAgrees(s, i) ==
  Adder(Clean, s)[i - 1] = Clean => Agrees(Scanner(s)[i], Adder(Clean, s)[Len(s)])

LEMMA ScanEnds ==
  ASSUME NEW s \in Seq(Nat)
  PROVE  ScanAgrees(s, Len(s) + 1)
<1>0. Len(s) \in Nat
  BY LenProperties
<1>1. Len(s) + 1 \in 1 .. Len(s) + 4 /\ Len(s) + 1 > Len(s) /\ Len(s) + 1 - 1 = Len(s)
  BY <1>0
<1>2. Scanner(s)[Len(s) + 1] = ScanFrom(s, Len(s) + 1, Scanner(s))
  BY <1>1, ScannerIs
<1>3. Scanner(s)[Len(s) + 1] = Done
  BY <1>1, <1>2 DEF ScanFrom, Done
<1>4. Agrees(Done, Clean)
  BY NoBytes DEF Agrees, Done, Clean
<1> QED
  BY <1>1, <1>3, <1>4 DEF ScanAgrees

LEMMA ScanGoesOn ==
  ASSUME NEW s \in Seq(Nat), NEW i \in 1 .. Len(s),
         \A j \in i + 1 .. Len(s) + 1 : ScanAgrees(s, j)
  PROVE  ScanAgrees(s, i)
<1> SUFFICES ASSUME Adder(Clean, s)[i - 1] = Clean
             PROVE  Agrees(Scanner(s)[i], Adder(Clean, s)[Len(s)])
  BY DEF ScanAgrees
<1> DEFINE L == Needed(s[i])
           left == Len(s) - i + 1
           a == i - 1
           x == Adder(Clean, s)[Len(s)]
           r == Scanner(s)[i]
<1>0. /\ Len(s) \in Nat /\ a \in Nat /\ i \in Nat /\ a < Len(s) /\ a <= Len(s) /\ a + 1 = i
      /\ left \in Nat /\ left # 0 /\ a + left = Len(s) /\ left - 1 \in Nat /\ i \in 1 .. Len(s) + 4
      /\ ~(i > Len(s)) /\ s[i] \in Nat
  BY LenProperties, ElementOfSeq
<1>1. /\ Adder(Clean, s)[a] = [rest |-> <<>>, proper |-> TRUE] /\ <<>> \in Seq(Nat) /\ Len(<<>>) = 0
      /\ Clean \in Judged
  BY NoBytes, EmptySeq DEF Clean
<1>2. Lead(<<>>, s, a) = s[i]
  BY <1>0 DEF Lead
<1>3. L \in 0 .. 4
  BY DEF Needed
<1>4. r = ScanFrom(s, i, Scanner(s))
  BY <1>0, ScannerIs
<1>5. ASSUME L > 0, NEW m \in Nat, m # 0, m <= L, m <= left
      PROVE  LET w == SubSeq(s, i, a + m)
             IN  /\ w \in Seq(Nat) /\ Len(w) = m /\ w # <<>> /\ w[1] = s[i]
                 /\ Wrong(w) => ~x.proper
                 /\ ~Wrong(w) /\ m < L =>
                      Adder(Clean, s)[a + m] = [rest |-> w, proper |-> TRUE] /\ Partial(w, L - m)
                 /\ ~Wrong(w) /\ m = L => Adder(Clean, s)[a + m] = Clean
  <2> DEFINE w == SubSeq(s, i, a + m)
  <2>1. a + m <= Len(s) /\ 0 + m <= L
    <3> HIDE DEF L
    <3> QED
      BY <1>0, <1>3, <1>5
  <2>2. w = With(<<>>, s, a, m)
    <3> HIDE DEF a, L
    <3>1. With(<<>>, s, a, m) = SubSeq(s, a + 1, a + m)
      BY <1>0, <2>1, FromTheStart
    <3> QED
      BY <1>0, <3>1
  <2> HIDE DEF w, a, L
  <2>3. Needed(Lead(<<>>, s, a)) = L
    BY <1>2 DEF L
  <2>4. Begun(<<>>, s, a, Clean) /\ Len(<<>>) + m <= Needed(Lead(<<>>, s, a))
    BY <1>0, <1>1, <1>5, <2>1, <2>3, NoBytes DEF Begun
  <2>6. Taken(<<>>, s, a, Clean, m, w)
    BY <1>5, <2>1, <2>2, <2>4, OneTaken
  <2>5. Len(w) = m /\ Needed(w[1]) = L /\ w[1] = s[i]
    BY <1>1, <1>2, <1>5, <2>3, <2>6 DEF Taken
  <2> QED
    BY <2>5, <2>6 DEF Taken, w, x
<1> HIDE DEF L, a, x, r
<1>6. CASE L = 0
  <2>1. r.ok = FALSE
    BY <1>0, <1>4, <1>6 DEF ScanFrom, L
  <2>2. ~x.proper
    <3> DEFINE p == Append(<<>>, s[i])
    <3>1. Adder(Clean, s)[i] = AddByte(Clean, s[i])
      <4>1. Adder(Clean, s)[i] = AddByte(Adder(Clean, s)[i - 1], s[i])
        BY <1>0, AdderIs
      <4> QED
        BY <4>1
    <3>2. p \in Seq(Nat) /\ p # <<>> /\ p[1] = s[i]
      <4>1. /\ p \in Seq(Nat) /\ Len(p) = 1 /\ p[0 + 1] = s[i]
        BY <1>0, <1>1, AppendProperties
      <4> QED
        BY <1>1, <4>1
    <3>3. ~BeginsCodePoint(p)
      <4> HIDE DEF p
      <4>1. BeginsCodePoint(p) => Needed(p[1]) > 0
        BY <3>2, CodePoints
      <4>2. Needed(p[1]) = 0
        BY <1>6, <3>2 DEF L
      <4> QED
        BY <4>1, <4>2
    <3>4. AddByte(Clean, s[i]).proper = BeginsCodePoint(p)
      BY DEF AddByte, Clean
    <3>5. i \in 0 .. Len(s) /\ Len(s) \in i .. Len(s)
      BY <1>0
    <3>6. ~Adder(Clean, s)[i].proper
      BY <3>1, <3>3, <3>4
    <3>7. Adder(Clean, s)[Len(s)] = Adder(Clean, s)[i]
      BY <3>5, <3>6, StaysRefused
    <3> QED
      BY <3>6, <3>7 DEF x
  <2> QED
    BY <2>1, <2>2 DEF Agrees, x, r
<1>7. CASE L > left
  <2> DEFINE w == SubSeq(s, i, Len(s))
  <2>1. r = [ok |-> ~Wrong(w), cp |-> w, need |-> L - left] /\ L > 0 /\ left < L /\ left <= L /\ left <= left
    <3>1. L # 0 /\ L > 0 /\ left < L /\ left <= L /\ left <= left
      BY <1>0, <1>3, <1>7
    <3> QED
      BY <1>0, <1>4, <1>7, <3>1 DEF ScanFrom, L
  <2>2. /\ Wrong(w) => ~x.proper
        /\ ~Wrong(w) => Adder(Clean, s)[a + left] = [rest |-> w, proper |-> TRUE] /\ Partial(w, L - left)
    BY <1>0, <1>5, <2>1
  <2>3. ~Wrong(w) => x = [rest |-> w, proper |-> TRUE] /\ Partial(w, L - left)
    BY <1>0, <2>2 DEF x
  <2> HIDE DEF w
  <2> QED
    <3>1. r.ok = (~Wrong(w)) /\ r.cp = w /\ r.need = L - left
      BY <2>1
    <3>2. ~Wrong(w) => x.proper /\ x.rest = w
      BY <2>3
    <3>3. Wrong(w) => ~x.proper
      BY <2>2
    <3>4. Agrees(r, x)
      BY <2>3, <3>1, <3>2, <3>3 DEF Agrees
    <3> QED
      BY <3>4 DEF x, r
<1>8. CASE L # 0 /\ ~(L > left)
  <2> DEFINE w == SubSeq(s, i, a + L)
  <2>0. L \in Nat /\ L > 0 /\ L <= L /\ L <= left /\ i + L - 1 = a + L /\ i + L \in i + 1 .. Len(s) + 1
        /\ i + L - 1 = i + L - 1
    BY <1>0, <1>3, <1>8
  <2>1. r = IF Wrong(SubSeq(s, i, i + L - 1)) THEN [ok |-> FALSE, cp |-> <<>>, need |-> 0]
            ELSE Scanner(s)[i + L]
    BY <1>0, <1>4, <1>8 DEF ScanFrom, L
  <2>2. r = IF Wrong(w) THEN [ok |-> FALSE, cp |-> <<>>, need |-> 0] ELSE Scanner(s)[i + L]
    BY <2>0, <2>1
  <2>3. /\ Wrong(w) => ~x.proper
        /\ ~Wrong(w) => Adder(Clean, s)[a + L] = Clean
    BY <1>5, <1>8, <2>0
  <2> HIDE DEF w
  <2>4. CASE Wrong(w)
    BY <2>2, <2>3, <2>4 DEF Agrees, x, r
  <2>5. CASE ~Wrong(w)
    <3>1. PICK j \in i + 1 .. Len(s) + 1 : j = i + L /\ j - 1 = a + L
      BY <2>0
    <3>2. Adder(Clean, s)[j - 1] = Clean
      BY <2>3, <2>5, <3>1
    <3>3. Agrees(Scanner(s)[j], Adder(Clean, s)[Len(s)])
      BY <3>2 DEF ScanAgrees
    <3> QED
      BY <2>2, <2>5, <3>1, <3>3 DEF r
  <2> QED
    BY <2>4, <2>5
<1> QED
  BY <1>6, <1>7, <1>8

\* A piece that begins with a code point
LEMMA Scanned ==
  ASSUME NEW s \in Seq(Nat)
  PROVE  Agrees(Scan(s), AddBytes(Clean, s))
<1> DEFINE A == {m \in Nat : \A i \in 1 .. Len(s) + 1 : Len(s) + 1 - i <= m => ScanAgrees(s, i)}
<1>0. Len(s) \in Nat
  BY LenProperties
<1>1. 0 \in A
  <2>1. ASSUME NEW i \in 1 .. Len(s) + 1, Len(s) + 1 - i <= 0 PROVE ScanAgrees(s, i)
    <3>1. i = Len(s) + 1
      BY <1>0, <2>1
    <3> QED
      BY <3>1, ScanEnds
  <2> QED
    BY <2>1
<1>2. ASSUME NEW m \in Nat, m \in A PROVE m + 1 \in A
  <2> SUFFICES ASSUME NEW i \in 1 .. Len(s) + 1, Len(s) + 1 - i <= m + 1 PROVE ScanAgrees(s, i)
    OBVIOUS
  <2>1. CASE i = Len(s) + 1
    BY <2>1, ScanEnds
  <2>2. CASE i # Len(s) + 1
    <3>1. i \in 1 .. Len(s)
      BY <1>0, <2>2
    <3>2. ASSUME NEW j \in i + 1 .. Len(s) + 1 PROVE ScanAgrees(s, j)
      <4>1. j \in 1 .. Len(s) + 1 /\ Len(s) + 1 - j <= m
        BY <1>0
      <4> QED
        BY <1>2, <4>1
    <3> QED
      BY <3>1, <3>2, ScanGoesOn
  <2> QED
    BY <2>1, <2>2
<1> HIDE DEF A
<1>3. Len(s) \in A
  BY <1>0, <1>1, <1>2, Induction
<1>4. 1 \in 1 .. Len(s) + 1 /\ Len(s) + 1 - 1 <= Len(s) /\ 1 - 1 = 0
  BY <1>0
<1>5. ScanAgrees(s, 1)
  BY <1>3, <1>4 DEF A
<1>6. Adder(Clean, s)[0] = Clean
  BY AdderIs
<1> QED
  BY <1>4, <1>5, <1>6, ScanIs, AddBytesIs DEF ScanAgrees

LEMMA WholeSeq ==
  ASSUME NEW s \in Seq(Nat)
  PROVE  SubSeq(s, 1, Len(s)) = s
<1>1. Len(s) \in Nat /\ \A i \in 1 .. Len(s) : s[i] \in Nat
  BY LenProperties, ElementOfSeq
<1>2. /\ SubSeq(s, 1, Len(s)) \in Seq(Nat) /\ Len(SubSeq(s, 1, Len(s))) = Len(s)
      /\ \A i \in 1 .. Len(s) : SubSeq(s, 1, Len(s))[i] = s[i]
  <2>1. 1 \in 1 .. Len(s) + 1 /\ Len(s) \in 1 - 1 .. Len(s) /\ Len(s) - 1 + 1 = Len(s)
        /\ \A i \in 1 .. Len(s) : 1 + i - 1 = i
    BY <1>1
  <2> QED
    BY <1>1, <2>1, SubSeqProperties
<1> DEFINE u == SubSeq(s, 1, Len(s))
<1> HIDE DEF u
<1>3. u \in Seq(Nat) /\ Len(u) = Len(s) /\ \A i \in 1 .. Len(s) : u[i] = s[i]
  BY <1>2 DEF u
<1>4. u = s
  BY <1>3, SeqEqual
<1> QED
  BY <1>4 DEF u

\* utf8_checker::write follows the encoding: of every piece, with what the pieces before
\* have left, it refuses what no text begins with, and keeps what a code point lacks of it.
THEOREM WriteFollowsEncoding ==
  ASSUME NEW c, NEW need, Partial(c, need), NEW s \in Seq(Nat)
  PROVE  Agrees(Write(c, need, s), AddBytes([rest |-> c, proper |-> TRUE], s))
<1> DEFINE t == [rest |-> c, proper |-> TRUE]
           m == IF Len(s) < need THEN Len(s) ELSE need
           w == c \o SubSeq(s, 1, m)
           x == AddBytes(t, s)
           r == Write(c, need, s)
<1>0. /\ c \in Seq(Nat) /\ need \in Nat /\ BeginsCodePoint(c) /\ Len(s) \in Nat /\ Len(c) \in Nat
      /\ (c = <<>> <=> Len(c) = 0)
  BY LenProperties, EmptySeq DEF Partial
<1>1. t \in Judged
  BY <1>0 DEF Judged
<1>2. Adder(t, s)[0] = t /\ x = Adder(t, s)[Len(s)]
  BY AdderIs, AddBytesIs
<1>3. r = IF need > m THEN [ok |-> ~Wrong(w), cp |-> w, need |-> need - m]
          ELSE IF need > 0 /\ Wrong(w) THEN [ok |-> FALSE, cp |-> w, need |-> 0]
          ELSE Scan(SubSeq(s, m + 1, Len(s)))
  BY DEF Write
<1>4. /\ m \in Nat /\ m <= Len(s) /\ m <= need /\ m \in 0 .. Len(s)
      /\ need > m => m = Len(s)
      /\ ~(need > m) => m = need
  <2>1. CASE Len(s) < need
    BY <1>0, <2>1
  <2>2. CASE ~(Len(s) < need)
    BY <1>0, <2>2
  <2> QED
    BY <2>1, <2>2
<1> HIDE DEF m
<1>5. w = With(c, s, 0, m)
  <2>1. 0 + 1 = 1 /\ 0 + m = m
    BY <1>4
  <2> QED
    BY <2>1 DEF With
<1> HIDE DEF w, r, x, t
\* The piece is empty
<1>6. CASE need > 0 /\ m = 0
  <2>1. Len(s) = 0 /\ need > m /\ need - m = need
    BY <1>0, <1>4, <1>6
  <2>2. w = c
    <3>1. 0 + 0 <= Len(s) /\ 0 \in Nat
      BY <1>0
    <3>2. With(c, s, 0, 0) = c
      BY <1>0, <3>1, WithIs
    <3> QED
      BY <1>5, <1>6, <3>2
  <2>3. r = [ok |-> ~Wrong(c), cp |-> c, need |-> need]
    BY <1>3, <2>1, <2>2
  <2>4. x = [rest |-> c, proper |-> TRUE]
    BY <1>2, <2>1 DEF t
  <2>5. ~Wrong(c)
    <3>1. c # <<>> /\ Needed(c[1]) > 0 /\ Len(c) <= Needed(c[1])
      <4>1. c # <<>> /\ need > 0 /\ Needed(c[1]) > 0 /\ Len(c) + need = Needed(c[1])
        BY <1>0, <1>6 DEF Partial
      <4> QED
        BY <1>0, <4>1
    <3> QED
      BY <1>0, <3>1, Judgement
  <2>6. Agrees(r, x)
    BY <2>3, <2>4, <2>5 DEF Agrees
  <2> QED
    BY <2>6 DEF r, x, t
<1>7. CASE need > 0 /\ m # 0
  <2> DEFINE L == Needed(c[1])
  <2>1. c # <<>> /\ L > 0 /\ Len(c) + need = L
    BY <1>0, <1>7 DEF Partial
  <2>2. L \in Nat
    BY DEF Needed
  <2> HIDE DEF L
  <2>3. Lead(c, s, 0) = c[1]
    BY <2>1 DEF Lead
  <2>4. ~IsCodePoint(c)
    <3>1. IsCodePoint(c) => Len(c) = L
      BY <1>0, <2>1, CodePoints DEF L
    <3>2. Len(c) # L
      BY <1>0, <1>7, <2>1
    <3> QED
      BY <3>1, <3>2
  <2>5. Begun(c, s, 0, t)
    BY <1>0, <1>1, <1>2, <2>1, <2>3, <2>4 DEF Begun, L, t
  <2>6. 0 + m <= Len(s) /\ Len(c) + m <= L
    BY <1>0, <1>4, <2>1, <2>2
  <2>7. Taken(c, s, 0, t, m, w)
    BY <1>4, <1>5, <1>7, <2>3, <2>5, <2>6, OneTaken DEF L
  <2>8. /\ w \in Seq(Nat) /\ Len(w) = Len(c) + m /\ Needed(w[1]) = L
        /\ Wrong(w) => ~x.proper
        /\ ~Wrong(w) /\ Len(w) < L =>
             Adder(t, s)[0 + m] = [rest |-> w, proper |-> TRUE] /\ Partial(w, L - Len(w))
        /\ ~Wrong(w) /\ Len(w) = L => Adder(t, s)[0 + m] = Clean
    BY <1>2, <2>3, <2>7 DEF Taken, L
  <2>9. CASE need > m
    <3>1. /\ r.ok = (~Wrong(w)) /\ r.cp = w /\ r.need = need - m
      BY <1>3, <2>9
    <3>2. Len(w) < L /\ L - Len(w) = need - m /\ 0 + m = Len(s)
      BY <1>0, <1>4, <2>1, <2>2, <2>8, <2>9
    <3>3. ~Wrong(w) => x.proper /\ x.rest = w /\ Partial(w, need - m)
      BY <1>2, <2>8, <3>2
    <3>4. Agrees(r, x)
      BY <2>8, <3>1, <3>3 DEF Agrees
    <3> QED
      BY <3>4 DEF r, x, t
  <2>10. CASE ~(need > m) /\ Wrong(w)
    <3>1. r.ok = FALSE
      BY <1>3, <1>7, <2>10
    <3>2. Agrees(r, x)
      BY <2>8, <2>10, <3>1 DEF Agrees
    <3> QED
      BY <3>2 DEF r, x, t
  <2>11. CASE ~(need > m) /\ ~Wrong(w)
    <3> DEFINE u == SubSeq(s, m + 1, Len(s))
    <3>1. r = Scan(u)
      BY <1>3, <2>11
    <3>2. Len(w) = L /\ 0 + m = m
      BY <1>0, <1>4, <2>1, <2>8, <2>11
    <3>3. Adder(t, s)[m] = Clean
      BY <2>8, <2>11, <3>2
    <3>4. u \in Seq(Nat) /\ AddBytes(t, s) = AddBytes(Adder(t, s)[m], u)
      BY <1>4, Shifted
    <3> HIDE DEF u
    <3>5. Agrees(Scan(u), AddBytes(Clean, u))
      BY <3>4, Scanned
    <3>6. Agrees(r, x)
      BY <3>1, <3>3, <3>4, <3>5 DEF x
    <3> QED
      BY <3>6 DEF r, x, t
  <2> QED
    BY <2>9, <2>10, <2>11
<1>8. CASE ~(need > 0)
  <2>1. need = 0 /\ m = 0 /\ ~(need > m) /\ m + 1 = 1
    BY <1>0, <1>4, <1>8
  <2>2. c = <<>>
    BY <1>8 DEF Partial
  <2>3. r = Scan(s)
    BY <1>3, <1>8, <2>1, WholeSeq
  <2>4. t = Clean
    BY <2>2 DEF t, Clean
  <2>5. Agrees(r, x)
    BY <2>3, <2>4, Scanned DEF x
  <2> QED
    BY <2>5 DEF r, x, t
<1> QED
  BY <1>6, <1>7, <1>8

-----------------------------------------------------------------------------
(* The text of the messages *)

EmptyEnd(f) == f.op = "cont" /\ f.fin /\ f.payload = <<>>

\* While nothing is against the text, the checker keeps what the encoding says is left
\* of it, and between two messages, which the flags delimit, that is nothing.
TextInv ==
  /\ state = "bad_frame_payload" <=> ~proper
  /\ proper \in BOOLEAN
  /\ \A i \in 1 .. Len(wire) : ~EmptyEnd(wire[i])
  /\ rd_remain > 0 => (rd_fh.fin <=> ~rd_cont)
  /\ state = "idle" /\ rd_remain = 0 => ~rd_fh.fin \/ rd_done
  /\ state = "payload" /\ rd_remain = 0 => ~rd_cont
  /\ proper => /\ cp_ = rest /\ Partial(cp_, need_)
               /\ (rd_remain = 0 /\ ~rd_cont) \/ rd_op # "text" => cp_ = <<>>

LEMMA Kept ==
  ASSUME NEW c, NEW need, Partial(c, need)
  PROVE  c = <<>> <=> need = 0
  BY DEF Partial

LEMMA TextInit == Init => TextInv
<1> SUFFICES ASSUME Init PROVE TextInv
  OBVIOUS
<1>1. /\ wire = <<>> /\ rd_fh.fin = FALSE /\ rd_remain = 0 /\ rd_cont = FALSE /\ need_ = 0
      /\ cp_ = <<>> /\ rest = <<>> /\ proper = TRUE /\ state = "idle"
  BY DEF Init
<1>2. Len(wire) = 0
  BY <1>1, EmptySeq
<1>3. 1 .. Len(wire) = {}
  BY <1>2
<1> QED
  BY <1>1, <1>3, NoBytes DEF TextInv

\* A step that leaves the text alone
LEMMA TextSame ==
  ASSUME TextInv, UNCHANGED <<textVars, rd_remain, rd_cont, rd_op>>,
         rd_remain > 0 => rd_fh'.fin = rd_fh.fin,
         state' # "bad_frame_payload", proper,
         \A i \in 1 .. Len(wire') : ~EmptyEnd(wire'[i]),
         state' = "idle" /\ rd_remain = 0 => ~rd_fh'.fin \/ rd_done',
         state' = "payload" /\ rd_remain = 0 => ~rd_cont
  PROVE  TextInv'
  BY DEF TextInv, textVars, EmptyEnd

LEMMA NumbersOf ==
  ASSUME NEW s \in Seq(Bytes)
  PROVE  [i \in 1 .. Len(s) |-> s[i].b] \in Seq(Nat)
<1>1. Len(s) \in Nat /\ \A i \in 1 .. Len(s) : s[i] \in Bytes
  BY LenProperties, ElementOfSeq
<1>2. [i \in 1 .. Len(s) |-> s[i].b] \in [1 .. Len(s) -> Nat]
  BY <1>1 DEF Bytes
<1> QED
  BY <1>1, <1>2, SeqDef

LEMMA FrontOf ==
  ASSUME NEW s \in Seq(Bytes), NEW k \in 0 .. Len(s)
  PROVE  SubSeq(s, 1, k) \in Seq(Bytes) /\ Len(SubSeq(s, 1, k)) = k
<1>1. Len(s) \in Nat /\ \A i \in 1 .. Len(s) : s[i] \in Bytes
  BY LenProperties, ElementOfSeq
<1> QED
  BY <1>1, SubSeqProperties

\* The bytes of s are checked and handed out.
LEMMA TextDelivered ==
  ASSUME Inv, TextInv, state = "payload", rd_remain > 0, NEW s \in Seq(Bytes),
         Len(s) <= rd_remain, Delivers(s), UNCHANGED <<wire, rd_fh, rd_cont, rd_op>>
  PROVE  TextInv'
<1>0. /\ rd_remain \in Nat /\ Len(s) \in Nat /\ proper = TRUE
      /\ cp_ = rest /\ Partial(cp_, need_) /\ (rd_fh.fin <=> ~rd_cont)
      /\ \A i \in 1 .. Len(wire) : ~EmptyEnd(wire[i])
      /\ rd_op # "text" => cp_ = <<>>
  BY LenProperties DEF Inv, TypeOK, PayloadInv, TextInv
<1> DEFINE left == rd_remain - Len(s)
           u == [i \in 1 .. Len(s) |-> s[i].b]
<1>1. /\ rd_remain' = left /\ left \in Nat
      /\ IF rd_op = "text" THEN Checks(u, left) ELSE state' = "idle" /\ UNCHANGED textVars
      /\ rd_done' = (rd_done \/ (left = 0 /\ rd_fh.fin))
  BY <1>0 DEF Delivers
<1>2. u \in Seq(Nat)
  BY NumbersOf
<1>3. \A i \in 1 .. Len(wire') : ~EmptyEnd(wire'[i])
  BY <1>0 DEF EmptyEnd
<1> HIDE DEF left, u
<1>4. CASE rd_op # "text"
  <2>1. state' = "idle" /\ UNCHANGED <<need_, cp_, rest, proper>>
    BY <1>1, <1>4 DEF textVars
  <2> QED
    BY <1>0, <1>1, <1>3, <1>4, <2>1 DEF TextInv
<1>5. CASE rd_op = "text"
  <2> DEFINE r == Write(cp_, need_, u)
             t == AddBytes([rest |-> rest, proper |-> proper], u)
             last == left = 0 /\ rd_fh.fin
  <2>1. /\ state' = IF r.ok /\ (last => r.need = 0) THEN "idle" ELSE "bad_frame_payload"
        /\ need_' = (IF r.ok /\ last THEN 0 ELSE r.need)
        /\ cp_' = (IF r.ok /\ last THEN <<>> ELSE r.cp)
        /\ proper' = (t.proper /\ (last => t.rest = <<>>))
        /\ rest' = IF last THEN <<>> ELSE t.rest
    BY <1>1, <1>5 DEF Checks, Ends
  <2>2. Agrees(r, t)
    BY <1>0, <1>2, WriteFollowsEncoding
  <2> HIDE DEF r, t
  <2>3. /\ r.ok <=> t.proper
        /\ t.proper => r.cp = t.rest /\ Partial(r.cp, r.need) /\ (r.cp = <<>> <=> r.need = 0)
    BY <2>2, Kept DEF Agrees
  <2>4. (state' = "bad_frame_payload" <=> ~proper') /\ proper' \in BOOLEAN
    BY <2>1, <2>3
  <2>5. ASSUME proper'
        PROVE  /\ cp_' = rest' /\ Partial(cp_', need_')
               /\ (left = 0 /\ ~rd_cont => cp_' = <<>>)
    <3>1. CASE last
      <4>1. cp_' = <<>> /\ need_' = 0 /\ rest' = <<>>
        BY <2>1, <2>3, <2>5, <3>1
      <4> QED
        BY <4>1, NoBytes
    <3>2. CASE ~last
      <4>1. cp_' = r.cp /\ need_' = r.need /\ rest' = t.rest /\ t.proper
        BY <2>1, <2>5, <3>2
      <4>2. ~(left = 0 /\ ~rd_cont)
        BY <1>0, <3>2
      <4> QED
        BY <2>3, <4>1, <4>2
    <3> QED
      BY <3>1, <3>2
  <2>6. state' # "payload"
    BY <2>1
  <2>7. /\ rd_remain' > 0 => (rd_fh'.fin <=> ~rd_cont')
        /\ state' = "idle" /\ rd_remain' = 0 => ~rd_fh'.fin \/ rd_done'
    BY <1>0, <1>1
  <2>8. proper' => /\ cp_' = rest' /\ Partial(cp_', need_')
                   /\ (rd_remain' = 0 /\ ~rd_cont') \/ rd_op' # "text" => cp_' = <<>>
    BY <1>1, <1>5, <2>5
  <2> QED
    BY <1>3, <2>4, <2>6, <2>7, <2>8 DEF TextInv
<1> QED
  BY <1>4, <1>5

LEMMA TextStep ==
  ASSUME ~EmptyEnds
  PROVE  Inv /\ TextInv /\ [Next]_vars => TextInv'
<1> SUFFICES ASSUME Inv, TextInv, [Next]_vars PROVE TextInv'
  OBVIOUS
<1>0. /\ wire \in Seq(Frames) /\ Len(wire) \in Nat /\ rd_remain \in Nat
      /\ (state = "header" => rd_remain = 0)
      /\ \A i \in 1 .. Len(wire) : ~EmptyEnd(wire[i])
  <2>1. wire \in Seq(Frames) /\ body \in Seq(Bytes) /\ rd_remain = Len(body)
        /\ (state = "header" => body = <<>>)
    BY DEF Inv, TypeOK, PayloadInv
  <2> QED
    BY <2>1, LenProperties, EmptySeq DEF TextInv
<1>1. ASSUME NEW f \in Frames, Sends(f) PROVE TextInv'
  <2>1. /\ wire' = Append(wire, f) /\ ~EmptyEnd(f)
        /\ UNCHANGED <<rd_fh, rd_remain, rd_cont, rd_done, rd_op, need_, cp_, rest, proper, state>>
    BY <1>1 DEF Sends, EmptyEnd, readVars, textVars
  <2>2. \A i \in 1 .. Len(wire') : ~EmptyEnd(wire'[i])
    <3>1. /\ Len(wire') = Len(wire) + 1 /\ wire'[Len(wire) + 1] = f
          /\ \A i \in 1 .. Len(wire) : wire'[i] = wire[i]
      BY <1>0, <2>1, AppendProperties
    <3> SUFFICES ASSUME NEW i \in 1 .. Len(wire') PROVE ~EmptyEnd(wire'[i])
      OBVIOUS
    <3>2. CASE i = Len(wire) + 1
      BY <2>1, <3>1, <3>2
    <3>3. CASE i # Len(wire) + 1
      <4>1. i \in 1 .. Len(wire)
        BY <1>0, <3>1, <3>3
      <4>2. wire'[i] = wire[i]
        BY <3>1, <4>1
      <4> QED
        BY <1>0, <4>1, <4>2
    <3> QED
      BY <3>2, <3>3
  <2> QED
    BY <2>1, <2>2 DEF TextInv
<1>2. ASSUME NEW size \in Buffers, Call(size) PROVE TextInv'
  <2>1. /\ state = "idle"
        /\ state' = IF rd_remain = 0 /\ (~rd_fh.fin \/ rd_done) THEN "header" ELSE "payload"
        /\ UNCHANGED <<wire, rd_fh, rd_remain, rd_cont, rd_done, rd_op, textVars>>
    BY <1>2 DEF Call, readVars
  <2>2. state' = "header" \/ (state' = "payload" /\ rd_remain # 0)
    BY <2>1 DEF TextInv
  <2> QED
    BY <1>0, <2>1, <2>2, TextSame DEF TextInv, EmptyEnd
<1>3. CASE MoreHeader
  BY <1>0, <1>3, TextSame DEF MoreHeader, TextInv, EmptyEnd
<1>4. CASE Fails
  <2>1. state = "header" /\ state' \notin {"idle", "payload", "bad_frame_payload"}
    <3> DEFINE f == Head(wire)
    <3>1. /\ state = "header"
          /\ Refused(f) # "no" \/ RefusedLate(f) # "no"
          /\ state' = IF Refused(f) # "no" THEN Refused(f) ELSE RefusedLate(f)
      BY <1>4 DEF Fails
    <3>2. /\ Refused(f) \in {"bad_data_frame", "bad_continuation", "bad_opcode", "bad_control_fragment",
                             "bad_control_size", "bad_reserved_bits", "bad_unmasked_frame", "no"}
          /\ RefusedLate(f) \in {"bad_size", "message_too_big", "no"}
      BY DEF Refused, RefusedLate
    <3> HIDE DEF f
    <3> QED
      BY <1>4, <3>1, <3>2 DEF Fails
  <2>2. UNCHANGED <<wire, rd_remain, rd_cont, rd_op, textVars>>
    BY <1>4 DEF Fails
  <2> QED
    BY <1>0, <2>1, <2>2, TextSame DEF TextInv, EmptyEnd
<1>5. CASE Control \/ Data
  <2> DEFINE f == Head(wire)
  <2>1. Accepts /\ wire # <<>> /\ Refused(f) = "no" /\ wire' = Tail(wire) /\ state = "header"
    BY <1>5 DEF Control, Data, Accepts, Complete
  <2>2. f \in Frames /\ ~EmptyEnd(f) /\ Len(f.payload) \in Nat /\ (Len(f.payload) = 0 <=> f.payload = <<>>)
        /\ f.op \in {"text", "binary", "cont", "ping", "reserved"}
    <3>1. f \in Frames /\ f = wire[1] /\ 1 \in 1 .. Len(wire)
      BY <1>0, <2>1, HeadTailProperties, EmptySeq
    <3>2. f.payload \in Seq(Nat) /\ f.op \in {"text", "binary", "cont", "ping", "reserved"}
      BY <3>1, FramesAssumption
    <3> QED
      BY <1>0, <3>1, <3>2, LenProperties, EmptySeq
  <2>3. \A i \in 1 .. Len(wire') : ~EmptyEnd(wire'[i])
    <3>1. /\ Len(Tail(wire)) = Len(wire) - 1
          /\ \A i \in 1 .. Len(Tail(wire)) : Tail(wire)[i] = wire[i + 1]
      BY <1>0, <2>1, HeadTailProperties
    <3> SUFFICES ASSUME NEW i \in 1 .. Len(wire') PROVE ~EmptyEnd(wire'[i])
      OBVIOUS
    <3>2. i + 1 \in 1 .. Len(wire) /\ wire'[i] = wire[i + 1]
      BY <1>0, <2>1, <3>1
    <3> QED
      BY <1>0, <3>2
  <2>4. proper
    BY <2>1 DEF TextInv
  <2>5. rd_remain = 0
    BY <1>0, <2>1
  <2>a. CASE Control
    <3>1. rd_fh'.fin = FALSE /\ UNCHANGED <<rd_remain, rd_cont, rd_done, rd_op, textVars, state>>
      BY <2>a DEF Control, Parsed
    <3> QED
      BY <2>1, <2>3, <2>4, <2>5, <3>1, TextSame
  <2>b. CASE Data
    <3>1. /\ rd_fh'.fin = f.fin /\ rd_remain' = Len(f.payload) /\ rd_cont' = ~f.fin
          /\ rd_op' = IF f.op = "cont" THEN rd_op ELSE f.op
          /\ IF Len(f.payload) = 0 /\ ~f.fin THEN UNCHANGED <<state, rd_done>>
             ELSE state' = "payload" /\ rd_done' = FALSE
          /\ UNCHANGED <<need_, cp_, rest, proper>> /\ ~IsControl(f.op)
      BY <2>b DEF Data, Parsed, textVars
    <3>2. (f.op \in {"text", "binary"} /\ ~rd_cont) \/ (f.op = "cont" /\ rd_cont)
      BY <2>1, <2>2, <3>1 DEF Refused, IsControl
    <3>3. cp_ = rest /\ Partial(cp_, need_) /\ ((rd_remain = 0 /\ ~rd_cont) \/ rd_op # "text" => cp_ = <<>>)
      BY <2>4 DEF TextInv
    <3>4. (rd_remain' = 0 /\ ~rd_cont') \/ rd_op' # "text" => cp_ = <<>>
      <4>1. CASE f.op = "cont"
        BY <2>2, <3>1, <3>3, <4>1 DEF EmptyEnd
      <4>2. CASE f.op # "cont"
        BY <2>5, <3>2, <3>3, <4>2
      <4> QED
        BY <4>1, <4>2
    <3>5. state' \in {"header", "payload"}
      BY <2>1, <3>1
    <3>6. state' = "payload" /\ rd_remain' = 0 => ~rd_cont'
      BY <2>1, <3>1
    <3> HIDE DEF f
    <3> QED
      BY <2>3, <2>4, <3>1, <3>3, <3>4, <3>5, <3>6 DEF TextInv
  <2> QED
    BY <1>5, <2>a, <2>b
<1>6. CASE Fill
  BY <1>6, <1>0, TextSame DEF Fill, TextInv, EmptyEnd
<1>7. CASE Copy
  <2> DEFINE k == Min2(n, Min2(rd_remain, arrived))
  <2>1. /\ state = "payload" /\ rd_remain > 0 /\ Delivers(SubSeq(body, 1, k))
        /\ UNCHANGED <<wire, rd_fh, rd_cont, rd_op>>
    BY <1>7 DEF Copy
  <2>2. k \in 0 .. Len(body) /\ k <= rd_remain /\ k \in Nat /\ body \in Seq(Bytes)
    <3>0. n \in Nat /\ arrived \in Nat /\ body \in Seq(Bytes) /\ rd_remain = Len(body)
      BY DEF Inv, TypeOK, PayloadInv
    <3>1. Min2(rd_remain, arrived) \in Nat /\ Min2(rd_remain, arrived) <= rd_remain
      BY <1>0, <3>0, Minimum
    <3>2. k \in Nat /\ k <= Min2(rd_remain, arrived)
      BY <3>0, <3>1, Minimum
    <3> QED
      BY <1>0, <3>0, <3>1, <3>2
  <2> HIDE DEF k
  <2>3. SubSeq(body, 1, k) \in Seq(Bytes) /\ Len(SubSeq(body, 1, k)) = k
    BY <2>2, FrontOf
  <2> QED
    BY <2>1, <2>2, <2>3, TextDelivered
<1>8. CASE Direct
  <2>1. PICK k \in (1 .. Outstanding) \cap (1 .. Min2(rd_remain, n)) :
          Delivers(SubSeq(Unmasked(body, k), 1, k))
    BY <1>8 DEF Direct
  <2>2. state = "payload" /\ rd_remain > 0 /\ arrived = 0 /\ UNCHANGED <<wire, rd_fh, rd_cont, rd_op>>
    BY <1>8 DEF Direct
  <2>3. /\ n \in Nat /\ body \in Seq(Bytes) /\ rd_remain = Len(body) /\ rd_key \in 0 .. 3
        /\ Masking(body, 0, rd_key)
    BY <2>2 DEF Inv, TypeOK, PayloadInv
  <2>4. k \in 0 .. Len(body) /\ k <= rd_remain /\ k \in Nat
    <3>1. Min2(rd_remain, n) \in Nat /\ Min2(rd_remain, n) <= Len(body)
      BY <1>0, <2>3, Minimum
    <3> QED
      BY <1>0, <2>3, <3>1
  <2> DEFINE u == Unmasked(body, k)
  <2>5. u \in Seq(Bytes) /\ Len(u) = Len(body)
    BY <2>3, <2>4, Unmasking
  <2>6. Delivers(SubSeq(u, 1, k))
    BY <2>1
  <2> HIDE DEF u
  <2>7. SubSeq(u, 1, k) \in Seq(Bytes) /\ Len(SubSeq(u, 1, k)) = k
    BY <2>4, <2>5, FrontOf
  <2> QED
    BY <2>2, <2>4, <2>6, <2>7, TextDelivered
<1>9. CASE Nothing
  <2>1. /\ state = "payload" /\ rd_remain = 0 /\ state' = "idle" /\ rd_done' = (rd_done \/ rd_fh.fin)
        /\ proper' = (proper /\ (rd_op = "text" => rest = <<>>)) /\ rest' = <<>>
        /\ UNCHANGED <<wire, rd_fh, rd_remain, rd_cont, rd_op, need_, cp_>>
    BY <1>9 DEF Nothing
  <2>2. ~rd_cont /\ proper /\ cp_ = rest /\ cp_ = <<>>
    BY <2>1 DEF TextInv
  <2> QED
    BY <1>0, <2>1, <2>2 DEF TextInv, EmptyEnd
<1>10. CASE UNCHANGED vars
  <2>1. UNCHANGED <<wire, rd_fh, rd_remain, rd_cont, rd_done, rd_op, need_, cp_, rest, proper, state>>
    BY <1>10 DEF vars, readVars, textVars
  <2> QED
    BY <2>1 DEF TextInv, EmptyEnd
<1> QED
  BY <1>1, <1>2, <1>3, <1>4, <1>5, <1>6, <1>7, <1>8, <1>9, <1>10 DEF Next

\* A text is refused when and only when no valid text begins with what there is of it,
\* or when it ends inside a code point, however it is cut into frames and pieces.  An
\* empty frame at the end is the exception, at which the code does not look.
THEOREM TextIsJudged ==
  ASSUME ~EmptyEnds
  PROVE  Spec => []TextJudged
<1>1. Inv /\ TextInv /\ [Next]_vars => Inv' /\ TextInv'
  BY StepInv, TextStep
<1>2. TextInv => TextJudged
  BY DEF TextInv, TextJudged
<1> QED
  BY <1>1, <1>2, InitInv, TextInit, PTL DEF Spec
=============================================================================
