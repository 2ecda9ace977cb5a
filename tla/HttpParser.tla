----------------------------- MODULE HttpParser -----------------------------
(* The receiving side of an HTTP stream: basic_parser, the body readers, and *)
(* the operations async_read_some, async_read_header and async_read, over a  *)
(* stream that delivers what is in wire in pieces of any size.               *)
EXTENDS HttpWire

CONSTANTS
  ToServer,      \* basic_parser<isRequest>
  MaxBuffer,     \* max_size() of the dynamic buffer
  HeaderLimit,   \* header_limit
  BodyLimit,     \* body_limit
  ReadModes,     \* how a message is read: "read", "header", "some"
  Readers,       \* the bodies it is read into: "string", "buffer"
  Window         \* the size of the memory a buffer_body points to

VARIABLES
  buf,        \* the readable bytes of the dynamic buffer
  par,        \* the parser of the message being read: s is state_, f the flags in f_
  rop,        \* the read operation
  how,        \* the mode and the body of that message
  body,       \* its body so far
  taken,      \* what the operations on that message said they have read
  received,   \* what the application has been told: a message or an error
  failed      \* the assertions that did not hold

parVars == <<buf, par, rop, how, body, taken, received, failed>>

Least(a, b) == IF a < b THEN a ELSE b

-----------------------------------------------------------------------------
(* Looking for the end of a line and of a header, in s from offset p.        *)

\* basic_parser_base::find_eol: the offset past the line, "none" or "bad".
FindEol(s, p) ==
  LET find[i \in Nat] == IF i >= Len(s) THEN 0
                         ELSE IF s[i + 1] = Sym("cr", 0) THEN i + 1
                         ELSE find[i + 1]
      cr == find[p]
  IN  CASE cr = 0 \/ cr = Len(s)          -> [r |-> "none", at |-> 0]
        [] cr # 0 /\ cr < Len(s)
             /\ s[cr + 1] = Sym("lf", 0)  -> [r |-> "found", at |-> cr + 1]
        [] OTHER                          -> [r |-> "bad", at |-> 0]

\* Mutant of Jump: four symbols ahead, whatever the one looked at is
BugJump(x) == 4

\* How far the search for CRLF CRLF may go on when x cannot be its last symbol.
Jump(x) == IF x = Sym("cr", 0) THEN 1 ELSE 4

\* basic_parser_base::find_eom: the offset past the CRLF CRLF, or 0.
FindEom(s, p) ==
  LET cr(i) == s[i] = Sym("cr", 0)
      lf(i) == s[i] = Sym("lf", 0)
      find[i \in Nat] ==
        IF i + 4 > Len(s) THEN 0
        ELSE IF ~lf(i + 4) THEN find[i + Jump(s[i + 4])]
        ELSE IF ~cr(i + 3) THEN find[i + 4]
        ELSE IF ~(lf(i + 2) /\ cr(i + 1)) THEN find[i + 2]
        ELSE i + 4
  IN  find[p]

\* parse_field on s: how many symbols the first field takes.  It looks at the
\* symbol behind the line, as a folded line may follow.
ParseField(s) ==
  LET line[i \in Nat] ==
        IF Len(s) < i + 4 THEN [r |-> "need_more", n |-> 0]
        ELSE IF s[i + 4].k = "fold" THEN line[i + 3]
        ELSE [r |-> "field", n |-> i + 3]
  IN  IF s[1].k \notin {"field", "length", "chunked"} THEN [r |-> "bad_field", n |-> 0]
      ELSE line[0]

-----------------------------------------------------------------------------

NewParser == [s |-> "nothing_yet", f |-> {}, skip |-> 0, len |-> 0, len0 |-> 0,
              limit |-> BodyLimit, bodiless |-> FALSE, room |-> Window]

HeaderDone(p) == p.s \notin {"nothing_yet", "start_line", "fields"}
Done(p) == p.s = "complete"

\* maybe_need_more with the n symbols of rest.
MaybeNeedMore(p, rest) ==
  LET n == Least(Len(rest), HeaderLimit)
  IN  CASE p.skip = 0 -> [ec |-> "", skip |-> 0]
        [] p.skip # 0 /\ n < p.skip + 4 -> [ec |-> "need_more", skip |-> p.skip]
        [] OTHER ->
             IF FindEom(SubSeq(rest, 1, n), p.skip) # 0 THEN [ec |-> "", skip |-> 0]
             ELSE [ec |-> IF n + 1 > HeaderLimit THEN "header_limit" ELSE "need_more",
                   skip |-> n - 3]

\* do_field.  A result is the parser and the error.
DoField(p, x) ==
  CASE x.k = "field" -> [p |-> p, ec |-> ""]
    [] x.k = "length" ->
         IF "chunked" \in p.f \/ ("length" \in p.f /\ p.len0 # x.n)
         THEN [p |-> p, ec |-> "bad_content_length"]
         ELSE [p |-> [p EXCEPT !.len = x.n, !.len0 = x.n, !.f = @ \cup {"length"}], ec |-> ""]
    [] x.k = "chunked" ->
         IF p.f \cap {"chunked", "length"} # {}
         THEN [p |-> p, ec |-> "bad_transfer_encoding"]
         ELSE [p |-> [p EXCEPT !.len = 0, !.f = @ \cup {"chunked"}], ec |-> ""]

\* finish_header, for requests and for responses.
FinishHeader(p) ==
  LET To(s, f) == [p |-> [p EXCEPT !.s = s, !.f = @ \cup f], ec |-> ""]
  IN  CASE ~ToServer /\ p.bodiless -> To("complete", {})
        [] ~(~ToServer /\ p.bodiless) /\ "length" \in p.f ->
             IF p.len > 0 /\ p.len > p.limit
             THEN [p |-> IF ToServer THEN p ELSE To("body0", {"has_body"}).p, ec |-> "body_limit"]
             ELSE IF p.len > 0 THEN To("body0", {"has_body"}) ELSE To("complete", {})
        [] ~(~ToServer /\ p.bodiless) /\ "length" \notin p.f /\ "chunked" \in p.f ->
             To("chunk_header0", {"has_body"})
        [] OTHER ->
             IF ToServer THEN To("complete", {})
             ELSE To("body_to_eof0", {"has_body", "need_eof"})

-----------------------------------------------------------------------------
(* The read operation.  rop.pc is                                            *)
(*   "idle"      no operation                                                *)
(*   "some"      about to enter read_some_op                                 *)
(*   "put"       in put(), at the switch; p symbols of the buffer are parsed *)
(*   "field"     in the loop of parse_fields, over the symbols up to last    *)
(*   "trailer"   the same, for the fields behind the last chunk, from q      *)
(*   "ret"       put() has returned                                          *)
(*   "read"      async_read_some of the stream in flight                     *)
(*   "told"      the handler of the application has run                      *)
IdleRead == [pc |-> "idle", until |-> "done", eager |-> FALSE, p |-> 0, q |-> 0, last |-> 0,
             n |-> 0, ec |-> ""]

ParInit ==
  /\ buf = <<>>
  /\ par = NewParser
  /\ rop = IdleRead
  /\ how \in [mode : ReadModes, body : Readers]
  /\ body = <<>>
  /\ taken = 0
  /\ received = <<>>
  /\ failed = {}

Rest == SubSeq(buf, rop.p + 1, Len(buf))
Stopped == received # <<>> /\ received[Len(received)].ec # ""

Check(name, cond) == failed' = IF cond THEN failed ELSE failed \cup {name}

\* put returns ec with p symbols parsed.
Return(p, ec) == rop' = [rop EXCEPT !.pc = "ret", !.p = p, !.ec = ec]
\* The switch is left by break: put goes on if it is eager and there is more.
Break(p, newpar) ==
  rop' = [rop EXCEPT !.p = p, !.ec = "",
          !.pc = IF p < Len(buf) /\ ~Done(newpar) /\ rop.eager THEN "put" ELSE "ret"]

\* async_read_header, async_read, async_read_some.
StartRead ==
  /\ rop.pc = "idle" /\ ~Stopped /\ ~Done(par)
  /\ LET until == CASE how.mode = "header" /\ ~HeaderDone(par) -> "header"
                    [] how.mode = "some" -> "some"
                    [] OTHER -> "done"
     IN  rop' = [IdleRead EXCEPT !.pc = "some", !.until = until, !.eager = until = "done"]
  /\ UNCHANGED <<buf, par, how, body, taken, received, failed>>

ReadSome ==
  /\ rop.pc = "some"
  /\ rop' = [rop EXCEPT !.pc = IF buf = <<>> THEN "read" ELSE "put", !.p = 0]
  /\ Check("put after complete", buf = <<>> \/ ~Done(par))
  /\ UNCHANGED <<buf, par, how, body, taken, received>>

-----------------------------------------------------------------------------
(* put, one action for each case of its switch.                              *)

\* nothing_yet and start_line.
PutStartLine ==
  /\ rop.pc = "put" /\ par.s \in {"nothing_yet", "start_line"}
  /\ LET m == MaybeNeedMore(par, Rest)
         n == Len(Rest)
         w == Least(HeaderLimit, n)
         now == [par EXCEPT !.s = "start_line", !.skip = m.skip]
     IN  \/ /\ m.ec # ""
            /\ par' = now
            /\ Return(rop.p, m.ec)
         \/ /\ m.ec = "" /\ Rest[1].k # "start"
            /\ par' = now
            /\ Return(rop.p, "bad_start_line")
         \/ /\ m.ec = "" /\ Rest[1].k = "start" /\ w < 3
            /\ par' = [now EXCEPT !.skip = IF n < HeaderLimit /\ n >= 3 THEN n - 3 ELSE @]
            /\ Return(rop.p, IF n >= HeaderLimit THEN "header_limit" ELSE "need_more")
         \/ /\ m.ec = "" /\ Rest[1].k = "start" /\ w >= 3
            /\ par' = [now EXCEPT !.s = "fields", !.bodiless = Rest[1].n = 1]
            /\ rop' = IF n = 3 THEN [rop EXCEPT !.pc = "ret", !.p = @ + 3, !.ec = "need_more"]
                               ELSE [rop EXCEPT !.p = @ + 3]
  /\ UNCHANGED <<buf, how, body, taken, received, failed>>

\* fields: how far parse_fields may look.
PutFields ==
  /\ rop.pc = "put" /\ par.s = "fields"
  /\ LET m == MaybeNeedMore(par, Rest) IN
     /\ par' = [par EXCEPT !.skip = m.skip]
     /\ IF m.ec # "" THEN Return(rop.p, m.ec)
        ELSE rop' = [rop EXCEPT !.pc = "field", !.n = Len(Rest), !.q = rop.p,
                     !.last = rop.p + Least(HeaderLimit, Len(Rest))]
  /\ UNCHANGED <<buf, how, body, taken, received, failed>>

\* parse_fields ran out of input: the next search starts three symbols back.
FieldsNeedMore ==
  LET left == Len(buf) - rop.q IN
  IF rop.pc = "trailer" THEN par' = par /\ Return(rop.p, "need_more")
  ELSE IF rop.n >= HeaderLimit THEN par' = par /\ Return(rop.q, "header_limit")
  ELSE /\ par' = [par EXCEPT !.skip = IF left >= 3 THEN left - 3 ELSE @]
       /\ Return(rop.q, "need_more")

\* The empty line: the header is complete, or the chunked body is.
FieldsEnd ==
  IF rop.pc = "trailer"
  THEN /\ par' = [par EXCEPT !.s = "complete"]
       /\ Break(rop.last, par')
       /\ Check("p == eom", rop.q + 2 = rop.last)
  ELSE LET x == FinishHeader(par) IN
       /\ par' = x.p
       /\ IF x.ec # "" THEN Return(rop.q + 2, x.ec) ELSE Break(rop.q + 2, par')
       /\ UNCHANGED failed

\* One round of parse_fields.  While it parses trailers, put has not advanced yet.
Field ==
  /\ rop.pc \in {"field", "trailer"}
  /\ LET s == SubSeq(buf, rop.q + 1, rop.last)
         At(q) == IF rop.pc = "trailer" THEN rop.p ELSE q
     IN  IF Len(s) < 2 THEN FieldsNeedMore /\ UNCHANGED failed
         ELSE IF s[1] = Sym("cr", 0) THEN
           IF s[2] = Sym("lf", 0) THEN FieldsEnd
           ELSE /\ Return(At(rop.q + 2), "bad_line_ending")
                /\ UNCHANGED <<par, failed>>
         ELSE LET field == ParseField(s)
                  x == DoField(par, s[1])
              IN  /\ UNCHANGED failed
                  /\ \/ field.r = "need_more" /\ FieldsNeedMore
                     \/ /\ field.r = "bad_field"
                        /\ Return(At(rop.q), "bad_field")
                        /\ par' = par
                     \/ /\ field.r = "field"
                        /\ par' = x.p
                        /\ IF x.ec # "" THEN Return(At(rop.q), x.ec)
                           ELSE rop' = [rop EXCEPT !.q = @ + field.n]
  /\ UNCHANGED <<buf, how, body, taken, received>>

\* What the body reader does with s: how much it takes, and its error.
Accept(s) ==
  IF how.body = "string" THEN [n |-> Len(s), ec |-> ""]
  ELSE [n |-> Least(Len(s), par.room), ec |-> IF Len(s) <= par.room THEN "" ELSE "need_buffer"]
Store(s, a) ==
  /\ body' = body \o SubSeq(s, 1, a.n)
  /\ Check("no skip in a body", par.skip = 0 \/ par.s = "chunk_body")
Room(a) == IF how.body = "string" THEN par.room ELSE par.room - a.n

\* body0 and body.
PutBody ==
  /\ rop.pc = "put" /\ par.s \in {"body0", "body"}
  /\ LET s == SubSeq(Rest, 1, Least(par.len, Len(Rest)))
         a == Accept(s)
         left == par.len - a.n
     IN  /\ Store(s, a)
         /\ par' = [par EXCEPT !.len = left, !.room = Room(a),
                    !.s = IF a.ec = "" /\ left = 0 THEN "complete" ELSE "body"]
         /\ IF a.ec # "" THEN Return(rop.p + a.n, a.ec) ELSE Break(rop.p + a.n, par')
  /\ UNCHANGED <<buf, how, taken, received>>

\* body_to_eof0 and body_to_eof.  The limit shrinks by what is presented.
PutBodyToEof ==
  /\ rop.pc = "put" /\ par.s \in {"body_to_eof0", "body_to_eof"}
  /\ LET a == Accept(Rest) IN
     IF Len(Rest) > par.limit
     THEN /\ par' = [par EXCEPT !.s = "body_to_eof"]
          /\ Return(rop.p, "body_limit")
          /\ UNCHANGED <<body, failed>>
     ELSE /\ Store(Rest, a)
          /\ par' = [par EXCEPT !.s = "body_to_eof", !.limit = @ - Len(Rest), !.room = Room(a)]
          /\ IF a.ec # "" THEN Return(rop.p + a.n, a.ec) ELSE Break(rop.p + a.n, par')
  /\ UNCHANGED <<buf, how, taken, received>>

\* The last chunk: eol is the end of its first line, q the offset of its size.
LastChunkHeader(rest, p, q, eol) ==
  LET eom == FindEom(rest, p.skip) IN
  IF eom = 0 THEN
     /\ par' = [p EXCEPT !.skip = Len(rest) - 3]
     /\ Return(rop.p, "need_more")
  ELSE IF eol # q + 3 THEN par' = p /\ Return(rop.p, "bad_chunk_extension")
  ELSE /\ par' = p
       /\ rop' = [rop EXCEPT !.pc = "trailer", !.q = rop.p + eol, !.last = rop.p + eom]

\* chunk_header0 and chunk_header, when the last chunk has not been seen.
PutChunkHeader ==
  /\ rop.pc = "put" /\ par.s \in {"chunk_header0", "chunk_header"} /\ "final" \notin par.f
  /\ LET rest == Rest
         n == Len(rest)
         now == [par EXCEPT !.s = "chunk_header"]
         q == IF "expect_crlf" \in par.f THEN 2 ELSE 0
         eol == FindEol(rest, par.skip)
         Fail(ec) == par' = now /\ Return(rop.p, ec) /\ UNCHANGED failed
     IN  IF n < par.skip + 2 THEN Fail("need_more")
         ELSE IF q = 2 /\ SubSeq(rest, 1, 2) # CRLF THEN Fail("bad_chunk")
         ELSE IF eol.r = "bad" THEN Fail("bad_line_ending")
         ELSE IF eol.r = "none" THEN
           /\ par' = [now EXCEPT !.skip = n - 1]
           /\ Return(rop.p, "need_more")
           /\ UNCHANGED failed
         ELSE IF rest[q + 1].k # "size" THEN Fail("bad_chunk")
         ELSE IF rest[q + 1].n = 0 THEN
           /\ LastChunkHeader(rest, [now EXCEPT !.f = @ \cup {"final"}, !.skip = eol.at - 2],
                              q, eol.at)
           /\ Check("n >= 3", n >= 3)
         ELSE IF rest[q + 1].n > par.limit THEN Fail("body_limit")
         ELSE IF eol.at # q + 3 THEN Fail("bad_chunk_extension")
         ELSE /\ par' = [now EXCEPT !.s = "chunk_body", !.len = rest[q + 1].n, !.skip = 2,
                         !.limit = @ - rest[q + 1].n, !.f = @ \cup {"expect_crlf"}]
              /\ Break(rop.p + eol.at, par')
              /\ UNCHANGED failed
  /\ UNCHANGED <<buf, how, body, taken, received>>

\* chunk_header again, when the last chunk was there but not its trailer.
PutLastChunk ==
  /\ rop.pc = "put" /\ par.s = "chunk_header" /\ "final" \in par.f
  /\ LET q == IF "expect_crlf" \in par.f THEN 2 ELSE 0 IN
     LastChunkHeader(Rest, par, q, FindEol(Rest, q + 1).at)
  /\ Check("n >= 5", Len(Rest) >= 5)
  /\ UNCHANGED <<buf, how, body, taken, received>>

PutChunkBody ==
  /\ rop.pc = "put" /\ par.s = "chunk_body"
  /\ LET s == SubSeq(Rest, 1, Least(par.len, Len(Rest)))
         a == Accept(s)
     IN  /\ Store(s, a)
         /\ par' = [par EXCEPT !.len = @ - a.n, !.room = Room(a),
                    !.s = IF par.len = a.n THEN "chunk_header" ELSE @]
         /\ IF a.ec # "" THEN Return(rop.p + a.n, a.ec) ELSE Break(rop.p + a.n, par')
  /\ UNCHANGED <<buf, how, taken, received>>

Put == PutStartLine \/ PutFields \/ Field \/ PutBody \/ PutBodyToEof \/ PutChunkHeader
         \/ PutLastChunk \/ PutChunkBody

-----------------------------------------------------------------------------
(* The rest of read_some_op, and read_op.                                    *)
\* Mutant of Complete: the end of the message is missed
BugComplete(p, ec, until) == ec # "" \/ until = "some" \/ (until = "header" /\ HeaderDone(p))

Complete(p, ec, until) == ec # "" \/ until = "some"
                            \/ IF until = "header" THEN HeaderDone(p) ELSE Done(p)

\* Mutant of TakenAfter: what an earlier round has taken is forgotten
BugTakenAfter(n) == n

TakenAfter(n) == taken + n

PutReturned ==
  /\ rop.pc = "ret"
  /\ buf' = SubSeq(buf, rop.p + 1, Len(buf))
  /\ taken' = TakenAfter(rop.p)
  /\ rop' = [rop EXCEPT !.p = 0,
             !.pc = CASE rop.ec = "need_more" -> "read"
                      [] rop.ec # "need_more" /\ Complete(par, rop.ec, rop.until) -> "told"
                      [] OTHER -> "some"]
  /\ UNCHANGED <<par, how, body, received, failed>>

Full == Len(buf) = MaxBuffer

\* The stream delivers n symbols s, or ends.
ReadOverflows ==
  /\ rop.pc = "read" /\ Full
  /\ rop' = [rop EXCEPT !.pc = "told", !.ec = "buffer_overflow"]
  /\ UNCHANGED <<buf, par, how, body, taken, received, failed>>

ReadArrives(s) ==
  /\ rop.pc = "read" /\ ~Full
  /\ buf' = buf \o s
  /\ rop' = [rop EXCEPT !.pc = "put", !.ec = ""]
  /\ Check("put after complete", ~Done(par))
  /\ UNCHANGED <<par, how, body, taken, received>>

\* Mutant of PutEof: the end of the stream ends every message
BugPutEof(p) == [p |-> [p EXCEPT !.s = "complete"], ec |-> ""]

\* put_eof.
PutEof(p) ==
  IF p.s \in {"start_line", "fields"} \/ (p.f \cap {"length", "chunked"} # {} /\ ~Done(p))
  THEN [p |-> p, ec |-> "partial_message"]
  ELSE [p |-> [p EXCEPT !.s = "complete"], ec |-> ""]

ReadEof ==
  /\ rop.pc = "read" /\ ~Full
  /\ LET x == IF par.s = "nothing_yet" THEN [p |-> par, ec |-> "end_of_stream"]
              ELSE PutEof(par)
     IN  /\ par' = x.p
         /\ rop' = [rop EXCEPT !.pc = "told", !.ec = x.ec]
         /\ Check("is_done after put_eof", x.ec # "" \/ Done(x.p))
  /\ UNCHANGED <<buf, how, body, taken, received>>

-----------------------------------------------------------------------------
(* The application when an operation completes.  After need_buffer it points *)
(* buffer_body to fresh memory and calls again; it reports any other error   *)
(* and a complete message.                                                   *)
ReadTold ==
  /\ rop.pc = "told"
  /\ rop' = IdleRead
  /\ \/ /\ rop.ec = "need_buffer"
        /\ par' = [par EXCEPT !.room = Window]
        /\ UNCHANGED received
     \/ /\ rop.ec = "" /\ ~Done(par)
        /\ UNCHANGED <<par, received>>
     \/ /\ rop.ec = "" /\ Done(par)
        /\ received' = Append(received, [ec |-> "", bodiless |-> par.bodiless, body |-> body])
        /\ UNCHANGED par
     \/ /\ rop.ec \notin {"", "need_buffer"}
        /\ received' = Append(received, [ec |-> rop.ec, bodiless |-> par.bodiless, body |-> body])
        /\ UNCHANGED par
  /\ UNCHANGED <<buf, how, body, taken, failed>>

\* A new parser for the next message, if the stream goes on after this one.
NextRead ==
  /\ rop.pc = "idle" /\ ~Stopped /\ Done(par) /\ "need_eof" \notin par.f
  /\ par' = NewParser
  /\ how' \in [mode : ReadModes, body : Readers]
  /\ body' = <<>>
  /\ taken' = 0
  /\ UNCHANGED <<buf, rop, received, failed>>

ParStep == StartRead \/ ReadSome \/ Put \/ PutReturned \/ ReadOverflows \/ ReadTold
=============================================================================
