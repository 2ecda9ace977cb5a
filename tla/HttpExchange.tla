---------------------------- MODULE HttpExchange ----------------------------
(* One side writes HTTP messages and the other reads them.  The stream in    *)
(* between delivers what was written, in order, in pieces of any size.       *)
EXTENDS HttpSerializer, HttpParser

CONSTANT Scripts   \* the sequences of messages to consider

ConstantsAssumption ==
  /\ IsRequest \in BOOLEAN /\ ToServer = IsRequest /\ MayFail \in BOOLEAN
  /\ {Limit, MaxBuffer, HeaderLimit, BodyLimit, Window} \subseteq Nat \ {0}
  /\ WriteModes \subseteq {"write", "header", "split_some"}
  /\ Scripts \subseteq Seq(Messages) \ {<<>>}
ASSUME ConstantsAssumption

vars == <<serVars, parVars>>

Init == script \in Scripts /\ SerInit /\ ParInit

\* async_read_some of the stream, with room for what the dynamic buffer may still take.
WireDelivers ==
  \E n \in 1 .. Least(MaxBuffer - Len(buf), Len(wire)) :
    /\ ReadArrives(SubSeq(wire, 1, n))
    /\ wire' = SubSeq(wire, n + 1, Len(wire))
    /\ UNCHANGED <<script, at, mode, ser, wop, wrote, closed>>

WireEnds == wire = <<>> /\ closed /\ ReadEof /\ UNCHANGED serVars

Next ==
  \/ Sender /\ UNCHANGED parVars
  \/ ParStep /\ UNCHANGED serVars
  \/ NextRead /\ UNCHANGED serVars
  \/ WireDelivers
  \/ WireEnds

Spec == Init /\ [][Next]_vars

\* Handlers that are ready run, the stream moves what it is given, and the
\* applications call the next operation.
Fairness ==
  /\ WF_vars((SerStep \/ NextMessage \/ CloseStream) /\ UNCHANGED parVars)
  /\ WF_vars((ParStep \/ NextRead) /\ UNCHANGED serVars)
  /\ WF_vars(WireDelivers \/ WireEnds)
FairSpec == Spec /\ Fairness

-----------------------------------------------------------------------------
(* Correctness                                                               *)

\* The stream with serializer and parser at its ends is a pipe of messages.
Pipe == INSTANCE HttpPipe WITH begun <- at
ImplementsPipe == Pipe!Spec

\* The parser never waits for more when the whole message is in its buffer,
\* whatever the pieces it came in (the offset skip_ where a search goes on).
NothingToWaitFor ==
  (rop.pc = "read" /\ ser.s = "complete" /\ wire = <<>> /\ Len(received) + 1 = at)
    => NeedEof(Msg, IsRequest)

\* The writer and the reader of a message agree on its number of octets
\* (bytes_transferred, summed over the operations).
BytesAgree ==
  (ser.s = "complete" /\ wop.pc = "idle" /\ Done(par) /\ rop.pc = "idle"
     /\ ~Stopped /\ Len(received) = at)
    => wrote = taken

\* async_write_header writes the header and nothing of the body.
HeaderAlone ==
  (wop.pc = "told" /\ wop.until = "header" /\ wop.ec = "")
    => (wop.n = Len(Header(Msg)) /\ ser.s # "complete")

\* The assertions of basic_parser, of the body readers and of read_some_op that are
\* recorded (Check) hold, except for one in parse_chunk_header.  The conditions behind
\* that one (basic_parser.ipp:692, 694, 696) are not recorded.
AssertionsHold == failed \subseteq {"n >= 5"}

\* If nothing fails, every message is written to its end and read.
EveryMessageRead ==
  <>(Len(received) >= Len(script) /\ \A i \in 1 .. Len(script) : received[i].ec = "")

=============================================================================
