------------------------------ MODULE HttpPipe ------------------------------
(* What an HTTP stream promises: the messages of one side are read on the    *)
(* other in order, each once and whole, up to the end of the stream.  Only a *)
(* body that goes on to the end of the stream may be cut without a notice.   *)
EXTENDS HttpWire

CONSTANTS IsRequest, BodyLimit
VARIABLES
  script,    \* the messages to send
  begun,     \* how many the sender has begun
  closed,    \* the sender has closed the stream
  received   \* what the reader has been told

pipeVars == <<script, begun, closed, received>>

Init == begun = 1 /\ closed = FALSE /\ received = <<>>

Begin ==
  /\ ~closed /\ begun < Len(script)
  /\ begun' = begun + 1
  /\ UNCHANGED <<script, closed, received>>

Close == ~closed /\ closed' = TRUE /\ UNCHANGED <<script, begun, received>>

Listening == received = <<>> \/ received[Len(received)].ec = ""
Current == script[Len(received) + 1]

Prefixes(m) == { [i \in 1 .. n |-> Sym("octet", i)] : n \in 0 .. Total(m) }
Tell(ec, bodies) ==
  /\ Listening
  /\ \E b \in bodies, s \in BOOLEAN :
       /\ received' = Append(received, [ec |-> ec, bodiless |-> s, body |-> b])
       /\ ec = "" => s = Current.bodiless
  /\ UNCHANGED <<script, begun, closed>>

Deliver == Len(received) < begun /\ Total(Current) <= BodyLimit /\ Tell("", {Body(Current)})

Cut ==
  /\ Len(received) < begun /\ closed /\ NeedEof(Current, IsRequest)
  /\ Tell("", Prefixes(Current))

Refuse ==
  /\ Len(received) < begun /\ Total(Current) > BodyLimit
  /\ Tell("body_limit", Prefixes(Current))

\* The stream ends: in the message that was being sent, or before or after it.
Break == closed /\ Len(received) = begun - 1 /\ Tell("partial_message", Prefixes(Current))
End == closed /\ Len(received) \in {begun - 1, begun} /\ Tell("end_of_stream", {<<>>})

Next == Begin \/ Close \/ Deliver \/ Cut \/ Refuse \/ Break \/ End
Spec == Init /\ [][Next]_pipeVars
=============================================================================
