----------------------------- MODULE FrameReader -----------------------------
(* How a server takes messages out of the bytes that arrive, by read_some:    *)
(* parse_fh, which is called again on the same bytes until a frame header is   *)
(* complete, the mask, which goes on where the last piece ended, and the check *)
(* of text, which goes on across frames.  No compression.                      *)
EXTENDS Utf8Checker, SequencesExt

CONSTANTS
  Frames,      \* what the peer may send: [op, fin, mask, rsv, long, payload]
  Buffers,     \* sizes of the caller's buffer
  RdMax,       \* rd_buf.max_size()
  MsgMax,      \* rd_msg_max
  Ext,         \* payloads this long need a header with an extended length (126)
  EmptyEnds,   \* the peer may end a message with a frame that is empty
  MaxBytes, MaxFrames, MaxAhead   \* bounds on what the peer sends, and sends ahead

ASSUME BoundsAssumption ==
  {RdMax, MsgMax, Ext, MaxBytes, MaxFrames, MaxAhead} \cup Buffers \subseteq Nat \ {0}
ASSUME FramesAssumption ==
  \A f \in Frames : /\ f.op \in {"text", "binary", "cont", "ping", "reserved"}
                    /\ f.payload \in Seq(Nat)

VARIABLES
  wire,        \* frames that are not parsed yet
  body,        \* what is left of the payload that is being read, as bytes [b, at, clear]
  arrived,     \* how much is in rd_buf, of body first and of wire next
  rd_fh, rd_remain, rd_cont, rd_done, rd_op, rd_size,
  rd_key,      \* how far the key is rotated
  need_, cp_,  \* of rd_utf8
  state,       \* of the call: "idle", "header", "payload", or why the connection failed
  n,           \* the size of its buffer
  given,       \* what it has put there, or handed to the control callback
  rest,        \* by the encoding: the bytes since the last code point of the message
  proper,      \* by the encoding: nothing so far is against it
  bytes, frames   \* what the peer has sent

readVars == <<rd_fh, rd_remain, rd_cont, rd_done, rd_op, rd_size, rd_key>>
textVars == <<need_, cp_, rest, proper>>
peerVars == <<bytes, frames>>
vars == <<wire, body, arrived, readVars, textVars, state, n, given, peerVars>>

Init ==
  /\ wire = <<>> /\ body = <<>> /\ arrived = 0
  /\ rd_fh = [op |-> "none", fin |-> FALSE, mask |-> FALSE, len |-> 0]
  /\ rd_remain = 0 /\ rd_cont = FALSE /\ rd_done = TRUE /\ rd_op = "text" /\ rd_size = 0
  /\ rd_key = 0 /\ need_ = 0 /\ cp_ = <<>> /\ rest = <<>> /\ proper = TRUE
  /\ state = "idle" /\ n = 0 /\ given = <<>> /\ bytes = 0 /\ frames = 0

-----------------------------------------------------------------------------
IsControl(op) == op = "ping"

(* The peer.  A field of the header arrives as a whole: two bytes, then an    *)
(* extended length and the key where the frame has them.                      *)
Fields(f) == 1 + (IF f.long THEN 1 ELSE 0) + (IF f.mask THEN 1 ELSE 0)
Size(f) == Fields(f) + Len(f.payload)
OnWire(s) == FoldLeft(LAMBDA size, f : size + Size(f), 0, s)

Sends(f) ==
  /\ frames < MaxFrames /\ Len(wire) < MaxAhead /\ bytes + Len(f.payload) <= MaxBytes
  /\ f.op = "cont" /\ f.fin /\ f.payload = <<>> => EmptyEnds
  /\ wire' = Append(wire, f)
  /\ frames' = frames + 1 /\ bytes' = bytes + Len(f.payload)
  /\ UNCHANGED <<body, arrived, readVars, textVars, state, n, given>>
Outstanding == Len(body) + OnWire(wire) - arrived

-----------------------------------------------------------------------------
Min2(a, b) == IF a < b THEN a ELSE b

\* Mutant of Unmasked: every piece begins with the first byte of the key
BugUnmasked(s, k) ==
  [i \in 1 .. Len(s) |-> IF i > k THEN s[i] ELSE [s[i] EXCEPT !.clear = ~@ /\ (i - 1) % 4 = s[i].at]]

\* mask_inplace of the first k bytes: it is clear when it was not, and the key fits.
Unmasked(s, k) ==
  [i \in 1 .. Len(s) |->
     IF i > k THEN s[i] ELSE [s[i] EXCEPT !.clear = ~@ /\ (rd_key + i - 1) % 4 = s[i].at]]
Rotated(k) == rd_key' = (rd_key + k) % 4

Call(size) ==
  /\ state = "idle" /\ n' = size /\ given' = <<>>
  /\ state' = IF rd_remain = 0 /\ (~rd_fh.fin \/ rd_done) THEN "header" ELSE "payload"
  /\ UNCHANGED <<wire, body, arrived, readVars, textVars, peerVars>>

(* parse_fh                                                                   *)
RawLen(f) == IF f.long THEN Ext ELSE Len(f.payload)
\* What it has written when it returns for more bytes
Seen(f, a) ==
  IF a < 1 THEN rd_fh
  ELSE IF a < Fields(f) THEN [rd_fh EXCEPT !.len = RawLen(f), !.mask = f.mask]
  ELSE [op |-> f.op, fin |-> f.fin, mask |-> f.mask, len |-> RawLen(f)]
Parsed(f) == [op |-> f.op, fin |-> f.fin, mask |-> f.mask, len |-> Len(f.payload)]

\* The whole payload of a control frame is there with its header.
ControlHere(f, a) == IsControl(f.op) => a >= Fields(f) + RawLen(f)

\* In the order of the tests
Refused(f) ==
  CASE f.op \in {"text", "binary"} /\ rd_cont -> "bad_data_frame"
    [] f.op = "cont" /\ ~rd_cont -> "bad_continuation"
    [] f.op = "reserved" -> "bad_opcode"
    [] IsControl(f.op) /\ ~f.fin -> "bad_control_fragment"
    [] IsControl(f.op) /\ f.long -> "bad_control_size"
    [] f.rsv -> "bad_reserved_bits"
    [] ~f.mask -> "bad_unmasked_frame"
    [] OTHER -> "no"
RefusedLate(f) ==
  CASE f.long /\ Len(f.payload) < Ext -> "bad_size"
    [] ~IsControl(f.op) /\ (IF f.op = "cont" THEN rd_size ELSE 0) + Len(f.payload) > MsgMax -> "message_too_big"
    [] OTHER -> "no"

Complete ==
  /\ wire # <<>> /\ arrived >= Fields(Head(wire))
  /\ ControlHere(Head(wire), arrived) \/ Refused(Head(wire)) # "no"

\* read_some of the next layer for more of the header
MoreHeader ==
  /\ state = "header" /\ ~Complete /\ Outstanding > 0
  /\ \E k \in 1 .. Outstanding : arrived' = arrived + k
  /\ rd_fh' = Seen(Head(wire), arrived)
  /\ UNCHANGED <<wire, body, rd_remain, rd_cont, rd_done, rd_op, rd_size, rd_key, textVars, state, n,
                 given, peerVars>>

\* The connection fails, and no call reads from it again.
Fails ==
  /\ state = "header" /\ Complete
  /\ LET f == Head(wire) IN
       /\ Refused(f) # "no" \/ RefusedLate(f) # "no"
       /\ state' = IF Refused(f) # "no" THEN Refused(f) ELSE RefusedLate(f)
       /\ rd_fh' = IF Refused(f) # "no" THEN Seen(f, arrived) ELSE Parsed(f)
  /\ UNCHANGED <<wire, body, arrived, rd_remain, rd_cont, rd_done, rd_op, rd_size, rd_key, textVars, n,
                 given, peerVars>>

Accepts ==
  /\ state = "header" /\ Complete
  /\ Refused(Head(wire)) = "no" /\ RefusedLate(Head(wire)) = "no" /\ wire' = Tail(wire)
Masked(f) == [i \in 1 .. Len(f.payload) |-> [b |-> f.payload[i], at |-> (i - 1) % 4, clear |-> FALSE]]

\* A control frame: its payload goes to the callback, and fin is cleared.
Control ==
  /\ Accepts /\ IsControl(Head(wire).op)
  /\ LET f == Head(wire) IN
    /\ rd_fh' = [Parsed(f) EXCEPT !.fin = FALSE]
    /\ LET k == Min2(Len(f.payload), arrived - Fields(f)) IN
         /\ rd_key' = k % 4 /\ arrived' = arrived - Fields(f) - k
         /\ given' = [i \in 1 .. Len(f.payload) |-> [Masked(f)[i] EXCEPT !.clear = i <= k]]
    /\ UNCHANGED <<body, rd_remain, rd_cont, rd_done, rd_op, rd_size, textVars, state, n, peerVars>>

\* A data frame: what is there of its payload is unmasked at once.
Data ==
  /\ Accepts /\ ~IsControl(Head(wire).op)
  /\ LET f == Head(wire) IN
    /\ rd_fh' = Parsed(f) /\ rd_remain' = Len(f.payload) /\ rd_cont' = ~f.fin
    /\ IF f.op = "cont" THEN UNCHANGED <<rd_op, rd_size>> ELSE rd_op' = f.op /\ rd_size' = 0
    /\ LET k == Min2(Len(f.payload), arrived - Fields(f)) IN
         /\ arrived' = arrived - Fields(f) /\ rd_key' = k % 4
         /\ body' = [i \in 1 .. Len(f.payload) |-> [Masked(f)[i] EXCEPT !.clear = i <= k]]
    /\ IF Len(f.payload) = 0 /\ ~f.fin
       THEN UNCHANGED <<state, rd_done>>
       ELSE state' = "payload" /\ rd_done' = FALSE
    /\ UNCHANGED <<textVars, n, given, peerVars>>

-----------------------------------------------------------------------------
(* The payload.  What the encoding says of it is kept beside the checker.     *)
\* Mutant of Ends: every frame ends a message
BugEnds(left) == left = 0

Ends(left) == left = 0 /\ rd_fh.fin

\* The text check, and finish with the last byte of the message
Checks(s, left) ==
  LET r == Write(cp_, need_, s)
      t == AddBytes([rest |-> rest, proper |-> proper], s)
      last == left = 0 /\ rd_fh.fin
  IN /\ state' = IF r.ok /\ (Ends(left) => r.need = 0) THEN "idle" ELSE "bad_frame_payload"
     /\ need_' = (IF r.ok /\ Ends(left) THEN 0 ELSE r.need)
     /\ cp_' = (IF r.ok /\ Ends(left) THEN <<>> ELSE r.cp)
     /\ proper' = (t.proper /\ (last => t.rest = <<>>))
     /\ rest' = IF last THEN <<>> ELSE t.rest

Delivers(s) ==
  LET left == rd_remain - Len(s)
  IN /\ given' = s /\ rd_remain' = left /\ rd_size' = rd_size + Len(s)
     /\ IF rd_op = "text" THEN Checks([i \in 1 .. Len(s) |-> s[i].b], left)
        ELSE state' = "idle" /\ UNCHANGED textVars
     /\ rd_done' = (rd_done \/ (left = 0 /\ rd_fh.fin))

\* The read buffer is empty and larger than what is asked for.
Fill ==
  /\ state = "payload" /\ rd_remain > 0 /\ arrived = 0 /\ RdMax > Min2(rd_remain, n)
  /\ \E k \in 1 .. Outstanding :
       /\ arrived' = k /\ body' = Unmasked(body, Min2(rd_remain, k)) /\ Rotated(Min2(rd_remain, k))
  /\ UNCHANGED <<wire, rd_fh, rd_remain, rd_cont, rd_done, rd_op, rd_size, textVars, state, n, given, peerVars>>

\* "The mask was already applied."
Copy ==
  /\ state = "payload" /\ rd_remain > 0 /\ arrived > 0
  /\ LET k == Min2(n, Min2(rd_remain, arrived)) IN
       /\ Delivers(SubSeq(body, 1, k)) /\ arrived' = arrived - k
       /\ body' = SubSeq(body, k + 1, Len(body))
  /\ UNCHANGED <<wire, rd_fh, rd_cont, rd_op, rd_key, n, peerVars>>

\* Into the caller's buffer
Direct ==
  /\ state = "payload" /\ rd_remain > 0 /\ arrived = 0 /\ RdMax <= Min2(rd_remain, n)
  /\ \E k \in (1 .. Outstanding) \cap (1 .. Min2(rd_remain, n)) :
       /\ Delivers(SubSeq(Unmasked(body, k), 1, k)) /\ Rotated(k)
       /\ body' = SubSeq(body, k + 1, Len(body))
  /\ UNCHANGED <<wire, arrived, rd_fh, rd_cont, rd_op, n, peerVars>>

\* The last frame is empty: nothing is checked.
Nothing ==
  /\ state = "payload" /\ rd_remain = 0
  /\ state' = "idle" /\ rd_done' = (rd_done \/ rd_fh.fin)
  /\ proper' = (proper /\ (rd_op = "text" => rest = <<>>)) /\ rest' = <<>>
  /\ UNCHANGED <<wire, body, arrived, rd_fh, rd_remain, rd_cont, rd_op, rd_size, rd_key, need_, cp_, n,
                 given, peerVars>>

Next ==
  \/ \E f \in Frames : Sends(f)
  \/ \E size \in Buffers : Call(size)
  \/ MoreHeader \/ Fails \/ Control \/ Data \/ Fill \/ Copy \/ Direct \/ Nothing

Spec == Init /\ [][Next]_vars

-----------------------------------------------------------------------------
\* However the bytes arrive and whatever the sizes of the caller's buffers, what is
\* handed out is unmasked, once, and no message grows above the limit.
PayloadIntact == (\A i \in 1 .. Len(given) : given[i].clear) /\ rd_size <= MsgMax

\* A text is refused with the first piece that no valid text begins with, or at its
\* end, and never otherwise, however it is cut into frames and pieces.
TextJudged == state = "bad_frame_payload" <=> ~proper

=============================================================================
