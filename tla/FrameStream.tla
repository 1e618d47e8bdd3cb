----------------------------- MODULE FrameStream -----------------------------
(***************************************************************************)
(* Frames over a byte stream that TCP cuts wherever it likes.              *)
(*                                                                         *)
(* A frame is a type byte, a big-endian length and a payload (FrameCodec). *)
(* Gateway B's handle_connection gathers what read() returns and asks      *)
(* decode_frame_stream after every piece whether it has a frame; Gateway A *)
(* reads the answer with three readexactly() calls of its own.  A          *)
(* connection carries wire, the bytes the peer ever writes; arrived of     *)
(* them have reached the reading end so far.                               *)
(***************************************************************************)
EXTENDS Integers, Sequences

CONSTANTS Base,        \* values of a byte (256)
          LenBytes,    \* bytes of the length field (4)
          MaxPayload,  \* FrameCodec.max_payload_size
          ReadMax,     \* the argument of reader.read (4096)
          Wires,       \* byte sequences a peer may write
          OwnAck,      \* the ACK payload that names the transaction just sent
          OtherJson    \* payloads that are JSON but do not

Byte == 0..(Base - 1)

ASSUME FrameAssumption ==
    /\ Base \in Nat \ {0} /\ LenBytes \in Nat \ {0}
    /\ MaxPayload \in Nat /\ ReadMax \in Nat \ {0}
    /\ Wires \subseteq Seq(Byte)
    /\ OwnAck \in Seq(Byte) /\ OwnAck \notin OtherJson

HeaderSize == 1 + LenBytes

\* MessageType; a byte outside it raises InvalidMessageTypeError.
SIGNED_BUNDLE == 1
ACK == 2
NACK == 3
MessageType == {SIGNED_BUNDLE, ACK, NACK}

VARIABLES
    end,      \* which end reads: "server" (Gateway B) or "client" (Gateway A)
    wire,     \* the bytes the peer writes on this connection
    arrived,  \* how many of them have arrived
    closed,   \* the peer has closed its end, after the last of them
    buffer,   \* what the reading end has taken from the stream
    outcome   \* "open" until the reading end is done with the connection

vars == <<end, wire, arrived, closed, buffer, outcome>>

-----------------------------------------------------------------------------
(* FrameCodec                                                              *)

\* The numbers that the first 0, 1, ... bytes stand for.
Prefixes(bytes) ==
    LET value[i \in 0..Len(bytes)] ==
          IF i = 0 THEN 0 ELSE Base * value[i - 1] + bytes[i]
    IN  value

\* struct.unpack of a big-endian unsigned integer.
Unpack(bytes) == Prefixes(bytes)[Len(bytes)]

\* What is left of n when its last 0, 1, ... bytes are taken off.
Quotients(n) ==
    LET quotient[i \in 0..LenBytes] ==
          IF i = 0 THEN n ELSE quotient[i - 1] \div Base
    IN  quotient

\* struct.pack of one; it raises when the number does not fit.
Pack(n) == [i \in 1..LenBytes |-> Quotients(n)[LenBytes - i] % Base]
Fits(n) == Quotients(n)[LenBytes] = 0

\* An ACK is far shorter than the length field allows.
ASSUME AckAssumption == Fits(Len(OwnAck))

\* encode_frame for a payload that is not oversized.
EncodeFrame(type, payload) == <<type>> \o Pack(Len(payload)) \o payload

DeclaredLength(buf) == Unpack(SubSeq(buf, 2, HeaderSize))
FrameSize(buf) == HeaderSize + DeclaredLength(buf)

Incomplete == [kind |-> "incomplete"]
Raises(error) == [kind |-> "error", error |-> error]
Frame(buf) ==
    [kind |-> "frame", type |-> buf[1],
     payload |-> SubSeq(buf, HeaderSize + 1, FrameSize(buf)),
     remaining |-> SubSeq(buf, FrameSize(buf) + 1, Len(buf))]

\* Mutated form: no limit on the declared length.
DecodeFrameStreamUnlimited(buf) ==
    CASE Len(buf) < HeaderSize -> Incomplete
      [] Len(buf) >= HeaderSize /\ buf[1] \notin MessageType -> Raises("InvalidMessageType")
      [] OTHER -> IF Len(buf) < FrameSize(buf) THEN Incomplete ELSE Frame(buf)

\* decode_frame_stream: the header is judged as soon as it is there, the rest
\* waited for.
DecodeFrameStream(buf) ==
    CASE Len(buf) < HeaderSize -> Incomplete
      [] Len(buf) >= HeaderSize /\ buf[1] \notin MessageType -> Raises("InvalidMessageType")
      [] OTHER -> IF DeclaredLength(buf) > MaxPayload THEN Raises("OversizedFrame")
                  ELSE IF Len(buf) < FrameSize(buf) THEN Incomplete
                  ELSE Frame(buf)

\* decode_frame: exactly one frame, nothing missing and nothing after it.
DecodeFrame(data) ==
    LET d == DecodeFrameStream(data) IN
    IF d = Incomplete \/ (d.kind = "frame" /\ d.remaining # << >>)
    THEN Raises("MalformedFrame") ELSE d

-----------------------------------------------------------------------------
(* The stream                                                              *)

Open == [kind |-> "open"]
Done(kind) == [kind |-> kind]

Init ==
    /\ end \in {"server", "client"}
    /\ wire \in Wires
    /\ arrived = 0
    /\ closed = FALSE
    /\ buffer = << >>
    /\ outcome = Open

\* A segment arrives.
Arrive ==
    /\ arrived < Len(wire)
    /\ arrived' \in (arrived + 1)..Len(wire)
    /\ UNCHANGED <<end, wire, closed, buffer, outcome>>

PeerCloses ==
    /\ arrived = Len(wire) /\ ~closed
    /\ closed' = TRUE
    /\ UNCHANGED <<end, wire, arrived, buffer, outcome>>

\* Nothing is left to read and nothing will come.
AtEof == closed /\ Len(buffer) = Len(wire)

-----------------------------------------------------------------------------
(* Gateway B: the loop of handle_connection                                *)

\* What a complete frame leads to: a NACK, or process_transaction.
OnFrame(d) ==
    IF d.remaining # << >> \/ d.type # SIGNED_BUNDLE THEN Done("MALFORMED")
    ELSE [kind |-> "transaction", payload |-> d.payload]

\* How many bytes read(ReadMax) returns.
Readable == IF arrived - Len(buffer) < ReadMax THEN arrived - Len(buffer) ELSE ReadMax
NextPiece == SubSeq(wire, Len(buffer) + 1, Len(buffer) + Readable)

\* Mutated forms: a piece replaces the ones before it; the first piece is taken
\* for all there is.
ServerReadForgets ==
    /\ end = "server" /\ outcome = Open /\ Readable > 0
    /\ buffer' = NextPiece
    /\ LET d == DecodeFrameStream(buffer') IN
       outcome' = CASE d.kind = "incomplete" -> Open
                    [] d.kind = "error" -> Done("MALFORMED")
                    [] OTHER -> OnFrame(d)
    /\ UNCHANGED <<end, wire, arrived, closed>>
ServerReadOnce ==
    /\ end = "server" /\ outcome = Open /\ Readable > 0
    /\ buffer' = buffer \o NextPiece
    /\ LET d == DecodeFrameStream(buffer') IN
       outcome' = IF d.kind = "frame" THEN OnFrame(d) ELSE Done("MALFORMED")
    /\ UNCHANGED <<end, wire, arrived, closed>>

\* read(ReadMax) returns what is there, and a frame is looked for.
ServerRead ==
    /\ end = "server" /\ outcome = Open /\ Readable > 0
    /\ buffer' = buffer \o NextPiece
    /\ LET d == DecodeFrameStream(buffer') IN
       outcome' = CASE d.kind = "incomplete" -> Open
                    [] d.kind = "error" -> Done("MALFORMED")
                    [] OTHER -> OnFrame(d)
    /\ UNCHANGED <<end, wire, arrived, closed>>

\* Mutated form: an empty read is no reason to leave the loop.
ServerEofIgnored == FALSE

\* read() returns b"": the loop ends and the connection closes unanswered.
ServerEof ==
    /\ end = "server" /\ outcome = Open /\ AtEof
    /\ outcome' = Done("unanswered")
    /\ UNCHANGED <<end, wire, arrived, closed, buffer>>

-----------------------------------------------------------------------------
(* Gateway A: the answer in send_envelope                                  *)

\* How many bytes the readexactly() calls so far and the current one ask for.
Wanted ==
    IF Len(buffer) = 0 THEN 1
    ELSE IF Len(buffer) = 1 THEN HeaderSize
    ELSE FrameSize(buffer)

\* send_envelope's reading of a complete answer; a payload that json.loads
\* rejects raises, and the transport is blamed.
ClientResult(buf) ==
    LET payload == SubSeq(buf, HeaderSize + 1, Len(buf)) IN
    IF buf[1] \notin {ACK, NACK} THEN "UNKNOWN_RESPONSE_TYPE"
    ELSE IF payload \notin OtherJson \cup {OwnAck} THEN "TRANSPORT_ERROR"
    ELSE IF buf[1] = NACK THEN "NACK"
    ELSE IF payload = OwnAck THEN "ACK" ELSE "ACK_ID_MISMATCH"

\* Whether the header and the payload it announces have been read.
ReplyComplete(buf) == Len(buf) >= HeaderSize /\ Len(buf) = FrameSize(buf)

\* Mutated form: read() in the place of readexactly() for the payload.
ClientReadSome ==
    /\ end = "client" /\ outcome = Open
    /\ arrived > Len(buffer) /\ (arrived >= Wanted \/ Len(buffer) = HeaderSize)
    /\ buffer' = SubSeq(wire, 1, IF arrived < Wanted THEN arrived ELSE Wanted)
    /\ outcome' = IF Len(buffer') > HeaderSize \/ ReplyComplete(buffer')
                  THEN Done(ClientResult(buffer')) ELSE Open
    /\ UNCHANGED <<end, wire, arrived, closed>>

\* One readexactly() returns.  No limit applies to the length, and an empty
\* payload is read without waiting.
ClientRead ==
    /\ end = "client" /\ outcome = Open
    /\ arrived >= Wanted
    /\ buffer' = SubSeq(wire, 1, Wanted)
    /\ outcome' = IF ReplyComplete(buffer') THEN Done(ClientResult(buffer')) ELSE Open
    /\ UNCHANGED <<end, wire, arrived, closed>>

\* Its wait_for expires.
ClientTimeout ==
    /\ end = "client" /\ outcome = Open
    /\ arrived < Wanted
    /\ outcome' = Done("TIMEOUT")
    /\ UNCHANGED <<end, wire, arrived, closed, buffer>>

\* The peer closed before the bytes were there: IncompleteReadError.
ClientEof ==
    /\ end = "client" /\ outcome = Open
    /\ closed /\ arrived < Wanted
    /\ outcome' = Done("TRANSPORT_ERROR")
    /\ UNCHANGED <<end, wire, arrived, closed, buffer>>

-----------------------------------------------------------------------------
ReaderStep == ServerRead \/ ServerEof \/ ClientRead \/ ClientTimeout \/ ClientEof
Next == Arrive \/ PeerCloses \/ ReaderStep

Spec == Init /\ [][Next]_vars

\* TCP delivers what was written, and the event loop runs a reader that has
\* something to do.  The peer need not close.
FairSpec == Spec /\ WF_vars(Arrive) /\ WF_vars(ReaderStep)

-----------------------------------------------------------------------------
(* Properties                                                              *)

\* Type invariant.
FrameTypeOK ==
    /\ end \in {"server", "client"}
    /\ wire \in Wires
    /\ arrived \in 0..Len(wire)
    /\ closed \in BOOLEAN
    /\ buffer \in Seq(Byte) /\ Len(buffer) <= arrived /\ buffer = SubSeq(wire, 1, Len(buffer))
    /\ outcome.kind \in {"open", "transaction", "MALFORMED", "unanswered", "ACK", "NACK",
                         "ACK_ID_MISMATCH", "UNKNOWN_RESPONSE_TYPE", "TRANSPORT_ERROR", "TIMEOUT"}

StartsWith(s, prefix) == Len(prefix) <= Len(s) /\ SubSeq(s, 1, Len(prefix)) = prefix

\* What decode_frame says of everything the peer wrote.
WholeStreamOutcome ==
    LET d == DecodeFrame(wire) IN
    IF d.kind = "frame" /\ d.type = SIGNED_BUNDLE
    THEN [kind |-> "transaction", payload |-> d.payload]
    ELSE IF DecodeFrameStream(wire) = Incomplete THEN Done("unanswered")
    ELSE Done("MALFORMED")

HasTrailing ==
    LET d == DecodeFrameStream(wire) IN d.kind = "frame" /\ d.remaining # << >>

\* How the handler ends is settled by the stream, and by one fact of how TCP cut
\* it.  On a stream without bytes behind its frame it ends as decode_frame would
\* on the whole: it closes without an answer exactly when the peer left a frame
\* unfinished.  Bytes behind a frame make it malformed exactly when the read that
\* completed the frame returned some of them; otherwise the handler goes on with
\* the frame alone.  And a payload it goes on with is the one that encode_frame
\* put into the stream.
CutsDoNotMatter ==
    end = "server" /\ outcome # Open =>
        /\ outcome = IF HasTrailing /\ Len(buffer) = FrameSize(wire)
                     THEN OnFrame([DecodeFrameStream(wire) EXCEPT !.remaining = << >>])
                     ELSE WholeStreamOutcome
        /\ outcome.kind = "transaction" =>
              StartsWith(wire, EncodeFrame(SIGNED_BUNDLE, outcome.payload))

\* handle_connection's own comment: "Frame followed by extra bytes -> malformed
\* in this context".  Violated: extra bytes that a later segment brings are never
\* read, and the transaction is processed.
ExtraBytesMalformed ==
    end = "server" /\ HasTrailing /\ outcome # Open => outcome = Done("MALFORMED")

\* A peer cannot make the handler hoard bytes: it gives up an unusable header
\* at once and never holds more than a maximal frame and one read.
BufferBounded == end = "server" => Len(buffer) < HeaderSize + MaxPayload + ReadMax

\* Gateway A takes nothing for an ACK but a whole ACK frame that names the
\* transaction it sent, and agrees with FrameCodec on where the frame ends; and
\* that answer is understood or times out: segmentation alone never turns it into
\* another one.
AnswerUnderstood ==
    /\ outcome.kind = "ACK" => buffer = EncodeFrame(ACK, OwnAck)
    /\ end = "client" /\ wire = EncodeFrame(ACK, OwnAck)
          => outcome.kind \in {"open", "ACK", "TIMEOUT"}

\* A reader whose peer closed its end finishes: no connection outlives its peer.
ReaderEnds == closed ~> (outcome # Open)
=============================================================================
