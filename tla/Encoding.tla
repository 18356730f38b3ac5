------------------------------ MODULE Encoding ------------------------------
(***************************************************************************)
(* One message on its way: StartMsg::to_bytes (if it is a start message),  *)
(* the request written and read by GenericCodec, StartMsg::from_bytes and  *)
(* Peerset::from_bytes, and the response to any other message.  The parts  *)
(* of a start message are told apart by their lengths only.                *)
(*                                                                         *)
(* to_bytes writes four parts through a BufWriter and returns the writer's *)
(* buffer, so what the writer passed on to its inner vector is lost.       *)
(* Peerset::from_bytes reads its peers through a BufReader, whose read     *)
(* stops at the end of the reader's buffer.                                *)
(***************************************************************************)
EXTENDS Codec

CONSTANTS
    PartyCounts,    \* numbers of parties of start messages
    BodyLengths,    \* lengths of their arguments, e.g. of the message to sign
    OtherLengths,   \* payload lengths of other messages
    Numerals,       \* session and protocol ids
    AnswerLengths,  \* payload lengths of answers
    Buffer,         \* capacity of std's BufWriter and BufReader (8192)
    PeerIdLength    \* bytes of a PeerId (38)

ASSUME SizesAssumption ==
    /\ PartyCounts \subseteq Nat /\ BodyLengths \subseteq Nat
    /\ OtherLengths \subseteq Nat /\ AnswerLengths \subseteq Nat /\ Numerals \subseteq Nat
    /\ Buffer \in Nat \ {0} /\ PeerIdLength \in Nat \ {0}
    /\ MaxRequest \in Nat /\ MaxResponse \in Nat

(* An acknowledgment is empty, an echo is a hash of 32 bytes.  The length   *)
(* of a longer answer would take two bytes, and a stream that ends between  *)
(* them would pass for a refusal.                                           *)
ASSUME AnswersAssumption == \A length \in AnswerLengths : length < 128

VARIABLES
    start,     \* whether it is a start message
    n,         \* parties of the start message
    body,      \* length of its body, or of another message
    part,      \* the part written next, 5 when all are, 6 once it is sent
    buffered,  \* bytes in the writer's buffer
    flushed,   \* bytes the writer passed on
    sent,      \* the request, once it is sent
    request,   \* what read_request made of it, if it made anything
    decoded,   \* peers read back, or "none" before the message is read
    answer,    \* length of the response, once there is one
    response,  \* what read_response made of it, or "none"
    arrived    \* bytes of the last stream that arrived

vars == <<start, n, body, part, buffered, flushed, sent, request, decoded, answer, response, arrived>>

EntryLength == PeerIdLength + 1

VarintLength(x) == Len(Varint[x])

(* The four writes of to_bytes. *)
PartLengths == <<VarintLength(n * EntryLength), n * EntryLength, VarintLength(body), body>>

Total == VarintLength(n * EntryLength) + n * EntryLength + VarintLength(body) + body

Init ==
    /\ \/ start = TRUE /\ n \in PartyCounts /\ body \in BodyLengths /\ part = 1
       \/ start = FALSE /\ n = 0 /\ body \in OtherLengths /\ part = 5
    /\ buffered = 0 /\ flushed = 0
    /\ sent = <<>> /\ request = <<>> /\ decoded = "none"
    /\ answer = 0 /\ response = "none"
    /\ arrived = 0

(* Faulty variant: a part that just fits flushes the buffer. *)
WritePartTight ==
    LET length == PartLengths[part]
        kept == IF length >= Buffer - buffered THEN 0 ELSE buffered
    IN  /\ part <= 4
        /\ part' = part + 1
        /\ buffered' = IF length >= Buffer THEN kept ELSE kept + length
        /\ flushed' = flushed + (buffered - kept) + (IF length >= Buffer THEN length ELSE 0)
        /\ UNCHANGED <<start, n, body, sent, request, decoded, answer, response, arrived>>

(* BufWriter::write_all: the buffer is flushed when the part does not fit,  *)
(* and a part of the buffer's size or more bypasses it.                     *)
WritePart ==
    LET length == PartLengths[part]
        kept == IF length > Buffer - buffered THEN 0 ELSE buffered
    IN  /\ part <= 4
        /\ part' = part + 1
        /\ buffered' = IF length >= Buffer THEN kept ELSE kept + length
        /\ flushed' = flushed + (buffered - kept) + (IF length >= Buffer THEN length ELSE 0)
        /\ UNCHANGED <<start, n, body, sent, request, decoded, answer, response, arrived>>

(* Where a stream may end: in or after the header, in or after the payload. *)
Ends(stream) == 0 .. Len(stream.header) \cup {Size(stream) \div 2, Size(stream) - 1, Size(stream)}

(* write_request and read_request.  Only a computation's message may be for *)
(* one party alone.                                                         *)
Transfer ==
    /\ part = 5
    /\ part' = 6
    /\ \E type, wide \in 0 .. 1, session, protocol \in Numerals :
          /\ start => type = 0
          /\ type = 0 => wide = 1
          /\ sent' = <<[message_type |-> type, is_broadcast |-> wide,
                       session_id |-> session, protocol_id |-> protocol,
                       length |-> IF start THEN buffered ELSE body]>>
    /\ LET stream == WriteRequest(sent'[1])
       IN \E k \in Ends(stream) :
             /\ request' = ReadRequest(Cut(stream, k))
             /\ arrived' = k
    /\ UNCHANGED <<start, n, body, buffered, flushed, decoded, answer, response>>

(* The k-th peer id lies within one filling of the reader's buffer. *)
ReadWhole(k) == ((k - 1) * EntryLength) \div Buffer = (k * EntryLength - 2) \div Buffer

(* from_bytes on io.buffer(): peers are read up to the first short read.    *)
(* What remains of a message that lost its beginning decodes as anything or *)
(* as nothing.                                                              *)
Read ==
    /\ start /\ request # <<>>
    /\ decoded = "none"
    /\ decoded' = IF flushed > 0 THEN "garbage"
                  ELSE IF \A k \in 1 .. n : ReadWhole(k) THEN "whole" ELSE "cut"
    /\ UNCHANGED <<start, n, body, part, buffered, flushed, sent, request, answer, response, arrived>>

(* write_response and read_response. *)
Respond ==
    /\ ~start /\ request # <<>>
    /\ response = "none"
    /\ answer' \in AnswerLengths
    /\ LET stream == WriteResponse(answer')
       IN \E k \in Ends(stream) :
             /\ response' = ReadResponse(Cut(stream, k))
             /\ arrived' = k
    /\ UNCHANGED <<start, n, body, part, buffered, flushed, sent, request, decoded>>

Rest ==
    /\ (part = 6 /\ request = <<>>) \/ decoded # "none" \/ response # "none"
    /\ UNCHANGED vars

Next == WritePart \/ Transfer \/ Read \/ Respond \/ Rest

Spec == Init /\ [][Next]_vars

-----------------------------------------------------------------------------
(* Properties.                                                              *)

(* A start message survives exactly when it fits the writer's buffer: there *)
(* is no size below the limit that is lost, or cut by the reader, and none  *)
(* above that gets through (negotiation.rs:238-264, peerset.rs:48-60).      *)
SurvivesIffFits == decoded # "none" => (decoded = "whole" <=> Total <= Buffer)

(* Wherever its stream ends, a request is either read as it was written or  *)
(* not at all: no beginning of one passes for a message, and none within    *)
(* the limit that arrives is declined (messages.rs:47-103).                 *)
RequestIntact ==
    part = 6 /\ response = "none" =>
        request = IF /\ arrived = Size(WriteRequest(sent[1]))
                     /\ sent[1].length <= MaxRequest THEN sent ELSE <<>>

(* A caller never takes a part of an answer for an answer: a hash cut short *)
(* is a failed request (EchoFailed), not an InconsistentEcho, and a refusal *)
(* means that nothing came (messages.rs:112-133).                           *)
ResponseIntact ==
    response # "none" =>
        /\ response = "ok" <=> arrived = Size(WriteResponse(answer)) /\ answer <= MaxResponse
        /\ response = "refused" <=> arrived = 0

=============================================================================
