------------------------------- MODULE Codec -------------------------------
(***************************************************************************)
(* GenericCodec (messages.rs): requests and responses as streams of bytes. *)
(* The bytes of the header are there, those of a payload are only counted: *)
(* a stream is a header and a number of payload bytes.  A stream may end   *)
(* early, the connection being lost.                                       *)
(***************************************************************************)
EXTENDS Naturals, Sequences, FiniteSets

CONSTANTS
    MaxRequest,  \* max_request_size (8 MiB)
    MaxResponse  \* max_response_size (10 KiB)

(* unsigned_varint::encode: seven bits per byte, low ones first. *)
Varint[x \in Nat] ==
    IF x < 128 THEN <<x>> ELSE <<128 + (x % 128)>> \o Varint[x \div 128]

(* What unsigned_varint::decode makes of the bytes of one number. *)
Value[b \in Seq(Nat)] ==
    IF b = <<>> THEN 0 ELSE (Head(b) % 128) + 128 * Value[Tail(b)]

Size(stream) == Len(stream.header) + stream.payload

(* The first k bytes of a stream. *)
Cut(stream, k) ==
    LET h == Len(stream.header)
    IN IF k <= h THEN [header |-> SubSeq(stream.header, 1, k), payload |-> 0]
       ELSE [stream EXCEPT !.payload = k - h]

(* The numbers a stream begins with: each ends with a byte below 128. *)
LastBytes(b) == {i \in DOMAIN b : b[i] < 128}
Numbers(b) == Cardinality(LastBytes(b))
End(b, j) ==
    IF j = 0 THEN 0
    ELSE CHOOSE i \in LastBytes(b) : Cardinality({x \in LastBytes(b) : x <= i}) = j
Number(b, j) == Value[SubSeq(b, End(b, j - 1) + 1, End(b, j))]

WriteRequest(m) ==
    [header |-> Varint[m.message_type] \o Varint[m.is_broadcast] \o Varint[m.session_id]
                    \o Varint[m.protocol_id] \o Varint[m.length],
     payload |-> m.length]

Message(h) ==
    [message_type |-> Number(h, 1), is_broadcast |-> Number(h, 2), session_id |-> Number(h, 3),
     protocol_id |-> Number(h, 4), length |-> Number(h, 5)]

(* Faulty variant: the payload is read with read, not with read_exact. *)
ReadRequestShort(s) ==
    IF Numbers(s.header) < 5 \/ Number(s.header, 5) > MaxRequest THEN <<>>
    ELSE <<Message(s.header)>>

(* Five numbers, then as many bytes as the last one says; or no message. *)
ReadRequest(s) ==
    IF \/ Numbers(s.header) < 5
       \/ Number(s.header, 5) > MaxRequest
       \/ s.payload < Number(s.header, 5)
    THEN <<>>
    ELSE <<Message(s.header)>>

(* The payload of an answer, its length before it. *)
WriteResponse(length) == [header |-> Varint[length], payload |-> length]

(* Faulty variant: any stream that ends early passes for a refusal. *)
ReadResponseLenient(s) ==
    IF Numbers(s.header) < 1 THEN "refused"
    ELSE IF Number(s.header, 1) > MaxResponse THEN "network"
    ELSE IF s.payload < Number(s.header, 1) THEN "refused"
    ELSE "ok"

(* A stream that ends before the length is a request that was not answered  *)
(* (Err(())); one that ends later, or is too long, is an error of the       *)
(* connection.                                                              *)
ReadResponse(s) ==
    IF Numbers(s.header) < 1 THEN "refused"
    ELSE IF Number(s.header, 1) > MaxResponse \/ s.payload < Number(s.header, 1) THEN "network"
    ELSE "ok"

=============================================================================
