----------------------------- MODULE FrameCodec -----------------------------
(***************************************************************************)
(* The bytes of an IMCP frame: imcp/src/frame.rs.  A frame is framed by    *)
(* SOF and EOF; between them the header, the payload and the checksum are  *)
(* sent with the three special bytes escaped.  Numbers in a payload are    *)
(* its little-endian bytes already: a u32 identifier is four of them.      *)
(***************************************************************************)
EXTENDS Integers, Sequences, SequencesExt

SOF     == 254
EOF     == 255
ESC     == 253
ESC_XOR == 32

Byte    == 0 .. 255
Special == {SOF, EOF, ESC}

HeaderLen   == 5
ChecksumLen == 1
MaxPayload  == 128

(* FrameType as u8.                                                        *)
FrameTypes == <<"Ping", "Pong", "Ack", "Join", "SetAddress", "Data", "Set">>
TypeByte(type) == (CHOOSE i \in DOMAIN FrameTypes : FrameTypes[i] = type) - 1

(* The length of the payload that each type prescribes.                    *)
PayloadLenOK(type, len) ==
    CASE type \in {"Ping", "Pong"} -> len = 0
      [] type = "Ack"              -> len = 1
      [] type = "Join"             -> len = 4
      [] type = "SetAddress"       -> len = 5
      [] OTHER                     -> TRUE

(* What a station can send.                                                *)
Frame ==
    {f \in [to : Byte, from : Byte, type : Range(FrameTypes), payload : Seq(Byte)] :
        Len(f.payload) <= MaxPayload /\ PayloadLenOK(f.type, Len(f.payload))}

(* The exclusive or of two bytes, bit by bit.  The operator of the library *)
(* is recursive, and nothing could be proved with it.                      *)
Differ(a, b, bit) == IF (a \div bit) % 2 # (b \div bit) % 2 THEN bit ELSE 0

Xor(a, b) ==
    Differ(a, b, 1) + Differ(a, b, 2) + Differ(a, b, 4) + Differ(a, b, 8)
    + Differ(a, b, 16) + Differ(a, b, 32) + Differ(a, b, 64) + Differ(a, b, 128)

Checksum(bytes) == FoldLeft(Xor, 0, bytes)

(* Header and payload, with the length as a little-endian u16.             *)
Plain(f) ==
    <<f.to, f.from, TypeByte(f.type), Len(f.payload) % 256, Len(f.payload) \div 256>>
    \o f.payload

(* SOF, EOF and ESC do not occur between the delimiters.                   *)
Stuffed(b) == IF b \in Special THEN <<ESC, Xor(b, ESC_XOR)>> ELSE <<b>>

Stuff(bytes) == FlattenSeq([i \in DOMAIN bytes |-> Stuffed(bytes[i])])

(* What stands between SOF and EOF, before the stuffing.                   *)
Content(f) == Plain(f) \o <<Checksum(Plain(f))>>

Encode(f) == <<SOF>> \o Stuff(Content(f)) \o <<EOF>>

Error(e) == [error |-> e]

(* Mutant: the checksum is not verified.                                   *)
DecodeUnchecked(bytes) ==
    LET n    == Len(bytes) - ChecksumLen
        type == FrameTypes[bytes[3] + 1]
        len  == bytes[4] + 256 * bytes[5]
    IN  IF Len(bytes) < HeaderLen + ChecksumLen
          THEN Error("InvalidPayloadLength")
        ELSE IF len # n - HeaderLen THEN Error("InvalidPayloadLength")
        ELSE IF bytes[3] + 1 \notin DOMAIN FrameTypes THEN Error("UnknownFrameType")
        ELSE IF ~PayloadLenOK(type, len) THEN Error("InvalidPayloadLength")
        ELSE IF len > MaxPayload THEN Error("FrameBufferTooSmall")
        ELSE [to |-> bytes[1], from |-> bytes[2], type |-> type,
              payload |-> SubSeq(bytes, HeaderLen + 1, n)]

(* Frame::decode of the unescaped bytes; the order of the tests is that of *)
(* the code, so that the error is.                                         *)
Decode(bytes) ==
    LET n    == Len(bytes) - ChecksumLen
        type == FrameTypes[bytes[3] + 1]
        len  == bytes[4] + 256 * bytes[5]
    IN  IF Len(bytes) < HeaderLen + ChecksumLen
          THEN Error("InvalidPayloadLength")
        ELSE IF bytes[n + 1] # Checksum(SubSeq(bytes, 1, n))
          THEN Error("InvalidChecksum")
        ELSE IF len # n - HeaderLen THEN Error("InvalidPayloadLength")
        ELSE IF bytes[3] + 1 \notin DOMAIN FrameTypes THEN Error("UnknownFrameType")
        ELSE IF ~PayloadLenOK(type, len) THEN Error("InvalidPayloadLength")
        ELSE IF len > MaxPayload THEN Error("FrameBufferTooSmall")
        ELSE [to |-> bytes[1], from |-> bytes[2], type |-> type,
              payload |-> SubSeq(bytes, HeaderLen + 1, n)]

IsFrame(r) == "type" \in DOMAIN r
=============================================================================
