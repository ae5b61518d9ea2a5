----------------------------- MODULE FrameParser -----------------------------
(***************************************************************************)
(* The streaming parser of imcp/src/parser.rs under the read_tick of       *)
(* imcp/src/lib.rs: bytes arrive in chunks that need not match the frames, *)
(* with noise and torn frames between them, are kept in rx_buffer, and are *)
(* consumed up to the end of one frame or the first error by each call.    *)
(***************************************************************************)
EXTENDS FrameCodec

CONSTANTS
    Frames,        \* the frames that stations send
    Streams,       \* what may come over the wire: sequences of bytes
    MaxChunk,      \* the largest read of the driver: 16 in the firmware
    RxCap,         \* size of rx_buffer: 128 in the firmware
    FrameCap       \* size of frame_buffer: 64 in the firmware

ASSUME ParserAssumption ==
    /\ Frames \subseteq Frame
    /\ MaxChunk \in Nat \ {0} /\ RxCap \in Nat /\ FrameCap \in Nat
    /\ \A stream \in Streams : stream \in Seq(Byte)

VARIABLES
    wire,          \* bytes the driver has not read yet
    rx,            \* rx_buffer[rx_scan_pos .. rx_len]: bytes not parsed
    state,         \* ParserState
    escaping,      \* is_escaping
    frame,         \* frame_buffer[.. frame_len]
    result,        \* what next_frame gave the last read_tick
    parsed         \* history: every byte parsed so far

vars == <<wire, rx, state, escaping, frame, result, parsed>>

Nothing == [none |-> TRUE]

TypeOK ==
    /\ wire \in Seq(Byte) /\ rx \in Seq(Byte) /\ Len(rx) <= RxCap
    /\ state \in {"WaitingForSof", "Receiving"}
    /\ escaping \in BOOLEAN
    /\ frame \in Seq(Byte) /\ Len(frame) <= FrameCap

Init ==
    /\ wire \in Streams
    /\ rx = <<>>
    /\ state = "WaitingForSof"
    /\ escaping = FALSE
    /\ frame = <<>>
    /\ result = Nothing
    /\ parsed = <<>>

(* The parser between two bytes; out is what next_frame returns, if it     *)
(* returns there.                                                          *)
Parser == [state |-> state, escaping |-> escaping, frame |-> frame,
           out |-> Nothing, used |-> 0]

(* Mutant: a new SOF continues the frame that was being received.          *)
StartFrameKeepingBytes(p) ==
    [p EXCEPT !.state = "Receiving", !.escaping = FALSE]

(* SOF starts a frame, wherever it comes.                                  *)
StartFrame(p) ==
    [p EXCEPT !.state = "Receiving", !.escaping = FALSE, !.frame = <<>>]

EndFrame(p) ==
    [p EXCEPT !.state = "WaitingForSof", !.escaping = FALSE,
              !.out = IF p.escaping THEN Error("InvalidEscapeSequence")
                      ELSE Decode(p.frame)]

Escape(p) ==
    IF p.escaping
      THEN [p EXCEPT !.state = "WaitingForSof",
                     !.out = Error("InvalidEscapeSequence")]
      ELSE [p EXCEPT !.escaping = TRUE]

(* Mutant: the first byte that does not fit is still written.              *)
StoreOneMore(p, b) ==
    IF Len(p.frame) > FrameCap
      THEN [p EXCEPT !.state = "WaitingForSof",
                     !.out = Error("FrameBufferTooSmall")]
      ELSE [p EXCEPT !.frame = Append(@, IF p.escaping THEN Xor(b, ESC_XOR) ELSE b),
                     !.escaping = FALSE]

Store(p, b) ==
    IF Len(p.frame) >= FrameCap
      THEN [p EXCEPT !.state = "WaitingForSof",
                     !.out = Error("FrameBufferTooSmall")]
      ELSE [p EXCEPT !.frame = Append(@, IF p.escaping THEN Xor(b, ESC_XOR) ELSE b),
                     !.escaping = FALSE]

ParseByte(p, b) ==
    IF b = SOF THEN StartFrame(p)
    ELSE IF p.state = "WaitingForSof" THEN p
    ELSE CASE b = EOF -> EndFrame(p)
           [] b = ESC -> Escape(p)
           [] OTHER   -> Store(p, b)

(* next_frame: bytes up to the first that makes it return.                 *)
AfterByte(p, b) ==
    IF p.out # Nothing THEN p ELSE [ParseByte(p, b) EXCEPT !.used = @ + 1]

NextFrame(bytes) ==
    LET after[k \in 0 .. Len(bytes)] ==
            IF k = 0 THEN Parser ELSE AfterByte(after[k - 1], bytes[k])
    IN  after[Len(bytes)]

(* read_tick with a chunk of n bytes: a chunk that does not fit is lost,   *)
(* and nothing is parsed.                                                  *)
ReadTick(n) ==
    LET bytes == rx \o SubSeq(wire, 1, n)
        p     == NextFrame(bytes)
    IN  /\ n \in 1 .. Len(wire)
        /\ wire' = SubSeq(wire, n + 1, Len(wire))
        /\ IF Len(bytes) > RxCap
             THEN /\ result' = Error("FrameBufferTooSmall")
                  /\ UNCHANGED <<rx, state, escaping, frame, parsed>>
             ELSE /\ rx' = SubSeq(bytes, p.used + 1, Len(bytes))
                  /\ state' = p.state
                  /\ escaping' = p.escaping
                  /\ frame' = p.frame
                  /\ result' = p.out
                  /\ parsed' = parsed \o SubSeq(bytes, 1, p.used)

Next == \E n \in 1 .. MaxChunk : ReadTick(n)

Spec == Init /\ [][Next]_vars

-----------------------------------------------------------------------------
(* A frame whose bytes arrive one after the other is handed over as it was *)
(* sent, at its last byte: whatever noise or torn frame came before it,    *)
(* however the driver cut it into chunks, and whatever its own bytes are.  *)
Fits(f) == Len(Content(f)) <= FrameCap

IntactFrameRead ==
    [][\A f \in Frames :
        /\ parsed' # parsed /\ Fits(f)
        /\ IsSuffix(Encode(f), parsed')
        => result' = f]_vars

(* Nothing is made up: what is handed over is a frame that was sent.  Torn *)
(* frames, noise and one damaged byte are told by the length and checksum. *)
OnlySentFrames == IsFrame(result) => result \in Frames
=============================================================================
