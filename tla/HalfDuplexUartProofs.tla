------------------------ MODULE HalfDuplexUartProofs ------------------------
(***************************************************************************)
(* The driver of the bus, for every baud rate, buffer, chunk and number of *)
(* arrivals, frames and errors: the driver pin, the quiet before a write,  *)
(* and the parser's backlog.                                               *)
(***************************************************************************)
EXTENDS HalfDuplexUart, TLAPS

USE UartAssumption

-----------------------------------------------------------------------------
(* A station holds the bus only while it writes: every path out of the     *)
(* two steps with a raised pin lowers it, or the pin itself failed.        *)
THEOREM Released == Spec => []DriverReleased
<1>1. Init => DriverReleased
  BY DEF Init, DriverReleased
<1>2. DriverReleased /\ [Next]_vars => DriverReleased'
  <2> SUFFICES ASSUME DriverReleased, [Next]_vars PROVE DriverReleased'
    OBVIOUS
  <2> USE DEF DriverReleased
  <2>1. CASE Read \/ Answer \/ WriteTick \/ ReadFails
    BY <2>1 DEF Read, Answer, WriteTick, ReadFails, writeVars
  <2>2. CASE Sample \/ BusIdle \/ WaitFails
    BY <2>2 DEF Sample, BusIdle, WaitFails, writeVars
  <2>3. CASE Raise
    BY <2>3 DEF Raise
  <2>4. CASE Send
    BY <2>4 DEF Send
  <2>5. CASE Lower
    BY <2>5 DEF Lower
  <2>6. CASE Flush \/ Wake
    BY <2>6 DEF Flush, Wake, writeVars
  <2>7. CASE Arrive \/ Enqueue \/ UNCHANGED vars
    BY <2>7 DEF Arrive, Enqueue, writeVars, vars
  <2> QED
    BY <2>1, <2>2, <2>3, <2>4, <2>5, <2>6, <2>7 DEF Next, Task
<1> QED BY <1>1, <1>2, PTL DEF Spec

-----------------------------------------------------------------------------
(* While it waits, the station has heard nothing for as long as it counts, *)
(* and what it has to read made it start over, or came after the end.      *)
QuietInv ==
    /\ ring \in Seq(BOOLEAN) /\ quiet \in 0 .. IdleSamples /\ since \in 0 .. IdleSamples
    /\ step = "wait" /\ ring = <<>> => quiet <= since
    /\ step = "wait" /\ ring # <<>> /\ quiet = IdleSamples => crossed
    /\ SpeaksInQuiet

LEMMA ArriveQuiet ==
    ASSUME QuietInv, Arrive
    PROVE  QuietInv'
<1> USE DEF QuietInv, SpeaksInQuiet
<1>1. PICK b \in BOOLEAN : ring' = IF Len(ring) < RingCap THEN Append(ring, b) ELSE ring
  BY DEF Arrive
<1>2. ring' \in Seq(BOOLEAN) /\ ring' # <<>>
  <2>1. CASE Len(ring) < RingCap
    <3>1. ring \in Seq(BOOLEAN) /\ ring' = Append(ring, b)
      BY <1>1, <2>1
    <3> QED BY <3>1
  <2>2. CASE ~(Len(ring) < RingCap)
    <3>1. ring \in Seq(BOOLEAN) /\ ring' = ring /\ Len(ring) # 0
      BY <1>1, <2>2
    <3> QED BY <3>1
  <2> QED BY <2>1, <2>2
<1>3. since' = 0 /\ UNCHANGED <<step, quiet>>
  BY DEF Arrive, writeVars
<1>4. NoLongerListens => crossed'
  BY DEF Arrive
<1> QED BY <1>2, <1>3, <1>4 DEF NoLongerListens

LEMMA SampleQuiet ==
    ASSUME QuietInv, Sample
    PROVE  QuietInv'
<1> USE DEF QuietInv, SpeaksInQuiet
<1>1. /\ step = "wait" /\ quiet < IdleSamples /\ UNCHANGED <<step, ring, crossed>>
      /\ quiet' = IF ring # <<>> THEN 0 ELSE quiet + 1
      /\ since' = IF since < IdleSamples THEN since + 1 ELSE since
  BY DEF Sample, SampleTime, WriteUnchanged
<1>2. CASE ring = <<>>
  BY <1>1, <1>2
<1>3. CASE ring # <<>>
  BY <1>1, <1>3
<1> QED BY <1>2, <1>3

LEMMA ReadSteps ==
    ASSUME Read
    PROVE  /\ step = "select" /\ step' \in {"answer", "sleep"}
           /\ UNCHANGED <<writeVars, busVars>>
<1>1. step = "select" /\ UNCHANGED <<writeVars, busVars>>
  BY DEF Read
<1>2. PICK n \in 1 .. (IF Len(ring) < Chunk THEN Len(ring) ELSE Chunk) :
        \/ step' = "sleep"
        \/ step' \in {"sleep", "answer"}
  BY Zenon DEF Read
<1> QED BY <1>1, <1>2

LEMMA ReadRing ==
    ASSUME ring \in Seq(BOOLEAN), Read
    PROVE  ring' \in Seq(BOOLEAN)
<1>1. PICK n \in 1 .. (IF Len(ring) < Chunk THEN Len(ring) ELSE Chunk) :
        ring' = From(ring, n + 1)
  BY DEF Read
<1>2. n \in 1 .. Len(ring)
  OBVIOUS
<1> QED BY <1>1, <1>2 DEF From

(* A station speaks only after it heard nothing for the whole idle time,   *)
(* unless a byte ended after the last sample.                              *)
THEOREM Quiet == Spec => []SpeaksInQuiet
<1>1. Init => QuietInv
  BY DEF Init, QuietInv, SpeaksInQuiet
<1>2. QuietInv /\ [Next]_vars => QuietInv'
  <2> SUFFICES ASSUME QuietInv, [Next]_vars PROVE QuietInv'
    OBVIOUS
  <2> USE DEF QuietInv, SpeaksInQuiet
  <2>1. CASE Arrive
    BY <2>1, ArriveQuiet
  <2>2. CASE Sample
    BY <2>2, SampleQuiet
  <2>3. CASE Read
    <3>1. ring' \in Seq(BOOLEAN)
      BY <2>3, ReadRing
    <3> QED BY <2>3, <3>1, ReadSteps DEF writeVars, busVars
  <2>4. CASE Answer \/ ReadFails \/ Wake
    BY <2>4 DEF Answer, ReadFails, Wake, writeVars, busVars
  <2>5. CASE WriteTick
    BY <2>5 DEF WriteTick
  <2>6. CASE BusIdle \/ WaitFails
    BY <2>6 DEF BusIdle, WaitFails, writeVars, WriteUnchanged
  <2>7. CASE Raise \/ Send \/ Lower
    BY <2>7 DEF Raise, Send, Lower, WriteUnchanged
  <2>8. CASE Flush
    BY <2>8 DEF Flush, WriteUnchanged
  <2>9. CASE Enqueue \/ UNCHANGED vars
    BY <2>9 DEF Enqueue, writeVars, busVars, vars
  <2> QED
    BY <2>1, <2>2, <2>3, <2>4, <2>5, <2>6, <2>7, <2>8, <2>9 DEF Next, Task
<1>3. QuietInv => SpeaksInQuiet
  BY DEF QuietInv
<1> QED BY <1>1, <1>2, <1>3, PTL DEF Spec

-----------------------------------------------------------------------------
(* While no chunk ends two frames, what the parser keeps is the beginning  *)
(* of one frame, and shorter than a chunk: so the next chunk fits.         *)
BacklogInv ==
    /\ ring \in Seq(BOOLEAN)
    /\ ~burst => /\ rx \in Seq(BOOLEAN) /\ Len(rx) < Chunk
                 /\ Ends(rx) = {} /\ ~rejected

(* The end of the frame is in the chunk, and what is behind it has none.   *)
LEMMA RestHasNoEnd ==
    ASSUME NEW old \in Seq(BOOLEAN), NEW chunk \in Seq(BOOLEAN),
           Ends(old) = {}, Len(chunk) <= Chunk,
           \A j, k \in Ends(chunk) : j = k
    PROVE  LET rest == AfterFirst(old \o chunk)
           IN  rest \in Seq(BOOLEAN) /\ Len(rest) < Chunk /\ Ends(rest) = {}
<1> DEFINE bytes == old \o chunk
           rest  == AfterFirst(bytes)
<1>1. /\ bytes \in Seq(BOOLEAN) /\ Len(bytes) = Len(old) + Len(chunk)
      /\ \A k \in 1 .. Len(bytes) :
            bytes[k] = IF k <= Len(old) THEN old[k] ELSE chunk[k - Len(old)]
  OBVIOUS
<1>2. \A k \in Ends(bytes) : k > Len(old) /\ k - Len(old) \in Ends(chunk)
  <2> SUFFICES ASSUME NEW k \in Ends(bytes)
               PROVE  k > Len(old) /\ k - Len(old) \in Ends(chunk)
    OBVIOUS
  <2>1. k \in 1 .. Len(bytes) /\ bytes[k]
    BY <1>1 DEF Ends
  <2>2. k > Len(old)
    BY <1>1, <2>1 DEF Ends
  <2>3. k - Len(old) \in 1 .. Len(chunk) /\ chunk[k - Len(old)]
    BY <1>1, <2>1, <2>2
  <2> QED BY <2>2, <2>3 DEF Ends
<1>3. CASE Ends(bytes) = {}
  BY <1>3 DEF AfterFirst, Ends
<1>4. CASE Ends(bytes) # {}
  <2>1. PICK first \in Ends(bytes) : TRUE
    BY <1>4
  <2>2. \A k \in Ends(bytes) : k = first
    BY <1>2, <2>1 DEF Ends
  <2>3. first = CHOOSE k \in Ends(bytes) : \A j \in Ends(bytes) : k <= j
    BY <2>1, <2>2, <1>1 DEF Ends
  <2>4. rest = SubSeq(bytes, 1 + first, Len(bytes))
    BY <1>4, <2>3 DEF AfterFirst, From
  <2>5. first \in 1 .. Len(bytes) /\ first > Len(old)
    BY <1>1, <1>2, <2>1 DEF Ends
  <2>6. /\ rest \in Seq(BOOLEAN) /\ Len(rest) = Len(bytes) - first
        /\ \A k \in 1 .. Len(rest) : rest[k] = bytes[first + k]
    <3> HIDE DEF bytes, rest
    <3>1. bytes \in Seq(BOOLEAN) /\ first \in 1 .. Len(bytes)
      BY <1>1, <2>5
    <3>2. 1 + first \in 1 .. Len(bytes) + 1 /\ Len(bytes) \in Nat
      BY <3>1
    <3>3. /\ rest \in Seq(BOOLEAN) /\ Len(rest) = Len(bytes) - first
      BY <2>4, <3>1, <3>2
    <3>4. \A k \in 1 .. Len(rest) : rest[k] = bytes[1 + first + k - 1]
      BY <2>4, <3>1, <3>2, <3>3
    <3>5. \A k \in 1 .. Len(rest) : 1 + first + k - 1 = first + k
      BY <3>1, <3>3
    <3> QED BY <3>3, <3>4, <3>5
  <2>7. Ends(rest) = {}
    <3> SUFFICES ASSUME NEW k \in 1 .. Len(rest), rest[k] PROVE FALSE
      BY <2>6 DEF Ends
    <3>1. first + k \in Ends(bytes)
      BY <1>1, <2>5, <2>6 DEF Ends
    <3> QED BY <2>2, <2>5, <3>1
  <2>8. Len(rest) < Chunk
    BY <1>1, <2>5, <2>6
  <2> QED BY <2>6, <2>7, <2>8
<1> QED BY <1>3, <1>4

LEMMA ReadKeepsBacklog ==
    ASSUME BacklogInv, Read
    PROVE  BacklogInv'
<1>1. PICK n \in 1 .. (IF Len(ring) < Chunk THEN Len(ring) ELSE Chunk) :
        /\ ring' = From(ring, n + 1)
        /\ burst' = (burst \/ \E j, k \in Ends(SubSeq(ring, 1, n)) : j # k)
        /\ rejected' = (Len(rx) + n > RxCap)
        /\ rx' = IF rejected' THEN rx ELSE AfterFirst(rx \o SubSeq(ring, 1, n))
  BY DEF Read
<1> DEFINE chunk == SubSeq(ring, 1, n)
<1>2. n \in 1 .. Len(ring) /\ n <= Chunk
  BY DEF BacklogInv
<1>3. ring' \in Seq(BOOLEAN)
  BY <1>1, <1>2 DEF BacklogInv, From
<1>4. chunk \in Seq(BOOLEAN) /\ Len(chunk) = n
  BY <1>2 DEF BacklogInv
<1>5. ASSUME ~burst'
      PROVE  rx' \in Seq(BOOLEAN) /\ Len(rx') < Chunk /\ Ends(rx') = {} /\ ~rejected'
  <2>1. ~burst /\ \A j, k \in Ends(chunk) : j = k
    BY <1>1, <1>5
  <2>2. rx \in Seq(BOOLEAN) /\ Len(rx) < Chunk /\ Ends(rx) = {}
    BY <2>1 DEF BacklogInv
  <2>3. ~rejected'
    <3>1. ~(Len(rx) + n > RxCap)
      BY <1>2, <2>2
    <3> QED BY <1>1, <3>1, Zenon
  <2>4. rx' = AfterFirst(rx \o chunk)
    BY <1>1, <2>3
  <2> QED BY <1>2, <1>4, <2>1, <2>2, <2>3, <2>4, RestHasNoEnd
<1>6. Ends(rx') = Ends(rx)'
  BY DEF Ends
<1> QED BY <1>3, <1>5, <1>6 DEF BacklogInv

(* As long as no chunk brings the ends of two frames, the parser refuses   *)
(* no chunk and keeps no whole frame back.                                 *)
THEOREM Backlog == Spec => []NoBacklog
<1>1. Init => BacklogInv
  BY DEF Init, BacklogInv, Ends
<1>2. BacklogInv /\ [Next]_vars => BacklogInv'
  <2> SUFFICES ASSUME BacklogInv, [Next]_vars PROVE BacklogInv'
    OBVIOUS
  <2>1. CASE Read
    BY <2>1, ReadKeepsBacklog
  <2>2. CASE Arrive
    <3>1. UNCHANGED <<rx, rejected, burst>>
      BY <2>2 DEF Arrive, parserVars
    <3>2. PICK b \in BOOLEAN :
                ring' = IF Len(ring) < RingCap THEN Append(ring, b) ELSE ring
      BY <2>2 DEF Arrive
    <3>3. ring' \in Seq(BOOLEAN)
      <4>1. ring \in Seq(BOOLEAN) /\ Append(ring, b) \in Seq(BOOLEAN)
        BY DEF BacklogInv
      <4> QED BY <3>2, <4>1
    <3> QED BY <3>1, <3>3 DEF BacklogInv, Ends
  <2>3. ASSUME UNCHANGED <<ring, rx, rejected, burst>> PROVE BacklogInv'
    BY <2>3 DEF BacklogInv, Ends
  <2>4. CASE Answer \/ WriteTick \/ Enqueue \/ ReadFails \/ Wake
    BY <2>3, <2>4 DEF Answer, WriteTick, Enqueue, ReadFails, Wake, parserVars
  <2>5. CASE Sample \/ BusIdle \/ WaitFails \/ Raise \/ Send \/ Lower \/ Flush
    BY <2>3, <2>5
    DEF Sample, BusIdle, WaitFails, Raise, Send, Lower, Flush, WriteUnchanged, parserVars
  <2>6. CASE UNCHANGED vars
    BY <2>3, <2>6 DEF vars, parserVars
  <2> QED
    BY <2>1, <2>2, <2>4, <2>5, <2>6 DEF Next, Task
<1>3. BacklogInv => NoBacklog
  BY DEF BacklogInv, NoBacklog
<1> QED BY <1>1, <1>2, <1>3, PTL DEF Spec

-----------------------------------------------------------------------------
(* The driver is held until the frame is sent, if what is rounded off the  *)
(* times of the bytes in the UART's buffer, and of one more, is less than  *)
(* the time of one byte, which is the margin.                              *)
RoundingFits ==
    /\ Baud <= 100000
    /\ (TxBuffer + 1) * (100000 - ByteTime * Baud) <= 100000

(* As it is at 115200 baud with the buffers of the firmware's UART.        *)
LEMMA FirmwareFits == Baud = 1152 /\ TxBuffer = 96 => RoundingFits
<1> SUFFICES ASSUME Baud = 1152, TxBuffer = 96 PROVE RoundingFits
  OBVIOUS
<1>1. ByteTime = 86
  <2>1. 100000 \div 1152 = 86
    OBVIOUS
  <2> QED BY <2>1 DEF ByteTime
<1> QED BY <1>1 DEF RoundingFits

LEMMA Quotient ==
    ASSUME NEW a \in Nat, NEW b \in Nat \ {0}
    PROVE  a \div b \in Nat /\ (a \div b) * b <= a /\ a < (a \div b) * b + b
OBVIOUS

(* h microseconds are enough for the bytes of a frame of n that the UART   *)
(* has to send before it can take the last one.                            *)
WrittenFor(n, h) == n > TxBuffer => (n - TxBuffer) * 100000 < h * Baud + Baud

(* After them, the time of the whole frame and of one byte is enough for   *)
(* the frame.                                                              *)
LEMMA LongEnough ==
    ASSUME NEW n \in Nat, NEW h \in Nat, RoundingFits,
           WrittenFor(n, h)
    PROVE  (h + n * ByteTime + ByteTime) * Baud >= n * 100000
<1>1. ByteTime \in Nat /\ ByteTime * Baud <= 100000 /\ 100000 < ByteTime * Baud + Baud
  BY Quotient DEF ByteTime
<1> DEFINE b == ByteTime * Baud
           r == 100000 - b
           H == h * Baud
<1>2. b \in Nat /\ r \in Nat /\ H \in Nat /\ b = 100000 - r /\ r < Baud
  BY <1>1
<1>3. (TxBuffer + 1) * r <= 100000 /\ Baud <= 100000
  BY DEF RoundingFits
<1>4. (h + n * ByteTime + ByteTime) * Baud = H + n * b + b
  <2> DEFINE B == ByteTime
  <2>1. B \in Nat
    BY <1>1
  <2> HIDE DEF B
  <2>2. (h + n * B + B) * Baud = h * Baud + n * (B * Baud) + B * Baud
    BY <2>1
  <2> QED BY <2>2 DEF B
<1>5. n * b = n * 100000 - n * r
  BY <1>2
<1> HIDE DEF b, r, H
<1>6. SUFFICES H + 100000 >= n * r + r
  <2>1. n * r \in Nat
    BY <1>2
  <2> QED BY <1>2, <1>4, <1>5, <2>1
<1>7. CASE n <= TxBuffer
  <2>1. n * r + r <= (TxBuffer + 1) * r
    <3>1. PICK k \in Nat : TxBuffer = n + k
      <4>1. TxBuffer - n \in Nat /\ TxBuffer = n + (TxBuffer - n)
        BY <1>7
      <4> QED BY <4>1
    <3>2. k * r \in Nat /\ (n + k + 1) * r = n * r + k * r + r
      BY <1>2, <3>1
    <3> QED BY <1>2, <3>1, <3>2
  <2>2. n * r + r \in Nat /\ (TxBuffer + 1) * r \in Nat
    BY <1>2
  <2> QED BY <1>2, <1>3, <2>1, <2>2
<1>8. CASE n > TxBuffer
  <2>1. PICK k \in Nat : n = TxBuffer + 1 + k
    <3>1. n - TxBuffer - 1 \in Nat /\ n = TxBuffer + 1 + (n - TxBuffer - 1)
      BY <1>8
    <3> QED BY <3>1
  <2>2. (k + 1) * 100000 < H + Baud
    BY <1>8, <2>1 DEF H, WrittenFor
  <2>3. n * r + r = (TxBuffer + 1) * r + k * r + r /\ k * r \in Nat /\ (TxBuffer + 1) * r \in Nat
    BY <1>2, <2>1
  <2>4. k * r <= k * 100000
    <3>1. r <= 100000
      BY <1>2
    <3>2. PICK j \in Nat : 100000 = r + j
      <4>1. 100000 - r \in Nat /\ 100000 = r + (100000 - r)
        BY <1>2, <3>1
      <4> QED BY <4>1
    <3>3. k * (r + j) = k * r + k * j /\ k * j \in Nat
      BY <1>2, <3>2
    <3> QED BY <1>2, <2>1, <2>3, <3>2, <3>3
  <2>5. r + Baud <= 100000
    <3>1. ByteTime # 0
      BY <1>1, <1>3
    <3>2. PICK m \in Nat : ByteTime = 1 + m
      <4>1. ByteTime - 1 \in Nat /\ ByteTime = 1 + (ByteTime - 1)
        BY <1>1, <3>1
      <4> QED BY <4>1
    <3>3. b = Baud + m * Baud /\ m * Baud \in Nat
      BY <3>2 DEF b
    <3> QED BY <1>2, <3>3
  <2> QED BY <1>2, <1>3, <2>1, <2>2, <2>3, <2>4, <2>5
<1> QED BY <1>7, <1>8

(* Until the pin is lowered the timer has what write_all took already.     *)
HeldInv ==
    /\ buf_len \in Nat /\ held \in Nat
    /\ step \notin {"hold", "flush"} => held = 0
    /\ step = "hold" /\ write_result => WrittenFor(buf_len, held)
    /\ HeldUntilSent

LEMMA SentAhead ==
    ASSUME NEW n \in Nat
    PROVE  TimeOfWrite(n) \in Nat /\ WrittenFor(n, TimeOfWrite(n))
<1>1. CASE n <= TxBuffer
  BY <1>1 DEF TimeOfWrite, WrittenFor
<1>2. CASE n > TxBuffer
  <2> DEFINE a == (n - TxBuffer) * 100000
  <2>1. a \in Nat
    BY <1>2
  <2>2. TimeOfWrite(n) = a \div Baud
    BY <1>2 DEF TimeOfWrite
  <2> HIDE DEF a
  <2>3. TimeOfWrite(n) \in Nat /\ a < TimeOfWrite(n) * Baud + Baud
    BY <2>1, <2>2, Quotient
  <2> QED BY <2>3 DEF a, WrittenFor
<1> QED BY <1>1, <1>2

LEMMA SendHeld ==
    ASSUME HeldInv, Send
    PROVE  HeldInv'
<1>1. step' = "hold" /\ buf_len' = buf_len /\ buf_len \in Nat
  BY DEF Send, HeldInv
<1>2. \/ write_result' = TRUE /\ held' = TimeOfWrite(buf_len)
      \/ write_result' = FALSE /\ held' = 0
  BY DEF Send
<1>3. CASE write_result' = FALSE /\ held' = 0
  BY <1>1, <1>3 DEF HeldInv, HeldUntilSent
<1>4. CASE write_result' = TRUE /\ held' = TimeOfWrite(buf_len)
  <2>1. held' \in Nat /\ WrittenFor(buf_len', held')
    BY <1>1, <1>4, SentAhead
  <2> QED BY <1>1, <2>1 DEF HeldInv, HeldUntilSent
<1> QED BY <1>2, <1>3, <1>4

LEMMA LowerHeld ==
    ASSUME HeldInv, Lower, RoundingFits
    PROVE  HeldInv'
<1>1. /\ step = "hold" /\ step' = "flush" /\ UNCHANGED <<buf_len, write_result>>
      /\ held' = held + buf_len * ByteTime + ByteTime
      /\ buf_len \in Nat /\ held \in Nat
  BY DEF Lower, HeldInv, Margin
<1>2. held' \in Nat
  <2>1. ByteTime \in Nat
    BY Quotient DEF ByteTime
  <2>2. buf_len * ByteTime \in Nat
    BY <1>1, <2>1
  <2> QED BY <1>1, <2>1, <2>2
<1>3. write_result => held' * Baud >= buf_len * 100000
  <2> SUFFICES ASSUME write_result PROVE held' * Baud >= buf_len * 100000
    OBVIOUS
  <2>1. WrittenFor(buf_len, held)
    BY <1>1 DEF HeldInv
  <2> QED BY <1>1, <2>1, LongEnough
<1> QED BY <1>1, <1>2, <1>3 DEF HeldInv, HeldUntilSent

(* Wherever the rounding fits, the driver is on for as long as a frame     *)
(* that was written is on the bus, of whatever length it is.               *)
THEOREM Held == RoundingFits /\ Spec => []HeldUntilSent
<1>1. Init => HeldInv
  BY DEF Init, HeldInv, HeldUntilSent
<1>2. RoundingFits /\ HeldInv /\ [Next]_vars => HeldInv'
  <2> SUFFICES ASSUME RoundingFits, HeldInv, [Next]_vars PROVE HeldInv'
    OBVIOUS
  <2> USE DEF HeldInv, HeldUntilSent
  <2>1. CASE Read \/ Answer \/ ReadFails \/ Wake
    <3>1. UNCHANGED writeVars /\ {step, step'} \subseteq {"select", "answer", "sleep"}
      BY <2>1, ReadSteps DEF Answer, ReadFails, Wake
    <3> QED BY <3>1 DEF writeVars
  <2>2. CASE WriteTick
    BY <2>2 DEF WriteTick
  <2>3. CASE Sample \/ BusIdle \/ WaitFails \/ Raise
    BY <2>3 DEF Sample, BusIdle, WaitFails, Raise, writeVars
  <2>4. CASE Send
    BY <2>4, SendHeld
  <2>5. CASE Lower
    BY <2>5, LowerHeld
  <2>6. CASE Flush
    BY <2>6 DEF Flush
  <2>7. CASE Arrive \/ Enqueue \/ UNCHANGED vars
    BY <2>7 DEF Arrive, Enqueue, writeVars, vars
  <2> QED
    BY <2>1, <2>2, <2>3, <2>4, <2>5, <2>6, <2>7 DEF Next, Task
<1>3. HeldInv => HeldUntilSent
  BY DEF HeldInv
<1>4. RoundingFits /\ Init /\ [][Next]_vars => []HeldInv
  <2>1. CASE RoundingFits
    <3>1. HeldInv /\ [Next]_vars => HeldInv'
      BY <1>2, <2>1
    <3> QED BY <1>1, <3>1, PTL
  <2>2. CASE ~RoundingFits
    BY <2>2
  <2> QED BY <2>1, <2>2
<1> QED BY <1>3, <1>4, PTL DEF Spec
=============================================================================
