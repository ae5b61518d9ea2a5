--------------------------- MODULE HalfDuplexUart ---------------------------
(***************************************************************************)
(* The driver of the bus under a panel: imcp_task, which reads or writes   *)
(* and then sleeps, ImcpEmbedded with its driver-enable pin, and the UART  *)
(* that waits for a quiet bus before it writes (imcp-embedded).            *)
(*                                                                         *)
(* A byte is TRUE where next_frame returns: it ends a frame, or damages    *)
(* one.  What the frames say is Imcp's and FrameParser's subject.          *)
(***************************************************************************)
EXTENDS Integers, Sequences

CONSTANTS
    RingCap,       \* bytes that the UART keeps for the reader
    Chunk,         \* bytes that imcp_task reads at a time
    RxCap,         \* bytes of the parser's rx_buffer
    QueueCap,      \* frames in the channel of the task
    IdleSamples,   \* quiet samples before a write
    Baud,          \* of the UART, in hundreds of bits per second
    TxBuffer,      \* bytes that the UART takes from write_all ahead of time
    Length,        \* lengths of encoded frames
    MaxArrivals, MaxFrames, MaxErrors    \* bounds

ASSUME UartAssumption ==
    /\ RingCap \in Nat \ {0} /\ Chunk \in Nat \ {0}
    /\ RxCap \in Nat /\ RxCap >= 2 * Chunk
    /\ QueueCap \in Nat \ {0} /\ IdleSamples \in Nat \ {0}
    /\ Baud \in Nat \ {0} /\ TxBuffer \in Nat
    /\ Length \subseteq Nat
    /\ MaxArrivals \in Nat /\ MaxFrames \in Nat /\ MaxErrors \in Nat

VARIABLES
    step,          \* where imcp_task is
    ring,          \* bytes received and not read
    rx,            \* bytes the parser keeps
    queue,         \* frames in the channel, behind the pending one
    pending,       \* write_tick keeps a Set or a Join until an Ack comes
    buf_len,       \* the length of the frame that is written
    quiet,         \* samples without a byte so far
    de,            \* the driver of the bus is enabled
    write_result,  \* of write_all, which is looked at later
    held,          \* for how long, in microseconds, when it is released
    rejected,      \* History: the last chunk was refused by the parser
    burst,         \* History: a chunk brought the ends of two frames
    pinFailed,     \* History: the pin did not do as it was told
    since,         \* History: samples since a byte came, up to IdleSamples
    crossed,       \* History: a byte came after the last sample of the wait
    arrivals, frames, errors    \* bounds

queueVars   == <<queue, pending>>
writeVars   == <<buf_len, quiet, de, write_result, held>>
parserVars  == <<rx, rejected, burst>>
busVars     == <<since, crossed>>
boundVars   == <<arrivals, frames, errors>>
vars == <<step, queueVars, writeVars, parserVars, busVars, ring, pinFailed, boundVars>>

TypeOK ==
    /\ step \in {"select", "answer", "wait", "raise", "send", "hold", "flush", "sleep"}
    /\ ring \in Seq(BOOLEAN) /\ Len(ring) <= RingCap
    /\ rx \in Seq(BOOLEAN) /\ Len(rx) <= RxCap
    /\ queue \in 0 .. QueueCap /\ pending \in BOOLEAN
    /\ buf_len \in Length \cup {0}
    /\ quiet \in 0 .. IdleSamples
    /\ de \in BOOLEAN /\ write_result \in BOOLEAN /\ held \in Nat
    /\ {rejected, burst, pinFailed, crossed} \subseteq BOOLEAN
    /\ since \in 0 .. IdleSamples
    /\ arrivals \in 0 .. MaxArrivals /\ frames \in 0 .. MaxFrames
    /\ errors \in 0 .. MaxErrors

Init ==
    /\ step = "select"
    /\ ring = <<>> /\ rx = <<>>
    /\ queue = 0 /\ pending = FALSE
    /\ buf_len = 0
    /\ quiet = 0
    /\ de = FALSE /\ write_result = TRUE /\ held = 0
    /\ rejected = FALSE /\ burst = FALSE /\ pinFailed = FALSE
    /\ since = 0 /\ crossed = FALSE
    /\ arrivals = 0 /\ frames = 0 /\ errors = 0

\* ImcpEmbedded::new: the time of a byte of ten bits, rounded down.
ByteTime == (10000 * 10) \div Baud
Margin == ByteTime

-----------------------------------------------------------------------------
(* The bus and the program around the driver.                              *)

\* The wait is over, or its last sample is taken: nobody listens any more.
NoLongerListens ==
    step \in {"raise", "send", "hold"} \/ (step = "wait" /\ quiet = IdleSamples)

\* A byte comes in at any time.  The UART loses what it has no room for.
Arrive ==
    /\ arrivals < MaxArrivals
    /\ arrivals' = arrivals + 1
    /\ \E b \in BOOLEAN : ring' = IF Len(ring) < RingCap THEN Append(ring, b) ELSE ring
    /\ since' = 0
    /\ crossed' = (crossed \/ NoLongerListens)
    /\ UNCHANGED <<step, queueVars, writeVars, parserVars, pinFailed, frames, errors>>

\* try_send of the main loop, or of the hello: with no room the frame is lost.
Enqueue ==
    /\ frames < MaxFrames
    /\ frames' = frames + 1
    /\ queue' = IF queue < QueueCap THEN queue + 1 ELSE queue
    /\ UNCHANGED <<step, pending, writeVars, parserVars, busVars, ring, pinFailed,
                   arrivals, errors>>

\* The UART or the pin reports an error.
Errs ==
    /\ errors < MaxErrors
    /\ errors' = errors + 1

-----------------------------------------------------------------------------
(* select: the read comes first.                                           *)

Ends(bytes) == {k \in DOMAIN bytes : bytes[k]}

From(bytes, k) == SubSeq(bytes, k, Len(bytes))

(* Mutant: the parser gives nothing while the chunk goes on behind a frame.*)
AfterFirstLater(bytes) ==
    IF Ends(bytes) = {} THEN <<>>
    ELSE LET first == CHOOSE k \in Ends(bytes) : \A j \in Ends(bytes) : k <= j
         IN  IF first < Len(bytes) THEN bytes ELSE <<>>

\* next_frame parses up to the first end of a frame, or all there is.
AfterFirst(bytes) ==
    IF Ends(bytes) = {} THEN <<>>
    ELSE From(bytes, 1 + CHOOSE k \in Ends(bytes) : \A j \in Ends(bytes) : k <= j)

\* read_tick: a chunk that does not fit is refused, and nothing is parsed.  A
\* frame that is handed over may be an Ack, which ends the pending frame, one
\* that asks for an answer, the assignment of the address, which does both, or
\* neither, or a damaged one.
Read ==
    /\ step = "select"
    /\ ring # <<>>
    /\ \E n \in 1 .. (IF Len(ring) < Chunk THEN Len(ring) ELSE Chunk) :
        LET chunk == SubSeq(ring, 1, n)
        IN  /\ ring' = From(ring, n + 1)
            /\ burst' = (burst \/ \E j, k \in Ends(chunk) : j # k)
            /\ rejected' = (Len(rx) + n > RxCap)
            /\ rx' = IF rejected' THEN rx ELSE AfterFirst(rx \o chunk)
            /\ \/ step' = "sleep" /\ pending' = pending
               \/ /\ ~rejected' /\ Ends(rx \o chunk) # {}
                  /\ step' \in {"sleep", "answer"} /\ pending' \in {pending, FALSE}
    /\ UNCHANGED <<queue, writeVars, busVars, pinFailed, boundVars>>

\* read_tick awaits room for its answer in the channel that only write_tick,
\* which the same task calls, empties.
Answer ==
    /\ step = "answer"
    /\ queue < QueueCap
    /\ queue' = queue + 1
    /\ step' = "sleep"
    /\ UNCHANGED <<pending, writeVars, parserVars, busVars, ring, pinFailed, boundVars>>

ReadFails ==
    /\ step = "select" /\ Errs
    /\ step' = "sleep"
    /\ UNCHANGED <<queueVars, writeVars, parserVars, busVars, ring, pinFailed,
                   arrivals, frames>>

\* write_tick gives the pending frame again, or else the next of the channel,
\* and the write begins: it cannot be interrupted.
WriteTick ==
    /\ step = "select"
    /\ ring = <<>>
    /\ \/ pending /\ UNCHANGED queueVars
       \/ ~pending /\ queue > 0 /\ queue' = queue - 1 /\ pending' \in BOOLEAN
    /\ buf_len' \in Length
    /\ quiet' = 0 /\ crossed' = FALSE
    /\ step' = "wait"
    /\ UNCHANGED <<de, write_result, held, parserVars, since, ring, pinFailed, boundVars>>

-----------------------------------------------------------------------------
(* ImcpEmbedded::write.                                                    *)

WriteUnchanged ==
    UNCHANGED <<queueVars, parserVars, crossed, ring, arrivals, frames>>

SampleTime == since' = IF since < IdleSamples THEN since + 1 ELSE since

(* Mutant: the sample looks at the UART, whose bytes are moved at once into*)
(* the buffer of the reader, and not at that buffer.                       *)
SampleUartOnly ==
    /\ step = "wait"
    /\ quiet < IdleSamples
    /\ quiet' = quiet + 1
    /\ SampleTime
    /\ UNCHANGED <<step, buf_len, de, write_result, held, pinFailed, errors>> /\ WriteUnchanged

\* wait_bus_idle: a sample finds unread bytes and starts over, or is quiet.
Sample ==
    /\ step = "wait"
    /\ quiet < IdleSamples
    /\ quiet' = IF ring # <<>> THEN 0 ELSE quiet + 1
    /\ SampleTime
    /\ UNCHANGED <<step, buf_len, de, write_result, held, pinFailed, errors>> /\ WriteUnchanged

(* Mutant: the bus has to be quiet for one sample more than are counted.   *)
BusIdleLater ==
    /\ step = "wait"
    /\ quiet > IdleSamples
    /\ step' = "raise"
    /\ UNCHANGED <<writeVars, since, pinFailed, errors>> /\ WriteUnchanged

BusIdle ==
    /\ step = "wait"
    /\ quiet = IdleSamples
    /\ step' = "raise"
    /\ UNCHANGED <<writeVars, since, pinFailed, errors>> /\ WriteUnchanged

WaitFails ==
    /\ step = "wait" /\ Errs
    /\ step' = "flush"
    /\ UNCHANGED <<writeVars, since, pinFailed>> /\ WriteUnchanged

Raise ==
    /\ step = "raise"
    /\ \/ de' = TRUE /\ step' = "send" /\ UNCHANGED <<pinFailed, errors>>
       \/ Errs /\ de' \in BOOLEAN /\ pinFailed' = TRUE /\ step' = "flush"
    /\ UNCHANGED <<buf_len, quiet, write_result, held, since>> /\ WriteUnchanged

(* Mutant: a failing write returns at once.                                *)
SendOrReturn ==
    /\ step = "send"
    /\ \/ step' = "hold" /\ write_result' = TRUE /\ UNCHANGED errors
       \/ step' = "flush" /\ write_result' = FALSE /\ Errs
    /\ held' = 0
    /\ UNCHANGED <<buf_len, quiet, de, since, pinFailed>> /\ WriteUnchanged

TimeOfWrite(n) ==
    IF n <= TxBuffer THEN 0 ELSE ((n - TxBuffer) * 100000) \div Baud

\* write_all returns when the last byte is in the UART's buffer, for which
\* the bytes before must be sent, or with an error, which is kept for later.
Send ==
    /\ step = "send"
    /\ \/ /\ write_result' = TRUE /\ UNCHANGED errors
          /\ held' = TimeOfWrite(buf_len)
       \/ write_result' = FALSE /\ Errs /\ held' = 0
    /\ step' = "hold"
    /\ UNCHANGED <<buf_len, quiet, de, since, pinFailed>> /\ WriteUnchanged

(* Mutant: the margin is left out.                                         *)
LowerEarly ==
    /\ step = "hold"
    /\ held' = held + buf_len * ByteTime
    /\ \/ de' = FALSE /\ UNCHANGED <<pinFailed, errors>>
       \/ Errs /\ de' \in BOOLEAN /\ pinFailed' = TRUE
    /\ step' = "flush"
    /\ UNCHANGED <<buf_len, quiet, write_result, since>> /\ WriteUnchanged

\* The timer runs for the whole frame and a margin, then the pin goes low.
Lower ==
    /\ step = "hold"
    /\ held' = held + buf_len * ByteTime + Margin
    /\ \/ de' = FALSE /\ UNCHANGED <<pinFailed, errors>>
       \/ Errs /\ de' \in BOOLEAN /\ pinFailed' = TRUE
    /\ step' = "flush"
    /\ UNCHANGED <<buf_len, quiet, write_result, since>> /\ WriteUnchanged

\* Whatever became of the write, imcp_task flushes and sleeps.
Flush ==
    /\ step = "flush"
    /\ step' = "sleep"
    /\ quiet' = 0 /\ buf_len' = 0 /\ write_result' = TRUE /\ held' = 0
    /\ UNCHANGED <<de, since, pinFailed, errors>> /\ WriteUnchanged

Wake ==
    /\ step = "sleep"
    /\ step' = "select"
    /\ UNCHANGED <<queueVars, writeVars, parserVars, busVars, ring, pinFailed, boundVars>>

Task ==
    \/ Read \/ Answer
    \/ WriteTick \/ Sample \/ BusIdle \/ Raise \/ Send \/ Lower \/ Flush
    \/ Wake

Next == Task \/ Arrive \/ Enqueue \/ ReadFails \/ WaitFails

(* The executor polls the task again whenever it can go on.                *)
Spec == Init /\ [][Next]_vars /\ WF_vars(Task)

-----------------------------------------------------------------------------
(* The station holds the bus only while it writes, whatever fails in the   *)
(* UART: one that keeps its driver enabled silences every other station.   *)
DriverReleased == de /\ ~pinFailed => step \in {"send", "hold"}

(* The driver is not switched off in the middle of a byte, though the time *)
(* of a byte is rounded down and a frame can be longer than the UART's     *)
(* buffer: it is held at least as long as the frame is on the bus.         *)
HeldUntilSent ==
    step = "flush" /\ held > 0 /\ write_result =>
        held * Baud >= buf_len * 100000

(* As long as no chunk brings the ends of two frames, the parser takes     *)
(* every chunk and hands on every whole frame at once: the rest of a frame *)
(* never fills its buffer.  After such a chunk it may refuse chunks even   *)
(* when no whole frame waits, for what it kept is parsed with the next     *)
(* chunk only.                                                             *)
NoBacklog == ~burst => ~rejected /\ Ends(rx) = {}

(* The station speaks only into a bus on which no byte ended for the whole *)
(* of the idle time, and with nothing left to read, whatever became of its *)
(* earlier writes.  What it cannot know is a byte that ends after the last *)
(* sample.                                                                 *)
SpeaksInQuiet ==
    step \in {"raise", "send", "hold"} /\ ~crossed => ring = <<>> /\ since = IdleSamples

(* The task awaits what only itself could bring about.  wait_bus_idle takes*)
(* unread bytes for a busy bus, and it is the waiting task that would read *)
(* them; read_tick awaits room in the full channel, and it is the waiting  *)
(* task that would empty it.                                               *)
Hung ==
    \/ step = "wait" /\ quiet = 0 /\ ring # <<>>
    \/ step = "answer" /\ queue = QueueCap

(* What is received is read and what is queued is written, although the    *)
(* read always comes first, with two exceptions: the task hangs for ever in*)
(* one of the two ways, or a frame that nobody acknowledges is repeated for*)
(* ever and nothing behind it is written.                                  *)
WorksOrHangs ==
    \/ <>[]Hung
    \/ /\ ring # <<>> ~> ring = <<>>
       /\ <>[]pending \/ \A n \in 1 .. QueueCap : queue = n ~> queue < n
=============================================================================
