---------------------------- MODULE DcsBiosPacket ----------------------------
(***************************************************************************)
(* A datagram of DCS-BIOS and the memory it is written to (dcs-bios-rs):   *)
(* four bytes 0x55, then writes, each an address, a length and its bytes.  *)
(***************************************************************************)
EXTENDS Integers, Sequences

CONSTANT OverflowChecks    \* the build panics where an addition overflows

Byte == 0 .. 255
Word == 0 .. 65535

Sync == <<85, 85, 85, 85>>

\* A write; its length, which is that of its data, has 16 bits.
Receive == {w \in [address : Word, data : Seq(Byte)] : Len(w.data) \in Word}

WordAt(data, k) == data[k] + 256 * data[k + 1]

IsWrite(data, k) ==
    /\ k + 3 <= Len(data)
    /\ k + 3 + WordAt(data, k + 2) <= Len(data)

WriteAt(data, k) ==
    [address |-> WordAt(data, k),
     data    |-> SubSeq(data, k + 4, k + 3 + WordAt(data, k + 2))]

(* parse_packet_iter, over and over: the iteration ends at the first write *)
(* that is not all there, and nobody is told.                              *)
Writes(data) ==
    LET from[k \in 5 .. Len(data) + 1] ==
            IF ~IsWrite(data, k) THEN <<>>
            ELSE <<WriteAt(data, k)>> \o from[k + 4 + WordAt(data, k + 2)]
    IN  IF Len(data) >= 4 /\ SubSeq(data, 1, 4) = Sync THEN from[5] ELSE <<>>

-----------------------------------------------------------------------------
(* VecMemoryMap: a vector that grows with zeros.  It is kept here as its   *)
(* length and the bytes that were written.                                 *)

EmptyMemory == [len |-> 0, at |-> <<>>]

End(w) == w.address + Len(w.data)

(* Mutant: a write ends one byte early.                                    *)
WrittenShort(memory, w) ==
    [len |-> IF memory.len < End(w) THEN End(w) ELSE memory.len,
     at  |-> [a \in DOMAIN memory.at \cup w.address .. End(w) - 2 |->
                IF a \in w.address .. End(w) - 2 THEN w.data[a - w.address + 1]
                ELSE memory.at[a]]]

Written(memory, w) ==
    [len |-> IF memory.len < End(w) THEN End(w) ELSE memory.len,
     at  |-> [a \in DOMAIN memory.at \cup w.address .. End(w) - 1 |->
                IF a \in w.address .. End(w) - 1 THEN w.data[a - w.address + 1]
                ELSE memory.at[a]]]

(* Mutant: the last byte of the memory counts as behind its end.           *)
OverflowsEarly(w) == End(w) >= 65535 \/ End(w) = 0

\* The range that a write returns ends at address + length - 1, in 16 bits:
\* the sum can be too large, and the difference too small.
Overflows(w) == End(w) > 65535 \/ End(w) = 0

\* The memory after each of some writes.
After(memory, ws) ==
    LET after[k \in 0 .. Len(ws)] ==
            IF k = 0 THEN memory ELSE Written(after[k - 1], ws[k])
    IN  after

(* apply_packet: the bytes are in the memory before the range is computed; *)
(* a panic leaves the writes behind it undone and the memory's lock        *)
(* poisoned.                                                               *)
Applied(memory, ws) ==
    LET panic == {k \in DOMAIN ws : OverflowChecks /\ Overflows(ws[k])}
        last  == IF panic = {} THEN Len(ws)
                 ELSE CHOOSE k \in panic : \A j \in panic : k <= j
    IN  [memory |-> After(memory, ws)[last], panics |-> panic # {}]

-----------------------------------------------------------------------------
(* What DCS-BIOS sends: an update is a list of writes, and one that is too *)
(* long for a datagram goes on in the next, without the four bytes.        *)

Encoded(w) ==
    <<w.address % 256, w.address \div 256, Len(w.data) % 256, Len(w.data) \div 256>>
        \o w.data

\* An update up to its k-th write.
UpTo(ws) ==
    LET upTo[k \in 0 .. Len(ws)] ==
            IF k = 0 THEN Sync ELSE upTo[k - 1] \o Encoded(ws[k])
    IN  upTo

Update(ws) == UpTo(ws)[Len(ws)]

\* The four bytes of the start are found nowhere else in what is sent.
IsUpdate(ws) ==
    /\ ws \in Seq(Receive)
    /\ \A n \in 1 .. Len(Update(ws)) - 4 : SubSeq(Update(ws), n + 1, n + 4) # Sync

\* The writes that are whole in the first n bytes of an update.
WholeWrites(ws, n) ==
    LET fits == {k \in 0 .. Len(ws) : Len(UpTo(ws)[k]) <= n}
    IN  IF fits = {} THEN <<>>
        ELSE SubSeq(ws, 1, CHOOSE k \in fits : \A j \in fits : j <= k)

\* The datagrams of an update cut anywhere, with the writes that a listener can
\* take of each: those that are whole in the datagram with which the update
\* begins, and none of that in which it goes on, not even one that is whole
\* there, for without the four bytes nothing tells where a write starts.
DatagramsOf(ws) ==
    {[bytes |-> SubSeq(Update(ws), 1, n), taken |-> WholeWrites(ws, n)] :
        n \in 0 .. Len(Update(ws))}
    \cup
    {[bytes |-> SubSeq(Update(ws), n + 1, Len(Update(ws))), taken |-> <<>>] :
        n \in 1 .. Len(Update(ws))}

\* The byte that a list of writes leaves at an address.
LeftAt(ws, a) ==
    LET writers == {k \in DOMAIN ws : a \in ws[k].address .. End(ws[k]) - 1}
    IN  IF writers = {} THEN 0
        ELSE LET k == CHOOSE k \in writers : \A j \in writers : j <= k
             IN  ws[k].data[a - ws[k].address + 1]
=============================================================================
