-------------------------- MODULE FrameParserProofs --------------------------
(***************************************************************************)
(* Proofs about FrameParser: its buffers keep their bounds, and no intact  *)
(* frame is missed, for all frames, streams and sizes.                     *)
(***************************************************************************)
EXTENDS FrameParser, WellFoundedInduction, TLAPS

(* What next_frame does is a recursive function of the bytes, and so is    *)
(* the stuffing: why they have values.                                     *)

(* Induction, with a set in place of a predicate.                          *)
LEMMA Induction ==
    ASSUME NEW S, 0 \in S, \A n \in Nat : n \in S => n + 1 \in S
    PROVE  \A n \in Nat : n \in S
<1> DEFINE T == Nat \ S
<1> SUFFICES ASSUME T # {} PROVE FALSE
  OBVIOUS
<1>1. PICK x \in T : \A y \in T : ~ (<<y, x>> \in OpToRel(<, Nat))
  BY Zenon, WFMin, NatLessThanWellFounded
<1>2. x \in Nat /\ x # 0
  OBVIOUS
<1>3. x - 1 \in Nat /\ x - 1 < x /\ (x - 1) + 1 = x
  BY <1>2
<1>4. x - 1 \notin T
  BY Zenon, <1>1, <1>2, <1>3 DEF OpToRel
<1> QED BY <1>2, <1>3, <1>4

(* What is done n times, each time to the outcome of the time before. *)
Iterates(f, T, n, start, step) ==
    /\ f \in [0 .. n -> T] /\ f[0] = start
    /\ \A k \in 1 .. n : f[k] = step[<<k, f[k - 1]>>]

LEMMA Iteration ==
    ASSUME NEW n \in Nat, NEW T, NEW start \in T, NEW step \in [(1 .. n) \X T -> T]
    PROVE  \E f : Iterates(f, T, n, start, step)
<1> DEFINE S == {m \in Nat : m <= n => \E f : Iterates(f, T, m, start, step)}
<1>1. 0 \in S
  <2>1. Iterates([k \in 0 .. 0 |-> start], T, 0, start, step)
    BY DEF Iterates
  <2> QED BY <2>1
<1>2. ASSUME NEW m \in Nat, m \in S PROVE m + 1 \in S
  <2> SUFFICES ASSUME m + 1 <= n
               PROVE  \E f : Iterates(f, T, m + 1, start, step)
    OBVIOUS
  <2>1. PICK f : Iterates(f, T, m, start, step)
    BY <1>2
  <2>2. m \in 0 .. m /\ m + 1 \in 1 .. n
    OBVIOUS
  <2>3. <<m + 1, f[m]>> \in (1 .. n) \X T
    BY <2>1, <2>2 DEF Iterates
  <2> DEFINE g == [k \in 0 .. m + 1 |-> IF k = m + 1 THEN step[<<m + 1, f[m]>>] ELSE f[k]]
  <2>4. g \in [0 .. m + 1 -> T]
    BY <2>1, <2>3 DEF Iterates
  <2>5. g[0] = start
    BY <2>1 DEF Iterates
  <2>6. ASSUME NEW k \in 1 .. m + 1 PROVE g[k] = step[<<k, g[k - 1]>>]
    <3>1. g[k - 1] = f[k - 1]
      <4>1. k - 1 \in 0 .. m + 1 /\ k - 1 # m + 1
        OBVIOUS
      <4> QED BY <4>1
    <3>2. CASE k = m + 1
      <4>1. k - 1 = m /\ g[k] = step[<<m + 1, f[m]>>]
        BY <3>2
      <4> HIDE DEF g
      <4> QED BY <3>1, <3>2, <4>1
    <3>3. CASE k # m + 1
      <4>1. k \in 1 .. m /\ g[k] = f[k]
        BY <3>3
      <4> QED BY <2>1, <3>1, <4>1 DEF Iterates
    <3> QED BY <3>2, <3>3
  <2> HIDE DEF g
  <2>7. Iterates(g, T, m + 1, start, step)
    BY <2>4, <2>5, <2>6 DEF Iterates
  <2> QED BY <2>7
<1> HIDE DEF S
<1>3. n \in S
  BY <1>1, <1>2, Induction
<1> QED BY <1>3 DEF S

-----------------------------------------------------------------------------
(* The bytes.                                                              *)

LEMMA Joined ==
    ASSUME NEW T, NEW s \in Seq(T), NEW u \in Seq(T)
    PROVE  /\ s \o u \in Seq(T)
           /\ Len(s \o u) = Len(s) + Len(u) /\ Len(s) \in Nat /\ Len(u) \in Nat
           /\ \A i \in 1 .. Len(s) : (s \o u)[i] = s[i]
           /\ \A i \in 1 .. Len(u) : (s \o u)[Len(s) + i] = u[i]
OBVIOUS

LEMMA XorOfBytes ==
    ASSUME NEW a \in Byte, NEW b \in Byte
    PROVE  Xor(a, b) \in Byte
<1> DEFINE d(bit) == Differ(a, b, bit)
<1>1. \A bit \in Nat : d(bit) \in {0, bit}
  BY DEF Differ
<1>2. /\ d(1) \in {0, 1} /\ d(2) \in {0, 2} /\ d(4) \in {0, 4} /\ d(8) \in {0, 8}
      /\ d(16) \in {0, 16} /\ d(32) \in {0, 32} /\ d(64) \in {0, 64} /\ d(128) \in {0, 128}
  BY <1>1
<1>3. Xor(a, b) = d(1) + d(2) + d(4) + d(8) + d(16) + d(32) + d(64) + d(128)
  BY DEF Xor
<1> HIDE DEF d
<1> QED BY <1>2, <1>3 DEF Byte

(* A special byte is sent as one that is not, and is what it was after the *)
(* second exclusive or.                                                    *)
LEMMA Escaped ==
    ASSUME NEW b \in Special
    PROVE  /\ b \in Byte /\ Xor(b, ESC_XOR) \in Byte \ Special
           /\ Xor(Xor(b, ESC_XOR), ESC_XOR) = b
<1>1. Xor(253, 32) = 221 /\ Xor(254, 32) = 222 /\ Xor(255, 32) = 223
  BY DEF Xor, Differ
<1>2. Xor(221, 32) = 253 /\ Xor(222, 32) = 254 /\ Xor(223, 32) = 255
  BY DEF Xor, Differ
<1> QED BY <1>1, <1>2 DEF Special, SOF, EOF, ESC, ESC_XOR, Byte

LEMMA FrameFields ==
    ASSUME NEW f \in Frame
    PROVE  /\ f.to \in Byte /\ f.from \in Byte /\ f.payload \in Seq(Byte)
           /\ Len(f.payload) <= MaxPayload /\ PayloadLenOK(f.type, Len(f.payload))
           /\ TypeByte(f.type) + 1 \in DOMAIN FrameTypes
           /\ FrameTypes[TypeByte(f.type) + 1] = f.type
           /\ f = [to |-> f.to, from |-> f.from, type |-> f.type, payload |-> f.payload]
<1>1. /\ f \in [to : Byte, from : Byte, type : Range(FrameTypes), payload : Seq(Byte)]
      /\ Len(f.payload) <= MaxPayload /\ PayloadLenOK(f.type, Len(f.payload))
  BY DEF Frame
<1>2. PICK i \in DOMAIN FrameTypes : FrameTypes[i] = f.type
  BY <1>1 DEF Range
<1>3. DOMAIN FrameTypes \subseteq Nat
  BY DEF FrameTypes
<1>4. PICK j : j = CHOOSE e \in DOMAIN FrameTypes : FrameTypes[e] = f.type
  OBVIOUS
<1>5. j \in DOMAIN FrameTypes /\ FrameTypes[j] = f.type
  BY <1>2, <1>4
<1>6. TypeByte(f.type) + 1 = j
  <2>1. TypeByte(f.type) = j - 1 /\ j \in Nat
    BY <1>3, <1>4, <1>5 DEF TypeByte
  <2> QED BY <2>1
<1> QED BY <1>1, <1>5, <1>6

(* Header, payload and checksum of a frame.                                *)
Symbol(f) == Byte \cup {Checksum(Plain(f))}

LEMMA ContentOfFrame ==
    ASSUME NEW f \in Frame
    PROVE  /\ Plain(f) \in Seq(Byte) /\ Len(Plain(f)) = HeaderLen + Len(f.payload)
           /\ Content(f) \in Seq(Symbol(f))
           /\ Len(Content(f)) = Len(Plain(f)) + 1
           /\ \A i \in 1 .. Len(Plain(f)) : Content(f)[i] = Plain(f)[i]
           /\ Content(f)[Len(Plain(f)) + 1] = Checksum(Plain(f))
           /\ Plain(f)[1] = f.to /\ Plain(f)[2] = f.from /\ Plain(f)[3] = TypeByte(f.type)
           /\ Plain(f)[4] + 256 * Plain(f)[5] = Len(f.payload)
           /\ \A i \in 1 .. Len(f.payload) : Plain(f)[HeaderLen + i] = f.payload[i]
<1>1. PICK d : d = f.payload
  OBVIOUS
<1>2. PICK n : n = Len(d)
  OBVIOUS
<1>3. d \in Seq(Byte) /\ n \in Nat /\ n <= 128 /\ f.to \in Byte /\ f.from \in Byte
  BY <1>1, <1>2, FrameFields DEF MaxPayload
<1>4. TypeByte(f.type) \in Byte
  <2>1. PICK t : t = TypeByte(f.type)
    OBVIOUS
  <2>2. t + 1 \in 1 .. 7
    BY <2>1, FrameFields DEF FrameTypes
  <2>3. t \in Int
    <3>1. PICK i : i = CHOOSE e \in DOMAIN FrameTypes : FrameTypes[e] = f.type
      OBVIOUS
    <3>2. i \in DOMAIN FrameTypes
      BY <3>1, FrameFields
    <3>3. i \in Int
      BY <3>2 DEF FrameTypes
    <3> QED BY <2>1, <3>1, <3>3 DEF TypeByte
  <2> QED BY <2>1, <2>2, <2>3 DEF Byte
<1>5. n % 256 \in Byte /\ n \div 256 \in Byte /\ (n % 256) + 256 * (n \div 256) = n
  BY <1>3 DEF Byte
<1>6. PICK h : h = <<f.to, f.from, TypeByte(f.type), n % 256, n \div 256>>
  OBVIOUS
<1>7. /\ h \in Seq(Byte) /\ Len(h) = 5 /\ h[1] = f.to /\ h[2] = f.from
      /\ h[3] = TypeByte(f.type) /\ h[4] + 256 * h[5] = n
  BY <1>3, <1>4, <1>5, <1>6
<1>8. PICK p : p = Plain(f)
  OBVIOUS
<1>9. p = h \o d
  BY <1>1, <1>2, <1>6, <1>8 DEF Plain
<1>10. /\ p \in Seq(Byte) /\ Len(p) = 5 + n
       /\ \A i \in 1 .. 5 : p[i] = h[i]
       /\ \A i \in 1 .. n : p[5 + i] = d[i]
  <2>1. Len(h) = 5 /\ Len(d) = n
    BY <1>2, <1>7
  <2>3. h \in Seq(Byte) /\ d \in Seq(Byte)
    BY <1>3, <1>7
  <2>2. /\ h \o d \in Seq(Byte) /\ Len(h \o d) = Len(h) + Len(d)
        /\ \A i \in 1 .. Len(h) : (h \o d)[i] = h[i]
        /\ \A i \in 1 .. Len(d) : (h \o d)[Len(h) + i] = d[i]
    BY <2>3, Joined
  <2> QED BY <1>9, <2>1, <2>2
<1>11. PICK c : c = Checksum(p)
  OBVIOUS
<1>12. p \in Seq(Byte \cup {c})
  BY <1>10
<1>13. PICK q : q = p \o <<c>>
  OBVIOUS
<1>14. /\ q \in Seq(Byte \cup {c}) /\ Len(q) = Len(p) + 1 /\ q[Len(p) + 1] = c
       /\ \A i \in 1 .. Len(p) : q[i] = p[i]
  BY <1>12, <1>13
<1>15. q = Content(f) /\ Symbol(f) = Byte \cup {c}
  BY <1>8, <1>11, <1>13 DEF Content, Symbol
<1>16. p[1] = f.to /\ p[2] = f.from /\ p[3] = TypeByte(f.type) /\ p[4] + 256 * p[5] = n
  BY <1>7, <1>10
<1> QED BY <1>1, <1>2, <1>8, <1>10, <1>11, <1>14, <1>15, <1>16 DEF HeaderLen

(* Every frame is decoded from what was encoded of it, as it was.          *)
THEOREM Decoded ==
    ASSUME NEW f \in Frame
    PROVE  Decode(Content(f)) = f
<1>1. PICK p : p = Plain(f)
  OBVIOUS
<1>2. PICK q : q = Content(f)
  OBVIOUS
<1>3. PICK n : n = Len(f.payload)
  OBVIOUS
<1>4. /\ p \in Seq(Byte) /\ n \in Nat /\ Len(p) = 5 + n
      /\ q \in Seq(Symbol(f)) /\ Len(q) = 6 + n
      /\ \A i \in 1 .. 5 + n : q[i] = p[i]
      /\ q[6 + n] = Checksum(p)
      /\ q[1] = f.to /\ q[2] = f.from /\ q[3] = TypeByte(f.type) /\ q[4] + 256 * q[5] = n
      /\ \A i \in 1 .. n : q[5 + i] = f.payload[i]
  <2>1. f.payload \in Seq(Byte)
    BY FrameFields
  <2>2. n \in Nat
    BY <1>3, <2>1
  <2>3. /\ p \in Seq(Byte) /\ Len(p) = 5 + n /\ q \in Seq(Symbol(f)) /\ Len(q) = Len(p) + 1
        /\ \A i \in 1 .. Len(p) : q[i] = p[i]
        /\ q[Len(p) + 1] = Checksum(p)
        /\ p[1] = f.to /\ p[2] = f.from /\ p[3] = TypeByte(f.type)
        /\ p[4] + 256 * p[5] = n
        /\ \A i \in 1 .. n : p[5 + i] = f.payload[i]
    BY <1>1, <1>2, <1>3, ContentOfFrame DEF HeaderLen
  <2>4. Len(q) = 6 + n /\ Len(p) + 1 = 6 + n
    BY <2>2, <2>3
  <2>5. q[1] = p[1] /\ q[2] = p[2] /\ q[3] = p[3] /\ q[4] = p[4] /\ q[5] = p[5]
    BY <2>2, <2>3
  <2>6. \A i \in 1 .. n : q[5 + i] = p[5 + i]
    BY <2>2, <2>3
  <2> QED BY <2>2, <2>3, <2>4, <2>5, <2>6
<1>5. PICK m : m = 5 + n
  OBVIOUS
<1>6. /\ m \in Nat /\ Len(q) = m + 1 /\ n = m - 5 /\ q[m + 1] = Checksum(p)
      /\ SubSeq(q, 1, m) = p
  <2>1. m + 1 = 6 + n
    BY <1>4, <1>5
  <2>2. SubSeq(q, 1, m) = p
    BY <1>4, <1>5
  <2> QED BY <1>4, <1>5, <2>1, <2>2
<1>7. SubSeq(q, 6, m) = f.payload
  <2>1. f.payload \in Seq(Byte)
    BY FrameFields
  <2>2. PICK d : d = f.payload
    OBVIOUS
  <2>3. d \in Seq(Byte) /\ Len(d) = n /\ \A i \in 1 .. n : q[5 + i] = d[i]
    BY <1>3, <1>4, <2>1, <2>2
  <2>4. SubSeq(q, 6, m) = [i \in 1 .. n |-> q[5 + i]]
    BY <1>4, <1>5
  <2>5. SubSeq(q, 6, m) = d
    BY <2>3, <2>4
  <2> QED BY <2>2, <2>5
<1>8. /\ q[3] + 1 \in DOMAIN FrameTypes /\ FrameTypes[q[3] + 1] = f.type
      /\ PayloadLenOK(f.type, n) /\ n <= 128
  BY <1>3, <1>4, FrameFields DEF MaxPayload
<1>9. Len(q) - 1 = m /\ ~ (Len(q) < 6) /\ ~ (n > 128) /\ 5 + 1 = 6
  BY <1>4, <1>5, <1>6, <1>8
<1>10. Decode(q) = [to |-> q[1], from |-> q[2], type |-> f.type, payload |-> f.payload]
  <2>1. q[m + 1] = Checksum(SubSeq(q, 1, m))
    BY <1>6
  <2> DEFINE d == [to |-> q[1], from |-> q[2], type |-> FrameTypes[q[3] + 1],
                   payload |-> SubSeq(q, 6, m)]
             rest == IF n # m - 5 THEN Error("InvalidPayloadLength")
                     ELSE IF q[3] + 1 \notin DOMAIN FrameTypes THEN Error("UnknownFrameType")
                     ELSE IF ~PayloadLenOK(FrameTypes[q[3] + 1], n)
                       THEN Error("InvalidPayloadLength")
                     ELSE IF n > 128 THEN Error("FrameBufferTooSmall")
                     ELSE d
  <2>2. Decode(q) = IF Len(q) < 6 THEN Error("InvalidPayloadLength")
                    ELSE IF q[m + 1] # Checksum(SubSeq(q, 1, m)) THEN Error("InvalidChecksum")
                    ELSE rest
    BY <1>4, <1>9 DEF Decode, HeaderLen, ChecksumLen, MaxPayload
  <2>3. rest = d
    BY <1>6, <1>8, <1>9
  <2>4. d = [to |-> q[1], from |-> q[2], type |-> f.type, payload |-> f.payload]
    BY <1>7, <1>8
  <2> HIDE DEF d, rest
  <2> QED BY <1>9, <2>1, <2>2, <2>3, <2>4
<1> QED BY <1>2, <1>4, <1>10, FrameFields

-----------------------------------------------------------------------------
(* The stuffing.  w[k] are the bytes of a frame up to the k-th of its      *)
(* content.                                                                *)
Spells(w, f) ==
    LET c == Content(f) IN
    /\ w \in [0 .. Len(c) -> Seq(Symbol(f))]
    /\ w[0] = <<SOF>>
    /\ \A k \in 1 .. Len(c) :
        w[k] = IF c[k] \in Special
                 THEN Append(Append(w[k - 1], ESC), Xor(c[k], ESC_XOR))
                 ELSE Append(w[k - 1], c[k])
    /\ Encode(f) = Append(w[Len(c)], EOF)

LEMMA StuffedByte ==
    ASSUME NEW f, NEW b \in Symbol(f)
    PROVE  Stuffed(b) \in Seq(Symbol(f))
<1>1. CASE b \in Special
  <2>1. ESC \in Byte /\ Xor(b, ESC_XOR) \in Byte
    BY <1>1, Escaped DEF Special, ESC, Byte
  <2>2. ESC \in Symbol(f) /\ Xor(b, ESC_XOR) \in Symbol(f)
    BY <2>1 DEF Symbol
  <2>3. Stuffed(b) = <<ESC, Xor(b, ESC_XOR)>>
    BY <1>1 DEF Stuffed
  <2> QED BY <2>2, <2>3
<1>2. CASE b \notin Special
  <2>1. Stuffed(b) = <<b>>
    BY <1>2 DEF Stuffed
  <2> QED BY <2>1
<1> QED BY <1>1, <1>2

(* FlattenSeq, piece by piece.                                             *)
LEMMA Flattened ==
    ASSUME NEW T, NEW s \in Seq(Seq(T)), Len(s) > 0
    PROVE  \E f : /\ f \in [0 .. Len(s) -> Seq(T)] /\ f[0] = <<>>
                  /\ \A k \in 1 .. Len(s) : f[k] = f[k - 1] \o s[k]
                  /\ FlattenSeq(s) = f[Len(s)]
<1> DEFINE n == Len(s)
           rhs(f) == [i \in 1 .. n |-> IF i = 1 THEN s[i] ELSE f[i - 1] \o s[i]]
           step == [p \in (1 .. n) \X Seq(T) |-> p[2] \o s[p[1]]]
<1>1. n \in Nat /\ n > 0 /\ \A k \in 1 .. n : s[k] \in Seq(T)
  OBVIOUS
<1>2. ASSUME NEW k \in 1 .. n, NEW u \in Seq(T)
      PROVE  u \o s[k] \in Seq(T)
  BY <1>1, Joined
<1>3. step \in [(1 .. n) \X Seq(T) -> Seq(T)]
  BY <1>2
<1>4. \A k \in 1 .. n, u \in Seq(T) : step[<<k, u>>] = u \o s[k]
  OBVIOUS
<1>5. <<>> \in Seq(T)
  OBVIOUS
<1> HIDE DEF step
<1>6. PICK g : Iterates(g, Seq(T), n, <<>>, step)
  BY <1>1, <1>3, <1>5, Iteration
<1>7. \A k \in 1 .. n : g[k] = g[k - 1] \o s[k] /\ g[k - 1] \in Seq(T)
  <2> TAKE k \in 1 .. n
  <2>1. k - 1 \in 0 .. n
    BY <1>1
  <2>2. g[k - 1] \in Seq(T) /\ g[k] = step[<<k, g[k - 1]>>]
    BY <1>6, <2>1 DEF Iterates
  <2> QED BY <1>4, <2>2
<1>8. g[1] = s[1]
  <2>1. g[0] = <<>> /\ 1 \in 1 .. n /\ 1 - 1 = 0
    BY <1>1, <1>6 DEF Iterates
  <2>2. g[1] = <<>> \o s[1] /\ s[1] \in Seq(T)
    BY <1>1, <1>7, <2>1
  <2> QED BY <2>2
<1> DEFINE h == [i \in 1 .. n |-> g[i]]
<1>9. h = rhs(h)
  <2>1. ASSUME NEW i \in 1 .. n
        PROVE  h[i] = IF i = 1 THEN s[i] ELSE h[i - 1] \o s[i]
    <3>1. CASE i = 1
      BY <1>8, <3>1
    <3>2. CASE i # 1
      <4>1. i - 1 \in 1 .. n
        BY <1>1, <3>2
      <4> QED BY <1>7, <3>2, <4>1
    <3> QED BY <3>1, <3>2
  <2> QED BY <2>1
<1> HIDE DEF h
<1>10. PICK q : q = CHOOSE f : f = rhs(f)
  OBVIOUS
<1>11. q = rhs(q)
  BY <1>9, <1>10
<1>12. FlattenSeq(s) = q[n]
  BY <1>1, <1>10 DEF FlattenSeq
<1>13. q[1] = s[1] /\ \A k \in 2 .. n : q[k] = q[k - 1] \o s[k]
  <2>1. 1 \in 1 .. n /\ \A k \in 2 .. n : k \in 1 .. n /\ k # 1
    BY <1>1
  <2>2. \A k \in 1 .. n : q[k] = IF k = 1 THEN s[k] ELSE q[k - 1] \o s[k]
    BY <1>11
  <2> HIDE DEF rhs
  <2> QED BY <2>1, <2>2
<1> HIDE DEF rhs
<1> DEFINE S == {k \in Nat : k + 1 <= n => q[k + 1] \in Seq(T)}
<1>14. 0 \in S
  BY <1>1, <1>13
<1>15. ASSUME NEW k \in Nat, k \in S PROVE k + 1 \in S
  <2> SUFFICES ASSUME k + 2 <= n PROVE q[k + 2] \in Seq(T)
    BY <1>1
  <2>1. q[k + 1] \in Seq(T) /\ k + 2 \in 2 .. n /\ k + 2 \in 1 .. n /\ (k + 2) - 1 = k + 1
    BY <1>1, <1>15
  <2> QED BY <1>2, <1>13, <2>1
<1> HIDE DEF S
<1>16. \A k \in Nat : k \in S
  BY <1>14, <1>15, Induction
<1>17. \A k \in 1 .. n : q[k] \in Seq(T)
  <2> TAKE k \in 1 .. n
  <2>1. k - 1 \in Nat /\ (k - 1) + 1 = k /\ k <= n
    BY <1>1
  <2> QED BY <1>16, <2>1 DEF S
<1> DEFINE r == [k \in 0 .. n |-> IF k = 0 THEN <<>> ELSE q[k]]
<1>18. r \in [0 .. n -> Seq(T)] /\ r[0] = <<>> /\ r[n] = q[n]
  BY <1>1, <1>5, <1>17
<1>19. ASSUME NEW k \in 1 .. n PROVE r[k] = r[k - 1] \o s[k]
  <2>1. r[k] = q[k]
    BY <1>1
  <2>2. CASE k = 1
    <3>1. r[k - 1] = <<>> /\ s[k] \in Seq(T)
      BY <1>1, <2>2
    <3>2. r[k] = s[k]
      BY <1>13, <2>1, <2>2
    <3>3. PICK u : u = s[k]
      OBVIOUS
    <3>4. u \in Seq(T) /\ r[k - 1] \o s[k] = <<>> \o u
      BY <3>1, <3>3
    <3>5. <<>> \o u = u
      BY <3>4
    <3> QED BY <3>2, <3>3, <3>4, <3>5
  <2>3. CASE k # 1
    <3>1. k \in 2 .. n /\ k - 1 \in 1 .. n /\ k - 1 # 0
      BY <1>1, <2>3
    <3>2. r[k - 1] = q[k - 1]
      BY <3>1
    <3> QED BY <1>13, <2>1, <3>1, <3>2
  <2> QED BY <2>2, <2>3
<1> HIDE DEF r
<1> QED BY <1>12, <1>18, <1>19

LEMMA Spelling ==
    ASSUME NEW f \in Frame
    PROVE  \E w : Spells(w, f)
<1>1. PICK c : c = Content(f)
  OBVIOUS
<1>2. PICK T : T = Symbol(f)
  OBVIOUS
<1>3. c \in Seq(T) /\ Len(c) \in Nat /\ Len(c) > 0
  <2>1. c \in Seq(T) /\ Len(c) = HeaderLen + Len(f.payload) + 1 /\ f.payload \in Seq(Byte)
    BY <1>1, <1>2, ContentOfFrame, FrameFields
  <2> QED BY <2>1 DEF HeaderLen
<1>4. SOF \in T /\ EOF \in T /\ ESC \in T
  BY <1>2 DEF Symbol, Byte, SOF, EOF, ESC
<1>5. \A k \in 1 .. Len(c) : c[k] \in T /\ Stuffed(c[k]) \in Seq(T)
  BY <1>2, <1>3, StuffedByte
<1> DEFINE s == [i \in DOMAIN c |-> Stuffed(c[i])]
<1>6. s \in Seq(Seq(T)) /\ Len(s) = Len(c) /\ \A k \in 1 .. Len(c) : s[k] = Stuffed(c[k])
  BY <1>3, <1>5
<1>7. Stuff(c) = FlattenSeq(s)
  BY DEF Stuff
<1> HIDE DEF s
<1>8. PICK g : /\ g \in [0 .. Len(s) -> Seq(T)] /\ g[0] = <<>>
               /\ \A k \in 1 .. Len(s) : g[k] = g[k - 1] \o s[k]
               /\ FlattenSeq(s) = g[Len(s)]
  BY <1>3, <1>6, Flattened
<1> DEFINE w == [k \in 0 .. Len(c) |-> <<SOF>> \o g[k]]
<1>9. \A k \in 0 .. Len(c) : g[k] \in Seq(T) /\ w[k] = <<SOF>> \o g[k]
  BY <1>6, <1>8
<1>10. \A k \in 0 .. Len(c) : w[k] \in Seq(T)
  BY <1>4, <1>9
<1>11. w \in [0 .. Len(c) -> Seq(T)]
  BY <1>10
<1>12. w[0] = <<SOF>>
  <2>1. 0 \in 0 .. Len(c) /\ g[0] = <<>>
    BY <1>3, <1>8
  <2>2. w[0] = <<SOF>> \o <<>>
    BY <1>9, <2>1
  <2>3. ASSUME NEW u \in Seq(T) PROVE u \o <<>> = u
    OBVIOUS
  <2>4. <<SOF>> \in Seq(T)
    BY <1>4
  <2> QED BY <2>2, <2>3, <2>4
<1> HIDE DEF w
<1>13. ASSUME NEW k \in 1 .. Len(c)
       PROVE  w[k] = IF c[k] \in Special
                       THEN Append(Append(w[k - 1], ESC), Xor(c[k], ESC_XOR))
                       ELSE Append(w[k - 1], c[k])
  <2>1. k \in 0 .. Len(c) /\ k - 1 \in 0 .. Len(c) /\ k \in 1 .. Len(s)
    BY <1>3, <1>6
  <2>2. g[k] = g[k - 1] \o Stuffed(c[k])
    BY <1>6, <1>8, <2>1
  <2>3. PICK u : u = g[k - 1]
    OBVIOUS
  <2>4. u \in Seq(T) /\ w[k - 1] = <<SOF>> \o u /\ w[k] = <<SOF>> \o (u \o Stuffed(c[k]))
    BY <1>9, <2>1, <2>2, <2>3
  <2>5. CASE c[k] \in Special
    <3>1. PICK x : x = Xor(c[k], ESC_XOR)
      OBVIOUS
    <3>2. Stuffed(c[k]) = <<ESC, x>> /\ x \in T
      BY <1>2, <2>5, <3>1, Escaped DEF Stuffed, Symbol
    <3>3. w[k] = <<SOF>> \o (u \o <<ESC, x>>)
      BY <2>4, <3>2
    <3>4. w[k] = Append(Append(w[k - 1], ESC), x)
      BY <1>4, <2>4, <3>2, <3>3
    <3> QED BY <2>5, <3>1, <3>4
  <2>6. CASE c[k] \notin Special
    <3>1. PICK x : x = c[k]
      OBVIOUS
    <3>2. Stuffed(c[k]) = <<x>> /\ x \in T
      BY <1>5, <2>6, <3>1 DEF Stuffed
    <3>3. w[k] = <<SOF>> \o (u \o <<x>>)
      BY <2>4, <3>2
    <3>4. w[k] = Append(w[k - 1], x)
      BY <1>4, <2>4, <3>2, <3>3
    <3> QED BY <2>6, <3>1, <3>4
  <2> QED BY <2>5, <2>6
<1>14. Encode(f) = Append(w[Len(c)], EOF)
  <2>1. Len(c) \in 0 .. Len(c)
    BY <1>3
  <2>2. PICK u : u = g[Len(c)]
    OBVIOUS
  <2>3. u \in Seq(T) /\ w[Len(c)] = <<SOF>> \o u /\ Stuff(c) = u
    BY <1>6, <1>7, <1>8, <1>9, <2>1, <2>2 DEF w
  <2>4. Encode(f) = <<SOF>> \o u \o <<EOF>>
    BY <1>1, <2>3 DEF Encode
  <2> QED BY <1>4, <2>3, <2>4
<1> QED BY <1>1, <1>2, <1>11, <1>12, <1>13, <1>14 DEF Spells

-----------------------------------------------------------------------------
(* The parser, byte by byte.                                               *)

Results ==
    {Nothing, Error("InvalidEscapeSequence"), Error("FrameBufferTooSmall")}
    \cup {Decode(s) : s \in Seq(Byte)}

Parsers ==
    {p \in [state : {"WaitingForSof", "Receiving"}, escaping : BOOLEAN,
            frame : Seq(Byte), out : Results, used : Nat] :
        Len(p.frame) <= FrameCap}

(* The bytes h end with the bytes s.                                       *)
Ends(s, h) ==
    Len(s) <= Len(h) /\ \A i \in 1 .. Len(s) : h[Len(h) - Len(s) + i] = s[i]

LEMMA SuffixEnds ==
    ASSUME NEW T, NEW s \in Seq(T), NEW U, NEW h \in Seq(U), IsSuffix(s, h)
    PROVE  Ends(s, h)
<1>1. PICK m, n : m = Len(s) /\ n = Len(h)
  OBVIOUS
<1>2. m \in Nat /\ n \in Nat
  BY <1>1
<1>3. PICK r, t : r = Reverse(s) /\ t = Reverse(h)
  OBVIOUS
<1>4. r = [i \in 1 .. m |-> s[(m - i) + 1]] /\ t = [i \in 1 .. n |-> h[(n - i) + 1]]
  BY <1>1, <1>3 DEF Reverse
<1>5. \A i \in 1 .. m : (m - i) + 1 \in 1 .. m
  BY <1>2
<1>6. \A i \in 1 .. n : (n - i) + 1 \in 1 .. n
  BY <1>2
<1>7. r \in Seq(T) /\ t \in Seq(U) /\ Len(r) = m /\ Len(t) = n
  BY <1>1, <1>2, <1>4, <1>5, <1>6
<1>8. m <= n /\ SubSeq(r, 1, m) = SubSeq(t, 1, m)
  BY <1>3, <1>7 DEF IsSuffix, IsPrefix
<1>9. ASSUME NEW j \in 1 .. m PROVE r[j] = t[j]
  BY <1>2, <1>7, <1>8
<1>10. ASSUME NEW i \in 1 .. m PROVE h[n - m + i] = s[i]
  <2>1. (m - i) + 1 \in 1 .. m /\ (m - i) + 1 \in 1 .. n
    BY <1>2, <1>8
  <2>2. s[(m - ((m - i) + 1)) + 1] = h[(n - ((m - i) + 1)) + 1]
    BY <1>4, <1>9, <2>1
  <2>3. (m - ((m - i) + 1)) + 1 = i /\ (n - ((m - i) + 1)) + 1 = n - m + i
    BY <1>2
  <2> QED BY <2>2, <2>3
<1> QED BY <1>1, <1>8, <1>10 DEF Ends

LEMMA EndsOneLess ==
    ASSUME NEW T, NEW s \in Seq(T), NEW e \in T, NEW h \in Seq(Byte), NEW b \in Byte,
           Ends(Append(s, e), Append(h, b))
    PROVE  b = e /\ Ends(s, h)
<1>1. PICK m, n : m = Len(s) /\ n = Len(h)
  OBVIOUS
<1>2. PICK r, t : r = Append(s, e) /\ t = Append(h, b)
  OBVIOUS
<1>3. /\ m \in Nat /\ n \in Nat /\ Len(r) = m + 1 /\ Len(t) = n + 1
      /\ r[m + 1] = e /\ t[n + 1] = b
      /\ \A i \in 1 .. m : r[i] = s[i]
      /\ \A i \in 1 .. n : t[i] = h[i]
  BY <1>1, <1>2
<1>4. m + 1 <= n + 1 /\ \A i \in 1 .. m + 1 : t[(n + 1) - (m + 1) + i] = r[i]
  BY <1>2, <1>3 DEF Ends
<1>5. b = e
  <2>1. m + 1 \in 1 .. m + 1 /\ (n + 1) - (m + 1) + (m + 1) = n + 1
    BY <1>3
  <2> QED BY <1>3, <1>4, <2>1
<1>6. ASSUME NEW i \in 1 .. m PROVE h[n - m + i] = s[i]
  <2>1. /\ i \in 1 .. m + 1 /\ (n + 1) - (m + 1) + i = n - m + i
        /\ n - m + i \in 1 .. n
    BY <1>3, <1>4
  <2> QED BY <1>3, <1>4, <2>1
<1>7. Ends(s, h)
  BY <1>1, <1>3, <1>4, <1>6 DEF Ends
<1> QED BY <1>5, <1>7

(* What the parser p holds after the first k bytes of what a frame         *)
(* contains, and whether an ESC came behind them.                          *)
Reading(p, f, k, esc) ==
    p.state = "Receiving" /\ p.escaping = esc /\ p.frame = SubSeq(Content(f), 1, k)

(* Where the bytes h end with those of a frame, up to a byte of it, the    *)
(* parser p that has read them is there.                                   *)
Follows(p, h) ==
    \A f \in Frames : \A w :
        Fits(f) /\ Spells(w, f) =>
            \A k \in 0 .. Len(Content(f)) :
                /\ Ends(w[k], h) => Reading(p, f, k, FALSE)
                /\ k < Len(Content(f)) /\ Content(f)[k + 1] \in Special
                   /\ Ends(Append(w[k], ESC), h) => Reading(p, f, k, TRUE)

LEMMA ByteIsTyped ==
    ASSUME NEW p \in Parsers, NEW b \in Byte
    PROVE  ParseByte(p, b) \in Parsers /\ ParseByte(p, b).used = p.used
<1>1. /\ p.state \in {"WaitingForSof", "Receiving"} /\ p.escaping \in BOOLEAN
      /\ p.frame \in Seq(Byte) /\ Len(p.frame) <= FrameCap /\ p.used \in Nat
      /\ Len(p.frame) \in Nat /\ FrameCap \in Nat
  BY ParserAssumption DEF Parsers
<1>0. /\ p.out \in Results
      /\ Error("InvalidEscapeSequence") \in Results /\ Error("FrameBufferTooSmall") \in Results
      /\ \A s \in Seq(Byte) : Decode(s) \in Results
  BY DEF Parsers, Results
<1>2. <<>> \in Seq(Byte) /\ Len(<<>>) = 0
  OBVIOUS
<1>3. CASE b = SOF
  <2>1. ParseByte(p, b) = StartFrame(p)
    BY <1>3 DEF ParseByte
  <2>2. [[p EXCEPT !.state = "Receiving"] EXCEPT !.escaping = FALSE] \in Parsers
    BY <1>1 DEF Parsers
  <2>3. PICK q : q = [[p EXCEPT !.state = "Receiving"] EXCEPT !.escaping = FALSE]
    OBVIOUS
  <2>4. ParseByte(p, b) = [q EXCEPT !.frame = <<>>] /\ q.used = p.used /\ q \in Parsers
    BY <2>1, <2>2, <2>3 DEF StartFrame, Parsers
  <2>5. 0 <= FrameCap
    BY <1>1
  <2> QED BY <1>2, <2>4, <2>5 DEF Parsers
<1>4. CASE b # SOF /\ p.state = "WaitingForSof"
  BY <1>4 DEF ParseByte
<1>5. CASE b # SOF /\ p.state # "WaitingForSof" /\ b = EOF
  <2>1. ParseByte(p, b) = EndFrame(p)
    BY <1>5 DEF ParseByte, EOF, ESC
  <2>2. PICK r : r = IF p.escaping THEN Error("InvalidEscapeSequence") ELSE Decode(p.frame)
    OBVIOUS
  <2>3. r \in Results
    BY <1>0, <1>1, <2>2
  <2>4. ParseByte(p, b) = [p EXCEPT !.state = "WaitingForSof", !.escaping = FALSE, !.out = r]
    BY <2>1, <2>2 DEF EndFrame
  <2> QED BY <1>1, <2>3, <2>4 DEF Parsers
<1>6. CASE b # SOF /\ p.state # "WaitingForSof" /\ b = ESC
  <2>1. ParseByte(p, b) = Escape(p)
    BY <1>6 DEF ParseByte, ESC, EOF
  <2> QED BY <1>0, <1>1, <2>1 DEF Escape, Parsers
<1>7. CASE b # SOF /\ p.state # "WaitingForSof" /\ b # EOF /\ b # ESC
  <2>1. ParseByte(p, b) = Store(p, b)
    BY <1>7 DEF ParseByte
  <2>2. CASE Len(p.frame) >= FrameCap
    BY <1>0, <1>1, <2>1, <2>2 DEF Store, Parsers
  <2>3. CASE ~ (Len(p.frame) >= FrameCap)
    <3>1. PICK x : x = IF p.escaping THEN Xor(b, ESC_XOR) ELSE b
      OBVIOUS
    <3>2. x \in Byte
      <4>1. ESC_XOR \in Byte
        BY DEF ESC_XOR, Byte
      <4> QED BY <3>1, <4>1, XorOfBytes
    <3>3. ParseByte(p, b) = [p EXCEPT !.frame = Append(p.frame, x), !.escaping = FALSE]
      BY <2>1, <2>3, <3>1 DEF Store
    <3>4. Append(p.frame, x) \in Seq(Byte) /\ Len(Append(p.frame, x)) = Len(p.frame) + 1
      BY <1>1, <3>2
    <3>5. Len(Append(p.frame, x)) <= FrameCap
      BY <1>1, <2>3, <3>4
    <3> QED BY <1>1, <3>3, <3>4, <3>5 DEF Parsers
  <2> QED BY <2>2, <2>3
<1> QED BY <1>3, <1>4, <1>5, <1>6, <1>7

LEMMA ByteIsStored ==
    ASSUME NEW p \in Parsers, NEW b \in Byte \ Special, p.state = "Receiving",
           Len(p.frame) < FrameCap
    PROVE  /\ ParseByte(p, b).state = "Receiving" /\ ParseByte(p, b).escaping = FALSE
           /\ ParseByte(p, b).frame
                = Append(p.frame, IF p.escaping THEN Xor(b, ESC_XOR) ELSE b)
<1>1. b # SOF /\ b # EOF /\ b # ESC
  BY DEF Special
<1>2. ParseByte(p, b) = Store(p, b)
  BY <1>1 DEF ParseByte
<1>3. Len(p.frame) \in Nat /\ FrameCap \in Nat
  BY ParserAssumption DEF Parsers
<1>4. ~ (Len(p.frame) >= FrameCap)
  BY <1>3
<1>5. PICK x : x = Append(p.frame, IF p.escaping THEN Xor(b, ESC_XOR) ELSE b)
  OBVIOUS
<1>6. ParseByte(p, b) = [p EXCEPT !.frame = x, !.escaping = FALSE]
  BY <1>2, <1>4, <1>5 DEF Store
<1> QED BY <1>5, <1>6 DEF Parsers

(* A byte that continues a frame leaves the parser where it has to be, and *)
(* the last byte of a frame gives it back.                                 *)
LEMMA ByteRead ==
    ASSUME NEW p \in Parsers, NEW h \in Seq(Byte), NEW b \in Byte, Follows(p, h)
    PROVE  /\ Follows(ParseByte(p, b), Append(h, b))
           /\ \A f \in Frames :
                Fits(f) /\ Ends(Encode(f), Append(h, b)) => ParseByte(p, b).out = f
<1> DEFINE q == ParseByte(p, b)
           g == Append(h, b)
<1>1. ASSUME NEW f \in Frames, NEW w, Fits(f), Spells(w, f)
      PROVE  /\ \A k \in 0 .. Len(Content(f)) :
                /\ Ends(w[k], g) => Reading(q, f, k, FALSE)
                /\ k < Len(Content(f)) /\ Content(f)[k + 1] \in Special
                   /\ Ends(Append(w[k], ESC), g) => Reading(q, f, k, TRUE)
             /\ Ends(Encode(f), g) => q.out = f
  <2>1. PICK c, n, T : c = Content(f) /\ n = Len(c) /\ T = Symbol(f)
    OBVIOUS
  <2>2. f \in Frame /\ n <= FrameCap /\ FrameCap \in Nat
    BY <1>1, <2>1, ParserAssumption DEF Fits
  <2>3. c \in Seq(T) /\ n \in Nat
    BY <2>1, <2>2, ContentOfFrame
  <2>4. /\ w \in [0 .. n -> Seq(T)] /\ w[0] = <<SOF>>
        /\ \A k \in 1 .. n :
            w[k] = IF c[k] \in Special THEN Append(Append(w[k - 1], ESC), Xor(c[k], ESC_XOR))
                   ELSE Append(w[k - 1], c[k])
        /\ Encode(f) = Append(w[n], EOF)
    BY <1>1, <2>1 DEF Spells
  <2>5. \A k \in 0 .. n :
          /\ Ends(w[k], h) => Reading(p, f, k, FALSE)
          /\ k < n /\ c[k + 1] \in Special /\ Ends(Append(w[k], ESC), h)
             => Reading(p, f, k, TRUE)
    BY <1>1, <2>1 DEF Follows
  <2>6. SOF \in T /\ EOF \in T /\ ESC \in T /\ Byte \subseteq T
    BY <2>1 DEF Symbol, Byte, SOF, EOF, ESC
  <2>7. \A k \in 0 .. n : w[k] \in Seq(T)
    BY <2>4
  <2>8. SubSeq(c, 1, 0) = <<>> /\ SubSeq(c, 1, n) = c
    BY <2>1, <2>3
  <2>9. ASSUME NEW k \in 1 .. n
        PROVE  /\ k - 1 \in 0 .. n /\ SubSeq(c, 1, k - 1) \in Seq(T)
               /\ Len(SubSeq(c, 1, k - 1)) = k - 1 /\ k - 1 < FrameCap
               /\ Append(SubSeq(c, 1, k - 1), c[k]) = SubSeq(c, 1, k)
               /\ c[k] \in T
    <3>1. k - 1 \in 0 .. n /\ k - 1 < FrameCap /\ c[k] \in T
      BY <2>1, <2>2, <2>3
    <3>2. PICK r : r = SubSeq(c, 1, k - 1)
      OBVIOUS
    <3>3. r \in Seq(T) /\ Len(r) = k - 1 /\ \A i \in 1 .. k - 1 : r[i] = c[i]
      BY <2>1, <2>3, <3>2
    <3>4. Append(r, c[k]) = SubSeq(c, 1, k)
      <4>1. Append(r, c[k]) = [i \in 1 .. k |-> c[i]]
        BY <3>1, <3>3
      <4>2. SubSeq(c, 1, k) = [i \in 1 .. k |-> c[i]]
        BY <2>1, <2>3
      <4> QED BY <4>1, <4>2
    <3> QED BY <3>1, <3>2, <3>3, <3>4
  <2>10. Ends(w[0], g) => Reading(q, f, 0, FALSE)
    <3> SUFFICES ASSUME Ends(w[0], g) PROVE Reading(q, f, 0, FALSE)
      OBVIOUS
    <3>1. Append(<<>>, SOF) = <<SOF>> /\ <<>> \in Seq(T)
      OBVIOUS
    <3>2. Ends(Append(<<>>, SOF), Append(h, b))
      BY <2>4, <3>1
    <3>3. b = SOF
      BY <2>6, <3>1, <3>2, EndsOneLess
    <3>4. q = StartFrame(p)
      BY <3>3 DEF ParseByte
    <3>5. q.state = "Receiving" /\ q.escaping = FALSE /\ q.frame = <<>>
      BY <3>4 DEF StartFrame, Parsers
    <3> QED BY <2>1, <2>8, <3>5 DEF Reading
  <2>11. ASSUME NEW k \in 1 .. n, Ends(w[k], g) PROVE Reading(q, f, k, FALSE)
    <3>1. PICK u, x : u = w[k - 1] /\ x = c[k]
      OBVIOUS
    <3>2. u \in Seq(T) /\ x \in T
      BY <2>7, <2>9, <3>1
    <3>3. CASE x \in Special
      <4>1. PICK y : y = Xor(x, ESC_XOR)
        OBVIOUS
      <4>2. y \in Byte \ Special /\ y \in T /\ Xor(y, ESC_XOR) = x
        BY <2>6, <3>3, <4>1, Escaped
      <4>3. Ends(Append(Append(u, ESC), y), Append(h, b))
        BY <2>4, <2>11, <3>1, <3>3, <4>1
      <4>4. Append(u, ESC) \in Seq(T)
        BY <2>6, <3>2
      <4>5. b = y /\ Ends(Append(u, ESC), h)
        BY <4>2, <4>3, <4>4, EndsOneLess
      <4>6. Reading(p, f, k - 1, TRUE)
        <5>1. k - 1 \in 0 .. n /\ k - 1 < n /\ (k - 1) + 1 = k
          BY <2>3
        <5>2. c[(k - 1) + 1] \in Special
          BY <3>1, <3>3, <5>1
        <5> QED BY <2>5, <3>1, <4>5, <5>1, <5>2
      <4>7. p.state = "Receiving" /\ p.escaping = TRUE /\ p.frame = SubSeq(c, 1, k - 1)
        BY <2>1, <4>6 DEF Reading
      <4>8. Len(p.frame) < FrameCap
        BY <2>9, <4>7
      <4>9. q.state = "Receiving" /\ q.escaping = FALSE /\ q.frame = Append(p.frame, x)
        BY <4>2, <4>5, <4>7, <4>8, ByteIsStored
      <4> QED BY <2>1, <2>9, <3>1, <4>7, <4>9 DEF Reading
    <3>4. CASE x \notin Special
      <4>1. Ends(Append(u, x), Append(h, b))
        BY <2>4, <2>11, <3>1, <3>4
      <4>2. b = x /\ Ends(u, h)
        BY <3>2, <4>1, EndsOneLess
      <4>3. Reading(p, f, k - 1, FALSE)
        BY <2>5, <2>9, <3>1, <4>2
      <4>4. p.state = "Receiving" /\ p.escaping = FALSE /\ p.frame = SubSeq(c, 1, k - 1)
        BY <2>1, <4>3 DEF Reading
      <4>5. Len(p.frame) < FrameCap
        BY <2>9, <4>4
      <4>6. q.state = "Receiving" /\ q.escaping = FALSE /\ q.frame = Append(p.frame, x)
        BY <3>4, <4>2, <4>4, <4>5, ByteIsStored
      <4> QED BY <2>1, <2>9, <3>1, <4>4, <4>6 DEF Reading
    <3> QED BY <3>3, <3>4
  <2>12. ASSUME NEW k \in 0 .. n, Ends(Append(w[k], ESC), g) PROVE Reading(q, f, k, TRUE)
    <3>1. w[k] \in Seq(T) /\ Ends(Append(w[k], ESC), Append(h, b))
      BY <2>7, <2>12
    <3>2. b = ESC /\ Ends(w[k], h)
      BY <2>6, <3>1, EndsOneLess
    <3>3. Reading(p, f, k, FALSE)
      BY <2>5, <3>2
    <3>4. p.state = "Receiving" /\ p.escaping = FALSE /\ p.frame = SubSeq(Content(f), 1, k)
      BY <3>3 DEF Reading
    <3>5. q = Escape(p)
      BY <3>2, <3>4 DEF ParseByte, ESC, SOF, EOF
    <3>6. q.state = "Receiving" /\ q.escaping = TRUE /\ q.frame = p.frame
      BY <3>4, <3>5 DEF Escape, Parsers
    <3> QED BY <3>4, <3>6 DEF Reading
  <2>13. Ends(Encode(f), g) => q.out = f
    <3> SUFFICES ASSUME Ends(Encode(f), g) PROVE q.out = f
      OBVIOUS
    <3>1. n \in 0 .. n /\ w[n] \in Seq(T)
      BY <2>3, <2>7
    <3>2. Ends(Append(w[n], EOF), Append(h, b))
      BY <2>4
    <3>3. b = EOF /\ Ends(w[n], h)
      BY <2>6, <3>1, <3>2, EndsOneLess
    <3>4. Reading(p, f, n, FALSE)
      BY <2>5, <3>1, <3>3
    <3>5. p.state = "Receiving" /\ p.escaping = FALSE /\ p.frame = c
      BY <2>1, <2>8, <3>4 DEF Reading
    <3>6. q = EndFrame(p)
      BY <3>3, <3>5 DEF ParseByte, ESC, SOF, EOF
    <3>7. q.out = Decode(c)
      BY <3>5, <3>6 DEF EndFrame, Parsers
    <3> QED BY <2>1, <2>2, <3>7, Decoded
  <2> HIDE DEF q, g
  <2>14. ASSUME NEW k \in 0 .. n, Ends(w[k], g) PROVE Reading(q, f, k, FALSE)
    <3>1. k = 0 \/ k \in 1 .. n
      BY <2>3
    <3> QED BY <2>10, <2>11, <2>14, <3>1
  <2> QED BY <2>1, <2>12, <2>13, <2>14
<1> HIDE DEF q, g
<1>2. Follows(q, g)
  BY <1>1 DEF Follows
<1>3. ASSUME NEW f \in Frames, Fits(f), Ends(Encode(f), g) PROVE q.out = f
  <2>1. f \in Frame
    BY ParserAssumption
  <2>2. PICK w : Spells(w, f)
    BY <2>1, Spelling
  <2> QED BY <1>1, <1>3, <2>2
<1> QED BY <1>2, <1>3 DEF q, g

LEMMA FollowsAlike ==
    ASSUME NEW p, NEW q, NEW h, Follows(p, h),
           q.state = p.state, q.escaping = p.escaping, q.frame = p.frame
    PROVE  Follows(q, h)
<1>1. \A f, k, esc : Reading(p, f, k, esc) => Reading(q, f, k, esc)
  BY DEF Reading
<1> QED BY <1>1 DEF Follows

LEMMA NothingFollows ==
    ASSUME NEW p
    PROVE  Follows(p, <<>>)
<1> SUFFICES ASSUME NEW f \in Frames, NEW w, Spells(w, f), NEW k \in 0 .. Len(Content(f))
             PROVE  ~Ends(w[k], <<>>) /\ ~Ends(Append(w[k], ESC), <<>>)
  BY DEF Follows
<1>1. f \in Frame
  BY ParserAssumption
<1>2. PICK c, T : c = Content(f) /\ T = Symbol(f)
  OBVIOUS
<1>3. c \in Seq(T) /\ Len(c) \in Nat
  BY <1>1, <1>2, ContentOfFrame
<1>4. /\ w \in [0 .. Len(c) -> Seq(T)] /\ w[0] = <<SOF>>
      /\ \A j \in 1 .. Len(c) :
            w[j] = IF c[j] \in Special THEN Append(Append(w[j - 1], ESC), Xor(c[j], ESC_XOR))
                   ELSE Append(w[j - 1], c[j])
  BY <1>2 DEF Spells
<1>5. ESC \in T
  BY <1>2 DEF Symbol, ESC, Byte
<1>6. Len(<<>>) = 0 /\ w[k] \in Seq(T) /\ k \in 0 .. Len(c)
  BY <1>2, <1>4
<1>7. Len(Append(w[k], ESC)) = Len(w[k]) + 1 /\ Len(w[k]) \in Nat
  BY <1>5, <1>6
<1>8. Len(w[k]) > 0
  <2>1. CASE k = 0
    <3>1. w[k] = <<SOF>> /\ Len(<<SOF>>) = 1
      BY <1>4, <2>1
    <3> QED BY <3>1
  <2>2. CASE k # 0
    <3>1. k \in 1 .. Len(c) /\ k - 1 \in 0 .. Len(c)
      BY <1>3, <1>6, <2>2
    <3>2. PICK u : u = w[k - 1]
      OBVIOUS
    <3>3. u \in Seq(T) /\ c[k] \in T
      BY <1>3, <1>4, <3>1, <3>2
    <3>4. CASE c[k] \in Special
      <4>1. PICK x : x = Xor(c[k], ESC_XOR)
        OBVIOUS
      <4>2. x \in T
        BY <1>2, <3>4, <4>1, Escaped DEF Symbol
      <4>3. w[k] = Append(Append(u, ESC), x)
        BY <1>4, <3>1, <3>2, <3>4, <4>1
      <4> QED BY <1>5, <3>3, <4>2, <4>3
    <3>5. CASE c[k] \notin Special
      <4>1. w[k] = Append(u, c[k])
        BY <1>4, <3>1, <3>2, <3>5
      <4> QED BY <3>3, <4>1
    <3> QED BY <3>4, <3>5
  <2> QED BY <2>1, <2>2
<1> QED BY <1>6, <1>7, <1>8 DEF Ends

(* next_frame, from the parser that has read the bytes h.                  *)
Stage(p, h, bytes, k) ==
    /\ p \in Parsers /\ p.used <= k
    /\ p.out = Nothing => p.used = k
    /\ Follows(p, h \o SubSeq(bytes, 1, p.used))
    /\ \A f \in Frames :
        p.used > 0 /\ Fits(f) /\ Ends(Encode(f), h \o SubSeq(bytes, 1, p.used))
        => p.out = f

LEMMA NextStage ==
    ASSUME NEW h \in Seq(Byte), NEW bytes \in Seq(Byte), NEW k \in Nat, k + 1 <= Len(bytes),
           NEW p, Stage(p, h, bytes, k)
    PROVE  Stage(AfterByte(p, bytes[k + 1]), h, bytes, k + 1)
<1>1. p \in Parsers /\ p.used \in Nat /\ p.used <= k
  BY DEF Stage, Parsers
<1>2. CASE p.out # Nothing
  <2>1. AfterByte(p, bytes[k + 1]) = p
    BY <1>2 DEF AfterByte
  <2>2. p.used <= k + 1
    BY <1>1
  <2> QED BY <1>2, <2>1, <2>2 DEF Stage
<1>3. CASE p.out = Nothing
  <2>1. p.used = k
    BY <1>3 DEF Stage
  <2>2. PICK b, u, g : b = bytes[k + 1] /\ u = SubSeq(bytes, 1, k) /\ g = h \o u
    OBVIOUS
  <2>3. b \in Byte /\ u \in Seq(Byte) /\ Len(u) = k /\ \A i \in 1 .. k : u[i] = bytes[i]
    BY <2>2
  <2>4. g \in Seq(Byte) /\ Follows(p, g)
    BY <2>1, <2>2, <2>3 DEF Stage
  <2>5. PICK r, m, q : r = ParseByte(p, b) /\ m = k + 1 /\ q = [r EXCEPT !.used = m]
    OBVIOUS
  <2>6. r \in Parsers /\ r.used = p.used
    BY <1>1, <2>3, <2>5, ByteIsTyped
  <2>7. /\ q \in Parsers /\ q.used = k + 1 /\ q.out = r.out
        /\ q.state = r.state /\ q.escaping = r.escaping /\ q.frame = r.frame
    <3>1. m \in Nat
      BY <2>5
    <3>2. /\ q \in Parsers /\ q.used = m /\ q.out = r.out
          /\ q.state = r.state /\ q.escaping = r.escaping /\ q.frame = r.frame
      BY <2>5, <2>6, <3>1 DEF Parsers
    <3> QED BY <2>5, <3>2
  <2>8. AfterByte(p, bytes[k + 1]) = q
    <3>1. r.used + 1 = m
      BY <2>1, <2>5, <2>6
    <3>2. AfterByte(p, b) = [r EXCEPT !.used = r.used + 1]
      BY <1>3, <2>5 DEF AfterByte
    <3> QED BY <2>2, <2>5, <3>1, <3>2
  <2>9. h \o SubSeq(bytes, 1, k + 1) = Append(g, b)
    <3>1. SubSeq(bytes, 1, k + 1) = Append(u, b)
      <4>1. SubSeq(bytes, 1, k + 1) = [i \in 1 .. k + 1 |-> bytes[i]]
        OBVIOUS
      <4>2. Append(u, b) = [i \in 1 .. k + 1 |-> bytes[i]]
        BY <2>2, <2>3
      <4> QED BY <4>1, <4>2
    <3>2. h \o Append(u, b) = Append(h \o u, b)
      BY <2>3
    <3> QED BY <2>2, <3>1, <3>2
  <2>10. /\ Follows(r, Append(g, b))
         /\ \A f \in Frames : Fits(f) /\ Ends(Encode(f), Append(g, b)) => r.out = f
    BY <1>1, <2>3, <2>4, <2>5, ByteRead
  <2>11. Follows(q, Append(g, b))
    BY <2>7, <2>10, FollowsAlike
  <2>12. k + 1 <= k + 1
    OBVIOUS
  <2> QED BY <2>7, <2>8, <2>9, <2>10, <2>11, <2>12 DEF Stage
<1> QED BY <1>2, <1>3

LEMMA FrameReadOn ==
    ASSUME Parser \in Parsers, NEW h \in Seq(Byte), Follows(Parser, h),
           NEW bytes \in Seq(Byte)
    PROVE  Stage(NextFrame(bytes), h, bytes, Len(bytes))
<1>0. PICK start : start = Parser
  OBVIOUS
<1>14. start \in Parsers /\ Follows(start, h)
  BY <1>0
<1> DEFINE n == Len(bytes)
           step == [x \in (1 .. n) \X Parsers |-> AfterByte(x[2], bytes[x[1]])]
           rhs(f) == [k \in 0 .. n |->
                        IF k = 0 THEN start ELSE AfterByte(f[k - 1], bytes[k])]
<1>1. n \in Nat /\ \A k \in 1 .. n : bytes[k] \in Byte
  OBVIOUS
<1>2. ASSUME NEW k \in 1 .. n, NEW p \in Parsers
      PROVE  AfterByte(p, bytes[k]) \in Parsers
  <2>1. PICK r : r = ParseByte(p, bytes[k])
    OBVIOUS
  <2>2. r \in Parsers
    BY <1>1, <2>1, ByteIsTyped
  <2>3. r.used + 1 \in Nat
    BY <2>2 DEF Parsers
  <2>4. [r EXCEPT !.used = r.used + 1] \in Parsers
    BY <2>2, <2>3 DEF Parsers
  <2> QED BY <2>1, <2>4 DEF AfterByte
<1>3. step \in [(1 .. n) \X Parsers -> Parsers]
  BY <1>2
<1>4. \A k \in 1 .. n, p \in Parsers : step[<<k, p>>] = AfterByte(p, bytes[k])
  OBVIOUS
<1> HIDE DEF step
<1>5. PICK g : Iterates(g, Parsers, n, start, step)
  BY <1>1, <1>3, <1>14, Iteration
<1>6. g = rhs(g)
  <2>1. g \in [0 .. n -> Parsers] /\ g[0] = start
    BY <1>5 DEF Iterates
  <2>2. ASSUME NEW k \in 0 .. n, k # 0
        PROVE  g[k] = AfterByte(g[k - 1], bytes[k])
    <3>1. k \in 1 .. n /\ k - 1 \in 0 .. n
      BY <1>1, <2>2
    <3>2. g[k - 1] \in Parsers
      BY <2>1, <3>1
    <3>3. g[k] = step[<<k, g[k - 1]>>]
      BY <1>5, <3>1 DEF Iterates
    <3> QED BY <1>4, <3>1, <3>2, <3>3
  <2>3. \A k \in 0 .. n : g[k] = IF k = 0 THEN start ELSE AfterByte(g[k - 1], bytes[k])
    BY <2>1, <2>2
  <2>4. g = [k \in 0 .. n |-> g[k]]
    BY <2>1
  <2> QED BY <2>3, <2>4
<1>7. PICK q : q = CHOOSE f : f = rhs(f)
  OBVIOUS
<1>8. q = rhs(q)
  BY <1>6, <1>7
<1>9. NextFrame(bytes) = q[n]
  BY <1>0, <1>7 DEF NextFrame
<1>10. q[0] = start /\ \A k \in 1 .. n : q[k] = AfterByte(q[k - 1], bytes[k])
  <2>1. 0 \in 0 .. n /\ \A k \in 1 .. n : k \in 0 .. n /\ k # 0
    BY <1>1
  <2>2. \A k \in 0 .. n : q[k] = IF k = 0 THEN start ELSE AfterByte(q[k - 1], bytes[k])
    BY <1>8
  <2> HIDE DEF rhs, n
  <2> QED BY <2>1, <2>2
<1> HIDE DEF rhs
<1> DEFINE S == {k \in Nat : k <= n => Stage(q[k], h, bytes, k)}
<1>11. 0 \in S
  <2>1. start.used = 0
    BY <1>0 DEF Parser
  <2>2. h \o SubSeq(bytes, 1, 0) = h
    OBVIOUS
  <2>3. h \o SubSeq(bytes, 1, start.used) = h /\ start.used <= 0 /\ ~ (start.used > 0)
    BY <2>1, <2>2
  <2>4. Stage(start, h, bytes, 0)
    BY <1>14, <2>1, <2>3 DEF Stage
  <2> QED BY <1>10, <2>4
<1>12. ASSUME NEW k \in Nat, k \in S PROVE k + 1 \in S
  <2> SUFFICES ASSUME k + 1 <= n PROVE Stage(q[k + 1], h, bytes, k + 1)
    BY <1>1
  <2>1. Stage(q[k], h, bytes, k) /\ k + 1 \in 1 .. n /\ (k + 1) - 1 = k
    BY <1>1, <1>12
  <2>2. q[k + 1] = AfterByte(q[k], bytes[k + 1])
    BY <1>10, <2>1
  <2>3. PICK p : p = q[k]
    OBVIOUS
  <2>4. Stage(AfterByte(p, bytes[k + 1]), h, bytes, k + 1)
    BY <2>1, <2>3, NextStage
  <2> QED BY <2>2, <2>3, <2>4
<1> HIDE DEF S
<1>13. n \in S
  BY <1>1, <1>11, <1>12, Induction
<1> QED BY <1>1, <1>9, <1>13 DEF S

-----------------------------------------------------------------------------
(* The buffers keep their bounds, and the parser is where the bytes that   *)
(* it has parsed put it.                                                   *)
ParserInv == TypeOK /\ parsed \in Seq(Byte) /\ Follows(Parser, parsed)

LEMMA ParserTyped ==
    ASSUME state \in {"WaitingForSof", "Receiving"}, escaping \in BOOLEAN,
           frame \in Seq(Byte), Len(frame) <= FrameCap
    PROVE  Parser \in Parsers
<1>1. Nothing \in Results
  BY DEF Results
<1> QED BY <1>1 DEF Parser, Parsers

LEMMA RestOf ==
    ASSUME NEW T, NEW s \in Seq(T), NEW u \in Nat, NEW m, m = Len(s), u <= m
    PROVE  SubSeq(s, u + 1, m) \in Seq(T) /\ Len(SubSeq(s, u + 1, m)) = m - u
<1>1. m \in Nat /\ m - u \in Nat
  OBVIOUS
<1>2. \A i \in 1 .. m - u : u + i \in 1 .. m
  BY <1>1
<1>3. \A i \in 1 .. m - u : s[u + i] \in T
  BY <1>1, <1>2
<1>4. SubSeq(s, u + 1, m) = [i \in 1 .. m - u |-> s[u + i]]
  <2>1. SubSeq(s, u + 1, m) = [i \in 1 .. (1 + m - (u + 1)) |-> s[i + (u + 1) - 1]]
    BY <1>1
  <2>2. 1 + m - (u + 1) = m - u /\ \A i \in 1 .. m - u : i + (u + 1) - 1 = u + i
    BY <1>1
  <2> QED BY <2>1, <2>2
<1> QED BY <1>1, <1>3, <1>4

LEMMA ParserStart == Init => ParserInv
<1> SUFFICES ASSUME Init PROVE ParserInv
  OBVIOUS
<1>1. <<>> \in Seq(Byte) /\ Len(<<>>) = 0
  OBVIOUS
<1>2. RxCap \in Nat /\ FrameCap \in Nat /\ wire \in Seq(Byte)
  BY ParserAssumption DEF Init
<1>3. TypeOK
  <2>1. /\ rx = <<>> /\ state = "WaitingForSof" /\ escaping = FALSE /\ frame = <<>>
        /\ 0 <= RxCap /\ 0 <= FrameCap
    BY <1>2 DEF Init
  <2>2. rx \in Seq(Byte) /\ Len(rx) = 0 /\ frame \in Seq(Byte) /\ Len(frame) = 0
    BY <1>1, <2>1
  <2> QED BY <1>2, <2>1, <2>2 DEF TypeOK
<1>4. PICK p : p = Parser
  OBVIOUS
<1>5. Follows(p, <<>>)
  BY NothingFollows
<1> QED BY <1>1, <1>3, <1>4, <1>5 DEF Init, ParserInv

(* A call of read_tick: a chunk that fits is parsed to the first result.   *)
LEMMA ReadTickFollows ==
    ASSUME ParserInv, NEW n \in 1 .. MaxChunk, ReadTick(n)
    PROVE  /\ ParserInv'
           /\ \A f \in Frames :
                parsed' # parsed /\ Fits(f) /\ Ends(Encode(f), parsed') => result' = f
<1>1. PICK w, b : w = SubSeq(wire, 1, n) /\ b = rx \o w
  OBVIOUS
<1>2. /\ wire \in Seq(Byte) /\ rx \in Seq(Byte) /\ parsed \in Seq(Byte) /\ Len(wire) \in Nat
      /\ n \in 1 .. Len(wire) /\ n \in Nat
  BY ParserAssumption DEF ParserInv, TypeOK, ReadTick
<1>3. w \in Seq(Byte) /\ b \in Seq(Byte) /\ Len(b) \in Nat
  <2>1. w \in Seq(Byte)
    BY <1>1, <1>2
  <2> QED BY <1>1, <1>2, <2>1
<1>4. wire' \in Seq(Byte)
  BY <1>2 DEF ReadTick
<1>5. CASE Len(b) > RxCap
  <2>1. UNCHANGED <<rx, state, escaping, frame, parsed>>
    BY <1>1, <1>5 DEF ReadTick
  <2>2. TypeOK'
    BY <1>4, <2>1 DEF ParserInv, TypeOK
  <2>3. Parser' = Parser
    BY <2>1 DEF Parser
  <2>4. Follows(Parser, parsed)'
    <3>1. PICK p, h : p = Parser /\ h = parsed
      OBVIOUS
    <3>2. Follows(p, h)
      BY <3>1 DEF ParserInv
    <3>3. p = Parser' /\ h = parsed'
      BY <2>1, <2>3, <3>1
    <3> QED BY <3>2, <3>3
  <2> QED BY <1>2, <2>1, <2>2, <2>4 DEF ParserInv
<1>6. CASE ~ (Len(b) > RxCap)
  <2>1. PICK p, h : p = NextFrame(b) /\ h = parsed
    OBVIOUS
  <2>2. /\ rx' = SubSeq(b, p.used + 1, Len(b)) /\ state' = p.state
        /\ escaping' = p.escaping /\ frame' = p.frame /\ result' = p.out
        /\ parsed' = h \o SubSeq(b, 1, p.used)
    BY <1>1, <1>6, <2>1 DEF ReadTick
  <2>3. Parser \in Parsers
    BY ParserTyped DEF ParserInv, TypeOK
  <2>4. Stage(p, h, b, Len(b))
    BY <1>2, <1>3, <2>1, <2>3, FrameReadOn DEF ParserInv
  <2>5. /\ p \in Parsers /\ p.used \in Nat /\ p.used <= Len(b)
        /\ p.state \in {"WaitingForSof", "Receiving"} /\ p.escaping \in BOOLEAN
        /\ p.frame \in Seq(Byte) /\ Len(p.frame) <= FrameCap
    BY <2>4 DEF Stage, Parsers
  <2>6. rx' \in Seq(Byte) /\ Len(rx') <= RxCap
    <3>1. PICK u, m : u = p.used /\ m = Len(b)
      OBVIOUS
    <3>2. u \in Nat /\ m \in Nat /\ u <= m /\ RxCap \in Nat /\ m <= RxCap
      BY <1>3, <1>6, <2>5, <3>1, ParserAssumption
    <3>3. SubSeq(b, u + 1, m) \in Seq(Byte) /\ Len(SubSeq(b, u + 1, m)) = m - u
      BY <1>3, <3>1, <3>2, RestOf
    <3>4. m - u <= RxCap
      BY <3>2
    <3> QED BY <2>2, <3>1, <3>3, <3>4
  <2>7. TypeOK'
    BY <1>4, <2>2, <2>5, <2>6 DEF TypeOK
  <2>8. parsed' \in Seq(Byte)
    <3>1. SubSeq(b, 1, p.used) \in Seq(Byte) /\ h \in Seq(Byte)
      BY <1>2, <1>3, <2>1, <2>5
    <3> QED BY <2>2, <3>1
  <2>9. Follows(Parser, parsed)'
    <3>1. PICK q, g : q = Parser' /\ g = parsed'
      OBVIOUS
    <3>2. q.state = p.state /\ q.escaping = p.escaping /\ q.frame = p.frame
      BY <2>2, <3>1 DEF Parser
    <3>3. Follows(p, g)
      BY <2>2, <2>4, <3>1 DEF Stage
    <3>4. Follows(q, g)
      BY <3>2, <3>3, FollowsAlike
    <3> QED BY <3>1, <3>4
  <2>10. ASSUME NEW f \in Frames, parsed' # parsed, Fits(f), Ends(Encode(f), parsed')
         PROVE  result' = f
    <3>1. p.used > 0
      <4> SUFFICES ASSUME p.used = 0 PROVE FALSE
        BY <2>5
      <4>1. h \o SubSeq(b, 1, 0) = h
        BY <1>2, <1>3, <2>1
      <4> QED BY <2>1, <2>2, <2>10, <4>1
    <3> QED BY <2>2, <2>4, <2>10, <3>1 DEF Stage
  <2> QED BY <2>7, <2>8, <2>9, <2>10 DEF ParserInv
<1> QED BY <1>5, <1>6

THEOREM ParserInvariant == Spec => []ParserInv
<1>1. ParserInv /\ [Next]_vars => ParserInv'
  <2> SUFFICES ASSUME ParserInv, [Next]_vars PROVE ParserInv'
    OBVIOUS
  <2>1. CASE Next
    BY <2>1, ReadTickFollows DEF Next
  <2>2. CASE UNCHANGED vars
    BY <2>2 DEF vars, ParserInv, TypeOK, Follows, Parser, Reading
  <2> QED BY <2>1, <2>2
<1> QED BY <1>1, ParserStart, PTL DEF Spec

(* Neither buffer ever holds more than it has room for.                    *)
THEOREM BuffersHold == Spec => []TypeOK
<1>1. ParserInv => TypeOK
  BY DEF ParserInv
<1> QED BY <1>1, ParserInvariant, PTL

LEMMA EncodeTyped ==
    ASSUME NEW f \in Frame
    PROVE  Encode(f) \in Seq(Symbol(f))
<1>1. PICK w : Spells(w, f)
  BY Spelling
<1>2. PICK c, n, T : c = Content(f) /\ n = Len(c) /\ T = Symbol(f)
  OBVIOUS
<1>3. n \in Nat
  BY <1>2, ContentOfFrame
<1>4. w[n] \in Seq(T) /\ Encode(f) = Append(w[n], EOF)
  BY <1>1, <1>2, <1>3 DEF Spells
<1>5. EOF \in T
  BY <1>2 DEF Symbol, EOF, Byte
<1> QED BY <1>2, <1>4, <1>5

(* Whatever came before it and however it was cut into chunks, a frame     *)
(* that fits into the buffer is handed over, as it was sent, with its last *)
(* byte.                                                                   *)
THEOREM FramesAreRead == Spec => IntactFrameRead
<1>1. ParserInv /\ [Next]_vars =>
        [\A f \in Frames :
            /\ parsed' # parsed /\ Fits(f)
            /\ IsSuffix(Encode(f), parsed')
            => result' = f]_vars
  <2> SUFFICES ASSUME ParserInv, Next, NEW f \in Frames, parsed' # parsed, Fits(f),
                      IsSuffix(Encode(f), parsed')
               PROVE  result' = f
    OBVIOUS
  <2>1. PICK n \in 1 .. MaxChunk : ReadTick(n)
    BY DEF Next
  <2>2. parsed' \in Seq(Byte)
    BY <2>1, ReadTickFollows DEF ParserInv
  <2>3. Encode(f) \in Seq(Symbol(f))
    BY EncodeTyped, ParserAssumption
  <2>4. PICK s, h : s = Encode(f) /\ h = parsed'
    OBVIOUS
  <2>5. s \in Seq(Symbol(f)) /\ h \in Seq(Byte) /\ IsSuffix(s, h)
    BY <2>2, <2>3, <2>4
  <2>6. Ends(s, h)
    BY <2>5, SuffixEnds
  <2> QED BY <2>1, <2>4, <2>6, ReadTickFollows
<1> QED BY <1>1, ParserInvariant, PTL DEF Spec, IntactFrameRead
=============================================================================
