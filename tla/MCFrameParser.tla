--------------------------- MODULE MCFrameParser ---------------------------
(* What comes over the wire: garbage - a torn or damaged frame, or a stray *)
(* byte - twice, and then a frame; or frames back to back.                 *)
EXTENDS FrameParser

Ping(to, from) == [to |-> to, from |-> from, type |-> "Ping", payload |-> <<>>]

(* All special bytes occur, as addresses, payload and checksum.            *)
Sent == {
    Ping(1, 2),
    [to |-> 254, from |-> 1, type |-> "Ack", payload |-> <<253>>],
    [to |-> 255, from |-> 253, type |-> "Set", payload |-> <<255>>],
    [to |-> 1, from |-> 2, type |-> "Set", payload |-> <<1, 2, 3>>]}

Whole   == {Encode(f) : f \in Sent}
Torn    == UNION {{SubSeq(e, 1, k) : k \in 2 .. Len(e) - 1} : e \in Whole}
Damaged == UNION {{ReplaceAt(e, k, b) : k \in 2 .. Len(e), b \in Special \cup {7}} :
                  e \in {Encode(Ping(1, 2))}}
Stray   == {<<b>> : b \in Special \cup {7}}

MCStreams ==
    {x \o y \o z : x \in Torn \cup Damaged \cup Stray \cup Whole,
                   y \in Stray \cup Whole, z \in Whole}
=============================================================================
