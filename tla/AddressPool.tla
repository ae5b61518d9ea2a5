---------------------------- MODULE AddressPool ----------------------------
(***************************************************************************)
(* What the address assignment of IMCP promises, without frames, channels  *)
(* or Acks: a hub offers addresses from a pool one at a time, devices take *)
(* what was offered to them, and the hub learns of it or gives the offer   *)
(* up.  Imcp implements it (Imcp!PoolSpec).                                *)
(***************************************************************************)
EXTENDS Integers

CONSTANTS
    Device,        \* the devices
    Boot,          \* a device joins with a fresh identifier at each boot
    First, Last,   \* the addresses of the pool
    None           \* no offer, no address

Identity   == Device \X Boot
Assignment == [id : Identity, address : First .. Last]

\* What the proofs ask of the parameters; ImcpProofs shows it of those of Imcp.
PoolParameters ==
    /\ First \in Nat /\ Last \in Nat /\ First <= Last
    /\ None \notin Assignment

VARIABLES
    next,          \* the address of the next offer
    offer,         \* the offer the hub waits for, or None
    offered,       \* every offer ever made
    forgotten,     \* addresses of offers that were given up
    held           \* what each device holds, or None

vars == <<next, offer, offered, forgotten, held>>

TypeOK ==
    /\ next \in First .. Last + 1
    /\ offer \in Assignment \cup {None}
    /\ offered \in SUBSET Assignment
    /\ forgotten \in SUBSET (First .. Last)
    /\ held \in [Device -> Assignment \cup {None}]

Init ==
    /\ next = First
    /\ offer = None
    /\ offered = {}
    /\ forgotten = {}
    /\ held = [d \in Device |-> None]

Offer(id) ==
    /\ offer = None
    /\ next <= Last
    /\ offer' = [id |-> id, address |-> next]
    /\ offered' = offered \cup {offer'}
    /\ UNCHANGED <<next, forgotten, held>>

(* The hub is told that the offer was taken - rightly or not.              *)
Confirm ==
    /\ offer # None
    /\ offer' = None
    /\ next' = next + 1
    /\ UNCHANGED <<offered, forgotten, held>>

(* The hub withdraws the offer: the same address will be offered again.    *)
GiveUp ==
    /\ offer # None
    /\ offer' = None
    /\ forgotten' = forgotten \cup {offer.address}
    /\ UNCHANGED <<next, offered, held>>

(* An offer can be taken late: when the hub gave it up long ago.           *)
Take(d, g) ==
    /\ held[d] = None
    /\ g.id[1] = d
    /\ held' = [held EXCEPT ![d] = g]
    /\ UNCHANGED <<next, offer, offered, forgotten>>

Leave(d) ==
    /\ held' = [held EXCEPT ![d] = None]
    /\ UNCHANGED <<next, offer, offered, forgotten>>

(* The hub restarts and knows nothing of the offers it made.               *)
Forget ==
    /\ next' = First
    /\ offer' = None
    /\ forgotten' = {g.address : g \in offered}
    /\ UNCHANGED <<offered, held>>

Next ==
    \/ \E id \in Identity : Offer(id)
    \/ Confirm
    \/ GiveUp
    \/ \E d \in Device : \/ \E g \in offered : Take(d, g)
                         \/ Leave(d)
    \/ Forget

Spec == Init /\ [][Next]_vars

-----------------------------------------------------------------------------
(* Two devices hold one address only if an offer of it was given up.       *)
Unique ==
    \A c, d \in Device :
        /\ c # d /\ held[c] # None /\ held[d] # None
        /\ held[c].address = held[d].address
        => held[c].address \in forgotten

(* Why: an address below next or pending was offered to one identifier,    *)
(* except a forgotten one, and devices hold what was offered to them.      *)
OfferedOnce ==
    \A g, h \in offered :
        g.address = h.address /\ g.id # h.id => g.address \in forgotten

OfferedBelow ==
    \A g \in offered :
        g.address < next \/ g = offer \/ g.address \in forgotten

HeldWasOffered ==
    \A d \in Device : held[d] # None => held[d] \in offered /\ held[d].id[1] = d

OfferIsNext ==
    offer # None => offer.address = next /\ offer \in offered

PoolInv == TypeOK /\ OfferedOnce /\ OfferedBelow /\ HeldWasOffered /\ OfferIsNext
=============================================================================
