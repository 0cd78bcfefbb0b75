---------------------------------- MODULE Ids ----------------------------------
(***************************************************************************)
(* market_core/ids.py: ULIDs that several services mint without asking     *)
(* anyone.  Each reads its host's clock, which may be off by up to SKEW    *)
(* and may step back within that.  A character is its index in _ALPHABET,  *)
(* whose characters ascend in ASCII, so ids compare as their indices.      *)
(* Suffixed names, like Encode_LowFirst, are wrong variants a property     *)
(* must tell apart.                                                        *)
(***************************************************************************)
EXTENDS Integers, Sequences, FiniteSets

CONSTANTS
    BASE, TIMESTAMP_CHARS, RANDOM_CHARS,    \* 32, 10 and 16
    TICKS,                                  \* of the clock in a millisecond
    SKEW,                                   \* in ticks
    MaxTime, MaxIds                         \* bounds of the model

ASSUME IdConstants ==
    /\ {BASE, TIMESTAMP_CHARS, RANDOM_CHARS, TICKS} \subseteq Nat \ {0}
    /\ {SKEW, MaxTime} \subseteq Nat
    /\ (MaxTime + SKEW) \div TICKS < BASE ^ TIMESTAMP_CHARS

(* what a proof needs to know of ^ *)
ASSUME PowersOfBase ==
    /\ BASE ^ 0 = 1
    /\ \A j, k \in 0..(TIMESTAMP_CHARS + RANDOM_CHARS) :
         BASE ^ j \in Nat \ {0} /\ BASE ^ (j + k) = BASE ^ j * BASE ^ k
    /\ BASE ^ 1 = BASE

VARIABLES
    time,       \* true time, in ticks
    minted      \* the ids so far: when, from what, and the characters

vars == <<time, minted>>

Encode_LowFirst(value, length) == [i \in 1..length |-> (value \div BASE ^ (i - 1)) % BASE]

(* digits by repeated divmod, reversed: fixed width, the highest first *)
Encode(value, length) == [i \in 1..length |-> (value \div BASE ^ (length - i)) % BASE]

MakeUlid_ShortEntropy(now, entropy) ==
    Encode(now \div TICKS, TIMESTAMP_CHARS) \o Encode(entropy, RANDOM_CHARS - 1)

(* the instant is cut to a millisecond; the float product does not blur it at *)
(* dates of this century                                                      *)
MakeUlid(now, entropy) ==
    Encode(now \div TICKS, TIMESTAMP_CHARS) \o Encode(entropy, RANDOM_CHARS)

Minted ==
    [created : 0..MaxTime, ms : Nat, entropy : 0..(BASE ^ RANDOM_CHARS - 1),
     id : [1..(TIMESTAMP_CHARS + RANDOM_CHARS) -> 0..(BASE - 1)]]

TypeOK == time \in 0..MaxTime /\ minted \subseteq Minted

-----------------------------------------------------------------------------
Init == time = 0 /\ minted = {}

TimePasses ==
    /\ time < MaxTime
    /\ time' = time + 1
    /\ UNCHANGED minted

(* a service whose clock shows now mints an id *)
Mint(now, entropy) ==
    /\ Cardinality(minted) < MaxIds
    /\ minted' = minted \cup {[created |-> time, ms |-> now \div TICKS, entropy |-> entropy,
                               id |-> MakeUlid(now, entropy)]}
    /\ UNCHANGED time

ClockMayShow(now) == now >= 0 /\ time - SKEW <= now /\ now <= time + SKEW

Next ==
    \/ TimePasses
    \/ \E now \in (time - SKEW)..(time + SKEW), entropy \in 0..(BASE ^ RANDOM_CHARS - 1) :
         ClockMayShow(now) /\ Mint(now, entropy)

Spec == Init /\ [][Next]_vars

-----------------------------------------------------------------------------
(* Properties *)

(* how a directory listing sorts two ids *)
Before(id, other) ==
    \E i \in DOMAIN id : id[i] < other[i] /\ \A j \in 1..(i - 1) : id[j] = other[j]

(* A listing is chronological as far as the clocks are: of two ids minted     *)
(* further apart than the clocks can disagree and one millisecond more, by    *)
(* whichever services, the earlier sorts first.  Nothing is promised closer   *)
(* together, and not even one service's ids sort within a millisecond.        *)
SortsUpToSkew ==
    \A m, n \in minted : n.created - m.created >= 2 * SKEW + TICKS => Before(m.id, n.id)

(* Ids collide only when both their millisecond and all of their entropy do:  *)
(* no digit of either is lost or shared in the encoding.                      *)
CollideOnlyByChance ==
    \A m, n \in minted : m.id = n.id => m.ms = n.ms /\ m.entropy = n.entropy
=============================================================================
