------------------------------- MODULE IdsProofs -------------------------------
(***************************************************************************)
(* Identifiers sort by time up to the clocks, and collide only by chance,  *)
(* for every base, width, clock resolution and skew, and any number of     *)
(* services: the digits of two numbers first differ where their quotients  *)
(* by a power of the base do.                                              *)
(***************************************************************************)
EXTENDS Ids, SequenceTheorems, WellFoundedInduction, TLAPS

(* divmod: the quotient and the remainder determine each other.              *)
LEMMA DivMod ==
    ASSUME NEW a \in Int, NEW s \in Nat \ {0}
    PROVE  /\ a \div s \in Int /\ a % s \in 0..(s - 1)
           /\ a = s * (a \div s) + (a % s)
<1>1. a \div s \in Int /\ a % s \in 0..(s - 1)
  OBVIOUS
<1>2. a = s * (a \div s) + (a % s)
  OBVIOUS
<1> QED
  BY <1>1, <1>2

LEMMA TimesLess ==
    ASSUME NEW a \in Int, NEW b \in Int, NEW s \in Nat \ {0}, s * a < s * b
    PROVE  a < b
<1>1. a >= b => s * a >= s * b
  OBVIOUS
<1> QED
  BY <1>1

(* The quotient is the only number that leaves a remainder.                  *)
LEMMA DivUnique ==
    ASSUME NEW a \in Int, NEW s \in Nat \ {0}, NEW q \in Int, NEW r \in 0..(s - 1),
           a = s * q + r
    PROVE  a \div s = q
<1> DEFINE d == a \div s
<1>1. d \in Int /\ a % s \in 0..(s - 1) /\ a = s * d + (a % s)
  BY DivMod
<1> HIDE DEF d
<1>2. s * d < s * (q + 1) /\ s * q < s * (d + 1)
  <2>1. s * (q + 1) = s * q + s /\ s * (d + 1) = s * d + s
    BY <1>1
  <2>2. s * q \in Int /\ s * d \in Int
    BY <1>1
  <2> QED
    BY <1>1, <2>1, <2>2
<1>3. d < q + 1 /\ q < d + 1
  BY <1>1, <1>2, TimesLess
<1>4. d = q
  BY <1>1, <1>3
<1> QED
  BY <1>4 DEF d

LEMMA DivMonotone ==
    ASSUME NEW a \in Int, NEW b \in Int, NEW s \in Nat \ {0}, a <= b
    PROVE  a \div s <= b \div s
<1> DEFINE c == a \div s
           d == b \div s
<1>1. /\ c \in Int /\ a % s \in 0..(s - 1) /\ a = s * c + (a % s)
      /\ d \in Int /\ b % s \in 0..(s - 1) /\ b = s * d + (b % s)
  BY DivMod
<1> HIDE DEF c, d
<1>2. s * c < s * (d + 1)
  <2>1. s * (d + 1) = s * d + s /\ s * d \in Int /\ s * c \in Int
    BY <1>1
  <2> QED
    BY <1>1, <2>1
<1>3. c < d + 1
  BY <1>1, <1>2, TimesLess
<1>4. c <= d
  BY <1>1, <1>3
<1> QED
  BY <1>4 DEF c, d

(* Dividing twice is dividing by the product.                                *)
LEMMA DivDiv ==
    ASSUME NEW a \in Int, NEW s \in Nat \ {0}, NEW t \in Nat \ {0}
    PROVE  a \div (s * t) = (a \div s) \div t
<1> DEFINE c == a \div s
           d == c \div t
           r == a % s
           u == c % t
<1>1. c \in Int /\ r \in 0..(s - 1) /\ a = s * c + r
  BY DivMod
<1>2. d \in Int /\ u \in 0..(t - 1) /\ c = t * d + u
  BY <1>1, DivMod
<1> HIDE DEF c, d, r, u
<1>3. s * t \in Nat \ {0}
  OBVIOUS
<1>4. a = (s * t) * d + (s * u + r)
  <2>1. s * c = s * (t * d + u)
    BY <1>2
  <2>2. s * (t * d + u) = (s * t) * d + s * u
    BY <1>2
  <2> QED
    BY <1>1, <1>2, <2>1, <2>2
<1>5. s * u + r \in 0..(s * t - 1)
  <2>1. u \in Int /\ 0 <= u /\ u + 1 <= t
    BY <1>2
  <2>2. s * (u + 1) <= s * t /\ 0 <= s * u
    BY <2>1
  <2>3. s * (u + 1) = s * u + s /\ s * u \in Int
    BY <2>1
  <2> QED
    BY <1>1, <1>3, <2>2, <2>3
<1>6. a \div (s * t) = d
  BY <1>2, <1>3, <1>4, <1>5, DivUnique
<1> QED
  BY <1>6 DEF c, d

LEMMA DivNext ==
    ASSUME NEW a \in Int, NEW s \in Nat \ {0}
    PROVE  (a + s) \div s = a \div s + 1
<1> DEFINE c == a \div s
           r == a % s
<1>1. c \in Int /\ r \in 0..(s - 1) /\ a = s * c + r
  BY DivMod
<1> HIDE DEF c, r
<1>2. a + s = s * (c + 1) + r
  <2>1. s * (c + 1) = s * c + s /\ s * c \in Int
    BY <1>1
  <2> QED
    BY <1>1, <2>1
<1>3. a + s \in Int /\ c + 1 \in Int
  BY <1>1
<1>4. (a + s) \div s = c + 1
  BY <1>1, <1>2, <1>3, DivUnique
<1> QED
  BY <1>4 DEF c

(* A set of numbers has a smallest one.                                      *)
LEMMA SmallestMember ==
    ASSUME NEW T, T \subseteq Nat, T # {}
    PROVE  \E x \in T : \A y \in T : x <= y
<1>1. PICK x \in T : \A y \in T : ~ (<<y, x>> \in OpToRel(<, Nat))
  BY NatLessThanWellFounded, WFMin
<1>2. ASSUME NEW y \in T PROVE x <= y
  <2>1. <<y, x>> \in Nat \X Nat /\ ~ (<<y, x>> \in OpToRel(<, Nat))
    BY <1>1
  <2>2. ~ (y < x)
    BY <2>1 DEF OpToRel
  <2>3. x \in Nat /\ y \in Nat
    OBVIOUS
  <2> QED
    BY <2>2, <2>3
<1> QED
  BY <1>2

Widths == 1..(TIMESTAMP_CHARS + RANDOM_CHARS)

LEMMA Powers ==
    ASSUME NEW length \in Widths
    PROVE  /\ length \in Nat /\ BASE \in Nat \ {0}
           /\ BASE ^ 0 = 1
           /\ \A k \in 0..length : BASE ^ k \in Nat \ {0}
           /\ \A k \in 0..length : \A e \in k..length : BASE ^ e = BASE ^ k * BASE ^ (e - k)
           /\ \A k \in 1..length : BASE ^ k = BASE ^ (k - 1) * BASE
<1>1. /\ {TIMESTAMP_CHARS, RANDOM_CHARS, BASE} \subseteq Nat \ {0}
      /\ length \in Nat /\ length <= TIMESTAMP_CHARS + RANDOM_CHARS
  BY IdConstants DEF Widths
<1>2. \A k \in 0..length : BASE ^ k \in Nat \ {0}
  BY <1>1, PowersOfBase
<1>3. ASSUME NEW k \in 0..length, NEW e \in k..length
      PROVE  BASE ^ e = BASE ^ k * BASE ^ (e - k)
  <2>1. /\ k \in 0..(TIMESTAMP_CHARS + RANDOM_CHARS)
        /\ e - k \in 0..(TIMESTAMP_CHARS + RANDOM_CHARS)
        /\ k + (e - k) = e
    BY <1>1
  <2>2. BASE ^ (k + (e - k)) = BASE ^ k * BASE ^ (e - k)
    BY <2>1, PowersOfBase
  <2> QED
    BY <2>1, <2>2
<1>4. ASSUME NEW k \in 1..length PROVE BASE ^ k = BASE ^ (k - 1) * BASE
  <2>1. k - 1 \in 0..length /\ k \in (k - 1)..length /\ k - (k - 1) = 1
    BY <1>1
  <2>2. BASE ^ k = BASE ^ (k - 1) * BASE ^ (k - (k - 1))
    BY <1>3, <2>1
  <2> QED
    BY <2>1, <2>2, PowersOfBase
<1> QED
  BY <1>1, <1>2, <1>3, <1>4, PowersOfBase

LEMMA EncodeType ==
    ASSUME NEW value \in Nat, NEW length \in Widths
    PROVE  Encode(value, length) \in [1..length -> 0..(BASE - 1)]
<1>1. ASSUME NEW i \in 1..length
      PROVE  (value \div BASE ^ (length - i)) % BASE \in 0..(BASE - 1)
  <2> DEFINE p == BASE ^ (length - i)
  <2>1. length - i \in 0..length
    BY Powers
  <2>2. p \in Nat \ {0} /\ BASE \in Nat \ {0} /\ value \in Int
    BY <2>1, Powers
  <2> HIDE DEF p
  <2>3. value \div p \in Int
    BY <2>2, DivMod
  <2>4. (value \div p) % BASE \in 0..(BASE - 1)
    BY <2>2, <2>3, DivMod
  <2> QED
    BY <2>4 DEF p
<1> QED
  BY <1>1 DEF Encode

(* Fixed-width digits, the highest first, compare as the numbers do.         *)
LEMMA EncodeOrder ==
    ASSUME NEW v \in Nat, NEW w \in Nat, NEW length \in Widths, v < w, w < BASE ^ length
    PROVE  Before(Encode(v, length), Encode(w, length))
<1> DEFINE T == {k \in 0..length : v \div BASE ^ k = w \div BASE ^ k}
<1>1. /\ length \in Nat /\ BASE \in Nat \ {0} /\ \A k \in 0..length : BASE ^ k \in Nat \ {0}
      /\ v \in Int /\ w \in Int /\ v <= w
  BY Powers
<1>2. length \in T
  <2> DEFINE p == BASE ^ length
  <2>1. p \in Nat \ {0} /\ length \in 0..length
    BY <1>1
  <2> HIDE DEF p
  <2>2. v = p * 0 + v /\ w = p * 0 + w /\ v \in 0..(p - 1) /\ w \in 0..(p - 1)
    BY <2>1 DEF p
  <2>3. v \div p = 0 /\ w \div p = 0
    BY <2>1, <2>2, DivUnique
  <2> QED
    BY <2>1, <2>3 DEF p
<1>3. PICK k \in T : \A y \in T : k <= y
  <2>1. T \subseteq Nat /\ T # {}
    BY <1>1, <1>2
  <2> HIDE DEF T
  <2> QED
    BY <2>1, SmallestMember
<1>4. k \in 0..length /\ v \div BASE ^ k = w \div BASE ^ k
  BY <1>3
<1>5. k # 0
  <2>1. v \div 1 = v /\ w \div 1 = w
    <3>1. v = 1 * v + 0 /\ w = 1 * w + 0 /\ 0 \in 0..(1 - 1)
      OBVIOUS
    <3> QED
      BY <3>1, DivUnique
  <2> QED
    BY <1>4, <2>1, Powers
<1> DEFINE p == BASE ^ (k - 1)
           a == v \div p
           b == w \div p
           i == length - k + 1
<1>6. /\ k \in 1..length /\ k - 1 \in 0..length /\ i \in 1..length /\ length - i = k - 1
      /\ \A j \in 1..(i - 1) : j \in 1..length /\ length - j \in k..length
  BY <1>1, <1>4, <1>5
<1>7. p \in Nat \ {0} /\ BASE ^ k = p * BASE
  BY <1>6, Powers
<1>8. a # b
  <2>1. k - 1 \notin T
    BY <1>3, <1>6
  <2> QED
    BY <1>6, <2>1
<1> HIDE DEF T, p
<1>9. a \in Int /\ b \in Int /\ a <= b
  <2>1. a \in Int /\ b \in Int
    BY <1>1, <1>7, DivMod
  <2>2. a <= b
    BY <1>1, <1>7, DivMonotone
  <2> QED
    BY <2>1, <2>2
<1>10. a \div BASE = b \div BASE
  <2>1. v \div (p * BASE) = a \div BASE /\ w \div (p * BASE) = b \div BASE
    BY <1>1, <1>7, DivDiv
  <2> QED
    BY <1>4, <1>7, <2>1
<1> HIDE DEF a, b
<1>11. a % BASE < b % BASE
  <2> DEFINE d == a \div BASE
             x == BASE * d
  <2>1. /\ d \in Int /\ a = x + (a % BASE) /\ b = x + (b % BASE)
        /\ a % BASE \in 0..(BASE - 1) /\ b % BASE \in 0..(BASE - 1)
    BY <1>1, <1>9, <1>10, DivMod
  <2>2. x \in Int
    BY <1>1, <2>1
  <2> HIDE DEF d, x
  <2> QED
    BY <1>8, <1>9, <2>1, <2>2, <1>1
<1>12. Encode(v, length)[i] = a % BASE /\ Encode(w, length)[i] = b % BASE
  BY <1>6 DEF Encode, a, b, p
<1>13. ASSUME NEW j \in 1..(i - 1) PROVE Encode(v, length)[j] = Encode(w, length)[j]
  <2> DEFINE e == length - j
             q == BASE ^ k
             s == BASE ^ (e - k)
  <2>1. j \in 1..length /\ e \in k..length /\ e - k \in 0..length
    BY <1>1, <1>6
  <2>2. q \in Nat \ {0} /\ s \in Nat \ {0} /\ BASE ^ e = q * s
    BY <1>4, <2>1, Powers
  <2> HIDE DEF q, s
  <2>3. v \div (q * s) = (v \div q) \div s /\ w \div (q * s) = (w \div q) \div s
    BY <1>1, <2>2, DivDiv
  <2>4. v \div BASE ^ e = w \div BASE ^ e
    BY <1>4, <2>2, <2>3 DEF q
  <2> QED
    BY <2>1, <2>4 DEF Encode
<1>14. DOMAIN Encode(v, length) = 1..length
  BY DEF Encode
<1> HIDE DEF i
<1> QED
  BY <1>6, <1>11, <1>12, <1>13, <1>14 DEF Before

(* So different numbers have different digits.                               *)
LEMMA EncodeInjective ==
    ASSUME NEW v \in Nat, NEW w \in Nat, NEW length \in Widths,
           v < BASE ^ length, w < BASE ^ length, Encode(v, length) = Encode(w, length)
    PROVE  v = w
<1>1. ASSUME NEW x \in Nat, NEW y \in Nat, x < y, y < BASE ^ length
      PROVE  Encode(x, length) # Encode(y, length)
  <2>1. PICK i \in DOMAIN Encode(x, length) : Encode(x, length)[i] < Encode(y, length)[i]
    BY <1>1, EncodeOrder DEF Before
  <2>2. Encode(x, length)[i] \in 0..(BASE - 1) /\ BASE \in Nat
    BY <2>1, EncodeType, Powers
  <2> QED
    BY <2>1, <2>2
<1>2. ~ (v < w) /\ ~ (w < v)
  BY <1>1
<1> QED
  BY <1>2

LEMMA SameFunction ==
    ASSUME NEW S, NEW T, NEW f \in [S -> T], NEW g \in [S -> T], \A x \in S : f[x] = g[x]
    PROVE  f = g
  OBVIOUS

-----------------------------------------------------------------------------
Digits == 0..(BASE - 1)

LEMMA ThisWide == TIMESTAMP_CHARS \in Widths /\ RANDOM_CHARS \in Widths
<1>1. TIMESTAMP_CHARS \in Nat \ {0} /\ RANDOM_CHARS \in Nat \ {0}
  BY IdConstants
<1> QED
  BY <1>1 DEF Widths

(* An id is the digits of its time and then those of its entropy.            *)
LEMMA IdDigits ==
    ASSUME NEW ms \in Nat, NEW entropy \in Nat
    PROVE  LET id == Encode(ms, TIMESTAMP_CHARS) \o Encode(entropy, RANDOM_CHARS)
           IN  /\ id \in [1..(TIMESTAMP_CHARS + RANDOM_CHARS) -> Digits]
               /\ \A i \in 1..TIMESTAMP_CHARS : id[i] = Encode(ms, TIMESTAMP_CHARS)[i]
               /\ \A i \in 1..RANDOM_CHARS :
                    id[TIMESTAMP_CHARS + i] = Encode(entropy, RANDOM_CHARS)[i]
<1> DEFINE head == Encode(ms, TIMESTAMP_CHARS)
           tail == Encode(entropy, RANDOM_CHARS)
<1>1. TIMESTAMP_CHARS \in Nat /\ RANDOM_CHARS \in Nat
  BY IdConstants
<1>2. head \in [1..TIMESTAMP_CHARS -> Digits] /\ tail \in [1..RANDOM_CHARS -> Digits]
  BY ThisWide, EncodeType DEF Digits
<1> HIDE DEF head, tail
<1>3. /\ head \in Seq(Digits) /\ Len(head) = TIMESTAMP_CHARS
      /\ tail \in Seq(Digits) /\ Len(tail) = RANDOM_CHARS
  BY <1>1, <1>2
<1>4. /\ head \o tail \in Seq(Digits)
      /\ Len(head \o tail) = TIMESTAMP_CHARS + RANDOM_CHARS
      /\ \A i \in 1..(TIMESTAMP_CHARS + RANDOM_CHARS) :
           (head \o tail)[i] = IF i <= TIMESTAMP_CHARS THEN head[i] ELSE tail[i - TIMESTAMP_CHARS]
  BY <1>3, ConcatProperties
<1>5. head \o tail \in [1..(TIMESTAMP_CHARS + RANDOM_CHARS) -> Digits]
  BY <1>4, LenProperties
<1>6. \A i \in 1..TIMESTAMP_CHARS : (head \o tail)[i] = head[i]
  BY <1>1, <1>4
<1>7. \A i \in 1..RANDOM_CHARS : (head \o tail)[TIMESTAMP_CHARS + i] = tail[i]
  <2> SUFFICES ASSUME NEW i \in 1..RANDOM_CHARS
               PROVE  (head \o tail)[TIMESTAMP_CHARS + i] = tail[i]
    OBVIOUS
  <2>1. /\ TIMESTAMP_CHARS + i \in 1..(TIMESTAMP_CHARS + RANDOM_CHARS)
        /\ ~ (TIMESTAMP_CHARS + i <= TIMESTAMP_CHARS)
        /\ (TIMESTAMP_CHARS + i) - TIMESTAMP_CHARS = i
    BY <1>1
  <2> QED
    BY <1>4, <2>1
<1> QED
  BY <1>5, <1>6, <1>7 DEF head, tail

(* Every id was made of a clock's reading near the true time.                *)
Stamped ==
    \A m \in minted :
        /\ m.id = Encode(m.ms, TIMESTAMP_CHARS) \o Encode(m.entropy, RANDOM_CHARS)
        /\ \E now \in Nat : /\ m.ms = now \div TICKS
                            /\ m.created - SKEW <= now /\ now <= m.created + SKEW

IInv == TypeOK /\ Stamped

LEMMA MintKeepsIInv ==
    ASSUME IInv, NEW now \in Int, NEW entropy \in 0..(BASE ^ RANDOM_CHARS - 1),
           ClockMayShow(now), Mint(now, entropy)
    PROVE  IInv'
<1> DEFINE ms == now \div TICKS
           id == Encode(ms, TIMESTAMP_CHARS) \o Encode(entropy, RANDOM_CHARS)
           m == [created |-> time, ms |-> ms, entropy |-> entropy, id |-> id]
<1>1. minted' = minted \cup {m} /\ time' = time
  BY DEF Mint, MakeUlid
<1>2. /\ now \in Nat /\ time - SKEW <= now /\ now <= time + SKEW
      /\ TICKS \in Nat \ {0} /\ time \in 0..MaxTime /\ entropy \in Nat
  BY IdConstants DEF ClockMayShow, IInv, TypeOK
<1>3. ms \in Nat
  <2>1. 0 = TICKS * 0 + 0 /\ 0 \in 0..(TICKS - 1) /\ 0 \in Int
    BY <1>2
  <2>2. 0 \div TICKS = 0
    BY <1>2, <2>1, DivUnique
  <2>3. 0 \div TICKS <= ms
    BY <1>2, <2>1, DivMonotone
  <2>4. ms \in Int
    BY <1>2, DivMod
  <2> QED
    BY <2>2, <2>3, <2>4
<1> HIDE DEF ms
<1>4. id \in [1..(TIMESTAMP_CHARS + RANDOM_CHARS) -> 0..(BASE - 1)]
  BY <1>2, <1>3, IdDigits DEF Digits
<1> HIDE DEF id
<1>5. m \in Minted
  BY <1>2, <1>3, <1>4 DEF Minted
<1>6. TypeOK'
  BY <1>1, <1>5 DEF IInv, TypeOK
<1>7. Stamped'
  <2> SUFFICES ASSUME NEW n \in minted'
               PROVE  /\ n.id = Encode(n.ms, TIMESTAMP_CHARS) \o Encode(n.entropy, RANDOM_CHARS)
                      /\ \E at \in Nat : /\ n.ms = at \div TICKS
                                         /\ n.created - SKEW <= at /\ at <= n.created + SKEW
    BY DEF Stamped
  <2>1. CASE n \in minted
    BY <2>1 DEF IInv, Stamped
  <2>2. CASE n = m
    BY <1>2, <2>2 DEF ms, id
  <2> QED
    BY <1>1, <2>1, <2>2
<1> QED
  BY <1>6, <1>7 DEF IInv

LEMMA Invariance == Spec => []IInv
<1>1. Init => IInv
  BY IdConstants DEF Init, IInv, TypeOK, Stamped
<1>2. IInv /\ [Next]_vars => IInv'
  <2> SUFFICES ASSUME IInv, [Next]_vars PROVE IInv'
    OBVIOUS
  <2>1. CASE TimePasses
    BY <2>1, IdConstants DEF TimePasses, IInv, TypeOK, Stamped
  <2>2. ASSUME NEW now \in (time - SKEW)..(time + SKEW),
               NEW entropy \in 0..(BASE ^ RANDOM_CHARS - 1),
               ClockMayShow(now), Mint(now, entropy)
        PROVE  IInv'
    <3>1. now \in Int
      OBVIOUS
    <3> QED
      BY <2>2, <3>1, MintKeepsIInv
  <2>3. CASE UNCHANGED vars
    BY <2>3 DEF vars, IInv, TypeOK, Stamped
  <2> QED
    BY <2>1, <2>2, <2>3 DEF Next
<1> QED
  BY <1>1, <1>2, PTL DEF Spec

(* Ids have their width and only characters of the alphabet.                 *)
THEOREM TypeCorrect == Spec => []TypeOK
<1>1. IInv => TypeOK
  BY DEF IInv
<1> QED
  BY <1>1, Invariance, PTL

(* No stamp overflows its characters before the end of time.                 *)
LEMMA StampsFit ==
    ASSUME IInv, NEW m \in minted
    PROVE  /\ m.created \in Int /\ m.ms \in Nat /\ m.ms < BASE ^ TIMESTAMP_CHARS
           /\ m.entropy \in Nat /\ m.entropy < BASE ^ RANDOM_CHARS
<1>1. m.created \in 0..MaxTime /\ m.ms \in Nat /\ m.entropy \in 0..(BASE ^ RANDOM_CHARS - 1)
  BY DEF IInv, TypeOK, Minted
<1>2. PICK now \in Nat : m.ms = now \div TICKS /\ now <= m.created + SKEW
  BY DEF IInv, Stamped
<1>3. /\ MaxTime + SKEW \in Int /\ now <= MaxTime + SKEW /\ TICKS \in Nat \ {0} /\ now \in Int
  BY <1>1, <1>2, IdConstants
<1>4. m.ms <= (MaxTime + SKEW) \div TICKS
  BY <1>2, <1>3, DivMonotone
<1> DEFINE p == BASE ^ TIMESTAMP_CHARS
           r == BASE ^ RANDOM_CHARS
           last == (MaxTime + SKEW) \div TICKS
<1>5. p \in Nat /\ r \in Nat /\ last \in Int /\ last < p
  <2>1. p \in Nat /\ r \in Nat
    BY ThisWide, Powers DEF Widths
  <2>2. last \in Int /\ last < p
    BY <1>3, DivMod, IdConstants
  <2> QED
    BY <2>1, <2>2
<1> HIDE DEF p, r, last
<1>6. m.ms < p /\ m.entropy < r
  BY <1>1, <1>4, <1>5 DEF last, r
<1> QED
  BY <1>1, <1>6 DEF p, r

(* The digits of a minted id are those of its time and its entropy.          *)
LEMMA MintedDigits ==
    ASSUME IInv, NEW m \in minted
    PROVE  /\ DOMAIN m.id = 1..(TIMESTAMP_CHARS + RANDOM_CHARS)
           /\ \A i \in 1..TIMESTAMP_CHARS : m.id[i] = Encode(m.ms, TIMESTAMP_CHARS)[i]
           /\ \A i \in 1..RANDOM_CHARS :
                m.id[TIMESTAMP_CHARS + i] = Encode(m.entropy, RANDOM_CHARS)[i]
<1> DEFINE id == Encode(m.ms, TIMESTAMP_CHARS) \o Encode(m.entropy, RANDOM_CHARS)
<1>1. m.id = id
  BY DEF IInv, Stamped
<1>2. m.ms \in Nat /\ m.entropy \in Nat
  BY StampsFit
<1>3. /\ id \in [1..(TIMESTAMP_CHARS + RANDOM_CHARS) -> Digits]
      /\ \A i \in 1..TIMESTAMP_CHARS : id[i] = Encode(m.ms, TIMESTAMP_CHARS)[i]
      /\ \A i \in 1..RANDOM_CHARS :
           id[TIMESTAMP_CHARS + i] = Encode(m.entropy, RANDOM_CHARS)[i]
  BY <1>2, IdDigits
<1> HIDE DEF id
<1> QED
  BY <1>1, <1>3

(* Ids that are minted further apart than the clocks are sort by time.        *)
THEOREM ListingsAreChronological == Spec => []SortsUpToSkew
<1>1. IInv => SortsUpToSkew
  <2> SUFFICES ASSUME IInv, NEW m \in minted, NEW n \in minted,
                      n.created - m.created >= 2 * SKEW + TICKS
               PROVE  Before(m.id, n.id)
    BY DEF SortsUpToSkew
  <2>1. PICK a \in Nat : m.ms = a \div TICKS /\ a <= m.created + SKEW
    BY DEF IInv, Stamped
  <2>2. PICK b \in Nat : n.ms = b \div TICKS /\ n.created - SKEW <= b
    BY DEF IInv, Stamped
  <2>3. TICKS \in Nat \ {0} /\ SKEW \in Nat
    BY IdConstants
  <2>4. /\ m.created \in Int /\ m.ms \in Nat /\ m.entropy \in Nat
        /\ n.created \in Int /\ n.ms \in Nat /\ n.entropy \in Nat
        /\ n.ms < BASE ^ TIMESTAMP_CHARS
    BY StampsFit
  <2>5. a + TICKS <= b
    BY <2>1, <2>2, <2>3, <2>4
  <2>6. m.ms < n.ms
    <3>1. a \in Int /\ b \in Int /\ a + TICKS \in Int
      BY <2>3
    <3>2. (a + TICKS) \div TICKS <= b \div TICKS
      BY <2>3, <2>5, <3>1, DivMonotone
    <3>3. (a + TICKS) \div TICKS = a \div TICKS + 1
      BY <2>3, <3>1, DivNext
    <3>4. m.ms + 1 <= n.ms
      BY <2>1, <2>2, <3>2, <3>3
    <3> QED
      BY <2>4, <3>4
  <2> DEFINE head(ms) == Encode(ms, TIMESTAMP_CHARS)
  <2>7. Before(head(m.ms), head(n.ms))
    BY <2>4, <2>6, ThisWide, EncodeOrder
  <2>8. PICK i \in 1..TIMESTAMP_CHARS :
          /\ head(m.ms)[i] < head(n.ms)[i]
          /\ \A j \in 1..(i - 1) : head(m.ms)[j] = head(n.ms)[j]
    BY <2>7 DEF Before, Encode
  <2>9. /\ DOMAIN m.id = 1..(TIMESTAMP_CHARS + RANDOM_CHARS)
        /\ \A j \in 1..TIMESTAMP_CHARS : m.id[j] = head(m.ms)[j] /\ n.id[j] = head(n.ms)[j]
    BY MintedDigits
  <2>10. /\ i \in 1..(TIMESTAMP_CHARS + RANDOM_CHARS)
         /\ \A j \in 1..(i - 1) : j \in 1..TIMESTAMP_CHARS
    BY IdConstants
  <2> HIDE DEF head
  <2> QED
    BY <2>8, <2>9, <2>10 DEF Before
<1> QED
  BY <1>1, Invariance, PTL

(* No digit of the time or of the entropy is lost in an id.                  *)
THEOREM CollisionsAreChance == Spec => []CollideOnlyByChance
<1>1. IInv => CollideOnlyByChance
  <2> SUFFICES ASSUME IInv, NEW m \in minted, NEW n \in minted, m.id = n.id
               PROVE  m.ms = n.ms /\ m.entropy = n.entropy
    BY DEF CollideOnlyByChance
  <2>1. /\ m.ms \in Nat /\ m.ms < BASE ^ TIMESTAMP_CHARS
        /\ m.entropy \in Nat /\ m.entropy < BASE ^ RANDOM_CHARS
        /\ n.ms \in Nat /\ n.ms < BASE ^ TIMESTAMP_CHARS
        /\ n.entropy \in Nat /\ n.entropy < BASE ^ RANDOM_CHARS
    BY StampsFit
  <2> DEFINE head == Encode(m.ms, TIMESTAMP_CHARS)
             head2 == Encode(n.ms, TIMESTAMP_CHARS)
             tail == Encode(m.entropy, RANDOM_CHARS)
             tail2 == Encode(n.entropy, RANDOM_CHARS)
  <2>2. /\ \A i \in 1..TIMESTAMP_CHARS : m.id[i] = head[i] /\ n.id[i] = head2[i]
        /\ \A i \in 1..RANDOM_CHARS : /\ m.id[TIMESTAMP_CHARS + i] = tail[i]
                                      /\ n.id[TIMESTAMP_CHARS + i] = tail2[i]
    BY MintedDigits
  <2>3. /\ head \in [1..TIMESTAMP_CHARS -> Digits]
        /\ head2 \in [1..TIMESTAMP_CHARS -> Digits]
        /\ tail \in [1..RANDOM_CHARS -> Digits]
        /\ tail2 \in [1..RANDOM_CHARS -> Digits]
    BY <2>1, ThisWide, EncodeType DEF Digits
  <2> HIDE DEF head, head2, tail, tail2
  <2>4. head = head2
    <3> DEFINE S == 1..TIMESTAMP_CHARS
    <3>1. head \in [S -> Digits] /\ head2 \in [S -> Digits] /\ \A i \in S : head[i] = head2[i]
      BY <2>2, <2>3
    <3> HIDE DEF S
    <3> QED
      BY <3>1, SameFunction
  <2>5. tail = tail2
    <3> DEFINE S == 1..RANDOM_CHARS
    <3>1. tail \in [S -> Digits] /\ tail2 \in [S -> Digits] /\ \A i \in S : tail[i] = tail2[i]
      BY <2>2, <2>3
    <3> HIDE DEF S
    <3> QED
      BY <3>1, SameFunction
  <2> QED
    BY <2>1, <2>4, <2>5, ThisWide, EncodeInjective DEF head, head2, tail, tail2
<1> QED
  BY <1>1, Invariance, PTL
=============================================================================
