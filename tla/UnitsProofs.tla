------------------------------ MODULE UnitsProofs ------------------------------
(***************************************************************************)
(* The arithmetic of units.py, for every price scale: rounding stays       *)
(* within half a cent, and the affordability clamp never overspends.       *)
(***************************************************************************)
EXTENDS Units, TLAPS

(* divmod: the quotient and the remainder determine each other.              *)
LEMMA DivMod ==
    ASSUME NEW a \in Int, NEW s \in Nat \ {0}
    PROVE  /\ a \div s \in Int /\ a % s \in 0..(s - 1)
           /\ a = s * (a \div s) + (a % s)
<1>1. a \div s \in Int
  OBVIOUS
<1>2. a % s \in 0..(s - 1)
  OBVIOUS
<1>3. a = s * (a \div s) + (a % s)
  OBVIOUS
<1> QED
  BY <1>1, <1>2, <1>3

(* A smaller factor gives a smaller product.                                 *)
LEMMA TimesMonotone ==
    ASSUME NEW a \in Int, NEW b \in Int, NEW s \in Nat, a <= b
    PROVE  s * a <= s * b
  OBVIOUS

(* A product that is no larger has a factor that is no larger.               *)
LEMMA TimesCancel ==
    ASSUME NEW a \in Int, NEW b \in Int, NEW s \in Nat \ {0}, s * a < s * b + s
    PROVE  a <= b
<1>1. a > b => s * a >= s * (b + 1)
  BY TimesMonotone
<1>2. s * (b + 1) = s * b + s
  OBVIOUS
<1> QED
  BY <1>1, <1>2

(* What notional_cad returns, without division: n cents for an exact value   *)
(* of x, in units of 1 / PRICE_SCALE cents.                                  *)
Rounds(n, x, taker_side) ==
    /\ n \in Int
    /\ 2 * (n * PRICE_SCALE - x) <= PRICE_SCALE
    /\ 2 * (x - n * PRICE_SCALE) <= PRICE_SCALE
    /\ taker_side = "BUY" => 2 * (x - n * PRICE_SCALE) < PRICE_SCALE
    /\ taker_side # "BUY" => 2 * (n * PRICE_SCALE - x) < PRICE_SCALE

LEMMA NotionalRounds ==
    ASSUME NEW quantity \in Nat, NEW price \in Nat, NEW side
    PROVE  Rounds(NotionalCad(quantity, price, side), quantity * price, side)
<1> DEFINE x == quantity * price
           w == x \div PRICE_SCALE
           r == x % PRICE_SCALE
<1>1. x \in Nat /\ PRICE_SCALE \in Nat \ {0}
  BY PriceScale
<1> HIDE DEF x
<1>2. w \in Int /\ r \in 0..(PRICE_SCALE - 1) /\ x = PRICE_SCALE * w + r
  BY <1>1, DivMod
<1>3. PRICE_SCALE * w = w * PRICE_SCALE /\ (w + 1) * PRICE_SCALE = w * PRICE_SCALE + PRICE_SCALE
  BY <1>1, <1>2
<1>4. w * PRICE_SCALE \in Int
  BY <1>1, <1>2
<1>5. NotionalCad(quantity, price, side) =
        IF r * 2 > PRICE_SCALE \/ (r * 2 = PRICE_SCALE /\ side = "BUY") THEN w + 1 ELSE w
  BY DEF NotionalCad, x
<1> SUFFICES Rounds(NotionalCad(quantity, price, side), x, side)
  BY DEF x
<1> HIDE DEF w, r
<1>6. CASE r * 2 > PRICE_SCALE \/ (r * 2 = PRICE_SCALE /\ side = "BUY")
  BY <1>1, <1>2, <1>3, <1>4, <1>5, <1>6 DEF Rounds
<1>7. CASE ~ (r * 2 > PRICE_SCALE \/ (r * 2 = PRICE_SCALE /\ side = "BUY"))
  BY <1>1, <1>2, <1>3, <1>4, <1>5, <1>7 DEF Rounds
<1> QED
  BY <1>6, <1>7

(* Of two roundings of ordered values by the same rule the first is no more. *)
LEMMA RoundsMonotone ==
    ASSUME NEW x \in Int, NEW y \in Int, NEW m, NEW n, NEW side,
           Rounds(m, x, side), Rounds(n, y, side), x <= y
    PROVE  m <= n
<1>1. m \in Int /\ n \in Int /\ PRICE_SCALE \in Nat \ {0}
  BY PriceScale DEF Rounds
<1>2. PRICE_SCALE * m \in Int /\ PRICE_SCALE * n \in Int
  BY <1>1
<1>3. m * PRICE_SCALE = PRICE_SCALE * m /\ n * PRICE_SCALE = PRICE_SCALE * n
  BY <1>1
<1>4. PRICE_SCALE * m < PRICE_SCALE * n + PRICE_SCALE
  BY <1>1, <1>2, <1>3 DEF Rounds
<1> QED
  BY <1>1, <1>4, TimesCancel

(* notional_cad is never more than half a cent from the exact value.         *)
THEOREM HalfCent ==
    ASSUME NEW quantity \in Nat, NEW price \in Nat, NEW side
    PROVE  LET n == NotionalCad(quantity, price, side) IN
             /\ 2 * (n * PRICE_SCALE - quantity * price) <= PRICE_SCALE
             /\ 2 * (quantity * price - n * PRICE_SCALE) <= PRICE_SCALE
  BY NotionalRounds DEF Rounds

(* A buyer never pays less than a seller would get for the same trade, and   *)
(* at most one cent more: the side decides nothing but a tie.                *)
THEOREM SidesDifferByACent ==
    ASSUME NEW quantity \in Nat, NEW price \in Nat
    PROVE  NotionalCad(quantity, price, "BUY") - NotionalCad(quantity, price, "SELL") \in {0, 1}
<1> DEFINE x == quantity * price
           b == NotionalCad(quantity, price, "BUY")
           s == NotionalCad(quantity, price, "SELL")
<1>1. Rounds(b, x, "BUY") /\ Rounds(s, x, "SELL") /\ x \in Int
  BY NotionalRounds
<1> HIDE DEF x, b, s
<1>2. b \in Int /\ s \in Int /\ PRICE_SCALE \in Nat \ {0}
  BY <1>1, PriceScale DEF Rounds
<1>3. /\ PRICE_SCALE * b \in Int /\ PRICE_SCALE * s \in Int
      /\ b * PRICE_SCALE = PRICE_SCALE * b /\ s * PRICE_SCALE = PRICE_SCALE * s
      /\ PRICE_SCALE * (s + 1) = PRICE_SCALE * s + PRICE_SCALE
  BY <1>2
<1>4. PRICE_SCALE * s < PRICE_SCALE * b + PRICE_SCALE
  BY <1>1, <1>2, <1>3 DEF Rounds
<1>5. PRICE_SCALE * b < PRICE_SCALE * (s + 1) + PRICE_SCALE
  BY <1>1, <1>2, <1>3 DEF Rounds
<1>6. s <= b
  BY <1>2, <1>4, TimesCancel
<1>7. b <= s + 1
  BY <1>2, <1>5, TimesCancel
<1>8. b - s \in {0, 1}
  BY <1>2, <1>6, <1>7
<1> QED
  BY <1>8 DEF b, s

(* affordable_quantity is a number of whole lots, and its exact cost is      *)
(* within the reservation.                                                   *)
LEMMA AffordableCost ==
    ASSUME NEW reserved \in Nat, NEW price \in Nat \ {0}, NEW lot \in Nat \ {0}
    PROVE  /\ AffordableQuantity(reserved, price, lot) \in Int
           /\ price * AffordableQuantity(reserved, price, lot) <= reserved * PRICE_SCALE
<1> DEFINE a == reserved * PRICE_SCALE
           q == a \div price
<1>1. a \in Nat
  BY PriceScale
<1>2. AffordableQuantity(reserved, price, lot) = q - (q % lot)
  BY DEF AffordableQuantity
<1> HIDE DEF a
<1>3. q \in Int /\ a % price \in 0..(price - 1) /\ a = price * q + (a % price)
  BY <1>1, DivMod
<1> HIDE DEF q
<1>4. q % lot \in 0..(lot - 1)
  BY <1>3, DivMod
<1>5. q - (q % lot) \in Int /\ q - (q % lot) <= q
  BY <1>3, <1>4
<1>6. price * (q - (q % lot)) <= price * q
  BY <1>3, <1>5, TimesMonotone
<1>7. price * (q - (q % lot)) <= a
  BY <1>1, <1>3, <1>5, <1>6
<1> QED
  BY <1>2, <1>5, <1>7 DEF a

(* The clamp: a fill of no more than affordable_quantity costs, rounded, no  *)
(* more than the reservation it was computed from.                           *)
THEOREM ClampNeverOverspends ==
    ASSUME NEW reserved \in Nat, NEW price \in Nat \ {0}, NEW lot \in Nat \ {0},
           NEW quantity \in Nat, quantity <= AffordableQuantity(reserved, price, lot)
    PROVE  NotionalCad(quantity, price, "BUY") <= reserved
<1> DEFINE n == NotionalCad(quantity, price, "BUY")
           x == quantity * price
<1>1. Rounds(n, x, "BUY")
  BY NotionalRounds
<1>2. price * quantity <= price * AffordableQuantity(reserved, price, lot)
  <2>1. AffordableQuantity(reserved, price, lot) \in Int
    BY AffordableCost
  <2> QED
    BY <2>1, TimesMonotone
<1>3. x \in Int /\ x = price * quantity
  OBVIOUS
<1>4. x <= reserved * PRICE_SCALE
  BY <1>2, <1>3, AffordableCost, PriceScale
<1> HIDE DEF n, x
<1>5. /\ n \in Int /\ PRICE_SCALE \in Nat \ {0}
      /\ n * PRICE_SCALE = PRICE_SCALE * n /\ PRICE_SCALE * n \in Int
      /\ reserved * PRICE_SCALE = PRICE_SCALE * reserved /\ PRICE_SCALE * reserved \in Int
  BY <1>1, PriceScale DEF Rounds
<1>6. PRICE_SCALE * n < PRICE_SCALE * reserved + PRICE_SCALE
  BY <1>1, <1>3, <1>4, <1>5 DEF Rounds
<1>7. n <= reserved
  BY <1>5, <1>6, TimesCancel
<1> QED
  BY <1>7 DEF n

(* The multiples of s: their remainder is zero, and conversely.              *)
LEMMA Multiples ==
    ASSUME NEW a \in Int, NEW s \in Nat \ {0}
    PROVE  a % s = 0 <=> \E k \in Int : a = s * k
<1> DEFINE d == a \div s
           r == a % s
<1>1. d \in Int /\ r \in 0..(s - 1) /\ a = s * d + r
  BY DivMod
<1> HIDE DEF d, r
<1>2. ASSUME r = 0 PROVE \E k \in Int : a = s * k
  <2>1. a = s * d
    BY <1>1, <1>2
  <2> QED
    BY <1>1, <2>1
<1>3. ASSUME NEW k \in Int, a = s * k PROVE r = 0
  <2>1. s * (k - d) = s * k - s * d /\ s * d \in Int /\ k - d \in Int
    BY <1>1
  <2>2. s * (k - d) = r
    BY <1>1, <1>3, <2>1
  <2>3. s * 0 = 0 /\ s * 1 = s /\ 0 \in Int /\ 1 \in Int
    OBVIOUS
  <2>4. CASE k - d >= 1
    BY <1>1, <2>1, <2>2, <2>3, <2>4, TimesMonotone
  <2>5. CASE k - d <= 0
    BY <1>1, <2>1, <2>2, <2>3, <2>5, TimesMonotone
  <2> QED
    BY <2>1, <2>4, <2>5
<1> QED
  BY <1>2, <1>3 DEF r

(* Whole lots taken from whole lots leave whole lots.                        *)
LEMMA LotsLeft ==
    ASSUME NEW a \in Int, NEW b \in Int, NEW s \in Nat \ {0}, a % s = 0, b % s = 0
    PROVE  (a - b) % s = 0
<1>1. PICK j \in Int : a = s * j
  BY Multiples
<1>2. PICK k \in Int : b = s * k
  BY Multiples
<1>3. a - b = s * (j - k) /\ j - k \in Int /\ a - b \in Int
  BY <1>1, <1>2
<1> QED
  BY <1>3, Multiples

(* affordable_quantity returns whole lots.                                   *)
LEMMA AffordableLots ==
    ASSUME NEW reserved \in Nat, NEW price \in Nat \ {0}, NEW lot \in Nat \ {0}
    PROVE  AffordableQuantity(reserved, price, lot) % lot = 0
<1> DEFINE q == (reserved * PRICE_SCALE) \div price
<1>1. q \in Int
  BY PriceScale, DivMod
<1>2. AffordableQuantity(reserved, price, lot) = q - (q % lot)
  BY DEF AffordableQuantity
<1> HIDE DEF q
<1>3. q = lot * (q \div lot) + (q % lot) /\ q \div lot \in Int /\ q % lot \in Int
  BY <1>1, DivMod
<1>4. lot * (q \div lot) \in Int
  BY <1>3
<1>5. q - (q % lot) = lot * (q \div lot)
  BY <1>3, <1>4
<1> QED
  BY <1>2, <1>3, <1>4, <1>5, Multiples

(* A larger quantity never costs less.                                       *)
THEOREM MoreNeverCostsLess ==
    ASSUME NEW a \in Nat, NEW b \in Nat, a <= b, NEW price \in Nat, NEW side
    PROVE  NotionalCad(a, price, side) <= NotionalCad(b, price, side)
<1>1. a * price <= b * price /\ a * price \in Int /\ b * price \in Int
  <2>1. price * a <= price * b
    BY TimesMonotone
  <2> QED
    BY <2>1
<1>2. /\ Rounds(NotionalCad(a, price, side), a * price, side)
      /\ Rounds(NotionalCad(b, price, side), b * price, side)
  BY NotionalRounds
<1> QED
  BY <1>1, <1>2, RoundsMonotone

(* affordable_quantity is the largest number of whole lots whose exact cost   *)
(* is within the reservation.                                                *)
THEOREM AffordableIsLargest ==
    ASSUME NEW reserved \in Nat, NEW price \in Nat \ {0}, NEW lot \in Nat \ {0},
           NEW quantity \in Int, quantity % lot = 0
    PROVE  quantity <= AffordableQuantity(reserved, price, lot)
             <=> price * quantity <= reserved * PRICE_SCALE
<1> DEFINE a == reserved * PRICE_SCALE
           q == a \div price
           most == AffordableQuantity(reserved, price, lot)
<1>1. a \in Nat
  BY PriceScale
<1>2. most \in Int /\ price * most <= a
  BY AffordableCost
<1>3. most = q - (q % lot)
  BY DEF AffordableQuantity
<1> HIDE DEF most, a
<1>4. q \in Int /\ a % price \in 0..(price - 1) /\ a = price * q + (a % price)
  BY <1>1, DivMod
<1> HIDE DEF q
<1>5. ASSUME quantity <= most PROVE price * quantity <= a
  <2>1. price * quantity <= price * most
    BY <1>2, <1>5, TimesMonotone
  <2> QED
    BY <1>1, <1>2, <2>1
<1>6. ASSUME price * quantity <= a PROVE quantity <= most
  <2>1. price * q \in Int /\ price * quantity \in Int
    BY <1>4
  <2>2. price * quantity < price * q + price
    BY <1>1, <1>4, <1>6, <2>1
  <2>3. quantity <= q
    BY <1>4, <2>2, TimesCancel
  <2>4. PICK k \in Int : quantity = lot * k
    BY Multiples
  <2>5. q \div lot \in Int /\ q % lot \in 0..(lot - 1) /\ q = lot * (q \div lot) + (q % lot)
    BY <1>4, DivMod
  <2>6. lot * (q \div lot) \in Int /\ lot * k \in Int
    BY <2>5
  <2>7. lot * k < lot * (q \div lot) + lot
    <3> DEFINE lots == lot * (q \div lot)
               left == q % lot
    <3>1. lots \in Int /\ left \in 0..(lot - 1) /\ q = lots + left
      BY <2>5, <2>6
    <3> HIDE DEF lots, left
    <3>2. quantity < lots + lot
      BY <1>4, <2>3, <3>1
    <3> QED
      BY <2>4, <3>2 DEF lots
  <2>8. k <= q \div lot
    BY <2>5, <2>7, TimesCancel
  <2>9. lot * k <= lot * (q \div lot)
    BY <2>5, <2>8, TimesMonotone
  <2> QED
    BY <1>3, <2>4, <2>5, <2>6, <2>9
<1> QED
  BY <1>5, <1>6 DEF a, most

(* The two floors waste no lot: any larger whole-lot quantity costs, rounded, *)
(* the whole reservation or more.  It may cost exactly the reservation.      *)
THEOREM NoLotIsWasted ==
    ASSUME NEW reserved \in Nat, NEW price \in Nat \ {0}, NEW lot \in Nat \ {0}, NEW side,
           NEW quantity \in Nat, quantity % lot = 0,
           quantity > AffordableQuantity(reserved, price, lot)
    PROVE  NotionalCad(quantity, price, side) >= reserved
<1> DEFINE a == reserved * PRICE_SCALE
           x == quantity * price
           n == NotionalCad(quantity, price, side)
<1>1. a \in Int /\ x \in Int /\ x = price * quantity
  BY PriceScale
<1>2. ~ (quantity <= AffordableQuantity(reserved, price, lot))
  BY AffordableCost
<1>3. a <= x
  BY <1>1, <1>2, AffordableIsLargest
<1>4. Rounds(n, x, side)
  BY NotionalRounds
<1>5. Rounds(reserved, a, side)
  BY <1>1, PriceScale DEF Rounds
<1> HIDE DEF a, x, n
<1>6. reserved <= n /\ n \in Int
  BY <1>1, <1>3, <1>4, <1>5, RoundsMonotone DEF Rounds
<1> QED
  BY <1>6 DEF n
=============================================================================
