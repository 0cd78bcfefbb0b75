-------------------------- MODULE MarketBuySweepProofs --------------------------
(***************************************************************************)
(* The spending limit of a market BUY over a whole sweep, for every price  *)
(* scale, lot size, reservation, and sequence of makers; and the engine    *)
(* that writes the records of such a sweep, for every book and any lag of  *)
(* the readers.                                                            *)
(***************************************************************************)
EXTENDS EventFeed, UnitsProofs

TakerP == INSTANCE OrderProofs WITH
    Price <- {}, ReservedCad <- Reserved, LIMIT <- 1, CENTS <- 1, Requests <- {}, request <- None

Accounts ==
    /\ order.side = "BUY"
    /\ reserved_cad \in Reserved
    /\ spent \in Nat /\ exact \in Nat /\ fills \in Nat

Lots == order.quantity % LOT_SIZE = 0 /\ order.filled_quantity % LOT_SIZE = 0

IInv == TakerP!IInv /\ Accounts /\ Lots /\ WithinReservation /\ DriftIsBounded

(* The text of a reason is a text.                                           *)
LEMMA ReasonsAreTexts == \A reason \in Reason : TakerP!Str(reason) # None
  BY FeedConstants DEF TakerP!Str

LEMMA InitIInv == Init => IInv
<1> SUFFICES ASSUME Init PROVE IInv
  OBVIOUS
<1>1. TakerP!IInv
  <2>1. TakerP!Init
    BY DEF Init, Taker!Init, TakerP!Init, Taker!Side, TakerP!Side, Taker!OrderType,
           TakerP!OrderType, Taker!TimeInForce, TakerP!TimeInForce, Taker!Legal, TakerP!Legal
  <2> QED
    BY <2>1, SweepConstants, PriceScale, InstrumentConstants, ReasonsAreTexts, TakerP!InitIInv
<1>2. Accounts /\ WithinReservation /\ DriftIsBounded
  BY SweepConstants, PriceScale DEF Init, Accounts, WithinReservation, DriftIsBounded
<1>3. Lots
  <2>1. order.filled_quantity = 0 /\ order.quantity % LOT_SIZE = 0
    BY DEF Init, Taker!Init, ValidQuantity
  <2>2. 0 = LOT_SIZE * 0 /\ 0 \in Int
    BY InstrumentConstants
  <2> QED
    BY <2>1, <2>2, InstrumentConstants, Multiples DEF Lots
<1> QED
  BY <1>1, <1>2, <1>3 DEF IInv

(* A cancellation changes the taker's record and nothing else.               *)
LEMMA CancelKeepsIInv ==
    ASSUME IInv, NEW reason \in Reason, Taker!Cancel(reason),
           UNCHANGED <<reserved_cad, spent, exact, fills>>
    PROVE  IInv'
<1>1. TakerP!Next
  BY DEF TakerP!Next, TakerP!Cancel, Taker!Cancel, TakerP!Cancelled, Taker!Cancelled, Taker!IsTerminal, TakerP!IsTerminal
<1>2. TakerP!IInv'
  BY <1>1, SweepConstants, PriceScale, InstrumentConstants, ReasonsAreTexts,
     TakerP!NextKeepsIInv DEF IInv
<1>3. Accounts' /\ Lots' /\ WithinReservation' /\ DriftIsBounded'
  BY DEF IInv, TakerP!IInv, TakerP!TypeOK, TakerP!Record, Accounts, Lots, WithinReservation,
         DriftIsBounded, Taker!Cancel, Taker!Cancelled
<1> QED
  BY <1>2, <1>3 DEF IInv

(* What a trade takes: the least of three amounts, and not nothing.          *)
LEMMA TradeTakes ==
    ASSUME IInv, NEW price \in MakerPrice, NEW offered \in MakerQuantity,
           Trade(price, offered)
    PROVE  \E quantity \in Nat \ {0} :
             /\ quantity \in {offered, Taker!Remaining(order), Affordable(price)}
             /\ quantity <= offered /\ quantity <= Affordable(price)
             /\ Taker!Fill(quantity)
             /\ spent' = spent + NotionalCad(quantity, price, order.side)
             /\ exact' = exact + quantity * price
<1>1. reserved_cad - spent \in Nat /\ price \in Nat \ {0} /\ offered \in Nat
  BY SweepConstants DEF IInv, Accounts, WithinReservation, ValidPrice, MakerQuantity
<1>2. Affordable(price) \in Int
  BY <1>1, InstrumentConstants, AffordableCost DEF Affordable
<1>3. Taker!Remaining(order) \in Int
  <2>1. order \in TakerP!Record
    BY DEF IInv, TakerP!IInv, TakerP!TypeOK
  <2>2. order.quantity \in Int /\ order.filled_quantity \in Int
    BY <2>1, SweepConstants DEF TakerP!Record
  <2> QED
    BY <2>2 DEF Taker!Remaining
<1>4. PICK quantity \in {offered, Taker!Remaining(order), Affordable(price)} :
         /\ quantity <= offered /\ quantity <= Affordable(price)
         /\ Taker!Fill(quantity)
         /\ spent' = spent + NotionalCad(quantity, price, order.side)
         /\ exact' = exact + quantity * price
  BY DEF Trade
<1>5. quantity \in Nat \ {0}
  BY <1>1, <1>2, <1>3, <1>4 DEF Taker!Fill
<1> QED
  BY <1>4, <1>5

LEMMA NotionalNat ==
    ASSUME NEW quantity \in Nat, NEW price \in Nat
    PROVE  NotionalCad(quantity, price, "BUY") \in Nat
<1>1. NotionalCad(0, price, "BUY") = 0
  <2>1. 0 * price = 0 /\ 0 \div PRICE_SCALE = 0 /\ 0 % PRICE_SCALE = 0
    BY PriceScale
  <2> QED
    BY <2>1, PriceScale DEF NotionalCad
<1>2. NotionalCad(0, price, "BUY") <= NotionalCad(quantity, price, "BUY")
      /\ NotionalCad(quantity, price, "BUY") \in Int
  BY MoreNeverCostsLess, NotionalRounds DEF Rounds
<1> QED
  BY <1>1, <1>2

(* A trade costs at most what is left, and its rounding is off by at most    *)
(* half a cent.                                                              *)
LEMMA TradeKeepsIInv ==
    ASSUME IInv, NEW price \in MakerPrice, NEW offered \in MakerQuantity,
           Trade(price, offered)
    PROVE  IInv'
<1> DEFINE left == reserved_cad - spent
<1>1. left \in Nat /\ price \in Nat \ {0} /\ LOT_SIZE \in Nat \ {0} /\ offered \in Nat
  BY SweepConstants, InstrumentConstants DEF IInv, Accounts, WithinReservation, ValidPrice, MakerQuantity
<1>2. PICK quantity \in Nat \ {0} :
         /\ quantity \in {offered, Taker!Remaining(order), Affordable(price)}
         /\ quantity <= Affordable(price)
         /\ Taker!Fill(quantity)
         /\ spent' = spent + NotionalCad(quantity, price, order.side)
         /\ exact' = exact + quantity * price
  BY TradeTakes
<1>3. TakerP!IInv'
  <2>1. order \in TakerP!Record
    BY DEF IInv, TakerP!IInv, TakerP!TypeOK
  <2>2. order.quantity \in Int /\ order.filled_quantity \in Int
    BY <2>1, SweepConstants DEF TakerP!Record
  <2>3. order.filled_quantity >= 0
    BY DEF IInv, TakerP!IInv, TakerP!TypeOK, TakerP!Legal
  <2>4. TakerP!Fill(quantity)
    BY <1>2 DEF Taker!Fill, TakerP!Fill, Taker!Filled, TakerP!Filled, Taker!Remaining, TakerP!Remaining
  <2>5. quantity \in 1..order.quantity
    BY <1>2, <2>2, <2>3 DEF Taker!Fill, Taker!Remaining
  <2>6. TakerP!Next
    BY <2>4, <2>5 DEF TakerP!Next
  <2> QED
    BY <2>6, SweepConstants, PriceScale, InstrumentConstants, ReasonsAreTexts,
     TakerP!NextKeepsIInv DEF IInv
<1> DEFINE n == NotionalCad(quantity, price, "BUY")
           x == quantity * price
<1>4. order.side = "BUY" /\ order'.side = "BUY"
  BY <1>2 DEF IInv, Accounts, TakerP!IInv, TakerP!TypeOK, TakerP!Record, Taker!Fill, Taker!Filled
<1>5. spent' = spent + n /\ exact' = exact + x
  BY <1>2, <1>4
<1>6. n <= left
  BY <1>1, <1>2, ClampNeverOverspends DEF Affordable
<1>7. n \in Nat /\ x \in Nat
  <2>1. n \in Nat
    BY <1>1, NotionalNat
  <2> QED
    BY <1>1, <2>1
<1>8. /\ 2 * (n * PRICE_SCALE - x) <= PRICE_SCALE
       /\ 2 * (x - n * PRICE_SCALE) <= PRICE_SCALE
  BY <1>1, HalfCent
<1> HIDE DEF n, x
<1>9. Accounts' /\ WithinReservation'
  <2>1. reserved_cad' = reserved_cad /\ fills' = fills + 1
    BY DEF Trade
  <2>2. reserved_cad \in Nat
    BY SweepConstants DEF IInv, Accounts
  <2> QED
    BY <1>4, <1>5, <1>6, <1>7, <2>1, <2>2 DEF IInv, Accounts, WithinReservation
<1>10. DriftIsBounded'
  <2>1. /\ (spent + n) * PRICE_SCALE = spent * PRICE_SCALE + n * PRICE_SCALE
        /\ (fills + 1) * PRICE_SCALE = fills * PRICE_SCALE + PRICE_SCALE
        /\ spent * PRICE_SCALE \in Int /\ n * PRICE_SCALE \in Int
        /\ fills * PRICE_SCALE \in Int
    BY <1>7, PriceScale DEF IInv, Accounts
  <2> QED
    BY <1>5, <1>7, <1>8, <2>1, PriceScale DEF Trade, IInv, Accounts, DriftIsBounded
<1>11. Lots'
  <2>1. order \in TakerP!Record
    BY DEF IInv, TakerP!IInv, TakerP!TypeOK
  <2>2. order.quantity \in Int /\ order.filled_quantity \in Int
    BY <2>1, SweepConstants DEF TakerP!Record
  <2>3. order.quantity % LOT_SIZE = 0 /\ order.filled_quantity % LOT_SIZE = 0
    BY DEF IInv, Lots
  <2>4. offered % LOT_SIZE = 0
    BY DEF MakerQuantity
  <2>5. Taker!Remaining(order) % LOT_SIZE = 0
    BY <1>1, <2>2, <2>3, LotsLeft DEF Taker!Remaining
  <2>6. Affordable(price) % LOT_SIZE = 0
    BY <1>1, AffordableLots DEF Affordable
  <2>7. quantity % LOT_SIZE = 0
    BY <1>2, <2>4, <2>5, <2>6
  <2>8. 0 - quantity \in Int /\ (0 - quantity) % LOT_SIZE = 0
    <3>1. 0 = LOT_SIZE * 0 /\ 0 \in Int
      BY <1>1
    <3>2. 0 % LOT_SIZE = 0
      BY <1>1, <3>1, Multiples
    <3>3. quantity \in Int /\ 0 - quantity \in Int
      BY <1>2
    <3>4. (0 - quantity) % LOT_SIZE = 0
      BY <1>1, <2>7, <3>1, <3>2, <3>3, LotsLeft
    <3> QED
      BY <3>3, <3>4
  <2>9. (order.filled_quantity - (0 - quantity)) % LOT_SIZE = 0
    BY <1>1, <2>2, <2>3, <2>8, LotsLeft
  <2>10. order.filled_quantity - (0 - quantity) = order.filled_quantity + quantity
    BY <2>2
  <2>11. /\ order'.quantity = order.quantity
         /\ order'.filled_quantity = order.filled_quantity + quantity
    BY <1>2, <2>1 DEF Taker!Fill, Taker!Filled, TakerP!Record
  <2> QED
    BY <2>3, <2>9, <2>10, <2>11 DEF Lots
<1> QED
  BY <1>3, <1>9, <1>10, <1>11 DEF IInv

LEMMA NextKeepsIInv == IInv /\ [Next]_vars => IInv'
<1> SUFFICES ASSUME IInv, [Next]_vars PROVE IInv'
  OBVIOUS
<1>1. ASSUME NEW price \in MakerPrice, CapReached(price) PROVE IInv'
  BY <1>1, CancelKeepsIInv, SweepConstants DEF CapReached
<1>2. CASE BookExhausted
  BY <1>2, CancelKeepsIInv, SweepConstants DEF BookExhausted
<1>3. CASE UNCHANGED vars
  BY <1>3 DEF vars, IInv, TakerP!IInv, TakerP!TypeOK, TakerP!StatusFits,
              Accounts, Lots, WithinReservation, DriftIsBounded
<1> QED
  BY <1>1, <1>2, <1>3, TradeKeepsIInv DEF Next

LEMMA Invariance == Spec => []IInv
  BY InitIInv, NextKeepsIInv, PTL DEF Spec

(* Type correctness of the taker and of the accounts.                        *)
THEOREM TypeCorrect == Spec => []TypeOK
<1>1. IInv => TypeOK
  <2>1. TakerP!TypeOK => Taker!TypeOK
    BY DEF TakerP!TypeOK, Taker!TypeOK, TakerP!Record, Taker!Record, TakerP!Side, Taker!Side,
       TakerP!OrderType, Taker!OrderType, TakerP!TimeInForce, Taker!TimeInForce,
       TakerP!OrderStatus, Taker!OrderStatus, TakerP!Legal, Taker!Legal
  <2> QED
    BY <2>1 DEF IInv, TakerP!IInv, Accounts, TypeOK
<1> QED
  BY <1>1, Invariance, PTL

(* The hard spending limit holds over every sweep.                           *)
THEOREM SpendingLimit == Spec => []WithinReservation
<1>1. IInv => WithinReservation
  BY DEF IInv
<1> QED
  BY <1>1, Invariance, PTL

(* Rounding never drifts by more than half a cent per fill.                  *)
THEOREM RoundingIsFair == Spec => []DriftIsBounded
<1>1. IInv => DriftIsBounded
  BY DEF IInv
<1> QED
  BY <1>1, Invariance, PTL

LEMMA LotsAreLeft == IInv => WholeLots
<1> SUFFICES ASSUME IInv PROVE WholeLots
  OBVIOUS
<1>1. order \in TakerP!Record
  BY DEF IInv, TakerP!IInv, TakerP!TypeOK
<1>2. order.quantity \in Int /\ order.filled_quantity \in Int
  BY <1>1, SweepConstants DEF TakerP!Record
<1> QED
  BY <1>2, InstrumentConstants, LotsLeft DEF IInv, Lots, WholeLots, Taker!Remaining

(* Remainders stay in whole lots, whichever of the three limits a fill meets. *)
THEOREM WholeLotsLeft == Spec => []WholeLots
  BY LotsAreLeft, Invariance, PTL

-----------------------------------------------------------------------------
(* A trade debits the reservation and a cancellation closes it; nothing else *)
(* happens to it.                                                            *)
LEMMA TradeDebits ==
    ASSUME IInv, NEW price \in MakerPrice, NEW offered \in MakerQuantity, Trade(price, offered)
    PROVE  Reserve!Debit
<1>1. PICK quantity \in Nat \ {0} : spent' = spent + NotionalCad(quantity, price, order.side)
  BY TradeTakes
<1>2. NotionalCad(quantity, price, order.side) \in Nat
  BY SweepConstants, NotionalNat DEF IInv, Accounts
<1>3. IInv'
  BY TradeKeepsIInv
<1>4. spent \in Nat /\ spent' \in Nat /\ reserved_cad \in Nat /\ reserved_cad' = reserved_cad
      /\ spent' <= reserved_cad
  BY <1>3, SweepConstants DEF IInv, Accounts, WithinReservation, Trade
<1>5. spent' \in spent..reserved_cad
  BY <1>1, <1>2, <1>4
<1>6. ~ Taker!IsTerminal(order.status)
  BY DEF Trade, Sweeping
<1>7. Taker!IsTerminal(order'.status) \in BOOLEAN
  BY DEF Taker!IsTerminal
<1> QED
  BY <1>4, <1>5, <1>6, <1>7, Zenon DEF Reserve!Debit

LEMMA CancelCloses ==
    ASSUME Sweeping, NEW reason, Taker!Cancel(reason), UNCHANGED <<reserved_cad, spent>>,
           "status" \in DOMAIN order
    PROVE  Reserve!Close
<1>1. order'.status = "CANCELLED"
  BY DEF Taker!Cancel, Taker!Cancelled
<1>2. ~ Taker!IsTerminal(order.status) /\ Taker!IsTerminal(order'.status)
  BY <1>1 DEF Sweeping, Taker!IsTerminal
<1> QED
  BY <1>2, Zenon DEF Reserve!Close

LEMMA SweepStepMaps == IInv /\ [Next]_vars => [Reserve!Next]_Reserve!vars
<1> SUFFICES ASSUME IInv, [Next]_vars PROVE [Reserve!Next]_Reserve!vars
  OBVIOUS
<1>1. "status" \in DOMAIN order
  BY DEF IInv, TakerP!IInv, TakerP!TypeOK, TakerP!Record
<1>2. ASSUME NEW price \in MakerPrice, NEW offered \in MakerQuantity, Trade(price, offered)
      PROVE  Reserve!Next
  BY <1>2, TradeDebits DEF Reserve!Next
<1>3. ASSUME NEW price \in MakerPrice, CapReached(price) PROVE Reserve!Next
  BY <1>1, <1>3, CancelCloses DEF CapReached, Reserve!Next
<1>4. CASE BookExhausted
  BY <1>1, <1>4, CancelCloses DEF BookExhausted, Reserve!Next
<1>5. CASE UNCHANGED vars
  BY <1>5 DEF vars, Reserve!vars
<1> QED
  BY <1>2, <1>3, <1>4, <1>5 DEF Next

(* The sweep implements a hard spending limit.                               *)
THEOREM SpendsAReservation == Spec => ImplementsReservation
<1>1. Init => Reserve!Init
  <2> SUFFICES ASSUME Init PROVE Reserve!Init
    OBVIOUS
  <2>1. order.status = "PENDING" /\ reserved_cad \in Reserved /\ spent = 0
    BY DEF Init, Taker!Init
  <2>2. Taker!IsTerminal(order.status) = FALSE
    BY <2>1 DEF Taker!IsTerminal
  <2> QED
    BY <2>1, <2>2, Zenon DEF Reserve!Init
<1> QED
  BY <1>1, SweepStepMaps, Invariance, PTL DEF Spec, ImplementsReservation, Reserve!Spec
-----------------------------------------------------------------------------
(* The engine of EventFeed sweeps its book the way Spec says.                *)

MakerRecord ==
    [side : {"SELL"}, order_type : {"LIMIT"}, time_in_force : {"GTC"}, price : MakerPrice,
     quantity : Int, filled_quantity : Int, status : Taker!OrderStatus,
     cancel_reason : Reason \cup {None}]

OffersLots(o) == IsResting(o.status) => Taker!Remaining(o) \in MakerQuantity

MakersInv == makers \in [Maker -> MakerRecord] /\ \A m \in Maker : OffersLots(makers[m])

LEMMA RestedIsMaker ==
    ASSUME NEW price \in MakerPrice, NEW quantity \in MakerQuantity
    PROVE  Rested(price, quantity) \in MakerRecord /\ OffersLots(Rested(price, quantity))
<1>1. quantity \in Int /\ quantity - 0 = quantity
  BY DEF MakerQuantity
<1>2. Rested(price, quantity) \in MakerRecord
  BY <1>1, SweepConstants DEF Rested, MakerRecord, Taker!OrderStatus
<1>3. Taker!Remaining(Rested(price, quantity)) = quantity
  BY <1>1 DEF Rested, Taker!Remaining
<1> QED
  BY <1>2, <1>3 DEF OffersLots

LEMMA FeedInitInv == FeedInit => Init /\ IInv /\ MakersInv
<1> SUFFICES ASSUME FeedInit PROVE MakersInv
  BY InitIInv DEF FeedInit
<1>1. PICK book \in Books : makers = [m \in Maker |-> Rested(book[m].price, book[m].quantity)]
  BY DEF FeedInit
<1>2. ASSUME NEW m \in Maker PROVE makers[m] \in MakerRecord /\ OffersLots(makers[m])
  <2>1. book[m].price \in MakerPrice /\ book[m].quantity \in MakerQuantity
    BY FeedConstants
  <2> QED
    BY <1>1, <2>1, RestedIsMaker
<1> QED
  BY <1>1, <1>2 DEF MakersInv

(* What a match takes from the resting order: whole lots, and not more.      *)
LEMMA MatchTakesLots ==
    ASSUME IInv, MakersInv, NEW m \in Maker, Match(m)
    PROVE  /\ Trade(makers[m].price, Taker!Remaining(makers[m]))
           /\ makers[m].price \in MakerPrice
           /\ Taker!Remaining(makers[m]) \in MakerQuantity
           /\ LET quantity == order'.filled_quantity - order.filled_quantity
              IN  /\ quantity \in Nat /\ quantity > 0 /\ quantity % LOT_SIZE = 0
                  /\ quantity <= Taker!Remaining(makers[m])
                  /\ makers' = [makers EXCEPT ![m] = Taker!Filled(@, quantity)]
<1> DEFINE offered == Taker!Remaining(makers[m])
           quantity == order'.filled_quantity - order.filled_quantity
<1>1. /\ Trade(makers[m].price, offered)
      /\ makers' = [makers EXCEPT ![m] = Taker!Filled(@, quantity)]
      /\ IsResting(makers[m].status)
  BY DEF Match, Met
<1>2. makers[m].price \in MakerPrice /\ offered \in MakerQuantity
  BY <1>1 DEF MakersInv, MakerRecord, OffersLots
<1>3. IInv'
  BY <1>1, <1>2, TradeKeepsIInv
<1>4. /\ order \in TakerP!Record /\ order' \in TakerP!Record
      /\ order.filled_quantity % LOT_SIZE = 0 /\ order'.filled_quantity % LOT_SIZE = 0
  BY <1>3 DEF IInv, TakerP!IInv, TakerP!TypeOK, Lots
<1>5. order.filled_quantity \in Int /\ order'.filled_quantity \in Int
  BY <1>4 DEF TakerP!Record
<1>6. quantity % LOT_SIZE = 0
  BY <1>4, <1>5, InstrumentConstants, LotsLeft
<1>7. offered \in Int
  BY <1>2 DEF MakerQuantity
<1>8. PICK q \in Nat \ {0} : q <= offered /\ Taker!Fill(q)
  BY <1>1, <1>2, TradeTakes
<1>9. 0 < q /\ order'.filled_quantity = order.filled_quantity + q
  BY <1>4, <1>8 DEF Taker!Fill, Taker!Filled, TakerP!Record
<1> QED
  BY <1>1, <1>2, <1>5, <1>6, <1>7, <1>8, <1>9

(* What is left of a resting order stays a whole number of lots.             *)
LEMMA MatchKeepsMakers ==
    ASSUME IInv, MakersInv, NEW m \in Maker, Match(m)
    PROVE  MakersInv'
<1> DEFINE quantity == order'.filled_quantity - order.filled_quantity
           o == Taker!Filled(makers[m], quantity)
           filled == makers[m].filled_quantity + quantity
<1>1. /\ quantity \in Nat \ {0} /\ quantity % LOT_SIZE = 0
      /\ quantity <= Taker!Remaining(makers[m])
      /\ Taker!Remaining(makers[m]) \in MakerQuantity
      /\ makers' = [makers EXCEPT ![m] = o]
  BY MatchTakesLots
<1>2. makers[m] \in MakerRecord
  BY DEF MakersInv
<1>3. /\ makers[m].quantity \in Int /\ makers[m].filled_quantity \in Int
      /\ Taker!Remaining(makers[m]) = makers[m].quantity - makers[m].filled_quantity
  BY <1>2 DEF MakerRecord, Taker!Remaining
<1> HIDE DEF quantity
<1>4. /\ o = [makers[m] EXCEPT !.filled_quantity = filled,
                !.status = IF filled = makers[m].quantity THEN "FILLED" ELSE "PARTIAL"]
      /\ filled \in Int
  BY <1>1, <1>3 DEF Taker!Filled
<1> HIDE DEF o
<1>5. /\ o \in MakerRecord
      /\ o.quantity = makers[m].quantity /\ o.filled_quantity = filled
      /\ o.status = IF filled = makers[m].quantity THEN "FILLED" ELSE "PARTIAL"
  BY <1>2, <1>4 DEF MakerRecord, Taker!OrderStatus
<1>6. /\ Taker!Remaining(o) = Taker!Remaining(makers[m]) - quantity
      /\ Taker!Remaining(o) \in Int
  BY <1>1, <1>3, <1>5 DEF Taker!Remaining
<1>7. Taker!Remaining(o) % LOT_SIZE = 0
  <2>1. /\ Taker!Remaining(makers[m]) \in Int
        /\ Taker!Remaining(makers[m]) % LOT_SIZE = 0
    BY <1>1 DEF MakerQuantity
  <2> QED
    BY <1>1, <1>6, <2>1, InstrumentConstants, LotsLeft
<1>8. OffersLots(o)
  <2> SUFFICES ASSUME IsResting(o.status) PROVE Taker!Remaining(o) \in MakerQuantity
    BY DEF OffersLots
  <2>1. filled # makers[m].quantity
    BY <1>5 DEF IsResting
  <2>2. Taker!Remaining(o) # 0
    BY <1>1, <1>3, <1>5, <2>1 DEF Taker!Remaining
  <2>3. Taker!Remaining(o) > 0 /\ Taker!Remaining(o) <= Taker!Remaining(makers[m])
    BY <1>1, <1>3, <1>6, <2>2
  <2> QED
    BY <1>1, <1>6, <1>7, <2>3, InstrumentConstants DEF MakerQuantity
<1> QED
  BY <1>1, <1>5, <1>8 DEF MakersInv

LEMMA PreventKeepsMakers ==
    ASSUME MakersInv, NEW m \in Maker, PreventSelfTrade(m)
    PROVE  MakersInv'
<1> DEFINE o == Taker!Cancelled(makers[m], "SELF_TRADE_PREVENTION")
<1>1. makers' = [makers EXCEPT ![m] = o]
  BY DEF PreventSelfTrade
<1>2. o \in MakerRecord /\ o.status = "CANCELLED"
  BY FeedConstants DEF MakersInv, MakerRecord, Taker!Cancelled, Taker!OrderStatus
<1>3. OffersLots(o)
  BY <1>2 DEF OffersLots, IsResting
<1> QED
  BY <1>1, <1>2, <1>3 DEF MakersInv

(* Every step of the engine is a step of the sweep, and the readers take none. *)
LEMMA FeedStep == IInv /\ MakersInv /\ [FeedNext]_feedVars => [Next]_vars /\ IInv' /\ MakersInv'
<1> SUFFICES ASSUME IInv, MakersInv, [FeedNext]_feedVars PROVE [Next]_vars /\ MakersInv'
  BY NextKeepsIInv
<1>1. ASSUME NEW m \in Maker, Match(m) PROVE [Next]_vars /\ MakersInv'
  BY <1>1, MatchTakesLots, MatchKeepsMakers DEF Next
<1>2. ASSUME NEW m \in Maker, PreventSelfTrade(m) PROVE [Next]_vars /\ MakersInv'
  BY <1>2, PreventKeepsMakers DEF PreventSelfTrade
<1>3. ASSUME NEW m \in Maker, StopAtCap(m) PROVE [Next]_vars /\ MakersInv'
  <2>1. makers[m].price \in MakerPrice
    BY DEF MakersInv, MakerRecord
  <2> QED
    BY <1>3, <2>1 DEF StopAtCap, Next, MakersInv, OffersLots
<1>4. CASE StopAtEnd
  BY <1>4 DEF StopAtEnd, Next, MakersInv, OffersLots
<1>5. CASE Read
  BY <1>5 DEF Read, MakersInv, OffersLots
<1>6. CASE UNCHANGED feedVars
  BY <1>6 DEF feedVars, vars, MakersInv, OffersLots
<1> QED
  BY <1>1, <1>2, <1>3, <1>4, <1>5, <1>6 DEF FeedNext

(* A sweep over a real book, with its records and readers, is a sweep: the   *)
(* spending limit and all the rest above hold of it.                         *)
THEOREM FeedIsASweep == FeedSpec => Spec
<1>1. FeedSpec => [](IInv /\ MakersInv)
  BY FeedInitInv, FeedStep, PTL DEF FeedSpec
<1> QED
  BY <1>1, FeedInitInv, FeedStep, PTL DEF FeedSpec, Spec
(* The cap.  A cancelled taker sweeps no more, so what was true of the book   *)
(* and of the money when it was stopped stays true.                          *)
SpentInv ==
    /\ CapMeansSpent
    /\ order.cancel_reason = "NOTIONAL_CAP_REACHED" => order.status = "CANCELLED"

(* Nothing affordable: a lot costs all that is left, or more.                *)
LEMMA CapLeavesNoLot ==
    ASSUME IInv, NEW price \in MakerPrice, CapReached(price)
    PROVE  NotionalCad(LOT_SIZE, price, order.side) >= reserved_cad - spent
<1>1. reserved_cad - spent \in Nat /\ price \in Nat \ {0} /\ LOT_SIZE \in Nat \ {0}
  BY SweepConstants, InstrumentConstants DEF IInv, Accounts, WithinReservation, ValidPrice
<1>2. AffordableQuantity(reserved_cad - spent, price, LOT_SIZE) = 0
  BY DEF CapReached, Affordable
<1>3. LOT_SIZE % LOT_SIZE = 0
  <2>1. LOT_SIZE = LOT_SIZE * 1
    BY <1>1
  <2> QED
    BY <1>1, <2>1, Multiples
<1> QED
  BY <1>1, <1>2, <1>3, NoLotIsWasted

LEMMA FeedKeepsSpent == IInv /\ MakersInv /\ SpentInv /\ [FeedNext]_feedVars => SpentInv'
<1> SUFFICES ASSUME IInv, MakersInv, SpentInv, [FeedNext]_feedVars PROVE SpentInv'
  OBVIOUS
<1>1. /\ order \in TakerP!Record
      /\ Sweeping => order.cancel_reason # "NOTIONAL_CAP_REACHED"
  BY DEF IInv, TakerP!IInv, TakerP!TypeOK, SpentInv, Sweeping, Taker!IsTerminal
<1>2. ASSUME NEW m \in Maker, Match(m) PROVE SpentInv'
  <2>1. Sweeping /\ \E quantity : Taker!Fill(quantity)
    BY <1>2 DEF Match, Trade
  <2>2. order'.cancel_reason = order.cancel_reason
    BY <1>1, <2>1 DEF Taker!Fill, Taker!Filled, TakerP!Record
  <2> QED
    BY <1>1, <2>1, <2>2 DEF SpentInv, CapMeansSpent
<1>3. ASSUME NEW m \in Maker, PreventSelfTrade(m) PROVE SpentInv'
  BY <1>1, <1>3 DEF PreventSelfTrade, vars, SpentInv, CapMeansSpent
<1>4. ASSUME NEW m \in Maker, StopAtCap(m) PROVE SpentInv'
  <2>1. /\ IsResting(makers[m].status) /\ CapReached(makers[m].price)
        /\ makers[m].price \in MakerPrice /\ makers' = makers
    BY <1>4 DEF StopAtCap, Met, MakersInv, MakerRecord
  <2>2. /\ order'.status = "CANCELLED" /\ order'.side = order.side
        /\ reserved_cad' = reserved_cad /\ spent' = spent
    BY <1>1, <2>1 DEF CapReached, Taker!Cancel, Taker!Cancelled, TakerP!Record
  <2> QED
    BY <2>1, <2>2, CapLeavesNoLot DEF SpentInv, CapMeansSpent
<1>5. CASE StopAtEnd
  <2>1. order'.cancel_reason = "IOC_REMAINDER"
    BY <1>1, <1>5 DEF StopAtEnd, BookExhausted, Taker!Cancel, Taker!Cancelled, TakerP!Record
  <2> QED
    BY <2>1 DEF SpentInv, CapMeansSpent
<1>6. CASE Read
  BY <1>6 DEF Read, vars, SpentInv, CapMeansSpent
<1>7. CASE UNCHANGED feedVars
  BY <1>7 DEF feedVars, vars, SpentInv, CapMeansSpent
<1> QED
  BY <1>2, <1>3, <1>4, <1>5, <1>6, <1>7 DEF FeedNext

(* The cap stops an order only when its money buys no further lot, or just    *)
(* one: the clamp's two floors never leave more unspent.                     *)
THEOREM CapSpendsAll == FeedSpec => []CapMeansSpent
<1> DEFINE All == IInv /\ MakersInv /\ SpentInv
<1>1. FeedInit => SpentInv
  BY SweepConstants DEF FeedInit, Init, Taker!Init, SpentInv, CapMeansSpent
<1>2. FeedInit => All
  BY <1>1, FeedInitInv
<1>3. All /\ [FeedNext]_feedVars => All'
  BY FeedStep, FeedKeepsSpent
<1>4. All => CapMeansSpent
  BY DEF SpentInv
<1> QED
  BY <1>2, <1>3, <1>4, PTL DEF FeedSpec
-----------------------------------------------------------------------------
(* Market data.  What decides about a price is the last record about it: when *)
(* it is still unread, it holds the level; when it is read, the view does, or *)
(* the record was lost.                                                      *)

About(e, price) == e.type = "BookDelta" /\ e.price = price

Unread == (read + 1)..Len(journal)

Known(price) ==
    \/ /\ \A i \in Unread : ~ About(journal[i], price)
       /\ price \in stale \/ view[price] = Level(makers, price)
    \/ \E i \in Unread :
         /\ About(journal[i], price) /\ journal[i].new_qty = Level(makers, price)
         /\ \A j \in Unread : j > i => ~ About(journal[j], price)

LevelsInv ==
    /\ \E S : journal \in Seq(S)
    /\ read \in Nat /\ read <= Len(journal)
    /\ DOMAIN view = MakerPrice
    /\ \A price \in MakerPrice : Known(price)

(* Other prices keep their quantity when one order changes.                  *)
LEMMA OtherLevels ==
    ASSUME MakersInv, NEW m \in Maker, NEW o, o.price = makers[m].price,
           makers' = [makers EXCEPT ![m] = o], NEW price, price # makers[m].price
    PROVE  Level(makers', price) = Level(makers, price)
<1> DEFINE at(book) == {n \in Maker : IsResting(book[n].status) /\ book[n].price = price}
<1>1. \A n \in Maker : n # m => makers'[n] = makers[n]
  BY DEF MakersInv
<1>2. makers'[m] = o
  BY DEF MakersInv
<1>3. \A n \in Maker : n = m => n \notin at(makers) /\ n \notin at(makers')
  BY <1>2
<1>4. at(makers') = at(makers) /\ m \notin at(makers)
  BY <1>1, <1>3
<1>5. [n \in at(makers') |-> Taker!Remaining(makers'[n])]
        = [n \in at(makers) |-> Taker!Remaining(makers[n])]
  BY <1>1, <1>4
<1> QED
  BY <1>5 DEF Level

(* Records that end with the news about a price keep what is known.          *)
LEMMA EmitKeepsLevels ==
    ASSUME LevelsInv, NEW S, NEW records \in Seq(S), Emit(records),
           \A price \in MakerPrice :
              \/ /\ \A k \in 1..Len(records) : ~ About(records[k], price)
                 /\ Level(makers', price) = Level(makers, price)
              \/ \E k \in 1..Len(records) :
                   /\ About(records[k], price)
                   /\ records[k].new_qty = Level(makers', price)
                   /\ \A j \in 1..Len(records) : j > k => ~ About(records[j], price)
    PROVE  LevelsInv'
<1>1. /\ journal' = journal \o records /\ read' = read /\ view' = view /\ stale' = stale
  BY DEF Emit, readers
<1>2. PICK T : journal \in Seq(T)
  BY DEF LevelsInv
<1>3. /\ journal' \in Seq(S \cup T)
      /\ Len(journal') = Len(journal) + Len(records)
      /\ \A i \in 1..Len(journal) : journal'[i] = journal[i]
      /\ \A k \in 1..Len(records) : journal'[Len(journal) + k] = records[k]
  BY <1>1, <1>2
<1>4. /\ Len(journal) \in Nat /\ Len(records) \in Nat /\ read \in Nat /\ read <= Len(journal)
  BY <1>2 DEF LevelsInv
<1>5. /\ Unread = (read + 1)..Len(journal)
      /\ Unread' = (read + 1)..(Len(journal) + Len(records))
  BY <1>1, <1>3 DEF Unread
<1>6. ASSUME NEW price \in MakerPrice PROVE Known(price)'
  <2>1. CASE /\ \A k \in 1..Len(records) : ~ About(records[k], price)
             /\ Level(makers', price) = Level(makers, price)
    <3>1. \A i \in Unread' : i \in Unread \/ ~ About(journal'[i], price)
      <4> SUFFICES ASSUME NEW i \in Unread', i \notin Unread PROVE ~ About(journal'[i], price)
        OBVIOUS
      <4>1. i - Len(journal) \in 1..Len(records) /\ i = Len(journal) + (i - Len(journal))
        BY <1>4, <1>5
      <4> QED
        BY <1>3, <2>1, <4>1
    <3>2. \A i \in Unread : i \in Unread' /\ journal'[i] = journal[i]
      BY <1>3, <1>4, <1>5
    <3>3. Known(price)
      BY DEF LevelsInv
    <3>4. CASE /\ \A i \in Unread : ~ About(journal[i], price)
               /\ price \in stale \/ view[price] = Level(makers, price)
      BY <1>1, <2>1, <3>1, <3>2, <3>4 DEF Known
    <3>5. ASSUME NEW i \in Unread,
                 About(journal[i], price), journal[i].new_qty = Level(makers, price),
                 \A j \in Unread : j > i => ~ About(journal[j], price)
          PROVE  Known(price)'
      <4>1. i \in Unread' /\ About(journal'[i], price)
            /\ journal'[i].new_qty = Level(makers', price)
        BY <2>1, <3>2, <3>5
      <4>2. \A j \in Unread' : j > i => ~ About(journal'[j], price)
        BY <3>1, <3>2, <3>5
      <4> QED
        BY <4>1, <4>2 DEF Known
    <3> QED
      BY <3>3, <3>4, <3>5 DEF Known
  <2>2. ASSUME NEW k \in 1..Len(records), About(records[k], price),
               records[k].new_qty = Level(makers', price),
               \A j \in 1..Len(records) : j > k => ~ About(records[j], price)
        PROVE  Known(price)'
    <3> DEFINE i == Len(journal) + k
    <3>1. i \in Unread' /\ journal'[i] = records[k]
      BY <1>3, <1>4, <1>5
    <3>2. ASSUME NEW j \in Unread', j > i PROVE ~ About(journal'[j], price)
      <4>1. j - Len(journal) \in 1..Len(records) /\ j - Len(journal) > k
            /\ j = Len(journal) + (j - Len(journal))
        BY <1>4, <1>5, <3>2
      <4> QED
        BY <1>3, <2>2, <4>1
    <3> QED
      BY <2>2, <3>1, <3>2 DEF Known
  <2> QED
    BY <2>1, <2>2
<1>7. read' <= Len(journal')
  BY <1>1, <1>3, <1>4
<1> QED
  BY <1>1, <1>3, <1>4, <1>6, <1>7 DEF LevelsInv

LEMMA MatchKeepsLevels ==
    ASSUME IInv, MakersInv, LevelsInv, NEW m \in Maker, Match(m)
    PROVE  LevelsInv'
<1> DEFINE quantity == order'.filled_quantity - order.filled_quantity
           o == Taker!Filled(makers[m], quantity)
<1>1. makers' = [makers EXCEPT ![m] = o] /\ makers[m].price \in MakerPrice
  BY MatchTakesLots
<1>2. o.price = makers[m].price
  BY DEF Taker!Filled, MakersInv, MakerRecord
<1> HIDE DEF o
<1>3. makers'[m].price = makers[m].price
  BY <1>1, <1>2 DEF MakersInv
<1>4. PICK trade \in TradeRecord(m, makers[m].price, quantity, order.side), place \in WriteOrders :
        LET records == <<trade, OrderFilled(TakerId, order', quantity),
                         OrderFilled(m, makers'[m], quantity), BookDelta(m, makers')>>
        IN  Emit([i \in 1..4 |-> records[place[i]]])
  BY DEF Match
<1> DEFINE news == BookDelta(m, makers')
           filled == OrderFilled(TakerId, order', quantity)
           sold == OrderFilled(m, makers'[m], quantity)
           records == <<trade, filled, sold, news>>
           written == [i \in 1..4 |-> records[place[i]]]
<1>5. /\ trade.type # "BookDelta" /\ filled.type # "BookDelta" /\ sold.type # "BookDelta"
      /\ About(news, makers[m].price) /\ news.new_qty = Level(makers', makers[m].price)
      /\ \A price : About(news, price) => price = makers[m].price
  BY <1>3 DEF TradeRecord, OrderFilled, BookDelta, About
<1> HIDE DEF news, filled, sold
<1>6. Emit(written)
  BY <1>4 DEF news, filled, sold
<1>7. records[1] = trade /\ records[2] = filled /\ records[3] = sold /\ records[4] = news
  OBVIOUS
<1> HIDE DEF records
<1>8. /\ \A k \in 1..4 : place[k] \in 1..4
      /\ \A i, k \in 1..4 : place[i] = place[k] => i = k
      /\ \E k \in 1..4 : place[k] = 4
  BY FeedConstants DEF Bijection, Injection, Surjection, IsInjective
<1>9. /\ written \in Seq({records[place[i]] : i \in 1..4}) /\ Len(written) = 4
      /\ \A k \in 1..4 : written[k] = records[place[k]]
  OBVIOUS
<1> HIDE DEF written
<1>10. ASSUME NEW k \in 1..4, NEW price, About(written[k], price)
       PROVE  place[k] = 4 /\ price = makers[m].price
  <2>1. place[k] = 1 \/ place[k] = 2 \/ place[k] = 3 \/ place[k] = 4
    BY <1>8
  <2> QED
    BY <1>5, <1>7, <1>9, <1>10, <2>1 DEF About
<1>11. ASSUME NEW price \in MakerPrice
       PROVE  \/ /\ \A k \in 1..Len(written) : ~ About(written[k], price)
                 /\ Level(makers', price) = Level(makers, price)
              \/ \E k \in 1..Len(written) :
                   /\ About(written[k], price)
                   /\ written[k].new_qty = Level(makers', price)
                   /\ \A j \in 1..Len(written) : j > k => ~ About(written[j], price)
  <2>1. CASE price = makers[m].price
    <3>1. PICK k \in 1..4 : place[k] = 4
      BY <1>8
    <3>2. written[k] = news
      BY <1>7, <1>9, <3>1
    <3>3. \A j \in 1..4 : j > k => ~ About(written[j], price)
      BY <1>8, <1>10, <3>1
    <3> QED
      BY <1>5, <1>9, <2>1, <3>2, <3>3
  <2>2. CASE price # makers[m].price
    <3>1. \A k \in 1..4 : ~ About(written[k], price)
      BY <1>10, <2>2
    <3>2. Level(makers', price) = Level(makers, price)
      BY <1>1, <1>2, <2>2, OtherLevels
    <3> QED
      BY <1>9, <3>1, <3>2
  <2> QED
    BY <2>1, <2>2
<1> QED
  BY <1>6, <1>9, <1>11, EmitKeepsLevels

LEMMA PreventKeepsLevels ==
    ASSUME MakersInv, LevelsInv, NEW m \in Maker, PreventSelfTrade(m)
    PROVE  LevelsInv'
<1> DEFINE o == Taker!Cancelled(makers[m], "SELF_TRADE_PREVENTION")
           gone == OrderCancelled(m, "SELF_TRADE_PREVENTION")
           news == BookDelta(m, makers')
           records == <<gone, news>>
<1>1. makers' = [makers EXCEPT ![m] = o] /\ Emit(records)
  BY DEF PreventSelfTrade
<1>2. o.price = makers[m].price /\ makers[m].price \in MakerPrice
  BY DEF Taker!Cancelled, MakersInv, MakerRecord
<1> HIDE DEF o
<1>3. makers'[m].price = makers[m].price
  BY <1>1, <1>2 DEF MakersInv
<1>4. /\ gone.type # "BookDelta"
      /\ About(news, makers[m].price) /\ news.new_qty = Level(makers', makers[m].price)
      /\ \A price : About(news, price) => price = makers[m].price
  BY <1>3 DEF OrderCancelled, BookDelta, About
<1> HIDE DEF news, gone
<1>5. /\ records \in Seq({gone, news}) /\ Len(records) = 2
      /\ records[1] = gone /\ records[2] = news
  OBVIOUS
<1> HIDE DEF records
<1>6. ASSUME NEW price \in MakerPrice
      PROVE  \/ /\ \A k \in 1..Len(records) : ~ About(records[k], price)
                /\ Level(makers', price) = Level(makers, price)
             \/ \E k \in 1..Len(records) :
                  /\ About(records[k], price)
                  /\ records[k].new_qty = Level(makers', price)
                  /\ \A j \in 1..Len(records) : j > k => ~ About(records[j], price)
  <2>1. CASE price = makers[m].price
    BY <1>4, <1>5, <2>1
  <2>2. CASE price # makers[m].price
    <3>1. ~ About(gone, price) /\ ~ About(news, price)
      BY <1>4, <2>2 DEF About
    <3>2. \A k \in 1..2 : ~ About(records[k], price)
      BY <1>5, <3>1
    <3>3. Level(makers', price) = Level(makers, price)
      BY <1>1, <1>2, <2>2, OtherLevels
    <3> QED
      BY <1>5, <3>2, <3>3
  <2> QED
    BY <2>1, <2>2
<1> QED
  BY <1>1, <1>5, <1>6, EmitKeepsLevels

(* Records of the taker say nothing about the book.                          *)
LEMMA StopKeepsLevels ==
    ASSUME LevelsInv, UNCHANGED makers, NEW reason, Emit(<<OrderCancelled(TakerId, reason)>>)
    PROVE  LevelsInv'
<1> DEFINE gone == OrderCancelled(TakerId, reason)
           records == <<gone>>
<1>1. \A price : ~ About(gone, price)
  BY DEF OrderCancelled, About
<1> HIDE DEF gone
<1>2. records \in Seq({gone}) /\ Len(records) = 1 /\ records[1] = gone
  OBVIOUS
<1>3. Emit(records)
  BY DEF gone
<1> HIDE DEF records
<1>4. \A k \in 1..Len(records) : \A price : ~ About(records[k], price)
  BY <1>1, <1>2
<1>5. \A price : Level(makers', price) = Level(makers, price)
  OBVIOUS
<1> QED
  BY <1>2, <1>3, <1>4, <1>5, EmitKeepsLevels

LEMMA ReadKeepsLevels == LevelsInv /\ Read => LevelsInv'
<1> SUFFICES ASSUME LevelsInv, Read PROVE LevelsInv'
  OBVIOUS
<1> DEFINE e == journal[read + 1]
<1>1. /\ read' = read + 1 /\ journal' = journal /\ makers' = makers
      /\ read < Len(journal) /\ Show(e)
  BY DEF Read
<1>2. read \in Nat /\ Len(journal) \in Nat
  BY DEF LevelsInv
<1>3. /\ read + 1 \in Unread /\ read + 1 \notin Unread'
      /\ \A i \in Unread : i # read + 1 => i \in Unread'
      /\ \A i \in Unread' : i \in Unread
  BY <1>1, <1>2 DEF Unread
<1>4. DOMAIN view' = MakerPrice
  BY <1>1 DEF Show, LevelsInv
<1>5. ASSUME NEW price \in MakerPrice PROVE Known(price)'
  <2>1. Known(price) /\ Level(makers', price) = Level(makers, price)
    BY <1>1 DEF LevelsInv
  <2>2. CASE /\ \A i \in Unread : ~ About(journal[i], price)
             /\ price \in stale \/ view[price] = Level(makers, price)
    <3>1. ~ About(e, price)
      BY <1>3, <2>2
    <3>2. view'[price] = view[price] /\ (price \in stale => price \in stale')
      BY <1>1, <3>1 DEF Show, About, LevelsInv
    <3> QED
      BY <1>1, <1>3, <2>1, <2>2, <3>2 DEF Known
  <2>3. ASSUME NEW i \in Unread,
               About(journal[i], price), journal[i].new_qty = Level(makers, price),
               \A j \in Unread : j > i => ~ About(journal[j], price)
        PROVE  Known(price)'
    <3>1. CASE i = read + 1
      <4>1. price \in stale' \/ view'[price] = Level(makers, price)
        BY <1>1, <2>3, <3>1 DEF Show, About, LevelsInv
      <4>2. \A j \in Unread' : ~ About(journal[j], price)
        BY <1>1, <1>2, <2>3, <3>1 DEF Unread
      <4> QED
        BY <1>1, <2>1, <4>1, <4>2 DEF Known
    <3>2. CASE i # read + 1
      BY <1>1, <1>3, <2>1, <2>3, <3>2 DEF Known
    <3> QED
      BY <3>1, <3>2
  <2> QED
    BY <2>1, <2>2, <2>3 DEF Known
<1>6. read' \in Nat /\ read' <= Len(journal')
  BY <1>1, <1>2
<1>7. \E S : journal' \in Seq(S)
  BY <1>1 DEF LevelsInv
<1> QED
  BY <1>4, <1>5, <1>6, <1>7 DEF LevelsInv

LEMMA FeedInitLevels == FeedInit => LevelsInv
<1> SUFFICES ASSUME FeedInit PROVE LevelsInv
  OBVIOUS
<1> DEFINE e == OrderAccepted(EngineOrder(TakerId))
<1>1. e.type = "OrderAccepted"
  BY DEF OrderAccepted
<1> HIDE DEF e
<1>2. journal = <<e>> /\ read = 0
  BY DEF FeedInit, e
<1>3. journal \in Seq({e}) /\ Len(journal) = 1 /\ journal[1] = e /\ Unread = 1..1
  BY <1>2 DEF Unread
<1>4. view = [price \in MakerPrice |-> Level(makers, price)]
  BY DEF FeedInit
<1>5. \A i \in Unread : \A price : ~ About(journal[i], price)
  BY <1>1, <1>3 DEF About
<1>6. \A price \in MakerPrice : Known(price)
  BY <1>4, <1>5 DEF Known
<1>7. DOMAIN view = MakerPrice
  BY <1>4
<1>8. \E S : journal \in Seq(S)
  BY <1>3
<1>9. read \in Nat /\ read <= Len(journal)
  BY <1>2, <1>3
<1> QED
  BY <1>6, <1>7, <1>8, <1>9 DEF LevelsInv

LEMMA FeedKeepsLevels == IInv /\ MakersInv /\ LevelsInv /\ [FeedNext]_feedVars => LevelsInv'
<1> SUFFICES ASSUME IInv, MakersInv, LevelsInv, [FeedNext]_feedVars PROVE LevelsInv'
  OBVIOUS
<1>1. CASE StopAtEnd
  BY <1>1, StopKeepsLevels DEF StopAtEnd
<1>2. ASSUME NEW m \in Maker, StopAtCap(m) PROVE LevelsInv'
  BY <1>2, StopKeepsLevels DEF StopAtCap
<1>3. CASE UNCHANGED feedVars
  BY <1>3 DEF feedVars, readers, LevelsInv, Known, Unread
<1> QED
  BY <1>1, <1>2, <1>3, MatchKeepsLevels, PreventKeepsLevels, ReadKeepsLevels DEF FeedNext

(* A lost record spoils one price, until the next record about it.           *)
THEOREM LevelsRecover == FeedSpec => []OnlyLostLevelsAreWrong
<1>1. /\ IInv /\ MakersInv /\ LevelsInv /\ [FeedNext]_feedVars
      => (IInv /\ MakersInv /\ LevelsInv)'
  BY FeedStep, FeedKeepsLevels
<1>2. LevelsInv => OnlyLostLevelsAreWrong
  <2> SUFFICES ASSUME LevelsInv, CaughtUp, NEW price \in MakerPrice \ stale
               PROVE  view[price] = Level(makers, price)
    BY DEF OnlyLostLevelsAreWrong
  <2>1. \A i \in Unread : FALSE
    BY DEF LevelsInv, CaughtUp, Unread
  <2> QED
    BY <2>1 DEF LevelsInv, Known
<1> QED
  BY <1>1, <1>2, FeedInitInv, FeedInitLevels, PTL DEF FeedSpec
-----------------------------------------------------------------------------
(* Replay and ledger.  What they will make of the unread records is a trace of *)
(* their states, one per record: it starts with what they have, and it ends    *)
(* with what the engine has.                                                   *)

OrderRecord ==
    [side : Taker!Side, order_type : Taker!OrderType, time_in_force : Taker!TimeInForce,
     price : MakerPrice \cup {None}, quantity : Int, filled_quantity : Int,
     status : Taker!OrderStatus, cancel_reason : Reason \cup {None}]

WholeOrder ==
    [order_id : OrderId, side : Taker!Side, order_type : Taker!OrderType,
     time_in_force : Taker!TimeInForce, price : MakerPrice \cup {None}, quantity : Int,
     filled_quantity : Int, status : Taker!OrderStatus, cancel_reason : Reason \cup {None},
     reserved_cad : Reserved \cup {None}]

Engine(o, book, reserved) ==
    [id \in OrderId |-> IF id = TakerId THEN Codec!Whole(o, id, reserved)
                                        ELSE Codec!Whole(book[id], id, None)]

AfterReplay(e, r) ==
    IF e.type = "OrderAccepted"
    THEN LET o == CHOOSE o \in Codec!OrderFromDict(e.order) : TRUE IN [r EXCEPT ![o.order_id] = o]
    ELSE IF e.type = "OrderFilled"
    THEN [r EXCEPT ![e.order_id].filled_quantity = r[e.order_id].quantity - e.remaining,
                   ![e.order_id].status = e.status]
    ELSE IF e.type = "OrderCancelled"
    THEN [r EXCEPT ![e.order_id] = Taker!Cancelled(@, e.reason)]
    ELSE r

Buyer(e) == IF e.taker_side = "BUY" THEN e.taker_account ELSE e.maker_account
Seller(e) == IF e.taker_side = "BUY" THEN e.maker_account ELSE e.taker_account
Cost(e) == NotionalCad(e.quantity, e.price, e.taker_side)

After(e, s) ==
    [replica |-> AfterReplay(e, s.replica),
     cad |-> IF e.type = "Trade"
             THEN [s.cad EXCEPT ![Buyer(e)] = @ - Cost(e), ![Seller(e)] = @ + Cost(e)] ELSE s.cad,
     usd |-> IF e.type = "Trade"
             THEN [s.usd EXCEPT ![Buyer(e)] = @ + e.quantity, ![Seller(e)] = @ - e.quantity]
             ELSE s.usd]

(* the codec reads the record, and in one way *)
Readable(e) == e.type = "OrderAccepted" => \E o : Codec!OrderFromDict(e.order) = {o}

Leads(e, s, t) == Readable(e) /\ t = After(e, s)

Present == [replica |-> replica, cad |-> cad, usd |-> usd]

(* a state of the readers that fits the engine's orders and what was spent    *)
Agrees(s, engine, paid) ==
    /\ s = [replica |-> engine, cad |-> s.cad, usd |-> s.usd]
    /\ s.cad \in [OrderId -> Int] /\ s.usd \in [OrderId -> Int]
    /\ s.cad[TakerId] = 0 - paid
    /\ s.usd[TakerId] = engine[TakerId].filled_quantity
    /\ \A m \in Maker \ Own : s.usd[m] = 0 - engine[m].filled_quantity

(* a state of the readers that the engine has left behind                    *)
Covered(s, engine, paid) ==
    /\ s.cad[TakerId] \in Int /\ 0 - s.cad[TakerId] <= paid
    /\ s.usd[TakerId] \in Int /\ s.usd[TakerId] <= engine[TakerId].filled_quantity
    /\ \A id \in OrderId : s.replica[id] # None =>
         s.replica[id] \in WholeOrder /\ Precedes(s.replica[id], engine[id])

TraceInv ==
    \E trace :
        /\ trace[read] = Present
        /\ \A i \in Unread : Leads(journal[i], trace[i - 1], trace[i])
        /\ \A i \in read..Len(journal) : Covered(trace[i], Engine(order, makers, reserved_cad), spent)
        /\ Agrees(trace[Len(journal)], Engine(order, makers, reserved_cad), spent)

LEMMA OrdersOfTheEngine ==
    IInv /\ MakersInv =>
        /\ order \in OrderRecord /\ makers \in [Maker -> OrderRecord]
        /\ reserved_cad \in Reserved /\ spent \in Nat
<1> SUFFICES ASSUME IInv, MakersInv
             PROVE  /\ order \in OrderRecord /\ makers \in [Maker -> OrderRecord]
                    /\ reserved_cad \in Reserved /\ spent \in Nat
  OBVIOUS
<1>1. order \in TakerP!Record /\ reserved_cad \in Reserved /\ spent \in Nat
  BY DEF IInv, TakerP!IInv, TakerP!TypeOK, Accounts
<1>2. order \in OrderRecord
  BY <1>1, SweepConstants DEF TakerP!Record, OrderRecord, Taker!Side, TakerP!Side, Taker!OrderType,
     TakerP!OrderType, Taker!TimeInForce, TakerP!TimeInForce, Taker!OrderStatus, TakerP!OrderStatus
<1>3. \A m \in Maker : makers[m] \in OrderRecord
  BY DEF MakersInv, MakerRecord, OrderRecord, Taker!Side, Taker!OrderType, Taker!TimeInForce
<1>4. makers = [m \in Maker |-> makers[m]]
  BY DEF MakersInv
<1> QED
  BY <1>1, <1>2, <1>3, <1>4

LEMMA EngineType ==
    ASSUME NEW o \in OrderRecord, NEW book \in [Maker -> OrderRecord], NEW reserved \in Reserved
    PROVE  /\ Engine(o, book, reserved) \in [OrderId -> WholeOrder]
           /\ Engine(o, book, reserved)[TakerId] = Codec!Whole(o, TakerId, reserved)
           /\ \A m \in Maker : Engine(o, book, reserved)[m] = Codec!Whole(book[m], m, None)
<1>1. ASSUME NEW p \in OrderRecord, NEW id \in OrderId, NEW money \in Reserved \cup {None}
      PROVE  Codec!Whole(p, id, money) \in WholeOrder
  BY DEF Codec!Whole, OrderRecord, WholeOrder
<1>2. TakerId \in OrderId /\ \A m \in Maker : m \in OrderId /\ m # TakerId
  BY FeedConstants DEF OrderId
<1>3. ASSUME NEW id \in OrderId PROVE Engine(o, book, reserved)[id] \in WholeOrder
  BY <1>1, <1>3 DEF Engine, OrderId
<1>4. Engine(o, book, reserved) = [id \in OrderId |-> Engine(o, book, reserved)[id]]
  BY DEF Engine
<1> QED
  BY <1>2, <1>3, <1>4 DEF Engine

(* What an order's methods do to it they do to the whole record.             *)
SameTerms(o, id, money, filled, status, reason) ==
    [order_id : {id}, side : {o.side}, order_type : {o.order_type},
     time_in_force : {o.time_in_force}, price : {o.price}, quantity : {o.quantity},
     filled_quantity : {filled}, status : {status}, cancel_reason : {reason},
     reserved_cad : {money}]

(* A record is known by its fields.                                          *)
LEMMA OnlyOneRecord ==
    ASSUME NEW o, NEW id, NEW money, NEW filled, NEW status, NEW reason,
           NEW u \in SameTerms(o, id, money, filled, status, reason),
           NEW v \in SameTerms(o, id, money, filled, status, reason)
    PROVE  u = v
  BY DEF SameTerms

(* The fields that are added are not the ones the engine looks at.           *)
LEMMA WholeReads ==
    ASSUME NEW o, NEW id, NEW money
    PROVE  /\ Codec!Whole(o, id, money).status = o.status
           /\ Taker!Remaining(Codec!Whole(o, id, money)) = Taker!Remaining(o)
  BY DEF Codec!Whole, Taker!Remaining

(* Cancelling before the fields are added or after it is the same.           *)
LEMMA WholeCancelled ==
    ASSUME NEW o \in OrderRecord, NEW id, NEW money, NEW reason
    PROVE  Codec!Whole(Taker!Cancelled(o, reason), id, money)
             = Taker!Cancelled(Codec!Whole(o, id, money), reason)
<1> DEFINE w == Codec!Whole(o, id, money)
           p == Taker!Cancelled(o, reason)
           u == Codec!Whole(p, id, money)
           v == Taker!Cancelled(w, reason)
<1>1. w \in SameTerms(o, id, money, o.filled_quantity, o.status, o.cancel_reason)
  BY DEF Codec!Whole, SameTerms
<1>2. /\ p.side = o.side /\ p.order_type = o.order_type /\ p.time_in_force = o.time_in_force
      /\ p.price = o.price /\ p.quantity = o.quantity
      /\ p.filled_quantity = o.filled_quantity /\ p.status = "CANCELLED"
      /\ p.cancel_reason = reason
  BY DEF Taker!Cancelled, OrderRecord
<1> HIDE DEF p, w
<1>3. u \in SameTerms(o, id, money, o.filled_quantity, "CANCELLED", reason)
  BY <1>2 DEF Codec!Whole, SameTerms
<1>4. v \in SameTerms(o, id, money, o.filled_quantity, "CANCELLED", reason)
  BY <1>1 DEF Taker!Cancelled, SameTerms
<1> HIDE DEF u, v
<1>5. u = v
  BY <1>3, <1>4, OnlyOneRecord
<1> QED
  BY <1>5 DEF u, v, p, w

(* So it is with a fill.                                                     *)
LEMMA WholeFilled ==
    ASSUME NEW o \in OrderRecord, NEW id, NEW money, NEW quantity \in Nat
    PROVE  Codec!Whole(Taker!Filled(o, quantity), id, money)
             = Taker!Filled(Codec!Whole(o, id, money), quantity)
<1> DEFINE w == Codec!Whole(o, id, money)
           filled == o.filled_quantity + quantity
           status == IF filled = o.quantity THEN "FILLED" ELSE "PARTIAL"
           p == Taker!Filled(o, quantity)
           u == Codec!Whole(p, id, money)
           v == Taker!Filled(w, quantity)
<1>1. w \in SameTerms(o, id, money, o.filled_quantity, o.status, o.cancel_reason)
  BY DEF Codec!Whole, SameTerms
<1>2. /\ p.side = o.side /\ p.order_type = o.order_type /\ p.time_in_force = o.time_in_force
      /\ p.price = o.price /\ p.quantity = o.quantity
      /\ p.filled_quantity = filled /\ p.status = status
      /\ p.cancel_reason = o.cancel_reason
  BY DEF Taker!Filled, OrderRecord
<1>3. w.filled_quantity = o.filled_quantity /\ w.quantity = o.quantity
  BY DEF Codec!Whole
<1> HIDE DEF p, w
<1>4. v = [w EXCEPT !.filled_quantity = filled, !.status = status]
  BY <1>3 DEF Taker!Filled
<1> HIDE DEF filled, status
<1>5. u \in SameTerms(o, id, money, filled, status, o.cancel_reason)
  BY <1>2 DEF Codec!Whole, SameTerms
<1>6. v \in SameTerms(o, id, money, filled, status, o.cancel_reason)
  BY <1>1, <1>4 DEF SameTerms
<1> HIDE DEF u, v
<1>7. u = v
  BY <1>5, <1>6, OnlyOneRecord
<1> QED
  BY <1>7 DEF u, v, p, w

LEMMA FilledIsOrder ==
    ASSUME NEW o \in WholeOrder, NEW quantity \in Nat
    PROVE  /\ Taker!Filled(o, quantity) \in WholeOrder
           /\ Taker!Filled(o, quantity).filled_quantity = o.filled_quantity + quantity
           /\ o.filled_quantity \in Int
<1> DEFINE filled == o.filled_quantity + quantity
           status == IF filled = o.quantity THEN "FILLED" ELSE "PARTIAL"
<1>1. /\ Taker!Filled(o, quantity) = [o EXCEPT !.filled_quantity = filled, !.status = status]
      /\ filled \in Int /\ status \in Taker!OrderStatus
  BY DEF Taker!Filled, WholeOrder, Taker!OrderStatus
<1> HIDE DEF filled, status
<1>2. /\ Taker!Filled(o, quantity) \in WholeOrder
      /\ Taker!Filled(o, quantity).filled_quantity = filled /\ o.filled_quantity \in Int
  BY <1>1 DEF WholeOrder
<1> QED
  BY <1>2 DEF filled

(* A record of a fill turns the order before it into the order after it.     *)
LEMMA FillReplays ==
    ASSUME NEW r \in [OrderId -> WholeOrder], NEW id \in OrderId, NEW quantity \in Nat,
           NEW e, e.type = "OrderFilled", e.order_id = id,
           e.remaining = Taker!Remaining(Taker!Filled(r[id], quantity)),
           e.status = Taker!Filled(r[id], quantity).status
    PROVE  AfterReplay(e, r) = [r EXCEPT ![id] = Taker!Filled(@, quantity)]
<1> DEFINE filled == r[id].filled_quantity + quantity
           status == IF filled = r[id].quantity THEN "FILLED" ELSE "PARTIAL"
           o == Taker!Filled(r[id], quantity)
<1>1. /\ o = [r[id] EXCEPT !.filled_quantity = filled, !.status = status]
      /\ filled \in Int /\ r[id] \in WholeOrder
  BY DEF Taker!Filled, WholeOrder
<1> HIDE DEF o, filled, status
<1>2. /\ o.quantity = r[id].quantity
      /\ o.filled_quantity = filled /\ o.status = status
      /\ o = [r[id] EXCEPT !.filled_quantity = o.filled_quantity, !.status = o.status]
  BY <1>1 DEF WholeOrder
<1>3. e.remaining = Taker!Remaining(o) /\ e.status = o.status
  BY DEF o
<1>4. r[id].quantity - e.remaining = o.filled_quantity
  BY <1>1, <1>2, <1>3 DEF Taker!Remaining, WholeOrder
<1>5. AfterReplay(e, r) = [r EXCEPT ![id].filled_quantity = o.filled_quantity, ![id].status = o.status]
  BY <1>3, <1>4 DEF AfterReplay
<1>6. [r EXCEPT ![id].filled_quantity = o.filled_quantity, ![id].status = o.status]
        = [r EXCEPT ![id] = o]
  BY <1>2
<1> QED
  BY <1>5, <1>6 DEF o

(* The readers do with a record what After says.                             *)
LEMMA ReadIsAfter ==
    ASSUME Read, Readable(journal[read + 1])
    PROVE  Present' = After(journal[read + 1], Present)
<1> DEFINE e == journal[read + 1]
<1>1. Replay(e) /\ Settle(e)
  BY DEF Read
<1>2. replica' = AfterReplay(e, replica)
  <2>1. CASE e.type = "OrderAccepted"
    <3>1. PICK o \in Codec!OrderFromDict(e.order) : replica' = [replica EXCEPT ![o.order_id] = o]
      BY <1>1, <2>1 DEF Replay
    <3>2. Codec!OrderFromDict(e.order) = {o}
      BY <2>1, <3>1 DEF Readable
    <3>3. (CHOOSE p \in Codec!OrderFromDict(e.order) : TRUE) = o
      BY <3>2
    <3> QED
      BY <2>1, <3>1, <3>3 DEF AfterReplay
  <2>2. CASE e.type # "OrderAccepted"
    BY <1>1, <2>2 DEF Replay, AfterReplay
  <2> QED
    BY <2>1, <2>2
<1>3. /\ cad' = After(e, Present).cad
      /\ usd' = After(e, Present).usd
  BY <1>1 DEF Settle, After, Present, Buyer, Seller, Cost
<1> QED
  BY <1>2, <1>3 DEF After, Present

LEMMA ReadKeepsTrace ==
    ASSUME LevelsInv, TraceInv, Read PROVE TraceInv'
<1> DEFINE Now == Engine(order, makers, reserved_cad)
<1>1. /\ read' = read + 1 /\ read < Len(journal) /\ journal' = journal
      /\ order' = order /\ makers' = makers /\ spent' = spent /\ reserved_cad' = reserved_cad
  BY DEF Read, vars
<1>2. read \in Nat /\ Len(journal) \in Nat
  BY DEF LevelsInv
<1>3. PICK trace :
        /\ trace[read] = Present
        /\ \A i \in Unread : Leads(journal[i], trace[i - 1], trace[i])
        /\ \A i \in read..Len(journal) : Covered(trace[i], Now, spent)
        /\ Agrees(trace[Len(journal)], Now, spent)
  BY DEF TraceInv
<1>4. Leads(journal[read + 1], trace[read], trace[read + 1])
  <2>1. read + 1 \in Unread /\ (read + 1) - 1 = read
    BY <1>1, <1>2 DEF Unread
  <2> QED
    BY <1>3, <2>1
<1>5. trace[read'] = Present'
  BY <1>1, <1>3, <1>4, ReadIsAfter DEF Leads
<1>6. \A i \in Unread' : Leads(journal'[i], trace[i - 1], trace[i])
  BY <1>1, <1>2, <1>3 DEF Unread
<1>7. Now' = Now
  BY <1>1
<1> HIDE DEF Now
<1>8. \A i \in read'..Len(journal') : Covered(trace[i], Now', spent')
  BY <1>1, <1>2, <1>3, <1>7
<1>9. Agrees(trace[Len(journal')], Now', spent')
  BY <1>1, <1>3, <1>7
<1> QED
  BY <1>5, <1>6, <1>8, <1>9 DEF TraceInv, Now

(* Being earlier is reflexive and transitive, and an order is earlier than what
   a fill or a cancellation makes of it. *)
LEMMA PrecedesItself ==
    ASSUME NEW o \in WholeOrder PROVE Precedes(o, o)
  BY DEF Precedes, WholeOrder

LEMMA PrecedesThrough ==
    ASSUME NEW a \in WholeOrder, NEW b \in WholeOrder, NEW c \in WholeOrder,
           Precedes(a, b), Precedes(b, c)
    PROVE  Precedes(a, c)
  BY DEF Precedes, WholeOrder

LEMMA PrecedesFilled ==
    ASSUME NEW o \in WholeOrder, NEW quantity \in Nat, ~ Taker!IsTerminal(o.status)
    PROVE  Precedes(o, Taker!Filled(o, quantity))
  BY DEF Precedes, WholeOrder, Taker!Filled

LEMMA PrecedesCancelled ==
    ASSUME NEW o \in WholeOrder, NEW reason, ~ Taker!IsTerminal(o.status)
    PROVE  Precedes(o, Taker!Cancelled(o, reason))
  BY DEF Precedes, WholeOrder, Taker!Cancelled

(* What the engine has done stays done.                                      *)
LEMMA StaysCovered ==
    ASSUME NEW now \in [OrderId -> WholeOrder], NEW paid \in Nat,
           NEW next \in [OrderId -> WholeOrder], NEW paid2 \in Nat,
           \A id \in OrderId : Precedes(now[id], next[id]), paid <= paid2,
           NEW s, Covered(s, now, paid)
    PROVE  Covered(s, next, paid2)
<1>1. s.cad[TakerId] \in Int /\ 0 - s.cad[TakerId] <= paid2
  BY DEF Covered
<1>2. s.usd[TakerId] \in Int /\ s.usd[TakerId] <= next[TakerId].filled_quantity
  <2>1. TakerId \in OrderId
    BY DEF OrderId
  <2>2. /\ now[TakerId].filled_quantity \in Int /\ next[TakerId].filled_quantity \in Int
        /\ now[TakerId].filled_quantity <= next[TakerId].filled_quantity
    BY <2>1 DEF Precedes, WholeOrder
  <2> QED
    BY <2>2 DEF Covered
<1>3. \A id \in OrderId : s.replica[id] # None =>
        s.replica[id] \in WholeOrder /\ Precedes(s.replica[id], next[id])
  BY PrecedesThrough DEF Covered
<1> QED
  BY <1>1, <1>2, <1>3 DEF Covered

(* Readers that have settled all and fit the engine or lag behind it.        *)
LEMMA SettledIsCovered ==
    ASSUME NEW next \in [OrderId -> WholeOrder], NEW paid \in Nat,
           NEW s, Agrees(s, next, paid)
    PROVE  Covered(s, next, paid)
<1>1. s.replica = next /\ TakerId \in OrderId
  BY DEF Agrees, OrderId
<1>2. s.cad[TakerId] \in Int /\ 0 - s.cad[TakerId] <= paid
  BY <1>1 DEF Agrees
<1>3. s.usd[TakerId] \in Int /\ s.usd[TakerId] <= next[TakerId].filled_quantity
  BY <1>1 DEF Agrees, WholeOrder
<1> QED
  BY <1>1, <1>2, <1>3, PrecedesItself DEF Covered

(* records that lead the readers from one state of the engine to another     *)
Continues(records, now, next, paid, paid2) ==
    \A s : Agrees(s, now, paid) =>
        \E steps :
            /\ steps[0] = s
            /\ \A k \in 1..Len(records) :
                 Leads(records[k], steps[k - 1], steps[k]) /\ Covered(steps[k], next, paid2)
            /\ Agrees(steps[Len(records)], next, paid2)

(* Records that lead the readers from the engine's state to its next state   *)
(* continue the trace.                                                       *)
LEMMA EmitKeepsTrace ==
    ASSUME LevelsInv, TraceInv, spent \in Nat, spent' \in Nat, spent <= spent',
           NEW now \in [OrderId -> WholeOrder], now = Engine(order, makers, reserved_cad),
           NEW next \in [OrderId -> WholeOrder], next = Engine(order', makers', reserved_cad'),
           \A id \in OrderId : Precedes(now[id], next[id]),
           NEW S, NEW records \in Seq(S), Emit(records),
           Continues(records, now, next, spent, spent')
    PROVE  TraceInv'
<1>1. /\ journal' = journal \o records /\ read' = read /\ Present' = Present
  BY DEF Emit, readers, Present
<1>2. PICK T : journal \in Seq(T)
  BY DEF LevelsInv
<1>3. /\ Len(journal') = Len(journal) + Len(records)
      /\ \A i \in 1..Len(journal) : journal'[i] = journal[i]
      /\ \A k \in 1..Len(records) : journal'[Len(journal) + k] = records[k]
  BY <1>1, <1>2
<1>4. Len(journal) \in Nat /\ Len(records) \in Nat /\ read \in Nat /\ read <= Len(journal)
  BY <1>2 DEF LevelsInv
<1>5. PICK trace :
        /\ trace[read] = Present
        /\ \A i \in Unread : Leads(journal[i], trace[i - 1], trace[i])
        /\ \A i \in read..Len(journal) : Covered(trace[i], now, spent)
        /\ Agrees(trace[Len(journal)], now, spent)
  BY DEF TraceInv
<1>6. PICK steps :
        /\ steps[0] = trace[Len(journal)]
        /\ \A k \in 1..Len(records) :
             Leads(records[k], steps[k - 1], steps[k]) /\ Covered(steps[k], next, spent')
        /\ Agrees(steps[Len(records)], next, spent')
  BY <1>5 DEF Continues
<1> DEFINE longer == [i \in read..Len(journal') |->
                        IF i <= Len(journal) THEN trace[i] ELSE steps[i - Len(journal)]]
<1>7. \A i \in read..Len(journal) : longer[i] = trace[i]
  BY <1>3, <1>4
<1>8. \A k \in 0..Len(records) : longer[Len(journal) + k] = steps[k]
  <2> SUFFICES ASSUME NEW k \in 0..Len(records) PROVE longer[Len(journal) + k] = steps[k]
    OBVIOUS
  <2>1. Len(journal) + k \in read..Len(journal') /\ (Len(journal) + k) - Len(journal) = k
    BY <1>3, <1>4
  <2>2. CASE k = 0
    BY <1>4, <1>6, <2>1, <2>2
  <2>3. CASE k # 0
    BY <1>4, <2>1, <2>3
  <2> QED
    BY <2>2, <2>3
<1> HIDE DEF longer
<1>9. longer[read'] = Present'
  BY <1>1, <1>4, <1>5, <1>7
<1>10. ASSUME NEW i \in Unread' PROVE Leads(journal'[i], longer[i - 1], longer[i])
  <2>1. i \in (read + 1)..(Len(journal) + Len(records))
    BY <1>1, <1>3, <1>10 DEF Unread
  <2>2. CASE i <= Len(journal)
    <3>1. i \in Unread /\ i \in 1..Len(journal) /\ i \in read..Len(journal) /\ i - 1 \in read..Len(journal)
      BY <1>4, <2>1, <2>2 DEF Unread
    <3> QED
      BY <1>3, <1>5, <1>7, <3>1
  <2>3. CASE ~ (i <= Len(journal))
    <3> DEFINE k == i - Len(journal)
    <3>1. /\ k \in 1..Len(records) /\ k \in 0..Len(records) /\ k - 1 \in 0..Len(records)
          /\ i = Len(journal) + k /\ i - 1 = Len(journal) + (k - 1)
      BY <1>4, <2>1, <2>3
    <3> HIDE DEF k
    <3>2. longer[i] = steps[k] /\ longer[i - 1] = steps[k - 1] /\ journal'[i] = records[k]
      BY <1>3, <1>8, <3>1
    <3> QED
      BY <1>6, <3>1, <3>2
  <2> QED
    BY <2>2, <2>3
<1>11. ASSUME NEW i \in read'..Len(journal') PROVE Covered(longer[i], next, spent')
  <2>1. i \in read..(Len(journal) + Len(records))
    BY <1>1, <1>3
  <2>2. CASE i <= Len(journal)
    <3>1. i \in read..Len(journal)
      BY <1>4, <2>1, <2>2
    <3>2. longer[i] = trace[i] /\ Covered(trace[i], now, spent)
      BY <1>5, <1>7, <3>1
    <3> QED
      BY <3>2, StaysCovered
  <2>3. CASE ~ (i <= Len(journal))
    <3> DEFINE k == i - Len(journal)
    <3>1. k \in 1..Len(records) /\ k \in 0..Len(records) /\ i = Len(journal) + k
      BY <1>4, <2>1, <2>3
    <3> HIDE DEF k
    <3> QED
      BY <1>6, <1>8, <3>1
  <2> QED
    BY <2>2, <2>3
<1>12. Agrees(longer[Len(journal')], next, spent')
  <2>1. Len(records) \in 0..Len(records)
    BY <1>4
  <2>2. longer[Len(journal')] = steps[Len(records)]
    BY <1>3, <1>8, <2>1
  <2> QED
    BY <1>6, <2>2
<1> QED
  BY <1>9, <1>10, <1>11, <1>12 DEF TraceInv

(* what a match does to the two orders, and its records of it                *)
Matched(now, next, m, quantity) ==
    /\ ~ Taker!IsTerminal(now[TakerId].status) /\ ~ Taker!IsTerminal(now[m].status)
    /\ next[TakerId] = Taker!Filled(now[TakerId], quantity)
    /\ next[m] = Taker!Filled(now[m], quantity)
    /\ \A id \in OrderId \ {TakerId, m} : next[id] = now[id]

Tells(e, id, o) ==
    /\ e.type = "OrderFilled" /\ e.order_id = id
    /\ e.remaining = Taker!Remaining(o) /\ e.status = o.status

Written(records, next, m, quantity, cost) ==
    /\ records[1].type = "Trade" /\ records[1].quantity = quantity
    /\ Buyer(records[1]) = TakerId /\ Seller(records[1]) = m /\ Cost(records[1]) = cost
    /\ Tells(records[2], TakerId, next[TakerId])
    /\ Tells(records[3], m, next[m])
    /\ records[4].type = "BookDelta"

(* The readers take a match's records in whatever order they were written:   *)
(* what they have after some of them depends on which, not on the order.     *)
LEMMA MatchSteps ==
    ASSUME NEW now \in [OrderId -> WholeOrder], NEW next \in [OrderId -> WholeOrder],
           NEW m \in Maker \ Own, NEW quantity \in Nat, NEW cost \in Nat, NEW paid \in Nat,
           Matched(now, next, m, quantity), NEW records, Written(records, next, m, quantity, cost),
           NEW place \in Bijection(1..4, 1..4), NEW s, Agrees(s, now, paid)
    PROVE  \E steps :
              /\ steps[0] = s
              /\ \A k \in 1..4 :
                   /\ Leads(records[place[k]], steps[k - 1], steps[k])
                   /\ Covered(steps[k], next, paid + cost)
              /\ Agrees(steps[4], next, paid + cost)
<1> USE DEF Matched, Written, Tells
<1> DEFINE cad1 == [s.cad EXCEPT ![TakerId] = @ - cost, ![m] = @ + cost]
           usd1 == [s.usd EXCEPT ![TakerId] = @ + quantity, ![m] = @ - quantity]
           Orders(D) == [id \in OrderId |->
              IF (id = TakerId /\ 2 \in D) \/ (id = m /\ 3 \in D) THEN next[id] ELSE now[id]]
           State(D) == [replica |-> Orders(D), cad |-> IF 1 \in D THEN cad1 ELSE s.cad,
                        usd |-> IF 1 \in D THEN usd1 ELSE s.usd]
           Done(k) == {place[i] : i \in 1..k}
           steps == [k \in 0..4 |-> State(Done(k))]
<1>1. TakerId \in OrderId /\ m \in OrderId /\ m # TakerId
  BY FeedConstants DEF OrderId
<1>2. /\ s = [replica |-> now, cad |-> s.cad, usd |-> s.usd]
      /\ s.cad \in [OrderId -> Int] /\ s.usd \in [OrderId -> Int]
      /\ s.cad[TakerId] = 0 - paid
      /\ s.usd[TakerId] = now[TakerId].filled_quantity
      /\ \A n \in Maker \ Own : s.usd[n] = 0 - now[n].filled_quantity
  BY DEF Agrees
<1>3. /\ \A id \in OrderId : now[id].filled_quantity \in Int /\ next[id].filled_quantity \in Int
      /\ next[TakerId].filled_quantity = now[TakerId].filled_quantity + quantity
      /\ next[m].filled_quantity = now[m].filled_quantity + quantity
  <2>1. \A id \in OrderId : now[id].filled_quantity \in Int /\ next[id].filled_quantity \in Int
    BY DEF WholeOrder
  <2>2. now[TakerId] \in WholeOrder /\ now[m] \in WholeOrder
    BY <1>1
  <2>3. ASSUME NEW o \in WholeOrder
        PROVE  Taker!Filled(o, quantity).filled_quantity = o.filled_quantity + quantity
    BY FilledIsOrder
  <2> QED
    BY <2>1, <2>2, <2>3
<1>4. /\ cad1 \in [OrderId -> Int] /\ usd1 \in [OrderId -> Int]
      /\ cad1[TakerId] = 0 - (paid + cost)
      /\ usd1[TakerId] = next[TakerId].filled_quantity
      /\ \A n \in Maker \ Own : usd1[n] = 0 - next[n].filled_quantity
  <2>1. cad1 \in [OrderId -> Int] /\ cad1[TakerId] = 0 - (paid + cost)
    BY <1>1, <1>2
  <2>2. usd1 \in [OrderId -> Int] /\ usd1[TakerId] = next[TakerId].filled_quantity
    BY <1>1, <1>2, <1>3
  <2>3. usd1[m] = 0 - next[m].filled_quantity
    BY <1>1, <1>2, <1>3
  <2>4. ASSUME NEW n \in Maker \ Own, n # m PROVE usd1[n] = 0 - next[n].filled_quantity
    <3>1. n \in OrderId \ {TakerId, m}
      BY <2>4, FeedConstants DEF OrderId
    <3> QED
      BY <1>1, <1>2, <3>1
  <2> QED
    BY <2>1, <2>2, <2>3, <2>4
<1>5. \A id \in OrderId : Precedes(now[id], next[id])
  <2>1. Precedes(now[TakerId], next[TakerId]) /\ Precedes(now[m], next[m])
    BY <1>1, PrecedesFilled
  <2> QED
    BY <2>1, PrecedesItself
<1>6. \A D : Orders(D) \in [OrderId -> WholeOrder]
  OBVIOUS
<1>7. /\ Orders({}) = now
      /\ 2 \in 1..4 /\ 3 \in 1..4 => Orders(1..4) = next
  <2>1. \A id \in OrderId : Orders({})[id] = now[id] /\ Orders(1..4)[id] = next[id]
    OBVIOUS
  <2> HIDE DEF Orders
  <2> QED
    BY <1>6, <2>1
<1>8. \A D : /\ State(D).replica = Orders(D)
             /\ State(D).cad = (IF 1 \in D THEN cad1 ELSE s.cad)
             /\ State(D).usd = (IF 1 \in D THEN usd1 ELSE s.usd)
             /\ State(D) = [replica |-> State(D).replica, cad |-> State(D).cad,
                            usd |-> State(D).usd]
  OBVIOUS
<1>9. State({}) = s
  BY <1>2, <1>7
<1>10. Agrees(State(1..4), next, paid + cost)
  <2>1. 1 \in 1..4 /\ 2 \in 1..4 /\ 3 \in 1..4
    OBVIOUS
  <2> HIDE DEF State, Orders, cad1, usd1
  <2>2. State(1..4) = [replica |-> next, cad |-> cad1, usd |-> usd1]
    BY <1>7, <1>8, <2>1
  <2> QED
    BY <1>4, <2>2 DEF Agrees
<1>11. ASSUME NEW D PROVE Covered(State(D), next, paid + cost)
  <2> DEFINE t == State(D)
  <2>1. t.cad[TakerId] \in Int /\ 0 - t.cad[TakerId] <= paid + cost
    <3> HIDE DEF cad1
    <3>1. t.cad = cad1 \/ t.cad = s.cad
      OBVIOUS
    <3> QED
      BY <1>1, <1>2, <1>4, <3>1
  <2>2. t.usd[TakerId] \in Int /\ t.usd[TakerId] <= next[TakerId].filled_quantity
    <3> HIDE DEF usd1
    <3>1. t.usd = usd1 \/ t.usd = s.usd
      OBVIOUS
    <3> QED
      BY <1>1, <1>2, <1>3, <1>4, <3>1
  <2>3. ASSUME NEW id \in OrderId
        PROVE  t.replica[id] \in WholeOrder /\ Precedes(t.replica[id], next[id])
    <3>1. t.replica[id] \in {now[id], next[id]}
      OBVIOUS
    <3> QED
      BY <1>5, <3>1, PrecedesItself
  <2> QED
    BY <2>1, <2>2, <2>3 DEF Covered
<1>12. ASSUME NEW D \in SUBSET (1..4), NEW j \in (1..4) \ D
       PROVE  Leads(records[j], State(D), State(D \cup {j}))
  <2> DEFINE r == Orders(D)
             after == Orders(D \cup {j})
             e == records[j]
  <2>1. e.type # "OrderAccepted"
    <3>1. j = 1 \/ j = 2 \/ j = 3 \/ j = 4
      OBVIOUS
    <3> QED
      BY <3>1
  <2>2. CASE j = 1
    <3>1. after = r
      BY <2>2
    <3>2. /\ State(D).cad = s.cad /\ State(D).usd = s.usd
          /\ State(D \cup {j}).cad = cad1 /\ State(D \cup {j}).usd = usd1
      BY <2>2
    <3>3. AfterReplay(e, r) = after
      BY <2>2, <3>1 DEF AfterReplay
    <3> HIDE DEF State, r, after
    <3>4. After(e, State(D)).replica = after
      BY <1>8, <3>3 DEF After, r
    <3>5. After(e, State(D)).cad = cad1 /\ After(e, State(D)).usd = usd1
      BY <2>2, <3>2 DEF After
    <3>6. After(e, State(D)) = State(D \cup {j})
      BY <1>8, <3>2, <3>4, <3>5 DEF After, after
    <3> QED
      BY <2>1, <3>6 DEF Leads, Readable
  <2>3. ASSUME j # 1, e.type # "Trade", AfterReplay(e, r) = after
        PROVE  Leads(e, State(D), State(D \cup {j}))
    <3>1. State(D \cup {j}).cad = State(D).cad /\ State(D \cup {j}).usd = State(D).usd
      BY <2>3
    <3> HIDE DEF State, r, after
    <3>2. After(e, State(D)).replica = after
      BY <1>8, <2>3 DEF After, r
    <3>3. After(e, State(D)) = State(D \cup {j})
      BY <1>8, <2>3, <3>1, <3>2 DEF After, after
    <3> QED
      BY <2>1, <3>3 DEF Leads, Readable
  <2>4. CASE j = 2
    <3>1. r[TakerId] = now[TakerId]
      BY <1>1, <2>4
    <3>2. after = [r EXCEPT ![TakerId] = next[TakerId]]
      BY <1>1, <2>4
    <3>3. AfterReplay(e, r) = after
      <4>1. /\ e.type = "OrderFilled" /\ e.order_id = TakerId
            /\ e.remaining = Taker!Remaining(Taker!Filled(r[TakerId], quantity))
            /\ e.status = Taker!Filled(r[TakerId], quantity).status
        BY <2>4, <3>1
      <4>2. after = [r EXCEPT ![TakerId] = Taker!Filled(@, quantity)] /\ r \in [OrderId -> WholeOrder]
        BY <1>1, <1>6, <3>1, <3>2
      <4> HIDE DEF r, after, e
      <4> QED
        BY <1>1, <4>1, <4>2, FillReplays
    <3> QED
      BY <2>3, <2>4, <3>3
  <2>5. CASE j = 3
    <3>1. r[m] = now[m]
      BY <1>1, <2>5
    <3>2. after = [r EXCEPT ![m] = next[m]]
      BY <1>1, <2>5
    <3>3. AfterReplay(e, r) = after
      <4>1. /\ e.type = "OrderFilled" /\ e.order_id = m
            /\ e.remaining = Taker!Remaining(Taker!Filled(r[m], quantity))
            /\ e.status = Taker!Filled(r[m], quantity).status
        BY <2>5, <3>1
      <4>2. after = [r EXCEPT ![m] = Taker!Filled(@, quantity)] /\ r \in [OrderId -> WholeOrder]
        BY <1>1, <1>6, <3>1, <3>2
      <4> HIDE DEF r, after, e
      <4> QED
        BY <1>1, <4>1, <4>2, FillReplays
    <3> QED
      BY <2>3, <2>5, <3>3
  <2>6. CASE j = 4
    <3>1. after = r
      BY <2>6
    <3>2. AfterReplay(e, r) = after
      BY <2>6, <3>1 DEF AfterReplay
    <3> QED
      BY <2>3, <2>6, <3>2
  <2> QED
    BY <2>2, <2>4, <2>5, <2>6
<1> HIDE DEF State, Orders, cad1, usd1
<1>13. /\ \A k \in 1..4 : place[k] \in 1..4
       /\ \A i, k \in 1..4 : place[i] = place[k] => i = k
       /\ \A j \in 1..4 : \E i \in 1..4 : place[i] = j
  BY DEF Bijection, Injection, Surjection, IsInjective
<1>14. Done(0) = {} /\ Done(4) = 1..4
  BY <1>13
<1>15. ASSUME NEW k \in 1..4
       PROVE  /\ Done(k - 1) \in SUBSET (1..4) /\ place[k] \in (1..4) \ Done(k - 1)
              /\ Done(k) = Done(k - 1) \cup {place[k]}
  <2>1. \A i \in 1..(k - 1) : i \in 1..4 /\ i # k
    OBVIOUS
  <2>2. \A i : i \in 1..k <=> i \in 1..(k - 1) \/ i = k
    OBVIOUS
  <2> QED
    BY <1>13, <2>1, <2>2
<1> HIDE DEF Done
<1>16. /\ steps[0] = s /\ steps[4] = State(1..4)
       /\ \A k \in 1..4 : steps[k] = State(Done(k)) /\ steps[k - 1] = State(Done(k - 1))
  <2>1. /\ steps[0] = State(Done(0)) /\ steps[4] = State(Done(4))
        /\ \A k \in 1..4 : steps[k] = State(Done(k))
    OBVIOUS
  <2>2. ASSUME NEW k \in 1..4 PROVE steps[k - 1] = State(Done(k - 1))
    <3>1. k - 1 \in 0..4
      OBVIOUS
    <3> QED
      BY <3>1
  <2> HIDE DEF steps
  <2> QED
    BY <1>9, <1>14, <2>1, <2>2
<1> HIDE DEF steps
<1>17. ASSUME NEW k \in 1..4
       PROVE  /\ Leads(records[place[k]], steps[k - 1], steps[k])
              /\ Covered(steps[k], next, paid + cost)
  <2>1. Leads(records[place[k]], State(Done(k - 1)), State(Done(k)))
    BY <1>12, <1>15
  <2> QED
    BY <1>11, <1>16, <2>1
<1> QED
  BY <1>10, <1>16, <1>17

(* A match fills both orders by the same quantity, and the taker pays for it. *)
LEMMA MatchPays ==
    ASSUME IInv, MakersInv, NEW m \in Maker, Match(m)
    PROVE  LET quantity == order'.filled_quantity - order.filled_quantity
               cost == NotionalCad(quantity, makers[m].price, "BUY")
           IN  /\ quantity \in Nat /\ cost \in Nat
               /\ order.side = "BUY" /\ order' = Taker!Filled(order, quantity)
               /\ spent' = spent + cost /\ reserved_cad' = reserved_cad
               /\ makers' = [makers EXCEPT ![m] = Taker!Filled(@, quantity)]
<1> DEFINE quantity == order'.filled_quantity - order.filled_quantity
<1>1. /\ Trade(makers[m].price, Taker!Remaining(makers[m]))
      /\ makers[m].price \in MakerPrice /\ Taker!Remaining(makers[m]) \in MakerQuantity
      /\ makers' = [makers EXCEPT ![m] = Taker!Filled(@, quantity)]
  BY MatchTakesLots
<1>2. order \in OrderRecord /\ order.side = "BUY"
  BY OrdersOfTheEngine DEF IInv, Accounts
<1>3. PICK q \in Nat \ {0} :
         /\ Taker!Fill(q)
         /\ spent' = spent + NotionalCad(q, makers[m].price, order.side)
  BY <1>1, TradeTakes
<1>4. order' = Taker!Filled(order, q)
  BY <1>3 DEF Taker!Fill
<1>5. order'.filled_quantity = order.filled_quantity + q /\ order.filled_quantity \in Int
  BY <1>2, <1>4 DEF Taker!Filled, OrderRecord
<1>6. quantity = q
  BY <1>5
<1>7. NotionalCad(q, makers[m].price, "BUY") \in Nat
  BY <1>1, SweepConstants, NotionalNat
<1>8. reserved_cad' = reserved_cad
  BY <1>1 DEF Trade
<1> QED
  BY <1>1, <1>2, <1>3, <1>4, <1>6, <1>7, <1>8

LEMMA FilledIsRecord ==
    ASSUME NEW o \in OrderRecord, NEW quantity \in Nat
    PROVE  Taker!Filled(o, quantity) \in OrderRecord
<1> DEFINE filled == o.filled_quantity + quantity
           status == IF filled = o.quantity THEN "FILLED" ELSE "PARTIAL"
<1>1. /\ Taker!Filled(o, quantity) = [o EXCEPT !.filled_quantity = filled, !.status = status]
      /\ filled \in Int /\ status \in Taker!OrderStatus
  BY DEF Taker!Filled, OrderRecord, Taker!OrderStatus
<1> HIDE DEF filled, status
<1> QED
  BY <1>1 DEF OrderRecord

LEMMA CancelledIsRecord ==
    ASSUME NEW o \in OrderRecord, NEW reason \in Reason
    PROVE  /\ Taker!Cancelled(o, reason) \in OrderRecord
           /\ Taker!Cancelled(o, reason).cancel_reason = reason
  BY DEF Taker!Cancelled, OrderRecord, Taker!OrderStatus

LEMMA MatchKeepsTrace ==
    ASSUME IInv, MakersInv, LevelsInv, TraceInv, NEW m \in Maker, Match(m)
    PROVE  TraceInv'
<1> DEFINE quantity == order'.filled_quantity - order.filled_quantity
           price == makers[m].price
           cost == NotionalCad(quantity, price, "BUY")
           now == Engine(order, makers, reserved_cad)
           next == Engine(order', makers', reserved_cad')
<1>1. /\ quantity \in Nat /\ cost \in Nat
      /\ order.side = "BUY" /\ order' = Taker!Filled(order, quantity)
      /\ spent' = spent + cost /\ reserved_cad' = reserved_cad
      /\ makers' = [makers EXCEPT ![m] = Taker!Filled(@, quantity)]
  BY MatchPays
<1>2. /\ order \in OrderRecord /\ makers \in [Maker -> OrderRecord] /\ spent \in Nat
      /\ reserved_cad \in Reserved
  BY OrdersOfTheEngine
<1>3. PICK trade \in TradeRecord(m, price, quantity, order.side), place \in WriteOrders :
        LET records == <<trade, OrderFilled(TakerId, order', quantity),
                         OrderFilled(m, makers'[m], quantity), BookDelta(m, makers')>>
        IN  Emit([i \in 1..4 |-> records[place[i]]])
  BY DEF Match
<1> DEFINE filled == OrderFilled(TakerId, order', quantity)
           sold == OrderFilled(m, makers'[m], quantity)
           news == BookDelta(m, makers')
           records == <<trade, filled, sold, news>>
           written == [i \in 1..4 |-> records[place[i]]]
<1>4. /\ trade.type = "Trade" /\ trade.quantity = quantity
      /\ Buyer(trade) = TakerId /\ Seller(trade) = m /\ Cost(trade) = cost
      /\ m \notin Own
  BY <1>1 DEF TradeRecord, Account, Buyer, Seller, Cost
<1>5. place \in Bijection(1..4, 1..4) /\ TakerId \in OrderId /\ m \in OrderId /\ m # TakerId
  BY FeedConstants DEF OrderId
<1>6. Emit(written)
  BY <1>3
<1>7. /\ ~ Taker!IsTerminal(order.status) /\ ~ Taker!IsTerminal(makers[m].status)
  BY DEF Match, Trade, Sweeping, Met, IsResting, Taker!IsTerminal
<1>8. /\ filled.type = "OrderFilled" /\ filled.order_id = TakerId
      /\ filled.remaining = Taker!Remaining(order') /\ filled.status = order'.status
      /\ sold.type = "OrderFilled" /\ sold.order_id = m
      /\ sold.remaining = Taker!Remaining(makers'[m]) /\ sold.status = makers'[m].status
      /\ news.type = "BookDelta"
  BY DEF OrderFilled, BookDelta
<1> HIDE DEF quantity, price, cost, filled, sold, news
<1>9. /\ makers'[m] = Taker!Filled(makers[m], quantity)
      /\ \A n \in Maker : n # m => makers'[n] = makers[n]
  BY <1>1, <1>2
<1>10. order' \in OrderRecord /\ makers' \in [Maker -> OrderRecord] /\ reserved_cad' \in Reserved
  <2>1. ASSUME NEW o \in OrderRecord PROVE Taker!Filled(o, quantity) \in OrderRecord
    BY <1>1, FilledIsRecord
  <2> QED
    BY <1>1, <1>2, <2>1
<1>11. /\ now \in [OrderId -> WholeOrder] /\ next \in [OrderId -> WholeOrder]
       /\ now[TakerId] = Codec!Whole(order, TakerId, reserved_cad)
       /\ next[TakerId] = Codec!Whole(order', TakerId, reserved_cad)
       /\ \A n \in Maker : /\ now[n] = Codec!Whole(makers[n], n, None)
                           /\ next[n] = Codec!Whole(makers'[n], n, None)
  <2>1. /\ now \in [OrderId -> WholeOrder]
        /\ now[TakerId] = Codec!Whole(order, TakerId, reserved_cad)
        /\ \A n \in Maker : now[n] = Codec!Whole(makers[n], n, None)
    BY <1>2, EngineType
  <2>2. /\ next \in [OrderId -> WholeOrder]
        /\ next[TakerId] = Codec!Whole(order', TakerId, reserved_cad')
        /\ \A n \in Maker : next[n] = Codec!Whole(makers'[n], n, None)
    BY <1>10, EngineType
  <2> HIDE DEF now, next
  <2> QED
    BY <1>1, <2>1, <2>2
<1>12. /\ next[TakerId] = Taker!Filled(now[TakerId], quantity)
       /\ next[m] = Taker!Filled(now[m], quantity)
       /\ ~ Taker!IsTerminal(now[TakerId].status) /\ ~ Taker!IsTerminal(now[m].status)
  <2>1. /\ Codec!Whole(Taker!Filled(order, quantity), TakerId, reserved_cad)
             = Taker!Filled(now[TakerId], quantity)
        /\ Codec!Whole(Taker!Filled(makers[m], quantity), m, None) = Taker!Filled(now[m], quantity)
        /\ now[TakerId].status = order.status /\ now[m].status = makers[m].status
    <3> HIDE DEF now, next
    <3>1. now[TakerId].status = order.status /\ now[m].status = makers[m].status
      BY <1>11, WholeReads
    <3> QED
      BY <1>1, <1>2, <1>11, <3>1, WholeFilled
  <2> HIDE DEF now, next
  <2> QED
    BY <1>1, <1>7, <1>9, <1>11, <2>1
<1>13. /\ \A id \in OrderId \ {TakerId, m} : next[id] = now[id]
       /\ filled.remaining = Taker!Remaining(next[TakerId]) /\ filled.status = next[TakerId].status
       /\ sold.remaining = Taker!Remaining(next[m]) /\ sold.status = next[m].status
  <2>1. \A id \in OrderId \ {TakerId, m} : next[id] = now[id]
    <3> HIDE DEF now, next
    <3> QED
      BY <1>9, <1>11 DEF OrderId
  <2> HIDE DEF now, next
  <2> QED
    BY <1>8, <1>11, <2>1, WholeReads
<1> HIDE DEF now, next
<1>14. \A id \in OrderId : Precedes(now[id], next[id])
  <2>1. Precedes(now[TakerId], next[TakerId]) /\ Precedes(now[m], next[m])
    BY <1>1, <1>5, <1>11, <1>12, PrecedesFilled
  <2> QED
    BY <1>11, <1>13, <2>1, PrecedesItself
<1>15. /\ records[1] = trade /\ records[2] = filled /\ records[3] = sold /\ records[4] = news
  OBVIOUS
<1> HIDE DEF records
<1>16. ASSUME NEW s, Agrees(s, now, spent)
       PROVE  \E steps :
                 /\ steps[0] = s
                 /\ \A k \in 1..4 :
                      /\ Leads(records[place[k]], steps[k - 1], steps[k])
                      /\ Covered(steps[k], next, spent + cost)
                 /\ Agrees(steps[4], next, spent + cost)
  <2>1. m \in Maker \ Own
    BY <1>4
  <2>2. Written(records, next, m, quantity, cost)
    BY <1>4, <1>8, <1>13, <1>15 DEF Written, Tells
  <2>3. /\ now \in [OrderId -> WholeOrder] /\ next \in [OrderId -> WholeOrder]
        /\ quantity \in Nat /\ cost \in Nat /\ spent \in Nat
    BY <1>1, <1>2, <1>11
  <2>4. Matched(now, next, m, quantity)
    BY <1>12, <1>13 DEF Matched
  <2> QED
    BY <1>5, <1>16, <2>1, <2>2, <2>3, <2>4, MatchSteps
<1>17. /\ written \in Seq({records[place[i]] : i \in 1..4}) /\ Len(written) = 4
       /\ \A k \in 1..4 : written[k] = records[place[k]]
  OBVIOUS
<1> HIDE DEF written
<1>18. spent' \in Nat /\ spent <= spent'
  BY <1>1, <1>2
<1>19. Continues(written, now, next, spent, spent')
  BY <1>1, <1>16, <1>17 DEF Continues
<1>20. now = Engine(order, makers, reserved_cad) /\ next = Engine(order', makers', reserved_cad')
  BY DEF now, next
<1> QED
  BY <1>2, <1>6, <1>11, <1>14, <1>17, <1>18, <1>19, <1>20, EmitKeepsTrace

(* A cancellation is one step of the replay, whatever follows it; money and   *)
(* executed quantities stay as they are.                                     *)
LEMMA CancelAgrees ==
    ASSUME NEW now \in [OrderId -> WholeOrder], NEW next \in [OrderId -> WholeOrder],
           NEW paid \in Nat, NEW id \in OrderId, NEW reason,
           next[id] = Taker!Cancelled(now[id], reason),
           \A other \in OrderId : other # id => next[other] = now[other],
           NEW s, Agrees(s, now, paid)
    PROVE  LET e == OrderCancelled(id, reason)
               t == After(e, s)
           IN  Agrees(t, next, paid) /\ Covered(t, next, paid) /\ Leads(e, s, t)
<1> DEFINE e == OrderCancelled(id, reason)
<1>1. e.type = "OrderCancelled" /\ e.order_id = id /\ e.reason = reason
  BY DEF OrderCancelled
<1> HIDE DEF e
<1>2. AfterReplay(e, now) = next
  <2>1. AfterReplay(e, now) = [now EXCEPT ![id] = next[id]]
    BY <1>1 DEF AfterReplay
  <2> QED
    BY <2>1
<1>3. s.replica = now
  BY DEF Agrees
<1>4. After(e, s) = [replica |-> next, cad |-> s.cad, usd |-> s.usd]
  BY <1>1, <1>2, <1>3 DEF After
<1>5. \A n \in OrderId : next[n].filled_quantity = now[n].filled_quantity
  BY DEF Taker!Cancelled, WholeOrder
<1>6. Agrees(After(e, s), next, paid)
  <2>1. TakerId \in OrderId /\ \A m \in Maker : m \in OrderId
    BY DEF OrderId
  <2> QED
    BY <1>4, <1>5, <2>1 DEF Agrees
<1>7. Covered(After(e, s), next, paid)
  BY <1>6, SettledIsCovered
<1>8. Leads(e, s, After(e, s))
  BY <1>1 DEF Leads, Readable
<1> QED
  BY <1>6, <1>7, <1>8 DEF e

LEMMA PreventKeepsTrace ==
    ASSUME IInv, MakersInv, LevelsInv, TraceInv, NEW m \in Maker, PreventSelfTrade(m)
    PROVE  TraceInv'
<1> DEFINE reason == "SELF_TRADE_PREVENTION"
           gone == OrderCancelled(m, reason)
           news == BookDelta(m, makers')
           records == <<gone, news>>
           now == Engine(order, makers, reserved_cad)
           next == Engine(order', makers', reserved_cad')
<1>1. /\ makers' = [makers EXCEPT ![m] = Taker!Cancelled(@, reason)]
      /\ Emit(records) /\ order' = order /\ spent' = spent /\ reserved_cad' = reserved_cad
  BY DEF PreventSelfTrade, vars
<1>2. /\ order \in OrderRecord /\ makers \in [Maker -> OrderRecord] /\ spent \in Nat
      /\ reserved_cad \in Reserved
  BY OrdersOfTheEngine
<1>3. /\ makers' \in [Maker -> OrderRecord]
      /\ makers'[m] = Taker!Cancelled(makers[m], reason)
      /\ \A n \in Maker : n # m => makers'[n] = makers[n]
  <2>1. Taker!Cancelled(makers[m], reason) \in OrderRecord
    BY <1>2, FeedConstants, CancelledIsRecord
  <2> QED
    BY <1>1, <1>2, <2>1
<1>4. /\ now \in [OrderId -> WholeOrder] /\ next \in [OrderId -> WholeOrder]
      /\ next[TakerId] = now[TakerId]
      /\ \A n \in Maker : /\ now[n] = Codec!Whole(makers[n], n, None)
                          /\ next[n] = Codec!Whole(makers'[n], n, None)
  <2>1. /\ now \in [OrderId -> WholeOrder]
        /\ now[TakerId] = Codec!Whole(order, TakerId, reserved_cad)
        /\ \A n \in Maker : now[n] = Codec!Whole(makers[n], n, None)
    BY <1>2, EngineType
  <2>2. Engine(order', makers', reserved_cad') = Engine(order, makers', reserved_cad)
    BY <1>1
  <2>3. /\ next \in [OrderId -> WholeOrder]
        /\ next[TakerId] = Codec!Whole(order, TakerId, reserved_cad)
        /\ \A n \in Maker : next[n] = Codec!Whole(makers'[n], n, None)
    BY <1>2, <1>3, <2>2, EngineType
  <2> HIDE DEF now, next
  <2> QED
    BY <2>1, <2>3
<1>5. /\ next[m] = Taker!Cancelled(now[m], reason) /\ ~ Taker!IsTerminal(now[m].status)
      /\ m \in OrderId
  <2>1. /\ Codec!Whole(Taker!Cancelled(makers[m], reason), m, None)
             = Taker!Cancelled(now[m], reason)
        /\ now[m].status = makers[m].status
    <3> HIDE DEF now, next
    <3>1. now[m].status = makers[m].status
      BY <1>4, WholeReads
    <3> QED
      BY <1>2, <1>4, <3>1, WholeCancelled
  <2>2. ~ Taker!IsTerminal(makers[m].status)
    BY DEF PreventSelfTrade, Met, IsResting, Taker!IsTerminal
  <2> HIDE DEF now, next
  <2> QED
    BY <1>3, <1>4, <2>1, <2>2 DEF OrderId
<1>6. now = Engine(order, makers, reserved_cad) /\ next = Engine(order', makers', reserved_cad')
  OBVIOUS
<1> HIDE DEF now, next
<1>7. \A other \in OrderId : other # m => next[other] = now[other]
  BY <1>3, <1>4 DEF OrderId
<1>8. \A id \in OrderId : Precedes(now[id], next[id])
  <2>1. Precedes(now[m], next[m])
    BY <1>4, <1>5, PrecedesCancelled
  <2> QED
    BY <1>4, <1>7, <2>1, PrecedesItself
<1>9. ASSUME NEW s, Agrees(s, now, spent)
      PROVE  \E steps :
                /\ steps[0] = s
                /\ \A k \in 1..2 :
                     Leads(records[k], steps[k - 1], steps[k]) /\ Covered(steps[k], next, spent')
                /\ Agrees(steps[2], next, spent')
  <2> DEFINE t == After(gone, s)
             steps == [k \in 0..2 |-> IF k = 0 THEN s ELSE t]
  <2> HIDE DEF steps
  <2>1. Agrees(t, next, spent) /\ Covered(t, next, spent) /\ Leads(gone, s, t)
    BY <1>2, <1>4, <1>5, <1>7, <1>9, CancelAgrees
  <2>2. Leads(news, t, t)
    <3>1. news.type = "BookDelta"
      BY DEF BookDelta
    <3>2. t = [replica |-> t.replica, cad |-> t.cad, usd |-> t.usd]
      BY DEF After
    <3> HIDE DEF news, t
    <3> QED
      BY <3>1, <3>2 DEF Leads, Readable, After, AfterReplay
  <2> HIDE DEF gone, news
  <2>3. records[1] = gone /\ records[2] = news
    OBVIOUS
  <2>4. steps[0] = s /\ steps[1] = t /\ steps[2] = t
    BY DEF steps
  <2> HIDE DEF records, t
  <2>5. ASSUME NEW k \in 1..2
        PROVE  Leads(records[k], steps[k - 1], steps[k]) /\ Covered(steps[k], next, spent')
    <3>1. k = 1 \/ k = 2
      OBVIOUS
    <3> QED
      BY <1>1, <2>1, <2>2, <2>3, <2>4, <3>1
  <2> QED
    BY <1>1, <2>1, <2>4, <2>5
<1> HIDE DEF gone, news
<1>10. records \in Seq({gone, news}) /\ Len(records) = 2
  OBVIOUS
<1> HIDE DEF records
<1>11. spent' \in Nat /\ spent <= spent'
  BY <1>1, <1>2
<1>12. Continues(records, now, next, spent, spent')
  BY <1>9, <1>10 DEF Continues
<1> QED
  BY <1>1, <1>2, <1>4, <1>6, <1>8, <1>10, <1>11, <1>12, EmitKeepsTrace

LEMMA StopKeepsTrace ==
    ASSUME IInv, MakersInv, LevelsInv, TraceInv, NEW reason \in Reason,
           Taker!Cancel(reason), UNCHANGED <<makers, spent, reserved_cad>>,
           Emit(<<OrderCancelled(TakerId, order'.cancel_reason)>>)
    PROVE  TraceInv'
<1> DEFINE gone == OrderCancelled(TakerId, reason)
           records == <<gone>>
           now == Engine(order, makers, reserved_cad)
           next == Engine(order', makers', reserved_cad')
<1>1. /\ order \in OrderRecord /\ makers \in [Maker -> OrderRecord] /\ spent \in Nat
      /\ reserved_cad \in Reserved
  BY OrdersOfTheEngine
<1>2. /\ order' = Taker!Cancelled(order, reason) /\ order' \in OrderRecord
      /\ order'.cancel_reason = reason /\ ~ Taker!IsTerminal(order.status)
  <2>1. order' = Taker!Cancelled(order, reason) /\ ~ Taker!IsTerminal(order.status)
    BY DEF Taker!Cancel
  <2> QED
    BY <1>1, <2>1, CancelledIsRecord
<1>3. Emit(records)
  BY <1>2
<1>4. /\ now \in [OrderId -> WholeOrder] /\ next \in [OrderId -> WholeOrder]
      /\ next[TakerId] = Codec!Whole(order', TakerId, reserved_cad)
      /\ \A n \in Maker : next[n] = now[n]
  <2>1. /\ now \in [OrderId -> WholeOrder]
        /\ \A n \in Maker : now[n] = Codec!Whole(makers[n], n, None)
    BY <1>1, EngineType
  <2>2. Engine(order', makers', reserved_cad') = Engine(order', makers, reserved_cad)
    OBVIOUS
  <2>3. /\ next \in [OrderId -> WholeOrder]
        /\ next[TakerId] = Codec!Whole(order', TakerId, reserved_cad)
        /\ \A n \in Maker : next[n] = Codec!Whole(makers[n], n, None)
    BY <1>1, <1>2, <2>2, EngineType
  <2> HIDE DEF now, next
  <2> QED
    BY <2>1, <2>3
<1>5. /\ next[TakerId] = Taker!Cancelled(now[TakerId], reason)
      /\ ~ Taker!IsTerminal(now[TakerId].status) /\ TakerId \in OrderId
  <2>1. /\ Codec!Whole(Taker!Cancelled(order, reason), TakerId, reserved_cad)
             = Taker!Cancelled(now[TakerId], reason)
        /\ now[TakerId].status = order.status
    <3>1. now[TakerId] = Codec!Whole(order, TakerId, reserved_cad)
      BY <1>1, EngineType
    <3> HIDE DEF now
    <3> QED
      BY <1>1, <3>1, WholeCancelled DEF Codec!Whole
  <2> HIDE DEF now, next
  <2> QED
    BY <1>2, <1>4, <2>1 DEF OrderId
<1>6. now = Engine(order, makers, reserved_cad) /\ next = Engine(order', makers', reserved_cad')
  OBVIOUS
<1> HIDE DEF now, next
<1>7. \A other \in OrderId : other # TakerId => next[other] = now[other]
  BY <1>4 DEF OrderId
<1>8. \A id \in OrderId : Precedes(now[id], next[id])
  <2>1. Precedes(now[TakerId], next[TakerId])
    BY <1>4, <1>5, PrecedesCancelled
  <2> QED
    BY <1>4, <1>7, <2>1, PrecedesItself
<1>9. ASSUME NEW s, Agrees(s, now, spent)
      PROVE  \E steps :
                /\ steps[0] = s
                /\ \A k \in 1..1 :
                     Leads(records[k], steps[k - 1], steps[k]) /\ Covered(steps[k], next, spent')
                /\ Agrees(steps[1], next, spent')
  <2> DEFINE t == After(gone, s)
             steps == [k \in 0..1 |-> IF k = 0 THEN s ELSE t]
  <2> HIDE DEF steps
  <2>1. Agrees(t, next, spent) /\ Covered(t, next, spent) /\ Leads(gone, s, t)
    BY <1>1, <1>4, <1>5, <1>7, <1>9, CancelAgrees
  <2> HIDE DEF gone
  <2>2. records[1] = gone /\ steps[0] = s /\ steps[1] = t
    BY DEF steps
  <2> HIDE DEF records, t
  <2>3. ASSUME NEW k \in 1..1
        PROVE  Leads(records[k], steps[k - 1], steps[k]) /\ Covered(steps[k], next, spent')
    <3>1. k = 1 /\ k - 1 = 0
      OBVIOUS
    <3> QED
      BY <2>1, <2>2, <3>1
  <2> QED
    BY <2>1, <2>2, <2>3
<1> HIDE DEF gone
<1>10. records \in Seq({gone}) /\ Len(records) = 1
  OBVIOUS
<1> HIDE DEF records
<1>11. spent' \in Nat /\ spent <= spent'
  BY <1>1
<1>12. Continues(records, now, next, spent, spent')
  BY <1>9, <1>10 DEF Continues
<1> QED
  BY <1>1, <1>3, <1>4, <1>6, <1>8, <1>10, <1>11, <1>12, EmitKeepsTrace

(* The codec of the journal is the one OrderProofs speaks of.                *)
LEMMA TakerLineReads ==
    ASSUME IInv
    PROVE  LET o == Codec!Whole(order, TakerId, reserved_cad)
           IN  Codec!OrderFromDict(Codec!OrderToDict(o)) = {o}
<1> DEFINE o == Codec!Whole(order, TakerId, reserved_cad)
<1>1. order \in TakerP!Record /\ TakerP!Legal(order)
  BY DEF IInv, TakerP!IInv, TakerP!TypeOK
<1>2. o \in TakerP!WholeOrder({TakerId}, {reserved_cad})
  BY <1>1, SweepConstants DEF Codec!Whole, TakerP!WholeOrder, TakerP!Record
<1>3. TakerP!Legal(o)
  BY <1>1 DEF Codec!Whole, TakerP!Legal
<1> HIDE DEF o
<1>4. TakerP!OrderFromDict(TakerP!OrderToDict(o)) = {o}
  BY <1>2, <1>3, SweepConstants, PriceScale, InstrumentConstants, ReasonsAreTexts,
     TakerP!WholeLineReads
<1>5. Codec!OrderToDict(o) = TakerP!OrderToDict(o)
  BY DEF Codec!OrderToDict, TakerP!OrderToDict, Codec!Str, TakerP!Str
<1>6. \A raw : Codec!OrderFromDict(raw) = TakerP!OrderFromDict(raw)
  BY DEF Codec!OrderFromDict, TakerP!OrderFromDict, Codec!Get, TakerP!Get, Codec!Member,
     TakerP!Member, Codec!Str, TakerP!Str, Codec!Required, TakerP!Required, Codec!Side,
     TakerP!Side, Codec!OrderType, TakerP!OrderType, Codec!TimeInForce, TakerP!TimeInForce,
     Codec!OrderStatus, TakerP!OrderStatus, Codec!Legal, TakerP!Legal
<1> QED
  BY <1>4, <1>5, <1>6 DEF o

(* The first record lays the trace: it makes the taker known to the replay.  *)
LEMMA FeedInitTrace == FeedInit => TraceInv
<1> SUFFICES ASSUME FeedInit PROVE TraceInv
  OBVIOUS
<1> DEFINE now == Engine(order, makers, reserved_cad)
           accepted == Codec!Whole(order, TakerId, reserved_cad)
           e == OrderAccepted(accepted)
           first == [replica |-> now, cad |-> cad, usd |-> usd]
           trace == [i \in 0..1 |-> IF i = 0 THEN Present ELSE first]
<1>1. IInv /\ MakersInv /\ Init
  BY FeedInitInv
<1>2. /\ order \in OrderRecord /\ makers \in [Maker -> OrderRecord] /\ spent \in Nat
      /\ reserved_cad \in Reserved
  BY <1>1, OrdersOfTheEngine
<1>3. spent = 0 /\ order.filled_quantity = 0 /\ \A m \in Maker : makers[m].filled_quantity = 0
  BY <1>1 DEF Init, Taker!Init, FeedInit, Rested
<1>4. TakerId \in OrderId /\ \A m \in Maker : m \in OrderId /\ m # TakerId
  BY FeedConstants DEF OrderId
<1>5. EngineOrder(TakerId) = accepted
  BY DEF EngineOrder
<1>6. /\ now \in [OrderId -> WholeOrder] /\ now[TakerId] = accepted
      /\ \A m \in Maker : now[m] = Codec!Whole(makers[m], m, None)
  BY <1>2, EngineType
<1>7. accepted.order_id = TakerId
  BY DEF Codec!Whole
<1>8. \A m \in OrderId : now[m].filled_quantity = 0
  <2>1. ASSUME NEW o, NEW id, NEW money
        PROVE  Codec!Whole(o, id, money).filled_quantity = o.filled_quantity
    BY DEF Codec!Whole
  <2> HIDE DEF now
  <2> QED
    BY <1>3, <1>6, <2>1 DEF OrderId
<1>9. Codec!OrderFromDict(Codec!OrderToDict(accepted)) = {accepted}
  BY <1>1, TakerLineReads
<1> HIDE DEF accepted
<1>10. e.type = "OrderAccepted" /\ e.order = Codec!OrderToDict(accepted)
  BY DEF OrderAccepted
<1>11. /\ journal = <<e>> /\ read = 0
       /\ replica = [id \in OrderId |-> IF id = TakerId THEN None ELSE EngineOrder(id)]
       /\ cad = [id \in OrderId |-> 0] /\ usd = [id \in OrderId |-> 0]
  BY <1>5 DEF FeedInit
<1> HIDE DEF e
<1>12. /\ DOMAIN replica = OrderId /\ replica[TakerId] = None
       /\ \A m \in Maker : replica[m] = now[m]
  <2>1. \A m \in Maker : EngineOrder(m) = Codec!Whole(makers[m], m, None)
    BY <1>4 DEF EngineOrder
  <2> HIDE DEF now
  <2> QED
    BY <1>4, <1>6, <1>11, <2>1
<1> HIDE DEF now
<1>13. Agrees(first, now, spent)
  BY <1>3, <1>4, <1>8, <1>11 DEF Agrees
<1>14. Covered(first, now, spent)
  BY <1>2, <1>6, <1>13, SettledIsCovered
<1>15. Covered(Present, now, spent)
  <2>1. Present.replica = replica /\ Present.cad = cad /\ Present.usd = usd
    BY DEF Present
  <2>2. cad[TakerId] = 0 /\ usd[TakerId] = 0 /\ now[TakerId].filled_quantity = 0
    BY <1>4, <1>8, <1>11
  <2>3. ASSUME NEW id \in OrderId, replica[id] # None
        PROVE  replica[id] \in WholeOrder /\ Precedes(replica[id], now[id])
    <3>1. replica[id] = now[id] /\ now[id] \in WholeOrder
      BY <1>6, <1>12, <2>3 DEF OrderId
    <3> QED
      BY <3>1, PrecedesItself
  <2> QED
    BY <1>3, <2>1, <2>2, <2>3 DEF Covered
<1>16. Leads(e, Present, first)
  <2>1. (CHOOSE o \in Codec!OrderFromDict(e.order) : TRUE) = accepted
    BY <1>9, <1>10
  <2>2. AfterReplay(e, replica) = [replica EXCEPT ![accepted.order_id] = accepted]
    BY <1>10, <2>1 DEF AfterReplay
  <2>3. AfterReplay(e, replica) = now
    BY <1>4, <1>6, <1>7, <1>12, <2>2 DEF OrderId
  <2>4. After(e, Present) = first
    BY <1>10, <2>3 DEF After, Present
  <2> QED
    BY <1>9, <1>10, <2>4 DEF Leads, Readable
<1>17. trace[0] = Present /\ trace[1] = first
  OBVIOUS
<1> HIDE DEF trace, first
<1>18. Len(journal) = 1 /\ journal[1] = e /\ Unread = 1..1
  BY <1>11 DEF Unread
<1>19. \A i \in Unread : Leads(journal[i], trace[i - 1], trace[i])
  <2> SUFFICES ASSUME NEW i \in 1..1 PROVE Leads(journal[i], trace[i - 1], trace[i])
    BY <1>18
  <2>1. i = 1 /\ i - 1 = 0
    OBVIOUS
  <2> QED
    BY <1>16, <1>17, <1>18, <2>1
<1>20. \A i \in 0..1 : i = 0 \/ i = 1
  OBVIOUS
<1>21. \A i \in read..Len(journal) : Covered(trace[i], now, spent)
  BY <1>11, <1>14, <1>15, <1>17, <1>18, <1>20
<1> QED
  BY <1>11, <1>13, <1>17, <1>18, <1>19, <1>21 DEF TraceInv, now

LEMMA TraceInvariance == FeedSpec => [](LevelsInv /\ TraceInv)
<1> DEFINE All == IInv /\ MakersInv /\ LevelsInv /\ TraceInv
<1>1. All /\ [FeedNext]_feedVars => All'
  <2> SUFFICES ASSUME All, [FeedNext]_feedVars PROVE TraceInv'
    BY FeedStep, FeedKeepsLevels
  <2>1. CASE StopAtEnd
    BY <2>1, SweepConstants, StopKeepsTrace DEF StopAtEnd, BookExhausted
  <2>2. ASSUME NEW m \in Maker, StopAtCap(m) PROVE TraceInv'
    BY <2>2, SweepConstants, StopKeepsTrace DEF StopAtCap, CapReached
  <2>3. CASE UNCHANGED feedVars
    BY <2>3 DEF feedVars, vars, readers, TraceInv, Unread, Present
  <2> QED
    BY <2>1, <2>2, <2>3, MatchKeepsTrace, PreventKeepsTrace, ReadKeepsTrace DEF FeedNext
<1> QED
  BY <1>1, FeedInitInv, FeedInitLevels, FeedInitTrace, PTL DEF FeedSpec

(* A reader that has read everything is at the end of the trace.             *)
LEMMA TraceEnds ==
    LevelsInv /\ TraceInv =>
        /\ Covered(Present, Engine(order, makers, reserved_cad), spent)
        /\ CaughtUp => Agrees(Present, Engine(order, makers, reserved_cad), spent)
<1> SUFFICES ASSUME LevelsInv, TraceInv
             PROVE  /\ Covered(Present, Engine(order, makers, reserved_cad), spent)
                    /\ CaughtUp => Agrees(Present, Engine(order, makers, reserved_cad), spent)
  OBVIOUS
<1>1. read \in Nat /\ Len(journal) \in Nat /\ read <= Len(journal)
  BY DEF LevelsInv
<1>2. read \in read..Len(journal)
  BY <1>1
<1> HIDE DEF Engine
<1> QED
  BY <1>2 DEF TraceInv, CaughtUp

LEMMA EngineOrders ==
    /\ Engine(order, makers, reserved_cad) = [id \in OrderId |-> EngineOrder(id)]
    /\ Engine(order, makers, reserved_cad)[TakerId].filled_quantity = order.filled_quantity
    /\ \A m \in Maker : Engine(order, makers, reserved_cad)[m].filled_quantity
                          = makers[m].filled_quantity
<1>1. TakerId \in OrderId /\ \A m \in Maker : m \in OrderId /\ m # TakerId
  BY FeedConstants DEF OrderId
<1> QED
  BY <1>1 DEF Engine, EngineOrder, Codec!Whole

(* A restart rebuilds every order from the records, whatever the order in     *)
(* which the records of a match were written.                                *)
THEOREM RestartRebuilds == FeedSpec => []ReplayRebuilds
<1>1. LevelsInv /\ TraceInv => ReplayRebuilds
  <2> SUFFICES ASSUME LevelsInv, TraceInv PROVE ReplayRebuilds
    OBVIOUS
  <2> DEFINE now == Engine(order, makers, reserved_cad)
  <2>1. Covered(Present, now, spent) /\ (CaughtUp => Agrees(Present, now, spent))
    BY TraceEnds
  <2>2. now = [id \in OrderId |-> EngineOrder(id)]
    BY EngineOrders
  <2> HIDE DEF now
  <2>3. \A id \in OrderId : replica[id] # None => Precedes(replica[id], EngineOrder(id))
    BY <2>1, <2>2 DEF Covered, Present
  <2>4. CaughtUp => replica = [id \in OrderId |-> EngineOrder(id)]
    BY <2>1, <2>2 DEF Agrees, Present
  <2> QED
    BY <2>3, <2>4 DEF ReplayRebuilds
<1> QED
  BY <1>1, TraceInvariance, PTL

(* The ledger never overdraws on the way, and ends at the engine's balances. *)
THEOREM LedgerSettles == FeedSpec => []LedgerAgrees
<1>1. LevelsInv /\ TraceInv => LedgerAgrees
  <2> SUFFICES ASSUME LevelsInv, TraceInv PROVE LedgerAgrees
    OBVIOUS
  <2> DEFINE now == Engine(order, makers, reserved_cad)
  <2>1. Covered(Present, now, spent) /\ (CaughtUp => Agrees(Present, now, spent))
    BY TraceEnds
  <2>2. /\ now[TakerId].filled_quantity = order.filled_quantity
        /\ \A m \in Maker : now[m].filled_quantity = makers[m].filled_quantity
    BY EngineOrders
  <2> HIDE DEF now
  <2> QED
    BY <2>1, <2>2 DEF Covered, Agrees, Present, LedgerAgrees
<1> QED
  BY <1>1, TraceInvariance, PTL

(* Whole lots are left on both sides, whoever is filled and however often.   *)
THEOREM LotsStay == FeedSpec => []LotsOnBothSides
<1>1. IInv /\ MakersInv => LotsOnBothSides
  <2> SUFFICES ASSUME IInv, MakersInv PROVE LotsOnBothSides
    OBVIOUS
  <2>1. WholeLots
    BY LotsAreLeft
  <2>2. \A m \in Maker : IsResting(makers[m].status) => Taker!Remaining(makers[m]) \in MakerQuantity
    BY DEF MakersInv, OffersLots
  <2> QED
    BY <2>1, <2>2 DEF LotsOnBothSides
<1>2. FeedSpec => [](IInv /\ MakersInv)
  BY FeedInitInv, FeedStep, PTL DEF FeedSpec
<1> QED
  BY <1>1, <1>2, PTL
=============================================================================
