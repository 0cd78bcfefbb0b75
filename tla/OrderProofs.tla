------------------------------ MODULE OrderProofs ------------------------------
(***************************************************************************)
(* What any sequence of calls on an order preserves, for every set of      *)
(* prices, quantities and cancel reasons, and what holds of an order that  *)
(* came in as text, for every scale, precision and instrument.             *)
(***************************************************************************)
EXTENDS OrderEntry, UnitsProofs

IInv == TypeOK /\ StatusFits(order)

(* The constructor's conditions hold of the record every call returns.       *)
LEMMA NextKeepsIInv == IInv /\ [Next]_order => IInv'
<1> SUFFICES ASSUME IInv, [Next]_order PROVE IInv'
  OBVIOUS
<1> USE OrderConstants DEF IInv, TypeOK, Record, Legal, StatusFits,
        Remaining, RestsOnTheBook, IsTerminal, OrderStatus
<1>1. ASSUME NEW q \in 1..order.quantity, Fill(q) PROVE IInv'
  <2> DEFINE filled == order.filled_quantity + q
  <2>1. /\ filled \in Int /\ 0 <= filled /\ filled <= order.quantity
        /\ order' = [order EXCEPT
             !.filled_quantity = filled,
             !.status = IF filled = order.quantity THEN "FILLED" ELSE "PARTIAL"]
    BY <1>1 DEF Fill, Filled
  <2> HIDE DEF filled
  <2>2. order' \in Record
    BY <2>1
  <2>3. /\ order'.order_type = order.order_type /\ order'.price = order.price
        /\ order'.time_in_force = order.time_in_force
        /\ order'.quantity = order.quantity /\ order'.filled_quantity = filled
        /\ order'.status = IF filled = order.quantity THEN "FILLED" ELSE "PARTIAL"
    BY <2>1
  <2>4. Legal(order)'
    BY <2>1, <2>3
  <2>5. StatusFits(order)'
    BY <2>1, <2>3
  <2> QED
    BY <2>2, <2>4, <2>5
<1>2. ASSUME NEW reason \in Reason, Cancel(reason) PROVE IInv'
  BY <1>2 DEF Cancel, Cancelled
<1>3. CASE Reject
  BY <1>3 DEF Reject
<1>4. CASE OpenOnBook
  BY <1>4 DEF OpenOnBook
<1>5. CASE UNCHANGED order
  BY <1>5
<1> QED
  BY <1>1, <1>2, <1>3, <1>4, <1>5 DEF Next

LEMMA InitIInv == Init => IInv
  BY DEF Init, IInv, TypeOK, Record, StatusFits, OrderStatus

LEMMA Invariance == Spec => []IInv
  BY InitIInv, NextKeepsIInv, PTL DEF Spec

(* No sequence of calls takes the record where its constructor would refuse  *)
(* it: no overfill, no priced market order, no unpriced limit order.         *)
THEOREM AlwaysLegal == Spec => []TypeOK
<1>1. IInv => TypeOK
  BY DEF IInv
<1> QED
  BY <1>1, Invariance, PTL

(* The fill that leaves nothing makes an order FILLED, and no other; FILLED is *)
(* never shown while some of the quantity remains, and OPEN only of an        *)
(* untouched order that may rest.                                             *)
THEOREM StatusIsTrue == Spec => StatusTellsFills
<1> DEFINE A == /\ StatusFits(order')
                /\ order'.filled_quantity # order.filled_quantity =>
                     (order'.status = "FILLED" <=> Remaining(order') = 0)
<1>1. IInv /\ [Next]_order => [A]_order
  <2> SUFFICES ASSUME IInv, Next PROVE A
    OBVIOUS
  <2>1. StatusFits(order')
    BY NextKeepsIInv DEF IInv
  <2> USE DEF IInv, TypeOK, Record
  <2>2. ASSUME NEW q \in 1..order.quantity, Fill(q) PROVE A
    BY <2>1, <2>2, OrderConstants DEF Fill, Filled, Remaining
  <2>3. ASSUME NEW reason \in Reason, Cancel(reason) PROVE A
    BY <2>1, <2>3, OrderConstants DEF Cancel, Cancelled
  <2>4. CASE Reject
    BY <2>1, <2>4, OrderConstants DEF Reject
  <2>5. CASE OpenOnBook
    BY <2>1, <2>5, OrderConstants DEF OpenOnBook
  <2> QED
    BY <2>2, <2>3, <2>4, <2>5 DEF Next
<1> QED
  BY <1>1, Invariance, PTL DEF Spec, StatusTellsFills

(* No call gives executed quantity back or changes what was asked for.       *)
THEOREM FillsStay == Spec => FillsAreKept
<1> DEFINE Terms == {"side", "order_type", "time_in_force", "price", "quantity"}
           A == /\ order'.filled_quantity >= order.filled_quantity
                /\ \A term \in Terms : order'[term] = order[term]
<1>1. IInv /\ [Next]_order => [A]_order
  <2> SUFFICES ASSUME IInv, Next PROVE A
    OBVIOUS
  <2> USE DEF IInv, TypeOK, Record
  <2>1. ASSUME NEW q \in 1..order.quantity, Fill(q) PROVE A
    BY <2>1, OrderConstants DEF Fill, Filled, Remaining
  <2>2. ASSUME NEW reason \in Reason, Cancel(reason) PROVE A
    BY <2>2, OrderConstants DEF Cancel, Cancelled
  <2>3. CASE Reject
    BY <2>3, OrderConstants DEF Reject
  <2>4. CASE OpenOnBook
    BY <2>4, OrderConstants DEF OpenOnBook
  <2> QED
    BY <2>1, <2>2, <2>3, <2>4 DEF Next
<1> QED
  BY <1>1, Invariance, PTL DEF Spec, FillsAreKept

(* An order and the fields its methods do not read.                          *)
WholeOrder(Ids, Money) ==
    [order_id : Ids, side : Side, order_type : OrderType, time_in_force : TimeInForce,
     price : Price \cup {None}, quantity : Int, filled_quantity : Int,
     status : OrderStatus, cancel_reason : Reason \cup {None}, reserved_cad : Money]

(* An enum's text is read as the member it was written for.                  *)
LEMMA MemberReads == ASSUME NEW Enum, NEW member \in Enum PROVE Member(Enum, Str(member)) = {member}
  BY DEF Member, Str

(* What OrderFromDict reads of a line that lacks some optional keys.         *)
LEMMA LineReads ==
    ASSUME NEW Ids, NEW Money, NEW o \in WholeOrder(Ids, Money), Legal(o),
           NEW lost \in SUBSET Optional
    PROVE  OrderFromDict(Restrict(OrderToDict(o), DOMAIN OrderToDict(o) \ lost))
             = {[field \in DOMAIN o |-> IF field \in lost THEN None ELSE o[field]]}
<1> DEFINE line == OrderToDict(o)
           raw == Restrict(line, DOMAIN line \ lost)
           back == [field \in DOMAIN o |-> IF field \in lost THEN None ELSE o[field]]
           reason == Get(raw, "cancel_reason")
           reserved == Get(raw, "reserved_cad")
           reasons == IF reason = None THEN {None} ELSE Member(Reason, reason)
<1>1. /\ DOMAIN raw = DOMAIN line \ lost /\ Required \subseteq DOMAIN raw
      /\ \A key \in DOMAIN raw : raw[key] = line[key]
  BY DEF Restrict, OrderToDict, Required, Optional
<1>2. /\ raw.order_id = o.order_id /\ raw.side = Str(o.side)
      /\ raw.order_type = Str(o.order_type) /\ raw.time_in_force = Str(o.time_in_force)
      /\ raw.price = o.price /\ raw.quantity = o.quantity
      /\ raw.filled_quantity = o.filled_quantity /\ raw.status = Str(o.status)
  BY <1>1 DEF OrderToDict, Required
<1>3. reserved = back.reserved_cad
  BY <1>1 DEF Get, OrderToDict, WholeOrder
<1>4. reasons = {back.cancel_reason}
  <2>1. /\ o.cancel_reason \in Reason \cup {None}
        /\ line.cancel_reason = (IF o.cancel_reason = None THEN None ELSE Str(o.cancel_reason))
        /\ back.cancel_reason = (IF "cancel_reason" \in lost THEN None ELSE o.cancel_reason)
    BY DEF OrderToDict, WholeOrder
  <2>2. reason = IF "cancel_reason" \in lost THEN None ELSE line.cancel_reason
    BY <1>1 DEF Get, OrderToDict
  <2> DEFINE written == line.cancel_reason
             kept == back.cancel_reason
  <2> HIDE DEF reason, written, kept
  <2> USE <2>1, <2>2 DEF written, kept
  <2>3. CASE "cancel_reason" \in lost
    <3>1. reason = None /\ kept = None
      BY <2>3
    <3> QED
      BY <3>1
  <2>4. CASE "cancel_reason" \notin lost /\ o.cancel_reason = None
    <3>1. reason = None /\ kept = None
      BY <2>4
    <3> QED
      BY <3>1
  <2>5. CASE "cancel_reason" \notin lost /\ o.cancel_reason \in Reason
    <3>1. reason = Str(kept) /\ kept \in Reason
      BY <2>5, OrderConstants
    <3>2. reason # None
      BY <3>1, JournalConstants
    <3> HIDE DEF kept
    <3>3. Member(Reason, reason) = {kept}
      BY <3>1, MemberReads
    <3> QED
      BY <3>2, <3>3 DEF kept
  <2> QED
    BY <2>3, <2>4, <2>5
<1>5. /\ back \in WholeOrder(Ids, Money \cup {None}) /\ Legal(back)
      /\ \A field \in DOMAIN o \ Optional : back[field] = o[field]
      /\ DOMAIN back = DOMAIN o
  BY DEF WholeOrder, Legal, Optional
<1>6. OrderFromDict(raw)
        = {p \in [order_id : {o.order_id}, side : {o.side}, order_type : {o.order_type},
                  time_in_force : {o.time_in_force}, price : {o.price},
                  quantity : {o.quantity}, filled_quantity : {o.filled_quantity},
                  status : {o.status}, cancel_reason : {back.cancel_reason},
                  reserved_cad : {back.reserved_cad}] : Legal(p)}
  <2>1. /\ o.side \in Side /\ o.order_type \in OrderType
        /\ o.time_in_force \in TimeInForce /\ o.status \in OrderStatus
    BY DEF WholeOrder
  <2> HIDE DEF raw, back
  <2>2. /\ Member(Side, raw.side) = {o.side}
        /\ Member(OrderType, raw.order_type) = {o.order_type}
        /\ Member(TimeInForce, raw.time_in_force) = {o.time_in_force}
        /\ Member(OrderStatus, raw.status) = {o.status}
    BY <1>2, <2>1, MemberReads
  <2> QED
    BY <1>1, <1>2, <1>3, <1>4, <2>2 DEF OrderFromDict
<1>7. ASSUME NEW p \in OrderFromDict(raw) PROVE p = back
  BY <1>5, <1>6 DEF WholeOrder, Optional
<1>8. back \in OrderFromDict(raw)
  BY <1>5, <1>6 DEF WholeOrder, Optional
<1> QED
  BY <1>7, <1>8

(* A line that lacks nothing is read as the order it was written of.         *)
LEMMA WholeLineReads ==
    ASSUME NEW Ids, NEW Money, NEW o \in WholeOrder(Ids, Money), Legal(o)
    PROVE  OrderFromDict(OrderToDict(o)) = {o}
<1> DEFINE line == OrderToDict(o)
           lost == {}
<1>1. lost \in SUBSET Optional
  OBVIOUS
<1>2. Restrict(line, DOMAIN line \ lost) = line
  BY DEF Restrict, OrderToDict
<1>3. [field \in DOMAIN o |-> IF field \in lost THEN None ELSE o[field]] = o
  BY DEF WholeOrder
<1>4. OrderFromDict(Restrict(line, DOMAIN line \ lost))
        = {[field \in DOMAIN o |-> IF field \in lost THEN None ELSE o[field]]}
  <2> HIDE DEF lost
  <2> QED
    BY <1>1, LineReads
<1> HIDE DEF line, lost
<1>5. OrderFromDict(line) = {o}
  BY <1>2, <1>3, <1>4
<1> QED
  BY <1>5 DEF line

(* Every order that any sequence of calls leads to is replayed exactly, for   *)
(* every set of identifiers and reservations, and a line without the optional *)
(* keys leads to the same order without what they held.                       *)
THEOREM ReplayExact == Spec => []ReplayIsExact
<1>1. IInv => ReplayIsExact
  <2> SUFFICES ASSUME IInv, NEW id \in OrderId, NEW reserved \in ReservedCad \cup {None},
                      NEW lost \in SUBSET Optional
               PROVE  LET o == Whole(order, id, reserved)
                          line == OrderToDict(o)
                      IN  OrderFromDict(Restrict(line, DOMAIN line \ lost))
                            = {[field \in DOMAIN o |-> IF field \in lost THEN None ELSE o[field]]}
    BY DEF ReplayIsExact
  <2> DEFINE o == Whole(order, id, reserved)
  <2>1. o \in WholeOrder({id}, {reserved}) /\ Legal(o)
    BY OrderConstants DEF IInv, TypeOK, Record, Legal, Whole, WholeOrder
  <2> HIDE DEF o
  <2>2. LET line == OrderToDict(o)
        IN  OrderFromDict(Restrict(line, DOMAIN line \ lost))
              = {[field \in DOMAIN o |-> IF field \in lost THEN None ELSE o[field]]}
    BY <2>1, LineReads
  <2> QED
    BY <2>2 DEF o
<1> QED
  BY <1>1, Invariance, PTL
-----------------------------------------------------------------------------
(* A text that is accepted without rounding says exactly the number read.    *)
LEMMA ParseExact ==
    ASSUME NEW text \in Text, NEW scale \in Nat \ {0}, NEW n \in Parse(text, scale),
           Magnitude(text.coefficient * scale) < LIMIT
    PROVE  n \in Int /\ Says(text, n, scale)
<1> DEFINE s == text.coefficient * scale
<1>1. /\ text # NotFinite /\ text.coefficient \in Int /\ text.unit \in Nat \ {0}
      /\ s \in Int
  BY DEF Text, Parse
<1>2. Rounded(s) = s
  BY DEF Rounded
<1>3. n = s \div text.unit /\ s % text.unit = 0
  BY <1>1, <1>2 DEF Parse
<1> HIDE DEF s
<1>4. s \div text.unit \in Int /\ s = text.unit * (s \div text.unit) + (s % text.unit)
  BY <1>1, DivMod
<1>5. n \in Int /\ s = text.unit * n
  BY <1>1, <1>3, <1>4
<1> QED
  BY <1>1, <1>5 DEF Says, s

(* What is shown reads back as the same number, while nothing is rounded.    *)
LEMMA ShownReadsBack ==
    ASSUME NEW n \in Nat, NEW scale \in Nat \ {0}, n * scale < LIMIT
    PROVE  Parse(Format(n, scale), scale) = {n}
<1>1. n * scale \in Nat /\ n <= n * scale
  <2>1. n * 1 <= n * scale
    BY TimesMonotone
  <2> QED
    BY <2>1
<1>2. Rounded(n) = n /\ Rounded(n * scale) = n * scale
  BY <1>1, WireConstants DEF Rounded, Magnitude
<1>3. /\ Format(n, scale) \in Text
      /\ Format(n, scale).coefficient = n /\ Format(n, scale).unit = scale
  BY <1>2 DEF Format, Text
<1>4. (n * scale) \div scale = n /\ (n * scale) % scale = 0
  <2>1. n * scale = scale * n
    OBVIOUS
  <2>2. (n * scale) % scale = 0
    BY <1>1, <2>1, Multiples
  <2>3. (n * scale) \div scale \in Int /\ n * scale = scale * ((n * scale) \div scale)
    BY <1>1, <2>2, DivMod
  <2> DEFINE d == (n * scale) \div scale
  <2> HIDE DEF d
  <2>4. d \in Int /\ scale * d = scale * n
    BY <2>1, <2>3 DEF d
  <2>5. d <= n /\ n <= d
    BY <2>4, TimesCancel
  <2> QED
    BY <2>2, <2>4, <2>5 DEF d
<1> QED
  BY <1>2, <1>3, <1>4 DEF Parse, Text, NotFinite

(* The terms of an order are those of one that its request led to.           *)
Entered ==
    /\ request \in Requests
    /\ \E o \in Admitted(request) :
         order.side = o.side /\ order.quantity = o.quantity /\ order.price = o.price

LEMMA EntryInitIInv == EntryInit => Init /\ IInv /\ Entered
<1> SUFFICES ASSUME EntryInit PROVE Init /\ IInv /\ Entered
  OBVIOUS
<1>1. request \in Request /\ request \in Requests /\ order \in Admitted(request)
  BY EntryConstants DEF EntryInit
<1>2. order.quantity \in Quantity /\ order.price \in Price \cup {None}
  BY <1>1, EntryBounds
<1>3. Init
  BY <1>1, <1>2 DEF Init, Admitted, Request
<1> QED
  BY <1>1, <1>3, InitIInv DEF Entered

LEMMA NextKeepsEntered == IInv /\ Entered /\ [EntryNext]_entryVars => Entered'
<1> SUFFICES ASSUME IInv, Entered, [EntryNext]_entryVars PROVE Entered'
  OBVIOUS
<1>1. request' = request
  BY DEF EntryNext, entryVars
<1>2. /\ order'.side = order.side
      /\ order'.quantity = order.quantity
      /\ order'.price = order.price
  BY DEF EntryNext, entryVars, Next, Fill, Filled, Cancel, Cancelled, Reject, OpenOnBook,
         IInv, TypeOK, Record
<1>3. PICK o \in Admitted(request) :
        order.side = o.side /\ order.quantity = o.quantity /\ order.price = o.price
  BY DEF Entered
<1>4. o \in Admitted(request)'
  BY <1>1 DEF Admitted, ParseQuantity, ParsePrice
<1> QED
  BY <1>1, <1>2, <1>3, <1>4 DEF Entered

LEMMA EntryInvariance == EntrySpec => [](IInv /\ Entered)
<1>1. IInv /\ Entered /\ [EntryNext]_entryVars => (IInv /\ Entered)'
  BY NextKeepsIInv, NextKeepsEntered DEF EntryNext, entryVars
<1> QED
  BY <1>1, EntryInitIInv, PTL DEF EntrySpec

(* An order that came in as text lives as Order says, so every theorem above *)
(* holds of it.                                                              *)
THEOREM EnteredOrdersAreOrders == EntrySpec => Spec
<1>1. EntryInit => Init
  BY EntryInitIInv
<1>2. [EntryNext]_entryVars => [Next]_order
  BY DEF EntryNext, entryVars
<1> QED
  BY <1>1, <1>2, PTL DEF EntrySpec, Spec

(* An order's amounts are numbers that arithmetic can be done with.          *)
LEMMA OrderNumbers ==
    ASSUME IInv
    PROVE  /\ order.filled_quantity \in Nat /\ Remaining(order) \in Nat
           /\ order.price # None => order.price \in Int
<1>1. order.filled_quantity \in Int /\ order.quantity \in Int
  BY OrderConstants DEF IInv, TypeOK, Record
<1>2. order.price \in Price \cup {None}
  BY DEF IInv, TypeOK, Record
<1>3. 0 <= order.filled_quantity /\ order.filled_quantity <= order.quantity
  BY DEF IInv, TypeOK, Legal
<1>4. order.price # None => order.price \in Int
  BY <1>2, OrderConstants
<1>5. Remaining(order) \in Nat
  BY <1>1, <1>3 DEF Remaining
<1> QED
  BY <1>1, <1>3, <1>4, <1>5

(* What was written is what is traded, and what is shown reads back.         *)
THEOREM TermsKept == EntrySpec => []WrittenTermsKept
<1>1. IInv /\ Entered => WrittenTermsKept
  <2> SUFFICES ASSUME IInv, Entered PROVE WrittenTermsKept
    OBVIOUS
  <2>1. request \in Request /\ CENTS \in Nat \ {0} /\ PRICE_SCALE \in Nat \ {0}
    BY EntryConstants, WireConstants, PriceScale DEF Entered
  <2>2. PICK o \in Admitted(request) : order.quantity = o.quantity /\ order.price = o.price
    BY DEF Entered
  <2>3. /\ o.quantity \in Parse(request.quantity, CENTS)
        /\ o.price # None => ValidPrice(o.price)
        /\ o.price \in IF request.price = None THEN {None} ELSE Parse(request.price, PRICE_SCALE)
    BY DEF Admitted, ParseQuantity, ParsePrice
  <2>4. request.quantity \in Text
    BY <2>1, <2>3 DEF Parse, Request
  <2>5. request.price # None => request.price \in Text
    BY <2>1, <2>3 DEF Parse, Request
  <2>6. Magnitude(request.quantity.coefficient * CENTS) < LIMIT =>
          Says(request.quantity, order.quantity, CENTS)
    BY <2>1, <2>2, <2>3, <2>4, ParseExact
  <2>7. request.price # None /\ Magnitude(request.price.coefficient * PRICE_SCALE) < LIMIT =>
          Says(request.price, order.price, PRICE_SCALE)
    BY <2>1, <2>2, <2>3, <2>5, ParseExact
  <2>8. Remaining(order) \in Nat
    BY OrderNumbers
  <2>9. Remaining(order) * CENTS < LIMIT =>
          ParseQuantity(FormatQuantity(Remaining(order))) = {Remaining(order)}
    BY <2>1, <2>8, ShownReadsBack DEF ParseQuantity, FormatQuantity
  <2>10. order.price # None => order.price \in Nat
    BY <2>2, <2>3, OrderNumbers DEF ValidPrice
  <2>11. order.price # None /\ order.price * PRICE_SCALE < LIMIT =>
           ParsePrice(FormatPrice(order.price)) = {order.price}
    BY <2>1, <2>10, ShownReadsBack DEF ParsePrice, FormatPrice
  <2> QED
    BY <2>6, <2>7, <2>9, <2>11 DEF WrittenTermsKept
<1> QED
  BY <1>1, EntryInvariance, PTL

(* A price a fraction away makes a sum that fraction away, and two roundings *)
(* add at most a cent.                                                       *)
LEMMA WorthNear ==
    ASSUME NEW q \in Nat, NEW p \in Nat, NEW r \in Nat, NEW side, NEW margin \in Int,
           (p - r) * 100 <= margin
    PROVE  100 * PRICE_SCALE * (NotionalCad(q, p, side) - NotionalCad(q, r, side))
             <= q * margin + 100 * PRICE_SCALE
<1> DEFINE m == NotionalCad(q, p, side)
           n == NotionalCad(q, r, side)
           x == q * p
           y == q * r
           b == q * margin
<1>1. /\ m \in Int /\ 2 * (m * PRICE_SCALE - x) <= PRICE_SCALE
      /\ n \in Int /\ 2 * (y - n * PRICE_SCALE) <= PRICE_SCALE
  BY NotionalRounds DEF Rounds
<1>2. x \in Int /\ y \in Int /\ b \in Int /\ PRICE_SCALE \in Nat \ {0}
  BY PriceScale
<1>3. 100 * (x - y) <= b
  <2>1. q * ((p - r) * 100) <= q * margin
    BY TimesMonotone
  <2>2. q * ((p - r) * 100) = 100 * (x - y)
    OBVIOUS
  <2> QED
    BY <2>1, <2>2
<1> HIDE DEF m, n, x, y, b
<1>4. /\ m * PRICE_SCALE \in Int /\ n * PRICE_SCALE \in Int
      /\ 100 * PRICE_SCALE * (m - n) = 100 * (m * PRICE_SCALE) - 100 * (n * PRICE_SCALE)
  BY <1>1, <1>2
<1>5. 100 * PRICE_SCALE * (m - n) <= b + 100 * PRICE_SCALE
  BY <1>1, <1>2, <1>3, <1>4
<1> QED
  BY <1>5 DEF m, n, b

(* The band in cents, for whatever has filled of an order at its limit.      *)
THEOREM WorthNearReference == EntrySpec => []FillsNearReference
<1>1. IInv /\ Entered => FillsNearReference
  <2> SUFFICES ASSUME IInv, Entered, order.price # None, NEW reference \in request.reference
               PROVE  100 * PRICE_SCALE
                        * Magnitude(NotionalCad(order.filled_quantity, order.price, order.side)
                                    - NotionalCad(order.filled_quantity, reference, order.side))
                        <= order.filled_quantity * reference * PRICE_BAND_PCT + 100 * PRICE_SCALE
    BY DEF FillsNearReference
  <2> DEFINE q == order.filled_quantity
             p == order.price
  <2>1. PICK o \in Admitted(request) : order.price = o.price
    BY DEF Entered
  <2>2. ValidPrice(p) /\ WithinPriceBand(p, request.reference)
    BY <2>1 DEF Admitted
  <2>3. q \in Nat /\ p \in Nat /\ reference \in Nat
    BY <2>2, OrderNumbers, EntryConstants DEF Entered, Request, ValidPrice
  <2> DEFINE margin == reference * PRICE_BAND_PCT
             worth(price) == NotionalCad(q, price, order.side)
  <2>4. (p - reference) * 100 <= margin /\ (reference - p) * 100 <= margin
    BY <2>2 DEF WithinPriceBand
  <2>5. margin \in Int /\ q * margin = q * reference * PRICE_BAND_PCT
    BY <2>3, InstrumentConstants
  <2>6. worth(p) \in Int /\ worth(reference) \in Int /\ PRICE_SCALE \in Nat
    BY <2>3, NotionalRounds, PriceScale DEF Rounds
  <2> HIDE DEF margin
  <2>7. /\ 100 * PRICE_SCALE * (worth(p) - worth(reference)) <= q * margin + 100 * PRICE_SCALE
        /\ 100 * PRICE_SCALE * (worth(reference) - worth(p)) <= q * margin + 100 * PRICE_SCALE
    BY <2>3, <2>4, <2>5, WorthNear
  <2> DEFINE off == worth(p) - worth(reference)
  <2>8. 0 - off = worth(reference) - worth(p)
    BY <2>6
  <2>9. Magnitude(off) \in {off, 0 - off}
    BY DEF Magnitude
  <2> QED
    BY <2>5, <2>7, <2>8, <2>9
<1> QED
  BY <1>1, EntryInvariance, PTL
=============================================================================
