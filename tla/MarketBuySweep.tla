----------------------------- MODULE MarketBuySweep -----------------------------
(***************************************************************************)
(* A market BUY meeting resting sell orders.  The engine's matching loop   *)
(* is not written yet, so the loop is external: it may meet makers in any  *)
(* order, at any prices and sizes, and stop whenever the book runs out.    *)
(* What it does with each is what units.py and orders.py say of their use: *)
(* affordable_quantity clamps every fill to what is left of reserved_cad,  *)
(* the order's hard spending limit, fill applies it, and notional_cad      *)
(* prices it, once for both legs.  Suffixed names, like Affordable_OfAll,  *)
(* are wrong variants a property must tell apart.                          *)
(***************************************************************************)
EXTENDS Units, Instruments

CONSTANTS
    Quantity, Reason, None,     \* of the order
    MakerPrice,                 \* prices of resting orders
    Reserved                    \* reservations

ASSUME SweepConstants ==
    /\ Quantity \subseteq Int
    /\ {"NOTIONAL_CAP_REACHED", "IOC_REMAINDER"} \subseteq Reason /\ None \notin Reason
    /\ MakerPrice \subseteq {price \in Nat : ValidPrice(price)}
    /\ Reserved \subseteq Nat

VARIABLES
    order,          \* the taker
    reserved_cad,   \* its reservation
    spent,          \* CAD cents debited for its fills
    exact,          \* history: sum of quantity times price, unrounded
    fills           \* history: number of fills

vars == <<order, reserved_cad, spent, exact, fills>>

(* what a resting order may offer: the rest of a valid quantity *)
MakerQuantity == {quantity \in 1..MAX_QTY : quantity % LOT_SIZE = 0}

Taker == INSTANCE Order WITH Price <- {}

Init ==
    /\ Taker!Init /\ order.order_type = "MARKET" /\ order.side = "BUY"
    /\ ValidQuantity(order.quantity)
    /\ reserved_cad \in Reserved
    /\ spent = 0 /\ exact = 0 /\ fills = 0

Sweeping_AfterCancel == order.status # "FILLED"
Sweeping == ~ Taker!IsTerminal(order.status)

Affordable_OfAll(price) == AffordableQuantity(reserved_cad, price, LOT_SIZE)
Affordable(price) == AffordableQuantity(reserved_cad - spent, price, LOT_SIZE)

(* a resting order at this price offers `offered`: trade what all three allow *)
Trade(price, offered) ==
    /\ Sweeping /\ Taker!Crosses(order, price)
    /\ \E quantity \in {offered, Taker!Remaining(order), Affordable(price)} :
         /\ quantity <= offered /\ quantity <= Affordable(price)
         /\ Taker!Fill(quantity)
         /\ spent' = spent + NotionalCad(quantity, price, order.side)
         /\ exact' = exact + quantity * price
    /\ fills' = fills + 1
    /\ UNCHANGED reserved_cad

CapReached(price) ==
    /\ Sweeping /\ Affordable(price) = 0
    /\ Taker!Cancel("NOTIONAL_CAP_REACHED")
    /\ UNCHANGED <<reserved_cad, spent, exact, fills>>

BookExhausted ==
    /\ Sweeping
    /\ Taker!Cancel("IOC_REMAINDER")
    /\ UNCHANGED <<reserved_cad, spent, exact, fills>>

Next ==
    \/ \E price \in MakerPrice, offered \in MakerQuantity : Trade(price, offered)
    \/ \E price \in MakerPrice : CapReached(price)
    \/ BookExhausted

Spec == Init /\ [][Next]_vars

-----------------------------------------------------------------------------
(* Properties *)

TypeOK ==
    /\ Taker!TypeOK
    /\ reserved_cad \in Reserved
    /\ {spent, exact, fills} \subseteq Nat

(* The hard spending limit: whatever the makers' prices and sizes, the fills *)
(* of a market BUY, each rounded to a cent, never cost more in sum than was  *)
(* reserved.                                                                 *)
WithinReservation == spent <= reserved_cad

(* Rounding is fair over a whole sweep: the debit is within half a cent per  *)
(* fill of the exact value.                                                  *)
DriftIsBounded ==
    /\ 2 * (spent * PRICE_SCALE - exact) <= fills * PRICE_SCALE
    /\ 2 * (exact - spent * PRICE_SCALE) <= fills * PRICE_SCALE

(* What remains of the order is a whole number of lots, through any mix of   *)
(* partial fills, also when the money runs out in the middle of one.         *)
WholeLots == Taker!Remaining(order) % LOT_SIZE = 0

(* The sweep spends a reservation: no debit is taken back, none comes after   *)
(* the order is terminal, and the amount set aside stays as it was.           *)
Reserve == INSTANCE Reservation WITH
    Amount <- Reserved, reserved <- reserved_cad, closed <- Taker!IsTerminal(order.status)
ImplementsReservation == Reserve!Spec
=============================================================================
