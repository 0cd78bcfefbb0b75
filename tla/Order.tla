--------------------------------- MODULE Order ---------------------------------
(***************************************************************************)
(* market_core/orders.py and enums.py: one order and the transitions of    *)
(* its record.  The record is immutable and every method returns a new     *)
(* one; the variable is the record its owner keeps.  The owner may call    *)
(* any method in any order.  A call that raises changes nothing, so only   *)
(* the calls that return are steps.  Identifiers, timestamps and the       *)
(* reservation, which no method reads, come in with Journal.  Suffixed     *)
(* names, like Fill_Unbounded, are wrong variants a property must tell     *)
(* apart.                                                                  *)
(***************************************************************************)
EXTENDS Integers

CONSTANTS
    Price,      \* limit prices in ticks
    Quantity,   \* original quantities in USD cents
    Reason,     \* CancelReason
    None

ASSUME OrderConstants ==
    /\ Price \subseteq Int /\ None \notin Price
    /\ Quantity \subseteq Int
    /\ None \notin Reason

VARIABLE order

Side == {"BUY", "SELL"}
OrderType == {"LIMIT", "MARKET"}
TimeInForce == {"GTC", "IOC"}
OrderStatus == {"PENDING", "OPEN", "PARTIAL", "FILLED", "CANCELLED", "REJECTED"}

IsTerminal(status) == status \in {"FILLED", "CANCELLED", "REJECTED"}

Record ==
    [side : Side, order_type : OrderType, time_in_force : TimeInForce,
     price : Price \cup {None}, quantity : Quantity, filled_quantity : Int,
     status : OrderStatus, cancel_reason : Reason \cup {None}]

(* __post_init__: what the constructor accepts, from replace as well *)
Legal(o) ==
    /\ o.order_type = "MARKET" => o.price = None /\ o.time_in_force = "IOC"
    /\ o.order_type = "LIMIT" => o.price # None
    /\ o.quantity > 0
    /\ 0 <= o.filled_quantity /\ o.filled_quantity <= o.quantity

Remaining(o) == o.quantity - o.filled_quantity

RestsOnTheBook(o) == o.order_type = "LIMIT" /\ o.time_in_force = "GTC"

(* would the order trade against a resting order at maker_price? *)
Crosses(o, maker_price) ==
    o.price # None =>
        /\ o.side = "BUY" => maker_price <= o.price
        /\ o.side = "SELL" => maker_price >= o.price

-----------------------------------------------------------------------------
(* An order the gateway accepted and nobody sequenced yet. *)
Init ==
    order \in {o \in [side : Side, order_type : OrderType, time_in_force : TimeInForce,
                      price : Price \cup {None}, quantity : Quantity,
                      filled_quantity : {0}, status : {"PENDING"},
                      cancel_reason : {None}] : Legal(o)}

Fill_Unbounded(quantity) ==
    /\ 0 < quantity
    /\ order' = [order EXCEPT
         !.filled_quantity = @ + quantity,
         !.status = IF order.filled_quantity + quantity = order.quantity THEN "FILLED" ELSE "PARTIAL"]

Filled_LastQuantity(o, quantity) ==
    [o EXCEPT !.filled_quantity = @ + quantity,
              !.status = IF quantity = o.quantity THEN "FILLED" ELSE "PARTIAL"]

(* FILLED by what has filled so far, not by the last quantity *)
Filled(o, quantity) ==
    LET filled == o.filled_quantity + quantity
    IN  [o EXCEPT !.filled_quantity = filled,
                  !.status = IF filled = o.quantity THEN "FILLED" ELSE "PARTIAL"]

(* fill looks at the quantities only, not at the status *)
Fill(quantity) ==
    /\ 0 < quantity /\ quantity <= Remaining(order)
    /\ order' = Filled(order, quantity)

Cancel_GivesBack(reason) ==
    /\ ~ IsTerminal(order.status)
    /\ order' = [order EXCEPT !.status = "CANCELLED", !.cancel_reason = reason,
                              !.filled_quantity = 0]

Cancelled(o, reason) == [o EXCEPT !.status = "CANCELLED", !.cancel_reason = reason]

Cancel(reason) ==
    /\ ~ IsTerminal(order.status)
    /\ order' = Cancelled(order, reason)

Reject ==
    /\ ~ IsTerminal(order.status)
    /\ order' = [order EXCEPT !.status = "REJECTED"]

(* open_on_book looks at the order's type only, not at the status *)
OpenOnBook ==
    /\ RestsOnTheBook(order)
    /\ order' = [order EXCEPT
         !.status = IF order.filled_quantity = 0 THEN "OPEN" ELSE "PARTIAL"]

Next ==
    \/ \E quantity \in 1..order.quantity : Fill(quantity)
    \/ \E reason \in Reason : Cancel(reason)
    \/ Reject
    \/ OpenOnBook

Spec == Init /\ [][Next]_order

-----------------------------------------------------------------------------
(* Properties *)

(* No sequence of calls takes the record where its constructor would refuse  *)
(* it: in particular no sequence of partial fills overfills an order.        *)
TypeOK == order \in Record /\ Legal(order)

(* what may be shown of an order *)
StatusFits(o) ==
    /\ o.status = "FILLED" => Remaining(o) = 0
    /\ o.status = "OPEN" => RestsOnTheBook(o) /\ o.filled_quantity = 0

(* The status tells what was filled.  A fill makes the order FILLED when it   *)
(* leaves nothing and at no other time, after however many partial fills and  *)
(* re-openings; no call shows FILLED of an order with a remainder, or OPEN of *)
(* one that may not rest or has traded, also when open_on_book comes late.    *)
StatusTellsFills ==
    [][/\ StatusFits(order')
       /\ order'.filled_quantity # order.filled_quantity =>
            (order'.status = "FILLED" <=> Remaining(order') = 0)]_order

(* Executed quantity is never given back, and no call changes what the client *)
(* asked for: cancel and reject keep what was filled.                        *)
FillsAreKept ==
    [][/\ order'.filled_quantity >= order.filled_quantity
       /\ \A term \in {"side", "order_type", "time_in_force", "price", "quantity"} :
            order'[term] = order[term]]_order

(* Claims of the repository *)

(* FILLED, CANCELLED and REJECTED are terminal. *)
TerminalIsFinal == [][IsTerminal(order.status) => order'.status = order.status]_order
=============================================================================
