-------------------------------- MODULE Journal --------------------------------
(***************************************************************************)
(* market_core/events.py: an order as the dictionary of a journal line,    *)
(* and back.  A dictionary is a record, and a key it may lack is no field  *)
(* of it.  An enum's member and its text on the wire are different values, *)
(* so that a text which is not read, or is read as another enum's, shows.  *)
(* order_id stands for the six fields that both conversions copy.          *)
(* OrderToDict_NoneAsText is a wrong variant a property must tell apart.   *)
(***************************************************************************)
EXTENDS Order, Functions

CONSTANTS
    OrderId,
    ReservedCad     \* reservations in CAD cents

Str(member) == [str |-> member]

ASSUME JournalConstants == \A reason \in Reason : Str(reason) # None

(* an enum's constructor: the member, or none where it raises ValueError *)
Member(Enum, text) == {member \in Enum : Str(member) = text}

(* Order with the fields its methods do not read *)
Whole(o, id, reserved) ==
    [order_id |-> id, side |-> o.side, order_type |-> o.order_type,
     time_in_force |-> o.time_in_force, price |-> o.price, quantity |-> o.quantity,
     filled_quantity |-> o.filled_quantity, status |-> o.status,
     cancel_reason |-> o.cancel_reason, reserved_cad |-> reserved]

(* str(None) is a text, too *)
OrderToDict_NoneAsText(o) ==
    [order_id |-> o.order_id, side |-> Str(o.side), order_type |-> Str(o.order_type),
     time_in_force |-> Str(o.time_in_force), price |-> o.price, quantity |-> o.quantity,
     filled_quantity |-> o.filled_quantity, status |-> Str(o.status),
     cancel_reason |-> Str(o.cancel_reason), reserved_cad |-> o.reserved_cad]

OrderToDict(o) ==
    [order_id |-> o.order_id, side |-> Str(o.side), order_type |-> Str(o.order_type),
     time_in_force |-> Str(o.time_in_force), price |-> o.price, quantity |-> o.quantity,
     filled_quantity |-> o.filled_quantity, status |-> Str(o.status),
     cancel_reason |-> IF o.cancel_reason = None THEN None ELSE Str(o.cancel_reason),
     reserved_cad |-> o.reserved_cad]

(* raw.get *)
Get(raw, key) == IF key \in DOMAIN raw THEN raw[key] ELSE None

Optional == {"cancel_reason", "reserved_cad"}
Required ==
    {"order_id", "side", "order_type", "time_in_force", "price", "quantity",
     "filled_quantity", "status"}

(* the order, or no order where a key, an enum or the constructor raises *)
OrderFromDict(raw) ==
    LET reason == Get(raw, "cancel_reason")
    IN  IF Required \subseteq DOMAIN raw
        THEN {o \in [order_id : {raw.order_id}, side : Member(Side, raw.side),
                     order_type : Member(OrderType, raw.order_type),
                     time_in_force : Member(TimeInForce, raw.time_in_force),
                     price : {raw.price}, quantity : {raw.quantity},
                     filled_quantity : {raw.filled_quantity},
                     status : Member(OrderStatus, raw.status),
                     cancel_reason : IF reason = None THEN {None} ELSE Member(Reason, reason),
                     reserved_cad : {Get(raw, "reserved_cad")}] : Legal(o)}
        ELSE {}

-----------------------------------------------------------------------------
(* Replay rebuilds an order exactly, at whatever point of its life it was     *)
(* journaled and whatever was reserved for it: no sequence of calls, not even *)
(* one that revived a terminal order, leads to a record whose journal line    *)
(* cannot be read back or reads back as another order.  A line that lacks the *)
(* keys read with raw.get leads to the same order without what they held.     *)
ReplayIsExact ==
    \A id \in OrderId, reserved \in ReservedCad \cup {None}, lost \in SUBSET Optional :
        LET o == Whole(order, id, reserved)
            line == OrderToDict(o)
        IN  OrderFromDict(Restrict(line, DOMAIN line \ lost))
              = {[field \in DOMAIN o |-> IF field \in lost THEN None ELSE o[field]]}
=============================================================================
