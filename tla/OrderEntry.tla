------------------------------- MODULE OrderEntry -------------------------------
(***************************************************************************)
(* An order from the text a client sent to the record the engine gets.     *)
(* The gateway's route is not written yet, so it is external: it makes of  *)
(* units.py, instruments.py and the constructor of orders.py the use their *)
(* docstrings describe, and refuses the request where one of them raises.  *)
(* Afterwards the order lives as in Order.  A request holds the reference  *)
(* price it met, so that history can be told from the present.             *)
(***************************************************************************)
EXTENDS Journal, Units, Instruments, Wire

CONSTANT Requests

Request ==
    [side : Side, order_type : OrderType, time_in_force : TimeInForce,
     quantity : Text \cup {NotFinite}, price : Text \cup {NotFinite, None},
     reference : SUBSET Nat]

ASSUME EntryConstants == Requests \subseteq Request

VARIABLE request    \* what the client sent

entryVars == <<order, request>>

ParseQuantity(text) == Parse(text, CENTS)
ParsePrice(text) == Parse(text, PRICE_SCALE)
FormatQuantity(cents) == Format(cents, CENTS)
FormatPrice(ticks) == Format(ticks, PRICE_SCALE)

(* the order a request leads to, or none *)
Admitted(r) ==
    {o \in [side : {r.side}, order_type : {r.order_type}, time_in_force : {r.time_in_force},
            price : IF r.price = None THEN {None} ELSE ParsePrice(r.price),
            quantity : ParseQuantity(r.quantity), filled_quantity : {0},
            status : {"PENDING"}, cancel_reason : {None}] :
        /\ ValidQuantity(o.quantity)
        /\ o.price # None =>
             ValidPrice(o.price) /\ WithinPriceBand(o.price, r.reference)
        /\ Legal(o)}

(* Price and Quantity bound nothing that is admitted *)
ASSUME EntryBounds ==
    \A r \in Requests : \A o \in Admitted(r) :
        o.quantity \in Quantity /\ o.price \in Price \cup {None}

EntryInit == request \in Requests /\ order \in Admitted(request)

EntryNext == Next /\ UNCHANGED request

EntrySpec == EntryInit /\ [][EntryNext]_entryVars

-----------------------------------------------------------------------------
(* Properties *)

(* With no more digits than decimal arithmetic keeps, an order always has the *)
(* terms its client wrote, and what the client is shown of it reads back as   *)
(* the same number: no digit is cut off or rounded away, in either direction  *)
(* and after any number of fills.                                             *)
WrittenTermsKept ==
    /\ Magnitude(request.quantity.coefficient * CENTS) < LIMIT =>
         Says(request.quantity, order.quantity, CENTS)
    /\ request.price # None /\ Magnitude(request.price.coefficient * PRICE_SCALE) < LIMIT =>
         Says(request.price, order.price, PRICE_SCALE)
    /\ Remaining(order) * CENTS < LIMIT =>
         ParseQuantity(FormatQuantity(Remaining(order))) = {Remaining(order)}
    /\ order.price # None /\ order.price * PRICE_SCALE < LIMIT =>
         ParsePrice(FormatPrice(order.price)) = {order.price}

(* The band holds in cents too, and for everything that fills later: at its   *)
(* limit, an order's fills are worth what they are worth at the reference     *)
(* price, but for the band and the rounding of the two sums to a cent.        *)
FillsNearReference ==
    order.price # None =>
        \A reference \in request.reference :
            LET worth(price) == NotionalCad(order.filled_quantity, price, order.side)
                off == worth(order.price) - worth(reference)
            IN  100 * PRICE_SCALE * Magnitude(off)
                  <= order.filled_quantity * reference * PRICE_BAND_PCT + 100 * PRICE_SCALE

(* Claims of the repository *)

(* A text with more decimal places than a minor unit is refused, not cut off. *)
NeverMoreDecimals ==
    /\ Says(request.quantity, order.quantity, CENTS)
    /\ request.price # None => Says(request.price, order.price, PRICE_SCALE)
=============================================================================
