-------------------------------- MODULE MCOrder --------------------------------
(* Every type, side and time in force; quantities up to five units, so that   *)
(* orders take several partial fills; and two reasons, so that a cancellation *)
(* can be told from another.  Decimal arithmetic keeps three digits here, a   *)
(* unit has ten cents and a price ten ticks: 0.5 is five, 0.50 is five, 0.55  *)
(* is refused, 0.555 is refused as well, but the five digits of 0.5001 and of *)
(* 0.4999 times ten are rounded to 5.                                         *)
EXTENDS OrderEntry

FewQuantities == 0..5
FewPrices == {-7, 0, 3, 7, 9, 10, 11, 20}
TwoReasons == {"USER", "IOC_REMAINDER"}

AsText(coefficient, unit) == [coefficient |-> coefficient, unit |-> unit]

QuantityTexts ==
    {NotFinite} \cup {AsText(cents, 10) : cents \in {-1, 0, 1, 4, 5}}
        \cup {AsText(50, 100), AsText(55, 100), AsText(555, 1000), AsText(5001, 10000), AsText(4999, 10000)}

PriceTexts ==
    {None, NotFinite} \cup {AsText(ticks, 10) : ticks \in {-7, 0, 3, 7, 9, 11, 20}}
        \cup {AsText(1, 1), AsText(9005, 10000), AsText(95, 100)}

FewRequests ==
    [side : Side, order_type : OrderType, time_in_force : TimeInForce,
     quantity : QuantityTexts, price : PriceTexts, reference : {{}, {0}, {10}}]
=============================================================================
