---------------------------- MODULE MCMarketBuySweep ----------------------------
(* A price scale of 8 keeps products small and has half-cent ties (an odd     *)
(* multiple of 4).  The prices are above and below one cent per unit, two     *)
(* orders may rest at the same one, and the third resting order is the        *)
(* taker's own, at the price where the ties are.                              *)
EXTENDS EventFeed

CONSTANTS m1, m2, m3

Offer(price, quantity) == [price |-> price, quantity |-> quantity]

FewBooks ==
    {[m \in Maker |-> CASE m = m1 -> first [] m = m2 -> second [] m = m3 -> Offer(6, 4)] :
        first \in [price : MakerPrice, quantity : {2, 4, 6}],
        second \in [price : MakerPrice, quantity : {2, 6}]}

(* the trade written first, or last *)
TwoOrders == {<<1, 2, 3, 4>>, <<4, 3, 2, 1>>}
=============================================================================
