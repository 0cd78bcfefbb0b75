------------------------------ MODULE Instruments ------------------------------
(***************************************************************************)
(* market_core/instruments.py: which quantities and prices an instrument   *)
(* allows.  The validators raise MarketError when these are false.         *)
(* WithinPriceBand_Below is a wrong variant a property must tell apart.    *)
(***************************************************************************)
EXTENDS Integers

CONSTANTS TICK_SIZE, LOT_SIZE, MIN_QTY, MAX_QTY, PRICE_BAND_PCT     \* of the instrument

(* from_dict takes any integers: a tick or a lot of zero makes every          *)
(* validation raise ZeroDivisionError, and no order is admitted.              *)
ASSUME InstrumentConstants ==
    /\ {TICK_SIZE, LOT_SIZE} \subseteq Nat \ {0}
    /\ {MIN_QTY, MAX_QTY, PRICE_BAND_PCT} \subseteq Int

ValidQuantity(quantity) ==
    quantity > 0 /\ quantity % LOT_SIZE = 0 /\ MIN_QTY <= quantity /\ quantity <= MAX_QTY

ValidPrice(price) == price > 0 /\ price % TICK_SIZE = 0

WithinPriceBand_Below(price, reference) ==
    \A r \in reference : (price - r) * 100 <= r * PRICE_BAND_PCT

(* reference is a set of at most one price: a venue that has neither traded   *)
(* nor quoted has none, and no band                                           *)
WithinPriceBand(price, reference) ==
    \A r \in reference :
        /\ (price - r) * 100 <= r * PRICE_BAND_PCT
        /\ (r - price) * 100 <= r * PRICE_BAND_PCT
=============================================================================
