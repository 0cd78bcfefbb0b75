--------------------------------- MODULE Units ---------------------------------
(***************************************************************************)
(* market_core/units.py: the integer arithmetic of money.  Both functions  *)
(* raise on negative inputs, and on a price or lot size of zero where they *)
(* divide by it.  Suffixed names, like NotionalCad_Up, are wrong variants  *)
(* that a property must tell apart.                                        *)
(***************************************************************************)
EXTENDS Integers

CONSTANT PRICE_SCALE    \* a price times a quantity is this many times the CAD cents

ASSUME PriceScale == PRICE_SCALE \in Nat \ {0}

NotionalCad_Up(quantity, price, taker_side) ==
    (quantity * price + PRICE_SCALE - 1) \div PRICE_SCALE

(* nearest cent; a half cent goes against the taker *)
NotionalCad(quantity, price, taker_side) ==
    LET whole == (quantity * price) \div PRICE_SCALE
        remainder == (quantity * price) % PRICE_SCALE
        up == \/ remainder * 2 > PRICE_SCALE
              \/ remainder * 2 = PRICE_SCALE /\ taker_side = "BUY"
    IN  IF up THEN whole + 1 ELSE whole

AffordableQuantity_Exact(reserved_cad, price, lot_size) ==
    (reserved_cad * PRICE_SCALE) \div price

AffordableQuantity_FloorsFirst(reserved_cad, price, lot_size) ==
    LET quantity == (reserved_cad \div price) * PRICE_SCALE
    IN  quantity - (quantity % lot_size)

(* whole lots that reserved_cad buys at price; floors twice *)
AffordableQuantity(reserved_cad, price, lot_size) ==
    LET quantity == (reserved_cad * PRICE_SCALE) \div price
    IN  quantity - (quantity % lot_size)
=============================================================================
