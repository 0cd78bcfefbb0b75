------------------------------- MODULE EventFeed -------------------------------
(***************************************************************************)
(* market_core/events.py: the records a sweep leaves in the journal, and   *)
(* what the three readers its docstring names make of them.  A replay      *)
(* rebuilds the orders, the ledger settles from the trades, and market     *)
(* data, which may lose a record, rebuilds the quantity at each price.     *)
(* Neither the engine's loop nor the readers are written yet, so they are  *)
(* external: they use the records here the way events.py describes, and    *)
(* where it is silent, as about the order of a match's four records, they  *)
(* are left free.  A client's orders are held in an account named by one   *)
(* of them.  Suffixed names, like BookDelta_OfOrder, are wrong variants a  *)
(* property must tell apart.                                               *)
(***************************************************************************)
EXTENDS MarketBuySweep, Sequences, Functions

CONSTANTS
    Maker,      \* the other orders of the book
    Own,        \* those of the taker's own account
    TakerId,
    Books,      \* what rests on the book at first
    WriteOrders,  \* orders in which a match may write its four records
    MaxLag      \* bound: the engine does not run further ahead of the readers

ASSUME FeedConstants ==
    /\ Own \subseteq Maker /\ TakerId \notin Maker
    /\ Books \subseteq [Maker -> [price : MakerPrice, quantity : MakerQuantity]]
    /\ WriteOrders \subseteq Bijection(1..4, 1..4)
    /\ "SELF_TRADE_PREVENTION" \in Reason
    /\ \A reason \in Reason : [str |-> reason] # None
    /\ MaxLag \in Nat

VARIABLES
    makers,         \* the engine's resting orders
    journal,        \* records in the order of their seq
    read,           \* how many of them the readers have seen
    replica,        \* replay: an order by its identifier, None if not accepted
    cad, usd,       \* ledger: change of every account's balances
    view,           \* market data: quantity offered at a price
    stale           \* history: prices whose last record market data lost

readers == <<read, replica, cad, usd, view, stale>>
feedVars == <<vars, makers, journal, readers>>

OrderId == Maker \cup {TakerId}

Codec == INSTANCE Journal WITH Price <- MakerPrice, ReservedCad <- Reserved

Account(id) == IF id \in Own THEN TakerId ELSE id

IsResting(status) == status \in {"OPEN", "PARTIAL"}

(* an order as the engine has it; only a market BUY reserves *)
EngineOrder(id) ==
    IF id = TakerId THEN Codec!Whole(order, id, reserved_cad) ELSE Codec!Whole(makers[id], id, None)

(* the quantity that rests at a price *)
Level(book, price) ==
    SumFunction([m \in {m \in Maker : IsResting(book[m].status) /\ book[m].price = price}
                   |-> Taker!Remaining(book[m])])

-----------------------------------------------------------------------------
(* The records.  seq is a record's place in the journal.                     *)

OrderAccepted(o) == [type |-> "OrderAccepted", order |-> Codec!OrderToDict(o)]

TradeRecord_NoCheck(maker, price, quantity, side) ==
    {[type |-> "Trade", price |-> price, quantity |-> quantity, taker_side |-> side,
      taker_account |-> TakerId, maker_account |-> Account(maker)]}

(* or no record where its constructor raises ValueError: nothing was written *)
(* by then, and the new records of the two orders are discarded with it      *)
TradeRecord(maker, price, quantity, side) ==
    {trade \in {[type |-> "Trade", price |-> price, quantity |-> quantity, taker_side |-> side,
                 taker_account |-> TakerId, maker_account |-> Account(maker)]} :
        trade.taker_account # trade.maker_account /\ trade.quantity > 0}

OrderFilled_ByFill(id, o, quantity) ==
    [type |-> "OrderFilled", order_id |-> id, filled_qty |-> quantity,
     remaining |-> o.quantity - quantity, status |-> o.status]

(* of the order after a fill of this quantity *)
OrderFilled(id, o, quantity) ==
    [type |-> "OrderFilled", order_id |-> id, filled_qty |-> quantity,
     remaining |-> Taker!Remaining(o), status |-> o.status]

OrderCancelled(id, reason) == [type |-> "OrderCancelled", order_id |-> id, reason |-> reason]

BookDelta_OfOrder(m, book) ==
    [type |-> "BookDelta", side |-> book[m].side, price |-> book[m].price,
     new_qty |-> IF IsResting(book[m].status) THEN Taker!Remaining(book[m]) ELSE 0]

(* the new quantity at the order's price, not the change of it *)
BookDelta(m, book) ==
    [type |-> "BookDelta", side |-> book[m].side, price |-> book[m].price,
     new_qty |-> Level(book, book[m].price)]

-----------------------------------------------------------------------------
(* The engine: a market BUY meets the book. *)

Rested(price, quantity) ==
    [side |-> "SELL", order_type |-> "LIMIT", time_in_force |-> "GTC", price |-> price,
     quantity |-> quantity, filled_quantity |-> 0, status |-> "OPEN", cancel_reason |-> None]

FeedInit ==
    /\ Init
    /\ \E book \in Books : makers = [m \in Maker |-> Rested(book[m].price, book[m].quantity)]
    /\ journal = <<OrderAccepted(EngineOrder(TakerId))>>
    /\ read = 0
    /\ replica = [id \in OrderId |-> IF id = TakerId THEN None ELSE EngineOrder(id)]
    /\ cad = [id \in OrderId |-> 0] /\ usd = cad
    /\ view = [price \in MakerPrice |-> Level(makers, price)]
    /\ stale = {}

Emit(records) ==
    /\ Len(journal) - read <= MaxLag
    /\ journal' = journal \o records
    /\ UNCHANGED readers

Met(m) == IsResting(makers[m].status) /\ Taker!Crosses(order, makers[m].price)

Match(m) ==
    LET price == makers[m].price
        quantity == order'.filled_quantity - order.filled_quantity
    IN  /\ Met(m)
        /\ Trade(price, Taker!Remaining(makers[m]))
        /\ makers' = [makers EXCEPT ![m] = Taker!Filled(@, quantity)]
        /\ \E trade \in TradeRecord(m, price, quantity, order.side), place \in WriteOrders :
             LET records == <<trade, OrderFilled(TakerId, order', quantity),
                              OrderFilled(m, makers'[m], quantity), BookDelta(m, makers')>>
             IN  Emit([i \in 1..4 |-> records[place[i]]])

(* the resting order of the taker's own account goes, the taker sweeps on *)
PreventSelfTrade(m) ==
    /\ Sweeping /\ Met(m) /\ m \in Own
    /\ makers' = [makers EXCEPT ![m] = Taker!Cancelled(@, "SELF_TRADE_PREVENTION")]
    /\ Emit(<<OrderCancelled(m, "SELF_TRADE_PREVENTION"), BookDelta(m, makers')>>)
    /\ UNCHANGED vars

StopAtCap(m) ==
    /\ Met(m) /\ CapReached(makers[m].price)
    /\ Emit(<<OrderCancelled(TakerId, order'.cancel_reason)>>)
    /\ UNCHANGED makers

StopAtEnd ==
    /\ \A m \in Maker : ~ Met(m)
    /\ BookExhausted
    /\ Emit(<<OrderCancelled(TakerId, order'.cancel_reason)>>)
    /\ UNCHANGED makers

-----------------------------------------------------------------------------
(* The readers dispatch on the type of the next record. *)

Replay(e) ==
    \/ /\ e.type = "OrderAccepted"
       /\ \E o \in Codec!OrderFromDict(e.order) : replica' = [replica EXCEPT ![o.order_id] = o]
    \/ /\ e.type = "OrderFilled"
       /\ replica' = [replica EXCEPT
            ![e.order_id].filled_quantity = replica[e.order_id].quantity - e.remaining,
            ![e.order_id].status = e.status]
    \/ /\ e.type = "OrderCancelled"
       /\ replica' = [replica EXCEPT ![e.order_id] = Taker!Cancelled(@, e.reason)]
    \/ e.type \in {"Trade", "BookDelta"} /\ UNCHANGED replica

Settle(e) ==
    IF e.type = "Trade"
    THEN LET buyer == IF e.taker_side = "BUY" THEN e.taker_account ELSE e.maker_account
             seller == IF e.taker_side = "BUY" THEN e.maker_account ELSE e.taker_account
             cost == NotionalCad(e.quantity, e.price, e.taker_side)
         IN  /\ cad' = [cad EXCEPT ![buyer] = @ - cost, ![seller] = @ + cost]
             /\ usd' = [usd EXCEPT ![buyer] = @ + e.quantity, ![seller] = @ - e.quantity]
    ELSE UNCHANGED <<cad, usd>>

Show(e) ==
    \/ /\ e.type = "BookDelta"
       /\ view' = [view EXCEPT ![e.price] = e.new_qty]
       /\ stale' = stale \ {e.price}
    \/ /\ e.type = "BookDelta"      \* lost on the way
       /\ stale' = stale \cup {e.price}
       /\ UNCHANGED view
    \/ e.type # "BookDelta" /\ UNCHANGED <<view, stale>>

Read ==
    /\ read < Len(journal)
    /\ read' = read + 1
    /\ Replay(journal[read']) /\ Settle(journal[read']) /\ Show(journal[read'])
    /\ UNCHANGED <<vars, makers, journal>>

FeedNext ==
    \/ \E m \in Maker : Match(m) \/ PreventSelfTrade(m) \/ StopAtCap(m)
    \/ StopAtEnd
    \/ Read

FeedSpec == FeedInit /\ [][FeedNext]_feedVars

-----------------------------------------------------------------------------
(* Properties *)

CaughtUp == read = Len(journal)

(* an earlier state of the same order *)
Precedes(old, new) ==
    /\ \A term \in {"order_id", "side", "order_type", "time_in_force", "price", "quantity",
                   "reserved_cad"} : new[term] = old[term]
    /\ old.filled_quantity <= new.filled_quantity
    /\ Taker!IsTerminal(old.status) => old = new

(* The records hold all that a restart needs, in whatever order a match wrote *)
(* them: the replay shows no order that the engine could not have had by      *)
(* then, and at the end of the journal it has every order as the engine has   *)
(* it, terms, reservation and reason included, through partial fills and      *)
(* cancellations of both sides.                                               *)
ReplayRebuilds ==
    /\ \A id \in OrderId : replica[id] # None => Precedes(replica[id], EngineOrder(id))
    /\ CaughtUp => replica = [id \in OrderId |-> EngineOrder(id)]

(* The ledger, which sees trades and no orders, arrives at the balances of    *)
(* the engine's orders, to the cent, and on the way there has never debited   *)
(* more than the engine spent nor credited more than it bought: no trade      *)
(* moves money within one account.                                            *)
LedgerAgrees ==
    /\ 0 - cad[TakerId] <= spent /\ usd[TakerId] <= order.filled_quantity
    /\ CaughtUp =>
         /\ cad[TakerId] = 0 - spent
         /\ usd[TakerId] = order.filled_quantity
         /\ \A m \in Maker \ Own : usd[m] = 0 - makers[m].filled_quantity

(* Quantities are absolute: a lost record leaves one price wrong, until the   *)
(* next record about it, however many are lost and whatever else trades.      *)
OnlyLostLevelsAreWrong ==
    CaughtUp => \A price \in MakerPrice \ stale : view[price] = Level(makers, price)

(* An order the cap stopped has spent its money: some order still rests of    *)
(* which what is left of the reservation does not buy one more lot, or buys   *)
(* it with nothing to spare.                                                  *)
CapMeansSpent ==
    order.cancel_reason = "NOTIONAL_CAP_REACHED" =>
        \E m \in Maker :
            /\ IsResting(makers[m].status)
            /\ NotionalCad(LOT_SIZE, makers[m].price, order.side) >= reserved_cad - spent

(* Fills leave whole lots on both sides, also when the money runs out in the  *)
(* middle of one: what remains of the taker and of every order on the book is *)
(* a quantity that validate_quantity's lot rule would accept.                 *)
LotsOnBothSides ==
    /\ WholeLots
    /\ \A m \in Maker : IsResting(makers[m].status) => Taker!Remaining(makers[m]) \in MakerQuantity
=============================================================================
