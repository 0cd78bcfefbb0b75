CONSTANTS
    PRICE_SCALE = 8
    TICK_SIZE = 1
    LOT_SIZE = 2
    MIN_QTY = 4
    MAX_QTY = 8
    PRICE_BAND_PCT = 10
    Quantity = {0, 2, 4, 5, 6, 8, 10}
    MakerPrice = {3, 6, 10, 11}
    Reserved = {0, 2, 3, 5, 6, 7, 9}
    Reason = {"NOTIONAL_CAP_REACHED", "IOC_REMAINDER", "SELF_TRADE_PREVENTION"}
    None = None
    m1 = m1
    m2 = m2
    m3 = m3
    Maker = {m1, m2, m3}
    Own = {m3}
    TakerId = taker
    Books <- FewBooks
    WriteOrders <- TwoOrders
    MaxLag = 4
SPECIFICATION FeedSpec
INVARIANTS TypeOK WithinReservation DriftIsBounded LotsOnBothSides
           ReplayRebuilds LedgerAgrees OnlyLostLevelsAreWrong CapMeansSpent
PROPERTY ImplementsReservation
CHECK_DEADLOCK FALSE
