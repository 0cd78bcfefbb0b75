CONSTANTS
    Price <- FewPrices
    Quantity <- FewQuantities
    Reason <- TwoReasons
    None = None
    OrderId = {id}
    ReservedCad = {0, 7}
    PRICE_SCALE = 10
    CENTS = 10
    LIMIT = 1000
    TICK_SIZE = 1
    LOT_SIZE = 1
    MIN_QTY = 1
    MAX_QTY = 5
    PRICE_BAND_PCT = 10
    Requests <- FewRequests
SPECIFICATION EntrySpec
PROPERTY TerminalIsFinal
CHECK_DEADLOCK FALSE
