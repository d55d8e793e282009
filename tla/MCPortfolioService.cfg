\* A crash is a shutdown whose budget runs out, and a commit is lost when the
\* reader is closed under the loop.  The deduplication set is smaller than the
\* number of fills.
CONSTANTS
    pending = pending
    buy = buy
    sell = sell
    alien = alien
    exit = exit
    Fills = {pending, buy, sell, alien, exit}
    FillAt <- MCFillAt
    Units <- MCUnits
    Amount <- MCAmount
    Invalid = {alien}
    MaxAppliedEvents = 2
    LedgerFaults = {"feed", "restart"}
    NumEvents = 6
    Garbage = {}
    MaxTries = 2
    CloseFirst = TRUE
    ConsumerFaults = {"dlq", "rebalance", "signal"}
    MaxRestarts = 2
SPECIFICATION FairSpec
INVARIANTS LedgerTypeOK NothingSkippedSilently HandledInOrder PositionIsSumOfFills CostConserved PassedMeansApplied
PROPERTIES EveryEventReached
CHECK_DEADLOCK FALSE
