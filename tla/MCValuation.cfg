\* Long enough for a slow lookup's quote to be stored late, read, and expire.
CONSTANTS
    blue = blue
    growth = growth
    buyBlue = buyBlue
    sellBlue = sellBlue
    buyGrowth = buyGrowth
    reader = reader
    Funds = {blue, growth}
    Orders = {buyBlue, sellBlue, buyGrowth}
    FundOf <- MCFundOf
    Purchases = {buyBlue, buyGrowth}
    Amount <- MCAmount
    Consumer = "consumer"
    Readers = {reader}
    Feed <- MCFeed
    NAVTTL = 1
    CallBudget = 1
    MaxTime = 4
    ReadFaults = {"cache", "feed", "deadline"}
SPECIFICATION Spec
INVARIANTS ValuationTypeOK QuotesAreRecent OneInstant
