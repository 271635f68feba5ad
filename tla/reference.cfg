SPECIFICATION FairSpec
CONSTANTS
  MaxNodes = 3
  Ids = {1, 2}
  LimitPrices = {1, 2}
  Quantities = {1, 2}
  ReuseIds = FALSE
  Orders <- MCOrders
PROPERTIES ImplementsPriceTimeBook CarriesCallsThrough
