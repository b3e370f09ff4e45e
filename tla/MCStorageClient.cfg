SPECIFICATION FairSpec
CONSTANTS
  orders = orders
  lineitem = lineitem
  region = region
  Table = {orders, lineitem, region}
  Wide = {lineitem}
  Loose = {region}
  MaxRequests = 2
INVARIANTS
  CallsOnOpenConnection
  InfosAreOfTheTable
  OneFailureIsMasked
  NothingLeftOver
PROPERTIES
  ImplementsDecision
  Answered
