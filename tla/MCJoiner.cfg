SPECIFICATION MCSpec
CONSTANTS
  k = 2
  MaxJoinLength = 2
  NilCallback = NilCallback
  JoinIDs = {id1, id2}
  JoinIndices = {1, 2, 3}
  JoinLengths = {1, 2, 3}
  Callbacks = {c1, c2}
  Callers = {"c1", "c2", "c3", "c4"}
  None = "none"
  Openers = {"o1", "o2", "o3"}
  Senders = {"s1", "s2", "s3"}
  Receivers = {"r1", "r2", "r3"}
  Clients = {"o1", "o2", "s1", "s2", "r1"}
  MaxNum = 5
  CPUs = {1, 2, 4}
  Errors <- InputErrors
  Passing = {"a1", "a3", "b1", "b2"}
  Values = {1}
  GasLimits = {1}
  GasPrices = {1}
  MaxTries = 1
  MaxCalls = 2
  MaxOthers = 1
  MaxNonce = 4
  Nodes = {1, 2, 3}
  Needed = 2
  Prime = 13
  Width = 8
  Traded <- TradedPairs
  Depths = {1}
INVARIANTS TypeOK NoStrandedCallback CalledAtMostOnce CallbackAccounted CallsAgree
  ArithmeticRight LibrariesSafe
PROPERTIES ValuesAreFinal ImplementsFuture
