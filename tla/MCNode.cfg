SPECIFICATION NodeSpec
CONSTANTS
  Epochs = {1, 2, 3}
  Buys = {"b1"}
  Sells = {"s1"}
  MaxNotifications = 2
  StoreMayFail = TRUE
  Receivers = {r1, resolver, settler}
  Writers = {w1}
  MaxStages = 1
  Resolver = resolver
  Settler = settler
  MatchesCap = 1
  ConfirmationsCap = 1
  MaxWork = 7
  Callers = {"c1", "c2"}
  Ops = {"settle", "open", "cancel", "confirm"}
  Blocks = 1
  MaxTries = 1
  MaxCalls = 2
  MaxFaults = 1
  MaxNonce = 8
  MaxDepth = 2
  Width = 16
  Addrs = {"a1", "a2"}
  PublicKeys = {"k1", "k2"}
  CacheLimit = 1
  Period = 1
  IDs = {0, 1}
  Hashes = {0, 1}
  FF = 2
  Expiry = 1
  MaxRecords = 2
  Bits = 2
  Self = 0
  Peers = {1, 2, 3}
  Handlers = {"h1"}
  MaxLength = 1
  Depths <- AllDepths
  MaxPings = 2
  MaxFlips = 1
INVARIANTS NodeTypeOK PairsGenerated NeverSendsOnClosed EpochsAgree ChangesComplete
  StuckOnlyIfJammed SubmittedOnce BinderReturns CachesCurrent RecordsKept
  BucketsSound SearchExhaustive
CHECK_DEADLOCK FALSE
