SPECIFICATION SponsoredSpec
CONSTANTS
  alice = alice
  bob = bob
  c1 = c1
  c2 = c2
  app1 = app1
  app2 = app2
  dao1 = dao1
  dao2 = dao2
  User = {alice, bob}
  Runtime = Runtime
  Treasury = Treasury
  Forwarder = Forwarder
  Chain = {c1, c2}
  None = None
  InitialBalance <- MCBalance
  InitialOwner <- MCOwner
  Amount = {1}
  Wildcard = Wildcard
  FirstGovernor = bob
  FirstSink = bob
  FirstSettlers = {Runtime}
  SinkChoice = {}
  SettlerChoice = {}
  MaxSettled = 0
  DirectRuntime = FALSE
  App = {app1, app2}
  AppChain <- MCAppChain
  Dao <- MCDao
  Deployer = Deployer
  Guardian = Guardian
  Recovery = Recovery
  AppFactory = AppFactory
  Token = {VOID}
  Void = VOID
  Imported = {c1, c2}
  Fee = {1}
  Rate = {1}
  MaxFee = {2}
  Limit = {}
  Wired0 = {"forwarder", "oracle", "daoFactory", "roles", "appFactory"}
  MaxCalls = 2
  FirstPaymasterGovernor = bob
  Relayer = {bob}
  Pool = bob
  Burn = bob
  Runway = bob
  EthUnit = 1
  FirstReserve = 16
  BlocksPerDay = 1
  Price = {1, 2}
  Cost = {2, 4}
  MaxGas = {5}
  FirstLimits <- MCFirstLimits
  LimitsChoice <- MCLimits
  EthIn = {4}
  MaxReserve = 20
  MaxBlock = 1
  MaxNonce = 2
INVARIANTS
  AccountsBacked
  NothingRevertsAfterValidation
  RequestBilledOnce
  OneChainOneQuarter
CHECK_DEADLOCK FALSE
