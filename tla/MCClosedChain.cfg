SPECIFICATION PolicySpec
CONSTANTS
  alice = alice
  bob = bob
  c1 = c1
  c2 = c2
  app1 = app1
  app2 = app2
  dao1 = dao1
  dao2 = dao2
  User = {alice, bob}
  Runtime = Runtime
  Treasury = Treasury
  Forwarder = Forwarder
  Chain = {c1}
  None = None
  InitialBalance <- MCBalance
  InitialOwner <- MCOwner
  Amount = {50}
  Wildcard = Wildcard
  FirstGovernor = bob
  FirstSink = bob
  FirstSettlers = {Runtime, alice}
  SinkChoice = {alice}
  SettlerChoice = {Runtime, alice}
  MaxSettled = 50
  DirectRuntime = FALSE
  App = {app1, app2}
  AppChain <- MCAppChain
  Dao <- MCDao
  Deployer = Deployer
  Guardian = Guardian
  Recovery = Recovery
  AppFactory = AppFactory
  Token = {VOID}
  Void = VOID
  Imported = {}
  Fee = {1, 2}
  Rate = {1, 60}
  MaxFee = {60}
  Limit = {}
  Wired0 = {"forwarder", "oracle", "daoFactory", "roles", "appFactory"}
  MaxCalls = 2
INVARIANT
  ClosedChainAdmitsThroughDao
CHECK_DEADLOCK FALSE
