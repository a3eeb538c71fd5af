SPECIFICATION RuntimeSpec
CONSTANTS
  alice = alice
  bob = bob
  c1 = c1
  c2 = c2
  app1 = app1
  app2 = app2
  dao1 = dao1
  dao2 = dao2
  User = {alice, bob}
  Runtime = Runtime
  Treasury = Treasury
  Forwarder = Forwarder
  Chain = {c1, c2}
  None = None
  InitialBalance <- MCBalance
  InitialOwner <- MCOwner
  Amount = {60}
  Wildcard = Wildcard
  FirstGovernor = bob
  FirstSink = bob
  FirstSettlers = {Runtime, alice}
  SinkChoice = {alice}
  SettlerChoice = {bob}
  MaxSettled = 60
  DirectRuntime = TRUE
  App = {app1, app2}
  AppChain <- MCAppChain
  Dao <- MCDao
  Deployer = Deployer
  Guardian = Guardian
  Recovery = Recovery
  AppFactory = AppFactory
  Token = {VOID, OTHER}
  Void = VOID
  Imported = {c1, c2}
  Fee = {1}
  Rate = {1, 60}
  MaxFee = {60}
  Limit = {2}
  Wired0 = {"forwarder", "daoFactory", "appFactory", "oracle", "roles"}
  MaxCalls = 2
INVARIANTS
  TypeOK
  RuntimeSolvent
  NothingStranded
  TreasurySolvent
  BudgetDiesWithCall
PROPERTIES
  RevenueBelongsToEarner
  CreditsAreKept
  NoDustStranded
  OnlySigned
CHECK_DEADLOCK FALSE
