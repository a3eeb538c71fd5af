CONSTANTS
  Submissions = {s1, s2, s3}
  Users = {u1, u2}
  Clients = {c1, c2}
  LIMIT = 2
  WINDOW = 2
  RETENTION = 3
  PATIENCE = 1
  LastMoment = 4
  FormTabs = {f1}
  AvatarTabs = {a1}
  Platforms = {x, y}
  Nobody = Nobody
  Accounts = {w1, w2}
  Nothing = Nothing
  MAX_AGE = 1
  MaxTime = 2
  MaxRefreshes = 3
  MaxMishaps = 1
  Voters = {v1, v2}
  Reserve = Reserve
  VOTING_PERIOD = 1
  QUORUM_BPS = 5000
  BPS = 10000
  MaxBlock = 3
  MaxProposals = 1
  MaxSales = 1
  Deeds = {d1}
  Holders = {h1, h2}
  NoOwner = NoOwner
  MaxTolls = 3
  MaxHandovers = 2
  Jobs = {j1, j2}
  Prices = {1, 3}
  MIN_INTERVAL = 2
  MAX_TWAP_AGE = 2
  LastTick = 5
  Emissions = {"small", "large"}
  Amount <- MCAmount
  DELAY = 1
  GRACE_PERIOD = 1
  VAULT_DELAY = 1
  EPOCH_LENGTH = 3
  EPOCH_CAP = 2
  Fund = 4
  LastHour = 7
  MaxDecisions = 2
  ListedApps = {p1}
  TokenHolders = {t1, t2}
  FirstHolder = t1
  NoFile = NoFile
  CONFIRMED = 1
  RANGE = 1
  MaxHeight = 3
  MaxBlocks = 5
  Cards = {k1}
  Visitors = {g1, g2}
  Unread = Unread
  Stranger = Stranger
  Fees = {1, 2}
  MaxOthers = 3
  Nfts = {1, 2, 3, 4}
  Traders = {b1, b2}
  VOID_PER_DEED = 200
  MaxGifts = 2
  StakedDeeds = {n1, n2}
  Weights = {2, 3}
  REWARD_DURATION = 2
  ACC = 4
  Rewards = {7}
  MaxRewards = 2
  MaxMoves = 1
  LastDay = 3
  TOTAL_CHAINS = 3
  PER_PAGE = 2
  CHAIN_ID_BASE = 10
  Terms = {"mine", "other"}
  RowKinds <- MCRowKinds
SPECIFICATION ServicesSpec
INVARIANTS
  QuotaHolds
  StoredAsSigned
  ShowsNewestAnswer
  StagedInOrder
  NoVoidVotesTwice
  PriceIsWindowAverage
  EmissionsArePaced
  PublishedAtItsHash
  CardTellsTruth
  EveryDeedCanBeSold
  StakersFunded
  DirectoryListsWhatItFound
PROPERTIES
  ClaimedByItsEarner
CHECK_DEADLOCK FALSE
