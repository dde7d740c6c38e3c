SPECIFICATION Spec
CONSTANTS
  c1 = c1
  c2 = c2
  c3 = c3
  Calls = {c1, c2}
  Puts <- MCPuts
  Nothing = None
  MaxCrashes = 1
  MaxDamage = 1
  Callers = {c1, c2, c3}
  Outside = Outside
  Absent = None
  MaxAge = 1
  Skew = 1
  Floors = {0, 3}
  Stamps <- MCStamps
  MaxNow = 4
  MaxGen = 2
  MaxCaptures = 2
  Gets = {c1, c2, c3}
  RepoOf <- MCRepoOf
  Scopes = {"s1", "s2"}
  FirstScope <- MCFirstScope
  Moves <- MCMoves
  Attempts = 3
  MaxTokens = 3
  MaxRevocations = 1
  None = None
  BottleKinds = {"core", "tap"}
  Target = "x86"
  Catalogues <- MCCatalogues
  Indexes <- PushedIndexes
  Referrers <- MCReferrers
  SourceAt <- MCSourceAt
  Bottles <- MCBottles
  Branch = "main"
  Bundles <- MCBundles
  MaxPushes = 1
  MaxFaults = 1
  Bottle <- BottleURL
  Signature <- BundleURL
  Responses <- Pages
  Webs <- FirstWebs
  NameAnswers <- MCAnswers
  Public = {"p", "q"}
  MaxRedirects = 2
  MaxBottleSize = 2
  MaxBundleSize = 1
  Declared <- MCDeclared
  Genuine <- MCGenuine
  MaxChanges = 1
INVARIANTS
  KeptIsWhole
  FetchedIsDeclared
  TokensShared
  IngestedIsHonest
  SnapshotSound
  RecordSound
  HonestAccepted
PROPERTY
  StoresKeep
CHECK_DEADLOCK FALSE
