SPECIFICATION MCSpec
CONSTANTS
  root = root
  page = page
  dm1 = dm1
  dm2 = dm2
  lost = lost
  nut1 = nut1
  nut2 = nut2
  alice = alice
  bob = bob
  NoKey = NoKey
  Lines <- MCLines
  Events <- MCEvents
  Kinds <- MCKinds
  Keys <- MCKeys
  Secrets = {"s1", "s2", "s3"}
  Kind <- MCKind
  CreatedAt <- MCCreatedAt
  Proofs <- MCProofs
  Chat <- MCChat
  Npub <- MCNpub
  Own = {dm1, lost}
  Encrypted = {dm1, dm2, lost}
  Foreign = {}
  Malformed = {lost}
  Oversized = {nut2}
  MutedDirectly = {}
  MutedByContent = {nut1}
  ValidProofs = {"s1", "s2"}
  Configs <- MCConfigs
  FilterKinds = {4}
  CountKinds = {4}
  ChatKinds = {4, 9321}
  LimitedKind = 4
  LimitPerNpub = 1
  LimitPerChat = 2
  MaxChats = 1
  MaxProofs = 2
  DedupMax = 3
  Stored = {nut1}
  MaxArrivals = 3
  MaxInbox = 1
  Garbled = {dm1}
  MaxOutages = 1
INVARIANTS
  OutputOnce
  SeenAccounted
  DecryptedOrRetried
  CountsTold
  
PROPERTIES
  HeldIsOldest
  
CHECK_DEADLOCK FALSE
