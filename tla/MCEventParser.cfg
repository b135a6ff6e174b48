SPECIFICATION Spec
CHECK_DEADLOCK FALSE
CONSTANTS
  NumberOf <- MCNumberOf
  Hex64 <- MCHex64
  CoordinateOf <- MCCoordinateOf
  NormalOf <- MCNormalOf
  LowerOf <- MCLowerOf
  FieldOf <- MCFieldOf
  TagArraysOf <- MCTagArraysOf
  PlainOf <- MCPlainOf
  SchemeOf <- MCSchemeOf
  JsonOf <- MCJsonOf
  TokensOf <- MCTokensOf
  EntityOf <- MCEntityOf
  ShortcodeOf <- MCShortcodeOf
  Bolt11 <- MCBolt11
  ProfileOf <- MCProfileOf
  EventOf <- MCEventOf
  MarkdownOf <- MCMarkdownOf
  InlinesOf <- MCInlinesOf
  TokenOf <- MCTokenOf
  ProofOf <- MCProofOf
  ZapOf <- MCZapOf
  PublicOf <- MCPublicOf
  LongKey <- MCLongKey
  Blank <- MCBlank
  Templates <- MCTemplates
  Arrivals <- MCArrivals
INVARIANTS
  Readable
  
  PrivateStaysPrivate
  
  RequestsCovered
  
