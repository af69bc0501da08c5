SPECIFICATION Spec
CONSTANTS
  a1 = a1
  api = api
  worker = worker
  web = web
  get = get
  post = post
  NoFile = NoFile
  NoReport = NoReport
  None = None
  NoSpec = NoSpec
  Untitled = Untitled
  Ac <- OneAc
  K <- OneOrTwo
  MaxNights = 3
  MaxCommits = 1
  Matrices <- SmallMatrices
  LastMonth = 4
  Arms <- SomeArms
  Service = {api, worker, web}
  Stack <- MixedFleet
  Title <- Titles
  MaxEdits = 2
  Op = {get, post}
  Source = {1, 2, 3}
  Other = {4}
  Pct = 40
  Floor = 2
  Depth = 2
  MaxImports = 2
  note = note
  topic = topic
  h1 = h1
  Note = {note, topic}
  Anchor = {h1}
  NoAnchor = NoAnchor
  EndsIn <- TopicNote
  Walk <- TopicFirst
  Bundled <- BundledNotes
  Libraries <- SomeLibraries
  Specs <- SomeSpecs
  Designs <- SomeDesigns
  Nothing = Nothing
  Malformed = Malformed
  f1 = f1
  f2 = f2
  v1 = v1
  v2 = v2
  bin = bin
  shop = shop
  depot = depot
  order = order
  Path = {f1, f2}
  Managed = {f1, f2}
  Content = {v1, v2, bin}
  Absent = Absent
  Checks = {f1, f2}
  Marked = {bin}
  Undecodable = {bin}
  Releases <- Versions
  Understands <- Schemas
  Waivers <- OneWaiver
  Gates <- SomeGates
  LastDay = 1
  MaxActs = 3
  NoManifest = NoManifest
  Spoilt = Spoilt
  Repo = {shop, depot}
  Term = {order}
  Checkout <- OtherName
  MaxSlips = 2
  Nobody = Nobody
  Unwritten = Unwritten
INVARIANTS
  AlarmIsReplicated
  AlarmKeepsRinging
  GreenIsEarned
  TrustIsEarned
  AdviceIsFair
  NoPhantomConsumer
  ImpactFindsConsumers
  BreaksByPermission
  MainIsCurrent
  HotIsHottest
  GreenIsBacked
  DivergenceIsAnnounced
PROPERTIES
  OpinionsAgree
  VocabularyIsHeld
SYMMETRY Symmetry
CHECK_DEADLOCK FALSE
