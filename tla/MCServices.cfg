SPECIFICATION ServicesSpec
CONSTANTS
  Services = {"memory", "sources", "drafts", "routes", "programs", "tools", "auth", "view", "loop"}
  v1 = v1
  u1 = u1
  u2 = u2
  r1 = r1
  r2 = r2
  f1 = f1
  f2 = f2
  e1 = e1
  e2 = e2
  i1 = i1
  i2 = i2
  Candidates = {"c1", "c2", "c3"}
  OwnerOf <- MCOwnerOf
  SlotOf <- MCSlotOf
  ContentOf <- MCContentOf
  PinOf <- MCPinOf
  UserOf <- MCUserOf
  Approvers <- MCApprovers
  Conversations = {v1}
  Turns <- MCTurns
  Versions = {1}
  Subjects <- MCSubjects
  Connections = {i1, i2}
  NoMemory = NoMemory
  Sources = {s1}
  Contents = {c1, c2}
  Bindings = {b1}
  Threads = {t1}
  Requests = {i1, i2}
  MaxPools = 2
  MaxBinding = 2
  Schemas = {f1, f2}
  Edges = {e1}
  DeclaredEdges <- MCDeclared
  GraphIds = {1}
  Discoveries = {i1, i2}
  Editors = {w1}
  MaxDraft = 3
  GraphNodes = {"orders", "items", "payments", "catalogue"}
  EdgeIds = {"oi", "op", "ic", "pc", "od"}
  EdgeOf <- MCEdgeOf
  RouteRules <- MCRules
  EnabledRoles <- MCEnabled
  AnchorRoles <- MCAnchors
  MaxAsked = 3
  NoNode = NoNode
  Fields = {"o", "i", "p", "v"}
  RoleOf <- MCRoleOf
  MetricFields <- MCMetricFields
  Programs <- MCPrograms
  OutputNames = {"x", "y", "z", "w"}
  MaxAttempts = 2
  LegacyJoins <- MCLegacyJoins
  RouteChoices <- MCRouteChoices
  Authority = {"orders", "items", "visits"}
  Graph = Graph
  NoField = NoField
  NoRoute = NoRoute
  NoProgram = NoProgram
  Invocations = {"compile", "execute", "again"}
  CallIds = {"c", "q"}
  CallOf <- MCCallOf
  PreparedOf <- MCPreparedOf
  NoCall = "none"
  Payloads = {"p", "r"}
  Compiled = "p"
  Users = {u1}
  Calls = {i1, i2}
  MaxTokens = 3
  Chats = {x}
  ViewedRuns = {"long", "short"}
  Streams = {i1, i2}
  MaxEvents <- MCMaxEvents
  MaxLoopSteps = 5
  MaxLoopReplans = 2
INVARIANTS
  ServicesTypeOK
  MemoryIsWhole
  RegistryIsClosed
  PoolsAreOwned
  RoutesAreTrees
  PreparedIsGoverned
  ResultsAreReadable
  TokensAreOneTime
  ViewIsPrefix
  NothingIsRedone
PROPERTIES
  ImplementsMemorySlots
  DraftsAreHonoured
SYMMETRY Sym
CHECK_DEADLOCK FALSE
