\* Two approvals compete while two questions of one conversation resolve.
SPECIFICATION Spec
CONSTANTS
  l1 = l1
  g1 = g1
  d1 = d1
  d2 = d2
  LegacyBindings = {l1}
  GraphBindings = {g1}
  Definitions = {d1, d2}
  Mapped <- MCMapped
  Sound <- MCSound
  Names <- MCNames
  Proposals = {p1, p2}
  CandidateIds = {c1}
  SetIds = {s1, s2}
  Calls = {k1, k2}
  Conversations = {v1}
  MaxRevision = 3
  None = none
SYMMETRY Symmetry
INVARIANTS
  TypeOK
  ApprovedIsInForce
  ResolvedIsGoverned
  ConversationKeepsMetrics
  PinsAgree
PROPERTIES
  ImplementsMetricAuthority
\* Every proposal may be settled and every run resolved.
CHECK_DEADLOCK FALSE
