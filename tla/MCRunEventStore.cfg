\* Two runs compete for one conversation; logs of at most five events.
SPECIFICATION Spec
CONSTANTS
  Runs = {r1, r2}
  Conversations = {c1}
  NoConversation = none
  Bodies = {b1}
  MaxSequence = 4
INVARIANTS
  TypeOK
  ConversationExclusive
  ContiguousLog
  LogGrammar
  StatusMatchesLog
PROPERTIES
  HistoryIsFinal
  ImplementsConversationLock
\* Every run may have ended.
CHECK_DEADLOCK FALSE
