SPECIFICATION FairSpec
CONSTANTS
  Run = run
  Conversation = conversation1
  NoConversation = none
  Starter = starter
  Resumers = {resumer1, resumer2}
  Cancellers = {canceller1}
  Interrupts = {i1}
  NoInterrupt = no_interrupt
  Nobody = nobody
  MaxSequence = 5
  Disturbances = {}
INVARIANTS
  TypeOK
  OneProducer
  ShownIsRecorded
PROPERTIES
  RunSettles
\* A run ends.
CHECK_DEADLOCK FALSE
