SPECIFICATION Spec
CONSTANTS
  Run = run
  Conversation = conversation1
  NoConversation = none
  Starter = starter
  Resumers = {resumer1}
  Cancellers = {}
  Interrupts = {i1}
  NoInterrupt = no_interrupt
  Nobody = nobody
  MaxSequence = 4
  Disturbances = {}
INVARIANTS
  WaitingStaysResumable
CHECK_DEADLOCK FALSE
