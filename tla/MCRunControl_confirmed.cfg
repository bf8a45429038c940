SPECIFICATION Spec
CONSTANTS
  Run = run
  Conversation = conversation1
  NoConversation = none
  Starter = starter
  Resumers = {}
  Cancellers = {canceller1}
  Interrupts = {i1}
  NoInterrupt = no_interrupt
  Nobody = nobody
  MaxSequence = 4
  Disturbances = {}
INVARIANTS
  ConfirmedCancelCloses
CHECK_DEADLOCK FALSE
