SPECIFICATION Spec
CONSTANTS
  Run = run
  Conversation = conversation1
  NoConversation = none
  Starter = starter
  Resumers = {}
  Cancellers = {}
  Interrupts = {i1}
  NoInterrupt = no_interrupt
  Nobody = nobody
  MaxSequence = 4
  Disturbances = {"crash"}
INVARIANTS
  OrphanIsCancellable
CHECK_DEADLOCK FALSE
