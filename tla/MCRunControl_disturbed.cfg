SPECIFICATION Spec
SYMMETRY CancellerSymmetry
CONSTANTS
  Run = run
  Conversation = conversation1
  NoConversation = none
  Starter = starter
  Resumers = {resumer1}
  Cancellers = {canceller1, canceller2}
  Interrupts = {i1}
  NoInterrupt = no_interrupt
  Nobody = nobody
  MaxSequence = 5
  Disturbances = {"crash", "disconnect"}
INVARIANTS
  CompletedIsAnswered
\* A run ends.
CHECK_DEADLOCK FALSE
