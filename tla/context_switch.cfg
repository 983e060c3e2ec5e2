SPECIFICATION Spec
CONSTANTS
  NumTasks = 2
  STACK_SIZE = 20
  LastReg = 12
  Contents <- OneEach
  MaxPushed = 2
INVARIANTS
  TypeOK
  ResumesWhereItLeft
  FramesHoldContexts
  IrqStackBalanced
  NestedSectionsMask
