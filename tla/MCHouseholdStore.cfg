SPECIFICATION FairSpec
CONSTANTS
  milk = milk
  eggs = eggs
  bread = bread
  tool1 = tool1
  tool2 = tool2
  board = board
  Item = {milk, eggs, bread}
  Actor = {tool1, tool2, board}
  Process = {"gateway", "board"}
  ProcOf <- MCProcOf
  Batch <- MCBatch
  MaxItems = 2
INVARIANTS NeverHalfWritten ListRight
PROPERTIES ListSpec LockFileFreed
