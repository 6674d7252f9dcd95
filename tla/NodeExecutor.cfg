\* Two concurrent nodes, every way out of execute_node.
CONSTANTS
  Nodes = {1, 2}
  Setups <- EverySetup
SPECIFICATION FairSpec
INVARIANT CallBudgetRespected
PROPERTIES ImplementsContract EveryNodeEnds
