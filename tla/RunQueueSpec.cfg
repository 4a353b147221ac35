SPECIFICATION RQSpec
CONSTANT Tasks = {0, 1, 2, 3, 4}
INVARIANT WellLinked
PROPERTY ImplementsFifo
