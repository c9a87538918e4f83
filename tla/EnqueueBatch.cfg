SPECIFICATION FairSpec
CONSTANTS
    Producer = {a, b}
    Sweeper = {m}
    Partition = {1, 2}
    Nobody = Nobody
    Batches <- Work
    MaxSeq = 3
INVARIANTS IndexesHold 
PROPERTIES VisibleInOrder BatchEnds
