CONSTANTS
    Partitions = {p1, p2}
    MaxRecords = 2
    MaxAppends = 1
    MaxErrors = 1
SPECIFICATION FairSpec
INVARIANTS TypeOK ReadsWholeLog MissedPartitions
PROPERTY ConsumeEnds
