CONSTANTS
    MaxBatchSize = 3
    ChannelSize = 2
    QueueSize = 2
    MaxReceipts = 9
SPECIFICATION Spec
INVARIANTS TypeOK NothingLostOrReordered BatchSizes
PROPERTY EveryReceiptHandedOver
