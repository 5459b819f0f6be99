SPECIFICATION DeliverSpec
CONSTANTS
    Procs = {service, operator}
    Service = service
    ByHand = {"heartbeat", "follow --accept-rotation", "stage", "deliver"}
    MaxRecords = 2
    Chunk = 2
    Limit = 2
    Unparsable = {}
    MaxWritten = 2
    MaxTurns = 1
    MaxLate = 1
    MaxSeq = 1
INVARIANTS
    TypeOK
    PassedIsStaged
    CollectedIsPrefix
    NothingLost
    NeverOutOfSequence
    HealthIsNewest
PROPERTIES
    IsChannel
    QueueDrains
CHECK_DEADLOCK FALSE
