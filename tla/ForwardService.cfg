SPECIFICATION ServiceSpec
CONSTANTS
    Procs = {service}
    Service = service
    ByHand = {}
    MaxRecords = 2
    Chunk = 1
    Limit = 2
    Unparsable = {2}
    MaxWritten = 2
    MaxTurns = 0
    MaxLate = 1
    MaxSeq = 4
PROPERTIES
    QueueDrains
CHECK_DEADLOCK FALSE
