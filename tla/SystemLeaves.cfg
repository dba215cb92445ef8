SPECIFICATION Spec
CONSTANTS
    SubpacketMaxBytes = 2
    MaxSubpackets = 2
    MaxPacketId = 1
    PacketLen <- MCPacketLen
    NoBody = NoBody
    MaxRetransmissionRequests = 1
    QueueSize = 3
    LenModulus = 65536
    FaultInjection = FALSE
    MaxSignals = 2
    MaxLosses = 0
    MaxDuplicates = 0
    MaxSenderRestarts = 0
    MaxReceiverRestarts = 0
    MaxInFlight = 8
    Calm = FALSE
    Prompt = TRUE
    Patient = TRUE
CHECK_DEADLOCK FALSE
PROPERTY LeavesOnlyWhenDone
