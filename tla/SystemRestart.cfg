SPECIFICATION FairSpec
CONSTANTS
    SubpacketMaxBytes = 2
    MaxSubpackets = 2
    MaxPacketId = 1
    PacketLen <- MCPacketLen
    NoBody = NoBody
    MaxRetransmissionRequests = 1
    QueueSize = 3
    LenModulus = 65536
    FaultInjection = FALSE
    MaxSignals = 3
    MaxLosses = 0
    MaxDuplicates = 0
    MaxSenderRestarts = 1
    MaxReceiverRestarts = 1
    MaxInFlight = 1
    Calm = FALSE
    Prompt = TRUE
    Patient = TRUE
CHECK_DEADLOCK FALSE
INVARIANTS
    NoLostWakeup
    NoStuckSending
PROPERTIES
    NodesComeToRest
