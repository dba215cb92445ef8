SPECIFICATION Spec
CONSTANTS
    SubpacketMaxBytes = 2
    MaxSubpackets = 2
    MaxPacketId = 1
    PacketLen <- MCPacketLen
    NoBody = NoBody
    MaxRetransmissionRequests = 1
    QueueSize = 3
    LenModulus = 65536
    FaultInjection = FALSE
    MaxSignals = 2
    MaxLosses = 0
    MaxDuplicates = 0
    MaxSenderRestarts = 1
    MaxReceiverRestarts = 0
    MaxInFlight = 8
    Calm = FALSE
    Prompt = FALSE
    Patient = TRUE
CHECK_DEADLOCK FALSE
PROPERTY DisplaysWholePacket
