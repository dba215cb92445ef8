SPECIFICATION FairSpec
CONSTANTS
    SubpacketMaxBytes = 2
    MaxSubpackets = 3
    MaxPacketId = 1
    PacketLen <- MCThreeParts
    NoBody = NoBody
    MaxRetransmissionRequests = 3
    QueueSize = 3
    LenModulus = 65536
    FaultInjection = FALSE
    MaxSignals = 3
    MaxLosses = 4
    MaxDuplicates = 0
    MaxSenderRestarts = 0
    MaxReceiverRestarts = 1
    MaxInFlight = 8
    Calm = TRUE
    Prompt = TRUE
    Patient = TRUE
CHECK_DEADLOCK FALSE
INVARIANTS
    CountsEachByteOnce
PROPERTIES
    DeliversDespiteLosses
    KeepsService
