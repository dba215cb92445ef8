SPECIFICATION Spec
CONSTANTS
    SubpacketMaxBytes = 2
    MaxSubpackets = 2
    MaxPacketId = 1
    PacketLen <- MCPacketLen
    NoBody = NoBody
    MaxRetransmissionRequests = 1
    QueueSize = 3
    LenModulus = 65536
    FaultInjection = FALSE
    MaxSignals = 2
    MaxLosses = 1
    MaxDuplicates = 1
    MaxSenderRestarts = 0
    MaxReceiverRestarts = 0
    MaxInFlight = 8
    Calm = TRUE
    Prompt = FALSE
    Patient = FALSE
CHECK_DEADLOCK FALSE
INVARIANTS
    TypeOK
    MarkedIsStored
    EndsWhenAllReceived
PROPERTIES
    LeavesOnlyWhenDone
    DisplaysWholePacket
    SendsWhatItNames
    KeepsService
