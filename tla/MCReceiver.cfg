SPECIFICATION ReceiverFairSpec
CONSTANTS
    SubpacketMaxBytes = 2
    MaxSubpackets = 3
    MaxPacketId = 2
    PacketLen <- MCPacketLen
    NoBody = NoBody
    MaxRetransmissionRequests = 1
    QueueSize = 2
    LenModulus = 6
    FaultInjection = TRUE
INVARIANTS
    ReceiverTypeOK
    NoLostWakeup
    MarkedIsStored
PROPERTIES
    RequestsWhatIsMissing
    KeepsPromise
    EndsAfterSilence
