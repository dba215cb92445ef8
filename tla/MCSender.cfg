SPECIFICATION SenderFairSpec
CONSTANTS
    SubpacketMaxBytes = 2
    MaxSubpackets = 3
    MaxPacketId = 2
    PacketLen <- MCPacketLen
    NoBody = NoBody
    QueueSize = 3
INVARIANTS
    SenderTypeOK
    NoStuckSending
    IdleMeansDone
PROPERTIES
    Paced
    SentIsRequested
    FramesTilePacket
    EndsAfterLastRequest
