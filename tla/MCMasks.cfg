SPECIFICATION Spec
CONSTANTS
    SubpacketMaxBytes = 1
    MaxSubpackets = 3
    MaxPacketId = 0
    PacketLen <- MCPacketLen
    NoBody = NoBody
PROPERTY WordsAreSets
