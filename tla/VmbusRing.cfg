\* In a ring of 56 bytes packets of 16 and 20 bytes take 24 and 32, so that two small
\* ones fit but not one of each, and one of 48, which takes 56, never does.  Word
\* stands for 2^32.
CONSTANTS
    DataBytesInRing = 56
    Word = 4096
    PacketSizes = {16, 20, 48}
    MaxId = 1
    PeerMasks = TRUE
SPECIFICATION Spec
INVARIANTS RingSound EndpointsAgree
PROPERTY ImplementsChannel
