SPECIFICATION MCSpec
CONSTANTS
    NUM_OF_RDESC = 5
    BATCH = 2
    Frame = {f1, f2, bad}
    Bad = {bad}
    NoFrame = NoFrame
    RingLen = 6
    BUFSIZE = 4
    Mss = {2}
    MaxPay = 3
    MaxDescs = 2
    Length = {1, 2, 3, 4}
    SENDVIRT_MAXSIZE = 3
    GuestRing = 4
    MaxGuestFrames = 3
    MaxBatch = 2
    Config <- GuestConfig
    NUM_OF_TDESC = 4
    MaxPackets = 3
    MaxFrames = 1
    Packet <- AnyPacket
INVARIANTS EveryFrameSent
