\* Three frames each way fill every buffer; the longest is refused.
SPECIFICATION Spec
CONSTANTS
    Frames <- FewFrames
    Datagrams <- FewDatagrams
    MAX_FRAME = 1
    UDP_BUFFER_SIZE = 1
    UdpPacketLen = 2
    PipeCapacity = 1
    QueueCapacity = 1
    MaxFrames = 3
    MaxDatagrams = 2
PROPERTY InOrder
PROPERTY EveryFrameHandled
CHECK_DEADLOCK FALSE
