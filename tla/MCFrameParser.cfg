\* Three pieces of wire, read in chunks of up to four bytes; the longest
\* frame does not fit into frame_buffer, and the backlog can fill rx_buffer.
SPECIFICATION Spec
CONSTANTS
    Frames <- Sent
    Streams <- MCStreams
    MaxChunk = 4
    RxCap = 12
    FrameCap = 8
INVARIANTS
    TypeOK
    OnlySentFrames
PROPERTIES
    IntactFrameRead
CHECK_DEADLOCK FALSE
