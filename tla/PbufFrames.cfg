\* Frame store and scheduler: ordering, packet lists, retention, draining.
CONSTANTS
    NFrames = 3
    PktsPerFrame = 2
    SeqModulus <- MCSeqModulus
    SeqStart <- MCSeqStart
    InitDelay = 1
    Delays <- MCDelays
    Offsets <- MCOffsets
    Grace = 1
    AllocOutcomes = {TRUE}
    MaxInserts = 4

SPECIFICATION FairSpec

INVARIANT TypeOK
INVARIANT FramesOrdered
INVARIANT PacketListOrdered
INVARIANT PacketsRetained

PROPERTY Drains
PROPERTY PlayoutRefinement
