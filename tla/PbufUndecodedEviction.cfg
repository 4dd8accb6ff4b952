\* pbuf_remove, run right after pbuf_decode with the same now, frees a
\* complete frame that was never decoded.
CONSTANTS
    NFrames = 3
    PktsPerFrame = 2
    SeqModulus <- MCSeqModulus
    SeqStart <- MCSeqStart
    InitDelay = 1
    Delays <- MCDelays
    Offsets <- MCOffsets
    Grace = 1
    AllocOutcomes = {TRUE}
    MaxInserts = 4

SPECIFICATION RenderSpec

PROPERTY NoUndecodedEviction
