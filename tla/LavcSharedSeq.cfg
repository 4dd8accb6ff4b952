\* Two instances share the static frame_seq: one instance's pts go backwards.
CONSTANTS
    i1 = i1
    i2 = i2
    Instances = {i1, i2}
    CpuCount = 2
    Heights = {4}
    PixFmts = {"yuv422p"}
    MaxCalls = 3
    Configs <- MCConfigs
    MaxMsgs = 1
    Subsamplings = {0}
    Interlaced = FALSE
    Nvenc = FALSE
    ConfigFailures = {"none"}

SPECIFICATION Spec

INVARIANT PtsIncreasing

\* An instance stops for good after libavcodec_compress_done, and every one after abort().
CHECK_DEADLOCK FALSE
