\* A change message "subsampling=4:2:2" is rejected by parse_fmt, yet its value stays and the next reconfiguration aborts.
CONSTANTS
    i1 = i1
    i2 = i2
    Instances = {i1}
    CpuCount = 2
    Heights <- MCHeights
    PixFmts <- MCPixFmts
    MaxCalls = 3
    Configs <- MCConfigs
    MaxMsgs = 1
    Subsamplings = {0, 422}
    Interlaced = FALSE
    Nvenc = FALSE
    ConfigFailures = {"none"}

SPECIFICATION Spec

INVARIANT NoAbort

\* An instance stops for good after libavcodec_compress_done, and every one after abort().
CHECK_DEADLOCK FALSE
