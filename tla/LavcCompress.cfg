\* One compressor instance whose configure_with succeeds, with change messages: the slicing, the requested subsampling, and every call returning.
CONSTANTS
    i1 = i1
    i2 = i2
    Instances = {i1}
    CpuCount = 2
    Heights <- MCHeights
    PixFmts <- MCPixFmts
    MaxCalls = 3
    Configs <- MCConfigs
    MaxMsgs = 1
    Subsamplings = {0, 422}
    Interlaced = FALSE
    Nvenc = FALSE
    ConfigFailures = {"none"}

SPECIFICATION FairSpec

INVARIANT TypeOK
INVARIANT ConversionFillsPicture
INVARIANT SubsamplingHonoured
PROPERTY CallsReturn

\* An instance stops for good after libavcodec_compress_done, and every one after abort().
CHECK_DEADLOCK FALSE
