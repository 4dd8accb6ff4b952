\* configure_with fails on a new description; a tile of the old one then skips configuration.
CONSTANTS
    i1 = i1
    i2 = i2
    Instances = {i1}
    CpuCount = 2
    Heights <- MCHeights
    PixFmts = {"yuv422p"}
    MaxCalls = 3
    Configs <- MCConfigs
    MaxMsgs = 1
    Subsamplings = {0, 444}
    Interlaced = FALSE
    Nvenc = FALSE
    ConfigFailures = {"codec", "ctx_alloc", "decoder", "preset", "open", "frame_alloc", "image_alloc", "none"}

SPECIFICATION Spec

INVARIANT ContextConfigured

\* An instance stops for good after libavcodec_compress_done, and every one after abort().
CHECK_DEADLOCK FALSE
