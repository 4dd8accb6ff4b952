\* tx_send over 1x1 .. 2x2 grids, tx_send_tile and audio_tx_send at a usual mtu, with a fair sending thread.
CONSTANTS
    Mtus = {184}
    VideoHdrLen = 24
    AudioHdrLen = 16
    AudioMtu = 1500
    TileLens <- MCTileLens
    AudioLens <- MCAudioLens
    GridDims = {1, 2}
    MaxCalls = 2
    UWidth = 16

SPECIFICATION FairSpec

INVARIANT TypeOK
INVARIANT MarkerOnLastPacket
INVARIANT PacketFitsMtu
PROPERTY Terminates
