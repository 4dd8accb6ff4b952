\* Probe error paths over rebinding, and the interrupt handler against the board's DMA and ICSR latches, with the handler called while the line is asserted.
CONSTANTS
    DeviceIds <- MCDeviceIds
    Versions <- MCVersions
    MaxProbes = 3
    ChainLen = 2

SPECIFICATION FairSpec

INVARIANT TypeOK
INVARIANT NoStaleFree
INVARIANT CardOwned
INVARIANT IcsrEventNotLost
INVARIANT AdvanceNotAhead
PROPERTY IcsrEventDelivered
