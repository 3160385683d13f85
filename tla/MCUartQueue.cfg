SPECIFICATION FairSpec
CONSTANTS
    NBytes <- MCNBytes
    MaxChunk <- MCMaxChunk
INVARIANTS
    TypeOK
    BytesInOrder
    NoLostWakeup
    ClosedAfterWorker
PROPERTIES
    EveryByteDelivered
    EverybodyLeaves
    ImplementsByteChannel
CHECK_DEADLOCK FALSE
