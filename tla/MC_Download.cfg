CONSTANTS
    NSlots <- MCNSlots
    NSegs <- MCNSegs
    Src <- MCSrc
    Faults <- MCAllFaults
SPECIFICATION Spec
INVARIANT TypeOK
INVARIANT SegmentDeliveredOnce
 
PROPERTY CompletesWhenSourcesServe
PROPERTY ImplementsSegmentDelivery
PROPERTY UploadThreadEnds
CHECK_DEADLOCK FALSE
