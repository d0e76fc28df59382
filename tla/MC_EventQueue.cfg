CONSTANTS
    NEvents <- MCNEvents
SPECIFICATION Spec
INVARIANT TypeOK
 
CHECK_DEADLOCK FALSE
