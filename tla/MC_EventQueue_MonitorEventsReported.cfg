CONSTANTS
    NEvents <- MCNEvents
SPECIFICATION Spec
INVARIANT MonitorEventsReported
CHECK_DEADLOCK FALSE
