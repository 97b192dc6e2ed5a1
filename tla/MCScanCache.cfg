\* Revolutions of one or two measurements, read two at a time; when measurements
\* are lost or repeated, revolutions merge and overflow local_scan.
CONSTANTS
    Stream <- MCStream
    BatchMax = 2
    ScanMax = 3
    NodesMax = 2
SPECIFICATION FairSpec
INVARIANTS
    TypeOK
    GrabsOneRevolution
    NoScanOverlooked
PROPERTIES
    EachScanOnce
    CtrlCStopsSensor
CHECK_DEADLOCK FALSE
