CONSTANTS
    Configs <- SliceConfigs
    Readings <- SliceReadings
    Reports <- SliceReports
    MaxScale = 65535
    MaxOffset = 1000000000
    GroupSizes = {}
    MaxGroups = 10
SPECIFICATION Spec
INVARIANTS SliceTypeOK CountersAgree FailureReported FlatAppliedOnce SupergroupFlag OffsetLedger
PROPERTIES OneWay ImplementsCbrBuffer
CHECK_DEADLOCK FALSE
