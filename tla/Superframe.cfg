CONSTANTS
    SUPERFRAME_SLOT_S = 3
    GUARD_PERIOD_S = 0
    SUPERFRAME_SLOT_COUNT = 22
    SUPERFRAME_FREQUENCY_S = 71
    MAX_TIME_SYNC_DRIFT_S = 60
    REUSE_DISTANCE = 3
    Rings = {1, 2, 255}
    MaxLag = 2
    Horizon = 220
SPECIFICATION LoopSpec
INVARIANTS WindowAligned NeverStranded LoopTypeOK FreshAssignment OnItsCode
PROPERTIES ActsInGridSlot OnTimeWakeHitsSlot DutyInItsSlot AdvertisesEachSuperframe
CHECK_DEADLOCK FALSE
