\* Every command of the small integers, and inspections of a key that changes.
SPECIFICATION Spec
CONSTANTS
    MaxInt = 7
    MaxItems = 3
    DefaultItems = 2
    MaxKeys = 2
    MaxSize = 4
INVARIANTS
    InspectIsAccepted
    ValueHasType
    OnlyFullRangeWraps
