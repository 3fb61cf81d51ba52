\* Is every range that passes the validation bounded?
SPECIFICATION Spec
CONSTANTS
    MaxInt = 7
    MaxItems = 3
    DefaultItems = 2
    MaxKeys = 2
    MaxSize = 4
INVARIANT RangesAreBounded
