CONSTANT RingSize = 11
SPECIFICATION Spec
INVARIANTS SuccessorOwns UniqueOffSeam JoinLookup LeaveLookup
PROPERTY OnlyMovedRangeChangesOwner
