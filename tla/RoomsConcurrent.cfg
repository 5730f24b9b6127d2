\* Three users, two rooms, two requests in flight.
SPECIFICATION Spec
CONSTANTS
    Users = {u1, u2, u3}
    Rooms = {r1, r2}
    NoRoom = NoRoom
    Workers = {w1, w2}
    Texts <- MCTexts
    Names <- OneName
    Capacities <- TightCapacities
SYMMETRY Symmetry
INVARIANTS
    OwnerIsMember
    JoinReplyIsTruthful
PROPERTIES
    OvershootNeedsStaleRead
    DuplicateNeedsStaleLookup
