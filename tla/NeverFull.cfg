\* Two users join the last free place of a room, and then a third.
SPECIFICATION Spec
CONSTANTS
    Users = {u1, u2, u3, u4}
    Rooms = {r1}
    NoRoom = NoRoom
    Workers = {w1, w2}
    Texts <- MCTexts
    Names <- TwoNames
    Capacities <- LeastCapacity
INVARIANT
    JoinsHaveRoom
