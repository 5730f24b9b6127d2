\* One command and what can go wrong, except that its reply gets lost.
SPECIFICATION Spec
CONSTANTS
    hello = hello
    ping = ping
    stock = stock
    long = long
    bad = bad
    other = other
    Kind <- MCKind
    None = None
    Posts = {stock}
    Slots = {s1, s2}
    Faults = {"loss", "stop", "publish", "handler", "broadcast"}
    MaxReplies = 2
    MaxLog = 4
    MaxShown = 3
SYMMETRY Symmetry
INVARIANTS
    HandledIsShown
    ReplyFollowsCommand
PROPERTY
    OneReply
\* The bounds and a refusal stop it.
CHECK_DEADLOCK FALSE
