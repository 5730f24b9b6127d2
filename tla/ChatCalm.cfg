\* Nothing fails but the publication of a command or of a reply.
SPECIFICATION FairSpec
CONSTANTS
    hello = hello
    ping = ping
    stock = stock
    long = long
    bad = bad
    other = other
    Kind <- MCKind
    None = None
    Posts = {ping, stock, long}
    Slots = {s1}
    Faults = {"publish", "reply"}
    MaxReplies = 1
    MaxLog = 6
    MaxShown = 6
INVARIANT
    RepliesInOrder
PROPERTY
    EveryCommandAnswered
\* The bounds and a refusal stop it.
CHECK_DEADLOCK FALSE
