\* A ping and an ill-formed stock command, publications that fail, and stops.
SPECIFICATION FairSpec
CONSTANTS
    hello = hello
    ping = ping
    stock = stock
    long = long
    bad = bad
    other = other
    Kind <- MCKind
    None = None
    Posts = {ping, bad}
    Slots = {s1}
    Faults = {"publish", "stop"}
    MaxReplies = 1
    MaxLog = 4
    MaxShown = 4
PROPERTY
    EveryCommandReplied
\* The bounds and a refusal stop it.
CHECK_DEADLOCK FALSE
