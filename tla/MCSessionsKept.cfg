CONSTANTS
    a = a
    b = b
    a1 = a1
    a2 = a2
    a3 = a3
    b1 = b1
    None = None
    Tabs = {a, b}
    Requests = {a1, a2, a3, b1}
    TabOf <- MCTabOf
    MaxTokens = 5
SPECIFICATION MCSpec
INVARIANT
    LiveSessionsAreKept
CHECK_DEADLOCK FALSE
