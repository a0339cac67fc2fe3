SPECIFICATION MCSpec
CONSTANTS
    Human = {h1}
    Account = {h1, b1}
    Tag = {t1}
    Card = {x1, x2}
    Entry = {e1}
    Slot = {s1, s2}
    MaxRequests = 3
    MaxCount = 3
    MaxShort = 3
    MaxLong = 4
    MaxResets = 2
    MaxFaults = 1
    NoTag = NoTag
    NoRow = NoRow
    NoClan = NoClan
    Idle = Idle
INVARIANTS
    CommunityTypeOK
    DisplayedTagIsMembership
    ClanTellsTruth
    EdgesAgree
    FollowCountsHold
    CardsKept
    ResetLeavesNothing
CHECK_DEADLOCK FALSE
