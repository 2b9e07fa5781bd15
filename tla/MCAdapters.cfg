SPECIFICATION FairSpec
CONSTANTS
    Users = {u1, u2, u3}
    Candidates <- AutoCandidates
    Wishes = {"auto", "ovpn-dco"}
    Before <- OneBefore
    Overlaps <- AnyOf
    Elevations <- AnyOf
    Faults = {"list", "create", "service", "delete"}
    MaxAdapters = 4
CHECK_DEADLOCK FALSE
INVARIANTS TypeOK CountMatchesHolders HeldAdapterFits NothingLeaks
PROPERTIES CallsSettle
