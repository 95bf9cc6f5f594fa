SPECIFICATION Spec
CONSTANTS
    pub = pub
    prv = prv
    inc = inc
    nobody = nobody
    u = u
    v = v
    upub = upub
    uprv = uprv
    uinc = uinc
    g1 = g1
    g2 = g2
    g3 = g3
    gx = gx
    Names <- MCNames
    PrivateNames <- MCPrivateNames
    Incomplete <- MCIncomplete
    Urls <- MCUrls
    UrlOf <- MCUrlOf
    NameOf <- MCNameOf
    Nobody = nobody
    Groups <- MCGroups
    Announces <- MCAnnounces
    GroupNames <- MCGroupNames
    Items <- MCItems
    Texts <- MCTexts
    Stamp = "stamp"
    Targets <- MCTargets
    Commands <- MCCommands
    MaxRuns = 2
INVARIANTS
    TrackersKept
    TrackersReplaced
    FlagsAsDocumented
    RetryHarmless
CHECK_DEADLOCK FALSE
