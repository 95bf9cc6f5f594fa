SPECIFICATION Spec
CONSTANTS
    pub = pub
    prv = prv
    inc = inc
    nobody = nobody
    u = u
    upub = upub
    uprv = uprv
    uinc = uinc
    own = own
    g1 = g1
    g2 = g2
    gx = gx
    Names <- MCNames
    PrivateNames <- MCPrivateNames
    Incomplete <- MCIncomplete
    Urls <- MCUrls
    UrlOf <- MCUrlOf
    NameOf <- MCNameOf
    Nobody = nobody
    Groups <- MCGroups
    Announces <- MCAnnounces
    GroupNames <- MCGroupNames
    Items <- MCItems
    Texts <- MCTexts
    NoText = "none"
    Stamp = "stamp"
    Basename = "target"
    Sizes <- MCSizes
    Commands <- MCCommands
INVARIANTS
    StdoutIsMetafile
CHECK_DEADLOCK FALSE
