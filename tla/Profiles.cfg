SPECIFICATION Spec
CONSTANTS
    Urls <- MCUrls
    Kilo = 4
    Least = 16
    Most = 64
    Bits = 8
    MaxPort = 3
    Names <- MCNames
    Inputs <- MCInputs
INVARIANTS
    AnnouncesAsWritten
    SizesAsWritten
    DatesAsDocumented
    
    ProfilesIndependent
CHECK_DEADLOCK FALSE
