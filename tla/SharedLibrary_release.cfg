CONSTANTS
    o1 = o1
    o2 = o2
    p = p
    q = q
    Objects <- TwoObjects
    Libraries <- TwoLibraries
    MaxUsers = 2
SPECIFICATION Spec
PROPERTY ReleasedStaysLoaded
