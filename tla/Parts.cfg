CONSTANTS
    t1 = t1
    t2 = t2
    t3 = t3
    o1 = o1
    o2 = o2
    p = p
    q = q
    f1 = f1
    f2 = f2
    n1 = n1
    l1 = l1
    c1 = c1
    c2 = c2
    e1 = e1
    e2 = e2
    e3 = e3
    d1 = d1
    d2 = d2
    d3 = d3
    handler = handler
    Default = SigDfl
    Ignore = SigIgn
    CallerMax = 2
    MaxFd = 13
    CallerFile <- OpenFiles
    Callers <- ThreeThreads
    Dispositions <- SomeDispositions
    Objects <- TwoObjects
    Libraries <- TwoLibraries
    MaxUsers = 2
    Threads <- TwoThreads
    Files <- TwoFiles
    ConsoleFds <- TwoFds
    Slots = 1
    Names <- OneName
    Listeners <- OneListener
    MaxEntries = 2
    MaxDepth = 2
    Categories <- TwoCategories
    NameOf <- CategoryNames
    RuleTexts <- SomeRules
    WriterCalls <- SomeCalls
    Entries <- ThreeEntries
    TypeOf <- EntryTypes
    MaxAddress = 3
    Nodes <- ThreeNodes
    Loaders <- TwoThreads
    Readers <- ThirdThread
    Anys = {"a", "b", "c"}
    HeldTypes = {"int", "string"}
    Inlined = {"int"}
    HeldObjects = {1, 2, 3, 4, 5}
    Keys = {"a", "b", "c"}
    Values = {"x"}
    Maps = {"m", "n"}
    MaxNodes = 4
    Elements = {"x", "y"}
    Inline <- InlineCapacities
    HeapBuffers = {"h1", "h2", "h3"}
    MinHeapCapacity = 2
    MaxSize = 3
SPECIFICATION Spec
CHECK_DEADLOCK FALSE
INVARIANT TypeOK
INVARIANT ChildGetsWhatIsAsked
INVARIANT SigpipeIsBorrowed
INVARIANT CountIsRight
PROPERTY KindIsTrue
INVARIANT HeardAddsUp
INVARIANT LogFollowsTheRules
INVARIANT WritersDoNotMix
INVARIANT OneIdPerType
INVARIANT EveryNodeIsRead
INVARIANT OwnedOnce
INVARIANT IndexIsTheList
INVARIANT ElementsAreKept
