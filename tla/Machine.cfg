SPECIFICATION MachineSpec
CONSTANTS
    Half = 128
    ByteBits = 2
    PageSize = 8
    UserStatus = 4
    Unit = 8
    Usize = 1024
    Segments <- MCSegments
    Roms <- MCRoms
    ArmCode <- MCArmCode
    ThumbCode <- MCThumbCode
    PageTables <- MCPageTables
    MaxLoads = 2
    MaxSteps = 2
INVARIANT MachineTypeOK
PROPERTIES MemoryIsTheImage RestartTransparent
CHECK_DEADLOCK FALSE
