SPECIFICATION CpuSpec
CONSTANTS
    Modes <- AllModes
    Stacks = {0}
    Words = {0, 1}
    Zero = 0
    Nzcv = {0}
INVARIANTS
    CpuTypeOK
PROPERTIES
    UserIsConfined
    ImplementsBanks
