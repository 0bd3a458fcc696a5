SPECIFICATION CpuSpec
CONSTANTS
    Modes <- AllModes
    Stacks = {0}
    Words = {0}
    Zero = 0
    Nzcv = {0, 1}
PROPERTIES
    SpsrCaptured
