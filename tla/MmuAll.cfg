SPECIFICATION MmuSpec
CONSTANTS
    Sections = {s0, s1}
    Domains = {"d0"}
    Valid <- TwoDescriptors
    Invalid = Invalid
    Tables = {t0, t1}
    Table0 = t0
    Controls <- OffOrOn
    Images <- TwoImages
SYMMETRY SectionSymmetry
INVARIANTS
    MmuTypeOK
    TlbCoherent
PROPERTIES
    ImplementsAddressSpace
