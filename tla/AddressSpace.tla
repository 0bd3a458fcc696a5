---------------------------- MODULE AddressSpace ----------------------------
(***************************************************************************)
(* What the MMU promises its software, without a TLB: an access is decided *)
(* by the descriptor its section has in the current page table, and by the *)
(* domain modes in force at that moment.  The one licence the MMU has is   *)
(* to be late: until the software has it drop what it remembers, it may    *)
(* decide by any descriptor the section has had since it last did.         *)
(***************************************************************************)

CONSTANTS
    Sections,      \* 1 MB sections of the virtual address space
    Domains,       \* protection domains
    Valid,         \* section descriptors: frame, domain, ap, apx, xn
    Invalid        \* any other descriptor, or none where memory has nothing

Descriptors == Valid \cup {Invalid}
DomainModes == {"none", "client", "reserved", "manager"}
Accesses == {"Read", "Write", "Execute"}
Faults == {"Translation", "Domain", "Permission"}
NoAccess == "None"
Flat == "Flat"

VARIABLES
    on,        \* whether addresses are translated
    dacr,      \* mode of each domain
    table,     \* the current page table
    late,      \* the descriptors an access to each section may go by
    result     \* where the last access went, or the fault it met

spaceVars == <<on, dacr, table, late, result>>

\* What ap and apx let a client do.
Permitted(d, access, privileged) ==
    /\ access = "Execute" => ~d.xn
    /\ \/ d.ap \in {1, 2} /\ privileged
       \/ d.ap = 2 /\ access # "Write"
       \/ d.ap = 3 /\ (access = "Write" => ~d.apx)

\* The frame a descriptor leads to, or the fault it makes.
Outcome(d, modes, access, privileged) ==
    IF d = Invalid THEN "Translation"
    ELSE IF modes[d.domain] \in {"none", "reserved"} THEN "Domain"
    ELSE IF modes[d.domain] = "client" /\ ~Permitted(d, access, privileged)
         THEN "Permission"
         ELSE d.frame

SpaceInit ==
    /\ on = FALSE
    /\ dacr = [m \in Domains |-> "none"]
    /\ table = [s \in Sections |-> Invalid]
    /\ late = [s \in Sections |-> {Invalid}]
    /\ result = NoAccess

\* Memory changes under the current table, and nothing is forgotten.
Change ==
    /\ table' \in [Sections -> Descriptors]
    /\ late' = [s \in Sections |-> late[s] \cup {table'[s]}]

Write == Change /\ UNCHANGED <<on, dacr, result>>

\* The software sets the registers, or drops the MMU's memory; the table may
\* become another one.
Renew ==
    /\ on' \in BOOLEAN
    /\ dacr' \in [Domains -> DomainModes]
    /\ table' \in [Sections -> Descriptors]
    /\ late' = [s \in Sections |-> {table'[s]}]
    /\ UNCHANGED result

Access(s, access, privileged) ==
    /\ \/ on /\ \E d \in late[s] : result' = Outcome(d, dacr, access, privileged)
       \/ ~on /\ result' = Flat
    /\ \/ access = "Write" /\ result' \notin Faults /\ Change
       \/ UNCHANGED <<table, late>>
    /\ UNCHANGED <<on, dacr>>

SpaceNext ==
    \/ Write
    \/ Renew
    \/ \E s \in Sections, access \in Accesses, privileged \in BOOLEAN :
          Access(s, access, privileged)

SpaceSpec == SpaceInit /\ [][SpaceNext]_spaceVars

=============================================================================
