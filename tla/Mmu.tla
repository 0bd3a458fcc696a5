-------------------------------- MODULE Mmu --------------------------------
(***************************************************************************)
(* The MMU and its TLB (src/src/core/mmu.rs), as the CPU drives it through *)
(* CP15 and its memory accesses, over page tables in memory that the guest,*)
(* the DMA engine and the host write without telling it.                   *)
(*                                                                         *)
(* A descriptor is what the MMU decodes of it: frame, domain, ap, apx, xn, *)
(* or Invalid, which also stands for a table outside memory, as the CPU    *)
(* reports both alike.  Left out: what a frame holds besides page tables,  *)
(* alignment faults, which come before the MMU, and the copies of the      *)
(* registers that MRC reads.                                               *)
(***************************************************************************)
EXTENDS Naturals

CONSTANTS
    Sections,   \* virtual sections
    Domains,    \* protection domains
    Valid,      \* section descriptors that occur
    Invalid,    \* any other descriptor
    Tables,     \* page table bases
    Table0,     \* the one at address 0
    Controls,   \* words written to the control register
    Images      \* what a load, if only in part, can leave in the page tables

Off == [mmu |-> FALSE, icache |-> FALSE, dcache |-> FALSE]

VARIABLES
    control,   \* the m bit of control, icache_enabled and dcache_enabled
    ttbr0,
    dacr,      \* mode of each domain
    tlb,       \* the entry of each section; Invalid where there is none
    tables,    \* the page tables in memory
    late,      \* history: the descriptors each section has had since the flush
    result     \* what the last translation returned

mmuVars == <<control, ttbr0, dacr, tlb, tables, late, result>>

Space == INSTANCE AddressSpace WITH on <- control.mmu, table <- tables[ttbr0]

ASSUME MmuAssumption ==
    /\ Invalid \notin Valid
    /\ Valid \subseteq [frame : {d.frame : d \in Valid}, domain : Domains, ap : 0..3,
                        apx : BOOLEAN, xn : BOOLEAN]
    /\ \A d \in Valid : d.frame \notin Space!Faults
    /\ Table0 \in Tables
    /\ Controls \subseteq [mmu : BOOLEAN, icache : BOOLEAN, dcache : BOOLEAN]
    /\ Images \subseteq [Tables -> [Sections -> Space!Descriptors]]

NoEntries == [s \in Sections |-> Invalid]

MmuInit ==
    /\ control = Off
    /\ ttbr0 = Table0
    /\ dacr = [m \in Domains |-> "none"]
    /\ tlb = NoEntries
    /\ tables = [t \in Tables |-> NoEntries]
    /\ late = [s \in Sections |-> {Invalid}]
    /\ result = Space!NoAccess

-----------------------------------------------------------------------------
(* CP15 *)

\* invalidate_tlb, before accesses through a table.
Flush(table) ==
    /\ tlb' = NoEntries
    /\ late' = [s \in Sections |-> {table[s]}]

\* Mutation of WriteControl: the flush looks at the caches only.
WriteControlCachesOnly(new) ==
    /\ control' = new
    /\ \/ [new EXCEPT !.mmu = control.mmu] # control /\ Flush(tables[ttbr0])
       \/ [new EXCEPT !.mmu = control.mmu] = control /\ UNCHANGED <<tlb, late>>
    /\ UNCHANGED <<ttbr0, dacr, tables, result>>

WriteControl(new) ==
    /\ control' = new
    /\ \/ new # control /\ Flush(tables[ttbr0])
       \/ new = control /\ UNCHANGED <<tlb, late>>
    /\ UNCHANGED <<ttbr0, dacr, tables, result>>

WriteTtbr0(t) ==
    /\ ttbr0' = t
    /\ Flush(tables[t])
    /\ UNCHANGED <<control, dacr, tables, result>>

WriteDacr(modes) ==
    /\ dacr' = modes
    /\ Flush(tables[ttbr0])
    /\ UNCHANGED <<control, ttbr0, tables, result>>

InvalidateTlb ==
    /\ Flush(tables[ttbr0])
    /\ UNCHANGED <<control, ttbr0, dacr, tables, result>>

-----------------------------------------------------------------------------
(* Memory *)

\* Memory becomes new; the TLB does not notice.
StoreTables(new) ==
    /\ tables' = new
    /\ late' = [s \in Sections |-> late[s] \cup {new[ttbr0][s]}]

\* A DMA transfer writes any number of words of a table.
DmaStore ==
    /\ \E t \in Tables, new \in [Sections -> Space!Descriptors] :
          StoreTables([tables EXCEPT ![t] = new])
    /\ UNCHANGED <<control, ttbr0, dacr, tlb, result>>

\* load_rom that fails: memory has been cleared and may hold a part of the new
\* image, the CPU goes on as it was.
FailedLoad ==
    /\ \E image \in Images : StoreTables(image)
    /\ UNCHANGED <<control, ttbr0, dacr, tlb, result>>

\* load_rom and reset: the MMU is reset with the CPU.
Reset ==
    /\ control' = Off
    /\ ttbr0' = Table0
    /\ dacr' = [m \in Domains |-> "none"]
    /\ \E image \in Images : tables' = image /\ Flush(image[Table0])
    /\ UNCHANGED result

OneDescriptorWritten ==
    {[tables EXCEPT ![t][s] = d] : t \in Tables, s \in Sections, d \in Space!Descriptors}

\* The entry translate works with: cached, or read from the table.
Entry(s) == IF tlb[s] # Invalid THEN tlb[s] ELSE tables[ttbr0][s]

\* Mutations of Translate: a denied access is granted when it is repeated, as
\* the check is made only when the entry is read from the table; the TLB takes
\* apx for xn and xn for apx.
TranslateChecksOnce(s, access, privileged) ==
    \/ /\ control.mmu
       /\ result' = IF tlb[s] # Invalid THEN tlb[s].frame
                    ELSE Space!Outcome(tables[ttbr0][s], dacr, access, privileged)
       /\ tlb' = [tlb EXCEPT ![s] = Entry(s)]
    \/ /\ ~control.mmu
       /\ result' = Space!Flat
       /\ UNCHANGED tlb

TranslateSwapsBits(s, access, privileged) ==
    \/ /\ control.mmu
       /\ result' = Space!Outcome(Entry(s), dacr, access, privileged)
       /\ tlb' = IF Entry(s) = Invalid THEN tlb
                 ELSE [tlb EXCEPT ![s] = [Entry(s) EXCEPT !.apx = Entry(s).xn,
                                                          !.xn = Entry(s).apx]]
    \/ /\ ~control.mmu
       /\ result' = Space!Flat
       /\ UNCHANGED tlb

\* translate: the entry is cached before the access is checked against it, so
\* one that is denied fills the TLB as well.
Translate(s, access, privileged) ==
    \/ /\ control.mmu
       /\ result' = Space!Outcome(Entry(s), dacr, access, privileged)
       /\ tlb' = [tlb EXCEPT ![s] = Entry(s)]
    \/ /\ ~control.mmu
       /\ result' = Space!Flat
       /\ UNCHANGED tlb

\* An access of the CPU: a fetch, a load or a store.  A store that is granted
\* may write a descriptor, that of its own section included.
CpuAccess(s, access, privileged) ==
    /\ Translate(s, access, privileged)
    /\ \/ /\ access = "Write" /\ result' \notin Space!Faults
          /\ \E new \in OneDescriptorWritten : StoreTables(new)
       \/ UNCHANGED <<tables, late>>
    /\ UNCHANGED <<control, ttbr0, dacr>>

MmuNext ==
    \/ \E new \in Controls : WriteControl(new)
    \/ \E t \in Tables : WriteTtbr0(t)
    \/ \E modes \in [Domains -> Space!DomainModes] : WriteDacr(modes)
    \/ InvalidateTlb
    \/ DmaStore
    \/ FailedLoad
    \/ Reset
    \/ \E s \in Sections, access \in Space!Accesses, privileged \in BOOLEAN :
          CpuAccess(s, access, privileged)

MmuSpec == MmuInit /\ [][MmuNext]_mmuVars

-----------------------------------------------------------------------------
(* Properties *)

\* Every variable holds a value of its type; in particular the TLB holds only
\* descriptors that some table can hold.
MmuTypeOK ==
    /\ control \in Controls \cup {Off}
    /\ ttbr0 \in Tables
    /\ dacr \in [Domains -> Space!DomainModes]
    /\ tlb \in [Sections -> Space!Descriptors]
    /\ tables \in [Tables -> [Sections -> Space!Descriptors]]
    /\ late \in [Sections -> SUBSET Space!Descriptors]

\* A TLB entry is a descriptor its section has had in the current table since
\* the last flush, whoever wrote the table, switched it or turned the MMU off
\* and on in between; and the TLB is empty while the MMU is off, so that no
\* entry survives that.
TlbCoherent ==
    \A s \in Sections :
        tlb[s] # Invalid => control.mmu /\ tlb[s] \in late[s]

\* The MMU with its TLB implements the address space without one: every
\* access, cached or not, is decided by a descriptor of its section in the
\* current table, with the domain modes of now.
ImplementsAddressSpace == Space!SpaceSpec

=============================================================================
