----------------------------- MODULE MmuProofs -----------------------------
(***************************************************************************)
(* Proofs about Mmu: types, the coherence of the TLB, and that the MMU     *)
(* implements AddressSpace.                                                *)
(***************************************************************************)
EXTENDS Mmu, TLAPS

\* The inductive invariant adds to TlbCoherent that the history of a section
\* includes the descriptor it has now: what the TLB reads is in it.
MmuInv ==
    /\ MmuTypeOK
    /\ TlbCoherent
    /\ \A s \in Sections : tables[ttbr0][s] \in late[s]

\* A flush leaves an empty TLB and a history of what the table holds now.
LEMMA FlushCoherent ==
    ASSUME MmuTypeOK, NEW t \in Tables, NEW m \in [Tables -> [Sections -> Space!Descriptors]],
           Flush(m[t]), ttbr0' = t, tables' = m
    PROVE  /\ tlb' \in [Sections -> Space!Descriptors]
           /\ late' \in [Sections -> SUBSET Space!Descriptors]
           /\ TlbCoherent'
           /\ \A s \in Sections : tables'[ttbr0'][s] \in late'[s]
<1>1. tlb' = NoEntries /\ late' = [s \in Sections |-> {m[t][s]}]
  BY DEF Flush
<1>. QED
  BY <1>1 DEF NoEntries, TlbCoherent, Space!Descriptors

\* A store to memory lengthens the histories and touches no entry.
LEMMA StoreCoherent ==
    ASSUME MmuInv, NEW m \in [Tables -> [Sections -> Space!Descriptors]],
           StoreTables(m), UNCHANGED ttbr0
    PROVE  /\ tables' \in [Tables -> [Sections -> Space!Descriptors]]
           /\ late' \in [Sections -> SUBSET Space!Descriptors]
           /\ \A s \in Sections : late[s] \subseteq late'[s]
           /\ \A s \in Sections : tables'[ttbr0'][s] \in late'[s]
BY DEF MmuInv, MmuTypeOK, StoreTables

\* Writing one descriptor gives tables.
LEMMA OneDescriptorType ==
    ASSUME MmuTypeOK, NEW m \in OneDescriptorWritten
    PROVE  m \in [Tables -> [Sections -> Space!Descriptors]]
BY DEF MmuTypeOK, OneDescriptorWritten

\* The entry translate works with is one the section's history allows.
LEMMA EntryInHistory ==
    ASSUME MmuInv, NEW s \in Sections
    PROVE  Entry(s) \in late[s] /\ Entry(s) \in Space!Descriptors
BY DEF MmuInv, MmuTypeOK, TlbCoherent, Entry

\* A translation keeps the TLB well-typed, and caches what history allows.
LEMMA TranslateCoherent ==
    ASSUME MmuInv, NEW s \in Sections, NEW access, NEW privileged,
           Translate(s, access, privileged)
    PROVE  /\ tlb' \in [Sections -> Space!Descriptors]
           /\ \A x \in Sections : tlb'[x] # Invalid => control.mmu /\ tlb'[x] \in late[x]
<1>1. CASE control.mmu
  <2>1. tlb' = [tlb EXCEPT ![s] = Entry(s)]
    BY <1>1 DEF Translate
  <2>. QED
    BY <1>1, <2>1, EntryInHistory DEF MmuInv, MmuTypeOK, TlbCoherent
<1>2. CASE ~control.mmu
  BY <1>2 DEF Translate, MmuInv, MmuTypeOK, TlbCoherent
<1>. QED
  BY <1>1, <1>2

\* The invariant holds initially.
LEMMA MmuInvInit == MmuInit => MmuInv
BY MmuAssumption
DEF MmuInit, MmuInv, MmuTypeOK, TlbCoherent, NoEntries, Space!Descriptors, Space!DomainModes

\* Every step preserves the invariant.
LEMMA MmuInvStep == MmuInv /\ [MmuNext]_mmuVars => MmuInv'
<1>. SUFFICES ASSUME MmuInv, [MmuNext]_mmuVars
              PROVE  MmuInv'
  OBVIOUS
<1>. USE DEF MmuInv
<1>1. ASSUME NEW new \in Controls, WriteControl(new)
      PROVE  MmuInv'
  <2>1. CASE new # control /\ Flush(tables[ttbr0])
    BY <1>1, <2>1, FlushCoherent DEF WriteControl, MmuTypeOK
  <2>2. CASE new = control /\ UNCHANGED <<tlb, late>>
    BY <1>1, <2>2 DEF WriteControl, MmuTypeOK, TlbCoherent
  <2>. QED
    BY <1>1, <2>1, <2>2 DEF WriteControl
<1>2. ASSUME NEW t \in Tables, WriteTtbr0(t)
      PROVE  MmuInv'
  BY <1>2, FlushCoherent DEF WriteTtbr0, MmuTypeOK
<1>3. ASSUME NEW modes \in [Domains -> Space!DomainModes], WriteDacr(modes)
      PROVE  MmuInv'
  BY <1>3, FlushCoherent DEF WriteDacr, MmuTypeOK
<1>4. CASE InvalidateTlb
  BY <1>4, FlushCoherent DEF InvalidateTlb, MmuTypeOK
<1>5. CASE DmaStore
  <2>1. PICK t \in Tables, new \in [Sections -> Space!Descriptors] :
               StoreTables([tables EXCEPT ![t] = new])
    BY <1>5 DEF DmaStore
  <2>2. [tables EXCEPT ![t] = new] \in [Tables -> [Sections -> Space!Descriptors]]
    BY DEF MmuTypeOK
  <2>. QED
    BY <1>5, <2>1, <2>2, StoreCoherent DEF DmaStore, MmuTypeOK, TlbCoherent
<1>6. CASE FailedLoad
  <2>1. PICK m \in Images : StoreTables(m)
    BY <1>6 DEF FailedLoad
  <2>2. m \in [Tables -> [Sections -> Space!Descriptors]]
    BY MmuAssumption
  <2>. QED
    BY <1>6, <2>1, <2>2, StoreCoherent DEF FailedLoad, MmuTypeOK, TlbCoherent
<1>7. CASE Reset
  <2>1. PICK image \in Images : tables' = image /\ Flush(image[Table0])
    BY <1>7 DEF Reset
  <2>2. image \in [Tables -> [Sections -> Space!Descriptors]] /\ Table0 \in Tables
    BY MmuAssumption
  <2>3. dacr' \in [Domains -> Space!DomainModes]
    BY <1>7 DEF Reset, Space!DomainModes
  <2>. QED
    BY <1>7, <2>1, <2>2, <2>3, FlushCoherent DEF Reset, MmuTypeOK
<1>8. ASSUME NEW s \in Sections, NEW access \in Space!Accesses, NEW privileged \in BOOLEAN,
             CpuAccess(s, access, privileged)
      PROVE  MmuInv'
  <2>1. Translate(s, access, privileged) /\ UNCHANGED <<control, ttbr0, dacr>>
    BY <1>8 DEF CpuAccess
  <2>2. CASE UNCHANGED <<tables, late>>
    BY <2>1, <2>2, TranslateCoherent DEF MmuTypeOK, TlbCoherent
  <2>3. ASSUME NEW m \in OneDescriptorWritten, StoreTables(m)
        PROVE  MmuInv'
    BY <2>1, <2>3, TranslateCoherent, OneDescriptorType, StoreCoherent
    DEF MmuTypeOK, TlbCoherent
  <2>. QED
    BY <1>8, <2>2, <2>3 DEF CpuAccess
<1>9. CASE UNCHANGED mmuVars
  BY <1>9 DEF mmuVars, MmuTypeOK, TlbCoherent
<1>. QED
  BY <1>1, <1>2, <1>3, <1>4, <1>5, <1>6, <1>7, <1>8, <1>9 DEF MmuNext

\* The state is always well-typed.
THEOREM MmuTypeCorrect == MmuSpec => []MmuTypeOK
<1>1. MmuInv => MmuTypeOK
  BY DEF MmuInv
<1>. QED
  BY <1>1, MmuInvInit, MmuInvStep, PTL DEF MmuSpec

\* No TLB entry is older than the last flush, and none exists with the MMU off.
THEOREM TlbStaysCoherent == MmuSpec => []TlbCoherent
<1>1. MmuInv => TlbCoherent
  BY DEF MmuInv
<1>. QED
  BY <1>1, MmuInvInit, MmuInvStep, PTL DEF MmuSpec

-----------------------------------------------------------------------------
(* Refinement *)

\* The initial states are those of an address space.
LEMMA SpaceInitImplemented == MmuInit => Space!SpaceInit
<1>. SUFFICES ASSUME MmuInit
              PROVE  Space!SpaceInit
  OBVIOUS
<1>1. tables[ttbr0] = [s \in Sections |-> Invalid]
  BY MmuAssumption DEF MmuInit, NoEntries
<1>. QED
  BY <1>1 DEF MmuInit, Space!SpaceInit, Off

\* A flush, whatever register it goes with, renews the address space.
LEMMA FlushRenews ==
    ASSUME MmuInv', NEW t \in Tables, NEW m,
           Flush(m[t]), ttbr0' = t, tables' = m, UNCHANGED result
    PROVE  Space!Renew
<1>1. tables'[ttbr0'] \in [Sections -> Space!Descriptors]
  BY DEF MmuInv, MmuTypeOK
<1>2. late' = [s \in Sections |-> {tables'[ttbr0'][s]}]
  BY DEF Flush
<1>3. control'.mmu \in BOOLEAN
  <2>1. CASE control' = Off
    BY <2>1 DEF Off
  <2>2. CASE control' \in Controls
    <3>1. control' \in [mmu : BOOLEAN, icache : BOOLEAN, dcache : BOOLEAN]
      BY <2>2, MmuAssumption
    <3>. QED
      BY <3>1
  <2>. QED
    BY <2>1, <2>2 DEF MmuInv, MmuTypeOK
<1>. QED
  BY <1>1, <1>2, <1>3 DEF Space!Renew, MmuInv, MmuTypeOK

\* A store to memory changes the address space, or another table only.
LEMMA StoreChanges ==
    ASSUME MmuInv', NEW m, StoreTables(m), UNCHANGED ttbr0
    PROVE  Space!Change
<1>1. tables'[ttbr0'] \in [Sections -> Space!Descriptors]
  BY DEF MmuInv, MmuTypeOK
<1>. QED
  BY <1>1 DEF StoreTables, Space!Change

\* An access of the CPU is one to the address space.
LEMMA AccessImplemented ==
    ASSUME MmuInv, MmuInv', NEW s \in Sections, NEW access \in Space!Accesses,
           NEW privileged \in BOOLEAN, CpuAccess(s, access, privileged)
    PROVE  Space!Access(s, access, privileged)
<1>1. \/ /\ control.mmu
         /\ \E d \in late[s] : result' = Space!Outcome(d, dacr, access, privileged)
      \/ ~control.mmu /\ result' = Space!Flat
  <2>1. Entry(s) \in late[s]
    BY EntryInHistory
  <2>. QED
    BY <2>1 DEF CpuAccess, Translate
<1>2. \/ access = "Write" /\ result' \notin Space!Faults /\ Space!Change
      \/ UNCHANGED <<tables[ttbr0], late>>
  BY StoreChanges DEF CpuAccess
<1>. QED
  BY <1>1, <1>2 DEF Space!Access, CpuAccess

\* Every step is one of the address space, or invisible to it.
LEMMA SpaceStepImplemented ==
    MmuInv /\ MmuInv' /\ [MmuNext]_mmuVars => [Space!SpaceNext]_(Space!spaceVars)
<1>. SUFFICES ASSUME MmuInv, MmuInv', [MmuNext]_mmuVars
              PROVE  [Space!SpaceNext]_(Space!spaceVars)
  OBVIOUS
<1>0. ttbr0 \in Tables /\ ttbr0' \in Tables
  BY DEF MmuInv, MmuTypeOK
<1>1. ASSUME NEW new \in Controls, WriteControl(new)
      PROVE  Space!Renew \/ UNCHANGED Space!spaceVars
  BY <1>0, <1>1, FlushRenews DEF WriteControl, Space!spaceVars
<1>2. ASSUME NEW t \in Tables, WriteTtbr0(t)
      PROVE  Space!Renew
  BY <1>2, FlushRenews DEF WriteTtbr0
<1>3. ASSUME NEW modes, WriteDacr(modes)
      PROVE  Space!Renew
  BY <1>0, <1>3, FlushRenews DEF WriteDacr
<1>4. CASE InvalidateTlb
  <2>1. Space!Renew
    BY <1>0, <1>4, FlushRenews DEF InvalidateTlb
  <2>. QED
    BY <2>1 DEF Space!SpaceNext
<1>5. CASE DmaStore \/ FailedLoad
  <2>1. Space!Write
    BY <1>5, StoreChanges DEF DmaStore, FailedLoad, Space!Write
  <2>. QED
    BY <2>1 DEF Space!SpaceNext
<1>6. CASE Reset
  <2>1. Space!Renew
    BY <1>0, <1>6, FlushRenews DEF Reset
  <2>. QED
    BY <2>1 DEF Space!SpaceNext
<1>7. ASSUME NEW s \in Sections, NEW access \in Space!Accesses, NEW privileged \in BOOLEAN,
             CpuAccess(s, access, privileged)
      PROVE  Space!SpaceNext
  BY <1>7, AccessImplemented DEF Space!SpaceNext
<1>8. CASE UNCHANGED mmuVars
  BY <1>8 DEF mmuVars, Space!spaceVars
<1>. QED
  BY <1>1, <1>2, <1>3, <1>4, <1>5, <1>6, <1>7, <1>8 DEF MmuNext, Space!SpaceNext

\* The MMU with its TLB implements the address space without one: an access,
\* cached or not, is decided by the current table up to the last flush.
THEOREM MmuImplementsAddressSpace == MmuSpec => ImplementsAddressSpace
<1>. QED
  BY SpaceInitImplemented, SpaceStepImplemented, MmuInvInit, MmuInvStep, PTL
  DEF MmuSpec, ImplementsAddressSpace, Space!SpaceSpec

=============================================================================
