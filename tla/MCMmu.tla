------------------------------- MODULE MCMmu -------------------------------
(***************************************************************************)
(* A small instance of Mmu: two sections, two tables, one domain.  One     *)
(* descriptor is for everybody but read-only, one for the kernel only and  *)
(* not executable; they lead to different frames.                          *)
(***************************************************************************)
EXTENDS Mmu, TLC

Descriptor(frame, domain, ap, apx, xn) ==
    [frame |-> frame, domain |-> domain, ap |-> ap, apx |-> apx, xn |-> xn]

TwoDescriptors ==
    {Descriptor("f1", "d0", 3, TRUE, FALSE), Descriptor("f2", "d0", 1, FALSE, TRUE)}

OffOrOn == {Off, [Off EXCEPT !.mmu = TRUE]}

\* Memory is cleared, or the image brings a table that maps everything.
TwoImages ==
    {[t \in Tables |-> NoEntries]}
    \cup {[t \in Tables |-> [s \in Sections |-> Descriptor("f1", "d0", 3, TRUE, FALSE)]]}

SectionSymmetry == Permutations(Sections)

=============================================================================
