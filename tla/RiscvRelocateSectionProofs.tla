--------------------- MODULE RiscvRelocateSectionProofs ---------------------
(***************************************************************************)
(* The RISC-V driver implements the abstract section of RelocateSection    *)
(* under the mapping of RiscvRelocate!Section (done <- i - 1, result <-    *)
(* status): the safety part, for every width and input the assumptions     *)
(* allow.  Its liveness part, the section ends, is checked by TLC only.    *)
(***************************************************************************)
EXTENDS RiscvRelocateCallProofs

\* the loop starts as the abstract section does, with nothing applied
LEMMA SectionInit ==
    ASSUME Init
    PROVE  Section!Init
BY DEF Init, Section!Init

\* an entry that succeeds is an abstract Patch of that entry
LEMMA SectionPatch ==
    ASSUME TypeOK, TypeOK', ApplyRela,
           i' = i + 1, status' = status,
           \A c \in Addr \ Writes(relas[i]) : mem'[c] = mem[c]
    PROVE  Section!Patch
<1>1. i \in Nat /\ i <= Len(relas) /\ status = "running" BY DEF TypeOK, ApplyRela
<1>2. UNCHANGED <<relas, syms, checked>> BY DEF ApplyRela
<1>3. DOMAIN mem' = DOMAIN mem BY DEF TypeOK
<1>4. (i - 1) + 1 = i /\ i - 1 < Len(relas) /\ i' - 1 = (i - 1) + 1 BY <1>1
<1>5. DOMAIN mem = Addr BY DEF TypeOK
<1>. QED BY <1>1, <1>2, <1>3, <1>4, <1>5 DEF Section!Patch

\* an entry that fails is an abstract Abort
LEMMA SectionAbort ==
    ASSUME TypeOK, ApplyRela,
           i' = i, mem' = mem, status' \in {"err", "panic"}
    PROVE  Section!Abort
<1>1. i \in Nat /\ i <= Len(relas) /\ status = "running" BY DEF TypeOK, ApplyRela
<1>2. UNCHANGED <<relas, syms, checked>> BY DEF ApplyRela
<1>. QED BY <1>1, <1>2 DEF Section!Abort

\* returning Ok(()) is an abstract Complete: every entry has been applied
LEMMA SectionComplete ==
    ASSUME TypeOK, Finish
    PROVE  Section!Complete
<1>1. i \in 1..(Len(relas) + 1) /\ Len(relas) \in Nat BY RelasFacts DEF TypeOK
<1>2. i - 1 = Len(relas) BY <1>1 DEF Finish
<1>. QED BY <1>2 DEF Finish, Section!Complete

(***************************************************************************)
(* The driver implements the abstract section: every run of                *)
(* apply_relocate_add, seen through done <- i - 1 and result <- status, is *)
(* a run of RelocateSection.  Entries take effect one at a time in the     *)
(* section's order, each on the cells Writes names for it; the entry that  *)
(* returns Err or panics has written nothing, and those before it stay     *)
(* applied; Ok comes only after the last entry.                            *)
(***************************************************************************)
THEOREM SectionRefinement == Spec => Section!SafeSpec
<1>1. Init => Section!Init BY SectionInit
<1>2. TypeOK /\ TypeOK' /\ [Next]_vars => [Section!Next]_Section!avars
  <2>1. SUFFICES ASSUME TypeOK, TypeOK', [Next]_vars
                 PROVE  [Section!Next]_Section!avars
    OBVIOUS
  <2>2. CASE ApplyRela
    <3>1. StepWithin(Writes(relas[i])) BY <2>1, <2>2, ApplyRelaWithin
    <3>2. CASE /\ i' = i + 1 /\ status' = status
               /\ \A c \in Addr \ Writes(relas[i]) : mem'[c] = mem[c]
      BY <2>1, <2>2, <3>2, SectionPatch DEF Section!Next
    <3>3. CASE i' = i /\ mem' = mem /\ status' \in {"err", "panic"}
      BY <2>1, <2>2, <3>3, SectionAbort DEF Section!Next
    <3>. QED BY <3>1, <3>2, <3>3 DEF StepWithin
  <2>3. CASE Finish BY <2>1, <2>3, SectionComplete DEF Section!Next
  <2>4. CASE UNCHANGED vars BY <2>4 DEF vars, Section!avars
  <2>. QED BY <2>1, <2>2, <2>3, <2>4 DEF Next
<1>. QED BY <1>1, <1>2, TypeCorrect, PTL DEF Spec, Section!SafeSpec

=============================================================================
