------------------------------ MODULE RelaDecode ------------------------------
(***************************************************************************)
(* The first steps of RISC-V apply_relocate_add                            *)
(* (src/kmod-loader/src/arch/riscv64.rs, 446-459): the relocation section   *)
(* is sliced out of the ELF bytes and viewed as Elf64_Rela records by       *)
(* goblin's from_raw_rela, which makes sh_size / 24 records at a 24-byte    *)
(* stride.  The section's own stride, sh_entsize, is only checked by a      *)
(* debug_assert!: a debug build panics on a wrong stride, a release build   *)
(* goes on with the records it gets.                                        *)
(*                                                                         *)
(* Data abstraction: the section holds entries 0, 1, ... of sh_entsize      *)
(* bytes each; a decoded record is the entry it starts on when it lines up  *)
(* with one entry exactly, and Straddle otherwise.                          *)
(***************************************************************************)
EXTENDS Naturals, Sequences

CONSTANTS
    RelaSize,   \* size_of::<Elf64_Rela>() = 24, the stride from_raw_rela uses
    EntSizes,   \* sh_entsize values of the sections to try
    Sizes,      \* sh_size values
    Offsets,    \* sh_offset values
    ElfLen,     \* elf_data.len()
    Straddle    \* a record that does not line up with one entry

VARIABLES
    sec,        \* the relocation section header: [entsize, offset, size]
    checked,    \* TRUE for a build with debug assertions
    status,     \* "start", "decoded", "panic"
    rela_list   \* the records the loop will iterate over

vars == <<sec, checked, status, rela_list>>

\* record k (from 0) of from_raw_rela, read at byte k * RelaSize: entry k
\* when the section's stride is the record's, else bytes of two entries
RecordAt(k) == IF sec.entsize = RelaSize THEN k ELSE Straddle

Init ==
    /\ sec \in [entsize : EntSizes, offset : Offsets, size : Sizes]
    /\ checked \in BOOLEAN
    /\ status = "start"
    /\ rela_list = <<>>

\* debug_assert!(sh_entsize == 24): a panic only in a build that checks it
EntsizeAssert ==
    /\ status = "start"
    /\ checked /\ sec.entsize # RelaSize
    /\ status' = "panic"
    /\ UNCHANGED <<sec, checked, rela_list>>

\* &data[offset..offset + sh_size]: out of the file's bytes, a panic
SliceOutOfBounds ==
    /\ status = "start"
    /\ ~checked \/ sec.entsize = RelaSize
    /\ sec.offset + sec.size > ElfLen
    /\ status' = "panic"
    /\ UNCHANGED <<sec, checked, rela_list>>

\* from_raw_rela(ptr, sh_size): sh_size / 24 records at a 24-byte stride
Decode ==
    /\ status = "start"
    /\ ~checked \/ sec.entsize = RelaSize
    /\ sec.offset + sec.size <= ElfLen
    /\ rela_list' = [k \in 1..(sec.size \div RelaSize) |-> RecordAt(k - 1)]
    /\ status' = "decoded"
    /\ UNCHANGED <<sec, checked>>

Next == EntsizeAssert \/ SliceOutOfBounds \/ Decode

Spec == Init /\ [][Next]_vars

\* spec.md 4.C (1) and 7: a section whose declared entry size is not 24
\* bytes is rejected with RelocationFailed before any entry is used; the
\* code neither returns an error nor, in a release build, stops at all.
EntsizeRejected ==
    sec.entsize # RelaSize /\ status # "start" => status = "err"

=============================================================================
