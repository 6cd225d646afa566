------------------------- MODULE MCRiscvRelocate -------------------------
(***************************************************************************)
(* Small instances of RiscvRelocate for TLC.  Widths are scaled down so   *)
(* that every boundary of the code is reachable with small numbers: u64   *)
(* becomes 8 bits, u32 6 bits (a 2-bit lo12 and a 4-bit hi20), u16 4     *)
(* bits.  The auipc range [-2^31-2^11, 2^31-2^11) becomes [-34, 30).       *)
(* The section sits at 16 with instruction slots at 16, 20 and 24.        *)
(***************************************************************************)
EXTENDS RiscvRelocate

MC_XLEN == 8
MC_W32 == 6
MC_W16 == 4
MC_LO == 2
MC_HI == 4
MC_BranchBits == 4
MC_JalBits == 5
MC_RvcBranchBits == 3
MC_RvcJumpBits == 4
MC_SecAddr == 16
MC_Offsets == {0, 4}
MC_NumSyms == 2

\* PC-relative pairs.  16 and 20 are the labels of the two slots; 43 is in
\* auipc range of both (offsets 27 and 23, whose lo part rounds up); 130 is
\* -126 as i64, out of range, and its offset from a slot overflows i64.
\* The addend -120 makes S+A overflow i64 for 130.
PcrelTypes == {R_RISCV_PCREL_HI20, R_RISCV_PCREL_LO12_I, R_RISCV_CALL,
               R_RISCV_GOT_HI20, 57}
PcrelSymValues == {16, 20, 43, 130}
PcrelAddends == {0, -120}
\* index 2 is past the end of the symbol table
PcrelSymIdx == {0, 1, 2}
\* Absolute lui/addi pairs and 32/64-bit data words.  7 has its lo part
\* rounding up; 30 is 30 as i32, so 30 + 0x800 overflows i32; 255 + 0x800
\* overflows u64; 100 does not fit u32.
AbsTypes == {R_RISCV_HI20, R_RISCV_LO12_I, R_RISCV_LO12_S, R_RISCV_32,
             R_RISCV_64}
AbsSymValues == {7, 30, 100, 255}
AbsAddends == {0, 1}

\* Label arithmetic and the kinds that write nothing, on one slot, over a
\* word that holds 0 or 77 before relocation.
DataTypes == {R_RISCV_ADD16, R_RISCV_ADD32, R_RISCV_ADD64, R_RISCV_SUB16,
              R_RISCV_SUB32, R_RISCV_SUB64, R_RISCV_SUB8, R_RISCV_RELAX,
              R_RISCV_ALIGN, R_RISCV_NONE}
DataSymValues == {5, 200}

\* Branches and jumps (immediates of 4, 5, 3 and 4 bits: reaches [-8, 8),
\* [-16, 16), [-4, 4) and [-8, 8)).  From the slots at 16 and 20 the values
\* give offsets -8, 0, 6, 18 and -12, -4, 2, 14: the lowest and highest
\* even offsets of the B, J and CB reaches and the first ones beyond them;
\* 130 is -126 as i64, whose offset from a slot overflows i64.
BranchTypes == {R_RISCV_BRANCH, R_RISCV_JAL, R_RISCV_RVC_BRANCH,
                R_RISCV_RVC_JUMP, R_RISCV_CALL_PLT}
BranchSymValues == {8, 16, 22, 34, 130}
=============================================================================
