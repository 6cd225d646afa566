--------------------------- MODULE RiscvRelocate ---------------------------
(***************************************************************************)
(* The RISC-V relocation driver of kmod-loader: one call of               *)
(* Riscv64ArchRelocate::apply_relocate_add over one relocation section,   *)
(* together with every per-kind handler Riscv64RelocationType dispatches  *)
(* to in apply_relocation (src/kmod-loader/src/arch/riscv64.rs).          *)
(*                                                                         *)
(* Data abstraction.                                                       *)
(*  - Integer widths are constants: XLEN is u64/i64 (64 in the code), W32  *)
(*    is u32/i32 (32), W16 is u16 (16), LO and HI are the 12- and 20-bit  *)
(*    halves of an auipc/lui + addi/jalr pair, and the *Bits constants are *)
(*    the offset widths of the B, J, CB and CJ formats (13, 21, 9, 12).    *)
(*    Every arithmetic step keeps its width by wrapping (% 2^w).           *)
(*  - Module memory is a map from patch locations to cells.  A cell that  *)
(*    a data relocation patches holds the data word; a cell holding an    *)
(*    instruction holds the value of the immediate field the relocation   *)
(*    writes (the scatter of that field over the 32-bit encoding is the   *)
(*    codec's business and is left out here: opcode and register bits are *)
(*    never written).                                                      *)
(*  - Rust integer overflow is decided by the build: with overflow checks *)
(*    (debug) it panics, without them (release) it wraps.  `checked` is    *)
(*    chosen once, in Init.  A debug_assert! is modelled the same way.     *)
(***************************************************************************)
EXTENDS Integers, Sequences, FiniteSets

CONSTANTS
    XLEN, W32, W16,          \* u64, u32, u16
    LO, HI,                  \* 12 and 20: the lo12/hi20 split of an auipc pair
    BranchBits, JalBits,     \* 13 and 21: offset bits of the B and J formats
    RvcBranchBits, RvcJumpBits, \* 9 and 12: offset bits of the CB and CJ formats
    SecAddr,                 \* sh_addr of the section the relocations patch
    Offsets,                 \* r_offset values an entry may carry
    Types,                   \* raw relocation type numbers an entry may carry
    SymIdx,                  \* symbol indices an entry may carry
    Addends,                 \* r_addend values an entry may carry
    NumSyms,                 \* load_info.syms.len()
    SymValues,               \* st_value values a symbol may have
    InitWords,               \* values a cell may hold before relocation
    MaxRelas                 \* largest number of entries in the section

ASSUME WidthAssumption ==
    /\ LO \in Nat \ {0} /\ HI \in Nat \ {0}
    /\ W32 = LO + HI
    /\ W16 \in Nat \ {0} /\ W16 < W32 /\ W32 < XLEN /\ XLEN \in Nat
    /\ {BranchBits, JalBits, RvcBranchBits, RvcJumpBits} \subseteq 2..W32

\* Arithmetic of the powers of two up to 2^XLEN: 2^b = 2^a * 2^(b-a).
\* A fact of arithmetic that the provers do not derive for a symbolic
\* exponent; TLC evaluates it for the widths of every instance.
ASSUME PowerAssumption ==
    \A a, b \in 0..XLEN : a <= b => /\ 2^a \in Nat \ {0}
                                   /\ 2^b = 2^a * 2^(b - a)

ASSUME InputAssumption ==
    /\ NumSyms \in Nat /\ MaxRelas \in Nat
    /\ SecAddr \in Nat /\ Offsets \subseteq Nat
    /\ \A o \in Offsets : SecAddr + o + 4 < 2^XLEN
    /\ Types \subseteq 0..(2^W32 - 1)
    /\ SymIdx \subseteq Nat
    /\ Addends \subseteq -(2^(XLEN-1))..(2^(XLEN-1) - 1)
    /\ SymValues \subseteq 0..(2^XLEN - 1)
    /\ InitWords \subseteq 0..(2^XLEN - 1)

(***************************************************************************)
(* Two's-complement helpers.                                               *)
(***************************************************************************)
Word(w) == 0..(2^w - 1)
\* `x as uW`: the low w bits of x
U(x, w) == x % 2^w
\* `x as iW`: the low w bits of x read as a signed number
S(x, w) == IF U(x, w) >= 2^(w-1) THEN U(x, w) - 2^w ELSE U(x, w)
\* x is representable as an iW
FitsI(x, w) == -(2^(w-1)) <= x /\ x < 2^(w-1)
\* (x >> lo) & (2^n - 1), for x in two's complement
Field(x, lo, n) == (x \div 2^lo) % 2^n
\* 0x800: the rounding bias of a hi20
Bias == 2^(LO-1)

(***************************************************************************)
(* Riscv64RelocationType: the discriminants this model names, and the     *)
(* set try_from accepts.                                                   *)
(***************************************************************************)
R_RISCV_NONE == 0
R_RISCV_32 == 1
R_RISCV_64 == 2
R_RISCV_BRANCH == 16
R_RISCV_JAL == 17
R_RISCV_CALL == 18
R_RISCV_CALL_PLT == 19
R_RISCV_GOT_HI20 == 20
R_RISCV_PCREL_HI20 == 23
R_RISCV_PCREL_LO12_I == 24
R_RISCV_PCREL_LO12_S == 25
R_RISCV_HI20 == 26
R_RISCV_LO12_I == 27
R_RISCV_LO12_S == 28
R_RISCV_ADD16 == 34
R_RISCV_ADD32 == 35
R_RISCV_ADD64 == 36
R_RISCV_SUB8 == 37
R_RISCV_SUB16 == 38
R_RISCV_SUB32 == 39
R_RISCV_SUB64 == 40
R_RISCV_ALIGN == 43
R_RISCV_RVC_BRANCH == 44
R_RISCV_RVC_JUMP == 45
R_RISCV_RELAX == 51

KnownTypes == (0..11) \cup (16..56)

PcrelLo12Types == {R_RISCV_PCREL_LO12_I, R_RISCV_PCREL_LO12_S}

VARIABLES
    mem,      \* module memory: patch location -> cell
    i,        \* index of the entry the loop is at (1-based)
    status,   \* "running", or the function's result: "ok", "err", "panic"
    relas,    \* the section's Elf64_Rela entries
    syms,     \* load_info.syms: index -> st_value
    checked   \* the build traps on integer overflow

vars == <<mem, i, status, relas, syms, checked>>

Rela == [offset : Offsets, type : Types, sym : SymIdx, addend : Addends]

Addr == {SecAddr + o : o \in Offsets} \cup {SecAddr + o + 4 : o \in Offsets}

\* sechdrs[rel_section.sh_info].sh_addr + rela.r_offset
Location(r) == SecAddr + r.offset

\* checked arithmetic: the result x of a w-bit operation traps
Traps(x, w) == checked /\ ~FitsI(x, w)

\* an unsigned w-bit subtraction a - b traps
UTraps(a, b) == checked /\ a < b

(***************************************************************************)
(* How one entry ends: it succeeds, patching memory to m and moving the   *)
(* loop on, or the whole function returns s ("err" for Err(..), "panic"   *)
(* for a panic) with nothing more written.                                 *)
(***************************************************************************)
Succeed(m) == mem' = m /\ i' = i + 1 /\ UNCHANGED status
Fail(s) == status' = s /\ UNCHANGED <<mem, i>>

\* location.write::<T>(v): the whole cell for an instruction or a u64, the
\* low w bits of the cell for a narrower data word (little endian)
Set(loc, v) == [mem EXCEPT ![loc] = v]
SetLow(loc, v, w) == [mem EXCEPT ![loc] = (mem[loc] - U(mem[loc], w)) + v]

\* `address as i64 - location.0 as i64`, before wrapping
PcOffsetRaw(loc, addr) == S(addr, XLEN) - S(loc, XLEN)

\* riscv_insn_valid_32bit_offset: [-2^31 - 2^11, 2^31 - 2^11)
riscv_insn_valid_32bit_offset(offset) ==
    -(2^(W32-1)) - Bias <= offset /\ offset < 2^(W32-1) - Bias

\* mutant: hi20 without the +0x800 rounding bias
Hi20FieldNoBias(offset) == Field(offset, LO, HI)

\* the hi20 field of an auipc/lui: ((offset + 0x800) & 0xfffff000) as u32
Hi20Field(offset) == Field(offset + Bias, LO, HI)

(***************************************************************************)
(* The per-kind handlers (apply_r_riscv_*_rela).                           *)
(***************************************************************************)
apply_r_riscv_32_rela(loc, addr) ==
    \/ addr # U(addr, W32) /\ Fail("err")
    \/ addr = U(addr, W32) /\ Succeed(SetLow(loc, addr, W32))

apply_r_riscv_64_rela(loc, addr) == Succeed(Set(loc, addr))

\* mutant: the sign bit imm[n-1] left out of the splice
apply_r_riscv_pc_splice_nosign(loc, addr, n) ==
    LET raw == PcOffsetRaw(loc, addr) IN
    \/ Traps(raw, XLEN) /\ Fail("panic")
    \/ ~Traps(raw, XLEN) /\ Succeed(Set(loc, Field(S(raw, XLEN), 1, n - 2)))

\* BRANCH, JAL, RVC_BRANCH and RVC_JUMP: offset bits n-1..1 spliced into
\* the instruction, with no range check
apply_r_riscv_pc_splice_rela(loc, addr, n) ==
    LET raw == PcOffsetRaw(loc, addr) IN
    \/ Traps(raw, XLEN) /\ Fail("panic")
    \/ ~Traps(raw, XLEN) /\ Succeed(Set(loc, Field(S(raw, XLEN), 1, n - 1)))

apply_r_riscv_pcrel_hi20_rela(loc, addr) ==
    LET raw == PcOffsetRaw(loc, addr)
        offset == S(raw, XLEN)
    IN
    \/ Traps(raw, XLEN) /\ Fail("panic")
    \/ ~Traps(raw, XLEN) /\ ~riscv_insn_valid_32bit_offset(offset) /\ Fail("err")
    \/ /\ ~Traps(raw, XLEN) /\ riscv_insn_valid_32bit_offset(offset)
       /\ Succeed(Set(loc, Hi20Field(offset)))

\* mutant: the signed lo12 stored without `& 0xfff`
apply_r_riscv_pcrel_lo12_unmasked(loc, addr) == Succeed(Set(loc, S(addr, LO)))

\* PCREL_LO12_I and PCREL_LO12_S: address is the lo12 the driver computed
apply_r_riscv_pcrel_lo12_rela(loc, addr) == Succeed(Set(loc, U(addr, LO)))

\* mutant: absolute hi20 without the +0x800 rounding bias
apply_r_riscv_hi20_nobias(loc, addr) == Succeed(Set(loc, Field(addr, LO, HI)))

apply_r_riscv_hi20_rela(loc, addr) ==
    LET raw == addr + Bias IN          \* u64 addition
    \/ checked /\ raw >= 2^XLEN /\ Fail("panic")
    \/ ~(checked /\ raw >= 2^XLEN) /\ Succeed(Set(loc, Field(U(raw, XLEN), LO, HI)))

\* LO12_I and LO12_S: lo12 of `address as i32`, rounding as HI20 does
apply_r_riscv_lo12_rela(loc, addr) ==
    LET a == S(addr, W32)
        raw == a + Bias                \* i32 addition
        hi20 == (S(raw, W32) \div 2^LO) * 2^LO   \* & (0xfffff000_u32 as i32)
    IN
    \/ Traps(raw, W32) /\ Fail("panic")
    \/ ~Traps(raw, W32) /\ Succeed(Set(loc, U(S(a - hi20, W32), LO)))

\* mutant: the auipc's hi20 written without the +0x800 bias
apply_r_riscv_call_nobias(loc, addr) ==
    LET raw == PcOffsetRaw(loc, addr)
        offset == S(raw, XLEN)
    IN
    \/ Traps(raw, XLEN) /\ Fail("panic")
    \/ ~Traps(raw, XLEN) /\ ~riscv_insn_valid_32bit_offset(offset) /\ Fail("err")
    \/ /\ ~Traps(raw, XLEN) /\ riscv_insn_valid_32bit_offset(offset)
       /\ Succeed([mem EXCEPT ![loc] = Hi20FieldNoBias(offset),
                              ![loc + 4] = U(offset - Hi20Field(offset) * 2^LO, LO)])

\* mutant: the auipc patched before the range check, then Err
apply_r_riscv_call_early_write(loc, addr) ==
    LET raw == PcOffsetRaw(loc, addr)
        offset == S(raw, XLEN)
        hi20 == Hi20Field(offset) * 2^LO
    IN
    \/ Traps(raw, XLEN) /\ Fail("panic")
    \/ /\ ~Traps(raw, XLEN) /\ ~riscv_insn_valid_32bit_offset(offset)
       /\ mem' = [mem EXCEPT ![loc] = Hi20Field(offset)]
       /\ status' = "err" /\ UNCHANGED i
    \/ /\ ~Traps(raw, XLEN) /\ riscv_insn_valid_32bit_offset(offset)
       /\ Succeed([mem EXCEPT ![loc] = Hi20Field(offset),
                              ![loc + 4] = U(offset - hi20, LO)])

\* CALL and CALL_PLT: auipc at loc, jalr at loc + 4
apply_r_riscv_call_rela(loc, addr) ==
    LET raw == PcOffsetRaw(loc, addr)
        offset == S(raw, XLEN)
        hi20 == Hi20Field(offset) * 2^LO
    IN
    \/ Traps(raw, XLEN) /\ Fail("panic")
    \/ ~Traps(raw, XLEN) /\ ~riscv_insn_valid_32bit_offset(offset) /\ Fail("err")
    \/ /\ ~Traps(raw, XLEN) /\ riscv_insn_valid_32bit_offset(offset)
       /\ Succeed([mem EXCEPT ![loc] = Hi20Field(offset),
                              ![loc + 4] = U(offset - hi20, LO)])

\* ADD16/32/64 store the value (they do not add it to the word)
apply_r_riscv_add_rela(loc, addr, w) == Succeed(SetLow(loc, U(addr, w), w))

\* mutant: SUB with its operands swapped
apply_r_riscv_sub_swapped(loc, addr, w) ==
    LET value == U(mem[loc], w) IN
    \/ UTraps(value, U(addr, w)) /\ Fail("panic")
    \/ ~UTraps(value, U(addr, w)) /\ Succeed(SetLow(loc, U(U(addr, w) - value, w), w))

\* SUB16/32/64: the word minus the value, in unsigned w-bit arithmetic
apply_r_riscv_sub_rela(loc, addr, w) ==
    LET value == U(mem[loc], w) IN
    \/ UTraps(value, U(addr, w)) /\ Fail("panic")
    \/ ~UTraps(value, U(addr, w)) /\ Succeed(SetLow(loc, U(value - U(addr, w), w), w))

\* Riscv64RelocationType::apply_relocation
apply_relocation(k, loc, addr) ==
    CASE k = R_RISCV_32 -> apply_r_riscv_32_rela(loc, addr)
      [] k = R_RISCV_64 -> apply_r_riscv_64_rela(loc, addr)
      [] k = R_RISCV_BRANCH -> apply_r_riscv_pc_splice_rela(loc, addr, BranchBits)
      [] k = R_RISCV_JAL -> apply_r_riscv_pc_splice_rela(loc, addr, JalBits)
      [] k = R_RISCV_RVC_BRANCH -> apply_r_riscv_pc_splice_rela(loc, addr, RvcBranchBits)
      [] k = R_RISCV_RVC_JUMP -> apply_r_riscv_pc_splice_rela(loc, addr, RvcJumpBits)
      [] k = R_RISCV_PCREL_HI20 -> apply_r_riscv_pcrel_hi20_rela(loc, addr)
      [] k \in PcrelLo12Types -> apply_r_riscv_pcrel_lo12_rela(loc, addr)
      [] k = R_RISCV_HI20 -> apply_r_riscv_hi20_rela(loc, addr)
      [] k \in {R_RISCV_LO12_I, R_RISCV_LO12_S} -> apply_r_riscv_lo12_rela(loc, addr)
      [] k \in {R_RISCV_CALL, R_RISCV_CALL_PLT} -> apply_r_riscv_call_rela(loc, addr)
      [] k = R_RISCV_RELAX -> Succeed(mem)
      [] k = R_RISCV_ALIGN -> Fail("err")
      [] k = R_RISCV_ADD16 -> apply_r_riscv_add_rela(loc, addr, W16)
      [] k = R_RISCV_ADD32 -> apply_r_riscv_add_rela(loc, addr, W32)
      [] k = R_RISCV_ADD64 -> apply_r_riscv_add_rela(loc, addr, XLEN)
      [] k = R_RISCV_SUB16 -> apply_r_riscv_sub_rela(loc, addr, W16)
      [] k = R_RISCV_SUB32 -> apply_r_riscv_sub_rela(loc, addr, W32)
      [] k = R_RISCV_SUB64 -> apply_r_riscv_sub_rela(loc, addr, XLEN)
      \* GOT_HI20 and every other kind: unimplemented!()
      [] OTHER -> Fail("panic")

(***************************************************************************)
(* The driver, Riscv64ArchRelocate::apply_relocate_add.                    *)
(***************************************************************************)
SymValue(r) == syms[r.sym]

\* `sym.st_value as i64 + rela.r_addend`, before wrapping
TargetRaw(r) == S(SymValue(r), XLEN) + r.addend

\* inner_rela is the HI20 a PCREL_LO12 whose symbol has value v refers to
IsPairedHi20(j, v) ==
    /\ Location(relas[j]) = v
    /\ relas[j].type \in {R_RISCV_PCREL_HI20, R_RISCV_GOT_HI20}

\* the entries at which the inner scan stops: an unknown type returns Err
\* through `?`, a paired HI20 breaks out of the loop
ScanStops(v) ==
    {j \in 1..Len(relas) : relas[j].type \notin KnownTypes \/ IsPairedHi20(j, v)}

\* lo12 of the paired HI20 entry j: the value passed to the LO12 handler,
\* with the raw (unwrapped) results of the four i64 operations on the way
PairArith(j) ==
    LET h == relas[j]
        hiValRaw == S(syms[h.sym], XLEN) + h.addend
        offRaw == S(hiValRaw, XLEN) - S(Location(h), XLEN)
        offset == S(offRaw, XLEN)
        biasRaw == offset + Bias
        hi_20 == Field(S(biasRaw, XLEN), LO, HI) * 2^LO   \* & 0xfffff000
        loRaw == offset - hi_20
    IN  [raws |-> {hiValRaw, offRaw, biasRaw, loRaw}, lo_12 |-> S(loRaw, XLEN)]

PairTraps(j) ==
    relas[j].sym \in DOMAIN syms /\ \E x \in PairArith(j).raws : Traps(x, XLEN)

\* the PCREL_LO12 branch of the loop body: scan for the HI20, stopping at
\* the first entry j of ScanStops, then apply r with target_addr replaced
\* by that HI20's lo12
ResolvePcrelLo12(r) ==
    LET v == SymValue(r) IN
    \/ ScanStops(v) = {} /\ Fail("err")       \* Missing HI20 relocation for LO12
    \/ \E j \in ScanStops(v) :
         LET h == relas[j] IN
         /\ \A k \in ScanStops(v) : j <= k
         /\ \/ h.type \notin KnownTypes /\ Fail("err")
            \/ /\ h.type \in KnownTypes
               /\ \/ h.sym \notin DOMAIN syms     \* load_info.syms[..] out of bounds
                  \/ PairTraps(j)
                  \/ h.type = R_RISCV_GOT_HI20    \* unimplemented!
               /\ Fail("panic")
            \/ /\ h.type \in KnownTypes
               /\ h.sym \in DOMAIN syms /\ ~PairTraps(j) /\ h.type # R_RISCV_GOT_HI20
               /\ apply_relocation(r.type, Location(r), U(PairArith(j).lo_12, XLEN))

\* one iteration of `for rela in rela_list`
ApplyRela ==
    /\ status = "running"
    /\ i <= Len(relas)
    /\ LET r == relas[i] IN
       \/ r.sym \notin DOMAIN syms /\ Fail("panic")
       \/ r.sym \in DOMAIN syms /\ r.type \notin KnownTypes /\ Fail("err")
       \/ /\ r.sym \in DOMAIN syms /\ r.type \in KnownTypes
          /\ Traps(TargetRaw(r), XLEN) /\ Fail("panic")
       \/ /\ r.sym \in DOMAIN syms /\ r.type \in KnownTypes
          /\ ~Traps(TargetRaw(r), XLEN)
          /\ r.type \notin PcrelLo12Types
          /\ apply_relocation(r.type, Location(r), U(TargetRaw(r), XLEN))
       \/ /\ r.sym \in DOMAIN syms /\ r.type \in KnownTypes
          /\ ~Traps(TargetRaw(r), XLEN)
          /\ r.type \in PcrelLo12Types
          /\ ResolvePcrelLo12(r)
    /\ UNCHANGED <<relas, syms, checked>>

\* the loop has run out of entries: Ok(())
Finish ==
    /\ status = "running"
    /\ i > Len(relas)
    /\ status' = "ok"
    /\ UNCHANGED <<mem, i, relas, syms, checked>>

\* a relocation section as the object file may hold it, the symbol table
\* after the loader has fixed up st_value, memory after the section copy
Init ==
    /\ relas \in UNION {[1..n -> Rela] : n \in 0..MaxRelas}
    /\ syms \in [0..(NumSyms - 1) -> SymValues]
    /\ mem \in [Addr -> InitWords]
    /\ checked \in BOOLEAN
    /\ i = 1
    /\ status = "running"

Next == ApplyRela \/ Finish

\* the loop runs on one thread without blocking: it is never starved
Spec == Init /\ [][Next]_vars /\ WF_vars(Next)

(***************************************************************************)
(* Properties.                                                             *)
(***************************************************************************)
\* Type invariant.
TypeOK ==
    /\ relas \in UNION {[1..n -> Rela] : n \in 0..MaxRelas}
    /\ syms \in [0..(NumSyms - 1) -> SymValues]
    /\ mem \in [Addr -> Word(XLEN)]
    /\ i \in 1..(Len(relas) + 1)
    /\ status \in {"running", "ok", "err", "panic"}
    /\ checked \in BOOLEAN

\* entry j has been applied: the loop has moved past it
Applied(j) == j < i

\* the cells entry r writes when it succeeds
Writes(r) ==
    IF r.type \in {R_RISCV_CALL, R_RISCV_CALL_PLT}
    THEN {Location(r), Location(r) + 4}
    ELSE IF r.type \in {R_RISCV_RELAX, R_RISCV_ALIGN} THEN {} ELSE {Location(r)}

\* The section as the abstract specification sees it: the loop has applied
\* i - 1 entries, its result is status, and an entry may patch the cells
\* Writes names.
Section == INSTANCE RelocateSection
               WITH cells <- mem, entries <- relas, done <- i - 1, result <- status,
                    WritesOf <- Writes

\* no entry of the section other than those in J writes a cell of C
Untouched(C, J) ==
    \A k \in (1..Len(relas)) \ J : Writes(relas[k]) \cap C = {}

\* what auipc (hi field h) and the addi/jalr/load/store after it (lo field
\* l) add to pc: sext32(h << 12) + sext12(l)
AuipcValue(h, l) == S(h * 2^LO, W32) + S(l, LO)

\* the PC-relative offset the handler of entry r works from
PcOffset(r) == S(PcOffsetRaw(Location(r), U(TargetRaw(r), XLEN)), XLEN)

(***************************************************************************)
(* A call reaches exactly its target.  After a CALL/CALL_PLT has been      *)
(* applied, its auipc at L and jalr at L+4 together add the whole offset   *)
(* S+A-L to pc: the rounding bias +0x800 in the hi20 must match the sign   *)
(* of the lo12 written next to it.  Only entries whose two cells no other  *)
(* entry writes count.                                                     *)
(***************************************************************************)
CallReassembles ==
    \A j \in 1..Len(relas) :
      LET r == relas[j] IN
      (/\ r.type \in {R_RISCV_CALL, R_RISCV_CALL_PLT}
       /\ Applied(j) /\ Untouched(Writes(r), {j}))
        => AuipcValue(mem[Location(r)], mem[Location(r) + 4]) = PcOffset(r)

(***************************************************************************)
(* A PC-relative auipc pair reaches exactly its target.  After a           *)
(* PCREL_LO12 has been applied and the PCREL_HI20 its symbol names has     *)
(* been applied too (in either order: the driver recomputes the HI20's     *)
(* offset in the pair search of apply_relocate_add), the hi20 written by   *)
(* the HI20 handler and the lo12 written through the pair search           *)
(* reassemble to the HI20's offset.                                        *)
(***************************************************************************)
PcrelPairsReassemble ==
    \A j, k \in 1..Len(relas) :
      LET lo == Location(relas[j])
          hi == Location(relas[k])
      IN  (/\ Applied(j) /\ Applied(k)
           /\ relas[j].type \in PcrelLo12Types
           /\ relas[k].type = R_RISCV_PCREL_HI20
           /\ hi = SymValue(relas[j])
           /\ lo # hi /\ Untouched({lo, hi}, {j, k}))
            => AuipcValue(mem[hi], mem[lo]) = PcOffset(relas[k])

(***************************************************************************)
(* An absolute lui/addi pair reaches its target modulo 2^32.  When a HI20 *)
(* and a LO12_I/LO12_S for the same S+A have both been applied, lui's     *)
(* hi20 (computed on the u64 address) and addi's lo12 (computed on the    *)
(* address truncated to i32) reassemble to the address's low 32 bits.     *)
(***************************************************************************)
AbsPairsReassemble ==
    \A j, k \in 1..Len(relas) :
      LET lo == Location(relas[j])
          hi == Location(relas[k])
      IN  (/\ Applied(j) /\ Applied(k)
           /\ relas[k].type = R_RISCV_HI20
           /\ relas[j].type \in {R_RISCV_LO12_I, R_RISCV_LO12_S}
           /\ TargetRaw(relas[j]) = TargetRaw(relas[k])
           /\ lo # hi /\ Untouched({lo, hi}, {j, k}))
            => U(AuipcValue(mem[hi], mem[lo]), W32) = U(TargetRaw(relas[k]), W32)

(***************************************************************************)
(* Label differences come out right.  The assembler encodes `.word A - B`  *)
(* as ADD32 A and SUB32 B at one location; once both have been applied,   *)
(* in that order and with no other entry on the word, the word holds       *)
(* (A - B) mod 2^32 whatever it held before, in a build that wraps and in  *)
(* one that traps alike (the latter may panic instead: then nothing is     *)
(* claimed).                                                               *)
(***************************************************************************)
LabelDifference ==
    \A j, k \in 1..Len(relas) :
      (/\ j < k
       /\ relas[j].type = R_RISCV_ADD32 /\ relas[k].type = R_RISCV_SUB32
       /\ Location(relas[j]) = Location(relas[k])
       /\ Applied(k) /\ Untouched({Location(relas[j])}, {j, k}))
        => U(mem[Location(relas[j])], W32)
             = U(TargetRaw(relas[j]) - TargetRaw(relas[k]), W32)

(***************************************************************************)
(* apply_relocate_add implements the abstract section (RelocateSection):   *)
(* entries take effect one at a time in the section's order, each on its   *)
(* own cells only; an entry that returns Err or panics has written         *)
(* nothing (every handler checks before it writes, the CALL handler before *)
(* either of its two writes), the entries before it stay applied, and the  *)
(* loop neither skips an entry nor stops short of the end without a        *)
(* result.                                                                 *)
(***************************************************************************)
ImplementsSection == Section!Spec

\* the immediate width of a kind whose offset is spliced, 0 for the others
SpliceBits(t) ==
    CASE t = R_RISCV_BRANCH -> BranchBits
      [] t = R_RISCV_JAL -> JalBits
      [] t = R_RISCV_RVC_BRANCH -> RvcBranchBits
      [] t = R_RISCV_RVC_JUMP -> RvcJumpBits
      [] OTHER -> 0

(***************************************************************************)
(* A branch or jump within reach lands on its target.  Once a BRANCH,    *)
(* JAL, RVC_BRANCH or RVC_JUMP has been applied and no other entry writes *)
(* its instruction, the n-bit immediate it spliced (bits n-1..1 of the    *)
(* offset, the sign bit included) reads back, sign-extended, as the       *)
(* wrapped i64 offset from the instruction to S+A -- whenever that offset *)
(* is even and fits the immediate, backwards as well as forwards.         *)
(***************************************************************************)
PcSplicesInRange ==
    \A j \in 1..Len(relas) :
      LET r == relas[j]
          n == SpliceBits(r.type)
      IN  (/\ n > 0 /\ Applied(j) /\ Untouched({Location(r)}, {j})
           /\ PcOffset(r) % 2 = 0 /\ FitsI(PcOffset(r), n))
            => S(2 * mem[Location(r)], n) = PcOffset(r)

(***************************************************************************)
(* The following three state what spec.md says of the code and do not    *)
(* hold of it; each is checked by a run that expects a violation.          *)
(***************************************************************************)

\* spec.md, 4.B: ADD32 is `*loc += V`, so that ADD and SUB of the same V
\* cancel; the handler stores V instead of adding it.
AddAccumulates ==
    [][ (i' = i + 1 /\ relas[i].type = R_RISCV_ADD32)
          => U(mem'[Location(relas[i])], W32)
               = U(mem[Location(relas[i])] + TargetRaw(relas[i]), W32) ]_vars

\* spec.md, 3 (invariant 5) and 4.B: a BRANCH, JAL, RVC_BRANCH or RVC_JUMP
\* whose offset does not fit the immediate fails rather than truncate: an
\* applied one encodes its offset exactly.
PcSplicesExact ==
    \A j \in 1..Len(relas) :
      LET r == relas[j]
          n == SpliceBits(r.type)
      IN  (/\ n > 0 /\ Applied(j) /\ Untouched({Location(r)}, {j})
           /\ PcOffset(r) % 2 = 0)
            => S(2 * mem[Location(r)], n) = PcOffset(r)

\* spec.md, 7: every failure -- an unimplemented kind, an out-of-bounds
\* symbol index included -- is Err(RelocationFailed); nothing panics.
NeverPanics == status # "panic"

=============================================================================
