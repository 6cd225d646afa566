------------------------ MODULE RiscvRelocateProofs ------------------------
(***************************************************************************)
(* Proofs about the RISC-V relocation driver of RiscvRelocate, for every   *)
(* value of the widths and inputs that satisfies the module's assumptions. *)
(***************************************************************************)
EXTENDS RiscvRelocate, TLAPS

(***************************************************************************)
(* Arithmetic of the wrapping helpers.                                     *)
(***************************************************************************)

\* every width up to XLEN has a positive power of two no larger than 2^XLEN
LEMMA PowBound ==
    ASSUME NEW w \in 0..XLEN
    PROVE  /\ w \in Nat /\ XLEN \in Nat
           /\ 2^w \in Nat \ {0}
           /\ 2^XLEN \in Nat \ {0}
           /\ 2^w <= 2^XLEN
<1>1. XLEN \in Nat /\ w \in Nat BY WidthAssumption
<1>2. /\ 2^w \in Nat \ {0}
      /\ 2^XLEN = 2^w * 2^(XLEN - w)
  BY <1>1, PowerAssumption
<1>3. 2^(XLEN - w) \in Nat \ {0}
  BY <1>1, PowerAssumption
<1>. QED BY <1>1, <1>2, <1>3

\* `x as uW` is a w-bit word, and a word of u64
LEMMA UType ==
    ASSUME NEW x \in Int, NEW w \in 0..XLEN
    PROVE  /\ U(x, w) \in 0..(2^w - 1)
           /\ U(x, w) \in Word(XLEN)
<1>1. w \in Nat /\ 2^w \in Nat \ {0} /\ 2^XLEN \in Nat /\ 2^w <= 2^XLEN
  BY PowBound
<1>. QED BY <1>1 DEF U, Word

\* `x as iW` is an integer
LEMMA SType ==
    ASSUME NEW x \in Int, NEW w \in 1..XLEN
    PROVE  S(x, w) \in Int
<1>1. 2^w \in Nat \ {0} BY PowBound
<1>2. 2^(w-1) \in Nat \ {0} BY PowBound
<1>. QED BY <1>1, <1>2 DEF S, U

\* a bit field of at most XLEN bits is a word of u64
LEMMA FieldType ==
    ASSUME NEW x \in Int, NEW lo \in 0..XLEN, NEW n \in 0..XLEN
    PROVE  Field(x, lo, n) \in Word(XLEN)
<1>1. 2^lo \in Nat \ {0} BY PowBound
<1>2. 2^n \in Nat \ {0} /\ 2^XLEN \in Nat /\ 2^n <= 2^XLEN BY PowBound
<1>. QED BY <1>1, <1>2 DEF Field, Word

\* clearing the low bits of m below a multiple P of a bound P * q, and
\* putting any v < P there, stays below P * q
LEMMA LowReplaceArith ==
    ASSUME NEW P \in Nat \ {0}, NEW q \in Nat \ {0},
           NEW m \in 0..(P * q - 1), NEW v \in 0..(P - 1)
    PROVE  (m - (m % P)) + v \in 0..(P * q - 1)
<1>1. /\ m % P = m - P * (m \div P)
      /\ m % P \in 0..(P - 1)
      /\ m \div P \in Int
  BY SMT
<1>2. m \div P \in 0..(q - 1)
  <2>1. m \div P >= 0
    <3>1. SUFFICES ASSUME m \div P < 0 PROVE FALSE BY <1>1, SMT
    <3>2. P * (m \div P) <= -P BY <1>1, <3>1, SMT
    <3>. QED BY <1>1, <3>2, SMT
  <2>2. SUFFICES ASSUME m \div P >= q PROVE FALSE BY <1>1, <2>1, SMT
  <2>3. P * (m \div P) >= P * q BY <1>1, <2>2, SMT
  <2>. QED BY <1>1, <2>3, SMT
<1>3. P * (m \div P) <= P * (q - 1) BY <1>1, <1>2, SMT
<1>. QED BY <1>1, <1>3, SMT

\* replacing the low w bits of a u64 by a w-bit value gives a u64
LEMMA LowReplace ==
    ASSUME NEW m \in Word(XLEN), NEW w \in 0..XLEN, NEW v \in 0..(2^w - 1)
    PROVE  (m - U(m, w)) + v \in Word(XLEN)
<1>1. XLEN \in Nat /\ w \in Nat BY WidthAssumption
<1>2. /\ 2^w \in Nat \ {0}
      /\ 2^(XLEN - w) \in Nat \ {0}
      /\ 2^XLEN = 2^w * 2^(XLEN - w)
  BY <1>1, PowerAssumption
<1>3. m \in 0..(2^w * 2^(XLEN - w) - 1) BY <1>2 DEF Word
<1>4. (m - (m % 2^w)) + v \in 0..(2^w * 2^(XLEN - w) - 1)
  BY <1>2, <1>3, LowReplaceArith
<1>. QED BY <1>2, <1>4 DEF U, Word
(***************************************************************************)
(* The widths the handlers use.                                            *)
(***************************************************************************)
LEMMA WidthFacts ==
    /\ {XLEN, W32, W16, LO, HI, 1} \subseteq 1..XLEN
    /\ LO - 1 \in 0..XLEN
    /\ \A n \in {BranchBits, JalBits, RvcBranchBits, RvcJumpBits} : n - 1 \in 0..XLEN
    /\ Bias \in Nat
<1>1. /\ {XLEN, W32, W16, LO, HI, 1} \subseteq 1..XLEN
      /\ LO - 1 \in 0..XLEN
      /\ \A n \in {BranchBits, JalBits, RvcBranchBits, RvcJumpBits} : n - 1 \in 0..XLEN
  BY WidthAssumption
<1>2. Bias \in Nat BY <1>1, PowBound DEF Bias
<1>. QED BY <1>1, <1>2

\* the same widths as flat memberships, the form the type lemmas take
LEMMA Widths ==
    /\ XLEN \in 1..XLEN /\ W32 \in 1..XLEN /\ LO \in 1..XLEN /\ HI \in 1..XLEN
    /\ XLEN \in 0..XLEN /\ W32 \in 0..XLEN /\ LO \in 0..XLEN /\ HI \in 0..XLEN
BY WidthFacts

(***************************************************************************)
(* How an entry ends keeps the types.                                      *)
(***************************************************************************)
Status == {"running", "ok", "err", "panic"}

\* the loop moves on after an entry that patched memory to a map of words
LEMMA SucceedOK ==
    ASSUME TypeOK, i <= Len(relas), UNCHANGED <<relas, syms, checked>>,
           NEW m \in [Addr -> Word(XLEN)], Succeed(m)
    PROVE  TypeOK'
BY DEF TypeOK, Succeed

\* the function returns s with memory as it stands
LEMMA FailOK ==
    ASSUME TypeOK, UNCHANGED <<relas, syms, checked>>,
           NEW s \in Status, Fail(s)
    PROVE  TypeOK'
BY DEF TypeOK, Fail, Status

\* writing a u64 into a cell
LEMMA SetOK ==
    ASSUME TypeOK, NEW loc \in Addr, NEW v \in Word(XLEN)
    PROVE  Set(loc, v) \in [Addr -> Word(XLEN)]
BY DEF TypeOK, Set

\* writing a w-bit word into the low bits of a cell
LEMMA SetLowOK ==
    ASSUME TypeOK, NEW loc \in Addr, NEW w \in 0..XLEN, NEW v \in 0..(2^w - 1)
    PROVE  SetLow(loc, v, w) \in [Addr -> Word(XLEN)]
<1>1. mem[loc] \in Word(XLEN) BY DEF TypeOK
<1>2. (mem[loc] - U(mem[loc], w)) + v \in Word(XLEN) BY <1>1, LowReplace
<1>. QED BY <1>2 DEF TypeOK, SetLow
(***************************************************************************)
(* Every handler keeps the types, whatever address it is given.  The       *)
(* hypotheses are those under which ApplyRela calls apply_relocation.      *)
(***************************************************************************)
StepHyp(o, addr) ==
    /\ TypeOK
    /\ i <= Len(relas)
    /\ UNCHANGED <<relas, syms, checked>>
    /\ o \in Offsets
    /\ addr \in Word(XLEN)

\* the cells of a patch location
LEMMA LocFacts ==
    ASSUME NEW o \in Offsets
    PROVE  /\ SecAddr + o \in Addr /\ SecAddr + o + 4 \in Addr
           /\ SecAddr + o \in Int
BY InputAssumption DEF Addr

LEMMA Handler32OK ==
    ASSUME NEW o, NEW addr, StepHyp(o, addr),
           apply_r_riscv_32_rela(SecAddr + o, addr)
    PROVE  TypeOK'
<1>1. CASE Fail("err") BY <1>1, FailOK DEF StepHyp, Status
<1>2. CASE addr = U(addr, W32) /\ Succeed(SetLow(SecAddr + o, addr, W32))
  <2>0. addr \in Int /\ W32 \in 0..XLEN BY WidthFacts DEF StepHyp, Word
  <2>1. addr \in 0..(2^W32 - 1) BY <1>2, <2>0, UType
  <2>2. SecAddr + o \in Addr /\ W32 \in 0..XLEN /\ TypeOK
    BY LocFacts, WidthFacts DEF StepHyp
  <2>3. SetLow(SecAddr + o, addr, W32) \in [Addr -> Word(XLEN)]
    BY <2>1, <2>2, SetLowOK
  <2>. QED BY <1>2, <2>3, SucceedOK DEF StepHyp
<1>. QED BY <1>1, <1>2 DEF apply_r_riscv_32_rela

LEMMA Handler64OK ==
    ASSUME NEW o, NEW addr, StepHyp(o, addr),
           apply_r_riscv_64_rela(SecAddr + o, addr)
    PROVE  TypeOK'
<1>1. Set(SecAddr + o, addr) \in [Addr -> Word(XLEN)]
  BY SetOK, LocFacts DEF StepHyp
<1>. QED BY <1>1, SucceedOK DEF StepHyp, apply_r_riscv_64_rela

\* the PC-relative offset before wrapping is an integer
LEMMA PcOffsetRawType ==
    ASSUME NEW loc \in Int, NEW addr \in Int
    PROVE  PcOffsetRaw(loc, addr) \in Int
<1>1. XLEN \in 1..XLEN BY WidthFacts
<1>2. S(addr, XLEN) \in Int BY <1>1, SType
<1>3. S(loc, XLEN) \in Int BY <1>1, SType
<1>. QED BY <1>2, <1>3 DEF PcOffsetRaw

LEMMA SpliceOK ==
    ASSUME NEW o, NEW addr, StepHyp(o, addr),
           NEW n \in {BranchBits, JalBits, RvcBranchBits, RvcJumpBits},
           apply_r_riscv_pc_splice_rela(SecAddr + o, addr, n)
    PROVE  TypeOK'
<1>. DEFINE loc == SecAddr + o  raw == PcOffsetRaw(loc, addr)
<1>1. raw \in Int BY PcOffsetRawType, LocFacts DEF StepHyp, Word
<1>2. CASE Fail("panic") BY <1>2, FailOK DEF StepHyp, Status
<1>3. CASE Succeed(Set(loc, Field(S(raw, XLEN), 1, n - 1)))
  <2>1. S(raw, XLEN) \in Int BY <1>1, SType, Widths
  <2>2. Field(S(raw, XLEN), 1, n - 1) \in Word(XLEN) BY <2>1, FieldType, WidthFacts
  <2>3. Set(loc, Field(S(raw, XLEN), 1, n - 1)) \in [Addr -> Word(XLEN)]
    BY <2>2, SetOK, LocFacts DEF StepHyp
  <2>. QED BY <1>3, <2>3, SucceedOK DEF StepHyp
<1>. QED BY <1>2, <1>3 DEF apply_r_riscv_pc_splice_rela
\* the hi20 field of an offset is a word
LEMMA Hi20FieldType ==
    ASSUME NEW x \in Int
    PROVE  Hi20Field(x) \in Word(XLEN)
BY FieldType, WidthFacts DEF Hi20Field

LEMMA PcrelHi20OK ==
    ASSUME NEW o, NEW addr, StepHyp(o, addr),
           apply_r_riscv_pcrel_hi20_rela(SecAddr + o, addr)
    PROVE  TypeOK'
<1>. DEFINE loc == SecAddr + o  offset == S(PcOffsetRaw(loc, addr), XLEN)
<1>1. offset \in Int
  <2>1. loc \in Int /\ addr \in Int BY LocFacts DEF StepHyp, Word
  <2>2. PcOffsetRaw(loc, addr) \in Int BY <2>1, PcOffsetRawType
  <2>. QED BY <2>2, SType, Widths
<1>2. CASE Fail("panic") \/ Fail("err") BY <1>2, FailOK DEF StepHyp, Status
<1>3. CASE Succeed(Set(loc, Hi20Field(offset)))
  <2>1. Set(loc, Hi20Field(offset)) \in [Addr -> Word(XLEN)]
    BY <1>1, Hi20FieldType, SetOK, LocFacts DEF StepHyp
  <2>. QED BY <1>3, <2>1, SucceedOK DEF StepHyp
<1>. QED BY <1>2, <1>3 DEF apply_r_riscv_pcrel_hi20_rela

LEMMA PcrelLo12OK ==
    ASSUME NEW o, NEW addr, StepHyp(o, addr),
           apply_r_riscv_pcrel_lo12_rela(SecAddr + o, addr)
    PROVE  TypeOK'
<1>1. Set(SecAddr + o, U(addr, LO)) \in [Addr -> Word(XLEN)]
  <2>1. addr \in Int BY DEF StepHyp, Word
  <2>2. U(addr, LO) \in Word(XLEN) BY <2>1, UType, Widths
  <2>. QED BY <2>2, SetOK, LocFacts DEF StepHyp
<1>. QED BY <1>1, SucceedOK DEF StepHyp, apply_r_riscv_pcrel_lo12_rela

LEMMA Hi20OK ==
    ASSUME NEW o, NEW addr, StepHyp(o, addr),
           apply_r_riscv_hi20_rela(SecAddr + o, addr)
    PROVE  TypeOK'
<1>. DEFINE raw == addr + Bias
<1>1. raw \in Int BY WidthFacts DEF StepHyp, Word
<1>2. CASE Fail("panic") BY <1>2, FailOK DEF StepHyp, Status
<1>3. CASE Succeed(Set(SecAddr + o, Field(U(raw, XLEN), LO, HI)))
  <2>1. U(raw, XLEN) \in Int BY <1>1, UType, Widths
  <2>2. Field(U(raw, XLEN), LO, HI) \in Word(XLEN) BY <2>1, FieldType, Widths
  <2>3. Set(SecAddr + o, Field(U(raw, XLEN), LO, HI)) \in [Addr -> Word(XLEN)]
    BY <2>2, SetOK, LocFacts DEF StepHyp
  <2>. QED BY <1>3, <2>3, SucceedOK DEF StepHyp
<1>. QED BY <1>2, <1>3 DEF apply_r_riscv_hi20_rela

LEMMA Lo12OK ==
    ASSUME NEW o, NEW addr, StepHyp(o, addr),
           apply_r_riscv_lo12_rela(SecAddr + o, addr)
    PROVE  TypeOK'
<1>. DEFINE a == S(addr, W32)
            raw == a + Bias
            hi20 == (S(raw, W32) \div 2^LO) * 2^LO
<1>1. a \in Int /\ raw \in Int
  <2>1. addr \in Int BY DEF StepHyp, Word
  <2>2. a \in Int BY <2>1, SType, Widths
  <2>. QED BY <2>2, WidthFacts
<1>2. hi20 \in Int
  <2>1. S(raw, W32) \in Int BY <1>1, SType, Widths
  <2>2. 2^LO \in Nat \ {0} BY PowBound, WidthFacts
  <2>. QED BY <2>1, <2>2
<1>3. CASE Fail("panic") BY <1>3, FailOK DEF StepHyp, Status
<1>4. CASE Succeed(Set(SecAddr + o, U(S(a - hi20, W32), LO)))
  <2>1. S(a - hi20, W32) \in Int BY <1>1, <1>2, SType, Widths
  <2>2. U(S(a - hi20, W32), LO) \in Word(XLEN) BY <2>1, UType, Widths
  <2>3. Set(SecAddr + o, U(S(a - hi20, W32), LO)) \in [Addr -> Word(XLEN)]
    BY <2>2, SetOK, LocFacts DEF StepHyp
  <2>. QED BY <1>4, <2>3, SucceedOK DEF StepHyp
<1>. QED BY <1>3, <1>4 DEF apply_r_riscv_lo12_rela
LEMMA CallOK ==
    ASSUME NEW o, NEW addr, StepHyp(o, addr),
           apply_r_riscv_call_rela(SecAddr + o, addr)
    PROVE  TypeOK'
<1>. DEFINE loc == SecAddr + o
            offset == S(PcOffsetRaw(loc, addr), XLEN)
            hi20 == Hi20Field(offset) * 2^LO
<1>1. offset \in Int
  <2>1. loc \in Int /\ addr \in Int BY LocFacts DEF StepHyp, Word
  <2>2. PcOffsetRaw(loc, addr) \in Int BY <2>1, PcOffsetRawType
  <2>. QED BY <2>2, SType, Widths
<1>2. Hi20Field(offset) \in Word(XLEN) BY <1>1, Hi20FieldType
<1>3. U(offset - hi20, LO) \in Word(XLEN)
  <2>1. 2^LO \in Nat BY PowBound, WidthFacts
  <2>2. offset - hi20 \in Int BY <1>1, <1>2, <2>1 DEF Word
  <2>. QED BY <2>2, UType, Widths
<1>4. [mem EXCEPT ![loc] = Hi20Field(offset), ![loc + 4] = U(offset - hi20, LO)]
        \in [Addr -> Word(XLEN)]
  BY <1>2, <1>3, LocFacts DEF StepHyp, TypeOK
<1>5. CASE Fail("panic") \/ Fail("err") BY <1>5, FailOK DEF StepHyp, Status
<1>6. CASE Succeed([mem EXCEPT ![loc] = Hi20Field(offset),
                               ![loc + 4] = U(offset - hi20, LO)])
  BY <1>4, <1>6, SucceedOK DEF StepHyp
<1>. QED BY <1>5, <1>6 DEF apply_r_riscv_call_rela

LEMMA AddOK ==
    ASSUME NEW o, NEW addr, StepHyp(o, addr), NEW w \in 0..XLEN,
           apply_r_riscv_add_rela(SecAddr + o, addr, w)
    PROVE  TypeOK'
<1>1. U(addr, w) \in 0..(2^w - 1) BY UType DEF StepHyp, Word
<1>2. SetLow(SecAddr + o, U(addr, w), w) \in [Addr -> Word(XLEN)]
  BY <1>1, SetLowOK, LocFacts DEF StepHyp
<1>. QED BY <1>2, SucceedOK DEF StepHyp, apply_r_riscv_add_rela

LEMMA SubOK ==
    ASSUME NEW o, NEW addr, StepHyp(o, addr), NEW w \in 0..XLEN,
           apply_r_riscv_sub_rela(SecAddr + o, addr, w)
    PROVE  TypeOK'
<1>. DEFINE loc == SecAddr + o  value == U(mem[loc], w)
<1>1. value \in Int /\ U(addr, w) \in Int
  <2>1. mem[loc] \in Int /\ addr \in Int BY LocFacts DEF StepHyp, TypeOK, Word
  <2>. QED BY <2>1, UType
<1>2. U(value - U(addr, w), w) \in 0..(2^w - 1) BY <1>1, UType
<1>3. SetLow(loc, U(value - U(addr, w), w), w) \in [Addr -> Word(XLEN)]
  BY <1>2, SetLowOK, LocFacts DEF StepHyp
<1>4. CASE Fail("panic") BY <1>4, FailOK DEF StepHyp, Status
<1>5. CASE Succeed(SetLow(loc, U(value - U(addr, w), w), w))
  BY <1>3, <1>5, SucceedOK DEF StepHyp
<1>. QED BY <1>4, <1>5 DEF apply_r_riscv_sub_rela
\* the codes of the kinds apply_relocation dispatches on
Dispatched ==
    {R_RISCV_32, R_RISCV_64, R_RISCV_BRANCH, R_RISCV_JAL, R_RISCV_RVC_BRANCH,
     R_RISCV_RVC_JUMP, R_RISCV_PCREL_HI20, R_RISCV_PCREL_LO12_I,
     R_RISCV_PCREL_LO12_S, R_RISCV_HI20, R_RISCV_LO12_I, R_RISCV_LO12_S,
     R_RISCV_CALL, R_RISCV_CALL_PLT, R_RISCV_RELAX, R_RISCV_ALIGN,
     R_RISCV_ADD16, R_RISCV_ADD32, R_RISCV_ADD64, R_RISCV_SUB16,
     R_RISCV_SUB32, R_RISCV_SUB64}

\* apply_relocation keeps the types, whichever kind it dispatches on
LEMMA DispatchOK ==
    ASSUME NEW o, NEW addr, StepHyp(o, addr), NEW k,
           apply_relocation(k, SecAddr + o, addr)
    PROVE  TypeOK'
<1>. DEFINE loc == SecAddr + o
<1>. USE DEF PcrelLo12Types, R_RISCV_32, R_RISCV_64, R_RISCV_BRANCH, R_RISCV_JAL, R_RISCV_RVC_BRANCH, R_RISCV_RVC_JUMP, R_RISCV_PCREL_HI20, R_RISCV_PCREL_LO12_I, R_RISCV_PCREL_LO12_S, R_RISCV_HI20, R_RISCV_LO12_I, R_RISCV_LO12_S, R_RISCV_CALL, R_RISCV_CALL_PLT, R_RISCV_RELAX, R_RISCV_ALIGN, R_RISCV_ADD16, R_RISCV_ADD32, R_RISCV_ADD64, R_RISCV_SUB16, R_RISCV_SUB32, R_RISCV_SUB64
<1>1. CASE k = R_RISCV_32
  <2>1. apply_r_riscv_32_rela(loc, addr) BY <1>1 DEF apply_relocation
  <2>. QED BY <2>1, Handler32OK
<1>2. CASE k = R_RISCV_64
  <2>1. apply_r_riscv_64_rela(loc, addr) BY <1>2 DEF apply_relocation
  <2>. QED BY <2>1, Handler64OK
<1>3. CASE k = R_RISCV_BRANCH
  <2>1. apply_r_riscv_pc_splice_rela(loc, addr, BranchBits) BY <1>3 DEF apply_relocation
  <2>. QED BY <2>1, SpliceOK
<1>4. CASE k = R_RISCV_JAL
  <2>1. apply_r_riscv_pc_splice_rela(loc, addr, JalBits) BY <1>4 DEF apply_relocation
  <2>. QED BY <2>1, SpliceOK
<1>5. CASE k = R_RISCV_RVC_BRANCH
  <2>1. apply_r_riscv_pc_splice_rela(loc, addr, RvcBranchBits) BY <1>5 DEF apply_relocation
  <2>. QED BY <2>1, SpliceOK
<1>6. CASE k = R_RISCV_RVC_JUMP
  <2>1. apply_r_riscv_pc_splice_rela(loc, addr, RvcJumpBits) BY <1>6 DEF apply_relocation
  <2>. QED BY <2>1, SpliceOK
<1>7. CASE k = R_RISCV_PCREL_HI20
  <2>1. apply_r_riscv_pcrel_hi20_rela(loc, addr) BY <1>7 DEF apply_relocation
  <2>. QED BY <2>1, PcrelHi20OK
<1>8. CASE k \in PcrelLo12Types
  <2>1. apply_r_riscv_pcrel_lo12_rela(loc, addr) BY <1>8 DEF apply_relocation
  <2>. QED BY <2>1, PcrelLo12OK
<1>9. CASE k = R_RISCV_HI20
  <2>1. apply_r_riscv_hi20_rela(loc, addr) BY <1>9 DEF apply_relocation
  <2>. QED BY <2>1, Hi20OK
<1>10. CASE k \in {R_RISCV_LO12_I, R_RISCV_LO12_S}
  <2>1. apply_r_riscv_lo12_rela(loc, addr) BY <1>10 DEF apply_relocation
  <2>. QED BY <2>1, Lo12OK
<1>11. CASE k \in {R_RISCV_CALL, R_RISCV_CALL_PLT}
  <2>1. apply_r_riscv_call_rela(loc, addr) BY <1>11 DEF apply_relocation
  <2>. QED BY <2>1, CallOK
<1>12. CASE k = R_RISCV_RELAX
  <2>1. Succeed(mem) BY <1>12 DEF apply_relocation
  <2>. QED BY <2>1, SucceedOK DEF StepHyp, TypeOK
<1>13. CASE k = R_RISCV_ALIGN
  <2>1. Fail("err") BY <1>13 DEF apply_relocation
  <2>. QED BY <2>1, FailOK DEF StepHyp, Status
<1>14. CASE k = R_RISCV_ADD16
  <2>1. apply_r_riscv_add_rela(loc, addr, W16) BY <1>14 DEF apply_relocation
  <2>. QED BY <2>1, AddOK, WidthFacts
<1>15. CASE k = R_RISCV_ADD32
  <2>1. apply_r_riscv_add_rela(loc, addr, W32) BY <1>15 DEF apply_relocation
  <2>. QED BY <2>1, AddOK, WidthFacts
<1>16. CASE k = R_RISCV_ADD64
  <2>1. apply_r_riscv_add_rela(loc, addr, XLEN) BY <1>16 DEF apply_relocation
  <2>. QED BY <2>1, AddOK, WidthFacts
<1>17. CASE k = R_RISCV_SUB16
  <2>1. apply_r_riscv_sub_rela(loc, addr, W16) BY <1>17 DEF apply_relocation
  <2>. QED BY <2>1, SubOK, WidthFacts
<1>18. CASE k = R_RISCV_SUB32
  <2>1. apply_r_riscv_sub_rela(loc, addr, W32) BY <1>18 DEF apply_relocation
  <2>. QED BY <2>1, SubOK, WidthFacts
<1>19. CASE k = R_RISCV_SUB64
  <2>1. apply_r_riscv_sub_rela(loc, addr, XLEN) BY <1>19 DEF apply_relocation
  <2>. QED BY <2>1, SubOK, WidthFacts
<1>20. CASE k \notin Dispatched
  <2>1. Fail("panic") BY <1>20 DEF apply_relocation, Dispatched
  <2>. QED BY <2>1, FailOK DEF StepHyp, Status
<1>. QED BY <1>1, <1>2, <1>3, <1>4, <1>5, <1>6, <1>7, <1>8, <1>9, <1>10, <1>11, <1>12, <1>13, <1>14, <1>15, <1>16, <1>17, <1>18, <1>19, <1>20 DEF Dispatched
(***************************************************************************)
(* The driver.                                                             *)
(***************************************************************************)
\* the section is a sequence of at most MaxRelas entries
LEMMA RelasFacts ==
    ASSUME TypeOK
    PROVE  /\ Len(relas) \in Nat
           /\ \A j \in 1..Len(relas) : relas[j] \in Rela
<1>1. PICK n \in 0..MaxRelas : relas \in [1..n -> Rela] BY DEF TypeOK
<1>2. n \in Nat BY InputAssumption
<1>3. Len(relas) = n BY <1>1, <1>2
<1>. QED BY <1>1, <1>2, <1>3

\* `sym.st_value as i64 + rela.r_addend` is an integer
LEMMA TargetRawType ==
    ASSUME TypeOK, NEW r \in Rela, r.sym \in DOMAIN syms
    PROVE  TargetRaw(r) \in Int
<1>0. 2^XLEN \in Nat /\ 2^(XLEN - 1) \in Nat
  <2>1. XLEN \in 0..XLEN /\ XLEN - 1 \in 0..XLEN BY WidthFacts
  <2>. QED BY <2>1, PowBound
<1>1. SymValue(r) \in Int
  <2>1. syms[r.sym] \in SymValues BY DEF TypeOK
  <2>2. SymValues \subseteq Int BY <1>0, InputAssumption
  <2>. QED BY <2>1, <2>2 DEF SymValue
<1>2. S(SymValue(r), XLEN) \in Int BY <1>1, SType, Widths
<1>3. r.addend \in Int
  <2>1. r.addend \in Addends BY DEF Rela
  <2>2. Addends \subseteq Int BY <1>0, InputAssumption
  <2>. QED BY <2>1, <2>2
<1>. QED BY <1>2, <1>3 DEF TargetRaw

\* the lo12 the pair search computes from entry j is an integer
LEMMA PairLo12Type ==
    ASSUME TypeOK, NEW j \in 1..Len(relas), relas[j].sym \in DOMAIN syms
    PROVE  PairArith(j).lo_12 \in Int
<1>. DEFINE h == relas[j]
            hiValRaw == S(syms[h.sym], XLEN) + h.addend
            offRaw == S(hiValRaw, XLEN) - S(Location(h), XLEN)
            offset == S(offRaw, XLEN)
            biasRaw == offset + Bias
            hi_20 == Field(S(biasRaw, XLEN), LO, HI) * 2^LO
            loRaw == offset - hi_20
<1>1. h \in Rela BY RelasFacts
<1>2. hiValRaw \in Int BY <1>1, TargetRawType DEF TargetRaw, SymValue
<1>3. Location(h) \in Int BY <1>1, LocFacts DEF Location, Rela
<1>4. offset \in Int
  <2>0. XLEN \in 1..XLEN BY WidthFacts
  <2>1. S(hiValRaw, XLEN) \in Int /\ S(Location(h), XLEN) \in Int
    BY <1>2, <1>3, <2>0, SType
  <2>2. offRaw \in Int BY <2>1
  <2>. QED BY <2>0, <2>2, SType
<1>5. biasRaw \in Int BY <1>4, WidthFacts
<1>6. hi_20 \in Int
  <2>1. S(biasRaw, XLEN) \in Int BY <1>5, SType, Widths
  <2>2. Field(S(biasRaw, XLEN), LO, HI) \in Word(XLEN) BY <2>1, FieldType, Widths
  <2>3. 2^LO \in Nat
    <3>1. LO \in 0..XLEN BY WidthFacts
    <3>. QED BY <3>1, PowBound
  <2>. QED BY <2>2, <2>3 DEF Word
<1>7. S(loRaw, XLEN) \in Int BY <1>4, <1>6, SType, Widths
<1>. QED BY <1>7 DEF PairArith
\* the PCREL_LO12 branch keeps the types: the scan stops at an entry of
\* the section, and the lo12 it hands to apply_relocation is a u64
LEMMA ResolveOK ==
    ASSUME TypeOK, i <= Len(relas), UNCHANGED <<relas, syms, checked>>,
           NEW r \in Rela, ResolvePcrelLo12(r)
    PROVE  TypeOK'
<1>. DEFINE v == SymValue(r)
<1>1. CASE ScanStops(v) = {} /\ Fail("err")
  BY <1>1, FailOK DEF Status
<1>2. CASE \E j \in ScanStops(v) :
             LET h == relas[j] IN
             /\ \A k \in ScanStops(v) : j <= k
             /\ \/ h.type \notin KnownTypes /\ Fail("err")
                \/ /\ h.type \in KnownTypes
                   /\ \/ h.sym \notin DOMAIN syms
                      \/ PairTraps(j)
                      \/ h.type = R_RISCV_GOT_HI20
                   /\ Fail("panic")
                \/ /\ h.type \in KnownTypes
                   /\ h.sym \in DOMAIN syms /\ ~PairTraps(j)
                   /\ h.type # R_RISCV_GOT_HI20
                   /\ apply_relocation(r.type, Location(r), U(PairArith(j).lo_12, XLEN))
  <2>1. PICK j \in ScanStops(v) :
             LET h == relas[j] IN
             \/ Fail("err") \/ Fail("panic")
             \/ /\ h.sym \in DOMAIN syms
                /\ apply_relocation(r.type, Location(r), U(PairArith(j).lo_12, XLEN))
    BY <1>2
  <2>2. j \in 1..Len(relas) BY DEF ScanStops
  <2>3. CASE Fail("err") \/ Fail("panic") BY <2>3, FailOK DEF Status
  <2>4. CASE /\ relas[j].sym \in DOMAIN syms
             /\ apply_relocation(r.type, Location(r), U(PairArith(j).lo_12, XLEN))
    <3>1. PairArith(j).lo_12 \in Int BY <2>2, <2>4, PairLo12Type
    <3>2. U(PairArith(j).lo_12, XLEN) \in Word(XLEN)
      <4>1. XLEN \in 0..XLEN BY WidthFacts
      <4>. QED BY <3>1, <4>1, UType
    <3>3. r.offset \in Offsets BY DEF Rela
    <3>. QED BY <2>4, <3>2, <3>3, DispatchOK DEF StepHyp, Location
  <2>. QED BY <2>1, <2>3, <2>4
<1>. QED BY <1>1, <1>2 DEF ResolvePcrelLo12

\* one iteration of the loop keeps the types
LEMMA ApplyRelaOK ==
    ASSUME TypeOK, ApplyRela
    PROVE  TypeOK'
<1>. DEFINE r == relas[i]
<1>1. i \in 1..Len(relas) /\ r \in Rela BY RelasFacts DEF TypeOK, ApplyRela
<1>2. i <= Len(relas) /\ UNCHANGED <<relas, syms, checked>> BY DEF ApplyRela
<1>3. CASE Fail("panic") \/ Fail("err") BY <1>2, <1>3, FailOK DEF Status
<1>4. CASE /\ r.sym \in DOMAIN syms /\ r.type \notin PcrelLo12Types
           /\ apply_relocation(r.type, Location(r), U(TargetRaw(r), XLEN))
  <2>1. TargetRaw(r) \in Int BY <1>1, <1>4, TargetRawType
  <2>2. U(TargetRaw(r), XLEN) \in Word(XLEN) BY <2>1, UType, Widths
  <2>3. r.offset \in Offsets BY <1>1 DEF Rela
  <2>. QED BY <1>2, <1>4, <2>2, <2>3, DispatchOK DEF StepHyp, Location
<1>5. CASE ResolvePcrelLo12(r) BY <1>1, <1>2, <1>5, ResolveOK
<1>. QED BY <1>3, <1>4, <1>5 DEF ApplyRela
\* the section as loaded satisfies the type invariant
LEMMA InitOK ==
    ASSUME Init
    PROVE  TypeOK
<1>1. PICK n \in 0..MaxRelas : relas \in [1..n -> Rela] BY DEF Init
<1>2. n \in Nat /\ Len(relas) = n BY <1>1, InputAssumption
<1>3. InitWords \subseteq Word(XLEN) BY InputAssumption DEF Word
<1>. QED BY <1>1, <1>2, <1>3 DEF Init, TypeOK

\* returning Ok(()) keeps the types
LEMMA FinishOK ==
    ASSUME TypeOK, Finish
    PROVE  TypeOK'
BY DEF TypeOK, Finish

(***************************************************************************)
(* Type correctness: whatever the section, the symbol table, the initial   *)
(* memory and the build, every cell apply_relocate_add leaves behind --    *)
(* a whole word or a narrower one written into its low bits -- is a u64,   *)
(* and the loop index stays within the section (i <= len + 1).            *)
(***************************************************************************)
THEOREM TypeCorrect == Spec => []TypeOK
<1>1. Init => TypeOK BY InitOK
<1>2. TypeOK /\ [Next]_vars => TypeOK'
  <2>1. SUFFICES ASSUME TypeOK, [Next]_vars PROVE TypeOK' OBVIOUS
  <2>2. CASE ApplyRela BY <2>1, <2>2, ApplyRelaOK
  <2>3. CASE Finish BY <2>1, <2>3, FinishOK
  <2>4. CASE UNCHANGED vars BY <2>1, <2>4 DEF vars, TypeOK
  <2>. QED BY <2>1, <2>2, <2>3, <2>4 DEF Next
<1>. QED BY <1>1, <1>2, PTL DEF Spec
====
