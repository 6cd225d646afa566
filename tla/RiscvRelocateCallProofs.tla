---------------------- MODULE RiscvRelocateCallProofs ----------------------
(***************************************************************************)
(* A CALL/CALL_PLT that apply_relocate_add has applied reaches its target: *)
(* the auipc/jalr pair written by apply_r_riscv_call_rela adds exactly the *)
(* offset S+A-L to pc, for every width and every input that satisfies the  *)
(* assumptions of RiscvRelocate.  So does an applied branch or jump whose  *)
(* offset is within the reach of its immediate.                            *)
(***************************************************************************)
EXTENDS RiscvRelocateProofs

(***************************************************************************)
(* The hi20/lo12 split, over abstract powers of two.                       *)
(***************************************************************************)
\* x mod M read as a signed number of half-range H
SExt(x, M, H) == IF x % M >= H THEN (x % M) - M ELSE x % M

\* quotient and remainder are unique
LEMMA ModUnique ==
    ASSUME NEW P \in Nat \ {0}, NEW x \in Int, NEW a \in Int, NEW y \in 0..(P - 1),
           x = P * a + y
    PROVE  x % P = y /\ x \div P = a
<1>1. /\ x % P = x - P * (x \div P)
      /\ x % P \in 0..(P - 1)
      /\ x \div P \in Int
  BY SMT
<1>. DEFINE d == a - (x \div P)
<1>2. P * d = (x % P) - y BY <1>1, SMT
<1>3. d = 0
  <2>1. CASE d >= 1
    <3>1. P * d >= P BY <2>1, <1>1, SMT
    <3>. QED BY <3>1, <1>1, <1>2, SMT
  <2>2. CASE d <= -1
    <3>1. P * d <= -P BY <2>2, <1>1, SMT
    <3>. QED BY <3>1, <1>1, <1>2, SMT
  <2>. QED BY <2>1, <2>2, <1>1, SMT
<1>. QED BY <1>1, <1>2, <1>3, SMT

\* the hi/lo split of an offset o in range, for a lo part of P = 2B and a
\* hi part of Q = 2K: the hi part rounded with bias B, read as a signed
\* number of P * Q, plus the lo part read as a signed number of P, is o
LEMMA SplitArith ==
    ASSUME NEW B \in Nat \ {0}, NEW K \in Nat \ {0},
           NEW o \in Int, -(K * (2 * B)) - B <= o, o < K * (2 * B) - B
    PROVE  LET P == 2 * B
               Q == 2 * K
               hi == ((o + B) \div P) % Q
               l == (o - hi * P) % P
           IN  SExt(hi * P, P * Q, K * P) + SExt(l, P, B) = o
<1>. DEFINE P == 2 * B
            Q == 2 * K
<1>1. P \in Nat \ {0} /\ Q \in Nat \ {0} /\ K * P \in Nat /\ P * Q = 2 * (K * P) BY SMT
<1>2. PICK t \in Int : t = (o + B) \div P BY <1>1, SMT
<1>3. PICK r \in 0..(P - 1) : r = (o + B) % P BY <1>1, SMT
<1>4. o + B = P * t + r BY <1>1, <1>2, <1>3, SMT
<1>5. t \in -K..(K - 1)
  <2>1. SUFFICES ASSUME t >= K \/ t <= -K - 1 PROVE FALSE BY <1>2, SMT
  <2>2. CASE t >= K
    <3>1. P * t >= P * K BY <2>2, <1>1, SMT
    <3>. QED BY <3>1, <1>4, SMT
  <2>3. CASE t <= -K - 1
    <3>1. P * t <= P * (-K - 1) BY <2>3, <1>1, SMT
    <3>. QED BY <3>1, <1>4, SMT
  <2>. QED BY <2>1, <2>2, <2>3
<1>6. PICK hi \in 0..(Q - 1) : hi = t % Q BY <1>1, SMT
<1>7. SExt(hi * P, P * Q, K * P) = t * P
  <2>1. CASE t >= 0
    <3>1. hi = t
      <4>1. /\ Q \in Nat \ {0} /\ t \in Int /\ 0 \in Int /\ t \in 0..(Q - 1)
            /\ t = Q * 0 + t
        BY <2>1, <1>1, <1>5, SMT
      <4>2. t % Q = t BY <4>1, ModUnique
      <4>. QED BY <4>2, <1>6
    <3>2. (hi * P) % (P * Q) = hi * P
      <4>1. /\ P * Q \in Nat \ {0} /\ hi * P \in Int /\ 0 \in Int
            /\ hi * P \in 0..(P * Q - 1) /\ hi * P = (P * Q) * 0 + hi * P
        BY <3>1, <2>1, <1>1, <1>5, SMT
      <4>. QED BY <4>1, ModUnique
    <3>3. hi * P < K * P BY <3>1, <1>1, <1>5, SMT
    <3>. QED BY <3>1, <3>2, <3>3 DEF SExt
  <2>2. CASE t < 0
    <3>1. hi = t + Q
      <4>1. /\ Q \in Nat \ {0} /\ t \in Int /\ -1 \in Int /\ t + Q \in 0..(Q - 1)
            /\ t = Q * (-1) + (t + Q)
        BY <2>2, <1>1, <1>5, SMT
      <4>2. t % Q = t + Q BY <4>1, ModUnique
      <4>. QED BY <4>2, <1>6
    <3>2. hi * P = t * P + P * Q BY <3>1, SMT
    <3>3. hi * P \in (K * P)..(P * Q - 1)
      <4>1. t * P >= -(K * P) /\ t * P < 0 BY <2>2, <1>1, <1>5, SMT
      <4>. QED BY <3>2, <4>1, <1>1, SMT
    <3>4. (hi * P) % (P * Q) = hi * P
      <4>1. /\ P * Q \in Nat \ {0} /\ hi * P \in Int /\ 0 \in Int
            /\ hi * P \in 0..(P * Q - 1) /\ hi * P = (P * Q) * 0 + hi * P
        BY <3>3, <1>1, SMT
      <4>. QED BY <4>1, ModUnique
    <3>. QED BY <3>2, <3>3, <3>4 DEF SExt
  <2>. QED BY <2>1, <2>2, <1>5
<1>8. PICK l \in 0..(P - 1) : l = (o - hi * P) % P BY <1>1, SMT
<1>9. SExt(l, P, B) = r - B
  <2>1. o - hi * P = P * (t - hi) + (r - B) BY <1>4, SMT
  <2>2. l % P = l
    <3>1. /\ P \in Nat \ {0} /\ l \in Int /\ 0 \in Int /\ l \in 0..(P - 1)
          /\ l = P * 0 + l
      BY <1>1, SMT
    <3>. QED BY <3>1, ModUnique
  <2>3. CASE r >= B
    <3>1. /\ P \in Nat \ {0} /\ o - hi * P \in Int /\ t - hi \in Int
          /\ r - B \in 0..(P - 1)
          /\ o - hi * P = P * (t - hi) + (r - B)
      BY <2>1, <2>3, <1>1, SMT
    <3>2. (o - hi * P) % P = r - B BY <3>1, ModUnique
    <3>. QED BY <3>2, <2>2, <2>3, <1>8 DEF SExt
  <2>4. CASE r < B
    <3>1. o - hi * P = P * (t - hi - 1) + (r - B + P) BY <2>1, SMT
    <3>2. /\ P \in Nat \ {0} /\ o - hi * P \in Int /\ t - hi - 1 \in Int
          /\ r - B + P \in 0..(P - 1)
          /\ o - hi * P = P * (t - hi - 1) + (r - B + P)
      BY <3>1, <2>4, <1>1, SMT
    <3>3. (o - hi * P) % P = r - B + P BY <3>2, ModUnique
    <3>. QED BY <3>3, <2>2, <2>4, <1>8 DEF SExt
  <2>. QED BY <2>3, <2>4
<1>. QED BY <1>2, <1>4, <1>6, <1>7, <1>8, <1>9

\* The same split in the model's terms: an offset riscv_insn_valid_32bit_offset
\* accepts is what auipc adds with the hi20 apply_r_riscv_call_rela writes
\* plus what jalr adds with the lo12 written next to it.
LEMMA CallSplit ==
    ASSUME NEW o \in Int, riscv_insn_valid_32bit_offset(o)
    PROVE  AuipcValue(Hi20Field(o), U(o - Hi20Field(o) * 2^LO, LO)) = o
<1>. DEFINE B == 2^(LO - 1)  K == 2^(HI - 1)
<1>1. /\ LO - 1 \in 0..XLEN /\ LO \in 0..XLEN /\ HI - 1 \in 0..XLEN
      /\ HI \in 0..XLEN /\ W32 - 1 \in 0..XLEN /\ W32 \in 0..XLEN
      /\ LO - 1 <= LO /\ HI - 1 <= HI /\ LO <= W32 /\ LO <= W32 - 1
      /\ 0 <= 1 /\ 1 \in 0..XLEN
      /\ W32 - LO = HI /\ (W32 - 1) - LO = HI - 1
      /\ LO - (LO - 1) = 1 /\ HI - (HI - 1) = 1
  BY WidthAssumption
<1>2. 2^1 = 2 BY SMT
<1>3. /\ B \in Nat \ {0} /\ K \in Nat \ {0}
      /\ 2^LO = 2^(LO - 1) * 2^(LO - (LO - 1))
      /\ 2^HI = 2^(HI - 1) * 2^(HI - (HI - 1))
      /\ 2^W32 = 2^LO * 2^(W32 - LO)
      /\ 2^(W32 - 1) = 2^LO * 2^((W32 - 1) - LO)
  BY <1>1, PowerAssumption
<1>4. /\ 2^LO = 2 * B /\ 2^HI = 2 * K
      /\ 2^W32 = (2 * B) * (2 * K) /\ 2^(W32 - 1) = K * (2 * B)
  BY <1>1, <1>2, <1>3
<1>. DEFINE hi == ((o + B) \div (2 * B)) % (2 * K)
            l == (o - hi * (2 * B)) % (2 * B)
<1>5. Hi20Field(o) = hi BY <1>4 DEF Hi20Field, Field, Bias
<1>6. U(o - Hi20Field(o) * 2^LO, LO) = l BY <1>4, <1>5 DEF U
<1>7. /\ S(hi * 2^LO, W32) = SExt(hi * (2 * B), (2 * B) * (2 * K), K * (2 * B))
      /\ S(l, LO) = SExt(l, 2 * B, B)
  BY <1>4 DEF S, U, SExt
<1>8. -(K * (2 * B)) - B <= o /\ o < K * (2 * B) - B
  BY <1>4 DEF riscv_insn_valid_32bit_offset, Bias
<1>9. SExt(hi * (2 * B), (2 * B) * (2 * K), K * (2 * B)) + SExt(l, 2 * B, B) = o
  BY <1>3, <1>8, SplitArith
<1>. QED BY <1>5, <1>6, <1>7, <1>9 DEF AuipcValue

(***************************************************************************)
(* How one entry ends: it succeeds, moving the loop on by one with no cell *)
(* outside C changed, or the function returns Err or panics with memory    *)
(* as it stands.                                                           *)
(***************************************************************************)
StepWithin(C) ==
    \/ /\ i' = i + 1 /\ status' = status
       /\ \A c \in Addr \ C : mem'[c] = mem[c]
    \/ /\ i' = i /\ mem' = mem /\ status' \in {"err", "panic"}

\* the kinds whose handler patches an auipc/jalr pair
CallTypes == {R_RISCV_CALL, R_RISCV_CALL_PLT}

\* returning Err or panicking writes nothing
LEMMA FailWithin ==
    ASSUME NEW s \in {"err", "panic"}, Fail(s), NEW C
    PROVE  StepWithin(C)
BY DEF Fail, StepWithin

\* writing one cell, or the low bits of one cell, touches that cell only
LEMMA SetWithin ==
    ASSUME TypeOK, NEW loc, NEW C, loc \in C,
           \/ \E v : Succeed(Set(loc, v))
           \/ \E v, w : Succeed(SetLow(loc, v, w))
    PROVE  StepWithin(C)
BY DEF TypeOK, Succeed, Set, SetLow, StepWithin

LEMMA Handler32Within ==
    ASSUME TypeOK, NEW loc, NEW addr, apply_r_riscv_32_rela(loc, addr)
    PROVE  StepWithin({loc})
BY FailWithin, SetWithin DEF apply_r_riscv_32_rela

LEMMA SpliceWithin ==
    ASSUME TypeOK, NEW loc, NEW addr, NEW n, apply_r_riscv_pc_splice_rela(loc, addr, n)
    PROVE  StepWithin({loc})
BY FailWithin, SetWithin DEF apply_r_riscv_pc_splice_rela

LEMMA PcrelHi20Within ==
    ASSUME TypeOK, NEW loc, NEW addr, apply_r_riscv_pcrel_hi20_rela(loc, addr)
    PROVE  StepWithin({loc})
BY FailWithin, SetWithin DEF apply_r_riscv_pcrel_hi20_rela

LEMMA Hi20Within ==
    ASSUME TypeOK, NEW loc, NEW addr, apply_r_riscv_hi20_rela(loc, addr)
    PROVE  StepWithin({loc})
BY FailWithin, SetWithin DEF apply_r_riscv_hi20_rela

LEMMA Lo12Within ==
    ASSUME TypeOK, NEW loc, NEW addr, apply_r_riscv_lo12_rela(loc, addr)
    PROVE  StepWithin({loc})
BY FailWithin, SetWithin DEF apply_r_riscv_lo12_rela

LEMMA SubWithin ==
    ASSUME TypeOK, NEW loc, NEW addr, NEW w, apply_r_riscv_sub_rela(loc, addr, w)
    PROVE  StepWithin({loc})
BY FailWithin, SetWithin DEF apply_r_riscv_sub_rela

LEMMA CallWithin ==
    ASSUME TypeOK, NEW loc, NEW addr, apply_r_riscv_call_rela(loc, addr)
    PROVE  StepWithin({loc, loc + 4})
BY FailWithin DEF apply_r_riscv_call_rela, TypeOK, Succeed, StepWithin

\* apply_relocation writes only the cells Writes names for its kind
LEMMA DispatchWithin ==
    ASSUME TypeOK, NEW r, NEW addr,
           apply_relocation(r.type, Location(r), addr)
    PROVE  StepWithin(Writes(r))
<1>. DEFINE loc == Location(r)  k == r.type
<1>. USE DEF PcrelLo12Types, CallTypes, R_RISCV_32, R_RISCV_64, R_RISCV_BRANCH, R_RISCV_JAL, R_RISCV_RVC_BRANCH, R_RISCV_RVC_JUMP, R_RISCV_PCREL_HI20, R_RISCV_PCREL_LO12_I, R_RISCV_PCREL_LO12_S, R_RISCV_HI20, R_RISCV_LO12_I, R_RISCV_LO12_S, R_RISCV_CALL, R_RISCV_CALL_PLT, R_RISCV_RELAX, R_RISCV_ALIGN, R_RISCV_ADD16, R_RISCV_ADD32, R_RISCV_ADD64, R_RISCV_SUB16, R_RISCV_SUB32, R_RISCV_SUB64
<1>1. CASE k \in CallTypes
  <2>1. apply_r_riscv_call_rela(loc, addr) BY <1>1 DEF apply_relocation
  <2>2. Writes(r) = {loc, loc + 4} BY <1>1 DEF Writes
  <2>. QED BY <2>1, <2>2, CallWithin
<1>2. CASE k \in {R_RISCV_RELAX, R_RISCV_ALIGN}
  <2>1. Succeed(mem) \/ Fail("err") BY <1>2 DEF apply_relocation
  <2>. QED BY <2>1, FailWithin DEF Succeed, StepWithin
<1>3. CASE k \notin CallTypes \cup {R_RISCV_RELAX, R_RISCV_ALIGN}
  <2>1. Writes(r) = {loc} BY <1>3 DEF Writes
  <2>2. StepWithin({loc})
    <3>1. CASE k = R_RISCV_32
      BY <3>1, Handler32Within DEF apply_relocation
    <3>2. CASE k = R_RISCV_64
      BY <3>2, SetWithin DEF apply_relocation, apply_r_riscv_64_rela
    <3>3. CASE k \in {R_RISCV_BRANCH, R_RISCV_JAL, R_RISCV_RVC_BRANCH, R_RISCV_RVC_JUMP}
      <4>1. \E n : apply_r_riscv_pc_splice_rela(loc, addr, n)
        BY <3>3 DEF apply_relocation
      <4>. QED BY <4>1, SpliceWithin
    <3>4. CASE k = R_RISCV_PCREL_HI20
      BY <3>4, PcrelHi20Within DEF apply_relocation
    <3>5. CASE k \in PcrelLo12Types
      BY <3>5, SetWithin DEF apply_relocation, apply_r_riscv_pcrel_lo12_rela
    <3>6. CASE k = R_RISCV_HI20
      BY <3>6, Hi20Within DEF apply_relocation
    <3>7. CASE k \in {R_RISCV_LO12_I, R_RISCV_LO12_S}
      BY <3>7, Lo12Within DEF apply_relocation
    <3>8. CASE k \in {R_RISCV_ADD16, R_RISCV_ADD32, R_RISCV_ADD64}
      <4>1. \E w : apply_r_riscv_add_rela(loc, addr, w)
        BY <3>8 DEF apply_relocation
      <4>. QED BY <4>1, SetWithin DEF apply_r_riscv_add_rela
    <3>9. CASE k \in {R_RISCV_SUB16, R_RISCV_SUB32, R_RISCV_SUB64}
      <4>1. \E w : apply_r_riscv_sub_rela(loc, addr, w)
        BY <3>9 DEF apply_relocation
      <4>. QED BY <4>1, SubWithin
    <3>10. CASE k \notin Dispatched
      <4>1. Fail("panic") BY <3>10 DEF apply_relocation, Dispatched
      <4>. QED BY <4>1, FailWithin
    <3>. QED BY <1>3, <3>1, <3>2, <3>3, <3>4, <3>5, <3>6, <3>7, <3>8, <3>9, <3>10 DEF Dispatched
  <2>. QED BY <2>1, <2>2
<1>. QED BY <1>1, <1>2, <1>3

\* one iteration of the loop writes only the cells of entry i
LEMMA ApplyRelaWithin ==
    ASSUME TypeOK, ApplyRela
    PROVE  StepWithin(Writes(relas[i]))
<1>. DEFINE r == relas[i]
<1>1. CASE Fail("panic") \/ Fail("err") BY <1>1, FailWithin
<1>2. CASE apply_relocation(r.type, Location(r), U(TargetRaw(r), XLEN))
  BY <1>2, DispatchWithin
<1>3. CASE ResolvePcrelLo12(r)
  <2>1. CASE Fail("err") \/ Fail("panic") BY <2>1, FailWithin
  <2>2. CASE \E j \in ScanStops(SymValue(r)) :
               apply_relocation(r.type, Location(r), U(PairArith(j).lo_12, XLEN))
    BY <2>2, DispatchWithin
  <2>. QED BY <1>3, <2>1, <2>2 DEF ResolvePcrelLo12
<1>. QED BY <1>1, <1>2, <1>3 DEF ApplyRela

\* apply_relocation hands a CALL or CALL_PLT to apply_r_riscv_call_rela
LEMMA CallDispatch ==
    ASSUME NEW k \in CallTypes, NEW loc, NEW addr, apply_relocation(k, loc, addr)
    PROVE  apply_r_riscv_call_rela(loc, addr)
BY DEF apply_relocation, CallTypes, PcrelLo12Types, R_RISCV_32, R_RISCV_64,
   R_RISCV_BRANCH, R_RISCV_JAL, R_RISCV_RVC_BRANCH, R_RISCV_RVC_JUMP,
   R_RISCV_PCREL_HI20, R_RISCV_PCREL_LO12_I, R_RISCV_PCREL_LO12_S,
   R_RISCV_HI20, R_RISCV_LO12_I, R_RISCV_LO12_S, R_RISCV_CALL, R_RISCV_CALL_PLT,
   R_RISCV_RELAX, R_RISCV_ALIGN, R_RISCV_ADD16, R_RISCV_ADD32, R_RISCV_ADD64,
   R_RISCV_SUB16, R_RISCV_SUB32, R_RISCV_SUB64

\* a CALL entry the loop moves past has had its two cells patched with
\* the hi20 and lo12 of its offset, which passed the range check
LEMMA CallStep ==
    ASSUME TypeOK, ApplyRela, i' = i + 1, relas[i].type \in CallTypes
    PROVE  LET r == relas[i]
               o == PcOffset(r)
           IN  /\ r.sym \in DOMAIN syms
               /\ mem'[Location(r)] = Hi20Field(o)
               /\ mem'[Location(r) + 4] = U(o - Hi20Field(o) * 2^LO, LO)
               /\ riscv_insn_valid_32bit_offset(o)
<1>. DEFINE r == relas[i]  loc == Location(r)  addr == U(TargetRaw(r), XLEN)
            offset == S(PcOffsetRaw(loc, addr), XLEN)
<1>1. r \in Rela /\ i \in Nat BY RelasFacts DEF TypeOK, ApplyRela
<1>2. loc \in Addr /\ loc + 4 \in Addr /\ loc \in Int
  BY <1>1, LocFacts DEF Location, Rela
<1>3. ~Fail("panic") /\ ~Fail("err") BY <1>1 DEF Fail
<1>4. r.type \notin PcrelLo12Types
  BY DEF CallTypes, PcrelLo12Types, R_RISCV_CALL, R_RISCV_CALL_PLT,
         R_RISCV_PCREL_LO12_I, R_RISCV_PCREL_LO12_S
<1>5. r.sym \in DOMAIN syms /\ apply_relocation(r.type, loc, addr)
  BY <1>3, <1>4 DEF ApplyRela
<1>6. apply_r_riscv_call_rela(loc, addr) BY <1>5, CallDispatch
<1>7. /\ riscv_insn_valid_32bit_offset(offset)
      /\ mem' = [mem EXCEPT ![loc] = Hi20Field(offset),
                            ![loc + 4] = U(offset - Hi20Field(offset) * 2^LO, LO)]
  BY <1>3, <1>6 DEF apply_r_riscv_call_rela, Succeed
<1>8. offset = PcOffset(r) BY DEF PcOffset
<1>. QED BY <1>2, <1>5, <1>7, <1>8 DEF TypeOK

(***************************************************************************)
(* The inductive invariant: an applied CALL whose cells no other entry    *)
(* writes still holds in them the hi20 and lo12 its handler wrote, and    *)
(* its offset passed the range check.  CallReassembles follows from it by *)
(* CallSplit; it is needed because CallReassembles alone says nothing of  *)
(* the cells of an entry whose offset is out of range, and so is not      *)
(* preserved by itself.                                                    *)
(***************************************************************************)
CallInvOf(m, n) ==
    \A j \in 1..Len(relas) :
      LET r == relas[j]
          o == PcOffset(r)
      IN  (r.type \in CallTypes /\ j < n /\ Untouched(Writes(r), {j}))
            => /\ r.sym \in DOMAIN syms
               /\ m[Location(r)] = Hi20Field(o)
               /\ m[Location(r) + 4] = U(o - Hi20Field(o) * 2^LO, LO)
               /\ riscv_insn_valid_32bit_offset(o)

CallInv == CallInvOf(mem, i)

\* a step that keeps the section and the symbol table keeps what CallInv
\* says of them: only memory and the loop index are primed
LEMMA CallInvPrime ==
    ASSUME relas' = relas, syms' = syms
    PROVE  CallInv' = CallInvOf(mem', i')
BY DEF CallInv, CallInvOf, Untouched, Writes, PcOffset, TargetRaw, SymValue, Location

\* before the loop nothing has been applied
LEMMA CallInvInit ==
    ASSUME Init
    PROVE  CallInv
BY DEF Init, CallInv, CallInvOf

\* an iteration keeps the patched pair of every applied CALL: the new entry
\* writes only its own cells, which are not that CALL's, and a CALL the
\* loop moves past patches its pair
LEMMA CallInvApply ==
    ASSUME TypeOK, CallInv, ApplyRela
    PROVE  CallInv'
<1>1. UNCHANGED <<relas, syms, checked>> BY DEF ApplyRela
<1>2. StepWithin(Writes(relas[i])) BY ApplyRelaWithin
<1>3. i \in 1..Len(relas) /\ Len(relas) \in Nat BY RelasFacts DEF TypeOK, ApplyRela
<1>4. SUFFICES ASSUME NEW j \in 1..Len(relas), relas[j].type \in CallTypes, j < i',
                     Untouched(Writes(relas[j]), {j})
              PROVE  LET r == relas[j]
                         o == PcOffset(r)
                     IN  /\ r.sym \in DOMAIN syms
                         /\ mem'[Location(r)] = Hi20Field(o)
                         /\ mem'[Location(r) + 4] = U(o - Hi20Field(o) * 2^LO, LO)
                         /\ riscv_insn_valid_32bit_offset(o)
  <2>1. CallInv' = CallInvOf(mem', i') BY <1>1, CallInvPrime
  <2>. QED BY <2>1 DEF CallInvOf
<1>. DEFINE r == relas[j]  loc == Location(r)
<1>5. CASE j < i
  <2>1. /\ r.sym \in DOMAIN syms
        /\ mem[loc] = Hi20Field(PcOffset(r))
        /\ mem[loc + 4] = U(PcOffset(r) - Hi20Field(PcOffset(r)) * 2^LO, LO)
        /\ riscv_insn_valid_32bit_offset(PcOffset(r))
    BY <1>4, <1>5 DEF CallInv, CallInvOf
  <2>2. Writes(relas[i]) \cap Writes(r) = {} BY <1>3, <1>4, <1>5 DEF Untouched
  <2>3. loc \in Addr /\ loc + 4 \in Addr /\ {loc, loc + 4} = Writes(r)
    <3>1. r \in Rela BY <1>3, RelasFacts
    <3>. QED BY <1>4, <3>1, LocFacts DEF Location, Rela, Writes, CallTypes
  <2>4. mem'[loc] = mem[loc] /\ mem'[loc + 4] = mem[loc + 4]
    BY <1>2, <2>2, <2>3 DEF StepWithin
  <2>. QED BY <2>1, <2>4
<1>6. CASE j >= i
  <2>1. j = i /\ i' = i + 1 BY <1>2, <1>3, <1>4, <1>6 DEF StepWithin
  <2>. QED BY <1>4, <2>1, CallStep
<1>. QED BY <1>3, <1>5, <1>6

\* returning Ok(()), or a stutter, leaves memory and the loop as they are
LEMMA CallInvKeep ==
    ASSUME CallInv, UNCHANGED <<mem, i, relas, syms>>
    PROVE  CallInv'
<1>1. CallInv' = CallInvOf(mem', i') BY CallInvPrime
<1>. QED BY <1>1 DEF CallInv

\* the offset an applied CALL was patched for is an integer
LEMMA PcOffsetType ==
    ASSUME TypeOK, NEW r \in Rela, r.sym \in DOMAIN syms
    PROVE  PcOffset(r) \in Int
<1>1. TargetRaw(r) \in Int BY TargetRawType
<1>2. U(TargetRaw(r), XLEN) \in Int
  <2>1. XLEN \in 0..XLEN BY WidthFacts
  <2>. QED BY <1>1, <2>1, UType DEF Word
<1>3. Location(r) \in Int BY LocFacts DEF Location, Rela
<1>4. PcOffsetRaw(Location(r), U(TargetRaw(r), XLEN)) \in Int
  BY <1>2, <1>3, PcOffsetRawType
<1>. QED BY <1>4, SType, Widths DEF PcOffset

\* the pair an applied CALL holds adds its offset to pc
LEMMA CallInvReassembles ==
    ASSUME TypeOK, CallInv
    PROVE  CallReassembles
<1>1. SUFFICES ASSUME NEW j \in 1..Len(relas), relas[j].type \in CallTypes,
                     Applied(j), Untouched(Writes(relas[j]), {j})
              PROVE  AuipcValue(mem[Location(relas[j])], mem[Location(relas[j]) + 4])
                       = PcOffset(relas[j])
  BY DEF CallReassembles, CallTypes
<1>. DEFINE r == relas[j]  o == PcOffset(r)
<1>2. /\ r.sym \in DOMAIN syms
      /\ mem[Location(r)] = Hi20Field(o)
      /\ mem[Location(r) + 4] = U(o - Hi20Field(o) * 2^LO, LO)
      /\ riscv_insn_valid_32bit_offset(o)
  BY <1>1 DEF CallInv, CallInvOf, Applied
<1>3. r \in Rela BY RelasFacts
<1>4. o \in Int BY <1>2, <1>3, PcOffsetType
<1>5. AuipcValue(Hi20Field(o), U(o - Hi20Field(o) * 2^LO, LO)) = o
  BY <1>2, <1>4, CallSplit
<1>. QED BY <1>2, <1>5

(***************************************************************************)
(* Calls reach their targets: in every run of apply_relocate_add, for     *)
(* every width and input the assumptions allow, once the loop has moved   *)
(* past a CALL/CALL_PLT entry whose two cells no other entry writes, the  *)
(* auipc hi20 and jalr lo12 that apply_r_riscv_call_rela wrote there add   *)
(* exactly the offset S+A-L to pc.                                         *)
(***************************************************************************)
THEOREM CallCorrect == Spec => []CallReassembles
<1>1. Init => TypeOK /\ CallInv BY InitOK, CallInvInit
<1>2. TypeOK /\ CallInv /\ [Next]_vars => (TypeOK /\ CallInv)'
  <2>1. SUFFICES ASSUME TypeOK, CallInv, [Next]_vars
                 PROVE  TypeOK' /\ CallInv'
    OBVIOUS
  <2>2. CASE ApplyRela BY <2>1, <2>2, ApplyRelaOK, CallInvApply
  <2>3. CASE Finish
    <3>1. UNCHANGED <<mem, i, relas, syms>> BY <2>3 DEF Finish
    <3>. QED BY <2>1, <2>3, <3>1, FinishOK, CallInvKeep
  <2>4. CASE UNCHANGED vars
    <3>1. UNCHANGED <<mem, i, relas, syms>> BY <2>4 DEF vars
    <3>2. TypeOK' BY <2>1, <2>4 DEF vars, TypeOK
    <3>. QED BY <2>1, <3>1, <3>2, CallInvKeep
  <2>. QED BY <2>1, <2>2, <2>3, <2>4 DEF Next
<1>3. TypeOK /\ CallInv => CallReassembles BY CallInvReassembles
<1>. QED BY <1>1, <1>2, <1>3, PTL DEF Spec

(***************************************************************************)
(* Branches and jumps within reach.  BRANCH, JAL, RVC_BRANCH and RVC_JUMP *)
(* splice bits n-1..1 of the offset into an n-bit immediate; an even      *)
(* offset that fits n bits reads back from it unchanged.                   *)
(***************************************************************************)

\* the splice of an even x in [-P, P): halve it, keep it mod P, and the
\* double of that read as a signed number of 2P is x again
LEMMA SpliceArith ==
    ASSUME NEW P \in Nat \ {0}, NEW x \in Int, x % 2 = 0, -P <= x, x < P
    PROVE  LET y == 2 * ((x \div 2) % P)
           IN  (IF y % (2 * P) >= P THEN (y % (2 * P)) - 2 * P ELSE y % (2 * P)) = x
<1>1. PICK h \in Int : h = x \div 2 BY SMT
<1>2. x = 2 * h BY <1>1, SMT
<1>3. CASE h >= 0
  <2>1. h % P = h BY <1>2, <1>3, SMT
  <2>2. (2 * h) % (2 * P) = 2 * h BY <1>2, <1>3, SMT
  <2>. QED BY <1>1, <1>2, <1>3, <2>1, <2>2, SMT
<1>4. CASE h < 0
  <2>1. h % P = h + P BY <1>2, <1>4, SMT
  <2>2. (2 * (h + P)) % (2 * P) = 2 * (h + P) BY <1>2, <1>4, SMT
  <2>. QED BY <1>1, <1>2, <1>4, <2>1, <2>2, SMT
<1>. QED BY <1>3, <1>4

\* the four immediate widths and the kinds that have them
LEMMA SpliceKinds ==
    ASSUME NEW k, SpliceBits(k) > 0
    PROVE  /\ k \in {R_RISCV_BRANCH, R_RISCV_JAL, R_RISCV_RVC_BRANCH, R_RISCV_RVC_JUMP}
           /\ SpliceBits(k) \in {BranchBits, JalBits, RvcBranchBits, RvcJumpBits}
           /\ k \notin PcrelLo12Types
BY DEF SpliceBits, PcrelLo12Types, R_RISCV_BRANCH, R_RISCV_JAL, R_RISCV_RVC_BRANCH,
       R_RISCV_RVC_JUMP, R_RISCV_PCREL_LO12_I, R_RISCV_PCREL_LO12_S

\* an even offset within an n-bit reach survives the splice into the
\* immediate: S(2 * Field(x, 1, n - 1), n) = x
LEMMA SpliceFits ==
    ASSUME NEW n \in {BranchBits, JalBits, RvcBranchBits, RvcJumpBits},
           NEW x \in Int, x % 2 = 0, FitsI(x, n)
    PROVE  S(2 * Field(x, 1, n - 1), n) = x
<1>1. n \in 1..XLEN /\ n - 1 \in 0..XLEN /\ n \in 0..XLEN /\ 1 \in 0..XLEN
  BY WidthAssumption
<1>2. 2^n = 2^(n - 1) * 2^(n - (n - 1))
  <2>1. n - 1 <= n BY <1>1, SMT
  <2>2. \A a, b \in 0..XLEN : a <= b => 2^b = 2^a * 2^(b - a) BY PowerAssumption
  <2>. QED BY <1>1, <2>1, <2>2, Zenon
<1>3. 2^(n - 1) \in Nat \ {0} BY <1>1, PowBound
<1>4. 2^(n - (n - 1)) = 2 /\ 2^1 = 2 BY <1>1, SMT
<1>5. PICK P \in Nat \ {0} : P = 2^(n - 1) BY <1>3
<1>6. 2^n = 2 * P BY <1>2, <1>4, <1>5, SMT
<1>7. -P <= x /\ x < P BY <1>5 DEF FitsI
<1>8. LET y == 2 * ((x \div 2) % P)
      IN  (IF y % (2 * P) >= P THEN (y % (2 * P)) - 2 * P ELSE y % (2 * P)) = x
  BY <1>7, SpliceArith
<1>. QED BY <1>4, <1>5, <1>6, <1>8 DEF S, U, Field

\* apply_relocation hands the four kinds to the splice with their widths
LEMMA SpliceDispatch ==
    ASSUME NEW k, SpliceBits(k) > 0, NEW loc, NEW addr, apply_relocation(k, loc, addr)
    PROVE  apply_r_riscv_pc_splice_rela(loc, addr, SpliceBits(k))
BY DEF apply_relocation, SpliceBits, PcrelLo12Types, R_RISCV_32, R_RISCV_64,
   R_RISCV_BRANCH, R_RISCV_JAL, R_RISCV_RVC_BRANCH, R_RISCV_RVC_JUMP,
   R_RISCV_PCREL_HI20, R_RISCV_PCREL_LO12_I, R_RISCV_PCREL_LO12_S,
   R_RISCV_HI20, R_RISCV_LO12_I, R_RISCV_LO12_S, R_RISCV_CALL, R_RISCV_CALL_PLT,
   R_RISCV_RELAX, R_RISCV_ALIGN, R_RISCV_ADD16, R_RISCV_ADD32, R_RISCV_ADD64,
   R_RISCV_SUB16, R_RISCV_SUB32, R_RISCV_SUB64

\* a branch or jump the loop moves past has had its instruction patched
\* with bits n-1..1 of its offset
LEMMA SpliceStep ==
    ASSUME TypeOK, ApplyRela, i' = i + 1, SpliceBits(relas[i].type) > 0
    PROVE  LET r == relas[i]
           IN  /\ r.sym \in DOMAIN syms
               /\ mem'[Location(r)] = Field(PcOffset(r), 1, SpliceBits(r.type) - 1)
<1>. DEFINE r == relas[i]  loc == Location(r)  addr == U(TargetRaw(r), XLEN)
            raw == PcOffsetRaw(loc, addr)
<1>1. r \in Rela /\ i \in Nat BY RelasFacts DEF TypeOK, ApplyRela
<1>2. loc \in Addr BY <1>1, LocFacts DEF Location, Rela
<1>3. ~Fail("panic") /\ ~Fail("err") BY <1>1 DEF Fail
<1>4. r.type \notin PcrelLo12Types BY SpliceKinds
<1>5. r.sym \in DOMAIN syms /\ apply_relocation(r.type, loc, addr)
  BY <1>3, <1>4 DEF ApplyRela
<1>6. apply_r_riscv_pc_splice_rela(loc, addr, SpliceBits(r.type))
  BY <1>5, SpliceDispatch
<1>7. mem' = [mem EXCEPT ![loc] = Field(S(raw, XLEN), 1, SpliceBits(r.type) - 1)]
  BY <1>3, <1>6 DEF apply_r_riscv_pc_splice_rela, Succeed, Set
<1>8. S(raw, XLEN) = PcOffset(r) BY DEF PcOffset
<1>. QED BY <1>2, <1>5, <1>7, <1>8 DEF TypeOK

(***************************************************************************)
(* The inductive invariant: an applied branch or jump whose instruction   *)
(* no other entry writes still holds there the immediate its handler      *)
(* spliced.  It is needed because PcSplicesInRange says nothing of an     *)
(* entry whose offset is odd or out of reach, and so is not preserved by  *)
(* itself.                                                                 *)
(***************************************************************************)
SpliceInvOf(m, n) ==
    \A j \in 1..Len(relas) :
      LET r == relas[j] IN
      (SpliceBits(r.type) > 0 /\ j < n /\ Untouched({Location(r)}, {j}))
        => /\ r.sym \in DOMAIN syms
           /\ m[Location(r)] = Field(PcOffset(r), 1, SpliceBits(r.type) - 1)

SpliceInv == SpliceInvOf(mem, i)

LEMMA SpliceInvPrime ==
    ASSUME relas' = relas, syms' = syms
    PROVE  SpliceInv' = SpliceInvOf(mem', i')
BY DEF SpliceInv, SpliceInvOf, Untouched, Writes, PcOffset, TargetRaw, SymValue, Location

LEMMA SpliceInvInit ==
    ASSUME Init
    PROVE  SpliceInv
BY DEF Init, SpliceInv, SpliceInvOf

\* an iteration keeps the immediate of every applied branch: the new
\* entry writes only its own cells, and a branch the loop moves past
\* splices its immediate
LEMMA SpliceInvApply ==
    ASSUME TypeOK, SpliceInv, ApplyRela
    PROVE  SpliceInv'
<1>1. UNCHANGED <<relas, syms, checked>> BY DEF ApplyRela
<1>2. StepWithin(Writes(relas[i])) BY ApplyRelaWithin
<1>3. i \in 1..Len(relas) /\ Len(relas) \in Nat BY RelasFacts DEF TypeOK, ApplyRela
<1>4. SUFFICES ASSUME NEW j \in 1..Len(relas), SpliceBits(relas[j].type) > 0, j < i',
                     Untouched({Location(relas[j])}, {j})
              PROVE  /\ relas[j].sym \in DOMAIN syms
                     /\ mem'[Location(relas[j])]
                          = Field(PcOffset(relas[j]), 1, SpliceBits(relas[j].type) - 1)
  <2>1. SpliceInv' = SpliceInvOf(mem', i') BY <1>1, SpliceInvPrime
  <2>. QED BY <2>1 DEF SpliceInvOf
<1>. DEFINE r == relas[j]  loc == Location(r)
<1>5. CASE j < i
  <2>1. /\ r.sym \in DOMAIN syms
        /\ mem[loc] = Field(PcOffset(r), 1, SpliceBits(r.type) - 1)
    BY <1>4, <1>5 DEF SpliceInv, SpliceInvOf
  <2>2. Writes(relas[i]) \cap {loc} = {} BY <1>3, <1>4, <1>5 DEF Untouched
  <2>3. loc \in Addr
    <3>1. r \in Rela BY <1>3, RelasFacts
    <3>. QED BY <3>1, LocFacts DEF Location, Rela
  <2>4. mem'[loc] = mem[loc] BY <1>2, <2>2, <2>3 DEF StepWithin
  <2>. QED BY <2>1, <2>4
<1>6. CASE j >= i
  <2>1. j = i /\ i' = i + 1 BY <1>2, <1>3, <1>4, <1>6 DEF StepWithin
  <2>. QED BY <1>4, <2>1, SpliceStep
<1>. QED BY <1>3, <1>5, <1>6

LEMMA SpliceInvKeep ==
    ASSUME SpliceInv, UNCHANGED <<mem, i, relas, syms>>
    PROVE  SpliceInv'
<1>1. SpliceInv' = SpliceInvOf(mem', i') BY SpliceInvPrime
<1>. QED BY <1>1 DEF SpliceInv

\* the immediate an applied branch holds reads back as its offset when
\* that offset is even and within reach
LEMMA SpliceInvInRange ==
    ASSUME TypeOK, SpliceInv
    PROVE  PcSplicesInRange
<1>1. SUFFICES ASSUME NEW j \in 1..Len(relas), SpliceBits(relas[j].type) > 0,
                     Applied(j), Untouched({Location(relas[j])}, {j}),
                     PcOffset(relas[j]) % 2 = 0,
                     FitsI(PcOffset(relas[j]), SpliceBits(relas[j].type))
              PROVE  S(2 * mem[Location(relas[j])], SpliceBits(relas[j].type))
                       = PcOffset(relas[j])
  BY DEF PcSplicesInRange
<1>. DEFINE r == relas[j]  o == PcOffset(r)  n == SpliceBits(r.type)
<1>2. /\ r.sym \in DOMAIN syms
      /\ mem[Location(r)] = Field(o, 1, n - 1)
  BY <1>1 DEF SpliceInv, SpliceInvOf, Applied
<1>3. r \in Rela BY RelasFacts
<1>4. o \in Int BY <1>2, <1>3, PcOffsetType
<1>5. n \in {BranchBits, JalBits, RvcBranchBits, RvcJumpBits} BY <1>1, SpliceKinds
<1>6. S(2 * Field(o, 1, n - 1), n) = o BY <1>1, <1>4, <1>5, SpliceFits
<1>. QED BY <1>2, <1>6

(***************************************************************************)
(* Branches and jumps within reach land on their targets: in every run of *)
(* apply_relocate_add, for every width and input the assumptions allow,   *)
(* once the loop has moved past a BRANCH, JAL, RVC_BRANCH or RVC_JUMP     *)
(* whose instruction no other entry writes, the immediate that            *)
(* apply_r_riscv_pc_splice_rela spliced reads back as the offset to S+A   *)
(* whenever that offset is even and fits the immediate.                   *)
(***************************************************************************)
THEOREM BranchCorrect == Spec => []PcSplicesInRange
<1>1. Init => TypeOK /\ SpliceInv BY InitOK, SpliceInvInit
<1>2. TypeOK /\ SpliceInv /\ [Next]_vars => (TypeOK /\ SpliceInv)'
  <2>1. SUFFICES ASSUME TypeOK, SpliceInv, [Next]_vars
                 PROVE  TypeOK' /\ SpliceInv'
    OBVIOUS
  <2>2. CASE ApplyRela BY <2>1, <2>2, ApplyRelaOK, SpliceInvApply
  <2>3. CASE Finish
    <3>1. UNCHANGED <<mem, i, relas, syms>> BY <2>3 DEF Finish
    <3>. QED BY <2>1, <2>3, <3>1, FinishOK, SpliceInvKeep
  <2>4. CASE UNCHANGED vars
    <3>1. UNCHANGED <<mem, i, relas, syms>> BY <2>4 DEF vars
    <3>2. TypeOK' BY <2>1, <2>4 DEF vars, TypeOK
    <3>. QED BY <2>1, <3>1, <3>2, SpliceInvKeep
  <2>. QED BY <2>1, <2>2, <2>3, <2>4 DEF Next
<1>3. TypeOK /\ SpliceInv => PcSplicesInRange BY SpliceInvInRange
<1>. QED BY <1>1, <1>2, <1>3, PTL DEF Spec

====
