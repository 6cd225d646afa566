---------------------- MODULE RiscvRelocatePairProofs ----------------------
(***************************************************************************)
(* An absolute lui/addi pair reaches its target modulo 2^32: the hi20 a   *)
(* HI20 entry writes (rounded on the u64 address) and the lo12 a LO12_I or *)
(* LO12_S entry for the same S+A writes (rounded on the address cut to    *)
(* i32) add up to the low 32 bits of S+A, for every width and every input *)
(* that satisfies the assumptions of RiscvRelocate, in a build that wraps *)
(* and in one that traps alike.                                            *)
(***************************************************************************)
EXTENDS RiscvRelocateDataProofs, WrapArith

(***************************************************************************)
(* What the two handlers write for a target t = S+A (before the cut to     *)
(* u64 that apply_relocate_add makes when it passes the target on).        *)
(***************************************************************************)
\* apply_r_riscv_hi20_rela on `t as u64`, when it does not panic
HiOf(t) == Field(U(U(t, XLEN) + Bias, XLEN), LO, HI)

\* apply_r_riscv_lo12_rela on `t as u64`, when it does not panic
LoOf(t) ==
    LET a == S(U(t, XLEN), W32)
        hi20 == (S(a + Bias, W32) \div 2^LO) * 2^LO
    IN  U(S(a - hi20, W32), LO)

(***************************************************************************)
(* The widths as the powers WrapArith works with: the bias B, the lo part  *)
(* P = 2^LO = 2B, the hi part Q = 2^HI, M = 2^W32 = P Q, X = 2^XLEN = M R. *)
(***************************************************************************)
LEMMA AbsPow ==
    /\ Bias \in Nat \ {0} /\ 2^LO \in Nat \ {0} /\ 2^HI \in Nat \ {0}
    /\ 2^W32 \in Nat \ {0} /\ 2^(XLEN - W32) \in Nat \ {0} /\ 2^XLEN \in Nat \ {0}
    /\ Dims(Bias, 2^HI, 2^(XLEN - W32), 2^LO, 2^W32, 2^XLEN)
<1>1. /\ LO - 1 \in 0..XLEN /\ LO \in 0..XLEN /\ HI \in 0..XLEN
      /\ W32 \in 0..XLEN /\ 1 \in 0..XLEN
      /\ LO - 1 <= LO /\ LO <= W32 /\ W32 - LO = HI /\ LO - (LO - 1) = 1
  BY WidthAssumption
<1>2. 2^1 = 2 BY SMT
<1>3. Bias \in Nat \ {0} /\ 2^LO = Bias * 2^(LO - (LO - 1))
  <2>. LO - 1 <= LO => (2^(LO - 1) \in Nat \ {0} /\ 2^LO = 2^(LO - 1) * 2^(LO - (LO - 1)))
    BY <1>1, PowerAssumption
  <2>. QED BY <1>1 DEF Bias
<1>3b. 2^HI \in Nat \ {0} BY <1>1, PowBound
<1>3c. 2^W32 = 2^LO * 2^(W32 - LO)
  <2>. LO <= W32 => (2^W32 = 2^LO * 2^(W32 - LO)) BY <1>1, PowerAssumption
  <2>. QED BY <1>1
<1>4a. 2^(LO - (LO - 1)) = 2 /\ 2^(W32 - LO) = 2^HI BY <1>1, <1>2, Zenon
<1>4. /\ 2^LO = 2 * Bias /\ 2^W32 = 2^LO * 2^HI BY <1>3, <1>3c, <1>4a, SMT
<1>5. /\ 2^W32 \in Nat \ {0} /\ 2^(XLEN - W32) \in Nat \ {0}
      /\ 2^XLEN = 2^W32 * 2^(XLEN - W32)
  BY W32Pow
<1>6. 2^LO \in Nat \ {0} /\ 2^XLEN \in Nat \ {0} BY <1>1, PowBound
<1>. QED BY <1>3, <1>3b, <1>4, <1>5, <1>6 DEF Dims

\* `x as iW`, read mod 2^w, is x mod 2^w
LEMMA SMod ==
    ASSUME NEW w, 2^w \in Nat \ {0}, NEW v \in Int
    PROVE  Mod(S(v, w), 2^w) = Mod(v, 2^w)
<1>1. U(v, w) = Mod(v, 2^w) BY DEF U, Mod
<1>2. RangeFact(2^w, v) BY RangeAll
<1>3. U(v, w) \in 0..(2^w - 1) /\ U(v, w) \in Int /\ 0 \in Int /\ -1 \in Int
  BY <1>1, <1>2 DEF RangeFact
<1>4. Mod(U(v, w), 2^w) = U(v, w)
  <2>1. ModIsFact(2^w, U(v, w), 0, U(v, w)) BY <1>3, ModIsAll
  <2>2. U(v, w) = 2^w * 0 + U(v, w) BY <1>3, SMT
  <2>. QED BY <2>1, <2>2 DEF ModIsFact
<1>5. Mod(U(v, w) - 2^w, 2^w) = U(v, w)
  <2>1. MulFact(2^w, U(v, w), -1) BY <1>3, MulAll
  <2>2. U(v, w) + 2^w * (-1) = U(v, w) - 2^w BY <1>3, SMT
  <2>. QED BY <1>4, <2>1, <2>2 DEF MulFact
<1>. QED BY <1>1, <1>4, <1>5 DEF S

\* a residue is its own residue
LEMMA ModIdem ==
    ASSUME NEW N \in Nat \ {0}, NEW t \in Int
    PROVE  Mod(Mod(t, N), N) = Mod(t, N)
<1>1. ModModFact(N, 1, N, t) BY ModModAll
<1>2. N = N * 1 BY SMT
<1>. QED BY <1>1, <1>2 DEF ModModFact

\* lui's hi20 and addi's lo12 for one target t, as the handlers compute
\* them, reassemble to t mod 2^32 (AbsSplitArith on the model's widths)
LEMMA AbsValueArith ==
    ASSUME NEW t \in Int
    PROVE  U(AuipcValue(HiOf(t), LoOf(t)), W32) = U(t, W32)
<1>. DEFINE P == 2^LO  Q == 2^HI  M == 2^W32  R == 2^(XLEN - W32)  X == 2^XLEN
<1>1. /\ Bias \in Nat \ {0} /\ P \in Nat \ {0} /\ Q \in Nat \ {0}
      /\ M \in Nat \ {0} /\ R \in Nat \ {0} /\ X \in Nat \ {0}
      /\ Dims(Bias, Q, R, P, M, X)
  BY AbsPow
<1>1x. X = M * R BY <1>1 DEF Dims
<1>1w. W32 \in 1..XLEN /\ XLEN \in 1..XLEN /\ LO \in 1..XLEN BY WidthFacts
<1>2. PICK xt \in Int : xt = U(t, XLEN) BY <1>1w, UType
<1>3. PICK av \in Int : av = S(xt, W32) BY <1>1w, <1>2, SType
<1>4. PICK s1 \in Int : s1 = S(av + Bias, W32) BY <1>1, <1>1w, <1>3, SType
<1>5. PICK qd \in Int : qd = av - (s1 \div P) * P BY <1>1, <1>3, <1>4
<1>6. PICK d \in Int : d = S(qd, W32) BY <1>1w, <1>5, SType
<1>7. PICK h \in Int : h = HiOf(t)
  <2>1. U(xt + Bias, XLEN) \in Int BY <1>1, <1>1w, <1>2, UType
  <2>2. HiOf(t) = (U(xt + Bias, XLEN) \div P) % Q BY <1>2 DEF HiOf, Field
  <2>. QED BY <1>1, <2>1, <2>2
<1>8. PICK e \in Int : e = S(h * P, W32) BY <1>1, <1>1w, <1>7, SType
<1>9. LoOf(t) = Mod(d, P) BY <1>2, <1>3, <1>4, <1>5, <1>6 DEF LoOf, U, Mod
<1>10. AuipcValue(h, LoOf(t)) = e + SignedMod(Mod(d, P), P, Bias)
  BY <1>8, <1>9 DEF AuipcValue, S, U, SignedMod, Mod, Bias
<1>11. Mod(av, M) = Mod(t, M)
  <2>1. Mod(av, M) = Mod(xt, M) BY <1>1, <1>2, <1>3, SMod
  <2>2. xt = Mod(t, X) BY <1>2 DEF U, Mod
  <2>3. ModModFact(M, R, X, t) BY <1>1, ModModAll
  <2>. QED BY <1>1x, <2>1, <2>2, <2>3 DEF ModModFact
<1>12. Mod(s1, M) = Mod(av + Bias, M) BY <1>1, <1>3, <1>4, SMod
<1>13. Mod(d, M) = Mod(av - (s1 \div P) * P, M) BY <1>1, <1>5, <1>6, SMod
<1>14. Mod(e, M) = Mod(Mod(Mod(t + Bias, X) \div P, Q) * P, M)
  <2>1. Mod(e, M) = Mod(h * P, M) BY <1>1, <1>7, <1>8, SMod
  <2>2. U(xt + Bias, XLEN) = Mod(t + Bias, X)
    <3>1. xt = Mod(t, X) /\ Mod(xt, X) = Mod(t, X) BY <1>1, <1>2, ModIdem DEF U, Mod
    <3>2. AddConstFact(X, xt, t, Bias) BY <1>1, <1>2, AddConstAll
    <3>. QED BY <3>1, <3>2 DEF AddConstFact, U, Mod
  <2>3. h = Mod(Mod(t + Bias, X) \div P, Q) BY <1>2, <1>7, <2>2 DEF HiOf, Field, Mod
  <2>. QED BY <2>1, <2>3
<1>15. SplitHyps(Bias, Q, P, M, X, t, av, s1, d, e)
  BY <1>11, <1>12, <1>13, <1>14 DEF SplitHyps
<1>16. Mod(e + SignedMod(Mod(d, P), P, Bias), M) = Mod(t, M)
  <2>1. AbsSplitFact(Bias, Q, R, P, M, X, t, av, s1, d, e)
    BY <1>1, <1>3, <1>4, <1>6, <1>8, AbsSplitArith
  <2>. QED BY <1>1, <1>15, <2>1 DEF AbsSplitFact
<1>. QED BY <1>7, <1>10, <1>16 DEF U, Mod

(***************************************************************************)
(* What the HI20 and LO12 handlers leave in their cell.                    *)
(***************************************************************************)
\* the kinds of an absolute lui/addi pair
AbsTypes == {R_RISCV_HI20, R_RISCV_LO12_I, R_RISCV_LO12_S}

\* apply_relocation hands a HI20 to apply_r_riscv_hi20_rela
LEMMA Hi20Dispatch ==
    ASSUME NEW loc, NEW addr, apply_relocation(R_RISCV_HI20, loc, addr)
    PROVE  apply_r_riscv_hi20_rela(loc, addr)
BY DEF apply_relocation, PcrelLo12Types, R_RISCV_32, R_RISCV_64,
   R_RISCV_BRANCH, R_RISCV_JAL, R_RISCV_RVC_BRANCH, R_RISCV_RVC_JUMP,
   R_RISCV_PCREL_HI20, R_RISCV_PCREL_LO12_I, R_RISCV_PCREL_LO12_S,
   R_RISCV_HI20, R_RISCV_LO12_I, R_RISCV_LO12_S, R_RISCV_CALL, R_RISCV_CALL_PLT,
   R_RISCV_RELAX, R_RISCV_ALIGN, R_RISCV_ADD16, R_RISCV_ADD32, R_RISCV_ADD64,
   R_RISCV_SUB16, R_RISCV_SUB32, R_RISCV_SUB64

\* apply_relocation hands a LO12_I or a LO12_S to apply_r_riscv_lo12_rela
LEMMA Lo12Dispatch ==
    ASSUME NEW loc, NEW addr, NEW k \in {R_RISCV_LO12_I, R_RISCV_LO12_S},
           apply_relocation(k, loc, addr)
    PROVE  apply_r_riscv_lo12_rela(loc, addr)
BY DEF apply_relocation, PcrelLo12Types, R_RISCV_32, R_RISCV_64,
   R_RISCV_BRANCH, R_RISCV_JAL, R_RISCV_RVC_BRANCH, R_RISCV_RVC_JUMP,
   R_RISCV_PCREL_HI20, R_RISCV_PCREL_LO12_I, R_RISCV_PCREL_LO12_S,
   R_RISCV_HI20, R_RISCV_LO12_I, R_RISCV_LO12_S, R_RISCV_CALL, R_RISCV_CALL_PLT,
   R_RISCV_RELAX, R_RISCV_ALIGN, R_RISCV_ADD16, R_RISCV_ADD32, R_RISCV_ADD64,
   R_RISCV_SUB16, R_RISCV_SUB32, R_RISCV_SUB64

\* an entry other than a PCREL_LO12 that the loop reaches and that neither
\* fails nor panics goes through apply_relocation with target S+A as u64
LEMMA EntryDispatched ==
    ASSUME TypeOK, ApplyRela, relas[i].type \notin PcrelLo12Types,
           ~Fail("panic"), ~Fail("err")
    PROVE  LET r == relas[i] IN
           /\ r \in Rela /\ Location(r) \in Addr
           /\ r.sym \in DOMAIN syms /\ TargetRaw(r) \in Int
           /\ apply_relocation(r.type, Location(r), U(TargetRaw(r), XLEN))
<1>. DEFINE r == relas[i]
<1>1. r \in Rela BY RelasFacts DEF TypeOK, ApplyRela
<1>2. Location(r) \in Addr BY <1>1, LocFacts DEF Location, Rela
<1>3. r.sym \in DOMAIN syms /\ apply_relocation(r.type, Location(r), U(TargetRaw(r), XLEN))
  BY DEF ApplyRela
<1>4. TargetRaw(r) \in Int BY <1>1, <1>3, TargetRawType
<1>. QED BY <1>1, <1>2, <1>3, <1>4

\* the kinds of an absolute pair are not PCREL_LO12 kinds
LEMMA AbsNotPcrelLo12 ==
    AbsTypes \cap PcrelLo12Types = {}
BY DEF AbsTypes, PcrelLo12Types, R_RISCV_HI20, R_RISCV_LO12_I, R_RISCV_LO12_S,
       R_RISCV_PCREL_LO12_I, R_RISCV_PCREL_LO12_S

\* a HI20 the loop moves past has written the hi20 of S+A to its cell
LEMMA Hi20Step ==
    ASSUME TypeOK, ApplyRela, i' = i + 1, relas[i].type = R_RISCV_HI20
    PROVE  /\ relas[i].sym \in DOMAIN syms
           /\ mem'[Location(relas[i])] = HiOf(TargetRaw(relas[i]))
<1>. DEFINE r == relas[i]  loc == Location(r)  addr == U(TargetRaw(r), XLEN)
<1>1. i \in Nat /\ i' # i BY RelasFacts DEF TypeOK, ApplyRela
<1>2. ~Fail("panic") /\ ~Fail("err") BY <1>1 DEF Fail
<1>3. /\ loc \in Addr /\ r.sym \in DOMAIN syms
      /\ apply_relocation(R_RISCV_HI20, loc, addr)
  BY <1>2, AbsNotPcrelLo12, EntryDispatched DEF AbsTypes
<1>4. apply_r_riscv_hi20_rela(loc, addr) BY <1>3, Hi20Dispatch
<1>5. mem' = Set(loc, Field(U(addr + Bias, XLEN), LO, HI))
  BY <1>2, <1>4 DEF apply_r_riscv_hi20_rela, Succeed
<1>. QED BY <1>3, <1>5 DEF Set, HiOf, TypeOK

\* a LO12_I or LO12_S the loop moves past has written the lo12 of S+A to
\* its cell
LEMMA Lo12Step ==
    ASSUME TypeOK, ApplyRela, i' = i + 1,
           relas[i].type \in {R_RISCV_LO12_I, R_RISCV_LO12_S}
    PROVE  /\ relas[i].sym \in DOMAIN syms
           /\ mem'[Location(relas[i])] = LoOf(TargetRaw(relas[i]))
<1>. DEFINE r == relas[i]  loc == Location(r)  addr == U(TargetRaw(r), XLEN)
<1>1. i \in Nat /\ i' # i BY RelasFacts DEF TypeOK, ApplyRela
<1>2. ~Fail("panic") /\ ~Fail("err") BY <1>1 DEF Fail
<1>3. /\ loc \in Addr /\ r.sym \in DOMAIN syms
      /\ apply_relocation(r.type, loc, addr)
  BY <1>2, AbsNotPcrelLo12, EntryDispatched DEF AbsTypes
<1>4. apply_r_riscv_lo12_rela(loc, addr) BY <1>3, Lo12Dispatch
<1>5. mem' = Set(loc, LoOf(TargetRaw(r)))
  BY <1>2, <1>4 DEF apply_r_riscv_lo12_rela, Succeed, LoOf
<1>. QED BY <1>3, <1>5 DEF Set, TypeOK

(***************************************************************************)
(* The inductive invariant.  AbsPairsReassemble alone is not preserved:   *)
(* when the loop applies the second entry of a pair it needs to know what *)
(* the first one left in its cell.  AbsInvOf(m, n) says it of every HI20  *)
(* and LO12 the loop has moved past whose cell no later applied entry has *)
(* written: its symbol index is in range and its cell holds what its      *)
(* handler computed from S+A.                                              *)
(***************************************************************************)
AbsInvOf(m, n) ==
    \A j \in 1..Len(relas) :
      LET r == relas[j]  loc == Location(r) IN
      (/\ r.type \in AbsTypes /\ j < n
       /\ \A k \in (j + 1)..(n - 1) : loc \notin Writes(relas[k]))
        => /\ r.sym \in DOMAIN syms
           /\ m[loc] = IF r.type = R_RISCV_HI20 THEN HiOf(TargetRaw(r))
                                                ELSE LoOf(TargetRaw(r))

AbsInv == AbsInvOf(mem, i)

\* a step that keeps the section and the symbol table keeps what AbsInv
\* says of them: only memory and the loop index are primed
LEMMA AbsInvPrime ==
    ASSUME relas' = relas, syms' = syms
    PROVE  AbsInv' = AbsInvOf(mem', i')
BY DEF AbsInv, AbsInvOf, Writes, TargetRaw, SymValue, Location, HiOf, LoOf

\* before the loop nothing has been applied
LEMMA AbsInvInit ==
    ASSUME Init
    PROVE  AbsInv
BY DEF Init, AbsInv, AbsInvOf

\* an iteration keeps AbsInv: one that fails writes nothing and leaves the
\* loop where it was; one that succeeds wrote the cell of the entry it
\* moved past (Hi20Step, Lo12Step) and no other cell of an entry before it
LEMMA AbsInvApply ==
    ASSUME TypeOK, AbsInv, ApplyRela
    PROVE  AbsInv'
<1>1. UNCHANGED <<relas, syms>> BY DEF ApplyRela
<1>2. AbsInv' = AbsInvOf(mem', i') BY <1>1, AbsInvPrime
<1>3. StepWithin(Writes(relas[i])) BY ApplyRelaWithin
<1>4. CASE i' = i /\ mem' = mem BY <1>2, <1>4 DEF AbsInv
<1>5. CASE i' = i + 1 /\ \A c \in Addr \ Writes(relas[i]) : mem'[c] = mem[c]
  <2>0. i \in 1..Len(relas) /\ Len(relas) \in Nat /\ (i + 1) - 1 = i
    BY RelasFacts DEF TypeOK, ApplyRela
  <2>. SUFFICES ASSUME NEW j \in 1..Len(relas),
                      relas[j].type \in AbsTypes, j < i + 1,
                      \A k \in (j + 1)..i : Location(relas[j]) \notin Writes(relas[k])
               PROVE  /\ relas[j].sym \in DOMAIN syms
                      /\ mem'[Location(relas[j])]
                           = IF relas[j].type = R_RISCV_HI20
                             THEN HiOf(TargetRaw(relas[j])) ELSE LoOf(TargetRaw(relas[j]))
    BY <1>2, <1>5, <2>0 DEF AbsInvOf
  <2>. DEFINE loc == Location(relas[j])
  <2>1. CASE j = i
    <3>1. CASE relas[i].type = R_RISCV_HI20 BY <1>5, <2>1, <3>1, Hi20Step
    <3>2. CASE relas[i].type \in {R_RISCV_LO12_I, R_RISCV_LO12_S}
      <4>1. relas[i].type # R_RISCV_HI20
        BY <3>2 DEF R_RISCV_HI20, R_RISCV_LO12_I, R_RISCV_LO12_S
      <4>. QED BY <1>5, <2>1, <3>2, <4>1, Lo12Step
    <3>. QED BY <2>1, <3>1, <3>2 DEF AbsTypes
  <2>2. CASE j < i
    <3>1. \A k \in (j + 1)..(i - 1) : loc \notin Writes(relas[k]) BY <2>0
    <3>2. /\ relas[j].sym \in DOMAIN syms
          /\ mem[loc] = IF relas[j].type = R_RISCV_HI20
                        THEN HiOf(TargetRaw(relas[j])) ELSE LoOf(TargetRaw(relas[j]))
      BY <2>2, <3>1 DEF AbsInv, AbsInvOf
    <3>3. loc \notin Writes(relas[i]) BY <2>0, <2>2
    <3>4. mem'[loc] = mem[loc] BY <1>5, <3>3, EntryLoc
    <3>. QED BY <3>2, <3>4
  <2>. QED BY <2>0, <2>1, <2>2
<1>. QED BY <1>3, <1>4, <1>5 DEF StepWithin

\* returning Ok(()), or a stutter, leaves memory and the loop as they are
LEMMA AbsInvKeep ==
    ASSUME AbsInv, UNCHANGED <<mem, i, relas, syms>>
    PROVE  AbsInv'
<1>1. AbsInv' = AbsInvOf(mem', i') BY AbsInvPrime
<1>. QED BY <1>1 DEF AbsInv

\* AbsInv gives AbsPairsReassemble: the HI20 and the LO12 of a pair whose
\* cells nothing else writes hold what their handlers computed from the
\* same S+A (neither writes the other's cell), and AbsValueArith adds
\* them up
LEMMA AbsInvReassembles ==
    ASSUME TypeOK, AbsInv
    PROVE  AbsPairsReassemble
<1>. SUFFICES ASSUME NEW j \in 1..Len(relas), NEW k \in 1..Len(relas),
                    Applied(j), Applied(k),
                    relas[k].type = R_RISCV_HI20,
                    relas[j].type \in {R_RISCV_LO12_I, R_RISCV_LO12_S},
                    TargetRaw(relas[j]) = TargetRaw(relas[k]),
                    Location(relas[j]) # Location(relas[k]),
                    Untouched({Location(relas[j]), Location(relas[k])}, {j, k})
             PROVE  U(AuipcValue(mem[Location(relas[k])], mem[Location(relas[j])]), W32)
                      = U(TargetRaw(relas[k]), W32)
  BY DEF AbsPairsReassemble
<1>. DEFINE lo == Location(relas[j])  hi == Location(relas[k])
<1>0. Len(relas) \in Nat /\ j \in Nat /\ k \in Nat BY RelasFacts
<1>1. Writes(relas[k]) = {hi}
  BY DEF Writes, R_RISCV_HI20, R_RISCV_CALL, R_RISCV_CALL_PLT, R_RISCV_RELAX,
         R_RISCV_ALIGN
<1>2. Writes(relas[j]) = {lo}
  BY DEF Writes, R_RISCV_LO12_I, R_RISCV_LO12_S, R_RISCV_CALL, R_RISCV_CALL_PLT,
         R_RISCV_RELAX, R_RISCV_ALIGN
<1>3. \A m \in (k + 1)..(i - 1) : hi \notin Writes(relas[m])
  <2>. SUFFICES ASSUME NEW m \in (k + 1)..(i - 1) PROVE hi \notin Writes(relas[m])
    OBVIOUS
  <2>1. CASE m = j BY <1>2, <2>1
  <2>2. CASE m # j
    <3>1. m \in (1..Len(relas)) \ {j, k} BY <1>0, <2>2 DEF Applied, TypeOK
    <3>. QED BY <3>1 DEF Untouched
  <2>. QED BY <2>1, <2>2
<1>4. \A m \in (j + 1)..(i - 1) : lo \notin Writes(relas[m])
  <2>. SUFFICES ASSUME NEW m \in (j + 1)..(i - 1) PROVE lo \notin Writes(relas[m])
    OBVIOUS
  <2>1. CASE m = k BY <1>1, <2>1
  <2>2. CASE m # k
    <3>1. m \in (1..Len(relas)) \ {j, k} BY <1>0, <2>2 DEF Applied, TypeOK
    <3>. QED BY <3>1 DEF Untouched
  <2>. QED BY <2>1, <2>2
<1>5. relas[k].sym \in DOMAIN syms /\ mem[hi] = HiOf(TargetRaw(relas[k]))
  BY <1>3 DEF AbsInv, AbsInvOf, AbsTypes, Applied
<1>6. mem[lo] = LoOf(TargetRaw(relas[j]))
  <2>1. relas[j].type \in AbsTypes /\ relas[j].type # R_RISCV_HI20
    BY DEF AbsTypes, R_RISCV_HI20, R_RISCV_LO12_I, R_RISCV_LO12_S
  <2>. QED BY <1>4, <2>1 DEF AbsInv, AbsInvOf, Applied
<1>7. TargetRaw(relas[k]) \in Int BY <1>5, RelasFacts, TargetRawType
<1>. QED BY <1>5, <1>6, <1>7, AbsValueArith

(***************************************************************************)
(* An absolute lui/addi pair reaches its target modulo 2^32: in every run *)
(* of apply_relocate_add, for every width and input the assumptions allow, *)
(* once the loop has moved past a HI20 and a LO12_I/LO12_S for the same   *)
(* S+A, at distinct cells that no other entry writes, in either order,    *)
(* lui's hi20 (rounded with +0x800 on the u64 address by                  *)
(* apply_r_riscv_hi20_rela) and addi's lo12 (rounded on the address cut   *)
(* to i32 by apply_r_riscv_lo12_rela) add up to S+A mod 2^32.             *)
(***************************************************************************)
THEOREM AbsCorrect == Spec => []AbsPairsReassemble
<1>1. Init => TypeOK /\ AbsInv BY InitOK, AbsInvInit
<1>2. TypeOK /\ AbsInv /\ [Next]_vars => (TypeOK /\ AbsInv)'
  <2>1. SUFFICES ASSUME TypeOK, AbsInv, [Next]_vars
                 PROVE  TypeOK' /\ AbsInv'
    OBVIOUS
  <2>2. CASE ApplyRela BY <2>1, <2>2, ApplyRelaOK, AbsInvApply
  <2>3. CASE Finish
    <3>1. UNCHANGED <<mem, i, relas, syms>> BY <2>3 DEF Finish
    <3>. QED BY <2>1, <2>3, <3>1, FinishOK, AbsInvKeep
  <2>4. CASE UNCHANGED vars
    <3>1. UNCHANGED <<mem, i, relas, syms>> BY <2>4 DEF vars
    <3>2. TypeOK' BY <2>1, <2>4 DEF vars, TypeOK
    <3>. QED BY <2>1, <3>1, <3>2, AbsInvKeep
  <2>. QED BY <2>1, <2>2, <2>3, <2>4 DEF Next
<1>3. TypeOK /\ AbsInv => AbsPairsReassemble BY AbsInvReassembles
<1>. QED BY <1>1, <1>2, <1>3, PTL DEF Spec

(***************************************************************************)
(* PC-relative pairs.  The lo12 that the pair search of apply_relocate_add *)
(* computes from the PCREL_HI20 it finds is the lo12 of that HI20's own   *)
(* offset: the search recomputes the offset in i64 as the HI20 handler    *)
(* does, and for an offset that passed the HI20's range check the i64     *)
(* additions on the way do not wrap.                                       *)
(***************************************************************************)
\* `x as u64 as i64` is `x as i64`
LEMMA SOfU ==
    ASSUME NEW w, 2^w \in Nat \ {0}, NEW x \in Int
    PROVE  S(U(x, w), w) = S(x, w)
<1>1. Mod(Mod(x, 2^w), 2^w) = Mod(x, 2^w) BY ModIdem
<1>2. U(U(x, w), w) = U(x, w) BY <1>1 DEF U, Mod
<1>. QED BY <1>2 DEF S

\* an i64 value in range is its own `as i64`
LEMMA SSmall ==
    ASSUME NEW x \in Int, -(2^(XLEN - 1)) <= x, x < 2^(XLEN - 1)
    PROVE  S(x, XLEN) = x
<1>1. XLEN - 1 \in 0..XLEN /\ XLEN \in 0..XLEN /\ XLEN - 1 <= XLEN
      /\ XLEN - (XLEN - 1) = 1
  BY WidthAssumption
<1>2. 2^(XLEN - 1) \in Nat \ {0} /\ 2^XLEN = 2^(XLEN - 1) * 2^(XLEN - (XLEN - 1))
  <2>. XLEN - 1 <= XLEN =>
         (2^(XLEN - 1) \in Nat \ {0} /\ 2^XLEN = 2^(XLEN - 1) * 2^(XLEN - (XLEN - 1)))
    BY <1>1, PowerAssumption
  <2>. QED BY <1>1
<1>3. 2^1 = 2 BY SMT
<1>3a. 2^(XLEN - (XLEN - 1)) = 2 BY <1>1, <1>3, Zenon
<1>4. PICK H \in Nat \ {0} : H = 2^(XLEN - 1) BY <1>2
<1>5. PICK X \in Nat \ {0} : X = 2^XLEN /\ X = 2 * H BY <1>2, <1>3a, <1>4, SMT
<1>6. -H <= x /\ x < H BY <1>4
<1>7. S(x, XLEN) = IF Mod(x, X) >= H THEN Mod(x, X) - X ELSE Mod(x, X)
  BY <1>4, <1>5 DEF S, U, Mod
<1>8. CASE x >= 0
  <2>1. x \in 0..(X - 1) /\ x = X * 0 + x /\ 0 \in Int BY <1>5, <1>6, <1>8, SMT
  <2>2. ModIsFact(X, x, 0, x) BY <2>1, ModIsAll
  <2>3. Mod(x, X) = x BY <2>1, <2>2 DEF ModIsFact
  <2>. QED BY <1>6, <1>7, <2>3
<1>9. CASE x < 0
  <2>1. /\ x + X \in 0..(X - 1) /\ x = X * (-1) + (x + X) /\ -1 \in Int
        /\ x + X >= H /\ (x + X) - X = x
    BY <1>5, <1>6, <1>9, SMT
  <2>2. ModIsFact(X, x, -1, x + X) BY <2>1, ModIsAll
  <2>3. Mod(x, X) = x + X BY <2>1, <2>2 DEF ModIsFact
  <2>. QED BY <1>7, <2>1, <2>3
<1>. QED BY <1>8, <1>9, SMT

\* the low LO bits of `y as i64 as u64` are those of y
LEMMA LowOfS ==
    ASSUME NEW y \in Int
    PROVE  U(U(S(y, XLEN), XLEN), LO) = U(y, LO)
<1>1. /\ LO \in 0..XLEN /\ XLEN \in 0..XLEN /\ LO <= XLEN /\ XLEN - LO \in 0..XLEN
  BY WidthAssumption
<1>2. 2^LO \in Nat \ {0} /\ 2^XLEN = 2^LO * 2^(XLEN - LO)
  <2>. LO <= XLEN => (2^LO \in Nat \ {0} /\ 2^XLEN = 2^LO * 2^(XLEN - LO))
    BY <1>1, PowerAssumption
  <2>. QED BY <1>1
<1>3. 2^(XLEN - LO) \in Nat \ {0} /\ 2^XLEN \in Nat \ {0} BY <1>1, PowBound
<1>4. S(y, XLEN) \in Int BY SType, Widths
<1>5. Mod(S(y, XLEN), 2^XLEN) = Mod(y, 2^XLEN) BY <1>3, SMod
<1>6. ModModFact(2^LO, 2^(XLEN - LO), 2^XLEN, y) BY <1>2, <1>3, ModModAll
<1>7. ModModFact(2^LO, 2^(XLEN - LO), 2^XLEN, S(y, XLEN)) BY <1>2, <1>3, <1>4, ModModAll
<1>. QED BY <1>2, <1>5, <1>6, <1>7 DEF ModModFact, U, Mod

\* the lo12 the pair search computes from the PCREL_HI20 entry k, written
\* through `as u64` and `& 0xfff`, is the lo12 of k's own offset
LEMMA PairLoArith ==
    ASSUME TypeOK, NEW k \in 1..Len(relas), relas[k].sym \in DOMAIN syms,
           riscv_insn_valid_32bit_offset(PcOffset(relas[k]))
    PROVE  U(U(PairArith(k).lo_12, XLEN), LO)
             = U(PcOffset(relas[k]) - Hi20Field(PcOffset(relas[k])) * 2^LO, LO)
<1>. DEFINE h == relas[k]  o == PcOffset(h)
            o2 == S(S(TargetRaw(h), XLEN) - S(Location(h), XLEN), XLEN)
<1>1. h \in Rela BY RelasFacts
<1>2. /\ TargetRaw(h) \in Int /\ Location(h) \in Int /\ o \in Int
  BY <1>1, TargetRawType, PcOffsetType, LocFacts DEF Location, Rela
<1>3a. XLEN \in 0..XLEN /\ LO \in 0..XLEN /\ HI \in 0..XLEN /\ Bias \in Nat
  BY WidthFacts
<1>3b. 2^XLEN \in Nat \ {0} BY <1>3a, PowBound
<1>3c. 2^LO \in Nat \ {0} BY <1>3a, PowBound
<1>3. 2^XLEN \in Nat \ {0} /\ 2^LO \in Nat \ {0} /\ Bias \in Nat
  BY <1>3a, <1>3b, <1>3c
<1>4. o2 = o
  <2>1. S(U(TargetRaw(h), XLEN), XLEN) = S(TargetRaw(h), XLEN) BY <1>2, <1>3, SOfU
  <2>. QED BY <2>1 DEF PcOffset, PcOffsetRaw
<1>5. S(o + Bias, XLEN) = o + Bias
  <2>1. /\ W32 - 1 \in 0..XLEN /\ XLEN - 1 \in 0..XLEN /\ W32 - 1 <= XLEN - 1
        /\ (XLEN - 1) - (W32 - 1) \in 0..XLEN
    BY WidthAssumption
  <2>2. 2^(W32 - 1) \in Nat \ {0} /\ 2^(XLEN - 1) = 2^(W32 - 1) * 2^((XLEN - 1) - (W32 - 1))
    <3>. W32 - 1 <= XLEN - 1 =>
           (2^(W32 - 1) \in Nat \ {0}
            /\ 2^(XLEN - 1) = 2^(W32 - 1) * 2^((XLEN - 1) - (W32 - 1)))
      BY <2>1, PowerAssumption
    <3>. QED BY <2>1
  <2>3. 2^((XLEN - 1) - (W32 - 1)) \in Nat \ {0} BY <2>1, PowBound
  <2>4. 2^(W32 - 1) <= 2^(XLEN - 1) BY <2>2, <2>3, SMT
  <2>5. -(2^(W32 - 1)) <= o + Bias /\ o + Bias < 2^(W32 - 1)
    BY <1>2, <1>3, <2>2 DEF riscv_insn_valid_32bit_offset
  <2>6. o + Bias \in Int BY <1>2, <1>3
  <2>7. -(2^(XLEN - 1)) <= o + Bias /\ o + Bias < 2^(XLEN - 1)
    <3>1. PICK a \in Nat \ {0} : a = 2^(W32 - 1) BY <2>2
    <3>2. PICK b \in Nat \ {0} : b = 2^(XLEN - 1) BY <2>2, <2>3
    <3>3. a <= b BY <2>4, <3>1, <3>2
    <3>4. -a <= o + Bias /\ o + Bias < a BY <2>5, <3>1
    <3>5. -b <= o + Bias /\ o + Bias < b BY <2>6, <3>3, <3>4, SMT
    <3>. QED BY <3>2, <3>5
  <2>. QED BY <2>6, <2>7, SSmall
<1>6. PairArith(k).lo_12 = S(o - Hi20Field(o) * 2^LO, XLEN)
  BY <1>4, <1>5 DEF PairArith, TargetRaw, SymValue, Hi20Field
<1>7. o - Hi20Field(o) * 2^LO \in Int
  <2>1. Hi20Field(o) \in Int
    <3>1. o + Bias \in Int BY <1>2, <1>3
    <3>2. Field(o + Bias, LO, HI) \in Word(XLEN) BY <1>3a, <3>1, FieldType
    <3>. QED BY <1>3b, <3>2 DEF Hi20Field, Word
  <2>. QED BY <1>2, <1>3, <2>1
<1>. QED BY <1>6, <1>7, LowOfS

\* apply_relocation hands a PCREL_HI20 to apply_r_riscv_pcrel_hi20_rela
LEMMA PcrelHi20Dispatch ==
    ASSUME NEW loc, NEW addr, apply_relocation(R_RISCV_PCREL_HI20, loc, addr)
    PROVE  apply_r_riscv_pcrel_hi20_rela(loc, addr)
BY DEF apply_relocation, PcrelLo12Types, R_RISCV_32, R_RISCV_64,
   R_RISCV_BRANCH, R_RISCV_JAL, R_RISCV_RVC_BRANCH, R_RISCV_RVC_JUMP,
   R_RISCV_PCREL_HI20, R_RISCV_PCREL_LO12_I, R_RISCV_PCREL_LO12_S,
   R_RISCV_HI20, R_RISCV_LO12_I, R_RISCV_LO12_S, R_RISCV_CALL, R_RISCV_CALL_PLT,
   R_RISCV_RELAX, R_RISCV_ALIGN, R_RISCV_ADD16, R_RISCV_ADD32, R_RISCV_ADD64,
   R_RISCV_SUB16, R_RISCV_SUB32, R_RISCV_SUB64

\* apply_relocation hands a PCREL_LO12_I or _S to apply_r_riscv_pcrel_lo12_rela
LEMMA PcrelLo12Dispatch ==
    ASSUME NEW loc, NEW addr, NEW k \in PcrelLo12Types, apply_relocation(k, loc, addr)
    PROVE  apply_r_riscv_pcrel_lo12_rela(loc, addr)
BY DEF apply_relocation, PcrelLo12Types, R_RISCV_32, R_RISCV_64,
   R_RISCV_BRANCH, R_RISCV_JAL, R_RISCV_RVC_BRANCH, R_RISCV_RVC_JUMP,
   R_RISCV_PCREL_HI20, R_RISCV_PCREL_LO12_I, R_RISCV_PCREL_LO12_S,
   R_RISCV_HI20, R_RISCV_LO12_I, R_RISCV_LO12_S, R_RISCV_CALL, R_RISCV_CALL_PLT,
   R_RISCV_RELAX, R_RISCV_ALIGN, R_RISCV_ADD16, R_RISCV_ADD32, R_RISCV_ADD64,
   R_RISCV_SUB16, R_RISCV_SUB32, R_RISCV_SUB64

\* a PCREL_HI20 the loop moves past passed the range check and wrote the
\* hi20 of its offset to its cell
LEMMA PcrelHi20Step ==
    ASSUME TypeOK, ApplyRela, i' = i + 1, relas[i].type = R_RISCV_PCREL_HI20
    PROVE  /\ relas[i].sym \in DOMAIN syms
           /\ riscv_insn_valid_32bit_offset(PcOffset(relas[i]))
           /\ mem'[Location(relas[i])] = Hi20Field(PcOffset(relas[i]))
<1>. DEFINE r == relas[i]  loc == Location(r)  addr == U(TargetRaw(r), XLEN)
            offset == S(PcOffsetRaw(loc, addr), XLEN)
<1>1. i \in Nat /\ i' # i BY RelasFacts DEF TypeOK, ApplyRela
<1>2. ~Fail("panic") /\ ~Fail("err") BY <1>1 DEF Fail
<1>3. r.type \notin PcrelLo12Types
  BY DEF PcrelLo12Types, R_RISCV_PCREL_HI20, R_RISCV_PCREL_LO12_I, R_RISCV_PCREL_LO12_S
<1>4. /\ loc \in Addr /\ r.sym \in DOMAIN syms
      /\ apply_relocation(R_RISCV_PCREL_HI20, loc, addr)
  BY <1>2, <1>3, EntryDispatched
<1>5. apply_r_riscv_pcrel_hi20_rela(loc, addr) BY <1>4, PcrelHi20Dispatch
<1>6. riscv_insn_valid_32bit_offset(offset) /\ mem' = Set(loc, Hi20Field(offset))
  BY <1>2, <1>5 DEF apply_r_riscv_pcrel_hi20_rela, Succeed
<1>7. offset = PcOffset(r) BY DEF PcOffset
<1>. QED BY <1>4, <1>6, <1>7 DEF Set, TypeOK

\* the HI20 the pair search of a PCREL_LO12 r stopped at, when the search
\* went on to apply r: an entry of ScanStops of r's symbol value, of a
\* known kind other than GOT_HI20
PairFound(r, jj) ==
    /\ jj \in ScanStops(SymValue(r))
    /\ relas[jj].type \in KnownTypes
    /\ relas[jj].type # R_RISCV_GOT_HI20

\* a PCREL_LO12 the loop moves past found an HI20 and wrote the lo12 the
\* search computed from it to its cell
LEMMA PcrelLo12Step ==
    ASSUME TypeOK, ApplyRela, i' = i + 1, relas[i].type \in PcrelLo12Types
    PROVE  /\ relas[i].sym \in DOMAIN syms
           /\ \E jj \in 1..Len(relas) :
                /\ PairFound(relas[i], jj)
                /\ mem'[Location(relas[i])] = U(U(PairArith(jj).lo_12, XLEN), LO)
<1>. DEFINE r == relas[i]  loc == Location(r)  v == SymValue(r)
<1>1. r \in Rela /\ i \in Nat /\ i' # i BY RelasFacts DEF TypeOK, ApplyRela
<1>2. ~Fail("panic") /\ ~Fail("err") BY <1>1 DEF Fail
<1>3. r.sym \in DOMAIN syms /\ ResolvePcrelLo12(r) BY <1>2 DEF ApplyRela
<1>4. PICK jj \in ScanStops(v) :
        /\ relas[jj].type \in KnownTypes /\ relas[jj].type # R_RISCV_GOT_HI20
        /\ apply_relocation(r.type, loc, U(PairArith(jj).lo_12, XLEN))
  BY <1>2, <1>3 DEF ResolvePcrelLo12
<1>5. apply_r_riscv_pcrel_lo12_rela(loc, U(PairArith(jj).lo_12, XLEN))
  BY <1>4, PcrelLo12Dispatch
<1>6. mem' = Set(loc, U(U(PairArith(jj).lo_12, XLEN), LO))
  BY <1>5 DEF apply_r_riscv_pcrel_lo12_rela, Succeed
<1>7. loc \in Addr BY <1>1, LocFacts DEF Location, Rela
<1>8. jj \in 1..Len(relas) /\ PairFound(r, jj) BY <1>4 DEF ScanStops, PairFound
<1>. QED BY <1>3, <1>6, <1>7, <1>8 DEF Set, TypeOK

(***************************************************************************)
(* The inductive invariant for PC-relative pairs.  PcrelPairsReassemble   *)
(* alone is not preserved, for the reason AbsPairsReassemble is not; more, *)
(* the lo12 a PCREL_LO12 writes comes from whichever HI20 the pair search *)
(* stopped at, so the invariant records that entry.  PcrelInvOf(m, n)     *)
(* says, of every entry the loop has moved past whose cell no later       *)
(* applied entry has written:                                              *)
(*  - a PCREL_HI20 passed the range check and holds the hi20 of its offset;*)
(*  - a PCREL_LO12 holds the lo12 the search computed from an entry of     *)
(*    ScanStops of its symbol value, of a known kind other than GOT_HI20. *)
(***************************************************************************)
NoLaterWriter(j, n) ==
    \A k \in (j + 1)..(n - 1) : Location(relas[j]) \notin Writes(relas[k])

PcrelInvOf(m, n) ==
    /\ \A j \in 1..Len(relas) :
         LET r == relas[j] IN
         (r.type = R_RISCV_PCREL_HI20 /\ j < n /\ NoLaterWriter(j, n))
           => /\ r.sym \in DOMAIN syms
              /\ riscv_insn_valid_32bit_offset(PcOffset(r))
              /\ m[Location(r)] = Hi20Field(PcOffset(r))
    /\ \A j \in 1..Len(relas) :
         LET r == relas[j] IN
         (r.type \in PcrelLo12Types /\ j < n /\ NoLaterWriter(j, n))
           => \E jj \in 1..Len(relas) :
                /\ PairFound(r, jj)
                /\ m[Location(r)] = U(U(PairArith(jj).lo_12, XLEN), LO)

PcrelInv == PcrelInvOf(mem, i)

\* a step that keeps the section, the symbol table and the build keeps
\* what PcrelInv says of them: only memory and the loop index are primed
LEMMA PcrelInvPrime ==
    ASSUME relas' = relas, syms' = syms
    PROVE  PcrelInv' = PcrelInvOf(mem', i')
<1>1. \A jj \in 1..Len(relas) : PairArith(jj)' = PairArith(jj)
  BY DEF PairArith, SymValue, Location
<1>2. \A jj \in 1..Len(relas) : PcOffset(relas[jj])' = PcOffset(relas[jj])
  BY DEF PcOffset, TargetRaw, SymValue, Location
<1>3. \A jj, k \in 1..Len(relas) :
        (Location(relas[jj]) \notin Writes(relas[k]))'
          = (Location(relas[jj]) \notin Writes(relas[k]))
  BY DEF Writes, Location
<1>4. \A jj, k \in 1..Len(relas) : PairFound(relas[jj], k)' = PairFound(relas[jj], k)
  BY DEF PairFound, ScanStops, IsPairedHi20, SymValue, Location
<1>5. \A jj \in 1..Len(relas) : Location(relas[jj])' = Location(relas[jj])
  BY DEF Location
<1>. QED BY <1>1, <1>2, <1>3, <1>4, <1>5 DEF PcrelInv, PcrelInvOf, NoLaterWriter

\* before the loop nothing has been applied
LEMMA PcrelInvInit ==
    ASSUME Init
    PROVE  PcrelInv
<1>1. \A j \in 1..Len(relas) : ~(j < i) BY DEF Init
<1>. QED BY <1>1, Zenon DEF PcrelInv, PcrelInvOf

\* an iteration keeps PcrelInv: one that fails writes nothing and leaves
\* the loop where it was; one that succeeds wrote the cell of the entry it
\* moved past (PcrelHi20Step, PcrelLo12Step) and no other cell of an entry
\* before it
LEMMA PcrelInvApply ==
    ASSUME TypeOK, PcrelInv, ApplyRela
    PROVE  PcrelInv'
<1>1. UNCHANGED <<relas, syms>> BY DEF ApplyRela
<1>2. PcrelInv' = PcrelInvOf(mem', i') BY <1>1, PcrelInvPrime
<1>3. StepWithin(Writes(relas[i])) BY ApplyRelaWithin
<1>4. CASE i' = i /\ mem' = mem BY <1>2, <1>4 DEF PcrelInv
<1>5. CASE i' = i + 1 /\ \A c \in Addr \ Writes(relas[i]) : mem'[c] = mem[c]
  <2>0. i \in 1..Len(relas) /\ Len(relas) \in Nat /\ (i + 1) - 1 = i
    BY RelasFacts DEF TypeOK, ApplyRela
  \* an entry before i whose cell the entries up to i leave alone keeps it
  <2>1. ASSUME NEW j \in 1..Len(relas), j < i, NoLaterWriter(j, i + 1)
        PROVE  /\ NoLaterWriter(j, i)
               /\ mem'[Location(relas[j])] = mem[Location(relas[j])]
    <3>1. NoLaterWriter(j, i) BY <2>0, <2>1 DEF NoLaterWriter
    <3>2. Location(relas[j]) \notin Writes(relas[i]) BY <2>0, <2>1 DEF NoLaterWriter
    <3>. QED BY <1>5, <3>1, <3>2, EntryLoc
  <2>2. \A j \in 1..Len(relas) :
          LET r == relas[j] IN
          (r.type = R_RISCV_PCREL_HI20 /\ j < i + 1 /\ NoLaterWriter(j, i + 1))
            => /\ r.sym \in DOMAIN syms
               /\ riscv_insn_valid_32bit_offset(PcOffset(r))
               /\ mem'[Location(r)] = Hi20Field(PcOffset(r))
    <3>. SUFFICES ASSUME NEW j \in 1..Len(relas), relas[j].type = R_RISCV_PCREL_HI20,
                        j < i + 1, NoLaterWriter(j, i + 1)
                 PROVE  /\ relas[j].sym \in DOMAIN syms
                        /\ riscv_insn_valid_32bit_offset(PcOffset(relas[j]))
                        /\ mem'[Location(relas[j])] = Hi20Field(PcOffset(relas[j]))
      OBVIOUS
    <3>1. CASE j = i BY <1>5, <3>1, PcrelHi20Step
    <3>2. CASE j < i BY <2>1, <3>2 DEF PcrelInv, PcrelInvOf
    <3>. QED BY <2>0, <3>1, <3>2
  <2>3. \A j \in 1..Len(relas) :
          LET r == relas[j] IN
          (r.type \in PcrelLo12Types /\ j < i + 1 /\ NoLaterWriter(j, i + 1))
            => \E jj \in 1..Len(relas) :
                 /\ PairFound(r, jj)
                 /\ mem'[Location(r)] = U(U(PairArith(jj).lo_12, XLEN), LO)
    <3>. SUFFICES ASSUME NEW j \in 1..Len(relas), relas[j].type \in PcrelLo12Types,
                        j < i + 1, NoLaterWriter(j, i + 1)
                 PROVE  \E jj \in 1..Len(relas) :
                          /\ PairFound(relas[j], jj)
                          /\ mem'[Location(relas[j])] = U(U(PairArith(jj).lo_12, XLEN), LO)
      OBVIOUS
    <3>1. CASE j = i BY <1>5, <3>1, PcrelLo12Step
    <3>2. CASE j < i BY <2>1, <3>2 DEF PcrelInv, PcrelInvOf
    <3>. QED BY <2>0, <3>1, <3>2
  <2>. QED BY <1>2, <1>5, <2>2, <2>3 DEF PcrelInvOf
<1>. QED BY <1>3, <1>4, <1>5 DEF StepWithin

\* returning Ok(()), or a stutter, leaves memory and the loop as they are
LEMMA PcrelInvKeep ==
    ASSUME PcrelInv, UNCHANGED <<mem, i, relas, syms>>
    PROVE  PcrelInv'
<1>1. PcrelInv' = PcrelInvOf(mem', i') BY PcrelInvPrime
<1>. QED BY <1>1 DEF PcrelInv

\* the invariant gives PcrelPairsReassemble: the HI20 the lo12 came from is
\* a PCREL_HI20 at the hi cell (a GOT_HI20 is not a PairFound entry), so it
\* writes only that cell, and Untouched makes it the entry k of the pair
LEMMA PcrelInvReassembles ==
    ASSUME TypeOK, PcrelInv
    PROVE  PcrelPairsReassemble
<1>. SUFFICES ASSUME NEW j \in 1..Len(relas), NEW k \in 1..Len(relas),
                    Applied(j), Applied(k),
                    relas[j].type \in PcrelLo12Types,
                    relas[k].type = R_RISCV_PCREL_HI20,
                    Location(relas[k]) = SymValue(relas[j]),
                    Location(relas[j]) # Location(relas[k]),
                    Untouched({Location(relas[j]), Location(relas[k])}, {j, k})
             PROVE  AuipcValue(mem[Location(relas[k])], mem[Location(relas[j])])
                      = PcOffset(relas[k])
  BY DEF PcrelPairsReassemble
<1>. DEFINE lo == Location(relas[j])  hi == Location(relas[k])
            o == PcOffset(relas[k])
<1>0. Len(relas) \in Nat /\ j \in Nat /\ k \in Nat BY RelasFacts
<1>1. Writes(relas[k]) = {hi}
  BY DEF Writes, R_RISCV_PCREL_HI20, R_RISCV_CALL, R_RISCV_CALL_PLT,
         R_RISCV_RELAX, R_RISCV_ALIGN
<1>2. Writes(relas[j]) = {lo}
  BY DEF Writes, PcrelLo12Types, R_RISCV_PCREL_LO12_I, R_RISCV_PCREL_LO12_S,
         R_RISCV_CALL, R_RISCV_CALL_PLT, R_RISCV_RELAX, R_RISCV_ALIGN
<1>3. NoLaterWriter(k, i)
  <2>. SUFFICES ASSUME NEW m \in (k + 1)..(i - 1) PROVE hi \notin Writes(relas[m])
    BY DEF NoLaterWriter
  <2>1. CASE m = j BY <1>2, <2>1
  <2>2. CASE m # j
    <3>1. m \in (1..Len(relas)) \ {j, k} BY <1>0, <2>2 DEF Applied, TypeOK
    <3>. QED BY <3>1 DEF Untouched
  <2>. QED BY <2>1, <2>2
<1>4. NoLaterWriter(j, i)
  <2>. SUFFICES ASSUME NEW m \in (j + 1)..(i - 1) PROVE lo \notin Writes(relas[m])
    BY DEF NoLaterWriter
  <2>1. CASE m = k BY <1>1, <2>1
  <2>2. CASE m # k
    <3>1. m \in (1..Len(relas)) \ {j, k} BY <1>0, <2>2 DEF Applied, TypeOK
    <3>. QED BY <3>1 DEF Untouched
  <2>. QED BY <2>1, <2>2
<1>5. /\ relas[k].sym \in DOMAIN syms /\ riscv_insn_valid_32bit_offset(o)
      /\ mem[hi] = Hi20Field(o)
  BY <1>3 DEF PcrelInv, PcrelInvOf, Applied
<1>6. PICK jj \in 1..Len(relas) :
        /\ PairFound(relas[j], jj)
        /\ mem[lo] = U(U(PairArith(jj).lo_12, XLEN), LO)
  BY <1>4 DEF PcrelInv, PcrelInvOf, Applied
\* the entry the search stopped at is a PCREL_HI20 at the hi cell
<1>7. Location(relas[jj]) = hi /\ relas[jj].type = R_RISCV_PCREL_HI20
  <2>1. IsPairedHi20(jj, SymValue(relas[j]))
    BY <1>6 DEF PairFound, ScanStops
  <2>2. relas[jj].type # R_RISCV_GOT_HI20 BY <1>6 DEF PairFound
  <2>. QED BY <2>1, <2>2 DEF IsPairedHi20
<1>8. jj = k
  <2>1. Writes(relas[jj]) = {hi}
    BY <1>7 DEF Writes, R_RISCV_PCREL_HI20, R_RISCV_CALL, R_RISCV_CALL_PLT,
              R_RISCV_RELAX, R_RISCV_ALIGN
  <2>2. jj \in {j, k} BY <2>1 DEF Untouched
  <2>3. jj # j
    BY <1>7 DEF PcrelLo12Types, R_RISCV_PCREL_HI20, R_RISCV_PCREL_LO12_I,
              R_RISCV_PCREL_LO12_S
  <2>. QED BY <2>2, <2>3
<1>9. mem[lo] = U(o - Hi20Field(o) * 2^LO, LO)
  BY <1>5, <1>6, <1>8, PairLoArith
<1>10. o \in Int BY <1>5, RelasFacts, PcOffsetType
<1>. QED BY <1>5, <1>9, <1>10, CallSplit

(***************************************************************************)
(* A PC-relative auipc pair reaches its HI20's target: in every run of    *)
(* apply_relocate_add, for every width and input the assumptions allow,   *)
(* once the loop has moved past a PCREL_HI20 at cell hi and a PCREL_LO12_I *)
(* or PCREL_LO12_S whose symbol value is hi, in either order, at distinct *)
(* cells no other entry writes, auipc's hi20 (written by                   *)
(* apply_r_riscv_pcrel_hi20_rela) and the lo12 that the pair search       *)
(* recomputed from the HI20 entry add up to that HI20's pc-relative offset *)
(* exactly, not only modulo 2^32.                                          *)
(***************************************************************************)
THEOREM PcrelCorrect == Spec => []PcrelPairsReassemble
<1>1. Init => TypeOK /\ PcrelInv BY InitOK, PcrelInvInit
<1>2. TypeOK /\ PcrelInv /\ [Next]_vars => (TypeOK /\ PcrelInv)'
  <2>1. SUFFICES ASSUME TypeOK, PcrelInv, [Next]_vars
                 PROVE  TypeOK' /\ PcrelInv'
    OBVIOUS
  <2>2. CASE ApplyRela BY <2>1, <2>2, ApplyRelaOK, PcrelInvApply
  <2>3. CASE Finish
    <3>1. UNCHANGED <<mem, i, relas, syms>> BY <2>3 DEF Finish
    <3>. QED BY <2>1, <2>3, <3>1, FinishOK, PcrelInvKeep
  <2>4. CASE UNCHANGED vars
    <3>1. UNCHANGED <<mem, i, relas, syms>> BY <2>4 DEF vars
    <3>2. TypeOK' BY <2>1, <2>4 DEF vars, TypeOK
    <3>. QED BY <2>1, <3>1, <3>2, PcrelInvKeep
  <2>. QED BY <2>1, <2>2, <2>3, <2>4 DEF Next
<1>3. TypeOK /\ PcrelInv => PcrelPairsReassemble BY PcrelInvReassembles
<1>. QED BY <1>1, <1>2, <1>3, PTL DEF Spec

====
