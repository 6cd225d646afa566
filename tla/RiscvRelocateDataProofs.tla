---------------------- MODULE RiscvRelocateDataProofs ----------------------
(***************************************************************************)
(* A label difference `.word A - B`, encoded as an ADD32 A and a SUB32 B   *)
(* at one location, comes out as (A - B) mod 2^32 once apply_relocate_add  *)
(* has applied both, for every width and every input that satisfies the   *)
(* assumptions of RiscvRelocate.  ADD32 stores A into the low 32 bits of   *)
(* the word (it does not add), SUB32 subtracts B from them in u32.         *)
(***************************************************************************)
EXTENDS RiscvRelocateCallProofs

(***************************************************************************)
(* Modular arithmetic of the wrapping helpers.                             *)
(***************************************************************************)

\* regrouping a multiple of P*R as a multiple of P
LEMMA RegroupMultiple ==
    ASSUME NEW x \in Int, NEW t \in Int, NEW P \in Int, NEW R \in Int,
           NEW q \in Int, NEW d \in Int, NEW y \in Int,
           x = t - (P * R) * q, t = P * d + y
    PROVE  x = P * (d - R * q) + y
BY SMTT(30)

\* the low bits of a wider word: (t mod P*R) mod P = t mod P
LEMMA ModMod ==
    ASSUME NEW P \in Nat \ {0}, NEW R \in Nat \ {0}, NEW t \in Int
    PROVE  (t % (P * R)) % P = t % P
<1>1. P * R \in Nat \ {0} BY SMT
<1>2. /\ t % (P * R) = t - (P * R) * (t \div (P * R))
      /\ t \div (P * R) \in Int
  BY <1>1, SMT
<1>3. /\ t = P * (t \div P) + (t % P)
      /\ t % P \in 0..(P - 1)
      /\ t \div P \in Int
  BY SMT
<1>4. t % (P * R) = P * ((t \div P) - R * (t \div (P * R))) + (t % P)
  <2>1. /\ t % (P * R) \in Int /\ t % P \in Int /\ P \in Int /\ R \in Int
        /\ t % (P * R) = t - (P * R) * (t \div (P * R))
        /\ t = P * (t \div P) + (t % P)
        /\ t \div (P * R) \in Int /\ t \div P \in Int
    BY <1>2, <1>3, SMT
  <2>. QED BY <2>1, RegroupMultiple
<1>5. (t \div P) - R * (t \div (P * R)) \in Int BY <1>2, <1>3, SMT
<1>6. t % (P * R) \in Int BY <1>2, <1>3, SMT
<1>. QED BY <1>3, <1>4, <1>5, <1>6, ModUnique

\* subtraction commutes with reduction: (a mod P - b mod P) mod P = (a - b) mod P
LEMMA ModSub ==
    ASSUME NEW P \in Nat \ {0}, NEW a \in Int, NEW b \in Int
    PROVE  ((a % P) - (b % P)) % P = (a - b) % P
<1>1. /\ a = P * (a \div P) + (a % P) /\ a \div P \in Int
      /\ b = P * (b \div P) + (b % P) /\ b \div P \in Int
      /\ a - b = P * ((a - b) \div P) + ((a - b) % P) /\ (a - b) \div P \in Int
      /\ (a - b) % P \in 0..(P - 1)
  BY SMT
<1>2. (a % P) - (b % P)
        = P * (((a - b) \div P) - (a \div P) + (b \div P)) + ((a - b) % P)
  BY <1>1, SMT
<1>3. /\ ((a - b) \div P) - (a \div P) + (b \div P) \in Int
      /\ (a % P) - (b % P) \in Int
  BY <1>1, SMT
<1>. QED BY <1>1, <1>2, <1>3, ModUnique

\* clearing the low bits of m and putting v there: the low bits are v
LEMMA LowSet ==
    ASSUME NEW P \in Nat \ {0}, NEW m \in Int, NEW v \in 0..(P - 1)
    PROVE  ((m - (m % P)) + v) % P = v
<1>1. m - (m % P) = P * (m \div P) /\ m \div P \in Int BY SMT
<1>2. (m - (m % P)) + v = P * (m \div P) + v /\ (m - (m % P)) + v \in Int
  BY <1>1, SMT
<1>3. /\ P \in Nat \ {0} /\ (m - (m % P)) + v \in Int /\ m \div P \in Int
      /\ v \in 0..(P - 1) /\ (m - (m % P)) + v = P * (m \div P) + v
  BY <1>1, <1>2
<1>. QED BY <1>3, ModUnique

\* the powers of two of a u32 inside a u64
LEMMA W32Pow ==
    /\ 2^W32 \in Nat \ {0}
    /\ 2^(XLEN - W32) \in Nat \ {0}
    /\ 2^XLEN = 2^W32 * 2^(XLEN - W32)
    /\ W32 \in 0..XLEN
<1>1. /\ W32 \in 0..XLEN /\ XLEN \in 0..XLEN /\ XLEN - W32 \in 0..XLEN
      /\ W32 <= XLEN /\ XLEN - W32 <= XLEN /\ XLEN - (XLEN - W32) = W32
  BY WidthAssumption
<1>2. 2^W32 \in Nat \ {0} /\ 2^XLEN = 2^W32 * 2^(XLEN - W32)
  <2>. W32 <= XLEN => (2^W32 \in Nat \ {0} /\ 2^XLEN = 2^W32 * 2^(XLEN - W32))
    BY <1>1, PowerAssumption
  <2>. QED BY <1>1
<1>3. 2^(XLEN - W32) \in Nat \ {0}
  <2>. XLEN - W32 <= XLEN => (2^(XLEN - W32) \in Nat \ {0})
    BY <1>1, PowerAssumption
  <2>. QED BY <1>1
<1>. QED BY <1>1, <1>2, <1>3

\* `x as u64 as u32` is `x as u32`
LEMMA U32OfU64 ==
    ASSUME NEW t \in Int
    PROVE  U(U(t, XLEN), W32) = U(t, W32)
<1>1. 2^W32 \in Nat \ {0} /\ 2^(XLEN - W32) \in Nat \ {0}
      /\ 2^XLEN = 2^W32 * 2^(XLEN - W32)
  BY W32Pow
<1>2. (t % (2^W32 * 2^(XLEN - W32))) % 2^W32 = t % 2^W32
  BY <1>1, ModMod
<1>. QED BY <1>1, <1>2 DEF U

(***************************************************************************)
(* What the ADD32 and SUB32 handlers leave in the low 32 bits of a word.   *)
(***************************************************************************)
\* apply_relocation hands an ADD32 to apply_r_riscv_add_rela at 32 bits
LEMMA Add32Dispatch ==
    ASSUME NEW loc, NEW addr, apply_relocation(R_RISCV_ADD32, loc, addr)
    PROVE  apply_r_riscv_add_rela(loc, addr, W32)
BY DEF apply_relocation, PcrelLo12Types, R_RISCV_32, R_RISCV_64,
   R_RISCV_BRANCH, R_RISCV_JAL, R_RISCV_RVC_BRANCH, R_RISCV_RVC_JUMP,
   R_RISCV_PCREL_HI20, R_RISCV_PCREL_LO12_I, R_RISCV_PCREL_LO12_S,
   R_RISCV_HI20, R_RISCV_LO12_I, R_RISCV_LO12_S, R_RISCV_CALL, R_RISCV_CALL_PLT,
   R_RISCV_RELAX, R_RISCV_ALIGN, R_RISCV_ADD16, R_RISCV_ADD32, R_RISCV_ADD64,
   R_RISCV_SUB16, R_RISCV_SUB32, R_RISCV_SUB64

\* apply_relocation hands a SUB32 to apply_r_riscv_sub_rela at 32 bits
LEMMA Sub32Dispatch ==
    ASSUME NEW loc, NEW addr, apply_relocation(R_RISCV_SUB32, loc, addr)
    PROVE  apply_r_riscv_sub_rela(loc, addr, W32)
BY DEF apply_relocation, PcrelLo12Types, R_RISCV_32, R_RISCV_64,
   R_RISCV_BRANCH, R_RISCV_JAL, R_RISCV_RVC_BRANCH, R_RISCV_RVC_JUMP,
   R_RISCV_PCREL_HI20, R_RISCV_PCREL_LO12_I, R_RISCV_PCREL_LO12_S,
   R_RISCV_HI20, R_RISCV_LO12_I, R_RISCV_LO12_S, R_RISCV_CALL, R_RISCV_CALL_PLT,
   R_RISCV_RELAX, R_RISCV_ALIGN, R_RISCV_ADD16, R_RISCV_ADD32, R_RISCV_ADD64,
   R_RISCV_SUB16, R_RISCV_SUB32, R_RISCV_SUB64

\* an entry of a data kind the loop moves past went through apply_relocation
\* with target S+A as u64: it is neither a PCREL_LO12 nor a failure
LEMMA DataEntryDispatched ==
    ASSUME TypeOK, ApplyRela, i' = i + 1,
           relas[i].type \in {R_RISCV_ADD32, R_RISCV_SUB32}
    PROVE  LET r == relas[i] IN
           /\ r \in Rela /\ Location(r) \in Addr /\ Location(r) \in Int
           /\ r.sym \in DOMAIN syms /\ TargetRaw(r) \in Int
           /\ apply_relocation(r.type, Location(r), U(TargetRaw(r), XLEN))
<1>. DEFINE r == relas[i]
<1>1. r \in Rela /\ i \in Nat BY RelasFacts DEF TypeOK, ApplyRela
<1>2. Location(r) \in Addr /\ Location(r) \in Int
  BY <1>1, LocFacts DEF Location, Rela
<1>3. ~Fail("panic") /\ ~Fail("err") BY <1>1 DEF Fail
<1>4. r.type \notin PcrelLo12Types
  BY DEF PcrelLo12Types, R_RISCV_ADD32, R_RISCV_SUB32,
         R_RISCV_PCREL_LO12_I, R_RISCV_PCREL_LO12_S
<1>5. r.sym \in DOMAIN syms /\ apply_relocation(r.type, Location(r), U(TargetRaw(r), XLEN))
  BY <1>3, <1>4 DEF ApplyRela
<1>6. TargetRaw(r) \in Int BY <1>1, <1>5, TargetRawType
<1>. QED BY <1>1, <1>2, <1>5, <1>6

\* an ADD32 the loop moves past leaves S+A in the low 32 bits of its word
LEMMA Add32Step ==
    ASSUME TypeOK, ApplyRela, i' = i + 1, relas[i].type = R_RISCV_ADD32
    PROVE  /\ relas[i].sym \in DOMAIN syms
           /\ U(mem'[Location(relas[i])], W32) = U(TargetRaw(relas[i]), W32)
<1>. DEFINE r == relas[i]  loc == Location(r)  addr == U(TargetRaw(r), XLEN)
<1>1. /\ loc \in Addr /\ r.sym \in DOMAIN syms /\ TargetRaw(r) \in Int
      /\ apply_relocation(R_RISCV_ADD32, loc, addr)
  BY DataEntryDispatched
<1>2. apply_r_riscv_add_rela(loc, addr, W32) BY <1>1, Add32Dispatch
<1>3. i' = i + 1 /\ ~(mem' = mem /\ i' = i) BY <1>1, RelasFacts DEF TypeOK, ApplyRela
<1>4. mem'[loc] = (mem[loc] - U(mem[loc], W32)) + U(addr, W32)
  BY <1>1, <1>2 DEF apply_r_riscv_add_rela, Succeed, SetLow, TypeOK
<1>5. mem[loc] \in Int /\ addr \in Int
  <2>1. mem[loc] \in Int BY <1>1 DEF TypeOK, Word
  <2>2. addr \in Int BY <1>1, UType, Widths
  <2>. QED BY <2>1, <2>2
<1>6. 2^W32 \in Nat \ {0} /\ U(addr, W32) \in 0..(2^W32 - 1)
  <2>1. W32 \in 0..XLEN /\ 2^W32 \in Nat \ {0} BY W32Pow
  <2>. QED BY <1>5, <2>1, UType
<1>7. U(mem'[loc], W32) = U(addr, W32)
  <2>1. ((mem[loc] - (mem[loc] % 2^W32)) + U(addr, W32)) % 2^W32 = U(addr, W32)
    BY <1>5, <1>6, LowSet
  <2>. QED BY <1>4, <2>1 DEF U
<1>8. U(addr, W32) = U(TargetRaw(r), W32) BY <1>1, U32OfU64
<1>. QED BY <1>1, <1>7, <1>8

\* a SUB32 the loop moves past leaves, in the low 32 bits of its word, what
\* they held minus S+A, in u32
LEMMA Sub32Step ==
    ASSUME TypeOK, ApplyRela, i' = i + 1, relas[i].type = R_RISCV_SUB32
    PROVE  U(mem'[Location(relas[i])], W32)
             = U(U(mem[Location(relas[i])], W32) - U(TargetRaw(relas[i]), W32), W32)
<1>. DEFINE r == relas[i]  loc == Location(r)  addr == U(TargetRaw(r), XLEN)
            value == U(mem[loc], W32)
            v == U(value - U(addr, W32), W32)
<1>1. /\ loc \in Addr /\ r.sym \in DOMAIN syms /\ TargetRaw(r) \in Int
      /\ apply_relocation(R_RISCV_SUB32, loc, addr)
  BY DataEntryDispatched
<1>2. apply_r_riscv_sub_rela(loc, addr, W32) BY <1>1, Sub32Dispatch
<1>3. i \in Nat BY RelasFacts DEF TypeOK, ApplyRela
<1>4. mem' = SetLow(loc, v, W32)
  BY <1>2, <1>3 DEF apply_r_riscv_sub_rela, Fail, Succeed
<1>5. mem'[loc] = (mem[loc] - value) + v BY <1>1, <1>4 DEF SetLow, TypeOK
<1>6. mem[loc] \in Int /\ addr \in Int
  <2>1. mem[loc] \in Int BY <1>1 DEF TypeOK, Word
  <2>2. addr \in Int BY <1>1, UType, Widths
  <2>. QED BY <2>1, <2>2
<1>7. W32 \in 0..XLEN /\ 2^W32 \in Nat \ {0} BY W32Pow
<1>7a. value \in Int /\ U(addr, W32) \in Int BY <1>6, <1>7, UType
<1>8. 2^W32 \in Nat \ {0} /\ v \in 0..(2^W32 - 1) BY <1>7, <1>7a, UType
<1>9. U(mem'[loc], W32) = v
  <2>1. ((mem[loc] - (mem[loc] % 2^W32)) + v) % 2^W32 = v
    BY <1>6, <1>8, LowSet
  <2>. QED BY <1>5, <2>1 DEF U
<1>10. U(addr, W32) = U(TargetRaw(r), W32) BY <1>1, U32OfU64
<1>. QED BY <1>9, <1>10

(***************************************************************************)
(* The inductive invariant.  LabelDifference alone is not preserved: when  *)
(* the loop reaches the SUB32 it needs to know what the ADD32 left in the  *)
(* word, and nothing in LabelDifference says so while the SUB32 is still   *)
(* ahead.  LabelInvOf(m, n) adds it (first conjunct): an ADD32 the loop has *)
(* moved past, whose word no later applied entry has written, holds S+A in *)
(* its low 32 bits.  The second conjunct is LabelDifference with memory m  *)
(* and loop index n.                                                        *)
(***************************************************************************)
LabelInvOf(m, n) ==
    /\ \A j \in 1..Len(relas) :
         LET loc == Location(relas[j]) IN
         (/\ relas[j].type = R_RISCV_ADD32 /\ j < n
          /\ \A k \in (j + 1)..(n - 1) : loc \notin Writes(relas[k]))
           => /\ relas[j].sym \in DOMAIN syms
              /\ U(m[loc], W32) = U(TargetRaw(relas[j]), W32)
    /\ \A j, k \in 1..Len(relas) :
         LET loc == Location(relas[j]) IN
         (/\ j < k
          /\ relas[j].type = R_RISCV_ADD32 /\ relas[k].type = R_RISCV_SUB32
          /\ Location(relas[k]) = loc
          /\ k < n /\ Untouched({loc}, {j, k}))
           => U(m[loc], W32) = U(TargetRaw(relas[j]) - TargetRaw(relas[k]), W32)

LabelInv == LabelInvOf(mem, i)

\* a step that keeps the section and the symbol table keeps what LabelInv
\* says of them: only memory and the loop index are primed
LEMMA LabelInvPrime ==
    ASSUME relas' = relas, syms' = syms
    PROVE  LabelInv' = LabelInvOf(mem', i')
BY DEF LabelInv, LabelInvOf, Untouched, Writes, TargetRaw, SymValue, Location

\* before the loop nothing has been applied
LEMMA LabelInvInit ==
    ASSUME Init
    PROVE  LabelInv
BY DEF Init, LabelInv, LabelInvOf

\* an entry of the section sits at a cell of memory
LEMMA EntryLoc ==
    ASSUME TypeOK, NEW j \in 1..Len(relas)
    PROVE  Location(relas[j]) \in Addr
<1>1. relas[j] \in Rela BY RelasFacts
<1>. QED BY <1>1, LocFacts DEF Location, Rela

\* the first conjunct across a step that moves the loop on: the ADD32 the
\* loop moves past stores S+A (Add32Step); an earlier one keeps its word,
\* which the new entry does not write
LEMMA LabelAddApply ==
    ASSUME TypeOK, LabelInv, ApplyRela, i' = i + 1,
           \A c \in Addr \ Writes(relas[i]) : mem'[c] = mem[c],
           NEW j \in 1..Len(relas), relas[j].type = R_RISCV_ADD32, j < i + 1,
           \A k \in (j + 1)..i : Location(relas[j]) \notin Writes(relas[k])
    PROVE  /\ relas[j].sym \in DOMAIN syms
           /\ U(mem'[Location(relas[j])], W32) = U(TargetRaw(relas[j]), W32)
<1>. DEFINE loc == Location(relas[j])
<1>1. i \in 1..Len(relas) /\ Len(relas) \in Nat BY RelasFacts DEF TypeOK, ApplyRela
<1>2. CASE j = i BY <1>2, Add32Step
<1>3. CASE j < i
  <2>1. /\ relas[j].sym \in DOMAIN syms
        /\ U(mem[loc], W32) = U(TargetRaw(relas[j]), W32)
    <3>1. \A k \in (j + 1)..(i - 1) : loc \notin Writes(relas[k]) BY <1>1, <1>3
    <3>. QED BY <1>3, <3>1 DEF LabelInv, LabelInvOf
  <2>2. loc \notin Writes(relas[i]) BY <1>1, <1>3
  <2>3. mem'[loc] = mem[loc] BY <2>2, EntryLoc
  <2>. QED BY <2>1, <2>3
<1>. QED BY <1>1, <1>2, <1>3

\* the second conjunct across a step that moves the loop on: a pair
\* completed earlier keeps its word; the SUB32 the loop moves past subtracts
\* its S+A from the ADD32's, and the u32 wrap of the difference is the
\* difference of the u32 wraps (ModSub)
LEMMA LabelPairApply ==
    ASSUME TypeOK, LabelInv, ApplyRela, i' = i + 1,
           \A c \in Addr \ Writes(relas[i]) : mem'[c] = mem[c],
           NEW j \in 1..Len(relas), NEW k \in 1..Len(relas), j < k,
           relas[j].type = R_RISCV_ADD32, relas[k].type = R_RISCV_SUB32,
           Location(relas[k]) = Location(relas[j]), k < i + 1,
           Untouched({Location(relas[j])}, {j, k})
    PROVE  U(mem'[Location(relas[j])], W32)
             = U(TargetRaw(relas[j]) - TargetRaw(relas[k]), W32)
<1>. DEFINE loc == Location(relas[j])
<1>1. i \in 1..Len(relas) /\ Len(relas) \in Nat /\ j \in Nat /\ k \in Nat
  BY RelasFacts DEF TypeOK, ApplyRela
<1>2. CASE k < i
  <2>1. U(mem[loc], W32) = U(TargetRaw(relas[j]) - TargetRaw(relas[k]), W32)
    BY <1>2 DEF LabelInv, LabelInvOf
  <2>2. i \notin {j, k} BY <1>1, <1>2
  <2>3. loc \notin Writes(relas[i]) BY <1>1, <2>2 DEF Untouched
  <2>4. mem'[loc] = mem[loc] BY <2>3, EntryLoc
  <2>. QED BY <2>1, <2>4
<1>3. CASE k = i
  <2>1. \A m \in (j + 1)..(i - 1) : loc \notin Writes(relas[m])
    <3>1. \A m \in (j + 1)..(i - 1) : m \in (1..Len(relas)) \ {j, k} BY <1>1, <1>3
    <3>. QED BY <3>1 DEF Untouched
  <2>2. /\ relas[j].sym \in DOMAIN syms
        /\ U(mem[loc], W32) = U(TargetRaw(relas[j]), W32)
    BY <1>1, <1>3, <2>1 DEF LabelInv, LabelInvOf
  <2>3. U(mem'[loc], W32) = U(U(mem[loc], W32) - U(TargetRaw(relas[k]), W32), W32)
    BY <1>3, Sub32Step
  <2>4. TargetRaw(relas[k]) \in Int BY <1>3, DataEntryDispatched
  <2>5. TargetRaw(relas[j]) \in Int BY <2>2, RelasFacts, TargetRawType
  <2>6. 2^W32 \in Nat \ {0} BY W32Pow
  <2>7. ((TargetRaw(relas[j]) % 2^W32) - (TargetRaw(relas[k]) % 2^W32)) % 2^W32
          = (TargetRaw(relas[j]) - TargetRaw(relas[k])) % 2^W32
    BY <2>4, <2>5, <2>6, ModSub
  <2>. QED BY <2>2, <2>3, <2>7 DEF U
<1>. QED BY <1>1, <1>2, <1>3

\* an iteration keeps LabelInv: one that fails writes nothing and leaves
\* the loop where it was; one that succeeds is LabelAddApply and
\* LabelPairApply
LEMMA LabelInvApply ==
    ASSUME TypeOK, LabelInv, ApplyRela
    PROVE  LabelInv'
<1>1. UNCHANGED <<relas, syms>> BY DEF ApplyRela
<1>2. LabelInv' = LabelInvOf(mem', i') BY <1>1, LabelInvPrime
<1>3. StepWithin(Writes(relas[i])) BY ApplyRelaWithin
<1>4. CASE i' = i /\ mem' = mem BY <1>2, <1>4 DEF LabelInv
<1>5. CASE i' = i + 1 /\ \A c \in Addr \ Writes(relas[i]) : mem'[c] = mem[c]
  <2>1. \A j \in 1..Len(relas) :
          LET loc == Location(relas[j]) IN
          (/\ relas[j].type = R_RISCV_ADD32 /\ j < i + 1
           /\ \A k \in (j + 1)..i : loc \notin Writes(relas[k]))
            => /\ relas[j].sym \in DOMAIN syms
               /\ U(mem'[loc], W32) = U(TargetRaw(relas[j]), W32)
    BY <1>5, LabelAddApply
  <2>2. \A j, k \in 1..Len(relas) :
          LET loc == Location(relas[j]) IN
          (/\ j < k
           /\ relas[j].type = R_RISCV_ADD32 /\ relas[k].type = R_RISCV_SUB32
           /\ Location(relas[k]) = loc
           /\ k < i + 1 /\ Untouched({loc}, {j, k}))
            => U(mem'[loc], W32) = U(TargetRaw(relas[j]) - TargetRaw(relas[k]), W32)
    BY <1>5, LabelPairApply
  <2>3. i \in Nat /\ (i + 1) - 1 = i BY RelasFacts DEF TypeOK
  <2>. QED BY <1>2, <1>5, <2>1, <2>2, <2>3 DEF LabelInvOf
<1>. QED BY <1>3, <1>4, <1>5 DEF StepWithin

\* returning Ok(()), or a stutter, leaves memory and the loop as they are
LEMMA LabelInvKeep ==
    ASSUME LabelInv, UNCHANGED <<mem, i, relas, syms>>
    PROVE  LabelInv'
<1>1. LabelInv' = LabelInvOf(mem', i') BY LabelInvPrime
<1>. QED BY <1>1 DEF LabelInv

(***************************************************************************)
(* Label differences come out right: in every run of apply_relocate_add,  *)
(* for every width and input the assumptions allow, once the loop has     *)
(* moved past an ADD32 A and a later SUB32 B at the same location, and no *)
(* other entry writes that word, its low 32 bits hold (A - B) mod 2^32:   *)
(* apply_r_riscv_add_rela stored A there and apply_r_riscv_sub_rela       *)
(* subtracted B in u32, whatever the cut of S+A to u64 in between.        *)
(***************************************************************************)
THEOREM LabelCorrect == Spec => []LabelDifference
<1>1. Init => TypeOK /\ LabelInv BY InitOK, LabelInvInit
<1>2. TypeOK /\ LabelInv /\ [Next]_vars => (TypeOK /\ LabelInv)'
  <2>1. SUFFICES ASSUME TypeOK, LabelInv, [Next]_vars
                 PROVE  TypeOK' /\ LabelInv'
    OBVIOUS
  <2>2. CASE ApplyRela BY <2>1, <2>2, ApplyRelaOK, LabelInvApply
  <2>3. CASE Finish
    <3>1. UNCHANGED <<mem, i, relas, syms>> BY <2>3 DEF Finish
    <3>. QED BY <2>1, <2>3, <3>1, FinishOK, LabelInvKeep
  <2>4. CASE UNCHANGED vars
    <3>1. UNCHANGED <<mem, i, relas, syms>> BY <2>4 DEF vars
    <3>2. TypeOK' BY <2>1, <2>4 DEF vars, TypeOK
    <3>. QED BY <2>1, <3>1, <3>2, LabelInvKeep
  <2>. QED BY <2>1, <2>2, <2>3, <2>4 DEF Next
<1>3. LabelInv => LabelDifference BY DEF LabelInv, LabelInvOf, LabelDifference, Applied
<1>. QED BY <1>1, <1>2, <1>3, PTL DEF Spec

====
