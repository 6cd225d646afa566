# Verification of the kmod-loader RISC-V relocator and the kmod descriptor

TLA+ models, TLC runs and TLAPS proofs for the relocation code of this
repository (`src/kmod-loader/src/arch/riscv64.rs` and the helpers of
`src/kmod-loader/src/arch/mod.rs`) and for the module descriptor of
`src/kmod/src/lib.rs`, checked against `spec.md`.

## 1. The system

| Part | Source | State | Operations |
|---|---|---|---|
| Relocation driver `Riscv64ArchRelocate::apply_relocate_add` | riscv64.rs 439-545 | the section's entries, the symbol table, module memory, the loop index | one loop iteration per entry; an inner linear search for the HI20 paired with a PCREL_LO12; return Ok, Err or panic |
| Per-kind handlers `Riscv64RelocationType::apply_relocation` | riscv64.rs 10-430 | the patched memory cells | 32, 64, BRANCH, JAL, RVC_BRANCH, RVC_JUMP, PCREL_HI20, PCREL_LO12_I/S, HI20, LO12_I/S, CALL, CALL_PLT, RELAX, ALIGN, ADD16/32/64, SUB16/32/64; everything else `unimplemented!()` |
| Entry accessors and patch pointer | mod.rs 11-45 | none | split `r_info` into kind and symbol index; read and write 2/4/8-byte words through a raw address |
| LoongArch instruction formats | loongarch64/inst.rs | none | bitfield declarations, unused by the tree |
| Module metadata | kmod/src/lib.rs | a `.modinfo` record | `str_to_array64/32` (truncate to 63/31 bytes and NUL-pad), `name()`/`version()` (read back up to the first NUL) |
| Attribute macros, hello module | kmacro, modules/hello | none | compile-time section placement, a sample client |

**How the parts interact.** The driver decodes each entry, computes
`S + A` in i64, and calls one handler through `apply_relocation`. The
handler writes through a `Ptr`. A PCREL_LO12 does not carry its own
offset. Its symbol names the location of an AUIPC that a PCREL_HI20
patches. The driver searches the same section for that entry and
recomputes the HI20's offset. It then hands the lo12 residue to the LO12
handler. The first Err makes the function return. The entries already
applied stay patched.

**Where it is hard.**
- **Integer edges.** The driver does arithmetic in i64, u64, i32 and u32.
  Each operation overflows at its own edge. An overflow panics in a build
  with overflow checks and wraps in one without.
- **The hi20/lo12 split.** The +0x800 rounding bias and the asymmetric
  range [-2^31-2^11, 2^31-2^11) are computed independently in three
  places:
  - the HI20 handler;
  - the pair search in the driver;
  - the absolute LO12 handler.
  They must agree.
- **Pairs across entries.**
  - A LO12 may precede its HI20.
  - A label difference is an ADD and a SUB on one word, and the second
    reads what the first wrote.

## 2. Modules

| Module | Models |
|---|---|
| `RiscvRelocate` | the driver and every handler (one operator per handler, named after it) |
| `MCRiscvRelocate` | scaled widths and small input sets for TLC |
| `RiscvRelocateProofs` | TLAPS proof of type correctness |
| `RiscvRelocateCallProofs` | TLAPS proofs that an applied CALL reaches its target (`CallCorrect`), and that an applied branch or jump within reach does too (`BranchCorrect`) |
| `RiscvRelocateDataProofs` | TLAPS proof that ADD32 then SUB32 leaves the label difference (`LabelCorrect`) |
| `WrapArith` | arithmetic lemmas on an opaque `Mod` (congruences, ranges) and `AbsSplitArith`, the hi20/lo12 round trip modulo 2^32 |
| `RiscvRelocatePairProofs` | TLAPS proofs that absolute HI20/LO12 pairs (`AbsCorrect`) and PC-relative HI20/LO12 pairs (`PcrelCorrect`) reassemble |
| `RelaDecode` | the start of `apply_relocate_add` (446-459): the `debug_assert!` on `sh_entsize`, the slice of the ELF bytes and goblin's `from_raw_rela` view of `sh_size / 24` records at a 24-byte stride |
| `ModuleInfo` | `str_to_array64/32` as `declare_module!` uses them, and `name()`/`version()` (section 2.5) |
| `MCModuleInfo` | field sizes 4 and 3 for 64 and 32, inputs of up to 3 characters |
| `ModuleInfoProofs` | TLAPS proofs that the descriptor keeps its types (`InfoTypeCorrect`) and reads back truncated (`InfoReadsBack`) |
| `RelocateSection` | the abstract specification of applying one section, independent of the architecture (section 2.4) |
| `RiscvRelocateSectionProofs` | TLAPS proof that the driver implements `RelocateSection` (`SectionRefinement`) |

### 2.1 State

| Variable | Stands for |
|---|---|
| `relas` | the section's `Elf64_Rela` list, as records `[offset, type, sym, addend]`, where `type`/`sym` are what `get_rela_type`/`get_rela_sym_idx` return |
| `syms` | `load_info.syms` (index -> `st_value`) |
| `mem` | the cells at `sh_addr + r_offset` and the `+4` cell a CALL's jalr occupies |
| `i` | the loop position |
| `status` | `running`, or the function's end: `ok`, `err`, `panic` |
| `checked` | whether the build has overflow checks; chosen in `Init` |

### 2.2 Actions

- **`ApplyRela`** is one iteration of `for rela in rela_list`, in the
  code's order:
  1. the symbol lookup (out of bounds: panic);
  2. `try_from` (unknown kind: Err);
  3. `S + A` (overflow: panic when checked);
  4. then either `apply_relocation` or, for PCREL_LO12_I/S,
     `ResolvePcrelLo12`. That is the inner scan, which stops at the first
     entry that is of unknown kind (Err through `?`) or is a paired HI20.
     At a paired HI20 it does:
     - the symbol lookup;
     - the four i64 operations;
     - the GOT `unimplemented!()`;
     - then the handler with the lo12.
- **`Finish`** returns `Ok(())` once the loop is out of entries.
- **The handlers**, each with every Err and panic path of the code:
  - `apply_r_riscv_32_rela`, `_64_`;
  - `_pc_splice_` (BRANCH/JAL/RVC_BRANCH/RVC_JUMP, which differ only in
    the width of the field);
  - `_pcrel_hi20_`, `_pcrel_lo12_`, `_hi20_`, `_lo12_`;
  - `_call_` (CALL and CALL_PLT have the same body);
  - `_add_`, `_sub_`.

### 2.3 Data abstraction

- **Widths are constants.** In the code they are XLEN = 64, W32 = 32,
  W16 = 16, LO = 12, HI = 20, and 13/21/9/12 for the B/J/CB/CJ offset
  fields. TLC's integers cannot hold 2^64, so `MCRiscvRelocate` scales
  them to 8/6/4/2/4 and 4/5/3/4. These scaled widths keep:
  - every relation the code relies on (W32 = LO + HI, W16 < W32 < XLEN,
    every field narrower than W32);
  - every edge: the bias, the range bounds, and overflow in each width.
    The runs reach some of these edges, listed under Bounds in section 3.
    The proofs of section 6 cover every value, the edges included.
- **Every operation keeps its width.** `U(x, w)` is `x as uW` and
  `S(x, w)` is `x as iW`. `Traps` and `UTraps` decide whether the Rust
  operation would overflow.
- **A cell holding an instruction holds the value of the immediate field
  the relocation writes.** The scatter of that field over the encoding
  (the masks and shifts of lines 155-205, 220, 228, 235-239, 259,
  269-272, 296-299) is not modelled. Opcode and register bits are never
  written by the code, so nothing the properties say depends on them. A
  codec module is planned (section 7).

### 2.4 The abstract section and the refinement

`RelocateSection` states what spec.md 2, 5 and 7 promise of one call of
`apply_relocate_add`, whatever the architecture. Its variables are:
- `cells` (memory);
- `entries` (the section);
- `done` (how many entries are applied);
- `result`.

It has three actions:
- `Patch`: the next entry changes no cell outside `WritesOf(entry)`;
- `Abort`: the next entry fails with Err or a panic, and memory stays as
  it is;
- `Complete`: Ok, once `done = Len(entries)`.

There is no partial success and no rollback. The entries before a failure
stay applied, and the caller discards the allocation (spec.md 3).

`RiscvRelocate` instantiates it as `Section` with this refinement mapping:

| Abstract | Concrete |
|---|---|
| `cells` | `mem` |
| `entries` | `relas` |
| `done` | `i - 1` |
| `result` | `status` |
| `WritesOf` | `Writes` |

`ImplementsSection == Section!Spec` is checked as a PROPERTY of the pcrel
run.

The abstract liveness is `<>(result # "running")`, not `WF(Next)`. A
`Patch` step leaves the new contents of the entry's cells unconstrained,
so its ENABLED is not something TLC can compute. Over a finite section
the two say the same: every `Patch` raises `done`.

### 2.5 The module descriptor

`ModuleInfo` has one instance of the copy loop per field (`name`,
`version`). Its variables are:
- `input`: the bytes of the `&str` given to `declare_module!`;
- `array`: the `[u8; Cap]` being filled;
- `idx`: the loop's `i`;
- `built`: the loop has returned.

`WhileCond` is the loop condition `i < bytes.len() && i < Cap - 1`.
`StrToArrayStep` is one iteration, and `StrToArrayDone` is the exit.
`Read` is `name()`/`version()`: it takes the bytes before the first NUL
(`NulLen`, the `position(...).unwrap_or(len)` of the code, written as the
least NUL index), then applies `from_utf8`.

Bytes are abstracted to four values:
- NUL;
- an ASCII letter;
- the lead byte 0xC3 and the continuation byte 0xA9 of a two-byte
  character.

`ValidUtf8` is exactly `from_utf8` over this alphabet. The inputs are
every `&str` of up to three of the characters `A`, `é` and `\0`.
`Inputs` describes them by their bytes: the strings over the alphabet
that are valid UTF-8 and have at most `MaxChars` bytes that are not
continuation bytes. Over this alphabet, that is the same set as every
concatenation of the three encodings. Because
they are `&str`, they are valid UTF-8, and they may contain a NUL.

## 3. Runs

The relocation runs use `MCRiscvRelocate`, and the descriptor runs use `MCModuleInfo`. entsize_unchecked uses `RelaDecode`; that one uses `RelaDecode` with real sizes (24, 16, 48 bytes). Deadlock checking is off because the
function ends: after `Ok`, `Err` or a panic nothing happens.

| Run (cfg) | Expect | Checks | What it shows |
|---|---|---|---|
| pcrel (`_pcrel`) | pass | `TypeOK`, `CallReassembles`, `PcrelPairsReassemble`, `ImplementsSection` | An applied CALL's auipc+jalr adds exactly S+A-L to pc (`CallReassembles`). An applied PCREL_HI20/PCREL_LO12 pair adds the HI20's offset, in either order of the two entries (`PcrelPairsReassemble`). Every run of the driver is a run of `RelocateSection`: a failing entry, even a CALL out of range or a LO12 without its HI20, has written nothing, and the section ends (`ImplementsSection`). |
| abs (`_abs`) | pass | `AbsPairsReassemble` | An applied HI20/LO12 pair for one S+A reassembles the address modulo 2^32, although HI20 works on the u64 and LO12 on the i32 cut. |
| data (`_data`) | pass | `LabelDifference` | ADD32 A then SUB32 B on one word leaves (A-B) mod 2^32, whatever the word held. |
| branch (`_branch`) | pass | `PcSplicesInRange` | An applied BRANCH, JAL, RVC_BRANCH or RVC_JUMP whose offset is even and within the immediate's reach encodes that offset exactly. This holds backwards as well as forwards, at both ends of each reach, and in the build that wraps the i64 offset. |
| add_overwrites (`_add`) | violation | `AddAccumulates` | ADD32 stores V instead of adding it. |
| branch_truncates (`_branchrange`) | violation | `PcSplicesExact` | A BRANCH out of range is applied truncated. |
| unimplemented_panics (`_unimpl`) | violation | `NeverPanics` | R_RISCV_NONE panics in `unimplemented!()`. |
| sub_underflow_panics (`_sub`) | violation | `NeverPanics` | SUB32 below zero panics under overflow checks. |
| sym_index_panics (`_symoob`) | violation | `NeverPanics` | An out-of-range symbol index panics. |
| module_info (`MCModuleInfo`) | pass | `TypeOK`, `TruncatedReadsBack` | Each field ends NUL-terminated. It reads back as the input cut at Cap - 1 bytes and at its first NUL, or as "Invalid UTF-8" exactly when that cut is not UTF-8. |
| name_split_utf8 (`MCModuleInfo_utf8`) | violation | `NameValid` | `"Aé"` as a version of field size 3 is stored as `41 C3 00`, and `version()` answers "Invalid UTF-8". |
| entsize_unchecked (`RelaDecode_entsize`) | violation | `EntsizeRejected` | A section with `sh_entsize` 16 is not rejected with an error: the debug build panics in `debug_assert!`, and the release build decodes records that straddle entries. |

**Bounds, and why they are enough.** Every run has sections of up to two
entries, the size at which the pairs exist. Each pass run enumerates the
kinds its property is about together with their neighbours. Its values
are chosen so that the cases below happen.

- **pcrel** uses:
  - kinds PCREL_HI20, PCREL_LO12_I, CALL, GOT_HI20 and the unknown kind 57;
  - symbol values 16 and 20 (the two patch locations, so that pairs
    form);
  - 43 (offsets 27 and 23, inside the scaled auipc range [-34, 30), with
    a lo part that rounds the hi20 up);
  - 130 (-126 as i8: an offset far outside the range whose i8
    subtraction overflows);
  - addends 0 and -120 (so that S+A overflows i8, the scaled i64);
  - the symbol index 2 of 2 symbols (out of bounds);
  - both builds.

  TLC does not reach the offsets at the ends of the auipc range (29 and
  -34 inside it, 30 and -35 just past it). `CallCorrect` and
  `PcrelCorrect` (section 6) prove the two properties for every offset,
  those included. The range check itself is `riscv_insn_valid_32bit_offset`,
  translated as written.
- **branch** uses the kinds BRANCH, JAL, RVC_BRANCH, RVC_JUMP and
  CALL_PLT, and the symbol values 8, 16, 22, 34 and 130. From the slots
  at 16 and 20 these give the offsets -8, 0, 6, 18 and -12, -4, 2, 14:
  - the lowest and the highest even offset of the B, J and CB reaches
    ([-8, 8), [-16, 16) and [-4, 4) scaled);
  - the first even offset past each of those reaches;
  - an offset whose i8 subtraction overflows (130).
- **branch_truncates** applies a BRANCH from 16 to 24. The offset is 8,
  the first one past the scaled reach [-8, 8).
- **abs** uses symbol values 7, 30, 100 and 255. They are:
  - an address below the bias;
  - an address with lo12 bit 1 set;
  - an address where the i6 cut overflows on `+ Bias`;
  - the largest u8, where `+ Bias` overflows u8.
- **data** starts the word at 0 and at 77 (its low 6 bits are nonzero) and
  uses values 5 and 200 (200 > 2^6, and SUB below zero).

- **module_info** covers inputs of 0 to 6 bytes in fields of 4 and 3
  bytes. These reach inputs that fit, fill the field exactly and overflow
  it, a two-byte character on each side of the cut, and an interior NUL.

The relocation state spaces are 38k-251k distinct states. Each pass run finishes
within a minute.

**Mutants.** Each property of a pass run is shown to depend on the code
by a mutant that TLC must catch:

| Property | Mutant |
|---|---|
| `TypeOK` | PCREL_LO12 writes the lo12 unmasked |
| `CallReassembles` | CALL writes the auipc hi20 without the +0x800 bias |
| `PcrelPairsReassemble` | hi20 without the +0x800 bias, in PCREL_HI20 and CALL |
| `AbsPairsReassemble` | absolute HI20 without the bias |
| `LabelDifference` | SUB with its operands swapped |
| `PcSplicesInRange` | the splice leaves out the sign bit imm[n-1] |
| `TypeOK` (ModuleInfo) | the loop without its `i < Cap - 1` bound |
| `TruncatedReadsBack` | the bound one byte short, `i < Cap - 2` |
| `ImplementsSection` | CALL writes its auipc before the range check, then returns Err (a half-patched pair left behind a failure) |

## 4. Findings

Each violation run shows a disagreement between the code and spec.md
(PROJECT.json, "findings"):

1. **ADD stores instead of adding.** spec.md 4.B has `*loc += V`, and 8 (5)
   says SUB undoes ADD. The code stores V. The label-difference idiom
   still works, because it always starts with an ADD; an ADD on a nonzero
   word does not.
2. **Branch and jump offsets are truncated without a range check.**
   spec.md 3 (5) and 7 say such a relocation fails instead. In the run, a
   BRANCH from 16 to 24 has offset 8, the first one past the scaled 4-bit
   reach. It returns Ok with immediate 4, which reads back as -8: a
   branch backwards.
3. **`unimplemented!()` panics.** It is reached by R_RISCV_NONE, GOT_HI20
   and every kind without a handler. spec.md 7 says these produce
   `RelocationFailed`, and spec.md 4.B says NONE is a no-op.
4. **SUB uses checked `-`.** A debug build panics where spec.md 9 asks for
   wrapping. In the run, a single SUB32 of 5 on a word holding 0 panics.
5. **An out-of-bounds symbol index panics.** spec.md 7 asks for
   `RelocationFailed`.
6. **`sh_entsize` is checked only by `debug_assert!`.** spec.md 4.C (1)
   and 7 ask for `RelocationFailed`. A debug build panics instead. A
   release build views a 16-byte-stride section as 24-byte records, each
   made of bytes of two entries.
7. **A truncated name can be invalid UTF-8.** `str_to_array64/32` cut at
   byte 63/31 regardless of character boundaries. spec.md 6 calls the
   fields "NUL-padded UTF-8", but `name()` then returns "Invalid UTF-8".

## 5. Fairness

`Spec` has weak fairness on `Next`. The driver is a single-threaded loop
with no locks, waits or callbacks into other threads. Whenever it can take
a step, nothing can stop it from taking one. The nested scan is a bounded
`for` over the same list, so it is modelled as part of one step.

`RelaDecode` and `ModuleInfo` assume no fairness, because no liveness
property is stated of them. Their runs check no deadlock either: the
decode step and each copy loop end.

## 6. Proofs

`RiscvRelocateProofs.tla` proves
`THEOREM TypeCorrect == Spec => []TypeOK` for every value of the constants
that satisfies `WidthAssumption`, `PowerAssumption` and `InputAssumption`.
The theorem says:
- every cell of memory stays a u64, whatever width the handler writes;
- the loop index stays within `1..Len(relas)+1`.

`TypeOK` is inductive as it stands, so the proof has the usual three
parts:
1. `Init => TypeOK`;
2. one lemma per handler, one for the PCREL_LO12 pair search and one for
   each of `ApplyRela` and `Finish`, each showing the step keeps `TypeOK`;
3. a PTL step that combines them.

The handler lemmas rest on four arithmetic lemmas:
- `UType`: `x % 2^w` is a w-bit word;
- `SType`: `x as iW` is an integer;
- `FieldType`: a bit field is a u64;
- `LowReplace`: writing a w-bit value into the low bits of a u64 keeps it
  a u64. Its proof divides m by 2^w.

`DispatchOK` takes the CASE of `apply_relocation` one kind at a time.

`PowerAssumption` states that `2^b = 2^a * 2^(b-a)` and `2^a > 0` for
`0 <= a <= b <= XLEN`. These are facts of arithmetic, but the provers
cannot derive them for a symbolic exponent, because induction over Nat
cannot be instantiated. They are therefore an assumption of the module,
and TLC evaluates it on every run.

`RiscvRelocateCallProofs.tla` proves
`THEOREM CallCorrect == Spec => []CallReassembles` from the same
assumptions: once the loop has moved past a CALL/CALL_PLT whose two cells
no other entry writes, auipc's `sext32(hi20 << 12)` plus jalr's
`sext12(lo12)` is exactly the offset S+A-L. The argument has three parts.

1. **Arithmetic.** `SplitArith` is the hi20/lo12 round trip of spec.md 8 (4)
   over abstract powers P = 2B and Q = 2K. `ModUnique` (quotient and
   remainder are unique) is applied once per case of the sign of the offset
   and of the lo part. `CallSplit` instantiates it with B = 2^(LO-1) and
   K = 2^(HI-1). It uses `PowerAssumption` to rewrite 2^LO, 2^HI, 2^W32 and
   2^(W32-1). The precondition is exactly `riscv_insn_valid_32bit_offset`:
   the asymmetric range is what makes the biased hi20 fit in HI bits.
2. **Frame.** `StepWithin(C)` says a step moves the loop index by 0 or 1
   and changes no cell outside C. One lemma per handler shows it for the
   cells `Writes` names. `DispatchWithin` and `ApplyRelaWithin` lift it to
   `apply_relocation` and to one iteration. `CallStep` reads off the two
   cells a CALL writes when the loop moves past it.
3. **Induction.** `CallReassembles` is not inductive by itself: it says
   nothing of why the cells hold what they hold. The invariant `CallInv`
   (with `TypeOK`) records that every applied, untouched CALL:
   - has a symbol in range;
   - holds `Hi20Field(o)` and `U(o - Hi20Field(o)*2^12, 12)` in its cells;
   - passed the range check.

   `CallInv` was first checked by TLC on the pcrel instance. Its step
   lemma splits on whether the CALL is the entry just applied (`CallStep`)
   or an earlier one (its cells are outside `Writes` of the current entry,
   by `Untouched`). `CallInvReassembles` then applies `CallSplit`.

The same module proves
`THEOREM BranchCorrect == Spec => []PcSplicesInRange` from the same
assumptions. Once the loop has moved past a BRANCH, JAL, RVC_BRANCH or
RVC_JUMP whose instruction no other entry writes, its n-bit immediate,
sign-extended and doubled, is the offset to S+A. This holds whenever that
offset is even and fits n bits. The proof reuses the frame lemmas and has
the same three parts:
- `SpliceArith` is the arithmetic. Halving an even x in [-P, P), keeping
  it mod P and reading the double as a signed number mod 2P gives x back.
  The proof has one case per sign.
- `SpliceFits` instantiates it with P = 2^(n-1), using `PowerAssumption`
  for 2^n = 2 * 2^(n-1).
- The invariant `SpliceInv` records that every applied, untouched splice
  kind holds `Field(o, 1, n-1)` in its cell, whatever its offset.
  `PcSplicesInRange` alone says nothing of the out-of-reach entries, which
  are applied truncated, so it is not inductive by itself. `SpliceInv`
  was first checked by TLC on the branch instance.

`RiscvRelocateSectionProofs.tla` proves
`THEOREM SectionRefinement == Spec => Section!SafeSpec`, which is the
safety part of `ImplementsSection`, from the same assumptions. The proof
reuses the frame lemma of the CALL proof:
- `ApplyRelaWithin` shows that one iteration either
  - moves `i` by one with `status` unchanged and no cell changed outside
    `Writes(relas[i])`, or
  - leaves `i` and `mem` as they are and sets `status` to err or panic;
- `FailWithin` is where the second disjunct comes from: every early return
  and panic of the code is a `Fail` step, which writes nothing;
- the first disjunct maps to `Patch` (`SectionPatch`), the second to
  `Abort` (`SectionAbort`), `Finish` to `Complete` (`SectionComplete`),
  and a stutter to a stutter;
- `TypeCorrect` supplies `TypeOK` on both sides of a step. The invariant
  needed is `TypeOK` alone.

`RiscvRelocateDataProofs.tla` proves
`THEOREM LabelCorrect == Spec => []LabelDifference`.
`LabelDifference` is not inductive: when the loop reaches the SUB32 it
must know what the ADD32 left in the word. `LabelInv` adds that an applied
ADD32 whose word no later applied entry has written holds S+A in its low
32 bits. `Add32Step` and `Sub32Step` read off what the two handlers write
(a u32 into the low bits of the u64 cell, `LowSet`), and `ModSub` gives
(A mod 2^32 - B) mod 2^32 = (A - B) mod 2^32. The proof covers a wrapping
and a trapping build alike, because a trapping SUB32 is a `Fail` step.

`RiscvRelocatePairProofs.tla` proves two theorems.

- `THEOREM AbsCorrect == Spec => []AbsPairsReassemble`. The hard part is
  arithmetic: HI20 rounds S+A as a u64 (`+ 0x800`, then bits 12..31) and
  LO12 takes the low 12 bits of S+A cut to i32. `WrapArith.tla` proves
  over abstract moduli (`AbsSplitArith`) that the two still add up to S+A
  mod 2^32. It uses `Mod`, an opaque wrapper of `%`, because the provers
  do not instantiate lemmas stated with `%` itself. `AbsPow` supplies the
  power facts from `PowerAssumption`. The invariant `AbsInv` says that
  every applied HI20/LO12 whose cell no later entry wrote holds what its
  handler computed from its own S+A (`Hi20Step`, `Lo12Step`).
- `THEOREM PcrelCorrect == Spec => []PcrelPairsReassemble`. The lo12 of
  a PCREL_LO12 is computed from whichever entry the pair search stopped
  at, so the invariant `PcrelInv` records that entry. An applied,
  untouched PCREL_LO12 holds `lo_12` of some `PairArith(jj)`, where jj is
  one of the entries where the scan can stop (`ScanStops`), of a known kind
  other than GOT_HI20 (`PairFound`). An applied, untouched PCREL_HI20
  passed its range check and holds the hi20 of its offset. Such a jj is
  a PCREL_HI20 at the hi cell. `Untouched` then forces it to be the pair's
  own HI20. `PairLoArith` shows that the search's i64 arithmetic does not
  wrap for an offset in range (`SSmall`), so its lo12 is the lo12 of that
  offset. `CallSplit` closes the sum, exactly and not only modulo 2^32.

`ModuleInfoProofs.tla` proves two theorems about the descriptor, for
every pair of array sizes that `CapAssumption` allows (any positive
`Cap`) and every input of bytes:
- `THEOREM InfoTypeCorrect == Spec => []TypeOK`. `TypeOK` is inductive:
  an iteration copies byte `i` of the input with `i < len` and
  `i < Cap - 1`.
- `THEOREM InfoReadsBack == Spec => []TruncatedReadsBack`. The invariant
  `InfoInv` says what a field holds while it is still being built. The
  array is the first `idx` input bytes followed by NULs (`Filled`, through
  `Pad`). The counter has not passed the input's length. A built field's
  loop condition is false. A built field therefore holds its truncated
  input with at least one NUL after it. `PadNulLen` shows that such an
  array has its first NUL where the truncated input has it, or just after
  it. So `name()` cuts both at the same length and to the same bytes.
  `NulLen` takes the least NUL index with CHOOSE. `NatMin` gets the
  existence of that least element from the library's
  `NatLessThanWellFounded` and `WFMin`, which take no operator parameter.
  No induction over sequences is needed: the proof never computes UTF-8
  validity, and both sides apply `ValidUtf8` to the same bytes.

Each invariant was first checked by TLC as an invariant of the run it
serves. `PcrelInv` was checked on the pcrel instance with 2 and with 3
entries (15 million states).

**Only model-checked, not proved:**
- the liveness part of `ImplementsSection` (the section ends): liveness
  and ENABLED are out of the provers' reach.

Every invariant of a passing run now has a theorem. The properties of the
violation runs (`NeverPanics`, `AddAccumulates`, `PcSplicesExact`,
`EntsizeRejected`, `NameValid`) are false of the code, and TLC shows a
counterexample for each.

## 7. Not modelled, and the plan

| Item | Status |
|---|---|
| The instruction encodings | Planned as a codec module. It would give the B, J, CB, CJ, U, I and S layouts of lines 155-299 as field scatter functions on a 32/16-bit word. It would check spec.md 8 (2) and (3) (bits outside the immediate are preserved; the immediate decodes back to the offset) over all words of a scaled width, and connect to the cells of `RiscvRelocate` by a refinement. |
| `MODULE_MAGIC` | Not modelled: it is a constant. spec.md 6 gives it both as the literal bytes `M O D U` and as the little-endian u32 0x4D4F4455, whose bytes are `U D O M`. The code stores the u32, so a host that matches the literal bytes rejects every module. |
| `ModuleInfo::default`, `Debug`, `init_fn`/`exit_fn` | Not modelled. `Default` is a zeroed descriptor that reads back as two empty strings, and `Debug` is formatting. The host that calls init/exit is not in this tree. |
| The bytes of a record when the stride is wrong | Abstracted: `RelaDecode` marks such a record `Straddle`. `RiscvRelocate` receives its entries already decoded. |
| The other architectures | Not modelled: their relocation code is not part of this tree. |
| kmacro and the hello module | Not modelled: the macros only place functions in `.text.init`/`.text.exit`. hello's descriptor (`"hello"`, `"1.0.0"`) is ASCII shorter than both fields, the case `TruncatedReadsBack` covers. |
| LoongArch `inst.rs` | Not modelled: it holds bitfield layouts only, and no code in this tree uses them. |
| Logging and error message text | Not modelled. |
