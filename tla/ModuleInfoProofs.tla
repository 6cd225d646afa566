--------------------------- MODULE ModuleInfoProofs ---------------------------
(***************************************************************************)
(* Proofs about the kmod module descriptor: the while loops of             *)
(* str_to_array64/32 keep the types, and once a field is built, name() /   *)
(* version() read back the input cut at Cap - 1 bytes and at its first    *)
(* NUL, for every array size Cap and every input.                          *)
(***************************************************************************)
EXTENDS ModuleInfo, WellFoundedInduction, TLAPS

(***************************************************************************)
(* Least elements.  NulLen takes the least NUL index with CHOOSE; a       *)
(* non-empty set of naturals has a least element because < is well        *)
(* founded on Nat.                                                         *)
(***************************************************************************)
LEMMA NatMin ==
    ASSUME NEW T \in SUBSET Nat, T # {}
    PROVE  \E x \in T : \A y \in T : x <= y
<1>1. \E x \in T : \A y \in T : ~(<<y, x>> \in OpToRel(<, Nat))
  BY NatLessThanWellFounded, WFMin
<1>2. PICK x \in T : \A y \in T : ~(<<y, x>> \in OpToRel(<, Nat)) BY <1>1
<1>3. \A y \in T : ~(y < x) BY <1>2 DEF OpToRel
<1>. QED BY <1>3

\* the CHOOSE of NulLen picks the least element when there is one
LEMMA ChooseLeast ==
    ASSUME NEW T \in SUBSET Nat, NEW x \in T, \A y \in T : x <= y
    PROVE  (CHOOSE k \in T : \A j \in T : k <= j) = x
<1>1. \E k \in T : \A j \in T : k <= j OBVIOUS
<1>. DEFINE m == CHOOSE k \in T : \A j \in T : k <= j
<1>2. m \in T /\ \A j \in T : m <= j BY <1>1
<1>3. m <= x /\ x <= m /\ m \in Nat BY <1>2
<1>. QED BY <1>3

(***************************************************************************)
(* The type invariant.  It is inductive as it stands: a step copies a     *)
(* byte of the input at an index below its length and below Cap - 1.       *)
(***************************************************************************)
LEMMA InputsBytes == Inputs \subseteq Seq(Bytes)
BY DEF Inputs

LEMMA InfoInitOK ==
    ASSUME Init
    PROVE  TypeOK
<1>1. \A f \in Fields : Cap[f] \in Nat \ {0} BY CapAssumption DEF Fields
<1>2. input \in [Fields -> Seq(Bytes)] BY InputsBytes DEF Init
<1>3. \A f \in Fields : array[f] \in [1..Cap[f] -> Bytes] BY DEF Init, Bytes
<1>4. idx \in [Fields -> Nat] /\ \A f \in Fields : idx[f] < Cap[f] BY <1>1 DEF Init
<1>. QED BY <1>2, <1>3, <1>4 DEF Init, TypeOK

LEMMA InfoStepOK ==
    ASSUME TypeOK, [Next]_vars
    PROVE  TypeOK'
<1>1. \A f \in Fields : Cap[f] \in Nat \ {0} BY CapAssumption DEF Fields
<1>2. ASSUME NEW f \in Fields, StrToArrayStep(f) PROVE TypeOK'
  <2>1. idx[f] + 1 \in 1..Len(input[f]) /\ idx[f] + 1 < Cap[f]
    BY <1>1, <1>2 DEF StrToArrayStep, WhileCond, TypeOK
  <2>2. input[f][idx[f] + 1] \in Bytes BY <2>1 DEF TypeOK
  <2>. QED BY <1>1, <1>2, <2>1, <2>2 DEF StrToArrayStep, TypeOK
<1>3. ASSUME NEW f \in Fields, StrToArrayDone(f) PROVE TypeOK'
  BY <1>3 DEF StrToArrayDone, TypeOK
<1>4. CASE UNCHANGED vars BY <1>4 DEF vars, TypeOK
<1>. QED BY <1>2, <1>3, <1>4 DEF Next

\* The descriptor's fields keep their types: in every run of the while
\* loops of str_to_array64/32, for every size Cap, each field is an array
\* of Cap bytes and the loop counter stays below Cap.
THEOREM InfoTypeCorrect == Spec => []TypeOK
BY InfoInitOK, InfoStepOK, PTL DEF Spec

(***************************************************************************)
(* Reading a padded array back.  An array that holds the bytes t and NULs *)
(* after them, at least one, has its first NUL where t has it, or right   *)
(* after t: name() cuts it at the same length as t, to the same bytes.    *)
(***************************************************************************)
Pad(t, c) == [k \in 1..c |-> IF k <= Len(t) THEN t[k] ELSE NUL]

LEMMA PadNulLen ==
    ASSUME NEW t \in Seq(Bytes), NEW c \in Nat, Len(t) < c
    PROVE  /\ NulLen(Pad(t, c)) = NulLen(t)
           /\ NulLen(t) \in 0..Len(t)
           /\ SubSeq(Pad(t, c), 1, NulLen(t)) = SubSeq(t, 1, NulLen(t))
           /\ Pad(t, c)[c] = NUL
<1>. DEFINE a == Pad(t, c)
            IT == {k \in 1..Len(t) : t[k] = NUL}
            IA == {k \in 1..Len(a) : a[k] = NUL}
<1>1. a \in Seq(Bytes) /\ Len(a) = c /\ a[c] = NUL
  BY DEF Pad, Bytes
<1>2. IA = IT \cup ((Len(t) + 1)..c) BY <1>1 DEF Pad
<1>3. IT \subseteq Nat /\ IA \subseteq Nat BY <1>1
<1>4. CASE IT = {}
  <2>1. (CHOOSE k \in IA : \A j \in IA : k <= j) = Len(t) + 1
    <3>1. Len(t) + 1 \in IA /\ \A y \in IA : Len(t) + 1 <= y BY <1>2, <1>4
    <3>. QED BY <1>3, <3>1, ChooseLeast
  <2>2. IA # {} BY <2>1, <1>2
  <2>3. NulLen(a) = (CHOOSE k \in IA : \A j \in IA : k <= j) - 1 BY <2>2 DEF NulLen
  <2>4. NulLen(t) = Len(t) BY <1>4 DEF NulLen
  <2>5. NulLen(a) = Len(t)
    <3>1. Len(t) \in Nat /\ (Len(t) + 1) - 1 = Len(t) OBVIOUS
    <3>. QED BY <2>1, <2>3, <3>1, Zenon
  <2>6. SubSeq(a, 1, Len(t)) = SubSeq(t, 1, Len(t)) BY <1>1 DEF Pad
  <2>. QED BY <1>1, <2>4, <2>5, <2>6
<1>5. CASE IT # {}
  <2>1. PICK x \in IT : \A y \in IT : x <= y BY <1>3, <1>5, NatMin
  <2>2. x \in IA /\ \A y \in IA : x <= y BY <1>2, <2>1
  <2>3. (CHOOSE k \in IT : \A j \in IT : k <= j) = x BY <1>3, <2>1, ChooseLeast
  <2>4. (CHOOSE k \in IA : \A j \in IA : k <= j) = x BY <1>3, <2>2, ChooseLeast
  <2>5. NulLen(a) = x - 1 BY <2>2, <2>4 DEF NulLen
  <2>6. NulLen(t) = x - 1 BY <1>5, <2>3 DEF NulLen
  <2>7. x \in 1..Len(t) BY <2>1
  <2>8. SubSeq(a, 1, x - 1) = SubSeq(t, 1, x - 1) BY <1>1, <2>7 DEF Pad
  <2>. QED BY <1>1, <2>5, <2>6, <2>7, <2>8
<1>. QED BY <1>4, <1>5

(***************************************************************************)
(* The inductive invariant.  TruncatedReadsBack speaks only of built      *)
(* fields; the loop needs to know what a field holds while it is still    *)
(* being built.  InfoInv says that the array holds the first idx bytes of  *)
(* the input and NULs after them (Filled), that idx has not passed the     *)
(* input's length, and that a built field's loop condition is false.      *)
(***************************************************************************)
Filled(f) == Pad(SubSeq(input[f], 1, idx[f]), Cap[f])

InfoInv ==
    /\ TypeOK
    /\ \A f \in Fields :
         /\ idx[f] <= Len(input[f])
         /\ array[f] = Filled(f)
         /\ built[f] => ~WhileCond(f)

LEMMA InfoInvInit ==
    ASSUME Init
    PROVE  InfoInv
<1>1. TypeOK BY InfoInitOK
<1>2. ASSUME NEW f \in Fields
      PROVE  idx[f] <= Len(input[f]) /\ array[f] = Filled(f)
  <2>1. input[f] \in Seq(Bytes) /\ idx[f] = 0 BY <1>1 DEF TypeOK, Init
  <2>2. Len(SubSeq(input[f], 1, 0)) = 0 BY <2>1
  <2>. QED BY <2>1, <2>2 DEF Init, Filled, Pad
<1>3. \A f \in Fields : ~built[f] BY DEF Init
<1>. QED BY <1>1, <1>2, <1>3 DEF InfoInv

LEMMA InfoInvStep ==
    ASSUME InfoInv, [Next]_vars
    PROVE  InfoInv'
<1>1. TypeOK' BY InfoStepOK DEF InfoInv
<1>2. ASSUME NEW f \in Fields, StrToArrayStep(f) PROVE InfoInv'
  <2>1. input[f] \in Seq(Bytes) /\ idx[f] \in Nat /\ Cap[f] \in Nat
        /\ idx[f] + 1 <= Len(input[f]) /\ idx[f] + 1 < Cap[f]
    BY <1>2, CapAssumption DEF InfoInv, TypeOK, StrToArrayStep, WhileCond, Fields
  <2>2. array'[f] = Filled(f)'
    <3>1. array'[f] = [array[f] EXCEPT ![idx[f] + 1] = input[f][idx[f] + 1]]
      BY <1>2 DEF StrToArrayStep, InfoInv, TypeOK
    <3>2. array[f] = Pad(SubSeq(input[f], 1, idx[f]), Cap[f]) BY DEF InfoInv, Filled
    <3>3. Filled(f)' = Pad(SubSeq(input[f], 1, idx[f] + 1), Cap[f])
      BY <1>2 DEF StrToArrayStep, Filled, InfoInv, TypeOK
    <3>4. /\ Len(SubSeq(input[f], 1, idx[f])) = idx[f] /\ Len(SubSeq(input[f], 1, idx[f] + 1)) = idx[f] + 1
          /\ \A k \in 1..idx[f] : SubSeq(input[f], 1, idx[f])[k] = input[f][k]
          /\ \A k \in 1..(idx[f] + 1) : SubSeq(input[f], 1, idx[f] + 1)[k] = input[f][k]
      BY <2>1
    <3>5. Filled(f)' = [k \in 1..Cap[f] |-> IF k <= idx[f] + 1 THEN input[f][k] ELSE NUL]
      BY <2>1, <3>3, <3>4 DEF Pad
    <3>6. array[f] = [k \in 1..Cap[f] |-> IF k <= idx[f] THEN input[f][k] ELSE NUL]
      BY <2>1, <3>2, <3>4 DEF Pad
    <3>7. array'[f] = [k \in 1..Cap[f] |-> IF k <= idx[f] + 1 THEN input[f][k] ELSE NUL]
      <4>1. DOMAIN array'[f] = 1..Cap[f] BY <3>1, <3>6
      <4>2. \A k \in 1..Cap[f] :
              array'[f][k] = IF k <= idx[f] + 1 THEN input[f][k] ELSE NUL
        BY <2>1, <3>1, <3>6
      <4>. QED BY <3>1, <4>1, <4>2
    <3>. QED BY <3>5, <3>7
  <2>3. ASSUME NEW g \in Fields, g # f
        PROVE  /\ idx'[g] <= Len(input'[g])
               /\ array'[g] = Filled(g)'
               /\ built'[g] => ~WhileCond(g)'
    BY <1>2, <2>3 DEF StrToArrayStep, InfoInv, TypeOK, Filled, WhileCond
  <2>4. idx'[f] <= Len(input'[f]) /\ ~built'[f]
    BY <1>2, <2>1 DEF StrToArrayStep, InfoInv, TypeOK
  <2>. QED BY <1>1, <2>2, <2>3, <2>4 DEF InfoInv
<1>3. ASSUME NEW f \in Fields, StrToArrayDone(f) PROVE InfoInv'
  <2>1. \A g \in Fields : Filled(g)' = Filled(g) /\ WhileCond(g)' = WhileCond(g)
    BY <1>3 DEF StrToArrayDone, Filled, WhileCond
  <2>. QED BY <1>1, <1>3, <2>1 DEF StrToArrayDone, InfoInv, TypeOK
<1>4. CASE UNCHANGED vars BY <1>4 DEF vars, InfoInv, TypeOK, Filled, WhileCond
<1>. QED BY <1>2, <1>3, <1>4 DEF Next

\* a built field holds its truncated input padded with NULs, so PadNulLen
\* gives what name() / version() read
LEMMA InfoInvReads ==
    ASSUME InfoInv
    PROVE  TruncatedReadsBack
<1>. SUFFICES ASSUME NEW f \in Fields, built[f]
              PROVE  LET cut == SubSeq(Truncated(f), 1, NulLen(Truncated(f)))
                     IN  /\ array[f][Cap[f]] = NUL
                         /\ Read(array[f]) = IF ValidUtf8(cut) THEN cut ELSE Invalid
  BY DEF TruncatedReadsBack
<1>1. /\ input[f] \in Seq(Bytes) /\ idx[f] \in Nat /\ Cap[f] \in Nat \ {0}
      /\ idx[f] < Cap[f] /\ idx[f] <= Len(input[f])
      /\ ~WhileCond(f) /\ array[f] = Filled(f)
  BY CapAssumption DEF InfoInv, TypeOK, Fields
\* the loop stopped at the input's end or at Cap - 1, whichever came first
<1>2. idx[f] = IF Len(input[f]) < Cap[f] THEN Len(input[f]) ELSE Cap[f] - 1
  BY <1>1 DEF WhileCond
<1>3. Truncated(f) = SubSeq(input[f], 1, idx[f]) BY <1>2 DEF Truncated
<1>4. Truncated(f) \in Seq(Bytes) /\ Len(Truncated(f)) < Cap[f] BY <1>1, <1>3
<1>5. array[f] = Pad(Truncated(f), Cap[f]) BY <1>1, <1>3 DEF Filled
<1>6. /\ NulLen(Pad(Truncated(f), Cap[f])) = NulLen(Truncated(f))
      /\ SubSeq(Pad(Truncated(f), Cap[f]), 1, NulLen(Truncated(f)))
           = SubSeq(Truncated(f), 1, NulLen(Truncated(f)))
      /\ Pad(Truncated(f), Cap[f])[Cap[f]] = NUL
  BY <1>1, <1>4, PadNulLen
<1>. QED BY <1>5, <1>6 DEF Read

(***************************************************************************)
(* The descriptor reads back as it was declared: in every run of the      *)
(* while loops of str_to_array64/32, for every array size Cap and every   *)
(* input &str, once a field is built its last byte is NUL and name() /    *)
(* version() return the input cut at Cap - 1 bytes and at its first NUL,  *)
(* or "Invalid UTF-8" exactly when that cut is not valid UTF-8.           *)
(***************************************************************************)
THEOREM InfoReadsBack == Spec => []TruncatedReadsBack
<1>1. Init => InfoInv BY InfoInvInit
<1>2. InfoInv /\ [Next]_vars => InfoInv' BY InfoInvStep
<1>3. InfoInv => TruncatedReadsBack BY InfoInvReads
<1>. QED BY <1>1, <1>2, <1>3, PTL DEF Spec

====
