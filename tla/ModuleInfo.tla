------------------------------ MODULE ModuleInfo ------------------------------
(***************************************************************************)
(* The module metadata descriptor of the kmod crate (src/kmod/src/lib.rs). *)
(* declare_module! builds the static MODULE_INFO at compile time: name   *)
(* by str_to_array64 and version by str_to_array32, each a while loop     *)
(* copying at most Cap - 1 bytes into a zeroed array.  The host reads     *)
(* the descriptor back with ModuleInfo::name() / version(): up to the      *)
(* first NUL, then from_utf8, or "Invalid UTF-8".                          *)
(*                                                                         *)
(* Data abstraction: a byte is one of NUL, an ASCII letter, the lead byte  *)
(* 0xC3 and the continuation byte 0xA9 of a two-byte character (U+00E9);   *)
(* the array sizes 64 and 32 are the constant Cap.                         *)
(***************************************************************************)
EXTENDS Naturals, Sequences, FiniteSets

CONSTANTS
    Cap,        \* array length of each field: name 64, version 32
    MaxChars,   \* longest input string, in characters
    Invalid     \* the &str "Invalid UTF-8"

ASSUME CapAssumption ==
    /\ Cap \in [{"name", "version"} -> Nat \ {0}]
    /\ MaxChars \in Nat

Fields == {"name", "version"}

NUL == 0
Lead == 195   \* 0xC3
Cont == 169   \* 0xA9
Bytes == {NUL, 65, Lead, Cont}

VARIABLES
    input,   \* field -> the bytes of the &str given to declare_module!
    array,   \* field -> the [u8; Cap] being built
    idx,     \* field -> the loop counter i
    built    \* field -> the while loop has ended

vars == <<input, array, idx, built>>

\* core::str::from_utf8 over this alphabet: every lead byte is followed by a
\* continuation byte, and every continuation byte follows a lead byte
ValidUtf8(s) ==
    /\ \A k \in 1..Len(s) : s[k] = Lead => k < Len(s) /\ s[k + 1] = Cont
    /\ \A k \in 1..Len(s) : s[k] = Cont => k > 1 /\ s[k - 1] = Lead

\* s.as_bytes() of every &str of at most MaxChars characters U+0000, 'A'
\* and U+00E9: the byte strings over Bytes that are valid UTF-8 (each is
\* then a concatenation of <<NUL>>, <<65>> and <<Lead, Cont>>) with at most
\* MaxChars bytes that are not continuation bytes
Inputs ==
    {s \in UNION {[1..n -> Bytes] : n \in 0..(2 * MaxChars)} :
        ValidUtf8(s) /\ Cardinality({k \in 1..Len(s) : s[k] # Cont}) <= MaxChars}

\* `iter().position(|&c| c == 0).unwrap_or(len)`: the number of bytes
\* before the first NUL, all of them if there is none
NulLen(s) ==
    LET I == {k \in 1..Len(s) : s[k] = NUL}
    IN  IF I = {} THEN Len(s) ELSE (CHOOSE k \in I : \A j \in I : k <= j) - 1

\* name() / version(): from_utf8 of the bytes before the first NUL, or
\* "Invalid UTF-8"
Read(arr) ==
    LET s == SubSeq(arr, 1, NulLen(arr))
    IN  IF ValidUtf8(s) THEN s ELSE Invalid

Init ==
    /\ input \in [Fields -> Inputs]
    /\ array = [f \in Fields |-> [k \in 1..Cap[f] |-> NUL]]
    /\ idx = [f \in Fields |-> 0]
    /\ built = [f \in Fields |-> FALSE]

\* Mutants of the loop condition, for the runs: no `i < Cap - 1` bound, and
\* a bound one byte short (`i < Cap - 2`).
WhileCond_unbounded(f) == idx[f] < Len(input[f])

WhileCond_short(f) == idx[f] < Len(input[f]) /\ idx[f] < Cap[f] - 2

\* while i < bytes.len() && i < Cap - 1
WhileCond(f) == idx[f] < Len(input[f]) /\ idx[f] < Cap[f] - 1

\* one iteration: array[i] = bytes[i]; i += 1
StrToArrayStep(f) ==
    /\ ~built[f]
    /\ WhileCond(f)
    /\ array' = [array EXCEPT ![f][idx[f] + 1] = input[f][idx[f] + 1]]
    /\ idx' = [idx EXCEPT ![f] = idx[f] + 1]
    /\ UNCHANGED <<input, built>>

\* the loop condition fails: the array is returned
StrToArrayDone(f) ==
    /\ ~built[f]
    /\ ~WhileCond(f)
    /\ built' = [built EXCEPT ![f] = TRUE]
    /\ UNCHANGED <<input, array, idx>>

Next == \E f \in Fields : StrToArrayStep(f) \/ StrToArrayDone(f)

Spec == Init /\ [][Next]_vars

\* The type invariant: each field is an array of Cap bytes and its loop
\* counter stays below Cap, so str_to_array64/32 never indexes past the
\* array (the `i < Cap - 1` bound of the while loop).
TypeOK ==
    /\ input \in [Fields -> Seq(Bytes)]
    /\ DOMAIN array = Fields /\ \A f \in Fields : array[f] \in [1..Cap[f] -> Bytes]
    /\ idx \in [Fields -> Nat] /\ \A f \in Fields : idx[f] < Cap[f]
    /\ built \in [Fields -> BOOLEAN]

(***************************************************************************)
(* Properties.                                                              *)
(***************************************************************************)

\* the bytes spec.md 6 stores for a field: the input cut at Cap - 1 bytes
Truncated(f) == SubSeq(input[f], 1, IF Len(input[f]) < Cap[f] THEN Len(input[f]) ELSE Cap[f] - 1)

\* The descriptor reads back as spec.md 6 lays it out ("NUL-padded UTF-8,
\* truncated to Cap - 1 bytes + NUL"): once str_to_array64/32 has built a
\* field, name()/version() return the truncated input up to its first NUL,
\* or "Invalid UTF-8" only when that cut is not valid UTF-8.  An
\* off-by-one in the loop bound drops a byte or fills the last one.
TruncatedReadsBack ==
    \A f \in Fields :
        built[f] =>
            LET cut == SubSeq(Truncated(f), 1, NulLen(Truncated(f)))
            IN  /\ array[f][Cap[f]] = NUL
                /\ Read(array[f]) = IF ValidUtf8(cut) THEN cut ELSE Invalid

\* spec.md 6: a name given as UTF-8 is stored as UTF-8, so name() and
\* version() never answer "Invalid UTF-8" for a &str passed to
\* declare_module!.  The byte cut at Cap - 1 can split a character.
NameValid == \A f \in Fields : built[f] => Read(array[f]) # Invalid

=============================================================================
