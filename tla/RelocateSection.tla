--------------------------- MODULE RelocateSection ---------------------------
(***************************************************************************)
(* What applying one relocation section promises, whatever the             *)
(* architecture (spec.md 2, 5 and 7): the entries are applied one after    *)
(* another in the section's order, and each patches only the cells of its  *)
(* own location.  The first entry that fails ends the section with Err or  *)
(* a panic; it has written nothing, and the patches of the entries before  *)
(* it stay as they are (there is no partial success and no rollback: the   *)
(* caller discards the module allocation).  A section whose entries all    *)
(* succeed returns Ok.                                                     *)
(***************************************************************************)
EXTENDS Naturals, Sequences

CONSTANT WritesOf(_)     \* the cells an entry patches when it succeeds

VARIABLES
    cells,     \* module memory: cell -> contents
    entries,   \* the section's entries
    done,      \* how many of them have been applied
    result     \* "running", or how the section ended: "ok", "err", "panic"

avars == <<cells, entries, done, result>>

Init == done = 0 /\ result = "running"

\* the next entry succeeds: it patches its own cells and no other
Patch ==
    /\ result = "running"
    /\ done < Len(entries)
    /\ done' = done + 1
    /\ DOMAIN cells' = DOMAIN cells
    /\ \A c \in DOMAIN cells \ WritesOf(entries[done + 1]) : cells'[c] = cells[c]
    /\ UNCHANGED <<entries, result>>

\* the next entry fails: the section ends with memory as it stands
Abort ==
    /\ result = "running"
    /\ done < Len(entries)
    /\ result' \in {"err", "panic"}
    /\ UNCHANGED <<cells, entries, done>>

\* every entry has been applied
Complete ==
    /\ result = "running"
    /\ done = Len(entries)
    /\ result' = "ok"
    /\ UNCHANGED <<cells, entries, done>>

Next == Patch \/ Abort \/ Complete

SafeSpec == Init /\ [][Next]_avars

\* A section being applied is never left half done: it ends with a result.
\* Over a finite section this is what weak fairness of Next amounts to (each
\* Patch raises done, so a run that keeps taking steps reaches Abort or
\* Complete); it is stated as the eventuality because a Patch step leaves
\* the new contents of the entry's cells unconstrained.
Spec == SafeSpec /\ <>(result # "running")

=============================================================================
