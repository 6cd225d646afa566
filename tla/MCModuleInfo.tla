----------------------------- MODULE MCModuleInfo -----------------------------
(***************************************************************************)
(* ModuleInfo at a scale TLC enumerates: name is 4 bytes (3 + NUL) where   *)
(* the code has 64, version 3 (2 + NUL) where it has 32; inputs of up to   *)
(* 3 characters, so up to 6 bytes, reach strings that fit, that fill the   *)
(* field exactly, that overflow it, and a two-byte character across the    *)
(* cut.                                                                    *)
(***************************************************************************)
EXTENDS ModuleInfo

MCCap == [f \in {"name", "version"} |-> IF f = "name" THEN 4 ELSE 3]

=============================================================================
