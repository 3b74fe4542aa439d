---------------------------- MODULE CommandLine ----------------------------
(***************************************************************************)
(* What the subcommands of pxf share.                                      *)
(***************************************************************************)
EXTENDS Naturals, Sequences, FiniteSets

CONSTANT None   \* an empty string, a nil pointer, a name that is not found

\* How a run ends: killed is an exit the program did not choose.
Ended == {"ok", "error", "killed"}

Named(s) == {s[i] : i \in DOMAIN s}
=============================================================================
