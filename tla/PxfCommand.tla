----------------------------- MODULE PxfCommand -----------------------------
(***************************************************************************)
(* pxf: one process runs one command, on the directories, files and        *)
(* schemas its arguments name.                                             *)
(***************************************************************************)
EXTENDS FmtRun, BuildRun, DocumentRun, StrictQuery

VARIABLE command

vars == <<command, fmtVars, buildVars, docVars, queryVars>>

Commands == {"fmt", "build", "document", "query"}


\* newRootCmd: encode and validate are the document commands.
Init ==
  \/ command = "fmt" /\ FmtInit /\ BuildIdle /\ DocIdle /\ QueryIdle
  \/ command = "build" /\ FmtIdle /\ BuildInit /\ DocIdle /\ QueryIdle
  \/ command = "document" /\ FmtIdle /\ BuildIdle /\ DocInit /\ QueryIdle
  \/ command = "query" /\ FmtIdle /\ BuildIdle /\ DocIdle /\ QueryInit

Next ==
  \/ command = "fmt" /\ FmtNext /\ UNCHANGED <<command, buildVars, docVars, queryVars>>
  \/ command = "build" /\ BuildNext /\ UNCHANGED <<command, fmtVars, docVars, queryVars>>
  \/ command = "document" /\ DocNext /\ UNCHANGED <<command, fmtVars, buildVars, queryVars>>
  \/ command = "query" /\ QueryNext /\ UNCHANGED <<command, fmtVars, buildVars, docVars>>

Spec == Init /\ [][Next]_vars

CommandTypeOK ==
  /\ command \in Commands
  /\ FmtTypeOK /\ BuildTypeOK /\ DocTypeOK /\ QueryTypeOK
=============================================================================
