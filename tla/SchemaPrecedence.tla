-------------------------- MODULE SchemaPrecedence --------------------------
(***************************************************************************)
(* What the schema-resolution chain promises, whatever its sources hold:   *)
(* external definitions come first and may replace one another; once the   *)
(* document's own @proto directives are read no external definition is     *)
(* added any more; and a name the document owns stays the document's.      *)
(***************************************************************************)
CONSTANT Name

VARIABLES
  owner,   \* whose definition a name answers to
  sealed   \* no external source is read any more

Init ==
  /\ owner = [n \in Name |-> "nobody"]
  /\ sealed = FALSE

\* A -p or protoregistry file defines some names.
AddExternal ==
  /\ ~sealed
  /\ owner' \in [Name -> {"nobody", "external"}]
  /\ \A n \in Name : owner'[n] \in {owner[n], "external"}
  /\ UNCHANGED sealed

\* A @proto defines some names, and takes others away from external sources.
AddDocument ==
  /\ sealed
  /\ owner' \in [Name -> {"nobody", "external", "document"}]
  /\ \A n \in Name :
       \/ owner'[n] \in {owner[n], "document"}
       \/ owner[n] # "document" /\ owner'[n] = "nobody"
  /\ UNCHANGED sealed

\* The external sources are all read, or the chain has given up.
Seal ==
  /\ ~sealed
  /\ sealed' = TRUE
  /\ UNCHANGED owner

Next == AddExternal \/ AddDocument \/ Seal

Spec == Init /\ [][Next]_<<owner, sealed>>
=============================================================================
