---------------------------- MODULE StrictQuery ----------------------------
(***************************************************************************)
(* One run of pxf query: the mode, the root type, the strict-mode walk of  *)
(* the parsed query, and what is written of its results.  gojq is its      *)
(* results, the last of which may be an error.  What the walk refuses is   *)
(* compared with what the query can find in documents of the root type.    *)
(***************************************************************************)
EXTENDS CommandLine

CONSTANTS
  QueryRuns,
  Fields,    \* Fields[m]: the fields a message declares, map entries among the messages
  Nodes,     \* the values documents are made of
  Bodies,    \* Bodies[m]: documents of type m in which every field occurs
  AnyType,     \* google.protobuf.Any
  Iterate,   \* a suffix that is no field: [], [0], a slice
  Dynamic    \* a term that is no path from the input: a call, a literal, an object

Messages == DOMAIN Fields
FieldNames == UNION {DOMAIN Fields[m] : m \in Messages}

\* of is the type of a message or repeated message field, or a map's entry
\* message, None for a scalar; many tells lists and maps from single values.
FieldInfo == [of : Messages \union {None}, many : {"one", "list", "map"}]

Unknown == "unknown field"

Operand == {Dynamic} \union Seq(STRING \union {Iterate})

\* query: its pipeline, whose stages are the operands of the binary operators
\* between two pipes: each Dynamic or a path, fields and Iterate.  sets is what
\* -m or @type names, refused that Registry.Check refuses it.
QueryFields ==
  {"query", "flags", "sets", "refused", "loads", "parses", "compiles", "results", "unprintable"}

ASSUME QueryAssumption ==
  /\ AnyType \in Messages /\ {None, Unknown} \intersect Messages = {}
  /\ None # Unknown /\ None \notin Operand /\ None \notin BOOLEAN
  /\ \A m \in Messages : Fields[m] \in [DOMAIN Fields[m] -> FieldInfo]
  /\ {Iterate, Dynamic} \intersect FieldNames = {}
  /\ \A r \in QueryRuns :
       /\ DOMAIN r = QueryFields
       /\ r.flags \subseteq {"strict", "loose"}
       /\ r.sets \in Messages \union {None}
       /\ r.query \in Seq(Seq(Operand))
       /\ r.results \in Seq({"value", "null", "error"})
       /\ \A i \in DOMAIN r.results : r.results[i] = "error" => i = Len(r.results)

\* A value is a tree: a message and a map have named values, a list has a set of
\* values, an Any whatever the document gives it, and a scalar none.
IsA(v, m) ==
  IF m = None THEN v.is = "scalar"
  ELSE IF m = AnyType THEN v.is = "any"
  ELSE v.is = "message" /\ v.type = m

Conforms(v, field) ==
  \/ field.many = "one" /\ IsA(v, field.of)
  \/ field.many = "list" /\ v.is = "list" /\ \A w \in v.items : IsA(w, field.of)
  \/ field.many = "map" /\ v.is = "map"

\* A document of a type has the fields the type declares, and no other.
ASSUME BodyAssumption ==
  /\ \A v \in Nodes :
       /\ DOMAIN v = {"is", "type", "at", "items"}
       /\ v.is \in {"scalar", "message", "list", "map", "any"}
       /\ v.items \subseteq Nodes /\ \A k \in DOMAIN v.at : v.at[k] \in Nodes
       /\ v.is \in {"scalar", "list"} => DOMAIN v.at = {}
       /\ v.is = "message" =>
            /\ v.type \in Messages /\ DOMAIN v.at \subseteq DOMAIN Fields[v.type]
            /\ \A f \in DOMAIN v.at : Conforms(v.at[f], Fields[v.type][f])
  /\ \A m \in Messages : Bodies[m] \subseteq {v \in Nodes : v.is = "message" /\ v.type = m}

VARIABLES
  queryInput,
  queryStage,
  strict,     \* the effective mode, None before it is known
  operand,    \* the operand the walk is at
  reason,     \* of a refusal: the path that names an unknown field
  results,    \* what runQuery returned
  written     \* what was written

queryVars == <<queryInput, queryStage, strict, operand, reason, results, written>>

-----------------------------------------------------------------------------
\* A mutant: an Any's own fields are all it is asked for.
StepFieldOfAny(f, m) == IF f \notin DOMAIN Fields[m] THEN Unknown ELSE Fields[m][f].of

\* The message a field leads to, None for a scalar and for an Any, which holds
\* what the document says.
StepField(f, m) ==
  IF f \notin DOMAIN Fields[m] THEN Unknown
  ELSE IF Fields[m][f].of = AnyType THEN None ELSE Fields[m][f].of

WalkStep(suffix, m) ==
  IF m \notin Messages THEN m ELSE IF suffix = Iterate THEN None ELSE StepField(suffix, m)

\* walkTerm: the messages a path of fields leads through; past a scalar, and
\* from the first suffix that is no field on, anything goes.
Trail(path, root) ==
  LET at[i \in 0..Len(path)] == IF i = 0 THEN root ELSE WalkStep(path[i], at[i - 1]) IN at

Walk(path, root) == Trail(path, root)[Len(path)]

OperandsUpto(stages) ==
  LET upto[i \in 0..Len(stages)] == IF i = 0 THEN <<>> ELSE upto[i - 1] \o stages[i] IN upto

\* The operands in the order walkQuery meets them, on both sides of every pipe.
Operands == OperandsUpto(queryInput.query)[Len(queryInput.query)]

\* effectiveMode, of a run whose root type is bound or not.
EffectiveMode(bound) ==
  IF "strict" \in queryInput.flags THEN (IF bound THEN TRUE ELSE None)
  ELSE "loose" \notin queryInput.flags /\ bound

-----------------------------------------------------------------------------
QueryIdle ==
  /\ queryInput = None /\ queryStage = None
  /\ strict = None /\ operand = 1 /\ reason = None
  /\ results = <<>> /\ written = <<>>

QueryInit ==
  /\ queryInput \in QueryRuns
  /\ queryStage = "load"
  /\ strict = None /\ operand = 1 /\ reason = None
  /\ results = <<>> /\ written = <<>>

QueryFails ==
  /\ queryStage' = "error"
  /\ UNCHANGED <<queryInput, strict, operand, reason, results, written>>

\* The document is loaded, the chain resolved and the mode chosen.
LoadQuery ==
  /\ queryStage = "load"
  /\ LET mode == EffectiveMode(queryInput.sets # None)
     IN IF \/ ~queryInput.loads \/ queryInput.flags = {"strict", "loose"}
           \/ queryInput.refused \/ mode = None \/ ~queryInput.parses
        THEN QueryFails
        ELSE /\ strict' = mode
             /\ queryStage' = IF mode THEN "walk" ELSE "run"
             /\ UNCHANGED <<queryInput, operand, reason, results, written>>

\* validateQueryStrict, an operand at a time.
WalkOperand ==
  /\ queryStage = "walk" /\ operand <= Len(Operands)
  /\ LET path == Operands[operand]
     IN IF path # Dynamic /\ Walk(path, queryInput.sets) = Unknown
        THEN reason' = path /\ queryStage' = "error" /\ UNCHANGED operand
        ELSE operand' = operand + 1 /\ UNCHANGED <<queryStage, reason>>
  /\ UNCHANGED <<queryInput, strict, results, written>>

Walked ==
  /\ queryStage = "walk" /\ operand > Len(Operands)
  /\ queryStage' = "run"
  /\ UNCHANGED <<queryInput, strict, operand, reason, results, written>>

\* A mutant: an error is one of the results.
ReturnedErrors(r) == r

\* The results before an error.
Succeeded(r) == [i \in {j \in DOMAIN r : \A k \in 1..j : r[k] # "error"} |-> r[i]]

\* A strict run stops at an error, in a loose one it is a null.
Returned(r) ==
  IF strict THEN Succeeded(r)
  ELSE [i \in DOMAIN r |-> IF r[i] = "error" THEN "null" ELSE r[i]]

RunQuery ==
  /\ queryStage = "run"
  /\ IF ~queryInput.compiles THEN QueryFails
     ELSE /\ results' = Returned(queryInput.results)
          /\ queryStage' = "emit"
          /\ UNCHANGED <<queryInput, strict, operand, reason, written>>

\* A result the emitter has no form for stops the run.
Emit ==
  /\ queryStage = "emit" /\ Len(written) < Len(results)
  /\ IF Len(written) + 1 = queryInput.unprintable THEN QueryFails
     ELSE /\ written' = Append(written, results[Len(written) + 1])
          /\ UNCHANGED <<queryInput, queryStage, strict, operand, reason, results>>

Emitted ==
  /\ queryStage = "emit" /\ Len(written) = Len(results)
  /\ queryStage' = IF strict /\ "error" \in Named(queryInput.results) THEN "error" ELSE "ok"
  /\ UNCHANGED <<queryInput, strict, operand, reason, results, written>>

QueryNext == LoadQuery \/ WalkOperand \/ Walked \/ RunQuery \/ Emit \/ Emitted

QuerySpec == QueryInit /\ [][QueryNext]_queryVars

-----------------------------------------------------------------------------
QueryTypeOK ==
  queryStage # None =>
    /\ DOMAIN queryInput = QueryFields
    /\ queryStage \in {"load", "walk", "run", "emit"} \union Ended
    /\ strict \in {TRUE, FALSE, None}
    /\ operand \in Nat \ {0}
    /\ \A i \in DOMAIN written : written[i] \in {"value", "null"}

\* What jq reads by the next suffix of a path, of the values it is applied to.
ReadStep(suffix, values) ==
  IF suffix = Iterate
  THEN UNION {IF v.is = "list" THEN v.items ELSE {v.at[k] : k \in DOMAIN v.at} : v \in values}
  ELSE {v.at[suffix] : v \in {w \in values : suffix \in DOMAIN w.at}}

\* What it reads by the first suffixes of the path, of these values.
Reads(path, from) ==
  LET found[i \in 0..Len(path)] == IF i = 0 THEN from ELSE ReadStep(path[i], found[i - 1]) IN found

\* Applied to these values, path looks a name up that is not there,
\* whatever the document holds.
Misnamed(path, from) == \E i \in DOMAIN path : path[i] # Iterate /\ Reads(path, from)[i] = {}

\* On the way, through messages only, a field is looked up in a message whose
\* type declares no such field.
Undeclared(path, from) ==
  \E i \in DOMAIN path :
    /\ \A j \in 1..i : path[j] # Iterate /\ \A v \in Reads(path, from)[j - 1] : v.is = "message"
    /\ \E v \in Reads(path, from)[i - 1] : path[i] \notin DOMAIN Fields[v.type]

\* On the way a name is looked up in a map, where every name may be.
ThroughMap(path, from) == \E i \in DOMAIN path : \E v \in Reads(path, from)[i - 1] : v.is = "map"

Paths == {o \in Named(Operands) : o # Dynamic}
Root == Bodies[queryInput.sets]

\* The walk is over and nothing failed before gojq ran.
Ran == queryStage \notin {"load", "walk"} /\ strict # None /\ reason = None /\ queryInput.compiles

\* A strict run refuses a query without a pipe, and without a map in its way,
\* only if it names what no document of the type has, and then writes nothing;
\* it never runs one with a path from the root that looks up a field its message
\* does not declare (of a path from what was piped, with a ? or in an object it
\* promises nothing); and once it runs it writes the results before an error and fails, where a loose
\* run writes the error as a null and succeeds.
StrictHonest ==
  queryStage # None =>
    /\ reason # None =>
         /\ written = <<>>
         /\ Len(queryInput.query) = 1 /\ ~ThroughMap(reason, Root) => Misnamed(reason, Root)
    /\ Ran /\ strict => \A path \in Paths : ~Undeclared(path, Root)
    /\ Ran /\ queryStage \in Ended /\ queryInput.unprintable = 0 =>
         LET r == queryInput.results IN
         /\ Len(written) = Len(IF strict THEN Succeeded(r) ELSE r)
         /\ \A i \in DOMAIN written : written[i] = IF i \in DOMAIN Succeeded(r) THEN r[i] ELSE "null"
         /\ (queryStage = "error") = (strict /\ "error" \in Named(r))
=============================================================================
