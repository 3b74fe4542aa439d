---------------------------- MODULE InferSchema ----------------------------
(***************************************************************************)
(* One run of pxf infer-schema: the rows of a dataset are read in order,   *)
(* cell by cell, and each column gets a candidate type that may widen      *)
(* inside the sample window only.  A cell is abstracted to its kind of     *)
(* literal.                                                                *)
(***************************************************************************)
EXTENDS Integers, Sequences

CONSTANTS
  Inputs,  \* the files and flags a run may be given
  None     \* no type: typSet is false, or nothing is joined

\* The field types inference gives a column.
Type == {"bool", "int64", "double", "string", "bytes", "Timestamp", "Duration"}

\* Literals: bigInt is an integer past int64, wide one of CSV's digits or PXF's.
Literal == {"bool", "int", "bigInt", "float", "string", "bytes", "timestamp", "duration"}

\* nested is a list or a block.
Cell == Literal \union {"absent", "null", "nested", "identifier"}

Input == [named      : BOOLEAN,          \* --message is given and the file parses
          datasets   : 0..2,
          columns    : Nat,
          dotted     : SUBSET Nat,       \* columns that are paths
          rows       : Seq(Seq(Cell)),      \* a cell for each column
          sampleRows : Int,
          fullScan   : BOOLEAN]

ASSUME InferAssumption ==
  /\ Inputs \subseteq Input
  /\ \A i \in Inputs : \A r \in DOMAIN i.rows : Len(i.rows[r]) = i.columns
  /\ None \notin Type \union Nat

VARIABLES
  input,           \* the dataset, --sample-rows and --full-scan
  stage,
  row, col,        \* the cell to be read: rowIdx + 1, colIdx + 1
  typ,             \* columnReport.typ, None while typSet is false
  nullable,        \* the columns with an empty cell
  holdsNull,       \* the columns with a null cell
  contradictions,  \* what --full-scan collects, and the hint of a fail-fast error
  fields           \* the fields of the .proto written

reports == <<typ, nullable, holdsNull, contradictions>>
vars == <<input, stage, row, col, reports, fields>>

-----------------------------------------------------------------------------
Column == 1..input.columns

Current == input.rows[row][col]

\* classifyCellValue: integers of any size are one kind.
ClassOf(cell) ==
  CASE cell \in {"int", "bigInt"} -> "int64"
    [] cell = "float" -> "double"
    [] cell = "timestamp" -> "Timestamp"
    [] cell = "duration" -> "Duration"
    [] OTHER -> cell

\* A mutant: whatever is not a number is a string in the end.
WidenToString(a, b) ==
  IF a = b THEN a ELSE IF {a, b} = {"int64", "double"} THEN "double" ELSE "string"

\* widen: an integer binds to a double; nothing else joins.
Widen(a, b) ==
  IF a = b THEN a ELSE IF {a, b} = {"int64", "double"} THEN "double" ELSE None

IsMessage(t) == t \in {"Timestamp", "Duration"}

\* A mutant: the window ends a row early.
InSampleShort(r) == r < input.sampleRows

InSample(r) == r <= input.sampleRows

\* A mutant: the hint names the window there was.
HintUnmoved(r) == input.sampleRows

\* The --sample-rows the hint of a contradiction asks for.
Hint(r) == r

-----------------------------------------------------------------------------
(* runInferSchema and inferDataset. *)

Init ==
  /\ input \in Inputs
  /\ stage = "start"
  /\ row = 1 /\ col = 1
  /\ typ = [c \in Column |-> None]
  /\ nullable = {} /\ holdsNull = {}
  /\ contradictions = {}
  /\ fields = None

Refuse == stage' = "refused" /\ UNCHANGED fields

\* pickDataset, and the columns of the dataset.
Start ==
  /\ stage = "start"
  /\ IF /\ input.named /\ input.datasets = 1
        /\ input.columns > 0 /\ input.dotted \intersect Column = {}
     THEN stage' = "scan" /\ UNCHANGED fields
     ELSE Refuse
  /\ UNCHANGED <<input, row, col, reports>>

Advance ==
  /\ row' = IF col = input.columns THEN row + 1 ELSE row
  /\ col' = IF col = input.columns THEN 1 ELSE col + 1
  /\ UNCHANGED <<input, stage, fields>>

Reading == stage = "scan" /\ row <= Len(input.rows)

\* A mutant: past the window an empty cell is not noted.
AbsentCellSampled ==
  /\ Reading /\ Current = "absent"
  /\ nullable' = IF InSample(row) THEN nullable \union {col} ELSE nullable
  /\ Advance
  /\ UNCHANGED <<typ, holdsNull, contradictions>>

AbsentCell ==
  /\ Reading /\ Current = "absent"
  /\ nullable' = nullable \union {col}
  /\ Advance
  /\ UNCHANGED <<typ, holdsNull, contradictions>>

NullCell ==
  /\ Reading /\ Current = "null"
  /\ holdsNull' = holdsNull \union {col}
  /\ Advance
  /\ UNCHANGED <<typ, nullable, contradictions>>

\* Refused at once, --full-scan or not.
UnscalarCell ==
  /\ Reading /\ Current \in {"nested", "identifier"}
  /\ Refuse
  /\ UNCHANGED <<input, row, col, reports>>

\* The first typed cell fixes the candidate, in the window or past it.
FirstCell ==
  /\ Reading /\ Current \in Literal
  /\ typ[col] = None
  /\ typ' = [typ EXCEPT ![col] = ClassOf(Current)]
  /\ Advance
  /\ UNCHANGED <<nullable, holdsNull, contradictions>>

Compared == Reading /\ Current \in Literal /\ typ[col] # None

Joined == Widen(typ[col], ClassOf(Current))

\* The candidate already holds the cell.
FittingCell ==
  /\ Compared /\ Joined = typ[col]
  /\ Advance
  /\ UNCHANGED reports

\* fail-fast returns the error; --full-scan collects it and goes on.
Contradict(found) ==
  /\ contradictions' = contradictions \union {found}
  /\ IF input.fullScan THEN Advance ELSE Refuse /\ UNCHANGED <<input, row, col>>
  /\ UNCHANGED <<typ, nullable, holdsNull>>

\* No field type holds both: no larger window would help.
MixedCell ==
  /\ Compared /\ Joined = None
  /\ Contradict([row |-> row, col |-> col, hint |-> None])

WideningCell ==
  /\ Compared /\ Joined \notin {typ[col], None}
  /\ InSample(row)
  /\ typ' = [typ EXCEPT ![col] = Joined]
  /\ Advance
  /\ UNCHANGED <<nullable, holdsNull, contradictions>>

\* Past the window the candidate is fixed.
LateCell ==
  /\ Compared /\ Joined \notin {typ[col], None}
  /\ ~InSample(row)
  /\ Contradict([row |-> row, col |-> col, hint |-> Hint(row)])

\* A mutant: a column that never had a typed cell is left without a type.
FinalTypeUnset(c) == typ[c]

\* A column without a typed cell is a string.
FinalType(c) == IF typ[c] = None THEN "string" ELSE typ[c]

\* A message type has presence; a scalar that holds a null is its wrapper,
\* one that may be absent is optional.
Form(c) ==
  IF IsMessage(FinalType(c)) THEN "message"
  ELSE IF c \in holdsNull THEN "wrapper"
  ELSE IF c \in nullable THEN "optional"
  ELSE "plain"

\* emitProtoFile.
Emit ==
  /\ stage = "scan" /\ row > Len(input.rows)
  /\ IF contradictions # {}
     THEN Refuse
     ELSE /\ fields' = [c \in Column |-> [type |-> FinalType(c), form |-> Form(c)]]
          /\ stage' = "written"
  /\ UNCHANGED <<input, row, col, reports>>

Next ==
  \/ Start
  \/ AbsentCell \/ NullCell \/ UnscalarCell
  \/ FirstCell \/ FittingCell \/ MixedCell \/ WideningCell \/ LateCell
  \/ Emit

Spec == Init /\ [][Next]_vars

-----------------------------------------------------------------------------
(* Properties. *)

Field == [type : Type, form : {"plain", "optional", "wrapper", "message"}]

Found == [row : Nat, col : Nat, hint : Nat \union {None}]

\* The type invariant of one inference.
TypeOK ==
  /\ stage \in {"start", "scan", "refused", "written"}
  /\ row \in Nat \ {0} /\ col \in Nat \ {0}
  /\ typ \in [Column -> Type \union {None}]
  /\ nullable \in SUBSET Column /\ holdsNull \in SUBSET Column
  /\ contradictions \in SUBSET Found
  /\ fields # None => fields \in [Column -> Field]

Bindable == {<<t, t>> : t \in Type} \union {<<"int64", "double">>}

\* What a PXF decoder binds to a field: a double takes an integer too, and
\* null needs the presence of a message.
Binds(field, cell) ==
  CASE cell = "absent" -> TRUE
    [] cell = "null" -> field.form \in {"wrapper", "message"}
    [] cell \in Literal -> <<ClassOf(cell), field.type>> \in Bindable
    [] OTHER -> FALSE

\* The cells of a column, down to row n.
CellAt(r, c) == input.rows[r][c]

(***************************************************************************)
(* CHANGELOG.md:243: infer-schema writes a schema its input validates      *)
(* against, that is every cell of it binds to its column's field.  Sizes   *)
(* of integers aside: see InputValidates.                                  *)
(***************************************************************************)
InputAdmitted ==
  stage = "written" =>
    \A r \in 1..Len(input.rows), c \in Column : Binds(fields[c], CellAt(r, c))

(***************************************************************************)
(* An empty cell can be told from a zero: the field of its column has      *)
(* presence.  And a column without one has no presence it does not need.   *)
(***************************************************************************)
PresenceAsNeeded ==
  stage = "written" =>
    \A c \in Column : fields[c].form \in {"plain", "optional"} =>
      (fields[c].form = "optional" <=> \E r \in 1..Len(input.rows) : CellAt(r, c) = "absent")

Classes(c, n) == {ClassOf(CellAt(r, c)) : r \in {s \in 1..n : CellAt(s, c) \in Literal}}

\* The first n rows of column c cannot be typed under a sample of that many rows.
Misfit(c, n, sample) ==
  \/ \E r \in 1..n : CellAt(r, c) \in {"nested", "identifier"}
  \/ \E a, b \in Classes(c, n) : a # b /\ {a, b} # {"int64", "double"}
  \/ \E r \in 1..n : /\ r > sample
                     /\ CellAt(r, c) = "float"
                     /\ Classes(c, r - 1) = {"int64"}

(***************************************************************************)
(* The verdict depends on the cells and the window alone, and is the same  *)
(* with --full-scan: a file is refused exactly if some column cannot be    *)
(* typed, and a column is double exactly if it has a float.                *)
(***************************************************************************)
InfersAsDeclared ==
  /\ stage = "refused" /\ input.named /\ input.datasets = 1 =>
       \/ input.columns = 0
       \/ \E c \in Column : c \in input.dotted \/ Misfit(c, Len(input.rows), input.sampleRows)
  /\ stage = "written" =>
       \A c \in Column :
         /\ ~Misfit(c, Len(input.rows), input.sampleRows)
         /\ fields[c].type = "double" <=> "double" \in Classes(c, Len(input.rows))

(***************************************************************************)
(* The recovery hint recovers: with the --sample-rows a fail-fast error    *)
(* asks for, the column can be typed down to the row it failed at.         *)
(***************************************************************************)
HintWorks ==
  ~input.fullScan =>
    \A found \in contradictions : found.hint # None =>
      ~Misfit(found.col, found.row, found.hint)

(***************************************************************************)
(* The same promise (CHANGELOG.md:243) with the size of integers: a        *)
(* decoder rejects an integer outside int64 for an int64 field             *)
(* (docs/draft-trendvidia-protowire-01.md:822).                            *)
(***************************************************************************)
InputValidates ==
  stage = "written" =>
    \A r \in 1..Len(input.rows), c \in Column :
      CellAt(r, c) = "bigInt" => fields[c].type # "int64"
=============================================================================
