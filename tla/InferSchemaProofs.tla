------------------------- MODULE InferSchemaProofs -------------------------
(***************************************************************************)
(* What infer-schema promises of every file: the .proto it writes admits   *)
(* each cell it was inferred from, and tells an empty cell from a zero.    *)
(***************************************************************************)
EXTENDS InferSchema, TLAPS

-----------------------------------------------------------------------------
(* The lattice of types. *)

\* A literal's class is a type.
LEMMA ClassTyped == ASSUME NEW cell \in Literal PROVE ClassOf(cell) \in Type
  BY DEF ClassOf, Literal, Type

\* A join is a type, and one that both sides bind to.
LEMMA JoinTyped ==
  ASSUME NEW a \in Type, NEW b \in Type, Widen(a, b) # None
  PROVE  /\ Widen(a, b) \in Type
         /\ <<b, Widen(a, b)>> \in Bindable
         /\ \A k \in Type : <<k, a>> \in Bindable => <<k, Widen(a, b)>> \in Bindable
<1>1. CASE a = b
  BY <1>1 DEF Widen, Bindable
<1>2. CASE a # b
  <2>1. {a, b} = {"int64", "double"} /\ Widen(a, b) = "double"
    BY <1>2 DEF Widen
  <2>2. (a = "int64" /\ b = "double") \/ (a = "double" /\ b = "int64")
    BY <1>2, <2>1
  <2>3. \A k, t \in Type : <<k, t>> \in Bindable <=> k = t \/ (k = "int64" /\ t = "double")
    BY DEF Bindable, Type
  <2>. QED BY <2>1, <2>2, <2>3 DEF Type
<1>. QED BY <1>1, <1>2

-----------------------------------------------------------------------------
(* The type invariant, and where the scan is. *)

InputKnown == input \in Inputs

InPlace ==
  /\ stage = "start" => row = 1 /\ col = 1
  /\ stage = "scan" => col \in Column /\ row <= Len(input.rows) + 1

TypeInv == InputKnown /\ TypeOK /\ InPlace

\* What an input is made of.
LEMMA InputTyped ==
  ASSUME InputKnown
  PROVE  /\ input.columns \in Nat
         /\ input.rows \in Seq(Seq(Cell))
         /\ \A r \in 1..Len(input.rows) :
              input.rows[r] \in [Column -> Cell]
<1>1. input \in Input
  BY InferAssumption DEF InputKnown
<1>2. input.columns \in Nat /\ input.rows \in Seq(Seq(Cell))
  BY <1>1 DEF Input
<1>3. ASSUME NEW r \in 1..Len(input.rows)
      PROVE  input.rows[r] \in [Column -> Cell]
  <2>1. r \in DOMAIN input.rows /\ input.rows[r] \in Seq(Cell)
    BY <1>2
  <2>2. Len(input.rows[r]) = input.columns
    BY <2>1, InferAssumption DEF InputKnown
  <2>. QED BY <2>1, <2>2 DEF Column
<1>. QED BY <1>2, <1>3

\* The cell being read is one.
LEMMA CurrentTyped ==
  ASSUME TypeInv, Reading
  PROVE  /\ row \in 1..Len(input.rows)
         /\ col \in Column
         /\ Current \in Cell
<1>1. row \in 1..Len(input.rows) /\ col \in Column
  BY InputTyped DEF TypeInv, InPlace, TypeOK, Reading
<1>. QED BY <1>1, InputTyped DEF TypeInv, Current

\* Advancing keeps the place in the dataset.
LEMMA AdvanceInPlace ==
  ASSUME TypeInv, Reading, Advance
  PROVE  /\ row' \in Nat \ {0} /\ col' \in Nat \ {0}
         /\ InPlace'
<1>1. row \in 1..Len(input.rows) /\ col \in 1..input.columns /\ input.columns \in Nat
  BY CurrentTyped, InputTyped DEF TypeInv, Column
<1>2. Len(input.rows) \in Nat
  BY InputTyped DEF TypeInv
<1>3. stage' = "scan" /\ input' = input
  BY DEF Advance, Reading
<1>4. CASE col = input.columns
  <2>1. row' = row + 1 /\ col' = 1
    BY <1>4 DEF Advance
  <2>. QED BY <1>1, <1>2, <1>3, <2>1 DEF InPlace, Column
<1>5. CASE col # input.columns
  <2>1. row' = row /\ col' = col + 1
    BY <1>5 DEF Advance
  <2>. QED BY <1>1, <1>2, <1>3, <1>5, <2>1 DEF InPlace, Column
<1>. QED BY <1>4, <1>5

LEMMA TypeInit == Init => TypeInv
  BY DEF Init, TypeInv, InputKnown, TypeOK, InPlace, Column, Found, Field

LEMMA TypeStep == TypeInv /\ [Next]_vars => TypeInv'
<1>. SUFFICES ASSUME TypeInv, [Next]_vars PROVE TypeInv'
  OBVIOUS
<1>. USE DEF TypeInv
<1>1. CASE Start
  <2>1. input.columns \in Nat
    BY InputTyped
  <2>2. Len(input.rows) \in Nat
    BY InputTyped
  <2>3. /\ row = 1 /\ col = 1
        /\ UNCHANGED <<input, row, col, typ, nullable, holdsNull, contradictions, fields>>
        /\ stage' \in {"scan", "refused"}
        /\ stage' = "scan" => input.columns > 0
    BY <1>1 DEF Start, Refuse, InPlace, reports
  <2>. QED
    BY <2>1, <2>2, <2>3 DEF InputKnown, TypeOK, InPlace, Column
<1>2. CASE AbsentCell
  BY <1>2, CurrentTyped, AdvanceInPlace
  DEF AbsentCell, Advance, InputKnown, TypeOK, Column
<1>3. CASE NullCell
  BY <1>3, CurrentTyped, AdvanceInPlace
  DEF NullCell, Advance, InputKnown, TypeOK, Column
<1>4. CASE UnscalarCell
  BY <1>4 DEF UnscalarCell, Refuse, reports, InputKnown, TypeOK, InPlace, Column
<1>5. CASE FirstCell
  <2>1. ClassOf(Current) \in Type /\ col \in Column
    BY <1>5, ClassTyped, CurrentTyped DEF FirstCell
  <2>. QED
    BY <1>5, <2>1, AdvanceInPlace DEF FirstCell, Advance, InputKnown, TypeOK, Column
<1>6. CASE FittingCell
  BY <1>6, AdvanceInPlace DEF FittingCell, Compared, Advance, reports, InputKnown, TypeOK, Column
<1>7. ASSUME NEW hint \in Nat \union {None}, Reading,
             Contradict([row |-> row, col |-> col, hint |-> hint])
      PROVE  TypeInv'
  <2>1. [row |-> row, col |-> col, hint |-> hint] \in Found
    BY <1>7 DEF TypeOK, Found
  <2>2. CASE input.fullScan
    BY <1>7, <2>1, <2>2, AdvanceInPlace DEF Contradict, Advance, InputKnown, TypeOK, Column
  <2>3. CASE ~input.fullScan
    BY <1>7, <2>1, <2>3 DEF Contradict, Refuse, InputKnown, TypeOK, InPlace, Column
  <2>. QED BY <2>2, <2>3
<1>8. CASE MixedCell
  BY <1>8, <1>7 DEF MixedCell, Compared
<1>9. CASE LateCell
  <2>1. Hint(row) \in Nat
    BY DEF Hint, TypeOK
  <2>. QED BY <1>9, <1>7, <2>1 DEF LateCell, Compared
<1>10. CASE WideningCell
  <2>1. typ[col] \in Type /\ ClassOf(Current) \in Type /\ col \in Column
    BY <1>10, ClassTyped, CurrentTyped DEF WideningCell, Compared, TypeOK
  <2>2. Joined \in Type
    BY <1>10, <2>1, JoinTyped DEF WideningCell, Joined
  <2>. QED
    BY <1>10, <2>1, <2>2, AdvanceInPlace
    DEF WideningCell, Compared, Advance, InputKnown, TypeOK, Column
<1>11. CASE Emit
  <2>1. \A c \in Column : FinalType(c) \in Type
    BY DEF FinalType, TypeOK, Type
  <2>2. \A c \in Column : Form(c) \in {"plain", "optional", "wrapper", "message"}
    BY DEF Form
  <2>. QED
    BY <1>11, <2>1, <2>2 DEF Emit, Refuse, reports, InputKnown, TypeOK, InPlace, Column, Field
<1>12. CASE UNCHANGED vars
  BY <1>12 DEF vars, reports, InputKnown, TypeOK, InPlace, Column
<1>. QED
  BY <1>1, <1>2, <1>3, <1>4, <1>5, <1>6, <1>8, <1>9, <1>10, <1>11, <1>12 DEF Next

(***************************************************************************)
(* Every inference, of any file, keeps to its types: inferDataset and      *)
(* emitProtoFile.                                                          *)
(***************************************************************************)
THEOREM TypeCorrect == Spec => []TypeOK
<1>1. TypeInv => TypeOK
  BY DEF TypeInv
<1>. QED BY TypeInit, TypeStep, <1>1, PTL DEF Spec

-----------------------------------------------------------------------------
(* What has been read of each column. *)

Visited(r, c) ==
  /\ r \in 1..Len(input.rows) /\ c \in Column
  /\ r < row \/ (r = row /\ c < col)

\* The candidate of a column holds every cell read of it.
Kept ==
  \A r, c \in Nat : Visited(r, c) =>
    /\ CellAt(r, c) \in Literal \union {"absent", "null"}
    /\ CellAt(r, c) = "absent" => c \in nullable
    /\ CellAt(r, c) = "null" => c \in holdsNull
    /\ CellAt(r, c) \in Literal /\ contradictions = {} =>
         typ[c] # None /\ <<ClassOf(CellAt(r, c)), typ[c]>> \in Bindable

\* A column is nullable only for an empty cell.
Caused == \A c \in nullable : \E r \in 1..Len(input.rows) : CellAt(r, c) = "absent"

Written == InputAdmitted /\ PresenceAsNeeded

Admitting == (stage = "scan" => Kept) /\ Caused /\ Written

\* After a step over one cell the cells read are those before, and that one.
LEMMA VisitedNext ==
  ASSUME TypeInv, Reading, Advance, NEW r \in Nat, NEW c \in Nat, Visited(r, c)'
  PROVE  Visited(r, c) \/ (r = row /\ c = col)
<1>1. row \in 1..Len(input.rows) /\ col \in 1..input.columns /\ input.columns \in Nat
  BY CurrentTyped, InputTyped DEF TypeInv, Column
<1>2. Len(input.rows) \in Nat
  BY InputTyped DEF TypeInv
<1>. QED BY <1>1, <1>2 DEF Advance, Visited, Column

\* So a step keeps Kept if it does for the candidate it leaves behind.
LEMMA KeptNext ==
  ASSUME TypeInv, Kept, Reading, Advance,
         nullable \subseteq nullable', holdsNull \subseteq holdsNull',
         contradictions \subseteq contradictions',
         contradictions' = {} =>
           \A c \in Column : \A k \in Type :
             typ[c] # None /\ <<k, typ[c]>> \in Bindable =>
               typ'[c] # None /\ <<k, typ'[c]>> \in Bindable,
         Current \in Literal \union {"absent", "null"},
         Current = "absent" => col \in nullable',
         Current = "null" => col \in holdsNull',
         Current \in Literal /\ contradictions' = {} =>
           typ'[col] # None /\ <<ClassOf(Current), typ'[col]>> \in Bindable
  PROVE  Kept'
<1>. SUFFICES ASSUME NEW r \in Nat, NEW c \in Nat, Visited(r, c)'
              PROVE  /\ CellAt(r, c)' \in Literal \union {"absent", "null"}
                     /\ CellAt(r, c)' = "absent" => c \in nullable'
                     /\ CellAt(r, c)' = "null" => c \in holdsNull'
                     /\ CellAt(r, c)' \in Literal /\ contradictions' = {} =>
                          typ'[c] # None /\ <<ClassOf(CellAt(r, c)'), typ'[c]>> \in Bindable
  BY DEF Kept, ClassOf
<1>1. CellAt(r, c)' = CellAt(r, c)
  BY DEF Advance, CellAt
<1>2. CASE Visited(r, c)
  <2>1. c \in Column
    BY <1>2 DEF Visited
  <2>2. CellAt(r, c) \in Literal => ClassOf(CellAt(r, c)) \in Type
    BY ClassTyped
  <2>. QED BY <1>1, <1>2, <2>1, <2>2 DEF Kept
<1>3. CASE r = row /\ c = col
  BY <1>1, <1>3 DEF CellAt, Current
<1>. QED BY <1>2, <1>3, VisitedNext

LEMMA AdmittingInit == Init => Admitting
<1>. SUFFICES ASSUME Init PROVE Admitting
  OBVIOUS
<1>1. stage = "start" /\ nullable = {}
  BY DEF Init
<1>. QED BY <1>1 DEF Admitting, Caused, Written, InputAdmitted, PresenceAsNeeded

LEMMA AdmittingStep == TypeInv /\ Admitting /\ [Next]_vars => Admitting'
<1>. SUFFICES ASSUME TypeInv, Admitting, [Next]_vars PROVE Admitting'
  OBVIOUS
<1>. USE DEF Admitting
<1>1. CASE Start
  <2>1. UNCHANGED <<input, row, col, typ, nullable, holdsNull, contradictions>>
        /\ row = 1 /\ col = 1 /\ stage' # "written"
    BY <1>1 DEF Start, Refuse, reports, TypeInv, InPlace
  <2>2. Kept'
    BY <2>1 DEF Kept, Visited, Column
  <2>3. Caused'
    BY <2>1 DEF Caused, CellAt
  <2>. QED BY <2>1, <2>2, <2>3 DEF Written, InputAdmitted, PresenceAsNeeded
<1>2. ASSUME Advance, Reading, Kept', Caused' PROVE Admitting'
  BY <1>2 DEF Advance, Reading, Written, InputAdmitted, PresenceAsNeeded
<1>3. ASSUME Refuse, UNCHANGED <<input, nullable>> PROVE Admitting'
  <2>1. Caused'
    BY <1>3 DEF Caused, CellAt
  <2>. QED BY <1>3, <2>1 DEF Refuse, Written, InputAdmitted, PresenceAsNeeded
<1>4. ASSUME Advance, UNCHANGED nullable PROVE Caused'
  BY <1>4 DEF Advance, Caused, CellAt
<1>5. CASE AbsentCell
  <2>1. Reading /\ Advance /\ Current = "absent" /\ nullable' = nullable \union {col}
        /\ UNCHANGED <<typ, holdsNull, contradictions>>
    BY <1>5 DEF AbsentCell
  <2>2. Kept'
    BY <2>1, KeptNext DEF Reading, Literal
  <2>3. Caused'
    <3>1. row \in 1..Len(input.rows) /\ CellAt(row, col) = "absent"
      BY <2>1, CurrentTyped DEF CellAt, Current
    <3>. QED BY <2>1, <3>1 DEF Advance, Caused, CellAt
  <2>. QED BY <1>2, <2>1, <2>2, <2>3
<1>6. CASE NullCell
  <2>1. Reading /\ Advance /\ Current = "null" /\ holdsNull' = holdsNull \union {col}
        /\ UNCHANGED <<typ, nullable, contradictions>>
    BY <1>6 DEF NullCell
  <2>2. Kept'
    BY <2>1, KeptNext DEF Reading, Literal
  <2>. QED BY <1>2, <1>4, <2>1, <2>2
<1>7. CASE UnscalarCell
  BY <1>7, <1>3 DEF UnscalarCell, reports
<1>8. CASE FirstCell
  <2>1. Reading /\ Advance /\ Current \in Literal /\ typ[col] = None
        /\ typ' = [typ EXCEPT ![col] = ClassOf(Current)]
        /\ UNCHANGED <<nullable, holdsNull, contradictions>>
    BY <1>8 DEF FirstCell
  <2>2. ClassOf(Current) \in Type /\ col \in Column /\ typ \in [Column -> Type \union {None}]
    BY <2>1, ClassTyped, CurrentTyped DEF TypeInv, TypeOK
  <2>3. typ'[col] = ClassOf(Current) /\ typ'[col] # None /\ <<ClassOf(Current), typ'[col]>> \in Bindable
    BY <2>1, <2>2, InferAssumption DEF Bindable
  <2>4. \A c \in Column : typ[c] # None => typ'[c] = typ[c]
    BY <2>1, <2>2
  <2>5. Current \notin {"absent", "null"}
    BY <2>1 DEF Literal
  <2>6. Kept'
    BY <2>1, <2>3, <2>4, <2>5, KeptNext DEF Reading
  <2>. QED BY <1>2, <1>4, <2>1, <2>6
<1>9. CASE FittingCell
  <2>1. Reading /\ Advance /\ Current \in Literal /\ typ[col] # None /\ Joined = typ[col]
        /\ UNCHANGED <<typ, nullable, holdsNull, contradictions>>
    BY <1>9 DEF FittingCell, Compared, reports
  <2>2. typ[col] \in Type /\ ClassOf(Current) \in Type
    BY <2>1, ClassTyped, CurrentTyped DEF TypeInv, TypeOK
  <2>3. <<ClassOf(Current), typ'[col]>> \in Bindable
    BY <2>1, <2>2, JoinTyped DEF Joined
  <2>4. Current \notin {"absent", "null"}
    BY <2>1 DEF Literal
  <2>5. Kept'
    BY <2>1, <2>3, <2>4, KeptNext DEF Reading
  <2>. QED BY <1>2, <1>4, <2>1, <2>5
<1>10. ASSUME NEW found, Compared, Contradict(found) PROVE Admitting'
  <2>1. UNCHANGED <<typ, nullable, holdsNull>> /\ found \in contradictions'
        /\ contradictions \subseteq contradictions'
    BY <1>10 DEF Contradict
  <2>2. CASE input.fullScan
    <3>1. Advance /\ Reading /\ Current \in Literal
      BY <1>10, <2>2 DEF Contradict, Compared
    <3>2. Current \notin {"absent", "null"}
      BY <3>1 DEF Literal
    <3>3. Kept'
      BY <2>1, <3>1, <3>2, KeptNext DEF Reading
    <3>. QED BY <1>2, <1>4, <2>1, <3>1, <3>3
  <2>3. CASE ~input.fullScan
    BY <1>3, <1>10, <2>1, <2>3 DEF Contradict
  <2>. QED BY <2>2, <2>3
<1>11. CASE MixedCell
  BY <1>10, <1>11 DEF MixedCell
<1>12. CASE LateCell
  BY <1>10, <1>12 DEF LateCell
<1>13. CASE WideningCell
  <2>1. Reading /\ Advance /\ Current \in Literal /\ typ[col] # None /\ Joined # None
        /\ typ' = [typ EXCEPT ![col] = Joined]
        /\ UNCHANGED <<nullable, holdsNull, contradictions>>
    BY <1>13 DEF WideningCell, Compared
  <2>2. /\ typ[col] \in Type /\ ClassOf(Current) \in Type /\ col \in Column
        /\ typ \in [Column -> Type \union {None}]
    BY <2>1, ClassTyped, CurrentTyped DEF TypeInv, TypeOK
  <2>3. /\ Joined # None
        /\ <<ClassOf(Current), Joined>> \in Bindable
        /\ \A k \in Type : <<k, typ[col]>> \in Bindable => <<k, Joined>> \in Bindable
    BY <2>1, <2>2, JoinTyped DEF Joined
  <2>4. typ'[col] = Joined /\ \A c \in Column : c # col => typ'[c] = typ[c]
    BY <2>1, <2>2
  <2>5. \A c \in Column : \A k \in Type :
          typ[c] # None /\ <<k, typ[c]>> \in Bindable => typ'[c] # None /\ <<k, typ'[c]>> \in Bindable
    BY <2>3, <2>4
  <2>6. Current \notin {"absent", "null"}
    BY <2>1 DEF Literal
  <2>7. Kept'
    BY <2>1, <2>3, <2>4, <2>5, <2>6, KeptNext DEF Reading
  <2>. QED BY <1>2, <1>4, <2>1, <2>7
<1>14. CASE Emit
  <2>1. CASE contradictions # {}
    BY <1>14, <1>3, <2>1 DEF Emit, reports
  <2>2. CASE contradictions = {}
    <3>1. /\ UNCHANGED <<input, nullable>> /\ Kept /\ stage' = "written"
          /\ row > Len(input.rows)
          /\ fields' = [c \in Column |-> [type |-> FinalType(c), form |-> Form(c)]]
      BY <1>14, <2>2 DEF Emit, reports
    <3>2. Len(input.rows) \in Nat /\ input.columns \in Nat /\ row \in Nat
      BY InputTyped DEF TypeInv, TypeOK
    <3>3. \A r \in 1..Len(input.rows), c \in Column : r \in Nat /\ c \in Nat /\ Visited(r, c)
      BY <3>1, <3>2 DEF Visited, Column
    <3>4. ASSUME NEW r \in 1..Len(input.rows), NEW c \in Column
          PROVE  Binds(fields'[c], CellAt(r, c))
      <4>1. /\ CellAt(r, c) \in Literal \union {"absent", "null"}
            /\ CellAt(r, c) = "null" => c \in holdsNull
            /\ CellAt(r, c) \in Literal =>
                 typ[c] # None /\ <<ClassOf(CellAt(r, c)), typ[c]>> \in Bindable
        BY <2>2, <3>1, <3>3 DEF Kept
      <4>2. fields'[c].type = FinalType(c) /\ fields'[c].form = Form(c)
        BY <3>1
      <4>3. CASE CellAt(r, c) = "absent"
        BY <4>3 DEF Binds, Literal
      <4>4. CASE CellAt(r, c) = "null"
        BY <4>1, <4>2, <4>4 DEF Binds, Form, Literal
      <4>5. CASE CellAt(r, c) \in Literal
        BY <4>1, <4>2, <4>5 DEF Binds, FinalType, Literal
      <4>. QED BY <4>1, <4>3, <4>4, <4>5
    <3>5. InputAdmitted'
      BY <3>1, <3>4 DEF InputAdmitted, Column, CellAt, Binds, ClassOf
    <3>6. ASSUME NEW c \in Column, fields'[c].form \in {"plain", "optional"}
          PROVE  fields'[c].form = "optional" <=> \E r \in 1..Len(input.rows) : CellAt(r, c) = "absent"
      <4>1. fields'[c].form = Form(c)
        BY <3>1
      <4>2. fields'[c].form = "optional" <=> c \in nullable
        BY <3>6, <4>1 DEF Form
      <4>3. c \in nullable <=> \E r \in 1..Len(input.rows) : CellAt(r, c) = "absent"
        BY <3>1, <3>3 DEF Kept, Caused
      <4>. QED BY <4>2, <4>3
    <3>7. PresenceAsNeeded'
      BY <3>1, <3>6 DEF PresenceAsNeeded, Column, CellAt
    <3>8. Caused'
      BY <3>1 DEF Caused, CellAt
    <3>. QED BY <3>1, <3>5, <3>7, <3>8 DEF Written
  <2>. QED BY <2>1, <2>2
<1>15. CASE UNCHANGED vars
  <2>1. UNCHANGED <<input, stage, row, col, typ, nullable, holdsNull, contradictions, fields>>
    BY <1>15 DEF vars, reports
  <2>2. Kept => Kept'
    BY <2>1 DEF Kept, Visited, Column, CellAt
  <2>3. Caused'
    BY <2>1 DEF Caused, CellAt
  <2>4. Written'
    BY <2>1 DEF Written, InputAdmitted, PresenceAsNeeded, Column, CellAt, Binds, ClassOf
  <2>. QED BY <2>1, <2>2, <2>3, <2>4
<1>. QED
  BY <1>1, <1>5, <1>6, <1>7, <1>8, <1>9, <1>11, <1>12, <1>13, <1>14, <1>15 DEF Next

(***************************************************************************)
(* The schema infer-schema writes admits every cell of its input, however  *)
(* many rows and whatever the sample window: CHANGELOG.md:243.             *)
(***************************************************************************)
THEOREM SchemaAdmitsInput == Spec => []InputAdmitted
<1>1. Admitting => InputAdmitted
  BY DEF Admitting, Written
<1>. QED BY TypeInit, TypeStep, AdmittingInit, AdmittingStep, <1>1, PTL DEF Spec

(***************************************************************************)
(* A scalar field is optional exactly if some row leaves its column out:   *)
(* emitProtoFile.                                                          *)
(***************************************************************************)
THEOREM OptionalExactly == Spec => []PresenceAsNeeded
<1>1. Admitting => PresenceAsNeeded
  BY DEF Admitting, Written
<1>. QED BY TypeInit, TypeStep, AdmittingInit, AdmittingStep, <1>1, PTL DEF Spec

-----------------------------------------------------------------------------
(* The classes read of a column, and whether it can be typed. *)

Contradicted(c) == \E found \in contradictions : found.col = c

\* How many rows have been read of column c.
Depth(c) == IF c < col THEN row ELSE row - 1

(***************************************************************************)
(* The candidate tells what was read: it is the class of a cell, and the   *)
(* column is contradicted exactly if what was read of it cannot be typed.  *)
(***************************************************************************)
Candid(c, n) ==
  /\ typ[c] = None => Classes(c, n) = {}
  /\ typ[c] # None => typ[c] \in Classes(c, n)
  /\ Misfit(c, n, input.sampleRows) <=> Contradicted(c)
  /\ ~Contradicted(c) => \A k \in Classes(c, n) : <<k, typ[c]>> \in Bindable

LEMMA ClassRead ==
  ASSUME NEW c, NEW n, NEW k
  PROVE  k \in Classes(c, n) <=>
           \E r \in 1..n : CellAt(r, c) \in Literal /\ k = ClassOf(CellAt(r, c))
  BY DEF Classes

\* One more row adds the class of its cell.
LEMMA ClassesNext ==
  ASSUME NEW c, NEW n \in Nat \ {0}, NEW k
  PROVE  k \in Classes(c, n) <=>
           \/ k \in Classes(c, n - 1)
           \/ CellAt(n, c) \in Literal /\ k = ClassOf(CellAt(n, c))
<1>1. \A r \in Int : r \in 1..n <=> r \in 1..(n - 1) \/ r = n
  OBVIOUS
<1>. QED BY <1>1, ClassRead

\* A column is past typing from the row on that makes it so.
LEMMA MisfitNext ==
  ASSUME NEW c, NEW n \in Nat \ {0}, NEW s \in Int
  PROVE  Misfit(c, n, s) <=>
           \/ Misfit(c, n - 1, s)
           \/ CellAt(n, c) \in {"nested", "identifier"}
           \/ /\ CellAt(n, c) \in Literal
              /\ \E k \in Classes(c, n - 1) :
                   k # ClassOf(CellAt(n, c)) /\ {k, ClassOf(CellAt(n, c))} # {"int64", "double"}
           \/ n > s /\ CellAt(n, c) = "float" /\ Classes(c, n - 1) = {"int64"}
<1>1. \A r \in Int : r \in 1..n <=> r \in 1..(n - 1) \/ r = n
  OBVIOUS
<1>2. (\E r \in 1..n : CellAt(r, c) \in {"nested", "identifier"}) <=>
        \/ \E r \in 1..(n - 1) : CellAt(r, c) \in {"nested", "identifier"}
        \/ CellAt(n, c) \in {"nested", "identifier"}
  BY <1>1
<1>3. (\E a, b \in Classes(c, n) : a # b /\ {a, b} # {"int64", "double"}) <=>
        \/ \E a, b \in Classes(c, n - 1) : a # b /\ {a, b} # {"int64", "double"}
        \/ /\ CellAt(n, c) \in Literal
           /\ \E k \in Classes(c, n - 1) :
                k # ClassOf(CellAt(n, c)) /\ {k, ClassOf(CellAt(n, c))} # {"int64", "double"}
  <2>. DEFINE Clash(a, b) == a # b /\ {a, b} # {"int64", "double"}
  <2>1. \A a, b : (Clash(a, b) <=> Clash(b, a)) /\ ~Clash(a, a)
    OBVIOUS
  <2>2. \A k : k \in Classes(c, n) <=>
                 \/ k \in Classes(c, n - 1)
                 \/ CellAt(n, c) \in Literal /\ k = ClassOf(CellAt(n, c))
    BY ClassesNext
  <2>. HIDE DEF Clash
  <2>3. (\E a, b \in Classes(c, n) : Clash(a, b)) <=>
          \/ \E a, b \in Classes(c, n - 1) : Clash(a, b)
          \/ CellAt(n, c) \in Literal /\ \E k \in Classes(c, n - 1) : Clash(k, ClassOf(CellAt(n, c)))
    BY <2>1, <2>2
  <2>. QED BY <2>3 DEF Clash
<1>4. (\E r \in 1..n : r > s /\ CellAt(r, c) = "float" /\ Classes(c, r - 1) = {"int64"}) <=>
        \/ \E r \in 1..(n - 1) : r > s /\ CellAt(r, c) = "float" /\ Classes(c, r - 1) = {"int64"}
        \/ n > s /\ CellAt(n, c) = "float" /\ Classes(c, n - 1) = {"int64"}
  BY <1>1
<1>. QED BY <1>2, <1>3, <1>4 DEF Misfit

\* And stays past typing as it grows.
LEMMA MisfitGrows ==
  ASSUME NEW c, NEW n \in Nat, NEW m \in Nat, n <= m, NEW s \in Int, Misfit(c, n, s)
  PROVE  Misfit(c, m, s)
<1>1. \A r \in Int : r \in 1..n => r \in 1..m
  OBVIOUS
<1>2. \A k : k \in Classes(c, n) => k \in Classes(c, m)
  BY <1>1, ClassRead
<1>. QED BY <1>1, <1>2 DEF Misfit

\* Both speak of the input alone.
LEMMA MisfitUnmoved ==
  ASSUME input' = input, NEW c, NEW n, NEW s
  PROVE  /\ Classes(c, n)' = Classes(c, n)
         /\ Misfit(c, n, s)' <=> Misfit(c, n, s)
  BY DEF Misfit, Classes, CellAt

LEMMA VerdictUnmoved ==
  ASSUME input' = input, NEW c
  PROVE  /\ Classes(c, Len(input.rows))' = Classes(c, Len(input.rows))
         /\ Misfit(c, Len(input.rows), input.sampleRows)' <=>
              Misfit(c, Len(input.rows), input.sampleRows)
  BY DEF Misfit, Classes, CellAt

LEMMA HintUnmovedBy ==
  ASSUME input' = input, NEW found
  PROVE  Misfit(found.col, found.row, found.hint)' <=> Misfit(found.col, found.row, found.hint)
  BY DEF Misfit, Classes, CellAt

-----------------------------------------------------------------------------
(* The invariant of the verdict. *)

Verdicts ==
  /\ stage = "start" => contradictions = {} /\ \A c \in Column : typ[c] = None
  /\ stage = "scan" /\ row > Len(input.rows) => col = 1
  /\ stage = "scan" => \A found \in contradictions : found.col \in Column
  /\ stage = "scan" => \A c \in Column : Candid(c, Depth(c))
  /\ stage = "scan" /\ ~input.fullScan => contradictions = {}
  /\ HintWorks
  /\ InfersAsDeclared

\* After a step over one cell the other columns are as they were.
LEMMA CandidNext ==
  ASSUME TypeInv, Reading, Advance, \A c \in Column : Candid(c, Depth(c)),
         \A c \in Column \ {col} : /\ typ'[c] = typ[c]
                                   /\ Contradicted(c)' <=> Contradicted(c),
         NEW c0, c0 = col, NEW n0, n0 = row, Candid(c0, n0)'
  PROVE  \A c \in Column' : Candid(c, Depth(c))'
<1>1. /\ row \in 1..Len(input.rows) /\ col \in 1..input.columns /\ input.columns \in Nat
      /\ input' = input
  BY CurrentTyped, InputTyped DEF TypeInv, Column, Advance
<1>2. SUFFICES ASSUME NEW c \in Column PROVE Candid(c, Depth(c))'
  BY <1>1 DEF Column
<1>3. c \in 1..input.columns
  BY DEF Column
<1>4. CASE c = col
  <2>1. Depth(c)' = row
    BY <1>1, <1>3, <1>4 DEF Depth, Advance
  <2>. QED BY <1>4, <2>1 DEF Candid
<1>5. CASE c # col
  <2>1. Depth(c)' = Depth(c)
    BY <1>1, <1>3, <1>5 DEF Depth, Advance
  <2>. DEFINE n == Depth(c)
  <2>2. Candid(c, n)
    OBVIOUS
  <2>3. Depth(c)' = n
    BY <2>1
  <2>4. Candid(c, Depth(c))' <=> Candid(c, n)
    BY <1>1, <1>5, <2>3, MisfitUnmoved DEF Candid
  <2>. QED BY <2>2, <2>4
<1>. QED BY <1>4, <1>5

\* A step that leaves the column's candidate, or moves it to a type the cell
\* and the ones before bind to, keeps the column candid.
LEMMA CandidRead ==
  ASSUME TypeInv, NEW c \in Column, NEW n \in Nat \ {0}, NEW cell \in Cell,
         cell = CellAt(n, c), Candid(c, n - 1), input' = input,
         typ[c]' \in Type \union {None},
         cell \notin Literal =>
           /\ cell \in {"absent", "null"}
           /\ typ[c]' = typ[c] /\ (Contradicted(c)' <=> Contradicted(c)),
         cell \in Literal =>
           \/ /\ typ[c] = None \/ (typ[c] # None /\ Widen(typ[c], ClassOf(cell)) = typ[c])
              /\ typ[c]' = (IF typ[c] = None THEN ClassOf(cell) ELSE typ[c])
              /\ Contradicted(c)' <=> Contradicted(c)
           \/ /\ typ[c] # None /\ Widen(typ[c], ClassOf(cell)) = None
              /\ typ[c]' = typ[c] /\ Contradicted(c)'
           \/ /\ typ[c] # None /\ Widen(typ[c], ClassOf(cell)) \notin {typ[c], None}
              /\ n <= input.sampleRows
              /\ typ[c]' = Widen(typ[c], ClassOf(cell))
              /\ Contradicted(c)' <=> Contradicted(c)
           \/ /\ typ[c] # None /\ Widen(typ[c], ClassOf(cell)) \notin {typ[c], None}
              /\ n > input.sampleRows
              /\ typ[c]' = typ[c] /\ Contradicted(c)'
  PROVE  Candid(c, n)'
<1>. DEFINE m == n - 1  s == input.sampleRows  t == typ[c]  u == typ[c]'  k0 == ClassOf(cell)
            Clash(a, b) == a # b /\ {a, b} # {"int64", "double"}
<1>1. s \in Int
  BY InferAssumption DEF TypeInv, InputKnown, Input
<1>2. Candid(c, n)' <=>
        /\ u = None => Classes(c, n) = {}
        /\ u # None => u \in Classes(c, n)
        /\ Misfit(c, n, s) <=> Contradicted(c)'
        /\ ~Contradicted(c)' => \A k \in Classes(c, n) : <<k, u>> \in Bindable
  BY MisfitUnmoved DEF Candid
<1>3. /\ t = None => Classes(c, m) = {}
      /\ t # None => t \in Classes(c, m)
      /\ Misfit(c, m, s) <=> Contradicted(c)
      /\ ~Contradicted(c) => \A k \in Classes(c, m) : <<k, t>> \in Bindable
  BY DEF Candid
<1>4. \A k : k \in Classes(c, n) <=> k \in Classes(c, m) \/ (cell \in Literal /\ k = k0)
  BY ClassesNext
<1>5. Misfit(c, n, s) <=>
        \/ Misfit(c, m, s)
        \/ cell \in {"nested", "identifier"}
        \/ cell \in Literal /\ \E k \in Classes(c, m) : Clash(k, k0)
        \/ n > s /\ cell = "float" /\ Classes(c, m) = {"int64"}
  BY <1>1, MisfitNext
<1>6. \A k \in Classes(c, m) : k \in Type
  BY ClassRead, ClassTyped
<1>7. \A k, j \in Type : <<k, j>> \in Bindable <=> k = j \/ (k = "int64" /\ j = "double")
  BY DEF Bindable, Type
<1>8. t # None => t \in Type
  BY <1>3, <1>6
<1>9. CASE cell \notin Literal
  <2>1. cell \in {"absent", "null"} /\ cell # "float" /\ cell \notin {"nested", "identifier"}
    BY <1>9 DEF Literal
  <2>2. Classes(c, n) = Classes(c, m)
    BY <1>4, <1>9
  <2>3. u = t /\ (Contradicted(c)' <=> Contradicted(c))
    BY <1>9
  <2>4. Misfit(c, n, s) <=> Misfit(c, m, s)
    BY <1>5, <1>9, <2>1
  <2>. HIDE DEF s, t, u, m
  <2>. QED BY <1>2, <1>3, <2>2, <2>3, <2>4
<1>10. CASE cell \in Literal
  <2>1. k0 \in Type /\ (k0 = "double" <=> cell = "float") /\ cell \notin {"nested", "identifier"}
    BY <1>10, ClassTyped DEF ClassOf, Literal
  <2>2. /\ Clash("int64", "double") = FALSE /\ Clash("double", "int64") = FALSE
        /\ \A a : ~Clash(a, a)
        /\ \A a, b \in Type : Widen(a, b) = None <=> Clash(a, b)
        /\ \A a, b \in Type : Widen(a, b) = a <=> a = b \/ (a = "double" /\ b = "int64")
        /\ \A a, b \in Type : Widen(a, b) \notin {a, None} =>
             a = "int64" /\ b = "double" /\ Widen(a, b) = "double"
    <3>1. \A a, b \in Type : a # None /\ b # None
      BY InferAssumption
    <3>2. "double" \in Type /\ "int64" \in Type
      BY DEF Type
    <3>3. \A a, b : {a, b} = {"int64", "double"} <=>
            (a = "int64" /\ b = "double") \/ (a = "double" /\ b = "int64")
      OBVIOUS
    <3>. QED BY <3>1, <3>2, <3>3 DEF Widen
  <2>3. \A k : k \in Classes(c, n) <=> k \in Classes(c, m) \/ k = k0
    BY <1>4, <1>10
  <2>. HIDE DEF s, t, u, m, k0, Clash
  <2>4. Misfit(c, n, s) <=>
          \/ Misfit(c, m, s)
          \/ \E k \in Classes(c, m) : Clash(k, k0)
          \/ n > s /\ k0 = "double" /\ Classes(c, m) = {"int64"}
    BY <1>5, <1>10, <2>1
  <2>5. k0 # None
    BY <2>1, InferAssumption
  <2>6. CASE t = None /\ u = k0 /\ (Contradicted(c)' <=> Contradicted(c))
    <3>1. Classes(c, m) = {}
      BY <1>3, <2>6
    <3>2. Misfit(c, n, s) <=> Misfit(c, m, s)
      BY <2>4, <3>1
    <3>3. \A k \in Classes(c, n) : k = k0
      BY <2>3, <3>1
    <3>. QED BY <1>2, <1>3, <1>7, <2>1, <2>3, <2>5, <2>6, <3>2, <3>3
  <2>7. CASE t # None /\ Widen(t, k0) = t /\ u = t /\ (Contradicted(c)' <=> Contradicted(c))
    <3>1. t = k0 \/ (t = "double" /\ k0 = "int64")
      BY <1>8, <2>1, <2>2, <2>7
    <3>2. ASSUME ~Contradicted(c), NEW k \in Classes(c, m)
          PROVE  ~Clash(k, k0) /\ <<k, t>> \in Bindable
      BY <1>3, <1>6, <1>7, <1>8, <2>2, <2>7, <3>1, <3>2
    <3>3. ~Contradicted(c) => <<k0, t>> \in Bindable
      BY <1>7, <1>8, <2>1, <2>7, <3>1
    <3>4. ~(k0 = "double" /\ Classes(c, m) = {"int64"})
      BY <1>3, <2>7, <3>1
    <3>5. Misfit(c, n, s) <=> Misfit(c, m, s)
      BY <1>3, <2>4, <3>2, <3>4
    <3>. QED BY <1>2, <1>3, <2>3, <2>7, <3>2, <3>3, <3>5
  <2>8. CASE t # None /\ Widen(t, k0) = None /\ u = t /\ Contradicted(c)'
    <3>1. t \in Classes(c, m) /\ Clash(t, k0)
      BY <1>3, <1>8, <2>1, <2>2, <2>8
    <3>. QED BY <1>2, <2>3, <2>4, <2>8, <3>1
  <2>9. CASE /\ t # None /\ Widen(t, k0) \notin {t, None} /\ n <= s
             /\ u = Widen(t, k0) /\ (Contradicted(c)' <=> Contradicted(c))
    <3>1. t = "int64" /\ k0 = "double" /\ u = "double"
      BY <1>8, <2>1, <2>2, <2>9
    <3>2. ASSUME ~Contradicted(c), NEW k \in Classes(c, m)
          PROVE  ~Clash(k, k0) /\ <<k, u>> \in Bindable
      BY <1>3, <1>6, <1>7, <1>8, <2>1, <2>2, <2>9, <3>1, <3>2
    <3>3. <<k0, u>> \in Bindable
      BY <1>7, <2>1, <3>1
    <3>4. Misfit(c, n, s) <=> Misfit(c, m, s)
      <4>1. ~(n > s)
        BY <1>1, <2>9 DEF s
      <4>. QED BY <1>3, <2>4, <3>2, <4>1
    <3>. QED BY <1>2, <1>3, <2>3, <2>5, <2>9, <3>1, <3>2, <3>3, <3>4
  <2>10. CASE /\ t # None /\ Widen(t, k0) \notin {t, None} /\ n > s
              /\ u = t /\ Contradicted(c)'
    <3>1. t = "int64" /\ k0 = "double"
      BY <1>8, <2>1, <2>2, <2>10
    <3>2. CASE Misfit(c, m, s)
      BY <1>2, <1>3, <2>3, <2>4, <2>10, <3>2
    <3>3. CASE ~Misfit(c, m, s)
      <4>1. \A k \in Classes(c, m) : k = "int64"
        <5>1. \A k \in Classes(c, m) : k \in Type /\ <<k, t>> \in Bindable
          BY <1>3, <1>6, <3>3
        <5>. QED BY <1>7, <1>8, <2>10, <3>1, <5>1
      <4>2. Classes(c, m) = {"int64"}
        BY <1>3, <2>10, <3>1, <4>1
      <4>. QED BY <1>2, <1>3, <2>3, <2>4, <2>10, <3>1, <4>2
    <3>. QED BY <3>2, <3>3
  <2>. QED BY <1>10, <2>6, <2>7, <2>8, <2>9, <2>10 DEF t, u, k0, s
<1>. QED BY <1>9, <1>10

LEMMA VerdictsInit == Init => Verdicts
<1>. SUFFICES ASSUME Init PROVE Verdicts
  OBVIOUS
<1>1. stage = "start" /\ contradictions = {} /\ \A c \in Column : typ[c] = None
  BY DEF Init
<1>. QED BY <1>1 DEF Verdicts, HintWorks, InfersAsDeclared

\* What a step over the current cell may do to its column.
Taken(c, cell) ==
  /\ cell \notin Literal =>
       /\ cell \in {"absent", "null"}
       /\ typ[c]' = typ[c] /\ (Contradicted(c)' <=> Contradicted(c))
  /\ cell \in Literal =>
       \/ /\ typ[c] = None \/ (typ[c] # None /\ Widen(typ[c], ClassOf(cell)) = typ[c])
          /\ typ[c]' = (IF typ[c] = None THEN ClassOf(cell) ELSE typ[c])
          /\ Contradicted(c)' <=> Contradicted(c)
       \/ /\ typ[c] # None /\ Widen(typ[c], ClassOf(cell)) = None
          /\ typ[c]' = typ[c] /\ Contradicted(c)'
       \/ /\ typ[c] # None /\ Widen(typ[c], ClassOf(cell)) \notin {typ[c], None}
          /\ row <= input.sampleRows
          /\ typ[c]' = Widen(typ[c], ClassOf(cell))
          /\ Contradicted(c)' <=> Contradicted(c)
       \/ /\ typ[c] # None /\ Widen(typ[c], ClassOf(cell)) \notin {typ[c], None}
          /\ row > input.sampleRows
          /\ typ[c]' = typ[c] /\ Contradicted(c)'

\* The column read is candid after the step.
LEMMA CandidTaken ==
  ASSUME TypeInv, Verdicts, Reading, input' = input,
         NEW c, c = col, NEW n, n = row, NEW cell, cell = Current,
         typ[c]' \in Type \union {None}, Taken(c, cell)
  PROVE  /\ c \in Column /\ n \in 1..Len(input.rows) /\ cell \in Cell /\ cell = CellAt(n, c)
         /\ Candid(c, n - 1)
         /\ Candid(c, n)'
         /\ Misfit(c, n, input.sampleRows) <=> Contradicted(c)'
<1>1. c \in Column /\ n \in 1..Len(input.rows) /\ cell \in Cell
  BY CurrentTyped
<1>2. cell = CellAt(n, c)
  BY DEF CellAt, Current
<1>3. Candid(c, n - 1)
  <2>1. Depth(c) = n - 1
    BY <1>1 DEF Depth, Column
  <2>. QED BY <1>1, <2>1 DEF Verdicts, Reading
<1>4. n \in Nat \ {0}
  BY <1>1
<1>5. Candid(c, n)'
  BY <1>1, <1>2, <1>3, <1>4, CandidRead DEF Taken
<1>6. Misfit(c, n, input.sampleRows) <=> Contradicted(c)'
  BY <1>5, MisfitUnmoved DEF Candid
<1>. QED BY <1>1, <1>2, <1>3, <1>5, <1>6

\* While the scan goes on the verdict is open.
LEMMA VerdictsRead ==
  ASSUME TypeInv, TypeInv', Verdicts, Reading, Advance,
         NEW c0, c0 = col, NEW cell, cell = Current, Taken(c0, cell),
         ~input.fullScan => contradictions' = {},
         \A found \in contradictions' : found.col \in Column,
         \A c \in Column \ {c0} : typ'[c] = typ[c] /\ (Contradicted(c)' <=> Contradicted(c))
  PROVE  Verdicts'
<1>1. PICK n : n = row
  OBVIOUS
<1>2. input' = input /\ stage' = "scan"
  BY DEF Advance, Reading
<1>3. typ[c0]' \in Type \union {None}
  <2>1. c0 \in Column'
    BY <1>2, CurrentTyped DEF Column
  <2>. QED BY <2>1 DEF TypeInv, TypeOK
<1>4. Candid(c0, n)'
  BY <1>1, <1>2, <1>3, CandidTaken
<1>5. \A c \in Column' : Candid(c, Depth(c))'
  BY <1>1, <1>4, CandidNext DEF Verdicts, Reading
<1>6. (\A c \in Column : Candid(c, Depth(c)))'
  BY <1>5
<1>7. HintWorks'
  BY <1>2 DEF HintWorks
<1>8. InfersAsDeclared'
  BY <1>2 DEF InfersAsDeclared
<1>9. row' > Len(input'.rows) => col' = 1
  <2>1. row \in 1..Len(input.rows) /\ Len(input.rows) \in Nat
    BY CurrentTyped, InputTyped DEF TypeInv
  <2>. QED BY <1>2, <2>1 DEF Advance
<1>10. (\A found \in contradictions : found.col \in Column)'
  BY <1>2 DEF Column
<1>. QED BY <1>2, <1>6, <1>7, <1>8, <1>9, <1>10 DEF Verdicts

\* A refusal is due to a column that cannot be typed.
LEMMA VerdictsRefuse ==
  ASSUME TypeInv, stage' = "refused", input' = input, HintWorks',
         NEW c \in Column, NEW n \in 1..Len(input.rows), Misfit(c, n, input.sampleRows)
  PROVE  Verdicts'
<1>1. input.sampleRows \in Int /\ Len(input.rows) \in Nat
  <2>1. input.sampleRows \in Int
    BY InferAssumption DEF TypeInv, InputKnown, Input
  <2>. QED BY <2>1, InputTyped DEF TypeInv
<1>2. Misfit(c, Len(input.rows), input.sampleRows)
  BY <1>1, MisfitGrows
<1>3. \E d \in Column : Misfit(d, Len(input.rows), input.sampleRows)
  BY <1>2
<1>4. (\E d \in Column : Misfit(d, Len(input.rows), input.sampleRows))'
  BY <1>3, VerdictUnmoved DEF Column
<1>5. InfersAsDeclared'
  BY <1>4 DEF InfersAsDeclared
<1>. QED BY <1>5 DEF Verdicts

LEMMA VerdictsStep == TypeInv /\ Verdicts /\ [Next]_vars => Verdicts'
<1>. SUFFICES ASSUME TypeInv, Verdicts, [Next]_vars PROVE Verdicts'
  OBVIOUS
<1>1. TypeInv'
  BY TypeStep
<1>2. CASE Start
  <2>1. /\ UNCHANGED <<input, row, col, typ, nullable, holdsNull, contradictions, fields>>
        /\ row = 1 /\ col = 1 /\ stage = "start"
    BY <1>2 DEF Start, Refuse, reports, TypeInv, InPlace
  <2>2. HintWorks'
    BY <2>1 DEF Verdicts, HintWorks
  <2>3. CASE stage' = "scan"
    <3>1. ASSUME NEW c \in Column PROVE Depth(c)' = 0 /\ Candid(c, 0)'
      <4>1. ~(c < col) /\ ~(c < col')
        BY <2>1, InputTyped DEF Column, TypeInv
      <4>2. Classes(c, 0) = {} /\ ~Misfit(c, 0, input.sampleRows)
        BY ClassRead DEF Misfit
      <4>3. typ'[c] = None /\ ~Contradicted(c)'
        BY <2>1 DEF Verdicts, Contradicted
      <4>. QED BY <2>1, <4>1, <4>2, <4>3, MisfitUnmoved DEF Depth, Candid
    <3>2. ASSUME NEW c \in Column PROVE Candid(c, Depth(c))'
      BY <3>1 DEF Candid
    <3>3. (\A c \in Column : Candid(c, Depth(c)))'
      BY <2>1, <3>2 DEF Column
    <3>4. contradictions' = {}
      BY <2>1 DEF Verdicts
    <3>. QED BY <2>1, <2>2, <2>3, <3>3, <3>4 DEF Verdicts, InfersAsDeclared
  <2>4. CASE stage' = "refused"
    <3>1. input.named /\ input.datasets = 1 /\ input.columns # 0 => \E c \in Column : c \in input.dotted
      BY <1>2, <2>4, InputTyped DEF Start, TypeInv
    <3>2. InfersAsDeclared'
      BY <2>1, <2>4, <3>1 DEF InfersAsDeclared, Column
    <3>. QED BY <2>2, <2>4, <3>2 DEF Verdicts
  <2>5. stage' \in {"scan", "refused"}
    BY <1>2 DEF Start, Refuse
  <2>. QED BY <2>3, <2>4, <2>5
<1>3. ASSUME NEW c0, c0 = col, NEW cell, cell = Current, Reading, Advance,
             UNCHANGED <<typ, contradictions>>, cell \in {"absent", "null"}
      PROVE  Verdicts'
  <2>1. cell \notin Literal
    BY <1>3 DEF Literal
  <2>2. \A c : typ'[c] = typ[c] /\ (Contradicted(c)' <=> Contradicted(c))
    BY <1>3 DEF Contradicted
  <2>3. Taken(c0, cell)
    BY <1>3, <2>1, <2>2 DEF Taken
  <2>. QED BY <1>1, <1>3, <2>2, <2>3, VerdictsRead DEF Verdicts, Reading
<1>4. CASE AbsentCell
  BY <1>3, <1>4 DEF AbsentCell
<1>5. CASE NullCell
  BY <1>3, <1>5 DEF NullCell
<1>6. CASE UnscalarCell
  <2>1. /\ Reading /\ Current \in {"nested", "identifier"} /\ stage' = "refused"
        /\ UNCHANGED <<input, contradictions>>
    BY <1>6 DEF UnscalarCell, Refuse, reports
  <2>2. row \in 1..Len(input.rows) /\ col \in Column /\ CellAt(row, col) \in {"nested", "identifier"}
    BY <2>1, CurrentTyped DEF CellAt, Current
  <2>3. Misfit(col, row, input.sampleRows)
    BY <2>2 DEF Misfit
  <2>4. HintWorks'
    BY <2>1, HintUnmovedBy DEF Verdicts, HintWorks
  <2>. QED BY <2>1, <2>2, <2>3, <2>4, VerdictsRefuse
<1>7. ASSUME NEW c0, c0 = col, NEW cell, cell = Current, Reading, Advance, UNCHANGED contradictions,
             cell \in Literal, NEW t \in Type, typ' = [typ EXCEPT ![c0] = t],
             \/ typ[c0] = None /\ t = ClassOf(cell)
             \/ typ[c0] # None /\ Widen(typ[c0], ClassOf(cell)) = typ[c0] /\ t = typ[c0]
             \/ /\ typ[c0] # None /\ Widen(typ[c0], ClassOf(cell)) \notin {typ[c0], None}
                /\ row <= input.sampleRows /\ t = Widen(typ[c0], ClassOf(cell))
      PROVE  Verdicts'
  <2>1. c0 \in Column /\ typ \in [Column -> Type \union {None}]
    BY <1>7, CurrentTyped DEF TypeInv, TypeOK
  <2>2. typ'[c0] = t /\ \A c \in Column \ {c0} : typ'[c] = typ[c]
    BY <1>7, <2>1
  <2>3. \A c : Contradicted(c)' <=> Contradicted(c)
    BY <1>7 DEF Contradicted
  <2>4. Taken(c0, cell)
    BY <1>7, <2>2, <2>3 DEF Taken
  <2>. QED BY <1>1, <1>7, <2>2, <2>3, <2>4, VerdictsRead DEF Verdicts, Reading
<1>8. CASE FirstCell
  <2>1. Reading /\ Advance /\ Current \in Literal /\ typ[col] = None
        /\ typ' = [typ EXCEPT ![col] = ClassOf(Current)] /\ UNCHANGED contradictions
    BY <1>8 DEF FirstCell
  <2>2. ClassOf(Current) \in Type
    BY <2>1, ClassTyped
  <2>. QED BY <1>7, <2>1, <2>2
<1>9. CASE FittingCell
  <2>1. Reading /\ Advance /\ Current \in Literal /\ typ[col] # None
        /\ Widen(typ[col], ClassOf(Current)) = typ[col] /\ UNCHANGED <<typ, contradictions>>
    BY <1>9 DEF FittingCell, Compared, reports, Joined
  <2>2. typ[col] \in Type /\ typ' = [typ EXCEPT ![col] = typ[col]]
    BY <2>1, CurrentTyped DEF TypeInv, TypeOK
  <2>. QED BY <1>7, <2>1, <2>2
<1>10. CASE WideningCell
  <2>1. Reading /\ Advance /\ Current \in Literal /\ typ[col] # None
        /\ Widen(typ[col], ClassOf(Current)) \notin {typ[col], None} /\ row <= input.sampleRows
        /\ typ' = [typ EXCEPT ![col] = Widen(typ[col], ClassOf(Current))]
        /\ UNCHANGED contradictions
    BY <1>10 DEF WideningCell, Compared, Joined, InSample
  <2>2. typ[col] \in Type /\ ClassOf(Current) \in Type
    BY <2>1, ClassTyped, CurrentTyped DEF TypeInv, TypeOK
  <2>3. Widen(typ[col], ClassOf(Current)) \in Type
    BY <2>1, <2>2, JoinTyped
  <2>. QED BY <1>7, <2>1, <2>3
\* A contradiction: collected with --full-scan, the end without it.
<1>11. ASSUME NEW c0, c0 = col, NEW n, n = row, NEW cell, cell = Current,
              NEW hint, Compared, Contradict([row |-> n, col |-> c0, hint |-> hint]),
              Widen(typ[c0], ClassOf(cell)) # typ[c0],
              Widen(typ[c0], ClassOf(cell)) = None \/ row > input.sampleRows,
              hint # None => Widen(typ[c0], ClassOf(cell)) # None /\ hint = n
       PROVE  Verdicts'
  <2>. DEFINE found == [row |-> n, col |-> c0, hint |-> hint]
  <2>1. /\ Reading /\ cell \in Literal /\ typ[c0] # None /\ UNCHANGED <<typ, input>>
        /\ contradictions' = contradictions \union {found}
    BY <1>11 DEF Compared, Contradict, Advance
  <2>2. Contradicted(c0)'
    <3>1. found \in contradictions' /\ found.col = c0
      BY <2>1
    <3>. QED BY <3>1 DEF Contradicted
  <2>3. \A c \in Column \ {c0} : typ'[c] = typ[c] /\ (Contradicted(c)' <=> Contradicted(c))
    BY <2>1 DEF Contradicted
  <2>4. Taken(c0, cell)
    BY <1>11, <2>1, <2>2 DEF Taken
  <2>5. CASE input.fullScan
    <3>1. c0 \in Column
      BY <1>11, <2>1, CurrentTyped
    <3>2. \A f \in contradictions' : f.col \in Column
      BY <2>1, <3>1 DEF Verdicts, Reading
    <3>. QED BY <1>1, <1>11, <2>1, <2>3, <2>4, <2>5, <3>2, VerdictsRead DEF Contradict
  <2>6. CASE ~input.fullScan
    <3>1. stage' = "refused" /\ contradictions' = {found}
      BY <1>11, <2>1, <2>6 DEF Contradict, Refuse, Verdicts, Reading
    <3>2. c0 \in Column /\ typ[c0] \in Type
      BY <1>11, <2>1, CurrentTyped DEF TypeInv, TypeOK
    <3>3. /\ n \in 1..Len(input.rows) /\ cell = CellAt(n, c0)
          /\ Candid(c0, n - 1) /\ Misfit(c0, n, input.sampleRows)
      BY <1>11, <2>1, <2>2, <2>4, <3>2, CandidTaken
    <3>4. ASSUME hint # None PROVE ~Misfit(c0, n, n)
      <4>1. n \in Nat \ {0} /\ input.sampleRows \in Int /\ row = n /\ hint = n
        <5>1. input.sampleRows \in Int
          BY InferAssumption DEF TypeInv, InputKnown, Input
        <5>. QED BY <1>11, <3>3, <3>4, <5>1
      <4>2. typ[c0] = "int64" /\ ClassOf(cell) = "double"
        BY <1>11, <2>1, <3>2, <3>4, ClassTyped, InferAssumption DEF Widen
      <4>3. ~Contradicted(c0)
        BY <2>1, <2>6 DEF Verdicts, Reading, Contradicted
      <4>4. ~Misfit(c0, n - 1, input.sampleRows)
            /\ \A k \in Classes(c0, n - 1) : <<k, "int64">> \in Bindable
        BY <3>3, <4>2, <4>3, <2>1 DEF Candid
      <4>5. \A k \in Classes(c0, n - 1) : k = "int64"
        BY <4>4 DEF Bindable
      <4>6. \A r \in 1..(n - 1) : ~(r > n)
        BY <4>1
      <4>7. ~Misfit(c0, n - 1, n)
        BY <4>4, <4>6 DEF Misfit
      <4>8. cell \notin {"nested", "identifier"} /\ ~(n > n)
        BY <2>1, <4>1 DEF Literal
      <4>. QED BY <3>3, <4>1, <4>2, <4>5, <4>7, <4>8, MisfitNext
    <3>5. HintWorks'
      <4>1. found.col = c0 /\ found.row = n /\ found.hint = hint
        OBVIOUS
      <4>2. hint # None => hint = n
        BY <1>11
      <4>3. found.hint # None => ~Misfit(found.col, found.row, found.hint)
        BY <3>4, <4>1, <4>2
      <4>4. contradictions' = {found} /\ input' = input
        BY <2>1, <3>1
      <4>. HIDE DEF found
      <4>. QED BY <4>3, <4>4, HintUnmovedBy DEF HintWorks
    <3>. QED BY <2>1, <3>1, <3>2, <3>3, <3>5, VerdictsRefuse
  <2>. QED BY <2>5, <2>6
<1>12. CASE MixedCell
  <2>1. /\ Compared /\ Contradict([row |-> row, col |-> col, hint |-> None])
        /\ Widen(typ[col], ClassOf(Current)) = None /\ typ[col] # None
    BY <1>12 DEF MixedCell, Compared, Joined
  <2>. QED BY <1>11, <2>1
<1>13. CASE LateCell
  <2>1. row \in Nat /\ input.sampleRows \in Int
    BY InferAssumption DEF TypeInv, TypeOK, InputKnown, Input
  <2>2. /\ Compared /\ Contradict([row |-> row, col |-> col, hint |-> row])
        /\ Widen(typ[col], ClassOf(Current)) \notin {typ[col], None}
        /\ row > input.sampleRows
    BY <1>13, <2>1 DEF LateCell, Compared, Joined, InSample, Hint
  <2>. QED BY <1>11, <2>2
<1>14. CASE Emit
  <2>1. /\ UNCHANGED <<input, row, col, typ, nullable, holdsNull, contradictions>>
        /\ stage = "scan" /\ row > Len(input.rows) /\ col \in Column /\ row = Len(input.rows) + 1
    BY <1>14, InputTyped DEF Emit, reports, TypeInv, InPlace, TypeOK
  <2>2. HintWorks'
    BY <2>1, HintUnmovedBy DEF Verdicts, HintWorks
  <2>3. CASE contradictions # {}
    <3>1. stage' = "refused"
      BY <1>14, <2>3 DEF Emit, Refuse
    <3>2. PICK found \in contradictions : TRUE
      BY <2>3
    <3>3. found.col \in Column
      BY <2>1, <3>2 DEF Verdicts
    <3>4. Depth(found.col) = Len(input.rows) /\ Len(input.rows) \in Nat
      BY <2>1, <3>3, InputTyped DEF Depth, Column, Verdicts, TypeInv
    <3>5. Misfit(found.col, Len(input.rows), input.sampleRows)
      BY <2>1, <3>2, <3>3, <3>4 DEF Verdicts, Candid, Contradicted
    <3>6. Len(input.rows) \in 1..Len(input.rows)
      BY <3>4, <3>5, ClassRead DEF Misfit
    <3>. QED BY <2>1, <2>2, <3>1, <3>3, <3>5, <3>6, VerdictsRefuse
  <2>4. CASE contradictions = {}
    <3>1. stage' = "written" /\ fields' = [c \in Column |-> [type |-> FinalType(c), form |-> Form(c)]]
      BY <1>14, <2>4 DEF Emit
    <3>2. ASSUME NEW c \in Column
          PROVE  /\ ~Misfit(c, Len(input.rows), input.sampleRows)
                 /\ fields'[c].type = "double" <=> "double" \in Classes(c, Len(input.rows))
      <4>1. Depth(c) = Len(input.rows)
        BY <2>1, InputTyped DEF Depth, Column, Verdicts, TypeInv
      <4>2. Candid(c, Len(input.rows)) /\ ~Contradicted(c)
        BY <2>1, <2>4, <4>1 DEF Verdicts, Contradicted
      <4>3. fields'[c].type = FinalType(c)
        BY <3>1
      <4>4. FinalType(c) = "double" <=> typ[c] = "double"
        BY InferAssumption DEF FinalType, Type
      <4>5. "double" # None /\ \A k : <<"double", k>> \in Bindable => k = "double"
        BY InferAssumption DEF Type, Bindable
      <4>. QED BY <4>2, <4>3, <4>4, <4>5 DEF Candid
    <3>3. InfersAsDeclared'
      BY <2>1, <3>1, <3>2, VerdictUnmoved DEF InfersAsDeclared, Column
    <3>. QED BY <2>1, <2>2, <3>1, <3>3 DEF Verdicts
  <2>. QED BY <2>3, <2>4
<1>15. CASE UNCHANGED vars
  <2>1. UNCHANGED <<input, stage, row, col, typ, nullable, holdsNull, contradictions, fields>>
    BY <1>15 DEF vars, reports
  <2>2. (\A c \in Column : Candid(c, Depth(c))) => (\A c \in Column : Candid(c, Depth(c)))'
    <3>1. ASSUME NEW c \in Column, Candid(c, Depth(c)) PROVE Candid(c, Depth(c))'
      <4>1. PICK n : n = Depth(c)
        OBVIOUS
      <4>2. Depth(c)' = n
        BY <2>1, <4>1 DEF Depth
      <4>. QED BY <2>1, <3>1, <4>1, <4>2, MisfitUnmoved DEF Candid, Contradicted
    <3>. QED BY <2>1, <3>1 DEF Column
  <2>3. HintWorks' /\ InfersAsDeclared'
    BY <2>1, HintUnmovedBy, VerdictUnmoved DEF Verdicts, HintWorks, InfersAsDeclared, Column
  <2>. QED BY <2>1, <2>2, <2>3 DEF Verdicts, Column
<1>. QED
  BY <1>2, <1>4, <1>5, <1>6, <1>8, <1>9, <1>10, <1>12, <1>13, <1>14, <1>15 DEF Next

(***************************************************************************)
(* A file is refused exactly if some column of it cannot be typed under    *)
(* the sample window, the same with --full-scan as without: inferDataset.  *)
(***************************************************************************)
THEOREM VerdictAsDeclared == Spec => []InfersAsDeclared
<1>1. Verdicts => InfersAsDeclared
  BY DEF Verdicts
<1>. QED BY TypeInit, TypeStep, VerdictsInit, VerdictsStep, <1>1, PTL DEF Spec

(***************************************************************************)
(* The --sample-rows a fail-fast error asks for gets the column past the   *)
(* row the run failed at, for every file: the recovery hint of inferCell.  *)
(***************************************************************************)
THEOREM HintRecovers == Spec => []HintWorks
<1>1. Verdicts => HintWorks
  BY DEF Verdicts
<1>. QED BY TypeInit, TypeStep, VerdictsInit, VerdictsStep, <1>1, PTL DEF Spec
=============================================================================
