---------------------------- MODULE RuleMapping ----------------------------
(***************************************************************************)
(* How the @validate rules of one field, and of the aliases its type is    *)
(* declared through, become keywords of an OpenAPI schema.                 *)
(*                                                                         *)
(* A rule is text.  The mapper cuts it at its top-level `&&`, and a piece  *)
(* may hold several atoms joined by `||`: a rule is a sequence of pieces,  *)
(* a piece a sequence of atoms.  In the language `&&` binds tighter than   *)
(* `||`, so what a rule means is not the conjunction of its pieces.        *)
(***************************************************************************)
EXTENDS Integers, Sequences, FiniteSets

CONSTANTS
  Targets,   \* the fields mapped
  Values,    \* the values a field may hold
  Facts,     \* what an opaque condition or a pattern tells of a value
  Literals,  \* the members of `in` lists
  Texts,     \* those written as strings
  None

Kind == {"string", "bytes", "int32", "int64", "double", "bool", "enum", "message"}

\* plain: the literals are of the form the mapper reads, a double-quoted
\* string or a number in decimal; an atom it does not know is "opaque".
Atom ==
  [shape : {"matches", "opaque"}, fact : Facts, plain : BOOLEAN]
  \union [shape : {"in"}, list : Seq(Literals) \ {<<>>}, plain : BOOLEAN]
  \union [shape : {"size", "number"}, op : {"<", "<=", ">", ">=", "==", "!="},
          bound : Int, plain : BOOLEAN]

Piece == {p \in Seq(Atom) : Len(p) \in 1..2}
Rule == Seq(Piece) \ {<<>>}

Target ==
  [container : {"one", "list", "map"},
   kind      : Kind,            \* of the value, or of an element
   boxed     : BOOLEAN,         \* the type is a google.protobuf wrapper
   aliases   : Seq(Seq(Rule)),  \* the most derived first
   own       : Seq(Rule),       \* fieldOwnAnns
   presence  : BOOLEAN,         \* explicitPresence
   required  : BOOLEAN]

\* What tells values apart; items are the elements of a list or map.
Value == [literal : Literals, size : Nat, number : Int,
          facts : SUBSET Facts, items : SUBSET Values]

ASSUME RuleAssumption ==
  /\ Targets \subseteq Target
  /\ Values \subseteq Value
  /\ Texts \subseteq Literals
  /\ \A t \in Targets : t.boxed /\ t.container = "one" => t.presence   \* a wrapper is a message
  /\ None \notin Facts /\ None \notin Literals /\ None \notin Int

VARIABLES
  target,
  layer, rule, piece,   \* the piece to be mapped
  mapped,               \* the constraints of each layer
  stage,
  null                  \* nullable's answer: "null" was added to the schema

vars == <<target, layer, rule, piece, mapped, stage, null>>

-----------------------------------------------------------------------------
(* The layers of a schema: each alias is a component of its own that the   *)
(* next refers to; what the field says itself comes last.                  *)

\* mapFieldSchema types the entries of a map and reads no rule of theirs.
Layers(t) == IF t.container = "map" THEN <<t.own>> ELSE Append(t.aliases, t.own)

\* A mutant: the field is looked for past the last layer.
IsFieldLate(t, l) == l > Len(Layers(t))

IsField(t, l) == l = Len(Layers(t))

\* sizeKind: the family of a size() bound.
SizeKind(t, l) ==
  CASE IsField(t, l) /\ t.container = "list" -> "items"
    [] IsField(t, l) /\ t.container = "map" -> "props"
    [] t.kind \in {"string", "bytes"} -> "length"
    [] OTHER -> None

OnElement(t, l) == ~IsField(t, l) \/ t.container = "one"

Numeric(t, l) == OnElement(t, l) /\ t.kind \in {"int32", "int64", "double"}

-----------------------------------------------------------------------------
(* constraints, and what mapConjunct makes of a piece. *)

Empty == [pattern |-> None, enum |-> {}, min |-> None, max |-> None,
          nMin |-> None, nMax |-> None, exclMin |-> FALSE, exclMax |-> FALSE,
          unmapped |-> {}]

Constraints ==
  [pattern : Facts \union {None}, enum : SUBSET (Literals \union {None}),
   min : Int \union {None}, max : Int \union {None},
   nMin : Int \union {None}, nMax : Int \union {None},
   exclMin : BOOLEAN, exclMax : BOOLEAN, unmapped : SUBSET Piece]

Members(s) == {s[i] : i \in DOMAIN s}
Front(s) == SubSeq(s, 1, Len(s) - 1)

\* A mutant: a rule that finds its keyword taken is forgotten.
KeepTaken(c, p) == c

\* The x-validation entry of a piece that is not mapped.
Keep(c, p) == [c EXCEPT !.unmapped = @ \union {p}]

MapMatches(c, p) ==
  IF Len(p) = 1 /\ p[1].plain /\ c.pattern = None
  THEN [c EXCEPT !.pattern = p[1].fact]
  ELSE Keep(c, p)

\* unquote looks at the ends of an element only: of `this in ["a", "b"] ||
\* this in ["c", "d"]` it reads "a", `b"] || this in ["c` and "d"; None stands
\* for the middle one, which no value is equal to.
EnumOf(p) ==
  IF Len(p) = 1 THEN Members(p[1].list)
  ELSE Members(Front(p[1].list)) \union {None} \union Members(Tail(p[2].list))

\* One list, or two between which only quotes are seen.
ReadsAsList(p) ==
  /\ \A i \in DOMAIN p : p[i].shape = "in" /\ p[i].plain
  /\ Len(p) = 2 => p[1].list[Len(p[1].list)] \in Texts /\ p[2].list[1] \in Texts

MapEnum(c, p) ==
  IF ReadsAsList(p) /\ c.enum = {}
  THEN [c EXCEPT !.enum = EnumOf(p)]
  ELSE Keep(c, p)

\* A mutant: "<=" is taken for "<".
SizeBoundsTight(a) ==
  [min |-> IF a.op \in {">=", "=="} THEN a.bound ELSE IF a.op = ">" THEN a.bound + 1 ELSE None,
   max |-> IF a.op = "==" THEN a.bound ELSE IF a.op \in {"<", "<="} THEN a.bound - 1 ELSE None]

\* The bounds mapSize sets, None where it sets none.
SizeBounds(a) ==
  [min |-> IF a.op \in {">=", "=="} THEN a.bound ELSE IF a.op = ">" THEN a.bound + 1 ELSE None,
   max |-> IF a.op \in {"<=", "=="} THEN a.bound ELSE IF a.op = "<" THEN a.bound - 1 ELSE None]

\* set: a bound that is there stays.
Put(old, new) == IF old = None THEN new ELSE old

\* Both bounds are set in turn; when the second is taken the first stays set,
\* and the piece is kept.
MapSize(c, p) ==
  LET b == SizeBounds(p[1])
      free == (b.min # None => c.min = None) /\ (b.max # None => c.max = None)
      minTaken == b.min # None /\ c.min # None
      set == [c EXCEPT !.min = Put(@, b.min), !.max = IF minTaken THEN @ ELSE Put(@, b.max)]
  IN IF b.min = None /\ b.max = None THEN Keep(c, p)
     ELSE IF free THEN set ELSE Keep(set, p)

MapNumeric(c, p) ==
  LET a == p[1]
  IN IF a.op \in {"<", "<="} /\ c.nMax = None
     THEN [c EXCEPT !.nMax = a.bound, !.exclMax = (a.op = "<")]
     ELSE IF a.op \in {">", ">="} /\ c.nMin = None
     THEN [c EXCEPT !.nMin = a.bound, !.exclMin = (a.op = ">")]
     ELSE Keep(c, p)

-----------------------------------------------------------------------------
(* One action per shape of piece: the loops of mapValidate over the rules  *)
(* of a layer and the pieces of a rule.                                    *)

Init ==
  /\ target \in Targets
  /\ layer = 1 /\ rule = 1 /\ piece = 1
  /\ mapped = [l \in DOMAIN Layers(target) |-> Empty]
  /\ stage = "map"
  /\ null = FALSE

Rules == Layers(target)[layer]

Reading == stage = "map" /\ layer \in DOMAIN Layers(target) /\ rule \in DOMAIN Rules

Current == Rules[rule][piece]

Advance ==
  /\ rule' = IF piece = Len(Rules[rule]) THEN rule + 1 ELSE rule
  /\ piece' = IF piece = Len(Rules[rule]) THEN 1 ELSE piece + 1
  /\ UNCHANGED <<target, layer, stage, null>>

Set(c) == mapped' = [mapped EXCEPT ![layer] = c]

Single == Len(Current) = 1

Pattern ==
  /\ Reading /\ Current[1].shape = "matches"
  /\ Set(MapMatches(mapped[layer], Current))
  /\ Advance

Enum ==
  /\ Reading /\ Current[1].shape = "in"
  /\ Set(MapEnum(mapped[layer], Current))
  /\ Advance

SizeMappable == Single /\ Current[1].plain /\ SizeKind(target, layer) # None

Size ==
  /\ Reading /\ Current[1].shape = "size"
  /\ Set(IF SizeMappable THEN MapSize(mapped[layer], Current) ELSE Keep(mapped[layer], Current))
  /\ Advance

NumberMappable == Single /\ Current[1].plain /\ Numeric(target, layer)

Bounds ==
  /\ Reading /\ Current[1].shape = "number"
  /\ Set(IF NumberMappable THEN MapNumeric(mapped[layer], Current)
         ELSE Keep(mapped[layer], Current))
  /\ Advance

Opaque ==
  /\ Reading /\ Current[1].shape = "opaque"
  /\ Set(Keep(mapped[layer], Current))
  /\ Advance

\* The component of an alias is complete; what refers to it is next.
NextLayer ==
  /\ stage = "map" /\ rule > Len(Rules) /\ ~IsField(target, layer)
  /\ layer' = layer + 1 /\ rule' = 1 /\ piece' = 1
  /\ UNCHANGED <<target, mapped, stage, null>>

\* A mutant: @required is not looked at.
NullablePresence(t) == t.presence

\* nullable, on the property schema.
Nullable(t) == t.presence /\ ~t.required

Property ==
  /\ stage = "map" /\ IsField(target, layer) /\ rule > Len(Rules)
  /\ null' = Nullable(target)
  /\ stage' = "done"
  /\ UNCHANGED <<target, layer, rule, piece, mapped>>

Next == \/ Pattern \/ Enum \/ Size \/ Bounds \/ Opaque
        \/ NextLayer \/ Property

Spec == Init /\ [][Next]_vars

-----------------------------------------------------------------------------
(* What the language says. *)

Compare(x, op, y) ==
  \/ op = "<" /\ x < y
  \/ op = "<=" /\ x <= y
  \/ op = ">" /\ x > y
  \/ op = ">=" /\ x >= y
  \/ op = "==" /\ x = y
  \/ op = "!=" /\ x # y

AtomHolds(a, v) ==
  \/ a.shape \in {"matches", "opaque"} /\ a.fact \in v.facts
  \/ a.shape = "in" /\ v.literal \in Members(a.list)
  \/ a.shape = "size" /\ Compare(v.size, a.op, a.bound)
  \/ a.shape = "number" /\ Compare(v.number, a.op, a.bound)

\* An entry of x-validation: its atoms are joined by ||.
PieceHolds(p, v) == \E i \in DOMAIN p : AtomHolds(p[i], v)

\* Atom j of piece i starts an operand of ||; when it is the last of its piece
\* the && after it binds it to the first atoms of the pieces that follow.
RuleHolds(r, v) ==
  \E i \in DOMAIN r : \E j \in DOMAIN r[i] :
    /\ i = 1 \/ j > 1
    /\ AtomHolds(r[i][j], v)
    /\ j = Len(r[i]) =>
         \A k \in i + 1 .. Len(r) :
           (\A m \in i + 1 .. k - 1 : Len(r[m]) = 1) => AtomHolds(r[k][1], v)

\* The values an alias's rules bear on.
Borne(t, v) == IF t.container = "one" THEN {v} ELSE v.items

RulesHold(t, v) ==
  /\ \A i \in DOMAIN t.own : RuleHolds(t.own[i], v)
  /\ \A l \in DOMAIN t.aliases : \A i \in DOMAIN t.aliases[l] :
       \A e \in Borne(t, v) : RuleHolds(t.aliases[l][i], e)

-----------------------------------------------------------------------------
(* What the schema says: a keyword binds values of its own JSON type only. *)

\* The JSON type of a kind (scalarBase), where a keyword tells it apart.
IsJsonNumber(kind) == kind \in {"int32", "double"}

\* ProtoJSON writes a 64-bit integer and an enum value as strings, which no
\* number is equal to.
Comparable(kind) == kind \notin {"int64", "enum"}

\* The length of the JSON form: bytes are base64.
JsonSize(kind, v) == IF kind = "bytes" THEN 4 * ((v.size + 2) \div 3) ELSE v.size

LayerKind(t, l) == IF OnElement(t, l) THEN t.kind ELSE t.container

Accepts(c, kind, v) ==
  /\ c.pattern # None => c.pattern \in v.facts
  /\ c.enum # {} => Comparable(kind) /\ v.literal \in c.enum
  /\ c.min # None => JsonSize(kind, v) >= c.min
  /\ c.max # None => JsonSize(kind, v) <= c.max
  /\ c.nMin # None /\ IsJsonNumber(kind) =>
       IF c.exclMin THEN v.number > c.nMin ELSE v.number >= c.nMin
  /\ c.nMax # None /\ IsJsonNumber(kind) =>
       IF c.exclMax THEN v.number < c.nMax ELSE v.number <= c.nMax
  /\ \A p \in c.unmapped : PieceHolds(p, v)

SchemaAccepts(v) ==
  \A l \in DOMAIN mapped :
    \A w \in IF IsField(target, l) THEN {v} ELSE Borne(target, v) :
      Accepts(mapped[l], LayerKind(target, l), w)

\* The schema of the field alone takes null: a flat schema whose type admits
\* it and that has no enum, an anyOf with null, or aliases that all take it.
AcceptsNull ==
  IF target.aliases = <<>> /\ target.kind \notin {"enum", "message"}
  THEN (null \/ target.boxed) /\ mapped[1].enum = {}
  ELSE \/ null
       \/ target.boxed /\ \A l \in DOMAIN mapped : mapped[l].enum = {}

-----------------------------------------------------------------------------
(* The rules the mapper translates faithfully.  What is left out here are   *)
(* defects, each reported where the project lists its findings.            *)

AtomsOf(r) == UNION {Members(r[i]) : i \in DOMAIN r}
LayerAtoms(t, l) == UNION {AtomsOf(Layers(t)[l][i]) : i \in DOMAIN Layers(t)[l]}

\* An atom applied to something it is defined for.
AtomTyped(kind, a) ==
  CASE a.shape = "matches" -> kind = "string"
    [] a.shape = "in" ->
         \/ kind = "string" /\ Members(a.list) \subseteq Texts
         \/ kind \in {"int32", "int64", "double", "enum"} /\ Members(a.list) \intersect Texts = {}
    [] a.shape = "size" -> kind \in {"string", "bytes", "list", "map"}
    [] a.shape = "number" -> kind \in {"int32", "int64", "double"}
    [] a.shape = "opaque" -> TRUE

RulesTyped(t) ==
  \A l \in DOMAIN Layers(t) : \A a \in LayerAtoms(t, l) : AtomTyped(LayerKind(t, l), a)

\* No bound on a number that JSON writes as a string, nor on the size of bytes;
\* no rule on the entries of a map.
Binding(t) ==
  /\ \A l \in DOMAIN Layers(t) : \A a \in LayerAtoms(t, l) :
       <<LayerKind(t, l), a.shape>> \notin {<<"int64", "number">>, <<"bytes", "size">>}
  /\ t.container = "map" => t.aliases = <<>>

\* || never beside &&, nor between two lists; no list of numbers for a type
\* whose JSON is a string.
Plain(t) ==
  \A l \in DOMAIN Layers(t) : \A i \in DOMAIN Layers(t)[l] :
    LET r == Layers(t)[l][i]
    IN /\ \A k \in DOMAIN r : Len(r[k]) > 1 =>
            Len(r) = 1 /\ \E j \in DOMAIN r[k] : r[k][j].shape # "in"
       /\ \A a \in AtomsOf(r) : a.shape = "in" => Comparable(LayerKind(t, l))

-----------------------------------------------------------------------------
(* Properties. *)

TypeOK ==
  /\ target \in Target
  /\ layer \in DOMAIN Layers(target) /\ rule \in Nat /\ piece \in Nat
  /\ mapped \in [DOMAIN Layers(target) -> Constraints]
  /\ stage \in {"map", "done"} /\ null \in BOOLEAN

\* "So no constraint silently disappears at the boundary", of the fields whose
\* rules bind (Binding): no bound on a 64-bit integer, no size of bytes, no alias
\* on a map.  Whatever keywords the rules were folded into, and whichever were
\* taken, a value the schema and the x-validation entries accept is one the rules
\* accept.  NoRuleDropped is the same without Binding, and fails.
NothingDisappears ==
  stage = "done" /\ RulesTyped(target) /\ Binding(target) =>
    \A v \in Values : SchemaAccepts(v) => RulesHold(target, v)

\* No keyword refuses a value the rules accept.
NeverNarrower ==
  stage = "done" /\ RulesTyped(target) /\ Binding(target) /\ Plain(target) =>
    \A v \in Values : RulesHold(target, v) => SchemaAccepts(v)

\* A field that is no list or map takes null in JSON exactly where PXF takes it,
\* whatever its rules and aliases; but for one without an alias whose schema got
\* an enum, which refuses null, and a wrapper that is required, which takes it.
NullExactly ==
  /\ stage = "done" /\ target.container = "one"
  /\ target.boxed => ~target.required
  /\ target.aliases = <<>> => mapped[1].enum = {}
  => (AcceptsNull <=> target.presence /\ ~target.required)

\* The same promise for every typed rule, bounds on 64-bit integers included.
NoRuleDropped ==
  stage = "done" /\ RulesTyped(target) =>
    \A v \in Values : SchemaAccepts(v) => RulesHold(target, v)
=============================================================================
