--------------------------- MODULE MCRuleMapping ---------------------------
(***************************************************************************)
(* Small fields for RuleMapping: every pair of pieces, in one rule, in two *)
(* rules, or one of them an alias's; with the kinds, containers and        *)
(* presences that change what a piece is mapped to.                        *)
(***************************************************************************)
EXTENDS RuleMapping

MCFacts == {"re", "re2", "odd"}
MCTexts == {"a", "b"}
MCLiterals == MCTexts \union {"n1", "n2"}

\* What a value is, what it measures and what it satisfies vary independently;
\* a size stands for a number of the same magnitude.
Scalars ==
  {[literal |-> l, size |-> n, number |-> n, facts |-> f, items |-> {}] :
     l \in {"a", "b", "n1"}, n \in 0..3, f \in {{}, {"re"}, {"re", "re2"}, {"odd"}}}

Elements == {s \in Scalars : s.literal = "a" /\ s.size \in 1..2}

MCValues ==
  Scalars \union {[s EXCEPT !.items = {e, f}] : s \in Elements, e \in Elements, f \in Elements}

-----------------------------------------------------------------------------
On(shape, op, n) == [shape |-> shape, op |-> op, bound |-> n, plain |-> TRUE]
Matches(f) == [shape |-> "matches", fact |-> f, plain |-> TRUE]
Among(list) == [shape |-> "in", list |-> list, plain |-> TRUE]
Odd == [shape |-> "opaque", fact |-> "odd", plain |-> TRUE]

Sizes == {On("size", op, 2) : op \in {"<", "<=", ">", ">=", "==", "!="}} \union {On("size", "==", 1)}
Numbers == {On("number", op, 2) : op \in {"<", "<=", ">", ">=", "==", "!="}} \union {On("number", "<", 1)}
Names == {Among(<<"a">>), Among(<<"b", "a">>)}
Codes == {Among(<<"n1">>), Among(<<"n2", "n1">>)}
Lists(kind) == IF kind = "string" THEN Names ELSE Codes
Patterns == {Matches("re"), Matches("re2")}

\* What the mapper reads of each kind, and what it does not.
Atoms(kind) ==
  (CASE kind = "string" -> Patterns \union Names \union Sizes
     [] kind \in {"int32", "int64", "double"} -> Numbers \union Codes
     [] kind = "enum" -> Codes
     [] kind \in {"bytes", "list", "map"} -> Sizes
     [] kind = "message" -> {})
  \union {Odd}

Unread(kind) == {[a EXCEPT !.plain = FALSE] : a \in Atoms(kind)}

Singles(kind) == {<<a>> : a \in Atoms(kind)}
Either(kind) == {<<a, b>> : a \in Atoms(kind), b \in Atoms(kind)}

Field(kind, aliases, own) ==
  [container |-> "one", kind |-> kind, boxed |-> FALSE, aliases |-> aliases, own |-> own,
   presence |-> FALSE, required |-> FALSE]

Kinds == {"string", "int32", "int64", "double", "bytes", "enum", "message"}

\* One rule of two pieces, two rules, an alias and the field, two aliases.
Pairs ==
  UNION {{Field(kind, <<>>, <<<<p, q>>>>) : p \in Singles(kind), q \in Singles(kind)} :
           kind \in Kinds}
  \union
  UNION {UNION {{Field(kind, <<>>, <<<<p>>, <<q>>>>), Field(kind, <<<<<<p>>>>>>, <<<<q>>>>),
                 Field(kind, <<<<<<p>>>>, <<<<q>>>>>>, <<>>)} :
                  p \in Singles(kind), q \in Singles(kind)} :
           kind \in {"string", "int32", "bytes"}}

\* || alone, and beside &&.
Alternatives ==
  UNION {{Field(kind, <<>>, <<<<p>>>>) : p \in Either(kind)} : kind \in {"string", "int32"}}
  \union
  {Field("string", <<>>, <<<<p, q, r>>>>) :
     p \in {<<Matches("re")>>, <<On("size", ">=", 1)>>, <<Odd, Matches("re")>>},
     q \in Either("string") \union Singles("string"),
     r \in {<<Odd>>, <<Odd, Among(<<"a">>)>>}}

UnreadRules ==
  UNION {{Field(kind, <<>>, <<<<<<a>>, <<b>>>>>>) : a \in Unread(kind), b \in Atoms(kind)} :
           kind \in {"string", "int32"}}

\* Rules of the elements and of the whole.
Containers ==
  {[Field("string", aliases, <<<<p, q>>>>) EXCEPT !.container = c] :
     c \in {"list", "map"}, p \in Singles("list"), q \in Singles("list"),
     aliases \in {<<>>} \union {<<<<<<a>>>>>> : a \in Singles("string")}}

\* What decides on null.
Presences ==
  UNION {{[Field(kind, aliases, own) EXCEPT !.presence = pb[1], !.boxed = pb[2], !.required = req] :
            req \in BOOLEAN, pb \in {<<FALSE, FALSE>>, <<TRUE, FALSE>>, <<TRUE, TRUE>>},
            aliases \in {<<>>, <<<<>>>>} \union {<<<<<<<<a>>>>>>>> : a \in Lists(kind) \union {Odd}},
            own \in {<<>>} \union {<<<<<<a>>>>>> : a \in Lists(kind) \union {Odd}}} :
           kind \in {"string", "int32"}}
  \union
  {[Field(kind, <<>>, own) EXCEPT !.presence = (kind = "message") \/ p, !.required = req] :
     kind \in {"enum", "message"}, p \in BOOLEAN, req \in BOOLEAN,
     own \in {<<>>, <<<<<<Odd>>>>>>}}

\* What is bounded by number, of every width.
WideTargets == {t \in Pairs : t.kind \in {"int32", "int64", "double"}}

MCTargets == Pairs \union Alternatives \union UnreadRules \union Containers \union Presences
=============================================================================
