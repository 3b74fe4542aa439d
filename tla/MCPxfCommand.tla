---------------------------- MODULE MCPxfCommand ----------------------------
(***************************************************************************)
(* Small runs of each command: files that format well, badly or not at     *)
(* all; directories that share import paths; documents that define types   *)
(* the schemas define too; queries over a message with every kind of field.*)
(***************************************************************************)
EXTENDS PxfCommand, TLC

-----------------------------------------------------------------------------
\* fmt
Says(comments, annotations, names) ==
  ("comment" :> comments) @@ ("annotation" :> annotations) @@ ("name" :> names)

Source(says, printed) ==
  [parses |-> TRUE, says |-> says, printed |-> printed, type |-> "none", keyed |-> "tidy"]

MCContent ==
  ("tidy" :> Source(Says(1, 1, 2), "tidy"))
  @@ ("ugly" :> Source(Says(1, 1, 2), "tidy"))
  @@ ("commented" :> Source(Says(2, 1, 2), "tidy"))
  @@ ("annotated" :> Source(Says(1, 2, 2), "tidy"))
  @@ ("garbled" :> Source(Says(1, 1, 2), "broken"))
  @@ ("crashes" :> Source(Says(1, 1, 2), None))
  @@ ("broken" :> [Source(Says(1, 1, 2), None) EXCEPT !.parses = FALSE])
  @@ ("typed" :> [Source(Says(0, 0, 3), "tidy") EXCEPT !.type = "found"])
  @@ ("untypable" :> [Source(Says(0, 0, 3), "tidy") EXCEPT !.type = "missing"])
  @@ ("torn" :> Source(Says(0, 0, 0), "torn"))

FileArg(f) == [missing |-> FALSE, dir |-> FALSE, files |-> <<f>>]
DirArg(fs) == [missing |-> FALSE, dir |-> TRUE, files |-> fs]

FmtArgs ==
  {<<FileArg("a.proto")>>, <<FileArg("c.pxf")>>, <<DirArg(<<"a.proto", "b.proto", "c.pxf">>)>>,
   <<FileArg("a.proto"), FileArg("b.proto")>>, <<DirArg(<<"a.proto", "b.proto">>), FileArg("a.proto")>>,
   <<DirArg(<<>>)>>, <<FileArg("a.proto"), [FileArg("b.proto") EXCEPT !.missing = TRUE]>>}

OnDisk ==
  {("a.proto" :> a) @@ ("b.proto" :> b) @@ ("c.pxf" :> c) :
     a, b \in {"tidy", "ugly", "commented", "annotated", "garbled", "crashes", "broken"},
     c \in {"typed", "untypable"}}

MCFmtRuns ==
  {[args |-> as, protos |-> {"a.proto", "b.proto"}, disk |-> d, unreadable |-> u, message |-> m,
    write |-> w, check |-> c] :
     as \in FmtArgs, d \in OnDisk, u \in {{}, {"b.proto"}}, m \in {"none", "found"}, w, c \in BOOLEAN}

-----------------------------------------------------------------------------
\* build: B is beneath P, and A, B and D have x.proto or y.proto in common.
MCTree ==
  ("A" :> (("x.proto" :> "A/x.proto") @@ ("y.proto" :> "A/y.proto")))
  @@ ("B" :> (("x.proto" :> "B/x.proto") @@ ("z.proto" :> "B/z.proto")))
  @@ ("P" :> ("b/z.proto" :> "B/z.proto"))
  @@ ("D" :> (("y.proto" :> "D/y.proto") @@ ("lib.proto" :> "D/lib.proto") @@ ("bad.proto" :> "D/bad.proto")))
  @@ ("E" :> <<>>)

MCImports ==
  ("A/y.proto" :> {"x.proto", "any.proto"}) @@ ("B/z.proto" :> {"lib.proto", "annotations.proto"})
  @@ ("D/lib.proto" :> {"any.proto"})

FileOf(root, p) == [root |-> root, path |-> p, bad |-> FALSE]
DirOf(root) == FileOf(root, None)

BuildArgs ==
  {DirOf("A"), DirOf("B"), DirOf("P"), DirOf("E"), FileOf("A", "x.proto"), FileOf("A", "y.proto"),
   FileOf("B", "z.proto"), FileOf("B", "x.proto"), [DirOf("nowhere") EXCEPT !.bad = TRUE]}

MCBuildRuns ==
  {[args |-> as, importRoots |-> is, libs |-> ls, check |-> c] :
     as \in {<<a>> : a \in BuildArgs} \union {<<a, b>> : a, b \in BuildArgs},
     is \in {<<>>, <<"D">>, <<"B", "D">>, <<"nowhere">>},
     ls \in {<<>>, <<"lib.proto">>, <<"bad.proto">>, None}, c \in BOOLEAN}

-----------------------------------------------------------------------------
\* documents: definitions of T and of U, which holds a T, and of a row type.
CONSTANTS T, U

MCExternal ==
  <<(T :> "T") @@ (U :> "U"), (T :> "T'") @@ (U :> "U'")>>

\* What the server publishes next has T in another file.
MCPathOf ==
  <<(T :> "t.proto") @@ (U :> "u.proto"), (T :> "moved.proto") @@ (U :> "u.proto")>>

MCReaches ==
  [d \in {"T", "T'", "T of the document", "row", "row'"} |-> {}]
  @@ ("U" :> {<<T, "T">>}) @@ ("U'" :> {<<T, "T'">>})
  @@ ("U of the document" :> {<<T, "T of the document">>})

Proto(n, d) == [kind |-> "proto", defines |-> n :> d]
Anonym(d) == [kind |-> "anonymous", defines |-> d]
Dataset(n, as) == [kind |-> "dataset", type |-> n, anys |-> as]

Definitions ==
  {<<>>, <<Proto(T, "T of the document")>>, <<Proto(T, "T")>>,
   <<Proto(T, "T of the document"), Proto(U, "U of the document")>>}

Rows ==
  {<<>>, <<Dataset(U, {})>>, <<Dataset(T, {U})>>}
  \union UNION {[1..n -> {Anonym("row"), Anonym("row'"), Dataset(None, {T})}] : n \in 1..3}
  \union {<<Anonym("row"), Anonym("row'"), Dataset(T, {}), Dataset(None, {}), Dataset(None, {})>>}

MCDocRuns ==
  {[command |-> c, message |-> m, type |-> t, directives |-> ds \o rs, anys |-> as, server |-> TRUE] :
     c \in {"encode", "validate"}, m, t \in {None, T, U}, ds \in Definitions, rs \in Rows,
     as \in {<<>>, <<T>>, <<U, T>>}}

-----------------------------------------------------------------------------
\* queries
Field(of, many) == [of |-> of, many |-> many]

MCFields ==
  ("Order" :> (("qty" :> Field(None, "one")) @@ ("buyer" :> Field("Person", "one"))
               @@ ("items" :> Field("Item", "list")) @@ ("labels" :> Field("LabelsEntry", "map"))
               @@ ("payload" :> Field("Any", "one"))))
  @@ ("Person" :> (("name" :> Field(None, "one")) @@ ("buyer" :> Field("Person", "one"))))
  @@ ("Item" :> ("sku" :> Field(None, "one")))
  @@ ("LabelsEntry" :> (("key" :> Field(None, "one")) @@ ("value" :> Field(None, "one"))))
  @@ ("Any" :> (("type_url" :> Field(None, "one")) @@ ("value" :> Field(None, "one"))))

Node(is, named) == [is |-> is, type |-> None, at |-> named, items |-> {}]
Scalar == Node("scalar", <<>>)
Message(m, named) == [Node("message", named) EXCEPT !.type = m]

Newborn == Message("Person", "name" :> Scalar)
Child == Message("Person", ("name" :> Scalar) @@ ("buyer" :> Newborn))
Adult == Message("Person", ("name" :> Scalar) @@ ("buyer" :> Child))
Product == Message("Item", "sku" :> Scalar)
Stock == [Node("list", <<>>) EXCEPT !.items = {Product}]
Labels == Node("map", ("typo" :> Scalar) @@ ("key" :> Scalar))
Payload == Node("any", ("name" :> Scalar) @@ ("type" :> Scalar) @@ ("buyer" :> Newborn))

MCBody ==
  Message("Order", ("qty" :> Scalar) @@ ("buyer" :> Adult) @@ ("items" :> Stock)
                   @@ ("labels" :> Labels) @@ ("payload" :> Payload))

MCNodes == {Scalar, Newborn, Child, Adult, Product, Stock, Labels, Payload, MCBody}

MCBodies == [m \in DOMAIN MCFields |-> IF m = "Order" THEN {MCBody} ELSE {}]

Suffixes == {"qty", "buyer", "name", "items", "sku", "labels", "payload", "typo", Iterate}

MCPaths == UNION {[1..n -> Suffixes] : n \in 1..3}

Query(stages, outcome) ==
  [query |-> stages, flags |-> {}, sets |-> "Order", refused |-> FALSE, loads |-> TRUE, parses |-> TRUE,
   compiles |-> TRUE, results |-> outcome, unprintable |-> 0]

Some == {Dynamic, <<>>, <<"qty">>, <<"buyer">>, <<"buyer", "name">>, <<"name">>, <<"typo">>, <<"labels", "typo">>}

MCQueryRuns ==
  {Query(<<<<p>>>>, <<"value">>) : p \in MCPaths}
  \union {Query(<<<<p, q>>>>, <<"value", "value">>) : p, q \in Some}
  \union {Query(<<<<p>>, <<q>>>>, <<"value">>) : p, q \in Some}
  \union {[Query(<<<<p>>>>, r) EXCEPT !.flags = fs, !.sets = s, !.compiles = c, !.unprintable = u] :
            p \in {<<"qty">>, <<"typo">>, Dynamic}, fs \in SUBSET {"strict", "loose"}, s \in {"Order", None},
            c \in BOOLEAN, u \in 0..2,
            r \in {<<>>, <<"value", "null", "value">>, <<"value", "error">>, <<"error">>}}
  \union {[Query(<<<<Dynamic>>>>, <<"value">>) EXCEPT !.refused = a, !.loads = b, !.parses = c] : a, b, c \in BOOLEAN}
=============================================================================
