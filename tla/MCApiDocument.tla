--------------------------- MODULE MCApiDocument ---------------------------
(***************************************************************************)
(* Small APIs for ApiDocument: schemas that refer to one another in cycles *)
(* and at all ranks; requests whose fields are bound at every depth; and   *)
(* operations that compete for ids and paths.                              *)
(***************************************************************************)
EXTENDS ApiDocument, TLC

MCType == {"Q", "C", "A", "B", "E", "L", "Stamp", "Report"}
MCMethod == {"m1", "m2"}
MCService == {"s1", "s2"}
MCName == {"id", "c", "d", "x"}
MCId == {"s_m1", "s_m2", "other"}

F(n, kind, to) == [name |-> n, kind |-> kind, to |-> to, label |-> "one",
                   chain |-> <<>>, sensitive |-> FALSE]

Message(fields) == [kind |-> "message", generated |-> FALSE, base |-> None,
                    fields |-> fields, sensitive |-> FALSE]

Alias(base) == [Message({}) EXCEPT !.kind = "alias", !.base = base]

Library == [Message({}) EXCEPT !.generated = TRUE]

GetById(m) == [method |-> m, verb |-> "GET", path |-> [template |-> "/q/{id}", pattern |-> ""],
               id |-> None, params |-> <<<<"id">>>>, security |-> {}]

Post(m) == [GetById(m) EXCEPT !.verb = "POST", !.params = <<>>]

\* Q holds a C or a list of them, an alias of an alias, and a library's enum.
Schema ==
  ("Q" :> Message({F("id", "value", None), F("c", "message", "C"),
                   [F("d", "value", None) EXCEPT !.chain = <<"A", "B">>]}))
  @@ ("C" :> Message({F("x", "value", None), F("d", "enum", "E")}))
  @@ ("A" :> Alias(None)) @@ ("B" :> Alias("A"))
  @@ ("E" :> [Library EXCEPT !.kind = "enum"])
  @@ ("L" :> Library) @@ ("Report" :> None)
  @@ ("Stamp" :> [Library EXCEPT !.fields = {F("x", "value", None), F("id", "value", None)}])

Api(image, uses) ==
  [image |-> image, uses |-> uses,
   methods |-> [m \in MCMethod |-> [service |-> IF m = "m1" THEN "s1" ELSE "s2", input |-> "Q", output |-> None]],
   derived |-> ("m1" :> "s_m1") @@ ("m2" :> "s_m2"),
   globs |-> [e \in Element |-> 1], topics |-> {}, tier |-> 1,
   schemes |-> {"bearer"}, history |-> None]

With(api, globs, pack, tier) == [api EXCEPT !.globs = globs @@ @, !.topics = pack, !.tier = tier]

Topic(e, r) == [anchor |-> e, rank |-> r]

\* Every rank of the method, its request and what that leads to, from
\* globs or topics, at two tiers.
Audiences ==
  {With(Api(Schema, <<Post("m1")>>),
        ("m1" :> g1) @@ ("Q" :> g2) @@ ("C" :> g3) @@ ("A" :> g4) @@ ("s1" :> g5),
        pack, tier) :
     g1, g2, g3, g4, g5 \in {1, 2}, tier \in {1, 2},
     pack \in {{}, {Topic("B", 2)}, {Topic("A", 2), Topic("B", 2), Topic("Q", 2), Topic("m1", 2)},
                 {Topic("C", 1), Topic("C", 3)}}}

\* Cycles, aliases of messages, types an image leaves out, and a type of
\* Google's that is kept from the audience to no effect.
Closures ==
  {[Api([Schema EXCEPT
           !["Q"] = Message({F("id", "value", None), F("c", "message", "C"),
                             [F("d", IF base = None THEN "value" ELSE "message", base) EXCEPT !.chain = <<"A", "B">>]}),
           !["C"] = Message({F("c", "message", to), f}), !["A"] = Alias(base), !["L"] = lib],
        uses) EXCEPT !.methods["m1"].output = out, !.globs["L"] = rank] :
     rank \in {1, 2}, to \in {"Q", "C"}, f \in {F("x", "value", None), [F("d", "message", "L") EXCEPT !.label = "map"]},
     base \in {None, "L", "Stamp", "Q"}, lib \in {None, Library}, out \in {None, "L", "C"},
     uses \in {<<Post("m1")>>, <<>>}}

\* Every way to bind up to two paths of a request, some of them unbindable.
Nested(inner, marks) ==
  LET mark(t, m) == [m EXCEPT !.sensitive = t \in marks]
      field(n, f) == [f EXCEPT !.sensitive = n \in marks]
  IN  [Schema EXCEPT
        !["Q"] = mark("Q", Message({F("id", "value", None), field("c", F("c", "message", "C"))})),
        !["C"] = mark("C", Message({field("x", F("x", "value", None)), F("d", inner[1], inner[2]),
                                    [F("id", "value", None) EXCEPT !.label = "repeated"]})),
        !["L"] = mark("L", [Library EXCEPT !.fields = {F("x", "value", None), F("id", "enum", "E")}])]

Bound == {<<"id">>, <<"c">>, <<"c", "x">>, <<"c", "id">>, <<"c", "d">>, <<"c", "d", "x">>, <<"c", "d", "id">>, <<"d">>}

Flattenings ==
  {Api(Nested(inner, marks), <<[GetById("m1") EXCEPT !.verb = verb, !.params = params]>>) :
     inner \in {<<"value", None>>, <<"message", "Stamp">>, <<"message", "L">>, <<"message", "C">>, <<"message", "Q">>},
     marks \in {{}, {"Q"}, {"C"}, {"L"}, {"c"}, {"x"}}, verb \in {"GET", "POST"},
     params \in {<<>>} \union {<<p>> : p \in Bound} \union {<<p, q>> : p, q \in Bound}}

ById == [Schema EXCEPT !["Q"] = Message({F("id", "value", None)})]

SomeHistory == {[version |-> 1, has |-> {"m2"}], [version |-> 2, has |-> {"m1", "m2"}],
                [version |-> 3, has |-> {"m1"}]}

\* Two uses, of one method or of two: their ids, paths, verbs and audiences.
Operations ==
  {[With(Api(ById,
             <<[GetById("m1") EXCEPT !.id = i1],
               [GetById(m) EXCEPT !.id = i2, !.verb = verb, !.path = path, !.security = security]>>),
         ("m2" :> g), {}, 1) EXCEPT !.history = history] :
     i1, i2 \in {None, "s_m1", "other"}, m \in MCMethod, g \in {1, 2},
     verb \in {"GET", "DELETE", "LIST"},
     path \in {[template |-> "/q/{id}", pattern |-> p] : p \in {"", "q/*"}},
     security \in {{}, {"bearer"}, {"unknown"}},
     history \in {None, SomeHistory}}

MCRuns == Audiences \union Closures \union Flattenings \union Operations
=============================================================================
