----------------------------- MODULE MCDocPack -----------------------------
(***************************************************************************)
(* Small corpora for DocPack, one family for each kind of thing that can   *)
(* be wrong with one: its navigation, redirects, audiences, reviews,       *)
(* translations, links, headings and coverage.                             *)
(***************************************************************************)
EXTENDS DocPack, TLC

MCKey == {"a", "b", "c"}
MCId == MCKey \union {"old", "S1", "S2", "S3", "P1", "V", "W", "W#text", "W#slot", "transition:x", "/r", "/q"}
MCFragment == {"intro", "more"}
MCPerson == {"ann", "bob"}

MCBodyOf ==
  LET body(hs, ls, as) == [sound |-> TRUE, headings |-> hs, links |-> ls, anchors |-> as]
      h(level, id) == [level |-> level, id |-> id]
  IN  ("plain" :> body(<<>>, {}, {}))
      @@ ("edited" :> body(<<h(1, "intro"), h(2, "more")>>, {}, {}))
      @@ ("unsound" :> [body(<<>>, {}, {}) EXCEPT !.sound = FALSE])
      @@ ("deep" :> body(<<h(2, "intro")>>, {}, {}))
      @@ ("skips" :> body(<<h(1, "intro"), h(3, "more")>>, {}, {}))
      @@ ("twice" :> body(<<h(1, "intro"), h(1, "intro")>>, {}, {}))
      @@ ("linksB" :> body(<<>>, {[key |-> "b", fragment |-> None]}, {}))
      @@ ("linksIntro" :> body(<<>>, {[key |-> "b", fragment |-> "intro"]}, {}))
      @@ ("routes" :> body(<<>>, {}, {[kind |-> "route", id |-> "/r"]}))
      @@ ("malformed" :> body(<<>>, {}, {[kind |-> "route", id |-> None]}))

MCContent == DOMAIN MCBodyOf

A(kind, id) == [kind |-> kind, id |-> id]

R(kind, from, to) == [from |-> A(kind, from), to |-> A(kind, to)]

Approval(c) == [state |-> "approved", author |-> "ann", revisor |-> "bob", digest |-> c]

T(k, l, c) ==
  [key |-> k, locale |-> l, content |-> c, sound |-> TRUE, audience |-> 1,
   parent |-> None, successor |-> None, anchors |-> {}, review |-> Approval(c),
   translation |-> IF l = "en" THEN None ELSE "plain"]

MCImage == [names |-> {"S1", "S2", "S3", "P1"}, paths |-> {"P1"}, methods |-> {"S1"}]

MCCatalog == [widgets |-> {"W"}, members |-> {"W#text"}, common |-> {"W#slot"},
              transitions |-> {"transition:x"}]

Compile(ts) ==
  [topics |-> ts, redirects |-> <<>>, parses |-> TRUE, image |-> None, catalog |-> None,
   release |-> FALSE, coverage |-> None, coverageApproved |-> FALSE, staleFatal |-> FALSE]

\* Every way three topics, or two and a translation, can name parents.
Navigations ==
  {Compile(<<[T("a", "en", "plain") EXCEPT !.parent = p], [T("b", "en", "plain") EXCEPT !.parent = q],
             [T("c", "en", "plain") EXCEPT !.parent = r]>>) : p, q, r \in MCKey \union {None}}
  \union
  {Compile(<<[T("a", "de", "plain") EXCEPT !.parent = p], [T("b", "de", "plain") EXCEPT !.parent = q],
             [T("a", "en", "plain") EXCEPT !.parent = r], T("b", "en", "plain")>>) :
     p, q, r \in {"a", "b", None}}

SomeRedirects == {R("schema", "S1", "S2"), R("schema", "S2", "S3"), R("schema", "S3", "S1"),
                  R("schema", "S1", "S3"), R("schema", "S2", "S2"), R("route", "/r", "/q"), R("route", "/q", "/r"),
                  [from |-> A("schema", "S2"), to |-> A("widget", "W")],
                  [from |-> None, to |-> A("schema", "S2")]}

\* Chains, cycles and faulty redirects, with every target still there or only the last.
Renames ==
  {[Compile(<<[T("a", "en", "routes") EXCEPT !.anchors = {A("schema", "S1"), A("schema", "S2")}]>>)
      EXCEPT !.redirects = rs, !.image = [MCImage EXCEPT !.names = names]] :
     rs \in UNION {[1..n -> SomeRedirects] : n \in 0..2} \union
            {<<R("schema", "S1", "S2"), R("schema", "S2", "S3"), r>> : r \in SomeRedirects},
     names \in {{"S1", "S2", "S3"}, {"S3"}}}

\* A topic anchored straight, or by the name it had before.
Audiences ==
  {[Compile(<<[T("a", "en", "plain") EXCEPT !.audience = x, !.anchors = {A("topic", k)}],
              [T("b", "en", "plain") EXCEPT !.audience = y]>>)
      EXCEPT !.redirects = <<R("topic", "old", "b")>>] :
     x, y \in {0, 1, 2, 5}, k \in {"b", "old", "c"}}
  \union
  {Compile(<<[T("a", "en", "linksB") EXCEPT !.audience = x], [T("b", "en", "plain") EXCEPT !.audience = y]>>) :
     x, y \in {1, 5}}

Reviews ==
  {[Compile(<<[T("a", "en", "plain") EXCEPT
                 !.review = [state |-> s, author |-> "ann", revisor |-> p, digest |-> d], !.audience = u]>>)
      EXCEPT !.release = release] :
     s \in {"unspecified", "draft", "approved"}, p \in MCPerson \union {None},
     d \in {"plain", "edited", None, Garbled}, u \in {0, 1}, release \in BOOLEAN}

Translations ==
  {[Compile(<<[T("a", "de", c) EXCEPT !.translation = d], T(k, "en", "edited")>>)
      EXCEPT !.staleFatal = fatal] :
     c \in {"plain", "edited"}, d \in {None, "undigested", Garbled, "plain", "edited"},
     k \in {"a", "b"}, fatal \in BOOLEAN}
  \union {Compile(<<[T("a", "en", "plain") EXCEPT !.translation = "plain"]>>)}

\* Links within and across locales, to headings there are and are not.
Links ==
  {Compile(<<T("a", "de", c), T("a", "en", "plain"), T("b", l, d), T("b", "en", "plain")>>) :
     c \in {"linksB", "linksIntro"}, d \in {"plain", "edited"}, l \in {"de", "en"}}
  \union
  {Compile(<<[T("a", "en", c) EXCEPT !.successor = s, !.sound = sound], T("b", "en", d)>>) :
     c \in MCContent, d \in {"plain", "edited"}, s \in {None, "b", "c"}, sound \in BOOLEAN}

Coverages ==
  {[Compile(<<[T("a", "en", "plain") EXCEPT !.anchors = as, !.audience = u,
                 !.review = [Approval("plain") EXCEPT !.state = s]],
              [T("b", "en", "plain") EXCEPT !.anchors = {A("widget", "W")}, !.audience = 5]>>)
      EXCEPT !.image = MCImage, !.catalog = MCCatalog, !.release = release,
             !.coverage = c, !.coverageApproved = approved] :
     as \in SUBSET {A("widget", "W"), A("widget", "W#text"), A("schema", "S1"), A("transition", "transition:x")},
     u \in {1, 5}, s \in {"draft", "approved"}, release, approved \in BOOLEAN,
     c \in {None, "widgets", "members"}}

Oddities ==
  {[Compile(ts) EXCEPT !.parses = parses, !.image = i, !.catalog = c] :
     ts \in {<<>>, <<T("a", "en", "plain"), T("a", "en", "edited")>>, <<[T("a", "en", "plain") EXCEPT !.key = None]>>,
             <<[T("a", "en", "plain") EXCEPT !.anchors =
                  {A("descriptor", "P1"), A("widget", "W#slot"), A("transition", "transition:x")}]>>},
     parses \in BOOLEAN, i \in {None, MCImage}, c \in {None, MCCatalog}}

\* A schema element and a topic of one spelling, of which one is renamed.
Homonyms ==
  {[Compile(<<[T("c", "en", "plain") EXCEPT !.anchors = {A(kind, "a")}], T("a", "en", "plain"), T("b", "en", "plain")>>)
      EXCEPT !.redirects = <<R(other, "a", "b")>>, !.image = [MCImage EXCEPT !.names = {"a", "b"}]] :
     kind, other \in {"schema", "topic"}}

\* Widgets and members the catalog has and has not, by their names and by former ones.
Widgets ==
  {[Compile(<<[T("a", "en", "plain") EXCEPT !.anchors = {A("widget", id)}]>>)
      EXCEPT !.redirects = rs, !.catalog = c] :
     id \in {"V", "W", "W#text", "W#slot"},
     rs \in {<<>>, <<R("widget", "V", "W")>>, <<R("widget", "W", "V")>>, <<R("widget", "V", "W"), R("widget", "W", "W#text")>>},
     c \in {None, MCCatalog, [MCCatalog EXCEPT !.widgets = {}]}}

MCInputs == Navigations \union Renames \union Audiences \union Reviews \union Translations
            \union Links \union Coverages \union Oddities \union Homonyms \union Widgets
=============================================================================
