---------------------------- MODULE DocumentRun ----------------------------
(***************************************************************************)
(* One run of pxf encode or pxf validate on a document: which definitions  *)
(* its body, its Any blocks and its dataset rows are decoded with, when    *)
(* the chain of schemas is resolved, and how anonymous @proto directives   *)
(* bind to datasets.  What one resolution does is SchemaRegistry; here it  *)
(* is an answer for every name, and a registry server may publish between  *)
(* two of them.                                                            *)
(***************************************************************************)
EXTENDS CommandLine

CONSTANTS
  DocRuns,
  External,    \* External[v]: what each name is without the document, at version v
  PathOf,      \* PathOf[v]: the file each of them is declared in
  Reaches,     \* Reaches[d]: the <<name, definition>> pairs a definition is bound to
  LastVersion

\* directives, in document order: a "proto" defines names, an "anonymous" one
\* a row type, a "dataset" has a type or None, and the Any types of its cells.
\* anys are the Any types of the body, in order.
DocFields == {"command", "message", "type", "directives", "anys", "server"}

Versions == 1..LastVersion

ASSUME DocAssumption ==
  /\ LastVersion \in Nat \ {0}
  /\ \A v \in Versions : IsFiniteSet(DOMAIN External[v])
  /\ \A r \in DocRuns :
       /\ DOMAIN r = DocFields
       /\ r.command \in {"encode", "validate"}
       /\ r.directives \in Seq(Named(r.directives))
       /\ \A i, j \in DOMAIN r.directives :
            i # j /\ r.directives[i].kind = "proto" /\ r.directives[j].kind = "proto" =>
              DOMAIN r.directives[i].defines \intersect DOMAIN r.directives[j].defines = {}

VARIABLES
  docInput,
  docStage,
  version,      \* what the registry server has
  chain,        \* sch: the chain with the document's directives, Unresolved before
  lazy,         \* the chain of lazyResolver
  uses,         \* what was decoded, and with which definition
  lines,        \* the warnings printed: the name and the file of what was replaced
  next,         \* the directive or Any of this iteration
  pending,      \* anonymous directives not bound yet
  bound         \* the anonymous directive of each typeless dataset

docVars == <<docInput, docStage, version, chain, lazy, uses, lines, next, pending, bound>>

-----------------------------------------------------------------------------
Directive(i) == docInput.directives[i]
OfKind(kind) == {i \in DOMAIN docInput.directives : Directive(i).kind = kind}
Typeless == {i \in OfKind("dataset") : Directive(i).type = None}

\* The definitions of the named, source and descriptor directives.
Own ==
  [n \in UNION {DOMAIN Directive(i).defines : i \in OfKind("proto")} |->
     LET i == CHOOSE i \in OfKind("proto") : n \in DOMAIN Directive(i).defines
     IN Directive(i).defines[n]]

\* The name resolveAnonymousProtos makes up for a dataset's row type.
Anonymous(i) == <<"_pxq_anon", i>>

\* Datasets are looked up with their anonymous directives among the document's.
OwnRows ==
  [n \in DOMAIN Own \union {Anonymous(i) : i \in DOMAIN bound} |->
     IF n \in DOMAIN Own THEN Own[n] ELSE Directive(bound[n[2]]).defines]

Find(s, n) ==
  IF n \in DOMAIN s.own THEN s.own[n]
  ELSE IF n \in DOMAIN External[s.version] THEN External[s.version][n] ELSE None

\* Registry.Check: d reaches a definition the document contradicts.
Refuses(s, d) == \E r \in Reaches[d] : r[1] \in DOMAIN s.own /\ r[2] # s.own[r[1]]

\* shadow: the external definitions that the document's own differ from.
Replaced(s) ==
  {n \in DOMAIN s.own \intersect DOMAIN External[s.version] : s.own[n] # External[s.version][n]}

\* The text of a warning has the name and the file in it.
Warnings(s) == {<<n, PathOf[s.version][n]>> : n \in Replaced(s)}

\* printWarnings: each text once per process, in no order one may rely on.
PrintWarnings(s) ==
  LET new == Warnings(s) \ Named(lines)
  IN \E order \in [1..Cardinality(new) -> new] :
       /\ \A w \in new : \E i \in DOMAIN order : order[i] = w
       /\ lines' = lines \o order

\* No resolution: no server has a version 0.
Unresolved == [version |-> 0, own |-> <<>>]

Resolution(own) == [version |-> version, own |-> own]

Use(what, n, s) == [what |-> what, name |-> n, def |-> Find(s, n), version |-> s.version]

Decodable(s, n) == Find(s, n) # None /\ ~Refuses(s, Find(s, n))

-----------------------------------------------------------------------------
DocIdle ==
  /\ docInput = None /\ docStage = None /\ version = 1
  /\ chain = Unresolved /\ lazy = Unresolved
  /\ uses = {} /\ lines = <<>>
  /\ next = 1 /\ pending = <<>> /\ bound = <<>>

DocInit ==
  /\ docInput \in DocRuns
  /\ docStage = "start" /\ version = 1
  /\ chain = Unresolved /\ lazy = Unresolved
  /\ uses = {} /\ lines = <<>>
  /\ next = 1 /\ pending = <<>> /\ bound = <<>>

DocFails ==
  /\ docStage' = "error"
  /\ UNCHANGED <<docInput, version, chain, lazy, uses, lines, next, pending, bound>>

\* The server publishes while the command runs.
Publish ==
  /\ docStage \notin Ended \union {None} /\ docInput.server /\ version < LastVersion
  /\ version' = version + 1
  /\ UNCHANGED <<docInput, docStage, chain, lazy, uses, lines, next, pending, bound>>

\* encode needs -m; validate refuses an anonymous directive beside a body that
\* names its type, before anything is resolved.
DocStart ==
  /\ docStage = "start"
  /\ IF \/ docInput.command = "encode" /\ docInput.message = None
        \/ docInput.command = "validate" /\ docInput.type # None /\ OfKind("anonymous") # {}
     THEN DocFails
     ELSE /\ docStage' = "schema"
          /\ UNCHANGED <<docInput, version, chain, lazy, uses, lines, next, pending, bound>>

\* documentSchema, which resolves nothing for a document without directives.
DocumentSchema ==
  /\ docStage = "schema"
  /\ IF OfKind("proto") = {} THEN UNCHANGED <<chain, lines>>
     ELSE chain' = Resolution(Own) /\ PrintWarnings(Resolution(Own))
  /\ docStage' = "root"
  /\ UNCHANGED <<docInput, version, lazy, uses, next, pending, bound>>

\* validateDescriptor: a body whose @type the document defines is of that type.
RootName ==
  IF /\ docInput.command = "validate" /\ docInput.type # None
     /\ chain # Unresolved /\ docInput.type \in DOMAIN Own
  THEN docInput.type
  ELSE IF docInput.message # None \/ docInput.command = "encode" THEN docInput.message
  ELSE docInput.type

\* documentMessage: without a chain of the document the name is resolved in one
\* of its own, and not checked.
RootMessage ==
  /\ docStage = "root"
  /\ LET s == IF chain = Unresolved THEN Resolution(<<>>) ELSE chain
     IN IF \/ RootName = None \/ Find(s, RootName) = None
           \/ chain # Unresolved /\ Refuses(s, Find(s, RootName))
        THEN DocFails
        ELSE /\ uses' = {Use("root", RootName, s)}
             /\ docStage' = "body"
             /\ UNCHANGED <<docInput, version, chain, lazy, lines, next, pending, bound>>

\* A mutant: the resolver of Any types is not handed the document's chain.
LazyAlone == Resolution(<<>>)

\* withSchema: the document's chain, or one resolved at the first type URL.
LazyChain == IF lazy # Unresolved THEN lazy ELSE IF chain # Unresolved THEN chain ELSE Resolution(<<>>)

AnyBlock ==
  /\ docStage = "body" /\ next <= Len(docInput.anys)
  /\ LET n == docInput.anys[next]
     IN IF ~Decodable(LazyChain, n) THEN DocFails
        ELSE /\ lazy' = LazyChain
             /\ uses' = uses \union {Use("any", n, LazyChain)}
             /\ next' = next + 1
             /\ UNCHANGED <<docInput, docStage, version, chain, lines, pending, bound>>

\* validate binds the rows of a document that has any; encode and a document
\* without are done.
BodyDecoded ==
  /\ docStage = "body" /\ next > Len(docInput.anys)
  /\ docStage' = IF docInput.command = "validate" /\ OfKind("dataset") # {} THEN "bind" ELSE "ok"
  /\ next' = 1
  /\ UNCHANGED <<docInput, version, chain, lazy, uses, lines, pending, bound>>

\* A mutant: the latest anonymous directive is bound.
OldestLast == pending[Len(pending)]

\* The anonymous directive a typeless dataset consumes.
Oldest == pending[1]

\* resolveAnonymousProtos, a directive at a time in document order.
BindDirective ==
  /\ docStage = "bind" /\ next <= Len(docInput.directives)
  /\ IF next \in Typeless
     THEN IF pending = <<>> THEN docStage' = "unbound" /\ UNCHANGED <<pending, bound>>
          ELSE /\ bound' = [i \in DOMAIN bound \union {next} |-> IF i = next THEN Oldest ELSE bound[i]]
               /\ pending' = Tail(pending)
               /\ UNCHANGED docStage
     ELSE /\ pending' = IF next \in OfKind("anonymous") THEN Append(pending, next) ELSE pending
          /\ UNCHANGED <<docStage, bound>>
  /\ next' = next + 1
  /\ UNCHANGED <<docInput, version, chain, lazy, uses, lines>>

Bound ==
  /\ docStage = "bind" /\ next > Len(docInput.directives)
  /\ docStage' = IF pending = <<>> THEN "rows" ELSE "unbound"
  /\ next' = 1
  /\ UNCHANGED <<docInput, version, chain, lazy, uses, lines, pending, bound>>

\* validateDatasets resolves the chain once more, with every directive in it.
ResolveRows ==
  /\ docStage = "rows"
  /\ chain' = Resolution(OwnRows) /\ PrintWarnings(Resolution(OwnRows))
  /\ docStage' = "bindRows"
  /\ UNCHANGED <<docInput, version, lazy, uses, next, pending, bound>>

RowType(i) == IF i \in DOMAIN bound THEN Anonymous(i) ELSE Directive(i).type

\* A dataset: its row type, and the Any types of its cells.
BindRows ==
  /\ docStage = "bindRows" /\ next <= Len(docInput.directives)
  /\ IF next \notin OfKind("dataset") THEN UNCHANGED <<docStage, uses>>
     ELSE LET names == {RowType(next)} \union Directive(next).anys
          IN IF \A n \in names : Decodable(chain, n)
             THEN uses' = uses \union {Use("row", n, chain) : n \in names} /\ UNCHANGED docStage
             ELSE docStage' = "error" /\ UNCHANGED uses
  /\ next' = next + 1
  /\ UNCHANGED <<docInput, version, chain, lazy, lines, pending, bound>>

RowsDone ==
  /\ docStage = "bindRows" /\ next > Len(docInput.directives)
  /\ docStage' = "ok"
  /\ UNCHANGED <<docInput, version, chain, lazy, uses, lines, next, pending, bound>>

\* The chain is resolved here, and a registry is asked.
Resolves ==
  \/ docStage = "schema" /\ OfKind("proto") # {}
  \/ docStage = "root" /\ chain = Unresolved /\ RootName # None
  \/ docStage = "body" /\ chain = Unresolved /\ lazy = Unresolved /\ next <= Len(docInput.anys)
  \/ docStage = "rows"

\* A fetch fails.
Unreachable == Resolves /\ docInput.server /\ DocFails

DocNext == \/ DocStart \/ DocumentSchema \/ RootMessage \/ AnyBlock \/ BodyDecoded
           \/ BindDirective \/ Bound \/ ResolveRows \/ BindRows \/ RowsDone
           \/ Publish \/ Unreachable

DocSpec == DocInit /\ [][DocNext]_docVars

-----------------------------------------------------------------------------
DocTypeOK ==
  docStage # None =>
    /\ DOMAIN docInput = DocFields
    /\ docStage \in {"start", "schema", "root", "body", "bind", "rows", "bindRows", "unbound"}
                      \union Ended
    /\ version \in Versions
    /\ \A s \in {chain, lazy} \ {Unresolved} : s.version \in Versions
    /\ DOMAIN bound \subseteq Typeless

\* Whatever was decoded, body, Any block or row, was decoded with the document's
\* definition of its name when it has one, and never through a definition that
\* contradicts the document.
DocumentRules ==
  \A u \in uses :
    /\ u.name \in DOMAIN Own => u.def = Own[u.name]
    /\ \A r \in Reaches[u.def] : r[1] \in DOMAIN Own => r[2] = Own[r[1]]

\* A body and its Any blocks are read in one version of the schemas when the
\* document has directives, and so are its rows, always, among themselves.
OneResolution ==
  \A u, w \in uses :
    (u.what = "row" <=> w.what = "row") /\ (OfKind("proto") # {} \/ u.what = "row")
      => u.version = w.version

\* Each definition that the document replaced, where it was resolved, is warned
\* about with the file it was declared in, and no warning is printed twice.
WarnedOf ==
  /\ \A u \in uses :
       /\ u.name \in DOMAIN Own
       /\ u.name \in DOMAIN External[u.version] /\ External[u.version][u.name] # u.def
       => <<u.name, PathOf[u.version][u.name]>> \in Named(lines)
  /\ \A i, j \in DOMAIN lines : lines[i] = lines[j] => i = j

(***************************************************************************)
(* main.go:146-160 and 221-243: whichever of the three resolvers is asked, *)
(* a document that defines types is read with its own definitions and      *)
(* nothing that contradicts them, its body and its Any blocks in one       *)
(* version of the schemas, its rows in one, and what it replaced is warned *)
(* about once.  The rows may be of a later version than the body: validate *)
(* resolves the chain again for them.  A document that defines none is     *)
(* resolved for its root and again at its first type URL, so its body and  *)
(* its Any blocks may be of two versions.                                  *)
(***************************************************************************)
DecodesAsDeclared == docStage # None => DocumentRules /\ OneResolution /\ WarnedOf

\* The k-th typeless dataset with the k-th anonymous directive, which comes
\* before it.
Matchings ==
  {m \in [Typeless -> OfKind("anonymous")] :
     /\ \A t \in Typeless : m[t] < t
     /\ \A t, u \in Typeless : t < u => m[t] < m[u]
     /\ \A a \in OfKind("anonymous") : \E t \in Typeless : m[t] = a}

(***************************************************************************)
(* schema.go:256-260, of the datasets that validate reads: the k-th        *)
(* typeless one is of the k-th anonymous directive's type, which comes     *)
(* before it; where that can not be the document is refused for it, and    *)
(* only there.  Nothing is said of encode, nor of a document without a     *)
(* dataset: neither binds, and an anonymous directive may be left over.    *)
(***************************************************************************)
RowsBound ==
  docStage # None =>
    /\ docStage = "unbound" => Matchings = {}
    /\ \/ docStage \in {"rows", "bindRows"}
       \/ docStage = "ok" /\ docInput.command = "validate" /\ OfKind("dataset") # {}
       => bound \in Matchings
=============================================================================
