---------------------------- MODULE ApiDocument ----------------------------
(***************************************************************************)
(* One run of pxf openapi: the audience closure is checked, each visible   *)
(* type becomes a component, recursively, and each @http use site becomes  *)
(* an operation whose request fields are bound to the path, the query or   *)
(* the body.  Schemas are abstracted to the types they refer to.           *)
(***************************************************************************)
EXTENDS Integers, Sequences, FiniteSets

CONSTANTS
  Type,         \* full names of messages, enums and type aliases
  Method, Service,
  Name,         \* of fields
  Id,           \* operation ids
  ReportTypes,  \* the closure of protowire.schema.v1.Report
  Google,       \* the types under google.protobuf.
  WellKnown,    \* of those, the ones with a JSON form of their own: wktSchema
  Runs,         \* what a generation may be given
  MaxDepth,     \* bounds the paths BoundOnce looks at
  None

Element == Type \union Method \union Service

Rank == 1..5    \* docpack's AudienceRank

Field == [name  : Name,
          kind  : {"value", "enum", "message"},  \* value: a scalar
          to    : Type \union {None},            \* its type, a map's value type
          label : {"one", "repeated", "map"},
          chain : Seq(Type),                     \* its aliases, most derived last; no map's
          sensitive : BOOLEAN]

Decl == [kind : {"message", "enum", "alias"},
         generated : BOOLEAN,                \* of a bundled library
         base : Type \union {None},          \* an alias's, None if a scalar
         fields : SUBSET Field,
         sensitive : BOOLEAN]

Use == [method   : Method,
        verb     : STRING,
        path     : [template : STRING, pattern : STRING],  \* pattern: its sub-path constraints
        id       : Id \union {None},
        params   : Seq(Seq(Name) \ {<<>>}),  \* templateParams: its segments' variables
        security : SUBSET STRING]

Run == [image   : [Type -> Decl \union {None}],  \* None where the image leaves a type out
        methods : [Method -> [service : Service, input : Type, output : Type \union {None}]],
        derived : [Method -> Id],            \* <Service>_<Method>, without the package
        uses    : Seq(Use),                  \* in order of declaration
        globs   : [Element -> Rank],         \* the first that matches, or public
        topics  : SUBSET [anchor : Element, rank : Rank],
        tier    : Rank,                      \* --audience
        schemes : SUBSET STRING,
        history : (SUBSET [version : Nat, has : SUBSET Element]) \union {None}]

ASSUME RunAssumption ==
  /\ Runs \subseteq Run
  /\ ReportTypes \subseteq Type /\ Google \subseteq Type /\ WellKnown \subseteq Google
  /\ Type \intersect Method = {} /\ None \notin Element \union Id
  /\ MaxDepth \in Nat

\* protobuf: the fields of a message have different names.
ASSUME FieldAssumption ==
  \A r \in Runs : \A t \in Type : r.image[t] # None =>
    \A f, g \in r.image[t].fields : f.name = g.name => f = g

Links(seq) == {seq[i] : i \in DOMAIN seq}

\* What the declaration of a type mentions.
Mentions(decl) == {decl.base} \union UNION {{f.to} \union Links(f.chain) : f \in decl.fields}

\* Bundled libraries do not import the schemas of their users; the report's
\* types and Google's are of one.
ASSUME LibraryAssumption ==
  \A r \in Runs : \A t \in Type :
    r.image[t] # None /\ (r.image[t].generated \/ t \in ReportTypes \union Google) =>
      /\ r.image[t].generated
      /\ \A s \in Mentions(r.image[t]) \ {None} : r.image[s] # None => r.image[s].generated

VARIABLES
  run,
  stage,
  topics,      \* of the pack, not contributed yet
  packTiers,   \* audienceIndex.packTiers, 0 for none
  stack,       \* the calls of component, each with the references left to it
  reserved,    \* the keys of schemaBuilder.out
  built,       \* those with a schema
  use,         \* the @http use site operation() is at
  segments,    \* the path variables to be resolved
  walk,        \* the messages to descend into
  placed,      \* parameters, body properties and inlined containers
  operations,  \* the uses rendered, with their ids
  document

schemas == <<stack, reserved, built>>
bindings == <<segments, walk, placed>>
vars == <<run, stage, topics, packTiers, schemas, use, bindings, operations, document>>

-----------------------------------------------------------------------------
(* The audience index. *)

RankOf(e) == IF packTiers[e] > run.globs[e] THEN packTiers[e] ELSE run.globs[e]

Included(e) == RankOf(e) <= run.tier

Image == {t \in Type : run.image[t] # None}

\* A mutant: the aliases of a field are taken for its type.
FieldEdgesTyped(f) == {f.to}

\* checkTransitive's edges of a field; a map's is its value's type.
FieldEdges(f) == {f.to} \union Links(f.chain)

MethodEdges(m) == {run.methods[m].input, run.methods[m].output}

TypeEdges(t) ==
  IF t \notin Image \/ run.image[t].generated THEN {}
  ELSE {run.image[t].base} \union UNION {FieldEdges(f) : f \in run.image[t].fields}

\* None leads to Google's types.

Edges(e) == (IF e \in Method THEN MethodEdges(e) ELSE TypeEdges(e)) \ ({None} \union Google)

Consistent == \A e \in Type \union Method : \A to \in Edges(e) : RankOf(to) <= RankOf(e)

MethodIncluded(m) == Included(run.methods[m].service) /\ Included(m)

-----------------------------------------------------------------------------
(* What a schema refers to. *)

\* A scalar and a well-known type are inlined.
Inlined == {None} \union WellKnown

\* A $ref to the most derived alias of a field, or to its type.
FieldRefs(f) ==
  IF f.chain # <<>> THEN {f.chain[Len(f.chain)]} ELSE {f.to} \ Inlined

References(t) ==
  ({run.image[t].base} \ Inlined) \union UNION {FieldRefs(f) : f \in run.image[t].fields}

SensitiveType(t) == t \in Image /\ run.image[t].sensitive

\* fieldSensitive: its own marker, an alias's, or its message type's.
FieldSensitive(f) ==
  \/ f.sensitive
  \/ \E a \in Links(f.chain) : SensitiveType(a)
  \/ f.kind = "message" /\ f.label # "map" /\ SensitiveType(f.to)

\* paramSchema: a message has no flat encoding, but for the well-known ones.
Unflat(f) == f.kind = "message" /\ f.label # "map" /\ f.to \notin WellKnown

\* The fields of a message, if the image has it.
FieldsIn(image, t) == IF t \in Type /\ image[t] # None THEN image[t].fields ELSE {}

FieldsOf(t) == FieldsIn(run.image, t)

-----------------------------------------------------------------------------
(* Generate, up to the operations. *)

Init ==
  /\ run \in Runs
  /\ stage = "pack"
  /\ topics = run.topics
  /\ packTiers = [e \in Element |-> 0]
  /\ stack = <<>> /\ reserved = {} /\ built = {}
  /\ use = 1
  /\ segments = {} /\ walk = {} /\ placed = {}
  /\ operations = {}
  /\ document = None

Refuse == stage' = "refused"

\* contribute, in the order of the pack's topics.
Contribute(topic) ==
  /\ stage = "pack" /\ topic \in topics
  /\ topics' = topics \ {topic}
  /\ packTiers' = IF topic.rank > packTiers[topic.anchor]
                  THEN [packTiers EXCEPT ![topic.anchor] = topic.rank] ELSE packTiers
  /\ UNCHANGED <<run, stage, schemas, use, bindings, operations, document>>

CheckTransitive ==
  /\ stage = "pack" /\ topics = {}
  /\ IF Consistent THEN stage' = "history" ELSE Refuse
  /\ UNCHANGED <<run, topics, packTiers, schemas, use, bindings, operations, document>>

\* buildAll's types: those of the author's files that pass the filter.
Roots == {t \in Image : ~run.image[t].generated /\ Included(t)}

\* The call of component below: of None, for whoever calls it first.
Call(caller, refs) == [of |-> caller, left |-> refs]

\* fetchHistory, when coordinates are configured; it may fail.
FetchHistory ==
  /\ stage = "history"
  /\ \/ /\ stage' = "schemas"
        /\ stack' = <<Call(None, Roots)>>
     \/ /\ run.history # None
        /\ Refuse
        /\ UNCHANGED stack
  /\ UNCHANGED <<run, topics, packTiers, reserved, built, use, bindings, operations, document>>

Calling == stage \in {"schemas", "rendering"} /\ stack # <<>>

Top == stack[Len(stack)]

\* The stack with reference t done.
Without(t) == [stack EXCEPT ![Len(stack)] = Call(Top.of, Top.left \ {t})]

\* component returns at once: the slot is taken.
Reuse(t) ==
  /\ Calling /\ t \in Top.left /\ t \in reserved
  /\ stack' = Without(t)
  /\ UNCHANGED <<run, stage, topics, packTiers, reserved, built, use, bindings, operations, document>>

\* A mutant: no slot is taken before recursing.
ReserveNothing(t) ==
  /\ Calling /\ t \in Top.left /\ t \in Image \ reserved
  /\ stack' = Append(Without(t), Call(t, References(t)))
  /\ UNCHANGED <<run, stage, topics, packTiers, reserved, built, use, bindings, operations, document>>

\* A mutant: the base of an alias is not forced.
ReserveFields(t) ==
  /\ Calling /\ t \in Top.left /\ t \in Image \ reserved
  /\ reserved' = reserved \union {t}
  /\ stack' = Append(Without(t), Call(t, References(t) \ {run.image[t].base}))
  /\ UNCHANGED <<run, stage, topics, packTiers, built, use, bindings, operations, document>>

\* The slot is taken before recursing.
Reserve(t) ==
  /\ Calling /\ t \in Top.left /\ t \in Image \ reserved
  /\ reserved' = reserved \union {t}
  /\ stack' = Append(Without(t), Call(t, References(t)))
  /\ UNCHANGED <<run, stage, topics, packTiers, built, use, bindings, operations, document>>

\* "schema closure references unknown type": an image may leave imports out.
UnknownType(t) ==
  /\ Calling /\ t \in Top.left /\ t \notin Image \union reserved
  /\ Refuse
  /\ UNCHANGED <<run, topics, packTiers, schemas, use, bindings, operations, document>>

Build ==
  /\ Calling /\ Len(stack) > 1 /\ Top.left = {}
  /\ built' = built \union {Top.of}
  /\ stack' = SubSeq(stack, 1, Len(stack) - 1)
  /\ UNCHANGED <<run, stage, topics, packTiers, reserved, use, bindings, operations, document>>

Returned == Len(stack) = 1 /\ Top.left = {}

SchemasBuilt ==
  /\ stage = "schemas" /\ Returned
  /\ stage' = "operations"
  /\ stack' = <<>>
  /\ UNCHANGED <<run, topics, packTiers, reserved, built, use, bindings, operations, document>>

-----------------------------------------------------------------------------
(* operation(), for one @http use site. *)

Bodyless == {"GET", "HEAD", "DELETE", "OPTIONS"}

Uses == DOMAIN run.uses

Current == run.uses[use]

Request(n) == run.methods[run.uses[n].method].input

\* Past the method's first binding an id must be authored.
Rebinding(n) == \E k \in 1..(n - 1) : run.uses[k].method = run.uses[n].method

OperationId(n) ==
  IF run.uses[n].id # None THEN run.uses[n].id ELSE run.derived[run.uses[n].method]

Beginning == stage = "operations" /\ use \in Uses

\* buildAll: the method or its service is for a narrower audience.
SkipUse ==
  /\ Beginning /\ ~MethodIncluded(Current.method)
  /\ use' = use + 1
  /\ UNCHANGED <<run, stage, topics, packTiers, schemas, bindings, operations, document>>

\* What operation() finds wrong with the use site itself.
Sound ==
  /\ Rebinding(use) => Current.id # None
  /\ \A op \in operations : op.id # OperationId(use)
  /\ Request(use) \in Image
  /\ Current.security \subseteq run.schemes

RefuseUse ==
  /\ Beginning /\ MethodIncluded(Current.method) /\ ~Sound
  /\ Refuse
  /\ UNCHANGED <<run, topics, packTiers, schemas, use, bindings, operations, document>>

\* var: which of the path's variables, or none of them.
Place(var, path, in, sensitive, refs) ==
  [use |-> use, var |-> var, path |-> path, in |-> in, sensitive |-> sensitive, refs |-> refs]

\* A variable of the path: the components after at are to be resolved from msg.
Segment(var, msg, at, rest, sensitive) ==
  [var |-> var, msg |-> msg, at |-> at, rest |-> rest, sensitive |-> sensitive]

\* One level of the remaining-field binding: message msg at path at.
Descent(msg, at, bound, sensitive, seen) ==
  [msg |-> msg, at |-> at, bound |-> bound, sensitive |-> sensitive, seen |-> seen]

\* The variables of the path; then the whole request as a body, or a descent into it.
BeginUse ==
  /\ Beginning /\ MethodIncluded(Current.method) /\ Sound
  /\ segments' = {Segment(i, Request(use), <<>>, Current.params[i], FALSE) : i \in DOMAIN Current.params}
  /\ IF Current.params = <<>> /\ Current.verb \notin Bodyless
     THEN /\ placed' = placed \union {Place(None, <<>>, "body", SensitiveType(Request(use)), {Request(use)})}
          /\ walk' = {}
     ELSE /\ walk' = {Descent(Request(use), <<>>, Links(Current.params), FALSE, {Request(use)})}
          /\ UNCHANGED placed
  /\ stage' = "binding"
  /\ UNCHANGED <<run, topics, packTiers, schemas, use, operations, document>>

SensitiveHere(d) == d.sensitive \/ SensitiveType(d.msg)

\* A mutant: a container hands down its own marker and not its surroundings'.
InheritedOwn(d, f) == FieldSensitive(f)

\* The surroundings' sensitivity, and the field's.
Inherited(d, f) == SensitiveHere(d) \/ FieldSensitive(f)

\* The fields one component of a path may name: none that is repeated.
Component(s) == {f \in FieldsOf(s.msg) : f.name = Head(s.rest) /\ f.label = "one"}

Leaf(s) == Len(s.rest) = 1

\* resolveFieldPath and paramSchema: the leaf is a parameter.
ResolveLeaf(s) ==
  /\ stage = "binding" /\ s \in segments /\ Leaf(s)
  /\ \E f \in Component(s) :
       /\ ~Unflat(f)
       /\ placed' = placed \union
            {Place(s.var, Append(s.at, f.name), "path", Inherited(s, f), FieldRefs(f))}
  /\ segments' = segments \ {s}
  /\ UNCHANGED <<run, stage, topics, packTiers, schemas, use, walk, operations, document>>

\* The next component, in the message this one resolved to.
ResolveComponent(s) ==
  /\ stage = "binding" /\ s \in segments /\ ~Leaf(s)
  /\ \E f \in Component(s) :
       /\ f.kind = "message"
       /\ segments' = (segments \ {s}) \union
            {Segment(s.var, f.to, Append(s.at, f.name), Tail(s.rest), Inherited(s, f))}
  /\ UNCHANGED <<run, stage, topics, packTiers, schemas, use, walk, placed, operations, document>>

\* It names no field, or a message where a value is needed.
RefuseSegment(s) ==
  /\ stage = "binding" /\ s \in segments
  /\ ~\E f \in Component(s) : IF Leaf(s) THEN ~Unflat(f) ELSE f.kind = "message"
  /\ Refuse
  /\ UNCHANGED <<run, topics, packTiers, schemas, use, bindings, operations, document>>

\* A mutant: the bound paths are not re-rooted.
UnderUnrooted(bound, n) == {p \in bound : Len(p) > 1 /\ Head(p) = n}

\* The bound paths below field n, re-rooted at it.
Under(bound, n) == {Tail(p) : p \in {q \in bound : Len(q) > 1 /\ Head(q) = n}}

Remaining(d) == {f \in FieldsOf(d.msg) : <<f.name>> \notin d.bound}

Containers(d) == {f \in Remaining(d) : Under(d.bound, f.name) # {}}

Plain(d) == Remaining(d) \ Containers(d)

\* A recursive message, or a message left to the query string.
Unbindable(d) ==
  \/ \E f \in Containers(d) : f.to \in d.seen
  \/ Current.verb \in Bodyless /\ \E f \in Plain(d) : Unflat(f)

Descending(d) == stage = "binding" /\ segments = {} /\ d \in walk

Where == IF Current.verb \in Bodyless THEN "query" ELSE "body"

\* queryParams or bodyObject, for one message: a body keeps the container
\* it inlines as an object, a query string does not.
Descend(d) ==
  /\ Descending(d) /\ ~Unbindable(d)
  /\ LET path(f) == Append(d.at, f.name)
     IN  /\ placed' = placed
              \union {Place(None, path(f), Where, Inherited(d, f), FieldRefs(f)) : f \in Plain(d)}
              \union IF Where = "query" THEN {}
                     ELSE {Place(None, path(f), "object", Inherited(d, f), {}) : f \in Containers(d)}
         /\ walk' = (walk \ {d})
              \union {Descent(f.to, path(f), Under(d.bound, f.name), Inherited(d, f),
                              d.seen \union {f.to}) : f \in Containers(d)}
  /\ UNCHANGED <<run, stage, topics, packTiers, schemas, use, segments, operations, document>>

RefuseDescent(d) ==
  /\ Descending(d) /\ Unbindable(d)
  /\ Refuse
  /\ UNCHANGED <<run, topics, packTiers, schemas, use, bindings, operations, document>>

\* The components an operation refers to: its bindings', and its response's.
Needs(n) ==
  ({run.methods[run.uses[n].method].output} \ {None})
  \union UNION {p.refs : p \in {q \in placed : q.use = n}}

RenderSchemas ==
  /\ stage = "binding" /\ segments = {} /\ walk = {}
  /\ stage' = "rendering"
  /\ stack' = <<Call(None, Needs(use))>>
  /\ UNCHANGED <<run, topics, packTiers, reserved, built, use, bindings, operations, document>>

\* A path item is keyed by the template alone.
OpenAPIPath(path) == path.template

Key(n) == <<OpenAPIPath(run.uses[n].path), run.uses[n].verb>>

\* A mutant: the patterns of a path tell two operations apart.
ClaimedPath(n) == \E op \in operations : run.uses[op.use].path = run.uses[n].path

Claimed(n) == \E op \in operations : Key(op.use) = Key(n)

\* collectCodes: whatever the request leads to, aliases and fields' messages.
CodeEdges(t) ==
  IF t \notin Image THEN {}
  ELSE IF run.image[t].kind = "alias" THEN {run.image[t].base} \ {None}
  ELSE ({f.to : f \in {g \in FieldsOf(t) : g.kind = "message"}} \ {None})
       \union UNION {Links(f.chain) : f \in FieldsOf(t)}

\* The types visited from t: the least set closed under those edges.
CodeSources(t) ==
  {s \in Type : \A S \in SUBSET Type :
                  t \in S /\ (\A x \in S : CodeEdges(x) \subseteq S) => s \in S}

FinishUse ==
  /\ stage = "rendering" /\ Returned
  /\ IF Claimed(use)
     THEN Refuse /\ UNCHANGED <<use, operations>>
     ELSE /\ operations' = operations \union
               {[use |-> use, id |-> OperationId(use), codes |-> CodeSources(Request(use))]}
          /\ use' = use + 1
          /\ stage' = "operations"
  /\ stack' = <<>>
  /\ UNCHANGED <<run, topics, packTiers, reserved, built, bindings, document>>

-----------------------------------------------------------------------------
(* The document. *)

\* emitPaths' methodOrder: other verbs are left behind.
methodOrder == {"GET", "PUT", "POST", "DELETE", "OPTIONS", "HEAD", "PATCH", "TRACE"}

Versions(e) == {v.version : v \in {h \in run.history : e \in h.has}}

\* The first version of the history that holds e, if any.
FirstSeen(e) == {v \in Versions(e) : \A other \in Versions(e) : v <= other}

\* A mutant: methods the audience may not see stamp too.
StampsAny(n, op) == Key(n) = Key(op.use)

\* A use site of an emitted method stamps the operation at its path and verb.
Stamps(n, op) == MethodIncluded(run.uses[n].method) /\ Key(n) = Key(op.use)

Since(op) ==
  IF run.history = None THEN {}
  ELSE UNION {FirstSeen(run.uses[n].method) : n \in {k \in Uses : Stamps(k, op)}}

Emit ==
  /\ stage = "operations" /\ use > Len(run.uses)
  /\ document' =
       [components |-> built \union IF operations = {} THEN {} ELSE ReportTypes,
        operations |-> {[op |-> op, since |-> Since(op)] :
                          op \in {o \in operations : run.uses[o.use].verb \in methodOrder}}]
  /\ stage' = "emitted"
  /\ UNCHANGED <<run, topics, packTiers, schemas, use, bindings, operations>>

Next ==
  \/ \E topic \in topics : Contribute(topic)
  \/ CheckTransitive \/ FetchHistory
  \/ \E t \in Type : Reuse(t)
  \/ \E t \in Type : Reserve(t)
  \/ \E t \in Type : UnknownType(t)
  \/ Build \/ SchemasBuilt
  \/ SkipUse \/ RefuseUse \/ BeginUse
  \/ \E s \in segments : ResolveLeaf(s)
  \/ \E s \in segments : ResolveComponent(s)
  \/ \E s \in segments : RefuseSegment(s)
  \/ \E d \in walk : Descend(d)
  \/ \E d \in walk : RefuseDescent(d)
  \/ RenderSchemas \/ FinishUse \/ Emit

Spec == Init /\ [][Next]_vars

-----------------------------------------------------------------------------
(* Properties. *)

Placed == [use : Nat, var : Nat \union {None}, path : Seq(Name), in : {"path", "query", "body", "object"},
           sensitive : BOOLEAN, refs : SUBSET Type]

Segments == [var : Nat, msg : Type \union {None}, at : Seq(Name), rest : Seq(Name) \ {<<>>},
             sensitive : BOOLEAN]

Descents == [msg : Type \union {None}, at : Seq(Name), bound : SUBSET Seq(Name),
             sensitive : BOOLEAN, seen : SUBSET (Type \union {None})]

Operation == [use : Nat, id : Id, codes : SUBSET Type]

\* The type invariant of one generation.
TypeOK ==
  /\ stage \in {"pack", "history", "schemas", "operations", "binding", "rendering",
                "emitted", "refused"}
  /\ topics \subseteq run.topics
  /\ packTiers \in [Element -> Rank \union {0}]
  /\ stack \in Seq([of : Type \union {None}, left : SUBSET Type])
  /\ built \subseteq reserved /\ reserved \subseteq Image
  /\ use \in 1..(Len(run.uses) + 1)
  /\ segments \subseteq Segments /\ walk \subseteq Descents /\ placed \subseteq Placed
  /\ operations \subseteq Operation
  /\ IF stage = "emitted"
     THEN document \in [components : SUBSET Type,
                        operations : SUBSET [op : Operation, since : SUBSET Nat]]
     ELSE document = None

Emitted == stage = "emitted"

Author(t) == t \in Image /\ ~run.image[t].generated

\* May be shown at the tier asked for, by the configuration and the pack.
Visible(e) ==
  /\ run.globs[e] <= run.tier
  /\ \A topic \in run.topics : topic.anchor = e => topic.rank <= run.tier

(***************************************************************************)
(* cmd/pxf/README.md:310: elements at or below the tier are emitted.       *)
(* Whatever component() pulled in along the way, whatever rules its error  *)
(* codes were collected from, nothing of a more restricted element is in   *)
(* a document.                                                             *)
(***************************************************************************)
NothingRestricted ==
  Emitted =>
    /\ \A t \in document.components : Author(t) => Visible(t)
    /\ \A o \in document.operations :
         LET m == run.uses[o.op.use].method
         IN  /\ Visible(m) /\ Visible(run.methods[m].service)
             /\ \A t \in o.op.codes : Author(t) => Visible(t)

(***************************************************************************)
(* audience.go:92: filtering may not leave a dangling $ref.  Each one of a *)
(* component, of an operation's bindings and of its responses lands.       *)
(***************************************************************************)
NoDanglingRef ==
  Emitted =>
    /\ \A t \in built : References(t) \subseteq document.components
    /\ \A o \in document.operations :
         Needs(o.op.use) \union ReportTypes \subseteq document.components

(***************************************************************************)
(* schemas.go:83: reference cycles terminate.  No type is under            *)
(* construction twice, so component recurses no deeper than there are      *)
(* types.                                                                  *)
(***************************************************************************)
NeverTwice == \A i, j \in DOMAIN stack : stack[i].of = stack[j].of => i = j

(***************************************************************************)
(* RFC-001 5.2: one operation per binding of a visible method, at a path   *)
(* and under an id of its own, of the verbs that OpenAPI has.              *)
(***************************************************************************)
OperationPerBinding ==
  Emitted =>
    /\ {o.op.use : o \in document.operations} =
         {n \in Uses : MethodIncluded(run.uses[n].method) /\ run.uses[n].verb \in methodOrder}
    /\ \A o, q \in document.operations :
         o.op.id = q.op.id \/ Key(o.op.use) = Key(q.op.use) => o = q

(***************************************************************************)
(* generate.go:126: x-since tells when the operation's own method first    *)
(* appeared, and not that of a method which shares its path and verb and   *)
(* was filtered.                                                           *)
(***************************************************************************)
SinceOfOwner ==
  Emitted /\ run.history # None =>
    \A o \in document.operations :
      LET own == Versions(run.uses[o.op.use].method)
      IN  o.since = {v \in own : ~\E earlier \in own : earlier < v}

IsPrefix(p, q) == Len(p) <= Len(q) /\ SubSeq(q, 1, Len(p)) = p

\* Where use n puts the fields of its request.
Bindings(n) == {p \in placed : p.use = n /\ p.in # "object"}

Paths == UNION {[1..k -> Name] : k \in 1..MaxDepth}

\* The fields a dotted path may go on through.
Onward(image, m, n) ==
  {f \in FieldsIn(image, m) : f.name = n /\ f.kind = "message" /\ f.label = "one"}

\* The messages those lead to.
Onto(image, messages, n) == UNION {{f.to : f \in Onward(image, m, n)} : m \in messages}

\* The messages a path goes through: t, then the type of each field.
MessagesAlong(image, t, path) ==
  LET at[i \in 0..Len(path)] == IF i = 0 THEN {t} ELSE Onto(image, at[i - 1], path[i]) IN at

\* The fields of a path, none where it names none.
FieldsAlong(image, t, path) ==
  [i \in 1..Len(path) |->
     UNION {{f \in FieldsIn(image, m) : f.name = path[i]} :
              m \in MessagesAlong(image, t, path)[i - 1]}]

Exists(t, path) == \A i \in DOMAIN path : FieldsAlong(run.image, t, path)[i] # {}

\* No two variables of use n's path are one, or one a part of the other's field.
VariablesApart(n) ==
  \A i, j \in DOMAIN run.uses[n].params :
    IsPrefix(run.uses[n].params[i], run.uses[n].params[j]) => i = j

(***************************************************************************)
(* RFC-001 5.2: a nested binding removes only the leaf it names.  Where    *)
(* the variables of a path name different fields, each part of the request *)
(* is bound once: by itself, or with what holds it, or piece by piece; to  *)
(* the path exactly if a variable names it or what holds it.  A variable   *)
(* written twice, or one inside the well-known type another one names,     *)
(* operation() takes as it finds it, as two parameters.                    *)
(***************************************************************************)
BoundOnce ==
  \A op \in operations : \A path \in Paths :
    VariablesApart(op.use) /\ Exists(Request(op.use), path) =>
      LET whole == {p \in Bindings(op.use) : IsPrefix(p.path, path)}
          parts == {p \in Bindings(op.use) : IsPrefix(path, p.path) /\ p.path # path}
      IN  /\ Cardinality(whole) + (IF parts = {} THEN 0 ELSE 1) = 1
          /\ (\E p \in whole : p.in = "path")
               <=> (\E named \in Links(run.uses[op.use].params) : IsPrefix(named, path))

(***************************************************************************)
(* RFC-001 5.2 and 6.7: flattening dissolves the reference a container's   *)
(* marker sat on, so the marker travels to whatever is left of it, and to  *)
(* nothing else.                                                           *)
(***************************************************************************)
SensitivityTravels ==
  \A p \in placed :
    LET messages == MessagesAlong(run.image, Request(p.use), p.path)
        fields == FieldsAlong(run.image, Request(p.use), p.path)
    IN  p.path # <<>> =>
          (p.sensitive <=> \E i \in DOMAIN p.path :
                             \/ \E m \in messages[i - 1] : SensitiveType(m)
                             \/ \E f \in fields[i] : FieldSensitive(f))
=============================================================================
