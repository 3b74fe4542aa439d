--------------------------- MODULE SchemaRegistry ---------------------------
(***************************************************************************)
(* One run of schemaresolve.Resolve: the chain that turns the -p files, a  *)
(* protoregistry bundle and a document's own @proto directives into one    *)
(* Registry, and the questions the commands then ask it (Find,             *)
(* FromDocument, Check).                                                   *)
(*                                                                         *)
(* A descriptor is a value of Type: what a compile unit knows of it (its   *)
(* full name, the messages it is nested in, the types its fields are bound *)
(* to) is given by constant functions.  Its text is abstracted to Shape,   *)
(* which two descriptors share when their own DescriptorProtos agree once  *)
(* normalised, the names of their fields' types aside.                     *)
(***************************************************************************)
EXTENDS Integers, Sequences, FiniteSets

CONSTANTS
  Type,          \* message and enum descriptors
  Name,          \* protoreflect.FullName
  ExternalFile,  \* files of a -p compile or of a protoregistry bundle
  DocumentFile,  \* files of a document's own @proto directives
  FileOf,        \* [Type -> File]           ParentFile()
  NameOf,        \* [Type -> Name]           FullName()
  Enclosing,     \* [Type -> SUBSET Type]    the messages a type is nested in
  Binds,         \* [Type -> SUBSET Type]    fieldType of each field
  Messages,      \* SUBSET Type: the rest are enums
  Shape,         \* [Type -> value]          the normalised DescriptorProto
  Importable,    \* [DocumentFile -> BOOLEAN] every import is one a @proto may name
  Requests,      \* the options and coordinates a command may resolve with
  None           \* Go's nil

File == ExternalFile \union DocumentFile

Coordinates == {"server", "namespace", "schema"}

(***************************************************************************)
(* What protobuf guarantees of the descriptors a compile unit hands over:  *)
(* names are unique in a file, a type is nested finitely deep, it lives in *)
(* its parent's file and its enclosing messages are nested in one another. *)
(***************************************************************************)
ASSUME DescriptorAssumption ==
  /\ ExternalFile \intersect DocumentFile = {}
  /\ None \notin Type
  /\ FileOf \in [Type -> File]
  /\ NameOf \in [Type -> Name]
  /\ Enclosing \in [Type -> SUBSET Messages]
  /\ Binds \in [Type -> SUBSET Type]
  /\ Messages \subseteq Type
  /\ Importable \in [DocumentFile -> BOOLEAN]
  /\ \A a, b \in Type : FileOf[a] = FileOf[b] /\ NameOf[a] = NameOf[b] => a = b
  /\ \A a \in Type : IsFiniteSet(Enclosing[a])
  /\ \A a \in Type : \A m \in Enclosing[a] :
       /\ FileOf[m] = FileOf[a]
       /\ m \notin Enclosing[m]
       /\ Enclosing[m] \subseteq Enclosing[a]

\* CompileOptions and RegistryRef, with what the server and the document hold.
Request == [user    : SUBSET ExternalFile,
            ref     : SUBSET Coordinates,
            bundle  : SUBSET ExternalFile,
            virtual : SUBSET DocumentFile,
            blobs   : Seq(SUBSET DocumentFile)]

TypesIn(files) == {d \in Type : FileOf[d] \in files}

\* The files of one compile, one bundle or one body, which the compiler or
\* protodesc.NewFiles links together.
Units(request) ==
  {request.user, request.bundle, request.virtual}
    \union {request.blobs[i] : i \in DOMAIN request.blobs}

(***************************************************************************)
(* Linking a unit refuses two types of one name.                           *)
(***************************************************************************)
ASSUME RequestAssumption ==
  /\ Requests \subseteq Request
  /\ \A request \in Requests : \A unit \in Units(request) :
       \A a, b \in TypesIn(unit) : NameOf[a] = NameOf[b] => a = b

VARIABLES
  opts,          \* CompileOptions, RegistryRef and what the server would answer
  stage,         \* where Resolve is
  pending,       \* the files of the current compile unit still to be merged
  blobs,         \* the descriptor-form @proto bodies still to be merged
  byFullName,    \* Registry.byFullName, None where the map has no entry
  enums,         \* Registry.enums
  fromDocument,  \* Registry.fromDocument
  differs,       \* Registry.differs
  warnings       \* Registry.warnings, a set: a name is warned about once

registry == <<byFullName, enums, fromDocument, differs, warnings>>
vars == <<opts, stage, pending, blobs, registry>>

-----------------------------------------------------------------------------
(* Descriptors. *)

TypesOf(f) == {d \in Type : FileOf[d] = f}

\* What a document's @proto defined, as against -p's and the bundle's.
DocumentType == {d \in Type : FileOf[d] \in DocumentFile}

\* d and every type nested in it, at any depth: walkTypes on a message.
Family(d) == {d} \union {n \in Type : d \in Enclosing[n]}

NamesOf(types) == {NameOf[d] : d \in types}

\* sameDefinition: equal DescriptorProtos, nested types included, the types
\* of fields compared by name only.
Definition(d) ==
  {<<NameOf[n], n \in Messages, Shape[n], NamesOf(Binds[n])>> : n \in Family(d)}

SameDefinition(a, b) == Definition(a) = Definition(b)

-----------------------------------------------------------------------------
(* The registry's operations. *)

\* put, for every type in types: a later definition replaces an earlier one.
Put(table, types) ==
  [n \in Name |-> IF n \in NamesOf(types)
                  THEN CHOOSE d \in types : NameOf[d] = n
                  ELSE table[n]]

\* delete, for every name in names.
Without(table, names) ==
  [n \in Name |-> IF n \in names THEN None ELSE table[n]]

\* A mutant: external does not ask whether a document defined n.
ExternalUnasked(n) ==
  IF byFullName[n] # None THEN byFullName[n] ELSE enums[n]

\* external: the -p or bundle type called n, unless a document defined n.
External(n) ==
  IF n \in fromDocument THEN None
  ELSE IF byFullName[n] # None THEN byFullName[n]
  ELSE enums[n]

\* A mutant: shadow never descends into a message.
ShadowingTopLevel(f) ==
  {d \in TypesOf(f) : External(NameOf[d]) # None /\ Enclosing[d] = {}}

\* The types of f that shadow visits and finds an external type for: it
\* descends into a message only where the message has none.
Shadowing(f) ==
  {d \in TypesOf(f) : /\ External(NameOf[d]) # None
                      /\ \A m \in Enclosing[d] : External(NameOf[m]) = None}

\* The external types shadow replaces, and those it finds redefined.
Replaced(f) == {External(NameOf[d]) : d \in Shadowing(f)}

Redefined(f) ==
  {x \in Replaced(f) : \E d \in Shadowing(f) :
      External(NameOf[d]) = x /\ ~SameDefinition(x, d)}

\* A mutant: drop leaves the types nested in the replaced one.
DroppedAlone(f) == NamesOf(Replaced(f))

\* drop removes a replaced type and every type nested in it, by name.
Dropped(f) == NamesOf(UNION {Family(x) : x \in Replaced(f)})

\* A mutant: put does not tell enums from messages.
MergeUnsorted(f) ==
  /\ byFullName' = Put(byFullName, TypesOf(f))
  /\ UNCHANGED <<enums, fromDocument, differs, warnings>>

\* Registry.Merge.
Merge(f) ==
  /\ byFullName' = Put(byFullName, TypesOf(f) \intersect Messages)
  /\ enums' = Put(enums, TypesOf(f) \ Messages)
  /\ UNCHANGED <<fromDocument, differs, warnings>>

\* A mutant: the types nested in a redefined one are not marked as differing.
MergeDocumentShallow(f) ==
  /\ byFullName' = Put(Without(byFullName, Dropped(f)), TypesOf(f) \intersect Messages)
  /\ enums' = Put(Without(enums, Dropped(f)), TypesOf(f) \ Messages)
  /\ fromDocument' = fromDocument \union NamesOf(TypesOf(f))
  /\ differs' = differs \union NamesOf(Redefined(f))
  /\ warnings' = warnings \union {<<NameOf[x], FileOf[x]>> : x \in Redefined(f)}

\* Registry.mergeDocument: shadow, then put and mark every type of f.
MergeDocument(f) ==
  /\ byFullName' = Put(Without(byFullName, Dropped(f)), TypesOf(f) \intersect Messages)
  /\ enums' = Put(Without(enums, Dropped(f)), TypesOf(f) \ Messages)
  /\ fromDocument' = fromDocument \union NamesOf(TypesOf(f))
  /\ differs' = differs \union NamesOf(UNION {Family(x) : x \in Redefined(f)})
  /\ warnings' = warnings \union {<<NameOf[x], FileOf[x]>> : x \in Redefined(f)}

\* Registry.Find.
Find(n) == byFullName[n]

\* A mutant: a name's definition is never the document's.
IsNeverDocument(d) == FALSE

\* isDocument: d is the document's own definition of its name.
IsDocument(d) ==
  /\ NameOf[d] \in fromDocument
  /\ (IF d \in Messages THEN byFullName[NameOf[d]] ELSE enums[NameOf[d]]) = d

\* The types Check's walk reaches from each message through fields, itself
\* included: Cardinality(Type) rounds of following Binds reach a fixed point.
\* The walk marks names, this marks types: a compile unit has one type of
\* each name.
Reach ==
  [m \in Messages |->
     LET after[k \in Nat] ==
           IF k = 0 THEN {m}
           ELSE LET seen == after[k - 1] IN seen \union UNION {Binds[s] : s \in seen}
     IN  after[Cardinality(Type)]]

BoundFrom == [m \in Messages |-> {t \in Type : \E s \in Reach[m] : t \in Binds[s]}]

\* Registry.Check returns an error for m.
CheckFails(m) ==
  \E t \in BoundFrom[m] : NameOf[t] \in differs /\ ~IsDocument(t)

-----------------------------------------------------------------------------
(* Resolve. *)

EmptyTable == [n \in Name |-> None]

Init ==
  /\ opts \in Requests
  /\ stage = "start"
  /\ pending = {}
  /\ blobs = opts.blobs
  /\ byFullName = EmptyTable
  /\ enums = EmptyTable
  /\ fromDocument = {}
  /\ differs = {}
  /\ warnings = {}

\* Any step of the chain may fail: Resolve then returns no registry.
Fail ==
  /\ stage' = "failed"
  /\ UNCHANGED <<opts, pending, blobs, registry>>

\* RegistryRef.Validate: all three coordinates or none.
ValidateRef ==
  /\ stage = "start"
  /\ IF opts.ref \in {{}, Coordinates}
     THEN /\ stage' = "external"
          /\ UNCHANGED <<opts, pending, blobs, registry>>
     ELSE Fail

\* compileExternal: the bundled schemas and the -p files, one compile; only
\* the files it was given are merged, not what they import.
CompileExternal ==
  /\ stage = "external"
  /\ \/ /\ stage' = "mergeExternal"
        /\ pending' = opts.user
        /\ UNCHANGED <<opts, blobs, registry>>
     \/ opts.user # {} /\ Fail

\* FetchRegistry, when the triple is active; RangeFiles gives the files of
\* the bundle in no particular order.
FetchBundle ==
  /\ stage = "mergeExternal"
  /\ pending = {}
  /\ IF opts.ref = Coordinates
     THEN \/ /\ stage' = "mergeBundle"
             /\ pending' = opts.bundle
             /\ UNCHANGED <<opts, blobs, registry>>
          \/ Fail
     ELSE /\ stage' = "document"
          /\ UNCHANGED <<opts, pending, blobs, registry>>

BundleMerged ==
  /\ stage = "mergeBundle"
  /\ pending = {}
  /\ stage' = "document"
  /\ UNCHANGED <<opts, pending, blobs, registry>>

\* compileDocument, the source and named forms: imports resolve only from
\* the other virtual files and the allowed schemas, never from disk.
CompileVirtual ==
  /\ stage = "document"
  /\ \/ /\ \A f \in opts.virtual : Importable[f]
        /\ stage' = "mergeDocument"
        /\ pending' = opts.virtual
        /\ UNCHANGED <<opts, blobs, registry>>
     \/ opts.virtual # {} /\ Fail

\* compileDocument, the descriptor form: each body is a file set of its own.
HydrateBlob ==
  /\ stage = "mergeDocument"
  /\ pending = {}
  /\ blobs # <<>>
  /\ \/ /\ pending' = Head(blobs)
        /\ blobs' = Tail(blobs)
        /\ UNCHANGED <<opts, stage, registry>>
     \/ Fail

MergeNext(f) ==
  /\ f \in pending
  /\ pending' = pending \ {f}
  /\ \/ stage \in {"mergeExternal", "mergeBundle"} /\ Merge(f)
     \/ stage = "mergeDocument" /\ MergeDocument(f)
  /\ UNCHANGED <<opts, stage, blobs>>

Return ==
  /\ stage = "mergeDocument"
  /\ pending = {}
  /\ blobs = <<>>
  /\ stage' = "done"
  /\ UNCHANGED <<opts, pending, blobs, registry>>

Next ==
  \/ ValidateRef
  \/ CompileExternal
  \/ FetchBundle
  \/ BundleMerged
  \/ CompileVirtual
  \/ HydrateBlob
  \/ \E f \in File : MergeNext(f)
  \/ Return

Spec == Init /\ [][Next]_vars

-----------------------------------------------------------------------------
(* Properties. *)

\* What a type answers to: the entry of its kind under its name.
Registered(d) ==
  IF d \in Messages THEN byFullName[NameOf[d]] ELSE enums[NameOf[d]]

\* While these last, no document is read yet.
ExternalStage == {"start", "external", "mergeExternal", "mergeBundle"}

\* The type invariant of one resolution.
TypeOK ==
  /\ opts \in Requests
  /\ stage \in ExternalStage \union {"document", "mergeDocument", "done", "failed"}
  /\ pending \in SUBSET File
  /\ blobs \in Seq(SUBSET DocumentFile)
  /\ byFullName \in [Name -> Messages \union {None}]
  /\ enums \in [Name -> (Type \ Messages) \union {None}]
  /\ fromDocument \in SUBSET Name
  /\ differs \in SUBSET Name
  /\ warnings \in SUBSET (Name \X File)

(***************************************************************************)
(* The reference: what the options alone say a resolution should answer.   *)
(***************************************************************************)
DocumentUnits == <<opts.virtual>> \o opts.blobs

Called(n, types) == {d \in types : NameOf[d] = n}

DocumentOf(n) ==
  UNION {Called(n, TypesIn(DocumentUnits[i])) : i \in DOMAIN DocumentUnits}

BundleFiles == IF opts.ref = Coordinates THEN opts.bundle ELSE {}

ExternalOf(n) ==
  IF Called(n, TypesIn(BundleFiles)) # {}
  THEN Called(n, TypesIn(BundleFiles))
  ELSE Called(n, TypesIn(opts.user))

Resolution(n) ==
  IF DocumentOf(n) # {} THEN DocumentOf(n)
  ELSE {x \in ExternalOf(n) : \A m \in Enclosing[x] : DocumentOf(NameOf[m]) = {}}

\* Every type of the sources of one run, external or a document's.
Sourced ==
  TypesIn(opts.user) \union TypesIn(BundleFiles)
    \union UNION {TypesIn(DocumentUnits[i]) : i \in DOMAIN DocumentUnits}

\* a's nesting is b's too, where b's side of the chain defines what a is
\* nested in: no name is a message in one unit of a side and a package in
\* another one.
NestedAlike(a, b) ==
  \A m \in Enclosing[a] :
    (\E z \in Sourced : /\ NameOf[z] = NameOf[m]
                        /\ (z \in DocumentType) = (b \in DocumentType))
      => \E o \in Enclosing[b] : NameOf[o] = NameOf[m]

\* No two @proto directives define one name, a -p type and a bundle type
\* of one name are of one kind and nest the same names, and types of one
\* name are nested alike.
WellPosed ==
  /\ \A i, j \in DOMAIN DocumentUnits : i # j =>
       NamesOf(TypesIn(DocumentUnits[i])) \intersect NamesOf(TypesIn(DocumentUnits[j])) = {}
  /\ \A x \in TypesIn(opts.user), y \in TypesIn(BundleFiles) : NameOf[x] = NameOf[y] =>
       /\ (x \in Messages) = (y \in Messages)
       /\ NamesOf(Family(x)) = NamesOf(Family(y))
  /\ \A a, b \in Sourced : NameOf[a] = NameOf[b] => NestedAlike(a, b)

Done == stage = "done"

(***************************************************************************)
(* Resolving is independent of the order files are merged in: every name   *)
(* answers the document's definition if it has one, else the last external *)
(* one, unless that is nested in a type the document redefines.            *)
(***************************************************************************)
ResolvesAsDeclared ==
  Done /\ WellPosed =>
    \A n \in Name : {byFullName[n], enums[n]} \ {None} = Resolution(n)

(***************************************************************************)
(* A user hears of exactly the outermost types whose definition in the     *)
(* document differs from the external one it shadows: Warnings.            *)
(***************************************************************************)
WarnedExactly ==
  Done /\ WellPosed =>
    \A n \in Name, f \in ExternalFile :
      <<n, f>> \in warnings <=>
        \E x \in ExternalOf(n), d \in DocumentOf(n) :
          /\ FileOf[x] = f
          /\ ~SameDefinition(x, d)
          /\ \A m \in Enclosing[d] : ExternalOf(NameOf[m]) = {}

(***************************************************************************)
(* Check refuses every message through which decoding would reach an       *)
(* external definition that the document's @proto contradicts, when that   *)
(* definition is the one the external sources settle on for its name.      *)
(***************************************************************************)
Live(t) == \A m \in {t} \union Enclosing[t] : m \in ExternalOf(NameOf[m])

Contradicted(t) ==
  t \notin DocumentType /\ \E d \in DocumentOf(NameOf[t]) : ~SameDefinition(t, d)

CheckSound ==
  Done /\ WellPosed =>
    \A m \in Messages : \A t \in BoundFrom[m] :
      Live(t) /\ Contradicted(t) => CheckFails(m)

(***************************************************************************)
(* Check never refuses a message all of whose fields are bound to the very *)
(* types the registry answers for their names.                             *)
(***************************************************************************)
CheckHonest ==
  \A m \in Messages :
    CheckFails(m) => \E t \in BoundFrom[m] : Registered(t) # t

(***************************************************************************)
(* The draft's rule (docs/draft-trendvidia-protowire-01.md:679): a         *)
(* document whose type reaches a field of a disagreeing external type is   *)
(* rejected, wherever that external type came from.                        *)
(***************************************************************************)
DisagreementRejected ==
  Done =>
    \A m \in Messages : \A t \in BoundFrom[m] :
      Registered(m) = m /\ Contradicted(t) => CheckFails(m)

(***************************************************************************)
(* The draft's rule (docs/draft-trendvidia-protowire-01.md:687): two       *)
(* @proto directives of a document that define one name differently are    *)
(* rejected, whatever their form.                                          *)
(***************************************************************************)
DuplicatesRejected ==
  Done =>
    \A i, j \in DOMAIN DocumentUnits :
      \A d \in TypesIn(DocumentUnits[i]), e \in TypesIn(DocumentUnits[j]) :
        NameOf[d] = NameOf[e] => SameDefinition(d, e)

(***************************************************************************)
(* The promise of the chain, as SchemaPrecedence states it.                *)
(***************************************************************************)
Owner(n) ==
  IF {byFullName[n], enums[n]} \intersect DocumentType # {} THEN "document"
  ELSE IF {byFullName[n], enums[n]} # {None} THEN "external"
  ELSE "nobody"

Precedence == INSTANCE SchemaPrecedence
  WITH owner <- [n \in Name |-> Owner(n)],
       sealed <- stage \notin ExternalStage

ImplementsPrecedence == Precedence!Spec
=============================================================================
