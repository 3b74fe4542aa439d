# Verification of protowire

TLA+ modules for the parts of this repository that decide things: which schema
a document is read with (`internal/schemaresolve`), what documentation may be
released (`docpack`), what schema a dataset is given (`pxf infer-schema`),
what an API document shows of a schema and says of its rules
(`internal/openapi`), and what one run of `pxf fmt`, `build`, `encode`,
`validate` or `query` reads, writes and refuses (`cmd/pxf`). TLC checks them on
small instances, and TLAPS proves their most important properties for every
value of the constants.
`PROJECT.json` lists the runs, the theorems, the lines each definition models,
and the hazards the properties are aimed at.

## 1. The system

protowire is a Go program (`pxf`, two protoc plugins) with libraries, bundled
schemas, specifications and editor plugins. The PXF codec itself lives in
another repository (`protowire-go`); here is what surrounds it.

| Component | State it keeps | Operations | What is hard | What makes it correct |
|---|---|---|---|---|
| **Schema resolution**, `internal/schemaresolve` | a `Registry`: `byFullName`, `enums`, `fromDocument`, `differs`, `warnings` | `Resolve` (chain: bundled schemas and `-p` files, protoregistry bundle, document's `@proto`), `Merge`, `mergeDocument`/`shadow`/`drop`, `Find`, `FromDocument`, `Check` | files of a bundle come in no order; each compile unit is bound to its own descriptors, which a later merge hides but does not change; types are replaced with what is nested in them | every name answers the right source; a message bound to a contradicted definition is refused, and only such a one; contradictions are reported |
| **Doc-pack compiler**, `docpack` | the `compiler`: topics by reference and by key, redirects by id, diagnostics, the pack | `Compile`: load, collect, `followRedirect`, `validateParentChain`, `validateTopic`, `validateCrossTopic`, `validateReview`, `validateTranslation`, `resolveAnchors`, `checkCoverage`, build | chains and cycles written by authors; edits after approval; translations behind their source; rules that depend on other topics; a broken rule that hides another | a pack comes out exactly if no rule is broken, and has no cycle, no dangling anchor or link, nothing unapproved in a release, no false translation status |
| **Schema flags, data commands**, `cmd/pxf/main.go`, `schema.go` | the document's chain, the chain of `lazyResolver`, the warnings printed, the anonymous `@proto` directives not bound yet | `validate`, `encode`: pick the body's type, resolve the chain up to three times, decode Any blocks, bind dataset rows | a registry server that publishes between two fetches of one command; definitions the document replaces; anonymous directives and typeless datasets that pair up | whatever is decoded is decoded with the document's definitions; body and Any blocks of one resolution, rows of one; each replaced definition is warned about once |
| **infer-schema**, `cmd/pxf/infer.go` | a candidate type per column, row number, contradictions | `inferDataset` | a type is fixed by a sample and widened only inside it | whatever was accepted decodes with the schema that was written |
| **fmt**, `cmd/pxf/fmt.go` | files on disk | format to stdout, `-w`, `--check` | several files, one of which fails, one of them twice; a printer that drops what it does not know | no file says less than it said; the exit code says what happened |
| **build**, `cmd/pxf/build.go` | roots, claimed paths, targets, what was opened, diagnostics, the image | collect, compile, report, mark, write | arguments, `-I` roots and libraries that share import paths; failure while writing | an image is written only by a build that succeeded, whole, marked, and of the files the arguments name |
| **query, strict mode**, `cmd/pxf/query.go`, `strict.go`, `load*.go` | bound data, the query AST | load, bind, check field names, run gojq | scopes of a dynamic language checked statically; errors among results | strict mode refuses what can only be a misspelling; what is written before an error, and the exit code, tell the truth |
| **OpenAPI**, `internal/openapi` | audience closure, component table, error codes, since stamps, the constraints of a schema | closure, components, operations, `mapValidate` | recursive types, restrictions from two sources, request fields bound at several depths, use sites that compete for ids and paths, rules that compete for keywords | nothing restricted is in a document; every `$ref` lands; each field is bound once, each binding rendered once; the schema accepts what the rules accept |
| **pxfschema**, `internal/pxfschema` | none | reserved-name check | - | each reserved spelling is found |
| **protoc plugins**, `cmd/protoc-gen-*` | none | generate code | - | layouts agree with the other implementations |
| **Editor plugins**, `editors/` | the language client, one registered flag | start, stop, restart; register the grammar | - | one server at a time |
| **Scripts, workflows** | files | release, conformance | - | - |
| **Bundled schemas, docs** | - | - | - | the promises the findings hold the code to |

How they interact: every command that reads a document calls
`schemaresolve.Resolve`, then asks the registry for the message of the root
(`Find`), whether a name came from the document (`FromDocument`), and `Check`,
before the codec sees the data. `pxf docs` calls `docpack.Compile` with the
image `pxf build` wrote and a widget registry export. `pxf openapi` reads the
same image and, optionally, the pack. All of it is one goroutine: nothing
overlaps inside a command, so what is hard here is the ORDER of steps, the
descriptors and chains they leave behind, and the steps that fail. What runs
beside a command is outside it: the protoregistry server, a full disk, a kill.

## 2. The modules

| Module | What it is |
|---|---|
| `SchemaPrecedence` | abstract: whose definition a name answers to, and when that may change |
| `SchemaRegistry` | `Resolve` and the registry, refines `SchemaPrecedence` |
| `MCSchemaRegistry` | a world of 24 descriptors in 13 files, and the requests |
| `SchemaRegistryProofs` | six theorems about resolutions |
| `DocPack` | one `Compile`, pass by pass |
| `MCDocPack` | families of small corpora |
| `DocPackProofs` | ten theorems about packs |
| `InferSchema` | `pxf infer-schema` over one input |
| `MCInferSchema` | every dataset of up to three rows over one column, and some over two |
| `InferSchemaProofs` | five theorems about what is inferred, refused and hinted |
| `ApiDocument` | `openapi.Generate` over one image |
| `MCApiDocument` | four families of small APIs |
| `ApiDocumentProofs` | eight theorems about documents |
| `RuleMapping` | `mapValidate` and `nullable` over one field and the aliases of its type |
| `MCRuleMapping` | every pair of rules, in one rule, in two, or through an alias |
| `RuleMappingProofs` | four theorems about schemas and rules |
| `CommandLine` | what the subcommands share |
| `FmtRun` | one run of `pxf fmt` |
| `BuildRun` | one run of `pxf build` |
| `DocumentRun` | one run of `pxf encode` or `pxf validate` |
| `StrictQuery` | one run of `pxf query` |
| `PxfCommand` | the program: one process runs one of them |
| `MCPxfCommand` | small directories, documents and queries |
| `FileCommandProofs` | six theorems about `fmt` and `build`, of each alone and of the program |
| `DataCommandProofs` | eight about `encode`, `validate` and `query`, and one about the state of the whole program |
| `InductionLemmas` | least counterexamples, and that functions defined step by step exist |

### SchemaRegistry

A descriptor is a value of `Type`; what a compile unit knows of it (file, full
name, enclosing messages, the types its fields are bound to, the text of its
definition) is given by constant functions. This is what makes the hard case
expressible: *two descriptors of one name*, one of them still bound to by the
fields of a type the registry keeps.

The variables are the fields of `Registry`, and where `Resolve` is: `stage`,
the files of the present compile unit not merged yet (`pending`), the
descriptor-form bodies not reached yet (`blobs`). `Fail` ends it at every
point the code returns an error. The actions:

| Action | Code |
|---|---|
| `ValidateRef` | `RegistryRef.Validate`, called first: all coordinates or none |
| `CompileExternal` | `compileExternal`, which may fail when there are `-p` files |
| `FetchBundle`, `BundleMerged` | `FetchRegistry`, when the triple is given |
| `CompileVirtual` | the source and named `@proto` forms, one compile together |
| `HydrateBlob` | a descriptor-form `@proto`, each a file set of its own |
| `MergeNext` | `Merge` of one file before the document, `mergeDocument` of one after |
| `Return` | the registry |

`MergeNext` takes the files of a unit in any order, as `RangeFiles` does.
`MergeDocument` is the whole of `mergeDocument`: `shadow` over the file, the
drops of the types it replaces, the marks and warnings, then `put`. Bodies of
protobuf messages are abstracted to `Shape`; `SameDefinition` compares what the
code compares: the normalised text, nested types included, and the *names* of
field types.

### DocPack

The variables are the fields of `compiler`, and the pass it is in. `Content` stands
for the title, summary and body a digest covers (a digest is the content itself);
`BodyOf` says what the passes read in a body: its headings, links and prose anchors.
The six kinds of anchor spell ids in one set of strings, `Id`, because the code's
redirect table does; a redirect of one kind thus moves an anchor of another, and
widgets can be renamed like anything else. A rule's diagnostic is its name in
`errors`; `Policy` is `policyf`, an error under `--release` only.

`followRedirect` and `validateParentChain` are walked link by link: `SetOut`
takes any chain not walked yet, `Hop` goes on, `Arrive` ends it. That they end is
therefore something to check and not an assumption. The passes that visit each
topic once and report are one action each (`Validate`, `ResolveAnchors`,
`CheckCoverage`), since no topic's verdict depends on when it is reached.

### InferSchema

A cell is the kind of literal it holds, with integers past int64 kept apart
because the decoder tells them apart and the classifier does not. The variables
are those of `inferDataset`'s loop: the cursor (`row`, `col`), one `column`
record per column (`seen`, `typ`, `optional`, where it contradicted), and the
fields at the end. The loop body is one action per branch: `AbsentCell`,
`NullCell`, `UnscalarCell`, `FirstCell`, `FittingCell`, `MixedCell`,
`WideningCell` (inside the window), `LateCell` (past it); each of them ends in
`Advance`. `Emit` finalises the types as `inferDataset` does and picks the form
of each field as `emitProtoFile` does.

The properties compare the loop with a reading of the whole column at once:
`InfersAsDeclared` states, from the rows alone, when a dataset is refused and
with which verdict, and demands that `--full-scan` never changes which.

### ApiDocument

Schemas are abstracted to the types they refer to, because what matters of a
component is which others it pulls in. A run is given as the image (with which
files are generated, hence of a bundled library), the globs and topics as
ranks, the use sites of `@http` in order, and the history fetched for `x-since`.
A path is its template, which is what OpenAPI keys by, and its sub-path
patterns; the variables of its segments are sequences of field names.

| Action | Code |
|---|---|
| `Contribute`, `CheckTransitive` | `audienceIndex`: the pack's tiers, then the closure |
| `FetchHistory` | `buildSince`, which may fail |
| `Reserve`, `Reuse`, `UnknownType`, `Build` | `component`: `stack` is its recursion, for `buildAll` and later for each operation |
| `SkipUse`, `RefuseUse`, `BeginUse` | `operationsBuilder.buildAll`, and the checks of `operation()` |
| `ResolveLeaf`, `ResolveComponent`, `RefuseSegment` | `resolveFieldPath`, one component at a time, and `paramSchema` |
| `Descend`, `RefuseDescent` | `queryParams` and `bodyObject`, one message at a time |
| `RenderSchemas`, `FinishUse` | the components the bindings and the response need, and the claim on the path |
| `Emit` | `emitPaths`, the `x-since` pass, the report's components |

The order in which `component` is called does not decide what a document
holds, so the references of a schema, the variables of a path and the levels of
a request are taken in any order, and an operation's components are rendered
when its bindings are known. `CodeSources` are the types `collectCodes` visits,
written as the least set closed under its edges.

### RuleMapping

A rule is text; the mapper cuts it at its top-level `&&` and folds each piece
into a keyword of JSON Schema, or carries it under `x-validation`. Here a rule is
a sequence of pieces and a piece one atom, or two joined by `||`. Because `&&`
binds tighter than `||` in the language, what a rule means (`RuleHolds`) is not the
conjunction of its pieces, and that the mapping is nevertheless faithful is what
there is to show. An atom is what the mapper's patterns tell apart: its shape,
its operator and bound or its list, and whether it is written as the mapper reads
it (`plain`). A value is what atoms and keywords can tell of it. What is mapped
is one field with the aliases its type is declared through, each of which is a
schema of its own that the next refers to (`Layers`).

| Action | Code |
|---|---|
| `Pattern`, `Enum`, `Size`, `Bounds`, `Opaque` | `mapConjunct`, one action per shape of piece, inside the loops of `mapValidate` |
| `NextLayer` | an alias's component is complete and what refers to it is next |
| `Property` | `nullable`, on the property schema |

The constraints are the keywords a layer has so far, each of which holds one
value. `MapSize` is the code's order exactly: when the first of the two bounds of
`==` is set and the second is taken, the first stays and the piece is carried.
`EnumOf` is what `unquote` makes of a text that holds two lists.

### FmtRun, BuildRun, DocumentRun, StrictQuery, PxfCommand

Each of the first four is the state machine of one subcommand, with its
`Idle` state, its `Init` for a run it is given, and a stage that ends in `ok`,
`error` or `killed`. `PxfCommand` composes them as `newRootCmd` does: `command`
says which is run, the others stay idle.

| Actions | Code |
|---|---|
| `FmtCollect`, `FmtFlags`, `FmtListed` | `collectFmtInputs` and the checks of the flags |
| `FmtRead`, `FmtVerify` | `formatFile`, with `lostTokens`; the branches for `--check` and standard output |
| `FmtTruncate`, `FmtWrite`, `FmtWriteFails`, `FmtKilled` | `os.WriteFile` on the file in place, which may fail or be interrupted between the two |
| `CollectInput`, `Configure` | `collectBuildInputs` with `addPath`, then the configured libraries and `-I` |
| `Compile`, `CompilerFails`, `Report` | the opener chain, the compiler's errors, and its failure or its report's |
| `WriteImage` | `markImports` and the write, to a file or standard output |
| `DocStart`, `DocumentSchema`, `RootMessage` | the flags, `documentSchema`, `validateDescriptor`, `documentMessage` |
| `AnyBlock` | `lazyResolver`, handed the document's chain by `withSchema` |
| `BindDirective`, `Bound` | `resolveAnonymousProtos`, a directive at a time |
| `ResolveRows`, `BindRows` | `validateDatasets`, which resolves the chain again |
| `Publish`, `Unreachable` | the server publishes; a fetch fails |
| `LoadQuery`, `WalkOperand`, `Walked` | `effectiveMode`, `validateQueryStrict` |
| `RunQuery`, `Emit`, `Emitted` | `runQuery` and the emitters, an error among the results |

`FmtRun` knows of a content only what the code asks of it: whether it parses, how
often each token occurs in it, and what the printer makes of it. Printers that lose a
comment or produce what does not parse are contents like others. `BuildRun` has the
compiler as the files it opens, in any order, and the errors it may find; a build may
end at every error `runBuild` returns, those of the compiler run and of writing among
them. `DocumentRun` takes one resolution as an answer for every name, at the version
the server has then; what is inside a resolution is `SchemaRegistry`. A warning is its
text, in which the external file stands: a type the server moves to another file
(`PathOf`) is warned about again. Documents are trees (`Nodes`) that conform to the
types they are bound to (`BodyAssumption`): a message has the fields its type
declares, an Any and a map what the document gives them. `StrictQuery` compares the
static walk (`Trail`) with `Reads`, which follows a path through a document as jq
does, both a suffix at a time.

## 3. What the runs show

| Run | Shows |
|---|---|
| `registry` | all orders of merging and all points of failure of 450 requests: `ResolvesAsDeclared` (the tables answer what the options alone say), `WarnedExactly`, `CheckSound` and `CheckHonest` (what `Check` refuses, from both sides), `ImplementsPrecedence` |
| `registry_draft` | *violated*: `DisagreementRejected`, the draft's rule at line 679 |
| `registry_duplicates` | *violated*: `DuplicatesRejected`, the draft's rule at line 687 |
| `docpack` | every corpus of the families is compiled to its end: the pack has what the properties promise |
| `docpack_links` | *violated*: `LinksKeepAudience`, docs/DOC-PACK.md:221 |
| `infer` | every dataset, window and flag of the world: what is written admits every cell (`InputAdmitted`), presence is as the rows need it (`PresenceAsNeeded`), the verdict is the reference's (`InfersAsDeclared`), the flag the hint names works (`HintWorks`) |
| `infer_width` | *violated*: `InputValidates`, CHANGELOG.md:243 |
| `openapi` | every API of the families is generated to its end: nothing restricted is shown (`NothingRestricted`), references land (`NoDanglingRef`), recursion ends (`NeverTwice`), operations and bindings correspond (`OperationPerBinding`), versions are the operation's own (`SinceOfOwner`), each field is bound once (`BoundOnce`), markers travel with what is flattened (`SensitivityTravels`) |
| `rules` | every field of the world is mapped to its end: what the schema and the `x-validation` entries accept the rules accept (`NothingDisappears`), and where rules are plain the other way round (`NeverNarrower`); null is taken where PXF takes it (`NullExactly`) |
| `rules_wide` | *violated*: `NoRuleDropped`, internal/openapi/validate.go:12-13 |
| `commands` | every run of every command, wherever it fails or is killed: no `.proto` says less than it said (`NothingLost`), only a build without errors and without `--check` writes an image, which is whole and marked unless the run failed or was killed while writing, and directories' files are compiled from them (`ImageFaithful`), a document is read with its own definitions and warned of once (`DecodesAsDeclared`), the datasets `validate` reads are bound in order or refused (`RowsBound`), strict mode refuses only what no document can have, runs no path from the root that no document can have, and reports errors (`StrictHonest`) |
| `build_roots` | *violated*: `ArgumentsCompiled`, cmd/pxf/build.go:331 |

### What was found

* **`registry_draft`.** `shadow` compares a document's type with the external
  type its name answers to *now*. With `-p` defining `X` and a message `M` bound
  to it, a bundle that redefines `X`, and a document that repeats the bundle's
  `X`, nothing differs; `M` is still bound to `-p`'s `X`, which the document
  contradicts, and `Check(M)` passes. `CheckSound` is what the code does
  promise: it is the same rule for the types that are still the last external
  ones (`Live`).
* **`registry_duplicates`.** `external` answers nothing for a name that is
  already the document's, so two descriptor-form bodies, or one and a source
  form, may define a name differently without any error or warning.
* **`docpack_links`.** `checkAudience` is asked about anchors, never about links.
* **`infer_width`.** An integer literal is `int64` to `classifyCellValue`
  whatever its size; a column with a larger one gets a field that cannot hold it.
* **`rules_wide`.** `mapConjunct` takes a bound on an `int64` for mapped and sets
  `minimum` or `maximum` on a schema of type string, where a numeric keyword
  binds nothing. The bound is in neither place.
* **`build_roots`.** `addPath` compares the paths arguments *claim*; a file
  argument makes its whole directory a root. Given `b/y.proto a/x.proto`, with a
  `b/x.proto` on disk, `x.proto` is compiled from `b`. For directories, which
  claim all they serve, `ImageFaithful` shows that it cannot happen.

Seen while modelling, without a run:

* The document's `@proto` is merged last and wins; cmd/pxf/README.md:66 says the
  fetch from a registry does.
* Redirects are looked up by id whatever the kind of anchor: one declared for one
  kind moves another kind's anchor of the same spelling, although
  docs/DOC-PACK.md:209 says that a redirect must not cross kinds. `AnchorsLand`
  holds nevertheless: where the anchor lands, its own kind has something.
* A path with `{ts}` and `{ts.seconds}`, where `ts` is a timestamp of an image that
  carries google/protobuf/timestamp.proto, is accepted: `resolveFieldPath`
  (operations.go:738) goes on through the descriptor, `ts` is a leaf all the same,
  and the same value is two path parameters. A variable written twice is two
  parameters of one name (operations.go:57, 272). `BoundOnce` is about paths
  whose variables lie apart (`VariablesApart`); the model has the others.
* `operation()` renders any verb, claims an id and a path for it and pulls its
  schemas in; `emitPaths` copies eight verbs. A binding with another one
  disappears without a diagnostic (docs/RFC-001-schema-extensions.md:272).
* The mapping of rules, beyond the preconditions `Binding` and `Plain`: a size of
  bytes becomes a length of base64; `a && b || c` is cut at `&&`, which makes `a` a
  keyword although `c` alone satisfies the rule; two quoted lists joined by `||` are
  read as one list with a garbled member; `this in [1, 2]` on an enum or a 64-bit
  integer lists numbers where JSON has strings, and accepts nothing; rules of an
  alias on the entries of a map are dropped. `NullExactly` leaves out a flat
  optional field with an `enum`, which rejects null, and a `@required` wrapper, which
  accepts it (cmd/pxf/README.md:307 says otherwise).
* Strict mode refuses `.nested | .inner`, because every operand is checked against
  the root, and `.labels.foo` on a map, while strict.go:69 says that there are no
  false positives. A comment (strict.go:81-86) and a test tell of the first, so
  what `StrictHonest` says of refusals is about queries without a pipe and without a
  map in their way. That what runs looks up nothing undeclared is about paths from
  the root: a path after a pipe, a `?` or inside an object term is out of its scope.
* `pxf query -m` with a name that is not found runs in loose mode.
* `validate` resolves the chain of the rows anew, so the body and the rows of one
  document may be of different versions of a server's schemas; `OneResolution`
  is of each by itself. A document without directives has a resolution for its root
  and another for its Any blocks, which may differ likewise. A type that a server
  moves to another file in between is warned about twice, once with each file.
* docs/draft-trendvidia-protowire-01.md:685 says that an anonymous `@proto` no typed
  directive consumes MUST be rejected, and so does schema.go:256-259. Only
  `validateDatasets` binds: `encode`, and `validate -m` of a document without a dataset
  (main.go:243, 275), accept one. `RowsBound` is about the datasets `validate` reads.
* `drop` removes what is nested in a replaced type by *name*. Given an external
  message `X` with an `X.N`, one `@proto` that defines an `N` of its own in a package
  called `X`, and a later one that defines a message `X`, the document's own `X.N` is
  gone. Protobuf would refuse a message and a package of one name in one pool; the
  bodies are compiled apart. `WellPosed` asks that types of one name be nested alike.
* `fmt -w` writes in place: a write that is cut short leaves that one file torn.
  `NothingLost` says that it is the only one.
* `aliasSensitive` looks at the alias itself, so an alias over a
  `@sensitive` alias emits its own example. Fields of a more restricted glob or
  topic than their message are emitted: `included` is asked about types and
  methods only.
* cmd/pxf/README.md:220 says `--full-scan` collects "every contradiction and
  refusal", but a list, block or identifier cell ends the command at once with
  or without the flag. `UnscalarCell` does what the code does.

### Bounds, and why they are enough

`MCSchemaRegistry`: every property speaks of at most two definitions of one name in
external files and one in the document, a message bound to one of them, and a nested
type. The world has each: `p` and `b` define `X` and `X.N` differently, `z` an `X`
with nothing nested; messages are bound to the outer type, the nested one, an enum, a
chain of two, and a type of a file that was imported and not given; document files
repeat the first or the second definition, contradict both, redefine only the
enclosing type, give the name of a nested type to one of their own, and fail to
import. Requests mix them, with complete, absent and partial coordinates and
descriptor bodies of two files. `WellPosed` leaves out of three properties the
requests where two `@proto` units define one name (the subject of
`registry_duplicates`), those where `-p` and a bundle disagree about what kind of
thing a name is or what is nested in it, and those where sources disagree about
whether a name is nested, for which the code promises nothing.

`MCDocPack`: one family for each thing that can be wrong. Navigation: all
parent functions on three topics, hence cycles of length 1 to 3 and tails into
them. Redirects: all sequences of up to two and a chain of three, with the
retired targets present or gone. Audiences by rank, unset, equal, above, below,
with and without a redirect. Widgets: a widget, a member of one, a common prop and
a name no widget has, anchored in a topic, with redirects to and from the widget and
a catalog that has it, has not, or is not given. Reviews: all states, revisors and digests.
Translations, links, headings, coverage: all combinations of the cases the
code distinguishes. There are no counters to bound: a compilation is as long
as its corpus.

`MCInferSchema`: three rows are what the loop can tell apart: one that fixes
the candidate, one that widens it, and one that meets the result, inside the
window or past it; windows of every size from one row to all. One cell kind per
row of `classifyCellValue`, two message types that agree with nothing else, and
the three that cannot be a column. Columns do not influence each other except
through the order in which a contradiction is met, for which two are enough.

`MCApiDocument`: audiences, all ranks of 1 and 2 for the method, its service,
its request, a nested message and an alias, with packs that restrict what globs
do not and topics of one anchor in both orders, at two tiers. Closures: cycles
of one and two messages, aliases over messages, types the image leaves out.
Flattenings: all pairs of paths up to depth three into a request, beside
nested messages that are scalars, a well-known type with fields of its own, other
messages or the request itself, with one marker anywhere; a variable repeated, and
one inside what another names. Operations: two use sites, of one method or two, and all
combinations of ids, verbs, patterns, schemes, audiences and histories.
`MaxDepth`, which is 3, bounds the paths `BoundOnce` asks about: one more than the
depth of a container in the family that is flattened. The theorem about it holds
for every `MaxDepth`, and so of all paths.

`MCRuleMapping`: what a piece is mapped to depends on its own atoms and on which
keywords are taken, so two pieces reach every branch: all pairs of atoms of each
kind of field, in one rule, in two rules of a field, in an alias and the field, and
in two aliases. Single pieces of two atoms are all there are, and three-piece
rules put `||` beside `&&` on either side. Bounds are equal or one apart, values lie on
both sides of each (sizes and numbers 0 to 3), and what a value is, what it
measures and what it satisfies vary independently. `plain` is switched off for
each atom in turn. Containers have two elements, which may differ.

`MCPxfCommand`: `fmt`, two files of every content, one more in PXF, in arguments that
name a file twice, a directory and a file of it, or something missing. `build`,
one or two arguments out of nine: three directories of which two share a path and
one lies beneath another, an empty one, files that claim what a directory has;
`-I` roots that have the same paths again; libraries that compile, fail or do not
load. Two roots are what a path can be served from wrongly. `document`: a type,
one that holds it, and a document that redefines neither, one or both, or repeats
a definition; every sequence of up to three row directives; two Any blocks, one
of which reaches the other's type; one publication at any moment, after which one type
is in another file. `query`: every
path of up to three suffixes over a message with a field of each kind, pairs of
eight operands on both sides of a pipe and of an operator, and the flags, outcomes
and failures on three of them.

### Fairness

`DocPack!FairSpec` is `WF_vars(Next)`: `Compile` is one goroutine which waits
for nothing, so it takes a step whenever it can. `Terminates` needs no more.
`SchemaRegistry` states no liveness: a fetch may hang as long as its context
lets it. Neither does `ApiDocument`: that its recursion ends is the invariant
`NeverTwice`, since a type on the stack twice is how it would not. Nor do the
commands: they may be killed, and a fetch or a disk may keep them.
`RuleMapping` is loops over finite sequences.

`CHECK_DEADLOCK FALSE` in every configuration: the programs return.

## 4. What is proved

From `DescriptorAssumption` and `RequestAssumption` (what protobuf guarantees
of descriptors: names unique in a file and in the files linked together, nesting
finite and within a file), for any set of descriptors, files and requests:

* `TypeCorrect`: `Spec => []TypeOK`.
* `HonestCheck`: `Spec => []CheckHonest`, at every step and not only at the end.
  The invariant ties `fromDocument` to the tables: a name that differs is one
  the document defines, and an entry under it is the document's own. Without
  it `isDocument` could be false of the very type the registry answers.
* `PrecedenceKept`: `Spec => Precedence!Spec`, step by step. It needs
  that until a document is read no entry is a document's (`ExternalStage`), and
  that a name the document owns is never dropped: `external` answers nothing for
  it, and a nested name of a replaced type is owned only if its parent was.
* `ResolutionAsDeclared`, `WarningsExact` and `CheckMissesNothing`, which say what a
  finished resolution answers, warned of and refuses, whatever the order its files
  came in. Their invariant, `RInv`, gives the tables after *any* set of the current
  unit's files: a name answers the last external definition among the files read;
  once documents are read it answers theirs, or what the names they took have
  `Left` of the external one; `differs` and `warnings` are of the outermost types that
  clash with a type read (`Clashing`). Each is a function of the set of types read
  and not of their order, so merging a file is adding its types to the set
  (`ClashingUnion`). It needs that nesting is finite, to name the outermost type
  that clashes; the shadowing loop is over the types of a file, the set over those
  of all files, and a nested type whose parent has come in another unit is where
  `WellPosed` is used.

From `InputAssumption`, for any corpus, image and catalog, the ten theorems of
`DocPackProofs`. They share these inductive invariants:

* `TypeInv`, which also says that redirects are filed under the id they
  redirect from, that no two topics have one identity, and that a walk is only
  under way in the passes that walk;
* `LoopsFound`: a set of links that leads only back into itself either still
  has a chain to be walked from it, or is being walked with the links seen so
  far inside it, or has been reported. `Hop` keeps it because a walk that
  cannot leave a set must come to a link it has seen. This is what makes
  `ChainsEnd` hold for cycles of every length, where TLC looks at three;
* `Validated` and `AnchorsResolved`: after a pass, the absence of an error
  means the rule it enforces holds of every topic collected, and nothing
  later changes topics or redirects. `NoDanglingAnchor` reads off the second what
  each kind of anchor lands on, a widget's member or common prop as well;
* `Covered`, the same for coverage; `PackInv` says what a pack is made of.

`OneHop` adds `DeclaredFiled`: the redirects not declared yet are the tail of the
input's sequence and, while there is no error, each one before them is filed. That
two chains which meet end alike then needs no uniqueness of a walk: a chain is a
recursive function of its length (`ChainNext`), and one that starts a hop later
is the same one a step shorter (`TerminusNext`).

From `InferAssumption`, for any files, rows, columns and flags, in
`InferSchemaProofs`: `SchemaAdmitsInput` and `OptionalExactly`. What must hold
in the middle of a scan, about the cells already visited only, is `Admitting`:
a candidate is typed exactly if a cell was seen, it holds all of those that the
scan let pass, and a column is optional exactly if a visited row leaves it out.
The lemma that carries it is that a join is above both its sides, so that
widening a candidate never loses a cell admitted earlier.

`VerdictAsDeclared` and `HintRecovers` compare the loop with the whole column. The
invariant, `Verdicts`, has `Candid` of each column at the depth it is read to: the
candidate is the class of some cell read, it can hold every class read unless the
column was contradicted, and the column was contradicted exactly if what was read
of it is a `Misfit`. The hard case is the window: a float after integers is a
misfit at the first row past it, and stays one whatever follows.

From `RunAssumption`, `LibraryAssumption` (a bundled library's types, Google's among
them, mention only bundled types) and `FieldAssumption` (the fields of a message have
different names), for any API, configuration, pack, history and audience, in
`ApiDocumentProofs`:

* `RestrictsNothing`. `OnlyShown` says of everything on its way into a document,
  the calls left on `component`'s stack, the segments and messages still to be
  descended into, what was placed, that it may be shown. It is inductive because
  of `Settled`: past `checkTransitive` the closure is consistent, so what a type
  that may be shown mentions may be shown (`MentionsShown`), and the index no
  longer changes. For error codes, the set of types that may be shown is itself
  closed under `collectCodes`' edges, and so contains the least such set.
* `RecursionEnds` and `RefsLand`, from one invariant: what holds a slot is built
  or on the stack, no type is on it twice, and all references of either are
  reserved but for those left to a call (`Slots`); an operation's needs likewise
  (`Served`). When the first call returns nothing is reserved and not built.
* `OneOperationPerBinding` and `SinceIsOwn`: the use sites passed correspond to
  the operations one to one (`Rendered`), so that of the visible use sites only
  an operation's own has its path and verb.
* `MarkersTravel`. The code hands a Boolean down as it descends, the property
  looks at the whole path from the request. `Following` ties the two: each segment
  and each level of the descent is at the one message its path leads to, carries a
  marker exactly if the path has one (`Marked`), and knows exactly the bound
  paths below it. A field's step extends a path by one component (`Further`), and a
  container is a message, not a list or a map, because a bound path that was
  resolved goes through it (`ContainerHolds`): that a path's variables are all
  resolved before the descent starts is needed here.
* `EachBoundOnce`. The whole argument is about where paths are cut (`Cut`): no
  bound path goes on from there, one goes through each container on the way. What is
  placed is cut where it ends (`Fitting`), and what is cut is placed or awaited by a
  level of the descent above it (`Sharing`); so when nothing is left to descend
  into, the cuts are exactly what was placed (`Distributed`). A path is cut at one
  point at most, its own or that of what holds it, or else a bound path goes through
  all of it, which is bound in pieces. That no path variable goes through another, or is
  written twice, is the premise `VariablesApart`, of the one use site the operation is
  of; without it the statement is false of the code. Two records of one path are one,
  since the path decides place, references and, by `MarkersTravel`'s invariant,
  sensitivity. A template that names a message and a part of it is refused when its
  segments are resolved, unless the message is a well-known type.

From `RuleAssumption`, for any field with any number of aliases, rules and pieces, in
`RuleMappingProofs`: `NoConstraintDisappears`, `NoKeywordNarrower`, `NullWhereTaken`
and `MapTypeSafe`. The first two are of rules that suit the type (`RulesTyped`) and
bind (`Binding`: no bound on a 64-bit integer, no size of bytes, no alias on a map),
the second of `Plain` rules besides; `NullWhereTaken` excludes lists and maps, a field
without an alias whose schema got an enum, and a required wrapper. Outside of these
the code does otherwise, as told above. The properties speak of the end of the loop;
the invariant, `MapIInv`, says at every piece that what a layer accepts, the pieces
the loop is past hold of (`SaysDone`), and for plain rules the converse
(`SaysOnlyDone`). It rests on one lemma per way to fold a piece, all of one form,
`Tightens`: the constraints afterwards accept what they accepted before and the piece
holds of. `PiecesMakeRule` leads from pieces to rules: that all pieces hold makes the
rule hold although `&&` binds tighter than the `||` inside them, because the last
piece whose second atom holds, or else the first, is bound to first atoms that hold.
`RuleMakesPieces` is the converse, for rules without `||` beside `&&`.

Of the commands, each theorem is proved of the command alone (`FmtSpec`,
`BuildSpec`, `DocSpec`) and of the program (`Spec` of `PxfCommand`), where another
command may be the one that runs:

* From `FmtAssumption`, for any files, contents and printers: `FmtLosesNothing`,
  `PxfLosesNothing`, `FmtTypeSafe`. The invariant `FmtIInv` follows one file from the
  disk to `src`, to `out` and back: each says at least what the one before says, even
  when a file is given twice and the second reading meets the first writing.
* From `BuildAssumption`, for any arguments, trees and libraries: `BuildFaithful`,
  `PxfBuildFaithful`, `BuildTypeSafe`. `BuildIInv` says what the loop over the arguments
  has claimed, that what was opened is what the chain serves and is reported if it is
  broken (`OpenedAll`), and that nothing is pending or faulty while an image is written,
  after it is, or when a part of one is left (`ImageOf`). That a path
  claimed from a directory is served from it needs a least root that has the
  path: it comes before every `-I` root, so it is some argument's, which claimed
  the path too, and two claims are of one file.
* From `DocAssumption`, for any document, schemas and number of publications:
  `DocumentDecodesAsDeclared`, `PxfDecodesAsDeclared`, `DocTypeSafe`,
  `DocumentRowsBound`, `PxfRowsBound`. `DocIInv` says of each chain a command holds
  that it answers the document's names as the document does and that its warnings have
  been printed (`Chains`), and which chain the uses of each stage are of (`UsesOf`).
  Since only lines not printed yet are appended, in whatever order, no text occurs
  twice, also if versions differ. For rows, `RowsBound` says that the loop's binding
  is *the* matching of typeless datasets with anonymous directives, and that a
  document refused has none. `Binding` is what the loop has bound and kept pending;
  `MatchedAlike` shows by a least counterexample that every matching of the whole
  document agrees with it, so that a dataset with nothing pending refutes them all.
* From `QueryAssumption` and `BodyAssumption`, for any schema, documents and query:
  `QueryHonest` and `PxfStrictHonest`. The invariant `QueryIInv` says that the
  operands walked were all resolved. `RefusedIsMisnamed` takes the first unknown field
  of a refused path and shows that no document of the root type can be read to there;
  `UndeclaredIsRefused` is the converse, of paths from the root. Both compare two
  functions defined a suffix at a time, whose existence is `StepwiseExists`.
* From all of these, `CommandTypeSafe`: every command's state keeps its type.

## 5. What is only model-checked, and why

Each safety property that a run shows to hold is proved. What is left to TLC:

* `Terminates`: liveness is out of the prover's reach.
* That the recursive functions the proofs speak of (`Chain`, `Trail`, `Reads`,
  `MessagesAlong`) compute what a reader expects of them is for TLC: proofs use the
  equation that defines them.

## 6. Not modelled

In schema resolution: reading files and parsing protobuf (protocompile), the
HTTP client of a protoregistry server, unmarshalling. In docpack: source
positions and wording of diagnostics, the search index, provenance, parsing of
images and catalogs, warnings. In openapi: the configuration file, titles and
texts, examples, the report's layout, the writers. In the commands: the diff and
the layout the printers choose, `decode`, `lint` and the two SBE conversions (each a
call of one library function on one document), how a query's data is loaded and
its results are printed, and the `pxf_` functions, which convert data and keep
nothing. `pxfschema` and the protoc plugins (the Java one with its layout of SBE
messages) are single passes over a descriptor that keep no state between files;
what they emit is held to golden files. The editor plugins' callbacks are a few
lines around a client library whose states are not in this repository. Scripts
drive other programs.

## 7. Plan

1. *(done)* `SchemaPrecedence`, `SchemaRegistry` and proofs; `DocPack` and proofs.
2. *(done)* `InferSchema` and proofs.
3. *(done)* `ApiDocument` and proofs.
4. *(done)* `RuleMapping` and proofs: no rule disappears between keywords and
   `x-validation`.
5. *(done)* `FmtRun`, `BuildRun`, `DocumentRun`, `StrictQuery`, composed in
   `PxfCommand`; proofs of all.
6. `DocumentRun` over `SchemaRegistry` instead of answers for names.
7. *(done)* Proofs of `ResolvesAsDeclared`, `WarnedExactly`, `CheckSound`,
   `RedirectsResolved`, `InfersAsDeclared`, `HintWorks`, `RowsBound`, `StrictHonest`,
   `SensitivityTravels` and `BoundOnce`.
