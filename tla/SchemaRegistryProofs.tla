------------------------ MODULE SchemaRegistryProofs ------------------------
(***************************************************************************)
(* Theorems about SchemaRegistry: its types, the honesty of Check, and the *)
(* precedence of a document's definitions, for every set of descriptors    *)
(* and every request.                                                      *)
(***************************************************************************)
EXTENDS SchemaRegistry, SequenceTheorems, FiniteSetTheorems, InductionLemmas

Holding(types) == [Name -> types \union {None}]

Table == Holding(Type)

(***************************************************************************)
(* Where the tables stand relative to the stage: the inductive             *)
(* strengthening of TypeOK.                                                *)
(***************************************************************************)
\* An entry is filed under its own name.
FiledByName ==
  \A n \in Name :
    /\ byFullName[n] # None => NameOf[byFullName[n]] = n
    /\ enums[n] # None => NameOf[enums[n]] = n

\* Until the external sources are read, nothing is the document's.
ExternalFirst ==
  stage \in ExternalStage =>
    /\ fromDocument = {}
    /\ differs = {}
    /\ pending \subseteq ExternalFile

\* From then on only document files are merged.
DocumentLast ==
  stage \in {"document", "mergeDocument"} /\ pending # {} => pending \subseteq DocumentFile

\* A registered document type had its whole file marked.
DocumentMarked ==
  \A n \in Name : \A d \in {byFullName[n], enums[n]} :
    d \in DocumentType => NamesOf(TypesOf(FileOf[d])) \subseteq fromDocument

\* The external type a document redefined is out of both tables.
DiffersGone ==
  \A n \in differs : {byFullName[n], enums[n]} \subseteq DocumentType \union {None}

IInv ==
  /\ TypeOK
  /\ FiledByName
  /\ ExternalFirst
  /\ DocumentLast
  /\ DocumentMarked
  /\ DiffersGone

-----------------------------------------------------------------------------
(* The table operators. *)

LEMMA PutValue ==
  ASSUME NEW table \in Table, NEW types \in SUBSET Type, NEW n \in Name
  PROVE  /\ n \in NamesOf(types) =>
              Put(table, types)[n] \in types /\ NameOf[Put(table, types)[n]] = n
         /\ n \notin NamesOf(types) => Put(table, types)[n] = table[n]
<1>1. CASE n \in NamesOf(types)
  <2>1. \E d \in types : NameOf[d] = n
    BY <1>1 DEF NamesOf
  <2>2. PICK d : d \in types /\ NameOf[d] = n
    BY <2>1
  <2>3. LET c == CHOOSE e \in types : NameOf[e] = n IN c \in types /\ NameOf[c] = n
    BY <2>2
  <2>4. Put(table, types)[n] = CHOOSE e \in types : NameOf[e] = n
    BY <1>1 DEF Put
  <2>5. QED
    BY <1>1, <2>3, <2>4
<1>2. CASE n \notin NamesOf(types)
  BY <1>2 DEF Put
<1>3. QED
  BY <1>1, <1>2

LEMMA PutHolding ==
  ASSUME NEW held \in SUBSET Type, NEW table \in Holding(held), NEW types \in SUBSET held
  PROVE  Put(table, types) \in Holding(held)
<1>1. table \in Table
  BY DEF Table, Holding
<1>2. \A n \in Name : Put(table, types)[n] \in types \union {table[n]}
  BY <1>1, PutValue
<1>3. \A n \in Name : Put(table, types)[n] \in held \union {None}
  BY <1>2 DEF Holding
<1>4. QED
  BY <1>3 DEF Put, Holding

LEMMA WithoutHolding ==
  ASSUME NEW held \in SUBSET Type, NEW table \in Holding(held), NEW names
  PROVE  Without(table, names) \in Holding(held)
BY DEF Without, Holding

LEMMA WithoutTable ==
  ASSUME NEW table \in Table, NEW names
  PROVE  /\ Without(table, names) \in Table
         /\ \A n \in Name : Without(table, names)[n] = IF n \in names THEN None ELSE table[n]
BY DEF Without, Table, Holding

\* Messages and enums are filed apart.
LEMMA Tables ==
  ASSUME TypeOK
  PROVE  /\ byFullName \in Table
         /\ enums \in Table
BY DescriptorAssumption DEF TypeOK, Table, Holding

LEMMA NamesOfTypes ==
  ASSUME NEW types \in SUBSET Type
  PROVE  NamesOf(types) \subseteq Name
BY DescriptorAssumption DEF NamesOf

LEMMA ExternalType ==
  ASSUME TypeOK, NEW n \in Name
  PROVE  External(n) \in Type \union {None}
BY Tables DEF External, Table, Holding

LEMMA ReplacedTypes ==
  ASSUME TypeOK, NEW f \in File
  PROVE  /\ Replaced(f) \subseteq Type
         /\ Redefined(f) \subseteq Replaced(f)
<1>1. \A d \in Shadowing(f) : d \in Type /\ NameOf[d] \in Name /\ External(NameOf[d]) # None
  BY DescriptorAssumption DEF Shadowing, TypesOf
<1>2. \A d \in Shadowing(f) : External(NameOf[d]) \in Type
  BY <1>1, ExternalType
<1>3. QED
  BY <1>2 DEF Replaced, Redefined

-----------------------------------------------------------------------------
(* Type correctness. *)

LEMMA InitTypeOK == Init => TypeOK
<1> SUFFICES ASSUME Init PROVE TypeOK
  OBVIOUS
<1>1. opts.blobs \in Seq(SUBSET DocumentFile)
  BY RequestAssumption DEF Request, Init
<1>2. EmptyTable \in Holding(Messages) /\ EmptyTable \in Holding(Type \ Messages)
  BY DEF EmptyTable, Holding
<1>3. QED
  BY <1>1, <1>2 DEF Init, TypeOK, Holding, ExternalStage

LEMMA MergeTypeOK ==
  ASSUME TypeOK, NEW f \in File, Merge(f)
  PROVE  /\ byFullName' \in Holding(Messages)
         /\ enums' \in Holding(Type \ Messages)
<1>1. byFullName \in Holding(Messages) /\ enums \in Holding(Type \ Messages)
  BY DEF TypeOK, Holding
<1>2. Messages \in SUBSET Type /\ TypesOf(f) \ Messages \in SUBSET (Type \ Messages)
  BY DescriptorAssumption DEF TypesOf
<1>3. QED
  BY <1>1, <1>2, PutHolding DEF Merge

LEMMA MergeDocumentTypeOK ==
  ASSUME TypeOK, NEW f \in File, MergeDocument(f)
  PROVE  /\ byFullName' \in Holding(Messages)
         /\ enums' \in Holding(Type \ Messages)
         /\ fromDocument' \in SUBSET Name
         /\ differs' \in SUBSET Name
         /\ warnings' \in SUBSET (Name \X File)
<1>1. /\ Messages \in SUBSET Type
      /\ Type \ Messages \in SUBSET Type
      /\ TypesOf(f) \ Messages \in SUBSET (Type \ Messages)
  BY DescriptorAssumption DEF TypesOf
<1>2. /\ Without(byFullName, Dropped(f)) \in Holding(Messages)
      /\ Without(enums, Dropped(f)) \in Holding(Type \ Messages)
  BY <1>1, WithoutHolding DEF TypeOK, Holding
<1>3. byFullName' \in Holding(Messages) /\ enums' \in Holding(Type \ Messages)
  BY <1>1, <1>2, PutHolding DEF MergeDocument
<1>4. NamesOf(TypesOf(f)) \subseteq Name
  BY NamesOfTypes DEF TypesOf
<1>5. Redefined(f) \subseteq Type
  BY ReplacedTypes
<1>6. NamesOf(UNION {Family(x) : x \in Redefined(f)}) \subseteq Name
  <2>1. UNION {Family(x) : x \in Redefined(f)} \subseteq Type
    BY <1>5 DEF Family
  <2>2. QED
    BY <2>1, NamesOfTypes
<1>7. {<<NameOf[x], FileOf[x]>> : x \in Redefined(f)} \subseteq Name \X File
  BY <1>5, DescriptorAssumption
<1>8. QED
  BY <1>3, <1>4, <1>6, <1>7 DEF MergeDocument, TypeOK

LEMMA NextTypeOK ==
  ASSUME TypeOK, [Next]_vars
  PROVE  TypeOK'
<1>1. CASE ValidateRef
  BY <1>1 DEF ValidateRef, Fail, TypeOK, registry, ExternalStage
<1>2. CASE CompileExternal
  <2>1. opts.user \subseteq File
    BY RequestAssumption DEF Request, TypeOK, File
  <2>2. QED
    BY <1>2, <2>1 DEF CompileExternal, Fail, TypeOK, registry, ExternalStage
<1>3. CASE FetchBundle
  <2>1. opts.bundle \subseteq File
    BY RequestAssumption DEF Request, TypeOK, File
  <2>2. QED
    BY <1>3, <2>1 DEF FetchBundle, Fail, TypeOK, registry, ExternalStage
<1>4. CASE BundleMerged
  BY <1>4 DEF BundleMerged, TypeOK, registry, ExternalStage
<1>5. CASE CompileVirtual
  <2>1. opts.virtual \subseteq File
    BY RequestAssumption DEF Request, TypeOK, File
  <2>2. QED
    BY <1>5, <2>1 DEF CompileVirtual, Fail, TypeOK, registry, ExternalStage
<1>6. CASE HydrateBlob
  <2>1. blobs # <<>> => Head(blobs) \in SUBSET DocumentFile /\ Tail(blobs) \in Seq(SUBSET DocumentFile)
    BY HeadTailProperties DEF TypeOK
  <2>2. QED
    BY <1>6, <2>1 DEF HydrateBlob, Fail, TypeOK, registry, ExternalStage, File
<1>7. ASSUME NEW f \in File, MergeNext(f) PROVE TypeOK'
  <2>1. CASE Merge(f)
    BY <1>7, <2>1, MergeTypeOK DEF MergeNext, Merge, TypeOK, Holding, ExternalStage
  <2>2. CASE MergeDocument(f)
    BY <1>7, <2>2, MergeDocumentTypeOK DEF MergeNext, TypeOK, Holding, ExternalStage
  <2>3. QED
    BY <1>7, <2>1, <2>2 DEF MergeNext
<1>8. CASE Return
  BY <1>8 DEF Return, TypeOK, registry, ExternalStage
<1>9. CASE UNCHANGED vars
  BY <1>9 DEF vars, registry, TypeOK, ExternalStage
<1>10. QED
  BY <1>1, <1>2, <1>3, <1>4, <1>5, <1>6, <1>7, <1>8, <1>9 DEF Next

(***************************************************************************)
(* Every reachable registry is well typed, whatever the sources hold.      *)
(***************************************************************************)
THEOREM TypeCorrect == Spec => []TypeOK
<1>1. QED
  BY InitTypeOK, NextTypeOK, PTL DEF Spec

-----------------------------------------------------------------------------
(* The inductive invariant. *)

LEMMA InitIInv == Init => IInv
<1> SUFFICES ASSUME Init PROVE IInv
  OBVIOUS
<1>1. TypeOK
  BY InitTypeOK
<1>2. \A n \in Name : byFullName[n] = None /\ enums[n] = None
  BY DEF Init, EmptyTable
<1>3. None \notin DocumentType
  BY DescriptorAssumption DEF DocumentType
<1>4. QED
  BY <1>1, <1>2, <1>3
  DEF Init, IInv, FiledByName, ExternalFirst, DocumentLast, DocumentMarked, DiffersGone

\* A step that merges nothing keeps the tables, so only the stage matters.
LEMMA QuietStep ==
  ASSUME IInv, TypeOK', UNCHANGED registry,
         stage' \in ExternalStage => stage \in ExternalStage /\ pending' \subseteq ExternalFile,
         stage' \in {"document", "mergeDocument"} => pending' \subseteq DocumentFile
  PROVE  IInv'
BY DEF IInv, registry, FiledByName, ExternalFirst, DocumentLast, DocumentMarked, DiffersGone

LEMMA MergeIInv ==
  ASSUME IInv, TypeOK', NEW f \in File, MergeNext(f), Merge(f), stage \in ExternalStage
  PROVE  IInv'
<1>1. byFullName \in Table /\ enums \in Table
  BY Tables DEF IInv
<1>2. f \in ExternalFile /\ f \notin DocumentFile
  BY DescriptorAssumption DEF IInv, ExternalFirst, MergeNext
<1>3. TypesOf(f) \intersect DocumentType = {}
  BY <1>2 DEF TypesOf, DocumentType
<1>4. \A n \in Name : byFullName'[n] \in TypesOf(f) \union {byFullName[n]}
                     /\ (byFullName'[n] # None => NameOf[byFullName'[n]] = n)
  BY <1>1, PutValue DEF Merge, TypesOf, IInv, FiledByName
<1>5. \A n \in Name : enums'[n] \in TypesOf(f) \union {enums[n]}
                     /\ (enums'[n] # None => NameOf[enums'[n]] = n)
  BY <1>1, PutValue DEF Merge, TypesOf, IInv, FiledByName
<1>6. stage' = stage /\ pending' \subseteq pending
  BY DEF MergeNext
<1>7. UNCHANGED <<fromDocument, differs>>
  BY DEF Merge
<1>8. FiledByName'
  BY <1>4, <1>5 DEF FiledByName
<1>9. ExternalFirst' /\ DocumentLast'
  BY <1>6, <1>7 DEF IInv, ExternalFirst, DocumentLast, ExternalStage
<1>10. DocumentMarked'
  BY <1>3, <1>4, <1>5, <1>7 DEF IInv, DocumentMarked
<1>11. DiffersGone'
  BY <1>7 DEF IInv, ExternalFirst, DiffersGone
<1>12. QED
  BY <1>8, <1>9, <1>10, <1>11 DEF IInv

LEMMA MergeDocumentIInv ==
  ASSUME IInv, TypeOK', NEW f \in File, MergeNext(f), MergeDocument(f), stage = "mergeDocument"
  PROVE  IInv'
<1>1. byFullName \in Table /\ enums \in Table
  BY Tables DEF IInv
<1>2. f \in DocumentFile
  BY DEF IInv, DocumentLast, MergeNext
<1>3. TypesOf(f) \subseteq DocumentType /\ \A d \in TypesOf(f) : FileOf[d] = f
  BY <1>2 DEF TypesOf, DocumentType
<1>4. \A n \in Name : /\ byFullName'[n] \in TypesOf(f) \union {byFullName[n], None}
                      /\ byFullName'[n] # None => NameOf[byFullName'[n]] = n
                      /\ n \in Dropped(f) => byFullName'[n] \in TypesOf(f) \union {None}
  <2> SUFFICES ASSUME NEW n \in Name
               PROVE  /\ byFullName'[n] \in TypesOf(f) \union {byFullName[n], None}
                      /\ byFullName'[n] # None => NameOf[byFullName'[n]] = n
                      /\ n \in Dropped(f) => byFullName'[n] \in TypesOf(f) \union {None}
    OBVIOUS
  <2>1. TypesOf(f) \intersect Messages \in SUBSET Type
    BY DEF TypesOf
  <2>2. Without(byFullName, Dropped(f)) \in Table
    BY <1>1, WithoutTable
  <2>3. Without(byFullName, Dropped(f))[n] = IF n \in Dropped(f) THEN None ELSE byFullName[n]
    BY DEF Without
  <2>4. byFullName' = Put(Without(byFullName, Dropped(f)), TypesOf(f) \intersect Messages)
    BY DEF MergeDocument
  <2>5. /\ n \in NamesOf(TypesOf(f) \intersect Messages) =>
             byFullName'[n] \in TypesOf(f) \intersect Messages /\ NameOf[byFullName'[n]] = n
        /\ n \notin NamesOf(TypesOf(f) \intersect Messages) => byFullName'[n] = Without(byFullName, Dropped(f))[n]
    BY <2>1, <2>2, <2>4, PutValue
  <2>6. byFullName[n] # None => NameOf[byFullName[n]] = n
    BY DEF IInv, FiledByName
  <2>7. QED
    BY <2>3, <2>5, <2>6
<1>5. \A n \in Name : /\ enums'[n] \in TypesOf(f) \union {enums[n], None}
                      /\ enums'[n] # None => NameOf[enums'[n]] = n
                      /\ n \in Dropped(f) => enums'[n] \in TypesOf(f) \union {None}
  <2> SUFFICES ASSUME NEW n \in Name
               PROVE  /\ enums'[n] \in TypesOf(f) \union {enums[n], None}
                      /\ enums'[n] # None => NameOf[enums'[n]] = n
                      /\ n \in Dropped(f) => enums'[n] \in TypesOf(f) \union {None}
    OBVIOUS
  <2>1. TypesOf(f) \ Messages \in SUBSET Type
    BY DEF TypesOf
  <2>2. Without(enums, Dropped(f)) \in Table
    BY <1>1, WithoutTable
  <2>3. Without(enums, Dropped(f))[n] = IF n \in Dropped(f) THEN None ELSE enums[n]
    BY DEF Without
  <2>4. enums' = Put(Without(enums, Dropped(f)), TypesOf(f) \ Messages)
    BY DEF MergeDocument
  <2>5. /\ n \in NamesOf(TypesOf(f) \ Messages) =>
             enums'[n] \in TypesOf(f) \ Messages /\ NameOf[enums'[n]] = n
        /\ n \notin NamesOf(TypesOf(f) \ Messages) => enums'[n] = Without(enums, Dropped(f))[n]
    BY <2>1, <2>2, <2>4, PutValue
  <2>6. enums[n] # None => NameOf[enums[n]] = n
    BY DEF IInv, FiledByName
  <2>7. QED
    BY <2>3, <2>5, <2>6
<1>6. stage' = stage /\ pending' \subseteq pending
  BY DEF MergeNext
<1>7. fromDocument' = fromDocument \union NamesOf(TypesOf(f))
  BY DEF MergeDocument
<1>8. FiledByName'
  BY <1>4, <1>5 DEF FiledByName
<1>9. ExternalFirst' /\ DocumentLast'
  BY <1>6 DEF IInv, ExternalFirst, DocumentLast, ExternalStage
<1>10. DocumentMarked'
  <2> SUFFICES ASSUME NEW n \in Name, NEW d \in {byFullName'[n], enums'[n]}, d \in DocumentType
               PROVE  NamesOf(TypesOf(FileOf[d])) \subseteq fromDocument'
    BY DEF DocumentMarked
  <2>1. None \notin DocumentType
    BY DescriptorAssumption DEF DocumentType
  <2>2. d \in TypesOf(f) \/ d \in {byFullName[n], enums[n]}
    BY <1>4, <1>5, <2>1
  <2>3. CASE d \in TypesOf(f)
    BY <2>3, <1>3, <1>7
  <2>4. CASE d \in {byFullName[n], enums[n]}
    BY <2>4, <1>7 DEF IInv, DocumentMarked
  <2>5. QED
    BY <2>2, <2>3, <2>4
<1>11. DiffersGone'
  <2> SUFFICES ASSUME NEW n \in differs'
               PROVE  {byFullName'[n], enums'[n]} \subseteq DocumentType \union {None}
    BY DEF DiffersGone
  <2>1. n \in Name
    BY DEF TypeOK
  <2>2. CASE n \in differs
    <3>1. byFullName[n] \in DocumentType \union {None} /\ enums[n] \in DocumentType \union {None}
      BY <2>2 DEF IInv, DiffersGone
    <3>2. /\ byFullName'[n] \in TypesOf(f) \union {byFullName[n], None}
          /\ enums'[n] \in TypesOf(f) \union {enums[n], None}
      BY <2>1, <1>4, <1>5
    <3>3. byFullName'[n] \in DocumentType \union {None}
      BY <3>1, <3>2, <1>3
    <3>4. enums'[n] \in DocumentType \union {None}
      BY <3>1, <3>2, <1>3
    <3>5. QED
      BY <3>3, <3>4
  <2>3. CASE n \notin differs
    <3>1. n \in NamesOf(UNION {Family(x) : x \in Redefined(f)})
      BY <2>3 DEF MergeDocument
    <3>2. Redefined(f) \subseteq Replaced(f)
      BY DEF Redefined
    <3>3. n \in Dropped(f)
      BY <3>1, <3>2 DEF Dropped, NamesOf
    <3>4. QED
      BY <2>1, <3>3, <1>3, <1>4, <1>5
  <2>4. QED
    BY <2>2, <2>3
<1>12. QED
  BY <1>8, <1>9, <1>10, <1>11 DEF IInv

LEMMA NextIInv ==
  ASSUME IInv, [Next]_vars
  PROVE  IInv'
<1>1. TypeOK'
  BY NextTypeOK DEF IInv
<1>2. /\ opts.user \subseteq ExternalFile
      /\ opts.bundle \subseteq ExternalFile
      /\ opts.virtual \subseteq DocumentFile
  BY RequestAssumption DEF Request, IInv, TypeOK
<1>3. CASE ValidateRef
  BY <1>1, <1>3, QuietStep DEF ValidateRef, Fail, IInv, ExternalFirst, ExternalStage
<1>4. CASE CompileExternal
  BY <1>1, <1>2, <1>4, QuietStep DEF CompileExternal, Fail, IInv, ExternalFirst, ExternalStage
<1>5. CASE FetchBundle
  BY <1>1, <1>2, <1>5, QuietStep DEF FetchBundle, Fail, IInv, ExternalFirst, ExternalStage
<1>6. CASE BundleMerged
  BY <1>1, <1>6, QuietStep DEF BundleMerged, IInv, ExternalFirst, ExternalStage
<1>7. CASE CompileVirtual
  BY <1>1, <1>2, <1>7, QuietStep DEF CompileVirtual, Fail, IInv, DocumentLast, ExternalStage
<1>8. CASE HydrateBlob
  <2>1. blobs # <<>> => Head(blobs) \in SUBSET DocumentFile
    BY HeadTailProperties DEF IInv, TypeOK
  <2>2. QED
    BY <1>1, <1>8, <2>1, QuietStep DEF HydrateBlob, Fail, ExternalStage
<1>9. ASSUME NEW f \in File, MergeNext(f) PROVE IInv'
  <2>1. CASE stage \in {"mergeExternal", "mergeBundle"} /\ Merge(f)
    BY <1>1, <1>9, <2>1, MergeIInv DEF ExternalStage
  <2>2. CASE stage = "mergeDocument" /\ MergeDocument(f)
    BY <1>1, <1>9, <2>2, MergeDocumentIInv
  <2>3. QED
    BY <1>9, <2>1, <2>2 DEF MergeNext
<1>10. CASE Return
  BY <1>1, <1>10, QuietStep DEF Return, ExternalStage
<1>11. CASE UNCHANGED vars
  BY <1>11 DEF vars, registry, IInv, TypeOK, FiledByName, ExternalFirst, DocumentLast,
               DocumentMarked, DiffersGone
<1>12. QED
  BY <1>3, <1>4, <1>5, <1>6, <1>7, <1>8, <1>9, <1>10, <1>11 DEF Next

LEMMA Invariance == Spec => []IInv
<1>1. QED
  BY InitIInv, NextIInv, PTL DEF Spec

-----------------------------------------------------------------------------
(***************************************************************************)
(* Check refuses a message only for a field bound to something other than  *)
(* what the registry answers for that type's name: Registry.Check gives no *)
(* false alarm on a type the registry itself would hand out.               *)
(***************************************************************************)
THEOREM HonestCheck == Spec => []CheckHonest
<1>1. IInv => CheckHonest
  <2> SUFFICES ASSUME IInv, NEW m \in Messages, CheckFails(m)
               PROVE  \E t \in BoundFrom[m] : Registered(t) # t
    BY DEF CheckHonest
  <2>1. PICK t \in BoundFrom[m] : NameOf[t] \in differs /\ ~IsDocument(t)
    BY DEF CheckFails
  <2>2. t \in Type /\ t # None /\ NameOf[t] \in Name
    BY DescriptorAssumption DEF BoundFrom
  <2>3. ASSUME Registered(t) = t PROVE FALSE
    <3>1. t \in {byFullName[NameOf[t]], enums[NameOf[t]]}
      BY <2>3 DEF Registered
    <3>2. t \in DocumentType
      BY <2>1, <2>2, <3>1 DEF IInv, DiffersGone
    <3>3. NamesOf(TypesOf(FileOf[t])) \subseteq fromDocument
      BY <2>2, <3>1, <3>2 DEF IInv, DocumentMarked
    <3>4. NameOf[t] \in fromDocument
      BY <2>2, <3>3 DEF NamesOf, TypesOf
    <3>5. IsDocument(t)
      BY <2>3, <3>4 DEF IsDocument, Registered
    <3>6. QED
      BY <2>1, <3>5
  <2>4. QED
    BY <2>3
<1>2. QED
  BY <1>1, Invariance, PTL

-----------------------------------------------------------------------------
(***************************************************************************)
(* The chain implements SchemaPrecedence, provided that a name a document  *)
(* nests nowhere is not nested in an external type the document redefines: *)
(* drop removes an external type's nested names without asking whose they  *)
(* are by then.                                                            *)
(***************************************************************************)
DocumentNesting ==
  \A d, e \in DocumentType : \A x, n \in Type :
    NameOf[x] = NameOf[d] /\ x \in Enclosing[n] /\ NameOf[n] = NameOf[e]
      => \E m \in Enclosing[e] : NameOf[m] = NameOf[d]

OwnerMap == [n \in Name |-> Owner(n)]
Sealed == stage \notin ExternalStage

\* A name has a document's owner only once the document is merged.
LEMMA OwnedIsMarked ==
  ASSUME IInv, NEW n \in Name, Owner(n) = "document"
  PROVE  \E e \in DocumentType : /\ NameOf[e] = n
                                 /\ NamesOf(TypesOf(FileOf[e])) \subseteq fromDocument
<1>1. PICK e \in DocumentType : e \in {byFullName[n], enums[n]}
  BY DEF Owner
<1>2. NameOf[e] = n
  BY <1>1, DescriptorAssumption DEF IInv, FiledByName, DocumentType
<1>3. NamesOf(TypesOf(FileOf[e])) \subseteq fromDocument
  BY <1>1 DEF IInv, DocumentMarked
<1>4. QED
  BY <1>2, <1>3

\* shadow drops no name the document owns.
LEMMA DropsExternalOnly ==
  ASSUME IInv, DocumentNesting, NEW f \in DocumentFile, NEW n \in Dropped(f), n \in Name
  PROVE  Owner(n) # "document"
<1> SUFFICES ASSUME Owner(n) = "document" PROVE FALSE
  OBVIOUS
<1>1. PICK x \in Replaced(f) : \E z \in Family(x) : NameOf[z] = n
  BY DEF Dropped, NamesOf
<1>2. PICK y \in Family(x) : NameOf[y] = n
  BY <1>1
<1>3. PICK d \in Shadowing(f) : x = External(NameOf[d])
  BY DEF Replaced
<1>4. /\ d \in DocumentType
      /\ NameOf[d] \in Name
      /\ x # None
  BY <1>3, DescriptorAssumption DEF Shadowing, TypesOf, DocumentType
<1>5. /\ NameOf[d] \notin fromDocument
      /\ NameOf[x] = NameOf[d]
  BY <1>3, <1>4 DEF External, IInv, FiledByName
<1>6. x \in Type /\ y \in Type
  BY <1>3, <1>4, <1>2, ExternalType DEF Family, IInv
<1>7. PICK e \in DocumentType : /\ NameOf[e] = n
                               /\ NamesOf(TypesOf(FileOf[e])) \subseteq fromDocument
  BY OwnedIsMarked
<1>8. CASE y = x
  <2>1. e \in TypesOf(FileOf[e])
    BY DEF TypesOf, DocumentType
  <2>2. NameOf[e] \in fromDocument
    BY <1>7, <2>1 DEF NamesOf
  <2>3. QED
    BY <2>2, <1>2, <1>5, <1>7, <1>8
<1>9. CASE x \in Enclosing[y]
  <2>1. PICK m \in Enclosing[e] : NameOf[m] = NameOf[d]
    BY <1>4, <1>5, <1>6, <1>7, <1>9, <1>2 DEF DocumentNesting
  <2>2. m \in TypesOf(FileOf[e])
    BY <2>1, DescriptorAssumption DEF TypesOf, DocumentType
  <2>3. NameOf[m] \in fromDocument
    BY <1>7, <2>2 DEF NamesOf
  <2>4. QED
    BY <2>1, <2>3, <1>5
<1>10. QED
  BY <1>8, <1>9, <1>2 DEF Family

LEMMA OwnerOfSame ==
  ASSUME NEW n, byFullName'[n] = byFullName[n], enums'[n] = enums[n]
  PROVE  Owner(n)' = Owner(n)
BY DEF Owner

LEMMA MergeMaps ==
  ASSUME IInv, IInv', NEW f \in File, MergeNext(f), Merge(f), stage \in ExternalStage
  PROVE  Precedence!AddExternal
<1>1. byFullName \in Table /\ enums \in Table
  BY Tables DEF IInv
<1>2. stage' = stage
  BY DEF MergeNext
<1>3. \A n \in Name : Owner(n)' # "document"
  <2> SUFFICES ASSUME NEW n \in Name, Owner(n)' = "document" PROVE FALSE
    OBVIOUS
  <2>1. PICK d \in {byFullName'[n], enums'[n]} : d \in DocumentType
    BY DEF Owner
  <2>2. NamesOf(TypesOf(FileOf[d])) \subseteq fromDocument'
    BY <2>1 DEF IInv, DocumentMarked
  <2>3. NameOf[d] \in fromDocument'
    BY <2>1, <2>2 DEF NamesOf, TypesOf, DocumentType
  <2>4. fromDocument' = {}
    BY <1>2 DEF IInv, ExternalFirst
  <2>5. QED
    BY <2>3, <2>4
<1>4. \A n \in Name : Owner(n)' \in {Owner(n), "external"}
  <2> SUFFICES ASSUME NEW n \in Name PROVE Owner(n)' \in {Owner(n), "external"}
    OBVIOUS
  <2>1. TypesOf(f) \intersect Messages \in SUBSET Type /\ TypesOf(f) \ Messages \in SUBSET Type
    BY DEF TypesOf
  <2>2. byFullName'[n] # byFullName[n] => byFullName'[n] \in Type
    BY <1>1, <2>1, PutValue DEF Merge
  <2>3. enums'[n] # enums[n] => enums'[n] \in Type
    BY <1>1, <2>1, PutValue DEF Merge
  <2>4. CASE byFullName'[n] = byFullName[n] /\ enums'[n] = enums[n]
    BY <2>4, OwnerOfSame
  <2>5. CASE byFullName'[n] \in Type \/ enums'[n] \in Type
    <3>1. {byFullName'[n], enums'[n]} # {None}
      BY <2>5, DescriptorAssumption
    <3>2. QED
      BY <1>3, <3>1 DEF Owner
  <2>6. QED
    BY <2>2, <2>3, <2>4, <2>5
<1>5. OwnerMap' \in [Name -> {"nobody", "external"}]
  <2>1. \A n \in Name : Owner(n)' \in {"nobody", "external"}
    BY <1>3 DEF Owner
  <2>2. QED
    BY <2>1 DEF OwnerMap
<1>6. \A n \in Name : OwnerMap'[n] \in {OwnerMap[n], "external"}
  BY <1>4 DEF OwnerMap
<1>7. QED
  BY <1>2, <1>5, <1>6 DEF Precedence!AddExternal, OwnerMap

LEMMA MergeDocumentMaps ==
  ASSUME IInv, DocumentNesting, NEW f \in File, MergeNext(f), MergeDocument(f),
         stage = "mergeDocument"
  PROVE  Precedence!AddDocument
<1>1. byFullName \in Table /\ enums \in Table
  BY Tables DEF IInv
<1>2. f \in DocumentFile /\ stage' = stage /\ stage \notin ExternalStage
  BY DEF IInv, DocumentLast, MergeNext, ExternalStage
<1>3. TypesOf(f) \subseteq DocumentType
  BY <1>2 DEF TypesOf, DocumentType
<1>4. \A n \in Name : \/ Owner(n)' \in {Owner(n), "document"}
                      \/ Owner(n) # "document" /\ Owner(n)' = "nobody"
  <2> SUFFICES ASSUME NEW n \in Name
               PROVE  \/ Owner(n)' \in {Owner(n), "document"}
                      \/ Owner(n) # "document" /\ Owner(n)' = "nobody"
    OBVIOUS
  <2> DEFINE mine == TypesOf(f) \intersect Messages
             rest == TypesOf(f) \ Messages
  <2>1. mine \in SUBSET Type /\ rest \in SUBSET Type
    BY DEF TypesOf
  <2>2. /\ Without(byFullName, Dropped(f)) \in Table
        /\ Without(enums, Dropped(f)) \in Table
    BY <1>1, WithoutTable
  <2>3. /\ n \in NamesOf(mine) => byFullName'[n] \in mine
        /\ n \notin NamesOf(mine) => byFullName'[n] = Without(byFullName, Dropped(f))[n]
    BY <2>1, <2>2, PutValue DEF MergeDocument
  <2>4. /\ n \in NamesOf(rest) => enums'[n] \in rest
        /\ n \notin NamesOf(rest) => enums'[n] = Without(enums, Dropped(f))[n]
    BY <2>1, <2>2, PutValue DEF MergeDocument
  <2>5. CASE n \in NamesOf(mine) \union NamesOf(rest)
    <3>1. byFullName'[n] \in DocumentType \/ enums'[n] \in DocumentType
      BY <2>3, <2>4, <2>5, <1>3
    <3>2. QED
      BY <3>1 DEF Owner
  <2>6. CASE n \notin NamesOf(mine) \union NamesOf(rest) /\ n \in Dropped(f)
    <3>1. byFullName'[n] = None /\ enums'[n] = None
      BY <2>3, <2>4, <2>6 DEF Without
    <3>2. None \notin DocumentType
      BY DescriptorAssumption DEF DocumentType
    <3>3. Owner(n)' = "nobody"
      BY <3>1, <3>2 DEF Owner
    <3>4. QED
      BY <3>3, <2>6, <1>2, DropsExternalOnly
  <2>7. CASE n \notin NamesOf(mine) \union NamesOf(rest) /\ n \notin Dropped(f)
    <3>1. byFullName'[n] = byFullName[n] /\ enums'[n] = enums[n]
      BY <2>3, <2>4, <2>7 DEF Without
    <3>2. QED
      BY <3>1, OwnerOfSame
  <2>8. QED
    BY <2>5, <2>6, <2>7
<1>5. OwnerMap' \in [Name -> {"nobody", "external", "document"}]
  <2>1. \A n \in Name : Owner(n)' \in {"nobody", "external", "document"}
    BY DEF Owner
  <2>2. QED
    BY <2>1 DEF OwnerMap
<1>6. \A n \in Name : \/ OwnerMap'[n] \in {OwnerMap[n], "document"}
                      \/ OwnerMap[n] # "document" /\ OwnerMap'[n] = "nobody"
  BY <1>4 DEF OwnerMap
<1>7. QED
  BY <1>2, <1>5, <1>6 DEF Precedence!AddDocument, OwnerMap

LEMMA QuietMaps ==
  ASSUME UNCHANGED registry, Sealed => Sealed'
  PROVE  [Precedence!Next]_<<OwnerMap, Sealed>>
<1>1. OwnerMap' = OwnerMap
  BY DEF registry, OwnerMap, Owner
<1>2. CASE Sealed' = Sealed
  BY <1>1, <1>2
<1>3. CASE ~Sealed /\ Sealed' = TRUE
  BY <1>1, <1>3 DEF Precedence!Next, Precedence!Seal, OwnerMap, Sealed
<1>4. QED
  BY <1>2, <1>3 DEF Sealed

LEMMA NextMaps ==
  ASSUME IInv, IInv', DocumentNesting, [Next]_vars
  PROVE  [Precedence!Next]_<<OwnerMap, Sealed>>
<1>1. CASE ValidateRef
  BY <1>1, QuietMaps DEF ValidateRef, Fail, Sealed, ExternalStage
<1>2. CASE CompileExternal
  BY <1>2, QuietMaps DEF CompileExternal, Fail, Sealed, ExternalStage
<1>3. CASE FetchBundle
  BY <1>3, QuietMaps DEF FetchBundle, Fail, Sealed, ExternalStage
<1>4. CASE BundleMerged
  BY <1>4, QuietMaps DEF BundleMerged, Sealed, ExternalStage
<1>5. CASE CompileVirtual
  BY <1>5, QuietMaps DEF CompileVirtual, Fail, Sealed, ExternalStage
<1>6. CASE HydrateBlob
  BY <1>6, QuietMaps DEF HydrateBlob, Fail, Sealed, ExternalStage
<1>7. ASSUME NEW f \in File, MergeNext(f) PROVE Precedence!Next
  <2>1. CASE stage \in {"mergeExternal", "mergeBundle"} /\ Merge(f)
    <3>1. Precedence!AddExternal
      BY <1>7, <2>1, MergeMaps DEF ExternalStage
    <3>2. QED
      BY <3>1 DEF Precedence!Next
  <2>2. CASE stage = "mergeDocument" /\ MergeDocument(f)
    <3>1. Precedence!AddDocument
      BY <1>7, <2>2, MergeDocumentMaps
    <3>2. QED
      BY <3>1 DEF Precedence!Next
  <2>3. QED
    BY <1>7, <2>1, <2>2 DEF MergeNext
<1>8. CASE Return
  BY <1>8, QuietMaps DEF Return, Sealed, ExternalStage
<1>9. CASE UNCHANGED vars
  BY <1>9, QuietMaps DEF vars, registry, Sealed
<1>10. QED
  BY <1>1, <1>2, <1>3, <1>4, <1>5, <1>6, <1>7, <1>8, <1>9 DEF Next

LEMMA InitMaps == Init => Precedence!Init
<1> SUFFICES ASSUME Init PROVE Precedence!Init
  OBVIOUS
<1>1. \A n \in Name : byFullName[n] = None /\ enums[n] = None
  BY DEF Init, EmptyTable
<1>2. None \notin DocumentType
  BY DescriptorAssumption DEF DocumentType
<1>3. \A n \in Name : Owner(n) = "nobody"
  BY <1>1, <1>2 DEF Owner
<1>4. QED
  BY <1>3 DEF Init, Precedence!Init, ExternalStage

(***************************************************************************)
(* Every resolution is one SchemaPrecedence allows: what a document        *)
(* defines stays the document's, and no external source is read after it.  *)
(***************************************************************************)
THEOREM PrecedenceKept ==
  ASSUME DocumentNesting
  PROVE  Spec => ImplementsPrecedence
<1>1. IInv /\ IInv' /\ [Next]_vars
        => [Precedence!Next]_<<[n \in Name |-> Owner(n)], stage \notin ExternalStage>>
  BY NextMaps DEF OwnerMap, Sealed
<1>2. QED
  BY <1>1, InitMaps, Invariance, PTL DEF Spec, ImplementsPrecedence, Precedence!Spec

-----------------------------------------------------------------------------
(* The sources of a run, as its options give them. *)

Distinct(types) == \A a, b \in types : NameOf[a] = NameOf[b] => a = b

DocumentTypes == UNION {TypesIn(DocumentUnits[i]) : i \in DOMAIN DocumentUnits}

LEMMA RequestParts ==
  ASSUME TypeOK
  PROVE  /\ opts.user \in SUBSET ExternalFile
         /\ opts.bundle \in SUBSET ExternalFile
         /\ opts.virtual \in SUBSET DocumentFile
         /\ opts.blobs \in Seq(SUBSET DocumentFile)
BY RequestAssumption DEF TypeOK, Request

LEMMA UnitsOfDocument ==
  ASSUME TypeOK
  PROVE  /\ DocumentUnits \in Seq(SUBSET DocumentFile)
         /\ Len(DocumentUnits) = Len(opts.blobs) + 1
         /\ DocumentUnits[1] = opts.virtual
         /\ \A i \in 1 .. Len(opts.blobs) : DocumentUnits[i + 1] = opts.blobs[i]
BY RequestParts DEF DocumentUnits

\* The linker's uniqueness, for each unit of a run.
LEMMA UnitsLinked ==
  ASSUME TypeOK
  PROVE  /\ Distinct(TypesIn(opts.user))
         /\ Distinct(TypesIn(opts.bundle))
         /\ Distinct(TypesIn(BundleFiles))
         /\ \A i \in DOMAIN DocumentUnits : Distinct(TypesIn(DocumentUnits[i]))
<1>1. \A unit \in Units(opts) : Distinct(TypesIn(unit))
  BY RequestAssumption DEF TypeOK, Distinct
<1>2. Distinct(TypesIn(opts.user)) /\ Distinct(TypesIn(opts.bundle))
  BY <1>1 DEF Units
<1>3. Distinct(TypesIn(BundleFiles))
  BY <1>2 DEF BundleFiles, Distinct, TypesIn
<1>4. ASSUME NEW i \in DOMAIN DocumentUnits PROVE DocumentUnits[i] \in Units(opts)
  <2>1. i \in 1 .. Len(opts.blobs) + 1 /\ Len(opts.blobs) \in Nat
    BY UnitsOfDocument, RequestParts, LenProperties
  <2>2. CASE i = 1
    BY <2>2, UnitsOfDocument DEF Units
  <2>3. CASE i # 1
    <3>1. i - 1 \in 1 .. Len(opts.blobs) /\ i = (i - 1) + 1
      BY <2>1, <2>3
    <3>2. DocumentUnits[i] = opts.blobs[i - 1]
      BY <3>1, UnitsOfDocument
    <3>3. i - 1 \in DOMAIN opts.blobs
      BY <3>1, RequestParts, LenProperties
    <3>4. QED
      BY <3>2, <3>3 DEF Units
  <2>4. QED
    BY <2>2, <2>3
<1>5. QED
  BY <1>1, <1>2, <1>3, <1>4

LEMMA DocumentTypesAre ==
  ASSUME TypeOK
  PROVE  /\ DocumentTypes \subseteq Sourced
         /\ DocumentTypes \subseteq DocumentType
         /\ DocumentTypes \subseteq Type
<1>1. ASSUME NEW d \in DocumentTypes PROVE d \in DocumentType
  <2>1. PICK i \in DOMAIN DocumentUnits : d \in TypesIn(DocumentUnits[i])
    BY DEF DocumentTypes
  <2>2. DocumentUnits[i] \in SUBSET DocumentFile
    BY <2>1, UnitsOfDocument
  <2>3. QED
    BY <2>1, <2>2 DEF TypesIn, DocumentType
<1>2. QED
  BY <1>1 DEF Sourced, DocumentTypes, DocumentType

\* A name has one definition in the whole document.
LEMMA DocumentDistinct ==
  ASSUME TypeOK, WellPosed
  PROVE  Distinct(DocumentTypes)
<1> SUFFICES ASSUME NEW a \in DocumentTypes, NEW b \in DocumentTypes, NameOf[a] = NameOf[b]
             PROVE  a = b
  BY DEF Distinct
<1>1. PICK i \in DOMAIN DocumentUnits : a \in TypesIn(DocumentUnits[i])
  BY DEF DocumentTypes
<1>2. PICK j \in DOMAIN DocumentUnits : b \in TypesIn(DocumentUnits[j])
  BY DEF DocumentTypes
<1>3. i = j
  BY <1>1, <1>2 DEF WellPosed, NamesOf
<1>4. QED
  BY <1>1, <1>2, <1>3, UnitsLinked DEF Distinct

LEMMA DocumentOfNames ==
  ASSUME NEW n
  PROVE  DocumentOf(n) = Called(n, DocumentTypes)
BY DEF DocumentOf, Called, DocumentTypes

LEMMA ExternalOfTypes ==
  ASSUME TypeOK, NEW n, NEW x \in ExternalOf(n)
  PROVE  /\ x \in Type
         /\ NameOf[x] = n
         /\ x \in Sourced
         /\ x \notin DocumentType
         /\ ExternalOf(n) = {x}
<1>1. x \in Called(n, TypesIn(BundleFiles)) \/ x \in Called(n, TypesIn(opts.user))
  BY DEF ExternalOf
<1>2. x \in Type /\ NameOf[x] = n /\ x \in Sourced
  BY <1>1 DEF Called, TypesIn, Sourced
<1>3. BundleFiles \subseteq ExternalFile /\ opts.user \subseteq ExternalFile
  BY RequestParts DEF BundleFiles
<1>4. x \notin DocumentType
  BY <1>1, <1>3, DescriptorAssumption DEF Called, TypesIn, DocumentType
<1>5. \A y \in ExternalOf(n) : y = x
  BY UnitsLinked DEF ExternalOf, Called, Distinct
<1>6. QED
  BY <1>2, <1>4, <1>5

\* What an external definition that stands is nested in stands too.
LEMMA EnclosingStands ==
  ASSUME TypeOK, WellPosed, NEW n, NEW x \in ExternalOf(n), NEW m \in Enclosing[x]
  PROVE  /\ m \in ExternalOf(NameOf[m])
         /\ ExternalOf(NameOf[m]) = {m}
<1>1. x \in Type /\ NameOf[x] = n
  BY ExternalOfTypes
<1>2. m \in Type /\ FileOf[m] = FileOf[x]
  BY <1>1, DescriptorAssumption
<1>3. SUFFICES m \in ExternalOf(NameOf[m])
  BY ExternalOfTypes
<1>4. CASE x \in TypesIn(BundleFiles)
  BY <1>2, <1>4 DEF TypesIn, ExternalOf, Called
<1>5. CASE x \notin TypesIn(BundleFiles)
  <2>1. Called(n, TypesIn(BundleFiles)) = {} /\ x \in TypesIn(opts.user)
    BY <1>1, <1>5, UnitsLinked DEF ExternalOf, Called
  <2>2. m \in TypesIn(opts.user)
    BY <1>2, <2>1 DEF TypesIn
  <2>3. Called(NameOf[m], TypesIn(BundleFiles)) = {}
    <3> SUFFICES ASSUME NEW w \in TypesIn(BundleFiles), NameOf[w] = NameOf[m] PROVE FALSE
      BY DEF Called
    <3>1. NamesOf(Family(m)) = NamesOf(Family(w))
      BY <2>2 DEF WellPosed
    <3>2. n \in NamesOf(Family(m))
      BY <1>1 DEF NamesOf, Family
    <3>3. PICK k \in Family(w) : NameOf[k] = n
      BY <3>1, <3>2 DEF NamesOf
    <3>4. k \in TypesIn(BundleFiles)
      BY <3>3, DescriptorAssumption DEF Family, TypesIn
    <3>5. QED
      BY <2>1, <3>3, <3>4 DEF Called
  <2>4. QED
    BY <2>2, <2>3 DEF ExternalOf, Called
<1>6. QED
  BY <1>4, <1>5

\* WellPosed's last part, at one enclosing message.
LEMMA NestsAlike ==
  ASSUME WellPosed, NEW a \in Sourced, NEW b \in Sourced, NameOf[a] = NameOf[b],
         NEW m \in Enclosing[a],
         NEW z \in Sourced, NameOf[z] = NameOf[m],
         z \in DocumentType <=> b \in DocumentType
  PROVE  \E o \in Enclosing[b] : NameOf[o] = NameOf[m]
<1>1. NestedAlike(a, b)
  BY DEF WellPosed
<1>2. (z \in DocumentType) = (b \in DocumentType)
  OBVIOUS
<1>3. QED
  BY <1>1, <1>2 DEF NestedAlike

LEMMA EnclosingSourced ==
  ASSUME NEW a \in Sourced, NEW m \in Enclosing[a]
  PROVE  /\ a \in Type
         /\ m \in Type
         /\ FileOf[m] = FileOf[a]
         /\ m \in Sourced
<1>1. a \in Type
  BY DEF Sourced, TypesIn
<1>2. m \in Type /\ FileOf[m] = FileOf[a]
  BY <1>1, DescriptorAssumption
<1>3. QED
  BY <1>1, <1>2 DEF Sourced, TypesIn

\* An external definition and a document's of one name: what of the
\* document's nesting the external sources define, encloses the external one.
LEMMA NestedInExternal ==
  ASSUME TypeOK, WellPosed, NEW d \in DocumentTypes, NEW n, NEW x \in ExternalOf(n),
         NameOf[d] = n,
         NEW m \in Enclosing[d], NEW y \in ExternalOf(NameOf[m])
  PROVE  y \in Enclosing[x]
<1>1. /\ x \in Sourced /\ x \notin DocumentType /\ NameOf[x] = n
      /\ y \in Sourced /\ y \notin DocumentType /\ NameOf[y] = NameOf[m]
  BY ExternalOfTypes
<1>2. d \in Sourced
  BY DocumentTypesAre
<1>3. PICK o \in Enclosing[x] : NameOf[o] = NameOf[m]
  BY <1>1, <1>2, NestsAlike
<1>4. ExternalOf(NameOf[m]) = {o}
  BY <1>3, EnclosingStands
<1>5. QED
  BY <1>3, <1>4

\* The outermost message d is nested in that has a property.
LEMMA Outermost ==
  ASSUME NEW d \in Type, NEW P, NEW m \in Enclosing[d], m \in P
  PROVE  \E o \in Enclosing[d] : o \in P /\ \A k \in Enclosing[o] : k \notin P
<1> DEFINE depths == {Cardinality(Enclosing[o]) : o \in {k \in Enclosing[d] : k \in P}}
<1>1. \A o \in Enclosing[d] : o \in Type /\ IsFiniteSet(Enclosing[o])
  BY DescriptorAssumption
<1>2. depths \subseteq Nat /\ depths # {}
  BY <1>1, FS_CardinalityType
<1>3. PICK i \in depths : \A j \in depths : i <= j
  BY <1>2, LeastNatural
<1>4. PICK o \in Enclosing[d] : o \in P /\ Cardinality(Enclosing[o]) = i
  BY <1>3
<1>5. ASSUME NEW k \in Enclosing[o], k \in P PROVE FALSE
  <2>1. o \in Type /\ IsFiniteSet(Enclosing[o]) /\ k \in Type
    BY <1>1, DescriptorAssumption
  <2>2. Enclosing[k] \subseteq Enclosing[o] /\ k \notin Enclosing[k] /\ Enclosing[o] \subseteq Enclosing[d]
    BY <2>1, DescriptorAssumption
  <2>3. Cardinality(Enclosing[k]) < Cardinality(Enclosing[o])
    <3>1. Enclosing[k] # Enclosing[o] /\ IsFiniteSet(Enclosing[k])
      BY <2>1, <2>2, <1>5, FS_Subset
    <3>2. /\ Cardinality(Enclosing[k]) <= Cardinality(Enclosing[o])
          /\ Cardinality(Enclosing[k]) # Cardinality(Enclosing[o])
      BY <2>1, <2>2, <3>1, FS_Subset
    <3>3. Cardinality(Enclosing[k]) \in Nat /\ Cardinality(Enclosing[o]) \in Nat
      BY <2>1, <3>1, FS_CardinalityType
    <3>4. QED
      BY <3>2, <3>3
  <2>4. Cardinality(Enclosing[k]) \in depths
    BY <2>2, <1>5
  <2>5. QED
    BY <1>2, <1>3, <1>4, <2>3, <2>4
<1>6. QED
  BY <1>4, <1>5

-----------------------------------------------------------------------------
(***************************************************************************)
(* What a resolution has answered so far: the inductive invariant behind   *)
(* ResolvesAsDeclared, WarnedExactly and CheckSound.  It says, at every    *)
(* stage, what the tables hold of the sources read up to then.             *)
(***************************************************************************)
Answers(n) == {byFullName[n], enums[n]} \ {None}

DocumentStage == {"mergeDocument", "done"}

\* Which of DocumentUnits is being merged.
Body == Len(opts.blobs) - Len(blobs) + 1

\* The document's types merged so far.
Read ==
  {d \in Type : /\ stage \in DocumentStage
                /\ \/ \E i \in 1 .. Body - 1 : FileOf[d] \in DocumentUnits[i]
                   \/ FileOf[d] \in DocumentUnits[Body] \ pending}

\* Bodies are taken in order, and what is pending is of the current unit.
UnitsInOrder ==
  /\ stage \in ExternalStage \union {"document"} => blobs = opts.blobs
  /\ Len(blobs) <= Len(opts.blobs)
  /\ \A i \in 1 .. Len(blobs) : blobs[i] = opts.blobs[Len(opts.blobs) - Len(blobs) + i]
  /\ stage = "mergeExternal" => pending \subseteq opts.user
  /\ stage = "mergeBundle" => opts.ref = Coordinates /\ pending \subseteq opts.bundle
  /\ stage = "mergeDocument" => pending \subseteq DocumentUnits[Body]
  /\ stage \in {"document", "done"} => pending = {}
  /\ stage = "done" => blobs = <<>>

\* The external types that some document type in types redefines, and that
\* nothing around that type shadows.
Clashing(types) ==
  {x \in Type : \E d \in types : /\ x \in ExternalOf(NameOf[d])
                                 /\ ~SameDefinition(x, d)
                                 /\ \A m \in Enclosing[d] : ExternalOf(NameOf[m]) = {}}

\* What of n's external definition the names taken by a document leave.
Left(n, taken) == {x \in ExternalOf(n) : \A m \in Enclosing[x] : NameOf[m] \notin taken}

\* While external sources are merged, a name answers the last of them.
AnswersExternal ==
  /\ stage \in {"start", "external"} => \A n \in Name : Answers(n) = {}
  /\ stage = "mergeExternal" =>
       \A n \in Name : Answers(n) = Called(n, TypesIn(opts.user \ pending))
  /\ stage = "mergeBundle" =>
       \A n \in Name :
         Answers(n) = IF Called(n, TypesIn(opts.bundle \ pending)) # {}
                      THEN Called(n, TypesIn(opts.bundle \ pending))
                      ELSE Called(n, TypesIn(opts.user))
  /\ stage \in ExternalStage \union {"document"} =>
       fromDocument = {} /\ differs = {} /\ warnings = {}

\* While documents are merged, a name answers the document's definition, or
\* what the document has left of the external one.
AnswersDocument ==
  stage \in DocumentStage \union {"document"} =>
    /\ fromDocument = NamesOf(Read)
    /\ \A n \in Name :
         Answers(n) = IF n \in fromDocument THEN Called(n, Read) ELSE Left(n, fromDocument)
    /\ differs = NamesOf(UNION {Family(x) : x \in Clashing(Read)})
    /\ warnings = {<<NameOf[x], FileOf[x]>> : x \in Clashing(Read)}

RInv ==
  /\ UnitsInOrder
  /\ WellPosed => AnswersExternal /\ AnswersDocument

LEMMA ReadTypes ==
  ASSUME TypeOK, UnitsInOrder
  PROVE  Read \subseteq DocumentTypes
<1> SUFFICES ASSUME NEW d \in Read PROVE d \in DocumentTypes
  OBVIOUS
<1>1. /\ Body \in 1 .. Len(DocumentUnits)
      /\ DOMAIN DocumentUnits = 1 .. Len(DocumentUnits)
  BY UnitsOfDocument, RequestParts, LenProperties DEF UnitsInOrder, Body, TypeOK
<1>2. \E i \in 1 .. Body : FileOf[d] \in DocumentUnits[i]
  BY <1>1 DEF Read
<1>3. PICK i \in DOMAIN DocumentUnits : FileOf[d] \in DocumentUnits[i]
  BY <1>1, <1>2
<1>4. d \in Type
  BY DEF Read
<1>5. QED
  BY <1>3, <1>4 DEF DocumentTypes, TypesIn

(***************************************************************************)
(* One document file, f, of the current unit.                              *)
(***************************************************************************)
Merging(f) ==
  /\ stage = "mergeDocument"
  /\ f \in pending

LEMMA MergingTypes ==
  ASSUME TypeOK, UnitsInOrder, WellPosed, NEW f, Merging(f)
  PROVE  /\ TypesOf(f) \subseteq DocumentTypes
         /\ Read \subseteq DocumentTypes
         /\ NamesOf(TypesOf(f)) \intersect NamesOf(Read) = {}
<1>1. /\ Body \in 1 .. Len(DocumentUnits)
      /\ DOMAIN DocumentUnits = 1 .. Len(DocumentUnits)
  BY UnitsOfDocument, RequestParts, LenProperties DEF UnitsInOrder, Body, TypeOK
<1>2. f \in DocumentUnits[Body] /\ f \in pending
  BY DEF Merging, UnitsInOrder
<1>3. TypesOf(f) \subseteq TypesIn(DocumentUnits[Body])
  BY <1>2 DEF TypesOf, TypesIn
<1>4. TypesOf(f) \subseteq DocumentTypes
  BY <1>1, <1>3 DEF DocumentTypes
<1>5. Read \subseteq DocumentTypes
  BY ReadTypes
<1>6. ASSUME NEW d \in TypesOf(f), NEW e \in Read, NameOf[d] = NameOf[e] PROVE FALSE
  <2>1. d = e
    BY <1>4, <1>5, <1>6, DocumentDistinct DEF Distinct
  <2>2. FileOf[e] = f /\ e \in Type
    BY <2>1 DEF TypesOf
  <2>3. PICK i \in 1 .. Body - 1 : f \in DocumentUnits[i]
    BY <1>2, <2>2 DEF Read
  <2>4. i \in DOMAIN DocumentUnits /\ Body \in DOMAIN DocumentUnits /\ i # Body
    BY <1>1
  <2>5. e \in TypesIn(DocumentUnits[i]) /\ e \in TypesIn(DocumentUnits[Body])
    BY <1>2, <2>2, <2>3 DEF TypesIn
  <2>6. QED
    BY <2>4, <2>5 DEF WellPosed, NamesOf
<1>7. QED
  BY <1>4, <1>5, <1>6 DEF NamesOf

LEMMA TypeNames ==
  ASSUME NEW d \in Type
  PROVE  /\ NameOf[d] \in Name
         /\ FileOf[d] \in File
         /\ Enclosing[d] \subseteq Type
BY DescriptorAssumption

\* What external finds for the types of f is what the options alone say.
LEMMA ExternalIs ==
  ASSUME TypeOK, UnitsInOrder, WellPosed, AnswersDocument, NEW f, Merging(f),
         NEW d \in TypesOf(f)
  PROVE  /\ External(NameOf[d]) = None <=> ExternalOf(NameOf[d]) = {}
         /\ External(NameOf[d]) # None => External(NameOf[d]) \in ExternalOf(NameOf[d])
<1> DEFINE n == NameOf[d]
<1>1. d \in Type /\ n \in Name /\ FileOf[d] = f
  BY TypeNames DEF TypesOf
<1>2. fromDocument = NamesOf(Read) /\ n \notin fromDocument
  BY <1>1, MergingTypes DEF AnswersDocument, DocumentStage, Merging, NamesOf
<1>3. Answers(n) = Left(n, fromDocument)
  BY <1>1, <1>2 DEF AnswersDocument, DocumentStage, Merging
<1>4. ASSUME NEW x \in ExternalOf(n), NEW m \in Enclosing[x], NameOf[m] \in fromDocument
      PROVE  FALSE
  <2>1. PICK z \in Read : NameOf[z] = NameOf[m]
    BY <1>2, <1>4 DEF NamesOf
  <2>2. /\ z \in Sourced /\ z \in DocumentType
        /\ d \in Sourced /\ d \in DocumentType
    BY <2>1, MergingTypes, DocumentTypesAre
  <2>3. x \in Sourced /\ NameOf[x] = NameOf[d]
    BY ExternalOfTypes
  <2>4. PICK o \in Enclosing[d] : NameOf[o] = NameOf[m]
    BY <2>1, <2>2, <2>3, NestsAlike
  <2>5. o \in TypesOf(f)
    BY <1>1, <2>2, <2>4, EnclosingSourced DEF TypesOf
  <2>6. QED
    BY <2>1, <2>4, <2>5, MergingTypes DEF NamesOf
<1>5. Left(n, fromDocument) = ExternalOf(n)
  BY <1>4 DEF Left
<1>6. Answers(n) = ExternalOf(n)
  BY <1>3, <1>5
<1>7. QED
  BY <1>2, <1>6 DEF External, Answers

Redefining(d) ==
  /\ ExternalOf(NameOf[d]) # {}
  /\ \A m \in Enclosing[d] : ExternalOf(NameOf[m]) = {}

LEMMA ShadowingIs ==
  ASSUME TypeOK, UnitsInOrder, WellPosed, AnswersDocument, NEW f, Merging(f)
  PROVE  /\ Shadowing(f) = {d \in TypesOf(f) : Redefining(d)}
         /\ \A d \in TypesOf(f) : Redefining(d) => ExternalOf(NameOf[d]) = {External(NameOf[d])}
<1>1. ASSUME NEW d \in TypesOf(f)
      PROVE  /\ \A m \in Enclosing[d] : m \in TypesOf(f)
             /\ External(NameOf[d]) # None <=> ExternalOf(NameOf[d]) # {}
             /\ ExternalOf(NameOf[d]) # {} => ExternalOf(NameOf[d]) = {External(NameOf[d])}
  <2>1. \A m \in Enclosing[d] : m \in TypesOf(f)
    BY MergingTypes, DocumentTypesAre, EnclosingSourced DEF TypesOf
  <2>2. ExternalOf(NameOf[d]) # {} => ExternalOf(NameOf[d]) = {External(NameOf[d])}
    BY ExternalIs, ExternalOfTypes
  <2>3. QED
    BY <2>1, <2>2, ExternalIs
<1>2. QED
  BY <1>1 DEF Shadowing, Redefining

LEMMA ReplacedIs ==
  ASSUME TypeOK, UnitsInOrder, WellPosed, AnswersDocument, NEW f, Merging(f)
  PROVE  /\ Replaced(f) = UNION {ExternalOf(NameOf[d]) : d \in {e \in TypesOf(f) : Redefining(e)}}
         /\ Redefined(f) = Clashing(TypesOf(f))
<1>1. Replaced(f) = UNION {ExternalOf(NameOf[d]) : d \in {e \in TypesOf(f) : Redefining(e)}}
  BY ShadowingIs DEF Replaced
<1>2. ASSUME NEW x
      PROVE  x \in Redefined(f) <=> x \in Clashing(TypesOf(f))
  <2>1. ASSUME x \in Redefined(f) PROVE x \in Clashing(TypesOf(f))
    <3>1. PICK d \in Shadowing(f) : External(NameOf[d]) = x /\ ~SameDefinition(x, d)
      BY <2>1 DEF Redefined
    <3>2. d \in TypesOf(f) /\ Redefining(d) /\ x \in ExternalOf(NameOf[d])
      BY <3>1, ShadowingIs
    <3>3. x \in Type
      BY <3>2, ExternalOfTypes
    <3>4. QED
      BY <3>1, <3>2, <3>3 DEF Clashing, Redefining
  <2>2. ASSUME x \in Clashing(TypesOf(f)) PROVE x \in Redefined(f)
    <3>1. PICK d \in TypesOf(f) : /\ x \in ExternalOf(NameOf[d])
                                  /\ ~SameDefinition(x, d)
                                  /\ \A m \in Enclosing[d] : ExternalOf(NameOf[m]) = {}
      BY <2>2 DEF Clashing
    <3>2. Redefining(d)
      BY <3>1 DEF Redefining
    <3>3. d \in Shadowing(f) /\ External(NameOf[d]) = x
      BY <3>1, <3>2, ShadowingIs
    <3>4. QED
      BY <3>1, <3>3 DEF Redefined, Replaced
  <2>3. QED
    BY <2>1, <2>2
<1>3. QED
  BY <1>1, <1>2

\* A name f defines is dropped wherever an external type had it.
LEMMA Covered ==
  ASSUME TypeOK, UnitsInOrder, WellPosed, AnswersDocument, NEW f, Merging(f),
         NEW d \in TypesOf(f), ExternalOf(NameOf[d]) # {}
  PROVE  NameOf[d] \in Dropped(f)
<1>1. PICK x : x \in ExternalOf(NameOf[d])
  OBVIOUS
<1>2. d \in DocumentTypes /\ d \in Type
  BY MergingTypes DEF TypesOf
<1>3. \A e \in TypesOf(f) : \A y \in ExternalOf(NameOf[e]) : Redefining(e) => y \in Replaced(f)
  BY ReplacedIs
<1>4. x \in Type /\ NameOf[x] = NameOf[d]
  BY <1>1, ExternalOfTypes
<1>5. CASE Redefining(d)
  <2>1. x \in Family(x) /\ x \in Replaced(f)
    BY <1>1, <1>3, <1>5 DEF Family
  <2>2. QED
    BY <1>4, <2>1 DEF Dropped, NamesOf
<1>6. CASE ~Redefining(d)
  <2> DEFINE P == {m \in Type : ExternalOf(NameOf[m]) # {}}
  <2>1. PICK m \in Enclosing[d] : ExternalOf(NameOf[m]) # {}
    BY <1>1, <1>6 DEF Redefining
  <2>2. m \in P
    BY <1>2, <2>1, TypeNames
  <2>3. PICK o \in Enclosing[d] : o \in P /\ \A k \in Enclosing[o] : k \notin P
    BY <1>2, <2>2, Outermost
  <2>4. Redefining(o)
    BY <2>3, TypeNames DEF Redefining
  <2>5. o \in TypesOf(f)
    BY <1>2, <2>3, DocumentTypesAre, EnclosingSourced DEF TypesOf
  <2>6. PICK y : y \in ExternalOf(NameOf[o])
    BY <2>3
  <2>7. y \in Enclosing[x]
    BY <1>1, <1>2, <2>3, <2>6, NestedInExternal
  <2>8. y \in Replaced(f) /\ x \in Family(y)
    BY <1>3, <1>4, <2>4, <2>5, <2>6, <2>7 DEF Family
  <2>9. QED
    BY <1>4, <2>8 DEF Dropped, NamesOf
<1>7. QED
  BY <1>5, <1>6

\* What is dropped without being redefined was nested in what f redefines.
LEMMA DroppedNested ==
  ASSUME TypeOK, UnitsInOrder, WellPosed, AnswersDocument, NEW f, Merging(f),
         NEW n \in Dropped(f), n \notin NamesOf(TypesOf(f))
  PROVE  /\ n \notin fromDocument
         /\ Left(n, fromDocument \union NamesOf(TypesOf(f))) = {}
<1>1. PICK y \in Replaced(f) : \E k \in Family(y) : NameOf[k] = n
  BY DEF Dropped, NamesOf
<1>2. PICK d \in TypesOf(f) : y \in ExternalOf(NameOf[d])
  BY <1>1, ReplacedIs
<1>3. PICK w \in Family(y) : NameOf[w] = n
  BY <1>1
<1>4. y \in Type /\ NameOf[y] = NameOf[d] /\ y \in Sourced /\ y \notin DocumentType
  BY <1>2, ExternalOfTypes
<1>5. w # y /\ y \in Enclosing[w] /\ w \in Type
  BY <1>2, <1>3, <1>4 DEF Family, NamesOf
<1>6. w \in Sourced /\ w \notin DocumentType
  BY <1>4, <1>5, DescriptorAssumption DEF Sourced, TypesIn, DocumentType
<1>7. fromDocument = NamesOf(Read)
  BY DEF AnswersDocument, Merging, DocumentStage
<1>8. d \in Sourced /\ d \in DocumentType
  BY MergingTypes, DocumentTypesAre
<1>9. n \notin fromDocument
  <2> SUFFICES ASSUME n \in fromDocument PROVE FALSE
    OBVIOUS
  <2>1. PICK e \in Read : NameOf[e] = n
    BY <1>7 DEF NamesOf
  <2>2. e \in Sourced /\ e \in DocumentType /\ e \in Type
    BY MergingTypes, DocumentTypesAre
  <2>3. PICK o \in Enclosing[e] : NameOf[o] = NameOf[y]
    BY <1>3, <1>4, <1>5, <1>6, <1>8, <2>1, <2>2, NestsAlike
  <2>4. o \in Type /\ FileOf[o] = FileOf[e]
    BY <2>2, <2>3, DescriptorAssumption
  <2>5. o \in Read
    BY <2>1, <2>4 DEF Read
  <2>6. QED
    BY <1>4, <2>3, <2>5, MergingTypes DEF NamesOf
<1>10. ASSUME NEW x \in ExternalOf(n)
       PROVE  \E m \in Enclosing[x] : NameOf[m] \in NamesOf(TypesOf(f))
  <2>1. x \in Sourced /\ x \notin DocumentType /\ NameOf[x] = n
    BY ExternalOfTypes
  <2>2. PICK o \in Enclosing[x] : NameOf[o] = NameOf[y]
    BY <1>3, <1>4, <1>5, <1>6, <2>1, NestsAlike
  <2>3. QED
    BY <1>4, <2>2 DEF NamesOf
<1>11. QED
  BY <1>9, <1>10 DEF Left

\* What is not dropped is nested in nothing f defines.
LEMMA KeptLeft ==
  ASSUME TypeOK, UnitsInOrder, WellPosed, AnswersDocument, NEW f, Merging(f),
         NEW n, n \notin Dropped(f)
  PROVE  Left(n, fromDocument \union NamesOf(TypesOf(f))) = Left(n, fromDocument)
<1> SUFFICES ASSUME NEW x \in ExternalOf(n), NEW m \in Enclosing[x],
                    NameOf[m] \in NamesOf(TypesOf(f))
             PROVE  FALSE
  BY DEF Left
<1>1. PICK d \in TypesOf(f) : NameOf[d] = NameOf[m]
  BY DEF NamesOf
<1>2. x \in Type /\ NameOf[x] = n /\ m \in Type
  BY ExternalOfTypes, TypeNames
<1>3. m \in ExternalOf(NameOf[m]) /\ ExternalOf(NameOf[m]) = {m}
  BY EnclosingStands
<1>4. d \in DocumentTypes /\ d \in Type
  BY MergingTypes DEF TypesOf
<1>5. PICK y \in Replaced(f) : m \in Family(y)
  <2>1. NameOf[d] \in Dropped(f) 
    BY <1>1, <1>3, Covered
  <2>2. CASE Redefining(d)
    <3>1. m \in Replaced(f)
      BY <1>1, <1>3, <2>2, ReplacedIs
    <3>2. QED
      BY <3>1 DEF Family
  <2>3. CASE ~Redefining(d)
    <3> DEFINE P == {k \in Type : ExternalOf(NameOf[k]) # {}}
    <3>1. PICK k \in Enclosing[d] : ExternalOf(NameOf[k]) # {}
      BY <1>1, <1>3, <2>3 DEF Redefining
    <3>2. k \in P
      BY <1>4, <3>1, TypeNames
    <3>3. PICK o \in Enclosing[d] : o \in P /\ \A j \in Enclosing[o] : j \notin P
      BY <1>4, <3>2, Outermost
    <3>4. Redefining(o)
      BY <3>3, TypeNames DEF Redefining
    <3>5. o \in TypesOf(f)
      BY <1>4, <3>3, DocumentTypesAre, EnclosingSourced DEF TypesOf
    <3>6. PICK y : y \in ExternalOf(NameOf[o])
      BY <3>3
    <3>7. y \in Enclosing[m]
      BY <1>1, <1>3, <1>4, <3>3, <3>6, NestedInExternal
    <3>8. y \in Replaced(f)
      BY <3>4, <3>5, <3>6, ReplacedIs
    <3>9. QED
      BY <1>2, <3>7, <3>8 DEF Family
  <2>4. QED
    BY <2>2, <2>3
<1>6. y \in Type
  BY <1>5, ReplacedIs, ExternalOfTypes
<1>7. x \in Family(y)
  BY <1>2, <1>5, <1>6, DescriptorAssumption DEF Family
<1>8. QED
  BY <1>2, <1>5, <1>7 DEF Dropped, NamesOf

\* What mergeDocument does to one name.
LEMMA MergeDocumentAnswers ==
  ASSUME TypeOK, NEW f \in File, MergeDocument(f), NEW n \in Name
  PROVE  /\ \A d \in TypesOf(f) :
              NameOf[d] = n /\ (n \in Dropped(f) \/ Answers(n) = {}) => Answers(n)' = {d}
         /\ n \notin NamesOf(TypesOf(f)) =>
              Answers(n)' = IF n \in Dropped(f) THEN {} ELSE Answers(n)
<1> DEFINE mine == TypesOf(f) \intersect Messages
           rest == TypesOf(f) \ Messages
<1>1. byFullName \in Table /\ enums \in Table
  BY Tables
<1>2. mine \in SUBSET Type /\ rest \in SUBSET Type
  BY DEF TypesOf
<1>3. /\ Without(byFullName, Dropped(f)) \in Table
      /\ Without(byFullName, Dropped(f))[n] = IF n \in Dropped(f) THEN None ELSE byFullName[n]
      /\ Without(enums, Dropped(f)) \in Table
      /\ Without(enums, Dropped(f))[n] = IF n \in Dropped(f) THEN None ELSE enums[n]
  BY <1>1, WithoutTable
<1>4. /\ n \in NamesOf(mine) => byFullName'[n] \in mine /\ NameOf[byFullName'[n]] = n
      /\ n \notin NamesOf(mine) => byFullName'[n] = IF n \in Dropped(f) THEN None ELSE byFullName[n]
  BY <1>2, <1>3, PutValue DEF MergeDocument
<1>5. /\ n \in NamesOf(rest) => enums'[n] \in rest /\ NameOf[enums'[n]] = n
      /\ n \notin NamesOf(rest) => enums'[n] = IF n \in Dropped(f) THEN None ELSE enums[n]
  BY <1>2, <1>3, PutValue DEF MergeDocument
<1>6. Answers(n)' = {byFullName'[n], enums'[n]} \ {None}
  BY DEF Answers
<1>7. ASSUME NEW d \in TypesOf(f), NameOf[d] = n, n \in Dropped(f) \/ Answers(n) = {}
      PROVE  Answers(n)' = {d}
  <2>1. \A e \in TypesOf(f) : NameOf[e] = n => e = d
    BY <1>7, DescriptorAssumption DEF TypesOf
  <2>2. d # None /\ d \in Type
    BY DescriptorAssumption DEF TypesOf
  <2>3. Answers(n) = {} => byFullName[n] = None /\ enums[n] = None
    BY DEF Answers
  <2>4. CASE d \in Messages
    <3>1. n \in NamesOf(mine) /\ n \notin NamesOf(rest)
      BY <1>7, <2>1, <2>4 DEF NamesOf
    <3>2. byFullName'[n] = d /\ enums'[n] = None
      BY <1>4, <1>5, <1>7, <2>1, <2>3, <3>1
    <3>3. QED
      BY <1>6, <2>2, <3>2
  <2>5. CASE d \notin Messages
    <3>1. n \notin NamesOf(mine) /\ n \in NamesOf(rest)
      BY <1>7, <2>1, <2>5 DEF NamesOf
    <3>2. byFullName'[n] = None /\ enums'[n] = d
      BY <1>4, <1>5, <1>7, <2>1, <2>3, <3>1
    <3>3. QED
      BY <1>6, <2>2, <3>2
  <2>6. QED
    BY <2>4, <2>5
<1>8. ASSUME n \notin NamesOf(TypesOf(f))
      PROVE  Answers(n)' = IF n \in Dropped(f) THEN {} ELSE Answers(n)
  <2>1. n \notin NamesOf(mine) /\ n \notin NamesOf(rest)
    BY <1>8 DEF NamesOf
  <2>2. QED
    BY <1>4, <1>5, <1>6, <2>1 DEF Answers
<1>9. QED
  BY <1>7, <1>8

LEMMA OptionsKept ==
  ASSUME opts' = opts
  PROVE  /\ \A n : ExternalOf(n)' = ExternalOf(n)
         /\ DocumentUnits' = DocumentUnits
         /\ WellPosed' = WellPosed
<1>1. BundleFiles' = BundleFiles /\ DocumentUnits' = DocumentUnits
  BY DEF BundleFiles, DocumentUnits
<1>2. Sourced' = Sourced
  BY <1>1 DEF Sourced
<1>3. QED
  BY <1>1, <1>2 DEF ExternalOf, WellPosed, NestedAlike

LEMMA ClashingUnion ==
  ASSUME NEW a, NEW b
  PROVE  Clashing(a \union b) = Clashing(a) \union Clashing(b)
BY DEF Clashing

LEMMA ReadGrows ==
  ASSUME TypeOK, UnitsInOrder, NEW f \in File, Merging(f), MergeNext(f)
  PROVE  Read' = Read \union TypesOf(f)
<1>1. f \in DocumentUnits[Body] /\ stage' = stage /\ pending' = pending \ {f}
  BY DEF Merging, UnitsInOrder, MergeNext
<1>2. Body' = Body /\ DocumentUnits' = DocumentUnits
  BY DEF MergeNext, Body, DocumentUnits
<1>3. \A d : d \in Read' <=>
         /\ d \in Type
         /\ \/ \E i \in 1 .. Body - 1 : FileOf[d] \in DocumentUnits[i]
            \/ FileOf[d] \in DocumentUnits[Body] \ (pending \ {f})
  BY <1>1, <1>2 DEF Read, Merging, DocumentStage
<1>4. \A d : d \in Read <=>
         /\ d \in Type
         /\ \/ \E i \in 1 .. Body - 1 : FileOf[d] \in DocumentUnits[i]
            \/ FileOf[d] \in DocumentUnits[Body] \ pending
  BY DEF Read, Merging, DocumentStage
<1>5. \A d : d \in TypesOf(f) <=> d \in Type /\ FileOf[d] = f
  BY DEF TypesOf
<1>6. \A d : d \in Read' <=> d \in Read \/ d \in TypesOf(f)
  BY <1>1, <1>3, <1>4, <1>5
<1>7. QED
  BY <1>6

LEMMA NamesOfUnion ==
  ASSUME NEW a, NEW b
  PROVE  NamesOf(a \union b) = NamesOf(a) \union NamesOf(b)
BY DEF NamesOf

\* Merging a document file keeps what the tables say of what was read.
LEMMA DocumentStep ==
  ASSUME TypeOK, UnitsInOrder, WellPosed, AnswersDocument, NEW f \in File,
         Merging(f), MergeNext(f), MergeDocument(f)
  PROVE  AnswersDocument'
<1>1. fromDocument = NamesOf(Read) /\ opts' = opts
  BY DEF AnswersDocument, Merging, DocumentStage, MergeNext
<1>2. Read' = Read \union TypesOf(f)
  BY ReadGrows
<1>3. fromDocument' = fromDocument \union NamesOf(TypesOf(f))
  BY DEF MergeDocument
<1>4. fromDocument' = NamesOf(Read')
  BY <1>1, <1>2, <1>3, NamesOfUnion
<1>5. \A n : ExternalOf(n)' = ExternalOf(n)
  BY <1>1, OptionsKept
<1>6. \A n : Left(n, fromDocument)' = Left(n, fromDocument \union NamesOf(TypesOf(f)))
  BY <1>3, <1>5 DEF Left
<1>7. ASSUME NEW n \in Name
      PROVE  Answers(n)' = IF n \in fromDocument' THEN Called(n, Read') ELSE Left(n, fromDocument)'
  <2>1. Answers(n) = IF n \in fromDocument THEN Called(n, Read) ELSE Left(n, fromDocument)
    BY DEF AnswersDocument, Merging, DocumentStage
  <2>2. CASE n \in NamesOf(TypesOf(f))
    <3>1. PICK d \in TypesOf(f) : NameOf[d] = n
      BY <2>2 DEF NamesOf
    <3>2. n \notin fromDocument
      BY <1>1, <2>2, MergingTypes
    <3>3. n \in Dropped(f) \/ Answers(n) = {}
      BY <2>1, <3>1, <3>2, Covered DEF Left
    <3>4. Answers(n)' = {d}
      BY <3>1, <3>3, MergeDocumentAnswers
    <3>5. Called(n, Read) = {}
      BY <1>1, <3>2 DEF Called, NamesOf
    <3>6. Called(n, TypesOf(f)) = {d}
      BY <3>1, DescriptorAssumption DEF Called, TypesOf
    <3>7. Called(n, Read') = {d}
      BY <1>2, <3>5, <3>6 DEF Called
    <3>8. QED
      BY <1>3, <2>2, <3>4, <3>7
  <2>3. CASE n \notin NamesOf(TypesOf(f)) /\ n \in Dropped(f)
    <3>1. Answers(n)' = {}
      BY <2>3, MergeDocumentAnswers
    <3>2. n \notin fromDocument' /\ Left(n, fromDocument)' = {}
      BY <1>3, <1>6, <2>3, DroppedNested
    <3>3. QED
      BY <3>1, <3>2
  <2>4. CASE n \notin NamesOf(TypesOf(f)) /\ n \notin Dropped(f)
    <3>1. Answers(n)' = Answers(n)
      BY <2>4, MergeDocumentAnswers
    <3>2. Left(n, fromDocument)' = Left(n, fromDocument)
      BY <1>6, <2>4, KeptLeft
    <3>3. Called(n, Read') = Called(n, Read)
      BY <1>2, <2>4 DEF Called, NamesOf
    <3>4. QED
      BY <1>3, <2>1, <2>4, <3>1, <3>2, <3>3
  <2>5. QED
    BY <2>2, <2>3, <2>4
<1>8. Clashing(Read)' = Clashing(Read) \union Clashing(TypesOf(f))
  <2>1. Clashing(Read)' = Clashing(Read \union TypesOf(f))
    BY <1>2, <1>5 DEF Clashing
  <2>2. QED
    BY <2>1, ClashingUnion
<1>9. Redefined(f) = Clashing(TypesOf(f))
  BY ReplacedIs
<1>10. differs' = NamesOf(UNION {Family(x) : x \in Clashing(Read)'})
  <2>1. differs = NamesOf(UNION {Family(x) : x \in Clashing(Read)})
    BY DEF AnswersDocument, Merging, DocumentStage
  <2>2. differs' = differs \union NamesOf(UNION {Family(x) : x \in Clashing(TypesOf(f))})
    BY <1>9 DEF MergeDocument
  <2>3. UNION {Family(x) : x \in Clashing(Read)'}
          = (UNION {Family(x) : x \in Clashing(Read)})
              \union (UNION {Family(x) : x \in Clashing(TypesOf(f))})
    BY <1>8
  <2>4. QED
    BY <2>1, <2>2, <2>3, NamesOfUnion
<1>11. warnings' = {<<NameOf[x], FileOf[x]>> : x \in Clashing(Read)'}
  <2>1. warnings = {<<NameOf[x], FileOf[x]>> : x \in Clashing(Read)}
    BY DEF AnswersDocument, Merging, DocumentStage
  <2>2. warnings' = warnings \union {<<NameOf[x], FileOf[x]>> : x \in Clashing(TypesOf(f))}
    BY <1>9 DEF MergeDocument
  <2>3. QED
    BY <1>8, <2>1, <2>2
<1>12. QED
  BY <1>4, <1>7, <1>10, <1>11 DEF AnswersDocument

\* What Merge does to one name, where nothing of another kind answers to it.
LEMMA MergeAnswers ==
  ASSUME TypeOK, NEW f \in File, Merge(f), NEW n \in Name
  PROVE  /\ \A d \in TypesOf(f) :
              NameOf[d] = n /\ (\A e \in Answers(n) : e \in Messages <=> d \in Messages)
                => Answers(n)' = {d}
         /\ n \notin NamesOf(TypesOf(f)) => Answers(n)' = Answers(n)
<1> DEFINE mine == TypesOf(f) \intersect Messages
           rest == TypesOf(f) \ Messages
<1>1. byFullName \in Table /\ enums \in Table
  BY Tables
<1>2. mine \in SUBSET Type /\ rest \in SUBSET Type
  BY DEF TypesOf
<1>3. /\ n \in NamesOf(mine) => byFullName'[n] \in mine /\ NameOf[byFullName'[n]] = n
      /\ n \notin NamesOf(mine) => byFullName'[n] = byFullName[n]
  BY <1>1, <1>2, PutValue DEF Merge
<1>4. /\ n \in NamesOf(rest) => enums'[n] \in rest /\ NameOf[enums'[n]] = n
      /\ n \notin NamesOf(rest) => enums'[n] = enums[n]
  BY <1>1, <1>2, PutValue DEF Merge
<1>5. Answers(n)' = {byFullName'[n], enums'[n]} \ {None}
  BY DEF Answers
<1>6. /\ byFullName[n] \in Messages \union {None}
      /\ enums[n] \in (Type \ Messages) \union {None}
  BY DEF TypeOK
<1>7. ASSUME NEW d \in TypesOf(f), NameOf[d] = n,
             \A e \in Answers(n) : e \in Messages <=> d \in Messages
      PROVE  Answers(n)' = {d}
  <2>1. \A e \in TypesOf(f) : NameOf[e] = n => e = d
    BY <1>7, DescriptorAssumption DEF TypesOf
  <2>2. d # None /\ d \in Type
    BY DescriptorAssumption DEF TypesOf
  <2>3. CASE d \in Messages
    <3>1. n \in NamesOf(mine) /\ n \notin NamesOf(rest)
      BY <1>7, <2>1, <2>3 DEF NamesOf
    <3>2. enums[n] = None
      BY <1>6, <1>7, <2>3 DEF Answers
    <3>3. byFullName'[n] = d /\ enums'[n] = None
      BY <1>3, <1>4, <1>7, <2>1, <3>1, <3>2
    <3>4. QED
      BY <1>5, <2>2, <3>3
  <2>4. CASE d \notin Messages
    <3>1. n \notin NamesOf(mine) /\ n \in NamesOf(rest)
      BY <1>7, <2>1, <2>4 DEF NamesOf
    <3>2. byFullName[n] = None
      BY <1>6, <1>7, <2>4 DEF Answers
    <3>3. byFullName'[n] = None /\ enums'[n] = d
      BY <1>3, <1>4, <1>7, <2>1, <3>1, <3>2
    <3>4. QED
      BY <1>5, <2>2, <3>3
  <2>5. QED
    BY <2>3, <2>4
<1>8. ASSUME n \notin NamesOf(TypesOf(f)) PROVE Answers(n)' = Answers(n)
  <2>1. n \notin NamesOf(mine) /\ n \notin NamesOf(rest)
    BY <1>8 DEF NamesOf
  <2>2. QED
    BY <1>3, <1>4, <1>5, <2>1 DEF Answers
<1>9. QED
  BY <1>7, <1>8

\* The types of a unit merged so far gain those of f.
Merged(unit, left, n) == Called(n, TypesIn(unit \ left))

LEMMA CalledKept ==
  ASSUME NEW unit, NEW left, NEW f, NEW rest, rest = left \ {f}, NEW n,
         n \notin NamesOf(TypesOf(f))
  PROVE  Merged(unit, rest, n) = Merged(unit, left, n)
BY DEF Merged, Called, TypesIn, TypesOf, NamesOf

LEMMA CalledGrows ==
  ASSUME NEW unit, NEW left, NEW f, f \in unit, Distinct(TypesIn(unit)), NEW n,
         NEW rest, rest = left \ {f},
         NEW d \in TypesOf(f), NameOf[d] = n
  PROVE  /\ Merged(unit, rest, n) = {d}
         /\ f \in left => Merged(unit, left, n) = {}
<1>1. d \in TypesIn(unit) /\ FileOf[d] = f /\ d \in Type
  BY DEF TypesIn, TypesOf
<1>2. \A e \in TypesIn(unit) : NameOf[e] = n => e = d
  BY <1>1 DEF Distinct
<1>3. QED
  BY <1>1, <1>2 DEF Merged, Called, TypesIn

LEMMA ExternalStep ==
  ASSUME TypeOK, UnitsInOrder, WellPosed, AnswersExternal, NEW f \in File,
         MergeNext(f), Merge(f), stage \in {"mergeExternal", "mergeBundle"}
  PROVE  AnswersExternal'
<1>1. /\ f \in pending /\ pending' = pending \ {f}
      /\ opts' = opts /\ stage' = stage
  BY DEF MergeNext
<1>2. fromDocument' = {} /\ differs' = {} /\ warnings' = {}
  BY DEF AnswersExternal, ExternalStage, Merge
<1>3. CASE stage = "mergeExternal"
  <2>1. f \in opts.user /\ Distinct(TypesIn(opts.user))
    BY <1>1, <1>3, UnitsLinked DEF UnitsInOrder
  <2>2. ASSUME NEW n \in Name
        PROVE  Answers(n)' = Merged(opts.user, pending', n)
    <3>1. Answers(n) = Merged(opts.user, pending, n)
      BY <1>3 DEF AnswersExternal, Merged
    <3>2. CASE n \notin NamesOf(TypesOf(f))
      BY <1>1, <3>1, <3>2, CalledKept, MergeAnswers
    <3>3. CASE n \in NamesOf(TypesOf(f))
      <4>1. PICK d \in TypesOf(f) : NameOf[d] = n
        BY <3>3 DEF NamesOf
      <4>2. Answers(n) = {}
        BY <1>1, <2>1, <3>1, <4>1, CalledGrows
      <4>3. Answers(n)' = {d}
        BY <4>1, <4>2, MergeAnswers
      <4>4. QED
        BY <1>1, <2>1, <4>1, <4>3, CalledGrows
    <3>4. QED
      BY <3>2, <3>3
  <2>3. QED
    BY <1>1, <1>2, <1>3, <2>2 DEF AnswersExternal, Merged
<1>4. CASE stage = "mergeBundle"
  <2>1. /\ f \in opts.bundle /\ Distinct(TypesIn(opts.bundle))
        /\ BundleFiles = opts.bundle
    BY <1>1, <1>4, UnitsLinked DEF UnitsInOrder, BundleFiles
  <2> DEFINE Before(n) == Merged(opts.bundle, pending, n)
             After(n) == Merged(opts.bundle, pending', n)
             User(n) == Called(n, TypesIn(opts.user))
  <2>2. ASSUME NEW n \in Name
        PROVE  Answers(n)' = IF After(n) # {} THEN After(n) ELSE User(n)
    <3>1. Answers(n) = IF Before(n) # {} THEN Before(n) ELSE User(n)
      BY <1>4 DEF AnswersExternal, Merged
    <3>2. CASE n \notin NamesOf(TypesOf(f))
      <4>1. After(n) = Before(n)
        BY <1>1, <3>2, CalledKept
      <4>2. QED
        BY <3>1, <3>2, <4>1, MergeAnswers
    <3>3. CASE n \in NamesOf(TypesOf(f))
      <4>1. PICK d \in TypesOf(f) : NameOf[d] = n
        BY <3>3 DEF NamesOf
      <4>2. Before(n) = {} /\ After(n) = {d}
        BY <1>1, <2>1, <4>1, CalledGrows
      <4>3. d \in TypesIn(BundleFiles)
        BY <2>1 DEF TypesOf, TypesIn
      <4>4. \A e \in Answers(n) : e \in Messages <=> d \in Messages
        <5>1. Answers(n) = User(n)
          BY <3>1, <4>2
        <5>2. \A e \in TypesIn(opts.user) :
                NameOf[e] = NameOf[d] => (e \in Messages) = (d \in Messages)
          BY <4>3 DEF WellPosed
        <5>3. QED
          BY <4>1, <5>1, <5>2 DEF Called
      <4>5. Answers(n)' = {d}
        BY <4>1, <4>4, MergeAnswers
      <4>6. QED
        BY <4>2, <4>5
    <3>4. QED
      BY <3>2, <3>3
  <2>3. QED
    BY <1>1, <1>2, <1>4, <2>2 DEF AnswersExternal, Merged
<1>5. QED
  BY <1>3, <1>4

LEMMA NextUnitsInOrder ==
  ASSUME TypeOK, UnitsInOrder, [Next]_vars
  PROVE  UnitsInOrder'
<1>1. CASE ValidateRef
  BY <1>1 DEF ValidateRef, Fail, UnitsInOrder, ExternalStage
<1>2. CASE CompileExternal
  BY <1>2 DEF CompileExternal, Fail, UnitsInOrder, ExternalStage
<1>3. CASE FetchBundle
  BY <1>3 DEF FetchBundle, Fail, UnitsInOrder, ExternalStage
<1>4. CASE BundleMerged
  BY <1>4 DEF BundleMerged, UnitsInOrder, ExternalStage
<1>5. CASE CompileVirtual
  <2>1. CASE Fail
    BY <1>5, <2>1 DEF Fail, UnitsInOrder, ExternalStage
  <2>2. CASE stage' = "mergeDocument" /\ pending' = opts.virtual /\ UNCHANGED <<opts, blobs>>
    <3>1. blobs = opts.blobs
      BY <1>5 DEF CompileVirtual, UnitsInOrder
    <3>2. Body' = 1 /\ DocumentUnits'[1] = opts.virtual
      <4>1. Len(opts.blobs) \in Nat
        BY RequestParts, LenProperties
      <4>2. DocumentUnits' = DocumentUnits
        BY <2>2 DEF DocumentUnits
      <4>3. QED
        BY <2>2, <3>1, <4>1, <4>2, UnitsOfDocument DEF Body
    <3>3. QED
      BY <2>2, <3>1, <3>2 DEF UnitsInOrder, ExternalStage
  <2>3. QED
    BY <1>5, <2>1, <2>2 DEF CompileVirtual
<1>6. CASE HydrateBlob
  <2>1. CASE Fail
    BY <1>6, <2>1 DEF Fail, UnitsInOrder, ExternalStage
  <2>2. CASE pending' = Head(blobs) /\ blobs' = Tail(blobs) /\ UNCHANGED <<opts, stage>>
    <3>1. /\ blobs # <<>> /\ stage = "mergeDocument"
          /\ blobs \in Seq(SUBSET DocumentFile)
          /\ opts.blobs \in Seq(SUBSET DocumentFile)
      BY <1>6, RequestParts DEF HydrateBlob, TypeOK
    <3>2. /\ Len(blobs) \in Nat /\ Len(blobs) >= 1 /\ Len(opts.blobs) \in Nat
          /\ Len(blobs') = Len(blobs) - 1
          /\ Head(blobs) = blobs[1]
          /\ \A i \in 1 .. Len(blobs) - 1 : Tail(blobs)[i] = blobs[i + 1]
      BY <2>2, <3>1
    <3>3. Len(blobs) <= Len(opts.blobs)
      BY DEF UnitsInOrder
    <3>4. \A i \in 1 .. Len(blobs) : blobs[i] = opts.blobs[Len(opts.blobs) - Len(blobs) + i]
      BY DEF UnitsInOrder
    <3>5. Body' = Body + 1 /\ Body \in 1 .. Len(opts.blobs)
      <4>1. /\ Len(blobs') = Len(blobs) - 1 /\ Len(blobs) \in Nat /\ Len(blobs) >= 1
            /\ Len(opts.blobs) \in Nat /\ opts' = opts
        BY <2>2, <3>2
      <4>2. QED
        BY <3>3, <4>1 DEF Body
    <3>6. Head(blobs) = opts.blobs[Body]
      <4>1. blobs[1] = opts.blobs[Len(opts.blobs) - Len(blobs) + 1]
        BY <3>2, <3>4
      <4>2. QED
        BY <3>2, <4>1 DEF Body
    <3>7. DocumentUnits'[Body'] = opts.blobs[Body]
      <4>1. DocumentUnits' = DocumentUnits
        BY <2>2 DEF DocumentUnits
      <4>2. QED
        BY <3>5, <4>1, UnitsOfDocument
    <3>8. \A i \in 1 .. Len(blobs') : blobs'[i] = opts'.blobs[Len(opts'.blobs) - Len(blobs') + i]
      <4> SUFFICES ASSUME NEW i \in 1 .. Len(blobs')
                   PROVE  blobs'[i] = opts.blobs[Len(opts.blobs) - Len(blobs') + i]
        BY <2>2
      <4>1. i \in 1 .. Len(blobs) - 1 /\ i + 1 \in 1 .. Len(blobs)
        BY <3>2
      <4>2. blobs'[i] = blobs[i + 1]
        BY <2>2, <3>2, <4>1
      <4>3. blobs[i + 1] = opts.blobs[Len(opts.blobs) - Len(blobs) + (i + 1)]
        BY <3>4, <4>1
      <4>4. Len(opts.blobs) - Len(blobs) + (i + 1) = Len(opts.blobs) - Len(blobs') + i
        BY <3>2, <4>1
      <4>5. QED
        BY <4>2, <4>3, <4>4
    <3>9. Len(blobs') <= Len(opts'.blobs)
      BY <2>2, <3>2, <3>3
    <3>10. pending' \subseteq DocumentUnits'[Body']
      BY <2>2, <3>6, <3>7
    <3>11. stage' = "mergeDocument"
      BY <2>2, <3>1
    <3>12. QED
      BY <3>8, <3>9, <3>10, <3>11 DEF UnitsInOrder, ExternalStage
  <2>3. QED
    BY <1>6, <2>1, <2>2 DEF HydrateBlob
<1>7. ASSUME NEW f \in File, MergeNext(f) PROVE UnitsInOrder'
  <2>1. pending' \subseteq pending /\ UNCHANGED <<opts, stage, blobs>> /\ pending # {}
    BY <1>7 DEF MergeNext
  <2>2. Body' = Body /\ DocumentUnits' = DocumentUnits
    BY <2>1 DEF Body, DocumentUnits
  <2>3. QED
    BY <2>1, <2>2 DEF UnitsInOrder, ExternalStage
<1>8. CASE Return
  BY <1>8 DEF Return, UnitsInOrder, ExternalStage
<1>9. CASE UNCHANGED vars
  <2>1. UNCHANGED <<opts, stage, pending, blobs>>
    BY <1>9 DEF vars
  <2>2. Body' = Body /\ DocumentUnits' = DocumentUnits
    BY <2>1 DEF Body, DocumentUnits
  <2>3. QED
    BY <2>1, <2>2 DEF UnitsInOrder
<1>10. QED
  BY <1>1, <1>2, <1>3, <1>4, <1>5, <1>6, <1>7, <1>8, <1>9 DEF Next

\* A step that merges nothing and reads nothing more keeps the answers.
LEMMA AnswersKept ==
  ASSUME UNCHANGED registry, opts' = opts
  PROVE  /\ \A n : Answers(n)' = Answers(n)
         /\ \A n : Left(n, fromDocument)' = Left(n, fromDocument)
         /\ Read' = Read => Clashing(Read)' = Clashing(Read)
<1>1. \A n : ExternalOf(n)' = ExternalOf(n)
  BY OptionsKept
<1>2. \A n : Answers(n)' = Answers(n)
  BY DEF registry, Answers
<1>3. \A n : Left(n, fromDocument)' = Left(n, fromDocument)
  BY <1>1 DEF registry, Left
<1>4. Read' = Read => Clashing(Read)' = Clashing(Read)
  BY <1>1 DEF Clashing
<1>5. QED
  BY <1>2, <1>3, <1>4

LEMMA QuietDocument ==
  ASSUME UNCHANGED registry, opts' = opts, AnswersDocument,
         stage \in DocumentStage \union {"document"}, Read' = Read
  PROVE  AnswersDocument'
<1>1. UNCHANGED <<fromDocument, differs, warnings>>
  BY DEF registry
<1>2. /\ fromDocument = NamesOf(Read)
      /\ \A n \in Name :
           Answers(n) = IF n \in fromDocument THEN Called(n, Read) ELSE Left(n, fromDocument)
      /\ differs = NamesOf(UNION {Family(x) : x \in Clashing(Read)})
      /\ warnings = {<<NameOf[x], FileOf[x]>> : x \in Clashing(Read)}
  BY DEF AnswersDocument
<1>3. \A n : Answers(n)' = Answers(n) /\ Left(n, fromDocument)' = Left(n, fromDocument)
  BY AnswersKept
<1>4. Clashing(Read)' = Clashing(Read)
  BY AnswersKept
<1>5. QED
  BY <1>1, <1>2, <1>3, <1>4 DEF AnswersDocument

\* The external sources are read: what they answer is what is left of them.
LEMMA DocumentBegins ==
  ASSUME UNCHANGED registry, opts' = opts, stage' = "document",
         fromDocument = {}, differs = {}, warnings = {},
         \A n \in Name : Answers(n) = ExternalOf(n)
  PROVE  AnswersDocument' /\ AnswersExternal'
<1>1. Read' = {}
  BY DEF Read, DocumentStage
<1>2. fromDocument' = {} /\ differs' = {} /\ warnings' = {}
  BY DEF registry
<1>3. \A n : Answers(n)' = Answers(n) /\ Left(n, fromDocument)' = Left(n, fromDocument)
  BY AnswersKept
<1>4. \A n : Left(n, fromDocument) = ExternalOf(n)
  BY DEF Left
<1>5. Clashing(Read)' = {}
  BY <1>1 DEF Clashing
<1>6. NamesOf({}) = {} /\ UNION {Family(x) : x \in {}} = {}
  BY DEF NamesOf
<1>7. AnswersDocument'
  BY <1>1, <1>2, <1>3, <1>4, <1>5, <1>6 DEF AnswersDocument
<1>8. AnswersExternal'
  BY <1>2 DEF AnswersExternal
<1>9. QED
  BY <1>7, <1>8

LEMMA NextAnswers ==
  ASSUME TypeOK, UnitsInOrder, UnitsInOrder', WellPosed, AnswersExternal, AnswersDocument,
         [Next]_vars
  PROVE  AnswersExternal' /\ AnswersDocument'
<1>1. ASSUME Fail PROVE AnswersExternal' /\ AnswersDocument'
  BY <1>1 DEF Fail, AnswersExternal, AnswersDocument, ExternalStage, DocumentStage
<1>2. CASE ValidateRef
  <2>1. CASE Fail
    BY <1>1, <2>1
  <2>2. CASE stage = "start" /\ stage' = "external" /\ UNCHANGED <<opts, registry>>
    <3>1. \A n \in Name : Answers(n)' = {}
      BY <2>2, AnswersKept DEF AnswersExternal
    <3>2. QED
      BY <2>2, <3>1
      DEF AnswersExternal, AnswersDocument, ExternalStage, DocumentStage, registry
  <2>3. QED
    BY <1>2, <2>1, <2>2 DEF ValidateRef
<1>3. CASE CompileExternal
  <2>1. CASE Fail
    BY <1>1, <2>1
  <2>2. CASE stage = "external" /\ stage' = "mergeExternal" /\ pending' = opts.user /\ UNCHANGED <<opts, registry>>
    <3>1. \A n \in Name : Answers(n)' = {}
      BY <2>2, AnswersKept DEF AnswersExternal
    <3>2. \A n \in Name : Called(n, TypesIn(opts'.user \ pending')) = {}
      BY <2>2 DEF Called, TypesIn
    <3>3. QED
      BY <2>2, <3>1, <3>2
      DEF AnswersExternal, AnswersDocument, ExternalStage, DocumentStage, registry
  <2>3. QED
    BY <1>3, <2>1, <2>2 DEF CompileExternal
<1>4. CASE FetchBundle
  <2>1. \A n \in Name : Answers(n) = Called(n, TypesIn(opts.user))
    <3>1. stage = "mergeExternal" /\ opts.user \ pending = opts.user
      BY <1>4 DEF FetchBundle
    <3>2. QED
      BY <3>1 DEF AnswersExternal
  <2>2. CASE Fail
    BY <1>1, <2>2
  <2>3. CASE opts.ref = Coordinates /\ stage' = "mergeBundle" /\ pending' = opts.bundle
             /\ UNCHANGED <<opts, registry>>
    <3>1. \A n \in Name : Answers(n)' = Called(n, TypesIn(opts.user))
      BY <2>1, <2>3, AnswersKept
    <3>2. \A n \in Name : Called(n, TypesIn(opts'.bundle \ pending')) = {}
      BY <2>3 DEF Called, TypesIn
    <3>3. UNCHANGED <<fromDocument, differs, warnings>> /\ stage = "mergeExternal"
      BY <1>4, <2>3 DEF registry, FetchBundle
    <3>4. QED
      BY <2>3, <3>1, <3>2, <3>3
      DEF AnswersExternal, AnswersDocument, ExternalStage, DocumentStage
  <2>4. CASE opts.ref # Coordinates /\ stage' = "document" /\ UNCHANGED <<opts, registry>>
    <3>1. BundleFiles = {}
      BY <2>4 DEF BundleFiles
    <3>2. \A n \in Name : ExternalOf(n) = Called(n, TypesIn(opts.user))
      BY <3>1 DEF ExternalOf, Called, TypesIn
    <3>3. fromDocument = {} /\ differs = {} /\ warnings = {}
      BY <1>4 DEF AnswersExternal, ExternalStage, FetchBundle
    <3>4. QED
      BY <2>1, <2>4, <3>2, <3>3, DocumentBegins
  <2>5. QED
    BY <1>4, <2>2, <2>3, <2>4 DEF FetchBundle
<1>5. CASE BundleMerged
  <2>1. stage = "mergeBundle" /\ opts.bundle \ pending = opts.bundle /\ BundleFiles = opts.bundle
    BY <1>5 DEF BundleMerged, UnitsInOrder, BundleFiles
  <2>2. \A n \in Name : Answers(n) = ExternalOf(n)
    BY <2>1 DEF AnswersExternal, ExternalOf
  <2>3. fromDocument = {} /\ differs = {} /\ warnings = {}
    BY <2>1 DEF AnswersExternal, ExternalStage
  <2>4. QED
    BY <1>5, <2>2, <2>3, DocumentBegins DEF BundleMerged
<1>6. CASE CompileVirtual
  <2>1. CASE Fail
    BY <1>1, <2>1
  <2>2. CASE stage = "document" /\ stage' = "mergeDocument" /\ pending' = opts.virtual
             /\ UNCHANGED <<opts, blobs, registry>>
    <3>1. Body' = 1 /\ DocumentUnits'[1] = opts.virtual
      <4>1. Len(opts.blobs) \in Nat /\ blobs = opts.blobs
        BY <2>2, RequestParts, LenProperties DEF UnitsInOrder
      <4>2. DocumentUnits' = DocumentUnits
        BY <2>2 DEF DocumentUnits
      <4>3. QED
        BY <2>2, <4>1, <4>2, UnitsOfDocument DEF Body
    <3>2. Read' = Read
      BY <2>2, <3>1 DEF Read, DocumentStage
    <3>3. AnswersDocument'
      BY <2>2, <3>2, QuietDocument
    <3>4. QED
      BY <2>2, <3>3 DEF AnswersExternal, ExternalStage
  <2>3. QED
    BY <1>6, <2>1, <2>2 DEF CompileVirtual
<1>7. CASE HydrateBlob
  <2>1. CASE Fail
    BY <1>1, <2>1
  <2>2. CASE stage = "mergeDocument" /\ pending = {} /\ pending' = Head(blobs) /\ blobs' = Tail(blobs)
             /\ blobs # <<>> /\ UNCHANGED <<opts, stage, registry>>
    <3>1. /\ blobs \in Seq(SUBSET DocumentFile) /\ opts.blobs \in Seq(SUBSET DocumentFile)
          /\ Len(blobs) <= Len(opts.blobs)
      BY RequestParts DEF TypeOK, UnitsInOrder
    <3>2. Body' = Body + 1 /\ Body \in 1 .. Len(opts.blobs) /\ DocumentUnits' = DocumentUnits
      <4>1. Len(blobs') = Len(blobs) - 1 /\ Len(blobs) \in Nat /\ Len(blobs) >= 1 /\ Len(opts.blobs) \in Nat
        BY <2>2, <3>1
      <4>2. QED
        BY <2>2, <3>1, <4>1 DEF Body, DocumentUnits
    <3>3. pending' = DocumentUnits[Body + 1]
      <4>1. blobs[1] = opts.blobs[Len(opts.blobs) - Len(blobs) + 1] /\ Head(blobs) = blobs[1]
        BY <2>2, <3>1 DEF UnitsInOrder
      <4>2. QED
        BY <2>2, <3>2, <4>1, UnitsOfDocument DEF Body
    <3>4. \A d : d \in Read' <=> d \in Type /\ \E i \in 1 .. Body : FileOf[d] \in DocumentUnits[i]
      <4>1. (Body + 1) - 1 = Body
        BY <3>2
      <4>2. Read' = {d \in Type : \/ \E i \in 1 .. (Body + 1) - 1 : FileOf[d] \in DocumentUnits[i]
                                  \/ FileOf[d] \in DocumentUnits[Body + 1] \ pending'}
        BY <2>2, <3>2 DEF Read, DocumentStage
      <4>3. QED
        BY <3>3, <4>1, <4>2
    <3>5. \A d : d \in Read <=> d \in Type /\ \E i \in 1 .. Body : FileOf[d] \in DocumentUnits[i]
      <4>1. \A i : i \in 1 .. Body <=> i \in 1 .. Body - 1 \/ i = Body
        BY <3>2
      <4>2. QED
        BY <2>2, <4>1 DEF Read, DocumentStage
    <3>6. Read' = Read
      BY <3>4, <3>5
    <3>7. AnswersDocument'
      BY <2>2, <3>6, QuietDocument DEF DocumentStage
    <3>8. QED
      BY <2>2, <3>7 DEF AnswersExternal, ExternalStage
  <2>3. QED
    BY <1>7, <2>1, <2>2 DEF HydrateBlob
<1>8. ASSUME NEW f \in File, MergeNext(f) PROVE AnswersExternal' /\ AnswersDocument'
  <2>1. stage' = stage
    BY <1>8 DEF MergeNext
  <2>2. CASE stage \in {"mergeExternal", "mergeBundle"} /\ Merge(f)
    <3>1. AnswersExternal'
      BY <1>8, <2>2, ExternalStep
    <3>2. QED
      BY <2>1, <2>2, <3>1 DEF AnswersDocument, DocumentStage
  <2>3. CASE stage = "mergeDocument" /\ MergeDocument(f)
    <3>1. Merging(f)
      BY <1>8, <2>3 DEF Merging, MergeNext
    <3>2. AnswersDocument'
      BY <1>8, <2>3, <3>1, DocumentStep
    <3>3. QED
      BY <2>1, <2>3, <3>2 DEF AnswersExternal, ExternalStage
  <2>4. QED
    BY <1>8, <2>2, <2>3 DEF MergeNext
<1>9. CASE Return
  <2>1. /\ stage = "mergeDocument" /\ stage' = "done"
        /\ UNCHANGED <<opts, pending, blobs, registry>>
    BY <1>9 DEF Return
  <2>2. Read' = Read
    <3>1. Body' = Body /\ DocumentUnits' = DocumentUnits
      BY <2>1 DEF Body, DocumentUnits
    <3>2. QED
      BY <2>1, <3>1 DEF Read, DocumentStage
  <2>3. AnswersDocument'
    BY <2>1, <2>2, QuietDocument DEF DocumentStage
  <2>4. QED
    BY <2>1, <2>3 DEF AnswersExternal, ExternalStage
<1>10. CASE UNCHANGED vars
  <2>1. UNCHANGED <<opts, stage, pending, blobs, registry>>
    BY <1>10 DEF vars, registry
  <2>2. Read' = Read
    <3>1. Body' = Body /\ DocumentUnits' = DocumentUnits
      BY <2>1 DEF Body, DocumentUnits
    <3>2. QED
      BY <2>1, <3>1 DEF Read
  <2>3. AnswersDocument'
    <3>1. CASE stage \in DocumentStage \union {"document"}
      BY <2>1, <2>2, <3>1, QuietDocument
    <3>2. CASE stage \notin DocumentStage \union {"document"}
      BY <2>1, <3>2 DEF AnswersDocument
    <3>3. QED
      BY <3>1, <3>2
  <2>4. AnswersExternal'
    <3>1. \A n : Answers(n)' = Answers(n)
      BY <2>1, AnswersKept
    <3>2. UNCHANGED <<fromDocument, differs, warnings>>
      BY <2>1 DEF registry
    <3>3. QED
      BY <2>1, <3>1, <3>2 DEF AnswersExternal
  <2>5. QED
    BY <2>3, <2>4
<1>11. QED
  BY <1>2, <1>3, <1>4, <1>5, <1>6, <1>7, <1>8, <1>9, <1>10 DEF Next

LEMMA InitRInv == Init => RInv
<1> SUFFICES ASSUME Init PROVE RInv
  OBVIOUS
<1>1. opts.blobs \in Seq(SUBSET DocumentFile) /\ TypeOK
  BY InitTypeOK, RequestParts
<1>2. UnitsInOrder
  BY <1>1 DEF Init, UnitsInOrder, ExternalStage
<1>3. \A n \in Name : Answers(n) = {}
  BY DEF Init, EmptyTable, Answers
<1>4. QED
  BY <1>2, <1>3 DEF Init, RInv, AnswersExternal, AnswersDocument, DocumentStage

LEMMA ReadInvariance == Spec => [](TypeOK /\ RInv)
<1>1. TypeOK /\ RInv /\ [Next]_vars => RInv'
  <2> SUFFICES ASSUME TypeOK, RInv, [Next]_vars PROVE RInv'
    OBVIOUS
  <2>1. UnitsInOrder'
    BY NextUnitsInOrder DEF RInv
  <2>2. opts' = opts
    BY DEF Next, vars, ValidateRef, CompileExternal, FetchBundle, BundleMerged, CompileVirtual,
           HydrateBlob, MergeNext, Return, Fail
  <2>3. WellPosed' = WellPosed
    BY <2>2, OptionsKept
  <2>4. QED
    BY <2>1, <2>3, NextAnswers DEF RInv
<1>2. QED
  BY <1>1, InitRInv, TypeCorrect, PTL DEF Spec

\* Once the resolution is done, the whole document was read.
LEMMA AllRead ==
  ASSUME TypeOK, UnitsInOrder, Done
  PROVE  Read = DocumentTypes
<1>1. Body = Len(DocumentUnits) /\ Body \in Nat /\ pending = {}
  BY UnitsOfDocument, RequestParts, LenProperties DEF Done, UnitsInOrder, Body
<1>2. DOMAIN DocumentUnits = 1 .. Body /\ Body >= 1
  BY <1>1, UnitsOfDocument, RequestParts, LenProperties
<1>3. \A i : i \in 1 .. Body <=> i \in 1 .. Body - 1 \/ i = Body
  BY <1>2, <1>1
<1>4. \A d : d \in Read <=> d \in Type /\ \E i \in DOMAIN DocumentUnits : FileOf[d] \in DocumentUnits[i]
  BY <1>1, <1>2, <1>3 DEF Read, Done, DocumentStage
<1>5. \A d : d \in DocumentTypes <=> d \in Type /\ \E i \in DOMAIN DocumentUnits : FileOf[d] \in DocumentUnits[i]
  BY DEF DocumentTypes, TypesIn
<1>6. QED
  BY <1>4, <1>5

\* What the registry of a finished resolution holds.
LEMMA AtTheEnd ==
  ASSUME TypeOK, RInv, Done, WellPosed
  PROVE  /\ fromDocument = NamesOf(DocumentTypes)
         /\ \A n \in Name :
              Answers(n) = IF n \in fromDocument THEN Called(n, DocumentTypes) ELSE Left(n, fromDocument)
         /\ differs = NamesOf(UNION {Family(x) : x \in Clashing(DocumentTypes)})
         /\ warnings = {<<NameOf[x], FileOf[x]>> : x \in Clashing(DocumentTypes)}
<1>1. Read = DocumentTypes
  BY AllRead DEF RInv
<1>2. QED
  BY <1>1 DEF RInv, AnswersDocument, Done, DocumentStage

(***************************************************************************)
(* Resolving answers every name as the options declare, in whatever order  *)
(* the files of a unit come: the document's definition, or what it left of *)
(* the last external one.                                                  *)
(***************************************************************************)
THEOREM ResolutionAsDeclared == Spec => []ResolvesAsDeclared
<1>1. TypeOK /\ RInv => ResolvesAsDeclared
  <2> SUFFICES ASSUME TypeOK, RInv, Done, WellPosed, NEW n \in Name
               PROVE  Answers(n) = Resolution(n)
    BY DEF ResolvesAsDeclared, Answers
  <2>1. \A k : k \in fromDocument <=> DocumentOf(k) # {}
    BY AtTheEnd, DocumentOfNames DEF NamesOf, Called
  <2>2. Left(n, fromDocument) = {x \in ExternalOf(n) : \A m \in Enclosing[x] : DocumentOf(NameOf[m]) = {}}
    BY <2>1 DEF Left
  <2>3. QED
    BY <2>1, <2>2, AtTheEnd, DocumentOfNames DEF Resolution
<1>2. QED
  BY <1>1, ReadInvariance, PTL

(***************************************************************************)
(* The warnings of a finished resolution name exactly the outermost types  *)
(* a document redefines differently, and where they came from: Warnings.   *)
(***************************************************************************)
THEOREM WarningsExact == Spec => []WarnedExactly
<1>1. TypeOK /\ RInv => WarnedExactly
  <2> SUFFICES ASSUME TypeOK, RInv, Done, WellPosed, NEW n \in Name, NEW f \in ExternalFile
               PROVE  <<n, f>> \in warnings <=>
                        \E x \in ExternalOf(n), d \in DocumentOf(n) :
                          /\ FileOf[x] = f
                          /\ ~SameDefinition(x, d)
                          /\ \A m \in Enclosing[d] : ExternalOf(NameOf[m]) = {}
    BY DEF WarnedExactly
  <2>1. <<n, f>> \in warnings <=> \E x \in Clashing(DocumentTypes) : NameOf[x] = n /\ FileOf[x] = f
    BY AtTheEnd
  <2>2. ASSUME NEW x \in Clashing(DocumentTypes), NameOf[x] = n, FileOf[x] = f
        PROVE  \E d \in DocumentOf(n) :
                 /\ x \in ExternalOf(n)
                 /\ ~SameDefinition(x, d)
                 /\ \A m \in Enclosing[d] : ExternalOf(NameOf[m]) = {}
    <3>1. PICK d \in DocumentTypes : /\ x \in ExternalOf(NameOf[d])
                                     /\ ~SameDefinition(x, d)
                                     /\ \A m \in Enclosing[d] : ExternalOf(NameOf[m]) = {}
      BY DEF Clashing
    <3>2. NameOf[d] = n
      BY <2>2, <3>1, ExternalOfTypes
    <3>3. d \in DocumentOf(n)
      BY <3>2, DocumentOfNames DEF Called
    <3>4. QED
      BY <3>1, <3>2, <3>3
  <2>3. ASSUME NEW x \in ExternalOf(n), NEW d \in DocumentOf(n), ~SameDefinition(x, d),
               \A m \in Enclosing[d] : ExternalOf(NameOf[m]) = {}
        PROVE  x \in Clashing(DocumentTypes) /\ NameOf[x] = n
    <3>1. d \in DocumentTypes /\ NameOf[d] = n
      BY DocumentOfNames DEF Called
    <3>2. x \in Type /\ NameOf[x] = n
      BY ExternalOfTypes
    <3>3. QED
      BY <2>3, <3>1, <3>2 DEF Clashing
  <2>4. QED
    BY <2>1, <2>2, <2>3
<1>2. QED
  BY <1>1, ReadInvariance, PTL

\* t and d, of one name, are nested in y and o, which agree: so do they.
LEMMA NestedAgree ==
  ASSUME TypeOK, WellPosed, NEW n, NEW t \in ExternalOf(n), NEW d \in DocumentTypes,
         NameOf[d] = n, NEW y \in Enclosing[t], NEW o \in Enclosing[d], SameDefinition(y, o)
  PROVE  SameDefinition(t, d)
<1> DEFINE Part(k) == <<NameOf[k], k \in Messages, Shape[k], NamesOf(Binds[k])>>
<1>1. /\ t \in Sourced /\ t \in Type /\ t \notin DocumentType /\ NameOf[t] = n
      /\ d \in Sourced /\ d \in Type /\ d \in DocumentType
  BY ExternalOfTypes, DocumentTypesAre
<1>2. /\ FileOf[y] = FileOf[t] /\ FileOf[o] = FileOf[d] /\ y \in Type /\ o \in Type
  BY <1>1, DescriptorAssumption
<1>3. ASSUME NEW k \in Family(t) PROVE \E j \in Family(d) : Part(j) = Part(k)
  <2>1. k \in Family(y) /\ k \in Type /\ FileOf[k] = FileOf[t]
    BY <1>1, <1>2, DescriptorAssumption DEF Family
  <2>2. Part(k) \in Definition(o)
    BY <2>1 DEF Definition, SameDefinition
  <2>3. PICK j \in Family(o) : Part(j) = Part(k)
    BY <2>2 DEF Definition
  <2>4. NameOf[j] = NameOf[k]
    BY <2>3
  <2>5. j \in Type /\ FileOf[j] = FileOf[d]
    BY <1>2, <2>3, DescriptorAssumption DEF Family
  <2>6. k \in Sourced /\ j \in Sourced /\ j \in DocumentType
    BY <1>1, <2>1, <2>5 DEF Sourced, TypesIn, DocumentType
  <2>7. j \in Family(d)
    <3>1. CASE k = t
      <4>1. j = d
        BY <1>1, <2>4, <2>5, <3>1, DescriptorAssumption
      <4>2. QED
        BY <4>1 DEF Family
    <3>2. CASE k # t
      <4>1. t \in Enclosing[k]
        BY <3>2 DEF Family
      <4>2. PICK q \in Enclosing[j] : NameOf[q] = NameOf[t]
        BY <1>1, <2>4, <2>6, <4>1, NestsAlike
      <4>3. q \in Type /\ FileOf[q] = FileOf[j]
        BY <2>5, <4>2, DescriptorAssumption
      <4>4. q = d
        BY <1>1, <2>5, <4>2, <4>3, DescriptorAssumption
      <4>5. QED
        BY <2>5, <4>2, <4>4 DEF Family
    <3>3. QED
      BY <3>1, <3>2
  <2>8. QED
    BY <2>3, <2>7
<1>4. ASSUME NEW j \in Family(d) PROVE \E k \in Family(t) : Part(k) = Part(j)
  <2>1. j \in Family(o) /\ j \in Type /\ FileOf[j] = FileOf[d]
    BY <1>1, <1>2, DescriptorAssumption DEF Family
  <2>2. Part(j) \in Definition(y)
    BY <2>1 DEF Definition, SameDefinition
  <2>3. PICK k \in Family(y) : Part(k) = Part(j)
    BY <2>2 DEF Definition
  <2>4. NameOf[k] = NameOf[j]
    BY <2>3
  <2>5. k \in Type /\ FileOf[k] = FileOf[t]
    BY <1>2, <2>3, DescriptorAssumption DEF Family
  <2>6. k \in Sourced /\ j \in Sourced /\ k \notin DocumentType
    BY <1>1, <2>1, <2>5 DEF Sourced, TypesIn, DocumentType
  <2>7. k \in Family(t)
    <3>1. CASE j = d
      <4>1. k = t
        BY <1>1, <2>4, <2>5, <3>1, DescriptorAssumption
      <4>2. QED
        BY <4>1 DEF Family
    <3>2. CASE j # d
      <4>1. d \in Enclosing[j]
        BY <3>2 DEF Family
      <4>2. PICK q \in Enclosing[k] : NameOf[q] = NameOf[d]
        BY <1>1, <2>4, <2>6, <4>1, NestsAlike
      <4>3. q \in Type /\ FileOf[q] = FileOf[k]
        BY <2>5, <4>2, DescriptorAssumption
      <4>4. q = t
        BY <1>1, <2>5, <4>2, <4>3, DescriptorAssumption
      <4>5. QED
        BY <2>5, <4>2, <4>4 DEF Family
    <3>3. QED
      BY <3>1, <3>2
  <2>8. QED
    BY <2>3, <2>7
<1>5. Definition(t) = {Part(k) : k \in Family(t)} /\ Definition(d) = {Part(j) : j \in Family(d)}
  BY DEF Definition
<1> HIDE DEF Part
<1>6. Definition(t) = Definition(d)
  BY <1>3, <1>4, <1>5
<1>7. QED
  BY <1>6 DEF SameDefinition

(***************************************************************************)
(* Check misses nothing: a message whose fields lead to an external type   *)
(* that stands for its name, and that the document defines differently, is *)
(* refused, however deep the type is nested.                               *)
(***************************************************************************)
THEOREM CheckMissesNothing == Spec => []CheckSound
<1>1. TypeOK /\ RInv => CheckSound
  <2> SUFFICES ASSUME TypeOK, RInv, Done, WellPosed, NEW m \in Messages, NEW t \in BoundFrom[m],
                      Live(t), Contradicted(t)
               PROVE  CheckFails(m)
    BY DEF CheckSound
  <2> DEFINE n == NameOf[t]
  <2>1. t \in ExternalOf(n) /\ \A k \in Enclosing[t] : k \in ExternalOf(NameOf[k])
    BY DEF Live
  <2>2. t \in Type /\ t \notin DocumentType /\ n \in Name
    BY <2>1, ExternalOfTypes, TypeNames
  <2>3. PICK d \in DocumentTypes : NameOf[d] = n /\ ~SameDefinition(t, d)
    BY DocumentOfNames DEF Contradicted, Called
  <2>4. ~IsDocument(t)
    <3> SUFFICES ASSUME IsDocument(t) PROVE FALSE
      OBVIOUS
    <3>1. n \in fromDocument /\ t \in Answers(n)
      BY <2>2, DescriptorAssumption DEF IsDocument, Answers
    <3>2. t \in DocumentTypes
      BY <2>2, <3>1, AtTheEnd DEF Called
    <3>3. QED
      BY <2>2, <3>2, DocumentTypesAre
  <2>5. n \in differs
    <3>1. \A x \in Clashing(DocumentTypes) : \A k \in Family(x) : NameOf[k] \in differs
      BY AtTheEnd DEF NamesOf
    <3>2. d \in Type
      BY DocumentTypesAre
    <3>3. CASE \A k \in Enclosing[d] : ExternalOf(NameOf[k]) = {}
      <4>1. t \in Clashing(DocumentTypes)
        BY <2>1, <2>2, <2>3, <3>3 DEF Clashing
      <4>2. QED
        BY <3>1, <4>1 DEF Family
    <3>4. CASE \E k \in Enclosing[d] : ExternalOf(NameOf[k]) # {}
      <4> DEFINE P == {k \in Type : ExternalOf(NameOf[k]) # {}}
      <4>1. PICK k \in Enclosing[d] : ExternalOf(NameOf[k]) # {}
        BY <3>4
      <4>2. k \in P
        BY <3>2, <4>1, TypeNames
      <4>3. PICK o \in Enclosing[d] : o \in P /\ \A j \in Enclosing[o] : j \notin P
        BY <3>2, <4>2, Outermost
      <4>4. o \in Type /\ \A j \in Enclosing[o] : ExternalOf(NameOf[j]) = {}
        BY <4>3, TypeNames
      <4>5. PICK y : y \in ExternalOf(NameOf[o])
        BY <4>3
      <4>6. y \in Enclosing[t]
        BY <2>1, <2>3, <4>3, <4>5, NestedInExternal
      <4>7. ~SameDefinition(y, o)
        BY <2>1, <2>3, <4>3, <4>6, NestedAgree
      <4>8. o \in DocumentTypes
        BY <3>2, <4>3, DescriptorAssumption DEF DocumentTypes, TypesIn
      <4>9. y \in Clashing(DocumentTypes)
        BY <4>4, <4>5, <4>7, <4>8, ExternalOfTypes DEF Clashing
      <4>10. t \in Family(y)
        BY <2>2, <4>6 DEF Family
      <4>11. QED
        BY <3>1, <4>9, <4>10
    <3>5. QED
      BY <3>3, <3>4
  <2>6. QED
    BY <2>4, <2>5 DEF CheckFails
<1>2. QED
  BY <1>1, ReadInvariance, PTL
=============================================================================
