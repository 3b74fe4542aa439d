------------------------- MODULE DataCommandProofs -------------------------
(***************************************************************************)
(* Whichever of the three resolvers is asked, a document is read with its  *)
(* own definitions, the body of a document that has any in one version of  *)
(* the schemas and its rows in one, and each replaced definition is warned *)
(* about once.  The argument is that every chain a command holds agrees    *)
(* with the document and has been warned about, and that the two of a body *)
(* are one.  Of pxf query: what the strict walk refuses names nothing,     *)
(* because the messages it steps through are the ones jq reads.            *)
(***************************************************************************)
EXTENDS FileCommandProofs, FiniteSetTheorems

\* The chain answers the document's names as the document does.
Agrees(s) == \A n \in DOMAIN Own : n \in DOMAIN s.own /\ s.own[n] = Own[n]

\* Its warnings are printed.
Warned(s) == Warnings(s) \subseteq Named(lines)

Lines == UNION {{<<n, PathOf[v][n]>> : n \in DOMAIN External[v]} : v \in Versions}

Reading == {"start", "schema", "root", "body", "bind", "rows", "bindRows"}

DocTypes ==
  /\ docInput \in DocRuns
  /\ docStage \in Reading \union {"unbound"} \union Ended
  /\ version \in Versions
  /\ lines \in Seq(Lines)
  /\ DOMAIN bound \subseteq Typeless
  /\ \A s \in {chain, lazy} \ {Unresolved} : s.version \in Versions

\* What the command holds at each stage.
Chains ==
  /\ docStage \in {"start", "schema"} => chain = Unresolved
  /\ docStage \in {"start", "schema", "root"} => lazy = Unresolved /\ uses = {}
  /\ docStage \in Reading \ {"start", "schema"} /\ chain = Unresolved => OfKind("proto") = {}
  /\ chain # Unresolved => Agrees(chain) /\ Warned(chain)
  /\ lazy # Unresolved => Agrees(lazy)
  /\ docStage = "body" /\ lazy # Unresolved /\ chain # Unresolved => lazy = chain

\* Which chain the uses of each stage are of.
UsesOf ==
  /\ docStage \in Reading \ {"bindRows"} => \A u \in uses : u.what # "row"
  /\ docStage = "body" /\ chain # Unresolved => \A u \in uses : u.version = chain.version
  /\ docStage = "bindRows" =>
       chain # Unresolved /\ \A u \in uses : u.what = "row" => u.version = chain.version

\* One resolution, of the uses and of the lines.
OneVersion ==
  \A u, w \in uses :
    (u.what = "row" <=> w.what = "row") /\ (OfKind("proto") # {} \/ u.what = "row")
      => u.version = w.version

EachWarned ==
  \A u \in uses :
    /\ u.name \in DOMAIN Own
    /\ u.name \in DOMAIN External[u.version] /\ External[u.version][u.name] # u.def
    => <<u.name, PathOf[u.version][u.name]>> \in Named(lines)

WarnedOnce == \A i, j \in DOMAIN lines : lines[i] = lines[j] => i = j

DocIInv ==
  /\ DocTypes /\ Chains /\ UsesOf
  /\ DocumentRules /\ OneVersion /\ EachWarned /\ WarnedOnce

-----------------------------------------------------------------------------
(* What a resolution is, and what its warnings print. *)

\* A server's version tells a resolution from none.
LEMMA Resolved ==
  ASSUME version \in Versions, NEW own
  PROVE  /\ Resolution(own) # Unresolved
         /\ Resolution(own).version = version /\ Resolution(own).own = own
<1>1. Resolution(own).version = version /\ Resolution(own).own = own
  BY DEF Resolution
<1>2. version # 0 /\ Unresolved.version = 0
  BY DocAssumption DEF Versions, Unresolved
<1> QED BY <1>1, <1>2

\* A document without definitions agrees with every chain.
LEMMA NoneOwn ==
  ASSUME OfKind("proto") = {}
  PROVE  DOMAIN Own = {} /\ \A s : Agrees(s)
<1>1. DOMAIN Own = UNION {DOMAIN Directive(i).defines : i \in OfKind("proto")}
  BY DEF Own
<1>2. DOMAIN Own = {}
  BY <1>1
<1> QED BY <1>2 DEF Agrees

\* The rows' chain has the document's definitions beside the anonymous ones.
LEMMA OwnRowsAgrees ==
  \A n \in DOMAIN Own : n \in DOMAIN OwnRows /\ OwnRows[n] = Own[n]
BY DEF OwnRows

Once(s) == \A i, j \in DOMAIN s : s[i] = s[j] => i = j
Apart(s, t) == \A i \in DOMAIN s : \A j \in DOMAIN t : s[i] # t[j]
Begins(s, t) == \A i \in DOMAIN s : i \in DOMAIN t /\ t[i] = s[i]
Within(s, t) == \A i \in DOMAIN s : \E j \in DOMAIN t : t[j] = s[i]

\* Two sequences of lines without a line in common, one after the other.
LEMMA ConcatOnce ==
  ASSUME NEW S, NEW a \in Seq(S), NEW b \in Seq(S), Once(a), Once(b), Apart(a, b)
  PROVE  /\ a \o b \in Seq(S) /\ Once(a \o b)
         /\ Begins(a, a \o b) /\ Within(b, a \o b)
<1> USE DEF Once, Apart, Begins, Within
<1> DEFINE ab == a \o b
           m == Len(a)
           n == Len(b)
<1>1. /\ ab \in Seq(S) /\ Len(ab) = m + n
      /\ \A i \in 1..m + n : ab[i] = IF i <= m THEN a[i] ELSE b[i - m]
  BY ConcatProperties
<1>2. /\ m \in Nat /\ DOMAIN a = 1..m
      /\ n \in Nat /\ DOMAIN b = 1..n
  BY LenProperties
<1>3. DOMAIN ab = 1..m + n
  BY <1>1, LenProperties
<1> HIDE DEF ab, m, n
<1>4. \A i \in 1..m : i \in 1..m + n /\ ab[i] = a[i]
  BY <1>1, <1>2
<1>5. ASSUME NEW i \in 1..m + n, i > m PROVE i - m \in 1..n /\ ab[i] = b[i - m]
  BY <1>1, <1>2, <1>5
<1>6. ASSUME NEW j \in 1..n PROVE \E i \in 1..m + n : ab[i] = b[j]
  <2>1. j + m \in 1..m + n /\ j + m > m /\ (j + m) - m = j
    BY <1>2
  <2>2. ab[j + m] = b[(j + m) - m]
    BY <1>5, <2>1
  <2> QED BY <2>1, <2>2
<1>7. ASSUME NEW i \in 1..m + n, NEW j \in 1..m + n, ab[i] = ab[j] PROVE i = j
  <2>0. i \in Nat /\ j \in Nat /\ (i <= m => i \in 1..m) /\ (j <= m => j \in 1..m)
    BY <1>2
  <2>1. CASE i <= m /\ j <= m
    BY <1>2, <1>4, <1>7, <2>0, <2>1
  <2>2. CASE i <= m /\ j > m
    BY <1>2, <1>4, <1>5, <1>7, <2>0, <2>2
  <2>3. CASE i > m /\ j <= m
    BY <1>2, <1>4, <1>5, <1>7, <2>0, <2>3
  <2>4. CASE i > m /\ j > m
    <3>1. i - m \in 1..n /\ ab[i] = b[i - m] /\ j - m \in 1..n /\ ab[j] = b[j - m]
      BY <1>5, <2>4
    <3> DEFINE x == i - m
               y == j - m
    <3>2. b[x] = b[y] /\ x \in DOMAIN b /\ y \in DOMAIN b
      BY <1>2, <1>7, <3>1
    <3> HIDE DEF x, y
    <3>3. x = y
      BY <3>2
    <3> QED BY <1>2, <2>0, <3>3 DEF x, y
  <2> QED BY <1>2, <2>0, <2>1, <2>2, <2>3, <2>4
<1> QED BY <1>1, <1>2, <1>3, <1>4, <1>6, <1>7 DEF ab

\* A resolution warns of finitely many definitions.
LEMMA WarningsFinite ==
  ASSUME NEW s, s.version \in Versions
  PROVE  IsFiniteSet(Warnings(s)) /\ Warnings(s) \subseteq Lines
<1> DEFINE R == Replaced(s)
           W == Warnings(s)
           text == [n \in R |-> <<n, PathOf[s.version][n]>>]
<1>1. R \subseteq DOMAIN External[s.version]
  BY DEF Replaced
<1>2. IsFiniteSet(R)
  BY <1>1, DocAssumption, FS_Subset
<1>3. W \subseteq Lines
  BY <1>1 DEF Warnings, Lines
<1>4. text \in Surjection(R, W)
  <2>1. \A n \in R : text[n] \in W
    BY DEF Warnings
  <2>2. \A w \in W : \E n \in R : text[n] = w
    BY DEF Warnings
  <2> QED BY <2>1, <2>2 DEF Surjection
<1> HIDE DEF R, W, text
<1>5. IsFiniteSet(W)
  BY <1>2, <1>4, FS_Surjection
<1> QED BY <1>3, <1>5 DEF W

\* A line is printed once, and all that a resolution warns of are.
LEMMA PrintWarningsOnce ==
  ASSUME lines \in Seq(Lines), WarnedOnce,
         NEW s, s.version \in Versions, PrintWarnings(s)
  PROVE  /\ lines' \in Seq(Lines) /\ WarnedOnce'
         /\ Warnings(s) \subseteq Named(lines')
         /\ Named(lines) \subseteq Named(lines')
<1> DEFINE new == Warnings(s) \ Named(lines)
           c == Cardinality(new)
<1>1. IsFiniteSet(new) /\ new \subseteq Lines
  BY WarningsFinite, FS_Subset
<1>2. c \in Nat
  BY <1>1, FS_CardinalityType
<1>3. PICK order \in [1..c -> new] :
        /\ \A w \in new : \E i \in DOMAIN order : order[i] = w
        /\ lines' = lines \o order
  BY DEF PrintWarnings
<1>4. \A i, j \in 1..c : order[i] = order[j] => i = j
  <2>1. order \in Surjection(1..c, new)
    BY <1>3 DEF Surjection
  <2>2. IsFiniteSet(1..c) /\ Cardinality(1..c) = Cardinality(new)
    BY <1>2, FS_Interval
  <2>3. order \in Injection(1..c, new)
    BY <1>1, <2>1, <2>2, FS_SurjSameCardinalityImpliesInj
  <2> QED BY <2>3 DEF Injection, IsInjective
<1> HIDE DEF new, c
<1>5. order \in Seq(Lines)
  <2>1. order \in [1..c -> Lines]
    BY <1>1, <1>3
  <2> QED BY <1>2, <2>1, SeqDef
<1>6. Once(lines) /\ Once(order) /\ Apart(lines, order)
  BY <1>3, <1>4 DEF Once, Apart, WarnedOnce, new, Named
<1>7. /\ lines' \in Seq(Lines) /\ Once(lines')
      /\ Begins(lines, lines') /\ Within(order, lines')
  BY <1>3, <1>5, <1>6, ConcatOnce
<1>8. Named(lines) \subseteq Named(lines')
  BY <1>7 DEF Begins, Named
<1>9. new \subseteq Named(lines')
  BY <1>3, <1>7 DEF Within, Named
<1> QED BY <1>7, <1>8, <1>9 DEF Once, WarnedOnce, new

-----------------------------------------------------------------------------
(* The steps. *)

\* What follows from the input alone.
LEMMA SameInput ==
  ASSUME UNCHANGED docInput
  PROVE  /\ Own' = Own /\ Typeless' = Typeless /\ OfKind("proto")' = OfKind("proto")
         /\ DOMAIN Own' = DOMAIN Own
BY DEF Own, Typeless, OfKind, Directive

\* A warning that is printed stays printed.
LEMMA StaysWarned ==
  ASSUME UNCHANGED docInput, Named(lines) \subseteq Named(lines')
  PROVE  /\ \A s : Warned(s) => Warned(s)'
         /\ EachWarned /\ uses' = uses => EachWarned'
<1>1. Named(lines)' = Named(lines')
  BY DEF Named
<1>2. \A s : Warnings(s)' = Warnings(s)
  BY DEF Warnings, Replaced
<1>3. \A s : Warned(s) => Warned(s)'
  BY <1>1, <1>2 DEF Warned
<1>4. EachWarned /\ uses' = uses => EachWarned'
  <2>1. Own' = Own
    BY SameInput
  <2> QED BY <1>1, <2>1 DEF EachWarned
<1> QED BY <1>3, <1>4

\* Where a run goes without a resolution.
Moves ==
  \/ docStage' = docStage
  \/ docStage' \in Ended \union {"unbound"}
  \/ <<docStage, docStage'>> \in {<<"start", "schema">>, <<"body", "bind">>, <<"bind", "rows">>}

\* A step that resolves and decodes nothing.
LEMMA DocMoves ==
  ASSUME DocIInv, Moves, version' \in Versions, DOMAIN bound' \subseteq Typeless,
         UNCHANGED <<docInput, chain, lazy, uses, lines>>
  PROVE  DocIInv'
<1> USE DEF DocIInv
<1>0. /\ Own' = Own /\ Typeless' = Typeless /\ OfKind("proto")' = OfKind("proto")
  BY SameInput
<1>1. DocTypes'
  <2>1. docStage' \in Reading \union {"unbound"} \union Ended
    BY DEF DocTypes, Moves, Reading
  <2> QED BY <1>0, <2>1 DEF DocTypes
<1>2. Chains'
  <2>1. chain # Unresolved => Agrees(chain)' /\ Warned(chain)'
    BY <1>0 DEF Chains, Agrees, Warned, Warnings, Replaced, Named
  <2>2. lazy # Unresolved => Agrees(lazy)'
    BY <1>0 DEF Chains, Agrees
  <2> QED BY <1>0, <2>1, <2>2 DEF Chains, Moves, Reading, Ended
<1>3. UsesOf'
  BY DEF UsesOf, Moves, Reading, Ended, Chains
<1>4. DocumentRules' /\ OneVersion'
  BY <1>0 DEF DocumentRules, OneVersion
<1>5. EachWarned' /\ WarnedOnce'
  BY <1>0 DEF EachWarned, WarnedOnce, Named
<1> QED BY <1>1, <1>2, <1>3, <1>4, <1>5

\* Before a command starts nothing is resolved.
LEMMA DocInitInv == DocInit => DocIInv
<1> SUFFICES ASSUME DocInit PROVE DocIInv
  OBVIOUS
<1>1. /\ docInput \in DocRuns /\ docStage = "start" /\ version = 1
      /\ chain = Unresolved /\ lazy = Unresolved /\ uses = {} /\ lines = <<>> /\ bound = <<>>
  BY DEF DocInit
<1>2. DocTypes
  <2>1. version \in Versions
    BY <1>1, DocAssumption DEF Versions
  <2> QED BY <1>1, <2>1 DEF DocTypes, Reading
<1>3. Chains /\ UsesOf
  BY <1>1 DEF Chains, UsesOf, Reading
<1>4. DocumentRules /\ OneVersion /\ EachWarned /\ WarnedOnce
  BY <1>1 DEF DocumentRules, OneVersion, EachWarned, WarnedOnce, Named
<1> QED BY <1>2, <1>3, <1>4 DEF DocIInv

\* What a resolution of the document's definitions adds.
LEMMA ResolvesDocument ==
  ASSUME DocIInv, NEW own, \A n \in DOMAIN Own : n \in DOMAIN own /\ own[n] = Own[n],
         chain' = Resolution(own), PrintWarnings(Resolution(own)),
         UNCHANGED <<docInput, uses, version>>
  PROVE  /\ chain' # Unresolved /\ chain'.version \in Versions
         /\ lines' \in Seq(Lines) /\ WarnedOnce' /\ EachWarned'
         /\ Agrees(chain)' /\ Warned(chain)'
<1> PICK s : s = Resolution(own)
  OBVIOUS
<1>1. s # Unresolved /\ s.version = version /\ s.own = own
  BY Resolved DEF DocIInv, DocTypes
<1>2. /\ lines' \in Seq(Lines) /\ WarnedOnce'
      /\ Warnings(s) \subseteq Named(lines') /\ Named(lines) \subseteq Named(lines')
  BY <1>1, PrintWarningsOnce DEF DocIInv, DocTypes
<1>3. EachWarned'
  BY <1>2, StaysWarned DEF DocIInv
<1>4. Agrees(chain)'
  BY <1>1, SameInput DEF Agrees
<1>5. Warned(chain)'
  <2>1. Warnings(chain)' = Warnings(s) /\ Named(lines)' = Named(lines')
    BY DEF Warnings, Replaced, Named
  <2> QED BY <1>2, <2>1 DEF Warned
<1> QED BY <1>1, <1>2, <1>3, <1>4, <1>5 DEF DocIInv, DocTypes

\* The body's chain.
LEMMA DocumentSchemaInv == DocIInv /\ DocumentSchema => DocIInv'
<1> SUFFICES ASSUME DocIInv, DocumentSchema PROVE DocIInv'
  OBVIOUS
<1> USE DEF DocIInv
<1>1. /\ docStage = "schema" /\ docStage' = "root"
      /\ UNCHANGED <<docInput, version, lazy, uses, next, pending, bound>>
      /\ chain = Unresolved /\ lazy = Unresolved /\ uses = {}
  BY DEF DocumentSchema, Chains
<1>2. Typeless' = Typeless /\ OfKind("proto")' = OfKind("proto")
  BY <1>1, SameInput
<1>3. CASE OfKind("proto") = {}
  <2>1. UNCHANGED <<chain, lines>>
    BY <1>3 DEF DocumentSchema
  <2>2. DocTypes'
    BY <1>1, <1>2, <2>1 DEF DocTypes, Reading
  <2>3. Chains' /\ UsesOf'
    BY <1>1, <1>2, <1>3, <2>1 DEF Chains, UsesOf, Reading
  <2>4. DocumentRules' /\ OneVersion' /\ EachWarned' /\ WarnedOnce'
    BY <1>1, <2>1 DEF DocumentRules, OneVersion, EachWarned, WarnedOnce, Named
  <2> QED BY <2>2, <2>3, <2>4
<1>4. CASE OfKind("proto") # {}
  <2>1. chain' = Resolution(Own) /\ PrintWarnings(Resolution(Own))
    BY <1>4 DEF DocumentSchema
  <2>2. PICK own : own = Own
    OBVIOUS
  <2>3. /\ chain' # Unresolved /\ chain'.version \in Versions
        /\ lines' \in Seq(Lines) /\ WarnedOnce' /\ EachWarned'
        /\ Agrees(chain)' /\ Warned(chain)'
    BY <1>1, <2>1, <2>2, ResolvesDocument
  <2>4. DocTypes'
    BY <1>1, <1>2, <2>3 DEF DocTypes, Reading
  <2>5. Chains' /\ UsesOf'
    BY <1>1, <2>3 DEF Chains, UsesOf, Reading
  <2>6. DocumentRules' /\ OneVersion'
    BY <1>1 DEF DocumentRules, OneVersion
  <2> QED BY <2>3, <2>4, <2>5, <2>6
<1> QED BY <1>3, <1>4

\* The chain of the rows.
LEMMA ResolveRowsInv == DocIInv /\ ResolveRows => DocIInv'
<1> SUFFICES ASSUME DocIInv, ResolveRows PROVE DocIInv'
  OBVIOUS
<1> USE DEF DocIInv
<1>1. /\ docStage = "rows" /\ docStage' = "bindRows"
      /\ chain' = Resolution(OwnRows) /\ PrintWarnings(Resolution(OwnRows))
      /\ UNCHANGED <<docInput, version, lazy, uses, next, pending, bound>>
  BY DEF ResolveRows
<1>2. PICK own : own = OwnRows
  OBVIOUS
<1>3. /\ chain' # Unresolved /\ chain'.version \in Versions
      /\ lines' \in Seq(Lines) /\ WarnedOnce' /\ EachWarned'
      /\ Agrees(chain)' /\ Warned(chain)'
  BY <1>1, <1>2, OwnRowsAgrees, ResolvesDocument
<1>4. Own' = Own /\ Typeless' = Typeless /\ OfKind("proto")' = OfKind("proto")
  BY <1>1, SameInput
<1>5. DocTypes'
  BY <1>1, <1>3, <1>4 DEF DocTypes, Reading
<1>6. Chains'
  <2>1. lazy # Unresolved => Agrees(lazy)'
    BY <1>1, <1>4 DEF Chains, Agrees
  <2> QED BY <1>1, <1>3, <2>1 DEF Chains, Reading
<1>7. UsesOf'
  BY <1>1, <1>3 DEF UsesOf, Reading
<1>8. DocumentRules' /\ OneVersion'
  BY <1>1, <1>4 DEF DocumentRules, OneVersion
<1> QED BY <1>3, <1>5, <1>6, <1>7, <1>8

\* A use is as it must be: of the document's definition, through nothing that
\* contradicts it, and warned about.
Declared(u) ==
  /\ u.name \in DOMAIN Own => u.def = Own[u.name]
  /\ \A r \in Reaches[u.def] : r[1] \in DOMAIN Own => r[2] = Own[r[1]]
  /\ /\ u.name \in DOMAIN Own
     /\ u.name \in DOMAIN External[u.version] /\ External[u.version][u.name] # u.def
     => <<u.name, PathOf[u.version][u.name]>> \in Named(lines)

\* A chain that agrees, is warned about and does not refuse gives such uses.
LEMMA UseDeclared ==
  ASSUME NEW s, NEW n, NEW what, Agrees(s),
         DOMAIN Own = {} \/ (Warned(s) /\ ~Refuses(s, Find(s, n)))
  PROVE  /\ Declared(Use(what, n, s))
         /\ Use(what, n, s).what = what /\ Use(what, n, s).version = s.version
<1> DEFINE u == Use(what, n, s)
<1>1. u.what = what /\ u.name = n /\ u.def = Find(s, n) /\ u.version = s.version
  BY DEF Use
<1> HIDE DEF u
<1>2. ASSUME DOMAIN Own = {} PROVE Declared(u)
  BY <1>2 DEF Declared
<1>3. ASSUME Warned(s) /\ ~Refuses(s, Find(s, n)) PROVE Declared(u)
  <2>1. n \in DOMAIN Own => Find(s, n) = Own[n] /\ n \in DOMAIN s.own /\ s.own[n] = Own[n]
    BY DEF Agrees, Find
  <2>2. \A r \in Reaches[u.def] : r[1] \in DOMAIN Own => r[2] = Own[r[1]]
    BY <1>1, <1>3 DEF Refuses, Agrees
  <2>3. ASSUME n \in DOMAIN Own, n \in DOMAIN External[s.version], External[s.version][n] # u.def
        PROVE  <<n, PathOf[s.version][n]>> \in Named(lines)
    <3>1. <<n, PathOf[s.version][n]>> \in Warnings(s)
      BY <1>1, <2>1, <2>3 DEF Warnings, Replaced
    <3> QED BY <1>3, <3>1 DEF Warned
  <2>4. u.name \in DOMAIN Own => u.def = Own[u.name]
    BY <1>1, <2>1
  <2> QED BY <1>1, <2>2, <2>3, <2>4 DEF Declared
<1>4. Declared(u) /\ u.what = what /\ u.version = s.version
  BY <1>1, <1>2, <1>3
<1> QED BY <1>4 DEF u

\* The two invariants of single uses, use by use.
LEMMA DeclaredUses == DocumentRules /\ EachWarned <=> \A u \in uses : Declared(u)
BY DEF DocumentRules, EachWarned, Declared

\* The step's new uses are declared and the old ones are untouched.
LEMMA UsesGrow ==
  ASSUME DocIInv, UNCHANGED <<docInput, lines>>, NEW more,
         uses' \subseteq uses \union more, \A u \in more : Declared(u)
  PROVE  DocumentRules' /\ EachWarned' /\ WarnedOnce'
<1>1. \A u \in uses' : Declared(u)
  BY DeclaredUses DEF DocIInv
<1>2. Own' = Own
  BY SameInput
<1>3. \A u \in uses' : Declared(u)'
  BY <1>1, <1>2 DEF Declared, Named
<1>4. DocumentRules' /\ EachWarned'
  BY <1>3 DEF DocumentRules, EachWarned, Declared
<1> QED BY <1>4 DEF DocIInv, WarnedOnce

\* The body's type.
LEMMA RootMessageInv == DocIInv /\ RootMessage => DocIInv'
<1> SUFFICES ASSUME DocIInv, RootMessage PROVE DocIInv'
  OBVIOUS
<1> USE DEF DocIInv
<1>1. CASE DocFails
  BY <1>1, DocMoves DEF DocFails, Moves, Ended, DocTypes
<1>2. CASE ~DocFails
  <2> DEFINE chosen == IF chain = Unresolved THEN Resolution(<<>>) ELSE chain
  <2>0. PICK s, root : s = chosen /\ root = RootName
    OBVIOUS
  <2>1. /\ docStage = "root" /\ docStage' = "body"
        /\ ~(chain # Unresolved /\ Refuses(s, Find(s, root)))
        /\ uses' = {Use("root", root, s)}
        /\ UNCHANGED <<docInput, version, chain, lazy, lines, next, pending, bound>>
    BY <1>2, <2>0 DEF RootMessage
  <2>2. Own' = Own /\ Typeless' = Typeless /\ OfKind("proto")' = OfKind("proto")
    BY <2>1, SameInput
  <2>3. lazy = Unresolved /\ uses = {}
    BY <2>1 DEF Chains
  <2>4. Agrees(s) /\ (DOMAIN Own = {} \/ (Warned(s) /\ ~Refuses(s, Find(s, root))))
    <3>1. CASE chain = Unresolved
      BY <2>1, <3>1, NoneOwn DEF Chains, Reading
    <3>2. CASE chain # Unresolved
      BY <2>0, <2>1, <3>2 DEF Chains
    <3> QED BY <3>1, <3>2
  <2>5. /\ \A u \in uses' : Declared(u) /\ u.what = "root" /\ u.version = s.version
    BY <2>1, <2>4, UseDeclared
  <2>6. DocTypes'
    BY <2>1, <2>2, <2>3 DEF DocTypes, Reading
  <2>7. Chains'
    BY <2>1, <2>2, <2>3 DEF Chains, Agrees, Warned, Warnings, Replaced, Named, Reading
  <2>8. UsesOf' /\ OneVersion'
    BY <2>0, <2>1, <2>2, <2>5 DEF UsesOf, OneVersion, Reading
  <2>9. DocumentRules' /\ EachWarned' /\ WarnedOnce'
    BY <2>1, <2>5, UsesGrow
  <2> QED BY <2>6, <2>7, <2>8, <2>9
<1> QED BY <1>1, <1>2

\* An Any of the body.
LEMMA AnyBlockInv == DocIInv /\ AnyBlock => DocIInv'
<1> SUFFICES ASSUME DocIInv, AnyBlock PROVE DocIInv'
  OBVIOUS
<1> USE DEF DocIInv
<1>1. CASE DocFails
  BY <1>1, DocMoves DEF DocFails, Moves, Ended, DocTypes
<1>2. CASE ~DocFails
  <2>0. PICK s, n : s = LazyChain /\ n = docInput.anys[next]
    OBVIOUS
  <2>1. /\ docStage = "body" /\ docStage' = "body" /\ Decodable(s, n)
        /\ lazy' = s /\ uses' = uses \union {Use("any", n, s)}
        /\ UNCHANGED <<docInput, version, chain, lines, pending, bound>>
    BY <1>2, <2>0 DEF AnyBlock
  <2>2. Own' = Own /\ Typeless' = Typeless /\ OfKind("proto")' = OfKind("proto")
    BY <2>1, SameInput
  <2>3. ~Refuses(s, Find(s, n))
    BY <2>1 DEF Decodable
  <2>4. /\ s # Unresolved /\ s.version \in Versions
        /\ chain # Unresolved => s = chain
    BY <2>0, <2>1, Resolved DEF LazyChain, Chains, DocTypes
  <2>5. Agrees(s) /\ (DOMAIN Own = {} \/ (Warned(s) /\ ~Refuses(s, Find(s, n))))
    <3>1. CASE chain = Unresolved
      BY <2>1, <3>1, NoneOwn DEF Chains, Reading
    <3>2. CASE chain # Unresolved
      BY <2>3, <2>4, <3>2 DEF Chains
    <3> QED BY <3>1, <3>2
  <2> DEFINE any == Use("any", n, s)
  <2>6. Declared(any) /\ any.what = "any" /\ any.version = s.version
    BY <2>5, UseDeclared
  <2> HIDE DEF any
  <2>7. uses' = uses \union {any} /\ \A u \in uses' : u.what # "row"
    BY <2>1, <2>6 DEF any, UsesOf, Reading
  <2>8. DocTypes'
    BY <2>1, <2>2, <2>4 DEF DocTypes
  <2>9. Chains'
    BY <2>1, <2>2, <2>4, <2>5 DEF Chains, Agrees, Warned, Warnings, Replaced, Named, Reading
  <2>10. UsesOf'
    BY <2>1, <2>4, <2>6, <2>7 DEF UsesOf, Reading
  <2>11. OneVersion'
    <3>1. ASSUME OfKind("proto") # {} PROVE \A u \in uses' : u.version = chain.version
      <4>1. chain # Unresolved
        BY <2>1, <3>1 DEF Chains, Reading
      <4> QED BY <2>1, <2>10, <4>1 DEF UsesOf
    <3> QED BY <2>2, <2>7, <3>1 DEF OneVersion
  <2>12. DocumentRules' /\ EachWarned' /\ WarnedOnce'
    <3>1. UNCHANGED <<docInput, lines>>
      BY <2>1
    <3>2. uses' \subseteq uses \union {any} /\ \A u \in {any} : Declared(u)
      BY <2>6, <2>7
    <3>3. PICK more : more = {any}
      OBVIOUS
    <3>4. uses' \subseteq uses \union more /\ \A u \in more : Declared(u)
      BY <3>2, <3>3
    <3> QED BY <3>1, <3>4, UsesGrow
  <2> QED BY <2>8, <2>9, <2>10, <2>11, <2>12
<1> QED BY <1>1, <1>2

\* A dataset's row type and the Any types of its cells.
LEMMA BindRowsInv == DocIInv /\ BindRows => DocIInv'
<1> SUFFICES ASSUME DocIInv, BindRows PROVE DocIInv'
  OBVIOUS
<1> USE DEF DocIInv
<1>1. /\ docStage = "bindRows"
      /\ UNCHANGED <<docInput, version, chain, lazy, lines, pending, bound>>
  BY DEF BindRows
<1>2. CASE UNCHANGED uses
  <2>1. docStage' = docStage \/ docStage' \in Ended
    BY <1>2 DEF BindRows, Ended
  <2> QED BY <1>1, <1>2, <2>1, DocMoves DEF Moves, DocTypes
<1>3. CASE ~UNCHANGED uses
  <2> DEFINE these == {RowType(next)} \union Directive(next).anys
  <2>0. PICK s, names : s = chain /\ names = these
    OBVIOUS
  <2>1. /\ docStage' = docStage /\ \A n \in names : Decodable(s, n)
        /\ uses' = uses \union {Use("row", n, s) : n \in names}
    BY <1>3, <2>0 DEF BindRows
  <2>2. Own' = Own /\ Typeless' = Typeless /\ OfKind("proto")' = OfKind("proto")
    BY <1>1, SameInput
  <2>3. chain # Unresolved /\ Agrees(s) /\ Warned(s)
    BY <1>1, <2>0 DEF UsesOf, Chains
  <2>4. ASSUME NEW n \in names
        PROVE  /\ Declared(Use("row", n, s))
               /\ Use("row", n, s).what = "row" /\ Use("row", n, s).version = s.version
    BY <2>1, <2>3, UseDeclared DEF Decodable
  <2> DEFINE more == {Use("row", n, s) : n \in names}
  <2>5. \A u \in more : Declared(u) /\ u.what = "row" /\ u.version = s.version
    BY <2>4
  <2> HIDE DEF more
  <2>6. uses' = uses \union more
    BY <2>1 DEF more
  <2>7. DocTypes'
    BY <1>1, <2>1, <2>2 DEF DocTypes
  <2>8. Chains'
    BY <1>1, <2>1, <2>2 DEF Chains, Agrees, Warned, Warnings, Replaced, Named, Reading
  <2>9. UsesOf'
    BY <1>1, <2>0, <2>1, <2>3, <2>5, <2>6 DEF UsesOf, Reading
  <2>10. OneVersion'
    <3>1. \A u \in uses' : u.what = "row" => u.version = s.version
      BY <1>1, <2>0, <2>5, <2>6 DEF UsesOf
    <3>2. \A u \in uses' : u.what # "row" => u \in uses
      BY <2>5, <2>6
    <3>3. ASSUME NEW u \in uses', NEW w \in uses', u.what = "row" <=> w.what = "row",
                 OfKind("proto") # {} \/ u.what = "row"
          PROVE  u.version = w.version
      <4>1. CASE u.what = "row"
        BY <3>1, <3>3, <4>1
      <4>2. CASE u.what # "row"
        BY <3>2, <3>3, <4>2 DEF OneVersion
      <4> QED BY <4>1, <4>2
    <3> QED BY <2>2, <3>3 DEF OneVersion
  <2>11. DocumentRules' /\ EachWarned' /\ WarnedOnce'
    <3>1. \A u \in more : Declared(u)
      BY <2>5
    <3>2. uses' \subseteq uses \union more
      BY <2>6
    <3> QED BY <1>1, <3>1, <3>2, UsesGrow
  <2> QED BY <2>7, <2>8, <2>9, <2>10, <2>11
<1> QED BY <1>2, <1>3

\* Every action of a command keeps the invariant.
LEMMA DocStepInv == DocIInv /\ [DocNext]_docVars => DocIInv'
<1> SUFFICES ASSUME DocIInv, [DocNext]_docVars PROVE DocIInv'
  OBVIOUS
<1>0. version \in Versions /\ DOMAIN bound \subseteq Typeless
  BY DEF DocIInv, DocTypes
<1>1. CASE DocStart
  BY <1>0, <1>1, DocMoves DEF DocStart, DocFails, Moves, Ended
<1>2. CASE BodyDecoded
  BY <1>0, <1>2, DocMoves DEF BodyDecoded, Moves, Ended
<1>3. CASE BindDirective
  <2>1. DOMAIN bound' \subseteq Typeless
    BY <1>0, <1>3 DEF BindDirective
  <2>2. Moves /\ UNCHANGED <<docInput, chain, lazy, uses, lines, version>>
    BY <1>3 DEF BindDirective, Moves
  <2> QED BY <1>0, <2>1, <2>2, DocMoves
<1>4. CASE Bound
  BY <1>0, <1>4, DocMoves DEF Bound, Moves
<1>5. CASE RowsDone
  BY <1>0, <1>5, DocMoves DEF RowsDone, Moves, Ended
<1>6. CASE Publish
  <2>1. version' \in Versions
    BY <1>0, <1>6, DocAssumption DEF Publish, Versions
  <2> QED BY <1>0, <1>6, <2>1, DocMoves DEF Publish, Moves
<1>7. CASE Unreachable
  BY <1>0, <1>7, DocMoves DEF Unreachable, DocFails, Moves, Ended
<1>8. CASE UNCHANGED docVars
  BY <1>0, <1>8, DocMoves DEF docVars, Moves
<1> QED
  BY <1>1, <1>2, <1>3, <1>4, <1>5, <1>6, <1>7, <1>8, DocumentSchemaInv, RootMessageInv,
     AnyBlockInv, ResolveRowsInv, BindRowsInv DEF DocNext

\* What the invariant says.
LEMMA DocInvImplies == DocIInv => DecodesAsDeclared /\ DocTypeOK
<1> SUFFICES ASSUME DocIInv PROVE DecodesAsDeclared /\ DocTypeOK
  OBVIOUS
<1>1. DecodesAsDeclared
  BY DEF DocIInv, DecodesAsDeclared, OneResolution, WarnedOf, OneVersion, EachWarned, WarnedOnce
<1>2. DOMAIN docInput = DocFields
  BY DocAssumption DEF DocIInv, DocTypes
<1>3. DocTypeOK
  BY <1>2 DEF DocIInv, DocTypes, DocTypeOK, Reading
<1> QED BY <1>1, <1>3

-----------------------------------------------------------------------------
\* pxf encode and pxf validate: every body, Any and row is read with the
\* document's definitions and none that contradicts them; the body and the Anys
\* of a document with directives are of one version of the schemas, and so are
\* the rows, of that one or a later; each replaced definition is warned about,
\* and no warning is printed twice, however often the server publishes.
THEOREM DocumentDecodesAsDeclared == DocSpec => []DecodesAsDeclared
<1> QED BY DocInitInv, DocStepInv, DocInvImplies, PTL DEF DocSpec

\* In the program a run is of a document command, or that is idle.
DocOrIdle == IF command = "document" THEN DocIInv ELSE docStage = None

\* The program starts one command.
LEMMA DocOrIdleInit == Init => DocOrIdle
BY DocInitInv DEF Init, DocIdle, DocOrIdle

\* No other command moves the document's state.
LEMMA DocOrIdleStep == DocOrIdle /\ [Next]_vars => DocOrIdle'
<1> SUFFICES ASSUME DocOrIdle, [Next]_vars PROVE DocOrIdle'
  OBVIOUS
<1>1. command' = command
  BY DEF Next, vars
<1>2. CASE command = "document"
  <2>1. [DocNext]_docVars
    BY <1>2 DEF Next, vars
  <2> QED BY <1>1, <1>2, <2>1, DocStepInv DEF DocOrIdle
<1>3. CASE command # "document"
  <2>1. docStage' = docStage
    BY <1>3 DEF Next, vars, docVars
  <2> QED BY <1>1, <1>3, <2>1 DEF DocOrIdle
<1> QED BY <1>2, <1>3

\* The same of the whole program, whatever command it runs.
THEOREM PxfDecodesAsDeclared == Spec => []DecodesAsDeclared
<1>1. DocOrIdle => DecodesAsDeclared
  BY DocInvImplies DEF DocOrIdle, DecodesAsDeclared
<1> QED BY <1>1, DocOrIdleInit, DocOrIdleStep, PTL DEF Spec

\* The document commands' part of the type invariant, of every run of the
\* program.
THEOREM DocTypeSafe == Spec => []DocTypeOK
<1>1. DocOrIdle => DocTypeOK
  BY DocInvImplies DEF DocOrIdle, DocTypeOK
<1> QED BY <1>1, DocOrIdleInit, DocOrIdleStep, PTL DEF Spec

-----------------------------------------------------------------------------
(* How rows find their types. *)

\* While the directives are bound: the anonymous directives passed are bound, in
\* their order, to the typeless datasets passed, or are pending, and those come
\* after the bound ones.
Binding ==
  /\ next \in 1..(Len(docInput.directives) + 1)
  /\ bound \in [{t \in Typeless : t < next} -> OfKind("anonymous")]
  /\ \A t \in DOMAIN bound : bound[t] < t
  /\ \A t, u \in DOMAIN bound : t < u => bound[t] < bound[u]
  /\ pending \in Seq(OfKind("anonymous"))
  /\ \A i \in 1..Len(pending) : pending[i] < next
  /\ \A i, j \in 1..Len(pending) : i < j => pending[i] < pending[j]
  /\ \A t \in DOMAIN bound : \A i \in 1..Len(pending) : bound[t] < pending[i]
  /\ \A a \in OfKind("anonymous") :
       a < next => (\E t \in DOMAIN bound : bound[t] = a) \/ (\E i \in 1..Len(pending) : pending[i] = a)

\* validate read the rows of a document that has some.
RowsRead == docStage = "ok" /\ docInput.command = "validate" /\ OfKind("dataset") # {}

RowsIInv ==
  /\ docInput \in DocRuns
  /\ docStage \in {"start", "schema", "root", "body"} => bound = <<>> /\ pending = <<>>
  /\ docStage = "bind" => Binding
  /\ docStage = "unbound" => Matchings = {}
  /\ docStage \in {"rows", "bindRows"} \/ RowsRead => bound \in Matchings

\* Directives are numbered, and of one kind each.
LEMMA DirectiveKinds ==
  ASSUME docInput \in DocRuns
  PROVE  /\ Len(docInput.directives) \in Nat
         /\ OfKind("anonymous") \subseteq 1..Len(docInput.directives)
         /\ Typeless \subseteq 1..Len(docInput.directives)
         /\ OfKind("anonymous") \intersect Typeless = {}
<1>1. docInput.directives \in Seq(Named(docInput.directives))
  BY DocAssumption
<1>2. Len(docInput.directives) \in Nat /\ DOMAIN docInput.directives = 1..Len(docInput.directives)
  BY <1>1, LenProperties
<1> QED BY <1>2 DEF OfKind, Typeless

\* What is bound so far.
LEMMA BoundSoFar ==
  ASSUME docInput \in DocRuns, Binding
  PROVE  /\ next \in Nat
         /\ \A t \in Typeless : t \in Nat /\ (t \in DOMAIN bound <=> t < next)
         /\ \A a \in OfKind("anonymous") : a \in Nat
         /\ \A t \in DOMAIN bound :
              t \in Typeless /\ t \in Nat /\ t < next /\ bound[t] \in OfKind("anonymous")
<1> DEFINE n == Len(docInput.directives)
<1>1. n \in Nat /\ OfKind("anonymous") \subseteq 1..n /\ Typeless \subseteq 1..n
  BY DirectiveKinds
<1> HIDE DEF n
<1>2. ASSUME NEW a, a \in 1..n PROVE a \in Nat
  BY <1>1, <1>2
<1>3. \A t \in Typeless : t \in Nat
  BY <1>1, <1>2
<1>4. \A a \in OfKind("anonymous") : a \in Nat
  BY <1>1, <1>2
<1>5. next \in Nat
  BY <1>1 DEF Binding, n
<1>6. DOMAIN bound = {t \in Typeless : t < next} /\ \A t \in DOMAIN bound : bound[t] \in OfKind("anonymous")
  BY DEF Binding
<1>7. ASSUME NEW t \in DOMAIN bound PROVE t \in Typeless /\ t < next
  BY <1>6
<1>8. ASSUME NEW t \in Typeless PROVE t \in DOMAIN bound <=> t < next
  BY <1>6
<1> QED BY <1>3, <1>4, <1>5, <1>6, <1>7, <1>8

\* A matching has no choice: it is what was bound so far.
LEMMA MatchedAlike ==
  ASSUME docInput \in DocRuns, Binding, NEW m \in Matchings, NEW t \in DOMAIN bound
  PROVE  m[t] = bound[t]
<1> DEFINE Other == {u \in DOMAIN bound : m[u] # bound[u]}
           Anon == OfKind("anonymous")
<1>1. /\ next \in Nat
      /\ \A u \in Typeless : u \in Nat /\ (u \in DOMAIN bound <=> u < next)
      /\ \A a \in Anon : a \in Nat
      /\ \A u \in DOMAIN bound : u \in Typeless /\ u \in Nat /\ u < next /\ bound[u] \in Anon
  BY BoundSoFar
<1>2. /\ \A u \in Typeless : m[u] \in Anon /\ m[u] < u
      /\ \A u, v \in Typeless : u < v => m[u] < m[v]
      /\ \A a \in Anon : \E u \in Typeless : m[u] = a
  BY DEF Matchings
<1> HIDE DEF Anon
<1>3. SUFFICES ASSUME Other # {} PROVE FALSE
  OBVIOUS
<1>4. PICK u \in Other : \A v \in Other : u <= v
  <2>1. Other \subseteq Nat
    BY <1>1
  <2> HIDE DEF Other
  <2> QED BY <1>3, <2>1, LeastNatural
<1>5. /\ u \in Typeless /\ u < next /\ u \in Nat /\ bound[u] \in Anon /\ m[u] \in Anon /\ m[u] < u
      /\ m[u] \in Nat /\ bound[u] \in Nat /\ m[u] # bound[u]
  BY <1>1, <1>2, <1>4
<1>6. \A v \in DOMAIN bound : v < u => m[v] = bound[v]
  <2>1. ASSUME NEW v \in DOMAIN bound, v < u PROVE m[v] = bound[v]
    <3>1. v \in Nat /\ ~(u <= v)
      BY <1>1, <1>5, <2>1
    <3> QED BY <1>4, <3>1
  <2> QED BY <2>1
<1>7. CASE bound[u] < m[u]
  <2>1. PICK v \in Typeless : m[v] = bound[u]
    BY <1>2, <1>5
  <2>2. v \in Nat /\ m[v] < m[u]
    BY <1>1, <1>7, <2>1
  <2>3. ~(u < v) /\ u # v
    BY <1>2, <1>5, <2>1, <2>2
  <2>4. v < u /\ v \in DOMAIN bound
    BY <1>1, <1>5, <2>2, <2>3
  <2>5. bound[v] = bound[u] /\ bound[v] < bound[u]
    BY <1>4, <1>6, <2>1, <2>4 DEF Binding
  <2> QED BY <1>5, <2>5
<1>8. CASE m[u] < bound[u]
  <2>1. m[u] < next
    BY <1>1, <1>5
  <2>2. \A i \in 1..Len(pending) : pending[i] # m[u]
    <3>1. ASSUME NEW i \in 1..Len(pending), pending[i] = m[u] PROVE FALSE
      <4>1. bound[u] < pending[i]
        BY <1>4 DEF Binding
      <4> QED BY <1>5, <1>8, <3>1, <4>1
    <3> QED BY <3>1
  <2>3. PICK v \in DOMAIN bound : bound[v] = m[u]
    BY <1>5, <2>1, <2>2 DEF Binding, Anon
  <2>4. v \in Nat /\ v \in Typeless
    BY <1>1
  <2>5. ~(u < v) /\ u # v
    <3>1. ASSUME u < v PROVE FALSE
      <4>1. bound[u] < bound[v]
        BY <1>4, <3>1 DEF Binding
      <4> QED BY <1>5, <1>8, <2>3, <4>1
    <3> QED BY <1>5, <2>3, <3>1
  <2>6. m[v] = bound[v] /\ m[v] < m[u]
    BY <1>2, <1>5, <1>6, <2>4, <2>5
  <2> QED BY <1>5, <2>3, <2>6
<1> QED BY <1>5, <1>7, <1>8

\* A typeless dataset with nothing pending has no match.
LEMMA NothingPending ==
  ASSUME docInput \in DocRuns, Binding, next \in Typeless, pending = <<>>
  PROVE  Matchings = {}
<1> SUFFICES ASSUME NEW m \in Matchings PROVE FALSE
  OBVIOUS
<1>1. next \in Nat /\ Len(pending) = 0
  BY DirectiveKinds, EmptySeq DEF Binding
<1>2. m[next] \in OfKind("anonymous") /\ m[next] < next
  BY DEF Matchings
<1>3. PICK t \in DOMAIN bound : bound[t] = m[next]
  BY <1>1, <1>2 DEF Binding
<1>4. t \in Typeless /\ t < next
  BY DEF Binding
<1>5. m[t] = m[next]
  BY <1>3, MatchedAlike
<1>6. m[t] < m[next] /\ m[next] \in Nat
  BY <1>2, <1>4, DirectiveKinds DEF Matchings
<1> QED BY <1>5, <1>6

\* An anonymous directive that is left over has no match.
LEMMA LeftPending ==
  ASSUME docInput \in DocRuns, Binding, next > Len(docInput.directives), pending # <<>>
  PROVE  Matchings = {}
<1> SUFFICES ASSUME NEW m \in Matchings PROVE FALSE
  OBVIOUS
<1>1. 1 \in 1..Len(pending) /\ pending[1] \in OfKind("anonymous")
  BY EmptySeq, ElementOfSeq DEF Binding
<1>2. PICK t \in Typeless : m[t] = pending[1]
  BY <1>1 DEF Matchings
<1>3. t \in DOMAIN bound
  BY DirectiveKinds DEF Binding
<1>4. bound[t] < pending[1] /\ m[t] = bound[t]
  BY <1>1, <1>3, MatchedAlike DEF Binding
<1>5. pending[1] \in Nat
  BY <1>1, DirectiveKinds
<1> QED BY <1>2, <1>4, <1>5

\* When all are passed and none is pending, what is bound is the matching.
LEMMA AllBound ==
  ASSUME docInput \in DocRuns, Binding, next > Len(docInput.directives), pending = <<>>
  PROVE  bound \in Matchings
<1>1. {t \in Typeless : t < next} = Typeless /\ \A a \in OfKind("anonymous") : a < next
  BY DirectiveKinds DEF Binding
<1>2. Len(pending) = 0
  BY EmptySeq
<1> QED BY <1>1, <1>2 DEF Binding, Matchings

\* A directive is passed: bound to, added, or neither.
LEMMA BindDirectiveInv == RowsIInv /\ BindDirective => RowsIInv'
<1> SUFFICES ASSUME RowsIInv, BindDirective PROVE RowsIInv'
  OBVIOUS
<1> DEFINE n == Len(docInput.directives)
           Anon == OfKind("anonymous")
<1>0. /\ docInput \in DocRuns /\ docStage = "bind" /\ Binding /\ next <= n
      /\ docInput' = docInput /\ next' = next + 1
  BY DEF RowsIInv, BindDirective
<1>1. n \in Nat /\ Anon \subseteq 1..n /\ Typeless \subseteq 1..n /\ Anon \intersect Typeless = {}
  BY <1>0, DirectiveKinds
<1>2. next \in 1..n /\ next' \in 1..(n + 1)
  BY <1>0, <1>1 DEF Binding
<1>3. Typeless' = Typeless /\ Anon' = Anon /\ n' = n /\ Matchings' = Matchings
  BY <1>0 DEF Typeless, OfKind, Directive, Matchings
<1>4. /\ next \in Nat
      /\ \A t \in Typeless : t \in Nat /\ (t \in DOMAIN bound <=> t < next)
      /\ \A a \in Anon : a \in Nat
      /\ \A t \in DOMAIN bound : t \in Typeless /\ t \in Nat /\ t < next /\ bound[t] \in Anon
      /\ Len(pending) \in Nat /\ \A i \in 1..Len(pending) : pending[i] \in Anon
  <2>1. Len(pending) \in Nat /\ \A i \in 1..Len(pending) : pending[i] \in Anon
    BY <1>0, ElementOfSeq, LenProperties DEF Binding
  <2> HIDE DEF Anon
  <2>2. /\ next \in Nat
        /\ \A t \in Typeless : t \in Nat /\ (t \in DOMAIN bound <=> t < next)
        /\ \A a \in Anon : a \in Nat
        /\ \A t \in DOMAIN bound : t \in Typeless /\ t \in Nat /\ t < next /\ bound[t] \in Anon
    BY <1>0, BoundSoFar DEF Anon
  <2> QED BY <2>1, <2>2
<1>5. CASE next \in Typeless /\ pending = <<>>
  <2>1. docStage' = "unbound" /\ Matchings = {}
    BY <1>0, <1>5, NothingPending DEF BindDirective
  <2> QED BY <1>0, <1>3, <2>1 DEF RowsIInv, RowsRead
<1>6. CASE next \in Typeless /\ pending # <<>>
  <2>1. /\ bound' = [t \in DOMAIN bound \union {next} |-> IF t = next THEN Oldest ELSE bound[t]]
        /\ pending' = Tail(pending) /\ docStage' = "bind"
    BY <1>0, <1>6 DEF BindDirective
  <2>2. Len(pending) \in Nat \ {0} /\ Oldest \in Anon /\ Oldest < next
    BY <1>0, <1>4, <1>6, EmptySeq DEF Binding, Oldest
  <2>3. /\ pending' \in Seq(Anon) /\ Len(pending') = Len(pending) - 1
        /\ \A i \in 1..Len(pending') : pending'[i] = pending[i + 1]
    BY <1>0, <1>6, <2>1, HeadTailProperties DEF Binding
  <2>4. DOMAIN bound' = {t \in Typeless : t < next'} /\ bound' \in [{t \in Typeless : t < next'} -> Anon]
    <3>1. ASSUME NEW t PROVE t \in DOMAIN bound \union {next} <=> t \in Typeless /\ t < next + 1
      <4>1. CASE t \in Typeless
        BY <1>4, <1>6, <4>1
      <4>2. CASE t \notin Typeless
        BY <1>4, <1>6, <4>2
      <4> QED BY <4>1, <4>2
    <3> QED BY <1>0, <1>4, <2>1, <2>2, <3>1
  <2>5. \A t \in DOMAIN bound' :
          \/ t = next /\ bound'[t] = Oldest
          \/ t # next /\ t \in DOMAIN bound /\ bound'[t] = bound[t] /\ t < next
    BY <1>4, <2>1
  <2>6. \A t \in DOMAIN bound : bound[t] < Oldest
    BY <1>0, <2>2 DEF Binding, Oldest
  <2>7. \A t \in DOMAIN bound' : bound'[t] < t
    BY <1>0, <2>2, <2>5 DEF Binding
  <2>8. \A t, u \in DOMAIN bound' : t < u => bound'[t] < bound'[u]
    <3>1. ASSUME NEW t \in DOMAIN bound', NEW u \in DOMAIN bound', t < u PROVE bound'[t] < bound'[u]
      <4>1. t \in Nat /\ u \in Nat /\ t # next
        <5>1. t \in Nat /\ u \in Nat /\ t < next + 1 /\ u < next + 1
          BY <1>4, <2>5, <3>1
        <5> QED BY <1>4, <3>1, <5>1
      <4> QED BY <1>0, <2>5, <2>6, <3>1, <4>1 DEF Binding
    <3> QED BY <3>1
  <2>9. \A i \in 1..Len(pending') : i + 1 \in 1..Len(pending)
    BY <2>2, <2>3
  <2>10. \A i \in 1..Len(pending') : pending'[i] < next'
    <3>1. ASSUME NEW i \in 1..Len(pending') PROVE pending'[i] < next'
      <4>1. pending'[i] \in Anon /\ pending'[i] < next
        BY <1>0, <1>4, <2>3, <2>9 DEF Binding
      <4> QED BY <1>0, <1>1, <1>2, <4>1
    <3> QED BY <3>1
  <2>11. \A i, j \in 1..Len(pending') : i < j => pending'[i] < pending'[j]
    <3>1. ASSUME NEW i \in 1..Len(pending'), NEW j \in 1..Len(pending'), i < j
          PROVE  pending'[i] < pending'[j]
      <4>1. i + 1 \in 1..Len(pending) /\ j + 1 \in 1..Len(pending) /\ i + 1 < j + 1
        BY <2>9, <3>1
      <4>2. pending[i + 1] < pending[j + 1]
        BY <1>0, <4>1 DEF Binding
      <4> QED BY <2>3, <4>2
    <3> QED BY <3>1
  <2>12. \A t \in DOMAIN bound' : \A i \in 1..Len(pending') : bound'[t] < pending'[i]
    <3>1. ASSUME NEW t \in DOMAIN bound', NEW i \in 1..Len(pending') PROVE bound'[t] < pending'[i]
      <4>1. i + 1 \in 1..Len(pending) /\ 1 \in 1..Len(pending) /\ 1 < i + 1 /\ pending'[i] = pending[i + 1]
        BY <2>2, <2>3, <2>9
      <4>2. Oldest < pending[i + 1]
        BY <1>0, <4>1 DEF Binding, Oldest
      <4> QED BY <1>0, <2>5, <4>1, <4>2 DEF Binding
    <3> QED BY <3>1
  <2>13. ASSUME NEW a \in Anon, a < next'
         PROVE  (\E t \in DOMAIN bound' : bound'[t] = a) \/ (\E i \in 1..Len(pending') : pending'[i] = a)
    <3>1. a < next
      BY <1>0, <1>1, <1>2, <1>6, <2>13
    <3>2. CASE \E t \in DOMAIN bound : bound[t] = a
      <4>1. PICK t \in DOMAIN bound : bound[t] = a
        BY <3>2
      <4>2. t \in DOMAIN bound' /\ t # next
        BY <1>1, <1>2, <1>4, <2>1
      <4> QED BY <2>5, <4>1, <4>2
    <3>3. CASE \E i \in 1..Len(pending) : pending[i] = a
      <4>1. PICK i \in 1..Len(pending) : pending[i] = a
        BY <3>3
      <4>2. CASE i = 1
        BY <2>1, <4>1, <4>2 DEF Oldest
      <4>3. CASE i # 1
        <5>1. i - 1 \in 1..Len(pending') /\ (i - 1) + 1 = i
          BY <2>2, <2>3, <4>3
        <5>2. pending'[i - 1] = a
          BY <2>3, <4>1, <5>1
        <5> QED BY <5>1, <5>2
      <4> QED BY <4>2, <4>3
    <3> QED BY <1>0, <3>1, <3>2, <3>3 DEF Binding
  <2>14. Binding'
    BY <1>2, <1>3, <2>3, <2>4, <2>7, <2>8, <2>10, <2>11, <2>12, <2>13 DEF Binding
  <2> QED BY <1>0, <2>1, <2>14 DEF RowsIInv, RowsRead
<1>7. CASE next \notin Typeless
  <2>1. /\ pending' = IF next \in Anon THEN Append(pending, next) ELSE pending
        /\ bound' = bound /\ docStage' = "bind"
    BY <1>0, <1>7 DEF BindDirective
  <2>2. {t \in Typeless : t < next'} = {t \in Typeless : t < next}
    <3>1. ASSUME NEW t \in Typeless PROVE t < next + 1 <=> t < next
      <4>1. t \in Nat /\ next \in Nat /\ t # next
        BY <1>4, <1>7
      <4> QED BY <4>1
    <3> QED BY <1>0, <3>1
  <2>3. CASE next \in Anon
    <3>1. pending' = Append(pending, next)
      BY <2>1, <2>3
    <3>2. /\ pending' \in Seq(Anon) /\ Len(pending') = Len(pending) + 1
          /\ \A i \in 1..Len(pending) : pending'[i] = pending[i]
          /\ pending'[Len(pending) + 1] = next
      BY <1>0, <2>3, <3>1, AppendProperties DEF Binding
    <3>3. \A i \in 1..Len(pending') : i \in 1..Len(pending) \/ i = Len(pending) + 1
      BY <1>4, <3>2
    <3>4. \A i \in 1..Len(pending) : pending[i] < next /\ pending[i] \in Nat
      BY <1>0, <1>1, <1>4 DEF Binding
    <3>5. \A i \in 1..Len(pending') : pending'[i] < next'
      <4>1. ASSUME NEW i \in 1..Len(pending') PROVE pending'[i] < next'
        BY <1>0, <1>2, <3>2, <3>3, <3>4
      <4> QED BY <4>1
    <3>6. \A i, j \in 1..Len(pending') : i < j => pending'[i] < pending'[j]
      <4>1. ASSUME NEW i \in 1..Len(pending'), NEW j \in 1..Len(pending'), i < j
            PROVE  pending'[i] < pending'[j]
        <5>1. i \in 1..Len(pending)
          BY <1>4, <3>2, <4>1
        <5>2. CASE j \in 1..Len(pending)
          BY <1>0, <3>2, <4>1, <5>1, <5>2 DEF Binding
        <5>3. CASE j = Len(pending) + 1
          BY <3>2, <3>4, <5>1, <5>3
        <5> QED BY <3>3, <5>2, <5>3
      <4> QED BY <4>1
    <3>7. \A t \in DOMAIN bound : \A i \in 1..Len(pending') : bound[t] < pending'[i]
      <4>1. ASSUME NEW t \in DOMAIN bound, NEW i \in 1..Len(pending') PROVE bound[t] < pending'[i]
        <5>1. CASE i \in 1..Len(pending)
          BY <1>0, <3>2, <5>1 DEF Binding
        <5>2. CASE i = Len(pending) + 1
          <6>1. bound[t] < t /\ t < next /\ t \in Nat /\ bound[t] \in Nat
            BY <1>0, <1>1, <1>4 DEF Binding
          <6> QED BY <1>2, <3>2, <5>2, <6>1
        <5> QED BY <3>3, <5>1, <5>2
      <4> QED BY <4>1
    <3>8. ASSUME NEW a \in Anon, a < next'
          PROVE  (\E t \in DOMAIN bound : bound[t] = a) \/ (\E i \in 1..Len(pending') : pending'[i] = a)
      <4>1. CASE a = next
        <5>1. Len(pending) + 1 \in 1..Len(pending')
          BY <1>4, <3>2
        <5> QED BY <3>2, <4>1, <5>1
      <4>2. CASE a # next
        <5>1. a < next
          BY <1>0, <1>1, <1>2, <3>8, <4>2
        <5>2. \A i \in 1..Len(pending) : i \in 1..Len(pending')
          BY <1>4, <3>2
        <5> QED BY <1>0, <3>2, <5>1, <5>2 DEF Binding
      <4> QED BY <4>1, <4>2
    <3>9. Binding'
      BY <1>0, <1>2, <1>3, <2>1, <2>2, <3>2, <3>5, <3>6, <3>7, <3>8 DEF Binding
    <3> QED BY <1>0, <2>1, <3>9 DEF RowsIInv, RowsRead
  <2>4. CASE next \notin Anon
    <3>1. pending' = pending
      BY <2>1, <2>4
    <3>2. \A a \in Anon : a < next' => a < next
      BY <1>0, <1>1, <1>2, <2>4
    <3>3. \A i \in 1..Len(pending) : pending[i] < next'
      BY <1>0, <1>1, <1>2, <1>4 DEF Binding
    <3>4. Binding'
      BY <1>0, <1>2, <1>3, <2>1, <2>2, <3>1, <3>2, <3>3 DEF Binding
    <3> QED BY <1>0, <2>1, <3>4 DEF RowsIInv, RowsRead
  <2> QED BY <2>3, <2>4
<1> QED BY <1>5, <1>6, <1>7

\* A step that neither binds nor ends the binding.
RowsKept ==
  \/ docStage' = docStage
  \/ docStage' \in {"error", "killed"}
  \/ <<docStage, docStage'>> \in
       {<<"start", "schema">>, <<"schema", "root">>, <<"root", "body">>, <<"rows", "bindRows">>,
        <<"bindRows", "ok">>}

LEMMA RowsKeptInv ==
  ASSUME RowsIInv, RowsKept, UNCHANGED <<docInput, pending, bound>>,
         next' = next \/ docStage # "bind"
  PROVE  RowsIInv'
<1>1. Matchings' = Matchings /\ (Binding /\ next' = next => Binding')
  <2>1. Typeless' = Typeless /\ OfKind("anonymous")' = OfKind("anonymous")
    BY DEF Typeless, OfKind, Directive
  <2>2. Matchings' = Matchings
    BY <2>1 DEF Matchings
  <2>3. Binding /\ next' = next => Binding'
    BY <2>1 DEF Binding
  <2> QED BY <2>2, <2>3
<1>2. RowsRead' /\ docStage' = docStage => RowsRead
  BY DEF RowsRead, OfKind, Directive
<1>3. RowsRead' => docStage' = "ok"
  BY DEF RowsRead
<1> QED BY <1>1, <1>2, <1>3 DEF RowsIInv, RowsKept

\* Every action of a command keeps the invariant.
LEMMA RowsStepInv == RowsIInv /\ [DocNext]_docVars => RowsIInv'
<1> SUFFICES ASSUME RowsIInv, [DocNext]_docVars PROVE RowsIInv'
  OBVIOUS
<1>1. CASE DocStart
  BY <1>1, RowsKeptInv DEF DocStart, DocFails, RowsKept, Ended
<1>2. CASE DocumentSchema
  BY <1>2, RowsKeptInv DEF DocumentSchema, RowsKept
<1>3. CASE RootMessage
  BY <1>3, RowsKeptInv DEF RootMessage, DocFails, RowsKept, Ended
<1>4. CASE AnyBlock
  BY <1>4, RowsKeptInv DEF AnyBlock, DocFails, RowsKept, Ended
<1>5. CASE BodyDecoded
  <2>1. /\ docInput \in DocRuns /\ bound = <<>> /\ pending = <<>> /\ docStage = "body"
        /\ docStage' = IF docInput.command = "validate" /\ OfKind("dataset") # {} THEN "bind" ELSE "ok"
        /\ next' = 1 /\ UNCHANGED <<docInput, pending, bound>>
    BY <1>5 DEF RowsIInv, BodyDecoded
  <2>2. Len(docInput.directives) \in Nat /\ {t \in Typeless : t < 1} = {} /\ {a \in OfKind("anonymous") : a < 1} = {}
    BY <2>1, DirectiveKinds
  <2>3. Len(pending) = 0 /\ pending \in Seq(OfKind("anonymous")) /\ bound \in [{} -> OfKind("anonymous")]
    BY <2>1, EmptySeq
  <2>4. Typeless' = Typeless /\ OfKind("anonymous")' = OfKind("anonymous")
    BY <2>1 DEF Typeless, OfKind, Directive
  <2>5. Binding'
    BY <2>1, <2>2, <2>3, <2>4 DEF Binding
  <2>6. ~RowsRead'
    BY <2>1 DEF RowsRead, OfKind, Directive
  <2> QED BY <2>1, <2>5, <2>6 DEF RowsIInv
<1>6. CASE BindDirective
  BY <1>6, BindDirectiveInv
<1>7. CASE Bound
  <2>1. /\ docInput \in DocRuns /\ Binding /\ next > Len(docInput.directives)
        /\ docStage' = IF pending = <<>> THEN "rows" ELSE "unbound"
        /\ UNCHANGED <<docInput, pending, bound>>
    BY <1>7 DEF RowsIInv, Bound
  <2>2. Matchings' = Matchings
    BY <2>1 DEF Matchings, Typeless, OfKind, Directive
  <2> QED BY <2>1, <2>2, LeftPending, AllBound DEF RowsIInv, RowsRead
<1>8. CASE ResolveRows
  BY <1>8, RowsKeptInv DEF ResolveRows, RowsKept
<1>9. CASE BindRows
  BY <1>9, RowsKeptInv DEF BindRows, RowsKept, Ended
<1>10. CASE RowsDone
  BY <1>10, RowsKeptInv DEF RowsDone, RowsKept, Ended
<1>11. CASE Publish
  BY <1>11, RowsKeptInv DEF Publish, RowsKept
<1>12. CASE Unreachable
  BY <1>12, RowsKeptInv DEF Unreachable, DocFails, RowsKept, Ended
<1>13. CASE UNCHANGED docVars
  BY <1>13, RowsKeptInv DEF docVars, RowsKept
<1> QED BY <1>1, <1>2, <1>3, <1>4, <1>5, <1>6, <1>7, <1>8, <1>9, <1>10, <1>11, <1>12, <1>13 DEF DocNext

\* A command starts within the invariant.
LEMMA RowsInitInv == DocInit => RowsIInv
BY DEF DocInit, RowsIInv, RowsRead

\* pxf encode and pxf validate on their own: the typeless datasets validate
\* reads are of the types the anonymous directives declare, and it refuses a
\* document for its pairing only if there is none.
THEOREM DocumentRowsBound == DocSpec => []RowsBound
<1>1. RowsIInv => RowsBound
  BY DEF RowsIInv, RowsBound, RowsRead
<1> QED BY <1>1, RowsInitInv, RowsStepInv, PTL DEF DocSpec

\* In the program a run is of a document command, or that is idle.
RowsOrIdle == IF command = "document" THEN RowsIInv ELSE docStage = None

\* The same of the whole program, whatever command it runs.
THEOREM PxfRowsBound == Spec => []RowsBound
<1>1. Init => RowsOrIdle
  BY RowsInitInv DEF Init, DocIdle, RowsOrIdle
<1>2. RowsOrIdle /\ [Next]_vars => RowsOrIdle'
  <2> SUFFICES ASSUME RowsOrIdle, [Next]_vars PROVE RowsOrIdle'
    OBVIOUS
  <2>1. command' = command
    BY DEF Next, vars
  <2>2. CASE command = "document"
    <3>1. [DocNext]_docVars
      BY <2>2 DEF Next, vars
    <3> QED BY <2>1, <2>2, <3>1, RowsStepInv DEF RowsOrIdle
  <2>3. CASE command # "document"
    <3>1. docStage' = docStage
      BY <2>3 DEF Next, vars, docVars
    <3> QED BY <2>1, <2>3, <3>1 DEF RowsOrIdle
  <2> QED BY <2>2, <2>3
<1>3. RowsOrIdle => RowsBound
  BY DEF RowsOrIdle, RowsIInv, RowsBound, RowsRead
<1> QED BY <1>1, <1>2, <1>3, PTL DEF Spec

-----------------------------------------------------------------------------
\* A step of the walk leads to a message, or nowhere.
LEMMA WalkStepMessage ==
  ASSUME NEW f, NEW m \in Messages
  PROVE  WalkStep(f, m) \in Messages \union {None, Unknown}
<1>1. CASE f \notin DOMAIN Fields[m]
  BY <1>1 DEF WalkStep, StepField
<1>2. CASE f \in DOMAIN Fields[m]
  <2>1. Fields[m][f] \in FieldInfo
    BY <1>2, QueryAssumption
  <2> QED BY <1>2, <2>1 DEF WalkStep, StepField, FieldInfo
<1> QED BY <1>1, <1>2

\* walkTerm, a step at a time: the trail of a path starts at the root type.
LEMMA TrailSteps ==
  ASSUME NEW path, Len(path) \in Nat, NEW root
  PROVE  /\ Trail(path, root)[0] = root
         /\ \A i \in 1..Len(path) :
              Trail(path, root)[i] = WalkStep(path[i], Trail(path, root)[i - 1])
<1> DEFINE n == Len(path)
           S == Messages \union {None, Unknown, root}
           F == [p \in (1..n) \X S |-> WalkStep(path[p[1]], p[2])]
           P(f) == f = [i \in 0..n |-> IF i = 0 THEN root ELSE WalkStep(path[i], f[i - 1])]
<1>1. Trail(path, root) = CHOOSE f : P(f)
  BY DEF Trail
<1>2. F \in [(1..n) \X S -> S]
  <2>1. ASSUME NEW f, NEW m \in S PROVE WalkStep(f, m) \in S
    BY <2>1, WalkStepMessage DEF WalkStep
  <2> QED BY <2>1
<1>3. PICK g \in [0..n -> S] : g[0] = root /\ \A i \in 1..n : g[i] = F[<<i, g[i - 1]>>]
  <2>1. root \in S /\ n \in Nat
    OBVIOUS
  <2>2. Stepwise(n, S, root, F) # {}
    <3> HIDE DEF F, S, n
    <3> QED BY <1>2, <2>1, StepwiseExists
  <2> HIDE DEF F, S, n
  <2> QED BY <2>2 DEF Stepwise
<1>4. P(g)
  <2>1. ASSUME NEW i \in 1..n PROVE g[i] = WalkStep(path[i], g[i - 1])
    <3>1. i - 1 \in 0..n
      OBVIOUS
    <3>2. g[i - 1] \in S
      BY <1>3, <3>1
    <3> QED BY <1>3, <3>2
  <2>2. ASSUME NEW i \in 0..n PROVE i = 0 \/ i \in 1..n
    OBVIOUS
  <2> QED BY <1>3, <2>1, <2>2
<1>5. P(Trail(path, root))
  <2> HIDE DEF P
  <2> QED BY <1>1, <1>4
<1> QED BY <1>5

\* jq, a suffix at a time: what a path reads starts with what it is applied to.
LEMMA ReadsSteps ==
  ASSUME NEW path, Len(path) \in Nat, NEW from \in SUBSET Nodes
  PROVE  /\ Reads(path, from)[0] = from
         /\ \A i \in 0..Len(path) : Reads(path, from)[i] \subseteq Nodes
         /\ \A i \in 1..Len(path) :
              Reads(path, from)[i] = ReadStep(path[i], Reads(path, from)[i - 1])
<1> DEFINE n == Len(path)
           S == SUBSET Nodes
           F == [p \in (1..n) \X S |-> ReadStep(path[p[1]], p[2])]
           P(f) == f = [i \in 0..n |-> IF i = 0 THEN from ELSE ReadStep(path[i], f[i - 1])]
<1>1. Reads(path, from) = CHOOSE f : P(f)
  BY DEF Reads
<1>2. F \in [(1..n) \X S -> S]
  <2>1. ASSUME NEW f, NEW values \in S PROVE ReadStep(f, values) \in S
    BY BodyAssumption DEF ReadStep
  <2> QED BY <2>1
<1>3. PICK g \in [0..n -> S] : g[0] = from /\ \A i \in 1..n : g[i] = F[<<i, g[i - 1]>>]
  <2>1. from \in S /\ n \in Nat
    OBVIOUS
  <2>2. Stepwise(n, S, from, F) # {}
    <3> HIDE DEF F, S, n
    <3> QED BY <1>2, <2>1, StepwiseExists
  <2> HIDE DEF F, S, n
  <2> QED BY <2>2 DEF Stepwise
<1>4. P(g)
  <2>1. ASSUME NEW i \in 1..n PROVE g[i] = ReadStep(path[i], g[i - 1])
    <3>1. i - 1 \in 0..n
      OBVIOUS
    <3>2. g[i - 1] \in S
      BY <1>3, <3>1
    <3> QED BY <1>3, <3>2
  <2>2. ASSUME NEW i \in 0..n PROVE i = 0 \/ i \in 1..n
    OBVIOUS
  <2> QED BY <1>3, <2>1, <2>2
<1>5. Reads(path, from) = g
  <2>1. ASSUME NEW f, P(f) PROVE f = g
    <3> DEFINE Differ == {i \in 0..n : f[i] # g[i]}
    <3>1. SUFFICES ASSUME Differ # {} PROVE FALSE
      BY <1>3, <2>1
    <3>2. PICK i \in Differ : \A k \in Differ : i <= k
      <4>1. Differ \subseteq Nat
        OBVIOUS
      <4> HIDE DEF Differ
      <4> QED BY <3>1, <4>1, LeastNatural
    <3>3. i # 0
      BY <1>3, <2>1, <3>2
    <3>4. i - 1 \in 0..n /\ f[i - 1] = g[i - 1]
      BY <3>2, <3>3
    <3> QED BY <1>4, <2>1, <3>2, <3>3, <3>4
  <2> HIDE DEF P
  <2>2. P(CHOOSE f : P(f))
    BY <1>4
  <2> QED BY <1>1, <2>1, <2>2
<1>6. ASSUME NEW i \in 0..n PROVE g[i] \subseteq Nodes
  BY <1>3
<1>7. ASSUME NEW i \in 1..n PROVE g[i] = ReadStep(path[i], g[i - 1])
  BY <1>4, <1>7
<1> HIDE DEF P
<1> QED BY <1>3, <1>5, <1>6, <1>7

\* The operands of a query are operands.
LEMMA OperandsTyped ==
  ASSUME queryInput \in QueryRuns
  PROVE  Operands \in Seq(Operand)
<1> DEFINE stages == queryInput.query
           n == Len(stages)
           S == Seq(Operand)
           F == [p \in (1..n) \X S |-> p[2] \o stages[p[1]]]
           P(f) == f = [i \in 0..n |-> IF i = 0 THEN <<>> ELSE f[i - 1] \o stages[i]]
<1>1. OperandsUpto(stages) = CHOOSE f : P(f)
  BY DEF OperandsUpto
<1>2. stages \in Seq(S)
  BY QueryAssumption
<1>3. n \in Nat /\ \A i \in 1..n : stages[i] \in S
  BY <1>2, LenProperties, ElementOfSeq
<1>4. F \in [(1..n) \X S -> S]
  <2>1. ASSUME NEW i \in 1..n, NEW s \in S PROVE s \o stages[i] \in S
    BY <1>3, ConcatProperties
  <2> QED BY <2>1
<1>5. Stepwise(n, S, <<>>, F) # {}
  <2>1. <<>> \in S
    OBVIOUS
  <2> HIDE DEF F, S, n
  <2> QED BY <1>3, <1>4, <2>1, StepwiseExists
<1>6. PICK g \in [0..n -> S] : g[0] = <<>> /\ \A i \in 1..n : g[i] = F[<<i, g[i - 1]>>]
  <2> HIDE DEF F, S, n
  <2> QED BY <1>5 DEF Stepwise
<1>7. P(g)
  <2>1. ASSUME NEW i \in 1..n PROVE g[i] = g[i - 1] \o stages[i]
    <3>1. i - 1 \in 0..n
      BY <1>3
    <3>2. g[i - 1] \in S
      BY <1>6, <3>1
    <3> QED BY <1>6, <3>2
  <2>2. ASSUME NEW i \in 0..n PROVE i = 0 \/ i \in 1..n
    BY <1>3
  <2> QED BY <1>6, <2>1, <2>2
<1>8. P(OperandsUpto(stages))
  <2> HIDE DEF P
  <2> QED BY <1>1, <1>7
<1>9. \A i \in 0..n : OperandsUpto(stages)[i] \in S
  <2> DEFINE f == OperandsUpto(stages)
             Bad == {i \in 0..n : f[i] \notin S}
  <2>1. SUFFICES ASSUME Bad # {} PROVE FALSE
    OBVIOUS
  <2>2. PICK i \in Bad : \A k \in Bad : i <= k
    <3>1. Bad \subseteq Nat
      OBVIOUS
    <3> HIDE DEF Bad
    <3> QED BY <2>1, <3>1, LeastNatural
  <2>3. f[0] = <<>> /\ \A j \in 1..n : f[j] = f[j - 1] \o stages[j]
    <3>1. ASSUME NEW h, P(h) PROVE h[0] = <<>> /\ \A j \in 1..n : h[j] = h[j - 1] \o stages[j]
      <4> HIDE DEF n
      <4>1. 0 \in 0..n /\ \A j \in 1..n : j \in 0..n /\ j # 0
        BY <1>3
      <4>2. h[0] = <<>>
        BY <3>1, <4>1
      <4>3. ASSUME NEW j \in 1..n PROVE h[j] = h[j - 1] \o stages[j]
        BY <3>1, <4>1
      <4> QED BY <4>2, <4>3
    <3> HIDE DEF P
    <3> QED BY <1>8, <3>1
  <2>4. i # 0
    <3>1. <<>> \in S
      OBVIOUS
    <3> HIDE DEF f, S
    <3> QED BY <2>2, <2>3, <3>1
  <2>5. i \in 1..n /\ i - 1 \in 0..n /\ f[i - 1] \in S
    BY <1>3, <2>2, <2>4
  <2>6. f[i] \in S
    <3> HIDE DEF f, S
    <3>1. f[i - 1] \o stages[i] \in S
      BY <1>3, <2>5, ConcatProperties DEF S
    <3> QED BY <2>3, <2>5, <3>1
  <2> QED BY <2>2, <2>6
<1>10. Operands = OperandsUpto(stages)[n]
  BY DEF Operands
<1> HIDE DEF n, S
<1> QED BY <1>3, <1>9, <1>10 DEF S

\* Where the walk no longer knows a message it stays.
LEMMA TrailStays ==
  ASSUME NEW path, Len(path) \in Nat, NEW root,
         NEW j \in 0..Len(path), Trail(path, root)[j] \notin Messages,
         NEW k \in j..Len(path)
  PROVE  Trail(path, root)[k] = Trail(path, root)[j]
<1> DEFINE T == Trail(path, root)
           Moved == {i \in j..Len(path) : T[i] # T[j]}
<1>1. \A i \in 1..Len(path) : T[i] = WalkStep(path[i], T[i - 1])
  BY TrailSteps
<1> HIDE DEF T
<1>2. Moved = {}
  <2>1. SUFFICES ASSUME Moved # {} PROVE FALSE
    OBVIOUS
  <2>2. PICK i \in Moved : \A l \in Moved : i <= l
    <3>1. Moved \subseteq Nat
      OBVIOUS
    <3> HIDE DEF Moved
    <3> QED BY <2>1, <3>1, LeastNatural
  <2>3. i # j /\ i \in 1..Len(path)
    BY <2>2
  <2>4. i - 1 \in j..Len(path) /\ i - 1 \notin Moved
    BY <2>2, <2>3
  <2>5. T[i - 1] = T[j]
    BY <2>4
  <2>6. T[i] = T[j]
    BY <1>1, <2>3, <2>5 DEF WalkStep, T
  <2> QED BY <2>2, <2>6
<1> QED BY <1>2 DEF T

\* What a field of a path reads is at that field of what is read before it.
LEMMA ReadsField ==
  ASSUME NEW path, Len(path) \in Nat, NEW from \in SUBSET Nodes,
         NEW j \in 1..Len(path), path[j] # Iterate, NEW v \in Reads(path, from)[j]
  PROVE  \E w \in Reads(path, from)[j - 1] :
           w \in Nodes /\ path[j] \in DOMAIN w.at /\ v = w.at[path[j]]
<1>1. Reads(path, from)[j] = ReadStep(path[j], Reads(path, from)[j - 1])
  BY ReadsSteps
<1>2. Reads(path, from)[j - 1] \subseteq Nodes
  <2>1. j - 1 \in 0..Len(path)
    OBVIOUS
  <2> QED BY <2>1, ReadsSteps
<1> QED BY <1>1, <1>2 DEF ReadStep

\* A field the walk steps through holds a message of the type it steps to, or a
\* list or a map.
LEMMA StepHolds ==
  ASSUME NEW w \in Nodes, w.is = "message", NEW f \in DOMAIN w.at,
         WalkStep(f, w.type) \in Messages
  PROVE  /\ w.at[f] \in Nodes
         /\ \/ w.at[f].is = "message" /\ w.at[f].type = WalkStep(f, w.type)
            \/ w.at[f].is \in {"list", "map"}
<1> DEFINE field == Fields[w.type][f]
<1>1. w.type \in Messages /\ f \in DOMAIN Fields[w.type] /\ Conforms(w.at[f], field) /\ w.at[f] \in Nodes
  BY BodyAssumption
<1>2. WalkStep(f, w.type) # None
  BY QueryAssumption
<1>3. WalkStep(f, w.type) = field.of /\ field.of # AnyType
  BY <1>1, <1>2, QueryAssumption DEF WalkStep, StepField
<1> QED BY <1>1, <1>2, <1>3 DEF Conforms, IsA

\* The documents of a type are messages of it.
LEMMA RootMessages ==
  ASSUME NEW m \in Messages
  PROVE  Bodies[m] \in SUBSET Nodes /\ \A v \in Bodies[m] : v.is = "message" /\ v.type = m
BY BodyAssumption

\* walkTerm refuses at the first field the message it has come to lacks.
LEMMA RefusedAt ==
  ASSUME NEW path, Len(path) \in Nat, NEW m \in Messages, Walk(path, m) = Unknown
  PROVE  \E i \in 1..Len(path) :
           /\ path[i] # Iterate
           /\ path[i] \notin DOMAIN Fields[Trail(path, m)[i - 1]]
           /\ \A j \in 0..(i - 1) : Trail(path, m)[j] \in Messages
           /\ \A j \in 1..(i - 1) : path[j] # Iterate
<1> DEFINE n == Len(path)
           T == Trail(path, m)
           Lost == {i \in 0..n : T[i] = Unknown}
<1>1. T[0] = m /\ \A i \in 1..n : T[i] = WalkStep(path[i], T[i - 1])
  BY TrailSteps
<1>2. PICK i \in Lost : \A k \in Lost : i <= k
  <2>1. Lost # {}
    BY DEF Walk
  <2>2. Lost \subseteq Nat
    OBVIOUS
  <2> HIDE DEF Lost
  <2> QED BY <2>1, <2>2, LeastNatural
<1>3. i \in 1..n /\ T[i - 1] # Unknown
  <2> HIDE DEF T
  <2>1. i # 0
    BY <1>1, <1>2, QueryAssumption
  <2> QED BY <1>2, <2>1
<1>4. ASSUME NEW j \in 0..(i - 1) PROVE T[j] \in Messages
  <2>1. SUFFICES ASSUME T[j] \notin Messages PROVE FALSE
    OBVIOUS
  <2>2. j \in 0..n /\ i \in j..n /\ i - 1 \in j..n
    BY <1>2, <1>3
  <2>3. T[i] = T[j] /\ T[i - 1] = T[j]
    BY <2>1, <2>2, TrailStays
  <2> QED BY <1>2, <1>3, <2>3
<1>5. path[i] # Iterate /\ path[i] \notin DOMAIN Fields[T[i - 1]]
  <2>1. i - 1 \in 0..(i - 1)
    BY <1>3
  <2>2. T[i - 1] \in Messages
    BY <1>4, <2>1
  <2>3. WalkStep(path[i], T[i - 1]) = Unknown
    BY <1>1, <1>2, <1>3
  <2> HIDE DEF T
  <2>4. ASSUME path[i] \in DOMAIN Fields[T[i - 1]] PROVE Fields[T[i - 1]][path[i]].of # Unknown
    BY <2>2, <2>4, QueryAssumption DEF FieldInfo
  <2> QED BY <2>2, <2>3, <2>4, QueryAssumption DEF WalkStep, StepField
<1>6. ASSUME NEW j \in 1..(i - 1) PROVE path[j] # Iterate
  <2>1. j \in 1..n /\ j \in 0..(i - 1) /\ j - 1 \in 0..(i - 1)
    BY <1>3
  <2>2. T[j] \in Messages /\ T[j - 1] \in Messages /\ T[j] = WalkStep(path[j], T[j - 1])
    BY <1>1, <1>4, <2>1
  <2> HIDE DEF T
  <2> QED BY <2>2, QueryAssumption DEF WalkStep
<1> QED BY <1>3, <1>4, <1>5, <1>6

\* A path the walk refuses names what no document has, unless a map is on its way.
LEMMA RefusedIsMisnamed ==
  ASSUME NEW path, Len(path) \in Nat, DOMAIN path = 1..Len(path),
         NEW m \in Messages, Walk(path, m) = Unknown, ~ThroughMap(path, Bodies[m])
  PROVE  Misnamed(path, Bodies[m])
<1> DEFINE T == Trail(path, m)
           R == Reads(path, Bodies[m])
           Same(j) == \A v \in R[j] : v.is = "list" \/ (v.is = "message" /\ v.type = T[j])
<1>1. PICK i \in 1..Len(path) :
        /\ path[i] # Iterate
        /\ path[i] \notin DOMAIN Fields[T[i - 1]]
        /\ \A j \in 0..(i - 1) : T[j] \in Messages
        /\ \A j \in 1..(i - 1) : path[j] # Iterate
  BY RefusedAt
<1>2. T[0] = m /\ \A j \in 1..Len(path) : T[j] = WalkStep(path[j], T[j - 1])
  BY TrailSteps
<1>3. R[0] = Bodies[m] /\ Bodies[m] \in SUBSET Nodes
  BY RootMessages, ReadsSteps
<1>4. ASSUME NEW j \in 1..i, NEW v \in R[j]
      PROVE  \E w \in R[j - 1] : w \in Nodes /\ path[j] \in DOMAIN w.at /\ v = w.at[path[j]]
  <2>1. j \in 1..Len(path) /\ path[j] # Iterate
    BY <1>1
  <2> QED BY <1>3, <2>1, ReadsField, <1>4
<1>5. ASSUME NEW j \in 0..(i - 1), NEW v \in R[j] PROVE v.is # "map"
  <2>1. j + 1 \in 1..Len(path) /\ (j + 1) - 1 = j
    OBVIOUS
  <2> QED BY <1>5, <2>1 DEF ThroughMap
<1> HIDE DEF T, R
<1>6. ASSUME NEW j \in 1..(i - 1), Same(j - 1) PROVE Same(j)
  <2> SUFFICES ASSUME NEW v \in R[j] PROVE v.is = "list" \/ (v.is = "message" /\ v.type = T[j])
    OBVIOUS
  <2>1. j \in 1..i /\ j \in 1..Len(path) /\ j \in 0..(i - 1)
    OBVIOUS
  <2>2. PICK w \in R[j - 1] : w \in Nodes /\ path[j] \in DOMAIN w.at /\ v = w.at[path[j]]
    BY <1>4, <2>1
  <2>3. w.is = "message" /\ w.type = T[j - 1]
    BY <1>6, <2>2, BodyAssumption
  <2>4. WalkStep(path[j], w.type) = T[j] /\ T[j] \in Messages
    BY <1>1, <1>2, <2>1, <2>3
  <2> QED BY <1>5, <2>1, <2>2, <2>3, <2>4, StepHolds
<1>7. \A j \in 0..(i - 1) : Same(j)
  <2> DEFINE Bad == {j \in 0..(i - 1) : ~Same(j)}
  <2>1. SUFFICES ASSUME Bad # {} PROVE FALSE
    OBVIOUS
  <2>2. PICK j \in Bad : \A k \in Bad : j <= k
    <3>1. Bad \subseteq Nat
      OBVIOUS
    <3> HIDE DEF Bad
    <3> QED BY <2>1, <3>1, LeastNatural
  <2>3. Same(0)
    BY <1>2, <1>3, RootMessages
  <2> HIDE DEF Same
  <2>4. j # 0
    BY <2>2, <2>3
  <2>5. j \in 1..(i - 1) /\ j - 1 \in 0..(i - 1) /\ j - 1 \notin Bad
    BY <2>2, <2>4
  <2> QED BY <1>6, <2>2, <2>5
<1>8. R[i] = {}
  <2>1. SUFFICES ASSUME NEW v \in R[i] PROVE FALSE
    OBVIOUS
  <2>2. i \in 1..i /\ i - 1 \in 0..(i - 1)
    OBVIOUS
  <2>3. PICK w \in R[i - 1] : w \in Nodes /\ path[i] \in DOMAIN w.at
    BY <1>4, <2>1, <2>2
  <2>4. w.is = "message" /\ w.type = T[i - 1]
    BY <1>7, <2>2, <2>3, BodyAssumption
  <2> QED BY <1>1, <2>3, <2>4, BodyAssumption
<1> QED BY <1>1, <1>8 DEF Misnamed, R

\* A path that comes through messages to one that lacks its next field is refused.
LEMMA UndeclaredIsRefused ==
  ASSUME NEW path, Len(path) \in Nat, DOMAIN path = 1..Len(path),
         NEW m \in Messages, Undeclared(path, Bodies[m])
  PROVE  Walk(path, m) = Unknown
<1> DEFINE T == Trail(path, m)
           R == Reads(path, Bodies[m])
           Same(j) == R[j] # {} => T[j] \in Messages /\ \A v \in R[j] : v.type = T[j]
<1>1. PICK i \in 1..Len(path) :
        /\ \A j \in 1..i : path[j] # Iterate /\ \A v \in R[j - 1] : v.is = "message"
        /\ \E v \in R[i - 1] : path[i] \notin DOMAIN Fields[v.type]
  BY DEF Undeclared
<1>2. T[0] = m /\ \A j \in 1..Len(path) : T[j] = WalkStep(path[j], T[j - 1])
  BY TrailSteps
<1>3. R[0] = Bodies[m] /\ Bodies[m] \in SUBSET Nodes
  BY RootMessages, ReadsSteps
<1>4. ASSUME NEW j \in 1..i, NEW v \in R[j]
      PROVE  \E w \in R[j - 1] : w \in Nodes /\ path[j] \in DOMAIN w.at /\ v = w.at[path[j]]
  <2>1. j \in 1..Len(path) /\ path[j] # Iterate
    BY <1>1
  <2> QED BY <1>3, <2>1, ReadsField, <1>4
<1> HIDE DEF T, R
<1>5. ASSUME NEW j \in 1..(i - 1), Same(j - 1) PROVE Same(j)
  <2>1. j \in 1..i /\ j \in 1..Len(path) /\ j + 1 \in 1..i /\ (j + 1) - 1 = j
    OBVIOUS
  <2>2. ASSUME NEW v \in R[j] PROVE T[j] \in Messages /\ v.type = T[j]
    <3>1. PICK w \in R[j - 1] : w \in Nodes /\ path[j] \in DOMAIN w.at /\ v = w.at[path[j]]
      BY <1>4, <2>1, <2>2
    <3>2. w.is = "message" /\ v.is = "message"
      BY <1>1, <2>1, <2>2, <3>1
    <3>3. T[j - 1] \in Messages /\ w.type = T[j - 1]
      BY <1>5, <3>1
    <3>4. T[j] = WalkStep(path[j], w.type)
      BY <1>2, <2>1, <3>3
    <3> DEFINE field == Fields[w.type][path[j]]
    <3>5. v.type \in Messages /\ Conforms(v, field) /\ path[j] \in DOMAIN Fields[w.type]
      BY <3>1, <3>2, BodyAssumption
    <3>6. field.of = v.type /\ field.of # AnyType
      BY <3>2, <3>5, QueryAssumption DEF Conforms, IsA
    <3>7. path[j] # Iterate
      BY <1>1, <2>1
    <3> QED BY <3>3, <3>4, <3>5, <3>6, <3>7 DEF WalkStep, StepField
  <2> QED BY <2>2
<1>6. \A j \in 0..(i - 1) : Same(j)
  <2> DEFINE Bad == {j \in 0..(i - 1) : ~Same(j)}
  <2>1. SUFFICES ASSUME Bad # {} PROVE FALSE
    OBVIOUS
  <2>2. PICK j \in Bad : \A k \in Bad : j <= k
    <3>1. Bad \subseteq Nat
      OBVIOUS
    <3> HIDE DEF Bad
    <3> QED BY <2>1, <3>1, LeastNatural
  <2>3. Same(0)
    BY <1>2, <1>3, RootMessages
  <2> HIDE DEF Same
  <2>4. j # 0
    BY <2>2, <2>3
  <2>5. j \in 1..(i - 1) /\ j - 1 \in 0..(i - 1) /\ j - 1 \notin Bad
    BY <2>2, <2>4
  <2> QED BY <1>5, <2>2, <2>5
<1>7. T[i] = Unknown
  <2>1. i \in 1..i /\ i - 1 \in 0..(i - 1)
    OBVIOUS
  <2>2. T[i - 1] \in Messages /\ path[i] \notin DOMAIN Fields[T[i - 1]] /\ path[i] # Iterate
    BY <1>1, <1>6, <2>1
  <2> QED BY <1>2, <2>2 DEF WalkStep, StepField
<1>8. T[Len(path)] = T[i]
  <2>1. Unknown \notin Messages /\ i \in 0..Len(path) /\ Len(path) \in i..Len(path)
    BY QueryAssumption
  <2> QED BY <1>7, <2>1, TrailStays DEF T
<1> QED BY <1>7, <1>8 DEF Walk, T

\* A strict run writes what comes before an error, a loose one a null for it.
LEMMA ReturnedResults ==
  ASSUME NEW r \in Seq({"value", "null", "error"}), strict \in BOOLEAN,
         \A i \in DOMAIN r : r[i] = "error" => i = Len(r)
  PROVE  /\ Returned(r) \in Seq({"value", "null"})
         /\ Len(Returned(r)) = Len(IF strict THEN Succeeded(r) ELSE r)
         /\ \A i \in DOMAIN Returned(r) :
              Returned(r)[i] = IF i \in DOMAIN Succeeded(r) THEN r[i] ELSE "null"
<1> DEFINE Before == {j \in DOMAIN r : \A k \in 1..j : r[k] # "error"}
<1>1. Len(r) \in Nat /\ DOMAIN r = 1..Len(r) /\ \A i \in 1..Len(r) : r[i] \in {"value", "null", "error"}
  BY LenProperties, ElementOfSeq
<1>2. \A i \in 1..Len(r) : i \in Before <=> r[i] # "error"
  BY <1>1
<1>3. Succeeded(r) = [i \in Before |-> r[i]]
  BY DEF Succeeded
<1>4. \E n \in Nat : Before = 1..n
  <2>1. CASE "error" \in Named(r)
    <3>1. Len(r) \in 1..Len(r) /\ r[Len(r)] = "error"
      BY <1>1, <2>1 DEF Named
    <3>2. Before = 1..(Len(r) - 1) /\ Len(r) - 1 \in Nat
      BY <1>1, <1>2, <3>1
    <3> QED BY <3>2
  <2>2. CASE "error" \notin Named(r)
    <3>1. Before = 1..Len(r)
      BY <1>1, <2>2 DEF Named
    <3> QED BY <1>1, <3>1
  <2> QED BY <2>1, <2>2
<1> HIDE DEF Before
<1>5. Before \subseteq 1..Len(r) /\ DOMAIN Succeeded(r) = Before
  BY <1>1, <1>3 DEF Before
<1>6. CASE strict
  <2>1. PICK n \in Nat : Before = 1..n
    BY <1>4
  <2>2. \A i \in 1..n : r[i] \in {"value", "null"}
    BY <1>1, <1>2, <1>5, <2>1
  <2>3. Succeeded(r) \in Seq({"value", "null"})
    BY <1>3, <2>1, <2>2, IsASeq
  <2>4. Returned(r) = Succeeded(r)
    BY <1>6 DEF Returned
  <2> QED BY <1>3, <1>5, <1>6, <2>3, <2>4
<1>7. CASE ~strict
  <2> DEFINE s == [i \in 1..Len(r) |-> IF r[i] = "error" THEN "null" ELSE r[i]]
  <2>1. Returned(r) = s
    BY <1>1, <1>7 DEF Returned
  <2>2. s \in Seq({"value", "null"}) /\ Len(s) = Len(r) /\ DOMAIN s = 1..Len(r)
    <3>1. \A i \in 1..Len(r) : (IF r[i] = "error" THEN "null" ELSE r[i]) \in {"value", "null"}
      BY <1>1
    <3>2. s \in Seq({"value", "null"})
      BY <1>1, <3>1, IsASeq
    <3> QED BY <1>1, <3>2, LenProperties
  <2>3. ASSUME NEW i \in 1..Len(r) PROVE s[i] = IF i \in Before THEN r[i] ELSE "null"
    BY <1>2
  <2> QED BY <1>5, <1>7, <2>1, <2>2, <2>3
<1> QED BY <1>6, <1>7

-----------------------------------------------------------------------------
\* How far the run is, of the stages the code goes through.
QueryTypes ==
  /\ queryInput \in QueryRuns
  /\ queryStage \in {"load", "walk", "run", "emit"} \union Ended
  /\ strict \in {TRUE, FALSE, None}
  /\ operand \in 1..(Len(Operands) + 1)
  /\ queryStage \in {"load", "walk", "run"} => results = <<>> /\ written = <<>>
  /\ results \in Seq({"value", "null"}) /\ written \in Seq({"value", "null"})

\* The mode is strict only under a root type, and the walk is of strict runs.
ModeChosen ==
  /\ queryStage = "load" => strict = None /\ operand = 1
  /\ queryStage = "walk" => strict = TRUE
  /\ queryStage \in {"run", "emit", "ok"} => strict \in BOOLEAN
  /\ strict = TRUE => queryInput.sets \in Messages

\* The operands the walk is past are no path it refuses, and it runs to the end
\* unless it refuses one.
OperandsWalked ==
  /\ strict = TRUE => \A i \in 1..(operand - 1) :
       Operands[i] # Dynamic => Walk(Operands[i], queryInput.sets) # Unknown
  /\ strict = TRUE /\ queryStage \notin {"load", "walk"} /\ reason = None => operand = Len(Operands) + 1
  /\ reason # None =>
       /\ strict = TRUE /\ queryStage = "error" /\ written = <<>>
       /\ reason \in Operand \ {Dynamic} /\ Walk(reason, queryInput.sets) = Unknown

\* What is written is the results so far.
ResultsWritten ==
  /\ queryStage = "emit" => results = Returned(queryInput.results)
  /\ Len(written) <= Len(results) /\ \A i \in 1..Len(written) : written[i] = results[i]
  /\ queryStage \in Ended /\ Ran /\ queryInput.unprintable = 0 =>
       /\ strict \in BOOLEAN
       /\ results = Returned(queryInput.results) /\ Len(written) = Len(results)
       /\ (queryStage = "error") = (strict /\ "error" \in Named(queryInput.results))

QueryIInv == QueryTypes /\ ModeChosen /\ OperandsWalked /\ ResultsWritten

\* The runs' inputs are as QueryRuns says.
LEMMA QueryInputs ==
  ASSUME queryInput \in QueryRuns
  PROVE  /\ DOMAIN queryInput = QueryFields
         /\ Len(Operands) \in Nat /\ DOMAIN Operands = 1..Len(Operands)
         /\ \A i \in 1..Len(Operands) : Operands[i] \in Operand
         /\ queryInput.results \in Seq({"value", "null", "error"})
         /\ \A i \in DOMAIN queryInput.results :
              queryInput.results[i] = "error" => i = Len(queryInput.results)
<1>1. Operands \in Seq(Operand)
  BY OperandsTyped
<1>2. Len(Operands) \in Nat /\ DOMAIN Operands = 1..Len(Operands) /\ \A i \in 1..Len(Operands) : Operands[i] \in Operand
  BY <1>1, LenProperties, ElementOfSeq
<1> QED BY <1>2, QueryAssumption

\* The operands and the fields are those of the input.
LEMMA QuerySame ==
  ASSUME queryInput' = queryInput
  PROVE  Operands' = Operands
BY DEF Operands

\* A run starts within the invariant.
LEMMA QueryInitInv == QueryInit => QueryIInv
<1> SUFFICES ASSUME QueryInit PROVE QueryIInv
  OBVIOUS
<1>1. None \notin BOOLEAN
  BY QueryAssumption
<1>2. Len(Operands) \in Nat /\ queryInput \in QueryRuns
  BY QueryInputs DEF QueryInit
<1>3. QueryTypes
  BY <1>2, EmptySeq DEF QueryInit, QueryTypes
<1>4. ModeChosen /\ OperandsWalked
  BY <1>1 DEF QueryInit, ModeChosen, OperandsWalked
<1>5. ResultsWritten
  <2>1. Len(written) = 0 /\ Len(results) = 0
    BY EmptySeq DEF QueryInit
  <2> QED BY <2>1 DEF QueryInit, ResultsWritten, Ended
<1> QED BY <1>3, <1>4, <1>5 DEF QueryIInv

\* A run that fails before anything is written.
LEMMA QueryFailsInv ==
  ASSUME QueryIInv, QueryFails, queryStage \in {"load", "run", "emit"},
         ~Ran' \/ queryInput.unprintable # 0
  PROVE  QueryIInv'
<1>1. Operands' = Operands
  BY QuerySame DEF QueryFails
<1>2. QueryTypes'
  BY <1>1 DEF QueryIInv, QueryTypes, QueryFails, Ended
<1>3. ModeChosen'
  BY DEF QueryIInv, ModeChosen, QueryFails
<1>4. reason = None
  BY DEF QueryIInv, OperandsWalked
<1>5. OperandsWalked'
  <2>1. queryStage = "load" => strict # TRUE
    BY QueryAssumption DEF QueryIInv, ModeChosen, QueryTypes
  <2> QED BY <1>1, <1>4, <2>1 DEF QueryIInv, OperandsWalked, QueryFails
<1>6. ResultsWritten'
  BY DEF QueryIInv, ResultsWritten, QueryFails
<1> QED BY <1>2, <1>3, <1>5, <1>6 DEF QueryIInv

\* The mode is strict only of a root type that is bound.
LEMMA LoadQueryInv == QueryIInv /\ LoadQuery => QueryIInv'
<1> SUFFICES ASSUME QueryIInv, LoadQuery PROVE QueryIInv'
  OBVIOUS
<1> DEFINE mode == EffectiveMode(queryInput.sets # None)
<1>0. queryInput \in QueryRuns /\ queryStage = "load"
  BY DEF QueryIInv, QueryTypes, LoadQuery
<1>1. CASE QueryFails
  <2>1. strict' = None
    BY <1>0, <1>1 DEF QueryIInv, ModeChosen, QueryFails
  <2> QED BY <1>0, <1>1, <2>1, QueryFailsInv DEF Ran
<1>2. CASE ~QueryFails
  <2>1. /\ mode # None /\ strict' = mode
        /\ queryStage' = IF mode THEN "walk" ELSE "run"
        /\ UNCHANGED <<queryInput, operand, reason, results, written>>
    BY <1>2 DEF LoadQuery
  <2>2. Operands' = Operands
    BY <2>1, QuerySame
  <2>3. mode \in BOOLEAN /\ (mode = TRUE => queryInput.sets \in Messages)
    BY <1>0, <2>1, QueryAssumption DEF EffectiveMode
  <2>4. reason = None /\ operand = 1
    BY <1>0 DEF QueryIInv, ModeChosen, OperandsWalked
  <2>5. QueryTypes'
    BY <1>0, <2>1, <2>2, <2>3 DEF QueryIInv, QueryTypes
  <2>6. ModeChosen'
    BY <2>1, <2>3 DEF ModeChosen
  <2>7. OperandsWalked'
    BY <2>1, <2>2, <2>3, <2>4 DEF OperandsWalked
  <2>8. ResultsWritten'
    BY <2>1, <2>3 DEF QueryIInv, ResultsWritten, Ended
  <2> QED BY <2>5, <2>6, <2>7, <2>8 DEF QueryIInv
<1> QED BY <1>1, <1>2

\* An operand is refused, or is one the walk is past.
LEMMA WalkOperandInv == QueryIInv /\ WalkOperand => QueryIInv'
<1> SUFFICES ASSUME QueryIInv, WalkOperand PROVE QueryIInv'
  OBVIOUS
<1> DEFINE path == Operands[operand]
<1>1. /\ queryInput \in QueryRuns /\ queryStage = "walk" /\ operand <= Len(Operands)
      /\ UNCHANGED <<queryInput, strict, results, written>>
  BY DEF QueryIInv, QueryTypes, WalkOperand
<1>2. Operands' = Operands
  BY <1>1, QuerySame
<1>3. operand \in 1..Len(Operands) /\ Len(Operands) \in Nat /\ path \in Operand
  BY <1>1, QueryInputs DEF QueryIInv, QueryTypes
<1>4. strict = TRUE /\ queryInput.sets \in Messages /\ reason = None /\ written = <<>> /\ results = <<>>
  BY <1>1 DEF QueryIInv, QueryTypes, ModeChosen, OperandsWalked
<1>5. CASE path # Dynamic /\ Walk(path, queryInput.sets) = Unknown
  <2>1. reason' = path /\ queryStage' = "error" /\ operand' = operand
    BY <1>5 DEF WalkOperand
  <2>2. reason' # None
    BY <1>3, <2>1, QueryAssumption
  <2>3. QueryTypes' /\ ModeChosen'
    BY <1>1, <1>2, <2>1 DEF QueryIInv, QueryTypes, ModeChosen, Ended
  <2>4. OperandsWalked'
    BY <1>1, <1>2, <1>3, <1>4, <1>5, <2>1, <2>2 DEF QueryIInv, OperandsWalked
  <2>5. ResultsWritten'
    BY <1>1, <2>1, <2>2 DEF QueryIInv, ResultsWritten, Ran
  <2> QED BY <2>3, <2>4, <2>5 DEF QueryIInv
<1>6. CASE ~(path # Dynamic /\ Walk(path, queryInput.sets) = Unknown)
  <2>1. operand' = operand + 1 /\ UNCHANGED <<queryStage, reason>>
    BY <1>6 DEF WalkOperand
  <2>2. QueryTypes' /\ ModeChosen'
    BY <1>1, <1>2, <1>3, <2>1 DEF QueryIInv, QueryTypes, ModeChosen
  <2>3. OperandsWalked'
    <3>1. ASSUME NEW i \in 1..(operand' - 1)
          PROVE Operands[i] # Dynamic => Walk(Operands[i], queryInput.sets) # Unknown
      <4>1. i \in 1..(operand - 1) \/ i = operand
        BY <1>3, <2>1
      <4> QED BY <1>4, <1>6, <4>1 DEF QueryIInv, OperandsWalked
    <3> QED BY <1>1, <1>2, <1>4, <2>1, <3>1 DEF OperandsWalked
  <2>4. ResultsWritten'
    BY <1>1, <2>1 DEF QueryIInv, ResultsWritten, Ended
  <2> QED BY <2>2, <2>3, <2>4 DEF QueryIInv
<1> QED BY <1>5, <1>6

\* The walk ends past the last operand.
LEMMA WalkedInv == QueryIInv /\ Walked => QueryIInv'
<1> SUFFICES ASSUME QueryIInv, Walked PROVE QueryIInv'
  OBVIOUS
<1>1. /\ queryInput \in QueryRuns /\ queryStage = "walk" /\ operand > Len(Operands) /\ queryStage' = "run"
      /\ UNCHANGED <<queryInput, strict, operand, reason, results, written>>
  BY DEF QueryIInv, QueryTypes, Walked
<1>2. Operands' = Operands
  BY <1>1, QuerySame
<1>3. operand = Len(Operands) + 1
  BY <1>1, QueryInputs DEF QueryIInv, QueryTypes
<1>4. QueryTypes' /\ ModeChosen'
  BY <1>1, <1>2 DEF QueryIInv, QueryTypes, ModeChosen
<1>5. OperandsWalked'
  BY <1>1, <1>2, <1>3 DEF QueryIInv, OperandsWalked
<1>6. ResultsWritten'
  BY <1>1 DEF QueryIInv, ResultsWritten, Ended
<1> QED BY <1>4, <1>5, <1>6 DEF QueryIInv

\* gojq runs the whole query before anything is written.
LEMMA RunQueryInv == QueryIInv /\ RunQuery => QueryIInv'
<1> SUFFICES ASSUME QueryIInv, RunQuery PROVE QueryIInv'
  OBVIOUS
<1>1. queryInput \in QueryRuns /\ queryStage = "run" /\ strict \in BOOLEAN
  BY DEF QueryIInv, QueryTypes, ModeChosen, RunQuery
<1>2. CASE ~queryInput.compiles
  <2>1. QueryFails
    BY <1>2 DEF RunQuery
  <2>2. ~Ran'
    BY <1>2, <2>1 DEF Ran, QueryFails
  <2> QED BY <1>1, <2>1, <2>2, QueryFailsInv
<1>3. CASE queryInput.compiles
  <2>1. /\ results' = Returned(queryInput.results) /\ queryStage' = "emit"
        /\ UNCHANGED <<queryInput, strict, operand, reason, written>>
    BY <1>3 DEF RunQuery
  <2>2. Operands' = Operands
    BY <2>1, QuerySame
  <2>3. results' \in Seq({"value", "null"})
    BY <1>1, <2>1, QueryInputs, ReturnedResults
  <2>4. QueryTypes' /\ ModeChosen'
    BY <1>1, <2>1, <2>2, <2>3 DEF QueryIInv, QueryTypes, ModeChosen
  <2>5. OperandsWalked'
    BY <1>1, <2>1, <2>2 DEF QueryIInv, OperandsWalked
  <2>6. ResultsWritten'
    <3>1. Len(results') \in Nat /\ Len(written) = 0
      BY <1>1, <2>3, LenProperties, EmptySeq DEF QueryIInv, QueryTypes
    <3>2. results' = Returned(queryInput.results)'
      BY <2>1 DEF Returned
    <3> QED BY <2>1, <3>1, <3>2 DEF ResultsWritten, Ended
  <2> QED BY <2>4, <2>5, <2>6 DEF QueryIInv
<1> QED BY <1>2, <1>3

\* The next result is written, or is one the emitter has no form for.
LEMMA EmitInv == QueryIInv /\ Emit => QueryIInv'
<1> SUFFICES ASSUME QueryIInv, Emit PROVE QueryIInv'
  OBVIOUS
<1>1. queryInput \in QueryRuns /\ queryStage = "emit" /\ Len(written) < Len(results)
  BY DEF QueryIInv, QueryTypes, Emit
<1>2. Len(written) \in Nat /\ Len(results) \in Nat
  BY LenProperties DEF QueryIInv, QueryTypes
<1>3. CASE Len(written) + 1 = queryInput.unprintable
  <2>1. QueryFails /\ queryInput.unprintable # 0
    BY <1>2, <1>3 DEF Emit
  <2> QED BY <1>1, <2>1, QueryFailsInv
<1>4. CASE Len(written) + 1 # queryInput.unprintable
  <2>1. /\ written' = Append(written, results[Len(written) + 1])
        /\ UNCHANGED <<queryInput, queryStage, strict, operand, reason, results>>
    BY <1>4 DEF Emit
  <2>2. Operands' = Operands
    BY <2>1, QuerySame
  <2>3. results[Len(written) + 1] \in {"value", "null"}
    <3>1. Len(written) + 1 \in 1..Len(results)
      BY <1>1, <1>2
    <3> QED BY <3>1, ElementOfSeq DEF QueryIInv, QueryTypes
  <2>4. /\ written' \in Seq({"value", "null"}) /\ Len(written') = Len(written) + 1
        /\ \A i \in 1..Len(written) : written'[i] = written[i]
        /\ written'[Len(written) + 1] = results[Len(written) + 1]
    BY <2>1, <2>3, AppendProperties DEF QueryIInv, QueryTypes
  <2>5. QueryTypes' /\ ModeChosen'
    BY <1>1, <2>1, <2>2, <2>4 DEF QueryIInv, QueryTypes, ModeChosen
  <2>6. OperandsWalked'
    BY <1>1, <2>1, <2>2 DEF QueryIInv, OperandsWalked
  <2>7. ResultsWritten'
    <3>1. \A i \in 1..Len(written') : written'[i] = results[i]
      BY <1>2, <2>4 DEF QueryIInv, ResultsWritten
    <3>2. Returned(queryInput.results)' = Returned(queryInput.results)
      BY <2>1 DEF Returned
    <3> QED BY <1>1, <1>2, <2>1, <2>4, <3>1, <3>2 DEF QueryIInv, ResultsWritten, Ended
  <2> QED BY <2>5, <2>6, <2>7 DEF QueryIInv
<1> QED BY <1>3, <1>4

\* All results are written, and a strict run that came to an error fails.
LEMMA EmittedInv == QueryIInv /\ Emitted => QueryIInv'
<1> SUFFICES ASSUME QueryIInv, Emitted PROVE QueryIInv'
  OBVIOUS
<1>1. /\ queryInput \in QueryRuns /\ queryStage = "emit" /\ Len(written) = Len(results)
      /\ queryStage' = IF strict /\ "error" \in Named(queryInput.results) THEN "error" ELSE "ok"
      /\ UNCHANGED <<queryInput, strict, operand, reason, results, written>>
  BY DEF QueryIInv, QueryTypes, Emitted
<1>2. Operands' = Operands
  BY <1>1, QuerySame
<1>3. QueryTypes' /\ ModeChosen'
  BY <1>1, <1>2 DEF QueryIInv, QueryTypes, ModeChosen, Ended
<1>4. OperandsWalked'
  BY <1>1, <1>2 DEF QueryIInv, OperandsWalked
<1>5. ResultsWritten'
  <2>1. Returned(queryInput.results)' = Returned(queryInput.results)
    BY <1>1 DEF Returned
  <2>2. strict \in BOOLEAN /\ results = Returned(queryInput.results)
    BY <1>1 DEF QueryIInv, ModeChosen, ResultsWritten
  <2>3. (queryStage' = "error") = (strict /\ "error" \in Named(queryInput.results))
    BY <1>1, <2>2
  <2> QED BY <1>1, <2>1, <2>2, <2>3 DEF QueryIInv, ResultsWritten
<1> QED BY <1>3, <1>4, <1>5 DEF QueryIInv

\* Every step of a query, and no step, keeps the invariant.
LEMMA QueryStepInv == QueryIInv /\ [QueryNext]_queryVars => QueryIInv'
<1> SUFFICES ASSUME QueryIInv, [QueryNext]_queryVars PROVE QueryIInv'
  OBVIOUS
<1>1. CASE UNCHANGED queryVars
  <2>1. Operands' = Operands
    BY <1>1, QuerySame DEF queryVars
  <2>2. Returned(queryInput.results)' = Returned(queryInput.results) /\ (Ran' <=> Ran)
    BY <1>1 DEF Returned, Ran, queryVars
  <2> QED BY <1>1, <2>1, <2>2 DEF queryVars, QueryIInv, QueryTypes, ModeChosen, OperandsWalked, ResultsWritten
<1> QED BY <1>1, LoadQueryInv, WalkOperandInv, WalkedInv, RunQueryInv, EmitInv, EmittedInv DEF QueryNext

\* What the invariant says.
LEMMA QueryInvImplies == QueryIInv => StrictHonest /\ QueryTypeOK
<1> SUFFICES ASSUME QueryIInv PROVE StrictHonest /\ QueryTypeOK
  OBVIOUS
<1> DEFINE r == queryInput.results
<1>1. queryInput \in QueryRuns
  BY DEF QueryIInv, QueryTypes
<1>2. /\ Len(Operands) \in Nat /\ DOMAIN Operands = 1..Len(Operands)
      /\ \A i \in 1..Len(Operands) : Operands[i] \in Operand
  BY <1>1, QueryInputs
<1>3. ASSUME NEW path \in Operand \ {Dynamic}
      PROVE  Len(path) \in Nat /\ DOMAIN path = 1..Len(path)
  BY <1>3, LenProperties DEF Operand
<1>4. ASSUME reason # None
      PROVE  written = <<>> /\ (~ThroughMap(reason, Root) => Misnamed(reason, Root))
  <2>1. /\ written = <<>> /\ queryInput.sets \in Messages
        /\ reason \in Operand \ {Dynamic} /\ Walk(reason, queryInput.sets) = Unknown
    BY <1>4 DEF QueryIInv, ModeChosen, OperandsWalked
  <2>2. Len(reason) \in Nat /\ DOMAIN reason = 1..Len(reason)
    BY <1>3, <2>1
  <2> QED BY <2>1, <2>2, RefusedIsMisnamed DEF Root
<1>5. ASSUME Ran, strict, NEW path \in Paths PROVE ~Undeclared(path, Root)
  <2>1. strict = TRUE /\ queryStage \notin {"load", "walk"} /\ reason = None
    <3>1. strict = TRUE
      BY <1>5, QueryAssumption DEF QueryIInv, QueryTypes, Ran
    <3> QED BY <1>5, <3>1 DEF Ran
  <2>2. queryInput.sets \in Messages /\ operand = Len(Operands) + 1
    BY <2>1 DEF QueryIInv, ModeChosen, OperandsWalked
  <2>3. PICK i \in 1..Len(Operands) : path = Operands[i] /\ path # Dynamic
    BY <1>2, <1>5 DEF Paths, Named
  <2>4. path \in Operand \ {Dynamic} /\ Walk(path, queryInput.sets) # Unknown
    <3>1. i \in 1..(operand - 1)
      BY <1>2, <2>2
    <3> QED BY <1>2, <2>1, <2>3, <3>1 DEF QueryIInv, OperandsWalked
  <2>5. Len(path) \in Nat /\ DOMAIN path = 1..Len(path)
    BY <1>3, <2>4
  <2> QED BY <2>2, <2>4, <2>5, UndeclaredIsRefused DEF Root
<1>6. ASSUME Ran, queryStage \in Ended, queryInput.unprintable = 0
      PROVE  /\ Len(written) = Len(IF strict THEN Succeeded(r) ELSE r)
             /\ \A i \in DOMAIN written : written[i] = IF i \in DOMAIN Succeeded(r) THEN r[i] ELSE "null"
             /\ (queryStage = "error") = (strict /\ "error" \in Named(r))
  <2>1. /\ strict \in BOOLEAN /\ results = Returned(r) /\ Len(written) = Len(results)
        /\ \A i \in 1..Len(written) : written[i] = results[i]
        /\ (queryStage = "error") = (strict /\ "error" \in Named(r))
    BY <1>6 DEF QueryIInv, ResultsWritten
  <2>2. /\ Len(Returned(r)) = Len(IF strict THEN Succeeded(r) ELSE r)
        /\ \A i \in DOMAIN Returned(r) :
             Returned(r)[i] = IF i \in DOMAIN Succeeded(r) THEN r[i] ELSE "null"
    BY <1>1, <2>1, QueryInputs, ReturnedResults
  <2>3. DOMAIN written = 1..Len(written) /\ DOMAIN results = 1..Len(results)
    BY LenProperties DEF QueryIInv, QueryTypes
  <2> QED BY <2>1, <2>2, <2>3
<1>7. StrictHonest
  BY <1>4, <1>5, <1>6 DEF StrictHonest
<1>8. QueryTypeOK
  <2>1. \A i \in DOMAIN written : written[i] \in {"value", "null"}
    BY LenProperties, ElementOfSeq DEF QueryIInv, QueryTypes
  <2>2. operand \in Nat \ {0}
    BY <1>2 DEF QueryIInv, QueryTypes
  <2>3. DOMAIN queryInput = QueryFields
    BY <1>1, QueryInputs
  <2> QED BY <2>1, <2>2, <2>3 DEF QueryIInv, QueryTypes, QueryTypeOK
<1> QED BY <1>7, <1>8

-----------------------------------------------------------------------------
\* pxf query: a strict run refuses only what names nothing, runs no query with a
\* path from the root that looks up what a message does not declare, and writes
\* the results before an error.
THEOREM QueryHonest == QuerySpec => []StrictHonest
<1> QED BY QueryInitInv, QueryStepInv, QueryInvImplies, PTL DEF QuerySpec

\* In the program a run is of pxf query, or query is idle.
QueryOrIdle == IF command = "query" THEN QueryIInv ELSE queryStage = None

\* The program starts one command.
LEMMA QueryOrIdleInit == Init => QueryOrIdle
BY QueryInitInv DEF Init, QueryIdle, QueryOrIdle

\* No other command moves the query's state.
LEMMA QueryOrIdleStep == QueryOrIdle /\ [Next]_vars => QueryOrIdle'
<1> SUFFICES ASSUME QueryOrIdle, [Next]_vars PROVE QueryOrIdle'
  OBVIOUS
<1>1. command' = command
  BY DEF Next, vars
<1>2. CASE command = "query"
  <2>1. [QueryNext]_queryVars
    BY <1>2 DEF Next, vars
  <2> QED BY <1>1, <1>2, <2>1, QueryStepInv DEF QueryOrIdle
<1>3. CASE command # "query"
  <2>1. queryStage' = queryStage
    BY <1>3 DEF Next, vars, queryVars
  <2> QED BY <1>1, <1>3, <2>1 DEF QueryOrIdle
<1> QED BY <1>2, <1>3

\* The same of the whole program, whatever command it runs.
THEOREM PxfStrictHonest == Spec => []StrictHonest
<1>1. QueryOrIdle => StrictHonest
  BY QueryInvImplies DEF QueryOrIdle, StrictHonest
<1> QED BY <1>1, QueryOrIdleInit, QueryOrIdleStep, PTL DEF Spec

\* The type invariant of the program: the parts of its four commands.
THEOREM CommandTypeSafe == Spec => []CommandTypeOK
<1>1. QueryOrIdle => QueryTypeOK
  BY QueryInvImplies DEF QueryOrIdle, QueryTypeOK
<1>2. Spec => []QueryTypeOK
  BY <1>1, QueryOrIdleInit, QueryOrIdleStep, PTL DEF Spec
<1>3. Spec => [](command \in Commands)
  <2>1. Init => command \in Commands
    BY DEF Init, Commands
  <2>2. command \in Commands /\ [Next]_vars => (command \in Commands)'
    BY DEF Next, vars
  <2> QED BY <2>1, <2>2, PTL DEF Spec
<1>4. command \in Commands /\ FmtTypeOK /\ BuildTypeOK /\ DocTypeOK /\ QueryTypeOK => CommandTypeOK
  BY DEF CommandTypeOK
<1> QED BY <1>2, <1>3, <1>4, FmtTypeSafe, BuildTypeSafe, DocTypeSafe, PTL
=============================================================================
