--------------------------- MODULE DocPackProofs ---------------------------
(***************************************************************************)
(* Theorems about DocPack: its types, that no chain in a pack loops, that  *)
(* errors and packs exclude one another, and the revisor gate, for every   *)
(* corpus and every set of ids, topics and people.                         *)
(***************************************************************************)
EXTENDS DocPack, SequenceTheorems, TLAPS

InputKnown == input \in Inputs

\* A redirect is filed under the id it redirects from, and leads to an id.
RedirectsFiled ==
  \A id \in Id : redirects[id] # None =>
    /\ redirects[id].from \in Anchor
    /\ redirects[id].from.id = id
    /\ redirects[id].to \in Anchor
    /\ redirects[id].to.id \in Id

\* A collected topic has its identity to itself.
Identified ==
  /\ \A t \in topics : t.key # None /\ t.locale # None
  /\ \A t, u \in topics : t.key = u.key /\ t.locale = u.locale => t = u

\* Chains are walked in two of the passes only.
WalkInPass == walk # None => stage \in {"followRedirects", "followParents"}

TypeInv == InputKnown /\ TypeOK /\ RedirectsFiled /\ Identified /\ WalkInPass

-----------------------------------------------------------------------------
(* Faults report rules. *)

LEMMA InputTypes ==
  ASSUME InputKnown
  PROVE  /\ input.topics \in Seq(Topic)
         /\ input.redirects \in Seq(Redirect)
BY InputAssumption DEF InputKnown, Input

LEMMA MetaRules == ASSUME NEW t PROVE MetaFaults(t) \in SUBSET Rule
BY DEF MetaFaults, Fault, Rule

LEMMA ReviewRules == ASSUME NEW t PROVE ReviewFaults(t) \in SUBSET Rule
BY DEF ReviewFaults, Fault, Policy, Rule

LEMMA BodyRules == ASSUME NEW t PROVE BodyFaults(t) \in SUBSET Rule
BY DEF BodyFaults, Fault, Rule

LEMMA ReferenceRules == ASSUME NEW t PROVE ReferenceFaults(t) \in SUBSET Rule
BY DEF ReferenceFaults, Fault, Rule

LEMMA TranslationRules == ASSUME NEW t PROVE TranslationFaults(t) \in SUBSET Rule
BY DEF TranslationFaults, Fault, Rule

LEMMA TopicRules == ASSUME NEW t PROVE TopicFaults(t) \in SUBSET Rule
BY MetaRules, ReviewRules, BodyRules, ReferenceRules, TranslationRules DEF TopicFaults

LEMMA AnchorRules == ASSUME NEW t PROVE AnchorFaults(t) \in SUBSET Rule
BY DEF AnchorFaults, Fault, Rule

LEMMA CoverageRules == CoverageFaults \in SUBSET Rule
BY DEF CoverageFaults, Fault, Policy, Rule

-----------------------------------------------------------------------------
(* Lookups and chains stay within their types. *)

\* byRef finds the one topic of a key and locale.
LEMMA TopicFound ==
  ASSUME NEW k, NEW l, HasTopic(k, l)
  PROVE  TopicAt(k, l) \in topics /\ TopicAt(k, l).key = k /\ TopicAt(k, l).locale = l
BY DEF HasTopic, TopicAt

LEMMA TopicItself ==
  ASSUME Identified, NEW t \in topics
  PROVE  HasTopic(t.key, t.locale) /\ TopicAt(t.key, t.locale) = t
<1>1. HasTopic(t.key, t.locale)
  BY DEF HasTopic
<1>2. QED
  BY <1>1, TopicFound DEF Identified

\* A chain goes from node to node, of redirects or of topics as it began.
LEMMA OnwardNode ==
  ASSUME TypeInv, NEW n \in Node, Onward(n) # None
  PROVE  /\ Onward(n) \in Node
         /\ n \in Id \X {None} => Onward(n) \in Id \X {None} /\ n[1] \in Moved
         /\ n \in Key \X Locale => HasTopic(n[1], n[2]) /\ Onward(n) \in Key \X Locale
<1>1. CASE n \in Id \X {None}
  <2>1. n[1] \in Id /\ n[2] = None /\ n \notin Key \X Locale
    BY <1>1, InputAssumption
  <2>2. redirects[n[1]] # None /\ Onward(n) = <<redirects[n[1]].to.id, None>>
    BY <2>1 DEF Onward
  <2>3. QED
    BY <1>1, <2>1, <2>2 DEF TypeInv, RedirectsFiled, Node, Moved
<1>2. CASE n \in Key \X Locale
  <2>1. n[2] \in Locale /\ n[2] # None /\ n \notin Id \X {None}
    BY <1>2, InputAssumption
  <2>2. /\ HasTopic(n[1], n[2])
        /\ TopicAt(n[1], n[2]).parent # None
        /\ Onward(n) = <<TopicAt(n[1], n[2]).parent, n[2]>>
    BY <2>1 DEF Onward
  <2>3. TopicAt(n[1], n[2]) \in Topic
    BY <2>2, TopicFound DEF TypeInv, TypeOK
  <2>4. TopicAt(n[1], n[2]).parent \in Key
    BY <2>2, <2>3 DEF Topic
  <2>5. QED
    BY <2>1, <2>2, <2>4 DEF Node
<1>3. QED
  BY <1>1, <1>2 DEF Node

\* A walk that goes on is a walk.
LEMMA HopWalk ==
  ASSUME TypeInv, walk # None, Onward(walk.at) # None
  PROVE  [walk EXCEPT !.at = Onward(walk.at), !.seen = @ \union {Onward(walk.at)}] \in Walk
<1> DEFINE on == Onward(walk.at)
<1>1. walk \in Walk /\ walk.at \in Node
  BY DEF TypeInv, TypeOK, Walk
<1>2. on \in Node
  BY <1>1, OnwardNode
<1>3. walk.seen \union {on} \in SUBSET Node
  BY <1>1, <1>2 DEF Walk
<1> HIDE DEF on
<1>4. [walk EXCEPT !.at = on, !.seen = @ \union {on}] \in Walk
  BY <1>1, <1>2, <1>3 DEF Walk
<1>5. QED
  BY <1>4 DEF on

\* followRedirect ends at an id that is not redirected itself.
LEMMA TerminusId ==
  ASSUME TypeInv, NEW id \in Id, Terminus(id) # None
  PROVE  Terminus(id) \in Id /\ Terminus(id) \notin Moved
<1>1. CASE id \notin Moved
  BY <1>1 DEF Terminus
<1>2. CASE id \in Moved
  <2>1. Terminus(id) \in Ends(id)
    BY <1>2 DEF Terminus
  <2>2. PICK x \in Chain(id) : Terminus(id) = redirects[x].to.id
    BY <2>1 DEF Ends
  <2>3. x \in Id /\ redirects[x] # None
    BY DEF Chain, Moved
  <2>4. QED
    BY <2>1, <2>2, <2>3 DEF Ends, TypeInv, RedirectsFiled
<1>3. QED
  BY <1>1, <1>2

LEMMA AnchorTypes ==
  ASSUME TypeInv, NEW t \in topics
  PROVE  AnchorsOf(t) \subseteq Anchor
<1>1. t \in Topic
  BY DEF TypeInv, TypeOK
<1>2. t.anchors \subseteq Anchor /\ t.content \in Content
  BY <1>1 DEF Topic
<1>3. BodyOf[t.content] \in Body
  BY <1>2, InputAssumption
<1>4. BodyOf[t.content].anchors \subseteq Anchor
  BY <1>3 DEF Body
<1>5. QED
  BY <1>2, <1>4 DEF AnchorsOf

LEMMA ResolutionTypes ==
  ASSUME TypeInv, NEW t \in topics
  PROVE  Resolutions(t) \in SUBSET [topic : Topic, anchor : Anchor, id : Id]
<1>1. t \in Topic
  BY DEF TypeInv, TypeOK
<1>2. ASSUME NEW a \in AnchorsOf(t), Landing(a) # None
      PROVE  a \in Anchor /\ Landing(a) \in Id
  <2>1. a \in Anchor
    BY AnchorTypes
  <2>2. a.id # None /\ a.id \in Id
    BY <1>2, <2>1 DEF Landing, Anchor
  <2>3. QED
    BY <1>2, <2>1, <2>2, TerminusId DEF Landing
<1>3. QED
  BY <1>1, <1>2 DEF Resolutions

LEMMA AssembledPack == ASSUME TypeInv PROVE Assembled \in Pack
<1>1. \A t \in topics : t \in Topic /\ Status(t) \in {"source", "stale", "current"}
  BY DEF Status, TypeInv, TypeOK
<1>2. ASSUME NEW id \in Moved
      PROVE  /\ redirects[id].from \in Anchor /\ redirects[id].to \in Anchor
             /\ Terminus(id) \in Id \union {None}
  BY TerminusId DEF Moved, TypeInv, RedirectsFiled
<1>3. QED
  BY <1>1, <1>2 DEF Assembled, Pack, TypeInv, TypeOK

-----------------------------------------------------------------------------
(* Types. *)

LEMMA TypeInit == Init => TypeInv
<1> SUFFICES ASSUME Init PROVE TypeInv
  OBVIOUS
<1> USE DEF Init
<1>1. InputKnown
  BY DEF InputKnown
<1>2. TypeOK
  BY <1>1, InputTypes DEF TypeOK, Stage
<1>3. RedirectsFiled /\ Identified /\ WalkInPass
  BY DEF RedirectsFiled, Identified, WalkInPass
<1>4. QED
  BY <1>1, <1>2, <1>3 DEF TypeInv

LEMMA TypeStep == TypeInv /\ [Next]_vars => TypeInv'
<1> SUFFICES ASSUME TypeInv, [Next]_vars PROVE TypeInv'
  OBVIOUS
<1> USE DEF TypeInv, TypeOK, InputKnown, RedirectsFiled, Identified, WalkInPass
<1>1. CASE Load
  <2>1. Fault("unparsed", ~input.parses) \subseteq Rule
    BY DEF Fault, Rule
  <2>2. QED
    BY <1>1, <2>1 DEF Load, Goto, passed, Stage
<1>2. CASE LoadFails
  BY <1>2 DEF LoadFails, Goto, passed, Stage
<1>3. CASE CollectTopic
  <2> DEFINE t == Head(unread)
  <2>1. t \in Topic /\ unread' \in Seq(Topic)
    BY <1>3 DEF CollectTopic
  <2>2. topics' = topics \/ (topics' = topics \union {t} /\ t.key # None /\ t.locale # None
                             /\ ~HasTopic(t.key, t.locale))
    BY <1>3 DEF CollectTopic
  <2>3. topics' \in SUBSET Topic /\ topics \subseteq topics'
    BY <2>1, <2>2
  <2>4. Identified'
    BY <2>2 DEF HasTopic
  <2>5. errors' \in SUBSET Rule
    BY <1>3 DEF CollectTopic, Fault, Rule
  <2>6. QED
    BY <1>3, <2>1, <2>3, <2>4, <2>5 DEF CollectTopic, Stage
<1>4. CASE DeclareRedirect
  <2> DEFINE r == Head(undeclared)
  <2>1. r \in Redirect /\ undeclared' \in Seq(Redirect)
    BY <1>4 DEF DeclareRedirect
  <2>2. errors' \in SUBSET Rule
    BY <1>4 DEF DeclareRedirect, Rule
  <2>3. CASE SoundRedirect(r)
    <3>1. r.from \in Anchor /\ r.to \in Anchor /\ r.from.id \in Id /\ r.to.id \in Id
      BY <2>1, <2>3 DEF SoundRedirect, Redirect, Anchor
    <3>2. redirects' = [redirects EXCEPT ![r.from.id] = r]
      BY <1>4, <2>3 DEF DeclareRedirect
    <3>3. redirects' \in [Id -> Redirect \union {None}] /\ RedirectsFiled'
      BY <2>1, <3>1, <3>2
    <3>4. QED
      BY <1>4, <2>1, <2>2, <3>3 DEF DeclareRedirect, Stage
  <2>4. CASE ~SoundRedirect(r)
    BY <1>4, <2>1, <2>2, <2>4 DEF DeclareRedirect, Stage
  <2>5. QED
    BY <2>3, <2>4
<1>5. CASE Collected
  <2>1. unwalked' \in SUBSET Node
    BY <1>5 DEF Collected, Moved, Node
  <2>2. QED
    BY <1>5, <2>1 DEF Collected, Goto, Stage
<1>6. CASE SetOut
  <2>1. PICK n \in unwalked : walk' = [from |-> n, at |-> n, seen |-> {n}] /\ unwalked' = unwalked \ {n}
    BY <1>6 DEF SetOut
  <2>2. walk' \in Walk
    BY <2>1 DEF Walk
  <2>3. QED
    BY <1>6, <2>1, <2>2 DEF SetOut, Stage
<1>7. CASE Hop
  <2>1. errors' \in SUBSET Rule
    BY <1>7 DEF Hop, Rule
  <2>2. walk' \in Walk \union {None}
    BY <1>7, HopWalk DEF Hop
  <2>3. QED
    BY <1>7, <2>1, <2>2 DEF Hop
<1>8. CASE Arrive
  BY <1>8 DEF Arrive
<1>9. CASE Validate
  <2>1. errors' \in SUBSET Rule
    BY <1>9, TopicRules DEF Validate
  <2>2. ASSUME NEW t \in topics PROVE <<t.key, t.locale>> \in Node
    <3>1. t \in Topic /\ t.key # None /\ t.locale # None
      OBVIOUS
    <3>2. t.key \in Key /\ t.locale \in Locale
      BY <3>1 DEF Topic
    <3>3. QED
      BY <3>2 DEF Node
  <2>3. unwalked' \in SUBSET Node /\ stale' \in SUBSET topics'
    BY <1>9, <2>2 DEF Validate
  <2>4. QED
    BY <1>9, <2>1, <2>3 DEF Validate, Goto, Stage
<1>10. CASE ResolveAnchors
  <2>1. errors' \in SUBSET Rule
    BY <1>10, AnchorRules DEF ResolveAnchors
  <2>2. resolved' \in SUBSET [topic : Topic, anchor : Anchor, id : Id]
    BY <1>10, ResolutionTypes DEF ResolveAnchors
  <2>3. QED
    BY <1>10, <2>1, <2>2 DEF ResolveAnchors, Goto, Stage
<1>11. CASE CheckCoverage
  <2>1. errors' \in SUBSET Rule
    BY <1>11, CoverageRules DEF CheckCoverage
  <2>2. QED
    BY <1>11, <2>1 DEF CheckCoverage, Goto, passed, Stage
<1>12. CASE BuildPack
  BY <1>12, AssembledPack DEF BuildPack, passed, Stage
<1>13. CASE UNCHANGED vars
  BY <1>13 DEF vars, passed
<1>14. QED
  BY <1>1, <1>2, <1>3, <1>4, <1>5, <1>6, <1>7, <1>8, <1>9, <1>10, <1>11, <1>12, <1>13 DEF Next

(***************************************************************************)
(* A compilation keeps its types: what it collects, walks, resolves and    *)
(* reports is what docpack.Compile's fields may hold.                      *)
(***************************************************************************)
THEOREM TypeCorrect == Spec => []TypeOK
<1>1. TypeInv => TypeOK
  BY DEF TypeInv
<1>2. QED
  BY <1>1, TypeInit, TypeStep, PTL DEF Spec

LEMMA TypeInvariant == Spec => []TypeInv
BY TypeInit, TypeStep, PTL DEF Spec

\* Once collected, the corpus does not change.
LEMMA CorpusFixed ==
  ASSUME [Next]_vars, stage \notin {"load", "collect"}
  PROVE  /\ UNCHANGED <<input, topics, redirects>>
         /\ stage' \notin {"load", "collect"}
<1> USE DEF Goto, passed, vars
<1>1. CASE Load
  BY <1>1 DEF Load
<1>2. CASE LoadFails
  BY <1>2 DEF LoadFails
<1>3. CASE CollectTopic
  BY <1>3 DEF CollectTopic
<1>4. CASE DeclareRedirect
  BY <1>4 DEF DeclareRedirect
<1>5. CASE Collected
  BY <1>5 DEF Collected
<1>6. CASE SetOut \/ Hop \/ Arrive
  BY <1>6 DEF SetOut, Hop, Arrive
<1>7. CASE Validate
  BY <1>7 DEF Validate
<1>8. CASE ResolveAnchors
  BY <1>8 DEF ResolveAnchors
<1>9. CASE CheckCoverage
  BY <1>9 DEF CheckCoverage
<1>10. CASE BuildPack
  BY <1>10 DEF BuildPack
<1>11. CASE UNCHANGED vars
  BY <1>11
<1>12. QED
  BY <1>1, <1>2, <1>3, <1>4, <1>5, <1>6, <1>7, <1>8, <1>9, <1>10, <1>11 DEF Next

-----------------------------------------------------------------------------
(* Packs. *)

\* The pack of a compilation without errors is what its passes left behind.
PackInv ==
  /\ PackIffNoErrors
  /\ Built => pack = Assembled

LEMMA PackInit == Init => PackInv
BY DEF Init, PackInv, PackIffNoErrors, Built

LEMMA PackStep == PackInv /\ TypeInv /\ TypeInv' /\ [Next]_vars => PackInv'
<1> SUFFICES ASSUME PackInv, TypeInv, TypeInv', [Next]_vars PROVE PackInv'
  OBVIOUS
<1> USE DEF PackInv, PackIffNoErrors, Built, Goto, passed
<1>1. CASE Load \/ LoadFails
  BY <1>1 DEF Load, LoadFails
<1>2. CASE CollectTopic \/ DeclareRedirect \/ Collected
  BY <1>2 DEF CollectTopic, DeclareRedirect, Collected
<1>3. CASE SetOut \/ Hop \/ Arrive
  <2>1. stage \in {"followRedirects", "followParents"}
    BY <1>3 DEF SetOut, Hop, Arrive, TypeInv, WalkInPass
  <2>2. QED
    BY <1>3, <2>1 DEF SetOut, Hop, Arrive
<1>4. CASE Validate \/ ResolveAnchors
  BY <1>4 DEF Validate, ResolveAnchors
<1>5. CASE CheckCoverage
  BY <1>5 DEF CheckCoverage
<1>6. CASE BuildPack
  <2>1. pack' = (IF errors = {} THEN Assembled ELSE None) /\ errors' = errors /\ stage' = "done"
    BY <1>6 DEF BuildPack
  <2>2. Assembled' = Assembled
    BY <1>6 DEF BuildPack, Assembled, Status, Moved, Terminus, Ends, Chain
  <2>3. pack' # None <=> errors = {}
    BY <2>1, AssembledPack, InputAssumption
  <2>4. QED
    BY <2>1, <2>2, <2>3
<1>7. CASE UNCHANGED vars
  <2>1. Assembled' = Assembled
    BY <1>7 DEF vars, Assembled, Status, Moved, Terminus, Ends, Chain
  <2>2. stage' = stage /\ errors' = errors /\ pack' = pack
    BY <1>7 DEF vars
  <2>3. QED
    BY <2>1, <2>2
<1>8. QED
  BY <1>1, <1>2, <1>3, <1>4, <1>5, <1>6, <1>7 DEF Next

(***************************************************************************)
(* Compile returns a pack exactly if it reports no error, even one that    *)
(* coverage finds after every other pass was clean: Result.                *)
(***************************************************************************)
THEOREM NoPackWithErrors == Spec => []PackIffNoErrors
<1>1. PackInv => PackIffNoErrors
  BY DEF PackInv
<1>2. QED
  BY <1>1, TypeInvariant, PackInit, PackStep, PTL DEF Spec

LEMMA PackInvariant == Spec => []PackInv
BY TypeInvariant, PackInit, PackStep, PTL DEF Spec

\* What a pack holds, in terms of the compilation's own state.
LEMMA PackContents ==
  ASSUME PackInv, Built
  PROVE  /\ PackedTopics = topics
         /\ pack.anchors = resolved
         /\ \A q \in pack.redirects : \E id \in Moved : q.from = redirects[id].from
         /\ \A p \in pack.topics : p.topic \in topics /\ p.status = Status(p.topic)
<1>1. pack = Assembled
  BY DEF PackInv
<1>2. /\ pack.topics = {[topic |-> t, status |-> Status(t)] : t \in topics}
      /\ pack.anchors = resolved
      /\ pack.redirects = {[from |-> redirects[id].from, to |-> redirects[id].to,
                            terminus |-> Terminus(id)] : id \in Moved}
  BY <1>1 DEF Assembled
<1>3. PackedTopics = topics
  <2>1. ASSUME NEW t \in topics PROVE \E p \in pack.topics : p.topic = t
    <3>1. [topic |-> t, status |-> Status(t)] \in pack.topics
      BY <1>2
    <3>2. QED
      BY <3>1
  <2>2. \A p \in pack.topics : p.topic \in topics
    BY <1>2
  <2>3. QED
    BY <2>1, <2>2 DEF PackedTopics
<1>4. \A p \in pack.topics : p.topic \in topics /\ p.status = Status(p.topic)
  BY <1>2
<1>5. \A q \in pack.redirects : \E id \in Moved : q.from = redirects[id].from
  BY <1>2
<1>6. QED
  BY <1>2, <1>3, <1>4, <1>5

-----------------------------------------------------------------------------
(* The rules within and across topics. *)

\* No error, no fault: what validateTopic and validateCrossTopic found in a
\* topic is still among the errors when the pack is built.
Validated ==
  stage \in {"followParents", "coverage", "build", "done"} /\ errors = {} =>
    /\ \A t \in topics : TopicFaults(t) = {}
    /\ stale = {t \in topics : Drifted(t)}

LEMMA FaultsFixed ==
  ASSUME UNCHANGED <<input, topics, redirects>>
  PROVE  /\ \A t \in topics : TopicFaults(t)' = TopicFaults(t)
         /\ {t \in topics : Drifted(t)}' = {t \in topics : Drifted(t)}
         /\ \A n : Onward(n)' = Onward(n)
BY DEF TopicFaults, MetaFaults, ReviewFaults, BodyFaults, ReferenceFaults, TranslationFaults,
       Drifted, Dangling, HasTopic, HasKey, TopicAt, Headings, Policy, Fault, BadHeadings, Onward

LEMMA ValidatedInit == Init => Validated
BY DEF Init, Validated

LEMMA ValidatedStep == Validated /\ TypeInv /\ [Next]_vars => Validated'
<1> SUFFICES ASSUME Validated, TypeInv, [Next]_vars,
                    stage' \in {"followParents", "coverage", "build", "done"}, errors' = {}
             PROVE  (\A t \in topics : TopicFaults(t) = {})' /\ (stale = {t \in topics : Drifted(t)})'
  BY DEF Validated
<1> USE DEF Goto, passed
<1>1. CASE Load \/ LoadFails \/ CollectTopic \/ DeclareRedirect \/ Collected
  BY <1>1 DEF Load, LoadFails, CollectTopic, DeclareRedirect, Collected
<1>2. CASE Validate
  <2>1. UNCHANGED <<input, topics, redirects>>
    BY <1>2 DEF Validate
  <2>2. \A t \in topics : TopicFaults(t) \subseteq errors'
    BY <1>2 DEF Validate
  <2>3. stale' = {t \in topics : Drifted(t)}
    BY <1>2 DEF Validate
  <2>4. QED
    BY <2>1, <2>2, <2>3, FaultsFixed
<1>3. CASE \/ SetOut \/ Hop \/ Arrive \/ ResolveAnchors \/ CheckCoverage \/ BuildPack
           \/ UNCHANGED vars
  <2>1. UNCHANGED <<input, topics, redirects>> /\ stale' = stale
    BY <1>3 DEF SetOut, Hop, Arrive, ResolveAnchors, CheckCoverage, BuildPack, vars
  <2>2. stage \in {"followParents", "coverage", "build", "done"} /\ errors = {}
    <3>1. CASE SetOut \/ Hop \/ Arrive
      BY <3>1 DEF SetOut, Hop, Arrive
    <3>2. CASE ResolveAnchors
      BY <3>2 DEF ResolveAnchors
    <3>3. CASE CheckCoverage
      BY <3>3 DEF CheckCoverage
    <3>4. CASE BuildPack \/ UNCHANGED vars
      BY <3>4 DEF BuildPack, vars
    <3>5. QED
      BY <1>3, <3>1, <3>2, <3>3, <3>4
  <2>3. (\A t \in topics : TopicFaults(t) = {}) /\ stale = {t \in topics : Drifted(t)}
    BY <2>2 DEF Validated
  <2>4. QED
    BY <2>1, <2>3, FaultsFixed
<1>4. QED
  BY <1>1, <1>2, <1>3 DEF Next

LEMMA ValidatedInvariant == Spec => []Validated
BY TypeInvariant, ValidatedInit, ValidatedStep, PTL DEF Spec

(***************************************************************************)
(* The revisor gate: what a release ships, someone other than its author   *)
(* approved as it stands.  validateReview saw each topic once, and the     *)
(* topic it saw is the one in the pack.                                    *)
(***************************************************************************)
THEOREM GateHolds == Spec => []ReleasedApproved
<1>1. TypeInv /\ PackInv /\ Validated => ReleasedApproved
  <2> SUFFICES ASSUME TypeInv, PackInv, Validated, Built, input.release, NEW t \in PackedTopics
               PROVE  /\ t.review.state = "approved"
                      /\ t.review.revisor \in Person \ {t.review.author}
                      /\ t.review.digest = t.content
                      /\ t.audience # 0
    BY DEF ReleasedApproved
  <2>1. t \in topics
    BY PackContents
  <2>2. TopicFaults(t) = {}
    BY <2>1 DEF Validated, Built
  <2>3. MetaFaults(t) = {} /\ ReviewFaults(t) = {}
    BY <2>2 DEF TopicFaults
  <2>4. t.audience # 0
    BY <2>3 DEF MetaFaults, Fault
  <2>5. t.review.state = "approved" /\ t.review.digest \in {None, t.content}
    BY <2>3 DEF ReviewFaults, Fault, Policy
  <2>6. /\ t.review.revisor # None /\ t.review.digest # None
        /\ t.review.revisor # t.review.author
    BY <2>3, <2>5 DEF ReviewFaults, Fault
  <2>7. t.review.revisor \in Person \union {None}
    BY <2>1 DEF TypeInv, TypeOK, Topic, Review
  <2>8. QED
    BY <2>4, <2>5, <2>6, <2>7
<1>2. QED
  BY <1>1, TypeInvariant, PackInvariant, ValidatedInvariant, PTL

(***************************************************************************)
(* A link in a pack goes to a topic of the same locale, and to a heading   *)
(* that topic has.                                                         *)
(***************************************************************************)
THEOREM NoDanglingLink == Spec => []LinksLand
<1>1. TypeInv /\ PackInv /\ Validated => LinksLand
  <2> SUFFICES ASSUME TypeInv, PackInv, Validated, Built, NEW t \in PackedTopics,
                      NEW link \in BodyOf[t.content].links
               PROVE  \E u \in PackedTopics :
                        /\ u.key = link.key /\ u.locale = t.locale
                        /\ link.fragment # None =>
                             \E i \in DOMAIN BodyOf[u.content].headings :
                               BodyOf[u.content].headings[i].id = link.fragment
    BY DEF LinksLand
  <2>1. t \in topics /\ PackedTopics = topics
    BY PackContents
  <2>2. TopicFaults(t) = {}
    BY <2>1 DEF Validated, Built
  <2>3. ReferenceFaults(t) = {}
    BY <2>2 DEF TopicFaults
  <2>4. ~Dangling(t, link)
    BY <2>3 DEF ReferenceFaults, Fault
  <2> DEFINE u == TopicAt(link.key, t.locale)
  <2>5. HasTopic(link.key, t.locale)
    BY <2>4 DEF Dangling
  <2>6. u \in topics /\ u.key = link.key /\ u.locale = t.locale
    BY <2>5, TopicFound
  <2>7. link.fragment # None => link.fragment \in Headings(u)
    BY <2>4 DEF Dangling
  <2>8. QED
    BY <2>1, <2>6, <2>7 DEF Headings
<1>2. QED
  BY <1>1, TypeInvariant, PackInvariant, ValidatedInvariant, PTL

(***************************************************************************)
(* A reader is told a translation is current exactly if it was made from   *)
(* what the source topic now says.                                         *)
(***************************************************************************)
THEOREM StaleTranslationsMarked == Spec => []StatusTrue
<1>1. TypeInv /\ PackInv /\ Validated => StatusTrue
  <2> SUFFICES ASSUME TypeInv, PackInv, Validated, Built, NEW p \in pack.topics,
                      p.topic.locale # SourceLocale
               PROVE  \E source \in PackedTopics :
                        /\ source.key = p.topic.key /\ source.locale = SourceLocale
                        /\ p.status = (IF p.topic.translation = source.content
                                       THEN "current" ELSE "stale")
    BY DEF StatusTrue
  <2> DEFINE t == p.topic
             source == TopicAt(t.key, SourceLocale)
  <2>1. t \in topics /\ p.status = Status(t) /\ PackedTopics = topics
    BY PackContents
  <2>2. TranslationFaults(t) = {} /\ stale = {x \in topics : Drifted(x)}
    BY <2>1 DEF Validated, Built, TopicFaults
  <2>3. HasTopic(t.key, SourceLocale)
    BY <2>2 DEF TranslationFaults, Fault
  <2>4. t.translation \notin {None, "undigested"} /\ t.translation # Garbled
    BY <2>2, <2>3 DEF TranslationFaults, Fault
  <2>5. t.translation \in Content
    BY <2>1, <2>4 DEF TypeInv, TypeOK, Topic
  <2>6. source \in topics /\ source.key = t.key /\ source.locale = SourceLocale
    BY <2>3, TopicFound
  <2>7. t \in stale <=> t.translation # source.content
    BY <2>1, <2>2, <2>3, <2>5 DEF Drifted
  <2>8. p.status = IF t.translation = source.content THEN "current" ELSE "stale"
    BY <2>1, <2>7 DEF Status
  <2>9. QED
    BY <2>1, <2>6, <2>8
<1>2. QED
  BY <1>1, TypeInvariant, PackInvariant, ValidatedInvariant, PTL

-----------------------------------------------------------------------------
(* Chains. *)

\* A set of links each of which leads on within the set: a cycle, or several.
Loop(S) == S # {} /\ \A n \in S : Onward(n) # None /\ Onward(n) \in S

\* A loop not reported yet is still to be walked, or the walk is inside it.
Awaited(S) ==
  /\ S \subseteq unwalked \union {n \in Node : walk # None /\ walk.from = n}
  /\ walk # None /\ walk.from \in S => walk.at \in S

\* Redirects are walked first, then parents; afterwards no loop is left.
LoopsFound ==
  errors = {} =>
    \A S \in SUBSET Node : Loop(S) =>
      /\ stage = "followRedirects" /\ S \subseteq Id \X {None} => Awaited(S)
      /\ stage = "followParents" => S \intersect (Id \X {None}) = {} /\ Awaited(S)
      /\ stage \notin {"coverage", "build", "done"}

\* With every chain walked, nothing is awaited.
LEMMA NothingAwaited ==
  ASSUME walk = None, unwalked = {}, NEW S, S # {}
  PROVE  ~Awaited(S)
BY DEF Awaited

\* The redirects of a loop are a loop of their own.
LEMMA RedirectLoop ==
  ASSUME TypeInv, NEW S \in SUBSET Node, Loop(S), S \intersect (Id \X {None}) # {}
  PROVE  Loop(S \intersect (Id \X {None}))
BY OnwardNode DEF Loop

LEMMA LoopsFixed ==
  ASSUME UNCHANGED <<topics, redirects>>, NEW S
  PROVE  Loop(S)' <=> Loop(S)
BY DEF Loop, Onward, HasTopic, TopicAt

LEMMA LoopsInit == Init => LoopsFound
BY DEF Init, LoopsFound

LEMMA LoopsStep == LoopsFound /\ TypeInv /\ [Next]_vars => LoopsFound'
<1> SUFFICES ASSUME LoopsFound, TypeInv, [Next]_vars, errors' = {},
                    NEW S \in SUBSET Node, Loop(S)'
             PROVE  /\ stage' = "followRedirects" /\ S \subseteq Id \X {None} => Awaited(S)'
                    /\ stage' = "followParents" => S \intersect (Id \X {None}) = {} /\ Awaited(S)'
                    /\ stage' \notin {"coverage", "build", "done"}
  BY DEF LoopsFound
<1> USE DEF Goto, passed
<1>1. CASE Load \/ LoadFails \/ CollectTopic \/ DeclareRedirect
  BY <1>1 DEF Load, LoadFails, CollectTopic, DeclareRedirect
<1>2. CASE Collected
  <2>1. Loop(S)
    BY <1>2, LoopsFixed DEF Collected
  <2>2. S \subseteq Id \X {None} => S \subseteq unwalked'
    <3>1. ASSUME NEW n \in S, n \in Id \X {None} PROVE n \in Moved \X {None}
      BY <2>1, <3>1, OnwardNode DEF Loop
    <3>2. QED
      BY <1>2, <3>1 DEF Collected
  <2>3. walk' = None /\ stage' = "followRedirects"
    BY <1>2 DEF Collected, TypeInv, WalkInPass
  <2>4. QED
    BY <2>2, <2>3 DEF Awaited
<1>3. CASE SetOut
  <2>1. Loop(S)
    BY <1>3, LoopsFixed DEF SetOut
  <2>2. PICK n \in unwalked : walk' = [from |-> n, at |-> n, seen |-> {n}] /\ unwalked' = unwalked \ {n}
    BY <1>3 DEF SetOut
  <2>3. walk = None /\ n \in Node /\ walk' # None /\ walk'.from = n /\ walk'.at = n
    BY <1>3, <2>2, InputAssumption DEF SetOut, TypeInv, TypeOK, Walk
  <2>4. Awaited(S) => Awaited(S)'
    BY <2>2, <2>3 DEF Awaited
  <2>5. QED
    BY <1>3, <2>1, <2>4 DEF SetOut, LoopsFound
<1>4. CASE Hop
  <2>1. Loop(S)
    BY <1>4, LoopsFixed DEF Hop
  <2>2. Onward(walk.at) \notin walk.seen
    BY <1>4 DEF Hop
  <2>3. walk \in Walk /\ walk' = [walk EXCEPT !.at = Onward(walk.at), !.seen = @ \union {Onward(walk.at)}]
    BY <1>4, <2>2 DEF Hop, TypeInv, TypeOK
  <2>4. walk' # None /\ walk'.from = walk.from /\ walk'.at = Onward(walk.at)
    <3>1. walk' \in Walk
      BY <1>4, <2>3, HopWalk DEF Hop
    <3>2. QED
      BY <2>3, <3>1, InputAssumption DEF Walk
  <2>5. Awaited(S) => Awaited(S)'
    BY <1>4, <2>1, <2>4 DEF Awaited, Hop, Loop
  <2>6. errors = {} /\ stage' = stage
    BY <1>4 DEF Hop
  <2>7. QED
    BY <2>1, <2>5, <2>6 DEF LoopsFound
<1>5. CASE Arrive
  <2>1. Loop(S)
    BY <1>5, LoopsFixed DEF Arrive
  <2>2. walk # None /\ walk.at \notin S /\ walk' = None /\ unwalked' = unwalked
    BY <1>5, <2>1 DEF Arrive, Loop
  <2>3. Awaited(S) => Awaited(S)'
    BY <2>2 DEF Awaited
  <2>4. errors = {} /\ stage' = stage
    BY <1>5 DEF Arrive
  <2>5. QED
    BY <2>1, <2>3, <2>4 DEF LoopsFound
<1>6. CASE Validate
  <2>1. Loop(S)
    BY <1>6, LoopsFixed DEF Validate
  <2>2. errors = {} /\ walk = None /\ unwalked = {} /\ stage = "followRedirects"
    BY <1>6 DEF Validate
  <2>3. S \intersect (Id \X {None}) = {}
    <3> DEFINE R == S \intersect (Id \X {None})
    <3> SUFFICES ASSUME R # {} PROVE FALSE
      OBVIOUS
    <3>1. Loop(R)
      BY <2>1, RedirectLoop
    <3>2. Awaited(R)
      BY <2>2, <3>1 DEF LoopsFound
    <3>3. QED
      BY <2>2, <3>2, NothingAwaited
  <2>4. ASSUME NEW n \in S PROVE n \in unwalked'
    <3>1. n \in Key \X Locale
      BY <2>3 DEF Node
    <3>2. HasTopic(n[1], n[2])
      BY <2>1, <3>1, OnwardNode DEF Loop
    <3>3. PICK t \in topics : t.key = n[1] /\ t.locale = n[2]
      BY <3>2 DEF HasTopic
    <3>4. n = <<t.key, t.locale>>
      BY <3>1, <3>3
    <3>5. QED
      BY <1>6, <3>4 DEF Validate
  <2>5. stage' = "followParents" /\ walk' = None
    BY <1>6 DEF Validate
  <2>6. QED
    BY <2>3, <2>4, <2>5 DEF Awaited
<1>7. CASE ResolveAnchors
  <2>1. Loop(S) /\ S # {}
    BY <1>7, LoopsFixed DEF ResolveAnchors, Loop
  <2>2. errors = {} /\ walk = None /\ unwalked = {} /\ stage = "followParents"
    BY <1>7 DEF ResolveAnchors
  <2>3. Awaited(S)
    BY <2>1, <2>2 DEF LoopsFound
  <2>4. QED
    BY <2>1, <2>2, <2>3, NothingAwaited
<1>8. CASE CheckCoverage \/ BuildPack \/ UNCHANGED vars
  <2>1. UNCHANGED <<topics, redirects, walk, unwalked>>
    BY <1>8 DEF CheckCoverage, BuildPack, vars
  <2>2. Loop(S)
    BY <2>1, LoopsFixed
  <2>3. errors = {} /\ (stage' = stage \/ stage \in {"coverage", "build"})
    BY <1>8 DEF CheckCoverage, BuildPack, vars
  <2>4. Awaited(S) => Awaited(S)'
    BY <2>1 DEF Awaited
  <2>5. QED
    BY <2>2, <2>3, <2>4 DEF LoopsFound
<1>9. QED
  BY <1>1, <1>2, <1>3, <1>4, <1>5, <1>6, <1>7, <1>8 DEF Next

LEMMA LoopsInvariant == Spec => []LoopsFound
BY TypeInvariant, LoopsInit, LoopsStep, PTL DEF Spec

(***************************************************************************)
(* No consumer of a pack can loop: followRedirect and validateParentChain, *)
(* each over every start, leave no cycle among redirects or parents.       *)
(***************************************************************************)
THEOREM NoCycleInPack == Spec => []ChainsEnd
<1>1. LoopsFound => ChainsEnd
  BY DEF LoopsFound, ChainsEnd, Built, Loop, Leads
<1>2. QED
  BY <1>1, LoopsInvariant, PTL

-----------------------------------------------------------------------------
(* Anchors. *)

\* After resolveAnchors, an anchor is among the resolved or an error.
AnchorsResolved ==
  stage \in {"coverage", "build", "done"} /\ errors = {} =>
    /\ resolved = UNION {Resolutions(t) : t \in topics}
    /\ \A t \in topics : AnchorFaults(t) = {}

LEMMA ResolutionsFixed ==
  ASSUME UNCHANGED <<input, topics, redirects>>
  PROVE  /\ (UNION {Resolutions(t) : t \in topics})' = UNION {Resolutions(t) : t \in topics}
         /\ \A t \in topics : AnchorFaults(t)' = AnchorFaults(t)
BY DEF Resolutions, AnchorFaults, AnchorsOf, Landing, Terminus, Ends, Chain, Moved,
       Targets, MayPointAt, AudienceRank, HasTopic, TopicAt, Fault

LEMMA AnchorsInit == Init => AnchorsResolved
BY DEF Init, AnchorsResolved

LEMMA AnchorsStep == AnchorsResolved /\ TypeInv /\ [Next]_vars => AnchorsResolved'
<1> SUFFICES ASSUME AnchorsResolved, TypeInv, [Next]_vars,
                    stage' \in {"coverage", "build", "done"}, errors' = {}
             PROVE  /\ resolved' = (UNION {Resolutions(t) : t \in topics})'
                    /\ (\A t \in topics : AnchorFaults(t) = {})'
  BY DEF AnchorsResolved
<1> USE DEF Goto, passed
<1>1. CASE Load \/ LoadFails \/ CollectTopic \/ DeclareRedirect \/ Collected
  BY <1>1 DEF Load, LoadFails, CollectTopic, DeclareRedirect, Collected
<1>2. CASE SetOut \/ Hop \/ Arrive \/ Validate
  BY <1>2 DEF SetOut, Hop, Arrive, Validate, TypeInv, WalkInPass
<1>3. CASE ResolveAnchors
  <2>1. UNCHANGED <<input, topics, redirects>> /\ resolved' = UNION {Resolutions(t) : t \in topics}
    BY <1>3 DEF ResolveAnchors
  <2>2. \A t \in topics : AnchorFaults(t) \subseteq errors'
    BY <1>3 DEF ResolveAnchors
  <2>3. QED
    BY <2>1, <2>2, ResolutionsFixed
<1>4. CASE CheckCoverage \/ BuildPack \/ UNCHANGED vars
  <2>1. UNCHANGED <<input, topics, redirects, resolved>>
    BY <1>4 DEF CheckCoverage, BuildPack, vars
  <2>2. stage \in {"coverage", "build", "done"} /\ errors = {}
    BY <1>4 DEF CheckCoverage, BuildPack, vars
  <2>3. resolved = UNION {Resolutions(t) : t \in topics} /\ \A t \in topics : AnchorFaults(t) = {}
    BY <2>2 DEF AnchorsResolved
  <2>4. QED
    BY <2>1, <2>3, ResolutionsFixed
<1>5. QED
  BY <1>1, <1>2, <1>3, <1>4 DEF Next

LEMMA AnchorsInvariant == Spec => []AnchorsResolved
BY TypeInvariant, AnchorsInit, AnchorsStep, PTL DEF Spec

\* Without a cycle, every chain of redirects has an end.
LEMMA ChainsHaveEnds ==
  ASSUME TypeInv, LoopsFound, Built, NEW id \in Id
  PROVE  Terminus(id) # None
<1>1. CASE id \notin Moved
  BY <1>1, InputAssumption DEF Terminus
<1>2. CASE id \in Moved /\ Ends(id) # {}
  <2>1. Ends(id) \subseteq Id
    BY DEF Ends, Chain, Moved, TypeInv, RedirectsFiled
  <2>2. Terminus(id) \in Ends(id)
    BY <1>2 DEF Terminus
  <2>3. QED
    BY <2>1, <2>2, InputAssumption
<1>3. CASE id \in Moved /\ Ends(id) = {}
  <2> DEFINE S == Chain(id) \X {None}
  <2>1. id \in Chain(id) /\ Chain(id) \subseteq Moved
    BY <1>3 DEF Chain
  <2>2. S \in SUBSET Node
    BY <2>1 DEF Moved, Node
  <2>3. ASSUME NEW x \in Chain(id) PROVE redirects[x].to.id \in Chain(id)
    <3>1. redirects[x].to.id \in Moved
      BY <1>3 DEF Ends
    <3>2. QED
      BY <3>1 DEF Chain
  <2>4. ASSUME NEW n \in S PROVE Onward(n) # None /\ Onward(n) \in S
    <3>1. n[1] \in Chain(id) /\ n[2] = None /\ redirects[n[1]] # None /\ n \in Node /\ n[1] \in Id
      BY <2>1, <2>2 DEF Moved
    <3>2. Onward(n) = <<redirects[n[1]].to.id, None>>
      BY <3>1 DEF Onward
    <3>3. Onward(n) \in S
      BY <2>3, <3>1, <3>2
    <3>4. Onward(n) # None
      BY <2>2, <3>3, InputAssumption
    <3>5. QED
      BY <3>3, <3>4
  <2>5. Loop(S)
    <3>1. <<id, None>> \in S
      BY <2>1
    <3>2. QED
      BY <2>4, <3>1 DEF Loop
  <2>6. QED
    BY <2>2, <2>5 DEF LoopsFound, Built
<1>4. QED
  BY <1>1, <1>2, <1>3

\* In a pack every anchor is resolved to where it lands, and lands in the
\* input that owns its kind.
LEMMA AnchorLands ==
  ASSUME TypeInv, LoopsFound, AnchorsResolved, Built, NEW t \in topics, NEW a \in AnchorsOf(t)
  PROVE  /\ Landing(a) \in Id \ Moved
         /\ Targets(t, a.kind, Landing(a))
         /\ [topic |-> t, anchor |-> a, id |-> Landing(a)] \in resolved
<1>1. AnchorFaults(t) = {}
  BY DEF AnchorsResolved, Built
<1>2. a \in Anchor
  BY AnchorTypes
<1>3. a.id # None
  BY <1>1 DEF AnchorFaults, Fault
<1>4. a.id \in Id
  BY <1>2, <1>3 DEF Anchor
<1>5. Landing(a) = Terminus(a.id) /\ Landing(a) # None
  BY <1>3, <1>4, ChainsHaveEnds DEF Landing
<1>6. Targets(t, a.kind, Landing(a))
  BY <1>1, <1>5 DEF AnchorFaults, Fault
<1>7. [topic |-> t, anchor |-> a, id |-> Landing(a)] \in Resolutions(t)
  BY <1>5, <1>6 DEF Resolutions
<1>8. QED
  BY <1>4, <1>5, <1>6, <1>7, TerminusId DEF AnchorsResolved, Built

(***************************************************************************)
(* A pack has no dangling anchor: resolveAnchors leaves each one at its id *)
(* or at the end of the redirects from it, redirected no further, and the  *)
(* input that owns the anchor's kind has what is there: a name or path of  *)
(* the image, a widget, member, common prop or transition of the catalog,  *)
(* a topic of the reader's locale.                                         *)
(***************************************************************************)
THEOREM NoDanglingAnchor == Spec => []AnchorsLand
<1> DEFINE Owned(t, a, id) ==
      /\ a.kind = "topic" => \E u \in PackedTopics : u.key = id /\ u.locale = t.locale
      /\ a.kind \in {"schema", "descriptor"} => input.image # None
      /\ a.kind = "schema" => id \in input.image.names
      /\ a.kind = "descriptor" => id \in input.image.paths
      /\ a.kind \in {"widget", "transition"} => input.catalog # None
      /\ a.kind = "widget" =>
           id \in input.catalog.widgets \union input.catalog.members \union input.catalog.common
      /\ a.kind = "transition" => id \in input.catalog.transitions
<1>1. TypeInv /\ PackInv /\ LoopsFound /\ AnchorsResolved => AnchorsLand
  <2> SUFFICES ASSUME TypeInv, PackInv, LoopsFound, AnchorsResolved, Built,
                      NEW t \in PackedTopics, NEW a \in AnchorsOf(t)
               PROVE  \E r \in pack.anchors :
                        /\ r.topic = t /\ r.anchor = a
                        /\ r.id # a.id =>
                             \E q \in pack.redirects : q.from.id = a.id /\ q.terminus = r.id
                        /\ \A q \in pack.redirects : q.from.id # r.id
                        /\ Owned(t, a, r.id)
    BY DEF AnchorsLand
  <2> DEFINE r == [topic |-> t, anchor |-> a, id |-> Landing(a)]
  <2>1. t \in topics /\ PackedTopics = topics /\ pack.anchors = resolved
    BY PackContents
  <2>2. /\ Landing(a) \in Id \ Moved
        /\ Targets(t, a.kind, Landing(a))
        /\ r \in pack.anchors
    BY <2>1, AnchorLands
  <2>3. ASSUME NEW q \in pack.redirects PROVE q.from.id \in Moved
    <3>1. PICK id \in Moved : q.from = redirects[id].from
      BY PackContents
    <3>2. QED
      BY <3>1 DEF Moved, TypeInv, RedirectsFiled
  <2>4. a.kind = "topic" => \E u \in topics : u.key = Landing(a) /\ u.locale = t.locale
    BY <2>2 DEF Targets, HasTopic
  <2>5. Owned(t, a, Landing(a))
    BY <2>1, <2>2, <2>4 DEF Targets
  <2>6. ASSUME Landing(a) # a.id
        PROVE  \E q \in pack.redirects : q.from.id = a.id /\ q.terminus = Landing(a)
    <3>1. a.id # None /\ Landing(a) = Terminus(a.id)
      BY <2>2, InputAssumption DEF Landing
    <3>2. a.id \in Moved
      BY <2>6, <3>1 DEF Terminus
    <3>3. [from |-> redirects[a.id].from, to |-> redirects[a.id].to, terminus |-> Terminus(a.id)]
            \in pack.redirects
      BY <3>2 DEF PackInv, Built, Assembled
    <3>4. redirects[a.id].from.id = a.id
      BY <3>2 DEF Moved, TypeInv, RedirectsFiled
    <3>5. QED
      BY <3>1, <3>3, <3>4
  <2> HIDE DEF r, Owned
  <2>7. r.topic = t /\ r.anchor = a /\ r.id = Landing(a)
    BY DEF r
  <2>8. QED
    BY <2>2, <2>3, <2>5, <2>6, <2>7
<1>2. QED
  BY <1>1, TypeInvariant, PackInvariant, LoopsInvariant, AnchorsInvariant, PTL

(***************************************************************************)
(* A topic never anchors a topic its reader may not see, whichever         *)
(* redirects the anchor goes through: checkAudience.                       *)
(***************************************************************************)
THEOREM NoAnchorUpward == Spec => []AnchorsKeepAudience
<1>1. TypeInv /\ PackInv /\ AnchorsResolved => AnchorsKeepAudience
  <2> SUFFICES ASSUME TypeInv, PackInv, AnchorsResolved, Built,
                      NEW r \in pack.anchors, r.anchor.kind = "topic",
                      NEW u \in PackedTopics, u.key = r.id, u.locale = r.topic.locale
               PROVE  AudienceRank(u) <= AudienceRank(r.topic)
    BY DEF AnchorsKeepAudience
  <2>1. u \in topics /\ r \in resolved
    BY PackContents
  <2>2. PICK t \in topics : r \in Resolutions(t)
    BY <2>1 DEF AnchorsResolved, Built
  <2>3. PICK a \in AnchorsOf(t) : /\ r = [topic |-> t, anchor |-> a, id |-> Landing(a)]
                                  /\ Targets(t, a.kind, Landing(a))
    BY <2>2 DEF Resolutions
  <2>4. r.topic = t /\ r.anchor = a /\ r.id = Landing(a)
    BY <2>3
  <2>5. MayPointAt(t, TopicAt(r.id, t.locale))
    BY <2>3, <2>4 DEF Targets
  <2>6. TopicAt(r.id, t.locale) = u
    BY <2>1, <2>4, TopicItself DEF TypeInv
  <2>7. QED
    BY <2>4, <2>5, <2>6 DEF MayPointAt
<1>2. QED
  BY <1>1, TypeInvariant, PackInvariant, AnchorsInvariant, PTL

-----------------------------------------------------------------------------
(* Coverage. *)

Covered == stage \in {"build", "done"} /\ errors = {} => CoverageFaults = {}

LEMMA CoverageFixed ==
  ASSUME UNCHANGED <<input, resolved>>
  PROVE  CoverageFaults' = CoverageFaults
BY DEF CoverageFaults, Policy, Fault, Surface, Documents, AudienceRank

LEMMA CoveredInit == Init => Covered
BY DEF Init, Covered

LEMMA CoveredStep == Covered /\ TypeInv /\ [Next]_vars => Covered'
<1> SUFFICES ASSUME Covered, TypeInv, [Next]_vars, stage' \in {"build", "done"}, errors' = {}
             PROVE  CoverageFaults' = {}
  BY DEF Covered
<1> USE DEF Goto, passed
<1>1. CASE Load \/ LoadFails \/ CollectTopic \/ DeclareRedirect \/ Collected
  BY <1>1 DEF Load, LoadFails, CollectTopic, DeclareRedirect, Collected
<1>2. CASE SetOut \/ Hop \/ Arrive \/ Validate \/ ResolveAnchors
  BY <1>2 DEF SetOut, Hop, Arrive, Validate, ResolveAnchors, TypeInv, WalkInPass
<1>3. CASE CheckCoverage
  <2>1. CoverageFaults = {} /\ UNCHANGED <<input, resolved>>
    BY <1>3 DEF CheckCoverage
  <2>2. QED
    BY <2>1, CoverageFixed
<1>4. CASE BuildPack \/ UNCHANGED vars
  <2>1. CoverageFaults = {} /\ UNCHANGED <<input, resolved>>
    BY <1>4 DEF BuildPack, vars, Covered
  <2>2. QED
    BY <2>1, CoverageFixed
<1>5. QED
  BY <1>1, <1>2, <1>3, <1>4 DEF Next

LEMMA CoveredInvariant == Spec => []Covered
BY TypeInvariant, CoveredInit, CoveredStep, PTL DEF Spec

(***************************************************************************)
(* Under --coverage a release documents, to the public, every widget and   *)
(* @http method it was compiled against; under --coverage-approved in a    *)
(* topic someone approved as it stands: checkCoverage asks for an approved *)
(* state only, and the revisor gate has held the digest against the topic. *)
(***************************************************************************)
THEOREM ReleasesCovered == Spec => []ReleaseCovers
<1>1. TypeInv /\ PackInv /\ Validated /\ AnchorsResolved /\ Covered => ReleaseCovers
  <2> SUFFICES ASSUME TypeInv, PackInv, Validated, AnchorsResolved, Covered, Built,
                      input.release, input.coverage # None,
                      NEW id \in (IF input.catalog = None THEN {} ELSE input.catalog.widgets)
                                 \union (IF input.image = None THEN {} ELSE input.image.methods)
               PROVE  \E r \in pack.anchors :
                        /\ r.id = id /\ r.topic.audience = 1
                        /\ input.coverageApproved => r.topic.review.digest = r.topic.content
    BY DEF ReleaseCovers
  <2>1. id \in Surface
    BY DEF Surface
  <2>2. CoverageFaults = {}
    BY DEF Covered, Built
  <2>3. PICK r \in resolved : Documents(r, id)
    BY <2>1, <2>2 DEF CoverageFaults, Policy, Fault
  <2>4. r \in pack.anchors
    BY <2>3, PackContents
  <2>5. PICK t \in topics : r \in Resolutions(t)
    BY <2>3 DEF AnchorsResolved, Built
  <2>6. r.topic = t /\ t \in Topic
    BY <2>5 DEF Resolutions, TypeInv, TypeOK
  <2>7. MetaFaults(t) = {} /\ ReviewFaults(t) = {}
    BY <2>5 DEF Validated, Built, TopicFaults
  <2>8. t.audience # 0
    BY <2>7 DEF MetaFaults, Fault
  <2>9. t.audience = 1 /\ r.id = id
    BY <2>3, <2>6, <2>8 DEF Documents, AudienceRank
  <2>10. t.review.state = "approved" => t.review.digest = t.content
    BY <2>7 DEF ReviewFaults, Fault, Policy
  <2>11. QED
    BY <2>3, <2>4, <2>6, <2>9, <2>10 DEF Documents
<1>2. QED
  BY <1>1, TypeInvariant, PackInvariant, ValidatedInvariant, AnchorsInvariant, CoveredInvariant, PTL


-----------------------------------------------------------------------------
(* Redirects. *)

\* A redirect read without an error is filed under the id it leads from.
Filed(r) == r.from # None /\ r.from.id \in Id /\ redirects[r.from.id] = r

\* The redirects still to be collected are the last ones declared.
DeclaredFiled ==
  LET read == Len(input.redirects) - Len(undeclared)
  IN  /\ read >= 0
      /\ \A i \in 1..Len(undeclared) : undeclared[i] = input.redirects[read + i]
      /\ stage = "load" => read = 0
      /\ stage \notin {"load", "collect", "failed"} => undeclared = <<>>
      /\ errors = {} => \A i \in 1..read : Filed(input.redirects[i])

LEMMA DeclaredInit == Init => DeclaredFiled
<1> SUFFICES ASSUME Init PROVE DeclaredFiled
  OBVIOUS
<1>1. input.redirects \in Seq(Redirect)
  BY InputTypes DEF Init, InputKnown
<1>2. undeclared = input.redirects /\ stage = "load"
  BY DEF Init
<1>3. Len(input.redirects) \in Nat
  BY <1>1
<1>4. QED
  BY <1>2, <1>3 DEF DeclaredFiled

\* No other step touches what was filed.
LEMMA DeclaredFixed ==
  ASSUME DeclaredFiled, UNCHANGED <<input, undeclared, redirects>>,
         errors' = {} => errors = {}, stage' # "load" \/ stage = "load",
         stage' \notin {"load", "collect", "failed"} =>
           stage \notin {"load", "collect", "failed"} \/ undeclared = <<>>
  PROVE  DeclaredFiled'
BY DEF DeclaredFiled, Filed

LEMMA DeclaredStep == DeclaredFiled /\ TypeInv /\ [Next]_vars => DeclaredFiled'
<1> SUFFICES ASSUME DeclaredFiled, TypeInv, [Next]_vars PROVE DeclaredFiled'
  OBVIOUS
<1> USE DEF Goto, passed
<1>0. /\ input.redirects \in Seq(Redirect) /\ undeclared \in Seq(Redirect)
      /\ Len(input.redirects) \in Nat /\ Len(undeclared) \in Nat
  BY InputTypes DEF TypeInv, TypeOK
<1>1. CASE Load
  <2>1. stage = "load" /\ UNCHANGED <<input, undeclared, redirects>> /\ stage' = "collect"
    BY <1>1 DEF Load
  <2>. QED BY <1>0, <2>1 DEF DeclaredFiled
<1>2. CASE LoadFails \/ CollectTopic \/ Collected \/ UNCHANGED vars
  BY <1>2, DeclaredFixed DEF LoadFails, CollectTopic, Collected, vars
<1>3. CASE DeclareRedirect
  <2>0. PICK r, read : r = Head(undeclared) /\ read = Len(input.redirects) - Len(undeclared)
    OBVIOUS
  <2>1. /\ undeclared # <<>> /\ stage = "collect" /\ UNCHANGED <<input, stage>>
        /\ undeclared' = Tail(undeclared)
    BY <1>3 DEF DeclareRedirect
  <2>2. /\ Len(undeclared) \in Nat \ {0} /\ r = undeclared[1]
        /\ Len(undeclared') = Len(undeclared) - 1
        /\ \A i \in 1..Len(undeclared') : undeclared'[i] = undeclared[i + 1]
    BY <1>0, <2>0, <2>1
  <2>3. r = input.redirects[read + 1] /\ read \in Nat
    BY <1>0, <2>0, <2>2 DEF DeclaredFiled
  <2>4. /\ Len(input.redirects) - Len(undeclared') = read + 1
        /\ \A i \in 1..Len(undeclared') : undeclared'[i] = input.redirects[(read + 1) + i]
    <3>1. ASSUME NEW i \in 1..Len(undeclared')
          PROVE  undeclared'[i] = input.redirects[(read + 1) + i]
      <4>1. i + 1 \in 1..Len(undeclared) /\ read + (i + 1) = (read + 1) + i
        <5>1. i \in 1..(Len(undeclared) - 1)
          BY <2>2
        <5>. QED BY <1>0, <2>3, <5>1
      <4>2. undeclared[i + 1] = input.redirects[read + (i + 1)]
        BY <2>0, <4>1 DEF DeclaredFiled
      <4>. QED BY <2>2, <4>1, <4>2
    <3>. QED BY <1>0, <2>0, <2>2, <3>1
  <2>5. ASSUME errors' = {}, NEW i \in 1..(read + 1), NEW q, q = input.redirects[i]
        PROVE  Filed(q)'
    <3>1. SoundRedirect(r) /\ redirects' = [redirects EXCEPT ![r.from.id] = r] /\ errors = {}
      BY <1>3, <2>0, <2>5 DEF DeclareRedirect
    <3>2. r \in Redirect
      BY <1>0, <2>0, <2>1
    <3>3. /\ r.from # None /\ r.from.id \in Id /\ redirects[r.from.id] = None
          /\ r # None /\ redirects \in [Id -> Redirect \union {None}]
      BY <3>1, <3>2, InputAssumption DEF SoundRedirect, Redirect, Anchor, TypeInv, TypeOK
    <3>4. Filed(r)'
      BY <3>1, <3>3 DEF Filed
    <3>5. CASE i \in 1..read
      <4>1. Filed(q)
        BY <2>0, <2>5, <3>1, <3>5 DEF DeclaredFiled
      <4>2. q.from.id # r.from.id
        <5>1. i \in 1..Len(input.redirects)
          BY <1>0, <2>0, <2>2, <3>5
        <5>2. q \in Redirect
          BY <1>0, <2>5, <5>1
        <5>. QED BY <3>3, <4>1, <5>2, InputAssumption DEF Filed
      <4>3. redirects'[q.from.id] = q
        BY <3>1, <3>3, <4>1, <4>2 DEF Filed
      <4>. QED BY <4>1, <4>3 DEF Filed
    <3>6. CASE i = read + 1
      BY <2>3, <2>5, <3>4, <3>6
    <3>. QED BY <2>3, <3>5, <3>6
  <2>6. ASSUME errors' = {}, NEW i \in 1..(read + 1)
        PROVE  Filed(input.redirects[i])'
    <3>1. PICK q : q = input.redirects[i]
      OBVIOUS
    <3>2. Filed(q)' /\ q = input'.redirects[i]
      BY <2>1, <2>5, <2>6, <3>1
    <3>. QED BY <3>2 DEF Filed
  <2>. QED BY <2>1, <2>3, <2>4, <2>6 DEF DeclaredFiled
<1>4. CASE SetOut \/ Hop \/ Arrive
  <2>1. UNCHANGED <<input, stage, undeclared, redirects>> /\ (errors' = {} => errors = {})
    BY <1>4 DEF SetOut, Hop, Arrive
  <2>. QED BY <2>1, DeclaredFixed
<1>5. CASE Validate \/ ResolveAnchors \/ CheckCoverage \/ BuildPack
  <2>1. /\ UNCHANGED <<input, undeclared, redirects>> /\ (errors' = {} => errors = {})
        /\ stage \notin {"load", "collect", "failed"} /\ stage' # "load"
    BY <1>5 DEF Validate, ResolveAnchors, CheckCoverage, BuildPack
  <2>. QED BY <2>1, DeclaredFixed
<1>6. QED
  BY <1>1, <1>2, <1>3, <1>4, <1>5 DEF Next

LEMMA DeclaredInvariant == Spec => []DeclaredFiled
BY TypeInvariant, DeclaredInit, DeclaredStep, PTL DEF Spec

\* A chain goes on as the chain of the next id does, if that is redirected.
LEMMA ChainNext ==
  ASSUME TypeInv, NEW id \in Moved, NEW next, next = redirects[id].to.id
  PROVE  Chain(id) = {id} \union (IF next \in Moved THEN Chain(next) ELSE {})
<1> DEFINE Closed(S) == \A y \in S : redirects[y].to.id \in Moved => redirects[y].to.id \in S
           T == {id} \union (IF next \in Moved THEN Chain(next) ELSE {})
<1>1. \A x, y : x \in Chain(y) <=> x \in Moved /\ \A S \in SUBSET Moved : y \in S /\ Closed(S) => x \in S
  BY DEF Chain
<1> HIDE DEF Closed
<1>2. \A y : Closed(Chain(y))
  <2>1. SUFFICES ASSUME NEW y, NEW x \in Chain(y), redirects[x].to.id \in Moved
                 PROVE  redirects[x].to.id \in Chain(y)
    BY DEF Closed
  <2>2. ASSUME NEW S \in SUBSET Moved, y \in S, Closed(S) PROVE redirects[x].to.id \in S
    BY <1>1, <2>1, <2>2 DEF Closed
  <2>. QED BY <1>1, <2>1, <2>2
<1>3. id \in Chain(id) /\ (next \in Moved => next \in Chain(next))
  BY <1>1
<1>4. T \in SUBSET Moved /\ id \in T /\ Closed(T)
  <2>1. T \in SUBSET Moved
    BY <1>1
  <2>2. Closed(T)
    BY <1>2, <1>3 DEF Closed
  <2>. QED BY <2>1, <2>2
<1>5. Chain(id) \subseteq T
  BY <1>1, <1>4
<1>6. ASSUME next \in Moved, NEW x \in Chain(next) PROVE x \in Chain(id)
  <2>1. ASSUME NEW S \in SUBSET Moved, id \in S, Closed(S) PROVE x \in S
    <3>1. next \in S
      BY <1>6, <2>1 DEF Closed
    <3>. QED BY <1>1, <1>6, <2>1, <3>1
  <2>. QED BY <1>1, <2>1
<1>7. QED
  BY <1>3, <1>5, <1>6

\* Where a chain ends is where the rest of it does.
LEMMA TerminusNext ==
  ASSUME TypeInv, NEW id \in Moved, NEW next, next = redirects[id].to.id
  PROVE  Terminus(id) = Terminus(next)
<1>1. Chain(id) = {id} \union (IF next \in Moved THEN Chain(next) ELSE {})
  BY ChainNext
<1>2. CASE next \in Moved
  <2>1. Chain(id) = {id} \union Chain(next)
    BY <1>1, <1>2
  <2>2. Ends(id) = Ends(next)
    BY <1>2, <2>1 DEF Ends
  <2>. QED BY <1>2, <2>2 DEF Terminus
<1>3. CASE next \notin Moved
  <2>1. Ends(id) = {next}
    BY <1>1, <1>3 DEF Ends
  <2>. QED BY <1>3, <2>1 DEF Terminus
<1>4. QED
  BY <1>2, <1>3

(***************************************************************************)
(* A consumer of a pack follows one hop: every redirect declared is in it, *)
(* filed once, with the end of its chain, which no redirect leads on from, *)
(* whatever the chains: collectRedirects and followRedirect.               *)
(***************************************************************************)
THEOREM OneHop == Spec => []RedirectsResolved
<1>1. TypeInv /\ PackInv /\ LoopsFound /\ DeclaredFiled => RedirectsResolved
  <2> SUFFICES ASSUME TypeInv, PackInv, LoopsFound, DeclaredFiled, Built
               PROVE  /\ \A i \in DOMAIN input.redirects :
                           \E q \in pack.redirects : q.from = input.redirects[i].from
                      /\ \A q, p \in pack.redirects :
                           /\ q.terminus # p.from.id
                           /\ q.from.id = p.from.id => q = p
                           /\ q.to.id = p.from.id => q.terminus = p.terminus
                      /\ \A q \in pack.redirects :
                           q.terminus # q.to.id => \E p \in pack.redirects : p.from.id = q.to.id
    BY DEF RedirectsResolved
  <2> DEFINE Packed(id) == [from |-> redirects[id].from, to |-> redirects[id].to,
                            terminus |-> Terminus(id)]
  <2>1. pack.redirects = {Packed(id) : id \in Moved}
    BY DEF PackInv, Assembled
  <2>2. ASSUME NEW id \in Moved
        PROVE  /\ id \in Id /\ redirects[id].from.id = id
               /\ Terminus(id) \in Id \ Moved
               /\ Packed(id).from = redirects[id].from /\ Packed(id).to = redirects[id].to
               /\ Packed(id).terminus = Terminus(id)
               /\ Terminus(id) = Terminus(redirects[id].to.id)
    BY ChainsHaveEnds, TerminusId, TerminusNext DEF Moved, TypeInv, RedirectsFiled
  <2>3. ASSUME NEW i \in DOMAIN input.redirects
        PROVE  \E q \in pack.redirects : q.from = input.redirects[i].from
    <3> DEFINE r == input.redirects[i]
    <3>1. input.redirects \in Seq(Redirect) /\ undeclared = <<>>
      BY InputTypes DEF TypeInv, DeclaredFiled, Built
    <3>2. Len(input.redirects) - Len(undeclared) = Len(input.redirects)
      BY <3>1
    <3>3. Filed(r)
      BY <3>1, <3>2 DEF DeclaredFiled, Built
    <3>4. r \in Redirect
      BY <3>1
    <3>5. r.from.id \in Moved /\ redirects[r.from.id] = r
      BY <3>3, <3>4, InputAssumption DEF Filed, Moved
    <3>6. Packed(r.from.id) \in pack.redirects /\ Packed(r.from.id).from = r.from
      BY <2>1, <2>2, <3>5
    <3>. QED BY <3>6
  <2> HIDE DEF Packed
  <2>4. ASSUME NEW q \in pack.redirects, NEW p \in pack.redirects
        PROVE  /\ q.terminus # p.from.id
               /\ q.from.id = p.from.id => q = p
               /\ q.to.id = p.from.id => q.terminus = p.terminus
    <3>1. PICK x \in Moved : q = Packed(x)
      BY <2>1
    <3>2. PICK y \in Moved : p = Packed(y)
      BY <2>1
    <3>. QED BY <2>2, <3>1, <3>2
  <2>5. ASSUME NEW q \in pack.redirects, q.terminus # q.to.id
        PROVE  \E p \in pack.redirects : p.from.id = q.to.id
    <3>1. PICK x \in Moved : q = Packed(x)
      BY <2>1
    <3>2. q.to.id \in Moved
      BY <2>2, <2>5, <3>1 DEF Terminus
    <3>3. Packed(q.to.id) \in pack.redirects /\ Packed(q.to.id).from.id = q.to.id
      BY <2>1, <2>2, <3>2
    <3>. QED BY <3>3
  <2>. QED BY <2>3, <2>4, <2>5
<1>2. QED
  BY <1>1, TypeInvariant, PackInvariant, LoopsInvariant, DeclaredInvariant, PTL
=============================================================================
