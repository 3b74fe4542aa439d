------------------------------ MODULE DocPack ------------------------------
(***************************************************************************)
(* One docpack.Compile: topic sources, a schema image and a registry       *)
(* export in, a doc pack or a list of errors out.                          *)
(*                                                                         *)
(* A topic's digest covers its title, summary and body: Content is that    *)
(* triple, and its digest is itself.  The six kinds of anchor spell their  *)
(* targets in one space of strings, Id, as the redirect table does.  The   *)
(* sources are read in path order, so they are flattened into one sequence *)
(* of topics and one of redirects.                                         *)
(***************************************************************************)
EXTENDS Integers, Sequences, FiniteSets

CONSTANTS
  Id,            \* canonical anchor ids, topic keys among them
  Key,           \* topic keys
  Locale,
  SourceLocale,  \* Options.SourceLocale
  Fragment,      \* heading ids
  Person,        \* review identities
  Content,       \* what a content digest covers
  BodyOf,        \* [Content -> Body], what the passes read of it
  Inputs,        \* the corpora and options a compilation may be given
  None           \* an unset or empty field, Go's nil

Kind == {"schema", "descriptor", "widget", "transition", "route", "topic"}

\* Anchor ids are well formed, or None where anchorID refuses the anchor.
Anchor == [kind : Kind, id : Id \union {None}]

Redirect == [from : Anchor \union {None}, to : Anchor \union {None}]

Body == [sound    : BOOLEAN,  \* titled, images have alt text, links one target
         headings : Seq([level : Nat, id : Fragment \union {None}]),
         links    : SUBSET [key : Id, fragment : Fragment \union {None}],
         anchors  : SUBSET Anchor]

Garbled == "garbled"   \* a digest that is not a SHA-256

Review == [state   : {"unspecified", "draft", "approved"},
           author  : Person \union {None},
           revisor : Person \union {None},
           digest  : Content \union {None, Garbled}]

Topic == [key         : Key \union {None},
          locale      : Locale \union {None},
          content     : Content,
          sound       : BOOLEAN,     \* tags are well formed and distinct
          audience    : 0..5,        \* 0 unset, 1 public .. 5 internal
          parent      : Key \union {None},
          successor   : Key \union {None},
          anchors     : SUBSET Anchor,
          review      : Review,
          translation : Content \union {None, Garbled, "undigested"}]

Image == [names : SUBSET Id, paths : SUBSET Id, methods : SUBSET Id]

\* common: the common and composition props, which resolve on every widget.
Catalog == [widgets     : SUBSET Id,
            members     : SUBSET Id,
            common      : SUBSET Id,
            transitions : SUBSET Id]

Input == [topics           : Seq(Topic),
          redirects        : Seq(Redirect),
          parses           : BOOLEAN,   \* every source parses and binds
          image            : Image \union {None},
          catalog          : Catalog \union {None},
          release          : BOOLEAN,
          coverage         : {None, "widgets", "members"},
          coverageApproved : BOOLEAN,
          staleFatal       : BOOLEAN]

\* A link of a chain of redirects (with locale None) or of parents.
Node == (Id \X {None}) \union (Key \X Locale)

Walk == [from : Node, at : Node, seen : SUBSET Node]

Pack == [topics    : SUBSET [topic : Topic, status : {"source", "stale", "current"}],
         anchors   : SUBSET [topic : Topic, anchor : Anchor, id : Id],
         redirects : SUBSET [from : Anchor, to : Anchor, terminus : Id \union {None}]]

ASSUME InputAssumption ==
  /\ Key \subseteq Id
  /\ SourceLocale \in Locale
  /\ None \notin Id \union Locale \union Fragment \union Content \union Topic \union Pack
  /\ None \notin Anchor \union Redirect \union Node \union Walk
  /\ Garbled \notin Content
  /\ BodyOf \in [Content -> Body]
  /\ Inputs \subseteq Input

VARIABLES
  input,       \* the sources and Options
  stage,       \* the pass the compiler is in
  unread,      \* topics not collected yet
  undeclared,  \* redirects not collected yet
  topics,      \* compiler.topics, byRef and byKey
  redirects,   \* compiler.redirects, by the id they redirect from
  unwalked,    \* nodes whose redirect or parent chain is still to be walked
  walk,        \* the chain being walked
  resolved,    \* the resolved anchors of every topic
  stale,       \* the topics with topic.stale set
  errors,      \* the rules some error diagnostic reports
  pack         \* Result.Pack

passed == <<topics, redirects, unwalked, walk, resolved, stale>>
vars == <<input, stage, unread, undeclared, passed, errors, pack>>

-----------------------------------------------------------------------------
(* Lookups. *)

HasTopic(k, l) == \E t \in topics : t.key = k /\ t.locale = l

TopicAt(k, l) == CHOOSE t \in topics : t.key = k /\ t.locale = l

HasKey(k) == \E t \in topics : t.key = k

\* policyf: an error under Release, a warning otherwise.
Policy(rules) == IF input.release THEN rules ELSE {}

\* The rules an error diagnostic can report.
Rule == {"unparsed", "anonymous", "duplicate", "badRedirect", "cycle",
         "noAudience", "badMeta", "ownParent",
         "badDigest", "selfApproval", "noRevisor", "noDigest", "unapproved", "outdated",
         "badBody", "badHeadings", "noParent", "noSuccessor", "badLink",
         "ownTranslation", "noSource", "undigested", "badSource", "drifted",
         "badAnchor", "danglingAnchor", "uncovered"}

Fault(rule, broken) == {r \in {rule} : broken}

-----------------------------------------------------------------------------
(* Chains.  Both followRedirect and validateParentChain walk from node to  *)
(* node until one leads nowhere or was seen before.                        *)

Onward(n) ==
  IF n[2] = None
  THEN IF redirects[n[1]] = None THEN None ELSE <<redirects[n[1]].to.id, None>>
  ELSE IF ~HasTopic(n[1], n[2]) \/ TopicAt(n[1], n[2]).parent = None THEN None
  ELSE <<TopicAt(n[1], n[2]).parent, n[2]>>

\* A mutant: a chain of redirects is followed for one hop only.
TerminusOneHop(id) ==
  IF redirects[id] = None THEN id ELSE redirects[id].to.id

Moved == {id \in Id : redirects[id] # None}

\* The ids a chain of redirects from id leads on from.
Chain(id) ==
  {x \in Moved : \A S \in SUBSET Moved :
     id \in S /\ (\A y \in S : redirects[y].to.id \in Moved => redirects[y].to.id \in S) => x \in S}

\* Where followRedirect can end.
Ends(id) == {redirects[x].to.id : x \in Chain(id)} \ Moved

\* followRedirect's terminus, None where it finds a cycle.
Terminus(id) ==
  IF id \notin Moved THEN id
  ELSE IF Ends(id) = {} THEN None
  ELSE CHOOSE x \in Ends(id) : TRUE

-----------------------------------------------------------------------------
(* The rules within one topic. *)

MetaFaults(t) ==
  Fault("noAudience", t.audience = 0 /\ input.release)
  \union Fault("badMeta", ~t.sound)
  \union Fault("ownParent", t.parent # None /\ t.parent = t.key)

\* A mutant: the digest of an approval is not compared.
ReviewFaultsUndigested(t) ==
  LET r == t.review
      reviewed == r.state # "unspecified"
      approved == r.state = "approved"
  IN  Fault("selfApproval", reviewed /\ r.revisor # None /\ r.revisor = r.author)
      \union Fault("noRevisor", approved /\ r.revisor = None)
      \union Fault("noDigest", approved /\ r.digest = None)
      \union Fault("unapproved", ~approved /\ input.release)

\* validateReview: the revisor gate.
ReviewFaults(t) ==
  LET r == t.review
      reviewed == r.state # "unspecified"
      approved == r.state = "approved"
  IN  Fault("badDigest", reviewed /\ r.digest = Garbled)
      \union Fault("selfApproval", reviewed /\ r.revisor # None /\ r.revisor = r.author)
      \union Fault("noRevisor", approved /\ r.revisor = None)
      \union Fault("noDigest", approved /\ r.digest = None)
      \union Policy(Fault("unapproved", ~approved)
                    \union Fault("outdated", approved /\ r.digest \notin {None, t.content}))

\* validateBody's headings: they start at level 1 and never skip one.
BadHeadings(hs) ==
  \/ hs # <<>> /\ hs[1].level # 1
  \/ \E i \in DOMAIN hs :
       \/ hs[i].level = 0 \/ hs[i].id = None
       \/ i > 1 /\ hs[i].level > hs[i - 1].level + 1
       \/ \E j \in 1..(i - 1) : hs[i].id = hs[j].id

BodyFaults(t) ==
  Fault("badBody", ~BodyOf[t.content].sound)
  \union Fault("badHeadings", BadHeadings(BodyOf[t.content].headings))

-----------------------------------------------------------------------------
(* The rules across topics. *)

Headings(t) == {BodyOf[t.content].headings[i].id : i \in DOMAIN BodyOf[t.content].headings}

\* A mutant: a link need only name a topic of some locale.
DanglingAnywhere(t, link) == ~HasKey(link.key)

\* A link with no such topic in t's locale, or no such heading in that topic.
Dangling(t, link) ==
  \/ ~HasTopic(link.key, t.locale)
  \/ link.fragment # None /\ link.fragment \notin Headings(TopicAt(link.key, t.locale))

ReferenceFaults(t) ==
  Fault("noParent", t.parent \notin {None, t.key} /\ ~HasTopic(t.parent, t.locale))
  \union Fault("noSuccessor", t.successor # None /\ ~HasKey(t.successor))
  \union Fault("badLink", \E link \in BodyOf[t.content].links : Dangling(t, link))

\* A mutant: a translation is held against its own content.
DriftedFromItself(t) ==
  /\ t.locale # SourceLocale /\ HasTopic(t.key, SourceLocale)
  /\ t.translation \in Content /\ t.translation # t.content

\* validateTranslation finds t behind its source.
Drifted(t) ==
  /\ t.locale # SourceLocale /\ HasTopic(t.key, SourceLocale)
  /\ t.translation \in Content
  /\ t.translation # TopicAt(t.key, SourceLocale).content

TranslationFaults(t) ==
  LET translated == t.locale # SourceLocale
      sourced == HasTopic(t.key, SourceLocale)
  IN  Fault("ownTranslation", ~translated /\ t.translation # None)
      \union Fault("noSource", translated /\ ~sourced)
      \union Fault("undigested", translated /\ sourced /\ t.translation \in {None, "undigested"})
      \union Fault("badSource", translated /\ sourced /\ t.translation = Garbled)
      \union Fault("drifted", Drifted(t) /\ input.staleFatal)

-----------------------------------------------------------------------------
(* Anchors. *)

\* The anchors validateTopic collects: the topic's own and its prose's.
AnchorsOf(t) == t.anchors \union BodyOf[t.content].anchors

\* AudienceRank: an unset tier reads as public.
AudienceRank(t) == IF t.audience = 0 THEN 1 ELSE t.audience

\* A mutant: no tier is too restricted to point at.
MayPointAtAny(t, u) == TRUE

\* checkAudience: a topic may not point at a more restricted one.
MayPointAt(t, u) == AudienceRank(u) <= AudienceRank(t)

\* A mutant: any widget will do, once there is a catalog.
TargetsAnyWidget(t, kind, id) ==
  CASE kind = "schema" -> input.image # None /\ id \in input.image.names
    [] kind = "descriptor" -> input.image # None /\ id \in input.image.paths
    [] kind = "widget" -> input.catalog # None
    [] kind = "transition" -> input.catalog # None /\ id \in input.catalog.transitions
    [] kind = "route" -> TRUE
    [] kind = "topic" -> HasTopic(id, t.locale)
         /\ MayPointAt(t, TopicAt(id, t.locale))

\* resolveTarget: the data input that owns the kind has the id.  A route has
\* no owner, and a topic may not point at a more restricted one.
Targets(t, kind, id) ==
  CASE kind = "schema" -> input.image # None /\ id \in input.image.names
    [] kind = "descriptor" -> input.image # None /\ id \in input.image.paths
    [] kind = "widget" -> input.catalog # None
         /\ id \in input.catalog.widgets \union input.catalog.members \union input.catalog.common
    [] kind = "transition" -> input.catalog # None /\ id \in input.catalog.transitions
    [] kind = "route" -> TRUE
    [] kind = "topic" -> HasTopic(id, t.locale)
         /\ MayPointAt(t, TopicAt(id, t.locale))

\* Where an anchor lands: an author who declares a redirect means it, even
\* if the retired target still exists.
Landing(a) ==
  IF a.id = None THEN None ELSE Terminus(a.id)

\* resolveAnchors reports every anchor but those lost to a redirect cycle.
AnchorFaults(t) ==
  Fault("badAnchor", \E a \in AnchorsOf(t) : a.id = None)
  \union Fault("danglingAnchor",
               \E a \in AnchorsOf(t) : Landing(a) # None /\ ~Targets(t, a.kind, Landing(a)))

\* A mutant: an anchor lost to a redirect cycle is kept.
ResolutionsLost(t) ==
  {[topic |-> t, anchor |-> a, id |-> Landing(a)] :
     a \in {a \in AnchorsOf(t) : Targets(t, a.kind, Landing(a))}}

Resolutions(t) ==
  {[topic |-> t, anchor |-> a, id |-> Landing(a)] :
     a \in {a \in AnchorsOf(t) : Landing(a) # None /\ Targets(t, a.kind, Landing(a))}}

-----------------------------------------------------------------------------
(* Coverage. *)

\* Every widget and @http method, under members their members too.
Surface ==
  (IF input.catalog = None THEN {}
   ELSE input.catalog.widgets \union
        (IF input.coverage = "members"
         THEN input.catalog.members \union input.catalog.transitions ELSE {}))
  \union (IF input.image = None THEN {} ELSE input.image.methods)

\* A mutant: a topic documents an element to whoever may not read it.
DocumentsHidden(r, id) ==
  /\ r.id = id
  /\ input.coverageApproved => r.topic.review.state = "approved"

\* Every element is public, so only public topics document it.
Documents(r, id) ==
  /\ r.id = id
  /\ AudienceRank(r.topic) = 1
  /\ input.coverageApproved => r.topic.review.state = "approved"

CoverageFaults ==
  Policy(Fault("uncovered", /\ input.coverage # None
                            /\ \E id \in Surface : ~\E r \in resolved : Documents(r, id)))

-----------------------------------------------------------------------------
(* Compile. *)

Init ==
  /\ input \in Inputs
  /\ stage = "load"
  /\ unread = input.topics
  /\ undeclared = input.redirects
  /\ topics = {}
  /\ redirects = [id \in Id |-> None]
  /\ unwalked = {}
  /\ walk = None
  /\ resolved = {}
  /\ stale = {}
  /\ errors = {}
  /\ pack = None

Goto(next) == stage' = next /\ UNCHANGED <<input, pack>>

\* loadSources, LoadImage, LoadCatalog.  What cannot be read ends Compile; a
\* source that does not parse is a diagnostic, and the rest goes on.
Load ==
  /\ stage = "load"
  /\ Goto("collect")
  /\ errors' = Fault("unparsed", ~input.parses)
  /\ UNCHANGED <<unread, undeclared, passed>>

LoadFails ==
  /\ stage = "load"
  /\ Goto("failed")
  /\ UNCHANGED <<unread, undeclared, passed, errors>>

\* collectTopics: identity is (key, locale), and the first to claim one has it.
CollectTopic ==
  /\ stage = "collect"
  /\ unread # <<>>
  /\ LET t == Head(unread)
         anonymous == t.key = None \/ t.locale = None
         duplicate == ~anonymous /\ HasTopic(t.key, t.locale)
     IN  /\ topics' = IF anonymous \/ duplicate THEN topics ELSE topics \union {t}
         /\ errors' = errors \union Fault("anonymous", anonymous) \union Fault("duplicate", duplicate)
  /\ unread' = Tail(unread)
  /\ UNCHANGED <<input, stage, undeclared, redirects, unwalked, walk, resolved, stale, pack>>

\* collectRedirects keeps a redirect between two ids of one kind, the first
\* declared from its id, and reports any other.
SoundRedirect(r) ==
  /\ r.from # None /\ r.to # None
  /\ r.from.id # None /\ r.to.id # None
  /\ r.from.kind = r.to.kind
  /\ r.from.id # r.to.id
  /\ redirects[r.from.id] = None

DeclareRedirect ==
  /\ stage = "collect"
  /\ unread = <<>>
  /\ undeclared # <<>>
  /\ LET r == Head(undeclared)
     IN  IF SoundRedirect(r)
         THEN redirects' = [redirects EXCEPT ![r.from.id] = r] /\ UNCHANGED errors
         ELSE errors' = errors \union {"badRedirect"} /\ UNCHANGED redirects
  /\ undeclared' = Tail(undeclared)
  /\ UNCHANGED <<input, stage, unread, topics, unwalked, walk, resolved, stale, pack>>

Collected ==
  /\ stage = "collect"
  /\ unread = <<>>
  /\ undeclared = <<>>
  /\ Goto("followRedirects")
  /\ unwalked' = Moved \X {None}
  /\ UNCHANGED <<unread, undeclared, topics, redirects, walk, resolved, stale, errors>>

\* One chain at a time: followRedirect for every redirect, and later
\* validateParentChain for every topic.
SetOut ==
  /\ stage \in {"followRedirects", "followParents"}
  /\ walk = None
  /\ \E n \in unwalked :
       /\ walk' = [from |-> n, at |-> n, seen |-> {n}]
       /\ unwalked' = unwalked \ {n}
  /\ UNCHANGED <<input, stage, unread, undeclared, topics, redirects, resolved, stale, errors, pack>>

\* A mutant: a walk stops where it has been, and says nothing.
HopForgiving ==
  /\ walk # None
  /\ Onward(walk.at) # None
  /\ walk' = IF Onward(walk.at) \in walk.seen THEN None
             ELSE [walk EXCEPT !.at = Onward(walk.at), !.seen = @ \union {Onward(walk.at)}]
  /\ UNCHANGED <<input, stage, unread, undeclared, topics, redirects, unwalked, resolved, stale, errors, pack>>

\* A mutant: a walk does not notice where it has been.
HopHeedless ==
  /\ walk # None
  /\ Onward(walk.at) # None
  /\ walk' = [walk EXCEPT !.at = Onward(walk.at), !.seen = @ \union {Onward(walk.at)}]
  /\ UNCHANGED <<input, stage, unread, undeclared, topics, redirects, unwalked, resolved, stale, errors, pack>>

Hop ==
  /\ walk # None
  /\ Onward(walk.at) # None
  /\ IF Onward(walk.at) \in walk.seen
     THEN walk' = None /\ errors' = errors \union {"cycle"}
     ELSE /\ walk' = [walk EXCEPT !.at = Onward(walk.at), !.seen = @ \union {Onward(walk.at)}]
          /\ UNCHANGED errors
  /\ UNCHANGED <<input, stage, unread, undeclared, topics, redirects, unwalked, resolved, stale, pack>>

Arrive ==
  /\ walk # None
  /\ Onward(walk.at) = None
  /\ walk' = None
  /\ UNCHANGED <<input, stage, unread, undeclared, topics, redirects, unwalked, resolved, stale, errors, pack>>

TopicFaults(t) ==
  MetaFaults(t) \union ReviewFaults(t) \union BodyFaults(t)
  \union ReferenceFaults(t) \union TranslationFaults(t)

\* validateTopic for every topic, then the rest of validateCrossTopic.
Validate ==
  /\ stage = "followRedirects"
  /\ walk = None /\ unwalked = {}
  /\ Goto("followParents")
  /\ errors' = errors \union UNION {TopicFaults(t) : t \in topics}
  /\ stale' = {t \in topics : Drifted(t)}
  /\ unwalked' = {<<t.key, t.locale>> : t \in topics}
  /\ UNCHANGED <<unread, undeclared, topics, redirects, walk, resolved>>

ResolveAnchors ==
  /\ stage = "followParents"
  /\ walk = None /\ unwalked = {}
  /\ Goto("coverage")
  /\ errors' = errors \union UNION {AnchorFaults(t) : t \in topics}
  /\ resolved' = UNION {Resolutions(t) : t \in topics}
  /\ UNCHANGED <<unread, undeclared, topics, redirects, unwalked, walk, stale>>

\* Coverage is a question for a corpus without errors only.
CheckCoverage ==
  /\ stage = "coverage"
  /\ IF errors = {}
     THEN Goto("build") /\ errors' = CoverageFaults
     ELSE Goto("done") /\ UNCHANGED errors
  /\ UNCHANGED <<unread, undeclared, passed>>

Status(t) ==
  IF t.locale = SourceLocale THEN "source" ELSE IF t \in stale THEN "stale" ELSE "current"

Assembled ==
  [topics    |-> {[topic |-> t, status |-> Status(t)] : t \in topics},
   anchors   |-> resolved,
   redirects |-> {[from |-> redirects[id].from, to |-> redirects[id].to, terminus |-> Terminus(id)] : id \in Moved}]

\* A mutant: what coverage found does not keep the pack from being built.
BuildPackRegardless ==
  /\ stage = "build"
  /\ stage' = "done"
  /\ pack' = Assembled
  /\ UNCHANGED <<input, unread, undeclared, passed, errors>>

BuildPack ==
  /\ stage = "build"
  /\ stage' = "done"
  /\ pack' = IF errors = {} THEN Assembled ELSE None
  /\ UNCHANGED <<input, unread, undeclared, passed, errors>>

Next ==
  \/ Load \/ LoadFails
  \/ CollectTopic \/ DeclareRedirect \/ Collected
  \/ SetOut \/ Hop \/ Arrive
  \/ Validate \/ ResolveAnchors \/ CheckCoverage \/ BuildPack

Spec == Init /\ [][Next]_vars

\* Compile is one goroutine with nothing to wait for: it keeps taking steps.
FairSpec == Spec /\ WF_vars(Next)

-----------------------------------------------------------------------------
(* Properties. *)

Stage == {"load", "collect", "followRedirects", "followParents",
          "coverage", "build", "done", "failed"}

\* The type invariant of a compilation.
TypeOK ==
  /\ stage \in Stage
  /\ unread \in Seq(Topic)
  /\ undeclared \in Seq(Redirect)
  /\ topics \in SUBSET Topic
  /\ redirects \in [Id -> Redirect \union {None}]
  /\ unwalked \in SUBSET Node
  /\ walk \in Walk \union {None}
  /\ resolved \in SUBSET [topic : Topic, anchor : Anchor, id : Id]
  /\ stale \in SUBSET topics
  /\ errors \in SUBSET Rule
  /\ pack \in Pack \union {None}

Built == stage = "done" /\ errors = {}

PackedTopics == {t.topic : t \in pack.topics}

(***************************************************************************)
(* A compilation without errors has a pack, and only such a one: Result.   *)
(***************************************************************************)
PackIffNoErrors == (pack # None) <=> Built

(***************************************************************************)
(* No consumer of a pack can loop (docs/DOC-PACK.md:208, and the comment   *)
(* on validateParentChain): no set of redirected ids or of topics leads    *)
(* only back into itself.                                                  *)
(***************************************************************************)
Leads == {n \in Node : Onward(n) # None}

ChainsEnd == Built => \A S \in SUBSET Leads : S # {} => \E n \in S : Onward(n) \notin S

(***************************************************************************)
(* A pack has no dangling anchor: each that an author wrote is in it, at   *)
(* its own id or, where that was renamed, at the end of the redirects from *)
(* it; nothing leads on from there; and the input that owns the anchor's   *)
(* kind has that id, or the reader's locale such a topic.  A route is the  *)
(* application's: nothing owns it.  The redirects are those of the id,     *)
(* whichever kind of anchor they were declared for, as in resolveAnchors.  *)
(***************************************************************************)
AnchorsLand ==
  Built =>
    \A t \in PackedTopics : \A a \in AnchorsOf(t) :
      \E r \in pack.anchors :
        /\ r.topic = t /\ r.anchor = a
        /\ r.id # a.id => \E q \in pack.redirects : q.from.id = a.id /\ q.terminus = r.id
        /\ \A q \in pack.redirects : q.from.id # r.id
        /\ a.kind = "topic" => \E u \in PackedTopics : u.key = r.id /\ u.locale = t.locale
        /\ a.kind \in {"schema", "descriptor"} => input.image # None
        /\ a.kind = "schema" => r.id \in input.image.names
        /\ a.kind = "descriptor" => r.id \in input.image.paths
        /\ a.kind \in {"widget", "transition"} => input.catalog # None
        /\ a.kind = "widget" =>
             r.id \in input.catalog.widgets \union input.catalog.members \union input.catalog.common
        /\ a.kind = "transition" => r.id \in input.catalog.transitions

(***************************************************************************)
(* A consumer follows one hop at most: every declared redirect is in the   *)
(* pack once, with the end of its chain, which keeps its kind where each   *)
(* hop's target is redirected as the kind it was declared with.            *)
(***************************************************************************)
RedirectsResolved ==
  Built =>
    /\ \A i \in DOMAIN input.redirects :
         \E q \in pack.redirects : q.from = input.redirects[i].from
    /\ \A q, p \in pack.redirects :
         /\ q.terminus # p.from.id
         /\ q.from.id = p.from.id => q = p
         /\ q.to.id = p.from.id => q.terminus = p.terminus
    /\ \A q \in pack.redirects :
         q.terminus # q.to.id => \E p \in pack.redirects : p.from.id = q.to.id

(***************************************************************************)
(* A topic never anchors a topic its reader may not see, whichever         *)
(* redirects the anchor goes through: checkAudience.                       *)
(***************************************************************************)
AnchorsKeepAudience ==
  Built =>
    \A r \in pack.anchors : r.anchor.kind = "topic" =>
      \A u \in PackedTopics : u.key = r.id /\ u.locale = r.topic.locale =>
        AudienceRank(u) <= AudienceRank(r.topic)

(***************************************************************************)
(* A link in a pack goes to a topic of the same locale, and to a heading   *)
(* that topic has.                                                         *)
(***************************************************************************)
LinksLand ==
  Built =>
    \A t \in PackedTopics : \A link \in BodyOf[t.content].links :
      \E u \in PackedTopics :
        /\ u.key = link.key /\ u.locale = t.locale
        /\ link.fragment # None =>
             \E i \in DOMAIN BodyOf[u.content].headings :
               BodyOf[u.content].headings[i].id = link.fragment

(***************************************************************************)
(* The revisor gate: what a release ships, someone other than its author   *)
(* approved as it stands (docs/DOC-PACK.md:251).                           *)
(***************************************************************************)
ReleasedApproved ==
  Built /\ input.release =>
    \A t \in PackedTopics :
      /\ t.review.state = "approved"
      /\ t.review.revisor \in Person \ {t.review.author}
      /\ t.review.digest = t.content
      /\ t.audience # 0

(***************************************************************************)
(* Under --coverage a release documents, to the public, every widget and   *)
(* @http method it was compiled against; under --coverage-approved in a    *)
(* topic someone approved as it stands.                                    *)
(***************************************************************************)
ReleaseCovers ==
  Built /\ input.release /\ input.coverage # None =>
    \A id \in (IF input.catalog = None THEN {} ELSE input.catalog.widgets)
              \union (IF input.image = None THEN {} ELSE input.image.methods) :
      \E r \in pack.anchors :
        /\ r.id = id /\ r.topic.audience = 1
        /\ input.coverageApproved => r.topic.review.digest = r.topic.content

(***************************************************************************)
(* A reader is told a translation is current exactly if it was made from   *)
(* what the source topic now says.                                         *)
(***************************************************************************)
StatusTrue ==
  Built =>
    \A t \in pack.topics : t.topic.locale # SourceLocale =>
      \E source \in PackedTopics :
        /\ source.key = t.topic.key /\ source.locale = SourceLocale
        /\ t.status = (IF t.topic.translation = source.content THEN "current" ELSE "stale")

(***************************************************************************)
(* docs/DOC-PACK.md:221: a topic may not anchor or link to a more          *)
(* restricted one.                                                         *)
(***************************************************************************)
LinksKeepAudience ==
  Built =>
    \A t, u \in PackedTopics : \A link \in BodyOf[t.content].links :
      link.key = u.key /\ t.locale = u.locale => AudienceRank(u) <= AudienceRank(t)

(***************************************************************************)
(* Compile always answers, whatever cycles its sources hold.               *)
(***************************************************************************)
Terminates == <>(stage \in {"done", "failed"})
=============================================================================
