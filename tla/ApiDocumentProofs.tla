------------------------- MODULE ApiDocumentProofs -------------------------
(***************************************************************************)
(* What pxf openapi promises of every schema, configuration and pack:      *)
(* nothing of a more restricted element is in a document, each $ref lands, *)
(* recursion ends, each binding of a visible method is one operation,      *)
(* stamped with its own version, each part of its request is bound once,   *)
(* and sensitivity markers travel with what is flattened.                  *)
(***************************************************************************)
EXTENDS ApiDocument, SequenceTheorems, FiniteSetTheorems, InductionLemmas

Frame == [of : Type \union {None}, left : SUBSET Type]

-----------------------------------------------------------------------------
(* The type invariant. *)

RunKnown == run \in Runs

\* Where a generation is when nothing was built yet, and when nothing is called.
Idle ==
  /\ stage \in {"pack", "history"} =>
       /\ reserved = {} /\ operations = {} /\ use = 1
       /\ segments = {} /\ walk = {} /\ placed = {}
  /\ stage \in {"pack", "history", "operations", "binding", "emitted"} => stack = <<>>
  /\ stage \in {"binding", "rendering"} => use \in Uses /\ MethodIncluded(Current.method)
  /\ stage = "emitted" => use = Len(run.uses) + 1

\* A call of component holds its slot.
Taken == \A i \in DOMAIN stack : IF i = 1 THEN stack[i].of = None ELSE stack[i].of \in reserved

TypeInv == RunKnown /\ TypeOK /\ Idle /\ Taken

\* What a run is made of.
LEMMA RunTyped ==
  ASSUME RunKnown
  PROVE  /\ run.image \in [Type -> Decl \union {None}]
         /\ run.methods \in [Method -> [service : Service, input : Type, output : Type \union {None}]]
         /\ run.derived \in [Method -> Id]
         /\ run.uses \in Seq(Use)
         /\ Len(run.uses) \in Nat /\ Uses = 1..Len(run.uses)
         /\ run.globs \in [Element -> Rank]
         /\ run.topics \subseteq [anchor : Element, rank : Rank]
         /\ run.tier \in Rank
         /\ run.history \in (SUBSET [version : Nat, has : SUBSET Element]) \union {None}
<1>1. run \in Run
  BY RunAssumption DEF RunKnown
<1>. QED BY <1>1 DEF Run, Uses

\* A type of the image is declared, and nothing else is.
LEMMA DeclTyped ==
  ASSUME RunKnown, NEW t \in Image
  PROVE  t \in Type /\ run.image[t] \in Decl
BY RunTyped DEF Image

LEMMA NoneOutside == None \notin Type /\ None \notin Image
BY RunAssumption DEF Image, Element

\* A field of a type of the image, and what its schema refers to.
LEMMA FieldTyped ==
  ASSUME RunKnown, NEW t, NEW f \in FieldsOf(t)
  PROVE  /\ f \in Field /\ t \in Image /\ f \in run.image[t].fields
         /\ FieldRefs(f) \subseteq Type
         /\ FieldRefs(f) \subseteq ({f.to} \union Links(f.chain)) \ {None}
<1>1. t \in Image /\ f \in run.image[t].fields
  BY DEF FieldsOf, FieldsIn, Image
<1>2. run.image[t] \in Decl
  BY <1>1, DeclTyped
<1>3. f \in Field
  BY <1>1, <1>2 DEF Decl
<1>4. f.chain \in Seq(Type) /\ f.to \in Type \union {None}
  BY <1>3 DEF Field
<1>5. f.chain # <<>> => Len(f.chain) \in DOMAIN f.chain /\ f.chain[Len(f.chain)] \in Type
  BY <1>4
<1>6. FieldRefs(f) \subseteq ({f.to} \union Links(f.chain)) \ {None}
  BY <1>4, <1>5, NoneOutside DEF FieldRefs, Inlined, Links
<1>7. FieldRefs(f) \subseteq Type
  BY <1>4, <1>5 DEF FieldRefs, Inlined
<1>. QED BY <1>1, <1>3, <1>6, <1>7

\* References go to types, and are mentioned.
LEMMA ReferencesTyped ==
  ASSUME RunKnown, NEW t \in Image
  PROVE  References(t) \subseteq Type /\ References(t) \subseteq Mentions(run.image[t]) \ {None}
<1>1. run.image[t].base \in Type \union {None}
  BY DeclTyped DEF Decl
<1>2. \A f \in run.image[t].fields : f \in FieldsOf(t)
  BY DEF FieldsOf, FieldsIn, Image
<1>. QED BY <1>1, <1>2, FieldTyped DEF References, Inlined, Mentions

\* The use site operation() is at.
LEMMA CurrentTyped ==
  ASSUME RunKnown, use \in Uses
  PROVE  /\ Current \in Use /\ Current.method \in Method
         /\ Request(use) \in Type
         /\ run.methods[Current.method].output \in Type \union {None}
         /\ OperationId(use) \in Id
<1>1. Current \in Use
  BY RunTyped DEF Current, Uses
<1>2. Current.method \in Method /\ Current.id \in Id \union {None}
  BY <1>1 DEF Use
<1>. QED BY <1>1, <1>2, RunTyped DEF Request, OperationId, Current

LEMMA NeedsTyped ==
  ASSUME TypeInv, use \in Uses
  PROVE  Needs(use) \subseteq Type
<1>1. \A p \in placed : p.refs \subseteq Type
  BY DEF TypeInv, TypeOK, Placed
<1>2. run.methods[run.uses[use].method].output \in Type \union {None}
  BY CurrentTyped DEF TypeInv, Current
<1>. QED BY <1>1, <1>2 DEF Needs

LEMMA InitTypeInv == Init => TypeInv
<1>. SUFFICES ASSUME Init PROVE TypeInv
  OBVIOUS
<1>1. RunKnown
  BY DEF Init, RunKnown
<1>2. use \in 1..(Len(run.uses) + 1)
  BY <1>1, RunTyped DEF Init
<1>. QED BY <1>1, <1>2 DEF Init, TypeInv, TypeOK, Idle, Taken

\* What is left to the i-th call of component when the last is done with t.
LeftAt(i, t) == IF i = Len(stack) THEN stack[i].left \ {t} ELSE stack[i].left

\* What an action does to the calls of component.
LEMMA StackEdited ==
  ASSUME stack \in Seq(Frame), stack # <<>>
  PROVE  /\ Len(stack) \in Nat /\ Len(stack) >= 1 /\ DOMAIN stack = 1..Len(stack)
         /\ Top = stack[Len(stack)] /\ Top \in Frame
         /\ \A t : /\ Without(t) \in Seq(Frame)
                   /\ Len(Without(t)) = Len(stack)
                   /\ \A i \in 1..Len(stack) :
                        /\ Without(t)[i].of = stack[i].of
                        /\ Without(t)[i].left = LeftAt(i, t)
<1>1. Len(stack) \in Nat /\ Len(stack) >= 1 /\ DOMAIN stack = 1..Len(stack)
  OBVIOUS
<1>2. Top = stack[Len(stack)] /\ Top \in Frame
  BY <1>1 DEF Top
<1>. SUFFICES ASSUME NEW t
              PROVE  /\ Without(t) \in Seq(Frame)
                     /\ Len(Without(t)) = Len(stack)
                     /\ \A i \in 1..Len(stack) :
                          /\ Without(t)[i].of = stack[i].of
                          /\ Without(t)[i].left = LeftAt(i, t)
  BY <1>1, <1>2
<1>. DEFINE c == Call(Top.of, Top.left \ {t})
<1>3. c \in Frame /\ c.of = Top.of /\ c.left = Top.left \ {t}
  BY <1>2 DEF Call, Frame
<1>4. Without(t) = [stack EXCEPT ![Len(stack)] = c]
  BY DEF Without
<1>. HIDE DEF c
<1>5. Without(t) \in Seq(Frame) /\ Len(Without(t)) = Len(stack)
  BY <1>1, <1>3, <1>4
<1>. QED BY <1>1, <1>2, <1>3, <1>4, <1>5 DEF LeftAt

LEMMA ReuseStack ==
  ASSUME TypeInv, NEW t \in Type, Reuse(t)
  PROVE  /\ stack \in Seq(Frame) /\ stack' \in Seq(Frame) /\ DOMAIN stack' = DOMAIN stack
         /\ Len(stack) \in Nat /\ Len(stack) >= 1 /\ DOMAIN stack = 1..Len(stack)
         /\ \A i \in DOMAIN stack :
              /\ stack'[i].of = stack[i].of
              /\ stack'[i].left = LeftAt(i, t)
<1>1. stack \in Seq(Frame) /\ stack # <<>> /\ stack' = Without(t)
  BY DEF Reuse, Calling, TypeInv, TypeOK, Frame
<1>. DEFINE w == Without(t)
<1>2. /\ w \in Seq(Frame) /\ Len(w) = Len(stack)
      /\ \A i \in 1..Len(stack) :
           /\ w[i].of = stack[i].of
           /\ w[i].left = LeftAt(i, t)
  BY <1>1, StackEdited
<1>3. Len(stack) \in Nat /\ Len(stack) >= 1 /\ DOMAIN stack = 1..Len(stack)
  BY <1>1, StackEdited
<1>4. stack' = w
  BY <1>1
<1>. HIDE DEF w
<1>5. stack' \in Seq(Frame) /\ DOMAIN stack' = 1..Len(stack)
  BY <1>2, <1>4
<1>. QED BY <1>1, <1>2, <1>3, <1>4, <1>5

LEMMA ReserveStack ==
  ASSUME TypeInv, NEW t \in Type, Reserve(t)
  PROVE  /\ stack \in Seq(Frame) /\ stack' \in Seq(Frame)
         /\ Len(stack) \in Nat /\ Len(stack) >= 1 /\ DOMAIN stack = 1..Len(stack)
         /\ DOMAIN stack' = 1..(Len(stack) + 1) /\ stack' # <<>>
         /\ \A i \in 1..Len(stack) :
              /\ stack'[i].of = stack[i].of
              /\ stack'[i].left = LeftAt(i, t)
         /\ stack'[Len(stack) + 1].of = t /\ stack'[Len(stack) + 1].left = References(t)
<1>. DEFINE c == Call(t, References(t))
            w == Without(t)
<1>1. c \in Frame /\ c.of = t /\ c.left = References(t)
  BY ReferencesTyped DEF Reserve, Call, Frame, TypeInv
<1>2. stack \in Seq(Frame) /\ stack # <<>> /\ stack' = Append(w, c)
  BY DEF Reserve, Calling, TypeInv, TypeOK, Frame
<1>3. /\ w \in Seq(Frame) /\ Len(w) = Len(stack)
      /\ \A i \in 1..Len(stack) :
           /\ w[i].of = stack[i].of
           /\ w[i].left = LeftAt(i, t)
  BY <1>2, StackEdited
<1>4. Len(stack) \in Nat /\ Len(stack) >= 1 /\ DOMAIN stack = 1..Len(stack)
  BY <1>2, StackEdited
<1>. HIDE DEF c, w
<1>5. /\ stack' \in Seq(Frame) /\ DOMAIN stack' = 1..(Len(stack) + 1) /\ stack' # <<>>
      /\ stack'[Len(stack) + 1] = c /\ \A i \in 1..Len(stack) : stack'[i] = w[i]
  BY <1>1, <1>2, <1>3, <1>4
<1>. QED BY <1>1, <1>2, <1>3, <1>4, <1>5

LEMMA BuildStack ==
  ASSUME TypeInv, Build
  PROVE  /\ stack \in Seq(Frame) /\ stack' \in Seq(Frame) /\ stack' # <<>>
         /\ Len(stack) \in Nat /\ Len(stack) > 1 /\ DOMAIN stack = 1..Len(stack)
         /\ DOMAIN stack' = 1..(Len(stack) - 1)
         /\ \A i \in DOMAIN stack' : stack'[i] = stack[i]
         /\ Top = stack[Len(stack)]
<1>1. stack \in Seq(Frame) /\ Len(stack) > 1 /\ stack' = SubSeq(stack, 1, Len(stack) - 1)
  BY DEF Build, TypeInv, TypeOK, Frame
<1>. DEFINE n == Len(stack) - 1
<1>2. n \in Nat /\ n >= 1 /\ n + 1 = Len(stack) /\ DOMAIN stack = 1..(n + 1)
  BY <1>1
<1>3. stack' = SubSeq(stack, 1, n)
  BY <1>1
<1>. HIDE DEF n
<1>4. stack' \in Seq(Frame) /\ Len(stack') = n /\ \A i \in 1..n : stack'[i] = stack[i]
  BY <1>1, <1>2, <1>3
<1>5. stack' # <<>>
  BY <1>2, <1>4
<1>6. n = Len(stack) - 1
  BY DEF n
<1>. QED BY <1>1, <1>2, <1>4, <1>5, <1>6 DEF Top

\* What the binding of a request is made of.
LEMMA BindingTyped ==
  /\ \A var \in Nat \union {None}, path \in Seq(Name), in \in {"path", "query", "body", "object"},
        sensitive \in BOOLEAN, refs \in SUBSET Type :
       use \in Nat => Place(var, path, in, sensitive, refs) \in Placed
  /\ \A var \in Nat, msg \in Type \union {None}, at \in Seq(Name), rest \in Seq(Name) \ {<<>>},
        sensitive \in BOOLEAN :
       Segment(var, msg, at, rest, sensitive) \in Segments
  /\ \A msg \in Type \union {None}, at \in Seq(Name), bound \in SUBSET Seq(Name),
        sensitive \in BOOLEAN, seen \in SUBSET (Type \union {None}) :
       Descent(msg, at, bound, sensitive, seen) \in Descents
BY DEF Place, Placed, Segment, Segments, Descent, Descents

\* Past one component there is another.
LEMMA TailLonger ==
  ASSUME NEW S, NEW q \in Seq(S), q # <<>>, Len(q) # 1
  PROVE  Tail(q) \in Seq(S) \ {<<>>}
<1>1. Tail(q) \in Seq(S) /\ Len(Tail(q)) = Len(q) - 1
  BY HeadTailProperties
<1>2. Len(q) \in Nat /\ Len(q) # 0
  OBVIOUS
<1>3. Len(Tail(q)) # 0
  BY <1>1, <1>2
<1>4. Tail(q) # <<>>
  BY <1>1, <1>3, EmptySeq
<1>. QED BY <1>1, <1>4

LEMMA MarkersTyped ==
  ASSUME RunKnown
  PROVE  /\ \A t : SensitiveType(t) \in BOOLEAN
         /\ \A t, f : f \in FieldsOf(t) => FieldSensitive(f) \in BOOLEAN
<1>1. \A t : SensitiveType(t) \in BOOLEAN
  BY DeclTyped DEF SensitiveType, Decl
<1>. QED BY <1>1 DEF FieldSensitive

\* Nothing of what a generation is given changes.
LEMMA RunStays == [Next]_vars => UNCHANGED run
BY DEF Next, vars, schemas, bindings, Contribute, CheckTransitive, FetchHistory, Reuse, Reserve,
       UnknownType, Build, SchemasBuilt, SkipUse, RefuseUse, BeginUse, ResolveLeaf, ResolveComponent,
       RefuseSegment, Descend, RefuseDescent, RenderSchemas, FinishUse, Emit

LEMMA TypeStep == TypeInv /\ [Next]_vars => TypeInv'
<1>. SUFFICES ASSUME TypeInv, [Next]_vars PROVE TypeInv'
  OBVIOUS
<1>. USE DEF TypeInv
<1>a. UNCHANGED run /\ RunKnown' /\ Uses' = Uses /\ Image' = Image
  BY RunStays DEF RunKnown, Uses, Image
<1>d. \A m : UNCHANGED packTiers => MethodIncluded(m)' = MethodIncluded(m)
  BY <1>a DEF MethodIncluded, Included, RankOf
<1>e. UNCHANGED use => Current' = Current
  BY <1>a DEF Current
<1>. DEFINE Rest == TypeOK /\ Idle /\ Taken
<1>. SUFFICES Rest'
  BY <1>a
<1>1. ASSUME NEW topic \in topics, Contribute(topic) PROVE Rest'
  <2>1. topic \in [anchor : Element, rank : Rank]
    BY RunTyped DEF TypeOK
  <2>2. packTiers' \in [Element -> Rank \union {0}]
    BY <1>1, <2>1 DEF Contribute, TypeOK
  <2>. QED BY <1>1, <1>a, <2>2 DEF Contribute, TypeOK, Idle, Taken, schemas, bindings
<1>2. CASE CheckTransitive
  BY <1>2, <1>a DEF CheckTransitive, Refuse, TypeOK, Idle, Taken, schemas, bindings
<1>3. CASE FetchHistory
  <2>1. Call(None, Roots) \in Frame /\ Call(None, Roots).of = None
    BY DEF Call, Roots, Frame, Image
  <2>2. <<Call(None, Roots)>> \in Seq(Frame)
    BY <2>1
  <2>3. CASE stack' = <<Call(None, Roots)>>
    <3>1. stack' \in Seq(Frame) /\ DOMAIN stack' = {1} /\ stack'[1].of = None
      BY <2>1, <2>2, <2>3
    <3>2. Taken'
      BY <3>1 DEF Taken
    <3>. QED BY <1>3, <1>a, <3>1, <3>2 DEF FetchHistory, Refuse, TypeOK, Idle, bindings, Frame
  <2>4. CASE UNCHANGED stack
    BY <1>3, <1>a, <2>4 DEF FetchHistory, Refuse, TypeOK, Idle, Taken, bindings
  <2>. QED BY <1>3, <2>3, <2>4 DEF FetchHistory
<1>4. ASSUME NEW t \in Type, Reuse(t) PROVE Rest'
  <2>1. stack' \in Seq(Frame) /\ Taken'
    BY <1>4, ReuseStack DEF Taken, Reuse
  <2>. QED BY <1>4, <1>a, <1>d, <1>e, <2>1 DEF Reuse, Calling, TypeOK, Idle, bindings, Frame
<1>5. ASSUME NEW t \in Type, Reserve(t) PROVE Rest'
  <2>1. stack' \in Seq(Frame)
    BY <1>5, ReserveStack
  <2>2. Taken'
    BY <1>5, ReserveStack DEF Taken, Reserve
  <2>. QED BY <1>5, <1>a, <1>d, <1>e, <2>1, <2>2 DEF Reserve, Calling, TypeOK, Idle, bindings, Frame
<1>6. ASSUME NEW t \in Type, UnknownType(t) PROVE Rest'
  BY <1>6, <1>a DEF UnknownType, Calling, Refuse, TypeOK, Idle, Taken, schemas, bindings
<1>7. CASE Build
  <2>1. stack' \in Seq(Frame) /\ Top.of \in reserved /\ Taken'
    BY <1>7, BuildStack DEF Taken, Build
  <2>. QED BY <1>7, <1>a, <1>d, <1>e, <2>1 DEF Build, Calling, TypeOK, Idle, bindings, Frame
<1>8. CASE SchemasBuilt
  BY <1>8, <1>a DEF SchemasBuilt, TypeOK, Idle, Taken, bindings
<1>9. CASE SkipUse
  BY <1>9, <1>a, RunTyped DEF SkipUse, Beginning, TypeOK, Idle, Taken, schemas, bindings
<1>10. CASE RefuseUse
  BY <1>10, <1>a DEF RefuseUse, Beginning, Refuse, TypeOK, Idle, Taken, schemas, bindings
<1>11. CASE BeginUse
  <2>. use \in Uses /\ MethodIncluded(Current.method)
    BY <1>11 DEF BeginUse, Beginning
  <2>1. /\ Request(use) \in Type /\ Current.params \in Seq(Seq(Name) \ {<<>>})
        /\ Links(Current.params) \subseteq Seq(Name)
    BY CurrentTyped DEF Use, Links
  <2>2. SensitiveType(Request(use)) \in BOOLEAN /\ use \in Nat /\ <<>> \in Seq(Name)
    BY MarkersTyped, RunTyped
  <2>3. segments' \subseteq Segments
    <3>1. \A i \in DOMAIN Current.params : i \in Nat /\ Current.params[i] \in Seq(Name) \ {<<>>}
      BY <2>1
    <3>2. \A i \in DOMAIN Current.params :
            Segment(i, Request(use), <<>>, Current.params[i], FALSE) \in Segments
      BY <2>1, <2>2, <3>1, BindingTyped
    <3>. QED BY <1>11, <3>2 DEF BeginUse
  <2>4. walk' \subseteq Descents
    <3>1. Descent(Request(use), <<>>, Links(Current.params), FALSE, {Request(use)}) \in Descents
      BY <2>1, <2>2, BindingTyped
    <3>. QED BY <1>11, <3>1 DEF BeginUse
  <2>5. placed' \subseteq Placed
    <3>1. Place(None, <<>>, "body", SensitiveType(Request(use)), {Request(use)}) \in Placed
      BY <2>1, <2>2, BindingTyped
    <3>. QED BY <1>11, <3>1 DEF BeginUse, TypeOK
  <2>. QED BY <1>11, <1>a, <1>d, <1>e, <2>3, <2>4, <2>5
       DEF BeginUse, Beginning, TypeOK, Idle, Taken, schemas
<1>12. ASSUME NEW s \in segments, ResolveLeaf(s) PROVE Rest'
  <2>1. PICK f \in Component(s) :
          placed' = placed \union {Place(s.var, Append(s.at, f.name), "path", Inherited(s, f), FieldRefs(f))}
    BY <1>12 DEF ResolveLeaf
  <2>2. s \in Segments /\ stage = "binding"
    BY <1>12 DEF TypeOK, ResolveLeaf
  <2>3. f \in FieldsOf(s.msg)
    BY DEF Component
  <2>4. /\ Append(s.at, f.name) \in Seq(Name) /\ Inherited(s, f) \in BOOLEAN
        /\ FieldRefs(f) \in SUBSET Type /\ use \in Nat /\ s.var \in Nat
    BY <2>2, <2>3, FieldTyped, MarkersTyped, RunTyped
       DEF Segments, Field, Inherited, SensitiveHere, Idle
  <2>5. placed' \subseteq Placed
    BY <2>1, <2>4, BindingTyped DEF TypeOK
  <2>. QED BY <1>12, <1>a, <1>d, <1>e, <2>2, <2>5 DEF ResolveLeaf, TypeOK, Idle, Taken, schemas
<1>13. ASSUME NEW s \in segments, ResolveComponent(s) PROVE Rest'
  <2>1. PICK f \in Component(s) :
          segments' = (segments \ {s}) \union
            {Segment(s.var, f.to, Append(s.at, f.name), Tail(s.rest), Inherited(s, f))}
    BY <1>13 DEF ResolveComponent
  <2>2. s \in Segments /\ stage = "binding"
    BY <1>13 DEF TypeOK, ResolveComponent
  <2>3. f \in FieldsOf(s.msg)
    BY DEF Component
  <2>4. /\ f.to \in Type \union {None} /\ Append(s.at, f.name) \in Seq(Name)
        /\ Inherited(s, f) \in BOOLEAN /\ s.var \in Nat
    BY <2>2, <2>3, FieldTyped, MarkersTyped DEF Segments, Field, Inherited, SensitiveHere
  <2>5. Tail(s.rest) \in Seq(Name) \ {<<>>}
    <3>1. s.rest \in Seq(Name) /\ s.rest # <<>> /\ Len(s.rest) # 1
      BY <1>13, <2>2 DEF Segments, ResolveComponent, Leaf
    <3>. QED BY <3>1, TailLonger
  <2>6. Segment(s.var, f.to, Append(s.at, f.name), Tail(s.rest), Inherited(s, f)) \in Segments
    BY <2>4, <2>5, BindingTyped
  <2>7. segments' \subseteq Segments
    BY <2>1, <2>6 DEF TypeOK
  <2>. QED BY <1>13, <1>a, <1>d, <1>e, <2>2, <2>7 DEF ResolveComponent, TypeOK, Idle, Taken, schemas
<1>14. ASSUME NEW s \in segments, RefuseSegment(s) PROVE Rest'
  BY <1>14, <1>a DEF RefuseSegment, Refuse, TypeOK, Idle, Taken, schemas, bindings
<1>15. ASSUME NEW d \in walk, Descend(d) PROVE Rest'
  <2>1. d \in Descents /\ stage = "binding" /\ use \in Nat
    BY <1>15, RunTyped DEF Descend, Descending, TypeOK, Idle
  <2>2. \A n : Under(d.bound, n) \subseteq Seq(Name)
    <3>1. \A q \in Seq(Name) : Len(q) > 1 => Tail(q) \in Seq(Name)
      <4>. TAKE q \in Seq(Name)
      <4>. HAVE Len(q) > 1
      <4>1. q # <<>>
        OBVIOUS
      <4>. QED BY <4>1
    <3>2. d.bound \subseteq Seq(Name)
      BY <2>1 DEF Descents
    <3>. QED BY <3>1, <3>2 DEF Under
  <2>3. \A f \in Remaining(d) :
          /\ Append(d.at, f.name) \in Seq(Name) /\ Inherited(d, f) \in BOOLEAN
          /\ FieldRefs(f) \in SUBSET Type /\ f.to \in Type \union {None}
    BY <2>1, FieldTyped, MarkersTyped DEF Remaining, Descents, Field, Inherited, SensitiveHere
  <2>4. placed' \subseteq Placed
    <3>1. \A f \in Remaining(d) :
            /\ Place(None, Append(d.at, f.name), Where, Inherited(d, f), FieldRefs(f)) \in Placed
            /\ Place(None, Append(d.at, f.name), "object", Inherited(d, f), {}) \in Placed
      BY <2>1, <2>3, BindingTyped DEF Where
    <3>. QED BY <1>15, <3>1 DEF Descend, Plain, Containers, TypeOK
  <2>5. walk' \subseteq Descents
    <3>1. d.seen \in SUBSET (Type \union {None})
      BY <2>1 DEF Descents
    <3>2. \A f \in Remaining(d) :
            Descent(f.to, Append(d.at, f.name), Under(d.bound, f.name), Inherited(d, f),
                    d.seen \union {f.to}) \in Descents
      BY <2>2, <2>3, <3>1, BindingTyped
    <3>. QED BY <1>15, <3>2 DEF Descend, Containers, TypeOK
  <2>. QED BY <1>15, <1>a, <1>d, <1>e, <2>1, <2>4, <2>5 DEF Descend, TypeOK, Idle, Taken, schemas
<1>16. ASSUME NEW d \in walk, RefuseDescent(d) PROVE Rest'
  BY <1>16, <1>a DEF RefuseDescent, Descending, Refuse, TypeOK, Idle, Taken, schemas, bindings
<1>17. CASE RenderSchemas
  <2>1. use \in Uses /\ MethodIncluded(Current.method)
    BY <1>17 DEF RenderSchemas, Idle
  <2>2. Call(None, Needs(use)) \in Frame /\ Call(None, Needs(use)).of = None
    BY <2>1, NeedsTyped DEF Call, Frame
  <2>3. stack' = <<Call(None, Needs(use))>>
    BY <1>17 DEF RenderSchemas
  <2>4. stack' \in Seq(Frame) /\ DOMAIN stack' = {1} /\ stack'[1].of = None
    BY <2>2, <2>3
  <2>5. Taken'
    BY <2>4 DEF Taken
  <2>. QED BY <1>17, <1>a, <1>d, <1>e, <2>1, <2>4, <2>5 DEF RenderSchemas, TypeOK, Idle, bindings, Frame
<1>18. CASE FinishUse
  <2>1. use \in Uses
    BY <1>18 DEF FinishUse, Idle
  <2>2. [use |-> use, id |-> OperationId(use), codes |-> CodeSources(Request(use))] \in Operation
    BY <2>1, CurrentTyped, RunTyped DEF Operation, CodeSources
  <2>3. operations' \subseteq Operation
    BY <1>18, <2>2 DEF FinishUse, TypeOK
  <2>4. use' \in 1..(Len(run.uses) + 1)
    BY <1>18, <2>1, RunTyped DEF FinishUse
  <2>. QED BY <1>18, <1>a, <2>3, <2>4 DEF FinishUse, Refuse, TypeOK, Idle, Taken, bindings
<1>19. CASE Emit
  <2>1. \A op : Since(op) \subseteq Nat
    BY RunTyped DEF Since, FirstSeen, Versions
  <2>2. built \subseteq Type /\ ReportTypes \subseteq Type
    BY RunAssumption DEF TypeOK, Image
  <2>3. document'.components \in SUBSET Type
    BY <1>19, <2>2 DEF Emit
  <2>4. document'.operations \in SUBSET [op : Operation, since : SUBSET Nat]
    BY <1>19, <2>1 DEF Emit, TypeOK
  <2>5. document' \in [components : SUBSET Type,
                        operations : SUBSET [op : Operation, since : SUBSET Nat]]
    BY <1>19, <2>3, <2>4 DEF Emit
  <2>6. use = Len(run.uses) + 1
    BY <1>19, RunTyped DEF Emit, TypeOK
  <2>. QED BY <1>19, <1>a, <2>5, <2>6 DEF Emit, TypeOK, Idle, Taken, schemas, bindings
<1>20. CASE UNCHANGED vars
  BY <1>20, <1>a, <1>d, <1>e DEF vars, schemas, bindings, TypeOK, Idle, Taken
<1>. HIDE DEF Rest
<1>. QED BY <1>1, <1>2, <1>3, <1>4, <1>5, <1>6, <1>7, <1>8, <1>9, <1>10, <1>11, <1>12, <1>13,
            <1>14, <1>15, <1>16, <1>17, <1>18, <1>19, <1>20 DEF Next

\* A generation is well typed: of every schema, configuration and history.
THEOREM TypeCorrect == Spec => []TypeOK
<1>1. Spec => []TypeInv
  BY InitTypeInv, TypeStep, PTL DEF Spec
<1>2. TypeInv => TypeOK
  BY DEF TypeInv
<1>. QED BY <1>1, <1>2, PTL

-----------------------------------------------------------------------------
(* What an audience may see. *)

\* The topics contributed are in the index.
Heard == \A topic \in run.topics \ topics : topic.rank <= packTiers[topic.anchor]

\* Past checkTransitive the index is complete and its closure consistent.
Settled == stage \notin {"pack", "refused"} => topics = {} /\ Consistent

\* What may be shown: a library's types, and the author's within the tier.
Shown == {t \in Type : Author(t) => Included(t)}

\* Nothing else is called for, placed or rendered.
OnlyShown ==
  /\ reserved \subseteq Shown
  /\ \A i \in DOMAIN stack : stack[i].left \subseteq Shown
  /\ \A s \in segments : s.msg \in Shown \union {None}
  /\ \A d \in walk : d.msg \in Shown \union {None}
  /\ \A p \in placed : p.refs \subseteq Shown
  /\ \A op \in operations :
       /\ op.use \in Uses /\ MethodIncluded(run.uses[op.use].method)
       /\ op.codes \subseteq Shown

FromRendered ==
  Emitted =>
    /\ document.components \subseteq built \union ReportTypes
    /\ \A o \in document.operations : o.op \in operations

VisibilityInv == TypeInv /\ Heard /\ Settled /\ OnlyShown /\ FromRendered

LEMMA RanksTyped ==
  ASSUME TypeInv
  PROVE  /\ \A e \in Element : /\ RankOf(e) \in Nat /\ run.globs[e] \in Nat /\ packTiers[e] \in Nat
                               /\ run.globs[e] <= RankOf(e) /\ packTiers[e] <= RankOf(e)
         /\ run.tier \in Nat
         /\ \A topic \in run.topics : topic.rank \in Nat /\ topic.anchor \in Element
<1>1. \A e \in Element : run.globs[e] \in Nat /\ packTiers[e] \in Nat
  <2>1. Rank \union {0} \subseteq Nat
    BY DEF Rank
  <2>2. run.globs \in [Element -> Rank] /\ packTiers \in [Element -> Rank \union {0}]
    BY RunTyped DEF TypeInv, TypeOK
  <2>. QED BY <2>1, <2>2
<1>2. \A e \in Element :
        RankOf(e) \in Nat /\ run.globs[e] <= RankOf(e) /\ packTiers[e] <= RankOf(e)
  BY <1>1 DEF RankOf
<1>3. run.tier \in Nat /\ \A topic \in run.topics : topic.rank \in Nat /\ topic.anchor \in Element
  BY RunTyped DEF TypeInv, Rank
<1>. QED BY <1>1, <1>2, <1>3

\* Google's types are a library's.
LEMMA GoogleShown ==
  ASSUME RunKnown, NEW t \in Google
  PROVE  t \in Shown
BY RunAssumption, LibraryAssumption DEF RunKnown, Shown, Author, Image

\* Of what a type that may be shown mentions, all may.
LEMMA MentionsShown ==
  ASSUME TypeInv, Consistent, NEW t \in Image, t \in Shown
  PROVE  Mentions(run.image[t]) \ {None} \subseteq Shown
<1>1. t \in Type /\ run.image[t] \in Decl /\ t \notin Method /\ t \in Element
  BY DeclTyped, RunAssumption DEF TypeInv, Element
<1>2. Mentions(run.image[t]) \ {None} \subseteq Type
  <2>1. run.image[t].base \in Type \union {None}
    BY <1>1 DEF Decl
  <2>2. \A f \in run.image[t].fields : f.to \in Type \union {None} /\ f.chain \in Seq(Type)
    BY <1>1 DEF Decl, Field
  <2>. QED BY <2>1, <2>2 DEF Mentions, Links
<1>3. CASE run.image[t].generated
  <2>1. \A s \in Mentions(run.image[t]) \ {None} : run.image[s] # None => run.image[s].generated
    BY <1>1, <1>3, LibraryAssumption DEF TypeInv, RunKnown, Image
  <2>. QED BY <1>2, <2>1 DEF Shown, Author, Image
<1>4. CASE ~run.image[t].generated
  <2>1. RankOf(t) <= run.tier
    BY <1>4 DEF Shown, Author, Included
  <2>2. Mentions(run.image[t]) \ ({None} \union Google) \subseteq Edges(t)
    BY <1>1, <1>4 DEF Mentions, Edges, TypeEdges, FieldEdges
  <2>3. \A s \in Edges(t) : RankOf(s) <= RankOf(t)
    BY <1>1 DEF Consistent
  <2>4. \A s \in Mentions(run.image[t]) \ ({None} \union Google) : RankOf(s) <= run.tier
    BY <1>1, <1>2, <2>1, <2>2, <2>3, RanksTyped DEF Element
  <2>5. \A s \in Google : s \in Shown
    BY GoogleShown DEF TypeInv
  <2>. QED BY <1>2, <2>4, <2>5 DEF Shown, Included
<1>. QED BY <1>3, <1>4

\* What a field leads to, and what a schema refers to.
LEMMA FieldShown ==
  ASSUME TypeInv, Consistent, NEW t, NEW f \in FieldsOf(t), t \in Shown \union {None}
  PROVE  /\ FieldRefs(f) \subseteq Shown /\ f.to \in Shown \union {None}
         /\ Links(f.chain) \subseteq Shown
<1>1. /\ f \in Field /\ t \in Image /\ f \in run.image[t].fields
      /\ FieldRefs(f) \subseteq ({f.to} \union Links(f.chain)) \ {None}
  BY FieldTyped DEF TypeInv
<1>2. t \in Shown
  BY <1>1, NoneOutside
<1>3. Mentions(run.image[t]) \ {None} \subseteq Shown
  BY <1>1, <1>2, MentionsShown
<1>4. {f.to} \union Links(f.chain) \subseteq Mentions(run.image[t])
  BY <1>1 DEF Mentions
<1>5. Links(f.chain) \subseteq Type
  BY <1>1 DEF Field, Links
<1>. QED BY <1>1, <1>3, <1>4, <1>5, NoneOutside

LEMMA ReferencesShown ==
  ASSUME TypeInv, Consistent, NEW t \in Image, t \in Shown
  PROVE  References(t) \subseteq Shown
BY MentionsShown, ReferencesTyped DEF TypeInv

\* An included method's request and response may be shown.
LEMMA MethodShown ==
  ASSUME TypeInv, Consistent, NEW m \in Method, MethodIncluded(m)
  PROVE  run.methods[m].input \in Shown /\ run.methods[m].output \in Shown \union {None}
<1>1. run.methods[m].input \in Type /\ run.methods[m].output \in Type \union {None}
  BY RunTyped DEF TypeInv
<1>2. RankOf(m) <= run.tier
  BY DEF MethodIncluded, Included
<1>3. {run.methods[m].input, run.methods[m].output} \ ({None} \union Google) \subseteq Edges(m)
  BY DEF Edges, MethodEdges
<1>4. \A s \in Edges(m) : RankOf(s) <= RankOf(m)
  BY DEF Consistent
<1>5. \A s \in {run.methods[m].input, run.methods[m].output} \ ({None} \union Google) :
        RankOf(s) <= run.tier
  BY <1>1, <1>2, <1>3, <1>4, RanksTyped DEF Element
<1>6. run.methods[m].input # None
  BY <1>1, NoneOutside
<1>7. \A s \in Google : s \in Shown
  BY GoogleShown DEF TypeInv
<1>. QED BY <1>1, <1>5, <1>6, <1>7 DEF Shown, Included

\* Error codes are collected from nothing else.
LEMMA CodesShown ==
  ASSUME TypeInv, Consistent, NEW t \in Shown
  PROVE  CodeSources(t) \subseteq Shown
<1>1. \A x \in Shown : CodeEdges(x) \subseteq Shown
  <2>. TAKE x \in Shown
  <2>1. CASE x \in Image
    <3>1. \A f \in FieldsOf(x) : f.to \in Shown \union {None} /\ Links(f.chain) \subseteq Shown
      BY FieldShown
    <3>2. {run.image[x].base} \ {None} \subseteq Shown
      BY <2>1, MentionsShown DEF Mentions
    <3>. QED BY <2>1, <3>1, <3>2 DEF CodeEdges
  <2>. QED BY <2>1 DEF CodeEdges
<1>2. Shown \in SUBSET Type
  BY DEF Shown
<1>. QED BY <1>1, <1>2 DEF CodeSources

LEMMA InitVisibility == Init => VisibilityInv
BY InitTypeInv DEF Init, VisibilityInv, Heard, Settled, OnlyShown, FromRendered, Emitted

LEMMA VisibilityStep == VisibilityInv /\ [Next]_vars => VisibilityInv'
<1>. SUFFICES ASSUME VisibilityInv, [Next]_vars PROVE VisibilityInv'
  OBVIOUS
<1>a. TypeInv /\ TypeInv' /\ UNCHANGED run
  BY TypeStep, RunStays DEF VisibilityInv
<1>b. Image' = Image /\ Uses' = Uses /\ \A t : Author(t)' = Author(t)
  BY <1>a DEF Image, Uses, Author
<1>c. UNCHANGED packTiers => /\ Shown' = Shown /\ Consistent' = Consistent
                             /\ \A m : MethodIncluded(m)' = MethodIncluded(m)
  BY <1>a, <1>b DEF Shown, Included, RankOf, Consistent, Edges, TypeEdges, MethodEdges, MethodIncluded
<1>. DEFINE Rest == Heard /\ Settled /\ OnlyShown /\ FromRendered
<1>r. Rest
  BY DEF VisibilityInv
<1>. SUFFICES Rest'
  BY <1>a DEF VisibilityInv
<1>1. ASSUME NEW topic \in topics, Contribute(topic) PROVE Rest'
  <2>1. /\ topics \subseteq run.topics /\ run.topics \subseteq [anchor : Element, rank : Rank]
        /\ packTiers \in [Element -> Rank \union {0}]
    BY <1>a, RunTyped DEF TypeInv, TypeOK
  <2>2. Heard'
    <3>1. \A e \in Element : packTiers'[e] \in Nat /\ packTiers[e] \in Nat /\ packTiers[e] <= packTiers'[e]
      BY <1>1, <2>1 DEF Contribute, Rank
    <3>2. topic.rank <= packTiers'[topic.anchor]
      BY <1>1, <2>1 DEF Contribute, Rank
    <3>3. \A other \in run.topics \ topics : other.rank <= packTiers'[other.anchor]
      BY <1>r, <2>1, <3>1 DEF Heard, Rank
    <3>. QED BY <1>1, <1>a, <3>2, <3>3 DEF Heard, Contribute
  <2>. QED BY <1>1, <1>a, <2>2 DEF Contribute, TypeInv, Idle, Settled, OnlyShown, FromRendered, Emitted,
           schemas, bindings
<1>2. CASE CheckTransitive
  BY <1>2, <1>a, <1>c, <1>r DEF CheckTransitive, Refuse, TypeInv, Idle, Heard, Settled, OnlyShown,
     FromRendered, Emitted, schemas, bindings
<1>3. CASE FetchHistory
  <2>1. Roots \subseteq Shown
    BY DEF Roots, Shown, Image
  <2>. QED BY <1>3, <1>a, <1>b, <1>c, <1>r, <2>1
           DEF FetchHistory, Call, Refuse, Heard, Settled, OnlyShown, FromRendered, Emitted, bindings
<1>4. ASSUME NEW t \in Type, Reuse(t) PROVE Rest'
  <2>1. \A i \in DOMAIN stack' : stack'[i].left \subseteq Shown
    BY <1>4, <1>a, <1>r, ReuseStack DEF OnlyShown, LeftAt
  <2>. QED BY <1>4, <1>a, <1>b, <1>c, <1>r, <2>1
           DEF Reuse, Calling, Heard, Settled, OnlyShown, FromRendered, Emitted, bindings
<1>5. ASSUME NEW t \in Type, Reserve(t) PROVE Rest'
  <2>1. Consistent /\ t \in Top.left /\ t \in Image
    BY <1>5, <1>r DEF Reserve, Calling, Settled
  <2>2. t \in Shown
    BY <1>5, <1>a, <1>r, <2>1, ReserveStack DEF OnlyShown, Top
  <2>3. References(t) \subseteq Shown
    BY <1>a, <2>1, <2>2, ReferencesShown
  <2>4. \A i \in DOMAIN stack' : stack'[i].left \subseteq Shown
    <3>1. \A i \in 1..Len(stack) : LeftAt(i, t) \subseteq Shown
      BY <1>5, <1>a, <1>r, ReserveStack DEF OnlyShown, LeftAt
    <3>2. DOMAIN stack' = 1..(Len(stack) + 1) /\ Len(stack) \in Nat
          /\ stack'[Len(stack) + 1].left = References(t)
          /\ \A i \in 1..Len(stack) : stack'[i].left = LeftAt(i, t)
      BY <1>5, <1>a, ReserveStack
    <3>. QED BY <2>3, <3>1, <3>2
  <2>. QED BY <1>5, <1>a, <1>b, <1>c, <1>r, <2>2, <2>4
           DEF Reserve, Calling, Heard, Settled, OnlyShown, FromRendered, Emitted, bindings
<1>6. ASSUME NEW t \in Type, UnknownType(t) PROVE Rest'
  BY <1>6, <1>a, <1>b, <1>c, <1>r
     DEF UnknownType, Calling, Refuse, Heard, Settled, OnlyShown, FromRendered, Emitted, schemas, bindings
<1>7. CASE Build
  <2>1. \A i \in DOMAIN stack' : stack'[i].left \subseteq Shown
    <3>1. DOMAIN stack' \subseteq DOMAIN stack /\ \A i \in DOMAIN stack' : stack'[i] = stack[i]
      BY <1>7, <1>a, BuildStack
    <3>2. \A i \in DOMAIN stack : stack[i].left \subseteq Shown
      BY <1>r DEF OnlyShown
    <3>. QED BY <3>1, <3>2
  <2>. QED BY <1>7, <1>a, <1>b, <1>c, <1>r, <2>1
           DEF Build, Calling, Heard, Settled, OnlyShown, FromRendered, Emitted, bindings
<1>8. CASE SchemasBuilt
  BY <1>8, <1>a, <1>b, <1>c, <1>r
     DEF SchemasBuilt, Heard, Settled, OnlyShown, FromRendered, Emitted, bindings
<1>9. CASE SkipUse
  BY <1>9, <1>a, <1>b, <1>c, <1>r
     DEF SkipUse, Beginning, Heard, Settled, OnlyShown, FromRendered, Emitted, schemas, bindings
<1>10. CASE RefuseUse
  BY <1>10, <1>a, <1>b, <1>c, <1>r
     DEF RefuseUse, Beginning, Refuse, Heard, Settled, OnlyShown, FromRendered, Emitted, schemas, bindings
<1>11. CASE BeginUse
  <2>1. use \in Uses /\ MethodIncluded(Current.method) /\ Consistent
    BY <1>11, <1>r DEF BeginUse, Beginning, Settled
  <2>2. Request(use) \in Shown
    BY <1>a, <2>1, CurrentTyped, MethodShown DEF TypeInv, Request, Current
  <2>3. \A s \in segments' : s.msg \in Shown
    BY <1>11, <2>2 DEF BeginUse, Segment
  <2>4. \A d \in walk' : d.msg \in Shown
    BY <1>11, <2>2 DEF BeginUse, Descent
  <2>5. \A p \in placed' : p.refs \subseteq Shown
    <3>1. Place(None, <<>>, "body", SensitiveType(Request(use)), {Request(use)}).refs \subseteq Shown
      BY <2>2 DEF Place
    <3>2. placed' \subseteq placed \union {Place(None, <<>>, "body", SensitiveType(Request(use)), {Request(use)})}
      BY <1>11 DEF BeginUse
    <3>. QED BY <1>r, <3>1, <3>2 DEF OnlyShown
  <2>. QED BY <1>11, <1>a, <1>b, <1>c, <1>r, <2>3, <2>4, <2>5
           DEF BeginUse, Beginning, Heard, Settled, OnlyShown, FromRendered, Emitted, schemas
<1>12. ASSUME NEW s \in segments, ResolveLeaf(s) PROVE Rest'
  <2>1. PICK f \in Component(s) :
          placed' = placed \union {Place(s.var, Append(s.at, f.name), "path", Inherited(s, f), FieldRefs(f))}
    BY <1>12 DEF ResolveLeaf
  <2>2. Consistent /\ s.msg \in Shown \union {None} /\ f \in FieldsOf(s.msg)
    BY <1>12, <1>r DEF ResolveLeaf, Settled, OnlyShown, Component
  <2>3. FieldRefs(f) \subseteq Shown
    BY <1>a, <2>2, FieldShown
  <2>4. \A p \in placed' : p.refs \subseteq Shown
    BY <1>r, <2>1, <2>3 DEF OnlyShown, Place
  <2>. QED BY <1>12, <1>a, <1>b, <1>c, <1>r, <2>4
           DEF ResolveLeaf, Heard, Settled, OnlyShown, FromRendered, Emitted, schemas
<1>13. ASSUME NEW s \in segments, ResolveComponent(s) PROVE Rest'
  <2>1. PICK f \in Component(s) :
          segments' = (segments \ {s}) \union
            {Segment(s.var, f.to, Append(s.at, f.name), Tail(s.rest), Inherited(s, f))}
    BY <1>13 DEF ResolveComponent
  <2>2. Consistent /\ s.msg \in Shown \union {None} /\ f \in FieldsOf(s.msg)
    BY <1>13, <1>r DEF ResolveComponent, Settled, OnlyShown, Component
  <2>3. f.to \in Shown \union {None}
    BY <1>a, <2>2, FieldShown
  <2>4. \A q \in segments' : q.msg \in Shown \union {None}
    BY <1>r, <2>1, <2>3 DEF OnlyShown, Segment
  <2>. QED BY <1>13, <1>a, <1>b, <1>c, <1>r, <2>4
           DEF ResolveComponent, Heard, Settled, OnlyShown, FromRendered, Emitted, schemas
<1>14. ASSUME NEW s \in segments, RefuseSegment(s) PROVE Rest'
  BY <1>14, <1>a, <1>b, <1>c, <1>r
     DEF RefuseSegment, Refuse, Heard, Settled, OnlyShown, FromRendered, Emitted, schemas, bindings
<1>15. ASSUME NEW d \in walk, Descend(d) PROVE Rest'
  <2>1. Consistent /\ d.msg \in Shown \union {None}
    BY <1>15, <1>r DEF Descend, Descending, Settled, OnlyShown
  <2>2. \A f \in Remaining(d) : FieldRefs(f) \subseteq Shown /\ f.to \in Shown \union {None}
    BY <1>a, <2>1, FieldShown DEF Remaining
  <2>3. \A p \in placed' : p.refs \subseteq Shown
    BY <1>15, <1>r, <2>2 DEF Descend, Place, Plain, Containers, OnlyShown
  <2>4. \A q \in walk' : q.msg \in Shown \union {None}
    BY <1>15, <1>r, <2>2 DEF Descend, Descent, Containers, OnlyShown
  <2>. QED BY <1>15, <1>a, <1>b, <1>c, <1>r, <2>3, <2>4
           DEF Descend, Descending, Heard, Settled, OnlyShown, FromRendered, Emitted, schemas
<1>16. ASSUME NEW d \in walk, RefuseDescent(d) PROVE Rest'
  BY <1>16, <1>a, <1>b, <1>c, <1>r DEF RefuseDescent, Descending, Refuse, Heard, Settled, OnlyShown,
     FromRendered, Emitted, schemas, bindings
<1>17. CASE RenderSchemas
  <2>1. Consistent /\ use \in Uses /\ MethodIncluded(Current.method)
    BY <1>17, <1>a, <1>r DEF RenderSchemas, Settled, TypeInv, Idle
  <2>2. run.methods[run.uses[use].method].output \in Shown \union {None}
    BY <1>a, <2>1, CurrentTyped, MethodShown DEF TypeInv, Current
  <2>3. Needs(use) \subseteq Shown
    BY <1>r, <2>2 DEF Needs, OnlyShown
  <2>. QED BY <1>17, <1>a, <1>b, <1>c, <1>r, <2>3
           DEF RenderSchemas, Call, Heard, Settled, OnlyShown, FromRendered, Emitted, bindings
<1>18. CASE FinishUse
  <2>1. Consistent /\ use \in Uses /\ MethodIncluded(Current.method)
    BY <1>18, <1>a, <1>r DEF FinishUse, Settled, TypeInv, Idle
  <2>2. Request(use) \in Shown
    BY <1>a, <2>1, CurrentTyped, MethodShown DEF TypeInv, Request, Current
  <2>3. CodeSources(Request(use)) \subseteq Shown
    BY <1>a, <2>1, <2>2, CodesShown
  <2>4. \A op \in operations' : /\ op.use \in Uses /\ MethodIncluded(run.uses[op.use].method)
                                /\ op.codes \subseteq Shown
    BY <1>18, <1>r, <2>1, <2>3 DEF FinishUse, OnlyShown, Current
  <2>. QED BY <1>18, <1>a, <1>b, <1>c, <1>r, <2>4
           DEF FinishUse, Refuse, Heard, Settled, OnlyShown, FromRendered, Emitted, bindings
<1>19. CASE Emit
  <2>1. document'.components \subseteq built \union ReportTypes
    BY <1>19 DEF Emit
  <2>2. \A o \in document'.operations : o.op \in operations
    BY <1>19 DEF Emit
  <2>. QED BY <1>19, <1>a, <1>b, <1>c, <1>r, <2>1, <2>2
           DEF Emit, Heard, Settled, OnlyShown, FromRendered, Emitted, schemas, bindings
<1>20. CASE UNCHANGED vars
  BY <1>20, <1>a, <1>b, <1>c, <1>r
     DEF vars, schemas, bindings, Heard, Settled, OnlyShown, FromRendered, Emitted
<1>. HIDE DEF Rest
<1>. QED BY <1>1, <1>2, <1>3, <1>4, <1>5, <1>6, <1>7, <1>8, <1>9, <1>10, <1>11, <1>12, <1>13,
            <1>14, <1>15, <1>16, <1>17, <1>18, <1>19, <1>20 DEF Next

\* Nothing of a more restricted element is in a document: of every API,
\* configuration, pack and audience.
THEOREM RestrictsNothing == Spec => []NothingRestricted
<1>1. Spec => []VisibilityInv
  BY InitVisibility, VisibilityStep, PTL DEF Spec
<1>2. VisibilityInv => NothingRestricted
  <2>. SUFFICES ASSUME VisibilityInv, Emitted PROVE NothingRestricted
    BY DEF NothingRestricted
  <2>1. TypeInv /\ RunKnown /\ topics = {}
    BY DEF VisibilityInv, TypeInv, Settled, Emitted
  <2>2. \A e \in Element : Included(e) => Visible(e)
    <3>1. \A topic \in run.topics : topic.rank <= packTiers[topic.anchor]
      BY <2>1 DEF VisibilityInv, Heard
    <3>. QED BY <2>1, <3>1, RanksTyped DEF Included, Visible
  <2>3. \A t \in Shown : Author(t) => Visible(t)
    BY <2>2 DEF Shown, Element
  <2>4. \A t \in ReportTypes : ~Author(t)
    BY <2>1, RunAssumption, LibraryAssumption DEF RunKnown, Author, Image
  <2>5. \A t \in document.components : Author(t) => Visible(t)
    BY <2>1, <2>3, <2>4 DEF VisibilityInv, FromRendered, OnlyShown, TypeInv, TypeOK
  <2>6. ASSUME NEW o \in document.operations
        PROVE  LET m == run.uses[o.op.use].method
               IN  /\ Visible(m) /\ Visible(run.methods[m].service)
                   /\ \A t \in o.op.codes : Author(t) => Visible(t)
    <3>. DEFINE m == run.uses[o.op.use].method
    <3>1. o.op.use \in Uses /\ MethodIncluded(m) /\ o.op.codes \subseteq Shown
      BY DEF VisibilityInv, FromRendered, OnlyShown
    <3>2. m \in Method /\ run.methods[m].service \in Service
      <4>1. run.uses[o.op.use] \in Use
        BY <2>1, <3>1, RunTyped
      <4>2. m \in Method
        BY <4>1 DEF Use
      <4>. QED BY <2>1, <4>2, RunTyped
    <3>. QED BY <2>2, <2>3, <3>1, <3>2 DEF MethodIncluded, Element
  <2>. QED BY <2>5, <2>6 DEF NothingRestricted
<1>. QED BY <1>1, <1>2, PTL

-----------------------------------------------------------------------------
(* The slots of component. *)

\* Whatever holds a slot is built or on the stack, and has its references
\* reserved but for those left to it.
Slots ==
  /\ NeverTwice
  /\ \A i \in DOMAIN stack : stack[i].of \notin built
  /\ \A t \in reserved \ built : \E i \in DOMAIN stack : stack[i].of = t
  /\ \A i \in DOMAIN stack : i # 1 => References(stack[i].of) \subseteq reserved \union stack[i].left
  /\ \A t \in built : References(t) \subseteq reserved

\* So has each operation rendered, and the one being rendered.
Served ==
  /\ stage = "rendering" => stack # <<>> /\ Needs(use) \subseteq reserved \union stack[1].left
  /\ \A op \in operations : op.use < use /\ Needs(op.use) \subseteq reserved

ComponentsKept ==
  Emitted =>
    /\ document.components = built \union IF operations = {} THEN {} ELSE ReportTypes
    /\ \A o \in document.operations : o.op \in operations

SlotsInv == TypeInv /\ Slots /\ Served /\ ComponentsKept

LEMMA InitSlots == Init => SlotsInv
BY InitTypeInv DEF Init, SlotsInv, Slots, NeverTwice, Served, ComponentsKept, Emitted

\* When the first call returns, whatever was reserved is built.
LEMMA AllBuilt ==
  ASSUME TypeInv, Slots, stack = <<>> \/ (stack # <<>> /\ Returned)
  PROVE  reserved = built
<1>1. \A i \in DOMAIN stack : i = 1
  <2>1. stack \in Seq(Frame)
    BY DEF TypeInv, TypeOK, Frame
  <2>. QED BY <2>1 DEF Returned
<1>2. \A i \in DOMAIN stack : stack[i].of = None
  BY <1>1 DEF TypeInv, Taken
<1>3. None \notin reserved
  BY NoneOutside DEF TypeInv, TypeOK
<1>. QED BY <1>2, <1>3 DEF Slots, TypeInv, TypeOK

LEMMA ReuseSlots ==
  ASSUME SlotsInv, NEW t \in Type, Reuse(t)
  PROVE  Slots' /\ (stage = "rendering" => Needs(use) \subseteq reserved \union stack'[1].left)
<1>1. TypeInv /\ Slots /\ Served /\ t \in reserved
  BY DEF SlotsInv, Reuse
<1>2. UNCHANGED <<run, reserved, built, stage>> /\ \A s : References(s)' = References(s)
  BY DEF Reuse, References
<1>3. /\ Len(stack) \in Nat /\ Len(stack) >= 1 /\ DOMAIN stack = 1..Len(stack)
      /\ DOMAIN stack' = DOMAIN stack
      /\ \A i \in DOMAIN stack : stack'[i].of = stack[i].of /\ stack'[i].left = LeftAt(i, t)
  BY <1>1, ReuseStack
<1>4. \A i \in DOMAIN stack : stack[i].left \subseteq {t} \union stack'[i].left
  BY <1>3 DEF LeftAt
<1>5. Slots'
  BY <1>1, <1>2, <1>3, <1>4 DEF Slots, NeverTwice
<1>. QED BY <1>1, <1>3, <1>4, <1>5 DEF Served

LEMMA ReserveSlots ==
  ASSUME SlotsInv, NEW t \in Type, Reserve(t)
  PROVE  Slots' /\ (stage = "rendering" => Needs(use) \subseteq reserved' \union stack'[1].left)
<1>1. TypeInv /\ Slots /\ Served /\ t \notin reserved /\ t # None
  BY NoneOutside DEF SlotsInv, Reserve
<1>2. /\ UNCHANGED <<run, built, stage>> /\ reserved' = reserved \union {t}
      /\ \A s : References(s)' = References(s)
  BY DEF Reserve, References
<1>. DEFINE n == Len(stack) + 1
<1>3. /\ n \in Nat /\ n > 1 /\ DOMAIN stack = 1..(n - 1) /\ DOMAIN stack' = 1..n
      /\ \A i \in DOMAIN stack : stack'[i].of = stack[i].of /\ stack'[i].left = LeftAt(i, t)
      /\ stack'[n].of = t /\ stack'[n].left = References(t)
  BY <1>1, ReserveStack
<1>4. \A i \in DOMAIN stack : stack[i].left \subseteq {t} \union stack'[i].left
  BY <1>3 DEF LeftAt
<1>. HIDE DEF n
<1>5. DOMAIN stack' = DOMAIN stack \union {n} /\ n \notin DOMAIN stack /\ n # 1
  BY <1>3
<1>6. \A i \in DOMAIN stack : stack[i].of # t
  BY <1>1 DEF TypeInv, Taken
<1>7. NeverTwice'
  BY <1>1, <1>3, <1>5, <1>6 DEF Slots, NeverTwice
<1>8. \A i \in DOMAIN stack' : stack'[i].of \notin built
  BY <1>1, <1>3, <1>5 DEF Slots, TypeInv, TypeOK
<1>9. \A s \in reserved' \ built : \E i \in DOMAIN stack' : stack'[i].of = s
  BY <1>1, <1>2, <1>3, <1>5 DEF Slots
<1>10. \A i \in DOMAIN stack' : i # 1 => References(stack'[i].of) \subseteq reserved' \union stack'[i].left
  BY <1>1, <1>2, <1>3, <1>4, <1>5 DEF Slots
<1>11. Slots'
  BY <1>1, <1>2, <1>7, <1>8, <1>9, <1>10 DEF Slots
<1>12. 1 \in DOMAIN stack
  BY <1>3
<1>. QED BY <1>1, <1>2, <1>4, <1>11, <1>12 DEF Served

LEMMA BuildSlots ==
  ASSUME SlotsInv, Build
  PROVE  Slots' /\ (stage = "rendering" => Needs(use) \subseteq reserved \union stack'[1].left)
<1>1. TypeInv /\ Slots /\ Served /\ Top.left = {}
  BY DEF SlotsInv, Build
<1>2. /\ UNCHANGED <<run, reserved, stage>> /\ built' = built \union {Top.of}
      /\ \A s : References(s)' = References(s)
  BY DEF Build, References
<1>. DEFINE n == Len(stack)
<1>3. /\ n \in Nat /\ n > 1 /\ DOMAIN stack = 1..n /\ DOMAIN stack' = 1..(n - 1)
      /\ \A i \in DOMAIN stack' : stack'[i] = stack[i]
      /\ Top = stack[n]
  BY <1>1, BuildStack
<1>. HIDE DEF n
<1>4. DOMAIN stack = DOMAIN stack' \union {n} /\ n \notin DOMAIN stack' /\ n # 1 /\ 1 \in DOMAIN stack'
  BY <1>3
<1>5. References(Top.of) \subseteq reserved /\ Top.of \in reserved
  BY <1>1, <1>3, <1>4 DEF Slots, TypeInv, Taken
<1>6. NeverTwice' /\ \A i \in DOMAIN stack' : stack'[i].of \notin built'
  BY <1>1, <1>2, <1>3, <1>4 DEF Slots, NeverTwice
<1>7. \A t \in reserved \ built' : \E i \in DOMAIN stack' : stack'[i].of = t
  BY <1>1, <1>2, <1>3, <1>4 DEF Slots
<1>8. Slots'
  BY <1>1, <1>2, <1>3, <1>4, <1>5, <1>6, <1>7 DEF Slots
<1>. QED BY <1>1, <1>3, <1>4, <1>8 DEF Served

LEMMA SlotsStep == SlotsInv /\ [Next]_vars => SlotsInv'
<1>. SUFFICES ASSUME SlotsInv, [Next]_vars PROVE SlotsInv'
  OBVIOUS
<1>a. TypeInv /\ TypeInv' /\ UNCHANGED run
  BY TypeStep, RunStays DEF SlotsInv
<1>b. Image' = Image /\ Uses' = Uses /\ \A t : References(t)' = References(t)
  BY <1>a DEF Image, Uses, References
<1>c. UNCHANGED placed => \A n : Needs(n)' = Needs(n)
  BY <1>a DEF Needs
<1>d. UNCHANGED <<stack, reserved, built>> => Slots'
  BY <1>b DEF SlotsInv, Slots, NeverTwice
<1>e. \* Binding one use adds to the needs of no other.
      ASSUME UNCHANGED <<use, operations, reserved>>, \A p \in placed' : p \in placed \/ p.use = use,
             placed \subseteq placed', stage' # "rendering"
      PROVE  Served'
  <2>1. use \in Nat
    BY <1>a, RunTyped DEF TypeInv, TypeOK
  <2>2. \A op \in operations : op.use < use /\ op.use \in Nat
    BY <1>a DEF SlotsInv, Served, TypeInv, TypeOK, Operation
  <2>3. \A op \in operations : Needs(op.use)' = Needs(op.use)
    <3>. TAKE op \in operations
    <3>1. op.use # use
      BY <2>1, <2>2
    <3>2. {p \in placed' : p.use = op.use} = {p \in placed : p.use = op.use}
      BY <1>e, <3>1
    <3>. QED BY <1>a, <3>2 DEF Needs
  <2>. QED BY <1>e, <2>3 DEF SlotsInv, Served
<1>. DEFINE Rest == Slots /\ Served /\ ComponentsKept
<1>r. Rest
  BY DEF SlotsInv
<1>. SUFFICES Rest'
  BY <1>a DEF SlotsInv
<1>1. ASSUME NEW topic \in topics, Contribute(topic) PROVE Rest'
  BY <1>1, <1>c, <1>d, <1>r DEF Contribute, Served, ComponentsKept, Emitted, schemas, bindings
<1>2. CASE CheckTransitive
  BY <1>2, <1>c, <1>d, <1>r DEF CheckTransitive, Refuse, Served, ComponentsKept, Emitted, schemas, bindings
<1>3. CASE FetchHistory
  <2>1. UNCHANGED <<reserved, built, use, operations, placed>> /\ stage' \in {"schemas", "refused"}
    BY <1>3 DEF FetchHistory, Refuse, bindings
  <2>2. CASE stack' = <<Call(None, Roots)>>
    <3>1. DOMAIN stack' = {1} /\ stack'[1].of = None
      BY <2>2 DEF Call
    <3>2. reserved = {} /\ built = {}
      BY <1>3, <1>a DEF FetchHistory, TypeInv, TypeOK, Idle
    <3>3. Slots'
      BY <1>b, <2>1, <3>1, <3>2 DEF Slots, NeverTwice
    <3>. QED BY <1>c, <1>r, <2>1, <3>3 DEF Served, ComponentsKept, Emitted
  <2>3. CASE UNCHANGED stack
    BY <1>c, <1>d, <1>r, <2>1, <2>3 DEF Served, ComponentsKept, Emitted
  <2>. QED BY <1>3, <2>2, <2>3 DEF FetchHistory
<1>4. ASSUME NEW t \in Type, Reuse(t) PROVE Rest'
  <2>1. stack' # <<>>
    BY <1>4, <1>a, ReuseStack
  <2>. QED BY <1>4, <1>c, <1>r, <2>1, ReuseSlots
           DEF Reuse, Calling, Served, ComponentsKept, Emitted, bindings
<1>5. ASSUME NEW t \in Type, Reserve(t) PROVE Rest'
  <2>1. stack' # <<>>
    BY <1>5, <1>a, ReserveStack
  <2>. QED BY <1>5, <1>c, <1>r, <2>1, ReserveSlots
           DEF Reserve, Calling, Served, ComponentsKept, Emitted, bindings
<1>6. ASSUME NEW t \in Type, UnknownType(t) PROVE Rest'
  BY <1>6, <1>c, <1>d, <1>r
     DEF UnknownType, Calling, Refuse, Served, ComponentsKept, Emitted, schemas, bindings
<1>7. CASE Build
  <2>1. stack' # <<>>
    BY <1>7, <1>a, BuildStack
  <2>. QED BY <1>7, <1>c, <1>r, <2>1, BuildSlots
           DEF Build, Calling, Served, ComponentsKept, Emitted, bindings
<1>8. CASE SchemasBuilt
  <2>1. reserved = built
    BY <1>8, <1>a, <1>r, AllBuilt DEF SchemasBuilt, Returned
  <2>2. Slots'
    BY <1>8, <1>b, <1>r, <2>1 DEF SchemasBuilt, Slots, NeverTwice
  <2>. QED BY <1>8, <1>c, <1>r, <2>2 DEF SchemasBuilt, Served, ComponentsKept, Emitted, bindings
<1>9. CASE SkipUse
  <2>1. \A op \in operations : op.use < use'
    BY <1>9, <1>a, <1>r, RunTyped DEF SkipUse, Served, TypeInv, TypeOK, Operation
  <2>. QED BY <1>9, <1>c, <1>d, <1>r, <2>1
           DEF SkipUse, Beginning, Served, ComponentsKept, Emitted, schemas, bindings
<1>10. CASE RefuseUse
  BY <1>10, <1>c, <1>d, <1>r
     DEF RefuseUse, Beginning, Refuse, Served, ComponentsKept, Emitted, schemas, bindings
<1>11. CASE BeginUse
  <2>1. placed \subseteq placed' /\ \A p \in placed' : p \in placed \/ p.use = use
    <3>. DEFINE whole == Place(None, <<>>, "body", SensitiveType(Request(use)), {Request(use)})
    <3>1. whole.use = use
      BY DEF Place
    <3>2. placed' = placed \union {whole} \/ UNCHANGED placed
      BY <1>11 DEF BeginUse
    <3>. HIDE DEF whole
    <3>. QED BY <3>1, <3>2
  <2>. QED BY <1>11, <1>d, <1>e, <1>r, <2>1 DEF BeginUse, ComponentsKept, Emitted, schemas
<1>12. ASSUME NEW s \in segments, ResolveLeaf(s) PROVE Rest'
  <2>1. placed \subseteq placed' /\ \A p \in placed' : p \in placed \/ p.use = use
    BY <1>12 DEF ResolveLeaf, Place
  <2>. QED BY <1>12, <1>d, <1>e, <1>r, <2>1 DEF ResolveLeaf, ComponentsKept, Emitted, schemas
<1>13. ASSUME NEW s \in segments, ResolveComponent(s) PROVE Rest'
  BY <1>13, <1>c, <1>d, <1>r DEF ResolveComponent, Served, ComponentsKept, Emitted, schemas
<1>14. ASSUME NEW s \in segments, RefuseSegment(s) PROVE Rest'
  BY <1>14, <1>c, <1>d, <1>r DEF RefuseSegment, Refuse, Served, ComponentsKept, Emitted, schemas, bindings
<1>15. ASSUME NEW d \in walk, Descend(d) PROVE Rest'
  <2>1. placed \subseteq placed' /\ \A p \in placed' : p \in placed \/ p.use = use
    <3>. DEFINE bound(in, f, refs) == Place(None, Append(d.at, f.name), in, Inherited(d, f), refs)
    <3>1. \A f, in, refs : bound(in, f, refs).use = use
      BY DEF Place
    <3>. HIDE DEF bound
    <3>2. placed' = placed \union {bound(Where, f, FieldRefs(f)) : f \in Plain(d)}
                   \union IF Where = "query" THEN {}
                          ELSE {bound("object", f, {}) : f \in Containers(d)}
      BY <1>15 DEF Descend, bound
    <3>. QED BY <3>1, <3>2
  <2>. QED BY <1>15, <1>d, <1>e, <1>r, <2>1 DEF Descend, Descending, ComponentsKept, Emitted, schemas
<1>16. ASSUME NEW d \in walk, RefuseDescent(d) PROVE Rest'
  BY <1>16, <1>c, <1>d, <1>r
     DEF RefuseDescent, Descending, Refuse, Served, ComponentsKept, Emitted, schemas, bindings
<1>17. CASE RenderSchemas
  <2>1. stack = <<>> /\ reserved = built
    BY <1>17, <1>a, <1>r, AllBuilt DEF RenderSchemas, TypeInv, Idle
  <2>2. stack' = <<Call(None, Needs(use))>> /\ UNCHANGED <<reserved, built, placed, use, operations, document>>
        /\ stage' = "rendering"
    BY <1>17 DEF RenderSchemas, bindings
  <2>3. DOMAIN stack' = {1} /\ stack'[1].of = None /\ stack'[1].left = Needs(use) /\ stack' # <<>>
    BY <2>2 DEF Call
  <2>4. None \notin built
    BY <1>a, <2>1, NoneOutside DEF TypeInv, TypeOK
  <2>5. Slots'
    BY <1>b, <1>r, <2>1, <2>2, <2>3, <2>4 DEF Slots, NeverTwice
  <2>. QED BY <1>c, <1>r, <2>2, <2>3, <2>5 DEF Served, ComponentsKept, Emitted
<1>18. CASE FinishUse
  <2>1. reserved = built /\ stack # <<>> /\ stack[1].left = {} /\ use \in Nat
    <3>1. Len(stack) = 1 /\ Top.left = {} /\ stack # <<>>
      BY <1>18, <1>r DEF FinishUse, Returned, Served
    <3>. QED BY <1>18, <1>a, <1>r, <3>1, AllBuilt, RunTyped DEF FinishUse, Top, TypeInv, TypeOK
  <2>2. Needs(use) \subseteq reserved
    BY <1>18, <1>r, <2>1 DEF FinishUse, Served
  <2>3. Slots'
    BY <1>18, <1>b, <1>r, <2>1 DEF FinishUse, Slots, NeverTwice
  <2>4. \A op \in operations' : op.use < use' /\ Needs(op.use) \subseteq reserved
    BY <1>18, <1>a, <1>r, <2>1, <2>2 DEF FinishUse, Refuse, Served, TypeInv, TypeOK, Operation
  <2>. QED BY <1>18, <1>c, <1>r, <2>3, <2>4 DEF FinishUse, Refuse, Served, ComponentsKept, Emitted, bindings
<1>19. CASE Emit
  <2>1. document'.components = built \union IF operations = {} THEN {} ELSE ReportTypes
    BY <1>19 DEF Emit
  <2>2. \A o \in document'.operations : o.op \in operations
    BY <1>19 DEF Emit
  <2>. QED BY <1>19, <1>c, <1>d, <1>r, <2>1, <2>2 DEF Emit, Served, ComponentsKept, schemas, bindings
<1>20. CASE UNCHANGED vars
  BY <1>20, <1>c, <1>d, <1>r DEF vars, schemas, bindings, Served, ComponentsKept, Emitted
<1>. HIDE DEF Rest
<1>. QED BY <1>1, <1>2, <1>3, <1>4, <1>5, <1>6, <1>7, <1>8, <1>9, <1>10, <1>11, <1>12, <1>13,
            <1>14, <1>15, <1>16, <1>17, <1>18, <1>19, <1>20 DEF Next

\* No type is under construction twice: component recurses no deeper than
\* there are types, whatever cycles the schema has.
THEOREM RecursionEnds == Spec => []NeverTwice
<1>1. Spec => []SlotsInv
  BY InitSlots, SlotsStep, PTL DEF Spec
<1>2. SlotsInv => NeverTwice
  BY DEF SlotsInv, Slots
<1>. QED BY <1>1, <1>2, PTL

\* Each $ref of a component, of a binding and of a response lands.
THEOREM RefsLand == Spec => []NoDanglingRef
<1>1. Spec => []SlotsInv
  BY InitSlots, SlotsStep, PTL DEF Spec
<1>2. SlotsInv => NoDanglingRef
  <2>. SUFFICES ASSUME SlotsInv, Emitted PROVE NoDanglingRef
    BY DEF NoDanglingRef
  <2>1. reserved = built
    BY AllBuilt DEF SlotsInv, TypeInv, Idle, Emitted
  <2>2. \A o \in document.operations : o.op \in operations
    BY DEF SlotsInv, ComponentsKept
  <2>3. built \subseteq document.components
        /\ (operations # {} => ReportTypes \subseteq document.components)
    BY DEF SlotsInv, ComponentsKept
  <2>4. \A t \in built : References(t) \subseteq document.components
    BY <2>1, <2>3 DEF SlotsInv, Slots
  <2>5. \A o \in document.operations : Needs(o.op.use) \union ReportTypes \subseteq document.components
    BY <2>1, <2>2, <2>3 DEF SlotsInv, Served
  <2>. QED BY <2>4, <2>5 DEF NoDanglingRef
<1>. QED BY <1>1, <1>2, PTL

-----------------------------------------------------------------------------
(* The operations. *)

\* Each use site passed is rendered if its method may be seen, under an id
\* and at a path of its own.
Rendered ==
  /\ \A op \in operations : op.use \in 1..(use - 1) /\ MethodIncluded(run.uses[op.use].method)
  /\ \A n \in 1..(use - 1) : MethodIncluded(run.uses[n].method) => \E op \in operations : op.use = n
  /\ \A op, q \in operations : op.id = q.id \/ Key(op.use) = Key(q.use) => op = q
  /\ stage \in {"binding", "rendering"} => \A op \in operations : op.id # OperationId(use)

Copied ==
  Emitted =>
    document.operations =
      {[op |-> op, since |-> Since(op)] : op \in {o \in operations : run.uses[o.use].verb \in methodOrder}}

OperationsInv == TypeInv /\ Rendered /\ Copied

LEMMA InitOperations == Init => OperationsInv
BY InitTypeInv DEF Init, OperationsInv, Rendered, Copied, Emitted

LEMMA OperationsStep == OperationsInv /\ [Next]_vars => OperationsInv'
<1>. SUFFICES ASSUME OperationsInv, [Next]_vars PROVE OperationsInv'
  OBVIOUS
<1>a. TypeInv /\ TypeInv' /\ UNCHANGED run
  BY TypeStep, RunStays DEF OperationsInv
<1>b. \A n : Key(n)' = Key(n) /\ OperationId(n)' = OperationId(n)
  BY <1>a DEF Key, OpenAPIPath, OperationId
<1>c. UNCHANGED packTiers => \A m : MethodIncluded(m)' = MethodIncluded(m)
  BY <1>a DEF MethodIncluded, Included, RankOf
<1>s. UNCHANGED packTiers => \A op : Since(op)' = Since(op)
  <2>1. UNCHANGED packTiers => \A n, op : Stamps(n, op)' = Stamps(n, op)
    BY <1>a, <1>b, <1>c DEF Stamps
  <2>2. \A e : FirstSeen(e)' = FirstSeen(e)
    BY <1>a DEF FirstSeen, Versions
  <2>3. Uses' = Uses
    BY <1>a DEF Uses
  <2>4. ASSUME UNCHANGED packTiers, NEW op PROVE Since(op)' = Since(op)
    <3>1. {k \in Uses : Stamps(k, op)}' = {k \in Uses : Stamps(k, op)}
      BY <2>1, <2>3, <2>4
    <3>. QED BY <1>a, <2>2, <3>1 DEF Since
  <2>. QED BY <2>4
<1>. DEFINE Rest == Rendered /\ Copied
<1>r. Rest
  BY DEF OperationsInv
<1>u. use \in Nat /\ use >= 1
  BY <1>a, RunTyped DEF TypeInv, TypeOK
<1>. SUFFICES Rest'
  BY <1>a DEF OperationsInv
<1>1. ASSUME NEW topic \in topics, Contribute(topic) PROVE Rest'
  BY <1>1, <1>a, <1>u DEF Contribute, TypeInv, Idle, Rendered, Copied, Emitted
<1>2. ASSUME UNCHANGED <<packTiers, use, operations>>, stage' # "emitted",
             stage' \in {"binding", "rendering"} =>
               stage' = stage \/ stage = "binding" \/ \A op \in operations : op.id # OperationId(use)
      PROVE  Rest'
  BY <1>2, <1>a, <1>b, <1>c, <1>r DEF Rendered, Copied, Emitted
<1>3. CASE CheckTransitive \/ FetchHistory \/ SchemasBuilt \/ Build \/ RefuseUse \/ RenderSchemas
  BY <1>2, <1>3
     DEF CheckTransitive, FetchHistory, SchemasBuilt, Build, Calling, RefuseUse, RenderSchemas, Refuse, schemas
<1>4. ASSUME NEW t \in Type, Reuse(t) \/ Reserve(t) \/ UnknownType(t) PROVE Rest'
  BY <1>2, <1>4 DEF Reuse, Reserve, UnknownType, Calling, Refuse
<1>5. ASSUME NEW s \in segments, ResolveLeaf(s) \/ ResolveComponent(s) \/ RefuseSegment(s) PROVE Rest'
  BY <1>2, <1>5 DEF ResolveLeaf, ResolveComponent, RefuseSegment, Refuse
<1>6. ASSUME NEW d \in walk, Descend(d) \/ RefuseDescent(d) PROVE Rest'
  BY <1>2, <1>6 DEF Descend, RefuseDescent, Descending, Refuse
<1>7. CASE BeginUse
  BY <1>2, <1>7 DEF BeginUse, Beginning, Sound
<1>8. CASE SkipUse
  <2>1. 1..(use' - 1) = 1..(use - 1) \union {use}
    BY <1>8, <1>u DEF SkipUse
  <2>. QED BY <1>8, <1>a, <1>b, <1>c, <1>r, <2>1
           DEF SkipUse, Beginning, Rendered, Copied, Emitted, Current
<1>9. CASE FinishUse
  <2>1. CASE Claimed(use)
    BY <1>2, <1>9, <2>1 DEF FinishUse, Refuse
  <2>2. CASE ~Claimed(use)
    <3>. DEFINE new == [use |-> use, id |-> OperationId(use), codes |-> CodeSources(Request(use))]
    <3>1. operations' = operations \union {new} /\ use' = use + 1 /\ stage' = "operations"
          /\ UNCHANGED packTiers
      BY <1>9, <2>2 DEF FinishUse
    <3>2. new.use = use /\ new.id = OperationId(use)
      OBVIOUS
    <3>. HIDE DEF new
    <3>3. \A op \in operations : op.id # new.id /\ Key(op.use) # Key(new.use)
      BY <1>9, <1>r, <2>2, <3>2 DEF FinishUse, Rendered, Claimed
    <3>4. MethodIncluded(run.uses[use].method)
      BY <1>9, <1>a DEF FinishUse, TypeInv, Idle, Current
    <3>5. 1..(use' - 1) = 1..(use - 1) \union {use}
      BY <1>u, <3>1
    <3>6. \A op, q \in operations' : op.id = q.id \/ Key(op.use) = Key(q.use) => op = q
      BY <1>r, <3>1, <3>3 DEF Rendered
    <3>7. /\ \A op \in operations' : op.use \in 1..(use' - 1) /\ MethodIncluded(run.uses[op.use].method)
          /\ \A n \in 1..(use' - 1) :
               MethodIncluded(run.uses[n].method) => \E op \in operations' : op.use = n
      BY <1>r, <3>1, <3>2, <3>4, <3>5 DEF Rendered
    <3>. QED BY <1>a, <1>b, <1>c, <3>1, <3>6, <3>7 DEF Rendered, Copied, Emitted
  <2>. QED BY <2>1, <2>2
<1>10. CASE Emit
  <2>1. \A op : Since(op)' = Since(op)
    BY <1>10, <1>s DEF Emit
  <2>. QED BY <1>10, <1>a, <1>b, <1>c, <1>r, <2>1 DEF Emit, Rendered, Copied
<1>11. CASE UNCHANGED vars
  <2>1. \A op : Since(op)' = Since(op)
    BY <1>11, <1>s DEF vars
  <2>. QED BY <1>11, <1>a, <1>b, <1>c, <1>r, <2>1 DEF vars, Rendered, Copied, Emitted
<1>. HIDE DEF Rest
<1>. QED BY <1>1, <1>3, <1>4, <1>5, <1>6, <1>7, <1>8, <1>9, <1>10, <1>11 DEF Next

\* When the document is emitted, the operations are those of the methods
\* that may be seen, no two at one path.
LEMMA EmittedOperations ==
  ASSUME OperationsInv, Emitted
  PROVE  /\ \A op \in operations : op.use \in Uses /\ MethodIncluded(run.uses[op.use].method)
         /\ \A n \in Uses : MethodIncluded(run.uses[n].method) => \E op \in operations : op.use = n
<1>1. 1..(use - 1) = Uses
  BY RunTyped DEF OperationsInv, TypeInv, Idle, Emitted
<1>. QED BY <1>1 DEF OperationsInv, Rendered

\* One operation per binding of a visible method, of the verbs OpenAPI has.
THEOREM OneOperationPerBinding == Spec => []OperationPerBinding
<1>1. Spec => []OperationsInv
  BY InitOperations, OperationsStep, PTL DEF Spec
<1>2. OperationsInv => OperationPerBinding
  <2>. SUFFICES ASSUME OperationsInv, Emitted PROVE OperationPerBinding
    BY DEF OperationPerBinding
  <2>1. \A o \in document.operations :
          /\ o.op \in operations /\ run.uses[o.op.use].verb \in methodOrder
          /\ o = [op |-> o.op, since |-> Since(o.op)]
    BY DEF OperationsInv, Copied
  <2>2. \A op \in operations : run.uses[op.use].verb \in methodOrder =>
          \E o \in document.operations : o.op = op
    <3>. TAKE op \in operations
    <3>. HAVE run.uses[op.use].verb \in methodOrder
    <3>1. [op |-> op, since |-> Since(op)] \in document.operations
      BY DEF OperationsInv, Copied
    <3>. QED BY <3>1
  <2>3. {o.op.use : o \in document.operations} =
          {n \in Uses : MethodIncluded(run.uses[n].method) /\ run.uses[n].verb \in methodOrder}
    BY <2>1, <2>2, EmittedOperations
  <2>4. \A o, q \in document.operations :
          o.op.id = q.op.id \/ Key(o.op.use) = Key(q.op.use) => o = q
    BY <2>1 DEF OperationsInv, Rendered
  <2>. QED BY <2>3, <2>4 DEF OperationPerBinding
<1>. QED BY <1>1, <1>2, PTL

\* x-since is that of the operation's own method.
THEOREM SinceIsOwn == Spec => []SinceOfOwner
<1>1. Spec => []OperationsInv
  BY InitOperations, OperationsStep, PTL DEF Spec
<1>2. OperationsInv => SinceOfOwner
  <2>. SUFFICES ASSUME OperationsInv, Emitted, run.history # None, NEW o \in document.operations
                PROVE  LET own == Versions(run.uses[o.op.use].method)
                       IN  o.since = {v \in own : ~\E earlier \in own : earlier < v}
    BY DEF SinceOfOwner
  <2>. DEFINE own == Versions(run.uses[o.op.use].method)
  <2>1. o.op \in operations /\ o.since = Since(o.op)
    BY DEF OperationsInv, Copied
  <2>2. {k \in Uses : Stamps(k, o.op)} = {o.op.use}
    BY <2>1, EmittedOperations DEF Stamps, OperationsInv, Rendered
  <2>3. o.since = FirstSeen(run.uses[o.op.use].method)
    BY <2>1, <2>2 DEF Since
  <2>4. own \subseteq Nat
    BY RunTyped DEF OperationsInv, TypeInv, Versions
  <2>5. {v \in own : \A other \in own : v <= other} = {v \in own : ~\E earlier \in own : earlier < v}
    BY <2>4
  <2>. QED BY <2>3, <2>5 DEF FirstSeen
<1>. QED BY <1>1, <1>2, PTL

-----------------------------------------------------------------------------
(* What a dotted path goes through. *)

\* A field's name tells it from the others of its message.
LEMMA FieldNamed ==
  ASSUME RunKnown, NEW t, NEW f \in FieldsOf(t)
  PROVE  {g \in FieldsOf(t) : g.name = f.name} = {f}
<1>1. t \in Type /\ run.image[t] # None /\ FieldsOf(t) = run.image[t].fields
  BY DEF FieldsOf, FieldsIn, Image
<1>2. \A g \in FieldsOf(t) : g.name = f.name => g = f
  BY <1>1, FieldAssumption DEF RunKnown
<1> QED BY <1>2

\* A path is followed a component at a time.
LEMMA AlongSteps ==
  ASSUME RunKnown, NEW t, NEW path \in Seq(Name)
  PROVE  /\ MessagesAlong(run.image, t, path)[0] = {t}
         /\ \A i \in 1..Len(path) :
              MessagesAlong(run.image, t, path)[i] = Onto(run.image, MessagesAlong(run.image, t, path)[i - 1], path[i])
<1> DEFINE n == Len(path)
           U == Type \union {None, t}
           S == SUBSET U
           F == [p \in (1..n) \X S |-> Onto(run.image, p[2], path[p[1]])]
           P(f) == f = [i \in 0..n |-> IF i = 0 THEN {t} ELSE Onto(run.image, f[i - 1], path[i])]
<1>1. MessagesAlong(run.image, t, path) = CHOOSE f : P(f)
  BY DEF MessagesAlong
<1>2. F \in [(1..n) \X S -> S]
  <2>1. ASSUME NEW x, NEW m, NEW f \in Onward(run.image, m, x) PROVE f.to \in U
    BY FieldTyped DEF Onward, FieldsOf, Field
  <2>2. ASSUME NEW x, NEW ms PROVE Onto(run.image, ms, x) \in S
    BY <2>1 DEF Onto
  <2> HIDE DEF S
  <2> QED BY <2>2
<1>3. PICK g \in [0..n -> S] : g[0] = {t} /\ \A i \in 1..n : g[i] = F[<<i, g[i - 1]>>]
  <2>1. {t} \in S /\ n \in Nat
    OBVIOUS
  <2>2. Stepwise(n, S, {t}, F) # {}
    <3> DEFINE start == {t}
    <3>1. start \in S
      BY <2>1
    <3> HIDE DEF F, S, n, start
    <3>2. Stepwise(n, S, start, F) # {}
      BY <1>2, <2>1, <3>1, StepwiseExists
    <3> QED BY <3>2 DEF start
  <2> HIDE DEF F, S, n
  <2> QED BY <2>2 DEF Stepwise
<1>4. P(g)
  <2> HIDE DEF S
  <2>1. ASSUME NEW i \in 1..n PROVE g[i] = Onto(run.image, g[i - 1], path[i])
    <3>1. i - 1 \in 0..n
      OBVIOUS
    <3>2. g[i - 1] \in S
      BY <1>3, <3>1
    <3> QED BY <1>3, <3>2
  <2>2. ASSUME NEW i \in 0..n PROVE i = 0 \/ i \in 1..n
    OBVIOUS
  <2> QED BY <1>3, <2>1, <2>2
<1>5. P(MessagesAlong(run.image, t, path))
  <2> HIDE DEF P
  <2> QED BY <1>1, <1>4
<1> DEFINE M == MessagesAlong(run.image, t, path)
<1>6. M = [i \in 0..n |-> IF i = 0 THEN {t} ELSE Onto(run.image, M[i - 1], path[i])]
  BY <1>5
<1> HIDE DEF M
<1>7. M[0] = {t} /\ \A i \in 1..n : M[i] = Onto(run.image, M[i - 1], path[i])
  <2>1. 0 \in 0..n /\ \A i \in 1..n : i \in 0..n /\ i # 0
    OBVIOUS
  <2> HIDE DEF n
  <2> QED BY <1>6, <2>1
<1> QED BY <1>7 DEF M

\* Path q goes on from the first n components of path p.
Alike(p, q, n) == \A i \in 1..n : p[i] = q[i]

\* Paths that begin alike go through the same messages and fields.
LEMMA AlongAlike ==
  ASSUME RunKnown, NEW t, NEW p \in Seq(Name), NEW q \in Seq(Name),
         NEW n \in Nat, n <= Len(p), n <= Len(q), Alike(p, q, n)
  PROVE  /\ \A i \in 0..n : MessagesAlong(run.image, t, p)[i] = MessagesAlong(run.image, t, q)[i]
         /\ \A i \in 1..n : FieldsAlong(run.image, t, p)[i] = FieldsAlong(run.image, t, q)[i]
<1> DEFINE Differ == {i \in 0..n : MessagesAlong(run.image, t, p)[i] # MessagesAlong(run.image, t, q)[i]}
<1>0. Len(p) \in Nat /\ Len(q) \in Nat
  OBVIOUS
<1>1. Differ = {}
  <2>1. SUFFICES ASSUME Differ # {} PROVE FALSE
    OBVIOUS
  <2>2. PICK i \in Differ : \A k \in Differ : i <= k
    <3>1. Differ \subseteq Nat
      OBVIOUS
    <3> HIDE DEF Differ
    <3> QED BY <2>1, <3>1, LeastNatural
  <2>3. i # 0
    <3>1. MessagesAlong(run.image, t, p)[0] = {t} /\ MessagesAlong(run.image, t, q)[0] = {t}
      BY AlongSteps
    <3> QED BY <2>2, <3>1
  <2>4. i - 1 \in 0..n /\ i \in 1..Len(p) /\ i \in 1..Len(q) /\ p[i] = q[i]
    BY <1>0, <2>2, <2>3 DEF Alike
  <2>5. MessagesAlong(run.image, t, p)[i - 1] = MessagesAlong(run.image, t, q)[i - 1]
    <3>1. i - 1 \notin Differ
      BY <2>2, <2>4
    <3> QED BY <2>4, <3>1
  <2>6. /\ MessagesAlong(run.image, t, p)[i] = Onto(run.image, MessagesAlong(run.image, t, p)[i - 1], p[i])
        /\ MessagesAlong(run.image, t, q)[i] = Onto(run.image, MessagesAlong(run.image, t, q)[i - 1], q[i])
    BY <2>4, AlongSteps
  <2> QED BY <2>2, <2>4, <2>5, <2>6
<1>2. \A i \in 0..n : MessagesAlong(run.image, t, p)[i] = MessagesAlong(run.image, t, q)[i]
  BY <1>1
<1>3. ASSUME NEW i \in 1..n PROVE FieldsAlong(run.image, t, p)[i] = FieldsAlong(run.image, t, q)[i]
  <2>1. i - 1 \in 0..n /\ i \in 1..Len(p) /\ i \in 1..Len(q) /\ p[i] = q[i]
    BY <1>0 DEF Alike
  <2>2. MessagesAlong(run.image, t, p)[i - 1] = MessagesAlong(run.image, t, q)[i - 1]
    BY <1>2, <2>1
  <2> QED BY <2>1, <2>2 DEF FieldsAlong
<1> QED BY <1>2, <1>3

\* The message that holds what comes after a path.
Leads(t, at, msg) == MessagesAlong(run.image, t, at)[Len(at)] = {msg}

\* A path with a marker on it.
Marked(t, at) ==
  \E i \in 1..Len(at) :
    \/ \E m \in MessagesAlong(run.image, t, at)[i - 1] : SensitiveType(m)
    \/ \E f \in FieldsAlong(run.image, t, at)[i] : FieldSensitive(f)

\* Path p is at and one component more.
Extends(p, at, x) ==
  p \in Seq(Name) /\ Len(p) = Len(at) + 1 /\ p[Len(at) + 1] = x /\ Alike(p, at, Len(at))

LEMMA AppendExtends ==
  ASSUME NEW at \in Seq(Name), NEW x \in Name
  PROVE  Extends(Append(at, x), at, x)
<1> DEFINE p == Append(at, x)
<1>1. p \in Seq(Name) /\ Len(p) = Len(at) + 1 /\ p[Len(at) + 1] = x /\ \A i \in 1..Len(at) : p[i] = at[i]
  OBVIOUS
<1> QED BY <1>1 DEF Extends, Alike

\* The field at the end of a path.
Names(t, p, f) == FieldsAlong(run.image, t, p)[Len(p)] = {f}

\* One field further.
LEMMA Further ==
  ASSUME RunKnown, NEW t, NEW at \in Seq(Name), NEW msg, Leads(t, at, msg),
         NEW f \in FieldsOf(msg), NEW p, Extends(p, at, f.name)
  PROVE  /\ MessagesAlong(run.image, t, p)[Len(at)] = {msg}
         /\ Names(t, p, f)
         /\ f.kind = "message" /\ f.label = "one" => Leads(t, p, f.to)
         /\ Marked(t, p) <=> Marked(t, at) \/ SensitiveType(msg) \/ FieldSensitive(f)
<1> DEFINE n == Len(at)
<1> DEFINE x == f.name
<1>2. p \in Seq(Name) /\ Len(p) = n + 1 /\ n \in Nat /\ p[n + 1] = x /\ Alike(p, at, n)
  BY DEF Extends
<1> HIDE DEF x
<1>3. /\ \A i \in 0..n : MessagesAlong(run.image, t, p)[i] = MessagesAlong(run.image, t, at)[i]
      /\ \A i \in 1..n : FieldsAlong(run.image, t, p)[i] = FieldsAlong(run.image, t, at)[i]
  BY <1>2, AlongAlike
<1>4. MessagesAlong(run.image, t, p)[n] = {msg}
  <2>1. n \in 0..n
    BY <1>2
  <2> QED BY <1>3, <2>1 DEF Leads
<1>5. FieldsAlong(run.image, t, p)[n + 1] = {f}
  <2>1. n + 1 \in 1..Len(p) /\ (n + 1) - 1 = n
    BY <1>2
  <2>2. FieldsAlong(run.image, t, p)[n + 1] = UNION {{g \in FieldsOf(m) : g.name = x} : m \in {msg}}
    BY <1>2, <1>4, <2>1 DEF FieldsAlong, FieldsOf
  <2>3. UNION {{g \in FieldsOf(m) : g.name = x} : m \in {msg}} = {g \in FieldsOf(msg) : g.name = x}
    OBVIOUS
  <2> QED BY <2>2, <2>3, FieldNamed DEF x
<1>6. ASSUME f.kind = "message" /\ f.label = "one" PROVE Leads(t, p, f.to)
  <2>1. n + 1 \in 1..Len(p) /\ (n + 1) - 1 = n
    BY <1>2
  <2>2. Onward(run.image, msg, x) = {f}
    BY <1>6, FieldNamed DEF Onward, FieldsOf, x
  <2>3. MessagesAlong(run.image, t, p)[n + 1] = Onto(run.image, {msg}, x)
    <3>1. \A i \in 1..Len(p) :
            MessagesAlong(run.image, t, p)[i] = Onto(run.image, MessagesAlong(run.image, t, p)[i - 1], p[i])
      BY <1>2, AlongSteps
    <3>2. MessagesAlong(run.image, t, p)[n + 1] = Onto(run.image, MessagesAlong(run.image, t, p)[(n + 1) - 1], p[n + 1])
      BY <2>1, <3>1
    <3>3. p[n + 1] = x /\ MessagesAlong(run.image, t, p)[(n + 1) - 1] = {msg}
      BY <1>2, <1>4, <2>1
    <3> QED BY <3>2, <3>3
  <2>4. Onto(run.image, {msg}, x) = {f.to}
    BY <2>2 DEF Onto
  <2> QED BY <1>2, <2>3, <2>4 DEF Leads
<1>7. Marked(t, p) <=> Marked(t, at) \/ SensitiveType(msg) \/ FieldSensitive(f)
  <2> DEFINE On(r, i) == \/ \E m \in MessagesAlong(run.image, t, r)[i - 1] : SensitiveType(m)
                         \/ \E g \in FieldsAlong(run.image, t, r)[i] : FieldSensitive(g)
  <2>1. (Marked(t, p) <=> \E i \in 1..(n + 1) : On(p, i)) /\ (Marked(t, at) <=> \E i \in 1..n : On(at, i))
    BY <1>2 DEF Marked
  <2>2. ASSUME NEW i \in 1..n PROVE On(p, i) <=> On(at, i)
    <3>1. i - 1 \in 0..n
      BY <1>2
    <3> QED BY <1>3, <3>1
  <2>3. On(p, n + 1) <=> SensitiveType(msg) \/ FieldSensitive(f)
    <3>1. (n + 1) - 1 = n
      BY <1>2
    <3> QED BY <1>4, <1>5, <3>1
  <2> HIDE DEF On
  <2>4. 1..(n + 1) = 1..n \union {n + 1}
    BY <1>2
  <2> QED BY <2>1, <2>2, <2>3, <2>4
<1>8. Names(t, p, f)
  BY <1>2, <1>5 DEF Names
<1> QED BY <1>2, <1>4, <1>6, <1>7, <1>8

-----------------------------------------------------------------------------
(* How markers travel. *)

\* A path has a message at each point only if it has one at those before.
LEMMA MessagesBefore ==
  ASSUME RunKnown, NEW t, NEW p \in Seq(Name), NEW k \in 0..Len(p),
         MessagesAlong(run.image, t, p)[k] # {}, NEW i \in 0..k
  PROVE  MessagesAlong(run.image, t, p)[i] # {}
<1> DEFINE M == MessagesAlong(run.image, t, p)
           Empty == {j \in i..k : M[j] = {}}
<1>0. Len(p) \in Nat /\ k \in Nat /\ i \in Nat /\ i <= k /\ k <= Len(p)
  OBVIOUS
<1>1. ASSUME NEW j \in 1..Len(p), M[j - 1] = {} PROVE M[j] = {}
  <2>1. M[j] = Onto(run.image, M[j - 1], p[j])
    BY AlongSteps
  <2> QED BY <1>1, <2>1 DEF Onto
<1> HIDE DEF M
<1>2. SUFFICES ASSUME M[i] = {} PROVE FALSE
  BY DEF M
<1>3. M[k] # {}
  BY DEF M
<1> DEFINE Full == {j \in i..k : M[j] # {}}
<1>4. PICK j \in Full : \A l \in Full : j <= l
  <2>1. Full \subseteq Nat /\ Full # {}
    BY <1>0, <1>3
  <2> HIDE DEF Full
  <2> QED BY <2>1, LeastNatural
<1>5. j \in i..k /\ M[j] # {} /\ j # i
  BY <1>2, <1>4
<1>6. j - 1 \in i..k /\ j \in 1..Len(p)
  BY <1>0, <1>5
<1>7. M[j - 1] = {}
  <2>1. j - 1 \notin Full
    BY <1>0, <1>4, <1>5
  <2> QED BY <1>6, <2>1
<1> QED BY <1>1, <1>5, <1>6, <1>7

\* A path as resolveFieldPath takes it: its leaf is a value.
Resolved(t, p) ==
  \E f \in FieldsAlong(run.image, t, p)[Len(p)] : f.label = "one" /\ ~Unflat(f)

\* What is bound below a path.
Below(params, at) == {q \in Seq(Name) \ {<<>>} : at \o q \in params}

\* A path and a rest of it, one component on.
LEMMA ComponentOn ==
  ASSUME NEW at \in Seq(Name), NEW q \in Seq(Name), q # <<>>
  PROVE  /\ Head(q) \in Name /\ Tail(q) \in Seq(Name) /\ Len(Tail(q)) = Len(q) - 1
         /\ at \o q = Append(at, Head(q)) \o Tail(q)
         /\ \A n \in Name : Len(<<n>> \o q) = Len(q) + 1
<1>1. Len(q) \in Nat \ {0} /\ Head(q) = q[1] /\ Head(q) \in Name
  BY EmptySeq
<1>2. Tail(q) \in Seq(Name) /\ Len(Tail(q)) = Len(q) - 1 /\ \A i \in 1..Len(Tail(q)) : Tail(q)[i] = q[i + 1]
  BY HeadTailProperties
<1> DEFINE l == at \o q
           r == Append(at, Head(q)) \o Tail(q)
<1>3. /\ l \in Seq(Name) /\ Len(l) = Len(at) + Len(q)
      /\ \A i \in 1..Len(l) : l[i] = IF i <= Len(at) THEN at[i] ELSE q[i - Len(at)]
  BY ConcatProperties
<1> DEFINE a == Append(at, Head(q))
<1>4. a \in Seq(Name) /\ Len(a) = Len(at) + 1 /\ \A i \in 1..Len(a) : a[i] = IF i = Len(a) THEN q[1] ELSE at[i]
  BY <1>1
<1>5. /\ r \in Seq(Name) /\ Len(r) = Len(a) + Len(Tail(q))
      /\ \A i \in 1..Len(r) : r[i] = IF i <= Len(a) THEN a[i] ELSE Tail(q)[i - Len(a)]
  <2> HIDE DEF a
  <2>1. r = a \o Tail(q)
    BY DEF a
  <2> QED BY <1>2, <1>4, <2>1, ConcatProperties
<1>6. Len(at) \in Nat
  OBVIOUS
<1> HIDE DEF l, r, a
<1>7. Len(l) = Len(r)
  BY <1>1, <1>2, <1>3, <1>4, <1>5, <1>6
<1>8. ASSUME NEW i \in 1..Len(l) PROVE l[i] = r[i]
  <2>1. CASE i <= Len(at)
    <3>1. i \in 1..Len(a) /\ i <= Len(a) /\ i # Len(a) /\ i \in 1..Len(r)
      BY <1>4, <1>6, <1>7, <2>1
    <3>2. l[i] = at[i] /\ a[i] = at[i] /\ r[i] = a[i]
      BY <1>3, <1>4, <1>5, <2>1, <3>1
    <3> QED BY <3>2
  <2>2. CASE i = Len(at) + 1
    <3>1. i - Len(at) = 1 /\ ~(i <= Len(at)) /\ i = Len(a) /\ i \in 1..Len(a) /\ i \in 1..Len(r)
      BY <1>4, <1>6, <1>7, <2>2
    <3>2. l[i] = q[1] /\ a[i] = q[1] /\ r[i] = a[i]
      BY <1>3, <1>4, <1>5, <3>1
    <3> QED BY <3>2
  <2>3. CASE i > Len(at) + 1
    <3>1. l[i] = q[i - Len(at)]
      BY <1>3, <1>6, <2>3
    <3>2. i - Len(a) \in 1..Len(Tail(q)) /\ (i - Len(a)) + 1 = i - Len(at)
      BY <1>1, <1>2, <1>3, <1>4, <1>6, <2>3
    <3>3. r[i] = Tail(q)[i - Len(a)]
      BY <1>4, <1>5, <1>6, <1>7, <2>3
    <3> QED BY <1>2, <3>1, <3>2, <3>3
  <2> QED BY <1>3, <1>1, <1>6, <2>1, <2>2, <2>3
<1>9. l = r
  BY <1>3, <1>5, <1>7, <1>8, SeqEqual
<1>10. ASSUME NEW n \in Name PROVE Len(<<n>> \o q) = Len(q) + 1
  <2>1. <<n>> \in Seq(Name) /\ Len(<<n>>) = 1
    OBVIOUS
  <2> QED BY <1>1, <2>1, ConcatProperties
<1> QED BY <1>1, <1>2, <1>9, <1>10 DEF l, r, a

\* The bound paths below a field are those below the path to it.
LEMMA UnderBelow ==
  ASSUME NEW params, NEW at \in Seq(Name), NEW n \in Name
  PROVE  Under(Below(params, at), n) = Below(params, Append(at, n))
<1>1. ASSUME NEW q \in Below(params, at), Len(q) > 1, Head(q) = n
      PROVE  Tail(q) \in Below(params, Append(at, n))
  <2>1. q \in Seq(Name) /\ q # <<>> /\ at \o q \in params
    BY DEF Below
  <2>2. Tail(q) \in Seq(Name) /\ Len(Tail(q)) = Len(q) - 1 /\ at \o q = Append(at, n) \o Tail(q)
    BY <1>1, <2>1, ComponentOn
  <2>3. Tail(q) # <<>>
    <3>1. Len(q) \in Nat
      BY <2>1
    <3>2. Len(Tail(q)) # 0
      BY <1>1, <2>2, <3>1
    <3> QED BY <3>2, EmptySeq
  <2> QED BY <2>1, <2>2, <2>3 DEF Below
<1>2. ASSUME NEW r \in Below(params, Append(at, n))
      PROVE  \E q \in Below(params, at) : Len(q) > 1 /\ Head(q) = n /\ r = Tail(q)
  <2> DEFINE q == <<n>> \o r
  <2>1. r \in Seq(Name) /\ r # <<>> /\ Append(at, n) \o r \in params
    BY DEF Below
  <2>2. q \in Seq(Name) /\ Len(q) = Len(r) + 1 /\ q[1] = n /\ \A i \in 1..Len(r) : q[i + 1] = r[i]
    <3>1. <<n>> \in Seq(Name) /\ Len(<<n>>) = 1 /\ <<n>>[1] = n /\ Len(r) \in Nat
      BY <2>1
    <3>2. q \in Seq(Name) /\ Len(q) = 1 + Len(r)
          /\ \A i \in 1..Len(q) : q[i] = IF i <= 1 THEN <<n>>[i] ELSE r[i - 1]
      BY <2>1, <3>1, ConcatProperties
    <3> HIDE DEF q
    <3>3. q[1] = n
      BY <3>1, <3>2
    <3>4. ASSUME NEW i \in 1..Len(r) PROVE q[i + 1] = r[i]
      <4>1. i + 1 \in 1..Len(q) /\ ~(i + 1 <= 1) /\ (i + 1) - 1 = i
        BY <3>1, <3>2
      <4> QED BY <3>2, <4>1
    <3> QED BY <3>1, <3>2, <3>3, <3>4
  <2> HIDE DEF q
  <2>3. Len(r) \in Nat /\ Len(r) # 0
    BY <2>1, EmptySeq
  <2>4. q # <<>> /\ Head(q) = n
    BY <2>2, <2>3
  <2>5. Tail(q) \in Seq(Name) /\ Len(Tail(q)) = Len(r) /\ \A i \in 1..Len(r) : Tail(q)[i] = r[i]
    <3>1. /\ Tail(q) \in Seq(Name) /\ Len(Tail(q)) = Len(q) - 1
          /\ \A i \in 1..Len(Tail(q)) : Tail(q)[i] = q[i + 1]
      BY <2>2, <2>4, HeadTailProperties
    <3> QED BY <2>2, <2>3, <3>1
  <2>6. Tail(q) = r
    BY <2>1, <2>5, SeqEqual
  <2>7. at \o q = Append(at, n) \o r
    BY <2>2, <2>4, <2>6, ComponentOn
  <2>8. q \in Below(params, at)
    BY <2>1, <2>2, <2>4, <2>7 DEF Below
  <2> QED BY <2>2, <2>3, <2>4, <2>6, <2>8
<1> QED BY <1>1, <1>2 DEF Under

\* A field that a resolved path goes through holds a message.
LEMMA ContainerHolds ==
  ASSUME RunKnown, NEW t, NEW at \in Seq(Name), NEW msg, Leads(t, at, msg),
         NEW f \in FieldsOf(msg), NEW q \in Seq(Name), Len(q) > 1, Head(q) = f.name,
         Resolved(t, at \o q)
  PROVE  f.kind = "message" /\ f.label = "one"
<1> DEFINE p == at \o q
           n == Len(at)
           M == MessagesAlong(run.image, t, p)
<1>1. Len(q) \in Nat /\ n \in Nat /\ q[1] = f.name
  OBVIOUS
<1>2. /\ p \in Seq(Name) /\ Len(p) = n + Len(q)
      /\ \A i \in 1..Len(p) : p[i] = IF i <= n THEN at[i] ELSE q[i - n]
  BY ConcatProperties
<1> HIDE DEF p
<1>3. Alike(p, at, n) /\ n <= Len(p)
  BY <1>1, <1>2 DEF Alike
<1>4. M[n] = {msg}
  <2>1. \A i \in 0..n : M[i] = MessagesAlong(run.image, t, at)[i]
    BY <1>1, <1>2, <1>3, AlongAlike
  <2> HIDE DEF M
  <2> QED BY <1>1, <2>1 DEF Leads
<1>5. n + 1 \in 1..Len(p) /\ (n + 1) - 1 = n /\ p[n + 1] = f.name
  <2>1. n + 1 \in 1..Len(p) /\ (n + 1) - n = 1 /\ ~(n + 1 <= n)
    BY <1>1, <1>2
  <2>2. p[n + 1] = q[1]
    BY <1>2, <2>1
  <2> QED BY <1>1, <2>1, <2>2
<1>6. M[n + 1] = Onto(run.image, {msg}, f.name)
  <2>1. \A i \in 1..Len(p) : M[i] = Onto(run.image, M[i - 1], p[i])
    BY <1>2, AlongSteps
  <2>2. M[n + 1] = Onto(run.image, M[(n + 1) - 1], p[n + 1])
    BY <1>5, <2>1
  <2> HIDE DEF M
  <2> QED BY <1>4, <1>5, <2>2
<1>7. M[Len(p) - 1] # {}
  <2>1. PICK g \in FieldsAlong(run.image, t, p)[Len(p)] : TRUE
    BY DEF Resolved, p
  <2>2. Len(p) \in 1..Len(p)
    BY <1>1, <1>2
  <2> QED BY <2>1, <2>2 DEF FieldsAlong
<1>8. M[n + 1] # {}
  <2>1. Len(p) - 1 \in 0..Len(p) /\ n + 1 \in 0..(Len(p) - 1)
    BY <1>1, <1>2
  <2> QED BY <1>2, <1>7, <2>1, MessagesBefore
<1>9. Onward(run.image, msg, f.name) # {}
  <2> HIDE DEF M
  <2> QED BY <1>6, <1>8 DEF Onto
<1>10. f \in Onward(run.image, msg, f.name)
  BY <1>9, FieldNamed DEF Onward, FieldsOf
<1> QED BY <1>10 DEF Onward

\* Where a segment or a level of a request of use n is, and whether it is marked.
Walked(n, x) ==
  /\ Leads(Request(n), x.at, x.msg)
  /\ x.sensitive <=> Marked(Request(n), x.at)

Params(n) == Links(run.uses[n].params)

\* A variable of the path of use n is the path p to a field.
Variable(n, v, p) == v \in DOMAIN run.uses[n].params /\ run.uses[n].params[v] = p

\* What is being bound of use n. A path is resolved, or a segment is left of it;
\* a level of the request has the paths that lead below it.
Following(n) ==
  /\ \A s \in segments : Walked(n, s) /\ Variable(n, s.var, s.at \o s.rest)
  /\ \A p \in Params(n) : Resolved(Request(n), p) \/ \E s \in segments : s.at \o s.rest = p
  /\ \A d \in walk : Walked(n, d) /\ d.bound = Below(Params(n), d.at)

MarkersInv ==
  /\ TypeInv
  /\ stage \in {"binding", "rendering"} => Following(use)
  /\ SensitivityTravels

\* What is bound of a use is said of the run alone.
LEMMA RunSays ==
  ASSUME UNCHANGED run
  PROVE  /\ \A n : Request(n)' = Request(n) /\ Params(n)' = Params(n)
         /\ \A n, v, p : Variable(n, v, p)' <=> Variable(n, v, p)
         /\ \A n, x : Walked(n, x)' <=> Walked(n, x)
         /\ \A t, at : Marked(t, at)' <=> Marked(t, at)
         /\ \A t, p : Resolved(t, p)' <=> Resolved(t, p)
         /\ \A t, p : Exists(t, p)' <=> Exists(t, p)
         /\ \A t : FieldsOf(t)' = FieldsOf(t) /\ (SensitiveType(t)' <=> SensitiveType(t))
         /\ \A f : FieldSensitive(f)' <=> FieldSensitive(f)
<1>1. \A t : FieldsOf(t)' = FieldsOf(t) /\ (SensitiveType(t)' <=> SensitiveType(t))
  BY DEF FieldsOf, SensitiveType, Image
<1>2. \A f : FieldSensitive(f)' <=> FieldSensitive(f)
  BY <1>1 DEF FieldSensitive
<1>3. /\ \A n : Request(n)' = Request(n) /\ Params(n)' = Params(n)
      /\ \A n, v, p : Variable(n, v, p)' <=> Variable(n, v, p)
  BY DEF Request, Params, Variable
<1>4. \A t, at : Marked(t, at)' <=> Marked(t, at)
  BY <1>1, <1>2 DEF Marked
<1>5. \A n, x : Walked(n, x)' <=> Walked(n, x)
  BY <1>3, <1>4 DEF Walked, Leads
<1>6. \A t, p : Resolved(t, p)' <=> Resolved(t, p)
  BY DEF Resolved
<1>7. \A t, p : Exists(t, p)' <=> Exists(t, p)
  BY DEF Exists
<1> QED BY <1>1, <1>2, <1>3, <1>4, <1>5, <1>6, <1>7

\* A marker is placed as the path to it says.
MarkedRight(p) == p.path # <<>> => (p.sensitive <=> Marked(Request(p.use), p.path))

AllMarked == \A p \in placed : MarkedRight(p)

LEMMA MarkersPlaced == TypeInv => (SensitivityTravels <=> AllMarked)
<1> SUFFICES ASSUME TypeInv PROVE SensitivityTravels <=> AllMarked
  OBVIOUS
<1>1. ASSUME NEW p \in placed
      PROVE  DOMAIN p.path = 1..Len(p.path)
  <2>1. p.path \in Seq(Name)
    BY DEF TypeInv, TypeOK, Placed
  <2> QED BY <2>1
<1> QED BY <1>1 DEF SensitivityTravels, AllMarked, MarkedRight, Marked

LEMMA InitMarkers == Init => MarkersInv
BY InitTypeInv DEF Init, MarkersInv, SensitivityTravels

\* What is handed down is what is on the path.
LEMMA Inherits ==
  ASSUME RunKnown, NEW n, NEW x, x.at \in Seq(Name), Walked(n, x), NEW f \in FieldsOf(x.msg)
  PROVE  Inherited(x, f) <=> Marked(Request(n), Append(x.at, f.name))
<1>1. Leads(Request(n), x.at, x.msg) /\ (x.sensitive <=> Marked(Request(n), x.at))
  BY DEF Walked
<1>2. Extends(Append(x.at, f.name), x.at, f.name)
  BY FieldTyped, AppendExtends DEF Field
<1>3. Marked(Request(n), Append(x.at, f.name)) <=>
        Marked(Request(n), x.at) \/ SensitiveType(x.msg) \/ FieldSensitive(f)
  BY <1>1, <1>2, Further
<1> QED BY <1>1, <1>3 DEF Inherited, SensitiveHere

\* A request is led to by the empty path, which has no marker.
LEMMA RequestReached ==
  ASSUME RunKnown, NEW t
  PROVE  Leads(t, <<>>, t) /\ ~Marked(t, <<>>)
<1>1. <<>> \in Seq(Name) /\ Len(<<>>) = 0
  BY EmptySeq
<1>2. MessagesAlong(run.image, t, <<>>)[0] = {t}
  BY <1>1, AlongSteps
<1> QED BY <1>1, <1>2 DEF Leads, Marked

LEMMA ParamsTyped ==
  ASSUME RunKnown, use \in Uses
  PROVE  /\ Params(use) \subseteq Seq(Name) \ {<<>>} /\ Links(Current.params) = Params(use)
         /\ run.uses[use].params = Current.params /\ Current.params \in Seq(Seq(Name) \ {<<>>})
         /\ \A i \in DOMAIN Current.params : Variable(use, i, Current.params[i])
         /\ \A p \in Params(use) : \E i \in DOMAIN Current.params : Current.params[i] = p
<1>1. run.uses[use].params = Current.params /\ Current.params \in Seq(Seq(Name) \ {<<>>})
  BY CurrentTyped DEF Current, Use
<1> QED BY <1>1 DEF Params, Links, Variable

\* What a variable is a path to is bound.
LEMMA VariableBound ==
  ASSUME NEW n, NEW v, NEW p, Variable(n, v, p)
  PROVE  p \in Params(n)
BY DEF Variable, Params, Links

\* Each bound path starts as a segment.
LEMMA BeginSegments ==
  ASSUME TypeInv, BeginUse, NEW n, n = use
  PROVE  \A p \in Params(n) : \E s \in segments' : s.at \o s.rest = p
<1>1. RunKnown /\ use \in Uses
  BY DEF BeginUse, Beginning, TypeInv
<1>2. Params(n) \subseteq Seq(Name) \ {<<>>}
      /\ \A p \in Params(n) : \E i \in DOMAIN Current.params : Current.params[i] = p
  BY <1>1, ParamsTyped
<1> TAKE p \in Params(n)
<1>5. PICK i \in DOMAIN Current.params : Current.params[i] = p
  BY <1>2
<1> DEFINE s == Segment(i, Request(n), <<>>, p, FALSE)
<1>3. s \in segments' /\ s.at = <<>> /\ s.rest = p
  BY <1>5 DEF BeginUse, Segment
<1>4. p \in Seq(Name)
  BY <1>2
<1> HIDE DEF s
<1> QED BY <1>3, <1>4, ConcatEmptySeq

\* Each step that binds keeps what is said of what it leaves to be bound.
LEMMA BeginFollows ==
  ASSUME TypeInv, BeginUse, NEW n, n = use
  PROVE  Following(n)'
<1>1. run' = run /\ RunKnown /\ use \in Uses
  BY DEF BeginUse, Beginning, TypeInv
<1>2. Params(n) \subseteq Seq(Name) \ {<<>>} /\ Links(Current.params) = Params(n)
      /\ \A i \in DOMAIN Current.params :
           Variable(n, i, Current.params[i]) /\ Current.params[i] \in Params(n)
  BY <1>1, ParamsTyped, VariableBound
<1> DEFINE t == Request(n)
<1>3. segments' = {Segment(i, t, <<>>, Current.params[i], FALSE) : i \in DOMAIN Current.params}
  BY <1>2 DEF BeginUse
<1>4. walk' = {} \/ walk' = {Descent(t, <<>>, Params(n), FALSE, {t})}
  BY <1>2 DEF BeginUse
<1>5. ASSUME NEW p \in Seq(Name) PROVE <<>> \o p = p
  BY ConcatEmptySeq
<1>6. Leads(t, <<>>, t) /\ ~Marked(t, <<>>)
  BY <1>1, RequestReached
<1>7. ASSUME NEW s \in segments' PROVE Walked(n, s) /\ Variable(n, s.var, s.at \o s.rest)
  <2>1. PICK i \in DOMAIN Current.params : s = Segment(i, t, <<>>, Current.params[i], FALSE)
    BY <1>3
  <2>2. s.at = <<>> /\ s.msg = t /\ s.sensitive = FALSE /\ s.rest = Current.params[i] /\ s.var = i
    BY <2>1 DEF Segment
  <2>3. s.at \o s.rest = Current.params[i]
    BY <1>2, <1>5, <2>2
  <2> QED BY <1>2, <1>6, <2>2, <2>3 DEF Walked
<1>8. \A p \in Params(n) : \E s \in segments' : s.at \o s.rest = p
  BY BeginSegments
<1>9. ASSUME NEW d \in walk' PROVE Walked(n, d) /\ d.bound = Below(Params(n), d.at)
  <2>1. d = Descent(t, <<>>, Params(n), FALSE, {t})
    BY <1>4
  <2>2. d.at = <<>> /\ d.msg = t /\ d.sensitive = FALSE /\ d.bound = Params(n)
    BY <2>1 DEF Descent
  <2>3. Below(Params(n), <<>>) = Params(n)
    BY <1>2, <1>5 DEF Below
  <2> QED BY <1>6, <2>2, <2>3 DEF Walked
<1> HIDE DEF t
<1> QED BY <1>1, <1>7, <1>8, <1>9, RunSays DEF Following

\* A value reached by a path resolves it.
LEMMA LeafResolved ==
  ASSUME RunKnown, NEW t, NEW at \in Seq(Name), NEW msg, Leads(t, at, msg),
         NEW f \in FieldsOf(msg), f.label = "one", ~Unflat(f),
         NEW p, Extends(p, at, f.name)
  PROVE  Resolved(t, p)
<1>1. Names(t, p, f)
  BY Further
<1> QED BY <1>1 DEF Resolved, Names

\* The path of a leaf is the bound path it is the end of.
LEMMA LeafPath ==
  ASSUME RunKnown, NEW s \in Segments, Leaf(s), NEW f \in Component(s)
  PROVE  s.at \o s.rest = Append(s.at, f.name) /\ Extends(s.at \o s.rest, s.at, f.name)
<1>1. f \in FieldsOf(s.msg) /\ f.name = Head(s.rest) /\ Len(s.rest) = 1
  BY DEF Component, Leaf
<1>2. s.at \in Seq(Name) /\ s.rest \in Seq(Name) /\ s.rest # <<>>
  BY DEF Segments
<1>3. s.at \o s.rest = Append(s.at, f.name)
  <2>1. Tail(s.rest) = <<>>
    <3>1. Tail(s.rest) \in Seq(Name) /\ Len(Tail(s.rest)) = 0
      BY <1>1, <1>2, ComponentOn
    <3>2. Tail(s.rest) # <<>> => Len(Tail(s.rest)) \in Nat \ {0}
      BY <3>1, EmptySeq
    <3> QED BY <3>1, <3>2
  <2>2. Append(s.at, f.name) \in Seq(Name)
    BY <1>1, <1>2, FieldTyped DEF Field
  <2>3. Append(s.at, f.name) \o <<>> = Append(s.at, f.name)
    BY <2>2, ConcatEmptySeq
  <2> QED BY <1>1, <1>2, <2>1, <2>3, ComponentOn
<1>4. Extends(Append(s.at, f.name), s.at, f.name)
  BY <1>1, <1>2, FieldTyped, AppendExtends DEF Field
<1> QED BY <1>3, <1>4

LEMMA LeafFollows ==
  ASSUME TypeInv, NEW s \in segments, ResolveLeaf(s), NEW n, n = use, Following(n)
  PROVE  Following(n)'
<1>1. /\ run' = run /\ RunKnown /\ use \in Uses /\ walk' = walk /\ segments' = segments \ {s}
      /\ s \in Segments
  BY DEF ResolveLeaf, TypeInv, TypeOK, Idle
<1>2. PICK f \in Component(s) : ~Unflat(f)
  BY DEF ResolveLeaf
<1>3. f \in FieldsOf(s.msg) /\ f.name = Head(s.rest) /\ f.label = "one" /\ Len(s.rest) = 1
  BY <1>2 DEF Component, ResolveLeaf, Leaf
<1>4. s.at \in Seq(Name) /\ Extends(s.at \o s.rest, s.at, f.name)
  BY <1>1, <1>2, <1>3, LeafPath DEF Segments, Leaf
<1>6. Resolved(Request(n), s.at \o s.rest)
  <2>1. Leads(Request(n), s.at, s.msg)
    BY DEF Following, Walked
  <2> QED BY <1>1, <1>2, <1>3, <1>4, <2>1, LeafResolved
<1>7. \A p \in Params(n) : Resolved(Request(n), p) \/ \E x \in segments' : x.at \o x.rest = p
  BY <1>1, <1>6 DEF Following
<1> QED BY <1>1, <1>7, RunSays DEF Following

LEMMA ComponentFollows ==
  ASSUME TypeInv, NEW s \in segments, ResolveComponent(s), NEW n, n = use, Following(n)
  PROVE  Following(n)'
<1>1. /\ run' = run /\ RunKnown /\ use \in Uses /\ walk' = walk
      /\ s \in Segments
  BY DEF ResolveComponent, TypeInv, TypeOK, Idle
<1>2. PICK f \in Component(s) :
        /\ f.kind = "message"
        /\ segments' = (segments \ {s}) \union
             {Segment(s.var, f.to, Append(s.at, f.name), Tail(s.rest), Inherited(s, f))}
  BY DEF ResolveComponent
<1>3. f \in FieldsOf(s.msg) /\ f.name = Head(s.rest) /\ f.label = "one"
  BY <1>2 DEF Component
<1>4. s.at \in Seq(Name) /\ s.rest \in Seq(Name) /\ s.rest # <<>>
  BY <1>1 DEF Segments
<1> DEFINE x == Segment(s.var, f.to, Append(s.at, f.name), Tail(s.rest), Inherited(s, f))
<1>5. /\ x.msg = f.to /\ x.at = Append(s.at, f.name) /\ x.rest = Tail(s.rest)
      /\ x.sensitive = Inherited(s, f) /\ x.var = s.var
  BY DEF Segment
<1>6. segments' = (segments \ {s}) \union {x}
  BY <1>2
<1> HIDE DEF x
<1>7. s.at \o s.rest = x.at \o x.rest
  BY <1>3, <1>4, <1>5, ComponentOn
<1>8. Walked(n, s)
  BY DEF Following
<1>9. Leads(Request(n), x.at, x.msg)
  <2>1. Leads(Request(n), s.at, s.msg)
    BY <1>8 DEF Walked
  <2>3. Extends(Append(s.at, f.name), s.at, f.name)
    BY <1>1, <1>3, <1>4, FieldTyped, AppendExtends DEF Field
  <2>2. Leads(Request(n), Append(s.at, f.name), f.to)
    BY <1>1, <1>2, <1>3, <1>4, <2>1, <2>3, Further
  <2> QED BY <1>5, <2>2
<1>10. Walked(n, x)
  <2>1. Inherited(s, f) <=> Marked(Request(n), Append(s.at, f.name))
    BY <1>1, <1>3, <1>4, <1>8, Inherits
  <2> QED BY <1>5, <1>9, <2>1 DEF Walked
<1>11. \A r \in segments' : Walked(n, r) /\ Variable(n, r.var, r.at \o r.rest)
  BY <1>5, <1>6, <1>7, <1>10 DEF Following
<1>12. \A p \in Params(n) : Resolved(Request(n), p) \/ \E r \in segments' : r.at \o r.rest = p
  BY <1>6, <1>7 DEF Following
<1> QED BY <1>1, <1>11, <1>12, RunSays DEF Following

\* A container is a message, by the path that goes through it.
LEMMA ContainerKind ==
  ASSUME TypeInv, NEW d \in walk, segments = {}, NEW n, Following(n), NEW f \in Containers(d)
  PROVE  f.kind = "message" /\ f.label = "one"
<1>1. RunKnown /\ d \in Descents
  BY DEF TypeInv, TypeOK
<1>2. d.at \in Seq(Name)
  BY <1>1 DEF Descents
<1>3. Walked(n, d) /\ d.bound = Below(Params(n), d.at)
  BY DEF Following
<1>4. f \in FieldsOf(d.msg)
  BY DEF Containers, Remaining
<1>5. PICK q \in d.bound : Len(q) > 1 /\ Head(q) = f.name
  BY DEF Containers, Under
<1>6. q \in Seq(Name) /\ d.at \o q \in Params(n)
  BY <1>3, <1>5 DEF Below
<1>7. Resolved(Request(n), d.at \o q)
  BY <1>6 DEF Following
<1>8. Leads(Request(n), d.at, d.msg)
  BY <1>3 DEF Walked
<1> QED BY <1>1, <1>2, <1>4, <1>5, <1>6, <1>7, <1>8, ContainerHolds

LEMMA DescendFollows ==
  ASSUME TypeInv, NEW d \in walk, Descend(d), NEW n, n = use, Following(n)
  PROVE  Following(n)'
<1>1. run' = run /\ RunKnown /\ segments = {} /\ segments' = {} /\ d \in Descents
  BY DEF Descend, Descending, TypeInv, TypeOK
<1>2. d.at \in Seq(Name) /\ Walked(n, d) /\ d.bound = Below(Params(n), d.at)
  BY <1>1 DEF Following, Descents
<1> DEFINE Into(f) == Descent(f.to, Append(d.at, f.name), Under(d.bound, f.name), Inherited(d, f),
                              d.seen \union {f.to})
<1>3. walk' = (walk \ {d}) \union {Into(f) : f \in Containers(d)}
  BY DEF Descend
<1>4. ASSUME NEW f \in Containers(d), NEW x, x = Into(f)
      PROVE  Walked(n, x) /\ x.bound = Below(Params(n), x.at)
  <2>1. /\ x.msg = f.to /\ x.at = Append(d.at, f.name) /\ x.bound = Under(d.bound, f.name)
        /\ x.sensitive = Inherited(d, f)
    BY <1>4 DEF Descent
  <2> HIDE DEF Into
  <2>2. f \in FieldsOf(d.msg) /\ f.name \in Name
    BY <1>1, FieldTyped DEF Containers, Remaining, Field
  <2>3. f.kind = "message" /\ f.label = "one"
    BY <1>1, ContainerKind
  <2>4. Extends(x.at, d.at, f.name)
    BY <1>2, <2>1, <2>2, AppendExtends
  <2>5. Leads(Request(n), d.at, d.msg)
    BY <1>2 DEF Walked
  <2>6. Leads(Request(n), x.at, f.to)
    BY <1>1, <1>2, <2>2, <2>3, <2>4, <2>5, Further
  <2>7. Inherited(d, f) <=> Marked(Request(n), Append(d.at, f.name))
    BY <1>1, <1>2, <2>2, Inherits
  <2>8. Walked(n, x)
    BY <2>1, <2>6, <2>7 DEF Walked
  <2>9. x.bound = Below(Params(n), x.at)
    BY <1>2, <2>1, <2>2, UnderBelow
  <2> QED BY <2>8, <2>9
<1> HIDE DEF Into
<1>5. \A x \in walk' : Walked(n, x) /\ x.bound = Below(Params(n), x.at)
  BY <1>3, <1>4 DEF Following
<1>6. \A p \in Params(n) : Resolved(Request(n), p)
  BY <1>1 DEF Following
<1> QED BY <1>1, <1>5, <1>6, RunSays DEF Following

BindingStage == stage \in {"binding", "rendering"}

\* The steps that bind nothing.
LEMMA BindsNothing ==
  ASSUME [Next]_vars, ~BeginUse, \A s \in segments : ~ResolveLeaf(s) /\ ~ResolveComponent(s),
         \A d \in walk : ~Descend(d)
  PROVE  placed' = placed /\ (BindingStage' => BindingStage /\ UNCHANGED <<use, segments, walk>>)
BY DEF BindingStage, Next, vars, schemas, bindings, Contribute, CheckTransitive, FetchHistory, Reuse,
       Reserve, UnknownType, Build, SchemasBuilt, SkipUse, RefuseUse, RefuseSegment, RefuseDescent,
       Refuse, RenderSchemas, FinishUse, Emit, Beginning, Calling, Descending

\* What is placed is marked as the path to it says.
LEMMA BeginMarked ==
  ASSUME TypeInv, BeginUse, NEW p \in placed', p \notin placed
  PROVE  MarkedRight(p)
<1>1. p = Place(None, <<>>, "body", SensitiveType(Request(use)), {Request(use)})
  BY DEF BeginUse
<1> QED BY <1>1 DEF Place, MarkedRight

LEMMA FieldMarked ==
  ASSUME RunKnown, NEW x, x.at \in Seq(Name), Walked(use, x), NEW f \in FieldsOf(x.msg),
         NEW var, NEW in, NEW refs, NEW p, p = Place(var, Append(x.at, f.name), in, Inherited(x, f), refs)
  PROVE  MarkedRight(p)
<1>1. p.use = use /\ p.path = Append(x.at, f.name) /\ p.sensitive = Inherited(x, f)
  BY DEF Place
<1>2. Inherited(x, f) <=> Marked(Request(use), Append(x.at, f.name))
  BY Inherits
<1> QED BY <1>1, <1>2 DEF MarkedRight

LEMMA LeafMarked ==
  ASSUME TypeInv, NEW s \in segments, ResolveLeaf(s), Walked(use, s), NEW p \in placed', p \notin placed
  PROVE  MarkedRight(p)
<1>1. RunKnown /\ s.at \in Seq(Name)
  BY DEF TypeInv, TypeOK, Segments
<1>2. PICK f \in Component(s) : p = Place(s.var, Append(s.at, f.name), "path", Inherited(s, f), FieldRefs(f))
  BY DEF ResolveLeaf
<1>3. f \in FieldsOf(s.msg)
  BY DEF Component
<1> QED BY <1>1, <1>2, <1>3, FieldMarked

LEMMA DescendMarked ==
  ASSUME TypeInv, NEW d \in walk, Descend(d), Walked(use, d), NEW p \in placed', p \notin placed
  PROVE  MarkedRight(p)
<1>1. RunKnown /\ d.at \in Seq(Name)
  BY DEF TypeInv, TypeOK, Descents
<1>2. \E f \in FieldsOf(d.msg) : \E in, refs :
        p = Place(None, Append(d.at, f.name), in, Inherited(d, f), refs)
  <2>1. \/ p \in {Place(None, Append(d.at, f.name), Where, Inherited(d, f), FieldRefs(f)) : f \in Plain(d)}
        \/ p \in {Place(None, Append(d.at, f.name), "object", Inherited(d, f), {}) : f \in Containers(d)}
    BY DEF Descend
  <2>2. Plain(d) \subseteq FieldsOf(d.msg) /\ Containers(d) \subseteq FieldsOf(d.msg)
    BY DEF Plain, Containers, Remaining
  <2> QED BY <2>1, <2>2
<1> QED BY <1>1, <1>2, FieldMarked

LEMMA MarkersStep == MarkersInv /\ [Next]_vars => MarkersInv'
<1> SUFFICES ASSUME MarkersInv, [Next]_vars PROVE MarkersInv'
  OBVIOUS
<1>1. TypeInv /\ TypeInv' /\ UNCHANGED run
  BY TypeStep, RunStays DEF MarkersInv
<1>2. \A p \in placed : MarkedRight(p)
  BY <1>1, MarkersPlaced DEF MarkersInv, AllMarked
<1>3. BindingStage => Following(use)
  BY DEF MarkersInv, BindingStage
<1>4. ASSUME NEW p \in placed', p \notin placed PROVE MarkedRight(p)
  <2>1. CASE BeginUse
    BY <1>1, <1>4, <2>1, BeginMarked
  <2>2. ASSUME NEW s \in segments, ResolveLeaf(s) PROVE MarkedRight(p)
    <3>1. Walked(use, s)
      BY <1>3, <2>2 DEF ResolveLeaf, BindingStage, Following
    <3> QED BY <1>1, <1>4, <2>2, <3>1, LeafMarked
  <2>3. ASSUME NEW d \in walk, Descend(d) PROVE MarkedRight(p)
    <3>1. Walked(use, d)
      BY <1>3, <2>3 DEF Descend, Descending, BindingStage, Following
    <3> QED BY <1>1, <1>4, <2>3, <3>1, DescendMarked
  <2>4. ASSUME NEW s \in segments, ResolveComponent(s) PROVE FALSE
    BY <1>4, <2>4 DEF ResolveComponent
  <2> QED BY <1>4, <2>1, <2>2, <2>3, <2>4, BindsNothing
<1>5. SensitivityTravels'
  <2>1. \A p : MarkedRight(p)' <=> MarkedRight(p)
    BY <1>1, RunSays DEF MarkedRight
  <2>2. AllMarked'
    BY <1>2, <1>4, <2>1 DEF AllMarked
  <2>3. TypeInv' => (SensitivityTravels' <=> AllMarked')
    BY MarkersPlaced, PTL
  <2> QED BY <1>1, <2>2, <2>3
<1>6. BindingStage' => Following(use)'
  <2>1. PICK n : n = use
    OBVIOUS
  <2>2. UNCHANGED <<use, segments, walk>> /\ Following(n) => Following(n)'
    BY <1>1, RunSays DEF Following
  <2>3. \/ BindingStage' => BindingStage /\ UNCHANGED <<use, segments, walk>>
        \/ UNCHANGED use /\ Following(n)'
    <3>1. CASE BeginUse
      BY <1>1, <2>1, <3>1, BeginFollows DEF BeginUse
    <3>2. ASSUME NEW s \in segments, ResolveLeaf(s) PROVE UNCHANGED use /\ Following(n)'
      <4>1. Following(n)
        BY <1>3, <2>1, <3>2 DEF ResolveLeaf, BindingStage
      <4> QED BY <1>1, <2>1, <3>2, <4>1, LeafFollows DEF ResolveLeaf
    <3>3. ASSUME NEW s \in segments, ResolveComponent(s) PROVE UNCHANGED use /\ Following(n)'
      <4>1. Following(n)
        BY <1>3, <2>1, <3>3 DEF ResolveComponent, BindingStage
      <4> QED BY <1>1, <2>1, <3>3, <4>1, ComponentFollows DEF ResolveComponent
    <3>4. ASSUME NEW d \in walk, Descend(d) PROVE UNCHANGED use /\ Following(n)'
      <4>1. Following(n)
        BY <1>3, <2>1, <3>4 DEF Descend, Descending, BindingStage
      <4> QED BY <1>1, <2>1, <3>4, <4>1, DescendFollows DEF Descend
    <3> QED BY <3>1, <3>2, <3>3, <3>4, BindsNothing
  <2>4. ASSUME UNCHANGED use, Following(n)' PROVE Following(use)'
    BY <2>1, <2>4 DEF Following
  <2> QED BY <1>3, <2>1, <2>2, <2>3, <2>4
<1> QED BY <1>1, <1>5, <1>6 DEF MarkersInv, BindingStage

\* Whatever a nested binding leaves of a container carries the container's
\* marker, as everything placed carries those of the path to it, and no other.
THEOREM MarkersTravel == Spec => []SensitivityTravels
<1>1. Spec => []MarkersInv
  BY InitMarkers, MarkersStep, PTL DEF Spec
<1>2. MarkersInv => SensitivityTravels
  BY DEF MarkersInv
<1> QED BY <1>1, <1>2, PTL

-----------------------------------------------------------------------------
(* Each part of a request is bound once. *)

\* A bound path goes through the first i components of a path.
Beyond(params, path, i) == \E q \in params : Len(q) > i /\ Alike(q, path, i)

\* Where a path is cut from the request: no bound path goes on from it, one
\* goes through whatever holds it.
Cut(params, path) ==
  ~Beyond(params, path, Len(path)) /\ \A i \in 1..(Len(path) - 1) : Beyond(params, path, i)

\* Paths that begin alike are alike to the bound paths.
LEMMA BeyondAlike ==
  ASSUME NEW params, NEW p, NEW q, NEW n \in Nat, Alike(p, q, n), NEW i \in 0..n
  PROVE  Beyond(params, p, i) <=> Beyond(params, q, i)
<1>1. \A j \in 1..i : p[j] = q[j]
  BY DEF Alike
<1>2. \A r : Alike(r, p, i) <=> Alike(r, q, i)
  BY <1>1 DEF Alike
<1> QED BY <1>2 DEF Beyond

\* A path is bound below exactly if a bound path goes through it.
LEMMA BelowBeyond ==
  ASSUME NEW params \in SUBSET Seq(Name), NEW at \in Seq(Name)
  PROVE  Below(params, at) # {} <=> Beyond(params, at, Len(at))
<1> DEFINE n == Len(at)
<1>1. n \in Nat
  OBVIOUS
<1>2. ASSUME NEW q \in Below(params, at) PROVE Beyond(params, at, n)
  <2> DEFINE p == at \o q
  <2>1. q \in Seq(Name) /\ q # <<>> /\ p \in params
    BY DEF Below
  <2>2. Len(q) \in Nat \ {0}
    BY <2>1, EmptySeq
  <2>3. Len(p) = n + Len(q) /\ \A i \in 1..(n + Len(q)) : p[i] = IF i <= n THEN at[i] ELSE q[i - n]
    BY <2>1, ConcatProperties
  <2> HIDE DEF p
  <2>4. Len(p) > n /\ Alike(p, at, n)
    BY <1>1, <2>2, <2>3 DEF Alike
  <2> QED BY <2>1, <2>4 DEF Beyond
<1>3. ASSUME Beyond(params, at, n) PROVE Below(params, at) # {}
  <2>1. PICK p \in params : Len(p) > n /\ Alike(p, at, n)
    BY <1>3 DEF Beyond
  <2> DEFINE q == SubSeq(p, n + 1, Len(p))
  <2>2. Len(p) \in Nat /\ p \in Seq(Name) /\ \A i \in (n + 1)..Len(p) : p[i] \in Name
    BY <1>1
  <2>3. /\ q \in Seq(Name) /\ Len(q) = Len(p) - n
        /\ \A i \in 1..Len(q) : q[i] = p[n + i]
    <3>1. n + 1 \in Int /\ Len(p) \in Int /\ n + 1 <= Len(p)
      BY <1>1, <2>1, <2>2
    <3>2. /\ q \in Seq(Name) /\ Len(q) = Len(p) - (n + 1) + 1
          /\ \A i \in 1..(Len(p) - (n + 1) + 1) : q[i] = p[(n + 1) + i - 1]
      BY <2>2, <3>1, SubSeqProperties
    <3> HIDE DEF q
    <3>3. Len(p) - (n + 1) + 1 = Len(p) - n /\ \A i \in Int : (n + 1) + i - 1 = n + i
      BY <1>1, <2>2
    <3> QED BY <3>2, <3>3
  <2> HIDE DEF q
  <2>4. q # <<>>
    BY <1>1, <2>1, <2>2, <2>3, EmptySeq
  <2> DEFINE r == at \o q
  <2>5. /\ r \in Seq(Name) /\ Len(r) = n + Len(q)
        /\ \A i \in 1..(n + Len(q)) : r[i] = IF i <= n THEN at[i] ELSE q[i - n]
    BY <2>3, ConcatProperties
  <2> HIDE DEF r
  <2>6. ASSUME NEW i \in 1..Len(r) PROVE r[i] = p[i]
    <3>1. CASE i <= n
      BY <1>1, <2>1, <2>3, <2>5, <3>1 DEF Alike
    <3>2. CASE ~(i <= n)
      <4>1. i - n \in 1..Len(q) /\ n + (i - n) = i
        BY <1>1, <2>2, <2>3, <2>5, <3>2
      <4>2. r[i] = q[i - n]
        BY <1>1, <2>2, <2>3, <2>5, <3>2
      <4> QED BY <2>3, <4>1, <4>2
    <3> QED BY <3>1, <3>2
  <2>7. Len(r) = Len(p)
    BY <1>1, <2>2, <2>3, <2>5
  <2>8. r = p
    BY <2>2, <2>5, <2>6, <2>7, SeqEqual
  <2> QED BY <2>3, <2>4, <2>8 DEF Below, r
<1> QED BY <1>2, <1>3

\* Where the rest of use n's request goes.
Whereto(n) == IF run.uses[n].verb \in Bodyless THEN "query" ELSE "body"

WholeBody(n) == run.uses[n].params = <<>> /\ run.uses[n].verb \notin Bodyless

AsBody(n) == \E b : Bindings(n) = {b} /\ b.path = <<>> /\ b.in = "body"

Has(n, path) == \E p \in Bindings(n) : p.path = path

\* A field that is to be placed by itself.
Due(n, path) ==
  /\ VariablesApart(n)
  /\ Exists(Request(n), path) /\ path \notin Params(n) /\ Cut(Params(n), path)

Refs(t, path) == UNION {FieldRefs(f) : f \in FieldsAlong(run.image, t, path)[Len(path)]}

\* What may be placed of a request that is not a body as a whole.
Fitting(n, p) ==
  /\ p.path # <<>>
  /\ p.refs = Refs(Request(n), p.path)
  /\ p.in = IF p.path \in Params(n) THEN "path" ELSE Whereto(n)
  /\ IF p.path \in Params(n) THEN Variable(n, p.var, p.path)
     ELSE p.var = None /\ Cut(Params(n), p.path)

\* A use whose request is bound.
Distributed(n) ==
  /\ Params(n) \subseteq Seq(Name) \ {<<>>}
  /\ IF WholeBody(n) THEN AsBody(n)
     ELSE /\ \A p \in Bindings(n) : Fitting(n, p)
          /\ \A q \in Params(n) : Resolved(Request(n), q) /\ Has(n, q)
          /\ \A path \in Seq(Name) \ {<<>>} : Due(n, path) => Has(n, path)

\* A prefix is a path of no more components, which begin alike.
LEMMA PrefixAlike ==
  ASSUME NEW p \in Seq(Name), NEW q \in Seq(Name)
  PROVE  IsPrefix(p, q) <=> Len(p) <= Len(q) /\ Alike(q, p, Len(p))
<1>1. SUFFICES ASSUME Len(p) <= Len(q) PROVE SubSeq(q, 1, Len(p)) = p <=> Alike(q, p, Len(p))
  BY DEF IsPrefix
<1> DEFINE s == SubSeq(q, 1, Len(p))
<1>2. s \in Seq(Name) /\ Len(s) = Len(p) /\ \A i \in 1..Len(p) : s[i] = q[i]
  <2>1. Len(p) \in Nat /\ Len(q) \in Nat /\ 1 \in Int /\ \A i \in 1..Len(p) : q[i] \in Name
    BY <1>1
  <2>2. /\ s \in Seq(Name) /\ Len(s) = IF 1 <= Len(p) THEN Len(p) - 1 + 1 ELSE 0
        /\ \A i \in 1..(Len(p) - 1 + 1) : s[i] = q[1 + i - 1]
    BY <2>1, SubSeqProperties
  <2> HIDE DEF s
  <2>3. Len(p) - 1 + 1 = Len(p) /\ \A i \in 1..Len(p) : 1 + i - 1 = i
    BY <2>1
  <2> QED BY <2>1, <2>2, <2>3
<1> HIDE DEF s
<1>3. s = p => Alike(q, p, Len(p))
  BY <1>2 DEF Alike
<1>4. ASSUME Alike(q, p, Len(p)) PROVE s = p
  <2>1. \A i \in 1..Len(s) : s[i] = p[i]
    BY <1>2, <1>4 DEF Alike
  <2> QED BY <1>2, <2>1, SeqEqual
<1> QED BY <1>3, <1>4 DEF s

\* Bound paths that are apart do not go through one another: each is cut
\* where it ends.
LEMMA BoundCut ==
  ASSUME NEW n, VariablesApart(n), Params(n) \subseteq Seq(Name) \ {<<>>}, NEW path \in Params(n)
  PROVE  Cut(Params(n), path)
<1>1. path \in Seq(Name) \ {<<>>} /\ Len(path) \in Nat
  OBVIOUS
<1>2. ~Beyond(Params(n), path, Len(path))
  <2>1. SUFFICES ASSUME NEW q \in Params(n), Len(q) > Len(path), Alike(q, path, Len(path)) PROVE FALSE
    BY DEF Beyond
  <2>2. q \in Seq(Name) /\ Len(q) \in Nat
    OBVIOUS
  <2>3. IsPrefix(path, q)
    BY <1>1, <2>1, <2>2, PrefixAlike
  <2>4. PICK i \in DOMAIN run.uses[n].params : run.uses[n].params[i] = path
    BY DEF Params, Links
  <2>5. PICK j \in DOMAIN run.uses[n].params : run.uses[n].params[j] = q
    BY DEF Params, Links
  <2>6. i = j
    BY <2>3, <2>4, <2>5 DEF VariablesApart
  <2> QED BY <1>1, <2>1, <2>4, <2>5, <2>6
<1>3. ASSUME NEW i \in 1..(Len(path) - 1) PROVE Beyond(Params(n), path, i)
  <2>1. Len(path) > i
    BY <1>1
  <2> QED BY <2>1 DEF Beyond, Alike
<1> QED BY <1>2, <1>3 DEF Cut

\* Variables that are apart are of different paths.
LEMMA OneVariable ==
  ASSUME NEW n, VariablesApart(n), NEW p \in Seq(Name), NEW v, NEW w, Variable(n, v, p), Variable(n, w, p)
  PROVE  v = w
<1>1. IsPrefix(p, p)
  BY PrefixAlike DEF Alike
<1> QED BY <1>1 DEF Variable, VariablesApart

\* What a path begins with exists if the path does.
LEMMA ExistsAlike ==
  ASSUME RunKnown, NEW t, NEW p \in Seq(Name), NEW q \in Seq(Name), Exists(t, p),
         Len(q) <= Len(p), Alike(p, q, Len(q))
  PROVE  Exists(t, q)
<1>1. Len(p) \in Nat /\ Len(q) \in Nat /\ DOMAIN p = 1..Len(p) /\ DOMAIN q = 1..Len(q)
  OBVIOUS
<1>2. \A i \in 1..Len(q) : FieldsAlong(run.image, t, p)[i] = FieldsAlong(run.image, t, q)[i]
  BY <1>1, AlongAlike
<1> QED BY <1>1, <1>2 DEF Exists

\* A path that is resolved exists.
LEMMA ResolvedExists ==
  ASSUME RunKnown, NEW t, NEW p \in Seq(Name) \ {<<>>}, Resolved(t, p)
  PROVE  Exists(t, p)
<1> DEFINE M == MessagesAlong(run.image, t, p)
           k == Len(p)
           G(i) == FieldsAlong(run.image, t, p)[i]
<1>1. k \in Nat \ {0} /\ DOMAIN p = 1..k
  BY EmptySeq
<1>2. \A i \in 1..k : G(i) = UNION {{f \in FieldsIn(run.image, m) : f.name = p[i]} : m \in M[i - 1]}
  BY DEF FieldsAlong
<1>3. G(k) # {}
  BY DEF Resolved
<1>4. M[k - 1] # {}
  <2>1. k \in 1..k
    BY <1>1
  <2> HIDE DEF G, M, k
  <2> QED BY <1>2, <1>3, <2>1
<1>5. \A i \in 1..k : M[i] = Onto(run.image, M[i - 1], p[i])
  BY AlongSteps
<1>6. \A i \in 0..(k - 1) : M[i] # {}
  <2>1. k - 1 \in 0..Len(p)
    BY <1>1
  <2> QED BY <1>4, <2>1, MessagesBefore
<1> HIDE DEF M, G, k
<1>7. ASSUME NEW i \in 1..k, i # k PROVE G(i) # {}
  <2>1. i \in 0..(k - 1)
    BY <1>1, <1>7
  <2>2. M[i] # {}
    BY <1>6, <2>1
  <2>3. PICK m \in M[i - 1] : Onward(run.image, m, p[i]) # {}
    BY <1>5, <2>2 DEF Onto
  <2>4. PICK g \in FieldsIn(run.image, m) : g.name = p[i]
    BY <2>3 DEF Onward
  <2>5. g \in G(i)
    BY <1>2, <2>3, <2>4
  <2> QED BY <2>5
<1> QED BY <1>1, <1>3, <1>7 DEF Exists, G, k

\* What is bound where, and the pieces it may be bound in.
Whole(n, path) == {p \in Bindings(n) : IsPrefix(p.path, path)}

Parts(n, path) == {p \in Bindings(n) : IsPrefix(path, p.path) /\ p.path # path}

OnceAt(n, path) ==
  /\ Cardinality(Whole(n, path)) + (IF Parts(n, path) = {} THEN 0 ELSE 1) = 1
  /\ (\E p \in Whole(n, path) : p.in = "path") <=> \E named \in Params(n) : IsPrefix(named, path)

\* Fields are placed once: what is placed of a path is one record.
LEMMA OneRecord ==
  ASSUME TypeInv, AllMarked, NEW n, VariablesApart(n), NEW p \in Bindings(n), NEW q \in Bindings(n),
         Fitting(n, p), Fitting(n, q), p.path = q.path
  PROVE  p = q
<1>1. p \in Placed /\ q \in Placed /\ p \in placed /\ q \in placed
  BY DEF TypeInv, TypeOK, Bindings
<1>2. p.use = q.use /\ p.in = q.in /\ p.refs = q.refs
  BY DEF Bindings, Fitting
<1>3. p.sensitive <=> q.sensitive
  BY <1>1, <1>2 DEF AllMarked, MarkedRight, Fitting
<1>4. p.sensitive = q.sensitive
  <2>1. p.sensitive \in BOOLEAN /\ q.sensitive \in BOOLEAN
    BY <1>1 DEF Placed
  <2> QED BY <1>3, <2>1
<1>5. p.var = q.var
  <2>1. p.path \in Seq(Name)
    BY <1>1 DEF Placed
  <2> QED BY <2>1, OneVariable DEF Fitting
<1>6. /\ p = [use |-> p.use, var |-> p.var, path |-> p.path, in |-> p.in,
              sensitive |-> p.sensitive, refs |-> p.refs]
      /\ q = [use |-> q.use, var |-> q.var, path |-> q.path, in |-> q.in,
              sensitive |-> q.sensitive, refs |-> q.refs]
  BY <1>1 DEF Placed
<1> QED BY <1>2, <1>4, <1>5, <1>6

\* A path is cut at one place at most.
LEMMA CutOnce ==
  ASSUME NEW params, NEW p \in Seq(Name) \ {<<>>}, NEW path \in Seq(Name), Cut(params, p),
         Len(p) <= Len(path), Alike(path, p, Len(p))
  PROVE  /\ ~Beyond(params, path, Len(p))
         /\ \A i \in 1..(Len(p) - 1) : Beyond(params, path, i)
<1>1. Len(p) \in Nat /\ Alike(p, path, Len(p))
  BY DEF Alike
<1>2. \A i \in 0..Len(p) : Beyond(params, p, i) <=> Beyond(params, path, i)
  BY <1>1, BeyondAlike
<1>3. Len(p) \in 0..Len(p) /\ \A i \in 1..(Len(p) - 1) : i \in 0..Len(p)
  BY <1>1
<1> QED BY <1>2, <1>3 DEF Cut

\* A request that is a body as a whole is bound once.
LEMMA BodyOnce ==
  ASSUME NEW n, Params(n) = {}, AsBody(n), NEW path \in Seq(Name) \ {<<>>}
  PROVE  OnceAt(n, path)
<1>1. PICK b : Bindings(n) = {b} /\ b.path = <<>> /\ b.in = "body"
  BY DEF AsBody
<1>2. Len(path) \in Nat \ {0} /\ <<>> \in Seq(Name) /\ Len(<<>>) = 0
  BY EmptySeq
<1>3. IsPrefix(b.path, path) /\ ~IsPrefix(path, b.path)
  <2>1. Len(b.path) <= Len(path) /\ Alike(path, b.path, Len(b.path))
    BY <1>1, <1>2 DEF Alike
  <2>2. ~(Len(path) <= Len(b.path))
    BY <1>1, <1>2
  <2> QED BY <1>1, <1>2, <2>1, <2>2, PrefixAlike
<1>4. Whole(n, path) = {b} /\ Parts(n, path) = {}
  BY <1>1, <1>3 DEF Whole, Parts
<1>5. Cardinality({b}) = 1
  BY FS_Singleton
<1> QED BY <1>1, <1>4, <1>5 DEF OnceAt

\* So is each field of any other request, once its fields are placed.
LEMMA FieldsOnce ==
  ASSUME TypeInv, AllMarked, NEW n, Distributed(n), ~WholeBody(n), VariablesApart(n),
         NEW path \in Seq(Name) \ {<<>>}, Exists(Request(n), path)
  PROVE  OnceAt(n, path)
<1> DEFINE t == Request(n)
           params == Params(n)
           k == Len(path)
<1>1. RunKnown /\ k \in Nat \ {0} /\ params \in SUBSET (Seq(Name) \ {<<>>})
  BY EmptySeq DEF TypeInv, Distributed
<1>2. ASSUME NEW q \in params PROVE Resolved(t, q) /\ Cut(params, q) /\ Exists(t, q) /\ Has(n, q)
  <2>1. \A r \in params : Resolved(t, r) /\ Has(n, r)
    BY DEF Distributed
  <2>2. Cut(params, q)
    BY <1>1, BoundCut
  <2> QED BY <1>1, <2>1, <2>2, ResolvedExists
<1>3. ASSUME NEW p \in Bindings(n)
      PROVE  Fitting(n, p) /\ p.path \in Seq(Name) \ {<<>>} /\ Cut(params, p.path)
  <2>1. Fitting(n, p)
    BY DEF Distributed
  <2>2. p.path \in Seq(Name)
    BY DEF Bindings, TypeInv, TypeOK, Placed
  <2> QED BY <1>2, <2>1, <2>2 DEF Fitting
<1>4. ASSUME NEW q \in Seq(Name) \ {<<>>}, Exists(t, q), Cut(params, q) PROVE Has(n, q)
  BY <1>2, <1>4 DEF Distributed, Due
<1> HIDE DEF t, params
<1>5. ASSUME NEW p \in Whole(n, path)
      PROVE  /\ Len(p.path) \in 1..k /\ Alike(path, p.path, Len(p.path))
             /\ ~Beyond(params, path, Len(p.path))
             /\ \A i \in 1..(Len(p.path) - 1) : Beyond(params, path, i)
  <2>1. p \in Bindings(n) /\ IsPrefix(p.path, path)
    BY DEF Whole
  <2>2. Fitting(n, p) /\ p.path \in Seq(Name) \ {<<>>} /\ Cut(params, p.path)
    BY <1>3, <2>1
  <2>3. Len(p.path) <= k /\ Alike(path, p.path, Len(p.path))
    BY <2>1, <2>2, PrefixAlike
  <2>4. Len(p.path) \in Nat \ {0}
    BY <2>2, EmptySeq
  <2> QED BY <1>1, <2>2, <2>3, <2>4, CutOnce
<1>6. ASSUME NEW p \in Parts(n, path) PROVE \A i \in 1..k : Beyond(params, path, i)
  <2>1. p \in Bindings(n) /\ IsPrefix(path, p.path) /\ p.path # path
    BY DEF Parts
  <2>2. p.path \in Seq(Name) \ {<<>>} /\ Cut(params, p.path)
    BY <1>3, <2>1
  <2>3. k <= Len(p.path) /\ Alike(p.path, path, k)
    BY <2>1, <2>2, PrefixAlike
  <2>4. Len(p.path) # k
    <3>1. ASSUME Len(p.path) = k PROVE p.path = path
      <4>1. \A i \in 1..Len(p.path) : p.path[i] = path[i]
        BY <2>3, <3>1 DEF Alike
      <4> QED BY <2>2, <3>1, <4>1, SeqEqual
    <3> QED BY <2>1, <3>1
  <2>5. Len(p.path) \in Nat /\ k <= Len(p.path) - 1
    BY <1>1, <2>2, <2>3, <2>4
  <2>6. ASSUME NEW i \in 1..k PROVE Beyond(params, path, i)
    <3>1. i \in 1..(Len(p.path) - 1) /\ i \in 0..k /\ k \in Nat
      BY <1>1, <2>5
    <3>2. Beyond(params, p.path, i)
      BY <2>2, <3>1 DEF Cut
    <3> QED BY <2>3, <3>1, <3>2, BeyondAlike
  <2> QED BY <2>6
<1>7. CASE \A i \in 1..k : Beyond(params, path, i)
  <2>1. Whole(n, path) = {}
    BY <1>5, <1>7
  <2>2. Parts(n, path) # {}
    <3>1. k \in 1..k
      BY <1>1
    <3>2. PICK q \in params : Len(q) > k /\ Alike(q, path, k)
      BY <1>7, <3>1 DEF Beyond
    <3>3. PICK p \in Bindings(n) : p.path = q
      BY <1>2 DEF Has
    <3>4. q \in Seq(Name) /\ Len(q) \in Nat
      BY <1>1, <3>2
    <3>5. IsPrefix(path, q) /\ q # path
      BY <1>1, <3>2, <3>4, PrefixAlike
    <3> QED BY <3>3, <3>5 DEF Parts
  <2>3. ASSUME NEW named \in params, IsPrefix(named, path) PROVE FALSE
    <3>1. named \in Seq(Name) \ {<<>>} /\ Len(named) <= k /\ Alike(path, named, Len(named))
      BY <1>1, <2>3, PrefixAlike
    <3>2. Len(named) \in 1..k
      BY <1>1, <3>1, EmptySeq
    <3>3. ~Beyond(params, path, Len(named))
      BY <1>2, <3>1, CutOnce
    <3> QED BY <1>7, <3>2, <3>3
  <2>4. Cardinality({}) = 0
    BY FS_EmptySet
  <2> QED BY <2>1, <2>2, <2>3, <2>4 DEF OnceAt, params
<1>8. ASSUME NEW j \in 1..k, ~Beyond(params, path, j) PROVE OnceAt(n, path)
  <2>1. PICK i \in {l \in 1..k : ~Beyond(params, path, l)} :
          \A l \in {m \in 1..k : ~Beyond(params, path, m)} : i <= l
    <3> DEFINE Open == {l \in 1..k : ~Beyond(params, path, l)}
    <3>1. Open \subseteq Nat /\ Open # {}
      BY <1>1, <1>8
    <3> HIDE DEF Open
    <3>2. \E i \in Open : \A l \in Open : i <= l
      BY <3>1, LeastNatural
    <3> QED BY <3>2 DEF Open
  <2>2. i \in 1..k /\ ~Beyond(params, path, i) /\ \A l \in 1..(i - 1) : Beyond(params, path, l)
    BY <1>1, <2>1
  <2> DEFINE c == SubSeq(path, 1, i)
  <2>3. c \in Seq(Name) /\ Len(c) = i /\ Alike(c, path, i) /\ Alike(path, c, i)
    <3>1. /\ c \in Seq(Name) /\ Len(c) = IF 1 <= i THEN i - 1 + 1 ELSE 0
          /\ \A l \in 1..(i - 1 + 1) : c[l] = path[1 + l - 1]
      <4>1. i \in Int /\ 1 \in Int /\ \A l \in 1..i : path[l] \in Name
        BY <1>1, <2>2
      <4> QED BY <4>1, SubSeqProperties
    <3> HIDE DEF c
    <3>2. i - 1 + 1 = i /\ 1 <= i /\ \A l \in 1..i : 1 + l - 1 = l
      BY <2>2
    <3> QED BY <3>1, <3>2 DEF Alike
  <2> HIDE DEF c
  <2>4. c \in Seq(Name) \ {<<>>} /\ Cut(params, c) /\ Exists(t, c)
    <3>1. c # <<>>
      BY <2>2, <2>3, EmptySeq
    <3>2. i \in Nat /\ i \in 0..i /\ \A l \in 1..(i - 1) : l \in 0..i
      BY <2>2
    <3>3. \A l \in 0..i : Beyond(params, c, l) <=> Beyond(params, path, l)
      BY <2>3, <3>2, BeyondAlike
    <3>4. Exists(t, c)
      BY <1>1, <2>2, <2>3, ExistsAlike DEF t
    <3> QED BY <2>2, <2>3, <3>1, <3>2, <3>3, <3>4 DEF Cut
  <2>5. PICK p \in Bindings(n) : p.path = c
    BY <1>4, <2>4 DEF Has
  <2>6. p \in Whole(n, path)
    BY <1>1, <2>2, <2>3, <2>5, PrefixAlike DEF Whole
  <2>7. ASSUME NEW q \in Whole(n, path) PROVE q = p
    <3> DEFINE m == Len(q.path)
    <3>1. /\ m \in 1..k /\ Alike(path, q.path, m) /\ ~Beyond(params, path, m)
          /\ \A l \in 1..(m - 1) : Beyond(params, path, l)
      BY <1>5
    <3>2. q \in Bindings(n) /\ q.path \in Seq(Name) /\ Fitting(n, q) /\ Fitting(n, p)
      BY <1>3, <2>5 DEF Whole
    <3>3. m = i
      <4> HIDE DEF m
      <4>1. ~(m < i) /\ ~(i < m)
        BY <2>2, <3>1
      <4> QED BY <2>2, <3>1, <4>1
    <3>4. \A l \in 1..Len(c) : c[l] = q.path[l]
      BY <2>3, <3>1, <3>3 DEF Alike
    <3>5. q.path = c
      BY <2>3, <3>2, <3>3, <3>4, SeqEqual
    <3> QED BY <2>5, <3>2, <3>5, OneRecord
  <2>8. Whole(n, path) = {p}
    BY <2>6, <2>7
  <2>9. Parts(n, path) = {}
    BY <1>6, <2>2
  <2>10. p.in = "path" <=> \E named \in params : IsPrefix(named, path)
    <3>1. Fitting(n, p)
      BY <1>3
    <3>2. p.in = "path" <=> c \in params
      BY <2>5, <3>1 DEF Fitting, Whereto, params
    <3>3. IsPrefix(c, path)
      BY <1>1, <2>2, <2>3, PrefixAlike
    <3>4. ASSUME NEW named \in params, IsPrefix(named, path) PROVE named = c
      <4> DEFINE m == Len(named)
      <4>1. named \in Seq(Name) \ {<<>>} /\ m <= k /\ Alike(path, named, m)
        BY <1>1, <3>4, PrefixAlike
      <4>2. ~Beyond(params, path, m) /\ \A l \in 1..(m - 1) : Beyond(params, path, l)
        BY <1>2, <4>1, CutOnce
      <4>3. m \in 1..k
        BY <1>1, <4>1, EmptySeq
      <4>4. m = i
        <5> HIDE DEF m
        <5>1. ~(m < i) /\ ~(i < m)
          BY <2>2, <4>2, <4>3
        <5> QED BY <2>2, <4>3, <5>1
      <4>5. \A l \in 1..Len(c) : c[l] = named[l]
        BY <2>3, <4>1, <4>4 DEF Alike
      <4> QED BY <2>3, <4>1, <4>4, <4>5, SeqEqual
    <3> QED BY <3>2, <3>3, <3>4
  <2>11. Cardinality({p}) = 1
    BY FS_Singleton
  <2> QED BY <2>8, <2>9, <2>10, <2>11 DEF OnceAt, params
<1> QED BY <1>7, <1>8

\* A field that is still to be placed lies below what is still to be descended into.
Awaits(path) == \E d \in walk : Len(d.at) < Len(path) /\ Alike(path, d.at, Len(d.at))

\* A use that is being bound: a bound path is placed or a segment is left of it,
\* another field is placed or lies below a level of the descent.
Sharing(n) ==
  /\ Params(n) \subseteq Seq(Name) \ {<<>>}
  /\ IF WholeBody(n) THEN segments = {} /\ walk = {} /\ AsBody(n)
     ELSE /\ \A p \in Bindings(n) : Fitting(n, p)
          /\ \A q \in Params(n) : Has(n, q) \/ \E s \in segments : s.at \o s.rest = q
          /\ \A path \in Seq(Name) \ {<<>>} : Due(n, path) => Has(n, path) \/ Awaits(path)
          /\ \A d \in walk : \A i \in 1..Len(d.at) : Beyond(Params(n), d.at, i)

\* What is placed where is said of the run and the bindings alone.
LEMMA RunBinds ==
  ASSUME UNCHANGED run
  PROVE  /\ \A n : (WholeBody(n)' <=> WholeBody(n)) /\ Params(n)' = Params(n)
         /\ \A n, p : Fitting(n, p)' <=> Fitting(n, p)
         /\ \A n, path : Due(n, path)' <=> Due(n, path)
         /\ \A n : Bindings(n)' = Bindings(n) => (Distributed(n)' <=> Distributed(n))
<1>1. \A n : Request(n)' = Request(n) /\ Params(n)' = Params(n) /\ Whereto(n)' = Whereto(n)
             /\ (WholeBody(n)' <=> WholeBody(n))
  BY DEF Request, Params, Whereto, WholeBody
<1>2. \A t, path : Refs(t, path)' = Refs(t, path)
  BY DEF Refs
<1>3. \A n, p : Fitting(n, p)' <=> Fitting(n, p)
  <2> TAKE n, p
  <2>1. Refs(Request(n), p.path)' = Refs(Request(n), p.path)
    BY <1>1 DEF Refs
  <2>2. Variable(n, p.var, p.path)' <=> Variable(n, p.var, p.path)
    BY RunSays
  <2> QED BY <1>1, <2>1, <2>2 DEF Fitting
<1>4. \A n, path : Due(n, path)' <=> Due(n, path)
  <2> TAKE n, path
  <2>1. Exists(Request(n), path)' <=> Exists(Request(n), path)
    BY <1>1 DEF Exists
  <2>2. VariablesApart(n)' <=> VariablesApart(n)
    BY DEF VariablesApart
  <2> QED BY <1>1, <2>1, <2>2 DEF Due
<1>5. ASSUME NEW n, Bindings(n)' = Bindings(n) PROVE Distributed(n)' <=> Distributed(n)
  <2>1. \A path : Has(n, path)' <=> Has(n, path)
    BY <1>5 DEF Has
  <2>2. AsBody(n)' <=> AsBody(n)
    BY <1>5 DEF AsBody
  <2>3. \A q : Resolved(Request(n), q)' <=> Resolved(Request(n), q)
    BY <1>1 DEF Resolved
  <2> QED BY <1>1, <1>3, <1>4, <1>5, <2>1, <2>2, <2>3 DEF Distributed
<1> QED BY <1>1, <1>3, <1>4, <1>5

\* What is placed stays.
LEMMA HasStays ==
  ASSUME placed \subseteq placed', NEW n, NEW path, Has(n, path)
  PROVE  Has(n, path)'
BY DEF Has, Bindings

\* Each step that binds takes what it places from what is awaited.
LEMMA BeginShares ==
  ASSUME TypeInv, BeginUse, \A p \in placed : p.use < use, NEW n, n = use
  PROVE  Sharing(n)'
<1>1. run' = run /\ RunKnown /\ use \in Uses /\ use' = use
  BY DEF BeginUse, Beginning, TypeInv
<1>2. /\ Params(n) \subseteq Seq(Name) \ {<<>>} /\ Links(Current.params) = Params(n)
      /\ run.uses[n].params = Current.params
  BY <1>1, ParamsTyped
<1>3. Bindings(n) = {}
  <2>1. use \in Nat
    BY DEF TypeInv, TypeOK
  <2> QED BY <2>1 DEF Bindings
<1>4. Params(n)' = Params(n) /\ (WholeBody(n)' <=> WholeBody(n))
  BY <1>1, RunBinds
<1>5. CASE WholeBody(n)
  <2> DEFINE b == Place(None, <<>>, "body", SensitiveType(Request(use)), {Request(use)})
  <2>1. Current.params = <<>> /\ DOMAIN Current.params = {} /\ Current.verb \notin Bodyless
    BY <1>2, <1>5 DEF WholeBody, Current
  <2>2. placed' = placed \union {b} /\ walk' = {} /\ segments' = {}
    BY <2>1 DEF BeginUse
  <2>3. b.use = n /\ b.path = <<>> /\ b.in = "body"
    BY DEF Place
  <2> HIDE DEF b
  <2>4. Bindings(n)' = {b}
    BY <1>3, <2>2, <2>3 DEF Bindings
  <2>5. AsBody(n)'
    BY <2>3, <2>4 DEF AsBody
  <2> QED BY <1>2, <1>4, <1>5, <2>2, <2>5 DEF Sharing
<1>6. CASE ~WholeBody(n)
  <2>1. placed' = placed /\ walk' = {Descent(Request(n), <<>>, Params(n), FALSE, {Request(n)})}
    <3>1. ~(Current.params = <<>> /\ Current.verb \notin Bodyless)
      BY <1>2, <1>6 DEF WholeBody, Current
    <3> QED BY <1>2, <3>1 DEF BeginUse
  <2>2. Bindings(n)' = {}
    BY <1>3, <2>1 DEF Bindings
  <2>3. \A q \in Params(n) : \E s \in segments' : s.at \o s.rest = q
    BY BeginSegments
  <2>4. ASSUME NEW d \in walk' PROVE d.at = <<>> /\ Len(d.at) = 0
    BY <2>1 DEF Descent
  <2>5. ASSUME NEW path \in Seq(Name) \ {<<>>} PROVE Awaits(path)'
    <3>1. Len(path) \in Nat \ {0}
      BY EmptySeq
    <3>2. PICK d \in walk' : TRUE
      BY <2>1
    <3> QED BY <2>4, <3>1, <3>2 DEF Awaits, Alike
  <2>6. \A d \in walk' : \A i \in 1..Len(d.at) : Beyond(Params(n), d.at, i)
    BY <2>4
  <2> QED BY <1>2, <1>4, <1>6, <2>2, <2>3, <2>5, <2>6 DEF Sharing
<1> QED BY <1>5, <1>6

\* What is said of a field's place by the path to it.
LEMMA FieldPlaced ==
  ASSUME RunKnown, NEW t, NEW at \in Seq(Name), NEW msg, Leads(t, at, msg),
         NEW f \in FieldsOf(msg), NEW path, Extends(path, at, f.name)
  PROVE  path # <<>> /\ path \in Seq(Name) /\ Refs(t, path) = FieldRefs(f)
<1>1. Names(t, path, f)
  BY Further
<1>2. UNION {FieldRefs(g) : g \in {f}} = FieldRefs(f)
  OBVIOUS
<1>3. path \in Seq(Name) /\ Len(path) = Len(at) + 1 /\ Len(at) \in Nat
  BY DEF Extends
<1>4. path # <<>>
  BY <1>3, EmptySeq
<1> QED BY <1>1, <1>2, <1>3, <1>4 DEF Names, Refs

LEMMA LeafShares ==
  ASSUME TypeInv, NEW s \in segments, ResolveLeaf(s), NEW n, n = use, Following(n), Sharing(n)
  PROVE  Sharing(n)'
<1>1. /\ run' = run /\ RunKnown /\ walk' = walk /\ segments' = segments \ {s} /\ s \in Segments
      /\ Leaf(s)
  BY DEF ResolveLeaf, TypeInv, TypeOK
<1>2. ~WholeBody(n) /\ ~WholeBody(n)'
  BY <1>1, RunBinds DEF Sharing
<1>3. PICK f \in Component(s) :
        placed' = placed \union {Place(s.var, Append(s.at, f.name), "path", Inherited(s, f), FieldRefs(f))}
  BY DEF ResolveLeaf
<1> DEFINE p == Place(s.var, Append(s.at, f.name), "path", Inherited(s, f), FieldRefs(f))
           path == s.at \o s.rest
<1>4. Append(s.at, f.name) = path /\ Extends(path, s.at, f.name)
  BY <1>1, LeafPath
<1>5. /\ placed' = placed \union {p} /\ p.use = n /\ p.path = path /\ p.in = "path"
      /\ p.refs = FieldRefs(f) /\ p.var = s.var
  BY <1>3, <1>4 DEF Place
<1> HIDE DEF p
<1>6. Bindings(n)' = Bindings(n) \union {p}
  BY <1>5 DEF Bindings
<1>7. path \in Params(n) /\ Variable(n, s.var, path) /\ Leads(Request(n), s.at, s.msg)
  BY VariableBound DEF Following, Walked
<1> HIDE DEF path
<1>8. Fitting(n, p)
  <2>1. f \in FieldsOf(s.msg) /\ s.at \in Seq(Name)
    BY <1>1 DEF Component, Segments
  <2>2. path # <<>> /\ Refs(Request(n), path) = FieldRefs(f)
    BY <1>1, <1>4, <1>7, <2>1, FieldPlaced
  <2> QED BY <1>5, <1>7, <2>2 DEF Fitting
<1>9. \A q \in Params(n) : Has(n, q)' \/ \E r \in segments' : r.at \o r.rest = q
  <2> TAKE q \in Params(n)
  <2>1. CASE Has(n, q)
    BY <1>5, <2>1, HasStays
  <2>2. CASE q = path
    BY <1>5, <1>6, <2>2 DEF Has
  <2>3. ASSUME NEW r \in segments, r.at \o r.rest = q, q # path PROVE r \in segments'
    BY <1>1, <2>3 DEF path
  <2> QED BY <1>2, <2>1, <2>2, <2>3 DEF Sharing
<1>10. \A q \in Seq(Name) \ {<<>>} : Due(n, q) => Has(n, q)' \/ Awaits(q)'
  <2>1. placed \subseteq placed'
    BY <1>5
  <2> QED BY <1>1, <1>2, <2>1, HasStays DEF Sharing, Awaits
<1>11. \A d \in walk' : \A i \in 1..Len(d.at) : Beyond(Params(n), d.at, i)
  BY <1>1, <1>2 DEF Sharing
<1>12. \A r \in Bindings(n)' : Fitting(n, r)
  BY <1>2, <1>6, <1>8 DEF Sharing
<1>13. Params(n) \subseteq Seq(Name) \ {<<>>}
  BY DEF Sharing
<1> QED BY <1>1, <1>2, <1>9, <1>10, <1>11, <1>12, <1>13, RunBinds DEF Sharing

LEMMA ComponentShares ==
  ASSUME TypeInv, NEW s \in segments, ResolveComponent(s), NEW n, n = use, Sharing(n)
  PROVE  Sharing(n)'
<1>1. /\ run' = run /\ RunKnown /\ walk' = walk /\ placed' = placed /\ s \in Segments
  BY DEF ResolveComponent, TypeInv, TypeOK
<1>2. ~WholeBody(n) /\ ~WholeBody(n)'
  BY <1>1, RunBinds DEF Sharing
<1>3. PICK f \in Component(s) :
        segments' = (segments \ {s}) \union
          {Segment(s.var, f.to, Append(s.at, f.name), Tail(s.rest), Inherited(s, f))}
  BY DEF ResolveComponent
<1> DEFINE x == Segment(s.var, f.to, Append(s.at, f.name), Tail(s.rest), Inherited(s, f))
<1>4. segments' = (segments \ {s}) \union {x} /\ x.at = Append(s.at, f.name) /\ x.rest = Tail(s.rest)
  BY <1>3 DEF Segment
<1> HIDE DEF x
<1>5. s.at \o s.rest = x.at \o x.rest
  <2>1. s.at \in Seq(Name) /\ s.rest \in Seq(Name) /\ s.rest # <<>> /\ f.name = Head(s.rest)
    BY <1>1 DEF Segments, Component
  <2>2. x.at = Append(s.at, Head(s.rest)) /\ x.rest = Tail(s.rest)
    BY <1>4, <2>1
  <2> QED BY <2>1, <2>2, ComponentOn
<1>6. \A q \in Params(n) : Has(n, q) \/ \E r \in segments' : r.at \o r.rest = q
  BY <1>2, <1>4, <1>5 DEF Sharing
<1>7. Bindings(n)' = Bindings(n) /\ \A path : (Has(n, path)' <=> Has(n, path)) /\ (Awaits(path)' <=> Awaits(path))
  BY <1>1 DEF Bindings, Has, Awaits
<1>8. /\ \A p \in Bindings(n) : Fitting(n, p)
      /\ \A path \in Seq(Name) \ {<<>>} : Due(n, path) => Has(n, path) \/ Awaits(path)
      /\ \A d \in walk : \A i \in 1..Len(d.at) : Beyond(Params(n), d.at, i)
      /\ Params(n) \subseteq Seq(Name) \ {<<>>}
  BY <1>2 DEF Sharing
<1> QED BY <1>1, <1>2, <1>6, <1>7, <1>8, RunBinds DEF Sharing

\* A path is what it extends, and the component.
LEMMA ExtendsAppend ==
  ASSUME NEW at \in Seq(Name), NEW x \in Name, NEW path, Extends(path, at, x)
  PROVE  path = Append(at, x)
<1>1. Append(at, x) \in Seq(Name) /\ Len(Append(at, x)) = Len(at) + 1 /\ Len(at) \in Nat
      /\ \A i \in 1..(Len(at) + 1) : Append(at, x)[i] = IF i = Len(at) + 1 THEN x ELSE at[i]
  OBVIOUS
<1>2. path \in Seq(Name) /\ Len(path) = Len(at) + 1 /\ path[Len(at) + 1] = x
      /\ \A i \in 1..Len(at) : path[i] = at[i]
  BY DEF Extends, Alike
<1> DEFINE a == Append(at, x)
<1> HIDE DEF a
<1>3. \A i \in 1..Len(path) : path[i] = a[i]
  <2>1. \A i \in 1..(Len(at) + 1) : i = Len(at) + 1 \/ i \in 1..Len(at)
    BY <1>1
  <2> QED BY <1>1, <1>2, <2>1 DEF a
<1> QED BY <1>1, <1>2, <1>3, SeqEqual DEF a

\* What is bound of a field and below it, by the path to it.
LEMMA FieldBound ==
  ASSUME NEW params \in SUBSET (Seq(Name) \ {<<>>}), NEW at \in Seq(Name), NEW x \in Name,
         NEW path, Extends(path, at, x)
  PROVE  /\ <<x>> \in Below(params, at) <=> path \in params
         /\ Under(Below(params, at), x) = Below(params, path)
         /\ Under(Below(params, at), x) # {} <=> Beyond(params, path, Len(path))
         /\ (\A i \in 1..Len(at) : Beyond(params, at, i)) =>
              \A i \in 1..(Len(path) - 1) : Beyond(params, path, i)
<1>1. path = Append(at, x) /\ path \in Seq(Name) /\ Len(path) = Len(at) + 1 /\ Len(at) \in Nat
      /\ Alike(path, at, Len(at))
  BY ExtendsAppend DEF Extends
<1>2. <<x>> \in Below(params, at) <=> path \in params
  <2>1. at \o <<x>> = path
    <3>1. <<x>> \in Seq(Name) /\ <<x>> # <<>> /\ Head(<<x>>) = x /\ Tail(<<x>>) = <<>>
      OBVIOUS
    <3>2. at \o <<x>> = Append(at, x) \o <<>>
      BY <3>1, ComponentOn
    <3>3. path \o <<>> = path
      BY <1>1, ConcatEmptySeq
    <3> QED BY <1>1, <3>2, <3>3
  <2>2. <<x>> \in Seq(Name) /\ <<x>> # <<>>
    OBVIOUS
  <2> QED BY <2>1, <2>2 DEF Below
<1>3. Under(Below(params, at), x) = Below(params, path)
  BY <1>1, UnderBelow
<1>4. Under(Below(params, at), x) # {} <=> Beyond(params, path, Len(path))
  BY <1>1, <1>3, BelowBeyond
<1>5. ASSUME \A i \in 1..Len(at) : Beyond(params, at, i), NEW i \in 1..(Len(path) - 1)
      PROVE  Beyond(params, path, i)
  <2>1. i \in 1..Len(at) /\ i \in 0..Len(at)
    BY <1>1
  <2> QED BY <1>1, <1>5, <2>1, BeyondAlike
<1> QED BY <1>2, <1>3, <1>4, <1>5

LEMMA DescendShares ==
  ASSUME TypeInv, NEW d \in walk, Descend(d), NEW n, n = use, Following(n), Sharing(n)
  PROVE  Sharing(n)'
<1> DEFINE t == Request(n)
           params == Params(n)
           To(f) == Append(d.at, f.name)
           New == {Place(None, To(f), Where, Inherited(d, f), FieldRefs(f)) : f \in Plain(d)}
           Objects == {Place(None, To(f), "object", Inherited(d, f), {}) : f \in Containers(d)}
           Into(f) == Descent(f.to, To(f), Under(d.bound, f.name), Inherited(d, f), d.seen \union {f.to})
<1>1. run' = run /\ RunKnown /\ segments = {} /\ segments' = {} /\ d \in Descents
  BY DEF Descend, Descending, TypeInv, TypeOK
<1>2. ~WholeBody(n) /\ ~WholeBody(n)'
  BY <1>1, RunBinds DEF Sharing
<1>3. /\ d.at \in Seq(Name) /\ d.bound = Below(params, d.at) /\ Leads(t, d.at, d.msg)
      /\ params \in SUBSET (Seq(Name) \ {<<>>})
      /\ \A i \in 1..Len(d.at) : Beyond(params, d.at, i)
  BY <1>1, <1>2 DEF Descents, Following, Walked, Sharing
<1>4. \A q \in params : Resolved(t, q) /\ Has(n, q)
  BY <1>1, <1>2 DEF Following, Sharing
<1>5. /\ placed \subseteq placed' /\ New \subseteq placed' /\ placed' \subseteq placed \union New \union Objects
      /\ walk' = (walk \ {d}) \union {Into(f) : f \in Containers(d)}
  BY DEF Descend
<1>6. /\ \A p \in New : p.use = n /\ p.in # "object"
      /\ \A p \in Objects : p.in = "object"
      /\ \A f \in Containers(d) : Into(f).at = To(f)
      /\ Where = Whereto(n)
  BY DEF Place, Where, Descent, Whereto, Current
<1>7. Bindings(n)' = Bindings(n) \union New
  <2> HIDE DEF New, Objects
  <2> QED BY <1>5, <1>6 DEF Bindings
<1>8. ASSUME NEW f \in FieldsOf(d.msg)
      PROVE  /\ f.name \in Name /\ Extends(To(f), d.at, f.name)
             /\ To(f) \in Seq(Name) \ {<<>>} /\ Refs(t, To(f)) = FieldRefs(f)
             /\ f \in Remaining(d) <=> To(f) \notin params
             /\ Under(d.bound, f.name) # {} <=> Beyond(params, To(f), Len(To(f)))
             /\ \A i \in 1..(Len(To(f)) - 1) : Beyond(params, To(f), i)
  <2>1. f.name \in Name
    BY <1>1, FieldTyped DEF Field
  <2> DEFINE path == To(f)
             x == f.name
  <2>2. Extends(path, d.at, x)
    BY <1>3, <2>1, AppendExtends
  <2> HIDE DEF path
  <2>3. path \in Seq(Name) \ {<<>>} /\ Refs(t, path) = FieldRefs(f)
    BY <1>1, <1>3, <2>2, FieldPlaced
  <2>4. f \in Remaining(d) <=> <<x>> \notin d.bound
    BY DEF Remaining
  <2> HIDE DEF x
  <2>5. x \in Name
    BY <2>1 DEF x
  <2>6. /\ <<x>> \in d.bound <=> path \in params
        /\ Under(d.bound, x) # {} <=> Beyond(params, path, Len(path))
        /\ \A i \in 1..(Len(path) - 1) : Beyond(params, path, i)
    <3> HIDE DEF params
    <3>1. /\ <<x>> \in Below(params, d.at) <=> path \in params
          /\ Under(Below(params, d.at), x) # {} <=> Beyond(params, path, Len(path))
          /\ (\A i \in 1..Len(d.at) : Beyond(params, d.at, i)) =>
               \A i \in 1..(Len(path) - 1) : Beyond(params, path, i)
      BY <1>3, <2>2, <2>5, FieldBound
    <3> QED BY <1>3, <3>1
  <2> QED BY <2>1, <2>2, <2>3, <2>4, <2>6 DEF path, x
<1>9. Remaining(d) \subseteq FieldsOf(d.msg) /\ Containers(d) \subseteq Remaining(d)
  BY DEF Remaining, Containers
<1>10. \A f \in Remaining(d) : f \in Containers(d) <=> Beyond(params, To(f), Len(To(f)))
  BY <1>8, <1>9 DEF Containers
<1> HIDE DEF t, params, To
<1>11. ASSUME NEW p \in New PROVE Fitting(n, p)
  <2>1. PICK f \in Plain(d) : p = Place(None, To(f), Where, Inherited(d, f), FieldRefs(f))
    OBVIOUS
  <2>2. p.path = To(f) /\ p.in = Whereto(n) /\ p.refs = FieldRefs(f) /\ p.var = None
    BY <1>6, <2>1 DEF Place
  <2>3. f \in Remaining(d) /\ f \in FieldsOf(d.msg) /\ f \notin Containers(d)
    BY <1>9 DEF Plain
  <2>4. To(f) \notin params /\ Cut(params, To(f))
    BY <1>8, <1>10, <2>3 DEF Cut
  <2> QED BY <1>8, <2>2, <2>3, <2>4 DEF Fitting, t, params
<1>12. ASSUME NEW path \in Seq(Name) \ {<<>>}, Due(n, path), Awaits(path), ~Awaits(path)'
       PROVE  Has(n, path)'
  <2> DEFINE k == Len(d.at)
  <2>1. k < Len(path) /\ Alike(path, d.at, k)
    <3>1. PICK e \in walk : Len(e.at) < Len(path) /\ Alike(path, e.at, Len(e.at))
      BY <1>12 DEF Awaits
    <3>2. e = d
      BY <1>5, <1>12, <3>1 DEF Awaits
    <3> QED BY <3>1, <3>2
  <2>2. Exists(t, path) /\ path \notin params /\ Cut(params, path)
    BY <1>12 DEF Due, t, params
  <2>3. k \in Nat /\ Len(path) \in Nat /\ k + 1 \in 1..Len(path) /\ (k + 1) - 1 = k /\ DOMAIN path = 1..Len(path)
    BY <1>3, <2>1
  <2>4. MessagesAlong(run.image, t, path)[k] = {d.msg}
    <3>1. \A i \in 0..k : MessagesAlong(run.image, t, path)[i] = MessagesAlong(run.image, t, d.at)[i]
      BY <1>1, <1>3, <2>1, <2>3, AlongAlike
    <3>2. k \in 0..k
      BY <2>3
    <3> QED BY <1>3, <3>1, <3>2 DEF Leads
  <2>5. PICK f \in FieldsOf(d.msg) : f.name = path[k + 1]
    <3>1. FieldsAlong(run.image, t, path)[k + 1] # {}
      BY <2>2, <2>3 DEF Exists
    <3>2. FieldsAlong(run.image, t, path)[k + 1] =
            UNION {{g \in FieldsIn(run.image, m) : g.name = path[k + 1]} : m \in {d.msg}}
      BY <2>3, <2>4 DEF FieldsAlong
    <3> QED BY <3>1, <3>2 DEF FieldsOf
  <2> DEFINE q == To(f)
  <2>6. q \in Seq(Name) \ {<<>>} /\ Len(q) = k + 1 /\ Alike(path, q, k + 1)
    <3>1. Extends(q, d.at, f.name) /\ q \in Seq(Name) \ {<<>>}
      BY <1>8
    <3> HIDE DEF q
    <3>2. Len(q) = k + 1 /\ q[k + 1] = f.name /\ \A i \in 1..k : q[i] = d.at[i]
      BY <3>1 DEF Extends, Alike
    <3>3. \A i \in 1..(k + 1) : i = k + 1 \/ i \in 1..k
      BY <2>3
    <3>4. \A i \in 1..k : path[i] = d.at[i]
      BY <2>1 DEF Alike
    <3> QED BY <2>5, <3>1, <3>2, <3>3, <3>4 DEF Alike
  <2> HIDE DEF q, k
  <2>7. k \in Nat /\ Len(path) \in Nat /\ k + 1 <= Len(path) /\ Len(q) = k + 1
    BY <2>3, <2>6
  <2>8. Len(path) = k + 1 => path = q
    <3>1. \A i \in 1..(k + 1) : path[i] = q[i]
      BY <2>6 DEF Alike
    <3> QED BY <2>6, <3>1, SeqEqual
  <2>9. Beyond(params, q, Len(q)) <=> Beyond(params, path, Len(q))
    <3>1. Len(q) \in Nat /\ Len(q) \in 0..Len(q) /\ Alike(path, q, Len(q))
      BY <2>3, <2>6
    <3> QED BY <3>1, BeyondAlike
  <2>10. q \notin params
    <3>1. SUFFICES ASSUME q \in params PROVE FALSE
      OBVIOUS
    <3>2. Len(q) \in 1..(Len(path) - 1)
      <4>1. Len(path) # k + 1
        BY <2>2, <2>8, <3>1
      <4>2. \A l, m \in Nat : l + 1 <= m /\ m # l + 1 => l + 1 \in 1..(m - 1)
        OBVIOUS
      <4> QED BY <2>7, <4>1, <4>2
    <3>3. Beyond(params, q, Len(q))
      BY <2>2, <2>9, <3>2 DEF Cut
    <3>4. Cut(params, q)
      BY <1>3, <1>12, <3>1, BoundCut DEF Due, params
    <3> QED BY <3>3, <3>4 DEF Cut
  <2>11. f \in Remaining(d)
    BY <1>8, <2>10 DEF q
  <2>12. Len(path) = k + 1
    <3>1. SUFFICES ASSUME Len(path) # k + 1 PROVE FALSE
      OBVIOUS
    <3>2. k + 1 \in 1..(Len(path) - 1) /\ Len(q) < Len(path)
      BY <2>7, <3>1
    <3>3. Beyond(params, q, Len(q))
      BY <2>2, <2>6, <2>9, <3>2 DEF Cut
    <3>4. f \in Containers(d)
      BY <1>10, <2>11, <3>3 DEF q
    <3>5. Into(f) \in walk' /\ Into(f).at = q
      BY <1>5, <1>6, <3>4 DEF q
    <3> HIDE DEF Into
    <3>6. Awaits(path)'
      BY <2>6, <3>2, <3>5 DEF Awaits
    <3> QED BY <1>12, <3>6
  <2>13. f \in Plain(d)
    <3>1. ~Beyond(params, q, Len(q))
      BY <2>2, <2>6, <2>9, <2>12 DEF Cut
    <3> QED BY <1>10, <2>11, <3>1 DEF Plain, q
  <2> DEFINE p == Place(None, To(f), Where, Inherited(d, f), FieldRefs(f))
  <2>14. p \in New /\ p.path = path
    BY <2>8, <2>12, <2>13 DEF Place, q
  <2> HIDE DEF p, New
  <2> QED BY <1>7, <2>14 DEF Has
<1>13. \A path \in Seq(Name) \ {<<>>} : Due(n, path) => Has(n, path)' \/ Awaits(path)'
  BY <1>2, <1>5, <1>12, HasStays DEF Sharing
<1>14. \A q \in params : Has(n, q)'
  BY <1>4, <1>5, HasStays
<1>15. ASSUME NEW x \in walk', NEW i \in 1..Len(x.at) PROVE Beyond(params, x.at, i)
  <2>1. CASE x \in walk
    BY <1>2, <1>15, <2>1 DEF Sharing, params
  <2>2. ASSUME NEW f \in Containers(d), x = Into(f) PROVE Beyond(params, x.at, i)
    <3> DEFINE q == To(f)
    <3>1. x.at = q /\ f \in Remaining(d) /\ f \in FieldsOf(d.msg)
      BY <1>6, <1>9, <2>2
    <3>2. Beyond(params, q, Len(q)) /\ \A j \in 1..(Len(q) - 1) : Beyond(params, q, j)
      BY <1>8, <1>10, <3>1
    <3>3. q \in Seq(Name)
      BY <1>8, <3>1
    <3> HIDE DEF q
    <3>4. i = Len(q) \/ i \in 1..(Len(q) - 1)
      BY <1>15, <3>1, <3>3
    <3> QED BY <3>1, <3>2, <3>4
  <2> HIDE DEF Into
  <2> QED BY <1>5, <2>1, <2>2
<1>16. \A p \in Bindings(n)' : Fitting(n, p)
  <2> HIDE DEF New
  <2> QED BY <1>2, <1>7, <1>11 DEF Sharing
<1> HIDE DEF New, Objects, Into
<1> QED BY <1>1, <1>2, <1>3, <1>13, <1>14, <1>15, <1>16, RunBinds DEF Sharing, params

\* Once its fields are placed, a use is bound.
LEMMA SharingDistributes ==
  ASSUME NEW n, Sharing(n), Following(n), segments = {}, walk = {}
  PROVE  Distributed(n)
<1>1. \A q \in Params(n) : Resolved(Request(n), q)
  BY DEF Following
<1>2. \A path : ~Awaits(path)
  BY DEF Awaits
<1> QED BY <1>1, <1>2 DEF Sharing, Distributed

Early == stage \in {"pack", "history", "schemas", "operations"}

\* What is placed is of the uses so far; those of the operations are bound, the
\* one at hand is being bound.
OnceInv ==
  /\ MarkersInv
  /\ \A p \in placed : p.use <= use /\ (Early => p.use < use)
  /\ \A op \in operations : op.use < use /\ Distributed(op.use)
  /\ stage = "binding" => Sharing(use)
  /\ stage = "rendering" => Distributed(use)

LEMMA InitOnce == Init => OnceInv
BY InitMarkers DEF Init, OnceInv

\* What a step places is of the use at hand.
LEMMA PlacesHere ==
  ASSUME [Next]_vars
  PROVE  placed \subseteq placed' /\ \A p \in placed' \ placed : p.use = use /\ stage' = "binding"
<1>1. ASSUME NEW s \in segments, ResolveLeaf(s)
      PROVE  placed \subseteq placed' /\ \A p \in placed' \ placed : p.use = use /\ stage' = "binding"
  <2>1. ASSUME NEW p \in placed' \ placed PROVE \E var, path, in, sensitive, refs : p = Place(var, path, in, sensitive, refs)
    BY <1>1 DEF ResolveLeaf
  <2>2. placed \subseteq placed' /\ stage' = "binding"
    BY <1>1 DEF ResolveLeaf
  <2> QED BY <2>1, <2>2 DEF Place
<1>2. ASSUME NEW d \in walk, Descend(d)
      PROVE  placed \subseteq placed' /\ \A p \in placed' \ placed : p.use = use /\ stage' = "binding"
  <2>1. ASSUME NEW p \in placed' \ placed PROVE \E var, path, in, sensitive, refs : p = Place(var, path, in, sensitive, refs)
    BY <1>2 DEF Descend
  <2> QED BY <1>2, <2>1 DEF Descend, Descending, Place
<1>3. ASSUME NEW s \in segments, ResolveComponent(s) PROVE placed' = placed
  BY <1>3 DEF ResolveComponent
<1>4. ASSUME BeginUse
      PROVE  placed \subseteq placed' /\ \A p \in placed' \ placed : p.use = use /\ stage' = "binding"
  <2>1. ASSUME NEW p \in placed' \ placed PROVE \E var, path, in, sensitive, refs : p = Place(var, path, in, sensitive, refs)
    BY <1>4 DEF BeginUse
  <2>2. placed \subseteq placed' /\ stage' = "binding"
    BY <1>4 DEF BeginUse
  <2> QED BY <2>1, <2>2 DEF Place
<1> QED BY <1>1, <1>2, <1>3, <1>4, BindsNothing

\* The use at hand moves on by one, and is bound when its schemas are rendered.
Moves ==
  /\ use <= use'
  /\ Early' => Early \/ (stage = "rendering" /\ use' = use + 1)
  /\ stage' = "binding" =>
       /\ UNCHANGED use
       /\ \/ stage = "binding" /\ UNCHANGED <<segments, walk, placed>>
          \/ BeginUse
          \/ \E s \in segments : ResolveLeaf(s) \/ ResolveComponent(s)
          \/ \E d \in walk : Descend(d)
  /\ stage' = "rendering" =>
       /\ UNCHANGED <<use, placed>>
       /\ stage = "rendering" \/ (stage = "binding" /\ segments = {} /\ walk = {})
  /\ \A op \in operations' : op \in operations \/ (stage = "rendering" /\ op.use = use /\ use' = use + 1)

LEMMA UseMoves ==
  ASSUME [Next]_vars, use \in Nat
  PROVE  Moves
<1> USE DEF Moves, Early, schemas, bindings, Beginning, Calling, Descending, Refuse
<1>1. ASSUME NEW topic \in topics, Contribute(topic) PROVE Moves
  BY <1>1 DEF Contribute
<1>2. CASE CheckTransitive
  BY <1>2 DEF CheckTransitive
<1>3. CASE FetchHistory
  BY <1>3 DEF FetchHistory
<1>4. ASSUME NEW t \in Type, Reuse(t) \/ Reserve(t) \/ UnknownType(t) PROVE Moves
  BY <1>4 DEF Reuse, Reserve, UnknownType
<1>5. CASE Build \/ SchemasBuilt
  BY <1>5 DEF Build, SchemasBuilt
<1>6. CASE SkipUse \/ RefuseUse
  BY <1>6 DEF SkipUse, RefuseUse
<1>7. CASE BeginUse
  <2>1. UNCHANGED <<use, operations>> /\ stage' = "binding"
    BY <1>7 DEF BeginUse
  <2> QED BY <1>7, <2>1
<1>8. ASSUME NEW s \in segments, ResolveLeaf(s) \/ ResolveComponent(s) PROVE Moves
  <2>1. UNCHANGED <<use, operations, stage>> /\ stage = "binding"
    BY <1>8 DEF ResolveLeaf, ResolveComponent
  <2> QED BY <1>8, <2>1
<1>9. ASSUME NEW s \in segments, RefuseSegment(s) PROVE Moves
  BY <1>9 DEF RefuseSegment
<1>10. ASSUME NEW d \in walk, Descend(d) PROVE Moves
  <2>1. UNCHANGED <<use, operations, stage>> /\ stage = "binding"
    BY <1>10 DEF Descend
  <2> QED BY <1>10, <2>1
<1>11. ASSUME NEW d \in walk, RefuseDescent(d) PROVE Moves
  BY <1>11 DEF RefuseDescent
<1>12. CASE RenderSchemas
  BY <1>12 DEF RenderSchemas
<1>13. CASE FinishUse
  <2>1. CASE Claimed(use)
    BY <1>13, <2>1 DEF FinishUse
  <2>2. CASE ~Claimed(use)
    <3>1. /\ operations' = operations \union
               {[use |-> use, id |-> OperationId(use), codes |-> CodeSources(Request(use))]}
          /\ use' = use + 1 /\ stage = "rendering" /\ stage' = "operations"
      BY <1>13, <2>2 DEF FinishUse
    <3> QED BY <3>1
  <2> QED BY <2>1, <2>2
<1>14. CASE Emit
  BY <1>14 DEF Emit
<1>15. CASE UNCHANGED vars
  BY <1>15 DEF vars
<1> HIDE DEF Moves
<1> QED BY <1>1, <1>2, <1>3, <1>4, <1>5, <1>6, <1>7, <1>8, <1>9, <1>10, <1>11, <1>12, <1>13, <1>14,
           <1>15 DEF Next

LEMMA OnceStep == OnceInv /\ [Next]_vars => OnceInv'
<1> SUFFICES ASSUME OnceInv, [Next]_vars PROVE OnceInv'
  OBVIOUS
<1>1. MarkersInv /\ MarkersInv' /\ TypeInv /\ RunKnown /\ UNCHANGED run
  BY MarkersStep, RunStays DEF OnceInv, MarkersInv, TypeInv
<1>2. use \in Nat /\ use' \in Nat /\ \A p \in placed \union placed' : p.use \in Nat
  BY <1>1, RunTyped DEF MarkersInv, TypeInv, TypeOK, Placed
<1>3. Moves
  BY <1>2, UseMoves
<1>4. placed \subseteq placed' /\ \A p \in placed' \ placed : p.use = use /\ stage' = "binding"
  BY PlacesHere
<1>5. ASSUME NEW p \in placed' PROVE p.use <= use' /\ (Early' => p.use < use')
  <2>1. CASE p \in placed
    <3>1. p.use <= use /\ (Early => p.use < use)
      BY <2>1 DEF OnceInv
    <3> QED BY <1>2, <1>3, <3>1 DEF Moves
  <2>2. CASE p \notin placed
    BY <1>2, <1>3, <1>4, <1>5, <2>2 DEF Moves, Early
  <2> QED BY <2>1, <2>2
<1>6. ASSUME NEW n \in Nat, n < use PROVE Bindings(n)' = Bindings(n)
  BY <1>2, <1>4, <1>6 DEF Bindings
<1>7. ASSUME placed' = placed, NEW n PROVE Distributed(n)' <=> Distributed(n)
  <2>1. Bindings(n)' = Bindings(n)
    BY <1>7 DEF Bindings
  <2> QED BY <1>1, <2>1, RunBinds
<1>8. ASSUME NEW op \in operations' PROVE op.use < use' /\ Distributed(op.use)'
  <2>1. CASE op \in operations
    <3>1. op.use < use /\ Distributed(op.use) /\ op.use \in Nat
      BY <1>1, <2>1 DEF OnceInv, MarkersInv, TypeInv, TypeOK, Operation
    <3>2. Bindings(op.use)' = Bindings(op.use)
      BY <1>6, <3>1
    <3>3. Distributed(op.use)'
      BY <1>1, <3>1, <3>2, RunBinds
    <3> QED BY <1>2, <1>3, <3>1, <3>3 DEF Moves
  <2>2. CASE op \notin operations
    <3>1. stage = "rendering" /\ op.use = use /\ use' = use + 1
      BY <1>3, <1>8, <2>2 DEF Moves
    <3>2. PICK n : n = use
      OBVIOUS
    <3>3. Distributed(n)
      BY <3>1, <3>2 DEF OnceInv
    <3>4. placed' = placed
      BY <1>3, <1>4, <3>1 DEF Moves
    <3>5. Distributed(n)'
      BY <1>7, <3>3, <3>4
    <3>6. op.use = n /\ op.use < use'
      BY <1>2, <3>1, <3>2
    <3> QED BY <3>5, <3>6
  <2> QED BY <2>1, <2>2
<1>9. PICK n : n = use
  OBVIOUS
<1>10. stage = "binding" => Sharing(n) /\ Following(n)
  BY <1>1, <1>9 DEF OnceInv, MarkersInv
<1>11. ASSUME stage' = "binding" PROVE Sharing(use)'
  <2>1. use' = n
    BY <1>3, <1>9, <1>11 DEF Moves
  <2>2. Sharing(n)'
    <3>1. CASE stage = "binding" /\ UNCHANGED <<segments, walk, placed>>
      <4>1. Bindings(n)' = Bindings(n) /\ \A path : (Has(n, path)' <=> Has(n, path)) /\ (Awaits(path)' <=> Awaits(path))
        BY <3>1 DEF Bindings, Has, Awaits
      <4>2. AsBody(n)' <=> AsBody(n)
        BY <4>1 DEF AsBody
      <4>3. Sharing(n)
        BY <1>10, <3>1
      <4> QED BY <1>1, <3>1, <4>1, <4>2, <4>3, RunBinds DEF Sharing
    <3>2. CASE BeginUse
      <4>1. \A p \in placed : p.use < use
        BY <3>2 DEF BeginUse, Beginning, OnceInv, Early
      <4> QED BY <1>1, <1>9, <3>2, <4>1, BeginShares
    <3>3. ASSUME NEW s \in segments, ResolveLeaf(s) PROVE Sharing(n)'
      <4>1. Sharing(n) /\ Following(n)
        BY <1>10, <3>3 DEF ResolveLeaf
      <4> QED BY <1>1, <1>9, <3>3, <4>1, LeafShares
    <3>4. ASSUME NEW s \in segments, ResolveComponent(s) PROVE Sharing(n)'
      <4>1. Sharing(n)
        BY <1>10, <3>4 DEF ResolveComponent
      <4> QED BY <1>1, <1>9, <3>4, <4>1, ComponentShares
    <3>5. ASSUME NEW d \in walk, Descend(d) PROVE Sharing(n)'
      <4>1. Sharing(n) /\ Following(n)
        BY <1>10, <3>5 DEF Descend, Descending
      <4> QED BY <1>1, <1>9, <3>5, <4>1, DescendShares
    <3> QED BY <1>3, <1>11, <3>1, <3>2, <3>3, <3>4, <3>5 DEF Moves
  <2> QED BY <2>1, <2>2 DEF Sharing
<1>12. ASSUME stage' = "rendering" PROVE Distributed(use)'
  <2>1. use' = n /\ placed' = placed
    BY <1>3, <1>9, <1>12 DEF Moves
  <2>2. Distributed(n)
    <3>1. CASE stage = "rendering"
      BY <1>9, <3>1 DEF OnceInv
    <3>2. CASE stage = "binding" /\ segments = {} /\ walk = {}
      BY <1>10, <3>2, SharingDistributes
    <3> QED BY <1>3, <1>12, <3>1, <3>2 DEF Moves
  <2>3. Distributed(n)'
    BY <1>7, <2>1, <2>2
  <2> QED BY <2>1, <2>3 DEF Distributed
<1> QED BY <1>1, <1>5, <1>8, <1>11, <1>12 DEF OnceInv

\* Where the variables of a path are apart, each part of a request is bound once,
\* by itself, with what holds it or piece by piece, to the path exactly if a
\* variable names it or what holds it.
THEOREM EachBoundOnce == Spec => []BoundOnce
<1>1. Spec => []OnceInv
  BY InitOnce, OnceStep, PTL DEF Spec
<1>2. OnceInv => BoundOnce
  <2> SUFFICES ASSUME OnceInv, NEW op \in operations, NEW path \in Paths,
                      VariablesApart(op.use), Exists(Request(op.use), path)
               PROVE  OnceAt(op.use, path)
    BY DEF BoundOnce, OnceAt, Whole, Parts, Params
  <2>1. TypeInv /\ AllMarked /\ Distributed(op.use)
    BY MarkersPlaced DEF OnceInv, MarkersInv
  <2>2. path \in Seq(Name) \ {<<>>}
    <3>1. PICK k \in 1..MaxDepth : path \in [1..k -> Name]
      BY DEF Paths
    <3>2. k \in Nat \ {0}
      BY <3>1, RunAssumption
    <3>3. path \in Seq(Name) /\ Len(path) = k
      BY <3>1, <3>2
    <3> QED BY <3>2, <3>3, EmptySeq
  <2>3. CASE WholeBody(op.use)
    <3>1. Params(op.use) = {}
      BY <2>3 DEF WholeBody, Params, Links
    <3> QED BY <2>1, <2>2, <2>3, <3>1, BodyOnce DEF Distributed
  <2>4. CASE ~WholeBody(op.use)
    BY <2>1, <2>2, <2>4, FieldsOnce
  <2> QED BY <2>3, <2>4
<1> QED BY <1>1, <1>2, PTL
=============================================================================
