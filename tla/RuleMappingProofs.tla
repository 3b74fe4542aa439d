------------------------- MODULE RuleMappingProofs -------------------------
(***************************************************************************)
(* No rule of a field disappears between PXF and JSON Schema, and none is  *)
(* made stronger.  Whichever keyword a piece of a rule is folded into, the *)
(* values the constraints accept are afterwards those they accepted before *)
(* that the piece holds of; so at the end they are those all pieces hold   *)
(* of, which the rules hold of too.                                        *)
(***************************************************************************)
EXTENDS RuleMapping, SequenceTheorems, InductionLemmas

\* A set of naturals below a bound has a greatest.
LEMMA GreatestOf ==
  ASSUME NEW n \in Nat, NEW T, T \subseteq 1..n, T # {}
  PROVE  \E x \in T : \A y \in T : y <= x
<1> DEFINE D == {n - x : x \in T}
<1>1. D \subseteq Nat /\ D # {}
  <2>1. ASSUME NEW x \in T PROVE n - x \in Nat
    <3>1. x \in 1..n
      OBVIOUS
    <3> QED BY <3>1
  <2>2. D \subseteq Nat
    BY <2>1
  <2>3. PICK x : x \in T
    OBVIOUS
  <2>4. n - x \in D
    BY <2>3
  <2> QED BY <2>2, <2>4
<1>2. PICK d \in D : \A e \in D : d <= e
  BY <1>1, LeastNatural
<1>3. PICK x \in T : d = n - x
  OBVIOUS
<1>4. ASSUME NEW y \in T PROVE y <= x
  <2>1. n - y \in D
    OBVIOUS
  <2>2. d <= n - y /\ x \in Int /\ y \in Int
    BY <1>2, <2>1
  <2> QED BY <1>3, <2>2
<1> QED BY <1>4

-----------------------------------------------------------------------------
(* A rule and its pieces. *)

\* A piece is of one atom or of two.
LEMMA PieceShape ==
  ASSUME NEW p \in Piece
  PROVE  /\ Len(p) \in {1, 2} /\ DOMAIN p = 1..Len(p)
         /\ \A i \in DOMAIN p : p[i] \in Atom
<1>1. p \in Seq(Atom) /\ Len(p) \in 1..2
  BY DEF Piece
<1> QED BY <1>1, LenProperties, ElementOfSeq

\* A rule is made of pieces.
LEMMA RuleShape ==
  ASSUME NEW r \in Rule
  PROVE  /\ Len(r) \in Nat \ {0} /\ DOMAIN r = 1..Len(r)
         /\ \A i \in DOMAIN r : r[i] \in Piece
<1>1. r \in Seq(Piece) /\ r # <<>>
  BY DEF Rule
<1> QED BY <1>1, LenProperties, ElementOfSeq, EmptySeq

\* Pieces that all hold make the rule hold, though `&&` binds tighter than the
\* `||` inside them: the last operand of `||` whose second atom holds, or the
\* first of the rule, holds with all that `&&` binds to it.
LEMMA PiecesMakeRule ==
  ASSUME NEW r \in Rule, NEW v, \A i \in DOMAIN r : PieceHolds(r[i], v)
  PROVE  RuleHolds(r, v)
<1> DEFINE n == Len(r)
           Seconds == {i \in DOMAIN r : Len(r[i]) = 2 /\ AtomHolds(r[i][2], v)}
           First(i) == AtomHolds(r[i][1], v)
<1>1. n \in Nat \ {0} /\ DOMAIN r = 1..n
  BY RuleShape
<1>2. \A i \in DOMAIN r : Len(r[i]) \in {1, 2} /\ DOMAIN r[i] = 1..Len(r[i])
  BY RuleShape, PieceShape
<1>3. \A i \in DOMAIN r : i \notin Seconds => First(i)
  <2>1. ASSUME NEW i \in DOMAIN r, i \notin Seconds PROVE First(i)
    <3>1. PICK j \in DOMAIN r[i] : AtomHolds(r[i][j], v)
      BY DEF PieceHolds
    <3>2. j = 1 \/ (j = 2 /\ Len(r[i]) = 2)
      BY <1>2
    <3> QED BY <2>1, <3>1, <3>2
  <2> QED BY <2>1
<1>4. CASE Seconds = {}
  <2>1. 1 \in DOMAIN r /\ 1 \in DOMAIN r[1] /\ First(1)
    BY <1>1, <1>2, <1>3, <1>4
  <2>2. \A k \in 1 + 1 .. n : First(k)
    BY <1>1, <1>3, <1>4
  <2> QED BY <2>1, <2>2 DEF RuleHolds
<1>5. CASE Seconds # {}
  <2>1. PICK m \in Seconds : \A i \in Seconds : i <= m
    <3> HIDE DEF Seconds
    <3>1. Seconds \subseteq 1..n
      BY <1>1 DEF Seconds
    <3> QED BY <1>1, <1>5, <3>1, GreatestOf
  <2>2. m \in DOMAIN r /\ 2 \in DOMAIN r[m] /\ AtomHolds(r[m][2], v)
    BY <1>2
  <2>3. ASSUME NEW k \in m + 1 .. n PROVE First(k)
    <3>1. k \in DOMAIN r /\ ~(k <= m)
      BY <1>1, <2>2
    <3> QED BY <1>3, <2>1, <3>1
  <2> QED BY <2>2, <2>3 DEF RuleHolds
<1> QED BY <1>4, <1>5

\* A rule without `||` beside `&&` is all of its pieces.
LEMMA RuleMakesPieces ==
  ASSUME NEW r \in Rule, NEW v, RuleHolds(r, v),
         \A k \in DOMAIN r : Len(r[k]) > 1 => Len(r) = 1
  PROVE  \A i \in DOMAIN r : PieceHolds(r[i], v)
<1>1. Len(r) \in Nat \ {0} /\ DOMAIN r = 1..Len(r)
  BY RuleShape
<1>2. \A i \in DOMAIN r : Len(r[i]) \in {1, 2} /\ DOMAIN r[i] = 1..Len(r[i])
  BY RuleShape, PieceShape
<1>3. PICK i \in DOMAIN r : \E j \in DOMAIN r[i] :
        /\ i = 1 \/ j > 1
        /\ AtomHolds(r[i][j], v)
        /\ j = Len(r[i]) =>
             \A k \in i + 1 .. Len(r) :
               (\A m \in i + 1 .. k - 1 : Len(r[m]) = 1) => AtomHolds(r[k][1], v)
  BY DEF RuleHolds
<1>4. CASE Len(r) = 1
  BY <1>1, <1>3, <1>4 DEF PieceHolds
<1>5. CASE Len(r) # 1
  <2>1. ASSUME NEW k \in DOMAIN r PROVE Len(r[k]) = 1 /\ 1 \in DOMAIN r[k]
    <3>1. Len(r[k]) = 1
      BY <1>2, <1>5
    <3>2. DOMAIN r[k] = 1..1
      BY <1>2, <3>1
    <3> QED BY <3>1, <3>2
  <2>2. i = 1 /\ AtomHolds(r[1][1], v)
    BY <1>2, <1>3, <2>1
  <2>3. \A k \in 2 .. Len(r) : AtomHolds(r[k][1], v)
    <3>1. \A k \in 2 .. Len(r) : \A m \in 2 .. k - 1 : Len(r[m]) = 1
      BY <1>1, <2>1
    <3>2. \A k \in 1 + 1 .. Len(r) :
            (\A m \in 1 + 1 .. k - 1 : Len(r[m]) = 1) => AtomHolds(r[k][1], v)
      BY <1>2, <1>3, <2>1, <2>2
    <3> QED BY <3>1, <3>2
  <2>4. \A k \in DOMAIN r : AtomHolds(r[k][1], v)
    BY <1>1, <2>2, <2>3
  <2> QED BY <2>1, <2>4 DEF PieceHolds
<1> QED BY <1>4, <1>5

-----------------------------------------------------------------------------
(* What mapConjunct does to a piece: the constraints afterwards accept the *)
(* values they accepted before that the piece holds of.                    *)

\* After says what c and p say, of values of this kind; exactly that, where
\* exact.
Tightens(c, p, after, kind, exact) ==
  /\ after \in Constraints
  /\ \A v \in Value : Accepts(after, kind, v) => Accepts(c, kind, v) /\ PieceHolds(p, v)
  /\ exact => \A v \in Value : Accepts(c, kind, v) /\ PieceHolds(p, v) => Accepts(after, kind, v)

\* x-validation says a piece as it is.
LEMMA KeepTightens ==
  ASSUME NEW c \in Constraints, NEW p \in Piece, NEW kind, NEW exact \in BOOLEAN
  PROVE  Tightens(c, p, Keep(c, p), kind, exact)
<1> DEFINE after == Keep(c, p)
<1>1. /\ after \in Constraints /\ after.unmapped = c.unmapped \union {p}
      /\ after.pattern = c.pattern /\ after.enum = c.enum
      /\ after.min = c.min /\ after.max = c.max
      /\ after.nMin = c.nMin /\ after.nMax = c.nMax
      /\ after.exclMin = c.exclMin /\ after.exclMax = c.exclMax
  BY DEF Keep, Constraints
<1> HIDE DEF after
<1>2. ASSUME NEW v \in Value
      PROVE  Accepts(after, kind, v) <=> Accepts(c, kind, v) /\ PieceHolds(p, v)
  BY <1>1 DEF Accepts
<1> QED BY <1>1, <1>2 DEF after, Tightens

\* An atom alone is its piece.
LEMMA SingleHolds ==
  ASSUME NEW p \in Piece, Len(p) = 1, NEW v
  PROVE  PieceHolds(p, v) <=> AtomHolds(p[1], v)
<1>1. DOMAIN p = 1..1
  BY PieceShape
<1>2. DOMAIN p = {1}
  BY <1>1
<1> QED BY <1>2 DEF PieceHolds

\* A pattern is a pattern.
LEMMA MatchesTightens ==
  ASSUME NEW c \in Constraints, NEW p \in Piece, p[1].shape = "matches",
         NEW kind, NEW exact \in BOOLEAN
  PROVE  Tightens(c, p, MapMatches(c, p), kind, exact)
<1>1. CASE ~(Len(p) = 1 /\ p[1].plain /\ c.pattern = None)
  BY <1>1, KeepTightens DEF MapMatches
<1>2. CASE Len(p) = 1 /\ p[1].plain /\ c.pattern = None
  <2> DEFINE after == MapMatches(c, p)
  <2>1. p[1] \in Atom
    BY <1>2, PieceShape
  <2>2. p[1].fact \in Facts
    BY <2>1 DEF Atom
  <2>3. after = [c EXCEPT !.pattern = p[1].fact]
    BY <1>2 DEF MapMatches
  <2>4. /\ after \in Constraints /\ after.unmapped = c.unmapped
        /\ after.pattern = p[1].fact /\ after.enum = c.enum
        /\ after.min = c.min /\ after.max = c.max
        /\ after.nMin = c.nMin /\ after.nMax = c.nMax
        /\ after.exclMin = c.exclMin /\ after.exclMax = c.exclMax
    BY <2>2, <2>3 DEF Constraints
  <2> HIDE DEF after
  <2>5. ASSUME NEW v \in Value
        PROVE  Accepts(after, kind, v) <=> Accepts(c, kind, v) /\ PieceHolds(p, v)
    <3>1. PieceHolds(p, v) <=> p[1].fact \in v.facts
      BY <1>2, SingleHolds DEF AtomHolds
    <3>2. p[1].fact # None
      BY <2>2, RuleAssumption
    <3> QED BY <1>2, <2>4, <3>1, <3>2 DEF Accepts
  <2> QED BY <2>4, <2>5 DEF after, Tightens
<1> QED BY <1>1, <1>2

\* Two lists that are read as one: what is left of them is in one or the other.
LEMMA EnumWithin ==
  ASSUME NEW p \in Piece, ReadsAsList(p)
  PROVE  /\ EnumOf(p) # {} /\ EnumOf(p) \subseteq Literals \union {None}
         /\ \A x \in EnumOf(p) \ {None} : \E i \in DOMAIN p : x \in Members(p[i].list)
         /\ Len(p) = 1 => EnumOf(p) = Members(p[1].list)
<1>1. /\ Len(p) \in {1, 2} /\ DOMAIN p = 1..Len(p)
      /\ \A i \in DOMAIN p : p[i] \in Atom /\ p[i].shape = "in"
  BY PieceShape DEF ReadsAsList
<1>2. ASSUME NEW i \in DOMAIN p
      PROVE  /\ p[i].list \in Seq(Literals) /\ p[i].list # <<>>
             /\ Members(p[i].list) # {} /\ Members(p[i].list) \subseteq Literals
  <2>1. p[i].list \in Seq(Literals) \ {<<>>}
    BY <1>1 DEF Atom
  <2>2. Len(p[i].list) \in Nat \ {0} /\ DOMAIN p[i].list = 1..Len(p[i].list)
    BY <2>1, LenProperties, EmptySeq
  <2> DEFINE l == p[i].list
  <2>3. 1 \in DOMAIN l
    BY <2>2
  <2>4. \A k \in DOMAIN l : l[k] \in Literals
    BY <2>1, <2>2, ElementOfSeq
  <2>5. l[1] \in Members(l) /\ Members(l) \subseteq Literals
    <3> HIDE DEF l
    <3> QED BY <2>3, <2>4 DEF Members
  <2> QED BY <2>1, <2>5
<1>3. CASE Len(p) = 1
  BY <1>1, <1>2, <1>3 DEF EnumOf
<1>4. CASE Len(p) = 2
  <2>1. 1 \in DOMAIN p /\ 2 \in DOMAIN p
    BY <1>1, <1>4
  <2> DEFINE s == p[1].list
             t == p[2].list
  <2>2. Members(Front(s)) \subseteq Members(s)
    <3>1. s \in Seq(Literals) /\ s # <<>> /\ Len(s) \in Nat \ {0} /\ DOMAIN s = 1..Len(s)
      BY <1>2, <2>1, LenProperties, EmptySeq
    <3>2. /\ Len(SubSeq(s, 1, Len(s) - 1)) = Len(s) - 1
          /\ \A k \in 1..Len(s) - 1 : SubSeq(s, 1, Len(s) - 1)[k] = s[k]
          /\ DOMAIN SubSeq(s, 1, Len(s) - 1) = 1..Len(s) - 1
      <4> HIDE DEF s
      <4> QED BY <3>1
    <3> HIDE DEF s
    <3> QED BY <3>1, <3>2 DEF Members, Front
  <2>3. Members(Tail(t)) \subseteq Members(t)
    <3>1. t \in Seq(Literals) /\ t # <<>>
      BY <1>2, <2>1
    <3> HIDE DEF t
    <3>2. /\ Len(t) \in Nat \ {0} /\ DOMAIN t = 1..Len(t)
          /\ Len(Tail(t)) = Len(t) - 1 /\ DOMAIN Tail(t) = 1..Len(t) - 1
          /\ \A k \in 1..Len(t) - 1 : Tail(t)[k] = t[k + 1]
      BY <3>1, LenProperties, HeadTailProperties, EmptySeq
    <3>3. ASSUME NEW k \in 1..Len(t) - 1 PROVE Tail(t)[k] = t[k + 1] /\ k + 1 \in DOMAIN t
      BY <3>2
    <3> QED BY <3>2, <3>3 DEF Members
  <2>4. EnumOf(p) = Members(Front(s)) \union {None} \union Members(Tail(t))
    BY <1>4 DEF EnumOf
  <2> HIDE DEF s, t
  <2>5. EnumOf(p) # {} /\ EnumOf(p) \subseteq Members(s) \union {None} \union Members(t)
    BY <2>2, <2>3, <2>4
  <2> QED BY <1>2, <1>4, <2>1, <2>5 DEF s, t
<1> QED BY <1>1, <1>3, <1>4

\* A list of values is an enum; nothing is lost of one that is not.
LEMMA EnumTightens ==
  ASSUME NEW c \in Constraints, NEW p \in Piece, p[1].shape = "in", NEW kind,
         NEW exact \in BOOLEAN,
         exact => Comparable(kind) /\ (Len(p) = 1 \/ ~ReadsAsList(p))
  PROVE  Tightens(c, p, MapEnum(c, p), kind, exact)
<1>1. CASE ~(ReadsAsList(p) /\ c.enum = {})
  BY <1>1, KeepTightens DEF MapEnum
<1>2. CASE ReadsAsList(p) /\ c.enum = {}
  <2> DEFINE after == MapEnum(c, p)
  <2>0. /\ EnumOf(p) # {} /\ EnumOf(p) \subseteq Literals \union {None}
        /\ \A x \in EnumOf(p) \ {None} : \E i \in DOMAIN p : x \in Members(p[i].list)
        /\ Len(p) = 1 => EnumOf(p) = Members(p[1].list)
    BY <1>2, EnumWithin
  <2>1. after = [c EXCEPT !.enum = EnumOf(p)]
    BY <1>2 DEF MapEnum
  <2>2. /\ after \in Constraints /\ after.unmapped = c.unmapped
        /\ after.pattern = c.pattern /\ after.enum = EnumOf(p)
        /\ after.min = c.min /\ after.max = c.max
        /\ after.nMin = c.nMin /\ after.nMax = c.nMax
        /\ after.exclMin = c.exclMin /\ after.exclMax = c.exclMax
    BY <2>0, <2>1 DEF Constraints
  <2> HIDE DEF after
  <2>3. ASSUME NEW v \in Value, v.literal \in EnumOf(p) PROVE PieceHolds(p, v)
    <3>1. v.literal \in Literals /\ v.literal # None
      BY RuleAssumption DEF Value
    <3>2. PICK i \in DOMAIN p : v.literal \in Members(p[i].list)
      BY <2>0, <2>3, <3>1
    <3>3. p[i].shape = "in"
      BY <1>2 DEF ReadsAsList
    <3> QED BY <3>2, <3>3 DEF PieceHolds, AtomHolds
  <2>4. ASSUME NEW v \in Value, Len(p) = 1, PieceHolds(p, v) PROVE v.literal \in EnumOf(p)
    BY <2>0, <2>4, SingleHolds DEF AtomHolds
  <2>5. ASSUME NEW v \in Value, Accepts(after, kind, v)
        PROVE  Accepts(c, kind, v) /\ PieceHolds(p, v)
    BY <1>2, <2>0, <2>2, <2>3, <2>5 DEF Accepts
  <2>6. ASSUME NEW v \in Value, exact, Accepts(c, kind, v), PieceHolds(p, v)
        PROVE  Accepts(after, kind, v)
    BY <1>2, <2>0, <2>2, <2>4, <2>6 DEF Accepts
  <2> QED BY <2>2, <2>5, <2>6 DEF after, Tightens
<1> QED BY <1>1, <1>2

\* What the bounds of a size say.
LEMMA SizeBoundsSay ==
  ASSUME NEW a \in Atom, a.shape = "size", NEW n \in Int
  PROVE  LET b == SizeBounds(a)
         IN /\ b.min \in Int \union {None} /\ b.max \in Int \union {None}
            /\ b.min # None \/ b.max # None =>
                 (Compare(n, a.op, a.bound) <=>
                    (b.min # None => n >= b.min) /\ (b.max # None => n <= b.max))
<1> DEFINE b == SizeBounds(a)
<1>1. a.op \in {"<", "<=", ">", ">=", "==", "!="} /\ a.bound \in Int
  BY DEF Atom
<1>2. None \notin Int
  BY RuleAssumption
<1>3. /\ b.min = IF a.op \in {">=", "=="} THEN a.bound ELSE IF a.op = ">" THEN a.bound + 1 ELSE None
      /\ b.max = IF a.op \in {"<=", "=="} THEN a.bound ELSE IF a.op = "<" THEN a.bound - 1 ELSE None
  BY DEF SizeBounds
<1> HIDE DEF b
<1>4. CASE a.op = "<"
  BY <1>1, <1>2, <1>3, <1>4 DEF b, Compare
<1>5. CASE a.op = "<="
  BY <1>1, <1>2, <1>3, <1>5 DEF b, Compare
<1>6. CASE a.op = ">"
  BY <1>1, <1>2, <1>3, <1>6 DEF b, Compare
<1>7. CASE a.op = ">="
  BY <1>1, <1>2, <1>3, <1>7 DEF b, Compare
<1>8. CASE a.op = "=="
  BY <1>1, <1>2, <1>3, <1>8 DEF b, Compare
<1>9. CASE a.op = "!="
  BY <1>1, <1>2, <1>3, <1>9 DEF b, Compare
<1> QED BY <1>1, <1>4, <1>5, <1>6, <1>7, <1>8, <1>9

\* The bounds that are set when one of the two is taken say no more than the
\* piece, which is kept; when both are free they say the piece.
LEMMA SizeTightens ==
  ASSUME NEW c \in Constraints, NEW p \in Piece, Len(p) = 1, p[1].shape = "size",
         NEW kind, kind # "bytes", NEW exact \in BOOLEAN
  PROVE  Tightens(c, p, MapSize(c, p), kind, exact)
<1> DEFINE a == p[1]
           b == SizeBounds(a)
           free == (b.min # None => c.min = None) /\ (b.max # None => c.max = None)
           minTaken == b.min # None /\ c.min # None
           set == [c EXCEPT !.min = Put(@, b.min), !.max = IF minTaken THEN @ ELSE Put(@, b.max)]
<1>0. /\ a \in Atom /\ a.shape = "size"
      /\ \A v \in Value : PieceHolds(p, v) <=> Compare(v.size, a.op, a.bound)
  BY PieceShape, SingleHolds DEF AtomHolds
<1>1. b.min \in Int \union {None} /\ b.max \in Int \union {None}
  <2>1. 0 \in Int
    OBVIOUS
  <2> QED BY <1>0, <2>1, SizeBoundsSay
<1>2. MapSize(c, p) = IF b.min = None /\ b.max = None THEN Keep(c, p)
                      ELSE IF free THEN set ELSE Keep(set, p)
  BY DEF MapSize
<1> HIDE DEF a, b
<1>3. /\ set \in Constraints /\ set.unmapped = c.unmapped
      /\ set.pattern = c.pattern /\ set.enum = c.enum
      /\ set.min = Put(c.min, b.min)
      /\ set.max = IF minTaken THEN c.max ELSE Put(c.max, b.max)
      /\ set.nMin = c.nMin /\ set.nMax = c.nMax
      /\ set.exclMin = c.exclMin /\ set.exclMax = c.exclMax
  BY <1>1 DEF Constraints, Put
<1> HIDE DEF set
<1>4. \A v \in Value : JsonSize(kind, v) = v.size /\ v.size \in Int
  BY DEF JsonSize, Value
<1>8. ASSUME b.min # None \/ b.max # None, NEW v \in Value
      PROVE  PieceHolds(p, v) <=>
               (b.min # None => v.size >= b.min) /\ (b.max # None => v.size <= b.max)
  <2>1. v.size \in Int
    BY <1>4
  <2>2. Compare(v.size, a.op, a.bound) <=>
          (b.min # None => v.size >= b.min) /\ (b.max # None => v.size <= b.max)
    BY <1>0, <1>8, <2>1, SizeBoundsSay DEF b
  <2> QED BY <1>0, <2>2
<1>5. CASE b.min = None /\ b.max = None
  BY <1>2, <1>5, KeepTightens
<1>6. CASE (b.min # None \/ b.max # None) /\ free
  <2>1. \A v \in Value : PieceHolds(p, v) <=>
          (b.min # None => v.size >= b.min) /\ (b.max # None => v.size <= b.max)
    BY <1>8, <1>6
  <2>2. ASSUME NEW v \in Value
        PROVE  Accepts(set, kind, v) <=> Accepts(c, kind, v) /\ PieceHolds(p, v)
    BY <1>3, <1>4, <1>6, <2>1 DEF Accepts, Put
  <2> QED BY <1>2, <1>3, <1>6, <2>2 DEF Tightens
<1>7. CASE (b.min # None \/ b.max # None) /\ ~free
  <2>1. Tightens(set, p, Keep(set, p), kind, exact)
    BY <1>3, KeepTightens
  <2>2. \A v \in Value : PieceHolds(p, v) <=>
          (b.min # None => v.size >= b.min) /\ (b.max # None => v.size <= b.max)
    BY <1>8, <1>7
  <2>3. ASSUME NEW v \in Value
        PROVE  /\ Accepts(set, kind, v) => Accepts(c, kind, v)
               /\ Accepts(c, kind, v) /\ PieceHolds(p, v) => Accepts(set, kind, v)
    BY <1>3, <1>4, <2>2 DEF Accepts, Put
  <2> QED BY <1>2, <1>7, <2>1, <2>3 DEF Tightens
<1> QED BY <1>5, <1>6, <1>7

\* A bound on a number that JSON writes as one.
LEMMA NumericTightens ==
  ASSUME NEW c \in Constraints, NEW p \in Piece, Len(p) = 1, p[1].shape = "number",
         NEW kind, IsJsonNumber(kind), NEW exact \in BOOLEAN
  PROVE  Tightens(c, p, MapNumeric(c, p), kind, exact)
<1> DEFINE a == p[1]
           after == MapNumeric(c, p)
<1>0. /\ a \in Atom /\ a.bound \in Int
      /\ \A v \in Value : PieceHolds(p, v) <=> Compare(v.number, a.op, a.bound)
      /\ \A v \in Value : v.number \in Int
  <2>1. a \in Atom
    BY PieceShape
  <2>2. a.bound \in Int
    BY <2>1 DEF Atom
  <2> QED BY <2>1, <2>2, SingleHolds DEF AtomHolds, Value
<1>1. None \notin Int
  BY RuleAssumption
<1>2. CASE a.op \in {"<", "<="} /\ c.nMax = None
  <2>1. after = [c EXCEPT !.nMax = a.bound, !.exclMax = (a.op = "<")]
    BY <1>2 DEF MapNumeric
  <2> DEFINE strict == a.op = "<"
  <2>2. /\ after \in Constraints /\ after.unmapped = c.unmapped
        /\ after.pattern = c.pattern /\ after.enum = c.enum
        /\ after.min = c.min /\ after.max = c.max
        /\ after.nMin = c.nMin /\ after.nMax = a.bound
        /\ after.exclMin = c.exclMin /\ after.exclMax = strict
    <3> HIDE DEF a, strict
    <3>1. after = [c EXCEPT !.nMax = a.bound, !.exclMax = strict] /\ strict \in BOOLEAN
      BY <2>1 DEF strict
    <3> HIDE DEF after
    <3> QED BY <1>0, <3>1 DEF Constraints
  <2> HIDE DEF after, a
  <2>3. ASSUME NEW v \in Value
        PROVE  Accepts(after, kind, v) <=> Accepts(c, kind, v) /\ PieceHolds(p, v)
    <3>1. PieceHolds(p, v) <=> IF strict THEN v.number < a.bound ELSE v.number <= a.bound
      BY <1>0, <1>2 DEF Compare
    <3>2. a.bound # None
      BY <1>0, <1>1
    <3> HIDE DEF strict
    <3> QED BY <1>2, <2>2, <3>1, <3>2 DEF Accepts
  <2> QED BY <2>2, <2>3 DEF after, Tightens
<1>3. CASE ~(a.op \in {"<", "<="} /\ c.nMax = None) /\ a.op \in {">", ">="} /\ c.nMin = None
  <2>1. after = [c EXCEPT !.nMin = a.bound, !.exclMin = (a.op = ">")]
    BY <1>3 DEF MapNumeric
  <2> DEFINE strict == a.op = ">"
  <2>2. /\ after \in Constraints /\ after.unmapped = c.unmapped
        /\ after.pattern = c.pattern /\ after.enum = c.enum
        /\ after.min = c.min /\ after.max = c.max
        /\ after.nMax = c.nMax /\ after.nMin = a.bound
        /\ after.exclMax = c.exclMax /\ after.exclMin = strict
    <3> HIDE DEF a, strict
    <3>1. after = [c EXCEPT !.nMin = a.bound, !.exclMin = strict] /\ strict \in BOOLEAN
      BY <2>1 DEF strict
    <3> HIDE DEF after
    <3> QED BY <1>0, <3>1 DEF Constraints
  <2> HIDE DEF after, a
  <2>3. ASSUME NEW v \in Value
        PROVE  Accepts(after, kind, v) <=> Accepts(c, kind, v) /\ PieceHolds(p, v)
    <3>1. PieceHolds(p, v) <=> IF strict THEN v.number > a.bound ELSE v.number >= a.bound
      BY <1>0, <1>3 DEF Compare
    <3>2. a.bound # None
      BY <1>0, <1>1
    <3> HIDE DEF strict
    <3> QED BY <1>3, <2>2, <3>1, <3>2 DEF Accepts
  <2> QED BY <2>2, <2>3 DEF after, Tightens
<1>4. CASE ~(a.op \in {"<", "<="} /\ c.nMax = None) /\ ~(a.op \in {">", ">="} /\ c.nMin = None)
  BY <1>4, KeepTightens DEF MapNumeric
<1> QED BY <1>2, <1>3, <1>4

-----------------------------------------------------------------------------
(* The loop over layers, rules and pieces. *)

KindOf(l) == LayerKind(target, l)

\* The pieces the loop is past.
Done(l, i, j) == l < layer \/ (l = layer /\ (i < rule \/ (i = rule /\ j < piece)))

\* Those of a layer hold of v.
DoneHold(l, v) ==
  \A i \in DOMAIN Layers(target)[l] : \A j \in DOMAIN Layers(target)[l][i] :
    Done(l, i, j) => PieceHolds(Layers(target)[l][i][j], v)

InLoop ==
  /\ target \in Targets
  /\ layer \in DOMAIN Layers(target) /\ rule \in Nat \ {0} /\ piece \in Nat \ {0}
  /\ rule <= Len(Rules) + 1
  /\ rule \in DOMAIN Rules => piece \in DOMAIN Rules[rule]
  /\ rule > Len(Rules) => piece = 1
  /\ mapped \in [DOMAIN Layers(target) -> Constraints]
  /\ stage \in {"map", "done"} /\ null \in BOOLEAN
  /\ stage = "done" => IsField(target, layer) /\ rule > Len(Rules) /\ null = Nullable(target)

\* What the schema of a layer accepts, its pieces that are mapped hold of.
SaysDone ==
  Binding(target) =>
    \A l \in DOMAIN Layers(target) : \A v \in Value :
      Accepts(mapped[l], KindOf(l), v) => DoneHold(l, v)

\* And what they hold of it accepts.
SaysOnlyDone ==
  Binding(target) /\ Plain(target) =>
    \A l \in DOMAIN Layers(target) : \A v \in Value :
      DoneHold(l, v) => Accepts(mapped[l], KindOf(l), v)

MapIInv == InLoop /\ SaysDone /\ SaysOnlyDone

\* The layers are lists of rules; the field's own come last.
LEMMA LayersShape ==
  ASSUME NEW t \in Targets
  PROVE  /\ Len(Layers(t)) \in Nat \ {0} /\ DOMAIN Layers(t) = 1..Len(Layers(t))
         /\ \A l \in DOMAIN Layers(t) : Layers(t)[l] \in Seq(Rule)
         /\ Layers(t)[Len(Layers(t))] = t.own
         /\ t.container # "map" =>
              /\ DOMAIN t.aliases = 1..Len(Layers(t)) - 1
              /\ \A l \in DOMAIN t.aliases : Layers(t)[l] = t.aliases[l]
         /\ t.container = "map" => Len(Layers(t)) = 1
<1>1. t.aliases \in Seq(Seq(Rule)) /\ t.own \in Seq(Rule)
  BY RuleAssumption DEF Target
<1>2. CASE t.container = "map"
  BY <1>1, <1>2 DEF Layers
<1>3. CASE t.container # "map"
  <2> DEFINE a == t.aliases
             R == Seq(Rule)
             ls == Layers(t)
  <2>1. ls = Append(a, t.own)
    BY <1>3 DEF Layers
  <2>2. a \in Seq(R) /\ t.own \in R
    BY <1>1
  <2> HIDE DEF a, R, ls
  <2>3. /\ ls \in Seq(R) /\ Len(ls) = Len(a) + 1
        /\ \A i \in 1..Len(a) : ls[i] = a[i]
        /\ ls[Len(a) + 1] = t.own
    BY <2>1, <2>2, AppendProperties
  <2>4. /\ Len(a) \in Nat /\ DOMAIN a = 1..Len(a) /\ DOMAIN ls = 1..Len(ls)
        /\ \A l \in DOMAIN ls : ls[l] \in R
    BY <2>2, <2>3, LenProperties, ElementOfSeq
  <2>5. /\ Len(ls) \in Nat \ {0} /\ DOMAIN a = 1..Len(ls) - 1 /\ ls[Len(ls)] = t.own
        /\ \A l \in DOMAIN a : ls[l] = a[l]
    BY <2>3, <2>4
  <2> QED BY <1>3, <2>4, <2>5 DEF a, R, ls
<1> QED BY <1>2, <1>3

\* The rules of the layer at hand, and the piece.
LEMMA CurrentShape ==
  ASSUME InLoop
  PROVE  /\ Len(Rules) \in Nat /\ DOMAIN Rules = 1..Len(Rules)
         /\ \A i \in DOMAIN Rules :
              /\ Rules[i] \in Rule
              /\ Len(Rules[i]) \in Nat \ {0} /\ DOMAIN Rules[i] = 1..Len(Rules[i])
         /\ rule \in DOMAIN Rules => Current \in Piece /\ 1 \in DOMAIN Current /\ Current[1] \in Atom
<1>1. Rules \in Seq(Rule)
  BY LayersShape DEF InLoop, Rules
<1>2. Len(Rules) \in Nat /\ DOMAIN Rules = 1..Len(Rules)
  BY <1>1, LenProperties
<1>3. \A i \in DOMAIN Rules : Rules[i] \in Rule
  BY <1>1, <1>2, ElementOfSeq
<1>4. ASSUME NEW i \in DOMAIN Rules
      PROVE  Len(Rules[i]) \in Nat \ {0} /\ DOMAIN Rules[i] = 1..Len(Rules[i])
  BY <1>3, RuleShape
<1>5. ASSUME rule \in DOMAIN Rules
      PROVE  Current \in Piece /\ 1 \in DOMAIN Current /\ Current[1] \in Atom
  <2>1. Current \in Piece
    BY <1>3, <1>5, RuleShape DEF InLoop, Current
  <2>2. 1 \in DOMAIN Current
    BY <2>1, PieceShape
  <2> QED BY <2>1, <2>2, PieceShape
<1> QED BY <1>2, <1>3, <1>4, <1>5

\* Advance moves past the piece at hand, and past no other.
LEMMA AdvanceDone ==
  ASSUME InLoop, Reading, Advance, mapped' \in [DOMAIN Layers(target) -> Constraints]
  PROVE  /\ InLoop'
         /\ \A l \in DOMAIN Layers(target) :
            \A i \in DOMAIN Layers(target)[l] : \A j \in DOMAIN Layers(target)[l][i] :
              Done(l, i, j)' <=> Done(l, i, j) \/ (l = layer /\ i = rule /\ j = piece)
<1>1. /\ Len(Rules) \in Nat /\ DOMAIN Rules = 1..Len(Rules)
      /\ \A i \in DOMAIN Rules : Len(Rules[i]) \in Nat \ {0} /\ DOMAIN Rules[i] = 1..Len(Rules[i])
  BY CurrentShape
<1>2. /\ rule \in 1..Len(Rules) /\ piece \in 1..Len(Rules[rule])
      /\ layer \in DOMAIN Layers(target) /\ stage = "map"
  BY <1>1 DEF InLoop, Reading
<1>3. /\ rule' = IF piece = Len(Rules[rule]) THEN rule + 1 ELSE rule
      /\ piece' = IF piece = Len(Rules[rule]) THEN 1 ELSE piece + 1
      /\ target' = target /\ layer' = layer /\ stage' = stage /\ null' = null
  BY DEF Advance
<1>4. Rules' = Rules /\ Layers(target)' = Layers(target)
  BY <1>3 DEF Rules, Layers
<1>5. InLoop'
  <2>1. rule' \in Nat \ {0} /\ piece' \in Nat \ {0} /\ rule' <= Len(Rules) + 1
    BY <1>1, <1>2, <1>3
  <2>2. rule' \in DOMAIN Rules => piece' \in DOMAIN Rules[rule']
    <3>1. CASE piece = Len(Rules[rule])
      BY <1>1, <1>3, <3>1
    <3>2. CASE piece # Len(Rules[rule])
      BY <1>1, <1>2, <1>3, <3>2
    <3> QED BY <3>1, <3>2
  <2>3. rule' > Len(Rules) => piece' = 1
    BY <1>1, <1>2, <1>3
  <2> QED BY <1>2, <1>3, <1>4, <2>1, <2>2, <2>3 DEF InLoop
<1>6. ASSUME NEW l \in DOMAIN Layers(target), NEW i \in DOMAIN Layers(target)[l],
             NEW j \in DOMAIN Layers(target)[l][i]
      PROVE  Done(l, i, j)' <=> Done(l, i, j) \/ (l = layer /\ i = rule /\ j = piece)
  <2>1. CASE l = layer
    <3>1. i \in DOMAIN Rules /\ j \in DOMAIN Rules[i]
      BY <2>1 DEF Rules
    <3>2. i \in Nat /\ j \in Nat \ {0} /\ (i = rule => j <= Len(Rules[rule]))
      BY <1>1, <3>1
    <3>3. layer \in Nat /\ ~(layer < layer)
      BY LayersShape DEF InLoop
    <3> QED BY <1>2, <1>3, <2>1, <3>2, <3>3 DEF Done
  <2>2. CASE l # layer
    BY <1>3, <2>2 DEF Done
  <2> QED BY <2>1, <2>2
<1> QED BY <1>5, <1>6

\* A piece is mapped as the lemmas above say.
LEMMA PieceMapped ==
  ASSUME MapIInv, Reading, Advance, NEW after \in Constraints, Set(after),
         Binding(target) => Tightens(mapped[layer], Current, after, KindOf(layer), Plain(target))
  PROVE  MapIInv'
<1> USE DEF MapIInv
<1>1. mapped' \in [DOMAIN Layers(target) -> Constraints]
  BY DEF Set, InLoop
<1>2. /\ target' = target /\ layer \in DOMAIN Layers(target) /\ rule \in DOMAIN Rules
      /\ piece \in DOMAIN Rules[rule]
      /\ mapped'[layer] = after /\ \A l : l # layer => mapped'[l] = mapped[l]
  BY DEF Advance, Reading, Set, InLoop
<1>3. /\ Layers(target)' = Layers(target) /\ Binding(target)' = Binding(target)
      /\ Plain(target)' = Plain(target) /\ \A l : KindOf(l)' = KindOf(l)
  BY <1>2 DEF KindOf
<1>4. InLoop'
  BY <1>1, AdvanceDone
<1>5. /\ \A v : \A l \in DOMAIN Layers(target) : l # layer => (DoneHold(l, v)' <=> DoneHold(l, v))
      /\ \A l : l = layer =>
           \A v : DoneHold(l, v)' <=> DoneHold(layer, v) /\ PieceHolds(Current, v)
  <2>1. \A l \in DOMAIN Layers(target) :
        \A i \in DOMAIN Layers(target)[l] : \A j \in DOMAIN Layers(target)[l][i] :
          Done(l, i, j)' <=> Done(l, i, j) \/ (l = layer /\ i = rule /\ j = piece)
    BY <1>1, AdvanceDone
  <2>2. ASSUME NEW v, NEW l \in DOMAIN Layers(target), l # layer
        PROVE  DoneHold(l, v)' <=> DoneHold(l, v)
    BY <1>2, <2>1, <2>2 DEF DoneHold
  <2>3. ASSUME NEW v, NEW l, l = layer
        PROVE  DoneHold(l, v)' <=> DoneHold(layer, v) /\ PieceHolds(Current, v)
    <3>1. Current = Layers(target)[layer][rule][piece]
      BY DEF Current, Rules
    <3>2. layer' = layer
      BY DEF Advance
    <3>3. rule \in DOMAIN Layers(target)[layer] /\ piece \in DOMAIN Layers(target)[layer][rule]
      BY <1>2 DEF Rules
    <3> QED BY <1>2, <2>1, <2>3, <3>1, <3>2, <3>3 DEF DoneHold
  <2> QED BY <2>2, <2>3
<1>6. SaysDone'
  <2> SUFFICES ASSUME Binding(target), NEW l \in DOMAIN Layers(target), NEW v \in Value,
                      Accepts(mapped'[l], KindOf(l), v)
               PROVE  DoneHold(l, v)'
    BY <1>2, <1>3 DEF SaysDone
  <2>1. CASE l = layer
    <3>1. Accepts(after, KindOf(layer), v)
      BY <1>2, <2>1
    <3>2. Tightens(mapped[layer], Current, after, KindOf(layer), Plain(target))
      OBVIOUS
    <3>3. Accepts(mapped[layer], KindOf(layer), v) /\ PieceHolds(Current, v)
      BY <3>1, <3>2 DEF Tightens
    <3>4. DoneHold(layer, v)
      BY <1>2, <3>3 DEF SaysDone
    <3> QED BY <1>5, <2>1, <3>3, <3>4
  <2>2. CASE l # layer
    BY <1>2, <1>5, <2>2 DEF SaysDone
  <2> QED BY <2>1, <2>2
<1>7. SaysOnlyDone'
  <2> SUFFICES ASSUME Binding(target), Plain(target), NEW l \in DOMAIN Layers(target),
                      NEW v \in Value, DoneHold(l, v)'
               PROVE  Accepts(mapped'[l], KindOf(l), v)
    BY <1>2, <1>3 DEF SaysOnlyDone
  <2>1. CASE l = layer
    <3>1. DoneHold(layer, v) /\ PieceHolds(Current, v)
      BY <1>5, <2>1
    <3>2. Tightens(mapped[layer], Current, after, KindOf(layer), Plain(target))
      OBVIOUS
    <3>3. Accepts(mapped[layer], KindOf(layer), v)
      BY <1>2, <3>1 DEF SaysOnlyDone
    <3>4. Accepts(after, KindOf(layer), v)
      BY <3>1, <3>2, <3>3 DEF Tightens
    <3> QED BY <1>2, <2>1, <3>4
  <2>2. CASE l # layer
    BY <1>2, <1>5, <2>2 DEF SaysOnlyDone
  <2> QED BY <2>1, <2>2
<1> QED BY <1>4, <1>6, <1>7

\* What Binding and Plain say of the piece at hand.
LEMMA CurrentWithin ==
  ASSUME InLoop, Reading
  PROVE  /\ Plain(target) \in BOOLEAN
         /\ Binding(target) =>
              <<KindOf(layer), Current[1].shape>> \notin {<<"int64", "number">>, <<"bytes", "size">>}
         /\ Plain(target) =>
              /\ Current[1].shape = "in" => Comparable(KindOf(layer))
              /\ Len(Current) = 1 \/ ~ReadsAsList(Current)
<1>1. /\ layer \in DOMAIN Layers(target) /\ rule \in DOMAIN Rules
      /\ piece \in DOMAIN Rules[rule]
      /\ 1 \in DOMAIN Current /\ Current \in Piece
  BY CurrentShape DEF Reading, InLoop
<1> DEFINE r == Layers(target)[layer][rule]
<1>2. rule \in DOMAIN Layers(target)[layer] /\ piece \in DOMAIN r /\ Current = r[piece]
  BY <1>1 DEF Rules, Current
<1>3. Current[1] \in AtomsOf(r)
  <2>1. Current[1] \in Members(r[piece])
    BY <1>1, <1>2 DEF Members
  <2> QED BY <1>2, <2>1 DEF AtomsOf
<1>4. Current[1] \in LayerAtoms(target, layer)
  BY <1>2, <1>3 DEF LayerAtoms
<1>5. Binding(target) =>
        <<KindOf(layer), Current[1].shape>> \notin {<<"int64", "number">>, <<"bytes", "size">>}
  BY <1>1, <1>4 DEF Binding, KindOf
<1>6. ASSUME Plain(target)
      PROVE  /\ Current[1].shape = "in" => Comparable(KindOf(layer))
             /\ Len(Current) = 1 \/ ~ReadsAsList(Current)
  <2>1. /\ \A k \in DOMAIN r : Len(r[k]) > 1 =>
             Len(r) = 1 /\ \E j \in DOMAIN r[k] : r[k][j].shape # "in"
        /\ \A a \in AtomsOf(r) : a.shape = "in" => Comparable(KindOf(layer))
    BY <1>1, <1>2, <1>6 DEF Plain, KindOf
  <2>2. Len(Current) \in {1, 2}
    BY <1>1, PieceShape
  <2> HIDE DEF r
  <2>3. Len(Current) > 1 => ~ReadsAsList(Current)
    BY <1>2, <2>1 DEF ReadsAsList
  <2> QED BY <1>3, <2>1, <2>2, <2>3
<1>7. Plain(target) \in BOOLEAN
  BY DEF Plain
<1> QED BY <1>5, <1>6, <1>7

\* Before the first piece is read the layers accept everything.
LEMMA InitMapped == Init => MapIInv
<1> SUFFICES ASSUME Init PROVE MapIInv
  OBVIOUS
<1>1. /\ target \in Targets /\ layer = 1 /\ rule = 1 /\ piece = 1 /\ stage = "map"
      /\ mapped = [l \in DOMAIN Layers(target) |-> Empty] /\ null = FALSE
  BY DEF Init
<1>2. /\ DOMAIN Layers(target) = 1..Len(Layers(target)) /\ 1 \in DOMAIN Layers(target)
      /\ Rules \in Seq(Rule)
  BY <1>1, LayersShape DEF Rules
<1>3. Len(Rules) \in Nat /\ DOMAIN Rules = 1..Len(Rules) /\ \A i \in DOMAIN Rules : Rules[i] \in Rule
  BY <1>2, LenProperties, ElementOfSeq
<1>4. rule \in DOMAIN Rules => piece \in DOMAIN Rules[rule]
  BY <1>1, <1>3, RuleShape
<1>5. Empty \in Constraints /\ \A kind, v : Accepts(Empty, kind, v)
  BY DEF Empty, Constraints, Accepts
<1>6. InLoop
  <2>1. mapped \in [DOMAIN Layers(target) -> Constraints]
    <3> HIDE DEF Empty
    <3> QED BY <1>1, <1>5
  <2>2. layer \in DOMAIN Layers(target) /\ rule \in Nat \ {0} /\ piece \in Nat \ {0}
    BY <1>1, <1>2
  <2>3. rule <= Len(Rules) + 1 /\ (rule > Len(Rules) => piece = 1)
    BY <1>1, <1>3
  <2> QED BY <1>1, <1>4, <2>1, <2>2, <2>3 DEF InLoop
<1>7. ASSUME NEW l \in DOMAIN Layers(target), NEW v PROVE DoneHold(l, v)
  <2>1. ASSUME NEW i \in DOMAIN Layers(target)[l], NEW j \in DOMAIN Layers(target)[l][i]
        PROVE  ~Done(l, i, j)
    <3>1. Layers(target)[l] \in Seq(Rule) /\ l \in Nat \ {0}
      BY <1>1, <1>2, LayersShape
    <3>2. DOMAIN Layers(target)[l] = 1..Len(Layers(target)[l]) /\ Layers(target)[l][i] \in Rule
      BY <3>1, LenProperties, ElementOfSeq
    <3>3. i \in Nat \ {0} /\ j \in Nat \ {0}
      BY <3>1, <3>2, LenProperties, RuleShape
    <3> QED BY <1>1, <3>1, <3>3 DEF Done
  <2> QED BY <2>1 DEF DoneHold
<1>8. SaysDone
  BY <1>7 DEF SaysDone
<1>9. SaysOnlyDone
  BY <1>1, <1>5 DEF SaysOnlyDone
<1> QED BY <1>6, <1>8, <1>9 DEF MapIInv

\* Nothing is mapped by a step that reads no piece.
LEMMA NothingMapped ==
  ASSUME MapIInv, InLoop', UNCHANGED <<target, mapped>>,
         \A l \in DOMAIN Layers(target) :
           \A i \in DOMAIN Layers(target)[l] : \A j \in DOMAIN Layers(target)[l][i] :
             Done(l, i, j)' <=> Done(l, i, j)
  PROVE  MapIInv'
<1>1. \A v : \A l \in DOMAIN Layers(target) : DoneHold(l, v)' <=> DoneHold(l, v)
  BY DEF DoneHold
<1>2. /\ Layers(target)' = Layers(target) /\ Binding(target)' = Binding(target)
      /\ Plain(target)' = Plain(target) /\ \A l : KindOf(l)' = KindOf(l)
  BY DEF KindOf
<1>3. SaysDone'
  BY <1>1, <1>2 DEF MapIInv, SaysDone
<1>4. SaysOnlyDone'
  BY <1>1, <1>2 DEF MapIInv, SaysOnlyDone
<1> QED BY <1>3, <1>4 DEF MapIInv

\* Every step maps the piece it reads, and no step any other.
LEMMA NextMapped == MapIInv /\ [Next]_vars => MapIInv'
<1> SUFFICES ASSUME MapIInv, [Next]_vars PROVE MapIInv'
  OBVIOUS
<1> DEFINE c == mapped[layer]
           p == Current
           kind == KindOf(layer)
<1>1. InLoop
  BY DEF MapIInv
<1>2. ASSUME Reading
      PROVE  /\ c \in Constraints /\ p \in Piece /\ Plain(target) \in BOOLEAN
             /\ Binding(target) =>
                  <<kind, p[1].shape>> \notin {<<"int64", "number">>, <<"bytes", "size">>}
             /\ Plain(target) =>
                  /\ p[1].shape = "in" => Comparable(kind)
                  /\ Len(p) = 1 \/ ~ReadsAsList(p)
  BY <1>1, <1>2, CurrentShape, CurrentWithin DEF Reading, InLoop
<1> HIDE DEF c, p, kind
<1>3. ASSUME Reading, Advance, NEW after, Set(after), after \in Constraints,
             Binding(target) => Tightens(c, p, after, kind, Plain(target))
      PROVE  MapIInv'
  BY <1>3, PieceMapped DEF c, p, kind
<1>4. CASE Pattern
  <2>1. Reading /\ p[1].shape = "matches" /\ Set(MapMatches(c, p)) /\ Advance
    BY <1>4 DEF Pattern, c, p
  <2>2. Tightens(c, p, MapMatches(c, p), kind, Plain(target))
    BY <1>2, <2>1, MatchesTightens
  <2> QED BY <1>3, <2>1, <2>2 DEF Tightens
<1>5. CASE Enum
  <2>1. Reading /\ p[1].shape = "in" /\ Set(MapEnum(c, p)) /\ Advance
    BY <1>5 DEF Enum, c, p
  <2>2. Tightens(c, p, MapEnum(c, p), kind, Plain(target))
    BY <1>2, <2>1, EnumTightens
  <2> QED BY <1>3, <2>1, <2>2 DEF Tightens
<1>6. CASE Size
  <2>1. /\ Reading /\ p[1].shape = "size" /\ Advance
        /\ Set(IF SizeMappable THEN MapSize(c, p) ELSE Keep(c, p))
    BY <1>6 DEF Size, c, p
  <2>2. CASE SizeMappable
    <3>1. Len(p) = 1
      BY <2>2 DEF SizeMappable, Single, p
    <3>2. Tightens(c, p, MapSize(c, p), "string", FALSE)
      BY <1>2, <2>1, <3>1, SizeTightens
    <3>3. Binding(target) => Tightens(c, p, MapSize(c, p), kind, Plain(target))
      BY <1>2, <2>1, <3>1, SizeTightens
    <3>4. MapSize(c, p) \in Constraints /\ Set(MapSize(c, p))
      BY <2>1, <2>2, <3>2 DEF Tightens
    <3> QED BY <1>3, <2>1, <3>3, <3>4
  <2>3. CASE ~SizeMappable
    <3>1. Tightens(c, p, Keep(c, p), kind, Plain(target)) /\ Set(Keep(c, p))
      BY <1>2, <2>1, <2>3, KeepTightens
    <3> QED BY <1>3, <2>1, <3>1 DEF Tightens
  <2> QED BY <2>2, <2>3
<1>7. CASE Bounds
  <2>1. /\ Reading /\ p[1].shape = "number" /\ Advance
        /\ Set(IF NumberMappable THEN MapNumeric(c, p) ELSE Keep(c, p))
    BY <1>7 DEF Bounds, c, p
  <2>2. CASE NumberMappable
    <3>1. Len(p) = 1
      BY <2>2 DEF NumberMappable, Single, p
    <3>2. kind \in {"int32", "int64", "double"}
      BY <2>2 DEF NumberMappable, Numeric, kind, KindOf, LayerKind
    <3>3. Tightens(c, p, MapNumeric(c, p), "int32", FALSE)
      BY <1>2, <2>1, <3>1, NumericTightens DEF IsJsonNumber
    <3>4. Binding(target) => Tightens(c, p, MapNumeric(c, p), kind, Plain(target))
      <4>1. Binding(target) => IsJsonNumber(kind)
        BY <1>2, <2>1, <3>2 DEF IsJsonNumber
      <4> QED BY <1>2, <2>1, <3>1, <4>1, NumericTightens
    <3>5. MapNumeric(c, p) \in Constraints /\ Set(MapNumeric(c, p))
      BY <2>1, <2>2, <3>3 DEF Tightens
    <3> QED BY <1>3, <2>1, <3>4, <3>5
  <2>3. CASE ~NumberMappable
    <3>1. Tightens(c, p, Keep(c, p), kind, Plain(target)) /\ Set(Keep(c, p))
      BY <1>2, <2>1, <2>3, KeepTightens
    <3> QED BY <1>3, <2>1, <3>1 DEF Tightens
  <2> QED BY <2>2, <2>3
<1>8. CASE Opaque
  <2>1. Reading /\ Set(Keep(c, p)) /\ Advance
    BY <1>8 DEF Opaque, c, p
  <2>2. Tightens(c, p, Keep(c, p), kind, Plain(target))
    BY <1>2, <2>1, KeepTightens
  <2> QED BY <1>3, <2>1, <2>2 DEF Tightens
<1>9. CASE NextLayer
  <2>1. /\ stage = "map" /\ rule > Len(Rules) /\ ~IsField(target, layer)
        /\ layer' = layer + 1 /\ rule' = 1 /\ piece' = 1
        /\ UNCHANGED <<target, mapped, stage, null>>
    BY <1>9 DEF NextLayer
  <2>2. layer \in DOMAIN Layers(target) /\ DOMAIN Layers(target) = 1..Len(Layers(target))
    BY <1>1, LayersShape DEF InLoop
  <2>3. layer + 1 \in DOMAIN Layers(target)
    BY <2>1, <2>2, LayersShape DEF InLoop, IsField
  <2> DEFINE next == Layers(target)[layer + 1]
  <2>4. /\ Len(next) \in Nat /\ DOMAIN next = 1..Len(next)
        /\ \A i \in DOMAIN next : next[i] \in Rule
    <3>1. next \in Seq(Rule)
      BY <1>1, <2>3, LayersShape DEF InLoop
    <3> HIDE DEF next
    <3> QED BY <3>1, LenProperties, ElementOfSeq
  <2>5. Rules' = next
    BY <2>1 DEF Rules
  <2> HIDE DEF next
  <2>6. /\ rule' <= Len(Rules') + 1 /\ rule' > Len(Rules') => piece' = 1
        /\ rule' \in DOMAIN Rules' => piece' \in DOMAIN Rules'[rule']
    BY <2>1, <2>4, <2>5, RuleShape
  <2>7. InLoop'
    BY <1>1, <2>1, <2>3, <2>6 DEF InLoop
  <2>8. ASSUME NEW l \in DOMAIN Layers(target), NEW i \in DOMAIN Layers(target)[l],
               NEW j \in DOMAIN Layers(target)[l][i]
        PROVE  Done(l, i, j)' <=> Done(l, i, j)
    <3>1. Layers(target)[l] \in Seq(Rule) /\ l \in Nat /\ layer \in Nat
      BY <1>1, <2>2, LayersShape DEF InLoop
    <3>2. i \in Nat \ {0} /\ Layers(target)[l][i] \in Rule
      BY <3>1, LenProperties, ElementOfSeq
    <3>3. j \in Nat \ {0}
      BY <3>2, RuleShape
    <3>4. l = layer => i <= Len(Rules) /\ Len(Rules) \in Nat
      BY <3>1, LenProperties DEF Rules
    <3> QED BY <1>1, <2>1, <3>1, <3>2, <3>3, <3>4 DEF Done, InLoop
  <2> QED BY <2>1, <2>7, <2>8, NothingMapped
<1>10. CASE Property
  <2>1. /\ stage = "map" /\ IsField(target, layer) /\ rule > Len(Rules)
        /\ null' = Nullable(target) /\ stage' = "done"
        /\ UNCHANGED <<target, layer, rule, piece, mapped>>
    BY <1>10 DEF Property
  <2>2. Nullable(target) \in BOOLEAN
    BY <1>1, RuleAssumption DEF InLoop, Nullable, Target
  <2>3. Rules' = Rules /\ IsField(target, layer)' = IsField(target, layer)
    BY <2>1 DEF Rules
  <2>4. InLoop'
    BY <1>1, <2>1, <2>2, <2>3 DEF InLoop
  <2>5. \A l, i, j : Done(l, i, j)' <=> Done(l, i, j)
    BY <2>1 DEF Done
  <2> QED BY <2>1, <2>4, <2>5, NothingMapped
<1>11. CASE UNCHANGED vars
  <2>1. UNCHANGED <<target, layer, rule, piece, mapped, stage, null>>
    BY <1>11 DEF vars
  <2>2. Rules' = Rules
    BY <2>1 DEF Rules
  <2>3. InLoop' /\ \A l, i, j : Done(l, i, j)' <=> Done(l, i, j)
    BY <1>1, <2>1, <2>2 DEF InLoop, Done
  <2> QED BY <2>1, <2>3, NothingMapped
<1> QED BY <1>4, <1>5, <1>6, <1>7, <1>8, <1>9, <1>10, <1>11 DEF Next

LEMMA MapInvariant == Spec => []MapIInv
<1>1. Init => MapIInv
  BY InitMapped
<1>2. MapIInv /\ [Next]_vars => MapIInv'
  BY NextMapped
<1> QED BY <1>1, <1>2, PTL DEF Spec

-----------------------------------------------------------------------------
(* What the properties say, from the invariant. *)

\* At the end the loop is past every piece.
LEMMA AllDone ==
  ASSUME InLoop, stage = "done",
         NEW l \in DOMAIN Layers(target), NEW i \in DOMAIN Layers(target)[l],
         NEW j \in DOMAIN Layers(target)[l][i]
  PROVE  Done(l, i, j)
<1>1. /\ Len(Layers(target)) \in Nat /\ DOMAIN Layers(target) = 1..Len(Layers(target))
      /\ layer = Len(Layers(target)) /\ rule > Len(Rules) /\ rule \in Nat
      /\ Layers(target)[l] \in Seq(Rule)
  BY LayersShape DEF InLoop, IsField
<1>2. Len(Layers(target)[l]) \in Nat /\ i \in 1..Len(Layers(target)[l])
  BY <1>1, LenProperties
<1> QED BY <1>1, <1>2 DEF Done, Rules

\* A rule of a layer is a rule.
LEMMA LayerRule ==
  ASSUME NEW t \in Targets, NEW l \in DOMAIN Layers(t), NEW i \in DOMAIN Layers(t)[l]
  PROVE  Layers(t)[l][i] \in Rule
<1>1. Layers(t)[l] \in Seq(Rule)
  BY LayersShape
<1> QED BY <1>1, LenProperties, ElementOfSeq

\* What a layer bears on, the value or its elements, is a value.
LEMMA BorneValue ==
  ASSUME NEW t, NEW v \in Values, NEW w \in Borne(t, v)
  PROVE  v \in Value /\ w \in Value
<1>1. v \in Value
  BY RuleAssumption
<1>2. v.items \subseteq Value
  BY <1>1, RuleAssumption DEF Value
<1> QED BY <1>1, <1>2 DEF Borne

LEMMA InvDisappears == MapIInv => NothingDisappears
<1> SUFFICES ASSUME MapIInv, stage = "done", Binding(target), NEW v \in Values, SchemaAccepts(v)
             PROVE  RulesHold(target, v)
  BY DEF NothingDisappears
<1>1. InLoop /\ target \in Targets /\ DOMAIN mapped = DOMAIN Layers(target) /\ v \in Value
  BY RuleAssumption DEF MapIInv, InLoop
<1>2. ASSUME NEW l \in DOMAIN Layers(target), NEW w \in Value,
             Accepts(mapped[l], LayerKind(target, l), w),
             NEW i \in DOMAIN Layers(target)[l]
      PROVE  RuleHolds(Layers(target)[l][i], w)
  <2>1. DoneHold(l, w)
    BY <1>2 DEF MapIInv, SaysDone, KindOf
  <2>2. \A j \in DOMAIN Layers(target)[l][i] : PieceHolds(Layers(target)[l][i][j], w)
    BY <1>1, <2>1, AllDone DEF DoneHold
  <2> QED BY <1>1, <2>2, LayerRule, PiecesMakeRule
<1> DEFINE n == Len(Layers(target))
<1>3. n \in DOMAIN Layers(target) /\ IsField(target, n) /\ Layers(target)[n] = target.own
  BY <1>1, LayersShape DEF IsField
<1>4. \A i \in DOMAIN target.own : RuleHolds(target.own[i], v)
  <2>1. Accepts(mapped[n], LayerKind(target, n), v)
    BY <1>1, <1>3 DEF SchemaAccepts
  <2> QED BY <1>1, <1>2, <1>3, <2>1
<1>5. ASSUME NEW l \in DOMAIN target.aliases, NEW i \in DOMAIN target.aliases[l],
             NEW w \in Borne(target, v)
      PROVE  RuleHolds(target.aliases[l][i], w)
  <2>1. target.container # "map"
    BY <1>5 DEF Binding
  <2>2. /\ l \in DOMAIN Layers(target) /\ ~IsField(target, l)
        /\ Layers(target)[l] = target.aliases[l]
    BY <1>1, <2>1, LayersShape DEF IsField
  <2>3. Accepts(mapped[l], LayerKind(target, l), w)
    BY <1>1, <2>2 DEF SchemaAccepts
  <2> QED BY <1>2, <2>2, <2>3, BorneValue
<1> QED BY <1>4, <1>5 DEF RulesHold

LEMMA InvNarrower == MapIInv => NeverNarrower
<1> SUFFICES ASSUME MapIInv, stage = "done", Binding(target), Plain(target),
                    NEW v \in Values, RulesHold(target, v)
             PROVE  SchemaAccepts(v)
  BY DEF NeverNarrower
<1>1. InLoop /\ target \in Targets /\ DOMAIN mapped = DOMAIN Layers(target) /\ v \in Value
  BY RuleAssumption DEF MapIInv, InLoop
<1>2. ASSUME NEW l \in DOMAIN Layers(target), NEW w \in Value,
             \A i \in DOMAIN Layers(target)[l] : RuleHolds(Layers(target)[l][i], w)
      PROVE  Accepts(mapped[l], LayerKind(target, l), w)
  <2>1. ASSUME NEW i \in DOMAIN Layers(target)[l]
        PROVE  \A j \in DOMAIN Layers(target)[l][i] : PieceHolds(Layers(target)[l][i][j], w)
    <3> DEFINE r == Layers(target)[l][i]
    <3>1. r \in Rule /\ RuleHolds(r, w)
      BY <1>1, <1>2, LayerRule
    <3>2. \A k \in DOMAIN r : Len(r[k]) > 1 => Len(r) = 1
      BY DEF Plain
    <3> HIDE DEF r
    <3> QED BY <3>1, <3>2, RuleMakesPieces DEF r
  <2>2. DoneHold(l, w)
    BY <2>1 DEF DoneHold
  <2> QED BY <1>2, <2>2 DEF MapIInv, SaysOnlyDone, KindOf
<1>3. ASSUME NEW l \in DOMAIN mapped, NEW w \in IF IsField(target, l) THEN {v} ELSE Borne(target, v)
      PROVE  Accepts(mapped[l], LayerKind(target, l), w)
  <2>1. l \in DOMAIN Layers(target)
    BY <1>1
  <2>2. CASE IsField(target, l)
    <3>1. w = v /\ Layers(target)[l] = target.own
      BY <1>1, <2>2, LayersShape DEF IsField
    <3> QED BY <1>1, <1>2, <2>1, <3>1 DEF RulesHold
  <2>3. CASE ~IsField(target, l)
    <3>1. /\ w \in Borne(target, v) /\ l \in DOMAIN target.aliases
          /\ Layers(target)[l] = target.aliases[l]
      BY <1>1, <2>1, <2>3, LayersShape DEF IsField
    <3>2. \A i \in DOMAIN Layers(target)[l] : RuleHolds(Layers(target)[l][i], w)
      BY <3>1 DEF RulesHold
    <3> QED BY <1>2, <2>1, <3>1, <3>2, BorneValue
  <2> QED BY <2>2, <2>3
<1> QED BY <1>3 DEF SchemaAccepts

LEMMA InvNull == MapIInv => NullExactly
<1> SUFFICES ASSUME MapIInv, stage = "done", target.container = "one",
                    target.boxed => ~target.required,
                    target.aliases = <<>> => mapped[1].enum = {}
             PROVE  AcceptsNull <=> target.presence /\ ~target.required
  BY DEF NullExactly
<1>1. null = (target.presence /\ ~target.required)
  BY DEF MapIInv, InLoop, Nullable
<1>2. target.boxed => target.presence
  BY RuleAssumption DEF MapIInv, InLoop
<1>3. target.boxed \in BOOLEAN /\ target.presence \in BOOLEAN /\ target.required \in BOOLEAN
  BY RuleAssumption DEF MapIInv, InLoop, Target
<1> QED BY <1>1, <1>2, <1>3 DEF AcceptsNull

-----------------------------------------------------------------------------
\* The loop never leaves the layers, rules and pieces of the field, and what
\* it makes of each layer are constraints.
THEOREM MapTypeSafe == Spec => []TypeOK
<1>1. MapIInv => TypeOK
  BY RuleAssumption DEF MapIInv, InLoop, TypeOK
<1> QED BY <1>1, MapInvariant, PTL

\* Of a field with no bound on a 64-bit integer, no size of bytes and no alias on
\* a map (Binding), whose atoms are typed: a value that the keywords and the
\* x-validation entries accept is one that its rules accept, however many there
\* are, whatever they are cut into and whichever keywords are taken.  Of the
\* others the code does drop constraints.
THEOREM NoConstraintDisappears == Spec => []NothingDisappears
<1> QED BY MapInvariant, InvDisappears, PTL

\* No keyword refuses a value the rules accept, where || does not stand beside
\* && and no list of numbers is given for a type that JSON writes as a string.
THEOREM NoKeywordNarrower == Spec => []NeverNarrower
<1> QED BY MapInvariant, InvNarrower, PTL

\* A field that is no list or map takes null in JSON exactly where PXF takes it,
\* unless it has no alias and its schema got an enum, or it is a wrapper and
\* required: there the code departs from PXF.
THEOREM NullWhereTaken == Spec => []NullExactly
<1> QED BY MapInvariant, InvNull, PTL
=============================================================================
