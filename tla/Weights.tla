------------------------------ MODULE Weights ------------------------------
(***************************************************************************)
(* The weights of weights/*.rs as operators over a KIND of weight, so that *)
(* an algorithm written over `Plus(kind, a, b)` is written once for every  *)
(* semiring, as the code's generics are.                                   *)
(*                                                                         *)
(* A kind is [of, parts]: a scalar, a string, a set, or what is built from *)
(* the kinds in parts.  Numbers are integers with IEEE's Inf, NegInf and   *)
(* NaN beside them.  Log and signed log weights are represented by the     *)
(* masses e^-x they stand for, so that their sums are exact.               *)
(***************************************************************************)
EXTENDS Integers, Sequences, FiniteSets

CONSTANTS Inf, NegInf, NaN

ASSUME NumbersAssumption ==
  /\ Inf \notin Int /\ NegInf \notin Int /\ NaN \notin Int
  /\ Inf # NegInf /\ Inf # NaN /\ NegInf # NaN

Scalar(of) == [of |-> of, parts |-> <<>>]
Floats  == {"tropical", "minmax", "real", "log"}
Strings == {"left_string", "right_string", "restricted_string"}
Sets    == {"union_intersect", "intersect_union", "restricted_set", "boolean_set"}
Gallics == {"left_gallic", "right_gallic", "restricted_gallic", "min_gallic"}

-----------------------------------------------------------------------------
(* Numbers.                                                                *)

Infinite(a) == a \in {Inf, NegInf}
Below(a, b) == \* a < b; false when either is no number
  /\ a # NaN /\ b # NaN /\ a # b
  /\ (a = NegInf \/ b = Inf \/ (~Infinite(a) /\ ~Infinite(b) /\ a < b))
Negated(a) == IF a = Inf THEN NegInf ELSE IF a = NegInf THEN Inf ELSE IF a = NaN THEN NaN ELSE 0 - a
Added(a, b) ==
  IF a = NaN \/ b = NaN \/ (Infinite(a) /\ b = Negated(a)) THEN NaN
  ELSE IF Infinite(a) THEN a ELSE IF Infinite(b) THEN b ELSE a + b
Multiplied(a, b) ==
  IF a = NaN \/ b = NaN \/ (Infinite(a) /\ b = 0) \/ (Infinite(b) /\ a = 0) THEN NaN
  ELSE IF Infinite(a) \/ Infinite(b) THEN IF Below(a, 0) = Below(b, 0) THEN Inf ELSE NegInf
  ELSE a * b
\* Only quotients that are whole are asked for.
Divided(a, b) ==
  IF a = NaN \/ b = NaN \/ (a = 0 /\ b = 0) \/ (Infinite(a) /\ Infinite(b)) THEN NaN
  ELSE IF b = 0 \/ Infinite(a) THEN IF Below(a, 0) = Below(b, 0) THEN Inf ELSE NegInf
  ELSE IF Infinite(b) THEN 0
  ELSE (IF Below(a, 0) = Below(b, 0) THEN 1 ELSE -1) *
       ((IF a < 0 THEN 0 - a ELSE a) \div (IF b < 0 THEN 0 - b ELSE b))

-----------------------------------------------------------------------------
(* The tropical, minmax, real and log semirings.                           *)

FloatZero(of) == IF of \in {"real", "log"} THEN 0 ELSE Inf
FloatOne(of)  == CASE of = "tropical" -> 0 [] of = "minmax" -> NegInf [] OTHER -> 1

\* A log weight of mass Inf is minus infinity.
FloatMember(of, a) ==
  CASE of = "minmax" -> a # NaN
    [] of = "log"    -> a # NaN /\ a # Inf
    [] OTHER         -> a # NaN /\ a # NegInf

\* Two log weights of minus infinity have no sum.
FloatPlus(of, a, b) ==
  CASE of \in {"tropical", "minmax"} ->
         IF ~FloatMember(of, a) \/ ~FloatMember(of, b) THEN NaN ELSE IF Below(a, b) THEN a ELSE b
    [] of = "log" /\ a = Inf /\ b = Inf -> NaN
    [] OTHER -> Added(a, b)

FloatTimes(of, a, b) ==
  CASE of = "tropical" -> Added(a, b)
    [] of = "minmax"   -> IF a = NaN \/ b = NaN THEN NaN ELSE IF Below(a, b) THEN b ELSE a
    [] OTHER           -> Multiplied(a, b)

FloatDivide(of, a, b) ==
  CASE of = "minmax" -> IF a # NaN /\ b # NaN /\ ~Below(a, b) THEN a ELSE NaN
    [] ~FloatMember(of, b) -> NaN
    [] of = "tropical" -> Added(a, Negated(b))
    [] OTHER           -> Divided(a, b)

\* What is subtracted from a log weight may not be the larger mass.
FloatMinus(of, a, b) ==
  CASE of = "tropical" -> NaN
    [] of = "log"      -> IF a = NaN \/ b = NaN \/ Below(a, b) THEN NaN ELSE IF b = 0 THEN a ELSE Added(a, Negated(b))
    [] OTHER           -> Added(a, Negated(b))

-----------------------------------------------------------------------------
(* Signed log weights: a sign and a mass; zero is either sign of mass 0.   *)

Signed(positive, mass) == [positive |-> positive, mass |-> mass]
SignedSame(a, b) == IF a.positive = b.positive THEN a.mass = b.mass ELSE a.mass = 0 /\ b.mass = 0
SignedMember(a) == a.mass # NaN /\ a.mass # Inf

SignedPlus(a, b) ==
  IF ~SignedMember(a) \/ ~SignedMember(b) THEN Signed(TRUE, NaN)
  ELSE IF a.mass = 0 THEN b ELSE IF b.mass = 0 THEN a
  ELSE IF a.positive = b.positive THEN Signed(a.positive, a.mass + b.mass)
  ELSE IF a.mass = b.mass THEN Signed(TRUE, 0)
  ELSE IF a.mass < b.mass THEN Signed(b.positive, b.mass - a.mass) ELSE Signed(a.positive, a.mass - b.mass)

SignedTimes(a, b) ==
  IF ~SignedMember(a) \/ ~SignedMember(b) THEN Signed(TRUE, NaN)
  ELSE Signed(a.positive = b.positive, a.mass * b.mass)

SignedDivide(a, b) ==
  IF ~SignedMember(a) \/ ~SignedMember(b) \/ b.mass = 0 THEN Signed(TRUE, NaN)
  ELSE IF a.mass = 0 THEN Signed(TRUE, 0) ELSE Signed(a.positive = b.positive, a.mass \div b.mass)

SignedMinus(a, b) == SignedPlus(a, Signed(~b.positive, b.mass))

-----------------------------------------------------------------------------
(* Strings of labels.                                                      *)

StringOf(labels) == [is |-> "labels", labels |-> labels]
ZeroString == [is |-> "zero", labels |-> <<>>]
BadString  == [is |-> "bad", labels |-> <<>>]

Agree(v, w, n) == \A i \in 1 .. n : v[i] = w[i]
Reversed(v) == [i \in DOMAIN v |-> v[Len(v) + 1 - i]]
Shortest(v, w) == IF Len(v) < Len(w) THEN Len(v) ELSE Len(w)
CommonPrefix(v, w) == SubSeq(v, 1, CHOOSE n \in 0 .. Shortest(v, w) :
                                     Agree(v, w, n) /\ (n < Shortest(v, w) => v[n + 1] # w[n + 1]))

StringPlus(of, a, b) ==
  IF "bad" \in {a.is, b.is} THEN BadString
  ELSE IF a.is = "zero" THEN b ELSE IF b.is = "zero" THEN a
  ELSE CASE of = "left_string"  -> StringOf(CommonPrefix(a.labels, b.labels))
         [] of = "right_string" -> StringOf(Reversed(CommonPrefix(Reversed(a.labels), Reversed(b.labels))))
         [] OTHER               -> IF a = b THEN a ELSE BadString

StringTimes(a, b) ==
  IF "bad" \in {a.is, b.is} THEN BadString
  ELSE IF "zero" \in {a.is, b.is} THEN ZeroString ELSE StringOf(a.labels \o b.labels)

\* Mutant: as many labels are dropped, whichever they are.
StringDivideAny(of, a, b, side) ==
  LET n == Len(b.labels)  m == Len(a.labels)
  IN IF "bad" \in {a.is, b.is} \/ b.is = "zero" THEN BadString
     ELSE IF a.is = "zero" THEN ZeroString
     ELSE IF side = "left" THEN IF of # "right_string" /\ n <= m THEN StringOf(SubSeq(a.labels, 1, m - n)) ELSE BadString
     ELSE IF side = "right" /\ of # "left_string" /\ n <= m THEN StringOf(SubSeq(a.labels, 1, m - n)) ELSE BadString

\* Only from the side the string is kept on, and only what is there.
StringDivide(of, a, b, side) ==
  LET n == Len(b.labels)  m == Len(a.labels)
  IN IF "bad" \in {a.is, b.is} \/ b.is = "zero" THEN BadString
     ELSE IF a.is = "zero" THEN ZeroString
     ELSE IF side = "left" /\ of # "right_string" /\ n <= m /\ SubSeq(a.labels, 1, n) = b.labels
          THEN StringOf(SubSeq(a.labels, n + 1, m))
     ELSE IF side = "right" /\ of # "left_string" /\ n <= m /\ SubSeq(a.labels, m - n + 1, m) = b.labels
          THEN StringOf(SubSeq(a.labels, 1, m - n))
     ELSE BadString

-----------------------------------------------------------------------------
(* Sets of labels, three labels standing for the special sets.             *)

EmptySet == {0}
UnivSet  == {-1}
BadSet   == {-2}
AsSet(labels) == IF labels = {} THEN EmptySet ELSE labels

UnionSets(a, b) ==
  IF BadSet \in {a, b} THEN BadSet
  ELSE IF a = EmptySet THEN b ELSE IF b = EmptySet THEN a
  ELSE IF UnivSet \in {a, b} THEN UnivSet ELSE a \cup b
IntersectSets(a, b) ==
  IF BadSet \in {a, b} THEN BadSet
  ELSE IF EmptySet \in {a, b} THEN EmptySet
  ELSE IF a = UnivSet THEN b ELSE IF b = UnivSet THEN a ELSE AsSet(a \cap b)
DifferenceSets(a, b) ==
  IF BadSet \in {a, b} THEN BadSet
  ELSE IF EmptySet \in {a, b} THEN a
  ELSE IF b = UnivSet THEN EmptySet ELSE AsSet(a \ b)

SetZero(of) == IF of = "union_intersect" THEN EmptySet ELSE UnivSet
SetOne(of)  == IF of = "union_intersect" THEN UnivSet ELSE EmptySet
\* Of a boolean only whether it is zero counts.
SetSame(of, a, b) ==
  IF of = "boolean_set" THEN (a = UnivSet) = (b = UnivSet) /\ (a = BadSet) = (b = BadSet) ELSE a = b

SetPlus(of, a, b) ==
  CASE of = "union_intersect" -> UnionSets(a, b)
    [] of = "intersect_union" -> IntersectSets(a, b)
    [] BadSet \in {a, b}      -> BadSet
    [] of = "restricted_set"  -> IF a = UnivSet THEN b ELSE IF b = UnivSet \/ a = b THEN a ELSE BadSet
    [] OTHER -> IF SetSame(of, a, SetOne(of)) THEN a ELSE IF SetSame(of, b, SetOne(of)) THEN b ELSE SetZero(of)

SetTimes(of, a, b) ==
  CASE of = "union_intersect" -> IntersectSets(a, b)
    [] of = "boolean_set"     -> IF BadSet \in {a, b} THEN BadSet ELSE IF SetSame(of, a, SetOne(of)) THEN b ELSE a
    [] OTHER                  -> UnionSets(a, b)

SetDivide(of, a, b) ==
  CASE of = "union_intersect" -> IF BadSet \in {a, b} THEN BadSet ELSE IF a = b THEN UnivSet ELSE a
    [] of = "boolean_set" ->
         IF BadSet \in {a, b} THEN BadSet
         ELSE IF SetSame(of, a, SetOne(of)) \/ SetSame(of, b, SetZero(of)) THEN SetOne(of) ELSE SetZero(of)
    [] OTHER -> DifferenceSets(a, b)

-----------------------------------------------------------------------------
(* The weights that are not built from others, by their name.              *)

BaseZero(of) ==
  CASE of \in Strings -> ZeroString [] of \in Sets -> SetZero(of)
    [] of = "signed_log" -> Signed(TRUE, 0) [] OTHER -> FloatZero(of)
BaseOne(of) ==
  CASE of \in Strings -> StringOf(<<>>) [] of \in Sets -> SetOne(of)
    [] of = "signed_log" -> Signed(TRUE, 1) [] OTHER -> FloatOne(of)
BaseNoWeight(of) ==
  CASE of \in Strings -> BadString [] of \in Sets -> BadSet
    [] of = "signed_log" -> Signed(TRUE, NaN) [] OTHER -> NaN
BaseMember(of, a) ==
  CASE of \in Strings -> a.is # "bad" [] of \in Sets -> a # BadSet
    [] of = "signed_log" -> SignedMember(a) [] OTHER -> FloatMember(of, a)
BaseSame(of, a, b) ==
  CASE of \in Sets -> SetSame(of, a, b) [] of = "signed_log" -> SignedSame(a, b) [] OTHER -> a = b
BasePlus(of, a, b) ==
  CASE of \in Strings -> StringPlus(of, a, b) [] of \in Sets -> SetPlus(of, a, b)
    [] of = "signed_log" -> SignedPlus(a, b) [] OTHER -> FloatPlus(of, a, b)
BaseTimes(of, a, b) ==
  CASE of \in Strings -> StringTimes(a, b) [] of \in Sets -> SetTimes(of, a, b)
    [] of = "signed_log" -> SignedTimes(a, b) [] OTHER -> FloatTimes(of, a, b)
BaseDivide(of, a, b, side) ==
  CASE of \in Strings -> StringDivide(of, a, b, side) [] of \in Sets -> SetDivide(of, a, b)
    [] of = "signed_log" -> SignedDivide(a, b) [] OTHER -> FloatDivide(of, a, b)
BaseMinus(of, a, b) == IF of = "signed_log" THEN SignedMinus(a, b) ELSE FloatMinus(of, a, b)
BaseReverse(of, a) == IF of \in Strings THEN [a EXCEPT !.labels = Reversed(a.labels)] ELSE a

BaseProperties(of) ==
  CASE of = "left_string"  -> {"left", "idempotent"}
    [] of = "right_string" -> {"right", "idempotent"}
    [] of = "restricted_string" -> {"left", "right", "idempotent"}
    [] of \in Sets -> {"left", "right", "idempotent", "commutative"}
    [] of \in {"tropical", "minmax"} -> {"left", "right", "idempotent", "commutative", "path"}
    [] OTHER -> {"left", "right", "commutative"}

-----------------------------------------------------------------------------
(* Weights built from others: tuples of components, and sparse ones whose  *)
(* components but a few are a default, never held twice.                    *)

Sparse(default, rest) == [default |-> default, rest |-> [key \in {x \in DOMAIN rest : rest[x] # default} |-> rest[key]]]
At(a, key) == IF key \in DOMAIN a.rest THEN a.rest[key] ELSE a.default
SetValue(a, key, w) == Sparse(a.default, [x \in DOMAIN a.rest \cup {key} |-> IF x = key THEN w ELSE a.rest[x]])
SetDefault(a, w) == Sparse(w, a.rest)
Keys(a, b) == DOMAIN a.rest \cup DOMAIN b.rest

IsSparse(k) == k.of = "sparse_power"
Width(k) == Len(k.parts)

TupleZero(k) == IF IsSparse(k) THEN Sparse(BaseZero(k.parts[1]), <<>>) ELSE [i \in 1 .. Width(k) |-> BaseZero(k.parts[i])]
TupleOne(k) ==
  CASE IsSparse(k) -> Sparse(BaseOne(k.parts[1]), <<>>)
    [] k.of = "expectation" -> <<BaseOne(k.parts[1]), BaseZero(k.parts[2])>>
    [] OTHER -> [i \in 1 .. Width(k) |-> BaseOne(k.parts[i])]
TupleNoWeight(k) ==
  IF IsSparse(k) THEN Sparse(BaseNoWeight(k.parts[1]), <<>>) ELSE [i \in 1 .. Width(k) |-> BaseNoWeight(k.parts[i])]

\* A lexicographic weight with one zero in it would not be multiplied back.
TupleMember(k, a) ==
  IF IsSparse(k)
  THEN BaseMember(k.parts[1], a.default) /\ \A key \in DOMAIN a.rest : BaseMember(k.parts[1], a.rest[key])
  ELSE /\ \A i \in 1 .. Width(k) : BaseMember(k.parts[i], a[i])
       /\ k.of = "lexicographic" => (a[1] = BaseZero(k.parts[1])) = (a[2] = BaseZero(k.parts[2]))

TupleSame(k, a, b) ==
  IF IsSparse(k) THEN DOMAIN a.rest = DOMAIN b.rest /\ BaseSame(k.parts[1], a.default, b.default)
                      /\ \A key \in DOMAIN a.rest : BaseSame(k.parts[1], a.rest[key], b.rest[key])
  ELSE \A i \in 1 .. Width(k) : BaseSame(k.parts[i], a[i], b[i])

\* Whose first component is better, or else whose second: none of the sums is taken.
Best(a, b, first, second) ==
  IF a[1] # b[1] /\ first \in {a[1], b[1]} THEN IF first = a[1] THEN a ELSE b
  ELSE IF a[2] # b[2] /\ second = b[2] THEN b ELSE a
Lexicographic(k, a, b) ==
  IF ~TupleMember(k, a) \/ ~TupleMember(k, b) THEN TupleNoWeight(k)
  ELSE Best(a, b, BasePlus(k.parts[1], a[1], b[1]), BasePlus(k.parts[2], a[2], b[2]))

\* Component by component.
ByComponent(k, a, b, Op(_, _, _)) ==
  IF IsSparse(k)
  THEN Sparse(Op(k.parts[1], a.default, b.default), [x \in Keys(a, b) |-> Op(k.parts[1], At(a, x), At(b, x))])
  ELSE [i \in 1 .. Width(k) |-> Op(k.parts[i], a[i], b[i])]

TuplePlus(k, a, b) ==
  CASE k.of = "lexicographic" -> Lexicographic(k, a, b)
    [] k.of = "min_gallic" -> IF BasePlus(k.parts[2], a[2], b[2]) = a[2] /\ a[2] # b[2] THEN a ELSE b
    [] OTHER -> ByComponent(k, a, b, BasePlus)

TupleTimes(k, a, b) ==
  CASE k.of = "expectation" ->
         <<BaseTimes(k.parts[1], a[1], b[1]),
           BasePlus(k.parts[1], BaseTimes(k.parts[1], a[1], b[2]), BaseTimes(k.parts[1], a[2], b[1]))>>
    [] OTHER -> ByComponent(k, a, b, BaseTimes)

ExpectationDivide(w, a, b, q, side) ==
  <<q, BaseDivide(w, BaseMinus(w, a[2], IF side = "left" THEN BaseTimes(w, b[2], q) ELSE BaseTimes(w, q, b[2])), b[1], side)>>
TupleDivide(k, a, b, side) ==
  IF k.of = "expectation" THEN ExpectationDivide(k.parts[1], a, b, BaseDivide(k.parts[1], a[1], b[1], side), side)
  ELSE ByComponent(k, a, b, LAMBDA w, x, y : BaseDivide(w, x, y, side))

TupleReverse(k, a) ==
  IF IsSparse(k) THEN Sparse(BaseReverse(k.parts[1], a.default), [x \in DOMAIN a.rest |-> BaseReverse(k.parts[1], a.rest[x])])
  ELSE [i \in 1 .. Width(k) |-> BaseReverse(k.parts[i], a[i])]

TupleProperties(k) ==
  {p \in {"left", "right", "commutative", "idempotent"} \cup (IF k.of = "lexicographic" THEN {"path"} ELSE {}) :
     \A i \in 1 .. Width(k) : p \in BaseProperties(k.parts[i])}

\* The i-th component alone, and a component at the place of another.
FromComponent(k, i, w, default) ==
  IF IsSparse(k) THEN SetValue(Sparse(default, <<>>), i, w) ELSE [j \in 1 .. Width(k) |-> IF j = i THEN w ELSE default]
Component(k, a, i) == IF IsSparse(k) THEN At(a, i) ELSE a[i]
ProjectWeight(k, a, from, to) == FromComponent(k, to, Component(k, a, from), BaseZero(k.parts[1]))

\* The sum over the components of two weights' products; of sparse ones only over
\* those whose product differs from that of the defaults.
RECURSIVE SumOfParts(_, _, _)
SumOfParts(k, a, keys) ==
  IF keys = {} THEN BaseZero(k.parts[1])
  ELSE LET i == CHOOSE x \in keys : \A y \in keys : y <= x
       IN BasePlus(k.parts[1], SumOfParts(k, a, keys \ {i}), Component(k, a, i))
DotProduct(k, a, b) ==
  LET product == TupleTimes(k, a, b)
  IN SumOfParts(k, product, IF IsSparse(k) THEN DOMAIN product.rest ELSE 1 .. Width(k))

-----------------------------------------------------------------------------
(* General gallic weights: unions of restricted ones, one for each string, *)
(* in the order of the strings.                                            *)

Union(elements) == [bad |-> FALSE, elements |-> elements]
BadUnion == [bad |-> TRUE, elements |-> <<>>]
Member1(k, w) == TupleMember([k EXCEPT !.of = "restricted_gallic"], w)

\* Zero's string counts as the empty one.
GallicBefore(w, v) ==
  LET a == w[1].labels  b == v[1].labels
  IN \/ Len(a) < Len(b)
     \/ Len(a) = Len(b) /\ \E i \in DOMAIN a : Agree(a, b, i - 1) /\ a[i] < b[i]
Merged(k, w, v) == <<w[1], BasePlus(k.parts[2], w[2], v[2])>>

\* An element goes where its string belongs, or into the one that has its string.
PushBack(k, u, w) ==
  IF u.bad \/ ~Member1(k, w) THEN BadUnion
  ELSE LET before == Cardinality({i \in DOMAIN u.elements : GallicBefore(u.elements[i], w)})
           same   == {i \in DOMAIN u.elements : ~GallicBefore(u.elements[i], w) /\ ~GallicBefore(w, u.elements[i])}
       IN IF same # {} THEN LET i == CHOOSE x \in same : TRUE IN Union([u.elements EXCEPT ![i] = Merged(k, @, w)])
          ELSE Union(SubSeq(u.elements, 1, before) \o <<w>> \o SubSeq(u.elements, before + 1, Len(u.elements)))

RECURSIVE PushAll(_, _, _)
PushAll(k, u, ws) == IF ws = <<>> THEN u ELSE PushAll(k, PushBack(k, u, Head(ws)), Tail(ws))

UnionPlus(k, u, v) ==
  IF u.bad \/ v.bad THEN BadUnion
  ELSE IF u.elements = <<>> THEN v ELSE IF v.elements = <<>> THEN u
  ELSE PushAll(k, Union(<<>>), u.elements \o v.elements)

\* Each element of the first by those of the second, one after the other.
RECURSIVE UnionTimes(_, _, _)
UnionTimes(k, u, v) ==
  IF u.bad \/ v.bad THEN BadUnion
  ELSE IF <<>> \in {u.elements, v.elements} THEN Union(<<>>)
  ELSE LET n == Len(u.elements)
       IN UnionPlus(k, UnionTimes(k, Union(SubSeq(u.elements, 1, n - 1)), v),
                    PushAll(k, Union(<<>>), [j \in DOMAIN v.elements |-> TupleTimes(k, u.elements[n], v.elements[j])]))

UnionDivide(k, u, v, side) ==
  LET n == Len(u.elements)  m == Len(v.elements)
      pairs == IF n = 1 THEN [i \in 1 .. m |-> <<u.elements[1], v.elements[m + 1 - i]>>]
                        ELSE [i \in 1 .. n |-> <<u.elements[i], v.elements[1]>>]
  IN IF u.bad \/ v.bad THEN BadUnion
     ELSE IF n = 0 \/ m = 0 THEN Union(<<>>)
     ELSE IF n # 1 /\ m # 1 THEN BadUnion
     ELSE PushAll(k, Union(<<>>), [i \in DOMAIN pairs |-> TupleDivide(k, pairs[i][1], pairs[i][2], side)])

-----------------------------------------------------------------------------
(* Every kind of weight.                                                   *)

IsBase(k)  == k.parts = <<>>
IsUnion(k) == k.of = "gallic"

Zero(k)     == IF IsBase(k) THEN BaseZero(k.of) ELSE IF IsUnion(k) THEN Union(<<>>) ELSE TupleZero(k)
One(k)      == IF IsBase(k) THEN BaseOne(k.of) ELSE IF IsUnion(k) THEN Union(<<TupleOne(k)>>) ELSE TupleOne(k)
NoWeight(k) == IF IsBase(k) THEN BaseNoWeight(k.of) ELSE IF IsUnion(k) THEN BadUnion ELSE TupleNoWeight(k)
IsMember(k, a) ==
  IF IsBase(k) THEN BaseMember(k.of, a)
  ELSE IF IsUnion(k) THEN ~a.bad /\ \A i \in DOMAIN a.elements : Member1(k, a.elements[i]) ELSE TupleMember(k, a)
Same(k, a, b) == IF IsBase(k) THEN BaseSame(k.of, a, b) ELSE IF IsUnion(k) THEN a = b ELSE TupleSame(k, a, b)
Plus(k, a, b) == IF IsBase(k) THEN BasePlus(k.of, a, b) ELSE IF IsUnion(k) THEN UnionPlus(k, a, b) ELSE TuplePlus(k, a, b)
Times(k, a, b) ==
  IF IsBase(k) THEN BaseTimes(k.of, a, b) ELSE IF IsUnion(k) THEN UnionTimes(k, a, b) ELSE TupleTimes(k, a, b)
Divide(k, a, b, side) ==
  IF IsBase(k) THEN BaseDivide(k.of, a, b, side)
  ELSE IF IsUnion(k) THEN UnionDivide(k, a, b, side) ELSE TupleDivide(k, a, b, side)
Reverse(k, a) ==
  IF IsBase(k) THEN BaseReverse(k.of, a)
  ELSE IF IsUnion(k) THEN PushAll(k, Union(<<>>), [i \in DOMAIN a.elements |-> TupleReverse(k, a.elements[i])])
  ELSE TupleReverse(k, a)
Properties(k) ==
  IF IsBase(k) THEN BaseProperties(k.of)
  ELSE IF IsUnion(k) THEN TupleProperties(k) \ {"path"} ELSE TupleProperties(k)

\* The kind a weight's reverse has.
ReverseName(of) ==
  CASE of = "left_string" -> "right_string" [] of = "right_string" -> "left_string"
    [] of = "left_gallic" -> "right_gallic" [] of = "right_gallic" -> "left_gallic" [] OTHER -> of
ReverseKind(k) == [of |-> ReverseName(k.of), parts |-> [i \in DOMAIN k.parts |-> ReverseName(k.parts[i])]]

NaturalLess(k, a, b) == ~Same(k, a, b) /\ Same(k, Plus(k, a, b), a)
RECURSIVE Power(_, _, _)
Power(k, a, n) == IF n = 0 THEN One(k) ELSE Times(k, Power(k, a, n - 1), a)

-----------------------------------------------------------------------------
(* Adders: a running sum, started from a weight.                           *)

\* A signed sum changes its sign when more is taken away than it has.
SignedAdd(sum, w) ==
  IF ~SignedMember(sum) \/ w.mass = 0 THEN sum
  ELSE IF ~SignedMember(w) \/ sum.mass = 0 THEN w
  ELSE IF sum.positive = w.positive THEN [sum EXCEPT !.mass = @ + w.mass]
  ELSE IF sum.mass = w.mass THEN Signed(TRUE, 0)
  ELSE IF w.mass < sum.mass THEN [sum EXCEPT !.mass = @ - w.mass] ELSE Signed(w.positive, w.mass - sum.mass)

\* Of members: one that is none would stay in what the adder carries over.
FloatAdd(of, sum, w) ==
  IF NaN \in {sum, w} THEN NaN
  ELSE IF of = "log" THEN IF w = 0 THEN sum ELSE IF sum = 0 THEN w ELSE Added(sum, w)
  ELSE IF w = Inf THEN Inf ELSE IF sum = Inf THEN Inf ELSE Added(sum, w)

Add(k, sum, w) ==
  CASE k.of = "signed_log" -> SignedAdd(sum, w)
    [] k.of \in {"real", "log"} -> FloatAdd(k.of, sum, w)
    [] OTHER -> Plus(k, sum, w)

-----------------------------------------------------------------------------
(* The laws that the code asks of a weight, for those that its kind says   *)
(* it keeps.                                                               *)

\* What is no weight is like any other that is none.
ApproxEqual(k, a, b) == Same(k, a, b) \/ (~IsMember(k, a) /\ ~IsMember(k, b))

\* A sum that is no weight is not distributed over.
Axioms(k, a, b, c) ==
  LET Says(law) == law \in Properties(k)
      Eq(x, y)  == ApproxEqual(k, x, y)
      sum == Plus(k, b, c)
  IN /\ Eq(Plus(k, a, Zero(k)), a) /\ Eq(Plus(k, Zero(k), a), a)
     /\ Eq(Times(k, a, One(k)), a) /\ Eq(Times(k, One(k), a), a)
     /\ Eq(Times(k, a, Zero(k)), Zero(k)) /\ Eq(Times(k, Zero(k), a), Zero(k))
     /\ Says("idempotent") => Eq(Plus(k, a, a), a)
     /\ Eq(Plus(k, a, b), Plus(k, b, a))
     /\ Says("commutative") => Eq(Times(k, a, b), Times(k, b, a))
     /\ Says("path") => Eq(Plus(k, a, b), a) \/ Eq(Plus(k, a, b), b)
     /\ Eq(Plus(k, Plus(k, a, b), c), Plus(k, a, sum))
     /\ Eq(Times(k, Times(k, a, b), c), Times(k, a, Times(k, b, c)))
     /\ Says("left") /\ IsMember(k, sum) => Eq(Times(k, a, sum), Plus(k, Times(k, a, b), Times(k, a, c)))
     /\ Says("right") /\ IsMember(k, sum) => Eq(Times(k, sum, a), Plus(k, Times(k, b, a), Times(k, c, a)))

\* A quotient, where there is one, multiplied again is what was divided.
DivisionAxioms(k, a, b) ==
  LET p     == Times(k, a, b)
      left  == Divide(k, p, a, "left")
      right == Divide(k, p, b, "right")
  IN IsMember(k, p) =>
       /\ "left" \in Properties(k) /\ IsMember(k, left) => ApproxEqual(k, Times(k, a, left), p)
       /\ "right" \in Properties(k) /\ IsMember(k, right) => ApproxEqual(k, Times(k, right, b), p)
=============================================================================
