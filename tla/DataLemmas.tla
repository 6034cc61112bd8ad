----------------------------- MODULE DataLemmas -----------------------------
(***************************************************************************)
(* Facts about the operators of Varint, NestedData and WireFormat for      *)
(* every radix and every heap, about sums over finite sets, and about a    *)
(* stack of objects to visit, on which the proofs of the other modules     *)
(* rest.  Induction over data is done with sets (of numbers, NatSet; of    *)
(* objects, HeapInduction), not with an operator parameter.                *)
(***************************************************************************)
EXTENDS WireFormat, FiniteSetTheorems, SequenceTheorems,
        WellFoundedInduction, TLAPS

(* What the assumptions on the radix and its powers give.                  *)
LEMMA RadixTyped ==
  /\ Radix \in Nat /\ Radix > 9
  /\ MaxGroups \in Nat /\ MaxGroups > 0
  /\ \A k \in 0 .. MaxGroups - 1 : Weight[k] \in Nat /\ Weight[k] > 0
  /\ Weight[0] = 1
BY VarintAssumption

(* An int64_t has no more groups than MaxGroups.                           *)
LEMMA NumGroupsType ==
  ASSUME NEW v \in Int
  PROVE  NumGroups(v) \in 0 .. MaxGroups
<1> DEFINE I == 0 .. MaxGroups - 1
           S == {k \in I : Weight[k] <= v}
<1>1. IsFiniteSet(I) /\ Cardinality(I) = MaxGroups
  <2>1. IsFiniteSet(I) /\ Cardinality(I) = IF 0 > MaxGroups - 1 THEN 0 ELSE (MaxGroups - 1) - 0 + 1
    BY RadixTyped, FS_Interval, MaxGroups - 1 \in Int, 0 \in Int
  <2> QED
    BY <2>1, RadixTyped
<1>2. S \subseteq I
  OBVIOUS
<1> HIDE DEF I, S
<1>3. IsFiniteSet(S) /\ Cardinality(S) <= MaxGroups
  BY <1>1, <1>2, FS_Subset
<1>4. Cardinality(S) \in Nat
  BY <1>3, FS_CardinalityType
<1> QED
  BY <1>3, <1>4, RadixTyped DEF NumGroups, I, S

(* The encoding of a number that is not negative is a sequence of bytes.   *)
LEMMA VarientEncodingType ==
  ASSUME NEW v \in Nat
  PROVE  VarientEncoding(v) \in Seq(Byte)
<1> DEFINE n == NumGroups(v)
           f == [i \in 1 .. n |-> ((v \div Weight[n-i]) % Radix)
                                    + (IF i < n THEN Radix ELSE 0)]
<1>1. n \in 0 .. MaxGroups
  BY NumGroupsType
<1>2. ASSUME NEW i \in 1 .. n
      PROVE  ((v \div Weight[n-i]) % Radix) + (IF i < n THEN Radix ELSE 0) \in Byte
  <2>1. n - i \in 0 .. MaxGroups - 1
    BY <1>1, RadixTyped
  <2>2. v \div Weight[n-i] \in Int
    BY <2>1, RadixTyped
  <2>3. (v \div Weight[n-i]) % Radix \in 0 .. Radix - 1
    BY <2>2, RadixTyped
  <2> QED
    BY <2>3, RadixTyped DEF Byte
<1>3. f \in [1 .. n -> Byte]
  BY <1>2
<1>4. n \in Nat
  BY <1>1, RadixTyped
<1> HIDE DEF n, f
<1>5. f \in Seq(Byte)
  BY <1>3, <1>4, IsASeq
<1> QED
  BY <1>5 DEF f, n, VarientEncoding

(* A larger power is a multiple.                                           *)
LEMMA LargerWeights ==
  ASSUME NEW k \in 1 .. MaxGroups - 1
  PROVE  Weight[k] >= Radix
<1>1. k - 1 \in 0 .. MaxGroups - 1
  BY RadixTyped
<1>2. Weight[k] = Radix * Weight[k-1]
  BY VarintAssumption
<1>3. Weight[k-1] \in Nat /\ Weight[k-1] > 0
  BY <1>1, RadixTyped
<1> QED
  BY <1>2, <1>3, RadixTyped

(* An object is of one of five kinds; three of them have a code.           *)
LEMMA Kinds ==
  ASSUME NEW d, d.type \in DataTypes
  PROVE  /\ \/ d.type \in NumberTypes \/ d.type = "STRING" \/ d.type \in CompositeTypes
            \/ d.type = "OTHER" \/ d.type = "WILD"
         /\ d.type \in NumberTypes => d.type \notin CompositeTypes
         /\ d.type \in {"STRING", "OTHER", "WILD"} =>
              d.type \notin NumberTypes \cup CompositeTypes
         /\ d.type \in PrimitiveTypes <=>
              d.type \in NumberTypes \/ d.type \in {"STRING", "OTHER"}
         /\ HasTypeCode(d) <=> d.type \notin {"OTHER", "WILD"}
         /\ HasTypeCode(d) => TypeCode[d.type] \in 0 .. 9
         /\ HasTypeCode(d) /\ d.type # "I8" => TypeCode[d.type] \in 1 .. 9
BY DEF DataTypes, PrimitiveTypes, NumberTypes, CompositeTypes, HasTypeCode, TypeCode

(* A STRUCT, MAP or ARRAY is one of them.                                  *)
LEMMA CompositeHasCode ==
  ASSUME NEW d, d.type \in CompositeTypes
  PROVE  HasTypeCode(d) /\ d.type # "I8" /\ d.type \notin PrimitiveTypes
BY DEF CompositeTypes, PrimitiveTypes, NumberTypes, HasTypeCode, TypeCode

(* A type code but that of I8 takes exactly one byte, the decoder's        *)
(* TYPEMETA and the 1 that metadata_size starts with (encoding.cc:74).     *)
LEMMA TypeCodeOneByte ==
  ASSUME NEW d \in Data, HasTypeCode(d), d.type # "I8"
  PROVE  Len(TypeEncoding(d)) = 1
<1> DEFINE v == TypeCode[d.type]
           S == {k \in 0 .. MaxGroups - 1 : Weight[k] <= v}
<1>1. v \in 1 .. 9
  <2>1. d.type \in DataTypes
    BY DEF Data
  <2> QED
    BY <2>1, Kinds
<1>2. 0 \in S
  BY <1>1, RadixTyped
<1>3. ASSUME NEW k \in S PROVE k = 0
  <2>1. Weight[k] < Radix
    BY <1>1, RadixTyped
  <2>2. k \notin 1 .. MaxGroups - 1
    BY <2>1, LargerWeights, RadixTyped
  <2> QED
    BY <2>2, RadixTyped
<1>4. S = {0}
  BY <1>2, <1>3
<1>5. NumGroups(v) = 1
  BY <1>4, FS_Singleton DEF NumGroups
<1>6. Len(VarientEncoding(v)) = 1
  BY <1>5 DEF VarientEncoding
<1> QED
  BY <1>6 DEF TypeEncoding

(* A type is written as bytes.                                             *)
LEMMA TypeEncodingType ==
  ASSUME NEW d \in Data, HasTypeCode(d)
  PROVE  TypeEncoding(d) \in Seq(Byte)
<1>1. TypeCode[d.type] \in Nat
  <2>1. d.type \in DataTypes
    BY DEF Data
  <2> QED
    BY <2>1, Kinds
<1> QED
  BY <1>1, VarientEncodingType DEF TypeEncoding

(* Taking the top object and putting its elements in its place keeps one   *)
(* of the set on the stack: another one, or an element of the one taken.   *)
LEMMA StackStaysAlive ==
  ASSUME NEW S, NEW stack \in Seq(S), stack # <<>>, NEW kids \in Seq(S),
         NEW C, NEW k \in 1 .. Len(stack), stack[k] \in C,
         Head(stack) \in C => \E j \in DOMAIN kids : kids[j] \in C
  PROVE  \E n \in 1 .. Len(kids \o Tail(stack)) : (kids \o Tail(stack))[n] \in C
<1>1. CASE k = 1
  <2>1. PICK j \in DOMAIN kids : kids[j] \in C
    BY <1>1
  <2>2. j \in 1 .. Len(kids \o Tail(stack)) /\ (kids \o Tail(stack))[j] = kids[j]
    BY <2>1
  <2> QED
    BY <2>1, <2>2
<1>2. CASE k # 1
  <2> DEFINE n == Len(kids) + (k - 1)
  <2>1. Tail(stack) \in Seq(S) /\ Len(Tail(stack)) = Len(stack) - 1
        /\ Tail(stack)[k-1] = stack[k]
    BY <1>2
  <2>2. n \in 1 .. Len(kids \o Tail(stack)) /\ (kids \o Tail(stack))[n] = stack[k]
    BY <1>2, <2>1
  <2> QED
    BY <2>2
<1> QED
  BY <1>1, <1>2

-----------------------------------------------------------------------------
(* Induction in the form of a set of numbers.                              *)
LEMMA NatSet ==
  ASSUME NEW T \in SUBSET Nat, 0 \in T, \A n \in T : n + 1 \in T
  PROVE  \A n \in Nat : n \in T
<1> DEFINE F == Nat \ T
           R == OpToRel(<, Nat)
<1>1. SUFFICES ASSUME F # {} PROVE FALSE
  OBVIOUS
<1>2. F \subseteq Nat
  OBVIOUS
<1>3. PICK n \in F : \A m \in F : ~ (<<m, n>> \in R)
  <2> HIDE DEF F
  <2> QED
    BY <1>1, <1>2, NatLessThanWellFounded, WFMin
<1>8. \A a, b \in Nat : a < b => <<a, b>> \in R
  BY DEF OpToRel
<1> HIDE DEF R
<1>4. n \in Nat /\ n # 0 /\ n - 1 \in Nat
  BY <1>3
<1>5. n - 1 \in F
  <2>1. n - 1 \in T => (n - 1) + 1 \in T
    BY <1>4
  <2> QED
    BY <1>3, <1>4, <2>1
<1>6. n - 1 < n
  BY <1>4
<1>7. <<n - 1, n>> \in R
  BY <1>4, <1>6, <1>8
<1> QED
  BY <1>3, <1>5, <1>7

-----------------------------------------------------------------------------
(* A sum takes the elements of its set in the order CHOOSE gives them.     *)
Some(s) == CHOOSE x \in s : TRUE
SumStep(g, f, s) == IF s = {} THEN 0 ELSE f[Some(s)] + g[s \ {Some(s)}]
Partial(g, f, S) == g = [s \in SUBSET S |-> SumStep(g, f, s)]

(* The sum over a finite set by the partial sums of its elements.          *)
LEMMA SumIsPartial ==
  ASSUME NEW f, NEW S
  PROVE  SumFunctionOnSet(f, S) = (CHOOSE g : Partial(g, f, S))[S]
BY DEF SumFunctionOnSet, FoldFunctionOnSet, MapThenFoldSet, Partial, SumStep, Some

(* A set without one of its elements.                                      *)
LEMMA SmallerByOne ==
  ASSUME NEW s, IsFiniteSet(s), NEW x \in s
  PROVE  /\ IsFiniteSet(s \ {x}) /\ Cardinality(s) \in Nat
         /\ Cardinality(s) > 0 /\ Cardinality(s \ {x}) = Cardinality(s) - 1
<1>1. IsFiniteSet(s \ {x}) /\ Cardinality(s \ {x}) = Cardinality(s) - 1
  BY FS_RemoveElement
<1>2. Cardinality(s) \in Nat /\ Cardinality(s \ {x}) \in Nat
  BY <1>1, FS_CardinalityType
<1> QED
  BY <1>1, <1>2

(* There are such partial sums.                                            *)
LEMMA PartialExists ==
  ASSUME NEW f, NEW S, IsFiniteSet(S)
  PROVE  \E g : Partial(g, f, S)
<1> DEFINE Small(n) == {s \in SUBSET S : Cardinality(s) <= n}
           T == {n \in Nat : \E g : g = [s \in Small(n) |-> SumStep(g, f, s)]}
<1>1. \A s \in SUBSET S : /\ IsFiniteSet(s) /\ Cardinality(s) \in Nat
                          /\ Cardinality(s) <= Cardinality(S)
  BY FS_Subset, FS_CardinalityType
<1>2. ASSUME NEW s \in SUBSET S, s # {}
      PROVE  /\ s \ {Some(s)} \in SUBSET S /\ Some(s) \in s
             /\ Cardinality(s \ {Some(s)}) = Cardinality(s) - 1
  <2>1. Some(s) \in s
    BY <1>2 DEF Some
  <2> QED
    BY <1>1, <2>1, SmallerByOne
<1>3. 0 \in T
  <2> DEFINE g == [s \in Small(0) |-> 0]
  <2>1. ASSUME NEW s \in Small(0) PROVE s = {}
    BY <1>1, FS_EmptySet
  <2>2. \A s \in Small(0) : SumStep(g, f, s) = 0
    <3> HIDE DEF g
    <3> QED
      BY <2>1 DEF SumStep
  <2>3. g = [s \in Small(0) |-> SumStep(g, f, s)]
    BY <2>2, Zenon
  <2> QED
    BY <2>3
<1>4. ASSUME NEW n \in T PROVE n + 1 \in T
  <2>1. PICK g : g = [s \in Small(n) |-> SumStep(g, f, s)]
    OBVIOUS
  <2> DEFINE h == [s \in Small(n + 1) |-> SumStep(g, f, s)]
  <2>2. ASSUME NEW s \in Small(n + 1)
        PROVE  SumStep(h, f, s) = SumStep(g, f, s)
    <3>1. CASE s = {}
      BY <3>1 DEF SumStep
    <3>2. CASE s # {}
      <4> DEFINE r == s \ {Some(s)}
      <4>1. r \in Small(n) /\ r \in Small(n + 1)
        <5>1. r \in SUBSET S /\ Cardinality(r) = Cardinality(s) - 1 /\ Cardinality(s) <= n + 1
          BY <1>2, <3>2
        <5>2. Cardinality(r) \in Nat /\ Cardinality(s) \in Nat /\ n \in Nat
          BY <1>1, <5>1
        <5> QED
          BY <5>1, <5>2
      <4>2. h[r] = SumStep(g, f, r)
        BY <4>1
      <4>3. g[r] = SumStep(g, f, r)
        <5> HIDE DEF r, Small
        <5> QED
          BY <2>1, <4>1, Zenon
      <4> QED
        BY <3>2, <4>2, <4>3 DEF SumStep
    <3> QED
      BY <3>1, <3>2
  <2>3. h = [s \in Small(n + 1) |-> SumStep(h, f, s)]
    BY <2>2, Zenon
  <2>4. n + 1 \in Nat
    OBVIOUS
  <2> HIDE DEF h, Small
  <2> QED
    BY <2>3, <2>4
<1>5. Cardinality(S) \in T
  <2>1. \A n \in Nat : n \in T
    <3> HIDE DEF T
    <3>1. T \in SUBSET Nat
      BY DEF T
    <3> QED
      BY <1>3, <1>4, <3>1, NatSet
  <2> QED
    BY <2>1, FS_CardinalityType
<1>6. Small(Cardinality(S)) = SUBSET S
  BY <1>1
<1> QED
  BY <1>5, <1>6 DEF Partial

(* Two such functions agree on a set both of them know.                    *)
LEMMA PartialAgree ==
  ASSUME NEW f1, NEW f2, NEW S1, NEW S2, NEW g1, NEW g2,
         Partial(g1, f1, S1), Partial(g2, f2, S2),
         NEW A, IsFiniteSet(A), A \subseteq S1, A \subseteq S2,
         \A x \in A : f1[x] = f2[x]
  PROVE  g1[A] = g2[A]
<1> DEFINE T == {n \in Nat : \A s \in SUBSET A : Cardinality(s) = n => g1[s] = g2[s]}
<1>0. \A s \in SUBSET A : IsFiniteSet(s) /\ Cardinality(s) \in Nat
  BY FS_Subset, FS_CardinalityType
<1>1. \A s \in SUBSET A : g1[s] = SumStep(g1, f1, s) /\ g2[s] = SumStep(g2, f2, s)
  BY Zenon DEF Partial
<1>2. 0 \in T
  BY <1>0, <1>1, FS_EmptySet DEF SumStep
<1>3. ASSUME NEW n \in T PROVE n + 1 \in T
  <2>1. ASSUME NEW s \in SUBSET A, Cardinality(s) = n + 1
        PROVE  g1[s] = g2[s]
    <3>1. s # {}
      BY <1>0, <2>1, FS_EmptySet
    <3>2. Some(s) \in s
      BY <3>1 DEF Some
    <3> DEFINE r == s \ {Some(s)}
    <3>3. r \in SUBSET A /\ Cardinality(r) = n
      BY <1>0, <2>1, <3>2, SmallerByOne
    <3>4. g1[r] = g2[r]
      BY <3>3
    <3>5. f1[Some(s)] = f2[Some(s)]
      BY <3>2
    <3> QED
      BY <1>1, <3>1, <3>4, <3>5 DEF SumStep
  <2> QED
    BY <2>1
<1>4. Cardinality(A) \in T
  <2>1. \A n \in Nat : n \in T
    <3> HIDE DEF T
    <3>1. T \in SUBSET Nat
      BY DEF T
    <3> QED
      BY <1>2, <1>3, <3>1, NatSet
  <2> QED
    BY <2>1, FS_CardinalityType
<1> QED
  BY <1>4

(* Sums of integers are integers.                                          *)
LEMMA PartialTyped ==
  ASSUME NEW f, NEW S, IsFiniteSet(S), \A x \in S : f[x] \in Int,
         NEW g, Partial(g, f, S)
  PROVE  \A s \in SUBSET S : g[s] \in Int
<1> DEFINE T == {n \in Nat : \A s \in SUBSET S : Cardinality(s) = n => g[s] \in Int}
<1>0. \A s \in SUBSET S : IsFiniteSet(s) /\ Cardinality(s) \in Nat
  BY FS_Subset, FS_CardinalityType
<1>1. \A s \in SUBSET S : g[s] = SumStep(g, f, s)
  BY Zenon DEF Partial
<1>2. 0 \in T
  <2>1. ASSUME NEW s \in SUBSET S, Cardinality(s) = 0 PROVE g[s] \in Int
    <3>1. s = {}
      BY <1>0, <2>1, FS_EmptySet
    <3>2. g[s] = 0
      BY <1>1, <3>1, Zenon DEF SumStep
    <3> QED
      BY <3>2
  <2> QED
    BY <2>1
<1>3. ASSUME NEW n \in T PROVE n + 1 \in T
  <2>1. ASSUME NEW s \in SUBSET S, Cardinality(s) = n + 1 PROVE g[s] \in Int
    <3> DEFINE c == Some(s)
    <3>1. s # {}
      BY <1>0, <2>1, FS_EmptySet
    <3>2. c \in s
      BY <3>1 DEF Some
    <3> HIDE DEF c
    <3>3. s \ {c} \in SUBSET S /\ Cardinality(s \ {c}) = n
      BY <1>0, <2>1, <3>2, SmallerByOne
    <3>4. g[s \ {c}] \in Int /\ f[c] \in Int
      BY <3>2, <3>3
    <3>5. g[s] = f[c] + g[s \ {c}]
      BY <1>1, <3>1 DEF SumStep, c
    <3> QED
      BY <3>4, <3>5
  <2> QED
    BY <2>1
<1>4. \A n \in Nat : n \in T
  <2> HIDE DEF T
  <2>1. T \in SUBSET Nat
    BY DEF T
  <2> QED
    BY <1>2, <1>3, <2>1, NatSet
<1> QED
  BY <1>0, <1>4

(* Any element may be taken out first.                                     *)
LEMMA PartialAny ==
  ASSUME NEW f, NEW S, IsFiniteSet(S), \A x \in S : f[x] \in Int,
         NEW g, Partial(g, f, S), NEW s0 \in SUBSET S, NEW x0 \in s0
  PROVE  g[s0] = f[x0] + g[s0 \ {x0}]
<1> DEFINE Good(s) == \A x \in s : g[s] = f[x] + g[s \ {x}]
           T == {n \in Nat : \A s \in SUBSET S : Cardinality(s) = n => Good(s)}
<1>0. \A s \in SUBSET S : IsFiniteSet(s) /\ Cardinality(s) \in Nat
  BY FS_Subset, FS_CardinalityType
<1>1. \A s \in SUBSET S : g[s] = SumStep(g, f, s) /\ g[s] \in Int
  <2>1. \A s \in SUBSET S : g[s] = SumStep(g, f, s)
    BY Zenon DEF Partial
  <2> QED
    BY <2>1, PartialTyped
<1>2. 0 \in T
  BY <1>0, FS_EmptySet
<1>3. ASSUME NEW n \in T PROVE n + 1 \in T
  <2>1. ASSUME NEW s \in SUBSET S, Cardinality(s) = n + 1, NEW x \in s
        PROVE  g[s] = f[x] + g[s \ {x}]
    <3> DEFINE c == Some(s)
    <3>1. c \in s
      BY DEF Some
    <3>2. g[s] = f[c] + g[s \ {c}]
      BY <1>1 DEF SumStep
    <3>3. \A y \in s : s \ {y} \in SUBSET S /\ Cardinality(s \ {y}) = n
      BY <1>0, <2>1, SmallerByOne
    <3>4. \A y \in s : Good(s \ {y})
      BY <3>3
    <3> HIDE DEF c
    <3>5. CASE x # c
      <4> DEFINE r == s \ {x, c}
      <4>1. /\ x \in s \ {c} /\ (s \ {c}) \ {x} = r
            /\ c \in s \ {x} /\ (s \ {x}) \ {c} = r
        BY <3>1, <3>5
      <4>2. g[s \ {c}] = f[x] + g[r] /\ g[s \ {x}] = f[c] + g[r]
        BY <3>1, <3>4, <4>1, SMTT(30)
      <4>3. f[x] \in Int /\ f[c] \in Int /\ g[r] \in Int
        BY <1>1, <3>1
      <4> HIDE DEF r
      <4> QED
        BY <3>2, <4>2, <4>3
    <3> QED
      BY <3>2, <3>5
  <2> QED
    BY <2>1
<1>4. \A n \in Nat : n \in T
  <2> HIDE DEF T
  <2>1. T \in SUBSET Nat
    BY DEF T
  <2> QED
    BY <1>2, <1>3, <2>1, NatSet
<1> QED
  BY <1>0, <1>4

-----------------------------------------------------------------------------
(* What is used of sums over finite sets.                                  *)
LEMMA SumSolved ==
  ASSUME NEW f, NEW S, IsFiniteSet(S)
  PROVE  \E g : Partial(g, f, S) /\ SumFunctionOnSet(f, S) = g[S]
<1> DEFINE g == CHOOSE g : Partial(g, f, S)
<1>1. Partial(g, f, S)
  BY PartialExists, Zenon
<1>2. SumFunctionOnSet(f, S) = g[S]
  BY SumIsPartial
<1> QED
  BY <1>1, <1>2

(* The empty sum,                                                          *)
LEMMA SumEmpty ==
  ASSUME NEW f
  PROVE  SumFunctionOnSet(f, {}) = 0
<1>1. PICK g : Partial(g, f, {}) /\ SumFunctionOnSet(f, {}) = g[{}]
  BY SumSolved, FS_EmptySet
<1>2. g[{}] = SumStep(g, f, {})
  BY <1>1, Zenon DEF Partial
<1> QED
  BY <1>1, <1>2 DEF SumStep

(* the type of a sum,                                                      *)
LEMMA SumType ==
  ASSUME NEW f, NEW S, IsFiniteSet(S), \A x \in S : f[x] \in Int
  PROVE  SumFunctionOnSet(f, S) \in Int
<1>1. PICK g : Partial(g, f, S) /\ SumFunctionOnSet(f, S) = g[S]
  BY SumSolved
<1>2. \A s \in SUBSET S : g[s] \in Int
  BY <1>1, PartialTyped
<1> QED
  BY <1>1, <1>2

(* sums of terms that agree,                                               *)
LEMMA SumAgree ==
  ASSUME NEW f1, NEW f2, NEW S, IsFiniteSet(S), \A x \in S : f1[x] = f2[x]
  PROVE  SumFunctionOnSet(f1, S) = SumFunctionOnSet(f2, S)
<1>1. PICK g1 : Partial(g1, f1, S) /\ SumFunctionOnSet(f1, S) = g1[S]
  BY SumSolved
<1>2. PICK g2 : Partial(g2, f2, S) /\ SumFunctionOnSet(f2, S) = g2[S]
  BY SumSolved
<1>3. g1[S] = g2[S]
  BY <1>1, <1>2, PartialAgree
<1> QED
  BY <1>1, <1>2, <1>3

(* and one more term.                                                      *)
LEMMA SumAdd ==
  ASSUME NEW f, NEW S, IsFiniteSet(S), NEW x, x \notin S,
         \A y \in S \cup {x} : f[y] \in Int
  PROVE  SumFunctionOnSet(f, S \cup {x}) = f[x] + SumFunctionOnSet(f, S)
<1> DEFINE U == S \cup {x}
<1>0. IsFiniteSet(U) /\ S \subseteq U /\ x \in U /\ U \ {x} = S
  BY FS_AddElement
<1> HIDE DEF U
<1>1. PICK g : Partial(g, f, U) /\ SumFunctionOnSet(f, U) = g[U]
  BY <1>0, SumSolved
<1>2. PICK g1 : Partial(g1, f, S) /\ SumFunctionOnSet(f, S) = g1[S]
  BY SumSolved
<1>3. \A y \in U : f[y] \in Int
  BY DEF U
<1>4. U \in SUBSET U /\ Partial(g, f, U)
  BY <1>1
<1>5. g[U] = f[x] + g[U \ {x}]
  BY <1>0, <1>3, <1>4, PartialAny
<1>6. g[S] = g1[S]
  BY <1>0, <1>1, <1>2, PartialAgree
<1> QED
  BY <1>0, <1>1, <1>2, <1>5, <1>6 DEF U

-----------------------------------------------------------------------------
(* A quotient is the only number of whole divisors that fit.               *)
LEMMA DivUnique ==
  ASSUME NEW x \in Int, NEW c \in Nat, c > 0, NEW s \in Int, NEW u \in 0 .. c - 1,
         x = c * s + u
  PROVE  x \div c = s /\ x % c = u
<1> DEFINE q == x \div c
           r == x % c
<1>1. q \in Int /\ r \in 0 .. c - 1 /\ x = c * q + r
  OBVIOUS
<1> HIDE DEF q, r
<1>2. c * (q - s) = u - r /\ q - s \in Int
  BY <1>1
<1>3. ASSUME NEW d \in Int, c * d = u - r PROVE d = 0
  <2>1. d >= 1 => c * d >= c
    <3>1. d - 1 >= 0 => c * (d - 1) >= 0
      BY Z3
    <3> QED
      BY <3>1
  <2>2. d <= -1 => c * d <= -c
    OBVIOUS
  <2> QED
    BY <1>1, <1>3, <2>1, <2>2
<1>4. q - s = 0
  BY <1>2, <1>3
<1> QED
  BY <1>1, <1>4 DEF q, r

(* Dividing twice.                                                         *)
LEMMA DivDiv ==
  ASSUME NEW x \in Nat, NEW a \in Nat, a > 0, NEW b \in Nat, b > 0
  PROVE  (x \div a) \div b = x \div (b * a)
<1> DEFINE q == x \div a
           r == x % a
           s == q \div b
           t == q % b
<1>1. q \in Int /\ r \in 0 .. a - 1 /\ x = a * q + r
  OBVIOUS
<1>2. s \in Int /\ t \in 0 .. b - 1 /\ q = b * s + t
  <2> HIDE DEF q
  <2> QED
    BY <1>1
<1> HIDE DEF q, r, s, t
<1>3. x = (b * a) * s + (a * t + r)
  <2>1. a * q = a * (b * s) + a * t
    BY <1>1, <1>2
  <2>2. a * (b * s) = (b * a) * s
    BY <1>2
  <2> QED
    BY <1>1, <1>2, <2>1, <2>2
<1>4. a * t + r \in 0 .. (b * a) - 1
  <2>1. a * t >= 0 /\ a * (b - 1 - t) >= 0
    BY <1>2
  <2>2. a * (b - 1 - t) = b * a - a - a * t
    BY <1>2
  <2>3. a * t \in Int /\ b * a \in Int
    BY <1>2
  <2> QED
    BY <1>1, <2>1, <2>2, <2>3
<1>5. b * a \in Nat /\ b * a > 0
  OBVIOUS
<1>6. x \div (b * a) = s
  <2> DEFINE c == b * a
             u == a * t + r
  <2>1. c \in Nat /\ c > 0 /\ u \in 0 .. c - 1 /\ x = c * s + u /\ s \in Int /\ x \in Int
    BY <1>2, <1>3, <1>4, <1>5
  <2> HIDE DEF c, u
  <2>2. x \div c = s
    BY <2>1, DivUnique
  <2> QED
    BY <2>2 DEF c
<1> QED
  BY <1>6 DEF q, s

(* A group is what the next quotient leaves over.                          *)
LEMMA NextGroup ==
  ASSUME NEW v \in Nat, NEW k \in 0 .. MaxGroups - 1
  PROVE  /\ v \div Weight[k] \in Nat
         /\ (v \div Weight[k]) % Radix \in 0 .. Radix - 1
         /\ v >= Weight[k] <=> v \div Weight[k] > 0
         /\ k < MaxGroups - 1 =>
              /\ (v \div Weight[k]) \div Radix = v \div Weight[k+1]
              /\ Weight[k] * (v \div Weight[k])
                   = Weight[k+1] * (v \div Weight[k+1])
                       + Weight[k] * ((v \div Weight[k]) % Radix)
<1> DEFINE w == Weight[k]
           q == v \div w
<1>1. w \in Nat /\ w > 0 /\ Radix \in Nat /\ Radix > 9
  BY RadixTyped
<1>2. q \in Int /\ v % w \in 0 .. w - 1 /\ v = w * q + (v % w)
  <2> HIDE DEF w
  <2> QED
    BY <1>1
<1>3. q >= 0 /\ (v >= w <=> q > 0)
  <2> HIDE DEF q, w
  <2>1. ASSUME NEW r \in 0 .. w - 1, v = w * q + r PROVE q >= 0 /\ (v >= w <=> q > 0)
    <3>1. q <= -1 => w * q <= -w
      BY <1>1, <1>2
    <3>2. q >= 1 => w * q >= w
      <4>1. q - 1 >= 0 => w * (q - 1) >= 0
        BY <1>1, <1>2
      <4> QED
        BY <1>1, <1>2, <4>1
    <3>3. q = 0 => w * q = 0
      BY <1>1
    <3>4. w * q \in Int
      BY <1>1, <1>2
    <3> QED
      BY <1>1, <1>2, <2>1, <3>1, <3>2, <3>3, <3>4
  <2> QED
    BY <1>2, <2>1
<1>4. q % Radix \in 0 .. Radix - 1 /\ q \div Radix \in Int
      /\ q = Radix * (q \div Radix) + (q % Radix)
  <2> HIDE DEF q
  <2> QED
    BY <1>1, <1>2
<1>5. ASSUME k < MaxGroups - 1
      PROVE  /\ q \div Radix = v \div Weight[k+1]
             /\ w * q = Weight[k+1] * (v \div Weight[k+1]) + w * (q % Radix)
  <2>1. Weight[k+1] = Radix * w
    <3>1. k + 1 \in 1 .. MaxGroups - 1 /\ (k + 1) - 1 = k
      BY <1>5, RadixTyped
    <3> QED
      BY <3>1, VarintAssumption
  <2>2. q \div Radix = v \div (Radix * w)
    <3> HIDE DEF w
    <3> QED
      BY <1>1, DivDiv
  <2>3. w * q = (Radix * w) * (q \div Radix) + w * (q % Radix)
    <3> DEFINE a == q \div Radix
               b == q % Radix
    <3>1. a \in Int /\ b \in Int /\ q = Radix * a + b
      BY <1>4
    <3> HIDE DEF a, b, w, q
    <3>2. w * q = (Radix * w) * a + w * b
      BY <1>1, <3>1
    <3> QED
      BY <3>2 DEF a, b
  <2> QED
    BY <2>1, <2>2, <2>3
<1> QED
  BY <1>2, <1>3, <1>4, <1>5

(* The powers grow.                                                        *)
LEMMA WeightsGrow ==
  ASSUME NEW j \in 0 .. MaxGroups - 1, NEW k \in 0 .. MaxGroups - 1, j <= k
  PROVE  Weight[j] <= Weight[k]
<1> DEFINE T == {n \in Nat : n \in j .. MaxGroups - 1 => Weight[j] <= Weight[n]}
<1>1. 0 \in T
  <2>1. 0 \in j .. MaxGroups - 1 => j = 0
    OBVIOUS
  <2> QED
    BY <2>1, RadixTyped
<1>2. ASSUME NEW n \in T PROVE n + 1 \in T
  <2>1. ASSUME n + 1 \in j .. MaxGroups - 1 PROVE Weight[j] <= Weight[n + 1]
    <3>1. CASE n + 1 = j
      BY <3>1, RadixTyped
    <3>2. CASE n + 1 # j
      <4>1. n \in j .. MaxGroups - 1 /\ n + 1 \in 1 .. MaxGroups - 1 /\ n \in 0 .. MaxGroups - 1
          BY <2>1, <3>2, RadixTyped
      <4>2. Weight[j] <= Weight[n]
        BY <4>1
      <4>3. Weight[n + 1] = Radix * Weight[n]
        <5>1. (n + 1) - 1 = n
          OBVIOUS
        <5> QED
          BY <4>1, <5>1, VarintAssumption
      <4> DEFINE w == Weight[n]
      <4>4. w \in Nat /\ w > 0 /\ Weight[j] \in Nat
        BY <4>1, RadixTyped
      <4>5. Radix * w >= w
        <5> HIDE DEF w
        <5> QED
          BY <4>4, RadixTyped
      <4>6. Weight[n + 1] \in Nat
        BY <4>1, RadixTyped
      <4> QED
        BY <4>2, <4>3, <4>4, <4>5, <4>6
    <3> QED
      BY <3>1, <3>2
  <2> QED
    BY <2>1
<1>3. \A n \in Nat : n \in T
  <2> HIDE DEF T
  <2>1. T \in SUBSET Nat
    BY DEF T
  <2> QED
    BY <1>1, <1>2, <2>1, NatSet
<1>4. k \in T
  BY <1>3
<1> QED
  BY <1>4

(* The number of groups is where the weights pass the number.              *)
LEMMA NumGroupsIs ==
  ASSUME NEW x \in Nat, NEW n \in 0 .. MaxGroups,
         n > 0 => Weight[n-1] <= x, n < MaxGroups => x < Weight[n]
  PROVE  NumGroups(x) = n
<1> DEFINE S == {k \in 0 .. MaxGroups - 1 : Weight[k] <= x}
<1>1. S = 0 .. n - 1
  <2>1. ASSUME NEW k \in 0 .. n - 1 PROVE k \in S
    <3>1. k \in 0 .. MaxGroups - 1 /\ n - 1 \in 0 .. MaxGroups - 1 /\ k <= n - 1
      BY RadixTyped
    <3>2. Weight[k] <= Weight[n-1] /\ Weight[k] \in Nat /\ Weight[n-1] \in Nat
      BY <3>1, WeightsGrow, RadixTyped
    <3>3. Weight[n-1] <= x
      BY <3>1
    <3> QED
      BY <3>1, <3>2, <3>3
  <2>2. ASSUME NEW k \in S PROVE k \in 0 .. n - 1
    <3>1. CASE k >= n
      <4>1. n \in 0 .. MaxGroups - 1
        BY <3>1, RadixTyped
      <4>2. Weight[n] <= Weight[k] /\ Weight[k] \in Nat /\ Weight[n] \in Nat
        BY <3>1, <4>1, WeightsGrow, RadixTyped
      <4>3. x < Weight[n] /\ Weight[k] <= x
          BY <4>1, RadixTyped
      <4> QED
        BY <4>2, <4>3
    <3> QED
      BY <3>1
  <2> QED
    BY <2>1, <2>2
<1>2. Cardinality(0 .. n - 1) = n
  <2>1. Cardinality(0 .. n - 1) = IF 0 > n - 1 THEN 0 ELSE (n - 1) - 0 + 1
    BY FS_Interval, n - 1 \in Int, 0 \in Int
  <2> QED
    BY <2>1
<1> QED
  BY <1>1, <1>2 DEF NumGroups

(* ... and it is there for every number of the range.                      *)
LEMMA NumGroupsBounds ==
  ASSUME NEW x \in Nat
  PROVE  /\ NumGroups(x) \in 0 .. MaxGroups
         /\ NumGroups(x) > 0 => Weight[NumGroups(x) - 1] <= x
         /\ NumGroups(x) < MaxGroups => x < Weight[NumGroups(x)]
<1> DEFINE T == {m \in Nat : m <= MaxGroups /\ (m > 0 => Weight[m-1] <= x)}
           Above(m) == m < MaxGroups => x < Weight[m]
<1>1. \E n \in T : Above(n)
  <2> SUFFICES ASSUME \A n \in T : ~ Above(n) PROVE FALSE
    OBVIOUS
  <2>1. 0 \in T
    BY RadixTyped
  <2>2. ASSUME NEW n \in T PROVE n + 1 \in T
    <3>1. n < MaxGroups /\ ~ (x < Weight[n])
      BY <2>2
    <3>2. n \in 0 .. MaxGroups - 1 /\ Weight[n] \in Nat
      BY <3>1, RadixTyped
    <3>3. Weight[n] <= x /\ (n + 1) - 1 = n /\ n + 1 <= MaxGroups
      BY <3>1, <3>2, RadixTyped
    <3> QED
      BY <3>3
  <2>3. \A n \in Nat : n \in T
    <3> HIDE DEF T
    <3>1. T \in SUBSET Nat
      BY DEF T
    <3> QED
      BY <2>1, <2>2, <3>1, NatSet
  <2>5. MaxGroups + 1 \in Nat
    BY RadixTyped
  <2>4. MaxGroups + 1 \in T
    <3> HIDE DEF T
    <3> QED
      BY <2>3, <2>5
  <2> QED
    BY <2>4, RadixTyped
<1>2. PICK n \in T : Above(n)
  BY <1>1
<1>3. n \in 0 .. MaxGroups /\ (n > 0 => Weight[n-1] <= x) /\ (n < MaxGroups => x < Weight[n])
  BY <1>2, RadixTyped
<1>4. NumGroups(x) = n
  BY <1>3, NumGroupsIs
<1> QED
  BY <1>3, <1>4

-----------------------------------------------------------------------------
(* The groups of a number, and what the decoder keeps of one: all but the  *)
(* last lose their top bit's worth where char is signed.                   *)
GroupAt(v, k) == (v \div Weight[k]) % Radix
Kept(v, k) == IF k > 0 /\ CharIsSigned /\ GroupAt(v, k) >= Radix \div 2
              THEN GroupAt(v, k) - Radix ELSE GroupAt(v, k)
Clear(v, k) == k > 0 /\ CharIsSigned => GroupAt(v, k) < Radix \div 2

(* A group is a digit.                                                     *)
LEMMA GroupTyped ==
  ASSUME NEW v \in Nat, NEW k \in 0 .. MaxGroups - 1
  PROVE  /\ GroupAt(v, k) \in 0 .. Radix - 1
         /\ Kept(v, k) \in Int /\ Kept(v, k) <= GroupAt(v, k)
         /\ Kept(v, k) = GroupAt(v, k) <=> Clear(v, k)
<1>1. GroupAt(v, k) \in 0 .. Radix - 1
  BY NextGroup DEF GroupAt
<1>2. Radix \in Nat /\ Radix > 9 /\ Radix \div 2 \in Int
  BY RadixTyped
<1> QED
  BY <1>1, <1>2 DEF Kept, Clear

(* A byte that says "more follow" carries the group it was made from.      *)
LEMMA ByteOfGroup ==
  ASSUME NEW g \in 0 .. Radix - 1
  PROVE  /\ ~ HasMore(g) /\ HasMore(g + Radix)
         /\ HighBitShiftedOut(g + Radix)
              = IF CharIsSigned /\ g >= Radix \div 2 THEN g - Radix ELSE g
<1>1. Radix \in Nat /\ Radix > 9
  BY RadixTyped
<1>2. (g + Radix) % Radix = g
  <2>1. g + Radix = Radix * 1 + g
    BY <1>1
  <2> DEFINE x == g + Radix
  <2>2. x \in Int /\ x = Radix * 1 + g
    BY <1>1, <2>1
  <2> HIDE DEF x
  <2>3. x % Radix = g
    BY <1>1, <2>2, DivUnique
  <2> QED
    BY <2>3 DEF x
<1> QED
  BY <1>1, <1>2 DEF HasMore, HighBitShiftedOut

(* The bytes of a number are bytes, one for each group.                    *)
LEMMA EncodingBytes ==
  ASSUME NEW v \in Nat
  PROVE  LET n == NumGroups(v)
         IN  /\ n \in 0 .. MaxGroups
             /\ VarientEncoding(v) \in Seq(Byte) /\ Len(VarientEncoding(v)) = n
             /\ \A j \in 1 .. n : VarientEncoding(v)[j]
                                    = GroupAt(v, n - j) + (IF j < n THEN Radix ELSE 0)
<1> DEFINE n == NumGroups(v)
<1>1. n \in 0 .. MaxGroups /\ n \in Nat
  BY NumGroupsType, RadixTyped
<1>2. VarientEncoding(v) = [j \in 1 .. n |-> GroupAt(v, n - j) + (IF j < n THEN Radix ELSE 0)]
  BY Zenon DEF VarientEncoding, GroupAt
<1>3. VarientEncoding(v) \in Seq(Byte)
  BY VarientEncodingType
<1> HIDE DEF n
<1>4. Len(VarientEncoding(v)) = n
  BY <1>1, <1>2, <1>3
<1> QED
  BY <1>1, <1>2, <1>3, <1>4 DEF n

(* The decoder stops behind the last byte of the encoding.                 *)
LEMMA EndOfEncoding ==
  ASSUME NEW v \in Nat, v > 0, NEW bytes \in Seq(Byte), NEW at \in Nat \ {0},
         at + NumGroups(v) - 1 <= Len(bytes),
         \A j \in 1 .. NumGroups(v) : bytes[at + j - 1] = VarientEncoding(v)[j]
  PROVE  /\ NumGroups(v) > 0
         /\ VarintReadable(bytes, at)
         /\ VarintEnd(bytes, at) = at + NumGroups(v) - 1
<1> DEFINE n == NumGroups(v)
           e == at + n - 1
<1>1. n \in 1 .. MaxGroups /\ n \in Nat
  <2>1. n \in 0 .. MaxGroups /\ (n < MaxGroups => v < Weight[n])
    BY NumGroupsBounds
  <2> HIDE DEF n
  <2>2. n # 0
    BY <2>1, RadixTyped
  <2> QED
    BY <2>1, <2>2, RadixTyped
<1>2. \A j \in 1 .. n : /\ GroupAt(v, n - j) \in 0 .. Radix - 1
                        /\ bytes[at + j - 1] = GroupAt(v, n - j) + (IF j < n THEN Radix ELSE 0)
  <2>1. \A j \in 1 .. n : n - j \in 0 .. MaxGroups - 1
    BY <1>1, RadixTyped, SMTT(30)
  <2> QED
    BY <2>1, EncodingBytes, GroupTyped
<1>3. ASSUME NEW k \in at .. e PROVE HasMore(bytes[k]) <=> k # e
  <2> DEFINE j == k - at + 1
             g == GroupAt(v, n - j)
  <2>1. j \in 1 .. n /\ at + j - 1 = k /\ (j < n <=> k # e)
    BY <1>1
  <2>2. g \in 0 .. Radix - 1 /\ bytes[k] = g + (IF k # e THEN Radix ELSE 0)
    BY <1>2, <2>1
  <2> HIDE DEF g, j, e
  <2>3. g + 0 = g /\ ~ HasMore(g) /\ HasMore(g + Radix)
    BY <2>2, ByteOfGroup
  <2> QED
    BY <2>2, <2>3
<1>4. e \in at .. Len(bytes) /\ Len(bytes) \in Nat /\ e < at + MaxGroups
  BY <1>1, RadixTyped
<1>5. VarintReadable(bytes, at)
  BY <1>3, <1>4 DEF VarintReadable
<1>6. VarintEnd(bytes, at) = e
  <2> DEFINE Q(j) == ~ HasMore(bytes[j]) /\ \A k \in at .. j-1 : HasMore(bytes[k])
  <2>1. Q(e)
    BY <1>3, <1>4
  <2>2. ASSUME NEW j \in at .. Len(bytes), Q(j) PROVE j = e
    <3>1. j < e => j \in at .. e /\ j # e
      BY <1>4
    <3>2. j > e => e \in at .. j - 1
      BY <1>4
    <3> QED
      BY <1>3, <1>4, <2>2, <3>1, <3>2
  <2>3. VarintEnd(bytes, at) = CHOOSE j \in at .. Len(bytes) : Q(j)
    BY Zenon DEF VarintEnd
  <2> HIDE DEF Q, e
  <2> QED
    BY <1>4, <2>1, <2>2, <2>3
<1> QED
  BY <1>1, <1>5, <1>6

(* What comes back of an encoding, wherever it stands among other bytes:   *)
(* never more than the number, and the number itself exactly when no group *)
(* but the last has its top bit set, or char is unsigned.                  *)
Exact(v, n, c) == IF c = 0 THEN 0 ELSE Weight[n-c] * (v \div Weight[n-c])

(* One more group makes the number exact to the next power.                *)
LEMMA ExactNext ==
  ASSUME NEW v \in Nat, NEW n \in 1 .. MaxGroups, NEW c \in 0 .. n - 1,
         n < MaxGroups => v < Weight[n], v < Radix * Weight[MaxGroups - 1]
  PROVE  /\ Exact(v, n, c) \in Int
         /\ Exact(v, n, c + 1) = Exact(v, n, c) + Weight[n-c-1] * GroupAt(v, n-c-1)
<1> DEFINE k == n - c - 1
<1>1. k \in 0 .. MaxGroups - 1 /\ n - (c + 1) = k /\ c \in Nat /\ c + 1 # 0
  BY RadixTyped
<1>2. Exact(v, n, c + 1) = Weight[k] * (v \div Weight[k])
  BY <1>1 DEF Exact
<1>3. CASE c = 0
  <2>1. v \div Weight[k] = GroupAt(v, k)
    <3> DEFINE q == v \div Weight[k]
    <3>1. q \in Nat
      BY <1>1, NextGroup
    <3>2. q < Radix
      <4> DEFINE w == Weight[k]
      <4>1. w \in Nat /\ w > 0 /\ Radix \in Nat
        BY <1>1, RadixTyped
      <4>2. v < Radix * w
        <5>1. CASE n = MaxGroups
          BY <1>1, <1>3, <5>1
        <5>2. CASE n < MaxGroups
          <6>1. n \in 1 .. MaxGroups - 1 /\ n - 1 = k
            BY <1>3, <5>2, RadixTyped
          <6> QED
            BY <5>2, <6>1, VarintAssumption
        <5> QED
          BY <5>1, <5>2, RadixTyped
      <4>5. q = v \div w
        OBVIOUS
      <4> HIDE DEF w, q
      <4>3. v = w * q + (v % w) /\ v % w \in 0 .. w - 1
        BY <4>1, <4>5
      <4>4. ASSUME NEW r \in Nat, v = w * q + r PROVE q < Radix
        <5>1. q >= Radix => w * q >= w * Radix
          <6>1. q - Radix >= 0 => w * (q - Radix) >= 0
            BY <3>1, <4>1
          <6> QED
            BY <3>1, <4>1, <6>1
        <5>2. w * q \in Int /\ w * Radix = Radix * w /\ Radix * w \in Int
          BY <3>1, <4>1
        <5> QED
          BY <3>1, <4>1, <4>2, <4>4, <5>1, <5>2
      <4> QED
        BY <4>3, <4>4
    <3> HIDE DEF q
    <3>3. q % Radix = q
      <4>1. Radix \in Nat /\ Radix > 0 /\ q \in 0 .. Radix - 1 /\ q = Radix * 0 + q
        BY <3>1, <3>2, RadixTyped
      <4> QED
        BY <4>1, DivUnique
    <3> QED
      BY <3>3 DEF GroupAt, q
  <2>3. Weight[k] \in Nat /\ GroupAt(v, k) \in Int
    <3>1. k \in 0 .. MaxGroups - 1
      BY <1>1
    <3> HIDE DEF k
    <3>2. GroupAt(v, k) \in 0 .. Radix - 1
      BY <3>1, GroupTyped
    <3> QED
      BY <3>1, <3>2, RadixTyped
  <2> DEFINE w == Weight[k]
             g == GroupAt(v, k)
  <2>2. w * g \in Int
    <3>1. w \in Nat /\ g \in Int
      BY <2>3
    <3> HIDE DEF w, g
    <3> QED
      BY <3>1
  <2> QED
    BY <1>2, <1>3, <2>1, <2>2 DEF Exact
<1>4. CASE c # 0
  <2>1. n - c = k + 1 /\ k < MaxGroups - 1 /\ k + 1 \in 0 .. MaxGroups - 1
    BY <1>4, RadixTyped
  <2>2. Exact(v, n, c) = Weight[k+1] * (v \div Weight[k+1])
    BY <1>4, <2>1 DEF Exact
  <2>3. Weight[k] * (v \div Weight[k])
          = Weight[k+1] * (v \div Weight[k+1]) + Weight[k] * GroupAt(v, k)
    BY <1>1, <2>1, NextGroup DEF GroupAt
  <2>4. Weight[k+1] \in Nat /\ v \div Weight[k+1] \in Nat
    BY <2>1, NextGroup, RadixTyped
  <2> QED
    BY <1>2, <2>2, <2>3, <2>4
<1> QED
  BY <1>3, <1>4

-----------------------------------------------------------------------------
(* The signed char shift returns an integer.                               *)
LEMMA HighBitShiftedOutType ==
  ASSUME NEW b \in Int
  PROVE  HighBitShiftedOut(b) \in Int
<1>1. b % Radix \in Int /\ Radix \in Int
  BY VarintAssumption
<1> QED
  BY <1>1 DEF HighBitShiftedOut

(* A set of natural numbers that is not empty has a least element.         *)
LEMMA LeastOf ==
  ASSUME NEW E \in SUBSET Nat, NEW x \in E
  PROVE  \E m \in E : \A d \in E : m <= d
<1>1. E \subseteq Nat /\ E # {}
  OBVIOUS
<1>2. PICK m \in E : \A d \in E : ~ (<<d, m>> \in OpToRel(<, Nat))
  BY <1>1, NatLessThanWellFounded, WFMin
<1>3. ASSUME NEW d \in E PROVE m <= d
  <2>1. d \in Nat /\ m \in Nat
    BY <1>1
  <2>2. ~ (<<d, m>> \in OpToRel(<, Nat))
    BY <1>2
  <2>3. ASSUME d < m PROVE FALSE
    BY <2>1, <2>2, <2>3 DEF OpToRel
  <2> QED
    BY <2>1, <2>3
<1> QED
  BY <1>3

(* Where a number can be read, the first byte without the high bit ends it *)
(* and lies in the buffer, no more than MaxGroups bytes on.                *)
LEMMA VarintEndType ==
  ASSUME NEW bytes \in Seq(Byte), NEW at \in Int, VarintReadable(bytes, at)
  PROVE  /\ at \in Nat \ {0}
         /\ VarintEnd(bytes, at) \in at .. Len(bytes)
         /\ VarintEnd(bytes, at) < at + MaxGroups
<1> DEFINE E == {j \in at .. Len(bytes) : ~ HasMore(bytes[j])}
           Q(j) == ~ HasMore(bytes[j]) /\ \A k \in at .. j - 1 : HasMore(bytes[k])
<1>1. at \in Nat \ {0} /\ Len(bytes) \in Nat
  BY DEF VarintReadable
<1>2. PICK j0 \in at .. Len(bytes) : j0 < at + MaxGroups /\ ~ HasMore(bytes[j0])
  BY DEF VarintReadable
<1>3. E \in SUBSET Nat /\ j0 \in E
  BY <1>1, <1>2
<1>4. PICK m \in E : \A d \in E : m <= d
  <2> HIDE DEF E
  <2> QED
    BY <1>3, LeastOf
<1>5. m \in at .. Len(bytes) /\ Q(m)
  <2>1. ASSUME NEW k \in at .. m - 1 PROVE HasMore(bytes[k])
    <3>1. k \in at .. Len(bytes) /\ ~ (m <= k)
      BY <1>1, <1>4
    <3> QED
      BY <1>4, <3>1
  <2> QED
    BY <1>4, <2>1
<1>6. VarintEnd(bytes, at) = CHOOSE j \in at .. Len(bytes) : Q(j)
  BY Zenon DEF VarintEnd
<1> HIDE DEF E, Q
<1>7. VarintEnd(bytes, at) \in at .. Len(bytes) /\ Q(VarintEnd(bytes, at))
  BY <1>5, <1>6, Zenon
<1>8. VarintEnd(bytes, at) <= j0
  <2>1. ~ (j0 \in at .. VarintEnd(bytes, at) - 1)
    BY <1>2, <1>7 DEF Q
  <2> QED
    BY <1>1, <1>2, <1>7, <2>1
<1> QED
  BY <1>1, <1>2, <1>7, <1>8, RadixTyped

(* What is read is an integer.                                             *)
LEMMA VariantDecoderType ==
  ASSUME NEW bytes \in Seq(Byte), NEW at \in Int, VarintReadable(bytes, at)
  PROVE  VariantDecoder(bytes, at) \in Int
<1> DEFINE end == VarintEnd(bytes, at)
           term == [j \in at .. end |->
                      Weight[end - j] * (IF j < end THEN HighBitShiftedOut(bytes[j])
                                                    ELSE bytes[j])]
           I == at .. end
<1>1. /\ at \in Nat /\ end \in at .. Len(bytes) /\ end < at + MaxGroups
      /\ Len(bytes) \in Nat /\ end \in Nat
  <2>1. /\ at \in Nat /\ end \in at .. Len(bytes) /\ end < at + MaxGroups
        /\ Len(bytes) \in Nat
    BY VarintEndType
  <2> QED
    BY <2>1
<1>2. VariantDecoder(bytes, at) = SumFunctionOnSet(term, I)
  <2>1. VariantDecoder(bytes, at) = SumFunction(term)
    BY Zenon DEF VariantDecoder
  <2>2. SumFunction(term) = SumFunctionOnSet(term, DOMAIN term)
    BY Zenon DEF SumFunction
  <2>3. DOMAIN term = I
    OBVIOUS
  <2> HIDE DEF term
  <2> QED
    BY <2>1, <2>2, <2>3
<1> HIDE DEF end
<1>3. ASSUME NEW j \in I PROVE term[j] \in Int
  <2>1. j \in 1 .. Len(bytes) /\ end - j \in 0 .. MaxGroups - 1
    <3>1. at >= 1
      BY DEF VarintReadable
    <3> QED
      BY <1>1, <3>1, RadixTyped
  <2>2. bytes[j] \in Int
    <3>1. bytes[j] \in Byte
      BY <2>1, ElementOfSeq
    <3> QED
      BY <3>1, RadixTyped DEF Byte
  <2>3. HighBitShiftedOut(bytes[j]) \in Int
    BY <2>2, HighBitShiftedOutType
  <2>4. Weight[end - j] \in Int
    BY <2>1, RadixTyped
  <2> DEFINE w == Weight[end - j]
             d == IF j < end THEN HighBitShiftedOut(bytes[j]) ELSE bytes[j]
  <2>5. d \in Int /\ w \in Int /\ term[j] = w * d
    BY <2>2, <2>3, <2>4
  <2> HIDE DEF w, d, term
  <2>6. w * d \in Int
    BY <2>5
  <2> QED
    BY <2>5, <2>6
<1>4. IsFiniteSet(I)
  BY <1>1, FS_Interval
<1> HIDE DEF term, I
<1> QED
  BY <1>2, <1>3, <1>4, SumType

-----------------------------------------------------------------------------
(* FlattenSeq, element by element.                                         *)
Flat(s) == CHOOSE f : f = [i \in 1 .. Len(s) |-> IF i = 1 THEN s[i] ELSE f[i-1] \o s[i]]

(* It is the last element of the table it builds.                          *)
LEMMA FlattenIsFlat ==
  ASSUME NEW s
  PROVE  FlattenSeq(s) = IF Len(s) = 0 THEN s ELSE Flat(s)[Len(s)]
BY Zenon DEF FlattenSeq, Flat

(* The table exists,                                                       *)
LEMMA FlatExists ==
  ASSUME NEW S, NEW s \in Seq(Seq(S))
  PROVE  \E f \in [1 .. Len(s) -> Seq(S)] :
           \A i \in 1 .. Len(s) : f[i] = IF i = 1 THEN s[i] ELSE f[i-1] \o s[i]
<1> DEFINE Sol(n, f) == /\ f \in [1 .. n -> Seq(S)]
                        /\ \A i \in 1 .. n : f[i] = IF i = 1 THEN s[i] ELSE f[i-1] \o s[i]
           T == {n \in Nat : n <= Len(s) => \E f : Sol(n, f)}
<1>1. 0 \in T
  <2>1. PICK f : f = [i \in 1 .. 0 |-> <<>>]
    OBVIOUS
  <2>2. Sol(0, f)
    BY <2>1
  <2> QED
    BY <2>2
<1>2. ASSUME NEW n \in T PROVE n + 1 \in T
  <2>0. n \in Nat /\ (n <= Len(s) => \E f : Sol(n, f))
    <3> HIDE DEF Sol
    <3> QED
      BY <1>2
  <2>1. SUFFICES ASSUME n + 1 <= Len(s) PROVE \E f : Sol(n + 1, f)
    <3> HIDE DEF Sol
    <3> QED
      BY <2>0
  <2>2. n \in Nat /\ Len(s) \in Nat /\ n <= Len(s) /\ n + 1 \in 1 .. Len(s)
    BY <2>0, <2>1
  <2>3. PICK f : Sol(n, f)
    <3> HIDE DEF Sol
    <3> QED
      BY <2>0, <2>2
  <2>4. s[n + 1] \in Seq(S)
    BY <2>2, ElementOfSeq
  <2> DEFINE x == IF n = 0 THEN s[n + 1] ELSE f[n] \o s[n + 1]
             g == [i \in 1 .. n + 1 |-> IF i = n + 1 THEN x ELSE f[i]]
  <2>5. x \in Seq(S)
    <3>1. n # 0 => f[n] \in Seq(S)
      BY <2>2, <2>3
    <3> QED
      BY <2>4, <3>1, ConcatProperties
  <2>6. \A i \in 1 .. n : g[i] = f[i] /\ f[i] \in Seq(S)
    <3> HIDE DEF x
    <3>1. \A i \in 1 .. n : i \in 1 .. n + 1 /\ i # n + 1
      BY <2>2
    <3>2. \A i \in 1 .. n : f[i] \in Seq(S)
      BY <2>3
    <3> QED
      BY <3>1, <3>2
  <2>7. g[n + 1] = x
    BY <2>2
  <2>8. g \in [1 .. n + 1 -> Seq(S)]
    <3> HIDE DEF x
    <3> QED
      BY <2>2, <2>3, <2>5
  <2>9. ASSUME NEW i \in 1 .. n + 1
        PROVE  g[i] = IF i = 1 THEN s[i] ELSE g[i-1] \o s[i]
    <3>1. CASE i = n + 1
      <4>1. n # 0 => n \in 1 .. n /\ i - 1 = n /\ i # 1
        BY <2>2, <3>1
      <4>2. n = 0 => i = 1
        BY <3>1
      <4> HIDE DEF g
      <4>3. n # 0 => g[i - 1] = f[n]
        BY <2>6, <4>1
      <4> QED
        BY <2>7, <3>1, <4>1, <4>2, <4>3
    <3>2. CASE i # n + 1
      <4>1. i \in 1 .. n /\ (i # 1 => i - 1 \in 1 .. n)
        BY <2>2, <3>2
      <4>2. f[i] = IF i = 1 THEN s[i] ELSE f[i-1] \o s[i]
        BY <2>3, <4>1
      <4> HIDE DEF g
      <4> QED
        BY <2>6, <4>1, <4>2
    <3> QED
      BY <3>1, <3>2
  <2> HIDE DEF g
  <2> QED
    BY <2>8, <2>9
<1> HIDE DEF Sol
<1>3. T \in SUBSET Nat /\ 0 \in T /\ \A n \in T : n + 1 \in T
  BY <1>1, <1>2
<1> HIDE DEF T
<1>4. \A n \in Nat : n \in T
  BY <1>3, NatSet
<1>5. Len(s) \in Nat /\ Len(s) <= Len(s)
  OBVIOUS
<1>6. PICK f : Sol(Len(s), f)
  BY <1>4, <1>5 DEF T
<1> QED
  BY <1>6 DEF Sol

(* and is the one CHOOSE gives.                                            *)
LEMMA FlatIs ==
  ASSUME NEW S, NEW s \in Seq(Seq(S))
  PROVE  \A i \in 1 .. Len(s) : Flat(s)[i] = IF i = 1 THEN s[i] ELSE Flat(s)[i-1] \o s[i]
<1> DEFINE E(g) == g = [i \in 1 .. Len(s) |-> IF i = 1 THEN s[i] ELSE g[i-1] \o s[i]]
<1>1. PICK f \in [1 .. Len(s) -> Seq(S)] :
        \A i \in 1 .. Len(s) : f[i] = IF i = 1 THEN s[i] ELSE f[i-1] \o s[i]
  BY FlatExists
<1>2. E(f)
  BY <1>1
<1>3. Flat(s) = CHOOSE g : E(g)
  BY Zenon DEF Flat
<1> HIDE DEF E
<1>4. E(Flat(s))
  BY <1>2, <1>3, Zenon
<1>5. Flat(s) = [i \in 1 .. Len(s) |-> IF i = 1 THEN s[i] ELSE Flat(s)[i-1] \o s[i]]
  BY <1>4, Zenon DEF E
<1> QED
  BY <1>5, Zenon

(* The table of a sequence begins with that of its beginning.              *)
LEMMA FlatAgree ==
  ASSUME NEW S, NEW s \in Seq(Seq(S)), NEW t \in Seq(Seq(S)), Len(s) <= Len(t),
         \A i \in 1 .. Len(s) : t[i] = s[i]
  PROVE  \A i \in 1 .. Len(s) : Flat(t)[i] = Flat(s)[i] /\ Flat(s)[i] \in Seq(S)
<1> DEFINE T == {n \in Nat : n + 1 <= Len(s) =>
                   Flat(t)[n+1] = Flat(s)[n+1] /\ Flat(s)[n+1] \in Seq(S)}
<1>1. Len(s) \in Nat /\ Len(t) \in Nat
  OBVIOUS
<1>2. ASSUME NEW i \in 1 .. Len(s) PROVE s[i] \in Seq(S) /\ i \in 1 .. Len(t)
  <2>1. s[i] \in Seq(S)
    BY ElementOfSeq
  <2> QED
    BY <1>1, <2>1
<1>3. 0 \in T
  <2>1. SUFFICES ASSUME 1 <= Len(s) PROVE Flat(t)[1] = Flat(s)[1] /\ Flat(s)[1] \in Seq(S)
    OBVIOUS
  <2>2. 1 \in 1 .. Len(s)
    BY <1>1, <2>1
  <2>3. Flat(s)[1] = s[1]
    BY <2>2, FlatIs
  <2>4. Flat(t)[1] = t[1]
    BY <1>2, <2>2, FlatIs
  <2> QED
    BY <1>2, <2>2, <2>3, <2>4
<1>4. ASSUME NEW n \in T PROVE n + 1 \in T
  <2> DEFINE i == (n + 1) + 1
  <2>1. SUFFICES ASSUME i <= Len(s) PROVE Flat(t)[i] = Flat(s)[i] /\ Flat(s)[i] \in Seq(S)
    OBVIOUS
  <2>2. /\ n \in Nat /\ i \in 1 .. Len(s) /\ i # 1 /\ i - 1 = n + 1
        /\ Flat(t)[n+1] = Flat(s)[n+1] /\ Flat(s)[n+1] \in Seq(S)
    BY <1>1, <2>1
  <2> HIDE DEF i, T
  <2>3. Flat(s)[i] = Flat(s)[i-1] \o s[i]
    BY <2>2, FlatIs
  <2>4. Flat(t)[i] = Flat(t)[i-1] \o t[i]
    BY <1>2, <2>2, FlatIs
  <2>5. s[i] \in Seq(S) /\ t[i] = s[i]
    BY <1>2, <2>2
  <2>6. Flat(s)[i] = Flat(s)[n+1] \o s[i] /\ Flat(t)[i] = Flat(t)[n+1] \o t[i]
    BY <2>2, <2>3, <2>4
  <2>7. Flat(s)[n+1] \o s[i] \in Seq(S)
    BY <2>2, <2>5, ConcatProperties
  <2> QED
    BY <2>2, <2>5, <2>6, <2>7
<1>5. T \in SUBSET Nat /\ 0 \in T /\ \A n \in T : n + 1 \in T
  BY <1>3, <1>4
<1> HIDE DEF T
<1>6. \A n \in Nat : n \in T
  BY <1>5, NatSet
<1>7. ASSUME NEW i \in 1 .. Len(s) PROVE Flat(t)[i] = Flat(s)[i] /\ Flat(s)[i] \in Seq(S)
  <2>1. i - 1 \in Nat /\ (i - 1) + 1 = i /\ i <= Len(s)
    BY <1>1
  <2> QED
    BY <1>6, <2>1 DEF T
<1> QED
  BY <1>7

(* Nothing to flatten.                                                     *)
LEMMA FlattenEmpty == FlattenSeq(<<>>) = <<>>
<1>1. Len(<<>>) = 0
  OBVIOUS
<1> QED
  BY <1>1, FlattenIsFlat

(* One more part goes behind the others.                                   *)
LEMMA FlattenAppend ==
  ASSUME NEW S, NEW s \in Seq(Seq(S)), NEW x \in Seq(S)
  PROVE  /\ FlattenSeq(s) \in Seq(S)
         /\ FlattenSeq(Append(s, x)) = FlattenSeq(s) \o x
<1>1. PICK t : t = Append(s, x)
  OBVIOUS
<1>2. /\ t \in Seq(Seq(S)) /\ Len(t) = Len(s) + 1 /\ Len(s) \in Nat
      /\ \A i \in 1 .. Len(s) : t[i] = s[i]
      /\ t[Len(s) + 1] = x
  BY <1>1, AppendProperties
<1>3. FlattenSeq(t) = Flat(t)[Len(s) + 1]
  <2>1. Len(t) # 0
    BY <1>2
  <2> QED
    BY <1>2, <2>1, FlattenIsFlat
<1>4. Len(s) + 1 \in 1 .. Len(t) /\ (Len(s) + 1) - 1 = Len(s)
  BY <1>2
<1>5. Flat(t)[Len(s) + 1] = IF Len(s) + 1 = 1 THEN x ELSE Flat(t)[Len(s)] \o x
  BY <1>2, <1>4, FlatIs
<1>6. CASE Len(s) = 0
  <2>1. s = <<>> /\ FlattenSeq(s) = <<>>
    BY <1>6, EmptySeq, FlattenEmpty
  <2>2. <<>> \o x = x /\ <<>> \in Seq(S)
    BY ConcatEmptySeq
  <2>3. FlattenSeq(t) = x
    BY <1>3, <1>5, <1>6
  <2> QED
    BY <1>1, <2>1, <2>2, <2>3
<1>7. CASE Len(s) # 0
  <2>1. Len(s) \in 1 .. Len(s) /\ Len(s) <= Len(t) /\ Len(s) + 1 # 1
    BY <1>2, <1>7
  <2>2. FlattenSeq(s) = Flat(s)[Len(s)]
    BY <1>7, FlattenIsFlat
  <2>3. Flat(t)[Len(s)] = Flat(s)[Len(s)] /\ Flat(s)[Len(s)] \in Seq(S)
    BY <1>2, <2>1, FlatAgree
  <2> QED
    BY <1>1, <1>3, <1>5, <2>1, <2>2, <2>3
<1> QED
  BY <1>6, <1>7

(* Concatenation is associative and keeps the element type.                *)
LEMMA ConcatThree ==
  ASSUME NEW S, NEW a \in Seq(S), NEW b \in Seq(S), NEW c \in Seq(S)
  PROVE  /\ a \o b \in Seq(S) /\ b \o c \in Seq(S)
         /\ a \o (b \o c) = (a \o b) \o c
<1>1. a \o (b \o c) = (a \o b) \o c
  BY ConcatAssociative, SMTT(30)
<1> QED
  BY <1>1, ConcatProperties

(* Parts of one type give a sequence of it.                                *)
LEMMA FlattenType ==
  ASSUME NEW S, NEW s \in Seq(Seq(S))
  PROVE  FlattenSeq(s) \in Seq(S)
<1>1. <<>> \in Seq(S)
  OBVIOUS
<1> QED
  BY <1>1, FlattenAppend

(* The first m sequences of s, one behind the other.                       *)
Joined(s, m) == FlattenSeq([k \in 1 .. m |-> s[k]])

(* The first no parts.                                                     *)
LEMMA JoinedNone ==
  ASSUME NEW s
  PROVE  Joined(s, 0) = <<>>
<1>1. [k \in 1 .. 0 |-> s[k]] = <<>>
  OBVIOUS
<1> QED
  BY <1>1, FlattenEmpty DEF Joined

(* One more part.                                                          *)
LEMMA JoinedNext ==
  ASSUME NEW S, NEW s, NEW m \in Nat, \A k \in 1 .. m + 1 : s[k] \in Seq(S)
  PROVE  /\ Joined(s, m) \in Seq(S) /\ Joined(s, m + 1) \in Seq(S)
         /\ Joined(s, m + 1) = Joined(s, m) \o s[m + 1]
<1>1. PICK t : t = [k \in 1 .. m |-> s[k]]
  OBVIOUS
<1>2. PICK u : u = [k \in 1 .. m + 1 |-> s[k]]
  OBVIOUS
<1>3. /\ t \in Seq(Seq(S)) /\ u \in Seq(Seq(S)) /\ s[m + 1] \in Seq(S)
      /\ Len(t) = m /\ Len(u) = m + 1
  BY <1>1, <1>2
<1>4. u = Append(t, s[m + 1])
  <2>1. PICK v : v = Append(t, s[m + 1])
    OBVIOUS
  <2>2. v \in Seq(Seq(S)) /\ Len(v) = m + 1 /\ v[m + 1] = s[m + 1]
        /\ \A k \in 1 .. m : v[k] = t[k]
    BY <1>3, <2>1, AppendProperties
  <2>3. \A k \in 1 .. m + 1 : v[k] = u[k]
    BY <1>1, <1>2, <2>2
  <2>4. v = u
    BY <1>3, <2>2, <2>3, SeqEqual
  <2> QED
    BY <2>1, <2>4
<1>5. FlattenSeq(t) \in Seq(S) /\ FlattenSeq(u) \in Seq(S)
  BY <1>3, FlattenType
<1>6. FlattenSeq(u) = FlattenSeq(t) \o s[m + 1]
  BY <1>3, <1>4, FlattenAppend
<1> QED
  BY <1>1, <1>2, <1>5, <1>6 DEF Joined

(* The first parts are of the type of all.                                 *)
LEMMA JoinedType ==
  ASSUME NEW S, NEW s, NEW m \in Nat, \A k \in 1 .. m : s[k] \in Seq(S)
  PROVE  Joined(s, m) \in Seq(S)
<1>1. [k \in 1 .. m |-> s[k]] \in Seq(Seq(S))
  OBVIOUS
<1> QED
  BY <1>1, FlattenType DEF Joined

(* Only the parts taken matter.                                            *)
LEMMA JoinedAgree ==
  ASSUME NEW s, NEW t, NEW m, \A k \in 1 .. m : s[k] = t[k]
  PROVE  Joined(s, m) = Joined(t, m)
<1>1. [k \in 1 .. m |-> s[k]] = [k \in 1 .. m |-> t[k]]
  OBVIOUS
<1> QED
  BY <1>1 DEF Joined

(* All parts.                                                              *)
LEMMA FlattenJoined ==
  ASSUME NEW S, NEW s \in Seq(S)
  PROVE  FlattenSeq(s) = Joined(s, Len(s))
<1>1. s = [k \in 1 .. Len(s) |-> s[k]]
  OBVIOUS
<1> QED
  BY <1>1 DEF Joined

-----------------------------------------------------------------------------
(* A heap in which no object reaches a cycle and only composites hold      *)
(* objects: what is true of an object when it is true of what it holds is  *)
(* true of every object.                                                   *)
Grounded(h) ==
  \A d \in DOMAIN h : ~ Cyclic(h, d) /\ (h[d].type \notin CompositeTypes => h[d].kids = <<>>)

(* The elements of an object are objects of the heap.                      *)
LEMMA KidsTyped ==
  ASSUME NEW h, WellBuilt(h), NEW d \in DOMAIN h
  PROVE  /\ h[d].kids \in Seq(DOMAIN h) /\ Len(h[d].kids) \in Nat
         /\ DOMAIN h[d].kids = 1 .. Len(h[d].kids)
         /\ \A k \in DOMAIN h[d].kids : h[d].kids[k] \in DOMAIN h
<1>1. h[d].kids \in Seq(DOMAIN h)
  BY DEF WellBuilt
<1> QED
  BY <1>1, ElementOfSeq

(* Induction from the objects that hold none upwards.                      *)
LEMMA HeapInduction ==
  ASSUME NEW h, WellBuilt(h), Grounded(h), NEW P \in SUBSET DOMAIN h,
         \A d \in DOMAIN h : (\A k \in DOMAIN h[d].kids : h[d].kids[k] \in P) => d \in P
  PROVE  P = DOMAIN h
<1> DEFINE C == DOMAIN h \ P
<1>1. SUFFICES ASSUME NEW r \in C PROVE FALSE
  OBVIOUS
<1>2. Endless(h, C)
  <2>1. ASSUME NEW d \in C
        PROVE  h[d].type \in CompositeTypes /\ \E k \in DOMAIN h[d].kids : h[d].kids[k] \in C
    <3>1. PICK k \in DOMAIN h[d].kids : h[d].kids[k] \notin P
      OBVIOUS
    <3>2. h[d].kids[k] \in C
      BY <3>1, KidsTyped
    <3>3. h[d].type \in CompositeTypes
      BY <3>1 DEF Grounded
    <3> QED
      BY <3>2, <3>3
  <2> QED
    BY <2>1 DEF Endless
<1>3. Cyclic(h, r)
  BY <1>1, <1>2 DEF Cyclic
<1> QED
  BY <1>1, <1>3 DEF Grounded

(* A function of the objects of such a heap may be defined by recursion on *)
(* what they hold: b[d] makes the value of d from those of its elements.   *)
ValuesOf(f, h, d) == [k \in DOMAIN h[d].kids |-> f[h[d].kids[k]]]

ClosedIn(h, C) ==
  C \subseteq DOMAIN h /\ \A d \in C : \A k \in DOMAIN h[d].kids : h[d].kids[k] \in C

(* The values of the elements, in their order.                             *)
LEMMA ValuesTyped ==
  ASSUME NEW h, WellBuilt(h), NEW C, ClosedIn(h, C), NEW S, NEW f \in [C -> S],
         NEW d \in DOMAIN h, \A k \in DOMAIN h[d].kids : h[d].kids[k] \in C
  PROVE  ValuesOf(f, h, d) \in Seq(S)
<1>1. Len(h[d].kids) \in Nat /\ DOMAIN h[d].kids = 1 .. Len(h[d].kids)
  BY KidsTyped
<1>2. \A k \in 1 .. Len(h[d].kids) : f[h[d].kids[k]] \in S
  BY <1>1
<1>3. ValuesOf(f, h, d) = [k \in 1 .. Len(h[d].kids) |-> f[h[d].kids[k]]]
  BY <1>1, Zenon DEF ValuesOf
<1> QED
  BY <1>1, <1>2, <1>3

(* Only the values of the elements matter.                                 *)
LEMMA ValuesAgree ==
  ASSUME NEW h, NEW d, NEW f, NEW g,
         \A k \in DOMAIN h[d].kids : f[h[d].kids[k]] = g[h[d].kids[k]]
  PROVE  ValuesOf(f, h, d) = ValuesOf(g, h, d)
BY DEF ValuesOf

(* A function can be defined on a heap from the values of the elements.    *)
LEMMA HeapRecursion ==
  ASSUME NEW h, WellBuilt(h), Grounded(h), NEW S, NEW b \in [DOMAIN h -> [Seq(S) -> S]]
  PROVE  \E f \in [DOMAIN h -> S] : \A d \in DOMAIN h : f[d] = b[d][ValuesOf(f, h, d)]
<1> DEFINE D == DOMAIN h
           Sol(C, f) == /\ ClosedIn(h, C) /\ f \in [C -> S]
                        /\ \A d \in C : f[d] = b[d][ValuesOf(f, h, d)]
<1>1. ASSUME NEW C1, NEW f1, Sol(C1, f1), NEW C2, NEW f2, Sol(C2, f2),
             NEW x \in C1 \cap C2
      PROVE  f1[x] = f2[x]
  <2> DEFINE P == {d \in D : d \in C1 \cap C2 => f1[d] = f2[d]}
  <2>1. ASSUME NEW d \in D, \A k \in DOMAIN h[d].kids : h[d].kids[k] \in P
        PROVE  d \in P
    <3>1. SUFFICES ASSUME d \in C1 \cap C2 PROVE f1[d] = f2[d]
      OBVIOUS
    <3>2. \A k \in DOMAIN h[d].kids : h[d].kids[k] \in C1 \cap C2
      BY <1>1, <3>1 DEF ClosedIn
    <3>3. ValuesOf(f1, h, d) = ValuesOf(f2, h, d)
      BY <2>1, <3>2, ValuesAgree
    <3> QED
      BY <1>1, <3>1, <3>3
  <2>2. P \in SUBSET D
    OBVIOUS
  <2> HIDE DEF P
  <2>3. P = D
    BY <2>1, <2>2, HeapInduction
  <2>4. x \in P
    BY <1>1, <2>3 DEF ClosedIn
  <2> QED
    BY <1>1, <2>4 DEF P
<1> DEFINE Has(x, v) == \E C \in SUBSET D : \E f \in [C -> S] : Sol(C, f) /\ x \in C /\ f[x] = v
           P == {x \in D : \E C \in SUBSET D : \E f \in [C -> S] : Sol(C, f) /\ x \in C}
           g == [x \in P |-> CHOOSE v \in S : Has(x, v)]
<1>2. ASSUME NEW C, NEW f, Sol(C, f), NEW x \in C
      PROVE  x \in P /\ g[x] = f[x] /\ f[x] \in S
  <2>1. C \in SUBSET D /\ f \in [C -> S] /\ x \in D
    BY <1>2 DEF ClosedIn
  <2>2. f[x] \in S /\ Has(x, f[x]) /\ x \in P
    BY <1>2, <2>1
  <2>3. ASSUME NEW v \in S, Has(x, v) PROVE v = f[x]
    <3>1. PICK C2, f2 : Sol(C2, f2) /\ x \in C2 /\ f2[x] = v
      BY <2>3
    <3> HIDE DEF Sol
    <3> QED
      BY <1>1, <1>2, <3>1
  <2>4. g[x] = CHOOSE v \in S : Has(x, v)
    BY <2>2
  <2> HIDE DEF Has, P, g, Sol
  <2>5. (CHOOSE v \in S : Has(x, v)) = f[x]
    BY <2>2, <2>3
  <2> QED
    BY <2>2, <2>4, <2>5
<1>3. ASSUME NEW x \in P
      PROVE  \E C, f : Sol(C, f) /\ x \in C
  BY <1>3
<1>4. P \subseteq D /\ DOMAIN g = P
  OBVIOUS
<1>5. g \in [P -> S]
  <2>1. ASSUME NEW x \in P PROVE g[x] \in S
    <3>1. PICK C, f : Sol(C, f) /\ x \in C
      BY <1>3
    <3> HIDE DEF Sol, P, g
    <3> QED
      BY <1>2, <3>1
  <2>2. g = [x \in P |-> g[x]]
    OBVIOUS
  <2> HIDE DEF P, g
  <2> QED
    BY <2>1, <2>2
<1>6. ASSUME NEW x \in P
      PROVE  /\ \A k \in DOMAIN h[x].kids : h[x].kids[k] \in P
             /\ g[x] = b[x][ValuesOf(g, h, x)]
  <2>1. PICK C, f : Sol(C, f) /\ x \in C
    BY <1>3
  <2>2. \A k \in DOMAIN h[x].kids : h[x].kids[k] \in C
    BY <2>1 DEF ClosedIn
  <2>3. f[x] = b[x][ValuesOf(f, h, x)]
    BY <2>1
  <2> HIDE DEF Sol, P, g
  <2>4. \A k \in DOMAIN h[x].kids : h[x].kids[k] \in P /\ g[h[x].kids[k]] = f[h[x].kids[k]]
    BY <1>2, <2>1, <2>2
  <2>5. ValuesOf(g, h, x) = ValuesOf(f, h, x)
    BY <2>4, ValuesAgree
  <2> QED
    BY <1>2, <2>1, <2>3, <2>4, <2>5
<1>7. ClosedIn(h, P)
  <2> HIDE DEF P, g
  <2> QED
    BY <1>4, <1>6 DEF ClosedIn
<1>8. ASSUME NEW d \in D, \A k \in DOMAIN h[d].kids : h[d].kids[k] \in P
      PROVE  d \in P
  <2> DEFINE C == P \cup {d}
             v == b[d][ValuesOf(g, h, d)]
             f == [x \in C |-> IF x = d THEN v ELSE g[x]]
  <2>1. SUFFICES ASSUME d \notin P PROVE FALSE
    OBVIOUS
  <2>2. v \in S
    <3>1. ValuesOf(g, h, d) \in Seq(S)
      <4> HIDE DEF P, g
      <4> QED
        BY <1>5, <1>7, <1>8, ValuesTyped
    <3> HIDE DEF P, g
    <3> QED
      BY <3>1
  <2> HIDE DEF v, P, g, Sol
  <2>3. ClosedIn(h, C)
    BY <1>7, <1>8 DEF ClosedIn
  <2>4. f \in [C -> S]
    BY <1>5, <2>2
  <2>5. ASSUME NEW x \in C PROVE f[x] = b[x][ValuesOf(f, h, x)]
    <3>1. ASSUME NEW k \in DOMAIN h[x].kids PROVE f[h[x].kids[k]] = g[h[x].kids[k]]
      <4>1. h[x].kids[k] \in P
        BY <1>6, <1>8
      <4>2. h[x].kids[k] # d
        BY <2>1, <4>1
      <4> QED
        BY <4>1, <4>2
    <3> HIDE DEF f
    <3>2. ValuesOf(f, h, x) = ValuesOf(g, h, x)
      BY <3>1, ValuesAgree
    <3>3. CASE x = d
      <4>1. f[x] = v
        BY <3>3 DEF f
      <4> QED
        BY <3>2, <3>3, <4>1 DEF v
    <3>4. CASE x # d
      <4>1. f[x] = g[x] /\ x \in P
        BY <3>4 DEF f
      <4> QED
        BY <1>6, <3>2, <4>1
    <3> QED
      BY <3>3, <3>4
  <2> HIDE DEF f
  <2>6. Sol(C, f)
    BY <2>3, <2>4, <2>5 DEF Sol
  <2>7. d \in C
    OBVIOUS
  <2> HIDE DEF C
  <2> QED
    BY <1>2, <2>1, <2>6, <2>7
<1>9. P = D
  <2>1. P \in SUBSET D
    OBVIOUS
  <2> HIDE DEF P, g, Sol
  <2> QED
    BY <1>8, <2>1, HeapInduction
<1> HIDE DEF P, g, Sol
<1> QED
  BY <1>5, <1>6, <1>9

-----------------------------------------------------------------------------
(* A number that is negative has no group.                                 *)
LEMMA VarientEncodingInt ==
  ASSUME NEW v \in Int
  PROVE  VarientEncoding(v) \in Seq(Byte)
<1>1. CASE v \in Nat
  BY <1>1, VarientEncodingType
<1>2. CASE v < 0
  <2> DEFINE S == {k \in 0 .. MaxGroups - 1 : Weight[k] <= v}
  <2>1. ASSUME NEW k \in S PROVE FALSE
    <3>1. Weight[k] \in Nat
      BY RadixTyped
    <3> QED
      BY <1>2, <3>1
  <2>2. S = {}
    BY <2>1
  <2>3. Cardinality(S) = 0
    BY <2>2, FS_EmptySet
  <2>4. NumGroups(v) = 0
    BY <2>3, Zenon DEF NumGroups
  <2>5. VarientEncoding(v) = <<>>
    BY <2>4 DEF VarientEncoding
  <2> QED
    BY <2>5
<1> QED
  BY <1>1, <1>2

(* The parts of what is written for an object.                             *)
CountBytes(x) == IF x.type = "MAP" THEN <<>> ELSE VarientEncoding(Len(x.kids))
NameBytes(x)  == [k \in DOMAIN x.names |-> VarientEncoding(Len(x.names[k])) \o x.names[k]]
SizeBytes(children) == [k \in DOMAIN children |-> VarientEncoding(Len(children[k]))]

(* What the format says of a number,                                       *)
LEMMA NumberBytes ==
  ASSUME NEW x, x.type \in NumberTypes, x.value # <<>>, NEW c
  PROVE  ObjectBytes(x, c) = TypeEncoding(x) \o VarientEncoding(x.value[1])
<1>1. HasTypeCode(x)
  BY DEF HasTypeCode, TypeCode, NumberTypes
<1> QED
  BY <1>1, Zenon DEF ObjectBytes

(* of a text that is none,                                                 *)
LEMMA NoNumberBytes ==
  ASSUME NEW x, x.type \in NumberTypes, x.value = <<>>, NEW c
  PROVE  ObjectBytes(x, c) = TypeEncoding(x) \o <<>>
<1>1. HasTypeCode(x)
  BY DEF HasTypeCode, TypeCode, NumberTypes
<1> QED
  BY <1>1, Zenon DEF ObjectBytes

(* of a STRING,                                                            *)
LEMMA StringBytes ==
  ASSUME NEW x, x.type = "STRING", NEW c
  PROVE  ObjectBytes(x, c) = TypeEncoding(x) \o (VarientEncoding(Len(x.value)) \o x.value)
<1>1. x.type \notin NumberTypes /\ HasTypeCode(x)
  BY DEF NumberTypes, HasTypeCode, TypeCode
<1> QED
  BY <1>1, Zenon DEF ObjectBytes

(* and of a STRUCT, MAP or ARRAY.                                          *)
LEMMA CompositeBytes ==
  ASSUME NEW x, x.type \in CompositeTypes, NEW c
  PROVE  ObjectBytes(x, c) =
           TypeEncoding(x) \o (CountBytes(x) \o FlattenSeq(NameBytes(x))
                                 \o FlattenSeq(SizeBytes(c)) \o FlattenSeq(c))
<1>1. x.type \notin NumberTypes /\ x.type # "STRING" /\ HasTypeCode(x)
  BY DEF CompositeTypes, NumberTypes, HasTypeCode, TypeCode
<1> QED
  BY <1>1, Zenon DEF ObjectBytes, CountBytes, NameBytes, SizeBytes

(* An object of a type without a code has no bytes.                        *)
LEMMA CodelessBytes ==
  ASSUME NEW x, ~ HasTypeCode(x), NEW c
  PROVE  ObjectBytes(x, c) = <<>>
BY Zenon DEF ObjectBytes

(* The count is bytes.                                                     *)
LEMMA CountBytesType ==
  ASSUME NEW x \in Data
  PROVE  CountBytes(x) \in Seq(Byte)
<1>1. Len(x.kids) \in Nat
  BY DEF Data
<1>2. VarientEncoding(Len(x.kids)) \in Seq(Byte) /\ <<>> \in Seq(Byte)
  BY <1>1, VarientEncodingType
<1>3. CountBytes(x) = <<>> \/ CountBytes(x) = VarientEncoding(Len(x.kids))
  BY Zenon DEF CountBytes
<1> QED
  BY <1>2, <1>3, Zenon

(* Below what an int holds, ToInt changes nothing.                         *)
LEMMA ToIntKeeps ==
  ASSUME NEW v \in Int
  PROVE  /\ ToInt(v) \in Int
         /\ v >= 0 - IntMax - 1 /\ v <= IntMax => ToInt(v) = v
<1>1. PICK m : m = 2 * IntMax + 2
  OBVIOUS
<1>2. m \in Nat /\ m > 0 /\ IntMax \in Nat
  BY <1>1, IntAssumption
<1>3. (v + IntMax + 1) % m \in 0 .. m - 1
  BY <1>2
<1>4. ASSUME v >= 0 - IntMax - 1, v <= IntMax PROVE (v + IntMax + 1) % m = v + IntMax + 1
  <2>1. PICK u : u = v + IntMax + 1
    OBVIOUS
  <2>2. u \in 0 .. m - 1
    BY <1>1, <1>2, <1>4, <2>1
  <2>3. u = m * 0 + u
    BY <1>2, <2>2
  <2> QED
    BY <1>2, <2>1, <2>2, <2>3, DivUnique
<1>5. ToInt(v) = ((v + IntMax + 1) % m) - IntMax - 1
  BY <1>1 DEF ToInt
<1> QED
  BY <1>2, <1>3, <1>4, <1>5

(* Each field name is bytes.                                               *)
LEMMA NameBytesType ==
  ASSUME NEW x \in Data
  PROVE  NameBytes(x) \in Seq(Seq(Byte)) /\ Len(NameBytes(x)) = Len(x.names)
<1>1. x.names \in Seq(Seq(Byte))
  BY DEF Data
<1>2. ASSUME NEW k \in 1 .. Len(x.names)
      PROVE  VarientEncoding(Len(x.names[k])) \o x.names[k] \in Seq(Byte)
  <2>1. x.names[k] \in Seq(Byte)
    BY <1>1, ElementOfSeq
  <2>2. VarientEncoding(Len(x.names[k])) \in Seq(Byte)
    <3>1. Len(x.names[k]) \in Nat
      BY <2>1
    <3> QED
      BY <3>1, VarientEncodingType
  <2> QED
    BY <2>1, <2>2, ConcatProperties
<1>3. NameBytes(x) = [k \in 1 .. Len(x.names) |-> VarientEncoding(Len(x.names[k])) \o x.names[k]]
  <2>1. DOMAIN x.names = 1 .. Len(x.names)
    BY <1>1
  <2> QED
    BY <2>1, Zenon DEF NameBytes
<1>4. Len(x.names) \in Nat
  BY <1>1
<1> QED
  BY <1>2, <1>3, <1>4

(* Each size is bytes.                                                     *)
LEMMA SizeBytesType ==
  ASSUME NEW S, NEW c \in Seq(Seq(S))
  PROVE  SizeBytes(c) \in Seq(Seq(Byte)) /\ Len(SizeBytes(c)) = Len(c)
<1>2. ASSUME NEW k \in 1 .. Len(c) PROVE VarientEncoding(Len(c[k])) \in Seq(Byte)
  <2>1. c[k] \in Seq(S)
    BY ElementOfSeq
  <2>2. Len(c[k]) \in Nat
    BY <2>1
  <2> QED
    BY <2>2, VarientEncodingType
<1>3. SizeBytes(c) = [k \in 1 .. Len(c) |-> VarientEncoding(Len(c[k]))]
  <2>1. DOMAIN c = 1 .. Len(c)
    OBVIOUS
  <2> QED
    BY <2>1, Zenon DEF SizeBytes
<1>4. Len(c) \in Nat
  OBVIOUS
<1> QED
  BY <1>2, <1>3, <1>4

(* An object of bytes is bytes.                                            *)
LEMMA ObjectBytesType ==
  ASSUME NEW x \in Data, x.type = "STRING" => x.value \in Seq(Byte),
         NEW c \in Seq(Seq(Byte))
  PROVE  ObjectBytes(x, c) \in Seq(Byte)
<1>1. HasTypeCode(x) => TypeEncoding(x) \in Seq(Byte)
  BY TypeEncodingType
<1>type. x.type \in DataTypes
  BY DEF Data
<1>kind. ASSUME x.type \in NumberTypes \/ x.type = "STRING" \/ x.type \in CompositeTypes
         PROVE  HasTypeCode(x)
  BY <1>type, <1>kind, Kinds
<1>2. CASE x.type \in NumberTypes
  <2>1. x.value \in Seq(Int)
    BY DEF Data
  <2>2. CASE x.value = <<>>
    <3>1. <<>> \in Seq(Byte)
      OBVIOUS
    <3> QED
      BY <1>1, <1>kind, <1>2, <2>2, <3>1, NoNumberBytes, ConcatProperties
  <2>3. CASE x.value # <<>>
    <3>1. x.value[1] \in Int
      BY <2>1, <2>3
    <3>2. VarientEncoding(x.value[1]) \in Seq(Byte)
      BY <3>1, VarientEncodingInt
    <3>3. TypeEncoding(x) \o VarientEncoding(x.value[1]) \in Seq(Byte)
      BY <1>1, <1>kind, <1>2, <3>2, ConcatProperties
    <3>4. ObjectBytes(x, c) = TypeEncoding(x) \o VarientEncoding(x.value[1])
      BY <1>2, <2>3, NumberBytes
    <3> QED
      BY <3>3, <3>4, Zenon
  <2> QED
    BY <2>2, <2>3
<1>3. CASE x.type = "STRING"
  <2>1. x.value \in Seq(Byte) /\ Len(x.value) \in Nat
    BY <1>3
  <2>2. VarientEncoding(Len(x.value)) \in Seq(Byte)
    BY <2>1, VarientEncodingType
  <2>3. VarientEncoding(Len(x.value)) \o x.value \in Seq(Byte)
    BY <2>1, <2>2, ConcatProperties
  <2>4. TypeEncoding(x) \o (VarientEncoding(Len(x.value)) \o x.value) \in Seq(Byte)
    BY <1>1, <1>kind, <1>3, <2>3, ConcatProperties
  <2> QED
    BY <1>3, <2>4, StringBytes, Zenon
<1>4. CASE x.type \in CompositeTypes
  <2>1. /\ CountBytes(x) \in Seq(Byte) /\ FlattenSeq(NameBytes(x)) \in Seq(Byte)
        /\ FlattenSeq(SizeBytes(c)) \in Seq(Byte) /\ FlattenSeq(c) \in Seq(Byte)
    BY CountBytesType, NameBytesType, SizeBytesType, FlattenType
  <2>2. CountBytes(x) \o FlattenSeq(NameBytes(x)) \in Seq(Byte)
    BY <2>1, ConcatProperties
  <2>3. CountBytes(x) \o FlattenSeq(NameBytes(x)) \o FlattenSeq(SizeBytes(c)) \in Seq(Byte)
    BY <2>1, <2>2, ConcatProperties
  <2>4. CountBytes(x) \o FlattenSeq(NameBytes(x)) \o FlattenSeq(SizeBytes(c))
          \o FlattenSeq(c) \in Seq(Byte)
    BY <2>1, <2>3, ConcatProperties
  <2>5. TypeEncoding(x) \o (CountBytes(x) \o FlattenSeq(NameBytes(x))
                              \o FlattenSeq(SizeBytes(c)) \o FlattenSeq(c)) \in Seq(Byte)
    BY <1>1, <1>kind, <1>4, <2>4, ConcatProperties
  <2> QED
    BY <1>4, <2>5, CompositeBytes, Zenon
<1>5. CASE ~ HasTypeCode(x)
  <2>1. ObjectBytes(x, c) = <<>>
    BY <1>5, CodelessBytes, Zenon
  <2>2. <<>> \in Seq(Byte)
    OBVIOUS
  <2> QED
    BY <2>1, <2>2, Zenon
<1>6. x.type \in NumberTypes \/ x.type = "STRING" \/ x.type \in CompositeTypes \/ ~ HasTypeCode(x)
  BY <1>type, Kinds
<1> QED
  BY <1>2, <1>3, <1>4, <1>5, <1>6, Zenon

(* The bytes of an object are made from those of what it holds.            *)
LEMMA WireOfKids ==
  ASSUME NEW h, WellBuilt(h), Grounded(h), NEW d \in DOMAIN h
  PROVE  /\ Wire(h, d) \in Seq(Byte)
         /\ Wire(h, d) = ObjectBytes(h[d], [k \in DOMAIN h[d].kids |-> Wire(h, h[d].kids[k])])
<1> DEFINE D == DOMAIN h
           E(g) == g = [x \in D |-> ObjectBytes(h[x], [k \in DOMAIN h[x].kids |-> g[h[x].kids[k]]])]
           w == CHOOSE g : E(g)
<1>1. \A x \in D : h[x] \in Data /\ (h[x].type = "STRING" => h[x].value \in Seq(Byte))
  BY DEF WellBuilt
<1>2. ASSUME NEW x \in D, NEW c \in Seq(Seq(Byte)) PROVE ObjectBytes(h[x], c) \in Seq(Byte)
  BY <1>1, ObjectBytesType
<1>3. \E g : E(g)
  <2> DEFINE b == [x \in D |-> [c \in Seq(Seq(Byte)) |-> ObjectBytes(h[x], c)]]
  <2>1. b \in [D -> [Seq(Seq(Byte)) -> Seq(Byte)]]
    BY <1>2
  <2>2. PICK f \in [D -> Seq(Byte)] : \A x \in D : f[x] = b[x][ValuesOf(f, h, x)]
    <3> HIDE DEF b
    <3> QED
      BY <2>1, HeapRecursion
  <2>3. ASSUME NEW x \in D
        PROVE  f[x] = ObjectBytes(h[x], [k \in DOMAIN h[x].kids |-> f[h[x].kids[k]]])
    <3>1. ClosedIn(h, D) /\ \A k \in DOMAIN h[x].kids : h[x].kids[k] \in D
      BY KidsTyped DEF ClosedIn
    <3>2. ValuesOf(f, h, x) \in Seq(Seq(Byte))
      BY <3>1, ValuesTyped
    <3>3. f[x] = ObjectBytes(h[x], ValuesOf(f, h, x))
      BY <2>2, <3>2
    <3> QED
      BY <3>3, Zenon DEF ValuesOf
  <2>4. f = [x \in D |-> ObjectBytes(h[x], [k \in DOMAIN h[x].kids |-> f[h[x].kids[k]]])]
    <3>1. f = [x \in D |-> f[x]]
      OBVIOUS
    <3> QED
      BY <2>3, <3>1, Zenon
  <2> QED
    BY <2>4
<1>4. \A x \in D : Wire(h, x) = w[x]
  <2>1. ASSUME NEW x \in D PROVE Wire(h, x) = w[x]
    BY Zenon DEF Wire
  <2> QED
    BY <2>1
<1> HIDE DEF E
<1>5. E(w)
  BY <1>3, Zenon
<1> HIDE DEF w
<1>6. \A x \in D : w[x] = ObjectBytes(h[x], [k \in DOMAIN h[x].kids |-> w[h[x].kids[k]]])
  BY <1>5, Zenon DEF E
<1> DEFINE P == {x \in D : w[x] \in Seq(Byte)}
<1>7. P = D
  <2>1. ASSUME NEW x \in D, \A k \in DOMAIN h[x].kids : h[x].kids[k] \in P PROVE x \in P
    <3>1. [k \in DOMAIN h[x].kids |-> w[h[x].kids[k]]] \in Seq(Seq(Byte))
      <4>1. Len(h[x].kids) \in Nat /\ DOMAIN h[x].kids = 1 .. Len(h[x].kids)
        BY KidsTyped
      <4>2. \A k \in 1 .. Len(h[x].kids) : w[h[x].kids[k]] \in Seq(Byte)
        BY <2>1, <4>1
      <4> QED
        BY <4>1, <4>2
    <3>2. w[x] \in Seq(Byte)
      BY <1>2, <1>6, <3>1
    <3> QED
      BY <3>2
  <2>2. P \in SUBSET D
    OBVIOUS
  <2> HIDE DEF P
  <2> QED
    BY <2>1, <2>2, HeapInduction
<1>8. \A k \in DOMAIN h[d].kids : Wire(h, h[d].kids[k]) = w[h[d].kids[k]]
  BY <1>4, KidsTyped
<1>9. [k \in DOMAIN h[d].kids |-> Wire(h, h[d].kids[k])]
        = [k \in DOMAIN h[d].kids |-> w[h[d].kids[k]]]
  BY <1>8
<1>10. w[d] \in Seq(Byte)
  BY <1>7
<1> HIDE DEF P
<1> QED
  BY <1>4, <1>6, <1>9, <1>10

(* The objects below one are itself and those below what it holds.         *)
LEMMA BelowOfKids ==
  ASSUME NEW h, WellBuilt(h), Grounded(h), NEW d \in DOMAIN h
  PROVE  /\ Below(h, d) \subseteq DOMAIN h
         /\ Below(h, d) = {d} \cup UNION {Below(h, h[d].kids[k]) : k \in DOMAIN h[d].kids}
<1> DEFINE D == DOMAIN h
           Step(g, x) == {x} \cup UNION {g[h[x].kids[k]] : k \in DOMAIN h[x].kids}
           E(g) == g = [x \in D |-> Step(g, x)]
           w == CHOOSE g : E(g)
<1>1. \E g : E(g)
  <2> DEFINE b == [x \in D |-> [c \in Seq(SUBSET D) |-> {x} \cup UNION {c[k] : k \in DOMAIN c}]]
  <2>1. ASSUME NEW x \in D, NEW c \in Seq(SUBSET D)
        PROVE  {x} \cup UNION {c[k] : k \in DOMAIN c} \in SUBSET D
    <3>1. \A k \in DOMAIN c : c[k] \in SUBSET D
      BY ElementOfSeq
    <3> QED
      BY <3>1
  <2>2. b \in [D -> [Seq(SUBSET D) -> SUBSET D]]
    BY <2>1
  <2> HIDE DEF b
  <2>3. PICK f \in [D -> SUBSET D] : \A x \in D : f[x] = b[x][ValuesOf(f, h, x)]
    <3>1. PICK S : S = SUBSET D
      OBVIOUS
    <3>2. b \in [DOMAIN h -> [Seq(S) -> S]]
      BY <2>2, <3>1
    <3>3. \E f \in [DOMAIN h -> S] : \A x \in DOMAIN h : f[x] = b[x][ValuesOf(f, h, x)]
      BY <3>2, HeapRecursion
    <3> QED
      BY <3>1, <3>3
  <2>4. ASSUME NEW x \in D PROVE f[x] = Step(f, x)
    <3>1. ClosedIn(h, D) /\ \A k \in DOMAIN h[x].kids : h[x].kids[k] \in D
      BY KidsTyped DEF ClosedIn
    <3>2. PICK c : c = ValuesOf(f, h, x)
      OBVIOUS
    <3>3. c \in Seq(SUBSET D)
      BY <3>1, <3>2, ValuesTyped
    <3>4. f[x] = {x} \cup UNION {c[k] : k \in DOMAIN c}
      <4>1. f[x] = b[x][c]
        BY <2>3, <3>2
      <4>2. b[x][c] = {x} \cup UNION {c[k] : k \in DOMAIN c}
        BY <3>3, Zenon DEF b
      <4> QED
        BY <4>1, <4>2
    <3>5. DOMAIN c = DOMAIN h[x].kids /\ \A k \in DOMAIN h[x].kids : c[k] = f[h[x].kids[k]]
      BY <3>2 DEF ValuesOf
    <3>6. {c[k] : k \in DOMAIN c} = {f[h[x].kids[k]] : k \in DOMAIN h[x].kids}
      BY <3>5
    <3> QED
      BY <3>4, <3>6
  <2>5. f = [x \in D |-> Step(f, x)]
    <3>1. f = [x \in D |-> f[x]]
      OBVIOUS
    <3> HIDE DEF Step
    <3> QED
      BY <2>4, <3>1, Zenon
  <2> QED
    BY <2>5
<1>2. \A x \in D : Below(h, x) = w[x]
  <2>1. ASSUME NEW x \in D PROVE Below(h, x) = w[x]
    BY Zenon DEF Below
  <2> QED
    BY <2>1
<1> HIDE DEF E
<1>3. E(w)
  BY <1>1, Zenon
<1> HIDE DEF w
<1>4. \A x \in D : w[x] = Step(w, x)
  <2> HIDE DEF Step
  <2> QED
    BY <1>3, Zenon DEF E
<1> DEFINE P == {x \in D : w[x] \subseteq D}
<1>5. P = D
  <2>1. ASSUME NEW x \in D, \A k \in DOMAIN h[x].kids : h[x].kids[k] \in P PROVE x \in P
    <3>1. w[x] = Step(w, x)
      BY <1>4
    <3>2. w[x] \subseteq D
      BY <2>1, <3>1
    <3> QED
      BY <3>2
  <2>2. P \in SUBSET D
    OBVIOUS
  <2> HIDE DEF P
  <2> QED
    BY <2>1, <2>2, HeapInduction
<1>6. \A k \in DOMAIN h[d].kids : Below(h, h[d].kids[k]) = w[h[d].kids[k]]
  BY <1>2, KidsTyped
<1>7. w[d] = {d} \cup UNION {Below(h, h[d].kids[k]) : k \in DOMAIN h[d].kids}
  BY <1>4, <1>6
<1>8. w[d] \subseteq D
  BY <1>5
<1> QED
  BY <1>2, <1>7, <1>8

(* What an object below holds is below too.                                *)
LEMMA BelowClosed ==
  ASSUME NEW h, WellBuilt(h), Grounded(h), NEW r \in DOMAIN h
  PROVE  r \in Below(h, r) /\ ClosedIn(h, Below(h, r))
<1> DEFINE P == {x \in DOMAIN h : ClosedIn(h, Below(h, x))}
<1>1. ASSUME NEW x \in DOMAIN h, \A k \in DOMAIN h[x].kids : h[x].kids[k] \in P PROVE x \in P
  <2>1. /\ Below(h, x) \subseteq DOMAIN h
        /\ Below(h, x) = {x} \cup UNION {Below(h, h[x].kids[k]) : k \in DOMAIN h[x].kids}
    BY BelowOfKids
  <2>2. ASSUME NEW y \in Below(h, x), NEW k \in DOMAIN h[y].kids
        PROVE  h[y].kids[k] \in Below(h, x)
    <3>1. CASE y = x
      <4>1. h[x].kids[k] \in DOMAIN h
        BY <3>1, KidsTyped
      <4>2. h[x].kids[k] \in Below(h, h[x].kids[k])
        BY <4>1, BelowOfKids
      <4> QED
        BY <2>1, <2>2, <3>1, <4>2
    <3>2. CASE y # x
      <4>1. PICK j \in DOMAIN h[x].kids : y \in Below(h, h[x].kids[j])
        BY <2>1, <3>2
      <4>2. h[y].kids[k] \in Below(h, h[x].kids[j])
        BY <1>1, <2>2, <4>1 DEF ClosedIn
      <4> QED
        BY <2>1, <4>2
    <3> QED
      BY <3>1, <3>2
  <2> QED
    BY <2>1, <2>2 DEF ClosedIn
<1>2. P \in SUBSET DOMAIN h
  OBVIOUS
<1> HIDE DEF P
<1>3. P = DOMAIN h
  BY <1>1, <1>2, HeapInduction
<1>4. r \in Below(h, r)
  BY BelowOfKids
<1> QED
  BY <1>3, <1>4 DEF P

(* The objects below are in every set that holds the root and is closed.   *)
LEMMA BelowLeast ==
  ASSUME NEW h, WellBuilt(h), Grounded(h), NEW C, ClosedIn(h, C), NEW r \in C
  PROVE  Below(h, r) \subseteq C
<1> DEFINE P == {x \in DOMAIN h : x \in C => Below(h, x) \subseteq C}
<1>1. ASSUME NEW x \in DOMAIN h, \A k \in DOMAIN h[x].kids : h[x].kids[k] \in P PROVE x \in P
  <2>1. SUFFICES ASSUME x \in C PROVE Below(h, x) \subseteq C
    OBVIOUS
  <2>2. Below(h, x) = {x} \cup UNION {Below(h, h[x].kids[k]) : k \in DOMAIN h[x].kids}
    BY BelowOfKids
  <2>3. \A k \in DOMAIN h[x].kids : Below(h, h[x].kids[k]) \subseteq C
    BY <1>1, <2>1 DEF ClosedIn
  <2> QED
    BY <2>1, <2>2, <2>3
<1>2. P \in SUBSET DOMAIN h
  OBVIOUS
<1> HIDE DEF P
<1>3. P = DOMAIN h
  BY <1>1, <1>2, HeapInduction
<1> QED
  BY <1>3 DEF P, ClosedIn

(* Parts of a first and parts of a second half.                            *)
LEMMA FlattenConcat ==
  ASSUME NEW S, NEW a \in Seq(Seq(S)), NEW b \in Seq(Seq(S))
  PROVE  /\ a \o b \in Seq(Seq(S)) /\ FlattenSeq(a \o b) \in Seq(S)
         /\ FlattenSeq(a) \in Seq(S) /\ FlattenSeq(b) \in Seq(S)
         /\ FlattenSeq(a \o b) = FlattenSeq(a) \o FlattenSeq(b)
<1>1. PICK c, m : c = a \o b /\ m = Len(a)
  OBVIOUS
<1>2. /\ c \in Seq(Seq(S)) /\ m \in Nat /\ Len(b) \in Nat /\ Len(c) = m + Len(b)
      /\ \A i \in 1 .. m : c[i] = a[i]
      /\ \A j \in 1 .. Len(b) : c[m + j] = b[j]
  <2>1. a \o b \in Seq(Seq(S)) /\ Len(a \o b) = Len(a) + Len(b)
        /\ \A i \in 1 .. Len(a) + Len(b) :
             (a \o b)[i] = IF i <= Len(a) THEN a[i] ELSE b[i - Len(a)]
    BY ConcatProperties
  <2>2. m \in Nat /\ Len(b) \in Nat
    BY <1>1
  <2>3. ASSUME NEW j \in 1 .. Len(b) PROVE c[m + j] = b[j]
    <3>1. m + j \in 1 .. m + Len(b) /\ ~ (m + j <= m) /\ (m + j) - m = j
      BY <2>2
    <3> QED
      BY <1>1, <2>1, <3>1
  <2>4. \A i \in 1 .. m : i \in 1 .. m + Len(b) /\ i <= m
    BY <2>2
  <2> QED
    BY <1>1, <2>1, <2>2, <2>3, <2>4
<1> DEFINE T == {n \in Nat : n <= Len(b) => Joined(c, m + n) = Joined(a, m) \o Joined(b, n)}
<1>3. Joined(a, m) \in Seq(S)
  <2>1. \A k \in 1 .. m : a[k] \in Seq(S)
    BY <1>1, ElementOfSeq
  <2> QED
    BY <1>2, <2>1, JoinedType
<1>4. 0 \in T
  <2>1. Joined(c, m) = Joined(a, m)
    BY <1>2, JoinedAgree
  <2>2. Joined(b, 0) = <<>> /\ Joined(a, m) \o <<>> = Joined(a, m) /\ m + 0 = m
    BY <1>2, <1>3, JoinedNone, ConcatEmptySeq
  <2> QED
    BY <2>1, <2>2
<1>5. ASSUME NEW n \in T PROVE n + 1 \in T
  <2>1. SUFFICES ASSUME n + 1 <= Len(b)
                 PROVE  Joined(c, m + (n + 1)) = Joined(a, m) \o Joined(b, n + 1)
    OBVIOUS
  <2>2. PICK l : l = m + n
    OBVIOUS
  <2>3. /\ n \in Nat /\ l \in Nat /\ m + (n + 1) = l + 1 /\ n + 1 \in 1 .. Len(b)
        /\ Joined(c, l) = Joined(a, m) \o Joined(b, n)
    <3>1. n \in Nat /\ (n <= Len(b) => Joined(c, m + n) = Joined(a, m) \o Joined(b, n))
      BY <1>5, Zenon
    <3>2. m \in Nat /\ Len(b) \in Nat
      BY <1>2
    <3>3. n <= Len(b) /\ l \in Nat /\ m + (n + 1) = l + 1 /\ n + 1 \in 1 .. Len(b)
      BY <2>1, <2>2, <3>1, <3>2
    <3> QED
      BY <2>2, <3>1, <3>3
  <2>4. /\ \A k \in 1 .. l + 1 : c[k] \in Seq(S)
        /\ \A k \in 1 .. n + 1 : b[k] \in Seq(S)
    <3>0. m \in Nat /\ Len(b) \in Nat /\ Len(c) = m + Len(b)
      BY <1>2
    <3>1. /\ \A k \in 1 .. l + 1 : k \in 1 .. Len(c)
          /\ \A k \in 1 .. n + 1 : k \in 1 .. Len(b)
      <4>1. n + 1 <= Len(b) /\ l + 1 <= Len(c)
        BY <2>1, <2>2, <2>3, <3>0
      <4>2. \A k \in 1 .. l + 1 : k \in 1 .. Len(c)
        BY <2>3, <3>0, <4>1
      <4>3. \A k \in 1 .. n + 1 : k \in 1 .. Len(b)
        BY <2>3, <3>0, <4>1
      <4> QED
        BY <4>2, <4>3
    <3>2. \A k \in 1 .. Len(c) : c[k] \in Seq(S)
      BY <1>2, ElementOfSeq
    <3>3. \A k \in 1 .. Len(b) : b[k] \in Seq(S)
      BY ElementOfSeq
    <3> QED
      BY <3>1, <3>2, <3>3
  <2>5. Joined(c, l + 1) = Joined(c, l) \o c[l + 1]
    BY <2>3, <2>4, JoinedNext
  <2>6. Joined(b, n) \in Seq(S) /\ Joined(b, n + 1) = Joined(b, n) \o b[n + 1]
    BY <2>3, <2>4, JoinedNext
  <2>7. c[l + 1] = b[n + 1] /\ b[n + 1] \in Seq(S)
    <3>1. c[m + (n + 1)] = b[n + 1]
      BY <1>2, <2>3
    <3>2. b[n + 1] \in Seq(S)
      BY <2>3, ElementOfSeq
    <3> QED
      BY <2>3, <3>1, <3>2
  <2>8. PICK x, y, z : x = Joined(a, m) /\ y = Joined(b, n) /\ z = b[n + 1]
    OBVIOUS
  <2>9. x \in Seq(S) /\ y \in Seq(S) /\ z \in Seq(S)
    BY <1>3, <2>6, <2>7, <2>8
  <2>10. x \o (y \o z) = (x \o y) \o z
    BY <2>9, ConcatThree, SMTT(30)
  <2> HIDE DEF T
  <2> QED
    BY <2>3, <2>5, <2>6, <2>7, <2>8, <2>10
<1>6. T \in SUBSET Nat /\ 0 \in T /\ \A n \in T : n + 1 \in T
  BY <1>4, <1>5
<1> HIDE DEF T
<1>7. Len(b) \in T
  BY <1>2, <1>6, NatSet
<1>8. Joined(c, Len(c)) = Joined(a, m) \o Joined(b, Len(b))
  BY <1>2, <1>7 DEF T
<1>9. /\ FlattenSeq(c) = Joined(c, Len(c)) /\ FlattenSeq(a) = Joined(a, m)
      /\ FlattenSeq(b) = Joined(b, Len(b))
  BY <1>1, <1>2, FlattenJoined
<1>10. FlattenSeq(c) \in Seq(S) /\ FlattenSeq(a) \in Seq(S) /\ FlattenSeq(b) \in Seq(S)
  BY <1>2, FlattenType
<1> QED
  BY <1>1, <1>2, <1>8, <1>9, <1>10

(* A single part.                                                          *)
LEMMA FlattenOne ==
  ASSUME NEW S, NEW x \in Seq(S)
  PROVE  <<x>> \in Seq(Seq(S)) /\ FlattenSeq(<<x>>) = x
<1>1. PICK e : e = <<>>
  OBVIOUS
<1>2. e \in Seq(Seq(S)) /\ Append(e, x) = <<x>>
  BY <1>1
<1>3. FlattenSeq(Append(e, x)) = FlattenSeq(e) \o x
  BY <1>2, FlattenAppend
<1>4. FlattenSeq(e) = <<>>
  BY <1>1, FlattenEmpty
<1>5. <<>> \o x = x
  BY ConcatEmptySeq
<1> QED
  BY <1>2, <1>3, <1>4, <1>5

(* The decoder adds up what it keeps of the groups, from the first on.      *)
LEMMA DecodeSum ==
  ASSUME NEW v \in Nat, v > 0, v < Radix * Weight[MaxGroups - 1],
         NEW bytes \in Seq(Byte), NEW at \in Nat \ {0},
         at + NumGroups(v) - 1 <= Len(bytes),
         \A j \in 1 .. NumGroups(v) : bytes[at + j - 1] = VarientEncoding(v)[j]
  PROVE  /\ NumGroups(v) \in 1 .. MaxGroups
         /\ NumGroups(v) < MaxGroups => v < Weight[NumGroups(v)]
         /\ \E s : /\ s[0] = 0 /\ VariantDecoder(bytes, at) = s[NumGroups(v)]
                  /\ \A c \in 0 .. NumGroups(v) - 1 :
                       s[c+1] = Weight[NumGroups(v)-c-1] * Kept(v, NumGroups(v)-c-1) + s[c]
<1> DEFINE n == NumGroups(v)
           end == VarintEnd(bytes, at)
           term == [j \in at .. end |->
                      Weight[end - j] * (IF j < end THEN HighBitShiftedOut(bytes[j])
                                                    ELSE bytes[j])]
           S(c) == SumFunctionOnSet(term, at .. at + c - 1)
<1>1. n \in 1 .. MaxGroups /\ (n < MaxGroups => v < Weight[n])
  <2>1. n > 0
    BY EndOfEncoding
  <2>2. n \in 0 .. MaxGroups /\ (n < MaxGroups => v < Weight[n])
    BY NumGroupsBounds
  <2> HIDE DEF n
  <2> QED
    BY <2>1, <2>2, RadixTyped
<1>2. end = at + n - 1
  BY EndOfEncoding
<1>3. VariantDecoder(bytes, at) = S(n)
  <2>1. VariantDecoder(bytes, at) = SumFunction(term)
    BY Zenon DEF VariantDecoder
  <2>2. SumFunction(term) = SumFunctionOnSet(term, DOMAIN term)
    BY Zenon DEF SumFunction
  <2>3. DOMAIN term = at .. at + n - 1
    <3>1. DOMAIN term = at .. end
      OBVIOUS
    <3> HIDE DEF term, end, n
    <3> QED
      BY <1>2, <3>1
  <2> QED
    BY <2>1, <2>2, <2>3
<1>4. ASSUME NEW c \in 0 .. n - 1
      PROVE  /\ n - c - 1 \in 0 .. MaxGroups - 1
             /\ term[at + c] = Weight[n-c-1] * Kept(v, n-c-1)
  <2> DEFINE k == n - c - 1
             g == GroupAt(v, k)
             b == bytes[at + c]
  <2>1. k \in 0 .. MaxGroups - 1 /\ c + 1 \in 1 .. n /\ n - (c + 1) = k
        /\ at + (c + 1) - 1 = at + c
    <3> HIDE DEF n
    <3> QED
      BY <1>1, RadixTyped
  <2>2. b = g + (IF c + 1 < n THEN Radix ELSE 0)
    BY <2>1, EncodingBytes
  <2>3. at + c \in at .. end /\ end - (at + c) = k /\ (at + c < end <=> c + 1 < n)
        /\ (c + 1 < n <=> k > 0)
    <3> HIDE DEF n, end
    <3> QED
      BY <1>1, <1>2
  <2>4. term[at + c] = Weight[k] * (IF k > 0 THEN HighBitShiftedOut(b) ELSE b)
    <3>1. term[at + c] = Weight[end - (at + c)] * (IF at + c < end THEN HighBitShiftedOut(b) ELSE b)
      BY <2>3
    <3> HIDE DEF term, end, k, b
    <3> QED
      BY <2>3, <3>1
  <2>5. g \in 0 .. Radix - 1
    BY <2>1, GroupTyped
  <2>6. (IF k > 0 THEN HighBitShiftedOut(b) ELSE b) = Kept(v, k)
    <3>1. CASE k > 0
      <4>1. b = g + Radix
        BY <2>2, <2>3, <3>1
      <4>2. HighBitShiftedOut(b) = IF CharIsSigned /\ g >= Radix \div 2 THEN g - Radix ELSE g
        BY <2>5, <4>1, ByteOfGroup
      <4> QED
        BY <3>1, <4>2 DEF Kept
    <3>2. CASE ~ (k > 0)
      <4>1. b = g + 0
        BY <2>2, <2>3, <3>2
      <4> HIDE DEF k, b
      <4>2. b = g
        BY <2>5, <4>1, RadixTyped
      <4> QED
        BY <3>2, <4>2 DEF Kept
    <3> QED
      BY <3>1, <3>2
  <2> HIDE DEF term
  <2> QED
    BY <2>1, <2>4, <2>6
<1> HIDE DEF term, end
<1>5. ASSUME NEW c \in 0 .. n - 1
      PROVE  /\ term[at + c] \in Int
             /\ S(c + 1) = term[at + c] + S(c)
  <2>1. ASSUME NEW d \in 0 .. n - 1 PROVE term[at + d] \in Int
    <3>1. n - d - 1 \in 0 .. MaxGroups - 1
      BY <1>4
    <3>2. Weight[n-d-1] \in Nat /\ Kept(v, n-d-1) \in Int
      BY <3>1, GroupTyped, RadixTyped
    <3> QED
      BY <1>4, <3>2
  <2>2. IsFiniteSet(at .. at + c - 1) /\ at + c \notin at .. at + c - 1
        /\ at .. at + (c + 1) - 1 = (at .. at + c - 1) \cup {at + c}
    <3>1. IsFiniteSet(at .. at + c - 1)
      BY FS_Interval
    <3> QED
      BY <3>1
  <2>3. \A y \in (at .. at + c - 1) \cup {at + c} : term[y] \in Int
    <3>1. ASSUME NEW y \in at .. at + c PROVE term[y] \in Int
      <4>1. y - at \in 0 .. n - 1 /\ at + (y - at) = y
        BY <1>1
      <4> QED
        BY <2>1, <4>1
    <3> QED
      BY <3>1
  <2> QED
    BY <2>1, <2>2, <2>3, SumAdd
<1>6. S(0) = 0
  <2>1. at .. at + 0 - 1 = {}
    OBVIOUS
  <2> QED
    BY <2>1, SumEmpty
<1> DEFINE s == [c \in 0 .. n |-> S(c)]
<1>7. s[0] = 0 /\ s[n] = S(n)
  <2> HIDE DEF n, S
  <2> QED
    BY <1>1, <1>6
<1>8. ASSUME NEW c \in 0 .. n - 1
      PROVE  s[c+1] = Weight[n-c-1] * Kept(v, n-c-1) + s[c]
  <2>1. s[c] = S(c) /\ s[c+1] = S(c + 1)
    <3> HIDE DEF n, S
    <3> QED
      BY <1>1
  <2> HIDE DEF s, S, n
  <2> QED
    BY <1>4, <1>5, <2>1
<1> HIDE DEF s, S
<1> QED
  BY <1>1, <1>3, <1>7, <1>8

(* What VariantDecoder makes of the bytes of a number: never more, and the *)
(* number itself exactly if no group but the last loses its top bit.       *)
LEMMA DecodeEncoding ==
  ASSUME NEW v \in Nat, v > 0, v < Radix * Weight[MaxGroups - 1],
         NEW bytes \in Seq(Byte), NEW at \in Nat \ {0},
         at + NumGroups(v) - 1 <= Len(bytes),
         \A j \in 1 .. NumGroups(v) : bytes[at + j - 1] = VarientEncoding(v)[j]
  PROVE  /\ VariantDecoder(bytes, at) \in Int
         /\ VariantDecoder(bytes, at) <= v
         /\ VariantDecoder(bytes, at) = v
              <=> \A k \in 1 .. NumGroups(v) - 1 : Clear(v, k)
<1> DEFINE n == NumGroups(v)
<1>1. n \in 1 .. MaxGroups /\ (n < MaxGroups => v < Weight[n])
  BY DecodeSum
<1>2. PICK s : /\ s[0] = 0 /\ VariantDecoder(bytes, at) = s[n]
               /\ \A c \in 0 .. n - 1 : s[c+1] = Weight[n-c-1] * Kept(v, n-c-1) + s[c]
  BY DecodeSum
<1> DEFINE AllClear(c) == \A k \in 1 .. n - 1 : k >= n - c => Clear(v, k)
           Good(c) == /\ s[c] \in Int /\ s[c] <= Exact(v, n, c)
                      /\ s[c] = Exact(v, n, c) <=> AllClear(c)
           T == {c \in Nat : c <= n => Good(c)}
<1>3. 0 \in T
  <2>1. s[0] = 0
    BY <1>2
  <2>2. Exact(v, n, 0) = 0 /\ AllClear(0)
    <3> HIDE DEF n
    <3> QED
      BY <1>1 DEF Exact
  <2> QED
    BY <2>1, <2>2
<1>4. ASSUME NEW c \in T PROVE c + 1 \in T
  <2>1. SUFFICES ASSUME c + 1 <= n PROVE Good(c + 1)
    OBVIOUS
  <2>2. c \in 0 .. n - 1
    BY <1>1, <2>1
  <2> DEFINE k == n - c - 1
             w == Weight[k]
             g == GroupAt(v, k)
             t == Kept(v, k)
  <2>3. k \in 0 .. MaxGroups - 1 /\ s[c+1] = w * t + s[c]
    <3>1. k \in 0 .. MaxGroups - 1
      BY <1>1, <2>2, RadixTyped, SMTT(30)
    <3> QED
      BY <1>2, <2>2, <3>1
  <2>4. Good(c)
    BY <1>1, <2>2
  <2>5. Exact(v, n, c) \in Int /\ Exact(v, n, c + 1) = Exact(v, n, c) + w * g
    BY <1>1, <2>2, ExactNext
  <2>6. g \in Nat /\ t \in Int /\ t <= g /\ (t = g <=> Clear(v, k))
    <3>1. k \in 0 .. MaxGroups - 1
      BY <2>3
    <3> HIDE DEF k
    <3>2. g \in 0 .. Radix - 1 /\ t \in Int /\ t <= g /\ (t = g <=> Clear(v, k))
      BY <3>1, GroupTyped
    <3> HIDE DEF g, t
    <3> QED
      BY <3>2, RadixTyped
  <2>7. w \in Nat /\ w > 0
    BY <2>3, RadixTyped
  <2>8. AllClear(c + 1) <=> AllClear(c) /\ Clear(v, k)
    <3>1. k > 0 => k \in 1 .. n - 1
      <4> HIDE DEF n
      <4> QED
        BY <1>1, <2>2
    <3>2. \A j \in 1 .. n - 1 : (j >= n - (c + 1) <=> j >= n - c \/ j = k)
      <4> HIDE DEF n
      <4> QED
        BY <1>1, <2>2
    <3>3. k = 0 => Clear(v, k)
      BY DEF Clear
    <3>4. k \in Nat
      BY <2>3
    <3>5. k >= n - (c + 1)
      <4> HIDE DEF n
      <4> QED
        BY <1>1, <2>2
    <3> HIDE DEF k
    <3> QED
      BY <3>1, <3>2, <3>3, <3>4, <3>5
  <2>9. w * t \in Int /\ w * g \in Int /\ w * t <= w * g /\ (w * t = w * g <=> t = g)
    <3> HIDE DEF w, t, g
    <3>1. w * (g - t) >= 0 /\ (w * (g - t) = 0 <=> g - t = 0)
      BY <2>6, <2>7
    <3> QED
      BY <2>6, <2>7, <3>1
  <2> DEFINE s0 == s[c]
             s1 == s[c+1]
             e0 == Exact(v, n, c)
             e1 == Exact(v, n, c + 1)
             wt == w * t
             wg == w * g
  <2>10. /\ s0 \in Int /\ s0 <= e0 /\ (s0 = e0 <=> AllClear(c))
         /\ s1 = wt + s0 /\ e0 \in Int /\ e1 = e0 + wg
         /\ wt \in Int /\ wg \in Int /\ wt <= wg /\ (wt = wg <=> Clear(v, k))
    BY <2>3, <2>4, <2>5, <2>6, <2>9
  <2> HIDE DEF s0, s1, e0, e1, wt, wg, AllClear, k
  <2>11. s1 \in Int /\ s1 <= e1 /\ (s1 = e1 <=> AllClear(c + 1))
    BY <2>8, <2>10
  <2> QED
    BY <2>11 DEF s1, e1
<1>5. Good(n)
  <2>1. \A c \in Nat : c \in T
    <3> HIDE DEF T
    <3>1. T \in SUBSET Nat
      BY DEF T
    <3> QED
      BY <1>3, <1>4, <3>1, NatSet
  <2>2. n \in Nat
    BY <1>1
  <2> HIDE DEF n
  <2> QED
    BY <2>1, <2>2
<1>6. Exact(v, n, n) = v /\ (AllClear(n) <=> \A k \in 1 .. n - 1 : Clear(v, k))
  <2> HIDE DEF n
  <2>1. n - n = 0 /\ n # 0 /\ Weight[0] = 1 /\ v \div 1 = v
    <3>1. v = 1 * v + 0 /\ 0 \in 0 .. 1 - 1
      OBVIOUS
    <3> QED
      BY <1>1, <3>1, DivUnique, RadixTyped
  <2>2. Exact(v, n, n) = 1 * v
    BY <2>1 DEF Exact
  <2> QED
    BY <1>1, <2>2
<1> HIDE DEF n
<1> QED
  BY <1>2, <1>5, <1>6 DEF n

(* A weight is a multiple of every weight before.                          *)
LEMMA WeightMultiple ==
  ASSUME NEW j \in 0 .. MaxGroups - 1, NEW k \in 0 .. MaxGroups - 1, j <= k
  PROVE  \E q \in Nat : Weight[k] = q * Weight[j]
<1> DEFINE T == {i \in Nat : j + i <= MaxGroups - 1 => \E q \in Nat : Weight[j+i] = q * Weight[j]}
<1>1. 0 \in T
  <2>1. Weight[j] \in Nat /\ Weight[j+0] = 1 * Weight[j]
    BY RadixTyped
  <2> QED
    BY <2>1
<1>2. ASSUME NEW i \in T PROVE i + 1 \in T
  <2>1. SUFFICES ASSUME j + (i + 1) <= MaxGroups - 1
                 PROVE  \E q \in Nat : Weight[j+(i+1)] = q * Weight[j]
    OBVIOUS
  <2>2. j + i <= MaxGroups - 1 /\ j + (i + 1) \in 1 .. MaxGroups - 1
        /\ (j + (i + 1)) - 1 = j + i /\ j + i \in 0 .. MaxGroups - 1
    BY <2>1, RadixTyped
  <2>3. PICK q \in Nat : Weight[j+i] = q * Weight[j]
    BY <2>2
  <2>4. Weight[j+(i+1)] = Radix * Weight[j+i]
    BY <2>2, VarintAssumption
  <2>5. Weight[j] \in Nat /\ Radix \in Nat
    BY RadixTyped
  <2>6. Radix * (q * Weight[j]) = (Radix * q) * Weight[j] /\ Radix * q \in Nat
    BY <2>5
  <2> QED
    BY <2>3, <2>4, <2>6
<1>3. \A i \in Nat : i \in T
  <2> HIDE DEF T
  <2>1. T \in SUBSET Nat
    BY DEF T
  <2> QED
    BY <1>1, <1>2, <2>1, NatSet
<1>4. k - j \in Nat /\ j + (k - j) = k /\ k <= MaxGroups - 1
  BY RadixTyped
<1>5. k - j \in T
  BY <1>3, <1>4
<1> QED
  BY <1>4, <1>5

(* What is lost is a multiple of what the first misread group weighs.      *)
LEMMA DecodeMisread ==
  ASSUME NEW v \in Nat, v > 0, v < Radix * Weight[MaxGroups - 1],
         NEW bytes \in Seq(Byte), NEW at \in Nat \ {0},
         at + NumGroups(v) - 1 <= Len(bytes),
         \A j \in 1 .. NumGroups(v) : bytes[at + j - 1] = VarientEncoding(v)[j],
         NEW j \in 1 .. NumGroups(v) - 1, \A k \in 1 .. j - 1 : Clear(v, k)
  PROVE  \E m \in Nat : VariantDecoder(bytes, at) = v - (Radix * Weight[j]) * m
<1> DEFINE n == NumGroups(v)
           W == Radix * Weight[j]
<1>1. n \in 1 .. MaxGroups /\ (n < MaxGroups => v < Weight[n])
  BY DecodeSum
<1>2. PICK s : /\ s[0] = 0 /\ VariantDecoder(bytes, at) = s[n]
               /\ \A c \in 0 .. n - 1 : s[c+1] = Weight[n-c-1] * Kept(v, n-c-1) + s[c]
  BY DecodeSum
<1>3. j \in 1 .. n - 1 /\ j \in 0 .. MaxGroups - 1
  <2> HIDE DEF n
  <2>1. j \in 1 .. n - 1
    BY DEF n
  <2> QED
    BY <1>1, <2>1, RadixTyped
<1> HIDE DEF n
<1>4. Weight[j] \in Nat /\ W \in Nat
  BY <1>3, RadixTyped
<1> DEFINE T == {c \in Nat : c <= n => \E m \in Nat : s[c] = Exact(v, n, c) - W * m}
<1>5. 0 \in T
  <2>1. s[0] = Exact(v, n, 0) - W * 0 /\ 0 \in Nat
    <3> HIDE DEF W
    <3> QED
      BY <1>2, <1>4 DEF Exact
  <2> HIDE DEF W
  <2> QED
    BY <2>1
<1>6. ASSUME NEW c \in T PROVE c + 1 \in T
  <2>1. SUFFICES ASSUME c + 1 <= n
                 PROVE  \E m \in Nat : s[c+1] = Exact(v, n, c + 1) - W * m
    OBVIOUS
  <2>2. c \in 0 .. n - 1 /\ c <= n
    BY <1>1, <2>1
  <2> DEFINE k == n - c - 1
             w == Weight[k]
             g == GroupAt(v, k)
  <2>3. k \in 0 .. MaxGroups - 1
    BY <1>1, <2>2, RadixTyped
  <2>4. s[c+1] = w * Kept(v, k) + s[c]
    BY <1>2, <2>2
  <2>5. Exact(v, n, c) \in Int /\ Exact(v, n, c + 1) = Exact(v, n, c) + w * g
    BY <1>1, <2>2, ExactNext
  <2>6. g \in 0 .. Radix - 1 /\ w \in Nat /\ Radix \in Nat
    <3> HIDE DEF k
    <3> QED
      BY <2>3, GroupTyped, RadixTyped
  <2>7. PICK m \in Nat : s[c] = Exact(v, n, c) - W * m
    BY <2>2
  <2>8. CASE Kept(v, k) = g
    <3> DEFINE e == Exact(v, n, c)
               x == W * m
               y == w * g
    <3>1. x \in Int /\ y \in Int /\ e \in Int
      <4> HIDE DEF W, w, g
      <4> QED
        BY <1>4, <2>5, <2>6
    <3>2. s[c+1] = y + (e - x) /\ Exact(v, n, c + 1) = e + y
      BY <2>4, <2>5, <2>7, <2>8
    <3> HIDE DEF x, y, e
    <3>3. s[c+1] = Exact(v, n, c + 1) - x
      BY <3>1, <3>2
    <3> QED
      BY <3>3 DEF x
  <2>9. CASE Kept(v, k) # g
    <3>1. Kept(v, k) = g - Radix /\ k > 0 /\ ~ Clear(v, k)
      <4>1. Kept(v, k) = g - Radix /\ k > 0 /\ CharIsSigned /\ g >= Radix \div 2
        BY <2>9, Zenon DEF Kept
      <4>2. Radix \div 2 \in Int /\ g \in Int
        BY <2>6
      <4>3. ~ (g < Radix \div 2)
        <5> HIDE DEF g
        <5> QED
          BY <4>1, <4>2
      <4> QED
        BY <4>1, <4>3, Zenon DEF Clear
    <3>2. j <= k
      <4>1. ~ (k \in 1 .. j - 1)
        BY <3>1
      <4> HIDE DEF k
      <4> QED
        BY <1>3, <2>3, <3>1, <4>1
    <3>3. PICK q \in Nat : w = q * Weight[j]
      BY <1>3, <2>3, <3>2, WeightMultiple
    <3> DEFINE e == Exact(v, n, c)
               x == W * m
               y == w * g
               z == W * q
    <3>4. w * Kept(v, k) = y - z
      <4>1. w * (g - Radix) = w * g - (q * Weight[j]) * Radix
        <5> HIDE DEF w, g
        <5>1. w * (g - Radix) = w * g - w * Radix
          BY <2>6
        <5> QED
          BY <3>3, <5>1
      <4>2. (q * Weight[j]) * Radix = (Radix * Weight[j]) * q
        BY <1>4, <2>6
      <4> QED
        BY <3>1, <4>1, <4>2
    <3>5. x \in Int /\ y \in Int /\ z \in Int /\ e \in Int /\ m + q \in Nat /\ W * (m + q) = x + z
      <4> HIDE DEF W, w, g
      <4> QED
        BY <1>4, <2>5, <2>6
    <3>6. s[c+1] = (y - z) + (e - x) /\ Exact(v, n, c + 1) = e + y
      BY <2>4, <2>5, <2>7, <3>4
    <3> HIDE DEF x, y, z, e, W
    <3>7. s[c+1] = Exact(v, n, c + 1) - W * (m + q)
      BY <3>5, <3>6
    <3> QED
      BY <3>5, <3>7
  <2> QED
    BY <2>8, <2>9
<1>7. \A c \in Nat : c \in T
  <2> HIDE DEF T
  <2>1. T \in SUBSET Nat
    BY DEF T
  <2> QED
    BY <1>5, <1>6, <2>1, NatSet
<1>8. Exact(v, n, n) = v
  <2>1. n - n = 0 /\ n # 0 /\ Weight[0] = 1 /\ v \div 1 = v
    <3>1. v = 1 * v + 0 /\ 0 \in 0 .. 1 - 1
      OBVIOUS
    <3> QED
      BY <1>1, <3>1, DivUnique, RadixTyped
  <2>2. Exact(v, n, n) = 1 * v
    BY <2>1 DEF Exact
  <2> QED
    BY <2>2
<1>9. n \in T /\ n <= n
  BY <1>1, <1>7
<1> QED
  BY <1>2, <1>8, <1>9

(* A number the signed char made of another does not survive: what         *)
(* survives is what was written.                                           *)
LEMMA SurvivorIsRight ==
  ASSUME NEW v \in Nat, v > 0, v < Radix * Weight[MaxGroups - 1],
         NEW bytes \in Seq(Byte), NEW at \in Nat \ {0},
         at + NumGroups(v) - 1 <= Len(bytes),
         \A j \in 1 .. NumGroups(v) : bytes[at + j - 1] = VarientEncoding(v)[j],
         SurvivesVarint(VariantDecoder(bytes, at))
  PROVE  VariantDecoder(bytes, at) = v
<1> DEFINE n == NumGroups(v)
<1>1. n \in 1 .. MaxGroups
  BY DecodeSum
<1>2. PICK w \in Int : w = VariantDecoder(bytes, at)
  BY DecodeEncoding
<1>3. w > 0 /\ w \in Nat
  BY <1>2 DEF SurvivesVarint
<1>4. SUFFICES ASSUME w # v PROVE FALSE
  BY <1>2
<1> DEFINE E == {k \in 1 .. n - 1 : ~ Clear(v, k)}
<1>5. PICK j \in E : \A d \in E : j <= d
  <2>1. E # {} /\ E \in SUBSET Nat
    <3>1. \E k \in 1 .. n - 1 : ~ Clear(v, k)
      BY <1>2, <1>4, DecodeEncoding
    <3> HIDE DEF n
    <3> QED
      BY <1>1, <3>1
  <2> HIDE DEF E
  <2> QED
    BY <2>1, LeastOf
<1>6. j \in 1 .. n - 1 /\ j \in 0 .. MaxGroups - 1 /\ CharIsSigned
      /\ GroupAt(v, j) >= Radix \div 2
  <2>1. GroupAt(v, j) \in 0 .. Radix - 1 /\ Radix \div 2 \in Int
    <3>1. j \in 0 .. MaxGroups - 1
      <4> HIDE DEF n
      <4> QED
        BY <1>1, <1>5, RadixTyped
    <3>2. Radix = 2 * (Radix \div 2) /\ Radix \div 2 \in Int
      BY VarintAssumption
    <3> QED
      BY <3>1, <3>2, GroupTyped
  <2> HIDE DEF n
  <2> QED
    BY <1>1, <1>5, <2>1, RadixTyped DEF Clear
<1>7. \A k \in 1 .. j - 1 : Clear(v, k)
  <2> HIDE DEF n
  <2> QED
    BY <1>1, <1>5, <1>6
<1>8. PICK m \in Nat : w = v - (Radix * Weight[j]) * m
  BY <1>2, <1>6, <1>7, DecodeMisread, ZenonT(30)
<1> DEFINE W == Weight[j]
           a == v \div W
           u == v % W
           b == a - Radix * m
<1>9. W \in Nat /\ W > 0 /\ Radix \in Nat /\ Radix > 9
  BY <1>6, RadixTyped
<1>10. a \in Nat /\ u \in 0 .. W - 1 /\ v = W * a + u
  <2> HIDE DEF W
  <2> QED
    BY <1>9
<1>11. w = W * b + u /\ b \in Int
  <2> HIDE DEF W, a, u
  <2>1. b \in Int /\ (Radix * W) * m = W * (Radix * m)
    BY <1>9, <1>10
  <2>2. W * b = W * a - W * (Radix * m)
    BY <1>9, <1>10
  <2> DEFINE x == (Radix * W) * m
             y == W * a
             z == W * (Radix * m)
             t == W * b
  <2>3. w = v - x /\ v = y + u /\ x = z /\ t = y - z
    BY <1>8, <1>10, <2>1, <2>2 DEF W
  <2>4. y \in Int /\ z \in Int /\ u \in Int
    BY <1>9, <1>10
  <2> HIDE DEF x, y, z, t, b
  <2>5. w = t + u
    BY <2>3, <2>4
  <2> QED
    BY <2>1, <2>5 DEF t
<1>12. w \div W = b
  <2> HIDE DEF W, a, u, b
  <2> QED
    BY <1>3, <1>9, <1>10, <1>11, DivUnique
<1>13. b % Radix = a % Radix
  <2> DEFINE p == a \div Radix
             g == a % Radix
  <2>1. p \in Int /\ g \in 0 .. Radix - 1 /\ a = Radix * p + g
    <3> HIDE DEF a
    <3>1. a \in Nat /\ Radix \in Nat /\ Radix > 0
      BY <1>9, <1>10
    <3> QED
      BY <3>1
  <2>2. b = Radix * (p - m) + g /\ p - m \in Int
    <3> HIDE DEF a, p, g
    <3>1. Radix * (p - m) = Radix * p - Radix * m /\ p - m \in Int
      BY <1>9, <2>1
    <3>2. Radix * p \in Int /\ Radix * m \in Int /\ g \in Int
      BY <1>9, <2>1
    <3> QED
      BY <2>1, <3>1, <3>2
  <2> HIDE DEF a, b, p, g
  <2>3. /\ b \in Int /\ Radix \in Nat /\ Radix > 0 /\ p - m \in Int
        /\ g \in 0 .. Radix - 1 /\ b = Radix * (p - m) + g
    BY <1>9, <1>11, <2>1, <2>2
  <2>4. b % Radix = g
    BY <2>3, DivUnique
  <2> QED
    BY <2>4 DEF g
<1>14. GroupAt(w, j) = GroupAt(v, j)
  <2> HIDE DEF b
  <2> QED
    BY <1>12, <1>13 DEF GroupAt
<1>15. w >= W
  <2>1. b % Radix >= Radix \div 2 /\ Radix \div 2 > 0
    <3>1. Radix = 2 * (Radix \div 2) /\ Radix \div 2 \in Int
      BY VarintAssumption
    <3> QED
      BY <1>6, <1>9, <1>12, <1>14, <3>1 DEF GroupAt
  <2>2. b \in Nat /\ (w >= Weight[j] <=> b > 0)
    BY <1>3, <1>6, <1>12, NextGroup
  <2>3. b # 0
    <3>1. 0 % Radix = 0
      BY <1>9
    <3> HIDE DEF b
    <3> QED
      BY <2>1, <2>2, <3>1, <1>9
  <2> HIDE DEF b
  <2> QED
    BY <2>2, <2>3
<1>16. j \in 1 .. NumGroups(w) - 1
  <2>1. NumGroups(w) \in 0 .. MaxGroups /\ (NumGroups(w) < MaxGroups => w < Weight[NumGroups(w)])
    BY <1>3, NumGroupsBounds
  <2>2. ASSUME NumGroups(w) <= j PROVE FALSE
    <3>1. NumGroups(w) \in 0 .. MaxGroups - 1 /\ NumGroups(w) < MaxGroups
      BY <1>6, <2>1, <2>2, RadixTyped
    <3>2. Weight[NumGroups(w)] <= Weight[j] /\ Weight[NumGroups(w)] \in Nat
      BY <1>6, <2>2, <3>1, WeightsGrow, RadixTyped
    <3> QED
      BY <1>3, <1>9, <1>15, <2>1, <3>1, <3>2
  <2> QED
    BY <1>6, <2>1, <2>2
<1>17. GroupAt(w, j) < Radix \div 2
  BY <1>2, <1>6, <1>16 DEF SurvivesVarint, GroupAt
<1>18. GroupAt(v, j) \in Int /\ Radix \div 2 \in Int
  BY <1>6, <1>9, GroupTyped
<1> QED
  BY <1>6, <1>14, <1>17, <1>18

-----------------------------------------------------------------------------
(* The bytes w stand at position p of b.                                   *)
Stands(b, p, w) ==
  p > 0 /\ p - 1 + Len(w) <= Len(b) /\ \A i \in 1 .. Len(w) : b[p - 1 + i] = w[i]

(* Of two parts, one behind the other, each stands in its place.           *)
LEMMA StandsParts ==
  ASSUME NEW S, NEW b \in Seq(S), NEW p \in Int, NEW x \in Seq(S), NEW y \in Seq(S),
         Stands(b, p, x \o y)
  PROVE  Stands(b, p, x) /\ Stands(b, p + Len(x), y)
<1> DEFINE w == x \o y
<1>1. /\ Len(x) \in Nat /\ Len(y) \in Nat /\ Len(w) = Len(x) + Len(y) /\ Len(b) \in Nat
      /\ \A i \in 1 .. Len(x) : w[i] = x[i]
      /\ \A i \in 1 .. Len(y) : w[Len(x) + i] = y[i]
  BY ConcatProperties
<1>2. p > 0 /\ p - 1 + Len(w) <= Len(b) /\ \A i \in 1 .. Len(w) : b[p - 1 + i] = w[i]
  BY DEF Stands
<1> HIDE DEF w
<1>3. Stands(b, p, x)
  BY <1>1, <1>2 DEF Stands
<1>4. ASSUME NEW i \in 1 .. Len(y) PROVE b[(p + Len(x)) - 1 + i] = y[i]
  <2>1. PICK j \in Int : j = Len(x) + i
    BY <1>1
  <2>2. j \in 1 .. Len(w) /\ p - 1 + j = (p + Len(x)) - 1 + i
    BY <1>1, <2>1
  <2> QED
    BY <1>1, <1>2, <2>1, <2>2
<1>5. p + Len(x) > 0 /\ (p + Len(x)) - 1 + Len(y) <= Len(b)
  BY <1>1, <1>2
<1> QED
  BY <1>3, <1>4, <1>5 DEF Stands

(* ... also of many.                                                       *)
LEMMA StandsJoined ==
  ASSUME NEW S, NEW b \in Seq(S), NEW p \in Int, NEW parts \in Seq(Seq(S)),
         Stands(b, p, FlattenSeq(parts)), NEW m \in 0 .. Len(parts) - 1
  PROVE  /\ Joined(parts, m) \in Seq(S) /\ Joined(parts, m + 1) \in Seq(S)
         /\ parts[m + 1] \in Seq(S)
         /\ Stands(b, p + Len(Joined(parts, m)), parts[m + 1])
         /\ Len(Joined(parts, m + 1)) = Len(Joined(parts, m)) + Len(parts[m + 1])
         /\ Len(Joined(parts, m + 1)) <= Len(FlattenSeq(parts))
<1> DEFINE n == Len(parts)
           J(i) == Joined(parts, i)
           T == {j \in Nat : j <= n => /\ Stands(b, p, J(n - j))
                                       /\ Len(J(n - j)) <= Len(FlattenSeq(parts))}
<1>1. n \in Nat /\ \A k \in 1 .. n : parts[k] \in Seq(S)
  BY ElementOfSeq, LenProperties
<1> HIDE DEF n
<1>2. ASSUME NEW i \in 0 .. n - 1
      PROVE  J(i) \in Seq(S) /\ J(i + 1) \in Seq(S) /\ J(i + 1) = J(i) \o parts[i + 1]
             /\ parts[i + 1] \in Seq(S) /\ Len(J(i + 1)) = Len(J(i)) + Len(parts[i + 1])
  <2>1. i \in Nat /\ i + 1 \in 1 .. n /\ \A k \in 1 .. i + 1 : parts[k] \in Seq(S)
    BY <1>1
  <2>2. J(i) \in Seq(S) /\ J(i + 1) \in Seq(S) /\ J(i + 1) = J(i) \o parts[i + 1]
    BY <2>1, JoinedNext
  <2>3. parts[i + 1] \in Seq(S)
    BY <2>1
  <2> HIDE DEF J
  <2> QED
    BY <2>2, <2>3, ConcatProperties, SMTT(30)
<1>3. 0 \in T
  <2>1. J(n) = FlattenSeq(parts)
    BY FlattenJoined DEF n
  <2>2. FlattenSeq(parts) \in Seq(S)
    BY FlattenType
  <2>3. n - 0 = n /\ Len(FlattenSeq(parts)) \in Nat
    BY <1>1, <2>2, LenProperties
  <2> HIDE DEF J
  <2> QED
    BY <2>1, <2>3
<1>4. ASSUME NEW j \in T PROVE j + 1 \in T
  <2>1. SUFFICES ASSUME j + 1 <= n
                 PROVE  /\ Stands(b, p, J(n - (j + 1)))
                        /\ Len(J(n - (j + 1))) <= Len(FlattenSeq(parts))
    OBVIOUS
  <2>2. PICK i \in Int : i = n - (j + 1)
    BY <1>1
  <2>3. i \in 0 .. n - 1 /\ i + 1 = n - j /\ j <= n
    BY <1>1, <2>1, <2>2
  <2>4. Stands(b, p, J(i + 1)) /\ Len(J(i + 1)) <= Len(FlattenSeq(parts))
    BY <2>3
  <2> HIDE DEF J
  <2>5. /\ J(i) \in Seq(S) /\ J(i + 1) = J(i) \o parts[i + 1]
        /\ parts[i + 1] \in Seq(S) /\ Len(J(i + 1)) = Len(J(i)) + Len(parts[i + 1])
    BY <1>2, <2>3
  <2>6. Stands(b, p, J(i))
    <3>1. Stands(b, p, J(i) \o parts[i + 1])
      BY <2>4, <2>5
    <3>2. J(i) \in Seq(S) /\ parts[i + 1] \in Seq(S)
      BY <2>5
    <3> QED
      BY <3>1, <3>2, StandsParts
  <2>7. Len(J(i)) \in Nat /\ Len(parts[i + 1]) \in Nat /\ Len(FlattenSeq(parts)) \in Nat
    BY <2>5, FlattenType, LenProperties
  <2>8. Len(J(i)) <= Len(FlattenSeq(parts))
    BY <2>4, <2>5, <2>7, SMTT(30)
  <2> QED
    BY <2>2, <2>6, <2>8
<1>5. \A j \in Nat : j \in T
  <2> HIDE DEF T
  <2>1. T \in SUBSET Nat
    BY DEF T
  <2> QED
    BY <1>3, <1>4, <2>1, NatSet
<1>6. m \in 0 .. n - 1
  BY DEF n
<1>7. PICK j \in Nat : j = n - (m + 1)
  BY <1>1, <1>6
<1>8. j \in T
  BY <1>5
<1>9. Stands(b, p, J(m + 1)) /\ Len(J(m + 1)) <= Len(FlattenSeq(parts))
  <2>1. j <= n /\ n - j = m + 1
    BY <1>1, <1>6, <1>7
  <2>2. Stands(b, p, J(n - j)) /\ Len(J(n - j)) <= Len(FlattenSeq(parts))
    BY <1>8, <2>1
  <2> HIDE DEF J, T
  <2> QED
    BY <2>1, <2>2
<1> HIDE DEF J, T
<1>10. /\ J(m) \in Seq(S) /\ J(m + 1) \in Seq(S) /\ J(m + 1) = J(m) \o parts[m + 1]
       /\ parts[m + 1] \in Seq(S) /\ Len(J(m + 1)) = Len(J(m)) + Len(parts[m + 1])
  BY <1>2, <1>6
<1>11. Stands(b, p + Len(J(m)), parts[m + 1])
  BY <1>9, <1>10, StandsParts, ZenonT(30)
<1> QED
  BY <1>9, <1>10, <1>11 DEF J

(* Reading a number where its encoding stands: the decoder ends up behind  *)
(* it, and has the number if it, or what was read, survives.               *)
LEMMA ReadBack ==
  ASSUME NEW v \in Nat, v > 0, v < Radix * Weight[MaxGroups - 1],
         NEW bytes \in Seq(Byte), NEW at \in Nat \ {0},
         Stands(bytes, at, VarientEncoding(v))
  PROVE  /\ VarintReadable(bytes, at)
         /\ VarintEnd(bytes, at) + 1 = at + Len(VarientEncoding(v))
         /\ VariantDecoder(bytes, at) \in Int /\ VariantDecoder(bytes, at) <= v
         /\ SurvivesVarint(v) \/ SurvivesVarint(VariantDecoder(bytes, at))
              => VariantDecoder(bytes, at) = v
<1> DEFINE n == NumGroups(v)
<1>1. n \in 0 .. MaxGroups /\ n \in Nat /\ Len(VarientEncoding(v)) = n /\ Len(bytes) \in Nat
  <2>1. n \in 0 .. MaxGroups /\ Len(VarientEncoding(v)) = n
    BY EncodingBytes
  <2> HIDE DEF n
  <2> QED
    BY <2>1, LenProperties
<1>2. at + n - 1 <= Len(bytes) /\ \A j \in 1 .. n : bytes[at + j - 1] = VarientEncoding(v)[j]
  <2> HIDE DEF n
  <2>1. at - 1 + n <= Len(bytes) /\ \A j \in 1 .. n : bytes[at - 1 + j] = VarientEncoding(v)[j]
    BY <1>1 DEF Stands
  <2>2. \A j \in 1 .. n : at - 1 + j = at + j - 1
    BY <1>1
  <2>3. at + n - 1 <= Len(bytes)
    BY <1>1, <2>1
  <2> QED
    BY <2>1, <2>2, <2>3
<1>3. VarintReadable(bytes, at) /\ VarintEnd(bytes, at) = at + n - 1
  BY <1>2, EndOfEncoding
<1>4. /\ VariantDecoder(bytes, at) \in Int /\ VariantDecoder(bytes, at) <= v
      /\ VariantDecoder(bytes, at) = v <=> \A k \in 1 .. n - 1 : Clear(v, k)
  BY <1>2, DecodeEncoding
<1>5. SurvivesVarint(v) => \A k \in 1 .. n - 1 : Clear(v, k)
  BY DEF SurvivesVarint, Clear, GroupAt
<1>6. SurvivesVarint(VariantDecoder(bytes, at)) => VariantDecoder(bytes, at) = v
  BY <1>2, SurvivorIsRight
<1>7. VarintEnd(bytes, at) + 1 = at + Len(VarientEncoding(v))
  <2> HIDE DEF n
  <2> QED
    BY <1>1, <1>3
<1> HIDE DEF n
<1> QED
  BY <1>3, <1>4, <1>5, <1>6, <1>7

(* The type of an object is written in one byte, its code.                 *)
LEMMA TagByte ==
  ASSUME NEW d \in Data, HasTypeCode(d), d.type # "I8"
  PROVE  /\ TypeEncoding(d) \in Seq(Byte) /\ Len(TypeEncoding(d)) = 1
         /\ TypeEncoding(d)[1] = TypeCode[d.type]
<1> DEFINE t == TypeCode[d.type]
<1>1. t \in 1 .. 9
  <2>1. d.type \in DataTypes
    BY DEF Data
  <2> QED
    BY <2>1, Kinds
<1>2. TypeEncoding(d) \in Seq(Byte) /\ Len(TypeEncoding(d)) = 1
  BY TypeEncodingType, TypeCodeOneByte
<1>3. TypeEncoding(d) = VarientEncoding(t)
  BY DEF TypeEncoding
<1> HIDE DEF t
<1>4. t \in Nat
  BY <1>1
<1>5. NumGroups(t) = 1 /\ VarientEncoding(t)[1] = GroupAt(t, 1 - 1) + 0
  <2>1. /\ Len(VarientEncoding(t)) = NumGroups(t)
        /\ \A j \in 1 .. NumGroups(t) : VarientEncoding(t)[j]
             = GroupAt(t, NumGroups(t) - j) + (IF j < NumGroups(t) THEN Radix ELSE 0)
    BY <1>4, EncodingBytes
  <2>2. NumGroups(t) = 1
    BY <1>2, <1>3, <2>1
  <2> QED
    BY <2>1, <2>2
<1>6. GroupAt(t, 0) = t
  <2>1. t \div 1 = t /\ t % Radix = t
    <3>1. t = 1 * t + 0 /\ 0 \in 0 .. 1 - 1
      BY <1>4
    <3>2. t = Radix * 0 + t /\ t \in 0 .. Radix - 1
      BY <1>1, RadixTyped
    <3>3. t \div 1 = t
      BY <1>4, <3>1, DivUnique
    <3>4. t % Radix = t
      BY <1>4, <3>2, DivUnique, RadixTyped
    <3> QED
      BY <3>3, <3>4
  <2> QED
    BY <2>1, RadixTyped DEF GroupAt
<1>7. VarientEncoding(t)[1] = t
  BY <1>4, <1>5, <1>6
<1> QED
  BY <1>2, <1>3, <1>7 DEF t

-----------------------------------------------------------------------------
(* A STRUCT, MAP or ARRAY as the items it is written as: its type, its     *)
(* count, the names, the sizes and the elements.                           *)
Items(x, c) == <<TypeEncoding(x), CountBytes(x)>> \o NameBytes(x) \o SizeBytes(c) \o c

(* The items of an object, one by one.                                     *)
LEMMA ItemsAre ==
  ASSUME NEW x \in Data, x.type \in CompositeTypes, NEW c \in Seq(Seq(Byte))
  PROVE  LET N == Len(x.names)
             n == Len(c)
         IN  /\ N \in Nat /\ n \in Nat
             /\ Items(x, c) \in Seq(Seq(Byte)) /\ Len(Items(x, c)) = 2 + N + n + n
             /\ Items(x, c)[1] = TypeEncoding(x) /\ Items(x, c)[2] = CountBytes(x)
             /\ \A k \in 1 .. N :
                  Items(x, c)[2 + k] = VarientEncoding(Len(x.names[k])) \o x.names[k]
             /\ \A k \in 1 .. n : Items(x, c)[2 + N + k] = VarientEncoding(Len(c[k]))
             /\ \A k \in 1 .. n : Items(x, c)[2 + N + n + k] = c[k]
<1> DEFINE N == Len(x.names)
           n == Len(c)
           S == Seq(Byte)
<1>1. PICK t, q, a, z : /\ t = TypeEncoding(x) /\ q = CountBytes(x)
                        /\ a = NameBytes(x) /\ z = SizeBytes(c)
  OBVIOUS
<1>2. t \in S /\ q \in S /\ a \in Seq(S) /\ z \in Seq(S) /\ Len(a) = N /\ Len(z) = n
  BY <1>1, CompositeHasCode, TypeEncodingType, CountBytesType, NameBytesType, SizeBytesType
<1>3. c \in Seq(S) /\ n \in Nat /\ N \in Nat
  BY <1>2, LenProperties
<1>4. ASSUME NEW k \in 1 .. N PROVE a[k] = VarientEncoding(Len(x.names[k])) \o x.names[k]
  <2>1. k \in DOMAIN x.names
    BY DEF Data
  <2> QED
    BY <1>1, <2>1 DEF NameBytes
<1>5. ASSUME NEW k \in 1 .. n PROVE z[k] = VarientEncoding(Len(c[k]))
  <2>1. k \in DOMAIN c
    BY LenProperties
  <2> QED
    BY <1>1, <2>1 DEF SizeBytes
<1>6. Items(x, c) = <<t, q>> \o a \o z \o c
  BY <1>1 DEF Items
<1> HIDE DEF N, n, S
<1>7. PICK h : h = <<t, q>>
  OBVIOUS
<1>8. h \in Seq(S) /\ Len(h) = 2 /\ h[1] = t /\ h[2] = q
  BY <1>2, <1>7
<1>9. PICK i1, i2, i3 : i1 = h \o a /\ i2 = i1 \o z /\ i3 = i2 \o c
  OBVIOUS
<1>10. /\ i1 \in Seq(S) /\ Len(i1) = 2 + N /\ \A k \in 1 .. 2 : i1[k] = h[k]
       /\ \A k \in 1 .. N : i1[2 + k] = a[k]
  <2>1. h \in Seq(S) /\ a \in Seq(S) /\ i1 = h \o a
    BY <1>2, <1>8, <1>9
  <2>2. /\ i1 \in Seq(S) /\ Len(i1) = Len(h) + Len(a)
        /\ \A k \in 1 .. Len(h) : i1[k] = h[k]
        /\ \A k \in 1 .. Len(a) : i1[Len(h) + k] = a[k]
    BY <2>1, ConcatProperties
  <2> QED
    BY <1>2, <1>8, <2>2
<1>11. /\ i2 \in Seq(S) /\ Len(i2) = 2 + N + n /\ \A k \in 1 .. 2 + N : i2[k] = i1[k]
       /\ \A k \in 1 .. n : i2[2 + N + k] = z[k]
  <2>1. i1 \in Seq(S) /\ z \in Seq(S) /\ i2 = i1 \o z
    BY <1>2, <1>9, <1>10
  <2>2. /\ i2 \in Seq(S) /\ Len(i2) = Len(i1) + Len(z)
        /\ \A k \in 1 .. Len(i1) : i2[k] = i1[k]
        /\ \A k \in 1 .. Len(z) : i2[Len(i1) + k] = z[k]
    BY <2>1, ConcatProperties
  <2> QED
    BY <1>2, <1>10, <2>2
<1>12. /\ i3 \in Seq(S) /\ Len(i3) = 2 + N + n + n /\ \A k \in 1 .. 2 + N + n : i3[k] = i2[k]
       /\ \A k \in 1 .. n : i3[2 + N + n + k] = c[k]
  <2>1. i2 \in Seq(S) /\ c \in Seq(S) /\ i3 = i2 \o c
    BY <1>3, <1>9, <1>11
  <2>2. /\ i3 \in Seq(S) /\ Len(i3) = Len(i2) + Len(c)
        /\ \A k \in 1 .. Len(i2) : i3[k] = i2[k]
        /\ \A k \in 1 .. Len(c) : i3[Len(i2) + k] = c[k]
    BY <2>1, ConcatProperties
  <2> QED
    BY <1>11, <2>2 DEF n
<1>13. i3 = Items(x, c)
  BY <1>6, <1>7, <1>9
<1>14. i3[1] = t /\ i3[2] = q
  <2>1. 1 \in 1 .. 2 + N /\ 2 \in 1 .. 2 + N /\ 1 \in 1 .. 2 + N + n /\ 2 \in 1 .. 2 + N + n
    BY <1>3
  <2> QED
    BY <1>8, <1>10, <1>11, <1>12, <2>1
<1>15. ASSUME NEW k \in 1 .. N PROVE i3[2 + k] = a[k]
  <2>1. 2 + k \in 1 .. 2 + N /\ 2 + k \in 1 .. 2 + N + n
    BY <1>3
  <2> QED
    BY <1>10, <1>11, <1>12, <2>1
<1>16. ASSUME NEW k \in 1 .. n PROVE i3[2 + N + k] = z[k]
  <2>1. 2 + N + k \in 1 .. 2 + N + n
    BY <1>3
  <2> QED
    BY <1>11, <1>12, <2>1
<1>17. /\ \A k \in 1 .. N : i3[2 + k] = VarientEncoding(Len(x.names[k])) \o x.names[k]
       /\ \A k \in 1 .. n : i3[2 + N + k] = VarientEncoding(Len(c[k]))
  BY <1>4, <1>5, <1>15, <1>16
<1>18. i3[1] = TypeEncoding(x) /\ i3[2] = CountBytes(x)
  BY <1>1, <1>14
<1> QED
  BY <1>3, <1>12, <1>13, <1>17, <1>18 DEF N, n, S

(* One behind the other they are the bytes of the object.                  *)
LEMMA FlattenItems ==
  ASSUME NEW x \in Data, x.type \in CompositeTypes, NEW c \in Seq(Seq(Byte))
  PROVE  FlattenSeq(Items(x, c)) = ObjectBytes(x, c)
<1>1. PICK t, q, a, z : /\ t = TypeEncoding(x) /\ q = CountBytes(x)
                        /\ a = NameBytes(x) /\ z = SizeBytes(c)
  OBVIOUS
<1>2. /\ t \in Seq(Byte) /\ q \in Seq(Byte) /\ a \in Seq(Seq(Byte)) /\ z \in Seq(Seq(Byte))
      /\ c \in Seq(Seq(Byte))
  BY <1>1, CompositeHasCode, TypeEncodingType, CountBytesType, NameBytesType, SizeBytesType
<1>3. PICK h1, h2 : h1 = <<t>> /\ h2 = <<q>>
  OBVIOUS
<1>4. /\ h1 \in Seq(Seq(Byte)) /\ FlattenSeq(h1) = t
      /\ h2 \in Seq(Seq(Byte)) /\ FlattenSeq(h2) = q
  BY <1>2, <1>3, FlattenOne
<1>5. h1 \o h2 = <<t, q>>
  <2>1. PICK S : t \in S /\ q \in S
    <3>1. t \in {t, q} /\ q \in {t, q}
      OBVIOUS
    <3> QED
      BY <3>1
  <2>2. /\ h1 \in Seq(S) /\ Len(h1) = 1 /\ h1[1] = t
        /\ h2 \in Seq(S) /\ Len(h2) = 1 /\ h2[1] = q
    BY <1>3, <2>1
  <2>3. PICK w : w = h1 \o h2
    OBVIOUS
  <2>4. /\ h1 \o h2 \in Seq(S) /\ Len(h1 \o h2) = Len(h1) + Len(h2)
        /\ \A i \in 1 .. Len(h1) : (h1 \o h2)[i] = h1[i]
        /\ \A i \in 1 .. Len(h2) : (h1 \o h2)[Len(h1) + i] = h2[i]
    <3>1. h1 \in Seq(S) /\ h2 \in Seq(S)
      BY <2>2
    <3> QED
      BY <3>1, ConcatProperties
  <2>5. w \in Seq(S) /\ Len(w) = 2 /\ w[1] = t /\ w[2] = q
    BY <2>2, <2>3, <2>4
  <2>6. w = <<t, q>>
    BY <2>1, <2>5
  <2> QED
    BY <2>3, <2>6
<1>6. PICK i0, i1, i2, i3 : i0 = h1 \o h2 /\ i1 = i0 \o a /\ i2 = i1 \o z /\ i3 = i2 \o c
  OBVIOUS
<1>7. i0 \in Seq(Seq(Byte)) /\ FlattenSeq(i0) = t \o q
  BY <1>4, <1>6, FlattenConcat
<1>8. i1 \in Seq(Seq(Byte)) /\ FlattenSeq(i1) = FlattenSeq(i0) \o FlattenSeq(a)
  BY <1>2, <1>6, <1>7, FlattenConcat, ZenonT(30)
<1>9. i2 \in Seq(Seq(Byte)) /\ FlattenSeq(i2) = FlattenSeq(i1) \o FlattenSeq(z)
  BY <1>2, <1>6, <1>8, FlattenConcat, ZenonT(30)
<1>10. FlattenSeq(i3) = FlattenSeq(i2) \o FlattenSeq(c)
  BY <1>2, <1>6, <1>9, FlattenConcat, ZenonT(30)
<1>11. PICK fa, fz, fc : fa = FlattenSeq(a) /\ fz = FlattenSeq(z) /\ fc = FlattenSeq(c)
  OBVIOUS
<1>12. fa \in Seq(Byte) /\ fz \in Seq(Byte) /\ fc \in Seq(Byte)
  BY <1>2, <1>11, FlattenType
<1>13. FlattenSeq(i3) = (((t \o q) \o fa) \o fz) \o fc
  BY <1>7, <1>8, <1>9, <1>10, <1>11
<1>14. (((t \o q) \o fa) \o fz) \o fc = t \o (((q \o fa) \o fz) \o fc)
  <2>0. /\ t \in Seq(Byte) /\ q \in Seq(Byte) /\ fa \in Seq(Byte)
        /\ fz \in Seq(Byte) /\ fc \in Seq(Byte)
    BY <1>2, <1>12
  <2>1. (t \o q) \o fa = t \o (q \o fa) /\ q \o fa \in Seq(Byte)
    BY <2>0, ConcatThree, SMTT(30)
  <2>2. PICK r : r = q \o fa
    OBVIOUS
  <2>3. (t \o q) \o fa = t \o r
    BY <2>1, <2>2
  <2>9. r \in Seq(Byte)
    BY <2>1, <2>2
  <2>4. (t \o r) \o fz = t \o (r \o fz) /\ r \o fz \in Seq(Byte)
    <3>1. t \in Seq(Byte) /\ r \in Seq(Byte) /\ fz \in Seq(Byte)
      BY <2>0, <2>9
    <3> QED
      BY <3>1, ConcatThree
  <2>5. PICK u : u = r \o fz
    OBVIOUS
  <2>6. (t \o r) \o fz = t \o u
    BY <2>4, <2>5
  <2>8. u \in Seq(Byte)
    BY <2>4, <2>5
  <2>7. (t \o u) \o fc = t \o (u \o fc)
    <3>1. t \in Seq(Byte) /\ u \in Seq(Byte) /\ fc \in Seq(Byte)
      BY <2>0, <2>8
    <3> QED
      BY <3>1, ConcatThree
  <2> QED
    BY <2>2, <2>3, <2>5, <2>6, <2>7
<1>15. ObjectBytes(x, c) = t \o (q \o fa \o fz \o fc)
  BY <1>1, <1>11, CompositeBytes
<1>16. Items(x, c) = i3
  BY <1>1, <1>5, <1>6 DEF Items
<1> QED
  BY <1>13, <1>14, <1>15, <1>16

-----------------------------------------------------------------------------
(* The bytes of the elements of an object.                                 *)
KidBytes(h, d) == [k \in DOMAIN h[d].kids |-> Wire(h, h[d].kids[k])]

(* The bytes of the elements, and those of the object from them.           *)
LEMMA KidBytesType ==
  ASSUME NEW h, WellBuilt(h), Grounded(h), NEW d \in DOMAIN h
  PROVE  /\ KidBytes(h, d) \in Seq(Seq(Byte)) /\ Len(KidBytes(h, d)) = Len(h[d].kids)
         /\ \A k \in 1 .. Len(h[d].kids) :
              KidBytes(h, d)[k] = Wire(h, h[d].kids[k]) /\ KidBytes(h, d)[k] \in Seq(Byte)
         /\ Wire(h, d) = ObjectBytes(h[d], KidBytes(h, d))
<1>1. /\ Len(h[d].kids) \in Nat /\ DOMAIN h[d].kids = 1 .. Len(h[d].kids)
      /\ \A k \in DOMAIN h[d].kids : h[d].kids[k] \in DOMAIN h
  BY KidsTyped
<1>2. ASSUME NEW k \in 1 .. Len(h[d].kids) PROVE Wire(h, h[d].kids[k]) \in Seq(Byte)
  BY <1>1, WireOfKids
<1>3. KidBytes(h, d) = [k \in 1 .. Len(h[d].kids) |-> Wire(h, h[d].kids[k])]
  BY <1>1, Zenon DEF KidBytes
<1>4. Wire(h, d) = ObjectBytes(h[d], KidBytes(h, d))
  BY WireOfKids, Zenon DEF KidBytes
<1>5. KidBytes(h, d) \in Seq(Seq(Byte)) /\ Len(KidBytes(h, d)) = Len(h[d].kids)
  BY <1>1, <1>2, <1>3
<1>6. ASSUME NEW k \in 1 .. Len(h[d].kids)
      PROVE  KidBytes(h, d)[k] = Wire(h, h[d].kids[k]) /\ KidBytes(h, d)[k] \in Seq(Byte)
  BY <1>2, <1>3
<1> QED
  BY <1>4, <1>5, <1>6

(* An object keeps its bytes when objects are added to the heap.           *)
LEMMA WireExtended ==
  ASSUME NEW h, WellBuilt(h), Grounded(h), NEW g, WellBuilt(g), Grounded(g),
         DOMAIN h \subseteq DOMAIN g, \A d \in DOMAIN h : g[d] = h[d]
  PROVE  \A d \in DOMAIN h : Wire(g, d) = Wire(h, d)
<1> DEFINE P == {d \in DOMAIN h : Wire(g, d) = Wire(h, d)}
<1>1. ASSUME NEW d \in DOMAIN h, \A k \in DOMAIN h[d].kids : h[d].kids[k] \in P
      PROVE  d \in P
  <2>1. KidBytes(g, d) = KidBytes(h, d)
    <3>1. DOMAIN g[d].kids = DOMAIN h[d].kids
      BY Zenon
    <3>2. \A k \in DOMAIN h[d].kids : Wire(g, g[d].kids[k]) = Wire(h, h[d].kids[k])
      BY <1>1, Zenon
    <3> QED
      BY <3>1, <3>2, Zenon DEF KidBytes
  <2>2. Wire(g, d) = ObjectBytes(g[d], KidBytes(g, d)) /\ Wire(h, d) = ObjectBytes(h[d], KidBytes(h, d))
    BY KidBytesType
  <2>3. Wire(g, d) = Wire(h, d)
    BY <2>1, <2>2
  <2> QED
    BY <2>3
<1>2. P \in SUBSET DOMAIN h
  OBVIOUS
<1> HIDE DEF P
<1>3. P = DOMAIN h
  BY <1>1, <1>2, HeapInduction
<1> QED
  BY <1>3 DEF P

-----------------------------------------------------------------------------
(* The tree of an object from the trees t of its elements.                 *)
TreeOf(x, t) == [type |-> x.type, value |-> x.value, names |-> x.names, kids |-> t]

KidTrees(h, d) == [k \in DOMAIN h[d].kids |-> Tree(h, h[d].kids[k])]

(* There is a function that gives every object its tree.  (HeapRecursion   *)
(* needs a set that holds all values; the trees have none that is at hand.)*)
LEMMA TreeExists ==
  ASSUME NEW h, WellBuilt(h), Grounded(h)
  PROVE  \E f : f = [d \in DOMAIN h |-> TreeOf(h[d], ValuesOf(f, h, d))]
<1> DEFINE D == DOMAIN h
           Sol(C, f) == /\ ClosedIn(h, C)
                        /\ f = [d \in C |-> TreeOf(h[d], ValuesOf(f, h, d))]
<1>0. ASSUME NEW C, NEW f, Sol(C, f)
      PROVE  C \subseteq D /\ \A d \in C : f[d] = TreeOf(h[d], ValuesOf(f, h, d))
  <2>1. f = [d \in C |-> TreeOf(h[d], ValuesOf(f, h, d))]
    BY <1>0
  <2>2. ASSUME NEW d \in C PROVE f[d] = TreeOf(h[d], ValuesOf(f, h, d))
    BY <2>1, Zenon
  <2> QED
    BY <1>0, <2>2 DEF ClosedIn
<1>1. ASSUME NEW C1, NEW f1, Sol(C1, f1), NEW C2, NEW f2, Sol(C2, f2),
             NEW x \in C1 \cap C2
      PROVE  f1[x] = f2[x]
  <2> DEFINE P == {d \in D : d \in C1 \cap C2 => f1[d] = f2[d]}
  <2>0. /\ ClosedIn(h, C1) /\ ClosedIn(h, C2)
        /\ \A d \in C1 : f1[d] = TreeOf(h[d], ValuesOf(f1, h, d))
        /\ \A d \in C2 : f2[d] = TreeOf(h[d], ValuesOf(f2, h, d))
    BY <1>0, <1>1
  <2>1. ASSUME NEW d \in D, \A k \in DOMAIN h[d].kids : h[d].kids[k] \in P
        PROVE  d \in P
    <3>1. SUFFICES ASSUME d \in C1 \cap C2 PROVE f1[d] = f2[d]
      OBVIOUS
    <3>2. \A k \in DOMAIN h[d].kids : h[d].kids[k] \in C1 \cap C2
      BY <2>0, <3>1 DEF ClosedIn
    <3>3. ValuesOf(f1, h, d) = ValuesOf(f2, h, d)
      BY <2>1, <3>2, ValuesAgree
    <3>4. f1[d] = TreeOf(h[d], ValuesOf(f1, h, d)) /\ f2[d] = TreeOf(h[d], ValuesOf(f2, h, d))
      BY <2>0, <3>1
    <3> QED
      BY <3>3, <3>4
  <2>2. P \in SUBSET D
    OBVIOUS
  <2> HIDE DEF P
  <2>3. P = D
    BY <2>1, <2>2, HeapInduction
  <2>4. x \in P
    BY <2>0, <2>3 DEF ClosedIn
  <2> QED
    BY <2>4 DEF P
<1> HIDE DEF Sol
<1> DEFINE Has(x, v) == \E C, f : Sol(C, f) /\ x \in C /\ f[x] = v
           P == {x \in D : \E C, f : Sol(C, f) /\ x \in C}
           g == [x \in P |-> CHOOSE v : Has(x, v)]
<1>2. ASSUME NEW C, NEW f, Sol(C, f), NEW x \in C
      PROVE  x \in P /\ g[x] = f[x]
  <2>1. x \in D
    BY <1>0, <1>2
  <2>2. Has(x, f[x]) /\ x \in P
    BY <1>2, <2>1
  <2>3. ASSUME NEW v, Has(x, v) PROVE v = f[x]
    <3>1. PICK C2, f2 : Sol(C2, f2) /\ x \in C2 /\ f2[x] = v
      BY <2>3
    <3> QED
      BY <1>1, <1>2, <3>1
  <2>4. g[x] = CHOOSE v : Has(x, v)
    BY <2>2
  <2> HIDE DEF Has, P, g
  <2>5. (CHOOSE v : Has(x, v)) = f[x]
    BY <2>2, <2>3, Zenon
  <2> QED
    BY <2>2, <2>4, <2>5
<1>3. ASSUME NEW x \in P PROVE \E C, f : Sol(C, f) /\ x \in C
  BY <1>3
<1>4. P \subseteq D /\ DOMAIN g = P
  OBVIOUS
<1>5. g = [x \in P |-> g[x]]
  OBVIOUS
<1> HIDE DEF P, g, Has
<1>6. ASSUME NEW x \in P
      PROVE  /\ \A k \in DOMAIN h[x].kids : h[x].kids[k] \in P
             /\ g[x] = TreeOf(h[x], ValuesOf(g, h, x))
  <2>1. PICK C, f : Sol(C, f) /\ x \in C
    BY <1>3
  <2>2. \A k \in DOMAIN h[x].kids : h[x].kids[k] \in C
    BY <2>1 DEF ClosedIn, Sol
  <2>3. f[x] = TreeOf(h[x], ValuesOf(f, h, x))
    BY <1>0, <2>1
  <2>4. \A k \in DOMAIN h[x].kids : h[x].kids[k] \in P /\ g[h[x].kids[k]] = f[h[x].kids[k]]
    BY <1>2, <2>1, <2>2
  <2>5. ValuesOf(g, h, x) = ValuesOf(f, h, x)
    BY <2>4, ValuesAgree
  <2>6. g[x] = f[x]
    BY <1>2, <2>1
  <2> QED
    BY <2>3, <2>4, <2>5, <2>6
<1>7. ClosedIn(h, P)
  BY <1>4, <1>6 DEF ClosedIn
<1>8. ASSUME NEW d \in D, \A k \in DOMAIN h[d].kids : h[d].kids[k] \in P
      PROVE  d \in P
  <2> DEFINE C == P \cup {d}
             v == TreeOf(h[d], ValuesOf(g, h, d))
             f == [x \in C |-> IF x = d THEN v ELSE g[x]]
  <2>1. SUFFICES ASSUME d \notin P PROVE FALSE
    OBVIOUS
  <2> HIDE DEF v
  <2>3. ClosedIn(h, C)
    BY <1>7, <1>8 DEF ClosedIn
  <2>5. ASSUME NEW x \in C PROVE f[x] = TreeOf(h[x], ValuesOf(f, h, x))
    <3>1. ASSUME NEW k \in DOMAIN h[x].kids PROVE f[h[x].kids[k]] = g[h[x].kids[k]]
      <4>1. h[x].kids[k] \in P
        BY <1>6, <1>8
      <4>2. h[x].kids[k] # d
        BY <2>1, <4>1
      <4> QED
        BY <4>1, <4>2
    <3> HIDE DEF f
    <3>2. ValuesOf(f, h, x) = ValuesOf(g, h, x)
      BY <3>1, ValuesAgree
    <3>3. CASE x = d
      <4>1. f[x] = v
        BY <3>3 DEF f
      <4> QED
        BY <3>2, <3>3, <4>1 DEF v
    <3>4. CASE x # d
      <4>1. f[x] = g[x] /\ x \in P
        BY <3>4 DEF f
      <4> QED
        BY <1>6, <3>2, <4>1
    <3> QED
      BY <3>3, <3>4
  <2>4. f = [x \in C |-> f[x]]
    OBVIOUS
  <2> HIDE DEF f
  <2>6. f = [x \in C |-> TreeOf(h[x], ValuesOf(f, h, x))]
    BY <2>4, <2>5, Zenon
  <2>7. Sol(C, f)
    BY <2>3, <2>6 DEF Sol
  <2>8. d \in C
    OBVIOUS
  <2> HIDE DEF C
  <2> QED
    BY <1>2, <2>1, <2>7, <2>8
<1>9. P = D
  <2>1. P \in SUBSET D
    BY <1>4
  <2> QED
    BY <1>8, <2>1, HeapInduction
<1>10. g = [x \in D |-> TreeOf(h[x], ValuesOf(g, h, x))]
  BY <1>5, <1>6, <1>9, Zenon
<1> QED
  BY <1>10

(* The tree of an object is made from those of what it holds.              *)
LEMMA TreeOfKids ==
  ASSUME NEW h, WellBuilt(h), Grounded(h), NEW d \in DOMAIN h
  PROVE  Tree(h, d) = TreeOf(h[d], KidTrees(h, d))
<1> DEFINE D == DOMAIN h
           E(g) == g = [x \in D |->
                     [type |-> h[x].type, value |-> h[x].value, names |-> h[x].names,
                      kids |-> [k \in DOMAIN h[x].kids |-> g[h[x].kids[k]]]]]
           w == CHOOSE g : E(g)
<1>1. \E g : E(g)
  <2>1. PICK f : f = [x \in D |-> TreeOf(h[x], ValuesOf(f, h, x))]
    BY TreeExists
  <2>2. E(f)
    BY <2>1, Zenon DEF TreeOf, ValuesOf
  <2> QED
    BY <2>2
<1>2. \A x \in D : Tree(h, x) = w[x]
  <2>1. ASSUME NEW x \in D PROVE Tree(h, x) = w[x]
    BY Zenon DEF Tree
  <2> QED
    BY <2>1
<1> HIDE DEF E
<1>3. E(w)
  BY <1>1, Zenon
<1> HIDE DEF w
<1>4. w[d] = TreeOf(h[d], [k \in DOMAIN h[d].kids |-> w[h[d].kids[k]]])
  BY <1>3, Zenon DEF E, TreeOf
<1>5. \A k \in DOMAIN h[d].kids : Tree(h, h[d].kids[k]) = w[h[d].kids[k]]
  BY <1>2, KidsTyped
<1>6. KidTrees(h, d) = [k \in DOMAIN h[d].kids |-> w[h[d].kids[k]]]
  BY <1>5, Zenon DEF KidTrees
<1> QED
  BY <1>2, <1>4, <1>6

(* An object keeps its tree when objects are added to the heap.            *)
LEMMA TreeExtended ==
  ASSUME NEW h, WellBuilt(h), Grounded(h), NEW g, WellBuilt(g), Grounded(g),
         DOMAIN h \subseteq DOMAIN g, \A d \in DOMAIN h : g[d] = h[d]
  PROVE  \A d \in DOMAIN h : Tree(g, d) = Tree(h, d)
<1> DEFINE P == {d \in DOMAIN h : Tree(g, d) = Tree(h, d)}
<1>1. ASSUME NEW d \in DOMAIN h, \A k \in DOMAIN h[d].kids : h[d].kids[k] \in P
      PROVE  d \in P
  <2>1. KidTrees(g, d) = KidTrees(h, d)
    <3>1. DOMAIN g[d].kids = DOMAIN h[d].kids
      BY Zenon
    <3>2. \A k \in DOMAIN h[d].kids : Tree(g, g[d].kids[k]) = Tree(h, h[d].kids[k])
      BY <1>1, Zenon
    <3> QED
      BY <3>1, <3>2, Zenon DEF KidTrees
  <2>2. Tree(g, d) = TreeOf(g[d], KidTrees(g, d)) /\ Tree(h, d) = TreeOf(h[d], KidTrees(h, d))
    BY TreeOfKids
  <2>3. Tree(g, d) = Tree(h, d)
    BY <2>1, <2>2
  <2> QED
    BY <2>3
<1>2. P \in SUBSET DOMAIN h
  OBVIOUS
<1> HIDE DEF P
<1>3. P = DOMAIN h
  BY <1>1, <1>2, HeapInduction
<1> QED
  BY <1>3 DEF P
=============================================================================
