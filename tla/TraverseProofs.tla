---------------------------- MODULE TraverseProofs --------------------------
(***************************************************************************)
(* Proofs about SchemaTraverse for every set of documents, also cyclic     *)
(* ones, and whatever the bound on the walk.                               *)
(***************************************************************************)
EXTENDS SchemaTraverse, DataLemmas

(* The document is one of Docs; the bound on the walk is not used below.   *)
DocOK == heap \in Docs

LEMMA HeapTyped ==
  ASSUME DocOK
  PROVE  /\ WellBuilt(heap) /\ heap \in Seq(Data) /\ heap # <<>>
         /\ root \in DOMAIN heap
         /\ \A d \in DOMAIN heap : /\ heap[d] \in Data /\ heap[d].value \in Seq(Int)
                                   /\ heap[d].kids \in Seq(DOMAIN heap)
<1>1. WellBuilt(heap) /\ heap # <<>>
  BY TraverseAssumption DEF DocOK
<1>2. heap \in Seq(Data)
  BY <1>1 DEF WellBuilt
<1>3. 1 \in DOMAIN heap /\ \A d \in DOMAIN heap : heap[d] \in Data
  BY <1>1, <1>2
<1> QED
  BY <1>1, <1>2, <1>3 DEF WellBuilt, Data, root

(* While the walk goes on, every set of composites that keeps itself alive *)
(* and holds the root has one of its own on the stack.                     *)
LoopInv ==
  /\ pc = "walk" =>
       \A C \in SUBSET DOMAIN heap :
         root \in C /\ Endless(heap, C) => \E k \in 1 .. Len(Stack) : Stack[k] \in C
  /\ pc = "done" => ~ Cyclic(heap, root)

IInv == DocOK /\ TypeOK /\ LoopInv

LEMMA IInvInit == Init => IInv
<1> SUFFICES ASSUME Init PROVE IInv
  OBVIOUS
<1>1. DocOK
  BY DEF Init, DocOK
<1>2. Stack = <<root>> /\ Stack \in Seq(DOMAIN heap) /\ ret = <<>> /\ pc = "walk"
  BY <1>1, HeapTyped DEF Init
<1>3. TypeOK
  BY <1>1, <1>2, HeapTyped, EmptySeq DEF TypeOK
<1>4. 1 \in 1 .. Len(Stack) /\ Stack[1] = root
  BY <1>2
<1>5. LoopInv
  BY <1>2, <1>4 DEF LoopInv
<1> QED
  BY <1>1, <1>3, <1>5 DEF IInv

LEMMA VisitPrimitiveKeepsIInv == IInv /\ VisitPrimitive => IInv'
<1> SUFFICES ASSUME IInv, VisitPrimitive PROVE IInv'
  OBVIOUS
<1>1. /\ pc = "walk" /\ Stack # <<>> /\ heap[Head(Stack)].type \in PrimitiveTypes
      /\ ret' = Append(ret, heap[Head(Stack)].value) /\ Stack' = Tail(Stack)
      /\ UNCHANGED <<heap, pc>>
  BY DEF VisitPrimitive, Walking
<1>2. DocOK /\ DocOK' /\ Stack \in Seq(DOMAIN heap) /\ ret \in Seq(Seq(Int))
  BY <1>1 DEF IInv, TypeOK, DocOK
<1>3. Head(Stack) \in DOMAIN heap /\ Tail(Stack) \in Seq(DOMAIN heap)
  BY <1>1, <1>2, HeadTailProperties
<1>4. ret' \in Seq(Seq(Int))
  BY <1>1, <1>2, <1>3, HeapTyped, AppendProperties
<1>5. TypeOK'
  BY <1>1, <1>2, <1>3, <1>4, HeapTyped DEF TypeOK
<1>6. ASSUME NEW C \in SUBSET DOMAIN heap, root \in C, Endless(heap, C)
      PROVE  \E k \in 1 .. Len(Tail(Stack)) : Tail(Stack)[k] \in C
  <2>1. PICK k \in 1 .. Len(Stack) : Stack[k] \in C
    BY <1>1, <1>6 DEF IInv, LoopInv
  <2>2. Head(Stack) \notin C
    BY <1>1, <1>6 DEF Endless, PrimitiveTypes, NumberTypes, CompositeTypes
  <2>3. <<>> \in Seq(DOMAIN heap) /\ <<>> \o Tail(Stack) = Tail(Stack)
    BY <1>1, <1>2
  <2> QED
    BY <1>1, <1>2, <2>1, <2>2, <2>3, StackStaysAlive
<1>7. LoopInv'
  BY <1>1, <1>6 DEF LoopInv
<1> QED
  BY <1>2, <1>5, <1>7 DEF IInv

LEMMA VisitCompositeKeepsIInv == IInv /\ VisitComposite => IInv'
<1> SUFFICES ASSUME IInv, VisitComposite PROVE IInv'
  OBVIOUS
<1> DEFINE kids == heap[Head(Stack)].kids
<1>1. /\ pc = "walk" /\ Stack # <<>> /\ Stack' = kids \o Tail(Stack)
      /\ UNCHANGED <<heap, ret, pc>>
  BY DEF VisitComposite, Walking, Pushed
<1>2. DocOK /\ DocOK' /\ Stack \in Seq(DOMAIN heap)
  BY <1>1 DEF IInv, TypeOK, DocOK
<1>3. Head(Stack) \in DOMAIN heap /\ Tail(Stack) \in Seq(DOMAIN heap)
  BY <1>1, <1>2, HeadTailProperties
<1>4. kids \in Seq(DOMAIN heap)
  BY <1>2, <1>3, HeapTyped
<1>5. Stack' \in Seq(DOMAIN heap)
  BY <1>1, <1>3, <1>4, ConcatProperties
<1>6. TypeOK'
  BY <1>1, <1>2, <1>5, HeapTyped DEF IInv, TypeOK
<1>7. ASSUME NEW C \in SUBSET DOMAIN heap, root \in C, Endless(heap, C)
      PROVE  \E k \in 1 .. Len(kids \o Tail(Stack)) : (kids \o Tail(Stack))[k] \in C
  <2>1. PICK k \in 1 .. Len(Stack) : Stack[k] \in C
    BY <1>1, <1>7 DEF IInv, LoopInv
  <2>2. Head(Stack) \in C => \E j \in DOMAIN kids : kids[j] \in C
    BY <1>7 DEF Endless
  <2> HIDE DEF kids
  <2> QED
    BY <1>1, <1>2, <1>4, <2>1, <2>2, StackStaysAlive
<1>8. LoopInv'
  BY <1>1, <1>7 DEF LoopInv
<1> QED
  BY <1>2, <1>6, <1>8 DEF IInv

LEMMA IInvNext == IInv /\ [Next]_vars => IInv'
<1> SUFFICES ASSUME IInv, [Next]_vars PROVE IInv'
  OBVIOUS
<1>1. CASE Return
  <2>1. pc = "walk" /\ Len(Stack) = 0 /\ pc' = "done" /\ UNCHANGED <<heap, Stack, ret>>
    BY <1>1 DEF Return
  <2>2. ~ Cyclic(heap, root)
    BY <2>1 DEF IInv, LoopInv, Cyclic
  <2> QED
    BY <2>1, <2>2 DEF IInv, DocOK, TypeOK, LoopInv
<1>2. CASE VisitWild \/ UNCHANGED vars
  BY <1>2 DEF VisitWild, IInv, DocOK, TypeOK, LoopInv, vars
<1> QED
  BY <1>1, <1>2, VisitPrimitiveKeepsIInv, VisitCompositeKeepsIInv DEF Next

THEOREM IInvHolds == Spec => []IInv
BY IInvInit, IInvNext, PTL DEF Spec

(* No walk follows a pointer to anything but an object of its document,    *)
(* for every well-built heap (schema_test.cc:24-35).                       *)
THEOREM WalkTyped == Spec => []TypeOK
<1>1. IInv => TypeOK
  BY DEF IInv
<1> QED
  BY <1>1, IInvHolds, PTL

(* A walk that returns had nothing to return to: no document with a        *)
(* composite below itself is ever walked to its end.                       *)
THEOREM CyclicNeverEnds == Spec => []CyclesNeverEnd
<1>1. IInv => CyclesNeverEnd
  BY DEF IInv, TypeOK, LoopInv, CyclesNeverEnd
<1> QED
  BY <1>1, IInvHolds, PTL

-----------------------------------------------------------------------------
(* The values below an object are its own or those below its elements.     *)
LEMMA ValuesOfKids ==
  ASSUME NEW h, WellBuilt(h), Grounded(h), NEW d \in DOMAIN h
  PROVE  /\ ValuesBelow(h, d) \in Seq(Seq(Int))
         /\ isPrimitive(h[d]) => ValuesBelow(h, d) = <<h[d].value>>
         /\ ~ isPrimitive(h[d]) => ValuesBelow(h, d) = FlattenSeq(BelowEach(h, h[d].kids))
<1> DEFINE D == DOMAIN h
           V == Seq(Seq(Int))
           Make(x, c) == IF isPrimitive(h[x]) THEN <<h[x].value>> ELSE FlattenSeq(c)
           E(g) == g = [x \in D |-> IF isPrimitive(h[x]) THEN <<h[x].value>>
                                    ELSE FlattenSeq([k \in DOMAIN h[x].kids |-> g[h[x].kids[k]]])]
           w == CHOOSE g : E(g)
<1>1. \A x \in D : h[x] \in Data /\ h[x].value \in Seq(Int)
  <2>1. ASSUME NEW x \in D PROVE h[x] \in Data
    BY ElementOfSeq DEF WellBuilt
  <2>2. ASSUME NEW x \in Data PROVE x.value \in Seq(Int)
    BY DEF Data
  <2> QED
    BY <2>1, <2>2
<1>2. ASSUME NEW x \in D, NEW c \in Seq(V) PROVE Make(x, c) \in V
  <2>1. FlattenSeq(c) \in V
    BY <1>2, FlattenType
  <2>2. <<h[x].value>> \in V
    BY <1>1
  <2> QED
    BY <2>1, <2>2
<1>3. \E g : E(g)
  <2> DEFINE b == [x \in D |-> [c \in Seq(V) |-> Make(x, c)]]
  <2>1. b \in [D -> [Seq(V) -> V]]
    <3> HIDE DEF Make, V
    <3> QED
      BY <1>2
  <2>2. PICK f \in [D -> V] : \A x \in D : f[x] = b[x][ValuesOf(f, h, x)]
    <3> HIDE DEF b, V
    <3> QED
      BY <2>1, HeapRecursion
  <2>3. ASSUME NEW x \in D
        PROVE  f[x] = Make(x, [k \in DOMAIN h[x].kids |-> f[h[x].kids[k]]])
    <3> HIDE DEF V, Make
    <3>1. ClosedIn(h, D) /\ \A k \in DOMAIN h[x].kids : h[x].kids[k] \in D
      BY KidsTyped DEF ClosedIn
    <3>2. ValuesOf(f, h, x) \in Seq(V)
      BY <3>1, ValuesTyped
    <3>3. f[x] = Make(x, ValuesOf(f, h, x))
      BY <2>2, <3>2
    <3> QED
      BY <3>3, Zenon DEF ValuesOf
  <2>4. f = [x \in D |-> Make(x, [k \in DOMAIN h[x].kids |-> f[h[x].kids[k]]])]
    <3> HIDE DEF Make
    <3>1. f = [x \in D |-> f[x]]
      OBVIOUS
    <3> QED
      BY <2>3, <3>1, Zenon
  <2> QED
    BY <2>4, Zenon
<1>4. \A x \in D : ValuesBelow(h, x) = w[x]
  <2>1. ASSUME NEW x \in D PROVE ValuesBelow(h, x) = w[x]
    BY Zenon DEF ValuesBelow
  <2> QED
    BY <2>1
<1> HIDE DEF E
<1>5. E(w)
  BY <1>3, Zenon
<1> HIDE DEF w
<1>6. \A x \in D : w[x] = Make(x, [k \in DOMAIN h[x].kids |-> w[h[x].kids[k]]])
  BY <1>5, Zenon DEF E
<1> DEFINE P == {x \in D : w[x] \in V}
<1> HIDE DEF Make, V
<1>7. P = D
  <2>1. ASSUME NEW x \in D, \A k \in DOMAIN h[x].kids : h[x].kids[k] \in P PROVE x \in P
    <3>1. [k \in DOMAIN h[x].kids |-> w[h[x].kids[k]]] \in Seq(V)
      <4>1. Len(h[x].kids) \in Nat /\ DOMAIN h[x].kids = 1 .. Len(h[x].kids)
        BY KidsTyped
      <4>2. \A k \in 1 .. Len(h[x].kids) : w[h[x].kids[k]] \in V
        BY <2>1, <4>1
      <4> QED
        BY <4>1, <4>2
    <3>2. w[x] \in V
      BY <1>2, <1>6, <3>1
    <3> QED
      BY <3>2
  <2>2. P \in SUBSET D
    OBVIOUS
  <2> HIDE DEF P
  <2> QED
    BY <2>1, <2>2, HeapInduction
<1>8. \A k \in DOMAIN h[d].kids : ValuesBelow(h, h[d].kids[k]) = w[h[d].kids[k]]
  BY <1>4, KidsTyped
<1>9. BelowEach(h, h[d].kids) = [k \in DOMAIN h[d].kids |-> w[h[d].kids[k]]]
  BY <1>8 DEF BelowEach
<1>10. w[d] \in V
  BY <1>7
<1>11. ValuesBelow(h, d) = Make(d, BelowEach(h, h[d].kids))
  BY <1>4, <1>6, <1>9
<1> HIDE DEF P
<1> QED
  BY <1>4, <1>10, <1>11, Zenon DEF Make, V
(* What is below some objects and then others.                             *)
LEMMA BelowBoth ==
  ASSUME NEW h, WellBuilt(h), Grounded(h),
         NEW s \in Seq(DOMAIN h), NEW t \in Seq(DOMAIN h)
  PROVE  /\ FlattenSeq(BelowEach(h, s)) \in Seq(Seq(Int))
         /\ FlattenSeq(BelowEach(h, t)) \in Seq(Seq(Int))
         /\ FlattenSeq(BelowEach(h, s \o t))
              = FlattenSeq(BelowEach(h, s)) \o FlattenSeq(BelowEach(h, t))
<1>1. ASSUME NEW u \in Seq(DOMAIN h)
      PROVE  /\ BelowEach(h, u) \in Seq(Seq(Seq(Int))) /\ Len(BelowEach(h, u)) = Len(u)
             /\ \A k \in 1 .. Len(u) : BelowEach(h, u)[k] = ValuesBelow(h, u[k])
  <2>1. Len(u) \in Nat /\ DOMAIN u = 1 .. Len(u)
    OBVIOUS
  <2>2. \A k \in 1 .. Len(u) : ValuesBelow(h, u[k]) \in Seq(Seq(Int))
    BY ElementOfSeq, ValuesOfKids
  <2>3. BelowEach(h, u) = [k \in 1 .. Len(u) |-> ValuesBelow(h, u[k])]
    BY <2>1, Zenon DEF BelowEach
  <2> QED
    BY <2>1, <2>2, <2>3
<1>2. PICK a, b, c : a = BelowEach(h, s) /\ b = BelowEach(h, t) /\ c = BelowEach(h, s \o t)
  OBVIOUS
<1>3. /\ s \o t \in Seq(DOMAIN h) /\ Len(s \o t) = Len(s) + Len(t)
      /\ Len(s) \in Nat /\ Len(t) \in Nat
      /\ \A k \in 1 .. Len(s) + Len(t) :
           (s \o t)[k] = IF k <= Len(s) THEN s[k] ELSE t[k - Len(s)]
  BY ConcatProperties
<1>4. a \in Seq(Seq(Seq(Int))) /\ Len(a) = Len(s)
      /\ \A k \in 1 .. Len(s) : a[k] = ValuesBelow(h, s[k])
  BY <1>1, <1>2
<1>5. b \in Seq(Seq(Seq(Int))) /\ Len(b) = Len(t)
      /\ \A k \in 1 .. Len(t) : b[k] = ValuesBelow(h, t[k])
  BY <1>1, <1>2
<1>6. c \in Seq(Seq(Seq(Int))) /\ Len(c) = Len(s) + Len(t)
      /\ \A k \in 1 .. Len(s) + Len(t) : c[k] = ValuesBelow(h, (s \o t)[k])
  BY <1>1, <1>2, <1>3
<1>7. /\ a \o b \in Seq(Seq(Seq(Int))) /\ Len(a \o b) = Len(a) + Len(b)
      /\ \A k \in 1 .. Len(a) + Len(b) :
           (a \o b)[k] = IF k <= Len(a) THEN a[k] ELSE b[k - Len(a)]
  <2>1. a \in Seq(Seq(Seq(Int))) /\ b \in Seq(Seq(Seq(Int)))
    BY <1>4, <1>5
  <2> QED
    BY <2>1, ConcatProperties
<1>8. ASSUME NEW k \in 1 .. Len(s) + Len(t) PROVE c[k] = (a \o b)[k]
  <2>1. CASE k <= Len(s)
    <3>1. k \in 1 .. Len(s)
      BY <1>3, <2>1
    <3> QED
      BY <1>3, <1>4, <1>5, <1>6, <1>7, <2>1, <3>1
  <2>2. CASE ~ (k <= Len(s))
    <3>1. k - Len(s) \in 1 .. Len(t)
      BY <1>3, <2>2
    <3> QED
      BY <1>3, <1>4, <1>5, <1>6, <1>7, <2>2, <3>1
  <2> QED
    BY <2>1, <2>2
<1>9. c = a \o b
  BY <1>4, <1>5, <1>6, <1>7, <1>8, SeqEqual
<1>10. a \in Seq(Seq(Seq(Int))) /\ b \in Seq(Seq(Seq(Int)))
  BY <1>4, <1>5
<1>11. /\ FlattenSeq(a) \in Seq(Seq(Int)) /\ FlattenSeq(b) \in Seq(Seq(Int))
       /\ FlattenSeq(a \o b) = FlattenSeq(a) \o FlattenSeq(b)
  BY <1>10, FlattenConcat, ZenonT(30)
<1> QED
  BY <1>2, <1>9, <1>11

(* What is below the top object comes first.                               *)
LEMMA BelowTop ==
  ASSUME NEW h, WellBuilt(h), Grounded(h), NEW s \in Seq(DOMAIN h), s # <<>>
  PROVE  FlattenSeq(BelowEach(h, s))
           = ValuesBelow(h, Head(s)) \o FlattenSeq(BelowEach(h, Tail(s)))
<1>1. PICK d, t : d = Head(s) /\ t = Tail(s)
  OBVIOUS
<1>2. d \in DOMAIN h /\ t \in Seq(DOMAIN h) /\ s = <<d>> \o t
  <2>1. d \in DOMAIN h /\ t \in Seq(DOMAIN h)
    BY <1>1, HeadTailProperties
  <2>2. s = <<d>> \o t
    BY <1>1
  <2> QED
    BY <2>1, <2>2
<1>3. <<d>> \in Seq(DOMAIN h)
  BY <1>2
<1>4. BelowEach(h, <<d>>) = <<ValuesBelow(h, d)>>
  BY DEF BelowEach
<1>5. ValuesBelow(h, d) \in Seq(Seq(Int))
  BY <1>2, ValuesOfKids
<1>6. FlattenSeq(BelowEach(h, <<d>>)) = ValuesBelow(h, d)
  BY <1>4, <1>5, FlattenOne
<1> QED
  BY <1>1, <1>2, <1>3, <1>6, BelowBoth

-----------------------------------------------------------------------------
(* The values found, then those below the stack, are those of the document.*)
OrderInv ==
  Grounded(heap) =>
    ret \o FlattenSeq(BelowEach(heap, Stack)) = ValuesBelow(heap, root)

LEMMA OrderInit == Init => OrderInv
<1> SUFFICES ASSUME Init, Grounded(heap)
             PROVE  ret \o FlattenSeq(BelowEach(heap, Stack)) = ValuesBelow(heap, root)
  BY DEF OrderInv
<1>1. WellBuilt(heap) /\ root \in DOMAIN heap
  BY HeapTyped DEF Init, DocOK
<1>2. ret = <<>> /\ Stack = <<root>>
  BY DEF Init
<1>3. BelowEach(heap, <<root>>) = <<ValuesBelow(heap, root)>>
  BY DEF BelowEach
<1>4. ValuesBelow(heap, root) \in Seq(Seq(Int))
  BY <1>1, ValuesOfKids
<1>5. FlattenSeq(BelowEach(heap, <<root>>)) = ValuesBelow(heap, root)
  BY <1>3, <1>4, FlattenOne
<1> QED
  BY <1>2, <1>4, <1>5, ConcatEmptySeq

LEMMA OrderNext == IInv /\ OrderInv /\ [Next]_vars => OrderInv'
<1> SUFFICES ASSUME IInv, OrderInv, [Next]_vars, Grounded(heap')
             PROVE  ret' \o FlattenSeq(BelowEach(heap', Stack')) = ValuesBelow(heap', root)
  BY DEF OrderInv
<1>1. heap' = heap
  BY DEF Next, VisitPrimitive, VisitComposite, VisitWild, Return, vars
<1>2. /\ WellBuilt(heap) /\ Grounded(heap) /\ Stack \in Seq(DOMAIN heap)
      /\ ret \in Seq(Seq(Int)) /\ DocOK
      /\ ret \o FlattenSeq(BelowEach(heap, Stack)) = ValuesBelow(heap, root)
  BY <1>1 DEF IInv, TypeOK, OrderInv
<1> SUFFICES ret' \o FlattenSeq(BelowEach(heap, Stack')) = ValuesBelow(heap, root)
  BY <1>1
<1>3. ASSUME Stack # <<>>
      PROVE  /\ Head(Stack) \in DOMAIN heap /\ Tail(Stack) \in Seq(DOMAIN heap)
             /\ FlattenSeq(BelowEach(heap, Stack))
                  = ValuesBelow(heap, Head(Stack)) \o FlattenSeq(BelowEach(heap, Tail(Stack)))
  BY <1>2, <1>3, HeadTailProperties, BelowTop
<1>4. CASE VisitPrimitive
  <2>1. /\ Stack # <<>> /\ heap[Head(Stack)].type \in PrimitiveTypes
        /\ ret' = Append(ret, heap[Head(Stack)].value) /\ Stack' = Tail(Stack)
    BY <1>4 DEF VisitPrimitive, Walking
  <2>2. PICK v, rest : v = heap[Head(Stack)].value /\ rest = FlattenSeq(BelowEach(heap, Tail(Stack)))
    OBVIOUS
  <2>3. v \in Seq(Int) /\ rest \in Seq(Seq(Int))
    BY <1>2, <1>3, <2>1, <2>2, HeapTyped, BelowBoth
  <2>4. ValuesBelow(heap, Head(Stack)) = <<v>>
    BY <1>2, <1>3, <2>1, <2>2, ValuesOfKids DEF isPrimitive
  <2>5. <<v>> \in Seq(Seq(Int)) /\ ret' = ret \o <<v>>
    BY <1>2, <2>1, <2>2, <2>3
  <2>6. (ret \o <<v>>) \o rest = ret \o (<<v>> \o rest)
    BY <1>2, <2>3, <2>5, ConcatThree, SMTT(30)
  <2> QED
    BY <1>2, <1>3, <2>1, <2>2, <2>4, <2>5, <2>6
<1>5. CASE VisitComposite
  <2>1. /\ Stack # <<>> /\ heap[Head(Stack)].type \in CompositeTypes
        /\ ret' = ret /\ Stack' = heap[Head(Stack)].kids \o Tail(Stack)
    BY <1>5 DEF VisitComposite, Walking, Pushed
  <2>2. heap[Head(Stack)].kids \in Seq(DOMAIN heap)
    BY <1>2, <1>3, <2>1, HeapTyped
  <2>3. ~ isPrimitive(heap[Head(Stack)])
    BY <2>1 DEF isPrimitive, CompositeTypes, PrimitiveTypes, NumberTypes
  <2>4. ValuesBelow(heap, Head(Stack)) = FlattenSeq(BelowEach(heap, heap[Head(Stack)].kids))
    BY <1>2, <1>3, <2>1, <2>3, ValuesOfKids
  <2>5. FlattenSeq(BelowEach(heap, Stack')) = FlattenSeq(BelowEach(heap, Stack))
    BY <1>2, <1>3, <2>1, <2>2, <2>4, BelowBoth
  <2> QED
    BY <1>2, <2>1, <2>5
<1>6. CASE VisitWild \/ Return \/ UNCHANGED vars
  BY <1>2, <1>6 DEF VisitWild, Return, vars
<1> QED
  BY <1>4, <1>5, <1>6 DEF Next

(* A walk finds the values in document order (README.md:22), at every      *)
(* step, in every heap without a cycle, however its objects are shared.    *)
THEOREM WalksInOrder == Spec => [](Grounded(heap) => WalkInOrder)
<1>1. OrderInv => (Grounded(heap) => WalkInOrder)
  BY DEF OrderInv, WalkInOrder
<1> QED
  BY <1>1, IInvHolds, OrderInit, OrderNext, PTL DEF Spec
=============================================================================
