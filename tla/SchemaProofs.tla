---------------------------- MODULE SchemaProofs ----------------------------
(***************************************************************************)
(* Proofs about SchemaClient for every set of Schemas, Primitives and      *)
(* names and any number of steps: every heap is WellBuilt, which Encoder   *)
(* and SchemaTraverse assume of their documents, and no field is lost.     *)
(***************************************************************************)
EXTENDS SchemaClient, SequenceTheorems, TLAPS

(* WellBuilt, object by object, in a heap of n objects.                    *)
ObjectOK(x, n) ==
  /\ x.kids \in Seq(1 .. n)
  /\ x.type = "STRUCT" => Len(x.names) = Len(x.kids)
  /\ x.type = "STRING" => x.value \in Seq(Byte)

LEMMA WellBuiltObjects ==
  ASSUME NEW h
  PROVE  WellBuilt(h) <=> /\ h \in Seq(Data)
                          /\ \A d \in 1 .. Len(h) : ObjectOK(h[d], Len(h))
<1>1. ASSUME h \in Seq(Data) PROVE DOMAIN h = 1 .. Len(h)
  BY <1>1
<1> QED
  BY <1>1 DEF WellBuilt, ObjectOK

(* New objects at the end of the heap leave it well built.                 *)
LEMMA HeapExtended ==
  ASSUME NEW h, WellBuilt(h), NEW xs \in Seq(Data),
         \A k \in 1 .. Len(xs) : ObjectOK(xs[k], Len(h) + Len(xs))
  PROVE  WellBuilt(h \o xs)
<1>1. h \in Seq(Data) /\ \A d \in 1 .. Len(h) : ObjectOK(h[d], Len(h))
  BY WellBuiltObjects
<1>2. /\ h \o xs \in Seq(Data) /\ Len(h \o xs) = Len(h) + Len(xs)
      /\ Len(h) \in Nat /\ Len(xs) \in Nat
      /\ \A d \in 1 .. Len(h) : (h \o xs)[d] = h[d]
      /\ \A d \in Len(h) + 1 .. Len(h) + Len(xs) : (h \o xs)[d] = xs[d - Len(h)]
  BY <1>1
<1>3. ASSUME NEW d \in 1 .. Len(h \o xs) PROVE ObjectOK((h \o xs)[d], Len(h \o xs))
  <2>1. CASE d \in 1 .. Len(h)
    <3>1. ObjectOK(h[d], Len(h)) /\ (h \o xs)[d] = h[d]
      BY <1>1, <1>2, <2>1
    <3>2. 1 .. Len(h) \subseteq 1 .. Len(h \o xs)
      BY <1>2
    <3>3. Seq(1 .. Len(h)) \subseteq Seq(1 .. Len(h \o xs))
      BY <3>2, SeqMonotonic
    <3> QED
      BY <3>1, <3>3 DEF ObjectOK
  <2>2. CASE d \notin 1 .. Len(h)
    <3>1. d - Len(h) \in 1 .. Len(xs) /\ d \in Len(h) + 1 .. Len(h) + Len(xs)
      BY <1>2, <2>2
    <3> QED
      BY <1>2, <3>1
  <2> QED
    BY <2>1, <2>2
<1> QED
  BY <1>2, <1>3, WellBuiltObjects

(* An object in the place of another leaves the heap well built.           *)
LEMMA ObjectReplaced ==
  ASSUME NEW h, WellBuilt(h), NEW a \in 1 .. Len(h), NEW x \in Data,
         ObjectOK(x, Len(h))
  PROVE  WellBuilt([h EXCEPT ![a] = x])
<1>1. h \in Seq(Data) /\ \A d \in 1 .. Len(h) : ObjectOK(h[d], Len(h))
  BY WellBuiltObjects
<1> DEFINE h2 == [h EXCEPT ![a] = x]
<1>2. h2 \in Seq(Data) /\ Len(h2) = Len(h)
  BY <1>1, ExceptSeq
<1>3. \A d \in 1 .. Len(h) : h2[d] = IF d = a THEN x ELSE h[d]
  BY <1>1
<1> QED
  BY <1>1, <1>2, <1>3, WellBuiltObjects

LEMMA ObjectTyped ==
  ASSUME NEW h, WellBuilt(h), NEW a \in DOMAIN h
  PROVE  /\ h \in Seq(Data) /\ DOMAIN h = 1 .. Len(h) /\ Len(h) \in Nat
         /\ a \in Nat \ {0} /\ a \in 1 .. Len(h)
         /\ h[a] \in Data /\ h[a].kids \in Seq(1 .. Len(h))
         /\ h[a].names \in Seq(Seq(Byte))
         /\ h[a].type = "STRUCT" => Len(h[a].names) = Len(h[a].kids)
<1>1. h \in Seq(Data) /\ \A d \in 1 .. Len(h) : ObjectOK(h[d], Len(h))
  BY WellBuiltObjects
<1>2. DOMAIN h = 1 .. Len(h) /\ Len(h) \in Nat
  BY <1>1
<1>3. h[a] \in Data /\ ObjectOK(h[a], Len(h))
  BY <1>1, <1>2
<1>4. h[a].names \in Seq(Seq(Byte))
  BY <1>3 DEF Data
<1> QED
  BY <1>1, <1>2, <1>3, <1>4 DEF ObjectOK

(* Objects are only added to: an object keeps its type, its elements and   *)
(* their names, each at its place.                                         *)
Grown(h, h2) ==
  \A d \in DOMAIN h :
    /\ d \in DOMAIN h2
    /\ h2[d].type = h[d].type
    /\ DOMAIN h[d].kids \subseteq DOMAIN h2[d].kids
    /\ \A k \in DOMAIN h[d].kids :
         h2[d].kids[k] = h[d].kids[k] /\ h2[d].names[k] = h[d].names[k]

LEMMA ExtendedIsGrown ==
  ASSUME NEW h \in Seq(Data), NEW xs \in Seq(Data)
  PROVE  Grown(h, h \o xs)
<1>1. \A d \in DOMAIN h : d \in DOMAIN (h \o xs) /\ (h \o xs)[d] = h[d]
  OBVIOUS
<1> QED
  BY <1>1 DEF Grown

(* add() of an Array and of a Struct.                                      *)
LEMMA ArrayAdded ==
  ASSUME NEW h, WellBuilt(h), NEW a \in DOMAIN h, NEW d \in DOMAIN h,
         h[a].type = "ARRAY"
  PROVE  /\ WellBuilt([h EXCEPT ![a].kids = Append(@, d)])
         /\ DOMAIN [h EXCEPT ![a].kids = Append(@, d)] = DOMAIN h
         /\ Grown(h, [h EXCEPT ![a].kids = Append(@, d)])
<1> DEFINE x == [h[a] EXCEPT !.kids = Append(@, d)]
           h2 == [h EXCEPT ![a] = x]
<1>1. /\ h \in Seq(Data) /\ a \in 1 .. Len(h) /\ d \in 1 .. Len(h) /\ d \in Nat
      /\ h[a] \in Data /\ h[a].kids \in Seq(1 .. Len(h)) /\ h[a].kids \in Seq(Nat)
  BY ObjectTyped DEF Data
<1>2. /\ Append(h[a].kids, d) \in Seq(1 .. Len(h))
      /\ Append(h[a].kids, d) \in Seq(Nat)
      /\ DOMAIN h[a].kids \subseteq DOMAIN Append(h[a].kids, d)
      /\ \A k \in DOMAIN h[a].kids : Append(h[a].kids, d)[k] = h[a].kids[k]
  BY <1>1, AppendProperties, SMTT(30)
<1>3. /\ x.kids = Append(h[a].kids, d) /\ x.names = h[a].names
      /\ x.type = "ARRAY" /\ x.value = h[a].value
      /\ x \in Data
  BY <1>1, <1>2 DEF Data
<1>4. ObjectOK(x, Len(h))
  BY <1>2, <1>3 DEF ObjectOK
<1> HIDE DEF x
<1>5. WellBuilt(h2)
  BY <1>1, <1>3, <1>4, ObjectReplaced
<1>6. DOMAIN h2 = DOMAIN h /\ Grown(h, h2)
  BY <1>1, <1>2, <1>3 DEF Grown
<1> QED
  BY <1>5, <1>6 DEF x

LEMMA FieldAdded ==
  ASSUME NEW h, WellBuilt(h), NEW a \in DOMAIN h, NEW d \in DOMAIN h,
         NEW name \in Seq(Byte), h[a].type = "STRUCT",
         NEW h2, h2 = WithField(h, a, name, d)
  PROVE  /\ WellBuilt(h2) /\ DOMAIN h2 = DOMAIN h /\ Grown(h, h2)
         /\ Len(h[a].kids) \in Nat /\ DOMAIN h[a].kids = 1 .. Len(h[a].kids)
         /\ DOMAIN h2[a].kids = 1 .. Len(h[a].kids) + 1
         /\ h2[a].kids[Len(h[a].kids) + 1] = d
         /\ h2[a].names[Len(h[a].kids) + 1] = name
<1> DEFINE x == [h[a] EXCEPT !.kids = Append(@, d), !.names = Append(@, name)]
<1>1. /\ h \in Seq(Data) /\ a \in 1 .. Len(h) /\ d \in 1 .. Len(h) /\ d \in Nat
      /\ h[a] \in Data /\ h[a].kids \in Seq(1 .. Len(h)) /\ h[a].kids \in Seq(Nat)
      /\ h[a].names \in Seq(Seq(Byte)) /\ Len(h[a].names) = Len(h[a].kids)
  BY ObjectTyped DEF Data
<1>2. /\ Append(h[a].kids, d) \in Seq(1 .. Len(h))
      /\ Append(h[a].kids, d) \in Seq(Nat)
      /\ DOMAIN h[a].kids \subseteq DOMAIN Append(h[a].kids, d)
      /\ \A k \in DOMAIN h[a].kids : Append(h[a].kids, d)[k] = h[a].kids[k]
      /\ Len(h[a].kids) \in Nat /\ DOMAIN h[a].kids = 1 .. Len(h[a].kids)
      /\ Len(Append(h[a].kids, d)) = Len(h[a].kids) + 1
      /\ DOMAIN Append(h[a].kids, d) = 1 .. Len(h[a].kids) + 1
      /\ Append(h[a].kids, d)[Len(h[a].kids) + 1] = d
  <2>1. /\ Append(h[a].kids, d) \in Seq(1 .. Len(h))
        /\ Append(h[a].kids, d) \in Seq(Nat)
    BY <1>1, AppendProperties
  <2>2. /\ \A k \in 1 .. Len(h[a].kids) : Append(h[a].kids, d)[k] = h[a].kids[k]
        /\ Len(h[a].kids) \in Nat /\ DOMAIN h[a].kids = 1 .. Len(h[a].kids)
        /\ Len(Append(h[a].kids, d)) = Len(h[a].kids) + 1
        /\ Append(h[a].kids, d)[Len(h[a].kids) + 1] = d
    BY <1>1, AppendProperties
  <2>3. DOMAIN Append(h[a].kids, d) = 1 .. Len(h[a].kids) + 1
    BY <2>1, <2>2
  <2> QED
    BY <2>1, <2>2, <2>3
<1>3. /\ Append(h[a].names, name) \in Seq(Seq(Byte))
      /\ Len(Append(h[a].names, name)) = Len(h[a].kids) + 1
      /\ \A k \in DOMAIN h[a].kids : Append(h[a].names, name)[k] = h[a].names[k]
      /\ Append(h[a].names, name)[Len(h[a].kids) + 1] = name
  <2> DEFINE names == h[a].names
  <2>1. names \in Seq(Seq(Byte)) /\ Len(names) = Len(h[a].kids)
    BY <1>1
  <2> HIDE DEF names
  <2>2. /\ Append(names, name) \in Seq(Seq(Byte))
        /\ Len(Append(names, name)) = Len(names) + 1
        /\ \A k \in 1 .. Len(names) : Append(names, name)[k] = names[k]
        /\ Append(names, name)[Len(names) + 1] = name
    BY <2>1, AppendProperties
  <2> QED
    BY <1>2, <2>1, <2>2 DEF names
<1>4. /\ x.kids = Append(h[a].kids, d) /\ x.names = Append(h[a].names, name)
      /\ x.type = "STRUCT" /\ x.value = h[a].value
      /\ x \in Data
  BY <1>1, <1>2, <1>3 DEF Data
<1>5. ObjectOK(x, Len(h))
  BY <1>2, <1>3, <1>4 DEF ObjectOK
<1>6. h2 = [h EXCEPT ![a] = x]
  BY <1>1 DEF WithField
<1> HIDE DEF x
<1>7. WellBuilt(h2)
  <2>1. WellBuilt([h EXCEPT ![a] = x])
    BY <1>1, <1>4, <1>5, ObjectReplaced
  <2> QED
    BY <1>6, <2>1
<1>8. DOMAIN h2 = DOMAIN h /\ h2[a] = x /\ \A e \in DOMAIN h : e # a => h2[e] = h[e]
  BY <1>1, <1>6
<1>9. Grown(h, h2)
  <2>1. ASSUME NEW e \in DOMAIN h
        PROVE  /\ e \in DOMAIN h2 /\ h2[e].type = h[e].type
               /\ DOMAIN h[e].kids \subseteq DOMAIN h2[e].kids
               /\ \A k \in DOMAIN h[e].kids :
                    h2[e].kids[k] = h[e].kids[k] /\ h2[e].names[k] = h[e].names[k]
    <3>1. CASE e = a
      BY <1>2, <1>3, <1>4, <1>8, <3>1
    <3>2. CASE e # a
      BY <1>8, <3>2
    <3> QED
      BY <3>1, <3>2
  <2> QED
    BY <2>1 DEF Grown
<1> QED
  BY <1>2, <1>3, <1>4, <1>7, <1>8, <1>9

-----------------------------------------------------------------------------
LEMMA NewTyped ==
  ASSUME NEW d \in {NewArray, NewStruct, Wild}
  PROVE  /\ d \in Data /\ d.kids = <<>> /\ d.names = <<>>
         /\ d.type \in {"ARRAY", "STRUCT", "WILD"}
<1>1. <<>> \in Seq(Int) /\ <<>> \in Seq(Nat) /\ <<>> \in Seq(Seq(Byte))
  BY EmptySeq
<1>2. NewArray \in Data
  BY <1>1 DEF NewArray, Data, DataTypes, CompositeTypes
<1>3. NewStruct \in Data
  BY <1>1 DEF NewStruct, Data, DataTypes, CompositeTypes
<1>4. Wild \in Data
  BY <1>1 DEF Wild, Data, DataTypes
<1> QED
  BY <1>2, <1>3, <1>4 DEF NewArray, NewStruct, Wild

With(x, k, n) == [x EXCEPT !.kids = k, !.names = n]

LEMMA WithTyped ==
  ASSUME NEW x \in Data, NEW k \in Seq(Nat), NEW n \in Seq(Seq(Byte))
  PROVE  /\ With(x, k, n) \in Data /\ With(x, k, n).type = x.type
         /\ With(x, k, n).kids = k /\ With(x, k, n).names = n
BY DEF Data, With

(* Every action: what it does to the heap.                                 *)
LEMMA HeapStep ==
  ASSUME TypeOK, [Next]_vars
  PROVE  WellBuilt(heap') /\ Grown(heap, heap')
<1>1. WellBuilt(heap) /\ heap \in Seq(Data)
  BY DEF TypeOK, WellBuilt
<1>2. ASSUME NEW d \in NewObjects, Make(d) PROVE WellBuilt(heap') /\ Grown(heap, heap')
  <2>1. d \in Data /\ ObjectOK(d, Len(heap) + 1)
    <3>1. CASE d \in Primitives
      <4>1. /\ d \in Data /\ d.type \in PrimitiveTypes /\ d.kids = <<>>
            /\ d.type = "STRING" => d.value \in Seq(Byte)
        BY <3>1, ClientAssumption
      <4> QED
        BY <4>1 DEF ObjectOK, PrimitiveTypes, NumberTypes
    <3>2. CASE d \in {NewArray, NewStruct, Wild}
      <4>1. /\ d \in Data /\ d.kids = <<>> /\ d.names = <<>>
            /\ d.type \in {"ARRAY", "STRUCT", "WILD"}
        BY <3>2, NewTyped
      <4>2. <<>> \in Seq(1 .. Len(heap) + 1)
        BY EmptySeq
      <4> QED
        BY <4>1, <4>2 DEF ObjectOK
    <3>3. ASSUME NEW key \in DOMAIN heap, NEW val \in DOMAIN heap, d = NewMap(key, val)
          PROVE  d \in Data /\ ObjectOK(d, Len(heap) + 1)
      <4>1. key \in 1 .. Len(heap) + 1 /\ val \in 1 .. Len(heap) + 1 /\ Len(heap) \in Nat
        BY <1>1
      <4>2. <<key, val>> \in Seq(1 .. Len(heap) + 1) /\ <<key, val>> \in Seq(Nat)
        BY <4>1
      <4> QED
        BY <3>3, <4>2 DEF NewMap, ObjectOK, Data, DataTypes, CompositeTypes
    <3> QED
      BY <1>2, <3>1, <3>2, <3>3 DEF NewObjects
  <2>2. heap' = heap \o <<d>> /\ <<d>> \in Seq(Data) /\ Len(<<d>>) = 1 /\ <<d>>[1] = d
    BY <1>1, <1>2, <2>1, AppendIsConcat DEF Make
  <2>3. \A k \in 1 .. Len(<<d>>) : ObjectOK(<<d>>[k], Len(heap) + Len(<<d>>))
    BY <2>1, <2>2
  <2> QED
    BY <1>1, <2>2, <2>3, HeapExtended, ExtendedIsGrown
<1>3. ASSUME NEW a \in DOMAIN heap, NEW d \in DOMAIN heap, AddToArray(a, d)
      PROVE  WellBuilt(heap') /\ Grown(heap, heap')
  BY <1>1, <1>3, ArrayAdded DEF AddToArray
<1>4. ASSUME NEW a \in DOMAIN heap, NEW d \in DOMAIN heap, NEW name \in Names,
             heap[a].type = "STRUCT", heap' = WithField(heap, a, name, d)
      PROVE  WellBuilt(heap') /\ Grown(heap, heap')
  <2>1. name \in Seq(Byte)
    BY ClientAssumption
  <2> QED
    BY <1>1, <1>4, <2>1, FieldAdded
<1>5. ASSUME NEW s \in Schemas, NEW name \in Names, Construct(s, name)
      PROVE  WellBuilt(heap') /\ Grown(heap, heap')
  <2> DEFINE A == [NewStruct EXCEPT !.kids = <<Len(heap) + 2>>, !.names = <<SchemaName>>]
             B == NewString(name)
  <2>1. heap' = heap \o <<A, B>>
    BY <1>5 DEF Construct
  <2>2. Len(heap) \in Nat /\ name \in Seq(Byte) /\ SchemaName \in Seq(Byte)
    BY <1>1, ClientAssumption
  <2>3. A \in Data /\ ObjectOK(A, Len(heap) + 2)
    <3>1. /\ <<Len(heap) + 2>> \in Seq(Nat) /\ <<Len(heap) + 2>> \in Seq(1 .. Len(heap) + 2)
          /\ <<SchemaName>> \in Seq(Seq(Byte))
      BY <2>2
    <3>2. NewStruct \in Data /\ NewStruct.type = "STRUCT"
      BY NewTyped DEF NewStruct
    <3>3. A = With(NewStruct, <<Len(heap) + 2>>, <<SchemaName>>)
      BY Zenon DEF With
    <3>4. /\ A \in Data /\ A.type = "STRUCT"
          /\ A.kids = <<Len(heap) + 2>> /\ A.names = <<SchemaName>>
      <4> DEFINE kids  == <<Len(heap) + 2>>
                 names == <<SchemaName>>
      <4>1. A = With(NewStruct, kids, names) /\ kids \in Seq(Nat) /\ names \in Seq(Seq(Byte))
        BY <3>1, <3>3
      <4> HIDE DEF A, kids, names
      <4>2. A \in Data /\ A.type = NewStruct.type /\ A.kids = kids /\ A.names = names
        BY <3>2, <4>1, WithTyped
      <4> QED
        BY <3>2, <4>2 DEF kids, names
    <3> HIDE DEF A
    <3>5. A.kids \in Seq(1 .. Len(heap) + 2)
      BY <3>1, <3>4
    <3>6. Len(A.names) = 1 /\ Len(A.kids) = 1
      BY <3>4
    <3>7. A.type # "STRING"
      BY <3>4
    <3> QED
      BY <3>4, <3>5, <3>6, <3>7, Zenon DEF ObjectOK
  <2>4. B \in Data /\ ObjectOK(B, Len(heap) + 2)
    <3>1. name \in Seq(Int)
      BY <2>2, SeqMonotonic, VarintAssumption DEF Byte
    <3> QED
      BY <2>2, <3>1 DEF NewString, Primitive, ObjectOK, Data, DataTypes, PrimitiveTypes
  <2> HIDE DEF A, B
  <2>5. /\ <<A, B>> \in Seq(Data) /\ Len(<<A, B>>) = 2
        /\ <<A, B>>[1] = A /\ <<A, B>>[2] = B
    BY <2>3, <2>4
  <2>6. \A k \in 1 .. Len(<<A, B>>) : ObjectOK(<<A, B>>[k], Len(heap) + Len(<<A, B>>))
    <3>1. ASSUME NEW k \in 1 .. 2 PROVE ObjectOK(<<A, B>>[k], Len(heap) + 2)
      <4>1. k = 1 \/ k = 2
        OBVIOUS
      <4> QED
        BY <2>3, <2>4, <2>5, <4>1
    <3> QED
      BY <2>5, <3>1
  <2> QED
    BY <1>1, <2>1, <2>5, <2>6, HeapExtended, ExtendedIsGrown
<1>6. ASSUME heap' = heap PROVE WellBuilt(heap') /\ Grown(heap, heap')
  BY <1>1, <1>6 DEF Grown
<1>7. ASSUME NEW s \in Schemas, NEW d \in DOMAIN heap, NEW name \in Names,
             add_field(s, name, d)
      PROVE  WellBuilt(heap') /\ Grown(heap, heap')
  <2>1. struct_[s] \in DOMAIN heap /\ heap[struct_[s]].type = "STRUCT"
    BY <1>7 DEF add_field, TypeOK
  <2> QED
    BY <1>4, <1>7, <2>1 DEF add_field
<1>8. CASE \/ \E d \in DOMAIN heap : ArrayWith(d)
           \/ \E s, t \in Schemas : Copy(s, t)
           \/ \E s \in Schemas, d \in DOMAIN heap : AddElement(s, d)
           \/ \E s \in Schemas : UseUnset(s)
           \/ UNCHANGED vars
  BY <1>6, <1>8 DEF ArrayWith, Copy, AddElement, UseUnset, vars
<1>9. ASSUME NEW a \in DOMAIN heap, NEW d \in DOMAIN heap, NEW name \in Names,
             AddToStruct(a, name, d)
      PROVE  WellBuilt(heap') /\ Grown(heap, heap')
  BY <1>4, <1>9 DEF AddToStruct
<1> QED
  BY <1>2, <1>3, <1>5, <1>7, <1>8, <1>9 DEF Next

-----------------------------------------------------------------------------
LEMMA TypeOKNext == TypeOK /\ [Next]_vars => TypeOK'
<1> SUFFICES ASSUME TypeOK, [Next]_vars PROVE TypeOK'
  OBVIOUS
<1> DEFINE Pointers == [Schemas -> {NULL} \cup DOMAIN heap]
           StructsTyped == \A s \in Schemas : struct_[s] # NULL => heap[struct_[s]].type = "STRUCT"
<1>1. WellBuilt(heap') /\ Grown(heap, heap') /\ heap \in Seq(Data) /\ Len(heap) \in Nat
  BY HeapStep DEF TypeOK, WellBuilt
<1>2. DOMAIN heap \subseteq DOMAIN heap' /\ DOMAIN heap \subseteq Nat
  BY <1>1 DEF Grown
<1>3. ASSUME struct_' \in Pointers,
             \A s \in Schemas : struct_'[s] # NULL => heap[struct_'[s]].type = "STRUCT",
             schema_' \in Pointers
      PROVE  /\ struct_' \in [Schemas -> {NULL} \cup DOMAIN heap']
             /\ \A s \in Schemas : struct_'[s] # NULL => heap'[struct_'[s]].type = "STRUCT"
             /\ schema_' \in [Schemas -> {NULL} \cup DOMAIN heap']
  BY <1>1, <1>2, <1>3 DEF Grown
<1>4. /\ struct_ \in Pointers /\ StructsTyped /\ schema_ \in Pointers
      /\ added \in [Schemas -> Seq(Field)] /\ replaced \subseteq Schemas
      /\ steps \in 0 .. MaxSteps /\ outcome \in {"running", "threw", "undefined"}
  BY DEF TypeOK
<1>5. ASSUME Running PROVE steps' \in 0 .. MaxSteps
  BY <1>4, <1>5, ClientAssumption DEF Running
<1>6. ASSUME Running, UNCHANGED <<struct_, schema_, history>>,
             outcome' \in {"running", "threw", "undefined"}
      PROVE  TypeOK'
  BY <1>1, <1>3, <1>4, <1>5, <1>6 DEF TypeOK, history
<1>7. ASSUME NEW s \in Schemas, NEW name \in Names, Construct(s, name) PROVE TypeOK'
  <2>1. /\ struct_' = [struct_ EXCEPT ![s] = Len(heap) + 1]
        /\ schema_' = [schema_ EXCEPT ![s] = Len(heap) + 1]
        /\ added' = [added EXCEPT ![s] = <<[name |-> SchemaName, data |-> Len(heap) + 2]>>]
        /\ replaced' = replaced \ {s} /\ UNCHANGED outcome /\ Running
    BY <1>7 DEF Construct
  <2>2. heap' = heap \o <<[NewStruct EXCEPT !.kids = <<Len(heap) + 2>>,
                                            !.names = <<SchemaName>>], NewString(name)>>
    BY <1>7 DEF Construct
  <2>3. DOMAIN heap' = 1 .. Len(heap) + 2 /\ heap'[Len(heap) + 1].type = "STRUCT"
    BY <1>1, <2>2 DEF NewStruct
  <2>4. /\ struct_' \in [Schemas -> {NULL} \cup DOMAIN heap']
        /\ schema_' \in [Schemas -> {NULL} \cup DOMAIN heap']
    BY <1>1, <1>2, <1>4, <2>1, <2>3
  <2>5. \A t \in Schemas : struct_'[t] # NULL => heap'[struct_'[t]].type = "STRUCT"
    BY <1>1, <1>4, <2>1, <2>3 DEF Grown
  <2>6. added' \in [Schemas -> Seq(Field)]
    <3>1. [name |-> SchemaName, data |-> Len(heap) + 2] \in Field
      BY <1>1, ClientAssumption DEF Field
    <3> QED
      BY <1>4, <2>1, <3>1
  <2> QED
    BY <1>1, <1>4, <1>5, <2>1, <2>4, <2>5, <2>6 DEF TypeOK
<1>8. ASSUME NEW s \in Schemas, NEW t \in Schemas, Copy(s, t) PROVE TypeOK'
  <2>1. /\ struct_' = [struct_ EXCEPT ![t] = struct_[s]]
        /\ schema_' = [schema_ EXCEPT ![t] = schema_[s]]
        /\ added' = [added EXCEPT ![t] = added[s]]
        /\ replaced' \subseteq Schemas /\ outcome' = outcome /\ Running
    BY <1>4, <1>8 DEF Copy, StructCopied
  <2>2. /\ struct_' \in Pointers /\ schema_' \in Pointers
        /\ \A u \in Schemas : struct_'[u] # NULL => heap[struct_'[u]].type = "STRUCT"
        /\ added' \in [Schemas -> Seq(Field)]
    BY <1>4, <2>1
  <2> QED
    BY <1>1, <1>3, <1>4, <1>5, <2>1, <2>2 DEF TypeOK
<1>9. ASSUME NEW s \in Schemas, NEW d \in DOMAIN heap, NEW name \in Names,
             add_field(s, name, d)
      PROVE  TypeOK'
  <2>1. /\ added' = [added EXCEPT ![s] = Append(@, [name |-> name, data |-> d])]
        /\ UNCHANGED <<struct_, schema_, replaced, outcome>> /\ Running
    BY <1>9 DEF add_field
  <2>2. [name |-> name, data |-> d] \in Field
    BY <1>2, ClientAssumption DEF Field
  <2>3. added' \in [Schemas -> Seq(Field)]
    BY <1>4, <2>1, <2>2
  <2> QED
    BY <1>1, <1>3, <1>4, <1>5, <2>1, <2>3 DEF TypeOK
<1>10. ASSUME NEW s \in Schemas, NEW d \in DOMAIN heap, AddElement(s, d) PROVE TypeOK'
  <2>1. /\ schema_' = [schema_ EXCEPT ![s] = d] /\ replaced' = replaced \cup {s}
        /\ UNCHANGED <<struct_, added, outcome>> /\ Running
    BY <1>10 DEF AddElement
  <2>2. schema_' \in Pointers /\ replaced' \subseteq Schemas
    BY <1>4, <2>1
  <2> QED
    BY <1>1, <1>3, <1>4, <1>5, <2>1, <2>2 DEF TypeOK
<1>11. CASE \/ \E d \in NewObjects : Make(d)
            \/ \E a, d \in DOMAIN heap : AddToArray(a, d)
            \/ \E a, d \in DOMAIN heap, name \in Names : AddToStruct(a, name, d)
            \/ \E d \in DOMAIN heap : ArrayWith(d)
            \/ \E s \in Schemas : UseUnset(s)
  <2>1. Running /\ UNCHANGED <<struct_, schema_, history>>
    BY <1>11 DEF Make, AddToArray, AddToStruct, ArrayWith, UseUnset
  <2>2. outcome' \in {"running", "threw", "undefined"}
    BY <1>4, <1>11 DEF Make, AddToArray, AddToStruct, ArrayWith, UseUnset
  <2> QED
    BY <1>6, <2>1, <2>2
<1>12. CASE UNCHANGED vars
  BY <1>12 DEF TypeOK, vars, history
<1> QED
  BY <1>7, <1>8, <1>9, <1>10, <1>11, <1>12 DEF Next

LEMMA TypeOKInit == Init => TypeOK
BY ClientAssumption DEF Init, TypeOK, WellBuilt, NULL

(* A program that uses the constructors, with every type name but those of *)
(* the composites, add(), add_field(), AddElement() and copies, of which   *)
(* the pointers may lead to no object (Wild): in every heap it builds each *)
(* pointer is to an object or to Wild, and struct_ and field_name_ of each *)
(* Struct are in step (schema.h:81-97).  (Not SetType() and SetValue().)   *)
(* Encoder and SchemaTraverse assume just that of their documents.         *)
THEOREM ClientBuildsWell == Spec => []TypeOK
BY TypeOKInit, TypeOKNext, PTL DEF Spec

-----------------------------------------------------------------------------
(* Fields in order.  A Schema that nobody replaced still shows the Struct  *)
(* it was made with, and that Struct holds what was added, in order.       *)
OrderInv ==
  /\ \A s \in Schemas :
       struct_[s] # NULL => InOrderIn(added[s], Fields(heap, struct_[s]))
  /\ \A s \in Schemas \ replaced : schema_[s] = struct_[s]

(* What is in order in a sequence is in order in a longer one.             *)
LEMMA InOrderInLonger ==
  ASSUME NEW s, NEW t, NEW t2, InOrderIn(s, t), DOMAIN t \subseteq DOMAIN t2,
         \A k \in DOMAIN t : t2[k] = t[k]
  PROVE  InOrderIn(s, t2)
<1>1. PICK at \in [DOMAIN s -> DOMAIN t] :
        /\ \A k \in DOMAIN s : t[at[k]] = s[k]
        /\ \A j, k \in DOMAIN s : j < k => at[j] < at[k]
  BY DEF InOrderIn
<1>2. at \in [DOMAIN s -> DOMAIN t2] /\ \A k \in DOMAIN s : t2[at[k]] = s[k]
  BY <1>1
<1> QED
  BY <1>1, <1>2 DEF InOrderIn

(* ... also with one element more at the end of both.                      *)
LEMMA InOrderWithLast ==
  ASSUME NEW S, NEW s \in Seq(S), NEW f \in S, NEW t, NEW n \in Nat,
         DOMAIN t = 1 .. n, InOrderIn(s, t), NEW t2, DOMAIN t2 = 1 .. n + 1,
         \A k \in 1 .. n : t2[k] = t[k], t2[n + 1] = f
  PROVE  InOrderIn(Append(s, f), t2)
<1>1. PICK at \in [DOMAIN s -> 1 .. n] :
        /\ \A k \in DOMAIN s : t[at[k]] = s[k]
        /\ \A j, k \in DOMAIN s : j < k => at[j] < at[k]
  BY DEF InOrderIn
<1> DEFINE m   == Len(s)
           s2  == Append(s, f)
           at2 == [k \in 1 .. m + 1 |-> IF k = m + 1 THEN n + 1 ELSE at[k]]
<1>2. /\ m \in Nat /\ DOMAIN s = 1 .. m /\ DOMAIN s2 = 1 .. m + 1
      /\ s2[m + 1] = f /\ \A k \in 1 .. m : s2[k] = s[k]
  OBVIOUS
<1>3. /\ at2[m + 1] = n + 1
      /\ \A k \in 1 .. m : at2[k] = at[k] /\ at[k] \in 1 .. n
  BY <1>1, <1>2
<1>4. at2 \in [DOMAIN s2 -> DOMAIN t2]
  BY <1>2, <1>3
<1> HIDE DEF at2, s2
<1>5. ASSUME NEW k \in 1 .. m + 1 PROVE t2[at2[k]] = s2[k]
  <2>1. CASE k = m + 1
    BY <1>2, <1>3, <2>1
  <2>2. CASE k # m + 1
    <3>1. k \in 1 .. m /\ at2[k] = at[k] /\ at[k] \in 1 .. n
      BY <1>2, <1>3, <2>2
    <3>2. t[at[k]] = s[k] /\ t2[at[k]] = t[at[k]] /\ s2[k] = s[k]
      BY <1>1, <1>2, <3>1
    <3> QED
      BY <3>1, <3>2
  <2> QED
    BY <2>1, <2>2
<1>6. ASSUME NEW j \in 1 .. m + 1, NEW k \in 1 .. m + 1, j < k PROVE at2[j] < at2[k]
  <2>1. j \in 1 .. m
    BY <1>2, <1>6
  <2>2. CASE k = m + 1
    BY <1>3, <2>1, <2>2
  <2>3. CASE k # m + 1
    <3>1. k \in 1 .. m
      BY <1>2, <2>3
    <3> QED
      BY <1>1, <1>2, <1>3, <1>6, <2>1, <3>1
  <2> QED
    BY <2>2, <2>3
<1>7. InOrderIn(s2, t2)
  BY <1>2, <1>4, <1>5, <1>6 DEF InOrderIn
<1> QED
  BY <1>7 DEF s2

LEMMA FieldsGrow ==
  ASSUME NEW h, NEW h2, Grown(h, h2), NEW d \in DOMAIN h, NEW s,
         InOrderIn(s, Fields(h, d))
  PROVE  InOrderIn(s, Fields(h2, d))
<1>1. /\ DOMAIN Fields(h, d) = DOMAIN h[d].kids
      /\ DOMAIN Fields(h2, d) = DOMAIN h2[d].kids
  BY DEF Fields
<1>2. /\ DOMAIN h[d].kids \subseteq DOMAIN h2[d].kids
      /\ \A k \in DOMAIN h[d].kids :
           h2[d].kids[k] = h[d].kids[k] /\ h2[d].names[k] = h[d].names[k]
  BY DEF Grown
<1>3. \A k \in DOMAIN h[d].kids : Fields(h2, d)[k] = Fields(h, d)[k]
  BY <1>2 DEF Fields
<1> QED
  BY <1>1, <1>2, <1>3, InOrderInLonger

LEMMA OrderInvNext == TypeOK /\ OrderInv /\ [Next]_vars => OrderInv'
<1> SUFFICES ASSUME TypeOK, OrderInv, [Next]_vars PROVE OrderInv'
  OBVIOUS
<1>1. WellBuilt(heap) /\ WellBuilt(heap') /\ Grown(heap, heap')
  BY HeapStep DEF TypeOK
<1>2. /\ struct_ \in [Schemas -> {NULL} \cup DOMAIN heap]
      /\ schema_ \in [Schemas -> {NULL} \cup DOMAIN heap]
      /\ added \in [Schemas -> Seq(Field)]
      /\ \A s \in Schemas : struct_[s] # NULL => heap[struct_[s]].type = "STRUCT"
  BY DEF TypeOK
<1>3. \A s \in Schemas : struct_[s] # NULL => InOrderIn(added[s], Fields(heap', struct_[s]))
  <2>1. ASSUME NEW s \in Schemas, struct_[s] # NULL
        PROVE  InOrderIn(added[s], Fields(heap', struct_[s]))
    <3>1. struct_[s] \in DOMAIN heap /\ InOrderIn(added[s], Fields(heap, struct_[s]))
      BY <1>2, <2>1 DEF OrderInv
    <3> QED
      BY <1>1, <3>1, FieldsGrow
  <2> QED
    BY <2>1
<1>4. ASSUME UNCHANGED <<struct_, schema_, history>> PROVE OrderInv'
  BY <1>3, <1>4 DEF OrderInv, history
<1>5. ASSUME NEW s \in Schemas, NEW name \in Names, Construct(s, name) PROVE OrderInv'
  <2> DEFINE str == Len(heap) + 1
             f   == [name |-> SchemaName, data |-> Len(heap) + 2]
             A   == [NewStruct EXCEPT !.kids = <<Len(heap) + 2>>, !.names = <<SchemaName>>]
  <2>1. /\ struct_' = [struct_ EXCEPT ![s] = str] /\ schema_' = [schema_ EXCEPT ![s] = str]
        /\ added' = [added EXCEPT ![s] = <<f>>] /\ replaced' = replaced \ {s}
        /\ heap' = heap \o <<A, NewString(name)>>
    BY <1>5 DEF Construct
  <2>2. A = With(NewStruct, <<Len(heap) + 2>>, <<SchemaName>>)
    BY Zenon DEF With
  <2>3. heap \in Seq(Data) /\ Len(heap) \in Nat /\ NewStruct \in Data
    BY <1>1, NewTyped DEF WellBuilt
  <2>4. A.kids = <<Len(heap) + 2>> /\ A.names = <<SchemaName>>
    <3>1. <<Len(heap) + 2>> \in Seq(Nat) /\ <<SchemaName>> \in Seq(Seq(Byte))
      BY <2>3, ClientAssumption
    <3> DEFINE kids == <<Len(heap) + 2>>
               names == <<SchemaName>>
    <3>2. A = With(NewStruct, kids, names) /\ kids \in Seq(Nat) /\ names \in Seq(Seq(Byte))
      BY <2>2, <3>1
    <3>3. NewStruct \in Data
      BY <2>3
    <3> HIDE DEF A, kids, names
    <3>4. A.kids = kids /\ A.names = names
      BY <3>2, <3>3, WithTyped
    <3> QED
      BY <3>4 DEF kids, names
  <2> HIDE DEF A
  <2>5. heap'[str] = A
    BY <2>1, <2>3
  <2>6. DOMAIN Fields(heap', str) = {1} /\ Fields(heap', str)[1] = f
    BY <2>4, <2>5 DEF Fields
  <2>7. InOrderIn(<<f>>, Fields(heap', str))
    <3> DEFINE at == [k \in {1} |-> 1]
    <3>1. DOMAIN <<f>> = {1} /\ at \in [{1} -> {1}] /\ at[1] = 1 /\ <<f>>[1] = f
      OBVIOUS
    <3> HIDE DEF at, f, str
    <3> QED
      BY <2>6, <3>1 DEF InOrderIn
  <2> HIDE DEF f, str
  <2>8. ASSUME NEW t \in Schemas, struct_'[t] # NULL
        PROVE  InOrderIn(added'[t], Fields(heap', struct_'[t]))
    <3>1. CASE t = s
      BY <1>2, <2>1, <2>7, <3>1
    <3>2. CASE t # s
      BY <1>2, <1>3, <2>1, <2>8, <3>2
    <3> QED
      BY <3>1, <3>2
  <2>9. \A t \in Schemas \ replaced' : schema_'[t] = struct_'[t]
    BY <1>2, <2>1 DEF OrderInv
  <2> QED
    BY <2>8, <2>9 DEF OrderInv
<1>6. ASSUME NEW s \in Schemas, NEW t \in Schemas, Copy(s, t) PROVE OrderInv'
  <2>1. /\ struct_' = [struct_ EXCEPT ![t] = struct_[s]]
        /\ schema_' = [schema_ EXCEPT ![t] = schema_[s]]
        /\ added' = [added EXCEPT ![t] = added[s]]
        /\ replaced' = IF s \in replaced THEN replaced \cup {t} ELSE replaced \ {t}
    BY <1>6 DEF Copy, StructCopied
  <2>2. ASSUME NEW u \in Schemas, struct_'[u] # NULL
        PROVE  InOrderIn(added'[u], Fields(heap', struct_'[u]))
    BY <1>2, <1>3, <2>1, <2>2
  <2>3. \A u \in Schemas \ replaced' : schema_'[u] = struct_'[u]
    BY <1>2, <2>1 DEF OrderInv
  <2> QED
    BY <2>2, <2>3 DEF OrderInv
<1>7. ASSUME NEW s \in Schemas, NEW d \in DOMAIN heap, NEW name \in Names,
             add_field(s, name, d)
      PROVE  OrderInv'
  <2> DEFINE str == struct_[s]
             f   == [name |-> name, data |-> d]
             n   == Len(heap[str].kids)
  <2>1. /\ heap' = WithField(heap, str, name, d) /\ str # NULL
        /\ added' = [added EXCEPT ![s] = Append(@, f)]
        /\ UNCHANGED <<struct_, schema_, replaced>>
    BY <1>7 DEF add_field
  <2>2. str \in DOMAIN heap /\ heap[str].type = "STRUCT" /\ name \in Seq(Byte)
    BY <1>2, <2>1, ClientAssumption
  <2>3. /\ n \in Nat /\ DOMAIN heap[str].kids = 1 .. n /\ DOMAIN heap'[str].kids = 1 .. n + 1
        /\ heap'[str].kids[n + 1] = d /\ heap'[str].names[n + 1] = name
    BY <1>1, <2>1, <2>2, FieldAdded
  <2>4. \A k \in 1 .. n : Fields(heap', str)[k] = Fields(heap, str)[k]
    <3>1. \A k \in 1 .. n : /\ heap'[str].kids[k] = heap[str].kids[k]
                            /\ heap'[str].names[k] = heap[str].names[k]
      BY <1>1, <2>2, <2>3 DEF Grown
    <3>2. ASSUME NEW k \in 1 .. n
          PROVE  Fields(heap', str)[k] = Fields(heap, str)[k]
      <4>1. k \in DOMAIN heap[str].kids /\ k \in DOMAIN heap'[str].kids
        BY <2>3, <3>2
      <4> HIDE DEF str, n
      <4>2. /\ Fields(heap, str)[k] = [name |-> heap[str].names[k], data |-> heap[str].kids[k]]
            /\ Fields(heap', str)[k] = [name |-> heap'[str].names[k], data |-> heap'[str].kids[k]]
        BY <4>1, Zenon DEF Fields
      <4> QED
        BY <3>1, <4>2
    <3> QED
      BY <3>2
  <2>5. /\ DOMAIN Fields(heap, str) = 1 .. n /\ DOMAIN Fields(heap', str) = 1 .. n + 1
        /\ Fields(heap', str)[n + 1] = f
    <3>1. n + 1 \in DOMAIN heap'[str].kids
      BY <2>3
    <3> HIDE DEF str, n
    <3>2. /\ DOMAIN Fields(heap, str) = DOMAIN heap[str].kids
          /\ DOMAIN Fields(heap', str) = DOMAIN heap'[str].kids
      BY Zenon DEF Fields
    <3>3. Fields(heap', str)[n + 1] = [name |-> heap'[str].names[n + 1], data |-> heap'[str].kids[n + 1]]
      BY <3>1, Zenon DEF Fields
    <3> QED
      BY <2>3, <3>2, <3>3
  <2>6. added[s] \in Seq(Field) /\ f \in Field /\ InOrderIn(added[s], Fields(heap, str))
    <3>1. d \in Nat
      BY <1>1, ObjectTyped
    <3> QED
      BY <1>2, <2>1, <2>2, <3>1 DEF Field, OrderInv
  <2> HIDE DEF f, n, str
  <2>7. InOrderIn(Append(added[s], f), Fields(heap', str))
    BY <2>3, <2>4, <2>5, <2>6, InOrderWithLast
  <2>8. ASSUME NEW u \in Schemas, struct_'[u] # NULL
        PROVE  InOrderIn(added'[u], Fields(heap', struct_'[u]))
    <3>1. CASE u = s
      BY <1>2, <2>1, <2>7, <3>1 DEF str
    <3>2. CASE u # s
      BY <1>2, <1>3, <2>1, <2>8, <3>2
    <3> QED
      BY <3>1, <3>2
  <2> QED
    BY <2>1, <2>8 DEF OrderInv
<1>8. ASSUME NEW s \in Schemas, NEW d \in DOMAIN heap, AddElement(s, d) PROVE OrderInv'
  <2>1. /\ schema_' = [schema_ EXCEPT ![s] = d] /\ replaced' = replaced \cup {s}
        /\ UNCHANGED <<struct_, added>>
    BY <1>8 DEF AddElement
  <2>2. \A u \in Schemas \ replaced' : schema_'[u] = struct_'[u]
    BY <1>2, <2>1 DEF OrderInv
  <2> QED
    BY <1>3, <2>1, <2>2 DEF OrderInv
<1>9. CASE \/ \E d \in NewObjects : Make(d)
           \/ \E a, d \in DOMAIN heap : AddToArray(a, d)
           \/ \E a, d \in DOMAIN heap, name \in Names : AddToStruct(a, name, d)
           \/ \E d \in DOMAIN heap : ArrayWith(d)
           \/ \E s \in Schemas : UseUnset(s)
           \/ UNCHANGED vars
  BY <1>4, <1>9 DEF Make, AddToArray, AddToStruct, ArrayWith, UseUnset, vars, history
<1> QED
  BY <1>5, <1>6, <1>7, <1>8, <1>9 DEF Next

(* Nothing added with add_field() is lost or moved, for every number of    *)
(* Schemas, copies and steps, unless AddElement() replaced the document    *)
(* (schema.h:136-144).                                                     *)
THEOREM NoFieldLost == Spec => []FieldsInOrder
<1>1. Init => OrderInv
  BY DEF Init, OrderInv
<1>2. TypeOK /\ OrderInv /\ [Next]_vars => OrderInv'
  BY OrderInvNext
<1>3. OrderInv => FieldsInOrder
  BY DEF OrderInv, FieldsInOrder
<1> QED
  BY <1>1, <1>2, <1>3, ClientBuildsWell, PTL DEF Spec
=============================================================================
