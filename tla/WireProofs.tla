----------------------------- MODULE WireProofs -----------------------------
(***************************************************************************)
(* Proofs about the bytes a first call of encode() returns, for every set  *)
(* of plain documents: entry by entry they are those of the byte format,   *)
(* and Encoder implements EncodeService.                                   *)
(***************************************************************************)
EXTENDS EncoderProofs

(* The bytes of the entries from i to j, one behind the other.             *)
Cat(s, i, j) == Joined([k \in 1 .. j + 1 - i |-> s[i - 1 + k].bytes], j + 1 - i)

(* An entry holds bytes.                                                   *)
LEMMA EntryBytes ==
  ASSUME NEW s \in Seq(Entry)
  PROVE  \A k \in 1 .. Len(s) : s[k].bytes \in Seq(Byte)
<1>1. ASSUME NEW k \in 1 .. Len(s) PROVE s[k].bytes \in Seq(Byte)
  <2>1. s[k] \in Entry
    BY ElementOfSeq
  <2> QED
    BY <2>1 DEF Entry
<1> QED
  BY <1>1

(* Nothing lies between a position and the one before it.                  *)
LEMMA CatNone ==
  ASSUME NEW s, NEW i \in Int, NEW j \in Int, j + 1 = i
  PROVE  Cat(s, i, j) = <<>>
<1>1. j + 1 - i = 0
  OBVIOUS
<1> QED
  BY <1>1, JoinedNone DEF Cat

(* One more entry at the end.                                              *)
LEMMA CatNext ==
  ASSUME NEW s, NEW i \in Int, NEW j \in Int, i <= j + 1,
         \A k \in i .. j + 1 : s[k].bytes \in Seq(Byte)
  PROVE  /\ Cat(s, i, j) \in Seq(Byte) /\ Cat(s, i, j + 1) \in Seq(Byte)
         /\ Cat(s, i, j + 1) = Cat(s, i, j) \o s[j + 1].bytes
<1>1. PICK m : m = j + 1 - i
  OBVIOUS
<1>2. m \in Nat /\ (j + 1) + 1 - i = m + 1 /\ i - 1 + (m + 1) = j + 1
  BY <1>1
<1>3. PICK f : f = [k \in 1 .. m |-> s[i - 1 + k].bytes]
  OBVIOUS
<1>4. PICK g : g = [k \in 1 .. m + 1 |-> s[i - 1 + k].bytes]
  OBVIOUS
<1>5. \A k \in 1 .. m + 1 : i - 1 + k \in i .. j + 1
  BY <1>1, <1>2
<1>6. /\ \A k \in 1 .. m + 1 : g[k] \in Seq(Byte)
      /\ \A k \in 1 .. m : f[k] = g[k]
      /\ g[m + 1] = s[j + 1].bytes
  BY <1>2, <1>3, <1>4, <1>5
<1>7. Joined(f, m) = Joined(g, m)
  BY <1>6, JoinedAgree
<1>8. /\ Joined(g, m) \in Seq(Byte) /\ Joined(g, m + 1) \in Seq(Byte)
      /\ Joined(g, m + 1) = Joined(g, m) \o g[m + 1]
  BY <1>2, <1>6, JoinedNext
<1>9. Cat(s, i, j) = Joined(f, m)
  BY <1>1, <1>3, Zenon DEF Cat
<1>10. Cat(s, i, j + 1) = Joined(g, m + 1)
  BY <1>2, <1>4, Zenon DEF Cat
<1> QED
  BY <1>6, <1>7, <1>8, <1>9, <1>10

(* Entries of bytes, one behind the other, are bytes.                      *)
LEMMA CatType ==
  ASSUME NEW s, NEW i \in Int, NEW j \in Int, i <= j + 1,
         \A k \in i .. j : s[k].bytes \in Seq(Byte)
  PROVE  Cat(s, i, j) \in Seq(Byte)
<1>1. CASE i = j + 1
  <2>1. Cat(s, i, j) = <<>> /\ <<>> \in Seq(Byte)
    BY <1>1, CatNone
  <2> QED
    BY <2>1
<1>2. CASE i # j + 1
  <2>1. PICK l : l = j - 1
    OBVIOUS
  <2>2. l \in Int /\ i <= l + 1 /\ l + 1 = j
    BY <1>2, <2>1
  <2>3. \A k \in i .. l + 1 : s[k].bytes \in Seq(Byte)
    BY <2>2
  <2>4. Cat(s, i, l + 1) \in Seq(Byte)
    BY <2>2, <2>3, CatNext
  <2> QED
    BY <2>2, <2>4
<1> QED
  BY <1>1, <1>2

(* Only the bytes of the entries matter.                                   *)
LEMMA CatAgree ==
  ASSUME NEW s, NEW r, NEW i \in Int, NEW j \in Int,
         \A k \in i .. j : s[k].bytes = r[k].bytes
  PROVE  Cat(s, i, j) = Cat(r, i, j)
<1>1. PICK m : m = j + 1 - i
  OBVIOUS
<1>2. \A k \in 1 .. m : i - 1 + k \in i .. j
  BY <1>1
<1>3. [k \in 1 .. m |-> s[i - 1 + k].bytes] = [k \in 1 .. m |-> r[i - 1 + k].bytes]
  BY <1>2
<1> QED
  BY <1>1, <1>3, Zenon DEF Cat

(* Entries side by side.                                                   *)
LEMMA CatJoin ==
  ASSUME NEW s, NEW i \in Int, NEW m \in Int, NEW e \in Int, i <= m, m <= e + 1,
         \A k \in i .. e : s[k].bytes \in Seq(Byte)
  PROVE  Cat(s, i, e) = Cat(s, i, m - 1) \o Cat(s, m, e)
<1> DEFINE T == {n \in Nat : m - 1 + n <= e =>
                   Cat(s, i, m - 1 + n) = Cat(s, i, m - 1) \o Cat(s, m, m - 1 + n)}
<1>1. Cat(s, i, m - 1) \in Seq(Byte)
  <2>1. \A k \in i .. m - 1 : s[k].bytes \in Seq(Byte)
    OBVIOUS
  <2>2. i <= (m - 1) + 1 /\ m - 1 \in Int
    OBVIOUS
  <2> QED
    BY <2>1, <2>2, CatType
<1>2. 0 \in T
  <2>1. m - 1 + 0 = m - 1 /\ m - 1 \in Int /\ (m - 1) + 1 = m
    OBVIOUS
  <2>2. Cat(s, m, m - 1) = <<>>
    BY <2>1, CatNone
  <2>3. Cat(s, i, m - 1) \o <<>> = Cat(s, i, m - 1)
    BY <1>1, ConcatEmptySeq
  <2> QED
    BY <2>1, <2>2, <2>3
<1>3. ASSUME NEW n \in T PROVE n + 1 \in T
  <2>1. SUFFICES ASSUME m - 1 + (n + 1) <= e
                 PROVE  Cat(s, i, m - 1 + (n + 1)) = Cat(s, i, m - 1) \o Cat(s, m, m - 1 + (n + 1))
    OBVIOUS
  <2>2. PICK j : j = m - 1 + n
    OBVIOUS
  <2>3. /\ n \in Nat /\ j \in Int /\ m - 1 + (n + 1) = j + 1
        /\ j + 1 <= e /\ i <= j + 1 /\ m <= j + 1
        /\ Cat(s, i, j) = Cat(s, i, m - 1) \o Cat(s, m, j)
    BY <2>1, <2>2
  <2>4. /\ \A k \in i .. j + 1 : s[k].bytes \in Seq(Byte)
        /\ \A k \in m .. j + 1 : s[k].bytes \in Seq(Byte)
        /\ s[j + 1].bytes \in Seq(Byte)
    BY <2>3
  <2>5. Cat(s, i, j + 1) = Cat(s, i, j) \o s[j + 1].bytes
    BY <2>3, <2>4, CatNext
  <2>6. Cat(s, m, j) \in Seq(Byte) /\ Cat(s, m, j + 1) = Cat(s, m, j) \o s[j + 1].bytes
    BY <2>3, <2>4, CatNext
  <2>7. (Cat(s, i, m - 1) \o Cat(s, m, j)) \o s[j + 1].bytes
          = Cat(s, i, m - 1) \o (Cat(s, m, j) \o s[j + 1].bytes)
    <3>1. PICK x, y, z : x = Cat(s, i, m - 1) /\ y = Cat(s, m, j) /\ z = s[j + 1].bytes
      OBVIOUS
    <3>2. x \in Seq(Byte) /\ y \in Seq(Byte) /\ z \in Seq(Byte)
      BY <1>1, <2>4, <2>6, <3>1
    <3>3. (x \o y) \o z = x \o (y \o z)
      BY <3>2, ConcatThree, SMTT(30)
    <3> QED
      BY <3>1, <3>3
  <2> HIDE DEF T
  <2> QED
    BY <2>3, <2>5, <2>6, <2>7
<1>4. T \in SUBSET Nat /\ 0 \in T /\ \A n \in T : n + 1 \in T
  BY <1>2, <1>3
<1> HIDE DEF T
<1>5. \A n \in Nat : n \in T
  BY <1>4, NatSet
<1>6. e + 1 - m \in Nat /\ m - 1 + (e + 1 - m) = e /\ e <= e
  OBVIOUS
<1> QED
  BY <1>5, <1>6 DEF T

(* A single entry.                                                         *)
LEMMA CatOne ==
  ASSUME NEW s, NEW i \in Int, s[i].bytes \in Seq(Byte)
  PROVE  Cat(s, i, i) = s[i].bytes
<1>1. PICK j : j = i - 1
  OBVIOUS
<1>2. j \in Int /\ j + 1 = i /\ i <= j + 1 /\ \A k \in i .. j + 1 : k = i
  BY <1>1
<1>3. Cat(s, i, j) = <<>>
  BY <1>2, CatNone
<1>4. \A k \in i .. j + 1 : s[k].bytes \in Seq(Byte)
  BY <1>2
<1>5. Cat(s, i, j + 1) = Cat(s, i, j) \o s[j + 1].bytes
  BY <1>2, <1>4, CatNext
<1>6. <<>> \o s[i].bytes = s[i].bytes
  BY ConcatEmptySeq
<1> QED
  BY <1>2, <1>3, <1>5, <1>6

(* The first entry and those behind it.                                    *)
LEMMA CatFirst ==
  ASSUME NEW s, NEW i \in Int, NEW e \in Int, i <= e,
         \A k \in i .. e : s[k].bytes \in Seq(Byte)
  PROVE  Cat(s, i, e) = s[i].bytes \o Cat(s, i + 1, e)
<1>1. PICK m : m = i + 1
  OBVIOUS
<1>2. m \in Int /\ i <= m /\ m <= e + 1 /\ m - 1 = i /\ s[i].bytes \in Seq(Byte)
  BY <1>1
<1>3. Cat(s, i, e) = Cat(s, i, m - 1) \o Cat(s, m, e)
  BY <1>2, CatJoin, ZenonT(30)
<1>4. Cat(s, i, i) = s[i].bytes
  BY <1>2, CatOne
<1> QED
  BY <1>1, <1>2, <1>3, <1>4

(* The bytes counted are the bytes there.                                  *)
LEMMA CatLength ==
  ASSUME NEW s, NEW i \in Int, NEW j \in Int, i <= j + 1,
         \A k \in i .. j : s[k].bytes \in Seq(Byte)
  PROVE  Len(Cat(s, i, j)) = BytesOf(s, i, j)
<1> DEFINE T == {n \in Nat : i - 1 + n <= j =>
                   Len(Cat(s, i, i - 1 + n)) = BytesOf(s, i, i - 1 + n)}
<1>1. 0 \in T
  <2>1. PICK l : l = i - 1
    OBVIOUS
  <2>2. i - 1 + 0 = l /\ l \in Int /\ l + 1 = i /\ l < i
    BY <2>1
  <2>3. Cat(s, i, l) = <<>> /\ BytesOf(s, i, l) = 0 /\ Len(<<>>) = 0
    BY <2>2, CatNone, BytesOfNone
  <2> QED
    BY <2>2, <2>3
<1>2. ASSUME NEW n \in T PROVE n + 1 \in T
  <2>1. SUFFICES ASSUME i - 1 + (n + 1) <= j
                 PROVE  Len(Cat(s, i, i - 1 + (n + 1))) = BytesOf(s, i, i - 1 + (n + 1))
    OBVIOUS
  <2>2. PICK l : l = i - 1 + n
    OBVIOUS
  <2>3. /\ n \in Nat /\ l \in Int /\ i - 1 + (n + 1) = l + 1 /\ l + 1 <= j /\ i <= l + 1
        /\ Len(Cat(s, i, l)) = BytesOf(s, i, l)
    BY <2>1, <2>2
  <2>4. /\ \A k \in i .. l + 1 : s[k].bytes \in Seq(Byte)
        /\ s[l + 1].bytes \in Seq(Byte)
    BY <2>3
  <2>5. \A k \in i .. l + 1 : Len(s[k].bytes) \in Int
    BY <2>4
  <2>6. BytesOf(s, i, l + 1) = BytesOf(s, i, l) + Len(s[l + 1].bytes)
    BY <2>3, <2>5, BytesOfNext
  <2>7. Cat(s, i, l) \in Seq(Byte) /\ Cat(s, i, l + 1) = Cat(s, i, l) \o s[l + 1].bytes
    BY <2>3, <2>4, CatNext
  <2>8. Len(Cat(s, i, l) \o s[l + 1].bytes) = Len(Cat(s, i, l)) + Len(s[l + 1].bytes)
    BY <2>4, <2>7, ConcatProperties
  <2> HIDE DEF T
  <2> QED
    BY <2>3, <2>6, <2>7, <2>8
<1>3. T \in SUBSET Nat /\ 0 \in T /\ \A n \in T : n + 1 \in T
  BY <1>1, <1>2
<1> HIDE DEF T
<1>4. \A n \in Nat : n \in T
  BY <1>3, NatSet
<1>5. j + 1 - i \in Nat /\ i - 1 + (j + 1 - i) = j /\ j <= j
  OBVIOUS
<1> QED
  BY <1>4, <1>5 DEF T

(* What the entries of a first call hold, entry by entry of the layout.    *)
KidWires(d) == [k \in DOMAIN heap[d].kids |-> Wire(heap, heap[d].kids[k])]
HeaderOf(d) == TypeEncoding(heap[d]) \o CountBytes(heap[d])
NamesOf(d)  == FlattenSeq(NameBytes(heap[d]))

(* A primitive is written at once, and only if it has bytes.               *)
Written(St) ==
  \A p \in 1 .. encodingIdx - 1 :
    ~ IsComposite(Head(St[p])) =>
      /\ encodeStream_[p].bytes = Wire(heap, Head(St[p]))
      /\ ~ Service!HasNoBytes(heap[Head(St[p])])

(* The entries from a filled composite to its end are its bytes.           *)
FilledIn(St) ==
  \A p \in DOMAIN meta_size_offset :
    /\ Cat(encodeStream_, p, meta_offset[p]) = Wire(heap, Head(St[p]))
    /\ ~ Service!HasNoBytes(heap[Head(St[p])])

(* The metadata made so far, and the children it has sizes of.             *)
MetadataAt(St) ==
  /\ pc = "names" =>
       scan.metadata = HeaderOf(scan.data)
                         \o Joined(NameBytes(heap[scan.data]), scan.field - 1)
  /\ pc = "scan" =>
       /\ scan.metadata = HeaderOf(scan.data) \o NamesOf(scan.data)
                            \o Joined(SizeBytes(KidWires(scan.data)), scan.field - 1)
       /\ Cat(encodeStream_, scan.pos + 1, scan.i - 1)
            = Joined(KidWires(scan.data), scan.field - 1)

(* What a visited object holds has been visited or is on the stack.        *)
Met(St) == {Head(St[p]) : p \in 1 .. encodingIdx - 1}
             \cup {TraverseStack[j] : j \in 1 .. Len(TraverseStack)}

Reached(St) ==
  \A p \in 1 .. encodingIdx - 1 :
    \A k \in 1 .. Len(KidsOf(Head(St[p]))) : KidsOf(Head(St[p]))[k] \in Met(St)

Summed ==
  /\ pc \in {"meta", "names", "scan", "sum", "returned"} => TraverseStack = <<>>
  /\ pc \in Working => bytestream = <<>> /\ sumIdx = 1
  /\ pc = "sum" => /\ sumIdx \in 1 .. Len(encodeStream_) + 1
                   /\ bytestream = Cat(encodeStream_, 1, sumIdx - 1)
  /\ pc = "returned" => bytestream = Cat(encodeStream_, 1, Len(encodeStream_))

Content(St) == Written(St) /\ FilledIn(St) /\ MetadataAt(St) /\ Reached(St) /\ Summed

ContentInv == calls = 1 /\ PlainHeap(heap) => \E St : Layout(St) /\ Content(St)

-----------------------------------------------------------------------------
LEMMA PlainGrounded ==
  ASSUME IInv, PlainHeap(heap)
  PROVE  WellBuilt(heap) /\ Grounded(heap)
<1>1. WellBuilt(heap)
  BY EncoderAssumption DEF IInv, DocInv
<1> QED
  BY <1>1 DEF PlainHeap, Grounded

(* The bytes of an object are made of those of what it holds.              *)
LEMMA WireTyped ==
  ASSUME IInv, PlainHeap(heap), NEW d \in DOMAIN heap
  PROVE  Wire(heap, d) \in Seq(Byte) /\ Wire(heap, d) = ObjectBytes(heap[d], KidWires(d))
BY PlainGrounded, WireOfKids DEF KidWires

(* The bytes of the elements, in their order.                              *)
LEMMA KidWiresTyped ==
  ASSUME IInv, PlainHeap(heap), NEW d \in DOMAIN heap
  PROVE  /\ KidWires(d) \in Seq(Seq(Byte)) /\ Len(KidWires(d)) = Len(heap[d].kids)
         /\ Len(heap[d].kids) \in Nat
         /\ \A k \in 1 .. Len(heap[d].kids) :
              heap[d].kids[k] \in DOMAIN heap /\ KidWires(d)[k] = Wire(heap, heap[d].kids[k])
<1>1. /\ Len(heap[d].kids) \in Nat /\ DOMAIN heap[d].kids = 1 .. Len(heap[d].kids)
      /\ \A k \in 1 .. Len(heap[d].kids) : heap[d].kids[k] \in DOMAIN heap
  BY PlainGrounded, KidsTyped
<1>2. \A k \in 1 .. Len(heap[d].kids) : Wire(heap, heap[d].kids[k]) \in Seq(Byte)
  BY <1>1, WireTyped
<1>3. KidWires(d) = [k \in 1 .. Len(heap[d].kids) |-> Wire(heap, heap[d].kids[k])]
  BY <1>1, Zenon DEF KidWires
<1> QED
  BY <1>1, <1>2, <1>3

(* What stands before the sizes is bytes.                                  *)
LEMMA HeaderTyped ==
  ASSUME IInv, NEW d \in DOMAIN heap, heap[d].type \in CompositeTypes
  PROVE  /\ HeaderOf(d) \in Seq(Byte) /\ NamesOf(d) \in Seq(Byte)
         /\ TypeEncoding(heap[d]) \in Seq(Byte) /\ CountBytes(heap[d]) \in Seq(Byte)
         /\ NameBytes(heap[d]) \in Seq(Seq(Byte))
         /\ Len(NameBytes(heap[d])) = Len(heap[d].names)
<1>1. heap[d] \in Data
  BY DocTyped DEF IInv
<1>2. /\ TypeEncoding(heap[d]) \in Seq(Byte) /\ CountBytes(heap[d]) \in Seq(Byte)
      /\ NameBytes(heap[d]) \in Seq(Seq(Byte)) /\ Len(NameBytes(heap[d])) = Len(heap[d].names)
  BY <1>1, CompositeHasCode, TypeEncodingType, CountBytesType, NameBytesType
<1>3. HeaderOf(d) \in Seq(Byte)
  BY <1>2, ConcatThree DEF HeaderOf
<1>4. NamesOf(d) \in Seq(Byte)
  BY <1>2, FlattenType DEF NamesOf
<1> QED
  BY <1>2, <1>3, <1>4

(* What VisitPrimitive appends are the bytes of the object.                *)
LEMMA EmitWrites ==
  ASSUME IInv, PlainHeap(heap), VisitPrimitive
  PROVE  /\ encodeStream_' = Append(encodeStream_, [bytes |-> Wire(heap, Top), data |-> Top])
         /\ Wire(heap, Top) \in Seq(Byte)
         /\ ~ Service!HasNoBytes(heap[Top])
<1>1. Top \in DOMAIN heap
  BY EmitEffect
<1>2. heap[Top] \in Data /\ (HasTypeCode(heap[Top]) => TypeEncoding(heap[Top]) \in Seq(Byte))
      /\ (heap[Top].type = "STRING" => heap[Top].value \in Seq(Byte))
  BY <1>1, DocTyped, TypeEncodingType DEF IInv
<1>3. Wire(heap, Top) \in Seq(Byte) /\ Wire(heap, Top) = ObjectBytes(heap[Top], KidWires(Top))
  BY <1>1, WireTyped
<1>4. ASSUME VisitString
      PROVE  /\ EmitPrimitive(Wire(heap, Top))
             /\ ~ Service!HasNoBytes(heap[Top])
  <2>1. heap[Top].type = "STRING"
    BY <1>4 DEF VisitString, Visiting
  <2>2. Len(heap[Top].value) <= SSO
    BY <1>1, <2>1 DEF PlainHeap
  <2>3. DanglingReads(heap[Top].value) = {heap[Top].value}
    BY <2>2 DEF DanglingReads
  <2>4. EmitPrimitive(TypeEncoding(heap[Top])
                        \o VarientEncoding(Len(heap[Top].value)) \o heap[Top].value)
    BY <1>4, <2>3 DEF VisitString
  <2>5. /\ VarientEncoding(Len(heap[Top].value)) \in Seq(Byte) /\ heap[Top].value \in Seq(Byte)
        /\ TypeEncoding(heap[Top]) \in Seq(Byte)
    <3>2. HasTypeCode(heap[Top])
      BY <2>1 DEF HasTypeCode, TypeCode
    <3>1. Len(heap[Top].value) \in Nat
      BY <1>2, <2>1
    <3> QED
      BY <1>2, <2>1, <3>1, <3>2, VarientEncodingType
  <2>6. TypeEncoding(heap[Top]) \o VarientEncoding(Len(heap[Top].value)) \o heap[Top].value
          = Wire(heap, Top)
    <3>1. ObjectBytes(heap[Top], KidWires(Top))
            = TypeEncoding(heap[Top])
                \o (VarientEncoding(Len(heap[Top].value)) \o heap[Top].value)
      BY <2>1, StringBytes
    <3>2. PICK t, l, v : /\ t = TypeEncoding(heap[Top]) /\ v = heap[Top].value
                         /\ l = VarientEncoding(Len(heap[Top].value))
      OBVIOUS
    <3>3. t \in Seq(Byte) /\ l \in Seq(Byte) /\ v \in Seq(Byte)
      BY <1>2, <2>5, <3>2
    <3>4. t \o (l \o v) = (t \o l) \o v
      BY <3>3, ConcatThree
    <3> QED
      BY <1>3, <3>1, <3>2, <3>4, Zenon
  <2>7. ~ Service!HasNoBytes(heap[Top])
    BY <2>1 DEF Service!HasNoBytes, Service!NumberTypes, Service!CompositeTypes
  <2> QED
    BY <2>4, <2>6, <2>7, Zenon
<1>5. ASSUME VisitNumber
      PROVE  /\ EmitPrimitive(Wire(heap, Top))
             /\ ~ Service!HasNoBytes(heap[Top])
  <2>1. /\ heap[Top].type \in NumberTypes /\ StoiReads(heap[Top].value)
        /\ heap[Top].value[1] >= 0
        /\ EmitPrimitive(TypeEncoding(heap[Top]) \o VarientEncoding(heap[Top].value[1]))
    BY <1>5 DEF VisitNumber, Visiting
  <2>2. heap[Top].value # <<>> /\ heap[Top].value[1] \in -IntMax-1 .. IntMax
    BY <2>1 DEF StoiReads
  <2>3. Wire(heap, Top) = TypeEncoding(heap[Top]) \o VarientEncoding(heap[Top].value[1])
    BY <1>3, <2>1, <2>2, NumberBytes
  <2>4. heap[Top].value[1] \in 0 .. IntMax
    BY <2>1, <2>2, IntAssumption
  <2>5. ~ Service!HasNoBytes(heap[Top])
    BY <2>1, <2>2, <2>4 DEF Service!HasNoBytes, Service!CompositeTypes, NumberTypes
  <2> QED
    BY <2>1, <2>3, <2>5, Zenon
<1>6. ~ VisitOther
  BY <1>1 DEF VisitOther, Visiting, PlainHeap
<1> QED
  BY <1>3, <1>4, <1>5, <1>6 DEF EmitPrimitive, VisitPrimitive

(* Every step of a first call keeps the content.                           *)
LEMMA ReachedGrows ==
  ASSUME IInv, NEW St, Trace(St), Reached(St), TraverseStack # <<>>, heap' = heap,
         encodingIdx' = encodingIdx + 1, encodingIdx >= 1,
         TraverseStack' = KidsOf(Top) \o Tail(TraverseStack),
         NEW S, Head(S[encodingIdx]) = Top, \A p \in 1 .. encodingIdx : S[p] = St[p]
  PROVE  Reached(S)'
<1>1. /\ TraverseStack \in Seq(DOMAIN heap) /\ encodingIdx \in Nat /\ Top \in DOMAIN heap
      /\ (encodingIdx + 1) - 1 = encodingIdx
  <2>1. TraverseStack \in Seq(DOMAIN heap) /\ encodingIdx \in Nat
    BY DEF IInv, TypeOK
  <2> QED
    BY <2>1, HeadTailProperties DEF Top
<1>2. PICK k : k = KidsOf(Top)
  OBVIOUS
<1>3. k \in Seq(DOMAIN heap) /\ \A d : KidsOf(d)' = KidsOf(d)
  BY <1>1, <1>2, KidsOfTyped DEF KidsOf
<1>4. /\ Len(k) \in Nat /\ Len(TraverseStack) \in Nat /\ Top = TraverseStack[1]
      /\ Len(TraverseStack') = Len(k) + (Len(TraverseStack) - 1)
      /\ \A j \in 1 .. Len(k) : TraverseStack'[j] = k[j]
      /\ \A j \in 2 .. Len(TraverseStack) : TraverseStack'[Len(k) + (j - 1)] = TraverseStack[j]
  <2>1. /\ Tail(TraverseStack) \in Seq(DOMAIN heap)
        /\ Len(Tail(TraverseStack)) = Len(TraverseStack) - 1
        /\ \A j \in 1 .. Len(TraverseStack) - 1 : Tail(TraverseStack)[j] = TraverseStack[j + 1]
    BY <1>1, HeadTailProperties
  <2>2. PICK r : r = Tail(TraverseStack)
    OBVIOUS
  <2>3. /\ r \in Seq(DOMAIN heap) /\ Len(r) = Len(TraverseStack) - 1
        /\ TraverseStack' = k \o r
        /\ \A j \in 1 .. Len(TraverseStack) - 1 : r[j] = TraverseStack[j + 1]
    BY <1>2, <2>1, <2>2
  <2>4. /\ Len(k \o r) = Len(k) + Len(r)
        /\ \A j \in 1 .. Len(k) + Len(r) :
             (k \o r)[j] = IF j <= Len(k) THEN k[j] ELSE r[j - Len(k)]
    BY <1>3, <2>3, ConcatProperties
  <2>5. Len(k) \in Nat /\ Len(r) \in Nat /\ Len(TraverseStack) \in Nat
    BY <1>1, <1>3, <2>3
  <2>6. ASSUME NEW j \in 2 .. Len(TraverseStack)
        PROVE  TraverseStack'[Len(k) + (j - 1)] = TraverseStack[j]
    <3>1. PICK i, q : i = j - 1 /\ q = Len(k) + (j - 1)
      OBVIOUS
    <3>2. /\ q \in 1 .. Len(k) + Len(r) /\ ~ (q <= Len(k)) /\ q - Len(k) = i
          /\ i \in 1 .. Len(TraverseStack) - 1 /\ i + 1 = j
      <4>1. Len(r) = Len(TraverseStack) - 1
        BY <2>3
      <4> QED
        BY <2>5, <3>1, <4>1
    <3>3. (k \o r)[q] = r[i]
      BY <2>4, <3>2
    <3>4. r[i] = TraverseStack[j]
      BY <2>3, <3>2
    <3>5. TraverseStack' = k \o r
      BY <2>3
    <3> QED
      BY <3>1, <3>3, <3>4, <3>5
  <2>7. \A j \in 1 .. Len(k) : TraverseStack'[j] = k[j]
    BY <2>3, <2>4, <2>5
  <2>8. Top = TraverseStack[1]
    BY <1>1 DEF Top
  <2>9. Len(TraverseStack') = Len(k) + (Len(TraverseStack) - 1)
    BY <2>3, <2>4
  <2> QED
    BY <2>5, <2>6, <2>7, <2>8, <2>9
<1>5. ASSUME NEW x \in Met(St) PROVE x \in Met(S)'
  <2>1. \A p \in 1 .. encodingIdx : Head(S[p]) \in Met(S)'
    BY <1>1 DEF Met
  <2>2. CASE x \in {Head(St[p]) : p \in 1 .. encodingIdx - 1}
    <3>1. PICK p \in 1 .. encodingIdx - 1 : x = Head(St[p])
      BY <2>2
    <3>2. p \in 1 .. encodingIdx
      BY <1>1
    <3> QED
      BY <2>1, <3>1, <3>2
  <2>3. CASE x \in {TraverseStack[j] : j \in 1 .. Len(TraverseStack)}
    <3>1. PICK j \in 1 .. Len(TraverseStack) : x = TraverseStack[j]
      BY <2>3
    <3>2. CASE j = 1
      BY <1>1, <1>4, <2>1, <3>1, <3>2
    <3>3. CASE j # 1
      <4>1. /\ j \in 2 .. Len(TraverseStack)
            /\ Len(k) + (j - 1) \in 1 .. Len(TraverseStack')
        BY <1>4, <3>3
      <4>2. x = TraverseStack'[Len(k) + (j - 1)]
        BY <1>4, <3>1, <4>1
      <4> QED
        BY <4>1, <4>2 DEF Met
    <3> QED
      BY <3>2, <3>3
  <2> QED
    BY <2>2, <2>3 DEF Met
<1>6. ASSUME NEW p \in 1 .. encodingIdx, NEW j \in 1 .. Len(KidsOf(Head(S[p])))
      PROVE  KidsOf(Head(S[p]))[j] \in Met(S)'
  <2>1. CASE p = encodingIdx
    <3>1. j \in 1 .. Len(TraverseStack') /\ TraverseStack'[j] = k[j]
      BY <1>2, <1>4, <2>1
    <3> QED
      BY <1>2, <2>1, <3>1 DEF Met
  <2>2. CASE p # encodingIdx
    <3>1. p \in 1 .. encodingIdx - 1 /\ S[p] = St[p]
      BY <1>1, <2>2
    <3>2. KidsOf(Head(St[p]))[j] \in Met(St)
      BY <3>1 DEF Reached
    <3> QED
      BY <1>5, <3>1, <3>2
  <2> QED
    BY <2>1, <2>2
<1> QED
  BY <1>1, <1>3, <1>6 DEF Reached

(* VisitPrimitive writes the bytes of a primitive.             *)
LEMMA EmitKeepsContent ==
  ASSUME IInv, PlainHeap(heap), VisitPrimitive,
         NEW St, Layout(St), Content(St),
         NEW S, Layout(S)', Head(S[encodingIdx]) = Top, \A p \in 1 .. encodingIdx : S[p] = St[p]
  PROVE  Content(S)'
<1>1. /\ pc = "traverse" /\ TraverseStack # <<>> /\ TraverseStack \in Seq(DOMAIN heap)
      /\ heap[Top].type \in PrimitiveTypes
      /\ TraverseStack' = Tail(TraverseStack)
      /\ encodingIdx' = encodingIdx + 1 /\ encodingIdx \in Nat
      /\ encodeStream_ \in Seq(Entry) /\ Len(encodeStream_) \in Nat
      /\ UNCHANGED <<heap, root, meta_size_offset, pc, MetaStack, scan>>
  BY EmitEffect
<1>2. /\ encodingIdx = Len(encodeStream_) + 1 /\ encodingIdx >= 1
      /\ (encodingIdx + 1) - 1 = encodingIdx
  BY <1>1 DEF Layout, Visited
<1>3. UNCHANGED <<bytestream, sumIdx>>
  BY DEF VisitPrimitive, VisitString, VisitNumber, VisitOther, EmitPrimitive
<1>4. /\ Wire(heap, Top) \in Seq(Byte) /\ ~ Service!HasNoBytes(heap[Top])
      /\ encodeStream_'[encodingIdx].bytes = Wire(heap, Top)
      /\ \A p \in 1 .. encodingIdx - 1 : encodeStream_'[p] = encodeStream_[p]
  <2>1. PICK e : e = [bytes |-> Wire(heap, Top), data |-> Top]
    OBVIOUS
  <2>2. /\ encodeStream_' = Append(encodeStream_, e) /\ e.bytes = Wire(heap, Top)
        /\ Wire(heap, Top) \in Seq(Byte) /\ ~ Service!HasNoBytes(heap[Top])
    BY <2>1, EmitWrites
  <2>3. e \in Entry
    <3>1. Top \in Nat
      <4>1. Top \in DOMAIN heap
        BY <1>1, HeadTailProperties DEF Top
      <4> QED
        BY <4>1, DocTyped DEF IInv
    <3> QED
      BY <2>1, <2>2, <3>1 DEF Entry
  <2>4. /\ encodeStream_'[Len(encodeStream_) + 1] = e
        /\ \A p \in 1 .. Len(encodeStream_) : encodeStream_'[p] = encodeStream_[p]
    BY <1>1, <2>2, <2>3, AppendKeepsEntries
  <2>5. encodingIdx - 1 = Len(encodeStream_)
    BY <1>1, <1>2
  <2> QED
    BY <1>2, <2>2, <2>4, <2>5
<1>5. Written(S)'
  <2>1. ASSUME NEW p \in 1 .. encodingIdx, ~ IsComposite(Head(S[p]))
        PROVE  /\ encodeStream_'[p].bytes = Wire(heap, Head(S[p]))
               /\ ~ Service!HasNoBytes(heap[Head(S[p])])
    <3>1. CASE p = encodingIdx
      BY <1>4, <3>1
    <3>2. CASE p # encodingIdx
      <4>1. p \in 1 .. encodingIdx - 1 /\ S[p] = St[p]
        BY <1>1, <3>2
      <4> QED
        BY <1>4, <2>1, <4>1 DEF Content, Written
    <3> QED
      BY <3>1, <3>2
  <2>2. \A d : IsComposite(d)' = IsComposite(d)
    BY <1>1 DEF IsComposite
  <2>3. \A p \in 1 .. encodingIdx' - 1 : p \in 1 .. encodingIdx
    BY <1>1, <1>2
  <2>4. heap' = heap
    BY <1>1
  <2> QED
    BY <2>1, <2>2, <2>3, <2>4, Zenon DEF Written
<1>6. FilledIn(S)'
  <2>1. DOMAIN meta_size_offset' = {}
    BY <1>1 DEF Layout
  <2> QED
    BY <2>1 DEF FilledIn
<1>7. MetadataAt(S)'
  BY <1>1 DEF MetadataAt
<1>8. Reached(S)'
  <2>1. TraverseStack' = KidsOf(Top) \o Tail(TraverseStack)
    <3>1. KidsOf(Top) = <<>>
      <4>1. heap[Top].type \notin CompositeTypes
        BY <1>1 DEF PrimitiveTypes, NumberTypes, CompositeTypes
      <4> QED
        BY <4>1 DEF KidsOf
    <3>2. Tail(TraverseStack) \in Seq(DOMAIN heap)
      BY <1>1, HeadTailProperties
    <3>3. <<>> \o Tail(TraverseStack) = Tail(TraverseStack)
      BY <3>2, ConcatEmptySeq
    <3> QED
      BY <1>1, <3>1, <3>3
  <2>2. Trace(St) /\ Reached(St)
    BY DEF Layout, Content
  <2> QED
    BY <1>1, <1>2, <2>1, <2>2, ReachedGrows
<1>9. Summed'
  BY <1>1, <1>3 DEF Content, Summed, Working
<1> QED
  BY <1>5, <1>6, <1>7, <1>8, <1>9 DEF Content

(* A placeholder is not yet the bytes of anything.                         *)
LEMMA VisitCompositeKeepsContent ==
  ASSUME IInv, PlainHeap(heap), VisitComposite,
         NEW St, Layout(St), Content(St),
         NEW S, Layout(S)', Head(S[encodingIdx]) = Top, \A p \in 1 .. encodingIdx : S[p] = St[p]
  PROVE  Content(S)'
<1>1. /\ pc = "traverse" /\ TraverseStack # <<>> /\ TraverseStack \in Seq(DOMAIN heap)
      /\ heap[Top].type \in CompositeTypes
      /\ encodeStream_' = Append(encodeStream_, Placeholder) /\ Placeholder \in Entry
      /\ TraverseStack' = heap[Top].kids \o Tail(TraverseStack)
      /\ encodingIdx' = encodingIdx + 1 /\ encodingIdx \in Nat
      /\ encodeStream_ \in Seq(Entry) /\ Len(encodeStream_) \in Nat
      /\ UNCHANGED <<heap, root, meta_size_offset, pc, scan>>
  BY VisitCompositeEffect
<1>2. /\ encodingIdx = Len(encodeStream_) + 1 /\ encodingIdx >= 1
      /\ (encodingIdx + 1) - 1 = encodingIdx
  BY <1>1 DEF Layout, Visited
<1>3. UNCHANGED <<bytestream, sumIdx>>
  BY DEF VisitComposite
<1>4. \A p \in 1 .. encodingIdx - 1 : encodeStream_'[p] = encodeStream_[p]
  <2>1. \A p \in 1 .. Len(encodeStream_) : encodeStream_'[p] = encodeStream_[p]
    BY <1>1, AppendKeepsEntries
  <2>2. encodingIdx - 1 = Len(encodeStream_)
    BY <1>1, <1>2
  <2> QED
    BY <2>1, <2>2
<1>5. Written(S)'
  <2>1. ASSUME NEW p \in 1 .. encodingIdx, ~ IsComposite(Head(S[p]))
        PROVE  /\ encodeStream_'[p].bytes = Wire(heap, Head(S[p]))
               /\ ~ Service!HasNoBytes(heap[Head(S[p])])
    <3>1. p # encodingIdx
      BY <1>1, <2>1 DEF IsComposite
    <3>2. p \in 1 .. encodingIdx - 1 /\ S[p] = St[p]
      BY <1>1, <3>1
    <3> QED
      BY <1>4, <2>1, <3>2 DEF Content, Written
  <2>2. \A d : IsComposite(d)' = IsComposite(d)
    BY <1>1 DEF IsComposite
  <2>3. \A p \in 1 .. encodingIdx' - 1 : p \in 1 .. encodingIdx
    BY <1>1, <1>2
  <2>4. heap' = heap
    BY <1>1
  <2> QED
    BY <2>1, <2>2, <2>3, <2>4, Zenon DEF Written
<1>6. FilledIn(S)'
  <2>1. DOMAIN meta_size_offset' = {}
    BY <1>1 DEF Layout
  <2> QED
    BY <2>1 DEF FilledIn
<1>7. MetadataAt(S)'
  BY <1>1 DEF MetadataAt
<1>8. Reached(S)'
  <2>1. TraverseStack' = KidsOf(Top) \o Tail(TraverseStack)
    BY <1>1 DEF KidsOf
  <2>2. Trace(St) /\ Reached(St)
    BY DEF Layout, Content
  <2> QED
    BY <1>1, <1>2, <2>1, <2>2, ReachedGrows
<1>9. Summed'
  BY <1>1, <1>3 DEF Content, Summed, Working
<1> QED
  BY <1>5, <1>6, <1>7, <1>8, <1>9 DEF Content

(* A first call begins with an empty stream.                               *)
LEMMA EncodeMakesContent ==
  ASSUME IInv, NEW r \in DOMAIN heap, Encode(r), NEW St, Layout(St)'
  PROVE  Content(St)'
<1>1. pc' = "traverse" /\ encodingIdx' = 1 /\ bytestream' = <<>> /\ sumIdx' = 1
  BY DEF Encode
<1>2. DOMAIN meta_size_offset' = {}
  BY <1>1 DEF Layout
<1>3. Written(St)' /\ Reached(St)'
  BY <1>1 DEF Written, Reached
<1>4. FilledIn(St)' /\ MetadataAt(St)' /\ Summed'
  BY <1>1, <1>2 DEF FilledIn, MetadataAt, Summed
<1> QED
  BY <1>3, <1>4 DEF Content

(* What the content is made of stays with the heap.                        *)
LEMMA HeapStays ==
  ASSUME heap' = heap
  PROVE  /\ \A d : IsComposite(d)' = IsComposite(d) /\ KidsOf(d)' = KidsOf(d)
         /\ \A d : HeaderOf(d)' = HeaderOf(d) /\ NamesOf(d)' = NamesOf(d)
         /\ \A d : KidWires(d)' = KidWires(d)
<1>1. \A d : IsComposite(d)' = IsComposite(d) /\ KidsOf(d)' = KidsOf(d)
  BY DEF IsComposite, KidsOf
<1>2. \A d : HeaderOf(d)' = HeaderOf(d) /\ NamesOf(d)' = NamesOf(d)
  BY Zenon DEF HeaderOf, NamesOf
<1>3. \A d : KidWires(d)' = KidWires(d)
  BY Zenon DEF KidWires
<1> QED
  BY <1>1, <1>2, <1>3

(* What is in the stream stays while the stream does.                      *)
LEMMA EntriesStay ==
  ASSUME NEW St, Content(St),
         UNCHANGED <<heap, encodeStream_, meta_offset, meta_size_offset,
                     TraverseStack, encodingIdx>>
  PROVE  Written(St)' /\ FilledIn(St)' /\ Reached(St)'
<1>1. heap' = heap /\ encodeStream_' = encodeStream_ /\ meta_offset' = meta_offset
      /\ meta_size_offset' = meta_size_offset /\ TraverseStack' = TraverseStack
      /\ encodingIdx' = encodingIdx
  OBVIOUS
<1>2. /\ \A d : IsComposite(d)' = IsComposite(d)
      /\ \A d : KidsOf(d)' = KidsOf(d)
  BY <1>1, HeapStays
<1>3. Written(St)'
  BY <1>1, <1>2, Zenon DEF Content, Written
<1>4. FilledIn(St)'
  BY <1>1, Zenon DEF Content, FilledIn
<1>5. Met(St)' = Met(St)
  BY <1>1, Zenon DEF Met
<1>6. Reached(St)'
  BY <1>1, <1>2, <1>5, Zenon DEF Content, Reached
<1> QED
  BY <1>3, <1>4, <1>6

(* Only SumUp adds to the bytes returned, the next entry each time.        *)
LEMMA OtherKeepsContent ==
  ASSUME IInv, NEW St, Layout(St), Content(St), OtherAction
  PROVE  Content(St)'
<1>1. UNCHANGED <<heap, root, encodeStream_, meta_offset, meta_size_offset,
                  calls, TraverseStack, MetaStack, encodingIdx, scan>>
  BY OtherEffect
<1>2. /\ pc' \notin {"traverse", "names", "scan"}
      /\ pc' \in {"meta", "sum", "returned"} =>
           \/ pc = "traverse" /\ pc' = "meta" /\ TraverseStack = <<>>
           \/ pc = "meta" /\ pc' = "sum" /\ remaining = 0
           \/ pc = "sum" /\ pc' \in {"sum", "returned"}
  BY OtherEffect
<1>3. Written(St)' /\ FilledIn(St)' /\ Reached(St)'
  BY <1>1, EntriesStay
<1>4. MetadataAt(St)'
  BY <1>2 DEF MetadataAt
<1>5. PICK s, i : s = encodeStream_ /\ i = sumIdx
  OBVIOUS
<1>6. s \in Seq(Entry) /\ Len(s) \in Nat /\ encodeStream_' = s
  BY <1>1, <1>5, StreamTyped
<1>7. Summed
  BY DEF Content
<1>8. ASSUME SumUp PROVE Summed'
  <2>1. /\ pc = "sum" /\ pc' = "sum" /\ i <= Len(s)
        /\ bytestream' = bytestream \o s[i].bytes /\ sumIdx' = i + 1
    BY <1>5, <1>8 DEF SumUp
  <2>2. i \in 1 .. Len(s) + 1 /\ bytestream = Cat(s, 1, i - 1) /\ TraverseStack = <<>>
    BY <1>5, <1>7, <2>1 DEF Summed
  <2>3. PICK j : j = i - 1
    OBVIOUS
  <2>4. j \in Int /\ 1 <= j + 1 /\ j + 1 = i /\ (i + 1) - 1 = i /\ i + 1 \in 1 .. Len(s) + 1
        /\ \A k \in 1 .. j + 1 : k \in 1 .. Len(s)
    BY <1>6, <2>1, <2>2, <2>3
  <2>5. \A k \in 1 .. j + 1 : s[k].bytes \in Seq(Byte)
    BY <1>6, <2>4, EntryBytes
  <2>6. Cat(s, 1, j + 1) = Cat(s, 1, j) \o s[j + 1].bytes
    <3>1. 1 \in Int /\ j \in Int /\ 1 <= j + 1
      BY <2>4
    <3> QED
      BY <2>5, <3>1, CatNext
  <2>7. bytestream' = Cat(s, 1, (i + 1) - 1)
    BY <2>1, <2>2, <2>3, <2>4, <2>6
  <2> QED
    BY <1>1, <1>6, <2>1, <2>2, <2>4, <2>7 DEF Summed, Working
<1>9. ASSUME Return PROVE Summed'
  <2>1. /\ pc = "sum" /\ pc' = "returned" /\ i > Len(s) /\ bytestream' = bytestream
    BY <1>5, <1>9 DEF Return, locals
  <2>2. i \in 1 .. Len(s) + 1 /\ bytestream = Cat(s, 1, i - 1) /\ TraverseStack = <<>>
    BY <1>5, <1>7, <2>1 DEF Summed
  <2>3. i - 1 = Len(s)
    BY <1>6, <2>1, <2>2
  <2>4. bytestream' = Cat(s, 1, Len(s))
    BY <2>1, <2>2, <2>3
  <2> QED
    BY <1>1, <1>6, <2>1, <2>2, <2>4 DEF Summed, Working
<1>10. ASSUME EndMeta PROVE Summed'
  <2>1. pc = "meta" /\ pc' = "sum" /\ bytestream' = bytestream /\ sumIdx' = sumIdx
    BY <1>10 DEF EndMeta, locals
  <2>2. bytestream = <<>> /\ sumIdx = 1 /\ TraverseStack = <<>>
    BY <1>7, <2>1 DEF Summed, Working
  <2>3. Cat(s, 1, 1 - 1) = <<>>
    BY CatNone
  <2> QED
    BY <1>1, <1>6, <2>1, <2>2, <2>3 DEF Summed, Working
<1>11. ASSUME EndTraverse PROVE Summed'
  <2>1. /\ pc = "traverse" /\ pc' = "meta" /\ TraverseStack = <<>>
        /\ bytestream' = bytestream /\ sumIdx' = sumIdx
    BY <1>11 DEF EndTraverse
  <2>2. bytestream = <<>> /\ sumIdx = 1
    BY <1>7, <2>1 DEF Summed, Working
  <2> QED
    BY <1>1, <2>1, <2>2 DEF Summed, Working
<1>12. ASSUME NumberStops \/ MetaOfNothing \/ ScanNull PROVE Summed'
  <2>1. pc' \in {"threw", "diverged", "undefined"}
    BY <1>12 DEF NumberStops, NumberThrows, NumberDiverges, TypeDiverges, VisitWild,
                 MetaOfNothing, ScanNull
  <2> QED
    BY <2>1 DEF Summed, Working
<1>13. Summed'
  BY <1>8, <1>9, <1>10, <1>11, <1>12 DEF OtherAction
<1> QED
  BY <1>3, <1>4, <1>13 DEF Content

(* The metadata loop leaves what is summed up alone.                       *)
LEMMA SummedStays ==
  ASSUME Summed, pc \in {"meta", "names", "scan"}, pc' \in {"meta", "names", "scan"},
         UNCHANGED <<TraverseStack, bytestream, sumIdx>>
  PROVE  Summed'
BY DEF Summed, Working

(* The metadata begins with the type and, but for a MAP, the count.        *)
LEMMA BeginMetaKeepsContent ==
  ASSUME IInv, PlainHeap(heap), NEW St, Layout(St), Content(St), BeginMeta
  PROVE  Content(St)'
<1>1. /\ pc = "meta" /\ pc' \in {"names", "scan"}
      /\ Len(MetaStack) \in Nat /\ Len(MetaStack) >= 1
      /\ MetaStack[1] \in [data : DOMAIN heap, pos : Nat]
      /\ scan'.data = MetaStack[1].data /\ scan'.pos = MetaStack[1].pos
      /\ scan'.i = MetaStack[1].pos + 1 /\ scan'.field = 1
      /\ UNCHANGED <<heap, root, encodeStream_, meta_offset, meta_size_offset,
                     calls, TraverseStack, encodingIdx>>
  BY BeginMetaEffect
<1>2. PICK d, p : d = MetaStack[1].data /\ p = MetaStack[1].pos
  OBVIOUS
<1>3. d \in DOMAIN heap /\ p \in Nat /\ heap' = heap /\ encodeStream_' = encodeStream_
      /\ scan'.data = d /\ scan'.pos = p /\ scan'.i = p + 1 /\ scan'.field = 1
      /\ scan'.i - 1 = p /\ scan'.field - 1 = 0
  BY <1>1, <1>2
<1>4. UNCHANGED <<bytestream, sumIdx>> /\ (heap[d].type = "STRUCT" <=> pc' = "names")
  <2>1. Head(MetaStack).data = d
    <3>1. MetaStack \in Seq([data : DOMAIN heap, pos : Nat])
      BY DEF IInv, TypeOK
    <3> QED
      BY <1>1, <1>2, <3>1
  <2>2. UNCHANGED <<bytestream, sumIdx>>
    BY DEF BeginMeta
  <2>3. pc' = IF heap[d].type = "STRUCT" THEN "names" ELSE "scan"
    BY <2>1, Zenon DEF BeginMeta
  <2> QED
    BY <2>2, <2>3
<1>5. scan'.metadata = HeaderOf(d)
  <2>1. Head(MetaStack).data = d
    <3>1. MetaStack \in Seq([data : DOMAIN heap, pos : Nat])
      BY DEF IInv, TypeOK
    <3> QED
      BY <1>1, <1>2, <3>1
  <2>2. PICK m : m = TypeEncoding(heap[d]) \o
                       (IF heap[d].type = "MAP" THEN <<>>
                        ELSE VarientEncoding(numofElements(heap[d])))
    OBVIOUS
  <2>3. \E z, q, i, n : scan' = [data |-> z, pos |-> q, i |-> i, field |-> 1,
                              metadata |-> m, metadata_size |-> n, nestedsize |-> 0]
    BY <2>1, <2>2, Zenon DEF BeginMeta
  <2>4. scan'.metadata = m
    BY <2>3
  <2>5. m = HeaderOf(d)
    BY <2>2, Zenon DEF HeaderOf, CountBytes, numofElements
  <2> QED
    BY <2>4, <2>5
<1>6. Written(St)' /\ FilledIn(St)' /\ Reached(St)'
  BY <1>1, EntriesStay
<1>comp. heap[d].type \in CompositeTypes
  <2>1. 1 \in 1 .. Len(MetaStack)
    BY <1>1
  <2> QED
    BY <1>1, <1>2, <2>1 DEF IInv, StackInv
<1>7. HeaderOf(d) \in Seq(Byte)
  BY <1>3, <1>comp, HeaderTyped
<1>8. HeaderOf(d) \o <<>> = HeaderOf(d)
  BY <1>7, ConcatEmptySeq
<1>9. Joined(NameBytes(heap[d]), 0) = <<>> /\ Joined(SizeBytes(KidWires(d)), 0) = <<>>
      /\ Joined(KidWires(d), 0) = <<>>
  BY JoinedNone
<1>10. pc' = "scan" => NamesOf(d) = <<>>
  <2>1. ASSUME pc' = "scan" PROVE NamesOf(d) = <<>>
    <3>1. heap[d].names = <<>>
      BY <1>3, <1>4, <2>1 DEF PlainHeap
    <3>2. /\ NameBytes(heap[d]) \in Seq(Seq(Byte))
          /\ Len(NameBytes(heap[d])) = Len(heap[d].names)
      BY <1>3, <1>comp, HeaderTyped
    <3>3. NameBytes(heap[d]) = <<>>
      BY <3>1, <3>2
    <3> QED
      BY <3>3, FlattenEmpty DEF NamesOf
  <2> QED
    BY <2>1
<1>11. Cat(encodeStream_, p + 1, p) = <<>>
  <2>1. PICK q : q = p + 1
    OBVIOUS
  <2>2. q \in Int /\ p \in Int /\ p + 1 = q
    BY <1>3, <2>1
  <2>3. Cat(encodeStream_, q, p) = <<>>
    BY <2>2, CatNone
  <2> QED
    BY <2>1, <2>3
<1>12. pc' = "names" => scan'.metadata = HeaderOf(d) \o Joined(NameBytes(heap[d]), 0)
  BY <1>5, <1>8, <1>9
<1>13. pc' = "scan" => scan'.metadata = HeaderOf(d) \o NamesOf(d)
                                          \o Joined(SizeBytes(KidWires(d)), 0)
  BY <1>5, <1>8, <1>9, <1>10
<1>14. MetadataAt(St)'
  <2>1. /\ \A x : HeaderOf(x)' = HeaderOf(x)
        /\ \A x : NamesOf(x)' = NamesOf(x)
        /\ \A x : KidWires(x)' = KidWires(x)
    BY <1>3, HeapStays
  <2>2. Cat(encodeStream_, p + 1, p) = Joined(KidWires(d), 0)
    BY <1>9, <1>11
  <2> QED
    BY <1>3, <1>12, <1>13, <2>1, <2>2, Zenon DEF MetadataAt
<1>15. Summed'
  BY <1>1, <1>4, SummedStays DEF Content
<1> QED
  BY <1>6, <1>14, <1>15 DEF Content

(* A field name goes behind those before it.                               *)
LEMMA EncodeFieldNameKeepsContent ==
  ASSUME IInv, PlainHeap(heap), NEW St, Layout(St), Content(St), EncodeFieldName
  PROVE  Content(St)'
<1>1. /\ pc = "names" /\ pc' \in {"names", "scan"} /\ scan \in Frame
      /\ scan'.data = scan.data /\ scan'.pos = scan.pos /\ scan'.i = scan.i
      /\ UNCHANGED <<heap, root, encodeStream_, meta_offset, meta_size_offset,
                     calls, TraverseStack, MetaStack, encodingIdx>>
  BY EncodeFieldNameEffect
<1>2. PICK d, p, f : d = scan.data /\ p = scan.pos /\ f = scan.field
  OBVIOUS
<1>3. /\ d \in DOMAIN heap /\ heap[d].type = "STRUCT" /\ f \in 1 .. Len(heap[d].kids)
      /\ Len(heap[d].names) = Len(heap[d].kids) /\ p \in Nat
  <2>1. d \in DOMAIN heap /\ heap[d].type = "STRUCT" /\ f \in 1 .. Len(heap[d].kids)
    BY <1>1, <1>2 DEF IInv, ScanInv, numofElements
  <2>2. heap[d].type = "STRUCT" => Len(heap[d].names) = numofElements(heap[d])
    BY <2>1, DocTyped DEF IInv
  <2> QED
    BY <1>1, <1>2, <2>1, <2>2 DEF numofElements, Frame
<1>4. PICK l, n : n = heap[d].names[f] /\ l = VarientEncoding(Len(heap[d].names[f]))
  OBVIOUS
<1>5. PICK md, sz : md = scan.metadata \o l \o n /\ sz = scan.metadata_size + Len(l) + Len(n)
  OBVIOUS
<1>6. /\ scan' = [scan EXCEPT !.metadata = md, !.metadata_size = sz,
                              !.field = IF f < Len(heap[d].kids) THEN @ + 1 ELSE 1]
      /\ pc' = IF f < Len(heap[d].kids) THEN "names" ELSE "scan"
      /\ UNCHANGED <<sumIdx, bytestream>>
  BY <1>2, <1>4, <1>5, Zenon DEF EncodeFieldName, numofElements
<1>7. /\ scan'.metadata = md
      /\ f < Len(heap[d].kids) => pc' = "names" /\ scan'.field = f + 1
      /\ ~ (f < Len(heap[d].kids)) => pc' = "scan" /\ scan'.field = 1
  BY <1>1, <1>2, <1>6 DEF Frame
<1>8. PICK b, h, g : b = NameBytes(heap[d]) /\ h = HeaderOf(d) /\ g = f - 1
  OBVIOUS
<1>9. /\ b \in Seq(Seq(Byte)) /\ Len(b) = Len(heap[d].kids) /\ h \in Seq(Byte)
      /\ g \in Nat /\ g + 1 = f /\ (f + 1) - 1 = f /\ Len(b) \in Nat
  <2>1. heap[d].type \in CompositeTypes
    BY <1>3 DEF CompositeTypes
  <2> QED
    BY <1>3, <1>8, <2>1, HeaderTyped
<1>10. b[f] = l \o n /\ l \in Seq(Byte) /\ n \in Seq(Byte)
  <2>1. heap[d].names \in Seq(Seq(Byte))
    BY <1>3, DocTyped DEF IInv, Data
  <2>2. f \in 1 .. Len(heap[d].names) /\ f \in DOMAIN heap[d].names
    BY <1>3, <2>1
  <2>3. n \in Seq(Byte)
    BY <1>4, <2>1, <2>2, ElementOfSeq
  <2>4. Len(n) \in Nat
    BY <2>3
  <2>5. l \in Seq(Byte)
    BY <1>4, <2>4, VarientEncodingType
  <2>6. b[f] = l \o n
    BY <1>4, <1>8, <2>2, Zenon DEF NameBytes
  <2> QED
    BY <2>3, <2>5, <2>6
<1>11. /\ Joined(b, g) \in Seq(Byte) /\ Joined(b, f) \in Seq(Byte)
       /\ Joined(b, f) = Joined(b, g) \o b[f]
  <2>1. \A k \in 1 .. g + 1 : b[k] \in Seq(Byte)
    <3>1. \A k \in 1 .. g + 1 : k \in 1 .. Len(b)
      BY <1>3, <1>9
    <3> QED
      BY <1>9, <3>1, ElementOfSeq
  <2> QED
    BY <1>9, <2>1, JoinedNext
<1>12. scan.metadata = h \o Joined(b, g)
  BY <1>1, <1>2, <1>8 DEF Content, MetadataAt
<1>13. md = h \o Joined(b, f)
  <2>1. PICK j, w : j = Joined(b, g) /\ w = l \o n
    OBVIOUS
  <2>2. j \in Seq(Byte) /\ w \in Seq(Byte) /\ h \o j \in Seq(Byte)
    BY <1>9, <1>10, <1>11, <2>1, ConcatThree
  <2>3. (h \o j) \o w = h \o (j \o w)
    BY <1>9, <2>2, ConcatThree, SMTT(30)
  <2>4. PICK x : x = h \o j
    OBVIOUS
  <2>5. x \o (l \o n) = (x \o l) \o n
    <3>1. x \in Seq(Byte) /\ l \in Seq(Byte) /\ n \in Seq(Byte)
      BY <1>10, <2>2, <2>4
    <3> QED
      BY <3>1, ConcatThree, SMTT(30)
  <2>6. md = (x \o l) \o n
    BY <1>5, <1>12, <2>1, <2>4
  <2> QED
    BY <1>10, <1>11, <2>1, <2>3, <2>4, <2>5, <2>6
<1>14. f < Len(heap[d].kids) => scan'.metadata = h \o Joined(b, (f + 1) - 1)
  BY <1>7, <1>9, <1>13
<1>15. ~ (f < Len(heap[d].kids)) =>
         scan'.metadata = h \o NamesOf(d) \o Joined(SizeBytes(KidWires(d)), 1 - 1)
  <2>1. ASSUME ~ (f < Len(heap[d].kids)) PROVE NamesOf(d) = Joined(b, f)
    <3>1. f = Len(b)
      BY <1>3, <1>9, <2>1
    <3>2. FlattenSeq(b) = Joined(b, Len(b))
      BY <1>9, FlattenJoined
    <3> QED
      BY <1>8, <3>1, <3>2 DEF NamesOf
  <2>2. Joined(SizeBytes(KidWires(d)), 1 - 1) = <<>>
    BY JoinedNone
  <2>3. md \in Seq(Byte)
    BY <1>9, <1>11, <1>13, ConcatThree
  <2>4. md \o <<>> = md
    BY <2>3, ConcatEmptySeq
  <2> QED
    BY <1>7, <1>13, <2>1, <2>2, <2>4
<1>16. Cat(encodeStream_, p + 1, scan.i - 1) = Joined(KidWires(d), 1 - 1)
  <2>1. scan.i = p + 1
    BY <1>1, <1>2 DEF Layout, ScanAt
  <2>2. PICK q : q = p + 1
    OBVIOUS
  <2>3. q \in Int /\ q - 1 \in Int /\ (q - 1) + 1 = q
    BY <1>3, <2>2
  <2>4. Cat(encodeStream_, q, q - 1) = <<>>
    BY <2>3, CatNone
  <2>5. Joined(KidWires(d), 1 - 1) = <<>>
    BY JoinedNone
  <2> QED
    BY <2>1, <2>2, <2>4, <2>5
<1>17. MetadataAt(St)'
  <2>1. /\ \A x : HeaderOf(x)' = HeaderOf(x)
        /\ \A x : NamesOf(x)' = NamesOf(x)
        /\ \A x : KidWires(x)' = KidWires(x)
    BY <1>1, HeapStays
  <2>2. /\ heap' = heap /\ encodeStream_' = encodeStream_ /\ scan'.data = d
        /\ scan'.pos = p /\ scan'.i = scan.i
    BY <1>1, <1>2
  <2>3. pc' = "names" => scan'.metadata = HeaderOf(d) \o Joined(NameBytes(heap[d]), scan'.field - 1)
    BY <1>7, <1>8, <1>14
  <2>4. pc' = "scan" =>
          /\ scan'.metadata = HeaderOf(d) \o NamesOf(d)
                                \o Joined(SizeBytes(KidWires(d)), scan'.field - 1)
          /\ Cat(encodeStream_, p + 1, scan.i - 1) = Joined(KidWires(d), scan'.field - 1)
    BY <1>7, <1>8, <1>15, <1>16
  <2> QED
    BY <2>1, <2>2, <2>3, <2>4, Zenon DEF MetadataAt
<1>18. Written(St)' /\ FilledIn(St)' /\ Reached(St)'
  BY <1>1, EntriesStay
<1>19. Summed'
  BY <1>1, <1>6, SummedStays DEF Content
<1> QED
  BY <1>17, <1>18, <1>19 DEF Content

(* What a round of the scan has found: the bytes of the child it takes,    *)
(* and with it those of all children so far.                               *)
LEMMA TakenWire ==
  ASSUME IInv, PendingInv, PlainHeap(heap), calls = 1, NEW St, Layout(St), Content(St), Scanning
  PROVE  /\ Cat(encodeStream_, scan.i, TakenEnd) = Wire(heap, DataTraverse)
         /\ Wire(heap, DataTraverse) \in Seq(Byte)
         /\ TakenSize = Len(Wire(heap, DataTraverse))
<1>1. /\ encodingIdx = Len(encodeStream_) + 1 /\ encodingIdx \in Nat
      /\ scan.i \in 1 .. encodingIdx - 1
      /\ DataTraverse = Head(St[scan.i]) /\ DataTraverse \in DOMAIN heap
      /\ ~ TakesPrimitive => scan.i \in DOMAIN meta_size_offset
      /\ IsEnd(St, scan.i, TakenEnd) /\ TakenEnds = meta_offset
  BY ScanFinds
<1>2. PICK i, e : i = scan.i /\ e = TakenEnd
  OBVIOUS
<1>3. i \in Int /\ e \in Int /\ i <= e + 1 /\ \A k \in i .. e : k \in 1 .. Len(encodeStream_)
  BY <1>1, <1>2 DEF IsEnd
<1>4. \A k \in i .. e : encodeStream_[k].bytes \in Seq(Byte)
  BY <1>3, StreamTyped, EntryBytes
<1>5. Cat(encodeStream_, i, e) = Wire(heap, DataTraverse)
  <2>1. CASE TakesPrimitive
    <3>1. e = i
      BY <1>2, <2>1 DEF TakenEnd
    <3>2. ~ IsComposite(Head(St[i]))
      BY <1>1, <1>2, <2>1, NoPrimitive DEF TakesPrimitive
    <3>3. encodeStream_[i].bytes = Wire(heap, Head(St[i]))
      BY <1>1, <1>2, <3>2 DEF Content, Written
    <3>4. i \in i .. e
      BY <1>3, <3>1
    <3>5. encodeStream_[i].bytes \in Seq(Byte)
      BY <1>4, <3>4
    <3>6. Cat(encodeStream_, i, i) = encodeStream_[i].bytes
      BY <1>3, <3>5, CatOne
    <3> QED
      BY <1>1, <1>2, <3>1, <3>3, <3>6
  <2>2. CASE ~ TakesPrimitive
    <3>1. i \in DOMAIN meta_size_offset /\ e = meta_offset[i]
      BY <1>1, <1>2, <2>2 DEF TakenEnd
    <3> QED
      BY <1>1, <1>2, <3>1 DEF Content, FilledIn
  <2> QED
    BY <2>1, <2>2
<1>6. Len(Cat(encodeStream_, i, e)) = BytesOf(encodeStream_, i, e)
  BY <1>3, <1>4, CatLength
<1>7. TakenSize = BytesOf(encodeStream_, i, e)
  BY <1>2, TakenBytes
<1>8. Cat(encodeStream_, i, e) \in Seq(Byte)
  BY <1>3, <1>4, CatType
<1> QED
  BY <1>2, <1>5, <1>6, <1>7, <1>8

(* The sizes and the bytes of the children taken so far, with this one.    *)
LEMMA TakenSoFar ==
  ASSUME IInv, PendingInv, PlainHeap(heap), calls = 1, NEW St, Layout(St), Content(St), Scanning
  PROVE  /\ TakenMetadata = HeaderOf(scan.data) \o NamesOf(scan.data)
                              \o Joined(SizeBytes(KidWires(scan.data)), scan.field)
         /\ Cat(encodeStream_, scan.pos + 1, TakenEnd) = Joined(KidWires(scan.data), scan.field)
<1>1. /\ encodingIdx = Len(encodeStream_) + 1 /\ encodingIdx \in Nat
      /\ scan.pos \in 1 .. encodingIdx - 1 /\ scan.i \in scan.pos + 1 .. encodingIdx - 1
      /\ KidsOf(scan.data) = heap[scan.data].kids
      /\ scan.field \in 1 .. Len(KidsOf(scan.data)) /\ Len(KidsOf(scan.data)) \in Nat
      /\ IsEnd(St, scan.i, TakenEnd)
  BY ScanFinds
<1>2. scan.data \in DOMAIN heap /\ pc = "scan"
  BY ScanningFacts
<1>3. PICK d, p, i, e, f, g : /\ d = scan.data /\ p = scan.pos /\ i = scan.i
                              /\ e = TakenEnd /\ f = scan.field /\ g = scan.field - 1
  OBVIOUS
<1>4. PICK w : w = KidWires(d)
  OBVIOUS
<1>5. PICK z : z = SizeBytes(w)
  OBVIOUS
<1>6. /\ w \in Seq(Seq(Byte)) /\ Len(w) = Len(heap[d].kids)
      /\ f \in 1 .. Len(w) /\ g \in Nat /\ g + 1 = f /\ Len(w) \in Nat
      /\ w[f] = Wire(heap, DataTraverse)
  <2>1. d \in DOMAIN heap
    BY <1>2, <1>3
  <2>2. /\ w \in Seq(Seq(Byte)) /\ Len(w) = Len(heap[d].kids)
        /\ \A k \in 1 .. Len(heap[d].kids) : w[k] = Wire(heap, heap[d].kids[k])
    BY <1>4, <2>1, KidWiresTyped
  <2>3. f \in 1 .. Len(heap[d].kids) /\ DataTraverse = heap[d].kids[f]
    BY <1>1, <1>3 DEF DataTraverse
  <2>4. f \in Nat /\ f >= 1 /\ g = f - 1
    BY <1>1, <1>3
  <2> QED
    BY <1>1, <1>3, <2>2, <2>3, <2>4, SMTT(30)
<1>7. z \in Seq(Seq(Byte)) /\ Len(z) = Len(w) /\ z[f] = VarientEncoding(TakenSize)
  <2>1. z \in Seq(Seq(Byte)) /\ Len(z) = Len(w)
    BY <1>5, <1>6, SizeBytesType
  <2>2. f \in DOMAIN w
    BY <1>6
  <2>3. z[f] = VarientEncoding(Len(w[f]))
    BY <1>5, <2>2, Zenon DEF SizeBytes
  <2>4. TakenSize = Len(w[f])
    BY <1>6, TakenWire
  <2> QED
    BY <2>1, <2>3, <2>4
<1>8. \A k \in 1 .. g + 1 : w[k] \in Seq(Byte) /\ z[k] \in Seq(Byte)
  <2>1. \A k \in 1 .. g + 1 : k \in 1 .. Len(w) /\ k \in 1 .. Len(z)
    BY <1>6, <1>7
  <2>2. \A k \in 1 .. Len(w) : w[k] \in Seq(Byte)
    BY <1>6, ElementOfSeq
  <2>3. \A k \in 1 .. Len(z) : z[k] \in Seq(Byte)
    BY <1>7, ElementOfSeq
  <2> QED
    BY <2>1, <2>2, <2>3
<1>9. Joined(w, g) \in Seq(Byte) /\ Joined(w, f) = Joined(w, g) \o w[f]
  BY <1>6, <1>8, JoinedNext
<1>10. Joined(z, g) \in Seq(Byte) /\ Joined(z, f) = Joined(z, g) \o z[f] /\ z[f] \in Seq(Byte)
  <2>1. \A k \in 1 .. g + 1 : z[k] \in Seq(Byte)
    BY <1>8
  <2>2. Joined(z, g) \in Seq(Byte) /\ Joined(z, g + 1) = Joined(z, g) \o z[g + 1]
    BY <1>6, <2>1, JoinedNext
  <2>3. g + 1 \in 1 .. g + 1
    BY <1>6
  <2> QED
    BY <1>6, <2>1, <2>2, <2>3
<1>11. /\ scan.metadata = HeaderOf(d) \o NamesOf(d) \o Joined(z, g)
       /\ Cat(encodeStream_, p + 1, i - 1) = Joined(w, g)
  BY <1>2, <1>3, <1>4, <1>5 DEF Content, MetadataAt
<1>12. TakenMetadata = HeaderOf(d) \o NamesOf(d) \o Joined(z, f)
  <2>1. PICK h, j, v : h = HeaderOf(d) \o NamesOf(d) /\ j = Joined(z, g) /\ v = z[f]
    OBVIOUS
  <2>2. HeaderOf(d) \in Seq(Byte) /\ NamesOf(d) \in Seq(Byte)
    <3>1. heap[d].type \in CompositeTypes
      BY <1>2, <1>3 DEF Layout, ScanAt, IsComposite
    <3> QED
      BY <1>2, <1>3, <3>1, HeaderTyped
  <2>3. HeaderOf(d) \o NamesOf(d) \in Seq(Byte)
    BY <2>2, ConcatThree
  <2>4. h \in Seq(Byte) /\ j \in Seq(Byte) /\ v \in Seq(Byte)
    BY <1>10, <2>1, <2>3
  <2>5. h \o (j \o v) = (h \o j) \o v
    BY <2>4, ConcatThree
  <2>6. TakenMetadata = (h \o j) \o v
    BY <1>7, <1>11, <2>1 DEF TakenMetadata
  <2> QED
    BY <1>10, <2>1, <2>5, <2>6
<1>13. Cat(encodeStream_, p + 1, e) = Joined(w, f)
  <2>1. e \in i .. encodingIdx - 1
    BY <1>1, <1>3 DEF IsEnd
  <2>2. PICK q : q = p + 1
    OBVIOUS
  <2>3. /\ q \in Int /\ i \in Int /\ e \in Int /\ q <= i /\ i <= e + 1
        /\ \A k \in q .. e : k \in 1 .. Len(encodeStream_)
    BY <1>1, <1>3, <2>1, <2>2
  <2>4. \A k \in q .. e : encodeStream_[k].bytes \in Seq(Byte)
    BY <2>3, StreamTyped, EntryBytes
  <2>5. Cat(encodeStream_, q, e) = Cat(encodeStream_, q, i - 1) \o Cat(encodeStream_, i, e)
    BY <2>3, <2>4, CatJoin
  <2>6. Cat(encodeStream_, i, e) = w[f]
    BY <1>3, <1>6, TakenWire
  <2> QED
    BY <1>9, <1>11, <2>2, <2>5, <2>6
<1> QED
  BY <1>3, <1>4, <1>5, <1>12, <1>13

(* A child that is not the last adds its size to the metadata.             *)
LEMMA TakeOnKeepsContent ==
  ASSUME IInv, PendingInv, PlainHeap(heap), calls = 1, OnceLast,
         NEW St, Layout(St), Content(St), ScanTake, ~ TakesLast
  PROVE  Content(St)'
<1>1. /\ Scanning /\ pc = "scan"
      /\ UNCHANGED <<heap, root, calls, TraverseStack, MetaStack, encodingIdx>>
      /\ meta_offset' = TakenEnds /\ meta_size_offset' = TakenSizes
      /\ encodeStream_' = encodeStream_
  BY ScanTakeEffect DEF Scanning
<1>2. TakenEnds = meta_offset /\ TakenSizes = meta_size_offset /\ scan.field \in Nat
  BY <1>1, ScanFinds
<1>3. Written(St)' /\ FilledIn(St)' /\ Reached(St)'
  BY <1>1, <1>2, EntriesStay
<1>4. pc' \in {"scan", "meta"} /\ UNCHANGED <<sumIdx, bytestream>>
  BY ScanTakeEffect DEF ScanTake
<1>5. Summed'
  BY <1>1, <1>4, SummedStays DEF Content
<1>6. MetadataAt(St)'
  <2>1. /\ \A x : HeaderOf(x)' = HeaderOf(x)
        /\ \A x : NamesOf(x)' = NamesOf(x)
        /\ \A x : KidWires(x)' = KidWires(x)
    BY <1>1, HeapStays
  <2>2. PICK d, p, f, e : d = scan.data /\ p = scan.pos /\ f = scan.field /\ e = TakenEnd
    OBVIOUS
  <2>3. TakenEnd \in Nat
    BY ScanTakeEffect
  <2>4. /\ pc' # "names"
        /\ pc' = "scan" =>
             /\ scan'.data = d /\ scan'.pos = p /\ scan'.i = e + 1 /\ scan'.field = f + 1
             /\ scan'.metadata = TakenMetadata
    BY <1>4, <2>2, ScanTakeEffect
  <2>5. (e + 1) - 1 = e /\ (f + 1) - 1 = f
    BY <1>2, <2>2, <2>3
  <2>6. /\ TakenMetadata = HeaderOf(d) \o NamesOf(d) \o Joined(SizeBytes(KidWires(d)), f)
        /\ Cat(encodeStream_, p + 1, e) = Joined(KidWires(d), f)
    BY <1>1, <2>2, TakenSoFar
  <2>7. pc' = "scan" =>
          /\ scan'.metadata = HeaderOf(d) \o NamesOf(d)
                                \o Joined(SizeBytes(KidWires(d)), scan'.field - 1)
          /\ Cat(encodeStream_, scan'.pos + 1, scan'.i - 1) = Joined(KidWires(d), scan'.field - 1)
          /\ scan'.data = d
    BY <2>4, <2>5, <2>6
  <2> QED
    BY <1>1, <2>1, <2>4, <2>7, Zenon DEF MetadataAt
<1> QED
  BY <1>3, <1>5, <1>6 DEF Content

(* With the last child the metadata is complete: the placeholder and what  *)
(* lies behind it, up to the end of the last child, are the bytes of the   *)
(* composite.                                                              *)
LEMMA TakeLastKeepsContent ==
  ASSUME IInv, PendingInv, PlainHeap(heap), calls = 1, OnceLast,
         NEW St, Layout(St), Content(St), ScanTake, TakesLast
  PROVE  Content(St)'
<1>0. PICK p, e, md : p = scan.pos /\ e = TakenEnd /\ md = TakenMetadata
  OBVIOUS
<1>1. /\ Scanning /\ pc = "scan" /\ pc' = "meta"
      /\ UNCHANGED <<heap, root, calls, TraverseStack, MetaStack, encodingIdx>>
      /\ md \in Seq(Byte)
  BY <1>0, TakeLastEnds
<1>2. /\ encodingIdx = Len(encodeStream_) + 1 /\ encodingIdx \in Nat
      /\ p \in 1 .. encodingIdx - 1 /\ scan.data = Head(St[p])
      /\ IsComposite(Head(St[p]))
      /\ e \in p + 1 .. encodingIdx - 1
  BY <1>0, TakeLastEnds
<1>3. FillsLast(p, e, md)
  BY <1>0, TakeLastFills
<1>4. /\ encodeStream_'[p].bytes = md
      /\ \A x \in 1 .. encodingIdx - 1 : x # p => encodeStream_'[x] = encodeStream_[x]
      /\ Pending = Pending' \cup {p}
      /\ DOMAIN meta_size_offset' = DOMAIN meta_size_offset \cup {p}
      /\ meta_offset'[p] = e
      /\ \A x \in DOMAIN meta_offset : x # p => meta_offset'[x] = meta_offset[x]
  BY <1>3 DEF FillsLast
<1>5. heap' = heap /\ encodingIdx' = encodingIdx /\ TraverseStack' = TraverseStack
  BY <1>1
<1>6. /\ \A d : IsComposite(d)' = IsComposite(d)
      /\ \A d : KidsOf(d)' = KidsOf(d)
  BY <1>5, HeapStays
<1>7. Written(St)'
  <2>1. ASSUME NEW x \in 1 .. encodingIdx - 1, ~ IsComposite(Head(St[x]))
        PROVE  /\ encodeStream_'[x].bytes = Wire(heap, Head(St[x]))
               /\ ~ Service!HasNoBytes(heap[Head(St[x])])
    <3>1. x # p
      BY <1>2, <2>1
    <3> QED
      BY <1>4, <2>1, <3>1 DEF Content, Written
  <2> QED
    BY <1>5, <1>6, <2>1, Zenon DEF Written
<1>8. Reached(St)'
  <2>1. Met(St)' = Met(St)
    BY <1>5, Zenon DEF Met
  <2> QED
    BY <1>5, <1>6, <2>1, Zenon DEF Content, Reached
<1>9. MetadataAt(St)'
  BY <1>1 DEF MetadataAt
<1>10. Summed'
  <2>1. UNCHANGED <<sumIdx, bytestream>>
    BY DEF ScanTake
  <2> QED
    BY <1>1, <2>1, SummedStays DEF Content
<1>11. ASSUME NEW x \in DOMAIN meta_size_offset, x # p
       PROVE  /\ Cat(encodeStream_', x, meta_offset'[x]) = Wire(heap, Head(St[x]))
              /\ ~ Service!HasNoBytes(heap[Head(St[x])])
  <2>1. /\ x \in 1 .. encodingIdx - 1 /\ x \in DOMAIN meta_offset
        /\ IsEnd(St, x, meta_offset[x]) /\ \A y \in Pending : y < x
    BY DEF Layout, FilledAt
  <2>2. PICK o : o = meta_offset[x]
    OBVIOUS
  <2>3. /\ o \in Int /\ x \in Int
        /\ \A k \in x .. o : k \in 1 .. encodingIdx - 1 /\ k # p
    <3>1. p < x
      BY <1>4, <2>1
    <3>2. o \in x .. encodingIdx - 1 /\ x \in 1 .. encodingIdx - 1
      BY <2>1, <2>2 DEF IsEnd
    <3> QED
      BY <1>2, <3>1, <3>2
  <2>4. \A k \in x .. o : encodeStream_[k].bytes = encodeStream_'[k].bytes
    BY <1>4, <2>3
  <2>5. Cat(encodeStream_, x, o) = Cat(encodeStream_', x, o)
    BY <2>3, <2>4, CatAgree
  <2>6. meta_offset'[x] = o
    BY <1>4, <1>11, <2>1, <2>2
  <2> QED
    BY <2>2, <2>5, <2>6 DEF Content, FilledIn
<1>12. /\ Cat(encodeStream_', p, e) = Wire(heap, Head(St[p]))
       /\ ~ Service!HasNoBytes(heap[Head(St[p])])
  <2>1. PICK d : d = Head(St[p])
    OBVIOUS
  <2>2. d \in DOMAIN heap /\ heap[d].type \in CompositeTypes /\ scan.data = d
    BY <1>1, <1>2, <2>1, ScanningFacts DEF IsComposite
  <2>3. /\ KidsOf(d) = heap[d].kids /\ scan.field = Len(heap[d].kids)
        /\ scan.field \in 1 .. Len(heap[d].kids)
    <3>1. KidsOf(d) = heap[d].kids /\ scan.field \in 1 .. Len(KidsOf(d))
      BY <1>1, <2>2, ScanFinds
    <3>2. scan.field = Len(KidsOf(d))
      BY <1>1, <2>2, LastIsLast
    <3> QED
      BY <3>1, <3>2
  <2>4. PICK w : w = KidWires(d)
    OBVIOUS
  <2>5. PICK z : z = SizeBytes(w)
    OBVIOUS
  <2>6. /\ w \in Seq(Seq(Byte)) /\ Len(w) = scan.field
        /\ z \in Seq(Seq(Byte)) /\ Len(z) = scan.field
    BY <2>2, <2>3, <2>4, <2>5, KidWiresTyped, SizeBytesType
  <2>7. /\ FlattenSeq(w) = Joined(w, scan.field) /\ FlattenSeq(w) \in Seq(Byte)
        /\ FlattenSeq(z) = Joined(z, scan.field) /\ FlattenSeq(z) \in Seq(Byte)
    BY <2>6, FlattenJoined, FlattenType
  <2>8. /\ md = HeaderOf(d) \o NamesOf(d) \o FlattenSeq(z)
        /\ Cat(encodeStream_, p + 1, e) = FlattenSeq(w)
    BY <1>0, <1>1, <2>2, <2>4, <2>5, <2>7, TakenSoFar
  <2>9. PICK q : q = p + 1
    OBVIOUS
  <2>10. /\ p \in Int /\ q \in Int /\ e \in Int /\ p <= e
         /\ \A k \in q .. e : k \in 1 .. encodingIdx - 1 /\ k # p
         /\ \A k \in p .. e : k \in 1 .. Len(encodeStream_) /\ (k = p \/ k \in q .. e)
    BY <1>2, <2>9
  <2>11. \A k \in p .. e : encodeStream_'[k].bytes \in Seq(Byte)
    <3>1. \A k \in q .. e : encodeStream_'[k] = encodeStream_[k]
      BY <1>4, <2>10
    <3>2. \A k \in 1 .. Len(encodeStream_) : encodeStream_[k].bytes \in Seq(Byte)
      BY StreamTyped, EntryBytes
    <3> QED
      BY <1>1, <1>4, <2>10, <3>1, <3>2
  <2>12. Cat(encodeStream_', p, e) = encodeStream_'[p].bytes \o Cat(encodeStream_', p + 1, e)
    BY <2>10, <2>11, CatFirst
  <2>13. Cat(encodeStream_, q, e) = Cat(encodeStream_', q, e)
    <3>1. \A k \in q .. e : encodeStream_[k].bytes = encodeStream_'[k].bytes
      BY <1>4, <2>10
    <3> QED
      BY <2>10, <3>1, CatAgree
  <2>14. Cat(encodeStream_', p, e) = (HeaderOf(d) \o NamesOf(d) \o FlattenSeq(z)) \o FlattenSeq(w)
    BY <1>4, <2>8, <2>9, <2>12, <2>13
  <2>15. Wire(heap, d) = TypeEncoding(heap[d]) \o
           (CountBytes(heap[d]) \o NamesOf(d) \o FlattenSeq(z) \o FlattenSeq(w))
    <3>1. heap[d].type \in CompositeTypes
      BY <2>2
    <3>2. Wire(heap, d) = ObjectBytes(heap[d], w)
      BY <2>2, <2>4, WireTyped
    <3>3. ObjectBytes(heap[d], w) = TypeEncoding(heap[d]) \o
            (CountBytes(heap[d]) \o FlattenSeq(NameBytes(heap[d]))
               \o FlattenSeq(SizeBytes(w)) \o FlattenSeq(w))
      BY <3>1, CompositeBytes
    <3> QED
      BY <2>5, <3>2, <3>3, Zenon DEF NamesOf
  <2>16. PICK t, c, n, a, b : /\ t = TypeEncoding(heap[d]) /\ c = CountBytes(heap[d])
                              /\ n = NamesOf(d) /\ a = FlattenSeq(z) /\ b = FlattenSeq(w)
    OBVIOUS
  <2>17. t \in Seq(Byte) /\ c \in Seq(Byte) /\ n \in Seq(Byte) /\ a \in Seq(Byte) /\ b \in Seq(Byte)
    BY <2>2, <2>7, <2>16, HeaderTyped
  <2>18. ((((t \o c) \o n) \o a) \o b) = t \o (((c \o n) \o a) \o b)
    <3>1. c \o n \in Seq(Byte) /\ t \o (c \o n) = (t \o c) \o n
      BY <2>17, ConcatThree, SMTT(30)
    <3>2. PICK u : u = c \o n
      OBVIOUS
    <3>3. t \in Seq(Byte) /\ u \in Seq(Byte) /\ a \in Seq(Byte)
      BY <2>17, <3>1, <3>2
    <3>4. u \o a \in Seq(Byte) /\ t \o (u \o a) = (t \o u) \o a
      BY <3>3, ConcatThree
    <3>5. PICK v : v = u \o a
      OBVIOUS
    <3>6. t \in Seq(Byte) /\ v \in Seq(Byte) /\ b \in Seq(Byte)
      BY <2>17, <3>4, <3>5
    <3>7. t \o (v \o b) = (t \o v) \o b
      BY <3>6, ConcatThree
    <3> QED
      BY <3>1, <3>2, <3>4, <3>5, <3>7
  <2>19. HeaderOf(d) = t \o c
    BY <2>16 DEF HeaderOf
  <2>20. Cat(encodeStream_', p, e) = Wire(heap, d)
    BY <2>14, <2>15, <2>16, <2>18, <2>19, Zenon
  <2>21. ~ Service!HasNoBytes(heap[d])
    <3>1. heap[d].type \notin Service!NumberTypes
      BY <2>2 DEF CompositeTypes, Service!NumberTypes
    <3>2. heap[d].kids # <<>>
      BY <2>3
    <3>3. heap[d].type \notin {"OTHER", "WILD"}
      BY <2>2 DEF CompositeTypes
    <3> QED
      BY <3>1, <3>2, <3>3, Zenon DEF Service!HasNoBytes
  <2> QED
    BY <2>1, <2>20, <2>21
<1>13. FilledIn(St)'
  <2>1. ASSUME NEW x \in DOMAIN meta_size_offset'
        PROVE  /\ Cat(encodeStream_', x, meta_offset'[x]) = Wire(heap', Head(St[x]))
               /\ ~ Service!HasNoBytes(heap'[Head(St[x])])
    <3>1. x = p \/ (x \in DOMAIN meta_size_offset /\ x # p)
      BY <1>4
    <3> QED
      BY <1>4, <1>5, <1>11, <1>12, <3>1, Zenon
  <2> QED
    BY <2>1, Zenon DEF FilledIn
<1> QED
  BY <1>7, <1>8, <1>9, <1>10, <1>13 DEF Content

-----------------------------------------------------------------------------
(* A plain heap as a whole is a set of objects none of which holds its     *)
(* last child twice.                                                       *)
LEMMA PlainOnceLast ==
  ASSUME IInv, PlainHeap(heap), root \in DOMAIN heap
  PROVE  OnceLastIn(DOMAIN heap) /\ OnceLast
<1>1. \A d \in DOMAIN heap : heap[d].kids \in Seq(DOMAIN heap) /\ ~ LastChildTwice(heap[d])
  BY DocTyped DEF IInv, PlainHeap
<1>2. OnceLastIn(DOMAIN heap)
  BY <1>1 DEF OnceLastIn
<1> QED
  BY <1>2 DEF OnceLast

(* The object of the first entry, or of the first still to come.           *)
LEMMA RootInHeap ==
  ASSUME IInv, NEW St, Layout(St)
  PROVE  root \in DOMAIN heap
<1>1. encodingIdx \in Nat /\ encodingIdx >= 1
  BY IndexTyped DEF IInv, StackInv
<1>2. 1 \in 1 .. encodingIdx
  BY <1>1
<1>3. St[1] \in Seq(DOMAIN heap) /\ St[1] = <<root>>
  BY <1>2, TraceTyped DEF Layout, Trace
<1> QED
  BY <1>3

(* Every step of a first call keeps layout and content.                    *)
LEMMA ContentInvNext == IInv /\ PendingInv /\ ContentInv /\ [Next]_vars => ContentInv'
<1> SUFFICES ASSUME IInv, PendingInv, ContentInv, [Next]_vars, calls' = 1, PlainHeap(heap')
             PROVE  \E St : Layout(St)' /\ Content(St)'
  BY DEF ContentInv
<1>1. ASSUME NEW r \in DOMAIN heap, Encode(r) PROVE \E St : Layout(St)' /\ Content(St)'
  <2>1. PICK St : Layout(St)'
    BY <1>1, EncodeMakesLayout
  <2>2. Content(St)'
    BY <1>1, <2>1, EncodeMakesContent
  <2> QED
    BY <2>1, <2>2
<1>2. ASSUME UNCHANGED <<heap, root, calls>>
      PROVE  /\ calls = 1 /\ PlainHeap(heap) /\ OnceLast
             /\ \E St : Layout(St) /\ Content(St)
  <2>1. calls = 1 /\ PlainHeap(heap)
    BY <1>2, Zenon
  <2>2. PICK St : Layout(St) /\ Content(St)
    BY <2>1 DEF ContentInv
  <2>3. root \in DOMAIN heap
    BY <2>2, RootInHeap
  <2>4. OnceLast
    BY <2>1, <2>3, PlainOnceLast
  <2> QED
    BY <2>1, <2>2, <2>4
<1>3. ASSUME VisitPrimitive PROVE \E St : Layout(St)' /\ Content(St)'
  <2>1. UNCHANGED <<heap, root, calls>>
    BY <1>3, EmitEffect
  <2>2. PICK St : Layout(St) /\ Content(St)
    BY <1>2, <2>1
  <2>3. PICK S : /\ Layout(S)' /\ Head(S[encodingIdx]) = Top
                 /\ \A p \in 1 .. encodingIdx : S[p] = St[p]
    BY <1>3, <2>2, EmitKeepsLayout
  <2>4. PlainHeap(heap)
    BY <1>2, <2>1
  <2>5. Content(S)'
    BY <1>3, <2>2, <2>3, <2>4, EmitKeepsContent
  <2> QED
    BY <2>3, <2>5
<1>4. ASSUME VisitComposite PROVE \E St : Layout(St)' /\ Content(St)'
  <2>1. UNCHANGED <<heap, root, calls>>
    BY <1>4, VisitCompositeEffect
  <2>2. PICK St : Layout(St) /\ Content(St)
    BY <1>2, <2>1
  <2>3. PICK S : /\ Layout(S)' /\ Head(S[encodingIdx]) = Top
                 /\ \A p \in 1 .. encodingIdx : S[p] = St[p]
    BY <1>4, <2>2, VisitCompositeKeepsLayout
  <2>4. PlainHeap(heap)
    BY <1>2, <2>1
  <2>5. Content(S)'
    BY <1>4, <2>2, <2>3, <2>4, VisitCompositeKeepsContent
  <2> QED
    BY <2>3, <2>5
<1>5. ASSUME OtherAction PROVE \E St : Layout(St)' /\ Content(St)'
  <2>1. calls = 1 /\ UNCHANGED <<heap, root, calls>>
    BY <1>5, OtherEffect
  <2>2. PICK St : Layout(St) /\ Content(St)
    BY <1>2, <2>1
  <2>3. Layout(St)'
    BY <1>5, <2>1, <2>2, OtherKeepsLayout
  <2>4. Content(St)'
    BY <1>5, <2>2, OtherKeepsContent
  <2> QED
    BY <2>3, <2>4
<1>6. ASSUME BeginMeta PROVE \E St : Layout(St)' /\ Content(St)'
  <2>1. calls = 1 /\ UNCHANGED <<heap, root, calls>>
    BY <1>6, BeginMetaEffect
  <2>2. PlainHeap(heap) /\ \E St : Layout(St) /\ Content(St)
    BY <1>2, <2>1
  <2>3. PICK St : Layout(St) /\ Content(St)
    BY <2>2
  <2>4. Layout(St)'
    BY <1>6, <2>1, <2>3, BeginMetaKeepsLayout
  <2>5. Content(St)'
    BY <1>6, <2>2, <2>3, BeginMetaKeepsContent
  <2> QED
    BY <2>4, <2>5
<1>7. ASSUME EncodeFieldName PROVE \E St : Layout(St)' /\ Content(St)'
  <2>1. calls = 1 /\ UNCHANGED <<heap, root, calls>>
    BY <1>7, EncodeFieldNameEffect
  <2>2. PlainHeap(heap) /\ \E St : Layout(St) /\ Content(St)
    BY <1>2, <2>1
  <2>3. PICK St : Layout(St) /\ Content(St)
    BY <2>2
  <2>4. Layout(St)'
    BY <1>7, <2>1, <2>3, EncodeFieldNameKeepsLayout
  <2>5. Content(St)'
    BY <1>7, <2>2, <2>3, EncodeFieldNameKeepsContent
  <2> QED
    BY <2>4, <2>5
<1>8. ASSUME ScanSkip PROVE \E St : Layout(St)' /\ Content(St)'
  <2>1. /\ calls = 1 /\ UNCHANGED <<heap, root, calls>> /\ Scanning /\ ~ SameType
    BY <1>8, ScanSkipEffect
  <2>2. PICK St : Layout(St) /\ Content(St)
    BY <1>2, <2>1
  <2>3. Scanned.data = DataTraverse
    BY <2>1, <2>2, ScanFinds
  <2> QED
    BY <2>1, <2>3 DEF SameType
<1>9. ASSUME ScanTake PROVE \E St : Layout(St)' /\ Content(St)'
  <2>1. /\ calls = 1 /\ UNCHANGED <<heap, root, calls>>
    BY <1>9, ScanTakeEffect
  <2>2. /\ PlainHeap(heap) /\ OnceLast
        /\ \E St : Layout(St) /\ Content(St)
    BY <1>2, <2>1
  <2>3. PICK St : Layout(St) /\ Content(St)
    BY <2>2
  <2>4. Layout(St)'
    BY <1>9, <2>1, <2>2, <2>3, TakeOnKeepsLayout, TakeLastKeepsLayout
  <2>5. Content(St)'
    BY <1>9, <2>1, <2>2, <2>3, TakeOnKeepsContent, TakeLastKeepsContent
  <2> QED
    BY <2>4, <2>5
<1>10. ASSUME UNCHANGED vars PROVE \E St : Layout(St)' /\ Content(St)'
  <2>1. UNCHANGED <<heap, root, encodeStream_, meta_offset, meta_size_offset, calls, pc,
                    TraverseStack, MetaStack, encodingIdx, scan, sumIdx, bytestream>>
    BY <1>10 DEF vars, members, locals
  <2>2. PICK St : Layout(St) /\ Content(St)
    BY <1>2, <2>1
  <2>3. Layout(St)'
    BY <2>1, <2>2, IdleKeepsLayout
  <2>4. Written(St)' /\ FilledIn(St)' /\ Reached(St)'
    BY <2>1, <2>2, EntriesStay
  <2>5. MetadataAt(St)'
    <3>1. /\ \A x : HeaderOf(x)' = HeaderOf(x)
          /\ \A x : NamesOf(x)' = NamesOf(x)
          /\ \A x : KidWires(x)' = KidWires(x)
      BY <2>1, HeapStays
    <3>2. MetadataAt(St)
      BY <2>2 DEF Content
    <3> QED
      BY <2>1, <3>1, <3>2, Zenon DEF MetadataAt
  <2>6. Summed'
    BY <2>1, <2>2 DEF Content, Summed
  <2> QED
    BY <2>3, <2>4, <2>5, <2>6 DEF Content
<1> QED
  BY <1>1, <1>3, <1>4, <1>5, <1>6, <1>7, <1>8, <1>9, <1>10, NextCases

(* The invariant of a first call on a plain heap.                          *)
LEMMA ContentHolds == Spec => [](IInv /\ PendingInv /\ ContentInv)
<1>1. Init => ContentInv
  BY DEF Init, ContentInv
<1>2. PendingInv /\ ContentInv /\ IInv /\ [Next]_vars => PendingInv' /\ ContentInv'
  BY PendingInvNext, ContentInvNext
<1> QED
  BY <1>1, <1>2, PendingInvInit, IInvHolds, PTL DEF Spec

(* The abstract specification speaks of the same bytes.                    *)
LEMMA SameVarint ==
  ASSUME NEW v
  PROVE  Service!VarientEncoding(v) = VarientEncoding(v)
<1>1. \A s : Service!Cardinality(s) = Cardinality(s)
  BY Zenon DEF Cardinality, Service!Cardinality
<1>2. Service!NumGroups(v) = NumGroups(v)
  BY <1>1, Zenon DEF NumGroups, Service!NumGroups
<1> QED
  BY <1>2, Zenon DEF VarientEncoding, Service!VarientEncoding

(* The byte format and the objects below one are the same in both.         *)
LEMMA SameWire ==
  ASSUME NEW h, NEW r
  PROVE  Service!Wire(h, r) = Wire(h, r) /\ Service!Below(h, r) = Below(h, r)
<1>1. \A d : Service!TypeEncoding(d) = TypeEncoding(d)
  BY SameVarint, Zenon DEF TypeEncoding, Service!TypeEncoding, TypeCode, Service!TypeCode
<1>2. \A s : Service!FlattenSeq(s) = FlattenSeq(s)
  BY Zenon DEF FlattenSeq, Service!FlattenSeq
<1>3. \A x, c : Service!ObjectBytes(x, c) = ObjectBytes(x, c)
  BY <1>1, <1>2, SameVarint, ZenonT(40)
  DEF ObjectBytes, Service!ObjectBytes, NumberTypes, Service!NumberTypes,
      HasTypeCode, Service!HasTypeCode, TypeCode, Service!TypeCode
<1>4. Service!Wire(h, r) = Wire(h, r)
  BY <1>3, Zenon DEF Wire, Service!Wire
<1>5. Service!Below(h, r) = Below(h, r)
  BY Zenon DEF Below, Service!Below
<1> QED
  BY <1>4, <1>5

(* So are the objects,                                                     *)
LEMMA SameData == Service!Data = Data
BY Zenon DEF Data, Service!Data, DataTypes, Service!DataTypes, PrimitiveTypes,
   Service!PrimitiveTypes, NumberTypes, Service!NumberTypes, CompositeTypes,
   Service!CompositeTypes, Byte, Service!Byte

(* and what can be written.                                                *)
LEMMA EncodableIs ==
  ASSUME NEW h, NEW r
  PROVE  Service!Encodable(h, r) <=> \A d \in Below(h, r) : ~ Service!HasNoBytes(h[d])
BY SameWire, Zenon DEF Service!Encodable

-----------------------------------------------------------------------------
(* The traversal stays among the objects below the root.                   *)
LEMMA TraceBelow ==
  ASSUME IInv, PlainHeap(heap), NEW St, Layout(St), NEW p \in 1 .. encodingIdx
  PROVE  St[p] \in Seq(Below(heap, root))
<1>1. root \in DOMAIN heap
  BY RootInHeap
<1>2. WellBuilt(heap) /\ Grounded(heap)
  BY PlainGrounded
<1>3. PICK B : B = Below(heap, root)
  OBVIOUS
<1>4. B \subseteq DOMAIN heap /\ root \in B /\ ClosedIn(heap, B)
  BY <1>1, <1>2, <1>3, BelowOfKids, BelowClosed
<1>5. ASSUME NEW d \in B PROVE heap[d].kids \in Seq(B) /\ ~ LastChildTwice(heap[d])
  <2>1. /\ heap[d].kids \in Seq(DOMAIN heap) /\ Len(heap[d].kids) \in Nat
        /\ DOMAIN heap[d].kids = 1 .. Len(heap[d].kids)
    BY <1>2, <1>4, KidsTyped
  <2>2. \A k \in 1 .. Len(heap[d].kids) : heap[d].kids[k] \in B
    BY <1>4, <2>1 DEF ClosedIn
  <2>3. heap[d].kids \in Seq(B)
    BY <2>1, <2>2, IsASeq
  <2>4. ~ LastChildTwice(heap[d])
    BY <1>4 DEF PlainHeap
  <2> QED
    BY <2>3, <2>4
<1>6. OnceLastIn(B)
  BY <1>4, <1>5 DEF OnceLastIn
<1>7. Trace(St)
  BY DEF Layout
<1> QED
  BY <1>3, <1>6, <1>7, TraceInside

(* Once the stack is empty the entries of the root are all entries.        *)
LEMMA StreamIsWire ==
  ASSUME IInv, PlainHeap(heap), NEW St, Layout(St), Content(St), pc \in {"sum", "returned"}
  PROVE  /\ Cat(encodeStream_, 1, Len(encodeStream_)) = Wire(heap, root)
         /\ Service!Encodable(heap, root)
<1>1. /\ encodingIdx \in Nat /\ encodingIdx = Len(encodeStream_) + 1
      /\ Len(encodeStream_) \in Nat /\ Trace(St)
  BY IndexTyped, StreamTyped DEF Layout, Visited
<1>2. TraverseStack = <<>> /\ MetaStack = <<>> /\ St[encodingIdx] = <<>> /\ St[1] = <<root>>
  <2>1. TraverseStack = <<>>
    BY DEF Content, Summed
  <2> QED
    BY <1>1, <2>1 DEF Layout, Trace
<1>3. /\ \A p \in 1 .. encodingIdx - 1 :
           IsComposite(Head(St[p])) => p \in DOMAIN meta_size_offset
  <2>1. Pending = {}
    BY <1>2 DEF Pending
  <2> QED
    BY <2>1 DEF Layout, AllPlaced
<1>4. 1 \in 1 .. encodingIdx - 1 /\ Head(St[1]) = root
  BY <1>1, <1>2
<1>5. root \in DOMAIN heap
  BY RootInHeap
<1>6. Cat(encodeStream_, 1, Len(encodeStream_)) = Wire(heap, root)
  <2>1. CASE IsComposite(root)
    <3>1. 1 \in DOMAIN meta_size_offset
      BY <1>3, <1>4, <2>1
    <3>2. PICK e : e = meta_offset[1]
      OBVIOUS
    <3>3. /\ e \in 1 .. encodingIdx - 1 /\ Len(St[e + 1]) = Len(St[1]) - 1
      BY <3>1, <3>2 DEF Layout, FilledAt, IsEnd
    <3>4. Len(St[e + 1]) = 0 /\ St[e + 1] \in Seq(DOMAIN heap)
      <4>1. e + 1 \in 1 .. encodingIdx
        BY <1>1, <3>3
      <4>2. Len(St[1]) = 1
        BY <1>2
      <4>3. St[e + 1] \in Seq(DOMAIN heap)
        BY <1>1, <4>1, TraceTyped
      <4> QED
        BY <3>3, <4>2, <4>3
    <3>5. e + 1 = encodingIdx
      <4>1. ASSUME e + 1 # encodingIdx PROVE FALSE
        <5>1. e + 1 \in 1 .. encodingIdx - 1
          BY <1>1, <3>3, <4>1
        <5>2. St[e + 1] # <<>>
          BY <1>1, <5>1 DEF Trace
        <5> QED
          BY <3>4, <5>2
      <4> QED
        BY <4>1
    <3>6. Cat(encodeStream_, 1, e) = Wire(heap, root)
      BY <1>4, <3>1, <3>2 DEF Content, FilledIn
    <3>7. e = Len(encodeStream_)
      BY <1>1, <3>3, <3>5
    <3> QED
      BY <3>6, <3>7
  <2>2. CASE ~ IsComposite(root)
    <3>1. /\ encodeStream_[1].bytes = Wire(heap, root)
      BY <1>4, <2>2 DEF Content, Written
    <3>2. St[1 + 1] = KidsOf(root) \o Tail(St[1])
      BY <1>1, <1>4 DEF Trace
    <3>3. KidsOf(root) = <<>> /\ Tail(St[1]) = <<>>
      BY <1>2, <2>2 DEF KidsOf, IsComposite
    <3>4. St[2] = <<>>
      <4>1. <<>> \o <<>> = <<>> /\ 1 + 1 = 2
        BY ConcatEmptySeq
      <4> QED
        BY <3>2, <3>3, <4>1
    <3>5. encodingIdx = 2
      <4>1. ASSUME encodingIdx # 2 PROVE FALSE
        <5>1. 2 \in 1 .. encodingIdx - 1
          BY <1>1, <1>4, <4>1
        <5>2. St[2] # <<>>
          BY <1>1, <5>1 DEF Trace
        <5> QED
          BY <3>4, <5>2
      <4> QED
        BY <4>1
    <3>6. Len(encodeStream_) = 1
      <4>1. PICK l : l = Len(encodeStream_)
        OBVIOUS
      <4>2. l \in Nat /\ l + 1 = 2
        BY <1>1, <3>5, <4>1
      <4> QED
        BY <4>1, <4>2
    <3>7. encodeStream_[1].bytes \in Seq(Byte)
      BY <1>5, <3>1, WireTyped
    <3>8. Cat(encodeStream_, 1, 1) = encodeStream_[1].bytes
      BY <3>7, CatOne
    <3> QED
      BY <3>1, <3>6, <3>8
  <2> QED
    BY <2>1, <2>2
<1>7. Service!Encodable(heap, root)
  <2> DEFINE C == {Head(St[p]) : p \in 1 .. encodingIdx - 1}
  <2>1. C \subseteq DOMAIN heap /\ root \in C
    <3>1. \A p \in 1 .. encodingIdx - 1 : Head(St[p]) \in DOMAIN heap
      BY <1>1, TraceStep
    <3> QED
      BY <1>4, <3>1
  <2>2. Met(St) = C
    <3>1. Len(TraverseStack) = 0
      BY <1>2
    <3> QED
      BY <3>1 DEF Met
  <2>3. ASSUME NEW d \in C, NEW k \in DOMAIN heap[d].kids PROVE heap[d].kids[k] \in C
    <3>1. PICK p \in 1 .. encodingIdx - 1 : d = Head(St[p])
      OBVIOUS
    <3>2. DOMAIN heap[d].kids = 1 .. Len(heap[d].kids)
      BY <2>1, PlainGrounded, KidsTyped
    <3>3. heap[d].type \in CompositeTypes
      <4>1. heap[d].kids # <<>>
        BY <2>3
      <4> QED
        BY <2>1, <4>1 DEF PlainHeap
    <3>4. KidsOf(d) = heap[d].kids
      BY <3>3 DEF KidsOf
    <3>5. Reached(St)
      BY DEF Content
    <3>6. KidsOf(Head(St[p]))[k] \in Met(St)
      BY <3>1, <3>2, <3>4, <3>5 DEF Reached
    <3> QED
      BY <2>2, <3>1, <3>4, <3>6
  <2>4. ASSUME NEW d \in C PROVE ~ Service!HasNoBytes(heap[d])
    <3>1. PICK p \in 1 .. encodingIdx - 1 : d = Head(St[p])
      OBVIOUS
    <3>2. CASE IsComposite(d)
      BY <1>3, <3>1, <3>2 DEF Content, FilledIn
    <3>3. CASE ~ IsComposite(d)
      BY <3>1, <3>3 DEF Content, Written
    <3> QED
      BY <3>2, <3>3
  <2> HIDE DEF C
  <2>5. ClosedIn(heap, C)
    BY <2>1, <2>3 DEF ClosedIn
  <2>6. Below(heap, root) \subseteq C
    BY <2>1, <2>5, PlainGrounded, BelowLeast
  <2> QED
    BY <2>4, <2>6, EncodableIs
<1> QED
  BY <1>6, <1>7

(* A call that fails has met an object the format has no bytes for.        *)
LEMMA FailsOnUnwritable ==
  ASSUME IInv, PendingInv, PlainHeap(heap), calls = 1,
         NEW St, Layout(St), Content(St),
         NumberStops \/ MetaOfNothing \/ ScanNull
  PROVE  ~ Service!Encodable(heap, root)
<1> SUFFICES \E d \in Below(heap, root) : Service!HasNoBytes(heap[d])
  BY EncodableIs
<1>1. encodingIdx \in Nat /\ encodingIdx >= 1 /\ St[encodingIdx] = TraverseStack
  BY IndexTyped DEF IInv, StackInv, Layout, Trace
<1>2. ASSUME TraverseStack # <<>> PROVE Top \in Below(heap, root) /\ Top \in DOMAIN heap
  <2>1. encodingIdx \in 1 .. encodingIdx
    BY <1>1
  <2>2. TraverseStack \in Seq(Below(heap, root))
    BY <1>1, <2>1, TraceBelow
  <2>3. TraverseStack \in Seq(DOMAIN heap)
    BY DEF IInv, TypeOK
  <2> QED
    BY <1>2, <2>2, <2>3, HeadTailProperties DEF Top
<1>3. ASSUME NumberStops
      PROVE  \E d \in Below(heap, root) : Service!HasNoBytes(heap[d])
  <2>1. TraverseStack # <<>>
    BY <1>3 DEF NumberStops, NumberThrows, NumberDiverges, TypeDiverges, VisitWild,
                VisitingNumber, Visiting
  <2>2. heap[Top].type # "OTHER"
    BY <1>2, <2>1 DEF PlainHeap
  <2>3. \/ heap[Top].type = "WILD"
        \/ /\ heap[Top].type \in NumberTypes
           /\ ~ StoiReads(heap[Top].value) \/ heap[Top].value[1] < 0
    BY <1>3, <2>2 DEF NumberStops, NumberThrows, NumberDiverges, TypeDiverges, VisitWild,
                      VisitingNumber, Visiting
  <2>4. heap[Top].type # "WILD" =>
          heap[Top].value = <<>> \/ heap[Top].value[1] \notin 0 .. IntMax
    BY <2>3, IntAssumption DEF StoiReads
  <2>5. Service!HasNoBytes(heap[Top])
    BY <2>3, <2>4 DEF Service!HasNoBytes, NumberTypes, Service!NumberTypes
  <2> QED
    BY <1>2, <2>1, <2>5
<1>4. ASSUME MetaOfNothing
      PROVE  \E d \in Below(heap, root) : Service!HasNoBytes(heap[d])
  <2>1. pc = "meta" /\ remaining > 0 /\ ~ TopHasElements
    BY <1>4 DEF MetaOfNothing
  <2>2. remaining = Len(MetaStack)
    BY <2>1 DEF IInv, CountInv
  <2>3. MetaStack \in Seq([data : DOMAIN heap, pos : Nat])
    BY DEF IInv, TypeOK
  <2>4. 1 \in 1 .. Len(MetaStack) /\ MetaStack # <<>> /\ Head(MetaStack) = MetaStack[1]
    BY <2>1, <2>2, <2>3
  <2>5. PICK d, p : d = MetaStack[1].data /\ p = MetaStack[1].pos
    OBVIOUS
  <2>6. /\ heap[d].type \in CompositeTypes /\ p \in 1 .. encodingIdx - 1
        /\ d = Head(St[p]) /\ d \in DOMAIN heap
    <3>1. MetaStack[1] \in [data : DOMAIN heap, pos : Nat]
      BY <2>3, <2>4, ElementOfSeq
    <3> QED
      BY <2>4, <2>5, <3>1 DEF IInv, StackInv, Layout, Visited
  <2>7. heap[d].kids = <<>>
    <3>1. ~ (numofElements(heap[d]) > 0)
      BY <2>1, <2>4, <2>5, Zenon DEF TopHasElements
    <3>2. heap[d].kids \in Seq(DOMAIN heap) /\ Len(heap[d].kids) \in Nat
      BY <2>6, PlainGrounded, KidsTyped
    <3> QED
      BY <3>1, <3>2 DEF numofElements
  <2>8. Service!HasNoBytes(heap[d])
    BY <2>6, <2>7 DEF Service!HasNoBytes, CompositeTypes, Service!CompositeTypes
  <2>9. d \in Below(heap, root)
    <3>1. p \in 1 .. encodingIdx /\ St[p] # <<>>
      <4>1. p \in 1 .. encodingIdx
        BY <1>1, <2>6
      <4>2. Trace(St)
        BY DEF Layout
      <4>3. St[p] # <<>>
        BY <2>6, <4>2 DEF Trace
      <4> QED
        BY <4>1, <4>3
    <3>2. St[p] \in Seq(Below(heap, root))
      BY <3>1, TraceBelow
    <3> QED
      BY <2>6, <3>1, <3>2, HeadTailProperties
  <2> QED
    BY <2>8, <2>9
<1>5. ASSUME ScanNull PROVE FALSE
  <2>1. Scanning /\ Scanned.data = NULL
    BY <1>5 DEF ScanNull
  <2>2. Scanned.data \in DOMAIN heap
    BY <2>1, ScanFinds
  <2>3. heap \in Seq(Data)
    BY DEF IInv, TypeOK
  <2> QED
    BY <2>1, <2>2, <2>3 DEF NULL
<1> QED
  BY <1>3, <1>4, <1>5

(* The steps of Encoder under the mapping.                                 *)
Busy == {"traverse", "meta", "names", "scan", "sum"}

answer == IF pc = "returned" THEN bytestream ELSE <<>>

(* What the mapping makes of the places of a call, before a step           *)
LEMMA StatusIs ==
  /\ pc = "idle" => status = "idle"
  /\ pc \in Busy => status = "busy"
  /\ pc = "returned" => status = "answered"
  /\ pc \in {"threw", "diverged", "undefined"} => status = "failed"
BY DEF status, Busy

(* and after it.                                                           *)
LEMMA NextStatusIs ==
  /\ pc' = "idle" => status' = "idle"
  /\ pc' \in Busy => status' = "busy"
  /\ pc' = "returned" => status' = "answered"
  /\ pc' \in {"threw", "diverged", "undefined"} => status' = "failed"
BY DEF status, Busy

(* An Encoder that has made no call serves no request.                     *)
LEMMA StartsAsService == Init => Service!Init
<1> SUFFICES ASSUME Init PROVE Service!Init
  OBVIOUS
<1>1. heap \in Docs /\ root = NULL /\ pc = "idle"
  BY DEF Init
<1>2. heap \in Seq(Service!Data)
  BY <1>1, SameData, EncoderAssumption DEF WellBuilt
<1>3. status = "idle" /\ answer = <<>> /\ root = Service!NULL
  BY <1>1, StatusIs DEF answer, NULL, Service!NULL
<1> QED
  BY <1>2, <1>3, Zenon DEF Service!Init, answer

(* A step that leaves document, request, status and answer is a stutter.   *)
LEMMA StutterOf ==
  ASSUME UNCHANGED <<heap, root>>, status' = status, answer' = answer
  PROVE  UNCHANGED Service!vars
<1>1. (IF pc = "returned" THEN bytestream ELSE <<>>)'
        = IF pc = "returned" THEN bytestream ELSE <<>>
  BY DEF answer
<1> QED
  BY <1>1, Zenon DEF Service!vars

(* Every step of a first call is a step of the service or a stutter.       *)
LEMMA StepOfService ==
  ASSUME MaxEncodes = 1, IInv, PendingInv, ContentInv, PlainHeap(heap), [Next]_vars
  PROVE  [Service!Next]_Service!vars
<1>1. calls \in 0 .. 1 /\ (pc # "idle" => calls = 1)
  BY DEF IInv, TypeOK, CountInv
<1>2. ASSUME pc # "idle" PROVE \E St : Layout(St) /\ Content(St)
  BY <1>1, <1>2 DEF ContentInv
<1>3. ASSUME NEW r \in DOMAIN heap, Encode(r) PROVE Service!Submit(r)
  <2>1. /\ calls < MaxEncodes /\ root' = r /\ pc' = "traverse" /\ heap' = heap
    BY <1>3 DEF Encode
  <2>2. pc = "idle"
    BY <1>1, <2>1
  <2>3. status = "idle" /\ status' = "busy" /\ answer' = answer
    BY <2>1, <2>2, StatusIs, NextStatusIs DEF Busy, answer
  <2> QED
    BY <2>1, <2>3, Zenon DEF Service!Submit, answer
<1>4. ASSUME UNCHANGED <<heap, root>>, pc \in Busy, pc' \in Busy
      PROVE  UNCHANGED Service!vars
  <2>1. status' = status /\ answer' = answer
    BY <1>4, StatusIs, NextStatusIs DEF Busy, answer
  <2> QED
    BY <1>4, <2>1, StutterOf
<1>5. ASSUME VisitPrimitive PROVE UNCHANGED Service!vars
  BY <1>4, <1>5, EmitEffect DEF Busy
<1>6. ASSUME VisitComposite PROVE UNCHANGED Service!vars
  BY <1>4, <1>6, VisitCompositeEffect DEF Busy
<1>7. ASSUME BeginMeta PROVE UNCHANGED Service!vars
  BY <1>4, <1>7, BeginMetaEffect DEF Busy
<1>8. ASSUME EncodeFieldName PROVE UNCHANGED Service!vars
  BY <1>4, <1>8, EncodeFieldNameEffect DEF Busy
<1>9. ASSUME ScanSkip PROVE UNCHANGED Service!vars
  <2>1. pc = "scan" /\ pc' \in {"scan", "meta"} /\ UNCHANGED <<heap, root>>
    BY <1>9 DEF ScanSkip, Scanning, GoOnAt
  <2> QED
    BY <1>4, <2>1 DEF Busy
<1>10. ASSUME ScanTake PROVE UNCHANGED Service!vars
  <2>1. pc = "scan" /\ pc' \in {"scan", "meta"} /\ UNCHANGED <<heap, root>>
    BY <1>10, ScanTakeEffect DEF Scanning
  <2> QED
    BY <1>4, <2>1 DEF Busy
<1>11. ASSUME EndTraverse \/ EndMeta \/ SumUp PROVE UNCHANGED Service!vars
  <2>1. pc \in Busy /\ pc' \in Busy /\ UNCHANGED <<heap, root>>
    BY <1>11 DEF EndTraverse, EndMeta, SumUp, Busy
  <2> QED
    BY <1>4, <2>1
<1>12. ASSUME Return PROVE Service!Answer
  <2>1. /\ pc = "sum" /\ pc' = "returned" /\ sumIdx > Len(encodeStream_)
        /\ UNCHANGED <<heap, root, bytestream>>
    BY <1>12 DEF Return, locals
  <2>2. PICK St : Layout(St) /\ Content(St)
    BY <1>2, <2>1
  <2>3. /\ Cat(encodeStream_, 1, Len(encodeStream_)) = Wire(heap, root)
        /\ Service!Encodable(heap, root)
    BY <2>1, <2>2, StreamIsWire
  <2>4. bytestream = Cat(encodeStream_, 1, Len(encodeStream_))
    <3>1. /\ sumIdx \in 1 .. Len(encodeStream_) + 1
          /\ bytestream = Cat(encodeStream_, 1, sumIdx - 1)
      BY <2>1, <2>2 DEF Content, Summed
    <3>2. sumIdx - 1 = Len(encodeStream_)
      <4>1. Len(encodeStream_) \in Nat
        BY StreamTyped
      <4> QED
        BY <2>1, <3>1, <4>1
    <3> QED
      BY <3>1, <3>2
  <2>5. answer' = Service!Wire(heap, root)
    BY <2>1, <2>3, <2>4, SameWire DEF answer
  <2>6. status = "busy" /\ status' = "answered"
    BY <2>1, StatusIs, NextStatusIs DEF Busy
  <2> QED
    BY <2>1, <2>3, <2>5, <2>6, Zenon DEF Service!Answer, answer
<1>13. ASSUME NumberStops \/ MetaOfNothing \/ ScanNull PROVE Service!Fail
  <2>1. /\ pc \in Busy /\ pc' \in {"threw", "diverged", "undefined"}
        /\ UNCHANGED <<heap, root>>
    BY <1>13 DEF NumberStops, NumberThrows, NumberDiverges, TypeDiverges, VisitWild,
                 VisitingNumber, MetaOfNothing, ScanNull, Visiting, Scanning, Busy
  <2>2. calls = 1 /\ \E St : Layout(St) /\ Content(St)
    BY <1>1, <1>2, <2>1 DEF Busy
  <2>3. ~ Service!Encodable(heap, root)
    BY <1>13, <2>2, FailsOnUnwritable
  <2>4. status = "busy" /\ status' = "failed" /\ answer' = answer
    BY <2>1, StatusIs, NextStatusIs DEF Busy, answer
  <2> QED
    BY <2>1, <2>3, <2>4, Zenon DEF Service!Fail, answer
<1>14. ASSUME UNCHANGED vars PROVE UNCHANGED Service!vars
  <2>1. UNCHANGED <<heap, root, pc, bytestream>>
    BY <1>14 DEF vars, locals
  <2>2. status' = status /\ answer' = answer
    BY <2>1 DEF status, answer
  <2> QED
    BY <2>1, <2>2, StutterOf
<1> QED
  BY <1>3, <1>5, <1>6, <1>7, <1>8, <1>9, <1>10, <1>11, <1>12, <1>13, <1>14, NextCases,
     Zenon DEF OtherAction, Service!Next

(* Documents without a cycle, without a string longer than a string object *)
(* holds, and without a composite that holds its last child twice: a new   *)
(* Encoder answers with the byte format of the document if every object of *)
(* it can be written, and fails otherwise; it never returns other bytes.   *)
THEOREM EncodeImplementsService ==
  ASSUME MaxEncodes = 1, \A h \in Docs : PlainHeap(h)
  PROVE  Spec => ImplementsService
<1>1. IInv => PlainHeap(heap)
  BY DEF IInv, DocInv
<1>2. IInv /\ PendingInv /\ ContentInv /\ [Next]_vars => [Service!Next]_Service!vars
  BY <1>1, StepOfService
<1> QED
  BY <1>2, StartsAsService, ContentHolds, PTL DEF Spec, ImplementsService, Service!Spec

(* However often an Encoder is used later: what its first call returns is  *)
(* the byte format of a document all of whose objects can be written.      *)
THEOREM FirstCallRight ==
  Spec => [](calls = 1 /\ PlainHeap(heap) /\ pc = "returned" =>
               bytestream = Wire(heap, root) /\ Service!Encodable(heap, root))
<1>1. ASSUME IInv, ContentInv, calls = 1, PlainHeap(heap), pc = "returned"
      PROVE  bytestream = Wire(heap, root) /\ Service!Encodable(heap, root)
  <2>1. PICK St : Layout(St) /\ Content(St)
    BY <1>1 DEF ContentInv
  <2>2. bytestream = Cat(encodeStream_, 1, Len(encodeStream_))
    BY <1>1, <2>1 DEF Content, Summed
  <2>3. /\ Cat(encodeStream_, 1, Len(encodeStream_)) = Wire(heap, root)
        /\ Service!Encodable(heap, root)
    BY <1>1, <2>1, StreamIsWire
  <2> QED
    BY <2>2, <2>3
<1> QED
  BY <1>1, ContentHolds, PTL

-----------------------------------------------------------------------------
(* An Encoder of its own for one call, as in the tests: its members are    *)
(* empty when the call begins, whatever its other variables held before.   *)
FirstCall == IInv /\ PendingInv /\ ContentInv

LEMMA CallBegins ==
  ASSUME heap \in Docs, calls = 0, NEW r \in DOMAIN heap, Encode(r),
         encodeStream_ = <<>>, meta_offset = <<>>, meta_size_offset = <<>>
  PROVE  FirstCall'
<1>1. /\ heap' = heap /\ encodeStream_' = <<>> /\ meta_offset' = <<>> /\ meta_size_offset' = <<>>
      /\ calls' = 1 /\ calls' \in 0 .. MaxEncodes /\ root' = r /\ pc' = "traverse"
      /\ TraverseStack' = <<r>> /\ MetaStack' = <<>> /\ encodingIdx' = 1
      /\ remaining' = 0 /\ scan' = NoScan /\ sumIdx' = 1 /\ bytestream' = <<>>
  BY EncoderAssumption DEF Encode, members
<1>2. heap \in Seq(Data) /\ r \in Nat /\ <<r>> \in Seq(DOMAIN heap)
  <2>1. heap \in Seq(Data)
    BY EncoderAssumption DEF WellBuilt
  <2> QED
    BY <2>1
<1>3. TypeOK'
  <2>1. DOMAIN <<>> = {} /\ scan' \in Frame
    BY <1>1 DEF Frame, NoScan, NULL
  <2>2. meta_offset' \in [DOMAIN meta_offset' -> Nat] /\ DOMAIN meta_offset' \subseteq Nat
    BY <1>1, <2>1
  <2>3. meta_size_offset' \in [DOMAIN meta_size_offset' -> Nat] /\ DOMAIN meta_size_offset' \subseteq Nat
    BY <1>1, <2>1
  <2>4. MetaStack' \in Seq([data : DOMAIN heap, pos : Nat]) /\ encodeStream_' \in Seq(Entry)
        /\ bytestream' \in Seq(Byte) /\ TraverseStack' \in Seq(DOMAIN heap)
    BY <1>1, <1>2
  <2> QED
    BY <1>1, <1>2, <2>1, <2>2, <2>3, <2>4 DEF TypeOK
<1>4. DOMAIN meta_offset' = {} /\ DOMAIN meta_size_offset' = {} /\ Len(MetaStack') = 0
      /\ Len(encodeStream_') = 0
  BY <1>1
<1>5. Cardinality(DOMAIN meta_offset') = 0 /\ IsFiniteSet(DOMAIN meta_offset')
  BY <1>4, FS_EmptySet
<1>6. DocInv' /\ KeysInv' /\ StackInv' /\ ScanInv' /\ CountInv'
  BY <1>1, <1>4, <1>5 DEF DocInv, KeysInv, StackInv, ScanInv, CountInv
<1>7. IInv'
  BY <1>3, <1>6 DEF IInv
<1>8. PendingInv'
  BY <1>1, <1>4 DEF PendingInv
<1>9. PICK St : St = [x \in 1 .. 1 |-> <<r>>]
  OBVIOUS
<1>10. Layout(St)'
  <2>1. St \in [1 .. 1 -> Seq(DOMAIN heap)] /\ St[1] = <<r>> /\ 1 .. 1 - 1 = {}
    BY <1>2, <1>9
  <2>2. Trace(St)' /\ Visited(St)' /\ ScanAt(St)' /\ AllPlaced(St)'
    BY <1>1, <1>4, <2>1 DEF Trace, Visited, ScanAt, AllPlaced
  <2> QED
    BY <1>1, <1>4, <2>2 DEF Layout
<1>11. Content(St)'
  <2>1. 1 .. 1 - 1 = {}
    OBVIOUS
  <2>2. Written(St)' /\ Reached(St)' /\ FilledIn(St)' /\ MetadataAt(St)' /\ Summed'
    BY <1>1, <1>4, <2>1 DEF Written, Reached, FilledIn, MetadataAt, Summed
  <2> QED
    BY <2>2 DEF Content
<1> QED
  BY <1>7, <1>8, <1>10, <1>11 DEF FirstCall, ContentInv

(* It goes on as it began,                                                 *)
LEMMA FirstCallNext == FirstCall /\ [Next]_vars => FirstCall'
BY IInvNext, PendingInvNext, ContentInvNext DEF FirstCall

(* it returns the byte format of the document,                             *)
LEMMA CallAnswers ==
  ASSUME FirstCall, calls = 1, PlainHeap(heap), pc = "returned"
  PROVE  bytestream = Wire(heap, root)
<1>1. PICK St : Layout(St) /\ Content(St)
  BY DEF FirstCall, ContentInv
<1>2. bytestream = Cat(encodeStream_, 1, Len(encodeStream_))
  BY <1>1 DEF Content, Summed
<1> QED
  BY <1>1, <1>2, StreamIsWire DEF FirstCall

(* and if every object has bytes it does not fail.                         *)
Writable(h) ==
  \A d \in DOMAIN h :
    /\ h[d].type \in NumberTypes => h[d].value # <<>> /\ h[d].value[1] \in 0 .. IntMax
    /\ h[d].type \in CompositeTypes => h[d].kids # <<>>
    /\ h[d].type # "WILD"

LEMMA WritableIs ==
  ASSUME IInv, PlainHeap(heap), root \in DOMAIN heap, \A d \in Below(heap, root) :
    /\ heap[d].type \in NumberTypes => heap[d].value # <<>> /\ heap[d].value[1] \in 0 .. IntMax
    /\ heap[d].type \in CompositeTypes => heap[d].kids # <<>>
    /\ heap[d].type # "WILD"
  PROVE  Service!Encodable(heap, root)
<1>1. Below(heap, root) \subseteq DOMAIN heap
  BY PlainGrounded, BelowOfKids
<1>2. ASSUME NEW d \in Below(heap, root) PROVE ~ Service!HasNoBytes(heap[d])
  <2>1. heap[d].type # "OTHER"
    BY <1>1 DEF PlainHeap
  <2> QED
    BY <2>1 DEF Service!HasNoBytes, NumberTypes, Service!NumberTypes, CompositeTypes,
                Service!CompositeTypes
<1> QED
  BY <1>2, EncodableIs

LEMMA CallNeverFails ==
  ASSUME FirstCall, calls = 1, PlainHeap(heap), Writable(heap)
  PROVE  ~ (NumberStops \/ MetaOfNothing \/ ScanNull)
<1>1. IInv /\ PendingInv
  BY DEF FirstCall
<1>2. PICK St : Layout(St) /\ Content(St)
  BY DEF FirstCall, ContentInv
<1>3. root \in DOMAIN heap
  BY <1>1, <1>2, RootInHeap
<1>4. Below(heap, root) \subseteq DOMAIN heap
  BY <1>1, <1>3, PlainGrounded, BelowOfKids
<1>5. Service!Encodable(heap, root)
  BY <1>1, <1>3, <1>4, WritableIs DEF Writable
<1> QED
  BY <1>1, <1>2, <1>5, FailsOnUnwritable

(* A call that runs runs on, or returns.                                   *)
LEMMA CallGoesOn ==
  ASSUME FirstCall, calls = 1, PlainHeap(heap), Writable(heap), Step
  PROVE  /\ pc \in Busy /\ pc' \in Busy \cup {"returned"}
         /\ UNCHANGED <<heap, root, calls>>
<1>1. ~ (NumberStops \/ MetaOfNothing \/ ScanNull)
  BY CallNeverFails
<1>2. IInv
  BY DEF FirstCall
<1>3. CASE VisitPrimitive
  BY <1>2, <1>3, EmitEffect DEF Busy
<1>4. CASE VisitComposite
  BY <1>2, <1>4, VisitCompositeEffect DEF Busy
<1>5. CASE BeginMeta
  BY <1>2, <1>5, BeginMetaEffect DEF Busy
<1>6. CASE EncodeFieldName
  BY <1>2, <1>6, EncodeFieldNameEffect DEF Busy
<1>7. CASE ScanSkip
  BY <1>7 DEF ScanSkip, Scanning, GoOnAt, Busy
<1>8. CASE ScanTake
  <2>1. pc = "scan" /\ pc' \in {"scan", "meta"} /\ UNCHANGED <<heap, root, calls>>
    BY <1>2, <1>8, ScanTakeEffect DEF Scanning
  <2> QED
    BY <2>1 DEF Busy
<1>9. CASE EndTraverse \/ EndMeta \/ SumUp \/ Return
  BY <1>9 DEF EndTraverse, EndMeta, SumUp, Return, Busy, members, locals
<1> QED
  BY <1>1, <1>3, <1>4, <1>5, <1>6, <1>7, <1>8, <1>9, Zenon
     DEF Step, VisitPrimitive, NumberStops

=============================================================================
