---------------------------- MODULE EncoderProofs ---------------------------
(***************************************************************************)
(* Proofs about Encoder for every set of documents and every radix.  For   *)
(* every number of calls: type correctness, which includes that every index*)
(* used is in bounds, and the two counts encode() keeps by hand.  For the  *)
(* first call: where the entries of an object lie, that EncodingMeta finds *)
(* each child where it looks for it, and that the sizes it records are the *)
(* bytes that are there.                                                   *)
(***************************************************************************)
EXTENDS EncoderRefinement, DataLemmas

(* The document is one of Docs, so its pointers are to objects.            *)
DocInv == heap \in Docs

(* The keys of meta_offset can be counted.                                 *)
KeysInv == IsFiniteSet(DOMAIN meta_offset)

(* Every entry of the current call has a position of the stream, and once  *)
(* the traversal is over something lies behind the placeholder of every    *)
(* composite that has elements: the scan starts inside the stream.         *)
StackInv ==
  /\ encodingIdx \in 1 .. Len(encodeStream_) + 1
  /\ pc \in {"meta", "names", "scan"} => TraverseStack = <<>>
  /\ \A m \in 1 .. Len(MetaStack) :
       /\ heap[MetaStack[m].data].type \in CompositeTypes
       /\ MetaStack[m].pos \in 1 .. encodingIdx - 1
       /\ \/ TraverseStack # <<>>
          \/ numofElements(heap[MetaStack[m].data]) = 0
          \/ MetaStack[m].pos + 1 <= encodingIdx - 1

(* The locals of EncodingMeta: a composite of the document, one of its     *)
(* elements, an entry of the stream, and the metadata counted so far.      *)
ScanInv ==
  /\ pc \in {"names", "scan"} =>
       /\ scan.data \in DOMAIN heap
       /\ scan.field \in 1 .. numofElements(heap[scan.data])
       /\ scan.i \in 1 .. Len(encodeStream_)
       /\ scan.pos \in 1 .. Len(encodeStream_)
       /\ scan.metadata_size = Len(scan.metadata)
  /\ pc = "names" => heap[scan.data].type = "STRUCT"

(* On the first call the keys of meta_offset are the positions pushed on   *)
(* MetaStack, each pushed once.                                            *)
CountInv ==
  /\ pc = "idle" => calls = 0
  /\ calls = 0 => pc = "idle" /\ DOMAIN meta_offset = {}
  /\ calls = 1 /\ pc = "traverse" =>
       /\ Cardinality(DOMAIN meta_offset) = Len(MetaStack)
       /\ \A k \in DOMAIN meta_offset : k < encodingIdx
  /\ calls = 1 /\ pc \in {"meta", "names", "scan"} => remaining = Len(MetaStack)

IInv == TypeOK /\ DocInv /\ KeysInv /\ StackInv /\ ScanInv /\ CountInv

-----------------------------------------------------------------------------
(* The objects of a document are typed and point to objects.               *)
LEMMA DocTyped ==
  ASSUME DocInv, NEW d \in DOMAIN heap
  PROVE  /\ heap \in Seq(Data) /\ DOMAIN heap = 1 .. Len(heap)
         /\ d \in Nat
         /\ heap[d] \in Data
         /\ heap[d].kids \in Seq(DOMAIN heap)
         /\ heap[d].type = "STRUCT" => Len(heap[d].names) = numofElements(heap[d])
         /\ heap[d].type = "STRING" => heap[d].value \in Seq(Byte)
<1>1. WellBuilt(heap)
  BY EncoderAssumption DEF DocInv
<1>2. heap \in Seq(Data)
  BY <1>1 DEF WellBuilt
<1>3. DOMAIN heap = 1 .. Len(heap) /\ heap[d] \in Data
  BY <1>2, ElementOfSeq
<1> QED
  BY <1>1, <1>2, <1>3 DEF WellBuilt, numofElements

LEMMA IInvInit == Init => IInv
<1> SUFFICES ASSUME Init PROVE IInv
  OBVIOUS
<1>1. DocInv
  BY DEF Init, DocInv
<1>2. heap \in Seq(Data)
  BY <1>1, EncoderAssumption DEF DocInv, WellBuilt
<1>3. DOMAIN meta_offset = {} /\ DOMAIN meta_size_offset = {}
  BY DEF Init
<1>4. scan \in Frame /\ calls \in 0 .. MaxEncodes
  BY EncoderAssumption DEF Init, Frame, NoScan, NULL
<1>5. TypeOK
  BY <1>2, <1>3, <1>4, EncoderAssumption DEF Init, TypeOK, NULL
<1>6. KeysInv
  BY <1>3, FS_EmptySet DEF KeysInv
<1>7. StackInv /\ ScanInv /\ CountInv
  BY <1>3 DEF Init, StackInv, ScanInv, CountInv
<1> QED
  BY <1>1, <1>5, <1>6, <1>7 DEF IInv

-----------------------------------------------------------------------------
LEMMA EncodeKeepsIInv ==
  ASSUME IInv, NEW r \in DOMAIN heap, Encode(r)
  PROVE  IInv'
<1> USE DEF IInv
<1>1. r \in Nat /\ <<r>> \in Seq(DOMAIN heap)
  BY DocTyped
<1>2. /\ UNCHANGED <<heap, members>>
      /\ calls \in Nat /\ calls < MaxEncodes /\ calls' = calls + 1
      /\ root' = r /\ pc' = "traverse"
      /\ TraverseStack' = <<r>> /\ MetaStack' = <<>> /\ encodingIdx' = 1
      /\ remaining' = 0 /\ scan' = NoScan /\ sumIdx' = 1 /\ bytestream' = <<>>
  BY EncoderAssumption DEF Encode, TypeOK
<1>3. scan' \in Frame /\ calls' \in 0 .. MaxEncodes
  BY <1>2, EncoderAssumption DEF Frame, NoScan, NULL
<1>4. TypeOK'
  BY <1>1, <1>2, <1>3 DEF TypeOK, members
<1>5. DocInv' /\ KeysInv'
  BY <1>2 DEF members, DocInv, KeysInv
<1>6. StackInv' /\ ScanInv'
  BY <1>2 DEF members, StackInv, ScanInv, TypeOK
<1>7. calls' = 1 => Cardinality(DOMAIN meta_offset') = 0 /\ DOMAIN meta_offset' = {}
  BY <1>2, FS_EmptySet DEF members, CountInv
<1>8. CountInv'
  BY <1>2, <1>7 DEF CountInv
<1> QED
  BY <1>4, <1>5, <1>6, <1>8

(* The stream grows by one entry while the traversal takes the top object: *)
(* positions handed out so far stay positions.                             *)
LEMMA EmitKeepsIInv ==
  ASSUME IInv, NEW b \in Seq(Byte), pc = "traverse", TraverseStack # <<>>,
         EmitPrimitive(b)
  PROVE  IInv'
<1> USE DEF IInv
<1>1. /\ encodeStream_' = Append(encodeStream_, [bytes |-> b, data |-> Top])
      /\ TraverseStack' = Tail(TraverseStack)
      /\ encodingIdx' = encodingIdx + 1
      /\ UNCHANGED <<heap, root, meta_offset, meta_size_offset, calls, pc,
                     MetaStack, remaining, scan, sumIdx, bytestream>>
  BY DEF EmitPrimitive
<1>2. Top \in DOMAIN heap /\ TraverseStack' \in Seq(DOMAIN heap)
  BY <1>1, HeadTailProperties DEF TypeOK, Top
<1>3. [bytes |-> b, data |-> Top] \in Entry
  BY <1>2, DocTyped DEF Entry
<1>4. encodeStream_' \in Seq(Entry) /\ Len(encodeStream_') = Len(encodeStream_) + 1
  BY <1>1, <1>3, AppendProperties DEF TypeOK
<1>5. encodingIdx \in Nat /\ encodingIdx' \in 1 .. Len(encodeStream_') + 1
  <2>1. encodingIdx \in 1 .. Len(encodeStream_) + 1 /\ encodeStream_ \in Seq(Entry)
    BY DEF StackInv, TypeOK
  <2>2. Len(encodeStream_) \in Nat /\ encodingIdx' = encodingIdx + 1
    BY <1>1, <2>1
  <2> HIDE DEF IInv
  <2> QED
    BY <1>4, <2>1, <2>2
<1>6. TypeOK'
  <2>1. encodingIdx \in Nat /\ encodingIdx' \in Nat
    BY <1>1, <1>5
  <2>2. UNCHANGED <<heap, root, meta_offset, meta_size_offset, calls, pc,
                    MetaStack, remaining, scan, sumIdx, bytestream>>
    BY <1>1
  <2> QED
    BY <1>2, <1>4, <2>1, <2>2 DEF TypeOK
<1>7. DocInv' /\ KeysInv'
  BY <1>1 DEF DocInv, KeysInv
<1>8. StackInv'
  <2>1. ASSUME NEW m \in 1 .. Len(MetaStack')
        PROVE  /\ heap'[MetaStack'[m].data].type \in CompositeTypes
               /\ MetaStack'[m].pos \in 1 .. encodingIdx' - 1
               /\ MetaStack'[m].pos + 1 <= encodingIdx' - 1
    <3>1. MetaStack' = MetaStack /\ heap' = heap /\ encodingIdx' = encodingIdx + 1
      BY <1>1
    <3>2. /\ MetaStack[m].pos \in 1 .. encodingIdx - 1 /\ encodingIdx \in Nat
          /\ heap[MetaStack[m].data].type \in CompositeTypes
      BY <3>1 DEF StackInv, TypeOK
    <3> QED
      BY <3>1, <3>2
  <2>2. pc' = "traverse"
    BY <1>1
  <2> QED
    BY <1>5, <2>1, <2>2 DEF StackInv
<1>9. ScanInv'
  BY <1>1 DEF ScanInv
<1>10. CountInv'
  <2>1. /\ UNCHANGED <<meta_offset, calls, pc, MetaStack, remaining>>
        /\ pc = "traverse" /\ encodingIdx' = encodingIdx + 1 /\ encodingIdx \in Nat
    BY <1>1 DEF TypeOK
  <2>2. calls = 1 => \A k \in DOMAIN meta_offset : k \in Nat /\ k < encodingIdx + 1
    BY <2>1, SMTT(30) DEF CountInv, TypeOK
  <2> QED
    BY <2>1, <2>2 DEF CountInv
<1> QED
  BY <1>6, <1>7, <1>8, <1>9, <1>10

LEMMA VisitStringKeepsIInv == IInv /\ VisitString => IInv'
<1> SUFFICES ASSUME IInv, VisitString PROVE IInv'
  OBVIOUS
<1>1. /\ pc = "traverse" /\ TraverseStack # <<>> /\ heap[Top].type = "STRING"
  BY DEF VisitString, Visiting
<1>2. Top \in DOMAIN heap
  BY <1>1, HeadTailProperties DEF IInv, TypeOK, Top
<1>3. heap[Top] \in Data /\ heap[Top].value \in Seq(Byte)
  BY <1>1, <1>2, DocTyped DEF IInv
<1>4. Len(heap[Top].value) \in Nat
  BY <1>3
<1>5. ASSUME NEW str \in DanglingReads(heap[Top].value) PROVE str \in Seq(Byte)
  <2>1. [k \in 1 .. Len(heap[Top].value) |-> Junk] \in Seq(Byte)
    BY <1>4, EncoderAssumption, IsASeq
  <2> QED
    BY <1>3, <1>5, <2>1 DEF DanglingReads
<1>6. PICK str \in DanglingReads(heap[Top].value) :
        EmitPrimitive(TypeEncoding(heap[Top])
                        \o VarientEncoding(Len(heap[Top].value)) \o str)
  BY DEF VisitString
<1> DEFINE b == TypeEncoding(heap[Top])
                  \o VarientEncoding(Len(heap[Top].value)) \o str
<1>7. b \in Seq(Byte)
  <2>1. HasTypeCode(heap[Top])
    BY <1>1 DEF HasTypeCode, TypeCode
  <2>2. /\ TypeEncoding(heap[Top]) \in Seq(Byte) /\ str \in Seq(Byte)
        /\ VarientEncoding(Len(heap[Top].value)) \in Seq(Byte)
    BY <1>3, <1>4, <1>5, <2>1, TypeEncodingType, VarientEncodingType
  <2> QED
    BY <2>2, ConcatProperties
<1> HIDE DEF b
<1>8. EmitPrimitive(b)
  BY <1>6 DEF b
<1> QED
  BY <1>1, <1>7, <1>8, EmitKeepsIInv

LEMMA VisitNumberKeepsIInv == IInv /\ VisitNumber => IInv'
<1> SUFFICES ASSUME IInv, VisitNumber PROVE IInv'
  OBVIOUS
<1>1. /\ pc = "traverse" /\ TraverseStack # <<>>
      /\ StoiReads(heap[Top].value) /\ heap[Top].value[1] >= 0
  BY DEF VisitNumber, Visiting
<1>2. Top \in DOMAIN heap
  BY <1>1, HeadTailProperties DEF IInv, TypeOK, Top
<1>3. heap[Top] \in Data
  BY <1>2, DocTyped DEF IInv
<1>4. heap[Top].value[1] \in Nat
  BY <1>1, IntAssumption DEF StoiReads
<1> DEFINE b == TypeEncoding(heap[Top]) \o VarientEncoding(heap[Top].value[1])
<1>5. b \in Seq(Byte)
  <2>1. HasTypeCode(heap[Top])
    BY DEF VisitNumber, Visiting, HasTypeCode, TypeCode, NumberTypes
  <2> QED
    BY <1>3, <1>4, <2>1, TypeEncodingType, VarientEncodingType, ConcatProperties
<1> HIDE DEF b
<1>6. EmitPrimitive(b)
  BY DEF VisitNumber, b
<1> QED
  BY <1>1, <1>5, <1>6, EmitKeepsIInv

LEMMA VisitOtherKeepsIInv == IInv /\ VisitOther => IInv'
<1> SUFFICES ASSUME IInv, VisitOther PROVE IInv'
  OBVIOUS
<1>1. /\ pc = "traverse" /\ TraverseStack # <<>>
      /\ StoiReads(heap[Top].value) /\ heap[Top].value[1] >= 0
  BY DEF VisitOther, Visiting
<1>2. PICK encodeType \in UnsetNumbers :
        /\ encodeType >= 0
        /\ EmitPrimitive(VarientEncoding(encodeType)
                           \o VarientEncoding(heap[Top].value[1]))
  BY DEF VisitOther
<1>3. encodeType \in Nat /\ heap[Top].value[1] \in Nat
  BY <1>1, <1>2, EncoderAssumption, IntAssumption DEF StoiReads
<1> DEFINE b == VarientEncoding(encodeType) \o VarientEncoding(heap[Top].value[1])
<1>4. b \in Seq(Byte)
  BY <1>3, VarientEncodingType, ConcatProperties
<1>5. EmitPrimitive(b)
  BY <1>2
<1> HIDE DEF b
<1> QED
  BY <1>1, <1>4, <1>5, EmitKeepsIInv

LEMMA VisitCompositeKeepsIInv == IInv /\ VisitComposite => IInv'
<1> SUFFICES ASSUME IInv, VisitComposite PROVE IInv'
  OBVIOUS
<1> USE DEF IInv
<1> DEFINE m0 == [data |-> Top, pos |-> encodingIdx]
<1>1. /\ pc = "traverse" /\ TraverseStack # <<>>
      /\ meta_offset' = Put(meta_offset, encodingIdx, NoOffset)
      /\ encodeStream_' = Append(encodeStream_, Placeholder)
      /\ MetaStack' = <<m0>> \o MetaStack
      /\ TraverseStack' = heap[Top].kids \o Tail(TraverseStack)
      /\ encodingIdx' = encodingIdx + 1
      /\ UNCHANGED <<heap, root, meta_size_offset, calls, pc, remaining, scan,
                     sumIdx, bytestream>>
  BY DEF VisitComposite, Visiting, PushMeta, Pushed
<1>2. Top \in DOMAIN heap /\ Tail(TraverseStack) \in Seq(DOMAIN heap)
  BY <1>1, HeadTailProperties DEF TypeOK, Top
<1>3. heap[Top].kids \in Seq(DOMAIN heap) /\ TraverseStack' \in Seq(DOMAIN heap)
  BY <1>1, <1>2, DocTyped, ConcatProperties
<1>4. /\ encodeStream_' \in Seq(Entry)
      /\ Len(encodeStream_') = Len(encodeStream_) + 1
  <2>1. Placeholder \in Entry
    BY DEF Placeholder, Entry, NULL
  <2>2. encodeStream_ \in Seq(Entry) /\ encodeStream_' = Append(encodeStream_, Placeholder)
    BY <1>1 DEF TypeOK
  <2> HIDE DEF IInv
  <2> QED
    BY <2>1, <2>2, AppendProperties
<1>5. encodingIdx \in Nat /\ encodingIdx' \in 1 .. Len(encodeStream_') + 1
  <2>1. encodingIdx \in 1 .. Len(encodeStream_) + 1 /\ encodeStream_ \in Seq(Entry)
    BY DEF StackInv, TypeOK
  <2>2. Len(encodeStream_) \in Nat /\ encodingIdx' = encodingIdx + 1
    BY <1>1, <2>1
  <2> HIDE DEF IInv
  <2> QED
    BY <1>4, <2>1, <2>2
<1>6. /\ m0 \in [data : DOMAIN heap, pos : Nat]
      /\ MetaStack \in Seq([data : DOMAIN heap, pos : Nat])
  BY <1>2, <1>5 DEF TypeOK
<1>7. /\ MetaStack' \in Seq([data : DOMAIN heap, pos : Nat])
      /\ Len(MetaStack') = Len(MetaStack) + 1
      /\ MetaStack'[1] = m0
      /\ \A m \in 2 .. Len(MetaStack') : MetaStack'[m] = MetaStack[m-1]
  BY <1>1, <1>6
<1>8. /\ DOMAIN meta_offset' = DOMAIN meta_offset \cup {encodingIdx}
      /\ meta_offset' \in [DOMAIN meta_offset' -> Nat]
  BY <1>1, <1>5 DEF TypeOK, Put, NoOffset
<1>9. TypeOK'
  <2>1. UNCHANGED <<heap, root, meta_size_offset, calls, pc, remaining, scan,
                    sumIdx, bytestream>>
    BY <1>1
  <2>2. encodingIdx' \in Nat
    BY <1>1, <1>5
  <2> QED
    BY <1>3, <1>4, <1>5, <1>7, <1>8, <2>1, <2>2 DEF TypeOK
<1>10. DocInv' /\ KeysInv'
  <2>1. DocInv'
    BY <1>1 DEF DocInv
  <2>2. IsFiniteSet(DOMAIN meta_offset \cup {encodingIdx})
    BY FS_AddElement DEF KeysInv
  <2> QED
    BY <1>8, <2>1, <2>2 DEF KeysInv
<1>11. StackInv'
  <2>1. ASSUME NEW m \in 1 .. Len(MetaStack')
        PROVE  /\ heap'[MetaStack'[m].data].type \in CompositeTypes
               /\ MetaStack'[m].pos \in 1 .. encodingIdx' - 1
               /\ \/ TraverseStack' # <<>>
                  \/ numofElements(heap'[MetaStack'[m].data]) = 0
                  \/ MetaStack'[m].pos + 1 <= encodingIdx' - 1
    <3>1. encodingIdx' = encodingIdx + 1 /\ heap' = heap /\ encodingIdx >= 1
      BY <1>1 DEF StackInv, TypeOK
    <3>2. CASE m = 1
      <4>1. MetaStack'[m] = m0 /\ m0.pos = encodingIdx /\ m0.data = Top
        BY <1>7, <3>2
      <4>2. numofElements(heap[Top]) = 0 \/ TraverseStack' # <<>>
        BY <1>1, <1>2, <1>3 DEF numofElements
      <4>3. heap[Top].type \in CompositeTypes
        BY DEF VisitComposite, Visiting
      <4> QED
        BY <1>5, <3>1, <4>1, <4>2, <4>3
    <3>3. CASE m # 1
      <4>1. m - 1 \in 1 .. Len(MetaStack) /\ MetaStack'[m] = MetaStack[m-1]
        BY <1>6, <1>7, <3>3, SMTT(30)
      <4>2. /\ MetaStack[m-1].pos \in 1 .. encodingIdx - 1
            /\ heap[MetaStack[m-1].data].type \in CompositeTypes
        BY <4>1 DEF StackInv
      <4> QED
        BY <1>5, <3>1, <4>1, <4>2
    <3> QED
      BY <3>2, <3>3
  <2>2. pc' = "traverse"
    BY <1>1
  <2> QED
    BY <1>5, <2>1, <2>2 DEF StackInv
<1>12. ScanInv'
  BY <1>1 DEF ScanInv
<1>13. CountInv'
  <2>1. calls' = calls /\ pc' = "traverse" /\ calls # 0
    BY <1>1 DEF CountInv
  <2>2. CASE calls = 1
    <3>1. /\ Cardinality(DOMAIN meta_offset) = Len(MetaStack)
          /\ \A k \in DOMAIN meta_offset : k < encodingIdx
          /\ DOMAIN meta_offset \subseteq Nat
      BY <1>1, <2>2 DEF CountInv, TypeOK
    <3>2. encodingIdx \notin DOMAIN meta_offset
      BY <1>5, <3>1
    <3>3. Cardinality(DOMAIN meta_offset') = Len(MetaStack')
      BY <1>7, <1>8, <3>1, <3>2, FS_AddElement, ZenonT(30) DEF KeysInv
    <3>4. \A k \in DOMAIN meta_offset' : k < encodingIdx'
      BY <1>1, <1>5, <1>8, <3>1
    <3> QED
      BY <2>1, <3>3, <3>4 DEF CountInv
  <2> QED
    BY <2>1, <2>2 DEF CountInv
<1> QED
  BY <1>9, <1>10, <1>11, <1>12, <1>13

(* Steps that only move pc, out of the traversal or to the end of a call.  *)
LEMMA StopKeepsIInv ==
  ASSUME IInv, UNCHANGED <<heap, root, members, calls, locals>>, pc # "idle",
         pc' \in {"threw", "diverged", "undefined", "sum", "returned"}
  PROVE  IInv'
<1> USE DEF IInv, members, locals
<1>1. TypeOK'
  BY DEF TypeOK
<1>2. DocInv' /\ KeysInv' /\ StackInv'
  BY DEF DocInv, KeysInv, StackInv
<1>3. ScanInv' /\ CountInv'
  BY DEF ScanInv, CountInv
<1> QED
  BY <1>1, <1>2, <1>3

LEMMA EndTraverseKeepsIInv == IInv /\ EndTraverse => IInv'
<1> SUFFICES ASSUME IInv, EndTraverse PROVE IInv'
  OBVIOUS
<1> USE DEF IInv, EndTraverse, MetaRounds, members
<1>1. Cardinality(DOMAIN meta_offset) \in Nat
  BY FS_CardinalityType DEF KeysInv
<1>2. TypeOK'
  BY <1>1 DEF TypeOK
<1>3. DocInv' /\ KeysInv' /\ StackInv'
  BY DEF DocInv, KeysInv, StackInv
<1>4. ScanInv' /\ CountInv'
  BY DEF ScanInv, CountInv
<1> QED
  BY <1>2, <1>3, <1>4

-----------------------------------------------------------------------------
LEMMA BeginMetaKeepsIInv == IInv /\ BeginMeta => IInv'
<1> SUFFICES ASSUME IInv, BeginMeta PROVE IInv'
  OBVIOUS
<1> USE DEF IInv
<1> DEFINE top   == Head(MetaStack)
           d     == heap[top.data]
           count == IF d.type = "MAP" THEN <<>> ELSE VarientEncoding(numofElements(d))
           s     == [data |-> top.data, pos |-> top.pos, i |-> top.pos + 1,
                     field |-> 1, metadata |-> TypeEncoding(d) \o count,
                     metadata_size |-> 1 + Len(count), nestedsize |-> 0]
<1>1. /\ pc = "meta" /\ remaining > 0 /\ MetaStack # <<>> /\ numofElements(d) > 0
      /\ scan' = s
      /\ pc' = IF d.type = "STRUCT" THEN "names" ELSE "scan"
      /\ remaining' = remaining - 1 /\ MetaStack' = Tail(MetaStack)
      /\ UNCHANGED <<heap, root, members, calls, TraverseStack, encodingIdx,
                     sumIdx, bytestream>>
  BY DEF BeginMeta, TopHasElements, TypeSize
<1>2. /\ top \in [data : DOMAIN heap, pos : Nat] /\ top = MetaStack[1]
      /\ MetaStack' \in Seq([data : DOMAIN heap, pos : Nat])
      /\ Len(MetaStack) \in Nat /\ Len(MetaStack) >= 1
      /\ Len(MetaStack') = Len(MetaStack) - 1
      /\ \A m \in 1 .. Len(MetaStack') : MetaStack'[m] = MetaStack[m+1]
  <2>1. MetaStack \in Seq([data : DOMAIN heap, pos : Nat])
    BY DEF TypeOK
  <2>2. /\ Head(MetaStack) \in [data : DOMAIN heap, pos : Nat]
        /\ Tail(MetaStack) \in Seq([data : DOMAIN heap, pos : Nat])
    BY <1>1, <2>1, HeadTailProperties
  <2>5. MetaStack # <<>>
    BY <1>1
  <2> HIDE DEF IInv, top, d, count, s
  <2>3. /\ Len(MetaStack) \in Nat /\ Len(MetaStack) >= 1
        /\ Len(Tail(MetaStack)) = Len(MetaStack) - 1
        /\ Head(MetaStack) = MetaStack[1]
    BY <2>1, <2>5
  <2>4. \A m \in 1 .. Len(Tail(MetaStack)) : Tail(MetaStack)[m] = MetaStack[m+1]
    BY <2>1, <2>5, HeadTailProperties
  <2> QED
    BY <1>1, <2>2, <2>3, <2>4 DEF top
<1>3. top.data \in DOMAIN heap /\ top.data \in Nat /\ top.pos \in Nat /\ d \in Data
  BY <1>2, DocTyped
<1>4. /\ d.type \in CompositeTypes
      /\ top.pos + 1 \in 1 .. Len(encodeStream_)
      /\ top.pos \in 1 .. Len(encodeStream_)
  <2>1. TraverseStack = <<>> /\ encodingIdx \in 1 .. Len(encodeStream_) + 1
    BY <1>1 DEF StackInv
  <2>2. 1 \in 1 .. Len(MetaStack)
    BY <1>2
  <2>3. /\ heap[MetaStack[1].data].type \in CompositeTypes
        /\ MetaStack[1].pos \in 1 .. encodingIdx - 1
        /\ \/ numofElements(heap[MetaStack[1].data]) = 0
           \/ MetaStack[1].pos + 1 <= encodingIdx - 1
    BY <2>1, <2>2 DEF StackInv
  <2>4. heap[MetaStack[1].data] = d /\ MetaStack[1].pos = top.pos
    BY <1>2
  <2>5. /\ d.type \in CompositeTypes
        /\ top.pos + 1 <= encodingIdx - 1 /\ top.pos >= 1
    <3> DEFINE x == heap[MetaStack[1].data]
               p == MetaStack[1].pos
    <3>1. d = x /\ top.pos = p /\ numofElements(d) > 0
      BY <1>1, <2>4
    <3>2. x.type \in CompositeTypes /\ p \in 1 .. encodingIdx - 1
          /\ (numofElements(x) = 0 \/ p + 1 <= encodingIdx - 1)
      BY <2>3
    <3> HIDE DEF IInv, x, p, d, top
    <3> QED
      BY <3>1, <3>2
  <2>6. Len(encodeStream_) \in Nat /\ encodingIdx \in Nat /\ top.pos \in Nat
    BY <1>3 DEF TypeOK
  <2> HIDE DEF top, d
  <2> QED
    BY <2>1, <2>5, <2>6
<1>5. /\ numofElements(d) \in Nat /\ count \in Seq(Byte)
      /\ TypeEncoding(d) \in Seq(Byte) /\ Len(TypeEncoding(d)) = 1
  <2>1. numofElements(d) \in Nat
    BY <1>3 DEF numofElements, Data
  <2>2. d.type # "I8"
    BY <1>4 DEF CompositeTypes
  <2> DEFINE n == numofElements(d)
  <2>3. count \in Seq(Byte)
    <3>1. n \in Nat
      BY <2>1
    <3>2. VarientEncoding(n) \in Seq(Byte) /\ <<>> \in Seq(Byte)
      <4> HIDE DEF n
      <4> QED
        BY <3>1, VarientEncodingType
    <3>3. count = <<>> \/ count = VarientEncoding(n)
      <4> HIDE DEF d
      <4> QED
        BY Zenon
    <3> QED
      BY <3>2, <3>3, Zenon
  <2>6. d \in Data
    BY <1>3
  <2>7. d.type \in CompositeTypes
    BY <1>4
  <2> HIDE DEF d, count, top, IInv
  <2>8. HasTypeCode(d)
    BY <2>7, CompositeHasCode
  <2>4. TypeEncoding(d) \in Seq(Byte)
    BY <2>6, <2>8, TypeEncodingType
  <2>5. Len(TypeEncoding(d)) = 1
    BY <2>2, <2>6, <2>8, TypeCodeOneByte
  <2> QED
    BY <2>1, <2>3, <2>4, <2>5
<1> HIDE DEF count, d, top
<1>6. /\ s.metadata \in Seq(Byte)
      /\ s.metadata_size = Len(s.metadata) /\ s.metadata_size \in Nat
  <2>1. /\ TypeEncoding(d) \o count \in Seq(Byte)
        /\ Len(TypeEncoding(d) \o count) = 1 + Len(count)
    BY <1>5, ConcatProperties
  <2> QED
    BY <1>5, <2>1
<1>7. s \in Frame
  BY <1>3, <1>6 DEF Frame
<1>8. /\ scan'.data = top.data /\ scan'.i = top.pos + 1 /\ scan'.field = 1
      /\ scan'.metadata_size = Len(scan'.metadata) /\ scan' \in Frame
        /\ scan'.pos = top.pos
  BY <1>1, <1>6, <1>7
<1>9. pc' \in {"names", "scan"} /\ (pc' = "names" => d.type = "STRUCT")
  BY <1>1
<1> HIDE DEF s
<1>10. UNCHANGED <<heap, root, encodeStream_, meta_offset, meta_size_offset, calls,
                   TraverseStack, encodingIdx, sumIdx, bytestream>>
  BY <1>1 DEF members
<1>11. remaining \in Nat /\ remaining' = remaining - 1 /\ remaining' \in Nat
  BY <1>1, SMTT(30) DEF TypeOK
<1>12. TypeOK'
  BY <1>2, <1>8, <1>9, <1>10, <1>11 DEF TypeOK
<1>13. DocInv' /\ KeysInv'
  BY <1>10 DEF DocInv, KeysInv
<1>14. StackInv'
  <2>1. ASSUME NEW m \in 1 .. Len(MetaStack')
        PROVE  m + 1 \in 1 .. Len(MetaStack) /\ MetaStack'[m] = MetaStack[m+1]
    BY <1>2
  <2> QED
    BY <1>1, <1>10, <2>1 DEF StackInv
<1>15. ScanInv'
  BY <1>1, <1>3, <1>4, <1>5, <1>8, <1>9, <1>10 DEF ScanInv, d
<1>16. CountInv'
  BY <1>1, <1>2, <1>9, <1>10, <1>11 DEF CountInv
<1> QED
  BY <1>12, <1>13, <1>14, <1>15, <1>16

(* A step of EncodingMeta that keeps the work lists: what it must leave.   *)
LEMMA MetaStepKeepsIInv ==
  ASSUME IInv, pc \in {"names", "scan"}, pc' \in {"names", "scan", "meta"},
         UNCHANGED <<heap, root, calls, TraverseStack, MetaStack, encodingIdx,
                     remaining, sumIdx, bytestream>>,
         encodeStream_' \in Seq(Entry), Len(encodeStream_') = Len(encodeStream_),
         DOMAIN meta_offset' \subseteq Nat,
         meta_offset' \in [DOMAIN meta_offset' -> Nat],
         IsFiniteSet(DOMAIN meta_offset'),
         DOMAIN meta_size_offset' \subseteq Nat,
         meta_size_offset' \in [DOMAIN meta_size_offset' -> Nat],
         scan' \in Frame,
         pc' # "meta" =>
           /\ scan'.data = scan.data /\ scan'.pos = scan.pos
           /\ scan'.field \in 1 .. numofElements(heap[scan.data])
           /\ scan'.i \in 1 .. Len(encodeStream_)
           /\ scan'.metadata_size = Len(scan'.metadata),
         pc' = "names" => pc = "names"
  PROVE  IInv'
<1> USE DEF IInv
<1>1. TypeOK'
  BY DEF TypeOK
<1>2. DocInv' /\ KeysInv'
  BY DEF DocInv, KeysInv
<1>3. StackInv'
  BY DEF StackInv
<1>4. ScanInv'
  BY DEF ScanInv
<1>5. CountInv'
  BY DEF CountInv
<1> QED
  BY <1>1, <1>2, <1>3, <1>4, <1>5

LEMMA EncodeFieldNameKeepsIInv == IInv /\ EncodeFieldName => IInv'
<1> SUFFICES ASSUME IInv, EncodeFieldName PROVE IInv'
  OBVIOUS
<1> DEFINE str    == heap[scan.data]
           name   == str.names[scan.field]
           length == VarientEncoding(Len(name))
           more   == scan.field < numofElements(str)
<1>1. /\ pc = "names"
      /\ scan' = [scan EXCEPT
                    !.metadata = @ \o length \o name,
                    !.metadata_size = @ + Len(length) + Len(name),
                    !.field = IF more THEN @ + 1 ELSE 1]
      /\ pc' = IF more THEN "names" ELSE "scan"
      /\ UNCHANGED <<heap, root, members, calls, TraverseStack, MetaStack,
                     encodingIdx, remaining, sumIdx, bytestream>>
  BY DEF EncodeFieldName
<1>2. /\ scan \in Frame /\ scan.data \in DOMAIN heap
      /\ scan.field \in 1 .. numofElements(str)
      /\ scan.i \in 1 .. Len(encodeStream_)
      /\ scan.metadata_size = Len(scan.metadata)
      /\ str.type = "STRUCT"
  BY <1>1 DEF IInv, TypeOK, ScanInv
<1>3. /\ str \in Data /\ numofElements(str) \in Nat
      /\ Len(str.names) = numofElements(str)
  BY <1>2, DocTyped DEF IInv, numofElements, Data
<1>4. name \in Seq(Byte) /\ Len(name) \in Nat
  <2>1. str.names \in Seq(Seq(Byte))
    BY <1>3 DEF Data
  <2>2. name \in Seq(Byte)
    BY <1>2, <1>3, <2>1, ElementOfSeq
  <2> HIDE DEF name
  <2> QED
    BY <2>2
<1>5. length \in Seq(Byte) /\ Len(length) \in Nat
  BY <1>4, VarientEncodingType
<1>6. scan.metadata \in Seq(Byte) /\ Len(scan.metadata) \in Nat
  BY <1>2 DEF Frame
<1> HIDE DEF length, name, str
<1>7. /\ scan.metadata \o length \o name \in Seq(Byte)
      /\ Len(scan.metadata \o length \o name)
           = Len(scan.metadata) + Len(length) + Len(name)
  BY <1>4, <1>5, <1>6, ConcatProperties
<1>8. /\ scan' \in Frame
      /\ scan'.data = scan.data /\ scan'.pos = scan.pos /\ scan'.i = scan.i
      /\ scan'.field = IF more THEN scan.field + 1 ELSE 1
      /\ scan'.metadata_size = Len(scan'.metadata)
  <2> DEFINE f  == IF more THEN scan.field + 1 ELSE 1
             md == scan.metadata \o length \o name
             sz == scan.metadata_size + Len(length) + Len(name)
  <2>1. f \in Nat /\ md \in Seq(Byte) /\ sz \in Nat /\ sz = Len(md)
    BY <1>2, <1>3, <1>4, <1>5, <1>6, <1>7
  <2>2. scan' = [scan EXCEPT !.metadata = md, !.metadata_size = sz, !.field = f]
    BY <1>1
  <2> HIDE DEF md, sz
  <2>3. /\ scan'.data = scan.data /\ scan'.pos = scan.pos /\ scan'.i = scan.i
        /\ scan'.field = f /\ scan'.metadata = md /\ scan'.metadata_size = sz
    BY <1>2, <2>2 DEF Frame
  <2>4. scan' \in Frame
    BY <1>2, <2>1, <2>2 DEF Frame
  <2> QED
    BY <2>1, <2>3, <2>4
<1>9. scan'.field \in 1 .. numofElements(str)
  BY <1>2, <1>3, <1>8
<1>10. /\ encodeStream_' = encodeStream_ /\ meta_offset' = meta_offset
       /\ meta_size_offset' = meta_size_offset
  BY <1>1 DEF members
<1>11. /\ encodeStream_ \in Seq(Entry)
       /\ DOMAIN meta_offset \subseteq Nat
       /\ meta_offset \in [DOMAIN meta_offset -> Nat]
       /\ IsFiniteSet(DOMAIN meta_offset)
       /\ DOMAIN meta_size_offset \subseteq Nat
       /\ meta_size_offset \in [DOMAIN meta_size_offset -> Nat]
  BY DEF IInv, TypeOK, KeysInv
<1>12. pc \in {"names", "scan"} /\ pc' \in {"names", "scan"}
  BY <1>1
<1>13. scan'.field \in 1 .. numofElements(heap[scan.data])
  BY <1>9 DEF str
<1> QED
  BY <1>1, <1>2, <1>8, <1>10, <1>11, <1>12, <1>13, MetaStepKeepsIInv

(* Put and Touch keep a map from positions to numbers one, and the key is  *)
(* there afterwards.                                                       *)
LEMMA PutTyped ==
  ASSUME NEW f, DOMAIN f \subseteq Nat, f \in [DOMAIN f -> Nat],
         NEW k \in Nat, NEW v \in Nat
  PROVE  /\ DOMAIN Put(f, k, v) = DOMAIN f \cup {k}
         /\ DOMAIN Put(f, k, v) \subseteq Nat
         /\ Put(f, k, v) \in [DOMAIN Put(f, k, v) -> Nat]
  BY DEF Put

LEMMA TouchTyped ==
  ASSUME NEW f, DOMAIN f \subseteq Nat, f \in [DOMAIN f -> Nat],
         NEW k \in Nat, NEW v \in Nat
  PROVE  /\ DOMAIN Touch(f, k, v) = DOMAIN f \cup {k}
         /\ DOMAIN Touch(f, k, v) \subseteq Nat
         /\ Touch(f, k, v) \in [DOMAIN Touch(f, k, v) -> Nat]
         /\ Touch(f, k, v)[k] \in Nat
<1>1. CASE k \in DOMAIN f
  <2>1. Touch(f, k, v) = f
    BY <1>1 DEF Touch
  <2>2. DOMAIN f \cup {k} = DOMAIN f /\ f[k] \in Nat
    BY <1>1
  <2> QED
    BY <2>1, <2>2
<1>2. CASE k \notin DOMAIN f
  <2>1. Touch(f, k, v) = Put(f, k, v)
    BY <1>2 DEF Touch
  <2>2. Put(f, k, v)[k] = v
    BY DEF Put
  <2>3. /\ DOMAIN Put(f, k, v) = DOMAIN f \cup {k}
        /\ DOMAIN Put(f, k, v) \subseteq Nat
        /\ Put(f, k, v) \in [DOMAIN Put(f, k, v) -> Nat]
    BY PutTyped
  <2> QED
    BY <2>1, <2>2, <2>3
<1> QED
  BY <1>1, <1>2

(* Going on in the scan stops it or moves it to an entry of the stream.    *)
LEMMA GoOnTyped ==
  ASSUME IInv, NEW i \in Nat, i >= 1, NEW found \in Frame, GoOnAt(i, found)
  PROVE  /\ pc' \in {"scan", "meta"}
         /\ scan' \in Frame
         /\ pc' # "meta" =>
              /\ scan'.data = found.data /\ scan'.pos = found.pos
              /\ scan'.field = found.field
              /\ scan'.metadata = found.metadata
              /\ scan'.metadata_size = found.metadata_size
              /\ scan'.i \in 1 .. Len(encodeStream_)
<1>1. Len(encodeStream_) \in Nat
  BY DEF IInv, TypeOK
<1>2. CASE i <= Len(encodeStream_)
  <2>1. scan' = [found EXCEPT !.i = i] /\ pc' = "scan"
    BY <1>2 DEF GoOnAt, Resumed
  <2> QED
    BY <1>1, <1>2, <2>1 DEF Frame
<1>3. CASE ~ (i <= Len(encodeStream_))
  <2>1. scan' = NoScan /\ pc' = "meta"
    BY <1>3 DEF GoOnAt
  <2> QED
    BY <2>1 DEF Frame, NoScan, NULL
<1> QED
  BY <1>2, <1>3

(* The locals of EncodingMeta after a child that was not the last one.     *)
Taken(s, md, sz, n) == [s EXCEPT !.field = @ + 1, !.metadata = md,
                                 !.metadata_size = sz, !.nestedsize = n]

LEMMA TakenTyped ==
  ASSUME NEW s \in Frame, NEW md \in Seq(Byte), NEW sz \in Nat, NEW n \in Nat
  PROVE  /\ Taken(s, md, sz, n) \in Frame
         /\ Taken(s, md, sz, n).data = s.data
         /\ Taken(s, md, sz, n).pos = s.pos
         /\ Taken(s, md, sz, n).field = s.field + 1
         /\ Taken(s, md, sz, n).metadata = md
         /\ Taken(s, md, sz, n).metadata_size = sz
<1>1. s.field + 1 \in Nat
  BY DEF Frame
<1>2. Taken(s, md, sz, n) \in Frame
  BY <1>1 DEF Frame, Taken
<1>3. /\ Taken(s, md, sz, n).data = s.data
      /\ Taken(s, md, sz, n).pos = s.pos
      /\ Taken(s, md, sz, n).field = s.field + 1
  BY DEF Frame, Taken
<1>4. /\ Taken(s, md, sz, n).metadata = md
      /\ Taken(s, md, sz, n).metadata_size = sz
  BY DEF Frame, Taken
<1> QED
  BY <1>2, <1>3, <1>4

(* What holds in the scan before it looks at an entry.                     *)
LEMMA ScanningFacts ==
  ASSUME IInv, Scanning
  PROVE  /\ pc = "scan"
         /\ scan \in Frame /\ scan.data \in DOMAIN heap
         /\ heap[scan.data].kids \in Seq(DOMAIN heap)
         /\ scan.field \in 1 .. numofElements(heap[scan.data])
         /\ numofElements(heap[scan.data]) \in Nat
         /\ DataTraverse \in DOMAIN heap
         /\ scan.i \in 1 .. Len(encodeStream_)
         /\ scan.pos \in 1 .. Len(encodeStream_)
         /\ Scanned \in Entry
         /\ scan.metadata_size = Len(scan.metadata)
         /\ scan.metadata \in Seq(Byte) /\ Len(scan.metadata) \in Nat
         /\ encodeStream_ \in Seq(Entry) /\ Len(encodeStream_) \in Nat
         /\ DOMAIN meta_offset \subseteq Nat
         /\ meta_offset \in [DOMAIN meta_offset -> Nat]
         /\ IsFiniteSet(DOMAIN meta_offset)
         /\ DOMAIN meta_size_offset \subseteq Nat
         /\ meta_size_offset \in [DOMAIN meta_size_offset -> Nat]
<1>1. pc = "scan"
  BY DEF Scanning
<1>2. /\ scan.data \in DOMAIN heap
      /\ scan.field \in 1 .. numofElements(heap[scan.data])
      /\ scan.i \in 1 .. Len(encodeStream_)
      /\ scan.pos \in 1 .. Len(encodeStream_)
      /\ scan.metadata_size = Len(scan.metadata)
  BY <1>1 DEF IInv, ScanInv
<1>3. /\ scan \in Frame /\ encodeStream_ \in Seq(Entry)
      /\ DOMAIN meta_offset \subseteq Nat
      /\ meta_offset \in [DOMAIN meta_offset -> Nat]
      /\ DOMAIN meta_size_offset \subseteq Nat
      /\ meta_size_offset \in [DOMAIN meta_size_offset -> Nat]
  BY DEF IInv, TypeOK
<1>4. heap[scan.data].kids \in Seq(DOMAIN heap)
  BY <1>2, DocTyped DEF IInv
<1>5. DataTraverse \in DOMAIN heap /\ numofElements(heap[scan.data]) \in Nat
  BY <1>2, <1>4, ElementOfSeq DEF DataTraverse, numofElements
<1>6. Scanned \in Entry
  BY <1>2, <1>3, ElementOfSeq DEF Scanned
<1>7. scan.metadata \in Seq(Byte) /\ Len(scan.metadata) \in Nat
  BY <1>3 DEF Frame
<1>8. IsFiniteSet(DOMAIN meta_offset) /\ Len(encodeStream_) \in Nat
  BY <1>3 DEF IInv, KeysInv
<1> QED
  BY <1>1, <1>2, <1>3, <1>4, <1>5, <1>6, <1>7, <1>8

LEMMA ScanSkipKeepsIInv == IInv /\ ScanSkip => IInv'
<1> SUFFICES ASSUME IInv, ScanSkip PROVE IInv'
  OBVIOUS
<1>1. /\ Scanning /\ GoOnAt(scan.i + 1, scan)
      /\ UNCHANGED <<heap, root, members, calls, TraverseStack, MetaStack,
                     encodingIdx, remaining, sumIdx, bytestream>>
  BY DEF ScanSkip
<1>2. scan.i + 1 \in Nat /\ scan.i + 1 >= 1 /\ scan \in Frame
  BY <1>1, ScanningFacts
<1>3. /\ pc' \in {"scan", "meta"} /\ scan' \in Frame
      /\ pc' # "meta" =>
           /\ scan'.data = scan.data /\ scan'.pos = scan.pos
           /\ scan'.field = scan.field
           /\ scan'.metadata = scan.metadata
           /\ scan'.metadata_size = scan.metadata_size
           /\ scan'.i \in 1 .. Len(encodeStream_)
  BY <1>1, <1>2, GoOnTyped
<1>4. /\ encodeStream_' = encodeStream_ /\ meta_offset' = meta_offset
      /\ meta_size_offset' = meta_size_offset
  BY <1>1 DEF members
<1>5. /\ scan.field \in 1 .. numofElements(heap[scan.data])
      /\ scan.metadata_size = Len(scan.metadata) /\ pc = "scan"
  BY <1>1, ScanningFacts
<1> QED
  BY <1>1, <1>3, <1>4, <1>5, ScanningFacts, MetaStepKeepsIInv

LEMMA ScanTakeKeepsIInv == IInv /\ ScanTake => IInv'
<1> SUFFICES ASSUME IInv, ScanTake PROVE IInv'
  OBVIOUS
<1> DEFINE d     == heap[scan.data]
           prim  == isPrimitive(heap[DataTraverse])
           sizes == IF prim THEN meta_size_offset ELSE Touch(meta_size_offset, scan.i, 0)
           ends  == IF prim THEN meta_offset ELSE Touch(meta_offset, scan.i, 1)
           bsize == IF prim THEN Len(Scanned.bytes) ELSE sizes[scan.i]
           end   == IF prim THEN scan.i ELSE ends[scan.i]
           length   == VarientEncoding(bsize)
           metadata == scan.metadata \o length
           metadata_size == scan.metadata_size + Len(length)
           nestedsize    == scan.nestedsize + bsize
           last  == DataTraverse = d.kids[numofElements(d)]
           found == [scan EXCEPT !.field = @ + 1, !.metadata = metadata,
                                 !.metadata_size = metadata_size,
                                 !.nestedsize = nestedsize]
<1>1. /\ Scanning
      /\ UNCHANGED <<heap, root, calls, TraverseStack, MetaStack, encodingIdx,
                     remaining, sumIdx, bytestream>>
  BY DEF ScanTake
<1>2. last =>
        /\ meta_offset' = Put(ends, scan.pos, end)
        /\ meta_size_offset' = Put(sizes, scan.pos, nestedsize + metadata_size)
        /\ encodeStream_' = [encodeStream_ EXCEPT ![scan.pos] =
                               [bytes |-> metadata, data |-> scan.data]]
        /\ scan' = NoScan
        /\ pc' = "meta"
  <2>1. last => meta_offset' = Put(ends, scan.pos, end)
    BY Zenon DEF ScanTake
  <2>2. last => meta_size_offset' = Put(sizes, scan.pos, nestedsize + metadata_size)
    BY Zenon DEF ScanTake
  <2>3. last => encodeStream_' = [encodeStream_ EXCEPT ![scan.pos] =
                                    [bytes |-> metadata, data |-> scan.data]]
    BY Zenon DEF ScanTake, Filled
  <2>4. last => scan' = NoScan /\ pc' = "meta"
    BY Zenon DEF ScanTake
  <2> HIDE DEF last, sizes, ends, end, metadata, metadata_size, nestedsize
  <2> QED
    BY <2>1, <2>2, <2>3, <2>4
<1>3. ~ last =>
        /\ GoOnAt(end + 1, found)
        /\ meta_offset' = ends /\ meta_size_offset' = sizes
        /\ encodeStream_' = encodeStream_
  BY DEF ScanTake
<1>4. /\ pc = "scan"
      /\ scan \in Frame /\ scan.data \in DOMAIN heap
      /\ scan.field \in 1 .. numofElements(d) /\ numofElements(d) \in Nat
      /\ scan.i \in Nat /\ scan.pos \in 1 .. Len(encodeStream_)
      /\ Scanned \in Entry
      /\ scan.metadata_size = Len(scan.metadata)
      /\ scan.metadata \in Seq(Byte) /\ Len(scan.metadata) \in Nat
      /\ encodeStream_ \in Seq(Entry) /\ Len(encodeStream_) \in Nat
  BY <1>1, ScanningFacts
<1>5. /\ DOMAIN sizes \subseteq Nat /\ sizes \in [DOMAIN sizes -> Nat]
      /\ ~ prim => sizes[scan.i] \in Nat
  BY <1>1, <1>4, ScanningFacts, TouchTyped
<1>6. /\ DOMAIN ends \subseteq Nat /\ ends \in [DOMAIN ends -> Nat]
      /\ ~ prim => ends[scan.i] \in Nat
  BY <1>1, <1>4, ScanningFacts, TouchTyped
<1>7. IsFiniteSet(DOMAIN ends)
  <2>1. IsFiniteSet(DOMAIN meta_offset)
    BY <1>1, ScanningFacts
  <2>2. IsFiniteSet(DOMAIN meta_offset \cup {scan.i})
    BY <2>1, FS_AddElement
  <2>3. DOMAIN Touch(meta_offset, scan.i, 1) = DOMAIN meta_offset \cup {scan.i}
    BY <1>1, <1>4, ScanningFacts, TouchTyped
  <2> QED
    BY <2>1, <2>2, <2>3
<1>8. bsize \in Nat /\ end \in Nat
  <2>1. Len(Scanned.bytes) \in Nat
    BY <1>4 DEF Entry
  <2> QED
    BY <1>4, <1>5, <1>6, <2>1
<1> HIDE DEF prim, sizes, ends, bsize, end
<1>9. length \in Seq(Byte) /\ Len(length) \in Nat
  BY <1>8, VarientEncodingType
<1> HIDE DEF length
<1>10. /\ metadata \in Seq(Byte)
       /\ metadata_size \in Nat /\ metadata_size = Len(metadata)
  <2>1. metadata \in Seq(Byte) /\ Len(metadata) = Len(scan.metadata) + Len(length)
    BY <1>4, <1>9, ConcatProperties
  <2> QED
    BY <1>4, <1>9, <2>1
<1>11. nestedsize \in Nat
  <2>1. scan.nestedsize \in Nat
    BY <1>4 DEF Frame
  <2> QED
    BY <1>8, <2>1
<1> HIDE DEF metadata, metadata_size, nestedsize
<1>12. CASE last
  <2>1. encodeStream_' \in Seq(Entry) /\ Len(encodeStream_') = Len(encodeStream_)
    <3>1. scan.data \in Nat
      BY <1>4 DEF Frame
    <3>2. [bytes |-> metadata, data |-> scan.data] \in Entry
      BY <1>10, <3>1 DEF Entry
    <3> QED
      BY <1>2, <1>4, <1>12, <3>2, ExceptSeq
  <2>2. end \in Nat /\ nestedsize + metadata_size \in Nat /\ scan.pos \in Nat
    BY <1>4, <1>8, <1>10, <1>11
  <2>3. /\ DOMAIN meta_offset' = DOMAIN ends \cup {scan.pos}
        /\ DOMAIN meta_offset' \subseteq Nat
        /\ meta_offset' \in [DOMAIN meta_offset' -> Nat]
    <3>1. /\ DOMAIN Put(ends, scan.pos, end) = DOMAIN ends \cup {scan.pos}
          /\ DOMAIN Put(ends, scan.pos, end) \subseteq Nat
          /\ Put(ends, scan.pos, end) \in [DOMAIN Put(ends, scan.pos, end) -> Nat]
      BY <1>6, <2>2, PutTyped
    <3>2. meta_offset' = Put(ends, scan.pos, end)
      BY <1>2, <1>12
    <3> QED
      BY <3>1, <3>2
  <2>4. /\ DOMAIN meta_size_offset' \subseteq Nat
        /\ meta_size_offset' \in [DOMAIN meta_size_offset' -> Nat]
    <3> DEFINE v == nestedsize + metadata_size
    <3>1. v \in Nat /\ meta_size_offset' = Put(sizes, scan.pos, v)
      BY <1>2, <1>12, <2>2
    <3> HIDE DEF v
    <3>2. /\ DOMAIN Put(sizes, scan.pos, v) \subseteq Nat
          /\ Put(sizes, scan.pos, v) \in [DOMAIN Put(sizes, scan.pos, v) -> Nat]
      BY <1>5, <2>2, <3>1, PutTyped
    <3> QED
      BY <3>1, <3>2
  <2>5. IsFiniteSet(DOMAIN meta_offset')
    BY <1>7, <2>3, FS_AddElement
  <2>6. scan' \in Frame /\ pc' = "meta"
    <3>1. NoScan \in Frame
      BY DEF NoScan, Frame, NULL
    <3> QED
      BY <1>2, <1>12, <3>1
  <2> QED
    BY <1>1, <1>4, <2>1, <2>3, <2>4, <2>5, <2>6, MetaStepKeepsIInv
<1>13. CASE ~ last
  <2>1. scan.field + 1 \in 1 .. numofElements(d)
    <3>1. scan.field # numofElements(d)
      BY <1>13 DEF DataTraverse
    <3> HIDE DEF d
    <3> QED
      BY <1>4, <3>1
  <2>2. /\ found \in Frame
        /\ found.data = scan.data /\ found.pos = scan.pos
        /\ found.field = scan.field + 1
        /\ found.metadata = metadata /\ found.metadata_size = metadata_size
    <3>1. scan \in Frame
      BY <1>4
    <3>2. found = Taken(scan, metadata, metadata_size, nestedsize)
      BY Zenon DEF Taken
    <3> HIDE DEF found
    <3>3. metadata \in Seq(Byte) /\ metadata_size \in Nat /\ nestedsize \in Nat
      BY <1>10, <1>11
    <3>4. Taken(scan, metadata, metadata_size, nestedsize) \in Frame
      BY <3>1, <3>3, TakenTyped
    <3>5. /\ found.data = scan.data /\ found.pos = scan.pos
          /\ found.field = scan.field + 1
          /\ found.metadata = metadata /\ found.metadata_size = metadata_size
      BY <3>1, <3>2, <3>3, TakenTyped, SMTT(30)
    <3> QED
      BY <3>2, <3>4, <3>5
  <2> HIDE DEF found
  <2>3. end + 1 \in Nat /\ end + 1 >= 1
    BY <1>8
  <2>4. /\ pc' \in {"scan", "meta"} /\ scan' \in Frame
        /\ pc' # "meta" =>
             /\ scan'.data = found.data /\ scan'.pos = found.pos
             /\ scan'.field = found.field
             /\ scan'.metadata = found.metadata
             /\ scan'.metadata_size = found.metadata_size
             /\ scan'.i \in 1 .. Len(encodeStream_)
    BY <1>3, <1>13, <2>2, <2>3, GoOnTyped
  <2>5. /\ encodeStream_' = encodeStream_ /\ meta_offset' = ends
        /\ meta_size_offset' = sizes
    BY <1>3, <1>13
  <2>6. pc' # "meta" =>
          /\ scan'.data = scan.data /\ scan'.pos = scan.pos
          /\ scan'.field \in 1 .. numofElements(heap[scan.data])
          /\ scan'.i \in 1 .. Len(encodeStream_)
          /\ scan'.metadata_size = Len(scan'.metadata)
    BY <1>10, <2>1, <2>2, <2>4
  <2> QED
    BY <1>1, <1>4, <1>5, <1>6, <1>7, <2>4, <2>5, <2>6, MetaStepKeepsIInv
<1> QED
  BY <1>12, <1>13

LEMMA SumUpKeepsIInv == IInv /\ SumUp => IInv'
<1> SUFFICES ASSUME IInv, SumUp PROVE IInv'
  OBVIOUS
<1> USE DEF IInv
<1>1. /\ pc = "sum" /\ sumIdx \in Nat \ {0} /\ sumIdx <= Len(encodeStream_)
      /\ bytestream' = bytestream \o encodeStream_[sumIdx].bytes
      /\ sumIdx' = sumIdx + 1
      /\ UNCHANGED <<heap, root, members, calls, pc, TraverseStack, MetaStack,
                     encodingIdx, remaining, scan>>
  BY DEF SumUp, TypeOK
<1>2. sumIdx' \in Nat \ {0}
  BY <1>1
<1>3. bytestream' \in Seq(Byte)
  <2>1. sumIdx \in 1 .. Len(encodeStream_) /\ encodeStream_ \in Seq(Entry)
    BY <1>1 DEF TypeOK
  <2>2. encodeStream_[sumIdx] \in Entry
    BY <2>1, ElementOfSeq
  <2>3. encodeStream_[sumIdx].bytes \in Seq(Byte) /\ bytestream \in Seq(Byte)
    BY <2>2 DEF Entry, TypeOK
  <2> QED
    BY <1>1, <2>3, ConcatProperties
<1>4. TypeOK'
  BY <1>1, <1>2, <1>3 DEF TypeOK, members
<1>5. DocInv' /\ KeysInv'
  BY <1>1 DEF DocInv, KeysInv, members
<1>6. StackInv'
  BY <1>1 DEF StackInv, members
<1>7. ScanInv' /\ CountInv'
  BY <1>1 DEF ScanInv, CountInv
<1> QED
  BY <1>4, <1>5, <1>6, <1>7

-----------------------------------------------------------------------------
(* The primitives that are written, and the visits that end the call.      *)
VisitPrimitive == VisitString \/ VisitNumber \/ VisitOther

NumberStops == NumberThrows \/ NumberDiverges \/ TypeDiverges \/ VisitWild

(* The inductive step: one lemma per action, StopKeepsIInv for those that  *)
(* move pc only.                                                           *)
LEMMA IInvNext == IInv /\ [Next]_vars => IInv'
<1> SUFFICES ASSUME IInv, [Next]_vars PROVE IInv'
  OBVIOUS
<1>1. ASSUME NEW r \in DOMAIN heap, Encode(r) PROVE IInv'
  BY <1>1, EncodeKeepsIInv
<1>2. CASE VisitString
  BY <1>2, VisitStringKeepsIInv
<1>3. CASE VisitNumber
  BY <1>3, VisitNumberKeepsIInv
<1>4. CASE VisitOther
  BY <1>4, VisitOtherKeepsIInv
<1>5. CASE NumberStops
  BY <1>5, StopKeepsIInv
     DEF NumberStops, NumberThrows, NumberDiverges, TypeDiverges, VisitWild,
         VisitingNumber, Visiting
<1>6. CASE VisitComposite
  BY <1>6, VisitCompositeKeepsIInv
<1>7. CASE EndTraverse
  BY <1>7, EndTraverseKeepsIInv
<1>8. CASE BeginMeta
  BY <1>8, BeginMetaKeepsIInv
<1>9. CASE MetaOfNothing
  BY <1>9, StopKeepsIInv DEF MetaOfNothing
<1>10. CASE EncodeFieldName
  BY <1>10, EncodeFieldNameKeepsIInv
<1>11. CASE ScanNull
  BY <1>11, StopKeepsIInv DEF ScanNull, Scanning
<1>12. CASE ScanSkip
  BY <1>12, ScanSkipKeepsIInv
<1>13. CASE ScanTake
  BY <1>13, ScanTakeKeepsIInv
<1>14. CASE EndMeta
  BY <1>14, StopKeepsIInv DEF EndMeta
<1>15. CASE SumUp
  BY <1>15, SumUpKeepsIInv
<1>16. CASE Return
  BY <1>16, StopKeepsIInv DEF Return
<1>17. CASE UNCHANGED vars
  <2> USE <1>17 DEF vars, members, locals
  <2>1. TypeOK'
    BY DEF IInv, TypeOK
  <2>2. DocInv' /\ KeysInv' /\ StackInv'
    BY DEF IInv, DocInv, KeysInv, StackInv
  <2>3. ScanInv' /\ CountInv'
    BY DEF IInv, ScanInv, CountInv
  <2> QED
    BY <2>1, <2>2, <2>3 DEF IInv
<1> QED
  BY <1>1, <1>2, <1>3, <1>4, <1>5, <1>6, <1>7, <1>8, <1>9, <1>10, <1>11,
     <1>12, <1>13, <1>14, <1>15, <1>16, <1>17 DEF Next, Step, NumberStops

THEOREM IInvHolds == Spec => []IInv
<1>1. Init => IInv
  BY IInvInit
<1>2. IInv /\ [Next]_vars => IInv'
  BY IInvNext
<1> QED
  BY <1>1, <1>2, PTL DEF Spec

(* Whatever documents are encoded and however often: the variables keep    *)
(* their types, so EncodingMeta is only entered with a placeholder of the  *)
(* stream and a composite of the document (encoding.cc:72).                *)
THEOREM EncoderTyped == Spec => []TypeOK
<1>1. IInv => TypeOK
  BY DEF IInv
<1> QED
  BY <1>1, IInvHolds, PTL

(* On the first call of an Encoder the metadata loop (encoding.cc:264)     *)
(* takes top() and pops exactly as often as a composite was pushed, for    *)
(* every document, also one with shared objects.                           *)
THEOREM FirstCallPopsMatch == Spec => []PopsMatchKeys
<1>1. IInv => PopsMatchKeys
  BY DEF IInv, CountInv, PopsMatchKeys
<1> QED
  BY <1>1, IInvHolds, PTL

(* metadata_size, which becomes a length the decoder relies on, always     *)
(* counts the bytes of the metadata beside it (encoding.cc:74).            *)
THEOREM MetadataCounted == Spec => []MetadataSizeCounted
<1>1. IInv => MetadataSizeCounted
  BY DEF IInv, ScanInv, MetadataSizeCounted
<1> QED
  BY <1>1, IInvHolds, PTL

(* The scan of EncodingMeta reads entries of the stream and elements of    *)
(* the composite only, in every call (encoding.cc:86,117,167): the index   *)
(* and the element it looks for are in bounds whatever the scan skipped.   *)
THEOREM ScanInBounds == Spec => []ScanInside
<1>1. IInv => ScanInside
  BY DEF IInv, ScanInv, ScanInside
<1> QED
  BY <1>1, IInvHolds, PTL

-----------------------------------------------------------------------------
(* Cyclic documents.  While a call traverses, every set of composites that *)
(* keeps itself alive and holds the root has one of its own on the stack;  *)
(* a call that got past the traversal had no such set.                     *)
LoopInv ==
  /\ pc = "traverse" =>
       \A C \in SUBSET DOMAIN heap :
         root \in C /\ Endless(heap, C) =>
           \E k \in 1 .. Len(TraverseStack) : TraverseStack[k] \in C
  /\ pc \in {"meta", "names", "scan", "sum", "returned"} => ~ Cyclic(heap, root)

LEMMA EmitKeepsLoopInv ==
  ASSUME IInv, LoopInv, Visiting(PrimitiveTypes),
         TraverseStack' = Tail(TraverseStack), UNCHANGED <<heap, root, pc>>
  PROVE  LoopInv'
<1>1. pc = "traverse" /\ TraverseStack # <<>> /\ heap[Head(TraverseStack)].type \in PrimitiveTypes
  BY DEF Visiting, Top
<1>2. TraverseStack \in Seq(DOMAIN heap)
  BY DEF IInv, TypeOK
<1>3. SUFFICES ASSUME NEW C \in SUBSET DOMAIN heap, root \in C, Endless(heap, C)
               PROVE  \E k \in 1 .. Len(Tail(TraverseStack)) : Tail(TraverseStack)[k] \in C
  BY <1>1 DEF LoopInv
<1>4. PICK k \in 1 .. Len(TraverseStack) : TraverseStack[k] \in C
  BY <1>1, <1>3 DEF LoopInv
<1>5. Head(TraverseStack) \notin C
  BY <1>1, <1>3 DEF Endless, PrimitiveTypes, NumberTypes, CompositeTypes
<1>6. <<>> \in Seq(DOMAIN heap) /\ <<>> \o Tail(TraverseStack) = Tail(TraverseStack)
  BY <1>1, <1>2
<1> QED
  BY <1>1, <1>2, <1>4, <1>5, <1>6, StackStaysAlive

LEMMA VisitCompositeKeepsLoopInv == IInv /\ LoopInv /\ VisitComposite => LoopInv'
<1> SUFFICES ASSUME IInv, LoopInv, VisitComposite PROVE LoopInv'
  OBVIOUS
<1>1. /\ pc = "traverse" /\ TraverseStack # <<>>
      /\ TraverseStack' = heap[Top].kids \o Tail(TraverseStack)
      /\ UNCHANGED <<heap, root, pc>>
  BY DEF VisitComposite, Visiting, Pushed
<1>2. TraverseStack \in Seq(DOMAIN heap) /\ Top \in DOMAIN heap
  BY <1>1, HeadTailProperties DEF IInv, TypeOK, Top
<1>3. heap[Top].kids \in Seq(DOMAIN heap)
  BY <1>2, DocTyped DEF IInv
<1>4. SUFFICES ASSUME NEW C \in SUBSET DOMAIN heap, root \in C, Endless(heap, C)
               PROVE  \E k \in 1 .. Len(TraverseStack') : TraverseStack'[k] \in C
  BY <1>1 DEF LoopInv
<1>5. PICK k \in 1 .. Len(TraverseStack) : TraverseStack[k] \in C
  BY <1>1, <1>4 DEF LoopInv
<1>6. Head(TraverseStack) \in C =>
        \E j \in DOMAIN heap[Top].kids : heap[Top].kids[j] \in C
  BY <1>4 DEF Endless, Top
<1> QED
  BY <1>1, <1>2, <1>3, <1>5, <1>6, StackStaysAlive

LEMMA LoopInvNext == IInv /\ LoopInv /\ [Next]_vars => LoopInv'
<1> SUFFICES ASSUME IInv, LoopInv, [Next]_vars PROVE LoopInv'
  OBVIOUS
<1>1. ASSUME NEW r \in DOMAIN heap, Encode(r) PROVE LoopInv'
  <2>1. pc' = "traverse" /\ TraverseStack' = <<r>> /\ root' = r /\ heap' = heap
    BY <1>1 DEF Encode
  <2>2. 1 \in 1 .. Len(TraverseStack') /\ TraverseStack'[1] = r
    BY <2>1
  <2> QED
    BY <2>1, <2>2 DEF LoopInv
<1>2. CASE VisitPrimitive
  <2>1. Visiting(PrimitiveTypes)
    BY <1>2 DEF VisitPrimitive, VisitString, VisitNumber, VisitOther, Visiting, PrimitiveTypes
  <2>2. TraverseStack' = Tail(TraverseStack) /\ UNCHANGED <<heap, root, pc>>
    BY <1>2 DEF VisitPrimitive, VisitString, VisitNumber, VisitOther, EmitPrimitive
  <2> QED
    BY <2>1, <2>2, EmitKeepsLoopInv
<1>3. CASE NumberStops
  BY <1>3 DEF NumberStops, NumberThrows, NumberDiverges, TypeDiverges, VisitWild, LoopInv
<1>4. CASE VisitComposite
  BY <1>4, VisitCompositeKeepsLoopInv
<1>5. CASE EndTraverse
  <2>1. pc = "traverse" /\ Len(TraverseStack) = 0 /\ pc' = "meta" /\ UNCHANGED <<heap, root>>
    BY <1>5 DEF EndTraverse
  <2>2. ~ Cyclic(heap, root)
    BY <2>1 DEF LoopInv, Cyclic
  <2> QED
    BY <2>1, <2>2 DEF LoopInv
<1>6. ASSUME pc \in {"meta", "names", "scan", "sum", "returned"},
             pc' \in {"meta", "names", "scan", "sum", "returned", "undefined"},
             UNCHANGED <<heap, root>>
      PROVE  LoopInv'
  BY <1>6 DEF LoopInv
<1>7. CASE BeginMeta \/ MetaOfNothing \/ EncodeFieldName
  BY <1>6, <1>7 DEF BeginMeta, MetaOfNothing, EncodeFieldName
<1>8. CASE ScanNull \/ ScanSkip
  BY <1>6, <1>8 DEF ScanNull, ScanSkip, Scanning, GoOnAt
<1>9. CASE ScanTake
  <2>1. pc = "scan" /\ UNCHANGED <<heap, root>>
    BY <1>9 DEF ScanTake, Scanning
  <2>2. pc' \in {"scan", "meta"}
    BY <1>9, Zenon DEF ScanTake, GoOnAt
  <2> QED
    BY <1>6, <2>1, <2>2
<1>10. CASE EndMeta \/ SumUp \/ Return
  BY <1>6, <1>10 DEF EndMeta, SumUp, Return
<1>11. CASE UNCHANGED vars
  BY <1>11 DEF LoopInv, vars, locals
<1> QED
  BY <1>1, <1>2, <1>3, <1>4, <1>5, <1>7, <1>8, <1>9, <1>10, <1>11
     DEF Next, Step, VisitPrimitive, NumberStops

(* A document that holds a composite below itself is never encoded, for    *)
(* every heap add() can build and whatever the bound on the stream: no     *)
(* call returns or fills one placeholder (encoding.cc:242-262).            *)
THEOREM CyclicNeverReturns == Spec => []CyclesNeverReturn
<1>1. Init => LoopInv
  BY DEF Init, LoopInv
<1>2. IInv /\ LoopInv /\ [Next]_vars => LoopInv'
  BY LoopInvNext
<1>3. IInv /\ LoopInv => CyclesNeverReturn
  BY DEF IInv, TypeOK, LoopInv, CyclesNeverReturn
<1> QED
  BY <1>1, <1>2, <1>3, IInvHolds, PTL DEF Spec

-----------------------------------------------------------------------------
(* The first call of encode().                                             *)

(* The placeholders still to fill, innermost first, are as they were left  *)
(* by the traversal; the one being filled lies behind all others.          *)
Working == {"traverse", "meta", "names", "scan"}

PendingInv ==
  /\ calls = 0 => encodeStream_ = <<>> /\ DOMAIN meta_size_offset = {}
  /\ calls = 1 /\ pc \in Working =>
       /\ encodingIdx = Len(encodeStream_) + 1
       /\ \A m \in 1 .. Len(MetaStack) : encodeStream_[MetaStack[m].pos] = Placeholder
       /\ \A m1, m2 \in 1 .. Len(MetaStack) :
            m1 < m2 => MetaStack[m2].pos < MetaStack[m1].pos
  /\ calls = 1 /\ pc \in {"names", "scan"} =>
       /\ encodeStream_[scan.pos] = Placeholder
       /\ \A m \in 1 .. Len(MetaStack) : MetaStack[m].pos < scan.pos

-----------------------------------------------------------------------------
(* What the actions do, field by field.                                    *)
LEMMA EncodeEffect ==
  ASSUME IInv, NEW r \in DOMAIN heap, Encode(r)
  PROVE  /\ calls' = calls + 1 /\ calls \in Nat /\ root' = r /\ pc' = "traverse"
         /\ TraverseStack' = <<r>> /\ MetaStack' = <<>> /\ encodingIdx' = 1
         /\ UNCHANGED <<heap, encodeStream_, meta_offset, meta_size_offset>>
  BY EncoderAssumption DEF Encode, members, IInv, TypeOK

LEMMA EmitEffect ==
  ASSUME IInv, VisitPrimitive
  PROVE  /\ pc = "traverse" /\ TraverseStack # <<>> /\ TraverseStack \in Seq(DOMAIN heap)
         /\ heap[Top].type \in PrimitiveTypes /\ Top \in DOMAIN heap
         /\ \E b \in Seq(Byte) :
              /\ encodeStream_' = Append(encodeStream_, [bytes |-> b, data |-> Top])
              /\ [bytes |-> b, data |-> Top] \in Entry
         /\ TraverseStack' = Tail(TraverseStack)
         /\ encodingIdx' = encodingIdx + 1 /\ encodingIdx \in Nat
         /\ encodeStream_ \in Seq(Entry) /\ Len(encodeStream_) \in Nat
         /\ UNCHANGED <<heap, root, meta_offset, meta_size_offset, calls, pc,
                        MetaStack, remaining, scan>>
<1>1. /\ pc = "traverse" /\ TraverseStack # <<>> /\ heap[Top].type \in PrimitiveTypes
  BY DEF VisitPrimitive, VisitString, VisitNumber, VisitOther, Visiting, PrimitiveTypes
<1>2. /\ TraverseStack \in Seq(DOMAIN heap) /\ encodingIdx \in Nat
      /\ encodeStream_ \in Seq(Entry) /\ encodeStream_' \in Seq(Entry)
  BY IInvNext DEF IInv, TypeOK, Next, Step, VisitPrimitive
<1>3. Top \in DOMAIN heap
  BY <1>1, <1>2, HeadTailProperties DEF Top
<1>4. PICK b : EmitPrimitive(b)
  BY Zenon DEF VisitPrimitive, VisitString, VisitNumber, VisitOther
<1> DEFINE e == [bytes |-> b, data |-> Top]
           n == Len(encodeStream_)
<1>5. encodeStream_' = Append(encodeStream_, e)
  BY <1>4 DEF EmitPrimitive
<1>6. e \in Entry
  <2> HIDE DEF e
  <2>1. Len(encodeStream_') = n + 1 /\ n \in Nat /\ encodeStream_'[n + 1] = e
    BY <1>2, <1>5
  <2>2. n + 1 \in 1 .. Len(encodeStream_')
    BY <2>1
  <2> QED
    BY <1>2, <2>1, <2>2, ElementOfSeq
<1>7. b \in Seq(Byte)
  BY <1>6 DEF Entry
<1>8. /\ TraverseStack' = Tail(TraverseStack) /\ encodingIdx' = encodingIdx + 1
      /\ UNCHANGED <<heap, root, meta_offset, meta_size_offset, calls, pc,
                     MetaStack, remaining, scan>>
  BY <1>4 DEF EmitPrimitive
<1> HIDE DEF e
<1>9. Len(encodeStream_) \in Nat
  BY <1>2
<1> QED
  BY <1>1, <1>2, <1>3, <1>5, <1>6, <1>7, <1>8, <1>9 DEF e

LEMMA VisitCompositeEffect ==
  ASSUME IInv, VisitComposite
  PROVE  /\ pc = "traverse" /\ TraverseStack # <<>> /\ TraverseStack \in Seq(DOMAIN heap)
         /\ heap[Top].type \in CompositeTypes /\ Top \in DOMAIN heap
         /\ heap[Top].kids \in Seq(DOMAIN heap)
         /\ encodeStream_' = Append(encodeStream_, Placeholder) /\ Placeholder \in Entry
         /\ MetaStack \in Seq([data : DOMAIN heap, pos : Nat])
         /\ Len(MetaStack) \in Nat /\ Len(MetaStack') = Len(MetaStack) + 1
         /\ MetaStack'[1].data = Top /\ MetaStack'[1].pos = encodingIdx
         /\ \A m \in 2 .. Len(MetaStack') : MetaStack'[m] = MetaStack[m-1]
         /\ TraverseStack' = heap[Top].kids \o Tail(TraverseStack)
         /\ encodingIdx' = encodingIdx + 1 /\ encodingIdx \in Nat
         /\ encodeStream_ \in Seq(Entry) /\ Len(encodeStream_) \in Nat
         /\ meta_offset' = Put(meta_offset, encodingIdx, NoOffset)
         /\ UNCHANGED <<heap, root, meta_size_offset, calls, pc, remaining, scan>>
<1> DEFINE m0 == [data |-> Top, pos |-> encodingIdx]
<1>1. /\ pc = "traverse" /\ TraverseStack # <<>> /\ heap[Top].type \in CompositeTypes
      /\ encodeStream_' = Append(encodeStream_, Placeholder)
      /\ MetaStack' = <<m0>> \o MetaStack
      /\ TraverseStack' = heap[Top].kids \o Tail(TraverseStack)
      /\ encodingIdx' = encodingIdx + 1
      /\ meta_offset' = Put(meta_offset, encodingIdx, NoOffset)
      /\ UNCHANGED <<heap, root, meta_size_offset, calls, pc, remaining, scan>>
  BY DEF VisitComposite, Visiting, PushMeta, Pushed
<1>2. /\ TraverseStack \in Seq(DOMAIN heap) /\ encodingIdx \in Nat
      /\ encodeStream_ \in Seq(Entry)
      /\ MetaStack \in Seq([data : DOMAIN heap, pos : Nat])
  BY DEF IInv, TypeOK
<1>3. Top \in DOMAIN heap
  BY <1>1, <1>2, HeadTailProperties DEF Top
<1>4. heap[Top].kids \in Seq(DOMAIN heap)
  BY <1>3, DocTyped DEF IInv
<1>5. Placeholder \in Entry
  BY DEF Placeholder, Entry, NULL
<1>6. m0 \in [data : DOMAIN heap, pos : Nat] /\ m0.data = Top /\ m0.pos = encodingIdx
  BY <1>2, <1>3
<1> HIDE DEF m0
<1>7. /\ Len(MetaStack) \in Nat /\ Len(MetaStack') = Len(MetaStack) + 1
      /\ MetaStack'[1] = m0
      /\ \A m \in 2 .. Len(MetaStack') : MetaStack'[m] = MetaStack[m-1]
  BY <1>1, <1>2, <1>6
<1>8. Len(encodeStream_) \in Nat
  BY <1>2
<1> QED
  BY <1>1, <1>2, <1>3, <1>4, <1>5, <1>6, <1>7, <1>8

LEMMA BeginMetaEffect ==
  ASSUME IInv, BeginMeta
  PROVE  /\ pc = "meta" /\ pc' \in {"names", "scan"} /\ TraverseStack = <<>>
         /\ Len(MetaStack) \in Nat /\ Len(MetaStack) >= 1
         /\ MetaStack[1] \in [data : DOMAIN heap, pos : Nat]
         /\ Len(MetaStack') = Len(MetaStack) - 1
         /\ \A m \in 1 .. Len(MetaStack') : MetaStack'[m] = MetaStack[m+1]
         /\ scan'.data = MetaStack[1].data /\ scan'.pos = MetaStack[1].pos
         /\ scan'.i = MetaStack[1].pos + 1 /\ scan'.field = 1 /\ scan'.nestedsize = 0
         /\ UNCHANGED <<heap, root, encodeStream_, meta_offset, meta_size_offset,
                        calls, TraverseStack, encodingIdx>>
<1> DEFINE top == Head(MetaStack)
<1>1. /\ pc = "meta" /\ pc' \in {"names", "scan"} /\ MetaStack # <<>>
      /\ MetaStack' = Tail(MetaStack)
      /\ UNCHANGED <<heap, root, encodeStream_, meta_offset, meta_size_offset,
                     calls, TraverseStack, encodingIdx>>
  BY DEF BeginMeta, TopHasElements, members
<1>2. /\ scan'.data = top.data /\ scan'.pos = top.pos
      /\ scan'.i = top.pos + 1 /\ scan'.field = 1 /\ scan'.nestedsize = 0
  BY DEF BeginMeta
<1>3. MetaStack \in Seq([data : DOMAIN heap, pos : Nat]) /\ TraverseStack = <<>>
  BY <1>1 DEF IInv, TypeOK, StackInv
<1>4. /\ Len(MetaStack) \in Nat /\ Len(MetaStack) >= 1 /\ top = MetaStack[1]
      /\ Len(MetaStack') = Len(MetaStack) - 1
  BY <1>1, <1>3
<1>5. \A m \in 1 .. Len(MetaStack') : MetaStack'[m] = MetaStack[m+1]
  BY <1>1, <1>3, HeadTailProperties
<1>6. MetaStack[1] \in [data : DOMAIN heap, pos : Nat]
  <2>1. 1 \in 1 .. Len(MetaStack)
    BY <1>4
  <2> QED
    BY <1>3, <2>1, ElementOfSeq
<1> QED
  BY <1>1, <1>2, <1>3, <1>4, <1>5, <1>6

LEMMA EncodeFieldNameEffect ==
  ASSUME IInv, EncodeFieldName
  PROVE  /\ pc = "names" /\ pc' \in {"names", "scan"} /\ scan \in Frame
         /\ scan'.data = scan.data /\ scan'.pos = scan.pos /\ scan'.i = scan.i
         /\ scan'.nestedsize = scan.nestedsize
         /\ pc' = "scan" => scan'.field = 1
         /\ UNCHANGED <<heap, root, encodeStream_, meta_offset, meta_size_offset,
                        calls, TraverseStack, MetaStack, encodingIdx>>
<1> DEFINE md == scan.metadata \o VarientEncoding(Len(heap[scan.data].names[scan.field]))
                   \o heap[scan.data].names[scan.field]
           sz == scan.metadata_size
                   + Len(VarientEncoding(Len(heap[scan.data].names[scan.field])))
                   + Len(heap[scan.data].names[scan.field])
           more == scan.field < numofElements(heap[scan.data])
<1>1. scan \in Frame
  BY DEF IInv, TypeOK
<1>2. /\ pc = "names" /\ pc' = IF more THEN "names" ELSE "scan"
      /\ UNCHANGED <<heap, root, encodeStream_, meta_offset, meta_size_offset,
                     calls, TraverseStack, MetaStack, encodingIdx>>
  BY Zenon DEF EncodeFieldName, members
<1>3. scan' = [scan EXCEPT !.metadata = md, !.metadata_size = sz,
                           !.field = IF more THEN @ + 1 ELSE 1]
  BY Zenon DEF EncodeFieldName
<1> HIDE DEF md, sz, more
<1>4. /\ scan'.data = scan.data /\ scan'.pos = scan.pos /\ scan'.i = scan.i
      /\ scan'.nestedsize = scan.nestedsize
      /\ scan'.field = IF more THEN scan.field + 1 ELSE 1
  BY <1>1, <1>3 DEF Frame
<1> QED
  BY <1>1, <1>2, <1>4

(* The scan stops behind the last entry or goes on at entry i, its other   *)
(* locals as they were found.                                              *)
Resumes(i, found) ==
  IF i <= Len(encodeStream_)
  THEN /\ pc' = "scan"
       /\ scan'.data = found.data /\ scan'.pos = found.pos /\ scan'.i = i
       /\ scan'.field = found.field /\ scan'.nestedsize = found.nestedsize
       /\ scan'.metadata = found.metadata
  ELSE pc' = "meta"

LEMMA GoOnResumes ==
  ASSUME NEW i, NEW found \in Frame, GoOnAt(i, found)
  PROVE  Resumes(i, found)
  BY DEF GoOnAt, Resumes, Resumed, Frame

LEMMA ScanSkipEffect ==
  ASSUME IInv, ScanSkip
  PROVE  /\ Scanning /\ Scanned.data # NULL /\ ~ SameType
         /\ Resumes(scan.i + 1, scan)
         /\ UNCHANGED <<heap, root, encodeStream_, meta_offset, meta_size_offset,
                        calls, TraverseStack, MetaStack, encodingIdx>>
<1>1. /\ Scanning /\ Scanned.data # NULL /\ ~ SameType /\ GoOnAt(scan.i + 1, scan)
      /\ UNCHANGED <<heap, root, encodeStream_, meta_offset, meta_size_offset,
                     calls, TraverseStack, MetaStack, encodingIdx>>
  BY DEF ScanSkip, members
<1>2. scan \in Frame
  BY DEF IInv, TypeOK
<1> QED
  BY <1>1, <1>2, GoOnResumes

(* The locals of one round of the scan, named as in EncodingMeta.          *)
TakesPrimitive == isPrimitive(heap[DataTraverse])
TakenSizes == IF TakesPrimitive THEN meta_size_offset
                                ELSE Touch(meta_size_offset, scan.i, 0)
TakenEnds  == IF TakesPrimitive THEN meta_offset ELSE Touch(meta_offset, scan.i, 1)
TakenSize  == IF TakesPrimitive THEN Len(Scanned.bytes) ELSE TakenSizes[scan.i]
TakenEnd   == IF TakesPrimitive THEN scan.i ELSE TakenEnds[scan.i]
TakenMetadata == scan.metadata \o VarientEncoding(TakenSize)
TakesLast == DataTraverse = heap[scan.data].kids[numofElements(heap[scan.data])]

LEMMA ScanTakeEffect ==
  ASSUME IInv, ScanTake
  PROVE  /\ Scanning /\ Scanned.data # NULL /\ SameType
         /\ UNCHANGED <<heap, root, calls, TraverseStack, MetaStack, encodingIdx>>
         /\ TakenSize \in Nat /\ TakenEnd \in Nat
         /\ TakenMetadata \in Seq(Byte)
         /\ TakesLast =>
              /\ meta_offset' = Put(TakenEnds, scan.pos, TakenEnd)
              /\ meta_size_offset' = Put(TakenSizes, scan.pos,
                   scan.nestedsize + TakenSize + Len(TakenMetadata))
              /\ encodeStream_' = [encodeStream_ EXCEPT ![scan.pos] =
                                     [bytes |-> TakenMetadata, data |-> scan.data]]
              /\ [bytes |-> TakenMetadata, data |-> scan.data] \in Entry
              /\ pc' = "meta"
         /\ ~ TakesLast =>
              /\ meta_offset' = TakenEnds /\ meta_size_offset' = TakenSizes
              /\ encodeStream_' = encodeStream_
              /\ IF TakenEnd + 1 <= Len(encodeStream_)
                 THEN /\ pc' = "scan" /\ scan'.data = scan.data
                      /\ scan'.pos = scan.pos /\ scan'.i = TakenEnd + 1
                      /\ scan'.field = scan.field + 1
                      /\ scan'.nestedsize = scan.nestedsize + TakenSize
                      /\ scan'.metadata = TakenMetadata
                 ELSE pc' = "meta"
<1> DEFINE d     == heap[scan.data]
           prim  == isPrimitive(heap[DataTraverse])
           sizes == IF prim THEN meta_size_offset ELSE Touch(meta_size_offset, scan.i, 0)
           ends  == IF prim THEN meta_offset ELSE Touch(meta_offset, scan.i, 1)
           bsize == IF prim THEN Len(Scanned.bytes) ELSE sizes[scan.i]
           end   == IF prim THEN scan.i ELSE ends[scan.i]
           length   == VarientEncoding(bsize)
           metadata == scan.metadata \o length
           metadata_size == scan.metadata_size + Len(length)
           nestedsize    == scan.nestedsize + bsize
           last  == DataTraverse = d.kids[numofElements(d)]
           found == Taken(scan, metadata, metadata_size, nestedsize)
<1>1. /\ Scanning /\ Scanned.data # NULL /\ SameType
      /\ UNCHANGED <<heap, root, calls, TraverseStack, MetaStack, encodingIdx>>
  BY DEF ScanTake
<1>2. /\ last => meta_offset' = Put(ends, scan.pos, end)
      /\ last => meta_size_offset' = Put(sizes, scan.pos, nestedsize + metadata_size)
      /\ last => encodeStream_' = [encodeStream_ EXCEPT ![scan.pos] =
                                     [bytes |-> metadata, data |-> scan.data]]
      /\ last => pc' = "meta"
  <2>1. last => meta_offset' = Put(ends, scan.pos, end)
    BY Zenon DEF ScanTake
  <2>2. last => meta_size_offset' = Put(sizes, scan.pos, nestedsize + metadata_size)
    BY Zenon DEF ScanTake
  <2>3. last => encodeStream_' = [encodeStream_ EXCEPT ![scan.pos] =
                                    [bytes |-> metadata, data |-> scan.data]]
    BY Zenon DEF ScanTake, Filled
  <2>4. last => pc' = "meta"
    BY Zenon DEF ScanTake
  <2> HIDE DEF last, sizes, ends, end, metadata, metadata_size, nestedsize
  <2> QED
    BY <2>1, <2>2, <2>3, <2>4
<1>3. /\ ~ last => GoOnAt(end + 1, found)
      /\ ~ last => meta_offset' = ends
      /\ ~ last => meta_size_offset' = sizes
      /\ ~ last => encodeStream_' = encodeStream_
  <2>1. ~ last => GoOnAt(end + 1, found)
    BY Zenon DEF ScanTake, Taken
  <2>2. ~ last => meta_offset' = ends
    BY Zenon DEF ScanTake
  <2>3. ~ last => meta_size_offset' = sizes
    BY Zenon DEF ScanTake
  <2>4. ~ last => encodeStream_' = encodeStream_
    BY Zenon DEF ScanTake
  <2> HIDE DEF last, sizes, ends, end, found
  <2> QED
    BY <2>1, <2>2, <2>3, <2>4
<1>4. /\ prim = TakesPrimitive /\ sizes = TakenSizes /\ ends = TakenEnds
      /\ bsize = TakenSize /\ end = TakenEnd /\ metadata = TakenMetadata
      /\ last = TakesLast
  BY Zenon DEF TakesPrimitive, TakenSizes, TakenEnds, TakenSize, TakenEnd,
               TakenMetadata, TakesLast
<1>5. /\ scan \in Frame /\ scan.i \in Nat /\ scan.metadata_size = Len(scan.metadata)
      /\ scan.metadata \in Seq(Byte) /\ scan.nestedsize \in Nat /\ scan.data \in Nat
      /\ Scanned \in Entry
  BY <1>1, ScanningFacts DEF Frame
<1>6. ~ prim => sizes[scan.i] \in Nat /\ ends[scan.i] \in Nat
  BY <1>1, <1>5, ScanningFacts, TouchTyped
<1>7. bsize \in Nat /\ end \in Nat
  <2>1. Len(Scanned.bytes) \in Nat
    BY <1>5 DEF Entry
  <2> QED
    BY <1>5, <1>6, <2>1
<1> HIDE DEF prim, sizes, ends, bsize, end, last
<1>8. length \in Seq(Byte) /\ Len(length) \in Nat
  BY <1>7, VarientEncodingType
<1> HIDE DEF length
<1>9. /\ metadata \in Seq(Byte) /\ metadata_size = Len(metadata) /\ metadata_size \in Nat
  <2>1. metadata \in Seq(Byte) /\ Len(metadata) = Len(scan.metadata) + Len(length)
    BY <1>5, <1>8, ConcatProperties
  <2>2. Len(scan.metadata) \in Nat
    BY <1>5
  <2> QED
    BY <1>5, <1>8, <2>1, <2>2
<1> HIDE DEF metadata, metadata_size
<1>10. nestedsize \in Nat /\ nestedsize = scan.nestedsize + bsize
  BY <1>5, <1>7
<1> HIDE DEF nestedsize
<1>11. [bytes |-> metadata, data |-> scan.data] \in Entry
  BY <1>5, <1>9 DEF Entry
<1>12. /\ found \in Frame /\ found.data = scan.data /\ found.pos = scan.pos
       /\ found.field = scan.field + 1 /\ found.nestedsize = nestedsize
       /\ found.metadata = metadata
  <2>0. /\ scan \in Frame /\ metadata \in Seq(Byte)
        /\ metadata_size \in Nat /\ nestedsize \in Nat
    BY <1>5, <1>9, <1>10
  <2>1. /\ found \in Frame /\ found.data = scan.data /\ found.pos = scan.pos
        /\ found.field = scan.field + 1
    BY <2>0, TakenTyped
  <2>2. found.nestedsize = nestedsize /\ found.metadata = metadata
    BY <1>5 DEF Taken, Frame
  <2> QED
    BY <2>1, <2>2
<1> HIDE DEF found
<1>13. ~ last => Resumes(end + 1, found)
  BY <1>3, <1>12, GoOnResumes
<1>14. ~ last =>
         IF TakenEnd + 1 <= Len(encodeStream_)
         THEN /\ pc' = "scan" /\ scan'.data = scan.data
              /\ scan'.pos = scan.pos /\ scan'.i = TakenEnd + 1
              /\ scan'.field = scan.field + 1
              /\ scan'.nestedsize = scan.nestedsize + TakenSize
              /\ scan'.metadata = TakenMetadata
         ELSE pc' = "meta"
  BY <1>4, <1>10, <1>12, <1>13, Zenon DEF Resumes
<1>15. last => /\ meta_offset' = Put(TakenEnds, scan.pos, TakenEnd)
               /\ encodeStream_' = [encodeStream_ EXCEPT ![scan.pos] =
                                     [bytes |-> TakenMetadata, data |-> scan.data]]
               /\ [bytes |-> TakenMetadata, data |-> scan.data] \in Entry
               /\ pc' = "meta"
  BY <1>2, <1>4, <1>11, Zenon
<1>16. last => meta_size_offset' = Put(TakenSizes, scan.pos,
                   scan.nestedsize + TakenSize + Len(TakenMetadata))
  <2>1. nestedsize + metadata_size = scan.nestedsize + TakenSize + Len(TakenMetadata)
    BY <1>4, <1>9, <1>10
  <2> QED
    BY <1>2, <1>4, <2>1, Zenon
<1>17. ~ last => /\ meta_offset' = TakenEnds /\ meta_size_offset' = TakenSizes
                 /\ encodeStream_' = encodeStream_
  BY <1>3, <1>4, Zenon
<1>18. TakenSize \in Nat /\ TakenEnd \in Nat /\ TakenMetadata \in Seq(Byte)
  BY <1>4, <1>7, <1>9
<1> QED
  BY <1>1, <1>4, <1>14, <1>15, <1>16, <1>17, <1>18, Zenon

(* The other actions move pc, or nothing the stream depends on.            *)
OtherAction ==
  NumberStops \/ EndTraverse \/ MetaOfNothing \/ ScanNull
    \/ EndMeta \/ SumUp \/ Return

LEMMA OtherEffect ==
  ASSUME IInv, OtherAction
  PROVE  /\ UNCHANGED <<heap, root, encodeStream_, meta_offset, meta_size_offset,
                        calls, TraverseStack, MetaStack, encodingIdx, scan>>
         /\ pc' \notin {"traverse", "names", "scan"}
         /\ pc' \in {"meta", "sum", "returned"} =>
              \/ pc = "traverse" /\ pc' = "meta" /\ TraverseStack = <<>>
              \/ pc = "meta" /\ pc' = "sum" /\ remaining = 0
              \/ pc = "sum" /\ pc' \in {"sum", "returned"}
<1>1. UNCHANGED <<heap, root, encodeStream_, meta_offset, meta_size_offset,
                  calls, TraverseStack, MetaStack, encodingIdx, scan>>
  BY DEF OtherAction, NumberStops, NumberThrows, NumberDiverges, TypeDiverges, VisitWild,
         EndTraverse, MetaOfNothing, ScanNull, EndMeta, SumUp, Return, members, locals
<1>2. /\ pc' \notin {"traverse", "names", "scan"}
      /\ pc' \in {"meta", "sum", "returned"} =>
              \/ pc = "traverse" /\ pc' = "meta" /\ TraverseStack = <<>>
              \/ pc = "meta" /\ pc' = "sum" /\ remaining = 0
              \/ pc = "sum" /\ pc' \in {"sum", "returned"}
  BY DEF OtherAction, NumberStops, NumberThrows, NumberDiverges, TypeDiverges, VisitWild,
         EndTraverse, MetaOfNothing, ScanNull, EndMeta, SumUp, Return
<1> QED
  BY <1>1, <1>2

LEMMA NextCases ==
  ASSUME [Next]_vars
  PROVE  \/ \E r \in DOMAIN heap : Encode(r)
         \/ VisitPrimitive \/ VisitComposite \/ OtherAction
         \/ BeginMeta \/ EncodeFieldName \/ ScanSkip \/ ScanTake
         \/ UNCHANGED vars
  BY DEF Next, Step, OtherAction, VisitPrimitive, NumberStops

(* A position handed out stays a position, with the entry it has.          *)
LEMMA AppendKeepsEntries ==
  ASSUME NEW s \in Seq(Entry), NEW e \in Entry
  PROVE  /\ Len(Append(s, e)) = Len(s) + 1
         /\ Append(s, e)[Len(s) + 1] = e
         /\ \A p \in 1 .. Len(s) : Append(s, e)[p] = s[p]
  OBVIOUS

LEMMA EmitKeepsPendingInv ==
  ASSUME IInv, PendingInv, VisitPrimitive
  PROVE  PendingInv'
<1>1. PICK b \in Seq(Byte) :
        /\ encodeStream_' = Append(encodeStream_, [bytes |-> b, data |-> Top])
        /\ [bytes |-> b, data |-> Top] \in Entry
  BY EmitEffect
<1>2. /\ pc = "traverse" /\ encodingIdx' = encodingIdx + 1 /\ encodingIdx \in Nat
      /\ encodeStream_ \in Seq(Entry) /\ Len(encodeStream_) \in Nat
      /\ UNCHANGED <<meta_size_offset, calls, pc, MetaStack, scan>>
  BY EmitEffect
<1>3. calls # 0
  BY <1>2 DEF IInv, CountInv
<1>4. /\ Len(encodeStream_') = Len(encodeStream_) + 1
      /\ \A p \in 1 .. Len(encodeStream_) : encodeStream_'[p] = encodeStream_[p]
  <2> DEFINE e == [bytes |-> b, data |-> Top]
  <2>1. e \in Entry /\ encodeStream_' = Append(encodeStream_, e)
    BY <1>1
  <2> HIDE DEF e
  <2> QED
    BY <1>2, <2>1, AppendKeepsEntries
<1>5. \A m \in 1 .. Len(MetaStack) : MetaStack[m].pos \in 1 .. encodingIdx - 1
  BY DEF IInv, StackInv
<1>6. ASSUME calls = 1, NEW m \in 1 .. Len(MetaStack)
      PROVE  encodeStream_'[MetaStack[m].pos] = Placeholder
  <2>1. encodingIdx = Len(encodeStream_) + 1 /\ encodeStream_[MetaStack[m].pos] = Placeholder
    BY <1>2, <1>6 DEF PendingInv, Working
  <2>2. MetaStack[m].pos \in 1 .. Len(encodeStream_)
    BY <1>2, <1>5, <2>1
  <2> QED
    BY <1>4, <2>1, <2>2
<1> QED
  BY <1>2, <1>3, <1>4, <1>6 DEF PendingInv, Working

LEMMA VisitCompositeKeepsPendingInv ==
  ASSUME IInv, PendingInv, VisitComposite
  PROVE  PendingInv'
<1>1. /\ pc = "traverse" /\ encodingIdx' = encodingIdx + 1 /\ encodingIdx \in Nat
      /\ encodeStream_' = Append(encodeStream_, Placeholder) /\ Placeholder \in Entry
      /\ encodeStream_ \in Seq(Entry) /\ Len(encodeStream_) \in Nat
      /\ Len(MetaStack) \in Nat /\ Len(MetaStack') = Len(MetaStack) + 1
      /\ MetaStack'[1].pos = encodingIdx
      /\ \A m \in 2 .. Len(MetaStack') : MetaStack'[m] = MetaStack[m-1]
      /\ UNCHANGED <<meta_size_offset, calls, pc, scan>>
  BY VisitCompositeEffect
<1>2. calls # 0
  BY <1>1 DEF IInv, CountInv
<1>3. /\ Len(encodeStream_') = Len(encodeStream_) + 1
      /\ encodeStream_'[Len(encodeStream_) + 1] = Placeholder
      /\ \A p \in 1 .. Len(encodeStream_) : encodeStream_'[p] = encodeStream_[p]
  BY <1>1, AppendKeepsEntries
<1>4. \A m \in 1 .. Len(MetaStack) : MetaStack[m].pos \in 1 .. encodingIdx - 1
  BY DEF IInv, StackInv
<1>5. calls = 1 =>
        /\ encodingIdx = Len(encodeStream_) + 1
        /\ \A m \in 1 .. Len(MetaStack) : encodeStream_[MetaStack[m].pos] = Placeholder
        /\ \A m1, m2 \in 1 .. Len(MetaStack) :
             m1 < m2 => MetaStack[m2].pos < MetaStack[m1].pos
  BY <1>1 DEF PendingInv, Working
<1>6. ASSUME NEW m \in 1 .. Len(MetaStack')
      PROVE  \/ m = 1
             \/ m - 1 \in 1 .. Len(MetaStack) /\ MetaStack'[m] = MetaStack[m-1]
  BY <1>1
<1>7. ASSUME calls = 1, NEW m \in 1 .. Len(MetaStack')
      PROVE  encodeStream_'[MetaStack'[m].pos] = Placeholder
  <2>1. CASE m = 1
    BY <1>1, <1>3, <1>5, <1>7, <2>1
  <2>2. CASE m - 1 \in 1 .. Len(MetaStack) /\ MetaStack'[m] = MetaStack[m-1]
    <3>1. MetaStack[m-1].pos \in 1 .. Len(encodeStream_)
      BY <1>1, <1>4, <1>5, <1>7, <2>2
    <3> QED
      BY <1>3, <1>5, <1>7, <2>2, <3>1
  <2> QED
    BY <1>6, <2>1, <2>2
<1>8. ASSUME calls = 1, NEW m1 \in 1 .. Len(MetaStack'), NEW m2 \in 1 .. Len(MetaStack'),
             m1 < m2
      PROVE  MetaStack'[m2].pos < MetaStack'[m1].pos
  <2>1. m2 - 1 \in 1 .. Len(MetaStack) /\ MetaStack'[m2] = MetaStack[m2-1]
    BY <1>1, <1>8
  <2>2. CASE m1 = 1
    BY <1>1, <1>4, <2>1, <2>2
  <2>3. CASE m1 - 1 \in 1 .. Len(MetaStack) /\ MetaStack'[m1] = MetaStack[m1-1]
    BY <1>1, <1>5, <1>8, <2>1, <2>3, SMTT(30)
  <2> QED
    BY <1>6, <2>2, <2>3
<1> QED
  BY <1>1, <1>2, <1>3, <1>5, <1>7, <1>8 DEF PendingInv, Working

LEMMA BeginMetaKeepsPendingInv ==
  ASSUME IInv, PendingInv, BeginMeta
  PROVE  PendingInv'
<1>1. /\ pc = "meta" /\ pc' \in {"names", "scan"}
      /\ Len(MetaStack) \in Nat /\ Len(MetaStack) >= 1
      /\ Len(MetaStack') = Len(MetaStack) - 1
      /\ \A m \in 1 .. Len(MetaStack') : MetaStack'[m] = MetaStack[m+1]
      /\ scan'.pos = MetaStack[1].pos
      /\ UNCHANGED <<encodeStream_, meta_size_offset, calls, encodingIdx>>
  BY BeginMetaEffect
<1>2. calls # 0
  BY <1>1 DEF IInv, CountInv
<1>3. calls = 1 =>
        /\ encodingIdx = Len(encodeStream_) + 1
        /\ \A m \in 1 .. Len(MetaStack) : encodeStream_[MetaStack[m].pos] = Placeholder
        /\ \A m1, m2 \in 1 .. Len(MetaStack) :
             m1 < m2 => MetaStack[m2].pos < MetaStack[m1].pos
  BY <1>1 DEF PendingInv, Working
<1>4. ASSUME NEW m \in 1 .. Len(MetaStack')
      PROVE  m + 1 \in 1 .. Len(MetaStack) /\ 1 < m + 1 /\ MetaStack'[m] = MetaStack[m+1]
  BY <1>1
<1>5. 1 \in 1 .. Len(MetaStack)
  BY <1>1
<1>6. ASSUME calls = 1, NEW m1 \in 1 .. Len(MetaStack'), NEW m2 \in 1 .. Len(MetaStack'),
             m1 < m2
      PROVE  MetaStack'[m2].pos < MetaStack'[m1].pos
  <2>1. /\ m1 + 1 \in 1 .. Len(MetaStack) /\ MetaStack'[m1] = MetaStack[m1+1]
        /\ m2 + 1 \in 1 .. Len(MetaStack) /\ MetaStack'[m2] = MetaStack[m2+1]
    BY <1>4
  <2>2. m1 + 1 < m2 + 1
    BY <1>1, <1>6
  <2>3. MetaStack[m2+1].pos < MetaStack[m1+1].pos
    BY <1>3, <1>6, <2>1, <2>2
  <2> QED
    BY <2>1, <2>3
<1>7. calls = 1 =>
        /\ encodeStream_'[scan'.pos] = Placeholder
        /\ \A m \in 1 .. Len(MetaStack') :
             /\ MetaStack'[m].pos < scan'.pos
             /\ encodeStream_'[MetaStack'[m].pos] = Placeholder
  BY <1>1, <1>3, <1>4, <1>5
<1> QED
  BY <1>1, <1>2, <1>3, <1>6, <1>7 DEF PendingInv, Working

LEMMA ScanTakeKeepsPendingInv ==
  ASSUME IInv, PendingInv, ScanTake
  PROVE  PendingInv'
<1>1. /\ Scanning /\ pc = "scan" /\ pc' \in {"scan", "meta"}
      /\ UNCHANGED <<calls, MetaStack, encodingIdx>>
      /\ pc' = "scan" => ~ TakesLast /\ scan'.pos = scan.pos
  BY ScanTakeEffect DEF Scanning
<1>2. /\ ~ TakesLast => encodeStream_' = encodeStream_
      /\ TakesLast => encodeStream_' = [encodeStream_ EXCEPT ![scan.pos] =
                                         [bytes |-> TakenMetadata, data |-> scan.data]]
  BY ScanTakeEffect
<1>3. encodeStream_ \in Seq(Entry) /\ Len(encodeStream_) \in Nat /\ encodingIdx \in Nat
  BY DEF IInv, TypeOK
<1>4. /\ Len(encodeStream_') = Len(encodeStream_)
      /\ \A p \in 1 .. Len(encodeStream_) :
           p # scan.pos \/ ~ TakesLast => encodeStream_'[p] = encodeStream_[p]
  <2> DEFINE e == [bytes |-> TakenMetadata, data |-> scan.data]
  <2>1. ~ TakesLast => encodeStream_' = encodeStream_
    BY <1>2
  <2>2. TakesLast => encodeStream_' = [encodeStream_ EXCEPT ![scan.pos] = e]
    BY <1>2
  <2> HIDE DEF e
  <2> QED
    BY <1>3, <2>1, <2>2
<1>5. calls # 0
  BY <1>1 DEF IInv, CountInv
<1>6. calls = 1 =>
        /\ encodingIdx = Len(encodeStream_) + 1
        /\ encodeStream_[scan.pos] = Placeholder
        /\ \A m \in 1 .. Len(MetaStack) :
             encodeStream_[MetaStack[m].pos] = Placeholder /\ MetaStack[m].pos < scan.pos
        /\ \A m1, m2 \in 1 .. Len(MetaStack) :
             m1 < m2 => MetaStack[m2].pos < MetaStack[m1].pos
  BY <1>1 DEF PendingInv, Working
<1>7. ASSUME calls = 1, NEW m \in 1 .. Len(MetaStack)
      PROVE  encodeStream_'[MetaStack[m].pos] = Placeholder
  <2>1. MetaStack[m].pos \in 1 .. encodingIdx - 1
    BY DEF IInv, StackInv
  <2>2. MetaStack[m].pos \in 1 .. Len(encodeStream_) /\ MetaStack[m].pos # scan.pos
    BY <1>3, <1>6, <1>7, <2>1
  <2> QED
    BY <1>4, <1>6, <1>7, <2>2
<1>8. calls = 1 /\ pc' = "scan" => encodeStream_'[scan.pos] = Placeholder
  BY <1>1, <1>2, <1>6
<1> QED
  BY <1>1, <1>4, <1>5, <1>6, <1>7, <1>8 DEF PendingInv, Working

LEMMA PendingInvInit == Init => PendingInv
BY DEF Init, PendingInv

LEMMA PendingInvNext == IInv /\ PendingInv /\ [Next]_vars => PendingInv'
<1> SUFFICES ASSUME IInv, PendingInv, [Next]_vars PROVE PendingInv'
  OBVIOUS
<1>1. ASSUME NEW r \in DOMAIN heap, Encode(r) PROVE PendingInv'
  <2>1. /\ calls' = calls + 1 /\ calls \in Nat /\ pc' = "traverse" /\ MetaStack' = <<>>
        /\ encodingIdx' = 1 /\ UNCHANGED <<encodeStream_, meta_size_offset>>
    BY <1>1, EncodeEffect
  <2>2. calls' = 1 => Len(encodeStream_') = 0
    BY <2>1 DEF PendingInv
  <2> QED
    BY <2>1, <2>2 DEF PendingInv
<1>2. CASE VisitPrimitive
  BY <1>2, EmitKeepsPendingInv
<1>3. CASE VisitComposite
  BY <1>3, VisitCompositeKeepsPendingInv
<1>4. CASE OtherAction
  BY <1>4, OtherEffect DEF PendingInv, Working
<1>5. CASE BeginMeta
  BY <1>5, BeginMetaKeepsPendingInv
<1>6. CASE EncodeFieldName
  BY <1>6, EncodeFieldNameEffect DEF PendingInv, Working
<1>7. CASE ScanSkip
  <2>1. /\ pc = "scan" /\ pc' \in {"scan", "meta"}
        /\ UNCHANGED <<encodeStream_, meta_size_offset, calls, MetaStack, encodingIdx>>
        /\ pc' = "scan" => scan'.pos = scan.pos
    BY <1>7, ScanSkipEffect DEF Scanning, Resumes
  <2> QED
    BY <2>1 DEF PendingInv, Working
<1>8. CASE ScanTake
  BY <1>8, ScanTakeKeepsPendingInv
<1>9. CASE UNCHANGED vars
  BY <1>9 DEF vars, members, locals, PendingInv
<1> QED
  BY <1>1, <1>2, <1>3, <1>4, <1>5, <1>6, <1>7, <1>8, <1>9, NextCases

-----------------------------------------------------------------------------
(* During the first call a finished entry of the stream is never written   *)
(* again, for every document, also one in which the scan takes an entry    *)
(* for the wrong child: only a placeholder is ever filled.                 *)
THEOREM WrittenOnce == Spec => EntriesWrittenOnce
<1> DEFINE KeptEntries ==
      calls = 1 =>
        \A p \in DOMAIN encodeStream_ :
          encodeStream_[p].data # NULL =>
            /\ p \in DOMAIN encodeStream_'
            /\ encodeStream_'[p] = encodeStream_[p]
<1>1. ASSUME IInv, PendingInv, [Next]_vars PROVE KeptEntries
  <2>1. encodeStream_ \in Seq(Entry) /\ DOMAIN encodeStream_ = 1 .. Len(encodeStream_)
    BY <1>1 DEF IInv, TypeOK
  <2>2. CASE VisitPrimitive
    <3>1. PICK e \in Entry : encodeStream_' = Append(encodeStream_, e)
      BY <1>1, <2>2, EmitEffect
    <3> QED
      BY <2>1, <3>1
  <2>3. CASE VisitComposite
    <3>1. PICK e \in Entry : encodeStream_' = Append(encodeStream_, e)
      BY <1>1, <2>3, VisitCompositeEffect
    <3> QED
      BY <2>1, <3>1
  <2>4. CASE ScanTake
    <3>1. PICK e : encodeStream_' = [encodeStream_ EXCEPT ![scan.pos] = e]
                    \/ encodeStream_' = encodeStream_
      BY <1>1, <2>4, ScanTakeEffect
    <3>2. calls = 1 => encodeStream_[scan.pos] = Placeholder
      BY <1>1, <2>4, ScanTakeEffect DEF PendingInv, Scanning
    <3>3. calls = 1 => encodeStream_[scan.pos].data = NULL
      BY <3>2 DEF Placeholder
    <3> QED
      BY <2>1, <3>1, <3>3
  <2>5. CASE UNCHANGED encodeStream_
    BY <2>5
  <2>6. CASE UNCHANGED vars
    BY <2>5, <2>6 DEF vars, members
  <2>7. CASE \E r \in DOMAIN heap : Encode(r)
    BY <1>1, <2>5, <2>7, EncodeEffect
  <2>8. CASE OtherAction \/ BeginMeta \/ EncodeFieldName \/ ScanSkip
    BY <1>1, <2>5, <2>8, OtherEffect, BeginMetaEffect, EncodeFieldNameEffect, ScanSkipEffect
  <2> QED
    BY <1>1, <2>2, <2>3, <2>4, <2>6, <2>7, <2>8, NextCases
<1>2. IInv /\ PendingInv /\ [Next]_vars => [KeptEntries]_vars
  BY <1>1
<1>3. IInv /\ PendingInv /\ [Next]_vars => PendingInv'
  BY PendingInvNext
<1> QED
  BY <1>2, <1>3, PendingInvInit, IInvHolds, PTL DEF Spec, EntriesWrittenOnce

-----------------------------------------------------------------------------
(* The bytes of the entries from i to j of a stream.                       *)
BytesOf(s, i, j) == SumFunction([k \in i .. j |-> Len(s[k].bytes)])

LEMMA BytesOfIsSum ==
  ASSUME NEW s, NEW i \in Int, NEW j \in Int, NEW f,
         \A k \in i .. j : f[k] = Len(s[k].bytes)
  PROVE  BytesOf(s, i, j) = SumFunctionOnSet(f, i .. j)
<1> DEFINE g == [k \in i .. j |-> Len(s[k].bytes)]
           I == i .. j
<1>1. BytesOf(s, i, j) = SumFunctionOnSet(g, DOMAIN g) /\ DOMAIN g = I
  BY Zenon DEF BytesOf, SumFunction
<1>2. IsFiniteSet(I)
  BY FS_Interval
<1>3. \A k \in I : g[k] = f[k]
  OBVIOUS
<1> HIDE DEF g, I
<1>4. SumFunctionOnSet(g, I) = SumFunctionOnSet(f, I)
  BY <1>2, <1>3, SumAgree
<1> QED
  BY <1>1, <1>4 DEF I

LEMMA BytesOfNone ==
  ASSUME NEW s, NEW i \in Int, NEW j \in Int, j < i
  PROVE  BytesOf(s, i, j) = 0
<1> DEFINE f == [k \in i .. j |-> Len(s[k].bytes)]
<1>1. BytesOf(s, i, j) = SumFunctionOnSet(f, i .. j)
  <2>1. \A k \in i .. j : f[k] = Len(s[k].bytes)
    OBVIOUS
  <2> HIDE DEF f
  <2> QED
    BY <2>1, BytesOfIsSum
<1>2. i .. j = {}
  OBVIOUS
<1> HIDE DEF f
<1> QED
  BY <1>1, <1>2, SumEmpty

LEMMA BytesOfNext ==
  ASSUME NEW s, NEW i \in Int, NEW j \in Int, i <= j + 1,
         \A k \in i .. j + 1 : Len(s[k].bytes) \in Int
  PROVE  /\ BytesOf(s, i, j) \in Int /\ BytesOf(s, i, j + 1) \in Int
         /\ BytesOf(s, i, j + 1) = BytesOf(s, i, j) + Len(s[j + 1].bytes)
<1> DEFINE f == [k \in i .. j + 1 |-> Len(s[k].bytes)]
           I == i .. j
           J == i .. j + 1
<1>1. /\ IsFiniteSet(I) /\ IsFiniteSet(J) /\ j + 1 \notin I /\ J = I \cup {j + 1}
      /\ \A k \in J : f[k] \in Int /\ f[k] = Len(s[k].bytes)
  <2>1. IsFiniteSet(I) /\ IsFiniteSet(J)
    BY FS_Interval
  <2> QED
    BY <2>1
<1>2. j + 1 \in Int /\ \A k \in i .. j : f[k] = Len(s[k].bytes)
  BY <1>1
<1> HIDE DEF f
<1>3. BytesOf(s, i, j) = SumFunctionOnSet(f, I)
  BY <1>2, BytesOfIsSum
<1>7. BytesOf(s, i, j + 1) = SumFunctionOnSet(f, J)
  BY <1>1, <1>2, BytesOfIsSum
<1> HIDE DEF I, J
<1>4. SumFunctionOnSet(f, I) \in Int /\ SumFunctionOnSet(f, J) \in Int
  BY <1>1, SumType
<1>5. SumFunctionOnSet(f, J) = f[j + 1] + SumFunctionOnSet(f, I)
  BY <1>1, SumAdd
<1>6. f[j + 1] = Len(s[j + 1].bytes) /\ f[j + 1] \in Int
  BY <1>1
<1> QED
  BY <1>3, <1>7, <1>4, <1>5, <1>6

(* Entries side by side.                                                   *)
LEMMA BytesOfJoin ==
  ASSUME NEW s, NEW i \in Int, NEW m \in Int, NEW e \in Int, i <= m, m <= e + 1,
         \A k \in i .. e : Len(s[k].bytes) \in Int
  PROVE  /\ BytesOf(s, i, m - 1) \in Int /\ BytesOf(s, m, e) \in Int
         /\ BytesOf(s, i, e) = BytesOf(s, i, m - 1) + BytesOf(s, m, e)
<1> DEFINE Adds(n) == /\ BytesOf(s, m, m - 1 + n) \in Int
                      /\ BytesOf(s, i, m - 1 + n)
                           = BytesOf(s, i, m - 1) + BytesOf(s, m, m - 1 + n)
           T == {n \in Nat : n <= e + 1 - m => Adds(n)}
<1>1. BytesOf(s, i, m - 1) \in Int
  <2>1. CASE i = m
    <3>1. BytesOf(s, i, m - 1) = 0
      BY <2>1, BytesOfNone
    <3> QED
      BY <3>1
  <2>2. CASE i < m
    <3> DEFINE j == m - 2
    <3>1. j \in Int /\ i <= j + 1 /\ j + 1 = m - 1
      BY <2>2
    <3>2. \A k \in i .. j + 1 : Len(s[k].bytes) \in Int
      BY <3>1
    <3> HIDE DEF j
    <3> QED
      BY <3>1, <3>2, BytesOfNext
  <2> QED
    BY <2>1, <2>2
<1>2. 0 \in T
  <2>1. BytesOf(s, m, m - 1 + 0) = 0 /\ m - 1 + 0 = m - 1
    <3>1. m - 1 + 0 = m - 1 /\ m - 1 \in Int /\ m - 1 < m
      OBVIOUS
    <3>2. BytesOf(s, m, m - 1) = 0
      BY <3>1, BytesOfNone
    <3> QED
      BY <3>1, <3>2
  <2> QED
    BY <1>1, <2>1
<1>3. ASSUME NEW n \in T PROVE n + 1 \in T
  <2>1. SUFFICES ASSUME n + 1 <= e + 1 - m PROVE Adds(n + 1)
    OBVIOUS
  <2> DEFINE j == m - 1 + n
  <2>2. /\ n \in Nat /\ Adds(n) /\ j \in Int /\ m - 1 + (n + 1) = j + 1
        /\ i <= j + 1 /\ m <= j + 1 /\ j + 1 <= e
    BY <2>1
  <2>3. /\ \A k \in i .. j + 1 : Len(s[k].bytes) \in Int
        /\ \A k \in m .. j + 1 : Len(s[k].bytes) \in Int
        /\ Len(s[j + 1].bytes) \in Int
    BY <2>2
  <2>4. BytesOf(s, m, j) \in Int /\ BytesOf(s, i, j) = BytesOf(s, i, m - 1) + BytesOf(s, m, j)
    BY <2>2
  <2> HIDE DEF j
  <2>5. /\ BytesOf(s, i, j + 1) = BytesOf(s, i, j) + Len(s[j + 1].bytes)
        /\ BytesOf(s, m, j + 1) = BytesOf(s, m, j) + Len(s[j + 1].bytes)
        /\ BytesOf(s, m, j + 1) \in Int
    BY <2>2, <2>3, BytesOfNext, ZenonT(30)
  <2>6. BytesOf(s, i, j + 1) = BytesOf(s, i, m - 1) + BytesOf(s, m, j + 1)
    BY <1>1, <2>3, <2>4, <2>5
  <2> QED
    BY <2>2, <2>5, <2>6
<1> HIDE DEF Adds
<1>4. T \in SUBSET Nat /\ 0 \in T /\ \A n \in T : n + 1 \in T
  BY <1>2, <1>3
<1> HIDE DEF T
<1>5. \A n \in Nat : n \in T
  BY <1>4, NatSet
<1>6. e + 1 - m \in Nat /\ e + 1 - m <= e + 1 - m /\ m - 1 + (e + 1 - m) = e
  OBVIOUS
<1>7. Adds(e + 1 - m)
  BY <1>5, <1>6 DEF T
<1> QED
  BY <1>1, <1>6, <1>7 DEF Adds

LEMMA BytesOfFirst ==
  ASSUME NEW s, NEW i \in Int, NEW e \in Int, i <= e,
         \A k \in i .. e : Len(s[k].bytes) \in Int
  PROVE  /\ BytesOf(s, i, i) = Len(s[i].bytes)
         /\ BytesOf(s, i, e) = Len(s[i].bytes) + BytesOf(s, i + 1, e)
<1>1. BytesOf(s, i, i) = Len(s[i].bytes)
  <2> DEFINE j == i - 1
  <2>1. j \in Int /\ i <= j + 1 /\ j + 1 = i /\ j < i
    OBVIOUS
  <2>2. \A k \in i .. j + 1 : Len(s[k].bytes) \in Int
    BY <2>1
  <2>3. Len(s[i].bytes) \in Int
    OBVIOUS
  <2> HIDE DEF j
  <2>4. BytesOf(s, i, j) = 0
    BY <2>1, BytesOfNone
  <2>5. BytesOf(s, i, j + 1) = BytesOf(s, i, j) + Len(s[j + 1].bytes)
    BY <2>1, <2>2, BytesOfNext
  <2> QED
    BY <2>1, <2>3, <2>4, <2>5
<1>2. i + 1 \in Int /\ i <= i + 1 /\ i + 1 <= e + 1 /\ (i + 1) - 1 = i
  OBVIOUS
<1>3. BytesOf(s, i, e) = BytesOf(s, i, (i + 1) - 1) + BytesOf(s, i + 1, e)
  BY <1>2, BytesOfJoin
<1> QED
  BY <1>1, <1>2, <1>3

LEMMA BytesOfAgree ==
  ASSUME NEW s, NEW r, NEW i \in Int, NEW j \in Int,
         \A k \in i .. j : s[k].bytes = r[k].bytes
  PROVE  BytesOf(s, i, j) = BytesOf(r, i, j)
<1> DEFINE f == [k \in i .. j |-> Len(s[k].bytes)]
<1>1. /\ \A k \in i .. j : f[k] = Len(s[k].bytes)
      /\ \A k \in i .. j : f[k] = Len(r[k].bytes)
  OBVIOUS
<1> HIDE DEF f
<1>3. BytesOf(s, i, j) = SumFunctionOnSet(f, i .. j)
  BY <1>1, BytesOfIsSum
<1>4. BytesOf(r, i, j) = SumFunctionOnSet(f, i .. j)
  BY <1>1, BytesOfIsSum
<1> QED
  BY <1>3, <1>4

-----------------------------------------------------------------------------
(* The traversal as a sequence of stacks: St[p] is the TraverseStack when  *)
(* entry p was appended, the object of the entry on top.  The entries of   *)
(* an object and all that is below it end at the first entry at which the  *)
(* stack is shorter than when they began.                                  *)
KidsOf(d) == IF heap[d].type \in CompositeTypes THEN heap[d].kids ELSE <<>>

FromBottom(s, t) == s[Len(s) + 1 - t]

Trace(St) ==
  /\ St \in [1 .. encodingIdx -> Seq(DOMAIN heap)]
  /\ St[1] = <<root>>
  /\ \A p \in 1 .. encodingIdx - 1 :
       St[p] # <<>> /\ St[p + 1] = KidsOf(Head(St[p])) \o Tail(St[p])
  /\ St[encodingIdx] = TraverseStack

IsEnd(St, p, e) ==
  /\ e \in p .. encodingIdx - 1
  /\ Len(St[e + 1]) = Len(St[p]) - 1
  /\ \A x \in p .. e : Len(St[x]) >= Len(St[p])

LEMMA KidsOfTyped ==
  ASSUME IInv, NEW d \in DOMAIN heap
  PROVE  KidsOf(d) \in Seq(DOMAIN heap)
<1>1. heap[d].kids \in Seq(DOMAIN heap)
  BY DocTyped DEF IInv
<1>2. <<>> \in Seq(DOMAIN heap)
  OBVIOUS
<1>3. KidsOf(d) = heap[d].kids \/ KidsOf(d) = <<>>
  BY Zenon DEF KidsOf
<1> QED
  BY <1>1, <1>2, <1>3, Zenon

LEMMA IndexTyped == IInv => encodingIdx \in Nat
  BY DEF IInv, TypeOK

LEMMA TraceTyped ==
  ASSUME IInv, NEW St, Trace(St)
  PROVE  /\ \A q \in 1 .. encodingIdx : St[q] \in Seq(DOMAIN heap)
         /\ \A q \in 1 .. encodingIdx - 1 :
              /\ q \in 1 .. encodingIdx /\ St[q] # <<>>
              /\ St[q + 1] = KidsOf(Head(St[q])) \o Tail(St[q])
         /\ St[encodingIdx] = TraverseStack
<1>1. St \in [1 .. encodingIdx -> Seq(DOMAIN heap)] /\ encodingIdx \in Nat
  BY IndexTyped DEF Trace
<1>2. \A q \in 1 .. encodingIdx - 1 :
        St[q] # <<>> /\ St[q + 1] = KidsOf(Head(St[q])) \o Tail(St[q])
  BY DEF Trace
<1>3. St[encodingIdx] = TraverseStack
  BY DEF Trace
<1>4. \A q \in 1 .. encodingIdx - 1 : q \in 1 .. encodingIdx
  BY <1>1
<1> QED
  BY <1>1, <1>2, <1>3, <1>4

(* Pushing k on the rest of s leaves what lies below where it is.          *)
LEMMA PushOnRest ==
  ASSUME NEW S, NEW s \in Seq(S), s # <<>>, NEW k \in Seq(S)
  PROVE  /\ k \o Tail(s) \in Seq(S)
         /\ Len(s) \in Nat /\ Len(s) > 0 /\ Len(k) \in Nat
         /\ Len(k \o Tail(s)) = Len(k) + Len(s) - 1
         /\ \A t \in 1 .. Len(s) - 1 : FromBottom(k \o Tail(s), t) = FromBottom(s, t)
         /\ \A j \in 1 .. Len(k) : FromBottom(k \o Tail(s), Len(s) + Len(k) - j) = k[j]
<1> DEFINE r == k \o Tail(s)
<1>1. /\ Len(s) \in Nat /\ Len(s) > 0 /\ Len(k) \in Nat
      /\ Tail(s) \in Seq(S) /\ Len(Tail(s)) = Len(s) - 1
      /\ \A j \in 1 .. Len(s) - 1 : Tail(s)[j] = s[j + 1]
  BY HeadTailProperties
<1>2. /\ r \in Seq(S) /\ Len(r) = Len(k) + (Len(s) - 1)
      /\ \A j \in 1 .. Len(r) : r[j] = IF j <= Len(k) THEN k[j] ELSE Tail(s)[j - Len(k)]
  BY <1>1, ConcatProperties
<1> HIDE DEF r
<1>3. ASSUME NEW t \in 1 .. Len(s) - 1 PROVE FromBottom(r, t) = FromBottom(s, t)
  <2> DEFINE j == Len(r) + 1 - t
  <2>1. /\ j \in 1 .. Len(r) /\ ~ (j <= Len(k)) /\ j - Len(k) \in 1 .. Len(s) - 1
        /\ j - Len(k) + 1 = Len(s) + 1 - t
    BY <1>1, <1>2
  <2>2. r[j] = Tail(s)[j - Len(k)]
    BY <1>2, <2>1
  <2>3. Tail(s)[j - Len(k)] = s[j - Len(k) + 1]
    BY <1>1, <2>1
  <2> QED
    BY <2>1, <2>2, <2>3 DEF FromBottom
<1>4. ASSUME NEW j \in 1 .. Len(k) PROVE FromBottom(r, Len(s) + Len(k) - j) = k[j]
  <2>1. Len(r) + 1 - (Len(s) + Len(k) - j) = j /\ j \in 1 .. Len(r) /\ j <= Len(k)
    BY <1>1, <1>2
  <2> QED
    BY <1>2, <2>1 DEF FromBottom
<1>5. Len(r) = Len(k) + Len(s) - 1
  BY <1>1, <1>2
<1> QED
  BY <1>1, <1>2, <1>3, <1>4, <1>5 DEF r

LEMMA TraceStep ==
  ASSUME IInv, NEW St, Trace(St), NEW p \in 1 .. encodingIdx - 1
  PROVE  /\ Len(St[p]) \in Nat /\ Len(St[p]) > 0 /\ Head(St[p]) \in DOMAIN heap
         /\ KidsOf(Head(St[p])) \in Seq(DOMAIN heap)
         /\ Len(KidsOf(Head(St[p]))) \in Nat
         /\ Len(St[p + 1]) = Len(KidsOf(Head(St[p]))) + Len(St[p]) - 1
         /\ \A t \in 1 .. Len(St[p]) - 1 : FromBottom(St[p + 1], t) = FromBottom(St[p], t)
         /\ \A j \in 1 .. Len(KidsOf(Head(St[p]))) :
              FromBottom(St[p + 1], Len(St[p]) + Len(KidsOf(Head(St[p]))) - j)
                = KidsOf(Head(St[p]))[j]
<1> DEFINE s == St[p]
           k == KidsOf(Head(s))
<1>2. s \in Seq(DOMAIN heap) /\ s # <<>> /\ St[p + 1] = k \o Tail(s)
  BY TraceTyped
<1>3. Head(s) \in DOMAIN heap
  BY <1>2, HeadTailProperties
<1>4. k \in Seq(DOMAIN heap)
  BY <1>3, KidsOfTyped
<1> HIDE DEF s, k
<1>5. /\ Len(s) \in Nat /\ Len(s) > 0 /\ Len(k) \in Nat
      /\ Len(St[p + 1]) = Len(k) + Len(s) - 1
      /\ \A t \in 1 .. Len(s) - 1 : FromBottom(St[p + 1], t) = FromBottom(s, t)
      /\ \A j \in 1 .. Len(k) : FromBottom(St[p + 1], Len(s) + Len(k) - j) = k[j]
  BY <1>2, <1>4, PushOnRest
<1> QED
  BY <1>3, <1>4, <1>5 DEF s, k

(* As long as the stack is higher than m its lowest m elements stay.       *)
LEMMA BottomStays ==
  ASSUME IInv, NEW St, Trace(St), NEW p \in 1 .. encodingIdx, NEW q \in p .. encodingIdx,
         NEW m \in Nat, \A x \in p .. q - 1 : Len(St[x]) > m,
         NEW t \in 1 .. m
  PROVE  FromBottom(St[q], t) = FromBottom(St[p], t)
<1> DEFINE T == {n \in Nat : n <= q - p => FromBottom(St[p + n], t) = FromBottom(St[p], t)}
<1>1. encodingIdx \in Nat /\ p \in Nat /\ q \in Nat /\ q - p \in Nat
  BY SMTT(30) DEF IInv, TypeOK
<1>2. 0 \in T
  <2>1. p + 0 = p
    BY <1>1
  <2> QED
    BY <2>1
<1>3. ASSUME NEW n \in T PROVE n + 1 \in T
  <2>1. SUFFICES ASSUME n + 1 <= q - p
                 PROVE  FromBottom(St[p + (n + 1)], t) = FromBottom(St[p], t)
    OBVIOUS
  <2> DEFINE x == p + n
  <2>2. /\ n \in Nat /\ x \in p .. q - 1 /\ x \in 1 .. encodingIdx - 1 /\ p + (n + 1) = x + 1
        /\ FromBottom(St[x], t) = FromBottom(St[p], t)
    BY <1>1, <2>1
  <2> HIDE DEF x, T
  <2>3. Len(St[x]) > m /\ Len(St[x]) \in Nat
    BY <2>2, TraceStep
  <2>4. t \in 1 .. Len(St[x]) - 1
    BY <2>3
  <2>5. FromBottom(St[x + 1], t) = FromBottom(St[x], t)
    BY <2>2, <2>4, TraceStep
  <2> QED
    BY <2>2, <2>5
<1>4. T \in SUBSET Nat /\ 0 \in T /\ \A n \in T : n + 1 \in T
  BY <1>2, <1>3
<1> HIDE DEF T
<1>5. \A n \in Nat : n \in T
  BY <1>4, NatSet
<1>6. q - p \in T /\ q - p <= q - p /\ p + (q - p) = q
  BY <1>1, <1>5
<1> QED
  BY <1>6 DEF T

(* Where a child is found: the first entry behind its parent at which the  *)
(* stack is no higher than the child and those after it make it.           *)
ChildBegins(St, p, f, i) ==
  /\ i \in p + 1 .. encodingIdx - 1
  /\ Len(St[i]) = Len(St[p]) + Len(KidsOf(Head(St[p]))) - f
  /\ \A x \in p + 1 .. i - 1 : Len(St[x]) > Len(St[i])

LEMMA ChildFound ==
  ASSUME IInv, NEW St, Trace(St), NEW p \in 1 .. encodingIdx - 1,
         NEW f \in 1 .. Len(KidsOf(Head(St[p]))), NEW i, ChildBegins(St, p, f, i)
  PROVE  Head(St[i]) = KidsOf(Head(St[p]))[f]
<1> DEFINE k == KidsOf(Head(St[p]))
           n == Len(St[i])
<1>1. /\ encodingIdx \in Nat /\ i \in p + 1 .. encodingIdx - 1 /\ i \in 1 .. encodingIdx - 1
      /\ p + 1 \in 1 .. encodingIdx /\ i \in p + 1 .. encodingIdx
  <2>1. i \in p + 1 .. encodingIdx - 1 /\ encodingIdx \in Nat
    BY IndexTyped DEF ChildBegins
  <2> QED
    BY <2>1
<1>2. Len(St[p]) \in Nat /\ Len(St[p]) > 0 /\ Len(k) \in Nat /\ n \in Nat /\ n > 0
  BY <1>1, TraceStep
<1>3. FromBottom(St[p + 1], Len(St[p]) + Len(k) - f) = k[f]
  BY TraceStep
<1>4. n = Len(St[p]) + Len(k) - f /\ \A x \in p + 1 .. i - 1 : Len(St[x]) > n
  BY DEF ChildBegins
<1> HIDE DEF k, n
<1>5. n \in 1 .. n
  BY <1>2
<1>6. FromBottom(St[i], n) = FromBottom(St[p + 1], n)
  BY <1>1, <1>2, <1>4, <1>5, BottomStays
<1>7. FromBottom(St[i], n) = Head(St[i])
  <2>1. St[i] \in Seq(DOMAIN heap) /\ St[i] # <<>>
    BY <1>1, TraceTyped
  <2>2. n + 1 - n = 1 /\ Head(St[i]) = St[i][1]
    BY <1>2, <2>1
  <2> QED
    BY <2>2 DEF FromBottom, n
<1> QED
  BY <1>3, <1>4, <1>6, <1>7 DEF k

LEMMA FirstChildBegins ==
  ASSUME IInv, NEW St, Trace(St), NEW p \in 1 .. encodingIdx - 1, p + 1 <= encodingIdx - 1
  PROVE  ChildBegins(St, p, 1, p + 1)
<1>1. p + 1 \in p + 1 .. encodingIdx - 1 /\ \A x \in p + 1 .. (p + 1) - 1 : FALSE
  BY IndexTyped
<1> DEFINE k == Len(KidsOf(Head(St[p])))
           b == Len(St[p])
<1>2. Len(St[p + 1]) = k + b - 1
  BY TraceStep
<1>3. k \in Nat /\ b \in Nat
  BY TraceStep
<1> HIDE DEF k, b
<1>4. Len(St[p + 1]) = b + k - 1
  BY <1>2, <1>3
<1>5. Len(St[p + 1]) = Len(St[p]) + Len(KidsOf(Head(St[p]))) - 1
  BY <1>4 DEF k, b
<1> QED
  BY <1>1, <1>5 DEF ChildBegins

(* A primitive is one entry; the entries of a child end where the next     *)
(* child begins, those of the last child where the parent's end.           *)
LEMMA PrimitiveEnds ==
  ASSUME IInv, NEW St, Trace(St), NEW i \in 1 .. encodingIdx - 1,
         heap[Head(St[i])].type \notin CompositeTypes
  PROVE  IsEnd(St, i, i)
<1>1. KidsOf(Head(St[i])) = <<>> /\ Len(<<>>) = 0
  BY DEF KidsOf
<1>2. Len(St[i]) \in Nat /\ Len(St[i + 1]) = 0 + Len(St[i]) - 1
  <2>1. /\ Len(St[i]) \in Nat
        /\ Len(St[i + 1]) = Len(KidsOf(Head(St[i]))) + Len(St[i]) - 1
    BY TraceStep
  <2>2. Len(KidsOf(Head(St[i]))) = 0
    BY <1>1
  <2> QED
    BY <2>1, <2>2
<1>3. i \in i .. encodingIdx - 1 /\ \A x \in i .. i : x = i
  BY IndexTyped
<1> QED
  BY <1>2, <1>3 DEF IsEnd

LEMMA NextChildBegins ==
  ASSUME IInv, NEW St, Trace(St), TraverseStack = <<>>, NEW p \in 1 .. encodingIdx - 1,
         NEW f \in 1 .. Len(KidsOf(Head(St[p]))), NEW i, ChildBegins(St, p, f, i),
         NEW e, IsEnd(St, i, e)
  PROVE  /\ e \in p .. encodingIdx - 1 /\ i \in p + 1 .. e
         /\ f < Len(KidsOf(Head(St[p]))) => ChildBegins(St, p, f + 1, e + 1)
         /\ f = Len(KidsOf(Head(St[p]))) => IsEnd(St, p, e)
<1> DEFINE k == Len(KidsOf(Head(St[p])))
           n == Len(St[i])
           b == Len(St[p])
<1>1. /\ encodingIdx \in Nat /\ i \in p + 1 .. encodingIdx - 1 /\ i \in 1 .. encodingIdx - 1
      /\ e \in i .. encodingIdx - 1
  <2>1. i \in p + 1 .. encodingIdx - 1 /\ e \in i .. encodingIdx - 1 /\ encodingIdx \in Nat
    BY IndexTyped DEF ChildBegins, IsEnd
  <2> QED
    BY <2>1
<1>2. b \in Nat /\ b > 0 /\ k \in Nat /\ n \in Nat /\ n > 0
  BY <1>1, TraceStep
<1>3. /\ n = b + k - f /\ Len(St[e + 1]) = n - 1
      /\ \A x \in p + 1 .. i - 1 : Len(St[x]) > n
      /\ \A x \in i .. e : Len(St[x]) >= n
  BY DEF ChildBegins, IsEnd
<1> HIDE DEF k, n, b
<1>4. ASSUME NEW x \in p + 1 .. e PROVE Len(St[x]) >= n /\ Len(St[x]) \in Nat
  <2>1. x \in p + 1 .. i - 1 \/ x \in i .. e
    BY <1>1
  <2>2. x \in 1 .. encodingIdx - 1
    BY <1>1
  <2>3. Len(St[x]) \in Nat
    BY <2>2, TraceStep
  <2> QED
    BY <1>2, <1>3, <2>1, <2>3
<1>5. ASSUME f < k PROVE ChildBegins(St, p, f + 1, e + 1)
  <2>1. Len(St[e + 1]) > 0
    BY <1>2, <1>3, <1>5
  <2>2. e + 1 # encodingIdx
    <3>1. Len(St[encodingIdx]) = 0
      BY DEF Trace
    <3> QED
      BY <2>1, <3>1
  <2>3. e + 1 \in p + 1 .. encodingIdx - 1
    BY <1>1, <2>2
  <2>4. \A x \in p + 1 .. (e + 1) - 1 : Len(St[x]) > Len(St[e + 1])
    <3>1. (e + 1) - 1 = e
      BY <1>1
    <3> QED
      BY <1>2, <1>3, <1>4, <3>1
  <2>5. Len(St[e + 1]) = b + k - (f + 1)
    BY <1>2, <1>3
  <2> QED
    BY <2>3, <2>4, <2>5 DEF ChildBegins, b, k
<1>6. ASSUME f = k PROVE IsEnd(St, p, e)
  <2>1. n = b
    BY <1>2, <1>3, <1>6
  <2>2. ASSUME NEW x \in p .. e PROVE Len(St[x]) >= b
    <3>1. x = p \/ x \in p + 1 .. e
      BY <1>1
    <3>2. Len(St[p]) >= b
      BY <1>2 DEF b
    <3> QED
      BY <1>4, <2>1, <3>1, <3>2
  <2>3. e \in p .. encodingIdx - 1
    BY <1>1
  <2> QED
    BY <1>3, <2>1, <2>2, <2>3 DEF IsEnd, b
<1> QED
  BY <1>1, <1>5, <1>6 DEF k

-----------------------------------------------------------------------------
(* The layout of the stream, for a document in which no composite holds    *)
(* its last child twice: the root is in a set of objects none of which     *)
(* does, and which holds the children of each.  The entries are those of   *)
(* the trace; a composite is pending, or its entry is filled and what was  *)
(* recorded of it is right.                                                *)
OnceLastIn(C) ==
  /\ C \subseteq DOMAIN heap /\ root \in C
  /\ \A d \in C : heap[d].kids \in Seq(C) /\ ~ LastChildTwice(heap[d])

OnceLast == \E C \in SUBSET DOMAIN heap : OnceLastIn(C)

IsComposite(d) == heap[d].type \in CompositeTypes

Pending ==
  {MetaStack[m].pos : m \in 1 .. Len(MetaStack)}
    \cup (IF pc \in {"names", "scan"} THEN {scan.pos} ELSE {})

Visited(St) ==
  /\ encodingIdx = Len(encodeStream_) + 1
  /\ \A p \in 1 .. encodingIdx - 1 :
       ~ IsComposite(Head(St[p])) =>
         isPrimitive(heap[Head(St[p])]) /\ encodeStream_[p].data = Head(St[p])
  /\ \A m \in 1 .. Len(MetaStack) : MetaStack[m].data = Head(St[MetaStack[m].pos])

FilledAt(St, p) ==
  /\ p \in 1 .. encodingIdx - 1 /\ p \in DOMAIN meta_offset
  /\ IsEnd(St, p, meta_offset[p])
  /\ encodeStream_[p].data = Head(St[p])
  /\ \A y \in Pending : y < p
  /\ meta_size_offset[p] = BytesOf(encodeStream_, p, meta_offset[p])

(* EncodingMeta looks for child `field` at the entry where it begins, and  *)
(* nestedsize is what the entries of the children before it take.          *)
ScanAt(St) ==
  /\ pc \in {"names", "scan"} => scan.data = Head(St[scan.pos]) /\ IsComposite(scan.data)
  /\ pc = "names" => scan.i = scan.pos + 1 /\ scan.nestedsize = 0
  /\ pc = "scan" =>
       /\ ChildBegins(St, scan.pos, scan.field, scan.i)
       /\ scan.nestedsize = BytesOf(encodeStream_, scan.pos + 1, scan.i - 1)

AllPlaced(St) ==
  \A p \in 1 .. encodingIdx - 1 :
    IsComposite(Head(St[p])) => p \in Pending \/ p \in DOMAIN meta_size_offset

Layout(St) ==
  /\ Trace(St) /\ Visited(St) /\ ScanAt(St)
  /\ \A p \in DOMAIN meta_size_offset : FilledAt(St, p)
  /\ pc = "traverse" => DOMAIN meta_size_offset = {}
  /\ pc \in Working \cup {"sum", "returned"} => AllPlaced(St)
  /\ pc \in {"sum", "returned"} => MetaStack = <<>>

LayoutInv == calls = 1 /\ OnceLast => \E St : Layout(St)

-----------------------------------------------------------------------------
LEMMA NoPrimitive ==
  ASSUME NEW d, IsComposite(d)
  PROVE  ~ isPrimitive(heap[d])
  BY CompositeHasCode DEF isPrimitive, IsComposite

(* The scan stands at the child it looks for, and the child is filled.     *)
LEMMA ScanFinds ==
  ASSUME IInv, PendingInv, calls = 1, NEW St, Layout(St), Scanning
  PROVE  /\ encodingIdx = Len(encodeStream_) + 1 /\ encodingIdx \in Nat
         /\ TraverseStack = <<>> /\ scan.pos \in 1 .. encodingIdx - 1
         /\ scan.i \in scan.pos + 1 .. encodingIdx - 1 /\ scan.i \in 1 .. encodingIdx - 1
         /\ scan.data = Head(St[scan.pos])
         /\ KidsOf(scan.data) = heap[scan.data].kids
         /\ scan.field \in 1 .. Len(KidsOf(scan.data)) /\ Len(KidsOf(scan.data)) \in Nat
         /\ ChildBegins(St, scan.pos, scan.field, scan.i)
         /\ DataTraverse = Head(St[scan.i]) /\ DataTraverse \in DOMAIN heap
         /\ Scanned.data = DataTraverse
         /\ ~ TakesPrimitive => scan.i \in DOMAIN meta_size_offset /\ FilledAt(St, scan.i)
         /\ IsEnd(St, scan.i, TakenEnd)
         /\ TakenEnds = meta_offset /\ TakenSizes = meta_size_offset
<1>1. /\ pc = "scan" /\ DataTraverse \in DOMAIN heap /\ scan.pos \in 1 .. Len(encodeStream_)
      /\ scan.field \in 1 .. numofElements(heap[scan.data])
      /\ numofElements(heap[scan.data]) \in Nat
  BY ScanningFacts
<1>2. TraverseStack = <<>> /\ encodingIdx \in Nat /\ encodingIdx = Len(encodeStream_) + 1
  BY <1>1, IndexTyped DEF IInv, StackInv, Layout, Visited
<1>3. /\ scan.data = Head(St[scan.pos]) /\ IsComposite(scan.data) /\ Trace(St)
      /\ ChildBegins(St, scan.pos, scan.field, scan.i)
  BY <1>1 DEF Layout, ScanAt
<1>4. scan.pos \in 1 .. encodingIdx - 1 /\ scan.pos \in Nat
  BY <1>1, <1>2
<1>5. KidsOf(scan.data) = heap[scan.data].kids
  BY <1>3 DEF KidsOf, IsComposite
<1>6. /\ scan.field \in 1 .. Len(KidsOf(scan.data)) /\ Len(KidsOf(scan.data)) \in Nat
  BY <1>1, <1>5 DEF numofElements
<1>7. scan.i \in scan.pos + 1 .. encodingIdx - 1 /\ scan.i \in 1 .. encodingIdx - 1
      /\ scan.i > scan.pos /\ scan.i \in Nat
  <2>1. scan.i \in scan.pos + 1 .. encodingIdx - 1
    BY <1>3 DEF ChildBegins
  <2> QED
    BY <1>2, <1>4, <2>1
<1>8. DataTraverse = Head(St[scan.i])
  <2>1. Head(St[scan.i]) = KidsOf(scan.data)[scan.field]
    BY <1>3, <1>4, <1>6, ChildFound
  <2> QED
    BY <1>5, <2>1 DEF DataTraverse
<1>9. TakesPrimitive <=> ~ IsComposite(Head(St[scan.i]))
  BY <1>1, <1>2, <1>7, <1>8, NoPrimitive DEF TakesPrimitive, Layout, Visited
<1>10. ~ TakesPrimitive => scan.i \in DOMAIN meta_size_offset /\ FilledAt(St, scan.i)
  <2>1. ASSUME ~ TakesPrimitive PROVE scan.i \in DOMAIN meta_size_offset
    <3>1. scan.i \in Pending \/ scan.i \in DOMAIN meta_size_offset
      BY <1>1, <1>7, <1>9, <2>1 DEF Layout, AllPlaced, Working
    <3>2. ASSUME NEW y \in Pending PROVE y <= scan.pos
      <4>1. y = scan.pos \/ \E m \in 1 .. Len(MetaStack) : y = MetaStack[m].pos
        BY <1>1 DEF Pending
      <4>2. \A m \in 1 .. Len(MetaStack) : MetaStack[m].pos < scan.pos
        BY <1>1 DEF PendingInv
      <4>3. \A m \in 1 .. Len(MetaStack) : MetaStack[m].pos \in 1 .. encodingIdx - 1
        BY DEF IInv, StackInv
      <4> QED
        BY <1>2, <1>4, <4>1, <4>2, <4>3
    <3> QED
      BY <1>4, <1>7, <3>1, <3>2
  <2> QED
    BY <2>1 DEF Layout
<1>11. Scanned.data = DataTraverse
  <2>1. TakesPrimitive => encodeStream_[scan.i].data = Head(St[scan.i])
    BY <1>7, <1>9 DEF Layout, Visited
  <2>2. ~ TakesPrimitive => encodeStream_[scan.i].data = Head(St[scan.i])
    BY <1>10 DEF FilledAt
  <2> QED
    BY <1>8, <2>1, <2>2 DEF Scanned
<1>12. IsEnd(St, scan.i, TakenEnd) /\ TakenEnds = meta_offset /\ TakenSizes = meta_size_offset
  <2>1. CASE TakesPrimitive
    <3>1. IsEnd(St, scan.i, scan.i)
      BY <1>3, <1>7, <1>9, <2>1, PrimitiveEnds DEF IsComposite
    <3> QED
      BY <2>1, <3>1 DEF TakenEnd, TakenEnds, TakenSizes
  <2>2. CASE ~ TakesPrimitive
    <3>1. /\ scan.i \in DOMAIN meta_offset /\ scan.i \in DOMAIN meta_size_offset
          /\ IsEnd(St, scan.i, meta_offset[scan.i])
      BY <1>10, <2>2 DEF FilledAt
    <3>2. TakenEnds = meta_offset /\ TakenSizes = meta_size_offset
      BY <2>2, <3>1 DEF TakenEnds, TakenSizes, Touch
    <3> QED
      BY <2>2, <3>1, <3>2 DEF TakenEnd
  <2> QED
    BY <2>1, <2>2
<1> QED
  BY <1>1, <1>2, <1>3, <1>4, <1>5, <1>6, <1>7, <1>8, <1>10, <1>11, <1>12

(* What is added to nestedsize are the bytes of the child's entries.       *)
LEMMA EntryLengths ==
  ASSUME NEW s \in Seq(Entry)
  PROVE  \A k \in 1 .. Len(s) : Len(s[k].bytes) \in Int
<1>1. ASSUME NEW k \in 1 .. Len(s) PROVE Len(s[k].bytes) \in Int
  <2>1. s[k] \in Entry
    BY ElementOfSeq
  <2>2. s[k].bytes \in Seq(Byte)
    BY <2>1 DEF Entry
  <2> QED
    BY <2>2
<1> QED
  BY <1>1

LEMMA StreamTyped == IInv => encodeStream_ \in Seq(Entry)
  BY DEF IInv, TypeOK

LEMMA TakenBytes ==
  ASSUME IInv, PendingInv, calls = 1, NEW St, Layout(St), Scanning
  PROVE  TakenSize = BytesOf(encodeStream_, scan.i, TakenEnd)
<1>1. /\ encodingIdx = Len(encodeStream_) + 1 /\ encodingIdx \in Nat
      /\ scan.i \in 1 .. encodingIdx - 1
      /\ ~ TakesPrimitive => scan.i \in DOMAIN meta_size_offset /\ FilledAt(St, scan.i)
      /\ TakenEnds = meta_offset /\ TakenSizes = meta_size_offset
  BY ScanFinds
<1>2. CASE TakesPrimitive
  <2>1. TakenSize = Len(encodeStream_[scan.i].bytes) /\ TakenEnd = scan.i
    BY <1>2 DEF TakenSize, TakenEnd, Scanned
  <2>2. scan.i \in Int /\ \A k \in scan.i .. scan.i : Len(encodeStream_[k].bytes) \in Int
    <3>1. \A k \in 1 .. Len(encodeStream_) : Len(encodeStream_[k].bytes) \in Int
      BY StreamTyped, EntryLengths
    <3> QED
      BY <1>1, <3>1
  <2>3. scan.i <= scan.i
    BY <2>2
  <2>4. BytesOf(encodeStream_, scan.i, scan.i) = Len(encodeStream_[scan.i].bytes)
    BY <2>2, <2>3, BytesOfFirst
  <2> QED
    BY <2>1, <2>4
<1>3. CASE ~ TakesPrimitive
  BY <1>1, <1>3 DEF TakenSize, TakenEnd, FilledAt
<1> QED
  BY <1>2, <1>3

-----------------------------------------------------------------------------
(* Every step of a first call keeps the layout.                            *)
LEMMA EncodeMakesLayout ==
  ASSUME IInv, PendingInv, NEW r \in DOMAIN heap, Encode(r), calls' = 1
  PROVE  \E St : Layout(St)'
<1>1. /\ calls' = calls + 1 /\ calls \in Nat /\ root' = r /\ pc' = "traverse"
      /\ TraverseStack' = <<r>> /\ MetaStack' = <<>> /\ encodingIdx' = 1
      /\ UNCHANGED <<heap, encodeStream_, meta_offset, meta_size_offset>>
  BY EncodeEffect
<1>2. encodeStream_' = <<>> /\ DOMAIN meta_size_offset' = {}
  BY <1>1 DEF PendingInv
<1>3. PICK St : St = [x \in 1 .. 1 |-> <<r>>]
  OBVIOUS
<1>4. /\ St \in [1 .. 1 -> Seq(DOMAIN heap)] /\ St[1] = <<r>>
      /\ \A p \in 1 .. 1 - 1 : FALSE
  BY <1>3
<1>5. Trace(St)'
  BY <1>1, <1>4 DEF Trace
<1>6. Visited(St)'
  BY <1>1, <1>2, <1>4 DEF Visited
<1>7. ScanAt(St)' /\ AllPlaced(St)'
  BY <1>1, <1>4 DEF ScanAt, AllPlaced
<1> QED
  BY <1>1, <1>2, <1>5, <1>6, <1>7 DEF Layout

LEMMA ExtendTrace ==
  ASSUME IInv, NEW St, Trace(St), TraverseStack # <<>>, UNCHANGED <<heap, root>>,
         encodingIdx' = encodingIdx + 1,
         TraverseStack' = KidsOf(Top) \o Tail(TraverseStack),
         NEW S, S = [x \in 1 .. encodingIdx + 1 |->
                       IF x <= encodingIdx THEN St[x] ELSE TraverseStack']
  PROVE  /\ Trace(S)' /\ Head(S[encodingIdx]) = Top
         /\ \A p \in 1 .. encodingIdx : S[p] = St[p]
<1>1. /\ encodingIdx \in Nat /\ encodingIdx >= 1 /\ 1 \in 1 .. encodingIdx
      /\ encodingIdx + 1 \in 1 .. encodingIdx + 1 /\ encodingIdx \in 1 .. encodingIdx
  <2>1. encodingIdx \in 1 .. Len(encodeStream_) + 1
    BY DEF IInv, StackInv
  <2> QED
    BY <2>1, IndexTyped
<1>2. /\ \A p \in 1 .. encodingIdx : p \in 1 .. encodingIdx + 1 /\ p <= encodingIdx
      /\ ~ (encodingIdx + 1 <= encodingIdx)
      /\ \A x \in 1 .. encodingIdx + 1 : x \in 1 .. encodingIdx \/ x = encodingIdx + 1
  BY <1>1
<1>3. /\ \A p \in 1 .. encodingIdx : S[p] = St[p]
      /\ S[encodingIdx + 1] = TraverseStack'
  BY <1>1, <1>2
<1>4. St[encodingIdx] = TraverseStack /\ St[1] = <<root>>
  BY DEF Trace
<1>5. TraverseStack' \in Seq(DOMAIN heap)
  <2>1. TraverseStack \in Seq(DOMAIN heap)
    BY DEF IInv, TypeOK
  <2>2. Top \in DOMAIN heap
    BY <2>1, HeadTailProperties DEF Top
  <2>3. KidsOf(Top) \in Seq(DOMAIN heap)
    BY <2>2, KidsOfTyped
  <2> QED
    BY <2>1, <2>3, PushOnRest
<1>6. S \in [1 .. encodingIdx + 1 -> Seq(DOMAIN heap)]
  <2>1. \A x \in 1 .. encodingIdx + 1 : S[x] \in Seq(DOMAIN heap)
    BY <1>2, <1>3, <1>5, TraceTyped
  <2> QED
    BY <2>1
<1>7. Head(S[encodingIdx]) = Top
  BY <1>1, <1>3, <1>4 DEF Top
<1>8. ASSUME NEW p \in 1 .. encodingIdx
      PROVE  S[p] # <<>> /\ S[p + 1] = KidsOf(Head(S[p])) \o Tail(S[p])
  <2>1. CASE p = encodingIdx
    BY <1>1, <1>3, <1>4, <1>7, <2>1
  <2>2. CASE p # encodingIdx
    <3>1. p \in 1 .. encodingIdx - 1 /\ p + 1 \in 1 .. encodingIdx
      BY <1>1, <2>2
    <3>2. St[p] # <<>> /\ St[p + 1] = KidsOf(Head(St[p])) \o Tail(St[p])
      BY <3>1, TraceTyped
    <3> QED
      BY <1>3, <3>1, <3>2
  <2> QED
    BY <2>1, <2>2
<1>9. /\ S[1] = <<root>> /\ S[encodingIdx + 1] = TraverseStack'
      /\ (encodingIdx + 1) - 1 = encodingIdx
  BY <1>1, <1>3, <1>4
<1>10. \A d : KidsOf(d)' = KidsOf(d)
  BY DEF KidsOf
<1>11. Trace(S)'
  BY <1>6, <1>8, <1>9, <1>10 DEF Trace
<1> QED
  BY <1>3, <1>7, <1>11

LEMMA EmitKeepsLayout ==
  ASSUME IInv, NEW St, Layout(St), VisitPrimitive
  PROVE  \E S : /\ Layout(S)' /\ Head(S[encodingIdx]) = Top
                /\ \A p \in 1 .. encodingIdx : S[p] = St[p]
<1>1. PICK b \in Seq(Byte) :
        /\ encodeStream_' = Append(encodeStream_, [bytes |-> b, data |-> Top])
        /\ [bytes |-> b, data |-> Top] \in Entry
  BY EmitEffect
<1>2. /\ pc = "traverse" /\ TraverseStack # <<>> /\ TraverseStack \in Seq(DOMAIN heap)
      /\ heap[Top].type \in PrimitiveTypes
      /\ TraverseStack' = Tail(TraverseStack)
      /\ encodingIdx' = encodingIdx + 1 /\ encodingIdx \in Nat
      /\ encodeStream_ \in Seq(Entry) /\ Len(encodeStream_) \in Nat
      /\ UNCHANGED <<heap, root, meta_size_offset, pc, MetaStack, scan>>
  BY EmitEffect
<1>3. ~ IsComposite(Top)
  BY <1>2 DEF IsComposite, PrimitiveTypes, NumberTypes, CompositeTypes
<1>4. TraverseStack' = KidsOf(Top) \o Tail(TraverseStack)
  <2>1. KidsOf(Top) = <<>>
    BY <1>3 DEF KidsOf, IsComposite
  <2>2. Tail(TraverseStack) \in Seq(DOMAIN heap)
    BY <1>2, HeadTailProperties
  <2>3. <<>> \o Tail(TraverseStack) = Tail(TraverseStack)
    BY <2>2, ConcatEmptySeq
  <2> QED
    BY <1>2, <2>1, <2>3
<1>5. PICK S : S = [x \in 1 .. encodingIdx + 1 |->
                      IF x <= encodingIdx THEN St[x] ELSE TraverseStack']
  OBVIOUS
<1>6. /\ Trace(S)' /\ Head(S[encodingIdx]) = Top
      /\ \A p \in 1 .. encodingIdx : S[p] = St[p]
  BY <1>2, <1>4, <1>5, ExtendTrace, ZenonT(30) DEF Layout
<1>7. /\ encodingIdx = Len(encodeStream_) + 1 /\ (encodingIdx + 1) - 1 = encodingIdx
      /\ DOMAIN meta_size_offset = {}
      /\ \A p \in 1 .. encodingIdx : p \in 1 .. encodingIdx - 1 \/ p = encodingIdx
      /\ \A m \in 1 .. Len(MetaStack) : MetaStack[m].data = Head(St[MetaStack[m].pos])
      /\ \A p \in 1 .. encodingIdx - 1 :
           /\ ~ IsComposite(Head(St[p])) =>
                isPrimitive(heap[Head(St[p])]) /\ encodeStream_[p].data = Head(St[p])
           /\ IsComposite(Head(St[p])) => p \in Pending
  BY <1>2 DEF Layout, Visited, AllPlaced, Working
<1>8. /\ Len(encodeStream_') = Len(encodeStream_) + 1
      /\ encodeStream_'[encodingIdx].data = Top
      /\ \A p \in 1 .. encodingIdx - 1 : encodeStream_'[p] = encodeStream_[p]
  <2> DEFINE e == [bytes |-> b, data |-> Top]
  <2>1. e \in Entry /\ encodeStream_' = Append(encodeStream_, e) /\ e.data = Top
    BY <1>1
  <2>2. 1 .. encodingIdx - 1 = 1 .. Len(encodeStream_)
    BY <1>2, <1>7
  <2> HIDE DEF e
  <2>3. /\ Len(encodeStream_') = Len(encodeStream_) + 1
        /\ encodeStream_'[Len(encodeStream_) + 1] = e
        /\ \A p \in 1 .. Len(encodeStream_) : encodeStream_'[p] = encodeStream_[p]
    BY <1>2, <2>1, AppendKeepsEntries
  <2> QED
    BY <1>7, <2>1, <2>2, <2>3
<1>9. \A m \in 1 .. Len(MetaStack) : MetaStack[m].pos \in 1 .. encodingIdx - 1
  BY DEF IInv, StackInv
<1>10. \A p \in 1 .. encodingIdx - 1 : p \in 1 .. encodingIdx
  BY <1>2
<1>11. Visited(S)'
  <2>1. ASSUME NEW p \in 1 .. encodingIdx, ~ IsComposite(Head(S[p]))
        PROVE  isPrimitive(heap[Head(S[p])]) /\ encodeStream_'[p].data = Head(S[p])
    <3>1. CASE p = encodingIdx
      BY <1>2, <1>6, <1>8, <3>1 DEF isPrimitive
    <3>2. CASE p \in 1 .. encodingIdx - 1
      BY <1>6, <1>7, <1>8, <2>1, <3>2
    <3> QED
      BY <1>7, <3>1, <3>2
  <2>2. ASSUME NEW m \in 1 .. Len(MetaStack) PROVE MetaStack[m].data = Head(S[MetaStack[m].pos])
    BY <1>6, <1>7, <1>9, <1>10
  <2> QED
    BY <1>2, <1>7, <1>8, <2>1, <2>2 DEF Visited, IsComposite
<1>12. AllPlaced(S)'
  <2>1. Pending' = Pending
    BY <1>2 DEF Pending
  <2>2. ASSUME NEW p \in 1 .. encodingIdx, IsComposite(Head(S[p])) PROVE p \in Pending
    <3>1. p # encodingIdx
      BY <1>3, <1>6, <2>2
    <3> QED
      BY <1>6, <1>7, <2>2, <3>1
  <2> QED
    BY <1>2, <1>7, <2>1, <2>2 DEF AllPlaced, IsComposite
<1>13. ScanAt(S)'
  BY <1>2 DEF ScanAt
<1>14. Layout(S)'
  BY <1>2, <1>6, <1>7, <1>11, <1>12, <1>13 DEF Layout
<1> QED
  BY <1>6, <1>14

LEMMA VisitCompositeKeepsLayout ==
  ASSUME IInv, NEW St, Layout(St), VisitComposite
  PROVE  \E S : /\ Layout(S)' /\ Head(S[encodingIdx]) = Top
                /\ \A p \in 1 .. encodingIdx : S[p] = St[p]
<1>1. /\ pc = "traverse" /\ TraverseStack # <<>> /\ TraverseStack \in Seq(DOMAIN heap)
      /\ IsComposite(Top)
      /\ encodeStream_' = Append(encodeStream_, Placeholder) /\ Placeholder \in Entry
      /\ Len(MetaStack) \in Nat /\ Len(MetaStack') = Len(MetaStack) + 1
      /\ MetaStack'[1].data = Top /\ MetaStack'[1].pos = encodingIdx
      /\ \A m \in 2 .. Len(MetaStack') : MetaStack'[m] = MetaStack[m-1]
      /\ TraverseStack' = heap[Top].kids \o Tail(TraverseStack)
      /\ encodingIdx' = encodingIdx + 1 /\ encodingIdx \in Nat
      /\ encodeStream_ \in Seq(Entry) /\ Len(encodeStream_) \in Nat
      /\ UNCHANGED <<heap, root, meta_size_offset, pc, scan>>
  BY VisitCompositeEffect DEF IsComposite
<1>2. TraverseStack' = KidsOf(Top) \o Tail(TraverseStack)
  BY <1>1 DEF KidsOf, IsComposite
<1>3. PICK S : S = [x \in 1 .. encodingIdx + 1 |->
                      IF x <= encodingIdx THEN St[x] ELSE TraverseStack']
  OBVIOUS
<1>4. /\ Trace(S)' /\ Head(S[encodingIdx]) = Top
      /\ \A p \in 1 .. encodingIdx : S[p] = St[p]
  <2>1. /\ Trace(St) /\ TraverseStack # <<>> /\ UNCHANGED <<heap, root>>
        /\ encodingIdx' = encodingIdx + 1
        /\ TraverseStack' = KidsOf(Top) \o Tail(TraverseStack)
    BY <1>1, <1>2 DEF Layout
  <2> QED
    BY <1>3, <2>1, ExtendTrace
<1>5. /\ encodingIdx = Len(encodeStream_) + 1 /\ (encodingIdx + 1) - 1 = encodingIdx
      /\ DOMAIN meta_size_offset = {}
      /\ \A p \in 1 .. encodingIdx : p \in 1 .. encodingIdx - 1 \/ p = encodingIdx
      /\ \A m \in 1 .. Len(MetaStack) : MetaStack[m].data = Head(St[MetaStack[m].pos])
      /\ \A p \in 1 .. encodingIdx - 1 :
           /\ ~ IsComposite(Head(St[p])) =>
                isPrimitive(heap[Head(St[p])]) /\ encodeStream_[p].data = Head(St[p])
           /\ IsComposite(Head(St[p])) => p \in Pending
  BY <1>1 DEF Layout, Visited, AllPlaced, Working
<1>6. /\ Len(encodeStream_') = Len(encodeStream_) + 1
      /\ \A p \in 1 .. encodingIdx - 1 : encodeStream_'[p] = encodeStream_[p]
  <2>1. 1 .. encodingIdx - 1 = 1 .. Len(encodeStream_)
    BY <1>1, <1>5
  <2> QED
    BY <1>1, <2>1, AppendKeepsEntries
<1>7. /\ \A m \in 1 .. Len(MetaStack) : MetaStack[m].pos \in 1 .. encodingIdx - 1
      /\ \A p \in 1 .. encodingIdx - 1 : p \in 1 .. encodingIdx
      /\ encodingIdx \in 1 .. encodingIdx
  <2>1. encodingIdx >= 1
    BY DEF IInv, StackInv
  <2> QED
    BY <1>1, <2>1 DEF IInv, StackInv
<1>8. ASSUME NEW m \in 1 .. Len(MetaStack')
      PROVE  m = 1 \/ (m - 1 \in 1 .. Len(MetaStack) /\ MetaStack'[m] = MetaStack[m-1])
  BY <1>1
<1>9. Visited(S)'
  <2>1. ASSUME NEW p \in 1 .. encodingIdx, ~ IsComposite(Head(S[p]))
        PROVE  isPrimitive(heap[Head(S[p])]) /\ encodeStream_'[p].data = Head(S[p])
    <3>1. p \in 1 .. encodingIdx - 1
      BY <1>1, <1>4, <1>5, <2>1
    <3> QED
      BY <1>4, <1>5, <1>6, <2>1, <3>1
  <2>2. ASSUME NEW m \in 1 .. Len(MetaStack')
        PROVE  MetaStack'[m].data = Head(S[MetaStack'[m].pos])
    <3>1. CASE m = 1
      BY <1>1, <1>4, <3>1
    <3>2. CASE m - 1 \in 1 .. Len(MetaStack) /\ MetaStack'[m] = MetaStack[m-1]
      BY <1>4, <1>5, <1>7, <3>2
    <3> QED
      BY <1>8, <3>1, <3>2
  <2> QED
    BY <1>1, <1>5, <1>6, <2>1, <2>2 DEF Visited, IsComposite
<1>10. AllPlaced(S)'
  <2>1. ASSUME NEW y \in Pending PROVE y \in Pending'
    <3>1. PICK m \in 1 .. Len(MetaStack) : y = MetaStack[m].pos
      BY <1>1 DEF Pending
    <3>2. /\ m + 1 \in 1 .. Len(MetaStack') /\ m + 1 \in 2 .. Len(MetaStack')
          /\ (m + 1) - 1 = m
      BY <1>1
    <3>3. MetaStack'[m + 1] = MetaStack[m]
      BY <1>1, <3>2
    <3> QED
      BY <3>1, <3>2, <3>3 DEF Pending
  <2>2. encodingIdx \in Pending'
    <3>1. 1 \in 1 .. Len(MetaStack')
      BY <1>1
    <3> QED
      BY <1>1, <3>1 DEF Pending
  <2>3. ASSUME NEW p \in 1 .. encodingIdx, IsComposite(Head(S[p])) PROVE p \in Pending'
    BY <1>4, <1>5, <2>1, <2>2, <2>3
  <2> QED
    BY <1>1, <1>5, <2>3 DEF AllPlaced, IsComposite
<1>11. ScanAt(S)'
  BY <1>1 DEF ScanAt
<1>12. Layout(S)'
  BY <1>1, <1>4, <1>5, <1>9, <1>10, <1>11 DEF Layout
<1> QED
  BY <1>4, <1>12

LEMMA StreamStays ==
  ASSUME NEW St, Trace(St), Pending' \subseteq Pending,
         UNCHANGED <<heap, root, encodeStream_, meta_offset, meta_size_offset,
                     TraverseStack, encodingIdx>>
  PROVE  /\ Trace(St)'
         /\ \A p : FilledAt(St, p) => FilledAt(St, p)'
<1>1. Trace(St)'
  <2>1. \A d : KidsOf(d)' = KidsOf(d)
    BY DEF KidsOf
  <2> QED
    BY <2>1 DEF Trace
<1>2. ASSUME NEW p, FilledAt(St, p) PROVE FilledAt(St, p)'
  <2>1. IsEnd(St, p, meta_offset[p])'
    BY <1>2 DEF FilledAt, IsEnd
  <2> QED
    BY <1>2, <2>1 DEF FilledAt
<1> QED
  BY <1>1, <1>2

LEMMA VisitedStays ==
  ASSUME NEW St, Visited(St), UNCHANGED <<heap, encodeStream_, encodingIdx>>,
         \A m \in 1 .. Len(MetaStack') : \E l \in 1 .. Len(MetaStack) :
           MetaStack'[m] = MetaStack[l]
  PROVE  Visited(St)'
<1>1. \A p \in 1 .. encodingIdx - 1 :
         ~ IsComposite(Head(St[p]))' =>
           isPrimitive(heap'[Head(St[p])]) /\ encodeStream_'[p].data = Head(St[p])
  BY DEF Visited, IsComposite
<1>2. \A m \in 1 .. Len(MetaStack') : MetaStack'[m].data = Head(St[MetaStack'[m].pos])
  BY DEF Visited
<1> QED
  BY <1>1, <1>2 DEF Visited

LEMMA OtherKeepsLayout ==
  ASSUME IInv, calls = 1, NEW St, Layout(St), OtherAction
  PROVE  Layout(St)'
<1>1. UNCHANGED <<heap, root, encodeStream_, meta_offset, meta_size_offset,
                  calls, TraverseStack, MetaStack, encodingIdx, scan>>
  BY OtherEffect
<1>2. /\ pc' \notin {"traverse", "names", "scan"}
      /\ pc' \in {"meta", "sum", "returned"} =>
           \/ pc = "traverse" /\ pc' = "meta"
           \/ pc = "meta" /\ pc' = "sum" /\ remaining = 0
           \/ pc = "sum" /\ pc' \in {"sum", "returned"}
  BY OtherEffect
<1>3. Pending' \subseteq Pending
  BY <1>1, <1>2 DEF Pending
<1>4. Trace(St)' /\ \A p : FilledAt(St, p) => FilledAt(St, p)'
  BY <1>1, <1>3, StreamStays DEF Layout
<1>5. Visited(St)'
  <2>1. \A m \in 1 .. Len(MetaStack') : m \in 1 .. Len(MetaStack) /\ MetaStack'[m] = MetaStack[m]
    BY <1>1
  <2> QED
    BY <1>1, <2>1, VisitedStays DEF Layout
<1>6. ScanAt(St)'
  BY <1>2 DEF ScanAt
<1>7. ASSUME pc' \in Working \cup {"sum", "returned"} PROVE AllPlaced(St)'
  <2>1. pc \in {"traverse", "meta", "sum"} /\ pc' \notin {"names", "scan"}
    BY <1>2, <1>7 DEF Working
  <2>2. AllPlaced(St)
    BY <2>1 DEF Layout, Working
  <2>3. Pending' = Pending
    BY <1>1, <2>1 DEF Pending
  <2> QED
    BY <1>1, <2>2, <2>3 DEF AllPlaced, IsComposite
<1>8. pc' \in {"sum", "returned"} => MetaStack' = <<>>
  <2>1. pc = "meta" /\ remaining = 0 => MetaStack = <<>>
    <3>1. MetaStack \in Seq([data : DOMAIN heap, pos : Nat])
      BY DEF IInv, TypeOK
    <3>2. pc = "meta" => remaining = Len(MetaStack)
      BY DEF IInv, CountInv
    <3> QED
      BY <3>1, <3>2, EmptySeq
  <2> QED
    BY <1>1, <1>2, <2>1 DEF Layout
<1>9. \A p \in DOMAIN meta_size_offset' : FilledAt(St, p)'
  BY <1>1, <1>4 DEF Layout
<1> QED
  BY <1>2, <1>4, <1>5, <1>6, <1>7, <1>8, <1>9 DEF Layout, Working

LEMMA BeginMetaKeepsLayout ==
  ASSUME IInv, calls = 1, NEW St, Layout(St), BeginMeta
  PROVE  Layout(St)'
<1>1. /\ pc = "meta" /\ pc' \in {"names", "scan"} /\ TraverseStack = <<>>
      /\ Len(MetaStack) \in Nat /\ Len(MetaStack) >= 1
      /\ Len(MetaStack') = Len(MetaStack) - 1
      /\ \A m \in 1 .. Len(MetaStack') : MetaStack'[m] = MetaStack[m+1]
      /\ scan'.data = MetaStack[1].data /\ scan'.pos = MetaStack[1].pos
      /\ scan'.i = MetaStack[1].pos + 1 /\ scan'.field = 1 /\ scan'.nestedsize = 0
      /\ UNCHANGED <<heap, root, encodeStream_, meta_offset, meta_size_offset,
                     calls, TraverseStack, encodingIdx>>
  BY BeginMetaEffect
<1>2. ASSUME NEW m \in 1 .. Len(MetaStack')
      PROVE  m + 1 \in 1 .. Len(MetaStack) /\ MetaStack'[m] = MetaStack[m+1]
  BY <1>1
<1>3. 1 \in 1 .. Len(MetaStack)
  BY <1>1
<1>4. Pending' = Pending
  <2>1. Pending = {MetaStack[m].pos : m \in 1 .. Len(MetaStack)}
    BY <1>1 DEF Pending
  <2>2. Pending' = {MetaStack'[m].pos : m \in 1 .. Len(MetaStack')} \cup {MetaStack[1].pos}
    BY <1>1 DEF Pending
  <2>3. ASSUME NEW m \in 1 .. Len(MetaStack), m # 1
        PROVE  m - 1 \in 1 .. Len(MetaStack') /\ MetaStack'[m - 1] = MetaStack[m]
    <3>1. m - 1 \in 1 .. Len(MetaStack') /\ (m - 1) + 1 = m
      BY <1>1, <2>3
    <3> QED
      BY <1>1, <3>1
  <2>4. ASSUME NEW y \in Pending PROVE y \in Pending'
    <3>1. PICK m \in 1 .. Len(MetaStack) : y = MetaStack[m].pos
      BY <2>1
    <3> QED
      BY <2>2, <2>3, <3>1
  <2>5. ASSUME NEW y \in Pending' PROVE y \in Pending
    <3>1. y = MetaStack[1].pos \/ \E m \in 1 .. Len(MetaStack') : y = MetaStack'[m].pos
      BY <2>2
    <3> QED
      BY <1>2, <1>3, <2>1, <3>1
  <2> QED
    BY <2>4, <2>5
<1>5. Trace(St)' /\ \A p : FilledAt(St, p) => FilledAt(St, p)'
  BY <1>1, <1>4, StreamStays DEF Layout
<1>6. Visited(St)'
  BY <1>1, <1>2, VisitedStays DEF Layout
<1>7. AllPlaced(St)'
  BY <1>1, <1>4 DEF AllPlaced, Layout, IsComposite, Working
<1>8. ScanAt(St)'
  <2>0. PICK p : p = MetaStack[1].pos
    OBVIOUS
  <2>1. scan'.data = Head(St[p]) /\ IsComposite(Head(St[p])) /\ p \in 1 .. encodingIdx - 1
    BY <1>1, <1>3, <2>0 DEF Layout, Visited, IInv, StackInv, IsComposite
  <2>2. p + 1 <= encodingIdx - 1
    <3>1. scan'.i \in 1 .. Len(encodeStream_')
      <4>1. IInv'
        BY BeginMetaKeepsIInv
      <4> QED
        BY <1>1, <4>1 DEF IInv, ScanInv
    <3>2. encodingIdx = Len(encodeStream_) + 1 /\ encodingIdx \in Nat
      BY IndexTyped DEF Layout, Visited
    <3>3. Len(encodeStream_') = Len(encodeStream_) /\ scan'.i = p + 1
      BY <1>1, <2>0
    <3> QED
      BY <2>1, <3>1, <3>2, <3>3
  <2>3. Trace(St) /\ p \in Int
    BY <2>1 DEF Layout
  <2>4. ChildBegins(St, p, 1, p + 1)
    BY <2>1, <2>2, <2>3, FirstChildBegins
  <2>5. BytesOf(encodeStream_, p + 1, (p + 1) - 1) = 0
    <3>1. p + 1 \in Int /\ (p + 1) - 1 \in Int /\ (p + 1) - 1 < p + 1
      BY <2>3
    <3> QED
      BY <3>1, BytesOfNone
  <2>6. /\ scan'.pos = p /\ scan'.i = p + 1 /\ scan'.field = 1 /\ scan'.nestedsize = 0
        /\ UNCHANGED <<heap, encodeStream_, encodingIdx>> /\ pc' \in {"names", "scan"}
    BY <1>1, <2>0
  <2>7. ChildBegins(St, p, 1, p + 1)'
    <3>1. \A d : KidsOf(d)' = KidsOf(d)
      BY <2>6 DEF KidsOf
    <3> QED
      BY <2>4, <2>6, <3>1 DEF ChildBegins
  <2> QED
    BY <2>1, <2>5, <2>6, <2>7 DEF ScanAt, IsComposite
<1>9. \A p \in DOMAIN meta_size_offset' : FilledAt(St, p)'
  BY <1>1, <1>5 DEF Layout
<1> QED
  BY <1>1, <1>5, <1>6, <1>7, <1>8, <1>9 DEF Layout

LEMMA EncodeFieldNameKeepsLayout ==
  ASSUME IInv, NEW St, Layout(St), EncodeFieldName
  PROVE  Layout(St)'
<1>1. /\ pc = "names" /\ pc' \in {"names", "scan"} /\ scan \in Frame
      /\ scan'.data = scan.data /\ scan'.pos = scan.pos /\ scan'.i = scan.i
      /\ scan'.nestedsize = scan.nestedsize
      /\ pc' = "scan" => scan'.field = 1
      /\ UNCHANGED <<heap, root, encodeStream_, meta_offset, meta_size_offset,
                     calls, TraverseStack, MetaStack, encodingIdx>>
  BY EncodeFieldNameEffect
<1>2. Pending' = Pending
  BY <1>1 DEF Pending
<1>3. Trace(St)' /\ \A p : FilledAt(St, p) => FilledAt(St, p)'
  BY <1>1, <1>2, StreamStays DEF Layout
<1>4. Visited(St)'
  <2>1. \A m \in 1 .. Len(MetaStack') : m \in 1 .. Len(MetaStack) /\ MetaStack'[m] = MetaStack[m]
    BY <1>1
  <2> QED
    BY <1>1, <2>1, VisitedStays DEF Layout
<1>5. AllPlaced(St)'
  BY <1>1, <1>2 DEF AllPlaced, Layout, IsComposite, Working
<1>6. ScanAt(St)'
  <2>0. PICK p : p = scan.pos
    OBVIOUS
  <2>1. /\ scan.data = Head(St[p]) /\ IsComposite(scan.data)
        /\ scan.i = p + 1 /\ scan.nestedsize = 0
    BY <1>1, <2>0 DEF Layout, ScanAt
  <2>2. p \in 1 .. encodingIdx - 1 /\ p + 1 <= encodingIdx - 1 /\ p \in Int
    <3>1. scan.i \in 1 .. Len(encodeStream_) /\ p \in 1 .. Len(encodeStream_)
      BY <1>1, <2>0 DEF IInv, ScanInv
    <3>2. encodingIdx = Len(encodeStream_) + 1 /\ encodingIdx \in Nat
      BY IndexTyped DEF Layout, Visited
    <3> QED
      BY <2>1, <3>1, <3>2
  <2>3. ChildBegins(St, p, 1, p + 1)
    BY <2>2, FirstChildBegins DEF Layout
  <2>4. BytesOf(encodeStream_, p + 1, (p + 1) - 1) = 0
    <3>1. p + 1 \in Int /\ (p + 1) - 1 \in Int /\ (p + 1) - 1 < p + 1
      BY <2>2
    <3> QED
      BY <3>1, BytesOfNone
  <2>5. ChildBegins(St, p, 1, p + 1)'
    <3>1. \A d : KidsOf(d)' = KidsOf(d)
      BY <1>1 DEF KidsOf
    <3> QED
      BY <1>1, <2>3, <3>1 DEF ChildBegins
  <2> QED
    BY <1>1, <2>0, <2>1, <2>4, <2>5 DEF ScanAt, IsComposite
<1>7. \A p \in DOMAIN meta_size_offset' : FilledAt(St, p)'
  BY <1>1, <1>3 DEF Layout
<1> QED
  BY <1>1, <1>3, <1>4, <1>5, <1>6, <1>7 DEF Layout

(* The entries of the children scanned so far, and where the scan goes on. *)
LEMMA TakenSum ==
  ASSUME IInv, PendingInv, calls = 1, NEW St, Layout(St), Scanning
  PROVE  /\ TakenEnd \in scan.pos + 1 .. encodingIdx - 1
         /\ BytesOf(encodeStream_, scan.pos + 1, TakenEnd) = scan.nestedsize + TakenSize
         /\ scan.field < Len(KidsOf(scan.data)) =>
              ChildBegins(St, scan.pos, scan.field + 1, TakenEnd + 1)
         /\ scan.field = Len(KidsOf(scan.data)) => IsEnd(St, scan.pos, TakenEnd)
<1>1. PICK p, i, f, e : p = scan.pos /\ i = scan.i /\ f = scan.field /\ e = TakenEnd
  OBVIOUS
<1>2. /\ encodingIdx = Len(encodeStream_) + 1 /\ encodingIdx \in Nat
      /\ TraverseStack = <<>> /\ p \in 1 .. encodingIdx - 1
      /\ i \in p + 1 .. encodingIdx - 1 /\ scan.data = Head(St[p])
      /\ f \in 1 .. Len(KidsOf(Head(St[p])))
      /\ ChildBegins(St, p, f, i) /\ IsEnd(St, i, e) /\ Trace(St)
  BY <1>1, ScanFinds DEF Layout
<1>3. /\ e \in p .. encodingIdx - 1 /\ i \in p + 1 .. e
      /\ f < Len(KidsOf(Head(St[p]))) => ChildBegins(St, p, f + 1, e + 1)
      /\ f = Len(KidsOf(Head(St[p]))) => IsEnd(St, p, e)
  BY <1>2, NextChildBegins
<1>4. /\ e \in p + 1 .. encodingIdx - 1
      /\ p + 1 \in Int /\ i \in Int /\ e \in Int /\ p + 1 <= i /\ i <= e + 1
      /\ \A k \in p + 1 .. e : k \in 1 .. Len(encodeStream_)
  BY <1>2, <1>3
<1>5. \A k \in p + 1 .. e : Len(encodeStream_[k].bytes) \in Int
  BY <1>4, StreamTyped, EntryLengths
<1>6. BytesOf(encodeStream_, p + 1, e)
        = BytesOf(encodeStream_, p + 1, i - 1) + BytesOf(encodeStream_, i, e)
  BY <1>4, <1>5, BytesOfJoin
<1>7. scan.nestedsize = BytesOf(encodeStream_, p + 1, i - 1)
  BY <1>1 DEF Layout, ScanAt, Scanning
<1>8. TakenSize = BytesOf(encodeStream_, i, e)
  BY <1>1, TakenBytes
<1> QED
  BY <1>1, <1>2, <1>3, <1>4, <1>6, <1>7, <1>8

LEMMA TraceInside ==
  ASSUME IInv, NEW St, Trace(St), NEW C, OnceLastIn(C), NEW p \in 1 .. encodingIdx
  PROVE  St[p] \in Seq(C)
<1> DEFINE T == {n \in Nat : n + 1 <= encodingIdx => St[n + 1] \in Seq(C)}
<1>1. encodingIdx \in Nat
  BY IndexTyped
<1>2. 0 \in T
  <2>1. St[1] = <<root>> /\ root \in C
    BY DEF Trace, OnceLastIn
  <2>2. <<root>> \in Seq(C) /\ 0 + 1 = 1
    BY <2>1
  <2>3. St[0 + 1] \in Seq(C)
    BY <2>1, <2>2, Zenon
  <2> QED
    BY <2>3
<1>3. ASSUME NEW n \in T PROVE n + 1 \in T
  <2>1. SUFFICES ASSUME (n + 1) + 1 <= encodingIdx PROVE St[(n + 1) + 1] \in Seq(C)
    OBVIOUS
  <2>2. n + 1 \in 1 .. encodingIdx - 1 /\ St[n + 1] \in Seq(C)
    BY <1>1, <2>1
  <2>3. St[n + 1] # <<>> /\ St[(n + 1) + 1] = KidsOf(Head(St[n + 1])) \o Tail(St[n + 1])
    BY <2>2, TraceTyped
  <2>4. Head(St[n + 1]) \in C
    BY <2>2, <2>3, HeadTailProperties
  <2>5. KidsOf(Head(St[n + 1])) \in Seq(C)
    <3>1. heap[Head(St[n + 1])].kids \in Seq(C) /\ <<>> \in Seq(C)
      BY <2>4 DEF OnceLastIn
    <3>2. \/ KidsOf(Head(St[n + 1])) = heap[Head(St[n + 1])].kids
          \/ KidsOf(Head(St[n + 1])) = <<>>
      BY Zenon DEF KidsOf
    <3> QED
      BY <3>1, <3>2, Zenon
  <2> HIDE DEF T
  <2> QED
    BY <2>2, <2>3, <2>5, PushOnRest
<1>4. T \in SUBSET Nat /\ 0 \in T /\ \A n \in T : n + 1 \in T
  BY <1>2, <1>3
<1> HIDE DEF T
<1>5. \A n \in Nat : n \in T
  BY <1>4, NatSet
<1>6. p - 1 \in Nat /\ (p - 1) + 1 = p /\ p <= encodingIdx
  BY <1>1
<1> QED
  BY <1>5, <1>6 DEF T

LEMMA LastIsLast ==
  ASSUME IInv, PendingInv, calls = 1, OnceLast, NEW St, Layout(St), Scanning
  PROVE  TakesLast <=> scan.field = Len(KidsOf(scan.data))
<1>1. /\ KidsOf(scan.data) = heap[scan.data].kids
      /\ scan.field \in 1 .. Len(KidsOf(scan.data)) /\ Len(KidsOf(scan.data)) \in Nat
  BY ScanFinds
<1>2. PICK C : OnceLastIn(C)
  BY DEF OnceLast
<1>3. ~ LastChildTwice(heap[scan.data])
  <2>1. PICK p : p = scan.pos
    OBVIOUS
  <2>2. /\ encodingIdx \in Nat /\ p \in 1 .. encodingIdx - 1 /\ scan.data = Head(St[p])
        /\ Trace(St)
    BY <2>1, ScanFinds DEF Layout
  <2>3. p \in 1 .. encodingIdx
    BY <2>2
  <2>4. St[p] \in Seq(C) /\ St[p] # <<>>
    BY <1>2, <2>2, <2>3, TraceInside, TraceTyped
  <2>5. Head(St[p]) \in C
    BY <2>4, HeadTailProperties
  <2> QED
    BY <1>2, <2>2, <2>5 DEF OnceLastIn
<1> QED
  BY <1>1, <1>3 DEF LastChildTwice, TakesLast, DataTraverse, numofElements

LEMMA TakeOnKeepsLayout ==
  ASSUME IInv, PendingInv, calls = 1, OnceLast, NEW St, Layout(St), ScanTake, ~ TakesLast
  PROVE  Layout(St)'
<1>1. /\ Scanning /\ pc = "scan"
      /\ UNCHANGED <<heap, root, calls, TraverseStack, MetaStack, encodingIdx>>
      /\ meta_offset' = TakenEnds /\ meta_size_offset' = TakenSizes
      /\ encodeStream_' = encodeStream_
  BY ScanTakeEffect DEF Scanning
<1>2. /\ encodingIdx = Len(encodeStream_) + 1 /\ encodingIdx \in Nat
      /\ TakenEnds = meta_offset /\ TakenSizes = meta_size_offset
      /\ scan.field \in 1 .. Len(KidsOf(scan.data)) /\ Len(KidsOf(scan.data)) \in Nat
      /\ scan.data = Head(St[scan.pos])
  BY <1>1, ScanFinds
<1>3. PICK p, f, e, n : /\ p = scan.pos /\ f = scan.field + 1 /\ e = TakenEnd + 1
                        /\ n = scan.nestedsize + TakenSize
  OBVIOUS
<1>4. ChildBegins(St, p, f, e) /\ e - 1 = TakenEnd /\ n = BytesOf(encodeStream_, p + 1, e - 1)
  <2>1. scan.field # Len(KidsOf(scan.data))
    BY <1>1, LastIsLast
  <2>2. scan.field < Len(KidsOf(scan.data))
    BY <1>2, <2>1
  <2>3. e - 1 = TakenEnd
    <3>1. TakenEnd \in Nat
      BY ScanTakeEffect
    <3> QED
      BY <1>3, <3>1
  <2> QED
    BY <1>1, <1>3, <2>2, <2>3, TakenSum
<1>5. e <= Len(encodeStream_)
  <2>1. e \in p + 1 .. encodingIdx - 1
    BY <1>4 DEF ChildBegins
  <2>2. p \in Int
    BY <1>1, <1>3, ScanFinds
  <2>3. Len(encodeStream_) \in Nat
    BY DEF IInv, TypeOK
  <2> QED
    BY <1>2, <2>1, <2>2, <2>3
<1>6. /\ pc' = "scan" /\ scan'.data = scan.data /\ scan'.pos = p /\ scan'.i = e
      /\ scan'.field = f /\ scan'.nestedsize = n
  BY <1>3, <1>5, ScanTakeEffect
<1>7. Pending' = Pending
  BY <1>1, <1>3, <1>6 DEF Pending
<1>8. Trace(St)' /\ \A x : FilledAt(St, x) => FilledAt(St, x)'
  BY <1>1, <1>2, <1>7, StreamStays DEF Layout
<1>9. Visited(St)'
  <2>1. \A m \in 1 .. Len(MetaStack') : m \in 1 .. Len(MetaStack) /\ MetaStack'[m] = MetaStack[m]
    BY <1>1
  <2> QED
    BY <1>1, <2>1, VisitedStays DEF Layout
<1>10. AllPlaced(St)'
  BY <1>1, <1>2, <1>7 DEF AllPlaced, Layout, IsComposite, Working
<1>11. ScanAt(St)'
  <2>1. ChildBegins(St, p, f, e)'
    <3>1. \A d : KidsOf(d)' = KidsOf(d)
      BY <1>1 DEF KidsOf
    <3> QED
      BY <1>1, <1>4, <3>1 DEF ChildBegins
  <2>2. IsComposite(scan.data) /\ scan.data = Head(St[p])
    BY <1>1, <1>2, <1>3 DEF Layout, ScanAt
  <2> QED
    BY <1>1, <1>4, <1>6, <2>1, <2>2 DEF ScanAt, IsComposite
<1>12. \A x \in DOMAIN meta_size_offset' : FilledAt(St, x)'
  BY <1>1, <1>2, <1>8 DEF Layout
<1> QED
  BY <1>6, <1>8, <1>9, <1>10, <1>11, <1>12 DEF Layout

(* The last child: where the object ends, and what it takes.               *)
LEMMA TakeLastEnds ==
  ASSUME IInv, PendingInv, calls = 1, OnceLast, NEW St, Layout(St), ScanTake, TakesLast,
         NEW p, p = scan.pos, NEW e, e = TakenEnd, NEW md, md = TakenMetadata
  PROVE  /\ Scanning /\ pc = "scan" /\ pc' = "meta"
         /\ UNCHANGED <<heap, root, calls, TraverseStack, MetaStack, encodingIdx>>
         /\ TakenSize \in Nat /\ md \in Seq(Byte)
         /\ encodingIdx = Len(encodeStream_) + 1 /\ encodingIdx \in Nat
         /\ p \in 1 .. encodingIdx - 1 /\ scan.data = Head(St[p])
         /\ IsComposite(Head(St[p]))
         /\ e \in p + 1 .. encodingIdx - 1 /\ IsEnd(St, p, e)
         /\ BytesOf(encodeStream_, p + 1, e) = scan.nestedsize + TakenSize
<1>0. p = scan.pos /\ e = TakenEnd /\ md = TakenMetadata
  OBVIOUS
<1>1. /\ Scanning /\ pc = "scan" /\ pc' = "meta"
      /\ UNCHANGED <<heap, root, calls, TraverseStack, MetaStack, encodingIdx>>
      /\ TakenSize \in Nat /\ md \in Seq(Byte)
  BY <1>0, ScanTakeEffect DEF Scanning
<1>2. /\ encodingIdx = Len(encodeStream_) + 1 /\ encodingIdx \in Nat
      /\ TakenEnds = meta_offset /\ TakenSizes = meta_size_offset
      /\ p \in 1 .. encodingIdx - 1 /\ scan.data = Head(St[p])
  BY <1>0, <1>1, ScanFinds
<1>3. /\ e \in p + 1 .. encodingIdx - 1 /\ IsEnd(St, p, e)
      /\ BytesOf(encodeStream_, p + 1, e) = scan.nestedsize + TakenSize
  BY <1>0, <1>1, LastIsLast, TakenSum
<1>4. IsComposite(Head(St[p]))
  BY <1>1, <1>2 DEF Layout, ScanAt
<1> QED
  BY <1>1, <1>2, <1>3, <1>4

(* The placeholder at p is filled, its end and its size are recorded.      *)
FillsLast(p, e, md) ==
  /\ Len(encodeStream_') = Len(encodeStream_)
  /\ encodeStream_'[p].bytes = md /\ encodeStream_'[p].data = scan.data
  /\ \A x \in 1 .. encodingIdx - 1 : x # p => encodeStream_'[x] = encodeStream_[x]
  /\ Pending = Pending' \cup {p} /\ \A y \in Pending' : y < p
  /\ DOMAIN meta_size_offset' = DOMAIN meta_size_offset \cup {p}
  /\ DOMAIN meta_offset' = DOMAIN meta_offset \cup {p}
  /\ meta_offset'[p] = e
  /\ meta_size_offset'[p] = scan.nestedsize + TakenSize + Len(md)
  /\ \A x \in DOMAIN meta_offset : x # p => meta_offset'[x] = meta_offset[x]
  /\ \A x \in DOMAIN meta_size_offset : x # p => meta_size_offset'[x] = meta_size_offset[x]

LEMMA TakeLastFills ==
  ASSUME IInv, PendingInv, calls = 1, OnceLast, NEW St, Layout(St), ScanTake, TakesLast
  PROVE  FillsLast(scan.pos, TakenEnd, TakenMetadata)
<1>0. PICK p, e, md : p = scan.pos /\ e = TakenEnd /\ md = TakenMetadata
  OBVIOUS
<1>1. /\ Scanning /\ pc = "scan" /\ pc' = "meta"
      /\ UNCHANGED <<heap, root, calls, TraverseStack, MetaStack, encodingIdx>>
      /\ encodingIdx = Len(encodeStream_) + 1 /\ encodingIdx \in Nat
      /\ TakenEnds = meta_offset /\ TakenSizes = meta_size_offset
      /\ p \in 1 .. encodingIdx - 1 /\ scan.data = Head(St[p])
  BY <1>0, TakeLastEnds, ScanFinds
<1>2. /\ meta_offset' = Put(meta_offset, p, e)
      /\ meta_size_offset' = Put(meta_size_offset, p,
                                 scan.nestedsize + TakenSize + Len(md))
  BY <1>0, <1>1, ScanTakeEffect
<1>3. /\ Len(encodeStream_') = Len(encodeStream_)
      /\ encodeStream_'[p].bytes = md /\ encodeStream_'[p].data = Head(St[p])
      /\ \A x \in 1 .. encodingIdx - 1 : x # p => encodeStream_'[x] = encodeStream_[x]
  <2> DEFINE new == [bytes |-> md, data |-> scan.data]
  <2>1. /\ encodeStream_' = [encodeStream_ EXCEPT ![p] = new]
        /\ new.bytes = md /\ new.data = Head(St[p])
    BY <1>0, <1>1, ScanTakeEffect
  <2>2. encodeStream_ \in Seq(Entry)
    BY DEF IInv, TypeOK
  <2>3. \A x \in 1 .. encodingIdx - 1 : x \in 1 .. Len(encodeStream_)
    BY <1>1, <2>2
  <2> HIDE DEF new
  <2> QED
    BY <1>1, <2>1, <2>2, <2>3
<1>4. Pending = Pending' \cup {p} /\ \A y \in Pending' : y < p
  <2>1. Pending' = {MetaStack[m].pos : m \in 1 .. Len(MetaStack)}
    BY <1>1 DEF Pending
  <2>2. Pending = {MetaStack[m].pos : m \in 1 .. Len(MetaStack)} \cup {p}
    BY <1>0, <1>1 DEF Pending
  <2>3. \A m \in 1 .. Len(MetaStack) : MetaStack[m].pos < p
    BY <1>0, <1>1 DEF PendingInv
  <2> QED
    BY <2>1, <2>2, <2>3
<1>5. /\ DOMAIN meta_size_offset' = DOMAIN meta_size_offset \cup {p}
      /\ DOMAIN meta_offset' = DOMAIN meta_offset \cup {p}
      /\ meta_offset'[p] = e
      /\ meta_size_offset'[p] = scan.nestedsize + TakenSize + Len(md)
      /\ \A x \in DOMAIN meta_offset : x # p => meta_offset'[x] = meta_offset[x]
      /\ \A x \in DOMAIN meta_size_offset : x # p => meta_size_offset'[x] = meta_size_offset[x]
  <2>1. PICK v : v = scan.nestedsize + TakenSize + Len(md)
    OBVIOUS
  <2>2. /\ DOMAIN Put(meta_offset, p, e) = DOMAIN meta_offset \cup {p}
        /\ Put(meta_offset, p, e)[p] = e
        /\ \A x \in DOMAIN meta_offset : x # p => Put(meta_offset, p, e)[x] = meta_offset[x]
    BY DEF Put
  <2>3. /\ DOMAIN Put(meta_size_offset, p, v) = DOMAIN meta_size_offset \cup {p}
        /\ Put(meta_size_offset, p, v)[p] = v
        /\ \A x \in DOMAIN meta_size_offset :
             x # p => Put(meta_size_offset, p, v)[x] = meta_size_offset[x]
    BY DEF Put
  <2> QED
    BY <1>2, <2>1, <2>2, <2>3
<1> QED
  BY <1>0, <1>1, <1>3, <1>4, <1>5 DEF FillsLast

LEMMA TakeLastKeepsLayout ==
  ASSUME IInv, PendingInv, calls = 1, OnceLast, NEW St, Layout(St), ScanTake, TakesLast
  PROVE  Layout(St)'
<1>0. PICK p, e, md : p = scan.pos /\ e = TakenEnd /\ md = TakenMetadata
  OBVIOUS
<1>1. /\ Scanning /\ pc = "scan" /\ pc' = "meta"
      /\ UNCHANGED <<heap, root, calls, TraverseStack, MetaStack, encodingIdx>>
      /\ TakenSize \in Nat /\ md \in Seq(Byte)
  BY <1>0, TakeLastEnds
<1>2. /\ encodingIdx = Len(encodeStream_) + 1 /\ encodingIdx \in Nat
      /\ p \in 1 .. encodingIdx - 1 /\ scan.data = Head(St[p])
  BY <1>0, TakeLastEnds
<1>3. /\ e \in p + 1 .. encodingIdx - 1 /\ IsEnd(St, p, e)
      /\ BytesOf(encodeStream_, p + 1, e) = scan.nestedsize + TakenSize
  BY <1>0, TakeLastEnds
<1>4. FillsLast(p, e, md)
  BY <1>0, TakeLastFills
<1>5. /\ Len(encodeStream_') = Len(encodeStream_)
      /\ encodeStream_'[p].bytes = md /\ encodeStream_'[p].data = Head(St[p])
      /\ \A x \in 1 .. encodingIdx - 1 : x # p => encodeStream_'[x] = encodeStream_[x]
  BY <1>2, <1>4 DEF FillsLast
<1>6. Pending = Pending' \cup {p} /\ \A y \in Pending' : y < p
  BY <1>4 DEF FillsLast
<1>7. Trace(St)'
  <2>1. \A d : KidsOf(d)' = KidsOf(d)
    BY <1>1 DEF KidsOf
  <2> QED
    BY <1>1, <2>1 DEF Trace, Layout
<1>8. IsComposite(Head(St[p]))
  BY <1>0, TakeLastEnds
<1>9. Visited(St)'
  <2>1. ASSUME NEW x \in 1 .. encodingIdx - 1, ~ IsComposite(Head(St[x]))
        PROVE  isPrimitive(heap[Head(St[x])]) /\ encodeStream_'[x].data = Head(St[x])
    BY <1>5, <1>8, <2>1 DEF Layout, Visited
  <2> QED
    BY <1>1, <1>2, <1>5, <2>1 DEF Layout, Visited, IsComposite
<1>10. /\ DOMAIN meta_size_offset' = DOMAIN meta_size_offset \cup {p}
       /\ DOMAIN meta_offset' = DOMAIN meta_offset \cup {p}
       /\ meta_offset'[p] = e
       /\ meta_size_offset'[p] = scan.nestedsize + TakenSize + Len(md)
       /\ \A x \in DOMAIN meta_offset : x # p => meta_offset'[x] = meta_offset[x]
       /\ \A x \in DOMAIN meta_size_offset : x # p => meta_size_offset'[x] = meta_size_offset[x]
  BY <1>4 DEF FillsLast
<1>11. ASSUME NEW x \in DOMAIN meta_size_offset, x # p PROVE FilledAt(St, x)'
  <2>1. /\ x \in 1 .. encodingIdx - 1 /\ x \in DOMAIN meta_offset
        /\ IsEnd(St, x, meta_offset[x]) /\ encodeStream_[x].data = Head(St[x])
        /\ \A y \in Pending : y < x
        /\ meta_size_offset[x] = BytesOf(encodeStream_, x, meta_offset[x])
    BY DEF Layout, FilledAt
  <2>2. PICK o : o = meta_offset[x]
    OBVIOUS
  <2>3. o \in x .. encodingIdx - 1 /\ p < x
    BY <1>6, <2>1, <2>2 DEF IsEnd
  <2>4. /\ o \in Int /\ x \in Int
        /\ \A k \in x .. o : k \in 1 .. encodingIdx - 1 /\ k # p
    BY <1>2, <2>1, <2>3
  <2>5. \A k \in x .. o : encodeStream_[k].bytes = encodeStream_'[k].bytes
    BY <1>5, <2>4
  <2>6. BytesOf(encodeStream_, x, o) = BytesOf(encodeStream_', x, o)
    BY <2>4, <2>5, BytesOfAgree
  <2>7. meta_offset'[x] = o /\ meta_size_offset'[x] = BytesOf(encodeStream_', x, o)
    BY <1>10, <1>11, <2>1, <2>2, <2>6
  <2>8. IsEnd(St, x, o)'
    BY <1>1, <2>1, <2>2 DEF IsEnd
  <2>9. encodeStream_'[x].data = Head(St[x])
    BY <1>5, <1>11, <2>1
  <2> QED
    BY <1>1, <1>6, <1>10, <2>1, <2>7, <2>8, <2>9 DEF FilledAt
<1>12. FilledAt(St, p)'
  <2>1. /\ p \in Int /\ e \in Int /\ p <= e /\ p + 1 \in Int
        /\ \A k \in p .. e : k \in 1 .. encodingIdx - 1 /\ k \in 1 .. Len(encodeStream_')
        /\ \A k \in p + 1 .. e : k \in 1 .. encodingIdx - 1 /\ k # p
    BY <1>2, <1>3, <1>5
  <2>2. \A k \in p .. e : Len(encodeStream_'[k].bytes) \in Int
    <3>1. encodeStream_' \in Seq(Entry)
      BY ScanTakeKeepsIInv DEF IInv, TypeOK
    <3>2. \A k \in 1 .. Len(encodeStream_') : Len(encodeStream_'[k].bytes) \in Int
      BY <3>1, EntryLengths
    <3> QED
      BY <2>1, <3>2
  <2>3. BytesOf(encodeStream_', p, e)
          = Len(encodeStream_'[p].bytes) + BytesOf(encodeStream_', p + 1, e)
    BY <2>1, <2>2, BytesOfFirst
  <2>4. BytesOf(encodeStream_, p + 1, e) = BytesOf(encodeStream_', p + 1, e)
    <3>1. \A k \in p + 1 .. e : encodeStream_[k].bytes = encodeStream_'[k].bytes
      BY <1>5, <2>1
    <3> QED
      BY <2>1, <3>1, BytesOfAgree
  <2>5. meta_size_offset'[p] = BytesOf(encodeStream_', p, e)
    <3>1. Len(md) \in Nat /\ scan.nestedsize \in Nat
      BY <1>1, ScanningFacts DEF Frame
    <3> QED
      BY <1>1, <1>3, <1>5, <1>10, <2>3, <2>4, <3>1
  <2>6. IsEnd(St, p, e)'
    BY <1>1, <1>3 DEF IsEnd
  <2> QED
    BY <1>1, <1>2, <1>5, <1>6, <1>10, <2>5, <2>6 DEF FilledAt
<1>13. \A x \in DOMAIN meta_size_offset' : FilledAt(St, x)'
  BY <1>10, <1>11, <1>12
<1>14. AllPlaced(St)'
  <2>1. AllPlaced(St)
    BY <1>1 DEF Layout, Working
  <2> QED
    BY <1>1, <1>6, <1>10, <2>1 DEF AllPlaced, IsComposite
<1> QED
  BY <1>1, <1>7, <1>9, <1>13, <1>14 DEF Layout, ScanAt

(* The layout speaks of these variables only.                              *)
LEMMA IdleKeepsLayout ==
  ASSUME NEW St, Layout(St),
         UNCHANGED <<heap, root, encodeStream_, meta_offset, meta_size_offset, calls, pc,
                     TraverseStack, MetaStack, encodingIdx, scan>>
  PROVE  Layout(St)'
<1>1. Pending' = Pending
  BY DEF Pending
<1>2. Trace(St)' /\ \A p : FilledAt(St, p) => FilledAt(St, p)'
  BY <1>1, StreamStays DEF Layout
<1>3. Visited(St)'
  BY DEF Layout, Visited, IsComposite
<1>4. ScanAt(St)'
  BY DEF Layout, ScanAt, IsComposite, ChildBegins, KidsOf
<1>5. AllPlaced(St)' = AllPlaced(St)
  BY <1>1 DEF AllPlaced, IsComposite
<1> QED
  BY <1>1, <1>2, <1>3, <1>4, <1>5 DEF Layout

LEMMA LayoutInvNext == IInv /\ PendingInv /\ LayoutInv /\ [Next]_vars => LayoutInv'
<1> SUFFICES ASSUME IInv, PendingInv, LayoutInv, [Next]_vars, calls' = 1, OnceLast'
             PROVE  \E St : Layout(St)'
  BY DEF LayoutInv
<1>1. ASSUME NEW r \in DOMAIN heap, Encode(r) PROVE \E St : Layout(St)'
  BY <1>1, EncodeMakesLayout
<1>2. ASSUME UNCHANGED <<heap, root, calls>>
      PROVE  OnceLast /\ \E St : Layout(St)
  <2>1. OnceLast
    BY <1>2 DEF OnceLast, OnceLastIn
  <2> QED
    BY <1>2, <2>1 DEF LayoutInv
<1>3. ASSUME VisitPrimitive PROVE \E St : Layout(St)'
  <2>1. PICK St : Layout(St)
    BY <1>2, <1>3, EmitEffect
  <2> QED
    BY <1>3, <2>1, EmitKeepsLayout
<1>4. ASSUME VisitComposite PROVE \E St : Layout(St)'
  <2>1. PICK St : Layout(St)
    BY <1>2, <1>4, VisitCompositeEffect
  <2> QED
    BY <1>4, <2>1, VisitCompositeKeepsLayout
<1>5. ASSUME OtherAction PROVE \E St : Layout(St)'
  <2>1. calls = 1 /\ UNCHANGED <<heap, root, calls>>
    BY <1>5, OtherEffect
  <2>2. PICK St : Layout(St)
    BY <1>2, <2>1
  <2>3. Layout(St)'
    BY <1>5, <2>1, <2>2, OtherKeepsLayout
  <2> QED
    BY <2>3
<1>6. ASSUME BeginMeta PROVE \E St : Layout(St)'
  <2>1. calls = 1 /\ UNCHANGED <<heap, root, calls>>
    BY <1>6, BeginMetaEffect
  <2>2. PICK St : Layout(St)
    BY <1>2, <2>1
  <2>3. Layout(St)'
    BY <1>6, <2>1, <2>2, BeginMetaKeepsLayout
  <2> QED
    BY <2>3
<1>7. ASSUME EncodeFieldName PROVE \E St : Layout(St)'
  <2>1. calls = 1 /\ UNCHANGED <<heap, root, calls>>
    BY <1>7, EncodeFieldNameEffect
  <2>2. PICK St : Layout(St)
    BY <1>2, <2>1
  <2>3. Layout(St)'
    BY <1>7, <2>1, <2>2, EncodeFieldNameKeepsLayout
  <2> QED
    BY <2>3
<1>8. ASSUME ScanSkip PROVE \E St : Layout(St)'
  <2>1. /\ calls = 1 /\ UNCHANGED <<heap, root, calls>> /\ Scanning /\ ~ SameType
    BY <1>8, ScanSkipEffect
  <2>2. PICK St : Layout(St)
    BY <1>2, <2>1
  <2>3. Scanned.data = DataTraverse
    BY <2>1, <2>2, ScanFinds
  <2> QED
    BY <2>1, <2>3 DEF SameType
<1>9. ASSUME ScanTake PROVE \E St : Layout(St)'
  <2>1. /\ calls = 1 /\ UNCHANGED <<heap, root, calls>>
    BY <1>9, ScanTakeEffect
  <2>2. OnceLast /\ \E St : Layout(St)
    BY <1>2, <2>1
  <2>3. PICK St : Layout(St)
    BY <2>2
  <2>4. Layout(St)'
    BY <1>9, <2>1, <2>2, <2>3, TakeOnKeepsLayout, TakeLastKeepsLayout
  <2> QED
    BY <2>4
<1>10. ASSUME UNCHANGED vars PROVE \E St : Layout(St)'
  <2>1. UNCHANGED <<heap, root, encodeStream_, meta_offset, meta_size_offset, calls, pc,
                    TraverseStack, MetaStack, encodingIdx, scan>>
    BY <1>10 DEF vars, members, locals
  <2>2. PICK St : Layout(St)
    BY <1>2, <2>1
  <2>3. Layout(St)'
    BY <2>1, <2>2, IdleKeepsLayout
  <2> QED
    BY <2>3
<1> QED
  BY <1>1, <1>3, <1>4, <1>5, <1>6, <1>7, <1>8, <1>9, <1>10, NextCases

LEMMA LayoutHolds == Spec => [](IInv /\ PendingInv /\ LayoutInv)
<1>1. Init => LayoutInv
  BY DEF Init, LayoutInv
<1>2. PendingInv /\ LayoutInv /\ IInv /\ [Next]_vars => PendingInv' /\ LayoutInv'
  BY PendingInvNext, LayoutInvNext
<1> QED
  BY <1>1, <1>2, PendingInvInit, IInvHolds, PTL DEF Spec

-----------------------------------------------------------------------------
(* EncodingMeta looks for a child by its type name alone and still stops   *)
(* at the child itself, in every document in which no composite holds its  *)
(* last child twice, however its other objects are shared.                 *)
THEOREM ScanFindsChild == Spec => [](OnceLast => ScanMeetsChild)
<1>1. IInv /\ PendingInv /\ LayoutInv => (OnceLast => ScanMeetsChild)
  <2> SUFFICES ASSUME IInv, PendingInv, LayoutInv, OnceLast, calls = 1, Scanning
               PROVE  Scanned.data = DataTraverse
    BY DEF ScanMeetsChild
  <2>1. PICK St : Layout(St)
    BY DEF LayoutInv
  <2> QED
    BY <2>1, ScanFinds
<1> QED
  BY <1>1, LayoutHolds, PTL

(* When the scan comes to a nested composite its size and its last         *)
(* position have been recorded, and are never the -1 of a placeholder.     *)
THEOREM LookupsFilled == Spec => [](OnceLast => LookupsAreFilled)
<1>1. IInv /\ PendingInv /\ LayoutInv => (OnceLast => LookupsAreFilled)
  <2> SUFFICES ASSUME IInv, PendingInv, LayoutInv, OnceLast, calls = 1, Scanning,
                      ~ isPrimitive(heap[Scanned.data])
               PROVE  scan.i \in DOMAIN meta_size_offset /\ meta_offset[scan.i] >= scan.i
    BY DEF LookupsAreFilled
  <2>1. PICK St : Layout(St)
    BY DEF LayoutInv
  <2>2. /\ Scanned.data = DataTraverse /\ scan.i \in 1 .. encodingIdx - 1
        /\ encodingIdx \in Nat
        /\ ~ TakesPrimitive => scan.i \in DOMAIN meta_size_offset /\ FilledAt(St, scan.i)
    BY <2>1, ScanFinds
  <2>3. ~ TakesPrimitive
    BY <2>2 DEF TakesPrimitive
  <2>4. meta_offset[scan.i] \in scan.i .. encodingIdx - 1
    BY <2>2, <2>3 DEF FilledAt, IsEnd
  <2> QED
    BY <2>2, <2>3, <2>4
<1> QED
  BY <1>1, LayoutHolds, PTL

(* The size recorded for a composite, from which its parent writes the     *)
(* length the decoder jumps by, is what its entry and those of all objects *)
(* below it take in the stream.                                            *)
THEOREM SizesOfSpans == Spec => [](OnceLast => SizesAddUp)
<1>1. IInv /\ PendingInv /\ LayoutInv => (OnceLast => SizesAddUp)
  <2> SUFFICES ASSUME LayoutInv, OnceLast, calls = 1, NEW p \in DOMAIN meta_size_offset
               PROVE  meta_size_offset[p] = ByteCount(p, meta_offset[p])
    BY DEF SizesAddUp
  <2>1. PICK St : Layout(St)
    BY DEF LayoutInv
  <2>2. meta_size_offset[p] = BytesOf(encodeStream_, p, meta_offset[p])
    BY <2>1 DEF Layout, FilledAt
  <2> QED
    BY <2>2 DEF BytesOf, ByteCount
<1> QED
  BY <1>1, LayoutHolds, PTL

(* When the entries are summed up every placeholder has been filled.       *)
THEOREM AllFilled == Spec => [](OnceLast => NoPlaceholderLeft)
<1>1. IInv /\ PendingInv /\ LayoutInv => (OnceLast => NoPlaceholderLeft)
  <2> SUFFICES ASSUME IInv, LayoutInv, OnceLast, calls = 1, pc \in {"sum", "returned"},
                      NEW p \in DOMAIN encodeStream_
               PROVE  encodeStream_[p].data # NULL
    BY DEF NoPlaceholderLeft
  <2>1. PICK St : Layout(St)
    BY DEF LayoutInv
  <2>2. p \in 1 .. encodingIdx - 1
    <3>1. encodingIdx = Len(encodeStream_) + 1 /\ Len(encodeStream_) \in Nat
      BY <2>1, StreamTyped DEF Layout, Visited
    <3>2. p \in 1 .. Len(encodeStream_)
      BY StreamTyped
    <3> QED
      BY <3>1, <3>2
  <2>3. Pending = {}
    <3>1. MetaStack = <<>>
      BY <2>1 DEF Layout
    <3> QED
      BY <3>1 DEF Pending
  <2>4. encodeStream_[p].data = Head(St[p])
    <3>1. CASE IsComposite(Head(St[p]))
      <4>1. p \in DOMAIN meta_size_offset
        BY <2>1, <2>2, <2>3, <3>1 DEF Layout, AllPlaced
      <4> QED
        BY <2>1, <4>1 DEF Layout, FilledAt
    <3>2. CASE ~ IsComposite(Head(St[p]))
      BY <2>1, <2>2, <3>2 DEF Layout, Visited
    <3> QED
      BY <3>1, <3>2
  <2>5. Head(St[p]) \in DOMAIN heap
    BY <2>1, <2>2, TraceStep DEF Layout
  <2>6. DOMAIN heap = 1 .. Len(heap)
    BY <2>5, DocTyped DEF IInv
  <2> QED
    BY <2>4, <2>5, <2>6 DEF NULL
<1> QED
  BY <1>1, LayoutHolds, PTL
=============================================================================
