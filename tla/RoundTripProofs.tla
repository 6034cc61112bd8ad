--------------------------- MODULE RoundTripProofs --------------------------
(***************************************************************************)
(* Proofs about the scenario of encoding_test.cc, for every set of         *)
(* documents: one that the library supports goes through all three calls   *)
(* and comes back as it was sent.  The calls are those WireProofs and      *)
(* DecoderProofs speak of, of an Encoder whose documents are all heaps the *)
(* constructors and add() can build, and of a Decoder whose clean documents*)
(* are the supported ones.                                                 *)
(***************************************************************************)
EXTENDS RoundTrip, DataLemmas

BuiltHeaps == {h \in Seq(Data) : WellBuilt(h)}
Sent       == {h \in Docs : Supported(h)}

EP == INSTANCE WireProofs WITH Docs <- BuiltHeaps, MaxEncodes <- 1, pc <- encPc
DP == INSTANCE DecoderProofs
        WITH Sessions <- {<<>>}, session <- <<>>, decodes <- 0, pc <- decPc,
             CleanDocs <- Sent, last <- <<>>, start <- 0, unset <- FALSE

-----------------------------------------------------------------------------
(* The definitions the components share are the same in all three modules. *)
LEMMA SameData ==
  /\ EP!Byte = Byte /\ EP!Data = Data /\ \A h : EP!WellBuilt(h) <=> WellBuilt(h)
  /\ DP!Byte = Byte /\ DP!Data = Data /\ \A h : DP!WellBuilt(h) <=> WellBuilt(h)
<1>1. EP!Byte = Byte /\ DP!Byte = Byte
  BY DEF Byte, EP!Byte, DP!Byte
<1>2. EP!Data = Data /\ DP!Data = Data
  BY <1>1, Zenon DEF Data, EP!Data, DP!Data, DataTypes, EP!DataTypes, DP!DataTypes,
     PrimitiveTypes, EP!PrimitiveTypes, DP!PrimitiveTypes, NumberTypes, EP!NumberTypes,
     DP!NumberTypes, CompositeTypes, EP!CompositeTypes, DP!CompositeTypes
<1>3. \A h : EP!WellBuilt(h) <=> WellBuilt(h)
  BY <1>1, <1>2, Zenon DEF WellBuilt, EP!WellBuilt
<1>4. \A h : DP!WellBuilt(h) <=> WellBuilt(h)
  BY <1>1, <1>2, Zenon DEF WellBuilt, DP!WellBuilt
<1> QED
  BY <1>1, <1>2, <1>3, <1>4

(* The varints,                                                            *)
LEMMA SameVarint ==
  /\ \A v : EP!VarientEncoding(v) = VarientEncoding(v)
  /\ \A v : DP!VarientEncoding(v) = VarientEncoding(v)
  /\ \A v : DP!NumGroups(v) = NumGroups(v)
<1>0. \A s : EP!Cardinality(s) = Cardinality(s) /\ DP!Cardinality(s) = Cardinality(s)
  BY Zenon DEF Cardinality, EP!Cardinality, DP!Cardinality
<1>1. \A v : EP!NumGroups(v) = NumGroups(v) /\ DP!NumGroups(v) = NumGroups(v)
  BY <1>0, Zenon DEF NumGroups, EP!NumGroups, DP!NumGroups
<1> QED
  BY <1>1, Zenon DEF VarientEncoding, EP!VarientEncoding, DP!VarientEncoding

(* the bytes of an object,                                                 *)
LEMMA SameBytes ==
  /\ \A x, c : EP!ObjectBytes(x, c) = ObjectBytes(x, c)
  /\ \A x, c : DP!ObjectBytes(x, c) = ObjectBytes(x, c)
<1>1. \A d : EP!TypeEncoding(d) = TypeEncoding(d) /\ DP!TypeEncoding(d) = TypeEncoding(d)
  BY SameVarint, Zenon
  DEF TypeEncoding, EP!TypeEncoding, DP!TypeEncoding, TypeCode, EP!TypeCode, DP!TypeCode
<1>2. \A s : EP!FlattenSeq(s) = FlattenSeq(s) /\ DP!FlattenSeq(s) = FlattenSeq(s)
  BY Zenon DEF FlattenSeq, EP!FlattenSeq, DP!FlattenSeq
<1>3. \A x, c : EP!ObjectBytes(x, c) = ObjectBytes(x, c)
  BY <1>1, <1>2, SameVarint, ZenonT(40)
  DEF ObjectBytes, EP!ObjectBytes, NumberTypes, EP!NumberTypes, HasTypeCode, EP!HasTypeCode,
     TypeCode, EP!TypeCode
<1>4. \A x, c : DP!ObjectBytes(x, c) = ObjectBytes(x, c)
  BY <1>1, <1>2, SameVarint, ZenonT(40)
  DEF ObjectBytes, DP!ObjectBytes, NumberTypes, DP!NumberTypes, HasTypeCode, DP!HasTypeCode,
     TypeCode, DP!TypeCode
<1> QED
  BY <1>3, <1>4

(* the format of a document and the document as a tree,                    *)
LEMMA SameFormat ==
  ASSUME NEW h, NEW r
  PROVE  /\ EP!Wire(h, r) = Wire(h, r) /\ DP!Wire(h, r) = Wire(h, r)
         /\ DP!Below(h, r) = Below(h, r) /\ DP!Tree(h, r) = Tree(h, r)
<1>1. EP!Wire(h, r) = Wire(h, r) /\ DP!Wire(h, r) = Wire(h, r)
  BY SameBytes, Zenon DEF Wire, EP!Wire, DP!Wire
<1>2. DP!Below(h, r) = Below(h, r)
  BY Zenon DEF Below, DP!Below
<1>3. DP!Tree(h, r) = Tree(h, r)
  BY Zenon DEF Tree, DP!Tree
<1> QED
  BY <1>1, <1>2, <1>3

(* the kinds of objects,                                                   *)
LEMMA SameKinds ==
  /\ EP!NumberTypes = NumberTypes /\ EP!CompositeTypes = CompositeTypes
  /\ DP!NumberTypes = NumberTypes /\ DP!CompositeTypes = CompositeTypes
  /\ DP!PrimitiveTypes = PrimitiveTypes
BY DEF NumberTypes, CompositeTypes, PrimitiveTypes, EP!NumberTypes, EP!CompositeTypes,
   DP!NumberTypes, DP!CompositeTypes, DP!PrimitiveTypes

(* what an object and a heap must be like,                                 *)
LEMMA SameShape ==
  ASSUME NEW h
  PROVE  /\ \A r : EP!Cyclic(h, r) <=> Cyclic(h, r)
         /\ DP!Grounded(h) <=> Grounded(h)
         /\ \A x : EP!LastChildTwice(x) <=> LastChildTwice(x)
         /\ \A x : DP!LastChildTwice(x) <=> LastChildTwice(x)
         /\ \A x : DP!Shaped(x) <=> Shaped(x)
         /\ \A x : DP!NumbersFit(h, x) <=> NumbersFit(h, x)
         /\ DP!Carried(h, 1) <=> Carried(h, 1)
         /\ DP!RanksOf(h, MaxDepth) = RanksOf(h, MaxDepth)
<1>1. \A r : EP!Cyclic(h, r) <=> Cyclic(h, r)
  BY SameKinds, Zenon DEF Cyclic, EP!Cyclic, Endless, EP!Endless
<1>2. \A r : DP!Cyclic(h, r) <=> Cyclic(h, r)
  BY SameKinds, Zenon DEF Cyclic, DP!Cyclic, Endless, DP!Endless
<1>3. DP!Grounded(h) <=> Grounded(h)
  BY <1>2, SameKinds, Zenon DEF Grounded, DP!Grounded
<1>4. \A x : EP!LastChildTwice(x) <=> LastChildTwice(x)
  BY Zenon DEF LastChildTwice, EP!LastChildTwice, numofElements, EP!numofElements
<1>5. \A x : DP!LastChildTwice(x) <=> LastChildTwice(x)
  BY Zenon DEF LastChildTwice, DP!LastChildTwice, numofElements, DP!numofElements
<1>6. \A x : DP!Shaped(x) <=> Shaped(x)
  BY SameKinds, Zenon DEF Shaped, DP!Shaped
<1>7. \A x : DP!NumbersFit(h, x) <=> NumbersFit(h, x)
  BY SameKinds, SameFormat, Zenon DEF NumbersFit, DP!NumbersFit, InRange, DP!InRange
<1>8. \A v : DP!SurvivesVarint(v) <=> SurvivesVarint(v)
  BY SameVarint, Zenon DEF SurvivesVarint, DP!SurvivesVarint
<1>9. \A x : DP!CarriedObject(h, x) <=> CarriedObject(h, x)
  BY <1>8, SameKinds, SameFormat, Zenon DEF CarriedObject, DP!CarriedObject
<1>10. DP!Carried(h, 1) <=> Carried(h, 1)
  BY <1>9, SameFormat, Zenon DEF Carried, DP!Carried
<1>11. DP!RanksOf(h, MaxDepth) = RanksOf(h, MaxDepth)
  BY SameKinds, Zenon DEF RanksOf, DP!RanksOf
<1> QED
  BY <1>1, <1>3, <1>4, <1>5, <1>6, <1>7, <1>10, <1>11

(* and the reads of the decoder.                                           *)
LEMMA SameReader ==
  \A b, at : /\ D!VariantDecoder(b, at) = DP!VariantDecoder(b, at)
             /\ D!VarintEnd(b, at) = DP!VarintEnd(b, at)
             /\ D!VarintReadable(b, at) <=> DP!VarintReadable(b, at)
<1>1. \A b, at : D!VarintEnd(b, at) = DP!VarintEnd(b, at)
  BY Zenon DEF D!VarintEnd, DP!VarintEnd, D!HasMore, DP!HasMore
<1>2. \A b, at : D!VarintReadable(b, at) <=> DP!VarintReadable(b, at)
  BY Zenon DEF D!VarintReadable, DP!VarintReadable, D!HasMore, DP!HasMore
<1>3. \A f : D!SumFunction(f) = DP!SumFunction(f)
  BY ZenonT(60) DEF D!SumFunction, DP!SumFunction, D!SumFunctionOnSet, DP!SumFunctionOnSet,
     D!FoldFunctionOnSet, DP!FoldFunctionOnSet, D!MapThenFoldSet, DP!MapThenFoldSet
<1>4. \A b, at : D!VariantDecoder(b, at) = DP!VariantDecoder(b, at)
  BY <1>1, <1>3, Zenon DEF D!VariantDecoder, DP!VariantDecoder,
     D!HighBitShiftedOut, DP!HighBitShiftedOut
<1> QED
  BY <1>1, <1>2, <1>4

-----------------------------------------------------------------------------
(* The steps of the scenario are those of the two components.              *)
LEMMA SameEncode ==
  ASSUME NEW r, E!Encode(r)
  PROVE  EP!Encode(r)
BY Zenon
     DEF E!Encode, EP!Encode, E!members, EP!members, E!NoScan, EP!NoScan, E!NULL, EP!NULL

(* The other steps of encode() and decode().                               *)
LEMMA SameEncoderStep == E!Step => EP!Step
<1>0. \A v : E!VarientEncoding(v) = EP!VarientEncoding(v)
  <2>1. \A s : E!Cardinality(s) = EP!Cardinality(s)
    BY Zenon DEF E!Cardinality, EP!Cardinality
  <2>2. \A v : E!NumGroups(v) = EP!NumGroups(v)
    BY <2>1, Zenon DEF E!NumGroups, EP!NumGroups
  <2> QED
    BY <2>2, Zenon DEF E!VarientEncoding, EP!VarientEncoding
<1>1. \A d : E!TypeEncoding(d) = EP!TypeEncoding(d)
  BY <1>0, Zenon DEF E!TypeEncoding, EP!TypeEncoding, E!TypeCode, EP!TypeCode
<1>2. \A S : E!Visiting(S) <=> EP!Visiting(S)
  BY Zenon DEF E!Visiting, EP!Visiting, E!Top, EP!Top
<1>3. \A b : E!EmitPrimitive(b) <=> EP!EmitPrimitive(b)
  BY Zenon DEF E!EmitPrimitive, EP!EmitPrimitive, E!Top, EP!Top
<1>4. \A t : E!StoiReads(t) <=> EP!StoiReads(t)
  BY Zenon DEF E!StoiReads, EP!StoiReads
<1>5. E!NumberTypes = EP!NumberTypes /\ E!CompositeTypes = EP!CompositeTypes
  BY Zenon DEF E!NumberTypes, EP!NumberTypes, E!CompositeTypes, EP!CompositeTypes
<1>6. E!Top = EP!Top /\ \A c : E!DanglingReads(c) = EP!DanglingReads(c)
  BY Zenon DEF E!Top, EP!Top, E!DanglingReads, EP!DanglingReads
<1>7. \A fn, k, v : E!Put(fn, k, v) = EP!Put(fn, k, v) /\ E!Touch(fn, k, v) = EP!Touch(fn, k, v)
  BY Zenon DEF E!Put, EP!Put, E!Touch, EP!Touch
<1>8. E!VisitString => EP!VisitString
  BY <1>0, <1>1, <1>2, <1>3, <1>6, Zenon DEF E!VisitString, EP!VisitString
<1>9. E!VisitNumber => EP!VisitNumber
  BY <1>0, <1>1, <1>2, <1>3, <1>4, <1>5, <1>6, Zenon DEF E!VisitNumber, EP!VisitNumber
<1>24. E!UnsetTag <=> EP!UnsetTag
  BY Zenon DEF E!UnsetTag, EP!UnsetTag
<1>25. E!VisitingNumber <=> EP!VisitingNumber
  BY <1>2, <1>5, <1>24, Zenon DEF E!VisitingNumber, EP!VisitingNumber
<1>26. E!VisitOther => EP!VisitOther
  BY <1>0, <1>2, <1>3, <1>4, <1>6, Zenon DEF E!VisitOther, EP!VisitOther
<1>27. E!TypeDiverges \/ E!VisitWild => EP!TypeDiverges \/ EP!VisitWild
  BY <1>2, Zenon
     DEF E!TypeDiverges, EP!TypeDiverges, E!VisitWild, EP!VisitWild, E!members, EP!members,
     E!locals, EP!locals
<1>10. E!NumberThrows => EP!NumberThrows
  BY <1>4, <1>6, <1>25, Zenon
     DEF E!NumberThrows, EP!NumberThrows, E!members, EP!members, E!locals, EP!locals
<1>11. E!NumberDiverges => EP!NumberDiverges
  BY <1>4, <1>6, <1>25, Zenon
     DEF E!NumberDiverges, EP!NumberDiverges, E!members, EP!members, E!locals, EP!locals
<1>12. E!VisitComposite => EP!VisitComposite
  BY <1>2, <1>5, <1>6, <1>7, Zenon
     DEF E!VisitComposite, EP!VisitComposite, E!NoOffset, EP!NoOffset, E!Placeholder,
     EP!Placeholder, E!NULL, EP!NULL, E!PushMeta, EP!PushMeta, E!Pushed, EP!Pushed
<1>13. E!EndTraverse => EP!EndTraverse
  <2>1. E!MetaRounds = EP!MetaRounds
    BY Zenon DEF E!MetaRounds, EP!MetaRounds, E!Cardinality, EP!Cardinality
  <2> QED
    BY <2>1, Zenon
     DEF E!EndTraverse, EP!EndTraverse, E!members, EP!members
<1>14. E!TopHasElements <=> EP!TopHasElements
  BY Zenon
     DEF E!TopHasElements, EP!TopHasElements, E!numofElements, EP!numofElements
<1>15. E!BeginMeta => EP!BeginMeta
  BY <1>0, <1>1, <1>14, Zenon
     DEF E!BeginMeta, EP!BeginMeta, E!TypeSize, EP!TypeSize, E!members, EP!members,
     E!numofElements, EP!numofElements
<1>16. E!MetaOfNothing => EP!MetaOfNothing
  BY <1>14, Zenon
     DEF E!MetaOfNothing, EP!MetaOfNothing, E!members, EP!members, E!locals, EP!locals
<1>17. E!EncodeFieldName => EP!EncodeFieldName
  BY <1>0, Zenon
     DEF E!EncodeFieldName, EP!EncodeFieldName, E!members, EP!members, E!numofElements,
     EP!numofElements
<1>18. /\ E!DataTraverse = EP!DataTraverse /\ E!Scanned = EP!Scanned
       /\ (E!Scanning <=> EP!Scanning) /\ (E!SameType <=> EP!SameType) /\ E!NULL = EP!NULL
  BY Zenon
     DEF E!DataTraverse, EP!DataTraverse, E!Scanned, EP!Scanned, E!Scanning, EP!Scanning,
     E!SameType, EP!SameType, E!NULL, EP!NULL
<1>19. \A i, fr : E!GoOnAt(i, fr) <=> EP!GoOnAt(i, fr)
  BY Zenon
     DEF E!GoOnAt, EP!GoOnAt, E!Resumed, EP!Resumed, E!NoScan, EP!NoScan, E!NULL, EP!NULL
<1>20. E!ScanNull => EP!ScanNull
  BY <1>18, Zenon
     DEF E!ScanNull, EP!ScanNull, E!members, EP!members, E!locals, EP!locals
<1>21. E!ScanSkip => EP!ScanSkip
  BY <1>18, <1>19, Zenon
     DEF E!ScanSkip, EP!ScanSkip, E!members, EP!members
<1>22. E!ScanTake => EP!ScanTake
  BY <1>0, <1>7, <1>18, <1>19, ZenonT(60)
     DEF E!ScanTake, EP!ScanTake, E!isPrimitive, EP!isPrimitive, E!PrimitiveTypes,
     EP!PrimitiveTypes, E!NumberTypes, EP!NumberTypes, E!numofElements, EP!numofElements,
     E!Filled, EP!Filled, E!NoScan, EP!NoScan, E!NULL, EP!NULL
<1>23. E!EndMeta \/ E!SumUp \/ E!Return => EP!EndMeta \/ EP!SumUp \/ EP!Return
  BY Zenon
     DEF E!EndMeta, EP!EndMeta, E!SumUp, EP!SumUp, E!Return, EP!Return, E!members,
     EP!members, E!locals, EP!locals
<1> QED
  BY <1>8, <1>9, <1>10, <1>11, <1>12, <1>13, <1>15, <1>16, <1>17, <1>20, <1>21, <1>22, <1>23,
     <1>26, <1>27, Zenon DEF E!Step, EP!Step

(* DP makes no calls of its own: its history is a constant.                *)
LEMMA SameDecoderStep == D!Step => DP!Step
<1>1. /\ D!Readable <=> DP!Readable
      /\ D!Tag = DP!Tag /\ D!TypeCode = DP!TypeCode
      /\ D!DataTypes = DP!DataTypes /\ D!NumberTypes = DP!NumberTypes
      /\ D!CompositeTypes = DP!CompositeTypes /\ D!PrimitiveTypes = DP!PrimitiveTypes
  BY Zenon
     DEF D!Readable, DP!Readable, D!Tag, DP!Tag, D!TypeCode, DP!TypeCode, D!DataTypes,
     DP!DataTypes, D!PrimitiveTypes, DP!PrimitiveTypes, D!NumberTypes, DP!NumberTypes,
     D!CompositeTypes, DP!CompositeTypes
<1>2. /\ \A S : D!Branch(S) <=> DP!Branch(S)
      /\ D!TaggedType = DP!TaggedType
  BY <1>1, Zenon
     DEF D!Branch, DP!Branch, D!TaggedType, DP!TaggedType
<1>3. /\ D!Length = DP!Length /\ D!AfterLength = DP!AfterLength
      /\ D!LengthIsRead <=> DP!LengthIsRead
  BY SameReader, Zenon
     DEF D!Length, DP!Length, D!AfterLength, DP!AfterLength, D!LengthIsRead, DP!LengthIsRead
<1>4. /\ D!This = DP!This /\ D!Value = DP!Value /\ D!Behind = DP!Behind
      /\ D!VarintReadable(bytes, D!This.at) <=> DP!VarintReadable(bytes, DP!This.at)
      /\ D!IntValue = DP!IntValue
  BY SameReader, Zenon
     DEF D!This, DP!This, D!Value, DP!Value, D!Behind, DP!Behind, D!IntValue, DP!IntValue,
     D!ToInt, DP!ToInt
<1>5. /\ \A ptr, below : D!Hand(ptr, below) => DP!Hand(ptr, below)
      /\ \A d, below : D!Deliver(d, below) => DP!Deliver(d, below)
  <2>1. \A fr, ptr : D!WithElement(fr, ptr) = DP!WithElement(fr, ptr)
    BY Zenon
       DEF D!WithElement, DP!WithElement, D!BehindElement, DP!BehindElement, D!ToInt, DP!ToInt
  <2>2. \A ptr, below : D!Hand(ptr, below) => DP!Hand(ptr, below)
    BY <2>1, Zenon DEF D!Hand, DP!Hand, D!NoCall, DP!NoCall
  <2>3. \A d, below : D!Deliver(d, below) => DP!Deliver(d, below)
    BY <2>2, Zenon DEF D!Deliver, DP!Deliver, D!NewPtr, DP!NewPtr
  <2> QED
    BY <2>2, <2>3
<1>21. D!MeetsUnknown => DP!MeetsUnknown
  BY <1>1, Zenon DEF D!MeetsUnknown, DP!MeetsUnknown, D!TypeIsKnown, DP!TypeIsKnown
<1>22. D!DecodeUnknown => DP!DecodeUnknown
  BY <1>3, <1>5, <1>21, Zenon DEF D!DecodeUnknown, DP!DecodeUnknown, D!Wild, DP!Wild
<1>6. \A o : D!Stop(o) => DP!Stop(o)
  BY Zenon
     DEF D!Stop, DP!Stop
<1>7. \A fr : D!Advance(fr) => DP!Advance(fr)
  BY Zenon
     DEF D!Advance, DP!Advance
<1>8. /\ D!WantsCount <=> DP!WantsCount
      /\ D!WantsName <=> DP!WantsName
      /\ D!WantsSize <=> DP!WantsSize
      /\ D!WantsChild <=> DP!WantsChild
      /\ D!HasAll <=> DP!HasAll
  BY <1>4, Zenon
     DEF D!WantsCount, DP!WantsCount, D!WantsName, DP!WantsName, D!WantsSize, DP!WantsSize,
     D!WantsChild, DP!WantsChild, D!WantsNothing, DP!WantsNothing, D!HasAll, DP!HasAll,
     D!InFrame, DP!InFrame, D!NotRead, DP!NotRead
<1>9. D!EnterComposite => DP!EnterComposite
  BY <1>1, <1>2, Zenon
     DEF D!EnterComposite, DP!EnterComposite, D!NotRead, DP!NotRead, D!NoCall, DP!NoCall
<1>10. \A t, v : D!Primitive(t, v) = DP!Primitive(t, v) /\ D!NewString(v) = DP!NewString(v)
  BY Zenon
     DEF D!Primitive, DP!Primitive, D!NewString, DP!NewString
<1>11. D!DecodeNumber => DP!DecodeNumber
  BY <1>1, <1>2, <1>3, <1>5, <1>10, Zenon
     DEF D!DecodeNumber, DP!DecodeNumber
<1>12. D!DecodeString => DP!DecodeString
  BY <1>1, <1>2, <1>3, <1>5, <1>10, Zenon
     DEF D!DecodeString, DP!DecodeString
<1>13. D!StringThrows => DP!StringThrows
  BY <1>2, <1>3, <1>6, Zenon
     DEF D!StringThrows, DP!StringThrows
<1>14. D!EnterUndefined => DP!EnterUndefined
  BY <1>1, <1>2, <1>3, <1>6, Zenon
     DEF D!EnterUndefined, DP!EnterUndefined
<1>15. D!ReadCount => DP!ReadCount
  BY <1>4, <1>7, <1>8, Zenon
     DEF D!ReadCount, DP!ReadCount
<1>16. D!ReadFieldName => DP!ReadFieldName
  BY <1>4, <1>7, <1>8, Zenon
     DEF D!ReadFieldName, DP!ReadFieldName
<1>17. D!ReadSize => DP!ReadSize
  BY <1>4, <1>7, <1>8, Zenon
     DEF D!ReadSize, DP!ReadSize
<1>18. D!DecodeChild => DP!DecodeChild
  BY <1>4, <1>8, Zenon
     DEF D!DecodeChild, DP!DecodeChild
<1>19. D!Complete => DP!Complete
  BY <1>4, <1>5, <1>8, Zenon
     DEF D!Complete, DP!Complete
<1>20. D!FrameThrows \/ D!FrameUndefined => DP!FrameThrows \/ DP!FrameUndefined
  BY <1>4, <1>6, <1>8, Zenon
     DEF D!FrameThrows, DP!FrameThrows, D!FrameUndefined, DP!FrameUndefined
<1> QED
  BY <1>9, <1>11, <1>12, <1>13, <1>14, <1>15, <1>16, <1>17, <1>18, <1>19, <1>20, <1>22,
     Zenon DEF D!Step, DP!Step

-----------------------------------------------------------------------------
(* What the scenario assumes of its documents makes what the proofs of the *)
(* two components assume of theirs true.                                   *)
LEMMA DocFacts ==
  ASSUME NEW h \in Docs
  PROVE  /\ WellBuilt(h) /\ Grounded(h) /\ 1 \in DOMAIN h /\ h \in Seq(Data)
         /\ RanksOf(h, MaxDepth) # {} /\ Below(h, 1) = DOMAIN h
         /\ \A d \in DOMAIN h : Shaped(h[d])
<1>1. /\ WellBuilt(h) /\ h # <<>> /\ Nesting(h) \in RanksOf(h, MaxDepth)
      /\ \A d \in DOMAIN h : d \in Below(h, 1) /\ Shaped(h[d])
  BY RoundTripAssumption
<1>2. h \in Seq(Data) /\ 1 \in DOMAIN h
  BY <1>1 DEF WellBuilt
<1>3. PICK rank : rank = Nesting(h)
  OBVIOUS
<1>4. /\ rank \in [DOMAIN h -> 0 .. MaxDepth]
      /\ \A d \in DOMAIN h : h[d].type \in CompositeTypes =>
           rank[d] > 0 /\ \A k \in DOMAIN h[d].kids : rank[h[d].kids[k]] < rank[d]
  BY <1>1, <1>3 DEF RanksOf
<1>5. ASSUME NEW r \in DOMAIN h, Cyclic(h, r) PROVE FALSE
  <2>1. PICK C \in SUBSET DOMAIN h : r \in C /\ Endless(h, C)
    BY <1>5 DEF Cyclic
  <2> DEFINE R == {rank[d] : d \in C}
  <2>2. R \in SUBSET Nat /\ rank[r] \in R
    <3>1. MaxDepth \in Nat
      BY RoundTripAssumption
    <3>2. \A d \in DOMAIN h : rank[d] \in Nat
      BY <1>4, <3>1
    <3> QED
      BY <2>1, <3>2
  <2>3. PICK m \in R : \A e \in R : m <= e
    BY <2>2, LeastOf
  <2>4. PICK d \in C : rank[d] = m
    BY <2>3
  <2>5. PICK k \in DOMAIN h[d].kids : h[d].type \in CompositeTypes /\ h[d].kids[k] \in C
    BY <2>1 DEF Endless
  <2>6. rank[h[d].kids[k]] < rank[d] /\ rank[h[d].kids[k]] \in R
    BY <1>4, <2>1, <2>5
  <2>7. rank[d] \in Nat /\ rank[h[d].kids[k]] \in Nat
    BY <2>2, <2>3, <2>4, <2>6
  <2>8. m <= rank[h[d].kids[k]]
    BY <2>3, <2>6, Zenon
  <2> QED
    BY <2>4, <2>6, <2>7, <2>8
<1>6. Grounded(h)
  <2>1. \A d \in DOMAIN h : h[d].type \notin CompositeTypes => h[d].kids = <<>>
    <3>1. \A d \in DOMAIN h : h[d] \in Data
      BY <1>2, ElementOfSeq
    <3> QED
      BY <1>1, <3>1 DEF Shaped, Data, DataTypes
  <2> QED
    BY <1>5, <2>1 DEF Grounded
<1>7. Below(h, 1) = DOMAIN h
  BY <1>1, <1>2, <1>6, BelowOfKids
<1> QED
  BY <1>1, <1>2, <1>6, <1>7, Zenon

(* Every heap the constructors build may be encoded,                       *)
LEMMA EncoderAssumed ==
  /\ \A h \in BuiltHeaps : EP!WellBuilt(h)
  /\ 1 \in Nat /\ MaxEntries \in Nat
  /\ SSO \in Nat
  /\ Junk \in EP!Byte
  /\ UnsetNumbers \subseteq Int
<1>1. \A h \in BuiltHeaps : EP!WellBuilt(h)
  BY SameData DEF BuiltHeaps
<1>2. Junk \in EP!Byte
  BY RoundTripAssumption, SameData
<1> QED
  BY <1>1, <1>2, RoundTripAssumption

(* the session of the Decoder is of no account in the scenario,            *)
LEMMA DecoderAssumed ==
  /\ {<<>>} \subseteq Seq(Seq(DP!Byte))
  /\ MaxDepth \in Nat \ {0}
<1>1. <<>> \in Seq(Seq(DP!Byte))
  OBVIOUS
<1> QED
  BY <1>1, RoundTripAssumption

(* and a supported document is a clean one.                                *)
LEMMA SentAssumed ==
  \A h \in Sent :
    /\ DP!WellBuilt(h) /\ h # <<>> /\ DP!RanksOf(h, MaxDepth) # {}
    /\ \A d \in DOMAIN h : DP!Shaped(h[d]) /\ DP!NumbersFit(h, d)
    /\ DP!Carried(h, 1)
<1>1. ASSUME NEW h \in Sent
      PROVE  /\ DP!WellBuilt(h) /\ h # <<>> /\ DP!RanksOf(h, MaxDepth) # {}
             /\ \A d \in DOMAIN h : DP!Shaped(h[d]) /\ DP!NumbersFit(h, d)
             /\ DP!Carried(h, 1)
  <2>1. h \in Docs /\ Supported(h)
    BY DEF Sent
  <2>2. WellBuilt(h) /\ h # <<>> /\ RanksOf(h, MaxDepth) # {}
    BY <2>1, DocFacts, RoundTripAssumption
  <2>3. \A d \in DOMAIN h : Shaped(h[d]) /\ NumbersFit(h, d)
    BY <2>1, RoundTripAssumption
  <2>4. Carried(h, 1)
    BY <2>1 DEF Supported, Carriable
  <2>5. DP!WellBuilt(h) /\ DP!RanksOf(h, MaxDepth) # {} /\ DP!Carried(h, 1)
    BY <2>2, <2>4, SameData, SameShape, Zenon
  <2>6. \A d \in DOMAIN h : DP!Shaped(h[d]) /\ DP!NumbersFit(h, d)
    BY <2>3, SameShape, Zenon
  <2> QED
    BY <2>2, <2>5, <2>6
<1> QED
  BY <1>1

(* A call of encode(), as WireProofs has it.                               *)
LEMMA EncodeBegins ==
  ASSUME WellBuilt(heap), calls = 0, NEW r \in DOMAIN heap, E!Encode(r),
         encodeStream_ = <<>>, meta_offset = <<>>, meta_size_offset = <<>>
  PROVE  EP!FirstCall' /\ calls' = 1 /\ root' = r /\ encPc' = "traverse" /\ heap' = heap
<1>1. heap \in BuiltHeaps
  BY DEF BuiltHeaps, WellBuilt
<1>2. EP!Encode(r)
  BY SameEncode
<1>3. EP!FirstCall'
  BY <1>1, <1>2, EP!CallBegins, EncoderAssumed, VarintAssumption, IntAssumption
<1> QED
  BY <1>3 DEF E!Encode

(* It runs when it says so, and reads the heap only.                       *)
LEMMA EncodeRuns ==
  ASSUME E!Step
  PROVE  encPc \in EP!Busy /\ heap' = heap
<1>1. CASE E!VisitString \/ E!VisitNumber \/ E!VisitOther \/ E!VisitComposite
  BY <1>1 DEF E!VisitString, E!VisitNumber, E!VisitOther, E!VisitComposite, E!EmitPrimitive,
     E!Visiting, EP!Busy
<1>2. CASE E!NumberThrows \/ E!NumberDiverges \/ E!EndTraverse \/ E!BeginMeta \/ E!MetaOfNothing
           \/ E!EncodeFieldName
  BY <1>2 DEF E!NumberThrows, E!NumberDiverges, E!EndTraverse, E!BeginMeta, E!MetaOfNothing,
     E!EncodeFieldName, E!VisitingNumber, E!Visiting, EP!Busy
<1>3. CASE E!ScanNull \/ E!ScanSkip \/ E!ScanTake
  BY <1>3 DEF E!ScanNull, E!ScanSkip, E!ScanTake, E!Scanning, EP!Busy
<1>4. CASE E!EndMeta \/ E!SumUp \/ E!Return
  BY <1>4 DEF E!EndMeta, E!SumUp, E!Return, EP!Busy
<1>5. CASE E!TypeDiverges \/ E!VisitWild
  BY <1>5 DEF E!TypeDiverges, E!VisitWild, E!Visiting, EP!Busy
<1> QED
  BY <1>1, <1>2, <1>3, <1>4, <1>5, Zenon DEF E!Step

(* A call goes on as it began.                                             *)
LEMMA EncodeGoesOn ==
  ASSUME EP!FirstCall, E!Step
  PROVE  EP!FirstCall' /\ UNCHANGED <<heap, root, calls>>
<1>1. EP!Step
  BY SameEncoderStep
<1>2. EP!FirstCall'
  BY <1>1, EP!FirstCallNext, EncoderAssumed, VarintAssumption, IntAssumption DEF EP!Next
<1>3. UNCHANGED <<heap, root, calls>>
  <2>1. CASE E!VisitString \/ E!VisitNumber \/ E!VisitOther \/ E!VisitComposite
    BY <2>1 DEF E!VisitString, E!VisitNumber, E!VisitOther, E!VisitComposite, E!EmitPrimitive
  <2>2. CASE E!NumberThrows \/ E!NumberDiverges \/ E!EndTraverse \/ E!BeginMeta \/ E!MetaOfNothing
             \/ E!EncodeFieldName
    BY <2>2 DEF E!NumberThrows, E!NumberDiverges, E!EndTraverse, E!BeginMeta, E!MetaOfNothing,
       E!EncodeFieldName
  <2>3. CASE E!ScanNull \/ E!ScanSkip \/ E!ScanTake
    BY <2>3 DEF E!ScanNull, E!ScanSkip, E!ScanTake
  <2>4. CASE E!EndMeta \/ E!SumUp \/ E!Return
    BY <2>4 DEF E!EndMeta, E!SumUp, E!Return
  <2>5. CASE E!TypeDiverges \/ E!VisitWild
    BY <2>5 DEF E!TypeDiverges, E!VisitWild
  <2> QED
    BY <2>1, <2>2, <2>3, <2>4, <2>5, Zenon DEF E!Step
<1> QED
  BY <1>2, <1>3

(* Its bytes are bytes, those of the format if the document has a form for *)
(* every object.                                                           *)
LEMMA EncodeAnswers ==
  ASSUME EP!FirstCall
  PROVE  /\ bytestream \in Seq(Byte)
         /\ calls = 1 /\ EP!PlainHeap(heap) /\ encPc = "returned" => bytestream = Wire(heap, root)
<1>1. bytestream \in Seq(Byte)
  BY SameData DEF EP!FirstCall, EP!IInv, EP!TypeOK
<1>2. ASSUME calls = 1, EP!PlainHeap(heap), encPc = "returned"
      PROVE  bytestream = Wire(heap, root)
  <2>1. bytestream = EP!Wire(heap, root)
    BY <1>2, EP!CallAnswers, EncoderAssumed, VarintAssumption, IntAssumption
  <2> QED
    BY <2>1, SameFormat
<1> QED
  BY <1>1, <1>2

(* For such a document the call does not fail.                             *)
LEMMA EncodeSucceeds ==
  ASSUME EP!FirstCall, calls = 1, EP!PlainHeap(heap), EP!Writable(heap), E!Step
  PROVE  encPc' \in EP!Busy \cup {"returned"}
<1>1. EP!Step
  BY SameEncoderStep
<1> QED
  BY <1>1, EP!CallGoesOn, EncoderAssumed, VarintAssumption, IntAssumption

-----------------------------------------------------------------------------
(* An object that encode() has bytes for.                                  *)
Fits(x) ==
  /\ x.type \notin {"OTHER", "WILD"}
  /\ x.type # "STRUCT" => x.names = <<>>
  /\ x.type = "STRING" => Len(x.value) <= SSO
  /\ x.type \in NumberTypes => x.value # <<>> /\ x.value[1] \in 0 .. IntMax
  /\ x.type \in CompositeTypes => x.kids # <<>>
  /\ ~ LastChildTwice(x)

(* A heap of such objects is one encode() writes without fail.             *)
LEMMA FitsIs ==
  ASSUME NEW h, Grounded(h), \A d \in DOMAIN h : Fits(h[d])
  PROVE  EP!PlainHeap(h) /\ EP!Writable(h)
<1>1. \A d \in DOMAIN h : ~ EP!Cyclic(h, d) /\ ~ EP!LastChildTwice(h[d])
  BY SameShape, Zenon DEF Grounded, Fits
<1>2. EP!PlainHeap(h)
  BY <1>1, SameKinds, Zenon DEF EP!PlainHeap, Grounded, Fits
<1>3. EP!Writable(h)
  BY SameKinds, Zenon DEF EP!Writable, Fits
<1> QED
  BY <1>2, <1>3

(* Every object of a supported document is such an object,                 *)
LEMMA SentFits ==
  ASSUME NEW h \in Sent, NEW d \in DOMAIN h
  PROVE  Fits(h[d])
<1>1. h \in Docs /\ Supported(h)
  BY DEF Sent
<1>2. d \in Below(h, 1) /\ h[d] \in Data /\ Shaped(h[d])
  BY <1>1, DocFacts, ElementOfSeq
<1>3. PICK x : x = h[d]
  OBVIOUS
<1>4. /\ CarriedObject(h, x)
      /\ x.type \in NumberTypes => x.value[1] <= IntMax
      /\ x.type = "STRING" => Len(x.value) <= SSO
      /\ x.type \in CompositeTypes => x.kids # <<>> /\ ~ LastChildTwice(x)
  BY <1>1, <1>2, <1>3, Zenon DEF Supported, Carriable, Carried
<1>5. CASE x.type \in NumberTypes
  <2>1. Len(x.value) = 1 /\ x.value[1] > 0 /\ x.value[1] <= IntMax
        /\ x.kids = <<>> /\ x.names = <<>>
    BY <1>2, <1>3, <1>4, <1>5
    DEF CarriedObject, SurvivesVarint, Shaped, CompositeTypes, NumberTypes
  <2>2. x.value[1] \in Int /\ IntMax \in Nat
    BY <1>2, <1>3, <2>1, IntAssumption DEF Data
  <2>3. x.value # <<>> /\ x.value[1] \in 0 .. IntMax
    BY <2>1, <2>2
  <2>4. ~ LastChildTwice(x)
    BY <2>1 DEF LastChildTwice, numofElements
  <2> QED
    BY <1>3, <1>5, <2>1, <2>3, <2>4 DEF Fits, NumberTypes, CompositeTypes
<1>6. CASE x.type = "STRING"
  <2>1. Len(x.value) <= SSO /\ x.kids = <<>> /\ x.names = <<>>
    BY <1>2, <1>3, <1>4, <1>6 DEF Shaped, CompositeTypes
  <2>2. ~ LastChildTwice(x)
    BY <2>1 DEF LastChildTwice, numofElements
  <2> QED
    BY <1>3, <1>6, <2>1, <2>2 DEF Fits, NumberTypes, CompositeTypes
<1>7. CASE x.type \notin NumberTypes /\ x.type # "STRING"
  <2>0. x.type \in CompositeTypes
    BY <1>4, <1>7 DEF CarriedObject
  <2>1. x.kids # <<>> /\ ~ LastChildTwice(x)
    BY <1>4, <2>0, Zenon
  <2>2. x.type # "STRUCT" => x.names = <<>>
    BY <1>2, <1>3 DEF Shaped
  <2> QED
    BY <1>3, <1>7, <2>0, <2>1, <2>2 DEF Fits, CompositeTypes
<1> QED
  BY <1>5, <1>6, <1>7

(* ... and so is one like it.                                              *)
LEMMA AlikeFits ==
  ASSUME NEW x \in Data, NEW y \in Data, Fits(y), DP!Alike(x, y)
  PROVE  Fits(x)
<1>1. /\ x.type = y.type /\ x.value = y.value /\ x.names = y.names
      /\ Len(x.kids) = Len(y.kids) /\ ~ LastChildTwice(x)
  BY SameShape, Zenon DEF DP!Alike
<1>2. y.kids # <<>> => x.kids # <<>>
  <2>1. x.kids \in Seq(Nat) /\ y.kids \in Seq(Nat)
    BY DEF Data
  <2> QED
    BY <1>1, <2>1
<1> QED
  BY <1>1, <1>2, Zenon DEF Fits

-----------------------------------------------------------------------------
(* The heap g holds the document h, and maybe more.                        *)
Holds(g, h) == DOMAIN h \subseteq DOMAIN g /\ \A d \in DOMAIN h : g[d] = h[d]

(* Then the document is still what it was.                                 *)
LEMMA HeldDocument ==
  ASSUME NEW h \in Docs, NEW g, WellBuilt(g), Grounded(g), Holds(g, h)
  PROVE  /\ Below(g, 1) = DOMAIN h /\ 1 \in DOMAIN g
         /\ Supported(g) <=> Supported(h)
         /\ Wire(g, 1) = Wire(h, 1) /\ Tree(g, 1) = Tree(h, 1)
<1>1. /\ WellBuilt(h) /\ Grounded(h) /\ 1 \in DOMAIN h /\ Below(h, 1) = DOMAIN h
  BY DocFacts
<1>2. DOMAIN h \subseteq DOMAIN g /\ 1 \in DOMAIN g /\ \A d \in DOMAIN h : g[d] = h[d]
  BY <1>1 DEF Holds
<1>3. \A d \in DOMAIN h : Wire(g, d) = Wire(h, d) /\ Tree(g, d) = Tree(h, d)
  BY <1>1, <1>2, WireExtended, TreeExtended
<1>4. \A d \in DOMAIN h : \A k \in DOMAIN h[d].kids : h[d].kids[k] \in DOMAIN h
  BY <1>1, KidsTyped
<1>5. Below(g, 1) \subseteq DOMAIN h
  <2>1. ClosedIn(g, DOMAIN h)
    BY <1>2, <1>4, Zenon DEF ClosedIn
  <2> QED
    BY <1>1, <2>1, BelowLeast
<1>6. DOMAIN h \subseteq Below(g, 1)
  <2>1. 1 \in Below(g, 1) /\ ClosedIn(g, Below(g, 1))
    BY <1>2, BelowClosed
  <2>2. ClosedIn(h, Below(g, 1))
    BY <1>2, <1>5, <2>1, Zenon DEF ClosedIn
  <2>3. Below(h, 1) \subseteq Below(g, 1)
    BY <1>1, <2>1, <2>2, BelowLeast
  <2> QED
    BY <1>1, <2>3
<1>7. Below(g, 1) = DOMAIN h
  BY <1>5, <1>6
<1>8. ASSUME NEW d \in DOMAIN h PROVE CarriedObject(g, h[d]) <=> CarriedObject(h, h[d])
  <2>1. [k \in DOMAIN h[d].kids |-> Len(Wire(g, h[d].kids[k]))]
          = [k \in DOMAIN h[d].kids |-> Len(Wire(h, h[d].kids[k]))]
    BY <1>3, <1>4
  <2> QED
    BY <2>1, Zenon DEF CarriedObject
<1>9. Carried(g, 1) <=> Carried(h, 1)
  BY <1>1, <1>2, <1>7, <1>8, Zenon DEF Carried
<1>10. Supported(g) <=> Supported(h)
  BY <1>1, <1>2, <1>7, <1>9, Zenon DEF Supported, Carriable
<1> QED
  BY <1>1, <1>2, <1>3, <1>7, <1>10

-----------------------------------------------------------------------------
(* A call of decode(), as DecoderProofs has it.                            *)
LEMMA DecodeBegins ==
  ASSUME WellBuilt(heap), Grounded(heap), schema = NULL, bytestream \in Seq(Byte),
         D!Decode(bytestream)
  PROVE  /\ DP!Sound' /\ heap' = heap /\ decPc' = "enter"
         /\ \A h \in Sent : heap = h /\ bytestream = Wire(h, 1) => DP!Decoding(h)'
<1>1. /\ heap' = heap /\ schema' = schema /\ decPc' = "enter" /\ frames' = <<>>
      /\ bytes' = bytestream /\ call' = DP!FirstByte
  BY DEF D!Decode, D!FirstByte, DP!FirstByte, D!SchemaAtEntry
<1>2. heap' \in Seq(Data) /\ schema' \in 0 .. Len(heap')
  BY <1>1 DEF WellBuilt, NULL
<1>3. DP!WellBuilt(heap') /\ DP!Grounded(heap') /\ bytes' \in Seq(DP!Byte)
  BY <1>1, SameData, SameShape
<1>4. DP!Sound'
  <2>1. <<>> \in Seq(Seq(DP!Byte)) /\ 0 \in 0 .. Len(<<>>)
    OBVIOUS
  <2> QED
    BY <1>1, <1>2, <1>3, <2>1, DP!SoundBegins, DecoderAssumed, SentAssumed, VarintAssumption, IntAssumption
<1>5. ASSUME NEW h \in Sent, heap = h, bytestream = Wire(h, 1) PROVE DP!Decoding(h)'
  <2>1. \A d \in DOMAIN h : ~ DP!LastChildTwice(h[d])
    BY SentFits, SameShape, Zenon DEF Fits
  <2>2. bytes' = DP!Wire(h, 1) /\ heap' = h
    BY <1>1, <1>5, SameFormat
  <2> QED
    BY <1>1, <1>4, <2>1, <2>2, DP!DecodingBegins, DecoderAssumed, SentAssumed, VarintAssumption, IntAssumption
<1> QED
  BY <1>1, <1>4, <1>5

(* It runs when it says so,                                                *)
LEMMA DecodeRuns == D!Step => decPc \in {"enter", "frame"}
BY DEF D!Step, D!EnterComposite, D!DecodeNumber, D!DecodeString, D!DecodeUnknown, D!MeetsUnknown,
   D!StringThrows, D!EnterUndefined,
   D!ReadCount, D!ReadFieldName, D!ReadSize, D!DecodeChild, D!Complete, D!FrameThrows,
   D!FrameUndefined, D!Branch, D!WantsCount, D!WantsName, D!WantsSize, D!WantsChild, D!HasAll,
   D!WantsNothing, D!InFrame

(* goes on as it began and leaves the objects there alone,                 *)
LEMMA DecodeGoesOn ==
  ASSUME DP!Sound, D!Step
  PROVE  /\ DP!Sound' /\ Holds(heap', heap)
         /\ \A h \in Sent : DP!Decoding(h) => DP!Decoding(h)'
<1>1. DP!Step
  BY SameDecoderStep
<1>2. [DP!Next]_DP!vars /\ [DP!Step]_DP!vars
  BY <1>1 DEF DP!Next
<1>3. DP!Sound'
  BY <1>2, DP!SoundNext, DecoderAssumed, SentAssumed, VarintAssumption, IntAssumption
<1>4. Holds(heap', heap)
  <2>1. DOMAIN heap \subseteq DOMAIN heap' /\ \A d \in DOMAIN heap : heap'[d] = heap[d]
    BY <1>2, DP!SoundKeeps, DecoderAssumed, SentAssumed, VarintAssumption, IntAssumption
  <2> QED
    BY <2>1 DEF Holds
<1>5. ASSUME NEW h \in Sent, DP!Decoding(h) PROVE DP!Decoding(h)'
  BY <1>2, <1>5, DP!DecodingNext, DecoderAssumed, SentAssumed, VarintAssumption, IntAssumption
<1> QED
  BY <1>3, <1>4, <1>5

(* and what it builds is built as the constructors would.                  *)
LEMMA DecodedHeap ==
  ASSUME DP!Sound
  PROVE  WellBuilt(heap) /\ Grounded(heap)
<1>1. DP!HeapBuilt(heap) /\ DP!Acyclic(heap)
  BY DEF DP!Sound, DP!BuildInv, DP!IInv, DP!HeapInv
<1>2. DP!WellBuilt(heap) /\ DP!Grounded(heap)
  BY <1>1, Zenon DEF DP!HeapBuilt, DP!Acyclic, DP!Grounded
<1> QED
  BY <1>2, SameData, SameShape

(* The same after a step.                                                  *)
LEMMA DecodedHeapNext ==
  ASSUME DP!Sound'
  PROVE  WellBuilt(heap') /\ Grounded(heap')
<1>1. DP!HeapBuilt(heap') /\ DP!Acyclic(heap')
  BY DEF DP!Sound, DP!BuildInv, DP!IInv, DP!HeapInv
<1>2. DP!WellBuilt(heap') /\ DP!Grounded(heap')
  BY <1>1, Zenon DEF DP!HeapBuilt, DP!Acyclic, DP!Grounded
<1> QED
  BY <1>2, SameData, SameShape

(* What decode() returns for a supported document: the same document, in a *)
(* heap encode() can write from.                                           *)
LEMMA DecodeAnswers ==
  ASSUME NEW h \in Sent, DP!Decoding(h)
  PROVE  /\ decPc \notin {"threw", "undefined"}
         /\ EP!PlainHeap(heap) /\ EP!Writable(heap)
         /\ decPc = "returned" =>
              /\ schema \in DOMAIN heap
              /\ Wire(heap, schema) = Wire(h, 1) /\ Tree(heap, schema) = Tree(h, 1)
<1>1. DP!Sound /\ bytes = DP!Wire(h, 1) /\ DP!Outcome(h) /\ DP!AlikeTo(h, heap)
  BY DEF DP!Decoding
<1>2. WellBuilt(heap) /\ Grounded(heap)
  BY <1>1, DecodedHeap
<1>3. ASSUME NEW e \in DOMAIN heap PROVE Fits(heap[e])
  <2>1. PICK d \in DOMAIN h : DP!Alike(heap[e], h[d])
    BY <1>1 DEF DP!AlikeTo
  <2>2. h \in Seq(Data) /\ heap \in Seq(Data)
    BY <1>2, DocFacts DEF WellBuilt, Sent
  <2>3. heap[e] \in Data /\ h[d] \in Data
    BY <2>2, ElementOfSeq
  <2> QED
    BY <2>1, <2>3, AlikeFits, SentFits
<1>4. EP!PlainHeap(heap) /\ EP!Writable(heap)
  BY <1>2, <1>3, FitsIs
<1>5. decPc \notin {"threw", "undefined"}
  BY <1>1 DEF DP!Outcome
<1>6. ASSUME decPc = "returned"
      PROVE  /\ schema \in DOMAIN heap
             /\ Wire(heap, schema) = Wire(h, 1) /\ Tree(heap, schema) = Tree(h, 1)
  <2>1. /\ schema \in DOMAIN heap /\ DP!Wire(heap, schema) = bytes
        /\ DP!Tree(heap, schema) = DP!Tree(h, 1)
    BY <1>1, <1>6 DEF DP!Outcome
  <2> QED
    BY <1>1, <2>1, SameFormat
<1> QED
  BY <1>4, <1>5, <1>6

-----------------------------------------------------------------------------
(* The inductive invariant: where the test of the document h is, and, if   *)
(* the document is supported, what the calls made so far have answered.    *)
Fresh == calls = 0 /\ encodeStream_ = <<>> /\ meta_offset = <<>> /\ meta_size_offset = <<>>

AtStart(h) ==
  stage = "start" =>
    heap = h /\ schema = NULL /\ decPc = "idle" /\ encPc = "idle" /\ Fresh

AtEncode1(h) ==
  stage = "encode1" =>
    /\ heap = h /\ schema = NULL /\ decPc = "idle"
    /\ EP!FirstCall /\ calls = 1 /\ root = 1
    /\ Supported(h) => encPc \in EP!Busy \cup {"returned"}

AtDecode(h) ==
  stage = "decode" =>
    /\ encPc = "returned" /\ DP!Sound
    /\ Supported(h) => DP!Decoding(h) /\ bytes1 = Wire(h, 1)

(* d.decode(bytes1) has returned the document.                             *)
Received(h) ==
  /\ bytes1 = Wire(h, 1)
  /\ schema \in DOMAIN heap
  /\ Wire(heap, schema) = Wire(h, 1) /\ Tree(heap, schema) = Tree(h, 1)
  /\ EP!PlainHeap(heap) /\ EP!Writable(heap)

AtE2(h) ==
  stage = "e2" =>
    /\ encPc = "idle" /\ decPc = "returned" /\ Fresh
    /\ Supported(h) => Received(h)

AtEncode2(h) ==
  stage = "encode2" =>
    /\ decPc = "returned"
    /\ Supported(h) => /\ Received(h)
                       /\ EP!FirstCall /\ calls = 1 /\ root = schema
                       /\ encPc \in EP!Busy \cup {"returned"}

AtDone(h) ==
  stage = "done" =>
    /\ encPc = "returned" /\ decPc = "returned"
    /\ Supported(h) => Received(h) /\ bytes2 = Wire(h, 1)

Stages == {"start", "encode1", "decode", "e2", "encode2", "done"}

Scenario(h) ==
  /\ stage \in Stages /\ WellBuilt(heap) /\ Grounded(heap) /\ Holds(heap, h)
  /\ AtStart(h) /\ AtEncode1(h) /\ AtDecode(h) /\ AtE2(h) /\ AtEncode2(h) /\ AtDone(h)

RInv == \E h \in Docs : Scenario(h)

-----------------------------------------------------------------------------
(* The test of a document starts with that document.                       *)
LEMMA RInvInit == Init => RInv
<1> SUFFICES ASSUME Init PROVE Scenario(heap) /\ heap \in Docs
  BY Zenon DEF RInv
<1>1. /\ heap \in Docs /\ stage = "start" /\ schema = NULL /\ decPc = "idle" /\ encPc = "idle"
      /\ calls = 0 /\ encodeStream_ = <<>> /\ meta_offset = <<>> /\ meta_size_offset = <<>>
  BY DEF Init, E!Init
<1>2. WellBuilt(heap) /\ Grounded(heap) /\ Holds(heap, heap)
  BY <1>1, DocFacts DEF Holds
<1> QED
  BY <1>1, <1>2 DEF Scenario, Stages, AtStart, AtEncode1, AtDecode, AtE2, AtEncode2, AtDone, Fresh

(* The heap of a document is the document: what a plain heap needs.        *)
LEMMA SentHeap ==
  ASSUME NEW h \in Docs, Supported(h)
  PROVE  h \in Sent /\ EP!PlainHeap(h) /\ EP!Writable(h)
<1>1. h \in Sent
  BY DEF Sent
<1> QED
  BY <1>1, SentFits, FitsIs, DocFacts

(* e1 works on the document itself.                                        *)
LEMMA Encode1Keeps ==
  ASSUME NEW h \in Docs, Scenario(h), Encode1
  PROVE  Scenario(h)'
<1>1. /\ stage = "start" /\ stage' = "encode1" /\ E!Encode(1) /\ schema' = schema /\ decPc' = decPc
      /\ heap = h /\ schema = NULL /\ decPc = "idle" /\ WellBuilt(heap) /\ Grounded(heap)
      /\ calls = 0 /\ encodeStream_ = <<>> /\ meta_offset = <<>> /\ meta_size_offset = <<>>
  BY DEF Encode1, Scenario, AtStart, Fresh, decVars
<1>2. 1 \in DOMAIN heap
  BY <1>1, DocFacts
<1>3. EP!FirstCall' /\ calls' = 1 /\ root' = 1 /\ encPc' = "traverse" /\ heap' = heap
  BY <1>1, <1>2, EncodeBegins
<1>4. Holds(heap', h)
  BY <1>1, <1>3 DEF Holds
<1> QED
  BY <1>1, <1>3, <1>4 DEF Scenario, Stages, AtStart, AtEncode1, AtDecode, AtE2, AtEncode2, AtDone,
     EP!Busy

(* d reads what e1 wrote.                                                  *)
LEMMA Decode1Keeps ==
  ASSUME NEW h \in Docs, Scenario(h), Decode1
  PROVE  Scenario(h)'
<1>1. /\ stage = "encode1" /\ stage' = "decode" /\ encPc = "returned" /\ encPc' = encPc
      /\ bytes1' = bytestream /\ D!Decode(bytestream)
      /\ heap = h /\ schema = NULL /\ WellBuilt(heap) /\ Grounded(heap)
      /\ EP!FirstCall /\ calls = 1 /\ root = 1
  BY DEF Decode1, Scenario, AtEncode1, encVars
<1>2. bytestream \in Seq(Byte)
  BY <1>1, EncodeAnswers
<1>3. DP!Sound' /\ heap' = heap
  BY <1>1, <1>2, DecodeBegins
<1>4. ASSUME Supported(h) PROVE DP!Decoding(h)' /\ bytes1' = Wire(h, 1)
  <2>1. h \in Sent /\ EP!PlainHeap(heap)
    BY <1>1, <1>4, SentHeap
  <2>2. bytestream = Wire(h, 1)
    BY <1>1, <2>1, EncodeAnswers
  <2> QED
    BY <1>1, <1>2, <2>1, <2>2, DecodeBegins
<1>5. Holds(heap', h)
  BY <1>1, <1>3 DEF Holds
<1> QED
  BY <1>1, <1>3, <1>4, <1>5 DEF Scenario, Stages, AtStart, AtEncode1, AtDecode, AtE2, AtEncode2,
     AtDone

(* e2 works in the heap that d left.                                       *)
LEMMA NewEncoderKeeps ==
  ASSUME NEW h \in Docs, Scenario(h), NewEncoder
  PROVE  Scenario(h)'
<1>1. /\ stage = "decode" /\ stage' = "e2" /\ decPc = "returned" /\ encPc' = "idle" /\ Fresh'
      /\ heap' = heap /\ bytes1' = bytes1 /\ schema' = schema /\ decPc' = decPc
      /\ WellBuilt(heap) /\ Grounded(heap) /\ Holds(heap, h)
      /\ Supported(h) => DP!Decoding(h) /\ bytes1 = Wire(h, 1)
  BY DEF NewEncoder, EmptyStream, Scenario, AtDecode, Fresh, decVars
<1>2. ASSUME Supported(h) PROVE Received(h)'
  <2>1. h \in Sent
    BY <1>2, SentHeap
  <2>2. Received(h)
    BY <1>1, <1>2, <2>1, DecodeAnswers DEF Received
  <2> QED
    BY <1>1, <2>2 DEF Received
<1> QED
  BY <1>1, <1>2 DEF Scenario, Stages, AtStart, AtEncode1, AtDecode, AtE2, AtEncode2, AtDone

(* The Schema that came back is in the heap.                               *)
LEMMA Encode2Keeps ==
  ASSUME NEW h \in Docs, Scenario(h), Encode2
  PROVE  Scenario(h)'
<1>1. /\ stage = "e2" /\ stage' = "encode2" /\ E!Encode(schema) /\ decPc = "returned"
      /\ heap' = heap /\ bytes1' = bytes1 /\ schema' = schema /\ decPc' = decPc
      /\ WellBuilt(heap) /\ Grounded(heap) /\ Holds(heap, h)
      /\ calls = 0 /\ encodeStream_ = <<>> /\ meta_offset = <<>> /\ meta_size_offset = <<>>
      /\ Supported(h) => Received(h)
  BY DEF Encode2, E!Encode, Scenario, AtE2, Fresh, decVars
<1>2. ASSUME Supported(h)
      PROVE  /\ Received(h)' /\ EP!FirstCall' /\ calls' = 1 /\ root' = schema'
             /\ encPc' \in EP!Busy \cup {"returned"}
  <2>1. Received(h) /\ schema \in DOMAIN heap
    BY <1>1, <1>2 DEF Received
  <2>2. EP!FirstCall' /\ calls' = 1 /\ root' = schema /\ encPc' = "traverse"
    BY <1>1, <2>1, EncodeBegins
  <2> QED
    BY <1>1, <2>1, <2>2 DEF Received, EP!Busy
<1> QED
  BY <1>1, <1>2 DEF Scenario, Stages, AtStart, AtEncode1, AtDecode, AtE2, AtEncode2, AtDone

(* Both streams are the bytes of the document.                             *)
LEMMA CompareKeeps ==
  ASSUME NEW h \in Docs, Scenario(h), Compare
  PROVE  Scenario(h)'
<1>1. /\ stage = "encode2" /\ stage' = "done" /\ encPc = "returned" /\ decPc = "returned"
      /\ heap' = heap /\ bytes1' = bytes1 /\ schema' = schema /\ decPc' = decPc /\ encPc' = encPc
      /\ bytes2' = bytestream
      /\ WellBuilt(heap) /\ Grounded(heap) /\ Holds(heap, h)
      /\ Supported(h) => Received(h) /\ EP!FirstCall /\ calls = 1 /\ root = schema
  BY DEF Compare, Scenario, AtEncode2, encVars, decVars
<1>2. ASSUME Supported(h) PROVE Received(h)' /\ bytes2' = Wire(h, 1)
  <2>1. Received(h) /\ bytestream = Wire(heap, schema)
    BY <1>1, <1>2, EncodeAnswers DEF Received
  <2> QED
    BY <1>1, <2>1 DEF Received
<1> QED
  BY <1>1, <1>2 DEF Scenario, Stages, AtStart, AtEncode1, AtDecode, AtE2, AtEncode2, AtDone

(* encode() only runs in its two calls,                                    *)
LEMMA EncoderStepKeeps ==
  ASSUME NEW h \in Docs, Scenario(h), EncoderStep
  PROVE  Scenario(h)'
<1>1. /\ E!Step /\ stage' = stage /\ stage \in Stages /\ bytes1' = bytes1 /\ schema' = schema
      /\ decPc' = decPc /\ WellBuilt(heap) /\ Grounded(heap) /\ Holds(heap, h)
  BY DEF EncoderStep, Scenario, test, decVars
<1>2. encPc \in EP!Busy /\ heap' = heap
  BY <1>1, EncodeRuns
<1>3. stage \in {"encode1", "encode2"}
  BY <1>1, <1>2 DEF Scenario, Stages, AtStart, AtDecode, AtE2, AtDone, EP!Busy
<1>4. CASE stage = "encode1"
  <2>1. /\ heap = h /\ schema = NULL /\ decPc = "idle" /\ EP!FirstCall /\ calls = 1 /\ root = 1
    BY <1>4 DEF Scenario, AtEncode1
  <2>2. EP!FirstCall' /\ calls' = 1 /\ root' = 1
    BY <1>1, <2>1, EncodeGoesOn
  <2>3. ASSUME Supported(h) PROVE encPc' \in EP!Busy \cup {"returned"}
    <3>1. EP!PlainHeap(heap) /\ EP!Writable(heap)
      BY <2>1, <2>3, SentHeap
    <3> QED
      BY <1>1, <2>1, <3>1, EncodeSucceeds
  <2> QED
    BY <1>1, <1>2, <1>4, <2>1, <2>2, <2>3 DEF Scenario, AtStart, AtEncode1, AtDecode, AtE2,
       AtEncode2, AtDone
<1>5. CASE stage = "encode2"
  <2>1. decPc = "returned"
    BY <1>5 DEF Scenario, AtEncode2
  <2>2. ASSUME Supported(h)
        PROVE  /\ Received(h)' /\ EP!FirstCall' /\ calls' = 1 /\ root' = schema'
               /\ encPc' \in EP!Busy \cup {"returned"}
    <3>1. /\ Received(h) /\ EP!FirstCall /\ calls = 1 /\ root = schema
          /\ EP!PlainHeap(heap) /\ EP!Writable(heap)
      BY <1>5, <2>2 DEF Scenario, AtEncode2, Received
    <3>2. EP!FirstCall' /\ calls' = 1 /\ root' = schema
      BY <1>1, <3>1, EncodeGoesOn
    <3>3. encPc' \in EP!Busy \cup {"returned"}
      BY <1>1, <3>1, EncodeSucceeds
    <3> QED
      BY <1>1, <1>2, <3>1, <3>2, <3>3 DEF Received
  <2> QED
    BY <1>1, <1>2, <1>5, <2>1, <2>2 DEF Scenario, AtStart, AtEncode1, AtDecode, AtE2,
       AtEncode2, AtDone
<1> QED
  BY <1>3, <1>4, <1>5

(* and decode() in its one.                                                *)
LEMMA DecoderStepKeeps ==
  ASSUME NEW h \in Docs, Scenario(h), DecoderStep
  PROVE  Scenario(h)'
<1>1. /\ D!Step /\ stage' = stage /\ stage \in Stages /\ bytes1' = bytes1 /\ encPc' = encPc
      /\ WellBuilt(heap) /\ Grounded(heap) /\ Holds(heap, h)
  BY DEF DecoderStep, Scenario, encVars
<1>2. decPc \in {"enter", "frame"}
  BY <1>1, DecodeRuns
<1>3. stage = "decode"
  BY <1>1, <1>2 DEF Scenario, Stages, AtStart, AtEncode1, AtE2, AtEncode2, AtDone
<1>4. encPc = "returned" /\ DP!Sound /\ (Supported(h) => DP!Decoding(h) /\ bytes1 = Wire(h, 1))
  BY <1>3 DEF Scenario, AtDecode
<1>5. DP!Sound' /\ Holds(heap', heap)
  BY <1>1, <1>4, DecodeGoesOn
<1>6. ASSUME Supported(h) PROVE DP!Decoding(h)' /\ bytes1' = Wire(h, 1)
  BY <1>1, <1>4, <1>6, SentHeap, DecodeGoesOn
<1>7. Holds(heap', h)
  BY <1>1, <1>5 DEF Holds
<1>8. WellBuilt(heap') /\ Grounded(heap')
  BY <1>5, DecodedHeapNext
<1> QED
  BY <1>1, <1>3, <1>4, <1>5, <1>6, <1>7, <1>8 DEF Scenario, AtStart, AtEncode1, AtDecode, AtE2,
     AtEncode2, AtDone

(* Nothing happens between two steps.                                      *)
LEMMA StutterKeeps ==
  ASSUME NEW h \in Docs, Scenario(h), UNCHANGED vars
  PROVE  Scenario(h)'
<1>1. /\ UNCHANGED <<heap, stage, bytes1, bytes2, encPc, decPc, calls, root, schema, encodeStream_,
                     meta_offset, meta_size_offset>>
      /\ UNCHANGED EP!vars /\ UNCHANGED DP!vars
  BY DEF vars, test, encVars, decVars, EP!vars, EP!members, EP!locals, DP!vars
<1>2. ASSUME EP!FirstCall PROVE EP!FirstCall'
  BY <1>1, <1>2, EP!FirstCallNext, EncoderAssumed, VarintAssumption, IntAssumption
<1>3. ASSUME DP!Sound PROVE DP!Sound'
  BY <1>1, <1>3, DP!SoundNext, DecoderAssumed, SentAssumed, VarintAssumption, IntAssumption
<1>4. ASSUME Supported(h), DP!Decoding(h) PROVE DP!Decoding(h)'
  BY <1>1, <1>4, SentHeap, DP!DecodingNext, DecoderAssumed, SentAssumed, VarintAssumption, IntAssumption
<1>5. Received(h) => Received(h)'
  BY <1>1 DEF Received
<1> QED
  BY <1>1, <1>2, <1>3, <1>4, <1>5 DEF Scenario, AtStart, AtEncode1, AtDecode, AtE2, AtEncode2,
     AtDone, Fresh

(* One step per action.                                                    *)
LEMMA RInvNext == RInv /\ [Next]_vars => RInv'
<1>1. ASSUME NEW h \in Docs, Scenario(h), [Next]_vars PROVE Scenario(h)'
  BY <1>1, Encode1Keeps, Decode1Keeps, NewEncoderKeeps, Encode2Keeps, CompareKeeps,
     EncoderStepKeeps, DecoderStepKeeps, StutterKeeps, Zenon DEF Next
<1> QED
  BY <1>1, Zenon DEF RInv

-----------------------------------------------------------------------------
(* The heap holds one document, and is one itself.                         *)
LEMMA ScenarioHeap ==
  ASSUME NEW h \in Docs, Scenario(h)
  PROVE  (Supported(heap) <=> Supported(h)) /\ Tree(heap, 1) = Tree(h, 1)
BY HeldDocument DEF Scenario

(* A test of a supported document meets no exception, no endless loop and  *)
(* no undefined behaviour, in any of its three calls (encoding_test.cc).   *)
THEOREM SupportedSafe == Spec => []SupportedNeverFails
<1>1. RInv => SupportedNeverFails
  <2> SUFFICES ASSUME NEW h \in Docs, Scenario(h), Supported(heap) PROVE ~ Failed
    BY Zenon DEF RInv, SupportedNeverFails, SupportedDoc
  <2>1. Supported(h) /\ stage \in Stages
    BY ScenarioHeap DEF Scenario
  <2>2. encPc \notin {"threw", "diverged", "undefined"}
    BY <2>1 DEF Scenario, Stages, AtStart, AtEncode1, AtDecode, AtE2, AtEncode2, AtDone, EP!Busy
  <2>3. CASE stage = "decode"
    BY <2>1, <2>2, <2>3, SentHeap, DecodeAnswers DEF Scenario, AtDecode, Failed
  <2>4. CASE stage # "decode"
    BY <2>1, <2>2, <2>4 DEF Scenario, Stages, AtStart, AtEncode1, AtE2, AtEncode2, AtDone, Failed
  <2> QED
    BY <2>3, <2>4
<1> QED
  BY <1>1, RInvInit, RInvNext, PTL DEF Spec

(* The document that comes back is the document that was sent: the tests'  *)
(* purpose, of which their comparison of two streams is a sign.            *)
THEOREM RoundTripExact == Spec => []SupportedComesBack
<1>1. RInv => SupportedComesBack
  <2> SUFFICES ASSUME NEW h \in Docs, Scenario(h), Supported(heap), stage = "done"
               PROVE  SameDocument
    BY Zenon DEF RInv, SupportedComesBack, SupportedDoc
  <2>1. Supported(h) /\ Tree(heap, 1) = Tree(h, 1)
    BY ScenarioHeap
  <2> QED
    BY <2>1 DEF Scenario, AtDone, Received, SameDocument
<1> QED
  BY <1>1, RInvInit, RInvNext, PTL DEF Spec

(* "Those two generated bytestream should be identical" (README.md:25): for*)
(* a supported document they are.                                          *)
THEOREM SupportedIdentical == Spec => [](SupportedDoc => StreamsIdentical)
<1>1. RInv => (SupportedDoc => StreamsIdentical)
  <2> SUFFICES ASSUME NEW h \in Docs, Scenario(h), Supported(heap), stage = "done"
               PROVE  bytes1 = bytes2
    BY Zenon DEF RInv, StreamsIdentical, SupportedDoc
  <2>1. Supported(h)
    BY ScenarioHeap
  <2> QED
    BY <2>1 DEF Scenario, AtDone, Received
<1> QED
  BY <1>1, RInvInit, RInvNext, PTL DEF Spec
=============================================================================
