------------------------------- MODULE Decoder ------------------------------
(***************************************************************************)
(* One Decoder object (decoding.cc) and the calls of decode() made on it.  *)
(*                                                                         *)
(* PartialDecode is recursive: a frame of `frames` holds the locals of one *)
(* activation that reads a STRUCT, MAP or ARRAY, top first.  Its second    *)
(* parameter, endIdx, is never read and left out: nothing checks a read    *)
(* against the end of the element or of the buffer.  A read outside the    *)
(* buffer is undefined behaviour and ends the run in "undefined".          *)
(*                                                                         *)
(* Positions are absolute and 1-based: charBytes is where the element of an*)
(* activation begins, `at` is charBytes + decodingIdx.                     *)
(***************************************************************************)
EXTENDS NestedData

CONSTANTS
  Sessions,    \* the byte streams programs pass to decode(), call by call
  MaxDepth     \* bound: activations the thread's stack has room for

ASSUME DecoderAssumption ==
  /\ Sessions \subseteq Seq(Seq(Byte))
  /\ MaxDepth \in Nat \ {0}

VARIABLES
  heap,     \* the Data objects; PartialDecode allocates new ones
  schema,   \* member: schema_ of the Schema that decode() returns by reference
  session,  \* the calls made on this object: one of Sessions
  decodes,  \* how many of them have begun
  bytes,    \* the argument of decode()
  pc,       \* "idle", "enter", "frame", "returned", "threw" or "undefined"
  call,     \* charBytes of the activation about to start
  frames    \* the activations that read a composite

vars == <<heap, schema, session, decodes, bytes, pc, call, frames>>

NotRead == -1       \* numofFields before it is read
NoCall  == 0

Init ==
  /\ heap = <<>>
  /\ schema = NULL
  /\ session \in Sessions /\ decodes = 0
  /\ bytes = <<>>
  /\ pc = "idle"
  /\ call = NoCall
  /\ frames = <<>>

-----------------------------------------------------------------------------
(* Slip: decodingIdx as a member, where a call that threw left it.         *)
WhereLeft == IF frames = <<>> THEN 1 ELSE frames[1].at

FirstByte == 1

SchemaCleared == NULL     \* slip: the Schema emptied when a call begins
SchemaAtEntry == schema

Decode(buffer) ==
  /\ pc \in {"idle", "returned", "threw"}
  /\ decodes' = decodes + 1
  /\ bytes' = buffer
  /\ pc' = "enter"
  /\ call' = FirstByte
  /\ frames' = <<>>
  /\ schema' = SchemaAtEntry
  /\ UNCHANGED <<heap, session>>

(* Slips: the pointer to an object not made yet; `data` as it was before.  *)
UnsetPtr == Len(heap) + 2
OldPtr   == Len(heap)

NewPtr   == Len(heap) + 1   \* what `new` returns

(* decodingIdx += size, where decodingIdx is an int and size an int64_t.   *)
(* Slip: one byte too far.                                                 *)
BehindAndOne(frame, size)  == frame.at + size + 1
BehindElement(frame, size) == frame.charBytes + ToInt(frame.at - frame.charBytes + size)

WithElement(frame, ptr) ==
  [frame EXCEPT !.kids = Append(@, ptr),
                !.at = BehindElement(frame, frame.sizes[Len(frame.kids) + 1])]

(* An activation returns ptr: to decode(), which stores it in the Schema,  *)
(* or to the activation below, which adds the element and moves behind it. *)
Hand(ptr, below) ==
  /\ call' = NoCall
  /\ IF below = <<>>
     THEN /\ schema' = ptr
          /\ pc' = "returned"
          /\ frames' = <<>>
     ELSE /\ frames' = [below EXCEPT ![1] = WithElement(below[1], ptr)]
          /\ pc' = "frame"
          /\ UNCHANGED schema
  /\ UNCHANGED <<session, decodes, bytes>>

Deliver(d, below) == heap' = Append(heap, d) /\ Hand(NewPtr, below)

Stop(outcome) ==
  /\ pc' = outcome
  /\ UNCHANGED <<heap, schema, session, decodes, bytes, call, frames>>

-----------------------------------------------------------------------------
(* PartialDecode(charBytes, endIdx): the type byte selects the branch.     *)
Readable == call \in DOMAIN bytes
Tag      == bytes[call]
Branch(types) == pc = "enter" /\ Readable /\ \E t \in types : Tag = TypeCode[t]
TaggedType    == CHOOSE t \in DOMAIN TypeCode : TypeCode[t] = Tag

EnterComposite ==
  /\ Branch(CompositeTypes)
  /\ Len(frames) < MaxDepth
  /\ frames' = <<[type   |-> TaggedType,
                  charBytes |-> call,
                  at     |-> call + 1,
                  numofFields |-> IF TaggedType = "MAP" THEN 2 ELSE NotRead,
                  names |-> <<>>, sizes |-> <<>>, kids |-> <<>>]>> \o frames
  /\ pc' = "frame"
  /\ call' = NoCall
  /\ UNCHANGED <<heap, schema, session, decodes, bytes>>

(* PrimitiveTypeDecode *)
Length       == VariantDecoder(bytes, call + 1)
OnLength     == VarintEnd(bytes, call + 1)   \* slip: not stepped over it
AfterLength  == VarintEnd(bytes, call + 1) + 1
LengthIsRead == VarintReadable(bytes, call + 1)

DecodeNumber ==
  /\ Branch(NumberTypes)
  /\ LengthIsRead
  /\ Deliver(Primitive(TaggedType, <<Length>>), frames)

DecodeString ==
  /\ Branch({"STRING"})
  /\ LengthIsRead
  /\ Length >= 0
  /\ AfterLength + Length - 1 <= Len(bytes)
  /\ Deliver(NewString(SubSeq(bytes, AfterLength, AfterLength + Length - 1)),
             frames)

(* std::string(pointer, size_t(negative)) throws std::length_error.        *)
StringThrows ==
  /\ Branch({"STRING"})
  /\ LengthIsRead
  /\ Length < 0
  /\ Stop("threw")

(* The branch for any other type byte prints an error and returns `data`,  *)
(* which was never set: it leads to an object made earlier or, as one still*)
(* being read is not in `heap`, to anything else.  The call goes on.       *)
TypeIsKnown  == \E t \in DOMAIN TypeCode : Tag = TypeCode[t]
MeetsUnknown == pc = "enter" /\ Readable /\ ~ TypeIsKnown

DecodeUnknown ==
  /\ MeetsUnknown
  /\ LengthIsRead
  /\ \/ Deliver(Wild, frames)
     \/ \E ptr \in DOMAIN heap : Hand(ptr, frames) /\ UNCHANGED heap

(* A read outside the buffer, or no stack left.                            *)
EnterUndefined ==
  /\ pc = "enter"
  /\ \/ ~ Readable
     \/ Branch(CompositeTypes) /\ Len(frames) = MaxDepth
     \/ Readable /\ ~ Branch(CompositeTypes) /\ ~ LengthIsRead
     \/ /\ Branch({"STRING"})
        /\ LengthIsRead
        /\ Length >= 0 /\ AfterLength + Length - 1 > Len(bytes)
  /\ Stop("undefined")

-----------------------------------------------------------------------------
(* The body of an activation that reads a composite.                       *)
This   == frames[1]
Value  == VariantDecoder(bytes, This.at)
OnValue == VarintEnd(bytes, This.at)   \* slip: not stepped over it
Behind == VarintEnd(bytes, This.at) + 1
InFrame == pc = "frame"

WantsCount == InFrame /\ This.numofFields = NotRead
WantsName  == /\ InFrame /\ This.numofFields # NotRead
              /\ This.type = "STRUCT" /\ Len(This.names) < This.numofFields
WantsSize  == /\ InFrame /\ This.numofFields # NotRead
              /\ ~ WantsName /\ Len(This.sizes) < This.numofFields
WantsChild == /\ InFrame /\ This.numofFields # NotRead
              /\ ~ WantsName /\ ~ WantsSize
              /\ Len(This.kids) < This.numofFields

WantsNothing == InFrame /\ ~ (WantsCount \/ WantsName \/ WantsSize \/ WantsChild)

(* Slip: the end of the buffer decides that all elements are there.        *)
HasAllAtEnd == WantsNothing /\ This.at = Len(bytes) + 1

HasAll == WantsNothing

Advance(frame) ==
  /\ frames' = [frames EXCEPT ![1] = frame]
  /\ UNCHANGED <<heap, schema, session, decodes, bytes, pc, call>>

(* A count and the length of a name are kept in an int.                    *)
IntValue == ToInt(Value)

ReadCount ==
  /\ WantsCount
  /\ VarintReadable(bytes, This.at)
  /\ IntValue >= 0
  /\ Advance([This EXCEPT !.numofFields = IntValue, !.at = Behind])

ReadFieldName ==
  /\ WantsName
  /\ VarintReadable(bytes, This.at)
  /\ IntValue >= 0
  /\ Behind + IntValue - 1 <= Len(bytes)
  /\ Advance([This EXCEPT
                !.names = Append(@, SubSeq(bytes, Behind, Behind + IntValue - 1)),
                !.at = Behind + IntValue])

ReadSize ==
  /\ WantsSize
  /\ VarintReadable(bytes, This.at)
  /\ Advance([This EXCEPT !.sizes = Append(@, Value), !.at = Behind])

DecodeChild ==
  /\ WantsChild
  /\ call' = This.at
  /\ pc' = "enter"
  /\ UNCHANGED <<heap, schema, session, decodes, bytes, frames>>

(* A negative count makes the vector constructor throw, a negative name    *)
(* length the string constructor.                                          *)
FrameThrows ==
  /\ WantsCount \/ WantsName
  /\ VarintReadable(bytes, This.at)
  /\ IntValue < 0
  /\ Stop("threw")

FrameUndefined ==
  /\ \/ (WantsCount \/ WantsName \/ WantsSize) /\ ~ VarintReadable(bytes, This.at)
     \/ /\ WantsName /\ VarintReadable(bytes, This.at)
        /\ IntValue >= 0 /\ Behind + IntValue - 1 > Len(bytes)
  /\ Stop("undefined")

(* All elements are there.  (The code allocates a Struct or Array when it  *)
(* enters and adds the elements one by one; nobody sees it before now.)    *)
Complete ==
  /\ HasAll
  /\ Deliver([type |-> This.type, value |-> <<>>, kids |-> This.kids,
              names |-> This.names], Tail(frames))

-----------------------------------------------------------------------------
Step ==
  \/ EnterComposite \/ DecodeNumber \/ DecodeString \/ StringThrows
  \/ DecodeUnknown \/ EnterUndefined
  \/ ReadCount \/ ReadFieldName \/ ReadSize \/ DecodeChild \/ Complete
  \/ FrameThrows \/ FrameUndefined

NextCall == decodes < Len(session) /\ Decode(session[decodes + 1])

Next == Step \/ NextCall

Spec == Init /\ [][Next]_vars /\ WF_vars(Step)

-----------------------------------------------------------------------------
(* Every variable stays in its type: an activation holds absolute positions*)
(* and pointers into the heap.  (A size or position may be negative:       *)
(* VariantDecoder can return a negative number.)                           *)
Activation == [type : CompositeTypes, charBytes : Int, at : Int,
               numofFields : Int, names : Seq(Seq(Byte)), sizes : Seq(Int),
               kids : Seq(Nat)]

TypeOK ==
  /\ heap \in Seq(Data)
  /\ schema \in 0 .. Len(heap)
  /\ session \in Seq(Seq(Byte)) /\ decodes \in 0 .. Len(session)
  /\ bytes \in Seq(Byte)
  /\ pc \in {"idle", "enter", "frame", "returned", "threw", "undefined"}
  /\ call \in Int
  /\ frames \in Seq(Activation) /\ Len(frames) <= MaxDepth

(* decode() ends: it returns a Schema, throws, or leaves the defined       *)
(* behaviour.  A stream that sends it back to the same bytes again and     *)
(* again (decoding.cc:46) runs out of the thread's stack, which counts as  *)
(* an end here; no stream keeps it busy on a stack of any fixed depth.     *)
DecodeEnds == (pc = "enter") ~> (pc \in {"returned", "threw", "undefined"})
=============================================================================
