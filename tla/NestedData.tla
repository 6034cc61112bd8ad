----------------------------- MODULE NestedData -----------------------------
(***************************************************************************)
(* The schema objects of schema.h: a heap of Data objects that point to    *)
(* each other, and the type codes under which they are written.            *)
(*                                                                         *)
(* A heap is a sequence of records and a pointer (Data* ) is an index into *)
(* it; NULL is the null pointer.  `value` is what value_ holds: the        *)
(* characters of a STRING, or the text of a number as its whole part       *)
(* followed by its fraction, so <<178, 87>> is "178.87", <<5>> is "5" and  *)
(* <<>> is a text that is not a number.                                    *)
(***************************************************************************)
EXTENDS Varint

CONSTANT IntMax   \* 2^31 - 1 in the code: the largest int

ASSUME IntAssumption == IntMax \in Nat /\ IntMax < Radix * Weight[MaxGroups-1]

NULL == 0

(* "OTHER" stands for any type name that the encoder has no code for; the  *)
(* constructor of Primitive takes every string.                            *)
NumberTypes    == {"I8", "I16", "I32", "I64", "F32", "F64"}
PrimitiveTypes == NumberTypes \cup {"STRING", "OTHER"}
CompositeTypes == {"STRUCT", "MAP", "ARRAY"}
DataTypes      == PrimitiveTypes \cup CompositeTypes \cup {"WILD"}

Data == [type  : DataTypes,
         value : Seq(Int),
         kids  : Seq(Nat),         \* array_, struct_ or map_
         names : Seq(Seq(Byte))]   \* field_name_ of a Struct

(* Constructors.  Array, Struct and Map objects differ only in type_ and   *)
(* in what they hold; the element type an Array is given is never stored.  *)
Primitive(t, text) == [type |-> t, value |-> text, kids |-> <<>>, names |-> <<>>]
NewString(chars)   == Primitive("STRING", chars)
NewArray           == [type |-> "ARRAY",  value |-> <<>>, kids |-> <<>>, names |-> <<>>]
NewStruct          == [type |-> "STRUCT", value |-> <<>>, kids |-> <<>>, names |-> <<>>]
NewMap(key, val)   == [type |-> "MAP", value |-> <<>>, kids |-> <<key, val>>, names |-> <<>>]

(* No Data object at all: where a pointer leads that was never set, or that*)
(* add() was given as nullptr.  Nobody may follow it.                      *)
Wild == [type |-> "WILD", value |-> <<>>, kids |-> <<>>, names |-> <<>>]

(* What the constructors and add() keep: an element is in the heap, every  *)
(* field of a STRUCT has a name, the value of a STRING is its characters.  *)
WellBuilt(h) ==
  /\ h \in Seq(Data)
  /\ \A d \in DOMAIN h :
       /\ h[d].kids \in Seq(DOMAIN h)
       /\ h[d].type = "STRUCT" => Len(h[d].names) = Len(h[d].kids)
       /\ h[d].type = "STRING" => h[d].value \in Seq(Byte)

(* Nothing in add() keeps a composite from being added below itself: an    *)
(* object reaches a cycle if it is in a set of composites each of which    *)
(* holds one of the set.                                                   *)
Endless(h, C) ==
  \A d \in C : h[d].type \in CompositeTypes /\ \E k \in DOMAIN h[d].kids : h[d].kids[k] \in C

Cyclic(h, r) == \E C \in SUBSET DOMAIN h : r \in C /\ Endless(h, C)

(* The objects below r, itself included, in a heap without cycles.         *)
Below(h, r) ==
  LET below[d \in DOMAIN h] ==
        {d} \cup UNION {below[h[d].kids[k]] : k \in DOMAIN h[d].kids}
  IN  below[r]

isPrimitive(d)   == d.type \in PrimitiveTypes
numofElements(d) == Len(d.kids)

-----------------------------------------------------------------------------
TypeCode == [I8 |-> 0, I16 |-> 1, I32 |-> 2, I64 |-> 3, F32 |-> 4, F64 |-> 5,
             STRING |-> 6, STRUCT |-> 7, MAP |-> 8, ARRAY |-> 9]

(* An object of one of the types with a code.                              *)
HasTypeCode(d) == d.type \in DOMAIN TypeCode

TypeEncoding(d) == VarientEncoding(TypeCode[d.type])

-----------------------------------------------------------------------------
(* int64_t to int: the low 32 bits, as a signed number.                    *)
ToInt(v) == ((v + IntMax + 1) % (2 * IntMax + 2)) - IntMax - 1
=============================================================================
