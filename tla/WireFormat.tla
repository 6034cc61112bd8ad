----------------------------- MODULE WireFormat -----------------------------
(***************************************************************************)
(* The byte format as a function of the document: what the comments of     *)
(* StringEncoding (encoding.cc:35) and EncodingMeta (:83,116,146) say the  *)
(* bytes of a Data object are, whatever order they are made in, and a      *)
(* number as EncodePrimitiveType writes it, with its type before it.  (Not *)
(* what BinaryFormat.md:80 says of numbers.)                               *)
(***************************************************************************)
EXTENDS NestedData, SequencesExt

(* [type][value], [type][length][characters], or                           *)
(* [type][count, not for MAP][names, only for STRUCT][sizes][children].    *)
(* There is no format for an object whose type has no code.                *)
ObjectBytes(x, children) ==
  LET number == IF x.value = <<>> THEN <<>> ELSE VarientEncoding(x.value[1])
      chars  == VarientEncoding(Len(x.value)) \o x.value
      count  == IF x.type = "MAP" THEN <<>> ELSE VarientEncoding(Len(x.kids))
      names  == FlattenSeq([k \in DOMAIN x.names |->
                  VarientEncoding(Len(x.names[k])) \o x.names[k]])
      sizes  == FlattenSeq([k \in DOMAIN children |->
                  VarientEncoding(Len(children[k]))])
  IN  IF ~ HasTypeCode(x) THEN <<>>
      ELSE TypeEncoding(x) \o
             (IF x.type \in NumberTypes THEN number
              ELSE IF x.type = "STRING" THEN chars
              ELSE count \o names \o sizes \o FlattenSeq(children))

Wire(h, r) ==
  LET wire[d \in DOMAIN h] ==
        ObjectBytes(h[d], [k \in DOMAIN h[d].kids |-> wire[h[d].kids[k]]])
  IN  wire[r]

TypesKnown(h, r) == \A d \in Below(h, r) : h[d].type # "OTHER"

(* The document as a tree, whatever objects of the heap it shares.         *)
Tree(h, r) ==
  LET tree[d \in DOMAIN h] ==
        [type |-> h[d].type, value |-> h[d].value, names |-> h[d].names,
         kids |-> [k \in DOMAIN h[d].kids |-> tree[h[d].kids[k]]]]
  IN  tree[r]

-----------------------------------------------------------------------------
(* What comes back unchanged from VariantDecoder(VarientEncoding(v)): not  *)
(* zero, and where char is signed no group but the last with its top bit   *)
(* set (decoding.cc:101-104).                                              *)
SurvivesVarint(v) ==
  /\ v > 0
  /\ CharIsSigned =>
       \A k \in 1 .. NumGroups(v) - 1 : (v \div Weight[k]) % Radix < Radix \div 2

(* What comes back unchanged from decode().  The size of the last element  *)
(* may be misread: nothing is read behind it.  An I8 has no tag byte.      *)
CarriedObject(h, d) ==
  LET sizes == [k \in DOMAIN d.kids |-> Len(Wire(h, d.kids[k]))]
  IN  CASE d.type \in NumberTypes ->
             d.type # "I8" /\ Len(d.value) = 1 /\ SurvivesVarint(d.value[1])
        [] d.type = "STRING" -> SurvivesVarint(Len(d.value))
        [] d.type \in CompositeTypes ->
             /\ d.type = "MAP" \/ SurvivesVarint(Len(d.kids))
             /\ \A k \in DOMAIN d.names : SurvivesVarint(Len(d.names[k]))
             /\ \A k \in 1 .. Len(sizes) - 1 : SurvivesVarint(sizes[k])
        [] OTHER -> FALSE

Carried(h, r) == \A d \in Below(h, r) : CarriedObject(h, h[d])

(* The last element is an element before as well: the encoder's scan ends  *)
(* at the first child whose pointer is the last child's (encoding.cc:104). *)
LastChildTwice(d) ==
  \E k \in 1 .. numofElements(d) - 1 : d.kids[k] = d.kids[numofElements(d)]

-----------------------------------------------------------------------------
(* A MAP has a key and a value, the fields of a STRUCT have names, and only*)
(* a Primitive is given a value.                                           *)
Shaped(x) ==
  /\ x.type \notin CompositeTypes => x.kids = <<>>
  /\ x.type \in CompositeTypes => x.value = <<>>
  /\ x.type = "MAP" => Len(x.kids) = 2
  /\ x.type # "STRUCT" => x.names = <<>>

(* Every number written is an int64_t; every count, length and size, and   *)
(* the object with all below it, is one that an int holds.                 *)
InRange(v) == v < Radix * Weight[MaxGroups - 1]

NumbersFit(h, d) ==
  LET x == h[d]
  IN  /\ x.type \in NumberTypes => \A i \in DOMAIN x.value : InRange(x.value[i])
      /\ Len(x.value) <= IntMax /\ Len(x.kids) <= IntMax
      /\ \A k \in DOMAIN x.names : Len(x.names[k]) <= IntMax
      /\ Len(Wire(h, d)) <= IntMax

(* No composite is below itself, and there are at most n of them one below *)
(* the other.                                                              *)
RanksOf(h, n) ==
  {rank \in [DOMAIN h -> 0 .. n] :
     \A d \in DOMAIN h : h[d].type \in CompositeTypes =>
       rank[d] > 0 /\ \A k \in DOMAIN h[d].kids : rank[h[d].kids[k]] < rank[d]}
=============================================================================
