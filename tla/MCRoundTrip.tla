----------------------------- MODULE MCRoundTrip ----------------------------
(***************************************************************************)
(* Instances of RoundTrip for TLC: the documents each run sends.           *)
(***************************************************************************)
EXTENDS RoundTrip, DocSets

MCWeight == Powers(Radix, MaxGroups)
MCUnset  == {-1, 3, 200}

(* Trees with every kind of leaf, named and with an empty name.            *)
Leaves ==
  {NewString(Chars(2)), NewString(<<>>), Number(7), Number(0), Number(-1),
   Primitive("I8", <<9>>), Primitive("F32", <<7, 5>>), Primitive("I64", <<>>),
   Primitive("I64", <<IntMax + 1>>), Primitive("I32", <<20>>),
   Primitive("I32", <<130>>), NewArray, NewStruct,
   Primitive("OTHER", <<7>>), Wild}

AnyTree == LET trees == TreesUpTo(3, Leaves)
                          \cup Trees(4, {NewString(Chars(2)), Number(0), Number(7)})
                          \cup Trees(5, {Number(7)})
           IN  trees \cup {Named(h) : h \in trees}

(* Heaps in which objects are shared and every one is below the first.     *)
SharedDocs ==
  {Named(h) : h \in {g \in Dags(3, 3, {Number(7)}) : Below(g, 1) = DOMAIN g}}

(* A STRUCT with a name of n characters among the elements of an ARRAY.    *)
WithLongName(n) ==
  LET str == [NewStruct EXCEPT !.kids = <<3>>, !.names = <<Chars(n)>>]
  IN  {<<[NewArray EXCEPT !.kids = <<2, 4>>], str, Number(3), Number(3)>>,
       <<[NewArray EXCEPT !.kids = <<4, 2>>], str, Number(3), Number(3)>>}

(* Radix 16 with a signed char: lengths, counts and sizes of 128 and more; *)
(* strings up to the longest kept out of the heap, and longer.             *)
LongDocs ==
  {<<NewString(Chars(n))>> : n \in {15, 16, 127, 128}}
    \cup {<<StructOf(Chars(n), 1), Number(3)>> : n \in {127, 128, 256, 384}}
    \cup {<<StructOf(Chars(1), n)>> \o [k \in 1 .. n |-> Number(3)] :
             n \in {20, 128}}
    \cup UNION {WithLongName(n) : n \in {120, 121, 250, 380}}
    \cup {<<[NewArray EXCEPT !.kids = <<2, 5>>], [NewArray EXCEPT !.kids = <<3, 4>>],
            NewString(Chars(60)), NewString(Chars(n)), Number(3)>> : n \in {55, 65}}
    \cup {<<[NewArray EXCEPT !.kids = <<2, 3>>], NewString(Chars(16)), Number(v)>> :
            v \in {0, 7}}

MCDocs == {h : h \in AnyTree \cup SharedDocs \cup LongDocs}

ArrayOfTwo(leaf) == {<<[NewArray EXCEPT !.kids = <<2, 3>>], leaf, Number(7)>>}
NoBytes ==
  UNION {ArrayOfTwo(leaf) : leaf \in {Number(0), NewString(<<>>), Primitive("I8", <<5>>)}}
LongString  == ArrayOfTwo(NewString(Chars(16)))
SignedGroup == {<<Primitive("I32", <<8192>>)>>}
=============================================================================
