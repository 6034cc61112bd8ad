------------------------------ MODULE MCEncoder -----------------------------
(***************************************************************************)
(* Instances of Encoder for TLC: the documents each run encodes.           *)
(***************************************************************************)
EXTENDS EncoderRefinement, DocSets

MCWeight == Powers(Radix, MaxGroups)
MCUnset  == {-1, 3, 200}

(* Trees of at most 5 objects.  The leaves are a string, an empty string,  *)
(* a number of two groups and a number that takes no byte at all.          *)
PlainDocs ==
  TreesUpTo(4, {NewString(Chars(2)), NewString(<<>>),
                Primitive("I16", <<200>>), Primitive("I8", <<0>>)})
    \cup Trees(5, {NewString(Chars(2)), Primitive("I16", <<200>>)})

(* Leaves the format has no bytes for: a text that is not a number, one    *)
(* too big for int, a negative one; and a STRUCT or ARRAY left empty.      *)
FaultDocs ==
  TreesUpTo(4, {Primitive("I16", <<200>>), Primitive("F32", <<>>),
                Primitive("I64", <<IntMax + 1>>),
                Primitive("I64", <<-IntMax - 2>>),
                Primitive("I32", <<IntMax>>), Primitive("I16", <<-1>>),
                NewArray, NewStruct})

(* A primitive of a type name without a code, and a pointer to no object.  *)
OtherDocs ==
  TreesUpTo(4, {Primitive("I16", <<200>>), Primitive("OTHER", <<5>>), Wild})
    \cup TreesUpTo(3, {NewString(Chars(2)), Primitive("OTHER", <<20>>),
                       Primitive("OTHER", <<>>), Primitive("OTHER", <<-1>>)})

(* Radix 16: sizes, counts and name lengths of 16 and more take two bytes. *)
WideDocs ==
  TreesUpTo(4, {NewString(Chars(14)), NewString(Chars(30)),
                Primitive("I16", <<250>>)})
    \cup {<<[NewArray EXCEPT !.kids = [k \in 1 .. n |-> k + 1]]>>
             \o [k \in 1 .. n |-> Primitive("I16", <<k>>)] : n \in 15 .. 18}

TreeDocs == {h : h \in PlainDocs \cup FaultDocs \cup OtherDocs \cup WideDocs}

(* Heaps in which an object may be shared, also within one composite, or   *)
(* contain itself.                                                         *)
SharedDocs ==
  {h : h \in Dags(3, 3, {NewString(Chars(1)), Primitive("I16", <<200>>)})
              \cup Dags(4, 2, {NewString(Chars(1))})
              \cup AnyHeaps(2, 2, {NewString(Chars(1)), Primitive("I16", <<>>)})
              \cup AnyHeaps(3, 1, {Primitive("I16", <<-1>>)})}

(* Documents for several calls on one Encoder: those, and trees with faults*)
CallDocs ==
  {h : h \in SharedDocs
              \cup TreesUpTo(4, {NewString(Chars(1)), Primitive("I16", <<200>>),
                                 Primitive("I16", <<>>)})
              \cup TreesUpTo(3, {NewString(Chars(1)), Wild, NewArray})}

(* Documents with numbers only.                                            *)
NumberDocs == {h : h \in TreesUpTo(4, {Primitive("I16", <<200>>), Primitive("F32", <<7, 5>>)})}
=============================================================================
