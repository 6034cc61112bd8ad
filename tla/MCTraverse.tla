----------------------------- MODULE MCTraverse -----------------------------
(* Instances of SchemaTraverse for TLC.                                     *)
EXTENDS SchemaTraverse, DocSets

MCWeight == Powers(Radix, MaxGroups)

(* Trees, heaps with shared objects, heaps with cycles; pointers to nothing*)
MCDocs ==
  {h : h \in TreesUpTo(4, {Number(5), Wild})
               \cup AnyHeaps(2, 2, {Wild, Number(7)})
               \cup TreesUpTo(5, {Number(5), Number(7)})
               \cup Dags(3, 3, {Number(5), Number(7)})
               \cup Dags(4, 2, {Number(7)})
               \cup AnyHeaps(2, 3, {Number(7), NewArray})
               \cup AnyHeaps(3, 1, {Number(7)})}
=============================================================================
