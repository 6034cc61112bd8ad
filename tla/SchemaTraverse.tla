---------------------------- MODULE SchemaTraverse ---------------------------
(***************************************************************************)
(* SchemaTraverse of schema_test.cc: a walk over the objects of a Schema   *)
(* that collects the values of the primitives.  encode() visits the        *)
(* objects with the same loop.                                             *)
(***************************************************************************)
EXTENDS NestedData, SequencesExt

CONSTANTS
  Docs,    \* the heaps of Data objects a program may have built
  MaxWork  \* bound: values found and objects on the stack (a cycle adds forever)

ASSUME TraverseAssumption ==
  /\ \A h \in Docs : WellBuilt(h) /\ h # <<>>
  /\ MaxWork \in Nat

VARIABLES
  heap,   \* the Data objects; the walk only reads them
  Stack,  \* objects still to visit, top first
  ret,    \* the values found
  pc      \* "walk", "done" or "undefined"

vars == <<heap, Stack, ret, pc>>

root == 1   \* what schema.Get() returned

Init ==
  /\ heap \in Docs
  /\ Stack = <<root>> /\ ret = <<>>
  /\ pc = "walk"

Walking(types) == pc = "walk" /\ Stack # <<>> /\ heap[Head(Stack)].type \in types

VisitPrimitive ==
  /\ Walking(PrimitiveTypes)
  /\ ret' = Append(ret, heap[Head(Stack)].value)
  /\ Stack' = Tail(Stack)
  /\ UNCHANGED <<heap, pc>>

(* isPrimitive() of what is no object.                                     *)
VisitWild ==
  /\ Walking({"WILD"})
  /\ pc' = "undefined"
  /\ UNCHANGED <<heap, Stack, ret>>

(* Slips: elements pushed first to last; a loop that ends at i > 0, or     *)
(* begins at the size; the object itself not popped.                       *)
PushedForward(d) == Reverse(heap[d].kids) \o Tail(Stack)
PushedShort(d)   == SubSeq(heap[d].kids, 2, numofElements(heap[d])) \o Tail(Stack)
PushedPast(d)    == heap[d].kids \o <<NULL>> \o Tail(Stack)
PushedOn(d)      == heap[d].kids \o Stack

Pushed(d) == heap[d].kids \o Tail(Stack)   \* last to first: the first on top

VisitComposite ==
  /\ Walking(CompositeTypes)
  /\ Len(Stack) + Len(ret) < MaxWork
  /\ Stack' = Pushed(Head(Stack))
  /\ UNCHANGED <<heap, ret, pc>>

Return ==
  /\ pc = "walk"
  /\ Stack = <<>>
  /\ pc' = "done"
  /\ UNCHANGED <<heap, Stack, ret>>

Next == VisitPrimitive \/ VisitWild \/ VisitComposite \/ Return

Spec == Init /\ [][Next]_vars /\ WF_vars(Next)   \* one thread walks

-----------------------------------------------------------------------------
(* The stack holds objects of the heap: no walk follows a wild pointer.    *)
TypeOK ==
  /\ WellBuilt(heap)
  /\ Stack \in Seq(DOMAIN heap)
  /\ ret \in Seq(Seq(Int))
  /\ pc \in {"walk", "done", "undefined"}

(* A walk finds the values below the root, "and the order of element too"  *)
(* (README.md:22): what it has found followed by what is below the objects *)
(* on its stack is at every step the values of the document in order, also *)
(* where objects are shared.                                               *)
ValuesBelow(h, r) ==
  LET values[d \in DOMAIN h] ==
        IF isPrimitive(h[d]) THEN <<h[d].value>>
        ELSE FlattenSeq([k \in DOMAIN h[d].kids |-> values[h[d].kids[k]]])
  IN  values[r]

BelowEach(h, s) == [k \in DOMAIN s |-> ValuesBelow(h, s[k])]

WalkInOrder ==
  ~ Cyclic(heap, root) =>
    ret \o FlattenSeq(BelowEach(heap, Stack)) = ValuesBelow(heap, root)

(* add() lets a composite be added below itself; a walk that meets it does *)
(* not end (schema_test.cc:24-35) ...                                      *)
CyclesNeverEnd == pc = "done" => ~ Cyclic(heap, root)

(* ... and every other walk ends, however objects are shared, unless it    *)
(* comes to a pointer to no object.                                        *)
WalkEnds ==
  (~ Cyclic(heap, root) /\ \A d \in Below(heap, root) : heap[d] # Wild) ~> pc = "done"
=============================================================================
