------------------------------ MODULE DocSets -------------------------------
(***************************************************************************)
(* Small documents for the model-checking runs: every tree and every       *)
(* acyclic heap up to a size, with given leaves.                           *)
(***************************************************************************)
EXTENDS NestedData, SequencesExt

(* Trees of n objects numbered depth first: shape[i] is the parent of i.   *)
Shapes(n) ==
  {shape \in [2 .. n -> 1 .. n] :
     \A i \in 2 .. n : /\ shape[i] < i
                       /\ \A j \in shape[i]+1 .. i-1 : shape[j] >= shape[i]}

Children(shape, i) == SetToSortSeq({j \in DOMAIN shape : shape[j] = i}, <)

(* The k-th field of a STRUCT has a name of k-1 characters.                *)
FieldNames(n) == [k \in 1 .. n |-> [c \in 1 .. k-1 |-> 96 % Radix]]

Composites(kids) ==
  {[NewArray EXCEPT !.kids = kids],
   [NewStruct EXCEPT !.kids = kids, !.names = FieldNames(Len(kids))]}
  \cup (IF Len(kids) = 2 THEN {NewMap(kids[1], kids[2])} ELSE {})

Objects(kids, leaves) == IF kids = <<>> THEN leaves ELSE Composites(kids)

(* Sequences whose i-th element is taken from choices[i].                  *)
RECURSIVE Product(_)
Product(choices) ==
  IF choices = <<>> THEN {<<>>}
  ELSE {Append(h, x) : h \in Product(Front(choices)), x \in Last(choices)}

Trees(n, leaves) ==
  UNION {Product([i \in 1 .. n |-> Objects(Children(shape, i), leaves)]) :
           shape \in Shapes(n)}

TreesUpTo(n, leaves) == UNION {Trees(m, leaves) : m \in 1 .. n}

(* Heaps of n objects in which an object may be pointed to several times;  *)
(* object i has at most width children, from first(i) on.  In a Dag an     *)
(* object points only to later ones, in other heaps there may be cycles.   *)
Heaps(n, width, leaves, first(_)) ==
  LET kidsOf(i) == UNION {[1 .. w -> first(i) .. n] : w \in 0 .. width}
      objects(i) == UNION {Objects(kids, leaves) : kids \in kidsOf(i)}
  IN  Product([i \in 1 .. n |-> objects(i)])

Dags(n, width, leaves)     == Heaps(n, width, leaves, LAMBDA i : i + 1)
AnyHeaps(n, width, leaves) == Heaps(n, width, leaves, LAMBDA i : 1)

Chars(n) == [i \in 1 .. n |-> 65 % Radix]

Powers(radix, n) ==
  LET power[k \in 0 .. n-1] == IF k = 0 THEN 1 ELSE radix * power[k-1]
  IN  power

(* FieldNames leaves the name of a first field empty, which the format     *)
(* does not carry; here every name has a character.                        *)
Named(h) ==
  [d \in DOMAIN h |-> [h[d] EXCEPT !.names = [k \in DOMAIN @ |-> Chars(k)]]]

Number(v) == Primitive("I16", <<v>>)
ArrayOf(n, d) == [NewArray EXCEPT !.kids = [k \in 1 .. n |-> d]]
StructOf(name, n) == [NewStruct EXCEPT !.kids = [k \in 1 .. n |-> k + 1],
                                       !.names = [k \in 1 .. n |-> name]]
=============================================================================
