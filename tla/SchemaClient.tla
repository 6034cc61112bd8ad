----------------------------- MODULE SchemaClient ----------------------------
(***************************************************************************)
(* A program that uses schema.h: it makes Data objects, adds them to each  *)
(* other in any order, and keeps Schema objects, which it copies and adds  *)
(* fields to.                                                              *)
(*                                                                         *)
(* A Schema is two pointers.  struct_ is the Struct that Schema(name) made *)
(* and add_field() adds to; schema_ is the object that Get() returns.      *)
(* Schema() sets neither (the Schema in a Decoder is made that way), and   *)
(* the implicit copy of a Schema copies the pointers and no object.        *)
(***************************************************************************)
EXTENDS NestedData

CONSTANTS
  Schemas,     \* the Schema variables of the program
  Primitives,  \* the Primitive objects it makes
  Names,       \* the names it gives its Schemas and fields
  SchemaName,  \* "Schema Name", the first field of every Schema(name)
  MaxSteps     \* bound: steps of the program

ASSUME ClientAssumption ==
  /\ \A d \in Primitives : /\ d \in Data /\ d.type \in PrimitiveTypes /\ d.kids = <<>>
                           /\ d.type = "STRING" => d.value \in Seq(Byte)
  /\ Names \subseteq Seq(Byte) /\ SchemaName \in Seq(Byte)
  /\ MaxSteps \in Nat

VARIABLES
  heap,      \* the Data objects; none is ever deleted
  struct_,   \* Schema -> its struct_, NULL while it is not set
  schema_,   \* Schema -> its schema_, NULL while it is not set
  added,     \* history: Schema -> the fields added through it, oldest first
  replaced,  \* history: the Schemas AddElement() was called on
  steps,     \* steps taken
  outcome    \* "running", "threw" or "undefined"

history == <<added, replaced>>
vars    == <<heap, struct_, schema_, history, steps, outcome>>

Init ==
  /\ heap = <<>>
  /\ struct_ = [s \in Schemas |-> NULL] /\ schema_ = struct_
  /\ added = [s \in Schemas |-> <<>>] /\ replaced = {}
  /\ steps = 0 /\ outcome = "running"

Running == outcome = "running" /\ steps < MaxSteps /\ steps' = steps + 1

-----------------------------------------------------------------------------
(* Data objects: `new`, Add2Array() and add(), Add2Struct() and add().     *)
(* A program may also hold a pointer to no object, nullptr or one it never *)
(* set; add() and AddElement() take it like any other.                     *)
NewObjects == Primitives \cup {NewArray, NewStruct, Wild}
                \cup {NewMap(key, val) : key, val \in DOMAIN heap}

Make(d) ==
  /\ Running
  /\ heap' = Append(heap, d)
  /\ UNCHANGED <<struct_, schema_, history, outcome>>

AddToArray(a, d) ==
  /\ Running
  /\ heap[a].type = "ARRAY"
  /\ heap' = [heap EXCEPT ![a].kids = Append(@, d)]
  /\ UNCHANGED <<struct_, schema_, history, outcome>>

(* Slip: the field is added without its name.                              *)
WithUnnamedField(h, a, name, d) == [h EXCEPT ![a].kids = Append(@, d)]

WithField(h, a, name, d) ==
  [h EXCEPT ![a].kids = Append(@, d), ![a].names = Append(@, name)]

AddToStruct(a, name, d) ==
  /\ Running
  /\ heap[a].type = "STRUCT"
  /\ heap' = WithField(heap, a, name, d)
  /\ UNCHANGED <<struct_, schema_, history, outcome>>

(* Array(Data* ) passes the size of a std::string, 32, as a position in a  *)
(* type name: std::out_of_range for one that is shorter.  (With a longer   *)
(* one it makes an Array like any other.)                                  *)
ArrayWith(d) ==
  /\ Running
  /\ outcome' = IF heap[d] = Wild THEN "undefined" ELSE "threw"
  /\ UNCHANGED <<heap, struct_, schema_, history>>

-----------------------------------------------------------------------------
(* Schema(name): a new Struct with the name as its first field.            *)
Construct(s, name) ==
  /\ Running
  /\ LET str   == Len(heap) + 1
         title == Len(heap) + 2
     IN  /\ heap' = heap \o <<[NewStruct EXCEPT !.kids = <<title>>,
                                                !.names = <<SchemaName>>],
                              NewString(name)>>
         /\ struct_' = [struct_ EXCEPT ![s] = str]
         /\ schema_' = [schema_ EXCEPT ![s] = str]
         /\ added' = [added EXCEPT ![s] = <<[name |-> SchemaName, data |-> title]>>]
  /\ replaced' = replaced \ {s}
  /\ UNCHANGED outcome

StructKept(s, t)   == struct_[t]   \* slip: an assignment that forgets struct_
StructCopied(s, t) == struct_[s]

Copy(s, t) ==
  /\ Running
  /\ struct_' = [struct_ EXCEPT ![t] = StructCopied(s, t)]
  /\ schema_' = [schema_ EXCEPT ![t] = schema_[s]]
  /\ added' = [added EXCEPT ![t] = added[s]]
  /\ replaced' = IF s \in replaced THEN replaced \cup {t} ELSE replaced \ {t}
  /\ UNCHANGED <<heap, outcome>>

add_field(s, name, d) ==
  /\ Running
  /\ struct_[s] # NULL
  /\ heap' = WithField(heap, struct_[s], name, d)
  /\ added' = [added EXCEPT ![s] = Append(@, [name |-> name, data |-> d])]
  /\ UNCHANGED <<struct_, schema_, replaced, outcome>>

(* The field name is not used.                                             *)
AddElement(s, d) ==
  /\ Running
  /\ schema_' = [schema_ EXCEPT ![s] = d]
  /\ replaced' = replaced \cup {s}
  /\ UNCHANGED <<heap, struct_, added, outcome>>

(* add_field() through, or encode() of, a pointer nobody has set.          *)
UseUnset(s) ==
  /\ Running
  /\ struct_[s] = NULL \/ schema_[s] = NULL
  /\ outcome' = "undefined"
  /\ UNCHANGED <<heap, struct_, schema_, history>>

-----------------------------------------------------------------------------
Next ==
  \/ \E d \in NewObjects : Make(d)
  \/ \E a, d \in DOMAIN heap : AddToArray(a, d)
  \/ \E a, d \in DOMAIN heap, name \in Names : AddToStruct(a, name, d)
  \/ \E d \in DOMAIN heap : ArrayWith(d)
  \/ \E s \in Schemas, name \in Names : Construct(s, name)
  \/ \E s, t \in Schemas : Copy(s, t)
  \/ \E s \in Schemas, d \in DOMAIN heap, name \in Names : add_field(s, name, d)
  \/ \E s \in Schemas, d \in DOMAIN heap : AddElement(s, d)
  \/ \E s \in Schemas : UseUnset(s)

Spec == Init /\ [][Next]_vars

-----------------------------------------------------------------------------
(* Every heap a program can build is one the Encoder is made for (its      *)
(* assumption WellBuilt): pointers are to objects, and struct_ and         *)
(* field_name_ of a Struct (schema.h:81-89) stay of one length however     *)
(* fields were added, so fieldName() never gets to its error branch.       *)
Field == [name : Seq(Byte), data : Nat]

TypeOK ==
  /\ WellBuilt(heap)
  /\ struct_ \in [Schemas -> {NULL} \cup DOMAIN heap]
  /\ \A s \in Schemas : struct_[s] # NULL => heap[struct_[s]].type = "STRUCT"
  /\ schema_ \in [Schemas -> {NULL} \cup DOMAIN heap]
  /\ added \in [Schemas -> Seq(Field)]
  /\ replaced \subseteq Schemas
  /\ steps \in 0 .. MaxSteps
  /\ outcome \in {"running", "threw", "undefined"}

(* What a program adds to a Schema with add_field() is in its Struct, in   *)
(* the order it was added, whatever copies of the Schema were made and     *)
(* added to in between; and that Struct is the document it gives to        *)
(* encode(), unless AddElement(), which leaves struct_ behind              *)
(* (schema.h:136-138), was called: then its fields are still together, but *)
(* encode() need not see them.                                             *)
Fields(h, d) ==
  [k \in DOMAIN h[d].kids |-> [name |-> h[d].names[k], data |-> h[d].kids[k]]]

InOrderIn(s, t) ==
  \E at \in [DOMAIN s -> DOMAIN t] :
    /\ \A k \in DOMAIN s : t[at[k]] = s[k]
    /\ \A j, k \in DOMAIN s : j < k => at[j] < at[k]

FieldsInOrder ==
  \A s \in Schemas : struct_[s] # NULL =>
    /\ InOrderIn(added[s], Fields(heap, struct_[s]))
    /\ s \notin replaced => schema_[s] = struct_[s]
=============================================================================
