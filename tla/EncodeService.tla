---------------------------- MODULE EncodeService ---------------------------
(***************************************************************************)
(* What encode() promises: one answer per request, and the answer is the   *)
(* byte format of the requested document, or a failure when the document   *)
(* holds something the format has no bytes for.  Nothing is promised of the*)
(* bytes of a document with a type name that has no code.  How the bytes   *)
(* are produced, in which order and with which bookkeeping is left to      *)
(* Encoder.                                                                *)
(***************************************************************************)
EXTENDS WireFormat

VARIABLES
  doc,      \* the heap of Data objects
  request,  \* the Data object to encode
  status,   \* "idle", "busy", "answered" or "failed"
  reply     \* the bytes of the answer

vars == <<doc, request, status, reply>>

-----------------------------------------------------------------------------
(* A text that is no int, a negative number, an empty STRUCT or ARRAY, a   *)
(* pointer to no object.                                                   *)
HasNoBytes(d) ==
  \/ /\ d.type \in NumberTypes \cup {"OTHER"}
     /\ d.value = <<>> \/ d.value[1] \notin 0 .. IntMax
  \/ d.type \in CompositeTypes /\ d.kids = <<>>
  \/ d.type = "WILD"

Encodable(h, r) == \A d \in Below(h, r) : ~ HasNoBytes(h[d])

-----------------------------------------------------------------------------
Init ==
  /\ doc \in Seq(Data)
  /\ request = NULL
  /\ status = "idle"
  /\ reply = <<>>

Submit(r) ==
  /\ status = "idle"
  /\ status' = "busy"
  /\ request' = r
  /\ UNCHANGED <<doc, reply>>

Answer ==
  /\ status = "busy"
  /\ status' = "answered"
  /\ Encodable(doc, request)
  /\ TypesKnown(doc, request) => reply' = Wire(doc, request)
  /\ UNCHANGED <<doc, request>>

Fail ==
  /\ status = "busy"
  /\ status' = "failed"
  /\ TypesKnown(doc, request) => ~ Encodable(doc, request)
  /\ UNCHANGED <<doc, request, reply>>

Next == Answer \/ Fail \/ \E r \in DOMAIN doc : Submit(r)

Spec == Init /\ [][Next]_vars
=============================================================================
