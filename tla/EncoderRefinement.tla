-------------------------- MODULE EncoderRefinement -------------------------
(***************************************************************************)
(* Encoder implements EncodeService, for the first call on an Encoder.     *)
(***************************************************************************)
EXTENDS Encoder, WireFormat

status ==
  CASE pc = "idle"                                -> "idle"
    [] pc = "returned"                            -> "answered"
    [] pc \in {"threw", "diverged", "undefined"}  -> "failed"
    [] OTHER                                      -> "busy"

Service == INSTANCE EncodeService
             WITH doc <- heap, request <- root, status <- status,
                  reply <- IF pc = "returned" THEN bytestream ELSE <<>>

(* A heap without the four things the format comments do not foresee: a    *)
(* cycle, a type name without a code, a string whose characters are gone   *)
(* when they are read, and a composite that holds its last child twice.    *)
(* That only composites hold objects and only STRUCTs have names is the    *)
(* work of the constructors.                                               *)
PlainHeap(h) ==
  \A d \in DOMAIN h :
    /\ ~ Cyclic(h, d)
    /\ h[d].type # "OTHER"
    /\ h[d].type \notin CompositeTypes => h[d].kids = <<>>
    /\ h[d].type # "STRUCT" => h[d].names = <<>>
    /\ h[d].type = "STRING" => Len(h[d].value) <= SSO
    /\ ~ LastChildTwice(h[d])

(* The walk, the placeholders and the back-patching of encode() together   *)
(* answer a request with the byte format of the document, the one of the   *)
(* comments at encoding.cc:35,83,116,146 and of the tag at :207, and fail  *)
(* exactly on documents that format cannot write.  (That they do one of the*)
(* two is CallsEnd: TLC cannot evaluate ENABLED under the mapping.)        *)
ImplementsService == Service!Spec

(* In a heap where objects are shared, the scan of EncodingMeta ends at    *)
(* the first child whose pointer equals the last child's (encoding.cc:104, *)
(* 134, 184).  The bytes are right exactly when no composite holds its     *)
(* last child twice; sharing of any other kind is harmless.                *)
OnceEach(h, r) == \A d \in Below(h, r) : ~ LastChildTwice(h[d])

SharingRule ==
  calls = 1 /\ pc = "returned" /\ TypesKnown(heap, root) =>
    (bytestream = Wire(heap, root) <=> OnceEach(heap, root))

(* A used Encoder still has the entries and placeholders of its earlier    *)
(* calls, even of one that threw (encoding.h:14-16).  A later call that    *)
(* returns yields the bytes of its document exactly if no entry was left   *)
(* behind, as after a throw on the very first object, and sharing does no  *)
(* harm; and only with entries left behind can it take top() of an empty   *)
(* MetaStack or come upon a placeholder nobody fills (encoding.cc:91,265). *)
(* (For objects that write at least one byte; a zero I8 leaves an entry    *)
(* without bytes.)  The tests take a new Encoder for every document.       *)
Leftovers == Len(encodeStream_) - (encodingIdx - 1)

ReuseRule ==
  calls > 1 /\ ~ Cyclic(heap, root) /\ TypesKnown(heap, root) =>
    /\ pc = "returned" =>
         (bytestream = Wire(heap, root) <=> Leftovers = 0 /\ OnceEach(heap, root))
    /\ pc = "undefined" => Leftovers # 0 \/ ~ Service!Encodable(heap, root)

(* "Variant integer and other numbers will be stored without any metadata."*)
(* (BinaryFormat.md:80): the bytes of a number are those of its value.     *)
NumbersHaveNoMetadata ==
  \A p \in DOMAIN encodeStream_ :
    LET d == encodeStream_[p].data
    IN  d # NULL /\ heap[d].type \in NumberTypes =>
          encodeStream_[p].bytes = VarientEncoding(heap[d].value[1])
=============================================================================
