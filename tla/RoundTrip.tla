------------------------------ MODULE RoundTrip -----------------------------
(***************************************************************************)
(* The scenario of every test in encoding_test.cc: encode a Schema with e1,*)
(* decode the bytes with d, encode the Schema that comes back with e2, and *)
(* compare the two byte streams.  Encoder and Decoder share the heap of    *)
(* Data objects.  Only one Encoder runs at a time, so one set of variables *)
(* serves both e1 and e2.                                                  *)
(***************************************************************************)
EXTENDS WireFormat

CONSTANTS
  Docs,      \* the documents encoded; object 1 is the root
  SSO, Junk, UnsetNumbers,
  MaxEntries, MaxDepth

(* The documents the library can carry: integers of 1 .. IntMax and strings*)
(* and names of at least one character, in composites of at least one      *)
(* element that hold their last element once, all lengths and sizes read   *)
(* back right.  It is sure to carry them if no string is longer than SSO.  *)
Carriable(h) ==
  /\ Carried(h, 1)
  /\ \A d \in Below(h, 1) :
       /\ h[d].type \in NumberTypes => h[d].value[1] <= IntMax
       /\ h[d].type \in CompositeTypes => h[d].kids # <<>> /\ ~ LastChildTwice(h[d])

Supported(h) ==
  /\ Carriable(h)
  /\ \A d \in Below(h, 1) : h[d].type = "STRING" => Len(h[d].value) <= SSO

(* How many composites lie one below the other, from each object down.     *)
Nesting(h) ==
  LET nesting[d \in DOMAIN h] ==
        IF h[d].type \in CompositeTypes
        THEN 1 + Max({0} \cup {nesting[h[d].kids[k]] : k \in DOMAIN h[d].kids})
        ELSE 0
  IN  nesting

(* The objects in memory are those of the document, which has no cycle and *)
(* nests no deeper than the stack allows; an int holds its lengths.        *)
ASSUME RoundTripAssumption ==
  /\ SSO \in Nat /\ Junk \in Byte /\ UnsetNumbers \subseteq Int
  /\ MaxEntries \in Nat /\ MaxDepth \in Nat \ {0}
  /\ \A h \in Docs :
       /\ WellBuilt(h) /\ h # <<>>
       /\ Nesting(h) \in RanksOf(h, MaxDepth)
       /\ \A d \in DOMAIN h : d \in Below(h, 1) /\ Shaped(h[d])
       /\ Supported(h) => \A d \in DOMAIN h : NumbersFit(h, d)

VARIABLES
  heap,
  stage,     \* "start", "encode1", "decode", "encode2" or "done"
  bytes1, bytes2,
  unset,     \* history: has decode() met an unknown type byte
  root, encodeStream_, meta_offset, meta_size_offset, calls, encPc,
  TraverseStack, MetaStack, encodingIdx, remaining, scan, sumIdx, bytestream,
  schema, decodes, bytes, decPc, call, frames

encVars == <<root, encodeStream_, meta_offset, meta_size_offset, calls, encPc,
             TraverseStack, MetaStack, encodingIdx, remaining, scan, sumIdx,
             bytestream>>
decVars == <<schema, decodes, bytes, decPc, call, frames>>
test    == <<stage, bytes1, bytes2, unset>>
vars    == <<heap, test, encVars, decVars>>

E == INSTANCE Encoder WITH MaxEncodes <- 1, pc <- encPc
D == INSTANCE Decoder WITH Sessions <- {<<>>}, session <- <<>>, pc <- decPc

Init ==
  /\ E!Init
  /\ stage = "start"
  /\ bytes1 = <<>> /\ bytes2 = <<>>
  /\ unset = FALSE
  /\ schema = NULL /\ decodes = 0 /\ bytes = <<>>
  /\ decPc = "idle" /\ call = D!NoCall /\ frames = <<>>

-----------------------------------------------------------------------------
(* bytes1 = e1.encode(schema) *)
Encode1 ==
  /\ stage = "start"
  /\ E!Encode(1)
  /\ stage' = "encode1"
  /\ UNCHANGED <<bytes1, bytes2, unset, decVars>>

(* d.decode(bytes1) *)
Decode1 ==
  /\ stage = "encode1"
  /\ encPc = "returned"
  /\ bytes1' = bytestream
  /\ D!Decode(bytestream)
  /\ stage' = "decode"
  /\ UNCHANGED <<bytes2, unset, encVars>>

StreamOfE1  == encodeStream_   \* slip: e2's stream is the one e1 left
EmptyStream == <<>>

(* e2 has its own members, empty until its encode() is called.             *)
NewEncoder ==
  /\ stage = "decode"
  /\ decPc = "returned"
  /\ encodeStream_' = EmptyStream
  /\ meta_offset' = <<>> /\ meta_size_offset' = <<>>
  /\ calls' = 0
  /\ encPc' = "idle"
  /\ stage' = "e2"
  /\ UNCHANGED <<heap, bytes1, bytes2, unset, root, TraverseStack, MetaStack,
                 encodingIdx, remaining, scan, sumIdx, bytestream, decVars>>

(* bytes2 = e2.encode(d.decode(bytes1)) *)
Encode2 ==
  /\ stage = "e2"
  /\ E!Encode(schema)
  /\ stage' = "encode2"
  /\ UNCHANGED <<bytes1, bytes2, unset, decVars>>

Compare ==
  /\ stage = "encode2"
  /\ encPc = "returned"
  /\ bytes2' = bytestream
  /\ stage' = "done"
  /\ UNCHANGED <<heap, bytes1, unset, encVars, decVars>>

EncoderStep == E!Step /\ UNCHANGED <<test, decVars>>

DecoderStep ==
  /\ D!Step
  /\ unset' = (unset \/ D!MeetsUnknown)
  /\ UNCHANGED <<stage, bytes1, bytes2, encVars>>

Next ==
  \/ Encode1 \/ Decode1 \/ NewEncoder \/ Encode2 \/ Compare
  \/ EncoderStep \/ DecoderStep

(* One thread runs the test from beginning to end.                         *)
Spec == Init /\ [][Next]_vars /\ WF_vars(Next)

-----------------------------------------------------------------------------
Failed == encPc \in {"threw", "diverged", "undefined"}
            \/ decPc \in {"threw", "undefined"}

SupportedDoc == Supported(heap)

(* For a supported document nothing in the three calls throws, diverges or *)
(* leaves the defined behaviour.                                           *)
SupportedNeverFails == SupportedDoc => ~ Failed

(* What the test is after: the document that comes back is the document    *)
(* that was sent, for the supported documents                              *)
SameDocument == Tree(heap, 1) = Tree(heap, schema)

SupportedComesBack == stage = "done" /\ SupportedDoc => SameDocument

(* and for no other one but those that are supported save for the length of*)
(* their strings, which may be lucky in what is read from freed memory, as *)
(* the 30 characters of ENCODING_TEST_2 (encoding_test.cc:61) and the 19 of*)
(* VARIANT_TEST (:93) have to be; unless decode() met an unknown type byte *)
(* and returned a pointer that was never set, which may lead anywhere, even*)
(* to the object that was sent.                                            *)
OnlySupportedComesBack ==
  stage = "done" /\ SameDocument /\ ~ unset => Carriable(heap)

(* The test of a supported document ends, with its assertion true, which  *)
(* is weaker: it also holds for documents whose fractions were cut off     *)
(* twice (encoding.cc:208).                                                *)
SupportedTestPasses == SupportedDoc ~> (stage = "done" /\ bytes1 = bytes2)

-----------------------------------------------------------------------------
(* "Those two generated bytestream should be identical" (README.md:25; the *)
(* same in encoding_test.cc:9-10), said of every document.  The code does  *)
(* not keep it for zeros, empty strings, I8 values and long strings.       *)
StreamsIdentical == stage = "done" => bytes1 = bytes2

(* The same promise where the test does not even get to its comparison.    *)
TestPasses == <>(stage = "done" /\ bytes1 = bytes2)
=============================================================================
