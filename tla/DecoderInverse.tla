--------------------------- MODULE DecoderInverse ---------------------------
(***************************************************************************)
(* Decoder on streams that encode() wrote.  The decoder trusts the sizes   *)
(* in the stream and compares no position with them: that an activation    *)
(* reads the bytes its parent then skips, those and no others, is a        *)
(* property of the streams and the reads together.                         *)
(***************************************************************************)
EXTENDS Decoder, WireFormat

CONSTANT CleanDocs  \* documents the format carries; the root is object 1

ASSUME CleanDocsAssumption ==
  \A h \in CleanDocs :
    /\ WellBuilt(h) /\ h # <<>> /\ RanksOf(h, MaxDepth) # {}
    /\ \A d \in DOMAIN h : Shaped(h[d]) /\ NumbersFit(h, d)
    /\ Carried(h, 1)

CleanStreams == {Wire(h, 1) : h \in CleanDocs}

Clean == bytes \in CleanStreams

VARIABLES          \* history
  last,    \* the stream of the last call that returned
  start,   \* how many objects there were when the last call began
  unset    \* has that call met an unknown type byte

histories == <<last, start, unset>>

HInit == Init /\ last = <<>> /\ start = 0 /\ unset = FALSE

HNext ==
  /\ Next
  /\ last'  = IF pc' = "returned" THEN bytes' ELSE last
  /\ start' = IF decodes' = decodes THEN start ELSE Len(heap)
  /\ unset' = (decodes' = decodes /\ (unset \/ MeetsUnknown))

HSpec == HInit /\ [][HNext]_<<vars, histories>> /\ WF_vars(Step)

-----------------------------------------------------------------------------
(* Every element of an object decode() made was finished before it.  A call*)
(* that meets no unknown type byte stores only objects of its own: no      *)
(* pointer that was never set, and nothing that an earlier call, perhaps   *)
(* one that threw half-way, has made.  (For an unknown type byte           *)
(* decoding.cc:142-145 returns a pointer it has not set, and               *)
(* decoding.cc:17,46,58,60,74 store it.)                                   *)
PointersAreOld ==
  /\ \A d \in DOMAIN heap : \A k \in DOMAIN heap[d].kids : heap[d].kids[k] \in 1 .. d - 1
  /\ \A f \in DOMAIN frames : \A k \in DOMAIN frames[f].kids :
       frames[f].kids[k] \in DOMAIN heap
  /\ ~ unset =>
       /\ \A d \in start + 1 .. Len(heap) :
            heap[d] # Wild /\ \A k \in DOMAIN heap[d].kids : heap[d].kids[k] > start
       /\ \A f \in DOMAIN frames : \A k \in DOMAIN frames[f].kids :
            frames[f].kids[k] > start
       /\ pc = "returned" => schema > start

(* On a clean stream no activation reads a byte outside the buffer, throws *)
(* or meets an unknown type byte (decoding.cc:28,38,91,142), whatever the  *)
(* calls before it met.                                                    *)
CleanStreamsDecode == Clean => pc \notin {"threw", "undefined"} /\ ~ unset

(* Even on a clean stream the size of a last element may be misread, as a  *)
(* smaller number, even a negative one; the code gets away with it.  What  *)
(* a signed char makes of a size never survives being written again.       *)
SizesReadRight ==
  \A f \in DOMAIN frames : \A k \in DOMAIN frames[f].sizes :
    SurvivesVarint(frames[f].sizes[k])

(* The window of an activation: from its first byte to the last of the     *)
(* bytes its parent takes it for, those it skips when it has the element.  *)
NextSize(f) == frames[f].sizes[Len(frames[f].kids) + 1]

WindowEnd(f) ==
  IF f = Len(frames) THEN Len(bytes) ELSE frames[f].charBytes + NextSize(f + 1) - 1

CallEnd == IF frames = <<>> THEN Len(bytes) ELSE call + NextSize(1) - 1

(* The comment "We have to recursively decode from [decodingIdx] to        *)
(* [decodingIdx + fieldSize - 1]" (decoding.cc:25): on a clean stream an   *)
(* activation never gets behind its window and its window lies in the      *)
(* window of the activation below.                                         *)
WindowsNest ==
  Clean /\ SizesReadRight =>
    \A f \in DOMAIN frames :
      /\ frames[f].at <= WindowEnd(f) + 1
      /\ f < Len(frames) =>
           /\ WindowEnd(f) <= WindowEnd(f + 1)
           /\ frames[f].at > frames[f+1].at

(* ... and reads the whole of it: a composite that has all its elements is *)
(* exactly behind the end of its window, a primitive ends with it, so the  *)
(* size the parent skips is the size the element has.                      *)
WindowsAreFilled ==
  Clean /\ SizesReadRight =>
    /\ HasAll => This.at = WindowEnd(1) + 1
    /\ Branch(NumberTypes) => VarintEnd(bytes, call + 1) = CallEnd
    /\ Branch({"STRING"}) => AfterLength + Length - 1 = CallEnd

(* The document decode() returns is the one whose bytes it was given: the  *)
(* byte format of the result is the argument, also when an earlier call on *)
(* the same Decoder threw half-way.                                        *)
DecodeInvertsWire ==
  Clean /\ pc = "returned" => Wire(heap, schema) = bytes

(* decode() returns a reference to a member (decoding.cc:18), which every  *)
(* later call on the Decoder works on: what a caller holds is its document *)
(* until a later call returns, also in the middle of one and after one     *)
(* that threw, never half a document.                                      *)
SchemaKeepsLast ==
  /\ last = <<>> <=> schema = NULL
  /\ last \in CleanStreams => Wire(heap, schema) = last
=============================================================================
