------------------------------- MODULE Encoder ------------------------------
(***************************************************************************)
(* One Encoder object (encoding.cc) and the calls of encode() made on it.  *)
(*                                                                         *)
(* encode() walks the schema depth first and writes one stream entry per   *)
(* Data object: the bytes of a primitive, an empty placeholder for a       *)
(* STRUCT, MAP or ARRAY.  It then fills the placeholders from the last to  *)
(* the first: the metadata of a composite lists the byte size of each      *)
(* child, found by scanning the stream.  At last it concatenates the       *)
(* entries.  encodeStream_, meta_offset and meta_size_offset are members   *)
(* of the object: nothing clears them between two calls.                   *)
(*                                                                         *)
(* Positions in the stream are 1-based here, so a C++ index x is x+1 and   *)
(* the -1 stored in meta_offset for "not known yet" is NoOffset = 0.       *)
(***************************************************************************)
EXTENDS NestedData

CONSTANTS
  Docs,        \* the heaps of Data objects a program may have built
  MaxEncodes,  \* bound: calls of encode() on this object
  MaxEntries,  \* bound: entries of a stream (a cyclic document adds entries forever)
  SSO,         \* 15 in libstdc++: longest std::string kept out of the heap
  Junk,        \* the byte read back from memory that was freed
  UnsetNumbers \* what an int64_t may hold that was never set

ASSUME EncoderAssumption ==
  /\ \A h \in Docs : WellBuilt(h)
  /\ MaxEncodes \in Nat /\ MaxEntries \in Nat
  /\ SSO \in Nat
  /\ Junk \in Byte
  /\ UnsetNumbers \subseteq Int

VARIABLES
  heap,              \* the Data objects; encode() only reads them
  root,              \* schema_ of the Schema being encoded
  encodeStream_,     \* member: <<bytes, data>> entries
  meta_offset,       \* member: position of a composite -> its last position
  meta_size_offset,  \* member: position of a composite -> its size in bytes
  calls,             \* calls of encode() begun on this object
  pc,                \* where the current call is
  TraverseStack,     \* local: Data* still to visit, top first
  MetaStack,         \* local: placeholders still to fill, top first
  encodingIdx,       \* local: position of the next entry (of this call)
  remaining,         \* local: iterations left of the metadata loop
  scan,              \* locals of EncodingMeta
  sumIdx,            \* local: next entry to concatenate
  bytestream         \* local, then the value returned

members == <<encodeStream_, meta_offset, meta_size_offset>>
locals  == <<TraverseStack, MetaStack, encodingIdx, remaining, scan, sumIdx,
             bytestream>>
vars    == <<heap, root, members, calls, pc, locals>>

NoOffset == 0
Entry    == [bytes : Seq(Byte), data : Nat]
Placeholder == [bytes |-> <<>>, data |-> NULL]
NoScan   == [data |-> NULL, pos |-> 0, i |-> 0, field |-> 0, metadata |-> <<>>,
             metadata_size |-> 0, nestedsize |-> 0]

(* Slip: insert() instead of operator[], which keeps a value there is.     *)
PutOnce(f, k, v) == IF k \in DOMAIN f THEN f
                    ELSE [x \in DOMAIN f \cup {k} |-> IF x = k THEN v ELSE f[x]]

(* std::unordered_map::operator[] on the left of an assignment. *)
Put(f, k, v) == [x \in DOMAIN f \cup {k} |-> IF x = k THEN v ELSE f[x]]

(* ... and where it is read: a missing key is inserted, with the value 0.  *)
Touch(f, k, zero) == IF k \in DOMAIN f THEN f ELSE Put(f, k, zero)

Init ==
  /\ heap \in Docs
  /\ root = NULL
  /\ encodeStream_ = <<>> /\ meta_offset = <<>> /\ meta_size_offset = <<>>
  /\ calls = 0
  /\ pc = "idle"
  /\ TraverseStack = <<>> /\ MetaStack = <<>>
  /\ encodingIdx = 1 /\ remaining = 0 /\ scan = NoScan /\ sumIdx = 1
  /\ bytestream = <<>>

-----------------------------------------------------------------------------
(* encode(schema): the locals are new, the members are as they were left.  *)
Encode(r) ==
  /\ pc \in {"idle", "returned", "threw"}
  /\ calls < MaxEncodes
  /\ calls' = calls + 1
  /\ root' = r
  /\ pc' = "traverse"
  /\ TraverseStack' = <<r>>
  /\ MetaStack' = <<>>
  /\ encodingIdx' = 1
  /\ remaining' = 0 /\ scan' = NoScan /\ sumIdx' = 1 /\ bytestream' = <<>>
  /\ UNCHANGED <<heap, members>>

-----------------------------------------------------------------------------
(* The traversal.                                                          *)
Top == Head(TraverseStack)

Visiting(types) ==
  /\ pc = "traverse"
  /\ TraverseStack # <<>>
  /\ heap[Top].type \in types

EmitPrimitive(bytes) ==
  /\ encodeStream_' = Append(encodeStream_, [bytes |-> bytes, data |-> Top])
  /\ TraverseStack' = Tail(TraverseStack)
  /\ encodingIdx' = encodingIdx + 1
  /\ UNCHANGED <<heap, root, meta_offset, meta_size_offset, calls, pc,
                 MetaStack, remaining, scan, sumIdx, bytestream>>

(* StringEncoding keeps `data->Value().c_str()` of a string that is gone   *)
(* when the characters are read: one held in the object itself is still    *)
(* there, one held on the heap may have been overwritten.                  *)
DanglingReads(chars) ==
  IF Len(chars) <= SSO THEN {chars}
                       ELSE {chars, [i \in 1 .. Len(chars) |-> Junk]}

VisitString ==
  /\ Visiting({"STRING"})
  /\ \E str \in DanglingReads(heap[Top].value) :
       EmitPrimitive(TypeEncoding(heap[Top])
                       \o VarientEncoding(Len(heap[Top].value)) \o str)

(* Slip: std::stoll, which also reads what an int does not hold.           *)
StollReads(text) == text # <<>>

(* std::stoi(data->Value()) *)
StoiReads(text) == text # <<>> /\ text[1] \in -IntMax-1 .. IntMax

VisitNumber ==
  /\ Visiting(NumberTypes)
  /\ StoiReads(heap[Top].value)
  /\ heap[Top].value[1] >= 0
  /\ EmitPrimitive(TypeEncoding(heap[Top])
                     \o VarientEncoding(heap[Top].value[1]))

(* TypeEncoding has no else: for a type name without a code it writes what *)
(* encodeType happens to hold.                                             *)
UnsetTag == \E t \in UnsetNumbers : t >= 0

VisitOther ==
  /\ Visiting({"OTHER"})
  /\ StoiReads(heap[Top].value)
  /\ heap[Top].value[1] >= 0
  /\ \E encodeType \in UnsetNumbers :
       /\ encodeType >= 0
       /\ EmitPrimitive(VarientEncoding(encodeType)
                          \o VarientEncoding(heap[Top].value[1]))

VisitingNumber == Visiting(NumberTypes) \/ (Visiting({"OTHER"}) /\ UnsetTag)

(* The exception leaves encode(): its locals go, the members stay as they  *)
(* are.                                                                    *)
NumberThrows ==
  /\ VisitingNumber
  /\ ~ StoiReads(heap[Top].value)
  /\ pc' = "threw"
  /\ UNCHANGED <<heap, root, members, calls, locals>>

(* `value >>= 7` takes a negative value to -1 and never to 0: the loop of  *)
(* VarientEncoding does not end.                                           *)
NumberDiverges ==
  /\ VisitingNumber
  /\ StoiReads(heap[Top].value)
  /\ heap[Top].value[1] < 0
  /\ pc' = "diverged"
  /\ UNCHANGED <<heap, root, members, calls, locals>>

TypeDiverges ==
  /\ Visiting({"OTHER"})
  /\ \E encodeType \in UnsetNumbers : encodeType < 0
  /\ pc' = "diverged"
  /\ UNCHANGED <<heap, root, members, calls, locals>>

(* isPrimitive() of what is no object.                                     *)
VisitWild ==
  /\ Visiting({"WILD"})
  /\ pc' = "undefined"
  /\ UNCHANGED <<heap, root, members, calls, locals>>

(* Slips: a queue for the placeholders, so outer ones are filled first; a  *)
(* position taken after encodingIdx++.                                     *)
EnqueueMeta(m)  == Append(MetaStack, m)
PushMetaLate(m) == <<[m EXCEPT !.pos = @ + 1]>> \o MetaStack

PushMeta(m) == <<m>> \o MetaStack

(* Slips: a push loop that stops one element early, at i > 0; one that     *)
(* begins behind the last element, at the size.                            *)
PushedShort == SubSeq(heap[Top].kids, 2, numofElements(heap[Top]))
PushedPast  == heap[Top].kids \o <<NULL>>

Pushed == heap[Top].kids   \* last to first, so the first is on top

VisitComposite ==
  /\ Visiting(CompositeTypes)
  /\ Len(encodeStream_) < MaxEntries
  /\ meta_offset' = Put(meta_offset, encodingIdx, NoOffset)
  /\ encodeStream_' = Append(encodeStream_, Placeholder)
  /\ MetaStack' = PushMeta([data |-> Top, pos |-> encodingIdx])
  /\ TraverseStack' = Pushed \o Tail(TraverseStack)
  /\ encodingIdx' = encodingIdx + 1
  /\ UNCHANGED <<heap, root, meta_size_offset, calls, pc, remaining, scan,
                 sumIdx, bytestream>>

MetaRoundsOneShort == Cardinality(DOMAIN meta_offset) - 1   \* slip
MetaRounds == Cardinality(DOMAIN meta_offset)

(* The metadata loop is bounded by the size of the member meta_offset.     *)
EndTraverse ==
  /\ pc = "traverse"
  /\ TraverseStack = <<>>
  /\ remaining' = MetaRounds
  /\ pc' = "meta"
  /\ UNCHANGED <<heap, root, members, calls, TraverseStack, MetaStack,
                 encodingIdx, scan, sumIdx, bytestream>>

-----------------------------------------------------------------------------
(* EncodingMeta(MetaStack.top()): type and element count, then the field   *)
(* names of a STRUCT, then the scan for the sizes.                         *)
TopHasElements ==
  MetaStack # <<>> /\ numofElements(heap[Head(MetaStack).data]) > 0

NoTypeSize == 0   \* slip: metadata_size that starts without the type byte
TypeSize   == 1   \* metadata_size starts with the type byte

BeginMeta ==
  /\ pc = "meta"
  /\ remaining > 0
  /\ TopHasElements
  /\ LET top   == Head(MetaStack)
         d     == heap[top.data]
         count == IF d.type = "MAP" THEN <<>>
                                    ELSE VarientEncoding(numofElements(d))
     IN  /\ scan' = [data |-> top.data, pos |-> top.pos, i |-> top.pos + 1,
                     field |-> 1, metadata |-> TypeEncoding(d) \o count,
                     metadata_size |-> TypeSize + Len(count), nestedsize |-> 0]
         /\ pc' = IF d.type = "STRUCT" THEN "names" ELSE "scan"
  /\ remaining' = remaining - 1
  /\ MetaStack' = Tail(MetaStack)
  /\ UNCHANGED <<heap, root, members, calls, TraverseStack, encodingIdx,
                 sumIdx, bytestream>>

(* top() of an empty stack, or Get()[0] of a composite without elements.   *)
MetaOfNothing ==
  /\ pc = "meta"
  /\ remaining > 0
  /\ ~ TopHasElements
  /\ pc' = "undefined"
  /\ UNCHANGED <<heap, root, members, calls, locals>>

EncodeFieldName ==
  /\ pc = "names"
  /\ LET str    == heap[scan.data]
         name   == str.names[scan.field]
         length == VarientEncoding(Len(name))
         more   == scan.field < numofElements(str)
     IN  /\ scan' = [scan EXCEPT
                       !.metadata = @ \o length \o name,
                       !.metadata_size = @ + Len(length) + Len(name),
                       !.field = IF more THEN @ + 1 ELSE 1]
         /\ pc' = IF more THEN "names" ELSE "scan"
  /\ UNCHANGED <<heap, root, members, calls, TraverseStack, MetaStack,
                 encodingIdx, remaining, sumIdx, bytestream>>

DataTraverse == heap[scan.data].kids[scan.field]
Scanned      == encodeStream_[scan.i]

Scanning     == pc = "scan"

(* Slips: the bytes of the children before are forgotten; the scan does    *)
(* not move.                                                               *)
ResumedForgetful(found, i) == [found EXCEPT !.i = i, !.nestedsize = 0]
ResumedHere(found, i)      == found

Resumed(found, i) == [found EXCEPT !.i = i]

(* The loop of the scan goes on at entry i, or ends behind the last entry: *)
(* EncodingMeta then returns and the placeholder stays empty.  (It cannot  *)
(* end before its first entry, a composite with elements has some behind.) *)
GoOnAt(i, found) ==
  IF i <= Len(encodeStream_)
  THEN scan' = Resumed(found, i) /\ pc' = "scan"
  ELSE scan' = NoScan /\ pc' = "meta"

(* Slip: the metadata overwrites the entry of the last child.              *)
FilledAtScan(metadata) ==
  [encodeStream_ EXCEPT ![scan.i] = [bytes |-> metadata, data |-> scan.data]]

Filled(metadata) ==
  [encodeStream_ EXCEPT ![scan.pos] = [bytes |-> metadata, data |-> scan.data]]

SameType == heap[Scanned.data].type = heap[DataTraverse].type

(* second->Type() on the null pointer of a placeholder.                    *)
ScanNull ==
  /\ Scanning
  /\ Scanned.data = NULL
  /\ pc' = "undefined"
  /\ UNCHANGED <<heap, root, members, calls, locals>>

ScanSkip ==
  /\ Scanning
  /\ Scanned.data # NULL
  /\ ~ SameType
  /\ GoOnAt(scan.i + 1, scan)
  /\ UNCHANGED <<heap, root, members, calls, TraverseStack, MetaStack,
                 encodingIdx, remaining, sumIdx, bytestream>>

(* An entry of the wanted type is taken for the child: its size is added,  *)
(* and the scan jumps behind a nested composite.  The child whose pointer  *)
(* equals the last child's ends the scan and fills the placeholder.        *)
ScanTake ==
  /\ Scanning
  /\ Scanned.data # NULL
  /\ SameType
  /\ LET d     == heap[scan.data]
         prim  == isPrimitive(heap[DataTraverse])
         sizes == IF prim THEN meta_size_offset ELSE Touch(meta_size_offset, scan.i, 0)
         ends  == IF prim THEN meta_offset ELSE Touch(meta_offset, scan.i, 1)
         bsize == IF prim THEN Len(Scanned.bytes) ELSE sizes[scan.i]
         end   == IF prim THEN scan.i ELSE ends[scan.i]
         length   == VarientEncoding(bsize)
         metadata == scan.metadata \o length
         metadata_size == scan.metadata_size + Len(length)
         nestedsize    == scan.nestedsize + bsize
     IN  IF DataTraverse = d.kids[numofElements(d)]
         THEN /\ meta_offset' = Put(ends, scan.pos, end)
              /\ meta_size_offset' = Put(sizes, scan.pos,
                                         nestedsize + metadata_size)
              /\ encodeStream_' = Filled(metadata)
              /\ scan' = NoScan
              /\ pc' = "meta"
         ELSE /\ GoOnAt(end + 1, [scan EXCEPT !.field = @ + 1,
                                              !.metadata = metadata,
                                              !.metadata_size = metadata_size,
                                              !.nestedsize = nestedsize])
              /\ meta_offset' = ends /\ meta_size_offset' = sizes
              /\ UNCHANGED encodeStream_
  /\ UNCHANGED <<heap, root, calls, TraverseStack, MetaStack, encodingIdx,
                 remaining, sumIdx, bytestream>>

-----------------------------------------------------------------------------
(* "Sums up": the bytes of all entries, also those of earlier calls.       *)
EndMeta ==
  /\ pc = "meta"
  /\ remaining = 0
  /\ pc' = "sum"
  /\ UNCHANGED <<heap, root, members, calls, locals>>

SumUp ==
  /\ pc = "sum"
  /\ sumIdx <= Len(encodeStream_)
  /\ bytestream' = bytestream \o encodeStream_[sumIdx].bytes
  /\ sumIdx' = sumIdx + 1
  /\ UNCHANGED <<heap, root, members, calls, pc, TraverseStack, MetaStack,
                 encodingIdx, remaining, scan>>

Return ==
  /\ pc = "sum"
  /\ sumIdx > Len(encodeStream_)
  /\ pc' = "returned"
  /\ UNCHANGED <<heap, root, members, calls, locals>>

-----------------------------------------------------------------------------
(* The steps of a call that has begun; a thread that runs it takes them.   *)
Step ==
  \/ VisitString \/ VisitNumber \/ VisitOther
  \/ NumberThrows \/ NumberDiverges \/ TypeDiverges \/ VisitWild
  \/ VisitComposite \/ EndTraverse
  \/ BeginMeta \/ MetaOfNothing \/ EncodeFieldName
  \/ ScanNull \/ ScanSkip \/ ScanTake
  \/ EndMeta \/ SumUp \/ Return

Next == Step \/ \E r \in DOMAIN heap : Encode(r)

Spec == Init /\ [][Next]_vars /\ WF_vars(Step)

-----------------------------------------------------------------------------
(* Every variable stays in its type: stream entries and metadata are byte  *)
(* sequences, the work lists hold Data objects of the heap.                *)
Frame == [data : Nat, pos : Nat, i : Nat, field : Nat, metadata : Seq(Byte),
          metadata_size : Nat, nestedsize : Nat]

TypeOK ==
  /\ heap \in Seq(Data)
  /\ root \in Nat
  /\ encodeStream_ \in Seq(Entry)
  /\ DOMAIN meta_offset \subseteq Nat
  /\ meta_offset \in [DOMAIN meta_offset -> Nat]
  /\ DOMAIN meta_size_offset \subseteq Nat
  /\ meta_size_offset \in [DOMAIN meta_size_offset -> Nat]
  /\ calls \in 0 .. MaxEncodes
  /\ pc \in {"idle", "traverse", "meta", "names", "scan", "sum", "returned",
             "threw", "diverged", "undefined"}
  /\ TraverseStack \in Seq(DOMAIN heap)
  /\ MetaStack \in Seq([data : DOMAIN heap, pos : Nat])
  /\ encodingIdx \in Nat /\ remaining \in Nat /\ sumIdx \in Nat \ {0}
  /\ scan \in Frame
  /\ bytestream \in Seq(Byte)

(* The metadata loop of encode() counts the keys of meta_offset but pops   *)
(* MetaStack (encoding.cc:264): on a first call the two agree, so top() is *)
(* never taken of an empty stack and no placeholder is left unfilled.      *)
PopsMatchKeys ==
  calls = 1 /\ pc \in {"meta", "names", "scan"} => remaining = Len(MetaStack)

(* The scan reads entries of the stream and elements of the composite only *)
(* (encoding.cc:86-91), in every call of encode(), also when members are   *)
(* left over from an earlier call or a child was mistaken for another.     *)
ScanInside ==
  pc \in {"names", "scan"} =>
    /\ scan.i \in 1 .. Len(encodeStream_)
    /\ scan.pos \in 1 .. Len(encodeStream_)
    /\ scan.field \in 1 .. numofElements(heap[scan.data])

(* meta_offset and meta_size_offset are read with operator[] (encoding.cc: *)
(* 93), which would invent a 0 for a missing key: the key is always there  *)
(* and already final, never the -1 of a placeholder.                       *)
LookupsAreFilled ==
  calls = 1 /\ Scanning /\ Scanned.data # NULL /\ ~ isPrimitive(heap[Scanned.data])
    => /\ scan.i \in DOMAIN meta_size_offset
       /\ meta_offset[scan.i] >= scan.i

(* EncodingMeta looks for the next child by comparing type names           *)
(* (encoding.cc:91): in a document without shared objects the entry it     *)
(* stops at is always the child itself, so it never skips an entry and     *)
(* never meets the null pointer of a placeholder.                          *)
ScanMeetsChild == calls = 1 /\ Scanning => Scanned.data = DataTraverse

ByteCount(i, j) == SumFunction([k \in i .. j |-> Len(encodeStream_[k].bytes)])

(* The size recorded for a filled composite, from which its parent writes  *)
(* the length the decoder will jump by, is the number of bytes its entry   *)
(* and the entries nested in it take (encoding.cc:106,136,186).            *)
SizesAddUp ==
  calls = 1 =>
    \A p \in DOMAIN meta_size_offset :
      meta_size_offset[p] = ByteCount(p, meta_offset[p])

(* metadata_size, counted by hand next to the metadata it describes        *)
(* (encoding.cc:74), is the length of that metadata.                       *)
MetadataSizeCounted ==
  pc \in {"names", "scan"} => scan.metadata_size = Len(scan.metadata)

(* When the entries are summed up every placeholder has been filled.       *)
NoPlaceholderLeft ==
  calls = 1 /\ pc \in {"sum", "returned"} =>
    \A p \in DOMAIN encodeStream_ : encodeStream_[p].data # NULL

(* During the first call an entry is written once: a step may append to    *)
(* the stream or fill a placeholder, never change a finished entry.        *)
EntriesWrittenOnce ==
  [][ calls = 1 =>
        \A p \in DOMAIN encodeStream_ :
          encodeStream_[p].data # NULL =>
            /\ p \in DOMAIN encodeStream_'
            /\ encodeStream_'[p] = encodeStream_[p] ]_vars

(* A composite added below itself is never encoded: the traversal keeps    *)
(* one of its cycle on the stack and the stream grows without end, or an   *)
(* object on the way stops it (encoding.cc:242-262).  No call gets past    *)
(* the traversal, returns, or fills a single placeholder.                  *)
CyclesNeverReturn ==
  pc # "idle" /\ Cyclic(heap, root) =>
    pc \in {"traverse", "threw", "diverged", "undefined"}

(* A call that has begun ends: it returns, throws, loops in a number that  *)
(* cannot be written, or reaches undefined behaviour; the traversal and    *)
(* the scans themselves always finish on a heap without cycles.            *)
CallsEnd ==
  (pc = "traverse") ~> (pc \in {"returned", "threw", "diverged", "undefined"})
=============================================================================
