---------------------------- MODULE DecoderProofs ---------------------------
(***************************************************************************)
(* Proofs about Decoder.  For every byte stream, well-formed or not, and   *)
(* any number of calls: what decode() builds is a finite tree with names   *)
(* for all fields, and every variable stays in its type.  For the bytes of *)
(* every document of CleanDocs: each activation is at an object of the     *)
(* document and has read what was written of it, so decode() never fails   *)
(* and is the inverse of the byte format.                                  *)
(***************************************************************************)
EXTENDS DecoderInverse, DataLemmas

(* The stream may make a size or a length any number; the shape of the     *)
(* heap and of the activations does not depend on it.                      *)
IsSeq(s) == \E S : s \in Seq(S)

FrameNames == {"type", "charBytes", "at", "numofFields", "names", "sizes", "kids"}

FrameOK(fr, n) == DOMAIN fr = FrameNames /\ fr.kids \in Seq(1 .. n)

(* The heap may hold other objects than those decode() made, as long as    *)
(* none is below itself.                                                   *)
Acyclic(h) ==
  /\ IsSeq(h) /\ \A d \in 1 .. Len(h) : h[d].kids \in Seq(1 .. Len(h))
  /\ \A r \in DOMAIN h : ~ Cyclic(h, r)

HeapInv == Acyclic(heap)

FrameInv ==
  /\ IsSeq(frames) /\ \A f \in 1 .. Len(frames) : FrameOK(frames[f], Len(heap))
  /\ pc = "frame" => frames # <<>>

IInv == HeapInv /\ FrameInv

-----------------------------------------------------------------------------
(* What IsSeq says.                                                        *)
LEMMA SeqFacts ==
  ASSUME NEW s, IsSeq(s)
  PROVE  Len(s) \in Nat /\ DOMAIN s = 1 .. Len(s)
BY DEF IsSeq

(* One more element.                                                       *)
LEMMA AppendFacts ==
  ASSUME NEW s, IsSeq(s), NEW x
  PROVE  /\ IsSeq(Append(s, x)) /\ Len(Append(s, x)) = Len(s) + 1
         /\ \A k \in 1 .. Len(s) : Append(s, x)[k] = s[k]
         /\ Append(s, x)[Len(s) + 1] = x
<1>1. PICK S : s \in Seq(S)
  BY DEF IsSeq
<1>2. s \in Seq(S \cup {x}) /\ x \in S \cup {x}
  BY <1>1, SeqMonotonic
<1> DEFINE T == S \cup {x}
<1> HIDE DEF T
<1>3. s \in Seq(T) /\ x \in T
  BY <1>2 DEF T
<1>4. /\ Append(s, x) \in Seq(T) /\ Len(Append(s, x)) = Len(s) + 1
      /\ \A k \in 1 .. Len(s) : Append(s, x)[k] = s[k]
      /\ Append(s, x)[Len(s) + 1] = x
  BY <1>3, AppendProperties
<1> QED
  BY <1>4 DEF IsSeq

(* Another first element.                                                  *)
LEMMA FirstReplaced ==
  ASSUME NEW s, IsSeq(s), s # <<>>, NEW x
  PROVE  /\ IsSeq([s EXCEPT ![1] = x]) /\ Len([s EXCEPT ![1] = x]) = Len(s)
         /\ [s EXCEPT ![1] = x] # <<>>
         /\ \A k \in 1 .. Len(s) : [s EXCEPT ![1] = x][k] = IF k = 1 THEN x ELSE s[k]
<1>1. PICK S : s \in Seq(S)
  BY DEF IsSeq
<1> DEFINE T == S \cup {x}
<1>2. s \in Seq(T) /\ x \in T
  BY <1>1, SeqMonotonic
<1> HIDE DEF T
<1>3. 1 \in 1 .. Len(s) /\ Len(s) > 0
  BY <1>2
<1>4. [s EXCEPT ![1] = x] \in Seq(T) /\ Len([s EXCEPT ![1] = x]) = Len(s)
  BY <1>2, <1>3, ExceptSeq
<1>5. \A k \in 1 .. Len(s) : [s EXCEPT ![1] = x][k] = IF k = 1 THEN x ELSE s[k]
  BY <1>2
<1> QED
  BY <1>3, <1>4, <1>5 DEF IsSeq

(* All but the first.                                                      *)
LEMMA TailFacts ==
  ASSUME NEW s, IsSeq(s), s # <<>>
  PROVE  /\ IsSeq(Tail(s)) /\ Len(Tail(s)) = Len(s) - 1
         /\ \A k \in 1 .. Len(s) - 1 : Tail(s)[k] = s[k+1]
<1>1. PICK S : s \in Seq(S)
  BY DEF IsSeq
<1> QED
  BY <1>1, HeadTailProperties DEF IsSeq

(* An activation keeps the elements it has when objects are added.         *)
LEMMA FrameKept ==
  ASSUME NEW fr, NEW n \in Nat, NEW m \in Nat, n <= m, FrameOK(fr, n)
  PROVE  FrameOK(fr, m)
<1>1. 1 .. n \subseteq 1 .. m
  OBVIOUS
<1> QED
  BY <1>1, SeqMonotonic DEF FrameOK

-----------------------------------------------------------------------------
(* An object that holds older ones closes no cycle.                        *)
LEMMA AcyclicAppend ==
  ASSUME NEW h, Acyclic(h), NEW d, d.kids \in Seq(1 .. Len(h))
  PROVE  Acyclic(Append(h, d))
<1> DEFINE g == Append(h, d)
<1>1. IsSeq(h) /\ Len(h) \in Nat /\ DOMAIN h = 1 .. Len(h)
  BY SeqFacts DEF Acyclic
<1>2. /\ IsSeq(g) /\ Len(g) = Len(h) + 1
      /\ \A k \in 1 .. Len(h) : g[k] = h[k]
      /\ g[Len(h) + 1] = d
  BY <1>1, AppendFacts
<1> HIDE DEF g
<1>3. DOMAIN g = 1 .. Len(h) + 1
  BY <1>2, SeqFacts
<1>4. ASSUME NEW k \in 1 .. Len(h) + 1
      PROVE  g[k].kids \in Seq(1 .. Len(h)) /\ (k # Len(h) + 1 => k \in 1 .. Len(h) /\ g[k] = h[k])
  BY <1>1, <1>2, <1>4 DEF Acyclic
<1>5. ASSUME NEW k \in 1 .. Len(h) + 1 PROVE g[k].kids \in Seq(1 .. Len(h) + 1)
  <2>1. 1 .. Len(h) \subseteq 1 .. Len(h) + 1
    BY <1>1
  <2> QED
    BY <1>4, <2>1, SeqMonotonic
<1>6. ASSUME NEW C \in SUBSET DOMAIN g, Endless(g, C), NEW r \in C PROVE FALSE
  <2> DEFINE D == C \ {Len(h) + 1}
  <2>1. ASSUME NEW x \in C
        PROVE  /\ g[x].type \in CompositeTypes
               /\ \E k \in DOMAIN g[x].kids : g[x].kids[k] \in D
    <3>1. PICK k \in DOMAIN g[x].kids : g[x].kids[k] \in C
      BY <1>6 DEF Endless
    <3>2. g[x].kids \in Seq(1 .. Len(h))
      BY <1>3, <1>4
    <3>3. g[x].kids[k] \in 1 .. Len(h)
      BY <3>2
    <3>4. g[x].kids[k] \in D
      BY <1>1, <3>1, <3>3
    <3> QED
      BY <1>6, <3>4 DEF Endless
  <2>2. D \subseteq 1 .. Len(h) /\ \A x \in D : x \in C /\ g[x] = h[x]
    BY <1>3, <1>4
  <2>3. PICK y : y \in D
    BY <2>1
  <2> HIDE DEF D
  <2>4. Endless(h, D)
    <3>1. ASSUME NEW x \in D
          PROVE  h[x].type \in CompositeTypes /\ \E k \in DOMAIN h[x].kids : h[x].kids[k] \in D
      BY <2>1, <2>2
    <3> QED
      BY <3>1 DEF Endless
  <2>5. Cyclic(h, y) /\ y \in DOMAIN h
    BY <1>1, <2>2, <2>3, <2>4 DEF Cyclic
  <2> QED
    BY <2>5 DEF Acyclic
<1>7. \A r \in DOMAIN g : ~ Cyclic(g, r)
  BY <1>6 DEF Cyclic
<1> QED
  BY <1>2, <1>5, <1>7 DEF Acyclic, g

(* An activation returns a pointer to an object of the heap.               *)
LEMMA HandKeepsIInv ==
  ASSUME HeapInv', NEW n \in Nat, n <= Len(heap'), NEW ptr \in 1 .. Len(heap'),
         NEW below, IsSeq(below), \A f \in 1 .. Len(below) : FrameOK(below[f], n),
         Hand(ptr, below)
  PROVE  IInv'
<1>0. Len(heap') \in Nat
  BY SeqFacts DEF HeapInv, Acyclic
<1>1. \A f \in 1 .. Len(below) : FrameOK(below[f], Len(heap'))
  BY <1>0, FrameKept
<1>2. CASE below = <<>>
  <2>1. frames' = <<>> /\ pc' = "returned"
    BY <1>2 DEF Hand
  <2>2. <<>> \in Seq({}) /\ Len(<<>>) = 0
    BY EmptySeq
  <2>3. IsSeq(frames') /\ 1 .. Len(frames') = {}
    BY <2>1, <2>2 DEF IsSeq
  <2> QED
    BY <2>1, <2>3 DEF IInv, FrameInv
<1>3. CASE below # <<>>
  <2> DEFINE fr == WithElement(below[1], ptr)
  <2>1. 1 \in 1 .. Len(below) /\ Len(below) \in Nat
    <3>1. PICK S : below \in Seq(S)
      BY DEF IsSeq
    <3> QED
      BY <1>3, <3>1
  <2>2. frames' = [below EXCEPT ![1] = fr]
    BY <1>3 DEF Hand
  <2>3. FrameOK(fr, Len(heap'))
    <3>1. DOMAIN fr = FrameNames /\ fr.kids = Append(below[1].kids, ptr)
      BY <1>1, <2>1 DEF FrameOK, FrameNames, WithElement
    <3>2. below[1].kids \in Seq(1 .. Len(heap'))
      BY <1>1, <2>1 DEF FrameOK
    <3> HIDE DEF fr
    <3> QED
      BY <3>1, <3>2, AppendProperties DEF FrameOK
  <2> HIDE DEF fr
  <2>4. /\ IsSeq(frames') /\ Len(frames') = Len(below) /\ frames' # <<>>
        /\ \A f \in 1 .. Len(below) : frames'[f] = IF f = 1 THEN fr ELSE below[f]
    BY <1>3, <2>2, FirstReplaced
  <2> QED
    BY <1>1, <2>3, <2>4 DEF IInv, FrameInv
<1> QED
  BY <1>2, <1>3

(* An activation returns an object whose elements are older than it.       *)
LEMMA DeliverKeepsIInv ==
  ASSUME IInv, NEW d, d.kids \in Seq(1 .. Len(heap)), NEW below, IsSeq(below),
         \A f \in 1 .. Len(below) : FrameOK(below[f], Len(heap)),
         Deliver(d, below)
  PROVE  IInv'
<1>1. IsSeq(heap) /\ Len(heap) \in Nat /\ heap' = Append(heap, d) /\ Hand(Len(heap) + 1, below)
  BY SeqFacts DEF IInv, HeapInv, Acyclic, Deliver, NewPtr
<1>2. Len(heap') = Len(heap) + 1
  BY <1>1, AppendFacts
<1>3. HeapInv'
  BY <1>1, AcyclicAppend DEF IInv, HeapInv
<1>4. Len(heap) <= Len(heap') /\ Len(heap) + 1 \in 1 .. Len(heap')
  BY <1>1, <1>2
<1> QED
  BY <1>1, <1>3, <1>4, HandKeepsIInv

(* Wherever the pointer leads that was never set, it closes no cycle.      *)
LEMMA UnknownKeepsIInv == IInv /\ DecodeUnknown => IInv'
<1> SUFFICES ASSUME IInv, DecodeUnknown PROVE IInv'
  OBVIOUS
<1>1. /\ IsSeq(frames) /\ \A f \in 1 .. Len(frames) : FrameOK(frames[f], Len(heap))
      /\ Len(heap) \in Nat /\ DOMAIN heap = 1 .. Len(heap)
  BY SeqFacts DEF IInv, FrameInv, HeapInv, Acyclic
<1>2. CASE Deliver(Wild, frames)
  <2>1. Wild.kids \in Seq(1 .. Len(heap))
    BY EmptySeq DEF Wild
  <2> QED
    BY <1>1, <1>2, <2>1, DeliverKeepsIInv
<1>3. CASE \E ptr \in DOMAIN heap : Hand(ptr, frames) /\ UNCHANGED heap
  <2>1. PICK ptr \in 1 .. Len(heap) : Hand(ptr, frames) /\ UNCHANGED heap
    BY <1>1, <1>3
  <2>2. HeapInv'
    BY <2>1 DEF IInv, HeapInv, Acyclic
  <2> QED
    BY <1>1, <2>1, <2>2, HandKeepsIInv
<1> QED
  BY <1>2, <1>3 DEF DecodeUnknown

(* Reads inside an activation leave its elements alone.                    *)
LEMMA AdvanceKeepsIInv ==
  ASSUME IInv, pc = "frame", NEW fr, Advance(fr),
         FrameOK(frames[1], Len(heap)) => FrameOK(fr, Len(heap))
  PROVE  IInv'
<1>1. frames' = [frames EXCEPT ![1] = fr] /\ UNCHANGED <<heap, pc>>
  BY DEF Advance
<1>2. IsSeq(frames) /\ frames # <<>> /\ \A f \in 1 .. Len(frames) : FrameOK(frames[f], Len(heap))
  BY DEF IInv, FrameInv
<1>3. 1 \in 1 .. Len(frames)
  <2>1. PICK S : frames \in Seq(S)
    BY <1>2 DEF IsSeq
  <2> QED
    BY <1>2, <2>1
<1>4. /\ IsSeq(frames') /\ Len(frames') = Len(frames) /\ frames' # <<>>
      /\ \A f \in 1 .. Len(frames) : frames'[f] = IF f = 1 THEN fr ELSE frames[f]
  BY <1>1, <1>2, FirstReplaced
<1> QED
  BY <1>1, <1>2, <1>3, <1>4 DEF IInv, HeapInv, Acyclic, FrameInv

(* An activation begins with no pointer,                                   *)
LEMMA EnterCompositeKeepsIInv == IInv /\ EnterComposite => IInv'
<1> SUFFICES ASSUME IInv, EnterComposite PROVE IInv'
  OBVIOUS
<1> DEFINE fr == [type   |-> TaggedType,
                  charBytes |-> call,
                  at     |-> call + 1,
                  numofFields |-> IF TaggedType = "MAP" THEN 2 ELSE NotRead,
                  names |-> <<>>, sizes |-> <<>>, kids |-> <<>>]
<1>1. frames' = <<fr>> \o frames /\ UNCHANGED heap
  BY Zenon DEF EnterComposite
<1>2. FrameOK(fr, Len(heap))
  BY EmptySeq DEF FrameOK, FrameNames
<1> HIDE DEF fr
<1>3. PICK S : frames \in Seq(S)
  BY DEF IInv, FrameInv, IsSeq
<1> DEFINE T == S \cup {fr}
<1>4. frames \in Seq(T) /\ <<fr>> \in Seq(T)
  BY <1>3, SeqMonotonic
<1> HIDE DEF T
<1>5. /\ frames' \in Seq(T) /\ Len(frames') = Len(frames) + 1 /\ frames' # <<>>
      /\ \A f \in 1 .. Len(frames') : frames'[f] = IF f = 1 THEN fr ELSE frames[f-1]
  BY <1>1, <1>4
<1>6. ASSUME NEW f \in 1 .. Len(frames') PROVE FrameOK(frames'[f], Len(heap))
  <2>1. f # 1 => f - 1 \in 1 .. Len(frames)
    BY <1>4, <1>5
  <2> QED
    BY <1>2, <1>5, <2>1 DEF IInv, FrameInv
<1> QED
  BY <1>1, <1>5, <1>6 DEF IInv, HeapInv, Acyclic, FrameInv, IsSeq

(* and returns an object whose elements are older.                         *)
LEMMA CompleteKeepsIInv == IInv /\ Complete => IInv'
<1> SUFFICES ASSUME IInv, Complete PROVE IInv'
  OBVIOUS
<1> DEFINE d == [type |-> This.type, value |-> <<>>, kids |-> This.kids, names |-> This.names]
<1>1. pc = "frame" /\ Deliver(d, Tail(frames))
  BY DEF Complete, HasAll, WantsNothing, InFrame
<1>2. IsSeq(frames) /\ frames # <<>> /\ \A f \in 1 .. Len(frames) : FrameOK(frames[f], Len(heap))
  BY <1>1 DEF IInv, FrameInv
<1>3. Len(frames) \in Nat /\ Len(frames) > 0
  <2>1. PICK S : frames \in Seq(S)
    BY <1>2 DEF IsSeq
  <2> QED
    BY <1>2, <2>1
<1>4. d.kids \in Seq(1 .. Len(heap))
  BY <1>2, <1>3 DEF FrameOK, This
<1> HIDE DEF d
<1>5. /\ IsSeq(Tail(frames)) /\ Len(Tail(frames)) = Len(frames) - 1
      /\ \A f \in 1 .. Len(frames) - 1 : Tail(frames)[f] = frames[f+1]
  BY <1>2, TailFacts
<1>6. \A f \in 1 .. Len(Tail(frames)) : FrameOK(Tail(frames)[f], Len(heap))
  BY <1>2, <1>3, <1>5
<1> QED
  BY <1>1, <1>4, <1>5, <1>6, DeliverKeepsIInv

(* Every step keeps the pointers in order,                                 *)
LEMMA IInvNext == IInv /\ [Next]_vars => IInv'
<1> SUFFICES ASSUME IInv, [Next]_vars PROVE IInv'
  OBVIOUS
<1>1. ASSUME UNCHANGED heap, frames' = <<>>, pc' = "enter" PROVE IInv'
  <2>1. <<>> \in Seq({}) /\ Len(<<>>) = 0
    BY EmptySeq
  <2>2. IsSeq(frames') /\ 1 .. Len(frames') = {}
    BY <1>1, <2>1 DEF IsSeq
  <2> QED
    BY <1>1, <2>2 DEF IInv, HeapInv, Acyclic, FrameInv
<1>2. ASSUME UNCHANGED <<heap, frames>>, pc' = "frame" => pc = "frame" PROVE IInv'
  BY <1>2 DEF IInv, HeapInv, Acyclic, FrameInv
<1>3. ASSUME NEW t, NEW v, Deliver(Primitive(t, v), frames) PROVE IInv'
  <2>1. Primitive(t, v).kids \in Seq(1 .. Len(heap))
    BY EmptySeq DEF Primitive
  <2> QED
    BY <1>3, <2>1, DeliverKeepsIInv DEF IInv, FrameInv
<1>4. CASE NextCall
  BY <1>1, <1>4 DEF NextCall, Decode
<1>5. CASE DecodeNumber
  BY <1>3, <1>5 DEF DecodeNumber
<1>6. CASE DecodeString
  BY <1>3, <1>6 DEF DecodeString, NewString
<1>7. CASE StringThrows \/ EnterUndefined \/ FrameThrows \/ FrameUndefined
  <2>1. UNCHANGED <<heap, frames>> /\ pc' \in {"threw", "undefined"}
    BY <1>7 DEF StringThrows, EnterUndefined, FrameThrows, FrameUndefined, Stop
  <2> QED
    BY <1>2, <2>1
<1>8. CASE DecodeChild
  BY <1>2, <1>8 DEF DecodeChild
<1>9. ASSUME NEW fr, FrameOK(This, Len(heap)), DOMAIN fr = DOMAIN This, fr.kids = This.kids
      PROVE  FrameOK(fr, Len(heap))
  BY <1>9 DEF FrameOK
<1>10. CASE ReadCount
  <2>1. pc = "frame" /\ Advance([This EXCEPT !.numofFields = IntValue, !.at = Behind])
    BY <1>10 DEF ReadCount, WantsCount, InFrame
  <2>2. FrameOK(This, Len(heap)) =>
          FrameOK([This EXCEPT !.numofFields = IntValue, !.at = Behind], Len(heap))
    BY DEF FrameOK, FrameNames
  <2> QED
    BY <2>1, <2>2, AdvanceKeepsIInv DEF This
<1>11. CASE ReadFieldName
  <2> DEFINE name == SubSeq(bytes, Behind, Behind + IntValue - 1)
             fr   == [This EXCEPT !.names = Append(@, name), !.at = Behind + IntValue]
  <2>1. pc = "frame" /\ Advance(fr)
    BY <1>11 DEF ReadFieldName, WantsName, InFrame
  <2>2. FrameOK(This, Len(heap)) => FrameOK(fr, Len(heap))
    BY DEF FrameOK, FrameNames
  <2> HIDE DEF fr
  <2> QED
    BY <2>1, <2>2, AdvanceKeepsIInv DEF This
<1>12. CASE ReadSize
  <2> DEFINE fr == [This EXCEPT !.sizes = Append(@, Value), !.at = Behind]
  <2>1. pc = "frame" /\ Advance(fr)
    BY <1>12 DEF ReadSize, WantsSize, InFrame
  <2>2. FrameOK(This, Len(heap)) => FrameOK(fr, Len(heap))
    BY DEF FrameOK, FrameNames
  <2> HIDE DEF fr
  <2> QED
    BY <2>1, <2>2, AdvanceKeepsIInv DEF This
<1>13. CASE UNCHANGED vars
  BY <1>2, <1>13 DEF vars
<1> QED
  BY <1>4, <1>5, <1>6, <1>7, <1>8, <1>10, <1>11, <1>12, <1>13,
     EnterCompositeKeepsIInv, CompleteKeepsIInv, UnknownKeepsIInv DEF Next, Step

(* at first there is none,                                                 *)
LEMMA IInvInit == Init => IInv
<1>1. <<>> \in Seq({}) /\ Len(<<>>) = 0
  BY EmptySeq
<1>2. IsSeq(<<>>)
  BY <1>1 DEF IsSeq
<1> QED
  BY <1>1, <1>2 DEF Init, IInv, HeapInv, Acyclic, FrameInv

(* and so in every state.                                                  *)
THEOREM IInvHolds == Spec => []IInv
BY IInvInit, IInvNext, PTL DEF Spec

(* A step adds one object at most, which holds older ones only.            *)
LEMMA HeapChanges ==
  ASSUME IInv, [Next]_vars
  PROVE  heap' = heap \/ \E d : d.kids \in Seq(1 .. Len(heap)) /\ heap' = Append(heap, d)
<1>1. ASSUME NEW t, NEW v, Deliver(Primitive(t, v), frames)
      PROVE  \E d : d.kids \in Seq(1 .. Len(heap)) /\ heap' = Append(heap, d)
  <2>1. Primitive(t, v).kids \in Seq(1 .. Len(heap))
    BY EmptySeq DEF Primitive
  <2> QED
    BY <1>1, <2>1 DEF Deliver
<1>2. CASE DecodeNumber
  BY <1>1, <1>2 DEF DecodeNumber
<1>3. CASE DecodeString
  BY <1>1, <1>3 DEF DecodeString, NewString
<1>4. CASE Complete
  <2>1. pc = "frame" /\ heap' = Append(heap, [type |-> This.type, value |-> <<>>,
                                             kids |-> This.kids, names |-> This.names])
    BY <1>4 DEF Complete, HasAll, WantsNothing, InFrame, Deliver
  <2>2. IsSeq(frames) /\ frames # <<>> /\ \A f \in 1 .. Len(frames) : FrameOK(frames[f], Len(heap))
    BY <2>1 DEF IInv, FrameInv
  <2>3. 1 \in 1 .. Len(frames)
    <3>1. PICK S : frames \in Seq(S)
      BY <2>2 DEF IsSeq
    <3> QED
      BY <2>2, <3>1
  <2>4. This.kids \in Seq(1 .. Len(heap))
    BY <2>2, <2>3 DEF FrameOK, This
  <2> QED
    BY <2>1, <2>4
<1>5. CASE DecodeUnknown
  <2>1. Wild.kids \in Seq(1 .. Len(heap))
    BY EmptySeq DEF Wild
  <2> QED
    BY <1>5, <2>1 DEF DecodeUnknown, Deliver
<1>6. CASE ~ (DecodeNumber \/ DecodeString \/ DecodeUnknown \/ Complete)
  BY <1>6 DEF Next, Step, NextCall, Decode, EnterComposite, StringThrows, EnterUndefined, ReadCount,
     ReadFieldName, ReadSize, DecodeChild, FrameThrows, FrameUndefined, Advance, Stop, vars
<1> QED
  BY <1>2, <1>3, <1>4, <1>5, <1>6

(* In a heap that only decode() adds to, every pointer is to an older      *)
(* object.                                                                 *)
OlderKids == \A d \in 1 .. Len(heap) : heap[d].kids \in Seq(1 .. d - 1)

LEMMA OlderKidsNext == IInv /\ OlderKids /\ [Next]_vars => OlderKids'
<1> SUFFICES ASSUME IInv, OlderKids, [Next]_vars, heap' # heap PROVE OlderKids'
  BY DEF OlderKids
<1>1. PICK d : d.kids \in Seq(1 .. Len(heap)) /\ heap' = Append(heap, d)
  BY HeapChanges
<1>2. IsSeq(heap) /\ Len(heap) \in Nat
  BY SeqFacts DEF IInv, HeapInv, Acyclic
<1>3. /\ Len(heap') = Len(heap) + 1
      /\ \A k \in 1 .. Len(heap) : heap'[k] = heap[k]
      /\ heap'[Len(heap) + 1] = d
  BY <1>1, <1>2, AppendFacts
<1>4. ASSUME NEW k \in 1 .. Len(heap') PROVE heap'[k].kids \in Seq(1 .. k - 1)
  <2>1. CASE k \in 1 .. Len(heap)
    BY <1>3, <2>1 DEF OlderKids
  <2>2. CASE k \notin 1 .. Len(heap)
    <3>1. k = Len(heap) + 1 /\ k - 1 = Len(heap)
      BY <1>2, <1>3, <2>2
    <3> QED
      BY <1>1, <1>3, <3>1
  <2> QED
    BY <2>1, <2>2
<1> QED
  BY <1>4 DEF OlderKids

(* No composite that decode() makes is below itself, whatever the bytes:   *)
(* every walk over a decoded document comes to an end.  (A pointer that was*)
(* never set leads to an object made before, or to no Data at all.)        *)
THEOREM DecodedIsAcyclic == Spec => [](\A r \in DOMAIN heap : ~ Cyclic(heap, r))
<1>1. IInv => \A r \in DOMAIN heap : ~ Cyclic(heap, r)
  BY DEF IInv, HeapInv, Acyclic
<1> QED
  BY <1>1, IInvHolds, PTL

-----------------------------------------------------------------------------
(* An activation that waits for an element has read its size: it moves on  *)
(* by that size when the element is delivered.                             *)
WaitInv ==
  \A f \in 1 .. Len(frames) :
    f > 1 \/ pc = "enter" => Len(frames[f].kids) < Len(frames[f].sizes)

TypeInv == TypeOK /\ WaitInv

(* The type a branch is taken for.                                         *)
LEMMA TagTyped ==
  ASSUME NEW T, T \subseteq DOMAIN TypeCode, Branch(T)
  PROVE  TaggedType \in T
<1>1. PICK t \in T : Tag = TypeCode[t]
  BY DEF Branch
<1>2. \A t1, t2 \in DOMAIN TypeCode : TypeCode[t1] = TypeCode[t2] => t1 = t2
  BY DEF TypeCode
<1>3. TaggedType \in DOMAIN TypeCode /\ TypeCode[TaggedType] = Tag
  BY <1>1, Zenon DEF TaggedType
<1> QED
  BY <1>1, <1>2, <1>3

(* What is read is a number, and the position behind it.                   *)
LEMMA ReadTyped ==
  ASSUME TypeOK, NEW at \in Int, VarintReadable(bytes, at)
  PROVE  /\ VariantDecoder(bytes, at) \in Int /\ VarintEnd(bytes, at) \in Nat
         /\ VarintEnd(bytes, at) >= 1
<1>1. bytes \in Seq(Byte)
  BY DEF TypeOK
<1>2. /\ VariantDecoder(bytes, at) \in Int /\ at \in Nat \ {0}
      /\ VarintEnd(bytes, at) \in at .. Len(bytes) /\ Len(bytes) \in Nat
  BY <1>1, VariantDecoderType, VarintEndType
<1> QED
  BY <1>2

(* The characters from position i to j of the stream.                      *)
LEMMA CharsTyped ==
  ASSUME TypeOK, NEW i \in Int, i >= 1, NEW j \in Int, j <= Len(bytes)
  PROVE  SubSeq(bytes, i, j) \in Seq(Byte)
<1>1. bytes \in Seq(Byte)
  BY DEF TypeOK
<1> QED
  BY <1>1, SubSeqProperties

(* An element is added in its type.                                        *)
LEMMA ElementAdded ==
  ASSUME NEW fr \in Activation, Len(fr.kids) < Len(fr.sizes), NEW ptr \in Nat
  PROVE  WithElement(fr, ptr) \in Activation
<1>1. Append(fr.kids, ptr) \in Seq(Nat)
  BY AppendProperties DEF Activation
<1>2. BehindElement(fr, fr.sizes[Len(fr.kids) + 1]) \in Int
  <2>1. fr.sizes \in Seq(Int) /\ fr.kids \in Seq(Nat) /\ fr.at \in Int /\ fr.charBytes \in Int
    BY DEF Activation
  <2>2. Len(fr.kids) + 1 \in 1 .. Len(fr.sizes)
    BY <2>1
  <2>3. fr.sizes[Len(fr.kids) + 1] \in Int
    BY <2>1, <2>2, ElementOfSeq
  <2>4. ToInt(fr.at - fr.charBytes + fr.sizes[Len(fr.kids) + 1]) \in Int
    <3>1. fr.at - fr.charBytes + fr.sizes[Len(fr.kids) + 1] \in Int
      BY <2>1, <2>3
    <3> QED
      BY <3>1, ToIntKeeps
  <2> QED
    BY <2>1, <2>4 DEF BehindElement
<1> DEFINE kids == Append(fr.kids, ptr)
           at   == BehindElement(fr, fr.sizes[Len(fr.kids) + 1])
<1>3. WithElement(fr, ptr) = [fr EXCEPT !.kids = kids, !.at = at]
  BY Zenon DEF WithElement
<1>4. kids \in Seq(Nat) /\ at \in Int
  BY <1>1, <1>2
<1> HIDE DEF kids, at
<1> QED
  BY <1>3, <1>4 DEF Activation

(* A pointer is returned in its type.                                      *)
LEMMA HandTyped ==
  ASSUME TypeOK, heap' \in Seq(Data), Len(heap) <= Len(heap'),
         NEW ptr \in 1 .. Len(heap'), NEW below \in Seq(Activation),
         Len(below) <= Len(frames), Hand(ptr, below),
         \A f \in 1 .. Len(below) : Len(below[f].kids) < Len(below[f].sizes)
  PROVE  TypeInv'
<1>1. call' = NoCall /\ UNCHANGED <<session, decodes, bytes>>
  BY DEF Hand
<1>2. Len(heap') \in Nat /\ Len(heap) \in Nat
  BY DEF TypeOK
<1>3. call' \in Int
  BY <1>1 DEF NoCall
<1>4. Len(frames) \in Nat /\ Len(frames) <= MaxDepth /\ MaxDepth \in Nat
  BY DecoderAssumption DEF TypeOK
<1>5. CASE below = <<>>
  <2>1. schema' = ptr /\ pc' = "returned" /\ frames' = <<>>
    BY <1>5 DEF Hand
  <2>2. frames' \in Seq(Activation) /\ Len(frames') = 0
    BY <2>1, EmptySeq
  <2>3. schema' \in 0 .. Len(heap')
    BY <1>2, <2>1
  <2> QED
    BY <1>1, <1>2, <1>3, <1>4, <2>1, <2>2, <2>3 DEF TypeInv, TypeOK, WaitInv
<1>6. CASE below # <<>>
  <2> DEFINE fr == WithElement(below[1], ptr)
  <2>1. frames' = [below EXCEPT ![1] = fr] /\ pc' = "frame" /\ schema' = schema
    BY <1>6 DEF Hand
  <2>2. 1 \in 1 .. Len(below) /\ below[1] \in Activation /\ Len(below) \in Nat
    <3>1. 1 \in 1 .. Len(below) /\ Len(below) \in Nat
      BY <1>6
    <3> QED
      BY <3>1, ElementOfSeq
  <2>3. fr \in Activation
    <3>1. ptr \in Nat
      BY <1>2
    <3> QED
      BY <2>2, <3>1, ElementAdded
  <2> HIDE DEF fr
  <2>4. /\ frames' \in Seq(Activation) /\ Len(frames') = Len(below)
        /\ \A f \in 1 .. Len(below) : f > 1 => frames'[f] = below[f]
    BY <2>1, <2>2, <2>3
  <2>5. schema' \in 0 .. Len(heap')
    <3>1. schema \in 0 .. Len(heap)
      BY DEF TypeOK
    <3> QED
      BY <1>2, <2>1, <3>1
  <2>6. Len(frames') <= MaxDepth
    BY <1>4, <2>2, <2>4
  <2> QED
    BY <1>1, <1>3, <2>1, <2>4, <2>5, <2>6 DEF TypeInv, TypeOK, WaitInv
<1> QED
  BY <1>5, <1>6

(* An object is returned in its type.                                      *)
LEMMA DeliverTyped ==
  ASSUME TypeOK, NEW d \in Data, NEW below \in Seq(Activation),
         Len(below) <= Len(frames), Deliver(d, below),
         \A f \in 1 .. Len(below) : Len(below[f].kids) < Len(below[f].sizes)
  PROVE  TypeInv'
<1>1. heap \in Seq(Data) /\ heap' = Append(heap, d) /\ Hand(Len(heap) + 1, below)
  BY DEF TypeOK, Deliver, NewPtr
<1>2. heap' \in Seq(Data) /\ Len(heap') = Len(heap) + 1 /\ Len(heap) \in Nat
  BY <1>1, AppendProperties
<1>3. Len(heap) <= Len(heap') /\ Len(heap) + 1 \in 1 .. Len(heap')
  BY <1>2
<1> QED
  BY <1>1, <1>2, <1>3, HandTyped

(* An activation that reads on stays in its type;                          *)
LEMMA AdvanceTyped ==
  ASSUME TypeInv, pc = "frame", frames # <<>>, NEW fr \in Activation, Advance(fr)
  PROVE  TypeInv'
<1>1. /\ frames' = [frames EXCEPT ![1] = fr]
      /\ UNCHANGED <<heap, schema, session, decodes, bytes, pc, call>>
  BY DEF Advance
<1>2. frames \in Seq(Activation) /\ Len(frames) \in Nat
  BY DEF TypeInv, TypeOK
<1>3. 1 \in 1 .. Len(frames)
  BY <1>2
<1>4. /\ frames' \in Seq(Activation) /\ Len(frames') = Len(frames)
      /\ \A f \in 1 .. Len(frames) : f > 1 => frames'[f] = frames[f]
  BY <1>1, <1>2, <1>3
<1> QED
  BY <1>1, <1>4 DEF TypeInv, TypeOK, WaitInv

(* the one that runs is typed,                                             *)
LEMMA FrameTyped ==
  ASSUME TypeInv, IInv, pc = "frame"
  PROVE  /\ frames # <<>> /\ 1 \in 1 .. Len(frames) /\ Len(frames) \in Nat
         /\ This \in Activation
<1>1. frames \in Seq(Activation) /\ frames # <<>>
  BY DEF TypeInv, TypeOK, IInv, FrameInv
<1>2. 1 \in 1 .. Len(frames) /\ Len(frames) \in Nat
  BY <1>1
<1> QED
  BY <1>1, <1>2, ElementOfSeq DEF This

(* A field read from the stream, and the byte behind it.                   *)
LEMMA FieldTyped ==
  ASSUME TypeInv, IInv, pc = "frame", VarintReadable(bytes, This.at)
  PROVE  /\ This \in Activation /\ Value \in Int /\ IntValue \in Int
         /\ Behind \in Nat /\ Behind > 1
<1>1. This \in Activation /\ This.at \in Int
  BY FrameTyped DEF Activation
<1>2. /\ VariantDecoder(bytes, This.at) \in Int /\ VarintEnd(bytes, This.at) \in Nat
      /\ VarintEnd(bytes, This.at) >= 1
  BY <1>1, ReadTyped DEF TypeInv
<1> QED
  BY <1>1, <1>2, ToIntKeeps DEF Value, IntValue, Behind

(* with the count it reads,                                                *)
LEMMA ReadCountTyped == TypeInv /\ IInv /\ ReadCount => TypeInv'
<1> SUFFICES ASSUME TypeInv, IInv, ReadCount PROVE TypeInv'
  OBVIOUS
<1> DEFINE n  == IntValue
           at == Behind
           fr == [This EXCEPT !.numofFields = n, !.at = at]
<1>1. pc = "frame" /\ VarintReadable(bytes, This.at) /\ Advance(fr)
  BY DEF ReadCount, WantsCount, InFrame
<1>2. This \in Activation /\ n \in Int /\ at \in Int
  BY <1>1, FieldTyped
<1> HIDE DEF n, at
<1>3. fr \in Activation
  BY <1>2 DEF Activation
<1> HIDE DEF fr
<1> QED
  BY <1>1, <1>3, FrameTyped, AdvanceTyped

(* a size                                                                  *)
LEMMA ReadSizeTyped == TypeInv /\ IInv /\ ReadSize => TypeInv'
<1> SUFFICES ASSUME TypeInv, IInv, ReadSize PROVE TypeInv'
  OBVIOUS
<1> DEFINE sizes == Append(This.sizes, Value)
           at    == Behind
           fr    == [This EXCEPT !.sizes = sizes, !.at = at]
<1>1. pc = "frame" /\ VarintReadable(bytes, This.at) /\ Advance(fr)
  BY DEF ReadSize, WantsSize, InFrame
<1>2. This \in Activation /\ Value \in Int /\ at \in Int
  BY <1>1, FieldTyped
<1>3. sizes \in Seq(Int)
  BY <1>2, AppendProperties DEF Activation
<1> HIDE DEF sizes, at
<1>4. fr \in Activation
  BY <1>2, <1>3 DEF Activation
<1> HIDE DEF fr
<1> QED
  BY <1>1, <1>4, FrameTyped, AdvanceTyped

(* or a name.                                                              *)
LEMMA ReadFieldNameTyped == TypeInv /\ IInv /\ ReadFieldName => TypeInv'
<1> SUFFICES ASSUME TypeInv, IInv, ReadFieldName PROVE TypeInv'
  OBVIOUS
<1> DEFINE name  == SubSeq(bytes, Behind, Behind + IntValue - 1)
           names == Append(This.names, name)
           after == Behind + IntValue
           fr    == [This EXCEPT !.names = names, !.at = after]
<1>1. /\ pc = "frame" /\ VarintReadable(bytes, This.at) /\ Advance(fr)
      /\ Behind + IntValue - 1 <= Len(bytes)
  BY DEF ReadFieldName, WantsName, InFrame
<1>2. This \in Activation /\ IntValue \in Int /\ Behind \in Nat /\ Behind > 1
  BY <1>1, FieldTyped
<1>3. after \in Int
  BY <1>2
<1>4. name \in Seq(Byte)
  <2>1. Behind + IntValue - 1 \in Int /\ Behind \in Int /\ Behind >= 1
    BY <1>2
  <2> QED
    BY <1>1, <2>1, CharsTyped DEF TypeInv
<1> HIDE DEF name
<1>5. names \in Seq(Seq(Byte))
  BY <1>2, <1>4, AppendProperties DEF Activation
<1> HIDE DEF names, after
<1>6. fr \in Activation
  BY <1>2, <1>3, <1>5 DEF Activation
<1> HIDE DEF fr
<1> QED
  BY <1>1, <1>6, FrameTyped, AdvanceTyped

(* A composite begins typed,                                               *)
LEMMA EnterCompositeTyped == TypeInv /\ EnterComposite => TypeInv'
<1> SUFFICES ASSUME TypeInv, EnterComposite PROVE TypeInv'
  OBVIOUS
<1> DEFINE type == TaggedType
           at   == call + 1
           num  == IF TaggedType = "MAP" THEN 2 ELSE NotRead
           fr   == [type |-> type, charBytes |-> call, at |-> at, numofFields |-> num,
                    names |-> <<>>, sizes |-> <<>>, kids |-> <<>>]
<1>1. /\ frames' = <<fr>> \o frames /\ pc' = "frame" /\ call' = NoCall
      /\ UNCHANGED <<heap, schema, session, decodes, bytes>>
  BY Zenon DEF EnterComposite
<1>2. type \in CompositeTypes
  <2>1. CompositeTypes \subseteq DOMAIN TypeCode /\ Branch(CompositeTypes)
    BY DEF CompositeTypes, TypeCode, EnterComposite
  <2> QED
    BY <2>1, TagTyped
<1>3. call \in Int
  BY DEF TypeInv, TypeOK
<1>4. at \in Int /\ num \in Int
  BY <1>3 DEF NotRead
<1> HIDE DEF type, at, num
<1>5. fr \in Activation
  <2>1. <<>> \in Seq(Seq(Byte)) /\ <<>> \in Seq(Int) /\ <<>> \in Seq(Nat)
    BY EmptySeq
  <2> QED
    BY <1>2, <1>3, <1>4, <2>1 DEF Activation
<1> HIDE DEF fr
<1>6. pc = "enter" /\ Len(frames) < MaxDepth
  BY DEF EnterComposite, Branch
<1>7. frames \in Seq(Activation) /\ Len(frames) \in Nat /\ MaxDepth \in Nat
  BY DecoderAssumption DEF TypeInv, TypeOK
<1>8. <<fr>> \in Seq(Activation)
  BY <1>5
<1>9. /\ frames' \in Seq(Activation) /\ Len(frames') = Len(frames) + 1
      /\ \A f \in 1 .. Len(frames') : f > 1 => frames'[f] = frames[f-1]
  BY <1>1, <1>7, <1>8
<1>10. WaitInv'
  <2>1. ASSUME NEW f \in 1 .. Len(frames'), f > 1
        PROVE  Len(frames'[f].kids) < Len(frames'[f].sizes)
    <3>1. f - 1 \in 1 .. Len(frames) /\ frames'[f] = frames[f-1]
      BY <1>7, <1>9, <2>1
    <3> QED
      BY <1>6, <3>1 DEF TypeInv, WaitInv
  <2> QED
    BY <1>1, <2>1 DEF WaitInv
<1>11. TypeOK'
  <2>1. call' \in Int
    BY <1>1 DEF NoCall
  <2>2. Len(frames') <= MaxDepth
    BY <1>6, <1>7, <1>9
  <2> QED
    BY <1>1, <1>9, <2>1, <2>2 DEF TypeInv, TypeOK
<1> QED
  BY <1>10, <1>11 DEF TypeInv

(* The objects that an activation returns.                                 *)
LEMMA PrimitiveTyped ==
  ASSUME NEW t \in DataTypes, NEW v \in Seq(Int)
  PROVE  Primitive(t, v) \in Data
BY EmptySeq DEF Primitive, Data

(* An activation that is entered belongs to activations that wait for it.  *)
LEMMA LeafTyped ==
  ASSUME TypeInv, pc = "enter", NEW d \in Data, Deliver(d, frames)
  PROVE  TypeInv'
<1>1. frames \in Seq(Activation) /\ TypeOK /\ Len(frames) \in Nat
  BY DEF TypeInv, TypeOK
<1>2. \A f \in 1 .. Len(frames) : Len(frames[f].kids) < Len(frames[f].sizes)
  BY DEF TypeInv, WaitInv
<1> QED
  BY <1>1, <1>2, DeliverTyped

(* a number is made typed,                                                 *)
LEMMA DecodeNumberTyped == TypeInv /\ DecodeNumber => TypeInv'
<1> SUFFICES ASSUME TypeInv, DecodeNumber PROVE TypeInv'
  OBVIOUS
<1>1. /\ pc = "enter" /\ Branch(NumberTypes) /\ VarintReadable(bytes, call + 1)
      /\ Deliver(Primitive(TaggedType, <<Length>>), frames)
  BY DEF DecodeNumber, LengthIsRead, Branch
<1>2. TaggedType \in DataTypes
  <2>1. NumberTypes \subseteq DOMAIN TypeCode /\ NumberTypes \subseteq DataTypes
    BY DEF DataTypes, PrimitiveTypes, NumberTypes, TypeCode
  <2> QED
    BY <1>1, <2>1, TagTyped
<1>3. call + 1 \in Int
  BY DEF TypeInv, TypeOK
<1>4. Length \in Int
  BY <1>1, <1>3, ReadTyped DEF TypeInv, Length
<1>5. <<Length>> \in Seq(Int)
  BY <1>4
<1> QED
  BY <1>1, <1>2, <1>5, PrimitiveTyped, LeafTyped

(* a string                                                                *)
LEMMA DecodeStringTyped == TypeInv /\ DecodeString => TypeInv'
<1> SUFFICES ASSUME TypeInv, DecodeString PROVE TypeInv'
  OBVIOUS
<1> DEFINE end   == AfterLength + Length - 1
           chars == SubSeq(bytes, AfterLength, end)
<1>1. /\ pc = "enter" /\ VarintReadable(bytes, call + 1)
      /\ end <= Len(bytes) /\ Deliver(NewString(chars), frames)
  BY DEF DecodeString, LengthIsRead, Branch
<1>2. call + 1 \in Int
  BY DEF TypeInv, TypeOK
<1>3. Length \in Int /\ AfterLength \in Int /\ AfterLength >= 1
  <2>1. /\ VariantDecoder(bytes, call + 1) \in Int
        /\ VarintEnd(bytes, call + 1) \in Nat /\ VarintEnd(bytes, call + 1) >= 1
    BY <1>1, <1>2, ReadTyped DEF TypeInv
  <2> QED
    BY <2>1 DEF Length, AfterLength
<1>4. end \in Int
  BY <1>3
<1> HIDE DEF end
<1>5. chars \in Seq(Byte)
  BY <1>1, <1>3, <1>4, CharsTyped DEF TypeInv
<1> HIDE DEF chars
<1>6. Byte \subseteq Int
  BY RadixTyped DEF Byte
<1>7. chars \in Seq(Int) /\ "STRING" \in DataTypes
  BY <1>5, <1>6, SeqMonotonic DEF DataTypes, PrimitiveTypes
<1> QED
  BY <1>1, <1>7, PrimitiveTyped, LeafTyped DEF NewString

(* nothing at all                                                          *)
LEMMA DecodeUnknownTyped == TypeInv /\ DecodeUnknown => TypeInv'
<1> SUFFICES ASSUME TypeInv, DecodeUnknown PROVE TypeInv'
  OBVIOUS
<1>1. pc = "enter" /\ TypeOK /\ frames \in Seq(Activation) /\ Len(frames) \in Nat
  BY DEF DecodeUnknown, MeetsUnknown, TypeInv, TypeOK
<1>2. CASE Deliver(Wild, frames)
  <2>1. Wild \in Data
    BY EmptySeq DEF Wild, Data, DataTypes
  <2> QED
    BY <1>1, <1>2, <2>1, LeafTyped
<1>3. CASE \E ptr \in DOMAIN heap : Hand(ptr, frames) /\ UNCHANGED heap
  <2>1. heap \in Seq(Data) /\ Len(heap) \in Nat /\ DOMAIN heap = 1 .. Len(heap)
    BY <1>1 DEF TypeOK
  <2>2. PICK ptr \in 1 .. Len(heap) : Hand(ptr, frames) /\ UNCHANGED heap
    BY <1>3, <2>1
  <2>3. \A f \in 1 .. Len(frames) : Len(frames[f].kids) < Len(frames[f].sizes)
    BY <1>1 DEF TypeInv, WaitInv
  <2> QED
    BY <1>1, <2>1, <2>2, <2>3, HandTyped
<1> QED
  BY <1>2, <1>3 DEF DecodeUnknown

(* and a composite.                                                        *)
LEMMA CompleteTyped == TypeInv /\ IInv /\ Complete => TypeInv'
<1> SUFFICES ASSUME TypeInv, IInv, Complete PROVE TypeInv'
  OBVIOUS
<1> DEFINE d == [type |-> This.type, value |-> <<>>, kids |-> This.kids, names |-> This.names]
<1>1. pc = "frame" /\ Deliver(d, Tail(frames))
  BY DEF Complete, HasAll, WantsNothing, InFrame
<1>2. /\ This \in Activation /\ frames # <<>> /\ Len(frames) \in Nat
      /\ frames \in Seq(Activation)
  BY <1>1, FrameTyped DEF TypeInv, TypeOK
<1>3. d \in Data
  <2>1. <<>> \in Seq(Int) /\ CompositeTypes \subseteq DataTypes
    BY EmptySeq DEF DataTypes
  <2> QED
    BY <1>2, <2>1 DEF Activation, Data
<1> HIDE DEF d
<1>4. /\ Tail(frames) \in Seq(Activation) /\ Len(Tail(frames)) = Len(frames) - 1
      /\ \A f \in 1 .. Len(Tail(frames)) : Tail(frames)[f] = frames[f+1]
  BY <1>2, HeadTailProperties
<1>5. ASSUME NEW f \in 1 .. Len(Tail(frames))
      PROVE  Len(Tail(frames)[f].kids) < Len(Tail(frames)[f].sizes)
  <2>1. f + 1 \in 1 .. Len(frames) /\ f + 1 > 1 /\ Tail(frames)[f] = frames[f+1]
    BY <1>2, <1>4
  <2> QED
    BY <2>1 DEF TypeInv, WaitInv
<1>6. Len(Tail(frames)) <= Len(frames) /\ TypeOK
  BY <1>2, <1>4 DEF TypeInv
<1> QED
  BY <1>1, <1>3, <1>4, <1>5, <1>6, DeliverTyped

(* An activation starts another for an element whose size it has read.     *)
LEMMA DecodeChildTyped == TypeInv /\ IInv /\ DecodeChild => TypeInv'
<1> SUFFICES ASSUME TypeInv, IInv, DecodeChild PROVE TypeInv'
  OBVIOUS
<1>1. /\ WantsChild /\ pc = "frame" /\ pc' = "enter"
      /\ call' = This.at
      /\ UNCHANGED <<heap, schema, session, decodes, bytes, frames>>
  BY DEF DecodeChild, WantsChild, InFrame
<1>2. This \in Activation /\ frames \in Seq(Activation)
  BY <1>1, FrameTyped DEF TypeInv, TypeOK
<1>3. /\ This.at \in Int /\ Len(This.kids) \in Nat /\ Len(This.sizes) \in Nat
      /\ This.sizes \in Seq(Int) /\ This.numofFields \in Int
  BY <1>2 DEF Activation
<1>4. Len(This.kids) < Len(This.sizes)
  <2>1. Len(This.kids) < This.numofFields /\ ~ (Len(This.sizes) < This.numofFields)
    BY <1>1 DEF WantsChild, WantsSize
  <2> QED
    BY <1>3, <2>1
<1>7. WaitInv'
  <2>1. ASSUME NEW f \in 1 .. Len(frames)
        PROVE  Len(frames[f].kids) < Len(frames[f].sizes)
    <3>1. CASE f = 1
      BY <1>4, <3>1 DEF This
    <3>2. CASE f > 1
      BY <3>2 DEF TypeInv, WaitInv
    <3> QED
      BY <3>1, <3>2
  <2> QED
    BY <1>1, <2>1 DEF WaitInv
<1> QED
  BY <1>1, <1>3, <1>7 DEF TypeInv, TypeOK

(* Every step keeps the types,                                             *)
LEMMA TypeInvNext == TypeInv /\ IInv /\ [Next]_vars => TypeInv'
<1> SUFFICES ASSUME TypeInv, IInv, [Next]_vars PROVE TypeInv'
  OBVIOUS
<1>1. ASSUME UNCHANGED <<heap, schema, session, decodes, bytes, call, frames>>,
             pc' \in {"threw", "undefined"} \/ pc' = pc
      PROVE  TypeInv'
  <2>1. pc' \in {"idle", "enter", "frame", "returned", "threw", "undefined"}
    BY <1>1 DEF TypeInv, TypeOK
  <2>2. pc' = "enter" => pc = "enter"
    BY <1>1
  <2> QED
    BY <1>1, <2>1, <2>2 DEF TypeInv, TypeOK, WaitInv
<1>2. CASE NextCall
  <2>1. PICK buffer : /\ buffer = session[decodes + 1] /\ decodes < Len(session)
                      /\ Decode(buffer)
    BY <1>2 DEF NextCall
  <2>2. /\ decodes' = decodes + 1 /\ bytes' = buffer /\ pc' = "enter"
        /\ call' = 1 /\ frames' = <<>>
        /\ schema' = schema /\ UNCHANGED <<heap, session>>
    BY <2>1 DEF Decode, FirstByte, SchemaAtEntry
  <2>3. decodes \in 0 .. Len(session) /\ session \in Seq(Seq(Byte))
    BY DEF TypeInv, TypeOK
  <2>4. decodes + 1 \in 1 .. Len(session)
    BY <2>1, <2>3
  <2>5. buffer \in Seq(Byte)
    BY <2>1, <2>3, <2>4, ElementOfSeq
  <2>6. call' \in Int
    BY <2>2, <2>5
  <2>7. frames' \in Seq(Activation) /\ Len(frames') = 0 /\ MaxDepth \in Nat
    BY <2>2, EmptySeq, DecoderAssumption
  <2> QED
    BY <2>2, <2>3, <2>4, <2>5, <2>6, <2>7 DEF TypeInv, TypeOK, WaitInv
<1>3. CASE StringThrows \/ EnterUndefined \/ FrameThrows \/ FrameUndefined
  <2>1. /\ UNCHANGED <<heap, schema, session, decodes, bytes, call, frames>>
        /\ pc' \in {"threw", "undefined"}
    BY <1>3 DEF StringThrows, EnterUndefined, FrameThrows, FrameUndefined, Stop
  <2> QED
    BY <1>1, <2>1
<1>4. CASE UNCHANGED vars
  BY <1>1, <1>4 DEF vars
<1> QED
  BY <1>2, <1>3, <1>4, EnterCompositeTyped, DecodeNumberTyped, DecodeStringTyped,
     DecodeUnknownTyped, ReadCountTyped, ReadFieldNameTyped, ReadSizeTyped,
     DecodeChildTyped, CompleteTyped DEF Next, Step

(* and so does the beginning.                                              *)
LEMMA TypeInvInit == Init => TypeInv
<1> SUFFICES ASSUME Init PROVE TypeInv
  OBVIOUS
<1>1. /\ heap = <<>> /\ schema = 0 /\ session \in Sessions /\ decodes = 0
      /\ bytes = <<>> /\ pc = "idle" /\ call = NoCall /\ frames = <<>>
  BY DEF Init, NULL
<1>2. session \in Seq(Seq(Byte)) /\ MaxDepth \in Nat
  BY <1>1, DecoderAssumption
<1>3. /\ heap \in Seq(Data) /\ bytes \in Seq(Byte) /\ frames \in Seq(Activation)
      /\ Len(heap) = 0 /\ Len(frames) = 0
  BY <1>1, EmptySeq
<1>4. call \in Int
  BY <1>1 DEF NoCall
<1>5. decodes \in 0 .. Len(session) /\ schema \in 0 .. Len(heap)
  <2>1. Len(session) \in Nat
    BY <1>2
  <2> QED
    BY <1>1, <1>3, <2>1
<1> QED
  BY <1>1, <1>2, <1>3, <1>4, <1>5 DEF TypeInv, TypeOK, WaitInv

(* Whatever bytes the calls are given, every variable stays in its type:   *)
(* what PartialDecode reads is a number even where the signed char makes it*)
(* negative (decoding.cc:32-43), and every fieldSize[i] it moves on by is  *)
(* one it has read (decoding.cc:45-49).                                    *)
THEOREM DecoderTyped == Spec => []TypeOK
<1>1. TypeInv => TypeOK
  BY DEF TypeInv
<1> QED
  BY <1>1, TypeInvInit, TypeInvNext, IInvHolds, PTL DEF Spec

-----------------------------------------------------------------------------
(* What a stream of any bytes builds is what the constructors and add()    *)
(* keep: a STRUCT has a name for every element, and only composites hold   *)
(* elements.  An activation reads names and elements up to its count.      *)
HeapBuilt(h) ==
  WellBuilt(h) /\ \A d \in DOMAIN h : h[d].type \notin CompositeTypes => h[d].kids = <<>>

Counted(fr) ==
  /\ fr.numofFields = NotRead => Len(fr.names) = 0 /\ Len(fr.kids) = 0
  /\ fr.numofFields # NotRead =>
       Len(fr.names) <= fr.numofFields /\ Len(fr.kids) <= fr.numofFields

Waits(fr) == fr.numofFields # NotRead /\ Len(fr.kids) < fr.numofFields

BuildInv ==
  /\ HeapBuilt(heap)
  /\ \A f \in 1 .. Len(frames) :
       Counted(frames[f]) /\ (f > 1 \/ pc = "enter" => Waits(frames[f]))

(* One more object, with names for its elements if it is a STRUCT.         *)
Buildable(d) ==
  /\ d.type = "STRUCT" => Len(d.names) = Len(d.kids)
  /\ d.type = "STRING" => d.value \in Seq(Byte)
  /\ d.type \notin CompositeTypes => d.kids = <<>>

(* A heap stays so with one more such object.                              *)
LEMMA BuiltAppend ==
  ASSUME NEW h, HeapBuilt(h), NEW x \in Data, Buildable(x), x.kids \in Seq(1 .. Len(h))
  PROVE  HeapBuilt(Append(h, x))
<1> DEFINE g == Append(h, x)
<1>1. h \in Seq(Data) /\ Len(h) \in Nat /\ DOMAIN h = 1 .. Len(h)
  BY DEF HeapBuilt, WellBuilt
<1>2. /\ g \in Seq(Data) /\ Len(g) = Len(h) + 1 /\ DOMAIN g = 1 .. Len(g)
      /\ \A d \in 1 .. Len(h) : g[d] = h[d]
      /\ g[Len(h) + 1] = x
  BY <1>1, AppendProperties
<1> HIDE DEF g
<1>3. DOMAIN h \subseteq DOMAIN g /\ 1 .. Len(h) \subseteq DOMAIN g
  BY <1>1, <1>2
<1>4. ASSUME NEW d \in DOMAIN g
      PROVE  /\ g[d].kids \in Seq(DOMAIN g)
             /\ g[d].type = "STRUCT" => Len(g[d].names) = Len(g[d].kids)
             /\ g[d].type = "STRING" => g[d].value \in Seq(Byte)
             /\ g[d].type \notin CompositeTypes => g[d].kids = <<>>
  <2>1. CASE d \in DOMAIN h
    <3>1. g[d] = h[d] /\ h[d].kids \in Seq(DOMAIN h)
      BY <1>1, <1>2, <2>1 DEF HeapBuilt, WellBuilt
    <3>2. h[d].kids \in Seq(DOMAIN g)
      BY <1>3, <3>1, SeqMonotonic
    <3> QED
      BY <2>1, <3>1, <3>2 DEF HeapBuilt, WellBuilt
  <2>2. CASE d \notin DOMAIN h
    <3>1. g[d] = x
      <4>1. d = Len(h) + 1
        BY <1>1, <1>2, <2>2
      <4> QED
        BY <1>2, <4>1
    <3>2. x.kids \in Seq(DOMAIN g)
      BY <1>3, SeqMonotonic
    <3> QED
      BY <3>1, <3>2 DEF Buildable
  <2> QED
    BY <2>1, <2>2
<1> QED
  BY <1>2, <1>4 DEF HeapBuilt, WellBuilt, g

(* What returns a pointer keeps it, if the activations below wait for one. *)
LEMMA HandBuilt ==
  ASSUME HeapBuilt(heap'), NEW ptr, NEW below \in Seq(Activation), Hand(ptr, below),
         \A f \in 1 .. Len(below) : Counted(below[f]) /\ Waits(below[f])
  PROVE  BuildInv'
<1>1. CASE below = <<>>
  <2>1. frames' = <<>> /\ Len(<<>>) = 0
    BY <1>1, EmptySeq DEF Hand
  <2> QED
    BY <2>1 DEF BuildInv
<1>2. CASE below # <<>>
  <2> DEFINE fr == WithElement(below[1], ptr)
  <2>1. frames' = [below EXCEPT ![1] = fr] /\ pc' = "frame"
    BY <1>2 DEF Hand
  <2>2. 1 \in 1 .. Len(below) /\ below[1] \in Activation
    <3>1. 1 \in 1 .. Len(below)
      BY <1>2
    <3> QED
      BY <3>1, ElementOfSeq
  <2>3. Counted(fr)
    <3> DEFINE kids == Append(below[1].kids, ptr)
               at   == BehindElement(below[1], below[1].sizes[Len(below[1].kids) + 1])
    <3>1. fr = [below[1] EXCEPT !.kids = kids, !.at = at]
      BY Zenon DEF WithElement
    <3>2. Len(kids) = Len(below[1].kids) + 1 /\ Len(below[1].kids) \in Nat
      <4>1. below[1].kids \in Seq(Nat)
        BY <2>2 DEF Activation
      <4> QED
        BY <4>1, AppendFacts, LenProperties DEF IsSeq
    <3> HIDE DEF kids, at, fr
    <3>3. /\ fr.kids = kids /\ fr.numofFields = below[1].numofFields
          /\ fr.names = below[1].names /\ below[1].numofFields \in Int
      BY <2>2, <3>1 DEF Activation
    <3>4. Counted(below[1]) /\ Waits(below[1])
      BY <2>2
    <3> QED
      BY <3>2, <3>3, <3>4 DEF Counted, Waits
  <2> HIDE DEF fr
  <2>4. /\ Len(frames') = Len(below)
        /\ \A f \in 1 .. Len(below) : frames'[f] = IF f = 1 THEN fr ELSE below[f]
    BY <1>2, <2>1, FirstReplaced DEF IsSeq
  <2>5. ASSUME NEW f \in 1 .. Len(frames')
        PROVE  Counted(frames'[f]) /\ (f > 1 \/ pc' = "enter" => Waits(frames'[f]))
    <3>1. CASE f = 1
      BY <2>1, <2>2, <2>3, <2>4, <3>1
    <3>2. CASE f # 1
      BY <2>4, <3>2
    <3> QED
      BY <3>1, <3>2
  <2> QED
    BY <2>5 DEF BuildInv
<1> QED
  BY <1>1, <1>2

(* So does what returns one object.                                        *)
LEMMA DeliverBuilt ==
  ASSUME BuildInv, NEW d \in Data, Buildable(d), d.kids \in Seq(1 .. Len(heap)),
         NEW below \in Seq(Activation), Deliver(d, below),
         \A f \in 1 .. Len(below) : Counted(below[f]) /\ Waits(below[f])
  PROVE  BuildInv'
<1>1. heap' = Append(heap, d) /\ Hand(Len(heap) + 1, below)
  BY DEF Deliver, NewPtr
<1>2. HeapBuilt(heap')
  <2>1. HeapBuilt(heap)
    BY DEF BuildInv
  <2> QED
    BY <1>1, <2>1, BuiltAppend
<1> QED
  BY <1>1, <1>2, HandBuilt

(* So does an activation that reads on and has not read too much,          *)
LEMMA AdvanceBuilt ==
  ASSUME TypeInv, IInv, BuildInv, pc = "frame", NEW fr, Counted(fr), Advance(fr)
  PROVE  BuildInv'
<1>1. frames' = [frames EXCEPT ![1] = fr] /\ UNCHANGED <<heap, pc>>
  BY DEF Advance
<1>2. IsSeq(frames) /\ frames # <<>>
  BY DEF IInv, FrameInv
<1>3. /\ Len(frames') = Len(frames)
      /\ \A f \in 1 .. Len(frames) : frames'[f] = IF f = 1 THEN fr ELSE frames[f]
  BY <1>1, <1>2, FirstReplaced
<1>4. ASSUME NEW f \in 1 .. Len(frames')
      PROVE  Counted(frames'[f]) /\ (f > 1 \/ pc' = "enter" => Waits(frames'[f]))
  <2>1. CASE f = 1
    BY <1>1, <1>3, <2>1
  <2>2. CASE f # 1
    BY <1>1, <1>3, <2>2 DEF BuildInv
  <2> QED
    BY <2>1, <2>2
<1> QED
  BY <1>1, <1>4 DEF BuildInv

(* ... what is known of the one that runs,                                 *)
LEMMA FrameCounted ==
  ASSUME TypeInv, IInv, BuildInv, pc = "frame"
  PROVE  /\ This \in Activation /\ Counted(This) /\ This.kids \in Seq(1 .. Len(heap))
         /\ Len(This.names) \in Nat /\ Len(This.kids) \in Nat /\ This.numofFields \in Int
<1>1. This \in Activation /\ 1 \in 1 .. Len(frames)
  BY FrameTyped
<1>2. Counted(This)
  BY <1>1 DEF BuildInv, This
<1>3. This.kids \in Seq(1 .. Len(heap))
  BY <1>1 DEF IInv, FrameInv, FrameOK, This
<1>4. Len(This.names) \in Nat /\ Len(This.kids) \in Nat /\ This.numofFields \in Int
  BY <1>1 DEF Activation
<1> QED
  BY <1>1, <1>2, <1>3, <1>4

(* ... which reads no more names than it counted.                          *)
LEMMA ReadsBuilt ==
  ASSUME TypeInv, IInv, BuildInv, ReadCount \/ ReadFieldName \/ ReadSize
  PROVE  BuildInv'
<1>0. pc = "frame"
  BY DEF ReadCount, ReadFieldName, ReadSize, WantsCount, WantsName, WantsSize, InFrame
<1>1. /\ This \in Activation /\ Counted(This)
      /\ Len(This.names) \in Nat /\ Len(This.kids) \in Nat /\ This.numofFields \in Int
  BY <1>0, FrameCounted
<1>2. CASE ReadCount
  <2> DEFINE n  == IntValue
             at == Behind
             fr == [This EXCEPT !.numofFields = n, !.at = at]
  <2>1. Advance(fr) /\ n >= 0 /\ VarintReadable(bytes, This.at) /\ This.numofFields = NotRead
    BY <1>2 DEF ReadCount, WantsCount
  <2>2. n \in Int
    BY <1>0, <2>1, FieldTyped
  <2> HIDE DEF n, at
  <2>3. fr.numofFields = n /\ fr.names = This.names /\ fr.kids = This.kids
    BY <1>1 DEF Activation
  <2> HIDE DEF fr
  <2>4. Counted(fr)
    BY <1>1, <2>1, <2>2, <2>3 DEF Counted, NotRead
  <2> QED
    BY <1>0, <2>1, <2>4, AdvanceBuilt
<1>3. CASE ReadFieldName
  <2> DEFINE name  == SubSeq(bytes, Behind, Behind + IntValue - 1)
             names == Append(This.names, name)
             at    == Behind + IntValue
             fr    == [This EXCEPT !.names = names, !.at = at]
  <2>1. Advance(fr) /\ This.numofFields # NotRead /\ Len(This.names) < This.numofFields
    BY <1>3 DEF ReadFieldName, WantsName
  <2>2. Len(names) = Len(This.names) + 1
    <3>1. IsSeq(This.names)
      BY <1>1 DEF Activation, IsSeq
    <3> HIDE DEF name
    <3> QED
      BY <3>1, AppendFacts
  <2> HIDE DEF names, at
  <2>3. fr.numofFields = This.numofFields /\ fr.names = names /\ fr.kids = This.kids
    BY <1>1 DEF Activation
  <2> HIDE DEF fr
  <2>4. Counted(fr)
    BY <1>1, <2>1, <2>2, <2>3 DEF Counted
  <2> QED
    BY <1>0, <2>1, <2>4, AdvanceBuilt
<1>4. CASE ReadSize
  <2> DEFINE sizes == Append(This.sizes, Value)
             at    == Behind
             fr    == [This EXCEPT !.sizes = sizes, !.at = at]
  <2>1. Advance(fr)
    BY <1>4 DEF ReadSize
  <2> HIDE DEF sizes, at
  <2>3. fr.numofFields = This.numofFields /\ fr.names = This.names /\ fr.kids = This.kids
    BY <1>1 DEF Activation
  <2> HIDE DEF fr
  <2>4. Counted(fr)
    BY <1>1, <2>3 DEF Counted
  <2> QED
    BY <1>0, <2>1, <2>4, AdvanceBuilt
<1> QED
  BY <1>2, <1>3, <1>4

(* A number, a string or nothing at all has no elements.                   *)
LEMMA LeavesBuilt ==
  ASSUME TypeInv, BuildInv, DecodeNumber \/ DecodeString \/ DecodeUnknown
  PROVE  BuildInv'
<1>1. /\ pc = "enter" /\ frames \in Seq(Activation)
      /\ \A f \in 1 .. Len(frames) : Counted(frames[f]) /\ Waits(frames[f])
  BY DEF DecodeNumber, DecodeString, DecodeUnknown, MeetsUnknown, Branch, BuildInv, TypeInv,
         TypeOK
<1>2. ASSUME NEW t \in PrimitiveTypes, NEW v \in Seq(Int), Deliver(Primitive(t, v), frames),
             t = "STRING" => v \in Seq(Byte)
      PROVE  BuildInv'
  <2>1. Primitive(t, v) \in Data
    BY <1>2, PrimitiveTyped DEF DataTypes
  <2>2. Buildable(Primitive(t, v)) /\ Primitive(t, v).kids \in Seq(1 .. Len(heap))
    BY <1>2, EmptySeq DEF Primitive, Buildable, PrimitiveTypes, NumberTypes, CompositeTypes
  <2> QED
    BY <1>1, <1>2, <2>1, <2>2, DeliverBuilt
<1>3. call + 1 \in Int
  BY DEF TypeInv, TypeOK
<1>4. CASE DecodeNumber
  <2>1. /\ Branch(NumberTypes) /\ VarintReadable(bytes, call + 1)
        /\ Deliver(Primitive(TaggedType, <<Length>>), frames)
    BY <1>4 DEF DecodeNumber, LengthIsRead
  <2>2. TaggedType \in NumberTypes
    <3>1. NumberTypes \subseteq DOMAIN TypeCode
      BY DEF NumberTypes, TypeCode
    <3> QED
      BY <2>1, <3>1, TagTyped
  <2>3. Length \in Int
    BY <1>3, <2>1, ReadTyped DEF TypeInv, Length
  <2>4. <<Length>> \in Seq(Int) /\ TaggedType \in PrimitiveTypes /\ TaggedType # "STRING"
    BY <2>2, <2>3 DEF PrimitiveTypes, NumberTypes
  <2> QED
    BY <1>2, <2>1, <2>4
<1>5. CASE DecodeString
  <2> DEFINE end   == AfterLength + Length - 1
             chars == SubSeq(bytes, AfterLength, end)
  <2>1. /\ VarintReadable(bytes, call + 1)
        /\ end <= Len(bytes) /\ Deliver(NewString(chars), frames)
    BY <1>5 DEF DecodeString, LengthIsRead
  <2>2. Length \in Int /\ AfterLength \in Int /\ AfterLength >= 1
    <3>1. /\ VariantDecoder(bytes, call + 1) \in Int
          /\ VarintEnd(bytes, call + 1) \in Nat /\ VarintEnd(bytes, call + 1) >= 1
      BY <1>3, <2>1, ReadTyped DEF TypeInv
    <3> QED
      BY <3>1 DEF Length, AfterLength
  <2>3. end \in Int
    BY <2>2
  <2> HIDE DEF end
  <2>4. chars \in Seq(Byte)
    BY <2>1, <2>2, <2>3, CharsTyped DEF TypeInv
  <2> HIDE DEF chars
  <2>5. Byte \subseteq Int
    BY RadixTyped DEF Byte
  <2>6. chars \in Seq(Int) /\ "STRING" \in PrimitiveTypes
    BY <2>4, <2>5, SeqMonotonic DEF PrimitiveTypes
  <2> QED
    BY <1>2, <2>1, <2>4, <2>6 DEF NewString
<1>6. CASE DecodeUnknown
  <2>1. CASE Deliver(Wild, frames)
    <3>1. Wild \in Data
      BY EmptySeq DEF Wild, Data, DataTypes
    <3>2. Buildable(Wild) /\ Wild.kids \in Seq(1 .. Len(heap))
      BY EmptySeq DEF Wild, Buildable, CompositeTypes
    <3> QED
      BY <1>1, <2>1, <3>1, <3>2, DeliverBuilt
  <2>2. CASE \E ptr \in DOMAIN heap : Hand(ptr, frames) /\ UNCHANGED heap
    <3>1. PICK ptr \in DOMAIN heap : Hand(ptr, frames) /\ UNCHANGED heap
      BY <2>2
    <3>2. HeapBuilt(heap')
      BY <3>1 DEF BuildInv
    <3> QED
      BY <1>1, <3>1, <3>2, HandBuilt
  <2> QED
    BY <1>6, <2>1, <2>2 DEF DecodeUnknown
<1> QED
  BY <1>4, <1>5, <1>6

(* An activation begins with nothing read;                                 *)
LEMMA EnterCompositeBuilt == TypeInv /\ BuildInv /\ EnterComposite => BuildInv'
<1> SUFFICES ASSUME TypeInv, BuildInv, EnterComposite PROVE BuildInv'
  OBVIOUS
<1> DEFINE num == IF TaggedType = "MAP" THEN 2 ELSE NotRead
           fr  == [type |-> TaggedType, charBytes |-> call, at |-> call + 1,
                   numofFields |-> num, names |-> <<>>, sizes |-> <<>>, kids |-> <<>>]
<1>1. frames' = <<fr>> \o frames /\ pc' = "frame" /\ UNCHANGED heap /\ pc = "enter"
  BY Zenon DEF EnterComposite, Branch
<1>2. num \in {2, NotRead}
  OBVIOUS
<1>3. Counted(fr)
  <2>1. fr.numofFields = num /\ fr.names = <<>> /\ fr.kids = <<>> /\ Len(<<>>) = 0
    BY EmptySeq
  <2> HIDE DEF fr, num
  <2> QED
    BY <1>2, <2>1 DEF Counted, NotRead
<1> HIDE DEF fr
<1>4. PICK S : frames \in Seq(S)
  BY DEF TypeInv, TypeOK
<1> DEFINE T == S \cup {fr}
<1>5. frames \in Seq(T) /\ <<fr>> \in Seq(T)
  BY <1>4, SeqMonotonic
<1> HIDE DEF T
<1>6. /\ Len(frames') = Len(frames) + 1 /\ Len(frames) \in Nat
      /\ \A f \in 1 .. Len(frames') : frames'[f] = IF f = 1 THEN fr ELSE frames[f-1]
  BY <1>1, <1>5
<1>7. ASSUME NEW f \in 1 .. Len(frames')
      PROVE  Counted(frames'[f]) /\ (f > 1 \/ pc' = "enter" => Waits(frames'[f]))
  <2>1. CASE f = 1
    BY <1>1, <1>3, <1>6, <2>1
  <2>2. CASE f # 1
    <3>1. f - 1 \in 1 .. Len(frames) /\ frames'[f] = frames[f-1]
      BY <1>6, <2>2
    <3> QED
      BY <1>1, <3>1 DEF BuildInv
  <2> QED
    BY <2>1, <2>2
<1> QED
  BY <1>1, <1>7 DEF BuildInv

(* it calls itself while elements are missing.                             *)
LEMMA DecodeChildBuilt == TypeInv /\ IInv /\ BuildInv /\ DecodeChild => BuildInv'
<1> SUFFICES ASSUME TypeInv, IInv, BuildInv, DecodeChild PROVE BuildInv'
  OBVIOUS
<1>1. /\ pc = "frame" /\ UNCHANGED <<heap, frames>>
      /\ This.numofFields # NotRead /\ Len(This.kids) < This.numofFields
  BY DEF DecodeChild, WantsChild, InFrame
<1>2. Waits(This)
  BY <1>1 DEF Waits
<1>3. \A f \in 1 .. Len(frames) : Waits(frames[f])
  BY <1>2 DEF BuildInv, This
<1> QED
  BY <1>1, <1>3 DEF BuildInv

(* What an activation returns when it wants nothing more.                  *)
LEMMA CompleteBuilt == TypeInv /\ IInv /\ BuildInv /\ Complete => BuildInv'
<1> SUFFICES ASSUME TypeInv, IInv, BuildInv, Complete PROVE BuildInv'
  OBVIOUS
<1> DEFINE d == [type |-> This.type, value |-> <<>>, kids |-> This.kids, names |-> This.names]
<1>1. pc = "frame" /\ WantsNothing /\ Deliver(d, Tail(frames))
  BY DEF Complete, HasAll, WantsNothing, InFrame
<1>2. /\ This \in Activation /\ Counted(This) /\ This.kids \in Seq(1 .. Len(heap))
      /\ Len(This.names) \in Nat /\ Len(This.kids) \in Nat /\ This.numofFields \in Int
  BY <1>1, FrameCounted
<1>3. /\ This.numofFields # NotRead /\ ~ (Len(This.kids) < This.numofFields)
      /\ This.type = "STRUCT" => ~ (Len(This.names) < This.numofFields)
  BY <1>1 DEF WantsNothing, WantsCount, WantsName, WantsSize, WantsChild, InFrame
<1>4. This.type = "STRUCT" => Len(This.names) = Len(This.kids)
  BY <1>2, <1>3 DEF Counted
<1>5. d \in Data
  <2>1. <<>> \in Seq(Int) /\ CompositeTypes \subseteq DataTypes
    BY EmptySeq DEF DataTypes
  <2> QED
    BY <1>2, <2>1 DEF Activation, Data
<1>6. Buildable(d) /\ d.kids \in Seq(1 .. Len(heap))
  <2>1. This.type \in CompositeTypes
    BY <1>2 DEF Activation
  <2> QED
    BY <1>2, <1>4, <2>1 DEF Buildable, CompositeTypes
<1> HIDE DEF d
<1>7. frames \in Seq(Activation) /\ frames # <<>> /\ Len(frames) \in Nat
  BY <1>1, FrameTyped DEF TypeInv, TypeOK
<1>8. /\ Tail(frames) \in Seq(Activation) /\ Len(Tail(frames)) = Len(frames) - 1
      /\ \A f \in 1 .. Len(Tail(frames)) : Tail(frames)[f] = frames[f+1]
  BY <1>7, HeadTailProperties
<1>9. ASSUME NEW f \in 1 .. Len(Tail(frames))
      PROVE  Counted(Tail(frames)[f]) /\ Waits(Tail(frames)[f])
  <2>1. f + 1 \in 1 .. Len(frames) /\ f + 1 > 1 /\ Tail(frames)[f] = frames[f+1]
    BY <1>7, <1>8
  <2> QED
    BY <2>1 DEF BuildInv
<1> QED
  BY <1>1, <1>5, <1>6, <1>8, <1>9, DeliverBuilt

(* Every step keeps it,                                                    *)
LEMMA BuildInvNext == TypeInv /\ IInv /\ BuildInv /\ [Next]_vars => BuildInv'
<1> SUFFICES ASSUME TypeInv, IInv, BuildInv, [Next]_vars PROVE BuildInv'
  OBVIOUS
<1>1. ASSUME UNCHANGED <<heap, frames>>, pc' = "enter" => pc = "enter" PROVE BuildInv'
  BY <1>1 DEF BuildInv
<1>2. CASE NextCall
  <2>1. UNCHANGED heap /\ frames' = <<>> /\ Len(<<>>) = 0
    BY <1>2, EmptySeq DEF NextCall, Decode
  <2> QED
    BY <2>1 DEF BuildInv
<1>3. CASE StringThrows \/ EnterUndefined \/ FrameThrows \/ FrameUndefined
  <2>1. UNCHANGED <<heap, frames>> /\ pc' \in {"threw", "undefined"}
    BY <1>3 DEF StringThrows, EnterUndefined, FrameThrows, FrameUndefined, Stop
  <2> QED
    BY <1>1, <2>1
<1>4. CASE UNCHANGED vars
  BY <1>1, <1>4 DEF vars
<1> QED
  BY <1>2, <1>3, <1>4, EnterCompositeBuilt, LeavesBuilt, ReadsBuilt, DecodeChildBuilt,
     CompleteBuilt DEF Next, Step

(* it holds of the empty heap                                              *)
LEMMA BuildInvInit == Init => BuildInv
<1> SUFFICES ASSUME Init PROVE BuildInv
  OBVIOUS
<1>1. heap = <<>> /\ frames = <<>> /\ heap \in Seq(Data) /\ Len(heap) = 0 /\ Len(frames) = 0
  BY EmptySeq DEF Init
<1>2. DOMAIN heap = {}
  BY <1>1
<1> QED
  BY <1>1, <1>2 DEF BuildInv, HeapBuilt, WellBuilt

(* and so in every state, whatever the bytes are.                          *)
LEMMA BuildInvHolds == Spec => []BuildInv
BY BuildInvInit, BuildInvNext, TypeInvInit, TypeInvNext, IInvHolds, PTL DEF Spec

(* Whatever bytes decode() is given, what it makes has the shape the       *)
(* constructors and add() keep: every STRUCT has a name for each element,  *)
(* every STRING holds characters, only composites hold elements, and none  *)
(* holds itself (decoding.cc:30-62).  It may hold nothing where encode()   *)
(* looks for a last element, and a pointer that was never set: that leads  *)
(* to an object made before, or to Wild.                                   *)
THEOREM DecodedIsWellBuilt == Spec => [](WellBuilt(heap) /\ Grounded(heap))
<1>1. BuildInv /\ IInv => WellBuilt(heap) /\ Grounded(heap)
  BY DEF BuildInv, HeapBuilt, IInv, HeapInv, Acyclic, Grounded
<1> QED
  BY <1>1, BuildInvHolds, IInvHolds, PTL

-----------------------------------------------------------------------------
(* A stack of activations by level: the first one that decode() starts is  *)
(* at level 1, the others above it.                                        *)
Level(fs, l) == fs[Len(fs) + 1 - l]

(* One more level, and one less.                                           *)
LEMMA LevelPush ==
  ASSUME NEW S, NEW fs \in Seq(S), NEW fr \in S
  PROVE  /\ <<fr>> \o fs \in Seq(S) /\ Len(<<fr>> \o fs) = Len(fs) + 1
         /\ Level(<<fr>> \o fs, Len(fs) + 1) = fr
         /\ \A l \in 1 .. Len(fs) : Level(<<fr>> \o fs, l) = Level(fs, l)
<1>1. PICK g : g = <<fr>> \o fs
  OBVIOUS
<1>2. /\ g \in Seq(S) /\ Len(g) = Len(fs) + 1 /\ Len(fs) \in Nat
      /\ \A f \in 1 .. Len(fs) + 1 : g[f] = IF f = 1 THEN fr ELSE fs[f-1]
  BY <1>1
<1>3. g[1] = fr /\ Len(fs) + 1 + 1 - (Len(fs) + 1) = 1
  BY <1>2
<1>4. Level(g, Len(fs) + 1) = fr
  BY <1>2, <1>3 DEF Level
<1>5. ASSUME NEW l \in 1 .. Len(fs) PROVE Level(g, l) = Level(fs, l)
  <2>0. Len(fs) + 1 + 1 - l \in Int
    BY <1>2
  <2>1. PICK f \in Int : f = Len(fs) + 1 + 1 - l
    BY <2>0
  <2>2. f \in 1 .. Len(fs) + 1 /\ f # 1 /\ f - 1 = Len(fs) + 1 - l
    BY <1>2, <2>1
  <2>3. g[f] = fs[f-1]
    BY <1>2, <2>2
  <2> QED
    BY <1>2, <2>1, <2>2, <2>3 DEF Level
<1> QED
  BY <1>1, <1>2, <1>4, <1>5

(* The levels below the top are those that remain without it.              *)
LEMMA LevelPop ==
  ASSUME NEW S, NEW fs \in Seq(S), fs # <<>>
  PROVE  /\ Tail(fs) \in Seq(S) /\ Len(Tail(fs)) = Len(fs) - 1
         /\ \A l \in 1 .. Len(fs) - 1 : Level(Tail(fs), l) = Level(fs, l)
<1>1. /\ Tail(fs) \in Seq(S) /\ Len(Tail(fs)) = Len(fs) - 1 /\ Len(fs) \in Nat
      /\ \A f \in 1 .. Len(Tail(fs)) : Tail(fs)[f] = fs[f+1]
  BY HeadTailProperties
<1>2. ASSUME NEW l \in 1 .. Len(fs) - 1 PROVE Level(Tail(fs), l) = Level(fs, l)
  <2>0. (Len(fs) - 1) + 1 - l \in Int
    BY <1>1
  <2>1. PICK f \in Int : f = (Len(fs) - 1) + 1 - l
    BY <2>0
  <2>2. f \in 1 .. Len(Tail(fs)) /\ f + 1 = Len(fs) + 1 - l
    BY <1>1, <2>1
  <2>3. Tail(fs)[f] = fs[f+1]
    BY <1>1, <2>2
  <2> QED
    BY <1>1, <2>1, <2>2, <2>3 DEF Level
<1> QED
  BY <1>1, <1>2

(* The top activation, and another in its place.                           *)
LEMMA LevelTop ==
  ASSUME NEW S, NEW fs \in Seq(S), fs # <<>>
  PROVE  Level(fs, Len(fs)) = fs[1]
<1>1. Len(fs) + 1 - Len(fs) = 1
  BY LenProperties
<1> QED
  BY <1>1 DEF Level

Replaced(g, fs, fr) == g = [fs EXCEPT ![1] = fr]

(* The levels below the top are those of the stack that has another top.   *)
LEMMA LevelReplaced ==
  ASSUME NEW S, NEW fs \in Seq(S), fs # <<>>, NEW fr \in S,
         NEW g, Replaced(g, fs, fr)
  PROVE  /\ g \in Seq(S) /\ Len(g) = Len(fs) /\ g # <<>> /\ Level(g, Len(fs)) = fr
         /\ \A l \in 1 .. Len(fs) - 1 : Level(g, l) = Level(fs, l)
<1>1. /\ g \in Seq(S) /\ Len(g) = Len(fs) /\ Len(fs) \in Nat /\ Len(fs) > 0 /\ g # <<>>
      /\ \A k \in 1 .. Len(fs) : g[k] = IF k = 1 THEN fr ELSE fs[k]
  BY DEF Replaced
<1>2. Len(fs) + 1 - Len(fs) = 1 /\ g[1] = fr
  BY <1>1
<1>3. Level(g, Len(fs)) = fr
  BY <1>1, <1>2 DEF Level
<1>4. ASSUME NEW l \in 1 .. Len(fs) - 1 PROVE Level(g, l) = Level(fs, l)
  <2>1. PICK f \in Int : f = Len(fs) + 1 - l
    BY <1>1
  <2>2. f \in 1 .. Len(fs) /\ f # 1
    BY <1>1, <2>1
  <2>3. g[f] = fs[f]
    BY <1>1, <2>2
  <2> QED
    BY <1>1, <2>1, <2>3 DEF Level
<1> QED
  BY <1>1, <1>3, <1>4

-----------------------------------------------------------------------------
(* What is known of the documents and their objects.                       *)
Rank(h) == CHOOSE rank \in RanksOf(h, MaxDepth) : TRUE

(* What the assumption on the documents says, with a rank for each object. *)
LEMMA DocFacts ==
  ASSUME NEW h \in CleanDocs
  PROVE  /\ WellBuilt(h) /\ Grounded(h) /\ 1 \in DOMAIN h /\ h \in Seq(Data)
         /\ Rank(h) \in [DOMAIN h -> 0 .. MaxDepth]
         /\ \A d \in DOMAIN h : h[d].type \in CompositeTypes =>
              Rank(h)[d] > 0 /\ \A k \in DOMAIN h[d].kids : Rank(h)[h[d].kids[k]] < Rank(h)[d]
<1>1. WellBuilt(h) /\ h # <<>> /\ RanksOf(h, MaxDepth) # {} /\ \A d \in DOMAIN h : Shaped(h[d])
  BY CleanDocsAssumption
<1>2. h \in Seq(Data) /\ 1 \in DOMAIN h /\ DOMAIN h \subseteq Nat
  BY <1>1 DEF WellBuilt
<1>3. Rank(h) \in RanksOf(h, MaxDepth)
  BY <1>1, Zenon DEF Rank
<1>4. /\ Rank(h) \in [DOMAIN h -> 0 .. MaxDepth]
      /\ \A d \in DOMAIN h : h[d].type \in CompositeTypes =>
           Rank(h)[d] > 0 /\ \A k \in DOMAIN h[d].kids : Rank(h)[h[d].kids[k]] < Rank(h)[d]
  BY <1>3 DEF RanksOf
<1>5. ASSUME NEW r \in DOMAIN h, Cyclic(h, r) PROVE FALSE
  <2>1. PICK C \in SUBSET DOMAIN h : r \in C /\ Endless(h, C)
    BY <1>5 DEF Cyclic
  <2> DEFINE E == {Rank(h)[d] : d \in C}
  <2>2. E \in SUBSET Nat /\ Rank(h)[r] \in E
    <3>1. \A d \in DOMAIN h : Rank(h)[d] \in Nat
      BY <1>4
    <3> QED
      BY <2>1, <3>1
  <2>3. PICK m \in E : \A e \in E : m <= e
    <3> HIDE DEF E
    <3> QED
      BY <2>2, LeastOf
  <2>4. PICK d \in C : m = Rank(h)[d]
    BY <2>3
  <2>5. h[d].type \in CompositeTypes /\ \E k \in DOMAIN h[d].kids : h[d].kids[k] \in C
    BY <2>1 DEF Endless
  <2>6. PICK k \in DOMAIN h[d].kids : h[d].kids[k] \in C
    BY <2>5
  <2>7. Rank(h)[h[d].kids[k]] < Rank(h)[d] /\ Rank(h)[h[d].kids[k]] \in E
    BY <1>4, <2>1, <2>5, <2>6
  <2>8. Rank(h)[h[d].kids[k]] \in Nat /\ Rank(h)[d] \in Nat
    BY <2>2, <2>3, <2>4, <2>7
  <2> QED
    BY <2>3, <2>4, <2>7, <2>8
<1>6. \A d \in DOMAIN h : h[d].type \notin CompositeTypes => h[d].kids = <<>>
  BY <1>1 DEF Shaped
<1> QED
  BY <1>1, <1>2, <1>4, <1>5, <1>6 DEF Grounded

(* What holds of an object below the root, and of the bytes of its         *)
(* elements.                                                               *)
LEMMA ObjectFacts ==
  ASSUME NEW h \in CleanDocs, NEW d \in Below(h, 1)
  PROVE  /\ d \in DOMAIN h /\ h[d] \in Data /\ CarriedObject(h, h[d])
         /\ Shaped(h[d]) /\ NumbersFit(h, d)
         /\ \A k \in 1 .. Len(h[d].kids) : h[d].kids[k] \in Below(h, 1)
         /\ KidBytes(h, d) \in Seq(Seq(Byte)) /\ Len(KidBytes(h, d)) = Len(h[d].kids)
         /\ \A k \in 1 .. Len(h[d].kids) :
              KidBytes(h, d)[k] = Wire(h, h[d].kids[k]) /\ KidBytes(h, d)[k] \in Seq(Byte)
         /\ Wire(h, d) = ObjectBytes(h[d], KidBytes(h, d)) /\ Wire(h, d) \in Seq(Byte)
         /\ Len(h[d].kids) \in Nat /\ DOMAIN h[d].kids = 1 .. Len(h[d].kids)
         /\ Len(h[d].names) \in Nat /\ DOMAIN h[d].names = 1 .. Len(h[d].names)
         /\ h[d].type = "STRUCT" => Len(h[d].names) = Len(h[d].kids)
<1>1. WellBuilt(h) /\ Grounded(h) /\ 1 \in DOMAIN h /\ h \in Seq(Data)
  BY DocFacts
<1>2. ClosedIn(h, Below(h, 1))
  BY <1>1, BelowClosed
<1>3. d \in DOMAIN h
  BY <1>2 DEF ClosedIn
<1>4. h[d] \in Data
  BY <1>1, <1>3
<1>5. Shaped(h[d]) /\ NumbersFit(h, d) /\ CarriedObject(h, h[d])
  BY <1>3, CleanDocsAssumption DEF Carried
<1>6. Len(h[d].kids) \in Nat /\ DOMAIN h[d].kids = 1 .. Len(h[d].kids)
  BY <1>1, <1>3, KidsTyped
<1>7. Len(h[d].names) \in Nat /\ DOMAIN h[d].names = 1 .. Len(h[d].names)
  BY <1>4 DEF Data
<1>8. h[d].type = "STRUCT" => Len(h[d].names) = Len(h[d].kids)
  BY <1>1, <1>3 DEF WellBuilt
<1>9. \A k \in 1 .. Len(h[d].kids) : h[d].kids[k] \in Below(h, 1)
  BY <1>2, <1>6 DEF ClosedIn
<1>10. Wire(h, d) \in Seq(Byte)
  BY <1>1, <1>3, WireOfKids
<1>11. /\ KidBytes(h, d) \in Seq(Seq(Byte)) /\ Len(KidBytes(h, d)) = Len(h[d].kids)
       /\ \A k \in 1 .. Len(h[d].kids) :
            KidBytes(h, d)[k] = Wire(h, h[d].kids[k]) /\ KidBytes(h, d)[k] \in Seq(Byte)
       /\ Wire(h, d) = ObjectBytes(h[d], KidBytes(h, d))
  BY <1>1, <1>3, KidBytesType
<1> QED
  BY <1>3, <1>4, <1>5, <1>6, <1>7, <1>8, <1>9, <1>10, <1>11

-----------------------------------------------------------------------------
(* What an int holds is read and computed with as it is.                   *)
Fits(v) == v <= IntMax

LEMMA FitsInt ==
  ASSUME NEW v \in Nat, Fits(v)
  PROVE  InRange(v) /\ ToInt(v) = v
<1>1. IntMax \in Nat /\ IntMax < Radix * Weight[MaxGroups - 1]
  BY IntAssumption
<1>2. Radix * Weight[MaxGroups - 1] \in Nat
  BY RadixTyped
<1>3. v >= 0 - IntMax - 1 /\ v <= IntMax
  BY <1>1 DEF Fits
<1> QED
  BY <1>1, <1>2, <1>3, ToIntKeeps DEF InRange

(* A STRUCT, MAP or ARRAY the format carries, c the bytes of its elements. *)
ReadableObject(x, c) ==
  /\ x \in Data /\ x.type \in CompositeTypes
  /\ c \in Seq(Seq(Byte)) /\ Len(c) = Len(x.kids)
  /\ Len(x.kids) > 0 /\ Fits(Len(x.kids)) /\ Fits(Len(ObjectBytes(x, c)))
  /\ x.type = "MAP" => Len(x.kids) = 2
  /\ x.type # "MAP" => SurvivesVarint(Len(x.kids))
  /\ x.type = "STRUCT" => Len(x.names) = Len(x.kids)
  /\ x.type # "STRUCT" => Len(x.names) = 0
  /\ \A k \in 1 .. Len(x.names) : Fits(Len(x.names[k])) /\ SurvivesVarint(Len(x.names[k]))
  /\ \A k \in 1 .. Len(c) :
       /\ Fits(Len(c[k])) /\ Len(c[k]) > 0
       /\ k < Len(c) => SurvivesVarint(Len(c[k]))

(* The types of such an object and of the bytes of its elements.           *)
LEMMA ReadableTyped ==
  ASSUME NEW x, NEW c, ReadableObject(x, c)
  PROVE  /\ Len(x.kids) \in Nat /\ Len(x.kids) > 0 /\ Len(x.names) \in Nat /\ Len(c) \in Nat
         /\ x \in Data /\ x.type \in CompositeTypes /\ x.type # "I8" /\ x.type \notin PrimitiveTypes
         /\ c \in Seq(Seq(Byte)) /\ Len(c) = Len(x.kids)
         /\ \A k \in 1 .. Len(x.names) : x.names[k] \in Seq(Byte) /\ Len(x.names[k]) \in Nat
         /\ \A k \in 1 .. Len(c) : c[k] \in Seq(Byte) /\ Len(c[k]) \in Nat
<1>1. /\ x \in Data /\ c \in Seq(Seq(Byte)) /\ Len(c) = Len(x.kids) /\ Len(x.kids) > 0
      /\ x.type \in CompositeTypes
  BY DEF ReadableObject
<1>2. x.kids \in Seq(Nat) /\ x.names \in Seq(Seq(Byte))
  BY <1>1 DEF Data
<1>3. \A k \in 1 .. Len(x.names) : x.names[k] \in Seq(Byte)
  BY <1>2, ElementOfSeq
<1>4. \A k \in 1 .. Len(c) : c[k] \in Seq(Byte)
  BY <1>1, ElementOfSeq
<1>5. x.type # "I8" /\ x.type \notin PrimitiveTypes
  BY <1>1 DEF CompositeTypes, PrimitiveTypes, NumberTypes
<1>6. Len(x.kids) \in Nat /\ Len(x.names) \in Nat /\ Len(c) \in Nat
  BY <1>1, <1>2
<1> QED
  BY <1>1, <1>3, <1>4, <1>5, <1>6, LenProperties

(* How many bytes the first m items take.                                  *)
Pos(x, c, m) == Len(Joined(Items(x, c), m))

(* Where an item ends is where it begins and its length.                   *)
LEMMA PosNext ==
  ASSUME NEW x, NEW c, ReadableObject(x, c), NEW m \in 0 .. Len(Items(x, c)) - 1
  PROVE  /\ Items(x, c)[m + 1] \in Seq(Byte) /\ Len(Items(x, c)[m + 1]) \in Nat
         /\ Pos(x, c, m) \in Nat /\ Pos(x, c, m + 1) \in Nat
         /\ Pos(x, c, m + 1) = Pos(x, c, m) + Len(Items(x, c)[m + 1])
         /\ Pos(x, c, m + 1) <= Len(ObjectBytes(x, c))
         /\ \A b \in Seq(Byte) : \A s \in Int :
              Stands(b, s, ObjectBytes(x, c)) => Stands(b, s + Pos(x, c, m), Items(x, c)[m + 1])
<1>1. x \in Data /\ c \in Seq(Seq(Byte)) /\ x.type \in CompositeTypes
  BY ReadableTyped
<1>2. Items(x, c) \in Seq(Seq(Byte))
  BY <1>1, ItemsAre
<1>3. FlattenSeq(Items(x, c)) = ObjectBytes(x, c)
  BY <1>1, FlattenItems
<1> DEFINE p == Items(x, c)
<1> HIDE DEF p
<1>4. ASSUME NEW b \in Seq(Byte), NEW s \in Int, Stands(b, s, ObjectBytes(x, c))
      PROVE  /\ Joined(p, m) \in Seq(Byte) /\ Joined(p, m + 1) \in Seq(Byte)
             /\ p[m + 1] \in Seq(Byte)
             /\ Stands(b, s + Len(Joined(p, m)), p[m + 1])
             /\ Len(Joined(p, m + 1)) = Len(Joined(p, m)) + Len(p[m + 1])
             /\ Len(Joined(p, m + 1)) <= Len(FlattenSeq(p))
  <2>1. Stands(b, s, FlattenSeq(p)) /\ p \in Seq(Seq(Byte)) /\ m \in 0 .. Len(p) - 1
    BY <1>2, <1>3, <1>4 DEF p
  <2> QED
    BY <2>1, StandsJoined
<1>5. ObjectBytes(x, c) \in Seq(Byte) /\ Stands(ObjectBytes(x, c), 1, ObjectBytes(x, c))
  <2>1. ObjectBytes(x, c) \in Seq(Byte)
    BY <1>2, <1>3, FlattenType
  <2>2. Len(ObjectBytes(x, c)) \in Nat
    BY <2>1
  <2>3. PICK w : w = ObjectBytes(x, c)
    OBVIOUS
  <2>4. Stands(w, 1, w)
    <3>1. Len(w) \in Nat
      BY <2>2, <2>3
    <3> QED
      BY <3>1 DEF Stands
  <2> QED
    BY <2>1, <2>3, <2>4
<1>6. /\ Joined(p, m) \in Seq(Byte) /\ Joined(p, m + 1) \in Seq(Byte)
      /\ p[m + 1] \in Seq(Byte)
      /\ Len(Joined(p, m + 1)) = Len(Joined(p, m)) + Len(p[m + 1])
      /\ Len(Joined(p, m + 1)) <= Len(FlattenSeq(p))
  BY <1>4, <1>5
<1>7. Len(Joined(p, m)) \in Nat /\ Len(Joined(p, m + 1)) \in Nat /\ Len(p[m + 1]) \in Nat
  BY <1>6, LenProperties
<1> QED
  BY <1>3, <1>4, <1>6, <1>7 DEF Pos, p

(* The type is one byte, the items together are the object.                *)
LEMMA PosEnds ==
  ASSUME NEW x, NEW c, ReadableObject(x, c)
  PROVE  /\ Len(Items(x, c)) = 2 + Len(x.names) + Len(c) + Len(c)
         /\ Pos(x, c, 1) = 1
         /\ x.type = "MAP" => Pos(x, c, 2) = 1
         /\ Pos(x, c, Len(Items(x, c))) = Len(ObjectBytes(x, c))
<1>1. /\ x \in Data /\ c \in Seq(Seq(Byte)) /\ x.type \in CompositeTypes /\ x.type # "I8"
      /\ Len(x.names) \in Nat /\ Len(c) \in Nat
  BY ReadableTyped
<1>2. /\ Items(x, c) \in Seq(Seq(Byte))
      /\ Len(Items(x, c)) = 2 + Len(x.names) + Len(c) + Len(c)
      /\ Items(x, c)[1] = TypeEncoding(x) /\ Items(x, c)[2] = CountBytes(x)
  BY <1>1, ItemsAre
<1>3. FlattenSeq(Items(x, c)) = ObjectBytes(x, c)
  BY <1>1, FlattenItems
<1>4. Pos(x, c, 0) = 0
  BY JoinedNone DEF Pos
<1>5. 0 \in 0 .. Len(Items(x, c)) - 1 /\ 1 \in 0 .. Len(Items(x, c)) - 1
  BY <1>1, <1>2
<1>6. Pos(x, c, 0 + 1) = Pos(x, c, 0) + Len(TypeEncoding(x)) /\ Len(TypeEncoding(x)) = 1
  <2>1. Pos(x, c, 0 + 1) = Pos(x, c, 0) + Len(Items(x, c)[0 + 1])
    BY <1>5, PosNext
  <2>2. Items(x, c)[0 + 1] = TypeEncoding(x)
    BY <1>2
  <2>3. Len(TypeEncoding(x)) = 1
    BY <1>1, CompositeHasCode, TagByte
  <2> QED
    BY <2>1, <2>2, <2>3
<1>7. Pos(x, c, 1) = 1
  BY <1>4, <1>6
<1>8. ASSUME x.type = "MAP" PROVE Pos(x, c, 2) = 1
  <2>1. Pos(x, c, 1 + 1) = Pos(x, c, 1) + Len(Items(x, c)[1 + 1])
    BY <1>5, PosNext
  <2>2. Items(x, c)[1 + 1] = <<>>
    BY <1>2, <1>8 DEF CountBytes
  <2>3. Pos(x, c, 1 + 1) = 1 + 0
    BY <1>7, <2>1, <2>2
  <2> QED
    BY <2>3
<1>9. Pos(x, c, Len(Items(x, c))) = Len(ObjectBytes(x, c))
  <2>1. FlattenSeq(Items(x, c)) = Joined(Items(x, c), Len(Items(x, c)))
    BY <1>2, FlattenJoined
  <2> QED
    BY <1>3, <2>1 DEF Pos
<1> QED
  BY <1>2, <1>7, <1>8, <1>9

-----------------------------------------------------------------------------
ItemsRead(fr) ==
  IF fr.numofFields = NotRead THEN 1
  ELSE 2 + Len(fr.names) + Len(fr.sizes) + Len(fr.kids)

(* An activation that reads the object x, whose bytes stand at s and the   *)
(* bytes of whose elements are c: what it has read is what the document    *)
(* holds, in the order of the format, and it is where the next item is --  *)
(* but the size of the last element may be misread, and takes it astray    *)
(* when there is nothing more to read.                                     *)
ReadSoFar(hp, fr, x, c) ==
  /\ fr.type = x.type /\ fr.numofFields \in {NotRead, Len(x.kids)}
  /\ fr.numofFields = NotRead =>
       x.type # "MAP" /\ Len(fr.names) = 0 /\ Len(fr.sizes) = 0 /\ Len(fr.kids) = 0
  /\ Len(fr.names) <= Len(x.names)
  /\ \A k \in 1 .. Len(fr.names) : fr.names[k] = x.names[k]
  /\ Len(fr.sizes) <= Len(c)
  /\ \A k \in 1 .. Len(fr.sizes) :
       (k < Len(c) \/ SurvivesVarint(fr.sizes[k])) => fr.sizes[k] = Len(c[k])
  /\ Len(fr.kids) <= Len(c)
  /\ \A k \in 1 .. Len(fr.kids) : fr.kids[k] \in DOMAIN hp /\ Wire(hp, fr.kids[k]) = c[k]
  /\ Len(fr.sizes) > 0 => Len(fr.names) = Len(x.names)
  /\ Len(fr.kids) > 0 => Len(fr.sizes) = Len(c)

OnTrack(fr, c) == Len(fr.kids) < Len(c) \/ SurvivesVarint(fr.sizes[Len(c)])

FrameAt(hp, fr, x, c, s) ==
  /\ fr \in Activation /\ ReadableObject(x, c) /\ ReadSoFar(hp, fr, x, c)
  /\ fr.charBytes = s
  /\ OnTrack(fr, c) => fr.at = s + Pos(x, c, ItemsRead(fr))

(* The types of such an activation and its object.                         *)
LEMMA FrameAtTyped ==
  ASSUME NEW hp, NEW fr, NEW x, NEW c, NEW s, FrameAt(hp, fr, x, c, s)
  PROVE  /\ fr \in Activation /\ ReadableObject(x, c)
         /\ Len(fr.names) \in Nat /\ Len(fr.sizes) \in Nat /\ Len(fr.kids) \in Nat
         /\ fr.numofFields \in Int /\ fr.at \in Int /\ fr.charBytes \in Int
         /\ Len(x.kids) \in Nat /\ Len(x.kids) > 0 /\ Len(x.names) \in Nat /\ Len(c) = Len(x.kids)
         /\ \A k \in 1 .. Len(fr.sizes) : fr.sizes[k] \in Int
<1>1. fr \in Activation /\ ReadableObject(x, c)
  BY DEF FrameAt
<1>2. fr.names \in Seq(Seq(Byte)) /\ fr.sizes \in Seq(Int) /\ fr.kids \in Seq(Nat)
  BY <1>1 DEF Activation
<1>3. fr.numofFields \in Int /\ fr.at \in Int /\ fr.charBytes \in Int
  BY <1>1 DEF Activation
<1>4. \A k \in 1 .. Len(fr.sizes) : fr.sizes[k] \in Int
  BY <1>2, ElementOfSeq
<1>5. Len(x.kids) \in Nat /\ Len(x.kids) > 0 /\ Len(x.names) \in Nat /\ Len(c) = Len(x.kids)
  BY <1>1, ReadableTyped
<1> QED
  BY <1>1, <1>2, <1>3, <1>4, <1>5, LenProperties

-----------------------------------------------------------------------------
(* Entered, an activation has read the type.                               *)
LEMMA FrameEntered ==
  ASSUME NEW hp, NEW x, NEW c, ReadableObject(x, c), NEW s \in Int,
         NEW fr \in Activation, fr.type = x.type, fr.charBytes = s, fr.at = s + 1,
         fr.numofFields = IF x.type = "MAP" THEN 2 ELSE NotRead,
         fr.names = <<>>, fr.sizes = <<>>, fr.kids = <<>>
  PROVE  FrameAt(hp, fr, x, c, s)
<1>1. /\ Len(x.kids) \in Nat /\ Len(x.names) \in Nat /\ Len(c) = Len(x.kids)
      /\ x.type = "MAP" => Len(x.kids) = 2
  BY ReadableTyped DEF ReadableObject
<1>2. Len(fr.names) = 0 /\ Len(fr.sizes) = 0 /\ Len(fr.kids) = 0
  BY EmptySeq
<1>3. ReadSoFar(hp, fr, x, c)
  BY <1>1, <1>2 DEF ReadSoFar, NotRead
<1>4. fr.at = s + Pos(x, c, ItemsRead(fr))
  <2>1. ItemsRead(fr) = IF x.type = "MAP" THEN 2 ELSE 1
    BY <1>2 DEF ItemsRead, NotRead
  <2>2. Pos(x, c, ItemsRead(fr)) = 1
    BY <2>1, PosEnds
  <2> QED
    BY <2>2
<1> QED
  BY <1>3, <1>4 DEF FrameAt

(* The activation reads from b, where the bytes of the object stand at s.  *)
Reading(hp, fr, x, c, s, b) ==
  /\ s \in Int /\ FrameAt(hp, fr, x, c, s)
  /\ b \in Seq(Byte) /\ Stands(b, s, ObjectBytes(x, c))

(* It has read m items, and is to read one more.                           *)
ReadingItem(hp, fr, x, c, s, b, m) ==
  /\ Reading(hp, fr, x, c, s, b) /\ OnTrack(fr, c)
  /\ ItemsRead(fr) = m /\ m \in 0 .. Len(Items(x, c)) - 1

(* Where an activation is, the next item stands.                           *)
LEMMA ItemThere ==
  ASSUME NEW hp, NEW fr, NEW x, NEW c, NEW s, NEW b, NEW m,
         ReadingItem(hp, fr, x, c, s, b, m)
  PROVE  /\ Stands(b, fr.at, Items(x, c)[m + 1])
         /\ Items(x, c)[m + 1] \in Seq(Byte) /\ Len(Items(x, c)[m + 1]) \in Nat
         /\ fr.at \in Nat \ {0} /\ fr.at = s + Pos(x, c, m)
         /\ fr.at + Len(Items(x, c)[m + 1]) = s + Pos(x, c, m + 1)
         /\ Pos(x, c, m + 1) \in Nat
<1>1. ReadableObject(x, c) /\ fr.at = s + Pos(x, c, m) /\ s \in Int
  BY DEF ReadingItem, Reading, FrameAt
<1>2. PICK item : item = Items(x, c)[m + 1]
  OBVIOUS
<1>3. /\ item \in Seq(Byte) /\ Len(item) \in Nat
      /\ Pos(x, c, m) \in Nat /\ Pos(x, c, m + 1) \in Nat
      /\ Pos(x, c, m + 1) = Pos(x, c, m) + Len(item)
      /\ Stands(b, s + Pos(x, c, m), item)
  <2>1. b \in Seq(Byte) /\ s \in Int /\ Stands(b, s, ObjectBytes(x, c))
        /\ m \in 0 .. Len(Items(x, c)) - 1
    BY DEF ReadingItem, Reading
  <2> QED
    BY <1>1, <1>2, <2>1, PosNext
<1>4. s + Pos(x, c, m) > 0
  BY <1>3 DEF Stands
<1> QED
  BY <1>1, <1>2, <1>3, <1>4

CountWanted(fr) == fr.numofFields = NotRead
NameWanted(fr)  == ~ CountWanted(fr) /\ fr.type = "STRUCT" /\ Len(fr.names) < fr.numofFields
SizeWanted(fr)  == ~ CountWanted(fr) /\ ~ NameWanted(fr) /\ Len(fr.sizes) < fr.numofFields
KidWanted(fr)   == /\ ~ CountWanted(fr) /\ ~ NameWanted(fr) /\ ~ SizeWanted(fr)
                   /\ Len(fr.kids) < fr.numofFields
AllThere(fr)    == ~ CountWanted(fr) /\ ~ NameWanted(fr) /\ ~ SizeWanted(fr) /\ ~ KidWanted(fr)

(* What is known of an activation that has the count.                      *)
HasCount(fr, x, c) ==
  /\ fr.numofFields = Len(x.kids) /\ fr.type = x.type
  /\ ItemsRead(fr) = 2 + Len(fr.names) + Len(fr.sizes) + Len(fr.kids)
  /\ Len(Items(x, c)) = 2 + Len(x.names) + Len(x.kids) + Len(x.kids)
  /\ x.type = "STRUCT" => Len(x.names) = Len(x.kids)
  /\ x.type # "STRUCT" => Len(x.names) = 0

LEMMA Counting ==
  ASSUME NEW hp, NEW fr, NEW x, NEW c, NEW s, FrameAt(hp, fr, x, c, s), ~ CountWanted(fr)
  PROVE  HasCount(fr, x, c)
<1>1. ReadableObject(x, c) /\ Len(x.kids) \in Nat /\ Len(x.kids) > 0 /\ Len(c) = Len(x.kids)
  BY FrameAtTyped
<1>2. fr.numofFields = Len(x.kids) /\ fr.type = x.type
  BY DEF FrameAt, ReadSoFar, CountWanted
<1>3. Len(Items(x, c)) = 2 + Len(x.names) + Len(c) + Len(c)
  BY <1>1, PosEnds
<1>4. /\ x.type = "STRUCT" => Len(x.names) = Len(x.kids)
      /\ x.type # "STRUCT" => Len(x.names) = 0
  BY <1>1 DEF ReadableObject
<1> QED
  BY <1>1, <1>2, <1>3, <1>4 DEF HasCount, ItemsRead, CountWanted

(* What an activation wants is the next item: the number of those read     *)
(* follows from it.                                                        *)
WantsNext(fr, x, c) ==
  /\ CountWanted(fr) => /\ ItemsRead(fr) = 1 /\ x.type # "MAP" /\ OnTrack(fr, c)
                        /\ Len(fr.names) = 0 /\ Len(fr.sizes) = 0 /\ Len(fr.kids) = 0
  /\ NameWanted(fr) => /\ ItemsRead(fr) = 2 + Len(fr.names) /\ OnTrack(fr, c)
                       /\ Len(fr.names) < Len(x.names)
                       /\ Len(fr.sizes) = 0 /\ Len(fr.kids) = 0
  /\ SizeWanted(fr) => /\ ItemsRead(fr) = 2 + Len(x.names) + Len(fr.sizes)
                       /\ OnTrack(fr, c) /\ Len(fr.names) = Len(x.names)
                       /\ Len(fr.sizes) < Len(c) /\ Len(fr.kids) = 0
  /\ KidWanted(fr) => /\ ItemsRead(fr) = 2 + Len(x.names) + Len(c) + Len(fr.kids)
                      /\ OnTrack(fr, c) /\ Len(fr.names) = Len(x.names)
                      /\ Len(fr.sizes) = Len(c) /\ Len(fr.kids) < Len(c)
  /\ AllThere(fr) => /\ ItemsRead(fr) = Len(Items(x, c)) /\ Len(fr.names) = Len(x.names)
                     /\ Len(fr.sizes) = Len(c) /\ Len(fr.kids) = Len(c)

LEMMA NextItem ==
  ASSUME NEW hp, NEW fr, NEW x, NEW c, NEW s, FrameAt(hp, fr, x, c, s)
  PROVE  WantsNext(fr, x, c)
<1>1. /\ Len(fr.names) \in Nat /\ Len(fr.sizes) \in Nat /\ Len(fr.kids) \in Nat
      /\ Len(x.kids) \in Nat /\ Len(x.kids) > 0 /\ Len(x.names) \in Nat /\ Len(c) = Len(x.kids)
  BY FrameAtTyped
<1>2. /\ Len(fr.names) <= Len(x.names) /\ Len(fr.sizes) <= Len(c) /\ Len(fr.kids) <= Len(c)
      /\ Len(fr.sizes) > 0 => Len(fr.names) = Len(x.names)
      /\ Len(fr.kids) > 0 => Len(fr.sizes) = Len(c)
  BY DEF FrameAt, ReadSoFar
<1>3. CASE CountWanted(fr)
  <2>1. /\ x.type # "MAP" /\ ItemsRead(fr) = 1
        /\ Len(fr.names) = 0 /\ Len(fr.sizes) = 0 /\ Len(fr.kids) = 0
    BY <1>3 DEF FrameAt, ReadSoFar, CountWanted, ItemsRead
  <2>2. OnTrack(fr, c)
    BY <1>1, <2>1 DEF OnTrack
  <2> QED
    BY <1>3, <2>1, <2>2 DEF WantsNext, NameWanted, SizeWanted, KidWanted, AllThere
<1>4. CASE ~ CountWanted(fr)
  <2>1. PICK t, I, N, a, u, k, M, n :
          /\ t = (x.type = "STRUCT") /\ I = ItemsRead(fr) /\ M = Len(Items(x, c))
          /\ N = Len(x.names) /\ n = Len(x.kids)
          /\ a = Len(fr.names) /\ u = Len(fr.sizes) /\ k = Len(fr.kids)
    OBVIOUS
  <2>2. /\ I = 2 + a + u + k /\ M = 2 + N + n + n /\ (t => N = n) /\ (~ t => N = 0)
        /\ fr.numofFields = n /\ fr.type = x.type
    <3>1. /\ fr.numofFields = Len(x.kids) /\ fr.type = x.type
          /\ ItemsRead(fr) = 2 + Len(fr.names) + Len(fr.sizes) + Len(fr.kids)
          /\ Len(Items(x, c)) = 2 + Len(x.names) + Len(x.kids) + Len(x.kids)
          /\ x.type = "STRUCT" => Len(x.names) = Len(x.kids)
          /\ x.type # "STRUCT" => Len(x.names) = 0
      <4>1. HasCount(fr, x, c)
        BY <1>4, Counting
      <4> QED
        BY <4>1 DEF HasCount
    <3> QED
      BY <2>1, <3>1
  <2>3. /\ a \in Nat /\ u \in Nat /\ k \in Nat /\ N \in Nat /\ n \in Nat /\ n > 0
        /\ a <= N /\ u <= n /\ k <= n /\ (u > 0 => a = N) /\ (k > 0 => u = n)
        /\ Len(c) = n
    BY <1>1, <1>2, <2>1
  <2>4. /\ NameWanted(fr) <=> t /\ a < n
        /\ SizeWanted(fr) <=> ~ (t /\ a < n) /\ u < n
        /\ KidWanted(fr) <=> ~ (t /\ a < n) /\ ~ (u < n) /\ k < n
        /\ AllThere(fr) <=> ~ (t /\ a < n) /\ ~ (u < n) /\ ~ (k < n)
    BY <1>4, <2>1, <2>2 DEF NameWanted, SizeWanted, KidWanted, AllThere
  <2>5. OnTrack(fr, c) <=> k < n \/ SurvivesVarint(fr.sizes[Len(c)])
    BY <2>1, <2>3 DEF OnTrack
  <2>6. /\ t /\ a < n => I = 2 + a /\ a < N /\ u = 0 /\ k = 0 /\ k < n
        /\ ~ (t /\ a < n) => a = N
        /\ ~ (t /\ a < n) /\ u < n => I = 2 + N + u /\ k = 0 /\ k < n
        /\ ~ (t /\ a < n) /\ ~ (u < n) => u = n /\ I = 2 + N + n + k
        /\ ~ (t /\ a < n) /\ ~ (u < n) /\ ~ (k < n) => k = n /\ I = M
    BY <2>2, <2>3
  <2> QED
    BY <1>4, <2>1, <2>3, <2>4, <2>5, <2>6 DEF WantsNext
<1> QED
  BY <1>3, <1>4

(* ... each by itself, for what is read and taken below.                   *)
LEMMA NextIsSize ==
  ASSUME NEW hp, NEW fr, NEW x, NEW c, NEW s, FrameAt(hp, fr, x, c, s), SizeWanted(fr)
  PROVE  /\ ItemsRead(fr) = 2 + Len(x.names) + Len(fr.sizes)
         /\ OnTrack(fr, c) /\ Len(fr.names) = Len(x.names)
         /\ Len(fr.sizes) < Len(c) /\ Len(fr.kids) = 0
BY NextItem DEF WantsNext

(* After the sizes the elements,                                           *)
LEMMA NextIsKid ==
  ASSUME NEW hp, NEW fr, NEW x, NEW c, NEW s, FrameAt(hp, fr, x, c, s), KidWanted(fr)
  PROVE  /\ ItemsRead(fr) = 2 + Len(x.names) + Len(c) + Len(fr.kids)
         /\ OnTrack(fr, c) /\ Len(fr.names) = Len(x.names)
         /\ Len(fr.sizes) = Len(c) /\ Len(fr.kids) < Len(c)
BY NextItem DEF WantsNext

(* and then there is nothing more to read.                                 *)
LEMMA NextIsNothing ==
  ASSUME NEW hp, NEW fr, NEW x, NEW c, NEW s, FrameAt(hp, fr, x, c, s), AllThere(fr)
  PROVE  /\ ItemsRead(fr) = Len(Items(x, c)) /\ Len(fr.names) = Len(x.names)
         /\ Len(fr.sizes) = Len(c) /\ Len(fr.kids) = Len(c)
<1>1. WantsNext(fr, x, c)
  BY NextItem
<1> QED
  BY <1>1 DEF WantsNext

(* An activation that has moved on.                                        *)
MovedOn(g, fr, num, names, sizes, kids, at) ==
  /\ g \in Activation /\ g.type = fr.type /\ g.charBytes = fr.charBytes
  /\ g.numofFields = num /\ g.names = names /\ g.sizes = sizes /\ g.kids = kids
  /\ g.at = at

(* Where the items of each kind begin and end.                             *)
LEMMA ItemRanges ==
  ASSUME NEW x, NEW c, ReadableObject(x, c)
  PROVE  /\ 1 \in 0 .. Len(Items(x, c)) - 1
         /\ \A k \in Nat : k < Len(x.names) => 2 + k \in 0 .. Len(Items(x, c)) - 1
         /\ \A k \in Nat : k < Len(c) =>
              /\ 2 + Len(x.names) + k \in 0 .. Len(Items(x, c)) - 1
              /\ 2 + Len(x.names) + Len(c) + k \in 0 .. Len(Items(x, c)) - 1
<1>1. PICK N, n, M : N = Len(x.names) /\ n = Len(c) /\ M = Len(Items(x, c))
  OBVIOUS
<1>2. N \in Nat /\ n \in Nat /\ M = 2 + N + n + n
  BY <1>1, PosEnds, ReadableTyped
<1>3. /\ 1 \in 0 .. M - 1
      /\ \A k \in Nat : k < N => 2 + k \in 0 .. M - 1
      /\ \A k \in Nat : k < n => 2 + N + k \in 0 .. M - 1 /\ 2 + N + n + k \in 0 .. M - 1
  BY <1>2
<1> QED
  BY <1>1, <1>3

(* A number, and what is written behind it as one item, are read where they*)
(* stand.                                                                  *)
LEMMA NumberThere ==
  ASSUME NEW b \in Seq(Byte), NEW at \in Nat \ {0},
         NEW v \in Nat, v > 0, InRange(v), NEW rest \in Seq(Byte),
         Stands(b, at, VarientEncoding(v) \o rest)
  PROVE  /\ VarintReadable(b, at) /\ VariantDecoder(b, at) \in Int
         /\ SurvivesVarint(v) \/ SurvivesVarint(VariantDecoder(b, at))
              => VariantDecoder(b, at) = v
         /\ VarintEnd(b, at) + 1 \in Nat /\ VarintEnd(b, at) + 1 > 0
         /\ Stands(b, VarintEnd(b, at) + 1, rest)
         /\ VarintEnd(b, at) + 1 + Len(rest) = at + Len(VarientEncoding(v) \o rest)
<1>1. PICK e : e = VarientEncoding(v)
  OBVIOUS
<1>2. e \in Seq(Byte)
  BY <1>1, VarientEncodingType
<1>3. Stands(b, at, e) /\ Stands(b, at + Len(e), rest)
  <2>1. Stands(b, at, e \o rest) /\ at \in Int
    BY <1>1
  <2> QED
    BY <1>2, <2>1, StandsParts
<1>4. /\ VarintReadable(b, at) /\ VarintEnd(b, at) + 1 = at + Len(e)
      /\ VariantDecoder(b, at) \in Int
      /\ SurvivesVarint(v) \/ SurvivesVarint(VariantDecoder(b, at))
           => VariantDecoder(b, at) = v
  <2>1. v < Radix * Weight[MaxGroups - 1]
    BY DEF InRange
  <2>2. Stands(b, at, VarientEncoding(v))
    BY <1>1, <1>3
  <2> QED
    BY <1>1, <2>1, <2>2, ReadBack
<1>5. Len(e) \in Nat /\ Len(rest) \in Nat /\ Len(e \o rest) = Len(e) + Len(rest)
  BY <1>2, ConcatProperties
<1>6. PICK end, le, lr, l : /\ end = VarintEnd(b, at) + 1 /\ le = Len(e) /\ lr = Len(rest)
                            /\ l = Len(e \o rest)
  OBVIOUS
<1>7. end = at + le /\ le \in Nat /\ lr \in Nat /\ l = le + lr
  BY <1>4, <1>5, <1>6
<1>8. end \in Nat /\ end > 0 /\ end + lr = at + l
  BY <1>7
<1>9. Stands(b, end, rest)
  BY <1>3, <1>6, <1>7
<1> QED
  BY <1>1, <1>4, <1>6, <1>8, <1>9

(* The last item has nothing behind it.                                    *)
LEMMA NothingBehind ==
  ASSUME NEW e \in Seq(Byte)
  PROVE  <<>> \in Seq(Byte) /\ Len(<<>>) = 0 /\ e \o <<>> = e
OBVIOUS

(* The count of the elements is read where it stands,                      *)
LEMMA CountThere ==
  ASSUME NEW hp, NEW fr, NEW x, NEW c, NEW s, NEW b, Reading(hp, fr, x, c, s, b),
         CountWanted(fr)
  PROVE  /\ VarintReadable(b, fr.at) /\ VariantDecoder(b, fr.at) = Len(x.kids)
         /\ Len(x.kids) \in Nat /\ ToInt(Len(x.kids)) = Len(x.kids)
         /\ VarintEnd(b, fr.at) + 1 = s + Pos(x, c, 2) /\ s + Pos(x, c, 2) \in Int
<1>1. FrameAt(hp, fr, x, c, s)
  BY DEF Reading
<1>2. /\ ReadableObject(x, c) /\ Len(x.kids) \in Nat /\ Len(x.kids) > 0
      /\ Len(x.names) \in Nat /\ Len(c) = Len(x.kids)
  BY <1>1, FrameAtTyped
<1>3. x.type # "MAP" /\ ItemsRead(fr) = 1 /\ OnTrack(fr, c)
  BY <1>1, NextItem DEF WantsNext
<1>4. /\ SurvivesVarint(Len(x.kids)) /\ InRange(Len(x.kids))
      /\ ToInt(Len(x.kids)) = Len(x.kids)
  BY <1>2, <1>3, FitsInt DEF ReadableObject
<1>5. 1 \in 0 .. Len(Items(x, c)) - 1
  BY <1>2, ItemRanges
<1> DEFINE e == VarientEncoding(Len(x.kids))
<1>6. e \in Seq(Byte)
  BY <1>2, VarientEncodingType
<1>7. Items(x, c)[1 + 1] = e \o <<>>
  <2>1. Items(x, c)[2] = CountBytes(x)
    BY <1>2, ItemsAre, ReadableTyped
  <2>2. Items(x, c)[1 + 1] = e
    BY <1>3, <2>1 DEF CountBytes
  <2> HIDE DEF e
  <2> QED
    BY <1>6, <2>2, NothingBehind
<1>8. /\ Stands(b, fr.at, Items(x, c)[1 + 1]) /\ fr.at \in Nat \ {0}
      /\ fr.at + Len(Items(x, c)[1 + 1]) = s + Pos(x, c, 1 + 1) /\ Pos(x, c, 1 + 1) \in Nat
  <2>1. ReadingItem(hp, fr, x, c, s, b, 1)
    BY <1>3, <1>5 DEF ReadingItem
  <2> QED
    BY <2>1, ItemThere
<1>9. b \in Seq(Byte) /\ s \in Int
  BY DEF Reading
<1>10. PICK rest \in Seq(Byte) : rest = <<>>
  BY <1>6, NothingBehind
<1>11. /\ VarintReadable(b, fr.at) /\ VariantDecoder(b, fr.at) = Len(x.kids)
       /\ VarintEnd(b, fr.at) + 1 \in Nat
       /\ VarintEnd(b, fr.at) + 1 + Len(<<>>) = fr.at + Len(e \o <<>>)
  <2>1. PICK v : v = Len(x.kids)
    OBVIOUS
  <2>2. v \in Nat /\ v > 0 /\ SurvivesVarint(v) /\ InRange(v)
    BY <1>2, <1>4, <2>1
  <2>3. Stands(b, fr.at, VarientEncoding(v) \o rest)
    BY <1>7, <1>8, <1>10, <2>1
  <2>4. /\ VarintReadable(b, fr.at)
        /\ SurvivesVarint(v) => VariantDecoder(b, fr.at) = v
        /\ VarintEnd(b, fr.at) + 1 \in Nat
        /\ VarintEnd(b, fr.at) + 1 + Len(rest) = fr.at + Len(VarientEncoding(v) \o rest)
    BY <1>8, <1>9, <2>2, <2>3, NumberThere, SMTT(30)
  <2> QED
    BY <1>10, <2>1, <2>2, <2>4
<1>12. PICK end, p, l : end = VarintEnd(b, fr.at) + 1 /\ p = s + Pos(x, c, 2) /\ l = Len(<<>>)
  OBVIOUS
<1>13. end \in Nat /\ end + l = p /\ l = 0 /\ p \in Int
  <2>1. 1 + 1 = 2
    OBVIOUS
  <2>2. fr.at + Len(e \o <<>>) = p
    BY <1>7, <1>8, <1>12, <2>1
  <2>3. p \in Int
    BY <1>8, <1>9, <1>12, <2>1
  <2> QED
    BY <1>6, <1>11, <1>12, <2>2, <2>3, NothingBehind
<1> QED
  BY <1>2, <1>4, <1>11, <1>12, <1>13

(* and taken.                                                              *)
LEMMA CountTaken ==
  ASSUME NEW hp, NEW fr, NEW x, NEW c, NEW s, FrameAt(hp, fr, x, c, s), CountWanted(fr),
         NEW g, MovedOn(g, fr, Len(x.kids), fr.names, fr.sizes, fr.kids, s + Pos(x, c, 2))
  PROVE  FrameAt(hp, g, x, c, s)
<1>1. /\ ReadableObject(x, c) /\ ReadSoFar(hp, fr, x, c) /\ Len(x.kids) \in Nat
      /\ Len(fr.names) = 0 /\ Len(fr.sizes) = 0 /\ Len(fr.kids) = 0
  <2>1. Len(fr.names) = 0 /\ Len(fr.sizes) = 0 /\ Len(fr.kids) = 0
    BY NextItem DEF WantsNext
  <2>2. Len(x.kids) \in Nat
    BY FrameAtTyped, Zenon
  <2> QED
    BY <2>1, <2>2 DEF FrameAt
<1>2. /\ g \in Activation /\ g.type = fr.type /\ g.numofFields = Len(x.kids)
      /\ g.charBytes = s /\ g.names = fr.names /\ g.sizes = fr.sizes /\ g.kids = fr.kids
      /\ g.at = s + Pos(x, c, 2)
  BY DEF MovedOn, FrameAt
<1>3. ReadSoFar(hp, g, x, c)
  BY <1>1, <1>2 DEF ReadSoFar, NotRead
<1>4. ItemsRead(g) = 2
  <2>1. PICK a, u, k, n : /\ a = Len(g.names) /\ u = Len(g.sizes) /\ k = Len(g.kids)
                          /\ n = g.numofFields
    OBVIOUS
  <2>2. a = 0 /\ u = 0 /\ k = 0 /\ n \in Nat
    BY <1>1, <1>2, <2>1
  <2>3. ItemsRead(g) = IF n = -1 THEN 1 ELSE 2 + a + u + k
    BY <2>1 DEF ItemsRead, NotRead
  <2> QED
    BY <2>2, <2>3
<1> QED
  BY <1>1, <1>2, <1>3, <1>4 DEF FrameAt

(* A text, its length before it, is read where it stands.                  *)
LEMMA TextThere ==
  ASSUME NEW b \in Seq(Byte), NEW at \in Nat \ {0}, NEW text \in Seq(Byte),
         SurvivesVarint(Len(text)), InRange(Len(text)),
         Stands(b, at, VarientEncoding(Len(text)) \o text)
  PROVE  LET value  == VariantDecoder(b, at)
             behind == VarintEnd(b, at) + 1
         IN  /\ VarintReadable(b, at) /\ value \in Nat /\ value > 0 /\ behind \in Nat
             /\ value = Len(text) /\ behind + value - 1 <= Len(b)
             /\ SubSeq(b, behind, behind + value - 1) = text
             /\ behind + value = at + Len(VarientEncoding(Len(text)) \o text)
<1>1. PICK v : v = Len(text)
  OBVIOUS
<1>2. v \in Nat /\ SurvivesVarint(v) /\ InRange(v)
  BY <1>1
<1>3. v > 0
  BY <1>2 DEF SurvivesVarint
<1>4. PICK value, behind, p : /\ value = VariantDecoder(b, at)
                              /\ behind = VarintEnd(b, at) + 1
                              /\ p = at + Len(VarientEncoding(v) \o text)
  OBVIOUS
<1>5. /\ VarintReadable(b, at) /\ value = v /\ behind \in Nat /\ behind > 0
      /\ Stands(b, behind, text) /\ behind + v = p
  <2>1. Stands(b, at, VarientEncoding(v) \o text)
    BY <1>1
  <2>2. /\ VarintReadable(b, at)
        /\ SurvivesVarint(v) => VariantDecoder(b, at) = v
        /\ VarintEnd(b, at) + 1 \in Nat /\ VarintEnd(b, at) + 1 > 0
        /\ Stands(b, VarintEnd(b, at) + 1, text)
        /\ VarintEnd(b, at) + 1 + Len(text) = at + Len(VarientEncoding(v) \o text)
    BY <1>2, <1>3, <2>1, NumberThere
  <2> QED
    BY <1>1, <1>2, <1>4, <2>2
<1>6. behind - 1 + v <= Len(b) /\ Len(b) \in Nat /\ \A i \in 1 .. v : b[behind - 1 + i] = text[i]
  BY <1>1, <1>5 DEF Stands
<1>7. PICK hi \in Int : hi = behind + v - 1
  <2>1. behind + v - 1 \in Int
    BY <1>2, <1>5
  <2> QED
    BY <2>1
<1>8. hi <= Len(b) /\ hi - behind + 1 = v /\ behind <= hi
  BY <1>2, <1>3, <1>5, <1>6, <1>7
<1>9. SubSeq(b, behind, hi) = text
  <2>1. PICK w : w = SubSeq(b, behind, hi)
    OBVIOUS
  <2>2. \A i \in behind .. hi : b[i] \in Byte
    BY <1>5, <1>6, <1>8
  <2>3. behind \in Int
    BY <1>5
  <2>4. /\ w \in Seq(Byte) /\ Len(w) = IF behind <= hi THEN hi - behind + 1 ELSE 0
        /\ \A i \in 1 .. hi - behind + 1 : w[i] = b[behind + i - 1]
    BY <2>1, <2>2, <2>3, SubSeqProperties
  <2>5. Len(w) = v /\ \A i \in 1 .. v : w[i] = b[behind + i - 1]
    BY <1>8, <2>4
  <2>6. ASSUME NEW i \in 1 .. v PROVE w[i] = text[i]
    <3>1. behind + i - 1 = behind - 1 + i
      BY <1>2, <1>5
    <3> QED
      BY <1>6, <2>5, <3>1
  <2>7. w = text
    BY <1>1, <1>2, <2>4, <2>5, <2>6, SeqEqual
  <2> QED
    BY <2>1, <2>7
<1>10. behind + v - 1 <= Len(b)
  BY <1>7, <1>8
<1> QED
  BY <1>1, <1>2, <1>3, <1>4, <1>5, <1>7, <1>9, <1>10

(* The name of the next field,                                             *)
LEMMA NameThere ==
  ASSUME NEW hp, NEW fr, NEW x, NEW c, NEW s, NEW b, Reading(hp, fr, x, c, s, b),
         NameWanted(fr)
  PROVE  LET k      == Len(fr.names) + 1
             value  == VariantDecoder(b, fr.at)
             behind == VarintEnd(b, fr.at) + 1
         IN  /\ VarintReadable(b, fr.at) /\ value \in Nat /\ behind \in Nat
             /\ ToInt(value) = value /\ behind + value - 1 <= Len(b)
             /\ SubSeq(b, behind, behind + value - 1) = x.names[k]
             /\ behind + value = s + Pos(x, c, 2 + k) /\ s + Pos(x, c, 2 + k) \in Int
<1>1. FrameAt(hp, fr, x, c, s)
  BY DEF Reading
<1>2. /\ ReadableObject(x, c) /\ Len(x.kids) \in Nat /\ Len(x.kids) > 0
      /\ Len(x.names) \in Nat /\ Len(c) = Len(x.kids) /\ Len(fr.names) \in Nat
  BY <1>1, FrameAtTyped
<1>3. ItemsRead(fr) = 2 + Len(fr.names) /\ OnTrack(fr, c) /\ Len(fr.names) < Len(x.names)
  BY <1>1, NextItem DEF WantsNext
<1>4. PICK k, m : k = Len(fr.names) + 1 /\ m = 2 + Len(fr.names)
  OBVIOUS
<1>5. k \in 1 .. Len(x.names) /\ m + 1 = 2 + k /\ ItemsRead(fr) = m
      /\ m \in 0 .. Len(Items(x, c)) - 1
  <2>1. 2 + Len(fr.names) \in 0 .. Len(Items(x, c)) - 1
    BY <1>2, <1>3, ItemRanges
  <2> QED
    BY <1>2, <1>3, <1>4, <2>1
<1>6. PICK name : name = x.names[k]
  OBVIOUS
<1>7. PICK v : v = Len(name)
  OBVIOUS
<1>8. name \in Seq(Byte) /\ v \in Nat /\ SurvivesVarint(v) /\ InRange(v) /\ ToInt(v) = v
  BY <1>2, <1>5, <1>6, <1>7, ReadableTyped, FitsInt DEF ReadableObject
<1>9. v > 0
  BY <1>8 DEF SurvivesVarint
<1>10. Items(x, c)[m + 1] = VarientEncoding(v) \o name
  <2>1. x \in Data /\ c \in Seq(Seq(Byte)) /\ x.type \in CompositeTypes
    BY <1>2, ReadableTyped
  <2>2. \A j \in 1 .. Len(x.names) :
          Items(x, c)[2 + j] = VarientEncoding(Len(x.names[j])) \o x.names[j]
    BY <2>1, ItemsAre
  <2> QED
    BY <1>5, <1>6, <1>7, <2>2
<1>11. PICK value, behind, p : /\ value = VariantDecoder(b, fr.at)
                               /\ behind = VarintEnd(b, fr.at) + 1 /\ p = s + Pos(x, c, m + 1)
  OBVIOUS
<1>12. /\ VarintReadable(b, fr.at) /\ value \in Nat /\ behind \in Nat
       /\ value = v /\ behind + value - 1 <= Len(b)
       /\ SubSeq(b, behind, behind + value - 1) = name
       /\ behind + value = p /\ p \in Int
  <2>1. ReadingItem(hp, fr, x, c, s, b, m)
    BY <1>3, <1>5 DEF ReadingItem
  <2>2. /\ Stands(b, fr.at, Items(x, c)[m + 1]) /\ fr.at \in Nat \ {0}
        /\ fr.at + Len(Items(x, c)[m + 1]) = s + Pos(x, c, m + 1) /\ Pos(x, c, m + 1) \in Nat
    BY <2>1, ItemThere
  <2>3. b \in Seq(Byte) /\ s \in Int
    BY DEF Reading
  <2>4. Stands(b, fr.at, VarientEncoding(Len(name)) \o name)
    BY <1>7, <1>10, <2>2
  <2>5. SurvivesVarint(Len(name)) /\ InRange(Len(name))
    BY <1>7, <1>8
  <2>6. LET val == VariantDecoder(b, fr.at)
            beh == VarintEnd(b, fr.at) + 1
        IN  /\ VarintReadable(b, fr.at) /\ val \in Nat /\ val > 0 /\ beh \in Nat
            /\ val = Len(name) /\ beh + val - 1 <= Len(b)
            /\ SubSeq(b, beh, beh + val - 1) = name
            /\ beh + val = fr.at + Len(VarientEncoding(Len(name)) \o name)
    BY <1>8, <2>2, <2>3, <2>4, <2>5, TextThere
  <2>7. p \in Int
    BY <1>11, <2>2, <2>3
  <2>8. fr.at + Len(VarientEncoding(Len(name)) \o name) = p
    BY <1>7, <1>10, <1>11, <2>2
  <2> QED
    BY <1>7, <1>11, <2>6, <2>7, <2>8, Zenon
<1>13. ToInt(value) = value
  BY <1>8, <1>12
<1> QED
  BY <1>4, <1>5, <1>6, <1>11, <1>12, <1>13

(* is taken.                                                               *)
LEMMA NameTaken ==
  ASSUME NEW hp, NEW fr, NEW x, NEW c, NEW s, FrameAt(hp, fr, x, c, s), NameWanted(fr),
         NEW g, MovedOn(g, fr, fr.numofFields, Append(fr.names, x.names[Len(fr.names) + 1]),
                        fr.sizes, fr.kids, s + Pos(x, c, 2 + (Len(fr.names) + 1)))
  PROVE  FrameAt(hp, g, x, c, s)
<1>1. /\ ReadableObject(x, c) /\ ReadSoFar(hp, fr, x, c) /\ fr \in Activation
      /\ Len(fr.names) \in Nat /\ Len(x.names) \in Nat
  BY FrameAtTyped DEF FrameAt
<1>2. /\ Len(fr.names) < Len(x.names) /\ Len(fr.sizes) = 0 /\ Len(fr.kids) = 0
  BY NextItem DEF WantsNext
<1>0. /\ g \in Activation /\ g.type = fr.type /\ g.numofFields = fr.numofFields
      /\ g.charBytes = s /\ g.names = Append(fr.names, x.names[Len(fr.names) + 1])
      /\ g.sizes = fr.sizes /\ g.kids = fr.kids
      /\ g.at = s + Pos(x, c, 2 + (Len(fr.names) + 1))
  BY DEF MovedOn, FrameAt
<1>3. /\ Len(g.names) = Len(fr.names) + 1
      /\ \A k \in 1 .. Len(fr.names) : g.names[k] = fr.names[k]
      /\ g.names[Len(fr.names) + 1] = x.names[Len(fr.names) + 1]
  <2>1. IsSeq(fr.names)
    BY <1>1 DEF Activation, IsSeq
  <2> QED
    BY <1>0, <2>1, AppendFacts
<1>4. fr.numofFields # NotRead
  BY DEF NameWanted, CountWanted
<1>5. ReadSoFar(hp, g, x, c)
  <2>1. ASSUME NEW k \in 1 .. Len(g.names) PROVE g.names[k] = x.names[k]
    <3>1. CASE k \in 1 .. Len(fr.names)
      BY <1>1, <1>3, <3>1 DEF ReadSoFar
    <3>2. CASE k \notin 1 .. Len(fr.names)
      <4>1. k = Len(fr.names) + 1
        BY <1>1, <1>3, <3>2
      <4> QED
        BY <1>3, <4>1
    <3> QED
      BY <3>1, <3>2
  <2>2. Len(g.names) <= Len(x.names) /\ Len(g.sizes) = 0 /\ Len(g.kids) = 0
    BY <1>0, <1>1, <1>2, <1>3
  <2> QED
    BY <1>0, <1>1, <1>4, <2>1, <2>2 DEF ReadSoFar
<1>6. ItemsRead(g) = 2 + (Len(fr.names) + 1)
  <2>1. ItemsRead(g) = 2 + Len(g.names) + Len(g.sizes) + Len(g.kids)
    BY <1>0, <1>4 DEF ItemsRead
  <2>2. PICK a, u, k, n : /\ a = Len(g.names) /\ u = Len(g.sizes) /\ k = Len(g.kids)
                          /\ n = Len(fr.names)
    OBVIOUS
  <2>3. a = n + 1 /\ u = 0 /\ k = 0 /\ n \in Nat
    BY <1>0, <1>1, <1>2, <1>3, <2>2
  <2>4. ItemsRead(g) = 2 + a + u + k
    BY <2>1, <2>2
  <2> QED
    BY <2>2, <2>3, <2>4
<1> QED
  BY <1>0, <1>1, <1>5, <1>6 DEF FrameAt

(* The size of the next element: the last one may be misread.              *)
LEMMA SizeThere ==
  ASSUME NEW hp, NEW fr, NEW x, NEW c, NEW s, NEW b, Reading(hp, fr, x, c, s, b),
         SizeWanted(fr)
  PROVE  LET k     == Len(fr.sizes) + 1
             value == VariantDecoder(b, fr.at)
             end   == s + Pos(x, c, 2 + Len(x.names) + k)
         IN  /\ VarintReadable(b, fr.at) /\ value \in Int
             /\ k < Len(c) \/ SurvivesVarint(value) => value = Len(c[k])
             /\ VarintEnd(b, fr.at) + 1 = end /\ end \in Int
<1>1. FrameAt(hp, fr, x, c, s) /\ b \in Seq(Byte) /\ s \in Int
  BY DEF Reading
<1>2. /\ ReadableObject(x, c) /\ Len(x.names) \in Nat /\ Len(fr.sizes) \in Nat /\ Len(c) \in Nat
  BY <1>1, FrameAtTyped, ReadableTyped
<1>3. /\ ItemsRead(fr) = 2 + Len(x.names) + Len(fr.sizes) /\ OnTrack(fr, c)
      /\ Len(fr.sizes) < Len(c)
  BY <1>1, NextIsSize
<1>4. PICK k, m : k = Len(fr.sizes) + 1 /\ m = 2 + Len(x.names) + Len(fr.sizes)
  OBVIOUS
<1>5. /\ k \in 1 .. Len(c) /\ m + 1 = 2 + Len(x.names) + k /\ ItemsRead(fr) = m
      /\ m \in 0 .. Len(Items(x, c)) - 1
  <2>1. 2 + Len(x.names) + Len(fr.sizes) \in 0 .. Len(Items(x, c)) - 1
    BY <1>2, <1>3, ItemRanges
  <2>2. PICK N, n, j : N = Len(x.names) /\ n = Len(c) /\ j = Len(fr.sizes)
    OBVIOUS
  <2>3. N \in Nat /\ n \in Nat /\ j \in Nat /\ j < n /\ k = j + 1 /\ m = 2 + N + j
    BY <1>2, <1>3, <1>4, <2>2
  <2>4. k \in 1 .. n /\ m + 1 = 2 + N + k
    BY <2>3
  <2> QED
    BY <1>3, <1>4, <2>1, <2>2, <2>4
<1>6. PICK v : v = Len(c[k])
  OBVIOUS
<1>7. v \in Nat /\ v > 0 /\ InRange(v) /\ (k < Len(c) => SurvivesVarint(v))
  BY <1>2, <1>5, <1>6, ReadableTyped, FitsInt DEF ReadableObject
<1>8. PICK e : e = VarientEncoding(v)
  OBVIOUS
<1>9. e \in Seq(Byte)
  BY <1>7, <1>8, VarientEncodingType
<1>10. PICK rest \in Seq(Byte) : rest = <<>> /\ Len(rest) = 0 /\ e \o rest = e
  BY <1>9, NothingBehind
<1>11. Items(x, c)[m + 1] = e
  <2>1. x \in Data /\ c \in Seq(Seq(Byte)) /\ x.type \in CompositeTypes
    BY <1>2, ReadableTyped
  <2>2. \A j \in 1 .. Len(c) : Items(x, c)[2 + Len(x.names) + j] = VarientEncoding(Len(c[j]))
    BY <2>1, ItemsAre
  <2> QED
    BY <1>5, <1>6, <1>8, <2>2
<1>12. PICK value, end, p : /\ value = VariantDecoder(b, fr.at)
                            /\ end = VarintEnd(b, fr.at) + 1 /\ p = s + Pos(x, c, m + 1)
  OBVIOUS
<1>13. /\ Stands(b, fr.at, e) /\ fr.at \in Nat \ {0}
       /\ fr.at + Len(e) = p /\ p \in Int
  <2>1. ReadingItem(hp, fr, x, c, s, b, m)
    BY <1>3, <1>5 DEF ReadingItem
  <2>2. /\ Stands(b, fr.at, Items(x, c)[m + 1]) /\ fr.at \in Nat \ {0}
        /\ fr.at + Len(Items(x, c)[m + 1]) = s + Pos(x, c, m + 1) /\ Pos(x, c, m + 1) \in Nat
    BY <2>1, ItemThere
  <2> QED
    BY <1>1, <1>11, <1>12, <2>2
<1>14. /\ VarintReadable(b, fr.at) /\ value \in Int
       /\ SurvivesVarint(v) \/ SurvivesVarint(value) => value = v
       /\ end \in Nat /\ end + Len(rest) = fr.at + Len(e)
  <2>1. Stands(b, fr.at, VarientEncoding(v) \o rest)
    BY <1>8, <1>10, <1>13
  <2>2. /\ VarintReadable(b, fr.at) /\ VariantDecoder(b, fr.at) \in Int
        /\ SurvivesVarint(v) \/ SurvivesVarint(VariantDecoder(b, fr.at))
             => VariantDecoder(b, fr.at) = v
        /\ VarintEnd(b, fr.at) + 1 \in Nat
        /\ VarintEnd(b, fr.at) + 1 + Len(rest) = fr.at + Len(VarientEncoding(v) \o rest)
    BY <1>1, <1>7, <1>13, <2>1, NumberThere
  <2> QED
    BY <1>8, <1>10, <1>12, <2>2
<1>15. end = p
  BY <1>10, <1>13, <1>14
<1>16. k < Len(c) \/ SurvivesVarint(value) => value = v
  BY <1>7, <1>14
<1> QED
  BY <1>4, <1>5, <1>6, <1>12, <1>13, <1>14, <1>15, <1>16

(* It is taken as it was read.                                             *)
LEMMA SizeTaken ==
  ASSUME NEW hp, NEW fr, NEW x, NEW c, NEW s, FrameAt(hp, fr, x, c, s), SizeWanted(fr),
         NEW value,
         Len(fr.sizes) + 1 < Len(c) \/ SurvivesVarint(value) => value = Len(c[Len(fr.sizes) + 1]),
         NEW g, MovedOn(g, fr, fr.numofFields, fr.names, Append(fr.sizes, value), fr.kids,
                        s + Pos(x, c, 2 + Len(x.names) + (Len(fr.sizes) + 1)))
  PROVE  FrameAt(hp, g, x, c, s)
<1>1. /\ ReadableObject(x, c) /\ ReadSoFar(hp, fr, x, c) /\ fr \in Activation
      /\ Len(fr.sizes) \in Nat /\ Len(x.names) \in Nat /\ Len(c) \in Nat
  BY FrameAtTyped, ReadableTyped DEF FrameAt
<1>2. Len(fr.names) = Len(x.names) /\ Len(fr.sizes) < Len(c) /\ Len(fr.kids) = 0
  BY NextIsSize
<1>0. /\ g \in Activation /\ g.type = fr.type /\ g.numofFields = fr.numofFields
      /\ g.names = fr.names /\ g.sizes = Append(fr.sizes, value) /\ g.kids = fr.kids
      /\ g.charBytes = s /\ g.at = s + Pos(x, c, 2 + Len(x.names) + (Len(fr.sizes) + 1))
  BY DEF MovedOn, FrameAt
<1>3. /\ Len(g.sizes) = Len(fr.sizes) + 1
      /\ \A k \in 1 .. Len(fr.sizes) : g.sizes[k] = fr.sizes[k]
      /\ g.sizes[Len(fr.sizes) + 1] = value
  <2>1. IsSeq(fr.sizes)
    BY <1>1 DEF Activation, IsSeq
  <2> QED
    BY <1>0, <2>1, AppendFacts
<1>4. fr.numofFields # NotRead
  BY DEF SizeWanted, CountWanted
<1>5. ReadSoFar(hp, g, x, c)
  <2>1. ASSUME NEW k \in 1 .. Len(g.sizes), k < Len(c) \/ SurvivesVarint(g.sizes[k])
        PROVE  g.sizes[k] = Len(c[k])
    <3>1. CASE k \in 1 .. Len(fr.sizes)
      BY <1>1, <1>3, <2>1, <3>1 DEF ReadSoFar
    <3>2. CASE k \notin 1 .. Len(fr.sizes)
      <4>1. k = Len(fr.sizes) + 1
        BY <1>1, <1>3, <3>2
      <4>2. g.sizes[k] = value
        BY <1>3, <4>1
      <4>3. Len(fr.sizes) + 1 < Len(c) \/ SurvivesVarint(value)
        BY <2>1, <4>1, <4>2
      <4> QED
        BY <4>1, <4>2, <4>3
    <3> QED
      BY <3>1, <3>2
  <2>2. Len(g.sizes) <= Len(c) /\ Len(g.names) = Len(x.names) /\ Len(g.kids) = 0
    BY <1>0, <1>1, <1>2, <1>3
  <2> QED
    BY <1>0, <1>1, <1>4, <2>1, <2>2 DEF ReadSoFar
<1>6. ItemsRead(g) = 2 + Len(x.names) + (Len(fr.sizes) + 1)
  <2>1. ItemsRead(g) = 2 + Len(g.names) + Len(g.sizes) + Len(g.kids)
    BY <1>0, <1>4 DEF ItemsRead
  <2>2. PICK a, u, k, n : /\ a = Len(g.names) /\ u = Len(g.sizes) /\ k = Len(g.kids)
                          /\ n = Len(fr.sizes)
    OBVIOUS
  <2>3. a = Len(x.names) /\ a \in Nat /\ u = n + 1 /\ k = 0 /\ n \in Nat
    BY <1>0, <1>1, <1>2, <1>3, <2>2
  <2>4. ItemsRead(g) = 2 + a + u + k
    BY <2>1, <2>2
  <2> QED
    BY <2>2, <2>3, <2>4
<1> QED
  BY <1>0, <1>1, <1>5, <1>6 DEF FrameAt

(* The next element stands where the activation is,                        *)
LEMMA KidThere ==
  ASSUME NEW hp, NEW fr, NEW x, NEW c, NEW s, FrameAt(hp, fr, x, c, s), s \in Int, KidWanted(fr)
  PROVE  LET k == Len(fr.kids) + 1
             m == 2 + Len(x.names) + Len(c) + k
         IN  /\ k \in 1 .. Len(c) /\ Len(c[k]) \in Nat /\ c[k] \in Seq(Byte)
             /\ fr.at + Len(c[k]) = s + Pos(x, c, m) /\ s + Pos(x, c, m) \in Int
             /\ Pos(x, c, m) <= Len(ObjectBytes(x, c))
             /\ \A b \in Seq(Byte) : Stands(b, s, ObjectBytes(x, c)) => Stands(b, fr.at, c[k])
<1>1. /\ ReadableObject(x, c) /\ Len(fr.kids) \in Nat /\ Len(x.names) \in Nat /\ Len(c) \in Nat
  BY FrameAtTyped, ReadableTyped
<1>2. /\ ItemsRead(fr) = 2 + Len(x.names) + Len(c) + Len(fr.kids)
      /\ OnTrack(fr, c) /\ Len(fr.names) = Len(x.names)
      /\ Len(fr.sizes) = Len(c) /\ Len(fr.kids) < Len(c)
  BY NextIsKid, Zenon
<1>3. PICK k, m : k = Len(fr.kids) + 1 /\ m = 2 + Len(x.names) + Len(c) + Len(fr.kids)
  OBVIOUS
<1>4. /\ k \in 1 .. Len(c) /\ m + 1 = 2 + Len(x.names) + Len(c) + k
      /\ ItemsRead(fr) = m /\ m \in 0 .. Len(Items(x, c)) - 1
  <2>1. 2 + Len(x.names) + Len(c) + Len(fr.kids) \in 0 .. Len(Items(x, c)) - 1
    BY <1>1, <1>2, ItemRanges
  <2>2. PICK N, n, j : N = Len(x.names) /\ n = Len(c) /\ j = Len(fr.kids)
    OBVIOUS
  <2>3. N \in Nat /\ n \in Nat /\ j \in Nat /\ j < n /\ k = j + 1 /\ m = 2 + N + n + j
    BY <1>1, <1>2, <1>3, <2>2
  <2>4. k \in 1 .. n /\ m + 1 = 2 + N + n + k
    BY <2>3
  <2> QED
    BY <1>2, <1>3, <2>1, <2>2, <2>4
<1>5. fr.at = s + Pos(x, c, m)
  BY <1>2, <1>4 DEF FrameAt
<1>6. Items(x, c)[m + 1] = c[k]
  <2>1. x \in Data /\ c \in Seq(Seq(Byte)) /\ x.type \in CompositeTypes
    BY <1>1, ReadableTyped
  <2>2. \A j \in 1 .. Len(c) : Items(x, c)[2 + Len(x.names) + Len(c) + j] = c[j]
    BY <2>1, ItemsAre
  <2> QED
    BY <1>4, <2>2
<1>7. PICK kid : kid = c[k]
  OBVIOUS
<1>8. /\ kid \in Seq(Byte) /\ Len(kid) \in Nat
      /\ Pos(x, c, m) \in Nat /\ Pos(x, c, m + 1) \in Nat
      /\ Pos(x, c, m + 1) = Pos(x, c, m) + Len(kid)
      /\ Pos(x, c, m + 1) <= Len(ObjectBytes(x, c))
      /\ \A b \in Seq(Byte) : Stands(b, s, ObjectBytes(x, c)) => Stands(b, s + Pos(x, c, m), kid)
  BY <1>1, <1>4, <1>6, <1>7, PosNext
<1>9. s + Pos(x, c, m) + Len(kid) = s + Pos(x, c, m + 1) /\ s + Pos(x, c, m + 1) \in Int
  BY <1>8
<1> QED
  BY <1>3, <1>4, <1>5, <1>7, <1>8, <1>9

(* and when it is added the activation is behind it.                       *)
LEMMA KidTaken ==
  ASSUME NEW hp, NEW fr, NEW x, NEW c, NEW s, FrameAt(hp, fr, x, c, s), s \in Int,
         KidWanted(fr), NEW ptr \in DOMAIN hp, Wire(hp, ptr) = c[Len(fr.kids) + 1],
         NEW g, MovedOn(g, fr, fr.numofFields, fr.names, fr.sizes, Append(fr.kids, ptr),
                        BehindElement(fr, fr.sizes[Len(fr.kids) + 1]))
  PROVE  FrameAt(hp, g, x, c, s)
<1>1. /\ ReadableObject(x, c) /\ ReadSoFar(hp, fr, x, c) /\ fr \in Activation
      /\ Len(fr.kids) \in Nat /\ Len(x.names) \in Nat /\ Len(c) \in Nat
  BY FrameAtTyped, ReadableTyped DEF FrameAt
<1>2. /\ Len(fr.names) = Len(x.names) /\ Len(fr.sizes) = Len(c) /\ Len(fr.kids) < Len(c)
  BY NextIsKid, Zenon
<1>0. /\ g \in Activation /\ g.type = fr.type /\ g.numofFields = fr.numofFields
      /\ g.names = fr.names /\ g.sizes = fr.sizes /\ g.kids = Append(fr.kids, ptr)
      /\ g.charBytes = s /\ fr.charBytes = s
      /\ g.at = BehindElement(fr, fr.sizes[Len(fr.kids) + 1])
  BY DEF MovedOn, FrameAt
<1>3. /\ Len(g.kids) = Len(fr.kids) + 1
      /\ \A k \in 1 .. Len(fr.kids) : g.kids[k] = fr.kids[k]
      /\ g.kids[Len(fr.kids) + 1] = ptr
  <2>1. IsSeq(fr.kids)
    BY <1>1 DEF Activation, IsSeq
  <2> QED
    BY <1>0, <2>1, AppendFacts
<1>4. fr.numofFields # NotRead
  BY DEF KidWanted, CountWanted
<1>5. ReadSoFar(hp, g, x, c)
  <2>1. ASSUME NEW k \in 1 .. Len(g.kids)
        PROVE  g.kids[k] \in DOMAIN hp /\ Wire(hp, g.kids[k]) = c[k]
    <3>1. CASE k \in 1 .. Len(fr.kids)
      BY <1>1, <1>3, <3>1 DEF ReadSoFar
    <3>2. CASE k \notin 1 .. Len(fr.kids)
      <4>1. k = Len(fr.kids) + 1
        BY <1>1, <1>3, <3>2
      <4> QED
        BY <1>3, <4>1
    <3> QED
      BY <3>1, <3>2
  <2>2. Len(g.kids) <= Len(c) /\ Len(g.names) = Len(x.names) /\ Len(g.sizes) = Len(c)
    BY <1>0, <1>1, <1>2, <1>3
  <2> QED
    BY <1>0, <1>1, <1>4, <2>1, <2>2 DEF ReadSoFar
<1>6. ItemsRead(g) = 2 + Len(x.names) + Len(c) + (Len(fr.kids) + 1)
  <2>1. ItemsRead(g) = 2 + Len(g.names) + Len(g.sizes) + Len(g.kids)
    BY <1>0, <1>4 DEF ItemsRead
  <2>2. PICK a, u, k, n : /\ a = Len(g.names) /\ u = Len(g.sizes) /\ k = Len(g.kids)
                          /\ n = Len(fr.kids)
    OBVIOUS
  <2>3. /\ a = Len(x.names) /\ a \in Nat /\ u = Len(c) /\ u \in Nat
        /\ k = n + 1 /\ n \in Nat
    BY <1>0, <1>1, <1>2, <1>3, <2>2
  <2>4. ItemsRead(g) = 2 + a + u + k
    BY <2>1, <2>2
  <2> QED
    BY <2>2, <2>3, <2>4
<1>7. ASSUME OnTrack(g, c)
      PROVE  fr.sizes[Len(fr.kids) + 1] = Len(c[Len(fr.kids) + 1])
  <2>1. PICK k : k = Len(fr.kids) + 1
    OBVIOUS
  <2>2. k \in 1 .. Len(fr.sizes) /\ (k < Len(c) \/ k = Len(c))
    BY <1>1, <1>2, <2>1
  <2>3. k < Len(c) \/ SurvivesVarint(fr.sizes[k])
    BY <1>0, <1>3, <1>7, <2>1, <2>2 DEF OnTrack
  <2> QED
    BY <1>1, <2>1, <2>2, <2>3 DEF ReadSoFar
<1>8. PICK p, l : /\ p = Pos(x, c, 2 + Len(x.names) + Len(c) + (Len(fr.kids) + 1))
                  /\ l = Len(c[Len(fr.kids) + 1])
  OBVIOUS
<1>9. /\ fr.at + l = s + p /\ l \in Nat /\ p \in Nat /\ p <= Len(ObjectBytes(x, c))
      /\ fr.at \in Int
  <2>1. LET k == Len(fr.kids) + 1
            m == 2 + Len(x.names) + Len(c) + k
        IN  /\ k \in 1 .. Len(c) /\ Len(c[k]) \in Nat /\ c[k] \in Seq(Byte)
            /\ fr.at + Len(c[k]) = s + Pos(x, c, m) /\ s + Pos(x, c, m) \in Int
            /\ Pos(x, c, m) <= Len(ObjectBytes(x, c))
            /\ \A b \in Seq(Byte) : Stands(b, s, ObjectBytes(x, c)) => Stands(b, fr.at, c[k])
    BY KidThere, Zenon
  <2>2. fr.at + l = s + p /\ l \in Nat /\ p <= Len(ObjectBytes(x, c))
    BY <1>8, <2>1, Zenon
  <2>3. p \in Nat
    <3>1. LET k == Len(fr.kids)
          IN  2 + Len(x.names) + Len(c) + k \in 0 .. Len(Items(x, c)) - 1
      BY <1>1, <1>2, ItemRanges
    <3>2. PICK m : m = 2 + Len(x.names) + Len(c) + Len(fr.kids)
      OBVIOUS
    <3>3. m \in 0 .. Len(Items(x, c)) - 1
      BY <3>1, <3>2
    <3>4. Pos(x, c, m + 1) \in Nat
      BY <1>1, <3>3, PosNext
    <3>5. m + 1 = 2 + Len(x.names) + Len(c) + (Len(fr.kids) + 1)
      <4>1. PICK N, n, j : N = Len(x.names) /\ n = Len(c) /\ j = Len(fr.kids)
        OBVIOUS
      <4>2. N \in Nat /\ n \in Nat /\ j \in Nat /\ m = 2 + N + n + j
        BY <1>1, <3>2, <4>1
      <4>3. m + 1 = 2 + N + n + (j + 1)
        BY <4>2
      <4> QED
        BY <4>1, <4>3
    <3> QED
      BY <1>8, <3>4, <3>5
  <2>4. fr.at \in Int
    BY <1>1 DEF Activation
  <2> QED
    BY <2>2, <2>3, <2>4
<1>10. ASSUME OnTrack(g, c)
       PROVE  g.at = s + p
  <2>1. fr.sizes[Len(fr.kids) + 1] = l
    BY <1>7, <1>8, <1>10
  <2>2. fr.at - s + l = p
    BY <1>9
  <2>3. Len(ObjectBytes(x, c)) <= IntMax /\ IntMax \in Nat
    BY <1>1, IntAssumption DEF ReadableObject, Fits
  <2>4. Fits(p)
    <3>1. Len(ObjectBytes(x, c)) \in Nat
      <4>1. x \in Data /\ x.type # "STRING" /\ c \in Seq(Seq(Byte))
        BY <1>1, ReadableTyped DEF PrimitiveTypes
      <4>2. ObjectBytes(x, c) \in Seq(Byte)
        BY <4>1, ObjectBytesType
      <4> QED
        BY <4>2
    <3> QED
      BY <1>9, <2>3, <3>1 DEF Fits
  <2>5. ToInt(p) = p
    BY <1>9, <2>4, FitsInt
  <2> QED
    BY <1>0, <2>1, <2>2, <2>5 DEF BehindElement
<1> QED
  BY <1>0, <1>1, <1>5, <1>6, <1>8, <1>10 DEF FrameAt

(* What follows the type in an object.                                     *)
LEMMA WireRest ==
  ASSUME NEW x \in Data, HasTypeCode(x), x.type = "STRING" => x.value \in Seq(Byte),
         NEW c \in Seq(Seq(Byte))
  PROVE  \E r \in Seq(Byte) : ObjectBytes(x, c) = TypeEncoding(x) \o r
<1>1. TypeEncoding(x) \in Seq(Byte)
  BY TypeEncodingType
<1>2. CASE x.type \in NumberTypes
  <2>1. x.value \in Seq(Int)
    BY DEF Data
  <2>2. CASE x.value = <<>>
    <3>1. <<>> \in Seq(Byte)
      OBVIOUS
    <3> QED
      BY <1>2, <2>2, <3>1, NoNumberBytes, Zenon
  <2>3. CASE x.value # <<>>
    <3>1. x.value[1] \in Int
      BY <2>1, <2>3
    <3>2. VarientEncoding(x.value[1]) \in Seq(Byte)
      BY <3>1, VarientEncodingInt
    <3>3. ObjectBytes(x, c) = TypeEncoding(x) \o VarientEncoding(x.value[1])
      BY <1>2, <2>3, NumberBytes
    <3> QED
      BY <3>2, <3>3, Zenon
  <2> QED
    BY <2>2, <2>3
<1>3. CASE x.type = "STRING"
  <2>1. x.value \in Seq(Byte) /\ Len(x.value) \in Nat
    BY <1>3
  <2>2. VarientEncoding(Len(x.value)) \in Seq(Byte)
    BY <2>1, VarientEncodingType
  <2>3. VarientEncoding(Len(x.value)) \o x.value \in Seq(Byte)
    BY <2>1, <2>2, ConcatProperties
  <2> QED
    BY <1>3, <2>3, StringBytes, Zenon
<1>4. CASE x.type \in CompositeTypes
  <2>1. /\ CountBytes(x) \in Seq(Byte) /\ FlattenSeq(NameBytes(x)) \in Seq(Byte)
        /\ FlattenSeq(SizeBytes(c)) \in Seq(Byte) /\ FlattenSeq(c) \in Seq(Byte)
    BY CountBytesType, NameBytesType, SizeBytesType, FlattenType
  <2>2. CountBytes(x) \o FlattenSeq(NameBytes(x)) \in Seq(Byte)
    BY <2>1, ConcatProperties
  <2>3. CountBytes(x) \o FlattenSeq(NameBytes(x)) \o FlattenSeq(SizeBytes(c)) \in Seq(Byte)
    BY <2>1, <2>2, ConcatProperties
  <2>4. CountBytes(x) \o FlattenSeq(NameBytes(x)) \o FlattenSeq(SizeBytes(c))
          \o FlattenSeq(c) \in Seq(Byte)
    BY <2>1, <2>3, ConcatProperties
  <2> QED
    BY <1>4, <2>4, CompositeBytes, Zenon
<1> QED
  <2>1. x.type \in DataTypes
    BY DEF Data
  <2> QED
    BY <1>2, <1>3, <1>4, <2>1, Kinds

(* What is returned when all is there has the bytes of the object.         *)
LEMMA CompletedBytes ==
  ASSUME NEW hp, NEW fr, NEW x, NEW c, NEW s, FrameAt(hp, fr, x, c, s), AllThere(fr),
         NEW d, d.type = fr.type, d.kids = fr.kids, d.names = fr.names
  PROVE  /\ ObjectBytes(d, c) = ObjectBytes(x, c)
         /\ d.type = x.type /\ d.names = x.names /\ Len(d.kids) = Len(x.kids)
<1>1. /\ x \in Data /\ x.type \in CompositeTypes /\ fr \in Activation
      /\ fr.type = x.type /\ Len(x.names) \in Nat /\ Len(x.kids) = Len(c)
      /\ \A k \in 1 .. Len(fr.names) : fr.names[k] = x.names[k]
  <2>1. ReadableObject(x, c) /\ ReadSoFar(hp, fr, x, c) /\ fr \in Activation
    BY DEF FrameAt
  <2> QED
    BY <2>1, ReadableTyped DEF ReadSoFar
<1>2. Len(fr.names) = Len(x.names) /\ Len(fr.kids) = Len(c)
  BY NextIsNothing
<1>3. fr.names = x.names
  <2>1. fr.names \in Seq(Seq(Byte)) /\ x.names \in Seq(Seq(Byte))
    BY <1>1 DEF Activation, Data
  <2> QED
    BY <1>1, <1>2, <2>1, SeqEqual
<1>4. d.type = x.type /\ Len(d.kids) = Len(x.kids) /\ d.names = x.names
  BY <1>1, <1>2, <1>3
<1>5. TypeEncoding(d) = TypeEncoding(x) /\ CountBytes(d) = CountBytes(x)
  BY <1>4, Zenon DEF TypeEncoding, CountBytes
<1>6. NameBytes(d) = NameBytes(x)
  BY <1>4, Zenon DEF NameBytes
<1>7. d.type \in CompositeTypes
  BY <1>1, <1>4
<1>8. /\ ObjectBytes(d, c) = TypeEncoding(d) \o (CountBytes(d) \o FlattenSeq(NameBytes(d))
                               \o FlattenSeq(SizeBytes(c)) \o FlattenSeq(c))
      /\ ObjectBytes(x, c) = TypeEncoding(x) \o (CountBytes(x) \o FlattenSeq(NameBytes(x))
                               \o FlattenSeq(SizeBytes(c)) \o FlattenSeq(c))
  BY <1>1, <1>7, CompositeBytes
<1>9. ObjectBytes(d, c) = ObjectBytes(x, c)
  BY <1>5, <1>6, <1>8, Zenon
<1> QED
  BY <1>4, <1>9

(* Objects made later change nothing for an activation.                    *)
LEMMA FrameKeptInHeap ==
  ASSUME NEW hp, NEW fr, NEW x, NEW c, NEW s, FrameAt(hp, fr, x, c, s), NEW g,
         \A d \in DOMAIN hp : d \in DOMAIN g /\ Wire(g, d) = Wire(hp, d)
  PROVE  FrameAt(g, fr, x, c, s)
<1>1. ReadSoFar(hp, fr, x, c)
  BY DEF FrameAt
<1>2. \A k \in 1 .. Len(fr.kids) : fr.kids[k] \in DOMAIN g /\ Wire(g, fr.kids[k]) = c[k]
  <2>1. ASSUME NEW k \in 1 .. Len(fr.kids)
        PROVE  fr.kids[k] \in DOMAIN g /\ Wire(g, fr.kids[k]) = c[k]
    <3>1. fr.kids[k] \in DOMAIN hp /\ Wire(hp, fr.kids[k]) = c[k]
      BY <1>1 DEF ReadSoFar
    <3> QED
      BY <3>1
  <2> QED
    BY <2>1
<1>3. ReadSoFar(g, fr, x, c)
  BY <1>1, <1>2 DEF ReadSoFar
<1> QED
  BY <1>3 DEF FrameAt

(* Where the items end.                                                    *)
LEMMA PosBounds ==
  ASSUME NEW x, NEW c, ReadableObject(x, c), NEW m \in 1 .. Len(Items(x, c))
  PROVE  Pos(x, c, m) \in Nat /\ Pos(x, c, m) >= 1 /\ Pos(x, c, m) <= Len(ObjectBytes(x, c))
<1>1. PICK M : M = Len(Items(x, c))
  OBVIOUS
<1>2. PICK P : P = [j \in Nat |-> Pos(x, c, j)]
  OBVIOUS
<1>3. M \in Nat /\ m \in 1 .. M /\ P[1] = 1
  <2>1. M = 2 + Len(x.names) + Len(c) + Len(c)
    BY <1>1, PosEnds
  <2>2. Len(x.names) \in Nat /\ Len(c) \in Nat
    BY ReadableTyped
  <2>3. Pos(x, c, 1) = 1
    BY PosEnds
  <2> QED
    BY <1>1, <1>2, <2>1, <2>2, <2>3
<1>4. ASSUME NEW j \in 0 .. M - 1
      PROVE  /\ P[j] \in Nat /\ P[j + 1] \in Nat /\ P[j + 1] >= P[j]
             /\ P[j + 1] <= Len(ObjectBytes(x, c))
  <2>1. /\ Len(Items(x, c)[j + 1]) \in Nat
        /\ Pos(x, c, j) \in Nat /\ Pos(x, c, j + 1) \in Nat
        /\ Pos(x, c, j + 1) = Pos(x, c, j) + Len(Items(x, c)[j + 1])
        /\ Pos(x, c, j + 1) <= Len(ObjectBytes(x, c))
    BY <1>1, PosNext
  <2>2. j \in Nat /\ j + 1 \in Nat
    BY <1>3
  <2>3. P[j] = Pos(x, c, j) /\ P[j + 1] = Pos(x, c, j + 1)
    BY <1>2, <2>2
  <2> QED
    BY <2>1, <2>3
<1> DEFINE T == {j \in Nat : j + 1 <= M => P[j + 1] >= 1}
<1>5. 0 \in T
  BY <1>3
<1>6. ASSUME NEW j \in T PROVE j + 1 \in T
  <2>1. SUFFICES ASSUME (j + 1) + 1 <= M PROVE P[(j + 1) + 1] >= 1
    OBVIOUS
  <2>2. j + 1 \in 0 .. M - 1 /\ j + 1 <= M
    BY <1>3, <2>1
  <2> QED
    BY <1>4, <2>2
<1>7. \A j \in Nat : j \in T
  <2>1. T \in SUBSET Nat
    OBVIOUS
  <2> HIDE DEF T
  <2> QED
    BY <1>5, <1>6, <2>1, NatSet
<1>8. m - 1 \in 0 .. M - 1 /\ m - 1 \in Nat /\ (m - 1) + 1 = m /\ m <= M
  BY <1>3
<1>9. P[m] >= 1
  BY <1>7, <1>8
<1>10. P[m] \in Nat /\ P[m] <= Len(ObjectBytes(x, c))
  BY <1>4, <1>8
<1> QED
  BY <1>2, <1>3, <1>9, <1>10

(* An activation whose sizes were read right is inside its element.        *)
LEMMA FrameSpan ==
  ASSUME NEW hp, NEW fr, NEW x, NEW c, NEW s, FrameAt(hp, fr, x, c, s), s \in Int,
         OnTrack(fr, c)
  PROVE  /\ fr.at > s /\ fr.at <= s + Len(ObjectBytes(x, c))
         /\ Len(ObjectBytes(x, c)) \in Nat
         /\ AllThere(fr) => fr.at = s + Len(ObjectBytes(x, c))
<1>1. /\ Len(fr.names) \in Nat /\ Len(fr.sizes) \in Nat /\ Len(fr.kids) \in Nat
      /\ Len(x.names) \in Nat /\ Len(c) \in Nat /\ ReadableObject(x, c)
  BY FrameAtTyped, ReadableTyped
<1>2. /\ Len(fr.names) <= Len(x.names) /\ Len(fr.sizes) <= Len(c) /\ Len(fr.kids) <= Len(c)
      /\ fr.at = s + Pos(x, c, ItemsRead(fr))
  BY DEF FrameAt, ReadSoFar
<1>3. ItemsRead(fr) \in 1 .. Len(Items(x, c))
  <2>1. PICK a, u, k, N, n, M, I :
          /\ a = Len(fr.names) /\ u = Len(fr.sizes) /\ k = Len(fr.kids)
          /\ N = Len(x.names) /\ n = Len(c) /\ M = Len(Items(x, c)) /\ I = ItemsRead(fr)
    OBVIOUS
  <2>2. M = 2 + N + n + n
    BY <1>1, <2>1, PosEnds
  <2>3. I = 1 \/ I = 2 + a + u + k
    BY <2>1 DEF ItemsRead
  <2>4. /\ a \in Nat /\ u \in Nat /\ k \in Nat /\ N \in Nat /\ n \in Nat
        /\ a <= N /\ u <= n /\ k <= n
    BY <1>1, <1>2, <2>1
  <2>5. I \in 1 .. M
    BY <2>2, <2>3, <2>4
  <2> QED
    BY <2>1, <2>5
<1>4. PICK p, l : p = Pos(x, c, ItemsRead(fr)) /\ l = Len(ObjectBytes(x, c))
  OBVIOUS
<1>5. p \in Nat /\ p >= 1 /\ p <= l
  BY <1>1, <1>3, <1>4, PosBounds
<1>6. l \in Nat
  <2>1. 1 \in 0 .. Len(Items(x, c)) - 1
    BY <1>1, ItemRanges
  <2>2. x \in Data /\ x.type # "STRING" /\ c \in Seq(Seq(Byte))
    BY <1>1, ReadableTyped DEF PrimitiveTypes
  <2>3. ObjectBytes(x, c) \in Seq(Byte)
    BY <2>2, ObjectBytesType
  <2> QED
    BY <1>4, <2>3
<1>7. AllThere(fr) => p = l
  <2>1. AllThere(fr) => ItemsRead(fr) = Len(Items(x, c))
    BY NextIsNothing
  <2>2. Pos(x, c, Len(Items(x, c))) = Len(ObjectBytes(x, c))
    BY <1>1, PosEnds
  <2> QED
    BY <1>4, <2>1, <2>2
<1>8. fr.at = s + p
  BY <1>2, <1>4
<1>9. s + p > s /\ s + p <= s + l
  BY <1>5, <1>6
<1> QED
  BY <1>4, <1>6, <1>7, <1>8, <1>9

-----------------------------------------------------------------------------
(* The bytes of an object of a document begin with the code of its type.   *)
LEMMA WireStarts ==
  ASSUME NEW h \in CleanDocs, NEW d \in Below(h, 1)
  PROVE  /\ h[d].type # "I8" /\ Wire(h, d) \in Seq(Byte) /\ Len(Wire(h, d)) > 0
         /\ Wire(h, d)[1] = TypeCode[h[d].type] /\ HasTypeCode(h[d])
<1>1. PICK x, c, w : x = h[d] /\ c = KidBytes(h, d) /\ w = Wire(h, d)
  OBVIOUS
<1>2. /\ x \in Data /\ CarriedObject(h, x) /\ w = ObjectBytes(x, c)
      /\ c \in Seq(Seq(Byte)) /\ w \in Seq(Byte)
  BY <1>1, ObjectFacts
<1>3. x.type # "I8" /\ HasTypeCode(x)
  <2>1. /\ x.type \in NumberTypes => x.type # "I8"
        /\ x.type \in NumberTypes \/ x.type = "STRING" \/ x.type \in CompositeTypes
    <3>1. CarriedObject(h, x)
      BY <1>2
    <3> QED
      BY <3>1 DEF CarriedObject, NumberTypes, CompositeTypes
  <2> QED
    BY <2>1 DEF NumberTypes, CompositeTypes, HasTypeCode, TypeCode
<1>4. PICK t : t = TypeEncoding(x)
  OBVIOUS
<1>5. t \in Seq(Byte) /\ Len(t) = 1 /\ t[1] = TypeCode[x.type]
  BY <1>2, <1>3, <1>4, TagByte
<1>6. PICK r \in Seq(Byte) : w = t \o r
  <2>1. WellBuilt(h) /\ d \in DOMAIN h
    BY DocFacts, ObjectFacts
  <2>2. x.type = "STRING" => x.value \in Seq(Byte)
    BY <1>1, <2>1 DEF WellBuilt
  <2> QED
    BY <1>2, <1>3, <1>4, <2>2, WireRest
<1>7. Len(w) = Len(t) + Len(r) /\ Len(r) \in Nat /\ (\A i \in 1 .. Len(t) : w[i] = t[i])
  BY <1>5, <1>6, ConcatProperties
<1> QED
  BY <1>1, <1>2, <1>3, <1>5, <1>7

(* A composite of a document is an object an activation can read.          *)
LEMMA DocComposite ==
  ASSUME NEW h \in CleanDocs, NEW d \in Below(h, 1), h[d].type \in CompositeTypes
  PROVE  ReadableObject(h[d], KidBytes(h, d))
<1>1. PICK x, c : x = h[d] /\ c = KidBytes(h, d)
  OBVIOUS
<1>2. /\ x \in Data /\ CarriedObject(h, x) /\ Shaped(x) /\ NumbersFit(h, d)
      /\ c \in Seq(Seq(Byte)) /\ Len(c) = Len(x.kids)
      /\ Len(x.kids) \in Nat /\ DOMAIN x.kids = 1 .. Len(x.kids)
      /\ Len(x.names) \in Nat /\ DOMAIN x.names = 1 .. Len(x.names)
      /\ x.type = "STRUCT" => Len(x.names) = Len(x.kids)
  BY <1>1, ObjectFacts
<1>3. /\ \A k \in 1 .. Len(x.kids) : x.kids[k] \in Below(h, 1)
      /\ \A k \in 1 .. Len(x.kids) : c[k] = Wire(h, x.kids[k]) /\ c[k] \in Seq(Byte)
  BY <1>1, ObjectFacts
<1>4. /\ x.type = "MAP" \/ SurvivesVarint(Len(x.kids))
      /\ \A k \in 1 .. Len(x.names) : SurvivesVarint(Len(x.names[k]))
      /\ \A k \in 1 .. Len(x.kids) - 1 : SurvivesVarint(Len(c[k]))
  <2>1. x.type \notin NumberTypes /\ x.type # "STRING"
    BY <1>1 DEF CompositeTypes, NumberTypes
  <2> DEFINE sizes == [k \in DOMAIN x.kids |-> Len(Wire(h, x.kids[k]))]
  <2>2. /\ x.type = "MAP" \/ SurvivesVarint(Len(x.kids))
        /\ \A k \in DOMAIN x.names : SurvivesVarint(Len(x.names[k]))
        /\ \A k \in 1 .. Len(sizes) - 1 : SurvivesVarint(sizes[k])
    BY <1>2, <2>1, Zenon DEF CarriedObject
  <2>3. sizes = [k \in 1 .. Len(x.kids) |-> Len(Wire(h, x.kids[k]))]
    BY <1>2, Zenon
  <2> HIDE DEF sizes
  <2>4. Len(sizes) = Len(x.kids) /\ \A k \in 1 .. Len(x.kids) : sizes[k] = Len(c[k])
    <3>1. PICK n : n = Len(x.kids)
      OBVIOUS
    <3>2. \A k \in 1 .. n : c[k] = Wire(h, x.kids[k])
      BY <1>3, <3>1
    <3>3. /\ n \in Nat /\ DOMAIN sizes = 1 .. n
          /\ \A k \in 1 .. n : sizes[k] = Len(Wire(h, x.kids[k]))
      BY <1>2, <2>3, <3>1
    <3>4. Len(sizes) = n
      BY <2>3, <3>1, <3>3
    <3>5. \A k \in 1 .. n : sizes[k] = Len(c[k])
      BY <3>2, <3>3
    <3> QED
      BY <3>1, <3>4, <3>5
  <2>5. ASSUME NEW k \in 1 .. Len(x.kids) - 1 PROVE SurvivesVarint(Len(c[k]))
    <3>1. k \in 1 .. Len(x.kids)
      BY <1>2
    <3> QED
      BY <2>2, <2>4, <3>1
  <2> QED
    BY <1>2, <2>2, <2>5
<1>5. /\ Fits(Len(x.kids)) /\ Fits(Len(ObjectBytes(x, c)))
      /\ \A k \in 1 .. Len(x.names) : Fits(Len(x.names[k]))
      /\ \A k \in 1 .. Len(x.kids) : Fits(Len(c[k]))
  <2>1. Wire(h, d) = ObjectBytes(x, c)
    BY <1>1, ObjectFacts
  <2>2. ASSUME NEW k \in 1 .. Len(x.kids) PROVE Fits(Len(c[k]))
    <3>1. NumbersFit(h, x.kids[k])
      BY <1>3, ObjectFacts
    <3> QED
      BY <1>3, <3>1 DEF NumbersFit, Fits
  <2> QED
    BY <1>1, <1>2, <2>1, <2>2 DEF NumbersFit, Fits
<1>6. x.type = "MAP" => Len(x.kids) = 2
  BY <1>2 DEF Shaped
<1>7. x.type # "STRUCT" => Len(x.names) = 0
  BY <1>2, EmptySeq DEF Shaped
<1>8. Len(x.kids) > 0
  BY <1>4, <1>6 DEF SurvivesVarint
<1>9. \A k \in 1 .. Len(x.kids) : Len(c[k]) > 0
  <2>1. ASSUME NEW k \in 1 .. Len(x.kids) PROVE Len(c[k]) > 0
    <3>1. c[k] = Wire(h, x.kids[k]) /\ x.kids[k] \in Below(h, 1)
      BY <1>3
    <3> QED
      BY <3>1, WireStarts
  <2> QED
    BY <2>1
<1>10. \A k \in 1 .. Len(c) : k < Len(c) => SurvivesVarint(Len(c[k]))
  BY <1>2, <1>4
<1>11. x.type # "MAP" => SurvivesVarint(Len(x.kids))
  BY <1>4
<1>12. ReadableObject(x, c)
  BY <1>1, <1>2, <1>4, <1>5, <1>6, <1>7, <1>8, <1>9, <1>10, <1>11 DEF ReadableObject
<1> QED
  BY <1>1, <1>12

-----------------------------------------------------------------------------
(* Level l of the recursion is at the object d of the document, whose bytes*)
(* stand at s; the thread's stack has room for what is below.              *)
Visited(h, b, d, s, l) ==
  /\ d \in Below(h, 1) /\ s \in Int /\ Stands(b, s, Wire(h, d))
  /\ Rank(h)[d] + l <= MaxDepth + 1

(* Its activation reads that object, and the elements it has are those of  *)
(* the object,                                                             *)
SameKids(h, hp, fr, d) ==
  \A k \in 1 .. Len(fr.kids) : Tree(hp, fr.kids[k]) = Tree(h, h[d].kids[k])

(* each made after the one before it,                                      *)
Rising(s) == \A j, k \in 1 .. Len(s) : j < k => s[j] < s[k]

Activated(h, hp, fr, d, s) ==
  /\ FrameAt(hp, fr, h[d], KidBytes(h, d), s) /\ SameKids(h, hp, fr, d)
  /\ Rising(fr.kids)

(* and is waiting for its next element, which the level above is at.       *)
Calls(h, fr, d, d2, s2, w2) ==
  /\ KidWanted(fr) /\ d2 = h[d].kids[Len(fr.kids) + 1]
  /\ s2 = fr.at /\ w2 = fr.at + fr.sizes[Len(fr.kids) + 1] - 1

(* The recursion is n levels deep: level l is at the object objs[l], whose *)
(* bytes stand at ats[l], in the window that ends at ends[l].              *)
Trail(h, hp, b, fs, objs, ats, ends, n) ==
  /\ objs[1] = 1 /\ ats[1] = FirstByte /\ ends[1] = Len(b)
  /\ \A l \in 1 .. n : Visited(h, b, objs[l], ats[l], l)
  /\ \A l \in 1 .. Len(fs) : Activated(h, hp, Level(fs, l), objs[l], ats[l])
  /\ \A l \in 1 .. n - 1 :
       Calls(h, Level(fs, l), objs[l], objs[l+1], ats[l+1], ends[l+1])

(* One more level is about to begin, at position s, or the activations are *)
(* all there is.                                                           *)
Entering(h, hp, b, fs, s) ==
  \E objs, ats, ends :
    Trail(h, hp, b, fs, objs, ats, ends, Len(fs) + 1) /\ ats[Len(fs) + 1] = s

Running(h, hp, b, fs) ==
  fs # <<>> /\ \E objs, ats, ends : Trail(h, hp, b, fs, objs, ats, ends, Len(fs))

(* decode() begins at the root.                                            *)
LEMMA TrailBegins ==
  ASSUME NEW h \in CleanDocs, NEW hp
  PROVE  Entering(h, hp, Wire(h, 1), <<>>, FirstByte)
<1>1. /\ WellBuilt(h) /\ Grounded(h) /\ 1 \in DOMAIN h
      /\ Rank(h) \in [DOMAIN h -> 0 .. MaxDepth]
  BY DocFacts
<1>2. 1 \in Below(h, 1)
  BY <1>1, BelowClosed
<1>3. PICK b : b = Wire(h, 1)
  OBVIOUS
<1>4. b \in Seq(Byte) /\ Len(b) \in Nat
  <2>1. b \in Seq(Byte)
    BY <1>1, <1>3, WireOfKids
  <2> QED
    BY <2>1
<1>5. Stands(b, 1, b)
  BY <1>4 DEF Stands
<1>6. Visited(h, b, 1, FirstByte, 1)
  <2>1. Rank(h)[1] + 1 <= MaxDepth + 1
    BY <1>1, DecoderAssumption
  <2> QED
    BY <1>2, <1>3, <1>5, <2>1 DEF Visited, FirstByte
<1>7. PICK objs, ats, ends : /\ objs = [l \in Nat |-> 1] /\ ats = [l \in Nat |-> FirstByte]
                             /\ ends = [l \in Nat |-> Len(b)]
  OBVIOUS
<1>8. objs[1] = 1 /\ ats[1] = FirstByte /\ ends[1] = Len(b)
  BY <1>7
<1>9. PICK fs : fs = <<>> /\ Len(fs) = 0
  BY EmptySeq
<1>10. Trail(h, hp, b, fs, objs, ats, ends, 1)
  BY <1>6, <1>8, <1>9 DEF Trail
<1>11. Len(fs) + 1 = 1
  BY <1>9
<1>12. Entering(h, hp, b, fs, FirstByte)
  BY <1>8, <1>10, <1>11 DEF Entering
<1> QED
  BY <1>3, <1>9, <1>12

(* An activation begins that level.                                        *)
LEMMA TrailPushed ==
  ASSUME NEW h \in CleanDocs, NEW hp, NEW b, NEW fs \in Seq(Activation),
         NEW objs, NEW ats, NEW ends,
         Trail(h, hp, b, fs, objs, ats, ends, Len(fs) + 1),
         NEW fr \in Activation,
         Activated(h, hp, fr, objs[Len(fs) + 1], ats[Len(fs) + 1])
  PROVE  Running(h, hp, b, <<fr>> \o fs)
<1>1. PICK g : g = <<fr>> \o fs
  OBVIOUS
<1>2. /\ Len(g) = Len(fs) + 1 /\ Level(g, Len(fs) + 1) = fr
      /\ \A l \in 1 .. Len(fs) : Level(g, l) = Level(fs, l)
  BY <1>1, LevelPush
<1>3. PICK n \in Nat : n = Len(fs)
  BY LenProperties
<1>4. /\ objs[1] = 1 /\ ats[1] = FirstByte /\ ends[1] = Len(b)
      /\ \A l \in 1 .. n + 1 : Visited(h, b, objs[l], ats[l], l)
      /\ \A l \in 1 .. n : Activated(h, hp, Level(fs, l), objs[l], ats[l])
      /\ \A l \in 1 .. (n + 1) - 1 :
           Calls(h, Level(fs, l), objs[l], objs[l+1], ats[l+1], ends[l+1])
  BY <1>3 DEF Trail
<1>5. /\ Len(g) = n + 1 /\ Level(g, n + 1) = fr
      /\ \A l \in 1 .. n : Level(g, l) = Level(fs, l)
      /\ Activated(h, hp, fr, objs[n + 1], ats[n + 1])
  BY <1>2, <1>3
<1>6. \A l \in 1 .. Len(g) : Activated(h, hp, Level(g, l), objs[l], ats[l])
  <2>1. ASSUME NEW l \in 1 .. n + 1
        PROVE  Activated(h, hp, Level(g, l), objs[l], ats[l])
    <3>1. l \in 1 .. n \/ l = n + 1
      BY <1>3
    <3> QED
      BY <1>4, <1>5, <3>1
  <2> QED
    BY <1>5, <2>1
<1>7. \A l \in 1 .. Len(g) - 1 :
        Calls(h, Level(g, l), objs[l], objs[l+1], ats[l+1], ends[l+1])
  <2>1. ASSUME NEW l \in 1 .. (n + 1) - 1
        PROVE  Calls(h, Level(g, l), objs[l], objs[l+1], ats[l+1], ends[l+1])
    <3>1. l \in 1 .. n
      BY <1>3
    <3> QED
      BY <1>4, <1>5, <3>1
  <2> QED
    BY <1>5, <2>1
<1>8. Trail(h, hp, b, g, objs, ats, ends, Len(g))
  BY <1>4, <1>5, <1>6, <1>7 DEF Trail
<1>9. g # <<>>
  BY <1>5, EmptySeq
<1> QED
  BY <1>1, <1>8, <1>9 DEF Running

(* The top activation, which is at level n,                                *)
LEMMA TopLevel ==
  ASSUME NEW h \in CleanDocs, NEW hp, NEW b, NEW fs \in Seq(Activation), fs # <<>>,
         NEW objs, NEW ats, NEW ends, NEW n, n >= Len(fs), n \in Int,
         Trail(h, hp, b, fs, objs, ats, ends, n)
  PROVE  /\ Visited(h, b, objs[Len(fs)], ats[Len(fs)], Len(fs))
         /\ Activated(h, hp, fs[1], objs[Len(fs)], ats[Len(fs)])
<1>1. Len(fs) \in Nat /\ Len(fs) > 0 /\ fs[1] \in Activation
  BY ElementOfSeq
<1>2. Level(fs, Len(fs)) = fs[1]
  BY <1>1, LevelTop
<1>3. Len(fs) \in 1 .. Len(fs) /\ Len(fs) \in 1 .. n
  BY <1>1
<1> QED
  BY <1>2, <1>3 DEF Trail

(* reads on,                                                               *)
LEMMA TrailAdvanced ==
  ASSUME NEW h \in CleanDocs, NEW hp, NEW b, NEW fs \in Seq(Activation), fs # <<>>,
         NEW objs, NEW ats, NEW ends, NEW n, n >= Len(fs), n \in Int,
         Trail(h, hp, b, fs, objs, ats, ends, n),
         NEW fr \in Activation,
         Activated(h, hp, fr, objs[Len(fs)], ats[Len(fs)]),
         NEW g, Replaced(g, fs, fr)
  PROVE  Running(h, hp, b, g)
<1>2. /\ g \in Seq(Activation) /\ Len(g) = Len(fs) /\ g # <<>> /\ Level(g, Len(fs)) = fr
      /\ \A l \in 1 .. Len(fs) - 1 : Level(g, l) = Level(fs, l)
  BY LevelReplaced
<1>3. PICK m \in Nat : m = Len(fs)
  BY LenProperties
<1>4. /\ objs[1] = 1 /\ ats[1] = FirstByte /\ ends[1] = Len(b)
      /\ \A l \in 1 .. n : Visited(h, b, objs[l], ats[l], l)
      /\ \A l \in 1 .. m : Activated(h, hp, Level(fs, l), objs[l], ats[l])
      /\ \A l \in 1 .. n - 1 :
           Calls(h, Level(fs, l), objs[l], objs[l+1], ats[l+1], ends[l+1])
      /\ m <= n
  BY <1>3 DEF Trail
<1>5. /\ Len(g) = m /\ Level(g, m) = fr
      /\ \A l \in 1 .. m - 1 : Level(g, l) = Level(fs, l)
      /\ Activated(h, hp, fr, objs[m], ats[m])
  BY <1>2, <1>3
<1>6. \A l \in 1 .. Len(g) : Activated(h, hp, Level(g, l), objs[l], ats[l])
  <2>1. ASSUME NEW l \in 1 .. m
        PROVE  Activated(h, hp, Level(g, l), objs[l], ats[l])
    <3>1. l \in 1 .. m - 1 \/ l = m
      BY <1>3
    <3> QED
      BY <1>4, <1>5, <3>1
  <2> QED
    BY <1>5, <2>1
<1>7. \A l \in 1 .. Len(g) - 1 :
        Calls(h, Level(g, l), objs[l], objs[l+1], ats[l+1], ends[l+1])
  <2>1. ASSUME NEW l \in 1 .. m - 1
        PROVE  Calls(h, Level(g, l), objs[l], objs[l+1], ats[l+1], ends[l+1])
    <3>1. l \in 1 .. n - 1
      BY <1>3, <1>4
    <3> QED
      BY <1>4, <1>5, <3>1
  <2> QED
    BY <1>5, <2>1
<1>8. \A l \in 1 .. Len(g) : Visited(h, b, objs[l], ats[l], l)
  <2>1. \A l \in 1 .. m : l \in 1 .. n
    BY <1>3, <1>4
  <2> QED
    BY <1>4, <1>5, <2>1
<1>9. Trail(h, hp, b, g, objs, ats, ends, Len(g))
  BY <1>4, <1>6, <1>7, <1>8 DEF Trail
<1> QED
  BY <1>2, <1>9 DEF Running

(* is left for the level below when it has read all,                       *)
LEMMA TrailPopped ==
  ASSUME NEW h \in CleanDocs, NEW hp, NEW b, NEW fs \in Seq(Activation), fs # <<>>,
         NEW objs, NEW ats, NEW ends,
         Trail(h, hp, b, fs, objs, ats, ends, Len(fs))
  PROVE  /\ Trail(h, hp, b, Tail(fs), objs, ats, ends, Len(Tail(fs)) + 1)
         /\ Len(Tail(fs)) + 1 = Len(fs)
<1>1. PICK g : g = Tail(fs)
  OBVIOUS
<1>2. Len(g) = Len(fs) - 1 /\ \A l \in 1 .. Len(fs) - 1 : Level(g, l) = Level(fs, l)
  BY <1>1, LevelPop
<1>3. PICK m \in Nat : m = Len(fs)
  BY LenProperties
<1>4. /\ objs[1] = 1 /\ ats[1] = FirstByte /\ ends[1] = Len(b)
      /\ \A l \in 1 .. m : Visited(h, b, objs[l], ats[l], l)
      /\ \A l \in 1 .. m : Activated(h, hp, Level(fs, l), objs[l], ats[l])
      /\ \A l \in 1 .. m - 1 :
           Calls(h, Level(fs, l), objs[l], objs[l+1], ats[l+1], ends[l+1])
  BY <1>3 DEF Trail
<1>5. /\ Len(g) = m - 1 /\ \A l \in 1 .. m - 1 : l \in 1 .. m /\ Level(g, l) = Level(fs, l)
      /\ Len(g) + 1 = m /\ (Len(g) + 1) - 1 = m - 1
  BY <1>2, <1>3
<1>6. Trail(h, hp, b, g, objs, ats, ends, m)
  BY <1>4, <1>5 DEF Trail
<1> QED
  BY <1>1, <1>3, <1>5, <1>6

(* or calls itself for an element.                                         *)
LEMMA TrailExtended ==
  ASSUME NEW h \in CleanDocs, NEW hp, NEW b, NEW fs \in Seq(Activation), fs # <<>>,
         NEW objs, NEW ats, NEW ends,
         Trail(h, hp, b, fs, objs, ats, ends, Len(fs)),
         NEW d, NEW s, NEW w, Visited(h, b, d, s, Len(fs) + 1),
         Calls(h, fs[1], objs[Len(fs)], d, s, w)
  PROVE  Entering(h, hp, b, fs, s)
<1>1. Len(fs) \in Nat /\ Len(fs) > 0 /\ Level(fs, Len(fs)) = fs[1]
  <2>1. Len(fs) \in Nat /\ Len(fs) > 0 /\ fs[1] \in Activation
    BY ElementOfSeq
  <2> QED
    BY <2>1, LevelTop
<1>2. PICK m \in Nat : m = Len(fs) /\ m > 0
  BY <1>1
<1>3. /\ objs[1] = 1 /\ ats[1] = FirstByte /\ ends[1] = Len(b)
      /\ \A l \in 1 .. m : Visited(h, b, objs[l], ats[l], l)
      /\ \A l \in 1 .. m : Activated(h, hp, Level(fs, l), objs[l], ats[l])
      /\ \A l \in 1 .. m - 1 :
           Calls(h, Level(fs, l), objs[l], objs[l+1], ats[l+1], ends[l+1])
  BY <1>2 DEF Trail
<1>4. PICK o, a, e : /\ o = [l \in 1 .. m + 1 |-> IF l = m + 1 THEN d ELSE objs[l]]
                     /\ a = [l \in 1 .. m + 1 |-> IF l = m + 1 THEN s ELSE ats[l]]
                     /\ e = [l \in 1 .. m + 1 |-> IF l = m + 1 THEN w ELSE ends[l]]
  OBVIOUS
<1>5. \A l \in 1 .. m : o[l] = objs[l] /\ a[l] = ats[l] /\ e[l] = ends[l]
  BY <1>2, <1>4
<1>6. o[m + 1] = d /\ a[m + 1] = s /\ e[m + 1] = w
  BY <1>2, <1>4
<1>7. o[1] = 1 /\ a[1] = FirstByte /\ e[1] = Len(b)
  BY <1>2, <1>3, <1>5
<1>8. \A l \in 1 .. m + 1 : Visited(h, b, o[l], a[l], l)
  <2>1. ASSUME NEW l \in 1 .. m + 1 PROVE Visited(h, b, o[l], a[l], l)
    <3>1. l \in 1 .. m \/ l = m + 1
      BY <1>2
    <3>2. Visited(h, b, d, s, m + 1)
      BY <1>2
    <3> QED
      BY <1>3, <1>5, <1>6, <3>1, <3>2
  <2> QED
    BY <2>1
<1>9. \A l \in 1 .. m : Activated(h, hp, Level(fs, l), o[l], a[l])
  BY <1>3, <1>5
<1>10. \A l \in 1 .. (m + 1) - 1 : Calls(h, Level(fs, l), o[l], o[l+1], a[l+1], e[l+1])
  <2>1. ASSUME NEW l \in 1 .. (m + 1) - 1
        PROVE  Calls(h, Level(fs, l), o[l], o[l+1], a[l+1], e[l+1])
    <3>1. l \in 1 .. m /\ ((l + 1 \in 1 .. m /\ l \in 1 .. m - 1) \/ l = m)
      BY <1>2
    <3>2. CASE l = m
      <4>1. Calls(h, Level(fs, l), objs[l], d, s, w)
        BY <1>1, <1>2, <3>2
      <4> QED
        BY <1>5, <1>6, <3>1, <3>2, <4>1
    <3>3. CASE l # m
      BY <1>3, <1>5, <3>1, <3>3
    <3> QED
      BY <3>2, <3>3
  <2> QED
    BY <2>1
<1>11. Trail(h, hp, b, fs, o, a, e, m + 1)
  BY <1>2, <1>7, <1>8, <1>9, <1>10 DEF Trail
<1> QED
  BY <1>2, <1>6, <1>11 DEF Entering

(* Objects made later change nothing.                                      *)
Keeps(hp, g) ==
  \A d \in DOMAIN hp : d \in DOMAIN g /\ Wire(g, d) = Wire(hp, d) /\ Tree(g, d) = Tree(hp, d)

LEMMA TrailKept ==
  ASSUME NEW h, NEW hp, NEW b, NEW fs, NEW objs, NEW ats, NEW ends, NEW n,
         Trail(h, hp, b, fs, objs, ats, ends, n), NEW g, Keeps(hp, g)
  PROVE  Trail(h, g, b, fs, objs, ats, ends, n)
<1>1. ASSUME NEW l \in 1 .. Len(fs)
      PROVE  Activated(h, g, Level(fs, l), objs[l], ats[l])
  <2>1. Activated(h, hp, Level(fs, l), objs[l], ats[l])
    BY DEF Trail
  <2>2. FrameAt(hp, Level(fs, l), h[objs[l]], KidBytes(h, objs[l]), ats[l])
    BY <2>1 DEF Activated
  <2>3. FrameAt(g, Level(fs, l), h[objs[l]], KidBytes(h, objs[l]), ats[l])
    BY <2>2, FrameKeptInHeap DEF Keeps
  <2>4. \A k \in 1 .. Len(Level(fs, l).kids) : Level(fs, l).kids[k] \in DOMAIN hp
    BY <2>2 DEF FrameAt, ReadSoFar
  <2>5. SameKids(h, g, Level(fs, l), objs[l])
    BY <2>1, <2>4 DEF Activated, SameKids, Keeps
  <2> QED
    BY <2>1, <2>3, <2>5 DEF Activated
<1> QED
  BY <1>1 DEF Trail

-----------------------------------------------------------------------------
(* Where a level begins stands the code of the type of its object,         *)
LEMMA TagThere ==
  ASSUME NEW h \in CleanDocs, NEW b \in Seq(Byte), NEW d, NEW s, NEW l \in Nat,
         Visited(h, b, d, s, l)
  PROVE  /\ d \in Below(h, 1) /\ h[d] \in Data /\ HasTypeCode(h[d]) /\ h[d].type # "I8"
         /\ s \in Nat \ {0} /\ s \in DOMAIN b /\ b[s] = TypeCode[h[d].type]
         /\ h[d].type \in CompositeTypes => l <= MaxDepth
<1>1. /\ d \in Below(h, 1) /\ s \in Int /\ Stands(b, s, Wire(h, d))
      /\ Rank(h)[d] + l <= MaxDepth + 1
  BY DEF Visited
<1>2. h[d] \in Data /\ d \in DOMAIN h
  BY <1>1, ObjectFacts
<1>4. /\ h[d].type # "I8" /\ Wire(h, d) \in Seq(Byte) /\ Len(Wire(h, d)) > 0
      /\ Wire(h, d)[1] = TypeCode[h[d].type] /\ HasTypeCode(h[d])
  BY <1>1, WireStarts
<1>5. PICK w \in Seq(Byte) : w = Wire(h, d)
  BY <1>4
<1>6. Len(w) \in Nat /\ 1 \in 1 .. Len(w) /\ s > 0 /\ s - 1 + Len(w) <= Len(b) /\ b[s - 1 + 1] = w[1]
  BY <1>1, <1>4, <1>5 DEF Stands
<1>7. s \in Nat \ {0} /\ s \in DOMAIN b /\ s - 1 + 1 = s
  BY <1>1, <1>6
<1>8. b[s] = TypeCode[h[d].type]
  BY <1>4, <1>5, <1>6, <1>7
<1>9. h[d].type \in CompositeTypes => l <= MaxDepth
  <2>1. h[d].type \in CompositeTypes => Rank(h)[d] > 0
    BY <1>2, DocFacts
  <2>2. Rank(h)[d] \in Int
    BY <1>2, DocFacts
  <2> QED
    BY <1>1, <2>1, <2>2, DecoderAssumption
<1> QED
  BY <1>1, <1>2, <1>4, <1>7, <1>8, <1>9

(* behind it what follows the type,                                        *)
LEMMA TagLength ==
  ASSUME NEW h, NEW d, h[d] \in Data, HasTypeCode(h[d]), h[d].type # "I8",
         NEW r \in Seq(Byte), Wire(h, d) = TypeEncoding(h[d]) \o r
  PROVE  Len(Wire(h, d)) = 1 + Len(r) /\ Len(r) \in Nat
<1>1. PICK t : t = TypeEncoding(h[d])
  OBVIOUS
<1>2. t \in Seq(Byte) /\ Len(t) = 1
  BY <1>1, TagByte
<1>3. \A u, w \in Seq(Byte) : Len(u \o w) = Len(u) + Len(w) /\ Len(w) \in Nat
  BY ConcatProperties
<1>4. Len(t \o r) = 1 + Len(r) /\ Len(r) \in Nat
  BY <1>2, <1>3
<1> QED
  BY <1>1, <1>4

LEMMA RestThere ==
  ASSUME NEW h \in CleanDocs, NEW b \in Seq(Byte), NEW d, NEW s, NEW l \in Nat,
         Visited(h, b, d, s, l), NEW r \in Seq(Byte),
         Wire(h, d) = TypeEncoding(h[d]) \o r
  PROVE  s + 1 \in Nat \ {0} /\ Stands(b, s + 1, r)
<1>1. h[d] \in Data /\ HasTypeCode(h[d]) /\ h[d].type # "I8" /\ s \in Nat \ {0}
  BY TagThere
<1>2. PICK t : t = TypeEncoding(h[d])
  OBVIOUS
<1>3. t \in Seq(Byte) /\ Len(t) = 1
  BY <1>1, <1>2, TagByte
<1>4. Stands(b, s, t \o r)
  BY <1>2 DEF Visited
<1>5. Stands(b, s + Len(t), r)
  <2>1. s \in Int
    BY <1>1
  <2> QED
    BY <1>3, <1>4, <2>1, StandsParts
<1> QED
  BY <1>1, <1>3, <1>5

(* for a number its value,                                                 *)
NumberAt(h, b, d, s) ==
  /\ VarintReadable(b, s + 1) /\ VarintEnd(b, s + 1) + 1 = s + Len(Wire(h, d))
  /\ \E v \in Int : /\ v = VariantDecoder(b, s + 1) /\ h[d].value = <<v>>
                     /\ \A c : ObjectBytes(Primitive(h[d].type, <<v>>), c) = Wire(h, d)

LEMMA NumberLeaf ==
  ASSUME NEW h \in CleanDocs, NEW b \in Seq(Byte), NEW d, NEW s, NEW l \in Nat,
         Visited(h, b, d, s, l), h[d].type \in NumberTypes
  PROVE  NumberAt(h, b, d, s)
<1>1. /\ h[d] \in Data /\ HasTypeCode(h[d]) /\ h[d].type # "I8"
      /\ s \in Nat \ {0} /\ d \in Below(h, 1)
  BY TagThere
<1>2. PICK x : x = h[d]
  OBVIOUS
<1>3. /\ CarriedObject(h, x) /\ NumbersFit(h, d) /\ Wire(h, d) = ObjectBytes(x, KidBytes(h, d))
      /\ x \in Data /\ x.type \in NumberTypes
  BY <1>1, <1>2, ObjectFacts
<1>4. Len(x.value) = 1 /\ SurvivesVarint(x.value[1]) /\ x.value \in Seq(Int)
  <2>1. x.type # "I8" /\ Len(x.value) = 1 /\ SurvivesVarint(x.value[1])
    <3>1. CarriedObject(h, x) /\ x.type \in NumberTypes
          /\ x.type # "STRING" /\ x.type \notin CompositeTypes
      BY <1>3 DEF NumberTypes, CompositeTypes
    <3> QED
      BY <3>1 DEF CarriedObject
  <2> QED
    BY <1>3, <2>1 DEF Data
<1>5. x.value # <<>> /\ 1 \in DOMAIN x.value /\ x.value[1] \in Int
  BY <1>4, EmptySeq
<1>6. PICK v : v = x.value[1]
  OBVIOUS
<1>7. v \in Nat /\ v > 0 /\ SurvivesVarint(v) /\ InRange(v)
  <2>1. InRange(v)
    BY <1>2, <1>3, <1>5, <1>6 DEF NumbersFit
  <2>2. v > 0
    BY <1>4, <1>6 DEF SurvivesVarint
  <2> QED
    BY <1>4, <1>5, <1>6, <2>1, <2>2
<1>8. PICK e : e = VarientEncoding(v)
  OBVIOUS
<1>9. e \in Seq(Byte)
  BY <1>7, <1>8, VarientEncodingType
<1>10. Wire(h, d) = TypeEncoding(h[d]) \o e
  BY <1>2, <1>3, <1>5, <1>6, <1>8, NumberBytes
<1>11. /\ s + 1 \in Nat \ {0} /\ Stands(b, s + 1, e)
       /\ s + Len(Wire(h, d)) = s + 1 + Len(e)
  <2>1. PICK r \in Seq(Byte) : r = e
    BY <1>9
  <2>2. Wire(h, d) = TypeEncoding(h[d]) \o r
    BY <1>10, <2>1
  <2>3. s + 1 \in Nat \ {0} /\ Stands(b, s + 1, r)
    BY <2>2, RestThere
  <2>4. Len(Wire(h, d)) = 1 + Len(r) /\ Len(r) \in Nat
    BY <1>1, <2>2, TagLength
  <2>5. s + (1 + Len(r)) = s + 1 + Len(r)
    BY <1>1, <2>4
  <2> QED
    BY <2>1, <2>3, <2>4, <2>5
<1>12. /\ VarintReadable(b, s + 1) /\ VariantDecoder(b, s + 1) = v
       /\ VarintEnd(b, s + 1) + 1 = s + Len(Wire(h, d))
  <2>1. v < Radix * Weight[MaxGroups - 1]
    BY <1>7 DEF InRange
  <2>2. Stands(b, s + 1, VarientEncoding(v))
    BY <1>8, <1>11
  <2> QED
    BY <1>7, <1>8, <1>11, <2>1, <2>2, ReadBack
<1>13. ASSUME NEW c PROVE ObjectBytes(Primitive(x.type, <<v>>), c) = Wire(h, d)
  <2>1. PICK y : y = Primitive(x.type, <<v>>)
    OBVIOUS
  <2>2. y.type = x.type /\ y.value = <<v>>
    BY <2>1 DEF Primitive
  <2>3. y.value # <<>> /\ y.value[1] = v
    BY <2>2
  <2>4. TypeEncoding(y) = TypeEncoding(x)
    BY <2>2, Zenon DEF TypeEncoding
  <2>5. ObjectBytes(y, c) = TypeEncoding(y) \o VarientEncoding(y.value[1])
    BY <1>3, <2>2, <2>3, NumberBytes, ZenonT(30)
  <2> QED
    BY <1>2, <1>8, <1>10, <2>1, <2>3, <2>4, <2>5
<1>14. v \in Int /\ \A c : ObjectBytes(Primitive(h[d].type, <<v>>), c) = Wire(h, d)
  BY <1>2, <1>7, <1>13
<1>15. h[d].value = <<v>>
  BY <1>2, <1>4, <1>6
<1> QED
  BY <1>12, <1>14, <1>15 DEF NumberAt

(* for a STRING its length and characters.                                 *)
StringAt(h, b, d, s) ==
  LET value  == VariantDecoder(b, s + 1)
      behind == VarintEnd(b, s + 1) + 1
  IN  /\ VarintReadable(b, s + 1) /\ value \in Nat /\ behind \in Nat
      /\ behind + value - 1 <= Len(b) /\ behind + value = s + Len(Wire(h, d))
      /\ h[d].value = SubSeq(b, behind, behind + value - 1)
      /\ \A c : ObjectBytes(NewString(SubSeq(b, behind, behind + value - 1)), c)
                  = Wire(h, d)

LEMMA StringLeaf ==
  ASSUME NEW h \in CleanDocs, NEW b \in Seq(Byte), NEW d, NEW s, NEW l \in Nat,
         Visited(h, b, d, s, l), h[d].type = "STRING"
  PROVE  StringAt(h, b, d, s)
<1>1. /\ h[d] \in Data /\ HasTypeCode(h[d]) /\ h[d].type # "I8"
      /\ s \in Nat \ {0} /\ d \in Below(h, 1)
  BY TagThere
<1>2. PICK x : x = h[d]
  OBVIOUS
<1>3. /\ CarriedObject(h, x) /\ NumbersFit(h, d) /\ Wire(h, d) = ObjectBytes(x, KidBytes(h, d))
      /\ d \in DOMAIN h
  BY <1>1, <1>2, ObjectFacts
<1>4. PICK text : text = x.value
  OBVIOUS
<1>5. text \in Seq(Byte) /\ SurvivesVarint(Len(text)) /\ InRange(Len(text))
  <2>1. text \in Seq(Byte)
    BY <1>2, <1>3, <1>4, DocFacts DEF WellBuilt
  <2>2. x.type = "STRING" /\ x.type \notin NumberTypes /\ x.type \notin CompositeTypes
    BY <1>2 DEF NumberTypes, CompositeTypes
  <2>3. SurvivesVarint(Len(text))
    BY <1>3, <1>4, <2>2 DEF CarriedObject
  <2>4. Len(text) \in Nat /\ Fits(Len(text))
    BY <1>2, <1>3, <1>4, <2>1 DEF NumbersFit, Fits
  <2> QED
    BY <2>1, <2>3, <2>4, FitsInt
<1>6. PICK r : r = VarientEncoding(Len(text)) \o text
  OBVIOUS
<1>7. r \in Seq(Byte)
  <2>1. Len(text) \in Nat
    BY <1>5
  <2>2. VarientEncoding(Len(text)) \in Seq(Byte)
    BY <2>1, VarientEncodingType
  <2> QED
    BY <1>5, <1>6, <2>2, ConcatProperties
<1>8. Wire(h, d) = TypeEncoding(h[d]) \o r
  BY <1>2, <1>3, <1>4, <1>6, StringBytes
<1>9. /\ s + 1 \in Nat \ {0} /\ Stands(b, s + 1, r)
      /\ s + Len(Wire(h, d)) = s + 1 + Len(r)
  <2>1. s + 1 \in Nat \ {0} /\ Stands(b, s + 1, r)
    BY <1>7, <1>8, RestThere
  <2>2. Len(Wire(h, d)) = 1 + Len(r) /\ Len(r) \in Nat
    BY <1>1, <1>7, <1>8, TagLength
  <2>3. s + (1 + Len(r)) = s + 1 + Len(r)
    BY <1>1, <2>2
  <2> QED
    BY <2>1, <2>2, <2>3
<1>10. Stands(b, s + 1, VarientEncoding(Len(text)) \o text)
  BY <1>6, <1>9
<1>11. LET value  == VariantDecoder(b, s + 1)
           behind == VarintEnd(b, s + 1) + 1
       IN  /\ VarintReadable(b, s + 1) /\ value \in Nat /\ value > 0 /\ behind \in Nat
           /\ behind + value - 1 <= Len(b)
           /\ SubSeq(b, behind, behind + value - 1) = text
           /\ behind + value = s + 1 + Len(VarientEncoding(Len(text)) \o text)
  BY <1>5, <1>9, <1>10, TextThere
<1>12. ASSUME NEW c PROVE ObjectBytes(NewString(text), c) = Wire(h, d)
  <2>1. PICK y : y = NewString(text)
    OBVIOUS
  <2>2. y.type = "STRING" /\ y.value = text
    BY <2>1 DEF NewString, Primitive
  <2>3. TypeEncoding(y) = TypeEncoding(x)
    BY <1>2, <2>2, Zenon DEF TypeEncoding
  <2>4. ObjectBytes(y, c) = TypeEncoding(y) \o (VarientEncoding(Len(y.value)) \o y.value)
    BY <2>2, StringBytes
  <2> QED
    BY <1>2, <1>6, <1>8, <2>1, <2>2, <2>3, <2>4
<1>13. h[d].value = text
  BY <1>2, <1>4
<1>14. s + 1 + Len(VarientEncoding(Len(text)) \o text) = s + Len(Wire(h, d))
  BY <1>6, <1>9
<1> QED
  BY <1>11, <1>12, <1>13, <1>14, Zenon DEF StringAt

-----------------------------------------------------------------------------
(* What holds of every state of the decoder, whatever the bytes.           *)
Sound == TypeInv /\ IInv /\ BuildInv

(* Its heap is well built and without a cycle, as a document is.           *)
LEMMA SoundHeap ==
  ASSUME NEW hp, HeapBuilt(hp), Acyclic(hp)
  PROVE  WellBuilt(hp) /\ Grounded(hp) /\ hp \in Seq(Data)
BY DEF HeapBuilt, WellBuilt, Acyclic, Grounded

(* One more object: those before it keep their bytes, and it has its own.  *)
LEMMA HeapGrown ==
  ASSUME Sound, Sound', NEW d \in Data, d.kids \in Seq(1 .. Len(heap)),
         heap' = Append(heap, d)
  PROVE  /\ Keeps(heap, heap') /\ NewPtr \in DOMAIN heap'
         /\ Wire(heap', NewPtr) = ObjectBytes(d, [k \in DOMAIN d.kids |-> Wire(heap, d.kids[k])])
         /\ Tree(heap', NewPtr) = TreeOf(d, [k \in DOMAIN d.kids |-> Tree(heap, d.kids[k])])
<1>1. WellBuilt(heap) /\ Grounded(heap) /\ heap \in Seq(Data)
  <2>1. HeapBuilt(heap) /\ Acyclic(heap)
    BY DEF Sound, BuildInv, IInv, HeapInv
  <2> QED
    BY <2>1, SoundHeap
<1>2. WellBuilt(heap') /\ Grounded(heap')
  <2>1. HeapBuilt(heap') /\ Acyclic(heap')
    BY DEF Sound, BuildInv, IInv, HeapInv
  <2> QED
    BY <2>1, SoundHeap
<1>3. /\ Len(heap') = Len(heap) + 1 /\ Len(heap) \in Nat
      /\ DOMAIN heap = 1 .. Len(heap) /\ DOMAIN heap' = 1 .. Len(heap')
      /\ \A e \in 1 .. Len(heap) : heap'[e] = heap[e]
      /\ heap'[Len(heap) + 1] = d
  BY <1>1, AppendProperties
<1>4. DOMAIN heap \subseteq DOMAIN heap' /\ \A e \in DOMAIN heap : heap'[e] = heap[e]
  BY <1>3
<1>5. \A e \in DOMAIN heap : Wire(heap', e) = Wire(heap, e) /\ Tree(heap', e) = Tree(heap, e)
  BY <1>1, <1>2, <1>4, WireExtended, TreeExtended
<1>6. PICK ptr : ptr = NewPtr
  OBVIOUS
<1>7. ptr \in DOMAIN heap' /\ heap'[ptr] = d
  BY <1>3, <1>6 DEF NewPtr
<1>8. Wire(heap', ptr) = ObjectBytes(d, KidBytes(heap', ptr))
  <2>1. Wire(heap', ptr) = ObjectBytes(heap'[ptr], KidBytes(heap', ptr))
    BY <1>2, <1>7, KidBytesType
  <2> QED
    BY <1>7, <2>1
<1>9. KidBytes(heap', ptr) = [k \in DOMAIN d.kids |-> Wire(heap, d.kids[k])]
  <2>1. \A k \in DOMAIN d.kids : Wire(heap', d.kids[k]) = Wire(heap, d.kids[k])
    <3>1. ASSUME NEW k \in DOMAIN d.kids PROVE d.kids[k] \in DOMAIN heap
      BY <1>3
    <3> QED
      BY <1>5, <3>1
  <2> QED
    BY <1>7, <2>1, Zenon DEF KidBytes
<1>10. Tree(heap', ptr) = TreeOf(d, KidTrees(heap', ptr))
  <2>1. Tree(heap', ptr) = TreeOf(heap'[ptr], KidTrees(heap', ptr))
    BY <1>2, <1>7, TreeOfKids
  <2> QED
    BY <1>7, <2>1
<1>11. KidTrees(heap', ptr) = [k \in DOMAIN d.kids |-> Tree(heap, d.kids[k])]
  <2>1. \A k \in DOMAIN d.kids : Tree(heap', d.kids[k]) = Tree(heap, d.kids[k])
    <3>1. ASSUME NEW k \in DOMAIN d.kids PROVE d.kids[k] \in DOMAIN heap
      BY <1>3
    <3> QED
      BY <1>5, <3>1
  <2> QED
    BY <1>7, <2>1, Zenon DEF KidTrees
<1>12. Keeps(heap, heap')
  BY <1>4, <1>5 DEF Keeps
<1> QED
  BY <1>6, <1>7, <1>8, <1>9, <1>10, <1>11, <1>12

(* On the bytes of the document h.                                         *)
OnDocument(h) ==
  /\ pc = "enter" => Entering(h, heap, bytes, frames, call)
  /\ pc = "frame" => Running(h, heap, bytes, frames)

Outcome(h) ==
  /\ pc \notin {"threw", "undefined"}
  /\ pc = "returned" => /\ schema \in DOMAIN heap /\ Wire(heap, schema) = bytes
                         /\ Tree(heap, schema) = Tree(h, 1)

CleanInv == \A h \in CleanDocs : bytes = Wire(h, 1) => OnDocument(h) /\ Outcome(h)

(* Every object is like one of the document, but for what it points to,    *)
(* and holds its last element once.                                        *)
Alike(x, y) ==
  /\ x.type = y.type /\ x.value = y.value /\ x.names = y.names
  /\ Len(x.kids) = Len(y.kids) /\ ~ LastChildTwice(x)

AlikeTo(h, hp) == \A e \in DOMAIN hp : \E d \in DOMAIN h : Alike(hp[e], h[d])

(* Objects of the same tree                                                *)
LEMMA SameTreeOf ==
  ASSUME NEW x, NEW t, NEW y, NEW u, TreeOf(x, t) = TreeOf(y, u)
  PROVE  x.type = y.type /\ x.value = y.value /\ x.names = y.names /\ t = u
<1>1. /\ TreeOf(x, t).type = x.type /\ TreeOf(x, t).value = x.value
      /\ TreeOf(x, t).names = x.names /\ TreeOf(x, t).kids = t
  BY DEF TreeOf
<1>2. /\ TreeOf(y, u).type = y.type /\ TreeOf(y, u).value = y.value
      /\ TreeOf(y, u).names = y.names /\ TreeOf(y, u).kids = u
  BY DEF TreeOf
<1> QED
  BY <1>1, <1>2

(* are alike.                                                              *)
LEMMA SameTreeAlike ==
  ASSUME NEW h \in CleanDocs, NEW e \in DOMAIN h, NEW hp, NEW x \in Data,
         TreeOf(x, [k \in DOMAIN x.kids |-> Tree(hp, x.kids[k])]) = Tree(h, e),
         ~ LastChildTwice(x)
  PROVE  Alike(x, h[e])
<1>1. WellBuilt(h) /\ Grounded(h)
  BY DocFacts
<1>2. Tree(h, e) = TreeOf(h[e], KidTrees(h, e))
  BY <1>1, TreeOfKids
<1>3. PICK t : t = [k \in DOMAIN x.kids |-> Tree(hp, x.kids[k])]
  OBVIOUS
<1>4. /\ x.type = h[e].type /\ x.value = h[e].value /\ x.names = h[e].names
      /\ t = KidTrees(h, e)
  BY <1>2, <1>3, SameTreeOf
<1>5. DOMAIN t = DOMAIN x.kids /\ DOMAIN KidTrees(h, e) = DOMAIN h[e].kids
  BY <1>3 DEF KidTrees
<1>6. Len(x.kids) = Len(h[e].kids)
  <2>1. x.kids \in Seq(Nat)
    BY DEF Data
  <2>2. Len(x.kids) \in Nat /\ DOMAIN x.kids = 1 .. Len(x.kids)
    BY <2>1
  <2>3. Len(h[e].kids) \in Nat /\ DOMAIN h[e].kids = 1 .. Len(h[e].kids)
    BY <1>1, KidsTyped
  <2>4. 1 .. Len(x.kids) = 1 .. Len(h[e].kids)
    BY <1>4, <1>5, <2>2, <2>3
  <2> QED
    BY <2>2, <2>3, <2>4
<1> QED
  BY <1>4, <1>6 DEF Alike

(* An element is returned that is the element of the document whose level  *)
(* ends.                                                                   *)
LEMMA DeliverClean ==
  ASSUME Sound, Sound', NEW h \in CleanDocs, bytes = Wire(h, 1),
         NEW below \in Seq(Activation), NEW objs, NEW ats, NEW ends,
         Trail(h, heap, bytes, below, objs, ats, ends, Len(below) + 1),
         NEW d \in Data, d.kids \in Seq(1 .. Len(heap)),
         ObjectBytes(d, [k \in DOMAIN d.kids |-> Wire(heap, d.kids[k])])
           = Wire(h, objs[Len(below) + 1]),
         TreeOf(d, [k \in DOMAIN d.kids |-> Tree(heap, d.kids[k])])
           = Tree(h, objs[Len(below) + 1]),
         ~ LastChildTwice(d), Deliver(d, below)
  PROVE  /\ OnDocument(h)' /\ Outcome(h)'
         /\ AlikeTo(h, heap) => AlikeTo(h, heap')
<1>1. heap' = Append(heap, d) /\ UNCHANGED bytes
  BY DEF Deliver, Hand
<1>2. /\ Keeps(heap, heap') /\ NewPtr \in DOMAIN heap'
      /\ Wire(heap', NewPtr) = Wire(h, objs[Len(below) + 1])
      /\ Tree(heap', NewPtr) = Tree(h, objs[Len(below) + 1])
  BY <1>1, HeapGrown
<1>3. Trail(h, heap', bytes, below, objs, ats, ends, Len(below) + 1)
  BY <1>2, TrailKept
<1>4. Len(below) \in Nat
  BY LenProperties
<1>7. AlikeTo(h, heap) => AlikeTo(h, heap')
  <2>1. SUFFICES ASSUME AlikeTo(h, heap), NEW e \in DOMAIN heap'
                 PROVE  \E x \in DOMAIN h : Alike(heap'[e], h[x])
    BY DEF AlikeTo
  <2>2. heap \in Seq(Data)
    BY DEF Sound, TypeInv, TypeOK
  <2>3. CASE e \in DOMAIN heap
    <3>1. heap'[e] = heap[e]
      BY <1>1, <2>2, <2>3, AppendProperties
    <3> QED
      BY <2>1, <2>3, <3>1 DEF AlikeTo
  <2>4. CASE e \notin DOMAIN heap
    <3>1. heap'[e] = d
      <4>1. /\ Len(heap') = Len(heap) + 1 /\ Len(heap) \in Nat
            /\ DOMAIN heap = 1 .. Len(heap) /\ DOMAIN heap' = 1 .. Len(heap')
            /\ heap'[Len(heap) + 1] = d
        BY <1>1, <2>2, AppendProperties
      <4>2. e = Len(heap) + 1
        BY <2>4, <4>1
      <4> QED
        BY <4>1, <4>2
    <3>2. PICK x : x = objs[Len(below) + 1]
      OBVIOUS
    <3>3. x \in DOMAIN h
      <4>1. Len(below) + 1 \in 1 .. Len(below) + 1
        BY <1>4
      <4>2. x \in Below(h, 1)
        BY <3>2, <4>1 DEF Trail, Visited
      <4> QED
        BY <4>2, ObjectFacts
    <3>4. Alike(d, h[x])
      BY <3>2, <3>3, SameTreeAlike
    <3> QED
      BY <3>1, <3>3, <3>4
  <2> QED
    BY <2>3, <2>4
<1>5. CASE below = <<>>
  <2>1. schema' = NewPtr /\ pc' = "returned"
    BY <1>5 DEF Deliver, Hand
  <2>2. objs[Len(below) + 1] = 1
    <3>1. Len(below) = 0
      BY <1>5, EmptySeq
    <3>2. objs[1] = 1
      BY DEF Trail
    <3> QED
      BY <3>1, <3>2
  <2> QED
    BY <1>1, <1>2, <1>7, <2>1, <2>2 DEF OnDocument, Outcome
<1>6. CASE below # <<>>
  <2>1. PICK fr, x, g, l : /\ fr = below[1] /\ g = WithElement(below[1], NewPtr)
                           /\ l = Len(below) /\ x = objs[Len(below)]
    OBVIOUS
  <2>2. frames' = [below EXCEPT ![1] = g] /\ pc' = "frame"
    BY <1>6, <2>1, Zenon DEF Deliver, Hand
  <2>3. l \in Nat /\ l > 0 /\ fr \in Activation
    BY <1>6, <2>1, ElementOfSeq
  <2>4. /\ Visited(h, bytes, x, ats[l], l) /\ Activated(h, heap', fr, x, ats[l])
        /\ Activated(h, heap, fr, x, ats[l])
    <3>1. Len(below) + 1 >= Len(below) /\ Len(below) + 1 \in Int
      BY <1>4
    <3> QED
      BY <1>3, <1>6, <2>1, <3>1, TopLevel
  <2>5. /\ KidWanted(fr) /\ objs[l + 1] = h[x].kids[Len(fr.kids) + 1]
    <3>1. l \in 1 .. (l + 1) - 1 /\ Level(below, l) = fr
      BY <1>6, <2>1, <2>3, LevelTop
    <3> QED
      BY <2>1, <3>1 DEF Trail, Calls
  <2>6. FrameAt(heap', fr, h[x], KidBytes(h, x), ats[l]) /\ ats[l] \in Int /\ x \in Below(h, 1)
    BY <2>4 DEF Visited, Activated
  <2>7. Wire(heap', NewPtr) = KidBytes(h, x)[Len(fr.kids) + 1]
    <3>1. Len(fr.kids) + 1 \in 1 .. Len(h[x].kids)
      <4>1. Len(fr.kids) < Len(KidBytes(h, x))
        BY <2>5, <2>6, NextIsKid
      <4>2. Len(fr.kids) \in Nat /\ Len(KidBytes(h, x)) = Len(h[x].kids) /\ Len(h[x].kids) \in Nat
        BY <2>6, FrameAtTyped
      <4> QED
        BY <4>1, <4>2
    <3>2. KidBytes(h, x)[Len(fr.kids) + 1] = Wire(h, h[x].kids[Len(fr.kids) + 1])
      BY <2>6, <3>1, ObjectFacts
    <3> QED
      BY <1>2, <2>1, <2>5, <3>2
  <2>8. g \in Activation
    <3>1. frames' \in Seq(Activation)
      BY DEF Sound, TypeInv, TypeOK
    <3>2. 1 \in 1 .. Len(below) /\ Len(frames') = Len(below) /\ frames'[1] = g
      BY <2>1, <2>2, <2>3
    <3> QED
      BY <3>1, <3>2, ElementOfSeq
  <2>9. MovedOn(g, fr, fr.numofFields, fr.names, fr.sizes, Append(fr.kids, NewPtr),
                BehindElement(fr, fr.sizes[Len(fr.kids) + 1]))
    <3> DEFINE kids == Append(fr.kids, NewPtr)
               at   == BehindElement(fr, fr.sizes[Len(fr.kids) + 1])
    <3>1. g = [fr EXCEPT !.kids = kids, !.at = at]
      BY <2>1, Zenon DEF WithElement
    <3> HIDE DEF kids, at
    <3>2. /\ g.type = fr.type /\ g.charBytes = fr.charBytes /\ g.numofFields = fr.numofFields
          /\ g.names = fr.names /\ g.sizes = fr.sizes /\ g.kids = kids /\ g.at = at
      BY <2>3, <3>1 DEF Activation
    <3> QED
      BY <2>8, <3>2 DEF MovedOn, kids, at
  <2>10. FrameAt(heap', g, h[x], KidBytes(h, x), ats[l])
    BY <1>2, <2>5, <2>6, <2>7, <2>9, KidTaken
  <2>13. SameKids(h, heap', g, x)
    <3>1. PICK kids : kids = Append(fr.kids, NewPtr)
      OBVIOUS
    <3>2. g.kids = kids /\ fr.kids \in Seq(Nat) /\ NewPtr \in Nat
      <4>1. heap \in Seq(Data)
        BY DEF Sound, TypeInv, TypeOK
      <4> QED
        BY <2>3, <2>9, <3>1, <4>1 DEF MovedOn, Activation, NewPtr
    <3>3. /\ Len(kids) = Len(fr.kids) + 1 /\ Len(fr.kids) \in Nat
          /\ \A k \in 1 .. Len(fr.kids) : kids[k] = fr.kids[k]
          /\ kids[Len(fr.kids) + 1] = NewPtr
      BY <3>1, <3>2, AppendProperties
    <3>4. \A k \in 1 .. Len(fr.kids) : Tree(heap', fr.kids[k]) = Tree(h, h[x].kids[k])
      BY <2>4 DEF Activated, SameKids
    <3>5. Tree(heap', NewPtr) = Tree(h, h[x].kids[Len(fr.kids) + 1])
      BY <1>2, <2>1, <2>5
    <3>6. ASSUME NEW k \in 1 .. Len(kids)
          PROVE  Tree(heap', kids[k]) = Tree(h, h[x].kids[k])
      <4>1. k \in 1 .. Len(fr.kids) \/ k = Len(fr.kids) + 1
        BY <3>3
      <4> QED
        BY <3>3, <3>4, <3>5, <4>1
    <3> QED
      BY <3>2, <3>6 DEF SameKids
  <2>14. Rising(g.kids)
    <3>1. PICK kids : kids = Append(fr.kids, NewPtr)
      OBVIOUS
    <3>2. /\ g.kids = kids /\ fr.kids \in Seq(Nat) /\ NewPtr = Len(heap) + 1
          /\ Len(heap) \in Nat /\ DOMAIN heap = 1 .. Len(heap)
      <4>1. heap \in Seq(Data)
        BY DEF Sound, TypeInv, TypeOK
      <4> QED
        BY <2>3, <2>9, <3>1, <4>1 DEF MovedOn, Activation, NewPtr
    <3>3. /\ Len(kids) = Len(fr.kids) + 1 /\ Len(fr.kids) \in Nat
          /\ \A k \in 1 .. Len(fr.kids) : kids[k] = fr.kids[k]
          /\ kids[Len(fr.kids) + 1] = NewPtr
      <4>1. NewPtr \in Nat
        BY <3>2
      <4> QED
        BY <3>1, <3>2, <4>1, AppendProperties
    <3>4. \A k \in 1 .. Len(fr.kids) : fr.kids[k] \in 1 .. Len(heap)
      BY <2>4, <3>2 DEF Activated, FrameAt, ReadSoFar
    <3>5. \A j, k \in 1 .. Len(fr.kids) : j < k => fr.kids[j] < fr.kids[k]
      BY <2>4 DEF Activated, Rising
    <3>6. ASSUME NEW j \in 1 .. Len(kids), NEW k \in 1 .. Len(kids), j < k
          PROVE  kids[j] < kids[k]
      <4>1. j \in 1 .. Len(fr.kids) /\ (k \in 1 .. Len(fr.kids) \/ k = Len(fr.kids) + 1)
        BY <3>3, <3>6
      <4>2. CASE k \in 1 .. Len(fr.kids)
        BY <3>3, <3>5, <3>6, <4>1, <4>2
      <4>3. CASE k = Len(fr.kids) + 1
        <5>1. kids[j] = fr.kids[j] /\ kids[k] = Len(heap) + 1
          BY <3>2, <3>3, <4>1, <4>3
        <5>2. fr.kids[j] \in Nat /\ fr.kids[j] <= Len(heap)
          BY <3>4, <4>1
        <5> QED
          BY <3>2, <5>1, <5>2
      <4> QED
        BY <4>1, <4>2, <4>3
    <3> QED
      BY <3>2, <3>6 DEF Rising
  <2>11. Activated(h, heap', g, x, ats[l])
    BY <2>10, <2>13, <2>14 DEF Activated
  <2>12. Running(h, heap', bytes, frames')
    <3>1. Replaced(frames', below, g)
      BY <2>2 DEF Replaced
    <3>2. Len(below) + 1 >= Len(below) /\ Len(below) + 1 \in Int
      BY <1>4
    <3> QED
      BY <1>3, <1>6, <2>1, <2>8, <2>11, <3>1, <3>2, TrailAdvanced
  <2> QED
    BY <1>1, <1>7, <2>2, <2>12 DEF OnDocument, Outcome
<1> QED
  BY <1>5, <1>6

-----------------------------------------------------------------------------
(* Each call begins with the document it is given.                         *)
LEMMA NextCallClean == NextCall => CleanInv'
<1> SUFFICES ASSUME NextCall PROVE CleanInv'
  OBVIOUS
<1>1. PICK buffer : Decode(buffer)
  BY DEF NextCall
<1>2. /\ bytes' = buffer /\ pc' = "enter" /\ frames' = <<>>
      /\ call' = FirstByte
  BY <1>1 DEF Decode
<1>4. ASSUME NEW h \in CleanDocs, bytes' = Wire(h, 1)
      PROVE  OnDocument(h)' /\ Outcome(h)'
  <2>1. Entering(h, heap', Wire(h, 1), <<>>, FirstByte)
    BY TrailBegins
  <2>2. Entering(h, heap', bytes', frames', call')
    BY <1>2, <1>4, <2>1
  <2> QED
    BY <1>2, <2>2 DEF OnDocument, Outcome
<1> QED
  BY <1>4 DEF CleanInv

(* The type byte selects one of three branches.                            *)
LEMMA Branches ==
  /\ DOMAIN TypeCode = NumberTypes \cup {"STRING"} \cup CompositeTypes
  /\ CompositeTypes \in SUBSET DOMAIN TypeCode /\ NumberTypes \in SUBSET DOMAIN TypeCode
  /\ {"STRING"} \in SUBSET DOMAIN TypeCode
  /\ CompositeTypes \subseteq DataTypes /\ NumberTypes \subseteq PrimitiveTypes
BY DEF TypeCode, NumberTypes, CompositeTypes, DataTypes, PrimitiveTypes

(* A level that begins reads the type of its object.                       *)
Started(h, d) ==
  /\ Visited(h, bytes, d, call, Len(frames) + 1)
  /\ Readable /\ Tag = TypeCode[h[d].type] /\ TaggedType = h[d].type
  /\ d \in Below(h, 1) /\ h[d] \in Data /\ HasTypeCode(h[d])
  /\ \A T \in SUBSET DOMAIN TypeCode : Branch(T) <=> h[d].type \in T
  /\ h[d].type \in CompositeTypes => Len(frames) < MaxDepth
  /\ call \in Nat \ {0}

(* The level that begins is at an object of the document, and its branch   *)
(* is the one of the type of this object.                                  *)
LEMMA LevelStarts ==
  ASSUME Sound, NEW h \in CleanDocs, OnDocument(h), pc = "enter"
  PROVE  \E objs, ats, ends :
           /\ Trail(h, heap, bytes, frames, objs, ats, ends, Len(frames) + 1)
           /\ ats[Len(frames) + 1] = call
           /\ Started(h, objs[Len(frames) + 1])
<1>1. bytes \in Seq(Byte) /\ frames \in Seq(Activation) /\ Len(frames) \in Nat
  <2>1. bytes \in Seq(Byte) /\ frames \in Seq(Activation)
    BY DEF Sound, TypeInv, TypeOK
  <2> QED
    BY <2>1, LenProperties
<1>2. PICK objs, ats, ends :
        /\ Trail(h, heap, bytes, frames, objs, ats, ends, Len(frames) + 1)
        /\ ats[Len(frames) + 1] = call
  BY DEF OnDocument, Entering
<1>3. PICK d, l : d = objs[Len(frames) + 1] /\ l = Len(frames) + 1 /\ l \in Nat
  BY <1>1
<1>4. Visited(h, bytes, d, call, l)
  <2>1. l \in 1 .. Len(frames) + 1
    BY <1>1, <1>3
  <2> QED
    BY <1>2, <1>3, <2>1 DEF Trail
<1>5. /\ d \in Below(h, 1) /\ h[d] \in Data /\ HasTypeCode(h[d])
      /\ call \in Nat \ {0} /\ call \in DOMAIN bytes
      /\ bytes[call] = TypeCode[h[d].type]
      /\ h[d].type \in CompositeTypes => l <= MaxDepth
  BY <1>1, <1>3, <1>4, TagThere
<1>6. Readable /\ Tag = TypeCode[h[d].type]
  BY <1>5 DEF Readable, Tag
<1>7. \A t1, t2 \in DOMAIN TypeCode : TypeCode[t1] = TypeCode[t2] => t1 = t2
  BY DEF TypeCode
<1>8. \A T \in SUBSET DOMAIN TypeCode : Branch(T) <=> h[d].type \in T
  <2>1. ASSUME NEW T \in SUBSET DOMAIN TypeCode PROVE Branch(T) <=> h[d].type \in T
    BY <1>5, <1>6, <1>7 DEF Branch, HasTypeCode
  <2> QED
    BY <2>1
<1>9. TaggedType = h[d].type
  <2>1. TaggedType \in DOMAIN TypeCode /\ TypeCode[TaggedType] = Tag
    BY <1>5, <1>6, Zenon DEF TaggedType, HasTypeCode
  <2> QED
    BY <1>5, <1>6, <1>7, <2>1 DEF HasTypeCode
<1>10. h[d].type \in CompositeTypes => Len(frames) < MaxDepth
  <2>1. MaxDepth \in Nat
    BY DecoderAssumption
  <2> QED
    BY <1>1, <1>3, <1>5, <2>1
<1>11. Started(h, d)
  BY <1>3, <1>4, <1>5, <1>6, <1>8, <1>9, <1>10 DEF Started
<1> QED
  BY <1>2, <1>3, <1>11

(* A composite's activation begins on this level.                          *)
LEMMA EnterCompositeClean ==
  ASSUME Sound, Sound', NEW h \in CleanDocs, bytes = Wire(h, 1), OnDocument(h), EnterComposite
  PROVE  OnDocument(h)' /\ Outcome(h)'
<1>1. pc = "enter" /\ Branch(CompositeTypes) /\ pc' = "frame" /\ UNCHANGED <<heap, bytes>>
  BY DEF EnterComposite, Branch
<1>2. PICK objs, ats, ends :
        /\ Trail(h, heap, bytes, frames, objs, ats, ends, Len(frames) + 1)
        /\ ats[Len(frames) + 1] = call
        /\ Started(h, objs[Len(frames) + 1])
  BY <1>1, LevelStarts
<1>3. PICK d, num, fr :
        /\ d = objs[Len(frames) + 1] /\ num = IF h[d].type = "MAP" THEN 2 ELSE NotRead
        /\ fr = [type |-> TaggedType, charBytes |-> call, at |-> call + 1,
                 numofFields |-> num, names |-> <<>>, sizes |-> <<>>, kids |-> <<>>]
  OBVIOUS
<1>4. /\ TaggedType = h[d].type /\ h[d].type \in CompositeTypes /\ d \in Below(h, 1)
      /\ call \in Int
  BY <1>1, <1>2, <1>3, Branches DEF Started
<1>5. frames' = <<fr>> \o frames
  BY <1>3, <1>4, Zenon DEF EnterComposite
<1>6. frames \in Seq(Activation) /\ fr \in Activation
  <2>1. frames \in Seq(Activation) /\ frames' \in Seq(Activation)
    BY DEF Sound, TypeInv, TypeOK
  <2>2. PICK S : S = Activation \cup {fr}
    OBVIOUS
  <2>3. frames \in Seq(S) /\ <<fr>> \in Seq(S)
    BY <2>1, <2>2, SeqMonotonic
  <2>4. 1 \in 1 .. Len(frames') /\ frames'[1] = fr
    BY <1>5, <2>3
  <2> QED
    BY <2>1, <2>4, ElementOfSeq
<1>7. FrameAt(heap, fr, h[d], KidBytes(h, d), call)
  <2>1. ReadableObject(h[d], KidBytes(h, d))
    BY <1>4, DocComposite
  <2>2. /\ fr.type = h[d].type /\ fr.at = call + 1 /\ fr.charBytes = call
        /\ fr.numofFields = num /\ fr.names = <<>> /\ fr.sizes = <<>> /\ fr.kids = <<>>
    BY <1>3, <1>4
  <2> QED
    BY <1>3, <1>4, <1>6, <2>1, <2>2, FrameEntered
<1>8. Running(h, heap, bytes, frames')
  <2>1. Activated(h, heap, fr, objs[Len(frames) + 1], ats[Len(frames) + 1])
    <3>1. \A k \in 1 .. Len(fr.kids) : FALSE
      BY <1>3
    <3>2. SameKids(h, heap, fr, d) /\ Rising(fr.kids)
      BY <3>1 DEF SameKids, Rising
    <3> QED
      BY <1>2, <1>3, <1>7, <3>2 DEF Activated
  <2> QED
    BY <1>2, <1>5, <1>6, <2>1, TrailPushed
<1> QED
  BY <1>1, <1>8 DEF OnDocument, Outcome

(* A number or string is made from the bytes that follow.                  *)
LEMMA LeafClean ==
  ASSUME Sound, Sound', NEW h \in CleanDocs, bytes = Wire(h, 1), OnDocument(h),
         DecodeNumber \/ DecodeString
  PROVE  /\ OnDocument(h)' /\ Outcome(h)'
         /\ AlikeTo(h, heap) => AlikeTo(h, heap')
<1>1. pc = "enter"
  BY DEF DecodeNumber, DecodeString, Branch
<1>2. PICK objs, ats, ends :
        /\ Trail(h, heap, bytes, frames, objs, ats, ends, Len(frames) + 1)
        /\ Started(h, objs[Len(frames) + 1])
  BY <1>1, LevelStarts
<1>3. PICK d : d = objs[Len(frames) + 1]
  OBVIOUS
<1>4. /\ Visited(h, bytes, d, call, Len(frames) + 1) /\ TaggedType = h[d].type
      /\ \A T \in SUBSET DOMAIN TypeCode : Branch(T) <=> h[d].type \in T
  BY <1>2, <1>3 DEF Started
<1>5. bytes \in Seq(Byte) /\ frames \in Seq(Activation) /\ Len(frames) + 1 \in Nat
  <2>1. bytes \in Seq(Byte) /\ frames \in Seq(Activation)
    BY DEF Sound, TypeInv, TypeOK
  <2> QED
    BY <2>1, LenProperties
<1>6. ASSUME NEW t \in PrimitiveTypes, NEW v \in Seq(Int), Deliver(Primitive(t, v), frames),
             h[d].type = t, h[d].value = v,
             \A c : ObjectBytes(Primitive(t, v), c) = Wire(h, d)
      PROVE  /\ OnDocument(h)' /\ Outcome(h)'
             /\ AlikeTo(h, heap) => AlikeTo(h, heap')
  <2>1. Primitive(t, v) \in Data /\ Primitive(t, v).kids = <<>>
    BY <1>6, PrimitiveTyped DEF DataTypes, Primitive
  <2>2. Primitive(t, v).kids \in Seq(1 .. Len(heap))
    BY <2>1, EmptySeq
  <2>3. ObjectBytes(Primitive(t, v), [k \in DOMAIN Primitive(t, v).kids |->
                                        Wire(heap, Primitive(t, v).kids[k])])
          = Wire(h, objs[Len(frames) + 1])
    BY <1>3, <1>6
  <2>4. TreeOf(Primitive(t, v), [k \in DOMAIN Primitive(t, v).kids |->
                                   Tree(heap, Primitive(t, v).kids[k])])
          = Tree(h, objs[Len(frames) + 1])
    <3>1. PICK x : x = Primitive(t, v)
      OBVIOUS
    <3>2. x.type = t /\ x.value = v /\ x.names = <<>> /\ x.kids = <<>>
      BY <3>1 DEF Primitive
    <3>3. Shaped(h[d]) /\ d \in DOMAIN h /\ WellBuilt(h) /\ Grounded(h)
      BY <1>4, DocFacts, ObjectFacts DEF Visited
    <3>4. h[d].names = <<>> /\ h[d].kids = <<>>
      BY <1>6, <3>3 DEF Shaped, PrimitiveTypes, NumberTypes, CompositeTypes
    <3>5. [k \in DOMAIN x.kids |-> Tree(heap, x.kids[k])] = KidTrees(h, d)
      <4>1. DOMAIN <<>> = {}
        BY EmptySeq
      <4> QED
        BY <3>2, <3>4, <4>1 DEF KidTrees
    <3>6. TreeOf(x, KidTrees(h, d)) = TreeOf(h[d], KidTrees(h, d))
      BY <1>6, <3>2, <3>4, Zenon DEF TreeOf
    <3> QED
      BY <1>3, <3>1, <3>3, <3>5, <3>6, TreeOfKids
  <2>5. ~ LastChildTwice(Primitive(t, v))
    <3>1. Len(Primitive(t, v).kids) = 0
      BY <2>1, EmptySeq
    <3> QED
      BY <3>1 DEF LastChildTwice, numofElements
  <2> QED
    BY <1>2, <1>5, <1>6, <2>1, <2>2, <2>3, <2>4, <2>5, DeliverClean
<1>7. CASE DecodeNumber
  <2>1. Branch(NumberTypes) /\ Deliver(Primitive(TaggedType, <<Length>>), frames)
    BY <1>7 DEF DecodeNumber
  <2>2. h[d].type \in NumberTypes /\ h[d].type \in PrimitiveTypes
    BY <1>4, <2>1, Branches
  <2>3. PICK v \in Int : /\ v = VariantDecoder(bytes, call + 1) /\ h[d].value = <<v>>
                         /\ \A c : ObjectBytes(Primitive(h[d].type, <<v>>), c) = Wire(h, d)
    <3>1. PICK b, s, l : b = bytes /\ s = call /\ l = Len(frames) + 1
      OBVIOUS
    <3>2. b \in Seq(Byte) /\ l \in Nat /\ Visited(h, b, d, s, l) /\ h[d].type \in NumberTypes
      BY <1>4, <1>5, <2>2, <3>1
    <3>3. NumberAt(h, b, d, s)
      BY <3>2, NumberLeaf
    <3> QED
      BY <3>1, <3>3 DEF NumberAt
  <2>4. Deliver(Primitive(h[d].type, <<v>>), frames)
    BY <1>4, <2>1, <2>3, Zenon DEF Length
  <2>5. <<v>> \in Seq(Int)
    OBVIOUS
  <2> QED
    BY <1>6, <2>2, <2>3, <2>4, <2>5
<1>8. CASE DecodeString
  <2> DEFINE behind == VarintEnd(bytes, call + 1) + 1
             value  == VariantDecoder(bytes, call + 1)
             chars  == SubSeq(bytes, behind, behind + value - 1)
  <2>1. Branch({"STRING"}) /\ Deliver(NewString(chars), frames)
    BY <1>8 DEF DecodeString, AfterLength, Length
  <2>2. h[d].type = "STRING"
    BY <1>4, <2>1, Branches
  <2>3. /\ VarintReadable(bytes, call + 1) /\ value \in Nat /\ behind \in Nat
        /\ behind + value - 1 <= Len(bytes)
        /\ h[d].value = chars
        /\ \A c : ObjectBytes(NewString(chars), c) = Wire(h, d)
    <3>1. PICK l \in Nat : l = Len(frames) + 1
      BY <1>5
    <3>2. bytes \in Seq(Byte) /\ Visited(h, bytes, d, call, l) /\ h[d].type = "STRING"
      BY <1>4, <1>5, <2>2, <3>1
    <3>3. StringAt(h, bytes, d, call)
      BY <3>2, StringLeaf
    <3> QED
      BY <3>3, Zenon DEF StringAt
  <2>4. behind >= 1
    <3>1. call + 1 \in Int
      BY DEF Sound, TypeInv, TypeOK
    <3>2. VarintEnd(bytes, call + 1) \in Nat
      BY <2>3, <3>1, ReadTyped DEF Sound, TypeInv
    <3> QED
      BY <3>2
  <2> HIDE DEF behind, value
  <2>5. chars \in Seq(Byte)
    <3>1. PICK end \in Int : end = behind + value - 1
      <4>1. behind + value - 1 \in Int
        BY <2>3
      <4> QED
        BY <4>1
    <3>2. behind >= 1 /\ end <= Len(bytes)
      <4>1. behind + value - 1 <= Len(bytes)
        BY <2>3
      <4> QED
        BY <2>4, <3>1, <4>1
    <3>3. TypeOK /\ behind \in Int
      BY <2>3 DEF Sound, TypeInv
    <3>4. SubSeq(bytes, behind, end) \in Seq(Byte)
      BY <3>1, <3>2, <3>3, CharsTyped
    <3> QED
      BY <3>1, <3>4
  <2> HIDE DEF chars
  <2>6. chars \in Seq(Int) /\ "STRING" \in PrimitiveTypes
    <3>1. Byte \subseteq Int
      BY RadixTyped DEF Byte
    <3> QED
      BY <2>5, <3>1, SeqMonotonic DEF PrimitiveTypes
  <2> QED
    BY <1>6, <2>1, <2>2, <2>3, <2>6 DEF NewString
<1> QED
  BY <1>7, <1>8

(* No read on the bytes of a document fails where a level begins,          *)
LEMMA EnterNeverFails ==
  ASSUME Sound, NEW h \in CleanDocs, OnDocument(h)
  PROVE  ~ (StringThrows \/ EnterUndefined \/ MeetsUnknown)
<1> SUFFICES ASSUME StringThrows \/ EnterUndefined \/ MeetsUnknown PROVE FALSE
  OBVIOUS
<1>1. pc = "enter"
  BY DEF StringThrows, EnterUndefined, MeetsUnknown, Branch
<1>2. PICK objs, ats, ends :
        /\ Trail(h, heap, bytes, frames, objs, ats, ends, Len(frames) + 1)
        /\ Started(h, objs[Len(frames) + 1])
  BY <1>1, LevelStarts
<1>3. PICK d : d = objs[Len(frames) + 1]
  OBVIOUS
<1>4. /\ Visited(h, bytes, d, call, Len(frames) + 1)
      /\ Readable /\ Tag = TypeCode[h[d].type] /\ h[d].type \in DOMAIN TypeCode
      /\ \A T \in SUBSET DOMAIN TypeCode : Branch(T) <=> h[d].type \in T
      /\ h[d].type \in CompositeTypes => Len(frames) < MaxDepth
  BY <1>2, <1>3 DEF Started, HasTypeCode
<1>5. bytes \in Seq(Byte) /\ Len(frames) \in Nat /\ Len(frames) + 1 \in Nat
  <2>1. bytes \in Seq(Byte) /\ frames \in Seq(Activation)
    BY DEF Sound, TypeInv, TypeOK
  <2> QED
    BY <2>1, LenProperties
<1>6. /\ Branch(CompositeTypes) <=> h[d].type \in CompositeTypes
      /\ Branch({"STRING"}) <=> h[d].type = "STRING"
      /\ h[d].type \in NumberTypes \/ h[d].type = "STRING" \/ h[d].type \in CompositeTypes
  BY <1>4, Branches
<1>7. ~ (Branch(CompositeTypes) /\ Len(frames) = MaxDepth)
  <2>1. MaxDepth \in Nat
    BY DecoderAssumption
  <2> QED
    BY <1>4, <1>5, <1>6, <2>1
<1>8. h[d].type \notin CompositeTypes => LengthIsRead
  <2>1. h[d].type \in NumberTypes => LengthIsRead
    <3>1. ASSUME h[d].type \in NumberTypes PROVE NumberAt(h, bytes, d, call)
      BY <1>4, <1>5, <3>1, NumberLeaf DEF Started
    <3> QED
      BY <3>1 DEF NumberAt, LengthIsRead
  <2>2. h[d].type = "STRING" => LengthIsRead
    BY <1>4, <1>5, StringLeaf DEF StringAt, LengthIsRead
  <2> QED
    BY <1>6, <2>1, <2>2
<1>9. h[d].type = "STRING" => Length >= 0 /\ AfterLength + Length - 1 <= Len(bytes)
                              /\ AfterLength + Length - 1 \in Int /\ Length \in Nat
  <2>1. SUFFICES ASSUME h[d].type = "STRING"
                 PROVE  /\ Length >= 0 /\ AfterLength + Length - 1 <= Len(bytes)
                        /\ AfterLength + Length - 1 \in Int /\ Length \in Nat
    OBVIOUS
  <2>2. /\ Length \in Nat /\ AfterLength \in Nat /\ AfterLength + Length - 1 <= Len(bytes)
    BY <1>4, <1>5, <2>1, StringLeaf DEF StringAt, Length, AfterLength
  <2> QED
    BY <2>2
<1>10. ~ StringThrows
  <2>1. StringThrows => Branch({"STRING"}) /\ Length < 0
    BY DEF StringThrows
  <2> QED
    BY <1>6, <1>9, <2>1
<1>11. ~ EnterUndefined
  <2>1. Len(bytes) \in Nat
    BY <1>5
  <2>2. EnterUndefined =>
          \/ ~ Readable
          \/ Branch(CompositeTypes) /\ Len(frames) = MaxDepth
          \/ ~ Branch(CompositeTypes) /\ ~ LengthIsRead
          \/ Branch({"STRING"}) /\ AfterLength + Length - 1 > Len(bytes)
    BY DEF EnterUndefined
  <2>3. ~ (Branch({"STRING"}) /\ AfterLength + Length - 1 > Len(bytes))
    BY <1>6, <1>9, <2>1
  <2>4. ~ (~ Branch(CompositeTypes) /\ ~ LengthIsRead)
    BY <1>6, <1>8
  <2> QED
    BY <1>4, <1>7, <2>2, <2>3, <2>4, Zenon
<1>12. ~ MeetsUnknown
  BY <1>4 DEF MeetsUnknown, TypeIsKnown
<1> QED
  BY <1>10, <1>11, <1>12

-----------------------------------------------------------------------------
(* The top activation reads its object where its bytes stand.              *)
AtObject(h, d, s) ==
  /\ Visited(h, bytes, d, s, Len(frames)) /\ Activated(h, heap, This, d, s)
  /\ Reading(heap, This, h[d], KidBytes(h, d), s, bytes)
  /\ FrameAt(heap, This, h[d], KidBytes(h, d), s) /\ d \in Below(h, 1) /\ s \in Int

(* The activation that runs is at an object of the document.               *)
LEMMA LevelReads ==
  ASSUME Sound, NEW h \in CleanDocs, OnDocument(h), pc = "frame"
  PROVE  \E objs, ats, ends :
           /\ Trail(h, heap, bytes, frames, objs, ats, ends, Len(frames))
           /\ AtObject(h, objs[Len(frames)], ats[Len(frames)])
<1>1. bytes \in Seq(Byte) /\ frames \in Seq(Activation) /\ Len(frames) \in Nat
  <2>1. bytes \in Seq(Byte) /\ frames \in Seq(Activation)
    BY DEF Sound, TypeInv, TypeOK
  <2> QED
    BY <2>1, LenProperties
<1>2. PICK objs, ats, ends :
        frames # <<>> /\ Trail(h, heap, bytes, frames, objs, ats, ends, Len(frames))
  BY DEF OnDocument, Running
<1>3. PICK d, s : d = objs[Len(frames)] /\ s = ats[Len(frames)]
  OBVIOUS
<1>4. Visited(h, bytes, d, s, Len(frames)) /\ Activated(h, heap, This, d, s)
  <2>1. Len(frames) >= Len(frames) /\ Len(frames) \in Int
    BY <1>1
  <2> QED
    BY <1>1, <1>2, <1>3, <2>1, TopLevel DEF This
<1>5. FrameAt(heap, This, h[d], KidBytes(h, d), s) /\ d \in Below(h, 1) /\ s \in Int
  BY <1>4 DEF Visited, Activated
<1>6. Reading(heap, This, h[d], KidBytes(h, d), s, bytes)
  <2>1. Wire(h, d) = ObjectBytes(h[d], KidBytes(h, d))
    BY <1>5, ObjectFacts
  <2> QED
    BY <1>1, <1>4, <1>5, <2>1 DEF Reading, Visited
<1> QED
  BY <1>2, <1>3, <1>4, <1>5, <1>6 DEF AtObject

(* It moves on to its next item.                                           *)
LEMMA AdvanceClean ==
  ASSUME Sound, NEW h \in CleanDocs, pc = "frame",
         NEW objs, NEW ats, NEW ends,
         Trail(h, heap, bytes, frames, objs, ats, ends, Len(frames)),
         AtObject(h, objs[Len(frames)], ats[Len(frames)]),
         NEW fr, Advance(fr), fr.kids = This.kids,
         FrameAt(heap, fr, h[objs[Len(frames)]], KidBytes(h, objs[Len(frames)]),
                 ats[Len(frames)])
  PROVE  OnDocument(h)' /\ Outcome(h)'
<1>1. /\ frames' = [frames EXCEPT ![1] = fr] /\ UNCHANGED <<heap, bytes, pc>>
  BY DEF Advance
<1>2. frames \in Seq(Activation) /\ frames # <<>> /\ Len(frames) \in Nat
  <2>1. frames \in Seq(Activation) /\ frames # <<>>
    BY DEF Sound, TypeInv, TypeOK, IInv, FrameInv
  <2> QED
    BY <2>1, LenProperties
<1>3. fr \in Activation
  BY DEF FrameAt
<1>4. Activated(h, heap, fr, objs[Len(frames)], ats[Len(frames)])
  BY DEF Activated, AtObject, SameKids
<1>5. Replaced(frames', frames, fr)
  BY <1>1 DEF Replaced
<1>6. Running(h, heap, bytes, frames')
  <2>1. Len(frames) >= Len(frames) /\ Len(frames) \in Int
    BY <1>2
  <2> QED
    BY <1>2, <1>3, <1>4, <1>5, <2>1, TrailAdvanced
<1> QED
  BY <1>1, <1>6 DEF OnDocument, Outcome

(* It reads the count that was written,                                    *)
LEMMA ReadCountClean ==
  ASSUME Sound, NEW h \in CleanDocs, OnDocument(h), ReadCount
  PROVE  OnDocument(h)' /\ Outcome(h)'
<1>1. pc = "frame" /\ CountWanted(This)
  BY DEF ReadCount, WantsCount, InFrame, CountWanted
<1>2. PICK objs, ats, ends :
        /\ Trail(h, heap, bytes, frames, objs, ats, ends, Len(frames))
        /\ AtObject(h, objs[Len(frames)], ats[Len(frames)])
  BY <1>1, LevelReads
<1>3. PICK d, x, c, s : d = objs[Len(frames)] /\ x = h[d] /\ c = KidBytes(h, d) /\ s = ats[Len(frames)]
  OBVIOUS
<1>4. Reading(heap, This, x, c, s, bytes) /\ FrameAt(heap, This, x, c, s)
  BY <1>2, <1>3 DEF AtObject
<1>5. /\ VariantDecoder(bytes, This.at) = Len(x.kids) /\ ToInt(Len(x.kids)) = Len(x.kids)
      /\ VarintEnd(bytes, This.at) + 1 = s + Pos(x, c, 2) /\ s + Pos(x, c, 2) \in Int
  BY <1>1, <1>4, CountThere
<1>6. PICK n, at, fr : /\ n = Len(x.kids) /\ at = s + Pos(x, c, 2)
                       /\ fr = [This EXCEPT !.numofFields = n, !.at = at]
  OBVIOUS
<1>7. Advance(fr)
  BY <1>5, <1>6, Zenon DEF ReadCount, IntValue, Value, Behind
<1>8. This \in Activation /\ n \in Int /\ at \in Int
  BY <1>4, <1>5, <1>6, FrameAtTyped
<1>9. MovedOn(fr, This, n, This.names, This.sizes, This.kids, at)
  <2>1. fr \in Activation
    BY <1>6, <1>8 DEF Activation
  <2>2. /\ fr.type = This.type /\ fr.charBytes = This.charBytes /\ fr.numofFields = n
        /\ fr.names = This.names /\ fr.sizes = This.sizes /\ fr.kids = This.kids /\ fr.at = at
    BY <1>6, <1>8 DEF Activation
  <2> QED
    BY <2>1, <2>2 DEF MovedOn
<1>10. FrameAt(heap, fr, x, c, s)
  BY <1>1, <1>4, <1>6, <1>9, CountTaken
<1>11. fr.kids = This.kids
  BY <1>9 DEF MovedOn
<1> QED
  BY <1>1, <1>2, <1>3, <1>7, <1>10, <1>11, AdvanceClean

(* the names                                                               *)
LEMMA ReadNameClean ==
  ASSUME Sound, NEW h \in CleanDocs, OnDocument(h), ReadFieldName
  PROVE  OnDocument(h)' /\ Outcome(h)'
<1>1. pc = "frame" /\ NameWanted(This)
  BY DEF ReadFieldName, WantsName, InFrame, CountWanted, NameWanted
<1>2. PICK objs, ats, ends :
        /\ Trail(h, heap, bytes, frames, objs, ats, ends, Len(frames))
        /\ AtObject(h, objs[Len(frames)], ats[Len(frames)])
  BY <1>1, LevelReads
<1>3. PICK d, x, c, s : d = objs[Len(frames)] /\ x = h[d] /\ c = KidBytes(h, d) /\ s = ats[Len(frames)]
  OBVIOUS
<1>4. Reading(heap, This, x, c, s, bytes) /\ FrameAt(heap, This, x, c, s)
  BY <1>2, <1>3 DEF AtObject
<1>5. LET k      == Len(This.names) + 1
          value  == VariantDecoder(bytes, This.at)
          behind == VarintEnd(bytes, This.at) + 1
      IN  /\ VarintReadable(bytes, This.at) /\ value \in Nat /\ behind \in Nat
          /\ ToInt(value) = value /\ behind + value - 1 <= Len(bytes)
          /\ SubSeq(bytes, behind, behind + value - 1) = x.names[k]
          /\ behind + value = s + Pos(x, c, 2 + k) /\ s + Pos(x, c, 2 + k) \in Int
  BY <1>1, <1>4, NameThere, Zenon
<1>6. PICK name, names, at, fr :
        /\ name = x.names[Len(This.names) + 1] /\ names = Append(This.names, name)
        /\ at = s + Pos(x, c, 2 + (Len(This.names) + 1))
        /\ fr = [This EXCEPT !.names = names, !.at = at]
  OBVIOUS
<1>7. Advance(fr)
  <2>1. /\ SubSeq(bytes, Behind, Behind + IntValue - 1) = name /\ Behind + IntValue = at
    BY <1>5, <1>6, Zenon DEF IntValue, Value, Behind
  <2>2. Advance([This EXCEPT !.names = Append(This.names, SubSeq(bytes, Behind, Behind + IntValue - 1)),
                             !.at = Behind + IntValue])
    BY Zenon DEF ReadFieldName
  <2> QED
    BY <1>6, <2>1, <2>2, Zenon
<1>8. This \in Activation /\ at \in Int /\ names \in Seq(Seq(Byte))
  <2>1. This \in Activation /\ at \in Int
    BY <1>4, <1>5, <1>6, FrameAtTyped
  <2>2. Len(This.names) + 1 \in 1 .. Len(x.names) /\ ReadableObject(x, c)
    <3>1. Len(This.names) < Len(x.names)
      BY <1>1, <1>4, NextItem DEF WantsNext
    <3>2. Len(This.names) \in Nat /\ Len(x.names) \in Nat /\ ReadableObject(x, c)
      BY <1>4, FrameAtTyped
    <3> QED
      BY <3>1, <3>2
  <2>3. name \in Seq(Byte)
    BY <1>6, <2>2, ReadableTyped
  <2>4. This.names \in Seq(Seq(Byte))
    BY <2>1 DEF Activation
  <2> QED
    BY <1>6, <2>1, <2>3, <2>4, AppendProperties
<1>9. MovedOn(fr, This, This.numofFields, names, This.sizes, This.kids, at)
  <2>1. fr \in Activation
    BY <1>6, <1>8 DEF Activation
  <2>2. /\ fr.type = This.type /\ fr.charBytes = This.charBytes /\ fr.numofFields = This.numofFields
        /\ fr.names = names /\ fr.sizes = This.sizes /\ fr.kids = This.kids /\ fr.at = at
    BY <1>6, <1>8 DEF Activation
  <2> QED
    BY <2>1, <2>2 DEF MovedOn
<1>10. FrameAt(heap, fr, x, c, s)
  BY <1>1, <1>4, <1>6, <1>9, NameTaken
<1>11. fr.kids = This.kids
  BY <1>9 DEF MovedOn
<1> QED
  BY <1>1, <1>2, <1>3, <1>7, <1>10, <1>11, AdvanceClean

(* and sizes: all but the last as they were written.                       *)
LEMMA ReadSizeClean ==
  ASSUME Sound, NEW h \in CleanDocs, OnDocument(h), ReadSize
  PROVE  OnDocument(h)' /\ Outcome(h)'
<1>1. pc = "frame" /\ SizeWanted(This)
  BY DEF ReadSize, WantsSize, WantsName, InFrame, CountWanted, NameWanted, SizeWanted
<1>2. PICK objs, ats, ends :
        /\ Trail(h, heap, bytes, frames, objs, ats, ends, Len(frames))
        /\ AtObject(h, objs[Len(frames)], ats[Len(frames)])
  BY <1>1, LevelReads
<1>3. PICK d, x, c, s : d = objs[Len(frames)] /\ x = h[d] /\ c = KidBytes(h, d) /\ s = ats[Len(frames)]
  OBVIOUS
<1>4. Reading(heap, This, x, c, s, bytes) /\ FrameAt(heap, This, x, c, s)
  BY <1>2, <1>3 DEF AtObject
<1>5. LET k     == Len(This.sizes) + 1
          value == VariantDecoder(bytes, This.at)
          end   == s + Pos(x, c, 2 + Len(x.names) + k)
      IN  /\ VarintReadable(bytes, This.at) /\ value \in Int
          /\ k < Len(c) \/ SurvivesVarint(value) => value = Len(c[k])
          /\ VarintEnd(bytes, This.at) + 1 = end /\ end \in Int
  BY <1>1, <1>4, SizeThere, Zenon
<1>6. PICK value, sizes, at, fr :
        /\ value = VariantDecoder(bytes, This.at) /\ sizes = Append(This.sizes, value)
        /\ at = s + Pos(x, c, 2 + Len(x.names) + (Len(This.sizes) + 1))
        /\ fr = [This EXCEPT !.sizes = sizes, !.at = at]
  OBVIOUS
<1>7. Advance(fr)
  <2>1. Behind = at /\ Value = value
    BY <1>5, <1>6, Zenon DEF Value, Behind
  <2>2. Advance([This EXCEPT !.sizes = Append(This.sizes, Value), !.at = Behind])
    BY Zenon DEF ReadSize
  <2> QED
    BY <1>6, <2>1, <2>2, Zenon
<1>8. This \in Activation /\ at \in Int /\ value \in Int /\ sizes \in Seq(Int)
  <2>1. This \in Activation
    BY <1>4, FrameAtTyped
  <2>2. at \in Int /\ value \in Int
    BY <1>5, <1>6, Zenon
  <2>3. This.sizes \in Seq(Int)
    BY <2>1 DEF Activation
  <2> QED
    BY <1>6, <2>1, <2>2, <2>3, AppendProperties
<1>9. MovedOn(fr, This, This.numofFields, This.names, sizes, This.kids, at)
  <2>1. fr \in Activation
    BY <1>6, <1>8 DEF Activation
  <2>2. /\ fr.type = This.type /\ fr.charBytes = This.charBytes /\ fr.numofFields = This.numofFields
        /\ fr.names = This.names /\ fr.sizes = sizes /\ fr.kids = This.kids /\ fr.at = at
    BY <1>6, <1>8 DEF Activation
  <2> QED
    BY <2>1, <2>2 DEF MovedOn
<1>10. Len(This.sizes) + 1 < Len(c) \/ SurvivesVarint(value)
         => value = Len(c[Len(This.sizes) + 1])
  BY <1>5, <1>6, Zenon
<1>11. FrameAt(heap, fr, x, c, s)
  BY <1>1, <1>4, <1>6, <1>9, <1>10, SizeTaken
<1>12. fr.kids = This.kids
  BY <1>9 DEF MovedOn
<1> QED
  BY <1>1, <1>2, <1>3, <1>7, <1>11, <1>12, AdvanceClean

-----------------------------------------------------------------------------
(* It calls itself where the next element begins.                          *)
LEMMA DecodeChildClean ==
  ASSUME Sound, NEW h \in CleanDocs, OnDocument(h), DecodeChild
  PROVE  OnDocument(h)' /\ Outcome(h)'
<1>1. pc = "frame" /\ KidWanted(This)
  BY DEF DecodeChild, WantsChild, WantsSize, WantsName, InFrame, CountWanted, NameWanted,
         SizeWanted, KidWanted
<1>2. PICK objs, ats, ends :
        /\ Trail(h, heap, bytes, frames, objs, ats, ends, Len(frames))
        /\ AtObject(h, objs[Len(frames)], ats[Len(frames)])
  BY <1>1, LevelReads
<1>3. PICK d, x, c, s, k, kid :
        /\ d = objs[Len(frames)] /\ x = h[d] /\ c = KidBytes(h, d) /\ s = ats[Len(frames)]
        /\ k = Len(This.kids) + 1 /\ kid = x.kids[k]
  OBVIOUS
<1>4. /\ FrameAt(heap, This, x, c, s) /\ d \in Below(h, 1) /\ s \in Int
      /\ Visited(h, bytes, d, s, Len(frames))
  BY <1>2, <1>3 DEF AtObject
<1>5. frames \in Seq(Activation) /\ frames # <<>> /\ Len(frames) \in Nat /\ bytes \in Seq(Byte)
  <2>1. frames \in Seq(Activation) /\ frames # <<>> /\ bytes \in Seq(Byte)
    BY <1>1 DEF Sound, TypeInv, TypeOK, IInv, FrameInv
  <2> QED
    BY <2>1, LenProperties
<1>6. k \in 1 .. Len(c) /\ Stands(bytes, This.at, c[k])
  <2>1. LET i == Len(This.kids) + 1
            m == 2 + Len(x.names) + Len(c) + i
        IN  /\ i \in 1 .. Len(c) /\ Len(c[i]) \in Nat /\ c[i] \in Seq(Byte)
            /\ This.at + Len(c[i]) = s + Pos(x, c, m) /\ s + Pos(x, c, m) \in Int
            /\ Pos(x, c, m) <= Len(ObjectBytes(x, c))
            /\ \A b \in Seq(Byte) : Stands(b, s, ObjectBytes(x, c)) => Stands(b, This.at, c[i])
    BY <1>1, <1>4, KidThere, Zenon
  <2>2. Stands(bytes, s, ObjectBytes(x, c))
    BY <1>3, <1>4, ObjectFacts DEF Visited
  <2> QED
    BY <1>3, <1>5, <2>1, <2>2, Zenon
<1>7. kid \in Below(h, 1) /\ c[k] = Wire(h, kid) /\ k \in DOMAIN x.kids
  BY <1>3, <1>4, <1>6, ObjectFacts
<1>8. Rank(h)[kid] + (Len(frames) + 1) <= MaxDepth + 1
  <2>1. d \in DOMAIN h /\ kid \in DOMAIN h
    BY <1>4, <1>7, ObjectFacts
  <2>2. Rank(h)[kid] \in Nat /\ Rank(h)[d] \in Nat /\ MaxDepth \in Nat
    <3>1. Rank(h) \in [DOMAIN h -> 0 .. MaxDepth] /\ MaxDepth \in Nat
      BY DocFacts, DecoderAssumption
    <3> QED
      BY <2>1, <3>1
  <2>3. x.type \in CompositeTypes
    BY <1>4 DEF FrameAt, ReadableObject
  <2>4. Rank(h)[kid] < Rank(h)[d]
    BY <1>3, <1>7, <2>1, <2>3, DocFacts
  <2>5. Rank(h)[d] + Len(frames) <= MaxDepth + 1
    BY <1>4 DEF Visited
  <2> QED
    BY <1>5, <2>2, <2>4, <2>5
<1>9. Visited(h, bytes, kid, This.at, Len(frames) + 1)
  <2>1. This.at \in Int
    BY <1>4, FrameAtTyped
  <2> QED
    BY <1>6, <1>7, <1>8, <2>1 DEF Visited
<1>10. Calls(h, frames[1], d, kid, This.at, This.at + This.sizes[k] - 1)
  BY <1>1, <1>3 DEF Calls, This
<1>11. Entering(h, heap, bytes, frames, This.at)
  BY <1>2, <1>3, <1>5, <1>9, <1>10, TrailExtended
<1>12. /\ UNCHANGED <<heap, bytes, frames>> /\ pc' = "enter"
       /\ call' = This.at
  BY DEF DecodeChild
<1> QED
  BY <1>11, <1>12 DEF OnDocument, Outcome

(* Elements made one after the other are different.                        *)
LEMMA RisingOnce ==
  ASSUME NEW x, x.kids \in Seq(Nat), Rising(x.kids)
  PROVE  ~ LastChildTwice(x)
<1>1. Len(x.kids) \in Nat /\ \A k \in 1 .. Len(x.kids) : x.kids[k] \in Nat
  OBVIOUS
<1>2. ASSUME NEW k \in 1 .. Len(x.kids) - 1 PROVE x.kids[k] # x.kids[Len(x.kids)]
  <2>1. Len(x.kids) \in 1 .. Len(x.kids) /\ k \in 1 .. Len(x.kids)
    BY <1>1
  <2>2. x.kids[k] < x.kids[Len(x.kids)]
    BY <2>1 DEF Rising
  <2> QED
    BY <1>1, <2>1, <2>2
<1> QED
  BY <1>2 DEF LastChildTwice, numofElements

(* With all its elements it returns an object that has the bytes it read.  *)
LEMMA CompleteClean ==
  ASSUME Sound, Sound', NEW h \in CleanDocs, bytes = Wire(h, 1), OnDocument(h), Complete
  PROVE  /\ OnDocument(h)' /\ Outcome(h)'
         /\ AlikeTo(h, heap) => AlikeTo(h, heap')
<1>1. pc = "frame" /\ AllThere(This)
  BY DEF Complete, HasAll, WantsNothing, WantsCount, WantsChild, WantsSize, WantsName, InFrame,
         CountWanted, NameWanted, SizeWanted, KidWanted, AllThere
<1>2. PICK objs, ats, ends :
        /\ Trail(h, heap, bytes, frames, objs, ats, ends, Len(frames))
        /\ AtObject(h, objs[Len(frames)], ats[Len(frames)])
  BY <1>1, LevelReads
<1>3. PICK d, x, c, s, new :
        /\ d = objs[Len(frames)] /\ x = h[d] /\ c = KidBytes(h, d) /\ s = ats[Len(frames)]
        /\ new = [type |-> This.type, value |-> <<>>, kids |-> This.kids, names |-> This.names]
  OBVIOUS
<1>4. FrameAt(heap, This, x, c, s) /\ d \in Below(h, 1)
  BY <1>2, <1>3 DEF AtObject
<1>5. Deliver(new, Tail(frames))
  BY <1>3, Zenon DEF Complete
<1>6. /\ new.type = This.type /\ new.kids = This.kids /\ new.names = This.names
  BY <1>3
<1>7. This \in Activation /\ This.kids \in Seq(1 .. Len(heap)) /\ Len(This.kids) \in Nat
  BY <1>1, FrameCounted DEF Sound
<1>8. new \in Data
  <2>1. <<>> \in Seq(Int) /\ CompositeTypes \subseteq DataTypes
    BY EmptySeq DEF DataTypes
  <2> QED
    BY <1>3, <1>7, <2>1 DEF Activation, Data
<1>9. frames \in Seq(Activation) /\ frames # <<>> /\ Tail(frames) \in Seq(Activation)
  <2>1. frames \in Seq(Activation) /\ frames # <<>>
    BY <1>1 DEF Sound, TypeInv, TypeOK, IInv, FrameInv
  <2> QED
    BY <2>1, LevelPop
<1>10. /\ Trail(h, heap, bytes, Tail(frames), objs, ats, ends, Len(Tail(frames)) + 1)
       /\ Len(Tail(frames)) + 1 = Len(frames)
  BY <1>2, <1>9, TrailPopped
<1>11. [k \in DOMAIN new.kids |-> Wire(heap, new.kids[k])] = c
  <2>1. PICK f : f = [k \in 1 .. Len(This.kids) |-> Wire(heap, This.kids[k])]
    OBVIOUS
  <2>2. c \in Seq(Seq(Byte)) /\ Len(c) = Len(This.kids)
    <3>1. ReadableObject(x, c)
      BY <1>4 DEF FrameAt
    <3>2. c \in Seq(Seq(Byte))
      BY <3>1, ReadableTyped
    <3> QED
      BY <1>1, <1>4, <3>2, NextIsNothing
  <2>3. \A k \in 1 .. Len(This.kids) : Wire(heap, This.kids[k]) = c[k]
    BY <1>4 DEF FrameAt, ReadSoFar
  <2>4. f = [k \in 1 .. Len(This.kids) |-> c[k]]
    BY <2>1, <2>3
  <2>5. c = [k \in 1 .. Len(This.kids) |-> c[k]]
    BY <1>7, <2>2
  <2>6. DOMAIN new.kids = 1 .. Len(This.kids)
    BY <1>6, <1>7
  <2>7. [k \in DOMAIN new.kids |-> Wire(heap, new.kids[k])] = f
    BY <1>6, <2>1, <2>6, Zenon
  <2> QED
    BY <2>4, <2>5, <2>7
<1>12. ObjectBytes(new, c) = Wire(h, d)
  <2>1. ObjectBytes(new, c) = ObjectBytes(x, c)
    BY <1>1, <1>4, <1>6, CompletedBytes
  <2>2. Wire(h, d) = ObjectBytes(x, c)
    BY <1>3, <1>4, ObjectFacts
  <2> QED
    BY <2>1, <2>2
<1>13. ObjectBytes(new, [k \in DOMAIN new.kids |-> Wire(heap, new.kids[k])])
         = Wire(h, objs[Len(Tail(frames)) + 1])
  BY <1>3, <1>10, <1>11, <1>12
<1>14. new.kids \in Seq(1 .. Len(heap))
  BY <1>6, <1>7
<1>15. TreeOf(new, [k \in DOMAIN new.kids |-> Tree(heap, new.kids[k])]) = Tree(h, d)
  <2>1. /\ Shaped(x) /\ d \in DOMAIN h /\ WellBuilt(h) /\ Grounded(h)
        /\ DOMAIN x.kids = 1 .. Len(x.kids)
    BY <1>3, <1>4, DocFacts, ObjectFacts
  <2>2. new.type = x.type /\ new.names = x.names /\ Len(new.kids) = Len(x.kids)
    BY <1>1, <1>4, <1>6, CompletedBytes
  <2>3. new.value = x.value
    <3>1. x.type \in CompositeTypes
      BY <1>4, ReadableTyped DEF FrameAt
    <3> QED
      BY <1>3, <2>1, <3>1 DEF Shaped
  <2>4. DOMAIN new.kids = DOMAIN x.kids
    BY <1>6, <1>7, <2>1, <2>2
  <2>5. \A k \in DOMAIN x.kids : Tree(heap, new.kids[k]) = Tree(h, x.kids[k])
    <3>1. SameKids(h, heap, This, d)
      BY <1>2, <1>3 DEF AtObject, Activated
    <3> QED
      BY <1>3, <1>6, <2>1, <2>2, <3>1 DEF SameKids
  <2>6. [k \in DOMAIN new.kids |-> Tree(heap, new.kids[k])] = KidTrees(h, d)
    BY <1>3, <2>4, <2>5, Zenon DEF KidTrees
  <2>7. TreeOf(new, KidTrees(h, d)) = TreeOf(x, KidTrees(h, d))
    BY <2>2, <2>3, Zenon DEF TreeOf
  <2> QED
    BY <1>3, <2>1, <2>6, <2>7, TreeOfKids
<1>16. ~ LastChildTwice(new)
  <2>1. Rising(This.kids)
    BY <1>2 DEF AtObject, Activated
  <2>2. new.kids \in Seq(Nat)
    BY <1>8 DEF Data
  <2> QED
    BY <1>6, <2>1, <2>2, RisingOnce
<1>17. TreeOf(new, [k \in DOMAIN new.kids |-> Tree(heap, new.kids[k])])
         = Tree(h, objs[Len(Tail(frames)) + 1])
  BY <1>3, <1>10, <1>15
<1> QED
  BY <1>5, <1>8, <1>9, <1>10, <1>13, <1>14, <1>16, <1>17, DeliverClean

(* nor where an activation reads on.                                       *)
LEMMA FrameNeverFails ==
  ASSUME Sound, NEW h \in CleanDocs, OnDocument(h)
  PROVE  ~ (FrameThrows \/ FrameUndefined)
<1> SUFFICES ASSUME FrameThrows \/ FrameUndefined PROVE FALSE
  OBVIOUS
<1>1. /\ pc = "frame"
      /\ WantsCount => CountWanted(This)
      /\ WantsName => NameWanted(This)
      /\ WantsSize => SizeWanted(This)
  BY DEF FrameThrows, FrameUndefined, WantsCount, WantsName, WantsSize, InFrame,
         CountWanted, NameWanted, SizeWanted
<1>2. PICK objs, ats, ends :
        AtObject(h, objs[Len(frames)], ats[Len(frames)])
  BY <1>1, LevelReads
<1>3. PICK d, x, c, s : d = objs[Len(frames)] /\ x = h[d] /\ c = KidBytes(h, d) /\ s = ats[Len(frames)]
  OBVIOUS
<1>4. Reading(heap, This, x, c, s, bytes) /\ FrameAt(heap, This, x, c, s)
  BY <1>2, <1>3 DEF AtObject
<1>5. WantsCount => VarintReadable(bytes, This.at) /\ IntValue \in Nat
  <2>1. SUFFICES ASSUME WantsCount PROVE VarintReadable(bytes, This.at) /\ IntValue \in Nat
    OBVIOUS
  <2>2. /\ VarintReadable(bytes, This.at) /\ VariantDecoder(bytes, This.at) = Len(x.kids)
        /\ Len(x.kids) \in Nat /\ ToInt(Len(x.kids)) = Len(x.kids)
    BY <1>1, <1>4, <2>1, CountThere
  <2> QED
    BY <2>2, Zenon DEF IntValue, Value
<1>6. WantsName => /\ VarintReadable(bytes, This.at) /\ IntValue \in Nat /\ Behind \in Nat
                   /\ Behind + IntValue - 1 <= Len(bytes)
  <2>1. SUFFICES ASSUME WantsName
                 PROVE  /\ VarintReadable(bytes, This.at) /\ IntValue \in Nat /\ Behind \in Nat
                        /\ Behind + IntValue - 1 <= Len(bytes)
    OBVIOUS
  <2>2. NameWanted(This)
    BY <1>1, <2>1
  <2>3. LET k      == Len(This.names) + 1
            value  == VariantDecoder(bytes, This.at)
            behind == VarintEnd(bytes, This.at) + 1
        IN  /\ VarintReadable(bytes, This.at) /\ value \in Nat /\ behind \in Nat
            /\ ToInt(value) = value /\ behind + value - 1 <= Len(bytes)
            /\ SubSeq(bytes, behind, behind + value - 1) = x.names[k]
            /\ behind + value = s + Pos(x, c, 2 + k) /\ s + Pos(x, c, 2 + k) \in Int
    BY <1>4, <2>2, NameThere, Zenon
  <2> QED
    BY <2>3, Zenon DEF IntValue, Value, Behind
<1>7. WantsSize => VarintReadable(bytes, This.at)
  <2>1. SUFFICES ASSUME WantsSize PROVE VarintReadable(bytes, This.at)
    OBVIOUS
  <2>2. SizeWanted(This)
    BY <1>1, <2>1
  <2>3. LET k     == Len(This.sizes) + 1
            value == VariantDecoder(bytes, This.at)
            end   == s + Pos(x, c, 2 + Len(x.names) + k)
        IN  /\ VarintReadable(bytes, This.at) /\ value \in Int
            /\ k < Len(c) \/ SurvivesVarint(value) => value = Len(c[k])
            /\ VarintEnd(bytes, This.at) + 1 = end /\ end \in Int
    BY <1>4, <2>2, SizeThere, Zenon
  <2> QED
    BY <2>3, Zenon
<1>8. Len(bytes) \in Nat
  <2>1. bytes \in Seq(Byte)
    BY DEF Sound, TypeInv, TypeOK
  <2> QED
    BY <2>1
<1>9. ~ FrameThrows
  <2>1. FrameThrows => (WantsCount \/ WantsName) /\ IntValue < 0
    BY DEF FrameThrows
  <2>2. IntValue \in Nat => ~ (IntValue < 0)
    OBVIOUS
  <2> QED
    BY <1>5, <1>6, <2>1, <2>2
<1>10. ~ FrameUndefined
  <2>1. FrameUndefined =>
          \/ (WantsCount \/ WantsName \/ WantsSize) /\ ~ VarintReadable(bytes, This.at)
          \/ WantsName /\ Behind + IntValue - 1 > Len(bytes)
    BY DEF FrameUndefined
  <2>2. ~ ((WantsCount \/ WantsName \/ WantsSize) /\ ~ VarintReadable(bytes, This.at))
    BY <1>5, <1>6, <1>7, Zenon
  <2>3. ~ (WantsName /\ Behind + IntValue - 1 > Len(bytes))
    <3>1. SUFFICES ASSUME WantsName PROVE ~ (Behind + IntValue - 1 > Len(bytes))
      OBVIOUS
    <3>2. IntValue \in Nat /\ Behind \in Nat /\ Behind + IntValue - 1 <= Len(bytes)
      BY <1>6, <3>1
    <3> QED
      BY <1>8, <3>2
  <2> QED
    BY <2>1, <2>2, <2>3, Zenon
<1> QED
  BY <1>9, <1>10

(* So the decoder stays on the document it was given.                      *)
LEMMA CleanInvNext == Sound /\ Sound' /\ CleanInv /\ [Next]_vars => CleanInv'
<1> SUFFICES ASSUME Sound, Sound', CleanInv, [Next]_vars PROVE CleanInv'
  OBVIOUS
<1>1. CASE NextCall
  BY <1>1, NextCallClean
<1>2. CASE Step
  <2>1. UNCHANGED bytes
    BY <1>2 DEF Step, EnterComposite, DecodeNumber, DecodeString, DecodeUnknown, StringThrows,
       EnterUndefined, ReadCount, ReadFieldName, ReadSize, DecodeChild, Complete, FrameThrows,
       FrameUndefined, Deliver, Hand, Advance, Stop
  <2>2. ASSUME NEW h \in CleanDocs, bytes' = Wire(h, 1)
        PROVE  OnDocument(h)' /\ Outcome(h)'
    <3>1. bytes = Wire(h, 1) /\ OnDocument(h)
      BY <2>1, <2>2 DEF CleanInv
    <3>2. ~ (StringThrows \/ EnterUndefined \/ MeetsUnknown) /\ ~ (FrameThrows \/ FrameUndefined)
      BY <3>1, EnterNeverFails, FrameNeverFails
    <3>3. \/ EnterComposite \/ (DecodeNumber \/ DecodeString)
          \/ ReadCount \/ ReadFieldName \/ ReadSize \/ DecodeChild \/ Complete
      BY <1>2, <3>2, Zenon DEF Step, DecodeUnknown
    <3> QED
      BY <3>1, <3>3, EnterCompositeClean, LeafClean, ReadCountClean, ReadNameClean,
         ReadSizeClean, DecodeChildClean, CompleteClean
  <2> QED
    BY <2>2 DEF CleanInv
<1>3. CASE UNCHANGED vars
  BY <1>3 DEF vars, CleanInv, OnDocument, Outcome
<1> QED
  BY <1>1, <1>2, <1>3 DEF Next

(* Before the first call there are no bytes,                               *)
LEMMA CleanInvInit == Init => CleanInv
BY DEF Init, CleanInv, OnDocument, Outcome

(* and in every state the decoder is where the document says.              *)
LEMMA CleanInvHolds == Spec => [](Sound /\ CleanInv)
<1>1. Spec => []Sound
  BY BuildInvHolds, IInvHolds, TypeInvInit, TypeInvNext, PTL DEF Spec, Sound
<1> QED
  BY <1>1, CleanInvInit, CleanInvNext, PTL DEF Spec

-----------------------------------------------------------------------------
(* One call when there are objects in the heap already, as when decode()   *)
(* is given what encode() has just written.                                *)
LEMMA SoundBegins ==
  ASSUME WellBuilt(heap'), Grounded(heap'), schema' \in 0 .. Len(heap'), pc' = "enter",
         session' \in Seq(Seq(Byte)), decodes' \in 0 .. Len(session'),
         bytes' \in Seq(Byte), frames' = <<>>, call' = FirstByte
  PROVE  Sound'
<1>1. frames' \in Seq(Activation) /\ Len(frames') = 0
  BY EmptySeq
<1>2. TypeInv'
  <2>1. call' \in Int
    BY DEF FirstByte
  <2>2. MaxDepth \in Nat /\ heap' \in Seq(Data)
    BY DecoderAssumption DEF WellBuilt
  <2> QED
    BY <1>1, <2>1, <2>2 DEF TypeInv, TypeOK, WaitInv
<1>3. HeapBuilt(heap') /\ Acyclic(heap')
  <2>1. heap' \in Seq(Data)
    BY DEF WellBuilt
  <2>2. IsSeq(heap') /\ DOMAIN heap' = 1 .. Len(heap')
    BY <2>1 DEF IsSeq
  <2> QED
    BY <2>2 DEF HeapBuilt, Acyclic, Grounded, WellBuilt
<1>4. IsSeq(frames') /\ 1 .. Len(frames') = {}
  BY <1>1 DEF IsSeq
<1> QED
  BY <1>2, <1>3, <1>4 DEF Sound, IInv, HeapInv, FrameInv, BuildInv

LEMMA SoundNext == Sound /\ [Next]_vars => Sound'
BY IInvNext, TypeInvNext, BuildInvNext DEF Sound

(* The objects there before stay.                                          *)
LEMMA SoundKeeps ==
  ASSUME Sound, [Next]_vars
  PROVE  DOMAIN heap \subseteq DOMAIN heap' /\ \A d \in DOMAIN heap : heap'[d] = heap[d]
<1>1. IInv /\ IsSeq(heap)
  BY DEF Sound, IInv, HeapInv, Acyclic
<1>2. CASE heap' = heap
  BY <1>2
<1>3. ASSUME NEW d, heap' = Append(heap, d)
      PROVE  DOMAIN heap \subseteq DOMAIN heap' /\ \A e \in DOMAIN heap : heap'[e] = heap[e]
  <2>1. /\ IsSeq(heap') /\ Len(heap') = Len(heap) + 1
        /\ \A e \in 1 .. Len(heap) : heap'[e] = heap[e]
    BY <1>1, <1>3, AppendFacts
  <2>2. /\ Len(heap) \in Nat /\ DOMAIN heap = 1 .. Len(heap)
        /\ DOMAIN heap' = 1 .. Len(heap')
    BY <1>1, <2>1, SeqFacts
  <2> QED
    BY <2>1, <2>2
<1> QED
  BY <1>1, <1>2, <1>3, HeapChanges

(* The document itself may be what is in the heap.                         *)
Decoding(h) ==
  Sound /\ bytes = Wire(h, 1) /\ OnDocument(h) /\ Outcome(h) /\ AlikeTo(h, heap)

(* Then the call starts on it,                                             *)
LEMMA DecodingBegins ==
  ASSUME NEW h \in CleanDocs, \A d \in DOMAIN h : ~ LastChildTwice(h[d]),
         Sound', heap' = h, pc' = "enter", frames' = <<>>, bytes' = Wire(h, 1),
         call' = FirstByte
  PROVE  Decoding(h)'
<1>1. OnDocument(h)' /\ Outcome(h)'
  <2>1. Entering(h, heap', Wire(h, 1), <<>>, FirstByte)
    BY TrailBegins
  <2>2. Entering(h, heap', bytes', frames', call')
    BY <2>1
  <2> QED
    BY <2>2 DEF OnDocument, Outcome
<1>2. AlikeTo(h, heap')
  BY DEF AlikeTo, Alike
<1> QED
  BY <1>1, <1>2 DEF Decoding

(* and is there as long as it runs.                                        *)
LEMMA DecodingNext ==
  ASSUME NEW h \in CleanDocs, Decoding(h), [Step]_vars
  PROVE  Decoding(h)'
<1>1. Sound /\ bytes = Wire(h, 1) /\ OnDocument(h) /\ Outcome(h) /\ AlikeTo(h, heap)
  BY DEF Decoding
<1>2. Sound'
  <2>1. [Next]_vars
    BY DEF Next
  <2> QED
    BY <1>1, <2>1, SoundNext
<1>3. CASE UNCHANGED vars
  BY <1>1, <1>2, <1>3 DEF vars, OnDocument, Outcome, Decoding
<1>4. CASE Step
  <2>1. UNCHANGED bytes
    BY <1>4 DEF Step, EnterComposite, DecodeNumber, DecodeString, DecodeUnknown, StringThrows,
       EnterUndefined, ReadCount, ReadFieldName, ReadSize, DecodeChild, Complete, FrameThrows,
       FrameUndefined, Deliver, Hand, Advance, Stop
  <2>2. ~ (StringThrows \/ EnterUndefined \/ MeetsUnknown) /\ ~ (FrameThrows \/ FrameUndefined)
    BY <1>1, EnterNeverFails, FrameNeverFails
  <2>3. \/ EnterComposite \/ (DecodeNumber \/ DecodeString)
        \/ ReadCount \/ ReadFieldName \/ ReadSize \/ DecodeChild \/ Complete
    BY <1>4, <2>2, Zenon DEF Step, DecodeUnknown
  <2>4. OnDocument(h)' /\ Outcome(h)'
    BY <1>1, <1>2, <2>3, EnterCompositeClean, LeafClean, ReadCountClean, ReadNameClean,
       ReadSizeClean, DecodeChildClean, CompleteClean
  <2>5. CASE DecodeNumber \/ DecodeString
    BY <1>1, <1>2, <2>1, <2>4, <2>5, LeafClean DEF Decoding
  <2>6. CASE Complete
    BY <1>1, <1>2, <2>1, <2>4, <2>6, CompleteClean DEF Decoding
  <2>7. CASE EnterComposite \/ ReadCount \/ ReadFieldName \/ ReadSize \/ DecodeChild
    <3>1. UNCHANGED heap
      BY <2>7 DEF EnterComposite, ReadCount, ReadFieldName, ReadSize, DecodeChild, Advance
    <3>2. AlikeTo(h, heap')
      BY <1>1, <3>1
    <3> QED
      BY <1>1, <1>2, <2>1, <2>4, <3>2 DEF Decoding
  <2> QED
    BY <2>3, <2>5, <2>6, <2>7
<1> QED
  BY <1>3, <1>4

-----------------------------------------------------------------------------
(* The bytes change with a call, and with nothing else.                    *)
LEMMA BytesStay ==
  ASSUME TypeInv, [Next]_vars, decodes' = decodes
  PROVE  UNCHANGED bytes
<1>1. CASE Step
  BY <1>1 DEF Step, EnterComposite, DecodeNumber, DecodeString, DecodeUnknown, StringThrows,
     EnterUndefined, ReadCount, ReadFieldName, ReadSize, DecodeChild, Complete, FrameThrows,
     FrameUndefined, Deliver, Hand, Advance, Stop
<1>2. ~ NextCall
  BY DEF NextCall, Decode, TypeInv, TypeOK
<1>3. CASE UNCHANGED vars
  BY <1>3 DEF vars
<1> QED
  BY <1>1, <1>2, <1>3 DEF Next

(* The bytes that encode() wrote for a document are decoded to the end: no *)
(* read outside the buffer, no unknown type, no exception, however deep and*)
(* whatever calls came before (decoding.cc:28,38,91,142).                  *)
THEOREM CleanNeverFails == HSpec => []CleanStreamsDecode
<1> DEFINE Inv == Sound /\ CleanInv /\ (Clean => ~ unset)
<1>1. HInit => Inv
  <2>1. Init => Sound
    BY IInvInit, TypeInvInit, BuildInvInit DEF Sound
  <2> QED
    BY <2>1, CleanInvInit DEF HInit
<1>2. Inv /\ [HNext]_<<vars, histories>> => Inv'
  <2>1. SUFFICES ASSUME Inv, [HNext]_<<vars, histories>> PROVE Inv'
    OBVIOUS
  <2>2. [Next]_vars
    BY <2>1 DEF HNext, histories
  <2>3. Sound' /\ CleanInv'
    BY <2>1, <2>2, SoundNext, CleanInvNext
  <2>4. ASSUME Clean' PROVE ~ unset'
    <3>1. CASE UNCHANGED <<vars, histories>>
      <4>1. Clean /\ UNCHANGED unset
        BY <2>4, <3>1 DEF Clean, vars, histories
      <4> QED
        BY <2>1, <4>1
    <3>2. CASE HNext /\ decodes' = decodes
      <4>1. UNCHANGED bytes
        BY <2>1, <2>2, <3>2, BytesStay DEF Sound
      <4>2. PICK h \in CleanDocs : bytes = Wire(h, 1)
        BY <2>4, <4>1 DEF Clean, CleanStreams
      <4>3. ~ MeetsUnknown
        BY <2>1, <4>2, EnterNeverFails DEF CleanInv
      <4>4. ~ unset
        BY <2>1, <2>4, <4>1 DEF Clean
      <4> QED
        BY <3>2, <4>3, <4>4 DEF HNext
    <3>3. CASE HNext /\ decodes' # decodes
      BY <3>3 DEF HNext
    <3> QED
      BY <2>1, <3>1, <3>2, <3>3
  <2> QED
    BY <2>3, <2>4
<1>3. Inv => CleanStreamsDecode
  <2>1. SUFFICES ASSUME Inv, Clean PROVE pc \notin {"threw", "undefined"} /\ ~ unset
    BY DEF CleanStreamsDecode
  <2>2. PICK h \in CleanDocs : bytes = Wire(h, 1)
    BY <2>1 DEF Clean, CleanStreams
  <2> QED
    BY <2>1, <2>2 DEF CleanInv, Outcome
<1> QED
  BY <1>1, <1>2, <1>3, PTL DEF HSpec

(* decode() is the inverse of the byte format: what it returns on the bytes*)
(* of a document has these bytes, though the size of a last element may be *)
(* misread (decoding.cc:18-67).                                            *)
THEOREM DecodeIsInverse == Spec => []DecodeInvertsWire
<1>1. CleanInv => DecodeInvertsWire
  <2>1. SUFFICES ASSUME CleanInv, Clean, pc = "returned" PROVE Wire(heap, schema) = bytes
    BY DEF DecodeInvertsWire
  <2>2. PICK h \in CleanDocs : bytes = Wire(h, 1)
    BY <2>1 DEF Clean, CleanStreams
  <2> QED
    BY <2>1, <2>2 DEF CleanInv, Outcome
<1> QED
  BY <1>1, CleanInvHolds, PTL

-----------------------------------------------------------------------------
(* Windows: no size an activation has read is misread.                     *)
SizesRight(fr) == \A k \in DOMAIN fr.sizes : SurvivesVarint(fr.sizes[k])

(* An activation that misread no size is at the end of the last item it    *)
(* read.                                                                   *)
LEMMA RightOnTrack ==
  ASSUME NEW hp, NEW fr, NEW x, NEW c, NEW s, FrameAt(hp, fr, x, c, s), SizesRight(fr)
  PROVE  /\ OnTrack(fr, c)
         /\ \A k \in 1 .. Len(fr.sizes) : fr.sizes[k] = Len(c[k])
<1>1. /\ fr \in Activation /\ ReadSoFar(hp, fr, x, c) /\ Len(fr.sizes) \in Nat
      /\ Len(fr.kids) \in Nat /\ Len(c) \in Nat /\ Len(c) > 0
  <2>1. Len(c) = Len(x.kids) /\ Len(x.kids) \in Nat /\ Len(x.kids) > 0
    BY FrameAtTyped
  <2>2. fr \in Activation /\ Len(fr.sizes) \in Nat /\ Len(fr.kids) \in Nat
    BY FrameAtTyped
  <2> QED
    BY <2>1, <2>2 DEF FrameAt
<1>2. DOMAIN fr.sizes = 1 .. Len(fr.sizes)
  BY <1>1 DEF Activation
<1>3. \A k \in 1 .. Len(fr.sizes) : fr.sizes[k] = Len(c[k])
  BY <1>1, <1>2 DEF ReadSoFar, SizesRight
<1>4. ASSUME ~ (Len(fr.kids) < Len(c)) PROVE SurvivesVarint(fr.sizes[Len(c)])
  <2>1. Len(fr.kids) > 0 /\ Len(fr.sizes) = Len(c)
    BY <1>1, <1>4 DEF ReadSoFar
  <2>2. Len(c) \in DOMAIN fr.sizes
    BY <1>1, <1>2, <2>1
  <2> QED
    BY <2>2 DEF SizesRight
<1> QED
  BY <1>3, <1>4 DEF OnTrack

(* The window that ends at w is exactly the object d's at s.               *)
ExactlyAt(h, d, s, w) ==
  d \in Below(h, 1) /\ s \in Int /\ Len(Wire(h, d)) \in Nat /\ w = s + Len(Wire(h, d)) - 1

RightTrail(h, hp, fs, objs, ats, ends, n) ==
  /\ Trail(h, hp, Wire(h, 1), fs, objs, ats, ends, n)
  /\ n \in Int /\ n >= Len(fs) /\ n <= Len(fs) + 1
  /\ \A l \in 1 .. Len(fs) : SizesRight(Level(fs, l))

(* The parts of this, for one lemma to take from another.                  *)
LEMMA RightTrailIs ==
  ASSUME NEW h, NEW hp, NEW fs, NEW objs, NEW ats, NEW ends, NEW n,
         RightTrail(h, hp, fs, objs, ats, ends, n)
  PROVE  /\ Trail(h, hp, Wire(h, 1), fs, objs, ats, ends, n)
         /\ n \in Int /\ n >= Len(fs) /\ n <= Len(fs) + 1
         /\ \A l \in 1 .. Len(fs) : SizesRight(Level(fs, l))
BY DEF RightTrail

(* Every window then has the length of its object,                         *)
LEMMA WindowExact ==
  ASSUME NEW h \in CleanDocs, NEW hp, NEW fs \in Seq(Activation),
         NEW objs, NEW ats, NEW ends, NEW n, RightTrail(h, hp, fs, objs, ats, ends, n),
         NEW l \in 1 .. n
  PROVE  ExactlyAt(h, objs[l], ats[l], ends[l])
<1> DEFINE T == Trail(h, hp, Wire(h, 1), fs, objs, ats, ends, n)
<1>0. /\ T /\ n \in Int /\ n <= Len(fs) + 1
      /\ \A i \in 1 .. Len(fs) : SizesRight(Level(fs, i))
  BY Zenon, RightTrailIs
<1>1. objs[l] \in Below(h, 1) /\ ats[l] \in Int
  BY <1>0 DEF Trail, Visited
<1>2. Len(Wire(h, objs[l])) \in Nat
  <2>1. Wire(h, objs[l]) \in Seq(Byte)
    BY <1>1, ObjectFacts
  <2> QED
    BY <2>1
<1>3. CASE l = 1
  <2>1. objs[l] = 1 /\ ats[l] = 1 /\ ends[l] = Len(Wire(h, 1))
    BY <1>0, <1>3 DEF Trail, FirstByte
  <2> QED
    BY <1>1, <1>2, <2>1 DEF ExactlyAt
<1>4. CASE l # 1
  <2>1. PICK m \in Int : m = l - 1
    OBVIOUS
  <2>2. /\ m \in 1 .. n - 1 /\ m \in 1 .. n /\ m \in 1 .. Len(fs) /\ m + 1 = l
    <3>1. Len(fs) \in Nat
      BY LenProperties
    <3> QED
      BY <1>0, <1>4, <2>1, <3>1
  <2>3. PICK fr, d, c, s, k : /\ fr = Level(fs, m) /\ d = objs[m] /\ c = KidBytes(h, d)
                              /\ s = ats[m] /\ k = Len(fr.kids) + 1
    OBVIOUS
  <2>4. /\ Calls(h, fr, d, objs[l], ats[l], ends[l]) /\ Activated(h, hp, fr, d, s)
        /\ Visited(h, Wire(h, 1), d, s, m)
    BY <1>0, <2>2, <2>3 DEF Trail
  <2>5. /\ KidWanted(fr) /\ objs[l] = h[d].kids[k] /\ ats[l] = fr.at
        /\ ends[l] = fr.at + fr.sizes[k] - 1
    BY <2>3, <2>4 DEF Calls
  <2>6. FrameAt(hp, fr, h[d], c, s) /\ d \in Below(h, 1) /\ SizesRight(fr)
    BY <1>0, <2>2, <2>3, <2>4 DEF Activated, Visited
  <2>7. k \in 1 .. Len(c) /\ k \in 1 .. Len(fr.sizes) /\ Len(c) = Len(h[d].kids)
    <3>1. Len(fr.sizes) = Len(c) /\ Len(fr.kids) < Len(c)
      BY <2>5, <2>6, NextIsKid, ZenonT(30)
    <3>2. Len(fr.kids) \in Nat /\ Len(c) = Len(h[d].kids) /\ Len(h[d].kids) \in Nat
      BY <2>6, FrameAtTyped
    <3> QED
      BY <2>3, <3>1, <3>2
  <2>8. fr.sizes[k] = Len(c[k])
    BY <2>6, <2>7, RightOnTrack
  <2>9. c[k] = Wire(h, objs[l])
    BY <2>3, <2>5, <2>6, <2>7, ObjectFacts
  <2> QED
    BY <1>1, <1>2, <2>5, <2>8, <2>9 DEF ExactlyAt
<1> QED
  BY <1>1, <1>2, <1>3, <1>4

(* an activation is in it,                                                 *)
LEMMA InWindow ==
  ASSUME NEW h \in CleanDocs, NEW hp, NEW fs \in Seq(Activation),
         NEW objs, NEW ats, NEW ends, NEW n, RightTrail(h, hp, fs, objs, ats, ends, n),
         NEW l \in 1 .. Len(fs)
  PROVE  /\ Level(fs, l).at > ats[l] /\ Level(fs, l).at <= ends[l] + 1
         /\ AllThere(Level(fs, l)) => Level(fs, l).at = ends[l] + 1
         /\ Level(fs, l).at \in Int /\ ends[l] \in Int
<1>1. PICK fr, d, c, s : /\ fr = Level(fs, l) /\ d = objs[l] /\ c = KidBytes(h, d) /\ s = ats[l]
  OBVIOUS
<1> DEFINE T == Trail(h, hp, Wire(h, 1), fs, objs, ats, ends, n)
<1>0. /\ T /\ n \in Int /\ n >= Len(fs)
      /\ \A i \in 1 .. Len(fs) : SizesRight(Level(fs, i))
  BY Zenon, RightTrailIs
<1>2. l \in 1 .. n
  BY <1>0, LenProperties
<1>3. /\ d \in Below(h, 1) /\ s \in Int /\ Len(Wire(h, d)) \in Nat
      /\ ends[l] = s + Len(Wire(h, d)) - 1
  <2>1. ExactlyAt(h, objs[l], ats[l], ends[l])
    BY <1>2, WindowExact
  <2> QED
    BY <1>1, <2>1 DEF ExactlyAt
<1>4. FrameAt(hp, fr, h[d], c, s) /\ SizesRight(fr)
  BY <1>0, <1>1 DEF Trail, Activated
<1>5. OnTrack(fr, c)
  BY <1>4, RightOnTrack
<1>6. Wire(h, d) = ObjectBytes(h[d], c)
  BY <1>1, <1>3, ObjectFacts
<1>7. /\ fr.at > s /\ fr.at <= s + Len(ObjectBytes(h[d], c))
      /\ AllThere(fr) => fr.at = s + Len(ObjectBytes(h[d], c))
  BY <1>3, <1>4, <1>5, FrameSpan
<1>8. fr.at \in Int
  BY <1>4, FrameAtTyped
<1>9. PICK a, w : a = fr.at /\ w = Len(Wire(h, d))
  OBVIOUS
<1>10. /\ a > s /\ a <= ends[l] + 1 /\ (AllThere(fr) => a = ends[l] + 1) /\ ends[l] \in Int
  BY <1>3, <1>4, <1>6, <1>7, <1>8, <1>9
<1> QED
  BY <1>1, <1>8, <1>9, <1>10

(* and so is the window of the level above, behind what was read.          *)
LEMMA WindowInWindow ==
  ASSUME NEW h \in CleanDocs, NEW hp, NEW fs \in Seq(Activation),
         NEW objs, NEW ats, NEW ends, NEW n, RightTrail(h, hp, fs, objs, ats, ends, n),
         NEW l \in 1 .. Len(fs), l > 1
  PROVE  ends[l] <= ends[l - 1] /\ Level(fs, l).at > Level(fs, l - 1).at
<1>1. PICK m \in Int : m = l - 1
  OBVIOUS
<1> DEFINE T == Trail(h, hp, Wire(h, 1), fs, objs, ats, ends, n)
<1>0. T /\ n \in Int /\ n >= Len(fs)
  BY Zenon, RightTrailIs
<1>2. m \in 1 .. n - 1 /\ m \in 1 .. n /\ m \in 1 .. Len(fs) /\ m + 1 = l /\ l \in 1 .. n
  <2>1. Len(fs) \in Nat
    BY LenProperties
  <2> QED
    BY <1>0, <1>1, <2>1
<1>3. PICK fr, d, c, s, k : /\ fr = Level(fs, m) /\ d = objs[m] /\ c = KidBytes(h, d)
                            /\ s = ats[m] /\ k = Len(fr.kids) + 1
  OBVIOUS
<1>4. /\ Calls(h, fr, d, objs[l], ats[l], ends[l]) /\ Activated(h, hp, fr, d, s)
  BY <1>0, <1>2, <1>3 DEF Trail
<1>5. /\ KidWanted(fr) /\ objs[l] = h[d].kids[k] /\ ats[l] = fr.at
  BY <1>3, <1>4 DEF Calls
<1>6. Level(fs, l).at > ats[l]
  BY InWindow, Zenon
<1>8. /\ d \in Below(h, 1) /\ s \in Int /\ Len(Wire(h, d)) \in Nat
      /\ ends[m] = s + Len(Wire(h, d)) - 1
  <2>1. ExactlyAt(h, objs[m], ats[m], ends[m])
    BY <1>2, WindowExact
  <2> QED
    BY <1>3, <2>1 DEF ExactlyAt
<1>9. ends[l] = ats[l] + Len(Wire(h, objs[l])) - 1
  <2>1. ExactlyAt(h, objs[l], ats[l], ends[l])
    BY <1>2, WindowExact
  <2> QED
    BY <2>1 DEF ExactlyAt
<1>10. FrameAt(hp, fr, h[d], c, s)
  BY <1>3, <1>4 DEF Activated
<1>11. PICK p : p = Pos(h[d], c, 2 + Len(h[d].names) + Len(c) + k)
  OBVIOUS
<1>12. /\ k \in 1 .. Len(c) /\ Len(c[k]) \in Nat /\ fr.at + Len(c[k]) = s + p /\ s + p \in Int
       /\ p <= Len(Wire(h, d))
  <2>1. LET i == Len(fr.kids) + 1
            q == 2 + Len(h[d].names) + Len(c) + i
        IN  /\ i \in 1 .. Len(c) /\ Len(c[i]) \in Nat /\ c[i] \in Seq(Byte)
            /\ fr.at + Len(c[i]) = s + Pos(h[d], c, q) /\ s + Pos(h[d], c, q) \in Int
            /\ Pos(h[d], c, q) <= Len(ObjectBytes(h[d], c))
            /\ \A b \in Seq(Byte) : Stands(b, s, ObjectBytes(h[d], c)) => Stands(b, fr.at, c[i])
    BY <1>5, <1>8, <1>10, KidThere, Zenon
  <2>2. Wire(h, d) = ObjectBytes(h[d], c)
    BY <1>3, <1>8, ObjectFacts
  <2> QED
    BY <1>3, <1>11, <2>1, <2>2, Zenon
<1>13. c[k] = Wire(h, objs[l])
  <2>1. Len(c) = Len(h[d].kids)
    BY <1>10, FrameAtTyped
  <2>2. k \in 1 .. Len(h[d].kids)
    BY <1>12, <2>1
  <2>3. KidBytes(h, d)[k] = Wire(h, h[d].kids[k])
    BY <1>8, <2>2, ObjectFacts
  <2> QED
    BY <1>3, <1>5, <2>3
<1>14. fr.at \in Int
  BY <1>10, FrameAtTyped
<1>15. PICK a, e, w, kw : a = fr.at /\ e = ends[l] /\ w = Len(Wire(h, d)) /\ kw = Len(c[k])
  OBVIOUS
<1>16. /\ a \in Int /\ kw \in Nat /\ w \in Nat /\ a + kw = s + p /\ p <= w
       /\ e = a + kw - 1 /\ ends[m] = s + w - 1 /\ s + p \in Int
  BY <1>5, <1>8, <1>9, <1>12, <1>13, <1>14, <1>15
<1>18. e <= ends[m]
  <2>1. ReadableObject(h[d], c) /\ Len(h[d].names) \in Nat /\ Len(c) \in Nat
    <3>1. ReadableObject(h[d], c)
      BY <1>10, FrameAtTyped
    <3> QED
      BY <3>1, ReadableTyped
  <2>2. Len(Items(h[d], c)) = 2 + Len(h[d].names) + Len(c) + Len(c)
    BY <2>1, PosEnds
  <2>3. 2 + Len(h[d].names) + Len(c) + k \in 1 .. Len(Items(h[d], c))
    BY <1>12, <2>1, <2>2
  <2>4. p \in Nat
    BY <1>11, <2>1, <2>3, PosBounds
  <2> QED
    BY <1>8, <1>16, <2>4
<1> QED
  BY <1>1, <1>3, <1>5, <1>6, <1>15, <1>18

-----------------------------------------------------------------------------
(* Between two calls there is no activation.                               *)
RestInv == pc \in {"idle", "returned"} => frames = <<>>

(* No step leaves one behind.                                              *)
LEMMA RestInvHolds == Spec => []RestInv
<1>1. Init => RestInv
  BY DEF Init, RestInv
<1>2. RestInv /\ [Next]_vars => RestInv'
  <2> SUFFICES ASSUME RestInv, [Next]_vars PROVE RestInv'
    OBVIOUS
  <2>1. CASE EnterComposite \/ DecodeChild \/ NextCall
    <3>1. pc' \in {"enter", "frame"}
      BY <2>1, Zenon DEF EnterComposite, DecodeChild, NextCall, Decode
    <3> QED
      BY <3>1 DEF RestInv
  <2>2. CASE DecodeNumber \/ DecodeString \/ DecodeUnknown \/ Complete
    <3>1. PICK ptr, below : Hand(ptr, below)
      BY <2>2, Zenon DEF DecodeNumber, DecodeString, DecodeUnknown, Complete, Deliver
    <3> QED
      BY <3>1 DEF Hand, RestInv
  <2>3. CASE StringThrows \/ EnterUndefined \/ FrameThrows \/ FrameUndefined
    <3>1. pc' \in {"threw", "undefined"}
      BY <2>3, Zenon DEF StringThrows, EnterUndefined, FrameThrows, FrameUndefined, Stop
    <3> QED
      BY <3>1 DEF RestInv
  <2>4. CASE ReadCount \/ ReadFieldName \/ ReadSize
    <3>1. pc = "frame" /\ pc' = pc
      BY <2>4 DEF ReadCount, ReadFieldName, ReadSize, WantsCount, WantsName, WantsSize,
                  InFrame, Advance
    <3> QED
      BY <3>1 DEF RestInv
  <2>5. CASE UNCHANGED vars
    BY <2>5 DEF vars, RestInv
  <2> QED
    BY <2>1, <2>2, <2>3, <2>4, <2>5 DEF Next, Step
<1> QED
  BY <1>1, <1>2, PTL DEF Spec

(* The frames of a decoder whose sizes were read right, level by level.    *)
LEMMA RightNow ==
  ASSUME Sound, CleanInv, SizesReadRight, pc \in {"enter", "frame"},
         NEW h \in CleanDocs, bytes = Wire(h, 1)
  PROVE  \E objs, ats, ends, n :
           /\ RightTrail(h, heap, frames, objs, ats, ends, n)
           /\ pc = "enter" => /\ n = Len(frames) + 1 /\ ats[n] = call
                              /\ Started(h, objs[n])
<1>1. frames \in Seq(Activation) /\ Len(frames) \in Nat
  <2>1. frames \in Seq(Activation)
    BY DEF Sound, TypeInv, TypeOK
  <2> QED
    BY <2>1, LenProperties
<1>2. OnDocument(h)
  BY DEF CleanInv
<1>3. ASSUME NEW l \in 1 .. Len(frames) PROVE SizesRight(Level(frames, l))
  <2>1. Len(frames) + 1 - l \in 1 .. Len(frames)
    BY <1>1
  <2> QED
    BY <2>1 DEF SizesReadRight, SizesRight, Level
<1>4. CASE pc = "enter"
  <2>1. PICK objs, ats, ends :
          /\ Trail(h, heap, bytes, frames, objs, ats, ends, Len(frames) + 1)
          /\ ats[Len(frames) + 1] = call /\ Started(h, objs[Len(frames) + 1])
    BY <1>2, <1>4, LevelStarts
  <2>2. PICK n : n = Len(frames) + 1
    OBVIOUS
  <2>3. n \in Int /\ n >= Len(frames) /\ n <= Len(frames) + 1
    BY <1>1, <2>2
  <2>4. Trail(h, heap, Wire(h, 1), frames, objs, ats, ends, n)
    BY <2>1, <2>2
  <2>5. ats[n] = call /\ Started(h, objs[n])
    BY <2>1, <2>2
  <2> QED
    BY <1>3, <2>2, <2>3, <2>4, <2>5, Zenon DEF RightTrail
<1>5. CASE pc = "frame"
  <2>1. PICK objs, ats, ends :
          Trail(h, heap, bytes, frames, objs, ats, ends, Len(frames))
    BY <1>2, <1>5 DEF OnDocument, Running
  <2>2. PICK n : n = Len(frames)
    OBVIOUS
  <2>3. n \in Int /\ n >= Len(frames) /\ n <= Len(frames) + 1
    BY <1>1, <2>2
  <2>4. Trail(h, heap, Wire(h, 1), frames, objs, ats, ends, n)
    BY <2>1, <2>2
  <2> QED
    BY <1>3, <1>5, <2>3, <2>4, Zenon DEF RightTrail
<1> QED
  BY <1>4, <1>5

(* The windows are those of the levels: level l is the activation f from   *)
(* the top,                                                                *)
LEMMA WindowOfLevel ==
  ASSUME frames \in Seq(Activation), NEW h \in CleanDocs, bytes = Wire(h, 1),
         NEW objs, NEW ats, NEW ends, NEW n, RightTrail(h, heap, frames, objs, ats, ends, n),
         NEW l \in 1 .. Len(frames)
  PROVE  WindowEnd(Len(frames) + 1 - l) = ends[l]
<1>1. PICK m \in Nat : m = Len(frames)
  BY LenProperties
<1>2. PICK f \in Int : f = m + 1 - l
  BY <1>1
<1>3. Trail(h, heap, bytes, frames, objs, ats, ends, n) /\ n \in Int /\ n >= m
  BY <1>1, RightTrailIs
<1>4. CASE l = 1
  <2>1. f = Len(frames) /\ ends[l] = Len(bytes)
    BY <1>1, <1>2, <1>3, <1>4 DEF Trail
  <2> QED
    BY <1>1, <1>2, <2>1 DEF WindowEnd
<1>5. CASE l # 1
  <2>1. PICK i \in Int : i = l - 1
    OBVIOUS
  <2>2. i \in 1 .. n - 1 /\ i + 1 = l /\ m + 1 - i = f + 1 /\ f # m
    BY <1>1, <1>2, <1>3, <1>5, <2>1
  <2>3. PICK fr, up : fr = frames[f] /\ up = frames[f + 1]
    OBVIOUS
  <2>4. Level(frames, l) = fr /\ Level(frames, i) = up
    BY <1>1, <1>2, <2>2, <2>3 DEF Level
  <2>5. Calls(h, up, objs[i], objs[l], ats[l], ends[l]) /\ Activated(h, heap, fr, objs[l], ats[l])
    BY <1>3, <2>2, <2>4 DEF Trail
  <2>6. fr.charBytes = ats[l]
    BY <2>5 DEF Activated, FrameAt
  <2>7. ats[l] = up.at /\ ends[l] = up.at + up.sizes[Len(up.kids) + 1] - 1
    BY <2>5 DEF Calls
  <2>8. WindowEnd(f) = fr.charBytes + up.sizes[Len(up.kids) + 1] - 1
    BY <1>1, <2>2, <2>3 DEF WindowEnd, NextSize
  <2> QED
    BY <1>1, <1>2, <2>6, <2>7, <2>8
<1> QED
  BY <1>4, <1>5

(* the last one the element that is about to be read.                      *)
LEMMA WindowOfCall ==
  ASSUME frames \in Seq(Activation), NEW h \in CleanDocs, bytes = Wire(h, 1),
         NEW objs, NEW ats, NEW ends,
         RightTrail(h, heap, frames, objs, ats, ends, Len(frames) + 1),
         ats[Len(frames) + 1] = call
  PROVE  CallEnd = call + Len(Wire(h, objs[Len(frames) + 1])) - 1
<1>1. PICK m, n \in Nat : m = Len(frames) /\ n = m + 1
  BY LenProperties
<1>2. Trail(h, heap, bytes, frames, objs, ats, ends, n) /\ RightTrail(h, heap, frames, objs, ats, ends, n)
  BY <1>1, RightTrailIs
<1>3. ends[n] = call + Len(Wire(h, objs[n])) - 1
  <2>1. ExactlyAt(h, objs[n], ats[n], ends[n])
    BY <1>1, <1>2, WindowExact
  <2> QED
    BY <1>1, <2>1 DEF ExactlyAt
<1>4. CallEnd = ends[n]
  <2>1. CASE frames = <<>>
    <3>1. n = 1
      BY <1>1, <2>1, EmptySeq
    <3> QED
      BY <1>2, <2>1, <3>1 DEF Trail, CallEnd
  <2>2. CASE frames # <<>>
    <3>1. m \in 1 .. n - 1 /\ Level(frames, m) = frames[1]
      BY <1>1, <2>2, ElementOfSeq, LevelTop
    <3>2. Calls(h, frames[1], objs[m], objs[n], ats[n], ends[n])
      BY <1>1, <1>2, <3>1 DEF Trail
    <3> QED
      BY <1>1, <2>2, <3>2 DEF Calls, CallEnd, NextSize
  <2> QED
    BY <2>1, <2>2
<1> QED
  BY <1>1, <1>3, <1>4

(* Where the activations are, f counted from the top.                      *)
LEMMA WindowsNow ==
  ASSUME Sound, CleanInv, RestInv, Clean, SizesReadRight, NEW f \in 1 .. Len(frames)
  PROVE  /\ frames[f].at <= WindowEnd(f) + 1
         /\ AllThere(frames[f]) => frames[f].at = WindowEnd(f) + 1
         /\ f < Len(frames) =>
              /\ WindowEnd(f) <= WindowEnd(f + 1)
              /\ frames[f].at > frames[f+1].at
<1>1. PICK h \in CleanDocs : bytes = Wire(h, 1)
  BY DEF Clean, CleanStreams
<1>2. frames \in Seq(Activation) /\ Len(frames) \in Nat /\ frames # <<>>
  <2>1. frames \in Seq(Activation)
    BY DEF Sound, TypeInv, TypeOK
  <2>2. Len(frames) \in Nat
    BY <2>1, LenProperties
  <2> QED
    BY <2>1, <2>2, EmptySeq
<1>3. PICK objs, ats, ends, n : RightTrail(h, heap, frames, objs, ats, ends, n)
  <2>1. OnDocument(h) /\ Outcome(h) /\ pc \notin {"idle", "returned"}
    BY <1>1, <1>2 DEF CleanInv, RestInv
  <2>2. pc \in {"idle", "enter", "frame", "returned", "threw", "undefined"}
    BY DEF Sound, TypeInv, TypeOK
  <2>3. pc \in {"enter", "frame"}
    BY <2>1, <2>2 DEF Outcome
  <2> QED
    BY <1>1, <2>3, RightNow
<1>4. PICK l \in Int : l = Len(frames) + 1 - f
  <2>1. Len(frames) + 1 - f \in Int
    BY <1>2
  <2> QED
    BY <2>1
<1>5. /\ l \in 1 .. Len(frames) /\ Level(frames, l) = frames[f]
      /\ f < Len(frames) => l > 1 /\ Level(frames, l - 1) = frames[f+1]
      /\ Len(frames) + 1 - l = f /\ Len(frames) + 1 - (l - 1) = f + 1
  <2>1. l \in 1 .. Len(frames) /\ Len(frames) + 1 - l = f /\ Len(frames) + 1 - (l - 1) = f + 1
    BY <1>2, <1>4
  <2>2. f < Len(frames) => l > 1
    BY <1>2, <1>4
  <2> QED
    BY <2>1, <2>2 DEF Level
<1>6. /\ Level(frames, l).at > ats[l] /\ Level(frames, l).at <= ends[l] + 1
      /\ AllThere(Level(frames, l)) => Level(frames, l).at = ends[l] + 1
      /\ Level(frames, l).at \in Int /\ ends[l] \in Int
  BY <1>2, <1>3, <1>5, InWindow, Zenon
<1>7. WindowEnd(f) = ends[l]
  BY <1>1, <1>2, <1>3, <1>5, WindowOfLevel
<1>8. ASSUME f < Len(frames)
      PROVE  WindowEnd(f) <= WindowEnd(f + 1) /\ frames[f].at > frames[f+1].at
  <2>1. ends[l] <= ends[l - 1] /\ Level(frames, l).at > Level(frames, l - 1).at
    BY <1>2, <1>3, <1>5, <1>8, WindowInWindow
  <2>2. WindowEnd(f + 1) = ends[l - 1]
    <3>1. l - 1 \in 1 .. Len(frames)
      BY <1>2, <1>5, <1>8
    <3> QED
      BY <1>1, <1>2, <1>3, <1>5, <3>1, WindowOfLevel
  <2> QED
    BY <1>5, <1>7, <1>8, <2>1, <2>2
<1> QED
  BY <1>5, <1>6, <1>7, <1>8

(* The comment at decoding.cc:25, for every document: an activation that   *)
(* reads an element is never behind the window that the size its parent has*)
(* read gives it, and this window is inside the one of the activation      *)
(* below, of which nothing is read twice.                                  *)
THEOREM WindowsAlwaysNest == Spec => []WindowsNest
<1>1. Sound /\ CleanInv /\ RestInv => WindowsNest
  <2>1. Sound => DOMAIN frames = 1 .. Len(frames)
    BY DEF Sound, TypeInv, TypeOK
  <2> QED
    BY <2>1, WindowsNow DEF WindowsNest
<1> QED
  BY <1>1, CleanInvHolds, RestInvHolds, PTL

(* A primitive ends where the window of its element does.                  *)
LEMMA PrimitiveFills ==
  ASSUME Sound, CleanInv, Clean, SizesReadRight, pc = "enter"
  PROVE  /\ Branch(NumberTypes) => VarintEnd(bytes, call + 1) = CallEnd
         /\ Branch({"STRING"}) => AfterLength + Length - 1 = CallEnd
<1>1. PICK h \in CleanDocs : bytes = Wire(h, 1)
  BY DEF Clean, CleanStreams
<1>2. bytes \in Seq(Byte) /\ frames \in Seq(Activation) /\ call \in Int
  BY DEF Sound, TypeInv, TypeOK
<1>3. PICK objs, ats, ends :
        /\ RightTrail(h, heap, frames, objs, ats, ends, Len(frames) + 1)
        /\ ats[Len(frames) + 1] = call /\ Started(h, objs[Len(frames) + 1])
  BY <1>1, RightNow
<1>4. PICK d, l : d = objs[Len(frames) + 1] /\ l \in Nat /\ l = Len(frames) + 1
  <2>1. Len(frames) + 1 \in Nat
    BY <1>2, LenProperties
  <2> QED
    BY <2>1
<1>5. /\ Visited(h, bytes, d, call, l)
      /\ Branch(NumberTypes) <=> h[d].type \in NumberTypes
      /\ Branch({"STRING"}) <=> h[d].type = "STRING"
  BY <1>3, <1>4, Branches DEF Started
<1>6. Len(Wire(h, d)) \in Nat
  <2>1. Wire(h, d) \in Seq(Byte)
    BY <1>5, ObjectFacts DEF Visited
  <2> QED
    BY <2>1
<1>7. PICK w \in Int : w = call + Len(Wire(h, d))
  BY <1>2, <1>6
<1>8. CallEnd = w - 1
  BY <1>1, <1>2, <1>3, <1>4, <1>7, WindowOfCall
<1>9. ASSUME Branch(NumberTypes) PROVE VarintEnd(bytes, call + 1) = CallEnd
  <2>1. NumberAt(h, bytes, d, call)
    BY <1>2, <1>4, <1>5, <1>9, NumberLeaf
  <2>2. VarintReadable(bytes, call + 1) /\ VarintEnd(bytes, call + 1) + 1 = w
    BY <1>7, <2>1 DEF NumberAt
  <2>3. VarintEnd(bytes, call + 1) \in Nat
    <3>1. call + 1 \in Int
      BY <1>2
    <3> QED
      BY <2>2, <3>1, ReadTyped DEF Sound, TypeInv
  <2> QED
    BY <1>8, <2>2, <2>3
<1>10. ASSUME Branch({"STRING"}) PROVE AfterLength + Length - 1 = CallEnd
  <2>1. AfterLength \in Nat /\ Length \in Nat /\ AfterLength + Length = w
    BY <1>2, <1>4, <1>5, <1>7, <1>10, StringLeaf DEF StringAt, AfterLength, Length
  <2> QED
    BY <1>8, <2>1
<1> QED
  BY <1>9, <1>10

(* And it fills this window: the size that the activation below skips is   *)
(* the size of what was read, a composite or a primitive                   *)
(* (decoding.cc:37-67,88-93).                                              *)
THEOREM WindowsAlwaysFilled == Spec => []WindowsAreFilled
<1>1. Sound /\ CleanInv /\ RestInv => WindowsAreFilled
  <2> SUFFICES ASSUME Sound, CleanInv, RestInv, Clean, SizesReadRight
               PROVE  /\ HasAll => This.at = WindowEnd(1) + 1
                      /\ Branch(NumberTypes) => VarintEnd(bytes, call + 1) = CallEnd
                      /\ Branch({"STRING"}) => AfterLength + Length - 1 = CallEnd
    BY DEF WindowsAreFilled
  <2>1. ASSUME HasAll PROVE This.at = WindowEnd(1) + 1
    <3>1. frames \in Seq(Activation) /\ frames # <<>>
      BY <2>1 DEF Sound, TypeInv, TypeOK, IInv, FrameInv, HasAll, WantsNothing, InFrame
    <3>2. 1 \in 1 .. Len(frames)
      BY <3>1, ElementOfSeq
    <3>3. AllThere(frames[1])
      BY <2>1 DEF AllThere, HasAll, WantsNothing, WantsCount, WantsName, WantsSize, WantsChild,
             This, CountWanted, NameWanted, SizeWanted, KidWanted
    <3> QED
      BY <3>2, <3>3, WindowsNow DEF This
  <2>2. Branch(NumberTypes) \/ Branch({"STRING"}) => pc = "enter"
    BY DEF Branch
  <2> QED
    BY <2>1, <2>2, PrimitiveFills
<1> QED
  BY <1>1, CleanInvHolds, RestInvHolds, PTL

-----------------------------------------------------------------------------
(* What a caller holds between two calls that return.                      *)
KeepInv ==
  /\ pc = "frame" => bytes # <<>>
  /\ last = <<>> <=> schema = NULL
  /\ last \in CleanStreams => schema \in DOMAIN heap /\ Wire(heap, schema) = last

(* A document has bytes,                                                   *)
LEMMA DocHasBytes == <<>> \notin CleanStreams
<1>1. ASSUME NEW h \in CleanDocs PROVE Wire(h, 1) # <<>>
  <2>1. 1 \in Below(h, 1)
    BY DocFacts, BelowClosed
  <2>2. Len(Wire(h, 1)) > 0
    BY <2>1, WireStarts
  <2> QED
    BY <2>2, EmptySeq
<1> QED
  BY <1>1 DEF CleanStreams

(* and keeps them when an object is added to the heap.                     *)
LEMMA HeapKept ==
  ASSUME Sound, Sound', NEW d, heap' = Append(heap, d)
  PROVE  \A e \in DOMAIN heap : e \in DOMAIN heap' /\ Wire(heap', e) = Wire(heap, e)
<1>1. WellBuilt(heap) /\ Grounded(heap) /\ heap \in Seq(Data)
  <2>1. HeapBuilt(heap) /\ Acyclic(heap)
    BY DEF Sound, BuildInv, IInv, HeapInv
  <2> QED
    BY <2>1, SoundHeap
<1>2. WellBuilt(heap') /\ Grounded(heap')
  <2>1. HeapBuilt(heap') /\ Acyclic(heap')
    BY DEF Sound, BuildInv, IInv, HeapInv
  <2> QED
    BY <2>1, SoundHeap
<1>3. /\ Len(heap') = Len(heap) + 1 /\ Len(heap) \in Nat
      /\ DOMAIN heap = 1 .. Len(heap) /\ DOMAIN heap' = 1 .. Len(heap')
      /\ \A e \in 1 .. Len(heap) : heap'[e] = heap[e]
  <2>1. IsSeq(heap)
    BY <1>1 DEF IsSeq
  <2>2. /\ IsSeq(heap') /\ Len(heap') = Len(heap) + 1
        /\ \A e \in 1 .. Len(heap) : heap'[e] = heap[e]
    BY <2>1, AppendFacts
  <2> QED
    BY <2>1, <2>2, SeqFacts
<1>4. DOMAIN heap \subseteq DOMAIN heap' /\ \A e \in DOMAIN heap : heap'[e] = heap[e]
  BY <1>3
<1> QED
  BY <1>1, <1>2, <1>4, WireExtended

(* A pointer is returned by an activation that had bytes to read.          *)
LEMMA HandKeeps ==
  ASSUME Sound, Sound', CleanInv', KeepInv, bytes # <<>>, NEW ptr, NEW below,
         Hand(ptr, below), ptr # NULL, heap' = heap \/ \E d : heap' = Append(heap, d),
         last' = IF pc' = "returned" THEN bytes' ELSE last
  PROVE  KeepInv'
<1>1. bytes' = bytes
  BY DEF Hand
<1>2. \A e \in DOMAIN heap : e \in DOMAIN heap' /\ Wire(heap', e) = Wire(heap, e)
  <2>1. CASE heap' = heap
    BY <2>1
  <2>2. CASE \E d : heap' = Append(heap, d)
    BY <2>2, HeapKept
  <2> QED
    BY <2>1, <2>2
<1>3. CASE below = <<>>
  <2>1. pc' = "returned" /\ schema' = ptr /\ last' = bytes'
    BY <1>3 DEF Hand
  <2>2. ASSUME last' \in CleanStreams
        PROVE  schema' \in DOMAIN heap' /\ Wire(heap', schema') = last'
    <3>1. PICK h \in CleanDocs : bytes' = Wire(h, 1)
      BY <2>1, <2>2 DEF CleanStreams
    <3> QED
      BY <2>1, <3>1 DEF CleanInv, Outcome
  <2>3. last' # <<>> /\ pc' # "frame"
    BY <1>1, <2>1
  <2> QED
    BY <2>1, <2>2, <2>3 DEF KeepInv, CleanStreams
<1>4. CASE below # <<>>
  <2>1. schema' = schema /\ pc' = "frame"
    BY <1>4 DEF Hand
  <2>2. last' = last
    BY <2>1
  <2>3. ASSUME last' \in CleanStreams
        PROVE  schema' \in DOMAIN heap' /\ Wire(heap', schema') = last'
    BY <1>2, <2>1, <2>2, <2>3 DEF KeepInv, CleanStreams
  <2> QED
    BY <1>1, <2>1, <2>2, <2>3 DEF KeepInv, CleanStreams
<1> QED
  BY <1>3, <1>4

(* The pointers returned are not null.                                     *)
LEMMA Handed ==
  ASSUME Sound, DecodeNumber \/ DecodeString \/ DecodeUnknown \/ Complete
  PROVE  \E ptr, below : /\ Hand(ptr, below) /\ ptr # NULL
                         /\ heap' = heap \/ \E d : heap' = Append(heap, d)
<1>1. heap \in Seq(Data)
  BY DEF Sound, TypeInv, TypeOK
<1>2. Len(heap) \in Nat /\ DOMAIN heap = 1 .. Len(heap)
  BY <1>1, LenProperties
<1>3. ASSUME NEW d, NEW below, Deliver(d, below)
      PROVE  Hand(NewPtr, below) /\ NewPtr # NULL /\ heap' = Append(heap, d)
  BY <1>2, <1>3 DEF Deliver, NewPtr, NULL
<1>4. CASE \E d, below : Deliver(d, below)
  BY <1>3, <1>4
<1>5. CASE \E ptr \in DOMAIN heap : Hand(ptr, frames) /\ UNCHANGED heap
  <2>1. PICK ptr \in DOMAIN heap : Hand(ptr, frames) /\ UNCHANGED heap
    BY <1>5
  <2>2. ptr # NULL
    BY <1>2 DEF NULL
  <2> QED
    BY <2>1, <2>2
<1>6. (\E d, below : Deliver(d, below)) \/ \E ptr \in DOMAIN heap : Hand(ptr, frames) /\ UNCHANGED heap
  BY Zenon DEF DecodeNumber, DecodeString, DecodeUnknown, Complete
<1> QED
  BY <1>4, <1>5, <1>6

(* No other step changes what it holds.                                    *)
LEMMA KeepInvNext ==
  Sound /\ Sound' /\ CleanInv' /\ KeepInv /\ [HNext]_<<vars, histories>> => KeepInv'
<1> SUFFICES ASSUME Sound, Sound', CleanInv', KeepInv, [HNext]_<<vars, histories>> PROVE KeepInv'
  OBVIOUS
<1>1. ASSUME heap' = heap, schema' = schema, last' = last, pc' = "frame" => bytes' # <<>>
      PROVE  KeepInv'
  BY <1>1 DEF KeepInv, CleanStreams
<1>2. CASE UNCHANGED <<vars, histories>>
  <2>1. /\ heap' = heap /\ schema' = schema /\ last' = last
        /\ pc' = pc /\ bytes' = bytes
    BY <1>2 DEF vars, histories
  <2> QED
    BY <1>1, <2>1 DEF KeepInv
<1>3. CASE HNext
  <2>1. Next /\ last' = IF pc' = "returned" THEN bytes' ELSE last
    BY <1>3 DEF HNext
  <2>2. CASE NextCall
    <3>1. /\ heap' = heap /\ schema' = schema /\ pc' = "enter"
      BY <2>2 DEF NextCall, Decode, SchemaAtEntry
    <3> QED
      BY <1>1, <2>1, <3>1
  <2>3. CASE DecodeNumber \/ DecodeString \/ DecodeUnknown \/ Complete
    <3>1. bytes # <<>>
      <4>1. pc = "frame" \/ Readable
        BY <2>3, Zenon DEF DecodeNumber, DecodeString, DecodeUnknown, MeetsUnknown, Complete, HasAll,
                           WantsNothing, InFrame, Branch
      <4>2. Readable => bytes # <<>>
        <5>1. bytes \in Seq(Byte)
          BY DEF Sound, TypeInv, TypeOK
        <5> QED
          BY <5>1, EmptySeq DEF Readable
      <4> QED
        BY <4>1, <4>2 DEF KeepInv
    <3>2. PICK ptr, below : /\ Hand(ptr, below) /\ ptr # NULL
                            /\ heap' = heap \/ \E d : heap' = Append(heap, d)
      BY <2>3, Handed
    <3> QED
      BY <2>1, <3>1, <3>2, HandKeeps
  <2>4. CASE EnterComposite
    <3>1. Readable /\ heap' = heap /\ schema' = schema /\ pc' = "frame" /\ bytes' = bytes
      BY <2>4 DEF EnterComposite, Branch
    <3>2. bytes # <<>>
      <4>1. bytes \in Seq(Byte)
        BY DEF Sound, TypeInv, TypeOK
      <4> QED
        BY <3>1, <4>1, EmptySeq DEF Readable
    <3> QED
      BY <1>1, <2>1, <3>1, <3>2
  <2>5. CASE ReadCount \/ ReadFieldName \/ ReadSize
    <3>1. pc = "frame"
      BY <2>5 DEF ReadCount, ReadFieldName, ReadSize, WantsCount, WantsName, WantsSize, InFrame
    <3>2. heap' = heap /\ schema' = schema /\ pc' = pc /\ bytes' = bytes
      BY <2>5 DEF ReadCount, ReadFieldName, ReadSize, Advance
    <3> QED
      BY <1>1, <2>1, <3>1, <3>2 DEF KeepInv
  <2>6. CASE StringThrows \/ EnterUndefined \/ FrameThrows \/ FrameUndefined \/ DecodeChild
    <3>1. heap' = heap /\ schema' = schema /\ pc' \in {"threw", "undefined", "enter"}
      BY <2>6 DEF StringThrows, EnterUndefined, FrameThrows, FrameUndefined, Stop, DecodeChild
    <3> QED
      BY <1>1, <2>1, <3>1
  <2> QED
    BY <2>1, <2>2, <2>3, <2>4, <2>5, <2>6, Zenon DEF Next, Step
<1> QED
  BY <1>2, <1>3

(* decode() gives out one Schema, a member (decoding.cc:18): from a call   *)
(* that returned until the next that returns it is the document of that    *)
(* call, in the middle of a call and after any that threw.                 *)
THEOREM CallerKeepsDocument == HSpec => []SchemaKeepsLast
<1> DEFINE Inv == Sound /\ CleanInv /\ KeepInv
<1>1. HInit => Inv
  <2>1. Init => Sound
    BY IInvInit, TypeInvInit, BuildInvInit DEF Sound
  <2>2. HInit => KeepInv
    BY DocHasBytes DEF HInit, Init, KeepInv
  <2> QED
    BY <2>1, <2>2, CleanInvInit DEF HInit
<1>2. Inv /\ [HNext]_<<vars, histories>> => Inv'
  <2>1. SUFFICES ASSUME Inv, [HNext]_<<vars, histories>> PROVE Inv'
    OBVIOUS
  <2>2. [Next]_vars
    BY <2>1 DEF HNext, histories
  <2>3. Sound' /\ CleanInv'
    BY <2>1, <2>2, SoundNext, CleanInvNext
  <2> QED
    BY <2>1, <2>3, KeepInvNext
<1>3. Inv => SchemaKeepsLast
  BY DEF KeepInv, SchemaKeepsLast
<1> QED
  BY <1>1, <1>2, <1>3, PTL DEF HSpec

-----------------------------------------------------------------------------
(* What a call that met no unknown type byte has stored so far: objects of *)
(* its own, each one set.                                                  *)
YoungFrom(n, kids) == \A k \in DOMAIN kids : kids[k] > n

YoungInv ==
  /\ start \in 0 .. Len(heap)
  /\ ~ unset =>
       /\ \A d \in start + 1 .. Len(heap) : heap[d] # Wild /\ YoungFrom(start, heap[d].kids)
       /\ \A f \in 1 .. Len(frames) : YoungFrom(start, frames[f].kids)
       /\ pc = "returned" => schema > start

(* An activation is handed a younger pointer, the others keep theirs.      *)
LEMMA HandYoung ==
  ASSUME NEW n \in Nat, NEW ptr \in Nat, ptr > n, NEW below, IsSeq(below), NEW m,
         Hand(ptr, below),
         \A f \in 1 .. Len(below) : FrameOK(below[f], m) /\ YoungFrom(n, below[f].kids)
  PROVE  /\ \A f \in 1 .. Len(frames') : YoungFrom(n, frames'[f].kids)
         /\ pc' = "returned" => schema' > n
<1>1. CASE below = <<>>
  <2>1. frames' = <<>> /\ schema' = ptr
    BY <1>1 DEF Hand
  <2>2. Len(<<>>) = 0
    BY EmptySeq
  <2> QED
    BY <2>1, <2>2
<1>2. CASE below # <<>>
  <2>1. frames' = [below EXCEPT ![1] = WithElement(below[1], ptr)] /\ pc' = "frame"
    BY <1>2 DEF Hand
  <2>2. Len(below) \in Nat /\ Len(below) >= 1 /\ DOMAIN below = 1 .. Len(below)
    <3>1. PICK S : below \in Seq(S)
      BY DEF IsSeq
    <3> QED
      BY <1>2, <3>1, EmptySeq
  <2>3. /\ Len(frames') = Len(below)
        /\ \A f \in 1 .. Len(below) :
             frames'[f] = IF f = 1 THEN WithElement(below[1], ptr) ELSE below[f]
    BY <1>2, <2>1, FirstReplaced
  <2>4. YoungFrom(n, WithElement(below[1], ptr).kids)
    <3>1. IsSeq(below[1].kids) /\ YoungFrom(n, below[1].kids) /\ DOMAIN below[1] = FrameNames
      BY <2>2 DEF FrameOK, IsSeq
    <3>2. WithElement(below[1], ptr).kids = Append(below[1].kids, ptr)
      BY <3>1 DEF WithElement, FrameNames
    <3>3. PICK kids : kids = below[1].kids
      OBVIOUS
    <3>4. /\ Len(kids) \in Nat /\ DOMAIN kids = 1 .. Len(kids)
          /\ IsSeq(Append(kids, ptr)) /\ Len(Append(kids, ptr)) = Len(kids) + 1
          /\ \A k \in 1 .. Len(kids) : Append(kids, ptr)[k] = kids[k]
          /\ Append(kids, ptr)[Len(kids) + 1] = ptr
      BY <3>1, <3>3, AppendFacts, SeqFacts
    <3>5. DOMAIN Append(kids, ptr) = 1 .. Len(kids) + 1
      BY <3>4, SeqFacts
    <3>6. ASSUME NEW k \in 1 .. Len(kids) + 1 PROVE Append(kids, ptr)[k] > n
      <4>1. CASE k \in 1 .. Len(kids)
        BY <3>1, <3>3, <3>4, <4>1 DEF YoungFrom
      <4>2. CASE k = Len(kids) + 1
        BY <3>4, <4>2
      <4> QED
        BY <3>4, <3>6, <4>1, <4>2
    <3> QED
      BY <3>2, <3>3, <3>5, <3>6 DEF YoungFrom
  <2>5. ASSUME NEW f \in 1 .. Len(frames') PROVE YoungFrom(n, frames'[f].kids)
    <3>1. f \in 1 .. Len(below)
      BY <2>3
    <3> QED
      BY <2>3, <2>4, <3>1
  <2> QED
    BY <2>1, <2>5
<1> QED
  BY <1>1, <1>2

(* An activation delivers an object that was set, with younger elements.   *)
LEMMA DeliverYoung ==
  ASSUME IInv, YoungInv, ~ unset, NEW d, d # Wild, YoungFrom(start, d.kids),
         NEW below, IsSeq(below), Deliver(d, below), start' = start,
         \A f \in 1 .. Len(below) : FrameOK(below[f], Len(heap)) /\ YoungFrom(start, below[f].kids)
  PROVE  YoungInv'
<1>1. /\ IsSeq(heap) /\ Len(heap) \in Nat /\ start \in Nat /\ start <= Len(heap)
      /\ heap' = Append(heap, d) /\ Hand(Len(heap) + 1, below)
  BY SeqFacts DEF IInv, HeapInv, Acyclic, YoungInv, Deliver, NewPtr
<1>2. /\ Len(heap') = Len(heap) + 1
      /\ \A k \in 1 .. Len(heap) : heap'[k] = heap[k]
      /\ heap'[Len(heap) + 1] = d
  BY <1>1, AppendFacts
<1>3. ASSUME NEW k \in start + 1 .. Len(heap') PROVE heap'[k] # Wild /\ YoungFrom(start, heap'[k].kids)
  <2>1. CASE k = Len(heap) + 1
    BY <1>2, <2>1
  <2>2. CASE k # Len(heap) + 1
    <3>1. k \in 1 .. Len(heap) /\ k \in start + 1 .. Len(heap)
      BY <1>1, <1>2, <2>2
    <3> QED
      BY <1>2, <3>1 DEF YoungInv
  <2> QED
    BY <2>1, <2>2
<1>4. /\ \A f \in 1 .. Len(frames') : YoungFrom(start, frames'[f].kids)
      /\ pc' = "returned" => schema' > start
  <2>1. Len(heap) + 1 \in Nat /\ Len(heap) + 1 > start
    BY <1>1
  <2> QED
    BY <1>1, <2>1, HandYoung
<1>5. start' \in 0 .. Len(heap')
  BY <1>1, <1>2
<1> QED
  BY <1>3, <1>4, <1>5 DEF YoungInv, YoungFrom

(* The other steps store no pointer.                                       *)
LEMMA FramesYoung ==
  ASSUME YoungInv, ~ unset, UNCHANGED <<heap, start>>, pc' # "returned",
         \A f \in 1 .. Len(frames') : \/ frames'[f].kids = <<>>
                                      \/ \E g \in 1 .. Len(frames) : frames'[f].kids = frames[g].kids
  PROVE  YoungInv'
<1>1. \A f \in 1 .. Len(frames') : YoungFrom(start, frames'[f].kids)
  <2>1. DOMAIN <<>> = {}
    BY EmptySeq
  <2> QED
    BY <2>1 DEF YoungInv, YoungFrom
<1> QED
  BY <1>1 DEF YoungInv, YoungFrom

LEMMA AdvanceYoung ==
  ASSUME IInv, YoungInv, ~ unset, UNCHANGED start, pc = "frame", NEW fr, Advance(fr),
         fr.kids = This.kids
  PROVE  YoungInv'
<1>1. frames' = [frames EXCEPT ![1] = fr] /\ UNCHANGED <<heap, pc>>
  BY DEF Advance
<1>2. IsSeq(frames) /\ frames # <<>>
  BY DEF IInv, FrameInv
<1>3. /\ Len(frames') = Len(frames)
      /\ \A f \in 1 .. Len(frames) : frames'[f] = IF f = 1 THEN fr ELSE frames[f]
  BY <1>1, <1>2, FirstReplaced
<1>4. \A f \in 1 .. Len(frames') : \E g \in 1 .. Len(frames) : frames'[f].kids = frames[g].kids
  BY <1>3 DEF This
<1> QED
  BY <1>1, <1>4, FramesYoung

LEMMA EnterCompositeYoung ==
  ASSUME IInv, YoungInv, ~ unset, UNCHANGED start, EnterComposite
  PROVE  YoungInv'
<1> DEFINE fr == [type   |-> TaggedType,
                  charBytes |-> call,
                  at     |-> call + 1,
                  numofFields |-> IF TaggedType = "MAP" THEN 2 ELSE NotRead,
                  names |-> <<>>, sizes |-> <<>>, kids |-> <<>>]
<1>1. frames' = <<fr>> \o frames /\ UNCHANGED heap /\ pc' = "frame"
  BY Zenon DEF EnterComposite
<1>2. fr.kids = <<>>
  OBVIOUS
<1> HIDE DEF fr
<1>3. PICK S : frames \in Seq(S)
  BY DEF IInv, FrameInv, IsSeq
<1> DEFINE T == S \cup {fr}
<1>4. frames \in Seq(T) /\ <<fr>> \in Seq(T)
  BY <1>3, SeqMonotonic
<1> HIDE DEF T
<1>5. /\ frames' \in Seq(T) /\ Len(frames') = Len(frames) + 1
      /\ \A f \in 1 .. Len(frames') : frames'[f] = IF f = 1 THEN fr ELSE frames[f-1]
  BY <1>1, <1>4
<1>6. ASSUME NEW f \in 1 .. Len(frames')
      PROVE  \/ frames'[f].kids = <<>>
             \/ \E g \in 1 .. Len(frames) : frames'[f].kids = frames[g].kids
  <2>1. f # 1 => f - 1 \in 1 .. Len(frames)
    BY <1>4, <1>5
  <2> QED
    BY <1>2, <1>5, <2>1
<1> QED
  BY <1>1, <1>6, FramesYoung

LEMMA CompleteYoung ==
  ASSUME Sound, YoungInv, ~ unset, UNCHANGED start, Complete
  PROVE  YoungInv'
<1> DEFINE d == [type |-> This.type, value |-> <<>>, kids |-> This.kids, names |-> This.names]
<1>1. pc = "frame" /\ Deliver(d, Tail(frames))
  BY DEF Complete, HasAll, WantsNothing, InFrame
<1>2. /\ IInv /\ IsSeq(frames) /\ frames # <<>> /\ frames \in Seq(Activation)
      /\ \A f \in 1 .. Len(frames) : FrameOK(frames[f], Len(heap)) /\ YoungFrom(start, frames[f].kids)
  BY <1>1 DEF Sound, IInv, FrameInv, YoungInv, TypeInv, TypeOK
<1>3. Len(frames) \in Nat /\ Len(frames) > 0
  BY <1>2
<1>4. d # Wild /\ YoungFrom(start, d.kids)
  <2>1. This \in Activation /\ YoungFrom(start, This.kids)
    BY <1>2, <1>3 DEF This
  <2>2. This.type # "WILD"
    BY <2>1 DEF Activation, CompositeTypes
  <2> QED
    BY <2>1, <2>2 DEF Wild
<1> HIDE DEF d
<1>5. /\ IsSeq(Tail(frames)) /\ Len(Tail(frames)) = Len(frames) - 1
      /\ \A f \in 1 .. Len(frames) - 1 : Tail(frames)[f] = frames[f+1]
  BY <1>2, TailFacts
<1>6. \A f \in 1 .. Len(Tail(frames)) :
        FrameOK(Tail(frames)[f], Len(heap)) /\ YoungFrom(start, Tail(frames)[f].kids)
  BY <1>2, <1>3, <1>5
<1> QED
  BY <1>1, <1>2, <1>4, <1>5, <1>6, DeliverYoung

LEMMA PrimitiveYoung ==
  ASSUME IInv, YoungInv, ~ unset, UNCHANGED start, DecodeNumber \/ DecodeString
  PROVE  YoungInv'
<1>1. PICK t, v : t # "WILD" /\ Deliver(Primitive(t, v), frames)
  <2>1. CASE DecodeNumber
    <3>1. Branch(NumberTypes) /\ NumberTypes \subseteq DOMAIN TypeCode
      BY <2>1 DEF DecodeNumber, NumberTypes, TypeCode
    <3>2. TaggedType \in NumberTypes
      BY <3>1, TagTyped
    <3>3. TaggedType # "WILD"
      BY <3>2 DEF NumberTypes
    <3> QED
      BY <2>1, <3>3 DEF DecodeNumber
  <2>2. CASE DecodeString
    BY <2>2 DEF DecodeString, NewString
  <2> QED
    BY <2>1, <2>2
<1>2. Primitive(t, v) # Wild /\ YoungFrom(start, Primitive(t, v).kids)
  <2>1. DOMAIN <<>> = {}
    BY EmptySeq
  <2> QED
    BY <1>1, <2>1 DEF Primitive, Wild, YoungFrom
<1>3. IsSeq(frames) /\ \A f \in 1 .. Len(frames) :
        FrameOK(frames[f], Len(heap)) /\ YoungFrom(start, frames[f].kids)
  BY DEF IInv, FrameInv, YoungInv
<1> QED
  BY <1>1, <1>2, <1>3, DeliverYoung

LEMMA YoungInvNext ==
  ASSUME Sound, YoungInv, [HNext]_<<vars, histories>>
  PROVE  YoungInv'
<1>1. CASE UNCHANGED <<vars, histories>>
  BY <1>1 DEF vars, histories, YoungInv, YoungFrom
<1>2. CASE HNext /\ NextCall
  <2>1. heap' = heap /\ frames' = <<>> /\ pc' = "enter" /\ decodes' # decodes
    BY <1>2 DEF NextCall, Decode, Sound, TypeInv, TypeOK
  <2>2. start' = Len(heap) /\ heap \in Seq(Data)
    BY <1>2, <2>1 DEF HNext, Sound, TypeInv, TypeOK
  <2>3. start' \in 0 .. Len(heap') /\ Len(<<>>) = 0 /\ start' + 1 .. Len(heap') = {}
    BY <2>1, <2>2, EmptySeq
  <2>4. 1 .. Len(frames') = {}
    BY <2>1, <2>3
  <2> QED
    BY <2>1, <2>3, <2>4 DEF YoungInv
<1>3. CASE HNext /\ Step
  <2>1. decodes' = decodes
    BY <1>3 DEF Step, EnterComposite, DecodeNumber, DecodeString, DecodeUnknown, StringThrows,
       EnterUndefined, ReadCount, ReadFieldName, ReadSize, DecodeChild, Complete, FrameThrows,
       FrameUndefined, Deliver, Hand, Advance, Stop
  <2>2. UNCHANGED start /\ (unset' <=> (unset \/ MeetsUnknown)) /\ IInv
    BY <1>3, <2>1 DEF HNext, Sound
  <2>3. CASE unset'
    <3>1. start \in 0 .. Len(heap) /\ Len(heap) \in Nat /\ Len(heap') \in Nat /\ Len(heap') >= Len(heap)
      <4>1. [Next]_vars /\ IsSeq(heap)
        BY <1>3 DEF HNext, Sound, IInv, HeapInv, Acyclic
      <4>2. heap' = heap \/ \E d : heap' = Append(heap, d)
        BY <2>2, <4>1, HeapChanges
      <4>3. Len(heap) \in Nat
        BY <4>1, SeqFacts
      <4>4. Len(heap') = Len(heap) \/ Len(heap') = Len(heap) + 1
        BY <4>1, <4>2, AppendFacts
      <4> QED
        BY <4>3, <4>4 DEF YoungInv
    <3> QED
      BY <2>2, <2>3, <3>1 DEF YoungInv
  <2>4. CASE ~ unset'
    <3>1. ~ unset /\ ~ DecodeUnknown
      BY <2>2, <2>4 DEF DecodeUnknown
    <3>2. CASE EnterComposite
      BY <2>2, <3>1, <3>2, EnterCompositeYoung
    <3>3. CASE DecodeNumber \/ DecodeString
      BY <2>2, <3>1, <3>3, PrimitiveYoung
    <3>4. CASE Complete
      BY <2>2, <3>1, <3>4, CompleteYoung
    <3>5. CASE StringThrows \/ EnterUndefined \/ FrameThrows \/ FrameUndefined \/ DecodeChild
      <4>1. UNCHANGED <<heap, frames>> /\ pc' \in {"threw", "undefined", "enter"}
        BY <3>5 DEF StringThrows, EnterUndefined, FrameThrows, FrameUndefined, Stop, DecodeChild
      <4> QED
        BY <2>2, <3>1, <4>1, FramesYoung
    <3>6. CASE ReadCount \/ ReadFieldName \/ ReadSize
      <4>1. pc = "frame"
        BY <3>6 DEF ReadCount, ReadFieldName, ReadSize, WantsCount, WantsName, WantsSize, InFrame
      <4>2. DOMAIN This = FrameNames
        <5>1. 1 \in 1 .. Len(frames)
          BY <4>1 DEF Sound, IInv, FrameInv, TypeInv, TypeOK
        <5> QED
          BY <2>2, <5>1 DEF IInv, FrameInv, FrameOK, This
      <4>3. \E fr : Advance(fr) /\ fr.kids = This.kids
        <5>1. CASE ReadCount
          <6>1. [This EXCEPT !.numofFields = IntValue, !.at = Behind].kids = This.kids
            BY <4>2 DEF FrameNames
          <6> QED
            BY <5>1, <6>1 DEF ReadCount
        <5>2. CASE ReadFieldName
          <6> DEFINE name == SubSeq(bytes, Behind, Behind + IntValue - 1)
                     fr   == [This EXCEPT !.names = Append(@, name), !.at = Behind + IntValue]
          <6>1. fr.kids = This.kids
            BY <4>2 DEF FrameNames
          <6>2. Advance(fr)
            BY <5>2 DEF ReadFieldName
          <6> QED
            BY <6>1, <6>2
        <5>3. CASE ReadSize
          <6> DEFINE fr == [This EXCEPT !.sizes = Append(@, Value), !.at = Behind]
          <6>1. fr.kids = This.kids
            BY <4>2 DEF FrameNames
          <6>2. Advance(fr)
            BY <5>3 DEF ReadSize
          <6> QED
            BY <6>1, <6>2
        <5> QED
          BY <3>6, <5>1, <5>2, <5>3
      <4> QED
        BY <2>2, <3>1, <4>1, <4>3, AdvanceYoung
    <3> QED
      BY <1>3, <3>1, <3>2, <3>3, <3>4, <3>5, <3>6 DEF Step
  <2> QED
    BY <2>3, <2>4
<1> QED
  BY <1>1, <1>2, <1>3 DEF HNext, Next

(* Every element of a decoded object is older than the object, whatever the*)
(* bytes.  As long as a call meets no unknown type byte, all it stores, and*)
(* what it returns, are objects of its own, never one of an earlier call,  *)
(* and no pointer that was not set (decoding.cc:46,58,60,74,142).          *)
THEOREM PointersOld == HSpec => []PointersAreOld
<1> DEFINE Inv == Sound /\ OlderKids /\ YoungInv
<1>1. HInit => Inv
  <2>1. Init => Sound
    BY IInvInit, TypeInvInit, BuildInvInit DEF Sound
  <2>2. Len(<<>>) = 0
    BY EmptySeq
  <2> QED
    BY <2>1, <2>2 DEF HInit, Init, OlderKids, YoungInv
<1>2. Inv /\ [HNext]_<<vars, histories>> => Inv'
  <2>1. SUFFICES ASSUME Inv, [HNext]_<<vars, histories>> PROVE Inv'
    OBVIOUS
  <2>2. [Next]_vars
    BY <2>1 DEF HNext, histories
  <2>3. Sound' /\ OlderKids'
    BY <2>1, <2>2, SoundNext, OlderKidsNext DEF Sound
  <2> QED
    BY <2>1, <2>3, YoungInvNext
<1>3. Inv => PointersAreOld
  <2> SUFFICES ASSUME IInv, OlderKids, YoungInv PROVE PointersAreOld
    BY DEF Sound
  <2>1. /\ Len(heap) \in Nat /\ DOMAIN heap = 1 .. Len(heap) /\ DOMAIN frames = 1 .. Len(frames)
        /\ start \in 0 .. Len(heap)
    BY SeqFacts DEF IInv, HeapInv, Acyclic, FrameInv, YoungInv
  <2>2. \A f \in 1 .. Len(frames) : frames[f].kids \in Seq(1 .. Len(heap))
    BY DEF IInv, FrameInv, FrameOK
  <2>3. ASSUME NEW n \in Nat, NEW kids \in Seq(1 .. n), NEW k \in DOMAIN kids
        PROVE  kids[k] \in 1 .. n
    BY <2>3
  <2>4. ASSUME NEW f \in 1 .. Len(frames), NEW k \in DOMAIN frames[f].kids
        PROVE  frames[f].kids[k] \in 1 .. Len(heap)
    BY <2>1, <2>2, <2>3
  <2>5. ASSUME NEW d \in DOMAIN heap, NEW k \in DOMAIN heap[d].kids
        PROVE  heap[d].kids[k] \in 1 .. d - 1
    <3>1. d - 1 \in Nat /\ heap[d].kids \in Seq(1 .. d - 1)
      BY <2>1 DEF OlderKids
    <3> QED
      BY <2>3, <3>1
  <2>6. ASSUME ~ unset
        PROVE  /\ \A d \in start + 1 .. Len(heap) :
                    heap[d] # Wild /\ \A k \in DOMAIN heap[d].kids : heap[d].kids[k] > start
               /\ \A f \in DOMAIN frames : \A k \in DOMAIN frames[f].kids :
                    frames[f].kids[k] > start
               /\ pc = "returned" => schema > start
    BY <2>1, <2>6 DEF YoungInv, YoungFrom
  <2> QED
    BY <2>1, <2>4, <2>5, <2>6 DEF PointersAreOld
<1> QED
  BY <1>1, <1>2, <1>3, PTL DEF HSpec
=============================================================================
