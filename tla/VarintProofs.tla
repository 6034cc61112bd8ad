---------------------------- MODULE VarintProofs ----------------------------
(***************************************************************************)
(* Proofs about the loops of VarintLoops, for every radix, every set of    *)
(* values and either signedness of char: the loops are typed, end where    *)
(* they should, and compute the operators of Varint.                       *)
(***************************************************************************)
EXTENDS VarintLoops, DataLemmas

(* A group is a number below the radix, and what is left is an integer     *)
(* that is negative when the value was.                                    *)
LEMMA GroupOfValue ==
  ASSUME NEW v \in Int
  PROVE  /\ v % Radix \in 0 .. Radix - 1
         /\ v \div Radix \in Int
         /\ v < 0 => v \div Radix < 0
         /\ v > 0 => 0 <= v \div Radix /\ v \div Radix < v
<1>1. Radix \in Nat /\ Radix > 9
  BY VarintAssumption
<1>2. v % Radix \in 0 .. Radix - 1 /\ v \div Radix \in Int
  BY <1>1
<1>3. v = Radix * (v \div Radix) + (v % Radix)
  BY <1>1
<1>4. ASSUME NEW q \in Int, NEW r \in 0 .. Radix - 1, v = Radix * q + r
      PROVE  /\ v < 0 => q < 0
             /\ v > 0 => 0 <= q /\ q < v
  <2>1. q >= 0 => Radix * q >= q + q
    BY <1>1
  <2>2. q < 0 => Radix * q + Radix <= 0
    <3>1. SUFFICES ASSUME q < 0 PROVE Radix * (q + 1) <= 0
      BY <1>1
    <3> QED
      BY <1>1, <3>1
  <2>3. Radix * q \in Int
    BY <1>1
  <2> QED
    BY <1>1, <1>4, <2>1, <2>2, <2>3
<1> QED
  BY <1>2, <1>3, <1>4

-----------------------------------------------------------------------------
(* The inductive invariant.  A negative number stays negative; a number of *)
(* n groups is at least Weight[n] as long as something is left; the last   *)
(* byte emitted ends the run of bytes, so the decoder reads no other byte; *)
(* every index is a position of the sequence it is used on.                *)
SplitInv ==
  /\ input < 0 => pc = "split" /\ value < 0
  /\ input >= 0 =>
       /\ value >= 0
       /\ Len(bytes_) <= MaxGroups
       /\ value = 0 \/ ( /\ Len(bytes_) < MaxGroups
                         /\ value * Weight[Len(bytes_)] <= input )

IndexInv ==
  /\ pc = "split" => encodedBytes = <<>> /\ charArray = <<>>
  /\ pc = "emit" => /\ i \in 0 .. Len(bytes_)
                    /\ i + Len(encodedBytes) = Len(bytes_)
                    /\ charArray = <<>>
                    /\ i = 0 /\ encodedBytes # <<>> =>
                         ~ HasMore(encodedBytes[Len(encodedBytes)])
  /\ pc = "read" => /\ i \in 1 .. Len(encodedBytes)
                    /\ Len(charArray) = i - 1
                    /\ Len(encodedBytes) <= MaxGroups
                    /\ ~ HasMore(encodedBytes[Len(encodedBytes)])
  /\ pc \in {"clear", "add"} => /\ i \in 1 .. Len(charArray)
                                /\ Len(charArray) <= MaxGroups

LoopInv == TypeOK /\ SplitInv /\ IndexInv

LEMMA ConstantsTyped ==
  /\ Radix \in Nat /\ Radix > 9
  /\ MaxGroups \in Nat /\ MaxGroups > 0
  /\ MaxLoops \in Nat /\ MaxLoops >= MaxGroups
  /\ \A k \in 0 .. MaxGroups - 1 : Weight[k] \in Nat /\ Weight[k] > 0
BY VarintAssumption, VarintLoopsAssumption

LEMMA LoopInvInit == Init => LoopInv
<1> SUFFICES ASSUME Init PROVE LoopInv
  OBVIOUS
<1>1. input \in Int
  BY VarintLoopsAssumption DEF Init
<1>2. TypeOK
  BY <1>1, ConstantsTyped DEF Init, TypeOK
<1>3. input * Weight[0] = input
  BY <1>1, VarintAssumption
<1>4. SplitInv
  BY <1>1, <1>3, ConstantsTyped DEF Init, SplitInv
<1>5. IndexInv
  BY DEF Init, IndexInv
<1> QED
  BY <1>2, <1>4, <1>5 DEF LoopInv

(* A group taken from a number that is not negative: what is left, times   *)
(* the next weight, is still no more than the argument.                    *)
LEMMA WeightBound ==
  ASSUME NEW x \in Nat, NEW v \in Nat, v > 0, NEW n \in 0 .. MaxGroups - 1,
         v * Weight[n] <= x, x < Radix * Weight[MaxGroups - 1]
  PROVE  \/ v \div Radix = 0
         \/ /\ n + 1 <= MaxGroups - 1
            /\ (v \div Radix) * Weight[n+1] <= x
<1> DEFINE q == v \div Radix
           w == Weight[n]
<1>1. w \in Nat /\ w > 0 /\ Radix \in Nat /\ Radix > 9
  BY ConstantsTyped
<1>2. q \in Nat /\ Radix * q <= v
  <2>1. v % Radix \in Nat /\ q \in Nat
    BY <1>1
  <2>2. v = Radix * q + (v % Radix)
    BY <1>1
  <2> QED
    BY <1>1, <2>1, <2>2
<1> HIDE DEF q, w
<1>3. (Radix * q) * w <= v * w
  BY <1>1, <1>2
<1>4. (Radix * q) * w <= x
  BY <1>1, <1>2, <1>3 DEF w
<1>5. CASE n = MaxGroups - 1
  <2>1. (Radix * w) * q < Radix * w
    BY <1>1, <1>2, <1>4, <1>5 DEF w
  <2>2. q = 0
    BY <1>1, <1>2, <2>1
  <2> QED
    BY <2>2 DEF q
<1>6. CASE n < MaxGroups - 1
  <2>1. Weight[n+1] = Radix * w
    BY <1>6, VarintAssumption DEF w
  <2>2. q * (Radix * w) <= x
    BY <1>1, <1>2, <1>4
  <2> QED
    BY <1>6, <2>1, <2>2, ConstantsTyped DEF q
<1> QED
  BY <1>5, <1>6, ConstantsTyped

LEMMA LoopInvNext == LoopInv /\ [Next]_vars => LoopInv'
<1> SUFFICES ASSUME LoopInv, [Next]_vars PROVE LoopInv'
  OBVIOUS
<1> USE DEF LoopInv
<1>1. input \in Int /\ input < Radix * Weight[MaxGroups - 1]
  BY VarintLoopsAssumption DEF TypeOK
<1>2. CASE TakeGroup
  <2>1. value' = value \div Radix /\ bytes_' = Append(bytes_, value % Radix)
    BY <1>2 DEF TakeGroup, Group, Shifted
  <2>2. /\ value % Radix \in 0 .. Radix - 1 /\ value' \in Int
        /\ value < 0 => value' < 0
        /\ value > 0 => 0 <= value'
    BY <2>1, GroupOfValue DEF TypeOK
  <2>3. /\ bytes_' \in Seq(0 .. Radix - 1)
        /\ Len(bytes_') = Len(bytes_) + 1
    BY <2>1, <2>2 DEF TypeOK
  <2>4. TypeOK'
    BY <1>2, <2>2, <2>3, ConstantsTyped DEF TakeGroup, Group, Shifted, TypeOK
  <2>5. SplitInv'
    <3>1. CASE input < 0
      BY <1>1, <1>2, <2>2, <3>1 DEF TakeGroup, Group, Shifted, SplitInv
    <3>2. CASE input >= 0
      <4>1. value > 0 /\ value \in Nat /\ input \in Nat
        BY <1>1, <1>2, <3>2 DEF TakeGroup, Group, Shifted, SplitInv, TypeOK
      <4>2. /\ Len(bytes_) \in 0 .. MaxGroups - 1
            /\ value * Weight[Len(bytes_)] <= input
        BY <3>2, <4>1, ConstantsTyped DEF SplitInv, TypeOK
      <4>3. \/ value' = 0
            \/ /\ Len(bytes_) + 1 <= MaxGroups - 1
               /\ value' * Weight[Len(bytes_) + 1] <= input
        BY <1>1, <2>1, <4>1, <4>2, WeightBound
      <4>4. value' >= 0 /\ Len(bytes_') <= MaxGroups
        BY <2>2, <2>3, <4>1, <4>2, ConstantsTyped
      <4>5. \/ value' = 0
            \/ /\ Len(bytes_') < MaxGroups
               /\ value' * Weight[Len(bytes_')] <= input
        BY <2>3, <4>2, <4>3, ConstantsTyped
      <4> QED
        BY <1>1, <1>2, <3>2, <4>4, <4>5 DEF TakeGroup, Group, Shifted, SplitInv
    <3> QED
      BY <1>1, <3>1, <3>2
  <2>6. IndexInv'
    BY <1>2 DEF TakeGroup, Group, Shifted, IndexInv
  <2> QED
    BY <2>4, <2>5, <2>6
<1>3. CASE EndSplit
  BY <1>3 DEF EndSplit, TypeOK, SplitInv, IndexInv
<1>4. CASE EmitGroup
  <2>0. i \in 1 .. Len(bytes_)
    BY <1>4 DEF EmitGroup, Marked, IndexInv, TypeOK
  <2>1. bytes_[i] \in 0 .. Radix - 1
    BY <2>0, ElementOfSeq DEF TypeOK
  <2> DEFINE b == bytes_[i] + (IF i # 1 THEN Radix ELSE 0)
  <2>2. b \in Byte /\ (i = 1 => ~ HasMore(b))
    BY <2>1, ConstantsTyped DEF Byte, HasMore
  <2>3. encodedBytes' = Append(encodedBytes, b)
    BY <1>4 DEF EmitGroup, Marked
  <2> HIDE DEF b
  <2>4. /\ encodedBytes' \in Seq(Byte)
        /\ Len(encodedBytes') = Len(encodedBytes) + 1
        /\ encodedBytes'[Len(encodedBytes')] = b
    BY <2>2, <2>3 DEF TypeOK
  <2>5. TypeOK' /\ SplitInv'
    BY <1>4, <2>0, <2>4 DEF EmitGroup, Marked, TypeOK, SplitInv
  <2>6. i' = i - 1 /\ UNCHANGED <<pc, bytes_, charArray>> /\ pc = "emit"
    BY <1>4 DEF EmitGroup
  <2>7. i' \in 0 .. Len(bytes_) /\ i' + Len(encodedBytes') = Len(bytes_) /\ charArray = <<>>
    BY <2>0, <2>4, <2>6, SMTT(30) DEF TypeOK, IndexInv
  <2>8. i' = 0 => ~ HasMore(encodedBytes'[Len(encodedBytes')])
    BY <2>0, <2>2, <2>4, <2>6
  <2>9. IndexInv'
    BY <2>6, <2>7, <2>8 DEF IndexInv, HasMore
  <2> QED
    BY <2>5, <2>9
<1>5. CASE HandOver
  <2>1. Len(encodedBytes) = Len(bytes_) /\ Len(encodedBytes) >= 1
    BY <1>5 DEF HandOver, TypeOK, IndexInv
  <2>2. Len(encodedBytes) <= MaxGroups
    BY <1>1, <1>5, <2>1 DEF HandOver, SplitInv
  <2> QED
    BY <1>5, <2>1, <2>2 DEF HandOver, TypeOK, SplitInv, IndexInv
<1>6. CASE NothingToRead
  BY <1>6 DEF NothingToRead, TypeOK, SplitInv, IndexInv
<1>7. CASE ReadByte
  <2>1. i \in 1 .. Len(encodedBytes) /\ encodedBytes[i] \in Byte
    BY <1>7 DEF ReadByte, IndexInv, TypeOK
  <2>2. encodedBytes[i] \in Int
    BY <2>1, ConstantsTyped DEF Byte
  <2>3. /\ charArray' \in Seq(Int)
        /\ Len(charArray') = i
    BY <1>7, <2>1, <2>2 DEF ReadByte, IndexInv, TypeOK
  <2>4. HasMore(encodedBytes[i]) => i # Len(encodedBytes)
    BY <1>7 DEF ReadByte, IndexInv
  <2>5. TypeOK' /\ SplitInv'
    BY <1>7, <2>1, <2>3 DEF ReadByte, TypeOK, SplitInv
  <2>6. CASE HasMore(encodedBytes[i])
    <3>1. i + 1 \in 1 .. Len(encodedBytes)
      BY <2>1, <2>4, <2>6 DEF TypeOK
    <3> QED
      BY <1>7, <2>1, <2>3, <2>5, <2>6, <3>1 DEF ReadByte, IndexInv, HasMore
  <2>7. CASE ~ HasMore(encodedBytes[i])
    BY <1>7, <2>1, <2>3, <2>5, <2>7, ConstantsTyped DEF ReadByte, TypeOK, IndexInv
  <2> QED
    BY <2>6, <2>7
<1>8. CASE ClearHighBit
  <2>0. i \in 1 .. Len(charArray)
    BY <1>8 DEF ClearHighBit, IndexInv
  <2>1. charArray[i] \in Int
    BY <2>0, ElementOfSeq DEF TypeOK
  <2>2. HighBitShiftedOut(charArray[i]) \in Int
    BY <2>1, HighBitShiftedOutType
  <2> DEFINE c == HighBitShiftedOut(charArray[i])
  <2>3. charArray' = [charArray EXCEPT ![i] = c] /\ charArray \in Seq(Int)
    BY <1>8 DEF ClearHighBit, TypeOK
  <2> HIDE DEF c
  <2>4. charArray' \in Seq(Int) /\ Len(charArray') = Len(charArray)
    BY <2>0, <2>2, <2>3, ExceptSeq DEF c
  <2>5. TypeOK' /\ SplitInv'
    BY <1>8, <2>4 DEF ClearHighBit, TypeOK, SplitInv
  <2>6. IndexInv'
    BY <1>8, <2>4 DEF ClearHighBit, TypeOK, IndexInv
  <2> QED
    BY <2>5, <2>6
<1>9. CASE EndClear
  BY <1>9 DEF EndClear, TypeOK, SplitInv, IndexInv
<1>10. CASE AddGroup
  <2>1. /\ i \in 1 .. Len(charArray) /\ charArray[i] \in Int
        /\ Len(charArray) - i \in 0 .. MaxGroups - 1
    BY <1>10, ConstantsTyped, SMTT(30) DEF AddGroup, Term, TypeOK, IndexInv
  <2>2. ret' \in Int
    BY <1>10, <2>1, ConstantsTyped DEF AddGroup, Term, TypeOK
  <2> QED
    BY <1>10, <2>1, <2>2 DEF AddGroup, Term, TypeOK, SplitInv, IndexInv
<1>11. CASE UNCHANGED vars
  BY <1>11 DEF vars, TypeOK, SplitInv, IndexInv
<1> QED
  BY <1>2, <1>3, <1>4, <1>5, <1>6, <1>7, <1>8, <1>9, <1>10, <1>11 DEF Next

-----------------------------------------------------------------------------
(* Type correctness of the loops.                                          *)
THEOREM LoopsTyped == Spec => []TypeOK
<1>1. LoopInv => TypeOK
  BY DEF LoopInv
<1> QED
  BY <1>1, LoopInvInit, LoopInvNext, PTL DEF Spec

(* A call of VarientEncoding with a negative number never leaves its first *)
(* loop, for every radix (encoding.cc:18).                                 *)
THEOREM NegativeDiverges == Spec => []NegativeNeverEnds
<1>1. LoopInv => NegativeNeverEnds
  BY DEF LoopInv, SplitInv, NegativeNeverEnds
<1> QED
  BY <1>1, LoopInvInit, LoopInvNext, PTL DEF Spec

(* A number that is not negative is written in at most MaxGroups bytes.    *)
THEOREM GroupsAreBounded == Spec => []FitsInGroups
<1>1. LoopInv => FitsInGroups
  BY DEF LoopInv, SplitInv, FitsInGroups
<1> QED
  BY <1>1, LoopInvInit, LoopInvNext, PTL DEF Spec

(* The variant of the first loop: every group taken from a positive number *)
(* leaves a smaller one, not below zero.                                   *)
THEOREM LoopVariant == Spec => GroupsShrinkValue
<1>1. ASSUME LoopInv, [Next]_vars, value > 0, bytes_' # bytes_
      PROVE  0 <= value' /\ value' < value
  <2>1. TakeGroup
    BY <1>1 DEF Next, vars, EndSplit, EmitGroup, HandOver, NothingToRead,
                ReadByte, ClearHighBit, EndClear, AddGroup
  <2> QED
    BY <1>1, <2>1, GroupOfValue DEF TakeGroup, Group, Shifted, LoopInv, TypeOK
<1>2. LoopInv /\ [Next]_vars
        => [value > 0 /\ bytes_' # bytes_ => 0 <= value' /\ value' < value]_vars
  BY <1>1
<1> QED
  BY <1>2, LoopInvInit, LoopInvNext, PTL DEF Spec, GroupsShrinkValue

-----------------------------------------------------------------------------
(* The loops compute the operators.  The groups taken so far are those of  *)
(* the argument, and what is left of it is the quotient by the next weight.*)
SplitExact ==
  input >= 0 =>
    /\ \A k \in 1 .. Len(bytes_) : bytes_[k] = GroupAt(input, k - 1)
    /\ Len(bytes_) > 0 => Weight[Len(bytes_) - 1] <= input
    /\ Len(bytes_) < MaxGroups => value = input \div Weight[Len(bytes_)]
    /\ pc # "split" => value = 0

(* The bytes emitted are the groups from the last to the first.            *)
ByteFrom(j) == bytes_[Len(bytes_) + 1 - j] + (IF j < Len(bytes_) THEN Radix ELSE 0)

EmitExact ==
  pc # "split" =>
    /\ \A j \in 1 .. Len(encodedBytes) : encodedBytes[j] = ByteFrom(j)
    /\ pc # "emit" => Len(encodedBytes) = Len(bytes_)
    /\ pc = "nothing" => encodedBytes = <<>>

(* The bytes read are all the bytes emitted; those before i, in the end    *)
(* all but the last, have lost their high bit.                             *)
Cleared(k) == k < Len(charArray) /\ (pc = "clear" => k < i)

ReadExact ==
  /\ pc = "read" => \A k \in 1 .. Len(charArray) : charArray[k] = encodedBytes[k]
  /\ pc \in {"clear", "add", "done"} =>
       /\ Len(charArray) = Len(encodedBytes) /\ Len(charArray) > 0
       /\ \A k \in 1 .. Len(charArray) :
            charArray[k] = IF Cleared(k) THEN HighBitShiftedOut(encodedBytes[k])
                                         ELSE encodedBytes[k]

(* What has been added up so far.                                          *)
Terms == [k \in 1 .. Len(charArray) |-> Weight[Len(charArray) - k] * charArray[k]]

AddExact ==
  /\ pc \notin {"add", "done"} => ret = 0
  /\ pc = "add"  => ret = SumFunctionOnSet(Terms, 1 .. i - 1)
  /\ pc = "done" => ret = SumFunctionOnSet(Terms, 1 .. Len(charArray))

OperatorInv == SplitExact /\ EmitExact /\ ReadExact /\ AddExact

LEMMA OperatorInvInit == Init => OperatorInv
<1> SUFFICES ASSUME Init PROVE OperatorInv
  OBVIOUS
<1>1. input \in Int /\ bytes_ = <<>> /\ pc = "split" /\ value = input /\ ret = 0
  BY VarintLoopsAssumption DEF Init
<1>2. input >= 0 => input \div Weight[0] = input
  <2>1. input = 1 * input + 0 /\ 0 \in 0 .. 1 - 1
    BY <1>1
  <2> QED
    BY <1>1, <2>1, DivUnique, ConstantsTyped, VarintAssumption
<1>3. SplitExact
  BY <1>1, <1>2 DEF SplitExact
<1> QED
  BY <1>1, <1>3 DEF OperatorInv, EmitExact, ReadExact, AddExact

LEMMA TakeGroupKeepsOperatorInv ==
  ASSUME LoopInv, OperatorInv, TakeGroup
  PROVE  OperatorInv'
<1>1. /\ pc = "split" /\ value # 0
      /\ bytes_' = Append(bytes_, value % Radix) /\ value' = value \div Radix
      /\ UNCHANGED <<input, pc, encodedBytes, charArray, i, ret>>
  BY DEF TakeGroup, Group, Shifted
<1>2. /\ bytes_ \in Seq(0 .. Radix - 1) /\ input \in Int /\ value \in Int
      /\ value % Radix \in 0 .. Radix - 1
  BY VarintLoopsAssumption, GroupOfValue DEF LoopInv, TypeOK
<1>3. SplitExact'
  <2>1. SUFFICES ASSUME input >= 0
                 PROVE  /\ \A k \in 1 .. Len(bytes_') : bytes_'[k] = GroupAt(input, k - 1)
                        /\ Weight[Len(bytes_') - 1] <= input
                        /\ Len(bytes_') < MaxGroups =>
                             value' = input \div Weight[Len(bytes_')]
    BY <1>1 DEF SplitExact
  <2> DEFINE n == Len(bytes_)
  <2>2. n \in 0 .. MaxGroups - 1 /\ input \in Nat /\ value > 0
    BY <1>1, <1>2, <2>1, ConstantsTyped DEF LoopInv, SplitInv
  <2>3. value = input \div Weight[n] /\ \A k \in 1 .. n : bytes_[k] = GroupAt(input, k - 1)
    BY <2>1, <2>2, ConstantsTyped DEF OperatorInv, SplitExact
  <2>4. Len(bytes_') = n + 1 /\ bytes_'[n + 1] = value % Radix
        /\ \A k \in 1 .. n : bytes_'[k] = bytes_[k]
    BY <1>1, <1>2
  <2> HIDE DEF n
  <2>5. bytes_'[n + 1] = GroupAt(input, n)
    BY <2>3, <2>4 DEF GroupAt
  <2>6. ASSUME NEW k \in 1 .. n + 1 PROVE bytes_'[k] = GroupAt(input, k - 1)
    <3>1. CASE k = n + 1
      <4>1. k - 1 = n
        BY <2>2, <3>1
      <4> QED
        BY <2>5, <3>1, <4>1
    <3>2. CASE k # n + 1
      <4>1. k \in 1 .. n
        BY <2>2, <3>2
      <4> QED
        BY <2>3, <2>4, <4>1
    <3> QED
      BY <3>1, <3>2
  <2>7. Weight[n] <= input
    BY <2>2, <2>3, NextGroup, ConstantsTyped
  <2>8. n + 1 < MaxGroups => value' = input \div Weight[n + 1]
    BY <1>1, <2>2, <2>3, NextGroup, ConstantsTyped
  <2>9. (n + 1) - 1 = n
    BY <2>2
  <2> QED
    BY <2>4, <2>6, <2>7, <2>8, <2>9
<1> QED
  BY <1>1, <1>3 DEF OperatorInv, EmitExact, ReadExact, AddExact

LEMMA EmitGroupKeepsOperatorInv ==
  ASSUME LoopInv, OperatorInv, EmitGroup
  PROVE  OperatorInv'
<1>1. /\ pc = "emit" /\ i \in 1 .. Len(bytes_)
      /\ encodedBytes' = Append(encodedBytes, bytes_[i] + (IF i # 1 THEN Radix ELSE 0))
      /\ i' = i - 1
      /\ UNCHANGED <<input, pc, value, bytes_, charArray, ret>>
  BY DEF EmitGroup, Marked, LoopInv, IndexInv, TypeOK
<1>2. /\ encodedBytes \in Seq(Byte) /\ i + Len(encodedBytes) = Len(bytes_)
      /\ Len(bytes_) \in Nat
  BY <1>1 DEF LoopInv, IndexInv, TypeOK
<1> DEFINE b == bytes_[i] + (IF i # 1 THEN Radix ELSE 0)
           m == Len(encodedBytes)
<1>3. Len(encodedBytes') = m + 1 /\ encodedBytes'[m + 1] = b
      /\ \A j \in 1 .. m : encodedBytes'[j] = encodedBytes[j]
  <2> HIDE DEF b
  <2> QED
    BY <1>1, <1>2 DEF b
<1>4. b = ByteFrom(m + 1)
  <2>1. Len(bytes_) + 1 - (m + 1) = i /\ (m + 1 < Len(bytes_) <=> i # 1)
    BY <1>1, <1>2
  <2> QED
    BY <2>1 DEF ByteFrom
<1>5. \A j \in 1 .. m : encodedBytes[j] = ByteFrom(j)
  BY <1>1 DEF OperatorInv, EmitExact
<1> HIDE DEF b, m
<1>6. m \in Nat
  BY <1>2 DEF m
<1>7. ASSUME NEW j \in 1 .. m + 1 PROVE encodedBytes'[j] = ByteFrom(j)'
  <2>1. ByteFrom(j)' = ByteFrom(j)
    BY <1>1 DEF ByteFrom
  <2>2. j = m + 1 \/ j \in 1 .. m
    BY <1>6
  <2> QED
    BY <1>3, <1>4, <1>5, <2>1, <2>2
<1>8. EmitExact'
  BY <1>1, <1>3, <1>7 DEF EmitExact
<1>9. SplitExact' /\ ReadExact' /\ AddExact'
  BY <1>1 DEF OperatorInv, SplitExact, ReadExact, AddExact
<1> QED
  BY <1>8, <1>9 DEF OperatorInv

(* Once all groups are emitted the bytes are the encoding of the argument, *)
(* and every byte but the last says that more follow.                      *)
LEMMA EmittedIsEncoding ==
  ASSUME LoopInv, OperatorInv, pc \notin {"split", "emit"}
  PROVE  /\ input \in Nat /\ input < Radix * Weight[MaxGroups - 1]
         /\ NumGroups(input) = Len(bytes_) /\ Len(encodedBytes) = Len(bytes_)
         /\ encodedBytes = VarientEncoding(input)
         /\ Len(bytes_) = 0 <=> input = 0
<1> DEFINE n == Len(bytes_)
<1>1. /\ input \in Int /\ input < Radix * Weight[MaxGroups - 1] /\ input >= 0
      /\ n \in 0 .. MaxGroups /\ encodedBytes \in Seq(Byte)
  BY VarintLoopsAssumption DEF LoopInv, TypeOK, SplitInv
<1>2. /\ \A k \in 1 .. n : bytes_[k] = GroupAt(input, k - 1)
      /\ n > 0 => Weight[n - 1] <= input
      /\ n < MaxGroups => 0 = input \div Weight[n]
  BY <1>1 DEF OperatorInv, SplitExact
<1>3. /\ Len(encodedBytes) = n
      /\ \A j \in 1 .. n : encodedBytes[j] = ByteFrom(j)
  BY DEF OperatorInv, EmitExact
<1>4. n < MaxGroups => input < Weight[n]
  <2>1. ASSUME n < MaxGroups PROVE input < Weight[n]
    <3>1. n \in 0 .. MaxGroups - 1 /\ input \in Nat
      BY <1>1, <2>1, ConstantsTyped
    <3>2. 0 = input \div Weight[n]
      BY <1>2, <2>1
    <3> HIDE DEF n
    <3>3. input >= Weight[n] <=> input \div Weight[n] > 0
      BY <3>1, NextGroup
    <3>4. Weight[n] \in Nat
      BY <3>1, ConstantsTyped
    <3>5. ~ (input >= Weight[n])
      BY <3>2, <3>3
    <3> QED
      BY <3>1, <3>4, <3>5
  <2> QED
    BY <2>1
<1>5. NumGroups(input) = n
  <2>1. input \in Nat
    BY <1>1
  <2> HIDE DEF n
  <2> QED
    BY <1>1, <1>2, <1>4, <2>1, NumGroupsIs
<1>6. /\ VarientEncoding(input) \in Seq(Byte) /\ Len(VarientEncoding(input)) = n
      /\ \A j \in 1 .. n : VarientEncoding(input)[j]
                             = GroupAt(input, n - j) + (IF j < n THEN Radix ELSE 0)
  <2>1. input \in Nat
    BY <1>1
  <2> HIDE DEF n
  <2> DEFINE N == NumGroups(input)
  <2>2. /\ VarientEncoding(input) \in Seq(Byte) /\ Len(VarientEncoding(input)) = N
        /\ \A j \in 1 .. N : VarientEncoding(input)[j]
                               = GroupAt(input, N - j) + (IF j < N THEN Radix ELSE 0)
    BY <2>1, EncodingBytes
  <2> HIDE DEF N
  <2>3. N = n
    BY <1>5 DEF N
  <2> QED
    BY <2>2, <2>3
<1>7. ASSUME NEW j \in 1 .. n PROVE encodedBytes[j] = VarientEncoding(input)[j]
  <2>1. n + 1 - j \in 1 .. n /\ (n + 1 - j) - 1 = n - j
    <3> HIDE DEF n
    <3> QED
      BY <1>1
  <2>2. bytes_[n + 1 - j] = GroupAt(input, n - j)
    BY <1>2, <2>1
  <2>3. ByteFrom(j) = GroupAt(input, n - j) + (IF j < n THEN Radix ELSE 0)
    BY <2>2 DEF ByteFrom
  <2> QED
    BY <1>3, <1>6, <2>3
<1>8. encodedBytes = VarientEncoding(input)
  <2> HIDE DEF n
  <2> QED
    BY <1>1, <1>3, <1>6, <1>7, SeqEqual
<1>9. n = 0 <=> input = 0
  <2>1. n > 0 => input > 0
    <3>1. n > 0 => Weight[n - 1] \in Nat /\ Weight[n - 1] > 0
      BY <1>1, ConstantsTyped
    <3> QED
      BY <1>1, <1>2, <3>1
  <2>2. n = 0 => input < 1
    BY <1>4, ConstantsTyped, VarintAssumption
  <2> QED
    BY <1>1, <2>1, <2>2
<1> QED
  BY <1>1, <1>3, <1>5, <1>8, <1>9

LEMMA ReadByteKeepsOperatorInv ==
  ASSUME LoopInv, OperatorInv, ReadByte
  PROVE  OperatorInv'
<1> DEFINE n == Len(bytes_)
<1>1. /\ pc = "read"
      /\ charArray' = Append(charArray, encodedBytes[i])
      /\ i' = IF HasMore(encodedBytes[i]) THEN i + 1 ELSE 1
      /\ pc' = IF HasMore(encodedBytes[i]) THEN "read" ELSE "clear"
      /\ UNCHANGED <<input, value, bytes_, encodedBytes, ret>>
  BY DEF ReadByte
<1>2. /\ encodedBytes \in Seq(Byte) /\ charArray \in Seq(Int) /\ bytes_ \in Seq(0 .. Radix - 1)
      /\ i \in 1 .. Len(encodedBytes) /\ Len(charArray) = i - 1 /\ i \in Nat
  BY <1>1 DEF LoopInv, IndexInv, TypeOK
<1>3. Len(encodedBytes) = n /\ encodedBytes[i] = ByteFrom(i)
  BY <1>1, <1>2 DEF OperatorInv, EmitExact
<1>4. n \in Nat
  BY <1>2
<1>5. encodedBytes[i] \in Int
  <2>1. encodedBytes[i] \in Byte
    BY <1>2
  <2> QED
    BY <2>1, ConstantsTyped DEF Byte
<1>6. /\ Len(charArray') = i /\ charArray'[i] = encodedBytes[i]
      /\ \A k \in 1 .. i - 1 : charArray'[k] = charArray[k]
  BY <1>1, <1>2, <1>5
<1>7. \A k \in 1 .. i - 1 : charArray[k] = encodedBytes[k]
  BY <1>1, <1>2 DEF OperatorInv, ReadExact
<1>8. \A k \in 1 .. i : charArray'[k] = encodedBytes[k]
  <2>1. ASSUME NEW k \in 1 .. i PROVE charArray'[k] = encodedBytes[k]
    <3>1. k = i \/ k \in 1 .. i - 1
      BY <1>2
    <3> QED
      BY <1>6, <1>7, <3>1
  <2> QED
    BY <2>1
<1>9. ~ HasMore(encodedBytes[i]) => i = n
  <2>1. ASSUME i # n PROVE HasMore(encodedBytes[i])
    <3> DEFINE g == bytes_[n + 1 - i]
    <3>1. i < n /\ n + 1 - i \in 1 .. n
      BY <1>2, <1>3, <1>4, <2>1
    <3>2. g \in 0 .. Radix - 1
      BY <1>2, <3>1, ElementOfSeq
    <3>3. encodedBytes[i] = g + Radix
      BY <1>3, <3>1 DEF ByteFrom
    <3> HIDE DEF g
    <3> QED
      BY <3>2, <3>3, ByteOfGroup
  <2> QED
    BY <2>1
<1>10. ReadExact'
  <2>1. CASE HasMore(encodedBytes[i])
    <3>1. pc' = "read"
      BY <1>1, <2>1
    <3> QED
      BY <1>1, <1>6, <1>8, <3>1 DEF ReadExact
  <2>2. CASE ~ HasMore(encodedBytes[i])
    <3>1. pc' = "clear" /\ i' = 1 /\ i = n
      BY <1>1, <1>9, <2>2
    <3>2. Len(charArray') = Len(encodedBytes') /\ Len(charArray') > 0
      BY <1>1, <1>2, <1>3, <1>6, <3>1
    <3>3. ASSUME NEW k \in 1 .. Len(charArray')
          PROVE  ~ Cleared(k)' /\ charArray'[k] = encodedBytes'[k]
      BY <1>1, <1>6, <1>8, <3>1 DEF Cleared
    <3> QED
      BY <3>1, <3>2, <3>3 DEF ReadExact
  <2> QED
    BY <2>1, <2>2
<1>11. pc' \in {"read", "clear"}
  BY <1>1
<1>12. SplitExact'
  BY <1>1, <1>11 DEF OperatorInv, SplitExact
<1>13. EmitExact'
  <2>1. \A j : ByteFrom(j)' = ByteFrom(j)
    BY <1>1 DEF ByteFrom
  <2> QED
    BY <1>1, <1>11, <2>1 DEF OperatorInv, EmitExact
<1>14. AddExact'
  BY <1>1, <1>11 DEF OperatorInv, AddExact
<1> QED
  BY <1>10, <1>12, <1>13, <1>14 DEF OperatorInv

LEMMA ClearHighBitKeepsOperatorInv ==
  ASSUME LoopInv, OperatorInv, ClearHighBit
  PROVE  OperatorInv'
<1> DEFINE c == HighBitShiftedOut(charArray[i])
<1>1. /\ pc = "clear" /\ i < Len(charArray)
      /\ charArray' = [charArray EXCEPT ![i] = c]
      /\ i' = i + 1
      /\ UNCHANGED <<input, pc, value, bytes_, encodedBytes, ret>>
  BY DEF ClearHighBit
<1> HIDE DEF c
<1>2. charArray \in Seq(Int) /\ i \in 1 .. Len(charArray) /\ i \in Nat
  BY <1>1 DEF LoopInv, IndexInv, TypeOK
<1>3. /\ Len(charArray) = Len(encodedBytes) /\ Len(charArray) > 0
      /\ \A k \in 1 .. Len(charArray) :
            charArray[k] = IF Cleared(k) THEN HighBitShiftedOut(encodedBytes[k])
                                         ELSE encodedBytes[k]
  BY <1>1 DEF OperatorInv, ReadExact
<1>4. c = HighBitShiftedOut(encodedBytes[i])
  <2>1. ~ Cleared(i)
    BY <1>1, <1>2 DEF Cleared
  <2> QED
    BY <1>2, <1>3, <2>1 DEF c
<1>5. /\ Len(charArray') = Len(charArray) /\ charArray'[i] = c
      /\ \A k \in 1 .. Len(charArray) : k # i => charArray'[k] = charArray[k]
  BY <1>1, <1>2
<1>6. ASSUME NEW k \in 1 .. Len(charArray')
      PROVE  charArray'[k] = IF Cleared(k)' THEN HighBitShiftedOut(encodedBytes'[k])
                                            ELSE encodedBytes'[k]
  <2>1. CASE k = i
    <3>1. Cleared(k)'
      BY <1>1, <1>2, <1>5, <2>1 DEF Cleared
    <3> QED
      BY <1>1, <1>4, <1>5, <2>1, <3>1
  <2>2. CASE k # i
    <3>1. Cleared(k)' <=> Cleared(k)
      BY <1>1, <1>2, <1>5, <2>2 DEF Cleared
    <3>2. charArray'[k] = charArray[k] /\ k \in 1 .. Len(charArray)
      BY <1>5, <2>2
    <3> QED
      BY <1>1, <1>3, <3>1, <3>2
  <2> QED
    BY <2>1, <2>2
<1>7. ReadExact'
  BY <1>1, <1>3, <1>5, <1>6 DEF ReadExact
<1>8. SplitExact'
  BY <1>1 DEF OperatorInv, SplitExact
<1>9. EmitExact'
  <2>1. \A j : ByteFrom(j)' = ByteFrom(j)
    BY <1>1 DEF ByteFrom
  <2> QED
    BY <1>1, <2>1 DEF OperatorInv, EmitExact
<1>10. AddExact'
  BY <1>1 DEF OperatorInv, AddExact
<1> QED
  BY <1>7, <1>8, <1>9, <1>10 DEF OperatorInv

(* The terms are integers, whichever of them is added next.                *)
LEMMA TermsTyped ==
  ASSUME LoopInv, pc = "add"
  PROVE  /\ i \in 1 .. Len(charArray) /\ Len(charArray) \in Nat
         /\ \A k \in 1 .. Len(charArray) : Terms[k] \in Int
<1>1. charArray \in Seq(Int) /\ Len(charArray) <= MaxGroups /\ i \in 1 .. Len(charArray)
  BY DEF LoopInv, TypeOK, IndexInv
<1>2. ASSUME NEW k \in 1 .. Len(charArray) PROVE Terms[k] \in Int
  <2>1. Len(charArray) - k \in 0 .. MaxGroups - 1 /\ charArray[k] \in Int
    BY <1>1, ConstantsTyped
  <2>2. Weight[Len(charArray) - k] \in Nat
    BY <2>1, ConstantsTyped
  <2> QED
    BY <2>1, <2>2 DEF Terms
<1> QED
  BY <1>1, <1>2

LEMMA AddGroupKeepsOperatorInv ==
  ASSUME LoopInv, OperatorInv, AddGroup
  PROVE  OperatorInv'
<1> DEFINE n == Len(charArray)
<1>1. /\ pc = "add" /\ ret' = ret + Term /\ i' = i + 1
      /\ pc' = IF i = n THEN "done" ELSE "add"
      /\ UNCHANGED <<input, value, bytes_, encodedBytes, charArray>>
  BY DEF AddGroup
<1>2. i \in 1 .. n /\ n \in Nat /\ \A k \in 1 .. n : Terms[k] \in Int
  BY <1>1, TermsTyped
<1>3. Term = Terms[i]
  BY <1>2 DEF Term, Terms
<1>4. ret = SumFunctionOnSet(Terms, 1 .. i - 1)
  BY <1>1 DEF OperatorInv, AddExact
<1>5. Terms' = Terms
  BY <1>1 DEF Terms
<1> HIDE DEF n
<1>6. ret' = SumFunctionOnSet(Terms, 1 .. i)
  <2> DEFINE S == 1 .. i - 1
             T == Terms
             s == SumFunctionOnSet(T, S)
  <2>0. i \in Int /\ i - 1 \in Int /\ i >= 1
    BY <1>2
  <2>1. IsFiniteSet(S) /\ i \notin S /\ S \cup {i} = 1 .. i
    <3>1. IsFiniteSet(S)
      BY <2>0, FS_Interval
    <3> QED
      BY <2>0, <3>1
  <2>2. \A y \in S \cup {i} : T[y] \in Int
    BY <1>2
  <2>3. T[i] = Term
    BY <1>3
  <2>4. ret = s
    BY <1>4
  <2> HIDE DEF S, T
  <2>5. SumFunctionOnSet(T, S \cup {i}) = T[i] + s
    BY <2>1, <2>2, SumAdd
  <2>6. s \in Int /\ T[i] \in Int
    BY <2>1, <2>2, SumType
  <2> HIDE DEF s
  <2>7. ret' = SumFunctionOnSet(T, S \cup {i})
    BY <1>1, <2>3, <2>4, <2>5, <2>6
  <2> QED
    BY <2>1, <2>7 DEF T
<1>7. AddExact'
  <2>1. CASE i = n
    BY <1>1, <1>5, <1>6, <2>1 DEF AddExact, n
  <2>2. CASE i # n
    <3>1. (i + 1) - 1 = i
      BY <1>2
    <3> QED
      BY <1>1, <1>5, <1>6, <2>2, <3>1 DEF AddExact, n
  <2> QED
    BY <2>1, <2>2
<1>8. pc' \in {"add", "done"}
  BY <1>1
<1>9. ReadExact'
  BY <1>1, <1>8 DEF OperatorInv, ReadExact, Cleared
<1>10. SplitExact'
  BY <1>1, <1>8 DEF OperatorInv, SplitExact
<1>11. EmitExact'
  <2>1. \A j : ByteFrom(j)' = ByteFrom(j)
    BY <1>1 DEF ByteFrom
  <2> QED
    BY <1>1, <1>8, <2>1 DEF OperatorInv, EmitExact
<1> QED
  BY <1>7, <1>9, <1>10, <1>11 DEF OperatorInv

LEMMA OperatorInvNext == LoopInv /\ OperatorInv /\ [Next]_vars => OperatorInv'
<1> SUFFICES ASSUME LoopInv, OperatorInv, [Next]_vars PROVE OperatorInv'
  OBVIOUS
<1>0. \A j : UNCHANGED bytes_ => ByteFrom(j)' = ByteFrom(j)
  BY DEF ByteFrom
<1>1. CASE TakeGroup
  BY <1>1, TakeGroupKeepsOperatorInv
<1>2. CASE EndSplit
  BY <1>2 DEF EndSplit, LoopInv, IndexInv, OperatorInv, SplitExact, EmitExact, ReadExact, AddExact
<1>3. CASE EmitGroup
  BY <1>3, EmitGroupKeepsOperatorInv
<1>4. CASE HandOver
  <2>1. Len(encodedBytes) = Len(bytes_) /\ charArray = <<>>
    BY <1>4 DEF HandOver, LoopInv, TypeOK, IndexInv
  <2>2. /\ pc = "emit" /\ pc' = "read"
        /\ UNCHANGED <<input, value, bytes_, encodedBytes, charArray, ret>>
    BY <1>4 DEF HandOver
  <2> QED
    BY <1>0, <2>1, <2>2 DEF OperatorInv, SplitExact, EmitExact, ReadExact, AddExact
<1>5. CASE NothingToRead
  <2>1. Len(encodedBytes) = Len(bytes_)
    BY <1>5 DEF NothingToRead, LoopInv, TypeOK, IndexInv
  <2>2. /\ pc = "emit" /\ pc' = "nothing" /\ encodedBytes = <<>>
        /\ UNCHANGED <<input, value, bytes_, encodedBytes, charArray, ret>>
    BY <1>5 DEF NothingToRead
  <2> QED
    BY <1>0, <2>1, <2>2 DEF OperatorInv, SplitExact, EmitExact, ReadExact, AddExact
<1>6. CASE ReadByte
  BY <1>6, ReadByteKeepsOperatorInv
<1>7. CASE ClearHighBit
  BY <1>7, ClearHighBitKeepsOperatorInv
<1>8. CASE EndClear
  <2>1. /\ pc = "clear" /\ pc' = "add" /\ i = Len(charArray) /\ i' = 1 /\ ret = 0
        /\ UNCHANGED <<input, value, bytes_, encodedBytes, charArray, ret>>
    BY <1>8 DEF EndClear, OperatorInv, AddExact
  <2>2. ReadExact'
    <3>1. \A k \in 1 .. Len(charArray) : Cleared(k)' <=> Cleared(k)
      BY <2>1 DEF Cleared
    <3> QED
      BY <2>1, <3>1 DEF OperatorInv, ReadExact
  <2>3. AddExact'
    <3>1. 1 .. i' - 1 = {}
      BY <2>1
    <3>2. SumFunctionOnSet(Terms', {}) = 0
      BY SumEmpty
    <3> QED
      BY <2>1, <3>1, <3>2 DEF AddExact
  <2> QED
    BY <1>0, <2>1, <2>2, <2>3 DEF OperatorInv, SplitExact, EmitExact
<1>9. CASE AddGroup
  BY <1>9, AddGroupKeepsOperatorInv
<1>10. CASE UNCHANGED vars
  <2>1. UNCHANGED <<input, pc, value, bytes_, encodedBytes, charArray, i, ret>>
    BY <1>10 DEF vars
  <2>2. Terms' = Terms
    BY <2>1 DEF Terms
  <2> QED
    BY <1>0, <2>1, <2>2 DEF OperatorInv, SplitExact, EmitExact, ReadExact, AddExact, Cleared
<1> QED
  BY <1>1, <1>2, <1>3, <1>4, <1>5, <1>6, <1>7, <1>8, <1>9, <1>10 DEF Next

-----------------------------------------------------------------------------
(* The first loop and the second compute VarientEncoding, for every number *)
(* that is not negative: the operator Encoder is built from.               *)
THEOREM LoopsEncode == Spec => []EncodingIsOperator
<1>1. LoopInv /\ OperatorInv => EncodingIsOperator
  BY EmittedIsEncoding DEF EncodingIsOperator
<1> QED
  BY <1>1, LoopInvInit, LoopInvNext, OperatorInvInit, OperatorInvNext, PTL DEF Spec

(* The other loops compute VariantDecoder, the operator Decoder is built   *)
(* from: the terms added up are those of the sum the operator takes.       *)
LEMMA AddedIsOperator ==
  ASSUME LoopInv, OperatorInv, pc = "done"
  PROVE  /\ input \in Nat /\ input > 0 /\ encodedBytes = VarientEncoding(input)
         /\ ret = VariantDecoder(encodedBytes, 1)
<1>1. /\ input \in Nat /\ NumGroups(input) = Len(bytes_)
      /\ Len(encodedBytes) = Len(bytes_) /\ encodedBytes = VarientEncoding(input)
      /\ Len(bytes_) = 0 <=> input = 0
  BY EmittedIsEncoding
<1> DEFINE n == Len(encodedBytes)
<1>2. /\ Len(charArray) = n /\ n > 0 /\ encodedBytes \in Seq(Byte) /\ n \in Nat
      /\ \A k \in 1 .. n : charArray[k] = IF k < n THEN HighBitShiftedOut(encodedBytes[k])
                                                     ELSE encodedBytes[k]
      /\ ret = SumFunctionOnSet(Terms, 1 .. n)
  BY DEF OperatorInv, ReadExact, Cleared, AddExact, LoopInv, TypeOK
<1>3. VarintEnd(encodedBytes, 1) = n
  <2>1. input \in Nat /\ input > 0 /\ encodedBytes \in Seq(Byte) /\ 1 \in Nat \ {0}
    BY <1>1, <1>2
  <2>2. 1 + NumGroups(input) - 1 = n
    BY <1>1, <1>2
  <2>3. \A j \in 1 .. NumGroups(input) : encodedBytes[1 + j - 1] = VarientEncoding(input)[j]
    <3>1. ASSUME NEW j \in 1 .. NumGroups(input)
          PROVE  encodedBytes[1 + j - 1] = VarientEncoding(input)[j]
      <4>1. 1 + j - 1 = j
        BY <1>1, <1>2
      <4> QED
        BY <1>1, <4>1
    <3> QED
      BY <3>1
  <2>4. 1 + NumGroups(input) - 1 <= Len(encodedBytes)
    BY <1>2, <2>2
  <2>5. VarintEnd(encodedBytes, 1) = 1 + NumGroups(input) - 1
    BY <2>1, <2>3, <2>4, EndOfEncoding
  <2> QED
    BY <2>2, <2>5
<1> DEFINE term == [j \in 1 .. n |->
                      Weight[n - j] * (IF j < n THEN HighBitShiftedOut(encodedBytes[j])
                                                ELSE encodedBytes[j])]
<1>4. Terms = term
  BY <1>2 DEF Terms
<1>5. VariantDecoder(encodedBytes, 1) = SumFunction(term)
  <2> HIDE DEF n
  <2> QED
    BY <1>3, Zenon DEF VariantDecoder
<1>6. SumFunction(term) = SumFunctionOnSet(term, DOMAIN term) /\ DOMAIN term = 1 .. n
  BY Zenon DEF SumFunction
<1> QED
  <2> HIDE DEF term
  <2> QED
    BY <1>1, <1>2, <1>4, <1>5, <1>6

THEOREM LoopsDecode == Spec => []DecodingIsOperator
<1>1. LoopInv /\ OperatorInv => DecodingIsOperator
  BY AddedIsOperator DEF DecodingIsOperator
<1> QED
  BY <1>1, LoopInvInit, LoopInvNext, OperatorInvInit, OperatorInvNext, PTL DEF Spec

(* A number comes back from its bytes exactly when no group but the last   *)
(* has its top bit set, or char is unsigned; only 0 has no bytes.          *)
THEOREM VarintComesBack == Spec => []VarintRoundTrip
<1>1. ASSUME LoopInv, OperatorInv PROVE VarintRoundTrip
  <2>1. ASSUME pc = "done" PROVE ret = input <=> (CharIsSigned => TopBitsClear)
    <3> DEFINE N == NumGroups(input)
    <3>1. /\ input \in Nat /\ input > 0 /\ input < Radix * Weight[MaxGroups - 1]
          /\ N = Len(bytes_) /\ Len(encodedBytes) = N /\ N \in Nat
          /\ encodedBytes = VarientEncoding(input) /\ encodedBytes \in Seq(Byte)
          /\ ret = VariantDecoder(encodedBytes, 1)
      BY <1>1, <2>1, EmittedIsEncoding, AddedIsOperator DEF LoopInv, TypeOK
    <3>2. /\ 1 \in Nat \ {0} /\ 1 + N - 1 <= Len(encodedBytes)
          /\ \A j \in 1 .. N : 1 + j - 1 = j
      <4> HIDE DEF N
      <4> QED
        BY <3>1
    <3>3. \A j \in 1 .. N : encodedBytes[1 + j - 1] = VarientEncoding(input)[j]
      BY <3>1, <3>2
    <3>4. VariantDecoder(encodedBytes, 1) = input <=> \A k \in 1 .. N - 1 : Clear(input, k)
      BY <3>1, <3>2, <3>3, DecodeEncoding
    <3> HIDE DEF N
    <3>5. \A k \in 1 .. N : bytes_[k] = GroupAt(input, k - 1)
      BY <1>1, <3>1 DEF OperatorInv, SplitExact
    <3>6. (\A k \in 1 .. N - 1 : Clear(input, k)) <=> (CharIsSigned => TopBitsClear)
      <4>1. ASSUME CharIsSigned => TopBitsClear, NEW k \in 1 .. N - 1 PROVE Clear(input, k)
        <5>1. k + 1 \in 2 .. N /\ k + 1 \in 1 .. N /\ (k + 1) - 1 = k
          BY <3>1
        <5>2. CharIsSigned => bytes_[k + 1] < Radix \div 2
          BY <3>1, <4>1, <5>1 DEF TopBitsClear
        <5> QED
          BY <3>5, <5>1, <5>2 DEF Clear
      <4>2. ASSUME \A k \in 1 .. N - 1 : Clear(input, k), CharIsSigned, NEW k \in 2 .. N
            PROVE  bytes_[k] < Radix \div 2
        <5>1. k \in 1 .. N /\ k - 1 \in 1 .. N - 1 /\ k - 1 > 0
          BY <3>1
        <5> QED
          BY <3>5, <4>2, <5>1 DEF Clear
      <4> QED
        BY <3>1, <4>1, <4>2 DEF TopBitsClear
    <3> QED
      BY <3>1, <3>4, <3>6
  <2>2. pc = "nothing" => input = 0
    <3>1. pc = "nothing" => Len(encodedBytes) = 0
      BY <1>1 DEF OperatorInv, EmitExact
    <3> QED
      BY <1>1, <3>1, EmittedIsEncoding
  <2> QED
    BY <2>1, <2>2 DEF VarintRoundTrip
<1> QED
  BY <1>1, LoopInvInit, LoopInvNext, OperatorInvInit, OperatorInvNext, PTL DEF Spec

=============================================================================
