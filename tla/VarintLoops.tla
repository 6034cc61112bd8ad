----------------------------- MODULE VarintLoops ----------------------------
(***************************************************************************)
(* The loops behind the operators of Varint: VarientEncoding (encoding.cc) *)
(* one group at a time, and VariantDecoder (decoding.cc) on the bytes it   *)
(* produced.  A signed 64-bit value is an Int here; `value & (MSB - 1)` is *)
(* the value modulo Radix and `value >>= 7` the floor of value / Radix,    *)
(* for negative values too (two's complement, arithmetic shift).           *)
(***************************************************************************)
EXTENDS Varint

CONSTANTS
  Values,     \* the arguments of VarientEncoding
  MaxLoops    \* bound: iterations of the first loop, for values that never end

ASSUME VarintLoopsAssumption ==
  /\ \A v \in Values : v \in Int /\ v < Radix * Weight[MaxGroups-1]  \* int64_t
  /\ MaxLoops \in Nat /\ MaxLoops >= MaxGroups

VARIABLES
  input,         \* the argument
  pc,            \* "split", "emit", "read", "clear", "add" or "done"
  value,         \* VarientEncoding: what is left of the argument
  bytes_,        \* VarientEncoding: groups, least significant first
  encodedBytes,  \* VarientEncoding: the result
  charArray,     \* VariantDecoder: the bytes read, then without high bits
  i,             \* index of the current loop
  ret            \* VariantDecoder: the result

vars == <<input, pc, value, bytes_, encodedBytes, charArray, i, ret>>

Init ==
  /\ input \in Values
  /\ pc = "split"
  /\ value = input
  /\ bytes_ = <<>> /\ encodedBytes = <<>> /\ charArray = <<>>
  /\ i = 0 /\ ret = 0

-----------------------------------------------------------------------------
(* Slips of the first loop: no mask; a division, which rounds to zero; a   *)
(* shift by too few bits; no shift.                                        *)
Unmasked     == value
ShiftToZero  == IF value < 0 THEN -((-value) \div Radix) ELSE value \div Radix
ShiftedShort == value \div (Radix \div 2)
Unshifted    == value

Group   == value % Radix       \* value & (MSB - 1)
Shifted == value \div Radix    \* value >>= 7

(* while(value != 0)                                                       *)
TakeGroup ==
  /\ pc = "split"
  /\ value # 0
  /\ Len(bytes_) < MaxLoops
  /\ bytes_' = Append(bytes_, Group)
  /\ value' = Shifted
  /\ UNCHANGED <<input, pc, encodedBytes, charArray, i, ret>>

EndSplit ==
  /\ pc = "split"
  /\ value = 0
  /\ pc' = "emit"
  /\ i' = Len(bytes_)
  /\ UNCHANGED <<input, value, bytes_, encodedBytes, charArray, ret>>

(* Slips: the high bit on all but the first byte; no high bit at all.      *)
MarkedLate == bytes_[i] + (IF i # Len(bytes_) THEN Radix ELSE 0)
Bare       == bytes_[i]

Marked == bytes_[i] + (IF i # 1 THEN Radix ELSE 0)

(* Most significant group first; all but the last get the high bit.        *)
EmitGroup ==
  /\ pc = "emit"
  /\ i > 0
  /\ encodedBytes' = Append(encodedBytes, Marked)
  /\ i' = i - 1
  /\ UNCHANGED <<input, pc, value, bytes_, charArray, ret>>

(* The bytes go to the decoder; an empty stream has nothing to read.       *)
HandOver ==
  /\ pc = "emit"
  /\ i = 0
  /\ encodedBytes # <<>>
  /\ pc' = "read"
  /\ i' = 1
  /\ UNCHANGED <<input, value, bytes_, encodedBytes, charArray, ret>>

NothingToRead ==
  /\ pc = "emit"
  /\ i = 0
  /\ encodedBytes = <<>>
  /\ pc' = "nothing"
  /\ UNCHANGED <<input, value, bytes_, encodedBytes, charArray, i, ret>>

-----------------------------------------------------------------------------
(* while(true): up to and with the first byte without the high bit.        *)
ReadByte ==
  /\ pc = "read"
  /\ charArray' = Append(charArray, encodedBytes[i])
  /\ i' = IF HasMore(encodedBytes[i]) THEN i + 1 ELSE 1
  /\ pc' = IF HasMore(encodedBytes[i]) THEN "read" ELSE "clear"
  /\ UNCHANGED <<input, value, bytes_, encodedBytes, ret>>

(* A single byte is returned at once; of several, all but the last lose    *)
(* the high bit by a shift to the left and back.                           *)
ClearHighBit ==
  /\ pc = "clear"
  /\ i < Len(charArray)
  /\ charArray' = [charArray EXCEPT ![i] = HighBitShiftedOut(@)]
  /\ i' = i + 1
  /\ UNCHANGED <<input, pc, value, bytes_, encodedBytes, ret>>

EndClear ==
  /\ pc = "clear"
  /\ i = Len(charArray)
  /\ pc' = "add"
  /\ i' = 1
  /\ UNCHANGED <<input, value, bytes_, encodedBytes, charArray, ret>>

TermReversed == Weight[i - 1] * charArray[i]   \* slip: from the wrong end
Term == Weight[Len(charArray) - i] * charArray[i]

AddGroup ==
  /\ pc = "add"
  /\ ret' = ret + Term
  /\ i' = i + 1
  /\ pc' = IF i = Len(charArray) THEN "done" ELSE "add"
  /\ UNCHANGED <<input, value, bytes_, encodedBytes, charArray>>

Next ==
  \/ TakeGroup \/ EndSplit \/ EmitGroup \/ HandOver \/ NothingToRead
  \/ ReadByte \/ ClearHighBit \/ EndClear \/ AddGroup

Spec == Init /\ [][Next]_vars /\ WF_vars(Next)

-----------------------------------------------------------------------------
(* Every variable stays in its type; an emitted byte is a byte.            *)
TypeOK ==
  /\ input \in Values
  /\ pc \in {"split", "emit", "nothing", "read", "clear", "add", "done"}
  /\ value \in Int
  /\ bytes_ \in Seq(0 .. Radix - 1) /\ Len(bytes_) <= MaxLoops
  /\ encodedBytes \in Seq(Byte)
  /\ charArray \in Seq(Int)
  /\ i \in Nat
  /\ ret \in Int

(* `value >>= 7` takes a negative number to -1 and leaves it there: the    *)
(* first loop never ends (encoding.cc:18).                                 *)
NegativeNeverEnds == input < 0 => pc = "split" /\ value < 0

(* A number that is not negative needs at most MaxGroups groups (9 for an  *)
(* int64_t): the decoder's pow(128, k) stays in range (decoding.cc:108).   *)
FitsInGroups == input >= 0 => Len(bytes_) <= MaxGroups

(* A number that is not negative gets smaller with every group, so that    *)
(* loop ends.                                                              *)
GroupsShrinkValue ==
  [][ value > 0 /\ bytes_' # bytes_ => 0 <= value' /\ value' < value ]_vars

NonNegativeEnds == (input >= 0) ~> (pc \in {"done", "nothing"})

(* The loops compute what the operators of Varint say, which the models of *)
(* Encoder and Decoder are built from.                                     *)
EncodingIsOperator ==
  pc \in {"read", "nothing"} => encodedBytes = VarientEncoding(input)

DecodingIsOperator == pc = "done" => ret = VariantDecoder(encodedBytes, 1)

(* A number comes back from its encoding exactly when no group but the     *)
(* last has its top bit set, or char is unsigned; a zero has no encoding   *)
(* to come back from (decoding.cc:101-104, BinaryFormat.md:112-132).       *)
TopBitsClear ==
  \A k \in 2 .. Len(bytes_) : bytes_[k] < Radix \div 2

VarintRoundTrip ==
  /\ pc = "done" => (ret = input <=> (CharIsSigned => TopBitsClear))
  /\ pc = "nothing" => input = 0
=============================================================================
