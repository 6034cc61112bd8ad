------------------------------- MODULE Varint -------------------------------
(***************************************************************************)
(* The variable-length integer of the byte format: Encoder::VarientEncoding*)
(* (encoding.cc) and Decoder::VariantDecoder (decoding.cc) as operators.   *)
(* A byte carries one group of the number in base Radix (7 bits, 128, in   *)
(* the code) and a high bit that says "more groups follow".                *)
(***************************************************************************)
EXTENDS Integers, Sequences, FiniteSets, Functions

CONSTANTS
  Radix,        \* 128 in the code: values of the 7 payload bits of a byte
  MaxGroups,    \* 9 in the code: groups of a non-negative int64_t
  Weight,       \* pow(128, k) for k in 0 .. MaxGroups-1
  CharIsSigned  \* is the compiler's plain char signed (g++ on x86: TRUE)

ASSUME VarintAssumption ==
  /\ Radix \in Nat /\ Radix > 9      \* so that a type code is a single byte
  /\ Radix % 2 = 0
  /\ MaxGroups \in Nat \ {0}
  /\ Weight \in [0 .. MaxGroups-1 -> Nat \ {0}]
  /\ Weight[0] = 1
  /\ \A k \in 1 .. MaxGroups-1 : Weight[k] = Radix * Weight[k-1]
  /\ CharIsSigned \in BOOLEAN

Byte == 0 .. (2 * Radix - 1)

HasMore(b) == b >= Radix             \* the high bit, mask 0x80

-----------------------------------------------------------------------------
(* Groups are emitted most significant first; 0 has no group at all, so    *)
(* its encoding is the empty sequence.                                     *)
NumGroups(v) == Cardinality({k \in 0 .. MaxGroups-1 : Weight[k] <= v})

VarientEncoding(v) ==
  LET n == NumGroups(v)
  IN  [i \in 1 .. n |-> ((v \div Weight[n-i]) % Radix)
                           + (IF i < n THEN Radix ELSE 0)]

-----------------------------------------------------------------------------
(* The decoder reads from position `at` to the first byte without the high *)
(* bit.  It does not know where the buffer ends: when there is no such     *)
(* byte it runs off it, and (int64_t)pow(128, 9) is out of range, so a     *)
(* caller must test VarintReadable first.                                  *)
VarintReadable(bytes, at) ==
  /\ at >= 1
  /\ \E j \in at .. Len(bytes) : j < at + MaxGroups /\ ~ HasMore(bytes[j])

VarintEnd(bytes, at) ==
  CHOOSE j \in at .. Len(bytes) :
    ~ HasMore(bytes[j]) /\ \A k \in at .. j-1 : HasMore(bytes[k])

(* `c <<= 1; c >>= 1` clears the high bit of an unsigned char; on a signed *)
(* one the second shift copies bit 6 into the sign.                        *)
HighBitShiftedOut(b) ==
  LET g == b % Radix
  IN  IF CharIsSigned /\ g >= Radix \div 2 THEN g - Radix ELSE g

VariantDecoder(bytes, at) ==
  LET end == VarintEnd(bytes, at)
      term == [j \in at .. end |->
                 Weight[end - j] * (IF j < end THEN HighBitShiftedOut(bytes[j])
                                               ELSE bytes[j])]
  IN  SumFunction(term)
=============================================================================
