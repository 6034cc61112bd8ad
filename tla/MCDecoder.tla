------------------------------ MODULE MCDecoder -----------------------------
(***************************************************************************)
(* Instances of Decoder for TLC: the streams of small documents.           *)
(***************************************************************************)
EXTENDS DecoderInverse, DocSets

MCWeight == Powers(Radix, MaxGroups)

Streams(docs) == {Wire(h, 1) : h \in docs}

(* Radix 16 with a signed char: a string, name, count or size of 128 and   *)
(* more is read back as a negative number, one of 100 is not.              *)
LongDocs ==
  {<<NewString(Chars(n))>> : n \in {100, 127, 128, 255, 256}}
    \cup {<<StructOf(Chars(1), 2), NewString(Chars(n)), Number(3)>> :
             n \in {100, 124, 125}}
    \cup {<<StructOf(Chars(n), 1), Number(3)>> : n \in {100, 128}}
    \cup {<<ArrayOf(1, 2), NewString(Chars(n))>> : n \in {130, 640}}
    \cup {<<ArrayOf(n, 2), Number(3)>> : n \in {100, 128}}
    \cup {<<StructOf(Chars(1), 1), ArrayOf(70, 3), Number(3)>>}

Docs ==
  {Named(h) : h \in TreesUpTo(5, {NewString(Chars(2)), Number(20)})}
    \cup TreesUpTo(4, {NewString(Chars(2)), NewString(<<>>),
                       Primitive("I8", <<9>>), Number(0), Number(7)})
    \cup LongDocs

AllStreams  == {b : b \in Streams(Docs)}
MCCleanDocs == {h \in Docs : Carried(h, 1)}

(* Streams nobody wrote: every short one over a few bytes, among them an   *)
(* unknown type byte (10), the code of a type, and a byte with the high bit*)
(* (17); an unknown type byte among elements that are right, and counts,   *)
(* sizes and lengths that an int does not hold: with IntMax = 895, 1794    *)
(* (<<23, 16, 2>>) becomes 2 and 1024 (<<20, 16, 0>>) becomes -768.        *)
UnknownStreams ==
  {<<10, 1>>, <<9, 3, 2, 2, 2, 1, 5, 10, 5, 1, 6>>, <<8, 2, 2, 10, 7, 1, 5>>,
   <<8, 2, 4, 1, 5, 9, 1, 2, 10, 5>>, <<7, 1, 1, 3, 2, 10, 10>>}

WideStreams ==
  {<<9, 23, 16, 2, 2, 2, 1, 5, 1, 6>>, <<9, 2, 23, 16, 2, 2, 1, 5, 1, 6>>,
   <<7, 1, 23, 16, 2, 3, 4, 2, 1, 5>>, <<9, 20, 16, 0, 1>>,
   <<7, 1, 20, 16, 0, 3, 4, 2, 1, 5>>, <<9, 2, 20, 16, 0, 2, 1, 5, 1, 6>>}

ShortStreams == UNION {[1 .. n -> {1, 2, 6, 7, 8, 9, 10, 17}] : n \in 0 .. 4}

(* One call on a Decoder, or two on the same Decoder.                      *)
FewStreams ==
  {b : b \in UnknownStreams \cup
         Streams(LongDocs \cup
                 TreesUpTo(3, {NewString(Chars(2)), Number(0), Number(20)}))}

MCSessions ==
  {<<b>> : b \in AllStreams \cup WideStreams \cup ShortStreams}
    \cup {<<a, b>> : a, b \in FewStreams}
=============================================================================
