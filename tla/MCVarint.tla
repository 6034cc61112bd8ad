------------------------------ MODULE MCVarint ------------------------------
(* Instances of VarintLoops for TLC: numbers of up to four groups.          *)
EXTENDS VarintLoops

MCWeight == [k \in 0 .. MaxGroups - 1 |-> Radix ^ k]
MCValues == -300 .. 4500
=============================================================================
