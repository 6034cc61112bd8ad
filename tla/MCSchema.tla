------------------------------ MODULE MCSchema ------------------------------
(* Instances of SchemaClient for TLC.                                       *)
EXTENDS SchemaClient, DocSets

MCWeight     == Powers(Radix, MaxGroups)
MCPrimitives == {Number(7), Primitive("OTHER", <<7>>)}
MCNames      == {Chars(1)}
MCSchemaName == Chars(2)
=============================================================================
