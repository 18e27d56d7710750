---------------------------- MODULE MCFactoryNv -----------------------------
(* The two blocks of the code, two items that must not disturb each other, *)
(* and room for three writes of two copies each.                           *)
EXTENDS FactoryNv

TwoBlocks == 2
MadeInFactory == [i \in Item |-> 0]
ThreeWrites == 6
=============================================================================
