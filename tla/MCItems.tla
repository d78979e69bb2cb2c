------------------------------- MODULE MCItems -------------------------------
(* Instance of Items: "net" is part of "netflix", "pia" of "piano".  "pinya"  *)
(* stands for one word with a tilde, of which the database keeps all letters  *)
(* and the program the ASCII ones, so that it is asked for as "pia"; of the   *)
(* foreign text the program keeps nothing.                                    *)
EXTENDS Items, TLC

CONSTANTS net, netflix, pia, piano, pinya, foreign, f1, f2

MCContains == {<<net, net>>, <<netflix, netflix>>, <<netflix, net>>}
MCStored == [t \in Texts |-> t]
MCAsked == [t \in Texts |-> CASE t = pinya -> pia [] t = foreign -> NoForm [] OTHER -> t]
MCPartOf == {<<t, t>> : t \in Texts} \cup {<<piano, pia>>}
MCSymmetry == Permutations(Flushes)
=============================================================================
