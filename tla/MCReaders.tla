----------------------------- MODULE MCReaders -----------------------------
(* Readers on small instances. *)
EXTENDS Readers, TLC

CONSTANTS t1, f1, f2, i1, i2, i3, i4, n1, n2, n3

OneTask == {t1}

TwoFiles == {f1, f2}
OneSaved == {<<f1>>}

\* Two files of one name, one of another, and one that is empty.
FourIds == {i1, i2, i3, i4}
ThreeNames == {n1, n2, n3}
NamesOfIds == (i1 :> n1) @@ (i2 :> n1) @@ (i3 :> n2) @@ (i4 :> n3)
DigitsOfNames == (n1 :> 1) @@ (n2 :> 2) @@ (n3 :> 0)
EmptyNames == {n3}
=============================================================================
