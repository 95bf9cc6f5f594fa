------------------------------- MODULE Paths --------------------------------
(***************************************************************************)
(* std::filesystem::path as the commands that read a metafile use it: a    *)
(* relative path is the sequence of its elements, and an element is a      *)
(* number, its place in the order of the names.                            *)
(***************************************************************************)
EXTENDS Naturals, Sequences, SequencesExt

Prefix(p, i) == SubSeq(p, 1, i)

\* fs::path's operator<, which compares element by element.
PathLess(p, q) ==
    \/ IsStrictPrefix(p, q)
    \/ \E i \in DOMAIN p \cap DOMAIN q :
          p[i] < q[i] /\ Prefix(p, i - 1) = Prefix(q, i - 1)

\* The directories above p, without the root.
Ancestors(p) == {Prefix(p, i) : i \in 1 .. Len(p) - 1}

Under(d, p) == IsStrictPrefix(d, p)
=============================================================================
