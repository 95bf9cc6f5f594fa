---------------------------- MODULE MCVerifyApp -----------------------------
(***************************************************************************)
(* Metafiles for VerifyApp: a single file; files out of order, with a      *)
(* directory between two files, a directory last and one of padding only;  *)
(* three levels, each left from the last and from another entry; a         *)
(* directory that holds padding and data; and two padding files of one     *)
(* size, which share a path.                                               *)
(***************************************************************************)
EXTENDS VerifyApp

F(path, size) == [path |-> path, size |-> size, pad |-> FALSE]
P(path, size) == [path |-> path, size |-> size, pad |-> TRUE]

Shared(protocol, fs, places) ==
    [single |-> FALSE, protocol |-> protocol, files |-> fs, places |-> places]

\* No two files with one path.
Meta(protocol, fs) == Shared(protocol, fs, [i \in DOMAIN fs |-> i])

MCStart == <<" ", " ">>

MCMetafiles ==
    {[single |-> TRUE, protocol |-> "v1", files |-> <<F(<<4>>, 2)>>, places |-> <<1>>],
     Meta("hybrid", <<F(<<5>>, 1), P(<<0, 1>>, 2), F(<<3, 2>>, 1), P(<<0, 2>>, 1), F(<<3, 1>>, 2)>>),
     Meta("v1", <<F(<<2, 1, 1>>, 1), F(<<1, 1, 1>>, 1), F(<<1, 2>>, 1), F(<<2, 2, 1>>, 2)>>),
     Meta("v1", <<F(<<1, 1, 1, 1>>, 1), F(<<1, 1, 2>>, 2), P(<<1, 0, 1>>, 1), F(<<2>>, 1)>>),
     Meta("v2", <<F(<<1, 2, 1>>, 1), F(<<1, 2, 2>>, 1), F(<<1, 2, 3>>, 1), F(<<1, 3>>, 1)>>),
     Meta("hybrid", <<F(<<7, 1>>, 2), P(<<7, 3>>, 1), F(<<7, 2>>, 1)>>),
     Shared("v1", <<F(<<1>>, 1), P(<<0, 2>>, 1), F(<<2>>, 1), P(<<0, 1>>, 1)>>, <<1, 2, 3, 2>>)}
=============================================================================
