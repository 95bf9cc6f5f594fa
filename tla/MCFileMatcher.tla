--------------------------- MODULE MCFileMatcher ----------------------------
(***************************************************************************)
(* A tree with a nested directory, a directory excluded by the client with *)
(* a directory below it, a hidden file, a hidden directory's visible file  *)
(* and an entry that is no file.                                           *)
(***************************************************************************)
EXTENDS FileMatcher, TLC

CONSTANTS d, x, h, z    \* names; h starts with a dot
CONSTANTS p, q, bad, huge\* patterns

MCNames == {d, x, h, z}
MCHiddenNames == {h}
MCDirs == {<<d>>, <<x>>, <<x, d>>}
MCFiles == {<<d, h>>, <<d, z>>, <<x, z>>, <<z>>}
MCEntries == MCDirs \union MCFiles \union {<<h>>}
MCDirExcludes == {<<x>>}
MCPatterns == {p, q, bad, huge}
MCBadPatterns == {bad}
MCHugePatterns == {huge}
MCMatches == (p :> {<<d, h>>, <<x, z>>, <<z>>}) @@ (q :> {<<d, z>>, <<z>>})
                @@ (bad :> {}) @@ (huge :> {})
MCRank == <<d>> :> 1 @@ <<d, h>> :> 2 @@ <<d, z>> :> 3 @@ <<h>> :> 4
            @@ <<x>> :> 5 @@ <<x, d>> :> 6 @@ <<x, z>> :> 7 @@ <<z>> :> 8
=============================================================================
