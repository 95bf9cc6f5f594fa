--------------------------- MODULE MCHashProgress ---------------------------
(***************************************************************************)
(* All lists of up to MaxFiles files of up to MaxSize bytes, with padding   *)
(* and empty files anywhere, the empty list included.                      *)
(***************************************************************************)
EXTENDS HashProgress

CONSTANTS MaxFiles, MaxSize

MCStorages == UNION {[1 .. n -> [size : 0 .. MaxSize, pad : BOOLEAN]] :
                        n \in 0 .. MaxFiles}
=============================================================================
