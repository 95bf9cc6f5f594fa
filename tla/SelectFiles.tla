---------------------------- MODULE SelectFiles -----------------------------
(***************************************************************************)
(* What `create` promises of its file selection, in one step: the metafile *)
(* gets exactly the selected files in path order, or the program ends      *)
(* without having written a list.  The outcome is a function of the        *)
(* command line and of the tree, never of the speed of the scan.           *)
(***************************************************************************)
EXTENDS FileTree

CONSTANT CanStop        \* does the client ever call file_matcher::stop()?

VARIABLES opts,         \* the command line
          locked,       \* the directories that cannot be read
          phase,        \* how the selection ended, or "pending"
          storage       \* the file list and mode of the metafile

vars == <<opts, locked, phase, storage>>

NoStorage == [mode |-> "none", files |-> <<>>]

Init ==
    /\ opts \in Options
    /\ locked \in SUBSET (Dirs \union {Root})
    /\ phase = "pending"
    /\ storage = NoStorage

End(p) == phase = "pending" /\ phase' = p /\ UNCHANGED <<opts, locked>>

SelectSingle ==
    /\ ~opts.isDir
    /\ End("done")
    /\ storage' = [mode |-> "single", files |-> <<Root>>]

SelectTree ==
    /\ opts.isDir
    /\ ~Rejected(opts)
    /\ locked \cap Opened = {}
    /\ End("done")
    /\ storage' \in [mode : {"multi"}, files : Seq(Files)]
    /\ IsSelection(storage'.files, opts)

Reject == opts.isDir /\ Rejected(opts) /\ End("rejected") /\ UNCHANGED storage

Terminate ==
    /\ opts.isDir
    /\ ~Rejected(opts)
    /\ locked \cap Opened # {}
    /\ End("terminated")
    /\ UNCHANGED storage

Abandon ==
    /\ CanStop
    /\ opts.isDir
    /\ ~Rejected(opts)
    /\ End("stopped")
    /\ UNCHANGED storage

Next == SelectSingle \/ SelectTree \/ Reject \/ Terminate \/ Abandon

Spec == Init /\ [][Next]_vars
=============================================================================
