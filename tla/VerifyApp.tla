----------------------------- MODULE VerifyApp ------------------------------
(***************************************************************************)
(* A user at work on a download: `torrenttools pad`, `verify` and `info`   *)
(* on one metafile and one directory, in any order, as often as the user   *)
(* likes, with the padding files removed in between (docs/commands/pad.rst *)
(* says why one does that).  verify hashes what is on the disk, then walks *)
(* the tree and puts the percentage of a file next to its line; info only  *)
(* walks the tree.  The loop that follows the hashing threads is           *)
(* HashProgress's.                                                         *)
(***************************************************************************)
EXTENDS TreeView, PadApp

VARIABLES protocol_version,     \* verifier_options.protocol_version
          percentages,          \* storage_verifier::percentage, file by file
          table                 \* the lines of verify: the file and its percentage

verifyVars == <<protocol_version, percentages, table>>

vars == <<metafile, treeVars, padVars, verifyVars>>

\* run_verify_app: without an explicit protocol, what the metafile supports.
ProtocolOf(option) == IF option = "none" THEN metafile.protocol ELSE option

\* The padding file that completes the last piece of a file of a v1 metafile
\* follows it directly.
PadAfter(i) == {j \in Pads : j = i + 1}

\* storage_verifier (external): a file is complete when its bytes are there and, for
\* protocols with pieces that span files, those of the padding that follows.
percentage(i, protocol) ==
    LET needed == IF protocol = "v2" THEN {i} ELSE {i} \union PadAfter(i)
    IN IF \A j \in needed : disk[place(j)] = files[j].size THEN 100 ELSE 0

Start(app) == command = "none" /\ command' = app /\ outcome' = "none"

\* The memory of the process before is gone.
NoTable == table' = <<>> /\ percentages' = <<>> /\ protocol_version' = "none"

NoTree ==
    index' = <<>> /\ stack' = <<>> /\ prefix_' = start /\ output' = <<>>

DiskUnchanged == UNCHANGED <<metafile, disk, dirs, pos, step, fault>>

\* The options of -v that the metafile has the hashes for.
Options == {"none", metafile.protocol} \union
             (IF metafile.protocol = "hybrid" THEN Protocols ELSE {})

\* run_verify_app up to the tree; format_verify_file_tree makes the printer.
RunVerify(option) ==
    /\ Start("verify")
    /\ protocol_version' = ProtocolOf(option)
    /\ percentages' = [i \in DOMAIN files |-> percentage(i, protocol_version')]
    /\ caller' = "verify"
    /\ MakePrinter(FALSE)
    /\ table' = <<>>
    /\ DiskUnchanged

\* create_general_info and format_file_tree, which asks for no tree of a single file.
RunInfo(show_padding_files) ==
    /\ Start("info")
    /\ caller' = "info"
    /\ IF metafile.single
       THEN /\ NoTree
            /\ walk' = "name" /\ list_padding' = show_padding_files
       ELSE MakePrinter(show_padding_files)
    /\ NoTable
    /\ DiskUnchanged

\* DEVIATION: the strings of the columns are not cleared for a directory.
RowKeepsColumns(i) ==
    LET about == {j \in 1 .. i : output[j].entry # 0}
    IN IF about = {} THEN -1 ELSE percentages[output[Max(about)].entry]

\* The percentage column of the i-th line; that of a directory is cleared (-1).
PercentageColumn(i) ==
    IF output[i].entry # 0 THEN percentages[output[i].entry] ELSE -1

\* The loop over the printer's lines that fills the table.
FormatTable ==
    /\ command = "verify" /\ walk = "done"
    /\ table' = [i \in DOMAIN output |->
                    [path |-> output[i].path, percentage |-> PercentageColumn(i)]]
    /\ command' = "none" /\ outcome' = "shown"
    /\ DiskUnchanged /\ UNCHANGED <<treeVars, protocol_version, percentages>>

InfoDone ==
    /\ command = "info" /\ walk = "done"
    /\ command' = "none" /\ outcome' = "shown"
    /\ DiskUnchanged /\ UNCHANGED <<treeVars, verifyVars>>

WalkStep ==
    /\ command \in {"info", "verify"} /\ Walk
    /\ UNCHANGED <<metafile, padVars, verifyVars>>

Init ==
    /\ PadInit
    /\ caller = "info" /\ list_padding = FALSE
    /\ index = <<>> /\ stack = <<>> /\ prefix_ = start /\ output = <<>> /\ walk = "none"
    /\ protocol_version = "none" /\ percentages = <<>> /\ table = <<>>

\* pad prints nothing; its process knows nothing of the ones before.
StartPad ==
    /\ RunPad
    /\ NoTree /\ walk' = "none" /\ caller' = "info" /\ list_padding' = FALSE
    /\ NoTable

Next ==
    \/ StartPad
    \/ (PadStep \/ PadKilled \/ RemovePadding) /\ UNCHANGED <<treeVars, verifyVars>>
    \/ \E option \in Options : RunVerify(option)
    \/ \E show_padding_files \in BOOLEAN : RunInfo(show_padding_files)
    \/ WalkStep
    \/ FormatTable
    \/ InfoDone

Spec == Init /\ [][Next]_vars

\* A command that runs goes on: one thread, and no call that waits for another.
CommandStep ==
    \/ PadStep /\ UNCHANGED <<treeVars, verifyVars>>
    \/ WalkStep \/ FormatTable \/ InfoDone

FairSpec == Spec /\ WF_vars(CommandStep)

-----------------------------------------------------------------------------
\* The table of verify has a percentage for the files that are not padding and for
\* no directory, and on the line of a file it is that file's own: the lines come in
\* the order of the paths and the percentages in that of the metafile.
TableTruthful ==
    table # <<>> =>
        /\ {table[i].path : i \in {j \in DOMAIN table : table[j].percentage # -1}}
              = {files[i].path : i \in Regular}
        /\ \A i \in DOMAIN table, j \in DOMAIN files :
              table[i].path = files[j].path => table[i].percentage = percentages[j]

\* Every command ends: the walk with its own stack and the loop over the padding
\* files come to their end for every metafile.
CommandEnds == command # "none" ~> command = "none"
=============================================================================
