------------------------------ MODULE TreeView ------------------------------
(***************************************************************************)
(* include/tree_view.hpp and src/tree_view.cpp: the file tree that `info`  *)
(* and `verify` print.  filetree_index sorts the files by path and keeps   *)
(* for every directory the range of sorted files below it and their size;  *)
(* tree_printer::walk descends with a stack of its own and keeps the       *)
(* guides to the left of a line in one string, prefix_, which grows and    *)
(* shrinks by bytes.                                                       *)
(*                                                                         *)
(* Colours and the shortening of long names are left out.                  *)
(***************************************************************************)
EXTENDS Storage

CONSTANT start          \* the prefix both callers give

ASSUME StartAssumption == start \in Seq(STRING)

VARIABLES caller,       \* the command that prints the tree
          list_padding, \* tree_options::list_padding_files
          index,        \* the filetree_index
          stack,        \* the frames of walk()
          prefix_,
          output,       \* output_: the lines, with the file each is about
          walk          \* the next step of the printer

treeVars == <<caller, list_padding, index, stack, prefix_, output, walk>>

\* The byte strings of the guides: a bar is three bytes long.
sub == <<"bar1", "bar2", "bar3", " ", " ", " ">>
sub_last == <<" ", " ", " ", " ">>

\* What format_file_tree puts before a name that stands alone.
name_start == <<" ", " ">>

-----------------------------------------------------------------------------
(* filetree_index *)

\* std::sort, with operator< of file_entry: the k-th index is that of the file with
\* k - 1 files before it.
create_sorted_file_indices ==
    [k \in DOMAIN files |->
        CHOOSE i \in DOMAIN files :
            Cardinality({j \in DOMAIN files : PathLess(files[j].path, files[i].path)}) = k - 1]

RootNode(n) == [first |-> 1, last |-> n + 1,
                total_file_size |-> SizeOf(DOMAIN files), padding_dir |-> FALSE]

\* One round of create_directory_map's loop: file f, the i-th in order.
AddFile(directories, i, f) ==
    LET above == Ancestors(f.path)
        known == DOMAIN directories
    IN [d \in known \union above |->
          IF d \notin above THEN directories[d]
          ELSE IF d \in known
          THEN [directories[d] EXCEPT !.last = @ + 1, !.total_file_size = @ + f.size]
          ELSE [first |-> i, last |-> i + 1,
                total_file_size |-> f.size, padding_dir |-> FALSE]]

create_directory_map(indices) ==
    LET after[i \in 0 .. Len(indices)] ==
            IF i = 0 THEN [root \in {<<>>} |-> RootNode(Len(indices))]
            ELSE AddFile(after[i - 1], i, files[indices[i]])
    IN after[Len(indices)]

\* dottorrent's is_padding_directory (external).
is_padding_directory(d) ==
    \A i \in DOMAIN files : Under(d, files[i].path) => files[i].pad

remove_padding_file_only_directories(directories) ==
    [d \in DOMAIN directories |->
        [directories[d] EXCEPT !.padding_dir = is_padding_directory(d)]]

get_directory_size(d) == index.directories[d].total_file_size

\* The entries of a directory: a file, or a directory (entry 0) that stands for
\* all the files below it, which are skipped.
list_directory_content(root) ==
    LET dir == index.directories[root]
        from[i \in dir.first .. dir.last] ==
            IF i = dir.last THEN <<>>
            ELSE LET file == index.indices[i]
                     rest == SubSeq(files[file].path, Len(root) + 1, Len(files[file].path))
                     below == index.directories[Append(root, rest[1])]
                 IN IF Len(rest) > 1
                    THEN (IF below.padding_dir
                          THEN <<>> ELSE <<[name |-> rest[1], entry |-> 0]>>)
                            \o from[below.last]
                    ELSE (IF ~list_padding /\ files[file].pad
                          THEN <<>> ELSE <<[name |-> rest[1], entry |-> file]>>)
                            \o from[i + 1]
    IN from[dir.first]

\* The constructor of tree_printer, which makes the index.
MakePrinter(padding) ==
    LET indices == create_sorted_file_indices
        directories == create_directory_map(indices)
    IN /\ list_padding' = padding
       /\ index' = [indices |-> indices,
                    directories |-> IF padding THEN directories
                                    ELSE remove_padding_file_only_directories(directories)]
       /\ prefix_' = start
       /\ output' = <<>>
       /\ stack' = <<>>
       /\ walk' = "start"

-----------------------------------------------------------------------------
(* tree_printer *)

\* print_entry: what it appends for an entry of directory root.
print_entry(root, element, node) ==
    LET path == Append(root, element.name)
        size == IF element.entry # 0 THEN files[element.entry].size
                ELSE get_directory_size(path)
    IN [path |-> path, entry |-> element.entry, node |-> node, prefix |-> prefix_,
        size |-> IF caller = "info" THEN size ELSE 0]

NameLine(prefix) ==
    [path |-> <<>>, entry |-> 0, node |-> "none", prefix |-> prefix, size |-> 0]

Frame(path) == [path |-> path, content |-> list_directory_content(path), index |-> 0]

top == stack[Len(stack)]

Finished(frame) == frame.index = Len(frame.content)

\* The guide for what is below the entry the frame's index is just past.
GuideOf(frame) == IF Finished(frame) THEN sub_last ELSE sub

\* DEVIATION: every guide is taken to be as long as the longer one.
RemoveLongest(frame) == SubSeq(prefix_, 1, Len(prefix_) - Len(sub))

\* prefix_ without the guide of what is below the frame's present entry.
RemoveGuide(frame) == SubSeq(prefix_, 1, Len(prefix_) - Len(GuideOf(frame)))

\* format_file_tree for a metafile of a single file: the name and no tree.
PrintName ==
    /\ walk = "name"
    /\ output' = <<NameLine(name_start)>>
    /\ walk' = "done"
    /\ UNCHANGED <<caller, list_padding, index, stack, prefix_>>

WalkSingle ==
    /\ walk = "start" /\ metafile.single
    /\ output' = <<print_entry(<<>>, list_directory_content(<<>>)[1], "none")>>
    /\ walk' = "done"
    /\ UNCHANGED <<caller, list_padding, index, stack, prefix_>>

WalkMulti ==
    /\ walk = "start" /\ ~metafile.single
    /\ output' = <<NameLine(<<>>)>>
    /\ stack' = <<Frame(<<>>)>>
    /\ walk' = "walk"
    /\ UNCHANGED <<caller, list_padding, index, prefix_>>

\* One round of the loop of walk() for an entry of the top frame.
WalkEntry ==
    /\ walk = "walk" /\ ~Finished(top)
    /\ LET element == top.content[top.index + 1]
           node == IF top.index = Len(top.content) - 1 THEN "end" ELSE "node"
           moved == [top EXCEPT !.index = @ + 1]
           rest == Append(Front(stack), moved)
       IN /\ output' = Append(output, print_entry(top.path, element, node))
          /\ IF element.entry # 0
             THEN stack' = rest /\ UNCHANGED prefix_
             ELSE /\ prefix_' = prefix_ \o GuideOf(moved)
                  /\ stack' = Append(rest, Frame(Append(top.path, element.name)))
    /\ UNCHANGED <<caller, list_padding, index, walk>>

\* DEVIATION: a frame is only popped while there is one below it.
LeaveButNotLast ==
    /\ walk = "walk" /\ Finished(top)
    /\ stack' = IF Len(stack) > 1 THEN Front(stack) ELSE stack
    /\ prefix_' = IF Len(stack) > 1 THEN RemoveGuide(stack[Len(stack) - 1]) ELSE prefix_
    /\ UNCHANGED <<caller, list_padding, index, output, walk>>

\* The round that finds the top frame at its end.
LeaveDirectory ==
    /\ walk = "walk" /\ Finished(top)
    /\ stack' = Front(stack)
    /\ IF Len(stack) > 1
       THEN prefix_' = RemoveGuide(stack[Len(stack) - 1]) /\ UNCHANGED walk
       ELSE walk' = "done" /\ UNCHANGED prefix_
    /\ UNCHANGED <<caller, list_padding, index, output>>

Walk == PrintName \/ WalkSingle \/ WalkMulti \/ WalkEntry \/ LeaveDirectory

-----------------------------------------------------------------------------
Listing == INSTANCE TreeListing WITH
    files <- Range(files),
    shape <- IF ~metafile.single THEN "tree"
             ELSE IF caller = "info" THEN "name" ELSE "file",
    padding <- list_padding,
    sized <- caller = "info",
    lines <- [i \in DOMAIN output |->
                [path |-> output[i].path, node |-> output[i].node,
                 prefix |-> output[i].prefix, size |-> output[i].size]]

\* The walk prints every entry that is not hidden once, in the order of the paths,
\* with the guides and the sizes TreeListing asks for, and does not stop before the
\* last one: filetree_index and tree_printer implement TreeListing.
ListingSpec == Listing!Spec
=============================================================================
