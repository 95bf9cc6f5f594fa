---------------------------- MODULE TreeListing -----------------------------
(***************************************************************************)
(* What the file tree of `torrenttools info` and `torrenttools verify`     *)
(* must show, said without an index, a stack or a prefix: the entries that *)
(* are not hidden, one line each, in the order of their paths; padding files   *)
(* of one size, which are one file on the disk, are entries of their own.  *)
(* The guides of a line say for every directory above the entry whether    *)
(* something follows in the directory that holds it.                       *)
(***************************************************************************)
EXTENDS Paths, FiniteSets, Functions

CONSTANTS start,        \* the indentation the caller asks for
          name_start,   \* the indentation of a name that stands alone
          sub,          \* the guide below a directory with a later sibling
          sub_last      \* the guide below the last entry of a directory

VARIABLES files,        \* the set of files: path, size, whether it is padding
          shape,        \* "tree": all entries, "file": the only file,
                        \* "name": the name of the torrent
          padding,      \* padding files are shown too
          sized,        \* the lines show sizes
          lines

vars == <<files, shape, padding, sized, lines>>

Shown == {f.path : f \in {g \in files : padding \/ ~g.pad}}

Name == <<>>

\* A directory is shown when a file below it is.
Entries ==
    CASE shape = "name" -> {Name}
      [] shape = "file" -> Shown
      [] shape = "tree" -> {Name} \union Shown \union UNION {Ancestors(p) : p \in Shown}

Siblings(p) == {q \in Entries \ {Name} : Front(q) = Front(p)}

IsLast(p) == \A q \in Siblings(p) : ~PathLess(p, q)

Guide(p) == IF IsLast(p) THEN sub_last ELSE sub

\* The bytes at or below p, those of padding files included.
SizeBelow(p) ==
    SumFunctionOnSet([f \in files |-> f.size], {f \in files : IsPrefix(p, f.path)})

Node(p) ==
    IF p = Name \/ shape = "file" THEN "none" ELSE IF IsLast(p) THEN "end" ELSE "node"

NamePrefix == IF shape = "name" THEN name_start ELSE <<>>

Line(p) ==
    [path |-> p, node |-> Node(p),
     prefix |-> IF p = Name THEN NamePrefix
                ELSE start \o FlattenSeq([i \in 1 .. Len(p) - 1 |-> Guide(Prefix(p, i))]),
     size |-> IF sized /\ p # Name THEN SizeBelow(p) ELSE 0]

\* The entry with exactly i entries before it.
Entry(i) == CHOOSE p \in Entries : Cardinality({q \in Entries : PathLess(q, p)}) = i

Complete == Len(lines) = Cardinality(Entries)

Init ==
    /\ lines = <<>>
    /\ padding \in BOOLEAN /\ sized \in BOOLEAN
    /\ shape \in {"tree", "file", "name"}

PrintLine ==
    /\ ~Complete
    /\ lines' = Append(lines, Line(Entry(Len(lines))))
    /\ UNCHANGED <<files, shape, padding, sized>>

\* Another command prints the tree again, but not before this one is done.
PrintAgain ==
    /\ Complete \/ lines = <<>>
    /\ lines' = <<>>
    /\ padding' \in BOOLEAN /\ sized' \in BOOLEAN
    /\ shape' \in {"tree", "file", "name"}
    /\ UNCHANGED files

Next == PrintLine \/ PrintAgain

Spec == Init /\ [][Next]_vars
=============================================================================
