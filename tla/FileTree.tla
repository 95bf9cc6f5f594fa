------------------------------ MODULE FileTree ------------------------------
(***************************************************************************)
(* The directory tree `torrenttools create` scans and the file filter it   *)
(* applies: the part of include/file_matcher.hpp that does not depend on   *)
(* the scanning thread.  A path is the sequence of its names below the     *)
(* search root, so the root itself is <<>>.  What a regular expression     *)
(* matches is a constant: RE2 is not part of this code base.               *)
(***************************************************************************)
EXTENDS Naturals, Sequences, FiniteSets, Functions

CONSTANTS Names,        \* the names a file or a directory can have
          HiddenNames,  \* those that start with a dot
          Entries,      \* every path below the search root
          Dirs,         \* the directories among them
          Files,        \* the regular files among them
          DirExcludes,  \* file_matcher::directory_exclude_list_
          Patterns,     \* the patterns a user can give
          BadPatterns,  \* those RE2::Set::Add refuses
          HugePatterns, \* those RE2::Set::Compile has not enough memory for
          Matches,      \* Matches[p]: the paths pattern p matches
          Rank          \* the place of a path in the order of the path strings

Root == <<>>

\* The first i names of a path: its ancestor at depth i.
Prefix(p, i) == SubSeq(p, 1, i)

ASSUME TreeAssumption ==
    /\ HiddenNames \subseteq Names
    /\ Entries \subseteq Seq(Names) \ {Root}
    /\ IsFiniteSet(Entries)
    /\ Dirs \subseteq Entries
    /\ Files \subseteq Entries \ Dirs
    /\ \A p \in Entries : \A i \in 1 .. Len(p) - 1 : Prefix(p, i) \in Dirs

ASSUME FilterAssumption ==
    /\ BadPatterns \subseteq Patterns
    /\ HugePatterns \subseteq Patterns
    /\ Matches \in [Patterns -> SUBSET Entries]
    /\ Rank \in [Entries -> Nat]
    /\ IsInjective(Rank)

\* What a directory iterator opened on d yields.
Children(d) == {p \in Entries : Len(p) = Len(d) + 1 /\ Prefix(p, Len(d)) = d}

\* The iterator never gets to p: a directory above it is excluded.
Pruned(p) == \E i \in 1 .. Len(p) - 1 : Prefix(p, i) \in DirExcludes

\* p or a directory above it is in F.
Below(F, p) == \E i \in 1 .. Len(p) : Prefix(p, i) \in F

\* No member of F lies below another.
Antichain(F) == \A p \in F : \A i \in 1 .. Len(p) - 1 : Prefix(p, i) \notin F

Reachable == {p \in Entries : ~Pruned(p)}

\* The directories the iterator opens.
Opened == {Root} \union {d \in Dirs \cap Reachable : d \notin DirExcludes}

\* The command line of the scan: the options configure_matcher reads, and
\* whether the target is a directory.
Options == [include : SUBSET Patterns, exclude : SUBSET Patterns,
            hidden : BOOLEAN, isDir : BOOLEAN]

Hidden(f) == f[Len(f)] \in HiddenNames

MatchesAny(ps, f) == \E p \in ps : f \in Matches[p]

\* What docs/commands/create.rst promises of the include and exclude options.
Wanted(o, f) ==
    /\ o.include # {} => MatchesAny(o.include, f)
    /\ o.include = {} => (o.hidden \/ ~Hidden(f))
    /\ ~MatchesAny(o.exclude, f)

Selected(o) == {f \in Files \cap Reachable : Wanted(o, f)}

\* The option values that make configure_matcher throw.
Rejected(o) == (o.include \union o.exclude) \cap (BadPatterns \union HugePatterns) # {}

Increasing(s) == \A i, j \in DOMAIN s : i < j => Rank[s[i]] < Rank[s[j]]

\* The list a metafile must hold: the selected files, once each, in the order
\* of their path strings, whatever the order the file system lists them in.
IsSelection(s, o) == Range(s) = Selected(o) /\ Increasing(s)
=============================================================================
