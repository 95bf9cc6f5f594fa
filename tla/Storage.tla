------------------------------ MODULE Storage -------------------------------
(***************************************************************************)
(* The file_storage of a loaded metafile, as `info`, `verify` and `pad`    *)
(* use it: a list of files, some of which are padding, in the order of the *)
(* metafile.                                                               *)
(***************************************************************************)
EXTENDS Paths, FiniteSets, Functions

CONSTANT Metafiles      \* the metafiles considered

File == [path : Seq(Nat), size : Nat, pad : BOOLEAN]

Protocols == {"v1", "v2", "hybrid"}

\* A path has a name, and none of a metafile is a file and a directory.  A metafile in
\* single-file mode has one file, with a name and no directory, that holds the data.
\*
\* Names are numbers, in their order.  Padding files of one size have one path,
\* .pad/<size>: they are entries of their own in the list of files, which get numbers
\* next to each other (the one std::sort leaves first gets the lower one), and one
\* file on the disk, the place that "places" gives all of them.
ASSUME MetafileAssumption ==
    \A m \in Metafiles :
        /\ m.single \in BOOLEAN
        /\ m.protocol \in Protocols
        /\ m.files \in Seq(File)
        /\ \A i \in DOMAIN m.files : m.files[i].path # <<>>
        /\ \A i, j \in DOMAIN m.files :
              IsPrefix(m.files[i].path, m.files[j].path) => i = j
        /\ m.places \in [DOMAIN m.files -> DOMAIN m.files]
        /\ \A i \in DOMAIN m.files :
              /\ m.places[m.places[i]] = m.places[i]
              /\ m.places[i] # i =>
                    /\ m.files[i].pad /\ m.files[m.places[i]].pad
                    /\ m.files[m.places[i]].size = m.files[i].size
                    /\ Front(m.files[m.places[i]].path) = Front(m.files[i].path)
        /\ m.single =>
              Len(m.files) = 1 /\ Len(m.files[1].path) = 1 /\ ~m.files[1].pad

VARIABLE metafile       \* what load_metafile returned

files == metafile.files

\* The file on the disk of the i-th entry: the first entry with its path.
place(i) == metafile.places[i]

Places == Range(metafile.places)

SizeOf(S) == SumFunctionOnSet([i \in DOMAIN files |-> files[i].size], S)
=============================================================================
