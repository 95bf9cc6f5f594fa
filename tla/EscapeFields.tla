---------------------------- MODULE EscapeFields ----------------------------
(***************************************************************************)
(* src/escape_binary_fields.cpp: before a metafile is printed as JSON the  *)
(* piece hashes and the merkle roots are replaced, by a description of     *)
(* them or, with hex, by lists in hexadecimal.  The file tree of a v2      *)
(* metafile is walked with a stack of dictionaries and iterators, and its  *)
(* values are replaced while it is walked.                                 *)
(*                                                                         *)
(* Bytes come in units of four, so that a SHA-1 hash is five units long    *)
(* and a SHA-256 hash eight; the i-th unit of the n-th hash is <<n, i>>.   *)
(* A hash written in hexadecimal is still its units.                       *)
(***************************************************************************)
EXTENDS Paths, FiniteSets, Functions

sha1_size == 5
sha256_size == 8

Hashes(n, size) ==
    [u \in 1 .. n * size |-> <<1 + (u - 1) \div size, 1 + ((u - 1) % size)>>]

Raw(data) == [form |-> "raw", data |-> data]
Described(n) == [form |-> "described", data |-> <<n>>]
Listed(slices) == [form |-> "listed", data |-> slices]
MerkleRoot(root) == [form |-> "merkle root", data |-> root]
NoValue == [form |-> "missing", data |-> <<>>]

VARIABLES bv,           \* the copy that is escaped: pieces, piece layers, roots
          hex,          \* which of the two functions runs
          frames,       \* the stack of the walk through the file tree
          escape        \* the next step of the function

escapeVars == <<bv, hex, frames, escape>>

\* The value of a metafile: /info/pieces, the "piece layers" by merkle root if it has
\* that key, and the "pieces root" of every file in /info/file tree, which an empty file
\* lacks.
Value(m) ==
    [pieces |-> IF m.pieces = 0 THEN NoValue ELSE Raw(Hashes(m.pieces, sha1_size)),
     layered |-> m.layered,
     layers |-> [r \in DOMAIN m.layers |-> Raw(Hashes(m.layers[r], sha256_size))],
     layer_keys |-> "raw",
     roots |-> [p \in DOMAIN m.roots |->
                  IF m.roots[p] = 0 THEN NoValue ELSE Raw(<<m.roots[p]>>)]]

RoundedUp(bytes, size) == (bytes + size - 1) \div size

\* std::string_view::substr.
substr(data, first, n) ==
    SubSeq(data, first + 1, IF first + n < Len(data) THEN first + n ELSE Len(data))

make_v1_piece_list(field) ==
    Listed([i \in 1 .. RoundedUp(Len(field.data), sha1_size) |->
              substr(field.data, sha1_size * (i - 1), sha1_size)])

\* The length of a piece is that of a SHA-1 hash here too.
make_v2_piece_list(field) ==
    Listed([i \in 1 .. RoundedUp(Len(field.data), sha256_size) |->
              substr(field.data, sha1_size * (i - 1), sha1_size)])

EscapedPieces(field) ==
    IF hex THEN make_v1_piece_list(field)
    ELSE Described(RoundedUp(Len(field.data), sha1_size))

EscapedLayer(field) ==
    IF hex THEN make_v2_piece_list(field) ELSE Described(Len(field.data) \div sha256_size)

-----------------------------------------------------------------------------
Leaves == DOMAIN bv.roots

\* The empty key, below which a file's own dictionary is.
FileKey == 0

\* The keys of the dictionary at p.
KeysAt(p) ==
    IF p \in Leaves THEN {FileKey}
    ELSE {q[Len(p) + 1] : q \in {l \in Leaves : Under(p, l)}}

\* A dictionary and an iterator of it: the keys that the iterator has not passed.
Frame(p) == [path |-> p, left |-> KeysAt(p)]

top == frames[Len(frames)]

\* it == end.
AtEnd == top.left = {}

\* The key that the iterator is at: a dictionary is in the order of its keys.
key == Min(top.left)

\* ++it, for the frame that was the top one before anything is pushed.
Advanced == Append(Front(frames), [top EXCEPT !.left = @ \ {key}])

pieces_escaped ==
    [bv EXCEPT !.pieces = IF @.form = "missing" THEN @ ELSE EscapedPieces(@)]

\* Both functions up to the walk: without "piece layers" (has_v2_piece_layers) the file
\* tree is left as it is.
EscapeHashes ==
    /\ escape = "hashes"
    /\ \/ /\ bv.layered
          /\ bv' = [pieces_escaped EXCEPT
                      !.layers = [r \in DOMAIN @ |-> EscapedLayer(@[r])],
                      !.layer_keys = "merkle root"]
          /\ escape' = "tree" /\ frames' = <<Frame(<<>>)>>
       \/ /\ ~bv.layered
          /\ bv' = pieces_escaped
          /\ escape' = "done" /\ UNCHANGED frames
    /\ UNCHANGED hex

\* DEVIATION: the iterator of the frame that was pushed moves instead.
DescendMovesNewFrame ==
    /\ escape = "tree" /\ frames # <<>> /\ ~AtEnd /\ key # FileKey
    /\ LET below == Frame(Append(top.path, key))
       IN frames' = Append(frames, [below EXCEPT !.left = @ \ {Min(@)}])
    /\ UNCHANGED <<bv, hex, escape>>

EscapeDescend ==
    /\ escape = "tree" /\ frames # <<>> /\ ~AtEnd /\ key # FileKey
    /\ frames' = Append(Advanced, Frame(Append(top.path, key)))
    /\ UNCHANGED <<bv, hex, escape>>

EscapeFile ==
    /\ escape = "tree" /\ frames # <<>> /\ ~AtEnd /\ key = FileKey
    /\ bv.roots[top.path].form = "raw"
    /\ bv' = [bv EXCEPT !.roots[top.path] = MerkleRoot(@.data)]
    /\ frames' = Advanced
    /\ UNCHANGED <<hex, escape>>

\* value.at("pieces root") throws, or sha256_hash does for what is not 32 bytes long.
EscapeThrows ==
    /\ escape = "tree" /\ frames # <<>> /\ ~AtEnd /\ key = FileKey
    /\ bv.roots[top.path].form # "raw"
    /\ escape' = "failed"
    /\ UNCHANGED <<bv, hex, frames>>

\* DEVIATION: a frame is only left while there is one below it.
EscapeUpNotLast ==
    /\ escape = "tree" /\ frames # <<>> /\ AtEnd
    /\ frames' = IF Len(frames) > 1 THEN Front(frames) ELSE frames
    /\ UNCHANGED <<bv, hex, escape>>

EscapeUp ==
    /\ escape = "tree" /\ frames # <<>> /\ AtEnd
    /\ frames' = Front(frames)
    /\ UNCHANGED <<bv, hex, escape>>

EscapeReturn ==
    /\ escape = "tree" /\ frames = <<>>
    /\ escape' = "done"
    /\ UNCHANGED <<bv, hex, frames>>

Escape ==
    \/ EscapeHashes \/ EscapeDescend \/ EscapeFile \/ EscapeThrows
    \/ EscapeUp \/ EscapeReturn

-----------------------------------------------------------------------------
\* The key of dictionary d that leads to file p.
KeyTo(d, p) == IF d = p THEN FileKey ELSE p[Len(d) + 1]

\* The walk has been at file p: a dictionary on the stack holds it under a key its
\* iterator has passed, and the dictionary of that key is not on the stack any more.
Passed(p) ==
    \/ frames = <<>>
    \/ \E j \in DOMAIN frames :
        /\ IsPrefix(frames[j].path, p)
        /\ j < Len(frames) => ~IsPrefix(frames[j + 1].path, p)
        /\ KeyTo(frames[j].path, p) \notin frames[j].left

\* At every moment of the walk exactly the files it has passed have their merkle root
\* in words, and no file is met twice: the iterators are advanced after frames have
\* been pushed on top of them, through references taken before.
EscapedOnce ==
    escape = "tree" =>
        \A p \in Leaves : (bv.roots[p].form = "merkle root") <=> Passed(p)
=============================================================================
