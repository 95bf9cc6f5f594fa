------------------------------ MODULE ShowApp -------------------------------
(***************************************************************************)
(* src/show.cpp, with `info --raw` of src/info.cpp: one command that reads *)
(* a metafile and prints a part of it.  A subcommand is named twice, by    *)
(* the callback that runs when it is parsed and in the dispatch table.     *)
(* query and --raw escape the binary fields first (EscapeFields);          *)
(* checksums prints file by file and may stop half-way.                    *)
(*                                                                         *)
(* A line of output is the field it comes from and what it shows; sizes    *)
(* and dates in another format are the same line.                          *)
(***************************************************************************)
EXTENDS EscapeFields, Integers

CONSTANTS Metafiles,    \* the metafiles considered
          Algorithms    \* the checksum algorithms, numbers in their order

NoAlgorithm == 0

Protocols == {"v1", "v2", "hybrid"}

\* The fields with one value, and those with a list of them.
ScalarFields == {"comment", "created-by", "creation-date", "name", "piece-count",
                 "piece-size", "private", "protocol", "size", "source"}
ListFields == {"web-seeds", "http-seeds", "dht-nodes", "similar", "collections"}

Subcommands == ScalarFields \union ListFields
                 \union {"announce-urls", "infohash", "files", "query", "checksums"}

\* A file of a metafile has a name, and none is a file and a directory; a metafile with
\* "piece layers" has a file tree.
ASSUME MetafileAssumption ==
    \A m \in Metafiles :
        /\ m.protocol \in Protocols
        /\ m.pieces \in Nat
        /\ Algorithms \subseteq Nat \ {NoAlgorithm}
        /\ m.lists \in [ListFields -> Nat]
        /\ m.files \in Seq([path : Seq(Nat), pad : BOOLEAN, checksums : SUBSET Algorithms])
        /\ m.layered \in BOOLEAN
        /\ m.layered => m.protocol # "v1"
        /\ ~m.layered => DOMAIN m.layers = {}
        /\ m.layers \in [DOMAIN m.layers -> Nat]
        /\ m.roots \in [DOMAIN m.roots -> Nat]
        /\ DOMAIN m.roots \subseteq Seq(Nat \ {FileKey}) \ {<<>>}
        /\ \A p, q \in DOMAIN m.roots : IsPrefix(p, q) => p = q

VARIABLES metafile,     \* what the target holds
          options,      \* show_app_options, or those of info --raw
          output,       \* the lines on standard output
          app,          \* the next step of the command
          outcome       \* how it ended

vars == <<metafile, options, output, app, outcome, escapeVars>>

-----------------------------------------------------------------------------
(* The command line *)

\* What the parse_complete_callback of a subcommand sets options.subcommand to.
SubcommandOf(name) ==
    CASE name = "dht-nodes" -> "http-seeds"
      [] name = "collections" -> "collection"
      [] name = "checksums" -> "checksum"
      [] OTHER -> name

\* The field that the function in run_show_app's dispatch table prints.
dispatch_table ==
    [s \in (Subcommands \ {"collections", "checksums"}) \union {"collection", "checksum"} |->
        CASE s = "collection" -> "collections"
          [] s = "checksum" -> "checksums"
          [] OTHER -> s]

DefaultOptions ==
    [name |-> "none", subcommand |-> "none", flat |-> FALSE, protocol |-> "hybrid",
     truncate |-> FALSE, padding |-> FALSE, algorithm |-> NoAlgorithm, query |-> <<"none">>,
     show_binary |-> FALSE]

Query(field) == <<field>>
RootOf(p) == <<"pieces root", p>>

Queries == {Query("pieces"), Query("piece layers"), Query("name"), Query("nothing")}
             \union {RootOf(p) : p \in DOMAIN metafile.roots}

\* The options of the subcommand are read, then its callback runs.
Chosen(name) == [DefaultOptions EXCEPT !.name = name, !.subcommand = SubcommandOf(name)]

OptionsOf(name) ==
    CASE name = "announce-urls" -> {[Chosen(name) EXCEPT !.flat = f] : f \in BOOLEAN}
      [] name = "infohash" ->
            {[Chosen(name) EXCEPT !.protocol = v[1], !.truncate = v[2]] :
                v \in Protocols \X BOOLEAN}
      [] name = "files" -> {[Chosen(name) EXCEPT !.padding = f] : f \in BOOLEAN}
      [] name = "checksums" ->
            {[Chosen(name) EXCEPT !.algorithm = a] : a \in Algorithms \union {NoAlgorithm}}
      [] name = "query" ->
            {[Chosen(name) EXCEPT !.query = v[1], !.show_binary = v[2]] :
                v \in Queries \X BOOLEAN}
      [] OTHER -> {Chosen(name)}

Parse(name) ==
    /\ app = "parse"
    /\ options' \in OptionsOf(name)
    /\ app' = "run"
    /\ UNCHANGED <<metafile, output, outcome, escapeVars>>

\* info --raw, with --show-pieces or without.
ParseRaw ==
    /\ app = "parse"
    /\ \E b \in BOOLEAN :
          options' = [DefaultOptions EXCEPT !.name = "raw", !.subcommand = "raw",
                                            !.query = Query("everything"), !.show_binary = b]
    /\ app' = "run"
    /\ UNCHANGED <<metafile, output, outcome, escapeVars>>

-----------------------------------------------------------------------------
(* The functions of the dispatch table *)

Line(field, what) == [field |-> field, what |-> what]

\* The lines of a field of a single value or of a list.
FieldLines(field) ==
    IF field \in ScalarFields THEN <<Line(field, 1)>>
    ELSE [i \in 1 .. metafile.lists[field] |-> Line(field, i)]

\* run_show_announce_subapp: a line for a tracker, or for a tier.
AnnounceLines ==
    LET announces == IF options.flat THEN FlattenSeq(metafile.trackers) ELSE metafile.trackers
    IN [i \in DOMAIN announces |-> Line("announce-urls", announces[i])]

\* run_show_infohash_subapp.
InfohashLines ==
    LET v1 == <<Line("infohash", "v1")>>
        v2 == <<Line("infohash", IF options.truncate THEN "v2 truncated" ELSE "v2")>>
        shown == IF metafile.protocol = "hybrid" THEN options.protocol ELSE metafile.protocol
    IN CASE shown = "v1" -> v1 [] shown = "v2" -> v2 [] shown = "hybrid" -> v1 \o v2

\* The files that are not left out.
Listable(files, padding) == SelectSeq(files, LAMBDA f : padding \/ ~f.pad)

\* run_show_files_subapp.
FileLines ==
    LET shown == Listable(metafile.files, options.padding)
    IN [i \in DOMAIN shown |-> Line("files", shown[i].path)]

End(how) == app' = "end" /\ outcome' = how

field == dispatch_table[options.subcommand]

RunField ==
    /\ app = "run" /\ options.subcommand \in DOMAIN dispatch_table
    /\ field \notin {"query", "checksums"}
    /\ output' = CASE field = "announce-urls" -> AnnounceLines
                   [] field = "infohash" -> InfohashLines
                   [] field = "files" -> FileLines
                   [] OTHER -> FieldLines(field)
    /\ End("ok")
    /\ UNCHANGED <<metafile, options, escapeVars>>

available_checksums == UNION {f.checksums : f \in Range(metafile.files)}

\* rng::sort(out).
Sorted(algorithms) == SetToSortSeq(algorithms, <)

checksum_names == Sorted(available_checksums)

\* run_show_checksum_subapp without an algorithm: those of the metafile.
RunChecksumNames ==
    /\ app = "run" /\ options.subcommand = "checksum" /\ options.algorithm = NoAlgorithm
    /\ output' = [i \in DOMAIN checksum_names |-> Line("checksums", checksum_names[i])]
    /\ End("ok")
    /\ UNCHANGED <<metafile, options, escapeVars>>

RunChecksums ==
    /\ app = "run" /\ options.subcommand = "checksum" /\ options.algorithm # NoAlgorithm
    /\ IF options.algorithm \in available_checksums
       THEN app' = "checksums" /\ UNCHANGED outcome
       ELSE End("no data")
    /\ UNCHANGED <<metafile, options, output, escapeVars>>

\* The file whose line comes next.
next_file == metafile.files[Len(output) + 1]

ChecksumsLeft == app = "checksums" /\ Len(output) < Len(metafile.files)

\* DEVIATION: the first file without a checksum is passed over.
PrintKnownChecksums ==
    /\ ChecksumsLeft
    /\ LET known == SelectSeq(metafile.files, LAMBDA f : options.algorithm \in f.checksums)
       IN output' = [i \in DOMAIN known |-> Line("checksums", known[i].path)]
    /\ End("ok")
    /\ UNCHANGED <<metafile, options, escapeVars>>

PrintChecksum ==
    /\ ChecksumsLeft /\ options.algorithm \in next_file.checksums
    /\ output' = Append(output, Line("checksums", next_file.path))
    /\ UNCHANGED <<metafile, options, app, outcome, escapeVars>>

\* checksums().at() throws for a file without one, when lines have been printed.
ChecksumMissing ==
    /\ ChecksumsLeft /\ options.algorithm \notin next_file.checksums
    /\ End("error")
    /\ UNCHANGED <<metafile, options, output, escapeVars>>

ChecksumsDone ==
    /\ app = "checksums" /\ ~ChecksumsLeft
    /\ End("ok")
    /\ UNCHANGED <<metafile, options, output, escapeVars>>

-----------------------------------------------------------------------------
(* run_show_query_subapp and create_raw_info *)

RunQuery ==
    /\ app = "run" /\ options.subcommand \in {"query", "raw"}
    /\ bv' = Value(metafile) /\ hex' = options.show_binary
    /\ frames' = <<>> /\ escape' = "hashes"
    /\ app' = "escape"
    /\ UNCHANGED <<metafile, options, output, outcome>>

EscapeStep ==
    /\ app = "escape" /\ Escape
    /\ UNCHANGED <<metafile, options, output, app, outcome>>

\* The escaping is outside the try block: main reports the exception.
EscapeFailed ==
    /\ app = "escape" /\ escape = "failed"
    /\ End("error")
    /\ UNCHANGED <<metafile, options, output, escapeVars>>

\* bv.at(pointer).
At(value, query) ==
    CASE query = Query("pieces") -> value.pieces
      [] query = Query("piece layers") ->
            IF value.layered THEN Listed(value.layers) ELSE NoValue
      [] query = Query("name") -> Described("name")
      [] query = Query("everything") -> Described(value)
      [] query = Query("nothing") -> NoValue
      [] OTHER -> value.roots[query[2]]

PrintAnswer ==
    /\ app = "escape" /\ escape = "done"
    /\ LET answer == At(bv, options.query)
       IN IF answer.form = "missing"
          THEN End("no data") /\ UNCHANGED output
          ELSE End("ok") /\ output' = <<Line(options.name, answer)>>
    /\ UNCHANGED <<metafile, options, escapeVars>>

Init ==
    /\ metafile \in Metafiles
    /\ options = DefaultOptions /\ output = <<>>
    /\ app = "parse" /\ outcome = "none"
    /\ bv = [pieces |-> NoValue, layered |-> FALSE, layers |-> <<>>, layer_keys |-> "raw",
             roots |-> <<>>]
    /\ hex = FALSE /\ frames = <<>> /\ escape = "none"

Run ==
    \/ RunField \/ RunChecksumNames \/ RunChecksums \/ PrintChecksum \/ ChecksumMissing
    \/ ChecksumsDone \/ RunQuery \/ EscapeStep \/ EscapeFailed \/ PrintAnswer

Finished == app = "end" /\ UNCHANGED vars

Next ==
    \/ \E name \in Subcommands : Parse(name)
    \/ ParseRaw
    \/ Run
    \/ Finished

Spec == Init /\ [][Next]_vars

\* The command runs on: one thread that waits for nothing.
FairSpec == Spec /\ WF_vars(Run)

-----------------------------------------------------------------------------
(* What the answers are, from the metafile and the options alone. *)

Hash(n, size) == [u \in 1 .. size |-> <<n, u>>]

PiecesToShow ==
    CASE metafile.pieces = 0 -> NoValue
      [] metafile.pieces # 0 /\ ~options.show_binary -> Described(metafile.pieces)
      [] OTHER -> Listed([n \in 1 .. metafile.pieces |-> Hash(n, sha1_size)])

\* The n-th five units of a piece layer, where the n-th SHA-256 hash is eight units long
\* (escape_binary_fields.cpp:90).
ShortSlice(n) ==
    LET unit(u) == sha1_size * (n - 1) + (u - 1)
    IN [u \in 1 .. sha1_size |-> <<1 + unit(u) \div sha256_size, 1 + (unit(u) % sha256_size)>>]

LayersToShow ==
    [r \in DOMAIN metafile.layers |->
        IF options.show_binary THEN Listed([n \in 1 .. metafile.layers[r] |-> ShortSlice(n)])
        ELSE Described(metafile.layers[r])]

\* The roots stay raw bytes where there are no piece layers.
RootsToShow ==
    [p \in DOMAIN metafile.roots |->
        CASE metafile.layered -> MerkleRoot(<<metafile.roots[p]>>)
          [] ~metafile.layered /\ metafile.roots[p] = 0 -> NoValue
          [] ~metafile.layered /\ metafile.roots[p] # 0 -> Raw(<<metafile.roots[p]>>)]

ValueToShow ==
    [pieces |-> PiecesToShow, layered |-> metafile.layered, layers |-> LayersToShow,
     layer_keys |-> IF metafile.layered THEN "merkle root" ELSE "raw", roots |-> RootsToShow]

Queried == options.name \in {"query", "raw"}

\* A file of a v2 metafile without a merkle root: an empty one.
HasEmptyFile == \E p \in DOMAIN metafile.roots : metafile.roots[p] = 0

\* The metafiles that neither query nor --raw can show anything of, because the walk
\* through the file tree wants the root of every file.
Unshowable == metafile.layered /\ HasEmptyFile

Answer == At(ValueToShow, options.query)

\* checksums with an algorithm.
Summed == options.name = "checksums" /\ options.algorithm # NoAlgorithm

Unsummed(i) == options.algorithm \notin metafile.files[i].checksums

SumLines(n) == [i \in 1 .. n |-> Line("checksums", metafile.files[i].path)]

\* All lines of the answer.
WholeAnswer ==
    CASE Queried -> <<Line(options.name, Answer)>>
      [] Summed -> SumLines(Len(metafile.files))
      [] options.name = "checksums" /\ ~Summed ->
            [i \in DOMAIN checksum_names |-> Line("checksums", checksum_names[i])]
      [] options.name = "announce-urls" -> AnnounceLines
      [] options.name = "infohash" -> InfohashLines
      [] options.name = "files" -> FileLines
      [] options.name = "dht-nodes" -> FieldLines("http-seeds")
      [] OTHER -> FieldLines(options.name)

\* What show and info --raw print is what the code has for the metafile and the options,
\* to the last line, and a command that does not print it fails for one of these
\* reasons and no other:
\* - the field asked for is not in the metafile, or no file has the checksum: nothing
\*   is printed;
\* - a file lacks the checksum: the lines of the files before the first such one have
\*   been printed;
\* - the metafile has piece layers and an empty file: every query of it fails, for the
\*   name too (escape_binary_fields.cpp:50).
\* The answers the code has differ from what it says of itself in three places: dht-nodes
\* prints the HTTP seeds (show.cpp:245, against its help at show.cpp:34 and
\* tests/test_show.cpp:520); the roots of a metafile without piece layers stay raw
\* bytes (against the help of --show-binary, show.cpp:205); and the hashes of a piece
\* layer are cut short (LayersListed).
AnswersWhole ==
    /\ outcome = "ok" =>
          /\ output = WholeAnswer
          /\ Queried => ~Unshowable
          /\ Summed => \A i \in DOMAIN metafile.files : ~Unsummed(i)
    /\ outcome = "no data" =>
          /\ output = <<>>
          /\ \/ Queried /\ ~Unshowable /\ Answer.form = "missing"
             \/ Summed /\ \A i \in DOMAIN metafile.files : Unsummed(i)
    /\ outcome = "error" =>
          \/ Queried /\ Unshowable /\ output = <<>>
          \/ /\ Summed /\ \E i \in DOMAIN metafile.files :
                                /\ Unsummed(i)
                                /\ \A j \in 1 .. i - 1 : ~Unsummed(j)
                                /\ output = SumLines(i - 1)
             /\ \E i \in DOMAIN metafile.files : ~Unsummed(i)

\* The help of --show-pieces (src/info.cpp:84): binary data is included as
\* hexadecimal strings; docs/commands/info.rst:281 promises "a full list with all
\* pieces in hexadecimal representation".
LayersListed ==
    (outcome = "ok" /\ Queried /\ options.show_binary) =>
        \A r \in DOMAIN metafile.layers :
            bv.layers[r] = Listed([n \in 1 .. metafile.layers[r] |-> Hash(n, sha256_size)])

\* The command comes to its end: the walk through the file tree, which keeps its own
\* stack to be safe from deep trees, ends for every tree.
ShowEnds == app = "run" ~> app = "end"
=============================================================================
