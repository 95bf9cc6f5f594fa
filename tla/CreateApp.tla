------------------------------ MODULE CreateApp -----------------------------
(***************************************************************************)
(* The create command (src/create.cpp): the merge of a profile into the    *)
(* options, the steps of run_create_app in their order, and what goes to   *)
(* the standard output and to the disk.  The selection of files is the one *)
(* step of SelectFiles, the progress of the hasher is HashProgress.        *)
(***************************************************************************)
EXTENDS Announces

CONSTANTS GroupNames,   \* the groups a user can ask for
          Items,        \* seeds, nodes, collections and info hashes
          Texts,        \* values of the text fields and of the source tag
          NoText,       \* a field that is not there
          Stamp,        \* CREATED_BY_STRING; the present, at any time
          Basename,     \* the last component of the target
          Sizes,        \* piece and block sizes
          Commands      \* the commands a user can give

Protocols == {"v1", "v2", "hybrid"}

OptionNames == {"announce", "announce-group", "http-seed", "web-seed", "dht-node",
                "similar", "collection", "comment", "source", "name", "private",
                "created-by", "creation-date", "no-created-by", "no-creation-date",
                "no-cross-seed", "output", "protocol", "piece-size", "io-block-size"}

ListFields == {"http-seed", "web-seed", "dht-node", "similar", "collection"}
TextFields == {"comment", "name", "created-by", "creation-date"}

\* create_app_options: an option that is not in `has` is an empty optional or at
\* its default.  output "dir" is a directory, with a trailing slash or not.
Options == [has       : SUBSET OptionNames,
            announces : Tiers,
            groups    : Seq(GroupNames),
            lists     : [ListFields -> Seq(Items)],
            text      : [TextFields -> Texts],
            source    : Texts,
            private   : {"on", "off"},
            output    : {"file", "dir", "stdout"},
            protocol  : Protocols,
            piece     : Sizes,
            block     : Sizes]

Default(o) ==
    /\ "announce" \notin o.has => o.announces = <<>>
    /\ "announce-group" \notin o.has => o.groups = <<>>
    /\ \A f \in ListFields : f \notin o.has => o.lists[f] = <<>>
    /\ "protocol" \notin o.has => o.protocol = "v1"

Command == [target  : {"file", "directory"},
            cli     : Options,
            profile : {"none", "unknown", "edit", "create"},
            prof    : Options]

Metafile == [mode     : {"none", "single", "multi"},
             trackers : Tiers,
             private  : {"on", "off"},
             source   : Texts \union Names \union {NoText},
             lists    : [ListFields -> Seq(Items)],
             text     : [TextFields -> Texts \union {NoText}],
             cross    : {"on", "off"}]

\* A destination: the directory, and the file name: the one given, or the one
\* made of an abbreviation, or none, and a text.
Place == [dir    : {"cwd", "given"},
          prefix : Names \union {Nobody},
          name   : Texts \union {"given"}]

ASSUME CreateAssumption ==
    /\ Groups \subseteq GroupNames
    /\ {Stamp, Basename} \subseteq Texts
    /\ NoText \notin Texts
    /\ Sizes \subseteq Nat
    /\ Commands \subseteq Command
    /\ \A c \in Commands : Default(c.cli) /\ Default(c.prof)

VARIABLES cmd,          \* the command given
          loaded,       \* which of the configuration and the database there are
          opts,         \* its options after the merge
          m,            \* the metafile
          piece,        \* the piece size of its storage
          pc,           \* the next step, or how the command ended
          todo,         \* the groups the loop over them has left
          flags,        \* the names that give private_flags
          place,        \* destination_file, a sequence while it is unknown
          hashed,       \* the protocol the pieces are hashed for
          stdout,       \* what has been written to the standard output
          disk          \* what has been written to a file, and where

vars == <<cmd, loaded, opts, m, piece, pc, todo, flags, place, hashed, stdout, disk>>

Known == loaded = {"config", "trackers"}

NoFile == [at |-> <<>>, protocol |-> "none"]

NewMetafile ==
    [mode |-> "none", trackers |-> <<>>, private |-> "off", source |-> NoText,
     lists |-> [f \in ListFields |-> <<>>], text |-> [f \in TextFields |-> NoText],
     cross |-> "off"]

Init ==
    /\ cmd \in Commands
    /\ loaded \in SUBSET {"config", "trackers"}
    /\ opts = cmd.cli
    /\ m = NewMetafile
    /\ piece = 0
    /\ pc = "postprocess"
    /\ todo = <<>> /\ flags = {}
    /\ place = <<>> /\ hashed = "none"
    /\ stdout = {} /\ disk = NoFile

-----------------------------------------------------------------------------
(* Options: postprocess_create_app and merge_create_profile. *)

\* DEVIATION: the profile wins.
FromProfileFirst(c, o) == IF o \in c.prof.has THEN c.prof ELSE c.cli

\* Where option o is taken from.
From(c, o) == IF o \in c.cli.has THEN c.cli ELSE c.prof

Merge(c) ==
    [has       |-> c.cli.has \union c.prof.has,
     announces |-> From(c, "announce").announces,
     groups    |-> From(c, "announce-group").groups,
     lists     |-> [f \in ListFields |-> From(c, f).lists[f]],
     text      |-> [f \in TextFields |-> From(c, f).text[f]],
     source    |-> From(c, "source").source,
     private   |-> From(c, "private").private,
     output    |-> From(c, "output").output,
     protocol  |-> From(c, "protocol").protocol,
     piece     |-> From(c, "piece-size").piece,
     block     |-> From(c, "io-block-size").block]

Has(o) == o \in opts.has

\* options.write_to_stdout
ToStdout == Has("output") /\ opts.output = "stdout"

\* What the stream os gets is on the standard output unless the metafile is.
Shown == IF ToStdout THEN {} ELSE {"text"}

\* An exception ends the command.
Fail == pc' = "failed" /\ UNCHANGED <<opts, m>>

Goto(step) == pc' = step

\* load_config_and_tracker_db warns on the standard output.
Warnings == IF Known THEN {} ELSE {"warning"}

Postprocess ==
    /\ pc = "postprocess"
    /\ stdout' = stdout \union Warnings
    /\ \/ cmd.profile = "none" /\ Goto("select") /\ UNCHANGED <<opts, m>>
       \/ /\ cmd.profile = "create" /\ "config" \in loaded
          /\ opts' = Merge(cmd)
          /\ Goto("select") /\ UNCHANGED m
       \/ /\ cmd.profile # "none"
          /\ cmd.profile = "create" => "config" \notin loaded
          /\ Fail
    /\ UNCHANGED <<cmd, loaded, piece, todo, flags, place, hashed, disk>>

-----------------------------------------------------------------------------
(* Files and pieces. *)

\* set_files_with_progress: the line that ends the progress output goes to
\* std::cout whatever the stream.
SetFiles ==
    /\ pc = "select"
    /\ \/ /\ cmd.target = "file"
          /\ m' = [m EXCEPT !.mode = "single", !.text["name"] = Basename]
          /\ Goto("pieces") /\ UNCHANGED <<opts, stdout>>
       \/ /\ cmd.target = "directory"
          /\ m' = [m EXCEPT !.mode = "multi", !.text["name"] = Basename]
          /\ stdout' = stdout \union Shown \union {"newline"}
          /\ Goto("pieces") /\ UNCHANGED opts
       \/ /\ cmd.target = "directory"   \* a pattern or a directory is bad
          /\ Fail /\ stdout' \in {stdout, stdout \union Shown}
    /\ UNCHANGED <<cmd, loaded, piece, todo, flags, place, hashed, disk>>

\* choose_piece_size may choose any.
ChoosePieceSize ==
    /\ pc = "pieces"
    /\ piece' \in IF Has("piece-size") THEN {opts.piece} ELSE Sizes
    /\ Goto("announces")
    /\ UNCHANGED <<cmd, loaded, opts, m, todo, flags, place, hashed, stdout, disk>>

-----------------------------------------------------------------------------
(* Announces: groups, if there are any, in place of the announces. *)

SetAnnounces ==
    /\ pc = "announces" /\ opts.groups = <<>>
    /\ IF Known /\ Unusable(opts.announces)
       THEN Fail
       ELSE /\ m' = SetTrackers(m, opts.announces, Known)
            /\ Goto("fields") /\ UNCHANGED opts
    /\ UNCHANGED <<cmd, loaded, piece, todo, flags, place, hashed, stdout, disk>>

\* set_tracker_group expects a database and a configuration.
StartGroups ==
    /\ pc = "announces" /\ opts.groups # <<>>
    /\ IF ~Known THEN Fail /\ UNCHANGED <<todo, flags>>
       ELSE /\ todo' = opts.groups /\ flags' = {}
            /\ Goto("group") /\ UNCHANGED <<opts, m>>
    /\ UNCHANGED <<cmd, loaded, piece, place, hashed, stdout, disk>>

AddNextGroup ==
    /\ pc = "group" /\ todo # <<>>
    /\ IF Head(todo) \in Groups /\ ~Unusable(Singletons(Announces[Head(todo)]))
       THEN /\ m' = AddGroup(m, Head(todo))
            /\ flags' = flags \union PrivateIn(Head(todo))
            /\ todo' = Tail(todo)
            /\ UNCHANGED <<opts, pc>>
       ELSE Fail /\ UNCHANGED <<todo, flags>>
    /\ UNCHANGED <<cmd, loaded, piece, place, hashed, stdout, disk>>

EndGroups ==
    /\ pc = "group" /\ todo = <<>>
    /\ m' = SetFlag(m, flags)
    /\ Goto("fields")
    /\ UNCHANGED <<cmd, loaded, opts, piece, todo, flags, place, hashed, stdout, disk>>

-----------------------------------------------------------------------------
(* The other fields. *)

Skipped(f) ==
    \/ f = "created-by" /\ Has("no-created-by")
    \/ f = "creation-date" /\ Has("no-creation-date")

Text(f) ==
    CASE Skipped(f)                               -> NoText
      [] ~Skipped(f) /\ Has(f)                    -> opts.text[f]
      [] ~Skipped(f) /\ ~Has(f) /\ f \in {"created-by", "creation-date"} -> Stamp
      [] OTHER                                    -> m.text[f]

SetFields ==
    /\ pc = "fields"
    /\ m' = [m EXCEPT
               !.lists   = opts.lists,
               !.text    = [f \in TextFields |-> Text(f)],
               !.source  = IF Has("source") THEN opts.source ELSE @,
               !.private = IF Has("private") THEN opts.private ELSE @,
               !.cross   = IF Has("no-cross-seed") THEN "off" ELSE "on"]
    /\ Goto("place")
    /\ UNCHANGED <<cmd, loaded, opts, piece, todo, flags, place, hashed, stdout, disk>>

-----------------------------------------------------------------------------
(* get_destination_path *)

\* DEVIATION: the first tracker is looked up, although there are others.
PrefixOfFirst ==
    IF "trackers" \in loaded /\ m.trackers # <<>> /\ \E u \in Urls : u \in m.trackers[1]
    THEN NameOf[CHOOSE u \in Urls : u \in m.trackers[1]] ELSE Nobody

\* The tracker whose abbreviation the default file name starts with: a single
\* one, if its URL matches one of the database.
Prefix ==
    IF "trackers" \in loaded /\ \E u \in Urls : m.trackers = <<{u}>>
    THEN NameOf[CHOOSE u \in Urls : m.trackers = <<{u}>>] ELSE Nobody

FindPlace ==
    /\ pc = "place"
    /\ place' = IF Has("output") /\ opts.output = "file"
                THEN [dir |-> "given", prefix |-> Nobody, name |-> "given"]
                ELSE [dir |-> IF Has("output") /\ opts.output = "dir" THEN "given" ELSE "cwd",
                      prefix |-> Prefix, name |-> m.text["name"]]
    /\ Goto("inform")
    /\ UNCHANGED <<cmd, loaded, opts, m, piece, todo, flags, hashed, stdout, disk>>

-----------------------------------------------------------------------------
(* Hashing and writing. *)

\* create_general_info, then the check of the block size.
Inform ==
    /\ pc = "inform"
    /\ stdout' = stdout \union Shown
    /\ IF Has("io-block-size") /\ opts.block < piece
       THEN Fail
       ELSE Goto("hash") /\ UNCHANGED <<opts, m>>
    /\ UNCHANGED <<cmd, loaded, piece, todo, flags, place, hashed, disk>>

\* The hasher stores the hashes in the storage of the metafile.
Hash ==
    /\ pc = "hash"
    /\ hashed' = opts.protocol
    /\ Goto("write")
    /\ UNCHANGED <<cmd, loaded, opts, m, piece, todo, flags, place, stdout, disk>>

\* DEVIATION: save_metafile is given the protocol of the command line.
WriteOwnProtocol ==
    /\ pc = "write"
    /\ IF ToStdout
       THEN stdout' = stdout \union {"metafile"} /\ UNCHANGED disk
       ELSE disk' = [at |-> place, protocol |-> cmd.cli.protocol] /\ UNCHANGED stdout
    /\ Goto("done")
    /\ UNCHANGED <<cmd, loaded, opts, m, piece, todo, flags, place, hashed>>

Write ==
    /\ pc = "write"
    /\ IF ToStdout
       THEN stdout' = stdout \union {"metafile"} /\ UNCHANGED disk
       ELSE disk' = [at |-> place, protocol |-> opts.protocol] /\ UNCHANGED stdout
    /\ Goto("done")
    /\ UNCHANGED <<cmd, loaded, opts, m, piece, todo, flags, place, hashed>>

Next == \/ Postprocess \/ SetFiles \/ ChoosePieceSize
        \/ SetAnnounces \/ StartGroups \/ AddNextGroup \/ EndGroups
        \/ SetFields \/ FindPlace \/ Inform \/ Hash \/ Write

Spec == Init /\ [][Next]_vars

-----------------------------------------------------------------------------
(* Properties. *)

\* The type invariant.
TypeOK ==
    /\ cmd \in Command
    /\ loaded \subseteq {"config", "trackers"}
    /\ opts \in Options
    /\ m \in Metafile
    /\ piece \in Sizes \union {0}
    /\ pc \in {"postprocess", "select", "pieces", "announces", "group", "fields",
               "place", "inform", "hash", "write", "done", "failed"}
    /\ todo \in Seq(GroupNames)
    /\ flags \subseteq PrivateNames
    /\ place \in Place \union {<<>>}
    /\ hashed \in Protocols \union {"none"}
    /\ stdout \subseteq {"warning", "newline", "text", "metafile"}
    /\ disk \in [at : Place \union {<<>>}, protocol : Protocols \union {"none"}]

\* The metafile has a name once its files are chosen, before get_destination_path
\* makes a file name of it.
NameInv ==
    pc \notin {"postprocess", "select", "failed"} => m.text["name"] \in Texts

Meant(tiers) == IF Known THEN ResolveAll(tiers) ELSE tiers

\* The record the user's choice of o is in, among the command line and a profile
\* that applies; the documentation knows no other precedence.
Given(o) == IF o \in cmd.cli.has \/ cmd.profile = "none" THEN cmd.cli ELSE cmd.prof

Chosen(o) == o \in Given(o).has

AskedAnnounces == Given("announce").announces
AskedGroups    == Given("announce-group").groups

\* The announces create uses: those of the groups as soon as one is named.  The
\* announces of a list given along with them are dropped without a word
\* (create.cpp:417), although docs/commands/create.rst:106 has --announce add them.
Used == IF AskedGroups = <<>> THEN All(AskedAnnounces)
        ELSE UNION {Range(Announces[g]) : g \in Range(AskedGroups)}

\* The trackers of the metafile are those of the announces, tier by tier, if no
\* group is named; else they are those of the groups and of no announce besides,
\* one per tier and the first group first.  A client can contact all of them: none
\* is a name.
TrackersOfGroupsOrList ==
    pc \in {"fields", "place", "inform", "hash", "write", "done"} =>
        /\ AskedGroups = <<>> => m.trackers = Meant(AskedAnnounces)
        /\ AskedGroups # <<>> =>
              /\ All(m.trackers) = {Resolve(a) : a \in Used}
              /\ \A i \in DOMAIN m.trackers : \E u \in Urls : m.trackers[i] = {u}
              /\ \A i \in DOMAIN Announces[AskedGroups[1]] :
                    m.trackers[i] = {Resolve(Announces[AskedGroups[1]][i])}
        /\ Known => All(m.trackers) \subseteq Urls

\* The source tag of the tracker database: that of the only announce, if it is
\* private.  A tracker of a group brings none.
DatabaseTag ==
    IF Known /\ AskedGroups = <<>> /\ Single(AskedAnnounces)
             /\ Entry(Only(AskedAnnounces)) \in PrivateNames
    THEN Entry(Only(AskedAnnounces)) ELSE NoText

\* A field is left out, by a switch of the command line or of the profile.
LeftOut(f) ==
    \/ f = "created-by" /\ Chosen("no-created-by")
    \/ f = "creation-date" /\ Chosen("no-creation-date")

\* Command line before profile, profile before tracker database, for every field
\* more than one of them sets.  A private tracker given by name, alone, in a list
\* or in a group, makes the metafile private unless the user says otherwise, and
\* only a private tracker does.  The source tag is the user's, else that of the
\* only announce, exactly (docs/configuration.rst, "Private flag selection" and
\* "Source field").  Lists and texts are the user's, what is not given is
\* stamped, and cross-seeding is on unless it is turned off.  In one case a profile goes before the command line: with its
\* set-created-by or set-creation-date false, the command line's --created-by or
\* --creation-date is ignored (create.cpp:458, 471): no switch takes it back.
FieldsAsChosen ==
    pc \in {"place", "inform", "hash", "write", "done"} =>
        /\ Chosen("private") => m.private = Given("private").private
        /\ ~Chosen("private") /\ Known =>
              /\ Used \cap PrivateNames # {} => m.private = "on"
              /\ m.private = "on" => \E a \in Used : Entry(a) \in PrivateNames
        /\ m.source = IF Chosen("source") THEN Given("source").source ELSE DatabaseTag
        /\ \A f \in ListFields : m.lists[f] = Given(f).lists[f]
        /\ \A f \in TextFields :
              Chosen(f) => m.text[f] = IF LeftOut(f) THEN NoText ELSE Given(f).text[f]
        /\ \A f \in {"created-by", "creation-date"} :
              ~Chosen(f) => m.text[f] = IF LeftOut(f) THEN NoText ELSE Stamp
        /\ m.cross = IF Chosen("no-cross-seed") THEN "off" ELSE "on"

\* The default file name has the final name and the abbreviation of a tracker
\* that is the only one, given by its name or in a group
\* (docs/configuration.rst, "BitTorrent metafile default filename").
DefaultNameAsDocumented ==
    pc \in {"inform", "hash", "write", "done"} /\ place.name # "given" =>
        /\ place.name = m.text["name"]
        /\ Known => \A n \in Names :
              All(m.trackers) = {UrlOf[n]} /\ Len(m.trackers) = 1 => place.prefix = n
        /\ \A u, w \in All(m.trackers) : u # w => place.prefix = Nobody

\* The metafile is written to one place, the one shown to the user, after its
\* pieces are hashed and for the protocol they are hashed for; a command that
\* fails writes none.
WrittenOnce ==
    /\ disk # NoFile => disk.at = place /\ disk.protocol = hashed /\ "metafile" \notin stdout
    /\ "metafile" \in stdout => hashed = opts.protocol
    /\ pc = "done" <=> disk # NoFile \/ "metafile" \in stdout

\* Until the last step nothing is written; what save_metafile is told to write are
\* the hashes that there are.
WriteInv ==
    /\ cmd \in Commands
    /\ opts.protocol \in Protocols
    /\ pc = "write" => hashed = opts.protocol
    /\ pc # "done" => disk = NoFile /\ "metafile" \notin stdout
    /\ pc = "done" =>
          /\ hashed = opts.protocol
          /\ \/ disk = [at |-> place, protocol |-> hashed] /\ "metafile" \notin stdout
             \/ disk = NoFile /\ "metafile" \in stdout

\* "Write the torrent to the standard output. Normal output will be redirected to
\* stderr." (docs/commands/create.rst:128)  Violated.
StdoutIsMetafile == pc = "done" /\ ToStdout => stdout = {"metafile"}

=============================================================================
