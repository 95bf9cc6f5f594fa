------------------------------- MODULE EditApp ------------------------------
(***************************************************************************)
(* The edit command (src/edit.cpp): the merge of a profile into the        *)
(* options, the update of the announces, seeds and fields, the save.       *)
(* Commands follow one another on the same metafile; what happens inside   *)
(* one of them is private to it until it saves.                            *)
(***************************************************************************)
EXTENDS Announces

CONSTANTS GroupNames,   \* the groups a user can ask for
          Items,        \* seeds, nodes, collections and info hashes
          Texts,        \* values of the text fields and of the source tag
          Stamp,        \* CREATED_BY_STRING; the present, at any time
          Targets,      \* the metafiles to edit
          Commands,     \* the commands a user can give
          MaxRuns       \* how many commands follow one another

OptionNames == {"announce", "announce-group", "http-seed", "web-seed", "dht-node",
                "similar", "collection", "comment", "source", "name", "private",
                "created-by", "creation-date", "no-created-by",
                "no-creation-date", "cross-seed", "list-mode", "output", "stdout"}

SeedFields    == {"http-seed", "web-seed", "dht-node"}
RelatedFields == {"similar", "collection"}
TextFields    == {"comment", "name", "created-by", "creation-date"}

\* edit_app_options: an option that is not in `has` is an empty optional, a flag
\* at its default.
Options == [has       : SUBSET OptionNames,
            announces : Tiers,
            groups    : Seq(GroupNames),
            mode      : {"replace", "append", "prepend"},
            seeds     : [SeedFields -> Seq(Items)],
            related   : [RelatedFields -> SUBSET Items],
            text      : [TextFields -> Texts],
            source    : Texts,
            private   : {"on", "off"}]

\* The options on the command line, and the profile --profile names: none, one
\* that does not exist, one for another command, or one with its own options.
Command == [cli : Options, profile : {"none", "unknown", "create", "edit"},
            prof : Options]

Metafile == [trackers : Tiers,
             private  : {"on", "off"},
             source   : Texts \union Names \union {Nobody},
             seeds    : [SeedFields -> Seq(Items)],
             related  : [RelatedFields -> SUBSET Items],
             text     : [TextFields -> Texts],
             cross    : {"on", "off"},    \* the cross-seed entry
             other    : {"kept", "none"}] \* info fields torrenttools does not know

ASSUME EditAssumption ==
    /\ Groups \subseteq GroupNames
    /\ Stamp \in Texts
    /\ Commands \subseteq Command
    /\ \A c \in Commands : \A o \in {c.cli, c.prof} :
          "list-mode" \notin o.has => o.mode = "replace"
    /\ Targets \subseteq {f \in Metafile : All(f.trackers) \subseteq Urls}
    /\ MaxRuns \in Nat \ {0}

VARIABLES file,         \* the metafile on disk
          loaded,       \* which of the configuration and the database there are
          cmd,          \* the command given
          opts,         \* its options after the merge
          m,            \* the metafile in memory
          pc,           \* the next step of the command
          todo,         \* the groups the loop over them has left
          announces,    \* the local variable of update_announce_group
          flags,        \* the names that give private_flags
          outcome,      \* how the last command ended
          runs,         \* how many commands have been given
          again         \* is this command the last one once more?

local == <<todo, announces, flags>>
given == <<loaded, cmd, runs, again>>
vars  == <<file, given, opts, m, pc, local, outcome>>

Known == loaded = {"config", "trackers"}

Init ==
    /\ file \in Targets
    /\ loaded \in SUBSET {"config", "trackers"}
    /\ cmd \in Commands
    /\ opts = cmd.cli
    /\ m = file
    /\ pc = "postprocess"
    /\ todo = <<>> /\ announces = <<>> /\ flags = {}
    /\ outcome = "none"
    /\ runs = 1 /\ again = FALSE

-----------------------------------------------------------------------------
(* Options: postprocess_edit_app and merge_edit_profile. *)

\* DEVIATION: the profile wins.
FromProfileFirst(c, o) == IF o \in c.prof.has THEN c.prof ELSE c.cli

\* Where option o is taken from.
From(c, o) == IF o \in c.cli.has THEN c.cli ELSE c.prof

\* --stdout has no test of its own: it goes with --output.  A profile cannot
\* name cross-seeding: its option record has it on by default.
MergedNames(c) ==
    ((c.cli.has \union c.prof.has \union {"cross-seed"}) \ {"stdout"})
        \union (From(c, "output").has \cap {"stdout"})

Merge(c) ==
    [has       |-> MergedNames(c),
     announces |-> From(c, "announce").announces,
     groups    |-> From(c, "announce-group").groups,
     mode      |-> From(c, "list-mode").mode,
     seeds     |-> [f \in SeedFields |-> From(c, f).seeds[f]],
     related   |-> [f \in RelatedFields |-> From(c, f).related[f]],
     text      |-> [f \in TextFields |-> From(c, f).text[f]],
     source    |-> From(c, "source").source,
     private   |-> From(c, "private").private]

Has(o) == o \in opts.has

\* An exception, std::terminate or a null pointer: the command ends and what it
\* did to the metafile in memory is lost.
Fail == /\ pc' = "idle" /\ outcome' = "failed"
        /\ UNCHANGED <<file, given, opts, m>>

Goto(step) == pc' = step /\ UNCHANGED <<file, given, outcome>>

\* The user gives a command: a new one, or the last one once more.
Begin(c) ==
    /\ pc = "idle" /\ runs < MaxRuns
    /\ cmd' = c /\ again' = (outcome = "saved" /\ c = cmd)
    /\ runs' = runs + 1
    /\ pc' = "postprocess"
    /\ UNCHANGED <<file, loaded, opts, m, local, outcome>>

Postprocess ==
    /\ pc = "postprocess"
    /\ \/ /\ cmd.profile = "none"
          /\ opts' = cmd.cli
          /\ Goto("load") /\ UNCHANGED m
       \/ /\ cmd.profile = "edit" /\ "config" \in loaded
          /\ opts' = Merge(cmd)
          /\ Goto("load") /\ UNCHANGED m
       \/ /\ cmd.profile # "none"
          /\ cmd.profile = "edit" => "config" \notin loaded
          /\ Fail
    /\ UNCHANGED local

LoadMetafile ==
    /\ pc = "load"
    /\ m' = file
    /\ Goto(IF Has("announce-group") THEN "groups" ELSE "announces")
    /\ UNCHANGED <<opts, local>>

-----------------------------------------------------------------------------
(* update_announce_group, update_announces *)

\* set_trackers: an announce whose parameters are missing throws.
SetAnnounces(from, list, step) ==
    IF Known /\ Unusable(list)
    THEN Fail
    ELSE /\ m' = SetTrackers(from, list, Known)
         /\ Goto(step) /\ UNCHANGED opts

Cleared == [m EXCEPT !.trackers = <<>>]

\* DEVIATION: the trackers are not cleared.
StartGroupsKeep ==
    /\ pc = "groups"
    /\ IF opts.mode = "replace" /\ ~Known
       THEN Fail /\ UNCHANGED local
       ELSE /\ announces' = IF opts.mode = "append" THEN m.trackers ELSE <<>>
            /\ todo' = opts.groups /\ flags' = {}
            /\ Goto("group") /\ UNCHANGED <<opts, m>>

\* set_tracker_group expects a database and a configuration.
StartGroups ==
    /\ pc = "groups"
    /\ IF opts.mode = "replace" /\ ~Known
       THEN Fail /\ UNCHANGED local
       ELSE /\ m' = IF opts.mode = "replace" THEN Cleared ELSE m
            /\ announces' = IF opts.mode = "append" THEN m.trackers ELSE <<>>
            /\ todo' = opts.groups /\ flags' = {}
            /\ Goto("group") /\ UNCHANGED opts

\* The announces of the next group, each in a tier of its own.
GroupTiers == Singletons(Announces[Head(todo)])

\* There is no such group, no configuration to look it up in, or an announce
\* in it cannot be used.
BadGroup ==
    Head(todo) \in Groups /\ "config" \in loaded =>
        opts.mode # "prepend" /\ Known /\ Unusable(GroupTiers)

FailGroup == pc = "group" /\ todo # <<>> /\ BadGroup /\ Fail /\ UNCHANGED local

NextGroup(mode) ==
    /\ pc = "group" /\ opts.mode = mode /\ todo # <<>> /\ ~BadGroup
    /\ todo' = Tail(todo)
    /\ Goto("group") /\ UNCHANGED opts

ReplaceByGroup ==
    /\ NextGroup("replace")
    /\ m' = AddGroup(m, Head(todo))
    /\ flags' = flags \union PrivateIn(Head(todo))
    /\ UNCHANGED announces

\* DEVIATION: the trackers set_trackers is called with are those of this group.
AppendGroupOnly ==
    /\ NextGroup("append")
    /\ m' = SetTrackers(m, GroupTiers, Known)
    /\ UNCHANGED <<announces, flags>>

\* set_trackers is called in the loop, each time with the trackers of the
\* metafile it was given and those of all groups so far.
AppendGroup ==
    /\ NextGroup("append")
    /\ announces' = announces \o GroupTiers
    /\ m' = SetTrackers(m, announces', Known)
    /\ UNCHANGED flags

PrependGroup ==
    /\ NextGroup("prepend")
    /\ announces' = announces \o GroupTiers
    /\ UNCHANGED <<m, flags>>

EndGroups ==
    /\ pc = "group" /\ todo = <<>>
    /\ \/ /\ opts.mode = "replace"
          /\ m' = SetFlag(m, flags) /\ Goto("announces") /\ UNCHANGED opts
       \/ /\ opts.mode = "append"
          /\ Goto("announces") /\ UNCHANGED <<opts, m>>
       \/ /\ opts.mode = "prepend"
          /\ SetAnnounces(Cleared, announces \o m.trackers, "announces")
    /\ UNCHANGED local

UpdateAnnounces ==
    /\ pc = "announces"
    /\ \/ ~Has("announce") /\ Goto("seeds") /\ UNCHANGED <<opts, m>>
       \/ /\ Has("announce")
          /\ \/ /\ opts.mode = "replace"
                /\ SetAnnounces(Cleared, opts.announces, "seeds")
             \/ /\ opts.mode = "append"
                /\ SetAnnounces(m, opts.announces, "seeds")
             \/ /\ opts.mode = "prepend"
                /\ SetAnnounces(Cleared, opts.announces \o m.trackers, "seeds")
    /\ UNCHANGED local

-----------------------------------------------------------------------------
(* The other fields, and the save. *)

\* DEVIATION: clear_web_seeds() is missing in the replace branch.
EditedNoClear(f) ==
    CASE ~Has(f)                                       -> m.seeds[f]
      [] Has(f) /\ opts.mode \in {"replace", "append"} -> m.seeds[f] \o opts.seeds[f]
      [] Has(f) /\ opts.mode = "prepend"               -> opts.seeds[f] \o m.seeds[f]

\* update_http_seeds, update_web_seeds, update_dht_nodes
Edited(f) ==
    CASE ~Has(f)                          -> m.seeds[f]
      [] Has(f) /\ opts.mode = "replace"  -> opts.seeds[f]
      [] Has(f) /\ opts.mode = "append"   -> m.seeds[f] \o opts.seeds[f]
      [] Has(f) /\ opts.mode = "prepend"  -> opts.seeds[f] \o m.seeds[f]

UpdateSeeds ==
    /\ pc = "seeds"
    /\ m' = [m EXCEPT !.seeds = [f \in SeedFields |-> Edited(f)]]
    /\ Goto("fields") /\ UNCHANGED <<opts, local>>

\* The two fields torrenttools writes by itself, unless told not to.
Stamped == {"created-by", "creation-date"}

Skipped(f) ==
    \/ f = "created-by" /\ Has("no-created-by")
    \/ f = "creation-date" /\ Has("no-creation-date")

Text(f) ==
    CASE Skipped(f)                              -> m.text[f]
      [] ~Skipped(f) /\ Has(f)                   -> opts.text[f]
      [] ~Skipped(f) /\ ~Has(f) /\ f \in Stamped -> Stamp
      [] OTHER                                   -> m.text[f]

SetFields ==
    /\ pc = "fields"
    /\ m' = [m EXCEPT
               !.text    = [f \in TextFields |-> Text(f)],
               !.source  = IF Has("source") THEN opts.source ELSE @,
               !.private = IF Has("private") THEN opts.private ELSE @,
               !.cross   = IF Has("cross-seed") THEN "on" ELSE @,
               !.other   = IF Has("cross-seed") THEN "none" ELSE @]
    /\ Goto("related") /\ UNCHANGED <<opts, local>>

\* update_similar_torrents, update_collections: the order has no meaning.
UpdateRelated ==
    /\ pc = "related"
    /\ m' = [m EXCEPT !.related = [f \in RelatedFields |->
                CASE ~Has(f)                         -> @[f]
                  [] Has(f) /\ opts.mode = "replace" -> opts.related[f]
                  [] Has(f) /\ opts.mode # "replace" -> @[f] \union opts.related[f]]]
    /\ Goto("save") /\ UNCHANGED <<opts, local>>

\* The user goes on with the metafile that was written.
Save ==
    /\ pc = "save"
    /\ pc' = "idle"
    /\ IF Has("stdout")
       THEN outcome' = "stdout" /\ UNCHANGED file
       ELSE outcome' = "saved" /\ file' = m
    /\ UNCHANGED <<given, opts, m, local>>

Run == \/ Postprocess \/ LoadMetafile
       \/ StartGroups \/ FailGroup \/ ReplaceByGroup \/ AppendGroup
       \/ PrependGroup \/ EndGroups \/ UpdateAnnounces
       \/ UpdateSeeds \/ SetFields \/ UpdateRelated \/ Save

Next == Run \/ \E c \in Commands : Begin(c)

Spec == Init /\ [][Next]_vars

-----------------------------------------------------------------------------
(* Properties. *)

\* The type invariant.
TypeOK ==
    /\ file \in Metafile /\ m \in Metafile
    /\ loaded \subseteq {"config", "trackers"}
    /\ cmd \in Commands
    /\ opts \in Options
    /\ pc \in {"idle", "postprocess", "load", "groups", "group", "announces", "seeds",
               "fields", "related", "save"}
    /\ todo \in Seq(GroupNames)
    /\ announces \in Tiers
    /\ flags \subseteq PrivateNames
    /\ outcome \in {"none", "failed", "saved", "stdout"}
    /\ runs \in 1 .. MaxRuns
    /\ again \in BOOLEAN

\* The announces a list of tiers stands for.
Meant(tiers) == IF Known THEN ResolveAll(tiers) ELSE tiers

\* The trackers the announces and the groups of the options stand for.
Asked ==
    All(Meant(IF Has("announce") THEN opts.announces ELSE <<>>))
        \union (IF Has("announce-group")
                THEN UNION {All(Meant(Singletons(Announces[g]))) : g \in Range(opts.groups)}
                ELSE {})

\* The tiers of s are those at the end of t, those at its start.
EndsWith(t, s) ==
    /\ Len(s) <= Len(t)
    /\ \A i \in DOMAIN s : t[Len(t) - Len(s) + i] = s[i]

StartsWith(t, s) == \A i \in DOMAIN s : i \in DOMAIN t /\ t[i] = s[i]

\* The one announce there is is a tracker of the database.
KnownAnnounce ==
    /\ Known /\ Has("announce") /\ Single(opts.announces)
    /\ Entry(Only(opts.announces)) # Nobody

\* What append adds to tier i.
Merged(i) ==
    IF Has("announce") /\ ~KnownAnnounce THEN TierOf(Meant(opts.announces), i) ELSE {}

\* append and prepend never lose a tracker and add those asked for and no others,
\* also when announces and groups are both given, and every tracker is in the tier
\* the code has for it.  prepend puts the announces before the tiers there are.
\* append puts a single announce that the database knows in a tier at the end, as
\* docs/commands/edit.rst:71 says of all announces.  Against it, tier i of any
\* other announces is merged into tier i of the metafile, from the first on.  The
\* trackers of groups do not get into the tiers there are, although set_trackers,
\* which adds to tiers by their index, runs once per group.
TrackersKept ==
    pc = "save" /\ opts.mode # "replace" =>
        /\ All(m.trackers) = All(file.trackers) \union Asked
        /\ opts.mode = "append" =>
              /\ \A i \in DOMAIN file.trackers :
                    m.trackers[i] = file.trackers[i] \union Merged(i)
              /\ \A i \in DOMAIN Meant(opts.announces) :
                    Merged(i) \subseteq TierOf(m.trackers, i)
              /\ KnownAnnounce => EndsWith(m.trackers, Meant(opts.announces))
        /\ opts.mode = "prepend" =>
              /\ EndsWith(m.trackers, file.trackers)
              /\ Has("announce") => StartsWith(m.trackers, Meant(opts.announces))

\* In the default mode the announces replace all trackers, tier by tier; groups
\* without announces replace them with one tier per tracker.
TrackersReplaced ==
    pc = "save" /\ opts.mode = "replace" =>
        /\ Has("announce") => m.trackers = Meant(opts.announces)
        /\ ~Has("announce") /\ Has("announce-group") =>
              /\ All(m.trackers) = Asked
              /\ \A i \in DOMAIN m.trackers : \E u \in Urls : m.trackers[i] = {u}
        /\ ~Has("announce") /\ ~Has("announce-group") => m.trackers = file.trackers

\* The private flag and the source tag the user passes are those written, also
\* against a profile and the database; else a private tracker given by name as
\* the only announce sets both (docs/configuration.rst, "Private flag selection"
\* and "Source field").
FlagsAsDocumented ==
    pc = "save" =>
        /\ "private" \in cmd.cli.has => m.private = cmd.cli.private
        /\ "source" \in cmd.cli.has => m.source = cmd.cli.source
        /\ \A n \in Names :
              Known /\ Has("announce") /\ opts.announces = <<{n}>> /\ opts.mode # "prepend" =>
                 /\ ~Has("private") => m.private = Flag(n)
                 /\ ~Has("source") /\ n \in PrivateNames => m.source = n

\* A command that replaces, given once more, leaves the metafile as it is, but for
\* the date (Stamp stands for the present at any time).
RetryHarmless == pc = "save" /\ again /\ opts.mode = "replace" => m = file

\* "If one of the tracker in the group is private the torrent wil have to be
\* private!" (src/common.cpp:72), unless the user says otherwise.  Violated.
PrivateGroupStaysPrivate ==
    pc = "save" /\ Known /\ Has("announce-group") /\ ~Has("private") =>
        \A g \in Range(opts.groups) : \A n \in PrivateIn(g) :
            UrlOf[n] \in All(m.trackers) => m.private = "on"

=============================================================================
