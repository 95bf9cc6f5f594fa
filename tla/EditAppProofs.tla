---------------------------- MODULE EditAppProofs ----------------------------
(***************************************************************************)
(* That edit keeps its types, the trackers there are and the flags the     *)
(* user gives, and does nothing when it is run once more, for every        *)
(* command, metafile, configuration and tracker database, with proofs.     *)
(***************************************************************************)
EXTENDS EditApp, AnnouncesProofs

-----------------------------------------------------------------------------
(* The inductive invariant: what holds before the step a property is about. *)

\* The options once a profile has been merged.
Applied == IF cmd.profile = "none" THEN cmd.cli ELSE Merge(cmd)

OptionsInv == pc \notin {"idle", "postprocess"} => opts = Applied

\* With a database and a configuration a metafile has no names for trackers.
UrlsInv == Known => All(file.trackers) \subseteq Urls /\ All(m.trackers) \subseteq Urls

\* What the first k groups stand for, and the private trackers among them.
GroupUrls(k) == UNION {All(Meant(Singletons(Announces[opts.groups[i]]))) : i \in 1 .. k}
GroupPrivate(k) == UNION {PrivateIn(opts.groups[i]) : i \in 1 .. k}

AskedByGroups == IF Has("announce-group") THEN GroupUrls(Len(opts.groups)) ELSE {}

\* Every tracker has a tier of its own.
OwnTiers(ts) == \A i \in DOMAIN ts : \E u \in Urls : ts[i] = {u}

\* The loop over the groups has the groups after the first k left.
Left(k) ==
    /\ Len(todo) = Len(opts.groups) - k
    /\ \A i \in DOMAIN todo : todo[i] = opts.groups[k + i]
    /\ \A i \in 1 .. k : opts.groups[i] \in Groups

\* What it has made of the first k.
Done(k) ==
    /\ opts.mode = "replace" =>
          /\ All(m.trackers) = GroupUrls(k) /\ OwnTiers(m.trackers)
          /\ flags = GroupPrivate(k)
    /\ opts.mode = "append" =>
          /\ All(m.trackers) = All(file.trackers) \union GroupUrls(k)
          /\ StartsWith(m.trackers, file.trackers) /\ StartsWith(announces, file.trackers)
          /\ All(Meant(announces)) = All(file.trackers) \union GroupUrls(k)
    /\ opts.mode = "prepend" =>
          /\ m.trackers = file.trackers
          /\ All(Meant(announces)) = GroupUrls(k)

GroupsInv ==
    /\ pc \in {"groups", "group"} => Has("announce-group")
    /\ pc = "groups" => m = file
    /\ pc = "group" => /\ opts.mode = "replace" => Known
                       /\ \E k \in 0 .. Len(opts.groups) : Left(k) /\ Done(k)

\* What the groups have made of the trackers.
GroupsDoneInv ==
    pc = "announces" =>
        /\ opts.mode # "replace" =>
              All(m.trackers) = All(file.trackers) \union AskedByGroups
        /\ opts.mode = "append" => StartsWith(m.trackers, file.trackers)
        /\ opts.mode = "prepend" => EndsWith(m.trackers, file.trackers)
        /\ opts.mode = "replace" =>
              IF Has("announce-group")
              THEN All(m.trackers) = AskedByGroups /\ OwnTiers(m.trackers)
              ELSE m.trackers = file.trackers

\* Where append puts the announces, and prepend.
Appended(ts) ==
    /\ \A i \in DOMAIN file.trackers : ts[i] = file.trackers[i] \union Merged(i)
    /\ \A i \in DOMAIN Meant(opts.announces) : Merged(i) \subseteq TierOf(ts, i)
    /\ KnownAnnounce => EndsWith(ts, Meant(opts.announces))

Prefixed(ts) ==
    /\ EndsWith(ts, file.trackers)
    /\ Has("announce") => StartsWith(ts, Meant(opts.announces))

\* TrackersKept and TrackersReplaced, from the update of the announces on.
Kept ==
    /\ All(m.trackers) = All(file.trackers) \union Asked
    /\ opts.mode = "append" => Appended(m.trackers)
    /\ opts.mode = "prepend" => Prefixed(m.trackers)

Replaced ==
    /\ Has("announce") => m.trackers = Meant(opts.announces)
    /\ ~Has("announce") /\ Has("announce-group") =>
          All(m.trackers) = Asked /\ OwnTiers(m.trackers)
    /\ ~Has("announce") /\ ~Has("announce-group") => m.trackers = file.trackers

TrackersInv ==
    pc \in {"seeds", "fields", "related", "save"} =>
        IF opts.mode = "replace" THEN Replaced ELSE Kept

\* What the announces alone make of the private flag and the source tag.
Tags ==
    \A n \in Names :
        Known /\ Has("announce") /\ opts.announces = <<{n}>> /\ opts.mode # "prepend" =>
            m.private = Flag(n) /\ (n \in PrivateNames => m.source = n)

\* What they and the options make of them.
Flags ==
    /\ "private" \in cmd.cli.has => m.private = cmd.cli.private
    /\ "source" \in cmd.cli.has => m.source = cmd.cli.source
    /\ \A n \in Names :
          Known /\ Has("announce") /\ opts.announces = <<{n}>> /\ opts.mode # "prepend" =>
             /\ ~Has("private") => m.private = Flag(n)
             /\ ~Has("source") /\ n \in PrivateNames => m.source = n

TagsInv ==
    /\ pc \in {"seeds", "fields"} => Tags
    /\ pc \in {"related", "save"} => Flags

TrackerInv == GroupsInv /\ GroupsDoneInv /\ TrackersInv /\ TagsInv

-----------------------------------------------------------------------------
(* Once more: what a command with options o, which replace, makes of the fields of *)
(* a metafile.                                                                     *)

GroupFlag(o, p) ==
    IF "announce-group" \in o.has /\ \E i \in DOMAIN o.groups : PrivateIn(o.groups[i]) # {}
    THEN "on" ELSE p

AnnounceFlag(o, p, known) == IF "announce" \in o.has THEN NewFlag(p, o.announces, known) ELSE p
AnnounceSource(o, s, known) == IF "announce" \in o.has THEN NewSource(s, o.announces, known) ELSE s

FinalFlag(o, p, known) ==
    IF "private" \in o.has THEN o.private ELSE AnnounceFlag(o, GroupFlag(o, p), known)
FinalSource(o, s, known) == IF "source" \in o.has THEN o.source ELSE AnnounceSource(o, s, known)

FinalSeeds(o, s) == [f \in SeedFields |-> IF f \in o.has THEN o.seeds[f] ELSE s[f]]
FinalRelated(o, r) == [f \in RelatedFields |-> IF f \in o.has THEN o.related[f] ELSE r[f]]

FinalText(o, t) ==
    [f \in TextFields |->
        IF \/ f = "created-by" /\ "no-created-by" \in o.has
           \/ f = "creation-date" /\ "no-creation-date" \in o.has
        THEN t[f]
        ELSE IF f \in o.has THEN o.text[f]
        ELSE IF f \in Stamped THEN Stamp ELSE t[f]]

FinalCross(o, x) == IF "cross-seed" \in o.has THEN "on" ELSE x
FinalOther(o, x) == IF "cross-seed" \in o.has THEN "none" ELSE x

\* The trackers ts are those of the first k groups of gs, one after the other; c[i] of
\* them are those of the first i groups.
Layout(gs, c, ts, k) ==
    /\ c[0] = 0 /\ Len(ts) = c[k]
    /\ \A i \in 1 .. k :
          /\ gs[i] \in Groups
          /\ c[i] = c[i - 1] + Len(Announces[gs[i]])
          /\ \A j \in DOMAIN Announces[gs[i]] :
                /\ c[i - 1] + j \in DOMAIN ts
                /\ ts[c[i - 1] + j] = {Resolve(Announces[gs[i]][j])}

LaidOut(gs, ts, k) == \E c \in [0 .. k -> Nat] : Layout(gs, c, ts, k)

\* A metafile the command leaves as it is.
Fixed(o, f, known) ==
    /\ "announce" \in o.has => f.trackers = Read(o.announces, known)
    /\ "announce" \notin o.has /\ "announce-group" \in o.has =>
          LaidOut(o.groups, f.trackers, Len(o.groups))
    /\ FinalFlag(o, f.private, known) = f.private
    /\ FinalSource(o, f.source, known) = f.source
    /\ FinalSeeds(o, f.seeds) = f.seeds
    /\ FinalRelated(o, f.related) = f.related
    /\ FinalText(o, f.text) = f.text
    /\ FinalCross(o, f.cross) = f.cross
    /\ FinalOther(o, f.other) = f.other

\* How far the fields have got.
FieldsInv ==
    opts.mode = "replace" =>
        /\ pc \in {"groups", "group"} => m.private = file.private
        /\ pc = "announces" => m.private = GroupFlag(opts, file.private)
        /\ pc \in {"seeds", "fields"} =>
              m.private = AnnounceFlag(opts, GroupFlag(opts, file.private), Known)
        /\ pc \in {"related", "save"} => m.private = FinalFlag(opts, file.private, Known)
        /\ pc \in {"groups", "group", "announces"} => m.source = file.source
        /\ pc \in {"seeds", "fields"} => m.source = AnnounceSource(opts, file.source, Known)
        /\ pc \in {"related", "save"} => m.source = FinalSource(opts, file.source, Known)
        /\ pc \in {"groups", "group", "announces", "seeds"} => m.seeds = file.seeds
        /\ pc \in {"fields", "related", "save"} => m.seeds = FinalSeeds(opts, file.seeds)
        /\ pc \in {"groups", "group", "announces", "seeds", "fields"} =>
              m.text = file.text /\ m.cross = file.cross /\ m.other = file.other
        /\ pc \in {"related", "save"} =>
              /\ m.text = FinalText(opts, file.text)
              /\ m.cross = FinalCross(opts, file.cross)
              /\ m.other = FinalOther(opts, file.other)
        /\ pc \in {"groups", "group", "announces", "seeds", "fields", "related"} =>
              m.related = file.related
        /\ pc = "save" => m.related = FinalRelated(opts, file.related)

\* How many groups the loop has done.
Turns == Len(opts.groups) - Len(todo)

\* How far the trackers of groups have got.
LayoutInv ==
    opts.mode = "replace" /\ Has("announce-group") =>
        /\ pc = "group" => LaidOut(opts.groups, m.trackers, Turns)
        /\ pc = "announces" \/ (pc \in {"seeds", "fields", "related", "save"}
                                   /\ ~Has("announce")) =>
              LaidOut(opts.groups, m.trackers, Len(opts.groups))

\* The trackers ts are the first of the trackers of groups gs in old.
Again(gs, ts, old, k) ==
    \E c \in [0 .. Len(gs) -> Nat] :
        /\ Layout(gs, c, old, Len(gs))
        /\ Len(ts) = c[k]
        /\ \A i \in DOMAIN ts : ts[i] = old[i]

\* How far the trackers have got when the metafile has them already.
AgainInv ==
    again /\ opts.mode = "replace" /\ ~Has("announce") =>
        /\ pc = "group" => Again(opts.groups, m.trackers, file.trackers, Turns)
        /\ pc \in {"announces", "seeds", "fields", "related", "save"} =>
              m.trackers = file.trackers

\* A metafile that has been saved is one the command leaves as it is.
FixedInv ==
    Applied.mode = "replace" /\ (IF pc = "idle" THEN outcome = "saved" ELSE again) =>
        Fixed(Applied, file, Known)

RetryInv == FieldsInv /\ LayoutInv /\ AgainInv /\ FixedInv

-----------------------------------------------------------------------------
(* What the steps make of the metafile in memory. *)

\* The fields set_trackers and set_tracker_group leave as they are.
SameFields(n, f) ==
    /\ n.seeds = f.seeds /\ n.related = f.related /\ n.text = f.text
    /\ n.cross = f.cross /\ n.other = f.other

\* A metafile with other trackers, private flag and source tag is one.
LEMMA MetafileUpdate ==
    ASSUME NEW f \in Metafile, NEW ts \in Tiers, NEW p \in {"on", "off"},
           NEW s \in Texts \union Names \union {Nobody}
    PROVE  /\ Tagged(f, ts, p, s) \in Metafile
           /\ Tagged(f, ts, p, s).trackers = ts /\ Tagged(f, ts, p, s).private = p
           /\ Tagged(f, ts, p, s).source = s
           /\ SameFields(Tagged(f, ts, p, s), f)
BY DEF Metafile, Tagged, SameFields

\* A metafile has the fields set_trackers reads.
LEMMA MetafileTags ==
    ASSUME NEW f \in Metafile
    PROVE  /\ HasTags(f) /\ f.trackers \in Tiers /\ f.private \in {"on", "off"}
           /\ f.source \in Texts \union Names \union {Nobody}
BY DEF Metafile, HasTags

\* set_trackers.
LEMMA SetTrackersMakes ==
    ASSUME NEW f \in Metafile, NEW t \in Tiers, NEW known \in BOOLEAN
    PROVE  /\ SetTrackers(f, t, known) \in Metafile
           /\ SetTrackers(f, t, known).trackers = NewTrackers(f.trackers, t, known)
           /\ SetTrackers(f, t, known).private = NewFlag(f.private, t, known)
           /\ SetTrackers(f, t, known).source = NewSource(f.source, t, known)
           /\ SameFields(SetTrackers(f, t, known), f)
<1> DEFINE n == NewTrackers(f.trackers, t, known)
           p == NewFlag(f.private, t, known)
           s == NewSource(f.source, t, known)
<1>1. /\ HasTags(f) /\ f.trackers \in Tiers /\ f.private \in {"on", "off"}
      /\ f.source \in Texts \union Names \union {Nobody}
  BY MetafileTags
<1>2. n \in Tiers
  BY <1>1, NewTrackersAre
<1>3. p \in {"on", "off"}
  BY <1>1 DEF NewFlag, Flag
<1>4. s \in Texts \union Names \union {Nobody}
  BY <1>1, DatabaseAssumption DEF NewSource
<1>5. SetTrackers(f, t, known) = Tagged(f, n, p, s)
  BY <1>1, SetTrackersIs
<1> HIDE DEF n, p, s
<1>6. /\ Tagged(f, n, p, s) \in Metafile
      /\ Tagged(f, n, p, s).trackers = n /\ Tagged(f, n, p, s).private = p
      /\ Tagged(f, n, p, s).source = s
      /\ SameFields(Tagged(f, n, p, s), f)
  BY <1>2, <1>3, <1>4, MetafileUpdate
<1> QED
  BY <1>5, <1>6 DEF n, p, s

\* One turn of the loop over groups, the flag after it, and the removal of trackers.
LEMMA GroupMakes ==
    ASSUME NEW f \in Metafile
    PROVE  /\ \A g \in Groups :
                 /\ AddGroup(f, g) \in Metafile
                 /\ AddGroup(f, g).trackers = WithGroup(f.trackers, g)
                 /\ AddGroup(f, g).private = f.private /\ AddGroup(f, g).source = f.source
                 /\ SameFields(AddGroup(f, g), f)
           /\ \A names :
                 /\ SetFlag(f, names) \in Metafile
                 /\ SetFlag(f, names).trackers = f.trackers
                 /\ SetFlag(f, names).private = IF names # {} THEN "on" ELSE f.private
                 /\ SetFlag(f, names).source = f.source
                 /\ SameFields(SetFlag(f, names), f)
<1>1. /\ HasTags(f) /\ f.trackers \in Tiers /\ f.private \in {"on", "off"}
      /\ f.source \in Texts \union Names \union {Nobody}
  BY MetafileTags
<1>2. ASSUME NEW g \in Groups
      PROVE  /\ AddGroup(f, g) \in Metafile
             /\ AddGroup(f, g).trackers = WithGroup(f.trackers, g)
             /\ AddGroup(f, g).private = f.private /\ AddGroup(f, g).source = f.source
             /\ SameFields(AddGroup(f, g), f)
  <2>1. AddGroup(f, g) = Tagged(f, WithGroup(f.trackers, g), f.private, f.source)
    BY <1>1, AddGroupIs
  <2>2. WithGroup(f.trackers, g) \in Tiers
    BY <1>1, WithGroupAre
  <2> QED
    BY <1>1, <2>1, <2>2, MetafileUpdate
<1>3. ASSUME NEW names
      PROVE  /\ SetFlag(f, names) \in Metafile
             /\ SetFlag(f, names).trackers = f.trackers
             /\ SetFlag(f, names).private = IF names # {} THEN "on" ELSE f.private
             /\ SetFlag(f, names).source = f.source
             /\ SameFields(SetFlag(f, names), f)
  <2> DEFINE p == IF names # {} THEN "on" ELSE f.private
  <2>1. p \in {"on", "off"}
    BY <1>1
  <2>2. SetFlag(f, names) = Tagged(f, f.trackers, p, f.source)
    BY <1>1, AddGroupIs
  <2> HIDE DEF p
  <2>3. /\ Tagged(f, f.trackers, p, f.source) \in Metafile
        /\ Tagged(f, f.trackers, p, f.source).trackers = f.trackers
        /\ Tagged(f, f.trackers, p, f.source).private = p
        /\ Tagged(f, f.trackers, p, f.source).source = f.source
        /\ SameFields(Tagged(f, f.trackers, p, f.source), f)
    BY <1>1, <2>1, MetafileUpdate
  <2> QED
    BY <2>2, <2>3 DEF p
<1> QED
  BY <1>2, <1>3

\* What emptying the trackers changes.
LEMMA ClearedMakes ==
    ASSUME m \in Metafile
    PROVE  /\ Cleared \in Metafile /\ Cleared.trackers = <<>>
           /\ Cleared.private = m.private /\ Cleared.source = m.source
           /\ SameFields(Cleared, m)
<1>1. /\ HasTags(m) /\ m.private \in {"on", "off"}
      /\ m.source \in Texts \union Names \union {Nobody}
  BY MetafileTags
<1>2. <<>> \in Tiers
  BY DEF Tiers
<1>3. Cleared = Tagged(m, <<>>, m.private, m.source)
  BY <1>1, TaggedSame DEF Cleared, Retiered
<1> QED
  BY <1>1, <1>2, <1>3, MetafileUpdate

\* update_http_seeds and its like.
LEMMA SeedsMakes ==
    ASSUME m \in Metafile, opts \in Options, UpdateSeeds
    PROVE  /\ m' \in Metafile
           /\ m'.seeds = [f \in SeedFields |-> Edited(f)]
           /\ m'.trackers = m.trackers /\ m'.private = m.private /\ m'.source = m.source
           /\ m'.related = m.related /\ m'.text = m.text
           /\ m'.cross = m.cross /\ m'.other = m.other
<1> DEFINE s == [f \in SeedFields |-> Edited(f)]
<1>1. m' = [m EXCEPT !.seeds = s]
  BY DEF UpdateSeeds
<1>2. s \in [SeedFields -> Seq(Items)]
  <2>1. \A f \in SeedFields : Edited(f) \in Seq(Items)
    <3> TAKE f \in SeedFields
    <3>1. m.seeds[f] \in Seq(Items) /\ opts.seeds[f] \in Seq(Items)
      BY DEF Metafile, Options
    <3>2. opts.mode \in {"replace", "append", "prepend"}
      BY DEF Options
    <3>3. m.seeds[f] \o opts.seeds[f] \in Seq(Items) /\ opts.seeds[f] \o m.seeds[f] \in Seq(Items)
      BY <3>1
    <3> QED
      BY <3>1, <3>2, <3>3 DEF Edited
  <2> QED
    BY <2>1
<1> HIDE DEF s
<1>3. /\ m' \in Metafile /\ m'.seeds = s
      /\ m'.trackers = m.trackers /\ m'.private = m.private /\ m'.source = m.source
      /\ m'.related = m.related /\ m'.text = m.text
      /\ m'.cross = m.cross /\ m'.other = m.other
  BY <1>1, <1>2 DEF Metafile
<1> QED
  BY <1>3 DEF s

\* The text fields, the source tag, the private flag and cross-seeding.
LEMMA FieldsMakes ==
    ASSUME m \in Metafile, opts \in Options, SetFields
    PROVE  /\ m' \in Metafile
           /\ m'.text = [f \in TextFields |-> Text(f)]
           /\ m'.source = IF Has("source") THEN opts.source ELSE m.source
           /\ m'.private = IF Has("private") THEN opts.private ELSE m.private
           /\ m'.cross = IF Has("cross-seed") THEN "on" ELSE m.cross
           /\ m'.other = IF Has("cross-seed") THEN "none" ELSE m.other
           /\ m'.trackers = m.trackers /\ m'.seeds = m.seeds /\ m'.related = m.related
<1> DEFINE t == [f \in TextFields |-> Text(f)]
           s == IF Has("source") THEN opts.source ELSE m.source
           p == IF Has("private") THEN opts.private ELSE m.private
           x == IF Has("cross-seed") THEN "on" ELSE m.cross
           y == IF Has("cross-seed") THEN "none" ELSE m.other
<1>1. m' = [m EXCEPT !.text = t, !.source = s, !.private = p, !.cross = x, !.other = y]
  BY DEF SetFields
<1>2. t \in [TextFields -> Texts]
  <2>1. \A f \in TextFields : m.text[f] \in Texts /\ opts.text[f] \in Texts
    BY DEF Metafile, Options
  <2>2. \A f \in TextFields : Text(f) \in Texts
    BY <2>1, EditAssumption DEF Text
  <2> QED
    BY <2>2
<1>3. /\ s \in Texts \union Names \union {Nobody} /\ p \in {"on", "off"}
      /\ x \in {"on", "off"} /\ y \in {"kept", "none"}
  BY DEF Metafile, Options
<1> HIDE DEF t, s, p, x, y
<1>4. /\ m' \in Metafile /\ m'.text = t /\ m'.source = s /\ m'.private = p
      /\ m'.cross = x /\ m'.other = y
      /\ m'.trackers = m.trackers /\ m'.seeds = m.seeds /\ m'.related = m.related
  BY <1>1, <1>2, <1>3 DEF Metafile
<1> QED
  BY <1>4 DEF t, s, p, x, y

\* update_similar_torrents and update_collections.
NewRelated(f) ==
    CASE ~Has(f)                         -> m.related[f]
      [] Has(f) /\ opts.mode = "replace" -> opts.related[f]
      [] Has(f) /\ opts.mode # "replace" -> m.related[f] \union opts.related[f]

\* What UpdateRelated changes.
LEMMA RelatedMakes ==
    ASSUME m \in Metafile, opts \in Options, UpdateRelated
    PROVE  /\ m' \in Metafile
           /\ m'.related = [f \in RelatedFields |-> NewRelated(f)]
           /\ m'.trackers = m.trackers /\ m'.private = m.private /\ m'.source = m.source
           /\ m'.seeds = m.seeds /\ m'.text = m.text
           /\ m'.cross = m.cross /\ m'.other = m.other
<1> DEFINE r == [f \in RelatedFields |-> NewRelated(f)]
<1>1. m' = [m EXCEPT !.related = r]
  BY DEF UpdateRelated, Metafile, NewRelated
<1>2. r \in [RelatedFields -> SUBSET Items]
  <2>1. \A f \in RelatedFields :
           m.related[f] \in SUBSET Items /\ opts.related[f] \in SUBSET Items
    BY DEF Metafile, Options
  <2>2. \A f \in RelatedFields : NewRelated(f) \in SUBSET Items
    BY <2>1 DEF NewRelated
  <2> QED
    BY <2>2
<1> HIDE DEF r
<1>3. /\ m' \in Metafile /\ m'.related = r
      /\ m'.trackers = m.trackers /\ m'.private = m.private /\ m'.source = m.source
      /\ m'.seeds = m.seeds /\ m'.text = m.text
      /\ m'.cross = m.cross /\ m'.other = m.other
  BY <1>1, <1>2 DEF Metafile
<1> QED
  BY <1>3 DEF r

-----------------------------------------------------------------------------
(* Types. *)

TypeInv == TypeOK /\ OptionsInv /\ UrlsInv

\* The options given and the merged ones are options.
LEMMA MergeType ==
    ASSUME NEW c \in Commands
    PROVE  c.cli \in Options /\ Merge(c) \in Options
<1>1. c.cli \in Options /\ c.prof \in Options
  BY EditAssumption DEF Command
<1>2. \A o : From(c, o) \in Options
  BY <1>1 DEF From
<1>3. \A o : /\ From(c, o).announces \in Tiers /\ From(c, o).groups \in Seq(GroupNames)
             /\ From(c, o).mode \in {"replace", "append", "prepend"}
             /\ From(c, o).seeds \in [SeedFields -> Seq(Items)]
             /\ From(c, o).related \in [RelatedFields -> SUBSET Items]
             /\ From(c, o).text \in [TextFields -> Texts]
             /\ From(c, o).source \in Texts /\ From(c, o).private \in {"on", "off"}
  BY <1>2 DEF Options
<1>4. MergedNames(c) \in SUBSET OptionNames
  <2>1. c.cli.has \subseteq OptionNames /\ c.prof.has \subseteq OptionNames
    BY <1>1 DEF Options
  <2>2. {"cross-seed", "stdout"} \subseteq OptionNames
    BY DEF OptionNames
  <2> QED
    BY <2>1, <2>2 DEF MergedNames
<1>5. [f \in SeedFields |-> From(c, f).seeds[f]] \in [SeedFields -> Seq(Items)]
  BY <1>3
<1>6. [f \in RelatedFields |-> From(c, f).related[f]] \in [RelatedFields -> SUBSET Items]
  BY <1>3
<1>7. [f \in TextFields |-> From(c, f).text[f]] \in [TextFields -> Texts]
  BY <1>3
<1> QED
  BY <1>1, <1>3, <1>4, <1>5, <1>6, <1>7 DEF Merge, Options

\* What depends on the command and on the configuration alone.
LEMMA Steady ==
    ASSUME UNCHANGED <<cmd, loaded>>
    PROVE  (Known' <=> Known) /\ Applied' = Applied
BY DEF Known, Applied, Merge, MergedNames, From

\* The first state.
LEMMA InitType == Init => TypeInv
<1> SUFFICES ASSUME Init PROVE TypeInv
  OBVIOUS
<1>1. opts \in Options /\ cmd \in Commands
  BY MergeType DEF Init
<1>2. file \in Metafile /\ m \in Metafile /\ All(file.trackers) \subseteq Urls /\ m = file
  BY EditAssumption DEF Init
<1>3. todo \in Seq(GroupNames) /\ announces \in Tiers /\ flags \subseteq PrivateNames
  BY DEF Init, Tiers
<1>4. runs \in 1 .. MaxRuns
  BY EditAssumption DEF Init
<1>5. /\ loaded \subseteq {"config", "trackers"} /\ pc = "postprocess"
      /\ outcome = "none" /\ again = FALSE
  BY DEF Init
<1>6. TypeOK
  BY <1>1, <1>2, <1>3, <1>4, <1>5 DEF TypeOK
<1> QED
  BY <1>2, <1>5, <1>6 DEF TypeInv, OptionsInv, UrlsInv

\* Within a command only the merge changes the options; between commands they do not
\* matter.
LEMMA GivenStep ==
    ASSUME TypeInv, Next
    PROVE  /\ loaded' = loaded /\ loaded' \subseteq {"config", "trackers"}
           /\ (Known' <=> Known) /\ cmd' \in Commands /\ opts' \in Options
           /\ OptionsInv'
           /\ runs' \in 1 .. MaxRuns /\ again' \in BOOLEAN
<1>0. /\ loaded \subseteq {"config", "trackers"} /\ cmd \in Commands /\ opts \in Options
      /\ runs \in 1 .. MaxRuns /\ again \in BOOLEAN /\ MaxRuns \in Nat
  BY EditAssumption DEF TypeInv, TypeOK
<1>1. CASE \E c \in Commands : Begin(c)
  <2>1. /\ loaded' = loaded /\ cmd' \in Commands /\ opts' = opts /\ pc' = "postprocess"
        /\ runs < MaxRuns /\ runs' = runs + 1 /\ again' \in BOOLEAN
    BY <1>1 DEF Begin
  <2> QED
    BY <1>0, <2>1 DEF OptionsInv, Known
<1>2. CASE Postprocess
  <2>1. given' = given /\ (opts' = opts \/ opts' = cmd.cli \/ opts' = Merge(cmd))
    BY <1>2 DEF Postprocess, Fail, Goto
  <2>2. loaded' = loaded /\ cmd' = cmd /\ runs' = runs /\ again' = again
    BY <2>1 DEF given
  <2>3. OptionsInv'
    <3>1. pc' = "idle" \/ opts' = Applied
      BY <1>2 DEF Postprocess, Fail, Goto, Applied
    <3> QED
      BY <2>2, <3>1, Steady DEF OptionsInv
  <2> QED
    BY <1>0, <2>1, <2>2, <2>3, Steady, MergeType
<1>3. CASE Run /\ ~Postprocess
  <2>1. given' = given /\ opts' = opts /\ pc \notin {"idle", "postprocess"}
    BY <1>3 DEF Run, LoadMetafile, StartGroups, FailGroup, ReplaceByGroup, AppendGroup,
       PrependGroup, EndGroups, UpdateAnnounces, UpdateSeeds, SetFields, UpdateRelated,
       Save, NextGroup, SetAnnounces, Fail, Goto
  <2>2. loaded' = loaded /\ cmd' = cmd /\ runs' = runs /\ again' = again
    BY <2>1 DEF given
  <2>3. OptionsInv'
    BY <2>1, <2>2, Steady DEF OptionsInv, TypeInv
  <2> QED
    BY <1>0, <2>1, <2>2, <2>3, Steady
<1> QED
  BY <1>1, <1>2, <1>3 DEF Next

\* Where a command is, and how the last one ended.
LEMMA OutcomeStep ==
    ASSUME TypeInv, Next
    PROVE  /\ pc' \in {"idle", "postprocess", "load", "groups", "group", "announces",
                       "seeds", "fields", "related", "save"}
           /\ outcome' \in {"none", "failed", "saved", "stdout"}
<1>0. /\ outcome \in {"none", "failed", "saved", "stdout"}
  BY DEF TypeInv, TypeOK
<1>1. CASE \E c \in Commands : Begin(c)
  BY <1>0, <1>1 DEF Begin
<1>2. CASE Run
  <2>1. \/ pc' = "idle" /\ outcome' \in {"failed", "saved", "stdout"}
        \/ /\ outcome' = outcome
           /\ pc' \in {"load", "groups", "group", "announces", "seeds", "fields",
                       "related", "save"}
    BY <1>2 DEF Run, Postprocess, LoadMetafile, StartGroups, FailGroup, ReplaceByGroup,
       AppendGroup, PrependGroup, EndGroups, UpdateAnnounces, UpdateSeeds, SetFields,
       UpdateRelated, Save, NextGroup, SetAnnounces, Fail, Goto
  <2> QED
    BY <1>0, <2>1
<1> QED
  BY <1>1, <1>2 DEF Next

\* A group that is not bad is defined, and its announces are lists of tiers.
LEMMA GoodGroup ==
    ASSUME todo # <<>>, ~BadGroup
    PROVE  /\ Head(todo) \in Groups /\ GroupTiers \in Tiers
           /\ All(GroupTiers) = Range(Announces[Head(todo)])
<1>1. Head(todo) \in Groups
  BY DEF BadGroup
<1> QED
  BY <1>1, GroupType DEF GroupTiers

\* The local variables of the updates.
LEMMA LocalStep ==
    ASSUME TypeInv, Next
    PROVE  /\ todo' \in Seq(GroupNames) /\ announces' \in Tiers
           /\ flags' \subseteq PrivateNames
<1>0. /\ todo \in Seq(GroupNames) /\ announces \in Tiers /\ flags \subseteq PrivateNames
      /\ opts.groups \in Seq(GroupNames) /\ m.trackers \in Tiers
  BY MetafileTags DEF TypeInv, TypeOK, Options
<1>1. CASE StartGroups
  <2>1. /\ todo' = todo \/ todo' = opts.groups
        /\ announces' = announces \/ announces' = m.trackers \/ announces' = <<>>
        /\ flags' = flags \/ flags' = {}
    BY <1>1 DEF StartGroups, Fail, Goto, local
  <2>2. <<>> \in Tiers
    BY DEF Tiers
  <2> QED
    BY <1>0, <2>1, <2>2
<1>2. CASE ReplaceByGroup \/ AppendGroup \/ PrependGroup
  <2>1. /\ todo # <<>> /\ ~BadGroup /\ todo' = Tail(todo)
        /\ announces' = announces \/ announces' = announces \o GroupTiers
        /\ flags' = flags \/ flags' = flags \union PrivateIn(Head(todo))
    BY <1>2 DEF ReplaceByGroup, AppendGroup, PrependGroup, NextGroup
  <2>2. announces \o GroupTiers \in Tiers
    BY <1>0, <2>1, GoodGroup, AllOfLists
  <2>3. Tail(todo) \in Seq(GroupNames)
    BY <1>0, <2>1
  <2>4. PrivateIn(Head(todo)) \subseteq PrivateNames
    BY DEF PrivateIn
  <2> QED
    BY <1>0, <2>1, <2>2, <2>3, <2>4
<1>3. CASE UNCHANGED local
  BY <1>0, <1>3 DEF local
<1> QED
  BY <1>1, <1>2, <1>3 DEF Next, Run, Begin, Postprocess, LoadMetafile, FailGroup,
     EndGroups, UpdateAnnounces, UpdateSeeds, SetFields, UpdateRelated, Save

\* No tiers.
LEMMA NoTiers == <<>> \in Tiers /\ All(<<>>) = {} /\ DOMAIN <<>> = {}
<1>1. <<>> \in Tiers /\ DOMAIN <<>> = {}
  BY DEF Tiers
<1> QED
  BY <1>1, AllMember

\* What set_trackers and set_tracker_group add are URLs, if there is a database.
LEMMA UrlsKept ==
    ASSUME NEW f \in Metafile, All(f.trackers) \subseteq Urls
    PROVE  /\ \A t \in Tiers : All(SetTrackers(f, t, TRUE).trackers) \subseteq Urls
           /\ \A g \in Groups : All(AddGroup(f, g).trackers) \subseteq Urls
<1>0. f.trackers \in Tiers
  BY MetafileTags
<1>1. ASSUME NEW t \in Tiers PROVE All(SetTrackers(f, t, TRUE).trackers) \subseteq Urls
  <2>1. SetTrackers(f, t, TRUE).trackers = NewTrackers(f.trackers, t, TRUE)
    BY SetTrackersMakes
  <2>2. All(NewTrackers(f.trackers, t, TRUE)) = All(f.trackers) \union All(Read(t, TRUE))
    BY <1>0, NewTrackersAre
  <2>3. All(Read(t, TRUE)) \subseteq Urls
    BY ReadType
  <2> QED
    BY <2>1, <2>2, <2>3
<1>2. ASSUME NEW g \in Groups PROVE All(AddGroup(f, g).trackers) \subseteq Urls
  <2>1. AddGroup(f, g).trackers = WithGroup(f.trackers, g)
    BY GroupMakes
  <2>2. All(WithGroup(f.trackers, g)) =
           All(f.trackers) \union {Resolve(a) : a \in Range(Announces[g])}
    BY <1>0, WithGroupAre
  <2>3. Range(Announces[g]) \subseteq Announce
    BY GroupType DEF Range
  <2>4. {Resolve(a) : a \in Range(Announces[g])} \subseteq Urls
    BY <2>3, ResolveUrls
  <2> QED
    BY <2>1, <2>2, <2>4
<1> QED
  BY <1>1, <1>2

\* set_trackers on the trackers that are there, or on none.
LEMMA SetAnnouncesMakes ==
    ASSUME TypeInv, NEW list \in Tiers, NEW from \in {m, Cleared}, NEW step,
           SetAnnounces(from, list, step)
    PROVE  /\ file' = file /\ opts' = opts /\ given' = given
           /\ from \in Metafile /\ from.private = m.private /\ from.source = m.source
           /\ SameFields(from, m) /\ from.trackers \in {m.trackers, <<>>}
           /\ \/ pc' = "idle" /\ outcome' = "failed" /\ m' = m
              \/ /\ pc' = step /\ outcome' = outcome
                 /\ m' = SetTrackers(from, list, Known)
                 /\ Known => ~Unusable(list)
<1>1. m \in Metafile
  BY DEF TypeInv, TypeOK
<1>2. /\ from \in Metafile /\ from.private = m.private /\ from.source = m.source
      /\ SameFields(from, m) /\ from.trackers \in {m.trackers, <<>>}
  <2>1. CASE from = m
    BY <1>1, <2>1 DEF SameFields
  <2>2. CASE from = Cleared
    BY <1>1, <2>2, ClearedMakes
  <2> QED
    BY <2>1, <2>2
<1>3. /\ file' = file /\ opts' = opts /\ given' = given
      /\ \/ pc' = "idle" /\ outcome' = "failed" /\ m' = m
         \/ /\ pc' = step /\ outcome' = outcome
            /\ m' = SetTrackers(from, list, Known)
            /\ Known => ~Unusable(list)
  BY DEF SetAnnounces, Fail, Goto
<1> QED
  BY <1>2, <1>3

\* update_announces calls it on the trackers that are there or on none, and with the
\* announces alone or with those trackers behind them.
LEMMA AnnouncesCall ==
    ASSUME TypeInv, UpdateAnnounces, Has("announce")
    PROVE  \E from \in {m, Cleared}, list \in Tiers :
              /\ SetAnnounces(from, list, "seeds")
              /\ opts.mode = "replace" => from = Cleared /\ list = opts.announces
              /\ opts.mode = "append" => from = m /\ list = opts.announces
              /\ opts.mode = "prepend" =>
                    from = Cleared /\ list = opts.announces \o m.trackers
<1>1. opts.announces \in Tiers /\ m.trackers \in Tiers
  BY MetafileTags DEF TypeInv, TypeOK, Options
<1>2. opts.announces \o m.trackers \in Tiers
  BY <1>1, AllOfLists
<1>3. CASE opts.mode = "replace"
  BY <1>1, <1>3 DEF UpdateAnnounces
<1>4. CASE opts.mode = "append"
  BY <1>1, <1>4 DEF UpdateAnnounces
<1>5. CASE opts.mode = "prepend"
  BY <1>2, <1>5 DEF UpdateAnnounces
<1> QED
  BY <1>3, <1>4, <1>5 DEF UpdateAnnounces

\* The metafile in memory and the one on disk.
LEMMA MetafileStep ==
    ASSUME TypeInv, Next
    PROVE  m' \in Metafile /\ file' \in Metafile /\ UrlsInv'
<1>0. /\ m \in Metafile /\ file \in Metafile /\ opts \in Options /\ announces \in Tiers
      /\ Known => All(file.trackers) \subseteq Urls /\ All(m.trackers) \subseteq Urls
      /\ (Known' <=> Known) /\ Known \in BOOLEAN
  BY GivenStep DEF TypeInv, TypeOK, UrlsInv, Known
<1> SUFFICES /\ m' \in Metafile /\ (Known => All(m'.trackers) \subseteq Urls)
             /\ file' = file \/ file' = m
  BY <1>0 DEF UrlsInv
<1>1. ASSUME NEW from \in {m, Cleared}, NEW list \in Tiers, NEW step,
             SetAnnounces(from, list, step)
      PROVE  m' \in Metafile /\ (Known => All(m'.trackers) \subseteq Urls) /\ file' = file
  <2>1. /\ file' = file /\ from \in Metafile /\ from.trackers \in {m.trackers, <<>>}
        /\ m' = m \/ m' = SetTrackers(from, list, Known)
    BY <1>1, SetAnnouncesMakes
  <2>2. Known => All(from.trackers) \subseteq Urls
    BY <1>0, <2>1, NoTiers
  <2>3. SetTrackers(from, list, Known) \in Metafile
    BY <1>0, <2>1, SetTrackersMakes
  <2>4. Known => All(SetTrackers(from, list, Known).trackers) \subseteq Urls
    BY <2>1, <2>2, UrlsKept
  <2> QED
    BY <1>0, <2>1, <2>3, <2>4
<1>2. CASE m' = m \/ m' = file
  BY <1>0, <1>2 DEF Next, Run, Begin, Postprocess, LoadMetafile, StartGroups, FailGroup,
     ReplaceByGroup, AppendGroup, PrependGroup, EndGroups, UpdateAnnounces, UpdateSeeds,
     SetFields, UpdateRelated, Save, NextGroup, SetAnnounces, Fail, Goto
<1>3. CASE StartGroups
  <2>1. file' = file /\ m' \in {m, Cleared}
    BY <1>3 DEF StartGroups, Fail, Goto
  <2> QED
    BY <1>0, <2>1, ClearedMakes, NoTiers
<1>4. CASE ReplaceByGroup
  <2>1. m' = AddGroup(m, Head(todo)) /\ Head(todo) \in Groups /\ file' = file
    BY <1>4, GoodGroup DEF ReplaceByGroup, NextGroup, Goto
  <2> QED
    BY <1>0, <2>1, GroupMakes, UrlsKept
<1>5. CASE AppendGroup
  <2>1. /\ m' = SetTrackers(m, announces \o GroupTiers, Known) /\ file' = file
        /\ announces \o GroupTiers \in Tiers
    BY <1>0, <1>5, GoodGroup, AllOfLists DEF AppendGroup, NextGroup, Goto
  <2> QED
    BY <1>0, <2>1, SetTrackersMakes, UrlsKept
<1>6. CASE EndGroups
  <2>1. CASE opts.mode = "replace"
    <3>1. m' = SetFlag(m, flags) /\ file' = file
      BY <1>6, <2>1 DEF EndGroups, Goto
    <3> QED
      BY <1>0, <3>1, GroupMakes
  <2>2. CASE opts.mode = "append"
    BY <1>2, <1>6, <2>2 DEF EndGroups, Goto
  <2>3. CASE opts.mode = "prepend"
    <3>1. SetAnnounces(Cleared, announces \o m.trackers, "announces")
      BY <1>6, <2>3 DEF EndGroups
    <3>2. announces \o m.trackers \in Tiers
      BY <1>0, MetafileTags, AllOfLists
    <3> QED
      BY <1>1, <3>1, <3>2
  <2> QED
    BY <1>6, <2>1, <2>2, <2>3 DEF EndGroups
<1>7. CASE UpdateAnnounces
  <2>1. CASE Has("announce")
    BY <1>1, <1>7, <2>1, AnnouncesCall
  <2>2. CASE ~Has("announce")
    BY <1>2, <1>7, <2>2 DEF UpdateAnnounces
  <2> QED
    BY <2>1, <2>2
<1>8. CASE UpdateSeeds \/ SetFields \/ UpdateRelated
  <2>1. file' = file
    BY <1>8 DEF UpdateSeeds, SetFields, UpdateRelated, Goto
  <2> QED
    BY <1>0, <1>8, <2>1, SeedsMakes, FieldsMakes, RelatedMakes
<1>9. CASE (\E c \in Commands : Begin(c)) \/ Postprocess \/ LoadMetafile \/ FailGroup
              \/ PrependGroup \/ Save
  <2>1. m' = m \/ m' = file
    BY <1>9 DEF Begin, Postprocess, LoadMetafile, FailGroup, PrependGroup, Save, Fail
  <2> QED
    BY <1>2, <2>1
<1> QED
  BY <1>3, <1>4, <1>5, <1>6, <1>7, <1>8, <1>9 DEF Next, Run

\* Types, options and URLs are kept by every step.
LEMMA TypeInvariant == Spec => []TypeInv
<1>1. TypeInv /\ [Next]_vars => TypeInv'
  <2>1. TypeInv /\ Next => TypeInv'
    BY GivenStep, OutcomeStep, LocalStep, MetafileStep DEF TypeInv, TypeOK
  <2>2. TypeInv /\ UNCHANGED vars => TypeInv'
    <3> SUFFICES ASSUME TypeInv, UNCHANGED vars PROVE TypeInv'
      OBVIOUS
    <3>1. UNCHANGED <<file, loaded, cmd, runs, again, opts, m, pc, todo, announces, flags,
                      outcome>>
      BY DEF vars, given, local
    <3> QED
      BY <3>1, Steady DEF TypeInv, TypeOK, OptionsInv, UrlsInv
  <2> QED
    BY <2>1, <2>2
<1> QED
  BY InitType, <1>1, PTL DEF Spec

\* Every variable keeps its type, through any number of commands that succeed or fail.
THEOREM TypeCorrect == Spec => []TypeOK
<1>1. TypeInv => TypeOK
  BY DEF TypeInv
<1> QED
  BY <1>1, TypeInvariant, PTL

-----------------------------------------------------------------------------
(* Trackers of groups. *)

\* What depends on the options and on the configuration alone.
LEMMA SteadyOptions ==
    ASSUME UNCHANGED <<loaded, opts>>
    PROVE  /\ (Known' <=> Known)
           /\ \A o : Has(o)' <=> Has(o)
           /\ \A t : Meant(t)' = Meant(t)
           /\ \A k : GroupUrls(k)' = GroupUrls(k) /\ GroupPrivate(k)' = GroupPrivate(k)
           /\ AskedByGroups' = AskedByGroups /\ Asked' = Asked
<1>1. (Known' <=> Known) /\ \A o : Has(o)' <=> Has(o)
  BY DEF Known, Has
<1>2. \A t : Meant(t)' = Meant(t)
  BY DEF Meant, Known
<1>3. \A k : GroupUrls(k)' = GroupUrls(k) /\ GroupPrivate(k)' = GroupPrivate(k)
  BY DEF GroupUrls, GroupPrivate, Meant, Known
<1>4. AskedByGroups' = AskedByGroups
  BY <1>1, <1>3 DEF AskedByGroups, GroupUrls, Meant, Known, Has
<1>5. Asked' = Asked
  BY DEF Asked, Has, Meant, Known
<1> QED
  BY <1>1, <1>2, <1>3, <1>4, <1>5

\* Where the trackers are is about the options, the metafile on disk and the tiers.
LEMMA SteadyPlaces ==
    ASSUME opts' = opts, loaded' = loaded, file' = file
    PROVE  /\ Appended(m.trackers)' <=> Appended(m'.trackers)
           /\ Prefixed(m.trackers)' <=> Prefixed(m'.trackers)
<1>1. (Known' <=> Known) /\ \A o : Has(o)' <=> Has(o)
  BY SteadyOptions
<1>2. (KnownAnnounce' <=> KnownAnnounce) /\ Meant(opts.announces)' = Meant(opts.announces)
  BY <1>1 DEF KnownAnnounce, Meant
<1>3. \A i : Merged(i)' = Merged(i)
  BY <1>1, <1>2 DEF Merged
<1> QED
  BY <1>1, <1>2, <1>3 DEF Appended, Prefixed, EndsWith, StartsWith

\* The trackers two lists stand for.
LEMMA ReadLists ==
    ASSUME NEW s \in Tiers, NEW t \in Tiers, NEW known \in BOOLEAN
    PROVE  /\ s \o t \in Tiers /\ Read(s, known) \in Tiers /\ Read(t, known) \in Tiers
           /\ Read(s \o t, known) = Read(s, known) \o Read(t, known)
           /\ All(Read(s \o t, known)) = All(Read(s, known)) \union All(Read(t, known))
<1>1. s \o t \in Tiers /\ Read(s, known) \in Tiers /\ Read(t, known) \in Tiers
  BY AllOfLists, ReadType
<1>2. Read(s \o t, known) = Read(s, known) \o Read(t, known)
  BY ResolveLists DEF Read
<1>3. All(Read(s, known) \o Read(t, known)) = All(Read(s, known)) \union All(Read(t, known))
  BY <1>1, AllOfLists
<1> QED
  BY <1>1, <1>2, <1>3

\* The announces and the groups asked for.
LEMMA AskedIs ==
    ASSUME TypeInv
    PROVE  Asked = (IF Has("announce") THEN All(Read(opts.announces, Known)) ELSE {})
                       \union AskedByGroups
<1>1. opts.groups \in Seq(GroupNames) /\ Known \in BOOLEAN
  BY DEF TypeInv, TypeOK, Options, Known
<1>2. \A t : Meant(t) = Read(t, Known)
  BY DEF Meant, Read
<1>3. All(Read(<<>>, Known)) = {}
  <2>1. Read(<<>>, Known) = <<>>
    BY <1>1, NoTiers, ReadType
  <2> QED
    BY <2>1, NoTiers
<1> DEFINE U(g) == All(Meant(Singletons(Announces[g])))
<1>4. UNION {U(g) : g \in Range(opts.groups)} = GroupUrls(Len(opts.groups))
  <2>1. GroupUrls(Len(opts.groups)) = UNION {U(opts.groups[i]) : i \in 1 .. Len(opts.groups)}
    BY DEF GroupUrls
  <2>2. Range(opts.groups) = {opts.groups[i] : i \in 1 .. Len(opts.groups)}
    BY <1>1 DEF Range
  <2> HIDE DEF U
  <2> QED
    BY <2>1, <2>2
<1>5. Asked = All(Meant(IF Has("announce") THEN opts.announces ELSE <<>>))
                 \union (IF Has("announce-group")
                         THEN UNION {U(g) : g \in Range(opts.groups)} ELSE {})
  BY DEF Asked
<1> HIDE DEF U
<1> QED
  BY <1>2, <1>3, <1>4, <1>5 DEF AskedByGroups

\* A turn of the loop takes the next group.
LEMMA GroupTurn ==
    ASSUME TypeInv, NEW k \in 0 .. Len(opts.groups), Left(k), todo # <<>>, ~BadGroup,
           todo' = Tail(todo), opts' = opts, loaded' = loaded
    PROVE  /\ k \in Nat /\ k + 1 \in 0 .. Len(opts.groups)
           /\ Head(todo) = opts.groups[k + 1]
           /\ Left(k + 1)'
           /\ GroupUrls(k + 1) = GroupUrls(k) \union All(Read(GroupTiers, Known))
           /\ GroupPrivate(k + 1) = GroupPrivate(k) \union PrivateIn(Head(todo))
<1> DEFINE G == opts.groups
<1>1. G \in Seq(GroupNames) /\ todo \in Seq(GroupNames)
  BY DEF TypeInv, TypeOK, Options
<1>2. /\ Len(todo) = Len(G) - k /\ \A i \in DOMAIN todo : todo[i] = G[k + i]
      /\ \A i \in 1 .. k : G[i] \in Groups
  BY DEF Left
<1>3. /\ Len(todo) \in Nat /\ Len(todo) > 0 /\ Len(G) \in Nat /\ k \in Nat
      /\ Head(todo) = todo[1] /\ 1 \in DOMAIN todo /\ Len(Tail(todo)) = Len(todo) - 1
      /\ \A i \in DOMAIN Tail(todo) :
            i \in Nat /\ Tail(todo)[i] = todo[i + 1] /\ i + 1 \in DOMAIN todo
  BY <1>1
<1>4. \A i \in DOMAIN Tail(todo) : k + (i + 1) = (k + 1) + i
  BY <1>3
<1> HIDE DEF G
<1>5. /\ k + 1 \in 0 .. Len(G) /\ Len(Tail(todo)) = Len(G) - (k + 1)
      /\ Head(todo) = G[k + 1]
      /\ \A i \in DOMAIN Tail(todo) : Tail(todo)[i] = G[(k + 1) + i]
  BY <1>2, <1>3, <1>4
<1>6. \A i \in 1 .. (k + 1) : G[i] \in Groups
  <2>1. \A i \in 1 .. (k + 1) : i \in 1 .. k \/ i = k + 1
    BY <1>3
  <2>2. Head(todo) \in Groups
    BY GoodGroup
  <2> QED
    BY <1>2, <1>5, <2>1, <2>2
<1>7. Left(k + 1)'
  BY <1>5, <1>6 DEF Left, G
<1>8. 1 .. (k + 1) = (1 .. k) \union {k + 1}
  BY <1>3
<1> DEFINE U(i) == All(Meant(Singletons(Announces[G[i]])))
<1>9. GroupUrls(k + 1) = GroupUrls(k) \union U(k + 1)
  <2>1. \A j : GroupUrls(j) = UNION {U(i) : i \in 1 .. j}
    BY DEF GroupUrls, G
  <2> HIDE DEF U
  <2> QED
    BY <1>8, <2>1
<1>10. U(k + 1) = All(Read(GroupTiers, Known))
  BY <1>5 DEF Meant, Read, GroupTiers
<1>11. GroupPrivate(k + 1) = GroupPrivate(k) \union PrivateIn(Head(todo))
  <2>1. \A j : GroupPrivate(j) = UNION {PrivateIn(G[i]) : i \in 1 .. j}
    BY DEF GroupPrivate, G
  <2> QED
    BY <1>5, <1>8, <2>1
<1> QED
  BY <1>3, <1>5, <1>7, <1>9, <1>10, <1>11 DEF G

\* What the options and types say at a turn of the loop.
LEMMA TurnTypes ==
    ASSUME TypeInv, todo # <<>>, ~BadGroup
    PROVE  /\ m \in Metafile /\ m.trackers \in Tiers /\ file.trackers \in Tiers
           /\ announces \in Tiers /\ GroupTiers \in Tiers /\ Head(todo) \in Groups
           /\ Known \in BOOLEAN
BY MetafileTags, GoodGroup DEF TypeInv, TypeOK, Known

\* replace: the trackers of the group go behind those of the groups before it.
LEMMA ReplaceTurn ==
    ASSUME TypeInv, Known, NEW k \in 0 .. Len(opts.groups), Left(k), Done(k), ReplaceByGroup
    PROVE  k + 1 \in 0 .. Len(opts.groups) /\ Left(k + 1)' /\ Done(k + 1)'
<1>0. /\ opts.mode = "replace" /\ todo # <<>> /\ ~BadGroup /\ todo' = Tail(todo)
      /\ opts' = opts /\ loaded' = loaded /\ m' = AddGroup(m, Head(todo))
      /\ flags' = flags \union PrivateIn(Head(todo))
  BY DEF ReplaceByGroup, NextGroup, Goto, given
<1> DEFINE g == Head(todo)
           n == WithGroup(m.trackers, g)
<1>1. m'.trackers = n
  BY <1>0, TurnTypes, GroupMakes
<1>2. /\ All(n) = All(m.trackers) \union {Resolve(a) : a \in Range(Announces[g])}
      /\ \A i \in DOMAIN m.trackers : i \in DOMAIN n /\ n[i] = m.trackers[i]
      /\ \A i \in DOMAIN n : i \in DOMAIN m.trackers \/ \E u \in Urls : n[i] = {u}
  BY <1>0, TurnTypes, WithGroupAre
<1>3. All(Read(GroupTiers, Known)) = {Resolve(a) : a \in Range(Announces[g])}
  <2>1. All(ResolveAll(GroupTiers)) = {Resolve(a) : a \in All(GroupTiers)}
    BY <1>0, TurnTypes, ResolveType
  <2> QED
    BY <1>0, <2>1, GoodGroup DEF Read
<1>4. /\ k + 1 \in 0 .. Len(opts.groups) /\ Left(k + 1)'
      /\ GroupUrls(k + 1) = GroupUrls(k) \union All(Read(GroupTiers, Known))
      /\ GroupPrivate(k + 1) = GroupPrivate(k) \union PrivateIn(g)
  BY <1>0, GroupTurn
<1>5. All(m.trackers) = GroupUrls(k) /\ OwnTiers(m.trackers) /\ flags = GroupPrivate(k)
  BY <1>0 DEF Done
<1> HIDE DEF n
<1>6. All(n) = GroupUrls(k + 1) /\ OwnTiers(n) /\ flags' = GroupPrivate(k + 1)
  BY <1>0, <1>2, <1>3, <1>4, <1>5 DEF OwnTiers
<1>7. GroupUrls(k + 1)' = GroupUrls(k + 1) /\ GroupPrivate(k + 1)' = GroupPrivate(k + 1)
  BY <1>0, SteadyOptions
<1>8. All(m.trackers)' = All(n) /\ OwnTiers(m.trackers)'
  BY <1>1, <1>6 DEF OwnTiers
<1>9. Done(k + 1)'
  BY <1>0, <1>6, <1>7, <1>8 DEF Done
<1> QED
  BY <1>4, <1>9

\* append: set_trackers gets the trackers of the metafile and of all groups so far, and
\* adds to the tiers the metafile had nothing but what they have.
LEMMA AppendTurn ==
    ASSUME TypeInv, NEW k \in 0 .. Len(opts.groups), Left(k), Done(k), AppendGroup
    PROVE  k + 1 \in 0 .. Len(opts.groups) /\ Left(k + 1)' /\ Done(k + 1)'
<1>0. /\ opts.mode = "append" /\ todo # <<>> /\ ~BadGroup /\ todo' = Tail(todo)
      /\ opts' = opts /\ loaded' = loaded /\ file' = file
      /\ announces' = announces \o GroupTiers
      /\ m' = SetTrackers(m, announces \o GroupTiers, Known)
  BY DEF AppendGroup, NextGroup, Goto, given
<1> DEFINE F == file.trackers
           l == announces \o GroupTiers
           ts == m.trackers
           n == NewTrackers(ts, l, Known)
<1>1. /\ m.trackers \in Tiers /\ F \in Tiers /\ announces \in Tiers /\ GroupTiers \in Tiers
      /\ m \in Metafile /\ Known \in BOOLEAN
  BY <1>0, TurnTypes
<1>2. /\ l \in Tiers /\ Read(announces, Known) \in Tiers
      /\ All(Read(l, Known)) = All(Read(announces, Known)) \union All(Read(GroupTiers, Known))
  BY <1>1, ReadLists
<1>3. /\ k + 1 \in 0 .. Len(opts.groups) /\ Left(k + 1)'
      /\ GroupUrls(k + 1) = GroupUrls(k) \union All(Read(GroupTiers, Known))
  BY <1>0, GroupTurn
<1>4. /\ All(m.trackers) = All(F) \union GroupUrls(k)
      /\ StartsWith(m.trackers, F) /\ StartsWith(announces, F)
      /\ All(Read(announces, Known)) = All(F) \union GroupUrls(k)
  BY <1>0 DEF Done, Meant, Read
<1>5. m'.trackers = n
  BY <1>0, <1>1, <1>2, SetTrackersMakes
<1>6. StartsWith(l, F)
  <2>1. ASSUME NEW i \in DOMAIN F PROVE i \in DOMAIN l /\ l[i] = F[i]
    <3>1. i \in DOMAIN announces /\ announces[i] = F[i]
      BY <1>4, <2>1 DEF StartsWith
    <3>2. i \in DOMAIN l /\ l[i] = announces[i]
      BY <1>1, <3>1 DEF Tiers
    <3> QED
      BY <3>1, <3>2
  <2> QED
    BY <2>1 DEF StartsWith
<1> HIDE DEF l
<1>7. /\ n \in Tiers /\ All(n) = All(ts) \union All(Read(l, Known))
      /\ \A i \in DOMAIN ts :
            /\ i \in DOMAIN n /\ ts[i] \subseteq n[i]
            /\ n[i] \subseteq ts[i] \union TierOf(Read(l, Known), i)
  <2>1. ts \in Tiers /\ l \in Tiers /\ Known \in BOOLEAN
    BY <1>1, <1>2
  <2> HIDE DEF ts
  <2> QED
    BY ONLY <2>1, NewTrackersAre
<1> HIDE DEF n
<1>8. \A i \in DOMAIN F : TierOf(Read(l, Known), i) = F[i]
  <2> TAKE i \in DOMAIN F
  <2>1. i \in DOMAIN l /\ l[i] = F[i]
    BY <1>6 DEF StartsWith
  <2>2. CASE Known
    <3>1. i \in DOMAIN ResolveAll(l) /\ ResolveAll(l)[i] = {Resolve(a) : a \in F[i]}
      <4>1. /\ DOMAIN ResolveAll(l) = DOMAIN l
            /\ \A j \in DOMAIN l : ResolveAll(l)[j] = {Resolve(a) : a \in l[j]}
        BY <1>2, ResolveType
      <4>2. i \in DOMAIN ResolveAll(l) /\ ResolveAll(l)[i] = {Resolve(a) : a \in l[i]}
        BY <2>1, <4>1
      <4> QED
        BY <2>1, <4>2
    <3>2. ResolveAll(F) = F /\ ResolveAll(F)[i] = {Resolve(a) : a \in F[i]}
      <4>1. All(F) \subseteq Urls
        BY <2>2 DEF TypeInv, UrlsInv
      <4> QED
        BY <1>1, <4>1, ResolveType
    <3> QED
      BY <2>2, <3>1, <3>2 DEF TierOf, Read
  <2>3. CASE ~Known
    BY <2>1, <2>3 DEF TierOf, Read
  <2> QED
    BY <2>2, <2>3
<1> HIDE DEF F
<1>9. StartsWith(n, F)
  <2>1. ASSUME NEW i \in DOMAIN F PROVE i \in DOMAIN n /\ n[i] = F[i]
    <3>1. i \in DOMAIN m.trackers /\ m.trackers[i] = F[i]
      BY <1>4, <2>1 DEF StartsWith
    <3> QED
      BY <1>7, <1>8, <3>1
  <2> QED
    BY <2>1 DEF StartsWith
<1>10. All(n) = All(F) \union GroupUrls(k + 1)
       /\ All(Read(l, Known)) = All(F) \union GroupUrls(k + 1)
  BY <1>2, <1>3, <1>4, <1>7
<1>11. GroupUrls(k + 1)' = GroupUrls(k + 1) /\ (Known' <=> Known)
  BY <1>0, SteadyOptions
<1>12. /\ All(m.trackers)' = All(n) /\ StartsWith(m.trackers, file.trackers)'
       /\ StartsWith(announces, file.trackers)' /\ All(file.trackers)' = All(F)
       /\ All(Meant(announces))' = All(Read(l, Known))
  BY <1>0, <1>5, <1>6, <1>9, <1>11 DEF StartsWith, Meant, Read, F, l
<1>13. Done(k + 1)'
  BY <1>0, <1>10, <1>11, <1>12 DEF Done
<1> QED
  BY <1>3, <1>13

\* prepend: the trackers of groups are gathered.
LEMMA PrependTurn ==
    ASSUME TypeInv, NEW k \in 0 .. Len(opts.groups), Left(k), Done(k), PrependGroup
    PROVE  k + 1 \in 0 .. Len(opts.groups) /\ Left(k + 1)' /\ Done(k + 1)'
<1>0. /\ opts.mode = "prepend" /\ todo # <<>> /\ ~BadGroup /\ todo' = Tail(todo)
      /\ opts' = opts /\ loaded' = loaded /\ file' = file /\ m' = m
      /\ announces' = announces \o GroupTiers
  BY DEF PrependGroup, NextGroup, Goto, given
<1> DEFINE l == announces \o GroupTiers
<1>1. announces \in Tiers /\ GroupTiers \in Tiers /\ Known \in BOOLEAN
  BY <1>0, TurnTypes
<1>2. All(Read(l, Known)) = All(Read(announces, Known)) \union All(Read(GroupTiers, Known))
  BY <1>1, ReadLists
<1>3. /\ k + 1 \in 0 .. Len(opts.groups) /\ Left(k + 1)'
      /\ GroupUrls(k + 1) = GroupUrls(k) \union All(Read(GroupTiers, Known))
  BY <1>0, GroupTurn
<1>4. m.trackers = file.trackers /\ All(Read(announces, Known)) = GroupUrls(k)
  BY <1>0 DEF Done, Meant, Read
<1>5. GroupUrls(k + 1)' = GroupUrls(k + 1) /\ (Known' <=> Known)
  BY <1>0, SteadyOptions
<1>6. All(Meant(announces))' = All(Read(l, Known))
  BY <1>0, <1>5 DEF Meant, Read
<1>7. Done(k + 1)'
  BY <1>0, <1>2, <1>3, <1>4, <1>5, <1>6 DEF Done
<1> QED
  BY <1>3, <1>7

\* A list ends with what has been put behind another one.
LEMMA EndsWithLists ==
    ASSUME NEW s \in Tiers, NEW t \in Tiers, NEW u \in Tiers, EndsWith(t, u)
    PROVE  EndsWith(s \o t, u)
<1>1. /\ Len(s) \in Nat /\ Len(t) \in Nat /\ Len(u) \in Nat /\ Len(s \o t) = Len(s) + Len(t)
      /\ DOMAIN u = 1 .. Len(u)
      /\ \A i \in 1 .. Len(t) : (s \o t)[Len(s) + i] = t[i]
  BY DEF Tiers
<1>2. Len(u) <= Len(t) /\ \A i \in DOMAIN u : t[Len(t) - Len(u) + i] = u[i]
  BY DEF EndsWith
<1>3. ASSUME NEW i \in DOMAIN u
      PROVE  (s \o t)[Len(s \o t) - Len(u) + i] = u[i]
  <2> DEFINE j == Len(t) - Len(u) + i
  <2>1. j \in 1 .. Len(t) /\ Len(s \o t) - Len(u) + i = Len(s) + j
    BY <1>1, <1>2
  <2>2. (s \o t)[Len(s) + j] = t[j]
    BY <1>1, <2>1
  <2> QED
    BY <1>2, <2>1, <2>2
<1> QED
  BY <1>1, <1>2, <1>3 DEF EndsWith

\* Tiers end and start with themselves.
LEMMA EndsWithSame ==
    ASSUME NEW t \in Tiers
    PROVE  EndsWith(t, t) /\ StartsWith(t, t)
<1>1. Len(t) \in Nat /\ DOMAIN t = 1 .. Len(t)
  BY DEF Tiers
<1>2. \A i \in DOMAIN t : Len(t) - Len(t) + i = i
  BY <1>1
<1> QED
  BY <1>1, <1>2 DEF EndsWith, StartsWith

\* set_trackers on a metafile whose trackers have been removed.
LEMMA ClearedSet ==
    ASSUME TypeInv, NEW t \in Tiers
    PROVE  SetTrackers(Cleared, t, Known).trackers = NewTrackers(<<>>, t, Known)
<1> DEFINE f == Cleared
<1>1. f \in Metafile /\ f.trackers = <<>>
  BY ClearedMakes DEF TypeInv, TypeOK
<1>2. Known \in BOOLEAN
  BY DEF Known
<1> HIDE DEF f
<1>3. SetTrackers(f, t, Known).trackers = NewTrackers(f.trackers, t, Known)
  BY <1>1, <1>2, SetTrackersMakes
<1> QED
  BY <1>1, <1>3 DEF f

\* prepend: set_trackers with other announces before the trackers there were puts what
\* they stand for before those trackers.
LEMMA Prepended ==
    ASSUME TypeInv, NEW s \in Tiers, NEW t \in Tiers, Known => All(t) \subseteq Urls
    PROVE  /\ s \o t \in Tiers /\ Read(s, Known) \in Tiers
           /\ NewTrackers(<<>>, s \o t, Known) = Read(s, Known) \o t
           /\ All(Read(s, Known) \o t) = All(Read(s, Known)) \union All(t)
           /\ EndsWith(Read(s, Known) \o t, t)
<1>1. Known \in BOOLEAN
  BY DEF Known
<1>2. /\ s \o t \in Tiers /\ Read(s, Known) \in Tiers
      /\ Read(s \o t, Known) = Read(s, Known) \o Read(t, Known)
  BY <1>1, ReadLists
<1>3. Read(t, Known) = t
  BY <1>1, ReadType
<1>4. NewTrackers(<<>>, s \o t, Known) = Read(s \o t, Known)
  <2> DEFINE l == s \o t
  <2>1. l \in Tiers
    BY <1>2
  <2> HIDE DEF l
  <2>2. NewTrackers(<<>>, l, Known) = Read(l, Known)
    BY <1>1, <2>1, NoTiers, NewTrackersAre
  <2> QED
    BY <2>2 DEF l
<1> QED
  BY <1>2, <1>3, <1>4, AllOfLists, EndsWithLists, EndsWithSame

\* Before the first group.
LEMMA StartLoop ==
    ASSUME TypeInv, GroupsInv, StartGroups, pc' = "group"
    PROVE  GroupsInv'
<1>0. /\ pc = "groups" /\ opts' = opts /\ loaded' = loaded /\ file' = file
      /\ todo' = opts.groups /\ flags' = {}
      /\ announces' = IF opts.mode = "append" THEN m.trackers ELSE <<>>
      /\ m' = IF opts.mode = "replace" THEN Cleared ELSE m
      /\ opts.mode = "replace" => Known
  BY DEF StartGroups, Fail, Goto, given
<1>1. m = file /\ Has("announce-group")
  BY <1>0 DEF GroupsInv
<1>2. /\ opts.groups \in Seq(GroupNames) /\ m \in Metafile /\ m.trackers \in Tiers
      /\ Known \in BOOLEAN
  BY MetafileTags DEF TypeInv, TypeOK, Options, Known
<1>3. (Known' <=> Known) /\ (Has("announce-group")' <=> Has("announce-group"))
  BY <1>0, SteadyOptions
<1>4. GroupUrls(0) = {} /\ GroupPrivate(0) = {}
  BY DEF GroupUrls, GroupPrivate
<1>5. GroupUrls(0)' = {} /\ GroupPrivate(0)' = {}
  BY <1>0, <1>4, SteadyOptions
<1>6. Left(0)' /\ 0 \in 0 .. Len(opts.groups)
  <2>1. /\ Len(opts.groups) - 0 = Len(opts.groups) /\ 0 \in 0 .. Len(opts.groups)
        /\ \A i \in DOMAIN opts.groups : 0 + i = i
    BY <1>2
  <2> QED
    BY <1>0, <2>1 DEF Left
<1>7. opts.mode = "replace" => m'.trackers = <<>>
  BY <1>0, <1>2, ClearedMakes
<1>8. Read(m.trackers, Known) = m.trackers /\ Read(<<>>, Known) = <<>>
  BY <1>2, NoTiers, ReadType DEF TypeInv, UrlsInv
<1>9. Done(0)'
  <2>1. CASE opts.mode = "replace"
    <3>1. All(m.trackers)' = {} /\ OwnTiers(m.trackers)'
      BY <1>7, <2>1, NoTiers DEF OwnTiers
    <3> QED
      BY <1>0, <1>5, <2>1, <3>1 DEF Done
  <2>2. CASE opts.mode = "append"
    <3>1. m' = file /\ announces' = file.trackers
      BY <1>0, <1>1, <2>2
    <3>2. StartsWith(m.trackers, file.trackers)' /\ StartsWith(announces, file.trackers)'
      BY <1>0, <1>1, <1>2, <3>1, EndsWithSame DEF StartsWith
    <3>3. All(m.trackers)' = All(file.trackers) /\ All(file.trackers)' = All(file.trackers)
      BY <1>0, <3>1
    <3>4. All(Meant(announces))' = All(file.trackers)
      BY <1>1, <1>3, <1>8, <3>1 DEF Meant, Read
    <3> QED
      BY <1>0, <1>5, <2>2, <3>2, <3>3, <3>4 DEF Done
  <2>3. CASE opts.mode = "prepend"
    <3>1. m' = file /\ announces' = <<>>
      BY <1>0, <1>1, <2>3
    <3>2. All(Meant(announces))' = {}
      BY <1>3, <1>8, <3>1, NoTiers DEF Meant, Read
    <3> QED
      BY <1>0, <1>5, <2>3, <3>1, <3>2 DEF Done
  <2> QED
    BY <2>1, <2>2, <2>3 DEF TypeInv, TypeOK, Options
<1> QED
  BY <1>0, <1>1, <1>3, <1>6, <1>9 DEF GroupsInv

\* One turn of the loop, and the steps that do not get into it.
LEMMA GroupsStep ==
    ASSUME TypeInv, GroupsInv, Next
    PROVE  GroupsInv'
<1>1. CASE pc' = "group"
  <2>1. CASE StartGroups
    BY <1>1, <2>1, StartLoop
  <2>2. CASE ReplaceByGroup \/ AppendGroup \/ PrependGroup
    <3>1. /\ pc = "group" /\ opts' = opts /\ loaded' = loaded
      BY <2>2 DEF ReplaceByGroup, AppendGroup, PrependGroup, NextGroup, Goto, given
    <3>2. /\ Has("announce-group") /\ (opts.mode = "replace" => Known)
          /\ \E k \in 0 .. Len(opts.groups) : Left(k) /\ Done(k)
      BY <3>1 DEF GroupsInv
    <3>3. PICK k \in 0 .. Len(opts.groups) : Left(k) /\ Done(k)
      BY <3>2
    <3>4. ReplaceByGroup => Known
      BY <3>2 DEF ReplaceByGroup, NextGroup
    <3>5. k + 1 \in 0 .. Len(opts.groups) /\ Left(k + 1)' /\ Done(k + 1)'
      BY <2>2, <3>3, <3>4, ReplaceTurn, AppendTurn, PrependTurn
    <3>6. (Known' <=> Known) /\ (Has("announce-group")' <=> Has("announce-group"))
      BY <3>1, SteadyOptions
    <3> QED
      BY <1>1, <3>1, <3>2, <3>5, <3>6 DEF GroupsInv
  <2> QED
    BY <1>1, <2>1, <2>2 DEF Next, Run, Begin, Postprocess, LoadMetafile, FailGroup,
       EndGroups, UpdateAnnounces, UpdateSeeds, SetFields, UpdateRelated, Save,
       SetAnnounces, Fail, Goto
<1>2. CASE pc' = "groups"
  <2>1. LoadMetafile
    BY <1>2 DEF Next, Run, Begin, Postprocess, LoadMetafile, StartGroups, FailGroup,
       ReplaceByGroup, AppendGroup, PrependGroup, EndGroups, UpdateAnnounces, UpdateSeeds,
       SetFields, UpdateRelated, Save, NextGroup, SetAnnounces, Fail, Goto
  <2>2. m' = file' /\ Has("announce-group") /\ opts' = opts /\ loaded' = loaded
    BY <1>2, <2>1 DEF LoadMetafile, Goto, given
  <2> QED
    BY <1>2, <2>2, SteadyOptions DEF GroupsInv
<1>3. CASE pc' \notin {"group", "groups"}
  BY <1>3 DEF GroupsInv
<1> QED
  BY <1>1, <1>2, <1>3

\* What set_tracker_group and set_trackers leave at the end of the loop.
LEMMA EndLoop ==
    ASSUME TypeInv, GroupsInv, EndGroups, pc' = "announces"
    PROVE  GroupsDoneInv'
<1>0. /\ pc = "group" /\ todo = <<>> /\ opts' = opts /\ loaded' = loaded /\ file' = file
  BY DEF EndGroups, SetAnnounces, Fail, Goto, given
<1>1. /\ m \in Metafile /\ m.trackers \in Tiers /\ announces \in Tiers /\ Known \in BOOLEAN
      /\ file.trackers \in Tiers /\ opts.groups \in Seq(GroupNames)
      /\ opts.mode \in {"replace", "append", "prepend"}
      /\ Known => All(file.trackers) \subseteq Urls /\ All(m.trackers) \subseteq Urls
  BY MetafileTags DEF TypeInv, TypeOK, Options, Known, UrlsInv
<1>2. Has("announce-group") /\ \E k \in 0 .. Len(opts.groups) : Left(k) /\ Done(k)
  BY <1>0 DEF GroupsInv
<1>3. PICK k \in 0 .. Len(opts.groups) : Left(k) /\ Done(k)
  BY <1>2
<1>4. k = Len(opts.groups)
  <2>1. Len(todo) = 0 /\ Len(opts.groups) \in Nat
    BY <1>0, <1>1
  <2> QED
    BY <1>3, <2>1 DEF Left
<1>5. GroupUrls(k) = AskedByGroups /\ AskedByGroups' = AskedByGroups
      /\ (Has("announce-group")' <=> Has("announce-group"))
  BY <1>0, <1>2, <1>4, SteadyOptions DEF AskedByGroups
<1>6. CASE opts.mode = "replace"
  <2>1. m'.trackers = m.trackers
    BY <1>1, <1>6, GroupMakes DEF EndGroups
  <2>2. All(m.trackers) = AskedByGroups /\ OwnTiers(m.trackers)
    BY <1>3, <1>5, <1>6 DEF Done
  <2>3. All(m.trackers)' = AskedByGroups /\ OwnTiers(m.trackers)'
    BY <2>1, <2>2 DEF OwnTiers
  <2> QED
    BY <1>0, <1>2, <1>5, <1>6, <2>3 DEF GroupsDoneInv
<1>7. CASE opts.mode = "append"
  <2>1. m' = m
    BY <1>7 DEF EndGroups
  <2>2. All(m.trackers) = All(file.trackers) \union AskedByGroups
        /\ StartsWith(m.trackers, file.trackers)
    BY <1>3, <1>5, <1>7 DEF Done
  <2>3. All(m.trackers)' = All(m.trackers) /\ All(file.trackers)' = All(file.trackers)
        /\ StartsWith(m.trackers, file.trackers)'
    BY <1>0, <2>1, <2>2 DEF StartsWith
  <2> QED
    BY <1>0, <1>5, <1>7, <2>2, <2>3 DEF GroupsDoneInv
<1>8. CASE opts.mode = "prepend"
  <2> DEFINE F == file.trackers
  <2>1. m.trackers = F /\ All(Read(announces, Known)) = AskedByGroups
    BY <1>3, <1>5, <1>8 DEF Done, Meant, Read
  <2>2. SetAnnounces(Cleared, announces \o F, "announces")
    BY <1>8, <2>1 DEF EndGroups
  <2>3. m' = SetTrackers(Cleared, announces \o F, Known)
    BY <2>2 DEF SetAnnounces, Fail
  <2>4. /\ announces \o F \in Tiers /\ Read(announces, Known) \in Tiers
        /\ NewTrackers(<<>>, announces \o F, Known) = Read(announces, Known) \o F
        /\ All(Read(announces, Known) \o F) = All(Read(announces, Known)) \union All(F)
        /\ EndsWith(Read(announces, Known) \o F, F)
    BY <1>1, Prepended
  <2>5. m'.trackers = Read(announces, Known) \o F
    BY <2>3, <2>4, ClearedSet
  <2>6. All(m.trackers)' = All(F) \union AskedByGroups /\ All(file.trackers)' = All(F)
    BY <1>0, <2>1, <2>4, <2>5
  <2>7. EndsWith(m.trackers, file.trackers)'
    BY <1>0, <2>4, <2>5 DEF EndsWith
  <2> QED
    BY <1>0, <1>5, <1>8, <2>6, <2>7 DEF GroupsDoneInv
<1> QED
  BY <1>1, <1>6, <1>7, <1>8

\* The trackers before the update of the announces.
LEMMA GroupsDoneStep ==
    ASSUME TypeInv, GroupsInv, Next
    PROVE  GroupsDoneInv'
<1>1. CASE EndGroups /\ pc' = "announces"
  BY <1>1, EndLoop
<1>2. CASE LoadMetafile /\ pc' = "announces"
  <2>1. /\ m' = file /\ file' = file /\ ~Has("announce-group") /\ opts' = opts
        /\ loaded' = loaded
    BY <1>2 DEF LoadMetafile, Goto, given
  <2>2. /\ ~Has("announce-group")' /\ AskedByGroups = {} /\ AskedByGroups' = {}
    BY <2>1, SteadyOptions DEF AskedByGroups
  <2>3. file.trackers \in Tiers
    BY MetafileTags DEF TypeInv, TypeOK
  <2>4. EndsWith(m.trackers, file.trackers)' /\ StartsWith(m.trackers, file.trackers)'
    BY <2>1, <2>3, EndsWithSame DEF EndsWith, StartsWith
  <2>5. All(m.trackers)' = All(file.trackers)'
    BY <2>1
  <2> QED
    BY <2>1, <2>2, <2>4, <2>5 DEF GroupsDoneInv
<1>3. CASE pc' # "announces"
  BY <1>3 DEF GroupsDoneInv
<1>4. pc' = "announces" => EndGroups \/ LoadMetafile
  BY DEF Next, Run, Begin, Postprocess, LoadMetafile, StartGroups, FailGroup,
     ReplaceByGroup, AppendGroup, PrependGroup, EndGroups, UpdateAnnounces, UpdateSeeds,
     SetFields, UpdateRelated, Save, NextGroup, SetAnnounces, Fail, Goto
<1> QED
  BY <1>1, <1>2, <1>3, <1>4

-----------------------------------------------------------------------------
(* Announces. *)

\* update_announces, when it does not throw.
LEMMA AnnouncesMakes ==
    ASSUME TypeInv, UpdateAnnounces, Has("announce"), pc' = "seeds"
    PROVE  /\ opts' = opts /\ loaded' = loaded /\ file' = file /\ cmd' = cmd
           /\ again' = again /\ m' \in Metafile /\ SameFields(m', m)
           /\ opts.announces \in Tiers
           /\ opts.mode = "replace" => m'.trackers = Read(opts.announces, Known)
           /\ opts.mode = "append" =>
                 m'.trackers = NewTrackers(m.trackers, opts.announces, Known)
           /\ opts.mode = "prepend" =>
                 m'.trackers = Read(opts.announces, Known) \o m.trackers
           /\ opts.mode # "prepend" =>
                 /\ m'.private = NewFlag(m.private, opts.announces, Known)
                 /\ m'.source = NewSource(m.source, opts.announces, Known)
<1>1. PICK from \in {m, Cleared}, list \in Tiers :
         /\ SetAnnounces(from, list, "seeds")
         /\ opts.mode = "replace" => from = Cleared /\ list = opts.announces
         /\ opts.mode = "append" => from = m /\ list = opts.announces
         /\ opts.mode = "prepend" => from = Cleared /\ list = opts.announces \o m.trackers
  BY AnnouncesCall
<1>2. /\ file' = file /\ opts' = opts /\ given' = given
      /\ from \in Metafile /\ from.private = m.private /\ from.source = m.source
      /\ SameFields(from, m) /\ from.trackers \in {m.trackers, <<>>}
      /\ m' = SetTrackers(from, list, Known)
  BY <1>1, SetAnnouncesMakes
<1>3. /\ opts.announces \in Tiers /\ m.trackers \in Tiers /\ Known \in BOOLEAN
      /\ Known => All(m.trackers) \subseteq Urls
  BY MetafileTags DEF TypeInv, TypeOK, Options, Known, UrlsInv
<1>4. /\ m' \in Metafile /\ m'.trackers = NewTrackers(from.trackers, list, Known)
      /\ m'.private = NewFlag(from.private, list, Known)
      /\ m'.source = NewSource(from.source, list, Known)
      /\ SameFields(m', from)
  <2>1. /\ SetTrackers(from, list, Known) \in Metafile
        /\ SetTrackers(from, list, Known).trackers = NewTrackers(from.trackers, list, Known)
        /\ SetTrackers(from, list, Known).private = NewFlag(from.private, list, Known)
        /\ SetTrackers(from, list, Known).source = NewSource(from.source, list, Known)
        /\ SameFields(SetTrackers(from, list, Known), from)
    BY <1>2, <1>3, SetTrackersMakes
  <2> QED
    BY <1>2, <2>1
<1>5. opts.mode = "replace" => m'.trackers = Read(opts.announces, Known)
  <2> SUFFICES ASSUME opts.mode = "replace" PROVE m'.trackers = Read(opts.announces, Known)
    OBVIOUS
  <2>1. m'.trackers = NewTrackers(<<>>, opts.announces, Known)
    BY <1>1, <1>2, <1>3, ClearedSet
  <2>2. NewTrackers(<<>>, opts.announces, Known) = Read(opts.announces, Known)
    BY <1>3, NoTiers, NewTrackersAre
  <2> QED
    BY <2>1, <2>2
<1>6. opts.mode = "prepend" => m'.trackers = Read(opts.announces, Known) \o m.trackers
  <2> SUFFICES ASSUME opts.mode = "prepend"
               PROVE  m'.trackers = Read(opts.announces, Known) \o m.trackers
    OBVIOUS
  <2>1. m'.trackers = NewTrackers(<<>>, opts.announces \o m.trackers, Known)
    BY <1>1, <1>2, ClearedSet
  <2>2. NewTrackers(<<>>, opts.announces \o m.trackers, Known) =
           Read(opts.announces, Known) \o m.trackers
    BY <1>3, Prepended
  <2> QED
    BY <2>1, <2>2
<1>7. opts.mode = "append" =>
         m'.trackers = NewTrackers(m.trackers, opts.announces, Known)
  BY <1>1, <1>4
<1>8. opts.mode # "prepend" =>
         /\ m'.private = NewFlag(m.private, opts.announces, Known)
         /\ m'.source = NewSource(m.source, opts.announces, Known)
  <2>1. opts.mode # "prepend" => list = opts.announces
    BY <1>1 DEF TypeInv, TypeOK, Options
  <2> QED
    BY <1>2, <1>4, <2>1
<1>9. SameFields(m', m)
  BY <1>2, <1>4 DEF SameFields
<1> QED
  BY <1>2, <1>3, <1>4, <1>5, <1>6, <1>7, <1>8, <1>9 DEF given

\* The announces asked for get where list-mode says, and the trackers there were stay
\* where it says.
LEMMA TrackersSet ==
    ASSUME TypeInv, GroupsDoneInv, UpdateAnnounces, pc' = "seeds"
    PROVE  TrackersInv'
<1>0. /\ pc = "announces" /\ opts' = opts /\ loaded' = loaded /\ file' = file
      /\ opts.mode \in {"replace", "append", "prepend"}
      /\ m.trackers \in Tiers /\ file.trackers \in Tiers /\ Known \in BOOLEAN
      /\ Known => All(m.trackers) \subseteq Urls
  <2>1. pc = "announces" /\ opts' = opts /\ given' = given /\ file' = file
    BY DEF UpdateAnnounces, SetAnnounces, Fail, Goto
  <2> QED
    BY <2>1, MetafileTags DEF TypeInv, TypeOK, Options, Known, UrlsInv, given
<1>1. /\ Asked = (IF Has("announce") THEN All(Read(opts.announces, Known)) ELSE {})
                    \union AskedByGroups
      /\ Asked' = Asked /\ \A o : Has(o)' <=> Has(o)
      /\ Meant(opts.announces)' = Meant(opts.announces)
      /\ Meant(opts.announces) = Read(opts.announces, Known)
      /\ All(file.trackers)' = All(file.trackers)
  <2>1. Meant(opts.announces)' = Meant(opts.announces)
    BY <1>0 DEF Meant, Known
  <2> QED
    BY <1>0, <2>1, AskedIs, SteadyOptions DEF Meant, Read
<1>2. CASE ~Has("announce")
  <2>1. m' = m
    BY <1>2 DEF UpdateAnnounces
  <2>2. Asked = AskedByGroups
    BY <1>1, <1>2
  <2>3. CASE opts.mode = "replace"
    <3>1. Replaced
      BY <1>0, <1>2, <2>2, <2>3 DEF GroupsDoneInv, Replaced, AskedByGroups
    <3>2. Replaced'
      BY <1>0, <1>1, <1>2, <2>1, <3>1 DEF Replaced, OwnTiers
    <3> QED
      BY <1>0, <2>3, <3>2 DEF TrackersInv
  <2>4. CASE opts.mode # "replace"
    <3>0. ~KnownAnnounce /\ \A i : Merged(i) = {}
      BY <1>2 DEF Merged, KnownAnnounce
    <3>1. Kept
      BY <1>0, <1>2, <2>2, <2>4, <3>0
         DEF GroupsDoneInv, Kept, Appended, Prefixed, StartsWith
    <3>2. Kept'
      <4>1. m'.trackers = m.trackers
        BY <2>1
      <4>2. (Appended(m.trackers)' <=> Appended(m.trackers))
            /\ (Prefixed(m.trackers)' <=> Prefixed(m.trackers))
        BY <1>0, <4>1, SteadyPlaces
      <4> QED
        BY <1>0, <1>1, <4>1, <4>2, <3>1 DEF Kept
    <3> QED
      BY <1>0, <2>4, <3>2 DEF TrackersInv
  <2> QED
    BY <2>3, <2>4
<1>3. CASE Has("announce")
  <2> DEFINE R == Read(opts.announces, Known)
  <2>1. /\ opts.announces \in Tiers
        /\ opts.mode = "replace" => m'.trackers = R
        /\ opts.mode = "append" =>
              m'.trackers = NewTrackers(m.trackers, opts.announces, Known)
        /\ opts.mode = "prepend" => m'.trackers = R \o m.trackers
    BY <1>3, AnnouncesMakes
  <2>2. R \in Tiers
    BY <1>0, <2>1, ReadType
  <2>3. CASE opts.mode = "replace"
    <3>1. Replaced'
      BY <1>1, <1>3, <2>1, <2>3 DEF Replaced
    <3> QED
      BY <1>0, <2>3, <3>1 DEF TrackersInv
  <2>4. CASE opts.mode = "append"
    <3> DEFINE ts == m.trackers
               l == opts.announces
               n == NewTrackers(ts, l, Known)
    <3>1. /\ All(n) = All(ts) \union All(R)
          /\ \A i \in DOMAIN ts : i \in DOMAIN n /\ ts[i] \subseteq n[i]
      <4>1. ts \in Tiers /\ l \in Tiers /\ Known \in BOOLEAN
        BY <1>0, <2>1
      <4> HIDE DEF ts, l
      <4>2. /\ All(n) = All(ts) \union All(Read(l, Known))
            /\ \A i \in DOMAIN ts : i \in DOMAIN n /\ ts[i] \subseteq n[i]
        BY ONLY <4>1, NewTrackersAre
      <4> QED
        BY <4>2 DEF l
    <3>2. /\ All(ts) = All(file.trackers) \union AskedByGroups
          /\ \A i \in DOMAIN file.trackers : i \in DOMAIN ts /\ ts[i] = file.trackers[i]
      BY <1>0, <2>4 DEF GroupsDoneInv, StartsWith
    <3>3. m'.trackers = n
      BY <2>1, <2>4
    <3>6. Appended(n)
      <4>1. ts \in Tiers /\ l \in Tiers /\ Known \in BOOLEAN /\ file.trackers \in Tiers
        BY <1>0, <2>1
      <4>2. KnownAnnounce <=> Known /\ Single(l) /\ Entry(Only(l)) # Nobody
        BY <1>3 DEF KnownAnnounce
      <4>3. Meant(l) = R
        BY <1>1
      <4> HIDE DEF ts, l, R
      <4>4. CASE KnownAnnounce
        <5> DEFINE x == {Resolve(Only(l))}
        <5>1. R = <<x>> /\ n = Append(ts, x)
          BY <4>1, <4>2, <4>4, NewTrackersPlaced DEF R, l
        <5> HIDE DEF x, n
        <5>2. \A i \in DOMAIN ts : n[i] = ts[i]
          BY <4>1, <5>1 DEF Tiers
        <5>3. EndsWith(n, R)
          BY <4>1, <5>1 DEF EndsWith, Tiers
        <5>4. \A i : Merged(i) = {}
          BY <4>4 DEF Merged
        <5> QED
          BY <3>2, <4>3, <5>2, <5>3, <5>4 DEF Appended, l
      <4>5. CASE ~KnownAnnounce
        <5>1. /\ \A i \in DOMAIN ts : n[i] = ts[i] \union TierOf(R, i)
              /\ \A i \in DOMAIN R : i \in DOMAIN n /\ R[i] \subseteq n[i]
          BY <4>1, <4>2, <4>5, NewTrackersPlaced DEF R, l
        <5> HIDE DEF n
        <5>2. \A i : Merged(i) = TierOf(R, i)
          BY <1>3, <4>3, <4>5 DEF Merged, l
        <5>3. \A i \in DOMAIN file.trackers : n[i] = file.trackers[i] \union Merged(i)
          BY <3>2, <5>1, <5>2
        <5>4. \A i \in DOMAIN R : Merged(i) \subseteq TierOf(n, i)
          BY <5>1, <5>2 DEF TierOf
        <5> QED
          BY <4>3, <4>5, <5>3, <5>4 DEF Appended, l
      <4> QED
        BY <4>4, <4>5
    <3> HIDE DEF n
    <3>4. All(n) = All(file.trackers) \union Asked
      BY <1>1, <1>3, <3>1, <3>2
    <3>5. Kept'
      <4>1. All(m.trackers)' = All(n)
        BY <3>3
      <4>2. Appended(m.trackers)' <=> Appended(n)
        BY <1>0, <3>3, SteadyPlaces
      <4> QED
        BY <1>0, <1>1, <2>4, <3>4, <3>6, <4>1, <4>2 DEF Kept
    <3> QED
      BY <1>0, <2>4, <3>5 DEF TrackersInv
  <2>5. CASE opts.mode = "prepend"
    <3> DEFINE ts == m.trackers
               F == file.trackers
               n == R \o ts
    <3>1. All(n) = All(R) \union All(ts)
      BY <1>0, <2>2, AllOfLists
    <3>2. All(ts) = All(F) \union AskedByGroups /\ EndsWith(ts, F)
      BY <1>0, <2>5 DEF GroupsDoneInv
    <3>3. EndsWith(n, F)
      BY <1>0, <2>2, <3>2, EndsWithLists
    <3>4. m'.trackers = n
      BY <2>1, <2>5
    <3>8. StartsWith(n, R)
      <4>1. R \in Tiers /\ ts \in Tiers
        BY <1>0, <2>2
      <4> HIDE DEF R, ts
      <4> QED
        BY <4>1 DEF StartsWith, Tiers
    <3> HIDE DEF n
    <3>9. Prefixed(n)
      BY <1>1, <3>3, <3>8 DEF Prefixed
    <3>5. All(n) = All(F) \union Asked
      BY <1>1, <1>3, <3>1, <3>2
    <3>6. All(m.trackers)' = All(n) /\ (Prefixed(m.trackers)' <=> Prefixed(n))
      BY <1>0, <3>4, SteadyPlaces
    <3>7. Kept'
      BY <1>0, <1>1, <2>5, <3>5, <3>6, <3>9 DEF Kept
    <3> QED
      BY <1>0, <2>5, <3>7 DEF TrackersInv
  <2> QED
    BY <1>0, <2>3, <2>4, <2>5
<1> QED
  BY <1>2, <1>3

\* The steps after the update of the announces.
AfterAnnounces == UpdateSeeds \/ SetFields \/ UpdateRelated

\* The steps after the announces leave the trackers.
LEMMA AfterMakes ==
    ASSUME TypeInv, AfterAnnounces
    PROVE  /\ pc \in {"seeds", "fields", "related"} /\ pc' \in {"fields", "related", "save"}
           /\ opts' = opts /\ loaded' = loaded /\ file' = file /\ cmd' = cmd
           /\ again' = again
           /\ m'.trackers = m.trackers
<1>1. m \in Metafile /\ opts \in Options
  BY DEF TypeInv, TypeOK
<1> QED
  BY <1>1, SeedsMakes, FieldsMakes, RelatedMakes
     DEF AfterAnnounces, UpdateSeeds, SetFields, UpdateRelated, Goto, given

\* No other step gets a command to the steps after the update of the announces.
LEMMA AfterOnly ==
    ASSUME TypeInv, Next
    PROVE  /\ pc' = "seeds" => UpdateAnnounces
           /\ pc' = "fields" => UpdateSeeds
           /\ pc' = "related" => SetFields
           /\ pc' = "save" => UpdateRelated
BY DEF Next, Run, Begin, Postprocess, LoadMetafile, StartGroups, FailGroup,
   ReplaceByGroup, AppendGroup, PrependGroup, EndGroups, UpdateAnnounces, UpdateSeeds,
   SetFields, UpdateRelated, Save, NextGroup, SetAnnounces, Fail, Goto

\* TrackersInv, by each step.
LEMMA TrackersStep ==
    ASSUME TypeInv, GroupsDoneInv, TrackersInv, Next
    PROVE  TrackersInv'
<1>1. CASE pc' = "seeds"
  BY <1>1, AfterOnly, TrackersSet
<1>2. CASE pc' \in {"fields", "related", "save"}
  <2>1. AfterAnnounces
    BY <1>2, AfterOnly DEF AfterAnnounces
  <2>2. /\ pc \in {"seeds", "fields", "related"} /\ opts' = opts /\ loaded' = loaded
        /\ file' = file /\ m'.trackers = m.trackers
    BY <2>1, AfterMakes
  <2>3. /\ Asked' = Asked /\ \A o : Has(o)' <=> Has(o)
    BY <2>2, SteadyOptions
  <2>4. Meant(opts.announces)' = Meant(opts.announces)
    BY <2>2 DEF Meant, Known
  <2>5. /\ All(m.trackers)' = All(m.trackers) /\ All(file.trackers)' = All(file.trackers)
        /\ EndsWith(m.trackers, file.trackers)' = EndsWith(m.trackers, file.trackers)
        /\ OwnTiers(m.trackers)' = OwnTiers(m.trackers)
    BY <2>2 DEF EndsWith, OwnTiers
  <2>6. IF opts.mode = "replace" THEN Replaced ELSE Kept
    BY <2>2 DEF TrackersInv
  <2>7. Replaced => Replaced'
    BY <2>2, <2>3, <2>4, <2>5 DEF Replaced
  <2>8. Kept => Kept'
    <3>1. (Appended(m.trackers)' <=> Appended(m.trackers))
          /\ (Prefixed(m.trackers)' <=> Prefixed(m.trackers))
      BY <2>2, SteadyPlaces
    <3> QED
      BY <2>2, <2>3, <2>5, <3>1 DEF Kept
  <2> QED
    BY <1>2, <2>2, <2>6, <2>7, <2>8 DEF TrackersInv
<1>3. CASE pc' \notin {"seeds", "fields", "related", "save"}
  BY <1>3 DEF TrackersInv
<1> QED
  BY <1>1, <1>2, <1>3

-----------------------------------------------------------------------------
(* The private flag and the source tag. *)

\* A tracker given by name as the only announce brings its flag and its tag.
LEMMA SingleName ==
    ASSUME NEW n \in Names
    PROVE  /\ \A p : NewFlag(p, <<{n}>>, TRUE) = Flag(n)
           /\ n \in PrivateNames => \A s : NewSource(s, <<{n}>>, TRUE) = n
<1> DEFINE l == <<{n}>>
<1>1. n \in Announce /\ Entry(n) = n /\ n # Nobody
  BY EntryType, DatabaseAssumption DEF Announce
<1>2. l \in Tiers /\ Len(l) = 1 /\ l[1] = {n}
  BY <1>1 DEF Tiers
<1> HIDE DEF l
<1>3. Single(l)
  BY <1>1, <1>2 DEF Single
<1>4. Only(l) = n
  <2>1. l = <<{Only(l)}>>
    BY <1>2, <1>3, SingleType
  <2>2. l[1] = {Only(l)}
    BY <2>1
  <2> QED
    BY <1>2, <2>2
<1>5. \A p : NewFlag(p, l, TRUE) = Flag(n)
  BY <1>1, <1>3, <1>4 DEF NewFlag
<1>6. n \in PrivateNames => \A s : NewSource(s, l, TRUE) = n
  BY <1>1, <1>3, <1>4 DEF NewSource
<1> QED
  BY <1>5, <1>6 DEF l

\* The flag and the tag on the command line are those of the merged options.
LEMMA AppliedIsGiven ==
    /\ "private" \in cmd.cli.has =>
          "private" \in Applied.has /\ Applied.private = cmd.cli.private
    /\ "source" \in cmd.cli.has =>
          "source" \in Applied.has /\ Applied.source = cmd.cli.source
<1>1. Merge(cmd).private = From(cmd, "private").private
      /\ Merge(cmd).source = From(cmd, "source").source
      /\ Merge(cmd).has = MergedNames(cmd)
  BY DEF Merge
<1>2. \A o \in {"private", "source"} : o \in cmd.cli.has => o \in MergedNames(cmd)
  BY DEF MergedNames
<1> QED
  BY <1>1, <1>2 DEF Applied, From

\* TagsInv, by each step.
LEMMA TagsStep ==
    ASSUME TypeInv, TagsInv, Next
    PROVE  TagsInv'
<1>0. m \in Metafile /\ opts \in Options
  BY DEF TypeInv, TypeOK
<1>1. CASE pc' = "seeds"
  <2>1. UpdateAnnounces
    BY <1>1, AfterOnly
  <2>2. opts' = opts /\ loaded' = loaded
    BY <2>1 DEF UpdateAnnounces, SetAnnounces, Fail, Goto, given
  <2>3. (Known' <=> Known) /\ \A o : Has(o)' <=> Has(o)
    BY <2>2, SteadyOptions
  <2>4. ASSUME NEW n \in Names, Known, Has("announce"), opts.announces = <<{n}>>,
               opts.mode # "prepend"
        PROVE  m'.private = Flag(n) /\ (n \in PrivateNames => m'.source = n)
    <3>1. /\ m'.private = NewFlag(m.private, opts.announces, Known)
          /\ m'.source = NewSource(m.source, opts.announces, Known)
      BY <1>1, <2>1, <2>4, AnnouncesMakes
    <3>2. Known = TRUE
      BY <2>4 DEF Known
    <3> QED
      BY <2>4, <3>1, <3>2, SingleName
  <2>5. Tags'
    BY <2>2, <2>3, <2>4 DEF Tags
  <2> QED
    BY <1>1, <2>5 DEF TagsInv
<1>2. CASE pc' = "fields"
  <2>1. UpdateSeeds
    BY <1>2, AfterOnly
  <2>2. opts' = opts /\ loaded' = loaded /\ pc = "seeds"
    BY <2>1 DEF UpdateSeeds, Goto, given
  <2>3. m'.private = m.private /\ m'.source = m.source
    BY <1>0, <2>1, SeedsMakes
  <2>4. (Known' <=> Known) /\ \A o : Has(o)' <=> Has(o)
    BY <2>2, SteadyOptions
  <2>5. Tags
    BY <2>2 DEF TagsInv
  <2>6. Tags'
    BY <2>2, <2>3, <2>4, <2>5 DEF Tags
  <2> QED
    BY <1>2, <2>6 DEF TagsInv
<1>3. CASE pc' = "related"
  <2>1. SetFields
    BY <1>3, AfterOnly
  <2>2. opts' = opts /\ loaded' = loaded /\ cmd' = cmd /\ pc = "fields"
    BY <2>1 DEF SetFields, Goto, given
  <2>3. /\ m'.source = IF Has("source") THEN opts.source ELSE m.source
        /\ m'.private = IF Has("private") THEN opts.private ELSE m.private
    BY <1>0, <2>1, FieldsMakes
  <2>4. (Known' <=> Known) /\ \A o : Has(o)' <=> Has(o)
    BY <2>2, SteadyOptions
  <2>5. Tags /\ opts = Applied
    BY <2>2 DEF TagsInv, TypeInv, OptionsInv
  <2>6. /\ "private" \in cmd.cli.has => m'.private = cmd.cli.private
        /\ "source" \in cmd.cli.has => m'.source = cmd.cli.source
    BY <2>3, <2>5, AppliedIsGiven DEF Has
  <2>7. Flags'
    BY <2>2, <2>3, <2>4, <2>5, <2>6 DEF Tags, Flags
  <2> QED
    BY <1>3, <2>7 DEF TagsInv
<1>4. CASE pc' = "save"
  <2>1. UpdateRelated
    BY <1>4, AfterOnly
  <2>2. opts' = opts /\ loaded' = loaded /\ cmd' = cmd /\ pc = "related"
    BY <2>1 DEF UpdateRelated, Goto, given
  <2>3. m'.private = m.private /\ m'.source = m.source
    BY <1>0, <2>1, RelatedMakes
  <2>4. (Known' <=> Known) /\ \A o : Has(o)' <=> Has(o)
    BY <2>2, SteadyOptions
  <2>5. Flags
    BY <2>2 DEF TagsInv
  <2>6. Flags'
    BY <2>2, <2>3, <2>4, <2>5 DEF Flags
  <2> QED
    BY <1>4, <2>6 DEF TagsInv
<1>5. CASE pc' \notin {"seeds", "fields", "related", "save"}
  BY <1>5 DEF TagsInv
<1> QED
  BY <1>1, <1>2, <1>3, <1>4, <1>5

-----------------------------------------------------------------------------
\* The trackers, the private flag and the source tag are right at every step of every
\* command, in each list mode.
THEOREM TrackersInvariant == Spec => []TrackerInv
<1>1. Init => TrackerInv
  <2> SUFFICES ASSUME Init PROVE TrackerInv
    OBVIOUS
  <2>1. pc = "postprocess"
    BY DEF Init
  <2> QED
    BY <2>1 DEF TrackerInv, GroupsInv, GroupsDoneInv, TrackersInv, TagsInv
<1>2. TypeInv /\ TrackerInv /\ [Next]_vars => TrackerInv'
  <2> SUFFICES ASSUME TypeInv, TrackerInv, [Next]_vars PROVE TrackerInv'
    OBVIOUS
  <2>0. GroupsInv /\ GroupsDoneInv /\ TrackersInv /\ TagsInv
    BY DEF TrackerInv
  <2>1. CASE Next
    BY <2>0, <2>1, GroupsStep, GroupsDoneStep, TrackersStep, TagsStep DEF TrackerInv
  <2>2. CASE UNCHANGED vars
    <3>1. UNCHANGED <<file, loaded, cmd, runs, again, opts, m, pc, todo, announces, flags,
                      outcome>>
      BY <2>2 DEF vars, given, local
    <3>2. /\ (Known' <=> Known) /\ \A o : Has(o)' <=> Has(o)
          /\ \A t : Meant(t)' = Meant(t)
          /\ \A k : GroupUrls(k)' = GroupUrls(k) /\ GroupPrivate(k)' = GroupPrivate(k)
          /\ AskedByGroups' = AskedByGroups /\ Asked' = Asked
      BY <3>1, SteadyOptions
    <3>3. /\ All(m.trackers)' = All(m.trackers) /\ All(file.trackers)' = All(file.trackers)
          /\ EndsWith(m.trackers, file.trackers)' = EndsWith(m.trackers, file.trackers)
          /\ StartsWith(m.trackers, file.trackers)' = StartsWith(m.trackers, file.trackers)
          /\ StartsWith(announces, file.trackers)' = StartsWith(announces, file.trackers)
          /\ OwnTiers(m.trackers)' = OwnTiers(m.trackers)
      BY <3>1 DEF EndsWith, StartsWith, OwnTiers
    <3>4. /\ Meant(announces)' = Meant(announces)
          /\ Meant(opts.announces)' = Meant(opts.announces)
      BY <3>1 DEF Meant, Known
    <3>5. GroupsInv'
      <4>1. \A k : (Left(k)' <=> Left(k))
        BY <3>1 DEF Left
      <4>2. \A k : Done(k)' <=> Done(k)
        BY <3>1, <3>2, <3>3, <3>4 DEF Done
      <4> QED
        BY <2>0, <3>1, <3>2, <4>1, <4>2 DEF GroupsInv
    <3>6. GroupsDoneInv'
      BY <2>0, <3>1, <3>2, <3>3 DEF GroupsDoneInv
    <3>7. TrackersInv'
      <4>1. Replaced => Replaced'
        BY <3>1, <3>2, <3>3, <3>4 DEF Replaced
      <4>2. Kept => Kept'
        <5>1. (Appended(m.trackers)' <=> Appended(m.trackers))
              /\ (Prefixed(m.trackers)' <=> Prefixed(m.trackers))
          BY <3>1, SteadyPlaces
        <5> QED
          BY <3>1, <3>2, <3>3, <5>1 DEF Kept
      <4> QED
        BY <2>0, <3>1, <4>1, <4>2 DEF TrackersInv
    <3>8. TagsInv'
      <4>1. Tags => Tags'
        BY <3>1, <3>2 DEF Tags
      <4>2. Flags => Flags'
        BY <3>1, <3>2 DEF Flags
      <4> QED
        BY <2>0, <3>1, <4>1, <4>2 DEF TagsInv
    <3> QED
      BY <3>5, <3>6, <3>7, <3>8 DEF TrackerInv
  <2> QED
    BY <2>1, <2>2
<1> QED
  BY <1>1, <1>2, TypeInvariant, PTL DEF Spec

\* append and prepend lose no tracker and add those asked for and no others, and each
\* is in the tier the code has for it: prepend's in front, append's merged into the
\* tiers there are, or in a tier at the end if it is a single known one.
THEOREM NoTrackerLost == Spec => []TrackersKept
<1>1. TrackerInv => TrackersKept
  BY DEF TrackerInv, TrackersInv, Kept, Appended, Prefixed, TrackersKept
<1> QED
  BY <1>1, TrackersInvariant, PTL

\* In the default mode the trackers are those asked for, and without announces and
\* groups they stay.
THEOREM TrackersAreReplaced == Spec => []TrackersReplaced
<1>1. TrackerInv => TrackersReplaced
  BY DEF TrackerInv, TrackersInv, Replaced, OwnTiers, TrackersReplaced
<1> QED
  BY <1>1, TrackersInvariant, PTL

\* The flag and the tag on the command line are those written, and else those of a
\* private tracker that is the only announce.
THEOREM FlagsFollowPrecedence == Spec => []FlagsAsDocumented
<1>1. TrackerInv => FlagsAsDocumented
  BY DEF TrackerInv, TagsInv, Flags, FlagsAsDocumented
<1> QED
  BY <1>1, TrackersInvariant, PTL

-----------------------------------------------------------------------------
(* Once more: the fields. *)

\* No other step gets a command to the steps up to the update of the announces.
LEMMA BeforeOnly ==
    ASSUME TypeInv, Next
    PROVE  /\ pc' = "groups" => LoadMetafile
           /\ pc' = "group" => StartGroups \/ ReplaceByGroup \/ AppendGroup \/ PrependGroup
           /\ pc' = "announces" => LoadMetafile \/ EndGroups
           /\ pc' \in {"groups", "group", "announces", "seeds", "fields", "related", "save"}
                 => opts' = opts /\ loaded' = loaded /\ cmd' = cmd /\ again' = again
                    /\ file' = file
BY DEF Next, Run, Begin, Postprocess, LoadMetafile, StartGroups, FailGroup,
   ReplaceByGroup, AppendGroup, PrependGroup, EndGroups, UpdateAnnounces, UpdateSeeds,
   SetFields, UpdateRelated, Save, NextGroup, SetAnnounces, Fail, Goto, given

\* The flags of all groups together.
LEMMA GroupFlagIs ==
    ASSUME opts.groups \in Seq(GroupNames), Has("announce-group"), NEW p
    PROVE  GroupFlag(opts, p) = IF GroupPrivate(Len(opts.groups)) # {} THEN "on" ELSE p
<1>1. DOMAIN opts.groups = 1 .. Len(opts.groups)
  OBVIOUS
<1>2. GroupPrivate(Len(opts.groups)) # {}
         <=> \E i \in DOMAIN opts.groups : PrivateIn(opts.groups[i]) # {}
  BY <1>1 DEF GroupPrivate
<1> QED
  BY <1>2 DEF GroupFlag, Has

\* The loop over the groups.
LEMMA FieldsGroups ==
    ASSUME TypeInv, GroupsInv, FieldsInv, Next, opts.mode = "replace",
           pc' \in {"groups", "group"}
    PROVE  /\ m'.private = file.private /\ m'.source = file.source
           /\ SameFields(m', file)
<1>0. m \in Metafile /\ file \in Metafile
  BY DEF TypeInv, TypeOK
<1>1. CASE LoadMetafile
  BY <1>1 DEF LoadMetafile, SameFields
<1>2. CASE StartGroups
  <2>1. m' = Cleared /\ pc = "groups"
    BY <1>2 DEF StartGroups, Fail, Goto
  <2>2. m = file
    BY <2>1 DEF GroupsInv
  <2> QED
    BY <1>0, <2>1, <2>2, ClearedMakes DEF SameFields
<1>3. CASE ReplaceByGroup
  <2>1. m' = AddGroup(m, Head(todo)) /\ Head(todo) \in Groups /\ pc = "group"
    BY <1>3, GoodGroup DEF ReplaceByGroup, NextGroup
  <2>2. m'.private = m.private /\ m'.source = m.source /\ SameFields(m', m)
    BY <1>0, <2>1, GroupMakes
  <2> QED
    BY <2>1, <2>2 DEF FieldsInv, SameFields
<1>4. ~AppendGroup /\ ~PrependGroup
  BY DEF AppendGroup, PrependGroup, NextGroup
<1> QED
  BY <1>1, <1>2, <1>3, <1>4, BeforeOnly

\* What follows the loop, or a command without groups.
LEMMA FieldsAnnounces ==
    ASSUME TypeInv, GroupsInv, FieldsInv, Next, opts.mode = "replace", pc' = "announces"
    PROVE  /\ m'.private = GroupFlag(opts, file.private) /\ m'.source = file.source
           /\ SameFields(m', file)
<1>0. m \in Metafile /\ opts.groups \in Seq(GroupNames)
  BY DEF TypeInv, TypeOK, Options
<1>1. CASE LoadMetafile
  <2>1. m' = file /\ ~Has("announce-group")
    BY <1>1 DEF LoadMetafile, Goto
  <2> QED
    BY <2>1 DEF SameFields, GroupFlag, Has
<1>2. CASE EndGroups
  <2>1. m' = SetFlag(m, flags) /\ pc = "group" /\ todo = <<>>
    BY <1>2 DEF EndGroups
  <2>2. Has("announce-group") /\ \E k \in 0 .. Len(opts.groups) : Left(k) /\ Done(k)
    BY <2>1 DEF GroupsInv
  <2>3. flags = GroupPrivate(Len(opts.groups))
    <3>1. PICK k \in 0 .. Len(opts.groups) : Left(k) /\ Done(k)
      BY <2>2
    <3>2. k = Len(opts.groups)
      <4>1. Len(todo) = 0 /\ Len(opts.groups) \in Nat
        BY <1>0, <2>1
      <4> QED
        BY <3>1, <4>1 DEF Left
    <3> QED
      BY <3>1, <3>2 DEF Done
  <2>4. /\ m'.private = IF flags # {} THEN "on" ELSE m.private
        /\ m'.source = m.source /\ SameFields(m', m)
    BY <1>0, <2>1, GroupMakes
  <2>5. m.private = file.private /\ m.source = file.source /\ SameFields(m, file)
    BY <2>1 DEF FieldsInv, SameFields
  <2>6. m'.private = GroupFlag(opts, file.private)
    BY <1>0, <2>2, <2>3, <2>4, <2>5, GroupFlagIs
  <2> QED
    BY <2>4, <2>5, <2>6 DEF SameFields
<1> QED
  BY <1>1, <1>2, BeforeOnly

\* The update of the announces.
LEMMA FieldsSeeds ==
    ASSUME TypeInv, FieldsInv, Next, opts.mode = "replace", pc' = "seeds"
    PROVE  /\ m'.private = AnnounceFlag(opts, GroupFlag(opts, file.private), Known)
           /\ m'.source = AnnounceSource(opts, file.source, Known)
           /\ SameFields(m', file)
<1>0. UpdateAnnounces /\ pc = "announces"
  BY AfterOnly DEF UpdateAnnounces
<1>1. /\ m.private = GroupFlag(opts, file.private) /\ m.source = file.source
      /\ SameFields(m, file)
  BY <1>0 DEF FieldsInv, SameFields
<1>2. CASE ~Has("announce")
  <2>1. m' = m
    BY <1>0, <1>2 DEF UpdateAnnounces
  <2> QED
    BY <1>1, <1>2, <2>1 DEF AnnounceFlag, AnnounceSource, Has
<1>3. CASE Has("announce")
  <2>1. /\ m'.private = NewFlag(m.private, opts.announces, Known)
        /\ m'.source = NewSource(m.source, opts.announces, Known)
        /\ SameFields(m', m)
    BY <1>0, <1>3, AnnouncesMakes
  <2> QED
    BY <1>1, <1>3, <2>1 DEF AnnounceFlag, AnnounceSource, Has, SameFields
<1> QED
  BY <1>2, <1>3

\* The seeds, the fields, and the related torrents.
LEMMA FieldsRest ==
    ASSUME TypeInv, FieldsInv, Next, opts.mode = "replace"
    PROVE  /\ pc' = "fields" =>
                 /\ m'.private = AnnounceFlag(opts, GroupFlag(opts, file.private), Known)
                 /\ m'.source = AnnounceSource(opts, file.source, Known)
                 /\ m'.seeds = FinalSeeds(opts, file.seeds)
                 /\ m'.text = file.text /\ m'.cross = file.cross /\ m'.other = file.other
                 /\ m'.related = file.related
           /\ pc' \in {"related", "save"} =>
                 /\ m'.private = FinalFlag(opts, file.private, Known)
                 /\ m'.source = FinalSource(opts, file.source, Known)
                 /\ m'.seeds = FinalSeeds(opts, file.seeds)
                 /\ m'.text = FinalText(opts, file.text)
                 /\ m'.cross = FinalCross(opts, file.cross)
                 /\ m'.other = FinalOther(opts, file.other)
           /\ pc' = "related" => m'.related = file.related
           /\ pc' = "save" => m'.related = FinalRelated(opts, file.related)
<1>0. m \in Metafile /\ opts \in Options
  BY DEF TypeInv, TypeOK
<1>1. CASE pc' = "fields"
  <2>1. UpdateSeeds /\ pc = "seeds"
    BY <1>1, AfterOnly DEF UpdateSeeds
  <2>2. /\ m'.seeds = [f \in SeedFields |-> Edited(f)]
        /\ m'.trackers = m.trackers /\ m'.private = m.private /\ m'.source = m.source
        /\ m'.related = m.related /\ m'.text = m.text
        /\ m'.cross = m.cross /\ m'.other = m.other
    BY <1>0, <2>1, SeedsMakes
  <2>3. /\ m.private = AnnounceFlag(opts, GroupFlag(opts, file.private), Known)
        /\ m.source = AnnounceSource(opts, file.source, Known)
        /\ m.seeds = file.seeds /\ m.text = file.text /\ m.cross = file.cross
        /\ m.other = file.other /\ m.related = file.related
    BY <2>1 DEF FieldsInv
  <2>4. \A f \in SeedFields :
           Edited(f) = IF f \in opts.has THEN opts.seeds[f] ELSE file.seeds[f]
    <3> TAKE f \in SeedFields
    <3>1. CASE ~Has(f)
      <4>1. Edited(f) = m.seeds[f]
        BY ONLY <3>1 DEF Edited
      <4>2. m.seeds = file.seeds /\ f \notin opts.has
        BY <2>3, <3>1 DEF Has
      <4> QED
        BY <4>1, <4>2
    <3>2. CASE Has(f)
      <4>1. "replace" # "append" /\ "replace" # "prepend" /\ opts.mode = "replace"
        OBVIOUS
      <4>2. Edited(f) = opts.seeds[f]
        BY ONLY <3>2, <4>1 DEF Edited
      <4> QED
        BY <3>2, <4>2 DEF Has
    <3> QED
      BY <3>1, <3>2
  <2>5. m'.seeds = FinalSeeds(opts, file.seeds)
    BY <2>2, <2>4 DEF FinalSeeds
  <2> QED
    BY <1>1, <2>2, <2>3, <2>5
<1>2. CASE pc' = "related"
  <2>1. SetFields /\ pc = "fields"
    BY <1>2, AfterOnly DEF SetFields
  <2>2. /\ m'.text = [f \in TextFields |-> Text(f)]
        /\ m'.source = IF Has("source") THEN opts.source ELSE m.source
        /\ m'.private = IF Has("private") THEN opts.private ELSE m.private
        /\ m'.cross = IF Has("cross-seed") THEN "on" ELSE m.cross
        /\ m'.other = IF Has("cross-seed") THEN "none" ELSE m.other
        /\ m'.trackers = m.trackers /\ m'.seeds = m.seeds /\ m'.related = m.related
    BY <1>0, <2>1, FieldsMakes
  <2>3. /\ m.private = AnnounceFlag(opts, GroupFlag(opts, file.private), Known)
        /\ m.source = AnnounceSource(opts, file.source, Known)
        /\ m.seeds = FinalSeeds(opts, file.seeds)
        /\ m.text = file.text /\ m.cross = file.cross
        /\ m.other = file.other /\ m.related = file.related
    BY <2>1 DEF FieldsInv
  <2>4. m'.text = FinalText(opts, file.text)
    <3>1. \A f \in TextFields :
             Text(f) = IF \/ f = "created-by" /\ "no-created-by" \in opts.has
                          \/ f = "creation-date" /\ "no-creation-date" \in opts.has
                       THEN file.text[f]
                       ELSE IF f \in opts.has THEN opts.text[f]
                       ELSE IF f \in Stamped THEN Stamp ELSE file.text[f]
      BY <2>3 DEF Text, Skipped, Has
    <3> QED
      BY <2>2, <3>1 DEF FinalText
  <2>5. /\ m'.private = FinalFlag(opts, file.private, Known)
        /\ m'.source = FinalSource(opts, file.source, Known)
        /\ m'.cross = FinalCross(opts, file.cross) /\ m'.other = FinalOther(opts, file.other)
    BY <2>2, <2>3 DEF FinalFlag, FinalSource, FinalCross, FinalOther, Has
  <2> QED
    BY <1>2, <2>2, <2>3, <2>4, <2>5
<1>3. CASE pc' = "save"
  <2>1. UpdateRelated /\ pc = "related"
    BY <1>3, AfterOnly DEF UpdateRelated
  <2>2. /\ m'.related = [f \in RelatedFields |-> NewRelated(f)]
        /\ m'.trackers = m.trackers /\ m'.private = m.private /\ m'.source = m.source
        /\ m'.seeds = m.seeds /\ m'.text = m.text
        /\ m'.cross = m.cross /\ m'.other = m.other
    BY <1>0, <2>1, RelatedMakes
  <2>3. /\ m.private = FinalFlag(opts, file.private, Known)
        /\ m.source = FinalSource(opts, file.source, Known)
        /\ m.seeds = FinalSeeds(opts, file.seeds)
        /\ m.text = FinalText(opts, file.text) /\ m.cross = FinalCross(opts, file.cross)
        /\ m.other = FinalOther(opts, file.other) /\ m.related = file.related
    BY <2>1 DEF FieldsInv
  <2>4. \A f \in RelatedFields :
           NewRelated(f) = IF f \in opts.has THEN opts.related[f] ELSE file.related[f]
    <3> TAKE f \in RelatedFields
    <3>1. CASE ~Has(f)
      <4>1. NewRelated(f) = m.related[f]
        BY ONLY <3>1 DEF NewRelated
      <4>2. m.related = file.related /\ f \notin opts.has
        BY <2>3, <3>1 DEF Has
      <4> QED
        BY <4>1, <4>2
    <3>2. CASE Has(f)
      <4>1. opts.mode = "replace"
        OBVIOUS
      <4>2. NewRelated(f) = opts.related[f]
        BY ONLY <3>2, <4>1 DEF NewRelated
      <4> QED
        BY <3>2, <4>2 DEF Has
    <3> QED
      BY <3>1, <3>2
  <2>5. m'.related = FinalRelated(opts, file.related)
    BY <2>2, <2>4 DEF FinalRelated
  <2> QED
    BY <1>3, <2>2, <2>3, <2>5
<1> QED
  BY <1>1, <1>2, <1>3

\* FieldsInv, by each step.
LEMMA FieldsStep ==
    ASSUME TypeInv, GroupsInv, FieldsInv, Next
    PROVE  FieldsInv'
<1>1. CASE pc' \notin {"groups", "group", "announces", "seeds", "fields", "related", "save"}
  BY <1>1 DEF FieldsInv
<1>2. CASE pc' \in {"groups", "group", "announces", "seeds", "fields", "related", "save"}
  <2>1. opts' = opts /\ loaded' = loaded /\ file' = file
    BY <1>2, BeforeOnly
  <2> SUFFICES ASSUME opts.mode = "replace" PROVE FieldsInv'
    BY <2>1 DEF FieldsInv
  <2>2. Known' <=> Known
    BY <2>1, SteadyOptions
  <2>3. pc' \in {"groups", "group"} =>
          m'.private = file.private /\ m'.source = file.source /\ SameFields(m', file)
    BY FieldsGroups
  <2>4. pc' = "announces" => /\ m'.private = GroupFlag(opts, file.private)
                             /\ m'.source = file.source /\ SameFields(m', file)
    BY FieldsAnnounces
  <2>5. pc' = "seeds" =>
           /\ m'.private = AnnounceFlag(opts, GroupFlag(opts, file.private), Known)
           /\ m'.source = AnnounceSource(opts, file.source, Known)
           /\ SameFields(m', file)
    BY FieldsSeeds
  <2>6. /\ AnnounceFlag(opts, GroupFlag(opts, file.private), Known)'
             = AnnounceFlag(opts, GroupFlag(opts, file.private), Known)
        /\ AnnounceSource(opts, file.source, Known)' = AnnounceSource(opts, file.source, Known)
        /\ FinalFlag(opts, file.private, Known)' = FinalFlag(opts, file.private, Known)
        /\ FinalSource(opts, file.source, Known)' = FinalSource(opts, file.source, Known)
    BY <2>1 DEF Known
  <2>7. /\ pc' = "fields" =>
                 /\ m'.private = AnnounceFlag(opts, GroupFlag(opts, file.private), Known)
                 /\ m'.source = AnnounceSource(opts, file.source, Known)
                 /\ m'.seeds = FinalSeeds(opts, file.seeds)
                 /\ m'.text = file.text /\ m'.cross = file.cross /\ m'.other = file.other
                 /\ m'.related = file.related
        /\ pc' \in {"related", "save"} =>
                 /\ m'.private = FinalFlag(opts, file.private, Known)
                 /\ m'.source = FinalSource(opts, file.source, Known)
                 /\ m'.seeds = FinalSeeds(opts, file.seeds)
                 /\ m'.text = FinalText(opts, file.text)
                 /\ m'.cross = FinalCross(opts, file.cross)
                 /\ m'.other = FinalOther(opts, file.other)
        /\ pc' = "related" => m'.related = file.related
        /\ pc' = "save" => m'.related = FinalRelated(opts, file.related)
    BY FieldsRest
  <2> QED
    BY <1>2, <2>1, <2>3, <2>4, <2>5, <2>6, <2>7 DEF FieldsInv, SameFields
<1> QED
  BY <1>1, <1>2

-----------------------------------------------------------------------------
(* Once more: the trackers of groups. *)

\* Before the first group there are no trackers.
LEMMA LayoutNone ==
    ASSUME NEW gs
    PROVE  LaidOut(gs, <<>>, 0)
<1> DEFINE c == [i \in 0 .. 0 |-> 0]
<1>1. c \in [0 .. 0 -> Nat] /\ c[0] = 0 /\ Len(<<>>) = 0 /\ 1 .. 0 = {}
  OBVIOUS
<1> HIDE DEF c
<1>2. Layout(gs, c, <<>>, 0)
  BY <1>1 DEF Layout
<1> QED
  BY <1>1, <1>2 DEF LaidOut

\* A turn of the loop lays out the trackers of one more group.
LEMMA LayoutNext ==
    ASSUME NEW gs, NEW ts \in Tiers, NEW k \in Nat, LaidOut(gs, ts, k), gs[k + 1] \in Groups
    PROVE  LaidOut(gs, WithGroup(ts, gs[k + 1]), k + 1)
<1>1. PICK c \in [0 .. k -> Nat] : Layout(gs, c, ts, k)
  BY DEF LaidOut
<1> DEFINE l == Announces[gs[k + 1]]
           n == WithGroup(ts, gs[k + 1])
           d == [i \in 0 .. (k + 1) |-> IF i = k + 1 THEN c[k] + Len(l) ELSE c[i]]
<1>2. Len(l) \in Nat /\ DOMAIN l = 1 .. Len(l)
  BY GroupAssumption
<1>3. /\ n \in Tiers /\ Len(n) = Len(ts) + Len(l)
      /\ \A i \in DOMAIN ts : i \in DOMAIN n /\ n[i] = ts[i]
      /\ \A j \in DOMAIN l : n[Len(ts) + j] = {Resolve(l[j])}
  BY WithGroupAre
<1>4. Len(ts) \in Nat /\ DOMAIN n = 1 .. Len(n)
  BY <1>3 DEF Tiers
<1>5. /\ c[0] = 0 /\ Len(ts) = c[k]
      /\ \A i \in 1 .. k :
            /\ gs[i] \in Groups /\ c[i] = c[i - 1] + Len(Announces[gs[i]])
            /\ \A j \in DOMAIN Announces[gs[i]] :
                  /\ c[i - 1] + j \in DOMAIN ts
                  /\ ts[c[i - 1] + j] = {Resolve(Announces[gs[i]][j])}
  BY <1>1 DEF Layout
<1> HIDE DEF l, n
<1>6. /\ d \in [0 .. (k + 1) -> Nat] /\ d[k + 1] = c[k] + Len(l)
      /\ \A i \in 0 .. k : d[i] = c[i]
  BY <1>2
<1> HIDE DEF d
<1>7. \A j \in DOMAIN l : Len(ts) + j \in DOMAIN n
  BY <1>2, <1>3, <1>4
<1>8. ASSUME NEW i \in 1 .. (k + 1)
      PROVE  /\ gs[i] \in Groups /\ d[i] = d[i - 1] + Len(Announces[gs[i]])
             /\ \A j \in DOMAIN Announces[gs[i]] :
                   /\ d[i - 1] + j \in DOMAIN n
                   /\ n[d[i - 1] + j] = {Resolve(Announces[gs[i]][j])}
  <2>1. CASE i = k + 1
    <3>1. i - 1 = k /\ d[k] = c[k] /\ d[i] = d[k] + Len(l) /\ d[k] = Len(ts)
      BY <1>5, <1>6, <2>1
    <3>2. Announces[gs[i]] = l
      BY <2>1 DEF l
    <3> QED
      BY <1>3, <1>7, <2>1, <3>1, <3>2
  <2>2. CASE i # k + 1
    <3>1. i \in 1 .. k /\ i \in 0 .. k /\ i - 1 \in 0 .. k
      BY <2>2
    <3>2. d[i] = c[i] /\ d[i - 1] = c[i - 1]
      BY <1>6, <3>1
    <3> QED
      BY <1>3, <1>5, <3>1, <3>2
  <2> QED
    BY <2>1, <2>2
<1>9. d[0] = 0 /\ Len(n) = d[k + 1]
  BY <1>3, <1>5, <1>6
<1>10. Layout(gs, d, n, k + 1)
  BY <1>8, <1>9 DEF Layout
<1> QED
  BY <1>6, <1>10 DEF LaidOut, n

\* What is laid out is so once more from the start.
LEMMA AgainNone ==
    ASSUME NEW gs, NEW old, LaidOut(gs, old, Len(gs))
    PROVE  Again(gs, <<>>, old, 0)
<1>1. PICK c \in [0 .. Len(gs) -> Nat] : Layout(gs, c, old, Len(gs))
  BY DEF LaidOut
<1>2. Len(<<>>) = c[0] /\ \A i \in DOMAIN <<>> : <<>>[i] = old[i]
  BY <1>1 DEF Layout
<1> QED
  BY <1>1, <1>2 DEF Again

\* A turn of the loop adds the trackers that are there next.
LEMMA AgainNext ==
    ASSUME NEW gs \in Seq(GroupNames), NEW ts \in Tiers, NEW old \in Tiers,
           NEW k \in Nat, k + 1 <= Len(gs), Again(gs, ts, old, k)
    PROVE  Again(gs, WithGroup(ts, gs[k + 1]), old, k + 1)
<1>1. PICK c \in [0 .. Len(gs) -> Nat] :
         /\ Layout(gs, c, old, Len(gs)) /\ Len(ts) = c[k]
         /\ \A i \in DOMAIN ts : ts[i] = old[i]
  BY DEF Again
<1> DEFINE l == Announces[gs[k + 1]]
           n == WithGroup(ts, gs[k + 1])
<1>2. k + 1 \in 1 .. Len(gs) /\ (k + 1) - 1 = k
  OBVIOUS
<1>3. /\ gs[k + 1] \in Groups /\ c[k + 1] = c[k] + Len(l)
      /\ \A j \in DOMAIN l : old[c[k] + j] = {Resolve(l[j])}
  BY <1>1, <1>2 DEF Layout
<1>4. Len(l) \in Nat /\ DOMAIN l = 1 .. Len(l)
  BY <1>3, GroupAssumption
<1>5. /\ n \in Tiers /\ Len(n) = Len(ts) + Len(l)
      /\ \A i \in DOMAIN ts : n[i] = ts[i]
      /\ \A j \in DOMAIN l : n[Len(ts) + j] = {Resolve(l[j])}
  <2> DEFINE g == gs[k + 1]
  <2>1. g \in Groups /\ ts \in Tiers
    BY <1>3
  <2> HIDE DEF g
  <2>2. /\ WithGroup(ts, g) \in Tiers
        /\ Len(WithGroup(ts, g)) = Len(ts) + Len(Announces[g])
        /\ \A i \in DOMAIN ts : WithGroup(ts, g)[i] = ts[i]
        /\ \A j \in DOMAIN Announces[g] :
              WithGroup(ts, g)[Len(ts) + j] = {Resolve(Announces[g][j])}
    BY ONLY <2>1, WithGroupAre
  <2> QED
    BY ONLY <2>2 DEF g, l, n
<1>6. Len(ts) \in Nat /\ DOMAIN ts = 1 .. Len(ts) /\ DOMAIN n = 1 .. Len(n)
  BY <1>5 DEF Tiers
<1> HIDE DEF l, n
<1>7. ASSUME NEW i \in DOMAIN n PROVE n[i] = old[i]
  <2>1. CASE i \in DOMAIN ts
    BY <1>1, <1>5, <2>1
  <2>2. CASE i \notin DOMAIN ts
    <3>1. i - Len(ts) \in DOMAIN l /\ Len(ts) + (i - Len(ts)) = i
      BY <1>4, <1>5, <1>6, <2>2
    <3> QED
      BY <1>1, <1>3, <1>5, <3>1
  <2> QED
    BY <2>1, <2>2
<1>8. Len(n) = c[k + 1]
  BY <1>1, <1>3, <1>5
<1> QED
  BY <1>1, <1>7, <1>8 DEF Again, n

\* After the last group the trackers are those there were.
LEMMA AgainEnd ==
    ASSUME NEW gs, NEW ts \in Tiers, NEW old \in Tiers, Again(gs, ts, old, Len(gs))
    PROVE  ts = old
<1>1. PICK c \in [0 .. Len(gs) -> Nat] :
         /\ Layout(gs, c, old, Len(gs)) /\ Len(ts) = c[Len(gs)]
         /\ \A i \in DOMAIN ts : ts[i] = old[i]
  BY DEF Again
<1>2. Len(ts) = Len(old)
  BY <1>1 DEF Layout
<1> QED
  BY <1>1, <1>2 DEF Tiers

\* What the loop does to the trackers, when groups replace them.
LEMMA ReplaceLoop ==
    ASSUME TypeInv, GroupsInv, Next, opts.mode = "replace", pc' = "group"
    PROVE  /\ opts' = opts /\ loaded' = loaded /\ cmd' = cmd /\ again' = again
           /\ file' = file /\ opts.groups \in Seq(GroupNames)
           /\ \/ pc = "groups" /\ m' = Cleared /\ m'.trackers = <<>> /\ Turns' = 0
              \/ /\ pc = "group" /\ Turns \in Nat /\ Turns' = Turns + 1
                 /\ Turns + 1 <= Len(opts.groups) /\ opts.groups[Turns + 1] \in Groups
                 /\ m'.trackers = WithGroup(m.trackers, opts.groups[Turns + 1])
<1>0. /\ opts.groups \in Seq(GroupNames) /\ m \in Metafile /\ todo \in Seq(GroupNames)
  BY DEF TypeInv, TypeOK, Options
<1>1. /\ opts' = opts /\ loaded' = loaded /\ cmd' = cmd /\ again' = again /\ file' = file
      /\ StartGroups \/ ReplaceByGroup
  BY BeforeOnly DEF AppendGroup, PrependGroup, NextGroup
<1>2. CASE StartGroups
  <2>1. pc = "groups" /\ m' = Cleared /\ todo' = opts.groups
    BY <1>2 DEF StartGroups, Fail, Goto
  <2>2. m'.trackers = <<>>
    BY <1>0, <2>1, ClearedMakes
  <2>3. Turns' = 0
    <3>1. Turns' = Len(opts.groups) - Len(opts.groups) /\ Len(opts.groups) \in Nat
      BY <1>0, <1>1, <2>1 DEF Turns
    <3> QED
      BY <3>1
  <2> QED
    BY <1>0, <1>1, <2>1, <2>2, <2>3
<1>3. CASE ReplaceByGroup
  <2>1. /\ pc = "group" /\ todo # <<>> /\ ~BadGroup /\ todo' = Tail(todo)
        /\ m' = AddGroup(m, Head(todo))
    BY <1>3 DEF ReplaceByGroup, NextGroup
  <2>2. \E k \in 0 .. Len(opts.groups) : Left(k)
    BY <2>1 DEF GroupsInv
  <2>3. PICK k \in 0 .. Len(opts.groups) : Left(k)
    BY <2>2
  <2>4. k \in Nat /\ k + 1 \in 0 .. Len(opts.groups) /\ Head(todo) = opts.groups[k + 1]
    BY <1>1, <2>1, <2>3, GroupTurn
  <2>5. /\ Len(todo) = Len(opts.groups) - k /\ Len(opts.groups) \in Nat
        /\ Len(Tail(todo)) = Len(todo) - 1
    BY <1>0, <2>1, <2>3 DEF Left
  <2>6. Turns = k /\ Turns' = k + 1 /\ k + 1 <= Len(opts.groups)
    <3>1. Turns = Len(opts.groups) - Len(todo) /\ Turns' = Len(opts.groups) - Len(Tail(todo))
      BY <1>1, <2>1 DEF Turns
    <3> DEFINE all  == Len(opts.groups)
               rest == Len(Tail(todo))
    <3>2. all \in Nat /\ k \in Nat /\ k + 1 \in 0 .. all /\ rest = (all - k) - 1
      BY <2>4, <2>5
    <3>3. Turns = all - (all - k) /\ Turns' = all - rest
      BY <2>5, <3>1
    <3> HIDE DEF all, rest
    <3>4. all - (all - k) = k /\ all - rest = k + 1 /\ k + 1 <= all
      BY <3>2
    <3> QED
      BY <3>3, <3>4 DEF all
  <2>7. Head(todo) \in Groups
    BY <2>1, GoodGroup
  <2>8. m'.trackers = WithGroup(m.trackers, Head(todo))
    BY <1>0, <2>1, <2>7, GroupMakes
  <2> QED
    BY <1>0, <1>1, <2>1, <2>4, <2>6, <2>7, <2>8
<1> QED
  BY <1>1, <1>2, <1>3

\* The end of the loop, when groups replace the trackers, and a command without groups.
LEMMA ReplaceEnd ==
    ASSUME TypeInv, GroupsInv, Next, opts.mode = "replace", pc' = "announces"
    PROVE  /\ opts' = opts /\ loaded' = loaded /\ cmd' = cmd /\ again' = again
           /\ file' = file
           /\ \/ ~Has("announce-group") /\ m' = file
              \/ /\ pc = "group" /\ Has("announce-group") /\ Turns = Len(opts.groups)
                 /\ m'.trackers = m.trackers
<1>0. /\ opts.groups \in Seq(GroupNames) /\ m \in Metafile
  BY DEF TypeInv, TypeOK, Options
<1>1. /\ opts' = opts /\ loaded' = loaded /\ cmd' = cmd /\ again' = again /\ file' = file
      /\ LoadMetafile \/ EndGroups
  BY BeforeOnly
<1>2. CASE LoadMetafile
  BY <1>1, <1>2 DEF LoadMetafile, Goto
<1>3. CASE EndGroups
  <2>1. pc = "group" /\ todo = <<>> /\ m' = SetFlag(m, flags)
    BY <1>3 DEF EndGroups
  <2>2. Has("announce-group")
    BY <2>1 DEF GroupsInv
  <2>3. Turns = Len(opts.groups)
    BY <1>0, <2>1 DEF Turns
  <2>4. m'.trackers = m.trackers
    BY <1>0, <2>1, GroupMakes
  <2> QED
    BY <1>1, <2>1, <2>2, <2>3, <2>4
<1> QED
  BY <1>1, <1>2, <1>3

\* Without announces, or after them, the trackers stay.
LEMMA TrackersStay ==
    ASSUME TypeInv, Next, pc' \in {"seeds", "fields", "related", "save"},
           pc' = "seeds" => ~Has("announce")
    PROVE  /\ opts' = opts /\ loaded' = loaded /\ file' = file /\ cmd' = cmd
           /\ again' = again /\ m'.trackers = m.trackers
           /\ pc \in {"announces", "seeds", "fields", "related"}
<1>1. CASE pc' = "seeds"
  BY <1>1, AfterOnly DEF UpdateAnnounces, Goto, given
<1>2. CASE pc' # "seeds"
  <2>1. AfterAnnounces
    BY <1>2, AfterOnly DEF AfterAnnounces
  <2> QED
    BY <2>1, AfterMakes
<1> QED
  BY <1>1, <1>2

\* LayoutInv, by each step.
LEMMA LayoutStep ==
    ASSUME TypeInv, GroupsInv, LayoutInv, Next
    PROVE  LayoutInv'
<1>1. CASE pc' \notin {"group", "announces", "seeds", "fields", "related", "save"}
  BY <1>1 DEF LayoutInv
<1>2. CASE pc' \in {"group", "announces", "seeds", "fields", "related", "save"}
  <2>1. opts' = opts /\ loaded' = loaded
    BY <1>2, BeforeOnly
  <2>2. \A o : Has(o)' <=> Has(o)
    BY <2>1, SteadyOptions
  <2> SUFFICES ASSUME opts.mode = "replace", Has("announce-group") PROVE LayoutInv'
    BY <2>1, <2>2 DEF LayoutInv
  <2> DEFINE gs == opts.groups
  <2>3. CASE pc' = "group"
    <3>1. LaidOut(gs, m'.trackers, Turns')
      <4>1. CASE m'.trackers = <<>> /\ Turns' = 0
        BY <4>1, LayoutNone
      <4>2. CASE /\ pc = "group" /\ Turns \in Nat /\ Turns' = Turns + 1
                 /\ gs[Turns + 1] \in Groups
                 /\ m'.trackers = WithGroup(m.trackers, gs[Turns + 1])
        <5>1. LaidOut(gs, m.trackers, Turns) /\ m.trackers \in Tiers
          BY <4>2, MetafileTags DEF LayoutInv, TypeInv, TypeOK
        <5> HIDE DEF gs
        <5> QED
          BY <4>2, <5>1, LayoutNext
      <4> QED
        BY <2>3, <4>1, <4>2, ReplaceLoop
    <3> QED
      BY <2>1, <2>3, <3>1 DEF LayoutInv
  <2>4. CASE pc' = "announces"
    <3>1. LaidOut(gs, m'.trackers, Len(gs))
      BY <2>4, ReplaceEnd DEF LayoutInv
    <3> QED
      BY <2>1, <2>4, <3>1 DEF LayoutInv
  <2>5. CASE pc' \in {"seeds", "fields", "related", "save"}
    <3> SUFFICES ASSUME ~Has("announce") PROVE LaidOut(gs, m'.trackers, Len(gs))
      BY <2>1, <2>2, <2>5 DEF LayoutInv
    <3> QED
      BY <2>5, TrackersStay DEF LayoutInv
  <2> QED
    BY <1>2, <2>3, <2>4, <2>5
<1> QED
  BY <1>1, <1>2

\* AgainInv, by each step.
LEMMA AgainStep ==
    ASSUME TypeInv, OptionsInv, GroupsInv, FixedInv, AgainInv, Next
    PROVE  AgainInv'
<1>1. CASE pc' \notin {"group", "announces", "seeds", "fields", "related", "save"}
  BY <1>1 DEF AgainInv
<1>2. CASE pc' \in {"group", "announces", "seeds", "fields", "related", "save"}
  <2>1. opts' = opts /\ loaded' = loaded /\ again' = again /\ file' = file
    BY <1>2, BeforeOnly
  <2>2. \A o : Has(o)' <=> Has(o)
    BY <2>1, SteadyOptions
  <2> SUFFICES ASSUME again, opts.mode = "replace", ~Has("announce") PROVE AgainInv'
    BY <2>1, <2>2 DEF AgainInv
  <2> DEFINE gs == opts.groups
             old == file.trackers
  <2>3. m.trackers \in Tiers /\ old \in Tiers /\ gs \in Seq(GroupNames)
    BY MetafileTags DEF TypeInv, TypeOK, Options
  <2>4. CASE pc' = "group"
    <3>1. Again(gs, m'.trackers, old, Turns')
      <4>1. CASE pc = "groups" /\ m'.trackers = <<>> /\ Turns' = 0
        <5>1. Has("announce-group") /\ opts = Applied
          BY <4>1 DEF GroupsInv, OptionsInv
        <5>2. Fixed(opts, file, Known)
          BY <4>1, <5>1 DEF FixedInv
        <5>3. LaidOut(gs, old, Len(gs))
          BY <5>1, <5>2 DEF Fixed, Has
        <5> QED
          BY <4>1, <5>3, AgainNone
      <4>2. CASE /\ pc = "group" /\ Turns \in Nat /\ Turns' = Turns + 1
                 /\ Turns + 1 <= Len(gs)
                 /\ m'.trackers = WithGroup(m.trackers, gs[Turns + 1])
        <5>1. Again(gs, m.trackers, old, Turns)
          BY <4>2 DEF AgainInv
        <5> HIDE DEF gs, old
        <5> QED
          BY <2>3, <4>2, <5>1, AgainNext
      <4> QED
        BY <2>4, <4>1, <4>2, ReplaceLoop
    <3> QED
      BY <2>1, <2>4, <3>1 DEF AgainInv
  <2>5. CASE pc' = "announces"
    <3>1. m'.trackers = old
      <4>1. CASE m' = file
        BY <4>1
      <4>2. CASE pc = "group" /\ Turns = Len(gs) /\ m'.trackers = m.trackers
        <5>1. Again(gs, m.trackers, old, Len(gs))
          BY <4>2 DEF AgainInv
        <5> HIDE DEF gs, old
        <5> QED
          BY <2>3, <4>2, <5>1, AgainEnd
      <4> QED
        BY <2>5, <4>1, <4>2, ReplaceEnd
    <3> QED
      BY <2>1, <2>5, <3>1 DEF AgainInv
  <2>6. CASE pc' \in {"seeds", "fields", "related", "save"}
    <3>1. m'.trackers = old
      BY <2>6, TrackersStay DEF AgainInv
    <3> QED
      BY <2>1, <2>6, <3>1 DEF AgainInv
  <2> QED
    BY <1>2, <2>4, <2>5, <2>6
<1> QED
  BY <1>1, <1>2

-----------------------------------------------------------------------------
(* Once more: a metafile that has been saved. *)

\* What a command makes of the fields it makes of what it has made of them.
LEMMA FinalTwice ==
    ASSUME NEW o, NEW known
    PROVE  /\ \A p : FinalFlag(o, FinalFlag(o, p, known), known) = FinalFlag(o, p, known)
           /\ \A s : FinalSource(o, FinalSource(o, s, known), known) = FinalSource(o, s, known)
           /\ \A s : FinalSeeds(o, FinalSeeds(o, s)) = FinalSeeds(o, s)
           /\ \A r : FinalRelated(o, FinalRelated(o, r)) = FinalRelated(o, r)
           /\ \A t : FinalText(o, FinalText(o, t)) = FinalText(o, t)
           /\ \A x : FinalCross(o, FinalCross(o, x)) = FinalCross(o, x)
           /\ \A x : FinalOther(o, FinalOther(o, x)) = FinalOther(o, x)
<1>1. ASSUME NEW p PROVE FinalFlag(o, FinalFlag(o, p, known), known) = FinalFlag(o, p, known)
  <2>1. \A q : GroupFlag(o, q) \in {q, "on"}
    BY DEF GroupFlag
  <2>2. \A q, r : NewFlag(q, o.announces, known) # q =>
                     NewFlag(r, o.announces, known) = NewFlag(q, o.announces, known)
    BY DEF NewFlag
  <2>3. \A q, r : AnnounceFlag(o, q, known) # q =>
                     AnnounceFlag(o, r, known) = AnnounceFlag(o, q, known)
    BY <2>2 DEF AnnounceFlag
  <2>4. \A q, r : GroupFlag(o, q) # q => GroupFlag(o, r) = GroupFlag(o, q)
    BY DEF GroupFlag
  <2> QED
    BY <2>3, <2>4 DEF FinalFlag
<1>2. \A s : FinalSource(o, FinalSource(o, s, known), known) = FinalSource(o, s, known)
  BY DEF FinalSource, AnnounceSource, NewSource
<1>3. \A s : FinalSeeds(o, FinalSeeds(o, s)) = FinalSeeds(o, s)
  BY DEF FinalSeeds
<1>4. \A r : FinalRelated(o, FinalRelated(o, r)) = FinalRelated(o, r)
  BY DEF FinalRelated
<1>5. \A t : FinalText(o, FinalText(o, t)) = FinalText(o, t)
  BY DEF FinalText
<1>6. /\ \A x : FinalCross(o, FinalCross(o, x)) = FinalCross(o, x)
      /\ \A x : FinalOther(o, FinalOther(o, x)) = FinalOther(o, x)
  BY DEF FinalCross, FinalOther
<1> QED
  BY <1>1, <1>2, <1>3, <1>4, <1>5, <1>6

\* What is about to be saved is what the command leaves as it is.
LEMMA SavedIsFixed ==
    ASSUME pc = "save", opts.mode = "replace", TrackersInv, FieldsInv, LayoutInv
    PROVE  Fixed(opts, m, Known)
<1>1. /\ m.private = FinalFlag(opts, file.private, Known)
      /\ m.source = FinalSource(opts, file.source, Known)
      /\ m.seeds = FinalSeeds(opts, file.seeds)
      /\ m.related = FinalRelated(opts, file.related)
      /\ m.text = FinalText(opts, file.text)
      /\ m.cross = FinalCross(opts, file.cross) /\ m.other = FinalOther(opts, file.other)
  BY DEF FieldsInv
<1>2. /\ FinalFlag(opts, m.private, Known) = m.private
      /\ FinalSource(opts, m.source, Known) = m.source
      /\ FinalSeeds(opts, m.seeds) = m.seeds
      /\ FinalRelated(opts, m.related) = m.related
      /\ FinalText(opts, m.text) = m.text
      /\ FinalCross(opts, m.cross) = m.cross /\ FinalOther(opts, m.other) = m.other
  BY <1>1, FinalTwice
<1>3. "announce" \in opts.has => m.trackers = Read(opts.announces, Known)
  BY DEF TrackersInv, Replaced, Meant, Read, Has
<1>4. "announce" \notin opts.has /\ "announce-group" \in opts.has =>
         LaidOut(opts.groups, m.trackers, Len(opts.groups))
  BY DEF LayoutInv, Has
<1> QED
  BY <1>2, <1>3, <1>4 DEF Fixed

\* What the steps leave alone that FixedInv is about.
LEMMA FixedFrame ==
    ASSUME TypeInv, Next, ~Save, pc # "idle"
    PROVE  /\ cmd' = cmd /\ loaded' = loaded /\ file' = file /\ again' = again
           /\ pc' = "idle" => outcome' = "failed"
BY DEF Next, Run, Begin, Postprocess, LoadMetafile, StartGroups, FailGroup,
   ReplaceByGroup, AppendGroup, PrependGroup, EndGroups, UpdateAnnounces, UpdateSeeds,
   SetFields, UpdateRelated, NextGroup, SetAnnounces, Fail, Goto, given

\* FixedInv, by each step.
LEMMA FixedStep ==
    ASSUME TypeInv, TrackersInv, FieldsInv, LayoutInv, FixedInv, Next
    PROVE  FixedInv'
<1>1. CASE pc = "idle"
  <2>1. PICK c \in Commands : Begin(c)
    BY <1>1 DEF Next, Run, Postprocess, LoadMetafile, StartGroups, FailGroup,
       ReplaceByGroup, AppendGroup, PrependGroup, EndGroups, UpdateAnnounces, UpdateSeeds,
       SetFields, UpdateRelated, Save, NextGroup
  <2>2. /\ cmd' = c /\ again' = (outcome = "saved" /\ c = cmd) /\ pc' = "postprocess"
        /\ loaded' = loaded /\ file' = file
    BY <2>1 DEF Begin
  <2>3. CASE again'
    <3>1. outcome = "saved" /\ cmd' = cmd
      BY <2>2, <2>3
    <3>2. (Known' <=> Known) /\ Applied' = Applied
      BY <2>2, <3>1, Steady
    <3> QED
      BY <1>1, <2>2, <3>1, <3>2 DEF FixedInv
  <2>4. CASE ~again'
    BY <2>2, <2>4 DEF FixedInv
  <2> QED
    BY <2>3, <2>4
<1>2. CASE Save
  <2>1. /\ pc = "save" /\ pc' = "idle" /\ cmd' = cmd /\ loaded' = loaded
        /\ outcome' = "saved" => file' = m
    BY <1>2 DEF Save, given
  <2>2. (Known' <=> Known) /\ Applied' = Applied
    BY <2>1, Steady
  <2>3. opts = Applied
    BY <2>1 DEF TypeInv, OptionsInv
  <2>4. Applied.mode = "replace" => Fixed(Applied, m, Known)
    BY <2>1, <2>3, SavedIsFixed
  <2> QED
    BY <2>1, <2>2, <2>4 DEF FixedInv
<1>3. CASE pc # "idle" /\ ~Save
  <2>1. /\ cmd' = cmd /\ loaded' = loaded /\ file' = file /\ again' = again
        /\ pc' = "idle" => outcome' = "failed"
    BY <1>3, FixedFrame
  <2>2. (Known' <=> Known) /\ Applied' = Applied
    BY <2>1, Steady
  <2>3. "failed" # "saved"
    OBVIOUS
  <2> QED
    BY <1>3, <2>1, <2>2, <2>3 DEF FixedInv
<1> QED
  BY <1>1, <1>2, <1>3

\* At every step of a command that replaces, the fields are those it has got to; and a
\* metafile it has saved is one it leaves as it is.
THEOREM RetryInvariant == Spec => []RetryInv
<1>1. Init => RetryInv
  <2> SUFFICES ASSUME Init PROVE RetryInv
    OBVIOUS
  <2>1. pc = "postprocess" /\ again = FALSE
    BY DEF Init
  <2> QED
    BY <2>1 DEF RetryInv, FieldsInv, LayoutInv, AgainInv, FixedInv
<1>2. TypeInv /\ TrackerInv /\ RetryInv /\ [Next]_vars => RetryInv'
  <2> SUFFICES ASSUME TypeInv, TrackerInv, RetryInv, [Next]_vars PROVE RetryInv'
    OBVIOUS
  <2>0. /\ OptionsInv /\ GroupsInv /\ TrackersInv
        /\ FieldsInv /\ LayoutInv /\ AgainInv /\ FixedInv
    BY DEF TypeInv, TrackerInv, RetryInv
  <2>1. CASE Next
    BY <2>0, <2>1, FieldsStep, LayoutStep, AgainStep, FixedStep DEF RetryInv
  <2>2. CASE UNCHANGED vars
    <3>1. UNCHANGED <<file, loaded, cmd, runs, again, opts, m, pc, todo, announces, flags,
                      outcome>>
      BY <2>2 DEF vars, given, local
    <3>2. (Known' <=> Known) /\ Applied' = Applied /\ \A o : Has(o)' <=> Has(o)
      BY <3>1, Steady, SteadyOptions
    <3>3. Turns' = Turns
      BY <3>1 DEF Turns
    <3>4. FieldsInv'
      <4>1. Known' = Known
        BY <3>1 DEF Known
      <4> QED
        BY ONLY <2>0, <3>1, <4>1 DEF FieldsInv
    <3>5. LayoutInv'
      BY <2>0, <3>1, <3>2, <3>3 DEF LayoutInv
    <3>6. AgainInv'
      BY <2>0, <3>1, <3>2, <3>3 DEF AgainInv
    <3>7. FixedInv'
      <4>1. Known' = Known
        BY <3>1 DEF Known
      <4> QED
        BY ONLY <2>0, <3>1, <3>2, <4>1 DEF FixedInv
    <3> QED
      BY <3>4, <3>5, <3>6, <3>7 DEF RetryInv
  <2> QED
    BY <2>1, <2>2
<1> QED
  BY <1>1, <1>2, TypeInvariant, TrackersInvariant, PTL DEF Spec

\* A command that replaces, given once more, leaves every field of the metafile as it is.
THEOREM RetryChangesNothing == Spec => []RetryHarmless
<1>1. TypeInv /\ TrackerInv /\ RetryInv => RetryHarmless
  <2> SUFFICES ASSUME TypeInv, TrackerInv, RetryInv,
                      pc = "save", again, opts.mode = "replace"
               PROVE  m = file
    BY DEF RetryHarmless
  <2>1. Fixed(opts, file, Known)
    BY DEF RetryInv, FixedInv, TypeInv, OptionsInv
  <2>2. /\ m.private = file.private /\ m.source = file.source /\ m.seeds = file.seeds
        /\ m.related = file.related /\ m.text = file.text /\ m.cross = file.cross
        /\ m.other = file.other
    BY <2>1 DEF RetryInv, FieldsInv, Fixed
  <2>3. m.trackers = file.trackers
    <3>1. CASE Has("announce")
      <4>1. m.trackers = Meant(opts.announces)
        BY <3>1 DEF TrackerInv, TrackersInv, Replaced
      <4>2. file.trackers = Read(opts.announces, Known)
        BY <2>1, <3>1 DEF Fixed, Has
      <4> QED
        BY <4>1, <4>2 DEF Meant, Read
    <3>2. CASE ~Has("announce")
      BY <3>2 DEF RetryInv, AgainInv
    <3> QED
      BY <3>1, <3>2
  <2>4. m \in Metafile /\ file \in Metafile
    BY DEF TypeInv, TypeOK
  <2> QED
    BY <2>2, <2>3, <2>4 DEF Metafile
<1> QED
  BY <1>1, TypeInvariant, TrackersInvariant, RetryInvariant, PTL

=============================================================================
