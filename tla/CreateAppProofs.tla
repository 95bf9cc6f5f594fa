--------------------------- MODULE CreateAppProofs ---------------------------
(***************************************************************************)
(* That create keeps its types and writes one metafile, for every command  *)
(* line, profile, configuration and tracker database, with proofs.         *)
(***************************************************************************)
EXTENDS CreateApp, AnnouncesProofs

\* A step that comes before the last one.
Earlier ==
    \/ Postprocess \/ SetFiles \/ ChoosePieceSize \/ SetAnnounces \/ StartGroups
    \/ AddNextGroup \/ EndGroups \/ SetFields \/ FindPlace \/ Inform \/ Hash

-----------------------------------------------------------------------------
\* The protocol is one of the three, wherever it comes from.
LEMMA ProtocolMerged ==
    ASSUME cmd \in Commands
    PROVE  cmd.cli.protocol \in Protocols /\ Merge(cmd).protocol \in Protocols
<1>1. cmd \in Command
  BY CreateAssumption
<1>2. cmd.cli \in Options /\ cmd.prof \in Options
  BY <1>1 DEF Command
<1>3. cmd.cli.protocol \in Protocols /\ cmd.prof.protocol \in Protocols
  BY <1>2 DEF Options
<1> QED
  BY <1>3 DEF Merge, From

\* The first state satisfies the invariant.
LEMMA InitWrite == Init => WriteInv
<1> SUFFICES ASSUME Init PROVE WriteInv
  OBVIOUS
<1>1. cmd \in Commands /\ opts = cmd.cli /\ pc = "postprocess" /\ disk = NoFile /\ stdout = {}
  BY DEF Init
<1> QED
  BY <1>1, ProtocolMerged DEF WriteInv

\* Before the last step no file is written and the metafile is not on the standard
\* output; the options change once, to the merged ones.
LEMMA EarlierStep ==
    ASSUME WriteInv, Earlier
    PROVE  WriteInv'
<1>1. cmd' = cmd /\ cmd \in Commands /\ pc # "done" /\ disk' = disk
  BY DEF WriteInv, Earlier, Postprocess, SetFiles, ChoosePieceSize, SetAnnounces,
     StartGroups, AddNextGroup, EndGroups, SetFields, FindPlace, Inform, Hash
<1>2. opts' = opts \/ opts' = Merge(cmd)
  BY DEF Earlier, Postprocess, SetFiles, ChoosePieceSize, SetAnnounces,
     StartGroups, AddNextGroup, EndGroups, SetFields, FindPlace, Inform, Hash, Fail
<1>3. opts'.protocol \in Protocols
  BY <1>1, <1>2, ProtocolMerged DEF WriteInv
<1>4. "metafile" \notin stdout'
  BY DEF WriteInv, Earlier, Postprocess, SetFiles, ChoosePieceSize, SetAnnounces,
     StartGroups, AddNextGroup, EndGroups, SetFields, FindPlace, Inform, Hash,
     Warnings, Shown
<1>5. pc' # "done"
  BY <1>1 DEF Earlier, Postprocess, SetFiles, ChoosePieceSize, SetAnnounces,
     StartGroups, AddNextGroup, EndGroups, SetFields, FindPlace, Inform, Hash,
     Fail, Goto
<1>6. pc' = "write" => hashed' = opts'.protocol
  BY <1>1 DEF Earlier, Postprocess, SetFiles, ChoosePieceSize, SetAnnounces,
     StartGroups, AddNextGroup, EndGroups, SetFields, FindPlace, Inform, Hash,
     Fail, Goto
<1> QED
  BY <1>1, <1>3, <1>4, <1>5, <1>6 DEF WriteInv

\* The last step writes to the destination, or to the standard output, what has
\* been hashed.
LEMMA WriteStep ==
    ASSUME WriteInv, Write
    PROVE  WriteInv'
<1>1. UNCHANGED <<cmd, opts, place, hashed>> /\ pc = "write" /\ pc' = "done"
  BY DEF Write, Goto
<1>2. hashed = opts.protocol /\ disk = NoFile /\ "metafile" \notin stdout
  BY <1>1 DEF WriteInv
<1>3. CASE ToStdout
  BY <1>1, <1>2, <1>3 DEF Write, WriteInv
<1>4. CASE ~ToStdout
  BY <1>1, <1>2, <1>4 DEF Write, WriteInv
<1> QED
  BY <1>3, <1>4

-----------------------------------------------------------------------------
\* Until the command is done nothing is written, and then there is one metafile, in
\* a file or on the standard output, with the hashes of the protocol asked for.
THEOREM WriteInvariant == Spec => []WriteInv
<1>1. WriteInv /\ [Next]_vars => WriteInv'
  <2> SUFFICES ASSUME WriteInv, [Next]_vars PROVE WriteInv'
    OBVIOUS
  <2>1. CASE Earlier
    BY <2>1, EarlierStep
  <2>2. CASE Write
    BY <2>2, WriteStep
  <2>3. CASE UNCHANGED vars
    BY <2>3 DEF vars, WriteInv
  <2> QED
    BY <2>1, <2>2, <2>3 DEF Next, Earlier
<1> QED
  BY InitWrite, <1>1, PTL DEF Spec

\* The metafile goes to one place, the one shown to the user, with the hashes that
\* were computed; a command that fails leaves none.
THEOREM OneMetafile == Spec => []WrittenOnce
<1>1. WriteInv => WrittenOnce
  <2> SUFFICES ASSUME WriteInv PROVE WrittenOnce
    OBVIOUS
  <2>1. opts.protocol # "none"
    BY DEF WriteInv, Protocols
  <2>2. CASE pc # "done"
    BY <2>2 DEF WriteInv, WrittenOnce
  <2>3. CASE pc = "done"
    <3>1. hashed = opts.protocol
      BY <2>3 DEF WriteInv
    <3>2. CASE disk = NoFile /\ "metafile" \in stdout
      BY <2>3, <3>1, <3>2 DEF WrittenOnce
    <3>3. CASE disk = [at |-> place, protocol |-> hashed] /\ "metafile" \notin stdout
      <4>1. disk.protocol = hashed /\ disk.at = place
        BY <3>3
      <4>2. NoFile.protocol = "none"
        BY DEF NoFile
      <4>3. disk # NoFile
        BY <2>1, <3>1, <4>1, <4>2
      <4> QED
        BY <2>3, <3>1, <3>3, <4>1, <4>3 DEF WrittenOnce
    <3> QED
      BY <2>3, <3>2, <3>3 DEF WriteInv
  <2> QED
    BY <2>2, <2>3
<1> QED
  BY <1>1, WriteInvariant, PTL

-----------------------------------------------------------------------------
(* Types. *)

\* The fields of a metafile that set_trackers reads.
LEMMA MetafileTags ==
    ASSUME NEW f \in Metafile
    PROVE  /\ HasTags(f) /\ f.trackers \in Tiers /\ f.private \in {"on", "off"}
           /\ f.source \in Texts \union Names \union {NoText}
BY DEF Metafile, HasTags

\* A metafile with other trackers, private flag and source tag is one, of the same name.
LEMMA MetafileUpdate ==
    ASSUME NEW f \in Metafile, NEW ts \in Tiers, NEW p \in {"on", "off"},
           NEW s \in Texts \union Names \union {NoText}
    PROVE  Tagged(f, ts, p, s) \in Metafile /\ Tagged(f, ts, p, s).text = f.text
BY DEF Metafile, Tagged

\* What set_trackers and set_tracker_group make of a metafile is one, of the same name.
LEMMA TrackersType ==
    ASSUME NEW f \in Metafile
    PROVE  /\ \A t \in Tiers, known \in BOOLEAN :
                 SetTrackers(f, t, known) \in Metafile /\ SetTrackers(f, t, known).text = f.text
           /\ \A g \in Groups : AddGroup(f, g) \in Metafile /\ AddGroup(f, g).text = f.text
           /\ \A n : SetFlag(f, n) \in Metafile /\ SetFlag(f, n).text = f.text
<1>0. /\ HasTags(f) /\ f.trackers \in Tiers /\ f.private \in {"on", "off"}
      /\ f.source \in Texts \union Names \union {NoText}
  BY MetafileTags
<1>1. ASSUME NEW t \in Tiers, NEW known \in BOOLEAN
      PROVE  SetTrackers(f, t, known) \in Metafile /\ SetTrackers(f, t, known).text = f.text
  <2>1. NewTrackers(f.trackers, t, known) \in Tiers
    BY <1>0, NewTrackersAre
  <2>2. NewFlag(f.private, t, known) \in {"on", "off"}
    BY <1>0 DEF NewFlag, Flag
  <2>3. NewSource(f.source, t, known) \in Texts \union Names \union {NoText}
    BY <1>0, DatabaseAssumption DEF NewSource
  <2> DEFINE n == NewTrackers(f.trackers, t, known)
             p == NewFlag(f.private, t, known)
             s == NewSource(f.source, t, known)
  <2>4. SetTrackers(f, t, known) = Tagged(f, n, p, s)
    BY <1>0, SetTrackersIs
  <2> HIDE DEF n, p, s
  <2>5. Tagged(f, n, p, s) \in Metafile /\ Tagged(f, n, p, s).text = f.text
    BY <2>1, <2>2, <2>3, MetafileUpdate DEF n, p, s
  <2> QED
    BY <2>4, <2>5
<1>2. ASSUME NEW g \in Groups
      PROVE  AddGroup(f, g) \in Metafile /\ AddGroup(f, g).text = f.text
  <2>1. AddGroup(f, g) = Tagged(f, WithGroup(f.trackers, g), f.private, f.source)
    BY <1>0, AddGroupIs
  <2>2. WithGroup(f.trackers, g) \in Tiers
    BY <1>0, WithGroupAre
  <2> QED
    BY <1>0, <2>1, <2>2, MetafileUpdate
<1>3. ASSUME NEW n
      PROVE  SetFlag(f, n) \in Metafile /\ SetFlag(f, n).text = f.text
  <2>1. (IF n # {} THEN "on" ELSE f.private) \in {"on", "off"}
    BY <1>0
  <2> QED
    BY <1>0, <2>1, AddGroupIs, MetafileUpdate
<1> QED
  BY <1>1, <1>2, <1>3

TypeInv == TypeOK /\ NameInv

\* The merged options are options.
LEMMA MergeType ==
    ASSUME NEW c \in Command
    PROVE  c.cli \in Options /\ Merge(c) \in Options
<1>1. c.cli \in Options /\ c.prof \in Options
  BY DEF Command
<1>2. \A o : From(c, o) \in Options
  BY <1>1 DEF From
<1>3. \A o : /\ From(c, o).announces \in Tiers /\ From(c, o).groups \in Seq(GroupNames)
             /\ From(c, o).lists \in [ListFields -> Seq(Items)]
             /\ From(c, o).text \in [TextFields -> Texts]
             /\ From(c, o).source \in Texts /\ From(c, o).private \in {"on", "off"}
             /\ From(c, o).output \in {"file", "dir", "stdout"}
             /\ From(c, o).protocol \in Protocols
             /\ From(c, o).piece \in Sizes /\ From(c, o).block \in Sizes
  BY <1>2 DEF Options
<1>4. c.cli.has \union c.prof.has \in SUBSET OptionNames
  BY <1>1 DEF Options
<1>5. [f \in ListFields |-> From(c, f).lists[f]] \in [ListFields -> Seq(Items)]
  BY <1>3
<1>6. [f \in TextFields |-> From(c, f).text[f]] \in [TextFields -> Texts]
  BY <1>3
<1> QED
  BY <1>1, <1>3, <1>4, <1>5, <1>6 DEF Merge, Options

\* The first state.
LEMMA InitType == Init => TypeInv
<1> SUFFICES ASSUME Init PROVE TypeInv
  OBVIOUS
<1>1. cmd \in Command /\ opts \in Options
  BY CreateAssumption, MergeType DEF Init
<1>2. m \in Metafile
  <2>1. <<>> \in Tiers /\ <<>> \in Seq(Items)
    BY DEF Tiers
  <2> QED
    BY <2>1 DEF Init, NewMetafile, Metafile
<1>3. disk \in [at : Place \union {<<>>}, protocol : Protocols \union {"none"}]
  BY DEF Init, NoFile
<1>4. todo \in Seq(GroupNames) /\ flags \subseteq PrivateNames
  BY DEF Init
<1>5. TypeOK
  BY <1>1, <1>2, <1>3, <1>4 DEF Init, TypeOK
<1>6. NameInv
  BY DEF Init, NameInv
<1> QED
  BY <1>5, <1>6 DEF TypeInv

\* The options are those given or the merged ones.
LEMMA OptionsStep ==
    ASSUME TypeInv, Next
    PROVE  /\ cmd' = cmd /\ loaded' = loaded /\ cmd \in Command /\ opts' \in Options
           /\ loaded' \subseteq {"config", "trackers"}
<1>1. /\ cmd' = cmd /\ loaded' = loaded
      /\ opts' = opts \/ opts' = Merge(cmd)
  BY DEF Next, Postprocess, SetFiles, ChoosePieceSize, SetAnnounces, StartGroups,
     AddNextGroup, EndGroups, SetFields, FindPlace, Inform, Hash, Write, Fail
<1>2. cmd \in Command /\ opts \in Options /\ loaded \subseteq {"config", "trackers"}
  BY DEF TypeInv, TypeOK
<1> QED
  BY <1>1, <1>2, MergeType

\* The metafile stays one, and keeps having a name.
LEMMA MetafileStep ==
    ASSUME TypeInv, Next
    PROVE  m' \in Metafile /\ NameInv'
<1>0. /\ m \in Metafile /\ opts \in Options
      /\ pc \notin {"postprocess", "select", "failed"} => m.text["name"] \in Texts
  BY DEF TypeInv, TypeOK, NameInv
<1>1. CASE Postprocess
  BY <1>0, <1>1 DEF Postprocess, Fail, Goto, NameInv
<1>2. CASE SetFiles
  <2>1. CASE pc' = "failed"
    BY <1>0, <1>2, <2>1 DEF SetFiles, Fail, Goto, NameInv
  <2>2. CASE pc' # "failed"
    <3>1. \E mode \in {"single", "multi"} :
             m' = [m EXCEPT !.mode = mode, !.text["name"] = Basename]
      BY <1>2, <2>2 DEF SetFiles, Fail
    <3>2. Basename \in Texts
      BY CreateAssumption
    <3>3. m'.text["name"] = Basename /\ m' \in Metafile
      <4>1. m.text \in [TextFields -> Texts \union {NoText}] /\ "name" \in TextFields
        BY <1>0 DEF Metafile, TextFields
      <4>2. [m.text EXCEPT !["name"] = Basename] \in [TextFields -> Texts \union {NoText}]
            /\ [m.text EXCEPT !["name"] = Basename]["name"] = Basename
        BY <3>2, <4>1
      <4> DEFINE t == [m.text EXCEPT !["name"] = Basename]
      <4>3. \E mode \in {"single", "multi"} : m' = [m EXCEPT !.mode = mode, !.text = t]
        BY <1>0, <3>1 DEF Metafile
      <4>4. t \in [TextFields -> Texts \union {NoText}] /\ t["name"] = Basename
        BY <4>2
      <4> HIDE DEF t
      <4>5. m'.text = t /\ m' \in Metafile
        BY <1>0, <4>3, <4>4 DEF Metafile
      <4> QED
        BY <4>4, <4>5
    <3> QED
      BY <3>2, <3>3 DEF NameInv
  <2> QED
    BY <2>1, <2>2
<1>3. CASE ChoosePieceSize
  BY <1>0, <1>3 DEF ChoosePieceSize, Goto, NameInv
<1>4. CASE SetAnnounces
  <2>1. CASE pc' = "failed"
    BY <1>0, <1>4, <2>1 DEF SetAnnounces, Fail, Goto, NameInv
  <2>2. CASE pc' # "failed"
    <3>1. m' = SetTrackers(m, opts.announces, Known) /\ pc = "announces"
      BY <1>4, <2>2 DEF SetAnnounces, Fail
    <3>2. opts.announces \in Tiers
      BY <1>0 DEF Options
    <3>3. Known \in BOOLEAN
      BY DEF Known
    <3>4. m' \in Metafile /\ m'.text = m.text
      BY <1>0, <3>1, <3>2, <3>3, TrackersType
    <3> QED
      BY <1>0, <3>1, <3>4 DEF NameInv
  <2> QED
    BY <2>1, <2>2
<1>5. CASE StartGroups
  BY <1>0, <1>5 DEF StartGroups, Fail, Goto, NameInv
<1>6. CASE AddNextGroup
  <2>1. CASE pc' = "failed"
    BY <1>0, <1>6, <2>1 DEF AddNextGroup, Fail, NameInv
  <2>2. CASE pc' # "failed"
    <3>1. m' = AddGroup(m, Head(todo)) /\ pc = "group" /\ Head(todo) \in Groups
      BY <1>6, <2>2 DEF AddNextGroup, Fail
    <3>2. m' \in Metafile /\ m'.text = m.text
      BY <1>0, <3>1, TrackersType
    <3> QED
      BY <1>0, <3>1, <3>2 DEF NameInv
  <2> QED
    BY <2>1, <2>2
<1>7. CASE EndGroups
  <2>1. m' = SetFlag(m, flags) /\ pc = "group"
    BY <1>7 DEF EndGroups
  <2>2. m' \in Metafile /\ m'.text = m.text
    BY <1>0, <2>1, TrackersType
  <2> QED
    BY <1>0, <2>1, <2>2 DEF NameInv
<1>8. CASE SetFields
  <2> DEFINE ts == [f \in TextFields |-> Text(f)]
             s  == IF Has("source") THEN opts.source ELSE m.source
             p  == IF Has("private") THEN opts.private ELSE m.private
             x  == IF Has("no-cross-seed") THEN "off" ELSE "on"
  <2>1. opts.lists \in [ListFields -> Seq(Items)] /\ opts.text \in [TextFields -> Texts]
        /\ opts.source \in Texts /\ opts.private \in {"on", "off"}
    BY <1>0 DEF Options
  <2>2. m.text \in [TextFields -> Texts \union {NoText}] /\ m.private \in {"on", "off"}
        /\ m.source \in Texts \union Names \union {NoText}
    BY <1>0 DEF Metafile
  <2>3. \A f \in TextFields : Text(f) \in Texts \union {NoText}
    BY <2>1, <2>2, CreateAssumption DEF Text
  <2>4. Text("name") \in Texts
    <3>1. ~Skipped("name") /\ "name" \in TextFields
      BY DEF Skipped, TextFields
    <3>2. pc = "fields"
      BY <1>8 DEF SetFields
    <3> QED
      BY <1>0, <2>1, <3>1, <3>2 DEF Text
  <2>5. ts \in [TextFields -> Texts \union {NoText}] /\ ts["name"] \in Texts
    BY <2>3, <2>4 DEF TextFields
  <2>6. s \in Texts \union Names \union {NoText} /\ p \in {"on", "off"} /\ x \in {"on", "off"}
    BY <2>1, <2>2
  <2>7. m' = [m EXCEPT !.lists = opts.lists, !.text = ts, !.source = s, !.private = p,
                       !.cross = x]
    BY <1>8 DEF SetFields
  <2> HIDE DEF ts, s, p, x
  <2>8. m'.text = ts /\ m' \in Metafile
    BY <1>0, <2>1, <2>5, <2>6, <2>7 DEF Metafile
  <2> QED
    BY <2>5, <2>8 DEF NameInv
<1>9. CASE FindPlace \/ Inform \/ Hash \/ Write
  BY <1>0, <1>9 DEF FindPlace, Inform, Hash, Write, Fail, Goto, NameInv
<1> QED
  BY <1>1, <1>2, <1>3, <1>4, <1>5, <1>6, <1>7, <1>8, <1>9 DEF Next

\* The destination, and what is written there.
LEMMA PlaceStep ==
    ASSUME TypeInv, Next
    PROVE  /\ place' \in Place \union {<<>>}
           /\ disk' \in [at : Place \union {<<>>}, protocol : Protocols \union {"none"}]
<1>0. /\ place \in Place \union {<<>>}
      /\ disk \in [at : Place \union {<<>>}, protocol : Protocols \union {"none"}]
      /\ opts.protocol \in Protocols
  BY DEF TypeInv, TypeOK, Options
<1>1. CASE FindPlace
  <2>1. m.text["name"] \in Texts /\ disk' = disk
    BY <1>1 DEF FindPlace, TypeInv, NameInv
  <2>2. Prefix \in Names \union {Nobody}
    <3>1. CASE \E u \in Urls : m.trackers = <<{u}>>
      <4>1. (CHOOSE u \in Urls : m.trackers = <<{u}>>) \in Urls
        BY <3>1
      <4> QED
        BY <4>1, DatabaseAssumption DEF Prefix
    <3>2. CASE ~ \E u \in Urls : m.trackers = <<{u}>>
      BY <3>2 DEF Prefix
    <3> QED
      BY <3>1, <3>2
  <2>3. place' \in Place
    BY <1>1, <2>1, <2>2 DEF FindPlace, Place
  <2> QED
    BY <1>0, <2>1, <2>3
<1>2. CASE Write
  BY <1>0, <1>2 DEF Write
<1>3. CASE ~FindPlace /\ ~Write
  <2>1. place' = place /\ disk' = disk
    BY <1>3 DEF Next, Postprocess, SetFiles, ChoosePieceSize, SetAnnounces, StartGroups,
       AddNextGroup, EndGroups, SetFields, Inform, Hash
  <2> QED
    BY <1>0, <2>1
<1> QED
  BY <1>1, <1>2, <1>3

\* The other variables.
LEMMA RestStep ==
    ASSUME TypeInv, Next
    PROVE  /\ piece' \in Sizes \union {0}
           /\ pc' \in {"postprocess", "select", "pieces", "announces", "group", "fields",
                       "place", "inform", "hash", "write", "done", "failed"}
           /\ todo' \in Seq(GroupNames)
           /\ flags' \subseteq PrivateNames
           /\ hashed' \in Protocols \union {"none"}
           /\ stdout' \subseteq {"warning", "newline", "text", "metafile"}
<1>0. TypeOK
  BY DEF TypeInv
<1>1. piece' \in Sizes \union {0}
  <2>1. opts.piece \in Sizes /\ piece \in Sizes \union {0}
    BY <1>0 DEF TypeOK, Options
  <2>2. piece' = piece \/ piece' \in {opts.piece} \/ piece' \in Sizes
    BY DEF Next, Postprocess, SetFiles, ChoosePieceSize, SetAnnounces, StartGroups,
       AddNextGroup, EndGroups, SetFields, FindPlace, Inform, Hash, Write
  <2> QED
    BY <2>1, <2>2
<1>2. pc' \in {"postprocess", "select", "pieces", "announces", "group", "fields",
               "place", "inform", "hash", "write", "done", "failed"}
  BY <1>0 DEF TypeOK, Next, Postprocess, SetFiles, ChoosePieceSize, SetAnnounces,
     StartGroups, AddNextGroup, EndGroups, SetFields, FindPlace, Inform, Hash, Write,
     Fail, Goto
<1>3. todo' \in Seq(GroupNames)
  <2>1. opts.groups \in Seq(GroupNames) /\ todo \in Seq(GroupNames)
    BY <1>0 DEF TypeOK, Options
  <2>2. todo' = todo \/ todo' = opts.groups \/ (todo # <<>> /\ todo' = Tail(todo))
    BY DEF Next, Postprocess, SetFiles, ChoosePieceSize, SetAnnounces, StartGroups,
       AddNextGroup, EndGroups, SetFields, FindPlace, Inform, Hash, Write
  <2>3. todo # <<>> => Tail(todo) \in Seq(GroupNames)
    BY <2>1
  <2> QED
    BY <2>1, <2>2, <2>3
<1>4. flags' \subseteq PrivateNames
  <2>1. flags' = flags \/ flags' = {} \/ flags' = flags \union PrivateIn(Head(todo))
    BY DEF Next, Postprocess, SetFiles, ChoosePieceSize, SetAnnounces, StartGroups,
       AddNextGroup, EndGroups, SetFields, FindPlace, Inform, Hash, Write
  <2> QED
    BY <1>0, <2>1 DEF TypeOK, PrivateIn
<1>5. hashed' \in Protocols \union {"none"}
  <2>1. opts.protocol \in Protocols /\ hashed \in Protocols \union {"none"}
    BY <1>0 DEF TypeOK, Options
  <2>2. hashed' = hashed \/ hashed' = opts.protocol
    BY DEF Next, Postprocess, SetFiles, ChoosePieceSize, SetAnnounces, StartGroups,
       AddNextGroup, EndGroups, SetFields, FindPlace, Inform, Hash, Write
  <2> QED
    BY <2>1, <2>2
<1>6. stdout' \subseteq {"warning", "newline", "text", "metafile"}
  BY <1>0 DEF TypeOK, Next, Postprocess, SetFiles, ChoosePieceSize, SetAnnounces,
     StartGroups, AddNextGroup, EndGroups, SetFields, FindPlace, Inform, Hash, Write,
     Warnings, Shown
<1> QED
  BY <1>1, <1>2, <1>3, <1>4, <1>5, <1>6

\* The types, with the name that is there, are kept by every step.
LEMMA TypeInvariant == Spec => []TypeInv
<1>1. TypeInv /\ [Next]_vars => TypeInv'
  <2>1. TypeInv /\ Next => TypeInv'
    BY OptionsStep, MetafileStep, PlaceStep, RestStep DEF TypeInv, TypeOK
  <2>2. TypeInv /\ UNCHANGED vars => TypeInv'
    BY DEF TypeInv, TypeOK, NameInv, vars
  <2> QED
    BY <2>1, <2>2
<1> QED
  BY InitType, <1>1, PTL DEF Spec

\* Every variable of the command keeps its type; the file name is made of a name
\* that is there.
THEOREM TypeCorrect == Spec => []TypeOK
<1>1. TypeInv => TypeOK
  BY DEF TypeInv
<1> QED
  BY <1>1, TypeInvariant, PTL

-----------------------------------------------------------------------------
(* Announces, flags and names: what the three properties need before the step they *)
(* are about.                                                                      *)

\* The options once a profile has been merged.
Applied == IF cmd.profile = "none" THEN cmd.cli ELSE Merge(cmd)

OptionsInv ==
    /\ pc = "postprocess" => opts = cmd.cli
    /\ pc \notin {"postprocess", "failed"} => opts = Applied

\* No announce has been set.
FreshInv ==
    pc \in {"postprocess", "select", "pieces", "announces"} =>
        m.trackers = <<>> /\ m.private = "off" /\ m.source = NoText

\* The announces of the first k groups, and the private ones among them.
Announced(k)  == UNION {Range(Announces[AskedGroups[i]]) : i \in 1 .. k}
AnnouncedPrivate(k) == UNION {PrivateIn(AskedGroups[i]) : i \in 1 .. k}

\* The URLs of announces.
UrlsOf(as) == {Resolve(a) : a \in as}

\* The loop over the groups has done the first k of them.
Done(k) ==
    /\ Len(todo) = Len(AskedGroups) - k
    /\ \A i \in DOMAIN todo : todo[i] = AskedGroups[k + i]
    /\ \A i \in 1 .. k : AskedGroups[i] \in Groups
    /\ All(m.trackers) = UrlsOf(Announced(k))
    /\ flags = AnnouncedPrivate(k)
    /\ k > 0 => \A i \in DOMAIN Announces[AskedGroups[1]] :
                   /\ i \in DOMAIN m.trackers
                   /\ m.trackers[i] = {Resolve(Announces[AskedGroups[1]][i])}

GroupsInv ==
    pc = "group" =>
        /\ Known /\ AskedGroups # <<>>
        /\ m.private = "off" /\ m.source = NoText
        /\ \A i \in DOMAIN m.trackers : \E u \in Urls : m.trackers[i] = {u}
        /\ \E k \in 0 .. Len(AskedGroups) : Done(k)

\* What the announces alone make of the private flag and the source tag.
TagsInv ==
    pc = "fields" =>
        /\ Known => /\ Used \cap PrivateNames # {} => m.private = "on"
                    /\ m.private = "on" => \E a \in Used : Entry(a) \in PrivateNames
        /\ m.source = DatabaseTag

AskedInv ==
    /\ OptionsInv /\ FreshInv /\ GroupsInv /\ TagsInv
    /\ TrackersOfGroupsOrList /\ FieldsAsChosen /\ DefaultNameAsDocumented

\* What the user has chosen does not change.
LEMMA Steady ==
    ASSUME UNCHANGED <<cmd, loaded>>
    PROVE  /\ \A o : Given(o)' = Given(o) /\ (Chosen(o)' <=> Chosen(o))
           /\ AskedAnnounces' = AskedAnnounces /\ AskedGroups' = AskedGroups /\ Used' = Used
           /\ (Known' <=> Known) /\ Applied' = Applied
           /\ \A k : /\ Announced(k)' = Announced(k)
                    /\ AnnouncedPrivate(k)' = AnnouncedPrivate(k)
           /\ DatabaseTag' = DatabaseTag
           /\ \A f : LeftOut(f)' <=> LeftOut(f)
<1>1. /\ \A o : Given(o)' = Given(o) /\ (Chosen(o)' <=> Chosen(o))
      /\ AskedAnnounces' = AskedAnnounces /\ AskedGroups' = AskedGroups
      /\ (Known' <=> Known)
  BY DEF Given, Chosen, AskedAnnounces, AskedGroups, Known
<1>2. DatabaseTag' = DatabaseTag /\ \A f : LeftOut(f)' <=> LeftOut(f)
  BY <1>1 DEF DatabaseTag, LeftOut
<1>3. Applied' = Applied
  BY DEF Applied, Merge, From
<1> QED
  BY <1>1, <1>2, <1>3 DEF Announced, AnnouncedPrivate, Used

\* The merged options are those chosen.
LEMMA AppliedIsGiven ==
    ASSUME cmd \in Command
    PROVE  /\ Applied.announces = AskedAnnounces /\ AskedAnnounces \in Tiers
           /\ Applied.groups = AskedGroups /\ AskedGroups \in Seq(GroupNames)
           /\ \A o : o \in Applied.has <=> Chosen(o)
           /\ Applied.private = Given("private").private
           /\ Applied.private \in {"on", "off"}
           /\ Applied.source = Given("source").source
           /\ \A f \in TextFields : Applied.text[f] = Given(f).text[f]
           /\ \A f \in ListFields : Applied.lists[f] = Given(f).lists[f]
           /\ Applied.lists \in [ListFields -> Seq(Items)]
<1>1. /\ cmd.cli \in Options /\ cmd.prof \in Options
      /\ cmd.profile \in {"none", "unknown", "edit", "create"}
  BY DEF Command
<1>2. CASE cmd.profile = "none"
  BY <1>1, <1>2 DEF Applied, Given, Chosen, AskedAnnounces, AskedGroups, Options
<1>3. CASE cmd.profile # "none"
  <2>1. \A o : Given(o) = From(cmd, o) /\ From(cmd, o) \in Options
    BY <1>1, <1>3 DEF Given, From
  <2>2. Applied = Merge(cmd)
    BY <1>3 DEF Applied
  <2>3. /\ Merge(cmd).has = cmd.cli.has \union cmd.prof.has
        /\ Merge(cmd).announces = From(cmd, "announce").announces
        /\ Merge(cmd).groups = From(cmd, "announce-group").groups
        /\ Merge(cmd).private = From(cmd, "private").private
        /\ Merge(cmd).source = From(cmd, "source").source
        /\ \A f \in TextFields : Merge(cmd).text[f] = From(cmd, f).text[f]
        /\ \A f \in ListFields : Merge(cmd).lists[f] = From(cmd, f).lists[f]
        /\ Merge(cmd).lists \in [ListFields -> Seq(Items)]
    BY <2>1 DEF Merge, Options
  <2>4. \A o : o \in Merge(cmd).has <=> o \in From(cmd, o).has
    BY <2>3 DEF From
  <2>6. /\ From(cmd, "announce").announces \in Tiers
        /\ From(cmd, "announce-group").groups \in Seq(GroupNames)
        /\ From(cmd, "private").private \in {"on", "off"}
    BY <2>1 DEF Options
  <2> QED
    BY <2>1, <2>2, <2>3, <2>4, <2>6 DEF Chosen, AskedAnnounces, AskedGroups
<1> QED
  BY <1>2, <1>3

\* The first state.
LEMMA InitAsked == Init => AskedInv
<1> SUFFICES ASSUME Init PROVE AskedInv
  OBVIOUS
<1>1. pc = "postprocess" /\ m = NewMetafile /\ opts = cmd.cli
  BY DEF Init
<1>2. m.trackers = <<>> /\ m.private = "off" /\ m.source = NoText
  BY <1>1 DEF NewMetafile
<1> QED
  BY <1>1, <1>2 DEF AskedInv, OptionsInv, FreshInv, GroupsInv, TagsInv, TrackersOfGroupsOrList,
     FieldsAsChosen, DefaultNameAsDocumented

\* The options are merged once.
LEMMA OptionsKept ==
    ASSUME TypeInv, OptionsInv, Next
    PROVE  OptionsInv'
<1>1. cmd' = cmd /\ Applied' = Applied
  BY OptionsStep, Steady
<1>2. CASE Postprocess
  <2>1. pc' # "failed" => opts' = Applied
    <3>1. CASE cmd.profile = "none"
      <4>1. pc = "postprocess" /\ opts = cmd.cli
        BY <1>2 DEF Postprocess, OptionsInv
      <4> QED
        BY <1>2, <3>1, <4>1 DEF Postprocess, Fail, Applied
    <3> QED
      BY <1>2, <3>1 DEF Postprocess, Fail, Applied
  <2> QED
    BY <1>2, <1>1, <2>1 DEF OptionsInv, Postprocess, Goto, Fail
<1>3. CASE ~Postprocess
  <2>1. /\ pc \notin {"postprocess", "failed"} /\ opts' = opts
        /\ pc' # "postprocess"
    BY <1>3 DEF Next, SetFiles, ChoosePieceSize, SetAnnounces, StartGroups,
       AddNextGroup, EndGroups, SetFields, FindPlace, Inform, Hash, Write, Fail, Goto
  <2> QED
    BY <1>1, <2>1 DEF OptionsInv
<1> QED
  BY <1>2, <1>3
\* Nothing is announced before set_trackers or set_tracker_group runs.
LEMMA FreshKept ==
    ASSUME TypeInv, FreshInv, Next
    PROVE  FreshInv'
<1>1. CASE Postprocess \/ ChoosePieceSize
  BY <1>1 DEF FreshInv, Postprocess, ChoosePieceSize, Fail, Goto
<1>2. CASE SetFiles
  <2>1. pc = "select" /\ (m' = m \/ \E mode \in {"single", "multi"} :
                              m' = [m EXCEPT !.mode = mode, !.text["name"] = Basename])
    BY <1>2 DEF SetFiles, Fail
  <2>2. m'.trackers = m.trackers /\ m'.private = m.private /\ m'.source = m.source
    BY <2>1 DEF TypeInv, TypeOK, Metafile
  <2> QED
    BY <2>1, <2>2 DEF FreshInv
<1>3. CASE ~Postprocess /\ ~SetFiles /\ ~ChoosePieceSize
  BY <1>3 DEF FreshInv, Next, SetAnnounces, StartGroups, AddNextGroup, EndGroups,
     SetFields, FindPlace, Inform, Hash, Write, Fail, Goto
<1> QED
  BY <1>1, <1>2, <1>3

\* set_trackers gives the metafile the trackers the announces stand for, and a flag
\* and a tag that fit them.
LEMMA AnnouncesStep ==
    ASSUME TypeInv, AskedInv, SetAnnounces
    PROVE  TrackersOfGroupsOrList' /\ TagsInv'
<1>0. /\ cmd' = cmd /\ loaded' = loaded /\ pc = "announces" /\ opts.groups = <<>>
      /\ pc' \in {"failed", "fields"}
  BY DEF SetAnnounces, Fail, Goto
<1>1. CASE pc' = "failed"
  BY <1>1 DEF TrackersOfGroupsOrList, TagsInv
<1>2. CASE pc' # "failed"
  <2> DEFINE A == AskedAnnounces
  <2>1. /\ m' = SetTrackers(m, opts.announces, Known)
        /\ ~(Known /\ Unusable(opts.announces))
    BY <1>2 DEF SetAnnounces, Fail
  <2>2. opts.announces = A /\ AskedGroups = <<>> /\ A \in Tiers
    <3>1. opts = Applied /\ cmd \in Command
      BY <1>0 DEF AskedInv, OptionsInv, TypeInv, TypeOK
    <3> QED
      BY <1>0, <3>1, AppliedIsGiven
  <2>3. /\ m.trackers = <<>> /\ m.private = "off" /\ m.source = NoText
        /\ m \in Metafile /\ Known \in BOOLEAN
    BY <1>0 DEF AskedInv, FreshInv, TypeInv, TypeOK, Known
  <2>4. m' = Tagged(m, NewTrackers(<<>>, A, Known), NewFlag("off", A, Known),
                       NewSource(NoText, A, Known))
    <3>1. HasTags(m)
      BY <2>3, MetafileTags
    <3> QED
      BY <2>1, <2>2, <2>3, <3>1, SetTrackersIs
  <2>5. /\ m'.trackers = NewTrackers(<<>>, A, Known)
        /\ m'.private = NewFlag("off", A, Known)
        /\ m'.source = NewSource(NoText, A, Known)
    BY <2>3, <2>4, MetafileTags, TaggedFields
  <2>6. m'.trackers = Read(A, Known)
    <3>1. <<>> \in Tiers
      BY DEF Tiers
    <3> QED
      BY <2>2, <2>3, <2>5, <3>1, NewTrackersAre
  <2>7. Known => All(m'.trackers) \subseteq Urls
    BY <2>2, <2>3, <2>6, ReadType
  <2>8. Used = All(A)
    BY <2>2 DEF Used
  <2>9. Known => /\ Used \cap PrivateNames # {} => m'.private = "on"
                 /\ m'.private = "on" => \E a \in Used : Entry(a) \in PrivateNames
    BY <2>2, <2>5, <2>8, NewFlagMeans
  <2>10. m'.source = DatabaseTag
    BY <2>2, <2>5 DEF NewSource, DatabaseTag
  <2>11. /\ AskedGroups' = AskedGroups /\ AskedAnnounces' = A /\ Used' = Used
         /\ (Known' <=> Known) /\ DatabaseTag' = DatabaseTag
    BY <1>0, Steady
  <2>12. TrackersOfGroupsOrList'
    BY <2>2, <2>6, <2>7, <2>11 DEF TrackersOfGroupsOrList, Meant, Read
  <2> HIDE DEF A
  <2>13. TagsInv'
    BY <2>9, <2>10, <2>11 DEF TagsInv
  <2> QED
    BY <2>12, <2>13
<1> QED
  BY <1>1, <1>2
\* A group goes to the end of the list, and no group gets lost.
LEMMA GroupStep ==
    ASSUME TypeInv, AskedInv, AddNextGroup
    PROVE  GroupsInv'
<1>0. /\ cmd' = cmd /\ loaded' = loaded /\ pc = "group" /\ todo # <<>>
      /\ pc' \in {"failed", "group"}
  BY DEF AddNextGroup, Fail
<1> DEFINE G == AskedGroups
           g == Head(todo)
<1>1. /\ cmd \in Command /\ m \in Metafile /\ todo \in Seq(GroupNames)
      /\ G \in Seq(GroupNames)
  BY AppliedIsGiven DEF TypeInv, TypeOK
<1>2. /\ Known /\ G # <<>> /\ m.private = "off" /\ m.source = NoText
      /\ \A i \in DOMAIN m.trackers : \E u \in Urls : m.trackers[i] = {u}
      /\ \E k \in 0 .. Len(G) : Done(k)
  BY <1>0 DEF AskedInv, GroupsInv
<1>3. PICK k \in 0 .. Len(G) : Done(k)
  BY <1>2
<1>4. G' = G /\ (Known' <=> Known)
  BY <1>0, Steady
<1>5. CASE pc' = "failed"
  BY <1>5 DEF GroupsInv
<1>6. CASE pc' = "group"
  <2>1. /\ m' = AddGroup(m, g) /\ g \in Groups /\ todo' = Tail(todo)
        /\ flags' = flags \union PrivateIn(g)
    BY <1>0, <1>6 DEF AddNextGroup, Fail
  <2>2. /\ m'.trackers = WithGroup(m.trackers, g) /\ m'.private = m.private
        /\ m'.source = m.source /\ m.trackers \in Tiers
    BY <1>1, <2>1, MetafileTags, AddGroupIs, TaggedFields
  <2> DEFINE ts == m.trackers
             n == WithGroup(m.trackers, g)
  <2>3. /\ Len(n) = Len(ts) + Len(Announces[g])
        /\ All(n) = All(ts) \union UrlsOf(Range(Announces[g]))
        /\ \A i \in DOMAIN ts : i \in DOMAIN n /\ n[i] = ts[i]
        /\ \A i \in DOMAIN Announces[g] : n[Len(ts) + i] = {Resolve(Announces[g][i])}
        /\ \A i \in DOMAIN n : i \in DOMAIN ts \/ \E u \in Urls : n[i] = {u}
        /\ n \in Tiers
    BY <2>1, <2>2, WithGroupAre DEF UrlsOf
  <2>0. m'.trackers = n
    BY <2>2
  <2> HIDE DEF n
  <2>4. /\ k \in Nat /\ k < Len(G) /\ k + 1 \in 0 .. Len(G) /\ Len(G) \in Nat
        /\ g = G[k + 1] /\ Len(Tail(todo)) = Len(G) - (k + 1)
        /\ \A i \in DOMAIN Tail(todo) : Tail(todo)[i] = G[(k + 1) + i]
    <3>1. /\ Len(todo) = Len(G) - k /\ \A i \in DOMAIN todo : todo[i] = G[k + i]
      BY <1>3 DEF Done
    <3>2. /\ Len(todo) \in Nat /\ Len(todo) > 0 /\ Len(G) \in Nat /\ k \in Nat
          /\ g = todo[1] /\ 1 \in DOMAIN todo /\ Len(Tail(todo)) = Len(todo) - 1
          /\ \A i \in DOMAIN Tail(todo) : Tail(todo)[i] = todo[i + 1] /\ i + 1 \in DOMAIN todo
      BY <1>0, <1>1
    <3>3. \A i \in DOMAIN Tail(todo) : k + (i + 1) = (k + 1) + i
      <4>1. \A i \in DOMAIN Tail(todo) : i \in Nat
        BY <1>0, <1>1
      <4> QED
        BY <3>2, <4>1
    <3> HIDE DEF G, g
    <3>4. k < Len(G) /\ k + 1 \in 0 .. Len(G) /\ Len(Tail(todo)) = Len(G) - (k + 1)
      BY <3>1, <3>2
    <3> QED
      BY <3>1, <3>2, <3>3, <3>4
  <2>5. \A i \in 1 .. k + 1 : i \in 1 .. k \/ i = k + 1
    BY <2>4
  <2>6. /\ Announced(k + 1) = Announced(k) \union Range(Announces[g])
        /\ AnnouncedPrivate(k + 1) = AnnouncedPrivate(k) \union PrivateIn(g)
    <3>1. 1 .. (k + 1) = (1 .. k) \union {k + 1}
      BY <2>4
    <3>2. Announced(k + 1) = Announced(k) \union Range(Announces[G[k + 1]])
      BY <3>1 DEF Announced
    <3>3. AnnouncedPrivate(k + 1) = AnnouncedPrivate(k) \union PrivateIn(G[k + 1])
      BY <3>1 DEF AnnouncedPrivate
    <3> QED
      BY <2>4, <3>2, <3>3
  <2>7. /\ \A i \in 1 .. k : G[i] \in Groups
        /\ All(ts) = UrlsOf(Announced(k)) /\ flags = AnnouncedPrivate(k)
        /\ k > 0 => \A i \in DOMAIN Announces[G[1]] :
                       i \in DOMAIN ts /\ ts[i] = {Resolve(Announces[G[1]][i])}
    BY <1>3 DEF Done
  <2>8. All(n) = UrlsOf(Announced(k + 1)) /\ flags' = AnnouncedPrivate(k + 1)
    <3>1. \A x, y : UrlsOf(x \union y) = UrlsOf(x) \union UrlsOf(y)
      BY DEF UrlsOf
    <3> QED
      BY <2>1, <2>3, <2>6, <2>7, <3>1
  <2>9. ASSUME NEW i \in DOMAIN Announces[G[1]]
        PROVE  i \in DOMAIN n /\ n[i] = {Resolve(Announces[G[1]][i])}
    <3>1. CASE k > 0
      BY <2>3, <2>7, <2>9, <3>1
    <3>2. CASE k = 0
      <4>1. ts = <<>> /\ g = G[1]
        <5>1. All(ts) = {}
          <6>1. UrlsOf(Announced(0)) = {}
            BY DEF Announced, UrlsOf
          <6> QED
            BY <2>7, <3>2, <6>1
        <5>2. \A j \in DOMAIN ts : \E u \in Urls : u \in ts[j]
          BY <1>2
        <5>3. DOMAIN ts = {}
          <6> SUFFICES ASSUME NEW j \in DOMAIN ts PROVE FALSE
            OBVIOUS
          <6>1. PICK u \in Urls : u \in ts[j]
            BY <5>2
          <6>2. u \in All(ts)
            BY <2>2, <6>1, AllMember
          <6> QED
            BY <5>1, <6>2
        <5>4. ts = <<>>
          <6>1. ts \in Seq(SUBSET Announce)
            BY <2>2 DEF Tiers
          <6> HIDE DEF ts
          <6>2. Len(ts) = 0
            <7>1. Len(ts) \in Nat /\ DOMAIN ts = 1 .. Len(ts)
              BY <6>1
            <7>2. 1 \notin DOMAIN ts
              BY <5>3
            <7> QED
              BY <7>1, <7>2
          <6> QED
            BY <6>1, <6>2
        <5>5. k + 1 = 1
          BY <3>2
        <5> QED
          BY <2>4, <5>4, <5>5
      <4>2. n[0 + i] = {Resolve(Announces[g][i])}
        BY <2>3, <2>9, <4>1
      <4>3. Announces[g] \in Seq(Announce)
        BY <2>1, GroupAssumption DEF Announce
      <4>4. 0 + i = i /\ Len(n) = Len(Announces[g]) /\ i \in 1 .. Len(Announces[g])
        <5>1. Len(ts) = 0 /\ i \in DOMAIN Announces[g] /\ Len(Announces[g]) \in Nat
          BY <2>9, <4>1, <4>3
        <5> QED
          BY <2>3, <4>3, <5>1
      <4> QED
        BY <2>3, <4>1, <4>2, <4>4 DEF Tiers
    <3> QED
      BY <2>4, <3>1, <3>2
  <2>10. \A i \in 1 .. k + 1 : G[i] \in Groups
    BY <2>1, <2>4, <2>5, <2>7
  <2>11. Done(k + 1)'
    <3>1. /\ Announced(k + 1)' = Announced(k + 1)
          /\ AnnouncedPrivate(k + 1)' = AnnouncedPrivate(k + 1)
      BY <1>0, Steady
    <3>2. /\ Len(todo') = Len(G) - (k + 1)
          /\ \A i \in DOMAIN todo' : todo'[i] = G[(k + 1) + i]
      BY <2>1, <2>4
    <3>3. UrlsOf(Announced(k + 1))' = UrlsOf(Announced(k + 1))
      BY <3>1 DEF UrlsOf
    <3>4. All(m.trackers)' = All(n)
      BY <2>0
    <3> QED
      BY <1>4, <2>0, <2>8, <2>9, <2>10, <3>1, <3>2, <3>3, <3>4 DEF Done
  <2>12. \A i \in DOMAIN n : \E u \in Urls : n[i] = {u}
    BY <1>2, <2>3
  <2> QED
    BY <1>2, <1>4, <2>2, <2>0, <2>4, <2>11, <2>12 DEF GroupsInv
<1> QED
  BY <1>0, <1>5, <1>6
\* Before the first group there are no trackers.
LEMMA StartGroupsStep ==
    ASSUME TypeInv, AskedInv, StartGroups
    PROVE  GroupsInv'
<1>0. cmd' = cmd /\ loaded' = loaded /\ pc = "announces" /\ opts.groups # <<>>
  BY DEF StartGroups
<1>1. opts.groups = AskedGroups /\ AskedGroups \in Seq(GroupNames)
  <2>1. opts = Applied /\ cmd \in Command
    BY <1>0 DEF AskedInv, OptionsInv, TypeInv, TypeOK
  <2> QED
    BY <2>1, AppliedIsGiven
<1>2. AskedGroups' = AskedGroups /\ (Known' <=> Known)
  BY <1>0, Steady
<1>3. m.trackers = <<>> /\ m.private = "off" /\ m.source = NoText
  BY <1>0 DEF AskedInv, FreshInv
<1>4. CASE pc' = "group"
  <2>1. Known /\ m' = m /\ todo' = AskedGroups /\ flags' = {}
    BY <1>1, <1>4 DEF StartGroups, Fail
  <2>2. Announced(0) = {} /\ AnnouncedPrivate(0) = {}
    BY DEF Announced, AnnouncedPrivate
  <2>3. UrlsOf(Announced(0)) = {} /\ All(<<>>) = {} /\ DOMAIN <<>> = {}
    <3>1. <<>> \in Tiers /\ DOMAIN <<>> = {}
      BY DEF Tiers
    <3> QED
      BY <2>2, <3>1, AllMember DEF UrlsOf
  <2>4. /\ Announced(0)' = Announced(0) /\ AnnouncedPrivate(0)' = AnnouncedPrivate(0)
        /\ UrlsOf(Announced(0))' = {} /\ All(m.trackers)' = {}
    BY <1>0, <1>3, <2>1, <2>3, Steady DEF UrlsOf
  <2>5. /\ Len(AskedGroups) - 0 = Len(AskedGroups) /\ 0 \in 0 .. Len(AskedGroups)
        /\ \A i \in DOMAIN AskedGroups : 0 + i = i
    BY <1>1
  <2>6. Done(0)'
    BY <1>2, <2>1, <2>2, <2>4, <2>5 DEF Done
  <2> QED
    BY <1>0, <1>1, <1>2, <1>3, <2>1, <2>3, <2>5, <2>6 DEF GroupsInv
<1> QED
  BY <1>4 DEF GroupsInv

\* When all groups are done, the trackers are those of the groups, and the private
\* flag is on if one of them is private.
LEMMA EndGroupsStep ==
    ASSUME TypeInv, AskedInv, EndGroups
    PROVE  TrackersOfGroupsOrList' /\ TagsInv'
<1>0. /\ cmd' = cmd /\ loaded' = loaded /\ pc = "group" /\ pc' = "fields" /\ todo = <<>>
      /\ m' = SetFlag(m, flags)
  BY DEF EndGroups, Goto
<1> DEFINE G == AskedGroups
<1>1. cmd \in Command /\ m \in Metafile /\ G \in Seq(GroupNames)
  BY AppliedIsGiven DEF TypeInv, TypeOK
<1>2. /\ Known /\ G # <<>> /\ m.private = "off" /\ m.source = NoText
      /\ \A i \in DOMAIN m.trackers : \E u \in Urls : m.trackers[i] = {u}
      /\ \E k \in 0 .. Len(G) : Done(k)
  BY <1>0 DEF AskedInv, GroupsInv
<1>3. Done(Len(G)) /\ Len(G) \in Nat /\ Len(G) > 0 /\ DOMAIN G = 1 .. Len(G)
  <2>1. PICK k \in 0 .. Len(G) : Done(k)
    BY <1>2
  <2>2. Len(todo) = 0 /\ Len(G) \in Nat /\ Len(G) > 0 /\ DOMAIN G = 1 .. Len(G)
    BY <1>0, <1>1, <1>2
  <2>3. k = Len(G)
    BY <2>1, <2>2 DEF Done
  <2> QED
    BY <2>1, <2>2, <2>3
<1>4. /\ m'.trackers = m.trackers /\ m'.source = m.source
      /\ m'.private = IF flags # {} THEN "on" ELSE m.private
  BY <1>0, <1>1, MetafileTags, AddGroupIs, TaggedFields
<1>5. Used = Announced(Len(G)) /\ flags = Used \cap PrivateNames
  <2>1. Used = UNION {Range(Announces[g]) : g \in Range(G)}
    BY <1>2 DEF Used
  <2>2. Range(G) = {G[i] : i \in 1 .. Len(G)}
    BY <1>3 DEF Range
  <2>3. Used = Announced(Len(G))
    BY <2>1, <2>2 DEF Announced
  <2>4. flags = AnnouncedPrivate(Len(G))
    BY <1>3 DEF Done
  <2>5. AnnouncedPrivate(Len(G)) = Announced(Len(G)) \cap PrivateNames
    BY DEF AnnouncedPrivate, Announced, PrivateIn
  <2> QED
    BY <2>3, <2>4, <2>5
<1>6. /\ AskedGroups' = G /\ AskedAnnounces' = AskedAnnounces /\ Used' = Used
      /\ (Known' <=> Known) /\ DatabaseTag' = DatabaseTag /\ DatabaseTag = m'.source
  BY <1>0, <1>2, <1>4, Steady DEF DatabaseTag
<1>7. /\ All(m.trackers) = {Resolve(a) : a \in Used}
      /\ \A i \in DOMAIN Announces[G[1]] : m.trackers[i] = {Resolve(Announces[G[1]][i])}
  BY <1>3, <1>5 DEF Done, UrlsOf
<1>8. All(m.trackers) \subseteq Urls
  <2>1. m.trackers \in Tiers
    BY <1>1, MetafileTags
  <2> QED
    BY <1>2, <2>1, AllMember
<1>9. TrackersOfGroupsOrList'
  BY <1>2, <1>4, <1>6, <1>7, <1>8 DEF TrackersOfGroupsOrList
<1>10. TagsInv'
  <2>1. Used \cap PrivateNames # {} => m'.private = "on"
    BY <1>4, <1>5
  <2>2. m'.private = "on" => Used \cap PrivateNames # {}
    <3>1. "off" # "on"
      OBVIOUS
    <3> QED
      BY <1>2, <1>4, <1>5, <3>1
  <2>3. \A a \in PrivateNames : Entry(a) = a
    BY DatabaseAssumption DEF Entry
  <2> QED
    BY <1>2, <1>4, <1>6, <2>1, <2>2, <2>3 DEF TagsInv
<1> QED
  BY <1>9, <1>10

\* The fields the user gives are written over what the announces have set; the
\* trackers stay.
LEMMA FieldsStep ==
    ASSUME TypeInv, AskedInv, SetFields
    PROVE  TrackersOfGroupsOrList' /\ FieldsAsChosen'
<1>0. /\ cmd' = cmd /\ loaded' = loaded /\ pc = "fields" /\ pc' = "place"
      /\ opts = Applied /\ cmd \in Command /\ m \in Metafile /\ opts \in Options
  BY DEF SetFields, Goto, AskedInv, OptionsInv, TypeInv, TypeOK
<1>1. /\ m'.trackers = m.trackers
      /\ m'.source = (IF Has("source") THEN opts.source ELSE m.source)
      /\ m'.private = (IF Has("private") THEN opts.private ELSE m.private)
      /\ m'.text = [f \in TextFields |-> Text(f)] /\ m'.lists = opts.lists
      /\ m'.cross = (IF Has("no-cross-seed") THEN "off" ELSE "on")
  <2> DEFINE ts == [f \in TextFields |-> Text(f)]
             s  == IF Has("source") THEN opts.source ELSE m.source
             p  == IF Has("private") THEN opts.private ELSE m.private
             x  == IF Has("no-cross-seed") THEN "off" ELSE "on"
  <2>1. m' = [m EXCEPT !.lists = opts.lists, !.text = ts, !.source = s, !.private = p,
                       !.cross = x]
    BY DEF SetFields
  <2> HIDE DEF ts, s, p, x
  <2>2. /\ m'.trackers = m.trackers /\ m'.source = s /\ m'.private = p /\ m'.text = ts
        /\ m'.lists = opts.lists /\ m'.cross = x
    BY <1>0, <2>1 DEF Metafile
  <2> QED
    BY <2>2 DEF ts, s, p, x
<1>2. /\ \A o : Has(o) <=> Chosen(o)
      /\ opts.private = Given("private").private /\ opts.source = Given("source").source
      /\ \A f \in TextFields : opts.text[f] = Given(f).text[f]
      /\ \A f \in ListFields : opts.lists[f] = Given(f).lists[f]
  BY <1>0, AppliedIsGiven DEF Has
<1>3. /\ \A o : Given(o)' = Given(o) /\ (Chosen(o)' <=> Chosen(o))
      /\ AskedGroups' = AskedGroups /\ AskedAnnounces' = AskedAnnounces /\ Used' = Used
      /\ (Known' <=> Known) /\ DatabaseTag' = DatabaseTag
      /\ \A f : LeftOut(f)' <=> LeftOut(f)
  BY <1>0, Steady
<1>4. TrackersOfGroupsOrList'
  <2>1. TrackersOfGroupsOrList
    BY DEF AskedInv
  <2> QED
    BY <1>0, <1>1, <1>3, <2>1 DEF TrackersOfGroupsOrList, Meant
<1>5. /\ Chosen("private") => m'.private = Given("private").private
      /\ Chosen("source") => m'.source = Given("source").source
      /\ ~Chosen("private") => m'.private = m.private
      /\ ~Chosen("source") => m'.source = m.source
  BY <1>1, <1>2
<1>6. /\ \A f \in TextFields :
            Chosen(f) => m'.text[f] = IF LeftOut(f) THEN NoText ELSE Given(f).text[f]
      /\ \A f \in {"created-by", "creation-date"} :
            ~Chosen(f) => m'.text[f] = IF LeftOut(f) THEN NoText ELSE Stamp
  <2>1. \A f : Skipped(f) <=> LeftOut(f)
    BY <1>2 DEF Skipped, LeftOut
  <2>2. \A f : Chosen(f) => Text(f) = IF LeftOut(f) THEN NoText ELSE opts.text[f]
    BY <1>2, <2>1 DEF Text
  <2>3. \A f \in {"created-by", "creation-date"} :
           ~Chosen(f) => Text(f) = IF LeftOut(f) THEN NoText ELSE Stamp
    BY <1>2, <2>1 DEF Text
  <2>4. {"created-by", "creation-date"} \subseteq TextFields
    BY DEF TextFields
  <2> QED
    BY <1>1, <1>2, <2>2, <2>3, <2>4
<1>7. /\ Known => /\ Used \cap PrivateNames # {} => m.private = "on"
                  /\ m.private = "on" => \E a \in Used : Entry(a) \in PrivateNames
      /\ m.source = DatabaseTag
  BY <1>0 DEF AskedInv, TagsInv
<1>9. /\ \A f \in ListFields : m'.lists[f] = Given(f).lists[f]
      /\ m'.cross = IF Chosen("no-cross-seed") THEN "off" ELSE "on"
  BY <1>1, <1>2
<1>8. FieldsAsChosen'
  BY <1>0, <1>3, <1>5, <1>6, <1>7, <1>9 DEF FieldsAsChosen
<1> QED
  BY <1>4, <1>8
\* The file name is looked up from the trackers that are there.
LEMMA PlaceFound ==
    ASSUME TypeInv, AskedInv, FindPlace
    PROVE  DefaultNameAsDocumented'
<1>0. /\ loaded' = loaded /\ m' = m /\ pc = "place" /\ (Known' <=> Known) /\ m \in Metafile
  BY DEF FindPlace, Known, TypeInv, TypeOK
<1> DEFINE ts == m.trackers
<1>1. ts \in Tiers
  BY <1>0, MetafileTags
<1> SUFFICES ASSUME place'.name # "given"
             PROVE  /\ place'.name = m.text["name"]
                    /\ Known => \A n \in Names :
                          All(ts) = {UrlOf[n]} /\ Len(ts) = 1 => place'.prefix = n
                    /\ \A u, w \in All(ts) : u # w => place'.prefix = Nobody
  BY <1>0 DEF DefaultNameAsDocumented
<1>2. place'.prefix = Prefix /\ place'.name = m.text["name"]
  BY DEF FindPlace
<1>3. \A u : ts = <<{u}>> => All(ts) = {u}
  <2>1. ASSUME NEW u, ts = <<{u}>> PROVE All(ts) = {u}
    <3>1. DOMAIN ts = {1} /\ ts[1] = {u}
      BY <2>1
    <3>2. \A a : a \in All(ts) <=> a \in {u}
      BY <1>1, <3>1, AllMember
    <3> QED
      BY <3>2
  <2> QED
    BY <2>1
<1> HIDE DEF ts
<1>4. ASSUME Known, NEW n \in Names, All(ts) = {UrlOf[n]}, Len(ts) = 1
      PROVE  Prefix = n
  <2>1. UrlOf[n] \in Urls /\ NameOf[UrlOf[n]] = n
    BY DatabaseAssumption
  <2>2. ts = <<{UrlOf[n]}>>
    <3>1. ts[1] = {UrlOf[n]}
      <4>1. \A a : a \in All(ts) <=> \E i \in DOMAIN ts : a \in ts[i]
        BY <1>1, AllMember
      <4>2. DOMAIN ts = {1}
        BY <1>1, <1>4 DEF Tiers
      <4>3. \A a : a \in ts[1] <=> a \in {UrlOf[n]}
        BY <1>4, <4>1, <4>2
      <4>4. \A a : a \in ts[1] <=> a = UrlOf[n]
        BY <4>3
      <4>5. ts[1] \in SUBSET Announce
        BY <1>1, <4>2 DEF Tiers
      <4> QED
        BY <4>4, <4>5
    <3> QED
      BY <1>1, <1>4, <3>1 DEF Tiers
  <2>3. \A u : ts = <<{u}>> => u = UrlOf[n]
    BY <1>3, <1>4
  <2>4. (CHOOSE u \in Urls : ts = <<{u}>>) = UrlOf[n]
    BY <2>1, <2>2, <2>3
  <2>5. "trackers" \in loaded
    BY <1>4 DEF Known
  <2> QED
    BY <2>1, <2>2, <2>4, <2>5 DEF Prefix, ts
<1>5. ASSUME NEW u \in All(ts), NEW w \in All(ts), u # w
      PROVE  Prefix = Nobody
  <2>1. ~ \E x \in Urls : ts = <<{x}>>
    BY <1>3, <1>5
  <2> QED
    BY <2>1 DEF Prefix, ts
<1> QED
  BY <1>2, <1>4, <1>5

\* The steps that leave the metafile as it is.
LEMMA TrackersStay ==
    ASSUME TypeInv, AskedInv, Next, ~SetAnnounces, ~EndGroups, ~SetFields
    PROVE  TrackersOfGroupsOrList' /\ TagsInv' /\ FieldsAsChosen'
<1>1. /\ \A o : Given(o)' = Given(o) /\ (Chosen(o)' <=> Chosen(o))
      /\ AskedGroups' = AskedGroups /\ AskedAnnounces' = AskedAnnounces /\ Used' = Used
      /\ (Known' <=> Known) /\ DatabaseTag' = DatabaseTag
      /\ \A f : LeftOut(f)' <=> LeftOut(f)
  BY OptionsStep, Steady
<1>2. CASE pc \in {"postprocess", "select", "pieces", "announces", "group"}
  <2>1. pc' \notin {"fields", "place", "inform", "hash", "write", "done"}
    BY <1>2 DEF Next, Postprocess, SetFiles, ChoosePieceSize, StartGroups, AddNextGroup,
       FindPlace, Inform, Hash, Write, Fail, Goto
  <2> QED
    BY <2>1 DEF TrackersOfGroupsOrList, TagsInv, FieldsAsChosen
<1>3. CASE pc \notin {"postprocess", "select", "pieces", "announces", "group"}
  <2>1. /\ m' = m /\ pc \in {"place", "inform", "hash", "write"}
        /\ pc' \in {"inform", "hash", "write", "done", "failed"}
    BY <1>3 DEF Next, Postprocess, SetFiles, ChoosePieceSize, StartGroups, AddNextGroup,
       FindPlace, Inform, Hash, Write, Fail, Goto
  <2>2. TrackersOfGroupsOrList /\ FieldsAsChosen
    BY DEF AskedInv
  <2>3. TrackersOfGroupsOrList'
    BY <1>1, <2>1, <2>2 DEF TrackersOfGroupsOrList, Meant
  <2>4. TagsInv'
    BY <2>1 DEF TagsInv
  <2>5. FieldsAsChosen'
    BY <1>1, <2>1, <2>2 DEF FieldsAsChosen
  <2> QED
    BY <2>3, <2>4, <2>5
<1> QED
  BY <1>2, <1>3

\* The destination stays, and so does what its name is made of.
LEMMA NameStays ==
    ASSUME TypeInv, AskedInv, Next, ~FindPlace
    PROVE  DefaultNameAsDocumented'
<1>1. CASE pc \in {"inform", "hash", "write"}
  <2>1. m' = m /\ place' = place /\ loaded' = loaded
    BY <1>1 DEF Next, Postprocess, SetFiles, ChoosePieceSize, SetAnnounces, StartGroups,
       AddNextGroup, EndGroups, SetFields, Inform, Hash, Write, Fail
  <2>2. DefaultNameAsDocumented /\ (Known' <=> Known)
    BY <2>1 DEF AskedInv, Known
  <2> QED
    BY <1>1, <2>1, <2>2 DEF DefaultNameAsDocumented
<1>2. CASE pc \notin {"inform", "hash", "write"}
  <2>1. pc' \notin {"inform", "hash", "write", "done"}
    BY <1>2 DEF Next, Postprocess, SetFiles, ChoosePieceSize, SetAnnounces, StartGroups,
       AddNextGroup, EndGroups, SetFields, Inform, Hash, Write, Fail, Goto
  <2> QED
    BY <2>1 DEF DefaultNameAsDocumented
<1> QED
  BY <1>1, <1>2

\* A step other than those of the loop does not get into it.
LEMMA GroupsStay ==
    ASSUME Next, ~StartGroups, ~AddNextGroup
    PROVE  GroupsInv'
<1>1. pc' # "group"
  BY DEF Next, Postprocess, SetFiles, ChoosePieceSize, SetAnnounces, EndGroups, SetFields,
     FindPlace, Inform, Hash, Write, Fail, Goto
<1> QED
  BY <1>1 DEF GroupsInv

\* The announces, flags, tags and names are right at every moment: for every command
\* line, profile, configuration and tracker database the metafile has the trackers the
\* user asked for, the order of precedence decides its flags, and the
\* default file name has the abbreviation of its only tracker.
THEOREM AskedInvariant == Spec => []AskedInv
<1>1. TypeInv /\ AskedInv /\ [Next]_vars => AskedInv'
  <2> SUFFICES ASSUME TypeInv, AskedInv, [Next]_vars PROVE AskedInv'
    OBVIOUS
  <2>1. CASE Next
    <3>1. OptionsInv' /\ FreshInv'
      BY <2>1, OptionsKept, FreshKept DEF AskedInv
    <3>2. GroupsInv'
      BY <2>1, StartGroupsStep, GroupStep, GroupsStay
    <3>3. TrackersOfGroupsOrList' /\ TagsInv' /\ FieldsAsChosen'
      <4>1. CASE SetAnnounces \/ EndGroups
        <5>1. pc' \in {"fields", "failed"}
          BY <4>1 DEF SetAnnounces, EndGroups, Fail, Goto
        <5>2. FieldsAsChosen'
          BY <5>1 DEF FieldsAsChosen
        <5> QED
          BY <4>1, <5>2, AnnouncesStep, EndGroupsStep
      <4>2. CASE SetFields
        <5>1. TagsInv'
          BY <4>2 DEF SetFields, Goto, TagsInv
        <5> QED
          BY <4>2, <5>1, FieldsStep
      <4>3. CASE ~SetAnnounces /\ ~EndGroups /\ ~SetFields
        BY <2>1, <4>3, TrackersStay
      <4> QED
        BY <4>1, <4>2, <4>3
    <3>4. DefaultNameAsDocumented'
      BY <2>1, PlaceFound, NameStays
    <3> QED
      BY <3>1, <3>2, <3>3, <3>4 DEF AskedInv
  <2>2. CASE UNCHANGED vars
    <3>1. UNCHANGED <<cmd, loaded, opts, m, pc, todo, flags, place>>
      BY <2>2 DEF vars
    <3>2. OptionsInv' /\ FreshInv'
      BY <3>1, Steady DEF AskedInv, OptionsInv, FreshInv
    <3>3. GroupsInv'
      <4>1. \A k : Done(k)' <=> Done(k)
        BY <3>1, Steady DEF Done, UrlsOf
      <4> QED
        BY <3>1, <4>1, Steady DEF AskedInv, GroupsInv
    <3>4. TagsInv'
      BY <3>1, Steady DEF AskedInv, TagsInv
    <3>5. TrackersOfGroupsOrList' /\ FieldsAsChosen'
      <4>1. TrackersOfGroupsOrList /\ FieldsAsChosen
        BY DEF AskedInv
      <4> QED
        BY <3>1, <4>1, Steady DEF TrackersOfGroupsOrList, FieldsAsChosen, Meant
    <3>6. DefaultNameAsDocumented'
      <4>1. DefaultNameAsDocumented
        BY DEF AskedInv
      <4> QED
        BY <3>1, <4>1, Steady DEF DefaultNameAsDocumented
    <3> QED
      BY <3>2, <3>3, <3>4, <3>5, <3>6 DEF AskedInv
  <2> QED
    BY <2>1, <2>2
<1> QED
  BY InitAsked, TypeInvariant, <1>1, PTL DEF Spec

\* The trackers of the metafile are those of the groups if one is named, whatever the
\* announces of the list, else those of the list.
THEOREM TrackersAreUsed == Spec => []TrackersOfGroupsOrList
<1>1. AskedInv => TrackersOfGroupsOrList
  BY DEF AskedInv
<1> QED
  BY <1>1, AskedInvariant, PTL

\* Command line before profile, profile before tracker database, but for a date and a
\* creator that the profile leaves out.
THEOREM FieldsFollowPrecedence == Spec => []FieldsAsChosen
<1>1. AskedInv => FieldsAsChosen
  BY DEF AskedInv
<1> QED
  BY <1>1, AskedInvariant, PTL

\* The default file name is that of the documentation.
THEOREM DefaultNameIsRight == Spec => []DefaultNameAsDocumented
<1>1. AskedInv => DefaultNameAsDocumented
  BY DEF AskedInv
<1> QED
  BY <1>1, AskedInvariant, PTL
=============================================================================
