------------------------------ MODULE Profiles ------------------------------
(***************************************************************************)
(* Where the values of options come from: the callbacks of the command     *)
(* line, then the profiles of the configuration, which are all parsed when *)
(* it is loaded (config::parse_profiles, src/profile.cpp).                 *)
(***************************************************************************)
EXTENDS OptionValues

CONSTANTS Names,        \* names of profiles
          Inputs        \* command lines with configurations

TextOptions == {"comment", "source", "name", "created-by"}
PlainLists  == {"announce-group", "collection", "include", "exclude"}
Switches    == {"include-hidden", "set-created-by", "set-creation-date"}

ListOptions == PlainLists \union {"announce", "checksum", "dht-node", "http-seed",
                                  "web-seed", "similar"}

CreateKeys == TextOptions \union ListOptions \union Switches
                \union {"creation-date", "io-block-size", "output", "piece-size",
                        "private", "protocol", "threads"}

EditKeys == (TextOptions \union ListOptions \union Switches
               \union {"creation-date", "list-mode", "output", "private"})
              \ {"checksum", "include", "exclude", "include-hidden"}

Keys(command) == IF command = "create" THEN CreateKeys ELSE EditKeys

\* A list of YAML, or a scalar.
Form(o) == IF o \in ListOptions THEN "list" ELSE "scalar"

\* The kind of the words of an option.
Word(o) ==
    CASE o = "announce"                        -> AnnounceWord
      [] o \in {"piece-size", "io-block-size"} -> SizeWord
      [] o = "creation-date"                   -> DateWord
      [] o = "protocol"                        -> ProtocolWord
      [] o \in {"output", "target"}            -> PathWord
      [] o = "dht-node"                        -> NodeWord
      [] o \in {"http-seed", "web-seed"}       -> SeedWord
      [] o = "similar"                         -> SimilarWord
      [] OTHER                                 -> TextWord

ArgumentOptions(command) == (Keys(command) \ Switches) \union {"target"}

\* CLI11 collects the words of an option and calls its callback once.
InputAssumption ==
    \A i \in Inputs :
        /\ i.command \in {"create", "edit"}
        /\ i.args \in Seq(Range(i.args)) /\ i.nodes \in Seq(Range(i.nodes))
        /\ \A a \in Range(i.args) :
              a.option \in ArgumentOptions(i.command) /\ a.words \in Seq(Word(a.option))
        /\ \A j, k \in DOMAIN i.args : i.args[j].option = i.args[k].option => j = k

ASSUME InputAssumption

VARIABLES given,        \* the command line and the configuration
          args,         \* the arguments whose callbacks have not run
          cli,          \* the values of the command line
          nodes,        \* the nodes of profiles_dict the loop has left
          keys,         \* the keys of the current node that have no value yet
          current,      \* current_profile
          profiles,     \* profiles_
          pc

vars == <<given, args, cli, nodes, keys, current, profiles, pc>>

NoOptions == <<>>       \* the function with an empty domain

\* f with the value v of k.
With(f, k, v) == [x \in DOMAIN f \union {k} |-> IF x = k THEN v ELSE f[x]]

Init ==
    /\ given \in Inputs
    /\ args = given.args /\ cli = NoOptions
    /\ nodes = given.nodes /\ keys = {}
    /\ current = [command |-> "none", options |-> NoOptions]
    /\ profiles = NoOptions
    /\ pc = "arguments"

-----------------------------------------------------------------------------
(* The values of words. *)

Same(w) == <<w>>

\* A number, or not.
Threads(w) == IF w.text = "other" THEN Thrown ELSE <<w>>

Destination(w) == path_transformer(w, FALSE)

\* The path is what the next line of the standard input holds, or it is w.
Target(w) ==
    IF w.dash THEN {<<"file">>, <<"directory">>, Thrown} ELSE {path_transformer(w, TRUE)}

EditTarget(w) == metafile_target_transformer(w, FALSE)

EditDestination(w) == IF w.slash \/ w.directory THEN <<"directory">> ELSE <<"file">>

\* The values the words of an option may have.
Values(option, words) ==
    CASE option \in {"piece-size", "io-block-size"} ->
           IF Len(words) = 1 THEN parse_commandline_size(words[1]) ELSE {Thrown}
      [] option = "announce"      -> {announce_transformer(words)}
      [] option = "creation-date" -> {OneOf(creation_date_transformer, words)}
      [] option = "private"       -> {OneOf(parse_explicit_flag, words)}
      [] option = "protocol"      ->
           {OneOf(LAMBDA w : protocol_transformer(w, TRUE), words)}
      [] option = "list-mode"     -> {OneOf(parse_list_edit_mode, words)}
      [] option = "output"        -> {OneOf(Destination, words)}
      [] option = "threads"       -> {OneOf(Threads, words)}
      [] option = "checksum"      -> {checksum_transformer(words)}
      [] option = "dht-node"      -> {dht_node_transformer(words)}
      [] option = "http-seed"     -> {seed_transformer(words, FALSE)}
      [] option = "web-seed"      -> {seed_transformer(words, TRUE)}
      [] option = "similar"       -> {similar_transformer(words)}
      [] option \in PlainLists    -> {<<words>>}
      [] option \in TextOptions   -> {OneOf(Same, words)}

\* An empty date removes the field.
EditDate(w) ==
    IF w.kind = "empty" THEN <<0>> ELSE creation_date_transformer(w)

\* The values an argument may have.  edit takes seeds and the destination as they
\* are.
ArgumentValues(command, a) ==
    CASE command = "edit" /\ a.option \in {"http-seed", "web-seed"} -> {<<a.words>>}
      [] command = "edit" /\ a.option = "output"        -> {OneOf(EditDestination, a.words)}
      [] command = "edit" /\ a.option = "creation-date" -> {OneOf(EditDate, a.words)}
      [] command = "edit" /\ a.option = "target"        -> {OneOf(EditTarget, a.words)}
      [] command = "create" /\ a.option = "target"      ->
           IF Len(a.words) = 1 THEN Target(a.words[1]) ELSE {Thrown}
      [] OTHER -> Values(a.option, a.words)

\* YAML::Node::as<bool>
YamlBool(w) ==
    CASE w.text \in {"on", "true", "yes", "ON"}   -> <<"on">>
      [] w.text \in {"off", "false", "no", "OFF"} -> <<"off">>
      [] OTHER                                    -> Thrown

\* DEVIATION: the trackers of a profile are added in tiers of their own.
NodeValuesFlat(key, n) ==
    CASE key = "announce" /\ n.form = "list" ->
           {ForEach(LAMBDA x : <<<<x>>>>, FlattenSeq([i \in DOMAIN n.words |-> n.words[i].words]))}
      [] key \in ListOptions \ {"announce"} /\ n.form = "list" -> Values(key, n.words)
      [] key \in Switches \union {"private"} /\ n.form = "scalar" -> {YamlBool(n.words[1])}
      [] key \notin ListOptions \union Switches \union {"private"} /\ n.form = "scalar" ->
           Values(key, n.words)
      [] OTHER -> {Thrown}

\* The values the node of a key may have.
NodeValues(key, n) ==
    CASE key = "announce" /\ n.form = "list" -> {announce_nodes(n.words)}
      [] key \in ListOptions \ {"announce"} /\ n.form = "list" -> Values(key, n.words)
      [] key \in Switches \union {"private"} /\ n.form = "scalar" -> {YamlBool(n.words[1])}
      [] key \notin ListOptions \union Switches \union {"private"} /\ n.form = "scalar" ->
           Values(key, n.words)
      [] OTHER -> {Thrown}

-----------------------------------------------------------------------------
(* The command line. *)

ParseArgument ==
    /\ pc = "arguments" /\ args # <<>>
    /\ \E v \in ArgumentValues(given.command, Head(args)) :
          IF v = Thrown
          THEN pc' = "bad_argument" /\ UNCHANGED <<args, cli>>
          ELSE /\ cli' = With(cli, Head(args).option, v[1])
               /\ args' = Tail(args)
               /\ UNCHANGED pc
    /\ UNCHANGED <<given, nodes, keys, current, profiles>>

LoadConfig ==
    /\ pc = "arguments" /\ args = <<>>
    /\ pc' = "profiles"
    /\ UNCHANGED <<given, args, cli, nodes, keys, current, profiles>>

-----------------------------------------------------------------------------
(* parse_profiles *)

BadNode(n) ==
    \/ n.command \notin {"create", "edit"}    \* or missing
    \/ n.form # "map"                         \* or missing
    \/ ~(DOMAIN n.options \subseteq Keys(n.command))

\* DEVIATION: current_profile, which is declared before the loop, keeps its options.
BeginProfileAgain ==
    /\ pc = "profiles" /\ nodes # <<>>
    /\ IF BadNode(Head(nodes))
       THEN pc' = "bad_config" /\ UNCHANGED <<keys, current>>
       ELSE /\ current' = [current EXCEPT !.command = Head(nodes).command]
            /\ keys' = DOMAIN Head(nodes).options
            /\ pc' = "keys"
    /\ UNCHANGED <<given, args, cli, nodes, profiles>>

BeginProfile ==
    /\ pc = "profiles" /\ nodes # <<>>
    /\ IF BadNode(Head(nodes))
       THEN pc' = "bad_config" /\ UNCHANGED <<keys, current>>
       ELSE /\ current' = [command |-> Head(nodes).command, options |-> NoOptions]
            /\ keys' = DOMAIN Head(nodes).options
            /\ pc' = "keys"
    /\ UNCHANGED <<given, args, cli, nodes, profiles>>

\* The order of the keys, which is fixed, only decides which error is shown.
ParseKey ==
    /\ pc = "keys"
    /\ \E k \in keys : \E v \in NodeValues(k, Head(nodes).options[k]) :
          IF v = Thrown
          THEN pc' = "bad_config" /\ UNCHANGED <<keys, current>>
          ELSE /\ current' = [current EXCEPT !.options = With(@, k, v[1])]
               /\ keys' = keys \ {k}
               /\ UNCHANGED pc
    /\ UNCHANGED <<given, args, cli, nodes, profiles>>

InsertProfile ==
    /\ pc = "keys" /\ keys = {}
    /\ IF Head(nodes).name \in DOMAIN profiles
       THEN pc' = "bad_config" /\ UNCHANGED <<nodes, profiles>>
       ELSE /\ profiles' = With(profiles, Head(nodes).name, current)
            /\ nodes' = Tail(nodes)
            /\ pc' = "profiles"
    /\ UNCHANGED <<given, args, cli, keys, current>>

EndProfiles ==
    /\ pc = "profiles" /\ nodes = <<>>
    /\ pc' = "done"
    /\ UNCHANGED <<given, args, cli, nodes, keys, current, profiles>>

Next == ParseArgument \/ LoadConfig \/ BeginProfile \/ ParseKey \/ InsertProfile \/ EndProfiles

Spec == Init /\ [][Next]_vars

-----------------------------------------------------------------------------
(* Properties. *)

\* The arguments that give option o.  An argument is accepted when its option has
\* a value, and rejected when the command line ends at it.
Given(o) == {a \in Range(given.args) : a.option = o}

Accepted(a) == a.option \in DOMAIN cli

Rejected(a) == pc = "bad_argument" /\ Head(args) = a

\* How many brackets are open after word i, and the tier word i belongs to.
Depth(words, i) ==
    Cardinality({j \in 1..i : words[j].open})
      - Cardinality({j \in 1..i : words[j].close /\ ~words[j].open})

Matched(words) == \A i \in DOMAIN words : Depth(words, i) \in {0, 1}

TierNo(words, i) == 1 + Cardinality({j \in 1..(i - 1) : Depth(words, j) = 0})

\* "Multiple trackers will be added in separate tiers by default.  Use square
\* brackets to group urls in a single tier" (docs/commands/create.rst): no URL is
\* lost or moved, words are in one tier exactly when no bracket separates them,
\* and only brackets that do not match are rejected.
AnnouncesAsWritten ==
    \A a \in Given("announce") :
        /\ Accepted(a) =>
              LET tiers == cli["announce"]
                  flat  == FlattenSeq(tiers)
              IN  /\ Matched(a.words)
                  /\ Len(flat) = Len(a.words)
                  /\ \A i \in DOMAIN flat : flat[i].url = a.words[i].url
                  /\ \A k \in DOMAIN tiers : Len(tiers[k]) =
                        Cardinality({i \in DOMAIN a.words : TierNo(a.words, i) = k})
        /\ Rejected(a) => ~Matched(a.words)

\* The size a word means, as a number without bounds.
MeantSize(w) ==
    CASE w.unit = "k" -> w.number * Kilo
      [] w.unit = "m" -> w.number * Kilo * Kilo
      [] w.unit = "none" /\ w.number < Least -> 2^w.number
      [] OTHER -> w.number

Fits(w) == (w.unit = "none" /\ w.number < Least => w.number < Bits) /\ MeantSize(w) < 2^Bits

\* "block size will be either 2^<n> bytes or <n> bytes if n is larger or equal to
\* 16384", "a power of two in range 16K to 64M" (docs/commands/create.rst).  The
\* power of two and the lower end are kept: no word, however large, gives another
\* size; a size that has room in Bits is what its word means and is refused exactly
\* when that is no power of two or too small; one that has not is what is left of
\* it after wrapping.  The upper end is not kept: a size above it is accepted like
\* any other.
SizesAsWritten ==
    \A o \in {"piece-size", "io-block-size"} : \A a \in Given(o) :
        /\ Accepted(a) => cli[o] = AutoSize \/ (SingleBit(cli[o]) /\ cli[o] >= Least)
        /\ Len(a.words) = 1 =>
              LET w    == a.words[1]
                  size == MeantSize(w)
              IN  /\ w.kind = "number" /\ w.unit \in {"none", "k", "m"} /\ Fits(w) =>
                        /\ Accepted(a) => cli[o] = size
                        /\ Rejected(a) => ~SingleBit(size) \/ size < Least
                        /\ SingleBit(size) /\ size > Most => ~Rejected(a)
                  /\ w.kind = "number" /\ w.unit \in {"k", "m"} /\ Accepted(a) =>
                        cli[o] = size % 2^Bits

\* An offset of the form of the example, hhmm, in minutes.
Ahead(w) ==
    LET d == w.offset
        minutes == (10 * d[1] + d[2]) * 60 + 10 * d[3] + d[4]
    IN  CASE w.zone = "Z" -> 0 [] w.zone = "+" -> minutes [] w.zone = "-" -> -minutes

\* "an ISO-8601 time or POSIX time string" (docs/commands/create.rst): at the date
\* the metafile gets, a clock in the zone of the word shows the time of the word.
DatesAsDocumented ==
    \A a \in Given("creation-date") :
        Accepted(a) =>
            LET w == a.words[1]
                shown == cli["creation-date"] + Ahead(w)
            IN  CASE w.kind = "posix" -> cli["creation-date"] = w.time
                  [] w.kind = "iso" /\ Len(w.offset) = 4 /\ w.hour < 24 /\ w.minute < 60 ->
                       /\ shown \div 1440 = w.day
                       /\ (shown % 1440) \div 60 = w.hour
                       /\ shown % 60 = w.minute
                  [] OTHER -> TRUE

\* The tiers of a profile as words of the command line.
Bracketed(tier) ==
    [i \in DOMAIN tier |-> [tier[i] EXCEPT !.open = Len(tier) > 1 /\ i = 1,
                                          !.close = Len(tier) > 1 /\ i = Len(tier)]]

Written(nodeWords) ==
    FlattenSeq([i \in DOMAIN nodeWords |-> Bracketed(nodeWords[i].words)])

\* A tier the command line can write: it has a URL, and no URL looks like a bracket.
BareWord == {w \in AnnounceWord : Bare(w) = w}

TierNode == [form : {"scalar", "list"}, words : Seq(BareWord) \ {<<>>}]

SameWords(a, n) ==
    /\ a.option \in DOMAIN n.options
    /\ LET v == n.options[a.option]
       IN  /\ v.form = Form(a.option)
           /\ IF a.option = "announce"
              THEN v.words \in Seq(TierNode) /\ a.words = Written(v.words)
              ELSE a.words = v.words

\* The words of a flag that YAML knows, and the schemes of seeds.
YamlWords == {"on", "true", "yes", "ON", "off", "false", "no", "OFF"}

SeedSchemes(o) ==
    {"http", "https", "udp", "utp"} \union (IF o = "web-seed" THEN {"ftp", "ftps"} ELSE {})

\* Words the command line takes and a profile refuses: a flag YAML does not know;
\* for edit, whose command line checks neither, a seed of another scheme, and the
\* empty date that removes the field (docs/commands/edit.rst).
OnlyOnCommandLine(a) ==
    \/ a.option = "private" /\ a.words[1].text \notin YamlWords
    \/ /\ given.command = "edit" /\ a.option \in {"http-seed", "web-seed"}
       /\ \E w \in Range(a.words) : w.scheme \notin SeedSchemes(a.option)
    \/ given.command = "edit" /\ a.option = "creation-date" /\ a.words[1].kind = "empty"

\* Words both take for different things: "no" and "OFF" turn the flag on on the
\* command line and off in a profile; "-" is a file for edit's command line and the
\* standard output in a profile.
ReadDifferently(a) ==
    \/ a.option = "private" /\ a.words[1].text \in {"no", "OFF"}
    \/ given.command = "edit" /\ a.option = "output" /\ a.words[1].dash

\* An exponent beyond the width of a size: the conversion may give any size, and
\* another one each time.
Undefined(a) ==
    /\ a.option \in {"piece-size", "io-block-size"}
    /\ LET w == a.words[1]
       IN  w.kind = "number" /\ w.unit = "none" /\ w.number < Least /\ w.number >= Bits

\* "For the behaviour of each flag we refer to the documentation on the commandline
\* arguments" (docs/configuration.rst): words the command line accepts have the
\* same value in a profile, tiers included.  The program keeps this except for
\* exactly the words above: those of the first kind end the loading of the
\* configuration, those of the second get another value, and no others do.
ProfileAgainstCommandLine ==
    \A n \in Range(given.nodes), a \in Range(given.args) :
        n.command = given.command /\ ~BadNode(n) /\ SameWords(a, n) =>
            /\ pc = "done" =>
                  /\ ~OnlyOnCommandLine(a)
                  /\ ~Undefined(a) =>
                        (profiles[n.name].options[a.option] = cli[a.option]
                            <=> ~ReadDifferently(a))
            /\ pc = "bad_config" /\ Head(nodes) = n /\ ~Undefined(a) =>
                  \/ OnlyOnCommandLine(a)
                  \/ DOMAIN n.options # {a.option}
                  \/ n.name \in DOMAIN profiles

\* What a profile holds comes from its own node, whatever nodes come before it, and
\* a configuration is rejected only for a node that is bad by itself or a name
\* given twice.
ProfilesIndependent ==
    /\ pc = "done" =>
          /\ DOMAIN profiles = {n.name : n \in Range(given.nodes)}
          /\ Cardinality(DOMAIN profiles) = Len(given.nodes)
          /\ \A n \in Range(given.nodes) :
                LET p == profiles[n.name]
                IN  /\ p.command = n.command
                    /\ DOMAIN p.options = DOMAIN n.options
                    /\ \A k \in DOMAIN n.options :
                          <<p.options[k]>> \in NodeValues(k, n.options[k])
    /\ pc = "bad_config" =>
          \/ \E n \in Range(given.nodes) :
                BadNode(n) \/ \E k \in DOMAIN n.options : Thrown \in NodeValues(k, n.options[k])
          \/ \E i, j \in DOMAIN given.nodes : i < j /\ given.nodes[i].name = given.nodes[j].name
=============================================================================
