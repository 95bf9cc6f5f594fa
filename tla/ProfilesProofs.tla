--------------------------- MODULE ProfilesProofs ---------------------------
(***************************************************************************)
(* That the values of options are those of their words and of their own    *)
(* profile, for every command line and configuration, with proofs.         *)
(***************************************************************************)
EXTENDS Profiles, FiniteSetTheorems, WellFoundedInduction, TLAPS

\* What a transformer returns: no value or one.
One(v) == v = Thrown \/ v = <<v[1]>>

-----------------------------------------------------------------------------
(* Operators. *)

\* What With changes, and what it leaves.
LEMMA WithFacts ==
    ASSUME NEW f, NEW k, NEW v
    PROVE  /\ DOMAIN With(f, k, v) = DOMAIN f \union {k}
           /\ With(f, k, v)[k] = v
           /\ \A x \in DOMAIN f : x # k => With(f, k, v)[x] = f[x]
  BY DEF With

\* The places of a sequence.
LEMMA SequenceDomain ==
    ASSUME NEW s, s \in Seq(Range(s))
    PROVE  DOMAIN s = 1 .. Len(s) /\ Len(s) \in Nat
<1> DEFINE S == Range(s)
<1> HIDE DEF S
<1>1. s \in Seq(S)
  BY DEF S
<1> QED
  BY <1>1

\* The arms of Values, each for its own options.
LEMMA ValueArms ==
    ASSUME NEW words
    PROVE  /\ \A o \in {"piece-size", "io-block-size"} :
                 Values(o, words) = IF Len(words) = 1 THEN parse_commandline_size(words[1])
                                                      ELSE {Thrown}
           /\ Values("announce", words) = {announce_transformer(words)}
           /\ Values("creation-date", words) = {OneOf(creation_date_transformer, words)}
           /\ Values("private", words) = {OneOf(parse_explicit_flag, words)}
           /\ Values("protocol", words) = {OneOf(LAMBDA w : protocol_transformer(w, TRUE), words)}
           /\ Values("list-mode", words) = {OneOf(parse_list_edit_mode, words)}
           /\ Values("output", words) = {OneOf(Destination, words)}
           /\ Values("threads", words) = {OneOf(Threads, words)}
           /\ Values("checksum", words) = {checksum_transformer(words)}
           /\ Values("dht-node", words) = {dht_node_transformer(words)}
           /\ Values("http-seed", words) = {seed_transformer(words, FALSE)}
           /\ Values("web-seed", words) = {seed_transformer(words, TRUE)}
           /\ Values("similar", words) = {similar_transformer(words)}
           /\ \A o \in PlainLists : Values(o, words) = {<<words>>}
           /\ \A o \in TextOptions : Values(o, words) = {OneOf(Same, words)}
<1>1. \A o \in {"piece-size", "io-block-size"} :
         Values(o, words) = IF Len(words) = 1 THEN parse_commandline_size(words[1])
                                              ELSE {Thrown}
  BY DEF Values, PlainLists, TextOptions
<1>2. /\ Values("announce", words) = {announce_transformer(words)}
      /\ Values("checksum", words) = {checksum_transformer(words)}
      /\ Values("dht-node", words) = {dht_node_transformer(words)}
      /\ Values("http-seed", words) = {seed_transformer(words, FALSE)}
      /\ Values("web-seed", words) = {seed_transformer(words, TRUE)}
      /\ Values("similar", words) = {similar_transformer(words)}
  BY DEF Values, PlainLists, TextOptions
<1>3. /\ Values("creation-date", words) = {OneOf(creation_date_transformer, words)}
      /\ Values("private", words) = {OneOf(parse_explicit_flag, words)}
      /\ Values("protocol", words) = {OneOf(LAMBDA w : protocol_transformer(w, TRUE), words)}
  BY DEF Values, PlainLists, TextOptions, OneOf
<1>4. /\ Values("list-mode", words) = {OneOf(parse_list_edit_mode, words)}
      /\ Values("output", words) = {OneOf(Destination, words)}
      /\ Values("threads", words) = {OneOf(Threads, words)}
  BY DEF Values, PlainLists, TextOptions, OneOf
<1>5. \A o \in PlainLists : Values(o, words) = {<<words>>}
  BY DEF Values, PlainLists, TextOptions
<1>6. \A o \in TextOptions : Values(o, words) = {OneOf(Same, words)}
  BY DEF Values, PlainLists, TextOptions, OneOf
<1> QED
  BY <1>1, <1>2, <1>3, <1>4, <1>5, <1>6

\* What a value is made by.
LEMMA ValueSources ==
    ASSUME NEW o \in (CreateKeys \union EditKeys) \ Switches, NEW words,
           NEW v \in Values(o, words)
    PROVE  \/ v \in {Thrown, <<words>>} \union parse_commandline_size(words[1])
           \/ v \in {announce_transformer(words), checksum_transformer(words),
                     dht_node_transformer(words), similar_transformer(words)}
           \/ v \in {seed_transformer(words, FALSE), seed_transformer(words, TRUE)}
           \/ v \in {creation_date_transformer(words[1]), parse_explicit_flag(words[1]),
                     protocol_transformer(words[1], TRUE), parse_list_edit_mode(words[1])}
           \/ v \in {Destination(words[1]), Threads(words[1]), Same(words[1])}
<1>1. o \in {"piece-size", "io-block-size", "announce", "creation-date", "private",
             "protocol", "list-mode", "output", "threads", "checksum", "dht-node",
             "http-seed", "web-seed", "similar"} \union PlainLists \union TextOptions
  BY DEF CreateKeys, EditKeys, ListOptions, Switches
<1>2. CASE o \in {"piece-size", "io-block-size"}
  BY <1>2 DEF Values, PlainLists, TextOptions
<1>3. CASE o \in {"announce", "checksum", "dht-node", "http-seed", "web-seed", "similar"}
  BY <1>3 DEF Values, PlainLists, TextOptions
<1>4. CASE o \in {"creation-date", "private", "protocol", "list-mode", "output", "threads"}
  BY <1>4 DEF Values, PlainLists, TextOptions, OneOf
<1>5. CASE o \in PlainLists
  BY <1>5 DEF Values, PlainLists, TextOptions
<1>6. CASE o \in TextOptions
  BY <1>6 DEF Values, PlainLists, TextOptions, OneOf
<1> QED
  BY <1>1, <1>2, <1>3, <1>4, <1>5, <1>6

\* A transformer returns one value or none.
LEMMA ValuesAreOne ==
    ASSUME NEW o \in (CreateKeys \union EditKeys) \ Switches, NEW words,
           NEW v \in Values(o, words)
    PROVE  One(v)
<1>1. CASE v \in {Thrown, <<words>>}
  BY <1>1 DEF One
<1>2. CASE v \in parse_commandline_size(words[1])
  BY <1>2 DEF One, parse_commandline_size, Thrown
<1>3. CASE v = announce_transformer(words)
  BY <1>3 DEF One, announce_transformer
<1>4. CASE v = checksum_transformer(words)
  BY <1>4 DEF One, checksum_transformer
<1>5. CASE v = dht_node_transformer(words)
  BY <1>5 DEF One, dht_node_transformer, ForEach
<1>6. CASE v = similar_transformer(words)
  BY <1>6 DEF One, similar_transformer
<1>7. CASE v \in {seed_transformer(words, FALSE), seed_transformer(words, TRUE)}
  BY <1>7 DEF One, seed_transformer, ForEach
<1>8. CASE v \in {creation_date_transformer(words[1]), parse_explicit_flag(words[1])}
  BY <1>8 DEF One, creation_date_transformer, parse_utc_datetime, parse_explicit_flag, Thrown
<1>9. CASE v = protocol_transformer(words[1], TRUE)
  <2>1. v \in {<<"hybrid">>, <<"v1">>, <<"v2">>, Thrown}
    BY <1>9 DEF protocol_transformer
  <2> QED
    BY <2>1 DEF One
<1>11. CASE v = parse_list_edit_mode(words[1])
  BY <1>11 DEF One, parse_list_edit_mode, Thrown
<1>10. CASE v \in {Destination(words[1]), Threads(words[1]), Same(words[1])}
  BY <1>10 DEF One, Destination, path_transformer, Threads, Same, Thrown
<1> QED
  BY <1>1, <1>2, <1>3, <1>4, <1>5, <1>6, <1>7, <1>8, <1>9, <1>10, <1>11, ValueSources

\* A key of a profile gives one value at most.
LEMMA NodeValuesAreOne ==
    ASSUME NEW key \in CreateKeys \union EditKeys, NEW n, NEW v \in NodeValues(key, n)
    PROVE  One(v)
<1>1. \/ v = announce_nodes(n.words)
      \/ v = YamlBool(n.words[1])
      \/ key \notin Switches /\ v \in Values(key, n.words)
      \/ v = Thrown
  BY DEF NodeValues, ListOptions, Switches, PlainLists
<1>2. CASE v = announce_nodes(n.words)
  BY <1>2 DEF One, announce_nodes, ForEach
<1>3. CASE v = YamlBool(n.words[1])
  BY <1>3 DEF One, YamlBool, Thrown
<1> QED
  BY <1>1, <1>2, <1>3, ValuesAreOne DEF One

\* An argument of the command line gives one value at most.
LEMMA ArgumentValuesAreOne ==
    ASSUME NEW command \in {"create", "edit"}, NEW a, a.option \in ArgumentOptions(command),
           NEW v \in ArgumentValues(command, a)
    PROVE  One(v)
<1>1. \/ v = <<a.words>>
      \/ v = OneOf(EditDestination, a.words)
      \/ v = OneOf(EditDate, a.words)
      \/ v = OneOf(EditTarget, a.words)
      \/ v \in Target(a.words[1])
      \/ v = Thrown
      \/ a.option # "target" /\ v \in Values(a.option, a.words)
  <2>1. CASE command = "create" /\ a.option = "target"
    BY <2>1 DEF ArgumentValues
  <2>2. CASE command = "edit" /\ a.option \in {"http-seed", "web-seed", "output", "creation-date", "target"}
    BY <2>2 DEF ArgumentValues
  <2>3. CASE ~(command = "create" /\ a.option = "target")
              /\ ~(command = "edit" /\ a.option \in {"http-seed", "web-seed", "output", "creation-date", "target"})
    BY <2>3 DEF ArgumentValues
  <2> QED
    BY <2>1, <2>2, <2>3
<1>2. CASE v = OneOf(EditDestination, a.words)
  BY <1>2 DEF One, OneOf, EditDestination, Thrown
<1>3. CASE v = OneOf(EditDate, a.words)
  BY <1>3 DEF One, OneOf, EditDate, creation_date_transformer, parse_utc_datetime, Thrown
<1>4. CASE v = OneOf(EditTarget, a.words)
  BY <1>4 DEF One, OneOf, EditTarget, metafile_target_transformer, Thrown
<1>5. CASE v \in Target(a.words[1])
  BY <1>5 DEF One, Target, path_transformer, Thrown
<1>6. a.option = "target" \/ a.option \in (CreateKeys \union EditKeys) \ Switches
  BY DEF ArgumentOptions, Keys
<1> QED
  BY <1>1, <1>2, <1>3, <1>4, <1>5, <1>6, ValuesAreOne DEF One

-----------------------------------------------------------------------------
(* The invariant: how far the loops have come, and what they have made. *)

\* The loop over ns has k elements behind it and rest before it.
Left(ns, k, rest) ==
    /\ rest \in Seq(Range(ns)) /\ Len(rest) = Len(ns) - k
    /\ \A i \in 1 .. Len(rest) : rest[i] = ns[k + i]

\* c has the values of the first k arguments.
CliFrom(command, as, k, c) ==
    /\ DOMAIN c = {as[i].option : i \in 1 .. k}
    /\ \A i \in 1 .. k : <<c[as[i].option]>> \in ArgumentValues(command, as[i])

\* The profile p has the values of node n and no others.
FromNode(p, n) ==
    /\ p.command = n.command /\ DOMAIN p.options = DOMAIN n.options
    /\ \A o \in DOMAIN n.options : <<p.options[o]>> \in NodeValues(o, n.options[o])

\* ps has the profiles of the first k nodes.
Built(ns, k, ps) ==
    /\ DOMAIN ps = {ns[i].name : i \in 1 .. k}
    /\ \A i, j \in 1 .. k : ns[i].name = ns[j].name => i = j
    /\ \A i \in 1 .. k : FromNode(ps[ns[i].name], ns[i])

\* The profile c has the values of node n, but for the keys ks.
Begun(c, n, ks) ==
    /\ ks \subseteq DOMAIN n.options
    /\ c = [command |-> n.command, options |-> c.options]
    /\ DOMAIN c.options = DOMAIN n.options \ ks
    /\ \A o \in DOMAIN c.options : <<c.options[o]>> \in NodeValues(o, n.options[o])

\* What ends the loading of a configuration at node n.
Refused(n, ps) ==
    \/ BadNode(n)
    \/ \E o \in DOMAIN n.options : Thrown \in NodeValues(o, n.options[o])
    \/ n.name \in DOMAIN ps

ArgumentsInv ==
    /\ \E k \in 0 .. Len(given.args) :
          Left(given.args, k, args) /\ CliFrom(given.command, given.args, k, cli)
    /\ pc \in {"arguments", "bad_argument"} \/ args = <<>>
    /\ pc = "bad_argument" =>
          args # <<>> /\ Thrown \in ArgumentValues(given.command, Head(args))

NodesInv ==
    /\ \E k \in 0 .. Len(given.nodes) :
          Left(given.nodes, k, nodes) /\ Built(given.nodes, k, profiles)
    /\ pc = "keys" => nodes # <<>> /\ ~BadNode(Head(nodes)) /\ Begun(current, Head(nodes), keys)
    /\ pc = "bad_config" => nodes # <<>> /\ Refused(Head(nodes), profiles)
    /\ pc = "done" => nodes = <<>>

ProfilesInv ==
    /\ given \in Inputs
    /\ pc \in {"arguments", "bad_argument", "profiles", "keys", "bad_config", "done"}
    /\ ArgumentsInv /\ NodesInv

\* An element goes from the ones before the loop to those behind it.
LEMMA LeftNext ==
    ASSUME NEW ns, ns \in Seq(Range(ns)), NEW k \in 0 .. Len(ns), NEW rest,
           Left(ns, k, rest), rest # <<>>
    PROVE  /\ k + 1 \in 1 .. Len(ns) /\ Head(rest) = ns[k + 1] /\ Head(rest) \in Range(ns)
           /\ Left(ns, k + 1, Tail(rest))
<1> DEFINE S == Range(ns)
           n == Len(ns)
<1>1. /\ ns \in Seq(S) /\ n \in Nat /\ rest \in Seq(S) /\ Len(rest) = n - k
      /\ \A i \in 1 .. Len(rest) : rest[i] = ns[k + i]
  BY DEF Left
<1> HIDE DEF S, n
<1>2. Len(rest) \in Nat /\ Len(rest) # 0
  BY <1>1
<1>3. k + 1 \in 1 .. n
  BY <1>1, <1>2 DEF n
<1>4. Head(rest) = rest[1] /\ Head(rest) \in S
  BY <1>1, <1>2
<1>5. Head(rest) = ns[k + 1]
  BY <1>1, <1>2, <1>4
<1>6. Tail(rest) \in Seq(S) /\ Len(Tail(rest)) = n - (k + 1)
  BY <1>1, <1>2, <1>3
<1>7. ASSUME NEW i \in 1 .. Len(Tail(rest)) PROVE Tail(rest)[i] = ns[(k + 1) + i]
  <2>1. i + 1 \in 1 .. Len(rest) /\ Tail(rest)[i] = rest[i + 1] /\ k + (i + 1) = (k + 1) + i
    BY <1>1, <1>2, <1>3, <1>6
  <2> QED
    BY <1>1, <2>1
<1> QED
  BY <1>3, <1>4, <1>5, <1>6, <1>7 DEF Left, S, n

\* At the end of the loop all elements are behind it.
LEMMA LeftEnd ==
    ASSUME NEW ns, ns \in Seq(Range(ns)), NEW k \in 0 .. Len(ns), Left(ns, k, <<>>)
    PROVE  k = Len(ns)
  BY DEF Left

\* One more callback: the values are those of the arguments so far.
LEMMA CliNext ==
    ASSUME NEW command, NEW as, as \in Seq(Range(as)), NEW k \in 0 .. Len(as), k + 1 \in 1 .. Len(as),
           \A i, j \in DOMAIN as : as[i].option = as[j].option => i = j,
           NEW c, CliFrom(command, as, k, c),
           NEW v, <<v>> \in ArgumentValues(command, as[k + 1])
    PROVE  CliFrom(command, as, k + 1, With(c, as[k + 1].option, v))
<1> DEFINE o == as[k + 1].option
           d == With(c, o, v)
<1>1. DOMAIN d = DOMAIN c \union {o} /\ d[o] = v /\ \A x \in DOMAIN c : x # o => d[x] = c[x]
  BY WithFacts DEF With
<1>2. 1 .. (k + 1) = (1 .. k) \union {k + 1}
  OBVIOUS
<1>3. \A i \in 1 .. k : as[i].option # o
  <2> DEFINE n == Len(as)
  <2>1. DOMAIN as = 1 .. n /\ n \in Nat /\ k \in 0 .. n /\ k + 1 \in 1 .. n
    BY SequenceDomain
  <2> HIDE DEF n
  <2>2. ASSUME NEW i \in 1 .. k PROVE i \in 1 .. n /\ i # k + 1
    BY <2>1
  <2>3. \A i, j \in DOMAIN as : as[i].option = as[j].option => i = j
    OBVIOUS
  <2> QED
    BY ONLY <2>1, <2>2, <2>3
<1> HIDE DEF d
<1>4. DOMAIN d = {as[i].option : i \in 1 .. (k + 1)}
  BY <1>1, <1>2 DEF CliFrom
<1>5. \A i \in 1 .. (k + 1) : <<d[as[i].option]>> \in ArgumentValues(command, as[i])
  BY <1>1, <1>2, <1>3 DEF CliFrom
<1> QED
  BY <1>4, <1>5 DEF CliFrom, d

\* One more profile: those inserted are those of the nodes so far.
LEMMA BuiltNext ==
    ASSUME NEW ns, ns \in Seq(Range(ns)), NEW k \in 0 .. Len(ns), k + 1 \in 1 .. Len(ns),
           NEW ps, Built(ns, k, ps), ns[k + 1].name \notin DOMAIN ps,
           NEW p, FromNode(p, ns[k + 1])
    PROVE  Built(ns, k + 1, With(ps, ns[k + 1].name, p))
<1> DEFINE o == ns[k + 1].name
           d == With(ps, o, p)
<1>1. DOMAIN d = DOMAIN ps \union {o} /\ d[o] = p /\ \A x \in DOMAIN ps : x # o => d[x] = ps[x]
  BY WithFacts DEF With
<1>2. 1 .. (k + 1) = (1 .. k) \union {k + 1}
  OBVIOUS
<1>3. \A i \in 1 .. k : ns[i].name \in DOMAIN ps /\ ns[i].name # o
  BY DEF Built
<1> HIDE DEF d
<1>4. DOMAIN d = {ns[i].name : i \in 1 .. (k + 1)}
  BY <1>1, <1>2 DEF Built
<1>5. \A i, j \in 1 .. (k + 1) : ns[i].name = ns[j].name => i = j
  BY <1>2, <1>3 DEF Built
<1>6. \A i \in 1 .. (k + 1) : FromNode(d[ns[i].name], ns[i])
  BY <1>1, <1>2, <1>3 DEF Built
<1> QED
  BY <1>4, <1>5, <1>6 DEF Built, d

-----------------------------------------------------------------------------
(* The invariant is inductive. *)

\* ProfilesInv holds before the first callback.
LEMMA InitProfiles == Init => ProfilesInv
<1> SUFFICES ASSUME Init PROVE ProfilesInv
  OBVIOUS
<1> DEFINE as == given.args
           ns == given.nodes
<1>1. /\ given \in Inputs /\ args = as /\ cli = <<>> /\ nodes = ns /\ profiles = <<>>
      /\ pc = "arguments"
  BY DEF Init, NoOptions
<1>2. as \in Seq(Range(as)) /\ ns \in Seq(Range(ns))
  BY <1>1, InputAssumption DEF InputAssumption
<1>3. DOMAIN as = 1 .. Len(as) /\ DOMAIN ns = 1 .. Len(ns) /\ Len(as) \in Nat /\ Len(ns) \in Nat
  BY <1>2, SequenceDomain
<1>4. Left(as, 0, as) /\ Left(ns, 0, ns)
  BY ONLY <1>2, <1>3 DEF Left
<1>5. CliFrom(given.command, as, 0, <<>>) /\ Built(ns, 0, <<>>)
  BY DEF CliFrom, Built
<1>6. 0 \in 0 .. Len(as) /\ 0 \in 0 .. Len(ns)
  BY ONLY <1>3
<1>7. \E k \in 0 .. Len(as) : Left(as, k, args) /\ CliFrom(given.command, as, k, cli)
  BY <1>1, <1>4, <1>5, <1>6
<1>8. \E k \in 0 .. Len(ns) : Left(ns, k, nodes) /\ Built(ns, k, profiles)
  BY <1>1, <1>4, <1>5, <1>6
<1> QED
  BY <1>1, <1>7, <1>8 DEF ProfilesInv, ArgumentsInv, NodesInv

\* What is known of the command line and the configuration.
LEMMA InputFacts ==
    ASSUME given \in Inputs
    PROVE  /\ given.command \in {"create", "edit"}
           /\ given.args \in Seq(Range(given.args)) /\ given.nodes \in Seq(Range(given.nodes))
           /\ \A a \in Range(given.args) :
                 a.option \in ArgumentOptions(given.command) /\ a.words \in Seq(Word(a.option))
           /\ \A j, k \in DOMAIN given.args :
                 given.args[j].option = given.args[k].option => j = k
  BY InputAssumption DEF InputAssumption

\* ProfilesInv, by each step: the callback of an option,
LEMMA ArgumentParsed ==
    ASSUME ProfilesInv, ParseArgument
    PROVE  ProfilesInv'
<1> DEFINE as == given.args
           command == given.command
<1>1. given \in Inputs /\ pc = "arguments" /\ args # <<>> /\ given' = given
  BY DEF ProfilesInv, ParseArgument
<1>2. PICK k \in 0 .. Len(as) : Left(as, k, args) /\ CliFrom(command, as, k, cli)
  BY DEF ProfilesInv, ArgumentsInv
<1>3. as \in Seq(Range(as)) /\ \A i, j \in DOMAIN as : as[i].option = as[j].option => i = j
  BY <1>1, InputFacts
<1>4. /\ k + 1 \in 1 .. Len(as) /\ Head(args) = as[k + 1] /\ Head(args) \in Range(as)
      /\ Left(as, k + 1, Tail(args))
  BY <1>1, <1>2, <1>3, LeftNext
<1>5. PICK v \in ArgumentValues(command, Head(args)) :
          IF v = Thrown
          THEN pc' = "bad_argument" /\ UNCHANGED <<args, cli>>
          ELSE /\ cli' = With(cli, Head(args).option, v[1])
               /\ args' = Tail(args)
               /\ UNCHANGED pc
  BY DEF ParseArgument
<1>6. One(v)
  <2>1. command \in {"create", "edit"} /\ Head(args).option \in ArgumentOptions(command)
    BY <1>1, <1>4, InputFacts
  <2> QED
    BY <1>5, <2>1, ArgumentValuesAreOne
<1>7. NodesInv'
  BY <1>1, <1>5 DEF ProfilesInv, NodesInv, ParseArgument
<1>8. CASE v = Thrown
  BY <1>1, <1>2, <1>5, <1>7, <1>8 DEF ProfilesInv, ArgumentsInv
<1>9. CASE v # Thrown
  <2>1. <<v[1]>> \in ArgumentValues(command, as[k + 1])
    BY <1>4, <1>5, <1>6, <1>9 DEF One
  <2>2. CliFrom(command, as, k + 1, cli') /\ args' = Tail(args) /\ pc' = pc
    BY <1>2, <1>3, <1>4, <1>5, <1>9, <2>1, CliNext
  <2>3. k + 1 \in 0 .. Len(as)
    BY <1>4
  <2>4. ArgumentsInv'
    BY <1>1, <1>4, <2>2, <2>3 DEF ArgumentsInv
  <2> QED
    BY <1>1, <1>7, <2>2, <2>4 DEF ProfilesInv
<1> QED
  BY <1>8, <1>9

\* The steps that leave the command line alone.
LEMMA ArgumentsStay ==
    ASSUME ArgumentsInv, given' = given, args' = args, cli' = cli,
           args = <<>>, pc' # "bad_argument"
    PROVE  ArgumentsInv'
  BY DEF ArgumentsInv

\* the end of the command line,
LEMMA ConfigLoaded ==
    ASSUME ProfilesInv, LoadConfig
    PROVE  ProfilesInv'
<1>1. ArgumentsInv'
  BY ArgumentsStay DEF ProfilesInv, LoadConfig
<1> QED
  BY <1>1 DEF ProfilesInv, NodesInv, LoadConfig

\* the head of the loop over the profiles,
LEMMA ProfileBegun ==
    ASSUME ProfilesInv, BeginProfile
    PROVE  ProfilesInv'
<1>1. /\ pc = "profiles" /\ nodes # <<>> /\ given' = given /\ nodes' = nodes
      /\ profiles' = profiles /\ pc' \in {"bad_config", "keys"}
  BY DEF BeginProfile
<1>2. ArgumentsInv'
  BY <1>1, ArgumentsStay DEF ProfilesInv, ArgumentsInv, BeginProfile
<1>3. pc' = "keys" => ~BadNode(Head(nodes)) /\ Begun(current', Head(nodes), keys')
  BY DEF BeginProfile, Begun, NoOptions
<1>4. pc' = "bad_config" => BadNode(Head(nodes))
  BY DEF BeginProfile
<1>5. NodesInv'
  BY <1>1, <1>3, <1>4 DEF ProfilesInv, NodesInv, Refused
<1> QED
  BY <1>1, <1>2, <1>5 DEF ProfilesInv

\* the value of one key,
LEMMA KeyParsed ==
    ASSUME ProfilesInv, ParseKey
    PROVE  ProfilesInv'
<1> DEFINE n == Head(nodes)
<1>1. /\ pc = "keys" /\ nodes # <<>> /\ given' = given /\ nodes' = nodes /\ profiles' = profiles
      /\ ~BadNode(n) /\ Begun(current, n, keys)
  BY DEF ProfilesInv, NodesInv, ParseKey
<1>0. PICK o \in keys :
          \E v \in NodeValues(o, n.options[o]) :
              IF v = Thrown
              THEN pc' = "bad_config" /\ UNCHANGED <<keys, current>>
              ELSE /\ current' = [current EXCEPT !.options = With(@, o, v[1])]
                   /\ keys' = keys \ {o}
                   /\ UNCHANGED pc
  BY DEF ParseKey
<1>2. PICK v \in NodeValues(o, n.options[o]) :
          IF v = Thrown
          THEN pc' = "bad_config" /\ UNCHANGED <<keys, current>>
          ELSE /\ current' = [current EXCEPT !.options = With(@, o, v[1])]
               /\ keys' = keys \ {o}
               /\ UNCHANGED pc
  BY <1>0
<1>3. ArgumentsInv'
  BY <1>1, <1>2, ArgumentsStay DEF ProfilesInv, ArgumentsInv, ParseKey
<1>4. CASE v = Thrown
  <2>0. o \in DOMAIN n.options /\ Thrown \in NodeValues(o, n.options[o])
    BY <1>1, <1>2, <1>4 DEF Begun
  <2>1. Refused(n, profiles) /\ pc' = "bad_config"
    BY <1>2, <1>4, <2>0 DEF Refused
  <2>2. NodesInv'
    BY <1>1, <2>1 DEF ProfilesInv, NodesInv
  <2> QED
    BY <1>1, <1>3, <2>1, <2>2 DEF ProfilesInv
<1>5. CASE v # Thrown
  <2>1. /\ current' = [current EXCEPT !.options = With(@, o, v[1])]
        /\ keys' = keys \ {o} /\ pc' = pc
    BY <1>2, <1>5
  <2>2. o \in DOMAIN n.options /\ o \in CreateKeys \union EditKeys
    BY <1>1 DEF Begun, BadNode, Keys
  <2>3. v = <<v[1]>>
    BY <1>2, <1>5, <2>2, NodeValuesAreOne DEF One
  <2> DEFINE c == current.options
  <2> HIDE DEF n, c
  <2> DEFINE d == With(c, o, v[1])
  <2>4. DOMAIN d = DOMAIN c \union {o} /\ d[o] = v[1] /\ \A x \in DOMAIN c : x # o => d[x] = c[x]
    BY WithFacts DEF With
  <2> USE DEF n, c
  <2>5. current = [command |-> n.command, options |-> c]
    BY <1>1 DEF Begun
  <2>6. current' = [command |-> n.command, options |-> d]
    BY <2>1, <2>5
  <2> HIDE DEF d
  <2>7. DOMAIN d = DOMAIN n.options \ (keys \ {o})
    BY <1>1, <2>2, <2>4 DEF Begun
  <2>8. \A x \in DOMAIN d : <<d[x]>> \in NodeValues(x, n.options[x])
    BY <1>1, <1>2, <2>3, <2>4 DEF Begun
  <2>9. Begun(current', n, keys')
    BY <1>1, <2>1, <2>6, <2>7, <2>8 DEF Begun
  <2>10. NodesInv'
    BY <1>1, <2>1, <2>9 DEF ProfilesInv, NodesInv
  <2> QED
    BY <1>1, <1>3, <2>1, <2>10 DEF ProfilesInv
<1> QED
  BY <1>4, <1>5

\* the insertion into profiles_,
LEMMA ProfileInserted ==
    ASSUME ProfilesInv, InsertProfile
    PROVE  ProfilesInv'
<1> DEFINE n == Head(nodes)
           ns == given.nodes
<1>1. /\ pc = "keys" /\ keys = {} /\ nodes # <<>> /\ given' = given
      /\ ~BadNode(n) /\ Begun(current, n, keys) /\ pc' \in {"bad_config", "profiles"}
  BY DEF ProfilesInv, NodesInv, InsertProfile
<1>2. ArgumentsInv'
  BY <1>1, ArgumentsStay DEF ProfilesInv, ArgumentsInv, InsertProfile
<1>3. PICK k \in 0 .. Len(ns) : Left(ns, k, nodes) /\ Built(ns, k, profiles)
  BY DEF ProfilesInv, NodesInv
<1>4. CASE n.name \in DOMAIN profiles
  BY <1>1, <1>2, <1>3, <1>4 DEF ProfilesInv, NodesInv, InsertProfile, Refused
<1>5. CASE n.name \notin DOMAIN profiles
  <2>1. ns \in Seq(Range(ns))
    BY InputFacts DEF ProfilesInv
  <2>2. k + 1 \in 1 .. Len(ns) /\ n = ns[k + 1] /\ Left(ns, k + 1, Tail(nodes))
    BY <1>1, <1>3, <2>1, LeftNext
  <2>3. FromNode(current, n)
    BY <1>1 DEF Begun, FromNode
  <2>4. profiles' = With(profiles, n.name, current) /\ nodes' = Tail(nodes) /\ pc' = "profiles"
    BY <1>5 DEF InsertProfile
  <2> HIDE DEF n
  <2>5. Built(ns, k + 1, profiles')
    BY <1>3, <1>5, <2>1, <2>2, <2>3, <2>4, BuiltNext
  <2>6. k + 1 \in 0 .. Len(ns)
    BY <2>2
  <2>7. NodesInv'
    BY <1>1, <2>2, <2>4, <2>5, <2>6 DEF NodesInv
  <2> QED
    BY <1>1, <1>2, <2>4, <2>7 DEF ProfilesInv
<1> QED
  BY <1>4, <1>5

\* and the end of the loop.
LEMMA ProfilesEnded ==
    ASSUME ProfilesInv, EndProfiles
    PROVE  ProfilesInv'
<1>1. ArgumentsInv'
  BY ArgumentsStay DEF ProfilesInv, ArgumentsInv, EndProfiles
<1> QED
  BY <1>1 DEF ProfilesInv, NodesInv, EndProfiles

\* Whatever has been parsed, the loops have made the values of the arguments and
\* of the nodes they have passed, and of nothing else.
THEOREM ValuesInvariant == Spec => []ProfilesInv
<1>1. ASSUME ProfilesInv, [Next]_vars PROVE ProfilesInv'
  <2>1. CASE Next
    BY <1>1, <2>1, ArgumentParsed, ConfigLoaded, ProfileBegun, KeyParsed, ProfileInserted,
       ProfilesEnded DEF Next
  <2>2. CASE UNCHANGED vars
    BY <1>1, <2>2 DEF vars, ProfilesInv, ArgumentsInv, NodesInv
  <2> QED
    BY <1>1, <2>1, <2>2
<1> QED
  BY InitProfiles, <1>1, PTL DEF Spec

-----------------------------------------------------------------------------
(* Profiles are independent. *)

\* When every node has been passed there is a profile for each.
LEMMA BuiltAll ==
    ASSUME NEW ns, ns \in Seq(Range(ns)), NEW ps, Built(ns, Len(ns), ps)
    PROVE  /\ DOMAIN ps = {x.name : x \in Range(ns)}
           /\ Cardinality(DOMAIN ps) = Len(ns)
           /\ \A x \in Range(ns) : FromNode(ps[x.name], x)
<1> DEFINE n == Len(ns)
           name == [i \in 1 .. n |-> ns[i].name]
<1>1. DOMAIN ns = 1 .. n /\ n \in Nat
  BY SequenceDomain
<1>2. Range(ns) = {ns[i] : i \in 1 .. n}
  BY <1>1 DEF Range
<1> HIDE DEF n
<1>3. /\ DOMAIN ps = {ns[i].name : i \in 1 .. n}
      /\ \A i, j \in 1 .. n : ns[i].name = ns[j].name => i = j
      /\ \A i \in 1 .. n : FromNode(ps[ns[i].name], ns[i])
  BY DEF Built, n
<1>4. name \in Bijection(1 .. n, DOMAIN ps)
  BY <1>3 DEF Bijection, Injection, Surjection, IsInjective
<1>5. IsFiniteSet(1 .. n) /\ Cardinality(1 .. n) = n
  BY <1>1, FS_Interval
<1>6. Cardinality(DOMAIN ps) = n
  BY <1>4, <1>5, FS_Bijection DEF ExistsBijection
<1>7. \A x \in Range(ns) : FromNode(ps[x.name], x)
  BY ONLY <1>2, <1>3
<1>8. DOMAIN ps = {x.name : x \in Range(ns)}
  BY ONLY <1>2, <1>3
<1> QED
  BY ONLY <1>6, <1>7, <1>8 DEF n

\* What a profile holds comes from its own node, whatever nodes come before it, and
\* a configuration is rejected only for a node that is bad by itself or a name given
\* twice (parse_profiles).
THEOREM ProfilesAreTheirNodes == Spec => []ProfilesIndependent
<1>1. ASSUME ProfilesInv PROVE ProfilesIndependent
  <2> DEFINE ns == given.nodes
  <2>1. ns \in Seq(Range(ns))
    BY <1>1, InputFacts DEF ProfilesInv
  <2>2. PICK k \in 0 .. Len(ns) : Left(ns, k, nodes) /\ Built(ns, k, profiles)
    BY <1>1 DEF ProfilesInv, NodesInv
  <2>3. CASE pc = "done"
    <3>1. nodes = <<>>
      BY <1>1, <2>3 DEF ProfilesInv, NodesInv
    <3>2. k = Len(ns)
      BY <2>1, <2>2, <3>1, LeftEnd
    <3>3. /\ DOMAIN profiles = {x.name : x \in Range(ns)}
          /\ Cardinality(DOMAIN profiles) = Len(ns)
          /\ \A x \in Range(ns) : FromNode(profiles[x.name], x)
      BY <2>1, <2>2, <3>2, BuiltAll
    <3> QED
      BY <2>3, <3>3 DEF ProfilesIndependent, FromNode
  <2>4. CASE pc = "bad_config"
    <3>1. nodes # <<>> /\ Refused(Head(nodes), profiles)
      BY <1>1, <2>4 DEF ProfilesInv, NodesInv
    <3>2. k + 1 \in 1 .. Len(ns) /\ Head(nodes) = ns[k + 1] /\ Head(nodes) \in Range(ns)
      BY <2>1, <2>2, <3>1, LeftNext
    <3>3. CASE Head(nodes).name \in DOMAIN profiles
      <4>1. PICK i \in 1 .. k : ns[i].name = Head(nodes).name
        BY <2>2, <3>3 DEF Built
      <4> DEFINE n == Len(ns)
      <4>2. DOMAIN ns = 1 .. n /\ n \in Nat /\ k \in 0 .. n /\ k + 1 \in 1 .. n
        BY <2>1, <3>2, SequenceDomain
      <4> HIDE DEF n
      <4>3. i \in DOMAIN ns /\ k + 1 \in DOMAIN ns /\ i < k + 1
        BY <4>2
      <4> QED
        BY <2>4, <3>2, <4>1, <4>3 DEF ProfilesIndependent
    <3> QED
      BY <2>4, <3>1, <3>2, <3>3 DEF ProfilesIndependent, Refused
  <2> QED
    BY <2>3, <2>4 DEF ProfilesIndependent
<1> QED
  BY <1>1, ValuesInvariant, PTL

-----------------------------------------------------------------------------
(* The values of the command line. *)

\* An accepted argument has one of the values of its words.
LEMMA AcceptedValue ==
    ASSUME ProfilesInv, NEW a \in Range(given.args), Accepted(a)
    PROVE  <<cli[a.option]>> \in ArgumentValues(given.command, a)
<1> DEFINE as == given.args
           n == Len(as)
<1>1. as \in Seq(Range(as)) /\ \A i, j \in DOMAIN as : as[i].option = as[j].option => i = j
  BY InputFacts DEF ProfilesInv
<1>2. PICK k \in 0 .. n : CliFrom(given.command, as, k, cli)
  BY DEF ProfilesInv, ArgumentsInv
<1>3. PICK i \in 1 .. k : as[i].option = a.option
  BY <1>2 DEF Accepted, CliFrom
<1>4. DOMAIN as = 1 .. n /\ n \in Nat
  BY <1>1, SequenceDomain
<1>5. PICK j \in DOMAIN as : as[j] = a
  BY DEF Range
<1> HIDE DEF n
<1>6. i \in DOMAIN as
  BY <1>2, <1>4
<1>7. as[i] = a
  BY <1>1, <1>3, <1>5, <1>6
<1> QED
  BY <1>2, <1>7 DEF CliFrom

\* The words of a rejected argument may have no value.
LEMMA RejectedValue ==
    ASSUME ProfilesInv, NEW a \in Range(given.args), Rejected(a)
    PROVE  Thrown \in ArgumentValues(given.command, a)
  BY DEF ProfilesInv, ArgumentsInv, Rejected

\* An element of a sequence.
LEMMA ElementOf ==
    ASSUME NEW S, NEW s \in Seq(S), NEW i \in 1 .. Len(s)
    PROVE  s[i] \in S
  OBVIOUS

\* The value of one word.
LEMMA OneWord ==
    ASSUME NEW W, NEW words \in Seq(W), Len(words) = 1
    PROVE  words[1] \in W
  OBVIOUS

\* The clock of a local time and its offset.
LEMMA ClockShows ==
    ASSUME NEW d \in Nat, NEW h \in 0 .. 23, NEW m \in 0 .. 59,
           NEW shown, shown = 1440 * d + 60 * h + m
    PROVE  shown \div 1440 = d /\ (shown % 1440) \div 60 = h /\ shown % 60 = m
  OBVIOUS

\* The sum of parse_offset, as hours and minutes.
LEMMA HoursAndMinutes ==
    ASSUME NEW x \in Int, NEW y \in Int, NEW z \in Int, NEW u \in Int
    PROVE  /\ 600 * x + 60 * y + 10 * z + u \in Int
           /\ 600 * x + 60 * y + 10 * z + u = (10 * x + y) * 60 + 10 * z + u
  OBVIOUS

\* An offset of four digits is its hours and its minutes.
LEMMA FourDigits ==
    ASSUME NEW d \in Seq(0 .. 10), Len(d) = 4
    PROVE  /\ parse_offset(d) \in Int
           /\ parse_offset(d) = (10 * d[1] + d[2]) * 60 + 10 * d[3] + d[4]
<1>1. 1 \in 1 .. Len(d) /\ 2 \in 1 .. Len(d) /\ 3 \in 1 .. Len(d) /\ 4 \in 1 .. Len(d)
  OBVIOUS
<1>2. \A i \in 1 .. Len(d) : d[i] \in 0 .. 10
  BY ElementOf
<1> DEFINE x == d[1]
           y == d[2]
           z == d[3]
           u == d[4]
<1>3. x \in Int /\ y \in Int /\ z \in Int /\ u \in Int
  BY ONLY <1>1, <1>2
<1>4. parse_offset(d) = 600 * x + 60 * y + 10 * z + u
  BY DEF parse_offset
<1> HIDE DEF x, y, z, u
<1>5. /\ 600 * x + 60 * y + 10 * z + u \in Int
      /\ 600 * x + 60 * y + 10 * z + u = (10 * x + y) * 60 + 10 * z + u
  BY ONLY <1>3, HoursAndMinutes
<1> QED
  BY ONLY <1>4, <1>5 DEF x, y, z, u

\* The date of an ISO-8601 word, whose clock in the zone of the word shows its time.
LEMMA UtcShows ==
    ASSUME NEW w \in DateWord, NEW t, <<t>> = parse_utc_datetime(w),
           Len(w.offset) = 4, w.hour < 24, w.minute < 60
    PROVE  LET shown == t + Ahead(w)
           IN  shown \div 1440 = w.day /\ (shown % 1440) \div 60 = w.hour /\ shown % 60 = w.minute
<1> DEFINE d == w.day
           h == w.hour
           m == w.minute
           local == 1440 * d + 60 * h + m
           ahead == parse_offset(w.offset)
           shown == t + Ahead(w)
<1>1. /\ d \in Nat \union {-1} /\ h \in 0 .. 99 /\ m \in 0 .. 99
      /\ w.offset \in Seq(0 .. 10) /\ h < 24 /\ m < 60
  BY DEF DateWord
<1>2. ahead \in Int
  BY <1>1, FourDigits
<1>3. ahead = (10 * w.offset[1] + w.offset[2]) * 60 + 10 * w.offset[3] + w.offset[4]
  BY <1>1, FourDigits
<1> HIDE DEF ahead
<1>4. Ahead(w) = CASE w.zone = "Z" -> 0 [] w.zone = "+" -> ahead [] w.zone = "-" -> -ahead
  BY ONLY <1>3 DEF Ahead
<1>5. /\ d >= 0
      /\ \/ w.zone = "Z" /\ t = local
         \/ w.zone = "+" /\ t = local - ahead
         \/ w.zone = "-" /\ t = local + ahead
  BY DEF parse_utc_datetime, Thrown, ahead
<1>6. \/ t = local /\ Ahead(w) = 0
      \/ t = local - ahead /\ Ahead(w) = ahead
      \/ t = local + ahead /\ Ahead(w) = -ahead
  BY ONLY <1>4, <1>5
<1> HIDE DEF d, h, m
<1>7. d \in Nat /\ h \in 0 .. 23 /\ m \in 0 .. 59
  BY ONLY <1>1, <1>5
<1>8. local \in Int
  BY ONLY <1>7
<1> HIDE DEF local
<1>9. shown = local
  BY ONLY <1>2, <1>6, <1>8
<1> HIDE DEF shown
<1>10. shown \div 1440 = d /\ (shown % 1440) \div 60 = h /\ shown % 60 = m
  BY ONLY <1>7, <1>9, ClockShows DEF local
<1> QED
  BY ONLY <1>10 DEF shown, d, h, m

\* At the date the metafile gets, a clock in the zone of the word shows the time of
\* the word (creation_date_transformer).
THEOREM DatesAreTheirWords == Spec => []DatesAsDocumented
<1>1. ASSUME ProfilesInv PROVE DatesAsDocumented
  <2> SUFFICES ASSUME NEW a \in Given("creation-date"), Accepted(a)
               PROVE  LET w == a.words[1]
                          shown == cli["creation-date"] + Ahead(w)
                      IN  CASE w.kind = "posix" -> cli["creation-date"] = w.time
                            [] w.kind = "iso" /\ Len(w.offset) = 4 /\ w.hour < 24 /\ w.minute < 60 ->
                                 /\ shown \div 1440 = w.day
                                 /\ (shown % 1440) \div 60 = w.hour
                                 /\ shown % 60 = w.minute
                            [] OTHER -> TRUE
    BY DEF DatesAsDocumented
  <2> DEFINE w == a.words[1]
             t == cli["creation-date"]
  <2>1. a \in Range(given.args) /\ a.option = "creation-date"
    BY DEF Given
  <2>2. a.words \in Seq(DateWord)
    BY <1>1, <2>1, InputFacts DEF ProfilesInv, Word
  <2>3. <<t>> \in ArgumentValues(given.command, a)
    BY <1>1, <2>1, AcceptedValue
  <2>4. \/ <<t>> = OneOf(EditDate, a.words)
        \/ <<t>> = OneOf(creation_date_transformer, a.words)
    <3>1. Values(a.option, a.words) = {OneOf(creation_date_transformer, a.words)}
      BY <2>1, ValueArms
    <3>2. ArgumentValues(given.command, a) \in
             {{OneOf(EditDate, a.words)}, Values(a.option, a.words)}
      BY <2>1 DEF ArgumentValues
    <3> QED
      BY <2>3, <3>1, <3>2
  <2>5. Len(a.words) = 1 /\ (<<t>> = EditDate(w) \/ <<t>> = creation_date_transformer(w))
    BY <2>4 DEF OneOf, Thrown
  <2>6. w \in DateWord
    BY <2>2, <2>5, OneWord
  <2>7. \/ w.kind = "empty"
        \/ w.kind = "posix" /\ t = w.time
        \/ w.kind = "iso" /\ <<t>> = parse_utc_datetime(w)
    BY <2>5 DEF EditDate, creation_date_transformer, Thrown
  <2>8. CASE w.kind = "iso" /\ Len(w.offset) = 4 /\ w.hour < 24 /\ w.minute < 60
    BY <2>6, <2>7, <2>8, UtcShows
  <2> QED
    BY <2>7, <2>8
<1> QED
  BY <1>1, ValuesInvariant, PTL

\* A power of two is the number of the subsets of a set.
LEMMA PowerOfTwo ==
    ASSUME NEW n \in Nat
    PROVE  2^n \in Nat
<1>1. IsFiniteSet(1 .. n) /\ Cardinality(1 .. n) = n
  BY FS_Interval
<1>2. Cardinality(SUBSET (1 .. n)) = 2^n /\ IsFiniteSet(SUBSET (1 .. n))
  BY <1>1, FS_SUBSET
<1> QED
  BY <1>2, FS_CardinalityType

\* A size that has room is not reduced modulo 2^Bits.
LEMMA SmallRemainder ==
    ASSUME NEW x \in Nat, NEW m \in Nat, x < m
    PROVE  x % m = x
  OBVIOUS

\* A number times its unit.
LEMMA ProductInNat ==
    ASSUME NEW x \in Nat, NEW y \in Nat
    PROVE  x * y \in Nat /\ (y # 0 => x * y >= x) /\ (y = 0 => x * y = 0)
  OBVIOUS

\* A size that fits is computed as it is meant.
LEMMA ScaledAsMeant ==
    ASSUME NEW w \in SizeWord, w.unit \in {"none", "k", "m"}, Fits(w)
    PROVE  /\ MeantSize(w) \in Nat /\ Scaled(w) = {MeantSize(w)}
           /\ w.number \notin Sizes => MeantSize(w) < Least
<1> DEFINE n == w.number
           b == 2^Bits
           m == MeantSize(w)
<1>1. Kilo \in Nat /\ Least \in Nat /\ Most \in Nat /\ Bits \in Nat
  BY SizeAssumption
<1>2. Kilo < Least /\ Least =< Most /\ Most < b
  BY SizeAssumption
<1>3. n \in Nat
  BY DEF SizeWord
<1>4. b \in Nat
  BY <1>1, PowerOfTwo
<1>5. (w.unit = "none" /\ n < Least => n < Bits) /\ m < b
  BY DEF Fits
<1> HIDE DEF b
<1>6. ASSUME NEW x \in Nat, x < b PROVE x \in Sizes /\ x % b = x
  <2>1. x \in 0 .. (b - 1)
    BY <1>4, <1>6
  <2> QED
    BY <1>4, <1>6, <2>1, SmallRemainder DEF Sizes, b
<1>7. ASSUME NEW x \in Nat, x < b, Kilo # 0 => x >= n, Kilo = 0 => x = 0, n \notin Sizes
      PROVE  x < Least
  <2> HIDE DEF n
  <2>1. ~(n < b)
    BY <1>3, <1>6, <1>7
  <2>2. Kilo = 0
    BY <1>1, <1>3, <1>4, <1>7, <2>1
  <2> QED
    BY <1>1, <1>2, <1>7, <2>2
<1>8. CASE w.unit = "k"
  <2> DEFINE x == n * Kilo
  <2>1. m = x
    BY <1>8 DEF MeantSize
  <2>2. Scaled(w) = {x % b}
    BY <1>8 DEF Scaled, b
  <2>3. x \in Nat /\ (Kilo # 0 => x >= n) /\ (Kilo = 0 => x = 0)
    BY <1>1, <1>3, ProductInNat
  <2> HIDE DEF x, m
  <2>4. x \in Nat /\ x < b
    BY <1>5, <2>1, <2>3
  <2> QED
    BY <1>6, <1>7, <2>1, <2>2, <2>3, <2>4 DEF m
<1>9. CASE w.unit = "m"
  <2> DEFINE y == n * Kilo
             x == y * Kilo
  <2>1. m = x
    BY <1>9 DEF MeantSize
  <2>2. Scaled(w) = {x % b}
    BY <1>9 DEF Scaled, b
  <2>3. y \in Nat /\ (Kilo # 0 => y >= n)
    BY <1>1, <1>3, ProductInNat
  <2> HIDE DEF y, n, m
  <2>4. x \in Nat /\ (Kilo # 0 => x >= y) /\ (Kilo = 0 => x = 0)
    BY <1>1, <2>3, ProductInNat
  <2> HIDE DEF x
  <2>5. x \in Nat /\ x < b
    BY <1>5, <2>1, <2>4
  <2>6. Kilo # 0 => x >= n
    BY <1>3, <2>3, <2>4
  <2> QED
    BY <1>6, <1>7, <2>1, <2>2, <2>4, <2>5, <2>6 DEF m, n
<1>10. CASE w.unit = "none" /\ n < Least
  <2>1. n < Bits /\ ~(n >= Bits)
    BY <1>1, <1>3, <1>5, <1>10
  <2>2. m = 2^n
    BY <1>10 DEF MeantSize
  <2>3. Scaled(w) = {2^n}
    <3> DEFINE p == 2^n
    <3> HIDE DEF p
    <3>1. w.unit = "none" /\ n < Least /\ n < Bits /\ ~(n >= Bits) /\ p = 2^n
      BY <1>10, <2>1 DEF p
    <3>2. Scaled(w) = {p}
      BY ONLY <3>1, Zenon DEF Scaled
    <3> QED
      BY ONLY <3>1, <3>2
  <2>4. 2^n \in Nat
    BY <1>3, PowerOfTwo
  <2>5. n < b
    BY <1>1, <1>2, <1>3, <1>4, <1>10
  <2>6. n \in Sizes
    BY <1>3, <1>6, <2>5
  <2> QED
    BY <2>2, <2>3, <2>4, <2>6
<1>11. CASE w.unit = "none" /\ ~(n < Least)
  <2>1. m = n
    BY <1>11 DEF MeantSize
  <2>2. Scaled(w) = {n}
    BY <1>11 DEF Scaled
  <2>3. n \in Sizes
    BY <1>3, <1>5, <1>6, <2>1
  <2> QED
    BY <1>3, <2>1, <2>2, <2>3
<1> QED
  BY <1>8, <1>9, <1>10, <1>11

\* The values a word of a size has.
LEMMA SizeParsed ==
    ASSUME NEW w, NEW v \in parse_commandline_size(w)
    PROVE  \/ w.kind = "auto" /\ v = <<AutoSize>>
           \/ /\ w.kind = "number" /\ w.number \in Sizes
              /\ \E x \in Scaled(w) : v = IF SingleBit(x) /\ x >= Least THEN <<x>> ELSE Thrown
           \/ v = Thrown /\ (w.kind = "number" => w.number \notin Sizes)
  BY DEF parse_commandline_size

\* What a word with a unit scales to, also when that wraps.
LEMMA ScaledWraps ==
    ASSUME NEW w, w.unit \in {"k", "m"}
    PROVE  Scaled(w) = {MeantSize(w) % 2^Bits}
<1>1. CASE w.unit = "k"
  <2>1. w.unit # "m" /\ w.unit # "none"
    BY <1>1
  <2> QED
    BY ONLY <1>1, <2>1, Zenon DEF Scaled, MeantSize
<1>2. CASE w.unit = "m"
  <2>1. w.unit # "k" /\ w.unit # "none"
    BY <1>2
  <2> QED
    BY ONLY <1>2, <2>1, Zenon DEF Scaled, MeantSize
<1> QED
  BY <1>1, <1>2

\* A size is a power of two, not too small and what its word means or, beyond the
\* width, what is left of it after wrapping; it is refused exactly when it is no such
\* number, and never for being greater than the documentation allows
\* (parse_commandline_size).
THEOREM SizesAreTheirWords == Spec => []SizesAsWritten
<1>1. ASSUME ProfilesInv PROVE SizesAsWritten
  <2> SUFFICES ASSUME NEW o \in {"piece-size", "io-block-size"}, NEW a \in Given(o)
               PROVE  /\ Accepted(a) => cli[o] = AutoSize \/ (SingleBit(cli[o]) /\ cli[o] >= Least)
                      /\ Len(a.words) = 1 =>
                            LET w    == a.words[1]
                                size == MeantSize(w)
                            IN  /\ w.kind = "number" /\ w.unit \in {"none", "k", "m"} /\ Fits(w) =>
                                      /\ Accepted(a) => cli[o] = size
                                      /\ Rejected(a) => ~SingleBit(size) \/ size < Least
                                      /\ SingleBit(size) /\ size > Most => ~Rejected(a)
                                /\ w.kind = "number" /\ w.unit \in {"k", "m"} /\ Accepted(a) =>
                                      cli[o] = size % 2^Bits
    BY DEF SizesAsWritten
  <2> DEFINE w == a.words[1]
             x == cli[o]
  <2>1. a \in Range(given.args) /\ a.option = o
    BY DEF Given
  <2>2. a.words \in Seq(SizeWord)
    BY <1>1, <2>1, InputFacts DEF ProfilesInv, Word
  <2>3. ArgumentValues(given.command, a) = Values(o, a.words)
    BY <2>1 DEF ArgumentValues
  <2>4. Values(o, a.words) = IF Len(a.words) = 1 THEN parse_commandline_size(w) ELSE {Thrown}
    BY ValueArms
  <2>5. ASSUME Accepted(a) PROVE Len(a.words) = 1 /\ <<x>> \in parse_commandline_size(w)
    <3>1. <<x>> \in Values(o, a.words)
      BY <1>1, <2>1, <2>3, <2>5, AcceptedValue
    <3> QED
      BY <2>4, <3>1 DEF Thrown
  <2>6. ASSUME Rejected(a), Len(a.words) = 1 PROVE Thrown \in parse_commandline_size(w)
    BY <1>1, <2>1, <2>3, <2>4, <2>6, RejectedValue
  <2> HIDE DEF x
  <2>7. ASSUME Accepted(a)
        PROVE  \/ w.kind = "auto" /\ x = AutoSize
               \/ w.kind = "number" /\ x \in Scaled(w) /\ SingleBit(x) /\ x >= Least
    BY <2>5, <2>7, SizeParsed DEF Thrown
  <2>8. ASSUME Len(a.words) = 1, w.kind = "number", w.unit \in {"none", "k", "m"}, Fits(w)
        PROVE  /\ Accepted(a) => x = MeantSize(w)
               /\ Rejected(a) => ~SingleBit(MeantSize(w)) \/ MeantSize(w) < Least
               /\ SingleBit(MeantSize(w)) /\ MeantSize(w) > Most => ~Rejected(a)
    <3>1. w \in SizeWord
      BY <2>2, <2>8, OneWord
    <3>2. /\ MeantSize(w) \in Nat /\ Scaled(w) = {MeantSize(w)}
          /\ w.number \notin Sizes => MeantSize(w) < Least
      BY <2>8, <3>1, ScaledAsMeant
    <3>3. Accepted(a) => x = MeantSize(w)
      BY <2>7, <2>8, <3>2
    <3>4. ASSUME Rejected(a), w.number \in Sizes
          PROVE  ~SingleBit(MeantSize(w)) \/ MeantSize(w) < Least
      <4>1. ~(SingleBit(MeantSize(w)) /\ MeantSize(w) >= Least)
        BY <2>6, <2>8, <3>2, <3>4, SizeParsed DEF Thrown
      <4>2. Least \in Nat
        BY SizeAssumption
      <4> QED
        BY <3>2, <4>1, <4>2
    <3>5. ~SingleBit(MeantSize(w)) \/ MeantSize(w) < Least => ~(SingleBit(MeantSize(w)) /\ MeantSize(w) > Most)
      <4>1. Least \in Nat /\ Most \in Nat /\ Least =< Most
        BY SizeAssumption
      <4> QED
        BY <3>2, <4>1
    <3>6. Rejected(a) => ~SingleBit(MeantSize(w)) \/ MeantSize(w) < Least
      BY <3>2, <3>4
    <3> QED
      BY ONLY <3>3, <3>5, <3>6
  <2>9. ASSUME w.kind = "number", w.unit \in {"k", "m"}, Accepted(a)
        PROVE  x = MeantSize(w) % 2^Bits
    <3>1. x \in Scaled(w)
      BY <2>7, <2>9
    <3>2. Scaled(w) = {MeantSize(w) % 2^Bits}
      BY ONLY <2>9, ScaledWraps
    <3> QED
      BY ONLY <3>1, <3>2
  <2> QED
    BY <2>7, <2>8, <2>9 DEF x
<1> QED
  BY <1>1, ValuesInvariant, PTL

-----------------------------------------------------------------------------
(* Folds over sequences.  What a fold computes is stated turn by turn. *)

\* Induction, on a set of numbers.
LEMMA AllNumbers ==
    ASSUME NEW S, 0 \in S, \A n \in Nat : n \in S => n + 1 \in S
    PROVE  Nat \subseteq S
<1> DEFINE T == Nat \ S
           R == {p \in Nat \X Nat : p[1] < p[2]}
<1> SUFFICES ASSUME T # {} PROVE FALSE
  OBVIOUS
<1>1. IsWellFoundedOn(R, Nat)
  BY NatLessThanWellFounded DEF OpToRel
<1>2. PICK x \in T : \A y \in T : <<y, x>> \notin R
  <2> HIDE DEF R
  <2> QED
    BY <1>1, WFMin
<1>3. x # 0 /\ x \in Nat /\ x \notin S
  OBVIOUS
<1>4. x - 1 \in Nat /\ (x - 1) + 1 = x /\ x - 1 < x
  BY <1>3
<1>5. <<x - 1, x>> \in R
  BY <1>3, <1>4
<1>6. x - 1 \in S
  BY <1>2, <1>4, <1>5
<1> QED
  BY <1>3, <1>4, <1>6

\* The last of some turns is one of them.
LEMMA LastTurn ==
    ASSUME NEW k \in Nat, NEW s \in SUBSET (1 .. k), s # {}
    PROVE  Max(s) \in s /\ \A y \in s : Max(s) >= y
<1> DEFINE HasLast(j) == \A t \in SUBSET (1 .. j) : t # {} => \E x \in t : \A y \in t : x >= y
           S == {j \in Nat : HasLast(j)}
<1>1. 0 \in S
  <2>1. 1 .. 0 = {}
    OBVIOUS
  <2> QED
    BY <2>1
<1>2. ASSUME NEW j \in Nat, HasLast(j) PROVE HasLast(j + 1)
  <2> SUFFICES ASSUME NEW t \in SUBSET (1 .. (j + 1)), t # {}
               PROVE  \E x \in t : \A y \in t : x >= y
    OBVIOUS
  <2>1. CASE j + 1 \in t
    <3>1. \A y \in t : j + 1 >= y
      OBVIOUS
    <3> QED
      BY <2>1, <3>1
  <2>2. CASE j + 1 \notin t
    <3>1. t \in SUBSET (1 .. j)
      BY <2>2
    <3> QED
      BY <1>2, <3>1
  <2> QED
    BY <2>1, <2>2
<1>3. \A j \in Nat : j \in S => j + 1 \in S
  BY <1>2
<1> HIDE DEF S
<1>4. k \in S
  BY <1>1, <1>3, AllNumbers
<1>5. \E x \in s : \A y \in s : x >= y
  BY <1>4 DEF S
<1> QED
  BY <1>5 DEF Max

\* The state after the words at the places s, from the states f before.
Turn(words, f, s) == IF s = {} THEN NoTiers ELSE TakeAnnounce(f[s \ {Max(s)}], words[Max(s)])

Turns(words, k) == CHOOSE f : f = [s \in SUBSET (1 .. k) |-> Turn(words, f, s)]

\* The values of FoldFunction on the sets of the first numbers, by induction on k.
LEMMA TurnsExist ==
    ASSUME NEW words, NEW k \in Nat
    PROVE  Turns(words, k) = [s \in SUBSET (1 .. k) |-> Turn(words, Turns(words, k), s)]
<1> DEFINE Exist(j) == \E f : f = [s \in SUBSET (1 .. j) |-> Turn(words, f, s)]
           S == {j \in Nat : Exist(j)}
<1>1. Exist(0)
  <2> DEFINE f == [s \in SUBSET (1 .. 0) |-> NoTiers]
  <2>1. \A s \in SUBSET (1 .. 0) : s = {}
    OBVIOUS
  <2>2. f = [s \in SUBSET (1 .. 0) |-> Turn(words, f, s)]
    BY <2>1 DEF Turn
  <2> QED
    BY <2>2
<1>2. ASSUME NEW j \in Nat, Exist(j) PROVE Exist(j + 1)
  <2>1. PICK f : f = [s \in SUBSET (1 .. j) |-> Turn(words, f, s)]
    BY <1>2
  <2> DEFINE g == [s \in SUBSET (1 .. (j + 1)) |->
                     IF j + 1 \in s THEN TakeAnnounce(f[s \ {j + 1}], words[j + 1]) ELSE f[s]]
  <2>2. ASSUME NEW s \in SUBSET (1 .. (j + 1)) PROVE g[s] = Turn(words, g, s)
    <3>1. CASE j + 1 \in s
      <4>0. j + 1 \in Nat
        OBVIOUS
      <4>1. Max(s) \in s /\ \A y \in s : Max(s) >= y
        <5>1. s # {} /\ s \in SUBSET (1 .. (j + 1))
          BY <3>1
        <5> QED
          BY ONLY <4>0, <5>1, LastTurn
      <4>2. Max(s) = j + 1
        <5>1. \A y \in 1 .. (j + 1) : y >= j + 1 => y = j + 1
          OBVIOUS
        <5>2. Max(s) \in 1 .. (j + 1) /\ Max(s) >= j + 1
          BY <3>1, <4>1
        <5> QED
          BY ONLY <5>1, <5>2
      <4>3. s \ {j + 1} \in SUBSET (1 .. j) /\ s \ {j + 1} \in SUBSET (1 .. (j + 1))
        OBVIOUS
      <4>4. g[s \ {j + 1}] = f[s \ {j + 1}]
        <5>1. j + 1 \notin s \ {j + 1}
          OBVIOUS
        <5> QED
          BY <4>3, <5>1
      <4>5. g[s] = TakeAnnounce(f[s \ {j + 1}], words[j + 1])
        BY <3>1
      <4> HIDE DEF g
      <4> QED
        BY <3>1, <4>2, <4>4, <4>5 DEF Turn
    <3>2. CASE j + 1 \notin s
      <4>1. s \in SUBSET (1 .. j)
        BY <3>2
      <4>2. g[s] = f[s] /\ f[s] = Turn(words, f, s)
        BY <2>1, <3>2, <4>1
      <4>3. ASSUME s # {} PROVE g[s \ {Max(s)}] = f[s \ {Max(s)}]
        <5>1. s \ {Max(s)} \in SUBSET (1 .. (j + 1)) /\ j + 1 \notin s \ {Max(s)}
          BY <3>2
        <5> QED
          BY <5>1
      <4> HIDE DEF g
      <4> QED
        BY <4>2, <4>3 DEF Turn
    <3> QED
      BY <3>1, <3>2
  <2>3. g = [s \in SUBSET (1 .. (j + 1)) |-> Turn(words, g, s)]
    BY <2>2
  <2> QED
    BY <2>3
<1>3. 0 \in S /\ \A j \in Nat : j \in S => j + 1 \in S
  <2> HIDE DEF Exist
  <2> QED
    BY ONLY <1>1, <1>2
<1> HIDE DEF S
<1>4. k \in S
  BY <1>3, AllNumbers
<1>5. Exist(k)
  BY <1>4 DEF S
<1> QED
  BY ONLY <1>5 DEF Turns

\* st has the state of the loop of announce_transformer after each word.
Run(words, st) ==
    /\ st[0] = NoTiers
    /\ \A i \in 1 .. Len(words) : st[i] = TakeAnnounce(st[i - 1], words[i])

\* The loop over the words, turn by turn: FoldLeft is the last of its states.
LEMMA RunExists ==
    ASSUME NEW words, DOMAIN words = 1 .. Len(words), Len(words) \in Nat
    PROVE  \E st : Run(words, st) /\ FoldLeft(TakeAnnounce, NoTiers, words) = st[Len(words)]
<1> DEFINE n == Len(words)
           f == Turns(words, n)
           st == [i \in 0 .. n |-> f[1 .. i]]
<1>1. FoldLeft(TakeAnnounce, NoTiers, words) = f[1 .. n]
  BY DEF FoldLeft, MapThenFoldSet, Turns, Turn
<1> HIDE DEF n
<1>2. n \in Nat
  BY DEF n
<1>3. f = [s \in SUBSET (1 .. n) |-> Turn(words, f, s)]
  BY <1>2, TurnsExist
<1> HIDE DEF f
<1>4. st[0] = NoTiers
  <2>1. 1 .. 0 = {} /\ {} \in SUBSET (1 .. n) /\ 0 \in 0 .. n
    BY <1>2
  <2> QED
    BY <1>3, <2>1 DEF Turn
<1>5. ASSUME NEW i \in 1 .. n PROVE st[i] = TakeAnnounce(st[i - 1], words[i])
  <2>1. i \in 0 .. n /\ i - 1 \in 0 .. n /\ 1 .. i \in SUBSET (1 .. n) /\ i \in 1 .. i
    BY <1>2
  <2>2. Max(1 .. i) \in 1 .. i /\ \A y \in 1 .. i : Max(1 .. i) >= y
    BY <1>2, <2>1, LastTurn
  <2>3. Max(1 .. i) = i /\ (1 .. i) \ {i} = 1 .. (i - 1) /\ 1 .. i # {}
    BY <1>2, <2>1, <2>2
  <2>4. f[1 .. i] = Turn(words, f, 1 .. i)
    BY <1>3, <2>1
  <2>5. f[1 .. i] = TakeAnnounce(f[1 .. (i - 1)], words[i])
    BY <2>3, <2>4 DEF Turn
  <2> QED
    BY <2>1, <2>5
<1>6. st[n] = f[1 .. n]
  BY <1>2
<1> HIDE DEF st
<1> QED
  BY <1>1, <1>4, <1>5, <1>6 DEF Run, n

-----------------------------------------------------------------------------
(* Flattening: what FlattenSeq has after each sequence. *)

FlatTurn(seqs, f, i) == IF i = 1 THEN seqs[i] ELSE f[i - 1] \o seqs[i]

FlatTurns(seqs, k) == CHOOSE f : f = [i \in 1 .. k |-> FlatTurn(seqs, f, i)]

\* The values of FlattenSeq on the first sequences, by induction on k.
LEMMA FlatTurnsExist ==
    ASSUME NEW seqs, NEW k \in Nat
    PROVE  FlatTurns(seqs, k) = [i \in 1 .. k |-> FlatTurn(seqs, FlatTurns(seqs, k), i)]
<1> DEFINE Exist(j) == \E f : f = [i \in 1 .. j |-> FlatTurn(seqs, f, i)]
           S == {j \in Nat : Exist(j)}
<1>1. Exist(0)
  <2> DEFINE f == [i \in 1 .. 0 |-> <<>>]
  <2>1. 1 .. 0 = {}
    OBVIOUS
  <2>2. f = [i \in 1 .. 0 |-> FlatTurn(seqs, f, i)]
    BY <2>1
  <2> QED
    BY <2>2
<1>2. ASSUME NEW j \in Nat, Exist(j) PROVE Exist(j + 1)
  <2>1. PICK f : f = [i \in 1 .. j |-> FlatTurn(seqs, f, i)]
    BY <1>2
  <2> DEFINE g == [i \in 1 .. (j + 1) |-> IF i = j + 1 THEN FlatTurn(seqs, f, i) ELSE f[i]]
  <2>2. \A i \in 1 .. j : g[i] = f[i] /\ f[i] = FlatTurn(seqs, f, i)
    BY <2>1
  <2>3. ASSUME NEW i \in 1 .. (j + 1) PROVE g[i] = FlatTurn(seqs, f, i)
    <3>1. i \in 1 .. j \/ i = j + 1
      OBVIOUS
    <3> QED
      BY <2>2, <3>1
  <2>4. ASSUME NEW i \in 1 .. (j + 1), i # 1 PROVE g[i - 1] = f[i - 1]
    <3>1. i - 1 \in 1 .. j
      BY <2>4
    <3> QED
      BY <2>2, <3>1
  <2>5. g = [i \in 1 .. (j + 1) |-> g[i]]
    OBVIOUS
  <2> HIDE DEF g
  <2>6. \A i \in 1 .. (j + 1) : g[i] = FlatTurn(seqs, g, i)
    BY <2>3, <2>4 DEF FlatTurn
  <2>7. g = [i \in 1 .. (j + 1) |-> FlatTurn(seqs, g, i)]
    BY <2>5, <2>6
  <2> QED
    BY <2>7
<1>3. 0 \in S /\ \A j \in Nat : j \in S => j + 1 \in S
  <2> HIDE DEF Exist
  <2> QED
    BY ONLY <1>1, <1>2
<1> HIDE DEF S
<1>4. k \in S
  BY <1>3, AllNumbers
<1>5. Exist(k)
  BY <1>4 DEF S
<1> QED
  BY ONLY <1>5 DEF FlatTurns

\* Length, domain and elements of a sequence.
LEMMA SequenceFacts ==
    ASSUME NEW S, NEW s \in Seq(S)
    PROVE  /\ Len(s) \in Nat /\ DOMAIN s = 1 .. Len(s) /\ (Len(s) = 0 => s = <<>>)
           /\ \A i \in 1 .. Len(s) : s[i] \in S
  OBVIOUS

\* fl has the elements of the first sequences after each of them.
FlatRun(E, seqs, fl) ==
    /\ fl[0] = <<>>
    /\ \A i \in 1 .. Len(seqs) : fl[i] = fl[i - 1] \o seqs[i]
    /\ \A i \in 0 .. Len(seqs) : fl[i] \in Seq(E)

\* FlattenSeq, sequence by sequence.
LEMMA FlatRunExists ==
    ASSUME NEW E, NEW seqs \in Seq(Seq(E))
    PROVE  \E fl : FlatRun(E, seqs, fl) /\ FlattenSeq(seqs) = fl[Len(seqs)]
<1> DEFINE n == Len(seqs)
           f == FlatTurns(seqs, n)
           fl == [i \in 0 .. n |-> IF i = 0 THEN <<>> ELSE f[i]]
           Q == Seq(E)
<1>1. FlattenSeq(seqs) = IF n = 0 THEN seqs ELSE f[n]
  BY DEF FlattenSeq, FlatTurns, FlatTurn
<1>2. n \in Nat /\ (n = 0 => seqs = <<>>) /\ \A i \in 1 .. n : seqs[i] \in Q
  <2> HIDE DEF Q
  <2>1. seqs \in Seq(Q)
    BY DEF Q
  <2> QED
    BY ONLY <2>1, SequenceFacts DEF n
<1>q. <<>> \in Q /\ \A s, t \in Q : s \o t \in Q /\ <<>> \o t = t
  OBVIOUS
<1> HIDE DEF n, Q
<1>3. f = [i \in 1 .. n |-> FlatTurn(seqs, f, i)]
  BY <1>2, FlatTurnsExist
<1> HIDE DEF f
<1>4. fl[0] = <<>> /\ \A i \in 1 .. n : fl[i] = f[i] /\ f[i] = FlatTurn(seqs, f, i)
  <2>1. n \in Nat
    BY <1>2
  <2>2. 0 \in 0 .. n /\ \A i \in 1 .. n : i \in 0 .. n /\ i # 0
    BY ONLY <2>1
  <2>3. \A i \in 1 .. n : fl[i] = f[i]
    BY ONLY <2>2
  <2>4. fl[0] = <<>>
    BY ONLY <2>2
  <2>5. \A i \in 1 .. n : f[i] = FlatTurn(seqs, f, i)
    BY ONLY <1>3, Zenon
  <2> HIDE DEF fl
  <2> QED
    BY ONLY <2>3, <2>4, <2>5
<1>5. \A i \in 1 .. n : i # 1 => i - 1 \in 1 .. n
  BY <1>2
<1>7. FlattenSeq(seqs) = fl[n]
  <2>1. n = 0 \/ n \in 1 .. n
    BY <1>2
  <2> QED
    BY <1>1, <1>2, <1>4, <2>1
<1> HIDE DEF fl
<1>6. \A i \in 1 .. n : fl[i] = fl[i - 1] \o seqs[i]
  <2> TAKE i \in 1 .. n
  <2>1. CASE i = 1
    <3>1. fl[i] = seqs[i] /\ i - 1 = 0 /\ seqs[i] \in Q
      BY <1>2, <1>4, <2>1 DEF FlatTurn
    <3> QED
      BY <1>q, <1>4, <3>1
  <2>2. CASE i # 1
    BY <1>4, <1>5, <2>2 DEF FlatTurn
  <2> QED
    BY <2>1, <2>2
<1> DEFINE S == {i \in Nat : i \in 0 .. n => fl[i] \in Q}
<1>8. 0 \in S
  BY <1>q, <1>4
<1>9. ASSUME NEW i \in Nat, i \in S PROVE i + 1 \in S
  <2> SUFFICES ASSUME i + 1 \in 0 .. n PROVE fl[i + 1] \in Q
    OBVIOUS
  <2>1. i \in 0 .. n /\ i + 1 \in 1 .. n /\ (i + 1) - 1 = i
    BY <1>2
  <2>2. fl[i + 1] = fl[i] \o seqs[i + 1] /\ fl[i] \in Q /\ seqs[i + 1] \in Q
    BY <1>2, <1>6, <1>9, <2>1
  <2> QED
    BY <1>q, <2>2
<1> HIDE DEF S
<1>10. Nat \subseteq S
  BY <1>8, <1>9, AllNumbers
<1>11. \A i \in 0 .. n : fl[i] \in Q
  BY <1>2, <1>10 DEF S
<1> QED
  BY <1>4, <1>6, <1>7, <1>11 DEF FlatRun, n, Q

\* Sequences that begin alike have the same elements in their first sequences.
LEMMA FlatSame ==
    ASSUME NEW E, NEW s, NEW t, NEW fs, NEW ft, FlatRun(E, s, fs), FlatRun(E, t, ft),
           NEW k \in Nat, Len(s) \in Nat, Len(t) \in Nat, k =< Len(s), k =< Len(t),
           \A i \in 1 .. k : s[i] = t[i]
    PROVE  fs[k] = ft[k]
<1> DEFINE S == {i \in Nat : i =< k => fs[i] = ft[i]}
<1>1. 0 \in S
  BY DEF FlatRun
<1>2. ASSUME NEW i \in Nat, i \in S PROVE i + 1 \in S
  <2> SUFFICES ASSUME i + 1 =< k PROVE fs[i + 1] = ft[i + 1]
    OBVIOUS
  <2>1. i + 1 \in 1 .. Len(s) /\ i + 1 \in 1 .. Len(t) /\ i + 1 \in 1 .. k /\ i =< k /\ (i + 1) - 1 = i
    OBVIOUS
  <2>2. fs[i + 1] = fs[i] \o s[i + 1] /\ ft[i + 1] = ft[i] \o t[i + 1]
    BY <2>1 DEF FlatRun
  <2>3. fs[i] = ft[i] /\ s[i + 1] = t[i + 1]
    BY <1>2, <2>1
  <2> QED
    BY ONLY <2>2, <2>3
<1> HIDE DEF S
<1>3. k \in S
  BY <1>1, <1>2, AllNumbers
<1> QED
  BY <1>3 DEF S

\* What Append changes, and what it leaves.
LEMMA AppendFacts ==
    ASSUME NEW S, NEW s \in Seq(S), NEW e \in S
    PROVE  /\ Append(s, e) \in Seq(S) /\ Len(Append(s, e)) = Len(s) + 1
           /\ Append(s, e)[Len(s) + 1] = e
           /\ \A i \in 1 .. Len(s) : Append(s, e)[i] = s[i]
  OBVIOUS

\* The words of the tiers with a new tier.
LEMMA FlattenAppend ==
    ASSUME NEW E, NEW ts, ts \in Seq(Seq(E)), NEW t \in Seq(E)
    PROVE  /\ FlattenSeq(ts) \in Seq(E)
           /\ FlattenSeq(Append(ts, t)) = FlattenSeq(ts) \o t
<1> DEFINE Q == Seq(E)
           n == Len(ts)
           us == Append(ts, t)
<1>1. us \in Seq(Q) /\ Len(us) = n + 1 /\ us[n + 1] = t /\ \A i \in 1 .. n : us[i] = ts[i]
  BY AppendFacts
<1>2. n \in Nat
  BY SequenceFacts
<1> HIDE DEF us
<1>3. PICK fl : FlatRun(E, ts, fl) /\ FlattenSeq(ts) = fl[n]
  BY FlatRunExists
<1>4. PICK fu : FlatRun(E, us, fu) /\ FlattenSeq(us) = fu[Len(us)]
  BY <1>1, FlatRunExists
<1> HIDE DEF n, Q
<1>5. fl[n] = fu[n]
  <2>1. Len(ts) = n /\ Len(ts) \in Nat /\ Len(us) \in Nat /\ n =< Len(ts) /\ n =< Len(us)
    BY <1>1, <1>2 DEF n
  <2> QED
    BY ONLY <1>1, <1>2, <1>3, <1>4, <2>1, FlatSame
<1>6. fl[n] \in Seq(E)
  <2>1. n \in 0 .. Len(ts)
    BY <1>2 DEF n
  <2> QED
    BY <1>3, <2>1 DEF FlatRun
<1>7. fu[n + 1] = fu[n] \o t
  <2>0. Len(us) = n + 1
    BY <1>1
  <2>1. n + 1 \in 1 .. Len(us) /\ (n + 1) - 1 = n
    BY ONLY <1>2, <2>0
  <2>2. fu[n + 1] = fu[(n + 1) - 1] \o us[n + 1]
    BY <1>4, <2>1 DEF FlatRun
  <2> QED
    BY ONLY <1>1, <2>1, <2>2
<1> QED
  BY <1>1, <1>3, <1>4, <1>5, <1>6, <1>7 DEF us

\* Append at the end of a concatenation.
LEMMA ConcatAppend ==
    ASSUME NEW S, NEW s \in Seq(S), NEW t \in Seq(S), NEW e \in S
    PROVE  s \o Append(t, e) = Append(s \o t, e) /\ s \o t \in Seq(S) /\ s \o <<>> = s
  OBVIOUS

\* A sequence with another last element.
LEMMA ChangedLast ==
    ASSUME NEW S, NEW s \in Seq(S), Len(s) # 0, NEW e \in S
    PROVE  LET t == [s EXCEPT ![Len(s)] = e]
           IN  /\ t \in Seq(S) /\ Len(t) = Len(s) /\ t[Len(s)] = e
               /\ \A i \in 1 .. Len(s) : i # Len(s) => t[i] = s[i]
  OBVIOUS

\* The words of the tiers with a word more in the last tier.
LEMMA FlattenAddToLast ==
    ASSUME NEW E, NEW ts, ts \in Seq(Seq(E)), Len(ts) # 0, NEW w \in E
    PROVE  /\ AddToLast(ts, w) \in Seq(Seq(E)) /\ Len(AddToLast(ts, w)) = Len(ts)
           /\ Len(AddToLast(ts, w)[Len(ts)]) = Len(ts[Len(ts)]) + 1
           /\ \A i \in 1 .. Len(ts) : i # Len(ts) => AddToLast(ts, w)[i] = ts[i]
           /\ FlattenSeq(AddToLast(ts, w)) = Append(FlattenSeq(ts), w)
<1> DEFINE Q == Seq(E)
           n == Len(ts)
           last == ts[n]
           us == AddToLast(ts, w)
<1>1. n \in Nat /\ n # 0 /\ DOMAIN ts = 1 .. n /\ \A i \in 1 .. n : ts[i] \in Q
  BY SequenceFacts
<1>2. n \in 1 .. n /\ last \in Q
  BY <1>1
<1>3. Append(last, w) \in Q /\ Len(Append(last, w)) = Len(last) + 1
  BY <1>2, AppendFacts
<1>4. us \in Seq(Q) /\ Len(us) = n /\ us[n] = Append(last, w) /\ \A i \in 1 .. n : i # n => us[i] = ts[i]
  <2> DEFINE e == Append(last, w)
  <2>1. us = [ts EXCEPT ![n] = e]
    BY DEF AddToLast
  <2>2. ts \in Seq(Q) /\ Len(ts) # 0 /\ e \in Q
    BY <1>3
  <2> HIDE DEF e, Q, us
  <2>3. us = [ts EXCEPT ![Len(ts)] = e]
    BY <2>1
  <2>4. /\ us \in Seq(Q) /\ Len(us) = Len(ts) /\ us[Len(ts)] = e
        /\ \A i \in 1 .. Len(ts) : i # Len(ts) => us[i] = ts[i]
    BY ONLY <2>2, <2>3, ChangedLast
  <2> QED
    BY <2>4 DEF e
<1> HIDE DEF us
<1>5. Len(us[n]) = Len(last) + 1
  BY <1>3, <1>4
<1>6. PICK fl : FlatRun(E, ts, fl) /\ FlattenSeq(ts) = fl[n]
  BY FlatRunExists
<1>7. PICK fu : FlatRun(E, us, fu) /\ FlattenSeq(us) = fu[Len(us)]
  BY <1>4, FlatRunExists
<1>8. fl[n] = fl[n - 1] \o last /\ fu[n] = fu[n - 1] \o Append(last, w)
  <2>1. \A i \in 1 .. n : fl[i] = fl[i - 1] \o ts[i]
    BY <1>6 DEF FlatRun
  <2>2. \A i \in 1 .. n : fu[i] = fu[i - 1] \o us[i]
    BY <1>4, <1>7 DEF FlatRun
  <2> QED
    BY <1>2, <1>4, <2>1, <2>2
<1>9. fl[n - 1] \in Seq(E)
  <2>1. n - 1 \in 0 .. n
    BY <1>1
  <2> QED
    BY <1>6, <2>1 DEF FlatRun
<1>10. fl[n - 1] = fu[n - 1]
  <2> DEFINE k == n - 1
  <2>1. n \in Nat /\ n # 0 /\ Len(us) = n
    BY <1>1, <1>4
  <2>2. \A i \in 1 .. n : i # n => us[i] = ts[i]
    BY <1>4
  <2>3. Len(ts) = n
    OBVIOUS
  <2>4. k \in Nat /\ k =< n /\ \A i \in 1 .. k : i \in 1 .. n /\ i # n
    BY ONLY <2>1
  <2>5. Len(ts) \in Nat /\ Len(us) \in Nat /\ k =< Len(ts) /\ k =< Len(us)
    BY ONLY <2>1, <2>3, <2>4
  <2>6. \A i \in 1 .. k : ts[i] = us[i]
    BY ONLY <2>2, <2>4
  <2> HIDE DEF k, n
  <2>7. fl[k] = fu[k]
    BY ONLY <1>6, <1>7, <2>4, <2>5, <2>6, FlatSame
  <2> QED
    BY ONLY <2>7 DEF k, n
<1>11. fl[n - 1] \o Append(last, w) = Append(fl[n - 1] \o last, w)
  <2> DEFINE a == fl[n - 1]
             b == last
  <2>1. a \in Seq(E) /\ b \in Seq(E)
    BY <1>2, <1>9
  <2> HIDE DEF a, b
  <2>2. a \o Append(b, w) = Append(a \o b, w)
    BY ONLY <2>1, w \in E, ConcatAppend
  <2> QED
    BY <2>2 DEF a, b
<1>12. FlattenSeq(us) = Append(FlattenSeq(ts), w)
  BY ONLY <1>4, <1>6, <1>7, <1>8, <1>10, <1>11
<1> QED
  BY ONLY <1>4, <1>5, <1>12 DEF us, Q

-----------------------------------------------------------------------------
(* Announces: the brackets and the tiers of the words. *)

\* Counting to the next turn.
LEMMA CountNext ==
    ASSUME NEW S, NEW i \in Nat
    PROVE  /\ Cardinality({j \in 1 .. i : j \in S}) \in Nat
           /\ Cardinality({j \in 1 .. (i + 1) : j \in S}) =
                 Cardinality({j \in 1 .. i : j \in S}) + (IF i + 1 \in S THEN 1 ELSE 0)
<1> DEFINE T == {j \in 1 .. i : j \in S}
           U == {j \in 1 .. (i + 1) : j \in S}
<1>1. IsFiniteSet(1 .. i)
  BY FS_Interval
<1>2. T \subseteq 1 .. i
  OBVIOUS
<1>3. IsFiniteSet(T)
  BY <1>1, <1>2, FS_Subset
<1>4. Cardinality(T) \in Nat
  BY <1>3, FS_CardinalityType
<1>5. 1 .. (i + 1) = (1 .. i) \union {i + 1} /\ i + 1 \notin 1 .. i
  OBVIOUS
<1>6. CASE i + 1 \in S
  <2>1. U = T \union {i + 1} /\ i + 1 \notin T
    BY <1>5, <1>6
  <2> HIDE DEF T, U
  <2>2. Cardinality(U) = Cardinality(T) + 1
    BY <1>3, <2>1, FS_AddElement
  <2> QED
    BY <1>4, <1>6, <2>2 DEF T, U
<1>7. CASE i + 1 \notin S
  <2>1. U = T
    BY <1>5, <1>7
  <2> HIDE DEF T, U
  <2> QED
    BY <1>4, <1>7, <2>1 DEF T, U
<1> QED
  BY <1>6, <1>7

\* Nothing is counted before the first word.
LEMMA CountNone ==
    ASSUME NEW S
    PROVE  Cardinality({j \in 1 .. 0 : j \in S}) = 0
<1>1. {j \in 1 .. 0 : j \in S} = {}
  OBVIOUS
<1> QED
  BY <1>1, FS_EmptySet

\* A word opens a tier, closes one or neither.
LEMMA DepthNext ==
    ASSUME NEW words, NEW i \in Nat
    PROVE  /\ Depth(words, i) \in Int /\ Depth(words, 0) = 0
           /\ Depth(words, i + 1) =
                 IF words[i + 1].open THEN Depth(words, i) + 1
                 ELSE IF words[i + 1].close THEN Depth(words, i) - 1
                 ELSE Depth(words, i)
<1> DEFINE O == {j \in Nat : words[j].open}
           C == {j \in Nat : words[j].close /\ ~words[j].open}
           o(k) == Cardinality({j \in 1 .. k : j \in O})
           c(k) == Cardinality({j \in 1 .. k : j \in C})
<1>1. \A k \in Nat : Depth(words, k) = o(k) - c(k)
  <2> TAKE k \in Nat
  <2>1. {j \in 1 .. k : words[j].open} = {j \in 1 .. k : j \in O}
    OBVIOUS
  <2>2. {j \in 1 .. k : words[j].close /\ ~words[j].open} = {j \in 1 .. k : j \in C}
    OBVIOUS
  <2> HIDE DEF O, C
  <2> QED
    BY <2>1, <2>2 DEF Depth
<1>2. i + 1 \in Nat
  OBVIOUS
<1>4. (words[i + 1].open <=> i + 1 \in O) /\ (~words[i + 1].open /\ words[i + 1].close <=> i + 1 \in C)
  BY <1>2
<1> HIDE DEF O, C
<1>5. o(i) \in Nat /\ o(i + 1) = o(i) + (IF i + 1 \in O THEN 1 ELSE 0)
  BY CountNext
<1>6. c(i) \in Nat /\ c(i + 1) = c(i) + (IF i + 1 \in C THEN 1 ELSE 0)
  BY CountNext
<1>7. o(0) = 0 /\ c(0) = 0
  BY CountNone
<1>8. /\ Depth(words, i) = o(i) - c(i) /\ Depth(words, i + 1) = o(i + 1) - c(i + 1)
      /\ Depth(words, 0) = o(0) - c(0)
  BY <1>1, <1>2
<1> HIDE DEF o, c
<1> QED
  BY ONLY <1>4, <1>5, <1>6, <1>7, <1>8

\* A word is in the tier of the word before it, or in the next one.
LEMMA TierNext ==
    ASSUME NEW words, NEW i \in Nat \ {0}
    PROVE  /\ TierNo(words, i) \in Nat /\ TierNo(words, 1) = 1
           /\ TierNo(words, i + 1) = IF Depth(words, i) = 0 THEN TierNo(words, i) + 1
                                                            ELSE TierNo(words, i)
<1> DEFINE Z == {j \in Nat : Depth(words, j) = 0}
           z(k) == Cardinality({j \in 1 .. k : j \in Z})
<1>1. \A k \in Nat : {j \in 1 .. k : Depth(words, j) = 0} = {j \in 1 .. k : j \in Z}
  OBVIOUS
<1>2. i \in Z <=> Depth(words, i) = 0
  OBVIOUS
<1> HIDE DEF Z
<1>3. i - 1 \in Nat /\ (i - 1) + 1 = i /\ (i + 1) - 1 = i /\ i \in Nat /\ 1 - 1 = 0
  OBVIOUS
<1>4. z(i - 1) \in Nat /\ z(i) = z(i - 1) + (IF i \in Z THEN 1 ELSE 0)
  BY <1>3, CountNext
<1>5. z(0) = 0
  BY CountNone
<1>6. TierNo(words, i) = 1 + z(i - 1) /\ TierNo(words, i + 1) = 1 + z(i) /\ TierNo(words, 1) = 1 + z(0)
  BY <1>1, <1>3 DEF TierNo
<1> HIDE DEF z
<1> QED
  BY ONLY <1>2, <1>4, <1>5, <1>6

\* How many of the first i words are in tier k.
TierSize(words, i, k) == Cardinality({j \in 1 .. i : TierNo(words, j) = k})

\* The number of words of tier k, with one word more.
LEMMA TierSizeNext ==
    ASSUME NEW words, NEW i \in Nat, NEW k
    PROVE  /\ TierSize(words, i, k) \in Nat
           /\ (\A j \in 1 .. i : TierNo(words, j) # k) => TierSize(words, i, k) = 0
           /\ TierSize(words, i + 1, k) = TierSize(words, i, k)
                                            + (IF TierNo(words, i + 1) = k THEN 1 ELSE 0)
<1> DEFINE S == {j \in Nat : TierNo(words, j) = k}
<1>1. \A n \in Nat : {j \in 1 .. n : TierNo(words, j) = k} = {j \in 1 .. n : j \in S}
  OBVIOUS
<1>2. i + 1 \in S <=> TierNo(words, i + 1) = k
  OBVIOUS
<1> HIDE DEF S
<1>3. i + 1 \in Nat
  OBVIOUS
<1>4. ASSUME \A j \in 1 .. i : TierNo(words, j) # k PROVE TierSize(words, i, k) = 0
  <2>1. {j \in 1 .. i : TierNo(words, j) = k} = {}
    BY <1>4
  <2> QED
    BY <2>1, FS_EmptySet DEF TierSize
<1>5. TierSize(words, i, k) = Cardinality({j \in 1 .. i : j \in S})
  BY <1>1 DEF TierSize
<1>6. TierSize(words, i + 1, k) = Cardinality({j \in 1 .. (i + 1) : j \in S})
  BY <1>1, <1>3 DEF TierSize
<1> QED
  BY ONLY <1>2, <1>4, <1>5, <1>6, CountNext, i \in Nat

\* One turn: the word begins a tier or goes to the last one.
LEMMA TurnTaken ==
    ASSUME NEW s, s.tiers \in Seq(Seq(AnnounceWord)), s.inTier \in BOOLEAN, s.bad \in BOOLEAN,
           s = [tiers |-> s.tiers, inTier |-> s.inTier, bad |-> s.bad],
           NEW w \in AnnounceWord
    PROVE  LET t == TakeAnnounce(s, w)
           IN  /\ t = [tiers |-> t.tiers, inTier |-> t.inTier, bad |-> t.bad]
               /\ t.inTier \in BOOLEAN /\ t.bad \in BOOLEAN
               /\ t.inTier <=> w.open \/ (s.inTier /\ ~w.close)
               /\ t.bad <=> s.bad \/ (w.open /\ s.inTier) \/ (~w.open /\ w.close /\ ~s.inTier)
               /\ \E x \in AnnounceWord :
                     /\ x.url = w.url
                     /\ t.tiers = IF w.open \/ ~s.inTier THEN Append(s.tiers, <<x>>)
                                                         ELSE AddToLast(s.tiers, x)
<1> DEFINE t == TakeAnnounce(s, w)
           x == [w EXCEPT !.open = FALSE]
           b == Bare(w)
           ts == s.tiers
<1>1. w.open \in BOOLEAN /\ w.close \in BOOLEAN /\ x \in AnnounceWord /\ x.url = w.url
      /\ b \in AnnounceWord /\ b.url = w.url
  BY DEF AnnounceWord, Bare
<1>2. CASE w.open
  <2>1. t = [tiers |-> Append(ts, <<x>>), inTier |-> TRUE, bad |-> s.bad \/ s.inTier]
    BY <1>2 DEF TakeAnnounce
  <2> HIDE DEF t, x, b
  <2> QED
    BY <1>1, <1>2, <2>1 DEF t
<1>3. CASE ~w.open /\ s.inTier
  <2>1. t = [s EXCEPT !.tiers = AddToLast(@, b), !.inTier = ~w.close]
    BY <1>3 DEF TakeAnnounce
  <2> DEFINE ls == AddToLast(ts, b)
  <2>2. t = [tiers |-> ls, inTier |-> ~w.close, bad |-> s.bad]
    <3> HIDE DEF t, b, ls
    <3>1. t = [s EXCEPT !.tiers = ls, !.inTier = ~w.close]
      BY <2>1 DEF ls
    <3> QED
      BY <3>1
  <2> HIDE DEF t, x, b, ls
  <2>3. t.tiers = ls /\ t.inTier = ~w.close /\ t.bad = s.bad
        /\ t = [tiers |-> t.tiers, inTier |-> t.inTier, bad |-> t.bad]
    BY <2>2
  <2>4. (t.inTier <=> w.open \/ (s.inTier /\ ~w.close)) /\ t.inTier \in BOOLEAN
    BY <1>1, <1>3, <2>3
  <2>5. (t.bad <=> s.bad \/ (w.open /\ s.inTier) \/ (~w.open /\ w.close /\ ~s.inTier)) /\ t.bad \in BOOLEAN
    BY <1>1, <1>3, <2>3
  <2>6. t.tiers = IF w.open \/ ~s.inTier THEN Append(s.tiers, <<b>>) ELSE AddToLast(s.tiers, b)
    BY <1>3, <2>3 DEF ls
  <2> QED
    BY <1>1, <2>3, <2>4, <2>5, <2>6 DEF t
<1>4. CASE ~w.open /\ ~s.inTier
  <2>1. t = [s EXCEPT !.tiers = Append(@, <<b>>), !.bad = @ \/ w.close]
    BY <1>4 DEF TakeAnnounce
  <2> DEFINE ls == Append(ts, <<b>>)
  <2>2. t = [tiers |-> ls, inTier |-> s.inTier, bad |-> s.bad \/ w.close]
    <3> HIDE DEF t, b, ls
    <3>1. t = [s EXCEPT !.tiers = ls, !.bad = s.bad \/ w.close]
      BY <2>1 DEF ls
    <3> QED
      BY <3>1
  <2> HIDE DEF t, x, b, ls
  <2> QED
    BY <1>1, <1>4, <2>2 DEF t, ls
<1> QED
  BY <1>1, <1>2, <1>3, <1>4

\* The tiers have the first i words in their order.
Holds(words, i, ts) ==
    /\ ts \in Seq(Seq(AnnounceWord))
    /\ FlattenSeq(ts) \in Seq(AnnounceWord) /\ Len(FlattenSeq(ts)) = i
    /\ \A j \in 1 .. i : FlattenSeq(ts)[j].url = words[j].url

\* Word i + 1 begins a tier or goes to the last one.
LEMMA HoldsNext ==
    ASSUME NEW words, NEW i \in Nat, NEW ts, Holds(words, i, ts),
           NEW x \in AnnounceWord, x.url = words[i + 1].url
    PROVE  /\ Holds(words, i + 1, Append(ts, <<x>>))
           /\ Len(ts) # 0 => Holds(words, i + 1, AddToLast(ts, x))
<1> DEFINE fl == FlattenSeq(ts)
           E == AnnounceWord
<1>1. ts \in Seq(Seq(E)) /\ fl \in Seq(E) /\ Len(fl) = i /\ \A j \in 1 .. i : fl[j].url = words[j].url
  BY DEF Holds
<1>2. <<x>> \in Seq(E)
  OBVIOUS
<1>3. Append(ts, <<x>>) \in Seq(Seq(E)) /\ FlattenSeq(Append(ts, <<x>>)) = fl \o <<x>>
  BY ONLY <1>1, <1>2, FlattenAppend, AppendFacts
<1>4. Len(ts) # 0 => AddToLast(ts, x) \in Seq(Seq(E)) /\ FlattenSeq(AddToLast(ts, x)) = Append(fl, x)
  BY ONLY <1>1, x \in E, FlattenAddToLast
<1> HIDE DEF fl, E
<1>5. fl \o <<x>> = Append(fl, x)
  BY <1>1
<1>6. /\ Append(fl, x) \in Seq(E) /\ Len(Append(fl, x)) = i + 1
      /\ Append(fl, x)[i + 1] = x /\ \A j \in 1 .. i : Append(fl, x)[j] = fl[j]
  BY <1>1, AppendFacts DEF E
<1>7. \A j \in 1 .. (i + 1) : Append(fl, x)[j].url = words[j].url
  <2>1. 1 .. (i + 1) = (1 .. i) \union {i + 1}
    OBVIOUS
  <2> QED
    BY <1>1, <1>6, <2>1
<1> QED
  BY ONLY <1>3, <1>4, <1>5, <1>6, <1>7 DEF Holds, E

\* Some bracket of the first i words does not match.
Unmatched(words, i) == \E j \in 1 .. i : Depth(words, j) \notin {0, 1}

\* The tiers have the first i words, those between brackets together.
Tiered(words, i, ts) ==
    /\ Len(ts) = IF i = 0 THEN 0 ELSE TierNo(words, i)
    /\ \A j \in 1 .. i : TierNo(words, j) \in 1 .. Len(ts)
    /\ \A k \in 1 .. Len(ts) : Len(ts[k]) = TierSize(words, i, k)

TiersOf(words, i, inTier, ts) ==
    /\ Depth(words, i) = IF inTier THEN 1 ELSE 0
    /\ Tiered(words, i, ts)

AnnounceInv(words, i, s) ==
    /\ s = [tiers |-> s.tiers, inTier |-> s.inTier, bad |-> s.bad]
    /\ s.inTier \in BOOLEAN /\ s.bad \in BOOLEAN
    /\ Holds(words, i, s.tiers)
    /\ s.inTier => Len(s.tiers) # 0
    /\ s.bad <=> Unmatched(words, i)
    /\ ~s.bad => TiersOf(words, i, s.inTier, s.tiers)

\* AnnounceInv holds before the first word.
LEMMA InitAnnounce == ASSUME NEW words PROVE AnnounceInv(words, 0, NoTiers)
<1>1. 1 .. 0 = {}
  OBVIOUS
<1>2. ~Unmatched(words, 0)
  BY <1>1 DEF Unmatched
<1>3. Depth(words, 0) = 0
  BY DepthNext
<1>4. Holds(words, 0, <<>>)
  <2>1. FlattenSeq(<<>>) = <<>>
    BY DEF FlattenSeq
  <2> DEFINE E == AnnounceWord
  <2>2. <<>> \in Seq(E) /\ Len(<<>>) = 0
    OBVIOUS
  <2>3. <<>> \in Seq(Seq(E))
    OBVIOUS
  <2> HIDE DEF E
  <2> QED
    BY ONLY <1>1, <2>1, <2>2, <2>3 DEF Holds, E
<1>5. TiersOf(words, 0, FALSE, <<>>)
  BY <1>1, <1>3 DEF TiersOf, Tiered
<1> QED
  BY <1>2, <1>4, <1>5 DEF AnnounceInv, NoTiers

\* The numbers of the tiers after word i + 1, which begins a tier or not.
LEMMA TiersOfNext ==
    ASSUME NEW words, NEW i \in Nat, NEW inTier \in BOOLEAN,
           NEW ts, ts \in Seq(Seq(AnnounceWord)), TiersOf(words, i, inTier, ts),
           inTier => Len(ts) # 0, NEW x \in AnnounceWord
    PROVE  /\ inTier => Tiered(words, i + 1, AddToLast(ts, x))
           /\ ~inTier => Tiered(words, i + 1, Append(ts, <<x>>))
<1> SUFFICES ASSUME NEW us, inTier => us = AddToLast(ts, x), ~inTier => us = Append(ts, <<x>>)
             PROVE  Tiered(words, i + 1, us)
  OBVIOUS
<1> DEFINE n == Len(ts)
           m == Len(us)
           no == TierNo(words, i + 1)
<1>1. n \in Nat
  BY SequenceFacts
<1>2. /\ Depth(words, i) = IF inTier THEN 1 ELSE 0
      /\ n = IF i = 0 THEN 0 ELSE TierNo(words, i)
      /\ \A j \in 1 .. i : TierNo(words, j) \in 1 .. n
      /\ \A k \in 1 .. n : Len(ts[k]) = TierSize(words, i, k)
  BY DEF TiersOf, Tiered
<1>3. inTier => n # 0
  OBVIOUS
<1>4. ASSUME inTier
      PROVE  m = n /\ Len(us[n]) = Len(ts[n]) + 1 /\ \A k \in 1 .. n : k # n => us[k] = ts[k]
  <2>1. us = AddToLast(ts, x)
    BY <1>4, Zenon
  <2>2. ts \in Seq(Seq(AnnounceWord)) /\ Len(ts) # 0
    BY <1>3, <1>4
  <2> QED
    BY ONLY <2>1, <2>2, x \in AnnounceWord, FlattenAddToLast
<1>5. ASSUME ~inTier
      PROVE  m = n + 1 /\ Len(us[n + 1]) = 1 /\ \A k \in 1 .. n : us[k] = ts[k]
  <2>1. us = Append(ts, <<x>>) /\ <<x>> \in Seq(AnnounceWord) /\ Len(<<x>>) = 1
    <3>1. us = Append(ts, <<x>>)
      BY <1>5, Zenon
    <3>2. <<x>> \in Seq(AnnounceWord) /\ Len(<<x>>) = 1
      OBVIOUS
    <3> QED
      BY ONLY <3>1, <3>2
  <2> DEFINE Q == Seq(AnnounceWord)
  <2>2. ts \in Seq(Q) /\ <<x>> \in Q
    BY <2>1
  <2> HIDE DEF Q
  <2> QED
    BY ONLY <2>1, <2>2, AppendFacts
<1> HIDE DEF n, m
<1>6. no = m
  <2>1. CASE i = 0
    <3>1. no = 1
      BY <2>1, TierNext
    <3> QED
      BY <1>2, <1>3, <1>5, <2>1, <3>1
  <2>2. CASE i # 0
    <3>1. i \in Nat \ {0}
      BY <2>2
    <3>2. no = IF Depth(words, i) = 0 THEN TierNo(words, i) + 1 ELSE TierNo(words, i)
      BY <3>1, TierNext
    <3> HIDE DEF no
    <3> QED
      <4>1. CASE inTier
        BY ONLY <1>1, <1>2, <1>4, <2>2, <3>2, <4>1
      <4>2. CASE ~inTier
        BY ONLY <1>1, <1>2, <1>5, <2>2, <3>2, <4>2
      <4> QED
        BY ONLY <4>1, <4>2
  <2> QED
    BY <2>1, <2>2
<1>7. m \in Nat /\ n =< m /\ m \in 1 .. m
  <2>1. CASE inTier
    BY ONLY <1>1, <1>3, <1>4, <2>1
  <2>2. CASE ~inTier
    BY ONLY <1>1, <1>5, <2>2
  <2> QED
    BY ONLY <2>1, <2>2
<1>8. 1 .. (i + 1) = (1 .. i) \union {i + 1}
  OBVIOUS
<1>9. \A j \in 1 .. (i + 1) : TierNo(words, j) \in 1 .. m
  <2>1. \A j \in 1 .. i : TierNo(words, j) \in 1 .. m
    BY <1>1, <1>2, <1>7
  <2> QED
    BY <1>6, <1>7, <1>8, <2>1
<1>10. ASSUME NEW k \in 1 .. m PROVE Len(us[k]) = TierSize(words, i + 1, k)
  <2>1. /\ TierSize(words, i, k) \in Nat
        /\ (\A j \in 1 .. i : TierNo(words, j) # k) => TierSize(words, i, k) = 0
        /\ TierSize(words, i + 1, k) = TierSize(words, i, k) + (IF no = k THEN 1 ELSE 0)
    BY ONLY i \in Nat, TierSizeNext
  <2>2. CASE inTier
    <3>1. m = n /\ k \in 1 .. n /\ Len(ts[k]) = TierSize(words, i, k)
      BY <1>2, <1>4, <2>2
    <3>2. CASE k = n
      <4>1. Len(us[k]) = Len(ts[k]) + 1
        BY <1>4, <2>2, <3>2
      <4> HIDE DEF no
      <4> QED
        BY ONLY <1>6, <2>1, <3>1, <3>2, <4>1
    <3>3. CASE k # n
      <4>1. us[k] = ts[k]
        BY <1>4, <2>2, <3>1, <3>3
      <4> HIDE DEF no
      <4> QED
        BY ONLY <1>6, <2>1, <3>1, <3>3, <4>1
    <3> QED
      BY <3>2, <3>3
  <2>3. CASE ~inTier /\ k = m
    <3>1. \A j \in 1 .. i : TierNo(words, j) # k
      BY <1>1, <1>2, <1>5, <2>3
    <3>2. Len(us[k]) = 1
      BY <1>5, <2>3
    <3> HIDE DEF no
    <3> QED
      BY ONLY <1>6, <2>1, <2>3, <3>1, <3>2
  <2>4. CASE ~inTier /\ k # m
    <3>1. k \in 1 .. n
      BY <1>1, <1>5, <2>4
    <3>2. us[k] = ts[k] /\ Len(ts[k]) = TierSize(words, i, k)
      BY <1>2, <1>5, <2>4, <3>1
    <3> HIDE DEF no
    <3> QED
      BY ONLY <1>6, <2>1, <2>4, <3>2
  <2> QED
    BY <2>2, <2>3, <2>4
<1> QED
  <2>1. i + 1 # 0
    OBVIOUS
  <2> QED
    BY ONLY <1>6, <1>9, <1>10, <2>1 DEF Tiered, m, no

\* The brackets after word i + 1.
LEMMA BracketsNext ==
    ASSUME NEW words, NEW i \in Nat, NEW in \in BOOLEAN, NEW bad \in BOOLEAN,
           NEW open \in BOOLEAN, NEW close \in BOOLEAN,
           open = words[i + 1].open, close = words[i + 1].close,
           bad <=> Unmatched(words, i),
           ~bad => Depth(words, i) = IF in THEN 1 ELSE 0
    PROVE  /\ bad \/ (open /\ in) \/ (~open /\ close /\ ~in) <=> Unmatched(words, i + 1)
           /\ ~Unmatched(words, i + 1) =>
                 Depth(words, i + 1) = IF open \/ (in /\ ~close) THEN 1 ELSE 0
<1> DEFINE d == Depth(words, i)
           e == Depth(words, i + 1)
<1>1. d \in Int /\ e = IF open THEN d + 1 ELSE IF close THEN d - 1 ELSE d
  BY DepthNext
<1>2. 1 .. (i + 1) = (1 .. i) \union {i + 1}
  OBVIOUS
<1>3. Unmatched(words, i + 1) <=> Unmatched(words, i) \/ e \notin {0, 1}
  BY <1>2 DEF Unmatched
<1> HIDE DEF d, e
<1>4. CASE bad
  BY <1>3, <1>4
<1>5. CASE ~bad
  <2>1. d = IF in THEN 1 ELSE 0
    BY <1>5 DEF d
  <2>2. Unmatched(words, i + 1) <=> e \notin {0, 1}
    BY <1>3, <1>5
  <2>3. CASE in
    BY ONLY <1>1, <1>5, <2>1, <2>2, <2>3 DEF e
  <2>4. CASE ~in
    BY ONLY <1>1, <1>5, <2>1, <2>2, <2>4 DEF e
  <2> QED
    BY <2>3, <2>4
<1> QED
  BY <1>4, <1>5

\* AnnounceInv, by one turn of the loop of announce_transformer.
LEMMA AnnounceNext ==
    ASSUME NEW words, NEW i \in Nat, words[i + 1] \in AnnounceWord,
           NEW s, AnnounceInv(words, i, s)
    PROVE  AnnounceInv(words, i + 1, TakeAnnounce(s, words[i + 1]))
<1> DEFINE w == words[i + 1]
           t == TakeAnnounce(s, w)
<1>1. /\ s = [tiers |-> s.tiers, inTier |-> s.inTier, bad |-> s.bad]
      /\ s.inTier \in BOOLEAN /\ s.bad \in BOOLEAN
      /\ Holds(words, i, s.tiers)
      /\ s.inTier => Len(s.tiers) # 0
      /\ s.bad <=> Unmatched(words, i)
      /\ ~s.bad => TiersOf(words, i, s.inTier, s.tiers)
  BY DEF AnnounceInv
<1>2. w \in AnnounceWord /\ w.open \in BOOLEAN /\ w.close \in BOOLEAN
  BY DEF AnnounceWord
<1>3. s.tiers \in Seq(Seq(AnnounceWord))
  BY <1>1 DEF Holds
<1> HIDE DEF w
<1>4. /\ t = [tiers |-> t.tiers, inTier |-> t.inTier, bad |-> t.bad]
      /\ t.inTier \in BOOLEAN /\ t.bad \in BOOLEAN
      /\ t.inTier <=> w.open \/ (s.inTier /\ ~w.close)
      /\ t.bad <=> s.bad \/ (w.open /\ s.inTier) \/ (~w.open /\ w.close /\ ~s.inTier)
  BY ONLY <1>1, <1>2, <1>3, TurnTaken
<1>5. PICK x \in AnnounceWord :
         /\ x.url = w.url
         /\ t.tiers = IF w.open \/ ~s.inTier THEN Append(s.tiers, <<x>>)
                                             ELSE AddToLast(s.tiers, x)
  BY ONLY <1>1, <1>2, <1>3, TurnTaken
<1> HIDE DEF t
<1> DEFINE in == s.inTier
           bad == s.bad
           open == w.open
           close == w.close
           ts == s.tiers
           us == t.tiers
<1>6. ~bad => Depth(words, i) = IF in THEN 1 ELSE 0
  BY <1>1 DEF TiersOf
<1>7. /\ in \in BOOLEAN /\ bad \in BOOLEAN /\ open \in BOOLEAN /\ close \in BOOLEAN
      /\ open = words[i + 1].open /\ close = words[i + 1].close
      /\ bad <=> Unmatched(words, i)
  BY <1>1, <1>2 DEF w
<1>8. us = IF open \/ ~in THEN Append(ts, <<x>>) ELSE AddToLast(ts, x)
  BY <1>5
<1>9. (in => Len(ts) # 0) /\ Holds(words, i, ts) /\ ts \in Seq(Seq(AnnounceWord))
      /\ x.url = words[i + 1].url /\ (~bad => TiersOf(words, i, s.inTier, s.tiers))
  BY <1>1, <1>3, <1>5 DEF w
<1> HIDE DEF in, bad, open, close, us
<1>10. /\ bad \/ (open /\ in) \/ (~open /\ close /\ ~in) <=> Unmatched(words, i + 1)
       /\ ~Unmatched(words, i + 1) =>
             Depth(words, i + 1) = IF open \/ (in /\ ~close) THEN 1 ELSE 0
  BY ONLY <1>6, <1>7, i \in Nat, BracketsNext
<1>11. Holds(words, i + 1, Append(ts, <<x>>)) /\ (in => Holds(words, i + 1, AddToLast(ts, x)))
  BY ONLY <1>9, i \in Nat, x \in AnnounceWord, HoldsNext
<1>12. Holds(words, i + 1, us)
  BY ONLY <1>7, <1>8, <1>11
<1>13. t.inTier <=> open \/ (in /\ ~close)
  BY <1>4 DEF open, in, close
<1>14. t.bad <=> Unmatched(words, i + 1)
  BY <1>4, <1>10 DEF open, in, close, bad
<1>15. ASSUME t.inTier PROVE Len(us) # 0
  <2>1. us \in Seq(Seq(AnnounceWord))
    BY <1>12 DEF Holds
  <2>2. Len(FlattenSeq(us)) = i + 1
    BY <1>12 DEF Holds
  <2>3. ASSUME Len(us) = 0 PROVE FALSE
    <3>1. FlattenSeq(us) = us
      BY <2>3 DEF FlattenSeq
    <3> QED
      BY ONLY <2>2, <2>3, <3>1, i \in Nat
  <2> QED
    BY <2>3
<1>16. ASSUME ~t.bad PROVE TiersOf(words, i + 1, t.inTier, t.tiers)
  <2>1. ~bad /\ ~(open /\ in)
    BY <1>10, <1>14, <1>16
  <2>2. us = IF in THEN AddToLast(ts, x) ELSE Append(ts, <<x>>)
    BY ONLY <1>7, <1>8, <2>1
  <2>3. TiersOf(words, i, in, ts)
    BY <1>9, <2>1 DEF in
  <2>4. (in => us = AddToLast(ts, x)) /\ (~in => us = Append(ts, <<x>>))
    BY ONLY <2>2
  <2>5. in \in BOOLEAN /\ (in => Len(ts) # 0) /\ ts \in Seq(Seq(AnnounceWord))
    BY <1>7, <1>9
  <2> HIDE DEF ts
  <2>7. /\ in => Tiered(words, i + 1, AddToLast(ts, x))
        /\ ~in => Tiered(words, i + 1, Append(ts, <<x>>))
    BY ONLY <2>3, <2>5, i \in Nat, x \in AnnounceWord, TiersOfNext
  <2>8. Depth(words, i + 1) = IF t.inTier THEN 1 ELSE 0
    <3>1. Depth(words, i + 1) = IF open \/ (in /\ ~close) THEN 1 ELSE 0
      BY ONLY <1>10, <1>14, <1>16
    <3>2. CASE t.inTier
      BY ONLY <1>13, <3>1, <3>2
    <3>3. CASE ~t.inTier
      BY ONLY <1>13, <3>1, <3>3
    <3> QED
      BY ONLY <3>2, <3>3
  <2>9. Tiered(words, i + 1, us)
    BY ONLY <2>4, <2>5, <2>7
  <2> QED
    BY ONLY <2>8, <2>9 DEF TiersOf, us
<1> QED
  BY ONLY <1>4, <1>12, <1>14, <1>15, <1>16 DEF AnnounceInv, us, t, w

\* The end of the loop.
LEMMA AnnouncesTaken ==
    ASSUME NEW words \in Seq(AnnounceWord)
    PROVE  \E s : /\ AnnounceInv(words, Len(words), s)
                  /\ announce_transformer(words) = IF s.bad THEN Thrown ELSE <<s.tiers>>
<1> DEFINE n == Len(words)
<1>1. n \in Nat /\ DOMAIN words = 1 .. n /\ \A i \in 1 .. n : words[i] \in AnnounceWord
  BY SequenceFacts
<1>2. PICK st : Run(words, st) /\ FoldLeft(TakeAnnounce, NoTiers, words) = st[n]
  BY <1>1, RunExists
<1> DEFINE S == {i \in Nat : i =< n => AnnounceInv(words, i, st[i])}
<1>3. 0 \in S
  BY <1>2, InitAnnounce DEF Run
<1>4. ASSUME NEW i \in Nat, i \in S PROVE i + 1 \in S
  <2> SUFFICES ASSUME i + 1 =< n PROVE AnnounceInv(words, i + 1, st[i + 1])
    OBVIOUS
  <2>1. i =< n /\ i + 1 \in 1 .. n /\ (i + 1) - 1 = i
    BY <1>1
  <2>2. st[i + 1] = TakeAnnounce(st[i], words[i + 1])
    BY <1>2, <2>1 DEF Run
  <2>3. AnnounceInv(words, i, st[i]) /\ words[i + 1] \in AnnounceWord
    BY <1>1, <1>4, <2>1
  <2> QED
    BY ONLY <2>2, <2>3, i \in Nat, AnnounceNext
<1> HIDE DEF S
<1>5. n \in S
  BY <1>1, <1>3, <1>4, AllNumbers
<1>6. AnnounceInv(words, n, st[n])
  BY <1>1, <1>5 DEF S
<1>7. announce_transformer(words) = IF st[n].bad THEN Thrown ELSE <<st[n].tiers>>
  BY <1>2 DEF announce_transformer
<1> QED
  BY <1>6, <1>7

\* No URL is lost or moved, words are in one tier exactly when no bracket separates
\* them, and only brackets that do not match are rejected (announce_transformer).
THEOREM AnnouncesAreTheirWords == Spec => []AnnouncesAsWritten
<1>1. ASSUME ProfilesInv PROVE AnnouncesAsWritten
  <2> SUFFICES ASSUME NEW a \in Given("announce")
               PROVE  /\ Accepted(a) =>
                            LET tiers == cli["announce"]
                                flat  == FlattenSeq(tiers)
                            IN  /\ Matched(a.words)
                                /\ Len(flat) = Len(a.words)
                                /\ \A i \in DOMAIN flat : flat[i].url = a.words[i].url
                                /\ \A k \in DOMAIN tiers : Len(tiers[k]) =
                                      Cardinality({i \in DOMAIN a.words : TierNo(a.words, i) = k})
                      /\ Rejected(a) => ~Matched(a.words)
    BY DEF AnnouncesAsWritten
  <2> DEFINE words == a.words
             n == Len(words)
             tiers == cli["announce"]
             flat == FlattenSeq(tiers)
  <2>1. a \in Range(given.args) /\ a.option = "announce"
    BY DEF Given
  <2>2. words \in Seq(AnnounceWord)
    BY <1>1, <2>1, InputFacts DEF ProfilesInv, Word
  <2>3. n \in Nat /\ DOMAIN words = 1 .. n
    BY <2>2, SequenceFacts
  <2>4. ArgumentValues(given.command, a) = {announce_transformer(words)}
    BY <2>1, ValueArms DEF ArgumentValues
  <2>5. PICK s : /\ AnnounceInv(words, n, s)
                 /\ announce_transformer(words) = IF s.bad THEN Thrown ELSE <<s.tiers>>
    BY <2>2, AnnouncesTaken
  <2>6. Accepted(a) => <<tiers>> = announce_transformer(words)
    BY <1>1, <2>1, <2>4, AcceptedValue
  <2>7. Rejected(a) => Thrown = announce_transformer(words)
    BY <1>1, <2>1, <2>4, RejectedValue
  <2> HIDE DEF words, tiers
  <2>8. Matched(words) <=> ~Unmatched(words, n)
    BY <2>3 DEF Matched, Unmatched
  <2>9. s.bad <=> Unmatched(words, n)
    BY <2>5 DEF AnnounceInv
  <2>10. Rejected(a) => ~Matched(words)
    BY <2>5, <2>7, <2>8, <2>9 DEF Thrown
  <2>11. ASSUME Accepted(a)
         PROVE  /\ Matched(words) /\ Len(flat) = n
                /\ \A i \in DOMAIN flat : flat[i].url = words[i].url
                /\ \A k \in DOMAIN tiers : Len(tiers[k]) =
                      Cardinality({i \in DOMAIN words : TierNo(words, i) = k})
    <3>1. ~s.bad /\ tiers = s.tiers
      BY <2>5, <2>6, <2>11 DEF Thrown
    <3>2. Holds(words, n, tiers) /\ TiersOf(words, n, s.inTier, s.tiers)
      BY <2>5, <3>1 DEF AnnounceInv
    <3>3. /\ tiers \in Seq(Seq(AnnounceWord)) /\ flat \in Seq(AnnounceWord) /\ Len(flat) = n
          /\ \A j \in 1 .. n : flat[j].url = words[j].url
      BY <3>2 DEF Holds
    <3>4. DOMAIN flat = 1 .. n
      BY <3>3, SequenceFacts
    <3>5. DOMAIN tiers = 1 .. Len(tiers)
      BY <3>3, SequenceFacts
    <3>6. \A k \in 1 .. Len(tiers) : Len(tiers[k]) = TierSize(words, n, k)
      BY <3>1, <3>2 DEF TiersOf, Tiered
    <3> HIDE DEF flat, n
    <3>7. \A k \in DOMAIN tiers : Len(tiers[k]) = Cardinality({i \in DOMAIN words : TierNo(words, i) = k})
      BY ONLY <2>3, <3>5, <3>6 DEF TierSize
    <3> QED
      BY ONLY <2>8, <2>9, <3>1, <3>3, <3>4, <3>7 DEF n
  <2> QED
    BY <2>10, <2>11 DEF words, tiers
<1> QED
  BY <1>1, ValuesInvariant, PTL

-----------------------------------------------------------------------------
(* The words of a profile on the command line. *)

\* Words that begin alike lead to the same state.
LEMMA RunSame ==
    ASSUME NEW s, NEW t, NEW fs, NEW ft, Run(s, fs), Run(t, ft),
           NEW k \in Nat, Len(s) \in Nat, Len(t) \in Nat, k =< Len(s), k =< Len(t),
           \A i \in 1 .. k : s[i] = t[i]
    PROVE  fs[k] = ft[k]
<1> DEFINE S == {i \in Nat : i =< k => fs[i] = ft[i]}
<1>1. 0 \in S
  BY DEF Run
<1>2. ASSUME NEW i \in Nat, i \in S PROVE i + 1 \in S
  <2> SUFFICES ASSUME i + 1 =< k PROVE fs[i + 1] = ft[i + 1]
    OBVIOUS
  <2>1. i + 1 \in 1 .. Len(s) /\ i + 1 \in 1 .. Len(t) /\ i + 1 \in 1 .. k /\ i =< k /\ (i + 1) - 1 = i
    OBVIOUS
  <2>2. fs[i + 1] = TakeAnnounce(fs[i], s[i + 1]) /\ ft[i + 1] = TakeAnnounce(ft[i], t[i + 1])
    BY <2>1 DEF Run
  <2>3. fs[i] = ft[i] /\ s[i + 1] = t[i + 1]
    BY <1>2, <2>1
  <2> QED
    BY ONLY <2>2, <2>3
<1> HIDE DEF S
<1>3. k \in S
  BY <1>1, <1>2, AllNumbers
<1> QED
  BY <1>3 DEF S

\* The state of the loop after all words.
Taken(words) == FoldLeft(TakeAnnounce, NoTiers, words)

\* The loop over no words,
LEMMA TakenNone == Taken(<<>>) = NoTiers
<1>1. PICK st : Run(<<>>, st) /\ Taken(<<>>) = st[0]
  <2> DEFINE e == <<>>
  <2>1. DOMAIN e = 1 .. Len(e) /\ Len(e) \in Nat /\ Len(e) = 0
    OBVIOUS
  <2> HIDE DEF e
  <2> QED
    BY <2>1, RunExists DEF Taken, e
<1> QED
  BY <1>1 DEF Run

\* and over one word more.
LEMMA TakenAppend ==
    ASSUME NEW E, NEW words \in Seq(E), NEW w \in E
    PROVE  Taken(Append(words, w)) = TakeAnnounce(Taken(words), w)
<1> DEFINE n == Len(words)
           more == Append(words, w)
<1>1. n \in Nat /\ DOMAIN words = 1 .. n
  BY SequenceFacts
<1>2. more \in Seq(E) /\ Len(more) = n + 1 /\ more[n + 1] = w /\ \A i \in 1 .. n : more[i] = words[i]
  BY AppendFacts
<1> HIDE DEF more
<1>3. DOMAIN more = 1 .. Len(more) /\ Len(more) \in Nat
  BY <1>2, SequenceFacts
<1>4. PICK fs : Run(words, fs) /\ Taken(words) = fs[n]
  BY <1>1, RunExists DEF Taken
<1>5. PICK ft : Run(more, ft) /\ Taken(more) = ft[Len(more)]
  BY <1>3, RunExists DEF Taken
<1>6. fs[n] = ft[n]
  <2>1. n \in Nat /\ Len(words) \in Nat /\ Len(more) \in Nat /\ n =< Len(words) /\ n =< Len(more)
    BY <1>1, <1>2
  <2>2. \A i \in 1 .. n : words[i] = more[i]
    BY <1>2
  <2> HIDE DEF n
  <2> QED
    BY ONLY <1>4, <1>5, <2>1, <2>2, RunSame
<1>7. ft[n + 1] = TakeAnnounce(ft[n], w)
  <2> HIDE DEF n
  <2>1. n + 1 \in 1 .. Len(more) /\ (n + 1) - 1 = n
    BY <1>1, <1>2
  <2>2. ft[n + 1] = TakeAnnounce(ft[(n + 1) - 1], more[n + 1])
    BY <1>5, <2>1 DEF Run
  <2> QED
    BY ONLY <1>2, <2>1, <2>2
<1> QED
  BY <1>2, <1>4, <1>5, <1>6, <1>7 DEF more

\* The state between tiers.
Between(ts) == [tiers |-> ts, inTier |-> FALSE, bad |-> FALSE]

\* The prefixes of a sequence.
LEMMA PrefixFacts ==
    ASSUME NEW S, NEW s \in Seq(S)
    PROVE  /\ SubSeq(s, 1, 0) = <<>> /\ SubSeq(s, 1, Len(s)) = s
           /\ \A j \in 0 .. Len(s) : SubSeq(s, 1, j) \in Seq(S)
           /\ \A j \in 0 .. (Len(s) - 1) : SubSeq(s, 1, j + 1) = Append(SubSeq(s, 1, j), s[j + 1])
<1>1. SubSeq(s, 1, 0) = <<>> /\ SubSeq(s, 1, Len(s)) = s
  OBVIOUS
<1>2. \A j \in 0 .. Len(s) : SubSeq(s, 1, j) \in Seq(S)
  OBVIOUS
<1>3. ASSUME NEW j \in 0 .. (Len(s) - 1)
      PROVE  SubSeq(s, 1, j + 1) = Append(SubSeq(s, 1, j), s[j + 1])
  OBVIOUS
<1> QED
  BY <1>1, <1>2, <1>3

\* A word more in a tier that has just been appended.
LEMMA AddToAppended ==
    ASSUME NEW Q, NEW F, F \in Seq(Q), NEW t \in Q, NEW x, Append(t, x) \in Q
    PROVE  AddToLast(Append(F, t), x) = Append(F, Append(t, x))
<1> DEFINE u == Append(t, x)
           G == Append(F, t)
           n == Len(F) + 1
<1>1. G \in Seq(Q) /\ Len(G) = n /\ G[n] = t /\ \A i \in 1 .. Len(F) : G[i] = F[i]
  BY AppendFacts
<1>2. AddToLast(G, x) = [G EXCEPT ![n] = u]
  BY <1>1 DEF AddToLast
<1>3. u \in Q /\ n \in Nat /\ n # 0 /\ Len(F) = n - 1
  OBVIOUS
<1> DEFINE L == Append(F, u)
<1>4. L \in Seq(Q) /\ Len(L) = n /\ L[n] = u /\ \A i \in 1 .. Len(F) : L[i] = F[i]
  BY AppendFacts
<1> HIDE DEF u, G, n, L
<1>5. DOMAIN G = 1 .. n /\ DOMAIN L = 1 .. n
  BY <1>1, <1>4, SequenceFacts
<1>6. L = [i \in 1 .. n |-> L[i]] /\ G = [i \in 1 .. n |-> G[i]]
  <2>1. L = [i \in 1 .. Len(L) |-> L[i]] /\ G = [i \in 1 .. Len(G) |-> G[i]]
    BY <1>1, <1>4
  <2> QED
    BY ONLY <1>1, <1>4, <2>1
<1>7. \A i \in 1 .. n : L[i] = IF i = n THEN u ELSE G[i]
  <2>1. \A i \in 1 .. n : i # n => i \in 1 .. Len(F)
    BY ONLY <1>3
  <2> QED
    BY ONLY <1>1, <1>4, <2>1
<1> QED
  BY ONLY <1>2, <1>5, <1>6, <1>7 DEF L, G, u

\* A word without its opening bracket,
LEMMA WordOpen ==
    ASSUME NEW u, NEW o, NEW c, NEW f, NEW w, w = [url |-> u, open |-> o, close |-> c]
    PROVE  [w EXCEPT !.open = f] = [url |-> u, open |-> f, close |-> c]
  OBVIOUS

\* and without its closing one.
LEMMA WordClosed ==
    ASSUME NEW u, NEW o, NEW c, NEW f, NEW w, w = [url |-> u, open |-> o, close |-> c]
    PROVE  [w EXCEPT !.close = f] = [url |-> u, open |-> o, close |-> f]
  OBVIOUS

\* The words of a tier as the command line has them.
LEMMA BracketedWords ==
    ASSUME NEW T \in Seq(BareWord)
    PROVE  /\ Bracketed(T) \in Seq(AnnounceWord) /\ Len(Bracketed(T)) = Len(T)
           /\ \A i \in 1 .. Len(T) :
                 LET w == Bracketed(T)[i]
                 IN  /\ w.open \in BOOLEAN /\ w.close \in BOOLEAN
                     /\ w.open <=> Len(T) > 1 /\ i = 1
                     /\ w.close <=> Len(T) > 1 /\ i = Len(T)
                     /\ Bare(w) = T[i] /\ (~w.close => [w EXCEPT !.open = FALSE] = T[i])
<1> DEFINE m == Len(T)
           B == Bracketed(T)
<1>1. m \in Nat /\ DOMAIN T = 1 .. m /\ \A i \in 1 .. m : T[i] \in BareWord
  BY SequenceFacts
<1>2. B = [i \in 1 .. m |-> [T[i] EXCEPT !.open = m > 1 /\ i = 1, !.close = m > 1 /\ i = m]]
  BY <1>1 DEF Bracketed
<1> HIDE DEF m, B
<1>3. ASSUME NEW i \in 1 .. m
      PROVE  /\ B[i] \in AnnounceWord
             /\ B[i].open \in BOOLEAN /\ B[i].close \in BOOLEAN
             /\ B[i].open <=> m > 1 /\ i = 1
             /\ B[i].close <=> m > 1 /\ i = m
             /\ Bare(B[i]) = T[i] /\ (~B[i].close => [B[i] EXCEPT !.open = FALSE] = T[i])
  <2> DEFINE t == T[i]
             o == m > 1 /\ i = 1
             c == m > 1 /\ i = m
             w == B[i]
  <2>1. t \in AnnounceWord /\ Bare(t) = t
    BY <1>1 DEF BareWord
  <2>2. w = [t EXCEPT !.open = o, !.close = c]
    BY <1>2
  <2>3. o \in BOOLEAN /\ c \in BOOLEAN
    OBVIOUS
  <2> HIDE DEF t, o, c, w
  <2>4. t = [url |-> t.url, open |-> t.open, close |-> t.close] /\ t.url \in Urls
    BY <2>1 DEF AnnounceWord
  <2>5. t.open = FALSE /\ t.close = FALSE
    BY <2>1, <2>4 DEF Bare
  <2>6. w = [url |-> t.url, open |-> o, close |-> c]
    BY <2>2, <2>4
  <2>7. w \in AnnounceWord /\ w.open = o /\ w.close = c
    BY <2>3, <2>4, <2>6 DEF AnnounceWord
  <2>8. Bare(w) = [url |-> t.url, open |-> FALSE, close |-> FALSE]
    <3> DEFINE f == FALSE
    <3> HIDE DEF f
    <3> DEFINE v == [w EXCEPT !.open = f]
    <3>1. v = [url |-> t.url, open |-> f, close |-> c]
      BY ONLY <2>6, WordOpen
    <3> HIDE DEF v
    <3>2. [v EXCEPT !.close = f] = [url |-> t.url, open |-> f, close |-> f]
      BY ONLY <3>1, WordClosed
    <3> QED
      BY ONLY <3>2 DEF f, v, Bare
  <2>9. [w EXCEPT !.open = FALSE] = [url |-> t.url, open |-> FALSE, close |-> c]
    <3> DEFINE f == FALSE
    <3> HIDE DEF f
    <3>1. [w EXCEPT !.open = f] = [url |-> t.url, open |-> f, close |-> c]
      BY ONLY <2>6, WordOpen
    <3> QED
      BY ONLY <3>1 DEF f
  <2>10. Bare(w) = t
    BY <2>4, <2>5, <2>8
  <2>11. ~w.close => [w EXCEPT !.open = FALSE] = t
    <3>1. ~w.close => c = FALSE
      BY <2>3, <2>7
    <3> QED
      BY <2>4, <2>5, <2>9, <3>1
  <2> QED
    BY ONLY <2>3, <2>7, <2>10, <2>11 DEF t, o, c, w
<1>4. B \in Seq(AnnounceWord) /\ Len(B) = m
  <2>1. \A i \in 1 .. m : B[i] \in AnnounceWord
    BY <1>3
  <2>2. B = [i \in 1 .. m |-> B[i]]
    BY <1>2
  <2> HIDE DEF B
  <2>3. B \in [1 .. m -> AnnounceWord]
    BY <2>1, <2>2
  <2> QED
    BY ONLY <1>1, <2>3
<1> QED
  BY ONLY <1>3, <1>4 DEF m, B

\* The state after j words of the tier T, which follows the tiers ts.
Within(ts, T, j) ==
    IF j = 0 THEN Between(ts)
    ELSE [tiers |-> Append(ts, SubSeq(T, 1, j)), inTier |-> j # Len(T), bad |-> FALSE]

\* The fields of a state of the loop: its tiers,
LEMMA TiersChanged ==
    ASSUME NEW ts, NEW in, NEW bad, NEW f, NEW s, s = [tiers |-> ts, inTier |-> in, bad |-> bad]
    PROVE  [s EXCEPT !.tiers = f] = [tiers |-> f, inTier |-> in, bad |-> bad]
  OBVIOUS

\* whether a tier is open,
LEMMA InTierChanged ==
    ASSUME NEW ts, NEW in, NEW bad, NEW f, NEW s, s = [tiers |-> ts, inTier |-> in, bad |-> bad]
    PROVE  [s EXCEPT !.inTier = f] = [tiers |-> ts, inTier |-> f, bad |-> bad]
  OBVIOUS

\* and whether a bracket was wrong.
LEMMA BadChanged ==
    ASSUME NEW ts, NEW in, NEW bad, NEW f, NEW s, s = [tiers |-> ts, inTier |-> in, bad |-> bad]
    PROVE  [s EXCEPT !.bad = f] = [tiers |-> ts, inTier |-> in, bad |-> f]
  OBVIOUS

\* The turns of the loop from each kind of state.
LEMMA TurnOpens ==
    ASSUME NEW s, s.inTier = FALSE, s.bad = FALSE, NEW w, w.open = TRUE
    PROVE  TakeAnnounce(s, w) = [tiers  |-> Append(s.tiers, <<[w EXCEPT !.open = FALSE]>>),
                                 inTier |-> TRUE, bad |-> FALSE]
<1>1. TakeAnnounce(s, w) = [tiers  |-> Append(s.tiers, <<[w EXCEPT !.open = FALSE]>>),
                            inTier |-> TRUE, bad |-> s.bad \/ s.inTier]
  BY DEF TakeAnnounce
<1>2. (s.bad \/ s.inTier) = FALSE
  OBVIOUS
<1> QED
  BY <1>1, <1>2

\* A word within a tier.
LEMMA TurnGoesOn ==
    ASSUME NEW ts, NEW s, s = [tiers |-> ts, inTier |-> TRUE, bad |-> FALSE],
           NEW w, w.open = FALSE
    PROVE  TakeAnnounce(s, w) = [tiers |-> AddToLast(ts, Bare(w)), inTier |-> ~w.close, bad |-> FALSE]
<1> DEFINE f == AddToLast(ts, Bare(w))
           c == ~w.close
           v == [s EXCEPT !.tiers = f]
           T == TRUE
           F == FALSE
<1>1. TakeAnnounce(s, w) = [s EXCEPT !.tiers = AddToLast(s.tiers, Bare(w)), !.inTier = c]
  BY DEF TakeAnnounce
<1>2. s.tiers = ts
  OBVIOUS
<1>3. s = [tiers |-> ts, inTier |-> T, bad |-> F]
  OBVIOUS
<1> HIDE DEF T, F, f, c
<1>4. v = [tiers |-> f, inTier |-> T, bad |-> F]
  BY ONLY <1>3, TiersChanged
<1>5. TakeAnnounce(s, w) = [v EXCEPT !.inTier = c]
  BY ONLY <1>1, <1>2 DEF f
<1> HIDE DEF v
<1>6. [v EXCEPT !.inTier = c] = [tiers |-> f, inTier |-> c, bad |-> F]
  BY ONLY <1>4, InTierChanged
<1> QED
  BY ONLY <1>5, <1>6 DEF f, c, F

\* A word without brackets, outside any tier.
LEMMA TurnAlone ==
    ASSUME NEW ts, NEW s, s = [tiers |-> ts, inTier |-> FALSE, bad |-> FALSE],
           NEW w, w.open = FALSE, w.close = FALSE
    PROVE  TakeAnnounce(s, w) = [tiers |-> Append(ts, <<Bare(w)>>), inTier |-> FALSE, bad |-> FALSE]
<1> DEFINE f == Append(ts, <<Bare(w)>>)
           b == s.bad \/ w.close
           v == [s EXCEPT !.tiers = f]
           F == FALSE
<1>1. TakeAnnounce(s, w) = [s EXCEPT !.tiers = Append(s.tiers, <<Bare(w)>>), !.bad = b]
  BY DEF TakeAnnounce
<1>2. s.tiers = ts /\ b = F
  OBVIOUS
<1>3. s = [tiers |-> ts, inTier |-> F, bad |-> F]
  OBVIOUS
<1> HIDE DEF F, f, b
<1>4. v = [tiers |-> f, inTier |-> F, bad |-> F]
  BY ONLY <1>3, TiersChanged
<1>5. TakeAnnounce(s, w) = [v EXCEPT !.bad = b]
  BY ONLY <1>1, <1>2 DEF f
<1> HIDE DEF v
<1>6. [v EXCEPT !.bad = b] = [tiers |-> f, inTier |-> F, bad |-> b]
  BY ONLY <1>4, BadChanged
<1> QED
  BY ONLY <1>2, <1>5, <1>6 DEF f, F

\* One turn within the words of a tier as the command line has them.
LEMMA TierTurn ==
    ASSUME NEW T \in Seq(BareWord), NEW ts, ts \in Seq(Seq(BareWord)),
           NEW j \in 0 .. (Len(T) - 1)
    PROVE  TakeAnnounce(Within(ts, T, j), Bracketed(T)[j + 1]) = Within(ts, T, j + 1)
<1> DEFINE m == Len(T)
           w == Bracketed(T)[j + 1]
           s == Within(ts, T, j)
           t == T[j + 1]
           P == SubSeq(T, 1, j)
           N == SubSeq(T, 1, j + 1)
<1>1. m \in Nat /\ j \in 0 .. (m - 1) /\ j + 1 \in 1 .. m /\ j \in 0 .. m
  BY SequenceFacts
<1>2. t \in BareWord
  BY <1>1, SequenceFacts
<1>3. N = Append(P, t) /\ P \in Seq(BareWord) /\ N \in Seq(BareWord)
  BY ONLY <1>1, T \in Seq(BareWord), PrefixFacts
<1>4. j = 0 => P = <<>>
  BY PrefixFacts
<1>5. /\ w.open \in BOOLEAN /\ w.close \in BOOLEAN
      /\ w.open <=> m > 1 /\ j + 1 = 1
      /\ w.close <=> m > 1 /\ j + 1 = m
      /\ Bare(w) = t /\ (~w.close => [w EXCEPT !.open = FALSE] = t)
  <2> DEFINE i == j + 1
  <2>1. i \in 1 .. Len(T)
    BY <1>1
  <2> HIDE DEF i
  <2> QED
    BY ONLY <2>1, T \in Seq(BareWord), BracketedWords DEF i
<1>6. Within(ts, T, j + 1) = [tiers |-> Append(ts, N), inTier |-> j + 1 # m, bad |-> FALSE]
  BY <1>1 DEF Within
<1>7. j = 0 => s = [tiers |-> ts, inTier |-> FALSE, bad |-> FALSE]
  BY DEF Within, Between
<1>8. j # 0 => s = [tiers |-> Append(ts, P), inTier |-> j # m, bad |-> FALSE]
  BY DEF Within
<1>9. j = 0 => N = <<t>>
  <2> HIDE DEF N, P, t
  <2>1. Append(<<>>, t) = <<t>>
    OBVIOUS
  <2> QED
    BY ONLY <1>3, <1>4, <2>1
<1> HIDE DEF m, w, s, t, P, N
<1>10. CASE j = 0 /\ m > 1
  <2>1. w.open = TRUE /\ ~w.close /\ s.inTier = FALSE /\ s.bad = FALSE /\ s.tiers = ts
    BY ONLY <1>1, <1>5, <1>7, <1>10
  <2>2. TakeAnnounce(s, w) = [tiers  |-> Append(s.tiers, <<[w EXCEPT !.open = FALSE]>>),
                              inTier |-> TRUE, bad |-> FALSE]
    BY ONLY <2>1, TurnOpens
  <2>3. TakeAnnounce(s, w) = [tiers |-> Append(ts, <<t>>), inTier |-> TRUE, bad |-> FALSE]
    BY ONLY <1>5, <2>1, <2>2
  <2>4. (j + 1 # m) = TRUE
    BY ONLY <1>1, <1>10
  <2> QED
    BY ONLY <1>6, <1>9, <1>10, <2>3, <2>4 DEF s, w
<1>11. CASE j = 0 /\ ~(m > 1)
  <2>1. w.open = FALSE /\ w.close = FALSE
    BY ONLY <1>1, <1>5, <1>11
  <2>2. TakeAnnounce(s, w) = [tiers |-> Append(ts, <<Bare(w)>>), inTier |-> FALSE, bad |-> FALSE]
    BY ONLY <1>7, <1>11, <2>1, TurnAlone
  <2>3. (j + 1 # m) = FALSE
    BY ONLY <1>1, <1>11
  <2> QED
    BY ONLY <1>5, <1>6, <1>9, <1>11, <2>2, <2>3 DEF s, w
<1>12. CASE j # 0
  <2> DEFINE us == Append(ts, P)
  <2>1. w.open = FALSE /\ m > 1
    BY ONLY <1>1, <1>5, <1>12
  <2>2. (j # m) = TRUE
    BY ONLY <1>1
  <2>3. s = [tiers |-> us, inTier |-> TRUE, bad |-> FALSE]
    BY ONLY <1>8, <1>12, <2>2
  <2>4. AddToLast(us, t) = Append(ts, N)
    <3> DEFINE Q == Seq(BareWord)
    <3>1. ts \in Seq(Q) /\ P \in Q /\ Append(P, t) \in Q
      BY <1>3
    <3> HIDE DEF Q
    <3>2. AddToLast(us, t) = Append(ts, Append(P, t))
      BY ONLY <3>1, AddToAppended
    <3> QED
      BY ONLY <1>3, <3>2
  <2> HIDE DEF us
  <2>5. TakeAnnounce(s, w) = [tiers |-> AddToLast(us, Bare(w)), inTier |-> ~w.close, bad |-> FALSE]
    BY ONLY <2>1, <2>3, TurnGoesOn
  <2>6. (j + 1 # m) = ~w.close
    BY ONLY <1>1, <1>5, <2>1
  <2> QED
    BY ONLY <1>5, <1>6, <2>4, <2>5, <2>6 DEF s, w
<1> QED
  BY <1>10, <1>11, <1>12

\* A tier in brackets is one tier.
LEMMA TierTaken ==
    ASSUME NEW words \in Seq(AnnounceWord), NEW ts, ts \in Seq(Seq(BareWord)),
           Taken(words) = Between(ts), NEW T \in Seq(BareWord), T # <<>>
    PROVE  /\ words \o Bracketed(T) \in Seq(AnnounceWord)
           /\ Taken(words \o Bracketed(T)) = Between(Append(ts, T))
<1> DEFINE m == Len(T)
           B == Bracketed(T)
           Pre(j) == SubSeq(B, 1, j)
           Done(j) == Taken(words \o Pre(j)) = Within(ts, T, j)
           S == {j \in Nat : j =< m => Done(j)}
<1>1. m \in Nat /\ (m = 0 => T = <<>>)
  BY SequenceFacts
<1>2. B \in Seq(AnnounceWord) /\ Len(B) = m
  BY BracketedWords
<1>3. \A j \in 1 .. m : B[j] \in AnnounceWord
  BY <1>2, SequenceFacts
<1> HIDE DEF B, m
<1>4. /\ Pre(0) = <<>> /\ Pre(m) = B
      /\ \A j \in 0 .. m : Pre(j) \in Seq(AnnounceWord)
      /\ \A j \in 0 .. (m - 1) : Pre(j + 1) = Append(Pre(j), B[j + 1])
  BY ONLY <1>2, PrefixFacts
<1> HIDE DEF Pre
<1>5. 0 \in S
  <2>1. words \o <<>> = words
    OBVIOUS
  <2> QED
    BY <1>4, <2>1 DEF Within
<1>6. ASSUME NEW j \in Nat, j \in S PROVE j + 1 \in S
  <2> SUFFICES ASSUME j + 1 =< m PROVE Done(j + 1)
    OBVIOUS
  <2>1. j =< m /\ j \in 0 .. (m - 1) /\ j \in 0 .. m /\ j + 1 \in 1 .. m
    BY <1>1
  <2>2. Done(j)
    BY <1>6, <2>1
  <2>3. /\ words \o Append(Pre(j), B[j + 1]) = Append(words \o Pre(j), B[j + 1])
        /\ words \o Pre(j) \in Seq(AnnounceWord)
    <3>1. Pre(j) \in Seq(AnnounceWord) /\ B[j + 1] \in AnnounceWord /\ words \in Seq(AnnounceWord)
      BY <1>3, <1>4, <2>1
    <3> QED
      BY ONLY <3>1, ConcatAppend
  <2>4. Taken(Append(words \o Pre(j), B[j + 1])) = TakeAnnounce(Taken(words \o Pre(j)), B[j + 1])
    <3>1. words \o Pre(j) \in Seq(AnnounceWord) /\ B[j + 1] \in AnnounceWord
      BY <1>3, <2>1, <2>3
    <3> QED
      BY ONLY <3>1, TakenAppend
  <2>5. TakeAnnounce(Within(ts, T, j), B[j + 1]) = Within(ts, T, j + 1)
    <3>1. j \in 0 .. (Len(T) - 1)
      BY <2>1 DEF m
    <3> QED
      BY ONLY <3>1, T \in Seq(BareWord), ts \in Seq(Seq(BareWord)), TierTurn DEF B
  <2>6. Pre(j + 1) = Append(Pre(j), B[j + 1])
    BY <1>4, <2>1
  <2> QED
    BY ONLY <2>2, <2>3, <2>4, <2>5, <2>6
<1> HIDE DEF S, Done
<1>7. m \in S
  BY <1>1, <1>5, <1>6, AllNumbers
<1>8. Taken(words \o B) = Within(ts, T, m)
  BY <1>1, <1>4, <1>7 DEF S, Done
<1>9. m # 0 /\ SubSeq(T, 1, m) = T
  BY <1>1, PrefixFacts DEF m
<1>10. Within(ts, T, m) = Between(Append(ts, T))
  <2>1. (m # Len(T)) = FALSE
    BY DEF m
  <2> QED
    BY <1>9, <2>1 DEF Within, Between
<1>11. words \o B \in Seq(AnnounceWord)
  BY ONLY <1>2, words \in Seq(AnnounceWord)
<1> QED
  BY <1>8, <1>10, <1>11 DEF B

\* A function on 1..n is a sequence.
LEMMA MappedSequence ==
    ASSUME NEW Q, NEW n \in Nat, NEW f, f = [i \in 1 .. n |-> f[i]], \A i \in 1 .. n : f[i] \in Q
    PROVE  f \in Seq(Q) /\ Len(f) = n
<1>1. f \in [1 .. n -> Q]
  OBVIOUS
<1> QED
  BY ONLY <1>1, n \in Nat

\* The tiers of a profile are those of the same words on the command line.
LEMMA WrittenTaken ==
    ASSUME NEW ns, ns \in Seq(TierNode)
    PROVE  announce_transformer(Written(ns)) = announce_nodes(ns)
<1> DEFINE K == Len(ns)
           Q == Seq(BareWord)
           R == Seq(AnnounceWord)
           W == [i \in 1 .. K |-> ns[i].words]
           B == [i \in 1 .. K |-> Bracketed(W[i])]
<1>1. K \in Nat /\ DOMAIN ns = 1 .. K /\ \A i \in 1 .. K : ns[i] \in TierNode
  BY SequenceFacts
<1> HIDE DEF K
<1>2. \A i \in 1 .. K : ns[i].form \in {"scalar", "list"} /\ W[i] \in Q /\ W[i] # <<>>
  <2>1. ASSUME NEW i \in 1 .. K PROVE ns[i].form \in {"scalar", "list"} /\ ns[i].words \in Q \ {<<>>}
    BY <1>1, <2>1 DEF TierNode, BareWord
  <2>2. ASSUME NEW i \in 1 .. K PROVE W[i] = ns[i].words
    OBVIOUS
  <2> HIDE DEF W, Q
  <2> QED
    BY ONLY <2>1, <2>2
<1>3. W = [i \in 1 .. K |-> W[i]] /\ B = [i \in 1 .. K |-> B[i]] /\ \A i \in 1 .. K : B[i] = Bracketed(W[i])
  OBVIOUS
<1>4. announce_nodes(ns) = <<W>>
  <2>1. \A i \in 1 .. K : W[i] = ns[i].words
    OBVIOUS
  <2> DEFINE parse(n) == IF n.form \in {"scalar", "list"} THEN <<n.words>> ELSE Thrown
  <2>2. announce_nodes(ns) = IF \E i \in DOMAIN ns : parse(ns[i]) = Thrown
                             THEN Thrown ELSE <<[i \in DOMAIN ns |-> parse(ns[i])[1]]>>
    BY DEF announce_nodes, ForEach
  <2>3. \A i \in 1 .. K : parse(ns[i]) = <<W[i]>>
    <3> HIDE DEF W
    <3> QED
      BY ONLY <1>2, <2>1
  <2> HIDE DEF parse, W
  <2>4. ~\E i \in DOMAIN ns : parse(ns[i]) = Thrown
    BY ONLY <1>1, <2>3 DEF Thrown
  <2>5. [i \in DOMAIN ns |-> parse(ns[i])[1]] = [i \in 1 .. K |-> W[i]]
    BY ONLY <1>1, <2>3
  <2> QED
    BY ONLY <1>3, <2>2, <2>4, <2>5
<1>5. Written(ns) = FlattenSeq(B)
  <2>1. \A i \in 1 .. K : W[i] = ns[i].words
    OBVIOUS
  <2> QED
    BY <1>1, <2>1 DEF Written
<1> HIDE DEF W, B
<1>6. \A i \in 1 .. K : B[i] \in R
  BY <1>2, <1>3, BracketedWords
<1> HIDE DEF R
<1>7. W \in Seq(Q) /\ Len(W) = K /\ B \in Seq(R) /\ Len(B) = K
  <2> HIDE DEF Q
  <2> QED
    BY ONLY <1>1, <1>2, <1>3, <1>6, MappedSequence
<1>8. PICK fl : FlatRun(AnnounceWord, B, fl) /\ FlattenSeq(B) = fl[K]
  BY ONLY <1>7, FlatRunExists DEF R
<1>9. /\ fl[0] = <<>>
      /\ \A i \in 1 .. K : fl[i] = fl[i - 1] \o B[i]
      /\ \A i \in 0 .. K : fl[i] \in R
  BY ONLY <1>7, <1>8 DEF FlatRun, R
<1> DEFINE Pre(k) == SubSeq(W, 1, k)
           Done(k) == Taken(fl[k]) = Between(Pre(k))
           S == {k \in Nat : k =< K => Done(k)}
<1>10. /\ Pre(0) = <<>> /\ Pre(K) = W
       /\ \A k \in 0 .. K : Pre(k) \in Seq(Q)
       /\ \A k \in 0 .. (K - 1) : Pre(k + 1) = Append(Pre(k), W[k + 1])
  <2> HIDE DEF Q
  <2> QED
    BY ONLY <1>7, PrefixFacts
<1> HIDE DEF Pre
<1>11. 0 \in S
  <2>1. Done(0)
    BY <1>9, <1>10, TakenNone DEF Between, NoTiers
  <2> QED
    BY ONLY <2>1
<1>12. ASSUME NEW k \in Nat, k \in S PROVE k + 1 \in S
  <2> SUFFICES ASSUME k + 1 =< K PROVE Done(k + 1)
    OBVIOUS
  <2> DEFINE T == W[k + 1]
             p == Pre(k)
             words == fl[k]
  <2>1. k =< K /\ k \in 0 .. (K - 1) /\ k \in 0 .. K /\ k + 1 \in 1 .. K /\ (k + 1) - 1 = k
    BY ONLY <1>1, k \in Nat, k + 1 =< K
  <2>2. Done(k)
    BY <1>12, <2>1
  <2>3. T \in Q /\ T # <<>> /\ B[k + 1] = Bracketed(T) /\ p \in Seq(Q) /\ words \in R
    BY ONLY <1>2, <1>3, <1>9, <1>10, <2>1
  <2>4. Pre(k + 1) = Append(p, T) /\ fl[k + 1] = words \o Bracketed(T)
    BY ONLY <1>3, <1>9, <1>10, <2>1
  <2>5. Taken(words) = Between(p)
    BY ONLY <2>2
  <2> HIDE DEF T, p, words
  <2>6. Taken(words \o Bracketed(T)) = Between(Append(p, T))
    BY ONLY <2>3, <2>5, TierTaken DEF R
  <2> QED
    BY ONLY <2>4, <2>6
<1> HIDE DEF S, Done
<1>13. K \in S
  BY ONLY <1>1, <1>11, <1>12, AllNumbers
<1>14. Taken(fl[K]) = Between(W)
  BY ONLY <1>1, <1>10, <1>13 DEF S, Done
<1>15. announce_transformer(Written(ns)) = <<W>>
  <2>1. Taken(Written(ns)) = Between(W)
    BY ONLY <1>5, <1>8, <1>14
  <2>2. Taken(Written(ns)).bad = FALSE /\ Taken(Written(ns)).tiers = W
    BY ONLY <2>1 DEF Between
  <2>3. announce_transformer(Written(ns)) =
           IF Taken(Written(ns)).bad THEN Thrown ELSE <<Taken(Written(ns)).tiers>>
    BY ONLY DEF announce_transformer, Taken
  <2> QED
    BY ONLY <2>2, <2>3
<1> QED
  BY ONLY <1>4, <1>15

\* Words have one value, if any, but for an exponent that no size has room for.
LEMMA OneValue ==
    ASSUME NEW a, NEW o \in (CreateKeys \union EditKeys) \ Switches, a.option = o,
           NEW words \in Seq(Word(o)), a.words = words, ~Undefined(a)
    PROVE  \E v : Values(o, words) = {v}
<1>1. CASE o \in {"piece-size", "io-block-size"} /\ Len(words) # 1
  BY <1>1, ValueArms
<1>2. CASE o \in {"piece-size", "io-block-size"} /\ Len(words) = 1
  <2> DEFINE w == words[1]
  <2>1. w \in SizeWord
    BY <1>2, OneWord DEF Word
  <2>2. Values(o, words) = parse_commandline_size(w)
    BY <1>2, ValueArms
  <2>3. CASE w.kind = "number"
    <3>1. ~(w.unit = "none" /\ w.number < Least /\ w.number >= Bits)
      BY <1>2, <2>3 DEF Undefined
    <3> HIDE DEF w
    <3>2. \E x : Scaled(w) = {x}
      <4>1. CASE w.unit = "k"
        <5>1. w.unit \in {"k", "m"}
          BY ONLY <4>1
        <5>2. Scaled(w) = {MeantSize(w) % 2^Bits}
          BY ONLY <5>1, ScaledWraps
        <5> QED
          BY ONLY <5>2, Zenon
      <4>2. CASE w.unit = "m"
        <5>1. w.unit \in {"k", "m"}
          BY ONLY <4>2
        <5>2. Scaled(w) = {MeantSize(w) % 2^Bits}
          BY ONLY <5>1, ScaledWraps
        <5> QED
          BY ONLY <5>2, Zenon
      <4>3. CASE w.unit \notin {"k", "m"} /\ w.unit = "none" /\ w.number < Least
        <5>1. w.number < Bits
          <6>1. w.number \in Nat /\ Bits \in Nat
            BY <2>1, SizeAssumption DEF SizeWord
          <6> QED
            BY <3>1, <4>3, <6>1
        <5> DEFINE low == w.number < Least
                   fits == w.number < Bits
                   big == w.number >= Bits
                   p == 2^w.number
        <5> HIDE DEF low, fits, big, p
        <5>2. low /\ fits /\ ~big
          BY <3>1, <4>3, <5>1 DEF low, fits, big
        <5>3. Scaled(w) = {p}
          BY ONLY <4>3, <5>2, Zenon DEF Scaled, low, fits, big, p
        <5> QED
          BY ONLY <5>3
      <4>4. CASE w.unit \notin {"k", "m"} /\ ~(w.unit = "none" /\ w.number < Least)
        <5>1. Scaled(w) = {w.number}
          BY ONLY <4>4, Zenon DEF Scaled
        <5> QED
          BY ONLY <5>1
      <4> QED
        BY ONLY <4>1, <4>2, <4>3, <4>4
    <3>3. PICK x : Scaled(w) = {x}
      BY <3>2
    <3>4. \/ parse_commandline_size(w) =
                {IF SingleBit(v) /\ v >= Least THEN <<v>> ELSE Thrown : v \in Scaled(w)}
          \/ parse_commandline_size(w) = {Thrown}
      BY ONLY <2>3 DEF parse_commandline_size
    <3>5. {IF SingleBit(v) /\ v >= Least THEN <<v>> ELSE Thrown : v \in {x}}
             = {IF SingleBit(x) /\ x >= Least THEN <<x>> ELSE Thrown}
      OBVIOUS
    <3> QED
      BY ONLY <2>2, <3>3, <3>4, <3>5
  <2>4. CASE w.kind # "number"
    <3> HIDE DEF w
    <3>1. parse_commandline_size(w) = {<<AutoSize>>} \/ parse_commandline_size(w) = {Thrown}
      BY ONLY <2>4 DEF parse_commandline_size
    <3> QED
      BY ONLY <2>2, <3>1
  <2> QED
    BY ONLY <2>3, <2>4
<1>3. CASE o \notin {"piece-size", "io-block-size"}
  <2>1. o \in {"announce", "creation-date", "private",
               "protocol", "list-mode", "output", "threads", "checksum", "dht-node",
               "http-seed", "web-seed", "similar"} \union PlainLists \union TextOptions
    BY <1>3 DEF CreateKeys, EditKeys, ListOptions, Switches
  <2>2. CASE o \in {"announce", "checksum", "dht-node", "http-seed", "web-seed", "similar"}
    BY ONLY <2>2 DEF Values, PlainLists, TextOptions, OneOf
  <2>3. CASE o \in {"creation-date", "private", "protocol"}
    BY ONLY <2>3 DEF Values, PlainLists, TextOptions, OneOf
  <2>4. CASE o \in {"list-mode", "output", "threads"}
    BY ONLY <2>4 DEF Values, PlainLists, TextOptions, OneOf
  <2>5. CASE o \in PlainLists \union TextOptions
    BY ONLY <2>5 DEF Values, PlainLists, TextOptions, OneOf
  <2> QED
    BY ONLY <2>1, <2>2, <2>3, <2>4, <2>5
<1> QED
  BY <1>1, <1>2, <1>3

\* The values of a node that is not of announces or private.
LEMMA NodeValuesOf ==
    ASSUME NEW o \in (CreateKeys \union EditKeys) \ (Switches \union {"announce", "private"}),
           NEW v, v.form = Form(o)
    PROVE  NodeValues(o, v) = Values(o, v.words)
<1>1. CASE o \in ListOptions
  <2>1. v.form = "list" /\ o \in ListOptions \ {"announce"} /\ o # "announce"
    BY <1>1 DEF Form
  <2> QED
    BY ONLY <1>1, <2>1 DEF NodeValues
<1>2. CASE o \notin ListOptions
  <2>1. v.form = "scalar" /\ o \notin Switches \union {"private"} /\ o # "announce"
    BY <1>2 DEF Form
  <2> QED
    BY ONLY <1>2, <2>1 DEF NodeValues
<1> QED
  BY <1>1, <1>2

\* Seeds of the schemes of their option are taken as they are, others are refused.
LEMMA SeedsKept ==
    ASSUME NEW words \in Seq(SeedWord), NEW o \in {"http-seed", "web-seed"}
    PROVE  seed_transformer(words, o = "web-seed") =
             IF \A w \in Range(words) : w.scheme \in SeedSchemes(o) THEN <<words>> ELSE Thrown
<1> DEFINE n == Len(words)
           parse(w) == IF w.scheme \in {"http", "https", "udp", "utp"}
                             \union (IF o = "web-seed" THEN {"ftp", "ftps"} ELSE {})
                       THEN <<w>> ELSE Thrown
<1>1. n \in Nat /\ DOMAIN words = 1 .. n
  BY SequenceFacts
<1>2. words = [i \in 1 .. n |-> words[i]]
  OBVIOUS
<1>3. seed_transformer(words, o = "web-seed") =
        IF \E i \in DOMAIN words : parse(words[i]) = Thrown
        THEN Thrown ELSE <<[i \in DOMAIN words |-> parse(words[i])[1]]>>
  BY DEF seed_transformer, ForEach
<1>4. \A w : parse(w) = IF w.scheme \in SeedSchemes(o) THEN <<w>> ELSE Thrown
  BY DEF SeedSchemes
<1> HIDE DEF n, parse
<1>5. CASE \A w \in Range(words) : w.scheme \in SeedSchemes(o)
  <2>1. ASSUME NEW i \in 1 .. n PROVE parse(words[i]) = <<words[i]>>
    <3>1. words[i] \in Range(words)
      BY <1>1 DEF Range
    <3> QED
      BY ONLY <1>4, <1>5, <3>1
  <2>2. ~\E i \in DOMAIN words : parse(words[i]) = Thrown
    <3>1. \A y : <<y>> # Thrown
      BY DEF Thrown
    <3> QED
      BY ONLY <1>1, <2>1, <3>1, Zenon
  <2>3. [i \in DOMAIN words |-> parse(words[i])[1]] = [i \in 1 .. n |-> words[i]]
    BY ONLY <1>1, <2>1
  <2>4. seed_transformer(words, o = "web-seed") = <<words>>
    BY ONLY <1>2, <1>3, <2>2, <2>3
  <2> QED
    BY ONLY <1>5, <2>4
<1>6. CASE ~\A w \in Range(words) : w.scheme \in SeedSchemes(o)
  <2>1. PICK i \in DOMAIN words : words[i].scheme \notin SeedSchemes(o)
    BY <1>6 DEF Range
  <2>2. parse(words[i]) = Thrown
    BY ONLY <1>4, <2>1
  <2> QED
    BY ONLY <1>3, <1>6, <2>2
<1> QED
  BY <1>5, <1>6

\* The words of an argument with value x are refused in a profile, read differently
\* or read alike.
Outcome(a, x, V) ==
    \/ OnlyOnCommandLine(a) /\ ~ReadDifferently(a) /\ V = {Thrown}
    \/ ~OnlyOnCommandLine(a) /\ ReadDifferently(a) /\ \E y : y # x /\ V = {<<y>>}
    \/ ~OnlyOnCommandLine(a) /\ ~ReadDifferently(a) /\ V = {<<x>>}

\* What words the command line accepts are in a profile.
LEMMA NodeAgainstArgument ==
    ASSUME given.command \in {"create", "edit"}, NEW a,
           a.option \in ArgumentOptions(given.command),
           a.words \in Seq(Word(a.option)), NEW n, ~BadNode(n), n.command = given.command,
           SameWords(a, n), ~Undefined(a),
           NEW x, <<x>> \in ArgumentValues(given.command, a)
    PROVE  Outcome(a, x, NodeValues(a.option, n.options[a.option]))
<1> DEFINE o == a.option
           command == given.command
           words == a.words
           v == n.options[o]
           w == words[1]
<1>1. o \in (CreateKeys \union EditKeys) \ Switches /\ o # "target"
  <2>1. o \in Keys(command)
    BY DEF SameWords, BadNode
  <2>2. "target" \notin Keys(command) /\ Keys(command) \subseteq CreateKeys \union EditKeys
    BY DEF Keys, CreateKeys, EditKeys, TextOptions, PlainLists, ListOptions, Switches
  <2> QED
    BY <2>1, <2>2 DEF ArgumentOptions
<1>2. v.form = Form(o)
  BY DEF SameWords
<1>3. o = "announce" => v.words \in Seq(TierNode) /\ words = Written(v.words)
  BY DEF SameWords
<1>4. o # "announce" => words = v.words
  BY DEF SameWords
<1>5. CASE o = "announce"
  <2>1. v.form = "list"
    BY <1>2, <1>5 DEF Form, ListOptions
  <2>2. NodeValues(o, v) = {announce_nodes(v.words)}
    BY <1>5, <2>1 DEF NodeValues
  <2>3. ArgumentValues(command, a) = {announce_transformer(words)}
    BY <1>5, ValueArms DEF ArgumentValues
  <2> HIDE DEF v, words
  <2>4. announce_transformer(words) = announce_nodes(v.words)
    BY ONLY <1>3, <1>5, WrittenTaken
  <2>5. <<x>> = announce_transformer(words)
    BY <2>3
  <2>6. NodeValues(o, v) = {<<x>>}
    BY ONLY <2>2, <2>4, <2>5
  <2>7. ~OnlyOnCommandLine(a) /\ ~ReadDifferently(a)
    BY <1>5 DEF OnlyOnCommandLine, ReadDifferently
  <2> QED
    BY ONLY <2>6, <2>7 DEF v, Outcome
<1>6. CASE o = "private"
  <2>1. <<x>> = OneOf(parse_explicit_flag, words)
    <3>1. ArgumentValues(command, a) = Values(o, words)
      BY <1>6 DEF ArgumentValues
    <3>2. Values(o, words) = {OneOf(parse_explicit_flag, words)}
      BY <1>6, ValueArms
    <3> QED
      BY <3>1, <3>2
  <2>2. <<x>> = parse_explicit_flag(w)
    BY <2>1 DEF OneOf, Thrown
  <2>3. v.form = "scalar"
    BY <1>2, <1>6 DEF Form, ListOptions, PlainLists
  <2>4. NodeValues(o, v) = {YamlBool(v.words[1])}
    BY <1>6, <2>3 DEF NodeValues, ListOptions, PlainLists
  <2>5. v.words[1] = w
    BY <1>4, <1>6
  <2>6. /\ OnlyOnCommandLine(a) <=> w.text \notin YamlWords
        /\ ReadDifferently(a) <=> w.text \in {"no", "OFF"}
    BY <1>6 DEF OnlyOnCommandLine, ReadDifferently
  <2> HIDE DEF w, v
  <2>7. CASE w.text \notin YamlWords
    <3>1. YamlBool(w) = Thrown
      BY ONLY <2>7 DEF YamlBool, YamlWords
    <3>2. w.text \notin {"no", "OFF"}
      BY ONLY <2>7 DEF YamlWords
    <3> QED
      BY ONLY <2>4, <2>5, <2>6, <2>7, <3>1, <3>2 DEF Outcome, v
  <2>8. CASE w.text \in {"no", "OFF"}
    <3>1. parse_explicit_flag(w) = <<"on">> /\ YamlBool(w) = <<"off">> /\ w.text \in YamlWords
      BY ONLY <2>8 DEF parse_explicit_flag, parse_commandline_bool, YamlBool, YamlWords
    <3>2. x = "on"
      BY ONLY <2>2, <3>1
    <3> QED
      BY ONLY <2>4, <2>5, <2>6, <2>8, <3>1, <3>2 DEF Outcome, v
  <2>9. CASE w.text \in YamlWords \ {"no", "OFF"}
    <3>1. parse_explicit_flag(w) = YamlBool(w)
      BY ONLY <2>9 DEF parse_explicit_flag, parse_commandline_bool, YamlBool, YamlWords
    <3> QED
      BY ONLY <2>2, <2>4, <2>5, <2>6, <2>9, <3>1 DEF Outcome, v
  <2> QED
    BY <2>7, <2>8, <2>9
<1>7. CASE o \notin {"announce", "private"}
  <2>1. NodeValues(o, v) = Values(o, words)
    <3>1. NodeValues(o, v) = Values(o, v.words)
      BY <1>1, <1>2, <1>7, NodeValuesOf
    <3> QED
      BY <1>4, <1>7, <3>1
  <2>2. \E u : Values(o, words) = {u}
    BY ONLY <1>1, a.words \in Seq(Word(a.option)), ~Undefined(a), OneValue
  <2>3. CASE command = "edit" /\ o \in {"http-seed", "web-seed"}
    <3>1. x = words
      BY <2>3 DEF ArgumentValues
    <3>2. words \in Seq(SeedWord)
      BY <2>3 DEF Word
    <3>3. Values(o, words) = {seed_transformer(words, o = "web-seed")}
      <4>1. CASE o = "http-seed"
        <5>1. Values(o, words) = {seed_transformer(words, FALSE)}
          BY <4>1, ValueArms
        <5>2. (o = "web-seed") = FALSE
          BY <4>1
        <5> QED
          BY ONLY <5>1, <5>2
      <4>2. CASE o = "web-seed"
        <5>1. Values(o, words) = {seed_transformer(words, TRUE)}
          BY <4>2, ValueArms
        <5>2. (o = "web-seed") = TRUE
          BY <4>2
        <5> QED
          BY ONLY <5>1, <5>2
      <4> QED
        BY <2>3, <4>1, <4>2
    <3>4. seed_transformer(words, o = "web-seed") =
            IF \A y \in Range(words) : y.scheme \in SeedSchemes(o) THEN <<words>> ELSE Thrown
      BY ONLY <2>3, <3>2, SeedsKept
    <3>5. /\ OnlyOnCommandLine(a) <=> ~\A y \in Range(words) : y.scheme \in SeedSchemes(o)
          /\ ~ReadDifferently(a)
      BY <2>3 DEF OnlyOnCommandLine, ReadDifferently
    <3> HIDE DEF v, words
    <3> QED
      BY ONLY <2>1, <3>1, <3>3, <3>4, <3>5 DEF Outcome, v
  <2>4. CASE command = "edit" /\ o = "output"
    <3>1. <<x>> = OneOf(EditDestination, words)
      BY <2>4 DEF ArgumentValues
    <3>2. Len(words) = 1 /\ <<x>> = EditDestination(w)
      BY <3>1 DEF OneOf, Thrown
    <3>3. Values(o, words) = {OneOf(Destination, words)}
      BY <2>4, ValueArms
    <3>4. OneOf(Destination, words) = Destination(w)
      BY <3>2 DEF OneOf
    <3>5. ~OnlyOnCommandLine(a) /\ (ReadDifferently(a) <=> w.dash)
      BY <2>4 DEF OnlyOnCommandLine, ReadDifferently
    <3> HIDE DEF v, w, words
    <3>6. CASE w.dash
      <4>1. Destination(w) = <<"dash">>
        BY ONLY <3>6 DEF Destination, path_transformer
      <4>2. x # "dash"
        BY ONLY <3>2 DEF EditDestination
      <4> QED
        BY ONLY <2>1, <3>3, <3>4, <3>5, <3>6, <4>1, <4>2 DEF Outcome, v
    <3>7. CASE ~w.dash
      <4>1. EditDestination(w) = Destination(w)
        BY ONLY <3>7 DEF EditDestination, Destination, path_transformer
      <4> QED
        BY ONLY <2>1, <3>2, <3>3, <3>4, <3>5, <3>7, <4>1 DEF Outcome, v
    <3> QED
      BY <3>6, <3>7
  <2>5. CASE command = "edit" /\ o = "creation-date"
    <3>1. <<x>> = OneOf(EditDate, words)
      BY <2>5 DEF ArgumentValues
    <3>2. Len(words) = 1 /\ <<x>> = EditDate(w)
      BY <3>1 DEF OneOf, Thrown
    <3>3. Values(o, words) = {OneOf(creation_date_transformer, words)}
      BY <2>5, ValueArms
    <3>4. OneOf(creation_date_transformer, words) = creation_date_transformer(w)
      BY <3>2 DEF OneOf
    <3>5. (OnlyOnCommandLine(a) <=> w.kind = "empty") /\ ~ReadDifferently(a)
      BY <2>5 DEF OnlyOnCommandLine, ReadDifferently
    <3> HIDE DEF v, w, words
    <3>6. CASE w.kind = "empty"
      <4>1. creation_date_transformer(w) = Thrown
        BY ONLY <3>6 DEF creation_date_transformer
      <4> QED
        BY ONLY <2>1, <3>3, <3>4, <3>5, <3>6, <4>1 DEF Outcome, v
    <3>7. CASE w.kind # "empty"
      <4>1. EditDate(w) = creation_date_transformer(w)
        BY ONLY <3>7 DEF EditDate
      <4> QED
        BY ONLY <2>1, <3>2, <3>3, <3>4, <3>5, <3>7, <4>1 DEF Outcome, v
    <3> QED
      BY <3>6, <3>7
  <2>6. CASE ~(command = "edit" /\ o \in {"http-seed", "web-seed", "output", "creation-date"})
    <3>1. <<x>> \in Values(o, words)
      BY <1>1, <2>6 DEF ArgumentValues
    <3>2. ~OnlyOnCommandLine(a) /\ ~ReadDifferently(a)
      BY <1>7, <2>6 DEF OnlyOnCommandLine, ReadDifferently
    <3> HIDE DEF v, words
    <3> QED
      BY ONLY <2>1, <2>2, <3>1, <3>2 DEF Outcome, v
  <2> QED
    BY <2>3, <2>4, <2>5, <2>6
<1> QED
  BY <1>5, <1>6, <1>7

\* Words the command line accepts have the same value in a profile, tiers included,
\* except for exactly those that OnlyOnCommandLine and ReadDifferently list
\* (parse_profiles calls most transformers of the command line).
THEOREM ProfilesAreLikeCommandLines == Spec => []ProfileAgainstCommandLine
<1>1. ASSUME ProfilesInv PROVE ProfileAgainstCommandLine
  <2> SUFFICES ASSUME NEW n \in Range(given.nodes), NEW a \in Range(given.args),
                      n.command = given.command, ~BadNode(n), SameWords(a, n)
               PROVE  /\ pc = "done" =>
                            /\ ~OnlyOnCommandLine(a)
                            /\ ~Undefined(a) =>
                                  (profiles[n.name].options[a.option] = cli[a.option]
                                      <=> ~ReadDifferently(a))
                      /\ pc = "bad_config" /\ Head(nodes) = n /\ ~Undefined(a) =>
                            \/ OnlyOnCommandLine(a)
                            \/ DOMAIN n.options # {a.option}
                            \/ n.name \in DOMAIN profiles
    BY DEF ProfileAgainstCommandLine
  <2> DEFINE as == given.args
             ns == given.nodes
             o == a.option
  <2>1. /\ given.command \in {"create", "edit"} /\ as \in Seq(Range(as)) /\ ns \in Seq(Range(ns))
        /\ o \in ArgumentOptions(given.command) /\ a.words \in Seq(Word(o))
    BY <1>1, InputFacts DEF ProfilesInv
  <2>2. ASSUME pc \in {"done", "bad_config"} PROVE Accepted(a)
    <3>1. args = <<>>
      BY <1>1, <2>2 DEF ProfilesInv, ArgumentsInv
    <3>2. PICK k \in 0 .. Len(as) : Left(as, k, args) /\ CliFrom(given.command, as, k, cli)
      BY <1>1 DEF ProfilesInv, ArgumentsInv
    <3>3. k = Len(as)
      BY <2>1, <3>1, <3>2, LeftEnd
    <3>4. DOMAIN as = 1 .. Len(as)
      BY <2>1, SequenceDomain
    <3>5. PICK i \in DOMAIN as : as[i] = a
      BY DEF Range
    <3> QED
      BY <3>2, <3>3, <3>4, <3>5 DEF CliFrom, Accepted
  <2>3. ASSUME Accepted(a), ~Undefined(a) PROVE Outcome(a, cli[o], NodeValues(o, n.options[o]))
    <3>1. <<cli[o]>> \in ArgumentValues(given.command, a)
      BY <1>1, <2>3, AcceptedValue
    <3> QED
      BY ONLY <2>1, <2>3, <3>1, ~BadNode(n), n.command = given.command, SameWords(a, n),
              NodeAgainstArgument
  <2>4. o \in DOMAIN n.options
    BY DEF SameWords
  <2>5. PICK k \in 0 .. Len(ns) : Left(ns, k, nodes) /\ Built(ns, k, profiles)
    BY <1>1 DEF ProfilesInv, NodesInv
  <2>6. CASE pc = "done"
    <3>1. nodes = <<>>
      BY <1>1, <2>6 DEF ProfilesInv, NodesInv
    <3>2. k = Len(ns)
      BY <2>1, <2>5, <3>1, LeftEnd
    <3>3. FromNode(profiles[n.name], n)
      BY <2>1, <2>5, <3>2, BuiltAll
    <3>4. <<profiles[n.name].options[o]>> \in NodeValues(o, n.options[o])
      BY <2>4, <3>3 DEF FromNode
    <3>5. OnlyOnCommandLine(a) => ~Undefined(a)
      BY DEF OnlyOnCommandLine, Undefined
    <3>6. ~Undefined(a) => Outcome(a, cli[o], NodeValues(o, n.options[o]))
      BY <2>2, <2>3, <2>6
    <3> DEFINE V == NodeValues(o, n.options[o])
               y == profiles[n.name].options[o]
               c == cli[o]
    <3>7. <<y>> \in V
      BY ONLY <3>4
    <3> HIDE DEF V, y, c
    <3>8. ~OnlyOnCommandLine(a) /\ (~Undefined(a) => (y = c <=> ~ReadDifferently(a)))
      BY ONLY <3>5, <3>6, <3>7 DEF Outcome, Thrown, V, c
    <3> QED
      BY ONLY <2>6, <3>8 DEF y, c
  <2>7. CASE pc = "bad_config"
    <3> SUFFICES ASSUME Head(nodes) = n, DOMAIN n.options = {o}, n.name \notin DOMAIN profiles,
                        ~Undefined(a)
                 PROVE  OnlyOnCommandLine(a)
      BY <2>7
    <3>1. Refused(n, profiles)
      BY <1>1, <2>7 DEF ProfilesInv, NodesInv
    <3>2. Thrown \in NodeValues(o, n.options[o])
      BY <3>1 DEF Refused
    <3> QED
      BY <2>2, <2>3, <2>7, <3>2 DEF Thrown, Outcome
  <2> QED
    BY <2>6, <2>7
<1> QED
  BY <1>1, ValuesInvariant, PTL
=============================================================================
