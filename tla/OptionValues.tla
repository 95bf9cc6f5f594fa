---------------------------- MODULE OptionValues ----------------------------
(***************************************************************************)
(* The transformers that turn the words of an option into its value        *)
(* (src/argument_parsers.cpp).  The command line and the profiles of the   *)
(* configuration call the same ones.  A word is a record of what its       *)
(* transformer looks at; a value is a sequence of one element, empty if    *)
(* the transformer throws.                                                 *)
(***************************************************************************)
EXTENDS Integers, SequencesExt

CONSTANTS Urls,         \* announce URLs and names
          Kilo,         \* 1024
          Least,        \* the least piece size, 16 KiB
          Most,         \* the greatest piece size the documentation allows, 64 MiB
          Bits,         \* the width of std::size_t, 64
          MaxPort       \* the greatest port number

ASSUME SizeAssumption ==
    /\ Kilo \in Nat /\ Least \in Nat /\ Most \in Nat /\ Bits \in Nat /\ MaxPort \in Nat
    /\ Kilo < Least /\ Least =< Most /\ Most < 2^Bits

Thrown == <<>>

\* Every value, or none if a word has no value.
ForEach(parse(_), words) ==
    IF \E i \in DOMAIN words : parse(words[i]) = Thrown
    THEN Thrown
    ELSE <<[i \in DOMAIN words |-> parse(words[i])[1]]>>

\* The transformers of options that take one value.
OneOf(parse(_), words) ==
    IF Len(words) = 1 THEN parse(words[1]) ELSE Thrown

-----------------------------------------------------------------------------
(* Announces: a word may start with an opening bracket or end with a closing *)
(* one.                                                                      *)

AnnounceWord == [url : Urls, open : BOOLEAN, close : BOOLEAN]

Bare(w) == [w EXCEPT !.open = FALSE, !.close = FALSE]

AddToLast(tiers, w) == [tiers EXCEPT ![Len(tiers)] = Append(@, w)]

NoTiers == [tiers |-> <<>>, inTier |-> FALSE, bad |-> FALSE]

\* DEVIATION: the closing bracket does not end the tier.
TakeAnnounceOpen(s, w) ==
    CASE w.open ->
           [tiers  |-> Append(s.tiers, <<[w EXCEPT !.open = FALSE]>>),
            inTier |-> TRUE,
            bad    |-> s.bad \/ s.inTier]
      [] ~w.open /\ s.inTier ->
           [s EXCEPT !.tiers = AddToLast(@, Bare(w))]
      [] ~w.open /\ ~s.inTier ->
           [s EXCEPT !.tiers = Append(@, <<Bare(w)>>), !.bad = @ \/ w.close]

\* One turn of the loop.  A nested tier or an unmatched bracket is bad.  The last
\* tier may stay open.
TakeAnnounce(s, w) ==
    CASE w.open ->
           [tiers  |-> Append(s.tiers, <<[w EXCEPT !.open = FALSE]>>),
            inTier |-> TRUE,
            bad    |-> s.bad \/ s.inTier]
      [] ~w.open /\ s.inTier ->
           [s EXCEPT !.tiers = AddToLast(@, Bare(w)), !.inTier = ~w.close]
      [] ~w.open /\ ~s.inTier ->
           [s EXCEPT !.tiers = Append(@, <<Bare(w)>>), !.bad = @ \/ w.close]

announce_transformer(words) ==
    LET end == FoldLeft(TakeAnnounce, NoTiers, words)
    IN  IF end.bad THEN Thrown ELSE <<end.tiers>>

\* The announces of a profile: each element a URL, a list of URLs, or something
\* else.  Brackets have no meaning there.
announce_nodes(nodes) ==
    ForEach(LAMBDA n : IF n.form \in {"scalar", "list"} THEN <<n.words>> ELSE Thrown, nodes)

-----------------------------------------------------------------------------
(* Sizes: "auto", or a number and a unit, in any case and with spaces. *)

SizeWord == [kind : {"auto", "number", "other"}, number : Nat, unit : {"none", "k", "m", "other"}]

AutoSize == 0   \* std::nullopt

Sizes == 0..(2^Bits - 1)

\* std::has_single_bit
SingleBit(n) == \E i \in 0..(Bits - 1) : n = 2^i

\* DEVIATION: the least size itself is taken for an exponent.
ScaledUpToLeast(w) ==
    CASE w.unit = "k" -> {(w.number * Kilo) % 2^Bits}
      [] w.unit = "m" -> {(w.number * Kilo * Kilo) % 2^Bits}
      [] w.unit = "none" /\ w.number =< Least /\ w.number < Bits -> {2^w.number}
      [] w.unit = "none" /\ w.number =< Least /\ w.number >= Bits -> Sizes
      [] OTHER -> {w.number}

\* The products wrap.  A power of two too large for a std::size_t is converted
\* from a floating-point number, which may give any size.
Scaled(w) ==
    CASE w.unit = "k" -> {(w.number * Kilo) % 2^Bits}
      [] w.unit = "m" -> {(w.number * Kilo * Kilo) % 2^Bits}
      [] w.unit = "none" /\ w.number < Least /\ w.number < Bits -> {2^w.number}
      [] w.unit = "none" /\ w.number < Least /\ w.number >= Bits -> Sizes
      [] OTHER -> {w.number}

\* The values a word may have.
parse_commandline_size(w) ==
    CASE w.kind = "auto" -> {<<AutoSize>>}
      [] w.kind = "number" /\ w.number \in Sizes ->
           {IF SingleBit(v) /\ v >= Least THEN <<v>> ELSE Thrown : v \in Scaled(w)}
      [] OTHER -> {Thrown}

-----------------------------------------------------------------------------
(* Dates, in minutes: POSIX time, or a day, an hour and a minute with a zone. *)

\* `day` counts from the epoch, or is not a date; `offset` are the characters
\* after the sign, each as the difference to '0', which is 10 for a colon.
DateWord == [kind : {"posix", "iso", "empty", "other"}, time : Nat,
             day : Nat \union {-1}, hour : 0..99, minute : 0..99,
             zone : {"none", "Z", "+", "-", "other"}, offset : Seq(0..10)]

\* DEVIATION: the hours of the offset have one digit.
parse_offset_short(d) == 60 * d[1] + 10 * d[2] + d[3]

parse_offset(d) == 600 * d[1] + 60 * d[2] + 10 * d[3] + d[4]

\* The ranges of hour and minute are not checked.
parse_utc_datetime(w) ==
    LET local == 1440 * w.day + 60 * w.hour + w.minute
    IN  CASE w.day >= 0 /\ w.zone = "Z" -> <<local>>
          [] w.day >= 0 /\ w.zone = "+" /\ Len(w.offset) >= 4 -> <<local - parse_offset(w.offset)>>
          [] w.day >= 0 /\ w.zone = "-" /\ Len(w.offset) >= 4 -> <<local + parse_offset(w.offset)>>
          [] OTHER -> Thrown

creation_date_transformer(w) ==
    CASE w.kind = "posix" -> <<w.time>>
      [] w.kind = "iso"   -> parse_utc_datetime(w)
      [] OTHER            -> Thrown

-----------------------------------------------------------------------------
(* Flags, protocols, modes and algorithms. *)

\* A word that is looked at as a whole.
TextWord == [text : STRING]

\* std::nullopt for any other word.  The case of a word matters although the code
\* makes a copy in lower case.
parse_commandline_bool(w) ==
    CASE w.text \in {"on", "true", "1"}   -> "on"
      [] w.text \in {"off", "false", "0"} -> "off"
      [] OTHER                            -> "default"

parse_explicit_flag(w) ==
    IF parse_commandline_bool(w) = "off" THEN <<"off">> ELSE <<"on">>

\* What follows a 'v' only has to start with the right digit.
ProtocolWord == [v : {"", "v"}, next : {"1", "2", "hybrid", "other"}]

protocol_transformer(w, allow_hybrid) ==
    CASE w = [v |-> "", next |-> "hybrid"] /\ allow_hybrid -> <<"hybrid">>
      [] w.next = "1" -> <<"v1">>
      [] w.next = "2" -> <<"v2">>
      [] OTHER -> Thrown

parse_list_edit_mode(w) ==
    CASE w.text \in {"a", "append"}  -> <<"append">>
      [] w.text \in {"p", "prepend"} -> <<"prepend">>
      [] w.text \in {"r", "replace"} -> <<"replace">>
      [] OTHER                       -> Thrown

\* A set: an algorithm named twice is used once.
checksum_transformer(words) ==
    LET names == {w.text : w \in Range(words)}
    IN  IF "other" \in names THEN Thrown ELSE <<names>>

-----------------------------------------------------------------------------
(* Nodes, seeds and similar torrents. *)

\* A port that does not start with a digit, or is missing, is -1.  Without a colon
\* the host has no end, and making the node throws.
NodeWord == [host : STRING, colon : BOOLEAN, port : Nat \union {-1}]

dht_node_transformer(words) ==
    ForEach(LAMBDA w : IF w.colon /\ w.port \in 0..MaxPort THEN <<<<w.host, w.port>>>> ELSE Thrown,
            words)

SeedWord == [scheme : {"http", "https", "udp", "utp", "ftp", "ftps", "other"}, rest : STRING]

seed_transformer(words, allow_ftp) ==
    ForEach(LAMBDA w :
              IF w.scheme \in {"http", "https", "udp", "utp"}
                    \union (IF allow_ftp THEN {"ftp", "ftps"} ELSE {})
              THEN <<w>> ELSE Thrown,
            words)

\* A metafile of some protocol, an info hash in hexadecimal digits, or neither.
SimilarWord == [kind : {"metafile", "hash", "other"}, protocol : {"v1", "v2", "hybrid"},
                id : STRING]

InfoHashes(w) ==
    IF w.protocol = "hybrid" THEN <<<<"v1", w.id>>, <<"v2", w.id>>>>
                             ELSE <<<<w.protocol, w.id>>>>

similar_transformer(words) ==
    IF \E w \in Range(words) : w.kind = "other" \/ (w.kind = "hash" /\ w.protocol = "hybrid")
    THEN Thrown
    ELSE <<FlattenSeq([i \in DOMAIN words |-> InfoHashes(words[i])])>>

-----------------------------------------------------------------------------
(* Paths, as the file system knows them. *)

PathWord == [dash : BOOLEAN, exists : BOOLEAN, directory : BOOLEAN, slash : BOOLEAN]

\* A trailing separator makes the destination a directory.
path_transformer(w, check_exists) ==
    CASE w.dash -> <<"dash">>
      [] ~w.dash /\ check_exists /\ ~w.exists -> Thrown
      [] ~w.dash /\ (w.directory \/ (~check_exists /\ w.slash)) -> <<"directory">>
      [] OTHER -> <<"file">>

metafile_target_transformer(w, allow_stdin) ==
    CASE w.dash /\ allow_stdin -> <<"dash">>
      [] ~(w.dash /\ allow_stdin) /\ w.exists /\ ~w.directory -> <<"file">>
      [] OTHER -> Thrown
=============================================================================
