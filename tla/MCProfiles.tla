----------------------------- MODULE MCProfiles -----------------------------
(***************************************************************************)
(* Every option on the command line with words of every kind, the same     *)
(* words in a profile, and configurations of two profiles.  Sizes have 8   *)
(* bits: a kilo is 4, the least size 16, the greatest 64.                  *)
(***************************************************************************)
EXTENDS Profiles, TLC

MCUrls == {"a", "b"}
MCNames == {"p", "q"}

AnnounceWords == [url : MCUrls, open : BOOLEAN, close : BOOLEAN]

\* Every sequence of up to three words, and of four of one URL.
AnnounceLists ==
    BoundedSeq(AnnounceWords, 3) \union
        [1..4 -> {w \in AnnounceWords : w.url = "a"}]

SizeWords ==
    [kind : {"number"}, number : 0..20 \union {32, 48, 63, 64, 65, 80, 127, 128, 255, 256},
     unit : {"none", "k", "m", "other"}]
      \union [kind : {"auto", "other"}, number : {0}, unit : {"none"}]

DateWords ==
    [kind : {"posix", "empty", "other"}, time : {0, 1, 1500}, day : {0}, hour : {0}, minute : {0},
     zone : {"none"}, offset : {<<>>}]
      \union [kind : {"iso"}, time : {0}, day : {-1, 1, 2}, hour : {0, 18, 23, 25},
              minute : {0, 21, 59}, zone : {"Z", "none", "other"}, offset : {<<0, 0, 0, 0>>}]
      \union [kind : {"iso"}, time : {0}, day : {1, 2}, hour : {0, 18, 23, 25},
              minute : {0, 21, 59}, zone : {"+", "-"},
              offset : {<<0, 1, 0, 0>>, <<0, 0, 3, 0>>, <<1, 2, 4, 5>>, <<0, 1>>,
                        <<0, 1, 10, 0, 0>>}]

NodeWords == [host : {"h"}, colon : BOOLEAN, port : {-1, 0, MaxPort, MaxPort + 1}]
SeedWords == [scheme : {"http", "udp", "ftp", "other"}, rest : {"r"}]
SimilarWords == [kind : {"metafile", "hash", "other"}, protocol : {"v1", "v2", "hybrid"},
                 id : {"i"}]

Texts(strings) == [text : strings]

\* The words an option can have.
Words(o) ==
    CASE o = "announce"                        -> AnnounceLists
      [] o \in {"piece-size", "io-block-size"} -> [1..1 -> SizeWords] \union {<<>>}
      [] o = "creation-date"                   -> [1..1 -> DateWords]
      [] o = "private"                         ->
           BoundedSeq(Texts({"on", "off", "true", "0", "1", "OFF", "ON", "yes", "no", ""}), 2)
      [] o = "protocol"                        -> [1..1 -> ProtocolWord]
      [] o = "list-mode"                       -> [1..1 -> Texts({"a", "prepend", "r", "other"})]
      [] o \in {"output", "target"}            -> [1..1 -> PathWord]
      [] o = "threads"                         -> [1..1 -> Texts({"2", "other"})]
      [] o = "checksum"                        -> BoundedSeq(Texts({"md5", "sha1", "other"}), 2)
      [] o = "dht-node"                        -> BoundedSeq(NodeWords, 2)
      [] o \in {"http-seed", "web-seed"}       -> BoundedSeq(SeedWords, 2)
      [] o = "similar"                         -> BoundedSeq(SimilarWords, 2)
      [] o \in PlainLists                      -> BoundedSeq(Texts({"x", "y"}), 2)
      [] OTHER                                 -> BoundedSeq(Texts({"x", "y"}), 2)

Profile(name, command, k, form, words) ==
    [name |-> name, command |-> command, form |-> "map",
     options |-> k :> [form |-> form, words |-> words]]

\* The tiers of up to three URLs, as nodes of a profile.
Tier(urls) == [form  |-> IF Len(urls) = 1 THEN "scalar" ELSE "list",
               words |-> [i \in DOMAIN urls |-> [url |-> urls[i], open |-> FALSE, close |-> FALSE]]]

TierNodes == {[i \in DOMAIN t |-> Tier(t[i])] :
                t \in UNION {[1..n -> {<<"a">>, <<"a", "b">>, <<"b", "a", "a">>}] : n \in 1..2}}

Input(command, a, ns) == [command |-> command, args |-> a, nodes |-> ns]

Arg(o, w) == [option |-> o, words |-> w]

\* One option on the command line, of create or of edit.
CliInputs ==
    UNION {{Input("create", <<Arg(o, w)>>, <<>>) : w \in Words(o)} : o \in (CreateKeys \union {"target"}) \ Switches}
      \union UNION {{Input("edit", <<Arg(o, w)>>, <<>>) : w \in Words(o)} :
                      o \in (EditKeys \union {"target"}) \ (Switches \union {"announce"})}

\* The same words on the command line and in a profile.
BothInputs ==
    UNION {UNION {{Input(c, <<Arg(o, w)>>, <<Profile("p", c, o, Form(o), w)>>) :
                      w \in {x \in Words(o) : Len(x) = 1 \/ Form(o) = "list"}} :
              o \in Keys(c) \ (Switches \union {"announce"})} : c \in {"create", "edit"}}
      \union {Input(c, <<Arg("announce", Written(t))>>, <<Profile("p", c, "announce", "list", t)>>) :
                t \in TierNodes, c \in {"create", "edit"}}

T(string) == [text |-> string]

\* Two profiles, good and bad ones, with options in common and without.
Nodes ==
    {Profile("p", "create", "private", "scalar", <<T("on")>>),
     Profile("q", "edit", "comment", "scalar", <<T("x")>>),
     Profile("q", "create", "comment", "scalar", <<T("x")>>),
     Profile("q", "edit", "set-created-by", "scalar", <<T("off")>>),
     Profile("q", "edit", "collection", "list", <<T("x"), T("y")>>),
     Profile("q", "create", "list-mode", "scalar", <<T("a")>>),
     Profile("q", "edit", "comment", "list", <<T("x")>>),
     Profile("q", "create", "private", "scalar", <<T("maybe")>>),
     Profile("q", "create", "announce", "list", <<[form |-> "map", words |-> <<>>]>>),
     [name |-> "q", command |-> "show", form |-> "map", options |-> <<>>],
     [name |-> "q", command |-> "edit", form |-> "other", options |-> <<>>],
     [name |-> "q", command |-> "create", form |-> "map",
      options |-> "private" :> [form |-> "scalar", words |-> <<T("off")>>] @@
                  "comment" :> [form |-> "scalar", words |-> <<T("y")>>]]}

MCInputs == CliInputs \union BothInputs \union
              {Input("create", <<>>, ns) : ns \in UNION {[1..n -> Nodes] : n \in 0..2}}
=============================================================================
