----------------------------- MODULE MCEditApp ------------------------------
(***************************************************************************)
(* A database with a public tracker, a private one and one that lacks its  *)
(* parameters; groups of one and of two trackers, the first private; every *)
(* list mode with every combination of announces and groups, and profiles  *)
(* that set what the command line sets or leaves out.                      *)
(***************************************************************************)
EXTENDS EditApp, TLC

CONSTANTS pub, prv, inc, nobody,    \* trackers
          u, v, upub, uprv, uinc,   \* URLs
          g1, g2, g3, gx            \* groups; gx is not defined

MCNames == {pub, prv, inc}
MCPrivateNames == {prv, inc}
MCIncomplete == {inc}
MCUrls == {u, v, upub, uprv, uinc}
MCUrlOf == pub :> upub @@ prv :> uprv @@ inc :> uinc
MCNameOf == [x \in MCUrls |->
    CASE x = upub -> pub [] x = uprv -> prv [] x = uinc -> inc [] OTHER -> nobody]
MCGroups == {g1, g2, g3}
MCAnnounces == g1 :> <<prv>> @@ g2 :> <<u, pub>> @@ g3 :> <<inc>>
MCGroupNames == MCGroups \union {gx}
MCItems == {"old", "new"}
MCTexts == {"old", "new", "profile", "stamp"}

MCFile(trackers, private) ==
    [trackers |-> trackers, private |-> private, source |-> nobody,
     seeds |-> [f \in SeedFields |-> <<"old">>],
     related |-> [f \in RelatedFields |-> {}],
     text |-> [f \in TextFields |-> "old"],
     cross |-> "off", other |-> "kept"]

MCTargets == {MCFile(<<>>, "off"), MCFile(<<{u}, {v}>>, "off"),
              MCFile(<<{uprv}>>, "on"), MCFile(<<{upub, v}>>, "on")}

Plain ==
    [has |-> {}, announces |-> <<>>, groups |-> <<>>, mode |-> "replace",
     seeds |-> [f \in SeedFields |-> <<"new">>],
     related |-> [f \in RelatedFields |-> {"new"}],
     text |-> [f \in TextFields |-> "new"],
     source |-> "new", private |-> "off"]

With(o, names) == [o EXCEPT !.has = @ \union names]

AnnounceChoices(o) ==
    {o} \union {With([o EXCEPT !.announces = a], {"announce"}) :
                  a \in {<<>>, <<{pub}>>, <<{prv}>>, <<{v}>>, <<{v}, {prv, u}>>, <<{inc}>>}}

GroupChoices(o) ==
    {o} \union {With([o EXCEPT !.groups = g], {"announce-group"}) :
                  g \in {<<>>, <<g1>>, <<g2, g1>>, <<g1, gx>>, <<g3>>}}

ModeChoices(o) ==
    {o} \union {With([o EXCEPT !.mode = x], {"list-mode"}) : x \in {"append", "prepend"}}

TrackerChoices == UNION {UNION {ModeChoices(g) : g \in GroupChoices(a)} :
                            a \in AnnounceChoices(Plain)}

OtherChoices(o) ==
    {o, With(o, {"private", "source", "comment", "no-creation-date", "web-seed",
                 "collection", "output"})}

Cli(o) == [cli |-> o, profile |-> "none", prof |-> Plain]

\* Profiles that name announces, a mode, fields or the standard output.
MCProfiles ==
    {With([Plain EXCEPT !.announces = <<{pub}>>, !.private = "on", !.source = "profile",
                        !.text = [f \in TextFields |-> "profile"], !.mode = "append"],
          {"announce", "private", "source", "created-by", "name", "list-mode"}),
     With([Plain EXCEPT !.groups = <<g1>>], {"announce-group", "no-created-by", "output", "stdout"})}

MCCommands ==
    {Cli(o) : o \in UNION {OtherChoices(t) : t \in TrackerChoices}}
      \union {[cli |-> o, profile |-> p, prof |-> pr] :
                 o \in UNION {OtherChoices(a) : a \in AnnounceChoices(Plain)},
                 p \in {"edit"}, pr \in MCProfiles}
      \union {[cli |-> Plain, profile |-> p, prof |-> Plain] : p \in {"unknown", "create"}}

\* Announces and groups without a profile.
MCPlainCommands == {Cli(o) : o \in TrackerChoices}
=============================================================================
