---------------------------- MODULE MCCreateApp -----------------------------
(***************************************************************************)
(* A database with a public tracker, a private one and one that lacks its  *)
(* parameters; a URL of the private tracker that is not the one made from  *)
(* the configuration; announces and groups on the command line and in a    *)
(* profile; a profile that leaves out the date the command line gives;     *)
(* every kind of destination.                                              *)
(***************************************************************************)
EXTENDS CreateApp, TLC

CONSTANTS pub, prv, inc, nobody,    \* trackers
          u, upub, uprv, uinc, own, \* URLs
          g1, g2, gx                \* groups; gx is not defined

MCNames == {pub, prv, inc}
MCPrivateNames == {prv, inc}
MCIncomplete == {inc}
MCUrls == {u, upub, uprv, uinc, own}
MCUrlOf == pub :> upub @@ prv :> uprv @@ inc :> uinc
MCNameOf == [x \in MCUrls |->
    CASE x = upub -> pub [] x \in {uprv, own} -> prv [] x = uinc -> inc [] OTHER -> nobody]
MCGroups == {g1, g2}
MCAnnounces == g1 :> <<prv>> @@ g2 :> <<u, pub>>
MCGroupNames == MCGroups \union {gx}
MCItems == {"item", "other"}
MCTexts == {"given", "text", "profile", "stamp", "target"}
MCSizes == {1, 2}

Plain ==
    [has |-> {}, announces |-> <<>>, groups |-> <<>>,
     lists |-> [f \in ListFields |-> <<>>],
     text |-> [f \in TextFields |-> "text"], source |-> "text", private |-> "off",
     output |-> "file", protocol |-> "v1", piece |-> 2, block |-> 1]

With(o, names) == [o EXCEPT !.has = @ \union names]

AnnounceChoices(o) ==
    {o} \union {With([o EXCEPT !.announces = a], {"announce"}) :
                  a \in {<<{pub}>>, <<{prv}>>, <<{own}>>, <<{pub}, {u, prv}>>, <<{inc}>>}}

GroupChoices(o) ==
    {o} \union {With([o EXCEPT !.groups = g], {"announce-group"}) :
                  g \in {<<g1>>, <<g2, g1>>, <<gx>>}}

OutputChoices(o) ==
    {o} \union {With([o EXCEPT !.output = p], {"output"}) : p \in {"file", "dir", "stdout"}}

OtherChoices(o) ==
    {o, With([o EXCEPT !.protocol = "v2", !.lists["web-seed"] = <<"item">>],
             {"private", "source", "name", "protocol", "web-seed", "no-created-by"}),
     With(o, {"piece-size", "io-block-size", "comment", "no-cross-seed", "creation-date"})}

Clis == UNION {UNION {UNION {OtherChoices(p) : p \in OutputChoices(g)} :
                  g \in GroupChoices(a)} : a \in AnnounceChoices(Plain)}

\* Profiles that name announces, fields or the standard output.
MCProfiles ==
    {With([Plain EXCEPT !.announces = <<{pub}>>, !.private = "on", !.source = "profile",
                        !.text = [f \in TextFields |-> "profile"], !.protocol = "hybrid",
                        !.lists["web-seed"] = <<"other">>],
          {"announce", "private", "source", "created-by", "name", "protocol", "web-seed"}),
     With([Plain EXCEPT !.groups = <<g1>>, !.output = "stdout"],
          {"announce-group", "no-creation-date", "output"})}

MCCommands ==
    [target : {"file", "directory"}, cli : Clis, profile : {"none"}, prof : {Plain}]
      \union [target : {"file", "directory"}, cli : Clis, profile : {"create"},
              prof : MCProfiles]
      \union [target : {"file"}, cli : {Plain}, profile : {"unknown", "edit"}, prof : {Plain}]
=============================================================================
