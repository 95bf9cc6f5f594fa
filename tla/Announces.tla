------------------------------ MODULE Announces -----------------------------
(***************************************************************************)
(* The announces of a metafile: src/common.cpp (set_trackers,              *)
(* set_tracker_group) and the look-ups they make in the tracker database   *)
(* and in the configuration.                                               *)
(*                                                                         *)
(* The trackers of a metafile are a sequence of tiers; clients try the     *)
(* trackers of one tier in any order (BEP 12), so a tier is a set.  What a *)
(* user passes as an announce is a name of the database or a URL.          *)
(***************************************************************************)
EXTENDS Naturals, Sequences, Functions

CONSTANTS Names,        \* the trackers of the database, given by name or abbreviation
          PrivateNames, \* those that are private
          Incomplete,   \* those whose parameters the configuration lacks
          Urls,
          UrlOf,        \* UrlOf[n]: the announce URL of n, parameters filled in
          NameOf,       \* NameOf[u]: the tracker whose pattern u matches, or Nobody
          Nobody,
          Groups,       \* the announce groups the configuration defines
          Announces     \* Announces[g]: the announces of g

ASSUME DatabaseAssumption ==
    /\ PrivateNames \subseteq Names
    /\ Incomplete \subseteq Names
    /\ Names \cap Urls = {}
    /\ UrlOf \in [Names -> Urls]
    /\ Nobody \notin Names
    /\ NameOf \in [Urls -> Names \union {Nobody}]
    /\ \A n \in Names : NameOf[UrlOf[n]] = n

ASSUME GroupAssumption == Announces \in [Groups -> Seq(Names \union Urls)]

Announce == Names \union Urls

Tiers == Seq(SUBSET Announce)

All(tiers) == UNION Range(tiers)

\* Every tracker of a group gets a tier of its own.
Singletons(list) == [i \in DOMAIN list |-> {list[i]}]

Resolve(a) == IF a \in Names THEN UrlOf[a] ELSE a

ResolveAll(tiers) == [i \in DOMAIN tiers |-> {Resolve(a) : a \in tiers[i]}]

\* substitute_parameters throws: the configuration lacks a parameter.
Unusable(tiers) == All(tiers) \cap Incomplete # {}

-----------------------------------------------------------------------------
(* add_tracker(url) opens a tier at the end, add_tracker(url, i) puts the URL *)
(* in tier i, where it is once.                                              *)

TierOf(tiers, i) == IF i \in DOMAIN tiers THEN tiers[i] ELSE {}

Longer(s, t) == IF Len(s) < Len(t) THEN Len(t) ELSE Len(s)

\* All trackers of each tier of new are added to the tier of that index.
AddTiers(tiers, new) ==
    [i \in 1 .. Longer(tiers, new) |-> TierOf(tiers, i) \union TierOf(new, i)]

-----------------------------------------------------------------------------
(* set_trackers(m, announce_list, tracker_db, config) *)

\* One tier of one tracker.
Single(list) == Len(list) = 1 /\ \E a \in Announce : list[1] = {a}

Only(list) == CHOOSE a \in Announce : list[1] = {a}

\* The database entry of an announce, by name or by URL.
Entry(a) == IF a \in Names THEN a ELSE NameOf[a]

Flag(n) == IF n \in PrivateNames THEN "on" ELSE "off"

\* A single tracker brings the private flag and, if private, the source tag.
SetSingle(m, a) ==
    IF Entry(a) = Nobody
    THEN [m EXCEPT !.trackers = AddTiers(@, <<{a}>>)]
    ELSE [m EXCEPT !.trackers = Append(@, {Resolve(a)}),
                   !.private = Flag(Entry(a)),
                   !.source = IF Entry(a) \in PrivateNames THEN Entry(a) ELSE @]

\* Of several trackers only those given by name can make the metafile private.
SetSeveral(m, list) ==
    [m EXCEPT !.trackers = AddTiers(@, ResolveAll(list)),
              !.private = IF All(list) \cap PrivateNames # {} THEN "on" ELSE @]

\* Without a database or a configuration every announce is taken as it is.
SetPlain(m, list) == [m EXCEPT !.trackers = AddTiers(@, list)]

SetTrackers(m, list, known) ==
    IF ~known THEN SetPlain(m, list)
    ELSE IF Single(list) THEN SetSingle(m, Only(list))
    ELSE SetSeveral(m, list)

-----------------------------------------------------------------------------
(* set_tracker_group: one group of its loop, and what follows the loop. *)

\* DEVIATION: all trackers of the group share a tier.
AddGroupOneTier(m, g) ==
    [m EXCEPT !.trackers = Append(@, {Resolve(a) : a \in Range(Announces[g])})]

AddGroup(m, g) ==
    [m EXCEPT !.trackers = @ \o ResolveAll(Singletons(Announces[g]))]

PrivateIn(g) == Range(Announces[g]) \cap PrivateNames

SetFlag(m, flags) == [m EXCEPT !.private = IF flags # {} THEN "on" ELSE @]

=============================================================================
