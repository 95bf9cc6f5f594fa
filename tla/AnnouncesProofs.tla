--------------------------- MODULE AnnouncesProofs --------------------------
(***************************************************************************)
(* What set_trackers and set_tracker_group (src/common.cpp) do to the      *)
(* trackers, the private flag and the source tag of a metafile, for every  *)
(* tracker database and configuration.  create and edit both call them:    *)
(* CreateAppProofs and EditAppProofs rest on these facts.                  *)
(***************************************************************************)
EXTENDS Announces, TLAPS

\* What a list of tiers stands for, with a database and a configuration or without.
Read(list, known) == IF known THEN ResolveAll(list) ELSE list

-----------------------------------------------------------------------------
(* Lists of tiers. *)

\* The trackers of a list are those of its tiers.
LEMMA AllMember ==
    ASSUME NEW t \in Tiers, NEW a
    PROVE  a \in All(t) <=> \E i \in DOMAIN t : a \in t[i]
BY DEF All, Range, Tiers

\* What a pair of lists of tiers is added up to is a list of tiers, tier by tier.
LEMMA AddTiersType ==
    ASSUME NEW s \in Tiers, NEW t \in Tiers
    PROVE  /\ AddTiers(s, t) \in Tiers
           /\ DOMAIN AddTiers(s, t) = DOMAIN s \union DOMAIN t
           /\ \A i \in DOMAIN s \union DOMAIN t :
                 AddTiers(s, t)[i] = TierOf(s, i) \union TierOf(t, i)
<1> DEFINE n == Longer(s, t)
<1>1. n \in Nat /\ 1 .. n = DOMAIN s \union DOMAIN t
  BY DEF Longer, Tiers
<1>2. \A i \in 1 .. n : TierOf(s, i) \union TierOf(t, i) \in SUBSET Announce
  BY DEF TierOf, Tiers
<1> QED
  BY <1>1, <1>2 DEF AddTiers, Tiers

\* Added to no tiers, a list of tiers is itself.
LEMMA AddTiersToNone ==
    ASSUME NEW t \in Tiers
    PROVE  AddTiers(<<>>, t) = t
<1>1. <<>> \in Tiers /\ DOMAIN <<>> = {}
  BY DEF Tiers
<1>2. /\ AddTiers(<<>>, t) \in Tiers
      /\ DOMAIN AddTiers(<<>>, t) = DOMAIN t
      /\ \A i \in DOMAIN t : AddTiers(<<>>, t)[i] = TierOf(<<>>, i) \union TierOf(t, i)
  BY <1>1, AddTiersType
<1>3. \A i \in DOMAIN t : AddTiers(<<>>, t)[i] = t[i]
  BY <1>1, <1>2 DEF TierOf
<1> QED
  BY <1>2, <1>3 DEF Tiers

\* The trackers of lists put together are those of both.
LEMMA AllOfLists ==
    ASSUME NEW s \in Tiers, NEW t \in Tiers
    PROVE  /\ All(AddTiers(s, t)) = All(s) \union All(t)
           /\ s \o t \in Tiers /\ All(s \o t) = All(s) \union All(t)
<1>1. \A a : a \in All(AddTiers(s, t)) <=> a \in All(s) \union All(t)
  <2> TAKE a
  <2>1. a \in All(AddTiers(s, t))
          <=> \E i \in DOMAIN s \union DOMAIN t : a \in TierOf(s, i) \union TierOf(t, i)
    <3>1. AddTiers(s, t) \in Tiers
      BY AddTiersType
    <3>2. a \in All(AddTiers(s, t)) <=> \E i \in DOMAIN AddTiers(s, t) : a \in AddTiers(s, t)[i]
      BY <3>1, AllMember
    <3>3. /\ DOMAIN AddTiers(s, t) = DOMAIN s \union DOMAIN t
          /\ \A i \in DOMAIN s \union DOMAIN t :
                AddTiers(s, t)[i] = TierOf(s, i) \union TierOf(t, i)
      BY AddTiersType
    <3> QED
      BY <3>2, <3>3
  <2> QED
    BY <2>1, AllMember DEF TierOf
<1>2. s \o t \in Tiers
  BY DEF Tiers
<1>3. \A a : a \in All(s \o t) <=> a \in All(s) \union All(t)
  <2> TAKE a
  <2>1. ASSUME NEW i \in DOMAIN s, a \in s[i] PROVE a \in All(s \o t)
    <3>1. i \in DOMAIN (s \o t) /\ (s \o t)[i] = s[i]
      BY <2>1 DEF Tiers
    <3> QED
      BY <1>2, <2>1, <3>1, AllMember
  <2>2. ASSUME NEW i \in DOMAIN t, a \in t[i] PROVE a \in All(s \o t)
    <3>1. i + Len(s) \in DOMAIN (s \o t) /\ (s \o t)[i + Len(s)] = t[i]
      BY <2>2 DEF Tiers
    <3> QED
      BY <1>2, <2>2, <3>1, AllMember
  <2>3. ASSUME NEW i \in DOMAIN (s \o t), a \in (s \o t)[i] PROVE a \in All(s) \union All(t)
    <3>1. \/ i \in DOMAIN s /\ (s \o t)[i] = s[i]
          \/ i - Len(s) \in DOMAIN t /\ (s \o t)[i] = t[i - Len(s)]
      BY <2>3 DEF Tiers
    <3> QED
      BY <2>3, <3>1, AllMember
  <2> QED
    BY <1>2, <2>1, <2>2, <2>3, AllMember
<1> QED
  BY <1>1, <1>2, <1>3

\* A tier at the end adds its trackers.
LEMMA AllOfAppend ==
    ASSUME NEW t \in Tiers, NEW x \in SUBSET Announce
    PROVE  /\ <<x>> \in Tiers /\ All(<<x>>) = x
           /\ Append(t, x) \in Tiers /\ All(Append(t, x)) = All(t) \union x
<1>1. <<x>> \in Tiers /\ DOMAIN <<x>> = {1} /\ <<x>>[1] = x
  BY DEF Tiers
<1>2. All(<<x>>) = x
  BY <1>1, AllMember
<1>3. Append(t, x) = t \o <<x>>
  BY DEF Tiers
<1> QED
  BY <1>1, <1>2, <1>3, AllOfLists

-----------------------------------------------------------------------------
(* Names and URLs. *)

\* A name stands for a URL, a URL for itself.
LEMMA ResolveUrls ==
    /\ \A a \in Announce : Resolve(a) \in Urls /\ Resolve(a) \in Announce
    /\ \A u \in Urls : Resolve(u) = u /\ u \in Announce
BY DatabaseAssumption DEF Resolve, Announce

\* Names become URLs, tier by tier; a list without names stays as it is.
LEMMA ResolveType ==
    ASSUME NEW t \in Tiers
    PROVE  /\ ResolveAll(t) \in Tiers /\ Len(ResolveAll(t)) = Len(t)
           /\ DOMAIN ResolveAll(t) = DOMAIN t
           /\ \A i \in DOMAIN t : ResolveAll(t)[i] = {Resolve(a) : a \in t[i]}
           /\ All(ResolveAll(t)) = {Resolve(a) : a \in All(t)}
           /\ All(ResolveAll(t)) \subseteq Urls
           /\ All(t) \subseteq Urls => ResolveAll(t) = t
<1>1. Len(t) \in Nat /\ DOMAIN t = 1 .. Len(t) /\ \A i \in DOMAIN t : t[i] \in SUBSET Announce
  BY DEF Tiers
<1>2. \A i \in DOMAIN t : {Resolve(a) : a \in t[i]} \in SUBSET Announce
  BY <1>1, ResolveUrls
<1>3. /\ ResolveAll(t) \in Tiers /\ Len(ResolveAll(t)) = Len(t)
      /\ DOMAIN ResolveAll(t) = DOMAIN t
      /\ \A i \in DOMAIN t : ResolveAll(t)[i] = {Resolve(a) : a \in t[i]}
  BY <1>1, <1>2 DEF ResolveAll, Tiers
<1>4. All(ResolveAll(t)) = {Resolve(a) : a \in All(t)}
  BY <1>3, AllMember
<1>5. All(t) \subseteq Announce
  BY <1>1, AllMember
<1>6. ASSUME All(t) \subseteq Urls PROVE ResolveAll(t) = t
  <2>1. \A i \in DOMAIN t : t[i] \subseteq Urls
    BY <1>6, AllMember
  <2>2. \A i \in DOMAIN t : {Resolve(a) : a \in t[i]} = t[i]
    BY <2>1, ResolveUrls
  <2> DEFINE r == ResolveAll(t)
  <2>3. r \in Tiers /\ Len(r) = Len(t) /\ \A i \in DOMAIN t : r[i] = t[i]
    BY <1>3, <2>2
  <2> HIDE DEF r
  <2>4. r = t
    BY <2>3 DEF Tiers
  <2> QED
    BY <2>4 DEF r
<1> QED
  BY <1>3, <1>4, <1>5, <1>6, ResolveUrls

\* Lists are read one after the other.
LEMMA ResolveLists ==
    ASSUME NEW s \in Tiers, NEW t \in Tiers
    PROVE  ResolveAll(s \o t) = ResolveAll(s) \o ResolveAll(t)
<1>1. s \o t \in Tiers
  BY DEF Tiers
<1> DEFINE p == ResolveAll(s)
           q == ResolveAll(t)
           r == ResolveAll(s \o t)
           Urled(x) == {Resolve(a) : a \in x}
<1>2. /\ p \in Seq(SUBSET Announce) /\ q \in Seq(SUBSET Announce)
      /\ Len(p) = Len(s) /\ Len(q) = Len(t)
  BY ResolveType DEF Tiers
<1>3. r \in Seq(SUBSET Announce) /\ Len(r) = Len(s) + Len(t)
  <2>1. r \in Tiers /\ Len(r) = Len(s \o t)
    BY <1>1, ResolveType
  <2>2. Len(s \o t) = Len(s) + Len(t)
    BY DEF Tiers
  <2> QED
    BY <2>1, <2>2 DEF Tiers
<1>4. \A i \in DOMAIN s : p[i] = Urled(s[i])
  BY ResolveType
<1>5. \A i \in DOMAIN t : q[i] = Urled(t[i])
  BY ResolveType
<1>6. \A i \in DOMAIN (s \o t) : r[i] = Urled((s \o t)[i])
  BY <1>1, ResolveType
<1> HIDE DEF p, q, r, Urled
<1>7. /\ Len(s) \in Nat /\ Len(t) \in Nat
      /\ DOMAIN s = 1 .. Len(s) /\ DOMAIN t = 1 .. Len(t)
      /\ DOMAIN (s \o t) = 1 .. (Len(s) + Len(t))
      /\ \A i \in 1 .. Len(s) : (s \o t)[i] = s[i]
      /\ \A i \in 1 .. (Len(s) + Len(t)) : i > Len(s) => (s \o t)[i] = t[i - Len(s)]
  BY DEF Tiers
<1>8. /\ \A i \in 1 .. Len(s) : (p \o q)[i] = p[i]
      /\ \A i \in 1 .. (Len(s) + Len(t)) : i > Len(s) => (p \o q)[i] = q[i - Len(s)]
  BY <1>2
<1>9. ASSUME NEW i \in 1 .. (Len(s) + Len(t)) PROVE r[i] = (p \o q)[i]
  <2>0. i \in DOMAIN (s \o t) /\ r[i] = Urled((s \o t)[i])
    BY <1>6, <1>7
  <2>1. CASE i <= Len(s)
    <3>1. i \in DOMAIN s /\ i \in 1 .. Len(s)
      BY <1>7, <2>1
    <3>2. (s \o t)[i] = s[i] /\ (p \o q)[i] = p[i] /\ p[i] = Urled(s[i])
      BY <1>4, <1>7, <1>8, <3>1
    <3> QED
      BY <2>0, <3>2
  <2>2. CASE i > Len(s)
    <3>1. i - Len(s) \in DOMAIN t
      BY <1>7, <2>2
    <3>2. /\ (s \o t)[i] = t[i - Len(s)] /\ (p \o q)[i] = q[i - Len(s)]
          /\ q[i - Len(s)] = Urled(t[i - Len(s)])
      BY <1>5, <1>7, <1>8, <2>2, <3>1
    <3> QED
      BY <2>0, <3>2
  <2>3. i <= Len(s) \/ i > Len(s)
    BY <1>7
  <2> QED
    BY <2>1, <2>2, <2>3
<1>10. p \o q \in Seq(SUBSET Announce) /\ Len(p \o q) = Len(s) + Len(t)
  BY <1>2
<1>11. r = p \o q
  BY <1>3, <1>9, <1>10
<1> QED
  BY <1>11 DEF p, q, r

\* The tiers of a group are tiers, one for each tracker.
LEMMA GroupType ==
    ASSUME NEW g \in Groups
    PROVE  /\ Singletons(Announces[g]) \in Tiers
           /\ Len(Singletons(Announces[g])) = Len(Announces[g])
           /\ DOMAIN Singletons(Announces[g]) = DOMAIN Announces[g]
           /\ \A i \in DOMAIN Announces[g] :
                 Singletons(Announces[g])[i] = {Announces[g][i]} /\ Announces[g][i] \in Announce
           /\ All(Singletons(Announces[g])) = Range(Announces[g])
<1> DEFINE l == Announces[g]
<1>1. l \in Seq(Announce)
  BY GroupAssumption DEF Announce
<1> HIDE DEF l
<1>2. Len(l) \in Nat /\ DOMAIN l = 1 .. Len(l)
      /\ \A i \in DOMAIN l : {l[i]} \in SUBSET Announce /\ l[i] \in Announce
  BY <1>1
<1> DEFINE s == [i \in DOMAIN l |-> {l[i]}]
<1>3. s \in Tiers /\ Len(s) = Len(l) /\ DOMAIN s = DOMAIN l /\ \A i \in DOMAIN l : s[i] = {l[i]}
  BY <1>2 DEF Tiers
<1> HIDE DEF s
<1>4. All(s) = Range(l)
  <2>1. \A a : a \in All(s) <=> \E i \in DOMAIN l : a = l[i]
    BY <1>3, AllMember
  <2> QED
    BY <2>1 DEF Range
<1>5. Singletons(Announces[g]) = s
  BY DEF Singletons, s, l
<1> QED
  BY <1>2, <1>3, <1>4, <1>5 DEF l

\* The database entry of an announce: only a URL may have none.
LEMMA EntryType ==
    \A a \in Announce :
        /\ Entry(a) \in Names \union {Nobody}
        /\ Entry(a) = Nobody => a \in Urls
        /\ a \in Names => Entry(a) = a
BY DatabaseAssumption DEF Entry, Announce

\* A single tracker in a single tier.
LEMMA SingleType ==
    ASSUME NEW t \in Tiers, Single(t)
    PROVE  Only(t) \in Announce /\ t = <<{Only(t)}>> /\ All(t) = {Only(t)}
<1>1. Only(t) \in Announce /\ t[1] = {Only(t)}
  BY DEF Single, Only
<1>2. Len(t) = 1
  BY DEF Single
<1>3. t = <<{Only(t)}>>
  BY <1>1, <1>2 DEF Tiers
<1> QED
  BY <1>1, <1>3, AllOfAppend

-----------------------------------------------------------------------------
(* set_trackers and set_tracker_group *)

\* The trackers set_trackers makes of those a metafile has.
NewTrackers(ts, list, known) ==
    IF known /\ Single(list) /\ Entry(Only(list)) # Nobody
    THEN Append(ts, {Resolve(Only(list))})
    ELSE AddTiers(ts, Read(list, known))

\* The private flag and the source tag it makes of those a metafile has.
NewFlag(p, list, known) ==
    IF known /\ Single(list)
    THEN IF Entry(Only(list)) = Nobody THEN p ELSE Flag(Entry(Only(list)))
    ELSE IF known /\ All(list) \cap PrivateNames # {} THEN "on" ELSE p

NewSource(s, list, known) ==
    IF known /\ Single(list) /\ Entry(Only(list)) \in PrivateNames
    THEN Entry(Only(list)) ELSE s

\* A metafile with other trackers, private flag and source tag.
Tagged(f, ts, p, s) ==
    [k \in DOMAIN f |-> CASE k = "trackers" -> ts [] k = "private" -> p
                          [] k = "source" -> s [] OTHER -> f[k]]

Retiered(f, ts) == [f EXCEPT !.trackers = ts]
Flagged(f, p)   == [f EXCEPT !.private = p]
Sourced(f, s)   == [f EXCEPT !.source = s]

\* A metafile, as far as set_trackers is concerned.
HasTags(f) ==
    /\ f = [k \in DOMAIN f |-> f[k]]
    /\ {"trackers", "private", "source"} \subseteq DOMAIN f
    /\ f.trackers \in Tiers

\* Tagged changes three fields and keeps the others.
LEMMA TaggedFields ==
    ASSUME NEW f, HasTags(f), NEW ts, NEW p, NEW s
    PROVE  /\ Tagged(f, ts, p, s).trackers = ts
           /\ Tagged(f, ts, p, s).private = p
           /\ Tagged(f, ts, p, s).source = s
           /\ DOMAIN Tagged(f, ts, p, s) = DOMAIN f
           /\ \A k \in DOMAIN f \ {"trackers", "private", "source"} :
                 Tagged(f, ts, p, s)[k] = f[k]
BY DEF Tagged, HasTags

\* The assignments to one or to several of the three fields.
LEMMA TaggedSame ==
    ASSUME NEW f, HasTags(f)
    PROVE  /\ \A ts : Retiered(f, ts) = Tagged(f, ts, f.private, f.source)
           /\ \A p : Flagged(f, p) = Tagged(f, f.trackers, p, f.source)
           /\ \A ts, p : Flagged(Retiered(f, ts), p) = Tagged(f, ts, p, f.source)
           /\ \A ts, p, s :
                 Sourced(Flagged(Retiered(f, ts), p), s) = Tagged(f, ts, p, s)
<1>1. ASSUME NEW ts PROVE Retiered(f, ts) = Tagged(f, ts, f.private, f.source)
  BY DEF Tagged, Retiered
<1>2. ASSUME NEW p PROVE Flagged(f, p) = Tagged(f, f.trackers, p, f.source)
  BY DEF Tagged, Flagged
<1>3. ASSUME NEW ts, NEW p PROVE Flagged(Retiered(f, ts), p) = Tagged(f, ts, p, f.source)
  BY DEF Tagged, Retiered, Flagged
<1>4. ASSUME NEW ts, NEW p, NEW s
      PROVE  Sourced(Flagged(Retiered(f, ts), p), s) = Tagged(f, ts, p, s)
  <2>1. Sourced(Tagged(f, ts, p, f.source), s) = Tagged(f, ts, p, s)
    BY DEF Tagged, Sourced
  <2> QED
    BY <1>3, <2>1
<1> QED
  BY <1>1, <1>2, <1>3, <1>4

\* What set_trackers does: nothing but new trackers, a new flag and a new tag.
LEMMA SetTrackersIs ==
    ASSUME NEW f, HasTags(f), NEW t \in Tiers, NEW known \in BOOLEAN
    PROVE  SetTrackers(f, t, known) =
              Tagged(f, NewTrackers(f.trackers, t, known), NewFlag(f.private, t, known),
                        NewSource(f.source, t, known))
<1>1. CASE ~known
  <2>1. SetTrackers(f, t, known) = Retiered(f, AddTiers(f.trackers, t))
    BY <1>1 DEF SetTrackers, SetPlain, Retiered
  <2>2. /\ NewTrackers(f.trackers, t, known) = AddTiers(f.trackers, t)
        /\ NewFlag(f.private, t, known) = f.private
        /\ NewSource(f.source, t, known) = f.source
    BY <1>1 DEF NewTrackers, NewFlag, NewSource, Read
  <2> QED
    BY <2>1, <2>2, TaggedSame
<1>2. CASE known /\ Single(t)
  <2> DEFINE a == Only(t)
  <2>1. a \in Announce /\ t = <<{a}>>
    BY <1>2, SingleType
  <2>2. SetTrackers(f, t, known) = SetSingle(f, a)
    BY <1>2 DEF SetTrackers
  <2>3. CASE Entry(a) = Nobody
    <3>1. SetSingle(f, a) = Retiered(f, AddTiers(f.trackers, <<{a}>>))
      BY <2>3 DEF SetSingle, Retiered
    <3>2. a \in Urls /\ All(t) = {a}
      BY <1>2, <2>1, <2>3, EntryType, SingleType
    <3>3. ResolveAll(t) = t
      BY <3>2, ResolveType
    <3>4. Nobody \notin PrivateNames
      BY DatabaseAssumption
    <3>5. /\ NewTrackers(f.trackers, t, known) = AddTiers(f.trackers, <<{a}>>)
          /\ NewFlag(f.private, t, known) = f.private
          /\ NewSource(f.source, t, known) = f.source
      BY <1>2, <2>1, <2>3, <3>3, <3>4 DEF NewTrackers, NewFlag, NewSource, Read
    <3> QED
      BY <2>2, <3>1, <3>5, TaggedSame
  <2>4. CASE Entry(a) # Nobody
    <3>1. SetSingle(f, a) =
             Sourced(Flagged(Retiered(f, Append(f.trackers, {Resolve(a)})), Flag(Entry(a))),
                     IF Entry(a) \in PrivateNames THEN Entry(a) ELSE f.source)
      BY <2>4 DEF SetSingle, Sourced, Flagged, Retiered
    <3>2. /\ NewTrackers(f.trackers, t, known) = Append(f.trackers, {Resolve(a)})
          /\ NewFlag(f.private, t, known) = Flag(Entry(a))
          /\ NewSource(f.source, t, known) =
                IF Entry(a) \in PrivateNames THEN Entry(a) ELSE f.source
      BY <1>2, <2>4 DEF NewTrackers, NewFlag, NewSource
    <3> QED
      BY <2>2, <3>1, <3>2, TaggedSame
  <2> QED
    BY <2>3, <2>4
<1>3. CASE known /\ ~Single(t)
  <2> DEFINE p == IF All(t) \cap PrivateNames # {} THEN "on" ELSE f.private
             ts == AddTiers(f.trackers, ResolveAll(t))
  <2>1. SetTrackers(f, t, known) = Flagged(Retiered(f, ts), p)
    BY <1>3 DEF SetTrackers, SetSeveral, Flagged, Retiered
  <2>2. /\ NewTrackers(f.trackers, t, known) = ts
        /\ NewFlag(f.private, t, known) = p
        /\ NewSource(f.source, t, known) = f.source
    BY <1>3 DEF NewTrackers, NewFlag, NewSource, Read
  <2> HIDE DEF p, ts
  <2> QED
    BY <2>1, <2>2, TaggedSame
<1> QED
  BY <1>1, <1>2, <1>3

\* What a list of announces stands for is a list of tiers.
LEMMA ReadType ==
    ASSUME NEW t \in Tiers, NEW known \in BOOLEAN
    PROVE  /\ Read(t, known) \in Tiers /\ DOMAIN Read(t, known) = DOMAIN t
           /\ known => All(Read(t, known)) \subseteq Urls
           /\ (known => All(t) \subseteq Urls) => Read(t, known) = t
BY ResolveType DEF Read

\* A single tracker stands for one URL.
LEMMA ReadSingle ==
    ASSUME NEW t \in Tiers, Single(t)
    PROVE  Read(t, TRUE) = <<{Resolve(Only(t))}>>
<1> DEFINE r == ResolveAll(t)
           x == {Resolve(Only(t))}
<1>1. DOMAIN t = {1} /\ t[1] = {Only(t)} /\ Len(t) = 1
  <2>1. t = <<{Only(t)}>>
    BY SingleType
  <2> QED
    BY <2>1
<1>2. r \in Tiers /\ r[1] = x /\ Len(r) = 1
  BY <1>1, ResolveType
<1> HIDE DEF r, x
<1>3. r = <<x>>
  BY <1>2 DEF Tiers
<1> QED
  BY <1>3 DEF Read, r, x

\* set_trackers adds the trackers the announces stand for and no others, keeps every
\* tracker in its tier, lets only trackers of the announces' tier of that index into
\* a tier, and gives a metafile without trackers the tiers of the announces.
LEMMA NewTrackersAre ==
    ASSUME NEW ts \in Tiers, NEW t \in Tiers, NEW known \in BOOLEAN
    PROVE  /\ NewTrackers(ts, t, known) \in Tiers
           /\ All(NewTrackers(ts, t, known)) = All(ts) \union All(Read(t, known))
           /\ \A i \in DOMAIN ts :
                 /\ i \in DOMAIN NewTrackers(ts, t, known)
                 /\ ts[i] \subseteq NewTrackers(ts, t, known)[i]
                 /\ NewTrackers(ts, t, known)[i] \subseteq
                       ts[i] \union TierOf(Read(t, known), i)
           /\ ts = <<>> => NewTrackers(ts, t, known) = Read(t, known)
<1> DEFINE r == Read(t, known)
           n == NewTrackers(ts, t, known)
<1>1. r \in Tiers
  BY ReadType
<1>2. CASE known /\ Single(t) /\ Entry(Only(t)) # Nobody
  <2> DEFINE x == {Resolve(Only(t))}
  <2>1. n = Append(ts, x) /\ x \in SUBSET Announce /\ t = <<{Only(t)}>>
    BY <1>2, SingleType, ResolveUrls DEF NewTrackers
  <2>2. r = <<x>>
    BY <1>2, ReadSingle
  <2> HIDE DEF r, n, x
  <2>3. n \in Tiers /\ All(n) = All(ts) \union All(r)
    BY <2>1, <2>2, AllOfAppend
  <2>4. \A i \in DOMAIN ts : i \in DOMAIN n /\ n[i] = ts[i]
    BY <2>1 DEF Tiers
  <2>5. ts = <<>> => n = r
    BY <2>1, <2>2
  <2> QED
    BY <2>3, <2>4, <2>5 DEF r, n
<1>3. CASE ~(known /\ Single(t) /\ Entry(Only(t)) # Nobody)
  <2>1. n = AddTiers(ts, r)
    BY <1>3 DEF NewTrackers
  <2> HIDE DEF r, n
  <2>2. /\ n \in Tiers /\ DOMAIN n = DOMAIN ts \union DOMAIN r
        /\ \A i \in DOMAIN n : n[i] = TierOf(ts, i) \union TierOf(r, i)
    <3>1. /\ AddTiers(ts, r) \in Tiers /\ DOMAIN AddTiers(ts, r) = DOMAIN ts \union DOMAIN r
          /\ \A i \in DOMAIN ts \union DOMAIN r :
                AddTiers(ts, r)[i] = TierOf(ts, i) \union TierOf(r, i)
      BY <1>1, AddTiersType
    <3> QED
      BY <2>1, <3>1
  <2>3. \A i \in DOMAIN ts : i \in DOMAIN n /\ n[i] = ts[i] \union TierOf(r, i)
    BY <2>2 DEF TierOf
  <2>4. All(n) = All(ts) \union All(r)
    BY <1>1, <2>1, AllOfLists
  <2>5. ts = <<>> => n = r
    BY <1>1, <2>1, AddTiersToNone
  <2> QED
    BY <2>2, <2>3, <2>4, <2>5 DEF r, n
<1> QED
  BY <1>2, <1>3

\* Where set_trackers puts the announces: a single one the database knows in a tier at
\* the end, all others tier by tier into the tiers there are.
LEMMA NewTrackersPlaced ==
    ASSUME NEW ts \in Tiers, NEW t \in Tiers, NEW known \in BOOLEAN
    PROVE  /\ known /\ Single(t) /\ Entry(Only(t)) # Nobody =>
                 /\ Read(t, known) = <<{Resolve(Only(t))}>>
                 /\ NewTrackers(ts, t, known) = Append(ts, {Resolve(Only(t))})
           /\ ~(known /\ Single(t) /\ Entry(Only(t)) # Nobody) =>
                 /\ \A i \in DOMAIN ts : NewTrackers(ts, t, known)[i] =
                                            ts[i] \union TierOf(Read(t, known), i)
                 /\ \A i \in DOMAIN Read(t, known) :
                       /\ i \in DOMAIN NewTrackers(ts, t, known)
                       /\ Read(t, known)[i] \subseteq NewTrackers(ts, t, known)[i]
<1> DEFINE r == Read(t, known)
           n == NewTrackers(ts, t, known)
<1>1. CASE known /\ Single(t) /\ Entry(Only(t)) # Nobody
  BY <1>1, ReadSingle DEF NewTrackers
<1>2. CASE ~(known /\ Single(t) /\ Entry(Only(t)) # Nobody)
  <2>1. n = AddTiers(ts, r) /\ r \in Tiers
    BY <1>2, ReadType DEF NewTrackers
  <2> HIDE DEF r, n
  <2>2. /\ DOMAIN n = DOMAIN ts \union DOMAIN r
        /\ \A i \in DOMAIN n : n[i] = TierOf(ts, i) \union TierOf(r, i)
    <3>1. /\ DOMAIN AddTiers(ts, r) = DOMAIN ts \union DOMAIN r
          /\ \A i \in DOMAIN ts \union DOMAIN r :
                AddTiers(ts, r)[i] = TierOf(ts, i) \union TierOf(r, i)
      BY <2>1, AddTiersType
    <3> QED
      BY <2>1, <3>1
  <2>3. \A i \in DOMAIN ts : n[i] = ts[i] \union TierOf(r, i)
    BY <2>2 DEF TierOf
  <2>4. \A i \in DOMAIN r : i \in DOMAIN n /\ r[i] \subseteq n[i]
    BY <2>2 DEF TierOf
  <2> QED
    BY <1>2, <2>3, <2>4 DEF r, n
<1> QED
  BY <1>1, <1>2

\* A list with a private tracker given by name makes a metafile private, and only a
\* private tracker does.
LEMMA NewFlagMeans ==
    ASSUME NEW t \in Tiers
    PROVE  /\ \A p : All(t) \cap PrivateNames # {} => NewFlag(p, t, TRUE) = "on"
           /\ NewFlag("off", t, TRUE) = "on" => \E a \in All(t) : Entry(a) \in PrivateNames
<1>1. CASE Single(t)
  <2>1. Only(t) \in Announce /\ All(t) = {Only(t)}
    BY <1>1, SingleType
  <2>2. Only(t) \in PrivateNames => Entry(Only(t)) = Only(t) /\ Entry(Only(t)) # Nobody
    BY <2>1, EntryType, DatabaseAssumption
  <2>3. \A p : NewFlag(p, t, TRUE) =
           IF Entry(Only(t)) = Nobody THEN p ELSE Flag(Entry(Only(t)))
    BY <1>1 DEF NewFlag
  <2>4. Entry(Only(t)) \notin PrivateNames => NewFlag("off", t, TRUE) = "off"
    BY <2>3 DEF Flag
  <2>5. "off" # "on"
    OBVIOUS
  <2> QED
    BY <2>1, <2>2, <2>3, <2>4, <2>5 DEF Flag
<1>2. CASE ~Single(t)
  <2>1. \A p : NewFlag(p, t, TRUE) = IF All(t) \cap PrivateNames # {} THEN "on" ELSE p
    BY <1>2 DEF NewFlag
  <2>2. \A a \in All(t) \cap PrivateNames : Entry(a) = a
    BY DatabaseAssumption DEF Entry
  <2>3. All(t) \cap PrivateNames = {} => NewFlag("off", t, TRUE) = "off"
    BY <2>1
  <2>4. "off" # "on"
    OBVIOUS
  <2> QED
    BY <2>1, <2>2, <2>3, <2>4
<1> QED
  BY <1>1, <1>2

\* The trackers a group makes of those a metafile has.
WithGroup(ts, g) == ts \o ResolveAll(Singletons(Announces[g]))

\* One turn of the loop over the groups changes the trackers, what follows the loop
\* the private flag.
LEMMA AddGroupIs ==
    ASSUME NEW f, HasTags(f)
    PROVE  /\ \A g : AddGroup(f, g) = Tagged(f, WithGroup(f.trackers, g), f.private, f.source)
           /\ \A names : SetFlag(f, names) =
                 Tagged(f, f.trackers, IF names # {} THEN "on" ELSE f.private, f.source)
<1>1. \A g : AddGroup(f, g) = Retiered(f, WithGroup(f.trackers, g))
  BY DEF AddGroup, Retiered, WithGroup
<1>2. \A names : SetFlag(f, names) = Flagged(f, IF names # {} THEN "on" ELSE f.private)
  BY DEF SetFlag, Flagged
<1> QED
  BY <1>1, <1>2, TaggedSame

\* A group adds its trackers behind those there are, each as a URL in a tier of its own.
LEMMA WithGroupAre ==
    ASSUME NEW ts \in Tiers, NEW g \in Groups
    PROVE  /\ WithGroup(ts, g) \in Tiers
           /\ Len(WithGroup(ts, g)) = Len(ts) + Len(Announces[g])
           /\ All(WithGroup(ts, g)) = All(ts) \union {Resolve(a) : a \in Range(Announces[g])}
           /\ \A i \in DOMAIN ts : i \in DOMAIN WithGroup(ts, g) /\ WithGroup(ts, g)[i] = ts[i]
           /\ \A i \in DOMAIN Announces[g] :
                 WithGroup(ts, g)[Len(ts) + i] = {Resolve(Announces[g][i])}
           /\ \A i \in DOMAIN WithGroup(ts, g) :
                 i \in DOMAIN ts \/ \E u \in Urls : WithGroup(ts, g)[i] = {u}
<1> DEFINE s == Singletons(Announces[g])
           r == ResolveAll(s)
           l == Announces[g]
<1>1. /\ s \in Tiers /\ Len(s) = Len(l) /\ DOMAIN s = DOMAIN l
      /\ \A i \in DOMAIN l : s[i] = {l[i]} /\ l[i] \in Announce
      /\ All(s) = Range(l)
  BY GroupType
<1>2. /\ r \in Tiers /\ Len(r) = Len(l) /\ DOMAIN r = DOMAIN l
      /\ All(r) = {Resolve(a) : a \in Range(l)}
  <2>1. /\ ResolveAll(s) \in Tiers /\ Len(ResolveAll(s)) = Len(s)
        /\ DOMAIN ResolveAll(s) = DOMAIN s
        /\ All(ResolveAll(s)) = {Resolve(a) : a \in All(s)}
    BY <1>1, ResolveType
  <2> QED
    BY <1>1, <2>1
<1>3. \A i \in DOMAIN l : r[i] = {Resolve(l[i])} /\ Resolve(l[i]) \in Urls
  <2>1. \A i \in DOMAIN s : ResolveAll(s)[i] = {Resolve(a) : a \in s[i]}
    BY <1>1, ResolveType
  <2> QED
    BY <1>1, <2>1, ResolveUrls
<1> DEFINE n == ts \o r
<1> HIDE DEF s, r, l
<1>4. /\ n \in Tiers /\ All(n) = All(ts) \union All(r)
  BY <1>2, AllOfLists
<1>5. /\ Len(n) = Len(ts) + Len(r) /\ Len(ts) \in Nat /\ DOMAIN ts = 1 .. Len(ts)
      /\ DOMAIN r = 1 .. Len(r) /\ Len(r) \in Nat /\ DOMAIN n = 1 .. Len(n)
      /\ \A i \in DOMAIN ts : i \in DOMAIN n /\ n[i] = ts[i]
      /\ \A i \in DOMAIN r : n[Len(ts) + i] = r[i]
  BY <1>2 DEF Tiers
<1> HIDE DEF n
<1>6. ASSUME NEW i \in DOMAIN n, i \notin DOMAIN ts
      PROVE  \E u \in Urls : n[i] = {u}
  <2>1. i - Len(ts) \in DOMAIN r /\ i = Len(ts) + (i - Len(ts))
    BY <1>5, <1>6
  <2>2. n[i] = r[i - Len(ts)]
    BY <1>5, <2>1
  <2> QED
    BY <1>2, <1>3, <2>1, <2>2
<1>7. WithGroup(ts, g) = n
  BY DEF WithGroup, n, r, s
<1>8. \A i \in DOMAIN l : n[Len(ts) + i] = {Resolve(l[i])}
  BY <1>2, <1>3, <1>5
<1> QED
  BY <1>2, <1>4, <1>5, <1>6, <1>7, <1>8 DEF l

=============================================================================
