--------------------------- MODULE ShowAppProofs ----------------------------
(***************************************************************************)
(* What show and `info --raw` print, for every metafile, with proofs: the  *)
(* walk through the file tree passes every file once, the answer is the    *)
(* one the code has for the metafile, and a listing is printed to its end. *)
(***************************************************************************)
EXTENDS ShowApp, SequenceTheorems, WellFoundedInduction, TLAPS

-----------------------------------------------------------------------------
(* The invariant *)

Names == Nat \ {FileKey}

\* The frames are the dictionaries on one way down, the first that of the tree itself,
\* and each but the last has passed the key the next one was reached by.
WalkInv ==
    frames # <<>> =>
        /\ frames \in Seq([path : Seq(Names), left : SUBSET Nat])
        /\ Len(top.path) = Len(frames) - 1
        /\ \A j \in DOMAIN frames :
              /\ frames[j].path = Prefix(top.path, j - 1)
              /\ frames[j].left \subseteq KeysAt(frames[j].path)
        /\ \A j \in DOMAIN frames :
              j < Len(frames) => top.path[j] \notin frames[j].left

\* The files that have been passed have a merkle root, now in words, and the others
\* have the value they had.
RootsInv ==
    \A p \in DOMAIN metafile.roots :
        /\ Passed(p) => /\ metafile.roots[p] # 0
                        /\ bv.roots[p] = MerkleRoot(<<metafile.roots[p]>>)
        /\ ~Passed(p) => bv.roots[p] = Value(metafile).roots[p]

\* The value that is escaped, before each step of the function.
EscapeInv ==
    /\ escape \in {"hashes", "tree", "failed", "done"}
    /\ hex = options.show_binary
    /\ escape = "hashes" => bv = Value(metafile)
    /\ escape = "tree" =>
          /\ metafile.layered
          /\ bv = [pieces |-> PiecesToShow, layered |-> metafile.layered,
                   layers |-> LayersToShow, layer_keys |-> "merkle root",
                   roots |-> bv.roots]
          /\ bv.roots = [p \in DOMAIN metafile.roots |-> bv.roots[p]]
          /\ WalkInv /\ RootsInv
    /\ escape = "failed" => Unshowable
    /\ escape = "done" => bv = ValueToShow /\ ~Unshowable

\* The options are those of the subcommand they are read for.
OptionsInv ==
    /\ options.show_binary \in BOOLEAN /\ options.protocol \in Protocols
    /\ \/ options.name = "raw" /\ options.subcommand = "raw"
       \/ /\ options.name \in Subcommands
          /\ options.subcommand = SubcommandOf(options.name)

\* The lines of checksums are those of the files up to the next one, which have the
\* checksum, and so has some file.
ChecksumsInv ==
    /\ Summed
    /\ \E i \in DOMAIN metafile.files : ~Unsummed(i)
    /\ Len(output) \in 0 .. Len(metafile.files)
    /\ output = SumLines(Len(output))
    /\ \A i \in 1 .. Len(output) : ~Unsummed(i)

\* The inductive invariant: what holds at each stage of the command.
ShowInv ==
    /\ metafile \in Metafiles
    /\ app \in {"parse", "run", "checksums", "escape", "end"}
    /\ app # "parse" => OptionsInv
    /\ app # "escape" => escape \in {"none", "failed", "done"}
    /\ app # "end" => outcome = "none"
    /\ app \in {"parse", "run", "escape"} => output = <<>>
    /\ app = "checksums" => ChecksumsInv
    /\ app = "escape" => Queried /\ EscapeInv
    /\ AnswersWhole

-----------------------------------------------------------------------------
(* Paths *)

\* What a prefix is, element by element.
LEMMA PrefixElements ==
    ASSUME NEW p \in Seq(Names), NEW q \in Seq(Names)
    PROVE  IsPrefix(p, q) <=> Len(p) <= Len(q) /\ \A i \in 1 .. Len(p) : p[i] = q[i]
<1> DEFINE n == Len(p)
<1>1. n \in Nat /\ Len(q) \in Nat
  OBVIOUS
<1>2. ASSUME n <= Len(q) PROVE SubSeq(p, 1, n) = SubSeq(q, 1, n) <=>
                                   \A i \in 1 .. n : p[i] = q[i]
  <2>1. SubSeq(p, 1, n) = [i \in 1 .. n |-> p[i]] /\ SubSeq(q, 1, n) = [i \in 1 .. n |-> q[i]]
    BY <1>1, <1>2
  <2> QED
    BY <2>1
<1> QED
  BY <1>1, <1>2 DEF IsPrefix

\* The first elements of a path.
LEMMA PrefixOfPath ==
    ASSUME NEW p \in Seq(Names), NEW n \in 0 .. Len(p)
    PROVE  /\ Prefix(p, n) \in Seq(Names)
           /\ Len(Prefix(p, n)) = n
           /\ \A i \in 1 .. n : Prefix(p, n)[i] = p[i]
           /\ n = Len(p) => Prefix(p, n) = p
<1>1. SubSeq(p, 1, n) = [i \in 1 .. n |-> p[i]]
  OBVIOUS
<1>2. \A i \in 1 .. n : p[i] \in Names
  OBVIOUS
<1>3. n = Len(p) => p = [i \in 1 .. n |-> p[i]]
  OBVIOUS
<1> QED
  BY <1>1, <1>2, <1>3 DEF Prefix

\* A path that is made longer by one element.
LEMMA PathAppended ==
    ASSUME NEW p \in Seq(Names), NEW k \in Names
    PROVE  /\ Append(p, k) \in Seq(Names)
           /\ Len(Append(p, k)) = Len(p) + 1
           /\ Append(p, k)[Len(p) + 1] = k
           /\ \A i \in 1 .. Len(p) : Append(p, k)[i] = p[i]
           /\ \A n \in 0 .. Len(p) : Prefix(Append(p, k), n) = Prefix(p, n)
<1>1. /\ Append(p, k) \in Seq(Names) /\ Len(Append(p, k)) = Len(p) + 1
      /\ Append(p, k)[Len(p) + 1] = k
      /\ \A i \in 1 .. Len(p) : Append(p, k)[i] = p[i]
  OBVIOUS
<1>2. ASSUME NEW n \in 0 .. Len(p)
      PROVE  Prefix(Append(p, k), n) = Prefix(p, n)
  <2> DEFINE q == Append(p, k)
  <2>1. SubSeq(q, 1, n) = [i \in 1 .. n |-> q[i]] /\ SubSeq(p, 1, n) = [i \in 1 .. n |-> p[i]]
    BY <1>1
  <2> HIDE DEF q
  <2>2. \A i \in 1 .. n : q[i] = p[i]
    BY <1>1 DEF q
  <2> QED
    BY <2>1, <2>2 DEF Prefix, q
<1> QED
  BY <1>1, <1>2

\* A set of numbers has a least one.
LEMMA MinExists ==
    ASSUME NEW S \in SUBSET Nat, S # {}
    PROVE  Min(S) \in S /\ \A y \in S : Min(S) <= y
<1> DEFINE R == {p \in Nat \X Nat : p[1] < p[2]}
<1>1. IsWellFoundedOn(R, Nat)
  BY NatLessThanWellFounded DEF OpToRel
<1>2. PICK x \in S : \A y \in S : <<y, x>> \notin R
  <2> HIDE DEF R
  <2> QED
    BY <1>1, WFMin
<1>3. ASSUME NEW y \in S
      PROVE  x <= y
  <2>1. x \in Nat /\ y \in Nat
    OBVIOUS
  <2>2. y < x => <<y, x>> \in R
    BY <2>1
  <2>3. ~(y < x)
    BY <1>2, <2>2
  <2> QED
    BY <2>1, <2>3
<1> QED
  BY <1>3 DEF Min

-----------------------------------------------------------------------------
(* The walk *)

\* What the assumption says of the loaded metafile.
LEMMA RootsFacts ==
    ASSUME metafile \in Metafiles
    PROVE  /\ metafile.roots \in [DOMAIN metafile.roots -> Nat]
           /\ \A p \in DOMAIN metafile.roots : p \in Seq(Names) /\ Len(p) > 0
           /\ \A p, q \in DOMAIN metafile.roots : IsPrefix(p, q) => p = q
<1> DEFINE D == DOMAIN metafile.roots
<1>1. /\ metafile.roots \in [D -> Nat] /\ D \subseteq Seq(Names) \ {<<>>}
      /\ \A p, q \in D : IsPrefix(p, q) => p = q
  BY MetafileAssumption DEF Names
<1>2. \A p \in Seq(Names) : p # <<>> => Len(p) > 0
  BY EmptySeq
<1> QED
  BY <1>1, <1>2

\* The keys on the way to a file are keys of the dictionaries on this way.
LEMMA KeysOnTheWay ==
    ASSUME metafile \in Metafiles, DOMAIN bv.roots = DOMAIN metafile.roots,
           NEW p \in Leaves, NEW d \in Seq(Names), IsPrefix(d, p)
    PROVE  KeyTo(d, p) \in KeysAt(d)
<1>1. p \in Seq(Names) /\ Leaves = DOMAIN metafile.roots
  BY RootsFacts DEF Leaves
<1>2. CASE d = p
  BY <1>2 DEF KeyTo, KeysAt
<1>3. CASE d # p
  <2>1. d \notin Leaves
    BY <1>1, <1>3, RootsFacts
  <2>2. Under(d, p)
    BY <1>3 DEF Under, IsStrictPrefix
  <2> QED
    BY <1>3, <2>1, <2>2 DEF KeyTo, KeysAt
<1> QED
  BY <1>2, <1>3

\* Only the dictionary of a file has the empty key, and it has no other.
LEMMA FileKeys ==
    ASSUME metafile \in Metafiles, DOMAIN bv.roots = DOMAIN metafile.roots,
           NEW d \in Seq(Names)
    PROVE  /\ KeysAt(d) \subseteq Nat
           /\ FileKey \in KeysAt(d) => d \in Leaves /\ KeysAt(d) = {FileKey}
<1>1. CASE d \in Leaves
  BY <1>1 DEF KeysAt, FileKey
<1>2. CASE d \notin Leaves
  <2>1. SUFFICES ASSUME NEW q \in Leaves, Under(d, q)
                 PROVE  q[Len(d) + 1] \in Nat \ {FileKey}
    BY <1>2, <2>1 DEF KeysAt
  <2>2. q \in Seq(Names) /\ IsPrefix(d, q) /\ d # q
    BY <2>1, RootsFacts DEF Leaves, Under, IsStrictPrefix
  <2>3. Len(d) \in Nat /\ Len(q) \in Nat /\ Len(d) <= Len(q)
    BY <2>2, PrefixElements
  <2>4. Len(d) # Len(q)
    <3> SUFFICES ASSUME Len(d) = Len(q) PROVE FALSE
      OBVIOUS
    <3>1. \A i \in 1 .. Len(d) : d[i] = q[i]
      BY <2>2, PrefixElements
    <3>2. d = q
      BY <2>2, <3>1, SeqEqual
    <3> QED
      BY <2>2, <3>2
  <2>5. Len(d) + 1 \in 1 .. Len(q)
    BY <2>3, <2>4
  <2>6. q[Len(d) + 1] \in Names
    BY <2>2, <2>5, ElementOfSeq
  <2> QED
    BY <2>6 DEF Names
<1> QED
  BY <1>1, <1>2

Frames == [path : Seq(Names), left : SUBSET Nat]

\* A stack without its last frame.
LEMMA FrontOfStack ==
    ASSUME NEW s \in Seq(Frames), s # <<>>
    PROVE  /\ Len(s) \in Nat /\ Len(s) > 0
           /\ Front(s) \in Seq(Frames)
           /\ Len(Front(s)) = Len(s) - 1
           /\ \A j \in 1 .. Len(s) - 1 : Front(s)[j] = s[j]
<1>1. Len(s) \in Nat /\ Len(s) > 0
  BY EmptySeq
<1>2. SubSeq(s, 1, Len(s) - 1) = [j \in 1 .. Len(s) - 1 |-> s[j]]
  BY <1>1
<1>3. \A j \in 1 .. Len(s) - 1 : s[j] \in Frames
  BY <1>1, ElementOfSeq
<1> DEFINE f == [j \in 1 .. Len(s) - 1 |-> s[j]]
<1>4. f \in Seq(Frames) /\ Len(f) = Len(s) - 1
  BY <1>1, <1>3
<1> QED
  BY <1>1, <1>2, <1>4 DEF Front

\* The top frame when its iterator has moved.
LEMMA AdvancedStack ==
    ASSUME frames \in Seq(Frames), frames # <<>>
    PROVE  /\ Advanced \in Seq(Frames)
           /\ Len(Advanced) = Len(frames)
           /\ \A j \in 1 .. Len(frames) - 1 : Advanced[j] = frames[j]
           /\ Advanced[Len(frames)] = [path |-> top.path, left |-> top.left \ {key}]
<1> DEFINE n == Len(frames)
           moved == [top EXCEPT !.left = @ \ {key}]
<1>1. n \in Nat /\ n > 0 /\ Front(frames) \in Seq(Frames) /\ Len(Front(frames)) = n - 1
      /\ \A j \in 1 .. n - 1 : Front(frames)[j] = frames[j]
  BY FrontOfStack
<1>2. top \in Frames
  BY <1>1, ElementOfSeq DEF top
<1>3. moved = [path |-> top.path, left |-> top.left \ {key}] /\ moved \in Frames
  <2> DEFINE rest == top.left \ {key}
  <2>1. rest \in SUBSET Nat
    BY <1>2 DEF Frames
  <2> HIDE DEF rest
  <2>2. [top EXCEPT !.left = rest] = [path |-> top.path, left |-> rest]
        /\ [path |-> top.path, left |-> rest] \in Frames
    BY <1>2, <2>1 DEF Frames
  <2> QED
    BY <2>2 DEF rest
<1> HIDE DEF moved
<1>4. /\ Append(Front(frames), moved) \in Seq(Frames)
      /\ Len(Append(Front(frames), moved)) = n
      /\ \A j \in 1 .. n - 1 : Append(Front(frames), moved)[j] = Front(frames)[j]
      /\ Append(Front(frames), moved)[n] = moved
  BY <1>1, <1>3
<1> QED
  BY <1>1, <1>3, <1>4 DEF Advanced, moved

\* What the invariant says of the frames, with the paths taken apart.
LEMMA StackFacts ==
    ASSUME WalkInv, frames # <<>>
    PROVE  /\ frames \in Seq(Frames) /\ Len(frames) \in Nat /\ Len(frames) > 0
           /\ DOMAIN frames = 1 .. Len(frames)
           /\ top = frames[Len(frames)] /\ top \in Frames
           /\ Len(top.path) = Len(frames) - 1
           /\ \A j \in 1 .. Len(frames) :
                 /\ frames[j] \in Frames
                 /\ Len(frames[j].path) = j - 1
                 /\ \A i \in 1 .. j - 1 : frames[j].path[i] = top.path[i]
                 /\ frames[j].left \subseteq KeysAt(frames[j].path)
           /\ \A j \in 1 .. Len(frames) - 1 : top.path[j] \notin frames[j].left
<1>1. /\ frames \in Seq(Frames) /\ Len(frames) \in Nat /\ Len(frames) > 0
      /\ DOMAIN frames = 1 .. Len(frames)
  BY FrontOfStack DEF WalkInv, Frames
<1>2. \A j \in 1 .. Len(frames) : frames[j] \in Frames
  BY <1>1, ElementOfSeq
<1>3. top \in Frames /\ top.path \in Seq(Names)
  BY <1>1, <1>2 DEF top, Frames
<1>4. Len(top.path) = Len(frames) - 1
  BY DEF WalkInv
<1>5. ASSUME NEW j \in 1 .. Len(frames)
      PROVE  /\ Len(frames[j].path) = j - 1
             /\ \A i \in 1 .. j - 1 : frames[j].path[i] = top.path[i]
             /\ frames[j].left \subseteq KeysAt(frames[j].path)
  <2>1. /\ frames[j].path = Prefix(top.path, j - 1)
        /\ frames[j].left \subseteq KeysAt(frames[j].path)
    BY <1>1 DEF WalkInv
  <2> DEFINE n == Len(frames)
  <2>2. n \in Nat /\ j \in 1 .. n
    BY <1>1
  <2> HIDE DEF n
  <2>3. j - 1 \in 0 .. n - 1
    BY <2>2
  <2> QED
    BY <1>3, <1>4, <2>1, <2>3, PrefixOfPath DEF n
<1>6. ASSUME NEW j \in 1 .. Len(frames) - 1 PROVE top.path[j] \notin frames[j].left
  <2>1. j \in DOMAIN frames /\ j < Len(frames)
    BY <1>1
  <2> QED
    BY <2>1 DEF WalkInv
<1> QED
  BY <1>1, <1>2, <1>3, <1>4, <1>5, <1>6 DEF top

\* Path p starts with the first n elements of path t.
Follows(p, t, n) == n <= Len(p) /\ \A i \in 1 .. n : p[i] = t[i]

\* Passed, of any stack.
PassedOn(s, p) ==
    \/ s = <<>>
    \/ \E j \in DOMAIN s :
        /\ IsPrefix(s[j].path, p)
        /\ j < Len(s) => ~IsPrefix(s[j + 1].path, p)
        /\ KeyTo(s[j].path, p) \notin s[j].left

\* The key that leads to p from the directory of its first n elements.
KeyAfter(p, n) == IF n = Len(p) THEN FileKey ELSE p[n + 1]

\* A file is passed on a stack by the last of its dictionaries that the file is below.
LEMMA PassedByFrame ==
    ASSUME NEW s \in Seq(Frames), Len(s) > 0, NEW t \in Seq(Names),
           Len(t) = Len(s) - 1, NEW p \in Seq(Names),
           \A j \in 1 .. Len(s) : s[j].path = Prefix(t, j - 1)
    PROVE  PassedOn(s, p) <=>
              \E j \in 1 .. Len(s) :
                 /\ Follows(p, t, j - 1)
                 /\ j < Len(s) => ~Follows(p, t, j)
                 /\ KeyAfter(p, j - 1) \notin s[j].left
<1> DEFINE n == Len(s)
<1>1. n \in Nat /\ DOMAIN s = 1 .. n /\ s # <<>> /\ Len(p) \in Nat /\ Len(t) \in Nat
  BY EmptySeq
<1> HIDE DEF n
<1>2. ASSUME NEW j \in 1 .. n
      PROVE  /\ s[j].path \in Seq(Names) /\ Len(s[j].path) = j - 1
             /\ IsPrefix(s[j].path, p) <=> Follows(p, t, j - 1)
             /\ IsPrefix(s[j].path, p) => KeyTo(s[j].path, p) = KeyAfter(p, j - 1)
  <2>1. j - 1 \in 0 .. Len(t)
    BY <1>1 DEF n
  <2>2. s[j].path = Prefix(t, j - 1)
    BY DEF n
  <2> DEFINE d == s[j].path
  <2>3. d \in Seq(Names) /\ Len(d) = j - 1 /\ \A i \in 1 .. j - 1 : d[i] = t[i]
    BY <2>1, <2>2, PrefixOfPath
  <2> HIDE DEF d
  <2>4. IsPrefix(d, p) <=> Len(d) <= Len(p) /\ \A i \in 1 .. Len(d) : d[i] = p[i]
    BY <2>3, PrefixElements
  <2>5. IsPrefix(d, p) <=> Follows(p, t, j - 1)
    BY <2>3, <2>4 DEF Follows
  <2>6. ASSUME IsPrefix(d, p) PROVE d = p <=> j - 1 = Len(p)
    <3>1. ASSUME j - 1 = Len(p) PROVE d = p
      BY <2>3, <2>4, <2>6, <3>1, SeqEqual
    <3> QED
      BY <2>3, <3>1
  <2>7. IsPrefix(d, p) => KeyTo(d, p) = KeyAfter(p, j - 1)
    BY <2>3, <2>6 DEF KeyTo, KeyAfter
  <2> QED
    BY <2>3, <2>5, <2>7 DEF d
<1>3. ASSUME NEW j \in 1 .. n, j < n
      PROVE  IsPrefix(s[j + 1].path, p) <=> Follows(p, t, j)
  <2>1. j + 1 \in 1 .. n /\ (j + 1) - 1 = j
    BY <1>1, <1>3
  <2> QED
    BY <1>2, <2>1
<1>4. PassedOn(s, p) <=>
         \E j \in 1 .. n :
            /\ IsPrefix(s[j].path, p)
            /\ j < n => ~IsPrefix(s[j + 1].path, p)
            /\ KeyTo(s[j].path, p) \notin s[j].left
  BY <1>1 DEF PassedOn, n
<1>5. ASSUME NEW j \in 1 .. n
      PROVE  (/\ IsPrefix(s[j].path, p)
              /\ j < n => ~IsPrefix(s[j + 1].path, p)
              /\ KeyTo(s[j].path, p) \notin s[j].left)
             <=> (/\ Follows(p, t, j - 1)
                  /\ j < n => ~Follows(p, t, j)
                  /\ KeyAfter(p, j - 1) \notin s[j].left)
  <2>1. CASE IsPrefix(s[j].path, p)
    <3>1. Follows(p, t, j - 1) /\ KeyTo(s[j].path, p) = KeyAfter(p, j - 1)
      BY <1>2, <2>1
    <3> QED
      BY <1>3, <2>1, <3>1
  <2>2. CASE ~IsPrefix(s[j].path, p)
    BY <1>2, <2>2
  <2> QED
    BY <2>1, <2>2
<1> QED
  BY <1>4, <1>5 DEF n

Walking == metafile \in Metafiles /\ DOMAIN bv.roots = DOMAIN metafile.roots /\ WalkInv

\* The key an iterator is at.
LEMMA KeyFacts ==
    ASSUME Walking, frames # <<>>, ~AtEnd
    PROVE  /\ key \in top.left /\ key \in KeysAt(top.path)
           /\ key # FileKey => key \in Names
           /\ key = FileKey => top.path \in Leaves /\ KeysAt(top.path) = {FileKey}
<1>1. top \in Frames /\ Len(frames) \in 1 .. Len(frames) /\ top = frames[Len(frames)]
  <2>1. \A n \in Nat : n > 0 => n \in 1 .. n
    OBVIOUS
  <2> QED
    BY <2>1, StackFacts DEF Walking
<1>2. top.left \subseteq KeysAt(top.path)
  BY <1>1, StackFacts DEF Walking
<1>3. top.left \in SUBSET Nat /\ top.left # {} /\ top.path \in Seq(Names)
  BY <1>1 DEF Frames, AtEnd
<1>4. key \in top.left
  BY <1>3, MinExists DEF key
<1> QED
  BY <1>2, <1>3, <1>4, FileKeys DEF Walking, Names

\* Going down into a dictionary passes no file and forgets none.
LEMMA DescendKeeps ==
    ASSUME Walking, EscapeDescend
    PROVE  WalkInv' /\ \A p \in Leaves : Passed(p)' <=> Passed(p)
<1> DEFINE n == Len(frames)
           t == top.path
           k == key
           u == Append(t, k)
           s == frames'
<1>1. /\ frames # <<>> /\ ~AtEnd /\ k # FileKey /\ bv' = bv
      /\ s = Append(Advanced, Frame(u))
  BY DEF EscapeDescend
<1>2. /\ k \in top.left /\ k \in KeysAt(t) /\ k \in Names
  BY <1>1, KeyFacts
<1>3. /\ frames \in Seq(Frames) /\ n \in Nat /\ n > 0 /\ DOMAIN frames = 1 .. n
      /\ top = frames[n] /\ top \in Frames /\ t \in Seq(Names) /\ Len(t) = n - 1
  BY <1>1, StackFacts DEF Walking, Frames
<1>4. /\ u \in Seq(Names) /\ Len(u) = n /\ u[n] = k
      /\ \A i \in 1 .. n - 1 : u[i] = t[i]
      /\ \A i \in 0 .. n - 1 : Prefix(u, i) = Prefix(t, i)
      /\ Prefix(u, n) = u
  <2>1. \A m \in Nat : m \in 0 .. m /\ (m - 1) + 1 = m
    OBVIOUS
  <2>2. /\ u \in Seq(Names) /\ Len(u) = Len(t) + 1 /\ u[Len(t) + 1] = k
        /\ \A i \in 1 .. Len(t) : u[i] = t[i]
        /\ \A i \in 0 .. Len(t) : Prefix(u, i) = Prefix(t, i)
    BY <1>2, <1>3, PathAppended
  <2>3. Len(t) + 1 = n /\ n \in 0 .. n
    BY <1>3, <2>1
  <2>4. Prefix(u, n) = u
    BY <2>2, <2>3, PrefixOfPath
  <2> QED
    BY <1>3, <2>2, <2>3, <2>4
<1>5. KeysAt(u) \subseteq Nat /\ Frame(u) \in Frames
  BY <1>4, FileKeys DEF Walking, Frame, Frames
<1>6. /\ Advanced \in Seq(Frames) /\ Len(Advanced) = n
      /\ \A j \in 1 .. n - 1 : Advanced[j] = frames[j]
      /\ Advanced[n] = [path |-> t, left |-> top.left \ {k}]
  BY <1>1, <1>3, AdvancedStack
<1> HIDE DEF n, t, k, u, s
<1>7. /\ s \in Seq(Frames) /\ Len(s) = n + 1
      /\ \A j \in 1 .. n : s[j] = Advanced[j]
      /\ s[n + 1] = Frame(u)
  BY <1>1, <1>3, <1>5, <1>6
<1>8. /\ \A j \in 1 .. n - 1 : s[j] = frames[j]
      /\ s[n] = [path |-> t, left |-> top.left \ {k}]
      /\ DOMAIN s = 1 .. n + 1
  BY <1>3, <1>6, <1>7
<1>9. \A d : KeysAt(d)' = KeysAt(d)
  BY <1>1 DEF KeysAt, Leaves
<1>10. top' = Frame(u)
  BY <1>7 DEF top, s
<1>11. Len(frames) = n /\ top.path = t
  BY DEF n, t
<1>12. \A j \in 1 .. n : frames[j].path = Prefix(t, j - 1) /\ frames[j].left \subseteq KeysAt(frames[j].path)
  BY <1>1, <1>3, <1>11 DEF Walking, WalkInv
<1>13. \A j \in 1 .. n + 1 : s[j].path = Prefix(u, j - 1) /\ s[j].left \subseteq KeysAt(s[j].path)
  <2> TAKE j \in 1 .. n + 1
  <2>1. CASE j \in 1 .. n - 1
    <3>1. j - 1 \in 0 .. n - 1 /\ j \in 1 .. n
      BY <1>3, <2>1
    <3> QED
      BY <1>4, <1>8, <1>12, <2>1, <3>1
  <2>2. CASE j = n
    <3>1. n \in 1 .. n /\ n - 1 \in 0 .. n - 1
      BY <1>3
    <3>2. t = Prefix(t, n - 1) /\ top.left \subseteq KeysAt(t)
      BY <1>3, <1>11, <1>12, <3>1
    <3> QED
      BY <1>4, <1>8, <2>2, <3>1, <3>2
  <2>3. CASE j = n + 1
    BY <1>3, <1>4, <1>7, <2>3 DEF Frame
  <2> QED
    BY <1>3, <2>1, <2>2, <2>3
<1>14. \A j \in 1 .. n : u[j] \notin s[j].left
  <2> TAKE j \in 1 .. n
  <2>1. CASE j \in 1 .. n - 1
    BY <1>1, <1>4, <1>8, <1>11, <2>1, StackFacts DEF Walking
  <2>2. CASE j = n
    BY <1>4, <1>8, <2>2
  <2> QED
    BY <1>3, <2>1, <2>2
<1>15. WalkInv'
  <2>1. frames' = s /\ top'.path = u /\ Len(s) = n + 1
    BY <1>7, <1>10 DEF s, Frame
  <2>2. \A j \in DOMAIN frames' : j < Len(frames') => (top.path)'[j] \notin frames'[j].left
    BY <1>3, <1>8, <1>14, <2>1
  <2>3. \A j \in DOMAIN frames' :
            /\ frames'[j].path = Prefix(top'.path, j - 1)
            /\ frames'[j].left \subseteq KeysAt(frames[j].path)'
    BY <1>8, <1>9, <1>13, <2>1
  <2> QED
    BY <1>3, <1>4, <1>7, <2>1, <2>2, <2>3 DEF WalkInv, Frames
<1>16. ASSUME NEW p \in Leaves
       PROVE  PassedOn(s, p) <=> PassedOn(frames, p)
  <2>1. p \in Seq(Names) /\ Len(p) \in Nat
    BY RootsFacts DEF Walking, Leaves
  <2> DEFINE Old(j) == /\ Follows(p, t, j - 1)
                       /\ j < n => ~Follows(p, t, j)
                       /\ KeyAfter(p, j - 1) \notin frames[j].left
             New(j) == /\ Follows(p, u, j - 1)
                       /\ j < n + 1 => ~Follows(p, u, j)
                       /\ KeyAfter(p, j - 1) \notin s[j].left
  <2>2. PassedOn(frames, p) <=> \E j \in 1 .. n : Old(j)
    BY <1>3, <1>11, <1>12, <2>1, PassedByFrame
  <2>3. PassedOn(s, p) <=> \E j \in 1 .. n + 1 : New(j)
    <3>1. s \in Seq(Frames) /\ Len(s) > 0 /\ Len(u) = Len(s) - 1 /\ u \in Seq(Names)
      BY <1>3, <1>4, <1>7
    <3>2. \A j \in 1 .. Len(s) : s[j].path = Prefix(u, j - 1)
      BY <1>7, <1>13
    <3>3. PassedOn(s, p) <=>
              \E j \in 1 .. Len(s) :
                 /\ Follows(p, u, j - 1)
                 /\ j < Len(s) => ~Follows(p, u, j)
                 /\ KeyAfter(p, j - 1) \notin s[j].left
      BY <2>1, <3>1, <3>2, PassedByFrame
    <3> QED
      BY <1>7, <3>3
  <2>4. ASSUME NEW j \in 0 .. n - 1 PROVE Follows(p, u, j) <=> Follows(p, t, j)
    <3>1. \A i \in 1 .. j : i \in 1 .. n - 1
      BY <1>3
    <3>2. \A i \in 1 .. j : u[i] = t[i]
      BY <1>4, <3>1
    <3> QED
      BY ONLY <3>2 DEF Follows
  <2>5. ASSUME NEW j \in 1 .. n - 1 PROVE New(j) <=> Old(j)
    <3>1. j - 1 \in 0 .. n - 1 /\ j \in 0 .. n - 1 /\ j < n /\ j < n + 1
      BY <1>3
    <3> QED
      BY <1>8, <2>4, <3>1
  <2>6. New(n) <=> Old(n)
    <3>1. n - 1 \in 0 .. n - 1 /\ n < n + 1 /\ ~(n < n)
      BY <1>3
    <3>2. Follows(p, u, n - 1) <=> Follows(p, t, n - 1)
      BY <2>4, <3>1
    <3>3. ASSUME Follows(p, t, n - 1)
          PROVE  Follows(p, u, n) <=> KeyAfter(p, n - 1) = k
      <4>1. CASE Len(p) = n - 1
        BY <1>1, <1>3, <4>1 DEF KeyAfter, Follows
      <4>2. CASE Len(p) # n - 1
        <5>1. n <= Len(p) /\ KeyAfter(p, n - 1) = p[n]
          BY <1>3, <2>1, <3>3, <4>2 DEF Follows, KeyAfter
        <5>2. \A i \in 1 .. n - 1 : p[i] = u[i]
          BY <1>3, <1>4, <3>3 DEF Follows
        <5> QED
          BY <1>3, <1>4, <5>1, <5>2 DEF Follows
      <4> QED
        BY <4>1, <4>2
    <3>4. KeyAfter(p, n - 1) \notin s[n].left <=>
             KeyAfter(p, n - 1) \notin top.left \/ KeyAfter(p, n - 1) = k
      BY <1>8
    <3>5. frames[n].left = top.left
      BY <1>3
    <3> QED
      BY <1>2, <3>1, <3>2, <3>3, <3>4, <3>5
  <2>7. ~New(n + 1)
    <3> SUFFICES ASSUME Follows(p, u, n) PROVE KeyAfter(p, n) \in s[n + 1].left
      BY <1>3
    <3>1. IsPrefix(u, p)
      BY <1>3, <1>4, <2>1, PrefixElements DEF Follows
    <3>2. KeyTo(u, p) \in KeysAt(u)
      BY <1>4, <3>1, KeysOnTheWay DEF Walking
    <3>3. KeyTo(u, p) = KeyAfter(p, n)
      <4>1. u = p <=> n = Len(p)
        BY <1>4, <2>1, <3>1, SeqEqual, PrefixElements
      <4> QED
        BY <1>4, <4>1 DEF KeyTo, KeyAfter
    <3> QED
      BY <1>7, <3>2, <3>3 DEF Frame
  <2> HIDE DEF Old, New
  <2> QED
    BY <1>3, <2>2, <2>3, <2>5, <2>6, <2>7
<1>17. \A p \in Leaves : Passed(p)' <=> Passed(p)
  BY <1>16 DEF Passed, PassedOn, s
<1> QED
  BY <1>15, <1>17

\* The file whose dictionary the top frame is has not been passed while its key is left.
LEMMA TopNotPassed ==
    ASSUME Walking, frames # <<>>, FileKey \in top.left
    PROVE  ~Passed(top.path)
<1> DEFINE n == Len(frames)
           t == top.path
<1>1. /\ frames \in Seq(Frames) /\ n \in Nat /\ n > 0 /\ DOMAIN frames = 1 .. n
      /\ top = frames[n] /\ t \in Seq(Names) /\ Len(t) = n - 1
  BY StackFacts DEF Walking, Frames
<1> HIDE DEF n, t
<1>2. Len(frames) = n /\ top.path = t
  BY DEF n, t
<1>3. \A j \in 1 .. n : frames[j].path = Prefix(t, j - 1)
  BY <1>1, <1>2 DEF Walking, WalkInv
<1>4. PassedOn(frames, t) <=>
         \E j \in 1 .. n : /\ Follows(t, t, j - 1)
                           /\ j < n => ~Follows(t, t, j)
                           /\ KeyAfter(t, j - 1) \notin frames[j].left
  BY <1>1, <1>2, <1>3, PassedByFrame
<1>5. ASSUME NEW j \in 1 .. n, j < n PROVE Follows(t, t, j)
  BY <1>1, <1>5 DEF Follows
<1>6. KeyAfter(t, n - 1) \in frames[n].left
  BY <1>1 DEF KeyAfter
<1>7. \A j \in 1 .. n : j < n \/ j = n
  BY <1>1
<1>8. ~PassedOn(frames, t)
  BY <1>4, <1>5, <1>6, <1>7
<1> QED
  BY <1>2, <1>8 DEF Passed, PassedOn

\* The dictionary of a file is left at once, and its file is passed, for the first time.
LEMMA FilePasses ==
    ASSUME Walking, EscapeFile
    PROVE  /\ WalkInv' /\ top.path \in Leaves /\ ~Passed(top.path)
           /\ \A p \in Leaves : Passed(p)' <=> Passed(p) \/ p = top.path
<1> DEFINE n == Len(frames)
           t == top.path
           s == frames'
<1>1. /\ frames # <<>> /\ ~AtEnd /\ key = FileKey
      /\ s = Advanced /\ bv' = [bv EXCEPT !.roots[top.path] = MerkleRoot(@.data)]
  BY DEF EscapeFile
<1>2. key \in top.left /\ t \in Leaves /\ KeysAt(t) = {FileKey}
  BY <1>1, KeyFacts
<1>3. /\ frames \in Seq(Frames) /\ n \in Nat /\ n > 0 /\ DOMAIN frames = 1 .. n
      /\ top = frames[n] /\ top \in Frames /\ t \in Seq(Names) /\ Len(t) = n - 1
  BY <1>1, StackFacts DEF Walking, Frames
<1>4. /\ s \in Seq(Frames) /\ Len(s) = n
      /\ \A j \in 1 .. n - 1 : s[j] = frames[j]
      /\ s[n] = [path |-> t, left |-> top.left \ {key}]
  BY <1>1, <1>3, AdvancedStack
<1>5. Leaves' = Leaves
  <2> DEFINE r == bv.roots
  <2>1. bv'.roots = r \/ bv'.roots = [r EXCEPT ![top.path] = MerkleRoot(@.data)]
    BY <1>1
  <2> QED
    BY <2>1 DEF Leaves
<1> HIDE DEF n, t, s
<1>6. \A d : KeysAt(d)' = KeysAt(d)
  BY <1>5 DEF KeysAt
<1>7. Len(frames) = n /\ top.path = t /\ frames' = s
  BY DEF n, t, s
<1>8. \A j \in 1 .. n :
         frames[j].path = Prefix(t, j - 1) /\ frames[j].left \subseteq KeysAt(frames[j].path)
  BY <1>1, <1>3, <1>7 DEF Walking, WalkInv
<1>9. n \in 1 .. n /\ DOMAIN s = 1 .. n /\ s # <<>>
  BY <1>3, <1>4, EmptySeq
<1>10. top.left = {FileKey} /\ s[n].path = t /\ s[n].left = {}
  <2>1. top.left \subseteq KeysAt(t)
    BY <1>3, <1>7, <1>8, <1>9
  <2> QED
    BY <1>1, <1>2, <1>4, <2>1
<1>11. \A j \in 1 .. n :
         s[j].path = Prefix(t, j - 1) /\ s[j].left \subseteq KeysAt(s[j].path)
  <2> TAKE j \in 1 .. n
  <2>1. CASE j \in 1 .. n - 1
    BY <1>4, <1>8, <2>1
  <2>2. CASE j = n
    BY <1>3, <1>7, <1>8, <1>10, <2>2
  <2> QED
    BY <1>3, <2>1, <2>2
<1>12. \A j \in 1 .. n : j < n => t[j] \notin s[j].left
  <2> TAKE j \in 1 .. n
  <2> HAVE j < n
  <2>1. j \in 1 .. n - 1
    BY <1>3
  <2> QED
    BY <1>1, <1>4, <1>7, <2>1, StackFacts DEF Walking
<1>13. WalkInv'
  <2>1. top'.path = t
    BY <1>4, <1>7, <1>10 DEF top
  <2>2. \A j \in DOMAIN frames' : j < Len(frames') => (top.path)'[j] \notin frames'[j].left
    BY <1>4, <1>7, <1>9, <1>12, <2>1
  <2>3. \A j \in DOMAIN frames' :
            /\ frames'[j].path = Prefix(top'.path, j - 1)
            /\ frames'[j].left \subseteq KeysAt(frames[j].path)'
    BY <1>6, <1>7, <1>9, <1>11, <2>1
  <2> QED
    BY <1>3, <1>4, <1>7, <2>1, <2>2, <2>3 DEF WalkInv, Frames
<1>14. ASSUME NEW p \in Leaves
       PROVE  /\ PassedOn(s, p) <=> PassedOn(frames, p) \/ p = t
              /\ p = t => ~PassedOn(frames, p)
  <2>1. p \in Seq(Names) /\ Len(p) \in Nat
    BY RootsFacts DEF Walking, Leaves
  <2> DEFINE Old(j) == /\ Follows(p, t, j - 1)
                       /\ j < n => ~Follows(p, t, j)
                       /\ KeyAfter(p, j - 1) \notin frames[j].left
             New(j) == /\ Follows(p, t, j - 1)
                       /\ j < n => ~Follows(p, t, j)
                       /\ KeyAfter(p, j - 1) \notin s[j].left
  <2>2. PassedOn(frames, p) <=> \E j \in 1 .. n : Old(j)
    BY <1>3, <1>7, <1>8, <2>1, PassedByFrame
  <2>3. PassedOn(s, p) <=> \E j \in 1 .. n : New(j)
    <3>1. Len(s) > 0 /\ Len(t) = Len(s) - 1
      BY <1>3, <1>4
    <3>2. \A j \in 1 .. Len(s) : s[j].path = Prefix(t, j - 1)
      BY <1>4, <1>11
    <3>3. PassedOn(s, p) <=>
              \E j \in 1 .. Len(s) :
                 /\ Follows(p, t, j - 1)
                 /\ j < Len(s) => ~Follows(p, t, j)
                 /\ KeyAfter(p, j - 1) \notin s[j].left
      BY <1>3, <1>4, <2>1, <3>1, <3>2, PassedByFrame
    <3> QED
      BY <1>4, <3>3
  <2>4. \A j \in 1 .. n - 1 : New(j) <=> Old(j)
    BY <1>4
  <2>5. Follows(p, t, n - 1) <=> p = t
    <3>1. IsPrefix(t, p) <=> Follows(p, t, n - 1)
      BY <1>3, <2>1, PrefixElements DEF Follows
    <3>2. IsPrefix(t, p) => p = t
      BY <1>2, RootsFacts DEF Walking, Leaves
    <3>3. p = t => IsPrefix(t, p)
      BY <2>1, PrefixElements
    <3> QED
      BY <3>1, <3>2, <3>3
  <2>6. New(n) <=> p = t
    BY <1>3, <1>10, <2>5
  <2>7. ~Old(n)
    <3> SUFFICES ASSUME p = t PROVE KeyAfter(p, n - 1) \in frames[n].left
      BY <2>5
    <3> QED
      BY <1>3, <1>10 DEF KeyAfter
  <2>8. \A j \in 1 .. n - 1 : p = t => ~Old(j)
    <3> SUFFICES ASSUME NEW j \in 1 .. n - 1, p = t PROVE Follows(p, t, j)
      BY <1>3
    <3> QED
      BY <1>3, <2>1 DEF Follows
  <2> HIDE DEF Old, New
  <2> QED
    BY <1>3, <1>9, <2>2, <2>3, <2>4, <2>6, <2>7, <2>8
<1>15. \A p : (Passed(p) <=> PassedOn(frames, p)) /\ (Passed(p)' <=> PassedOn(s, p))
  BY <1>7 DEF Passed, PassedOn
<1> QED
  BY <1>2, <1>7, <1>13, <1>14, <1>15

\* Leaving a dictionary passes no file: all that are below it have been passed.
LEMMA UpKeeps ==
    ASSUME Walking, EscapeUp
    PROVE  WalkInv' /\ \A p \in Leaves : Passed(p)' <=> Passed(p)
<1> DEFINE n == Len(frames)
           t == top.path
           s == frames'
<1>1. frames # <<>> /\ top.left = {} /\ s = Front(frames) /\ bv' = bv
  BY DEF EscapeUp, AtEnd
<1>2. /\ frames \in Seq(Frames) /\ n \in Nat /\ n > 0 /\ DOMAIN frames = 1 .. n
      /\ top = frames[n] /\ top \in Frames /\ t \in Seq(Names) /\ Len(t) = n - 1
  BY <1>1, StackFacts DEF Walking, Frames
<1>3. /\ s \in Seq(Frames) /\ Len(s) = n - 1
      /\ \A j \in 1 .. n - 1 : s[j] = frames[j]
  BY <1>1, <1>2, FrontOfStack
<1> HIDE DEF n, t, s
<1>4. Leaves' = Leaves /\ \A d : KeysAt(d)' = KeysAt(d)
  BY <1>1 DEF KeysAt, Leaves
<1>5. Len(frames) = n /\ top.path = t /\ frames' = s
  BY DEF n, t, s
<1>6. \A j \in 1 .. n :
         frames[j].path = Prefix(t, j - 1) /\ frames[j].left \subseteq KeysAt(frames[j].path)
  BY <1>1, <1>2, <1>5 DEF Walking, WalkInv
<1>7. \A p : (Passed(p) <=> PassedOn(frames, p)) /\ (Passed(p)' <=> PassedOn(s, p))
  BY <1>5 DEF Passed, PassedOn
<1>8. ASSUME NEW p \in Leaves
      PROVE  /\ p \in Seq(Names) /\ Len(p) \in Nat
             /\ PassedOn(frames, p) <=>
                   \E j \in 1 .. n : /\ Follows(p, t, j - 1)
                                     /\ j < n => ~Follows(p, t, j)
                                     /\ KeyAfter(p, j - 1) \notin frames[j].left
  <2>1. p \in Seq(Names) /\ Len(p) \in Nat
    BY RootsFacts DEF Walking, Leaves
  <2> QED
    BY <1>2, <1>5, <1>6, <2>1, PassedByFrame
<1>9. CASE n = 1
  <2>1. s = <<>>
    BY <1>3, <1>9, EmptySeq
  <2>2. ASSUME NEW p \in Leaves PROVE PassedOn(frames, p)
    <3>1. Follows(p, t, 1 - 1)
      BY <1>8 DEF Follows
    <3>2. KeyAfter(p, 1 - 1) \notin frames[1].left
      BY <1>1, <1>2, <1>9
    <3> QED
      BY <1>8, <1>9, <3>1, <3>2
  <2> QED
    BY <1>5, <1>7, <2>1, <2>2 DEF WalkInv, PassedOn
<1>10. CASE n # 1
  <2> DEFINE m == n - 1
             v == Prefix(t, m - 1)
  <2>1. m \in Nat /\ m > 0 /\ m < n /\ m \in 1 .. n /\ m \in 1 .. n - 1 /\ n = m + 1
        /\ m - 1 \in 0 .. Len(t)
    BY <1>2, <1>10
  <2>2. /\ v \in Seq(Names) /\ Len(v) = m - 1
        /\ \A i \in 1 .. m - 1 : v[i] = t[i]
    BY <1>2, <2>1, PrefixOfPath
  <2>3. s[m].path = v /\ s # <<>> /\ DOMAIN s = 1 .. m /\ Len(s) = m /\ m \in 1 .. m
    BY <1>3, <1>6, <2>1, EmptySeq
  <2>4. top'.path = v
    BY <1>5, <2>3 DEF top
  <2> HIDE DEF v, m
  <2>5. \A j \in 0 .. m - 1 : Prefix(v, j) = Prefix(t, j)
    <3> TAKE j \in 0 .. m - 1
    <3>1. j \in 0 .. Len(t) /\ j \in 0 .. Len(v)
      BY <1>2, <2>1, <2>2
    <3>2. /\ Prefix(v, j) \in Seq(Names) /\ Len(Prefix(v, j)) = j
          /\ \A i \in 1 .. j : Prefix(v, j)[i] = v[i]
          /\ Prefix(t, j) \in Seq(Names) /\ Len(Prefix(t, j)) = j
          /\ \A i \in 1 .. j : Prefix(t, j)[i] = t[i]
      BY <1>2, <2>2, <3>1, PrefixOfPath
    <3>3. \A i \in 1 .. j : v[i] = t[i]
      BY <2>1, <2>2
    <3> QED
      BY <3>2, <3>3, SeqEqual
  <2>6. \A j \in 1 .. m :
           s[j].path = Prefix(v, j - 1) /\ s[j].left \subseteq KeysAt(s[j].path)
    <3> TAKE j \in 1 .. m
    <3>1. j \in 1 .. n /\ j \in 1 .. n - 1 /\ j - 1 \in 0 .. m - 1
      BY <2>1
    <3> QED
      BY <1>3, <1>6, <2>5, <3>1
  <2>7. \A j \in 1 .. m : j < m => v[j] \notin s[j].left
    <3> TAKE j \in 1 .. m
    <3> HAVE j < m
    <3>1. j \in 1 .. n - 1 /\ j \in 1 .. m - 1
      BY <2>1
    <3> QED
      BY <1>1, <1>3, <1>5, <2>2, <3>1, StackFacts DEF Walking
  <2>8. WalkInv'
    <3>1. \A j \in DOMAIN frames' : j < Len(frames') => (top.path)'[j] \notin frames'[j].left
      BY <1>5, <2>3, <2>4, <2>7
    <3>2. \A j \in DOMAIN frames' :
              /\ frames'[j].path = Prefix(top'.path, j - 1)
              /\ frames'[j].left \subseteq KeysAt(frames[j].path)'
      BY <1>4, <1>5, <2>3, <2>4, <2>6
    <3> QED
      BY <1>3, <1>5, <2>2, <2>3, <2>4, <3>1, <3>2 DEF WalkInv, Frames
  <2>9. ASSUME NEW p \in Leaves
        PROVE  PassedOn(s, p) <=> PassedOn(frames, p)
    <3> DEFINE Old(j) == /\ Follows(p, t, j - 1)
                         /\ j < n => ~Follows(p, t, j)
                         /\ KeyAfter(p, j - 1) \notin frames[j].left
               New(j) == /\ Follows(p, v, j - 1)
                         /\ j < m => ~Follows(p, v, j)
                         /\ KeyAfter(p, j - 1) \notin s[j].left
    <3>1. p \in Seq(Names) /\ Len(p) \in Nat /\ (PassedOn(frames, p) <=> \E j \in 1 .. n : Old(j))
      BY <1>8
    <3>2. PassedOn(s, p) <=> \E j \in 1 .. m : New(j)
      <4>1. Len(s) > 0 /\ Len(v) = Len(s) - 1
        BY <2>1, <2>2, <2>3
      <4>2. \A j \in 1 .. Len(s) : s[j].path = Prefix(v, j - 1)
        BY <2>3, <2>6
      <4>3. PassedOn(s, p) <=>
                \E j \in 1 .. Len(s) :
                   /\ Follows(p, v, j - 1)
                   /\ j < Len(s) => ~Follows(p, v, j)
                   /\ KeyAfter(p, j - 1) \notin s[j].left
        BY <1>3, <2>2, <3>1, <4>1, <4>2, PassedByFrame
      <4> QED
        BY <2>3, <4>3
    <3>3. \A j \in 0 .. m - 1 : Follows(p, v, j) <=> Follows(p, t, j)
      BY <2>1, <2>2 DEF Follows
    <3>4. ASSUME NEW j \in 1 .. m - 1 PROVE New(j) <=> Old(j)
      <4>1. j - 1 \in 0 .. m - 1 /\ j \in 0 .. m - 1 /\ j < n /\ j < m /\ j \in 1 .. n - 1
        BY <2>1
      <4> QED
        BY <1>3, <3>3, <4>1
    <3>5. Old(n) <=> Follows(p, t, m)
      BY <1>1, <1>2, <2>1
    <3>6. New(m) <=> Follows(p, t, m - 1) /\ KeyAfter(p, m - 1) \notin frames[m].left
      <4>1. m - 1 \in 0 .. m - 1 /\ ~(m < m)
        BY <2>1
      <4> QED
        BY <1>3, <2>1, <3>3, <4>1
    <3>7. Old(m) <=> /\ Follows(p, t, m - 1) /\ ~Follows(p, t, m)
                     /\ KeyAfter(p, m - 1) \notin frames[m].left
      BY <2>1
    <3>8. ASSUME Follows(p, t, m)
          PROVE  Follows(p, t, m - 1) /\ KeyAfter(p, m - 1) \notin frames[m].left
      <4>1. Follows(p, t, m - 1)
        BY <2>1, <3>1, <3>8 DEF Follows
      <4>2. KeyAfter(p, m - 1) = t[m]
        <5>1. m <= Len(p) /\ p[m] = t[m] /\ m - 1 # Len(p) /\ (m - 1) + 1 = m
          BY <2>1, <3>1, <3>8 DEF Follows
        <5> QED
          BY <5>1 DEF KeyAfter
      <4>3. t[m] \notin frames[m].left
        BY <1>1, <1>5, <2>1, StackFacts DEF Walking
      <4> QED
        BY <4>1, <4>2, <4>3
    <3>9. New(m) <=> Old(m) \/ Old(n)
      BY <3>5, <3>6, <3>7, <3>8
    <3>10. \A j \in 1 .. n : j \in 1 .. m - 1 \/ j = m \/ j = n
      BY <2>1
    <3>11. \A j \in 1 .. m : j \in 1 .. m - 1 \/ j = m
      BY <2>1
    <3>12. \A j \in 1 .. m - 1 : j \in 1 .. m /\ j \in 1 .. n
      BY <2>1
    <3>13. m \in 1 .. m /\ m \in 1 .. n /\ n \in 1 .. n
      BY <2>1
    <3> HIDE DEF Old, New
    <3> QED
      BY <3>1, <3>2, <3>4, <3>9, <3>10, <3>11, <3>12, <3>13
  <2> QED
    BY <1>7, <2>8, <2>9
<1> QED
  BY <1>9, <1>10

-----------------------------------------------------------------------------
(* The hashes *)

\* The hashes of the pieces are five units long each, and so are the slices.
LEMMA SlicesAreHashes ==
    ASSUME NEW n \in Nat
    PROVE  /\ Len(Hashes(n, sha1_size)) = n * 5
           /\ RoundedUp(n * 5, sha1_size) = n
           /\ \A i \in 1 .. n :
                 substr(Hashes(n, sha1_size), sha1_size * (i - 1), sha1_size)
                    = Hash(i, sha1_size)
<1>1. n * 5 \in Nat
  OBVIOUS
<1> DEFINE d == Hashes(n, 5)
<1>2. /\ Len(d) = n * 5 /\ d \in Seq(Int \X Int)
      /\ \A u \in 1 .. n * 5 : d[u] = <<1 + (u - 1) \div 5, 1 + ((u - 1) % 5)>>
  BY <1>1 DEF Hashes
<1>3. RoundedUp(n * 5, 5) = n
  BY <1>1 DEF RoundedUp
<1>4. ASSUME NEW i \in 1 .. n
      PROVE  substr(d, 5 * (i - 1), 5) = Hash(i, 5)
  <2> DEFINE a == 5 * (i - 1)
  <2>1. a \in Nat /\ a + 5 <= n * 5
    BY <1>1
  <2>2. ASSUME NEW u \in 1 .. 5
        PROVE  /\ a + u \in 1 .. n * 5 /\ (a + u - 1) \div 5 = i - 1
               /\ (a + u - 1) % 5 = u - 1
    <3> DEFINE x == a + u - 1
    <3>1. x = 5 * (i - 1) + (u - 1) /\ x \in Nat /\ u - 1 \in 0 .. 4 /\ i - 1 \in Nat
      OBVIOUS
    <3>2. a + u \in 1 .. n * 5
      BY <2>1
    <3> HIDE DEF x
    <3>3. x \div 5 = i - 1 /\ x % 5 = u - 1
      BY ONLY <3>1
    <3> QED
      BY <3>2, <3>3 DEF x
  <2> HIDE DEF d, a
  <2>3. substr(d, a, 5) = SubSeq(d, a + 1, a + 5)
    <3> DEFINE m == Len(d)
    <3>0. a \in Nat /\ m \in Nat /\ a + 5 <= m
      BY <1>1, <1>2, <2>1
    <3> HIDE DEF m
    <3>1. (IF a + 5 < m THEN a + 5 ELSE m) = a + 5
      BY <3>0
    <3> USE DEF m
    <3> QED
      BY <3>1 DEF substr
  <2>4. SubSeq(d, a + 1, a + 5) = [u \in 1 .. 5 |-> d[a + u]]
    <3> DEFINE m == n * 5
               E == Int \X Int
    <3>1. d \in Seq(E) /\ Len(d) = m /\ m \in Nat /\ a \in Nat /\ a + 5 <= m
      BY <1>1, <1>2, <2>1
    <3> HIDE DEF m, E
    <3>2. \A u \in 1 .. 5 : a + 1 + u - 1 = a + u
      BY ONLY <3>1
    <3>3. SubSeq(d, a + 1, a + 5) = [u \in 1 .. 5 |-> d[a + 1 + u - 1]]
      BY ONLY <3>1
    <3> QED
      BY ONLY <3>2, <3>3
  <2>5. ASSUME NEW u \in 1 .. 5 PROVE d[a + u] = <<i, u>>
    <3> DEFINE v == a + u
    <3>1. v \in 1 .. n * 5 /\ (v - 1) \div 5 = i - 1 /\ (v - 1) % 5 = u - 1
      <4>1. a + u - 1 = v - 1 /\ u \in 1 .. 5
        BY <2>1
      <4> QED
        BY <2>2, <4>1
    <3> HIDE DEF v
    <3>2. d[v] = <<1 + (v - 1) \div 5, 1 + ((v - 1) % 5)>>
      BY <1>2, <3>1
    <3>3. 1 + (v - 1) \div 5 = i /\ 1 + ((v - 1) % 5) = u
      <4> DEFINE x == (v - 1) \div 5
                 y == (v - 1) % 5
      <4>1. x = i - 1 /\ y = u - 1 /\ i \in Int /\ u \in Int
        BY <3>1
      <4> HIDE DEF x, y
      <4>2. 1 + x = i /\ 1 + y = u
        BY <4>1
      <4> QED
        BY <4>2 DEF x, y
    <3>4. d[v] = <<i, u>>
      BY <3>2, <3>3
    <3> QED
      BY <3>4 DEF v
  <2> QED
    BY <2>3, <2>4, <2>5 DEF Hash, a
<1> QED
  BY <1>2, <1>3, <1>4 DEF sha1_size, d

\* The piece hashes of a metafile that has some, escaped in both ways.
LEMMA PiecesEscaped ==
    ASSUME metafile \in Metafiles, options.show_binary \in BOOLEAN,
           hex = options.show_binary
    PROVE  /\ metafile.pieces = 0 => /\ Value(metafile).pieces.form = "missing"
                                     /\ Value(metafile).pieces = PiecesToShow
           /\ metafile.pieces # 0 => /\ Value(metafile).pieces.form # "missing"
                                     /\ EscapedPieces(Value(metafile).pieces) = PiecesToShow
<1> DEFINE n == metafile.pieces
           d == Hashes(n, sha1_size)
<1>1. n \in Nat
  BY MetafileAssumption
<1>2. Value(metafile).pieces = IF n = 0 THEN NoValue ELSE Raw(d)
  BY DEF Value
<1>3. /\ Len(d) = n * 5 /\ RoundedUp(n * 5, sha1_size) = n
      /\ \A i \in 1 .. n : substr(d, sha1_size * (i - 1), sha1_size) = Hash(i, sha1_size)
  BY <1>1, SlicesAreHashes
<1> HIDE DEF n, d
<1>4. CASE n = 0
  BY <1>2, <1>4 DEF NoValue, PiecesToShow, n
<1>5. CASE n # 0
  <2>1. Value(metafile).pieces = Raw(d) /\ Raw(d).form # "missing" /\ Raw(d).data = d
    BY <1>2, <1>5 DEF Raw
  <2>2. CASE ~options.show_binary
    <3>1. EscapedPieces(Raw(d)) = Described(n)
      BY <1>3, <2>1, <2>2 DEF EscapedPieces
    <3>2. PiecesToShow = Described(n)
      BY <1>5, <2>2 DEF PiecesToShow, n
    <3> QED
      BY <1>5, <2>1, <3>1, <3>2 DEF n
  <2>3. CASE options.show_binary
    <3>1. EscapedPieces(Raw(d))
             = Listed([i \in 1 .. n |-> substr(d, sha1_size * (i - 1), sha1_size)])
      BY <1>3, <2>1, <2>3 DEF EscapedPieces, make_v1_piece_list
    <3>2. PiecesToShow = Listed([i \in 1 .. n |-> Hash(i, sha1_size)])
      BY <1>5, <2>3 DEF PiecesToShow, n
    <3>3. [i \in 1 .. n |-> substr(d, sha1_size * (i - 1), sha1_size)]
             = [i \in 1 .. n |-> Hash(i, sha1_size)]
      BY <1>3
    <3> QED
      BY <1>5, <2>1, <3>1, <3>2, <3>3 DEF n
  <2> QED
    BY <2>2, <2>3
<1> QED
  BY <1>4, <1>5 DEF n

\* A piece layer is cut at every five units, of which it has at least as many as of
\* hashes.
LEMMA SlicesAreShort ==
    ASSUME NEW n \in Nat
    PROVE  /\ Len(Hashes(n, sha256_size)) = n * 8
           /\ RoundedUp(n * 8, sha256_size) = n /\ (n * 8) \div sha256_size = n
           /\ \A i \in 1 .. n :
                 substr(Hashes(n, sha256_size), sha1_size * (i - 1), sha1_size) = ShortSlice(i)
<1>1. n * 8 \in Nat
  OBVIOUS
<1> DEFINE d == Hashes(n, 8)
<1>2. /\ Len(d) = n * 8 /\ d \in Seq(Int \X Int)
      /\ \A u \in 1 .. n * 8 : d[u] = <<1 + (u - 1) \div 8, 1 + ((u - 1) % 8)>>
  BY <1>1 DEF Hashes
<1>3. RoundedUp(n * 8, 8) = n /\ (n * 8) \div 8 = n
  BY <1>1 DEF RoundedUp
<1>4. ASSUME NEW i \in 1 .. n
      PROVE  substr(d, 5 * (i - 1), 5) = ShortSlice(i)
  <2> DEFINE a == 5 * (i - 1)
             m == n * 8
             E == Int \X Int
  <2>1. a \in Nat /\ a + 5 <= m /\ m \in Nat /\ Len(d) = m /\ d \in Seq(E)
    BY <1>1, <1>2
  <2>2. ShortSlice(i) = [u \in 1 .. 5 |-> <<1 + (a + (u - 1)) \div 8, 1 + ((a + (u - 1)) % 8)>>]
    BY DEF ShortSlice, sha1_size, sha256_size
  <2>3. \A u \in 1 .. m : d[u] = <<1 + (u - 1) \div 8, 1 + ((u - 1) % 8)>>
    BY <1>2
  <2> HIDE DEF d, a, m, E
  <2>4. (IF a + 5 < m THEN a + 5 ELSE m) = a + 5
    BY <2>1
  <2>5. substr(d, a, 5) = SubSeq(d, a + 1, a + 5)
    BY <2>1, <2>4 DEF substr
  <2>6. \A u \in 1 .. 5 : a + 1 + u - 1 = a + u /\ a + u \in 1 .. m /\ (a + u) - 1 = a + (u - 1)
    BY <2>1
  <2>7. SubSeq(d, a + 1, a + 5) = [u \in 1 .. 5 |-> d[a + 1 + u - 1]]
    BY ONLY <2>1
  <2>8. SubSeq(d, a + 1, a + 5) = [u \in 1 .. 5 |-> d[a + u]]
    BY ONLY <2>6, <2>7
  <2>9. ASSUME NEW u \in 1 .. 5
        PROVE  d[a + u] = <<1 + (a + (u - 1)) \div 8, 1 + ((a + (u - 1)) % 8)>>
    BY ONLY <2>3, <2>6, <2>9
  <2> QED
    BY <2>2, <2>5, <2>8, <2>9 DEF a
<1> QED
  BY <1>2, <1>3, <1>4 DEF sha1_size, sha256_size, d

\* The piece layers of a metafile, escaped in both ways.
LEMMA LayersEscaped ==
    ASSUME metafile \in Metafiles, hex = options.show_binary
    PROVE  LET layers == Value(metafile).layers
           IN [r \in DOMAIN layers |-> EscapedLayer(layers[r])] = LayersToShow
<1> DEFINE L == DOMAIN metafile.layers
           layers == Value(metafile).layers
<1>1. layers = [r \in L |-> Raw(Hashes(metafile.layers[r], sha256_size))]
  BY DEF Value
<1>2. DOMAIN layers = L
  BY <1>1
<1>3. ASSUME NEW r \in L
      PROVE  EscapedLayer(layers[r])
                = IF options.show_binary
                  THEN Listed([n \in 1 .. metafile.layers[r] |-> ShortSlice(n)])
                  ELSE Described(metafile.layers[r])
  <2> DEFINE n == metafile.layers[r]
             d == Hashes(n, sha256_size)
  <2>1. n \in Nat
    <3>1. metafile.layers \in [L -> Nat]
      BY MetafileAssumption
    <3> QED
      BY <3>1
  <2>2. layers[r].data = d
    BY <1>1 DEF Raw
  <2>3. /\ RoundedUp(Len(d), sha256_size) = n /\ Len(d) \div sha256_size = n
        /\ \A i \in 1 .. n : substr(d, sha1_size * (i - 1), sha1_size) = ShortSlice(i)
    BY <2>1, SlicesAreShort
  <2> HIDE DEF n, d, layers
  <2>4. make_v2_piece_list(layers[r]) = Listed([i \in 1 .. n |-> ShortSlice(i)])
    <3>1. make_v2_piece_list(layers[r])
             = Listed([i \in 1 .. n |-> substr(d, sha1_size * (i - 1), sha1_size)])
      BY <2>2, <2>3 DEF make_v2_piece_list
    <3>2. [i \in 1 .. n |-> substr(d, sha1_size * (i - 1), sha1_size)]
             = [i \in 1 .. n |-> ShortSlice(i)]
      BY <2>3
    <3> QED
      BY <3>1, <3>2
  <2>5. EscapedLayer(layers[r]) = IF hex THEN make_v2_piece_list(layers[r]) ELSE Described(n)
    BY <2>2, <2>3 DEF EscapedLayer
  <2> QED
    BY <2>4, <2>5 DEF n
<1> HIDE DEF layers
<1>4. [r \in DOMAIN layers |-> EscapedLayer(layers[r])] = LayersToShow
  BY <1>2, <1>3 DEF LayersToShow
<1> QED
  BY <1>4 DEF layers

-----------------------------------------------------------------------------
(* The steps of the escaping *)

\* A root of the metafile before it is escaped.
LEMMA ValueRoots ==
    ASSUME NEW p \in DOMAIN metafile.roots
    PROVE  /\ metafile.roots[p] = 0 => Value(metafile).roots[p].form = "missing"
           /\ metafile.roots[p] # 0 =>
                 /\ Value(metafile).roots[p] = Raw(<<metafile.roots[p]>>)
                 /\ Value(metafile).roots[p].form = "raw"
                 /\ Value(metafile).roots[p].data = <<metafile.roots[p]>>
BY DEF Value, NoValue, Raw

\* The operators that speak of the metafile and the options alone.
SameAnswers ==
    /\ PiecesToShow' = PiecesToShow /\ LayersToShow' = LayersToShow
    /\ RootsToShow' = RootsToShow /\ ValueToShow' = ValueToShow
    /\ (Unshowable' <=> Unshowable) /\ (Queried' <=> Queried) /\ (Summed' <=> Summed)
    /\ \A i : Unsummed(i)' <=> Unsummed(i)
    /\ \A n : SumLines(n)' = SumLines(n)
    /\ Answer' = Answer /\ WholeAnswer' = WholeAnswer
    /\ Value(metafile)' = Value(metafile)

LEMMA AnswersStay ==
    ASSUME UNCHANGED <<metafile, options>>
    PROVE  SameAnswers
<1>1. PiecesToShow' = PiecesToShow /\ LayersToShow' = LayersToShow /\ RootsToShow' = RootsToShow
  BY DEF PiecesToShow, LayersToShow, RootsToShow
<1>2. ValueToShow' = ValueToShow
  BY <1>1 DEF ValueToShow
<1>3. (Unshowable' <=> Unshowable) /\ (Queried' <=> Queried) /\ (Summed' <=> Summed)
      /\ \A i : Unsummed(i)' <=> Unsummed(i)
  BY DEF Unshowable, HasEmptyFile, Queried, Summed, Unsummed
<1>4. \A n : SumLines(n)' = SumLines(n)
  BY DEF SumLines
<1>5. Answer' = Answer
  <2>1. options' = options
    OBVIOUS
  <2> QED
    BY <1>2, <2>1 DEF Answer
<1>6. /\ AnnounceLines' = AnnounceLines /\ InfohashLines' = InfohashLines
      /\ FileLines' = FileLines /\ checksum_names' = checksum_names
      /\ \A f : FieldLines(f)' = FieldLines(f)
  <2>1. AnnounceLines' = AnnounceLines
    BY DEF AnnounceLines
  <2>2. InfohashLines' = InfohashLines
    BY DEF InfohashLines
  <2>3. FileLines' = FileLines
    BY DEF FileLines
  <2>4. checksum_names' = checksum_names
    BY DEF checksum_names, available_checksums
  <2>5. \A f : FieldLines(f)' = FieldLines(f)
    BY DEF FieldLines
  <2> QED
    BY <2>1, <2>2, <2>3, <2>4, <2>5
<1>7. WholeAnswer' = WholeAnswer
  BY <1>3, <1>4, <1>5, <1>6 DEF WholeAnswer
<1>8. Value(metafile)' = Value(metafile)
  BY DEF Value
<1> QED
  BY <1>1, <1>2, <1>3, <1>4, <1>5, <1>7, <1>8 DEF SameAnswers

\* The walk begins with no file passed.
LEMMA HashesStep ==
    ASSUME metafile \in Metafiles, OptionsInv, EscapeInv, EscapeHashes,
           UNCHANGED <<metafile, options>>
    PROVE  EscapeInv'
<1> DEFINE m == metafile
           P == Value(m).pieces
           L == Value(m).layers
           R == Value(m).roots
           a == IF P.form = "missing" THEN P ELSE EscapedPieces(P)
           b == [r \in DOMAIN L |-> EscapedLayer(L[r])]
<1>1. /\ bv = Value(m) /\ hex = options.show_binary /\ options.show_binary \in BOOLEAN
      /\ hex' = hex /\ SameAnswers /\ m.layered \in BOOLEAN
  BY AnswersStay, MetafileAssumption DEF EscapeInv, EscapeHashes, OptionsInv
<1>2. /\ bv = [pieces |-> P, layered |-> m.layered, layers |-> L, layer_keys |-> "raw",
               roots |-> R]
      /\ DOMAIN R = DOMAIN m.roots /\ R = [p \in DOMAIN m.roots |-> R[p]]
  BY <1>1 DEF Value
<1>3. a = PiecesToShow /\ b = LayersToShow
  BY <1>1, PiecesEscaped, LayersEscaped
<1>4. pieces_escaped = [bv EXCEPT !.pieces = a]
  BY <1>1 DEF pieces_escaped
<1>5. bv.layered => bv' = [pieces_escaped EXCEPT
                             !.layers = [r \in DOMAIN @ |-> EscapedLayer(@[r])],
                             !.layer_keys = "merkle root"]
  BY DEF EscapeHashes
<1> HIDE DEF P, L, R, a
<1>6. pieces_escaped = [pieces |-> a, layered |-> m.layered, layers |-> L,
                        layer_keys |-> "raw", roots |-> R]
      /\ pieces_escaped.layers = L /\ bv.layered = m.layered /\ bv.roots = R
  BY <1>2, <1>4
<1>7. DOMAIN bv.roots = DOMAIN m.roots
  BY <1>2, <1>6
<1>8. CASE ~m.layered
  <2>1. bv' = pieces_escaped /\ escape' = "done"
    BY <1>6, <1>8 DEF EscapeHashes
  <2>2. L = LayersToShow
    <3>1. L = [r \in DOMAIN m.layers |-> Raw(Hashes(m.layers[r], sha256_size))]
      BY DEF Value, L
    <3>2. DOMAIN m.layers = {}
      BY <1>8, MetafileAssumption
    <3> QED
      BY <3>1, <3>2 DEF LayersToShow
  <2>3. R = RootsToShow
    <3>1. R = [p \in DOMAIN m.roots |->
                 IF m.roots[p] = 0 THEN NoValue ELSE Raw(<<m.roots[p]>>)]
      BY DEF Value, R
    <3>2. \A p \in DOMAIN m.roots :
             (IF m.roots[p] = 0 THEN NoValue ELSE Raw(<<m.roots[p]>>))
               = (CASE m.layered -> MerkleRoot(<<m.roots[p]>>)
                    [] ~m.layered /\ m.roots[p] = 0 -> NoValue
                    [] ~m.layered /\ m.roots[p] # 0 -> Raw(<<m.roots[p]>>))
      BY <1>8
    <3> QED
      BY <3>1, <3>2 DEF RootsToShow
  <2>4. bv' = ValueToShow
    BY <1>3, <1>6, <1>8, <2>1, <2>2, <2>3 DEF ValueToShow
  <2>5. ~Unshowable
    BY <1>8 DEF Unshowable
  <2> QED
    BY <1>1, <2>1, <2>4, <2>5 DEF EscapeInv, SameAnswers
<1>9. CASE m.layered
  <2>1. escape' = "tree" /\ frames' = <<Frame(<<>>)>>
    BY <1>6, <1>9 DEF EscapeHashes
  <2>9. /\ bv' = [pieces |-> PiecesToShow, layered |-> m.layered, layers |-> LayersToShow,
                  layer_keys |-> "merkle root", roots |-> R]
        /\ bv'.roots = R
    <3>1. bv' = [pieces_escaped EXCEPT !.layers = [r \in DOMAIN L |-> EscapedLayer(L[r])],
                                      !.layer_keys = "merkle root"]
      BY <1>5, <1>6, <1>9
    <3>2. bv' = [pieces_escaped EXCEPT !.layers = LayersToShow, !.layer_keys = "merkle root"]
      BY <1>3, <3>1
    <3> QED
      BY <1>3, <1>6, <3>2
  <2>2. <<>> \in Seq(Names) /\ Len(<<>>) = 0
    BY EmptySeq
  <2>3. /\ KeysAt(<<>>) \subseteq Nat /\ Frame(<<>>) \in Frames
        /\ \A d : KeysAt(d)' = KeysAt(d)
    BY <1>6, <1>7, <2>2, <2>9, FileKeys DEF Frame, Frames, KeysAt, Leaves
  <2>4. /\ frames' \in Seq(Frames) /\ Len(frames') = 1 /\ frames'[1] = Frame(<<>>)
        /\ DOMAIN frames' = 1 .. 1 /\ frames' # <<>> /\ top' = Frame(<<>>)
    BY <2>1, <2>3 DEF top
  <2> DEFINE e == <<>>
  <2>10. e \in Seq(Names) /\ Len(e) = 0
    BY <2>2
  <2> HIDE DEF e
  <2>5. Prefix(e, 0) = e
    <3>1. 0 \in 0 .. Len(e)
      BY <2>10
    <3> QED
      BY <2>10, <3>1, PrefixOfPath
  <2>6. WalkInv'
    <3>1. (top.path)' = <<>> /\ frames'[1].path = <<>> /\ frames'[1].left = KeysAt(<<>>)
      BY <2>4 DEF Frame
    <3>2. \A j \in DOMAIN frames' : frames'[j].path = Prefix((top.path)', j - 1)
                                  /\ frames'[j].left \subseteq KeysAt(frames[j].path)'
      BY <2>3, <2>4, <2>5, <3>1 DEF e
    <3>3. \A j \in DOMAIN frames' : ~(j < Len(frames'))
      BY <2>4
    <3> QED
      BY <2>2, <2>4, <3>1, <3>2, <3>3 DEF WalkInv, Frames
  <2>7. ASSUME NEW p \in DOMAIN m.roots PROVE ~Passed(p)'
    <3>1. p \in Leaves /\ p \in Seq(Names)
      BY <1>7, RootsFacts DEF Leaves
    <3>2. IsPrefix(e, p)
      <4>1. 0 <= Len(p) /\ 1 .. Len(e) = {}
        BY <2>10, <3>1
      <4> QED
        BY <2>10, <3>1, <4>1, PrefixElements
    <3>3. KeyTo(e, p) \in KeysAt(e)
      BY <1>7, <2>10, <3>1, <3>2, KeysOnTheWay
    <3> QED
      BY <2>4, <3>3 DEF Passed, Frame, e
  <2>8. RootsInv'
    BY <1>1, <1>2, <2>7, <2>9 DEF RootsInv, SameAnswers, R
  <2> QED
    BY <1>1, <1>2, <1>9, <2>1, <2>6, <2>8, <2>9 DEF EscapeInv, SameAnswers
<1> QED
  BY <1>1, <1>8, <1>9

\* A step of the walk keeps what is passed and what is in words together.
LEMMA TreeStep ==
    ASSUME metafile \in Metafiles, EscapeInv, escape = "tree",
           EscapeDescend \/ EscapeFile \/ EscapeUp, UNCHANGED <<metafile, options>>
    PROVE  EscapeInv'
<1> DEFINE m == metafile
<1>1. /\ WalkInv /\ RootsInv /\ bv.roots = [p \in DOMAIN m.roots |-> bv.roots[p]]
      /\ bv = [pieces |-> PiecesToShow, layered |-> m.layered, layers |-> LayersToShow,
               layer_keys |-> "merkle root", roots |-> bv.roots]
      /\ m.layered /\ hex = options.show_binary
  BY DEF EscapeInv
<1>2. DOMAIN bv.roots = DOMAIN m.roots
  <2> DEFINE D == DOMAIN m.roots
             r == bv.roots
  <2>1. r = [p \in D |-> r[p]]
    BY <1>1
  <2> HIDE DEF D, r
  <2> QED
    BY <2>1 DEF D, r
<1>3. Walking /\ Leaves = DOMAIN m.roots
  BY <1>1, <1>2 DEF Walking, Leaves
<1>4. escape' = "tree" /\ hex' = hex
  BY DEF EscapeDescend, EscapeFile, EscapeUp
<1>5. SameAnswers
  BY AnswersStay
<1>6. CASE EscapeDescend \/ EscapeUp
  <2>1. bv' = bv
    BY <1>6 DEF EscapeDescend, EscapeUp
  <2>2. WalkInv' /\ \A p \in DOMAIN m.roots : Passed(p)' <=> Passed(p)
    BY <1>3, <1>6, DescendKeeps, UpKeeps
  <2>3. RootsInv'
    BY <1>1, <1>5, <2>1, <2>2 DEF RootsInv, SameAnswers
  <2> QED
    BY <1>1, <1>4, <1>5, <2>1, <2>2, <2>3 DEF EscapeInv, SameAnswers
<1>7. CASE EscapeFile
  <2> DEFINE t == top.path
  <2>1. /\ bv.roots[t].form = "raw" /\ bv' = [bv EXCEPT !.roots[t] = MerkleRoot(@.data)]
    BY <1>7 DEF EscapeFile
  <2>2. /\ WalkInv' /\ t \in DOMAIN m.roots /\ ~Passed(t)
        /\ \A p \in DOMAIN m.roots : Passed(p)' <=> Passed(p) \/ p = t
    BY <1>3, <1>7, FilePasses
  <2>3. m.roots[t] # 0 /\ bv.roots[t].data = <<m.roots[t]>>
    <3>1. bv.roots[t] = Value(m).roots[t]
      BY <1>1, <2>2 DEF RootsInv
    <3> QED
      BY <2>1, <2>2, <3>1, ValueRoots
  <2> HIDE DEF t
  <2>4. /\ bv'.roots = [bv.roots EXCEPT ![t] = MerkleRoot(<<m.roots[t]>>)]
        /\ bv' = [pieces |-> PiecesToShow, layered |-> m.layered, layers |-> LayersToShow,
                  layer_keys |-> "merkle root", roots |-> bv'.roots]
    <3> DEFINE r == [bv.roots EXCEPT ![t] = MerkleRoot(bv.roots[t].data)]
    <3>1. bv' = [bv EXCEPT !.roots = r]
      BY <2>1
    <3>2. r = [bv.roots EXCEPT ![t] = MerkleRoot(<<m.roots[t]>>)]
      BY <2>3
    <3> DEFINE P == PiecesToShow
               L == LayersToShow
               y == m.layered
               old == bv.roots
    <3>3. bv = [pieces |-> P, layered |-> y, layers |-> L, layer_keys |-> "merkle root",
                roots |-> old]
      BY <1>1
    <3> HIDE DEF r, P, L, y, old
    <3>4. /\ bv' = [pieces |-> P, layered |-> y, layers |-> L, layer_keys |-> "merkle root",
                    roots |-> r]
          /\ bv'.roots = r
      BY ONLY <3>1, <3>3
    <3> QED
      BY <3>2, <3>4 DEF P, L, y
  <2>5. /\ bv'.roots = [p \in DOMAIN m.roots |-> bv'.roots[p]]
        /\ bv'.roots[t] = MerkleRoot(<<m.roots[t]>>)
        /\ \A p \in DOMAIN m.roots : p # t => bv'.roots[p] = bv.roots[p]
    BY <1>2, <2>2, <2>4
  <2>6. RootsInv'
    BY <1>1, <1>5, <2>2, <2>3, <2>5 DEF RootsInv, SameAnswers
  <2> QED
    BY <1>1, <1>4, <1>5, <2>2, <2>4, <2>5, <2>6 DEF EscapeInv, SameAnswers
<1> QED
  BY <1>6, <1>7

\* Every step of the escaping.
LEMMA EscapeKeeps ==
    ASSUME metafile \in Metafiles, OptionsInv, EscapeInv, Escape,
           UNCHANGED <<metafile, options>>
    PROVE  EscapeInv'
<1>1. SameAnswers
  BY AnswersStay
<1>2. CASE EscapeHashes
  BY <1>2, HashesStep
<1>3. CASE EscapeDescend \/ EscapeFile \/ EscapeUp
  <2>1. escape = "tree"
    BY <1>3 DEF EscapeDescend, EscapeFile, EscapeUp
  <2> QED
    BY <1>3, <2>1, TreeStep
<1>4. CASE EscapeThrows
  <2> DEFINE p == top.path
  <2>1. /\ escape = "tree" /\ frames # <<>> /\ ~AtEnd /\ key = FileKey
        /\ bv.roots[p].form # "raw" /\ escape' = "failed" /\ UNCHANGED <<bv, hex, frames>>
    BY <1>4 DEF EscapeThrows
  <2>2. /\ metafile.layered /\ bv.roots = [q \in DOMAIN metafile.roots |-> bv.roots[q]]
        /\ WalkInv /\ RootsInv /\ hex = options.show_binary
    BY <2>1 DEF EscapeInv
  <2>3. DOMAIN bv.roots = DOMAIN metafile.roots
    <3> DEFINE D == DOMAIN metafile.roots
               r == bv.roots
    <3>1. r = [q \in D |-> r[q]]
      BY <2>2
    <3> HIDE DEF D, r
    <3> QED
      BY <3>1 DEF D, r
  <2>4. Walking
    BY <2>2, <2>3 DEF Walking
  <2>5. p \in DOMAIN metafile.roots /\ key \in top.left
    BY <2>1, <2>3, <2>4, KeyFacts DEF Leaves
  <2>6. ~Passed(p)
    BY <2>1, <2>2, <2>4, <2>5, TopNotPassed DEF Leaves
  <2>7. metafile.roots[p] = 0
    BY <2>1, <2>2, <2>5, <2>6, ValueRoots DEF RootsInv
  <2>8. Unshowable
    BY <2>2, <2>5, <2>7 DEF Unshowable, HasEmptyFile
  <2> QED
    BY <1>1, <2>1, <2>2, <2>8 DEF EscapeInv, SameAnswers
<1>5. CASE EscapeReturn
  <2>1. escape = "tree" /\ escape' = "done" /\ frames = <<>> /\ UNCHANGED <<bv, hex, frames>>
    BY <1>5 DEF EscapeReturn
  <2>2. \A p \in DOMAIN metafile.roots :
           metafile.roots[p] # 0 /\ bv.roots[p] = MerkleRoot(<<metafile.roots[p]>>)
    BY <2>1 DEF EscapeInv, RootsInv, Passed
  <2>3. /\ metafile.layered
        /\ bv = [pieces |-> PiecesToShow, layered |-> metafile.layered,
                 layers |-> LayersToShow, layer_keys |-> "merkle root", roots |-> bv.roots]
        /\ bv.roots = [p \in DOMAIN metafile.roots |-> bv.roots[p]]
    BY <2>1 DEF EscapeInv
  <2>4. bv.roots = RootsToShow /\ ~Unshowable
    BY <2>2, <2>3 DEF RootsToShow, Unshowable, HasEmptyFile
  <2>5. bv = ValueToShow
    BY <2>3, <2>4 DEF ValueToShow
  <2> QED
    BY <1>1, <2>1, <2>4, <2>5 DEF EscapeInv, SameAnswers
<1> QED
  BY <1>2, <1>3, <1>4, <1>5 DEF Escape

-----------------------------------------------------------------------------
(* The command *)

\* What the callback of a subcommand names is in the dispatch table, and is the field of
\* the subcommand itself, but for dht-nodes.
LEMMA FieldFacts ==
    ASSUME NEW name \in Subcommands
    PROVE  /\ SubcommandOf(name) \in DOMAIN dispatch_table
           /\ name # "dht-nodes" => dispatch_table[SubcommandOf(name)] = name
           /\ name = "dht-nodes" => dispatch_table[SubcommandOf(name)] = "http-seeds"
           /\ SubcommandOf(name) # "raw" /\ name # "raw"
           /\ SubcommandOf(name) = "query" => name = "query"
           /\ SubcommandOf(name) = "checksum" => name = "checksums"
           /\ name = "checksums" => SubcommandOf(name) = "checksum"
<1> DEFINE D == (Subcommands \ {"collections", "checksums"}) \union {"collection", "checksum"}
<1>1. /\ name \notin {"raw", "collection", "checksum"}
      /\ "http-seeds" \in D /\ "collection" \in D /\ "checksum" \in D
  BY DEF Subcommands, ScalarFields, ListFields
<1>2. /\ DOMAIN dispatch_table = D
      /\ dispatch_table["collection"] = "collections"
      /\ dispatch_table["checksum"] = "checksums"
      /\ \A t \in D : t \notin {"collection", "checksum"} => dispatch_table[t] = t
  BY DEF dispatch_table
<1>3. /\ name = "dht-nodes" => SubcommandOf(name) = "http-seeds"
      /\ name = "collections" => SubcommandOf(name) = "collection"
      /\ name = "checksums" => SubcommandOf(name) = "checksum"
      /\ name \notin {"dht-nodes", "collections", "checksums"} => SubcommandOf(name) = name
  BY DEF SubcommandOf
<1>4. name \notin {"collections", "checksums"} => name \in D
  OBVIOUS
<1> HIDE DEF D
<1>5. CASE name \in {"dht-nodes", "collections", "checksums"}
  BY <1>1, <1>2, <1>3, <1>5
<1>6. CASE name \notin {"dht-nodes", "collections", "checksums"}
  BY <1>1, <1>2, <1>3, <1>4, <1>6
<1> QED
  BY <1>5, <1>6

\* The options that a subcommand can have.
LEMMA OptionsChosen ==
    ASSUME NEW name \in Subcommands, NEW o \in OptionsOf(name)
    PROVE  /\ o.name = name /\ o.subcommand = SubcommandOf(name)
           /\ o.show_binary \in BOOLEAN /\ o.protocol \in Protocols
<1> DEFINE c == Chosen(name)
<1>1. /\ c = [name |-> name, subcommand |-> SubcommandOf(name), flat |-> FALSE,
              protocol |-> "hybrid", truncate |-> FALSE, padding |-> FALSE,
              algorithm |-> NoAlgorithm, query |-> <<"none">>, show_binary |-> FALSE]
  <2> DEFINE no == FALSE
             none == <<"none">>
             sub == SubcommandOf(name)
  <2> HIDE DEF no, none, sub
  <2>1. DefaultOptions = [name |-> "none", subcommand |-> "none", flat |-> no,
                          protocol |-> "hybrid", truncate |-> no, padding |-> no,
                          algorithm |-> NoAlgorithm, query |-> none, show_binary |-> no]
    BY DEF DefaultOptions, no, none
  <2>2. c = [DefaultOptions EXCEPT !.name = name, !.subcommand = sub]
    BY DEF Chosen, sub
  <2>3. c = [name |-> name, subcommand |-> sub, flat |-> no,
             protocol |-> "hybrid", truncate |-> no, padding |-> no,
             algorithm |-> NoAlgorithm, query |-> none, show_binary |-> no]
    BY <2>1, <2>2
  <2> QED
    BY <2>3 DEF no, none, sub
<1>2. c.name = name /\ c.subcommand = SubcommandOf(name) /\ c.show_binary \in BOOLEAN
      /\ c.protocol \in Protocols
  BY <1>1 DEF Protocols
<1> HIDE DEF c
<1>3. CASE name = "announce-urls"
  <2>1. PICK f \in BOOLEAN : o = [c EXCEPT !.flat = f]
    BY <1>3 DEF OptionsOf, c
  <2> QED
    BY <1>1, <1>2, <2>1
<1>4. CASE name = "infohash"
  <2>1. PICK v \in Protocols \X BOOLEAN :
            o = [c EXCEPT !.protocol = v[1], !.truncate = v[2]]
    BY <1>4 DEF OptionsOf, c
  <2>2. v[1] \in Protocols
    OBVIOUS
  <2> QED
    BY <1>1, <1>2, <2>1, <2>2
<1>5. CASE name = "files"
  <2>1. PICK f \in BOOLEAN : o = [c EXCEPT !.padding = f]
    BY <1>5 DEF OptionsOf, c
  <2> QED
    BY <1>1, <1>2, <2>1
<1>6. CASE name = "checksums"
  <2>1. PICK a \in Algorithms \union {NoAlgorithm} : o = [c EXCEPT !.algorithm = a]
    BY <1>6 DEF OptionsOf, c
  <2> QED
    BY <1>1, <1>2, <2>1
<1>7. CASE name = "query"
  <2>1. PICK v \in Queries \X BOOLEAN :
            o = [c EXCEPT !.query = v[1], !.show_binary = v[2]]
    BY <1>7 DEF OptionsOf, c
  <2>2. v[2] \in BOOLEAN
    OBVIOUS
  <2> QED
    BY <1>1, <1>2, <2>1, <2>2
<1>8. CASE name \notin {"announce-urls", "infohash", "files", "checksums", "query"}
  <2>1. OptionsOf(name) = {c}
    BY <1>8 DEF OptionsOf, c
  <2> QED
    BY <1>2, <2>1
<1> QED
  BY <1>3, <1>4, <1>5, <1>6, <1>7, <1>8

\* Nothing is said of an answer before there is one.
LEMMA NoAnswerYet ==
    outcome = "none" => AnswersWhole
BY DEF AnswersWhole

\* Before the command line is read there is nothing.
LEMMA ShowInit == Init => ShowInv
BY NoAnswerYet DEF Init, ShowInv

\* Reading the command line.
LEMMA ParseStep ==
    ASSUME ShowInv, (\E name \in Subcommands : Parse(name)) \/ ParseRaw
    PROVE  ShowInv'
<1>1. CASE \E name \in Subcommands : Parse(name)
  <2>1. PICK name \in Subcommands : Parse(name)
    BY <1>1
  <2>2. OptionsInv'
    BY <2>1, OptionsChosen DEF Parse, OptionsInv
  <2>3. outcome' = "none" => AnswersWhole'
    BY DEF AnswersWhole
  <2> QED
    BY <2>1, <2>2, <2>3 DEF Parse, ShowInv, escapeVars
<1>2. CASE ParseRaw
  <2>1. PICK b \in BOOLEAN :
            options' = [DefaultOptions EXCEPT !.name = "raw", !.subcommand = "raw",
                                              !.query = Query("everything"), !.show_binary = b]
    BY <1>2 DEF ParseRaw
  <2>2. OptionsInv'
    BY <2>1 DEF OptionsInv, DefaultOptions, Protocols
  <2>3. outcome' = "none" => AnswersWhole'
    BY DEF AnswersWhole
  <2> QED
    BY <1>2, <2>2, <2>3 DEF ParseRaw, ShowInv, escapeVars
<1> QED
  BY <1>1, <1>2

\* A subcommand prints the lines of the field it is named after.
LEMMA FieldStep ==
    ASSUME ShowInv, RunField
    PROVE  ShowInv'
<1>1. /\ app = "run" /\ options.subcommand \in DOMAIN dispatch_table
      /\ field \notin {"query", "checksums"}
      /\ output' = CASE field = "announce-urls" -> AnnounceLines
                     [] field = "infohash" -> InfohashLines
                     [] field = "files" -> FileLines
                     [] OTHER -> FieldLines(field)
      /\ app' = "end" /\ outcome' = "ok"
      /\ UNCHANGED <<metafile, options, bv, hex, frames, escape>>
  BY DEF RunField, End, escapeVars
<1>2. OptionsInv
  BY <1>1 DEF ShowInv
<1>3. options.name \in Subcommands /\ options.subcommand = SubcommandOf(options.name)
  <2>1. "raw" \notin DOMAIN dispatch_table
    BY DEF dispatch_table, Subcommands, ScalarFields, ListFields
  <2> QED
    BY <1>1, <1>2, <2>1 DEF OptionsInv
<1>4. /\ options.name # "dht-nodes" => field = options.name
      /\ options.name = "dht-nodes" => field = "http-seeds"
  BY <1>3, FieldFacts DEF field
<1>5. options.name \notin {"query", "raw", "checksums"}
  BY <1>1, <1>3, <1>4, FieldFacts
<1>6. output' = WholeAnswer
  <2>1. ~Queried /\ ~Summed
    BY <1>5 DEF Queried, Summed
  <2>2. CASE options.name = "dht-nodes"
    <3>1. output' = FieldLines("http-seeds")
      BY <1>1, <1>4, <2>2
    <3> QED
      BY <2>1, <2>2, <3>1 DEF WholeAnswer
  <2>3. CASE options.name # "dht-nodes"
    BY <1>1, <1>4, <1>5, <2>1, <2>3 DEF WholeAnswer
  <2> QED
    BY <2>2, <2>3
<1>9. SameAnswers
  BY <1>1, AnswersStay
<1>7. AnswersWhole'
  <2>1. ~Queried /\ ~Summed
    BY <1>5 DEF Queried, Summed
  <2> QED
    BY <1>1, <1>6, <1>9, <2>1 DEF AnswersWhole, SameAnswers
<1>8. OptionsInv'
  BY <1>1, <1>2 DEF OptionsInv
<1> QED
  BY <1>1, <1>7, <1>8 DEF ShowInv

\* The files of the metafile, in a form the provers can use.
LEMMA ListedFiles ==
    ASSUME metafile \in Metafiles
    PROVE  /\ Len(metafile.files) \in Nat
           /\ DOMAIN metafile.files = 1 .. Len(metafile.files)
           /\ \A i \in 1 .. Len(metafile.files) : metafile.files[i].path \in Seq(Nat)
<1> DEFINE fs == metafile.files
           E == [path : Seq(Nat), pad : BOOLEAN, checksums : SUBSET Algorithms]
<1>1. fs \in Seq(E)
  BY MetafileAssumption
<1>2. \A f \in E : f.path \in Seq(Nat)
  OBVIOUS
<1> HIDE DEF fs, E
<1>3. Len(fs) \in Nat /\ DOMAIN fs = 1 .. Len(fs) /\ \A i \in 1 .. Len(fs) : fs[i] \in E
  BY <1>1, ElementOfSeq
<1> QED
  BY <1>2, <1>3 DEF fs

\* checksums, without an algorithm and with one.
LEMMA ChecksumsStep ==
    ASSUME ShowInv,
           RunChecksumNames \/ RunChecksums \/ PrintChecksum \/ ChecksumMissing \/ ChecksumsDone
    PROVE  ShowInv'
<1> DEFINE fs == metafile.files
<1>1. /\ UNCHANGED <<metafile, options, bv, hex, frames, escape>>
      /\ app \in {"run", "checksums"} /\ OptionsInv
      /\ outcome = "none" /\ escape \in {"none", "failed", "done"}
  BY DEF RunChecksumNames, RunChecksums, PrintChecksum, ChecksumMissing, ChecksumsDone,
         ChecksumsLeft, ShowInv, escapeVars
<1>2. OptionsInv'
  BY <1>1 DEF OptionsInv
<1>3. outcome' = "none" => AnswersWhole'
  BY DEF AnswersWhole
<1>4. Len(fs) \in Nat /\ DOMAIN fs = 1 .. Len(fs)
  BY ListedFiles DEF ShowInv
<1>11. SameAnswers
  BY <1>1, AnswersStay
<1>12. ASSUME NEW n \in 0 .. Len(fs)
       PROVE  /\ SumLines(n) \in Seq(Range(SumLines(n))) /\ Len(SumLines(n)) = n
              /\ DOMAIN SumLines(n) = 1 .. n
              /\ \A i \in 1 .. n : SumLines(n)[i] = Line("checksums", fs[i].path)
  <2>1. n \in Nat
    BY <1>4
  <2> QED
    BY <2>1 DEF SumLines, Range
<1>13. Queried => ~Summed
  BY DEF Queried, Summed
<1> HIDE DEF fs
<1>5. ASSUME options.subcommand = "checksum"
      PROVE  options.name = "checksums" /\ ~Queried
  BY <1>1, <1>5, FieldFacts DEF OptionsInv, Queried
<1>14. ASSUME app = "checksums"
       PROVE  /\ Summed /\ ~Queried /\ \E i \in 1 .. Len(fs) : ~Unsummed(i)
              /\ Len(output) \in 0 .. Len(fs) /\ output = SumLines(Len(output))
              /\ \A i \in 1 .. Len(output) : ~Unsummed(i)
  BY <1>4, <1>13, <1>14 DEF ShowInv, ChecksumsInv, fs
<1>6. CASE RunChecksumNames
  <2>1. /\ output' = [i \in DOMAIN checksum_names |-> Line("checksums", checksum_names[i])]
        /\ app' = "end" /\ outcome' = "ok" /\ options.algorithm = NoAlgorithm
        /\ options.name = "checksums" /\ ~Queried /\ ~Summed
    BY <1>5, <1>6 DEF RunChecksumNames, End, Summed
  <2>2. output' = WholeAnswer
    BY <2>1 DEF WholeAnswer
  <2>3. AnswersWhole'
    BY <1>11, <2>1, <2>2 DEF AnswersWhole, SameAnswers
  <2> QED
    BY <1>1, <1>2, <2>1, <2>3 DEF ShowInv
<1>7. CASE RunChecksums
  <2>0. /\ app = "run" /\ output' = <<>> /\ Summed /\ ~Queried
        /\ IF options.algorithm \in available_checksums
           THEN app' = "checksums" /\ outcome' = "none"
           ELSE app' = "end" /\ outcome' = "no data"
    BY <1>1, <1>5, <1>7 DEF RunChecksums, ShowInv, End, Summed
  <2>1. CASE options.algorithm \in available_checksums
    <3>1. app' = "checksums" /\ outcome' = "none"
      BY <2>0, <2>1
    <3>2. \E i \in 1 .. Len(fs) : ~Unsummed(i)
      <4>1. PICK f \in Range(fs) : options.algorithm \in f.checksums
        BY <2>1 DEF available_checksums, fs
      <4>2. PICK i \in 1 .. Len(fs) : fs[i] = f
        BY <1>4 DEF Range
      <4> QED
        BY <4>1, <4>2 DEF Unsummed, fs
    <3>3. Len(<<>>) = 0 /\ 0 \in 0 .. Len(fs) /\ 1 .. 0 = {}
      BY <1>4
    <3>4. SumLines(0) = <<>>
      BY <1>12, <3>3, EmptySeq
    <3>5. ChecksumsInv'
      BY <1>1, <1>4, <1>11, <2>0, <3>2, <3>3, <3>4 DEF ChecksumsInv, SameAnswers, fs
    <3> QED
      BY <1>1, <1>2, <1>3, <3>1, <3>5 DEF ShowInv
  <2>2. CASE options.algorithm \notin available_checksums
    <3>1. app' = "end" /\ outcome' = "no data"
      BY <2>0, <2>2
    <3>2. \A i \in 1 .. Len(fs) : Unsummed(i)
      <4> TAKE i \in 1 .. Len(fs)
      <4>1. fs[i] \in Range(fs)
        BY <1>4 DEF Range
      <4> QED
        BY <2>2, <4>1 DEF available_checksums, Unsummed, fs
    <3>3. \A i \in DOMAIN metafile.files : Unsummed(i)
      BY <1>4, <3>2 DEF fs
    <3>4. AnswersWhole'
      BY <1>1, <1>11, <2>0, <3>1, <3>3 DEF AnswersWhole, SameAnswers
    <3> QED
      BY <1>1, <1>2, <3>1, <3>4 DEF ShowInv
  <2> QED
    BY <2>1, <2>2
<1>8. CASE PrintChecksum
  <2> DEFINE n == Len(output)
             line == Line("checksums", next_file.path)
  <2>1. /\ app = "checksums" /\ app' = "checksums" /\ outcome' = "none" /\ n < Len(fs)
        /\ output' = Append(output, line) /\ options.algorithm \in next_file.checksums
    BY <1>1, <1>8 DEF PrintChecksum, ChecksumsLeft, fs
  <2>2. /\ Summed /\ n \in 0 .. Len(fs) /\ output = SumLines(n)
        /\ \A i \in 1 .. n : ~Unsummed(i)
        /\ \E i \in 1 .. Len(fs) : ~Unsummed(i)
    BY <1>14, <2>1
  <2>3. ~Unsummed(n + 1) /\ line = Line("checksums", fs[n + 1].path)
    BY <2>1 DEF Unsummed, next_file, fs
  <2> HIDE DEF line, n
  <2>4. n + 1 \in 0 .. Len(fs) /\ n \in Nat /\ \A i \in 1 .. n + 1 : i \in 1 .. n \/ i = n + 1
    BY <1>4, <2>1, <2>2
  <2>5. /\ Len(output') = n + 1 /\ output'[n + 1] = line /\ DOMAIN output' = 1 .. n + 1
        /\ \A i \in 1 .. n : output'[i] = output[i]
    <3> DEFINE E == Range(SumLines(n)) \union {line}
    <3>1. output \in Seq(E) /\ Len(output) = n
      BY <1>12, <2>2
    <3> HIDE DEF E
    <3>2. line \in E
      BY DEF E
    <3> QED
      BY <2>1, <2>4, <3>1, <3>2
  <2>6. output' = SumLines(n + 1)
    <3>1. \A i \in 1 .. n + 1 : output'[i] = Line("checksums", fs[i].path)
      BY <1>12, <2>2, <2>3, <2>4, <2>5
    <3>2. output' = [i \in 1 .. n + 1 |-> output'[i]]
      <4> DEFINE E == Range(SumLines(n)) \union {line}
      <4>1. output \in Seq(E) /\ Len(output) = n
        BY <1>12, <2>2
      <4> HIDE DEF E
      <4>2. line \in E
        BY DEF E
      <4>3. output' \in Seq(E)
        BY <2>1, <4>1, <4>2
      <4> QED
        BY <2>5, <4>3
    <3> QED
      BY <3>1, <3>2 DEF SumLines, fs
  <2>7. ChecksumsInv'
    <3>1. \A i \in 1 .. n + 1 : ~Unsummed(i)
      BY <2>2, <2>3, <2>4
    <3> QED
      BY <1>1, <1>4, <1>11, <2>2, <2>4, <2>5, <2>6, <3>1 DEF ChecksumsInv, SameAnswers, fs
  <2> QED
    BY <1>1, <1>2, <1>3, <2>1, <2>7 DEF ShowInv
<1>9. CASE ChecksumMissing
  <2> DEFINE n == Len(output)
  <2>1. /\ app = "checksums" /\ app' = "end" /\ outcome' = "error" /\ n < Len(fs)
        /\ output' = output /\ options.algorithm \notin next_file.checksums
    BY <1>1, <1>9 DEF ChecksumMissing, ChecksumsLeft, End, fs
  <2>2. /\ Summed /\ n \in 0 .. Len(fs) /\ output = SumLines(n) /\ ~Queried
        /\ \A i \in 1 .. n : ~Unsummed(i)
        /\ \E i \in 1 .. Len(fs) : ~Unsummed(i)
    BY <1>14, <2>1
  <2>3. Unsummed(n + 1)
    BY <2>1 DEF Unsummed, next_file, fs
  <2> HIDE DEF n
  <2>4. n + 1 \in 1 .. Len(fs) /\ (n + 1) - 1 = n
    BY <1>4, <2>1, <2>2
  <2>5. \E i \in DOMAIN metafile.files :
           /\ Unsummed(i)
           /\ \A j \in 1 .. i - 1 : ~Unsummed(j)
           /\ output' = SumLines(i - 1)
    BY <1>4, <2>1, <2>2, <2>3, <2>4 DEF fs
  <2>6. \E i \in DOMAIN metafile.files : ~Unsummed(i)
    BY <1>4, <2>2 DEF fs
  <2>7. AnswersWhole'
    BY <1>1, <1>11, <2>1, <2>2, <2>5, <2>6 DEF AnswersWhole, SameAnswers
  <2> QED
    BY <1>1, <1>2, <2>1, <2>7 DEF ShowInv
<1>10. CASE ChecksumsDone
  <2> DEFINE n == Len(output)
  <2>1. /\ app = "checksums" /\ app' = "end" /\ outcome' = "ok" /\ output' = output
        /\ ~(n < Len(fs))
    BY <1>10 DEF ChecksumsDone, ChecksumsLeft, End, fs
  <2>2. /\ Summed /\ n \in 0 .. Len(fs) /\ output = SumLines(n) /\ ~Queried
        /\ \A i \in 1 .. n : ~Unsummed(i)
    BY <1>14, <2>1
  <2> HIDE DEF n
  <2>3. n = Len(fs)
    <3> DEFINE k == Len(fs)
    <3>1. k \in Nat /\ n \in 0 .. k /\ ~(n < k)
      BY <1>4, <2>1, <2>2
    <3> HIDE DEF k
    <3>2. n = k
      BY ONLY <3>1
    <3> QED
      BY <3>2 DEF k
  <2>4. output' = WholeAnswer
    <3>1. output' = SumLines(Len(metafile.files))
      BY <2>1, <2>2, <2>3 DEF fs
    <3> QED
      BY <2>2, <3>1 DEF WholeAnswer, Summed, Queried
  <2>5. \A i \in DOMAIN metafile.files : ~Unsummed(i)
    BY <1>4, <2>2, <2>3 DEF fs
  <2>6. AnswersWhole'
    BY <1>1, <1>11, <2>1, <2>2, <2>4, <2>5 DEF AnswersWhole, SameAnswers
  <2> QED
    BY <1>1, <1>2, <2>1, <2>6 DEF ShowInv
<1> QED
  BY <1>6, <1>7, <1>8, <1>9, <1>10

\* query and --raw, from the copy of the metafile to the answer.
LEMMA QueryStep ==
    ASSUME ShowInv, RunQuery \/ EscapeStep \/ EscapeFailed \/ PrintAnswer
    PROVE  ShowInv'
<1>1. UNCHANGED <<metafile, options>> /\ app \in {"run", "escape"} /\ OptionsInv
      /\ outcome = "none" /\ output = <<>>
  BY DEF RunQuery, EscapeStep, EscapeFailed, PrintAnswer, ShowInv
<1>2. OptionsInv'
  BY <1>1 DEF OptionsInv
<1>3. outcome' = "none" => AnswersWhole'
  BY DEF AnswersWhole
<1>8. SameAnswers
  BY <1>1, AnswersStay
<1>4. CASE RunQuery
  <2>1. /\ bv' = Value(metafile) /\ hex' = options.show_binary /\ escape' = "hashes"
        /\ app' = "escape" /\ outcome' = "none" /\ output' = <<>>
        /\ options.subcommand \in {"query", "raw"}
    BY <1>1, <1>4 DEF RunQuery
  <2>2. Queried'
    <3>1. options.name \in {"query", "raw"}
      BY <1>1, <2>1, FieldFacts DEF OptionsInv
    <3> QED
      BY <1>1, <3>1 DEF Queried
  <2>4. EscapeInv'
    BY <1>1, <1>8, <2>1 DEF EscapeInv, SameAnswers
  <2> QED
    BY <1>1, <1>2, <1>3, <2>1, <2>2, <2>4 DEF ShowInv
<1>5. CASE EscapeStep
  <2>1. /\ app = "escape" /\ Escape /\ UNCHANGED <<output, app, outcome>>
        /\ EscapeInv /\ Queried
    BY <1>5 DEF EscapeStep, ShowInv
  <2>2. EscapeInv' /\ Queried'
    BY <1>1, <2>1, EscapeKeeps DEF ShowInv, Queried
  <2> QED
    BY <1>1, <1>2, <1>3, <2>1, <2>2 DEF ShowInv
<1>6. CASE EscapeFailed
  <2>1. /\ app = "escape" /\ escape = "failed" /\ app' = "end" /\ outcome' = "error"
        /\ EscapeInv /\ Queried /\ output' = <<>> /\ UNCHANGED <<bv, hex, frames, escape>>
    BY <1>1, <1>6 DEF EscapeFailed, End, ShowInv, escapeVars
  <2>2. Unshowable
    BY <2>1 DEF EscapeInv
  <2>3. AnswersWhole'
    BY <1>8, <2>1, <2>2 DEF AnswersWhole, SameAnswers
  <2> QED
    BY <1>1, <1>2, <2>1, <2>3 DEF ShowInv
<1>7. CASE PrintAnswer
  <2>1. /\ app = "escape" /\ escape = "done" /\ app' = "end" /\ EscapeInv /\ Queried
        /\ UNCHANGED <<bv, hex, frames, escape>> /\ ~Summed
    BY <1>7 DEF PrintAnswer, End, ShowInv, escapeVars, Queried, Summed
  <2>2. bv = ValueToShow /\ ~Unshowable
    BY <2>1 DEF EscapeInv
  <2>3. At(bv, options.query) = Answer
    BY <2>2 DEF Answer
  <2>4. IF Answer.form = "missing" THEN outcome' = "no data" /\ output' = <<>>
        ELSE outcome' = "ok" /\ output' = <<Line(options.name, Answer)>>
    BY <1>1, <1>7, <2>3 DEF PrintAnswer, End
  <2>5. WholeAnswer = <<Line(options.name, Answer)>>
    <3> DEFINE line == Line(options.name, Answer)
    <3> HIDE DEF line
    <3>1. WholeAnswer = <<line>>
      BY <2>1 DEF WholeAnswer, line, Queried, Summed
    <3> QED
      BY <3>1 DEF line
  <2>6. AnswersWhole'
    BY <1>8, <2>1, <2>2, <2>4, <2>5 DEF AnswersWhole, SameAnswers
  <2> QED
    BY <1>1, <1>2, <2>1, <2>6 DEF ShowInv
<1> QED
  BY <1>4, <1>5, <1>6, <1>7

\* Every step of the command.
LEMMA ShowStep == ShowInv /\ [Next]_vars => ShowInv'
<1> SUFFICES ASSUME ShowInv, [Next]_vars PROVE ShowInv'
  OBVIOUS
<1>1. CASE (\E name \in Subcommands : Parse(name)) \/ ParseRaw
  BY <1>1, ParseStep
<1>2. CASE Run
  BY <1>2, FieldStep, ChecksumsStep, QueryStep DEF Run
<1>3. CASE UNCHANGED vars
  <2>1. UNCHANGED <<metafile, options, output, app, outcome, bv, hex, frames, escape>>
    BY <1>3 DEF vars, escapeVars
  <2>4. SameAnswers
    BY <2>1, AnswersStay
  <2>2. AnswersWhole'
    BY <2>1, <2>4 DEF ShowInv, AnswersWhole, SameAnswers
  <2>3. EscapeInv => EscapeInv'
    <3>1. /\ top' = top /\ \A d : KeysAt(d)' = KeysAt(d)
          /\ \A p : Passed(p)' <=> Passed(p)
          /\ Value(metafile)' = Value(metafile)
      BY <2>1 DEF top, KeysAt, Leaves, Passed, Value
    <3>2. WalkInv => WalkInv'
      BY <2>1, <3>1 DEF WalkInv
    <3>3. RootsInv => RootsInv'
      BY <2>1, <3>1 DEF RootsInv
    <3> QED
      BY <2>1, <2>4, <3>1, <3>2, <3>3 DEF EscapeInv, SameAnswers
  <2> QED
    BY <2>1, <2>2, <2>3, <2>4 DEF ShowInv, OptionsInv, ChecksumsInv, SameAnswers
<1> QED
  BY <1>1, <1>2, <1>3 DEF Next, Finished

-----------------------------------------------------------------------------
(* The theorems *)

\* At every stage of the command what it has done so far is right, and in the walk
\* through the file tree the stack, the roots and the files passed fit together.
THEOREM ShowInvariant == Spec => []ShowInv
BY ShowInit, ShowStep, PTL DEF Spec

\* The walk replaces the root of every file once, when it passes it, whatever the file
\* tree: the iterators that are advanced below new frames are the right ones.
THEOREM RootsEscapedOnce == Spec => []EscapedOnce
<1>1. ShowInv => EscapedOnce
  <2> SUFFICES ASSUME ShowInv, escape = "tree", NEW p \in Leaves
               PROVE  (bv.roots[p].form = "merkle root") <=> Passed(p)
    BY DEF EscapedOnce
  <2>1. EscapeInv
    BY DEF ShowInv
  <2>2. RootsInv /\ p \in DOMAIN metafile.roots
    <3> DEFINE D == DOMAIN metafile.roots
               r == bv.roots
    <3>1. r = [q \in D |-> r[q]] /\ p \in DOMAIN r
      BY <2>1 DEF EscapeInv, Leaves
    <3> HIDE DEF D, r
    <3>2. p \in D
      BY <3>1
    <3> QED
      BY <2>1, <3>2 DEF EscapeInv, D
  <2>3. CASE Passed(p)
    <3>1. bv.roots[p] = MerkleRoot(<<metafile.roots[p]>>)
      BY <2>2, <2>3 DEF RootsInv
    <3>2. MerkleRoot(<<metafile.roots[p]>>).form = "merkle root"
      BY DEF MerkleRoot
    <3> QED
      BY <2>3, <3>1, <3>2
  <2>4. CASE ~Passed(p)
    <3>1. bv.roots[p] = Value(metafile).roots[p]
      BY <2>2, <2>4 DEF RootsInv
    <3>2. bv.roots[p].form \in {"missing", "raw"}
      BY <2>2, <3>1, ValueRoots
    <3> QED
      BY <2>4, <3>2
  <2> QED
    BY <2>3, <2>4
<1> QED
  BY <1>1, ShowInvariant, PTL

\* For every metafile and all options, show and info --raw print what the code has for
\* them, to the last line, or fail for one of the reasons AnswersWhole names. It does not
\* say that what the code has is what the documentation says: the three places where it
\* is not are part of AnswersWhole.
THEOREM AnswersAreWhole == Spec => []AnswersWhole
<1>1. ShowInv => AnswersWhole
  BY DEF ShowInv
<1> QED
  BY <1>1, ShowInvariant, PTL

=============================================================================
