-------------------------- MODULE FileMatcherProofs --------------------------
(***************************************************************************)
(* The selection is right for every tree, every filter and every schedule. *)
(***************************************************************************)
EXTENDS FileMatcher, TLAPS

LEMMA PrefixFacts ==
    ASSUME NEW p \in Entries, NEW i \in 1 .. Len(p)
    PROVE  /\ Len(p) \in Nat \ {0} /\ p \in Seq(Names)
           /\ Prefix(p, i) \in Seq(Names) /\ Len(Prefix(p, i)) = i
           /\ \A k \in 1 .. i : Prefix(p, i)[k] = p[k]
           /\ Prefix(p, Len(p)) = p
           /\ Prefix(p, i) \in Entries
           /\ i < Len(p) => Prefix(p, i) \in Dirs
<1>1. p \in Seq(Names) /\ p # Root
  BY TreeAssumption
<1>2. Len(p) \in Nat \ {0}
  BY <1>1 DEF Root
<1>3. /\ Prefix(p, i) \in Seq(Names) /\ Len(Prefix(p, i)) = i
      /\ \A k \in 1 .. i : Prefix(p, i)[k] = p[k]
  BY <1>1, <1>2 DEF Prefix
<1>4. Prefix(p, Len(p)) = p
  BY <1>1, <1>2 DEF Prefix
<1>5. i < Len(p) => Prefix(p, i) \in Dirs
  BY <1>2, TreeAssumption
<1> QED
  BY <1>1, <1>2, <1>3, <1>4, <1>5, TreeAssumption

LEMMA PrefixOfPrefix ==
    ASSUME NEW p \in Entries, NEW i \in 1 .. Len(p), NEW j \in 1 .. i
    PROVE  Prefix(Prefix(p, i), j) = Prefix(p, j)
<1>1. p \in Seq(Names) /\ Len(p) \in Nat
  BY PrefixFacts
<1> QED
  BY <1>1 DEF Prefix

LEMMA ChildFacts ==
    ASSUME NEW e \in Entries, NEW c \in Children(e)
    PROVE  /\ c \in Entries /\ Len(c) = Len(e) + 1
           /\ \A j \in 1 .. Len(e) : Prefix(c, j) = Prefix(e, j)
           /\ Prefix(c, Len(e)) = e
<1>1. c \in Entries /\ Len(c) = Len(e) + 1 /\ Prefix(c, Len(e)) = e
  BY DEF Children
<1>2. Len(e) \in Nat \ {0} /\ Len(e) \in 1 .. Len(c)
  BY <1>1, PrefixFacts, TreeAssumption DEF Root
<1> QED
  BY <1>1, <1>2, PrefixOfPrefix

\* Opening a directory: what lies below it lies below its children.
LEMMA Descend ==
    ASSUME NEW F \in SUBSET Entries, NEW e \in F, NEW p \in Entries, p # e
    PROVE  Below(F, p) <=> Below((F \ {e}) \union Children(e), p)
<1>1. Len(p) \in Nat /\ Len(e) \in Nat \ {0}
  BY TreeAssumption DEF Root
<1>2. ASSUME Below(F, p) PROVE Below((F \ {e}) \union Children(e), p)
  <2>1. PICK i \in 1 .. Len(p) : Prefix(p, i) \in F
    BY <1>2 DEF Below
  <2>2. CASE Prefix(p, i) # e
    BY <2>1, <2>2 DEF Below
  <2>3. CASE Prefix(p, i) = e
    <3>1. i = Len(e) /\ i # Len(p)
      BY <2>3, PrefixFacts
    <3>2. i + 1 \in 1 .. Len(p)
      BY <3>1, <1>1
    <3>3. Prefix(p, i + 1) \in Entries /\ Len(Prefix(p, i + 1)) = i + 1
      BY <3>2, PrefixFacts
    <3>4. Prefix(Prefix(p, i + 1), i) = e
      BY <3>2, <2>3, PrefixOfPrefix
    <3>5. Prefix(p, i + 1) \in Children(e)
      BY <3>1, <3>3, <3>4 DEF Children
    <3> QED
      BY <3>2, <3>5 DEF Below
  <2> QED
    BY <2>2, <2>3
<1>3. ASSUME Below((F \ {e}) \union Children(e), p) PROVE Below(F, p)
  <2>1. PICK i \in 1 .. Len(p) : Prefix(p, i) \in (F \ {e}) \union Children(e)
    BY <1>3 DEF Below
  <2>2. CASE Prefix(p, i) \in F
    BY <2>1, <2>2 DEF Below
  <2>3. CASE Prefix(p, i) \in Children(e)
    <3>1. Len(Prefix(p, i)) = Len(e) + 1 /\ Prefix(Prefix(p, i), Len(e)) = e
      BY <2>3, ChildFacts
    <3>2. Len(e) \in 1 .. Len(p) /\ Prefix(p, Len(e)) = e
      BY <3>1, <1>1, PrefixFacts, PrefixOfPrefix
    <3> QED
      BY <3>2 DEF Below
  <2> QED
    BY <2>1, <2>2, <2>3
<1> QED
  BY <1>2, <1>3

\* Leaving out an excluded directory loses no reachable entry.
LEMMA Skip ==
    ASSUME NEW F, NEW e \in F, e \in DirExcludes, NEW p \in Reachable, p # e
    PROVE  Below(F, p) <=> Below(F \ {e}, p)
<1>1. p \in Entries /\ ~Pruned(p) /\ Len(p) \in Nat
  BY TreeAssumption DEF Reachable
<1>2. \A i \in 1 .. Len(p) : Prefix(p, i) # e
  <2> SUFFICES ASSUME NEW i \in 1 .. Len(p), Prefix(p, i) = e PROVE FALSE
    OBVIOUS
  <2>1. i # Len(p)
    BY <1>1, PrefixFacts
  <2>2. i \in 1 .. Len(p) - 1
    BY <2>1, <1>1
  <2> QED
    BY <2>2, <1>1 DEF Pruned
<1> QED
  BY <1>2 DEF Below

\* An entry that is no directory has nothing below it.
LEMMA Leaf ==
    ASSUME NEW F, NEW e \in F, e \notin Dirs, NEW p \in Entries, p # e
    PROVE  Below(F, p) <=> Below(F \ {e}, p)
<1>1. \A i \in 1 .. Len(p) : Prefix(p, i) # e
  BY PrefixFacts
<1> QED
  BY <1>1 DEF Below

LEMMA SelfBelow ==
    ASSUME NEW F \in SUBSET Entries, NEW e \in F
    PROVE  Below(F, e)
<1>1. Len(e) \in Nat \ {0} /\ Prefix(e, Len(e)) = e
  BY PrefixFacts, TreeAssumption DEF Root
<1> QED
  BY <1>1 DEF Below

\* Removing a member of an antichain leaves nothing above it.
LEMMA RemovedNotBelow ==
    ASSUME NEW F \in SUBSET Entries, Antichain(F), NEW e \in F
    PROVE  ~Below(F \ {e}, e) /\ Antichain(F \ {e})
<1>1. Len(e) \in Nat \ {0} /\ Prefix(e, Len(e)) = e
  BY PrefixFacts, TreeAssumption DEF Root
<1>2. ~Below(F \ {e}, e)
  <2> SUFFICES ASSUME NEW i \in 1 .. Len(e), Prefix(e, i) \in F, Prefix(e, i) # e
               PROVE FALSE
    BY DEF Below
  <2>1. i \in 1 .. Len(e) - 1
    BY <1>1
  <2> QED
    BY <2>1 DEF Antichain
<1> QED
  BY <1>2 DEF Antichain

LEMMA DescendAntichain ==
    ASSUME NEW F \in SUBSET Entries, Antichain(F), NEW e \in F
    PROVE  Antichain((F \ {e}) \union Children(e))
<1> DEFINE G == (F \ {e}) \union Children(e)
<1> SUFFICES ASSUME NEW p \in G, NEW i \in 1 .. Len(p) - 1, Prefix(p, i) \in G
             PROVE  FALSE
  BY DEF Antichain
<1>1. Len(e) \in Nat \ {0} /\ G \subseteq Entries /\ p \in Entries /\ Len(p) \in Nat
  BY TreeAssumption DEF Root, Children
<1>2. i \in 1 .. Len(p) /\ Len(Prefix(p, i)) = i
  BY <1>1, PrefixFacts
<1>3. CASE p \in F /\ Prefix(p, i) \in F
  BY <1>3 DEF Antichain
<1>4. CASE p \in F /\ Prefix(p, i) \in Children(e)
  <2>1. i = Len(e) + 1 /\ Prefix(Prefix(p, i), Len(e)) = e
    BY <1>2, <1>4, ChildFacts
  <2>2. Prefix(p, Len(e)) = e /\ Len(e) \in 1 .. Len(p) - 1
    BY <2>1, <1>1, <1>2, PrefixOfPrefix
  <2> QED
    BY <2>2, <1>4 DEF Antichain
<1>5. CASE p \in Children(e) /\ Prefix(p, i) \in F \ {e}
  <2>1. Len(p) = Len(e) + 1 /\ Prefix(p, i) = Prefix(e, i) /\ i \in 1 .. Len(e)
    BY <1>5, <1>1, ChildFacts
  <2>2. i # Len(e)
    BY <2>1, <1>5, PrefixFacts
  <2>3. i \in 1 .. Len(e) - 1
    BY <2>1, <2>2, <1>1
  <2> QED
    BY <2>1, <2>3, <1>5 DEF Antichain
<1>6. CASE p \in Children(e) /\ Prefix(p, i) \in Children(e)
  BY <1>1, <1>2, <1>6, ChildFacts
<1> QED
  BY <1>3, <1>4, <1>5, <1>6

LEMMA ReachableChildren ==
    ASSUME NEW e \in Reachable, e \notin DirExcludes
    PROVE  Children(e) \subseteq Reachable
<1> SUFFICES ASSUME NEW c \in Children(e), Pruned(c) PROVE FALSE
  BY DEF Reachable, Children
<1>1. e \in Entries /\ ~Pruned(e) /\ Len(e) \in Nat \ {0}
  BY TreeAssumption DEF Reachable, Root
<1>2. PICK i \in 1 .. Len(c) - 1 : Prefix(c, i) \in DirExcludes
  BY DEF Pruned
<1>3. Len(c) = Len(e) + 1 /\ Prefix(c, i) = Prefix(e, i) /\ i \in 1 .. Len(e)
  BY <1>1, <1>2, ChildFacts
<1>4. i # Len(e)
  BY <1>1, <1>2, <1>3, PrefixFacts
<1>5. i \in 1 .. Len(e) - 1
  BY <1>1, <1>3, <1>4
<1> QED
  BY <1>1, <1>2, <1>3, <1>5 DEF Pruned

LEMMA RootChildren ==
    /\ Children(Root) \subseteq Reachable
    /\ Antichain(Children(Root))
    /\ \A p \in Entries : Below(Children(Root), p)
<1>1. \A p \in Children(Root) : p \in Entries /\ Len(p) = 1
  BY DEF Children, Root
<1>2. Children(Root) \subseteq Reachable /\ Antichain(Children(Root))
  <2>1. \A p \in Children(Root) : \A i \in 1 .. Len(p) - 1 : FALSE
    <3> SUFFICES ASSUME NEW p \in Children(Root), NEW i \in 1 .. Len(p) - 1
                 PROVE  FALSE
      OBVIOUS
    <3>1. Len(p) = 1
      BY <1>1
    <3> QED
      BY <3>1
  <2>2. \A p \in Children(Root) : p \in Entries /\ ~Pruned(p)
    BY <1>1, <2>1, Zenon DEF Pruned
  <2>3. Antichain(Children(Root))
    BY <2>1, Zenon DEF Antichain
  <2> QED
    BY <2>2, <2>3 DEF Reachable
<1>3. ASSUME NEW p \in Entries PROVE Below(Children(Root), p)
  <2>1. 1 \in 1 .. Len(p)
    BY TreeAssumption DEF Root
  <2>2. Prefix(p, 1) \in Entries /\ Len(Prefix(p, 1)) = 1
    BY <2>1, PrefixFacts
  <2>3. Prefix(Prefix(p, 1), 0) = Root
    BY <2>2, TreeAssumption DEF Prefix, Root
  <2>4. Prefix(p, 1) \in Children(Root)
    BY <2>2, <2>3 DEF Children, Root
  <2> QED
    BY <2>1, <2>4 DEF Below
<1> QED
  BY <1>2, <1>3

\* The branches of run() decide what the options promise.
LEMMA KeepIsWanted ==
    ASSUME includes = opts.include, excludes = opts.exclude,
           includeHidden = opts.hidden, NEW f
    PROVE  Keep(f) <=> Wanted(opts, f)
BY DEF Keep, Wanted, MatchesAny

\* What one more file does to an injective list.
LEMMA AppendFacts ==
    ASSUME NEW S, NEW s \in Seq(S), NEW e \in S, IsInjective(s)
    PROVE  /\ Range(Append(s, e)) = Range(s) \union {e}
           /\ e \notin Range(s) => IsInjective(Append(s, e))
<1> DEFINE t == Append(s, e)
<1>1. /\ Len(s) \in Nat /\ DOMAIN s = 1 .. Len(s) /\ DOMAIN t = 1 .. Len(s) + 1
      /\ \A i \in 1 .. Len(s) : t[i] = s[i]
      /\ t[Len(s) + 1] = e
  OBVIOUS
<1>2. Range(t) = Range(s) \union {e}
  BY <1>1 DEF Range
<1>3. ASSUME e \notin Range(s) PROVE IsInjective(t)
  BY <1>1, <1>3 DEF Range, IsInjective
<1> QED
  BY <1>2, <1>3

\* A permutation of a list of distinct paths that std::sort would return has
\* the same members, again once each, in strictly increasing order.
LEMMA SortIsOrdered ==
    ASSUME NEW s \in Seq(Files), IsInjective(s),
           NEW pi \in Bijection(DOMAIN s, DOMAIN s),
           NEW t, t = [i \in DOMAIN s |-> s[pi[i]]], Ordered(t)
    PROVE  /\ t \in Seq(Files) /\ IsInjective(t)
           /\ Range(t) = Range(s) /\ Increasing(t)
<1>1. /\ pi \in [DOMAIN s -> DOMAIN s]
      /\ \A a, b \in DOMAIN s : pi[a] = pi[b] => a = b
      /\ \A b \in DOMAIN s : \E a \in DOMAIN s : pi[a] = b
  BY DEF Bijection, Injection, Surjection, IsInjective
<1>2. DOMAIN s = 1 .. Len(s) /\ Len(s) \in Nat /\ s \in [DOMAIN s -> Files]
  OBVIOUS
<1>3. t \in [1 .. Len(s) -> Files] /\ t \in Seq(Files)
  BY <1>1, <1>2
<1>4. IsInjective(t)
  BY <1>1, <1>2 DEF IsInjective
<1>5. Range(t) = Range(s)
  BY <1>1, <1>2 DEF Range
<1>6. Increasing(t)
  <2> SUFFICES ASSUME NEW i \in DOMAIN t, NEW j \in DOMAIN t, i < j
               PROVE  Rank[t[i]] < Rank[t[j]]
    BY DEF Increasing
  <2>1. t[i] \in Entries /\ t[j] \in Entries /\ t[i] # t[j]
    BY <1>3, <1>4, TreeAssumption DEF IsInjective
  <2>2. Rank[t[i]] \in Nat /\ Rank[t[j]] \in Nat /\ Rank[t[i]] # Rank[t[j]]
    BY <2>1, FilterAssumption DEF IsInjective
  <2> QED
    BY <2>2 DEF Ordered
<1> QED
  BY <1>3, <1>4, <1>5, <1>6

-----------------------------------------------------------------------------

THEOREM Initially == Init => IInv
<1> SUFFICES ASSUME Init PROVE IInv
  OBVIOUS
<1> USE DEF Init, NoStorage
<1>1. TypeOK
  <2>1. storage \in [mode : {"none", "single", "multi"},
                     files : Seq(Entries \union {Root})]
    OBVIOUS
  <2>2. files \in Seq(Files) /\ results \in Seq(Files) /\ found \in Seq(Files)
    OBVIOUS
  <2> QED
    BY <2>1, <2>2 DEF TypeOK
<1>2. ConfigureInv
  BY DEF ConfigureInv
<1>3. ScanInv
  BY DEF ScanInv, Antichain, IsInjective
<1>4. HandOverInv
  BY DEF HandOverInv
<1> QED
  BY <1>1, <1>2, <1>3, <1>4 DEF IInv

LEMMA MainStep == IInv /\ Main => IInv'
<1> SUFFICES ASSUME IInv, Main PROVE IInv'
  OBVIOUS
<1> USE DEF IInv, input, client, filter, scanner
<1>1. CASE AddSingleFile
  <2> USE <1>1 DEF AddSingleFile
  <2>1. TypeOK'
    BY DEF TypeOK
  <2>2. ConfigureInv'
    BY DEF TypeOK, ConfigureInv
  <2>3. ScanInv'
    BY DEF TypeOK, ConfigureInv, ScanInv
  <2>4. HandOverInv'
    BY DEF TypeOK, ConfigureInv, ScanInv, HandOverInv, Joinable, Complete
  <2> QED
    BY <2>1, <2>2, <2>3, <2>4
<1>2. CASE MakeMatcher
  <2> USE <1>2 DEF MakeMatcher
  <2>1. TypeOK'
    BY DEF TypeOK
  <2>2. ConfigureInv'
    BY DEF TypeOK, ConfigureInv
  <2>3. ScanInv'
    BY DEF TypeOK, ConfigureInv, ScanInv
  <2>4. HandOverInv'
    BY DEF TypeOK, ConfigureInv, ScanInv, HandOverInv, Joinable, Complete
  <2> QED
    BY <2>1, <2>2, <2>3, <2>4
<1>3. ASSUME NEW p \in Patterns, IncludePattern(p) PROVE IInv'
  <2> USE <1>3 DEF IncludePattern, Rejected
  <2>1. TypeOK'
    BY DEF TypeOK
  <2>2. ConfigureInv'
    BY DEF TypeOK, ConfigureInv
  <2>3. ScanInv'
    BY DEF TypeOK, ConfigureInv, ScanInv
  <2>4. HandOverInv'
    BY DEF TypeOK, ConfigureInv, ScanInv, HandOverInv, Joinable, Complete
  <2> QED
    BY <2>1, <2>2, <2>3, <2>4
<1>4. ASSUME NEW p \in Patterns, ExcludePattern(p) PROVE IInv'
  <2> USE <1>4 DEF ExcludePattern, Rejected
  <2>1. TypeOK'
    BY DEF TypeOK
  <2>2. ConfigureInv'
    BY DEF TypeOK, ConfigureInv
  <2>3. ScanInv'
    BY DEF TypeOK, ConfigureInv, ScanInv
  <2>4. HandOverInv'
    BY DEF TypeOK, ConfigureInv, ScanInv, HandOverInv, Joinable, Complete
  <2> QED
    BY <2>1, <2>2, <2>3, <2>4
<1>5. CASE Compile
  <2> USE <1>5 DEF Compile, Rejected
  <2>1. TypeOK'
    BY DEF TypeOK, Options
  <2>2. ConfigureInv'
    BY DEF TypeOK, ConfigureInv
  <2>3. ScanInv'
    BY DEF TypeOK, ConfigureInv, ScanInv
  <2>4. HandOverInv'
    BY DEF TypeOK, ConfigureInv, ScanInv, HandOverInv, Joinable, Complete
  <2> QED
    BY <2>1, <2>2, <2>3, <2>4
<1>6. CASE Start
  <2> USE <1>6 DEF Start
  <2>1. TypeOK'
    BY DEF TypeOK
  <2>2. ConfigureInv'
    BY DEF TypeOK, ConfigureInv
  <2>3. ScanInv'
    BY DEF TypeOK, ConfigureInv, ScanInv
  <2>4. HandOverInv'
    BY DEF TypeOK, ConfigureInv, ScanInv, HandOverInv, Joinable, Complete
  <2> QED
    BY <2>1, <2>2, <2>3, <2>4
<1>7. CASE SeeStopped
  <2> USE <1>7 DEF SeeStopped
  <2>1. TypeOK'
    BY DEF TypeOK
  <2>2. ConfigureInv'
    BY DEF TypeOK, ConfigureInv
  <2>3. ScanInv'
    BY DEF TypeOK, ConfigureInv, ScanInv
  <2>4. HandOverInv'
    BY DEF TypeOK, ConfigureInv, ScanInv, HandOverInv, Joinable, Complete
  <2> QED
    BY <2>1, <2>2, <2>3, <2>4
<1>8. CASE RequestStop
  <2> USE <1>8 DEF RequestStop
  <2>1. TypeOK'
    BY DEF TypeOK
  <2>2. ConfigureInv'
    BY DEF TypeOK, ConfigureInv
  <2>3. ScanInv'
    BY DEF TypeOK, ConfigureInv, ScanInv
  <2>4. HandOverInv'
    BY DEF TypeOK, ConfigureInv, ScanInv, HandOverInv, Joinable, Complete
  <2> QED
    BY <2>1, <2>2, <2>3, <2>4
<1>9. CASE Join
  <2> USE <1>9 DEF Join
  <2>1. TypeOK'
    BY DEF TypeOK
  <2>2. ConfigureInv'
    BY DEF TypeOK, ConfigureInv
  <2>3. ScanInv'
    BY DEF TypeOK, ConfigureInv, ScanInv
  <2>4. HandOverInv'
    BY DEF TypeOK, ConfigureInv, ScanInv, HandOverInv, Joinable, Complete
  <2> QED
    BY <2>1, <2>2, <2>3, <2>4
<1>10. CASE TakeResults
  <2> USE <1>10 DEF TakeResults
  <2>1. TypeOK'
    BY DEF TypeOK
  <2>2. ConfigureInv'
    BY DEF TypeOK, ConfigureInv
  <2>3. ScanInv'
    BY DEF TypeOK, ConfigureInv, ScanInv
  <2>4. HandOverInv'
    BY DEF TypeOK, ConfigureInv, ScanInv, HandOverInv, Joinable, Complete
  <2> QED
    BY <2>1, <2>2, <2>3, <2>4
<1>11. CASE SortFiles
  <2> USE <1>11 DEF SortFiles
  <2>0. PICK pi \in Bijection(DOMAIN files, DOMAIN files) :
           /\ Ordered([i \in DOMAIN files |-> files[pi[i]]])
           /\ files' = [i \in DOMAIN files |-> files[pi[i]]]
    OBVIOUS
  <2>a. files \in Seq(Files) /\ IsInjective(files) /\ Range(files) = Selected(opts)
    BY DEF TypeOK, HandOverInv, Complete
  <2>b. files' \in Seq(Files)
    BY <2>0, <2>a, SortIsOrdered
  <2>c. IsInjective(files') /\ Range(files') = Range(files) /\ Increasing(files')
    BY <2>0, <2>a, SortIsOrdered
  <2>1. TypeOK'
    BY <2>b DEF TypeOK
  <2>2. ConfigureInv'
    BY DEF TypeOK, ConfigureInv
  <2>3. ScanInv'
    BY DEF TypeOK, ConfigureInv, ScanInv
  <2>4. HandOverInv'
    BY <2>a, <2>c DEF TypeOK, HandOverInv, Joinable, Complete
  <2> QED
    BY <2>1, <2>2, <2>3, <2>4
<1>12. CASE AddFiles
  <2> USE <1>12 DEF AddFiles
  <2>0. files \in Seq(Entries \union {Root})
    BY TreeAssumption DEF TypeOK
  <2>1. TypeOK'
    BY <2>0 DEF TypeOK
  <2>2. ConfigureInv'
    BY DEF TypeOK, ConfigureInv
  <2>3. ScanInv'
    BY DEF TypeOK, ConfigureInv, ScanInv
  <2>4. HandOverInv'
    BY DEF TypeOK, ConfigureInv, ScanInv, HandOverInv, Joinable, Complete,
           IsSelection
  <2> QED
    BY <2>1, <2>2, <2>3, <2>4
<1> QED
  BY <1>1, <1>2, <1>3, <1>4, <1>5, <1>6, <1>7, <1>8, <1>9, <1>10, <1>11, <1>12 DEF Main, MainRuns

LEMMA ScannerStep == IInv /\ Scanner => IInv'
<1> SUFFICES ASSUME IInv, Scanner PROVE IInv'
  OBVIOUS
<1> USE DEF IInv, input, client, filter, scanner
<1>1. CASE OpenRoot
  <2> USE <1>1 DEF OpenRoot, Throw
  <2>1. TypeOK'
    BY DEF TypeOK, Children
  <2>2. ConfigureInv'
    BY DEF TypeOK, ConfigureInv
  <2>3. ScanInv'
    <3>1. CASE Root \in locked
      BY <3>1 DEF TypeOK, ConfigureInv, ScanInv, Opened
    <3>2. CASE Root \notin locked
      <4>1. frontier' = Children(Root) /\ found' = <<>> /\ scan' = "scan"
        BY <3>2 DEF ScanInv
      <4>2. Range(found') = {} /\ IsInjective(found')
        BY <4>1 DEF Range, IsInjective
      <4>3. \A p \in Entries : Below(frontier', p)
        BY <4>1, RootChildren
      <4>4. Selected(opts') \subseteq Entries /\ Opened \subseteq Entries \union {Root}
        BY TreeAssumption DEF Selected, Opened
      <4>5. main' # "terminated" /\ UNCHANGED <<locked, opts>>
        BY <3>2 DEF ScanInv
      <4> QED
        BY <3>2, <4>1, <4>2, <4>3, <4>4, <4>5, RootChildren DEF ScanInv
    <3> QED
      BY <3>1, <3>2
  <2>4. HandOverInv'
    BY DEF TypeOK, ConfigureInv, ScanInv, HandOverInv, Joinable, Complete
  <2> QED
    BY <2>1, <2>2, <2>3, <2>4
<1>2. CASE ObeyStop
  <2> USE <1>2 DEF ObeyStop
  <2>1. TypeOK'
    BY DEF TypeOK
  <2>2. ConfigureInv'
    BY DEF TypeOK, ConfigureInv
  <2>3. ScanInv'
    BY DEF TypeOK, ConfigureInv, ScanInv
  <2>4. HandOverInv'
    BY DEF TypeOK, ConfigureInv, ScanInv, HandOverInv, Joinable, Complete
  <2> QED
    BY <2>1, <2>2, <2>3, <2>4
<1>3. CASE LeaveLoop
  <2> USE <1>3 DEF LeaveLoop
  <2>1. TypeOK'
    BY DEF TypeOK
  <2>2. ConfigureInv'
    BY DEF TypeOK, ConfigureInv
  <2>3. ScanInv'
    BY DEF TypeOK, ConfigureInv, ScanInv
  <2>4. HandOverInv'
    <3>1. \A p : ~Below(frontier, p)
      BY DEF Below
    <3>2. Complete(found) /\ locked \cap Opened = {}
      BY <3>1 DEF ScanInv, Complete
    <3> QED
      BY <3>2 DEF TypeOK, ConfigureInv, ScanInv, HandOverInv, Joinable, Complete
  <2> QED
    BY <2>1, <2>2, <2>3, <2>4
<1>4. CASE Publish
  <2> USE <1>4 DEF Publish
  <2>1. TypeOK'
    BY DEF TypeOK
  <2>2. ConfigureInv'
    BY DEF TypeOK, ConfigureInv
  <2>3. ScanInv'
    BY DEF TypeOK, ConfigureInv, ScanInv
  <2>4. HandOverInv'
    BY DEF TypeOK, ConfigureInv, ScanInv, HandOverInv, Joinable, Complete
  <2> QED
    BY <2>1, <2>2, <2>3, <2>4
<1>5. CASE ClearRunning
  <2> USE <1>5 DEF ClearRunning
  <2>1. TypeOK'
    BY DEF TypeOK
  <2>2. ConfigureInv'
    BY DEF TypeOK, ConfigureInv
  <2>3. ScanInv'
    BY DEF TypeOK, ConfigureInv, ScanInv
  <2>4. HandOverInv'
    BY DEF TypeOK, ConfigureInv, ScanInv, HandOverInv, Joinable, Complete
  <2> QED
    BY <2>1, <2>2, <2>3, <2>4
<1>6. ASSUME NEW e \in frontier, VisitDirectory(e) PROVE IInv'
  <2> USE <1>6 DEF VisitDirectory, At, Throw
  <2>1. TypeOK'
    BY DEF TypeOK, Children
  <2>2. ConfigureInv'
    BY DEF TypeOK, ConfigureInv
  <2>0. /\ frontier \in SUBSET Entries /\ e \in Reachable /\ Antichain(frontier)
        /\ Selected(opts) \subseteq Files \cap Reachable
        /\ Selected(opts) \subseteq Entries \ Dirs
        /\ Opened \ {Root} \subseteq Dirs \cap Reachable
    BY TreeAssumption DEF TypeOK, ScanInv, Selected, Opened
  <2>3. ScanInv'
    <3>1. CASE e \in locked /\ e \notin DirExcludes
      <4>1. e \in locked \cap Opened
        BY <2>0, <3>1 DEF Opened
      <4> QED
        BY <3>1, <4>1 DEF TypeOK, ConfigureInv, ScanInv
    <3>2. CASE e \in DirExcludes
      <4>1. frontier' = frontier \ {e} /\ UNCHANGED <<main, scan, found, locked, opts>>
        BY <3>2
      <4>2. \A p \in Reachable : p # e => (Below(frontier, p) <=> Below(frontier', p))
        BY <2>0, <3>2, <4>1, Skip
      <4>3. Antichain(frontier') /\ frontier' \subseteq Reachable
        BY <2>0, <4>1, RemovedNotBelow DEF ScanInv
      <4>4. e \notin Opened
        BY <2>0, <3>2, TreeAssumption DEF Opened
      <4>5. {f \in Selected(opts) : ~Below(frontier, f)}
              = {f \in Selected(opts) : ~Below(frontier', f)}
        BY <2>0, <4>2
      <4>6. \A d \in locked \cap Opened : d # Root /\ Below(frontier', d)
        BY <2>0, <4>2, <4>4 DEF ScanInv
      <4> QED
        BY <4>1, <4>3, <4>5, <4>6 DEF ScanInv
    <3>3. CASE e \notin locked /\ e \notin DirExcludes
      <4>1. /\ frontier' = (frontier \ {e}) \union Children(e)
            /\ UNCHANGED <<main, scan, found, locked, opts>>
        BY <3>3
      <4>2. \A p \in Entries : p # e => (Below(frontier, p) <=> Below(frontier', p))
        BY <2>0, <4>1, Descend
      <4>3. Antichain(frontier') /\ frontier' \subseteq Reachable
        BY <2>0, <3>3, <4>1, DescendAntichain, ReachableChildren DEF ScanInv
      <4>4. {f \in Selected(opts) : ~Below(frontier, f)}
              = {f \in Selected(opts) : ~Below(frontier', f)}
        BY <2>0, <4>2
      <4>5. \A d \in locked \cap Opened : d # Root /\ Below(frontier', d)
        BY <2>0, <3>3, <4>2, TreeAssumption DEF ScanInv
      <4> QED
        BY <4>1, <4>3, <4>4, <4>5 DEF ScanInv
    <3> QED
      BY <3>1, <3>2, <3>3
  <2>4. HandOverInv'
    BY DEF TypeOK, ConfigureInv, ScanInv, HandOverInv, Joinable, Complete
  <2> QED
    BY <2>1, <2>2, <2>3, <2>4
<1>7. ASSUME NEW e \in frontier, VisitFile(e) PROVE IInv'
  <2> USE <1>7 DEF VisitFile, At
  <2>1. TypeOK'
    <3>0. found \in Seq(Files) /\ e \in Files
      BY DEF TypeOK
    <3>1. found' \in Seq(Files)
      <4>1. Append(found, e) \in Seq(Files)
        BY <3>0
      <4> QED
        BY <3>0, <4>1
    <3> QED
      BY <3>1 DEF TypeOK
  <2>2. ConfigureInv'
    BY DEF TypeOK, ConfigureInv
  <2>0. /\ frontier \in SUBSET Entries /\ e \in Reachable /\ Antichain(frontier)
        /\ Selected(opts) \subseteq Entries
        /\ Opened \ {Root} \subseteq Dirs
        /\ e \notin Dirs /\ e \notin Opened
        /\ UNCHANGED <<main, scan, locked, opts>>
    BY TreeAssumption DEF TypeOK, ScanInv, Selected, Opened
  <2>a. /\ frontier' = frontier \ {e}
        /\ \A p \in Entries : p # e => (Below(frontier, p) <=> Below(frontier', p))
    BY <2>0, Leaf
  <2>b. Below(frontier, e) /\ ~Below(frontier', e)
    BY <2>0, <2>a, SelfBelow, RemovedNotBelow
  <2>c. Antichain(frontier') /\ frontier' \subseteq Reachable
    BY <2>0, <2>a, RemovedNotBelow DEF ScanInv
  <2>d. \A d \in locked \cap Opened : d # Root /\ Below(frontier', d)
    BY <2>0, <2>a, TreeAssumption DEF ScanInv
  <2>e. Keep(e) <=> e \in Selected(opts)
    BY <2>0, KeepIsWanted DEF ConfigureInv, Selected
  <2>f. /\ Range(found) = {f \in Selected(opts) : ~Below(frontier, f)}
        /\ IsInjective(found) /\ found \in Seq(Files)
    BY DEF TypeOK, ScanInv
  <2>3. ScanInv'
    <3>1. CASE Keep(e)
      <4>0. e \in Files /\ found' = Append(found, e)
        BY <3>1
      <4>1. /\ Range(found') = Range(found) \union {e}
            /\ e \notin Range(found) => IsInjective(found')
        BY <2>f, <4>0, AppendFacts
      <4>2. e \notin Range(found)
        BY <2>b, <2>f
      <4>3. Range(found') = {f \in Selected(opts) : ~Below(frontier', f)}
        BY <2>0, <2>a, <2>b, <2>e, <2>f, <3>1, <4>1
      <4> QED
        BY <2>0, <2>c, <2>d, <4>1, <4>2, <4>3 DEF ScanInv
    <3>2. CASE ~Keep(e)
      <4>1. found' = found
        BY <3>2
      <4>2. Range(found') = {f \in Selected(opts) : ~Below(frontier', f)}
        BY <2>0, <2>a, <2>e, <2>f, <3>2, <4>1
      <4> QED
        BY <2>0, <2>c, <2>d, <2>f, <4>1, <4>2 DEF ScanInv
    <3> QED
      BY <3>1, <3>2
  <2>4. HandOverInv'
    BY DEF TypeOK, ConfigureInv, ScanInv, HandOverInv, Joinable, Complete
  <2> QED
    BY <2>1, <2>2, <2>3, <2>4
<1>8. ASSUME NEW e \in frontier, VisitOther(e) PROVE IInv'
  <2> USE <1>8 DEF VisitOther, At
  <2>1. TypeOK'
    BY DEF TypeOK
  <2>2. ConfigureInv'
    BY DEF TypeOK, ConfigureInv
  <2>0. /\ frontier \in SUBSET Entries /\ e \in Reachable /\ Antichain(frontier)
        /\ Selected(opts) \subseteq Entries
        /\ Opened \ {Root} \subseteq Dirs
        /\ e \notin Dirs /\ e \notin Opened
        /\ UNCHANGED <<main, scan, locked, opts>>
    BY TreeAssumption DEF TypeOK, ScanInv, Selected, Opened
  <2>a. /\ frontier' = frontier \ {e}
        /\ \A p \in Entries : p # e => (Below(frontier, p) <=> Below(frontier', p))
    BY <2>0, Leaf
  <2>b. Below(frontier, e) /\ ~Below(frontier', e)
    BY <2>0, <2>a, SelfBelow, RemovedNotBelow
  <2>c. Antichain(frontier') /\ frontier' \subseteq Reachable
    BY <2>0, <2>a, RemovedNotBelow DEF ScanInv
  <2>d. \A d \in locked \cap Opened : d # Root /\ Below(frontier', d)
    BY <2>0, <2>a, TreeAssumption DEF ScanInv
  <2>e. /\ found' = found /\ e \notin Selected(opts)
        /\ Range(found) = {f \in Selected(opts) : ~Below(frontier, f)}
    BY DEF ScanInv, Selected
  <2>f. Range(found') = {f \in Selected(opts) : ~Below(frontier', f)}
    BY <2>0, <2>a, <2>e
  <2>3. ScanInv'
    BY <2>0, <2>c, <2>d, <2>e, <2>f DEF ScanInv
  <2>4. HandOverInv'
    BY DEF TypeOK, ConfigureInv, ScanInv, HandOverInv, Joinable, Complete
  <2> QED
    BY <2>1, <2>2, <2>3, <2>4
<1> QED
  BY <1>1, <1>2, <1>3, <1>4, <1>5, <1>6, <1>7, <1>8 DEF Scanner

\* The inductive invariant holds in every reachable state.
THEOREM InductiveInvariant == Spec => []IInv
<1>1. IInv /\ [Next]_vars => IInv'
  <2> SUFFICES ASSUME IInv, [Next]_vars PROVE IInv'
    OBVIOUS
  <2>1. CASE Main
    BY <2>1, MainStep
  <2>2. CASE Scanner
    BY <2>2, ScannerStep
  <2>3. CASE UNCHANGED vars
    <3> USE <2>3 DEF IInv, vars, input, client, filter
    <3>1. TypeOK'
      BY DEF TypeOK
    <3>2. ConfigureInv'
      BY DEF ConfigureInv
    <3>3. ScanInv'
      BY DEF ScanInv
    <3>4. HandOverInv'
      BY DEF HandOverInv, Joinable, Complete
    <3> QED
      BY <3>1, <3>2, <3>3, <3>4
  <2> QED
    BY <2>1, <2>2, <2>3 DEF Next, Terminated
<1> QED
  BY Initially, <1>1, PTL DEF Spec

\* Every variable keeps its type: only regular files get into the lists of the two
\* threads.
THEOREM TypeCorrect == Spec => []TypeOK
<1>1. IInv => TypeOK
  BY DEF IInv
<1> QED
  BY InductiveInvariant, <1>1, PTL

\* A metafile made from a directory holds exactly the selected files, each
\* once, in path order.
THEOREM SelectionIsRight == Spec => []StorageIsSelection
<1>1. IInv => StorageIsSelection
  BY DEF IInv, HandOverInv, StorageIsSelection
<1> QED
  BY InductiveInvariant, <1>1, PTL

\* The matcher's results are empty or complete at any moment.
THEOREM NothingPartial == Spec => []AllOrNothing
<1>1. IInv => AllOrNothing
  BY DEF IInv, HandOverInv, AllOrNothing
<1> QED
  BY InductiveInvariant, <1>1, PTL

\* Only a directory the scan has to open can make it fail.
THEOREM FailsOnlyOnOpened == Spec => []ExcludedNotOpened
<1>1. IInv => ExcludedNotOpened
  BY DEF IInv, ScanInv, ExcludedNotOpened
<1> QED
  BY InductiveInvariant, <1>1, PTL

\* The two threads implement the one-step selection.
THEOREM ImplementsSelectFiles == Spec => SelectionSpec
<1> DEFINE phase == IF Ended THEN main ELSE "pending"
<1> DEFINE Step == [Selection!Next]_(Selection!vars)
<1>1. Init => Selection!Init
  BY DEF Init, Ended, NoStorage, Selection!Init, Selection!NoStorage,
         Options, Selection!Options, Root, Selection!Root
<1>2. /\ Selection!Root = Root
      /\ Selection!Opened = Opened
      /\ \A o : Selection!Rejected(o) <=> Rejected(o)
      /\ \A t, o : Selection!IsSelection(t, o) <=> IsSelection(t, o)
  <2>1. Selection!Root = Root
    BY DEF Root, Selection!Root
  <2>2. Selection!Reachable = Reachable
    BY DEF Reachable, Selection!Reachable, Pruned, Selection!Pruned, Prefix,
           Selection!Prefix
  <2>3. Selection!Opened = Opened
    BY <2>1, <2>2 DEF Opened, Selection!Opened
  <2>4. \A o : Selection!Rejected(o) <=> Rejected(o)
    BY DEF Rejected, Selection!Rejected
  <2>5. \A o, f : Selection!Wanted(o, f) <=> Wanted(o, f)
    BY DEF Wanted, Selection!Wanted, Hidden, Selection!Hidden, MatchesAny,
           Selection!MatchesAny
  <2>6. \A o : Selection!Selected(o) = Selected(o)
    BY <2>2, <2>5 DEF Selected, Selection!Selected
  <2>7. \A t : Selection!Increasing(t) <=> Increasing(t)
    BY DEF Increasing, Selection!Increasing
  <2>8. \A t, o : Selection!IsSelection(t, o) <=> IsSelection(t, o)
    BY <2>6, <2>7 DEF IsSelection, Selection!IsSelection, Range, Selection!Range
  <2> QED
    BY <2>1, <2>3, <2>4, <2>8
<1>3. ASSUME UNCHANGED <<input, storage>>, ~Ended, ~Ended' PROVE Step
  BY <1>3 DEF input, Selection!vars
<1>4. ASSUME IInv, IInv', [Next]_vars PROVE Step
  <2> USE DEF input, client
  <2>1. CASE AddSingleFile
    BY <1>2, <2>1 DEF AddSingleFile, Ended, Selection!Next,
       Selection!SelectSingle, Selection!End
  <2>2. ASSUME NEW p \in Patterns, IncludePattern(p) \/ ExcludePattern(p)
        PROVE  Step
    <3>1. UNCHANGED <<input, storage>> /\ ~Ended /\ main' \in {main, "rejected"}
      BY <2>2 DEF IncludePattern, ExcludePattern, Ended
    <3>2. CASE main' = "rejected"
      BY <1>4, <1>2, <3>1, <3>2 DEF IInv, ConfigureInv, Ended, Selection!Next,
         Selection!Reject, Selection!End
    <3> QED
      BY <1>3, <3>1, <3>2 DEF Ended
  <2>3. CASE Compile
    <3>1. /\ UNCHANGED <<input, storage>> /\ ~Ended
          /\ main' \in {"start", "rejected"}
      BY <2>3 DEF Compile, Ended
    <3>2. CASE main' = "rejected"
      BY <1>4, <1>2, <3>1, <3>2 DEF IInv, ConfigureInv, Ended, Selection!Next,
         Selection!Reject, Selection!End
    <3> QED
      BY <1>3, <3>1, <3>2 DEF Ended
  <2>4. CASE MakeMatcher \/ Start \/ SeeStopped \/ RequestStop \/ TakeResults
             \/ SortFiles
    BY <1>3, <2>4 DEF MakeMatcher, Start, SeeStopped, RequestStop, TakeResults,
       SortFiles, Ended
  <2>5. CASE Join
    <3>1. CASE main' = "take"
      BY <1>3, <2>5, <3>1 DEF Join, Ended
    <3>2. CASE main' = "stopped"
      <4>1. main = "joinStopped" /\ scan # "none" /\ UNCHANGED <<input, storage>>
        BY <2>5, <3>2 DEF Join, Joinable
      <4>2. CanStop /\ opts.isDir /\ ~Rejected(opts)
        BY <1>4, <4>1 DEF IInv, ConfigureInv, HandOverInv
      <4> QED
        BY <1>2, <3>2, <4>1, <4>2 DEF Ended, Selection!Next,
           Selection!Abandon, Selection!End
    <3> QED
      BY <2>5, <3>1, <3>2 DEF Join
  <2>6. CASE AddFiles
    <3>1. /\ main = "add" /\ main' = "done" /\ UNCHANGED input
          /\ storage' = [mode |-> "multi", files |-> files]
      BY <2>6 DEF AddFiles
    <3>2. files \in Seq(Files) /\ IsSelection(files, opts)
      BY <1>4, <3>1 DEF IInv, TypeOK, HandOverInv, Complete, IsSelection
    <3>3. opts.isDir /\ ~Rejected(opts) /\ locked \cap Opened = {}
      BY <1>4, <3>1 DEF IInv, ConfigureInv, HandOverInv, Joinable
    <3> QED
      BY <1>2, <3>1, <3>2, <3>3 DEF Ended, Selection!Next,
         Selection!SelectTree, Selection!End
  <2>7. ASSUME Throw, scan # "none", scan # "exited" PROVE Step
    <3>1. /\ main' = "terminated" /\ UNCHANGED <<input, storage>>
          /\ opts.isDir /\ ~Rejected(opts)
      BY <1>4, <2>7 DEF Throw, IInv, ConfigureInv
    <3>2. locked \cap Opened # {}
      BY <1>4, <2>7, <3>1 DEF IInv, ScanInv, Throw
    <3>3. CASE main = "terminated"
      BY <3>1, <3>3 DEF Ended, Selection!vars
    <3>4. CASE main # "terminated"
      <4>1. ~Ended
        BY <1>4, <2>7, <3>4 DEF Ended, IInv, ConfigureInv, HandOverInv, Joinable
      <4> QED
        BY <1>2, <3>1, <3>2, <4>1 DEF Ended, Selection!Next,
           Selection!Terminate, Selection!End
    <3> QED
      BY <3>3, <3>4
  <2>8. ASSUME UNCHANGED <<input, main, client>> PROVE Step
    BY <2>8 DEF Ended, Selection!vars
  <2>9. CASE OpenRoot
    BY <2>7, <2>8, <2>9 DEF OpenRoot
  <2>10. ASSUME NEW e \in frontier, VisitDirectory(e) PROVE Step
    BY <2>7, <2>8, <2>10 DEF VisitDirectory, At
  <2>11. ASSUME NEW e \in frontier, VisitFile(e) \/ VisitOther(e) PROVE Step
    BY <2>8, <2>11 DEF VisitFile, VisitOther
  <2>12. CASE ObeyStop \/ LeaveLoop \/ Publish \/ ClearRunning
    BY <2>8, <2>12 DEF ObeyStop, LeaveLoop, Publish, ClearRunning
  <2>13. CASE UNCHANGED vars
    BY <2>8, <2>13 DEF vars
  <2> QED
    BY <1>4, <2>1, <2>2, <2>3, <2>4, <2>5, <2>6, <2>9, <2>10, <2>11, <2>12,
       <2>13 DEF Next, Main, MainRuns, Scanner, Terminated
<1> QED
  <2>1. IInv /\ IInv' /\ [Next]_vars => Step
    BY <1>4
  <2> QED
    BY InductiveInvariant, <1>1, <2>1, PTL DEF Spec, SelectionSpec,
       Selection!Spec
=============================================================================
