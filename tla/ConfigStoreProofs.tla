------------------------- MODULE ConfigStoreProofs --------------------------
(***************************************************************************)
(* Any number of commands, with any command lines, may look for their      *)
(* configuration at once: what the user wrote stays, the defaults of the    *)
(* package end up whole in the user directory, and an option is honoured.  *)
(***************************************************************************)
EXTENDS ConfigStore, SequenceTheorems, TLAPS

\* The first load of a store in t is one that looks at the option.
OptionFirst(t) ==
    \A i \in DOMAIN t :
        t[i].loader = "default" => \E j \in 1 .. i - 1 : t[j] = Load(t[i].store, "option")

LEMMA LoadFacts ==
    /\ \A f \in Stores : Load(f, "option") \in Calls /\ Load(f, "default") \in Calls
    /\ \A f : Load(f, "option").loader = "option"
    /\ "config" \in Stores /\ "trackers" \in Stores
BY DEF Load, Calls, Stores

\* t starts with the two loads of load_config_and_tracker_db.
StartsWithBoth(t) ==
    /\ t \in Seq(Calls) /\ Len(t) >= 2
    /\ t[1] = Load("config", "option") /\ t[2] = Load("trackers", "option")

LEMMA BothFirst ==
    ASSUME NEW t, StartsWithBoth(t)
    PROVE  OptionFirst(t)
<1> USE DEF StartsWithBoth
<1> SUFFICES ASSUME NEW i \in DOMAIN t, t[i].loader = "default"
             PROVE  \E j \in 1 .. i - 1 : t[j] = Load(t[i].store, "option")
  BY DEF OptionFirst
<1>1. i \in 1 .. Len(t) /\ t[i] \in Calls
  OBVIOUS
<1>6. t[i].store \in Stores
  BY <1>1 DEF Calls
<1>2. t[1].loader = "option" /\ t[2].loader = "option"
  BY LoadFacts
<1>3. i \in Nat /\ i > 2
  BY <1>1, <1>2
<1>4. CASE t[i].store = "config"
  BY <1>3, <1>4
<1>5. CASE t[i].store = "trackers"
  BY <1>3, <1>5
<1> QED
  BY <1>6, <1>4, <1>5 DEF Stores

LEMMA AppendToBoth ==
    ASSUME NEW s \in Seq(Calls)
    PROVE  StartsWithBoth(LoadBoth \o s)
<1>1. Load("config", "option") \in Calls /\ Load("trackers", "option") \in Calls
  BY LoadFacts
<1>2. LoadBoth \in Seq(Calls) /\ Len(LoadBoth) = 2
      /\ LoadBoth[1] = Load("config", "option") /\ LoadBoth[2] = Load("trackers", "option")
  BY <1>1 DEF LoadBoth
<1>3. /\ LoadBoth \o s \in Seq(Calls)
      /\ Len(LoadBoth \o s) = Len(LoadBoth) + Len(s)
      /\ \A i \in 1 .. Len(LoadBoth) + Len(s) :
             (LoadBoth \o s)[i] = IF i <= Len(LoadBoth) THEN LoadBoth[i]
                                  ELSE s[i - Len(LoadBoth)]
  <2>1. LoadBoth \in Seq(Calls)
    BY <1>2
  <2> QED
    BY ONLY <2>1, s \in Seq(Calls), ConcatProperties
<1>4. Len(s) \in Nat
  OBVIOUS
<1> QED
  BY <1>2, <1>3, <1>4 DEF StartsWithBoth

LEMMA PlanFacts ==
    ASSUME NEW c, NEW t \in Plans(c)
    PROVE  t \in Seq(Calls) /\ OptionFirst(t)
<1>1. LoadBoth \in Seq(Calls)
  BY LoadFacts DEF LoadBoth
<1>2. <<Load("trackers", "default")>> \in Seq(Calls) /\ <<>> \in Seq(Calls)
  BY LoadFacts
<1>3. CASE c.name = "create"
  <2>1. PICK a \in Arguments : t = LoadBoth \o a \o <<Load("trackers", "default")>>
    BY <1>3 DEF Plans
  <2>2. a \in Seq(Calls)
    <3>1. <<Load("config", "default"), Load("trackers", "default")>> \in Seq(Calls)
      BY LoadFacts
    <3>2. <<Load("trackers", "default"), Load("config", "default")>> \in Seq(Calls)
      BY LoadFacts
    <3> QED
      BY <3>1, <3>2 DEF Arguments
  <2>3. t = LoadBoth \o (a \o <<Load("trackers", "default")>>)
    BY <1>1, <1>2, <2>1, <2>2
  <2>4. a \o <<Load("trackers", "default")>> \in Seq(Calls)
    BY <1>2, <2>2
  <2> QED
    BY <2>3, <2>4, AppendToBoth, BothFirst DEF StartsWithBoth
<1>4. CASE c.name # "create"
  <2> DEFINE u == IF c.reloads > 0 THEN LoadBoth ELSE <<>>
             w == IF c.reloads > 1 THEN LoadBoth ELSE <<>>
  <2>1. t = LoadBoth \o u \o w \o <<Load("trackers", "default")>>
    BY <1>4 DEF Plans
  <2>2. u \in Seq(Calls) /\ w \in Seq(Calls)
    BY <1>1, <1>2
  <2> HIDE DEF u, w
  <2>3. t = LoadBoth \o (u \o w \o <<Load("trackers", "default")>>)
    BY <1>1, <1>2, <2>1, <2>2
  <2>4. u \o w \o <<Load("trackers", "default")>> \in Seq(Calls)
    BY <1>2, <2>2
  <2> QED
    BY <2>3, <2>4, AppendToBoth, BothFirst DEF StartsWithBoth
<1> QED
  BY <1>3, <1>4
-----------------------------------------------------------------------------
(* The inductive invariant. *)

LEMMA Initially ==
    ASSUME Init
    PROVE  IInv
<1> USE DEF Init
<1>1. \A p \in Proc : todo[p] \in Seq(Calls) /\ OptionFirst(todo[p])
  BY PlanFacts
<1>2. todo \in [Proc -> Seq(Calls)]
  <2>1. PICK T : todo \in [Proc -> T]
    OBVIOUS
  <2> QED
    BY <1>1, <2>1
<1>3. cache \in [Proc -> [Stores -> Content]]
  BY DEF Content
<1>4. TypeOK
  BY <1>2, <1>3 DEF TypeOK, UserContent, CustomContent, Versions
<1>5. SearchInv
  BY DEF SearchInv
<1>6. OptionInv
  <2> SUFFICES ASSUME NEW p \in Proc, NEW i \in DOMAIN todo[p]
               PROVE  Covered(p, i)
    BY DEF OptionInv
  <2>1. todo[p][i] \in Calls
    BY <1>1
  <2>2. todo[p][i].loader \in {"option", "default"}
    BY <2>1 DEF Calls
  <2> QED
    BY <1>1, <2>2 DEF OptionFirst, Covered
<1>7. DefaultsCopied /\ OptionHonoured
  BY DEF DefaultsCopied, OptionHonoured, Versions
<1> QED
  BY <1>4, <1>5, <1>6, <1>7 DEF IInv

\* What a step of p does to the part of the state only p has.
LEMMA OthersKept ==
    ASSUME NEW p \in Proc, TypeOK, NEW v,
           \/ UNCHANGED <<todo, cache>> /\ Goto(p, v)
           \/ todo[p] # <<>> /\ Return(p, v)
    PROVE  \A q \in Proc \ {p} :
              pc'[q] = pc[q] /\ todo'[q] = todo[q] /\ cache'[q] = cache[q]
BY DEF TypeOK, Goto, Return

\* A load that returns content keeps the types and the order of the loads.
LEMMA ReturnFacts ==
    ASSUME NEW p \in Proc, TypeOK, OptionInv, UNCHANGED cmd,
           todo[p] # <<>>, NEW content \in Content, Return(p, content),
           cache[p][Store(p)] # "none" => content # "none",
           Store(p) \in cmd[p].custom => content # "none"
    PROVE  /\ todo' \in [Proc -> Seq(Calls)]
           /\ cache' \in [Proc -> [Stores -> Content]]
           /\ cache' = [cache EXCEPT ![p][Store(p)] = content]
           /\ Store(p) \in Stores
           /\ pc' = [pc EXCEPT ![p] = "load"]
           /\ OptionInv'
<1> USE DEF TypeOK, Return, Goto
<1> DEFINE f == Store(p)
<1>7. todo[p] \in Seq(Calls)
  OBVIOUS
<1>2. /\ Head(todo[p]) \in Calls
      /\ Tail(todo[p]) \in Seq(Calls)
      /\ Len(Tail(todo[p])) = Len(todo[p]) - 1
      /\ \A i \in 1 .. Len(Tail(todo[p])) : Tail(todo[p])[i] = todo[p][i + 1]
  BY <1>7, HeadTailProperties
<1>1. f \in Stores
  BY <1>2 DEF Store, Calls
<1>3. todo' \in [Proc -> Seq(Calls)] /\ todo'[p] = Tail(todo[p])
  BY <1>2
<1>4. cache' \in [Proc -> [Stores -> Content]]
  BY <1>1
<1>5. /\ cache'[p][f] = content
      /\ \A g \in Stores \ {f} : cache'[p][g] = cache[p][g]
      /\ \A q \in Proc \ {p} : cache'[q] = cache[q] /\ todo'[q] = todo[q]
  BY <1>1
<1>6. OptionInv'
  <2> SUFFICES ASSUME NEW q \in Proc, NEW i \in DOMAIN todo'[q]
               PROVE  Covered(q, i)'
    BY DEF OptionInv
  <2>1. CASE q # p
    BY <1>5, <2>1 DEF OptionInv, Covered
  <2>2. CASE q = p
    <3> DEFINE g == todo'[p][i].store
    <3>1. /\ Len(todo[p]) \in Nat /\ i \in Nat /\ i \in 1 .. Len(todo[p]) - 1
          /\ \A k \in 1 .. Len(todo[p]) - 1 : todo'[p][k] = todo[p][k + 1]
          /\ i + 1 \in DOMAIN todo[p]
      BY <1>2, <1>3, <1>7, <2>2
    <3>2. todo'[p][i] = todo[p][i + 1] /\ g = todo[p][i + 1].store
      BY <3>1
    <3>3. Covered(p, i + 1)
      BY <3>1 DEF OptionInv
    <3>4. CASE \E j \in 1 .. (i + 1) - 1 : todo[p][j] = Load(g, "option")
      <4>1. PICK k \in 1 .. (i + 1) - 1 : todo[p][k] = Load(g, "option")
        BY <3>4
      <4>2. CASE k = 1
        <5>4. Load(g, "option").store = g
          BY DEF Load
        <5>5. Head(todo[p]) = todo[p][1]
          BY <1>7
        <5>1. Store(p) = g
          BY <4>1, <4>2, <5>4, <5>5 DEF Store
        <5>2. cache'[p][g] = content
          BY <1>5, <5>1
        <5> QED
          BY <2>2, <5>1, <5>2 DEF Covered
      <4>3. CASE k # 1
        <5>1. k - 1 \in 1 .. i - 1 /\ todo'[p][k - 1] = Load(g, "option")
          BY <3>1, <4>1, <4>3
        <5> QED
          BY <2>2, <5>1 DEF Covered
      <4> QED
        BY <4>2, <4>3
    <3>5. CASE cache[p][g] # "none"
      <4>1. cache'[p][g] # "none"
        <5>1. g \in Stores
          <6>1. todo[p][i + 1] \in Calls
            BY <1>7, <3>1
          <6> QED
            BY <3>2, <6>1 DEF Calls
        <5> QED
          BY <1>5, <3>5, <5>1
      <4> QED
        BY <2>2, <4>1 DEF Covered
    <3> QED
      BY <2>2, <3>2, <3>3, <3>4, <3>5 DEF Covered
  <2> QED
    BY <2>1, <2>2
<1> QED
  BY <1>1, <1>3, <1>4, <1>6
-----------------------------------------------------------------------------
(* One step. *)

\* A step of p, or of the user or the package manager, or none.
Cases(p) ==
    \/ UseCache(p) \/ LoadCustom(p)
    \/ SearchUser(p) \/ SearchGlobal(p) \/ SearchBuild(p)
    \/ CreateCopy(p) \/ FinishCopy(p) \/ ReadUser(p) \/ ReadGlobal(p)
    \/ Finish(p) \/ Die(p)

LEMMA StepCases ==
    ASSUME [Next]_vars
    PROVE  \/ \E p \in Proc : Cases(p)
           \/ \E f \in Stores : SaveUser(f) \/ SaveCustom(f) \/ Install(f)
           \/ UNCHANGED vars
BY DEF Next, Step, Cases, Outside

\* The store of the load p is doing is one.
LEMMA StoreType ==
    ASSUME TypeOK, NEW p \in Proc, todo[p] # <<>>
    PROVE  Store(p) \in Stores /\ Head(todo[p]) \in Calls
<1>1. todo[p] \in Seq(Calls)
  BY DEF TypeOK
<1>2. Head(todo[p]) \in Calls
  BY <1>1, HeadTailProperties
<1> QED
  BY <1>2 DEF Store, Calls

\* No step of anyone removes a file, or empties one that is complete.
LEMMA FilesStay ==
    ASSUME IInv, [Next]_vars
    PROVE  /\ user' \in [Stores -> UserContent]
           /\ global' \in [Stores -> {"absent"} \union Versions]
           /\ \A f \in Stores :
                 /\ user[f] # "absent" => user'[f] # "absent"
                 /\ user[f] \notin {"absent", "partial"}
                        => user'[f] \notin {"absent", "partial"}
                 /\ user[f] = "own" => user'[f] = "own"
                 /\ global[f] # "absent" => global'[f] # "absent"
<1> USE DEF IInv, TypeOK, UserContent, Versions
<1>1. CASE UNCHANGED <<user, global>>
  BY <1>1
<1>2. ASSUME NEW p \in Proc, CreateCopy(p)
      PROVE  /\ global' = global
             /\ \/ user' = user
                \/ Store(p) \in Stores /\ user[Store(p)] = "absent"
                   /\ user' = [user EXCEPT ![Store(p)] = "partial"]
  BY <1>2, StoreType DEF CreateCopy, At
<1>3. ASSUME NEW p \in Proc, FinishCopy(p)
      PROVE  /\ global' = global
             /\ \/ user' = user
                \/ Store(p) \in Stores /\ user[Store(p)] = "partial"
                   /\ copied[p] \in Versions
                   /\ user' = [user EXCEPT ![Store(p)] = copied[p]]
  BY <1>3, StoreType DEF FinishCopy, At, SearchInv
<1>4. ASSUME NEW f \in Stores, SaveUser(f)
      PROVE  global' = global /\ user' = [user EXCEPT ![f] = "own"]
  BY <1>4 DEF SaveUser
<1>5. ASSUME NEW f \in Stores, Install(f)
      PROVE  /\ user' = user
             /\ global' = [global EXCEPT ![f] = IF global[f] = "absent"
                                                THEN "shipped" ELSE "upgrade"]
  BY <1>5 DEF Install
<1>6. \/ UNCHANGED <<user, global>>
      \/ \E p \in Proc : CreateCopy(p) \/ FinishCopy(p)
      \/ \E f \in Stores : SaveUser(f) \/ Install(f)
  BY StepCases DEF Cases, UseCache, LoadCustom, SearchUser, SearchGlobal, SearchBuild,
        ReadUser, ReadGlobal, Finish, Die, SaveCustom, vars, outside
<1>7. CASE \E p \in Proc : CreateCopy(p)
  BY <1>2, <1>7
<1>8. CASE \E p \in Proc : FinishCopy(p)
  BY <1>3, <1>8
<1>9. CASE \E f \in Stores : SaveUser(f)
  BY <1>4, <1>9
<1>10. CASE \E f \in Stores : Install(f)
  BY <1>5, <1>10
<1> QED
  BY <1>1, <1>6, <1>7, <1>8, <1>9, <1>10

Steps == {"load", "global", "build", "copy", "copying", "readUser", "readGlobal"} \union Ended

\* What a load of p may return.
Returnable(p, content) ==
    /\ content \in Content
    /\ cache[p][Store(p)] # "none" => content # "none"
    /\ cache[p][Store(p)] # "none" /\ ~(Store(p) = "config" /\ Store(p) \in cmd[p].custom)
          => content = cache[p][Store(p)]
    /\ Store(p) \in cmd[p].custom => content \in Given
    /\ Store(p) \notin cmd[p].custom => content \notin Given
    /\ content \in Versions => user[Store(p)] \notin {"absent", "partial"}

\* Every step of p goes to another step of the same load or returns from it.
LEMMA Effects ==
    ASSUME IInv, NEW p \in Proc, Cases(p)
    PROVE  /\ UNCHANGED <<fixed, global, custom>>
           /\ copied' \in [Proc -> {"absent"} \union Versions]
           /\ \A q \in Proc \ {p} : copied'[q] = copied[q]
           /\ \/ UNCHANGED <<todo, cache>> /\ \E v \in Steps : Goto(p, v)
              \/ todo[p] # <<>> /\ \E c : Returnable(p, c) /\ Return(p, c)
<1> USE DEF IInv, Steps, Ended
<1> DEFINE Goes == UNCHANGED <<todo, cache>> /\ \E v \in Steps : Goto(p, v)
           Returns == todo[p] # <<>> /\ \E c : Returnable(p, c) /\ Return(p, c)
<1>1. UNCHANGED <<fixed, global, custom>>
  BY DEF Cases, UseCache, LoadCustom, SearchUser, SearchGlobal, SearchBuild, CreateCopy,
         FinishCopy, ReadUser, ReadGlobal, Finish, Die, outside
<1>2. /\ copied' \in [Proc -> {"absent"} \union Versions]
      /\ \A q \in Proc \ {p} : copied'[q] = copied[q]
  <2>1. \/ copied' = copied
        \/ \E c \in {"absent"} \union Versions : copied' = [copied EXCEPT ![p] = c]
    <3>1. CASE CreateCopy(p)
      <4>1. global[Store(p)] \in {"absent"} \union Versions
        BY <3>1, StoreType DEF CreateCopy, At, TypeOK
      <4> QED
        BY <3>1, <4>1 DEF CreateCopy
    <3>2. CASE FinishCopy(p) \/ Die(p)
      BY <3>2 DEF FinishCopy, Die
    <3>3. CASE ~(CreateCopy(p) \/ FinishCopy(p) \/ Die(p))
      BY <3>3 DEF Cases, UseCache, LoadCustom, SearchUser, SearchGlobal, SearchBuild,
                  ReadUser, ReadGlobal, Finish
    <3> QED
      BY <3>1, <3>2, <3>3
  <2> QED
    BY <2>1 DEF TypeOK
<1>3. CASE UseCache(p)
  <2>1. todo[p] # <<>> /\ Return(p, cache[p][Store(p)])
    BY <1>3 DEF UseCache, At
  <2>2. Store(p) \in Stores
    BY <2>1, StoreType
  <2>3. cache[p][Store(p)] \in Content /\ cache[p][Store(p)] # "none"
    BY <1>3, <2>2 DEF UseCache, Cached, TypeOK
  <2>4. Returnable(p, cache[p][Store(p)])
    BY <2>2, <2>3 DEF Returnable, OptionHonoured, DefaultsCopied
  <2> QED
    BY <1>1, <1>2, <2>1, <2>4
<1>4. CASE LoadCustom(p)
  <2>1. CASE custom[Store(p)] = "missing"
    BY <1>1, <1>2, <1>4, <2>1 DEF LoadCustom
  <2>2. CASE custom[Store(p)] # "missing"
    <3>1. todo[p] # <<>> /\ Return(p, custom[Store(p)]) /\ Store(p) \in cmd[p].custom
      BY <1>4, <2>2 DEF LoadCustom, At, ByOption
    <3>2. Store(p) \in Stores
      BY <3>1, StoreType
    <3>3. custom[Store(p)] \in Given
      BY <2>2, <3>2 DEF TypeOK, Given
    <3>5. Store(p) = "config" \/ cache[p][Store(p)] = "none"
      BY <1>4 DEF LoadCustom, Cached
    <3>4. Returnable(p, custom[Store(p)])
      BY <3>1, <3>3, <3>5 DEF Returnable, Content, Given, CustomContent, Versions
    <3> QED
      BY <1>1, <1>2, <3>1, <3>4
  <2> QED
    BY <2>1, <2>2
<1>5. CASE SearchUser(p) \/ SearchGlobal(p) \/ CreateCopy(p) \/ FinishCopy(p) \/ Finish(p) \/ Die(p)
  <2>1. Goes
    BY <1>5 DEF SearchUser, SearchGlobal, CreateCopy, FinishCopy, Finish, Die
  <2> QED
    BY <1>1, <1>2, <2>1
<1>6. CASE SearchBuild(p)
  <2> DEFINE c == IF build THEN "build" ELSE "none"
  <2>1. todo[p] # <<>> /\ Return(p, c) /\ Store(p) \notin cmd[p].custom
    BY <1>6 DEF SearchBuild, At, SearchInv
  <2>2. cache[p][Store(p)] = "none"
    BY <1>6 DEF SearchBuild, At, SearchInv, Cached
  <2>3. Returnable(p, c)
    BY <2>1, <2>2 DEF Returnable, Content, Given, CustomContent, Versions
  <2> QED
    BY <1>1, <1>2, <2>1, <2>3
<1>7. CASE ReadUser(p)
  <2>1. /\ todo[p] # <<>> /\ pc[p] = "readUser"
        /\ Store(p) \notin cmd[p].custom /\ user[Store(p)] # "absent"
        /\ cache[p][Store(p)] = "none"
    BY <1>7 DEF ReadUser, At, SearchInv, Cached
  <2>2. user[Store(p)] \in UserContent
    BY <2>1, StoreType DEF TypeOK
  <2>3. Returnable(p, user[Store(p)])
    BY <2>1, <2>2 DEF Returnable, Content, UserContent, Given, CustomContent, Versions
  <2> QED
    BY <1>1, <1>2, <1>7, <2>1, <2>3 DEF ReadUser
<1>8. CASE ReadGlobal(p)
  <2>1. /\ todo[p] # <<>> /\ pc[p] = "readGlobal"
        /\ Store(p) \notin cmd[p].custom /\ global[Store(p)] # "absent"
        /\ user[Store(p)] \notin {"absent", "partial"} /\ cache[p][Store(p)] = "none"
    BY <1>8 DEF ReadGlobal, At, SearchInv, Cached
  <2>2. global[Store(p)] \in Versions
    BY <2>1, StoreType DEF TypeOK
  <2>3. Returnable(p, global[Store(p)])
    BY <2>1, <2>2 DEF Returnable, Content, Given, CustomContent, Versions
  <2> QED
    BY <1>1, <1>2, <1>8, <2>1, <2>3 DEF ReadGlobal
<1> QED
  BY <1>3, <1>4, <1>5, <1>6, <1>7, <1>8 DEF Cases

\* A step of p keeps all but what a search of p has seen.
LEMMA CommandStep ==
    ASSUME IInv, NEW p \in Proc, Cases(p)
    PROVE  TypeOK' /\ OptionInv' /\ OptionHonoured' /\ DefaultsCopied'
<1> USE DEF IInv
<1>1. [Next]_vars
  BY DEF Next, Step, Cases
<1>2. /\ user' \in [Stores -> UserContent]
      /\ global' \in [Stores -> {"absent"} \union Versions]
      /\ \A f \in Stores : user[f] \notin {"absent", "partial"}
                               => user'[f] \notin {"absent", "partial"}
  BY <1>1, FilesStay
<1>3. /\ UNCHANGED <<fixed, global, custom>>
      /\ copied' \in [Proc -> {"absent"} \union Versions]
  BY Effects
<1>4. CASE UNCHANGED <<todo, cache>> /\ \E v \in Steps : Goto(p, v)
  <2>1. pc' \in [Proc -> Steps]
    BY <1>4 DEF TypeOK, Goto, Steps
  <2>2. TypeOK'
    BY <1>2, <1>3, <1>4, <2>1 DEF TypeOK, fixed, Steps
  <2>3. OptionInv' /\ OptionHonoured'
    BY <1>3, <1>4 DEF OptionInv, Covered, OptionHonoured, fixed
  <2>4. DefaultsCopied'
    BY <1>2, <1>4 DEF DefaultsCopied
  <2> QED
    BY <2>2, <2>3, <2>4
<1>5. CASE todo[p] # <<>> /\ \E c : Returnable(p, c) /\ Return(p, c)
  <2>1. PICK c : Returnable(p, c) /\ Return(p, c)
    BY <1>5
  <2>2. /\ c \in Content
        /\ cache[p][Store(p)] # "none" => c # "none"
        /\ Store(p) \in cmd[p].custom => c # "none"
    BY <2>1 DEF Returnable, Given, CustomContent
  <2>3. UNCHANGED cmd
    BY <1>3 DEF fixed
  <2>4. /\ todo' \in [Proc -> Seq(Calls)]
        /\ cache' \in [Proc -> [Stores -> Content]]
        /\ cache' = [cache EXCEPT ![p][Store(p)] = c]
        /\ Store(p) \in Stores
        /\ pc' = [pc EXCEPT ![p] = "load"]
        /\ OptionInv'
    BY <1>5, <2>1, <2>2, <2>3, ReturnFacts
  <2>5. pc' \in [Proc -> Steps]
    BY <2>4 DEF TypeOK, Steps
  <2>6. TypeOK'
    BY <1>2, <1>3, <2>4, <2>5 DEF TypeOK, fixed, Steps
  <2>7. /\ cache'[p][Store(p)] = c
        /\ \A f \in Stores \ {Store(p)} : cache'[p][f] = cache[p][f]
        /\ \A q \in Proc \ {p} : cache'[q] = cache[q]
    BY <2>4 DEF TypeOK
  <2>8. OptionHonoured'
    BY <2>1, <2>3, <2>7 DEF OptionHonoured, Returnable
  <2>9. DefaultsCopied'
    BY <1>2, <2>1, <2>4, <2>7 DEF DefaultsCopied, Returnable
  <2> QED
    BY <2>4, <2>6, <2>8, <2>9
<1> QED
  BY <1>4, <1>5, Effects

\* What a search of p has seen is so after a step of p.
LEMMA SearchStep ==
    ASSUME IInv, NEW p \in Proc, Cases(p)
    PROVE  SearchInv'
<1> USE DEF IInv
<1> DEFINE Seen(q) ==
        /\ pc[q] \in {"global", "build", "copy", "copying", "readUser", "readGlobal"}
              => todo[q] # <<>> /\ Store(q) \notin cmd[q].custom /\ ~Cached(q)
        /\ pc[q] \in {"copy", "copying", "readGlobal"} => global[Store(q)] # "absent"
        /\ pc[q] \in {"copying", "readUser"} => user[Store(q)] # "absent"
        /\ pc[q] = "copying" => copied[q] \in Versions
        /\ pc[q] = "readGlobal" => user[Store(q)] \notin {"absent", "partial"}
<1>1. [Next]_vars
  BY DEF Next, Step, Cases
<1>2. \A f \in Stores :
         /\ user[f] # "absent" => user'[f] # "absent"
         /\ user[f] \notin {"absent", "partial"} => user'[f] \notin {"absent", "partial"}
         /\ global[f] # "absent" => global'[f] # "absent"
  BY <1>1, FilesStay
<1>3. /\ UNCHANGED <<fixed, global, custom>>
      /\ copied' \in [Proc -> {"absent"} \union Versions]
      /\ \A q \in Proc \ {p} : copied'[q] = copied[q]
  BY Effects
<1>4. \A q \in Proc \ {p} : pc'[q] = pc[q] /\ todo'[q] = todo[q] /\ cache'[q] = cache[q]
  BY Effects, OthersKept
<1>5. ASSUME NEW q \in Proc \ {p}
      PROVE  Seen(q)'
  <2>1. Store(q)' = Store(q) /\ (~Cached(q) => ~Cached(q)')
    BY <1>4 DEF Store, Cached
  <2>2. Seen(q)
    BY DEF SearchInv
  <2>3. CASE todo[q] # <<>>
    <3>1. Store(q) \in Stores
      BY <2>3, StoreType
    <3> QED
      BY <1>2, <1>3, <1>4, <2>1, <2>2, <3>1 DEF fixed
  <2>4. CASE todo[q] = <<>>
    BY <1>4, <2>2, <2>4
  <2> QED
    BY <2>3, <2>4
<1>6. CASE pc'[p] \in {"load"} \union Ended
  BY <1>5, <1>6 DEF SearchInv, Ended
<1>7. CASE SearchUser(p) /\ pc'[p] \notin {"load"} \union Ended
  <2>1. /\ todo[p] # <<>> /\ ~ByOption(p) /\ ~Cached(p) /\ UNCHANGED <<todo, cache, user>>
        /\ pc'[p] = IF ~closed /\ user[Store(p)] # "absent" THEN "readUser" ELSE "global"
    BY <1>7 DEF SearchUser, At, Goto, TypeOK, outside
  <2>2. Store(p)' = Store(p) /\ ~Cached(p)'
    BY <2>1 DEF Store, Cached
  <2>3. Store(p) \notin cmd[p].custom
    <3>1. todo[p] \in Seq(Calls) /\ 1 \in DOMAIN todo[p] /\ Head(todo[p]) = todo[p][1]
      BY <2>1 DEF TypeOK
    <3>2. Covered(p, 1)
      BY <3>1 DEF OptionInv
    <3> QED
      BY <2>1, <3>1, <3>2 DEF Covered, ByOption, Cached, Store
  <2>4. Seen(p)'
    BY <1>3, <2>1, <2>2, <2>3 DEF fixed
  <2> QED
    BY <1>5, <2>4 DEF SearchInv
<1>8. CASE SearchGlobal(p)
  <2>1. /\ todo[p] # <<>> /\ UNCHANGED <<todo, cache>> /\ pc[p] = "global"
        /\ pc'[p] = IF global[Store(p)] # "absent" THEN "copy" ELSE "build"
    BY <1>8 DEF SearchGlobal, At, Goto, TypeOK
  <2>2. Store(p)' = Store(p) /\ Cached(p)' = Cached(p)
    BY <2>1 DEF Store, Cached
  <2>3. Seen(p)'
    BY <1>3, <2>1, <2>2 DEF fixed, SearchInv
  <2> QED
    BY <1>5, <2>3 DEF SearchInv
<1>9. CASE CreateCopy(p) /\ pc'[p] \notin {"load"} \union Ended
  <2>1. /\ todo[p] # <<>> /\ UNCHANGED <<todo, cache>> /\ pc[p] = "copy"
        /\ pc'[p] = "copying"
        /\ user' = [user EXCEPT ![Store(p)] = "partial"]
        /\ copied' = [copied EXCEPT ![p] = global[Store(p)]]
    BY <1>9 DEF CreateCopy, At, Goto, TypeOK, Ended
  <2>2. Store(p)' = Store(p) /\ Cached(p)' = Cached(p) /\ Store(p) \in Stores
    BY <2>1, StoreType DEF Store, Cached
  <2>3. user'[Store(p)] = "partial" /\ copied'[p] = global[Store(p)]
        /\ global[Store(p)] \in Versions
    BY <2>1, <2>2 DEF TypeOK, SearchInv
  <2>4. Seen(p)'
    BY <1>3, <2>1, <2>2, <2>3 DEF fixed, SearchInv
  <2> QED
    BY <1>5, <2>4 DEF SearchInv
<1>10. CASE FinishCopy(p)
  <2>1. /\ todo[p] # <<>> /\ UNCHANGED <<todo, cache>> /\ pc[p] = "copying"
        /\ pc'[p] = "readGlobal"
        /\ user' = IF user[Store(p)] = "partial"
                   THEN [user EXCEPT ![Store(p)] = copied[p]] ELSE user
    BY <1>10 DEF FinishCopy, At, Goto, TypeOK
  <2>2. Store(p)' = Store(p) /\ Cached(p)' = Cached(p) /\ Store(p) \in Stores
    BY <2>1, StoreType DEF Store, Cached
  <2>3. user'[Store(p)] \notin {"absent", "partial"}
    BY <2>1, <2>2 DEF TypeOK, SearchInv, Versions
  <2>4. Seen(p)'
    BY <1>3, <2>1, <2>2, <2>3 DEF fixed, SearchInv
  <2> QED
    BY <1>5, <2>4 DEF SearchInv
<1>11. UseCache(p) => pc'[p] \in {"load"} \union Ended
  BY DEF UseCache, Return, Goto, TypeOK
<1>12. LoadCustom(p) \/ SearchBuild(p) \/ ReadUser(p) \/ ReadGlobal(p) \/ Finish(p) \/ Die(p)
         => pc'[p] \in {"load"} \union Ended
  BY DEF LoadCustom, SearchBuild, ReadUser, ReadGlobal, Finish, Die, Return, Goto, TypeOK, Ended
<1> QED
  BY <1>6, <1>7, <1>8, <1>9, <1>10, <1>11, <1>12 DEF Cases

\* The user and the package manager break nothing.
LEMMA OutsideStep ==
    ASSUME IInv, NEW f \in Stores, SaveUser(f) \/ SaveCustom(f) \/ Install(f)
    PROVE  IInv'
<1> USE DEF IInv
<1>1. UNCHANGED <<fixed, todo, pc, copied, cache>>
  BY DEF SaveUser, SaveCustom, Install
<1>2. /\ user' \in [Stores -> UserContent]
      /\ global' \in [Stores -> {"absent"} \union Versions]
      /\ \A g \in Stores :
            /\ user[g] # "absent" => user'[g] # "absent"
            /\ user[g] \notin {"absent", "partial"} => user'[g] \notin {"absent", "partial"}
            /\ global[g] # "absent" => global'[g] # "absent"
  BY FilesStay DEF Next, Outside
<1>3. custom' \in [Stores -> CustomContent]
  BY DEF SaveUser, SaveCustom, Install, TypeOK, CustomContent
<1>4. TypeOK'
  BY <1>1, <1>2, <1>3 DEF TypeOK, fixed
<1>5. OptionInv' /\ OptionHonoured'
  BY <1>1 DEF OptionInv, Covered, OptionHonoured, fixed
<1>6. DefaultsCopied'
  BY <1>1, <1>2 DEF DefaultsCopied
<1>7. SearchInv'
  <2>1. \A q \in Proc : Store(q)' = Store(q) /\ Cached(q)' = Cached(q)
    BY <1>1 DEF Store, Cached
  <2>2. \A q \in Proc : todo[q] # <<>> => Store(q) \in Stores
    BY StoreType
  <2> QED
    BY <1>1, <1>2, <2>1, <2>2 DEF SearchInv, fixed
<1> QED
  BY <1>4, <1>5, <1>6, <1>7

LEMMA Inductive ==
    ASSUME IInv, [Next]_vars
    PROVE  IInv'
<1>1. ASSUME NEW p \in Proc, Cases(p)
      PROVE  IInv'
  BY <1>1, CommandStep, SearchStep DEF IInv
<1>2. CASE UNCHANGED vars
  <2>1. UNCHANGED <<user, global, custom, build, closed, cmd, todo, pc, copied, cache>>
    BY <1>2 DEF vars, outside, fixed
  <2>2. \A q \in Proc : Store(q)' = Store(q) /\ Cached(q)' = Cached(q)
    BY <2>1 DEF Store, Cached
  <2> QED
    BY <2>1, <2>2 DEF IInv, TypeOK, SearchInv, OptionInv, Covered, DefaultsCopied, OptionHonoured
<1> QED
  BY <1>1, <1>2, OutsideStep, StepCases

-----------------------------------------------------------------------------
(* The theorems. *)

\* The inductive invariant holds of every number of commands.
THEOREM InductiveInvariant == Spec => []IInv
<1>1. Init => IInv
  BY Initially
<1>2. IInv /\ [Next]_vars => IInv'
  BY Inductive
<1> QED
  BY <1>1, <1>2, PTL DEF Spec

\* The pointers, files and calls have their types.
THEOREM TypeCorrect == Spec => []TypeOK
<1>1. IInv => TypeOK
  BY DEF IInv
<1> QED
  BY <1>1, InductiveInvariant, PTL

\* A command that works with the package's defaults (config_parser.cpp:203,
\* tracker_database.cpp:221) leaves a complete file in the user directory.
THEOREM DefaultsEndUpWhole == Spec => []DefaultsCopied
<1>1. IInv => DefaultsCopied
  BY DEF IInv
<1> QED
  BY <1>1, InductiveInvariant, PTL

\* The pointers the later calls without a path find (create.cpp:418,
\* common.cpp:167) are to the file the option named.
THEOREM OptionsAreHonoured == Spec => []OptionHonoured
<1>1. IInv => OptionHonoured
  BY DEF IInv
<1> QED
  BY <1>1, InductiveInvariant, PTL

\* What the user writes, at whatever moment of a first run, is not overwritten
\* by fs::copy_file.
THEOREM UserFilesPersist == Spec => OwnFileKept
<1>1. IInv /\ [Next]_vars => [\A f \in Stores : user[f] = "own" => user'[f] = "own"]_user
  BY FilesStay
<1> QED
  BY <1>1, InductiveInvariant, PTL DEF Spec, OwnFileKept

\* Only the configuration an option names is read a second time
\* (config_parser.cpp:185, tracker_database.cpp:203 and 236).
THEOREM DataStays == Spec => OneSnapshot
<1> DEFINE Stays == \A p \in Proc, f \in Stores :
                       cache[p][f] # "none" /\ ~(f = "config" /\ f \in cmd[p].custom)
                           => cache'[p][f] = cache[p][f]
<1>1. IInv /\ [Next]_vars => [Stays]_cache
  <2> SUFFICES ASSUME IInv, [Next]_vars, NEW q \in Proc, NEW f \in Stores,
                      cache[q][f] # "none", ~(f = "config" /\ f \in cmd[q].custom)
               PROVE  cache'[q][f] = cache[q][f]
    OBVIOUS
  <2> USE DEF IInv
  <2>1. ASSUME NEW p \in Proc, Cases(p)
        PROVE  cache'[q][f] = cache[q][f]
    <3>1. CASE UNCHANGED <<todo, cache>>
      BY <3>1
    <3>2. CASE todo[p] # <<>> /\ \E c : Returnable(p, c) /\ Return(p, c)
      <4>1. PICK c : Returnable(p, c) /\ cache' = [cache EXCEPT ![p][Store(p)] = c]
        BY <3>2 DEF Return
      <4>2. Store(p) \in Stores
        BY <3>2, StoreType
      <4>3. CASE q = p /\ f = Store(p)
        BY <4>1, <4>2, <4>3 DEF Returnable, TypeOK
      <4>4. CASE q # p \/ f # Store(p)
        BY <4>1, <4>2, <4>4 DEF TypeOK
      <4> QED
        BY <4>3, <4>4
    <3> QED
      BY <2>1, <3>1, <3>2, Effects
  <2>2. ASSUME NEW g \in Stores, SaveUser(g) \/ SaveCustom(g) \/ Install(g)
        PROVE  cache' = cache
    BY <2>2 DEF SaveUser, SaveCustom, Install
  <2>3. UNCHANGED vars => cache' = cache
    BY DEF vars
  <2> QED
    BY <2>1, <2>2, <2>3, StepCases
<1> QED
  BY <1>1, InductiveInvariant, PTL DEF Spec, OneSnapshot
=============================================================================
