---------------------------- MODULE ConfigStore -----------------------------
(***************************************************************************)
(* How torrenttools finds config.yml and trackers.json: load_config()       *)
(* (src/config_parser.cpp), load_tracker_database()                         *)
(* (src/tracker_database.cpp), load_config_and_tracker_db()                 *)
(* (src/common.cpp) and the order in which `create` and `edit` call them.   *)
(*                                                                         *)
(* Several commands run at once for one user.  Each looks in the user       *)
(* directory, the system directory and the build directory, copies what it  *)
(* finds in the system directory to the user directory, and keeps what it   *)
(* read in a pointer of its own.  Meanwhile the user edits files, packages  *)
(* are installed, and a command may die between any two of its steps.       *)
(***************************************************************************)
EXTENDS Naturals, Sequences

CONSTANTS Proc,         \* the commands
          Commands      \* the command lines they may have

Stores == {"config", "trackers"}

\* A command line: the subcommand, the stores whose location is given by an
\* option, and, for `edit`, how many announce options make it load again.
Command == [name : {"create", "edit"}, custom : SUBSET Stores, reloads : 0 .. 2]

ASSUME CommandAssumption == Commands \subseteq Command

VARIABLES user,         \* the content of each file in the user directory
          global,       \* in the system directory
          build,        \* are the files in the build directory?
          custom,       \* at the location an option names
          closed,       \* the user directory cannot be searched or written
          cmd,          \* the command line of each process
          todo,         \* the loads it has still to do
          pc,           \* its next step
          copied,       \* the version it is copying, or "absent"
          cache         \* config_ptr and tracker_db_ptr: what was read

outside == <<user, global, custom>>
fixed   == <<build, closed, cmd>>
vars    == <<outside, fixed, todo, pc, copied, cache>>

\* Bound: what the package installs, and the next package.
Versions == {"shipped", "upgrade"}

\* What a file of the user directory holds: `own` is written by the user.
UserContent == {"absent", "partial", "own"} \union Versions

CustomContent == {"missing", "before", "after"}

Given == CustomContent \ {"missing"}

\* What a pointer refers to; "none" is a null pointer.
Content == {"none", "partial", "own", "build"} \union Versions \union Given

Ended == {"done", "failed", "dead"}

\* A call of a loader: load_config_and_tracker_db passes the path an option
\* gives ("option"), the other callers never do ("default").
Calls == [store : Stores, loader : {"option", "default"}]

Load(f, loader) == [store |-> f, loader |-> loader]

LoadBoth == <<Load("config", "option"), Load("trackers", "option")>>

\* The two arguments of set_trackers, in either order: C++ leaves it open.
Arguments == {<<Load("config", "default"), Load("trackers", "default")>>,
              <<Load("trackers", "default"), Load("config", "default")>>}

\* The loads of a command: postprocess_*_app, the announce options, and
\* get_destination_path.
Plans(c) ==
    IF c.name = "create"
    THEN {LoadBoth \o a \o <<Load("trackers", "default")>> : a \in Arguments}
    ELSE {LoadBoth
            \o (IF c.reloads > 0 THEN LoadBoth ELSE <<>>)
            \o (IF c.reloads > 1 THEN LoadBoth ELSE <<>>)
            \o <<Load("trackers", "default")>>}

Init ==
    /\ user \in [Stores -> {"absent", "own"}]
    /\ global \in [Stores -> {"absent", "shipped"}]
    /\ build \in BOOLEAN
    /\ custom \in [Stores -> {"missing", "before"}]
    /\ closed \in BOOLEAN
    /\ cmd \in [Proc -> Commands]
    /\ todo \in {t \in [Proc -> UNION {Plans(c) : c \in Commands}] :
                    \A p \in Proc : t[p] \in Plans(cmd[p])}
    /\ pc = [p \in Proc |-> "load"]
    /\ copied = [p \in Proc |-> "absent"]
    /\ cache = [p \in Proc |-> [f \in Stores |-> "none"]]

-----------------------------------------------------------------------------
(* A command. *)

\* The store of the load p is doing.
Store(p) == Head(todo[p]).store

At(p, step) == pc[p] = step /\ todo[p] # <<>>

Goto(p, step) == pc' = [pc EXCEPT ![p] = step]

\* The load returns, and the pointer to f refers to content.
Return(p, content) ==
    /\ cache' = [cache EXCEPT ![p][Store(p)] = content]
    /\ todo' = [todo EXCEPT ![p] = Tail(@)]
    /\ Goto(p, "load")

Cached(p) == cache[p][Store(p)] # "none"

\* Does this call get the path of an option?
ByOption(p) == Head(todo[p]).loader = "option" /\ Store(p) \in cmd[p].custom

\* Only load_config(custom_path) does not look at the pointer first.
UseCache(p) ==
    /\ At(p, "load") /\ Cached(p)
    /\ ~(Store(p) = "config" /\ ByOption(p))
    /\ Return(p, cache[p][Store(p)])
    /\ UNCHANGED <<outside, fixed, copied>>

LoadCustom(p) ==
    /\ At(p, "load") /\ ByOption(p)
    /\ Store(p) = "config" \/ ~Cached(p)
    /\ IF custom[Store(p)] = "missing"
       THEN Goto(p, "failed") /\ UNCHANGED <<todo, cache>>
       ELSE Return(p, custom[Store(p)])
    /\ UNCHANGED <<outside, fixed, copied>>

\* DEVIATION: load_tracker_database() does not look at tracker_db_ptr.
SearchUserAgain(p) ==
    /\ At(p, "load") /\ ~ByOption(p)
    /\ Store(p) = "trackers" \/ ~Cached(p)
    /\ Goto(p, IF ~closed /\ user[Store(p)] # "absent" THEN "readUser" ELSE "global")
    /\ UNCHANGED <<outside, fixed, todo, copied, cache>>

SearchUser(p) ==
    /\ At(p, "load") /\ ~ByOption(p) /\ ~Cached(p)
    /\ Goto(p, IF ~closed /\ user[Store(p)] # "absent" THEN "readUser" ELSE "global")
    /\ UNCHANGED <<outside, fixed, todo, copied, cache>>

\* DEVIATION: the system directory is taken to have the file.
SearchGlobalUnchecked(p) ==
    /\ At(p, "global")
    /\ Goto(p, "copy")
    /\ UNCHANGED <<outside, fixed, todo, copied, cache>>

SearchGlobal(p) ==
    /\ At(p, "global")
    /\ Goto(p, IF global[Store(p)] # "absent" THEN "copy" ELSE "build")
    /\ UNCHANGED <<outside, fixed, todo, copied, cache>>

SearchBuild(p) ==
    /\ At(p, "build")
    /\ Return(p, IF build THEN "build" ELSE "none")
    /\ UNCHANGED <<outside, fixed, copied>>

\* DEVIATION: copy_file(..., overwrite_existing).
CreateCopyOverwrite(p) ==
    /\ At(p, "copy")
    /\ IF closed
       THEN Goto(p, "failed") /\ UNCHANGED <<user, copied>>
       ELSE /\ user' = [user EXCEPT ![Store(p)] = "partial"]
            /\ copied' = [copied EXCEPT ![p] = global[Store(p)]]
            /\ Goto(p, "copying")
    /\ UNCHANGED <<global, custom, fixed, todo, cache>>

\* DEVIATION: a file that exists by now is no error, it is left alone.
CreateCopySkip(p) ==
    /\ At(p, "copy")
    /\ IF closed
       THEN Goto(p, "failed") /\ UNCHANGED <<user, copied>>
       ELSE IF user[Store(p)] # "absent"
       THEN Goto(p, "readGlobal") /\ UNCHANGED <<user, copied>>
       ELSE /\ user' = [user EXCEPT ![Store(p)] = "partial"]
            /\ copied' = [copied EXCEPT ![p] = global[Store(p)]]
            /\ Goto(p, "copying")
    /\ UNCHANGED <<global, custom, fixed, todo, cache>>

\* create_directories and the first half of copy_file, which creates the file
\* or throws because it is there.
CreateCopy(p) ==
    /\ At(p, "copy")
    /\ IF closed \/ user[Store(p)] # "absent"
       THEN Goto(p, "failed") /\ UNCHANGED <<user, copied>>
       ELSE /\ user' = [user EXCEPT ![Store(p)] = "partial"]
            /\ copied' = [copied EXCEPT ![p] = global[Store(p)]]
            /\ Goto(p, "copying")
    /\ UNCHANGED <<global, custom, fixed, todo, cache>>

\* The data is written.  A file the user has put in its place is not touched.
FinishCopy(p) ==
    /\ At(p, "copying")
    /\ user' = IF user[Store(p)] = "partial"
               THEN [user EXCEPT ![Store(p)] = copied[p]] ELSE user
    /\ copied' = [copied EXCEPT ![p] = "absent"]
    /\ Goto(p, "readGlobal")
    /\ UNCHANGED <<global, custom, fixed, todo, cache>>

\* A truncated trackers.json is no JSON; a truncated config.yml may well be YAML.
ReadUser(p) ==
    /\ At(p, "readUser")
    /\ \/ /\ user[Store(p)] # "partial" \/ Store(p) = "config"
          /\ Return(p, user[Store(p)])
       \/ /\ user[Store(p)] = "partial"
          /\ Goto(p, "failed")
          /\ UNCHANGED <<todo, cache>>
    /\ UNCHANGED <<outside, fixed, copied>>

\* The file that was found is read, not the copy.
ReadGlobal(p) ==
    /\ At(p, "readGlobal")
    /\ Return(p, global[Store(p)])
    /\ UNCHANGED <<outside, fixed, copied>>

Finish(p) ==
    /\ pc[p] = "load" /\ todo[p] = <<>>
    /\ Goto(p, "done")
    /\ UNCHANGED <<outside, fixed, todo, copied, cache>>

\* Killed, or out of disk space, in the middle of the copy.  Anywhere else a
\* command that ends leaves nothing behind: it is one that takes no more steps.
Die(p) ==
    /\ At(p, "copying")
    /\ copied' = [copied EXCEPT ![p] = "absent"]
    /\ Goto(p, "dead")
    /\ UNCHANGED <<outside, fixed, todo, cache>>

Step(p) ==
    \/ UseCache(p) \/ LoadCustom(p)
    \/ SearchUser(p) \/ SearchGlobal(p) \/ SearchBuild(p)
    \/ CreateCopy(p) \/ FinishCopy(p) \/ ReadUser(p) \/ ReadGlobal(p)
    \/ Finish(p)

-----------------------------------------------------------------------------
(* The user and the package manager (external); a save replaces the file. *)

SaveUser(f) ==
    /\ ~closed /\ user[f] # "own"
    /\ user' = [user EXCEPT ![f] = "own"]
    /\ UNCHANGED <<global, custom, fixed, todo, pc, copied, cache>>

SaveCustom(f) ==
    /\ custom[f] = "before"
    /\ custom' = [custom EXCEPT ![f] = "after"]
    /\ UNCHANGED <<user, global, fixed, todo, pc, copied, cache>>

Install(f) ==
    /\ global[f] # "upgrade"
    /\ global' = [global EXCEPT ![f] = IF @ = "absent" THEN "shipped" ELSE "upgrade"]
    /\ UNCHANGED <<user, custom, fixed, todo, pc, copied, cache>>

Outside == \E f \in Stores : SaveUser(f) \/ SaveCustom(f) \/ Install(f)

Next == (\E p \in Proc : Step(p) \/ Die(p)) \/ Outside

Spec == Init /\ [][Next]_vars

-----------------------------------------------------------------------------
(* Properties. *)

\* The type invariant.
TypeOK ==
    /\ user \in [Stores -> UserContent]
    /\ global \in [Stores -> {"absent"} \union Versions]
    /\ build \in BOOLEAN
    /\ custom \in [Stores -> CustomContent]
    /\ closed \in BOOLEAN
    /\ cmd \in [Proc -> Commands]
    /\ todo \in [Proc -> Seq(Calls)]
    /\ pc \in [Proc -> {"load", "global", "build", "copy", "copying", "readUser",
                        "readGlobal"} \union Ended]
    /\ copied \in [Proc -> {"absent"} \union Versions]
    /\ cache \in [Proc -> [Stores -> Content]]

\* No command ever destroys a file the user has written, also when the user
\* writes it after the command has found that there is none
\* (docs/configuration.rst: "user-local configuration persists").
OwnFileKept == [][\A f \in Stores : user[f] = "own" => user'[f] = "own"]_user

\* A command that works with the defaults of the package leaves a complete
\* file in the user directory, however many commands run for the first time at
\* once (docs/configuration.rst: "will then be copied to the user location").
DefaultsCopied ==
    \A p \in Proc, f \in Stores :
        cache[p][f] \in Versions => user[f] \notin {"absent", "partial"}

\* The location an option names is the only one its command reads from, though
\* run_create_app and get_destination_path call the loaders without it.
OptionHonoured ==
    \A p \in Proc, f \in Stores :
        cache[p][f] # "none" => (cache[p][f] \in Given <=> f \in cmd[p].custom)

\* All the loads of a command return the same data, whatever happens to the
\* files, but for a configuration named by an option, which `edit` reads anew.
OneSnapshot ==
    [][\A p \in Proc, f \in Stores :
          cache[p][f] # "none" /\ ~(f = "config" /\ f \in cmd[p].custom)
              => cache'[p][f] = cache[p][f]]_cache

\* A search knows of the files what it has seen of them: nothing is removed.
SearchInv ==
    \A p \in Proc :
        /\ pc[p] \in {"global", "build", "copy", "copying", "readUser", "readGlobal"}
              => todo[p] # <<>> /\ Store(p) \notin cmd[p].custom /\ ~Cached(p)
        /\ pc[p] \in {"copy", "copying", "readGlobal"} => global[Store(p)] # "absent"
        /\ pc[p] \in {"copying", "readUser"} => user[Store(p)] # "absent"
        /\ pc[p] = "copying" => copied[p] \in Versions
        /\ pc[p] = "readGlobal" => user[Store(p)] \notin {"absent", "partial"}

\* The i-th load to come of p is one by an option, or of a store no option
\* names, or it finds the pointer set, because one by the option came first.
Covered(p, i) ==
    \/ todo[p][i].loader = "option"
    \/ todo[p][i].store \notin cmd[p].custom
    \/ cache[p][todo[p][i].store] # "none"
    \/ \E j \in 1 .. i - 1 : todo[p][j] = Load(todo[p][i].store, "option")

OptionInv == \A p \in Proc : \A i \in DOMAIN todo[p] : Covered(p, i)

\* The inductive invariant.
IInv == TypeOK /\ SearchInv /\ OptionInv /\ DefaultsCopied /\ OptionHonoured

\* Where the user has written nothing the files of the system are used: no
\* command works with a truncated file.  Violated by the code.
WholeFilesUsed == \A p \in Proc, f \in Stores : cache[p][f] # "partial"
=============================================================================
