---------------------------- MODULE FileMatcher -----------------------------
(***************************************************************************)
(* set_files_with_progress (src/create.cpp) and the file_matcher it drives *)
(* (include/file_matcher.hpp): the main thread configures and starts the   *)
(* matcher, polls is_running(), joins the scanning thread, takes the       *)
(* results, sorts them and adds them to the metafile; the scanning thread  *)
(* walks the tree and publishes its list.                                  *)
(*                                                                         *)
(* is_running_ is stored and loaded with memory_order_relaxed, so main may *)
(* see it fall before or after results_ is filled: the scanner's last two  *)
(* writes take effect in either order.  Only join() orders them.  The      *)
(* counters for the number on the progress line (files_scanned_ and        *)
(* files_included_) are left out: nothing else reads them.                 *)
(***************************************************************************)
EXTENDS FileTree

CONSTANT CanStop        \* does the client ever call file_matcher::stop()?

ASSUME StopAssumption == CanStop \in BOOLEAN

VARIABLES opts,         \* the command line
          locked,       \* the directories that cannot be read
          main,         \* the next step of the main thread, or how it ended
          storage,      \* the file list and mode of the metafile
          files,        \* the local variable of set_files_with_progress
          includes,     \* file_include_list_
          excludes,     \* file_exclude_list_
          includeHidden,\* include_hidden_files_
          stopRequested,\* the stop source of fs_thread_
          running,      \* is_running_
          results,      \* results_
          scan,         \* the next step of the scanning thread
          frontier,     \* entries the open directory iterators still hold
          found,        \* the local variable `results` of run()
          unseen        \* run()'s last writes that have not taken effect yet

input   == <<opts, locked>>
client  == <<storage, files>>
filter  == <<includes, excludes, includeHidden>>
vars    == <<input, main, client, filter, stopRequested, running, results,
             scan, frontier, found, unseen>>
scanner == <<results, scan, frontier, found, unseen>>

NoStorage == [mode |-> "none", files |-> <<>>]

Init ==
    /\ opts \in Options
    /\ locked \in SUBSET (Dirs \union {Root})
    /\ main = "target"
    /\ storage = NoStorage
    /\ files = <<>>
    /\ includes = {} /\ excludes = {} /\ includeHidden = FALSE
    /\ stopRequested = FALSE
    /\ running = FALSE
    /\ results = <<>>
    /\ scan = "none"
    /\ frontier = {}
    /\ found = <<>>
    /\ unseen = {}

-----------------------------------------------------------------------------
(* The main thread. *)

\* The target is a regular file: it is the only file of the metafile.
AddSingleFile ==
    /\ main = "target" /\ ~opts.isDir
    /\ main' = "done"
    /\ storage' = [mode |-> "single", files |-> <<Root>>]
    /\ UNCHANGED <<input, files, filter, stopRequested, running, scanner>>

MakeMatcher ==
    /\ main = "target" /\ opts.isDir
    /\ main' = "configure"
    /\ UNCHANGED <<input, client, filter, stopRequested, running, scanner>>

\* include_pattern: a pattern RE2 refuses throws out of the whole command.
IncludePattern(p) ==
    /\ main = "configure" /\ p \in opts.include \ includes
    /\ includes' = includes \union {p}
    /\ main' = IF p \in BadPatterns THEN "rejected" ELSE main
    /\ UNCHANGED <<input, client, excludes, includeHidden, stopRequested,
                   running, scanner>>

ExcludePattern(p) ==
    /\ main = "configure" /\ includes = opts.include
    /\ p \in opts.exclude \ excludes
    /\ excludes' = excludes \union {p}
    /\ main' = IF p \in BadPatterns THEN "rejected" ELSE main
    /\ UNCHANGED <<input, client, includes, includeHidden, stopRequested,
                   running, scanner>>

\* The last two lines of configure_matcher.
Compile ==
    /\ main = "configure"
    /\ includes = opts.include /\ excludes = opts.exclude
    /\ includeHidden' = opts.hidden
    /\ main' = IF (includes \union excludes) \cap HugePatterns # {}
               THEN "rejected" ELSE "start"
    /\ UNCHANGED <<input, client, includes, excludes, stopRequested, running,
                   scanner>>

Start ==
    /\ main = "start"
    /\ running' = TRUE
    /\ scan' = "begin"
    /\ main' = "poll"
    /\ UNCHANGED <<input, client, filter, stopRequested, results,
                   frontier, found, unseen>>

\* DEVIATION (no wait()): main goes on as soon as the flag is down.
SeeStoppedNoWait ==
    /\ main = "poll" /\ ~running
    /\ main' = "take"
    /\ UNCHANGED <<input, client, filter, stopRequested, running, scanner>>

\* The polling loop ends at the first load that finds the flag cleared.
SeeStopped ==
    /\ main = "poll" /\ ~running
    /\ main' = "join"
    /\ UNCHANGED <<input, client, filter, stopRequested, running, scanner>>

\* stop(): request_stop, then join.  `create` never calls it.
RequestStop ==
    /\ CanStop
    /\ main = "poll"
    /\ stopRequested' = TRUE
    /\ main' = "joinStopped"
    /\ UNCHANGED <<input, client, filter, running, scanner>>

\* A thread can be joined once it has returned and all it wrote is visible.
Joinable == scan = "exited" /\ unseen = {}

Join ==
    /\ Joinable
    /\ \/ main = "join" /\ main' = "take"
       \/ main = "joinStopped" /\ main' = "stopped"
    /\ UNCHANGED <<input, client, filter, stopRequested, running, scanner>>

\* auto files = matcher.results(): the list is moved out of the matcher.
TakeResults ==
    /\ main = "take"
    /\ files' = results
    /\ results' = <<>>
    /\ main' = "sort"
    /\ UNCHANGED <<input, storage, filter, stopRequested, running,
                   scan, frontier, found, unseen>>

\* std::sort by path string: some permutation of the list that is in order.
Ordered(s) == \A i, j \in DOMAIN s : i < j => Rank[s[i]] <= Rank[s[j]]

SortFiles ==
    /\ main = "sort"
    /\ \E pi \in Bijection(DOMAIN files, DOMAIN files) :
          /\ Ordered([i \in DOMAIN files |-> files[pi[i]]])
          /\ files' = [i \in DOMAIN files |-> files[pi[i]]]
    /\ main' = "add"
    /\ UNCHANGED <<input, storage, filter, stopRequested, running, scanner>>

AddFiles ==
    /\ main = "add"
    /\ storage' = [mode |-> "multi", files |-> files]
    /\ main' = "done"
    /\ UNCHANGED <<input, files, filter, stopRequested, running, scanner>>

\* What the main thread does by itself; calling stop() is a choice.
MainRuns == \/ AddSingleFile \/ MakeMatcher \/ Compile \/ Start \/ SeeStopped
            \/ Join \/ TakeResults \/ SortFiles \/ AddFiles
            \/ \E p \in Patterns : IncludePattern(p) \/ ExcludePattern(p)

Main == MainRuns \/ RequestStop

-----------------------------------------------------------------------------
(* The scanning thread: run(). *)

\* An exception that leaves run() calls std::terminate: the process is gone.
Throw ==
    /\ main' = "terminated"
    /\ scan' = "terminated"
    /\ UNCHANGED <<input, client, filter, stopRequested, results,
                   frontier, found, unseen>>

OpenRoot ==
    /\ scan = "begin"
    /\ running' = TRUE
    /\ IF Root \in locked
       THEN Throw
       ELSE /\ scan' = "scan"
            /\ frontier' = Children(Root)
            /\ UNCHANGED <<input, main, client, filter, stopRequested,
                           results, found, unseen>>

\* The loop reaches e: the deepest open iterator is exhausted first.
At(e) ==
    /\ scan = "scan" /\ ~stopRequested
    /\ e \in frontier
    /\ \A x \in frontier : Len(x) <= Len(e)

\* DEVIATION: the exclusion is looked up after the directory was opened.
VisitDirectoryOpenFirst(e) ==
    /\ At(e) /\ e \in Dirs
    /\ IF e \in locked
       THEN Throw
       ELSE /\ frontier' = (frontier \ {e}) \union
                           (IF e \in DirExcludes THEN {} ELSE Children(e))
            /\ UNCHANGED <<input, main, client, filter, stopRequested,
                           results, scan, found, unseen>>
    /\ UNCHANGED running

\* Incrementing the iterator opens the directory, unless it is excluded.
VisitDirectory(e) ==
    /\ At(e) /\ e \in Dirs
    /\ IF e \in locked /\ e \notin DirExcludes
       THEN Throw
       ELSE /\ frontier' = (frontier \ {e}) \union
                           (IF e \in DirExcludes THEN {} ELSE Children(e))
            /\ UNCHANGED <<input, main, client, filter, stopRequested,
                           results, scan, found, unseen>>
    /\ UNCHANGED running

\* DEVIATION: the hidden-file check applies to included files too.
KeepCheckHidden(f) ==
    /\ includeHidden \/ ~Hidden(f)
    /\ includes # {} => MatchesAny(includes, f)
    /\ ~MatchesAny(excludes, f)

\* The filter of run(), branch by branch.
Keep(f) ==
    \/ /\ includes = {}
       /\ ~(~includeHidden /\ Hidden(f))
       /\ excludes = {} \/ ~MatchesAny(excludes, f)
    \/ /\ includes # {}
       /\ MatchesAny(includes, f)
       /\ excludes = {} \/ ~MatchesAny(excludes, f)

\* DEVIATION: everything that is no directory is taken for a regular file.
VisitFileAnyKind(e) ==
    /\ At(e) /\ e \notin Dirs
    /\ frontier' = frontier \ {e}
    /\ found' = IF Keep(e) THEN Append(found, e) ELSE found
    /\ UNCHANGED <<input, main, client, filter, stopRequested, running,
                   results, scan, unseen>>

VisitFile(e) ==
    /\ At(e) /\ e \in Files
    /\ frontier' = frontier \ {e}
    /\ found' = IF Keep(e) THEN Append(found, e) ELSE found
    /\ UNCHANGED <<input, main, client, filter, stopRequested, running,
                   results, scan, unseen>>

\* Sockets, pipes, dangling links and links to directories.
VisitOther(e) ==
    /\ At(e) /\ e \notin Dirs \union Files
    /\ frontier' = frontier \ {e}
    /\ UNCHANGED <<input, main, client, filter, stopRequested, running,
                   results, scan, found, unseen>>

\* DEVIATION: a stopped scan publishes what it has found so far.
ObeyStopPublish ==
    /\ scan = "scan" /\ stopRequested /\ frontier # {}
    /\ scan' = "exited"
    /\ unseen' = {"results", "running"}
    /\ UNCHANGED <<input, main, client, filter, stopRequested, running,
                   results, frontier, found>>

\* The stop token is read before every entry: the list is thrown away.
ObeyStop ==
    /\ scan = "scan" /\ stopRequested /\ frontier # {}
    /\ running' = FALSE
    /\ scan' = "exited"
    /\ UNCHANGED <<input, main, client, filter, stopRequested, results,
                   frontier, found, unseen>>

\* DEVIATION: the flag is not cleared on the way out.
LeaveLoopStillRunning ==
    /\ scan = "scan" /\ frontier = {}
    /\ scan' = "exited"
    /\ unseen' = {"results"}
    /\ UNCHANGED <<input, main, client, filter, stopRequested, running,
                   results, frontier, found>>

LeaveLoop ==
    /\ scan = "scan" /\ frontier = {}
    /\ scan' = "exited"
    /\ unseen' = {"results", "running"}
    /\ UNCHANGED <<input, main, client, filter, stopRequested, running,
                   results, frontier, found>>

Publish ==
    /\ "results" \in unseen
    /\ results' = found
    /\ unseen' = unseen \ {"results"}
    /\ UNCHANGED <<input, main, client, filter, stopRequested, running,
                   scan, frontier, found>>

ClearRunning ==
    /\ "running" \in unseen
    /\ running' = FALSE
    /\ unseen' = unseen \ {"running"}
    /\ UNCHANGED <<input, main, client, filter, stopRequested, results,
                   scan, frontier, found>>

Scanner == \/ OpenRoot \/ ObeyStop \/ LeaveLoop \/ Publish \/ ClearRunning
           \/ \E e \in frontier :
                 VisitDirectory(e) \/ VisitFile(e) \/ VisitOther(e)

-----------------------------------------------------------------------------
Ended == main \in {"done", "rejected", "stopped", "terminated"}

Terminated == Ended /\ UNCHANGED vars

Next == Main \/ Scanner \/ Terminated

Spec == Init /\ [][Next]_vars

\* Both threads are scheduled: each takes a step it can take forever.  Nothing
\* makes the client call stop().
FairSpec == Spec /\ WF_vars(MainRuns) /\ WF_vars(Scanner)

-----------------------------------------------------------------------------
(* Properties. *)

\* The type invariant: what run() finds, publishes and hands over are lists of
\* regular files; no directory, link or device gets into one.
TypeOK ==
    /\ opts \in Options
    /\ locked \subseteq Dirs \union {Root}
    /\ main \in {"target", "configure", "start", "poll", "join", "joinStopped",
                 "take", "sort", "add"} \union
                {"done", "rejected", "stopped", "terminated"}
    /\ storage \in [mode : {"none", "single", "multi"},
                    files : Seq(Entries \union {Root})]
    /\ files \in Seq(Files) /\ results \in Seq(Files) /\ found \in Seq(Files)
    /\ includes \subseteq Patterns /\ excludes \subseteq Patterns
    /\ includeHidden \in BOOLEAN
    /\ stopRequested \in BOOLEAN /\ running \in BOOLEAN
    /\ scan \in {"none", "begin", "scan", "exited", "terminated"}
    /\ frontier \subseteq Entries
    /\ unseen \subseteq {"results", "running"}

\* s is the whole selection, in some order and without repetition.
Complete(s) == Range(s) = Selected(opts) /\ IsInjective(s)

\* Before the scan: the matcher holds a part of the command line's patterns.
ConfigureInv ==
    /\ includes \subseteq opts.include /\ excludes \subseteq opts.exclude
    /\ main = "target" => includes = {} /\ excludes = {}
    /\ main = "configure" => /\ opts.isDir
                             /\ (includes \union excludes) \cap BadPatterns = {}
    /\ main = "rejected" => opts.isDir /\ Rejected(opts)
    /\ main \in {"target", "configure", "start", "rejected"} => scan = "none"
    /\ scan = "none" => main \in {"target", "configure", "start", "rejected", "done"}
    /\ (main = "start" \/ scan # "none") =>
          /\ opts.isDir /\ ~Rejected(opts)
          /\ includes = opts.include /\ excludes = opts.exclude
          /\ includeHidden = opts.hidden

\* During the scan: what is found is what is selected and not below an entry the
\* iterators still hold; a directory that cannot be read is still to come.
ScanInv ==
    /\ frontier \subseteq Reachable
    /\ Antichain(frontier)
    /\ IsInjective(found)
    /\ scan \in {"none", "begin"} => found = <<>> /\ frontier = {} /\ results = <<>>
    /\ scan = "scan" =>
          /\ Range(found) = {f \in Selected(opts) : ~Below(frontier, f)}
          /\ \A d \in locked \cap Opened : d # Root /\ Below(frontier, d)
    /\ scan = "terminated" <=> main = "terminated"
    /\ scan = "terminated" => locked \cap Opened # {}

\* After the scan: a list is published whole or not at all, and main's copy of
\* it is taken from a thread that has been joined.
HandOverInv ==
    /\ unseen # {} => scan = "exited" /\ Complete(found)
    /\ scan = "exited" /\ ~stopRequested =>
          Complete(found) /\ locked \cap Opened = {}
    /\ results # <<>> => scan = "exited" /\ Complete(results)
    /\ main \in {"poll", "join", "take"} /\ scan = "exited" /\ "results" \notin unseen
          => results = found
    /\ stopRequested => CanStop /\ main \in {"joinStopped", "stopped", "terminated"}
    /\ main \in {"joinStopped", "stopped"} => stopRequested
    /\ main \in {"take", "stopped"} => Joinable
    /\ main \in {"sort", "add"} => Joinable /\ Complete(files)
    /\ main = "add" => Increasing(files)
    /\ main # "done" => storage = NoStorage
    /\ main = "done" /\ ~opts.isDir =>
          storage = [mode |-> "single", files |-> <<Root>>]
    /\ main = "done" /\ opts.isDir =>
          /\ Joinable
          /\ storage.mode = "multi" /\ IsSelection(storage.files, opts)

\* The inductive invariant.
IInv == TypeOK /\ ConfigureInv /\ ScanInv /\ HandOverInv

\* A metafile made from a directory holds exactly the selected files, each
\* once, in path order: hidden files only when asked for or included by a
\* pattern, nothing below an excluded directory (create.rst, file_matcher).
StorageIsSelection ==
    main = "done" /\ opts.isDir =>
        storage.mode = "multi" /\ IsSelection(storage.files, opts)

\* Whenever anyone could look at results_, it is empty or the complete list,
\* also when the scan is stopped half way.
AllOrNothing == results = <<>> \/ Complete(results)

\* An excluded directory is not even opened: one that cannot be read is no
\* reason for the scan to fail.
ExcludedNotOpened == main = "terminated" => locked \cap Opened # {}

\* The polling main thread and the scanner never wait for each other for ever.
SelectionEnds == <>Ended

\* The two threads together select the files in one step.
Selection == INSTANCE SelectFiles WITH
    phase <- IF Ended THEN main ELSE "pending"

SelectionSpec == Selection!Spec
=============================================================================
