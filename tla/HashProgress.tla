---------------------------- MODULE HashProgress ----------------------------
(***************************************************************************)
(* src/progress.cpp and src/indicator.cpp: the main thread follows the     *)
(* hashing threads by polling bytes_done() and current_file_progress(),    *)
(* and shows the file it believes is being hashed, either as lines         *)
(* (run_with_simple_progress) or in a bar (run_with_progress).  Between    *)
(* two polls, and between the two loads of one poll, the hasher goes on.   *)
(*                                                                         *)
(* The hasher (and the verifier) are dottorrent's: its actions here are    *)
(* external and say what progress.cpp relies on: counters that only grow,  *)
(* an index that may reach file_count(), and padding files that count as   *)
(* bytes done only for v1.                                                 *)
(***************************************************************************)
EXTENDS Integers, Sequences, FiniteSets, Functions

CONSTANT Storages       \* the file lists considered

FileEntry == [size : Nat, pad : BOOLEAN]

ASSUME StorageAssumption == Storages \subseteq Seq(FileEntry)

VARIABLES storage,      \* m.storage(): the file list
          v1,           \* hasher.protocol() == protocol::v1
          style,        \* which of the two loops runs
          main,         \* the next step of the main thread
          current,      \* current_file_index
          seen,         \* what the last poll returned
          printed,      \* the lines of the simple loop: label and file
          bar,          \* the state of the progress_indicator
          hasher        \* the hasher's progress

progressVars == <<storage, v1, style, main, current, seen, printed, bar, hasher>>

file_count == Len(storage)

\* storage.at(i), with the source's indices, which start at 0.
at(i) == storage[i + 1]

Indices == 0 .. file_count - 1

PaddingFiles == {i \in Indices : at(i).pad}

SumOf(S) == SumFunctionOnSet([i \in Indices |-> at(i).size], S)

total_file_size == SumOf(Indices)

total_regular_file_size == SumOf(Indices \ PaddingFiles)

\* DEVIATION: padding files are waited for whatever the protocol.
TargetWithPads == total_file_size

\* The local variable total_file_size of the loops.
Target == IF v1 THEN total_file_size ELSE total_regular_file_size

\* The padding files before file i: std::count_if over [begin, begin + i).
PadsBefore(i) == {j \in PaddingFiles : j < i}

\* DEVIATION: the padding file itself is subtracted too.
LabelOffByOne(i) == i - Cardinality({j \in PaddingFiles : j <= i + 1})

\* The number shown for file i when padding files are not shown.
Label(i) == i - Cardinality(PadsBefore(i))

-----------------------------------------------------------------------------
(* The hasher (external). *)

Idle == [state |-> "idle", index |-> 0, offset |-> 0, bytes |-> 0]

Counted(i) == v1 \/ i \notin PaddingFiles

HashBlock ==
    /\ hasher.state = "hashing" /\ hasher.index < file_count
    /\ Counted(hasher.index) /\ hasher.offset < at(hasher.index).size
    /\ hasher' = [hasher EXCEPT !.offset = @ + 1, !.bytes = @ + 1]

HashNextFile ==
    /\ hasher.state = "hashing" /\ hasher.index < file_count
    /\ Counted(hasher.index) => hasher.offset = at(hasher.index).size
    /\ hasher' = [hasher EXCEPT !.index = @ + 1, !.offset = 0]

HashEnd ==
    /\ hasher.state = "hashing" /\ hasher.index = file_count
    /\ hasher' = [hasher EXCEPT !.state = "finished"]

Hasher ==
    /\ HashBlock \/ HashNextFile \/ HashEnd
    /\ UNCHANGED <<storage, v1, style, main, current, seen, printed, bar>>

-----------------------------------------------------------------------------
(* The progress_indicator: pad is current_file_is_padding_; value and range *)
(* are those of the current file, total the value of the whole bar.         *)

NoBar == [running |-> FALSE, pad |-> FALSE, label |-> 0, range |-> 0,
          value |-> 0, total |-> 0]

set_current_file(b, i) ==
    IF at(i).pad
    THEN [b EXCEPT !.pad = TRUE]
    ELSE [b EXCEPT !.pad = FALSE, !.label = Label(i), !.range = at(i).size,
                   !.value = 0]

\* DEVIATION: the value is set although a padding file is current.
set_per_file_value_always(b, v) == [b EXCEPT !.value = v]

set_per_file_value(b, v) == IF b.pad THEN b ELSE [b EXCEPT !.value = v]

set_total_value(b, v) == IF b.pad THEN b ELSE [b EXCEPT !.total = v]

-----------------------------------------------------------------------------
(* The simple loop's lines. *)

\* print_simple_indicator: nothing for a padding file, unless it is v1.
LineFor(i) ==
    IF v1 THEN <<[label |-> i + 1, file |-> i]>>
    ELSE IF at(i).pad THEN <<>>
    ELSE <<[label |-> Label(i) + 1, file |-> i]>>

-----------------------------------------------------------------------------
(* The main thread. *)

ProgressInit ==
    /\ storage \in Storages
    /\ v1 \in BOOLEAN
    /\ style \in {"simple", "bar"}
    /\ main = "start"
    /\ current = 0
    /\ seen = [index |-> 0, offset |-> 0, bytes |-> 0]
    /\ printed = <<>>
    /\ bar = NoBar
    /\ hasher = Idle

\* The indicator is made (for file 0) and started, then the hasher.
StartProgress ==
    /\ main = "start"
    /\ hasher' = [hasher EXCEPT !.state = "hashing"]
    /\ IF style = "bar"
       THEN /\ bar' = [IF file_count > 0 THEN set_current_file(NoBar, 0) ELSE NoBar
                       EXCEPT !.running = TRUE]
            /\ UNCHANGED printed
       ELSE /\ printed' = IF file_count > 0 THEN LineFor(0) ELSE <<>>
            /\ UNCHANGED bar
    /\ main' = IF file_count > 0 THEN "check" ELSE "wait"
    /\ UNCHANGED <<storage, v1, style, current, seen>>

\* The loop condition: bytes_done() < total_file_size.
Check ==
    /\ main = "check"
    /\ main' = IF hasher.bytes < Target THEN "poll" ELSE "finish"
    /\ UNCHANGED <<storage, v1, style, current, seen, printed, bar, hasher>>

PollFile ==
    /\ main = "poll"
    /\ seen' = [seen EXCEPT !.index = hasher.index, !.offset = hasher.offset]
    /\ main' = IF style = "bar" THEN "pollTotal" ELSE "chase"
    /\ UNCHANGED <<storage, v1, style, current, printed, bar, hasher>>

PollTotal ==
    /\ main = "pollTotal"
    /\ seen' = [seen EXCEPT !.bytes = hasher.bytes]
    /\ main' = "chase"
    /\ UNCHANGED <<storage, v1, style, current, printed, bar, hasher>>

\* Move to file current + 1: the previous file is complete.
MoveToNext ==
    /\ current' = current + 1
    /\ IF style = "bar"
       THEN /\ bar' = set_current_file(
                          set_per_file_value(bar, at(current).size), current + 1)
            /\ UNCHANGED printed
       ELSE printed' = printed \o LineFor(current + 1) /\ UNCHANGED bar

\* DEVIATION: the loop runs once too often.
BehindOnceMore == current <= seen.index /\ current + 1 < file_count

\* One iteration of the inner loop is due.
Behind == seen.index # current /\ seen.index < file_count /\ current < seen.index

Chase ==
    /\ main = "chase" /\ Behind
    /\ MoveToNext
    /\ UNCHANGED <<storage, v1, style, main, seen, hasher>>

\* The end of one iteration of the outer loop; the sleep is not modelled.
Show ==
    /\ main = "chase" /\ ~Behind
    /\ main' = "check"
    /\ bar' = IF style = "bar"
              THEN set_total_value(set_per_file_value(bar, seen.offset), seen.bytes)
              ELSE bar
    /\ UNCHANGED <<storage, v1, style, current, seen, printed, hasher>>

\* DEVIATION: the last file's value is left as the last poll found it.
FinishBarStale ==
    /\ main = "finish" /\ style = "bar"
    /\ bar' = [set_total_value(bar, total_file_size) EXCEPT !.running = FALSE]
    /\ main' = "wait"
    /\ UNCHANGED <<storage, v1, style, current, seen, printed, hasher>>

FinishBar ==
    /\ main = "finish" /\ style = "bar"
    /\ bar' = [set_per_file_value(set_total_value(bar, total_file_size),
                                  at(current).size)
               EXCEPT !.running = FALSE]
    /\ main' = "wait"
    /\ UNCHANGED <<storage, v1, style, current, seen, printed, hasher>>

\* DEVIATION: the simple loop has no trailing loop, like the bar's.
FinishSimpleEarly ==
    /\ main = "finish" /\ style = "simple"
    /\ main' = "wait"
    /\ UNCHANGED <<storage, v1, style, current, seen, printed, bar, hasher>>

\* The simple loop prints the files it has not got to.
FinishSimple ==
    /\ main = "finish" /\ style = "simple"
    /\ IF current < file_count - 1
       THEN MoveToNext /\ UNCHANGED main
       ELSE main' = "wait" /\ UNCHANGED <<current, printed, bar>>
    /\ UNCHANGED <<storage, v1, style, seen, hasher>>

\* hasher.wait()
Wait ==
    /\ main = "wait" /\ hasher.state = "finished"
    /\ main' = "done"
    /\ UNCHANGED <<storage, v1, style, current, seen, printed, bar, hasher>>

Main == \/ StartProgress \/ Check \/ PollFile \/ PollTotal \/ Chase \/ Show
        \/ FinishBar \/ FinishSimple \/ Wait

Done == main = "done" /\ UNCHANGED progressVars

ProgressNext == Main \/ Hasher \/ Done

ProgressSpec == ProgressInit /\ [][ProgressNext]_progressVars

\* The main thread is scheduled, and the hasher gets to its end.
ProgressFairSpec == ProgressSpec /\ WF_progressVars(Main) /\ WF_progressVars(Hasher)

-----------------------------------------------------------------------------
(* Properties. *)

HasherType == [state : {"idle", "hashing", "finished"},
               index : 0 .. file_count, offset : Nat, bytes : Nat]

BarType == [running : BOOLEAN, pad : BOOLEAN, label : Nat, range : Nat,
            value : Nat, total : Nat \union {total_file_size}]

\* The type invariant; every index the loops use is one storage.at() accepts.
TypeOK ==
    /\ storage \in Seq(FileEntry)
    /\ v1 \in BOOLEAN
    /\ style \in {"simple", "bar"}
    /\ main \in {"start", "check", "poll", "pollTotal", "chase", "finish", "wait",
                 "done"}
    /\ current \in Nat /\ (file_count > 0 => current \in Indices)
    /\ seen \in [index : 0 .. file_count, offset : Nat, bytes : Nat]
    /\ printed \in Seq([label : Nat, file : Indices])
    /\ bar \in BarType
    /\ hasher \in HasherType

\* The files a simple loop prints a line for, up to file i.
Displayed(i) == {j \in 0 .. i : v1 \/ j \notin PaddingFiles}

Begun == main # "start" /\ file_count > 0

\* The lines are numbered 1, 2, 3, ... without a gap, and name the files to be
\* displayed, each once and in order, up to the current one.
AnnouncedInOrder ==
    style = "simple" /\ Begun =>
        /\ \A k \in DOMAIN printed : printed[k].label = k
        /\ \A k, l \in DOMAIN printed : k < l => printed[k].file < printed[l].file
        /\ {printed[k].file : k \in DOMAIN printed} = Displayed(current)

\* When the loop is over every file has been announced, however few polls the
\* main thread made while the hasher ran.
AllAnnounced ==
    style = "simple" /\ main \in {"wait", "done"} /\ file_count > 0 =>
        {printed[k].file : k \in DOMAIN printed} = Displayed(file_count - 1)

\* Until all bytes are hashed no file is announced before the hasher is at it.
NotAhead == main \notin {"finish", "wait", "done"} => current <= hasher.index

\* The bar never shows a file as more than complete.
BarInRange == bar.value <= bar.range

\* The last frame shows the file it is about as complete, also when the last poll saw
\* it half done.  The total is the size of all files, padding included, when a file
\* that is not padding is current.  When a padding file is, the indicator ignores the
\* final set_total_value like every other: the total stays that of an earlier poll,
\* and falls short of the bytes that were waited for.
FinalFrame ==
    style = "bar" /\ main \in {"wait", "done"} /\ file_count > 0 =>
        /\ ~bar.running
        /\ bar.value = bar.range
        /\ IF bar.pad THEN bar.total = 0 \/ bar.total < Target
           ELSE bar.total = total_file_size

\* The number of lines printed once file i has been announced.
LinesUpTo(i) == IF v1 THEN i + 1 ELSE i + 1 - Cardinality(PadsBefore(i + 1))

\* The hasher is inside its current file, and so was the last poll.
HasherInv ==
    /\ hasher.index < file_count => hasher.offset <= at(hasher.index).size
    /\ hasher.index = file_count => hasher.offset = 0
    /\ seen.index <= hasher.index
    /\ seen.index < file_count => seen.offset <= at(seen.index).size
    /\ seen.index = file_count => seen.offset = 0

\* The loops follow the hasher: a poll never finds it behind.
LoopInv ==
    /\ file_count = 0 => main \in {"start", "wait", "done"}
    /\ main = "start" => current = 0 /\ printed = <<>> /\ bar = NoBar
    /\ NotAhead
    /\ main \in {"pollTotal", "chase"} => current <= seen.index
    /\ main = "pollTotal" => style = "bar"

\* The lines p are those of the files up to file i.
Lines(p, i) ==
    /\ p \in Seq([label : Nat, file : Indices])
    /\ \A k \in DOMAIN p : p[k].label = k
    /\ \A k, l \in DOMAIN p : k < l => p[k].file < p[l].file
    /\ {p[k].file : k \in DOMAIN p} = Displayed(i)
    /\ Len(p) = LinesUpTo(i)

LinesInv ==
    style = "simple" /\ Begun =>
        /\ Lines(printed, current)
        /\ main \in {"wait", "done"} => current = file_count - 1

BarInv ==
    style = "bar" /\ Begun =>
        /\ bar.pad = at(current).pad
        /\ ~bar.pad => bar.range = at(current).size
        /\ bar.pad => bar.value = bar.range
        /\ bar.value <= bar.range
        /\ main \in {"wait", "done"} =>
              /\ ~bar.running
              /\ bar.value = bar.range
              /\ ~bar.pad => bar.total = total_file_size

\* The inductive invariant.
IInv == TypeOK /\ HasherInv /\ LoopInv /\ LinesInv /\ BarInv

\* The loops end once the hasher has done its work: the number of bytes they
\* wait for is one the hasher gets to, padding files or not.
ProgressEnds == <>(main = "done")
=============================================================================
