# A specification of torrenttools

TLA+ modules, TLC configurations and TLAPS proofs for torrenttools, the command-line
tool that creates, edits, verifies and shows BitTorrent metafiles.  Paths are relative
to the root of the repository; `file.cpp` without a directory is in `src/`, `file.hpp`
in `include/`.  `PROJECT.json` lists the components, the runs, the mutants that show
that each property can fail, the source lines of every definition, the hazards and
the theorems.

    tlc -workers 2 -config FileMatcher.cfg MCFileMatcher      # one run
    tlapm FileMatcherProofs.tla                               # one proof module

## 1. The system

torrenttools is one program with subcommands (`create`, `edit`, `verify`, `show`,
`info`, `magnet`, `pad`).  A command parses its options (CLI11), loads the
configuration and the tracker database, merges a profile into the options, and runs a
pipeline over a `dottorrent::metafile`.  Concurrency is in three places: a thread scans
the directory of `create`, threads of the dottorrent library hash the pieces while the
main thread draws the progress, and several commands of one user share the files of
the user's data directory.  Everything else is sequential, and what is hard about it is
precedence: command line, profile, tracker database and defaults all write the same
fields.

| component | state | operations | interacts with |
|---|---|---|---|
| file selection (`file_matcher.hpp`, `create.cpp:303-380`) | pattern lists, `results_`, `is_running_`, counters for the progress line, a `jthread` | configure, `start`, `is_running`, `wait`, `stop`, `results`, `run` | the main thread polls two atomics and joins; the file system |
| hash progress (`progress.cpp`, `indicator.cpp`) | index of the file shown, the bars | four polling loops, `set_current_file`, `set_per_file_value`, `set_total_value` | reads the counters of a hasher that runs on |
| data file loading (`config_parser.cpp:177-238`, `tracker_database.cpp:194-260`, `common.cpp:13-43`, `app_data.cpp`) | two cached pointers per process; the files of the user, of the system and of the build | search, copy on first run, load by option | other commands, the user and the package manager change the files |
| metafile edits (`edit.cpp`, `common.cpp:46-163`) | the metafile: trackers in tiers, flags, lists | replace, append and prepend of every list; tracker names looked up in the database | configuration, tracker database, profile |
| create pipeline (`create.cpp:395-544`) | options, metafile | the order of the setters, the destination path | all of the above |
| profiles (`profile.cpp`, `create.cpp:549-648`, `edit.cpp:206-282`) | options with defaults | read a profile, merge it into the options not given | configuration |
| argument parsing (`argument_parsers.cpp`) | none | announce list, sizes, booleans, protocols | CLI11 |
| tree view (`tree_view.hpp`, `tree_view.cpp`) | sorted files, a map from directories to ranges of them; a stack and a prefix | index the files, walk | `info`, `verify` |
| pad (`pad.cpp`), verify (`verify.cpp`) | the files and directories below the target | make padding files; hash and print the tree with percentages | the file system between commands; tree view; hash progress |
| show (`show.cpp`), `info --raw` (`info.cpp`), binary escaping (`escape_binary_fields.cpp`) | options; a copy of the metafile, the stack of a walk through it | dispatch, print, escape | dottorrent's bencoded values |
| magnet, info's general lines, main (`magnet.cpp`, `info.cpp`, `main.cpp`, `main_app.cpp`) | none | short pipelines | dottorrent |

What is hard in each, and what makes it correct:

- *File selection.*  `run` fills `results_` and clears `is_running_` with relaxed
  stores while the main thread polls.  Correct: the list handed over is whole, holds
  exactly the files the options select, in path order whatever order the file system
  lists them in; an unreadable directory ends the program only if the scan has to open
  it; the polling ends.
- *Hash progress.*  The hasher runs on between and inside the polls, may finish several
  files between two of them, and counts padding files only for v1.  Correct: each file
  is announced once, in order, not early; the last frame is complete; the loop ends.
- *Data file loading.*  A check-then-copy on files shared with other processes, behind
  a cached pointer that later calls rely on.  Correct: the user's file is never
  overwritten, the defaults get there whole, an option's location is the only one read,
  a command sees one version of its data.
- *Metafile edits.*  Tiers are addressed by index, groups come before announces,
  `set_trackers` has a path for one tracker and a path for many, and a failure must not
  reach the file.  Correct: no mode loses a tracker, a tracker gets into the tier the mode
  has for it, the flags are those the documentation promises, a repeated command changes
  nothing.
- *Create pipeline, profiles.*  Correct: explicit options win over the profile and the
  profile over the database; with `--stdout` nothing but the metafile is written there.
- *Tree view.*  A directory is a range of sorted indices, padding-only directories are
  skipped over by jumping to the end of their range, and the guides of a line are bytes
  that the walk appends on the way down and removes on the way up, in two lengths.
  Correct: what is printed is the sorted tree, each entry once, with the guides that
  belong to it.
- *Pad, verify.*  `pad` makes a file in three calls that may be refused one by one, and
  finds what an earlier run left.  Correct: padding is complete when it says so, and
  nothing else is touched.  The percentages of `verify` come in metafile order and the
  lines in path order.
- *Show, escaping.*  The names of the subcommands are written in two places; the values
  of a file tree are replaced while it is walked.  Correct: an answer is whole, about
  the field asked for, and escaped once.
- *Argument parsing.*  Functions of their input; correct when they agree with a plainer
  definition on every input of a bounded set.

## 2. Plan

In order of importance; all of it is done.

1. `FileTree`, `SelectFiles`, `FileMatcher`: the scan of a directory, its one-step
   abstraction, the refinement between them, proofs.
2. `HashProgress`: the progress loops against an independent hasher, proofs.
3. `ConfigStore`: several commands on one data directory, proofs.
4. `Announces`, `EditApp`: tracker tiers and the edit command, proofs.
5. `CreateApp` on top of `Announces`: the merge of a profile, the order of the setters,
   the destination, and what goes to the standard output, proofs.
6. `OptionValues`, `Profiles`: the transformers of option values and the two ways into
   them, the command line and the profiles of a configuration, proofs.
7. `Paths`, `Storage`, `TreeView` and its abstract specification `TreeListing`;
   `PadApp`; `VerifyApp`, which composes them into a session of a user; proofs for pad,
   for the table of verify and for the refinement of `TreeListing`.
8. `EscapeFields`, and `ShowApp` on top of it, proofs.

`SelectFiles` is the abstract specification of `FileMatcher`, `TreeListing` that of
`TreeView`.  `EditApp` and `CreateApp` have no module of that kind: their properties relate
what a command leaves to what it was given (`TrackersKept`,
`TrackersReplaced`, `TrackersOfGroupsOrList`).  Runs stay small: trees of at most eight entries,
lists of three files, two processes, two commands in a row.

## 3. The modules

### FileTree, SelectFiles, FileMatcher

`FileTree` holds the constants of a directory tree (`Entries`, `Dirs`, `Files`, names
that start with a dot), of the command line's patterns and of the file system's order,
and what it means for a file to be selected.  `SelectFiles` is the promise: the metafile
gets exactly the selected files in path order, or the program ends without a list.

`FileMatcher` is the code.  The variables `includes`, `excludes`, `includeHidden`,
`running`, `stopRequested`, `results` are the members of
`file_matcher`; `main` is the program counter of the thread that runs
`set_files_with_progress`, `scan` that of `run`; `frontier` is what the recursive
iterator still holds.  One action per step a thread takes between two accesses to shared
state.  The stores of `results_` and `is_running_` may be seen by the other thread in
either order (`unseen` holds what it has not seen): only the join orders them.  The
iterator may list the children of a directory in any order.  `RequestStop` is a call of
`stop()` by a client; torrenttools itself makes none, so `CanStop` may be either.
Pattern matching (RE2), the iterator and `std::sort` are external.  The two counters of
files seen and files kept (`file_matcher.hpp:190-203`) are left out: they are relaxed
atomics that only the number on the progress line is read from.

### HashProgress

`StartProgress` to `Wait` are the steps of the four loops (`run_with_progress` and
`run_with_simple_progress`, for hashers and for verifiers, which share their form);
`style` says which.  The variable `hasher` is the library's hasher: it advances by any
amount within a file, then to the next file, and its step may fall between the two loads
of one poll.  `bar` is what `progress_indicator` keeps; `printed` are the lines of the
simple loop.  The geometry of the bars, the time and speed and the closing statistics
are left out.

### ConfigStore

A command line is a record: subcommand, the stores whose place an option gives, and how
many announce options make `edit` load again.  `Plans` unfolds it into the loads the
command makes; `todo` is what is left of them and `pc` the step of the current load:
search the user directory, the system directory, the build directory, copy, read.  The
copy takes two steps, so that others may see a partial file and a command may die in
between (`Die`).  The contents of files are a few tags: `own` (written by the user),
`shipped` and `upgrade` (by the package), `partial` (a copy not finished).  A truncated
`trackers.json` never parses; a truncated `config.yml` may.  The user and the package
manager write at any time (`SaveUser`, `SaveCustom`, `Install`).

### Announces, EditApp

`Announces` has `set_trackers`, `set_tracker_group` and the look-ups of the tracker
database and configuration as operators on a metafile.  Trackers are a sequence of
tiers, a tier a set (its order has no meaning for a client, BEP 12).  A name and its URL
are different values; `UrlOf` is the substitution of the parameters, `NameOf` the match
of a URL against the patterns of the database, `Incomplete` the trackers whose
parameters the configuration does not have.

`EditApp` is `postprocess_edit_app`, `merge_edit_profile` and `run_edit_app`: one action
per update function, the loop over the groups unrolled, since `set_trackers` runs once
per appended group.  `has` is the set of options that are not empty.  `file` is the
metafile on disk, `m` the one in memory; a failure (an exception, a contract violation, a
null pointer) loses `m`.  `Begin` lets the next command work on what the last one wrote.
The destination is in `CreateApp`; writing the file is taken to succeed.

### CreateApp

One action per step of `run_create_app`, in its order: `Postprocess` (the merge of the
profile), `SetFiles`, `ChoosePieceSize`, `SetAnnounces` or else `StartGroups`,
`AddNextGroup`, `EndGroups`, then `SetFields`, `FindPlace` (`get_destination_path`),
`Inform`, `Hash`, `Write`.  `m` is the metafile, `place` is `destination_file`, `stdout`
the set of the kinds of output that reached the standard output, `disk` what was written
to a file.  `loaded` says which of the configuration and the database are there.
`SetFiles` is the one step of `SelectFiles`, with its failure; the hasher is external and
`HashProgress` its progress.  Checksums, threads, colours and the choice of the progress
style are left out: they touch nothing the model has.

### OptionValues, Profiles

`OptionValues` has one operator per transformer of `argument_parsers.cpp`.  A word is a
record of what its transformer looks at (a bracket, a unit, a digit, whether a path
exists); the result is a sequence of one value, empty if the transformer throws.  Sizes
are kept modulo `2^Bits`, and the conversion of a power of two too large for a
`std::size_t`, which is undefined, gives any size, so `parse_commandline_size` yields the
set of what may come out.  Dates are in minutes.

`Profiles` is the program's way through them: `ParseArgument` runs the callback of one
option of the command line, `LoadConfig`, `BeginProfile`, `ParseKey`, `InsertProfile` and
`EndProfiles` are the loop of `parse_profiles` and the bodies of `parse_create_profile`
and `parse_edit_profile`, one key per step.  `current` is `current_profile`, which lives
across the turns of the loop.  `With` is an insertion into a map.  CLI11 and yaml-cpp are
external: they deliver the words.  `InputAssumption` says what CLI11 guarantees: the words
of an option are collected and its callback runs once, so that no option is twice among
the arguments.

### Paths, Storage, TreeListing, TreeView

A path is the sequence of its elements and an element is a number, its place in the order
of the names, so that `PathLess` is the comparison of two paths.  `Storage` is the list
of files of a loaded metafile.  Padding files of one size share a path, `.pad/<size>`
(`docs/commands/info.rst:146`): they are entries of their own in the list, with numbers
next to each other, and one file on the disk, which `places` says.
`MetafileAssumption` says that only padding files of one size share a place, that no file
is a directory of another one, that no path is empty, and that a metafile in single-file
mode has one file, not a padding file, whose path is its name.  The constant `start` is the prefix a command
gives the printer: any sequence of bytes (`StartAssumption`).

`TreeListing` is the promise: which entries are shown, in which order, with which guides
and sizes.  It knows paths only.  `TreeView` is the code: `MakePrinter` is the
constructor of `filetree_index` with `create_sorted_file_indices`,
`create_directory_map` and `remove_padding_file_only_directories`; `WalkEntry` and
`LeaveDirectory` are the two kinds of rounds of `tree_printer::walk`, on the members
`stack`, `prefix_` and `output_`.  The guides are sequences of bytes of the lengths they
have in UTF-8 (a bar is three bytes), since `walk` removes them by `resize`.
`Listing == INSTANCE TreeListing WITH ...` maps the variables; `ListingSpec` is the
refinement.  A padding path that is in the list twice is printed twice.  The name of a
single file stands alone in `info`, two spaces in (`name_start`), and after the prefix in
`verify`.  Colours and the shortening of long names are left out, and
`is_padding_directory`, a function of dottorrent, is external.

### PadApp, VerifyApp

`PadApp` is `run_pad_app`.  `disk` has the size of the file at every place of the metafile
or `Absent`, `dirs` the directories that are there.  `PadDirectory`, `PadOpen` and
`PadResize` are the calls for one file, in their order: `create_directories`, the
`ofstream` (which fails silently: `fault` records that the file system refused a call)
and `resize_file`.  `PadRefused` is the exception of a call; `PadKilled` ends the
process anywhere; `RemovePadding` is the user, who does what `docs/commands/pad.rst`
describes.  In the first state a padding file is missing or has the size of another
version of the torrent.  Symbolic links (`weakly_canonical`), paths with `..` and a padding file at the place of a
data file are left out.

`VerifyApp` is a user who runs `pad`, `verify` and `info` on one download in any order.
`RunVerify` is `run_verify_app` up to the tree, with the choice of the protocol;
`FormatTable` is the loop that adds the percentages to the printed lines.  What
dottorrent's `storage_verifier` says of a file (`percentage`) is external: a file is
complete when its bytes are there and, where pieces span files, those of the padding
after it.  The loop that follows the hashing is `HashProgress`.

### EscapeFields, ShowApp

`EscapeFields` is `escape_binary_fields.cpp`.  `bv` is the copy of the metafile's value
that is escaped, `frames` the stack of iterators, and one action is one round of the
walk.  A frame is the path of its map and the keys the iterator has still to visit; the
least of them is the one it points at.  Bytes come in units of four, so that a SHA-1 hash is five units and a SHA-256
hash eight, and a wrong length shows.  `layered` is `has_v2_piece_layers`: without them
the file tree is not walked and its roots stay as they are, hybrid and v2 metafiles alike.
`bvalue::at`, which throws for a missing key, is external.

`ShowApp` is `run_show_app` and `create_raw_info`.  `Parse` reads the options of a
subcommand (`SubcommandOf` is what its callback stores), `dispatch_table` is the map of
`run_show_app`; a line of `output` is the field it is about and what it shows.  The
checksums are printed file by file, since `checksums().at()` may throw between two.

Definitions with the comment DEVIATION are not part of a specification: each is a
plausible mistake in the definition that follows it, and `PROJECT.json` names the
property that finds it.

## 4. The runs

| run | question | bounds |
|---|---|---|
| `file_matcher` | do the two threads hand over exactly the selection, whole and sorted, and end? | a tree of eight entries with a nested and an excluded directory, a hidden file and a special one; two overlapping patterns, an invalid and a too large one; every set of unreadable directories; stop at any time |
| `hash_progress` | is each file announced once, in order and not early, and do the loops end? | every list of up to three files of 0 to 2 bytes, padding anywhere; both protocols and styles |
| `config_store` | do concurrent commands keep the user's files and see one version of the data? | two commands of three kinds, two package versions, every initial state of the directories |
| `config_truncated` | is a truncated file ever used? (yes) | the same, plain commands |
| `edit_app` | does each list mode keep and replace trackers, and into which tier does it put them; which source wins for a field; is a repeated command harmless? | four metafiles, a database of a public, a private and an incomplete tracker, groups of one and two trackers and an undefined one, 282 commands, two in a row |
| `create_app` | which trackers and fields does the metafile get, when command line, profile and database have different ones; is its file name the documented one, and is it written once and hashed? | six announce lists, four choices of groups, four outputs, three sets of other options, two profiles, with and without configuration and database, a file or a directory |
| `profiles` | do announces and dates mean what the documentation says; which sizes are accepted, and as what; for which words does a profile mean what the command line means? | every sequence of up to three announce words over two URLs and all brackets; 31 numbers with every unit in 8 bits; every other option with words of each kind; configurations of up to two of twelve nodes |
| `create_stdout` | is the metafile alone on the standard output? (no) | as `create_app` |
| `edit_group_private` | does a private group keep its flag? (no) | as `edit_app`, one command |
| `verify_app` | does pad restore what was removed and nothing else, is the printed tree the abstract listing, has each file its own percentage, does every command end? | seven metafiles of the three protocols with up to five files and up to four levels: a single file, a directory last and between files, directories of padding only, two padding files that share a path; files complete or not, padding missing or of a wrong size; pad killed or refused at each call; any number of commands |
| `show_app` | is what is printed the answer the code has, to the last line, escaped once; for which reasons does a command fail; and does it end? | v1 with three pieces, v2 whose tree goes down, up and down, hybrid, with an empty file and without, with piece layers and without; checksums of all, some and no files; every subcommand with all its options |
| `raw_layers` | are the piece layers listed hash by hash? (no) | as `show_app` |

Properties, by module:

- `FileMatcher`: `StorageIsSelection` (the metafile is the selection), `AllOrNothing`
  (no reader ever sees part of the list), `ExcludedNotOpened`, `SelectionEnds` (liveness), `SelectionSpec` (the refinement of
  `SelectFiles`).
- `HashProgress`: `AnnouncedInOrder`, `AllAnnounced`, `NotAhead`, `BarInRange`,
  `FinalFrame`, `ProgressEnds` (liveness).
- `ConfigStore`: `OwnFileKept` and `OneSnapshot` (action properties), `DefaultsCopied`,
  `OptionHonoured`.
- `EditApp`: `TrackersKept`, `TrackersReplaced`, `FlagsAsDocumented`, `RetryHarmless`.
- `CreateApp`: `TrackersOfGroupsOrList`, `FieldsAsChosen` (which source wins, for each field),
  `DefaultNameAsDocumented`, `WrittenOnce`.
- `Profiles`: `AnnouncesAsWritten` (brackets against a count of what is open),
  `SizesAsWritten`, `DatesAsDocumented` (a clock in the zone shows the word's time),
  `ProfileAgainstCommandLine`, `ProfilesIndependent`.
- `TreeView`: `ListingSpec` (the refinement of `TreeListing`).
- `PadApp`: `PadRestores`, `DataUntouched` (an action property).
- `VerifyApp`: `TableTruthful` (two orders of the same files), `CommandEnds` (liveness).
- `EscapeFields`, `ShowApp`: `EscapedOnce`, `AnswersWhole`, `ShowEnds` (liveness).

Four of these properties state what the program does where that is not what its
documentation says: `TrackersKept`, `TrackersOfGroupsOrList`, `SizesAsWritten` and
`AnswersWhole`.  `FieldsAsChosen` and `ProfileAgainstCommandLine` state a rule of the
documentation with exactly the exceptions the program makes, and `FinalFrame` the case in
which the total bar does not get to its end.  Each names the disagreement in its comment,
and section 5 lists them: that such a run passes does not mean that the program does what
the documentation says there.

*Why the bounds are enough.*  The hazards of the scan need two directory levels, one
excluded subtree and a file that patterns and the hidden rule disagree on; the tree has
each once.  A progress loop goes wrong at the first, a middle or the last file, next to
a padding file, or when two files end between polls: three files hold all of these, and
two bytes are the least that make a file half done.  The races of the loaders are
between two processes, or a process and a later one.  A tier is put in a wrong place by
a list longer than, as long as, or shorter than the present one, and by the difference
between one tracker and two; the group loop needs two groups.  The steps of create are
sequential, so its bounds are over inputs: every pair of sources for a field.  A bracket
is taken at the wrong word in a list of three; 8 bits have exponents that do not fit and
products that wrap, and a least size that is both an exponent and a size.  The guides of the tree
go wrong where a directory is left: from the last entry or another one, by one level or
several, into a directory that goes on or not; the metafiles of `verify_app` have each.
`pad` works file by file, so two padding files suffice, one in a directory that exists
and one in a directory that does not, or both at one place.  Three hashes have a first, a middle and a last
slice.  `verify_app` and `show_app` have no cap.  The versions of the
package (`Versions`) and the number of commands (`MaxRuns`) are the only caps on
counters; they are named in the modules.

*Deadlock.*  `FileMatcher`, `HashProgress` and `ShowApp` stutter when they have ended and
`VerifyApp` never does, so deadlock is checked.  Commands of `ConfigStore`, `EditApp`, `CreateApp` and `Profiles` end for
good: there it is not.

*Fairness.*  `FileMatcher`: weak fairness of the main thread and of the scanning thread,
which the operating system schedules; none for `RequestStop`, since nothing makes a
client call `stop()`.  `HashProgress`: weak fairness of the main thread and of the
hasher, whose threads run until all bytes are done; the model's hasher does not fail
(see the hazards for what a failing one does).  `VerifyApp`: weak fairness of the steps
of a running command (`CommandStep`), not of the user, the killing of a command or the
removal of files; `ShowApp`: of `Run`.  Both are single threads that wait for nothing;
the verifier's own loop is fair in `HashProgress`.  The other modules have safety properties
only and no fairness.

## 5. Disagreements found

- `config_truncated`: `load_config` copies the package's file in place.  Another first
  run at the same time, or any run after one that died in the copy, takes the truncated
  `config.yml` for the user's own and works with it, against `docs/configuration.rst`.
- `edit_group_private`: `set_trackers` sets the private flag of a single tracker even to
  false.  Appending a private group and a public announce in one command clears the flag
  the group needs, against the comment at `common.cpp:72`.
- `create_stdout`: `set_files_with_progress` ends its progress with a newline on
  `std::cout` whatever stream it was given (`create.cpp:338`), and missing data is
  reported on the standard output (`common.cpp:33`), against `docs/commands/create.rst`:
  with `--stdout` the metafile is preceded by other bytes.
- `raw_layers`: `make_v2_piece_list` cuts the hexadecimal piece layers into pieces of 40
  digits, the length of a SHA-1 hash, although they are SHA-256 hashes of 64: the list
  that `docs/commands/info.rst` promises has wrong pieces and lacks the end.

Seen on the way, without a run that expects a violation; where a property is named, it
states what the program does, so that it would fail if the disagreement went away:

- Append (`edit.cpp:365`, `common.cpp:128`): tier `i` of the announces is merged into tier
  `i` of the metafile, from the first on; only a single announce that the database knows
  gets a tier at the end, where `docs/commands/edit.rst:71` puts all of them.
  `TrackersKept` says so.
- Announces with a group (`create.cpp:417`): `run_create_app` drops the announces without
  a word when the command line or a profile names a group, although
  `docs/commands/create.rst:106` has `--announce` add them.  `TrackersOfGroupsOrList`
  says so.
- Sizes (`argument_parsers.cpp:298-318`): the upper end of "a power of two in range 16K to
  64M" (`docs/commands/create.rst:47`, `160`) is not enforced, and large products wrap.
  `SizesAsWritten` says so.
- Created-by and creation date (`create.cpp:458`, `471`, `626-631`): a profile that turns
  one of them off goes before the command line's `--created-by` or `--creation-date`,
  which are ignored then.  `FieldsAsChosen` says so.
- Profiles (`docs/configuration.rst:168` refers to the command line for the meaning of
  every key): a profile for edit rejects the empty creation date that the command line
  takes as a removal (`docs/commands/edit.rst:50`), and seeds that the command line does
  not check; a flag in a word YAML does not know; `no` and `OFF` turn `private` on on the
  command line and off in a profile, and `-` is a file for the command line of edit.
  `ProfileAgainstCommandLine` lists the words (`OnlyOnCommandLine`, `ReadDifferently`) and
  says that there are no others.
- `show dht-nodes` prints the HTTP seeds: its callback stores `http-seeds`
  (`show.cpp:245`), against the help text (`show.cpp:34`) and `tests/test_show.cpp:520`.
  `AnswersWhole` says so.
- `info --raw` and `show query` fail on a metafile with piece layers and an empty file,
  which has no `pieces root` (`escape_binary_fields.cpp:50`), and show the raw roots of one
  without piece layers, against the help of `--show-binary` (`show.cpp:205`).
  `AnswersWhole` says so.  The other binary fields (`similar`, the checksums) are shown as
  they are, although the help says that binary data is filtered out (`info.cpp:79`).
- The total of the progress (`indicator.cpp:168-175`): `set_total_value` does nothing while
  a padding file is current, also for the last frame, so that a loop whose last poll is at
  one ends short of its total.  `FinalFrame` says so.
- Words: an offset of a date with a colon gives a wrong date; `--private OFF` turns the
  flag on, since the copy in lower case is not used; a tier in one quoted word,
  `"[url1 url2]"` as in `docs/commands/create.rst:116`, becomes one URL, and a tier that is
  never closed is accepted.
- Every profile for edit turns cross-seeding on (`edit.cpp:271`), since the default of the
  option record (`edit.hpp:40`) is true and no key sets it, against the default
  `tests/test_edit.cpp:297` expects.
- `docs/commands/verify.rst` names protocol 1 as the default of `verify`; the code takes
  the highest one the metafile has.
- Edit without a configuration: the groups of append and prepend are looked up through a
  null pointer (`edit.cpp:399`).

## 6. The proofs

Seven modules prove, for every value of the constants that satisfies the named
assumptions, that an inductive invariant of the specification holds, and from it the
theorems listed in `PROJECT.json`; `AnnouncesProofs` has the lemmas on tiers that edit and
create share.

- *FileMatcher.*  Assumptions: the tree is finite and closed under prefixes, files are
  not directories (`TreeAssumption`), patterns match sets of entries and the order of
  paths is total (`FilterAssumption`).  The property on the metafile says nothing of the
  scan, so `IInv` adds what the iterators keep: `ScanInv` says that what has been found
  is what is selected and not below an entry of the frontier, whose entries are never
  below one another; `HandOverInv` carries the completeness from the scanner's list
  through `results_`, which may be visible late, to the joined main thread.  The central
  lemmas are on the frontier: opening a directory (`Descend`), pruning one (`Skip`),
  and the end (an empty frontier leaves nothing out).  `ImplementsSelectFiles` proves the
  refinement: every step but the last is a stutter, the last is the abstract selection.
- *HashProgress* (in `VerifyAppProofs`).  Assumption: storages are sequences of files.  `LoopInv` says that a
  poll never finds the hasher behind the current file; `LinesInv` ties the number of
  lines to the number of files that are not padding, so that `Label`, which counts the
  padding files before a file, gives consecutive numbers (`PadsBeforeNext`,
  `LabelFacts`, `NextLine`); `BarInv` the frame to the current file,
  `StillBar` the bar that is not used, for `BarInRange`, and `TotalInv` the total to
  the bytes the last poll saw: while a padding file is current it is that of an earlier
  poll, at which the loop went on (`TargetFacts`, `TotalStep`), so that it falls short at
  the end (`FinalFrame`).
- *ConfigStore.*  Assumption: the command lines are well-formed; any set of processes.
  `SearchInv` records what a search has learnt and others cannot undo, since nobody
  removes a file; `OptionInv` says that among the loads still to come none reaches a
  default location of a store an option names before one by the option has set the
  pointer: this is why the calls without the path are harmless.

- *Announces.*  Lemmas on `AddTiers`, `set_trackers` and `set_tracker_group`: what they
  add, what they leave, that a list added to its own prefix leaves the prefix as it is,
  which tiers have one tracker, and when a private tracker sets the flag and the tag.
- *CreateApp.*  Assumption: `CreateAssumption`, with those of `Announces`.  `WriteInv`
  says that nothing is written before the last step and that what is hashed is what the
  options ask for; it gives `WrittenOnce`.  `TypeCorrect` rests on `NameInv`: the name
  that `get_destination_path` makes a file name of is there by then.  `AskedInv` gives the
  other three properties: it says what the metafile has before each step, in the loop
  over groups (`GroupsInv`: the trackers are those of the groups done, each in a tier of its
  own, the first group's in the first tiers), after it (`TagsInv`: the flag comes
  from a private tracker among those asked for, the tag from a single one) and when the options have been applied.
- *EditApp.*  Assumption: `EditAssumption`, with those of `Announces`.  For `TrackersKept` and
  `TrackersReplaced`, `GroupsInv` says how far the loop over groups has come: `k` groups are
  done and in append mode the old tiers are still the first ones, in prepend mode the metafile
  is untouched and the new trackers are collected in `announces`.  `TagsInv` says
  for the flag and the tag which source has the last word, before and after the options
  overwrite them.  `RetryHarmless` compares two runs of one command.  `FieldsInv` writes every
  field after each step as a function of the options and the file (`FinalText`,
  `FinalCross` and the like, which are idempotent when they replace), and `LayoutInv` says
  that the tiers groups make are their trackers one after the other, one tier each, so that
  the length of the groups before says where one starts.  So a saved metafile is a fixed
  point of its command (`FixedInv`), and in the repetition the trackers are rebuilt as they were (`AgainInv`).
- *Profiles.*  Assumptions: `InputAssumption`, and those of `OptionValues` on the least size
  and the width.  `ProfilesInv` says how far the two loops have come: the values of the
  command line are those of the arguments that `args` has left behind (`CliFrom`), the
  profiles those of the nodes that `nodes` has left behind (`Built`), `current` has the
  values of the keys of its own node that are done (`Begun`), and a program that ended
  there was given something that is bad (`Refused`).  `current` lives across the turns, so
  that it starts empty again is the point of `Begun`.  On this rest five properties:
  `ProfilesIndependent` follows at the end of the loop; `SizesAsWritten` and
  `DatesAsDocumented` are arithmetic on one accepted word; `AnnouncesAsWritten` and
  `ProfileAgainstCommandLine` are about loops that the model writes as folds.
  What a fold computes is proved by induction: `AllNumbers` derives induction on sets of
  numbers from well-foundedness, which the library states without an operator parameter,
  and `RunExists` and `FlatRunExists` unfold `FoldLeft` and `FlattenSeq` into the sequence
  of their intermediate states.  `AnnounceInv` is the invariant of the loop over announce
  words (brackets open, number and sizes of the tiers, every word so far once and in
  order), and `TierTurn` and `TierTaken` take the loop through the brackets that a tier of
  a profile stands for.
- *ShowApp.*  Assumption: `MetafileAssumption` (of `ShowApp`): the files are records, the
  paths of roots are not empty and none leads through another.  `WalkInv` says that the frames are one way down the tree
  of values, each frame the map of the key its parent points at, and that a key
  left in a frame has not been reached.  `Passed` says of a path whether the frames have left it
  behind: it changes in one action only, `EscapeFile`, and there for the path of that file
  alone.  So `RootsInv`: the roots that are replaced are those behind the frames, which
  are all of them when the stack is empty.  `EscapeInv` adds the fields of the maps outside the tree,
  and `ChecksumsInv` the files whose checksum has been printed.  From these `ShowInv`
  gives `EscapedOnce` and `AnswersWhole`.
- *PadApp* (in `VerifyAppProofs`).  Assumption: `MetafileAssumption`.  `PadRestores` is about the end of a
  command, so `PadWorks` adds the way there: the padding files before `pos` are
  complete, the directory is there when a file is opened, and the file is empty when it
  is resized, unless a call was refused.  With it `PadResizeMissing` cannot end a command
  to which nothing was refused.  `ParentIsAncestor` is the lemma on `create_directories`.
  `PadKeepsData` follows since `pos` is at a padding file whenever `disk` changes.  The
  other commands are one lemma (`StepKinds`): they leave the disk alone.
- *TreeView, VerifyApp* (in `VerifyAppProofs`).  Assumptions: `MetafileAssumption` and
  `StartAssumption`.  The refinement of `TreeListing` and `TableTruthful` rest on
  `WalkInv`, and that on what the index is.  The order of paths is total
  (`LessTransitive`, `LessTotal`), so that every rank below the number of files is that of
  one (`RankExists`) and the sorted indices are the files in order (`SortedIndices`).
  `MapInv` is the directory map after `i` files: a node for each directory above one of
  them, whose range is the places of the files below it (they are side by side, since a
  path between two paths below a directory is below it too) and whose size is the sum of
  theirs; `SumFunctionOnSet` folds in an order of its own, so `Sums` is shown not to depend
  on it.  `DirectoryFacts` is what the rest knows of the index.  `IsContent` says what
  `list_directory_content` must return, a name for each entry below a directory that is
  not hidden, in order; `ContentFacts` shows that its jumps from range to range do.  The
  invariant of the walk, `PrinterInv`, then has three parts: the frames are one way down
  the tree, each with the content of its directory and at the entry the next one is for,
  and the prefix is the guides of that way (`StackInv`), so that removing as many bytes as
  the guide of a directory has gives back the prefix of its parent (`PrefixOfRoot`,
  `WithoutEnd`, `LeaveStep`); what is not printed yet is what comes after the place of the
  top frame (`RemainingInv`), so that a new line is the next one of `TreeListing`; the
  lines are of different entries, each with the number of the file of its path
  (`OutputInv`).
  `TableTruthful` follows at the end of a walk, since every file that is not padding is
  printed (`FilesPrinted`) and no path is another's prefix.

The proofs also corrected the project.  The source tag of a new metafile was stated
without the case of a private tracker given by its URL, which the run did not have: it has
one now (`own`).  Two arms of a CASE in `EditApp` overlapped, so that its value was open.
`ProfileAgainstCommandLine` named words as the same that are not: a scalar where a list is
expected, a tier without URLs, a URL with a bracket.  The proof for `ShowApp` asked for
what a metafile is (`MetafileAssumption`): that no entry of a file tree is both a file and
a directory was only true of the metafiles of the run.  So was, for the tree view, that a
metafile in single-file mode has one file, which `walk` prints without looking at its
directory.

Only model-checked: the liveness properties `SelectionEnds`, `ProgressEnds`,
`CommandEnds` and `ShowEnds` (the prover has no rules for fairness).  The four runs that
expect a violation show what does not hold.

## 7. Not modelled

- Of create: checksums, threads, colours and the choice of the progress style.
- Of the tree view: colours (`ls_colors.cpp`), `format_file_stats`,
  `format_announce_tree`, and the shortening of names that do not fit the line, which
  computes with unsigned lengths (`tree_view.cpp:107`) but depends on the width of the
  terminal and of the characters.
- The general lines of `info`, the formatters and the help text: wording and layout.
- `magnet`, `main_app`: a few calls of dottorrent and CLI11 each.
- Hashing, bencoding, saving and the metafile itself: dottorrent, a library outside the
  repository.  Its operations are marked external where a module uses them.
- `natural_sort.hpp`: third-party code.
- Failing writes of the metafile and read errors of the hasher: their effect is decided
  in dottorrent.
