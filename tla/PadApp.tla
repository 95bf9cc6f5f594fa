------------------------------- MODULE PadApp -------------------------------
(***************************************************************************)
(* src/pad.cpp: `torrenttools pad` makes the padding files of a metafile   *)
(* again below the target directory, one after the other: the directory    *)
(* when it is missing, an empty file, the size.  Every call on the file    *)
(* system is an action, so that the command can fail or be killed between  *)
(* two of them; what the disk holds then is what the next command finds.   *)
(***************************************************************************)
EXTENDS Storage, Integers

VARIABLES command,      \* the command that runs
          outcome,      \* how the last command ended
          disk,         \* the size of each file below the target, or Absent
          dirs,         \* the directories below the target
          pos,          \* the file run_pad_app is at
          step,         \* the next call for it
          fault         \* the file system refused a call of this command

padVars == <<command, outcome, disk, dirs, pos, step, fault>>

Absent == -1

Pads == {i \in DOMAIN files : files[i].pad}

Regular == DOMAIN files \ Pads

InRoot(p) == Len(p) = 1

ParentExists(i) == InRoot(files[i].path) \/ Front(files[i].path) \in dirs

\* The directories that hold the files of S.
DirsOf(S) == UNION {Ancestors(files[i].path) : i \in S}

\* A download: some files are incomplete, and the padding files are missing, or
\* are those of another version of the torrent, of another size.
PadInit ==
    /\ metafile \in Metafiles
    /\ disk \in {d \in [Places -> -1 .. 3] :
                    /\ \A i \in Regular : d[i] \in {files[i].size - 1, files[i].size}
                    /\ \A i \in Pads : d[place(i)] \in {Absent, files[i].size + 1}}
    /\ dirs = DirsOf({i \in DOMAIN files : disk[place(i)] # Absent})
    /\ command = "none" /\ outcome = "none"
    /\ pos = 1 /\ step = "next" /\ fault = FALSE

RunPad ==
    /\ command = "none"
    /\ command' = "pad" /\ outcome' = "none"
    /\ pos' = 1 /\ step' = "next" /\ fault' = FALSE
    /\ UNCHANGED <<metafile, disk, dirs>>

AtFile == command = "pad" /\ pos \in DOMAIN files

\* DEVIATION: a file that is there already is passed over.
PadSkipPresent ==
    /\ AtFile /\ step = "next" /\ (~files[pos].pad \/ disk[place(pos)] # Absent)
    /\ pos' = pos + 1
    /\ UNCHANGED <<metafile, command, outcome, disk, dirs, step, fault>>

PadSkip ==
    /\ AtFile /\ step = "next" /\ ~files[pos].pad
    /\ pos' = pos + 1
    /\ UNCHANGED <<metafile, command, outcome, disk, dirs, step, fault>>

\* DEVIATION: every file of the metafile is made, as big as it has to be.
PadEveryDirectory ==
    /\ AtFile /\ step = "next"
    /\ dirs' = IF ParentExists(pos) THEN dirs ELSE dirs \union Ancestors(files[pos].path)
    /\ step' = "open"
    /\ UNCHANGED <<metafile, command, outcome, disk, pos, fault>>

\* create_directories, when the parent is not there.
PadDirectory ==
    /\ AtFile /\ step = "next" /\ files[pos].pad
    /\ dirs' = IF ParentExists(pos) THEN dirs ELSE dirs \union Ancestors(files[pos].path)
    /\ step' = "open"
    /\ UNCHANGED <<metafile, command, outcome, disk, pos, fault>>

\* The ofstream makes the file, or cuts it to nothing; it says nothing when it fails.
PadOpen ==
    /\ AtFile /\ step = "open"
    /\ \/ /\ disk' = IF ParentExists(pos) THEN [disk EXCEPT ![place(pos)] = 0] ELSE disk
          /\ UNCHANGED fault
       \/ fault' = TRUE /\ UNCHANGED disk
    /\ step' = "resize"
    /\ UNCHANGED <<metafile, command, outcome, dirs, pos>>

PadEnds(how) ==
    /\ command' = "none" /\ outcome' = how
    /\ UNCHANGED <<metafile, disk, dirs, pos, step>>

\* resize_file, for a file that is there.
PadResize ==
    /\ AtFile /\ step = "resize" /\ disk[place(pos)] # Absent
    /\ disk' = [disk EXCEPT ![place(pos)] = files[pos].size]
    /\ pos' = pos + 1 /\ step' = "next"
    /\ UNCHANGED <<metafile, command, outcome, dirs, fault>>

\* resize_file throws for a file that is not there.
PadResizeMissing ==
    /\ AtFile /\ step = "resize" /\ disk[place(pos)] = Absent
    /\ PadEnds("error") /\ UNCHANGED fault

\* weakly_canonical, create_directories or resize_file throws.
PadRefused ==
    /\ AtFile /\ files[pos].pad /\ step \in {"next", "resize"}
    /\ PadEnds("error") /\ fault' = TRUE

PadDone ==
    /\ command = "pad" /\ pos > Len(files)
    /\ PadEnds("ok") /\ UNCHANGED fault

PadKilled ==
    /\ command = "pad"
    /\ PadEnds("killed") /\ UNCHANGED fault

\* The user removes the padding files, and the directories that hold nothing else.
RemovePadding ==
    /\ command = "none"
    /\ disk' = [i \in Places |-> IF i \in Pads THEN Absent ELSE disk[i]]
    /\ dirs' = DirsOf(Regular)
    /\ outcome' = "removed"
    /\ UNCHANGED <<metafile, command, pos, step, fault>>

PadStep ==
    \/ PadSkip \/ PadDirectory \/ PadOpen \/ PadResize \/ PadResizeMissing
    \/ PadRefused \/ PadDone

-----------------------------------------------------------------------------
PadTypeOK ==
    /\ metafile \in Metafiles
    /\ command \in {"none", "pad", "info", "verify"}
    /\ disk \in [Places -> Int]
    /\ pos \in Nat /\ pos >= 1
    /\ step \in {"next", "open", "resize"}
    /\ fault \in BOOLEAN

PadsComplete == \A i \in Pads : disk[place(i)] = files[i].size

\* A pad command that ends by itself, and to which the file system refused
\* nothing, has made every padding file with its size, whatever an earlier command
\* left that was killed or failed half-way.
PadRestores ==
    (command = "none" /\ outcome \in {"ok", "error"} /\ ~fault) => PadsComplete

\* pad never changes what was downloaded: run_pad_app truncates files, and must
\* only truncate padding files.
DataUntouched == [][\A i \in Regular : disk'[i] = disk[i]]_<<disk, metafile>>

\* A pad command is past the first pos - 1 files, whose padding is complete if the
\* file system has refused nothing, but for a file that it is making again for a
\* second entry; and it never is in the middle of another file than a padding file.
PadWorks ==
    command = "pad" =>
        /\ outcome = "none"
        /\ step # "next" => pos \in Pads
        /\ ~fault =>
              /\ \A i \in Pads :
                    i < pos /\ (step = "resize" => place(i) # place(pos))
                       => disk[place(i)] = files[i].size
              /\ step = "open" => ParentExists(pos)
              /\ step = "resize" => disk[place(pos)] = 0

\* The inductive invariant.
PadInv == PadTypeOK /\ PadWorks /\ PadRestores
=============================================================================
