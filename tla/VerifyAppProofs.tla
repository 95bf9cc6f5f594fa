-------------------------- MODULE VerifyAppProofs ---------------------------
(***************************************************************************)
(* The commands around a downloaded metafile, with proofs: what pad does   *)
(* to a download, for every metafile and whatever commands run before and  *)
(* between its runs; the file tree that info and verify print, which       *)
(* implements TreeListing for every metafile; and the progress loops of    *)
(* verify and create, for every file list, every protocol and every        *)
(* interleaving of the polls with the hasher.                              *)
(***************************************************************************)
EXTENDS VerifyApp, HashProgress, SequenceTheorems, FiniteSetTheorems, TLAPS

-----------------------------------------------------------------------------
(* pad *)

\* A step of another command, or none, as far as the disk is concerned.
OtherStep ==
    /\ UNCHANGED <<metafile, disk, dirs, pos, step, fault>>
    /\ \/ UNCHANGED <<command, outcome>>
       \/ command' \in {"info", "verify"} /\ outcome' = "none"
       \/ command' = "none" /\ outcome' = "shown"

PadActions ==
    \/ RunPad \/ PadSkip \/ PadDirectory \/ PadOpen \/ PadResize \/ PadResizeMissing
    \/ PadRefused \/ PadDone \/ PadKilled \/ RemovePadding

-----------------------------------------------------------------------------
\* What the assumption says of the loaded metafile.
LEMMA FilesFacts ==
    ASSUME metafile \in Metafiles
    PROVE  /\ Len(files) \in Nat
           /\ DOMAIN files = 1 .. Len(files)
           /\ \A i \in DOMAIN files :
                 /\ files[i].size \in Nat
                 /\ files[i].path \in Seq(Nat)
                 /\ files[i].path # <<>>
<1>1. files \in Seq(File) /\ \A i \in DOMAIN files : files[i].path # <<>>
  BY MetafileAssumption DEF files
<1> DEFINE fs == files
<1>2. fs \in Seq(File) /\ \A i \in DOMAIN fs : fs[i].path # <<>>
  BY <1>1
<1> HIDE DEF fs
<1>3. Len(fs) \in Nat /\ DOMAIN fs = 1 .. Len(fs) /\ \A i \in DOMAIN fs : fs[i] \in File
  BY <1>2
<1>4. \A i \in DOMAIN fs : fs[i].size \in Nat /\ fs[i].path \in Seq(Nat)
  BY <1>3 DEF File
<1> QED
  BY <1>2, <1>3, <1>4 DEF fs

\* What the assumption says of the files on the disk.
LEMMA PlaceFacts ==
    ASSUME metafile \in Metafiles
    PROVE  /\ Places \subseteq DOMAIN files /\ Regular \subseteq Places
           /\ \A i \in Regular : place(i) = i
           /\ \A i \in DOMAIN files : place(i) \in Places
           /\ \A i \in Pads : place(i) \in Pads /\ files[place(i)].size = files[i].size
<1> DEFINE fs == metafile.files
           ps == metafile.places
<1>1. /\ ps \in [DOMAIN fs -> DOMAIN fs]
      /\ \A i \in DOMAIN fs :
            ps[i] # i =>
               fs[i].pad /\ fs[ps[i]].pad /\ fs[ps[i]].size = fs[i].size
  BY MetafileAssumption
<1>2. files = fs /\ \A i : place(i) = ps[i]
  BY DEF files, place
<1> HIDE DEF fs, ps
<1>3. Places = {ps[i] : i \in DOMAIN fs}
  BY <1>1 DEF Places, Range, ps
<1>4. Pads = {i \in DOMAIN fs : fs[i].pad} /\ Regular = DOMAIN fs \ Pads
  BY <1>2 DEF Pads, Regular
<1>5. \A i \in Regular : ps[i] = i
  BY <1>1, <1>4
<1> QED
  BY <1>1, <1>2, <1>3, <1>4, <1>5

\* The directory that holds a file is among those create_directories makes.
LEMMA ParentIsAncestor ==
    ASSUME NEW p \in Seq(Nat), p # <<>>, Len(p) # 1
    PROVE  Front(p) \in Ancestors(p)
<1>1. Len(p) \in Nat /\ Len(p) # 0
  BY EmptySeq
<1>2. \A n \in Nat : n # 0 /\ n # 1 => n - 1 \in 1 .. n - 1
  OBVIOUS
<1>3. Front(p) = Prefix(p, Len(p) - 1)
  BY DEF Front, Prefix
<1> QED
  BY <1>1, <1>2, <1>3 DEF Ancestors

\* Every step of the specification is one of pad's, or leaves the disk alone.
LEMMA StepKinds ==
    ASSUME [Next]_vars
    PROVE  PadActions \/ OtherStep
<1>1. CASE StartPad
  BY <1>1 DEF StartPad, PadActions
<1>2. CASE PadStep \/ PadKilled \/ RemovePadding
  BY <1>2 DEF PadStep, PadActions
<1>3. CASE \E option \in Options : RunVerify(option)
  BY <1>3 DEF RunVerify, Start, DiskUnchanged, OtherStep
<1>4. CASE \E show_padding_files \in BOOLEAN : RunInfo(show_padding_files)
  BY <1>4 DEF RunInfo, Start, DiskUnchanged, OtherStep
<1>5. CASE WalkStep
  BY <1>5 DEF WalkStep, padVars, OtherStep
<1>6. CASE FormatTable
  BY <1>6 DEF FormatTable, DiskUnchanged, OtherStep
<1>7. CASE InfoDone
  BY <1>7 DEF InfoDone, DiskUnchanged, OtherStep
<1>8. CASE UNCHANGED vars
  BY <1>8 DEF vars, padVars, OtherStep
<1> QED
  BY <1>1, <1>2, <1>3, <1>4, <1>5, <1>6, <1>7, <1>8 DEF Next

\* The first state satisfies the invariant.
LEMMA InitInv == Init => PadInv
<1> SUFFICES ASSUME Init PROVE PadInv
  OBVIOUS
<1>1. metafile \in Metafiles /\ command = "none" /\ outcome = "none" /\ pos = 1
      /\ step = "next" /\ fault = FALSE /\ disk \in [Places -> -1 .. 3]
  BY DEF Init, PadInit
<1>2. disk \in [Places -> Int]
  BY <1>1
<1>3. PadTypeOK
  <2>1. pos \in Nat /\ pos >= 1
    BY <1>1
  <2>2. fault \in BOOLEAN /\ command \in {"none", "pad", "info", "verify"}
        /\ step \in {"next", "open", "resize"}
    BY <1>1
  <2> QED
    BY <1>1, <1>2, <2>1, <2>2 DEF PadTypeOK
<1>4. PadWorks
  BY <1>1 DEF PadWorks
<1>5. PadRestores
  BY <1>1 DEF PadRestores
<1> QED
  BY <1>3, <1>4, <1>5 DEF PadInv

\* The metafile stays what it is while the commands run.
LEMMA FilesKept ==
    ASSUME PadActions \/ OtherStep
    PROVE  /\ metafile' = metafile /\ files' = files /\ Pads' = Pads /\ Regular' = Regular
           /\ Places' = Places /\ \A i : place(i)' = place(i)
<1>1. metafile' = metafile
  <2>1. CASE PadResizeMissing \/ PadRefused \/ PadDone \/ PadKilled
    BY <2>1 DEF PadResizeMissing, PadRefused, PadDone, PadKilled, PadEnds
  <2>2. CASE RunPad \/ PadSkip \/ PadDirectory \/ PadOpen \/ PadResize
    BY <2>2 DEF RunPad, PadSkip, PadDirectory, PadOpen, PadResize
  <2>3. CASE RemovePadding \/ OtherStep
    BY <2>3 DEF RemovePadding, OtherStep
  <2> QED
    BY <2>1, <2>2, <2>3 DEF PadActions
<1> QED
  BY <1>1 DEF files, Pads, Regular, Places, place

\* Every step keeps the types.
LEMMA StepType ==
    ASSUME PadTypeOK, PadActions \/ OtherStep
    PROVE  PadTypeOK'
<1>0. metafile' = metafile /\ files' = files /\ Places' = Places /\ metafile \in Metafiles
  BY FilesKept DEF PadTypeOK
<1>1. disk' \in [Places -> Int]
  <2> disk \in [Places -> Int]
    BY DEF PadTypeOK
  <2>1. CASE PadOpen
    <3>1. disk' = [disk EXCEPT ![place(pos)] = 0] \/ disk' = disk
      BY <2>1 DEF PadOpen
    <3> QED
      BY <3>1
  <2>2. CASE PadResize
    <3>1. pos \in DOMAIN files /\ disk' = [disk EXCEPT ![place(pos)] = files[pos].size]
      BY <2>2 DEF PadResize, AtFile
    <3>2. files[pos].size \in Int
      BY <1>0, <3>1, FilesFacts
    <3> QED
      BY <3>1, <3>2
  <2>3. CASE RemovePadding
    <3>1. disk' = [i \in Places |-> IF i \in Pads THEN Absent ELSE disk[i]]
      BY <2>3 DEF RemovePadding
    <3>2. Absent \in Int
      BY DEF Absent
    <3> QED
      BY <3>1, <3>2
  <2>4. CASE disk' = disk
    BY <2>4
  <2> QED
    BY <2>1, <2>2, <2>3, <2>4 DEF PadActions, OtherStep, RunPad, PadSkip, PadDirectory,
       PadResizeMissing, PadRefused, PadDone, PadKilled, PadEnds
<1>2. pos' \in Nat /\ pos' >= 1
  <2>1. pos' \in {1, pos, pos + 1}
    BY DEF PadActions, OtherStep, RunPad, PadSkip, PadDirectory, PadOpen, PadResize,
       PadResizeMissing, PadRefused, PadDone, PadKilled, RemovePadding, PadEnds
  <2>2. pos \in Nat /\ pos >= 1
    BY DEF PadTypeOK
  <2> QED
    BY <2>1, <2>2
<1>3. command' \in {"none", "pad", "info", "verify"} /\ step' \in {"next", "open", "resize"}
  BY DEF PadTypeOK, PadActions, OtherStep, RunPad, PadSkip, PadDirectory, PadOpen,
     PadResize, PadResizeMissing, PadRefused, PadDone, PadKilled, RemovePadding, PadEnds
<1>4. fault' \in BOOLEAN
  <2>1. fault' = fault \/ fault' = TRUE \/ fault' = FALSE
    BY DEF PadActions, OtherStep, RunPad, PadSkip, PadDirectory, PadOpen,
       PadResize, PadResizeMissing, PadRefused, PadDone, PadKilled, RemovePadding, PadEnds
  <2> QED
    BY <2>1 DEF PadTypeOK
<1> QED
  BY <1>0, <1>1, <1>2, <1>3, <1>4 DEF PadTypeOK

-----------------------------------------------------------------------------
\* The directories that create_directories leaves hold the file it is called for.
LEMMA DirectoryMade ==
    ASSUME PadTypeOK, PadDirectory
    PROVE  ParentExists(pos)'
<1>1. metafile \in Metafiles /\ pos \in DOMAIN files /\ pos' = pos /\ files' = files
  BY DEF PadTypeOK, PadDirectory, AtFile, files
<1>2. dirs' = IF ParentExists(pos) THEN dirs ELSE dirs \union Ancestors(files[pos].path)
  BY DEF PadDirectory
<1>3. CASE ParentExists(pos)
  BY <1>1, <1>2, <1>3 DEF ParentExists
<1>4. CASE ~ParentExists(pos)
  <2>1. files[pos].path \in Seq(Nat) /\ files[pos].path # <<>>
    BY <1>1, FilesFacts
  <2>2. Len(files[pos].path) # 1
    BY <1>4 DEF ParentExists, InRoot
  <2>3. Front(files[pos].path) \in Ancestors(files[pos].path)
    BY <2>1, <2>2, ParentIsAncestor
  <2>4. Front(files[pos].path) \in dirs'
    BY <1>2, <1>4, <2>3
  <2> QED
    BY <1>1, <2>4 DEF ParentExists
<1> QED
  BY <1>3, <1>4

\* Every step keeps what a running pad command has done.
LEMMA StepWorks ==
    ASSUME PadTypeOK, PadWorks, PadActions \/ OtherStep
    PROVE  PadWorks'
<1>0. /\ metafile' = metafile /\ files' = files /\ Pads' = Pads /\ metafile \in Metafiles
      /\ \A i : place(i)' = place(i)
  BY FilesKept DEF PadTypeOK
<1>p. Pads \subseteq DOMAIN files /\ Pads \subseteq Nat
  <2>1. DOMAIN files = 1 .. Len(files) /\ Len(files) \in Nat
    BY <1>0, FilesFacts
  <2>2. 1 .. Len(files) \subseteq Nat
    BY <2>1
  <2> QED
    BY <2>1, <2>2 DEF Pads
<1>d. disk \in [Places -> Int] /\ pos \in Nat /\ pos >= 1
  BY DEF PadTypeOK
<1>f. /\ \A i \in DOMAIN files : place(i) \in Places
      /\ \A i \in Pads : files[place(i)].size = files[i].size
  BY <1>0, PlaceFacts
<1>1. CASE RunPad
  <2>1. command' = "pad" /\ outcome' = "none" /\ pos' = 1 /\ step' = "next"
    BY <1>1 DEF RunPad
  <2>2. \A i \in Pads : ~(i < 1)
    BY <1>p, <1>0, FilesFacts
  <2> QED
    BY <1>0, <2>1, <2>2 DEF PadWorks
<1>2. CASE PadSkip
  <2>1. command = "pad" /\ pos \in DOMAIN files /\ step = "next" /\ ~files[pos].pad
        /\ pos' = pos + 1 /\ command' = command /\ outcome' = outcome /\ disk' = disk
        /\ step' = step /\ fault' = fault
    BY <1>2 DEF PadSkip, AtFile
  <2>2. pos \notin Pads
    BY <2>1 DEF Pads
  <2>3. \A i \in Pads : i < pos + 1 => i < pos
    BY <1>d, <1>p, <2>2
  <2> QED
    BY <1>0, <2>1, <2>3 DEF PadWorks
<1>3. CASE PadDirectory
  <2>1. command = "pad" /\ pos \in DOMAIN files /\ step = "next" /\ files[pos].pad
        /\ pos' = pos /\ command' = command /\ outcome' = outcome /\ disk' = disk
        /\ step' = "open" /\ fault' = fault
    BY <1>3 DEF PadDirectory, AtFile
  <2>2. pos \in Pads
    BY <2>1 DEF Pads
  <2>3. ParentExists(pos)'
    BY <1>3, DirectoryMade
  <2> QED
    BY <1>0, <2>1, <2>2, <2>3 DEF PadWorks
<1>4. CASE PadOpen
  <2>1. command = "pad" /\ pos \in DOMAIN files /\ step = "open" /\ pos' = pos
        /\ command' = command /\ outcome' = outcome /\ step' = "resize"
    BY <1>4 DEF PadOpen, AtFile
  <2>2. outcome' = "none" /\ pos' \in Pads'
    BY <1>0, <2>1 DEF PadWorks
  <2>3. ASSUME ~fault'
        PROVE  /\ disk'[place(pos)] = 0
               /\ \A i \in Pads : i < pos /\ place(i) # place(pos)
                                     => disk'[place(i)] = files[i].size
    <3>1. ~fault /\ disk' = IF ParentExists(pos) THEN [disk EXCEPT ![place(pos)] = 0] ELSE disk
      BY <1>4, <2>3 DEF PadOpen
    <3>2. ParentExists(pos) /\ \A i \in Pads : i < pos => disk[place(i)] = files[i].size
      BY <2>1, <3>1 DEF PadWorks
    <3>3. disk' = [disk EXCEPT ![place(pos)] = 0]
      BY <3>1, <3>2
    <3> QED
      BY <1>d, <1>f, <1>p, <2>1, <3>2, <3>3
  <2> QED
    BY <1>0, <2>1, <2>2, <2>3 DEF PadWorks
<1>5. CASE PadResize
  <2>1. command = "pad" /\ pos \in DOMAIN files /\ pos' = pos + 1 /\ step' = "next"
        /\ command' = command /\ outcome' = outcome /\ fault' = fault
        /\ disk' = [disk EXCEPT ![place(pos)] = files[pos].size] /\ step = "resize"
    BY <1>5 DEF PadResize, AtFile
  <2>2. ASSUME ~fault
        PROVE  \A i \in Pads : i < pos + 1 => disk'[place(i)] = files[i].size
    <3>1. /\ pos \in Pads
          /\ \A i \in Pads : i < pos /\ place(i) # place(pos) => disk[place(i)] = files[i].size
      BY <2>1, <2>2 DEF PadWorks
    <3>2. \A i \in Pads : i < pos + 1 => place(i) = place(pos) \/ (i < pos /\ place(i) # place(pos))
      BY <1>d, <1>p
    <3>3. \A i \in Pads : place(i) \in DOMAIN disk
      BY <1>d, <1>f, <1>p
    <3>4. ASSUME NEW i \in Pads, place(i) = place(pos) PROVE files[i].size = files[pos].size
      BY <1>f, <3>1, <3>4
    <3> QED
      BY <2>1, <3>1, <3>2, <3>3, <3>4
  <2> QED
    BY <1>0, <2>1, <2>2 DEF PadWorks
<1>6. CASE PadResizeMissing \/ PadRefused \/ PadDone \/ PadKilled
  <2>1. command' = "none"
    BY <1>6 DEF PadResizeMissing, PadRefused, PadDone, PadKilled, PadEnds
  <2> QED
    BY <2>1 DEF PadWorks
<1>7. CASE RemovePadding
  <2>1. command' = "none"
    BY <1>7 DEF RemovePadding
  <2> QED
    BY <2>1 DEF PadWorks
<1>8. CASE OtherStep
  <2>1. CASE command' # "pad"
    BY <2>1 DEF PadWorks
  <2>2. CASE command' = "pad"
    <3>1. UNCHANGED <<metafile, disk, dirs, pos, step, fault, command, outcome>>
      BY <1>8, <2>2 DEF OtherStep
    <3>2. ParentExists(pos)' = ParentExists(pos)
      BY <1>0, <3>1 DEF ParentExists
    <3> QED
      BY <1>0, <3>1, <3>2 DEF PadWorks
  <2> QED
    BY <2>1, <2>2
<1> QED
  BY <1>1, <1>2, <1>3, <1>4, <1>5, <1>6, <1>7, <1>8 DEF PadActions

\* A command that is past the last file is not in the middle of one.
LEMMA StepInList ==
    ASSUME PadTypeOK, PadWorks, command = "pad", pos > Len(files)
    PROVE  step # "resize"
<1>1. metafile \in Metafiles /\ pos \in Nat
  BY DEF PadTypeOK
<1>2. Len(files) \in Nat /\ DOMAIN files = 1 .. Len(files)
  BY <1>1, FilesFacts
<1>3. pos \notin Pads
  BY <1>1, <1>2 DEF Pads
<1> QED
  BY <1>3 DEF PadWorks

\* A pad command that ends has kept its promise.
LEMMA StepRestores ==
    ASSUME PadInv, PadActions \/ OtherStep
    PROVE  PadRestores'
<1>0. PadTypeOK /\ PadWorks /\ PadRestores
  BY DEF PadInv
<1>1. /\ metafile' = metafile /\ files' = files /\ Pads' = Pads /\ metafile \in Metafiles
      /\ \A i : place(i)' = place(i)
  BY <1>0, FilesKept DEF PadTypeOK
<1>2. CASE PadDone
  <2>1. command = "pad" /\ pos > Len(files) /\ disk' = disk /\ fault' = fault
    BY <1>2 DEF PadDone, PadEnds
  <2>2. ASSUME ~fault
        PROVE  \A i \in Pads : disk[place(i)] = files[i].size
    <3>1. \A i \in Pads : i < pos => disk[place(i)] = files[i].size
      <4>1. step # "resize"
        BY <1>0, <1>1, <2>1, StepInList
      <4> QED
        BY <1>0, <2>1, <2>2, <4>1 DEF PadWorks
    <3>2. \A i \in Pads : i < pos
      <4>1. Len(files) \in Nat /\ DOMAIN files = 1 .. Len(files) /\ pos \in Nat
        BY <1>0, <1>1, FilesFacts DEF PadTypeOK
      <4>2. \A i \in 1 .. Len(files) : i < pos
        BY <2>1, <4>1
      <4> QED
        BY <4>1, <4>2 DEF Pads
    <3> QED
      BY <3>1, <3>2
  <2> QED
    BY <1>1, <2>1, <2>2 DEF PadRestores, PadsComplete
<1>3. CASE PadResizeMissing
  <2>1. command = "pad" /\ step = "resize" /\ disk[place(pos)] = Absent /\ fault' = fault
    BY <1>3 DEF PadResizeMissing, PadEnds, AtFile
  <2>2. Absent # 0
    BY DEF Absent
  <2>3. fault
    BY <1>0, <2>1, <2>2 DEF PadWorks
  <2> QED
    BY <2>1, <2>3 DEF PadRestores
<1>4. CASE PadRefused
  BY <1>4 DEF PadRefused, PadRestores
<1>5. CASE PadKilled \/ RemovePadding
  <2>1. outcome' = "killed" \/ outcome' = "removed"
    BY <1>5 DEF PadKilled, PadEnds, RemovePadding
  <2> QED
    BY <2>1 DEF PadRestores
<1>6. CASE RunPad \/ PadSkip \/ PadDirectory \/ PadOpen \/ PadResize
  <2>1. command' = "pad"
    BY <1>6 DEF RunPad, PadSkip, PadDirectory, PadOpen, PadResize, AtFile
  <2> QED
    BY <2>1 DEF PadRestores
<1>7. CASE OtherStep
  <2>1. CASE UNCHANGED <<command, outcome>>
    BY <1>0, <1>1, <1>7, <2>1 DEF OtherStep, PadRestores, PadsComplete
  <2>2. CASE ~UNCHANGED <<command, outcome>>
    <3>1. outcome' \in {"none", "shown"}
      BY <1>7, <2>2 DEF OtherStep
    <3> QED
      BY <3>1 DEF PadRestores
  <2> QED
    BY <2>1, <2>2
<1> QED
  BY <1>2, <1>3, <1>4, <1>5, <1>6, <1>7 DEF PadActions

-----------------------------------------------------------------------------
\* Whatever commands run and wherever they are killed, a running pad command has
\* made every padding file before the one run_pad_app is at.
THEOREM PadInvariant == Spec => []PadInv
<1>1. Init => PadInv
  BY InitInv
<1>2. PadInv /\ [Next]_vars => PadInv'
  <2> SUFFICES ASSUME PadInv, [Next]_vars PROVE PadInv'
    OBVIOUS
  <2>1. PadActions \/ OtherStep
    BY StepKinds
  <2>2. PadTypeOK'
    BY <2>1, StepType DEF PadInv
  <2>3. PadWorks'
    BY <2>1, StepWorks DEF PadInv
  <2>4. PadRestores'
    BY <2>1, StepRestores
  <2> QED
    BY <2>2, <2>3, <2>4 DEF PadInv
<1> QED
  BY <1>1, <1>2, PTL DEF Spec

\* A pad command that ends by itself, and to which the file system refused nothing,
\* has made every padding file with its size, after every history of commands.
THEOREM PaddingRestored == Spec => []PadRestores
<1>1. PadInv => PadRestores
  BY DEF PadInv
<1> QED
  BY <1>1, PadInvariant, PTL

\* No command changes the size of a file that is not padding: run_pad_app only
\* truncates and resizes the files it makes.
THEOREM PadKeepsData == Spec => DataUntouched
<1>1. PadInv /\ [Next]_vars => [\A i \in Regular : disk'[i] = disk[i]]_<<disk, metafile>>
  <2> SUFFICES ASSUME PadInv, [Next]_vars
               PROVE  \A i \in Regular : disk'[i] = disk[i]
    OBVIOUS
  <2>0. PadTypeOK /\ PadWorks
    BY DEF PadInv
  <2>1. PadActions \/ OtherStep
    BY StepKinds
  <2>2. /\ disk \in [Places -> Int] /\ Regular \subseteq Places /\ metafile \in Metafiles
        /\ \A i \in Pads : place(i) \in Pads
    BY <2>0, PlaceFacts DEF PadTypeOK
  <2>3. CASE PadOpen \/ PadResize
    <3>1. pos \in Pads
      BY <2>0, <2>3 DEF PadOpen, PadResize, AtFile, PadWorks
    <3>2. \A i \in Regular : i # place(pos)
      BY <2>2, <3>1 DEF Regular
    <3>3. disk' = disk \/ \E n : disk' = [disk EXCEPT ![place(pos)] = n]
      BY <2>3 DEF PadOpen, PadResize
    <3> QED
      BY <2>2, <3>2, <3>3
  <2>4. CASE RemovePadding
    <3>1. disk' = [i \in Places |-> IF i \in Pads THEN Absent ELSE disk[i]]
      BY <2>4 DEF RemovePadding
    <3> QED
      BY <2>2, <3>1 DEF Regular
  <2>5. CASE disk' = disk
    BY <2>5
  <2> QED
    BY <2>1, <2>3, <2>4, <2>5 DEF PadActions, OtherStep, RunPad, PadSkip, PadDirectory,
       PadResizeMissing, PadRefused, PadDone, PadKilled, PadEnds
<1> QED
  BY <1>1, PadInvariant, PTL DEF Spec, DataUntouched

-----------------------------------------------------------------------------
(* The paths and their order *)

\* The first difference of p and q is at i, where p has the smaller element.
Splits(p, q, i) ==
    /\ i \in DOMAIN p /\ i \in DOMAIN q /\ p[i] < q[i]
    /\ \A j \in 1 .. i - 1 : p[j] = q[j]

\* p comes before q and all that is below q.
Before(p, q) == \E i \in Nat : Splits(p, q, i)

\* The length and the names of a path.
LEMMA PathFacts ==
    ASSUME NEW p \in Seq(Nat)
    PROVE  /\ Len(p) \in Nat /\ DOMAIN p = 1 .. Len(p)
           /\ \A i \in 1 .. Len(p) : p[i] \in Nat
  OBVIOUS

\* Paths are the same when their elements are.
LEMMA SamePath ==
    ASSUME NEW p \in Seq(Nat), NEW q \in Seq(Nat), Len(p) = Len(q),
           \A i \in 1 .. Len(p) : p[i] = q[i]
    PROVE  p = q
  OBVIOUS

\* The beginnings of two paths are the same when their elements are.
LEMMA SamePrefix ==
    ASSUME NEW p \in Seq(Nat), NEW q \in Seq(Nat), NEW n \in Nat, n <= Len(p), n <= Len(q)
    PROVE  Prefix(p, n) = Prefix(q, n) <=> \A i \in 1 .. n : p[i] = q[i]
<1>1. \A i \in 1 .. n : Prefix(p, n)[i] = p[i] /\ Prefix(q, n)[i] = q[i]
  BY DEF Prefix
<1>2. Prefix(p, n) = [i \in 1 .. n |-> p[i]] /\ Prefix(q, n) = [i \in 1 .. n |-> q[i]]
  BY DEF Prefix
<1> QED
  BY <1>1, <1>2

\* IsPrefix and IsStrictPrefix, name by name.
LEMMA PrefixMeans ==
    ASSUME NEW p \in Seq(Nat), NEW q \in Seq(Nat)
    PROVE  /\ IsPrefix(p, q) <=> Len(p) <= Len(q) /\ \A i \in 1 .. Len(p) : p[i] = q[i]
           /\ IsStrictPrefix(p, q)
                <=> Len(p) < Len(q) /\ \A i \in 1 .. Len(p) : p[i] = q[i]
<1>1. Len(p) \in Nat /\ Len(q) \in Nat
  OBVIOUS
<1>2. IsPrefix(p, q) <=> Len(p) <= Len(q) /\ \A i \in 1 .. Len(p) : p[i] = q[i]
  <2>1. IsPrefix(p, q) <=> Len(p) <= Len(q) /\ Prefix(p, Len(p)) = Prefix(q, Len(p))
    BY <1>1 DEF IsPrefix, Prefix
  <2>2. Len(p) \in Nat
    OBVIOUS
  <2>3. Len(p) <= Len(q) =>
           (Prefix(p, Len(p)) = Prefix(q, Len(p)) <=> \A i \in 1 .. Len(p) : p[i] = q[i])
    BY <2>2, SamePrefix
  <2> QED
    BY <2>1, <2>3
<1>3. Len(p) = Len(q) /\ (\A i \in 1 .. Len(p) : p[i] = q[i]) => p = q
  BY SamePath
<1> QED
  BY <1>1, <1>2, <1>3 DEF IsStrictPrefix

\* fs::path's order: a directory before what is in it, the others by the first
\* difference.
LEMMA LessMeans ==
    ASSUME NEW p \in Seq(Nat), NEW q \in Seq(Nat)
    PROVE  PathLess(p, q) <=> IsStrictPrefix(p, q) \/ Before(p, q)
<1>1. Len(p) \in Nat /\ Len(q) \in Nat /\ DOMAIN p = 1 .. Len(p) /\ DOMAIN q = 1 .. Len(q)
  OBVIOUS
<1>2. ASSUME NEW i \in DOMAIN p \cap DOMAIN q
      PROVE  Prefix(p, i - 1) = Prefix(q, i - 1) <=> \A j \in 1 .. i - 1 : p[j] = q[j]
  <2>1. i - 1 \in Nat /\ i - 1 <= Len(p) /\ i - 1 <= Len(q)
    BY <1>1
  <2> QED
    BY <2>1, SamePrefix
<1>3. DOMAIN p \subseteq Nat
  BY <1>1
<1> QED
  BY <1>2, <1>3 DEF PathLess, Before, Splits

\* A set of numbers that is not empty has a least one.
LEMMA LeastNumber ==
    ASSUME NEW S \in SUBSET Nat, S # {}
    PROVE  \E x \in S : \A y \in S : x <= y
<1> DEFINE R == {p \in Nat \X Nat : p[1] < p[2]}
<1>1. IsWellFoundedOn(R, Nat)
  BY NatLessThanWellFounded DEF OpToRel
<1>2. PICK x \in S : \A y \in S : <<y, x>> \notin R
  <2> HIDE DEF R
  <2> QED
    BY <1>1, WFMin
<1>3. ASSUME NEW y \in S PROVE x <= y
  <2>1. <<y, x>> \in Nat \X Nat /\ ~(y < x)
    BY <1>2
  <2> QED
    BY <2>1
<1> QED
  BY <1>3

\* Two paths are the same, or one begins the other, or they have a first difference.
LEMMA FirstDifference ==
    ASSUME NEW p \in Seq(Nat), NEW q \in Seq(Nat)
    PROVE  \/ p = q \/ IsStrictPrefix(p, q) \/ IsStrictPrefix(q, p)
           \/ Before(p, q) \/ Before(q, p)
<1> DEFINE D == {i \in Nat : i \in 1 .. Len(p) /\ i \in 1 .. Len(q) /\ p[i] # q[i]}
<1>1. Len(p) \in Nat /\ Len(q) \in Nat /\ DOMAIN p = 1 .. Len(p) /\ DOMAIN q = 1 .. Len(q)
      /\ (\A i \in 1 .. Len(p) : p[i] \in Nat) /\ \A i \in 1 .. Len(q) : q[i] \in Nat
  OBVIOUS
<1>2. CASE D = {}
  <2>1. ASSUME NEW i \in 1 .. Len(p), i \in 1 .. Len(q) PROVE p[i] = q[i]
    <3>1. i \in Nat /\ i \notin D
      BY <1>1, <1>2
    <3> QED
      BY <2>1, <3>1
  <2>2. CASE Len(p) = Len(q)
    BY <2>1, <2>2, SamePath
  <2>3. CASE Len(p) < Len(q)
    <3>1. \A i \in 1 .. Len(p) : i \in 1 .. Len(q)
      BY <1>1, <2>3
    <3> QED
      BY <2>1, <2>3, <3>1, PrefixMeans
  <2>4. CASE Len(q) < Len(p)
    <3>1. \A i \in 1 .. Len(q) : i \in 1 .. Len(p)
      BY <1>1, <2>4
    <3> QED
      BY <2>1, <2>4, <3>1, PrefixMeans
  <2>5. \A m, n \in Nat : m = n \/ m < n \/ n < m
    OBVIOUS
  <2> QED
    BY ONLY <1>1, <2>2, <2>3, <2>4, <2>5
<1>3. CASE D # {}
  <2>1. PICK i \in D : \A j \in D : i <= j
    BY <1>3, LeastNumber
  <2>2. i \in Nat /\ i \in 1 .. Len(p) /\ i \in 1 .. Len(q) /\ p[i] # q[i]
    OBVIOUS
  <2>3. ASSUME NEW j \in 1 .. i - 1 PROVE p[j] = q[j]
    <3>1. j \in Nat /\ j \in 1 .. Len(p) /\ j \in 1 .. Len(q) /\ ~(i <= j)
      BY <1>1, <2>2
    <3>2. j \notin D
      BY <2>1, <3>1
    <3> QED
      BY <3>1, <3>2
  <2>4. p[i] < q[i] \/ q[i] < p[i]
    BY <1>1, <2>2
  <2> QED
    BY <1>1, <2>2, <2>3, <2>4 DEF Before, Splits
<1> QED
  BY <1>2, <1>3

\* No path comes before itself.
LEMMA LessIrreflexive ==
    ASSUME NEW p \in Seq(Nat)
    PROVE  ~PathLess(p, p)
<1>1. ~IsStrictPrefix(p, p)
  BY DEF IsStrictPrefix
<1>2. ASSUME NEW i \in Nat, Splits(p, p, i) PROVE FALSE
  <2>1. p[i] \in Nat /\ p[i] < p[i]
    BY <1>2, PathFacts DEF Splits
  <2> QED
    BY <2>1
<1> QED
  BY <1>1, <1>2, LessMeans DEF Before

\* What comes before a path comes before all that is below it, and so does all below
\* what comes before.
LEMMA BeforeBelow ==
    ASSUME NEW p \in Seq(Nat), NEW q \in Seq(Nat), NEW r \in Seq(Nat), NEW s \in Seq(Nat),
           Before(p, q), IsPrefix(p, r), IsPrefix(q, s)
    PROVE  Before(r, s)
<1>1. PICK i \in Nat : Splits(p, q, i)
  BY DEF Before
<1>2. /\ Len(p) \in Nat /\ Len(q) \in Nat /\ Len(r) \in Nat /\ Len(s) \in Nat
      /\ DOMAIN p = 1 .. Len(p) /\ DOMAIN q = 1 .. Len(q)
      /\ DOMAIN r = 1 .. Len(r) /\ DOMAIN s = 1 .. Len(s)
  OBVIOUS
<1>3. /\ Len(p) <= Len(r) /\ \A j \in 1 .. Len(p) : p[j] = r[j]
      /\ Len(q) <= Len(s) /\ \A j \in 1 .. Len(q) : q[j] = s[j]
  BY PrefixMeans
<1>4. i \in 1 .. Len(p) /\ i \in 1 .. Len(q) /\ p[i] < q[i]
      /\ \A j \in 1 .. i - 1 : p[j] = q[j]
  BY <1>1, <1>2 DEF Splits
<1>5. i \in 1 .. Len(r) /\ i \in 1 .. Len(s) /\ r[i] < s[i]
  BY <1>2, <1>3, <1>4
<1>6. ASSUME NEW j \in 1 .. i - 1 PROVE r[j] = s[j]
  <2>1. j \in 1 .. Len(p) /\ j \in 1 .. Len(q)
    BY <1>2, <1>4
  <2> QED
    BY <1>3, <1>4, <2>1
<1> QED
  BY <1>2, <1>5, <1>6 DEF Before, Splits

\* Neither of two paths with a first difference begins the other.
LEMMA BeforeNoPrefix ==
    ASSUME NEW p \in Seq(Nat), NEW q \in Seq(Nat), Before(p, q)
    PROVE  ~IsPrefix(p, q) /\ ~IsPrefix(q, p)
<1>1. PICK i \in Nat : Splits(p, q, i)
  BY DEF Before
<1>2. i \in 1 .. Len(p) /\ i \in 1 .. Len(q) /\ p[i] < q[i] /\ p[i] \in Nat
  BY <1>1, PathFacts DEF Splits
<1>3. p[i] # q[i]
  BY <1>2
<1> QED
  BY <1>2, <1>3, PrefixMeans

\* A path above one that is above a third is above the third.
LEMMA PrefixTransitive ==
    ASSUME NEW p \in Seq(Nat), NEW q \in Seq(Nat), NEW r \in Seq(Nat)
    PROVE  /\ IsPrefix(p, p)
           /\ IsPrefix(p, q) /\ IsPrefix(q, r) => IsPrefix(p, r)
           /\ IsPrefix(p, q) /\ IsStrictPrefix(q, r) => IsStrictPrefix(p, r)
           /\ IsStrictPrefix(p, q) /\ IsPrefix(q, r) => IsStrictPrefix(p, r)
           /\ IsStrictPrefix(p, q) <=> IsPrefix(p, q) /\ p # q
<1>1. Len(p) \in Nat /\ Len(q) \in Nat /\ Len(r) \in Nat
  OBVIOUS
<1>2. ASSUME Len(p) <= Len(q), \A i \in 1 .. Len(p) : p[i] = q[i],
             \A i \in 1 .. Len(q) : q[i] = r[i]
      PROVE  \A i \in 1 .. Len(p) : p[i] = r[i]
  <2>1. \A i \in 1 .. Len(p) : i \in 1 .. Len(q)
    BY <1>1, <1>2
  <2> QED
    BY <1>2, <2>1
<1>3. IsPrefix(p, p)
  BY <1>1, PrefixMeans
<1>4. Len(p) <= Len(q) /\ Len(q) <= Len(r) => Len(p) <= Len(r)
  BY <1>1
<1>5. Len(p) <= Len(q) /\ Len(q) < Len(r) => Len(p) < Len(r)
  BY <1>1
<1>6. Len(p) < Len(q) /\ Len(q) <= Len(r) => Len(p) < Len(r) /\ Len(p) <= Len(q)
  BY <1>1
<1>7. IsPrefix(p, q) /\ IsPrefix(q, r) => IsPrefix(p, r)
  BY <1>2, <1>4, PrefixMeans
<1>8. IsPrefix(p, q) /\ IsStrictPrefix(q, r) => IsStrictPrefix(p, r)
  BY <1>2, <1>5, PrefixMeans
<1>9. IsStrictPrefix(p, q) /\ IsPrefix(q, r) => IsStrictPrefix(p, r)
  BY <1>2, <1>6, PrefixMeans
<1> QED
  BY <1>3, <1>7, <1>8, <1>9 DEF IsStrictPrefix

\* The order of the paths is transitive.
LEMMA LessTransitive ==
    ASSUME NEW p \in Seq(Nat), NEW q \in Seq(Nat), NEW r \in Seq(Nat),
           PathLess(p, q), PathLess(q, r)
    PROVE  PathLess(p, r)
<1>1. /\ Len(p) \in Nat /\ Len(q) \in Nat /\ Len(r) \in Nat
      /\ DOMAIN p = 1 .. Len(p) /\ DOMAIN q = 1 .. Len(q) /\ DOMAIN r = 1 .. Len(r)
      /\ (\A i \in 1 .. Len(p) : p[i] \in Nat) /\ (\A i \in 1 .. Len(q) : q[i] \in Nat)
      /\ \A i \in 1 .. Len(r) : r[i] \in Nat
  OBVIOUS
<1>2. IsPrefix(p, p) /\ IsPrefix(r, r)
  BY PrefixTransitive
<1>3. CASE IsStrictPrefix(p, q) /\ IsStrictPrefix(q, r)
  BY <1>3, PrefixTransitive, LessMeans
<1>4. CASE Before(p, q) /\ IsStrictPrefix(q, r)
  <2>1. IsPrefix(q, r)
    BY <1>4 DEF IsStrictPrefix
  <2> QED
    BY <1>2, <1>4, <2>1, BeforeBelow, LessMeans
<1>5. CASE IsStrictPrefix(p, q) /\ Before(q, r)
  <2>1. PICK i \in Nat : Splits(q, r, i)
    BY <1>5 DEF Before
  <2>2. i \in 1 .. Len(q) /\ i \in 1 .. Len(r) /\ q[i] < r[i]
        /\ \A j \in 1 .. i - 1 : q[j] = r[j]
    BY <1>1, <2>1 DEF Splits
  <2>3. Len(p) < Len(q) /\ \A j \in 1 .. Len(p) : p[j] = q[j]
    BY <1>5, PrefixMeans
  <2>4. CASE i <= Len(p)
    <3>1. i \in 1 .. Len(p) /\ p[i] < r[i] /\ \A j \in 1 .. i - 1 : j \in 1 .. Len(p)
      BY <1>1, <2>2, <2>3, <2>4
    <3>2. \A j \in 1 .. i - 1 : p[j] = r[j]
      BY <2>2, <2>3, <3>1
    <3> QED
      BY <1>1, <2>2, <3>1, <3>2, LessMeans DEF Before, Splits
  <2>5. CASE Len(p) < i
    <3>1. Len(p) < Len(r) /\ \A j \in 1 .. Len(p) : j \in 1 .. i - 1
      BY <1>1, <2>2, <2>5
    <3>2. \A j \in 1 .. Len(p) : p[j] = r[j]
      BY <2>2, <2>3, <3>1
    <3> QED
      BY <3>1, <3>2, PrefixMeans, LessMeans
  <2> QED
    BY <1>1, <2>4, <2>5
<1>6. CASE Before(p, q) /\ Before(q, r)
  <2>1. PICK i \in Nat : Splits(p, q, i)
    BY <1>6 DEF Before
  <2>2. PICK k \in Nat : Splits(q, r, k)
    BY <1>6 DEF Before
  <2>3. i \in 1 .. Len(p) /\ i \in 1 .. Len(q) /\ p[i] < q[i]
        /\ \A j \in 1 .. i - 1 : p[j] = q[j]
    BY <1>1, <2>1 DEF Splits
  <2>4. k \in 1 .. Len(q) /\ k \in 1 .. Len(r) /\ q[k] < r[k]
        /\ \A j \in 1 .. k - 1 : q[j] = r[j]
    BY <1>1, <2>2 DEF Splits
  <2>5. CASE i < k
    <3>1. i \in 1 .. Len(r) /\ i \in 1 .. k - 1 /\ \A j \in 1 .. i - 1 : j \in 1 .. k - 1
      BY <1>1, <2>3, <2>4, <2>5
    <3>2. p[i] < r[i] /\ \A j \in 1 .. i - 1 : p[j] = r[j]
      BY <2>3, <2>4, <3>1
    <3> QED
      BY <1>1, <2>3, <3>1, <3>2, LessMeans DEF Before, Splits
  <2>6. CASE k <= i
    <3>1. k \in 1 .. Len(p) /\ (k = i \/ k \in 1 .. i - 1)
          /\ \A j \in 1 .. k - 1 : j \in 1 .. i - 1
      BY <1>1, <2>3, <2>4, <2>6
    <3>2. p[k] <= q[k]
      BY <1>1, <2>3, <3>1
    <3>3. p[k] < r[k]
      BY <1>1, <2>4, <3>1, <3>2
    <3>4. \A j \in 1 .. k - 1 : p[j] = r[j]
      BY <2>3, <2>4, <3>1
    <3> QED
      BY <1>1, <2>4, <3>1, <3>3, <3>4, LessMeans DEF Before, Splits
  <2> QED
    BY <2>5, <2>6
<1> QED
  BY <1>3, <1>4, <1>5, <1>6, LessMeans

\* Of two paths one comes before the other, and only one does.
LEMMA LessTotal ==
    ASSUME NEW p \in Seq(Nat), NEW q \in Seq(Nat)
    PROVE  /\ p = q \/ PathLess(p, q) \/ PathLess(q, p)
           /\ ~(PathLess(p, q) /\ PathLess(q, p))
  BY FirstDifference, LessMeans, LessTransitive, LessIrreflexive

\* What lies between two paths of a directory is in it.
LEMMA BetweenTwo ==
    ASSUME NEW d \in Seq(Nat), NEW p \in Seq(Nat), NEW q \in Seq(Nat), NEW r \in Seq(Nat),
           IsPrefix(d, p), IsPrefix(d, r), PathLess(p, q), PathLess(q, r)
    PROVE  IsPrefix(d, q)
<1>1. ~PathLess(q, p) /\ ~PathLess(r, q)
  BY LessTotal
<1>2. IsPrefix(q, q) /\ IsPrefix(d, d)
  BY PrefixTransitive
<1>3. ~IsStrictPrefix(q, d)
  <2> SUFFICES ASSUME IsStrictPrefix(q, d) PROVE FALSE
    OBVIOUS
  <2>1. IsStrictPrefix(q, p)
    BY PrefixTransitive
  <2> QED
    BY <1>1, <2>1, LessMeans
<1>4. ~Before(d, q)
  BY <1>1, <1>2, BeforeBelow, LessMeans
<1>5. ~Before(q, d)
  BY <1>1, <1>2, BeforeBelow, LessMeans
<1> QED
  BY <1>2, <1>3, <1>4, <1>5, FirstDifference DEF IsStrictPrefix

\* A name appended to the path of its directory.
LEMMA AppendedPath ==
    ASSUME NEW d \in Seq(Nat), NEW x \in Nat
    PROVE  /\ Append(d, x) \in Seq(Nat) /\ Len(Append(d, x)) = Len(d) + 1
           /\ Append(d, x)[Len(d) + 1] = x
           /\ \A i \in 1 .. Len(d) : Append(d, x)[i] = d[i]
           /\ IsStrictPrefix(d, Append(d, x)) /\ IsPrefix(d, Append(d, x))
<1>1. /\ Append(d, x) \in Seq(Nat) /\ Len(Append(d, x)) = Len(d) + 1
      /\ Append(d, x)[Len(d) + 1] = x
      /\ \A i \in 1 .. Len(d) : Append(d, x)[i] = d[i]
  OBVIOUS
<1>2. Len(d) \in Nat /\ Len(d) < Len(d) + 1
  OBVIOUS
<1>3. IsStrictPrefix(d, Append(d, x))
  BY <1>1, <1>2, PrefixMeans
<1> QED
  BY <1>1, <1>3 DEF IsStrictPrefix

\* The name that p has in the directory d.
NameIn(d, p) == p[Len(d) + 1]

\* The name that a path has in a directory above it.
LEMMA NameFacts ==
    ASSUME NEW d \in Seq(Nat), NEW p \in Seq(Nat), IsStrictPrefix(d, p)
    PROVE  /\ NameIn(d, p) \in Nat /\ Len(d) + 1 <= Len(p) /\ Len(d) + 1 \in 1 .. Len(p)
           /\ IsPrefix(Append(d, NameIn(d, p)), p)
<1>1. Len(d) \in Nat /\ Len(p) \in Nat /\ Len(d) < Len(p)
      /\ \A i \in 1 .. Len(d) : d[i] = p[i]
  BY PrefixMeans
<1>2. Len(d) + 1 <= Len(p) /\ Len(d) + 1 \in 1 .. Len(p)
  BY <1>1
<1>3. NameIn(d, p) \in Nat
  BY <1>2 DEF NameIn
<1> DEFINE e == Append(d, NameIn(d, p))
<1>4. e \in Seq(Nat) /\ Len(e) = Len(d) + 1 /\ e[Len(d) + 1] = p[Len(d) + 1]
      /\ \A i \in 1 .. Len(d) : e[i] = d[i]
  BY <1>3, AppendedPath DEF NameIn
<1> HIDE DEF e
<1>5. ASSUME NEW i \in 1 .. Len(e) PROVE e[i] = p[i]
  <2>1. i \in 1 .. Len(d) \/ i = Len(d) + 1
    BY <1>1, <1>4
  <2> QED
    BY <1>1, <1>4, <2>1
<1>6. IsPrefix(e, p)
  BY <1>2, <1>4, <1>5, PrefixMeans
<1> QED
  BY <1>2, <1>3, <1>6 DEF e

\* What is at or below an entry of d is below d and has the name of the entry there.
LEMMA BelowEntry ==
    ASSUME NEW d \in Seq(Nat), NEW x \in Nat, NEW p \in Seq(Nat)
    PROVE  IsPrefix(Append(d, x), p) <=> IsStrictPrefix(d, p) /\ NameIn(d, p) = x
<1> DEFINE e == Append(d, x)
<1>1. e \in Seq(Nat) /\ Len(e) = Len(d) + 1 /\ e[Len(d) + 1] = x /\ IsStrictPrefix(d, e)
  BY AppendedPath
<1> HIDE DEF e
<1>2. ASSUME IsPrefix(e, p) PROVE IsStrictPrefix(d, p) /\ NameIn(d, p) = x
  <2>1. IsStrictPrefix(d, p)
    BY <1>1, <1>2, PrefixTransitive
  <2>2. Len(d) + 1 \in 1 .. Len(e)
    BY <1>1
  <2>3. e[Len(d) + 1] = p[Len(d) + 1]
    BY <1>1, <1>2, <2>2, PrefixMeans
  <2> QED
    BY <1>1, <2>1, <2>3 DEF NameIn
<1>3. ASSUME IsStrictPrefix(d, p), NameIn(d, p) = x PROVE IsPrefix(e, p)
  BY <1>3, NameFacts DEF e
<1> QED
  BY <1>2, <1>3 DEF e

\* What comes after an entry of d comes after d, or below a later entry of d.
LEMMA BeforeEntry ==
    ASSUME NEW d \in Seq(Nat), NEW x \in Nat, NEW p \in Seq(Nat)
    PROVE  Before(Append(d, x), p)
             <=> Before(d, p) \/ (IsStrictPrefix(d, p) /\ x < NameIn(d, p))
<1> DEFINE e == Append(d, x)
           n == Len(d)
<1>1. /\ e \in Seq(Nat) /\ Len(e) = n + 1 /\ e[n + 1] = x /\ IsPrefix(d, e) /\ n \in Nat
      /\ DOMAIN e = 1 .. n + 1 /\ DOMAIN d = 1 .. n /\ DOMAIN p = 1 .. Len(p)
      /\ Len(p) \in Nat /\ \A i \in 1 .. n : e[i] = d[i]
  BY AppendedPath
<1>n. NameIn(d, p) = p[n + 1]
  BY DEF NameIn
<1>p. IsStrictPrefix(d, p) <=> n < Len(p) /\ \A i \in 1 .. n : d[i] = p[i]
  BY PrefixMeans
<1>q. IsPrefix(p, p)
  BY PrefixTransitive
<1> HIDE DEF e, n
<1>2. ASSUME Before(d, p) PROVE Before(e, p)
  BY <1>1, <1>2, <1>q, BeforeBelow
<1>3. ASSUME IsStrictPrefix(d, p), x < NameIn(d, p) PROVE Before(e, p)
  <2>1. n + 1 \in 1 .. n + 1 /\ n + 1 \in 1 .. Len(p) /\ (n + 1) - 1 = n /\ n + 1 \in Nat
    BY <1>1, <1>3, <1>p
  <2>2. \A j \in 1 .. n : e[j] = p[j]
    BY <1>1, <1>3, <1>p
  <2>3. Splits(e, p, n + 1)
    BY <1>1, <1>3, <1>n, <2>1, <2>2 DEF Splits
  <2> QED
    BY <2>1, <2>3 DEF Before
<1>4. ASSUME Before(e, p)
      PROVE  Before(d, p) \/ (IsStrictPrefix(d, p) /\ x < NameIn(d, p))
  <2>1. PICK i \in Nat : Splits(e, p, i)
    BY <1>4 DEF Before
  <2>2. i \in 1 .. n + 1 /\ i \in 1 .. Len(p) /\ e[i] < p[i]
        /\ \A j \in 1 .. i - 1 : e[j] = p[j]
    BY <1>1, <2>1 DEF Splits
  <2>3. CASE i = n + 1
    <3>1. i - 1 = n /\ n < Len(p)
      BY <1>1, <2>2, <2>3
    <3>2. \A j \in 1 .. n : d[j] = p[j]
      BY <1>1, <2>2, <3>1
    <3> QED
      BY <1>1, <1>n, <1>p, <2>2, <2>3, <3>1, <3>2
  <2>4. CASE i \in 1 .. n
    <3>1. \A j \in 1 .. i - 1 : j \in 1 .. n
      BY <1>1, <2>4
    <3>2. d[i] < p[i] /\ \A j \in 1 .. i - 1 : d[j] = p[j]
      BY <1>1, <2>2, <2>4, <3>1
    <3> QED
      BY <1>1, <2>2, <2>4, <3>2 DEF Before, Splits
  <2> QED
    BY <1>1, <2>2, <2>3, <2>4
<1> QED
  BY <1>2, <1>3, <1>4 DEF e

\* In a directory the paths are in the order of their names there.
LEMMA NamesInOrder ==
    ASSUME NEW d \in Seq(Nat), NEW p \in Seq(Nat), NEW q \in Seq(Nat),
           IsStrictPrefix(d, p), IsStrictPrefix(d, q), PathLess(p, q)
    PROVE  NameIn(d, p) <= NameIn(d, q)
<1>1. NameIn(d, p) \in Nat /\ NameIn(d, q) \in Nat
  BY NameFacts
<1>2. SUFFICES ASSUME NameIn(d, q) < NameIn(d, p) PROVE FALSE
  BY <1>1
<1> DEFINE e == Append(d, NameIn(d, q))
<1>3. Before(e, p) /\ IsPrefix(e, q) /\ e \in Seq(Nat)
  BY <1>1, <1>2, BeforeEntry, NameFacts, AppendedPath
<1> HIDE DEF e
<1>4. Before(q, p)
  BY <1>3, BeforeBelow, PrefixTransitive
<1> QED
  BY <1>4, LessMeans, LessTotal

-----------------------------------------------------------------------------
(* Ranks: a finite set of paths in order *)

\* How many of the paths P of I come before that of i.
Rank(I, P, i) == Cardinality({j \in I : PathLess(P[j], P[i])})

\* Paths P, each once.
Distinct(I, P) ==
    /\ IsFiniteSet(I) /\ P \in [I -> Seq(Nat)]
    /\ \A i, j \in I : P[i] = P[j] => i = j

\* A path that comes before another has fewer paths before it.
LEMMA RankLess ==
    ASSUME NEW I, NEW P, Distinct(I, P), NEW i \in I, NEW j \in I, PathLess(P[i], P[j])
    PROVE  /\ Rank(I, P, i) < Rank(I, P, j)
           /\ Rank(I, P, i) \in Nat /\ Rank(I, P, j) \in Nat
<1> DEFINE S == {k \in I : PathLess(P[k], P[i])}
           T == {k \in I : PathLess(P[k], P[j])}
<1>1. IsFiniteSet(I) /\ \A k \in I : P[k] \in Seq(Nat)
  BY DEF Distinct
<1>2. T \in SUBSET I /\ S \in SUBSET T
  BY <1>1, LessTransitive
<1>3. i \in T /\ i \notin S
  BY <1>1, LessIrreflexive
<1> HIDE DEF S, T
<1>4. IsFiniteSet(T) /\ IsFiniteSet(S)
  BY <1>1, <1>2, FS_Subset
<1>5. Cardinality(S) <= Cardinality(T) /\ Cardinality(S) # Cardinality(T)
  BY <1>2, <1>3, <1>4, FS_Subset
<1>6. Cardinality(S) \in Nat /\ Cardinality(T) \in Nat
  BY <1>4, FS_CardinalityType
<1>7. Cardinality(S) < Cardinality(T)
  BY <1>5, <1>6
<1> QED
  BY <1>6, <1>7 DEF Rank, S, T

\* Of a finite set of paths there is one of each rank and not two.
LEMMA RankUnique ==
    ASSUME NEW I, NEW P, Distinct(I, P), NEW i \in I, NEW j \in I,
           Rank(I, P, i) = Rank(I, P, j)
    PROVE  i = j
<1>1. P[i] \in Seq(Nat) /\ P[j] \in Seq(Nat) /\ (P[i] = P[j] => i = j)
  BY DEF Distinct
<1>2. \A m, n \in Nat : m < n => m # n
  OBVIOUS
<1>3. ~PathLess(P[i], P[j]) /\ ~PathLess(P[j], P[i])
  BY <1>2, RankLess
<1> QED
  BY <1>1, <1>3, LessTotal

\* The rank of a path is less than their number.
LEMMA RankBound ==
    ASSUME NEW I, NEW P, Distinct(I, P), NEW i \in I
    PROVE  Rank(I, P, i) \in 0 .. Cardinality(I) - 1
<1> DEFINE n == Cardinality(I)
           S == {j \in I : PathLess(P[j], P[i])}
<1>1. IsFiniteSet(I) /\ \A k \in I : P[k] \in Seq(Nat)
  BY DEF Distinct
<1>2. n \in Nat
  BY <1>1, FS_CardinalityType
<1>3. S \in SUBSET I /\ i \notin S
  BY <1>1, LessIrreflexive
<1> HIDE DEF S
<1>4. IsFiniteSet(S) /\ Cardinality(S) <= n /\ Cardinality(S) # n
  BY <1>1, <1>3, FS_Subset
<1>5. Cardinality(S) \in Nat
  BY <1>4, FS_CardinalityType
<1> HIDE DEF n
<1>6. Cardinality(S) \in 0 .. n - 1
  BY <1>2, <1>4, <1>5
<1> QED
  BY <1>6 DEF Rank, S, n

\* Every rank below the number of the paths is that of one of them: the pigeonhole
\* principle.
LEMMA RankExists ==
    ASSUME NEW I, NEW P, Distinct(I, P), NEW k \in Nat, k < Cardinality(I)
    PROVE  \E i \in I : Rank(I, P, i) = k
<1> DEFINE n == Cardinality(I)
           N == 0 .. n - 1
           f == [i \in I |-> Rank(I, P, i)]
<1>1. IsFiniteSet(I) /\ \A i \in I : P[i] \in Seq(Nat)
  BY DEF Distinct
<1>2. n \in Nat
  BY <1>1, FS_CardinalityType
<1>3. IsFiniteSet(N) /\ Cardinality(N) = n
  <2> HIDE DEF n
  <2>1. Cardinality(N) = (IF 0 > n - 1 THEN 0 ELSE (n - 1) - 0 + 1) /\ IsFiniteSet(N)
    BY <1>2, FS_Interval
  <2> QED
    BY <1>2, <2>1
<1>4. \A i \in I : Rank(I, P, i) \in N
  BY RankBound
<1>5. f \in Injection(I, N)
  <2>1. f \in [I -> N]
    BY <1>4
  <2>2. \A i, j \in I : f[i] = f[j] => i = j
    BY RankUnique
  <2> QED
    BY <2>1, <2>2 DEF Injection, IsInjective
<1> HIDE DEF f
<1>6. f \in Surjection(I, N)
  BY <1>1, <1>3, <1>5, FS_Injection
<1>7. k \in N
  BY <1>2
<1>8. \E i \in I : f[i] = k
  BY <1>6, <1>7 DEF Surjection
<1> QED
  BY <1>8 DEF f

-----------------------------------------------------------------------------
(* Sums: SumFunctionOnSet takes the numbers in an order of its own *)

\* One element of a set that is not empty.
One(s) == CHOOSE x \in s : TRUE

\* One turn of the fold that adds up g over a set: SumFunctionOnSet takes an element
\* away.
SumTurn(g, f, s) == IF s = {} THEN 0 ELSE g[One(s)] + f[s \ {One(s)}]

\* The fold itself, for every subset of S.
Sums(g, S) == CHOOSE f : f = [s \in SUBSET S |-> SumTurn(g, f, s)]

\* Induction over the natural numbers, for a set.
LEMMA AllNumbers ==
    ASSUME NEW S, 0 \in S, \A n \in Nat : n \in S => n + 1 \in S
    PROVE  Nat \subseteq S
<1> DEFINE T == Nat \ S
<1> SUFFICES ASSUME T # {} PROVE FALSE
  OBVIOUS
<1>1. PICK x \in T : \A y \in T : x <= y
  <2>1. T \in SUBSET Nat
    OBVIOUS
  <2> HIDE DEF T
  <2> QED
    BY <2>1, LeastNumber
<1>2. x # 0 /\ x \in Nat /\ x \notin S
  OBVIOUS
<1>3. x - 1 \in Nat /\ (x - 1) + 1 = x /\ ~(x <= x - 1)
  BY <1>2
<1>4. x - 1 \in S
  BY <1>1, <1>3
<1> QED
  BY <1>2, <1>3, <1>4

\* A set without one of its elements.
LEMMA OneLess ==
    ASSUME NEW s, IsFiniteSet(s), NEW x \in s
    PROVE  /\ IsFiniteSet(s \ {x}) /\ Cardinality(s) \in Nat
           /\ Cardinality(s \ {x}) \in Nat /\ Cardinality(s) = Cardinality(s \ {x}) + 1
<1>1. IsFiniteSet(s \ {x}) /\ Cardinality(s \ {x}) = Cardinality(s) - 1
  BY FS_RemoveElement
<1>2. Cardinality(s) \in Nat /\ Cardinality(s \ {x}) \in Nat
  BY <1>1, FS_CardinalityType
<1> QED
  BY <1>1, <1>2

\* The sums of all subsets exist, by induction on their size.
LEMMA SumsExist ==
    ASSUME NEW g, NEW S, IsFiniteSet(S)
    PROVE  \A s \in SUBSET S : Sums(g, S)[s] = SumTurn(g, Sums(g, S), s)
<1> DEFINE Small(n) == {s \in SUBSET S : Cardinality(s) <= n}
           Exist(n) == \E f : /\ f = [s \in SUBSET S |-> f[s]]
                              /\ \A s \in Small(n) : f[s] = SumTurn(g, f, s)
           N == {n \in Nat : Exist(n)}
<1>1. \A s \in SUBSET S : IsFiniteSet(s) /\ Cardinality(s) \in Nat
  BY FS_Subset, FS_CardinalityType
<1>2. Exist(0)
  <2> DEFINE f == [s \in SUBSET S |-> 0]
  <2>1. \A s \in Small(0) : s = {}
    <3>1. \A c \in Nat : c <= 0 => c = 0
      OBVIOUS
    <3> QED
      BY <1>1, <3>1, FS_EmptySet
  <2>2. f = [s \in SUBSET S |-> f[s]] /\ \A s \in Small(0) : f[s] = 0
    OBVIOUS
  <2>3. \A s \in Small(0) : f[s] = SumTurn(g, f, s)
    BY <2>1, <2>2 DEF SumTurn
  <2> HIDE DEF f
  <2> QED
    BY <2>2, <2>3
<1>3. ASSUME NEW n \in Nat, Exist(n) PROVE Exist(n + 1)
  <2>1. PICK f : /\ f = [s \in SUBSET S |-> f[s]]
                 /\ \A s \in Small(n) : f[s] = SumTurn(g, f, s)
    BY <1>3
  <2> DEFINE h == [s \in SUBSET S |->
                     IF Cardinality(s) <= n THEN f[s] ELSE SumTurn(g, f, s)]
  <2>2. h = [s \in SUBSET S |-> h[s]]
    OBVIOUS
  <2>3. ASSUME NEW s \in Small(n + 1) PROVE h[s] = SumTurn(g, h, s)
    <3>1. s \in SUBSET S /\ Cardinality(s) <= n + 1
      OBVIOUS
    <3>2. CASE s = {}
      <4>1. h[s] = 0
        BY <2>1, <3>1, <3>2 DEF SumTurn
      <4> HIDE DEF h
      <4> QED
        BY <3>2, <4>1 DEF SumTurn
    <3>3. CASE s # {}
      <4> DEFINE x == One(s)
                 r == s \ {x}
      <4>1. x \in s
        BY <3>3 DEF One
      <4>2. r \in SUBSET S /\ Cardinality(s) = Cardinality(r) + 1 /\ Cardinality(r) \in Nat
        BY <1>1, <3>1, <4>1, OneLess
      <4>3. Cardinality(r) <= n
        BY <3>1, <4>2
      <4>4. h[r] = f[r]
        BY <4>2, <4>3
      <4>5. h[s] = SumTurn(g, f, s)
        <5>1. CASE Cardinality(s) <= n
          <6>1. s \in Small(n)
            BY <3>1, <5>1
          <6> QED
            BY <2>1, <3>1, <5>1, <6>1
        <5>2. CASE ~(Cardinality(s) <= n)
          BY <3>1, <5>2
        <5> QED
          BY <5>1, <5>2
      <4> HIDE DEF h
      <4> QED
        BY <3>3, <4>4, <4>5 DEF SumTurn
    <3> QED
      BY <3>2, <3>3
  <2> HIDE DEF h
  <2> QED
    BY <2>2, <2>3
<1>4. 0 \in N /\ \A n \in Nat : n \in N => n + 1 \in N
  <2> HIDE DEF Exist
  <2> QED
    BY ONLY <1>2, <1>3
<1>5. Cardinality(S) \in N
  <2> HIDE DEF N
  <2> QED
    BY <1>1, <1>4, AllNumbers
<1>6. Small(Cardinality(S)) = SUBSET S
  BY FS_Subset
<1>7. PICK f : /\ f = [s \in SUBSET S |-> f[s]]
               /\ \A s \in SUBSET S : f[s] = SumTurn(g, f, s)
  <2> HIDE DEF Small
  <2> QED
    BY <1>5, <1>6
<1>8. f = [s \in SUBSET S |-> SumTurn(g, f, s)]
  BY <1>7
<1> DEFINE F == Sums(g, S)
<1>9. F = [s \in SUBSET S |-> SumTurn(g, F, s)]
  BY ONLY <1>8 DEF Sums
<1> HIDE DEF F
<1>10. \A s \in SUBSET S : F[s] = SumTurn(g, F, s)
  BY ONLY <1>9
<1> QED
  BY ONLY <1>10 DEF F

\* The sum of g over S.
Total(g, S) == SumFunctionOnSet(g, S)

\* The sums of subsets are the same whatever set they are seen as subsets of.
LEMMA SumsSame ==
    ASSUME NEW g, NEW S, IsFiniteSet(S), NEW T \in SUBSET S
    PROVE  Total(g, T) = Sums(g, S)[T]
<1> DEFINE F == Sums(g, S)
           G == Sums(g, T)
           Same(n) == \A s \in SUBSET T : Cardinality(s) <= n => F[s] = G[s]
           N == {n \in Nat : Same(n)}
<1>1. IsFiniteSet(T) /\ \A s \in SUBSET T : IsFiniteSet(s) /\ Cardinality(s) \in Nat
  BY FS_Subset, FS_CardinalityType
<1>2. /\ \A s \in SUBSET S : F[s] = SumTurn(g, F, s)
      /\ \A s \in SUBSET T : G[s] = SumTurn(g, G, s)
  BY <1>1, SumsExist
<1>3. Total(g, T) = G[T]
  BY DEF Total, SumFunctionOnSet, FoldFunctionOnSet, MapThenFoldSet, Sums, SumTurn, One
<1> HIDE DEF F, G
<1>4. Same(0)
  <2>1. \A s \in SUBSET T : Cardinality(s) <= 0 => s = {}
    <3>1. \A c \in Nat : c <= 0 => c = 0
      OBVIOUS
    <3> QED
      BY <1>1, <3>1, FS_EmptySet
  <2>2. {} \in SUBSET S /\ {} \in SUBSET T
    OBVIOUS
  <2>3. F[{}] = 0 /\ G[{}] = 0
    BY <1>2, <2>2 DEF SumTurn
  <2> QED
    BY <2>1, <2>3
<1>5. ASSUME NEW n \in Nat, Same(n) PROVE Same(n + 1)
  <2> TAKE s \in SUBSET T
  <2> HAVE Cardinality(s) <= n + 1
  <2>1. CASE s = {}
    <3>1. Cardinality(s) = 0 /\ 0 <= n
      BY <2>1, FS_EmptySet
    <3> QED
      BY <1>5, <3>1
  <2>2. CASE s # {}
    <3> DEFINE x == One(s)
               r == s \ {x}
    <3>1. x \in s
      BY <2>2 DEF One
    <3>2. r \in SUBSET T /\ Cardinality(s) = Cardinality(r) + 1 /\ Cardinality(r) \in Nat
      BY <1>1, <3>1, OneLess
    <3>3. Cardinality(r) <= n
      BY <3>2
    <3>4. F[r] = G[r]
      BY <1>5, <3>2, <3>3
    <3>5. F[s] = SumTurn(g, F, s) /\ G[s] = SumTurn(g, G, s)
      BY <1>2
    <3> QED
      BY <2>2, <3>4, <3>5 DEF SumTurn
  <2> QED
    BY <2>1, <2>2
<1>6. 0 \in N /\ \A n \in Nat : n \in N => n + 1 \in N
  <2> HIDE DEF Same
  <2> QED
    BY ONLY <1>4, <1>5
<1>7. Cardinality(T) \in N
  <2> HIDE DEF N
  <2> QED
    BY <1>1, <1>6, AllNumbers
<1>8. Cardinality(T) <= Cardinality(T)
  BY <1>1
<1>9. F[T] = G[T]
  BY <1>7, <1>8
<1> QED
  BY <1>3, <1>9 DEF F

\* Sums are numbers, and every element of a set can be the first to be added.
LEMMA SumFacts ==
    ASSUME NEW S, IsFiniteSet(S), NEW g \in [S -> Nat]
    PROVE  /\ Total(g, {}) = 0
           /\ \A s \in SUBSET S :
                 /\ Total(g, s) \in Nat
                 /\ \A x \in s : Total(g, s) = g[x] + Total(g, s \ {x})
<1> DEFINE F == Sums(g, S)
           Good(s) == F[s] \in Nat /\ \A x \in s : F[s] = g[x] + F[s \ {x}]
           AllGood(n) == \A s \in SUBSET S : Cardinality(s) <= n => Good(s)
           N == {n \in Nat : AllGood(n)}
<1>1. \A s \in SUBSET S : IsFiniteSet(s) /\ Cardinality(s) \in Nat
  BY FS_Subset, FS_CardinalityType
<1>2. \A s \in SUBSET S : F[s] = SumTurn(g, F, s)
  BY SumsExist
<1>3. \A s \in SUBSET S : Total(g, s) = F[s]
  BY SumsSame
<1> HIDE DEF F
<1>4. {} \in SUBSET S /\ F[{}] = 0
  BY <1>2 DEF SumTurn
<1>5. AllGood(0)
  <2>1. \A s \in SUBSET S : Cardinality(s) <= 0 => s = {}
    <3>1. \A c \in Nat : c <= 0 => c = 0
      OBVIOUS
    <3> QED
      BY <1>1, <3>1, FS_EmptySet
  <2> QED
    BY <1>4, <2>1
<1>6. ASSUME NEW n \in Nat, AllGood(n) PROVE AllGood(n + 1)
  <2> TAKE s \in SUBSET S
  <2> HAVE Cardinality(s) <= n + 1
  <2>e. CASE s = {}
    BY <1>4, <2>e
  <2>n. SUFFICES ASSUME s # {} PROVE Good(s)
    BY <2>e
  <2>0. ASSUME NEW t \in SUBSET S, Cardinality(t) <= n
        PROVE  F[t] \in Nat /\ \A x \in t : F[t] = g[x] + F[t \ {x}]
    BY <1>6, <2>0
  <2> DEFINE c == One(s)
  <2>1. c \in s /\ c \in S
    BY <2>n DEF One
  <2>2. F[s] = g[c] + F[s \ {c}]
    BY <1>2, <2>n DEF SumTurn
  <2> HIDE DEF c
  <2>3. ASSUME NEW x \in s
        PROVE  /\ s \ {x} \in SUBSET S /\ Cardinality(s \ {x}) <= n
               /\ g[x] \in Nat /\ F[s \ {x}] \in Nat
    <3>1. Cardinality(s) = Cardinality(s \ {x}) + 1 /\ Cardinality(s \ {x}) \in Nat
      BY <1>1, OneLess
    <3>2. s \ {x} \in SUBSET S /\ Cardinality(s \ {x}) <= n
      BY <3>1
    <3> QED
      BY <2>0, <3>2
  <2>4. F[s] \in Nat
    <3>1. \A a, b \in Nat : a + b \in Nat
      OBVIOUS
    <3> QED
      BY <2>1, <2>2, <2>3, <3>1
  <2>5. ASSUME NEW x \in s, x # c PROVE F[s] = g[x] + F[s \ {x}]
    <3> DEFINE r == (s \ {c}) \ {x}
    <3>1. r = (s \ {x}) \ {c} /\ x \in s \ {c} /\ c \in s \ {x}
      BY <2>1, <2>5
    <3>2. F[s \ {c}] = g[x] + F[r]
      BY <2>0, <2>1, <2>3, <3>1
    <3>3. F[s \ {x}] = g[c] + F[r]
      BY <2>0, <2>3, <3>1
    <3>4. F[r] \in Nat
      <4>1. s \ {x} \in SUBSET S /\ IsFiniteSet(s \ {x}) /\ Cardinality(s \ {x}) <= n
        BY <1>1, <2>3
      <4>2. Cardinality(s \ {x}) = Cardinality(r) + 1 /\ Cardinality(r) \in Nat
        BY <3>1, <4>1, OneLess
      <4>3. r \in SUBSET S /\ Cardinality(r) <= n
        BY <1>1, <2>3, <4>1, <4>2
      <4> QED
        BY <2>0, <4>3
    <3> HIDE DEF r
    <3>5. \A a, b, k \in Nat : a + (b + k) = b + (a + k)
      OBVIOUS
    <3> QED
      BY <2>1, <2>2, <2>3, <3>2, <3>3, <3>4, <3>5
  <2> QED
    BY <2>2, <2>4, <2>5
<1>7. 0 \in N /\ \A n \in Nat : n \in N => n + 1 \in N
  <2> HIDE DEF AllGood
  <2> QED
    BY ONLY <1>5, <1>6
<1>8. Cardinality(S) \in N
  <2> HIDE DEF N
  <2> QED
    BY <1>1, <1>7, AllNumbers
<1>9. ASSUME NEW s \in SUBSET S PROVE Good(s)
  <2>1. Cardinality(s) <= Cardinality(S)
    BY FS_Subset
  <2> HIDE DEF Good
  <2> QED
    BY <1>8, <2>1
<1>10. \A s \in SUBSET S : \A x \in s : s \ {x} \in SUBSET S
  OBVIOUS
<1> QED
  BY <1>3, <1>4, <1>9, <1>10

-----------------------------------------------------------------------------
(* The index of the files *)

\* What MetafileAssumption says of the files: no path is above another, and each occurs
\* once.
LEMMA StorageFacts ==
    ASSUME metafile \in Metafiles
    PROVE  /\ Len(files) \in Nat /\ DOMAIN files = 1 .. Len(files)
           /\ IsFiniteSet(DOMAIN files) /\ Cardinality(DOMAIN files) = Len(files)
           /\ \A i \in DOMAIN files :
                 /\ files[i].size \in Nat /\ files[i].pad \in BOOLEAN
                 /\ files[i].path \in Seq(Nat) /\ files[i].path # <<>>
           /\ \A i, j \in DOMAIN files :
                 IsPrefix(files[i].path, files[j].path) => i = j
<1> DEFINE fs == files
<1>1. /\ fs \in Seq(File) /\ \A i \in DOMAIN fs : fs[i].path # <<>>
      /\ \A i, j \in DOMAIN fs : IsPrefix(fs[i].path, fs[j].path) => i = j
  BY MetafileAssumption DEF files
<1> HIDE DEF fs
<1>2. Len(fs) \in Nat /\ DOMAIN fs = 1 .. Len(fs) /\ \A i \in DOMAIN fs : fs[i] \in File
  BY <1>1
<1>3. \A i \in DOMAIN fs : fs[i].size \in Nat /\ fs[i].path \in Seq(Nat) /\ fs[i].pad \in BOOLEAN
  BY <1>2 DEF File
<1> DEFINE n == Len(fs)
<1>4. n \in Nat
  BY <1>2
<1> HIDE DEF n
<1>5. IsFiniteSet(1 .. n) /\ Cardinality(1 .. n) = (IF 1 > n THEN 0 ELSE n - 1 + 1)
  BY <1>4, FS_Interval
<1>6. IsFiniteSet(1 .. n) /\ Cardinality(1 .. n) = n
  BY <1>4, <1>5
<1> QED
  BY <1>1, <1>2, <1>3, <1>6 DEF fs, n

\* The files by their paths are in an order.
LEMMA FilesDistinct ==
    ASSUME metafile \in Metafiles
    PROVE  Distinct(DOMAIN files, [i \in DOMAIN files |-> files[i].path])
<1> DEFINE P == [i \in DOMAIN files |-> files[i].path]
<1>1. IsFiniteSet(DOMAIN files) /\ P \in [DOMAIN files -> Seq(Nat)]
  BY StorageFacts
<1>2. ASSUME NEW i \in DOMAIN files, NEW j \in DOMAIN files, P[i] = P[j] PROVE i = j
  <2>1. IsPrefix(files[i].path, files[j].path)
    BY <1>2, StorageFacts, PrefixTransitive
  <2> QED
    BY <2>1, StorageFacts
<1> HIDE DEF P
<1>3. Distinct(DOMAIN files, P)
  BY <1>1, <1>2 DEF Distinct
<1> QED
  BY <1>3 DEF P

\* create_sorted_file_indices has every file, in the order of the paths.
InPathOrder(s) ==
    /\ s \in Seq(DOMAIN files) /\ Len(s) = Len(files)
    /\ \A i \in DOMAIN files : \E k \in DOMAIN files : s[k] = i
    /\ \A j, k \in DOMAIN files : j < k => PathLess(files[s[j]].path, files[s[k]].path)

\* create_sorted_file_indices puts the files in the order of their paths, every file
\* once.
LEMMA SortedIndices ==
    ASSUME metafile \in Metafiles
    PROVE  InPathOrder(create_sorted_file_indices)
<1> DEFINE I == DOMAIN files
           P == [i \in I |-> files[i].path]
           s == create_sorted_file_indices
           n == Len(files)
<1>1. Distinct(I, P)
  BY FilesDistinct
<1>2. n \in Nat /\ I = 1 .. n /\ IsFiniteSet(I) /\ Cardinality(I) = n
  BY StorageFacts
<1>3. \A i \in I : {j \in I : PathLess(files[j].path, files[i].path)}
                     = {j \in I : PathLess(P[j], P[i])}
  OBVIOUS
<1>4. \A i \in I : Cardinality({j \in I : PathLess(files[j].path, files[i].path)})
                     = Rank(I, P, i)
  BY <1>3 DEF Rank
<1>5. s = [k \in I |-> CHOOSE i \in I : Rank(I, P, i) = k - 1]
  BY <1>4 DEF create_sorted_file_indices
<1>6. \A i \in I : P[i] = files[i].path /\ P[i] \in Seq(Nat)
  BY StorageFacts
<1> HIDE DEF I, P, s, n
<1>7. ASSUME NEW k \in I PROVE s[k] \in I /\ Rank(I, P, s[k]) = k - 1
  <2>1. k - 1 \in Nat /\ k - 1 < Cardinality(I)
    BY <1>2
  <2>2. \E i \in I : Rank(I, P, i) = k - 1
    BY <1>1, <2>1, RankExists
  <2>3. s[k] = CHOOSE i \in I : Rank(I, P, i) = k - 1
    BY <1>5
  <2> QED
    BY <2>2, <2>3
<1>8. s \in Seq(I) /\ Len(s) = n
  <2>1. s = [k \in 1 .. n |-> s[k]] /\ \A k \in 1 .. n : s[k] \in I
    BY <1>2, <1>5, <1>7
  <2> QED
    BY <1>2, <2>1
<1>9. ASSUME NEW i \in I PROVE \E k \in I : s[k] = i
  <2> DEFINE k == Rank(I, P, i) + 1
  <2>1. k \in I /\ k - 1 = Rank(I, P, i)
    <3>1. Rank(I, P, i) \in 0 .. n - 1
      BY <1>1, <1>2, RankBound
    <3> QED
      BY <1>2, <3>1
  <2>2. Rank(I, P, s[k]) = Rank(I, P, i) /\ s[k] \in I
    BY <1>7, <2>1
  <2> QED
    BY <1>1, <2>1, <2>2, RankUnique
<1>10. ASSUME NEW j \in I, NEW k \in I, j < k PROVE PathLess(P[s[j]], P[s[k]])
  <2>1. Rank(I, P, s[j]) < Rank(I, P, s[k]) /\ s[j] \in I /\ s[k] \in I
    <3>1. \A a, b \in 1 .. n : a < b => a - 1 < b - 1
      BY <1>2
    <3> QED
      BY <1>2, <1>7, <1>10, <3>1
  <2>2. Rank(I, P, s[j]) \in Nat /\ Rank(I, P, s[k]) \in Nat
    <3>1. \A i \in I : Rank(I, P, i) \in 0 .. n - 1
      BY <1>1, <1>2, RankBound
    <3> QED
      BY <1>2, <2>1, <3>1
  <2>3. ~(Rank(I, P, s[k]) < Rank(I, P, s[j])) /\ s[j] # s[k]
    BY <2>1, <2>2
  <2>4. ~PathLess(P[s[k]], P[s[j]])
    BY <1>1, <2>1, <2>3, RankLess
  <2>5. P[s[j]] # P[s[k]]
    BY <1>1, <2>1, <2>3 DEF Distinct
  <2> QED
    BY <1>6, <2>1, <2>4, <2>5, LessTotal
<1>11. \A j, k \in I : j < k => PathLess(files[s[j]].path, files[s[k]].path)
  BY <1>6, <1>7, <1>10
<1> QED
  BY <1>8, <1>9, <1>11 DEF InPathOrder, I, s, n

\* The directories above a path are its beginnings.
LEMMA AboveMeans ==
    ASSUME NEW p \in Seq(Nat)
    PROVE  \A d : d \in Ancestors(p) <=> d \in Seq(Nat) /\ d # <<>> /\ IsStrictPrefix(d, p)
<1>1. Len(p) \in Nat
  OBVIOUS
<1>2. ASSUME NEW d, d \in Ancestors(p)
      PROVE  d \in Seq(Nat) /\ d # <<>> /\ IsStrictPrefix(d, p)
  <2>1. PICK i \in 1 .. Len(p) - 1 : d = Prefix(p, i)
    BY <1>2 DEF Ancestors
  <2>2. i \in Nat /\ 1 <= i /\ i < Len(p)
    BY <1>1
  <2>3. d \in Seq(Nat) /\ Len(d) = i /\ \A j \in 1 .. i : d[j] = p[j]
    BY <2>1, <2>2 DEF Prefix
  <2>4. IsStrictPrefix(d, p)
    BY <2>2, <2>3, PrefixMeans
  <2> QED
    BY <2>2, <2>3, <2>4
<1>3. ASSUME NEW d \in Seq(Nat), d # <<>>, IsStrictPrefix(d, p)
      PROVE  d \in Ancestors(p)
  <2> DEFINE i == Len(d)
  <2>1. i \in Nat /\ i # 0 /\ i < Len(p) /\ \A j \in 1 .. i : d[j] = p[j]
    BY <1>3, PrefixMeans
  <2>2. i \in 1 .. Len(p) - 1 /\ i <= Len(p)
    BY <1>1, <2>1
  <2>3. Prefix(d, i) = d
    BY DEF Prefix
  <2>4. Prefix(d, i) = Prefix(p, i)
    BY <2>1, <2>2, SamePrefix
  <2> QED
    BY <2>2, <2>3, <2>4 DEF Ancestors
<1> QED
  BY <1>2, <1>3

-----------------------------------------------------------------------------
(* The directory map *)

\* The directory map after i files, given those after fewer.
AfterTurn(s, f, i) ==
    IF i = 0 THEN [root \in {<<>>} |-> RootNode(Len(s))]
    ELSE AddFile(f[i - 1], i, files[s[i]])

\* The directory map after every number of files up to k.
After(s, k) == CHOOSE f : f = [i \in 0 .. k |-> AfterTurn(s, f, i)]

\* create_directory_map, file by file: the maps after each file exist, by induction on k.
LEMMA AfterExists ==
    ASSUME NEW s, NEW k \in Nat
    PROVE  /\ After(s, k)[0] = [root \in {<<>>} |-> RootNode(Len(s))]
           /\ \A i \in 1 .. k : After(s, k)[i] = AddFile(After(s, k)[i - 1], i, files[s[i]])
<1> DEFINE Exist(j) == \E f : f = [i \in 0 .. j |-> AfterTurn(s, f, i)]
           N == {j \in Nat : Exist(j)}
<1>1. Exist(0)
  <2> DEFINE f == [i \in 0 .. 0 |-> [root \in {<<>>} |-> RootNode(Len(s))]]
  <2>1. \A i \in 0 .. 0 : i = 0
    OBVIOUS
  <2>2. f = [i \in 0 .. 0 |-> AfterTurn(s, f, i)]
    BY <2>1 DEF AfterTurn
  <2> QED
    BY <2>2
<1>2. ASSUME NEW j \in Nat, Exist(j) PROVE Exist(j + 1)
  <2>1. PICK f : f = [i \in 0 .. j |-> AfterTurn(s, f, i)]
    BY <1>2
  <2> DEFINE g == [i \in 0 .. (j + 1) |-> IF i = j + 1 THEN AfterTurn(s, f, i) ELSE f[i]]
  <2>2. \A i \in 0 .. j : g[i] = f[i] /\ f[i] = AfterTurn(s, f, i)
    BY <2>1
  <2>3. ASSUME NEW i \in 0 .. (j + 1) PROVE g[i] = AfterTurn(s, f, i)
    <3>1. i \in 0 .. j \/ i = j + 1
      OBVIOUS
    <3> QED
      BY <2>2, <3>1
  <2>4. ASSUME NEW i \in 0 .. (j + 1), i # 0 PROVE g[i - 1] = f[i - 1]
    <3>1. i - 1 \in 0 .. j
      BY <2>4
    <3> QED
      BY <2>2, <3>1
  <2>5. g = [i \in 0 .. (j + 1) |-> g[i]]
    OBVIOUS
  <2> HIDE DEF g
  <2>6. \A i \in 0 .. (j + 1) : g[i] = AfterTurn(s, g, i)
    BY <2>3, <2>4 DEF AfterTurn
  <2>7. g = [i \in 0 .. (j + 1) |-> AfterTurn(s, g, i)]
    BY <2>5, <2>6
  <2> QED
    BY <2>7
<1>3. 0 \in N /\ \A j \in Nat : j \in N => j + 1 \in N
  <2> HIDE DEF Exist
  <2> QED
    BY ONLY <1>1, <1>2
<1> HIDE DEF N
<1>4. k \in N
  BY <1>3, AllNumbers
<1>5. Exist(k)
  BY <1>4 DEF N
<1> DEFINE F == After(s, k)
<1>6. F = [i \in 0 .. k |-> AfterTurn(s, F, i)]
  BY ONLY <1>5 DEF After
<1> HIDE DEF F
<1>7. \A i \in 0 .. k : F[i] = AfterTurn(s, F, i)
  BY ONLY <1>6
<1>8. 0 \in 0 .. k /\ \A i \in 1 .. k : i \in 0 .. k /\ i # 0
  OBVIOUS
<1>9. F[0] = [root \in {<<>>} |-> RootNode(Len(s))]
  BY <1>7, <1>8 DEF AfterTurn
<1>10. \A i \in 1 .. k : F[i] = AddFile(F[i - 1], i, files[s[i]])
  BY <1>7, <1>8 DEF AfterTurn
<1> QED
  BY <1>9, <1>10 DEF F

-----------------------------------------------------------------------------
\* What directory_node may hold.
Nodes == [first : Nat, last : Nat, total_file_size : Nat, padding_dir : BOOLEAN]

\* The file at place k of the sorted files.
PathAt(s, k) == files[s[k]].path

\* The files at the places of node r, of the first i.
FilesAt(s, r) == {files[s[k]] : k \in r.first .. r.last - 1}

\* The sizes that get_directory_size adds up.
SizeOfFile == [f \in Range(files) |-> f.size]

\* The node r of a directory d, when the first i files are indexed: a range of places,
\* where the files below d are and no others, and their size.
NodeOf(s, i, d, r) ==
    /\ r \in Nodes /\ ~r.padding_dir
    /\ 1 <= r.first /\ r.first < r.last /\ r.last <= i + 1
    /\ \A k \in 1 .. i : IsStrictPrefix(d, PathAt(s, k)) <=> r.first <= k /\ k < r.last
    /\ r.total_file_size = Total(SizeOfFile, FilesAt(s, r))

\* The directories that have a file among the first i, but for the root.
DirectoriesOf(s, i) ==
    {d \in Seq(Nat) : d # <<>> /\ \E k \in 1 .. i : IsStrictPrefix(d, PathAt(s, k))}

\* The directory map after i files: a node for every directory above one of them.
MapInv(s, i, directories) ==
    /\ DOMAIN directories = {<<>>} \union DirectoriesOf(s, i)
    /\ directories[<<>>] = RootNode(Len(s))
    /\ \A d \in DirectoriesOf(s, i) : NodeOf(s, i, d, directories[d])

\* What is sorted is a path, and another one at every place.
LEMMA SortedFacts ==
    ASSUME metafile \in Metafiles, NEW s, InPathOrder(s)
    PROVE  /\ Len(s) \in Nat /\ Len(s) = Len(files) /\ DOMAIN s = 1 .. Len(s)
           /\ \A k \in 1 .. Len(s) :
                 /\ s[k] \in DOMAIN files /\ files[s[k]] \in Range(files)
                 /\ PathAt(s, k) \in Seq(Nat) /\ PathAt(s, k) # <<>>
           /\ \A j, k \in 1 .. Len(s) : j < k => PathLess(PathAt(s, j), PathAt(s, k))
           /\ \A j, k \in 1 .. Len(s) : IsPrefix(PathAt(s, j), PathAt(s, k)) => j = k
<1>1. Len(s) = Len(files) /\ Len(files) \in Nat /\ DOMAIN files = 1 .. Len(files)
  BY StorageFacts DEF InPathOrder
<1>2. s \in Seq(DOMAIN files)
  BY DEF InPathOrder
<1>3. DOMAIN s = 1 .. Len(s) /\ \A k \in 1 .. Len(s) : s[k] \in DOMAIN files
  BY <1>2
<1>4. ASSUME NEW k \in 1 .. Len(s)
      PROVE  /\ files[s[k]] \in Range(files)
             /\ PathAt(s, k) \in Seq(Nat) /\ PathAt(s, k) # <<>>
  BY <1>3, StorageFacts DEF PathAt, Range
<1>5. \A j, k \in 1 .. Len(s) : j < k => PathLess(PathAt(s, j), PathAt(s, k))
  BY <1>1 DEF PathAt, InPathOrder
<1>6. ASSUME NEW j \in 1 .. Len(s), NEW k \in 1 .. Len(s),
             IsPrefix(PathAt(s, j), PathAt(s, k))
      PROVE  j = k
  <2>1. s[j] = s[k]
    BY <1>3, <1>6, StorageFacts DEF PathAt
  <2>2. PathAt(s, j) = PathAt(s, k)
    BY <2>1 DEF PathAt
  <2>3. ~PathLess(PathAt(s, j), PathAt(s, k)) /\ ~PathLess(PathAt(s, k), PathAt(s, j))
    BY <1>4, <2>2, LessIrreflexive
  <2>4. ~(j < k) /\ ~(k < j)
    BY <1>5, <2>3
  <2> QED
    BY <1>1, <2>4
<1> QED
  BY <1>1, <1>3, <1>4, <1>5, <1>6

\* The sizes of files add up.
LEMMA FileSums ==
    ASSUME metafile \in Metafiles
    PROVE  /\ Total(SizeOfFile, {}) = 0
           /\ \A T \in SUBSET Range(files) : Total(SizeOfFile, T) \in Nat
           /\ \A T \in SUBSET Range(files), f \in Range(files) :
                 f \notin T => Total(SizeOfFile, T \union {f}) = Total(SizeOfFile, T) + f.size
<1> DEFINE R == Range(files)
           g == SizeOfFile
           F == [i \in DOMAIN files |-> files[i]]
<1>1. F \in Surjection(DOMAIN files, R)
  BY DEF Surjection, Range
<1>2. IsFiniteSet(R)
  <2> HIDE DEF F, R
  <2> QED
    BY <1>1, StorageFacts, FS_Surjection
<1>3. g \in [R -> Nat] /\ \A f \in R : g[f] = f.size
  BY StorageFacts DEF SizeOfFile, Range
<1> HIDE DEF R, g
<1>4. /\ Total(g, {}) = 0
      /\ \A T \in SUBSET R :
            /\ Total(g, T) \in Nat
            /\ \A f \in T : Total(g, T) = g[f] + Total(g, T \ {f})
  BY <1>2, <1>3, SumFacts
<1>5. ASSUME NEW T \in SUBSET R, NEW f \in R, f \notin T
      PROVE  Total(g, T \union {f}) = Total(g, T) + f.size
  <2>1. T \union {f} \in SUBSET R /\ f \in T \union {f} /\ (T \union {f}) \ {f} = T
    BY <1>5
  <2>2. Total(g, T \union {f}) = g[f] + Total(g, T)
    BY <1>4, <2>1
  <2>3. g[f] \in Nat /\ Total(g, T) \in Nat /\ g[f] = f.size
    BY <1>3, <1>4
  <2> QED
    BY <2>2, <2>3
<1> QED
  BY <1>4, <1>5 DEF R, g

\* What AddFile does to a node.
LEMMA NodeExtended ==
    ASSUME NEW r \in Nodes, NEW m \in Nat
    PROVE  LET q == [r EXCEPT !.last = @ + 1, !.total_file_size = @ + m]
           IN  /\ q \in Nodes /\ q.padding_dir = r.padding_dir /\ q.first = r.first
               /\ q.last = r.last + 1 /\ q.total_file_size = r.total_file_size + m
<1> DEFINE w == [r EXCEPT !.last = r.last + 1]
           q == [w EXCEPT !.total_file_size = r.total_file_size + m]
<1>1. /\ r.last + 1 \in Nat /\ r.total_file_size + m \in Nat
      /\ w \in Nodes /\ w.padding_dir = r.padding_dir /\ w.first = r.first
      /\ w.last = r.last + 1
  BY DEF Nodes
<1> HIDE DEF w
<1>2. /\ q \in Nodes /\ q.padding_dir = w.padding_dir /\ q.first = w.first
      /\ q.last = w.last /\ q.total_file_size = r.total_file_size + m
  BY <1>1 DEF Nodes
<1> HIDE DEF q
<1> QED
  BY <1>1, <1>2 DEF q, w

\* One file more is added to the range of every directory above it, and to no other.
LEMMA FileAdded ==
    ASSUME metafile \in Metafiles, NEW s, InPathOrder(s), NEW i \in 1 .. Len(s),
           NEW directories, MapInv(s, i - 1, directories)
    PROVE  MapInv(s, i, AddFile(directories, i, files[s[i]]))
<1> DEFINE n == Len(s)
           p == PathAt(s, i)
           f == files[s[i]]
           new == AddFile(directories, i, f)
           old == DirectoriesOf(s, i - 1)
<1>1. /\ n \in Nat /\ i \in Nat /\ i - 1 \in Nat /\ i - 1 < i /\ f \in Range(files)
      /\ p \in Seq(Nat) /\ p # <<>> /\ f.path = p /\ s[i] \in DOMAIN files
  BY SortedFacts DEF PathAt
<1>2. f.size \in Nat /\ SizeOfFile[f] = f.size
  BY <1>1, StorageFacts DEF SizeOfFile
<1>3. \A d : d \in Ancestors(f.path) <=> d \in Seq(Nat) /\ d # <<>> /\ IsStrictPrefix(d, p)
  BY <1>1, AboveMeans
<1>4. \A k : k \in 1 .. i <=> k \in 1 .. i - 1 \/ k = i
  BY <1>1
<1>5. /\ DOMAIN directories = {<<>>} \union old
      /\ directories[<<>>] = RootNode(n)
      /\ \A d \in old : NodeOf(s, i - 1, d, directories[d])
  BY DEF MapInv
<1>6. DirectoriesOf(s, i) = old \union Ancestors(f.path)
  BY <1>3, <1>4 DEF DirectoriesOf
<1>7. <<>> \notin Ancestors(f.path) /\ <<>> \notin old
  BY <1>3 DEF DirectoriesOf
<1>8. DOMAIN new = {<<>>} \union DirectoriesOf(s, i)
  BY <1>5, <1>6 DEF AddFile
<1>9. new[<<>>] = RootNode(n)
  BY <1>5, <1>7 DEF AddFile
<1>10. ASSUME NEW d \in DirectoriesOf(s, i)
       PROVE  NodeOf(s, i, d, new[d])
  <2>1. d \in Seq(Nat) /\ d # <<>>
    BY DEF DirectoriesOf
  <2>2. CASE d \notin Ancestors(f.path)
    <3>1. d \in old /\ new[d] = directories[d]
      BY <1>5, <1>6, <2>2 DEF AddFile
    <3>2. ~IsStrictPrefix(d, p)
      BY <1>3, <2>1, <2>2
    <3> DEFINE r == directories[d]
    <3>3. NodeOf(s, i - 1, d, r)
      BY <1>5, <3>1
    <3> HIDE DEF r
    <3>4. /\ r \in Nodes /\ ~r.padding_dir /\ 1 <= r.first /\ r.first < r.last
          /\ r.last <= (i - 1) + 1 /\ r.total_file_size = Total(SizeOfFile, FilesAt(s, r))
      BY <3>3 DEF NodeOf
    <3>5. r.last <= i /\ r.last <= i + 1 /\ ~(i < r.last)
      BY <1>1, <3>4 DEF Nodes
    <3>6. \A k \in 1 .. i : IsStrictPrefix(d, PathAt(s, k)) <=> r.first <= k /\ k < r.last
      BY <1>4, <3>2, <3>3, <3>5 DEF NodeOf
    <3>7. NodeOf(s, i, d, r)
      BY <3>4, <3>5, <3>6 DEF NodeOf
    <3> QED
      BY <3>1, <3>7 DEF r
  <2>3. CASE d \in Ancestors(f.path) /\ d \notin old
    <3> DEFINE r == [first |-> i, last |-> i + 1, total_file_size |-> f.size,
                     padding_dir |-> FALSE]
    <3>1. new[d] = r
      BY <1>5, <1>7, <2>1, <2>3 DEF AddFile
    <3>2. /\ r \in Nodes /\ ~r.padding_dir /\ r.first = i /\ r.last = i + 1
          /\ r.total_file_size = f.size
      BY <1>1, <1>2 DEF Nodes
    <3> HIDE DEF r
    <3>3. \A k \in 1 .. i - 1 : ~IsStrictPrefix(d, PathAt(s, k))
      BY <2>1, <2>3 DEF DirectoriesOf
    <3>4. IsStrictPrefix(d, p) /\ i < i + 1 /\ \A k \in 1 .. i - 1 : ~(i <= k)
      BY <1>1, <1>3, <2>3
    <3>5. \A k \in 1 .. i : IsStrictPrefix(d, PathAt(s, k)) <=> r.first <= k /\ k < r.last
      BY <1>1, <1>4, <3>2, <3>3, <3>4
    <3>6. FilesAt(s, r) = {f}
      <4>1. r.first .. r.last - 1 = {i}
        BY <1>1, <3>2
      <4> QED
        BY <4>1 DEF FilesAt
    <3>7. Total(SizeOfFile, {f}) = f.size
      <4>1. {} \in SUBSET Range(files) /\ f \notin {} /\ {f} = {} \union {f}
        OBVIOUS
      <4>2. Total(SizeOfFile, {f}) = 0 + f.size
        BY <1>1, <4>1, FileSums
      <4> QED
        BY <1>2, <4>2
    <3> QED
      BY <1>1, <3>1, <3>2, <3>5, <3>6, <3>7 DEF NodeOf
  <2>4. CASE d \in Ancestors(f.path) /\ d \in old
    <3> DEFINE r == directories[d]
               q == [r EXCEPT !.last = @ + 1, !.total_file_size = @ + f.size]
    <3>1. new[d] = q
      BY <1>5, <1>7, <2>1, <2>4 DEF AddFile
    <3>2. NodeOf(s, i - 1, d, r)
      BY <1>5, <2>4
    <3>3. r \in Nodes
      BY <3>2 DEF NodeOf
    <3>4. /\ q \in Nodes /\ q.padding_dir = r.padding_dir /\ q.first = r.first
          /\ q.last = r.last + 1 /\ q.total_file_size = r.total_file_size + f.size
      BY ONLY <1>2, <3>3, NodeExtended
    <3> HIDE DEF r, q
    <3>5. /\ ~r.padding_dir /\ 1 <= r.first /\ r.first < r.last
          /\ r.last <= (i - 1) + 1 /\ r.total_file_size = Total(SizeOfFile, FilesAt(s, r))
          /\ \A k \in 1 .. i - 1 :
                IsStrictPrefix(d, PathAt(s, k)) <=> r.first <= k /\ k < r.last
      BY <3>2 DEF NodeOf
    <3>6. r.first \in Nat /\ r.last \in Nat /\ r.total_file_size \in Nat
      BY <3>3 DEF Nodes
    <3>7. IsStrictPrefix(d, p) /\ IsPrefix(d, p)
      BY <1>3, <2>4 DEF IsStrictPrefix
    \* The range ends where file i comes, since what lies between is below d too.
    <3>8. r.last = i
      <4> SUFFICES ASSUME r.last # i PROVE FALSE
        OBVIOUS
      <4>1. r.last < i /\ r.first < i /\ i - 1 \in 1 .. i - 1 /\ r.first \in 1 .. i - 1
            /\ r.first < i - 1 /\ ~(i - 1 < r.last) /\ i - 1 \in 1 .. n /\ r.first \in 1 .. n
        BY <1>1, <3>5, <3>6
      <4>2. IsStrictPrefix(d, PathAt(s, r.first))
        BY <3>5, <4>1
      <4>3. PathLess(PathAt(s, r.first), PathAt(s, i - 1)) /\ PathLess(PathAt(s, i - 1), p)
        BY <1>1, <4>1, SortedFacts
      <4>4. PathAt(s, r.first) \in Seq(Nat) /\ PathAt(s, i - 1) \in Seq(Nat)
        BY <4>1, SortedFacts
      <4>5. IsPrefix(d, PathAt(s, i - 1))
        BY <1>1, <2>1, <3>7, <4>2, <4>3, <4>4, BetweenTwo DEF IsStrictPrefix
      <4>6. d # PathAt(s, i - 1)
        <5> SUFFICES ASSUME d = PathAt(s, i - 1) PROVE FALSE
          OBVIOUS
        <5>1. IsPrefix(PathAt(s, i - 1), p) /\ i - 1 # i
          BY <1>1, <3>7
        <5> QED
          BY <4>1, <5>1, SortedFacts
      <4>7. IsStrictPrefix(d, PathAt(s, i - 1))
        BY <4>5, <4>6 DEF IsStrictPrefix
      <4> QED
        BY <3>5, <4>1, <4>7
    <3>9. q.first = r.first /\ q.last = i + 1 /\ r.first < i + 1 /\ i < i + 1 /\ r.first <= i
      BY <1>1, <3>4, <3>5, <3>6, <3>8
    <3>10. \A k \in 1 .. i : IsStrictPrefix(d, PathAt(s, k)) <=> q.first <= k /\ k < q.last
      <4>1. \A k \in 1 .. i - 1 : k < r.last /\ k < q.last
        BY <1>1, <3>8, <3>9
      <4>2. \A k \in 1 .. i - 1 :
               IsStrictPrefix(d, PathAt(s, k)) <=> q.first <= k /\ k < q.last
        BY <3>5, <3>9, <4>1
      <4> QED
        BY <1>4, <3>7, <3>9, <4>2
    <3>11. FilesAt(s, q) = FilesAt(s, r) \union {f}
      <4>1. q.last - 1 = i /\ r.last - 1 = i - 1 /\ i \in q.first .. i
        BY <1>1, <3>6, <3>8, <3>9
      <4>2. \A k : k \in q.first .. i <=> k \in r.first .. i - 1 \/ k = i
        BY <1>1, <3>6, <3>9
      <4> QED
        BY <4>1, <4>2 DEF FilesAt
    <3>12. f \notin FilesAt(s, r) /\ FilesAt(s, r) \in SUBSET Range(files)
      <4>1. \A k \in r.first .. r.last - 1 : k \in 1 .. n /\ k < i
        BY <1>1, <3>5, <3>6, <3>8
      <4>2. ASSUME NEW k \in r.first .. r.last - 1, f = files[s[k]] PROVE FALSE
        <5>1. PathAt(s, k) = p /\ PathLess(PathAt(s, k), p)
          BY <1>1, <4>1, <4>2, SortedFacts DEF PathAt
        <5> QED
          BY <1>1, <5>1, LessIrreflexive
      <4>3. \A k \in r.first .. r.last - 1 : files[s[k]] \in Range(files)
        BY <4>1, SortedFacts
      <4> QED
        BY <4>2, <4>3 DEF FilesAt
    <3>13. q.total_file_size = Total(SizeOfFile, FilesAt(s, q))
      BY <1>1, <3>4, <3>5, <3>11, <3>12, FileSums
    <3>14. NodeOf(s, i, d, q)
      <4>1. 1 <= q.first /\ q.first < q.last /\ q.last <= i + 1 /\ ~q.padding_dir
        BY <1>1, <3>4, <3>5, <3>9
      <4> QED
        BY <3>4, <3>10, <3>13, <4>1 DEF NodeOf
    <3> QED
      BY <3>1, <3>14
  <2> QED
    BY <1>6, <2>2, <2>3, <2>4
<1> QED
  BY <1>8, <1>9, <1>10 DEF MapInv

\* create_directory_map keeps for every directory its range and its size.
LEMMA DirectoryMap ==
    ASSUME metafile \in Metafiles, NEW s, InPathOrder(s)
    PROVE  MapInv(s, Len(s), create_directory_map(s))
<1> DEFINE n == Len(s)
           A == After(s, n)
           N == {i \in Nat : i <= n => MapInv(s, i, A[i])}
<1>1. create_directory_map(s) = A[n]
  BY DEF create_directory_map, After, AfterTurn
<1>2. n \in Nat
  BY SortedFacts
<1> HIDE DEF n
<1>3. /\ A[0] = [root \in {<<>>} |-> RootNode(Len(s))]
      /\ \A i \in 1 .. n : A[i] = AddFile(A[i - 1], i, files[s[i]])
  BY <1>2, AfterExists
<1> HIDE DEF A
<1>4. MapInv(s, 0, A[0])
  <2>1. DirectoriesOf(s, 0) = {}
    BY DEF DirectoriesOf
  <2> QED
    BY <1>3, <2>1 DEF MapInv
<1>5. ASSUME NEW i \in Nat, i <= n => MapInv(s, i, A[i])
      PROVE  i + 1 <= n => MapInv(s, i + 1, A[i + 1])
  <2> HAVE i + 1 <= n
  <2>1. i <= n /\ i + 1 \in 1 .. n /\ (i + 1) - 1 = i
    BY <1>2
  <2>2. A[i + 1] = AddFile(A[i], i + 1, files[s[i + 1]])
    BY <1>3, <2>1
  <2> QED
    BY <1>5, <2>1, <2>2, FileAdded DEF n
<1>6. 0 \in N /\ \A i \in Nat : i \in N => i + 1 \in N
  BY <1>4, <1>5
<1>7. n \in N
  <2> HIDE DEF N
  <2> QED
    BY <1>2, <1>6, AllNumbers
<1>8. n <= n
  BY <1>2
<1>9. MapInv(s, n, A[n])
  BY <1>7, <1>8
<1> QED
  BY <1>1, <1>9 DEF n

\* What the constructor of filetree_index leaves.
TheIndex(padding) ==
    [indices |-> create_sorted_file_indices,
     directories |->
        IF padding THEN create_directory_map(create_sorted_file_indices)
        ELSE remove_padding_file_only_directories(
                create_directory_map(create_sorted_file_indices))]

\* index is the one the printer was made with.
Indexed == metafile \in Metafiles /\ list_padding \in BOOLEAN /\ index = TheIndex(list_padding)

\* The sorted paths, the directories and their ranges.
SortedPath(k) == files[index.indices[k]].path

\* The first place of a directory in the index.
FirstOf(d) == index.directories[d].first

\* The place after the last one of a directory.
LastOf(d) == index.directories[d].last

\* The files below a directory.
FilesBelow(d) == {f \in Range(files) : IsPrefix(d, f.path)}

\* The places of the index: a file at each, in the order of the paths.
LEMMA PlacesFacts ==
    ASSUME Indexed
    PROVE  /\ Len(files) \in Nat
           /\ \A k \in 1 .. Len(files) :
                 /\ index.indices[k] \in DOMAIN files
                 /\ SortedPath(k) \in Seq(Nat) /\ SortedPath(k) # <<>>
           /\ \A i \in DOMAIN files : \E k \in 1 .. Len(files) : index.indices[k] = i
           /\ \A j, k \in 1 .. Len(files) : j < k => PathLess(SortedPath(j), SortedPath(k))
           /\ \A j, k \in 1 .. Len(files) :
                 IsPrefix(SortedPath(j), SortedPath(k)) => j = k
<1> DEFINE s == create_sorted_file_indices
<1>1. index.indices = s /\ metafile \in Metafiles
  BY DEF Indexed, TheIndex
<1>2. InPathOrder(s)
  BY <1>1, SortedIndices
<1> HIDE DEF s
<1>3. \A k : SortedPath(k) = PathAt(s, k)
  BY <1>1 DEF SortedPath, PathAt
<1>4. DOMAIN files = 1 .. Len(files) /\ \A i \in DOMAIN files : \E k \in DOMAIN files : s[k] = i
  BY <1>1, <1>2, StorageFacts DEF InPathOrder
<1> QED
  BY <1>1, <1>2, <1>3, <1>4, SortedFacts

\* The directories of the index: the range of each holds the files below it, and its size
\* is theirs.
LEMMA DirectoryFacts ==
    ASSUME Indexed, NEW d
    PROVE  /\ d \in DOMAIN index.directories
                <=> d = <<>> \/ (/\ d \in Seq(Nat) /\ d # <<>>
                                 /\ \E k \in 1 .. Len(files) : IsStrictPrefix(d, SortedPath(k)))
           /\ d \in DOMAIN index.directories =>
                /\ d \in Seq(Nat)
                /\ FirstOf(d) \in Nat /\ LastOf(d) \in Nat
                /\ 1 <= FirstOf(d) /\ FirstOf(d) <= LastOf(d) /\ LastOf(d) <= Len(files) + 1
                /\ \A k \in 1 .. Len(files) :
                      IsStrictPrefix(d, SortedPath(k)) <=> FirstOf(d) <= k /\ k < LastOf(d)
                /\ d # <<>> =>
                      /\ index.directories[d].padding_dir
                            <=> ~list_padding /\ is_padding_directory(d)
                      /\ get_directory_size(d) = Total(SizeOfFile, FilesBelow(d))
<1> DEFINE s == create_sorted_file_indices
           D == create_directory_map(s)
           E == index.directories
           n == Len(files)
<1>1. /\ index.indices = s /\ metafile \in Metafiles /\ list_padding \in BOOLEAN
      /\ E = IF list_padding THEN D ELSE remove_padding_file_only_directories(D)
  BY DEF Indexed, TheIndex
<1>2. InPathOrder(s)
  BY <1>1, SortedIndices
<1> HIDE DEF s
<1>3. Len(s) = n /\ n \in Nat
  BY <1>1, <1>2, SortedFacts
<1>4. MapInv(s, n, D)
  BY <1>1, <1>2, <1>3, DirectoryMap
<1> HIDE DEF D, E
<1>5. \A k : SortedPath(k) = PathAt(s, k)
  BY <1>1 DEF SortedPath, PathAt
<1>6. DOMAIN E = DOMAIN D
  BY <1>1 DEF remove_padding_file_only_directories
<1>7. d \in DOMAIN E
         <=> d = <<>> \/ (/\ d \in Seq(Nat) /\ d # <<>>
                          /\ \E k \in 1 .. n : IsStrictPrefix(d, SortedPath(k)))
  BY <1>4, <1>5, <1>6 DEF MapInv, DirectoriesOf
<1>8. ASSUME d = <<>>
      PROVE  /\ d \in Seq(Nat) /\ E[d].first = 1 /\ E[d].last = n + 1
             /\ \A k \in 1 .. n : IsStrictPrefix(d, SortedPath(k))
  <2>1. D[d] = [first |-> 1, last |-> n + 1,
                total_file_size |-> SizeOf(DOMAIN files), padding_dir |-> FALSE]
    BY <1>3, <1>4, <1>8 DEF MapInv, RootNode
  <2>2. E[d] = D[d] \/ E[d] = [D[d] EXCEPT !.padding_dir = is_padding_directory(d)]
    BY <1>1, <1>6, <1>7, <1>8 DEF remove_padding_file_only_directories
  <2>3. E[d].first = 1 /\ E[d].last = n + 1
    BY <2>1, <2>2
  <2>4. d \in Seq(Nat) /\ Len(d) = 0
    BY <1>8
  <2>5. ASSUME NEW k \in 1 .. n PROVE IsStrictPrefix(d, SortedPath(k))
    <3>1. SortedPath(k) \in Seq(Nat) /\ SortedPath(k) # <<>>
      BY PlacesFacts
    <3>2. Len(SortedPath(k)) > 0
      BY <3>1
    <3>3. \A i \in 1 .. 0 : FALSE
      OBVIOUS
    <3> QED
      BY <2>4, <3>1, <3>2, <3>3, PrefixMeans
  <2> QED
    BY <2>3, <2>4, <2>5
<1>9. ASSUME d \in DOMAIN E, d # <<>>
      PROVE  /\ d \in Seq(Nat) /\ NodeOf(s, n, d, D[d])
             /\ E[d].first = D[d].first /\ E[d].last = D[d].last
             /\ E[d].total_file_size = D[d].total_file_size
             /\ E[d].padding_dir <=> ~list_padding /\ is_padding_directory(d)
  <2>1. d \in DirectoriesOf(s, n) /\ d \in DOMAIN D
    BY <1>4, <1>6, <1>9 DEF MapInv
  <2>2. d \in Seq(Nat) /\ NodeOf(s, n, d, D[d])
    BY <1>4, <2>1 DEF MapInv, DirectoriesOf
  <2> DEFINE r == D[d]
  <2>3. r \in Nodes /\ ~r.padding_dir
    BY <2>2 DEF NodeOf
  <2>4. list_padding => E[d] = r
    BY <1>1
  <2>5. ~list_padding => E[d] = [r EXCEPT !.padding_dir = is_padding_directory(d)]
    BY <1>1, <2>1 DEF remove_padding_file_only_directories
  <2> DEFINE b == is_padding_directory(d)
  <2>6. b \in BOOLEAN
    BY DEF is_padding_directory
  <2> HIDE DEF r, b
  <2> DEFINE w == [r EXCEPT !.padding_dir = b]
  <2>7. /\ w.first = r.first /\ w.last = r.last /\ w.total_file_size = r.total_file_size
        /\ w.padding_dir <=> b
    BY <2>3, <2>6 DEF Nodes
  <2>8. ~list_padding => E[d] = w
    BY <2>5 DEF b
  <2> HIDE DEF w
  <2>9. /\ E[d].first = r.first /\ E[d].last = r.last
        /\ E[d].total_file_size = r.total_file_size
    BY <2>4, <2>7, <2>8
  <2>10. E[d].padding_dir <=> ~list_padding /\ b
    BY <1>1, <2>3, <2>4, <2>7, <2>8
  <2> QED
    BY <2>2, <2>9, <2>10 DEF r, b
<1>10. ASSUME d \in DOMAIN E, d # <<>>
       PROVE  FilesAt(s, D[d]) = FilesBelow(d)
  <2> DEFINE r == D[d]
  <2>1. NodeOf(s, n, d, r) /\ d \in Seq(Nat)
    BY <1>9, <1>10
  <2> HIDE DEF r
  <2>2. /\ r.first \in Nat /\ r.last \in Nat /\ 1 <= r.first /\ r.last <= n + 1
        /\ \A k \in 1 .. n : IsStrictPrefix(d, PathAt(s, k)) <=> r.first <= k /\ k < r.last
    BY <2>1 DEF NodeOf, Nodes
  <2>3. \A k : k \in r.first .. r.last - 1 <=> k \in 1 .. n /\ r.first <= k /\ k < r.last
    BY <1>3, <2>2
  <2>4. \A k : k \in r.first .. r.last - 1 <=> k \in 1 .. n /\ IsStrictPrefix(d, PathAt(s, k))
    BY <2>2, <2>3
  <2>5. \A k \in 1 .. n : files[s[k]] \in Range(files) /\ PathAt(s, k) = files[s[k]].path
    BY <1>1, <1>2, <1>3, SortedFacts DEF PathAt
  <2>6. ASSUME NEW f \in Range(files)
        PROVE  IsPrefix(d, f.path) => \E k \in 1 .. n : f = files[s[k]] /\ IsStrictPrefix(d, PathAt(s, k))
    <3> HAVE IsPrefix(d, f.path)
    <3>1. PICK i \in DOMAIN files : f = files[i]
      BY DEF Range
    <3>2. PICK k \in 1 .. n : s[k] = i
      BY <1>1, PlacesFacts DEF Indexed
    <3>3. d # f.path
      <4> SUFFICES ASSUME d = f.path PROVE FALSE
        OBVIOUS
      <4>1. PICK j \in 1 .. n : IsStrictPrefix(d, SortedPath(j))
        BY <1>7, <1>10
      <4>2. IsStrictPrefix(SortedPath(k), SortedPath(j))
        BY <1>5, <3>1, <3>2, <4>1 DEF PathAt
      <4>3. j = k
        BY <4>2, PlacesFacts DEF IsStrictPrefix
      <4> QED
        BY <4>2, <4>3 DEF IsStrictPrefix
    <3> QED
      BY <2>5, <3>1, <3>2, <3>3 DEF IsStrictPrefix
  <2>7. ASSUME NEW k \in 1 .. n, IsStrictPrefix(d, PathAt(s, k))
        PROVE  files[s[k]] \in FilesBelow(d)
    BY <2>5, <2>7 DEF FilesBelow, IsStrictPrefix
  <2> QED
    BY <2>4, <2>6, <2>7 DEF FilesAt, FilesBelow, r
<1>11. ASSUME d \in DOMAIN E
       PROVE  /\ d \in Seq(Nat)
              /\ E[d].first \in Nat /\ E[d].last \in Nat
              /\ 1 <= E[d].first /\ E[d].first <= E[d].last /\ E[d].last <= n + 1
              /\ \A k \in 1 .. n :
                    IsStrictPrefix(d, SortedPath(k)) <=> E[d].first <= k /\ k < E[d].last
  <2>1. CASE d = <<>>
    <3>1. \A k \in 1 .. n : 1 <= k /\ k < n + 1
      BY <1>3
    <3> QED
      BY <1>3, <1>8, <2>1, <3>1
  <2>2. CASE d # <<>>
    <3> DEFINE r == D[d]
    <3>1. NodeOf(s, n, d, r) /\ d \in Seq(Nat) /\ E[d].first = r.first /\ E[d].last = r.last
      BY <1>9, <1>11, <2>2
    <3> HIDE DEF r
    <3>2. /\ r.first \in Nat /\ r.last \in Nat /\ 1 <= r.first /\ r.first < r.last
          /\ r.last <= n + 1
          /\ \A k \in 1 .. n : IsStrictPrefix(d, PathAt(s, k)) <=> r.first <= k /\ k < r.last
      BY <3>1 DEF NodeOf, Nodes
    <3>3. r.first <= r.last
      BY <3>2
    <3> QED
      BY <1>5, <3>1, <3>2, <3>3
  <2> QED
    BY <2>1, <2>2
<1>12. ASSUME d \in DOMAIN E, d # <<>>
       PROVE  E[d].total_file_size = Total(SizeOfFile, FilesBelow(d))
  BY <1>9, <1>10, <1>12 DEF NodeOf
<1> QED
  BY <1>7, <1>9, <1>11, <1>12 DEF E, n, FirstOf, LastOf, get_directory_size

-----------------------------------------------------------------------------
(* The content of a directory *)

\* q is the path of a file that is shown, or of a directory above one.
Visible(q) ==
    /\ q \in Seq(Nat) /\ q # <<>>
    /\ \E i \in DOMAIN files :
          (list_padding \/ ~files[i].pad) /\ IsPrefix(q, files[i].path)

\* What list_directory_content returns: names, with the number of the file or 0.
Element == [name : Nat, entry : Nat]

\* e is an entry of directory d: a file that is shown, or a directory above one.
EntryOk(d, e) ==
    /\ Visible(Append(d, e.name))
    /\ e.entry # 0 =>
          /\ e.entry \in DOMAIN files /\ files[e.entry].path = Append(d, e.name)
          /\ list_padding \/ ~files[e.entry].pad
    /\ e.entry = 0 => Append(d, e.name) \in DOMAIN index.directories

\* The entries of d for its places from i on: all that are shown, in the order of
\* their names.
ContentFrom(d, i, c) ==
    /\ c \in Seq(Element)
    /\ \A j \in 1 .. Len(c) :
          /\ EntryOk(d, c[j])
          /\ \E k \in i .. LastOf(d) - 1 : NameIn(d, SortedPath(k)) = c[j].name
    /\ \A j, k \in 1 .. Len(c) : j < k => c[j].name < c[k].name
    /\ \A k \in i .. LastOf(d) - 1 :
          Visible(Append(d, NameIn(d, SortedPath(k))))
             => \E j \in 1 .. Len(c) : c[j].name = NameIn(d, SortedPath(k))

\* The entries of d: all that are shown, in the order of their names.
IsContent(d, c) ==
    /\ c \in Seq(Element)
    /\ \A j \in 1 .. Len(c) : EntryOk(d, c[j])
    /\ \A j, k \in 1 .. Len(c) : j < k => c[j].name < c[k].name
    /\ \A x \in Nat : Visible(Append(d, x)) => \E j \in 1 .. Len(c) : c[j].name = x

\* list_directory_content, turn by turn.
ContentTurn(d, f, i) ==
    IF i = LastOf(d) THEN <<>>
    ELSE LET file == index.indices[i]
             rest == SubSeq(files[file].path, Len(d) + 1, Len(files[file].path))
             below == index.directories[Append(d, rest[1])]
         IN IF Len(rest) > 1
            THEN (IF below.padding_dir
                  THEN <<>> ELSE <<[name |-> rest[1], entry |-> 0]>>)
                    \o f[below.last]
            ELSE (IF ~list_padding /\ files[file].pad
                  THEN <<>> ELSE <<[name |-> rest[1], entry |-> file]>>)
                    \o f[i + 1]

\* The entries of a directory from every one of its places on.
Contents(d) == CHOOSE f : f = [i \in FirstOf(d) .. LastOf(d) |-> ContentTurn(d, f, i)]

\* The name at place i of d, what a turn lists for it and the next place it looks at.
NameAt(d, i) == NameIn(d, SortedPath(i))

\* Whether the entry at a place of a directory is a directory too.
IsDirectoryAt(d, i) == Len(SortedPath(i)) > Len(d) + 1

\* The entry at a place, which a hidden directory of padding files does not have.
HeadAt(d, i) ==
    IF IsDirectoryAt(d, i)
    THEN IF index.directories[Append(d, NameAt(d, i))].padding_dir
         THEN <<>> ELSE <<[name |-> NameAt(d, i), entry |-> 0]>>
    ELSE IF ~list_padding /\ files[index.indices[i]].pad
         THEN <<>> ELSE <<[name |-> NameAt(d, i), entry |-> index.indices[i]]>>

\* The place of the next entry.
NextAt(d, i) == IF IsDirectoryAt(d, i) THEN LastOf(Append(d, NameAt(d, i))) ELSE i + 1

\* What list_directory_content computes is its first turn.
LEMMA ContentByTurns ==
    \A d : list_directory_content(d) = Contents(d)[FirstOf(d)]
  BY DEF list_directory_content, Contents, ContentTurn, FirstOf, LastOf

\* A path without its first elements.
LEMMA RestFacts ==
    ASSUME NEW p \in Seq(Nat), NEW n \in Nat, n + 1 <= Len(p)
    PROVE  /\ SubSeq(p, n + 1, Len(p)) \in Seq(Nat)
           /\ Len(SubSeq(p, n + 1, Len(p))) = Len(p) - n
           /\ SubSeq(p, n + 1, Len(p))[1] = p[n + 1]
<1>1. Len(p) \in Nat /\ n + 1 \in 1 .. Len(p) + 1 /\ Len(p) \in n + 1 - 1 .. Len(p)
  OBVIOUS
<1>2. \A a, b \in Nat : a + 1 <= b => b - (a + 1) + 1 = b - a /\ 1 \in 1 .. b - (a + 1) + 1
                                   /\ (a + 1) + 1 - 1 = a + 1
  OBVIOUS
<1>3. /\ SubSeq(p, n + 1, Len(p)) \in Seq(Nat)
      /\ Len(SubSeq(p, n + 1, Len(p))) = Len(p) - (n + 1) + 1
      /\ \A i \in 1 .. Len(p) - (n + 1) + 1 : SubSeq(p, n + 1, Len(p))[i] = p[(n + 1) + i - 1]
  BY <1>1, SubSeqProperties
<1> QED
  BY <1>1, <1>2, <1>3

\* The places of a directory.
LEMMA PlaceOf ==
    ASSUME Indexed, NEW d \in DOMAIN index.directories,
           NEW i \in FirstOf(d) .. LastOf(d) - 1
    PROVE  /\ i \in 1 .. Len(files) /\ d \in Seq(Nat) /\ SortedPath(i) \in Seq(Nat)
           /\ index.indices[i] \in DOMAIN files
           /\ IsStrictPrefix(d, SortedPath(i)) /\ NameAt(d, i) \in Nat
           /\ Len(d) \in Nat /\ Len(SortedPath(i)) \in Nat /\ Len(d) + 1 <= Len(SortedPath(i))
           /\ IsPrefix(Append(d, NameAt(d, i)), SortedPath(i))
<1>1. /\ d \in Seq(Nat) /\ FirstOf(d) \in Nat /\ LastOf(d) \in Nat
      /\ 1 <= FirstOf(d) /\ FirstOf(d) <= LastOf(d) /\ LastOf(d) <= Len(files) + 1
      /\ \A k \in 1 .. Len(files) :
            IsStrictPrefix(d, SortedPath(k)) <=> FirstOf(d) <= k /\ k < LastOf(d)
  BY DirectoryFacts
<1>2. Len(files) \in Nat
  BY PlacesFacts
<1>3. i \in 1 .. Len(files) /\ FirstOf(d) <= i /\ i < LastOf(d)
  BY <1>1, <1>2
<1>4. IsStrictPrefix(d, SortedPath(i)) /\ SortedPath(i) \in Seq(Nat)
      /\ index.indices[i] \in DOMAIN files
  BY <1>1, <1>3, PlacesFacts
<1>5. /\ NameAt(d, i) \in Nat /\ Len(d) + 1 <= Len(SortedPath(i))
      /\ IsPrefix(Append(d, NameAt(d, i)), SortedPath(i))
  BY <1>1, <1>4, NameFacts DEF NameAt
<1>6. Len(d) \in Nat /\ Len(SortedPath(i)) \in Nat
  BY <1>1, <1>4, PathFacts
<1> QED
  BY <1>1, <1>3, <1>4, <1>5, <1>6

\* A turn lists what is at a place and goes on at the next.
LEMMA TurnFacts ==
    ASSUME Indexed, NEW d \in DOMAIN index.directories, NEW f,
           NEW i \in FirstOf(d) .. LastOf(d) - 1
    PROVE  ContentTurn(d, f, i) = HeadAt(d, i) \o f[NextAt(d, i)]
<1>1. /\ d \in Seq(Nat) /\ SortedPath(i) \in Seq(Nat) /\ Len(d) + 1 <= Len(SortedPath(i))
      /\ Len(d) \in Nat /\ Len(SortedPath(i)) \in Nat
  BY PlaceOf
<1> DEFINE p == SortedPath(i)
           rest == SubSeq(p, Len(d) + 1, Len(p))
<1>2. rest[1] = NameAt(d, i) /\ Len(rest) = Len(p) - Len(d)
  BY <1>1, RestFacts DEF NameAt, NameIn
<1>3. Len(rest) > 1 <=> IsDirectoryAt(d, i)
  <2>1. \A m, n \in Nat : n - m > 1 <=> n > m + 1
    OBVIOUS
  <2> QED
    BY ONLY <1>1, <1>2, <2>1 DEF IsDirectoryAt
<1>4. i # LastOf(d)
  BY DirectoryFacts
<1>5. files[index.indices[i]].path = p
  BY DEF SortedPath
<1> HIDE DEF p
<1>6. ContentTurn(d, f, i) =
        LET below == index.directories[Append(d, rest[1])]
        IN IF Len(rest) > 1
            THEN (IF below.padding_dir
                  THEN <<>> ELSE <<[name |-> rest[1], entry |-> 0]>>)
                    \o f[below.last]
            ELSE (IF ~list_padding /\ files[index.indices[i]].pad
                  THEN <<>> ELSE <<[name |-> rest[1], entry |-> index.indices[i]]>>)
                    \o f[i + 1]
  BY <1>4, <1>5, Zenon DEF ContentTurn
<1> HIDE DEF rest
<1> QED
  BY <1>2, <1>3, <1>6 DEF HeadAt, NextAt, LastOf

\* The next place is further on, and the places before it hold the same name, those
\* after it later ones.
LEMMA NextFacts ==
    ASSUME Indexed, NEW d \in DOMAIN index.directories,
           NEW i \in FirstOf(d) .. LastOf(d) - 1
    PROVE  /\ NextAt(d, i) \in i + 1 .. LastOf(d)
           /\ \A k \in i .. LastOf(d) - 1 :
                 /\ k < NextAt(d, i) => NameAt(d, k) = NameAt(d, i)
                 /\ k >= NextAt(d, i) => NameAt(d, i) < NameAt(d, k)
           /\ IsDirectoryAt(d, i) => Append(d, NameAt(d, i)) \in DOMAIN index.directories
           /\ ~IsDirectoryAt(d, i) => SortedPath(i) = Append(d, NameAt(d, i))
<1> DEFINE x == NameAt(d, i)
           e == Append(d, x)
           F == FirstOf(d)
           L == LastOf(d)
<1>1. /\ i \in 1 .. Len(files) /\ d \in Seq(Nat) /\ SortedPath(i) \in Seq(Nat)
      /\ IsStrictPrefix(d, SortedPath(i)) /\ x \in Nat
      /\ Len(d) \in Nat /\ Len(SortedPath(i)) \in Nat /\ Len(d) + 1 <= Len(SortedPath(i))
      /\ IsPrefix(e, SortedPath(i))
  BY PlaceOf
<1>2. e \in Seq(Nat) /\ Len(e) = Len(d) + 1 /\ IsStrictPrefix(d, e) /\ e # <<>>
  <2>1. e \in Seq(Nat) /\ Len(e) = Len(d) + 1 /\ IsStrictPrefix(d, e)
    BY <1>1, AppendedPath
  <2>2. Len(<<>>) = 0 /\ \A n \in Nat : n + 1 # 0
    OBVIOUS
  <2> QED
    BY ONLY <1>1, <2>1, <2>2
<1>3. /\ F \in Nat /\ L \in Nat /\ 1 <= F /\ F <= L /\ L <= Len(files) + 1
      /\ Len(files) \in Nat
      /\ \A k \in 1 .. Len(files) : IsStrictPrefix(d, SortedPath(k)) <=> F <= k /\ k < L
  BY DirectoryFacts, PlacesFacts
<1> HIDE DEF F, L
<1>4. \A k \in i .. L - 1 : k \in F .. L - 1 /\ k \in 1 .. Len(files)
  BY <1>1, <1>3 DEF F, L
<1>5. ASSUME NEW k \in i .. L - 1
      PROVE  /\ SortedPath(k) \in Seq(Nat) /\ NameAt(d, k) \in Nat /\ x <= NameAt(d, k)
             /\ IsPrefix(e, SortedPath(k)) <=> NameAt(d, k) = x
  <2>1. SortedPath(k) \in Seq(Nat) /\ NameAt(d, k) \in Nat /\ IsStrictPrefix(d, SortedPath(k))
    BY <1>4, PlaceOf DEF F, L
  <2>2. x <= NameAt(d, k)
    <3>1. CASE k = i
      BY <1>1, <3>1
    <3>2. CASE k # i
      <4>1. PathLess(SortedPath(i), SortedPath(k))
        <5>1. i < k
          BY <1>1, <1>3, <3>2
        <5> QED
          BY <1>1, <1>4, <5>1, PlacesFacts
      <4> QED
        BY <1>1, <2>1, <4>1, NamesInOrder DEF NameAt
    <3> QED
      BY <3>1, <3>2
  <2>3. IsPrefix(e, SortedPath(k)) <=> NameAt(d, k) = x
    BY <1>1, <2>1, BelowEntry DEF NameAt
  <2> QED
    BY <2>1, <2>2, <2>3
<1>6. CASE IsDirectoryAt(d, i)
  <2>1. IsStrictPrefix(e, SortedPath(i))
    <3>1. Len(e) # Len(SortedPath(i))
      BY <1>1, <1>2, <1>6 DEF IsDirectoryAt
    <3> QED
      BY <1>1, <1>2, <3>1 DEF IsStrictPrefix
  <2>2. e \in DOMAIN index.directories
    BY <1>1, <1>2, <2>1, DirectoryFacts
  <2>3. /\ FirstOf(e) \in Nat /\ LastOf(e) \in Nat
        /\ 1 <= FirstOf(e) /\ FirstOf(e) <= LastOf(e) /\ LastOf(e) <= Len(files) + 1
        /\ \A k \in 1 .. Len(files) :
              IsStrictPrefix(e, SortedPath(k)) <=> FirstOf(e) <= k /\ k < LastOf(e)
    BY <2>2, DirectoryFacts
  <2>4. NextAt(d, i) = LastOf(e)
    BY <1>6 DEF NextAt
  <2>5. FirstOf(e) <= i /\ i < LastOf(e)
    BY <1>1, <2>1, <2>3
  <2>6. ASSUME NEW k \in 1 .. Len(files), IsStrictPrefix(e, SortedPath(k))
        PROVE  IsStrictPrefix(d, SortedPath(k))
    <3>1. SortedPath(k) \in Seq(Nat)
      BY PlacesFacts
    <3> QED
      BY <1>1, <1>2, <2>6, <3>1, PrefixTransitive DEF IsStrictPrefix
  <2> DEFINE N == LastOf(e)
  <2>7. N <= L
    <3>1. N - 1 \in 1 .. Len(files) /\ FirstOf(e) <= N - 1 /\ N - 1 < N
      BY <1>1, <1>3, <2>3, <2>5
    <3>2. N - 1 < L
      BY <1>3, <2>3, <2>6, <3>1
    <3> QED
      BY <1>3, <2>3, <3>2
  <2>8. N \in i + 1 .. L
    BY <1>1, <1>3, <2>3, <2>5, <2>7
  <2>9. ASSUME NEW k \in i .. L - 1
        PROVE  /\ k < N => NameAt(d, k) = x
               /\ k >= N => x < NameAt(d, k)
    <3>1. k \in 1 .. Len(files) /\ FirstOf(e) <= k /\ k \in Nat
      BY <1>1, <1>4, <2>3, <2>5
    <3>2. k < N => NameAt(d, k) = x
      BY <1>5, <2>3, <3>1 DEF IsStrictPrefix
    <3>3. k >= N => ~IsStrictPrefix(e, SortedPath(k))
      BY <2>3, <3>1
    <3>4. e # SortedPath(k)
      <4> SUFFICES ASSUME e = SortedPath(k) PROVE FALSE
        OBVIOUS
      <4>1. IsPrefix(SortedPath(k), SortedPath(i))
        BY <1>1
      <4>2. k = i
        BY <1>1, <3>1, <4>1, PlacesFacts
      <4> QED
        BY <2>1, <4>2 DEF IsStrictPrefix
    <3>5. k >= N => NameAt(d, k) # x
      BY <1>5, <3>3, <3>4 DEF IsStrictPrefix
    <3> QED
      BY <1>1, <1>5, <3>2, <3>5
  <2> QED
    BY <1>6, <2>2, <2>4, <2>8, <2>9 DEF L
<1>7. CASE ~IsDirectoryAt(d, i)
  <2>1. NextAt(d, i) = i + 1
    BY <1>7 DEF NextAt
  <2>2. SortedPath(i) = e
    <3>1. Len(e) = Len(SortedPath(i))
      BY <1>1, <1>2, <1>7 DEF IsDirectoryAt
    <3>2. ~(Len(e) < Len(SortedPath(i)))
      BY <1>1, <3>1
    <3>3. ~IsStrictPrefix(e, SortedPath(i))
      BY <1>1, <1>2, <3>2, PrefixMeans
    <3> QED
      BY <1>1, <3>3 DEF IsStrictPrefix
  <2>3. i + 1 \in i + 1 .. L
    BY <1>1, <1>3 DEF L, F
  <2>4. ASSUME NEW k \in i .. L - 1
        PROVE  /\ k < i + 1 => NameAt(d, k) = x
               /\ k >= i + 1 => x < NameAt(d, k)
    <3>1. k < i + 1 => k = i
      BY <1>1, <1>3
    <3>2. ASSUME k >= i + 1 PROVE x < NameAt(d, k)
      <4>1. ~IsPrefix(e, SortedPath(k))
        <5>1. k # i
          BY <1>1, <3>2
        <5> QED
          BY <1>1, <1>4, <2>2, <5>1, PlacesFacts
      <4> QED
        BY <1>1, <1>5, <4>1
    <3> QED
      BY <3>1, <3>2
  <2> QED
    BY <1>7, <2>1, <2>2, <2>3, <2>4 DEF L
<1> QED
  BY <1>6, <1>7

\* The root is above every file, so that all entries but hidden ones are in a content.
LEMMA HeadFacts ==
    ASSUME Indexed, NEW d \in DOMAIN index.directories,
           NEW i \in FirstOf(d) .. LastOf(d) - 1
    PROVE  \/ HeadAt(d, i) = <<>> /\ ~Visible(Append(d, NameAt(d, i)))
           \/ \E e \in Element :
                 HeadAt(d, i) = <<e>> /\ e.name = NameAt(d, i) /\ EntryOk(d, e)
<1> DEFINE x == NameAt(d, i)
           e == Append(d, x)
           f == index.indices[i]
<1>1. /\ i \in 1 .. Len(files) /\ d \in Seq(Nat) /\ SortedPath(i) \in Seq(Nat)
      /\ f \in DOMAIN files /\ x \in Nat /\ IsPrefix(e, SortedPath(i))
  BY PlaceOf
<1>2. e \in Seq(Nat) /\ e # <<>>
  <2>1. e \in Seq(Nat) /\ Len(e) = Len(d) + 1 /\ Len(d) \in Nat
    BY <1>1, AppendedPath, PathFacts
  <2>2. Len(<<>>) = 0 /\ \A n \in Nat : n + 1 # 0
    OBVIOUS
  <2> QED
    BY ONLY <2>1, <2>2
<1>3. files[f].path = SortedPath(i)
  BY DEF SortedPath
<1>4. /\ IsDirectoryAt(d, i) => e \in DOMAIN index.directories
      /\ ~IsDirectoryAt(d, i) => SortedPath(i) = e
  BY NextFacts
<1>5. list_padding \in BOOLEAN /\ metafile \in Metafiles
  BY DEF Indexed
<1>6. DOMAIN files = 1 .. Len(files) /\ Len(files) \in Nat
      /\ \A j \in DOMAIN files : files[j].pad \in BOOLEAN /\ files[j].path \in Seq(Nat)
  BY <1>5, StorageFacts
<1>7. f \in Nat /\ f # 0
  BY <1>1, <1>6
<1> HIDE DEF f
<1>8. CASE IsDirectoryAt(d, i)
  <2> DEFINE g == [name |-> x, entry |-> 0]
             b == index.directories[e].padding_dir
  <2>1. b <=> ~list_padding /\ is_padding_directory(e)
    BY <1>2, <1>4, <1>8, DirectoryFacts
  <2>2. HeadAt(d, i) = IF b THEN <<>> ELSE <<g>>
    BY <1>8 DEF HeadAt
  <2>3. \A j \in DOMAIN files : IsPrefix(e, files[j].path) => Under(e, files[j].path)
    <3> SUFFICES ASSUME NEW j \in DOMAIN files, e = files[j].path PROVE FALSE
      BY DEF Under, IsStrictPrefix
    <3>1. PICK k \in 1 .. Len(files) : IsStrictPrefix(e, SortedPath(k))
      BY <1>2, <1>4, <1>8, DirectoryFacts
    <3>2. PICK l \in 1 .. Len(files) : index.indices[l] = j
      BY PlacesFacts
    <3>3. SortedPath(l) = e
      BY <3>2 DEF SortedPath
    <3>4. l = k
      BY <3>1, <3>3, PlacesFacts DEF IsStrictPrefix
    <3> QED
      BY <3>1, <3>3, <3>4 DEF IsStrictPrefix
  <2>4. Visible(e) <=> ~b
    <3>1. CASE list_padding
      BY <1>1, <1>2, <1>3, <2>1, <3>1 DEF Visible
    <3>2. CASE ~list_padding
      <4>1. Visible(e) <=> \E j \in DOMAIN files : ~files[j].pad /\ Under(e, files[j].path)
        BY <1>2, <2>3, <3>2 DEF Visible, Under, IsStrictPrefix
      <4>2. is_padding_directory(e)
              <=> \A j \in DOMAIN files : Under(e, files[j].path) => files[j].pad
        BY DEF is_padding_directory
      <4> QED
        BY <2>1, <3>2, <4>1, <4>2
    <3> QED
      BY <1>5, <3>1, <3>2
  <2>5. g \in Element /\ g.name = x /\ g.entry = 0
    BY <1>1 DEF Element
  <2> HIDE DEF g, b
  <2>6. Visible(e) => EntryOk(d, g)
    BY <1>4, <1>8, <2>5 DEF EntryOk
  <2> QED
    BY <2>2, <2>4, <2>5, <2>6
<1>9. CASE ~IsDirectoryAt(d, i)
  <2> DEFINE g == [name |-> x, entry |-> f]
  <2>2. HeadAt(d, i) = IF ~list_padding /\ files[f].pad THEN <<>> ELSE <<g>>
    BY <1>9 DEF HeadAt, f
  <2>3. \A j \in DOMAIN files : IsPrefix(e, files[j].path) => j = f
    BY <1>1, <1>3, <1>4, <1>5, <1>9, StorageFacts
  <2>4. Visible(e) <=> list_padding \/ ~files[f].pad
    BY <1>1, <1>2, <1>3, <2>3 DEF Visible
  <2>5. g \in Element /\ g.name = x /\ g.entry = f
    BY <1>1, <1>7 DEF Element
  <2> HIDE DEF g
  <2>6. Visible(e) => EntryOk(d, g)
    BY <1>1, <1>3, <1>4, <1>7, <1>9, <2>4, <2>5 DEF EntryOk
  <2> QED
    BY <2>2, <2>4, <2>5, <2>6
<1> QED
  BY <1>8, <1>9

\* The entries from every place of a directory on exist, by induction from the last.
LEMMA ContentsExist ==
    ASSUME Indexed, NEW d \in DOMAIN index.directories
    PROVE  \A i \in FirstOf(d) .. LastOf(d) : Contents(d)[i] = ContentTurn(d, Contents(d), i)
<1> DEFINE F == FirstOf(d)
           L == LastOf(d)
           T(f, i) == ContentTurn(d, f, i)
           Next1(i) == NextAt(d, i)
           Exist(m) == \E f : f = [i \in F .. L |-> IF i >= L - m THEN T(f, i) ELSE <<>>]
           S == {m \in Nat : Exist(m)}
<1>1. F \in Nat /\ L \in Nat /\ F <= L
  BY DirectoryFacts
<1>2. \A i \in F .. L - 1 : Next1(i) \in i + 1 .. L
  BY NextFacts
<1>3. ASSUME NEW f, NEW g, NEW i \in F .. L - 1, f[Next1(i)] = g[Next1(i)]
      PROVE  T(f, i) = T(g, i)
  <2>1. T(f, i) = HeadAt(d, i) \o f[Next1(i)]
    BY TurnFacts
  <2>2. T(g, i) = HeadAt(d, i) \o g[Next1(i)]
    BY TurnFacts
  <2> QED
    BY <1>3, <2>1, <2>2
<1>4. \A f : T(f, L) = <<>>
  BY DEF ContentTurn
<1>5. Contents(d) = CHOOSE f : f = [i \in F .. L |-> T(f, i)]
  BY DEF Contents
<1> HIDE DEF T, Next1
<1>6. Exist(0)
  <2> DEFINE f == [i \in F .. L |-> <<>>]
  <2>1. \A i \in F .. L : f[i] = IF i >= L - 0 THEN T(f, i) ELSE <<>>
    <3> TAKE i \in F .. L
    <3>1. i >= L - 0 => i = L
      BY <1>1
    <3> QED
      BY <1>4, <3>1
  <2>2. f = [i \in F .. L |-> f[i]]
    OBVIOUS
  <2> HIDE DEF f
  <2>3. f = [i \in F .. L |-> IF i >= L - 0 THEN T(f, i) ELSE <<>>]
    BY <2>1, <2>2
  <2> QED
    BY <2>3
<1>7. ASSUME NEW m \in Nat, Exist(m) PROVE Exist(m + 1)
  <2>1. PICK f : f = [i \in F .. L |-> IF i >= L - m THEN T(f, i) ELSE <<>>]
    BY <1>7
  <2> DEFINE g == [i \in F .. L |-> IF i >= L - (m + 1) THEN T(f, i) ELSE <<>>]
  <2>2. \A i \in F .. L : i >= L - m => g[i] = f[i] /\ f[i] = T(f, i)
    <3> TAKE i \in F .. L
    <3>1. i >= L - m => i >= L - (m + 1)
      BY <1>1
    <3> QED
      BY <2>1, <3>1
  <2>3. \A i \in F .. L : g[i] = IF i >= L - (m + 1) THEN T(f, i) ELSE <<>>
    OBVIOUS
  <2>4. g = [i \in F .. L |-> g[i]]
    OBVIOUS
  <2> HIDE DEF g
  <2>5. ASSUME NEW i \in F .. L, i >= L - (m + 1) PROVE T(f, i) = T(g, i)
    <3>1. CASE i = L
      BY <1>4, <3>1
    <3>2. CASE i # L
      <4>1. i \in F .. L - 1
        BY <1>1, <3>2
      <4>2. Next1(i) \in i + 1 .. L
        BY <1>2, <4>1
      <4>3. Next1(i) \in F .. L /\ Next1(i) >= L - m
        BY <1>1, <2>5, <4>2
      <4>4. g[Next1(i)] = f[Next1(i)]
        BY <2>2, <4>3
      <4> QED
        BY <1>3, <4>1, <4>4
    <3> QED
      BY <3>1, <3>2
  <2>6. \A i \in F .. L : g[i] = IF i >= L - (m + 1) THEN T(g, i) ELSE <<>>
    BY <2>3, <2>5
  <2>7. g = [i \in F .. L |-> IF i >= L - (m + 1) THEN T(g, i) ELSE <<>>]
    BY <2>4, <2>6
  <2> QED
    BY <2>7
<1>8. 0 \in S /\ \A m \in Nat : m \in S => m + 1 \in S
  <2> HIDE DEF Exist
  <2> QED
    BY ONLY <1>6, <1>7
<1> HIDE DEF S
<1>9. L \in S
  BY <1>1, <1>8, AllNumbers
<1>10. Exist(L)
  BY <1>9 DEF S
<1>11. \E f : f = [i \in F .. L |-> T(f, i)]
  <2>1. PICK f : f = [i \in F .. L |-> IF i >= L - L THEN T(f, i) ELSE <<>>]
    BY <1>10
  <2>2. \A i \in F .. L : f[i] = T(f, i)
    <3> TAKE i \in F .. L
    <3>1. i >= L - L
      BY <1>1
    <3> QED
      BY <2>1, <3>1
  <2>3. f = [i \in F .. L |-> f[i]]
    BY <2>1
  <2>4. f = [i \in F .. L |-> T(f, i)]
    BY <2>2, <2>3
  <2> QED
    BY <2>4
<1>12. Contents(d) = [i \in F .. L |-> T(Contents(d), i)]
  BY <1>5, <1>11
<1>13. \A i \in F .. L : Contents(d)[i] = T(Contents(d), i)
  <2> DEFINE C == Contents(d)
  <2>1. C = [i \in F .. L |-> T(C, i)]
    BY <1>12
  <2> HIDE DEF C, F, L
  <2>2. \A i \in F .. L : C[i] = T(C, i)
    BY ONLY <2>1
  <2> QED
    BY <2>2 DEF C
<1> QED
  BY <1>13 DEF T, F, L

\* A sequence with an element in front.
LEMMA InFront ==
    ASSUME NEW S, NEW e \in S, NEW c \in Seq(S)
    PROVE  /\ <<e>> \o c \in Seq(S) /\ Len(<<e>> \o c) = Len(c) + 1 /\ Len(c) \in Nat
           /\ (<<e>> \o c)[1] = e
           /\ \A j \in 1 .. Len(c) : (<<e>> \o c)[j + 1] = c[j]
           /\ \A j \in 1 .. Len(c) + 1 : j # 1 => j - 1 \in 1 .. Len(c)
           /\ <<>> \o c = c
  OBVIOUS

\* What a turn does to the entries from the next place on.
LEMMA TurnKeepsContent ==
    ASSUME Indexed, NEW d \in DOMAIN index.directories,
           NEW i \in FirstOf(d) .. LastOf(d) - 1, NEW c, ContentFrom(d, NextAt(d, i), c)
    PROVE  ContentFrom(d, i, HeadAt(d, i) \o c)
<1> DEFINE L == LastOf(d)
           N == NextAt(d, i)
           x == NameAt(d, i)
<1>1. /\ N \in i + 1 .. L /\ i \in Nat /\ L \in Nat
      /\ \A k \in i .. L - 1 : /\ k < N => NameAt(d, k) = x
                               /\ k >= N => x < NameAt(d, k)
  BY NextFacts, DirectoryFacts
<1>2. \A k : NameAt(d, k) = NameIn(d, SortedPath(k))
  BY DEF NameAt
<1>3. /\ c \in Seq(Element)
      /\ \A j \in 1 .. Len(c) :
            /\ EntryOk(d, c[j])
            /\ \E k \in N .. L - 1 : NameAt(d, k) = c[j].name
      /\ \A j, k \in 1 .. Len(c) : j < k => c[j].name < c[k].name
      /\ \A k \in N .. L - 1 :
            Visible(Append(d, NameAt(d, k))) => \E j \in 1 .. Len(c) : c[j].name = NameAt(d, k)
  BY <1>2 DEF ContentFrom
<1>4. \A k \in N .. L - 1 : k \in i .. L - 1 /\ k >= N
  BY <1>1
<1>5. \A k \in i .. L - 1 : k < N \/ k \in N .. L - 1
  BY <1>1
<1>6. i \in i .. L - 1 /\ i < N
  BY <1>1
<1>7. SUFFICES
        LET h == HeadAt(d, i) \o c
        IN /\ h \in Seq(Element)
           /\ \A j \in 1 .. Len(h) :
                 EntryOk(d, h[j]) /\ \E k \in i .. L - 1 : NameAt(d, k) = h[j].name
           /\ \A j, k \in 1 .. Len(h) : j < k => h[j].name < h[k].name
           /\ \A k \in i .. L - 1 :
                 Visible(Append(d, NameAt(d, k)))
                    => \E j \in 1 .. Len(h) : h[j].name = NameAt(d, k)
  BY <1>2 DEF ContentFrom
<1> HIDE DEF L, N, x
<1>8. CASE HeadAt(d, i) = <<>> /\ ~Visible(Append(d, x))
  <2>1. HeadAt(d, i) \o c = c
    BY <1>3, <1>8
  <2>2. \A k \in i .. L - 1 : Visible(Append(d, NameAt(d, k))) => k \in N .. L - 1
    BY <1>1, <1>5, <1>8
  <2> QED
    BY <1>3, <1>4, <2>1, <2>2
<1>9. CASE \E e \in Element :
              HeadAt(d, i) = <<e>> /\ e.name = x /\ EntryOk(d, e)
  <2>1. PICK e \in Element : HeadAt(d, i) = <<e>> /\ e.name = x /\ EntryOk(d, e)
    BY <1>9
  <2> DEFINE h == <<e>> \o c
             n == Len(c)
  <2>2. /\ h \in Seq(Element) /\ Len(h) = n + 1 /\ n \in Nat /\ h[1] = e
        /\ \A j \in 1 .. n : h[j + 1] = c[j]
        /\ \A j \in 1 .. n + 1 : j # 1 => j - 1 \in 1 .. n
    BY <1>3, InFront
  <2> HIDE DEF h, n
  <2>3. \A j \in 1 .. n + 1 : j # 1 => j - 1 \in 1 .. n /\ h[j] = c[j - 1]
    <3> TAKE j \in 1 .. n + 1
    <3>1. ASSUME j # 1 PROVE j - 1 \in 1 .. n /\ (j - 1) + 1 = j
      BY <2>2, <3>1
    <3>2. \A k \in 1 .. n : h[k + 1] = c[k]
      BY <2>2
    <3> QED
      BY ONLY <3>1, <3>2
  <2>4. ASSUME NEW j \in 1 .. n + 1
        PROVE  EntryOk(d, h[j]) /\ \E k \in i .. L - 1 : NameAt(d, k) = h[j].name
    <3>1. CASE j = 1
      BY <1>1, <1>6, <2>1, <2>2, <3>1
    <3>2. CASE j # 1
      BY <1>3, <1>4, <2>3, <3>2 DEF n
    <3> QED
      BY <3>1, <3>2
  <2>5. ASSUME NEW j \in 1 .. n PROVE x < c[j].name /\ x \in Nat /\ c[j].name \in Nat
    <3>1. PICK k \in N .. L - 1 : NameAt(d, k) = c[j].name
      BY <1>3 DEF n
    <3>2. c[j] \in Element
      BY <1>3 DEF n
    <3> QED
      BY <1>1, <1>4, <2>1, <3>1, <3>2 DEF Element
  <2>6. ASSUME NEW j \in 1 .. n + 1, NEW k \in 1 .. n + 1, j < k
        PROVE  h[j].name < h[k].name
    <3>0. k # 1 /\ (j # 1 => j - 1 < k - 1)
      BY <2>2, <2>6
    <3>1. CASE j = 1
      BY <2>1, <2>2, <2>3, <2>5, <3>0, <3>1
    <3>2. CASE j # 1
      BY <1>3, <2>3, <3>0, <3>2 DEF n
    <3> QED
      BY <3>1, <3>2
  <2>7. ASSUME NEW k \in i .. L - 1, Visible(Append(d, NameAt(d, k)))
        PROVE  \E j \in 1 .. n + 1 : h[j].name = NameAt(d, k)
    <3>1. CASE k < N
      <4>1. 1 \in 1 .. n + 1
        BY <2>2
      <4> QED
        BY <1>1, <2>1, <2>2, <3>1, <4>1
    <3>2. CASE k \in N .. L - 1
      <4>1. PICK j \in 1 .. n : c[j].name = NameAt(d, k)
        BY <1>3, <2>7, <3>2 DEF n
      <4>2. j + 1 \in 1 .. n + 1
        BY <2>2
      <4> QED
        BY <2>2, <4>1, <4>2
    <3> QED
      BY <1>5, <3>1, <3>2
  <2>8. HeadAt(d, i) \o c = h
    BY <2>1 DEF h
  <2> QED
    BY <2>2, <2>4, <2>6, <2>7, <2>8
<1> QED
  BY <1>8, <1>9, HeadFacts DEF x

\* list_directory_content lists the entries of a directory that are shown, by name.
LEMMA ContentFacts ==
    ASSUME Indexed, NEW d \in DOMAIN index.directories
    PROVE  IsContent(d, list_directory_content(d))
<1> DEFINE F == FirstOf(d)
           L == LastOf(d)
           C == Contents(d)
           S == {m \in Nat : \A i \in F .. L : i >= L - m => ContentFrom(d, i, C[i])}
<1>1. /\ d \in Seq(Nat) /\ F \in Nat /\ L \in Nat /\ F <= L /\ 1 <= F /\ L <= Len(files) + 1
      /\ Len(files) \in Nat
      /\ \A k \in 1 .. Len(files) : IsStrictPrefix(d, SortedPath(k)) <=> F <= k /\ k < L
  BY DirectoryFacts, PlacesFacts
<1>2. \A i \in F .. L : C[i] = ContentTurn(d, C, i)
  BY ContentsExist
<1>3. \A i \in F .. L - 1 : /\ ContentTurn(d, C, i) = HeadAt(d, i) \o C[NextAt(d, i)]
                            /\ NextAt(d, i) \in i + 1 .. L
                            /\ ContentFrom(d, NextAt(d, i), C[NextAt(d, i)])
                                  => ContentFrom(d, i, HeadAt(d, i) \o C[NextAt(d, i)])
  BY TurnFacts, NextFacts, TurnKeepsContent
<1>4. ContentFrom(d, L, <<>>)
  <2>1. <<>> \in Seq(Element) /\ Len(<<>>) = 0 /\ 1 .. 0 = {}
    OBVIOUS
  <2>2. L .. L - 1 = {}
    BY <1>1
  <2> QED
    BY <2>1, <2>2 DEF ContentFrom, L
<1>5. ContentTurn(d, C, L) = <<>>
  BY DEF ContentTurn
<1> HIDE DEF C
<1>6. 0 \in S
  <2>1. \A i \in F .. L : i >= L - 0 => i = L
    BY <1>1
  <2>2. L \in F .. L
    BY <1>1
  <2>3. C[L] = <<>>
    BY <1>2, <1>5, <2>2
  <2> QED
    BY <1>4, <2>1, <2>3
<1>7. ASSUME NEW m \in Nat, m \in S PROVE m + 1 \in S
  <2>1. ASSUME NEW i \in F .. L, i >= L - (m + 1) PROVE ContentFrom(d, i, C[i])
    <3>1. CASE i = L
      BY <1>2, <1>4, <1>5, <3>1
    <3>2. CASE i # L
      <4>1. i \in F .. L - 1
        BY <1>1, <3>2
      <4> DEFINE N == NextAt(d, i)
      <4>2. N \in i + 1 .. L
        BY <1>3, <4>1
      <4>3. N \in F .. L /\ N >= L - m
        BY <1>1, <2>1, <4>2
      <4>4. ContentFrom(d, N, C[N])
        BY <1>7, <4>3
      <4> QED
        BY <1>2, <1>3, <4>1, <4>4
    <3> QED
      BY <3>1, <3>2
  <2> QED
    BY <2>1
<1> HIDE DEF S
<1>8. L \in S
  BY <1>1, <1>6, <1>7, AllNumbers
<1>9. ContentFrom(d, F, C[F])
  <2>1. F \in F .. L /\ F >= L - L
    BY <1>1
  <2> QED
    BY <1>8, <2>1 DEF S
<1>10. list_directory_content(d) = C[F]
  BY ContentByTurns DEF C
<1> DEFINE c == C[F]
<1> HIDE DEF F, L, c
<1>11. ASSUME NEW x \in Nat, Visible(Append(d, x))
       PROVE  \E j \in 1 .. Len(c) : c[j].name = x
  <2>1. PICK i \in DOMAIN files :
            (list_padding \/ ~files[i].pad) /\ IsPrefix(Append(d, x), files[i].path)
    BY <1>11 DEF Visible
  <2>2. PICK k \in 1 .. Len(files) : index.indices[k] = i
    BY PlacesFacts
  <2>3. IsPrefix(Append(d, x), SortedPath(k)) /\ SortedPath(k) \in Seq(Nat)
    BY <2>1, <2>2, PlacesFacts DEF SortedPath
  <2>4. IsStrictPrefix(d, SortedPath(k)) /\ NameIn(d, SortedPath(k)) = x
    BY <1>1, <2>3, BelowEntry
  <2>5. k \in F .. L - 1
    BY <1>1, <2>4
  <2> QED
    BY <1>9, <1>11, <2>4, <2>5 DEF ContentFrom, c, F, L
<1>12. /\ c \in Seq(Element)
       /\ \A j \in 1 .. Len(c) : EntryOk(d, c[j])
       /\ \A j, k \in 1 .. Len(c) : j < k => c[j].name < c[k].name
  BY <1>9 DEF ContentFrom, c
<1> QED
  BY <1>10, <1>11, <1>12 DEF IsContent, c

-----------------------------------------------------------------------------
(* TreeListing's view of the tree *)

\* All of a path.
LEMMA WholePath ==
    ASSUME NEW p \in Seq(Nat)
    PROVE  Prefix(p, Len(p)) = p
<1>1. Len(p) \in Nat /\ \A i \in 1 .. Len(p) : p[i] \in Nat
  BY PathFacts
<1> DEFINE n == Len(p)
           f == SubSeq(p, 1, n)
<1>2. /\ 1 \in Int /\ n \in Int /\ n - 1 + 1 = n
      /\ (IF 1 <= n THEN n - 1 + 1 ELSE 0) = n
      /\ \A i \in 1 .. n : 1 + i - 1 = i
  BY <1>1
<1>3. f \in Seq(Nat) /\ Len(f) = n /\ \A i \in 1 .. n : f[i] = p[i]
  BY <1>1, <1>2, SubSeqProperties
<1> HIDE DEF f
<1>4. f = p
  BY <1>3, SamePath
<1> QED
  BY <1>4 DEF Prefix, f

\* TreeListing and the printer speak of paths, sums and sequences in the same words.
LEMMA SameWords ==
    /\ \A p, q : Listing!IsPrefix(p, q) <=> IsPrefix(p, q)
    /\ \A p, q : Listing!PathLess(p, q) <=> PathLess(p, q)
    /\ \A p, i : Listing!Prefix(p, i) = Prefix(p, i)
    /\ \A p : Listing!Ancestors(p) = Ancestors(p)
    /\ \A p : Listing!Front(p) = Front(p)
    /\ \A s : Listing!FlattenSeq(s) = FlattenSeq(s)
    /\ \A S : Listing!Cardinality(S) = Cardinality(S)
    /\ \A g, S : Listing!SumFunctionOnSet(g, S) = Total(g, S)
<1>1. \A p, q : Listing!IsPrefix(p, q) <=> IsPrefix(p, q)
  BY DEF IsPrefix, Listing!IsPrefix
<1>2. \A p, q : Listing!IsStrictPrefix(p, q) <=> IsStrictPrefix(p, q)
  BY <1>1 DEF IsStrictPrefix, Listing!IsStrictPrefix
<1>3. \A p, i : Listing!Prefix(p, i) = Prefix(p, i)
  BY DEF Prefix, Listing!Prefix
<1>4. \A p, q : Listing!PathLess(p, q) <=> PathLess(p, q)
  BY <1>2, <1>3 DEF PathLess, Listing!PathLess
<1>5. \A p : Listing!Ancestors(p) = Ancestors(p)
  BY <1>3 DEF Ancestors, Listing!Ancestors
<1>6. \A p : Listing!Front(p) = Front(p)
  BY DEF Front, Listing!Front
<1>7. \A s : Listing!FlattenSeq(s) = FlattenSeq(s)
  BY DEF FlattenSeq, Listing!FlattenSeq
<1>8. \A S : Listing!Cardinality(S) = Cardinality(S)
  BY DEF Cardinality, Listing!Cardinality
<1>9. \A g, S : Listing!SumFunctionOnSet(g, S) = Total(g, S)
  BY DEF Total, Listing!SumFunctionOnSet, SumFunctionOnSet, Listing!FoldFunctionOnSet,
         FoldFunctionOnSet, Listing!MapThenFoldSet, MapThenFoldSet
<1> QED
  BY <1>1, <1>3, <1>4, <1>5, <1>6, <1>7, <1>8, <1>9

\* What a function has on a finite set is a finite set.
LEMMA FiniteImage ==
    ASSUME NEW S, IsFiniteSet(S), NEW f
    PROVE  IsFiniteSet({f[x] : x \in S})
<1> DEFINE T == {f[x] : x \in S}
           g == [x \in S |-> f[x]]
<1>1. g \in Surjection(S, T)
  BY DEF Surjection
<1> HIDE DEF g, T
<1>2. IsFiniteSet(T)
  BY <1>1, FS_Surjection
<1> QED
  BY <1>2 DEF T

\* The entries of the tree are the root and what is visible, and there is an end to them.
LEMMA TreeEntries ==
    ASSUME Indexed, ~metafile.single
    PROVE  /\ \A q : q \in Listing!Entries <=> q = <<>> \/ Visible(q)
           /\ \A q \in Listing!Entries : q \in Seq(Nat)
           /\ IsFiniteSet(Listing!Entries)
<1>1. /\ metafile \in Metafiles
      /\ \A i \in DOMAIN files : files[i].path \in Seq(Nat) /\ files[i].path # <<>>
      /\ IsFiniteSet(DOMAIN files)
  BY StorageFacts DEF Indexed
<1> DEFINE Sh == {f.path : f \in {g \in Range(files) : list_padding \/ ~g.pad}}
<1>2. Listing!Shown = Sh
  BY DEF Listing!Shown
<1>3. Listing!Entries = {<<>>} \union Sh \union UNION {Ancestors(p) : p \in Sh}
  BY <1>2, SameWords DEF Listing!Entries, Listing!Name
<1>4. \A p : p \in Sh <=> \E i \in DOMAIN files :
                              p = files[i].path /\ (list_padding \/ ~files[i].pad)
  BY DEF Range
<1> HIDE DEF Sh
<1>5. \A q : q \in Listing!Entries
               <=> q = <<>> \/ q \in Sh \/ \E p \in Sh : q \in Ancestors(p)
  BY <1>3
<1>6. ASSUME NEW q
      PROVE  q \in Sh \/ (\E p \in Sh : q \in Ancestors(p)) <=> Visible(q)
  <2>1. \A i \in DOMAIN files : q \in Ancestors(files[i].path)
            <=> q \in Seq(Nat) /\ q # <<>> /\ IsStrictPrefix(q, files[i].path)
    BY <1>1, AboveMeans
  <2>2. \A i \in DOMAIN files : IsPrefix(files[i].path, files[i].path)
    BY <1>1, PrefixTransitive
  <2> QED
    BY <1>1, <1>4, <2>1, <2>2 DEF Visible, IsStrictPrefix
<1>7. \A q : q \in Listing!Entries <=> q = <<>> \/ Visible(q)
  BY <1>5, <1>6
<1>8. \A q \in Listing!Entries : q \in Seq(Nat)
  <2>1. <<>> \in Seq(Nat)
    OBVIOUS
  <2> QED
    BY <1>7, <2>1 DEF Visible
<1>9. IsFiniteSet(Listing!Entries)
  <2> DEFINE A(i) == {Prefix(files[i].path, j) : j \in 0 .. Len(files[i].path)}
             a == [i \in DOMAIN files |-> A(i)]
             AA == {a[i] : i \in DOMAIN files}
  <2>1. ASSUME NEW i \in DOMAIN files PROVE IsFiniteSet(A(i))
    <3> DEFINE p == files[i].path
               b == [j \in 0 .. Len(p) |-> Prefix(p, j)]
    <3>1. 0 \in Int /\ Len(p) \in Int
      BY <1>1, PathFacts
    <3>2. A(i) = {b[j] : j \in 0 .. Len(p)}
      OBVIOUS
    <3> HIDE DEF p, b
    <3>3. IsFiniteSet(0 .. Len(p))
      BY <3>1, FS_Interval
    <3>4. IsFiniteSet({b[j] : j \in 0 .. Len(p)})
      BY <3>3, FiniteImage
    <3> QED
      BY <3>2, <3>4
  <2>2. \A i \in DOMAIN files : a[i] = A(i)
    OBVIOUS
  <2> HIDE DEF a
  <2>3. IsFiniteSet(AA)
    BY <1>1, FiniteImage
  <2>4. \A S \in AA : IsFiniteSet(S)
    BY <2>1, <2>2
  <2> HIDE DEF AA
  <2>5. IsFiniteSet(UNION AA)
    BY <2>3, <2>4, FS_UNION
  <2>6. ASSUME NEW q, Visible(q) PROVE q \in UNION AA
    <3>1. PICK i \in DOMAIN files : IsPrefix(q, files[i].path)
      BY <2>6 DEF Visible
    <3> DEFINE p == files[i].path
    <3>2. p \in Seq(Nat) /\ q \in Seq(Nat) /\ IsPrefix(q, p)
      BY <1>1, <2>6, <3>1 DEF Visible
    <3> HIDE DEF p
    <3>3. Len(q) \in 0 .. Len(p) /\ q = Prefix(p, Len(q))
      <4>1. Len(q) <= Len(p) /\ Len(q) \in Nat /\ Len(p) \in Nat
            /\ \A j \in 1 .. Len(q) : q[j] = p[j]
        BY <3>2, PrefixMeans, PathFacts
      <4>2. Prefix(q, Len(q)) = Prefix(p, Len(q))
        <5>1. Len(q) <= Len(q)
          BY <4>1
        <5> QED
          BY <3>2, <4>1, <5>1, SamePrefix
      <4>3. Prefix(q, Len(q)) = q
        BY <3>2, <4>1, WholePath
      <4>4. Len(q) \in 0 .. Len(p)
        BY <4>1
      <4> QED
        BY <4>2, <4>3, <4>4
    <3>4. q \in A(i)
      BY <3>3 DEF p
    <3>5. a[i] \in AA
      BY DEF AA
    <3> QED
      BY <2>2, <3>4, <3>5
  <2>7. Listing!Entries \subseteq (UNION AA) \union {<<>>}
    BY <1>7, <2>6
  <2>8. IsFiniteSet((UNION AA) \union {<<>>})
    BY <2>5, FS_AddElement
  <2> QED
    BY <2>7, <2>8, FS_Subset
<1> QED
  BY <1>7, <1>8, <1>9

\* Entries of one directory are in the order of their names.
LEMMA SiblingOrder ==
    ASSUME NEW d \in Seq(Nat), NEW x \in Nat, NEW y \in Nat
    PROVE  /\ PathLess(Append(d, x), Append(d, y)) <=> x < y
           /\ Front(Append(d, x)) = d
<1> DEFINE p == Append(d, x)
           q == Append(d, y)
<1>1. /\ p \in Seq(Nat) /\ q \in Seq(Nat) /\ Len(p) = Len(d) + 1 /\ Len(q) = Len(d) + 1
      /\ q[Len(d) + 1] = y /\ Len(d) \in Nat
      /\ IsStrictPrefix(d, p) /\ IsStrictPrefix(d, q) /\ IsPrefix(d, q)
      /\ \A i \in 1 .. Len(d) : p[i] = d[i]
  BY AppendedPath, PathFacts
<1> HIDE DEF p, q
<1>2. ~IsStrictPrefix(p, q)
  <2>1. ~(Len(p) < Len(q))
    BY <1>1
  <2> QED
    BY <1>1, <2>1, PrefixMeans
<1>3. Before(p, q) <=> Before(d, q) \/ (IsStrictPrefix(d, q) /\ x < NameIn(d, q))
  BY <1>1, BeforeEntry DEF p
<1>4. ~Before(d, q)
  BY <1>1, BeforeNoPrefix
<1>5. PathLess(p, q) <=> x < y
  BY <1>1, <1>2, <1>3, <1>4, LessMeans DEF NameIn
<1>6. Front(p) = d
  <2>1. \A m, n \in Nat : m = n + 1 => m - 1 = n
    OBVIOUS
  <2>2. Len(p) - 1 = Len(d) /\ Len(p) \in Nat /\ Len(d) <= Len(p)
    BY <1>1, PathFacts
  <2>3. Prefix(p, Len(d)) = Prefix(d, Len(d))
    <3>1. Len(d) <= Len(d)
      BY <1>1
    <3> QED
      BY <1>1, <2>2, <3>1, SamePrefix
  <2>4. Prefix(d, Len(d)) = d
    BY WholePath
  <2> QED
    BY <2>2, <2>3, <2>4 DEF Front, Prefix
<1> QED
  BY <1>5, <1>6 DEF p, q

\* A path that is not the root is its directory and a name.
LEMMA DirectoryAndName ==
    ASSUME NEW q \in Seq(Nat), q # <<>>
    PROVE  /\ Front(q) \in Seq(Nat) /\ q[Len(q)] \in Nat
           /\ q = Append(Front(q), q[Len(q)])
<1>1. Len(q) \in Nat /\ Len(q) # 0 /\ \A i \in 1 .. Len(q) : q[i] \in Nat
  BY EmptySeq, PathFacts
<1> DEFINE n == Len(q)
           f == SubSeq(q, 1, n - 1)
<1>2. n - 1 \in Nat /\ n \in 1 .. n /\ \A i \in 1 .. n - 1 : i \in 1 .. n
  BY <1>1
<1>3. f \in Seq(Nat) /\ Len(f) = n - 1 /\ \A i \in 1 .. n - 1 : f[i] = q[i]
  <2>1. /\ 1 \in Int /\ n - 1 \in Int /\ (n - 1) - 1 + 1 = n - 1
        /\ (IF 1 <= n - 1 THEN (n - 1) - 1 + 1 ELSE 0) = n - 1
        /\ \A i \in 1 .. n - 1 : 1 + i - 1 = i
    <3>1. \A m \in Nat : /\ m \in Int /\ m - 1 + 1 = m
                          /\ (IF 1 <= m THEN m - 1 + 1 ELSE 0) = m
                          /\ \A i \in 1 .. m : 1 + i - 1 = i
      OBVIOUS
    <3> HIDE DEF n
    <3> QED
      BY <1>2, <3>1
  <2>2. \A i \in 1 .. n - 1 : q[i] \in Nat
    BY <1>1, <1>2
  <2> QED
    BY <2>1, <2>2, SubSeqProperties
<1> DEFINE r == Append(f, q[n])
<1>4. q[n] \in Nat
  BY <1>1, <1>2
<1> HIDE DEF f
<1>5. /\ r \in Seq(Nat) /\ Len(r) = (n - 1) + 1 /\ r[(n - 1) + 1] = q[n]
      /\ \A i \in 1 .. n - 1 : r[i] = f[i]
  BY <1>3, <1>4, AppendedPath
<1> HIDE DEF r, n
<1>6. (n - 1) + 1 = n /\ \A i \in 1 .. n : i = n \/ i \in 1 .. n - 1
  BY <1>2
<1>7. q = r
  <2>1. \A i \in 1 .. n : q[i] = r[i]
    BY <1>3, <1>5, <1>6
  <2> QED
    BY <1>5, <1>6, <2>1, SamePath DEF n
<1> QED
  BY <1>3, <1>4, <1>7 DEF Front, f, n, r

\* The guides and the nodes of the entries of a directory.
LEMMA EntryGuides ==
    ASSUME Indexed, ~metafile.single, NEW d \in DOMAIN index.directories,
           NEW c, IsContent(d, c), NEW j \in 1 .. Len(c)
    PROVE  LET q == Append(d, c[j].name)
           IN  /\ q \in Seq(Nat) /\ q # <<>> /\ q \in Listing!Entries
               /\ Listing!Guide(q) = IF j = Len(c) THEN sub_last ELSE sub
               /\ Listing!Node(q) = IF j = Len(c) THEN "end" ELSE "node"
<1> DEFINE x == c[j].name
           q == Append(d, x)
           n == Len(c)
<1>1. /\ d \in Seq(Nat) /\ n \in Nat
      /\ \A k \in 1 .. n : c[k] \in Element /\ c[k].name \in Nat /\ EntryOk(d, c[k])
      /\ \A k, l \in 1 .. n : k < l => c[k].name < c[l].name
      /\ \A y \in Nat : Visible(Append(d, y)) => \E k \in 1 .. n : c[k].name = y
  <2>1. d \in Seq(Nat)
    BY DirectoryFacts
  <2>2. c \in Seq(Element)
    BY DEF IsContent
  <2>3. n \in Nat /\ \A k \in 1 .. n : c[k] \in Element
    BY <2>2
  <2> QED
    BY <2>1, <2>3 DEF IsContent, Element
<1> HIDE DEF n
<1>2. x \in Nat /\ Visible(q) /\ q \in Seq(Nat) /\ q # <<>>
  BY <1>1 DEF EntryOk, Visible, n
<1>3. q \in Listing!Entries
  BY <1>2, TreeEntries
<1>4. Listing!Siblings(q) = {r \in Listing!Entries \ {<<>>} : Front(r) = d}
  BY <1>1, <1>2, SiblingOrder, SameWords DEF Listing!Siblings, Listing!Name
<1>5. \A r : r \in Listing!Siblings(q)
                <=> \E k \in 1 .. n : r = Append(d, c[k].name)
  <2>1. ASSUME NEW r \in Listing!Siblings(q)
        PROVE  \E k \in 1 .. n : r = Append(d, c[k].name)
    <3>1. Visible(r) /\ r \in Seq(Nat) /\ r # <<>> /\ Front(r) = d
      BY <1>4, TreeEntries DEF Visible
    <3>2. r[Len(r)] \in Nat /\ r = Append(d, r[Len(r)])
      BY <3>1, DirectoryAndName
    <3> QED
      BY <1>1, <3>1, <3>2
  <2>2. ASSUME NEW k \in 1 .. n
        PROVE  Append(d, c[k].name) \in Listing!Siblings(q)
    <3>1. Visible(Append(d, c[k].name)) /\ Front(Append(d, c[k].name)) = d
      BY <1>1, SiblingOrder DEF EntryOk
    <3> QED
      BY <1>4, <3>1, TreeEntries DEF Visible
  <2> QED
    BY <2>1, <2>2
<1>6. Listing!IsLast(q) <=> \A k \in 1 .. n : ~(x < c[k].name)
  <2>1. Listing!IsLast(q) <=> \A k \in 1 .. n : ~PathLess(q, Append(d, c[k].name))
    BY <1>5, SameWords DEF Listing!IsLast
  <2> QED
    BY <1>1, <1>2, <2>1, SiblingOrder
<1>7. j \in 1 .. n
  BY DEF n
<1>8. Listing!IsLast(q) <=> j = n
  <2>1. ASSUME j # n PROVE \E k \in 1 .. n : x < c[k].name
    <3>1. n \in 1 .. n /\ j < n
      BY <1>1, <1>7, <2>1
    <3> QED
      BY <1>1, <1>7, <3>1
  <2>2. ASSUME j = n, NEW k \in 1 .. n, x < c[k].name PROVE FALSE
    <3>1. k = j \/ k < j
      BY <1>1, <1>7, <2>2
    <3>2. k < j => c[k].name < x
      BY <1>1, <1>7
    <3> QED
      BY <1>1, <1>2, <2>2, <3>1, <3>2
  <2> QED
    BY <1>6, <2>1, <2>2
<1> HIDE DEF q, x
<1>9. /\ Listing!Guide(q) = IF j = n THEN sub_last ELSE sub
      /\ Listing!Node(q) = IF j = n THEN "end" ELSE "node"
  <2>1. Listing!Guide(q) = IF j = n THEN sub_last ELSE sub
    BY <1>8 DEF Listing!Guide
  <2>2. Listing!Node(q) = IF Listing!IsLast(q) THEN "end" ELSE "node"
    BY <1>2 DEF Listing!Node, Listing!Name
  <2> QED
    BY <1>8, <2>1, <2>2
<1> QED
  BY <1>2, <1>3, <1>9 DEF q, x, n

\* The size of an entry is that of the files at or below its path.
LEMMA EntrySizes ==
    ASSUME Indexed, NEW d \in DOMAIN index.directories, NEW e \in Element, EntryOk(d, e)
    PROVE  Listing!SizeBelow(Append(d, e.name)) =
              IF e.entry # 0 THEN files[e.entry].size
              ELSE get_directory_size(Append(d, e.name))
<1> DEFINE q == Append(d, e.name)
<1>1. Listing!SizeBelow(q) = Total(SizeOfFile, FilesBelow(q))
  BY SameWords DEF Listing!SizeBelow, SizeOfFile, FilesBelow
<1>2. q # <<>> /\ q \in Seq(Nat)
  BY DEF EntryOk, Visible
<1> HIDE DEF q
<1>3. CASE e.entry = 0
  <2>1. q \in DOMAIN index.directories
    BY <1>3 DEF EntryOk, q
  <2>2. get_directory_size(q) = Total(SizeOfFile, FilesBelow(q))
    BY <1>2, <2>1, DirectoryFacts
  <2> QED
    BY <1>1, <1>3, <2>2 DEF q
<1>4. CASE e.entry # 0
  <2> DEFINE f == files[e.entry]
             no == {}
  <2>1. e.entry \in DOMAIN files /\ f.path = q
    BY <1>4 DEF EntryOk, q
  <2>2. metafile \in Metafiles
    BY DEF Indexed
  <2>3. f \in Range(files) /\ f.size \in Nat
    BY <2>1, <2>2, StorageFacts DEF Range
  <2>4. FilesBelow(q) = no \union {f}
    <3>1. ASSUME NEW g \in Range(files), IsPrefix(q, g.path) PROVE g = f
      <4>1. PICK i \in DOMAIN files : g = files[i]
        BY DEF Range
      <4>2. i = e.entry
        BY <2>1, <2>2, <3>1, <4>1, StorageFacts
      <4> QED
        BY <4>1, <4>2
    <3>2. IsPrefix(q, f.path)
      BY <1>2, <2>1, PrefixTransitive
    <3> QED
      BY <2>3, <3>1, <3>2 DEF FilesBelow
  <2>5. no \in SUBSET Range(files) /\ f \notin no
    OBVIOUS
  <2> HIDE DEF f, no
  <2>6. Total(SizeOfFile, no \union {f}) = Total(SizeOfFile, no) + f.size
    BY <2>2, <2>3, <2>5, FileSums
  <2>7. Total(SizeOfFile, no) = 0
    BY <2>2, FileSums DEF no
  <2>8. Total(SizeOfFile, FilesBelow(q)) = f.size
    BY <2>3, <2>4, <2>6, <2>7
  <2> QED
    BY <1>1, <1>4, <2>8 DEF f, q
<1> QED
  BY <1>3, <1>4 DEF q

\* The entries that come after the first n of a directory and all that is below them.
Remaining(d, c, n, q) ==
    Before(d, q) \/ (IsStrictPrefix(d, q) /\ (n = 0 \/ c[n].name < NameIn(d, q)))

\* What is below a directory is below one of its entries.
LEMMA BelowContent ==
    ASSUME Indexed, NEW d \in DOMAIN index.directories, NEW c, IsContent(d, c),
           NEW q, Visible(q), IsStrictPrefix(d, q)
    PROVE  NameIn(d, q) \in Nat /\ \E k \in 1 .. Len(c) : c[k].name = NameIn(d, q)
<1>1. d \in Seq(Nat) /\ q \in Seq(Nat)
  BY DirectoryFacts DEF Visible
<1> DEFINE x == NameIn(d, q)
           e == Append(d, x)
<1>2. x \in Nat /\ IsPrefix(e, q)
  BY <1>1, NameFacts
<1>3. e \in Seq(Nat) /\ e # <<>>
  <2>1. e \in Seq(Nat) /\ Len(e) = Len(d) + 1 /\ Len(d) \in Nat
    BY <1>1, <1>2, AppendedPath, PathFacts
  <2>2. Len(<<>>) = 0 /\ \A n \in Nat : n + 1 # 0
    OBVIOUS
  <2> QED
    BY ONLY <2>1, <2>2
<1>4. Visible(e)
  <2>1. PICK i \in DOMAIN files :
            (list_padding \/ ~files[i].pad) /\ IsPrefix(q, files[i].path)
    BY DEF Visible
  <2>2. files[i].path \in Seq(Nat)
    BY StorageFacts DEF Indexed
  <2>3. IsPrefix(e, files[i].path)
    BY <1>1, <1>2, <1>3, <2>1, <2>2, PrefixTransitive
  <2> QED
    BY <1>3, <2>1, <2>3 DEF Visible
<1> QED
  BY <1>2, <1>4 DEF IsContent

\* The entries of a content, and their names.
LEMMA ContentNames ==
    ASSUME NEW d, NEW c, IsContent(d, c)
    PROVE  /\ Len(c) \in Nat
           /\ \A k \in 1 .. Len(c) :
                 c[k] \in Element /\ c[k].name \in Nat /\ c[k].entry \in Nat /\ EntryOk(d, c[k])
           /\ \A j, k \in 1 .. Len(c) : c[j].name < c[k].name <=> j < k
<1>1. c \in Seq(Element)
  BY DEF IsContent
<1>2. Len(c) \in Nat /\ \A k \in 1 .. Len(c) : c[k] \in Element
  BY <1>1
<1>3. \A k \in 1 .. Len(c) : c[k].name \in Nat /\ c[k].entry \in Nat
  BY <1>2 DEF Element
<1>4. \A j, k \in 1 .. Len(c) : j < k => c[j].name < c[k].name
  BY DEF IsContent
<1> DEFINE n == Len(c)
<1> HIDE DEF n
<1>5. ASSUME NEW j \in 1 .. n, NEW k \in 1 .. n
      PROVE  c[j].name < c[k].name <=> j < k
  <2>1. j < k \/ j = k \/ k < j
    BY <1>2 DEF n
  <2> QED
    BY <1>3, <1>4, <2>1 DEF n
<1> QED
  BY <1>2, <1>3, <1>5 DEF IsContent, n

\* The next entry of a directory is the first of those that remain.
LEMMA NextEntry ==
    ASSUME Indexed, ~metafile.single, NEW d \in DOMAIN index.directories, NEW c,
           IsContent(d, c), NEW n \in Nat, n < Len(c), NEW q \in Listing!Entries
    PROVE  LET p == Append(d, c[n + 1].name)
           IN  Remaining(d, c, n, q) <=> q = p \/ PathLess(p, q)
<1> DEFINE x == c[n + 1].name
           p == Append(d, x)
           y == NameIn(d, q)
<1>1. /\ Len(c) \in Nat /\ \A k \in 1 .. Len(c) : c[k].name \in Nat
      /\ \A j, k \in 1 .. Len(c) : c[j].name < c[k].name <=> j < k
  BY ContentNames
<1>2. n + 1 \in 1 .. Len(c) /\ x \in Nat /\ (n # 0 => n \in 1 .. Len(c))
  BY <1>1
<1>3. d \in Seq(Nat) /\ q \in Seq(Nat) /\ (q = <<>> \/ Visible(q))
  BY DirectoryFacts, TreeEntries
<1>4. p \in Seq(Nat)
  BY <1>2, <1>3, AppendedPath
<1>5. IsPrefix(p, q) <=> IsStrictPrefix(d, q) /\ y = x
  BY <1>2, <1>3, BelowEntry
<1>6. Before(p, q) <=> Before(d, q) \/ (IsStrictPrefix(d, q) /\ x < y)
  BY <1>2, <1>3, BeforeEntry
<1>7. q = p \/ PathLess(p, q) <=> IsPrefix(p, q) \/ Before(p, q)
  BY <1>3, <1>4, LessMeans, PrefixTransitive DEF IsStrictPrefix
<1>8. ~IsStrictPrefix(d, <<>>)
  <2> DEFINE e == <<>>
  <2>1. e \in Seq(Nat) /\ Len(e) = 0
    OBVIOUS
  <2> HIDE DEF e
  <2>2. ~IsStrictPrefix(d, e)
    <3>1. Len(d) \in Nat /\ ~(Len(d) < 0)
      BY <1>3, PathFacts
    <3> QED
      BY <1>3, <2>1, <3>1, PrefixMeans
  <2> QED
    BY <2>2 DEF e
<1>9. ASSUME IsStrictPrefix(d, q)
      PROVE  n = 0 \/ c[n].name < y <=> x = y \/ x < y
  <2>1. Visible(q)
    BY <1>3, <1>8, <1>9
  <2>2. PICK k \in 1 .. Len(c) : c[k].name = y
    BY <1>9, <2>1, BelowContent
  <2>3. x = y \/ x < y <=> n + 1 <= k
    <3>1. n + 1 < k \/ n + 1 = k \/ k < n + 1
      BY <1>1, <1>2
    <3>2. x < y <=> n + 1 < k
      BY <1>1, <1>2, <2>2
    <3>3. y < x <=> k < n + 1
      BY <1>1, <1>2, <2>2
    <3>4. y \in Nat
      BY <1>1, <2>2
    <3> QED
      BY <1>2, <2>2, <3>1, <3>2, <3>3, <3>4
  <2>4. n # 0 => (c[n].name < y <=> n < k)
    BY <1>1, <1>2, <2>2
  <2>5. k >= 1 /\ (n < k <=> n + 1 <= k)
    BY <1>1
  <2> QED
    BY <2>3, <2>4, <2>5
<1> HIDE DEF p, x, y
<1>10. Remaining(d, c, n, q) <=> q = p \/ PathLess(p, q)
  BY <1>5, <1>6, <1>7, <1>9 DEF Remaining, y
<1> QED
  BY <1>10 DEF p, x

\* After an entry, what remains are the entries after it, when nothing is below it.
LEMMA AfterEntry ==
    ASSUME Indexed, ~metafile.single, NEW d \in DOMAIN index.directories, NEW c,
           IsContent(d, c), NEW n \in Nat, n < Len(c), NEW q \in Listing!Entries
    PROVE  LET p == Append(d, c[n + 1].name)
           IN  /\ \A b : Remaining(p, b, 0, q) <=> PathLess(p, q)
               /\ c[n + 1].entry # 0 => (Remaining(d, c, n + 1, q) <=> PathLess(p, q))
<1> DEFINE x == c[n + 1].name
           p == Append(d, x)
<1>1. Len(c) \in Nat /\ n + 1 \in 1 .. Len(c) /\ x \in Nat /\ EntryOk(d, c[n + 1])
  BY ContentNames
<1>2. d \in Seq(Nat) /\ q \in Seq(Nat) /\ (q = <<>> \/ Visible(q))
  BY DirectoryFacts, TreeEntries
<1>3. p \in Seq(Nat)
  BY <1>1, <1>2, AppendedPath
<1>4. PathLess(p, q) <=> IsStrictPrefix(p, q) \/ Before(p, q)
  BY <1>2, <1>3, LessMeans
<1>5. \A b : Remaining(p, b, 0, q) <=> PathLess(p, q)
  BY <1>4 DEF Remaining
<1>6. Before(p, q) <=> Before(d, q) \/ (IsStrictPrefix(d, q) /\ x < NameIn(d, q))
  BY <1>1, <1>2, BeforeEntry
<1>7. ASSUME c[n + 1].entry # 0, IsStrictPrefix(p, q) PROVE FALSE
  <2> DEFINE f == c[n + 1].entry
  <2>1. f \in DOMAIN files /\ files[f].path = p /\ metafile \in Metafiles
    BY <1>1, <1>7 DEF EntryOk, Indexed
  <2>2. q # <<>>
    <3>1. Len(p) < Len(q) /\ Len(p) \in Nat /\ Len(q) \in Nat
      BY <1>2, <1>3, <1>7, PrefixMeans, PathFacts
    <3>2. Len(<<>>) = 0 /\ \A m \in Nat : ~(m < 0)
      OBVIOUS
    <3> QED
      BY ONLY <3>1, <3>2
  <2>3. PICK i \in DOMAIN files : IsPrefix(q, files[i].path)
    BY <1>2, <2>2 DEF Visible
  <2>4. files[i].path \in Seq(Nat)
    BY <2>1, StorageFacts
  <2>5. IsStrictPrefix(p, files[i].path)
    BY <1>2, <1>3, <1>7, <2>3, <2>4, PrefixTransitive
  <2>6. i = f
    BY <2>1, <2>5, StorageFacts DEF IsStrictPrefix
  <2> QED
    BY <2>1, <2>5, <2>6 DEF IsStrictPrefix
<1>8. Remaining(d, c, n + 1, q)
        <=> Before(d, q) \/ (IsStrictPrefix(d, q) /\ x < NameIn(d, q))
  <2>1. n + 1 # 0
    OBVIOUS
  <2> QED
    BY <2>1 DEF Remaining
<1> HIDE DEF p
<1>9. c[n + 1].entry # 0 => (Remaining(d, c, n + 1, q) <=> PathLess(p, q))
  BY <1>4, <1>6, <1>7, <1>8
<1> QED
  BY <1>5, <1>9 DEF p

\* At the end of a directory, what remains comes after all that is below it.
LEMMA AfterLast ==
    ASSUME Indexed, ~metafile.single, NEW d \in DOMAIN index.directories, NEW c,
           IsContent(d, c), NEW q \in Listing!Entries
    PROVE  Remaining(d, c, Len(c), q) <=> Before(d, q)
<1>1. d \in Seq(Nat) /\ q \in Seq(Nat) /\ (q = <<>> \/ Visible(q))
  BY DirectoryFacts, TreeEntries
<1>2. ASSUME IsStrictPrefix(d, q), Len(c) = 0 \/ c[Len(c)].name < NameIn(d, q)
      PROVE  FALSE
  <2>1. q # <<>>
    <3>1. Len(d) < Len(q) /\ Len(d) \in Nat /\ Len(q) \in Nat
      BY <1>1, <1>2, PrefixMeans, PathFacts
    <3>2. Len(<<>>) = 0 /\ \A m \in Nat : ~(m < 0)
      OBVIOUS
    <3> QED
      BY ONLY <3>1, <3>2
  <2>2. PICK k \in 1 .. Len(c) : c[k].name = NameIn(d, q)
    BY <1>1, <1>2, <2>1, BelowContent
  <2>3. /\ Len(c) \in Nat
        /\ \A i, j \in 1 .. Len(c) : c[i].name < c[j].name <=> i < j
    BY ContentNames
  <2>4. Len(c) # 0 /\ Len(c) \in 1 .. Len(c) /\ ~(Len(c) < k)
    BY <2>2, <2>3
  <2> QED
    BY <1>2, <2>2, <2>3, <2>4
<1> QED
  BY <1>2 DEF Remaining

-----------------------------------------------------------------------------
(* The guides to the left of a line *)

\* One turn of the concatenation of the prefixes.
FlatTurn(seqs, f, i) == IF i = 1 THEN seqs[i] ELSE f[i - 1] \o seqs[i]

\* The concatenations of the first prefixes, up to the k-th.
FlatTurns(seqs, k) == CHOOSE f : f = [i \in 1 .. k |-> FlatTurn(seqs, f, i)]

\* The values of FlattenSeq on the first sequences, by induction on k.
LEMMA FlatTurnsExist ==
    ASSUME NEW seqs, NEW k \in Nat
    PROVE  FlatTurns(seqs, k) = [i \in 1 .. k |-> FlatTurn(seqs, FlatTurns(seqs, k), i)]
<1> DEFINE Exist(j) == \E f : f = [i \in 1 .. j |-> FlatTurn(seqs, f, i)]
           S == {j \in Nat : Exist(j)}
<1>1. Exist(0)
  <2> DEFINE f == [i \in 1 .. 0 |-> <<>>]
  <2>1. 1 .. 0 = {}
    OBVIOUS
  <2>2. f = [i \in 1 .. 0 |-> FlatTurn(seqs, f, i)]
    BY <2>1
  <2> QED
    BY <2>2
<1>2. ASSUME NEW j \in Nat, Exist(j) PROVE Exist(j + 1)
  <2>1. PICK f : f = [i \in 1 .. j |-> FlatTurn(seqs, f, i)]
    BY <1>2
  <2> DEFINE g == [i \in 1 .. (j + 1) |-> IF i = j + 1 THEN FlatTurn(seqs, f, i) ELSE f[i]]
  <2>2. \A i \in 1 .. j : g[i] = f[i] /\ f[i] = FlatTurn(seqs, f, i)
    BY <2>1
  <2>3. ASSUME NEW i \in 1 .. (j + 1) PROVE g[i] = FlatTurn(seqs, f, i)
    <3>1. i \in 1 .. j \/ i = j + 1
      OBVIOUS
    <3> QED
      BY <2>2, <3>1
  <2>4. ASSUME NEW i \in 1 .. (j + 1), i # 1 PROVE g[i - 1] = f[i - 1]
    <3>1. i - 1 \in 1 .. j
      BY <2>4
    <3> QED
      BY <2>2, <3>1
  <2>5. g = [i \in 1 .. (j + 1) |-> g[i]]
    OBVIOUS
  <2> HIDE DEF g
  <2>6. \A i \in 1 .. (j + 1) : g[i] = FlatTurn(seqs, g, i)
    BY <2>3, <2>4 DEF FlatTurn
  <2>7. g = [i \in 1 .. (j + 1) |-> FlatTurn(seqs, g, i)]
    BY <2>5, <2>6
  <2> QED
    BY <2>7
<1>3. 0 \in S /\ \A j \in Nat : j \in S => j + 1 \in S
  <2> HIDE DEF Exist
  <2> QED
    BY ONLY <1>1, <1>2
<1> HIDE DEF S
<1>4. k \in S
  BY <1>3, AllNumbers
<1>5. Exist(k)
  BY <1>4 DEF S
<1> QED
  BY ONLY <1>5 DEF FlatTurns

\* Length, domain and elements of a sequence.
LEMMA SequenceFacts ==
    ASSUME NEW S, NEW s \in Seq(S)
    PROVE  /\ Len(s) \in Nat /\ DOMAIN s = 1 .. Len(s) /\ (Len(s) = 0 => s = <<>>)
           /\ \A i \in 1 .. Len(s) : s[i] \in S
  OBVIOUS

\* fl has the elements of the first sequences after each of them.
FlatRun(E, seqs, fl) ==
    /\ fl[0] = <<>>
    /\ \A i \in 1 .. Len(seqs) : fl[i] = fl[i - 1] \o seqs[i]
    /\ \A i \in 0 .. Len(seqs) : fl[i] \in Seq(E)

\* FlattenSeq, sequence by sequence.
LEMMA FlatRunExists ==
    ASSUME NEW E, NEW seqs \in Seq(Seq(E))
    PROVE  \E fl : FlatRun(E, seqs, fl) /\ FlattenSeq(seqs) = fl[Len(seqs)]
<1> DEFINE n == Len(seqs)
           f == FlatTurns(seqs, n)
           fl == [i \in 0 .. n |-> IF i = 0 THEN <<>> ELSE f[i]]
           Q == Seq(E)
<1>1. FlattenSeq(seqs) = IF n = 0 THEN seqs ELSE f[n]
  BY DEF FlattenSeq, FlatTurns, FlatTurn
<1>2. n \in Nat /\ (n = 0 => seqs = <<>>) /\ \A i \in 1 .. n : seqs[i] \in Q
  <2> HIDE DEF Q
  <2>1. seqs \in Seq(Q)
    BY DEF Q
  <2> QED
    BY ONLY <2>1, SequenceFacts DEF n
<1>q. <<>> \in Q /\ \A s, t \in Q : s \o t \in Q /\ <<>> \o t = t
  OBVIOUS
<1> HIDE DEF n, Q
<1>3. f = [i \in 1 .. n |-> FlatTurn(seqs, f, i)]
  BY <1>2, FlatTurnsExist
<1> HIDE DEF f
<1>4. fl[0] = <<>> /\ \A i \in 1 .. n : fl[i] = f[i] /\ f[i] = FlatTurn(seqs, f, i)
  <2>1. n \in Nat
    BY <1>2
  <2>2. 0 \in 0 .. n /\ \A i \in 1 .. n : i \in 0 .. n /\ i # 0
    BY ONLY <2>1
  <2>3. \A i \in 1 .. n : fl[i] = f[i]
    BY ONLY <2>2
  <2>4. fl[0] = <<>>
    BY ONLY <2>2
  <2>5. \A i \in 1 .. n : f[i] = FlatTurn(seqs, f, i)
    BY ONLY <1>3, Zenon
  <2> HIDE DEF fl
  <2> QED
    BY ONLY <2>3, <2>4, <2>5
<1>5. \A i \in 1 .. n : i # 1 => i - 1 \in 1 .. n
  BY <1>2
<1>7. FlattenSeq(seqs) = fl[n]
  <2>1. n = 0 \/ n \in 1 .. n
    BY <1>2
  <2> QED
    BY <1>1, <1>2, <1>4, <2>1
<1> HIDE DEF fl
<1>6. \A i \in 1 .. n : fl[i] = fl[i - 1] \o seqs[i]
  <2> TAKE i \in 1 .. n
  <2>1. CASE i = 1
    <3>1. fl[i] = seqs[i] /\ i - 1 = 0 /\ seqs[i] \in Q
      BY <1>2, <1>4, <2>1 DEF FlatTurn
    <3> QED
      BY <1>q, <1>4, <3>1
  <2>2. CASE i # 1
    BY <1>4, <1>5, <2>2 DEF FlatTurn
  <2> QED
    BY <2>1, <2>2
<1> DEFINE S == {i \in Nat : i \in 0 .. n => fl[i] \in Q}
<1>8. 0 \in S
  BY <1>q, <1>4
<1>9. ASSUME NEW i \in Nat, i \in S PROVE i + 1 \in S
  <2> SUFFICES ASSUME i + 1 \in 0 .. n PROVE fl[i + 1] \in Q
    OBVIOUS
  <2>1. i \in 0 .. n /\ i + 1 \in 1 .. n /\ (i + 1) - 1 = i
    BY <1>2
  <2>2. fl[i + 1] = fl[i] \o seqs[i + 1] /\ fl[i] \in Q /\ seqs[i + 1] \in Q
    BY <1>2, <1>6, <1>9, <2>1
  <2> QED
    BY <1>q, <2>2
<1> HIDE DEF S
<1>10. Nat \subseteq S
  BY <1>8, <1>9, AllNumbers
<1>11. \A i \in 0 .. n : fl[i] \in Q
  BY <1>2, <1>10 DEF S
<1> QED
  BY <1>4, <1>6, <1>7, <1>11 DEF FlatRun, n, Q

\* Sequences that begin alike have the same elements in their first sequences.
LEMMA FlatSame ==
    ASSUME NEW E, NEW s, NEW t, NEW fs, NEW ft, FlatRun(E, s, fs), FlatRun(E, t, ft),
           NEW k \in Nat, Len(s) \in Nat, Len(t) \in Nat, k =< Len(s), k =< Len(t),
           \A i \in 1 .. k : s[i] = t[i]
    PROVE  fs[k] = ft[k]
<1> DEFINE S == {i \in Nat : i =< k => fs[i] = ft[i]}
<1>1. 0 \in S
  BY DEF FlatRun
<1>2. ASSUME NEW i \in Nat, i \in S PROVE i + 1 \in S
  <2> SUFFICES ASSUME i + 1 =< k PROVE fs[i + 1] = ft[i + 1]
    OBVIOUS
  <2>1. i + 1 \in 1 .. Len(s) /\ i + 1 \in 1 .. Len(t) /\ i + 1 \in 1 .. k /\ i =< k /\ (i + 1) - 1 = i
    OBVIOUS
  <2>2. fs[i + 1] = fs[i] \o s[i + 1] /\ ft[i + 1] = ft[i] \o t[i + 1]
    BY <2>1 DEF FlatRun
  <2>3. fs[i] = ft[i] /\ s[i + 1] = t[i + 1]
    BY <1>2, <2>1
  <2> QED
    BY ONLY <2>2, <2>3
<1> HIDE DEF S
<1>3. k \in S
  BY <1>1, <1>2, AllNumbers
<1> QED
  BY <1>3 DEF S

\* What Append changes, and what it leaves.
LEMMA AppendFacts ==
    ASSUME NEW S, NEW s \in Seq(S), NEW e \in S
    PROVE  /\ Append(s, e) \in Seq(S) /\ Len(Append(s, e)) = Len(s) + 1
           /\ Append(s, e)[Len(s) + 1] = e
           /\ \A i \in 1 .. Len(s) : Append(s, e)[i] = s[i]
  OBVIOUS

\* The words of the tiers with a new tier.
LEMMA FlattenAppend ==
    ASSUME NEW E, NEW ts, ts \in Seq(Seq(E)), NEW t \in Seq(E)
    PROVE  /\ FlattenSeq(ts) \in Seq(E)
           /\ FlattenSeq(Append(ts, t)) = FlattenSeq(ts) \o t
<1> DEFINE Q == Seq(E)
           n == Len(ts)
           us == Append(ts, t)
<1>1. us \in Seq(Q) /\ Len(us) = n + 1 /\ us[n + 1] = t /\ \A i \in 1 .. n : us[i] = ts[i]
  BY AppendFacts
<1>2. n \in Nat
  BY SequenceFacts
<1> HIDE DEF us
<1>3. PICK fl : FlatRun(E, ts, fl) /\ FlattenSeq(ts) = fl[n]
  BY FlatRunExists
<1>4. PICK fu : FlatRun(E, us, fu) /\ FlattenSeq(us) = fu[Len(us)]
  BY <1>1, FlatRunExists
<1> HIDE DEF n, Q
<1>5. fl[n] = fu[n]
  <2>1. Len(ts) = n /\ Len(ts) \in Nat /\ Len(us) \in Nat /\ n =< Len(ts) /\ n =< Len(us)
    BY <1>1, <1>2 DEF n
  <2> QED
    BY ONLY <1>1, <1>2, <1>3, <1>4, <2>1, FlatSame
<1>6. fl[n] \in Seq(E)
  <2>1. n \in 0 .. Len(ts)
    BY <1>2 DEF n
  <2> QED
    BY <1>3, <2>1 DEF FlatRun
<1>7. fu[n + 1] = fu[n] \o t
  <2>0. Len(us) = n + 1
    BY <1>1
  <2>1. n + 1 \in 1 .. Len(us) /\ (n + 1) - 1 = n
    BY ONLY <1>2, <2>0
  <2>2. fu[n + 1] = fu[(n + 1) - 1] \o us[n + 1]
    BY <1>4, <2>1 DEF FlatRun
  <2> QED
    BY ONLY <1>1, <2>1, <2>2
<1> QED
  BY <1>1, <1>3, <1>4, <1>5, <1>6, <1>7 DEF us

\* The guides below directory d, after the indentation.
GuidesOf(d) == [i \in 1 .. Len(d) |-> Listing!Guide(Prefix(d, i))]

\* The prefix of the lines in a directory, behind that of its own line.
BelowPrefix(d) == start \o FlattenSeq(GuidesOf(d))

\* The bytes of the indentation and of the guides.
Bytes == STRING \union {"bar1", "bar2", "bar3", " "}

\* A guide is one of the two strings.
LEMMA GuideIs ==
    /\ \A p : Listing!Guide(p) \in {sub, sub_last}
    /\ sub \in Seq(Bytes) /\ sub_last \in Seq(Bytes) /\ start \in Seq(Bytes)
<1>0. ASSUME NEW S, NEW a \in S, NEW b \in S, NEW c \in S, NEW d \in S
      PROVE  <<a, b, c, d, d, d>> \in Seq(S) /\ <<d, d, d, d>> \in Seq(S)
  <2>1. <<a, b, c, d, d, d>> \in Seq(S)
    OBVIOUS
  <2>2. <<d, d, d, d>> \in Seq(S)
    OBVIOUS
  <2> QED
    BY <2>1, <2>2
<1>1. "bar1" \in Bytes /\ "bar2" \in Bytes /\ "bar3" \in Bytes /\ " " \in Bytes
  BY DEF Bytes
<1>2. sub \in Seq(Bytes) /\ sub_last \in Seq(Bytes)
  BY <1>0, <1>1, Zenon DEF sub, sub_last
<1>3. \A p : Listing!Guide(p) \in {sub, sub_last}
  BY DEF Listing!Guide
<1>4. start \in Seq(Bytes)
  <2>1. \A S, T : S \subseteq T => Seq(S) \subseteq Seq(T)
    OBVIOUS
  <2>2. STRING \subseteq Bytes
    BY DEF Bytes
  <2> QED
    BY <2>1, <2>2, StartAssumption
<1> QED
  BY <1>2, <1>3, <1>4

\* The guides below a directory are one more than those left of its line.
LEMMA GuidesGrow ==
    ASSUME NEW d \in Seq(Nat), NEW x \in Nat
    PROVE  LET p == Append(d, x)
           IN  /\ GuidesOf(d) \in Seq(Seq(Bytes))
               /\ GuidesOf(p) = Append(GuidesOf(d), Listing!Guide(p))
               /\ [i \in 1 .. Len(p) - 1 |-> Listing!Guide(Prefix(p, i))] = GuidesOf(d)
<1> DEFINE p == Append(d, x)
           Q == Seq(Bytes)
           n == Len(d)
<1>1. n \in Nat /\ p \in Seq(Nat) /\ Len(p) = n + 1 /\ \A i \in 1 .. n : p[i] = d[i]
  BY PathFacts, AppendedPath
<1>2. \A r : Listing!Guide(r) \in Q
  BY GuideIs
<1> HIDE DEF Q, p
<1>3. \A i \in 1 .. n : Prefix(p, i) = Prefix(d, i)
  <2> TAKE i \in 1 .. n
  <2>1. i \in Nat /\ i <= Len(p) /\ i <= Len(d) /\ \A j \in 1 .. i : j \in 1 .. n
    BY <1>1
  <2> QED
    BY <1>1, <2>1, SamePrefix
<1>4. Prefix(p, n + 1) = p
  BY <1>1, WholePath
<1> HIDE DEF n
<1> DEFINE g == GuidesOf(d)
<1>5. g = [i \in 1 .. n |-> Listing!Guide(Prefix(d, i))]
  BY DEF GuidesOf, n
<1>6. g \in Seq(Q) /\ Len(g) = n /\ \A i \in 1 .. n : g[i] = Listing!Guide(Prefix(d, i))
  BY <1>1, <1>2, <1>5
<1>7. GuidesOf(p) = [i \in 1 .. n + 1 |-> Listing!Guide(Prefix(p, i))]
  BY <1>1 DEF GuidesOf
<1> HIDE DEF g
<1> DEFINE h == Append(g, Listing!Guide(p))
<1>8. h \in Seq(Q) /\ Len(h) = n + 1 /\ h[n + 1] = Listing!Guide(p)
      /\ \A i \in 1 .. n : h[i] = g[i]
  BY <1>2, <1>6, AppendFacts
<1> HIDE DEF h
<1>9. h = [i \in 1 .. n + 1 |-> h[i]]
  BY <1>8
<1>10. \A i \in 1 .. n + 1 : h[i] = Listing!Guide(Prefix(p, i))
  <2> TAKE i \in 1 .. n + 1
  <2>1. i = n + 1 \/ i \in 1 .. n
    BY <1>1
  <2> QED
    BY <1>3, <1>4, <1>6, <1>8, <2>1
<1>11. GuidesOf(p) = h
  BY <1>7, <1>9, <1>10
<1>12. [i \in 1 .. Len(p) - 1 |-> Listing!Guide(Prefix(p, i))] = g
  <2>1. Len(p) - 1 = n
    BY <1>1
  <2>2. [i \in 1 .. n |-> Listing!Guide(Prefix(p, i))] = g
    BY <1>3, <1>5
  <2> QED
    BY <2>1, <2>2
<1> QED
  BY <1>6, <1>11, <1>12 DEF g, h, p, Q

\* What the printer adds to prefix_ when it enters a directory is its guide.
LEMMA PrefixGrows ==
    ASSUME NEW d \in Seq(Nat), NEW x \in Nat
    PROVE  LET p == Append(d, x)
           IN  /\ BelowPrefix(d) \in Seq(Bytes)
               /\ BelowPrefix(p) = BelowPrefix(d) \o Listing!Guide(p)
               /\ Listing!Line(p).prefix = BelowPrefix(d)
<1> DEFINE p == Append(d, x)
           g == Listing!Guide(p)
           f == FlattenSeq(GuidesOf(d))
<1>1. /\ GuidesOf(d) \in Seq(Seq(Bytes))
      /\ GuidesOf(p) = Append(GuidesOf(d), g)
      /\ [i \in 1 .. Len(p) - 1 |-> Listing!Guide(Prefix(p, i))] = GuidesOf(d)
  BY GuidesGrow
<1>2. g \in Seq(Bytes) /\ start \in Seq(Bytes)
  BY GuideIs
<1>3. f \in Seq(Bytes) /\ FlattenSeq(GuidesOf(p)) = f \o g
  BY <1>1, <1>2, FlattenAppend
<1>4. p # <<>>
  <2>1. Len(p) = Len(d) + 1 /\ Len(d) \in Nat
    BY AppendedPath, PathFacts
  <2>2. Len(<<>>) = 0 /\ \A n \in Nat : n + 1 # 0
    OBVIOUS
  <2> QED
    BY ONLY <2>1, <2>2
<1> HIDE DEF p, g, f
<1>5. Listing!Line(p).prefix = start \o f
  BY <1>1, <1>4, SameWords DEF Listing!Line, Listing!Name, f
<1>6. start \o f \in Seq(Bytes) /\ start \o (f \o g) = (start \o f) \o g
  BY <1>2, <1>3
<1>7. BelowPrefix(d) = start \o f /\ BelowPrefix(p) = start \o (f \o g)
  BY <1>3 DEF BelowPrefix, f
<1> QED
  BY <1>5, <1>6, <1>7 DEF p, g

\* Left of the lines of the root there is the indentation.
LEMMA PrefixOfRoot == BelowPrefix(<<>>) = start
<1> DEFINE e == <<>>
           Q == Seq(Bytes)
<1>1. GuidesOf(<<>>) = e
  BY DEF GuidesOf
<1>2. e \in Seq(Q) /\ Len(e) = 0
  OBVIOUS
<1> HIDE DEF e
<1>3. e \in Seq(Seq(Bytes))
  BY <1>2 DEF Q
<1>4. PICK fl : FlatRun(Bytes, e, fl) /\ FlattenSeq(e) = fl[Len(e)]
  BY <1>3, FlatRunExists
<1>5. FlattenSeq(e) = <<>>
  BY <1>2, <1>4 DEF FlatRun
<1>6. start \o <<>> = start
  BY GuideIs
<1> QED
  BY <1>1, <1>5, <1>6 DEF BelowPrefix

\* A sequence without its second part.
LEMMA WithoutEnd ==
    ASSUME NEW S, NEW s \in Seq(S), NEW t \in Seq(S)
    PROVE  SubSeq(s \o t, 1, Len(s \o t) - Len(t)) = s
  OBVIOUS

-----------------------------------------------------------------------------
(* The walk *)

\* A frame of the walk: a directory, its content, and the entry it has come to.
FrameType == [path : Seq(Nat), content : Seq(Element), index : Nat]

\* A line of the output.
LineType == [path : Seq(Nat), entry : Nat, node : {"none", "node", "end"},
             prefix : Seq(Bytes), size : Nat]

\* The paths printed so far.
Printed == {output[i].path : i \in 1 .. Len(output)}

\* The frames are those of the directories on the way from the root to the one that is
\* walked, each with its content, and all but the last stand behind the entry the next
\* is of; prefix_ has the guides of that way.
StackInv ==
    /\ stack \in Seq(FrameType) /\ Len(stack) # 0
    /\ stack[1].path = <<>>
    /\ \A j \in 1 .. Len(stack) :
          /\ stack[j].path \in DOMAIN index.directories
          /\ IsContent(stack[j].path, stack[j].content)
          /\ stack[j].index <= Len(stack[j].content)
    /\ \A j \in 1 .. Len(stack) - 1 :
          /\ stack[j].index # 0
          /\ stack[j + 1].path =
                Append(stack[j].path, stack[j].content[stack[j].index].name)
    /\ prefix_ = BelowPrefix(top.path)

\* Every line is of another entry, and of the file of its path when there is one.
OutputInv ==
    /\ output \in Seq(LineType)
    /\ \A i \in 1 .. Len(output) :
          /\ output[i].path \in Listing!Entries
          /\ output[i].entry # 0 =>
                /\ output[i].entry \in DOMAIN files
                /\ files[output[i].entry].path = output[i].path
                /\ list_padding \/ ~files[output[i].entry].pad
          /\ output[i].entry = 0 =>
                \A k \in DOMAIN files : files[k].path # output[i].path
    /\ Cardinality(Printed) = Len(output)

\* What is not printed yet comes after the entry the walk is at.
RemainingInv ==
    \A q \in Listing!Entries :
        q \notin Printed <=> Remaining(top.path, top.content, top.index, q)

\* Every file that is listed has its line.
FilesPrinted ==
    \A k \in DOMAIN files :
        list_padding \/ ~files[k].pad => files[k].path \in Printed

\* The printer between two steps of the walk.
PrinterInv ==
    /\ metafile \in Metafiles /\ caller \in {"info", "verify"} /\ list_padding \in BOOLEAN
    /\ walk \in {"none", "start", "name", "walk", "done"}
    /\ walk \in {"none", "start", "name"} => output = <<>>
    /\ walk \in {"start", "walk"} => Indexed
    /\ walk = "start" => prefix_ = start /\ (metafile.single => caller = "verify")
    /\ walk = "name" => metafile.single /\ caller = "info"
    /\ walk = "walk" => ~metafile.single /\ StackInv /\ OutputInv /\ RemainingInv
    /\ walk = "done" =>
          /\ output \in Seq(LineType) /\ Len(output) = Cardinality(Listing!Entries)
          /\ caller = "verify" => OutputInv /\ FilesPrinted

\* The printer as the commands leave it.
CommandInv ==
    /\ command = "none" => walk \in {"none", "done"}
    /\ command = "pad" => walk = "none"
    /\ command = "info" => caller = "info"
    /\ command = "verify" =>
          /\ caller = "verify" /\ ~list_padding
          /\ percentages \in [DOMAIN files -> {0, 100}]

\* The lines TreeListing sees.
LineOf(r) == [path |-> r.path, node |-> r.node, prefix |-> r.prefix, size |-> r.size]

\* The output as TreeListing shows it.
TheLines == [i \in DOMAIN output |-> LineOf(output[i])]

\* What the printer is made with does not change while it walks, so what follows from it
\* does not either.
LEMMA Steady ==
    ASSUME metafile' = metafile, list_padding' = list_padding, caller' = caller,
           index' = index
    PROVE  /\ files' = files /\ Indexed' = Indexed
           /\ \A d, c : IsContent(d, c)' <=> IsContent(d, c)
           /\ Listing!Entries' = Listing!Entries
           /\ \A d : BelowPrefix(d)' = BelowPrefix(d)
<1>1. files' = files
  BY DEF files
<1>2. \A p : TheIndex(p)' = TheIndex(p)
  <2>1. create_sorted_file_indices' = create_sorted_file_indices
    BY <1>1 DEF create_sorted_file_indices
  <2>2. \A i : RootNode(i)' = RootNode(i)
    BY <1>1 DEF RootNode, SizeOf
  <2>3. \A D, i, f : AddFile(D, i, f)' = AddFile(D, i, f)
    BY DEF AddFile
  <2>4. \A s : create_directory_map(s)' = create_directory_map(s)
    BY <1>1, <2>2, <2>3 DEF create_directory_map
  <2>5. \A d : is_padding_directory(d)' <=> is_padding_directory(d)
    BY <1>1 DEF is_padding_directory
  <2>6. \A D : remove_padding_file_only_directories(D)' = remove_padding_file_only_directories(D)
    BY <2>5 DEF remove_padding_file_only_directories
  <2> QED
    BY <2>1, <2>4, <2>6 DEF TheIndex
<1>3. Indexed' = Indexed
  BY <1>2 DEF Indexed
<1>4. \A q : Visible(q)' <=> Visible(q)
  BY <1>1 DEF Visible
<1>5. \A d, e : EntryOk(d, e)' <=> EntryOk(d, e)
  BY <1>1, <1>4 DEF EntryOk
<1>6. \A d, c : IsContent(d, c)' <=> IsContent(d, c)
  BY <1>4, <1>5 DEF IsContent
<1>7. Listing!Entries' = Listing!Entries
  BY <1>1 DEF Listing!Entries, Listing!Shown, Listing!Ancestors, Listing!Prefix, Listing!Name
<1>8. \A p : Listing!Guide(p)' = Listing!Guide(p)
  BY <1>7 DEF Listing!Guide, Listing!IsLast, Listing!Siblings, Listing!PathLess,
              Listing!IsStrictPrefix, Listing!IsPrefix, Listing!Front, Listing!Name
<1>9. \A d : BelowPrefix(d)' = BelowPrefix(d)
  BY <1>8 DEF BelowPrefix, GuidesOf
<1> QED
  BY <1>1, <1>3, <1>6, <1>7, <1>9

\* As many lines as are printed, and another one with every entry printed.
LEMMA LinesFacts ==
    ASSUME output \in Seq(LineType)
    PROVE  /\ Len(output) \in Nat /\ DOMAIN output = 1 .. Len(output)
           /\ Len(TheLines) = Len(output)
           /\ \A r : output' = Append(output, r)
                        => /\ TheLines' = Append(TheLines, LineOf(r))
                           /\ Printed' = Printed \union {r.path}
           /\ IsFiniteSet(Printed)
<1> DEFINE n == Len(output)
           o == output
<1>1. n \in Nat /\ DOMAIN o = 1 .. n
  OBVIOUS
<1>2. TheLines = [i \in 1 .. n |-> LineOf(o[i])]
  BY <1>1 DEF TheLines
<1>3. Len(TheLines) = n
  BY <1>1, <1>2
<1>4. ASSUME NEW r, output' = Append(o, r)
      PROVE  /\ TheLines' = Append(TheLines, LineOf(r))
             /\ Printed' = Printed \union {r.path}
  <2> DEFINE u == Append(o, r)
  <2>1. /\ Len(u) = n + 1 /\ u[n + 1] = r /\ DOMAIN u = 1 .. n + 1
        /\ \A i \in 1 .. n : u[i] = o[i]
    BY <1>1
  <2>2. TheLines' = [i \in 1 .. n + 1 |-> LineOf(u[i])]
    BY <1>4, <2>1 DEF TheLines, LineOf
  <2>3. \A i : i \in 1 .. n + 1 <=> i \in 1 .. n \/ i = n + 1
    BY <1>1
  <2>4. Printed' = {u[i].path : i \in 1 .. n + 1}
    BY <1>4, <2>1 DEF Printed
  <2>5. Printed = {o[i].path : i \in 1 .. n}
    BY DEF Printed
  <2> HIDE DEF u, o
  <2>6. Printed' = Printed \union {r.path}
    BY <2>1, <2>3, <2>4, <2>5
  <2> DEFINE t == TheLines
  <2>7. t = [i \in 1 .. n |-> LineOf(o[i])]
    BY <1>2
  <2> HIDE DEF t, n
  <2>8. Append(t, LineOf(r)) = [i \in 1 .. n + 1 |-> IF i = n + 1 THEN LineOf(r) ELSE LineOf(o[i])]
    <3>1. Len(t) = n
      BY <1>3 DEF t
    <3> QED
      BY <1>1, <2>7, <3>1 DEF Append
  <2>9. \A i \in 1 .. n + 1 :
            LineOf(u[i]) = IF i = n + 1 THEN LineOf(r) ELSE LineOf(o[i])
    BY <2>1, <2>3
  <2> QED
    BY <2>2, <2>6, <2>8, <2>9 DEF t
<1>5. IsFiniteSet(Printed)
  <2> DEFINE g == [i \in 1 .. n |-> o[i].path]
  <2>1. Printed = {g[i] : i \in 1 .. n}
    BY DEF Printed
  <2>2. IsFiniteSet(1 .. n)
    BY <1>1, FS_Interval
  <2> HIDE DEF g, n
  <2>3. IsFiniteSet({g[i] : i \in 1 .. n})
    BY <2>2, FiniteImage
  <2> QED
    BY <2>1, <2>3
<1> QED
  BY <1>1, <1>3, <1>4, <1>5

\* The line after those that are printed is the one of the entry before which all of
\* them are, and no other.
LEMMA NextLineIs ==
    ASSUME output \in Seq(LineType), Cardinality(Printed) = Len(output),
           IsFiniteSet(Listing!Entries), \A q \in Listing!Entries : q \in Seq(Nat),
           Printed \subseteq Listing!Entries, NEW p \in Listing!Entries,
           \A q \in Listing!Entries : q \in Printed <=> PathLess(q, p)
    PROVE  ~Listing!Complete /\ Listing!Entry(Len(output)) = p
<1> DEFINE E == Listing!Entries
           id == [q \in E |-> q]
<1>1. Distinct(E, id)
  BY DEF Distinct
<1>2. \A r \in E : Rank(E, id, r) = Cardinality({q \in E : PathLess(q, r)})
  BY DEF Rank
<1>3. {q \in E : PathLess(q, p)} = Printed
  OBVIOUS
<1> HIDE DEF E, id
<1>4. Rank(E, id, p) = Len(output) /\ p \in E
  BY <1>2, <1>3 DEF E
<1>5. \A r \in E : Cardinality({q \in E : PathLess(q, r)}) = Len(output) => r = p
  BY <1>1, <1>2, <1>4, RankUnique
<1>6. Listing!Entry(Len(output)) =
        CHOOSE r \in E : Cardinality({q \in E : PathLess(q, r)}) = Len(output)
  BY SameWords DEF Listing!Entry, E
<1>7. Listing!Entry(Len(output)) = p
  BY <1>2, <1>4, <1>5, <1>6
<1>8. Len(output) # Cardinality(E)
  <2>1. Rank(E, id, p) \in 0 .. Cardinality(E) - 1 /\ IsFiniteSet(E)
    BY <1>1, <1>4, RankBound DEF Distinct
  <2>2. Cardinality(E) \in Nat
    BY <2>1, FS_CardinalityType
  <2> QED
    BY <1>4, <2>1, <2>2
<1>9. Listing!Complete <=> Len(TheLines) = Cardinality(E)
  BY SameWords DEF Listing!Complete, TheLines, LineOf, E
<1> QED
  BY <1>7, <1>8, <1>9, LinesFacts

\* Another path is printed.
LEMMA OneMorePrinted ==
    ASSUME output \in Seq(LineType), Cardinality(Printed) = Len(output),
           NEW r, r \in LineType, r.path \notin Printed, output' = Append(output, r)
    PROVE  /\ output' \in Seq(LineType) /\ Len(output') = Len(output) + 1
           /\ output'[Len(output) + 1] = r
           /\ \A i \in 1 .. Len(output) : output'[i] = output[i]
           /\ Cardinality(Printed') = Len(output')
<1>1. Printed' = Printed \union {r.path} /\ IsFiniteSet(Printed)
  BY LinesFacts
<1>2. Cardinality(Printed') = Cardinality(Printed) + 1
  BY <1>1, FS_AddElement
<1>3. /\ output' \in Seq(LineType) /\ Len(output') = Len(output) + 1
      /\ output'[Len(output) + 1] = r
      /\ \A i \in 1 .. Len(output) : output'[i] = output[i]
  BY AppendFacts
<1> QED
  BY <1>2, <1>3

\* What print_entry prints for an entry of the content is its line in the listing.
LEMMA LineOfEntry ==
    ASSUME Indexed, ~metafile.single, NEW d \in DOMAIN index.directories,
           NEW c, IsContent(d, c), NEW j \in 1 .. Len(c), prefix_ = BelowPrefix(d)
    PROVE  LET r == print_entry(d, c[j], IF j = Len(c) THEN "end" ELSE "node")
           IN  /\ r \in LineType /\ r.path = Append(d, c[j].name) /\ r.entry = c[j].entry
               /\ LineOf(r) = Listing!Line(Append(d, c[j].name))
<1> DEFINE e == c[j]
           q == Append(d, e.name)
           node == IF j = Len(c) THEN "end" ELSE "node"
           r == print_entry(d, e, node)
           size == IF e.entry # 0 THEN files[e.entry].size ELSE get_directory_size(q)
<1>1. e \in Element /\ e.name \in Nat /\ e.entry \in Nat /\ EntryOk(d, e) /\ d \in Seq(Nat)
  BY ContentNames, DirectoryFacts
<1>2. /\ q \in Seq(Nat) /\ q # <<>>
      /\ Listing!Node(q) = node
  BY EntryGuides
<1>3. Listing!SizeBelow(q) = size
  BY <1>1, EntrySizes
<1>4. Listing!Line(q).prefix = prefix_ /\ prefix_ \in Seq(Bytes)
  BY <1>1, PrefixGrows
<1>5. size \in Nat
  <2>1. metafile \in Metafiles
    BY DEF Indexed
  <2>2. CASE e.entry = 0
    <3>1. q \in DOMAIN index.directories
      BY <1>1, <2>2 DEF EntryOk
    <3>2. get_directory_size(q) = Total(SizeOfFile, FilesBelow(q))
      BY <1>2, <3>1, DirectoryFacts
    <3>3. FilesBelow(q) \in SUBSET Range(files)
      BY DEF FilesBelow
    <3> QED
      BY <2>1, <2>2, <3>2, <3>3, FileSums
  <2>3. CASE e.entry # 0
    BY <1>1, <2>1, <2>3, StorageFacts DEF EntryOk
  <2> QED
    BY <2>2, <2>3
<1>6. r = [path |-> q, entry |-> e.entry, node |-> node, prefix |-> prefix_,
           size |-> IF caller = "info" THEN size ELSE 0]
  BY DEF print_entry
<1>7. Listing!Line(q) = [path |-> q, node |-> Listing!Node(q), prefix |-> Listing!Line(q).prefix,
                         size |-> IF caller = "info" THEN Listing!SizeBelow(q) ELSE 0]
  <2>1. q # Listing!Name
    BY <1>2 DEF Listing!Name
  <2> QED
    BY <2>1 DEF Listing!Line
<1>8. node \in {"none", "node", "end"}
  OBVIOUS
<1> HIDE DEF e, q, node, size, r
<1>9. /\ r \in LineType /\ r.path = q /\ r.entry = e.entry
      /\ LineOf(r) = [path |-> q, node |-> node, prefix |-> prefix_,
                      size |-> IF caller = "info" THEN size ELSE 0]
  BY <1>1, <1>2, <1>4, <1>5, <1>6, <1>8 DEF LineType, LineOf
<1>10. LineOf(r) = Listing!Line(q)
  BY <1>2, <1>3, <1>4, <1>7, <1>9
<1> QED
  BY <1>9, <1>10 DEF e, q, node, r

\* The root is above everything and comes before it.
LEMMA RootFirst ==
    ASSUME NEW q \in Seq(Nat)
    PROVE  /\ <<>> \in Seq(Nat)
           /\ ~PathLess(q, <<>>) /\ ~Before(<<>>, q)
           /\ IsStrictPrefix(<<>>, q) <=> q # <<>>
<1> DEFINE e == <<>>
<1>1. e \in Seq(Nat) /\ Len(e) = 0 /\ DOMAIN e = {}
  OBVIOUS
<1>2. q # e <=> Len(q) # 0
  BY EmptySeq
<1>3. Len(q) \in Nat
  BY PathFacts
<1> HIDE DEF e
<1>4. ~IsStrictPrefix(q, e)
  <2>1. ~(Len(q) < 0)
    BY <1>3
  <2> QED
    BY <1>1, <2>1, PrefixMeans
<1>5. ~Before(q, e) /\ ~Before(e, q)
  <2>1. \A i : i \notin DOMAIN e
    BY <1>1
  <2> QED
    BY ONLY <2>1, Zenon DEF Before, Splits
<1>6. ~PathLess(q, e)
  BY <1>1, <1>4, <1>5, LessMeans
<1>7. IsStrictPrefix(e, q) <=> q # e
  <2>1. \A i \in 1 .. 0 : FALSE
    OBVIOUS
  <2>2. 0 < Len(q) <=> Len(q) # 0
    BY <1>3
  <2> QED
    BY <1>1, <1>2, <2>1, <2>2, PrefixMeans
<1> QED
  BY <1>1, <1>5, <1>6, <1>7 DEF e

\* No file has the path of a directory.
LEMMA DirectoryIsNoFile ==
    ASSUME Indexed, NEW d \in DOMAIN index.directories
    PROVE  \A k \in DOMAIN files : files[k].path # d
<1> SUFFICES ASSUME NEW k \in DOMAIN files, files[k].path = d PROVE FALSE
  OBVIOUS
<1>1. d # <<>> /\ metafile \in Metafiles
  BY StorageFacts DEF Indexed
<1>2. PICK l \in 1 .. Len(files) : IsStrictPrefix(d, SortedPath(l))
  BY <1>1, DirectoryFacts
<1>3. PICK m \in 1 .. Len(files) : index.indices[m] = k
  BY PlacesFacts
<1>4. SortedPath(m) = d
  BY <1>3 DEF SortedPath
<1>5. m = l
  BY <1>2, <1>4, PlacesFacts DEF IsStrictPrefix
<1> QED
  BY <1>2, <1>4, <1>5 DEF IsStrictPrefix

\* All but the last of a sequence, and with another last.
LEMMA FrontFacts ==
    ASSUME NEW S, NEW s \in Seq(S), Len(s) # 0
    PROVE  /\ Len(s) \in Nat /\ Len(s) \in 1 .. Len(s)
           /\ Front(s) \in Seq(S) /\ Len(Front(s)) = Len(s) - 1
           /\ \A i \in 1 .. Len(s) - 1 : i \in 1 .. Len(s) /\ Front(s)[i] = s[i]
           /\ \A e \in S : /\ Append(Front(s), e) \in Seq(S)
                           /\ Len(Append(Front(s), e)) = Len(s)
                           /\ Append(Front(s), e)[Len(s)] = e
                           /\ \A i \in 1 .. Len(s) - 1 : Append(Front(s), e)[i] = s[i]
<1> DEFINE n == Len(s)
           f == SubSeq(s, 1, n - 1)
<1>1. n \in Nat /\ n # 0 /\ \A i \in 1 .. n : s[i] \in S
  OBVIOUS
<1>2. \A m \in Nat : m # 0 =>
        /\ 1 \in Int /\ m - 1 \in Int /\ m - 1 \in Nat /\ m \in 1 .. m
        /\ (m - 1) - 1 + 1 = m - 1 /\ (m - 1) + 1 = m
        /\ (IF 1 <= m - 1 THEN (m - 1) - 1 + 1 ELSE 0) = m - 1
        /\ \A i \in 1 .. m - 1 : 1 + i - 1 = i /\ i \in 1 .. m
  OBVIOUS
<1> HIDE DEF n
<1>3. /\ 1 \in Int /\ n - 1 \in Int /\ n - 1 \in Nat /\ n \in 1 .. n
      /\ (n - 1) - 1 + 1 = n - 1 /\ (n - 1) + 1 = n
      /\ (IF 1 <= n - 1 THEN (n - 1) - 1 + 1 ELSE 0) = n - 1
      /\ \A i \in 1 .. n - 1 : 1 + i - 1 = i /\ i \in 1 .. n
  BY <1>1, <1>2
<1>4. f \in Seq(S) /\ Len(f) = n - 1 /\ \A i \in 1 .. n - 1 : f[i] = s[i]
  BY <1>1, <1>3, SubSeqProperties
<1>5. Front(s) = f
  BY DEF Front, n
<1> HIDE DEF f
<1>6. ASSUME NEW e \in S
      PROVE  /\ Append(f, e) \in Seq(S) /\ Len(Append(f, e)) = n /\ Append(f, e)[n] = e
             /\ \A i \in 1 .. n - 1 : Append(f, e)[i] = s[i]
  BY <1>3, <1>4, AppendFacts
<1> QED
  BY <1>1, <1>3, <1>4, <1>5, <1>6 DEF n

\* Printing the line of the entry that comes next is a step of TreeListing.
LEMMA PrintsNext ==
    ASSUME output \in Seq(LineType), Cardinality(Printed) = Len(output),
           IsFiniteSet(Listing!Entries), \A q \in Listing!Entries : q \in Seq(Nat),
           Printed \subseteq Listing!Entries, NEW p \in Listing!Entries,
           \A q \in Listing!Entries : q \in Printed <=> PathLess(q, p),
           NEW r, LineOf(r) = Listing!Line(p), output' = Append(output, r),
           UNCHANGED <<metafile, caller, list_padding>>
    PROVE  Listing!PrintLine
<1>1. ~Listing!Complete /\ Listing!Entry(Len(output)) = p
  BY NextLineIs
<1>2. Len(TheLines) = Len(output) /\ TheLines' = Append(TheLines, LineOf(r))
  BY LinesFacts
<1>3. TheLines' = Append(TheLines, Listing!Line(Listing!Entry(Len(TheLines))))
  BY <1>1, <1>2
<1>4. files' = files
  BY DEF files
<1> QED
  BY <1>1, <1>3, <1>4 DEF Listing!PrintLine, TheLines, LineOf

\* The line of the name is the first of the listing, where it is one of its entries.
LEMMA NameFirst ==
    ASSUME NEW w \in Seq(Bytes), w = Listing!NamePrefix,
           output = <<>>, output' = <<NameLine(w)>>, <<>> \in Listing!Entries,
           IsFiniteSet(Listing!Entries), \A q \in Listing!Entries : q \in Seq(Nat),
           UNCHANGED <<metafile, caller, list_padding>>
    PROVE  /\ Listing!PrintLine
           /\ Printed' = {<<>>} /\ Len(output') = 1 /\ output' \in Seq(LineType)
           /\ output'[1].path = <<>> /\ output'[1].entry = 0
           /\ Cardinality(Printed') = 1
<1> DEFINE e == <<>>
           r == [path |-> e, entry |-> 0, node |-> "none", prefix |-> w, size |-> 0]
<1>1. output \in Seq(LineType) /\ Len(output) = 0
  OBVIOUS
<1>2. e \in Seq(Nat)
  OBVIOUS
<1>3. NameLine(w) = r
  BY DEF NameLine
<1>4. output' = Append(output, r)
  BY <1>3
<1> HIDE DEF e
<1>5. r \in LineType /\ r.path = e /\ r.entry = 0
  BY <1>2 DEF LineType
<1>6. LineOf(r) = [path |-> e, node |-> "none", prefix |-> w, size |-> 0]
  BY DEF LineOf
<1> HIDE DEF r
<1>7. Printed = {}
  <2>1. 1 .. 0 = {}
    OBVIOUS
  <2> QED
    BY <1>1, <2>1 DEF Printed
<1>8. Cardinality(Printed) = Len(output)
  BY <1>1, <1>7, FS_EmptySet
<1>9. LineOf(r) = Listing!Line(e)
  BY <1>6 DEF Listing!Line, Listing!Node, Listing!Name, e
<1>10. \A q \in Listing!Entries : q \in Printed <=> PathLess(q, e)
  BY <1>7, RootFirst DEF e
<1>11. Listing!PrintLine
  <2>1. e \in Listing!Entries /\ Printed \subseteq Listing!Entries
    BY <1>7 DEF e
  <2> QED
    BY <1>1, <1>4, <1>8, <1>9, <1>10, <2>1, PrintsNext
<1>12. Printed' = {e}
  BY <1>1, <1>4, <1>5, <1>7, LinesFacts
<1>13. /\ output' \in Seq(LineType) /\ Len(output') = Len(output) + 1
       /\ output'[Len(output) + 1] = r
       /\ Cardinality(Printed') = Len(output')
  BY <1>1, <1>4, <1>5, <1>7, <1>8, OneMorePrinted
<1> QED
  BY <1>1, <1>5, <1>11, <1>12, <1>13 DEF e

-----------------------------------------------------------------------------
(* The steps of the walk *)

\* The name alone: the listing of a metafile of one file, in info.
LEMMA NameStep ==
    ASSUME PrinterInv, PrintName, UNCHANGED metafile
    PROVE  PrinterInv' /\ Listing!PrintLine
<1>1. /\ metafile.single /\ caller = "info" /\ output = <<>> /\ output' = <<NameLine(name_start)>>
      /\ walk' = "done" /\ UNCHANGED <<metafile, caller, list_padding, index>>
      /\ metafile \in Metafiles /\ list_padding \in BOOLEAN
  BY DEF PrinterInv, PrintName
<1>2. Listing!Entries = {<<>>}
  BY <1>1 DEF Listing!Entries, Listing!Name
<1>3. IsFiniteSet({<<>>}) /\ Cardinality({<<>>}) = 1
  BY FS_Singleton
<1>4. \A q \in Listing!Entries : q \in Seq(Nat)
  <2>1. <<>> \in Seq(Nat)
    OBVIOUS
  <2> QED
    BY <1>2, <2>1
<1> DEFINE w == name_start
<1>w. w \in Seq(Bytes) /\ w = Listing!NamePrefix
  <2>1. w \in Seq(Bytes)
    BY DEF name_start, Bytes
  <2>2. w = Listing!NamePrefix
    BY <1>1 DEF Listing!NamePrefix
  <2> QED
    BY <2>1, <2>2
<1>o. output' = <<NameLine(w)>>
  BY <1>1
<1> HIDE DEF w
<1>5. Listing!PrintLine /\ Len(output') = 1 /\ output' \in Seq(LineType)
  BY <1>1, <1>2, <1>3, <1>4, <1>w, <1>o, NameFirst
<1>6. Listing!Entries' = Listing!Entries
  BY <1>1, Steady
<1> QED
  BY <1>1, <1>2, <1>3, <1>5, <1>6 DEF PrinterInv

\* The first line of a tree, and the frame of the root.
LEMMA MultiStep ==
    ASSUME PrinterInv, WalkMulti, UNCHANGED metafile
    PROVE  PrinterInv' /\ Listing!PrintLine
<1> DEFINE e == <<>>
           fr == Frame(e)
           c == list_directory_content(e)
<1>1. /\ ~metafile.single /\ output = <<>> /\ output' = <<NameLine(<<>>)>> /\ stack' = <<fr>>
      /\ walk' = "walk" /\ UNCHANGED <<metafile, caller, list_padding, index, prefix_>>
      /\ metafile \in Metafiles /\ list_padding \in BOOLEAN /\ Indexed /\ prefix_ = start
      /\ caller \in {"info", "verify"}
  BY DEF PrinterInv, WalkMulti
<1>2. /\ e \in Listing!Entries /\ IsFiniteSet(Listing!Entries)
      /\ \A q \in Listing!Entries : q \in Seq(Nat)
  BY <1>1, TreeEntries
<1>3. /\ Listing!PrintLine
      /\ Printed' = {e} /\ Len(output') = 1 /\ output' \in Seq(LineType)
      /\ output'[1].path = e /\ output'[1].entry = 0
      /\ Cardinality(Printed') = 1
  <2>1. e \in Seq(Bytes)
    OBVIOUS
  <2>2. e = Listing!NamePrefix
    BY <1>1 DEF Listing!NamePrefix
  <2>3. output' = <<NameLine(e)>>
    BY <1>1
  <2> HIDE DEF e
  <2>4. <<>> = e
    BY DEF e
  <2> QED
    BY <1>1, <1>2, <2>1, <2>2, <2>3, <2>4, NameFirst
<1>4. /\ files' = files /\ Indexed' = Indexed
      /\ \A d, b : IsContent(d, b)' <=> IsContent(d, b)
      /\ Listing!Entries' = Listing!Entries
      /\ \A d : BelowPrefix(d)' = BelowPrefix(d)
  BY <1>1, Steady
<1>5. e \in DOMAIN index.directories
  BY <1>1, DirectoryFacts
<1>6. IsContent(e, c)
  BY <1>1, <1>5, ContentFacts
<1>7. c \in Seq(Element) /\ Len(c) \in Nat
  BY <1>6, ContentNames DEF IsContent
<1>8. e \in Seq(Nat)
  OBVIOUS
<1>9. fr = [path |-> e, content |-> c, index |-> 0]
  BY DEF Frame
<1>10. BelowPrefix(e) = start
  BY PrefixOfRoot
<1> HIDE DEF e, c, fr
<1>11. /\ fr \in FrameType /\ fr.path = e /\ fr.content = c /\ fr.index = 0
  BY <1>7, <1>8, <1>9 DEF FrameType
<1>12. stack' \in Seq(FrameType) /\ Len(stack') = 1 /\ stack'[1] = fr
  BY <1>1, <1>11
<1>13. StackInv'
  <2>1. \A j \in 1 .. 1 : j = 1
    OBVIOUS
  <2>2. \A j \in 1 .. 1 - 1 : FALSE
    OBVIOUS
  <2>3. 0 <= Len(c)
    BY <1>7
  <2>4. top' = fr
    BY <1>12 DEF top
  <2>5. stack'[1].path = <<>>
    BY <1>11, <1>12 DEF e
  <2>6. \A j \in 1 .. Len(stack') :
          /\ stack'[j].path \in DOMAIN index'.directories
          /\ IsContent(stack[j].path, stack[j].content)'
          /\ stack'[j].index <= Len(stack'[j].content)
    BY <1>1, <1>4, <1>5, <1>6, <1>11, <1>12, <2>1, <2>3
  <2>7. prefix_' = BelowPrefix(top.path)'
    BY <1>1, <1>4, <1>10, <1>11, <2>4
  <2> QED
    BY <1>12, <2>2, <2>5, <2>6, <2>7 DEF StackInv
<1>14. OutputInv'
  <2>1. \A i \in 1 .. 1 : i = 1
    OBVIOUS
  <2>2. \A k \in DOMAIN files : files[k].path # e
    BY <1>1, StorageFacts DEF e
  <2> QED
    BY <1>2, <1>3, <1>4, <2>1, <2>2 DEF OutputInv
<1>15. RemainingInv'
  <2>1. top' = fr
    BY <1>12 DEF top
  <2>2. \A q \in Listing!Entries : q \notin {e} <=> Remaining(e, c, 0, q)
    BY <1>2, RootFirst DEF Remaining, e
  <2> QED
    BY <1>3, <1>4, <1>11, <2>1, <2>2 DEF RemainingInv
<1> QED
  BY <1>1, <1>3, <1>4, <1>13, <1>14, <1>15 DEF PrinterInv

\* The only line of verify for a metafile of one file.
LEMMA SingleStep ==
    ASSUME PrinterInv, WalkSingle, UNCHANGED metafile
    PROVE  PrinterInv' /\ Listing!PrintLine
<1> DEFINE root == <<>>
           c == list_directory_content(root)
           e == c[1]
           r == print_entry(root, e, "none")
           p == files[1].path
<1>1. /\ metafile.single /\ output = <<>> /\ output' = <<r>>
      /\ walk' = "done" /\ UNCHANGED <<metafile, caller, list_padding, index, prefix_>>
      /\ metafile \in Metafiles /\ list_padding \in BOOLEAN /\ Indexed /\ prefix_ = start
      /\ caller = "verify"
  BY DEF PrinterInv, WalkSingle
<1>2. /\ Len(files) = 1 /\ DOMAIN files = 1 .. 1 /\ p \in Seq(Nat) /\ Len(p) = 1
      /\ ~files[1].pad /\ files[1].size \in Nat
  <2>1. DOMAIN files = 1 .. Len(files)
        /\ \A i \in DOMAIN files : files[i].path \in Seq(Nat) /\ files[i].size \in Nat
    BY <1>1, StorageFacts
  <2>2. Len(files) = 1 /\ Len(p) = 1 /\ ~files[1].pad
    BY <1>1, MetafileAssumption DEF files
  <2>3. 1 \in 1 .. 1
    OBVIOUS
  <2> QED
    BY <2>1, <2>2, <2>3
<1>3. \A i \in DOMAIN files : i = 1
  BY <1>2
<1>4. root \in Seq(Nat) /\ root \in DOMAIN index.directories /\ Len(root) = 0
  BY <1>1, DirectoryFacts
<1>5. IsContent(root, c)
  BY <1>1, <1>4, ContentFacts
<1> DEFINE x == p[1]
<1>6. x \in Nat /\ Append(root, x) = p
  <2>1. x \in Nat
    BY <1>2
  <2>2. Append(root, x) \in Seq(Nat) /\ Len(Append(root, x)) = 1 /\ Append(root, x)[1] = x
    BY <2>1
  <2>3. \A i \in 1 .. 1 : i = 1
    OBVIOUS
  <2> HIDE DEF root, p
  <2>4. p = Append(root, x)
    BY <1>2, <2>2, <2>3, SamePath
  <2> QED
    BY <2>1, <2>4
<1>7. ~IsStrictPrefix(p, p) /\ IsPrefix(p, p)
  BY <1>2, PrefixTransitive DEF IsStrictPrefix
<1> HIDE DEF root, p, c
<1>8. Visible(p)
  <2>1. p # <<>>
    <3>1. Len(p) = 1 /\ Len(<<>>) = 0
      BY <1>2
    <3> QED
      BY ONLY <3>1
  <2>2. 1 \in DOMAIN files
    BY <1>2
  <2> QED
    BY <1>2, <1>7, <2>1, <2>2 DEF Visible, p
<1>9. PICK k \in 1 .. Len(c) : c[k].name = x
  BY <1>5, <1>6, <1>8 DEF IsContent
<1>10. Len(c) \in Nat /\ 1 \in 1 .. Len(c)
  <2>1. Len(c) \in Nat
    BY <1>5, ContentNames
  <2> QED
    BY <1>9, <2>1
<1>11. /\ e \in Element /\ EntryOk(root, e) /\ e.name \in Nat /\ e.entry \in Nat
  BY <1>5, <1>10, ContentNames
<1>12. Append(root, e.name) = p /\ Append(root, e.name) \in Seq(Nat)
  <2> DEFINE q == Append(root, e.name)
  <2>1. q \in Seq(Nat) /\ Len(q) = 1
    <3>1. q \in Seq(Nat) /\ Len(q) = 0 + 1
      BY <1>4, <1>11, AppendedPath
    <3> QED
      BY <3>1
  <2>2. IsPrefix(q, p)
    BY <1>3, <1>11 DEF EntryOk, Visible, p
  <2> HIDE DEF q
  <2>3. \A i \in 1 .. Len(q) : q[i] = p[i]
    BY <1>2, <2>1, <2>2, PrefixMeans
  <2>4. q = p
    BY <1>2, <2>1, <2>3, SamePath
  <2> QED
    BY <2>1, <2>4 DEF q
<1>13. e.entry # 0
  <2> SUFFICES ASSUME e.entry = 0 PROVE FALSE
    OBVIOUS
  <2>1. p \in DOMAIN index.directories
    BY <1>11, <1>12 DEF EntryOk
  <2>2. 1 \in DOMAIN files
    BY <1>2
  <2> QED
    BY <1>1, <2>1, <2>2, DirectoryIsNoFile DEF p
<1>14. e.entry = 1
  BY <1>3, <1>11, <1>13 DEF EntryOk
<1>15. Listing!Entries = {p}
  <2>1. Listing!Entries = Listing!Shown
    BY <1>1 DEF Listing!Entries
  <2>2. Listing!Shown = {f.path : f \in {g \in Range(files) : list_padding \/ ~g.pad}}
    BY DEF Listing!Shown
  <2>3. Range(files) = {files[1]}
    BY <1>2, <1>3 DEF Range
  <2> QED
    BY <1>2, <2>1, <2>2, <2>3 DEF p
<1>16. IsFiniteSet({p}) /\ Cardinality({p}) = 1
  BY FS_Singleton
<1> DEFINE no == <<>>
<1>17. Listing!Line(p) = [path |-> p, node |-> "none", prefix |-> start, size |-> 0]
  <2>1. Listing!Line(p).prefix = BelowPrefix(root)
    BY <1>4, <1>6, PrefixGrows
  <2>2. BelowPrefix(root) = start
    BY PrefixOfRoot DEF root
  <2>3. Listing!Node(p) = "none"
    BY <1>1 DEF Listing!Node
  <2>4. Listing!Line(p) = [path |-> p, node |-> Listing!Node(p), prefix |-> Listing!Line(p).prefix,
                           size |-> 0]
    BY <1>1 DEF Listing!Line
  <2> QED
    BY <2>1, <2>2, <2>3, <2>4
<1>18. r = [path |-> p, entry |-> 1, node |-> "none", prefix |-> start, size |-> 0]
  BY <1>1, <1>12, <1>14 DEF print_entry
<1>19. start \in Seq(Bytes)
  BY GuideIs
<1> HIDE DEF e, r
<1>20. /\ r \in LineType /\ r.path = p /\ r.entry = 1
       /\ LineOf(r) = Listing!Line(p)
  BY <1>2, <1>17, <1>18, <1>19 DEF LineType, LineOf
<1>21. output \in Seq(LineType) /\ Len(output) = 0 /\ output' = Append(output, r)
  BY <1>1
<1>22. Printed = {}
  <2>1. 1 .. 0 = {}
    OBVIOUS
  <2> QED
    BY <1>21, <2>1 DEF Printed
<1>23. Cardinality(Printed) = Len(output)
  BY <1>21, <1>22, FS_EmptySet
<1>24. \A q \in Listing!Entries : q \in Printed <=> PathLess(q, p)
  BY <1>2, <1>15, <1>22, LessIrreflexive
<1>25. Listing!PrintLine
  <2>1. p \in Listing!Entries /\ Printed \subseteq Listing!Entries
        /\ IsFiniteSet(Listing!Entries) /\ \A q \in Listing!Entries : q \in Seq(Nat)
    BY <1>2, <1>15, <1>16, <1>22
  <2> QED
    BY <1>1, <1>20, <1>21, <1>23, <1>24, <2>1, PrintsNext
<1>26. Printed' = {p}
  BY <1>20, <1>21, <1>22, LinesFacts
<1>27. /\ output' \in Seq(LineType) /\ Len(output') = 1 /\ output'[1] = r
       /\ Cardinality(Printed') = Len(output')
  <2>1. /\ output' \in Seq(LineType) /\ Len(output') = Len(output) + 1
        /\ output'[Len(output) + 1] = r
        /\ Cardinality(Printed') = Len(output')
    BY <1>20, <1>21, <1>22, <1>23, OneMorePrinted
  <2> QED
    BY <1>21, <2>1
<1>28. Listing!Entries' = Listing!Entries /\ files' = files
  BY <1>1, Steady
<1>29. OutputInv'
  <2>1. \A i \in 1 .. 1 : i = 1
    OBVIOUS
  <2>2. 1 \in DOMAIN files
    BY <1>2
  <2> QED
    BY <1>1, <1>2, <1>15, <1>20, <1>27, <1>28, <2>1, <2>2 DEF OutputInv, p
<1>30. FilesPrinted'
  BY <1>3, <1>26, <1>28 DEF FilesPrinted, p
<1>31. Len(output') = Cardinality(Listing!Entries')
  BY <1>15, <1>16, <1>27, <1>28
<1> QED
  BY <1>1, <1>25, <1>27, <1>28, <1>29, <1>30, <1>31 DEF PrinterInv

\* What the frames of a walk are.
LEMMA TopFacts ==
    ASSUME PrinterInv, walk = "walk"
    PROVE  /\ metafile \in Metafiles /\ list_padding \in BOOLEAN /\ caller \in {"info", "verify"}
           /\ ~metafile.single /\ Indexed
           /\ stack \in Seq(FrameType) /\ Len(stack) # 0 /\ Len(stack) \in Nat
           /\ Len(stack) \in 1 .. Len(stack)
           /\ top = stack[Len(stack)] /\ top \in FrameType
           /\ top.path \in DOMAIN index.directories /\ top.path \in Seq(Nat)
           /\ IsContent(top.path, top.content) /\ Len(top.content) \in Nat
           /\ top.index \in Nat /\ top.index <= Len(top.content)
           /\ prefix_ = BelowPrefix(top.path)
           /\ \A j \in 1 .. Len(stack) :
                 /\ stack[j] \in FrameType
                 /\ stack[j].path \in DOMAIN index.directories
                 /\ IsContent(stack[j].path, stack[j].content)
                 /\ stack[j].index <= Len(stack[j].content)
<1>1. /\ metafile \in Metafiles /\ list_padding \in BOOLEAN /\ caller \in {"info", "verify"}
      /\ ~metafile.single /\ Indexed /\ StackInv
  BY DEF PrinterInv
<1>2. stack \in Seq(FrameType) /\ Len(stack) # 0
  BY <1>1 DEF StackInv
<1>3. /\ Len(stack) \in Nat /\ Len(stack) \in 1 .. Len(stack)
      /\ \A j \in 1 .. Len(stack) : stack[j] \in FrameType
  BY <1>2
<1>4. \A j \in 1 .. Len(stack) :
          /\ stack[j].path \in DOMAIN index.directories
          /\ IsContent(stack[j].path, stack[j].content)
          /\ stack[j].index <= Len(stack[j].content)
  BY <1>1 DEF StackInv
<1>5. top = stack[Len(stack)] /\ prefix_ = BelowPrefix(top.path)
  BY <1>1 DEF StackInv, top
<1>6. /\ top \in FrameType
      /\ top.path \in DOMAIN index.directories
      /\ IsContent(top.path, top.content)
      /\ top.index <= Len(top.content)
  BY <1>3, <1>4, <1>5
<1>7. top.path \in Seq(Nat) /\ top.index \in Nat
  BY <1>6 DEF FrameType
<1>8. Len(top.content) \in Nat
  BY <1>6, ContentNames
<1> QED
  BY <1>1, <1>2, <1>3, <1>4, <1>5, <1>6, <1>7, <1>8

\* The entry the walk prints next: its line is the next of the listing, and what is
\* printed with it is what was and no other entry.
LEMMA EntryPrinted ==
    ASSUME PrinterInv, WalkEntry, UNCHANGED metafile
    PROVE  LET d == top.path
               c == top.content
               n == top.index
               p == Append(d, c[n + 1].name)
           IN  /\ n < Len(c) /\ p \in Seq(Nat)
               /\ Listing!PrintLine
               /\ OutputInv'
               /\ \A q \in Listing!Entries : q \notin Printed' <=> PathLess(p, q)
<1> DEFINE d == top.path
           c == top.content
           n == top.index
           p == Append(d, c[n + 1].name)
           E == Listing!Entries
           node == IF n = Len(c) - 1 THEN "end" ELSE "node"
           r == print_entry(d, c[n + 1], node)
<1>1. /\ walk = "walk" /\ ~Finished(top) /\ output' = Append(output, r)
      /\ UNCHANGED <<metafile, caller, list_padding, index>>
  BY DEF WalkEntry
<1>2. /\ ~metafile.single /\ Indexed
      /\ d \in DOMAIN index.directories /\ d \in Seq(Nat)
      /\ IsContent(d, c) /\ Len(c) \in Nat /\ n \in Nat /\ n <= Len(c)
      /\ prefix_ = BelowPrefix(d)
  BY <1>1, TopFacts
<1>3. n < Len(c) /\ n + 1 \in 1 .. Len(c) /\ (n = Len(c) - 1 <=> n + 1 = Len(c))
  <2>1. n # Len(c)
    BY <1>1 DEF Finished
  <2> HIDE DEF n, c
  <2> QED
    BY <1>2, <2>1
<1>4. OutputInv /\ RemainingInv
  BY <1>1 DEF PrinterInv
<1> HIDE DEF d, c, n
<1>5. /\ r \in LineType /\ r.path = p /\ r.entry = c[n + 1].entry
      /\ LineOf(r) = Listing!Line(p)
  BY <1>2, <1>3, LineOfEntry
<1>6. EntryOk(d, c[n + 1]) /\ c[n + 1].entry \in Nat
  BY <1>2, <1>3, ContentNames
<1>7. p \in Seq(Nat) /\ p \in E /\ p # <<>>
  BY <1>2, <1>3, EntryGuides
<1>8. IsFiniteSet(E) /\ \A q \in E : q \in Seq(Nat)
  BY <1>2, TreeEntries
<1>9. \A q \in E : q \notin Printed <=> q = p \/ PathLess(p, q)
  <2>1. \A q \in E : q \notin Printed <=> Remaining(d, c, n, q)
    BY <1>4 DEF RemainingInv, d, c, n
  <2>2. \A q \in E : Remaining(d, c, n, q) <=> q = p \/ PathLess(p, q)
    BY <1>2, <1>3, NextEntry
  <2> QED
    BY <2>1, <2>2
<1>10. \A q \in E : q \in Printed <=> PathLess(q, p)
  BY <1>7, <1>8, <1>9, LessTotal, LessIrreflexive
<1>11. /\ output \in Seq(LineType) /\ Cardinality(Printed) = Len(output)
       /\ Printed \subseteq E
  BY <1>4 DEF OutputInv, Printed
<1> HIDE DEF r, p, E
<1>12. Listing!PrintLine
  <2>1. UNCHANGED <<metafile, caller, list_padding>>
    BY <1>1
  <2> QED
    BY <1>1, <1>5, <1>7, <1>8, <1>10, <1>11, <2>1, PrintsNext DEF E
<1>13. Printed' = Printed \union {p} /\ p \notin Printed
  BY <1>1, <1>5, <1>7, <1>9, <1>11, LinesFacts
<1>14. \A q \in E : q \notin Printed' <=> PathLess(p, q)
  BY <1>7, <1>9, <1>13, LessIrreflexive
<1>15. /\ output' \in Seq(LineType) /\ Len(output') = Len(output) + 1
       /\ output'[Len(output) + 1] = r
       /\ \A i \in 1 .. Len(output) : output'[i] = output[i]
       /\ Cardinality(Printed') = Len(output')
  BY <1>1, <1>5, <1>11, <1>13, OneMorePrinted
<1>16. files' = files /\ Listing!Entries' = E
  BY <1>1, Steady DEF E
<1>17. OutputInv'
  <2>1. /\ r.path \in E
        /\ r.entry # 0 =>
              /\ r.entry \in DOMAIN files /\ files[r.entry].path = r.path
              /\ list_padding \/ ~files[r.entry].pad
        /\ r.entry = 0 => \A k \in DOMAIN files : files[k].path # r.path
    BY <1>2, <1>5, <1>6, <1>7, DirectoryIsNoFile DEF EntryOk, p
  <2>2. \A i \in 1 .. Len(output') : i \in 1 .. Len(output) \/ i = Len(output) + 1
    BY <1>11, <1>15, LinesFacts
  <2>3. \A i \in 1 .. Len(output) :
          /\ output[i].path \in E
          /\ output[i].entry # 0 =>
                /\ output[i].entry \in DOMAIN files
                /\ files[output[i].entry].path = output[i].path
                /\ list_padding \/ ~files[output[i].entry].pad
          /\ output[i].entry = 0 =>
                \A k \in DOMAIN files : files[k].path # output[i].path
    BY <1>4 DEF OutputInv, E
  <2>4. \A i \in 1 .. Len(output') :
          /\ output'[i].path \in E
          /\ output'[i].entry # 0 =>
                /\ output'[i].entry \in DOMAIN files
                /\ files[output'[i].entry].path = output'[i].path
                /\ list_padding \/ ~files[output'[i].entry].pad
          /\ output'[i].entry = 0 =>
                \A k \in DOMAIN files : files[k].path # output'[i].path
    BY <1>15, <2>1, <2>2, <2>3
  <2> QED
    BY <1>1, <1>15, <1>16, <2>4 DEF OutputInv
<1> QED
  BY <1>3, <1>7, <1>12, <1>14, <1>17 DEF d, c, n, p, E

\* The step that prints an entry and, for a directory, enters it.
LEMMA EntryStep ==
    ASSUME PrinterInv, WalkEntry, UNCHANGED metafile
    PROVE  PrinterInv' /\ Listing!PrintLine
<1> DEFINE d == top.path
           c == top.content
           n == top.index
           e == c[n + 1]
           p == Append(d, e.name)
           E == Listing!Entries
           k == Len(stack)
           moved == [top EXCEPT !.index = @ + 1]
           rest == Append(Front(stack), moved)
<1>1. /\ walk = "walk" /\ walk' = "walk"
      /\ UNCHANGED <<metafile, caller, list_padding, index>>
      /\ IF e.entry # 0
         THEN stack' = rest /\ UNCHANGED prefix_
         ELSE /\ prefix_' = prefix_ \o GuideOf(moved)
              /\ stack' = Append(rest, Frame(p))
  BY DEF WalkEntry
<1>2. /\ metafile \in Metafiles /\ list_padding \in BOOLEAN /\ caller \in {"info", "verify"}
      /\ ~metafile.single /\ Indexed
      /\ stack \in Seq(FrameType) /\ k # 0 /\ k \in Nat /\ k \in 1 .. k
      /\ top = stack[k] /\ top \in FrameType
      /\ d \in DOMAIN index.directories /\ d \in Seq(Nat)
      /\ IsContent(d, c) /\ Len(c) \in Nat /\ n \in Nat /\ n <= Len(c)
      /\ prefix_ = BelowPrefix(d)
      /\ \A j \in 1 .. k :
            /\ stack[j].path \in DOMAIN index.directories
            /\ IsContent(stack[j].path, stack[j].content)
            /\ stack[j].index <= Len(stack[j].content)
  BY <1>1, TopFacts
<1>3. /\ n < Len(c) /\ p \in Seq(Nat) /\ Listing!PrintLine /\ OutputInv'
      /\ \A q \in E : q \notin Printed' <=> PathLess(p, q)
  BY EntryPrinted
<1>4. /\ stack[1].path = <<>>
      /\ \A j \in 1 .. k - 1 :
            /\ stack[j].index # 0
            /\ stack[j + 1].path = Append(stack[j].path, stack[j].content[stack[j].index].name)
  BY <1>1 DEF PrinterInv, StackInv
<1>5. /\ files' = files /\ Indexed' = Indexed
      /\ \A a, b : IsContent(a, b)' <=> IsContent(a, b)
      /\ Listing!Entries' = E
      /\ \A a : BelowPrefix(a)' = BelowPrefix(a)
  BY <1>1, Steady
<1>6. /\ moved \in FrameType /\ moved.path = d /\ moved.content = c /\ moved.index = n + 1
  <2> DEFINE t == top
  <2>1. t \in FrameType
    BY <1>2
  <2> HIDE DEF t
  <2>2. LET m == [t EXCEPT !.index = @ + 1]
        IN  /\ m \in FrameType /\ m.path = t.path /\ m.content = t.content
            /\ m.index = t.index + 1
    BY <2>1 DEF FrameType
  <2> QED
    BY <2>2 DEF t
<1> HIDE DEF moved
<1>7. /\ rest \in Seq(FrameType) /\ Len(rest) = k /\ rest[k] = moved
      /\ \A j \in 1 .. k - 1 : rest[j] = stack[j] /\ j \in 1 .. k
  BY <1>2, <1>6, FrontFacts
<1> HIDE DEF rest
<1>8. /\ e.name \in Nat /\ e.entry \in Nat /\ EntryOk(d, e) /\ n + 1 \in 1 .. Len(c)
      /\ n + 1 <= Len(c) /\ n + 1 # 0
  <2>1. n + 1 \in 1 .. Len(c) /\ n + 1 <= Len(c) /\ n + 1 # 0
    <3> HIDE DEF n, c
    <3> QED
      BY <1>2, <1>3
  <2> QED
    BY <1>2, <2>1, ContentNames
<1> HIDE DEF d, c, n, e, p, E, k
<1>9. \A j \in 1 .. k : j \in 1 .. k - 1 \/ j = k
  BY <1>2
<1>10. rest[1].path = <<>>
  <2>1. CASE k = 1
    BY <1>2, <1>4, <1>6, <1>7, <2>1 DEF d
  <2>2. CASE k # 1
    <3>1. 1 \in 1 .. k - 1
      BY <1>2, <2>2
    <3> QED
      BY <1>4, <1>7, <3>1
  <2> QED
    BY <2>1, <2>2
<1>11. \A j \in 1 .. k :
          /\ rest[j].path \in DOMAIN index.directories
          /\ IsContent(rest[j].path, rest[j].content)
          /\ rest[j].index <= Len(rest[j].content)
  BY <1>2, <1>6, <1>7, <1>8, <1>9
<1>12. \A j \in 1 .. k - 1 :
          /\ rest[j].index # 0
          /\ rest[j + 1].path = Append(rest[j].path, rest[j].content[rest[j].index].name)
  <2> TAKE j \in 1 .. k - 1
  <2>1. j + 1 \in 1 .. k - 1 \/ j + 1 = k
    BY <1>2
  <2>2. rest[j + 1].path = stack[j + 1].path
    BY <1>2, <1>6, <1>7, <2>1 DEF d
  <2> QED
    BY <1>4, <1>7, <2>2
<1>13. CASE e.entry # 0
  <2>1. stack' = rest /\ prefix_' = prefix_
    BY <1>1, <1>13
  <2>2. top' = moved
    BY <1>7, <2>1 DEF top
  <2>3. StackInv'
    <3>1. stack' \in Seq(FrameType) /\ Len(stack') = k
      BY <1>7, <2>1
    <3>2. stack'[1].path = <<>>
      BY <1>10, <2>1
    <3>3. \A j \in 1 .. Len(stack') :
            /\ stack'[j].path \in DOMAIN index'.directories
            /\ IsContent(stack[j].path, stack[j].content)'
            /\ stack'[j].index <= Len(stack'[j].content)
      BY <1>1, <1>5, <1>11, <2>1, <3>1
    <3>4. \A j \in 1 .. Len(stack') - 1 :
            /\ stack'[j].index # 0
            /\ stack'[j + 1].path =
                  Append(stack'[j].path, stack'[j].content[stack'[j].index].name)
      BY <1>12, <2>1, <3>1
    <3>5. prefix_' = BelowPrefix(top.path)'
      BY <1>2, <1>5, <1>6, <2>1, <2>2
    <3> QED
      BY <1>2, <3>1, <3>2, <3>3, <3>4, <3>5 DEF StackInv
  <2>4. RemainingInv'
    <3>1. \A q \in E : Remaining(d, c, n + 1, q) <=> PathLess(p, q)
      BY <1>2, <1>3, <1>13, AfterEntry DEF E, e, p
    <3> QED
      BY <1>3, <1>5, <1>6, <2>2, <3>1 DEF RemainingInv
  <2> QED
    BY <1>1, <1>2, <1>3, <1>5, <2>3, <2>4 DEF PrinterInv
<1>14. CASE e.entry = 0
  <2> DEFINE fr == Frame(p)
             b == list_directory_content(p)
  <2>1. stack' = Append(rest, fr) /\ prefix_' = prefix_ \o GuideOf(moved)
    BY <1>1, <1>14
  <2>2. p \in DOMAIN index.directories
    BY <1>8, <1>14 DEF EntryOk, p
  <2>3. IsContent(p, b)
    BY <1>2, <2>2, ContentFacts
  <2>4. b \in Seq(Element) /\ Len(b) \in Nat
    BY <2>3, ContentNames DEF IsContent
  <2>5. fr = [path |-> p, content |-> b, index |-> 0]
    BY DEF Frame
  <2> HIDE DEF fr, b
  <2>6. fr \in FrameType /\ fr.path = p /\ fr.content = b /\ fr.index = 0
    BY <1>3, <2>4, <2>5 DEF FrameType
  <2>7. /\ stack' \in Seq(FrameType) /\ Len(stack') = k + 1 /\ stack'[k + 1] = fr
        /\ \A j \in 1 .. k : stack'[j] = rest[j]
    BY <1>7, <2>1, <2>6, AppendFacts
  <2>8. top' = fr
    BY <2>7 DEF top
  <2>9. prefix_' = BelowPrefix(p)
    <3>1. BelowPrefix(p) = BelowPrefix(d) \o Listing!Guide(p)
      BY <1>2, <1>8, PrefixGrows DEF p
    <3>2. Listing!Guide(p) = IF n + 1 = Len(c) THEN sub_last ELSE sub
      BY <1>2, <1>8, EntryGuides DEF p, e
    <3>3. GuideOf(moved) = IF n + 1 = Len(c) THEN sub_last ELSE sub
      BY <1>6 DEF GuideOf, Finished
    <3> QED
      BY <1>2, <2>1, <3>1, <3>2, <3>3
  <2>10. \A j \in 1 .. k + 1 : j \in 1 .. k \/ j = k + 1
    BY <1>2
  <2>11. StackInv'
    <3>1. Len(stack') # 0
      BY <1>2, <2>7
    <3>2. stack'[1].path = <<>>
      <4>1. 1 \in 1 .. k
        BY <1>2
      <4> QED
        BY <1>10, <2>7, <4>1
    <3>3. \A j \in 1 .. Len(stack') :
            /\ stack'[j].path \in DOMAIN index'.directories
            /\ IsContent(stack[j].path, stack[j].content)'
            /\ stack'[j].index <= Len(stack'[j].content)
      <4>1. 0 <= Len(b)
        BY <2>4
      <4> QED
        BY <1>1, <1>5, <1>11, <2>2, <2>3, <2>6, <2>7, <2>10, <4>1
    <3>4. \A j \in 1 .. Len(stack') - 1 :
            /\ stack'[j].index # 0
            /\ stack'[j + 1].path =
                  Append(stack'[j].path, stack'[j].content[stack'[j].index].name)
      <4>1. \A j \in 1 .. Len(stack') - 1 : j \in 1 .. k /\ (j \in 1 .. k - 1 \/ j = k)
        BY <1>2, <2>7
      <4>2. \A j \in 1 .. k - 1 : j + 1 \in 1 .. k
        BY <1>2
      <4>3. ASSUME NEW j \in 1 .. k - 1
            PROVE  /\ stack'[j].index # 0
                   /\ stack'[j + 1].path =
                        Append(stack'[j].path, stack'[j].content[stack'[j].index].name)
        BY <1>7, <1>12, <2>7, <4>2
      <4>4. /\ stack'[k].index # 0
            /\ stack'[k + 1].path =
                  Append(stack'[k].path, stack'[k].content[stack'[k].index].name)
        BY <1>2, <1>6, <1>7, <1>8, <2>6, <2>7 DEF p, e
      <4> QED
        BY <4>1, <4>3, <4>4
    <3>5. prefix_' = BelowPrefix(top.path)'
      BY <1>5, <2>6, <2>8, <2>9
    <3> QED
      BY <2>7, <3>1, <3>2, <3>3, <3>4, <3>5 DEF StackInv
  <2>12. RemainingInv'
    <3>1. \A q \in E : Remaining(p, b, 0, q) <=> PathLess(p, q)
      BY <1>2, <1>3, AfterEntry DEF E, e, p
    <3> QED
      BY <1>3, <1>5, <2>6, <2>8, <3>1 DEF RemainingInv
  <2> QED
    BY <1>1, <1>2, <1>3, <1>5, <2>11, <2>12 DEF PrinterInv
<1> QED
  BY <1>3, <1>13, <1>14

\* The step that leaves a directory prints nothing; after the last the listing is complete.
LEMMA LeaveStep ==
    ASSUME PrinterInv, LeaveDirectory, UNCHANGED metafile
    PROVE  PrinterInv'
<1> DEFINE d == top.path
           c == top.content
           E == Listing!Entries
           k == Len(stack)
<1>1. /\ walk = "walk" /\ Finished(top) /\ stack' = Front(stack)
      /\ UNCHANGED <<metafile, caller, list_padding, index, output>>
      /\ IF k > 1
         THEN prefix_' = RemoveGuide(stack[k - 1]) /\ walk' = walk
         ELSE walk' = "done" /\ prefix_' = prefix_
  BY DEF LeaveDirectory
<1>2. /\ metafile \in Metafiles /\ list_padding \in BOOLEAN /\ caller \in {"info", "verify"}
      /\ ~metafile.single /\ Indexed
      /\ stack \in Seq(FrameType) /\ k # 0 /\ k \in Nat /\ k \in 1 .. k
      /\ top = stack[k] /\ top \in FrameType
      /\ d \in DOMAIN index.directories /\ d \in Seq(Nat)
      /\ IsContent(d, c)
      /\ prefix_ = BelowPrefix(d)
      /\ \A j \in 1 .. k :
            /\ stack[j] \in FrameType
            /\ stack[j].path \in DOMAIN index.directories
            /\ IsContent(stack[j].path, stack[j].content)
            /\ stack[j].index <= Len(stack[j].content)
  BY <1>1, TopFacts
<1>3. OutputInv /\ RemainingInv
      /\ stack[1].path = <<>>
      /\ \A j \in 1 .. k - 1 :
            /\ stack[j].index # 0
            /\ stack[j + 1].path = Append(stack[j].path, stack[j].content[stack[j].index].name)
  BY <1>1 DEF PrinterInv, StackInv
<1>4. /\ files' = files /\ Indexed' = Indexed
      /\ \A a, b : IsContent(a, b)' <=> IsContent(a, b)
      /\ Listing!Entries' = E
      /\ \A a : BelowPrefix(a)' = BelowPrefix(a)
  BY <1>1, Steady
<1>5. \A q \in E : q \notin Printed <=> Before(d, q)
  <2>1. top.index = Len(c)
    BY <1>1 DEF Finished
  <2> QED
    BY <1>2, <1>3, <2>1, AfterLast DEF RemainingInv
<1>6. Printed' = Printed /\ Len(output') = Len(output)
  BY <1>1 DEF Printed
<1>7. OutputInv'
  BY <1>1, <1>3, <1>4, <1>6 DEF OutputInv
<1>8. /\ stack' \in Seq(FrameType) /\ Len(stack') = k - 1
      /\ \A j \in 1 .. k - 1 : stack'[j] = stack[j] /\ j \in 1 .. k
  BY <1>1, <1>2, FrontFacts
<1> HIDE DEF d, c, E, k
<1>9. CASE k > 1
  <2> DEFINE f == stack[k - 1]
             a == f.path
             b == f.content
             n == f.index
             x == b[n].name
  <2>1. k - 1 \in 1 .. k - 1 /\ k - 1 # 0 /\ (k - 1) + 1 = k /\ k - 1 \in 1 .. k
    BY <1>2, <1>9
  <2>2. prefix_' = RemoveGuide(f) /\ walk' = "walk"
    BY <1>1, <1>9
  <2>3. /\ f \in FrameType /\ a \in DOMAIN index.directories /\ IsContent(a, b)
        /\ n <= Len(b) /\ n # 0 /\ d = Append(a, x)
    BY <1>2, <1>3, <2>1 DEF d
  <2>4. a \in Seq(Nat) /\ n \in Nat /\ Len(b) \in Nat
    BY <2>3, ContentNames DEF FrameType
  <2> HIDE DEF f
  <2>5. top' = f
    BY <1>8, <2>1 DEF top, f
  <2> HIDE DEF a, b, n
  <2>6. n \in 1 .. Len(b)
    BY <2>3, <2>4
  <2>7. x \in Nat
    BY <2>3, <2>6, ContentNames
  <2>8. prefix_' = BelowPrefix(a)
    <3> DEFINE g == Listing!Guide(d)
    <3>1. BelowPrefix(d) = BelowPrefix(a) \o g /\ BelowPrefix(a) \in Seq(Bytes)
      BY <2>3, <2>4, <2>7, PrefixGrows
    <3>2. g = IF n = Len(b) THEN sub_last ELSE sub
      BY <1>2, <2>3, <2>6, EntryGuides
    <3>3. GuideOf(f) = g
      BY <3>2 DEF GuideOf, Finished, n, b
    <3>4. g \in Seq(Bytes)
      BY <3>2, GuideIs
    <3> HIDE DEF g
    <3>5. prefix_' = SubSeq(prefix_, 1, Len(prefix_) - Len(g))
      BY <2>2, <3>3 DEF RemoveGuide
    <3> QED
      BY <1>2, <3>1, <3>4, <3>5, WithoutEnd
  <2>9. StackInv'
    <3>1. Len(stack') # 0
      BY <1>8, <2>1
    <3>2. stack'[1].path = <<>>
      <4>1. 1 \in 1 .. k - 1
        BY <1>2, <1>9
      <4> QED
        BY <1>3, <1>8, <4>1
    <3>3. \A j \in 1 .. Len(stack') :
            /\ stack'[j].path \in DOMAIN index'.directories
            /\ IsContent(stack[j].path, stack[j].content)'
            /\ stack'[j].index <= Len(stack'[j].content)
      BY <1>1, <1>2, <1>4, <1>8
    <3>4. \A j \in 1 .. Len(stack') - 1 :
            /\ stack'[j].index # 0
            /\ stack'[j + 1].path =
                  Append(stack'[j].path, stack'[j].content[stack'[j].index].name)
      <4>1. \A j \in 1 .. Len(stack') - 1 : j \in 1 .. k - 1 /\ j + 1 \in 1 .. k - 1
        BY <1>2, <1>8
      <4> QED
        BY <1>3, <1>8, <4>1
    <3>5. prefix_' = BelowPrefix(top.path)'
      BY <1>4, <2>5, <2>8 DEF a
    <3> QED
      BY <1>8, <3>1, <3>2, <3>3, <3>4, <3>5 DEF StackInv
  <2>10. RemainingInv'
    <3>1. \A q \in E : q \in Seq(Nat)
      BY <1>2, TreeEntries DEF E
    <3>2. \A q \in E : Before(d, q)
                <=> Before(a, q) \/ (IsStrictPrefix(a, q) /\ x < NameIn(a, q))
      BY <2>3, <2>4, <2>7, <3>1, BeforeEntry
    <3>3. \A q \in E : q \notin Printed <=> Remaining(a, b, n, q)
      BY <1>5, <2>3, <3>2 DEF Remaining
    <3> QED
      BY <1>4, <1>6, <2>5, <3>3 DEF RemainingInv, E, a, b, n
  <2> QED
    BY <1>1, <1>2, <1>4, <1>7, <2>2, <2>9, <2>10 DEF PrinterInv
<1>10. CASE ~(k > 1)
  <2>1. k = 1 /\ walk' = "done"
    BY <1>1, <1>2, <1>10
  <2>2. d = <<>>
    BY <1>2, <1>3, <2>1 DEF d
  <2>3. \A q \in E : q \in Seq(Nat) /\ (q = <<>> \/ Visible(q))
    BY <1>2, TreeEntries DEF E
  <2>4. \A q \in E : q \in Printed
    BY <1>5, <2>2, <2>3, RootFirst
  <2>5. Printed \subseteq E
    BY <1>3 DEF OutputInv, Printed, E
  <2>6. Printed = E /\ Len(output) = Cardinality(E)
    <3>1. Printed = E
      BY <2>4, <2>5
    <3>2. Cardinality(Printed) = Len(output)
      BY <1>3 DEF OutputInv
    <3> QED
      BY <3>1, <3>2
  <2>7. FilesPrinted
    <3> SUFFICES ASSUME NEW i \in DOMAIN files, list_padding \/ ~files[i].pad
                 PROVE  files[i].path \in E
      BY <2>6 DEF FilesPrinted
    <3>1. files[i].path \in Seq(Nat) /\ files[i].path # <<>>
      BY <1>2, StorageFacts
    <3>2. IsPrefix(files[i].path, files[i].path)
      BY <3>1, PrefixTransitive
    <3> QED
      BY <1>2, <3>1, <3>2, TreeEntries DEF Visible, E
  <2>8. FilesPrinted'
    BY <1>1, <1>4, <1>6, <2>7 DEF FilesPrinted
  <2>9. output' \in Seq(LineType)
    BY <1>7 DEF OutputInv
  <2> QED
    BY <1>1, <1>2, <1>4, <1>6, <1>7, <2>1, <2>6, <2>8, <2>9 DEF PrinterInv
<1> QED
  BY <1>9, <1>10

\* What changes in the listing when nothing is printed.
LEMMA NothingPrinted ==
    ASSUME LeaveDirectory, UNCHANGED metafile
    PROVE  UNCHANGED Listing!vars
<1>1. UNCHANGED <<metafile, caller, list_padding, output>>
  BY DEF LeaveDirectory
<1>2. files' = files
  BY <1>1 DEF files
<1> QED
  BY <1>1, <1>2 DEF Listing!vars

\* A step of the printer.
LEMMA PrinterStep ==
    ASSUME PrinterInv, Walk, UNCHANGED metafile
    PROVE  /\ PrinterInv' /\ [Listing!Next]_(Listing!vars)
           /\ caller' = caller /\ list_padding' = list_padding /\ walk # "none"
<1>1. ASSUME PrintName PROVE PrinterInv' /\ Listing!PrintLine
  BY <1>1, NameStep
<1>2. ASSUME WalkSingle PROVE PrinterInv' /\ Listing!PrintLine
  BY <1>2, SingleStep
<1>3. ASSUME WalkMulti PROVE PrinterInv' /\ Listing!PrintLine
  BY <1>3, MultiStep
<1>4. ASSUME WalkEntry PROVE PrinterInv' /\ Listing!PrintLine
  BY <1>4, EntryStep
<1>5. ASSUME LeaveDirectory PROVE PrinterInv' /\ UNCHANGED Listing!vars
  BY <1>5, LeaveStep, NothingPrinted
<1>6. caller' = caller /\ list_padding' = list_padding /\ walk # "none"
  BY DEF Walk, PrintName, WalkSingle, WalkMulti, WalkEntry, LeaveDirectory
<1> QED
  BY <1>1, <1>2, <1>3, <1>4, <1>5, <1>6 DEF Walk, Listing!Next

\* A new printer, and a listing to print again.
LEMMA PrinterMade ==
    ASSUME metafile \in Metafiles, NEW padding \in BOOLEAN, MakePrinter(padding),
           UNCHANGED metafile, caller' \in {"info", "verify"},
           metafile.single => caller' = "verify"
    PROVE  PrinterInv'
<1>1. /\ list_padding' = padding /\ prefix_' = start /\ output' = <<>> /\ walk' = "start"
      /\ index' = TheIndex(padding)
  BY DEF MakePrinter, TheIndex
<1>2. TheIndex(padding)' = TheIndex(padding)
  <2>1. files' = files
    BY DEF files
  <2>2. create_sorted_file_indices' = create_sorted_file_indices
    BY <2>1 DEF create_sorted_file_indices
  <2>3. \A i : RootNode(i)' = RootNode(i)
    BY <2>1 DEF RootNode, SizeOf
  <2>4. \A D, i, f : AddFile(D, i, f)' = AddFile(D, i, f)
    BY DEF AddFile
  <2>5. \A s : create_directory_map(s)' = create_directory_map(s)
    BY <2>1, <2>3, <2>4 DEF create_directory_map
  <2>6. \A d : is_padding_directory(d)' <=> is_padding_directory(d)
    BY <2>1 DEF is_padding_directory
  <2>7. \A D : remove_padding_file_only_directories(D)' = remove_padding_file_only_directories(D)
    BY <2>6 DEF remove_padding_file_only_directories
  <2> QED
    BY <2>2, <2>5, <2>7 DEF TheIndex
<1>3. Indexed'
  <2>1. (index = TheIndex(list_padding))'
    BY <1>1, <1>2
  <2> QED
    BY <1>1, <2>1 DEF Indexed
<1> QED
  BY <1>1, <1>3 DEF PrinterInv

-----------------------------------------------------------------------------
(* The commands, and the theorems about the tree *)

\* What the commands do between the walks.
WalkInv == PrinterInv /\ CommandInv /\ TableTruthful

\* A step of a command that does not touch the printer.
LEMMA PrinterKept ==
    ASSUME PrinterInv, UNCHANGED treeVars, UNCHANGED metafile
    PROVE  PrinterInv' /\ UNCHANGED Listing!vars
<1>1. UNCHANGED <<metafile, caller, list_padding, index, stack, prefix_, output, walk>>
  BY DEF treeVars
<1>2. /\ files' = files /\ Indexed' = Indexed
      /\ \A d, c : IsContent(d, c)' <=> IsContent(d, c)
      /\ Listing!Entries' = Listing!Entries
      /\ \A d : BelowPrefix(d)' = BelowPrefix(d)
  BY <1>1, Steady
<1>3. Printed' = Printed
  BY <1>1 DEF Printed
<1>4. top' = top
  BY <1>1 DEF top
<1>5. StackInv' <=> StackInv
  BY <1>1, <1>2, <1>4 DEF StackInv
<1>6. OutputInv' <=> OutputInv
  BY <1>1, <1>2, <1>3 DEF OutputInv
<1>7. RemainingInv' <=> RemainingInv
  BY <1>2, <1>3, <1>4 DEF RemainingInv
<1>8. FilesPrinted' <=> FilesPrinted
  BY <1>1, <1>2, <1>3 DEF FilesPrinted
<1>9. PrinterInv'
  BY <1>1, <1>2, <1>5, <1>6, <1>7, <1>8 DEF PrinterInv
<1>10. UNCHANGED Listing!vars
  BY <1>1, <1>2 DEF Listing!vars
<1> QED
  BY <1>9, <1>10

\* Between two commands the listing is complete, or nothing of it is printed.
LEMMA ListingOver ==
    ASSUME PrinterInv, CommandInv, command = "none", UNCHANGED metafile, output' = <<>>,
           list_padding' \in BOOLEAN
    PROVE  Listing!PrintAgain
<1>1. walk \in {"none", "done"}
  BY DEF CommandInv
<1>2. Listing!Complete \/ TheLines = <<>>
  <2>1. CASE walk = "none"
    <3>1. output = <<>>
      BY <2>1 DEF PrinterInv
    <3> QED
      BY <3>1 DEF TheLines
  <2>2. CASE walk = "done"
    <3>1. output \in Seq(LineType) /\ Len(output) = Cardinality(Listing!Entries)
      BY <2>2 DEF PrinterInv
    <3>2. Len(TheLines) = Cardinality(Listing!Entries)
      BY <3>1, LinesFacts
    <3> QED
      BY <3>2, SameWords DEF Listing!Complete, TheLines, LineOf
  <2> QED
    BY <1>1, <2>1, <2>2
<1>3. TheLines' = <<>>
  BY DEF TheLines
<1>4. files' = files
  BY DEF files
<1> QED
  BY <1>2, <1>3, <1>4 DEF Listing!PrintAgain, TheLines, LineOf

\* The table that verify makes of the lines.
LEMMA TableMade ==
    ASSUME PrinterInv, CommandInv, FormatTable
    PROVE  TableTruthful'
<1>1. /\ command = "verify" /\ walk = "done"
      /\ table' = [i \in DOMAIN output |->
                      [path |-> output[i].path, percentage |-> PercentageColumn(i)]]
      /\ UNCHANGED <<metafile, percentages>>
  BY DEF FormatTable, DiskUnchanged
<1>2. /\ caller = "verify" /\ ~list_padding /\ percentages \in [DOMAIN files -> {0, 100}]
      /\ OutputInv /\ FilesPrinted /\ metafile \in Metafiles
  BY <1>1 DEF CommandInv, PrinterInv
<1>3. files' = files /\ Regular' = Regular
  BY <1>1 DEF files, Regular, Pads
<1> DEFINE n == Len(output)
<1>4. DOMAIN output = 1 .. n
  BY <1>2, LinesFacts DEF OutputInv
<1>5. \A i \in 1 .. n :
          /\ output[i].entry # 0 =>
                /\ output[i].entry \in DOMAIN files
                /\ files[output[i].entry].path = output[i].path
                /\ ~files[output[i].entry].pad
          /\ output[i].entry = 0 =>
                \A k \in DOMAIN files : files[k].path # output[i].path
  BY <1>2 DEF OutputInv
<1>6. \A k \in DOMAIN files : ~files[k].pad => \E i \in 1 .. n : output[i].path = files[k].path
  BY <1>2 DEF FilesPrinted, Printed
<1> HIDE DEF n
<1>7. /\ DOMAIN table' = 1 .. n
      /\ \A i \in 1 .. n : /\ table'[i].path = output[i].path
                           /\ table'[i].percentage = PercentageColumn(i)
  BY <1>1, <1>4
<1>8. \A i \in 1 .. n : /\ output[i].entry # 0 =>
                              /\ table'[i].percentage = percentages[output[i].entry]
                              /\ table'[i].percentage # -1
                        /\ output[i].entry = 0 => table'[i].percentage = -1
  <2> TAKE i \in 1 .. n
  <2>1. output[i].entry # 0 => percentages[output[i].entry] \in {0, 100}
    BY <1>2, <1>5
  <2> QED
    BY <1>7, <2>1 DEF PercentageColumn
<1>9. Regular = {k \in DOMAIN files : ~files[k].pad}
  BY DEF Regular, Pads
<1>10. {table'[i].path : i \in {j \in 1 .. n : table'[j].percentage # -1}}
         = {files[k].path : k \in Regular}
  <2>1. ASSUME NEW i \in 1 .. n, table'[i].percentage # -1
        PROVE  \E k \in Regular : table'[i].path = files[k].path
    BY <1>5, <1>7, <1>8, <1>9, <2>1
  <2>2. ASSUME NEW k \in Regular
        PROVE  \E i \in 1 .. n : table'[i].percentage # -1 /\ table'[i].path = files[k].path
    BY <1>5, <1>6, <1>7, <1>8, <1>9
  <2> QED
    BY <2>1, <2>2
<1>11. \A i \in 1 .. n, j \in DOMAIN files :
          table'[i].path = files[j].path => table'[i].percentage = percentages[j]
  <2> SUFFICES ASSUME NEW i \in 1 .. n, NEW j \in DOMAIN files, output[i].path = files[j].path
               PROVE  table'[i].percentage = percentages[j]
    BY <1>7
  <2>1. output[i].entry \in DOMAIN files /\ files[output[i].entry].path = files[j].path
    BY <1>5
  <2>2. files[j].path \in Seq(Nat)
    BY <1>2, StorageFacts
  <2>3. IsPrefix(files[output[i].entry].path, files[j].path)
    BY <2>1, <2>2, PrefixTransitive
  <2>4. output[i].entry = j
    BY <1>2, <2>1, <2>3, StorageFacts
  <2> QED
    BY <1>5, <1>8, <2>4
<1>12. {table'[i].path : i \in {j \in DOMAIN table' : table'[j].percentage # -1}}
          = {files'[i].path : i \in Regular'}
  BY <1>3, <1>7, <1>10
<1>13. \A i \in DOMAIN table', j \in DOMAIN files' :
          table'[i].path = files'[j].path => table'[i].percentage = percentages'[j]
  BY <1>1, <1>3, <1>7, <1>11
<1> QED
  BY <1>12, <1>13 DEF TableTruthful

\* A table stays true as long as it and the percentages are not changed.
LEMMA TableKept ==
    ASSUME TableTruthful, UNCHANGED <<metafile, table, percentages>>
    PROVE  TableTruthful'
<1>1. files' = files /\ Regular' = Regular
  BY DEF files, Regular, Pads
<1> QED
  BY <1>1 DEF TableTruthful

\* Every step keeps the invariant, and is one of TreeListing or none.
LEMMA WalkingStep ==
    ASSUME WalkInv, [Next]_vars
    PROVE  WalkInv' /\ [Listing!Next]_(Listing!vars)
<1>0. PrinterInv /\ CommandInv /\ TableTruthful /\ metafile \in Metafiles
  BY DEF WalkInv, PrinterInv
<1>1. CASE StartPad
  <2>1. /\ command = "none" /\ command' = "pad" /\ output' = <<>> /\ walk' = "none"
        /\ caller' = "info" /\ list_padding' = FALSE /\ table' = <<>> /\ metafile' = metafile
    BY <1>1 DEF StartPad, RunPad, NoTree, NoTable
  <2>2. Listing!PrintAgain
    BY <1>0, <2>1, ListingOver
  <2>3. PrinterInv'
    BY <1>0, <2>1 DEF PrinterInv
  <2>4. CommandInv' /\ TableTruthful'
    BY <2>1 DEF CommandInv, TableTruthful
  <2> QED
    BY <2>2, <2>3, <2>4 DEF WalkInv, Listing!Next
<1>2. CASE (PadStep \/ PadKilled \/ RemovePadding) /\ UNCHANGED <<treeVars, verifyVars>>
  <2>1. UNCHANGED treeVars /\ UNCHANGED <<walk, table, percentages>>
    BY <1>2 DEF treeVars, verifyVars
  <2>2. metafile' = metafile
    BY <1>2, FilesKept DEF PadActions, PadStep
  <2>3. \/ command = "pad" /\ command' \in {"pad", "none"}
        \/ command = "none" /\ command' = "none"
    BY <1>2 DEF PadStep, PadKilled, RemovePadding, PadSkip, PadDirectory, PadOpen, PadResize,
                PadResizeMissing, PadRefused, PadDone, PadEnds, AtFile
  <2>4. PrinterInv' /\ UNCHANGED Listing!vars
    BY <1>0, <2>1, <2>2, PrinterKept
  <2>5. CommandInv'
    BY <1>0, <2>1, <2>3 DEF CommandInv
  <2>6. TableTruthful'
    BY <1>0, <2>1, <2>2, TableKept
  <2> QED
    BY <2>4, <2>5, <2>6 DEF WalkInv
<1>3. CASE \E option \in Options : RunVerify(option)
  <2>1. PICK option \in Options : RunVerify(option)
    BY <1>3
  <2>2. /\ command = "none" /\ command' = "verify" /\ caller' = "verify" /\ MakePrinter(FALSE)
        /\ table' = <<>> /\ metafile' = metafile
        /\ percentages' = [i \in DOMAIN files |-> percentage(i, protocol_version')]
    BY <2>1 DEF RunVerify, Start, DiskUnchanged
  <2>3. PrinterInv'
    BY <1>0, <2>2, PrinterMade
  <2>4. output' = <<>> /\ list_padding' = FALSE
    BY <2>2 DEF MakePrinter
  <2>5. Listing!PrintAgain
    BY <1>0, <2>2, <2>4, ListingOver
  <2>6. files' = files
    BY <2>2 DEF files
  <2>7. percentages' \in [DOMAIN files' -> {0, 100}]
    BY <2>2, <2>6 DEF percentage
  <2>8. CommandInv' /\ TableTruthful'
    BY <2>2, <2>4, <2>7 DEF CommandInv, TableTruthful
  <2> QED
    BY <2>3, <2>5, <2>8 DEF WalkInv, Listing!Next
<1>4. CASE \E show_padding_files \in BOOLEAN : RunInfo(show_padding_files)
  <2>1. PICK show \in BOOLEAN : RunInfo(show)
    BY <1>4
  <2>2. /\ command = "none" /\ command' = "info" /\ caller' = "info"
        /\ table' = <<>> /\ metafile' = metafile
        /\ IF metafile.single
           THEN output' = <<>> /\ walk' = "name" /\ list_padding' = show
           ELSE MakePrinter(show)
    BY <2>1 DEF RunInfo, Start, DiskUnchanged, NoTable, NoTree
  <2>3. PrinterInv'
    <3>1. CASE metafile.single
      BY <1>0, <2>2, <3>1 DEF PrinterInv
    <3>2. CASE ~metafile.single
      BY <1>0, <2>2, <3>2, PrinterMade
    <3> QED
      BY <3>1, <3>2
  <2>4. output' = <<>> /\ list_padding' = show
    BY <2>2 DEF MakePrinter
  <2>5. Listing!PrintAgain
    BY <1>0, <2>2, <2>4, ListingOver
  <2>6. CommandInv' /\ TableTruthful'
    BY <2>2 DEF CommandInv, TableTruthful
  <2> QED
    BY <2>3, <2>5, <2>6 DEF WalkInv, Listing!Next
<1>5. CASE WalkStep
  <2>1. /\ command \in {"info", "verify"} /\ Walk
        /\ UNCHANGED <<metafile, command, table, percentages>>
    BY <1>5 DEF WalkStep, padVars, verifyVars
  <2>2. /\ PrinterInv' /\ [Listing!Next]_(Listing!vars)
        /\ caller' = caller /\ list_padding' = list_padding
    BY <1>0, <2>1, PrinterStep
  <2>3. files' = files
    BY <2>1 DEF files
  <2>4. CommandInv'
    BY <1>0, <2>1, <2>2, <2>3 DEF CommandInv
  <2>5. TableTruthful'
    BY <1>0, <2>1, TableKept
  <2> QED
    BY <2>2, <2>4, <2>5 DEF WalkInv
<1>6. CASE FormatTable
  <2>1. /\ command' = "none" /\ walk = "done" /\ walk' = walk
        /\ UNCHANGED treeVars /\ metafile' = metafile
    BY <1>6 DEF FormatTable, DiskUnchanged, treeVars
  <2>2. PrinterInv' /\ UNCHANGED Listing!vars
    BY <1>0, <2>1, PrinterKept
  <2>3. CommandInv'
    BY <2>1 DEF CommandInv
  <2>4. TableTruthful'
    BY <1>0, <1>6, TableMade
  <2> QED
    BY <2>2, <2>3, <2>4 DEF WalkInv
<1>7. CASE InfoDone
  <2>1. /\ command' = "none" /\ walk = "done" /\ walk' = walk
        /\ UNCHANGED treeVars /\ UNCHANGED <<metafile, table, percentages>>
    BY <1>7 DEF InfoDone, DiskUnchanged, treeVars, verifyVars
  <2>2. PrinterInv' /\ UNCHANGED Listing!vars
    BY <1>0, <2>1, PrinterKept
  <2>3. CommandInv'
    BY <2>1 DEF CommandInv
  <2>4. TableTruthful'
    BY <1>0, <2>1, TableKept
  <2> QED
    BY <2>2, <2>3, <2>4 DEF WalkInv
<1>8. CASE UNCHANGED vars
  <2>1. /\ UNCHANGED treeVars
        /\ UNCHANGED <<metafile, table, percentages, command, walk, caller, list_padding>>
    BY <1>8 DEF vars, treeVars, padVars, verifyVars
  <2>2. PrinterInv' /\ UNCHANGED Listing!vars
    BY <1>0, <2>1, PrinterKept
  <2>3. files' = files
    BY <2>1 DEF files
  <2>4. CommandInv'
    BY <1>0, <2>1, <2>3 DEF CommandInv
  <2>5. TableTruthful'
    BY <1>0, <2>1, TableKept
  <2> QED
    BY <2>2, <2>4, <2>5 DEF WalkInv
<1> QED
  BY <1>1, <1>2, <1>3, <1>4, <1>5, <1>6, <1>7, <1>8 DEF Next

\* The first state.
LEMMA WalkInitially ==
    ASSUME Init
    PROVE  WalkInv /\ Listing!Init
<1>1. /\ metafile \in Metafiles /\ command = "none" /\ caller = "info" /\ list_padding = FALSE
      /\ output = <<>> /\ walk = "none" /\ table = <<>>
  BY DEF Init, PadInit
<1>2. PrinterInv
  BY <1>1 DEF PrinterInv
<1>3. CommandInv /\ TableTruthful
  BY <1>1 DEF CommandInv, TableTruthful
<1>4. Listing!Init
  <2>1. (caller = "info") \in BOOLEAN /\ list_padding \in BOOLEAN
    BY <1>1
  <2>2. (IF ~metafile.single THEN "tree" ELSE IF caller = "info" THEN "name" ELSE "file")
            \in {"tree", "file", "name"}
    BY Zenon
  <2>3. [i \in DOMAIN output |->
           [path |-> output[i].path, node |-> output[i].node,
            prefix |-> output[i].prefix, size |-> output[i].size]] = <<>>
    BY <1>1
  <2> QED
    BY <2>1, <2>2, <2>3 DEF Listing!Init
<1> QED
  BY <1>2, <1>3, <1>4 DEF WalkInv

\* The walk prints the entries that are not hidden in the order of their paths, and its
\* frames and its prefix are those of the way to where it is.
THEOREM WalkInvariant == Spec => []WalkInv
<1>1. Init => WalkInv
  BY WalkInitially
<1>2. WalkInv /\ [Next]_vars => WalkInv'
  BY WalkingStep
<1> QED
  BY <1>1, <1>2, PTL DEF Spec

\* verify puts the state of a file next to its line, for every file that is not
\* padding, and nothing next to a directory.
THEOREM VerifyTableTruthful == Spec => []TableTruthful
<1>1. WalkInv => TableTruthful
  BY DEF WalkInv
<1> QED
  BY <1>1, WalkInvariant, PTL

\* The tree that info and verify print is TreeListing's: every step of the index and of
\* the walk with its stack is one of TreeListing, or none.
THEOREM ImplementsTreeListing == Spec => ListingSpec
<1>1. Init => Listing!Init
  BY WalkInitially
<1>2. WalkInv /\ [Next]_vars => [Listing!Next]_(Listing!vars)
  BY WalkingStep
<1> QED
  BY <1>1, <1>2, WalkInvariant, PTL DEF Spec, ListingSpec, Listing!Spec

-----------------------------------------------------------------------------
(* The progress loops *)

\* What at(i) is, for an index within bounds.
LEMMA AtFacts ==
    ASSUME storage \in Seq(FileEntry)
    PROVE  /\ file_count \in Nat
           /\ \A i \in Indices : at(i) \in FileEntry
BY DEF file_count, Indices, at

\* What is computed from the file list stays when the list does.
LEMMA StorageKept ==
    ASSUME storage' = storage, v1' = v1
    PROVE  /\ file_count' = file_count /\ Indices' = Indices
           /\ PaddingFiles' = PaddingFiles /\ total_file_size' = total_file_size
           /\ \A i : at(i)' = at(i) /\ Label(i)' = Label(i)
           /\ \A i : Displayed(i)' = Displayed(i)
           /\ \A i : LinesUpTo(i)' = LinesUpTo(i)
<1>1. file_count' = file_count /\ Indices' = Indices /\ \A i : at(i)' = at(i)
  BY DEF file_count, Indices, at
<1>2. PaddingFiles' = PaddingFiles
  BY <1>1 DEF PaddingFiles
<1>3. \A i : PadsBefore(i)' = PadsBefore(i)
  BY <1>2 DEF PadsBefore
<1>4. \A i : Label(i)' = Label(i) /\ LinesUpTo(i)' = LinesUpTo(i)
  BY <1>3 DEF Label, LinesUpTo
<1>5. \A i : Displayed(i)' = Displayed(i)
  BY <1>2 DEF Displayed
<1>6. total_file_size' = total_file_size
  BY <1>1 DEF total_file_size, SumOf
<1> QED
  BY <1>1, <1>2, <1>4, <1>5, <1>6

\* One more file before i: a padding file is one more to subtract.
LEMMA PadsBeforeNext ==
    ASSUME storage \in Seq(FileEntry), NEW i \in Indices
    PROVE  /\ Cardinality(PadsBefore(i)) \in 0 .. i
           /\ Cardinality(PadsBefore(i + 1)) =
                  Cardinality(PadsBefore(i)) + (IF i \in PaddingFiles THEN 1 ELSE 0)
<1>1. file_count \in Nat /\ i \in Nat
  BY AtFacts DEF Indices
<1>2. PadsBefore(i) \subseteq 0 .. i - 1
  BY <1>1 DEF PadsBefore, PaddingFiles, Indices
<1>3. IsFiniteSet(0 .. i - 1) /\ Cardinality(0 .. i - 1) = i
  <2>1. i - 1 \in Int /\ 0 \in Int
    BY <1>1
  <2>2. /\ IsFiniteSet(0 .. i - 1)
        /\ Cardinality(0 .. i - 1) = IF 0 > i - 1 THEN 0 ELSE (i - 1) - 0 + 1
    BY <2>1, FS_Interval
  <2> QED
    BY <1>1, <2>2
<1>4. IsFiniteSet(PadsBefore(i)) /\ Cardinality(PadsBefore(i)) <= i
  BY <1>2, <1>3, FS_Subset
<1>5. Cardinality(PadsBefore(i)) \in Nat
  BY <1>4, FS_CardinalityType
<1>6. CASE i \in PaddingFiles
  <2>1. PadsBefore(i + 1) = PadsBefore(i) \union {i} /\ i \notin PadsBefore(i)
    BY <1>1, <1>6 DEF PadsBefore, PaddingFiles, Indices
  <2> QED
    BY <1>1, <1>4, <1>5, <1>6, <2>1, FS_AddElement
<1>7. CASE i \notin PaddingFiles
  <2>1. PadsBefore(i + 1) = PadsBefore(i)
    BY <1>1, <1>7 DEF PadsBefore, PaddingFiles, Indices
  <2> QED
    BY <1>1, <1>4, <1>5, <1>7, <2>1
<1> QED
  BY <1>6, <1>7

LEMMA LabelFacts ==
    ASSUME storage \in Seq(FileEntry), NEW i \in Indices
    PROVE  /\ Label(i) \in Nat
           /\ LinesUpTo(i) \in Nat
           /\ i = 0 => LinesUpTo(i) = IF v1 \/ i \notin PaddingFiles THEN 1 ELSE 0
           /\ ~v1 /\ i \notin PaddingFiles => LinesUpTo(i) = Label(i) + 1
           /\ i + 1 \in Indices =>
                 LinesUpTo(i + 1) = LinesUpTo(i) +
                     (IF v1 \/ i + 1 \notin PaddingFiles THEN 1 ELSE 0)
<1>1. i \in Nat /\ file_count \in Nat
  BY AtFacts DEF Indices
<1>2. /\ Cardinality(PadsBefore(i)) \in 0 .. i
      /\ Cardinality(PadsBefore(i + 1)) =
             Cardinality(PadsBefore(i)) + (IF i \in PaddingFiles THEN 1 ELSE 0)
  BY PadsBeforeNext
<1>3. ASSUME i + 1 \in Indices
      PROVE  Cardinality(PadsBefore(i + 2)) = Cardinality(PadsBefore(i + 1))
                 + (IF i + 1 \in PaddingFiles THEN 1 ELSE 0)
  <2>1. i + 1 + 1 = i + 2
    BY <1>1
  <2> QED
    BY <1>3, <2>1, PadsBeforeNext
<1>4. i + 1 + 1 = i + 2
  BY <1>1
<1> QED
  BY <1>1, <1>2, <1>3, <1>4 DEF Label, LinesUpTo

LEMMA LineForFacts ==
    ASSUME storage \in Seq(FileEntry), v1 \in BOOLEAN, NEW i \in Indices
    PROVE  LineFor(i) = IF v1 \/ i \notin PaddingFiles
                        THEN <<[label |-> IF v1 THEN i + 1 ELSE Label(i) + 1,
                                file |-> i]>>
                        ELSE <<>>
BY DEF LineFor, PaddingFiles

LEMMA FirstLine ==
    ASSUME storage \in Seq(FileEntry), v1 \in BOOLEAN, 0 \in Indices
    PROVE  Lines(LineFor(0), 0)
<1>1. LinesUpTo(0) = IF v1 \/ 0 \notin PaddingFiles THEN 1 ELSE 0
  BY LabelFacts
<1>2. Displayed(0) = IF v1 \/ 0 \notin PaddingFiles THEN {0} ELSE {}
  BY DEF Displayed
<1>3. CASE v1 \/ 0 \notin PaddingFiles
  <2> DEFINE r == [label |-> IF v1 THEN 0 + 1 ELSE Label(0) + 1, file |-> 0]
  <2>1. LineFor(0) = <<r>>
    BY <1>3, LineForFacts
  <2>2. r.label = 1 /\ r.file = 0 /\ r \in [label : Nat, file : Indices]
    <3>1. ~v1 => Label(0) + 1 = 1
      BY <1>1, <1>3, LabelFacts
    <3> QED
      BY <3>1
  <2> HIDE DEF r
  <2> DEFINE p == <<r>>
  <2>3. /\ p \in Seq([label : Nat, file : Indices]) /\ Len(p) = 1
        /\ DOMAIN p = {1} /\ p[1] = r
    BY <2>2
  <2> HIDE DEF p
  <2>4. \A k, l \in DOMAIN p : ~(k < l)
    BY <2>3
  <2>5. {p[k].file : k \in DOMAIN p} = {0}
    BY <2>2, <2>3
  <2>6. Lines(p, 0)
    BY <1>1, <1>2, <1>3, <2>2, <2>3, <2>4, <2>5 DEF Lines
  <2> QED
    BY <2>1, <2>6 DEF p
<1>4. CASE ~(v1 \/ 0 \notin PaddingFiles)
  <2>1. LineFor(0) = <<>> /\ Displayed(0) = {} /\ LinesUpTo(0) = 0
    BY <1>1, <1>2, <1>4, LineForFacts
  <2> DEFINE p == <<>>
  <2>2. /\ p \in Seq([label : Nat, file : Indices]) /\ Len(p) = 0
        /\ DOMAIN p = {}
    OBVIOUS
  <2> HIDE DEF p
  <2>3. Lines(p, 0)
    BY <2>1, <2>2 DEF Lines
  <2> QED
    BY <2>1, <2>3 DEF p
<1> QED
  BY <1>3, <1>4

LEMMA NextLine ==
    ASSUME storage \in Seq(FileEntry), v1 \in BOOLEAN, NEW i \in Indices,
           i + 1 \in Indices, NEW p, Lines(p, i)
    PROVE  Lines(p \o LineFor(i + 1), i + 1)
<1>1. /\ i \in Nat /\ Len(p) = LinesUpTo(i)
      /\ LinesUpTo(i + 1) = LinesUpTo(i) + (IF v1 \/ i + 1 \notin PaddingFiles THEN 1 ELSE 0)
      /\ v1 => LinesUpTo(i + 1) = i + 2
      /\ ~v1 /\ i + 1 \notin PaddingFiles => LinesUpTo(i + 1) = Label(i + 1) + 1
  <2>1. i \in Nat /\ (i + 1) + 1 = i + 2
    BY DEF Indices
  <2> QED
    BY <2>1, LabelFacts DEF Lines, LinesUpTo
<1>2. Displayed(i + 1) = Displayed(i) \union
                         (IF v1 \/ i + 1 \notin PaddingFiles THEN {i + 1} ELSE {})
  BY <1>1 DEF Displayed
<1>3. \A j \in Displayed(i) : j < i + 1
  BY <1>1 DEF Displayed
<1>4. CASE v1 \/ i + 1 \notin PaddingFiles
  <2> DEFINE r == [label |-> IF v1 THEN (i + 1) + 1 ELSE Label(i + 1) + 1,
                   file |-> i + 1]
  <2> DEFINE q == p \o <<r>>
  <2>1. LineFor(i + 1) = <<r>>
    BY <1>4, LineForFacts
  <2>2. r.label = Len(p) + 1 /\ r.file = i + 1 /\ r \in [label : Nat, file : Indices]
    <3>1. (i + 1) + 1 = Len(p) + 1 \/ ~v1
      BY <1>1, <1>4, LabelFacts
    <3>2. Label(i + 1) + 1 = Len(p) + 1 \/ v1
      BY <1>1, <1>4, LabelFacts
    <3>3. r.label = Len(p) + 1
      BY <3>1, <3>2
    <3>4. Len(p) + 1 \in Nat
      BY DEF Lines
    <3> QED
      BY <3>3, <3>4
  <2> HIDE DEF r
  <2>3. /\ p \in Seq([label : Nat, file : Indices]) /\ Len(p) \in Nat
        /\ DOMAIN p = 1 .. Len(p)
    BY DEF Lines
  <2>4. /\ q \in Seq([label : Nat, file : Indices])
        /\ Len(q) = Len(p) + 1 /\ DOMAIN q = 1 .. Len(p) + 1
        /\ \A k \in 1 .. Len(p) : q[k] = p[k]
        /\ q[Len(p) + 1] = r
    BY <2>2, <2>3
  <2> HIDE DEF q
  <2>5. \A k \in DOMAIN p : p[k].file \in Displayed(i)
    BY DEF Lines
  <2>6. \A k \in DOMAIN q : q[k].label = k
    BY <2>2, <2>3, <2>4 DEF Lines
  <2>7. \A k, l \in DOMAIN q : k < l => q[k].file < q[l].file
    <3> SUFFICES ASSUME NEW k \in DOMAIN q, NEW l \in DOMAIN q, k < l
                 PROVE  q[k].file < q[l].file
      OBVIOUS
    <3>1. k \in DOMAIN p /\ q[k] = p[k]
      BY <2>3, <2>4
    <3>2. CASE l = Len(p) + 1
      BY <1>3, <2>2, <2>4, <2>5, <3>1, <3>2
    <3>3. CASE l # Len(p) + 1
      <4>1. l \in DOMAIN p /\ q[l] = p[l]
        BY <2>3, <2>4, <3>3
      <4> QED
        BY <3>1, <4>1 DEF Lines
    <3> QED
      BY <3>2, <3>3
  <2>8. {q[k].file : k \in DOMAIN q} = {p[k].file : k \in DOMAIN p} \union {i + 1}
    <3>1. \A k \in DOMAIN q : q[k].file = (IF k = Len(p) + 1 THEN i + 1 ELSE p[k].file)
      BY <2>2, <2>3, <2>4
    <3>2. DOMAIN q = DOMAIN p \union {Len(p) + 1} /\ Len(p) + 1 \notin DOMAIN p
      BY <2>3, <2>4
    <3> QED
      BY <3>1, <3>2
  <2>9. {q[k].file : k \in DOMAIN q} = Displayed(i + 1)
    BY <1>2, <1>4, <2>8 DEF Lines
  <2>10. Lines(q, i + 1)
    BY <1>1, <1>4, <2>4, <2>6, <2>7, <2>9 DEF Lines
  <2> QED
    BY <2>1, <2>10 DEF q
<1>5. CASE ~(v1 \/ i + 1 \notin PaddingFiles)
  <2>1. LineFor(i + 1) = <<>> /\ p \o <<>> = p
    BY <1>5, LineForFacts DEF Lines
  <2>2. Displayed(i + 1) = Displayed(i) /\ LinesUpTo(i + 1) = LinesUpTo(i)
    <3>1. LinesUpTo(i) \in Nat
      BY LabelFacts
    <3>2. LinesUpTo(i + 1) = LinesUpTo(i)
      BY <1>1, <1>5, <3>1
    <3>3. Displayed(i + 1) = Displayed(i)
      BY <1>2, <1>5
    <3> QED
      BY <3>2, <3>3
  <2>3. Lines(p, i + 1)
    BY <2>2 DEF Lines
  <2> QED
    BY <2>1, <2>3
<1> QED
  BY <1>4, <1>5

-----------------------------------------------------------------------------

THEOREM Initially == ProgressInit => IInv
<1> SUFFICES ASSUME ProgressInit PROVE IInv
  OBVIOUS
<1>1. storage \in Seq(FileEntry) /\ file_count \in Nat
  BY StorageAssumption DEF ProgressInit, file_count
<1>2. TypeOK
  BY <1>1 DEF ProgressInit, TypeOK, NoBar, Idle, Indices, BarType, HasherType
<1>3. HasherInv
  <2>1. file_count > 0 => at(0).size \in Nat
    BY <1>1, AtFacts DEF Indices, FileEntry
  <2> QED
    BY <1>1, <2>1 DEF ProgressInit, HasherInv, Idle
<1>4. LoopInv /\ LinesInv /\ BarInv
  BY <1>1 DEF ProgressInit, LoopInv, LinesInv, BarInv, Begun, NotAhead, Idle
<1> QED
  BY <1>2, <1>3, <1>4 DEF IInv

LEMMA HasherStep == IInv /\ Hasher => IInv'
<1> SUFFICES ASSUME IInv, Hasher PROVE IInv'
  OBVIOUS
<1>1. /\ storage \in Seq(FileEntry) /\ file_count \in Nat
      /\ \A i \in Indices : at(i) \in FileEntry
      /\ hasher \in HasherType
      /\ seen \in [index : 0 .. file_count, offset : Nat, bytes : Nat]
  BY AtFacts DEF IInv, TypeOK, HasherType
<1>2. UNCHANGED <<storage, v1, style, main, current, seen, printed, bar>>
  BY DEF Hasher
<1>3. /\ hasher' \in HasherType
      /\ hasher'.index < file_count => hasher'.offset <= at(hasher'.index).size
      /\ hasher'.index = file_count => hasher'.offset = 0
      /\ hasher'.index >= hasher.index
  <2>1. CASE HashBlock
    <3>1. /\ hasher' = [hasher EXCEPT !.offset = hasher.offset + 1,
                                     !.bytes = hasher.bytes + 1]
          /\ hasher.index < file_count /\ hasher.offset < at(hasher.index).size
      BY <2>1 DEF HashBlock
    <3>2. /\ hasher.index \in 0 .. file_count /\ hasher.offset \in Nat
          /\ hasher.bytes \in Nat /\ hasher.state \in {"idle", "hashing", "finished"}
          /\ hasher = [state |-> hasher.state, index |-> hasher.index,
                       offset |-> hasher.offset, bytes |-> hasher.bytes]
      BY <1>1 DEF HasherType
    <3>3. at(hasher.index).size \in Nat
      BY <1>1, <3>1, <3>2 DEF Indices, FileEntry
    <3>a. hasher' = [state |-> hasher.state, index |-> hasher.index,
                     offset |-> hasher.offset + 1, bytes |-> hasher.bytes + 1]
      BY <3>1, <3>2
    <3>4. /\ hasher'.index = hasher.index /\ hasher'.offset = hasher.offset + 1
          /\ hasher' \in HasherType
      BY <1>1, <3>a, <3>2 DEF HasherType
    <3> QED
      BY <1>1, <3>1, <3>2, <3>3, <3>4
  <2>2. CASE HashNextFile
    <3>1. /\ hasher' = [hasher EXCEPT !.index = hasher.index + 1, !.offset = 0]
          /\ hasher.index < file_count
      BY <2>2 DEF HashNextFile
    <3>2. /\ hasher.index \in 0 .. file_count /\ hasher.offset \in Nat
          /\ hasher.bytes \in Nat /\ hasher.state \in {"idle", "hashing", "finished"}
          /\ hasher = [state |-> hasher.state, index |-> hasher.index,
                       offset |-> hasher.offset, bytes |-> hasher.bytes]
      BY <1>1 DEF HasherType
    <3>a. hasher' = [state |-> hasher.state, index |-> hasher.index + 1,
                     offset |-> 0, bytes |-> hasher.bytes]
      BY <3>1, <3>2
    <3>3. /\ hasher'.index = hasher.index + 1 /\ hasher'.offset = 0
          /\ hasher' \in HasherType
      BY <1>1, <3>1, <3>2, <3>a DEF HasherType
    <3>4. hasher'.index < file_count => at(hasher'.index).size \in Nat
      <4>1. hasher.index + 1 < file_count => at(hasher.index + 1) \in FileEntry
        BY <1>1, <3>2 DEF Indices
      <4> QED
        BY <3>3, <4>1 DEF FileEntry
    <3> QED
      BY <1>1, <3>2, <3>3, <3>4
  <2>3. CASE HashEnd
    BY <1>1, <2>3 DEF HashEnd, IInv, HasherInv, HasherType
  <2> QED
    BY <2>1, <2>2, <2>3 DEF Hasher
<1>4. TypeOK'
  <2>1. /\ file_count' = file_count /\ Indices' = Indices
        /\ total_file_size' = total_file_size
    BY <1>2, StorageKept
  <2> QED
    BY <1>2, <1>3, <2>1 DEF IInv, TypeOK, BarType, HasherType
<1>5. HasherInv'
  BY <1>1, <1>2, <1>3 DEF IInv, HasherInv, HasherType, file_count, at
<1>6. LoopInv'
  BY <1>1, <1>2, <1>3 DEF IInv, TypeOK, LoopInv, NotAhead, HasherType,
     file_count, Indices
<1>7. LinesInv' /\ BarInv'
  <2>1. LinesInv'
    BY <1>2, StorageKept DEF IInv, LinesInv, Begun, Lines
  <2>2. BarInv'
    BY <1>2, StorageKept DEF IInv, BarInv, Begun
  <2> QED
    BY <2>1, <2>2
<1> QED
  BY <1>4, <1>5, <1>6, <1>7 DEF IInv

\* What the indicator's three setters leave it in.
LEMMA CurrentFacts ==
    ASSUME storage \in Seq(FileEntry), NEW i \in Indices, NEW b \in BarType
    PROVE  LET c == set_current_file(b, i) IN
           /\ c \in BarType /\ c.pad = at(i).pad /\ c.total = b.total
           /\ at(i).pad => c.value = b.value /\ c.range = b.range
           /\ ~at(i).pad => c.value = 0 /\ c.range = at(i).size
<1>1. Label(i) \in Nat /\ at(i) \in FileEntry
  BY LabelFacts, AtFacts
<1>2. at(i).size \in Nat /\ at(i).pad \in BOOLEAN
  BY <1>1 DEF FileEntry
<1>3. CASE at(i).pad
  BY <1>2, <1>3 DEF BarType, set_current_file
<1>4. CASE ~at(i).pad
  BY <1>1, <1>2, <1>4 DEF BarType, set_current_file
<1> QED
  BY <1>3, <1>4

LEMMA ValueFacts ==
    ASSUME NEW b \in BarType, NEW v \in Nat
    PROVE  LET c == set_per_file_value(b, v) IN
           /\ c \in BarType /\ c.pad = b.pad /\ c.range = b.range
           /\ c.total = b.total
           /\ c.value = IF b.pad THEN b.value ELSE v
<1>1. CASE b.pad
  BY <1>1 DEF BarType, set_per_file_value
<1>2. CASE ~b.pad
  BY <1>2 DEF BarType, set_per_file_value
<1> QED
  BY <1>1, <1>2

LEMMA TotalFacts ==
    ASSUME NEW b \in BarType, NEW t \in Nat \union {total_file_size}
    PROVE  LET c == set_total_value(b, t) IN
           /\ c \in BarType /\ c.pad = b.pad /\ c.range = b.range
           /\ c.value = b.value
           /\ c.total = IF b.pad THEN b.total ELSE t
<1>1. CASE b.pad
  BY <1>1 DEF BarType, set_total_value
<1>2. CASE ~b.pad
  BY <1>2 DEF BarType, set_total_value
<1> QED
  BY <1>1, <1>2

LEMMA MainStep == IInv /\ Main => IInv'
<1> SUFFICES ASSUME IInv, Main PROVE IInv'
  OBVIOUS
<1>1. /\ storage \in Seq(FileEntry) /\ file_count \in Nat /\ v1 \in BOOLEAN
      /\ \A i \in Indices : at(i) \in FileEntry /\ at(i).size \in Nat
      /\ Indices = 0 .. file_count - 1
      /\ bar \in BarType /\ current \in Nat
      /\ hasher.index \in 0 .. file_count /\ hasher.offset \in Nat
      /\ hasher.bytes \in Nat /\ hasher \in HasherType
      /\ seen.index \in 0 .. file_count /\ seen.offset \in Nat
      /\ seen.bytes \in Nat
      /\ seen \in [index : 0 .. file_count, offset : Nat, bytes : Nat]
  BY AtFacts DEF IInv, TypeOK, HasherType, Indices, FileEntry
<1>2. UNCHANGED <<storage, v1, style>>
  BY DEF Main, StartProgress, Check, PollFile, PollTotal, Chase, Show, FinishBar,
         FinishSimple, Wait
<1>3. /\ file_count' = file_count /\ Indices' = Indices
      /\ total_file_size' = total_file_size /\ PaddingFiles' = PaddingFiles
      /\ BarType' = BarType /\ HasherType' = HasherType
      /\ \A i : at(i)' = at(i)
      /\ \A i : Displayed(i)' = Displayed(i)
      /\ \A i : LinesUpTo(i)' = LinesUpTo(i)
  BY <1>2, StorageKept DEF BarType, HasherType
<1>4. /\ main \in {"check", "poll", "pollTotal", "chase", "finish"} => current \in Indices
      /\ Begun => current \in Indices
  BY <1>1 DEF IInv, TypeOK, LoopInv, Begun
<1>5. CASE StartProgress
  <2>1. /\ main = "start" /\ current = 0 /\ bar = NoBar /\ printed = <<>>
        /\ hasher' = [hasher EXCEPT !.state = "hashing"]
        /\ main' = (IF file_count > 0 THEN "check" ELSE "wait")
        /\ UNCHANGED <<current, seen>>
    BY <1>5 DEF StartProgress, IInv, LoopInv
  <2>2. hasher' \in HasherType /\ UNCHANGED <<hasher.index, hasher.offset>>
    BY <1>1, <2>1 DEF HasherType
  <2>3. HasherInv'
    BY <1>1, <1>3, <2>1, <2>2 DEF IInv, HasherInv
  <2>4. LoopInv'
    BY <1>1, <1>3, <2>1, <2>2 DEF LoopInv, NotAhead
  <2>5. CASE style = "bar"
    <3>1. /\ printed' = printed
          /\ bar' = [IF file_count > 0 THEN set_current_file(NoBar, 0) ELSE NoBar
                     EXCEPT !.running = TRUE]
      BY <1>5, <2>5 DEF StartProgress
    <3>2. NoBar \in BarType /\ NoBar.value = 0 /\ NoBar.range = 0
      BY DEF NoBar, BarType
    <3>3. file_count > 0 =>
            /\ bar' \in BarType /\ bar'.pad = at(0).pad
            /\ at(0).pad => bar'.value = 0 /\ bar'.range = 0
            /\ ~at(0).pad => bar'.value = 0 /\ bar'.range = at(0).size
      <4> DEFINE b == set_current_file(NoBar, 0)
      <4>1. ASSUME file_count > 0
            PROVE  /\ b \in BarType /\ b.pad = at(0).pad
                   /\ at(0).pad => b.value = 0 /\ b.range = 0
                   /\ ~at(0).pad => b.value = 0 /\ b.range = at(0).size
        <5>1. 0 \in Indices
          BY <1>1, <4>1
        <5> QED
          BY <1>1, <3>2, <5>1, CurrentFacts
      <4> HIDE DEF b
      <4>2. ASSUME file_count > 0
            PROVE  /\ bar' \in BarType /\ bar'.pad = b.pad
                   /\ bar'.value = b.value /\ bar'.range = b.range
        BY <3>1, <4>1, <4>2 DEF BarType, b
      <4> QED
        BY <4>1, <4>2
    <3>4. ~(file_count > 0) => bar' \in BarType
      BY <3>1, <3>2 DEF BarType
    <3>5. TypeOK'
      BY <1>1, <1>2, <1>3, <2>1, <2>2, <3>1, <3>3, <3>4 DEF IInv, TypeOK
    <3>6. LinesInv'
      BY <1>2, <2>5 DEF LinesInv
    <3>7. BarInv'
      BY <1>1, <1>2, <1>3, <2>1, <3>3 DEF BarInv, Begun
    <3> QED
      BY <2>3, <2>4, <3>5, <3>6, <3>7 DEF IInv
  <2>6. CASE style # "bar"
    <3>1. /\ bar' = bar /\ style = "simple"
          /\ printed' = IF file_count > 0 THEN LineFor(0) ELSE <<>>
      BY <1>5, <2>6 DEF StartProgress, IInv, TypeOK
    <3>2. file_count > 0 => 0 \in Indices
      BY <1>1
    <3>3. file_count > 0 => Lines(printed', 0)
      BY <1>1, <3>1, <3>2, FirstLine
    <3>4. TypeOK'
      BY <1>1, <1>2, <1>3, <2>1, <2>2, <3>1, <3>3 DEF IInv, TypeOK, Lines
    <3>5. LinesInv'
      BY <1>2, <1>3, <2>1, <3>3 DEF LinesInv, Begun, Lines
    <3>6. BarInv'
      BY <1>2, <2>6 DEF BarInv
    <3> QED
      BY <2>3, <2>4, <3>4, <3>5, <3>6 DEF IInv
  <2> QED
    BY <2>5, <2>6
<1>6. CASE Check
  <2>1. /\ main = "check" /\ main' \in {"poll", "finish"}
        /\ UNCHANGED <<current, seen, printed, bar, hasher>>
    BY <1>6 DEF Check
  <2>2. TypeOK' /\ HasherInv'
    BY <1>2, <1>3, <2>1 DEF IInv, TypeOK, HasherInv
  <2>3. LoopInv'
    BY <1>3, <2>1 DEF IInv, LoopInv, NotAhead
  <2>4. LinesInv' /\ BarInv'
    BY <1>2, <1>3, <2>1 DEF IInv, LinesInv, BarInv, Begun, Lines
  <2> QED
    BY <2>2, <2>3, <2>4 DEF IInv
<1>7. CASE PollFile
  <2>1. /\ main = "poll" /\ main' = (IF style = "bar" THEN "pollTotal" ELSE "chase")
        /\ seen' = [seen EXCEPT !.index = hasher.index, !.offset = hasher.offset]
        /\ UNCHANGED <<current, printed, bar, hasher>>
    BY <1>7 DEF PollFile
  <2>2. /\ seen' \in [index : 0 .. file_count, offset : Nat, bytes : Nat]
        /\ seen'.index = hasher.index /\ seen'.offset = hasher.offset
    BY <1>1, <2>1
  <2>3. TypeOK'
    BY <1>2, <1>3, <2>1, <2>2 DEF IInv, TypeOK
  <2>4. HasherInv'
    BY <1>1, <1>3, <2>1, <2>2 DEF IInv, HasherInv
  <2>5. LoopInv'
    BY <1>2, <1>3, <2>1, <2>2 DEF IInv, LoopInv, NotAhead
  <2>6. LinesInv' /\ BarInv'
    BY <1>2, <1>3, <2>1 DEF IInv, LinesInv, BarInv, Begun, Lines
  <2> QED
    BY <2>3, <2>4, <2>5, <2>6 DEF IInv
<1>8. CASE PollTotal
  <2>1. /\ main = "pollTotal" /\ main' = "chase"
        /\ seen' = [seen EXCEPT !.bytes = hasher.bytes]
        /\ UNCHANGED <<current, printed, bar, hasher>>
    BY <1>8 DEF PollTotal
  <2>2. /\ seen' \in [index : 0 .. file_count, offset : Nat, bytes : Nat]
        /\ seen'.index = seen.index /\ seen'.offset = seen.offset
    BY <1>1, <2>1
  <2>3. TypeOK'
    BY <1>2, <1>3, <2>1, <2>2 DEF IInv, TypeOK
  <2>4. HasherInv' /\ LoopInv'
    BY <1>1, <1>3, <2>1, <2>2 DEF IInv, HasherInv, LoopInv, NotAhead
  <2>5. LinesInv' /\ BarInv'
    BY <1>2, <1>3, <2>1 DEF IInv, LinesInv, BarInv, Begun, Lines
  <2> QED
    BY <2>3, <2>4, <2>5 DEF IInv
<1>9. ASSUME MoveToNext, current + 1 \in Indices, current \in Indices,
             main \in {"chase", "finish"}, main' = main,
             UNCHANGED <<seen, hasher>>,
             main = "chase" => current + 1 <= seen.index
      PROVE  IInv'
  <2>1. current' = current + 1 /\ Begun
    BY <1>1, <1>9 DEF MoveToNext, Begun
  <2>2. HasherInv'
    BY <1>1, <1>3, <1>9 DEF IInv, HasherInv
  <2>3. LoopInv'
    BY <1>1, <1>2, <1>3, <1>9, <2>1 DEF IInv, LoopInv, HasherInv, NotAhead
  <2>4. CASE style = "bar"
    <3> DEFINE c == set_per_file_value(bar, at(current).size)
    <3>1. bar' = set_current_file(c, current + 1) /\ printed' = printed
      BY <1>9, <2>4 DEF MoveToNext
    <3>2. /\ bar.pad = at(current).pad
          /\ ~bar.pad => bar.range = at(current).size
          /\ bar.pad => bar.value = bar.range
      BY <2>1, <2>4 DEF IInv, BarInv
    <3>3. c \in BarType /\ c.value = c.range
      BY <1>1, <1>9, <3>2, ValueFacts
    <3> HIDE DEF c
    <3>4. /\ bar' \in BarType /\ bar'.pad = at(current + 1).pad
          /\ at(current + 1).pad => bar'.value = bar'.range
          /\ ~at(current + 1).pad => bar'.value = 0 /\ bar'.range = at(current + 1).size
      BY <1>1, <1>9, <3>1, <3>3, CurrentFacts
    <3>5. bar'.value <= bar'.range
      BY <1>1, <1>9, <3>4 DEF BarType
    <3>6. TypeOK'
      BY <1>1, <1>2, <1>3, <1>9, <2>1, <3>1, <3>4 DEF IInv, TypeOK
    <3>7. LinesInv' /\ BarInv'
      BY <1>2, <1>3, <1>9, <2>1, <2>4, <3>4, <3>5
         DEF LinesInv, BarInv
    <3> QED
      BY <2>2, <2>3, <3>6, <3>7 DEF IInv
  <2>5. CASE style = "simple"
    <3>1. printed' = printed \o LineFor(current + 1) /\ bar' = bar
      BY <1>9, <2>5 DEF MoveToNext
    <3>2. Lines(printed, current)
      BY <2>1, <2>5 DEF IInv, LinesInv
    <3>3. Lines(printed', current + 1)
      BY <1>1, <1>9, <3>1, <3>2, NextLine
    <3>4. TypeOK'
      BY <1>1, <1>2, <1>3, <1>9, <2>1, <3>1, <3>3 DEF IInv, TypeOK, Lines
    <3>5. LinesInv' /\ BarInv'
      BY <1>2, <1>3, <1>9, <2>1, <2>5, <3>3 DEF LinesInv, BarInv, Lines
    <3> QED
      BY <2>2, <2>3, <3>4, <3>5 DEF IInv
  <2> QED
    BY <2>4, <2>5 DEF IInv, TypeOK
<1>10. CASE Chase
  <2>1. /\ MoveToNext /\ main = "chase" /\ main' = main
        /\ UNCHANGED <<seen, hasher>>
        /\ seen.index < file_count /\ current < seen.index
    BY <1>10 DEF Chase, Behind
  <2>2. current + 1 \in Indices /\ current \in Indices /\ current + 1 <= seen.index
    BY <1>1, <2>1
  <2> QED
    BY <1>9, <2>1, <2>2
<1>11. CASE Show
  <2>1. /\ main = "chase" /\ main' = "check" /\ ~Behind
        /\ UNCHANGED <<current, seen, printed, hasher>>
        /\ bar' = IF style = "bar"
                  THEN set_total_value(set_per_file_value(bar, seen.offset), seen.bytes)
                  ELSE bar
    BY <1>11 DEF Show
  <2>2. HasherInv' /\ LoopInv'
    BY <1>1, <1>2, <1>3, <2>1 DEF IInv, HasherInv, LoopInv, NotAhead
  <2>3. CASE style = "bar"
    <3> DEFINE c == set_per_file_value(bar, seen.offset)
    <3>1. c \in BarType /\ c.pad = bar.pad /\ c.range = bar.range
          /\ c.value = IF bar.pad THEN bar.value ELSE seen.offset
      BY <1>1, ValueFacts
    <3>2. bar' = set_total_value(c, seen.bytes)
      BY <2>1, <2>3
    <3> HIDE DEF c
    <3>3. /\ bar' \in BarType /\ bar'.pad = c.pad /\ bar'.range = c.range
          /\ bar'.value = c.value
      BY <1>1, <3>1, <3>2, TotalFacts
    <3>4. Begun /\ current \in Indices
      BY <1>1, <1>4, <2>1 DEF Begun
    <3>5. /\ bar.pad = at(current).pad
          /\ ~bar.pad => bar.range = at(current).size
          /\ bar.pad => bar.value = bar.range
          /\ bar.value <= bar.range
      BY <2>3, <3>4 DEF IInv, BarInv
    <3>6. seen.offset <= at(current).size
      <4>1. seen.index = current \/ seen.index = file_count
        BY <1>1, <2>1, <3>4 DEF Behind, IInv, LoopInv
      <4> QED
        BY <1>1, <3>4, <4>1 DEF IInv, HasherInv
    <3>7. TypeOK'
      BY <1>2, <1>3, <2>1, <3>3 DEF IInv, TypeOK
    <3>8. LinesInv' /\ BarInv'
      BY <1>2, <1>3, <2>1, <2>3, <3>1, <3>3, <3>4, <3>5, <3>6
         DEF LinesInv, BarInv
    <3> QED
      BY <2>2, <3>7, <3>8 DEF IInv
  <2>4. CASE style # "bar"
    <3>1. bar' = bar
      BY <2>1, <2>4
    <3>2. TypeOK'
      BY <1>2, <1>3, <2>1, <3>1 DEF IInv, TypeOK
    <3>3. LinesInv' /\ BarInv'
      BY <1>2, <1>3, <2>1, <2>4 DEF IInv, LinesInv, BarInv, Begun, Lines
    <3> QED
      BY <2>2, <3>2, <3>3 DEF IInv
  <2> QED
    BY <2>3, <2>4
<1>12. CASE FinishBar
  <2> DEFINE c == set_total_value(bar, total_file_size)
  <2> DEFINE d == set_per_file_value(c, at(current).size)
  <2>1. /\ main = "finish" /\ main' = "wait" /\ style = "bar"
        /\ UNCHANGED <<current, seen, printed, hasher>>
        /\ bar' = [d EXCEPT !.running = FALSE]
    BY <1>12 DEF FinishBar
  <2>2. /\ Begun /\ current \in Indices
        /\ bar.pad = at(current).pad
        /\ ~bar.pad => bar.range = at(current).size
        /\ bar.pad => bar.value = bar.range
    BY <1>1, <1>4, <2>1 DEF IInv, BarInv, Begun
  <2>3. /\ c \in BarType /\ c.pad = bar.pad /\ c.range = bar.range
        /\ c.value = bar.value
        /\ ~bar.pad => c.total = total_file_size
    BY <1>1, TotalFacts
  <2> HIDE DEF c
  <2>4. /\ d \in BarType /\ d.pad = c.pad /\ d.range = c.range /\ d.total = c.total
        /\ d.value = IF c.pad THEN c.value ELSE at(current).size
    BY <1>1, <2>2, <2>3, ValueFacts
  <2> HIDE DEF d
  <2>5. /\ bar' \in BarType /\ bar'.pad = d.pad /\ bar'.range = d.range
        /\ bar'.total = d.total /\ bar'.value = d.value /\ ~bar'.running
    BY <2>1, <2>4 DEF BarType
  <2>6. bar'.value = bar'.range /\ bar'.range \in Nat
    BY <2>2, <2>3, <2>4, <2>5 DEF BarType
  <2>7. TypeOK'
    BY <1>2, <1>3, <2>1, <2>5 DEF IInv, TypeOK
  <2>8. HasherInv' /\ LoopInv'
    BY <1>2, <1>3, <2>1 DEF IInv, HasherInv, LoopInv, NotAhead
  <2>9. LinesInv' /\ BarInv'
    BY <1>2, <1>3, <2>1, <2>2, <2>3, <2>4, <2>5, <2>6
       DEF LinesInv, BarInv
  <2> QED
    BY <2>7, <2>8, <2>9 DEF IInv
<1>13. CASE FinishSimple
  <2>1. /\ main = "finish" /\ style = "simple" /\ UNCHANGED <<seen, hasher>>
        /\ current \in Indices
    BY <1>4, <1>13 DEF FinishSimple
  <2>2. CASE current < file_count - 1
    <3>1. MoveToNext /\ main' = main /\ current + 1 \in Indices
      BY <1>1, <1>13, <2>2 DEF FinishSimple
    <3> QED
      BY <1>9, <2>1, <3>1
  <2>3. CASE ~(current < file_count - 1)
    <3>1. main' = "wait" /\ UNCHANGED <<current, printed, bar>>
      BY <1>13, <2>3 DEF FinishSimple
    <3>2. current = file_count - 1
      BY <1>1, <2>1, <2>3
    <3>3. TypeOK' /\ HasherInv'
      BY <1>2, <1>3, <2>1, <3>1 DEF IInv, TypeOK, HasherInv
    <3>4. LoopInv'
      BY <1>2, <1>3, <2>1, <3>1 DEF IInv, LoopInv, NotAhead
    <3>5. LinesInv' /\ BarInv'
      BY <1>2, <1>3, <2>1, <3>1, <3>2 DEF IInv, LinesInv, BarInv, Begun, Lines
    <3> QED
      BY <3>3, <3>4, <3>5 DEF IInv
  <2> QED
    BY <2>2, <2>3
<1>14. CASE Wait
  <2>1. /\ main = "wait" /\ main' = "done"
        /\ UNCHANGED <<current, seen, printed, bar, hasher>>
    BY <1>14 DEF Wait
  <2>2. TypeOK' /\ HasherInv'
    BY <1>2, <1>3, <2>1 DEF IInv, TypeOK, HasherInv
  <2>3. LoopInv'
    BY <1>3, <2>1 DEF IInv, LoopInv, NotAhead
  <2>4. LinesInv' /\ BarInv'
    BY <1>2, <1>3, <2>1 DEF IInv, LinesInv, BarInv, Begun, Lines
  <2> QED
    BY <2>2, <2>3, <2>4 DEF IInv
<1> QED
  BY <1>5, <1>6, <1>7, <1>8, <1>10, <1>11, <1>12, <1>13, <1>14 DEF Main

\* The inductive invariant holds in every reachable state.
THEOREM InductiveInvariant == ProgressSpec => []IInv
<1>1. IInv /\ UNCHANGED progressVars => IInv'
  <2> SUFFICES ASSUME IInv, UNCHANGED progressVars PROVE IInv'
    OBVIOUS
  <2>1. storage' = storage /\ v1' = v1
    BY DEF progressVars
  <2>2. /\ BarType' = BarType /\ HasherType' = HasherType
    BY <2>1, StorageKept DEF BarType, HasherType
  <2>3. TypeOK' /\ HasherInv' /\ LoopInv'
    BY <2>1, <2>2, StorageKept DEF progressVars, IInv, TypeOK, HasherInv, LoopInv, NotAhead
  <2>4. LinesInv' /\ BarInv'
    BY <2>1, <2>2, StorageKept DEF progressVars, IInv, LinesInv, BarInv, Begun, Lines
  <2> QED
    BY <2>3, <2>4 DEF IInv
<1>2. IInv /\ [ProgressNext]_progressVars => IInv'
  BY <1>1, MainStep, HasherStep DEF ProgressNext, Done
<1> QED
  BY Initially, <1>2, PTL DEF ProgressSpec

\* Every variable keeps its type; every file index the loops use is in bounds.
THEOREM TypeCorrect == ProgressSpec => []TypeOK
<1>1. IInv => TypeOK
  BY DEF IInv
<1> QED
  BY InductiveInvariant, <1>1, PTL

\* The lines of the simple loop are numbered without gaps and name the
\* displayed files once each, in order.
THEOREM LinesInOrder == ProgressSpec => []AnnouncedInOrder
<1>1. IInv => AnnouncedInOrder
  BY DEF IInv, LinesInv, Lines, AnnouncedInOrder
<1> QED
  BY InductiveInvariant, <1>1, PTL

\* The simple loop leaves no file out.
THEOREM NothingLeftOut == ProgressSpec => []AllAnnounced
<1>1. IInv => AllAnnounced
  BY DEF IInv, LinesInv, Lines, AllAnnounced, Begun
<1> QED
  BY InductiveInvariant, <1>1, PTL

\* The total on the bar is 0 or that of a poll, which the loop only goes on from when
\* bytes are missing.
TotalInv ==
    /\ seen.bytes <= hasher.bytes
    /\ style = "bar" /\ Begun =>
          /\ bar.pad => bar.total = 0 \/ bar.total < Target
          /\ main \in {"poll", "pollTotal", "chase"} => bar.total < Target
          /\ main \notin {"wait", "done"} => bar.total <= hasher.bytes

\* The numbers TotalInv compares.
LEMMA TargetFacts ==
    ASSUME storage \in Seq(FileEntry)
    PROVE  total_file_size \in Nat /\ total_regular_file_size \in Nat /\ Target \in Nat
<1> DEFINE g == [i \in Indices |-> at(i).size]
<1>1. file_count \in Nat /\ \A i \in Indices : at(i) \in FileEntry
  BY AtFacts
<1>2. IsFiniteSet(Indices)
  <2>1. 0 \in Int /\ file_count - 1 \in Int
    BY <1>1
  <2> QED
    BY <2>1, FS_Interval DEF Indices
<1>3. g \in [Indices -> Nat]
  BY <1>1 DEF FileEntry
<1>4. \A S : SumOf(S) = Total(g, S)
  BY DEF SumOf, Total
<1> HIDE DEF g
<1>5. \A S \in SUBSET Indices : Total(g, S) \in Nat
  BY <1>2, <1>3, SumFacts
<1>6. total_file_size \in Nat /\ total_regular_file_size \in Nat
  BY <1>4, <1>5 DEF total_file_size, total_regular_file_size
<1> QED
  BY <1>6 DEF Target

\* Every step keeps the total within what has been hashed.
LEMMA TotalStep ==
    ASSUME IInv, TotalInv, [ProgressNext]_progressVars
    PROVE  TotalInv'
<1>1. /\ style' = style /\ storage' = storage /\ file_count' = file_count
      /\ Target' = Target
  <2>1. style' = style /\ storage' = storage /\ v1' = v1
    BY DEF ProgressNext, Main, StartProgress, Check, PollFile, PollTotal, Chase, Show,
       FinishBar, FinishSimple, Wait, Hasher, Done, progressVars
  <2>2. /\ file_count' = file_count /\ Indices' = Indices /\ PaddingFiles' = PaddingFiles
        /\ \A i : at(i)' = at(i)
    BY <2>1, StorageKept
  <2>3. total_file_size' = total_file_size /\ total_regular_file_size' = total_regular_file_size
    BY <2>2 DEF total_file_size, total_regular_file_size, SumOf
  <2> QED
    BY <2>1, <2>2, <2>3 DEF Target
<1>2. /\ hasher.bytes \in Nat /\ seen.bytes \in Nat /\ seen.offset \in Nat
      /\ bar \in BarType /\ bar.total \in Nat
      /\ Target \in Nat /\ total_file_size \in Nat
      /\ file_count \in Nat /\ current \in Nat
      /\ hasher \in HasherType
      /\ seen \in [index : 0 .. file_count, offset : Nat, bytes : Nat]
      /\ \A i \in Indices : at(i) \in FileEntry /\ at(i).size \in Nat
  BY TargetFacts, AtFacts DEF IInv, TypeOK, HasherType, BarType, FileEntry
<1>b. seen'.bytes <= hasher'.bytes
  <2>1. seen'.bytes \in {seen.bytes, hasher.bytes} /\ hasher'.bytes \in {hasher.bytes, hasher.bytes + 1}
    <3>1. \/ hasher' = hasher
          \/ hasher' = [hasher EXCEPT !.state = "hashing"]
          \/ hasher' = [hasher EXCEPT !.offset = @ + 1, !.bytes = @ + 1]
          \/ hasher' = [hasher EXCEPT !.index = @ + 1, !.offset = 0]
          \/ hasher' = [hasher EXCEPT !.state = "finished"]
      BY DEF ProgressNext, Main, StartProgress, Check, PollFile, PollTotal, Chase, Show,
         FinishBar, FinishSimple, Wait, Hasher, HashBlock, HashNextFile, HashEnd, Done,
         progressVars
    <3>2. \/ seen' = seen
          \/ seen' = [seen EXCEPT !.index = hasher.index, !.offset = hasher.offset]
          \/ seen' = [seen EXCEPT !.bytes = hasher.bytes]
      BY DEF ProgressNext, Main, StartProgress, Check, PollFile, PollTotal, Chase, Show,
         FinishBar, FinishSimple, Wait, Hasher, Done, progressVars
    <3>3. hasher'.bytes \in {hasher.bytes, hasher.bytes + 1}
      BY <1>2, <3>1 DEF HasherType
    <3>4. seen'.bytes \in {seen.bytes, hasher.bytes}
      BY <1>2, <3>2
    <3> QED
      BY <3>3, <3>4
  <2>2. seen.bytes <= hasher.bytes
    BY DEF TotalInv
  <2> QED
    BY <1>2, <2>1, <2>2
<1>3. CASE style # "bar"
  BY <1>1, <1>b, <1>3 DEF TotalInv
<1>4. ASSUME style = "bar", StartProgress PROVE TotalInv'
  <2>1. CASE ~(file_count > 0)
    BY <1>1, <1>b, <2>1 DEF TotalInv, Begun
  <2>2. CASE file_count > 0
    <3> DEFINE b == set_current_file(NoBar, 0)
    <3>1. main = "start" /\ main' = "check" /\ bar' = [b EXCEPT !.running = TRUE]
          /\ bar = NoBar
      BY <1>4, <2>2 DEF StartProgress, IInv, LoopInv
    <3>2. NoBar \in BarType /\ NoBar.total = 0
      BY DEF NoBar, BarType
    <3>3. 0 \in Indices
      BY <1>2, <2>2 DEF Indices
    <3>4. b \in BarType /\ b.total = 0
      BY <3>2, <3>3, CurrentFacts DEF IInv, TypeOK
    <3> HIDE DEF b
    <3>5. bar'.total = 0
      BY <3>1, <3>4 DEF BarType
    <3>6. hasher'.bytes = hasher.bytes
      BY <1>2, <1>4 DEF StartProgress, HasherType
    <3> QED
      BY <1>1, <1>2, <1>b, <3>1, <3>5, <3>6 DEF TotalInv
  <2> QED
    BY <2>1, <2>2
<1>5. ASSUME style = "bar", Check PROVE TotalInv'
  <2>1. /\ main = "check" /\ main' = (IF hasher.bytes < Target THEN "poll" ELSE "finish")
        /\ UNCHANGED <<bar, hasher>>
    BY <1>5 DEF Check
  <2> QED
    BY <1>1, <1>2, <1>b, <1>5, <2>1 DEF TotalInv, Begun
<1>6. ASSUME style = "bar", PollFile \/ PollTotal PROVE TotalInv'
  <2>1. /\ main \in {"poll", "pollTotal"} /\ main' \in {"pollTotal", "chase"}
        /\ UNCHANGED <<bar, hasher>>
    BY <1>6 DEF PollFile, PollTotal
  <2> QED
    BY <1>1, <1>b, <1>6, <2>1 DEF TotalInv, Begun
<1>7. ASSUME style = "bar", Chase PROVE TotalInv'
  <2> DEFINE c == set_per_file_value(bar, at(current).size)
  <2>1. /\ main = "chase" /\ main' = main /\ hasher' = hasher
        /\ bar' = set_current_file(c, current + 1)
        /\ seen.index < file_count /\ current < seen.index
    BY <1>7 DEF Chase, MoveToNext, Behind
  <2>2. current \in Indices /\ current + 1 \in Indices
    BY <1>2, <2>1 DEF Indices
  <2>3. c \in BarType /\ c.total = bar.total
    BY <1>2, <2>2, ValueFacts
  <2> HIDE DEF c
  <2>4. bar'.total = bar.total
    BY <2>1, <2>2, <2>3, CurrentFacts DEF IInv, TypeOK
  <2> QED
    BY <1>1, <1>b, <1>7, <2>1, <2>4 DEF TotalInv, Begun
<1>8. ASSUME style = "bar", Show PROVE TotalInv'
  <2> DEFINE c == set_per_file_value(bar, seen.offset)
  <2>1. /\ main = "chase" /\ main' = "check" /\ hasher' = hasher
        /\ bar' = set_total_value(c, seen.bytes)
    BY <1>8 DEF Show
  <2>2. c \in BarType /\ c.total = bar.total /\ c.pad = bar.pad
    BY <1>2, ValueFacts
  <2> HIDE DEF c
  <2>3. /\ bar'.pad = bar.pad
        /\ bar.pad => bar'.total = bar.total
        /\ ~bar.pad => bar'.total = seen.bytes
    BY <1>2, <2>1, <2>2, TotalFacts
  <2> QED
    BY <1>1, <1>2, <1>b, <1>8, <2>1, <2>3 DEF TotalInv, Begun
<1>9. ASSUME style = "bar", FinishBar PROVE TotalInv'
  <2> DEFINE c == set_total_value(bar, total_file_size)
             d == set_per_file_value(c, at(current).size)
  <2>1. /\ main = "finish" /\ main' = "wait" /\ bar' = [d EXCEPT !.running = FALSE]
    BY <1>9 DEF FinishBar
  <2>2. current \in Indices
    BY <1>2, <2>1 DEF IInv, TypeOK, LoopInv
  <2>3. /\ c \in BarType /\ c.pad = bar.pad
        /\ bar.pad => c.total = bar.total
    BY <1>2, TotalFacts
  <2> HIDE DEF c
  <2>4. d \in BarType /\ d.pad = c.pad /\ d.total = c.total
    BY <1>2, <2>2, <2>3, ValueFacts
  <2> HIDE DEF d
  <2>5. bar'.pad = d.pad /\ bar'.total = d.total
    BY <2>1, <2>4 DEF BarType
  <2> QED
    BY <1>1, <1>b, <1>9, <2>1, <2>3, <2>4, <2>5 DEF TotalInv, Begun
<1>10. ASSUME style = "bar", Wait \/ FinishSimple PROVE TotalInv'
  <2>1. main = "wait" /\ main' = "done" /\ bar' = bar
    BY <1>10 DEF Wait, FinishSimple
  <2> QED
    BY <1>1, <1>b, <1>10, <2>1 DEF TotalInv, Begun
<1>11. ASSUME style = "bar", Hasher \/ Done \/ UNCHANGED progressVars PROVE TotalInv'
  <2>1. UNCHANGED <<main, bar>> /\ hasher'.bytes >= hasher.bytes /\ hasher'.bytes \in Nat
    <3>1. UNCHANGED <<main, bar>>
      BY <1>11 DEF Hasher, Done, progressVars
    <3>2. \/ hasher' = hasher
          \/ hasher' = [hasher EXCEPT !.offset = @ + 1, !.bytes = @ + 1]
          \/ hasher' = [hasher EXCEPT !.index = @ + 1, !.offset = 0]
          \/ hasher' = [hasher EXCEPT !.state = "finished"]
      BY <1>11 DEF Hasher, HashBlock, HashNextFile, HashEnd, Done, progressVars
    <3>3. hasher'.bytes \in {hasher.bytes, hasher.bytes + 1}
      BY <1>2, <3>2 DEF HasherType
    <3> QED
      BY <1>2, <3>1, <3>3
  <2>2. \A n, m, t \in Nat : t <= n /\ m >= n => t <= m
    OBVIOUS
  <2> QED
    BY <1>1, <1>2, <1>b, <1>11, <2>1, <2>2 DEF TotalInv, Begun
<1> QED
  BY <1>3, <1>4, <1>5, <1>6, <1>7, <1>8, <1>9, <1>10, <1>11 DEF ProgressNext, Main

\* The bar's last frame shows its file complete, and the whole size unless a padding
\* file is current, when the total falls short of the bytes waited for.
THEOREM LastFrameComplete == ProgressSpec => []FinalFrame
<1>1. ProgressInit => TotalInv
  <2> SUFFICES ASSUME ProgressInit PROVE TotalInv
    OBVIOUS
  <2>1. ~Begun
    BY DEF ProgressInit, Begun
  <2>2. seen.bytes = 0 /\ hasher.bytes = 0
    BY DEF ProgressInit, Idle
  <2> QED
    BY <2>1, <2>2 DEF TotalInv
<1>2. IInv /\ TotalInv /\ [ProgressNext]_progressVars => TotalInv'
  BY TotalStep
<1>3. IInv /\ TotalInv => FinalFrame
  BY DEF IInv, BarInv, TotalInv, Begun, FinalFrame
<1> QED
  BY InductiveInvariant, <1>1, <1>2, <1>3, PTL DEF ProgressSpec

\* The loops never run ahead of the hasher.
THEOREM NeverAhead == ProgressSpec => []NotAhead
<1>1. IInv => NotAhead
  BY DEF IInv, LoopInv
<1> QED
  BY InductiveInvariant, <1>1, PTL

\* Without a bar, and before the loop begins, the indicator shows nothing.
StillBar == style = "simple" \/ ~Begun => bar.value = 0 /\ bar.range = 0

\* Only the bar's loop changes the bar.
LEMMA StillStep ==
    ASSUME IInv, StillBar, [ProgressNext]_progressVars
    PROVE  StillBar'
<1>1. style' = style /\ storage' = storage /\ file_count' = file_count
  BY DEF ProgressNext, Main, StartProgress, Check, PollFile, PollTotal, Chase, Show,
     FinishBar, FinishSimple, Wait, Hasher, Done, progressVars, file_count
<1>2. CASE StartProgress
  <2>1. CASE style = "simple"
    <3>1. bar' = bar /\ ~Begun
      BY <1>2, <2>1 DEF StartProgress, Begun
    <3> QED
      BY <3>1 DEF StillBar
  <2>2. CASE style # "simple" /\ ~(file_count > 0)
    <3>1. bar' = [NoBar EXCEPT !.running = TRUE]
      BY <1>2, <2>2 DEF StartProgress, IInv, TypeOK
    <3> QED
      BY <3>1 DEF StillBar, NoBar
  <2>3. CASE style # "simple" /\ file_count > 0
    <3>1. main' = "check"
      BY <1>2, <2>3 DEF StartProgress
    <3> QED
      BY <1>1, <2>3, <3>1 DEF StillBar, Begun
  <2> QED
    BY <2>1, <2>2, <2>3
<1>3. CASE Show \/ Chase \/ FinishBar \/ FinishSimple
  <2>1. Begun /\ Begun'
    <3>1. main \in {"chase", "finish"} /\ main' \in {"check", "chase", "finish", "wait"}
      BY <1>3 DEF Show, Chase, FinishBar, FinishSimple
    <3>2. file_count # 0
      BY <3>1 DEF IInv, LoopInv
    <3>3. file_count \in Nat
      BY DEF IInv, TypeOK, file_count
    <3> QED
      BY <1>1, <3>1, <3>2, <3>3 DEF Begun
  <2>2. style = "simple" => bar' = bar
    BY <1>3 DEF Show, Chase, FinishBar, FinishSimple, MoveToNext
  <2> QED
    BY <1>1, <2>1, <2>2 DEF StillBar
<1>4. CASE Check \/ PollFile \/ PollTotal \/ Wait \/ Hasher \/ Done \/ UNCHANGED progressVars
  <2>1. bar' = bar /\ (Begun' => Begun) /\ (Begun => Begun')
    BY <1>1, <1>4 DEF Check, PollFile, PollTotal, Wait, Hasher, Done, progressVars, Begun
  <2> QED
    BY <1>1, <2>1 DEF StillBar
<1> QED
  BY <1>2, <1>3, <1>4 DEF ProgressNext, Main

\* The bar never shows a file as more than complete.
THEOREM NeverOverfull == ProgressSpec => []BarInRange
<1>1. ProgressInit => StillBar
  BY DEF ProgressInit, StillBar, NoBar
<1>2. IInv /\ StillBar /\ [ProgressNext]_progressVars => StillBar'
  BY StillStep
<1>3. IInv /\ StillBar => BarInRange
  <2> SUFFICES ASSUME IInv, StillBar PROVE BarInRange
    OBVIOUS
  <2>1. CASE style = "bar" /\ Begun
    BY <2>1 DEF IInv, BarInv, BarInRange
  <2>2. CASE ~(style = "bar" /\ Begun)
    BY <2>2 DEF IInv, TypeOK, StillBar, BarInRange
  <2> QED
    BY <2>1, <2>2
<1> QED
  BY InductiveInvariant, <1>1, <1>2, <1>3, PTL DEF ProgressSpec
=============================================================================
