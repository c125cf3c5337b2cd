----------------------------- MODULE TraceFiles -----------------------------
(***************************************************************************)
(* Tracer/src/Tracer: the trace files of a directory.  Their number is     *)
(* kept in an info file, behind a lock file, so that a process that is     *)
(* started again, or another one with the same configuration, goes on      *)
(* counting; numbers start again after the last one.  Processes may crash  *)
(* between any two steps.                                                  *)
(***************************************************************************)
EXTENDS Integers, FiniteSets

CONSTANTS TfProcs,       \* the processes: strings
          TfMaintain,    \* lTraceFilesNumberToMaintain
          TfLast,        \* 9999
          TfCompressed,  \* _bCompressedTraceFile
          TfMaxShared,   \* a bound on the numbers when several processes were started
          TfMaxFailures  \* a bound on the crashes and on the calls that fail

ASSUME TraceFilesAssumption ==
    /\ IsFiniteSet(TfProcs)
    /\ TfMaintain \in Nat \ {0} /\ TfLast \in Nat /\ TfMaintain < TfLast /\ TfMaxFailures \in Nat
    /\ TfMaxShared \in Nat /\ TfCompressed \in BOOLEAN

VARIABLES tfNumber, tfRound,  \* the info file; the number is -1 when there is none
          tfPath,      \* the inode the path of the lock file names, 0 for none
          tfHolder,    \* who has the lock of an inode
          tfPc, tfFd,  \* of a process: where it is, the inode it has opened
          tfAsks,      \* "current" or "next"
          tfMine, tfMyRound,  \* _lCurrentTraceFileNumber, _bHasFileNumberRound
          tfOpen,      \* the number of its open trace file, 0 for none
          tfFiles,     \* the numbers of the trace files in the directory
          tfParts, tfZips,  \* those of the compressed files that are not whole, and whole
          tfFailures,
          tfStarted,   \* history: the processes that were started
          tfStale      \* history: the files left by a removal that failed or was skipped, or by
                       \* an info file written in part

tfInfo == <<tfNumber, tfRound>>
tfDirectory == <<tfFiles, tfParts, tfZips>>
tfLock == <<tfPath, tfHolder, tfFd>>
traceFilesVars == <<tfInfo, tfLock, tfPc, tfAsks, tfMine, tfMyRound, tfOpen, tfDirectory,
                    tfFailures, tfStarted, tfStale>>

Inodes == 1..(Cardinality(TfProcs) + 1)

TfInit ==
    /\ tfNumber = -1 /\ tfRound = FALSE
    /\ tfPath = 0 /\ tfHolder = [i \in Inodes |-> "none"] /\ tfFd = [p \in TfProcs |-> 0]
    /\ tfPc = [p \in TfProcs |-> "down"] /\ tfAsks = [p \in TfProcs |-> "current"]
    /\ tfMine = [p \in TfProcs |-> 0] /\ tfMyRound = [p \in TfProcs |-> FALSE]
    /\ tfOpen = [p \in TfProcs |-> 0]
    /\ tfFiles = {} /\ tfParts = {} /\ tfZips = {} /\ tfFailures = 0 /\ tfStarted = {} /\ tfStale = {}

Alone == Cardinality(tfStarted) <= 1
TfAt(p, from) == tfPc[p] = from
TfGoes(p, to) == tfPc' = [tfPc EXCEPT ![p] = to]
TfFilesUnchanged == UNCHANGED <<tfMine, tfMyRound, tfOpen, tfDirectory, tfFailures, tfStarted, tfStale>>

(***************************************************************************)
(* The lock                                                                *)
(***************************************************************************)
StartProcess(p) ==
    /\ TfAt(p, "down") /\ TfGoes(p, "lock")
    /\ tfAsks' = [tfAsks EXCEPT ![p] = "current"]
    /\ tfStarted' = tfStarted \cup {p}
    /\ Cardinality(tfStarted') <= 1 \/ tfNumber < TfMaxShared
    /\ UNCHANGED <<tfInfo, tfLock, tfMine, tfMyRound, tfOpen, tfDirectory, tfFailures, tfStale>>

\* The open of lockFile: the file is made when the path names none.
OpenLockFile(p) ==
    /\ TfAt(p, "lock") /\ TfGoes(p, "try")
    /\ \/ tfPath # 0 /\ tfFd' = [tfFd EXCEPT ![p] = tfPath] /\ UNCHANGED tfPath
       \/ /\ tfPath = 0
          /\ LET i == CHOOSE n \in Inodes : \A q \in TfProcs : tfFd[q] # n
             IN tfPath' = i /\ tfFd' = [tfFd EXCEPT ![p] = i]
    /\ UNCHANGED <<tfInfo, tfHolder, tfAsks>> /\ TfFilesUnchanged

lockFile(p) ==
    /\ TfAt(p, "try") /\ tfHolder[tfFd[p]] = "none"
    /\ tfHolder' = [tfHolder EXCEPT ![tfFd[p]] = p]
    /\ TfGoes(p, tfAsks[p])
    /\ UNCHANGED <<tfInfo, tfPath, tfFd, tfAsks>> /\ TfFilesUnchanged

\* After ten seconds lockFile gives up: init fails, or the flush of a cache.
LockTimeout(p) ==
    /\ TfAt(p, "try") /\ tfHolder[tfFd[p]] # "none"
    /\ tfFd' = [tfFd EXCEPT ![p] = 0]
    /\ TfGoes(p, IF tfAsks[p] = "current" THEN "down" ELSE "closed")
    /\ UNCHANGED <<tfInfo, tfPath, tfHolder, tfAsks>> /\ TfFilesUnchanged

\* unLockFile gives the lock back, and after that it removes the path.
UnlockAndClose(p) ==
    /\ TfAt(p, "unlock") /\ TfGoes(p, "removePath")
    /\ tfHolder' = [tfHolder EXCEPT ![tfFd[p]] = "none"]
    /\ tfFd' = [tfFd EXCEPT ![p] = 0]
    /\ UNCHANGED <<tfInfo, tfPath, tfAsks>> /\ TfFilesUnchanged

\* A path that another process has removed is an error of the caller.
unLockFile(p) ==
    /\ TfAt(p, "removePath")
    /\ tfPath' = 0
    /\ TfGoes(p, IF tfAsks[p] = "current" THEN (IF tfPath # 0 THEN "initRemoves" ELSE "down")
                 ELSE (IF tfPath # 0 THEN "open" ELSE "closed"))
    /\ UNCHANGED <<tfInfo, tfHolder, tfFd, tfAsks>> /\ TfFilesUnchanged

(***************************************************************************)
(* The numbers                                                             *)
(***************************************************************************)
Mine(p, number, round) ==
    tfMine' = [tfMine EXCEPT ![p] = number] /\ tfMyRound' = [tfMyRound EXCEPT ![p] = round]

\* The info file is made with 0 when there is none.
getCurrentTraceFileNumber(p) ==
    /\ TfAt(p, "current") /\ TfGoes(p, "unlock")
    /\ IF tfNumber = -1 THEN tfNumber' = 0 /\ tfRound' = FALSE ELSE UNCHANGED tfInfo
    /\ Mine(p, tfNumber', tfRound')
    /\ UNCHANGED <<tfLock, tfAsks, tfOpen, tfDirectory, tfFailures, tfStarted, tfStale>>

NextNumber(n) == IF n >= TfLast THEN 1 ELSE n + 1

\* Mutant: the number is taken and not written.
getNextTraceFileNumberUnsaved(p) ==
    /\ TfAt(p, "next") /\ TfGoes(p, "round")
    /\ Mine(p, NextNumber(tfNumber), tfRound \/ tfNumber >= TfLast)
    /\ UNCHANGED <<tfInfo, tfLock, tfAsks, tfOpen, tfDirectory, tfFailures, tfStarted, tfStale>>

\* The number is written, and then whether the numbers have started again.
getNextTraceFileNumber(p) ==
    /\ TfAt(p, "next") /\ TfGoes(p, "round")
    /\ tfNumber' = NextNumber(tfNumber)
    /\ Mine(p, tfNumber', tfRound \/ tfNumber >= TfLast)
    /\ UNCHANGED <<tfRound, tfLock, tfAsks, tfOpen, tfDirectory, tfFailures, tfStarted, tfStale>>
WriteRound(p) ==
    /\ TfAt(p, "round") /\ TfGoes(p, "unlock")
    /\ tfRound' = tfMyRound[p]
    /\ UNCHANGED <<tfNumber, tfLock, tfAsks>> /\ TfFilesUnchanged

(***************************************************************************)
(* The files                                                               *)
(***************************************************************************)
\* The oldest file to be removed: the next one that is opened makes it maintain
\* files again.
Old(number, round) ==
    IF number >= TfMaintain THEN number - TfMaintain + 1
    ELSE IF round THEN number + TfLast - TfMaintain + 1 ELSE 0

\* The flush of a cache, when no file is open.
FlushAsksNumber(p) ==
    /\ TfAt(p, "closed") /\ TfGoes(p, "lock")
    /\ Alone \/ tfNumber < TfMaxShared
    /\ tfAsks' = [tfAsks EXCEPT ![p] = "next"]
    /\ UNCHANGED <<tfInfo, tfLock>> /\ TfFilesUnchanged

Numbers == tfFiles \cup tfParts \cup tfZips

Fails == tfFailures < TfMaxFailures /\ tfFailures' = tfFailures + 1
\* The removal that goes with a number is not made.
Skipped(p) == tfStale' = tfStale \cup ({Old(tfMine[p], tfMyRound[p])} \cap Numbers)

\* The file is made or truncated; when it cannot be opened its number is lost,
\* and with it the removal of an old file.
OpenTraceFile(p) ==
    /\ TfAt(p, "open")
    /\ \/ /\ TfGoes(p, "opened")
          /\ tfOpen' = [tfOpen EXCEPT ![p] = tfMine[p]]
          /\ tfFiles' = tfFiles \cup {tfMine[p]}
          /\ tfStale' = tfStale \ {tfMine[p]} /\ UNCHANGED tfFailures
       \/ /\ TfGoes(p, "closed")
          /\ Fails /\ Skipped(p)
          /\ UNCHANGED <<tfOpen, tfFiles>>
    /\ UNCHANGED <<tfInfo, tfLock, tfAsks, tfMine, tfMyRound, tfParts, tfZips, tfStarted>>

\* The first file of that number in the directory is removed, compressed or not.
Removed(old) ==
    \/ tfFiles' = tfFiles \ {old} /\ old \in tfFiles /\ UNCHANGED <<tfParts, tfZips>>
    \/ /\ old \in tfParts \cup tfZips
       /\ tfParts' = tfParts \ {old} /\ tfZips' = tfZips \ {old} /\ UNCHANGED tfFiles

\* A removal that fails is only printed.
removeOldFile(p) ==
    LET old == Old(tfMine[p], tfMyRound[p]) IN
    \/ old \notin Numbers /\ UNCHANGED <<tfDirectory, tfStale, tfFailures>>
    \/ /\ Removed(old) /\ UNCHANGED tfFailures
       /\ tfStale' = (tfStale \cup {old}) \cap Numbers'
    \/ /\ old \in Numbers /\ Fails
       /\ tfStale' = tfStale \cup {old} /\ UNCHANGED tfDirectory

InitRemoves(p) ==
    /\ TfAt(p, "initRemoves") /\ TfGoes(p, "closed")
    /\ removeOldFile(p)
    /\ UNCHANGED <<tfInfo, tfLock, tfAsks, tfMine, tfMyRound, tfOpen, tfStarted>>

\* The file is full, its period is over or the disk is full.
CloseTraceFile(p) ==
    /\ TfAt(p, "opened")
    /\ TfGoes(p, IF TfCompressed THEN "gzip" ELSE "copy")
    /\ tfOpen' = [tfOpen EXCEPT ![p] = 0]
    /\ UNCHANGED <<tfInfo, tfLock, tfAsks, tfMine, tfMyRound, tfDirectory, tfFailures, tfStarted, tfStale>>

ClosedOther == UNCHANGED <<tfInfo, tfLock, tfAsks, tfMine, tfMyRound, tfOpen, tfStarted>>

\* An error after the close ends the flush, without the removal.
ClosedFails(p) ==
    /\ tfPc[p] \in {"gzip", "gzipping", "copy"} /\ TfGoes(p, "closed")
    /\ Fails /\ Skipped(p) /\ UNCHANGED tfDirectory /\ ClosedOther

GzipBegins(p) ==
    /\ TfAt(p, "gzip") /\ TfGoes(p, "gzipping")
    /\ tfParts' = tfParts \cup {tfMine[p]} /\ tfZips' = tfZips \ {tfMine[p]}
    /\ UNCHANGED <<tfFiles, tfStale, tfFailures>> /\ ClosedOther
GzipEnds(p) ==
    /\ TfAt(p, "gzipping") /\ TfGoes(p, "gzipped")
    /\ tfParts' = tfParts \ {tfMine[p]} /\ tfZips' = tfZips \cup {tfMine[p]}
    /\ UNCHANGED <<tfFiles, tfStale, tfFailures>> /\ ClosedOther
\* The file may also stay where it is: that is only printed.
RemoveUncompressed(p) ==
    /\ TfAt(p, "gzipped") /\ TfGoes(p, "copy")
    /\ \/ tfFiles' = tfFiles \ {tfMine[p]} /\ UNCHANGED tfFailures
       \/ Fails /\ UNCHANGED tfFiles
    /\ UNCHANGED <<tfParts, tfZips, tfStale>> /\ ClosedOther

\* The closed file is copied to the repository.
CopyClosedFile(p) ==
    /\ TfAt(p, "copy") /\ TfGoes(p, "closeRemoves")
    /\ UNCHANGED <<tfDirectory, tfStale, tfFailures>> /\ ClosedOther

CloseRemoves(p) ==
    /\ TfAt(p, "closeRemoves") /\ TfGoes(p, "closed")
    /\ removeOldFile(p)
    /\ UNCHANGED <<tfInfo, tfLock, tfAsks, tfMine, tfMyRound, tfOpen, tfStarted>>

\* finish closes the file and removes none.
finishFiles(p) ==
    /\ tfPc[p] \in {"opened", "closed"} /\ TfGoes(p, "down")
    /\ tfOpen' = [tfOpen EXCEPT ![p] = 0]
    /\ UNCHANGED <<tfInfo, tfLock, tfAsks, tfMine, tfMyRound, tfDirectory, tfFailures, tfStarted, tfStale>>

\* The kernel gives the lock back and leaves the path.
Crash(p) ==
    /\ tfPc[p] # "down" /\ tfFailures < TfMaxFailures /\ tfFailures' = tfFailures + 1
    /\ TfGoes(p, "down")
    /\ tfFd' = [tfFd EXCEPT ![p] = 0]
    /\ tfHolder' = [i \in Inodes |-> IF tfHolder[i] = p THEN "none" ELSE tfHolder[i]]
    /\ tfOpen' = [tfOpen EXCEPT ![p] = 0]
    /\ tfStale' = IF tfPc[p] = "round" /\ tfMyRound[p] /\ ~tfRound THEN Numbers ELSE tfStale
    /\ UNCHANGED <<tfInfo, tfPath, tfAsks, tfMine, tfMyRound, tfDirectory, tfStarted>>

TfNext ==
    \E p \in TfProcs :
       \/ StartProcess(p) \/ OpenLockFile(p) \/ lockFile(p) \/ LockTimeout(p)
       \/ UnlockAndClose(p) \/ unLockFile(p)
       \/ getCurrentTraceFileNumber(p) \/ getNextTraceFileNumber(p) \/ WriteRound(p)
       \/ FlushAsksNumber(p) \/ OpenTraceFile(p) \/ InitRemoves(p)
       \/ CloseTraceFile(p) \/ ClosedFails(p) \/ GzipBegins(p) \/ GzipEnds(p)
       \/ RemoveUncompressed(p) \/ CopyClosedFile(p) \/ CloseRemoves(p) \/ finishFiles(p) \/ Crash(p)

(***************************************************************************)
(* Properties                                                              *)
(***************************************************************************)
TfTypeOK ==
    /\ tfNumber \in -1..TfLast /\ tfRound \in BOOLEAN
    /\ tfPath \in {0} \cup Inodes /\ \A p \in TfProcs : tfFd[p] \in {0} \cup Inodes
    /\ Numbers \cup tfStale \subseteq 1..TfLast

\* Over rotations, restarts and crashes a process that is alone keeps no more
\* files than it has to maintain, apart from those whose removal failed or was
\* skipped because a number was lost.
FilesBounded == Alone => Cardinality(Numbers \ tfStale) <= TfMaintain

\* No file is truncated while it is one of the files to maintain: the number of
\* a new file is never the one of a file that is kept, whatever was lost by a crash.
NoFileOverwritten ==
    [][\A p \in TfProcs :
          Alone /\ tfOpen'[p] # 0 /\ tfOpen[p] = 0 => tfOpen'[p] \notin Numbers \ tfStale]_traceFilesVars

\* The traces of a file that was closed are in the file or in a whole compressed
\* file until the file is an old one: no crash while it is compressed loses them.
ClosedFilesKept ==
    [][\A n \in tfFiles \cup tfZips :
          Alone => \/ n \in tfFiles' \cup tfZips'
                   \/ \E p \in TfProcs :
                         tfPc[p] \in {"initRemoves", "closeRemoves"} /\ n = Old(tfMine[p], tfMyRound[p])]_traceFilesVars

\* Over rotations, restarts, crashes and a second process the trace files stay within their number, none is
\* overwritten while it counts, and the text of a closed file is kept, compressed or not.
TraceFilesKept == []TfTypeOK /\ []FilesBounded /\ NoFileOverwritten /\ ClosedFilesKept

\* The header says that processes with the same configuration share the trace
\* files through a lock: one of them at a time reads and writes the info file.
InSection(p) == tfPc[p] \in {"current", "next", "round"}
OneInSection == \A p, q \in TfProcs : InSection(p) /\ InSection(q) => p = q
=============================================================================
