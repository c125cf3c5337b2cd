----------------------------- MODULE FileTrees -----------------------------
(***************************************************************************)
(* Tools/src/FileIO: the operations on files and on directory trees.       *)
(* Processes call them on one file system; a call is a stack of frames,    *)
(* one for each function that is active, and a step of it goes from one    *)
(* system call to the next.  Any of these may fail, and a process may      *)
(* crash between two of them.                                              *)
(***************************************************************************)
EXTENDS Integers, FiniteSets, SequencesExt

CONSTANTS FsProcs,      \* the processes: strings
          FsTrees,      \* the file systems to begin with
          FsRequests,   \* of a process, its calls: records [op, s, d] of a function and its paths
          FsTogether,   \* the functions that are called by two processes at a time
          FsMaxCalls,   \* a bound on the calls
          FsLastInode,  \* a bound on the files that are made
          FsMaxFaults   \* a bound on the system calls that fail and on the crashes

ASSUME FileTreesAssumption == FsMaxCalls \in Nat /\ FsMaxFaults \in Nat /\ FsLastInode \in Nat

VARIABLES fsTree,     \* the entries, by path: [t, data, ino]
          fsStack,    \* of a process: its active functions
          fsRet,      \* what the last of them has returned: [ok, n]
          fsHandles,  \* its open directory streams and file descriptors
          fsHolder,   \* who has the lock of an inode
          fsCalls, fsFaults,
          fsFirst,    \* history: the file system to begin with
          fsAsked,    \* history: the calls that were made
          fsUnseen    \* history: what failed and the code does not look at, and for which path

fsVars == <<fsTree, fsStack, fsRet, fsHandles, fsHolder, fsCalls, fsFaults, fsFirst, fsAsked, fsUnseen>>
fsCounters == <<fsCalls, fsFirst, fsAsked>>
fsWorld == <<fsTree, fsHandles, fsHolder, fsUnseen>>

FsInodes == 1..FsLastInode

FsInit ==
    /\ fsTree \in FsTrees /\ fsFirst = fsTree
    /\ fsStack = [p \in FsProcs |-> <<>>]
    /\ fsRet = [p \in FsProcs |-> [ok |-> TRUE, n |-> 0]]
    /\ fsHandles = [p \in FsProcs |-> 0] /\ fsHolder = [i \in FsInodes |-> "none"]
    /\ fsCalls = 0 /\ fsFaults = 0 /\ fsAsked = {} /\ fsUnseen = {}

(***************************************************************************)
(* The file system                                                         *)
(***************************************************************************)
IsA(x, type) == x \in DOMAIN fsTree /\ fsTree[x].t = type
ChildrenOf(x) == {y \in DOMAIN fsTree : Len(y) = Len(x) + 1 /\ IsPrefix(x, y)}
NamesIn(x) == {Last(y) : y \in ChildrenOf(x)}
HasParent(x) == Len(x) = 1 \/ IsA(Front(x), "dir")
Entry(type, chunks) == [t |-> type, data |-> chunks, ino |-> 0]
WithEntry(x, entry) == fsTree' = [y \in DOMAIN fsTree \cup {x} |-> IF y = x THEN entry ELSE fsTree[y]]
Unlinked(x) == fsTree' = [y \in DOMAIN fsTree \ {x} |-> fsTree[y]]
Suffixed(x, suffix) == Append(Front(x), Last(x) \o suffix)

\* unlink is for all but directories, rmdir for those that are empty.
CanUnlink(x) == x \in DOMAIN fsTree /\ fsTree[x].t # "dir"
CanRmdir(x) == IsA(x, "dir") /\ ChildrenOf(x) = {}
CanOpenToWrite(x) == HasParent(x) /\ ~IsA(x, "dir")

(***************************************************************************)
(* Calls and returns                                                       *)
(***************************************************************************)
Frame(op, s, d) ==
    [op |-> op, pc |-> "start", s |-> s, d |-> d, slash |-> FALSE, todo |-> {}, seen |-> {}, e |-> "", n |-> 0,
     data |-> <<>>]
Top(p) == Last(fsStack[p])
FsIn(p, op, pc) == fsStack[p] # <<>> /\ Top(p).op = op /\ Top(p).pc = pc
Becomes(p, frame) == fsStack' = [fsStack EXCEPT ![p] = Append(Front(@), frame)] /\ UNCHANGED fsRet
FsGoes(p, pc) == Becomes(p, [Top(p) EXCEPT !.pc = pc])
CallsWith(p, frame, back) ==
    fsStack' = [fsStack EXCEPT ![p] = Front(@) \o <<[Last(@) EXCEPT !.pc = back], frame>>] /\ UNCHANGED fsRet
FsCall(p, op, s, d, back) == CallsWith(p, Frame(op, s, d), back)
\* The path of a directory that is given to moveFile, copyFile or createLink ends in a slash.
CallsSlashed(p, op, s, d, back) == CallsWith(p, [Frame(op, s, d) EXCEPT !.slash = TRUE], back)
ReturnsWith(p, ok, n) ==
    fsStack' = [fsStack EXCEPT ![p] = Front(@)] /\ fsRet' = [fsRet EXCEPT ![p] = [ok |-> ok, n |-> n]]
Returns(p, ok) == ReturnsWith(p, ok, 0)

Fault == fsFaults < FsMaxFaults /\ fsFaults' = fsFaults + 1 /\ UNCHANGED fsCounters
FsQuiet == UNCHANGED <<fsFaults, fsCounters>>
NoFile == UNCHANGED <<fsTree, fsHolder, fsUnseen>>
Handles(p, more) == fsHandles' = [fsHandles EXCEPT ![p] = @ + more]

\* A function that has nothing open returns the error of a system call.
FailsNow(p) == Returns(p, FALSE) /\ UNCHANGED fsWorld

(***************************************************************************)
(* Directory streams                                                       *)
(***************************************************************************)
isDirectoryExisting(x) == IsA(x, "dir")

openDirectory(p) ==
    LET f == Top(p)
    IN /\ IsA(f.s, "dir")
       /\ Becomes(p, [f EXCEPT !.pc = "read", !.todo = NamesIn(f.s)])
       /\ Handles(p, 1) /\ NoFile

closeDirectory(p) == Handles(p, -1) /\ NoFile

\* The stream is closed and the error goes to the caller.
Abandons(p) == closeDirectory(p) /\ Returns(p, FALSE)

Walks == {"moveDirectory", "copyDirectory", "removeDirectory", "getDirectoryUsage"}
Walking(p) == fsStack[p] # <<>> /\ Top(p).op \in Walks /\ Top(p).pc = "read"

\* Mutant: an entry that has gone is returned again.
readDirectoryAgain(p) ==
    /\ Walking(p) /\ FsQuiet /\ UNCHANGED fsWorld
    /\ LET f == Top(p)
       IN \/ \E e \in (f.todo \cup NamesIn(f.s)) \ f.seen :
                LET x == Append(f.s, e)
                IN Becomes(p, IF x \in DOMAIN fsTree THEN [f EXCEPT !.seen = @ \cup {e}, !.e = e, !.pc = fsTree[x].t] ELSE f)
          \/ f.todo \subseteq f.seen /\ FsGoes(p, "finished")

\* The entries that were there at the beginning are returned, those that came after it may be; an entry that has gone
\* when it is looked at is skipped.
readDirectory(p) ==
    /\ Walking(p) /\ FsQuiet /\ UNCHANGED fsWorld
    /\ LET f == Top(p)
       IN \/ \E e \in (f.todo \cup NamesIn(f.s)) \ f.seen :
                LET x == Append(f.s, e) g == [f EXCEPT !.seen = @ \cup {e}]
                IN Becomes(p, IF x \in DOMAIN fsTree THEN [g EXCEPT !.e = e, !.pc = fsTree[x].t] ELSE g)
          \/ f.todo \subseteq f.seen /\ FsGoes(p, "finished")

\* What the code does not look at: a call, and the path that it was about.
Overlooks(what, x) == fsUnseen' = fsUnseen \cup {[what |-> what, path |-> x]}

\* A readdir that fails is taken for the end of the directory.
readDirectoryEndsEarly(p) ==
    /\ Walking(p) /\ Fault /\ FsGoes(p, "finished")
    /\ Overlooks("readdir", Top(p).s) /\ UNCHANGED <<fsTree, fsHandles, fsHolder>>

\* An lstat that fails, but for an entry that has gone, is an error.
readDirectoryFails(p) == Walking(p) /\ Fault /\ FsGoes(p, "failed") /\ UNCHANGED fsWorld

\* The paths of the entry under the two directories of a walk.
SrcEntry(p) == Append(Top(p).s, Top(p).e)
DestEntry(p) == Append(Top(p).d, Top(p).e)
ReadsOn(p) == FsGoes(p, "read") /\ UNCHANGED fsWorld
CallReturned(p) == IF fsRet[p].ok THEN ReadsOn(p) ELSE Abandons(p)

(***************************************************************************)
(* moveDirectory                                                           *)
(***************************************************************************)
ChecksSource(p, op, next) ==
    /\ FsIn(p, op, "start")
    /\ \/ /\ FsQuiet /\ UNCHANGED fsWorld
          /\ IF isDirectoryExisting(Top(p).s) THEN FsGoes(p, next) ELSE Returns(p, FALSE)
       \/ Fault /\ FailsNow(p)

ChecksDest(p, op) ==
    \/ /\ FsIn(p, op, "dest") /\ FsQuiet /\ UNCHANGED fsWorld
       /\ IF isDirectoryExisting(Top(p).d) THEN FsGoes(p, "open") ELSE FsCall(p, "createDirectory", Top(p).d, <<>>, "made")
    \/ /\ FsIn(p, op, "made") /\ FsQuiet /\ UNCHANGED fsWorld
       /\ IF fsRet[p].ok THEN FsGoes(p, "open") ELSE Returns(p, FALSE)

OpensStream(p, op) ==
    /\ FsIn(p, op, "open")
    /\ \/ FsQuiet /\ openDirectory(p)
       \/ FsQuiet /\ ~IsA(Top(p).s, "dir") /\ FailsNow(p)
       \/ Fault /\ FailsNow(p)

MoveChecksSource(p) == ChecksSource(p, "moveDirectory", "dest")
MoveChecksDest(p) == ChecksDest(p, "moveDirectory")
MoveOpens(p) == OpensStream(p, "moveDirectory")

MoveRegularFile(p) ==
    \/ FsIn(p, "moveDirectory", "file") /\ FsQuiet /\ UNCHANGED fsWorld
       /\ CallsSlashed(p, "moveFile", SrcEntry(p), Top(p).d, "fileDone")
    \/ FsIn(p, "moveDirectory", "fileDone") /\ FsQuiet /\ CallReturned(p)

MoveLinkFile(p) ==
    \/ FsIn(p, "moveDirectory", "link") /\ FsQuiet /\ UNCHANGED fsWorld
       /\ CallsSlashed(p, "moveLink", SrcEntry(p), Top(p).d, "linkDone")
    \/ FsIn(p, "moveDirectory", "linkDone") /\ FsQuiet /\ CallReturned(p)

MoveSubdirectory(p) ==
    /\ FsIn(p, "moveDirectory", "dir") /\ FsQuiet /\ UNCHANGED fsWorld
    /\ FsCall(p, "moveDirectory", SrcEntry(p), DestEntry(p), "dirDone")

MoveSubdirectoryReturned(p) == FsIn(p, "moveDirectory", "dirDone") /\ FsQuiet /\ CallReturned(p)
MoveUnknown(p) == FsIn(p, "moveDirectory", "other") /\ FsQuiet /\ Abandons(p)
MoveFails(p) == FsIn(p, "moveDirectory", "failed") /\ FsQuiet /\ Abandons(p)
MoveCloses(p) == FsIn(p, "moveDirectory", "finished") /\ FsQuiet /\ closeDirectory(p) /\ FsGoes(p, "rmdir")

\* removeDirectory of moveDirectory is not recursive.
RemovesEmpty(p, op) ==
    /\ FsIn(p, op, "rmdir")
    /\ \/ /\ FsQuiet /\ CanRmdir(Top(p).s) /\ Unlinked(Top(p).s) /\ Returns(p, TRUE)
          /\ UNCHANGED <<fsHandles, fsHolder, fsUnseen>>
       \/ FsQuiet /\ ~CanRmdir(Top(p).s) /\ FailsNow(p)
       \/ Fault /\ FailsNow(p)

MoveRemovesSource(p) == RemovesEmpty(p, "moveDirectory")

(***************************************************************************)
(* copyDirectory                                                           *)
(***************************************************************************)
CopyChecksSource(p) == ChecksSource(p, "copyDirectory", "dest")
CopyChecksDest(p) == ChecksDest(p, "copyDirectory")
CopyOpens(p) == OpensStream(p, "copyDirectory")

\* Mutant: copyDirectory goes on after a file that it could not copy.
CopyRegularFileGoesOn(p) ==
    \/ FsIn(p, "copyDirectory", "file") /\ FsQuiet /\ UNCHANGED fsWorld
       /\ CallsSlashed(p, "copyFile", SrcEntry(p), Top(p).d, "fileDone")
    \/ FsIn(p, "copyDirectory", "fileDone") /\ FsQuiet /\ ReadsOn(p)

CopyRegularFile(p) ==
    \/ FsIn(p, "copyDirectory", "file") /\ FsQuiet /\ UNCHANGED fsWorld
       /\ CallsSlashed(p, "copyFile", SrcEntry(p), Top(p).d, "fileDone")
    \/ FsIn(p, "copyDirectory", "fileDone") /\ FsQuiet /\ CallReturned(p)

\* The link is asked for under the path of the directory itself.
CopyLinkFile(p) ==
    \/ FsIn(p, "copyDirectory", "link") /\ FsQuiet /\ UNCHANGED fsWorld
       /\ CallsWith(p, [Frame("createLink", SrcEntry(p), Top(p).d) EXCEPT !.slash = TRUE, !.e = "replace"], "linkDone")
    \/ FsIn(p, "copyDirectory", "linkDone") /\ FsQuiet /\ CallReturned(p)

CopySubdirectory(p) ==
    /\ FsIn(p, "copyDirectory", "dir") /\ FsQuiet /\ UNCHANGED fsWorld
    /\ FsCall(p, "copyDirectory", SrcEntry(p), DestEntry(p), "dirDone")

CopySubdirectoryReturned(p) == FsIn(p, "copyDirectory", "dirDone") /\ FsQuiet /\ CallReturned(p)
CopyUnknown(p) == FsIn(p, "copyDirectory", "other") /\ FsQuiet /\ Abandons(p)
CopyFails(p) == FsIn(p, "copyDirectory", "failed") /\ FsQuiet /\ Abandons(p)
CopyCloses(p) == FsIn(p, "copyDirectory", "finished") /\ FsQuiet /\ closeDirectory(p) /\ Returns(p, TRUE)

(***************************************************************************)
(* removeDirectory, with all it holds                                      *)
(***************************************************************************)
RemoveChecks(p) == ChecksSource(p, "removeDirectory", "open")
RemoveOpens(p) == OpensStream(p, "removeDirectory")

RemovesEntry(p, type) ==
    /\ FsIn(p, "removeDirectory", type)
    /\ \/ /\ FsQuiet /\ CanUnlink(SrcEntry(p)) /\ Unlinked(SrcEntry(p)) /\ FsGoes(p, "read")
          /\ UNCHANGED <<fsHandles, fsHolder, fsUnseen>>
       \/ FsQuiet /\ ~CanUnlink(SrcEntry(p)) /\ Abandons(p)
       \/ Fault /\ Abandons(p)

RemoveRegularFile(p) == RemovesEntry(p, "file")
RemoveLinkFile(p) == RemovesEntry(p, "link")

RemoveSubdirectory(p) ==
    \/ FsIn(p, "removeDirectory", "dir") /\ FsQuiet /\ UNCHANGED fsWorld
       /\ FsCall(p, "removeDirectory", SrcEntry(p), <<>>, "dirDone")
    \/ FsIn(p, "removeDirectory", "dirDone") /\ FsQuiet /\ CallReturned(p)

RemoveUnknown(p) == FsIn(p, "removeDirectory", "other") /\ FsQuiet /\ Abandons(p)
RemoveFails(p) == FsIn(p, "removeDirectory", "failed") /\ FsQuiet /\ Abandons(p)
RemoveCloses(p) == FsIn(p, "removeDirectory", "finished") /\ FsQuiet /\ closeDirectory(p) /\ FsGoes(p, "rmdir")

RemoveRemoves(p) == RemovesEmpty(p, "removeDirectory")

(***************************************************************************)
(* getDirectoryUsage                                                       *)
(***************************************************************************)
SizeOf(x) == IF IsA(x, "file") THEN Len(fsTree[x].data) ELSE 1
Counts(p, size, next) == Becomes(p, [Top(p) EXCEPT !.n = @ + size, !.pc = next])

UsageChecks(p) == ChecksSource(p, "getDirectoryUsage", "own")

\* The size of the directory itself comes first.
UsageOwnSize(p) ==
    /\ FsIn(p, "getDirectoryUsage", "own")
    /\ \/ FsQuiet /\ Counts(p, 1, "open") /\ UNCHANGED fsWorld
       \/ Fault /\ FailsNow(p)

UsageOpens(p) == OpensStream(p, "getDirectoryUsage")

UsageFile(p) ==
    /\ FsIn(p, "getDirectoryUsage", "file") \/ FsIn(p, "getDirectoryUsage", "link")
    /\ \/ FsQuiet /\ SrcEntry(p) \in DOMAIN fsTree /\ Counts(p, SizeOf(SrcEntry(p)), "read") /\ UNCHANGED fsWorld
       \/ FsQuiet /\ SrcEntry(p) \notin DOMAIN fsTree /\ Abandons(p)
       \/ Fault /\ Abandons(p)

UsageSubdirectory(p) ==
    \/ FsIn(p, "getDirectoryUsage", "dir") /\ FsQuiet /\ UNCHANGED fsWorld
       /\ FsCall(p, "getDirectoryUsage", SrcEntry(p), <<>>, "dirDone")
    \/ /\ FsIn(p, "getDirectoryUsage", "dirDone") /\ FsQuiet
       /\ IF fsRet[p].ok THEN Counts(p, fsRet[p].n, "read") /\ UNCHANGED fsWorld ELSE Abandons(p)

UsageUnknown(p) == FsIn(p, "getDirectoryUsage", "other") /\ FsQuiet /\ Abandons(p)
UsageFails(p) == FsIn(p, "getDirectoryUsage", "failed") /\ FsQuiet /\ Abandons(p)
UsageCloses(p) == FsIn(p, "getDirectoryUsage", "finished") /\ FsQuiet /\ closeDirectory(p) /\ ReturnsWith(p, TRUE, Top(p).n)

(***************************************************************************)
(* createDirectory and links                                               *)
(***************************************************************************)
\* bRecursive: the directory above comes first.
CreatesParent(p) ==
    \/ /\ FsIn(p, "createDirectory", "start") /\ FsQuiet /\ UNCHANGED fsWorld
       /\ LET above == Front(Top(p).s)
          IN IF Top(p).slash /\ Len(Top(p).s) > 1 /\ ~isDirectoryExisting(above)
             THEN CallsWith(p, [Frame("createDirectory", above, <<>>) EXCEPT !.slash = TRUE], "above")
             ELSE FsGoes(p, "mkdir")
    \/ /\ FsIn(p, "createDirectory", "above") /\ FsQuiet /\ UNCHANGED fsWorld
       /\ IF fsRet[p].ok THEN FsGoes(p, "mkdir") ELSE Returns(p, FALSE)

\* bNoErrorIfExists: an entry of that name is no error, whatever it is.
createDirectory(p) ==
    LET x == Top(p).s
    IN /\ FsIn(p, "createDirectory", "mkdir")
       /\ \/ FsQuiet /\ x \in DOMAIN fsTree /\ Returns(p, TRUE) /\ UNCHANGED fsWorld
          \/ /\ FsQuiet /\ x \notin DOMAIN fsTree /\ HasParent(x)
             /\ WithEntry(x, Entry("dir", <<>>)) /\ Returns(p, TRUE) /\ UNCHANGED <<fsHandles, fsHolder, fsUnseen>>
          \/ FsQuiet /\ x \notin DOMAIN fsTree /\ ~HasParent(x) /\ FailsNow(p)
          \/ Fault /\ FailsNow(p)

\* bReplaceItIfExist: what has the name is removed, which a directory is not.
createLink(p) ==
    LET x == Top(p).d
    IN /\ FsIn(p, "createLink", "start")
       /\ \/ /\ FsQuiet /\ x \notin DOMAIN fsTree /\ HasParent(x) /\ ~Top(p).slash
             /\ WithEntry(x, Entry("link", <<>>)) /\ Returns(p, TRUE) /\ UNCHANGED <<fsHandles, fsHolder, fsUnseen>>
          \/ /\ FsQuiet /\ Top(p).e = "replace" /\ CanUnlink(x) /\ ~Top(p).slash
             /\ Unlinked(x) /\ Becomes(p, [Top(p) EXCEPT !.e = ""]) /\ UNCHANGED <<fsHandles, fsHolder, fsUnseen>>
          \/ /\ FsQuiet /\ FailsNow(p)
             /\ \/ Top(p).slash
                \/ x \notin DOMAIN fsTree /\ ~HasParent(x)
                \/ x \in DOMAIN fsTree /\ (Top(p).e # "replace" \/ ~CanUnlink(x))
          \/ Fault /\ FailsNow(p)

MoveLinkChecks(p) ==
    LET f == Top(p)
    IN /\ FsIn(p, "moveLink", "start")
       /\ \/ /\ FsQuiet /\ IsA(f.s, "link") /\ UNCHANGED fsWorld
             /\ CallsWith(p, [Frame("createLink", f.s, IF IsA(f.d, "dir") THEN Append(f.d, Last(f.s)) ELSE f.d) EXCEPT
                                 !.slash = f.slash /\ ~IsA(f.d, "dir"),
                                 !.e = IF f.d \in DOMAIN fsTree /\ ~IsA(f.d, "dir") THEN "replace" ELSE ""], "linked")
          \/ FsQuiet /\ ~IsA(f.s, "link") /\ FailsNow(p)

moveLink(p) ==
    /\ FsIn(p, "moveLink", "linked")
    /\ \/ FsQuiet /\ ~fsRet[p].ok /\ FailsNow(p)
       \/ /\ FsQuiet /\ fsRet[p].ok /\ CanUnlink(Top(p).s) /\ Unlinked(Top(p).s) /\ Returns(p, TRUE)
          /\ UNCHANGED <<fsHandles, fsHolder, fsUnseen>>
       \/ FsQuiet /\ fsRet[p].ok /\ ~CanUnlink(Top(p).s) /\ FailsNow(p)
       \/ Fault /\ fsRet[p].ok /\ FailsNow(p)

(***************************************************************************)
(* copyFile                                                                *)
(***************************************************************************)
OpenInodes == {f.n : f \in {g \in UNION {ToSet(fsStack[p]) : p \in FsProcs} : g.op \in {"copyFile", "moveFile", "gzip"}}}
FreshInode == CHOOSE i \in FsInodes : i \notin OpenInodes /\ \A x \in DOMAIN fsTree : fsTree[x].ino # i

\* The target is a name in the directory, when pDestPath is one.
CopyFileChecks(p) ==
    LET f == Top(p) isDir == isDirectoryExisting(f.d)
    IN /\ FsIn(p, "copyFile", "start")
       /\ \/ /\ FsQuiet /\ f.s \in DOMAIN fsTree /\ UNCHANGED fsWorld
             /\ Becomes(p, [f EXCEPT !.pc = "open", !.slash = f.slash /\ ~isDir,
                                     !.d = IF isDir THEN Append(f.d, Last(f.s)) ELSE f.d])
          \/ FsQuiet /\ f.s \notin DOMAIN fsTree /\ FailsNow(p)

CopyFileOpensSource(p) ==
    /\ FsIn(p, "copyFile", "open")
    /\ \/ /\ FsQuiet /\ IsA(Top(p).s, "file") /\ Handles(p, 1) /\ NoFile
          /\ Becomes(p, [Top(p) EXCEPT !.pc = "openDest", !.data = fsTree[Top(p).s].data])
       \/ FsQuiet /\ ~IsA(Top(p).s, "file") /\ FailsNow(p)
       \/ Fault /\ FailsNow(p)

\* O_TRUNC and O_CREAT.
CopyFileOpensDest(p) ==
    LET f == Top(p) entry == IF f.d \in DOMAIN fsTree THEN [fsTree[f.d] EXCEPT !.data = <<>>]
                             ELSE [Entry("file", <<>>) EXCEPT !.ino = FreshInode]
    IN /\ FsIn(p, "copyFile", "openDest")
       /\ \/ /\ FsQuiet /\ CanOpenToWrite(f.d) /\ ~f.slash
             /\ WithEntry(f.d, entry) /\ Handles(p, 1) /\ UNCHANGED <<fsHolder, fsUnseen>>
             /\ Becomes(p, [f EXCEPT !.pc = "copy", !.n = entry.ino])
          \/ FsQuiet /\ (~CanOpenToWrite(f.d) \/ f.slash) /\ Abandons(p)
          \/ Fault /\ Abandons(p)

\* The two files are closed and the target is removed.
CopyFileGivesUp(p) ==
    /\ Handles(p, -2) /\ Returns(p, FALSE) /\ UNCHANGED <<fsHolder, fsUnseen>>
    /\ IF CanUnlink(Top(p).d) THEN Unlinked(Top(p).d) ELSE UNCHANGED fsTree

\* What is written goes to the file that was opened, whatever the path names now.
Writes(p, chunk) ==
    IF IsA(Top(p).d, "file") /\ fsTree[Top(p).d].ino = Top(p).n
    THEN WithEntry(Top(p).d, [fsTree[Top(p).d] EXCEPT !.data = Append(@, chunk)])
    ELSE UNCHANGED fsTree

CopyFileChunk(p) ==
    LET f == Top(p)
    IN /\ FsIn(p, "copyFile", "copy")
       /\ \/ /\ FsQuiet /\ f.data # <<>> /\ Writes(p, Head(f.data)) /\ Becomes(p, [f EXCEPT !.data = Tail(@)])
             /\ UNCHANGED <<fsHandles, fsHolder, fsUnseen>>
          \/ FsQuiet /\ f.data = <<>> /\ FsGoes(p, "close") /\ UNCHANGED fsWorld
          \/ Fault /\ CopyFileGivesUp(p)

\* The target goes when it could not be closed, and stays when the source could not.
CopyFileCloses(p) ==
    /\ FsIn(p, "copyFile", "close")
    /\ \/ FsQuiet /\ Handles(p, -2) /\ NoFile /\ Returns(p, TRUE)
       \/ Fault /\ CopyFileGivesUp(p)
       \/ Fault /\ Handles(p, -2) /\ NoFile /\ Returns(p, FALSE)

(***************************************************************************)
(* moveFile: a copy and a removal behind a lock file beside the source     *)
(***************************************************************************)
isFileExisting(x) == IsA(x, "file")
LockOf(p) == Suffixed(Top(p).s, ".lck")

MoveFileChecks(p) ==
    LET f == Top(p) isDir == isDirectoryExisting(f.d)
    IN /\ FsIn(p, "moveFile", "start") /\ FsQuiet /\ UNCHANGED fsWorld
       /\ IF isFileExisting(f.s)
          THEN Becomes(p, [f EXCEPT !.pc = "lock", !.slash = f.slash /\ ~isDir,
                                    !.d = IF isDir THEN Append(f.d, Last(f.s)) ELSE f.d])
          ELSE Returns(p, FALSE)

MoveFileOpensLock(p) ==
    /\ FsIn(p, "moveFile", "lock")
    /\ \/ /\ FsQuiet /\ CanOpenToWrite(LockOf(p)) /\ Handles(p, 1) /\ UNCHANGED <<fsHolder, fsUnseen>>
          /\ LET i == IF LockOf(p) \in DOMAIN fsTree THEN fsTree[LockOf(p)].ino ELSE FreshInode
             IN /\ IF LockOf(p) \in DOMAIN fsTree THEN UNCHANGED fsTree
                   ELSE WithEntry(LockOf(p), [Entry("file", <<>>) EXCEPT !.ino = i])
                /\ Becomes(p, [Top(p) EXCEPT !.pc = "locking", !.n = i])
       \/ FsQuiet /\ ~CanOpenToWrite(LockOf(p)) /\ FailsNow(p)
       \/ Fault /\ FailsNow(p)

\* Another process is between the lock and the removal of the same file.
AnotherMoves(p) ==
    \E q \in FsProcs \ {p} : \E f \in ToSet(fsStack[q]) : f.op = "moveFile" /\ f.s = Top(p).s /\ f.pc \in {"copied", "remove"}

MoveFileLocks(p) ==
    /\ FsIn(p, "moveFile", "locking") /\ FsQuiet
    /\ fsHolder[Top(p).n] = "none" /\ fsHolder' = [fsHolder EXCEPT ![Top(p).n] = p]
    /\ IF AnotherMoves(p) THEN Overlooks("lock", Top(p).s) ELSE UNCHANGED fsUnseen
    /\ CallsWith(p, [Frame("copyFile", Top(p).s, Top(p).d) EXCEPT !.slash = Top(p).slash], "copied")
    /\ UNCHANGED <<fsTree, fsHandles>>

\* lockFile gives up after five seconds.
MoveFileLockTimeout(p) ==
    /\ FsIn(p, "moveFile", "locking") /\ FsQuiet /\ fsHolder[Top(p).n] # "none"
    /\ Handles(p, -1) /\ NoFile /\ Returns(p, FALSE)

MoveFileCopied(p) ==
    /\ FsIn(p, "moveFile", "copied") /\ FsQuiet /\ UNCHANGED fsWorld
    /\ IF fsRet[p].ok THEN FsGoes(p, "remove") ELSE Becomes(p, [Top(p) EXCEPT !.pc = "unlock", !.e = "error"])

MoveFileRemoves(p) ==
    /\ FsIn(p, "moveFile", "remove")
    /\ \/ /\ FsQuiet /\ CanUnlink(Top(p).s) /\ Unlinked(Top(p).s) /\ FsGoes(p, "unlock")
          /\ UNCHANGED <<fsHandles, fsHolder, fsUnseen>>
       \/ FsQuiet /\ ~CanUnlink(Top(p).s) /\ Becomes(p, [Top(p) EXCEPT !.pc = "unlock", !.e = "error"]) /\ UNCHANGED fsWorld
       \/ Fault /\ Becomes(p, [Top(p) EXCEPT !.pc = "unlock", !.e = "error"]) /\ UNCHANGED fsWorld

\* unLockFile gives the lock back, and after that it removes the path.
MoveFileUnlocks(p) ==
    /\ FsIn(p, "moveFile", "unlock") /\ FsQuiet
    /\ fsHolder' = [fsHolder EXCEPT ![Top(p).n] = "none"] /\ Handles(p, -1)
    /\ FsGoes(p, "removeLock") /\ UNCHANGED <<fsTree, fsUnseen>>

MoveFileReturns(p) ==
    /\ FsIn(p, "moveFile", "removeLock") /\ FsQuiet /\ UNCHANGED <<fsHandles, fsHolder, fsUnseen>>
    /\ IF CanUnlink(LockOf(p)) THEN Unlinked(LockOf(p)) ELSE UNCHANGED fsTree
    /\ Returns(p, Top(p).e # "error" /\ CanUnlink(LockOf(p)))

(***************************************************************************)
(* gzip and concatFile, with the removal of the source                     *)
(***************************************************************************)
GzipOpens(p) ==
    LET f == Top(p) zip == Suffixed(f.s, ".gz")
    IN /\ FsIn(p, "gzip", "start")
       /\ \/ /\ FsQuiet /\ IsA(f.s, "file") /\ Handles(p, 2) /\ UNCHANGED <<fsHolder, fsUnseen>>
             /\ WithEntry(zip, [Entry("file", <<>>) EXCEPT !.ino = FreshInode])
             /\ Becomes(p, [f EXCEPT !.pc = "zip", !.d = zip, !.data = fsTree[f.s].data, !.n = FreshInode])
          \/ FsQuiet /\ ~IsA(f.s, "file") /\ FailsNow(p)
          \/ Fault /\ FailsNow(p)

\* An error leaves a compressed file that is not whole.
GzipChunk(p) ==
    LET f == Top(p)
    IN /\ FsIn(p, "gzip", "zip")
       /\ \/ /\ FsQuiet /\ f.data # <<>> /\ Writes(p, Head(f.data)) /\ Becomes(p, [f EXCEPT !.data = Tail(@)])
             /\ UNCHANGED <<fsHandles, fsHolder, fsUnseen>>
          \/ FsQuiet /\ f.data = <<>> /\ FsGoes(p, "close") /\ UNCHANGED fsWorld
          \/ Fault /\ Handles(p, -2) /\ NoFile /\ Returns(p, FALSE)

\* gzclose writes the end of the file, and what it returns is not looked at.
GzipCloses(p) ==
    LET f == Top(p)
    IN /\ FsIn(p, "gzip", "close") /\ Handles(p, -2) /\ FsGoes(p, "remove") /\ UNCHANGED fsHolder
       /\ \/ FsQuiet /\ UNCHANGED <<fsTree, fsUnseen>>
          \/ /\ Fault /\ IsA(f.d, "file") /\ WithEntry(f.d, [fsTree[f.d] EXCEPT !.data = <<>>])
             /\ Overlooks("gzclose", f.s)

RemovesSource(p, op) ==
    /\ FsIn(p, op, "remove")
    /\ \/ /\ FsQuiet /\ CanUnlink(Top(p).s) /\ Unlinked(Top(p).s) /\ Returns(p, TRUE)
          /\ UNCHANGED <<fsHandles, fsHolder, fsUnseen>>
       \/ FsQuiet /\ ~CanUnlink(Top(p).s) /\ FailsNow(p)
       \/ Fault /\ FailsNow(p)

gzip(p) == RemovesSource(p, "gzip")

ConcatOpens(p) ==
    LET f == Top(p)
    IN /\ FsIn(p, "concatFile", "start") /\ FsQuiet
       /\ \/ /\ isFileExisting(f.d) /\ isFileExisting(f.s) /\ Handles(p, 2) /\ NoFile
             /\ Becomes(p, [f EXCEPT !.pc = "append", !.data = fsTree[f.s].data, !.n = fsTree[f.d].ino])
          \/ ~(isFileExisting(f.d) /\ isFileExisting(f.s)) /\ FailsNow(p)

\* A read that fails is an error, a write that fails is not looked at.
ConcatChunk(p) ==
    LET f == Top(p)
    IN /\ FsIn(p, "concatFile", "append") /\ f.data # <<>>
       /\ \/ /\ FsQuiet /\ Writes(p, Head(f.data)) /\ Becomes(p, [f EXCEPT !.data = Tail(@)])
             /\ UNCHANGED <<fsHandles, fsHolder, fsUnseen>>
          \/ Fault /\ Handles(p, -2) /\ NoFile /\ Returns(p, FALSE)
          \/ /\ Fault /\ Becomes(p, [f EXCEPT !.data = Tail(@)]) /\ Overlooks("write", f.s)
             /\ UNCHANGED <<fsTree, fsHandles, fsHolder>>

ConcatCloses(p) ==
    /\ FsIn(p, "concatFile", "append") /\ Top(p).data = <<>> /\ FsQuiet
    /\ Handles(p, -2) /\ NoFile /\ FsGoes(p, "remove")

concatFile(p) == RemovesSource(p, "concatFile")

(***************************************************************************)
(* The processes                                                           *)
(***************************************************************************)
FsRequest(p, r) ==
    /\ fsStack[p] = <<>> /\ fsCalls < FsMaxCalls /\ fsCalls' = fsCalls + 1
    /\ fsAsked = {} \/ {q.op : q \in fsAsked \cup {r}} \subseteq FsTogether
    /\ fsStack' = [fsStack EXCEPT ![p] = <<[Frame(r.op, r.s, r.d) EXCEPT !.slash = r.op = "createDirectory"]>>]
    /\ fsAsked' = fsAsked \cup {r}
    /\ UNCHANGED <<fsWorld, fsRet, fsFaults, fsFirst>>

FsCrash(p) ==
    /\ fsStack[p] # <<>> /\ Fault
    /\ fsStack' = [fsStack EXCEPT ![p] = <<>>] /\ fsRet' = [fsRet EXCEPT ![p] = [ok |-> FALSE, n |-> 0]]
    /\ fsHandles' = [fsHandles EXCEPT ![p] = 0]
    /\ fsHolder' = [i \in FsInodes |-> IF fsHolder[i] = p THEN "none" ELSE fsHolder[i]]
    /\ UNCHANGED <<fsTree, fsUnseen>>

Doing(p, ops) == fsStack[p] # <<>> /\ Top(p).op \in ops

MoveStep(p) ==
    \/ MoveChecksSource(p) \/ MoveChecksDest(p) \/ MoveOpens(p) \/ MoveRegularFile(p) \/ MoveLinkFile(p)
    \/ MoveSubdirectory(p) \/ MoveSubdirectoryReturned(p) \/ MoveUnknown(p) \/ MoveFails(p) \/ MoveCloses(p)
    \/ MoveRemovesSource(p)

CopyStep(p) ==
    \/ CopyChecksSource(p) \/ CopyChecksDest(p) \/ CopyOpens(p) \/ CopyRegularFile(p) \/ CopyLinkFile(p)
    \/ CopySubdirectory(p) \/ CopySubdirectoryReturned(p) \/ CopyUnknown(p) \/ CopyFails(p) \/ CopyCloses(p)

RemoveStep(p) ==
    \/ RemoveChecks(p) \/ RemoveOpens(p) \/ RemoveRegularFile(p) \/ RemoveLinkFile(p) \/ RemoveSubdirectory(p)
    \/ RemoveUnknown(p) \/ RemoveFails(p) \/ RemoveCloses(p) \/ RemoveRemoves(p)

UsageStep(p) ==
    \/ UsageChecks(p) \/ UsageOwnSize(p) \/ UsageOpens(p) \/ UsageFile(p) \/ UsageSubdirectory(p)
    \/ UsageUnknown(p) \/ UsageFails(p) \/ UsageCloses(p)

LinkStep(p) ==
    CreatesParent(p) \/ createDirectory(p) \/ createLink(p) \/ MoveLinkChecks(p) \/ moveLink(p)

CopyFileStep(p) ==
    \/ CopyFileChecks(p) \/ CopyFileOpensSource(p) \/ CopyFileOpensDest(p) \/ CopyFileChunk(p) \/ CopyFileCloses(p)

MoveFileStep(p) ==
    \/ MoveFileChecks(p) \/ MoveFileOpensLock(p) \/ MoveFileLocks(p) \/ MoveFileLockTimeout(p) \/ MoveFileCopied(p)
    \/ MoveFileRemoves(p) \/ MoveFileUnlocks(p) \/ MoveFileReturns(p)

ZipStep(p) ==
    \/ GzipOpens(p) \/ GzipChunk(p) \/ GzipCloses(p) \/ gzip(p)
    \/ ConcatOpens(p) \/ ConcatChunk(p) \/ ConcatCloses(p) \/ concatFile(p)

FsStep(p) ==
    \/ Doing(p, Walks) /\ (readDirectory(p) \/ readDirectoryEndsEarly(p) \/ readDirectoryFails(p))
    \/ Doing(p, {"moveDirectory"}) /\ MoveStep(p)
    \/ Doing(p, {"copyDirectory"}) /\ CopyStep(p)
    \/ Doing(p, {"removeDirectory"}) /\ RemoveStep(p)
    \/ Doing(p, {"getDirectoryUsage"}) /\ UsageStep(p)
    \/ Doing(p, {"createDirectory", "createLink", "moveLink"}) /\ LinkStep(p)
    \/ Doing(p, {"copyFile"}) /\ CopyFileStep(p)
    \/ Doing(p, {"moveFile"}) /\ MoveFileStep(p)
    \/ Doing(p, {"gzip", "concatFile"}) /\ ZipStep(p)

FsNext ==
    \/ \E p \in FsProcs : FsStep(p) \/ FsCrash(p)
    \/ \E p \in FsProcs : \E r \in FsRequests[p] : FsRequest(p, r)

\* A process goes on with its call.
FsFairness == \A p \in FsProcs : WF_fsVars(FsStep(p))

(***************************************************************************)
(* Properties                                                              *)
(***************************************************************************)
FsTypeOK ==
    /\ \A x \in DOMAIN fsTree : fsTree[x].t \in {"file", "link", "dir", "other"} /\ fsTree[x].ino \in FsInodes \cup {0}
    /\ \A p \in FsProcs : fsHandles[p] \in Nat /\ fsRet[p].ok \in BOOLEAN /\ fsRet[p].n \in Nat
    /\ \A i \in FsInodes : fsHolder[i] \in FsProcs \cup {"none"}
    /\ fsCalls \in 0..FsMaxCalls /\ fsFaults \in 0..FsMaxFaults

FsIdle == \A p \in FsProcs : fsStack[p] = <<>>
Holds(chunks, part) == \E i \in 0..(Len(chunks) - Len(part)) : SubSeq(chunks, i + 1, i + Len(part)) = part

Removed(x) == \E r \in fsAsked : r.op = "removeDirectory" /\ IsPrefix(r.s, x)
Overlooked(x) == \E u \in fsUnseen : u.what \in {"gzclose", "write", "lock"} /\ u.path = x

\* Wherever a process crashes and whichever system call fails, a file of the beginning that nobody asked to remove is
\* whole in one of its two places. The exceptions are the three calls that FileIO does not look at before it removes the
\* source: gzclose, the writes of concatFile, and a lock file that was removed while another call was about to lock it.
\* Each of them loses at most the one file it was about.
NothingLost ==
    \A x \in DOMAIN fsFirst :
        \/ fsFirst[x].t # "file" \/ Removed(x) \/ Overlooked(x)
        \/ \E y \in DOMAIN fsTree : fsTree[y].t = "file" /\ Holds(fsTree[y].data, fsFirst[x].data)

\* Each of the error paths closes what it has opened: a process whose calls are over has no directory stream and no file
\* descriptor, and no lock.
NothingLeftOpen ==
    \A p \in FsProcs : fsStack[p] = <<>> => fsHandles[p] = 0 /\ \A i \in FsInodes : fsHolder[i] # p

\* What is under a directory, by the path from there.
Under(tree, x) ==
    LET paths == {y \in DOMAIN tree : IsStrictPrefix(x, y)}
    IN {<<SubSeq(y, Len(x) + 1, Len(y)), tree[y].t, tree[y].data>> : y \in paths}
OnlyCall(op) == FsIdle /\ fsCalls = 1 /\ \A r \in fsAsked : r.op = op
Succeeded == \A p \in FsProcs : fsRet[p].ok

\* A readdir that failed has ended a walk early.
ReadInPart == \E u \in fsUnseen : u.what = "readdir"

\* moveDirectory that succeeds has moved the whole tree, and has left no directory and no lock file behind: what a readdir
\* that failed has left there, the rmdir at the end meets.
MovesWhole ==
    OnlyCall("moveDirectory") /\ Succeeded =>
        \A r \in fsAsked : r.s \notin DOMAIN fsTree /\ Under(fsFirst, r.s) \cup Under(fsFirst, r.d) = Under(fsTree, r.d)

\* copyDirectory that succeeds has not changed the source and made up nothing; it has copied the whole tree, unless a
\* readdir failed.
CopiesWhole ==
    OnlyCall("copyDirectory") /\ Succeeded =>
        \A r \in fsAsked :
            LET all == Under(fsFirst, r.s) \cup Under(fsFirst, r.d)
            IN /\ Under(fsFirst, r.s) = Under(fsTree, r.s)
               /\ Under(fsTree, r.d) = all \/ (ReadInPart /\ Under(fsTree, r.d) \subseteq all)

\* removeDirectory removes the directory and what is in it, and nothing else.
RemovesAll ==
    OnlyCall("removeDirectory") =>
        \A r \in fsAsked : /\ Succeeded => {x \in DOMAIN fsTree : IsPrefix(r.s, x)} = {}
                           /\ \A x \in DOMAIN fsFirst : ~IsPrefix(r.s, x) => x \in DOMAIN fsTree

\* What getDirectoryUsage should count.
Usage(x) ==
    LET sizeOf(y) == IF fsFirst[y].t = "file" THEN Len(fsFirst[y].data) ELSE 1
    IN FoldSet(LAMBDA y, n : n + sizeOf(y), 0, {y \in DOMAIN fsFirst : IsPrefix(x, y)})
UsageReturned == OnlyCall("getDirectoryUsage") /\ Succeeded

\* getDirectoryUsage counts no entry of the tree twice, and each of them unless a readdir failed.
CountsOnce ==
    UsageReturned =>
        \A r \in fsAsked : \E p \in FsProcs :
            fsRet[p].n = Usage(r.s) \/ (ReadInPart /\ fsRet[p].n < Usage(r.s))

\* FileIO.h says of getDirectoryUsage: "Return the bytes used by the directory considering the size of any recorsive
\* subdirectory". A call that succeeds has counted them all.
UsageIsWhole == UsageReturned => \A r \in fsAsked : \E p \in FsProcs : fsRet[p].n = Usage(r.s)

\* A lock file stays only after a crash: whoever waited for one finds the path free at the end.
NoLockFileLeft ==
    FsIdle /\ fsFaults = 0 => \A x \in DOMAIN fsFirst : Suffixed(x, ".lck") \notin DOMAIN fsTree

\* Every call returns: a process that waits for the lock of another gives up.
CallsReturn == \A p \in FsProcs : fsStack[p] # <<>> ~> fsStack[p] = <<>>
=============================================================================
