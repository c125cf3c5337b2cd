------------------------------ MODULE MCTools ------------------------------
EXTENDS FileTrees
File(c) == Entry("file", c)
Dir == Entry("dir", <<>>)
MCTrees ==
    {(<<"a">> :> Dir @@ <<"a", "f">> :> File(<<"f1", "f2">>)),
     (<<"a">> :> Dir @@ <<"a", "d">> :> Dir @@ <<"a", "d", "g">> :> File(<<"g1">>)),
     (<<"a">> :> Dir @@ <<"a", "l">> :> Entry("link", <<>>) @@ <<"b">> :> Dir),
     (<<"a">> :> Dir @@ <<"a", "d">> :> Dir @@ <<"a", "d", "o">> :> Entry("other", <<>>)),
     (<<"z">> :> Dir @@ <<"z", "f">> :> File(<<"f1", "f2">>) @@ <<"z", "h">> :> File(<<"h1">>))}
Req(op, s, d) == [op |-> op, s |-> s, d |-> d]
MCRequests ==
    "p" :> {Req("moveDirectory", <<"a">>, <<"b">>), Req("copyDirectory", <<"a">>, <<"c">>), Req("removeDirectory", <<"a">>, <<>>),
            Req("getDirectoryUsage", <<"a">>, <<>>), Req("gzip", <<"z", "f">>, <<>>), Req("concatFile", <<"z", "f">>, <<"z", "h">>),
            Req("createDirectory", <<"b", "d">>, <<>>)} @@
    "q" :> {Req("moveDirectory", <<"a">>, <<"b">>), Req("moveFile", <<"a", "f">>, <<"b">>)}
FsSpec == FsInit /\ [][FsNext]_fsVars /\ FsFairness

\* Whichever system call fails and wherever a process crashes, a move of a tree that succeeds and a removal are whole, and
\* FileIO loses no file but one whose gzclose, concatenated write or contended lock failed unseen. A copy and a usage that
\* succeed are whole unless a readdir failed, which FileIO takes for the end of the directory.
TreesWhole == FsTypeOK /\ NothingLost /\ MovesWhole /\ CopiesWhole /\ RemovesAll /\ CountsOnce

\* Every call of FileIO ends, with its streams and descriptors closed and no lock file left.
CallsEndClean == []NothingLeftOpen /\ []NoLockFileLeft /\ CallsReturn
=============================================================================
