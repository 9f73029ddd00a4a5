--------------------------- MODULE MCClientFiles ---------------------------
(* Three names, two ids, two descriptors.  Each program makes a family of     *)
(* calls that interact, in every order; Init chooses the program.            *)
EXTENDS ClientFiles

\* Flags of open.
OpenFlags(acc, creat, excl, trunc, append, dir) ==
    [acc |-> acc, creat |-> creat, excl |-> excl, trunc |-> trunc, append |-> append, dir |-> dir]
RdOnly == OpenFlags("r", FALSE, FALSE, FALSE, FALSE, FALSE)
WrCreat == OpenFlags("w", TRUE, FALSE, FALSE, FALSE, FALSE)
Append2 == OpenFlags("rw", FALSE, FALSE, FALSE, TRUE, FALSE)
Dir == OpenFlags("r", FALSE, FALSE, FALSE, FALSE, TRUE)

Program(calls, flags, names, writes) ==
    [calls |-> calls, flags |-> flags, names |-> names, writes |-> writes, wsync |-> FALSE,
     index |-> 3, peers |-> {"create", "unlink", "laminate"}, npeer |-> 1, nfault |-> 0]

\* Descriptors on one file, with calls to the server that fail.
Descriptors == [Program({"open", "write", "fsync", "close", "dup", "dup2", "file"},
                        {WrCreat}, {"a"}, 1) EXCEPT !.nfault = 1]
\* Truncation of one file, and its mode and attributes.
Truncation == [Program({"open", "creat", "write", "read", "lseek", "close", "truncate", "ftruncate"},
                       {RdOnly}, {"a"}, 1) EXCEPT !.nfault = 1]
Attributes == [Program({"open", "creat", "write", "lseek", "chmod", "fchmod", "stat", "fstat"},
                       {RdOnly}, {"a"}, 1) EXCEPT !.nfault = 1]
\* Two names: ids change hands, because the process or another one unlinks a file.
TwoNames == [Program({"open", "write", "close", "file"}, {WrCreat}, {"a", "b"}, 1)
             EXCEPT !.npeer = 0]
Unlinked == [Program({"open", "write", "close"}, {WrCreat}, {"a", "b"}, 1)
             EXCEPT !.peers = {"unlink"}]
Renames == [Program({"open", "write", "rename", "mkdir"}, {WrCreat}, {"a", "b"}, 1)
            EXCEPT !.npeer = 0]
\* Directories.
Directories == [Program({"open", "mkdir", "opendir", "file", "dir", "any", "stat"},
                        {Dir}, {"a", "b"}, 0) EXCEPT !.peers = {"create", "unlink"}, !.nfault = 1]
\* A directory with the name of a file whose unlink callback is under way.
Replaced == [Program({"open", "write", "fsync", "file", "mkdir", "opendir"}, {WrCreat}, {"a"}, 1)
             EXCEPT !.peers = {"unlink", "mkdir"}, !.npeer = 2]
\* More names than ids.
Full == [Program({"open", "close", "file"}, {RdOnly, WrCreat}, {"a", "b", "c"}, 0)
         EXCEPT !.peers = {"create"}]
\* The library API.
Library == [Program({"api", "api_write", "api_sync", "api_stat", "api_laminate", "api_remove",
                     "api_truncate"}, {}, {"a", "b"}, 1) EXCEPT !.peers = {"create", "unlink"}]
\* Every write synced, and an index with room for one write.
WriteSync == [Program({"open", "write", "read", "close"}, {WrCreat}, {"a"}, 2) EXCEPT !.wsync = TRUE]
Index == [Program({"open", "write", "read", "close"}, {WrCreat, Append2}, {"a"}, 2) EXCEPT !.index = 2, !.nfault = 1]
AllPrograms == {Descriptors, Truncation, Attributes, TwoNames, Unlinked, Renames, Directories,
                Replaced, Full, Library, WriteSync, Index}
=============================================================================
