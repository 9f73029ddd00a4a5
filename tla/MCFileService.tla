---------------------------- MODULE MCFileService ----------------------------
(* Model checking of FileService: the owner and one or two other servers.  The *)
(* initial value of "part" says how the clients call: freely, one at a time,   *)
(* or one at a time with the broadcasts of each call arrived before the next.  *)
EXTENDS FileService, TLC

CONSTANTS c1, c2, c3, own, other, third

AtOwnerAndOther == (c1 :> own) @@ (c2 :> other)
TwoAtOther == (c1 :> own) @@ (c2 :> other) @@ (c3 :> other)

Serial == INSTANCE FileService WITH
    Clients <- {c1, c2}, Home <- AtOwnerAndOther, Mode <- "serial", NBlocks <- 2, MaxOps <- 5,
    Menu <- {"create", "sync", "truncate", "laminate", "read", "size"}

Settled == INSTANCE FileService WITH
    Clients <- {c1, c2}, Home <- AtOwnerAndOther, Mode <- "settled", NBlocks <- 2, MaxOps <- 5,
    Menu <- {"create", "sync", "truncate", "laminate", "unlink", "read", "size"},
    Servers <- {own, other, third}

\* Sizes of files differ between the parts.  TLC evaluates the constant definitions
\* of FileData for each instance of FileService, and not once with the constants of
\* the configuration, because FileData has an instance of its own.
TwoBlocks == INSTANCE FileData WITH Clients <- {c1, c2}, NBlocks <- 2, MaxOps <- 5

VARIABLE part

FilesInit ==
    \/ part = "free" /\ Init
    \/ part = "serial" /\ Serial!Init
    \/ part = "settled" /\ Settled!Init

FilesNext ==
    /\ UNCHANGED part
    /\ \/ part = "free" /\ Next
       \/ part = "serial" /\ Serial!Next
       \/ part = "settled" /\ Settled!Next

FilesSpec ==
    /\ FilesInit /\ [][FilesNext]_<<part, vars>>
    /\ \A c \in Clients : WF_vars(part = "free" /\ RequestManager(c))
    /\ \A s \in Servers : WF_vars(part = "free" /\ ServiceManager(s))
    /\ \A s, d \in Servers : WF_vars(part = "free" /\ Deliver(s, d))

\* NoSyncForgotten of clients that call at any time: a client that waits for its
\* sync (rpc_fsync) is in a pending list with a request queued or about to be, or is
\* being served.
FreeSyncNotForgotten == part = "free" => NoSyncForgotten

\* AckedAtOwner of such clients: a sync that returned success is in the inode of
\* the owner, also when process_pending_sync processed several of them together.
FreeAckedAtOwner == part = "free" => AckedAtOwner

\* CallsReturn of such clients: every call returns.
FreeCallsReturn == \A c \in Clients :
    (part = "free" /\ call[c] # Idle) ~> (part = "free" /\ call[c] = Idle)

\* OwnerIsCommitted and ReadsSeeSyncs of clients that call one at a time: the inode
\* of the owner is what the calls define, and a read at any server where the file is
\* not laminated sees all that was synced and nothing that was truncated.
SerialConsistent ==
    /\ [](part = "serial" => Serial!OwnerIsCommitted)
    /\ [][\A c \in {c1, c2} : (part = "serial" /\ Serial!ReadReturns(c) /\ ~lam[AtOwnerAndOther[c]])
               => ret'[c].ext = ref.ext]_vars

\* ImplementsAtomicFile of clients that also let the broadcasts arrive: the servers
\* behave like one copy of the file.
SettledImplementsAtomicFile ==
    /\ part = "settled" => Settled!AF!Init
    /\ [][part = "settled" => Settled!AF!Next \/ UNCHANGED Settled!AF!avars]_vars
=============================================================================
