------------------------------ MODULE AtomicFile ------------------------------
(***************************************************************************)
(* What the servers promise the clients about one file: every call takes   *)
(* effect in one step, on one copy of the file.  docs/assumptions.rst      *)
(* promises it to programs that synchronise: synced data is visible to     *)
(* every process, truncation synchronises, and a laminated file is         *)
(* read-only.                                                              *)
(***************************************************************************)
EXTENDS FileData

VARIABLES
    file,  \* the file
    call,  \* the call each client is in
    ret    \* what the last call of each client returned

avars == <<file, call, ret>>

File    == [exists : BOOLEAN, lam : BOOLEAN, size : Sizes, ext : Contents]
NoFile  == [exists |-> FALSE, lam |-> FALSE, size |-> 0, ext |-> Empty]
NewFile == [exists |-> TRUE, lam |-> FALSE, size |-> 0, ext |-> Empty]

\* The file after a call that succeeded.
Effect(f, c) ==
    CASE c.op = "create"   -> NewFile
      [] c.op = "laminate" -> [f EXCEPT !.lam = TRUE]
      [] c.op = "unlink"   -> NoFile
      [] c.op = "truncate" -> [f EXCEPT !.size = c.size, !.ext = Cut(@, c.size)]
      [] c.op = "sync"     -> [f EXCEPT !.size = Max2(@, c.last + 1),
                                        !.ext = Write(@, c.first, c.last, c.data)]
      [] OTHER             -> f

\* May the call succeed on this file?
Allowed(f, c) ==
    CASE c.op = "create" -> ~f.exists
      [] c.op = "unlink" -> TRUE
      [] c.op \in {"truncate", "sync"} -> f.exists /\ ~f.lam
      [] OTHER -> f.exists

\* What a successful call returns.
Found(f, c) ==
    CASE c.op = "read" -> AnswerExt(f.ext)
      [] c.op = "size" -> AnswerSize(f.size)
      [] OTHER -> Answer(TRUE)

Init ==
    /\ file = NoFile
    /\ call = [c \in Clients |-> Idle]
    /\ ret = [c \in Clients |-> Answer(TRUE)]

Call(c) ==
    /\ call[c] = Idle
    /\ \E op \in Calls : call' = [call EXCEPT ![c] = op]
    /\ UNCHANGED <<file, ret>>

Return(c) ==
    /\ call[c] # Idle
    /\ call' = [call EXCEPT ![c] = Idle]
    /\ IF Allowed(file, call[c])
       THEN /\ file' = Effect(file, call[c])
            /\ ret' = [ret EXCEPT ![c] = Found(file, call[c])]
       ELSE /\ ret' = [ret EXCEPT ![c] = Answer(FALSE)]
            /\ UNCHANGED file

Next == \E c \in Clients : Call(c) \/ Return(c)

Spec == Init /\ [][Next]_avars
=============================================================================
