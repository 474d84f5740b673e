---------------------------- MODULE FileStorage ----------------------------
(***************************************************************************)
(* fileStorage (packages/license-client/src/storage.ts): the state file    *)
(* replaced by writing a temporary file and renaming it.  The temporary    *)
(* file is named after the process, so callers of one process share it.    *)
(*                                                                         *)
(* Directory entries lead to files, and an open file survives the loss of  *)
(* its name.  writeFile opens and truncates, then writes; readFile opens,  *)
(* then reads.  Each of these runs on the thread pool, so those of two     *)
(* callers interleave even in one process.                                 *)
(***************************************************************************)
EXTENDS Naturals, FiniteSets

CONSTANTS
    Callers,    \* callers of the storage, each one operation at a time
    Process,    \* Process[c]: the process that c runs in
    States,     \* the states they write
    NFiles      \* bound: files that exist at the same time

\* Enough for one at the path, a temporary and an open one of each caller.
ASSUME FilesAssumption ==
    IsFiniteSet(Callers) /\ NFiles \in Nat /\ NFiles >= 2 * Cardinality(Callers)

Procs == {Process[c] : c \in Callers}
Files == 1 .. NFiles

VARIABLES
    path,       \* the file the state path leads to, 0 if there is none
    tmp,        \* the file each process's temporary name leads to, or 0
    content,    \* "empty", a state, or "torn"
    op          \* the operation of each caller, with the file it has open

vars == <<path, tmp, content, op>>

Contents == {"empty", "torn"} \cup States
NoOp == [at |-> "idle", v |-> "null", file |-> 0]
Op == [at : {"idle", "open", "write", "rename", "unlink", "openRead", "read", "done"},
       v : {"null"} \cup Contents, file : 0 .. NFiles]

FileTypeOK ==
    /\ path \in 0 .. NFiles
    /\ tmp \in [Procs -> 0 .. NFiles]
    /\ content \in [Files -> Contents]
    /\ op \in [Callers -> Op]
    /\ \A p \in Procs : tmp[p] # 0 => tmp[p] # path

Init ==
    /\ path = 0
    /\ tmp = [p \in Procs |-> 0]
    /\ content = [f \in Files |-> "empty"]
    /\ op = [c \in Callers |-> NoOp]

\* Files that have a name or are open, and a free one.
InUse == {path} \cup {tmp[p] : p \in Procs} \cup {op[c].file : c \in Callers}
Free == CHOOSE f \in Files : f \notin InUse

\* Whose temporary name c uses.  Mutant: the same in all processes.
OneTmp(c) == CHOOSE p \in Procs : TRUE
TmpOf(c) == Process[c]

PutOp(c, o) == op' = [op EXCEPT ![c] = o]

-----------------------------------------------------------------------------
CallWrite(c, v) ==
    /\ op[c].at = "idle"
    /\ PutOp(c, [at |-> "open", v |-> v, file |-> 0])
    /\ UNCHANGED <<path, tmp, content>>

\* writeFile: the file the temporary name leads to is truncated, or made.
OpenTmp(c) ==
    LET f == IF tmp[TmpOf(c)] = 0 THEN Free ELSE tmp[TmpOf(c)] IN
    /\ op[c].at = "open"
    /\ tmp' = [tmp EXCEPT ![TmpOf(c)] = f]
    /\ content' = [content EXCEPT ![f] = "empty"]
    /\ PutOp(c, [op[c] EXCEPT !.at = "write", !.file = f])
    /\ UNCHANGED path

\* The state is written from the start of the file: over something longer its
\* end stays.
WriteTmp(c) ==
    LET f == op[c].file IN
    /\ op[c].at = "write"
    /\ \E new \in IF content[f] = "empty" THEN {op[c].v} ELSE {op[c].v, "torn"} :
         content' = [content EXCEPT ![f] = new]
    /\ PutOp(c, [op[c] EXCEPT !.at = "rename", !.file = 0])
    /\ UNCHANGED <<path, tmp>>

\* The temporary name is gone.  Mutant: it is a second name of the file.
Linked(p) == tmp
Renamed(p) == [tmp EXCEPT ![p] = 0]

\* The file is in place; without a temporary file rename throws.
Rename(c) ==
    LET p == TmpOf(c) IN
    /\ op[c].at = "rename"
    /\ IF tmp[p] = 0
       THEN UNCHANGED <<path, tmp>> /\ PutOp(c, NoOp)
       ELSE /\ path' = tmp[p]
            /\ tmp' = Renamed(p)
            /\ PutOp(c, [op[c] EXCEPT !.at = "done"])
    /\ UNCHANGED content

CallClear(c) ==
    /\ op[c].at = "idle"
    /\ PutOp(c, [NoOp EXCEPT !.at = "unlink"])
    /\ UNCHANGED <<path, tmp, content>>

Unlink(c) ==
    /\ op[c].at = "unlink"
    /\ path' = 0
    /\ PutOp(c, [op[c] EXCEPT !.at = "done"])
    /\ UNCHANGED <<tmp, content>>

CallRead(c) ==
    /\ op[c].at = "idle"
    /\ PutOp(c, [NoOp EXCEPT !.at = "openRead"])
    /\ UNCHANGED <<path, tmp, content>>

\* ENOENT is null.
OpenPath(c) ==
    /\ op[c].at = "openRead"
    /\ PutOp(c, [op[c] EXCEPT !.at = IF path = 0 THEN "done" ELSE "read", !.file = path])
    /\ UNCHANGED <<path, tmp, content>>

ReadPath(c) ==
    /\ op[c].at = "read"
    /\ PutOp(c, [at |-> "done", v |-> content[op[c].file], file |-> 0])
    /\ UNCHANGED <<path, tmp, content>>

Return(c) ==
    /\ op[c].at = "done"
    /\ PutOp(c, NoOp)
    /\ UNCHANGED <<path, tmp, content>>

\* A process dies at any point; a write in progress leaves a part.
Crash(p) ==
    /\ \E c \in Callers : Process[c] = p /\ op[c].at # "idle"
    /\ op' = [c \in Callers |-> IF Process[c] = p THEN NoOp ELSE op[c]]
    /\ \E cut \in SUBSET {op[c].file : c \in {d \in Callers : Process[d] = p /\ op[d].at = "write"}} :
         content' = [f \in Files |-> IF f \in cut THEN "torn" ELSE content[f]]
    /\ UNCHANGED <<path, tmp>>

Next ==
    \/ \E c \in Callers :
         \/ \E v \in States : CallWrite(c, v)
         \/ OpenTmp(c) \/ WriteTmp(c) \/ Rename(c)
         \/ CallClear(c) \/ Unlink(c)
         \/ CallRead(c) \/ OpenPath(c) \/ ReadPath(c)
         \/ Return(c)
    \/ \E p \in Procs : Crash(p)

Spec == Init /\ [][Next]_vars

-----------------------------------------------------------------------------
(* The file is an atomic store, as long as the writes of one process take  *)
(* turns.  No line of the client makes them: two calls of one LicenseClient *)
(* may write at the same time, and the second then empties the file that   *)
(* the first is about to rename.                                           *)

\* Between the opening of the temporary file and its renaming.
Writing(c) == op[c].at \in {"write", "rename"}

\* Only one caller of a process is there; the others may be anywhere else in a
\* write, in a read or in a clear.
WritesApart ==
    \A c, d \in Callers : c # d /\ Process[c] = Process[d] => ~(Writing(c) /\ Writing(d))

\* The behaviours of Spec in which that is so.
TurnsSpec == Init /\ [][Next /\ WritesApart']_vars

\* A write takes effect with its rename, a read when it opens the file.
AbstractOp(o) ==
    CASE o.at \in {"open", "write", "rename", "unlink"} -> [at |-> "put", v |-> o.v]
      [] o.at = "openRead" -> [at |-> "get", v |-> "null"]
      [] o.at = "read" -> [at |-> "done", v |-> content[o.file]]
      [] OTHER -> [at |-> o.at, v |-> o.v]

Store == INSTANCE AtomicStore WITH
    value <- IF path = 0 THEN "null" ELSE content[path],
    op <- [c \in Callers |-> AbstractOp(op[c])]

\* Writes, clears and reads take effect at one instant, those of callers in one
\* process and of several processes, any of which may die at any point: nobody
\* ever reads a part of a state, or a state that was not stored when the read
\* opened the file.  For behaviours in which WritesApart holds.
ImplementsAtomicStore == Store!Spec
=============================================================================
