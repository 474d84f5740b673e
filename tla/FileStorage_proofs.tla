------------------------- MODULE FileStorage_proofs -------------------------
(***************************************************************************)
(* Proofs about FileStorage for any callers, spread over processes in any  *)
(* way, any states and any number of files.  That it is an atomic store    *)
(* is proved of the behaviours in which the writes of one process take     *)
(* turns: callers of one process may otherwise overlap as they like.       *)
(***************************************************************************)
EXTENDS FileStorage, FiniteSetTheorems, TLAPS

\* A caller has a file open between the two steps of writeFile and of readFile
\* only, and writes states.
OpGood(c) ==
    /\ op[c].at \in {"write", "read"} => op[c].file \in Files
    /\ op[c].at \notin {"write", "read"} => op[c].file = 0
    /\ op[c].at \in {"open", "write", "rename"} => op[c].v \in States
    /\ op[c].at \in {"unlink", "openRead"} => op[c].v = "null"

\* Two processes never have the same file under their temporary names.
OwnTmp == \A p, q \in Procs : p # q /\ tmp[p] # 0 => tmp[p] # tmp[q]

FileInv == FileTypeOK /\ OwnTmp /\ \A c \in Callers : OpGood(c)

\* What is written is the temporary file of the process, empty before and whole
\* after the write; what is read is nobody's.
Private(c) ==
    /\ op[c].at = "write" => op[c].file = tmp[Process[c]] /\ content[op[c].file] = "empty"
    /\ op[c].at = "rename" => tmp[Process[c]] # 0 /\ content[tmp[Process[c]]] = op[c].v
    /\ op[c].at = "read" => \A p \in Procs : op[c].file # tmp[p]

StoreInv == WritesApart /\ FileInv /\ \A c \in Callers : Private(c)

-----------------------------------------------------------------------------
(* Files                                                                   *)

\* Constants in the form the provers use.
LEMMA Constants == NFiles \in Nat /\ 0 \in 0 .. NFiles /\ Files \subseteq 0 .. NFiles
  BY FilesAssumption DEF Files

\* The values of a function on a finite set are no more than its arguments.
LEMMA ImageBound ==
    ASSUME NEW S, IsFiniteSet(S), NEW f
    PROVE  /\ IsFiniteSet({f[x] : x \in S})
           /\ Cardinality({f[x] : x \in S}) <= Cardinality(S)
  <1> DEFINE T == {f[x] : x \in S}
             g == [x \in S |-> f[x]]
  <1>1. g \in Surjection(S, T)
    BY DEF Surjection
  <1> QED
    BY <1>1, FS_Surjection

\* A set with more elements than another has one of its own.
LEMMA OneMore ==
    ASSUME NEW S, IsFiniteSet(S), NEW T, IsFiniteSet(T), Cardinality(T) < Cardinality(S)
    PROVE  \E x \in S : x \notin T
  <1> SUFFICES ASSUME S \subseteq T PROVE FALSE
    OBVIOUS
  <1>1. Cardinality(S) <= Cardinality(T)
    BY FS_Subset
  <1>2. Cardinality(S) \in Nat /\ Cardinality(T) \in Nat
    BY FS_CardinalityType
  <1> QED
    BY <1>1, <1>2

\* The union of two finite sets is no larger than both together.
LEMMA UnionBound ==
    ASSUME NEW S, IsFiniteSet(S), NEW T, IsFiniteSet(T)
    PROVE  IsFiniteSet(S \cup T) /\ Cardinality(S \cup T) <= Cardinality(S) + Cardinality(T)
  <1>1. /\ IsFiniteSet(S \cup T)
        /\ Cardinality(S \cup T) = Cardinality(S) + Cardinality(T) - Cardinality(S \cap T)
    BY FS_Union
  <1>2. IsFiniteSet(S \cap T)
    BY FS_Intersection
  <1>3. Cardinality(S \cap T) \in Nat /\ Cardinality(S) \in Nat /\ Cardinality(T) \in Nat
    BY <1>2, FS_CardinalityType
  <1> QED
    BY <1>1, <1>3

\* A caller that has nothing open and whose process has no temporary file finds
\* a file that has neither a name nor a reader or writer.
LEMMA FreeFile ==
    ASSUME NEW c \in Callers, tmp[TmpOf(c)] = 0, op[c].file = 0
    PROVE  Free \in Files /\ Free \notin InUse
  <1> DEFINE others == Callers \ {c}
             names == [d \in Callers |-> tmp[Process[d]]]
             open == [d \in Callers |-> op[d].file]
             named == {names[d] : d \in others}
             opened == {open[d] : d \in others}
             used == {path} \cup (named \cup opened)
             n == Cardinality(Callers)
  <1>1. IsFiniteSet(Callers) /\ n \in Nat /\ NFiles \in Nat /\ NFiles >= 2 * n
    BY FilesAssumption, FS_CardinalityType
  <1>2. IsFiniteSet(others) /\ Cardinality(others) = n - 1
    BY <1>1, FS_RemoveElement
  <1>3. /\ IsFiniteSet(named) /\ IsFiniteSet(opened)
        /\ Cardinality(named) <= n - 1 /\ Cardinality(opened) <= n - 1
    <2> HIDE DEF others, names, open, n
    <2> QED
      BY <1>2, ImageBound
  <1>4. Cardinality(named) \in Nat /\ Cardinality(opened) \in Nat
    <2> HIDE DEF named, opened
    <2> QED
      BY <1>3, FS_CardinalityType
  <1>5. /\ IsFiniteSet(named \cup opened) /\ Cardinality(named \cup opened) \in Nat
        /\ Cardinality(named \cup opened) <= (n - 1) + (n - 1)
    <2> HIDE DEF named, opened, n
    <2>1. /\ IsFiniteSet(named \cup opened)
          /\ Cardinality(named \cup opened) <= Cardinality(named) + Cardinality(opened)
      BY <1>3, UnionBound
    <2>2. Cardinality(named \cup opened) \in Nat
      BY <2>1, FS_CardinalityType
    <2> QED
      BY <1>1, <1>3, <1>4, <2>1, <2>2
  <1>6. IsFiniteSet(used) /\ Cardinality(used) \in Nat /\ Cardinality(used) <= (n - 1) + (n - 1) + 1
    <2> HIDE DEF named, opened, n
    <2>1. IsFiniteSet({path}) /\ Cardinality({path}) = 1
      BY FS_Singleton
    <2>2. IsFiniteSet(used) /\ Cardinality(used) <= 1 + Cardinality(named \cup opened)
      BY <1>5, <2>1, UnionBound
    <2>3. Cardinality(used) \in Nat
      BY <2>2, FS_CardinalityType
    <2> QED
      BY <1>1, <1>5, <2>2, <2>3
  <1>7. IsFiniteSet(Files) /\ Cardinality(Files) = NFiles
    BY <1>1, FS_Interval DEF Files
  <1>8. \E f \in Files : f \notin used
    <2> HIDE DEF used, n
    <2>1. Cardinality(used) < Cardinality(Files)
      BY <1>1, <1>6, <1>7
    <2> QED
      BY <1>6, <1>7, <2>1, OneMore
  <1>9. ASSUME NEW f \in Files, f \notin used PROVE f \notin InUse
    <2>1. f # 0
      BY <1>1 DEF Files
    <2>2. ASSUME NEW p \in Procs PROVE f # tmp[p]
      <3>1. PICK d \in Callers : p = Process[d]
        BY DEF Procs
      <3>2. CASE d = c
        BY <2>1, <3>1, <3>2 DEF TmpOf
      <3>3. CASE d # c
        BY <1>9, <3>1, <3>3
      <3> QED
        BY <3>2, <3>3
    <2>3. ASSUME NEW d \in Callers PROVE f # op[d].file
      BY <1>9, <2>1
    <2> QED
      BY <1>9, <2>2, <2>3 DEF InUse
  <1>10. \E f \in Files : f \notin InUse
    BY <1>8, <1>9
  <1> QED
    BY <1>10 DEF Free

-----------------------------------------------------------------------------
(* Type correctness                                                        *)

\* A step of one caller that touches no file.
LEMMA OpMoves ==
    ASSUME FileInv, NEW c \in Callers, NEW o \in Op, PutOp(c, o),
           UNCHANGED <<path, tmp, content>>,
           o.at \in {"write", "read"} => o.file \in Files,
           o.at \notin {"write", "read"} => o.file = 0,
           o.at \in {"open", "write", "rename"} => o.v \in States,
           o.at \in {"unlink", "openRead"} => o.v = "null"
    PROVE  FileInv'
  <1>1. op'[c] = o /\ \A d \in Callers : d # c => op'[d] = op[d]
    BY DEF PutOp, FileInv, FileTypeOK
  <1>2. op' \in [Callers -> Op]
    BY DEF PutOp, FileInv, FileTypeOK
  <1>3. FileTypeOK'
    BY <1>2 DEF FileInv, FileTypeOK
  <1>4. OwnTmp'
    BY DEF FileInv, OwnTmp
  <1>5. ASSUME NEW d \in Callers PROVE OpGood(d)'
    <2>1. CASE d = c
      BY <1>1, <2>1 DEF OpGood
    <2>2. CASE d # c
      BY <1>1, <2>2 DEF FileInv, OpGood
    <2> QED
      BY <2>1, <2>2
  <1> QED
    BY <1>3, <1>4, <1>5 DEF FileInv

\* The operations that clears and reads begin with, and none.
LEMMA BegunEmpty ==
    /\ NoOp \in Op /\ NoOp.at = "idle" /\ NoOp.file = 0 /\ NoOp.v = "null"
    /\ [NoOp EXCEPT !.at = "unlink"] \in Op
    /\ [NoOp EXCEPT !.at = "unlink"] = [at |-> "unlink", v |-> "null", file |-> 0]
    /\ [NoOp EXCEPT !.at = "openRead"] \in Op
    /\ [NoOp EXCEPT !.at = "openRead"] = [at |-> "openRead", v |-> "null", file |-> 0]
  BY Constants DEF NoOp, Op, Contents

\* Calls and returns keep the invariant.
LEMMA CallsKeep ==
    ASSUME FileInv, NEW c \in Callers,
           \/ \E v \in States : CallWrite(c, v)
           \/ CallClear(c) \/ CallRead(c) \/ Return(c)
    PROVE  FileInv'
  <1>1. ASSUME NEW v \in States, CallWrite(c, v) PROVE FileInv'
    <2> DEFINE o == [at |-> "open", v |-> v, file |-> 0]
    <2>1. o \in Op /\ o.at = "open" /\ o.v = v /\ o.file = 0
      BY Constants DEF Op, Contents
    <2>2. PutOp(c, o) /\ UNCHANGED <<path, tmp, content>>
      BY <1>1 DEF CallWrite
    <2> HIDE DEF o
    <2> QED
      BY <2>1, <2>2, OpMoves
  <1>2. CASE CallClear(c)
    <2> DEFINE o == [NoOp EXCEPT !.at = "unlink"]
    <2>1. o \in Op /\ o.at = "unlink" /\ o.v = "null" /\ o.file = 0
      BY BegunEmpty
    <2>2. PutOp(c, o) /\ UNCHANGED <<path, tmp, content>>
      BY <1>2 DEF CallClear
    <2> HIDE DEF o
    <2> QED
      BY <2>1, <2>2, OpMoves
  <1>3. CASE CallRead(c)
    <2> DEFINE o == [NoOp EXCEPT !.at = "openRead"]
    <2>1. o \in Op /\ o.at = "openRead" /\ o.v = "null" /\ o.file = 0
      BY BegunEmpty
    <2>2. PutOp(c, o) /\ UNCHANGED <<path, tmp, content>>
      BY <1>3 DEF CallRead
    <2> HIDE DEF o
    <2> QED
      BY <2>1, <2>2, OpMoves
  <1>4. CASE Return(c)
    <2>1. PutOp(c, NoOp) /\ UNCHANGED <<path, tmp, content>>
      BY <1>4 DEF Return
    <2> QED
      BY <2>1, BegunEmpty, OpMoves
  <1> QED
    BY <1>1, <1>2, <1>3, <1>4

\* readFile keeps it.
LEMMA ReadsKeep ==
    ASSUME FileInv, NEW c \in Callers, OpenPath(c) \/ ReadPath(c)
    PROVE  FileInv'
  <1>1. op[c] \in Op /\ path \in 0 .. NFiles /\ content \in [Files -> Contents] /\ OpGood(c)
    BY DEF FileInv, FileTypeOK
  <1>2. CASE OpenPath(c)
    <2> DEFINE o == [op[c] EXCEPT !.at = IF path = 0 THEN "done" ELSE "read", !.file = path]
    <2>1. o.at = (IF path = 0 THEN "done" ELSE "read") /\ o.file = path /\ o \in Op
      BY <1>1 DEF Op
    <2>2. path # 0 => path \in Files
      BY <1>1, Constants DEF Files
    <2>3. PutOp(c, o) /\ UNCHANGED <<path, tmp, content>>
      BY <1>2 DEF OpenPath
    <2> HIDE DEF o
    <2> QED
      BY <2>1, <2>2, <2>3, OpMoves
  <1>3. CASE ReadPath(c)
    <2> DEFINE o == [at |-> "done", v |-> content[op[c].file], file |-> 0]
    <2>1. op[c].file \in Files
      BY <1>1, <1>3 DEF ReadPath, OpGood
    <2>2. o.at = "done" /\ o.file = 0 /\ o \in Op
      BY <1>1, <2>1, Constants DEF Op
    <2>3. PutOp(c, o) /\ UNCHANGED <<path, tmp, content>>
      BY <1>3 DEF ReadPath
    <2> HIDE DEF o
    <2> QED
      BY <2>2, <2>3, OpMoves
  <1> QED
    BY <1>2, <1>3

\* The file that c opens for writing is its temporary file, or a free one.
LEMMA OpenedFile ==
    ASSUME FileInv, NEW c \in Callers, OpenTmp(c)
    PROVE  \E f \in Files :
             /\ f = tmp[Process[c]] \/ (tmp[Process[c]] = 0 /\ f \notin InUse)
             /\ tmp' = [tmp EXCEPT ![Process[c]] = f]
             /\ content' = [content EXCEPT ![f] = "empty"]
             /\ op' = [op EXCEPT ![c] = [op[c] EXCEPT !.at = "write", !.file = f]]
             /\ path' = path /\ op[c].at = "open" /\ Process[c] \in Procs
  <1> DEFINE f == IF tmp[TmpOf(c)] = 0 THEN Free ELSE tmp[TmpOf(c)]
  <1>1. Process[c] \in Procs /\ tmp \in [Procs -> 0 .. NFiles]
    BY DEF FileInv, FileTypeOK, Procs
  <1>2. op[c].at = "open" /\ op[c].file = 0
    BY DEF OpenTmp, FileInv, OpGood
  <1>3. f \in Files /\ (f = tmp[Process[c]] \/ (tmp[Process[c]] = 0 /\ f \notin InUse))
    <2>1. CASE tmp[TmpOf(c)] = 0
      BY <1>2, <2>1, FreeFile DEF TmpOf
    <2>2. CASE tmp[TmpOf(c)] # 0
      BY <1>1, <2>2, Constants DEF TmpOf, Files
    <2> QED
      BY <2>1, <2>2
  <1>4. /\ tmp' = [tmp EXCEPT ![Process[c]] = f]
        /\ content' = [content EXCEPT ![f] = "empty"]
        /\ op' = [op EXCEPT ![c] = [op[c] EXCEPT !.at = "write", !.file = f]]
        /\ path' = path
    BY DEF OpenTmp, TmpOf, PutOp
  <1> HIDE DEF f
  <1> QED
    BY <1>1, <1>2, <1>3, <1>4

\* writeFile keeps it: the file that is opened is nobody else's.
LEMMA OpenTmpKeeps ==
    ASSUME FileInv, NEW c \in Callers, OpenTmp(c)
    PROVE  FileInv'
  <1>1. PICK f \in Files :
             /\ f = tmp[Process[c]] \/ (tmp[Process[c]] = 0 /\ f \notin InUse)
             /\ tmp' = [tmp EXCEPT ![Process[c]] = f]
             /\ content' = [content EXCEPT ![f] = "empty"]
             /\ op' = [op EXCEPT ![c] = [op[c] EXCEPT !.at = "write", !.file = f]]
             /\ path' = path /\ op[c].at = "open" /\ Process[c] \in Procs
    BY OpenedFile
  <1>2. FileTypeOK /\ OwnTmp /\ op[c] \in Op /\ OpGood(c)
    BY DEF FileInv, FileTypeOK
  <1>3. f # 0 /\ f \in 0 .. NFiles
    BY Constants DEF Files
  <1>4. f # path /\ \A p \in Procs : p # Process[c] => tmp[p] # f
    BY <1>1, <1>2, <1>3 DEF InUse, FileTypeOK, OwnTmp
  <1>5. /\ tmp' \in [Procs -> 0 .. NFiles] /\ tmp'[Process[c]] = f
        /\ \A p \in Procs : p # Process[c] => tmp'[p] = tmp[p]
    BY <1>1, <1>2, <1>3 DEF FileTypeOK
  <1>6. content' \in [Files -> Contents]
    BY <1>1, <1>2 DEF FileTypeOK, Contents
  <1>7. [op[c] EXCEPT !.at = "write", !.file = f] \in Op
    BY <1>2, <1>3 DEF Op
  <1>8. op' \in [Callers -> Op] /\ \A d \in Callers : d # c => op'[d] = op[d]
    BY <1>1, <1>2, <1>7 DEF FileTypeOK
  <1>9. op'[c].at = "write" /\ op'[c].file = f /\ op'[c].v = op[c].v
    <2>1. op'[c] = [op[c] EXCEPT !.at = "write", !.file = f]
      BY <1>1, <1>2 DEF FileTypeOK
    <2> QED
      BY <1>2, <2>1 DEF Op
  <1>10. FileTypeOK'
    BY <1>1, <1>2, <1>4, <1>5, <1>6, <1>8 DEF FileTypeOK
  <1>11. OwnTmp'
    BY <1>2, <1>4, <1>5 DEF OwnTmp
  <1>12. ASSUME NEW d \in Callers PROVE OpGood(d)'
    <2>1. CASE d = c
      BY <1>1, <1>2, <1>9, <2>1 DEF OpGood
    <2>2. CASE d # c
      BY <1>8, <2>2 DEF FileInv, OpGood
    <2> QED
      BY <2>1, <2>2
  <1> QED
    BY <1>10, <1>11, <1>12 DEF FileInv

\* What a write leaves in its file.
LEMMA WrittenFile ==
    ASSUME FileInv, NEW c \in Callers, WriteTmp(c)
    PROVE  /\ op[c].at = "write" /\ op[c].file \in Files /\ op[c].v \in States
           /\ \E new \in {op[c].v, "torn"} :
                /\ content[op[c].file] = "empty" => new = op[c].v
                /\ content' = [content EXCEPT ![op[c].file] = new]
           /\ op' = [op EXCEPT ![c] = [op[c] EXCEPT !.at = "rename", !.file = 0]]
           /\ path' = path /\ tmp' = tmp
  <1>1. op[c].at = "write" /\ op[c].file \in Files /\ op[c].v \in States
    BY DEF WriteTmp, FileInv, OpGood
  <1>2. PICK new \in IF content[op[c].file] = "empty" THEN {op[c].v} ELSE {op[c].v, "torn"} :
             content' = [content EXCEPT ![op[c].file] = new]
    BY DEF WriteTmp
  <1>3. new \in {op[c].v, "torn"} /\ (content[op[c].file] = "empty" => new = op[c].v)
    BY <1>2
  <1> QED
    BY <1>1, <1>2, <1>3 DEF WriteTmp, PutOp

\* The write keeps the invariant: it leaves a state or a part of one.
LEMMA WriteTmpKeeps ==
    ASSUME FileInv, NEW c \in Callers, WriteTmp(c)
    PROVE  FileInv'
  <1>1. /\ op[c].file \in Files /\ op[c].v \in States
        /\ op' = [op EXCEPT ![c] = [op[c] EXCEPT !.at = "rename", !.file = 0]]
        /\ path' = path /\ tmp' = tmp
    BY WrittenFile
  <1>2. PICK new \in {op[c].v, "torn"} : content' = [content EXCEPT ![op[c].file] = new]
    BY WrittenFile
  <1>3. FileTypeOK /\ OwnTmp /\ op[c] \in Op
    BY DEF FileInv, FileTypeOK
  <1>4. content' \in [Files -> Contents]
    BY <1>1, <1>2, <1>3 DEF FileTypeOK, Contents
  <1>5. [op[c] EXCEPT !.at = "rename", !.file = 0] \in Op
    BY <1>3, Constants DEF Op
  <1>6. op' \in [Callers -> Op] /\ \A d \in Callers : d # c => op'[d] = op[d]
    BY <1>1, <1>3, <1>5 DEF FileTypeOK
  <1>7. op'[c].at = "rename" /\ op'[c].file = 0 /\ op'[c].v = op[c].v
    <2>1. op'[c] = [op[c] EXCEPT !.at = "rename", !.file = 0]
      BY <1>1, <1>3 DEF FileTypeOK
    <2> QED
      BY <1>3, <2>1 DEF Op
  <1>8. FileTypeOK'
    BY <1>1, <1>3, <1>4, <1>6 DEF FileTypeOK
  <1>9. OwnTmp'
    BY <1>1, <1>3 DEF OwnTmp
  <1>10. ASSUME NEW d \in Callers PROVE OpGood(d)'
    <2>1. CASE d = c
      BY <1>1, <1>7, <2>1 DEF OpGood
    <2>2. CASE d # c
      BY <1>6, <2>2 DEF FileInv, OpGood
    <2> QED
      BY <2>1, <2>2
  <1> QED
    BY <1>8, <1>9, <1>10 DEF FileInv

\* A rename takes the temporary file's name away, so path and temporary names
\* still lead to different files; without a temporary file it does nothing.
LEMMA RenameKeeps ==
    ASSUME FileInv, NEW c \in Callers, Rename(c)
    PROVE  FileInv'
  <1>1. FileTypeOK /\ OwnTmp /\ op[c] \in Op /\ OpGood(c) /\ Process[c] \in Procs
    BY DEF FileInv, FileTypeOK, Procs
  <1>2. op[c].at = "rename" /\ op[c].file = 0 /\ content' = content
    BY <1>1 DEF Rename, OpGood
  <1>3. CASE tmp[Process[c]] = 0
    <2>1. PutOp(c, NoOp) /\ UNCHANGED <<path, tmp, content>>
      BY <1>3 DEF Rename, TmpOf
    <2> QED
      BY <2>1, BegunEmpty, OpMoves
  <1>4. CASE tmp[Process[c]] # 0
    <2> DEFINE p == Process[c]
               o == [op[c] EXCEPT !.at = "done"]
    <2>1. /\ path' = tmp[p] /\ tmp' = [tmp EXCEPT ![p] = 0]
          /\ op' = [op EXCEPT ![c] = o]
      BY <1>4 DEF Rename, TmpOf, Renamed, PutOp
    <2>2. o \in Op /\ o.at = "done" /\ o.file = 0
      BY <1>1, <1>2 DEF Op
    <2> HIDE DEF o
    <2>3. /\ tmp' \in [Procs -> 0 .. NFiles] /\ tmp'[p] = 0
          /\ \A q \in Procs : q # p => tmp'[q] = tmp[q]
      BY <1>1, <2>1, Constants DEF FileTypeOK
    <2>4. path' \in 0 .. NFiles /\ path' # 0
      BY <1>1, <1>4, <2>1 DEF FileTypeOK
    <2>5. \A q \in Procs : tmp'[q] # 0 => tmp'[q] # path'
      BY <1>1, <1>4, <2>1, <2>3 DEF OwnTmp
    <2>6. op' \in [Callers -> Op] /\ op'[c] = o /\ \A d \in Callers : d # c => op'[d] = op[d]
      BY <1>1, <2>1, <2>2 DEF FileTypeOK
    <2>7. FileTypeOK'
      BY <1>1, <1>2, <2>3, <2>4, <2>5, <2>6 DEF FileTypeOK
    <2>8. OwnTmp'
      BY <1>1, <2>3 DEF OwnTmp
    <2>9. ASSUME NEW d \in Callers PROVE OpGood(d)'
      <3>1. CASE d = c
        BY <2>2, <2>6, <3>1 DEF OpGood
      <3>2. CASE d # c
        BY <2>6, <3>2 DEF FileInv, OpGood
      <3> QED
        BY <3>1, <3>2
    <2> QED
      BY <2>7, <2>8, <2>9 DEF FileInv
  <1> QED
    BY <1>3, <1>4

\* An unlink leaves the state path without a file.
LEMMA UnlinkKeeps ==
    ASSUME FileInv, NEW c \in Callers, Unlink(c)
    PROVE  FileInv'
  <1>1. FileTypeOK /\ OwnTmp /\ op[c] \in Op /\ OpGood(c)
    BY DEF FileInv, FileTypeOK
  <1> DEFINE o == [op[c] EXCEPT !.at = "done"]
  <1>2. path' = 0 /\ tmp' = tmp /\ content' = content /\ op' = [op EXCEPT ![c] = o]
    BY DEF Unlink, PutOp
  <1>3. op[c].file = 0
    BY <1>1 DEF Unlink, OpGood
  <1>4. o \in Op /\ o.at = "done" /\ o.file = 0
    BY <1>1, <1>3 DEF Op
  <1> HIDE DEF o
  <1>5. op' \in [Callers -> Op] /\ op'[c] = o /\ \A d \in Callers : d # c => op'[d] = op[d]
    BY <1>1, <1>2, <1>4 DEF FileTypeOK
  <1>6. FileTypeOK'
    BY <1>1, <1>2, <1>5, Constants DEF FileTypeOK
  <1>7. OwnTmp'
    BY <1>1, <1>2 DEF OwnTmp
  <1>8. ASSUME NEW d \in Callers PROVE OpGood(d)'
    <2>1. CASE d = c
      BY <1>4, <1>5, <2>1 DEF OpGood
    <2>2. CASE d # c
      BY <1>5, <2>2 DEF FileInv, OpGood
    <2> QED
      BY <2>1, <2>2
  <1> QED
    BY <1>6, <1>7, <1>8 DEF FileInv

\* What a crash leaves: nothing of the process's operations, and parts of states
\* in files it was writing.
LEMMA CrashLeaves ==
    ASSUME FileInv, NEW p \in Procs, Crash(p)
    PROVE  /\ path' = path /\ tmp' = tmp
           /\ \A c \in Callers : op'[c] = IF Process[c] = p THEN NoOp ELSE op[c]
           /\ op' \in [Callers -> Op] /\ content' \in [Files -> Contents]
           /\ \A f \in Files : content'[f] # content[f] =>
                \E c \in Callers : Process[c] = p /\ op[c].at = "write" /\ op[c].file = f
  <1>1. /\ path' = path /\ tmp' = tmp
        /\ op' = [c \in Callers |-> IF Process[c] = p THEN NoOp ELSE op[c]]
    BY DEF Crash
  <1>2. PICK cut \in SUBSET {op[c].file : c \in {d \in Callers : Process[d] = p /\ op[d].at = "write"}} :
             content' = [f \in Files |-> IF f \in cut THEN "torn" ELSE content[f]]
    BY DEF Crash
  <1>3. op' \in [Callers -> Op]
    BY <1>1, BegunEmpty DEF FileInv, FileTypeOK
  <1>4. content' \in [Files -> Contents]
    BY <1>2 DEF FileInv, FileTypeOK, Contents
  <1>5. ASSUME NEW f \in Files, content'[f] # content[f]
        PROVE  \E c \in Callers : Process[c] = p /\ op[c].at = "write" /\ op[c].file = f
    <2>1. f \in cut
      BY <1>2, <1>5
    <2> QED
      BY <2>1
  <1> QED
    BY <1>1, <1>3, <1>4, <1>5

\* A crash keeps the invariant.
LEMMA CrashKeeps ==
    ASSUME FileInv, NEW p \in Procs, Crash(p)
    PROVE  FileInv'
  <1>1. /\ path' = path /\ tmp' = tmp
        /\ \A c \in Callers : op'[c] = IF Process[c] = p THEN NoOp ELSE op[c]
        /\ op' \in [Callers -> Op] /\ content' \in [Files -> Contents]
    BY CrashLeaves
  <1>2. FileTypeOK'
    BY <1>1 DEF FileInv, FileTypeOK
  <1>3. OwnTmp'
    BY <1>1 DEF FileInv, OwnTmp
  <1>4. ASSUME NEW c \in Callers PROVE OpGood(c)'
    <2>1. CASE Process[c] = p
      BY <1>1, <2>1, BegunEmpty DEF OpGood
    <2>2. CASE Process[c] # p
      BY <1>1, <2>2 DEF FileInv, OpGood
    <2> QED
      BY <2>1, <2>2
  <1> QED
    BY <1>2, <1>3, <1>4 DEF FileInv

\* Every step keeps FileInv.
LEMMA FileStep == FileInv /\ [Next]_vars => FileInv'
  <1> SUFFICES ASSUME FileInv, [Next]_vars PROVE FileInv'
    OBVIOUS
  <1>1. CASE UNCHANGED vars
    BY <1>1 DEF vars, FileInv, FileTypeOK, OwnTmp, OpGood
  <1> QED
    BY <1>1, CallsKeep, ReadsKeep, OpenTmpKeeps, WriteTmpKeeps, RenameKeeps, UnlinkKeeps,
       CrashKeeps DEF Next

\* There are no files at the start.
LEMMA FileInit == Init => FileInv
  <1> SUFFICES ASSUME Init PROVE FileInv
    OBVIOUS
  <1>1. \A c \in Callers : op[c] = NoOp
    BY DEF Init
  <1>2. FileTypeOK
    BY BegunEmpty, Constants DEF Init, FileTypeOK, Contents
  <1>3. OwnTmp
    BY DEF Init, OwnTmp
  <1>4. \A c \in Callers : OpGood(c)
    BY <1>1, BegunEmpty DEF OpGood
  <1> QED
    BY <1>2, <1>3, <1>4 DEF FileInv

\* However callers share their processes, the state path and the temporary names
\* lead to different files, and nobody opens a file that is not there.
THEOREM FilesTyped == Spec => []FileTypeOK
  <1>1. FileInv => FileTypeOK
    BY DEF FileInv
  <1> QED
    BY <1>1, FileInit, FileStep, PTL DEF Spec

-----------------------------------------------------------------------------
(* The atomic store                                                        *)

\* What the abstract store sees: ImplementsAtomicStore is Store!Spec over these.
ValueIs == IF path = 0 THEN "null" ELSE content[path]
OpsAre == [c \in Callers |-> AbstractOp(op[c])]

\* A caller whose operation, temporary file and reading others leave alone keeps
\* what is private to it.
LEMMA PrivateStays ==
    ASSUME FileInv, NEW d \in Callers, Private(d), op'[d] = op[d],
           Writing(d) =>
             /\ tmp'[Process[d]] = tmp[Process[d]]
             /\ content'[tmp[Process[d]]] = content[tmp[Process[d]]],
           \A p \in Procs : tmp'[p] \in {tmp[p], 0} \/ tmp'[p] # op[d].file
    PROVE  Private(d)'
  <1>1. op[d].at = "read" => op[d].file # 0
    BY DEF FileInv, OpGood, Files
  <1> QED
    BY <1>1 DEF Private, Writing

\* So it keeps its operation in the eyes of the abstract store.
LEMMA SameAbstract ==
    ASSUME NEW d \in Callers, op'[d] = op[d],
           op[d].at = "read" => content'[op[d].file] = content[op[d].file]
    PROVE  AbstractOp(op[d])' = AbstractOp(op[d])
  BY DEF AbstractOp

\* One operation changes, the others do not.
LEMMA OneChanges ==
    ASSUME NEW c \in Callers, NEW o, AbstractOp(op[c])' = o,
           \A d \in Callers : d # c => AbstractOp(op[d])' = AbstractOp(op[d])
    PROVE  OpsAre' = [OpsAre EXCEPT ![c] = o]
  BY DEF OpsAre

\* None does.
LEMMA NoneChanges ==
    ASSUME \A d \in Callers : AbstractOp(op[d])' = AbstractOp(op[d])
    PROVE  OpsAre' = OpsAre
  BY DEF OpsAre

\* A step of one caller that touches no file: the others keep what they have.
LEMMA OthersStay ==
    ASSUME StoreInv, NEW c \in Callers, NEW o, PutOp(c, o), UNCHANGED <<tmp, content>>,
           NEW d \in Callers, d # c
    PROVE  Private(d)' /\ AbstractOp(op[d])' = AbstractOp(op[d])
  <1>1. op'[d] = op[d]
    BY DEF PutOp, StoreInv, FileInv, FileTypeOK
  <1>2. FileInv /\ Private(d)
    BY DEF StoreInv
  <1> QED
    BY <1>1, <1>2, PrivateStays, SameAbstract

\* The operation of the caller itself.
LEMMA Puts ==
    ASSUME FileInv, NEW c \in Callers, NEW o, PutOp(c, o)
    PROVE  op'[c] = o
  BY DEF PutOp, FileInv, FileTypeOK

\* Calls and returns are those of the store.
LEMMA CallsRefine ==
    ASSUME StoreInv, NEW c \in Callers,
           \/ \E v \in States : CallWrite(c, v)
           \/ CallClear(c) \/ CallRead(c) \/ Return(c)
    PROVE  /\ \A d \in Callers : Private(d)'
           /\ ValueIs' = ValueIs
           /\ \/ \E v \in States \cup {"null"} :
                   OpsAre[c].at = "idle" /\ OpsAre' = [OpsAre EXCEPT ![c] = [at |-> "put", v |-> v]]
              \/ OpsAre[c].at = "idle" /\ OpsAre' = [OpsAre EXCEPT ![c] = [at |-> "get", v |-> "null"]]
              \/ OpsAre[c].at = "done" /\ OpsAre' = [OpsAre EXCEPT ![c] = [at |-> "idle", v |-> "null"]]
  <1>0. FileInv /\ OpsAre[c] = AbstractOp(op[c])
    BY DEF StoreInv, OpsAre
  <1>1. ASSUME NEW o, PutOp(c, o), UNCHANGED <<path, tmp, content>>,
               o.at \in {"open", "unlink", "openRead", "idle"}
        PROVE  /\ \A d \in Callers : Private(d)'
               /\ ValueIs' = ValueIs
               /\ OpsAre' = [OpsAre EXCEPT ![c] = AbstractOp(o)]
    <2>1. op'[c] = o
      BY <1>0, <1>1, Puts
    <2>2. \A d \in Callers : d # c => Private(d)' /\ AbstractOp(op[d])' = AbstractOp(op[d])
      BY <1>1, OthersStay
    <2>3. Private(c)'
      BY <1>1, <2>1 DEF Private
    <2>4. AbstractOp(op[c])' = AbstractOp(o)
      BY <1>1, <2>1 DEF AbstractOp
    <2>5. OpsAre' = [OpsAre EXCEPT ![c] = AbstractOp(o)]
      BY <2>2, <2>4, OneChanges
    <2> QED
      BY <1>1, <2>2, <2>3, <2>5 DEF ValueIs
  <1>2. ASSUME op[c].at = "idle" PROVE OpsAre[c].at = "idle"
    BY <1>0, <1>2 DEF AbstractOp
  <1>3. ASSUME op[c].at = "done" PROVE OpsAre[c].at = "done"
    BY <1>0, <1>3 DEF AbstractOp
  <1>4. ASSUME NEW v \in States, CallWrite(c, v)
        PROVE  /\ OpsAre[c].at = "idle" /\ ValueIs' = ValueIs /\ \A d \in Callers : Private(d)'
               /\ OpsAre' = [OpsAre EXCEPT ![c] = [at |-> "put", v |-> v]]
    <2> DEFINE o == [at |-> "open", v |-> v, file |-> 0]
    <2>1. PutOp(c, o) /\ UNCHANGED <<path, tmp, content>> /\ op[c].at = "idle"
      BY <1>4 DEF CallWrite
    <2>2. o.at = "open" /\ AbstractOp(o) = [at |-> "put", v |-> v]
      BY DEF AbstractOp
    <2> HIDE DEF o
    <2> QED
      BY <1>1, <1>2, <2>1, <2>2
  <1>5. ASSUME CallClear(c)
        PROVE  /\ OpsAre[c].at = "idle" /\ ValueIs' = ValueIs /\ \A d \in Callers : Private(d)'
               /\ OpsAre' = [OpsAre EXCEPT ![c] = [at |-> "put", v |-> "null"]]
    <2> DEFINE o == [NoOp EXCEPT !.at = "unlink"]
    <2>1. PutOp(c, o) /\ UNCHANGED <<path, tmp, content>> /\ op[c].at = "idle"
      BY <1>5 DEF CallClear
    <2>2. o.at = "unlink" /\ o.v = "null"
      BY BegunEmpty
    <2>3. AbstractOp(o) = [at |-> "put", v |-> "null"]
      BY <2>2 DEF AbstractOp
    <2> HIDE DEF o
    <2> QED
      BY <1>1, <1>2, <2>1, <2>2, <2>3
  <1>6. ASSUME CallRead(c)
        PROVE  /\ OpsAre[c].at = "idle" /\ ValueIs' = ValueIs /\ \A d \in Callers : Private(d)'
               /\ OpsAre' = [OpsAre EXCEPT ![c] = [at |-> "get", v |-> "null"]]
    <2> DEFINE o == [NoOp EXCEPT !.at = "openRead"]
    <2>1. PutOp(c, o) /\ UNCHANGED <<path, tmp, content>> /\ op[c].at = "idle"
      BY <1>6 DEF CallRead
    <2>2. o.at = "openRead"
      BY BegunEmpty
    <2>3. AbstractOp(o) = [at |-> "get", v |-> "null"]
      BY <2>2 DEF AbstractOp
    <2> HIDE DEF o
    <2> QED
      BY <1>1, <1>2, <2>1, <2>2, <2>3
  <1>7. ASSUME Return(c)
        PROVE  /\ OpsAre[c].at = "done" /\ ValueIs' = ValueIs /\ \A d \in Callers : Private(d)'
               /\ OpsAre' = [OpsAre EXCEPT ![c] = [at |-> "idle", v |-> "null"]]
    <2>1. PutOp(c, NoOp) /\ UNCHANGED <<path, tmp, content>> /\ op[c].at = "done"
      BY <1>7 DEF Return
    <2>2. NoOp.at = "idle" /\ NoOp.v = "null"
      BY BegunEmpty
    <2>3. AbstractOp(NoOp) = [at |-> "idle", v |-> "null"]
      BY <2>2 DEF AbstractOp
    <2> QED
      BY <1>1, <1>3, <2>1, <2>2, <2>3
  <1> QED
    BY <1>4, <1>5, <1>6, <1>7

\* A read is taken when the file is opened: what it then reads stays what was
\* stored at that time.
LEMMA ReadsRefine ==
    ASSUME StoreInv, NEW c \in Callers, OpenPath(c) \/ ReadPath(c)
    PROVE  /\ \A d \in Callers : Private(d)'
           /\ ValueIs' = ValueIs
           /\ \/ /\ OpsAre[c].at = "get"
                 /\ OpsAre' = [OpsAre EXCEPT ![c] = [at |-> "done", v |-> ValueIs]]
              \/ OpsAre' = OpsAre
  <1>1. FileInv /\ OpsAre[c] = AbstractOp(op[c]) /\ op[c] \in Op /\ OpGood(c)
    BY DEF StoreInv, FileInv, FileTypeOK, OpsAre
  <1>2. CASE OpenPath(c)
    <2> DEFINE o == [op[c] EXCEPT !.at = IF path = 0 THEN "done" ELSE "read", !.file = path]
    <2>1. PutOp(c, o) /\ UNCHANGED <<path, tmp, content>> /\ op[c].at = "openRead"
      BY <1>2 DEF OpenPath
    <2>2. /\ o.at = (IF path = 0 THEN "done" ELSE "read") /\ o.file = path
          /\ o.v = op[c].v
      BY <1>1 DEF Op
    <2> HIDE DEF o
    <2>3. op'[c] = o
      BY <1>1, <2>1, Puts
    <2>4. \A d \in Callers : d # c => Private(d)' /\ AbstractOp(op[d])' = AbstractOp(op[d])
      BY <2>1, OthersStay
    <2>5. Private(c)'
      BY <1>1, <2>1, <2>2, <2>3 DEF Private, FileInv, FileTypeOK
    <2>6. AbstractOp(op[c])' = [at |-> "done", v |-> ValueIs]
      <3>1. CASE path = 0
        BY <1>1, <2>1, <2>2, <2>3, <3>1 DEF AbstractOp, ValueIs, OpGood
      <3>2. CASE path # 0
        BY <2>1, <2>2, <2>3, <3>2 DEF AbstractOp, ValueIs
      <3> QED
        BY <3>1, <3>2
    <2>7. OpsAre' = [OpsAre EXCEPT ![c] = [at |-> "done", v |-> ValueIs]]
      BY <2>4, <2>6, OneChanges
    <2>8. OpsAre[c].at = "get"
      BY <1>1, <2>1 DEF AbstractOp
    <2> QED
      BY <2>1, <2>4, <2>5, <2>7, <2>8 DEF ValueIs
  <1>3. CASE ReadPath(c)
    <2> DEFINE o == [at |-> "done", v |-> content[op[c].file], file |-> 0]
    <2>1. PutOp(c, o) /\ UNCHANGED <<path, tmp, content>> /\ op[c].at = "read"
      BY <1>3 DEF ReadPath
    <2>2. o.at = "done" /\ o.v = content[op[c].file]
      OBVIOUS
    <2> HIDE DEF o
    <2>3. op'[c] = o
      BY <1>1, <2>1, Puts
    <2>4. \A d \in Callers : d # c => Private(d)' /\ AbstractOp(op[d])' = AbstractOp(op[d])
      BY <2>1, OthersStay
    <2>5. Private(c)'
      BY <2>2, <2>3 DEF Private
    <2>6. AbstractOp(op[c])' = AbstractOp(op[c])
      BY <2>1, <2>2, <2>3 DEF AbstractOp
    <2>7. OpsAre' = OpsAre
      BY <2>4, <2>6, NoneChanges
    <2> QED
      BY <2>1, <2>4, <2>5, <2>7 DEF ValueIs
  <1> QED
    BY <1>2, <1>3

\* Opening and writing a temporary file is not seen by the store.
LEMMA OpenTmpRefines ==
    ASSUME StoreInv, WritesApart', NEW c \in Callers, OpenTmp(c)
    PROVE  (\A d \in Callers : Private(d)') /\ ValueIs' = ValueIs /\ OpsAre' = OpsAre
  <1>1. PICK f \in Files :
             /\ f = tmp[Process[c]] \/ (tmp[Process[c]] = 0 /\ f \notin InUse)
             /\ tmp' = [tmp EXCEPT ![Process[c]] = f]
             /\ content' = [content EXCEPT ![f] = "empty"]
             /\ op' = [op EXCEPT ![c] = [op[c] EXCEPT !.at = "write", !.file = f]]
             /\ path' = path /\ op[c].at = "open" /\ Process[c] \in Procs
    BY OpenedFile DEF StoreInv
  <1>2. FileInv /\ FileTypeOK /\ OwnTmp /\ op[c] \in Op
    BY DEF StoreInv, FileInv, FileTypeOK
  <1>3. f # 0
    BY Constants DEF Files
  <1>4. /\ tmp'[Process[c]] = f /\ content'[f] = "empty"
        /\ \A p \in Procs : p # Process[c] => tmp'[p] = tmp[p]
        /\ \A g \in Files : g # f => content'[g] = content[g]
    BY <1>1, <1>2 DEF FileTypeOK
  <1>5. f # path /\ \A p \in Procs : p # Process[c] => tmp[p] # f
    BY <1>1, <1>2, <1>3 DEF InUse, FileTypeOK, OwnTmp
  <1>6. op'[c].at = "write" /\ op'[c].file = f /\ op'[c].v = op[c].v
    <2>1. op'[c] = [op[c] EXCEPT !.at = "write", !.file = f]
      BY <1>1, <1>2 DEF FileTypeOK
    <2> QED
      BY <1>2, <2>1 DEF Op
  <1>7. Private(c)'
    BY <1>4, <1>6 DEF Private
  <1>8. AbstractOp(op[c])' = AbstractOp(op[c])
    BY <1>1, <1>6 DEF AbstractOp
  <1>9. ASSUME NEW d \in Callers, d # c
        PROVE  Private(d)' /\ AbstractOp(op[d])' = AbstractOp(op[d])
    <2>1. op'[d] = op[d] /\ Private(d) /\ OpGood(d)
      BY <1>1, <1>2, <1>9 DEF StoreInv, FileInv, FileTypeOK
    <2>2. Process[d] \in Procs /\ (Writing(d) => Process[d] # Process[c])
      BY <1>6, <1>9, <2>1 DEF WritesApart, Writing, Procs
    <2>3. Writing(d) => tmp'[Process[d]] = tmp[Process[d]] /\ tmp[Process[d]] # f
      BY <1>4, <1>5, <2>2
    <2>4. Writing(d) => content'[tmp[Process[d]]] = content[tmp[Process[d]]]
      <3>1. Writing(d) => tmp[Process[d]] \in Files
        BY <1>2, <2>1, <2>2 DEF Writing, Private, OpGood, FileTypeOK, Files
      <3> QED
        BY <1>4, <2>3, <3>1
    <2>5. op[d].at = "read" => op[d].file # f
      BY <1>1, <2>1 DEF Private, InUse
    <2>6. op[d].at = "read" => content'[op[d].file] = content[op[d].file]
      BY <1>4, <2>1, <2>5 DEF OpGood
    <2>7. \A p \in Procs : tmp'[p] \in {tmp[p], 0} \/ op[d].at # "read" \/ tmp'[p] # op[d].file
      BY <1>4, <2>5
    <2>8. Private(d)'
      BY <2>1, <2>3, <2>4, <2>7 DEF Private, Writing, OpGood, Files
    <2> QED
      BY <2>1, <2>6, <2>8, SameAbstract
  <1>10. ValueIs' = ValueIs
    BY <1>1, <1>2, <1>4, <1>5 DEF ValueIs, FileTypeOK, Files
  <1> QED
    BY <1>7, <1>8, <1>9, <1>10, NoneChanges

\* Nor is the write, after which the file holds the state.
LEMMA WriteTmpRefines ==
    ASSUME StoreInv, NEW c \in Callers, WriteTmp(c)
    PROVE  (\A d \in Callers : Private(d)') /\ ValueIs' = ValueIs /\ OpsAre' = OpsAre
  <1> DEFINE f == op[c].file
  <1>1. /\ op[c].at = "write" /\ f \in Files
        /\ op' = [op EXCEPT ![c] = [op[c] EXCEPT !.at = "rename", !.file = 0]]
        /\ path' = path /\ tmp' = tmp
    BY WrittenFile DEF StoreInv
  <1>2. FileInv /\ FileTypeOK /\ OwnTmp /\ op[c] \in Op /\ Process[c] \in Procs
    BY DEF StoreInv, FileInv, FileTypeOK, Procs
  <1>3. f = tmp[Process[c]] /\ content[f] = "empty" /\ f # 0
    BY <1>1, Constants DEF StoreInv, Private, Files
  <1>4. content' = [content EXCEPT ![f] = op[c].v]
    BY <1>2, <1>3, WrittenFile
  <1>5. content'[f] = op[c].v /\ \A g \in Files : g # f => content'[g] = content[g]
    BY <1>1, <1>2, <1>4 DEF FileTypeOK
  <1>6. f # path /\ \A p \in Procs : p # Process[c] => tmp[p] # f
    BY <1>2, <1>3 DEF FileTypeOK, OwnTmp
  <1>7. op'[c].at = "rename" /\ op'[c].v = op[c].v
    <2>1. op'[c] = [op[c] EXCEPT !.at = "rename", !.file = 0]
      BY <1>1, <1>2 DEF FileTypeOK
    <2> QED
      BY <1>2, <2>1 DEF Op
  <1>8. Private(c)'
    BY <1>1, <1>3, <1>5, <1>7 DEF Private
  <1>9. AbstractOp(op[c])' = AbstractOp(op[c])
    BY <1>1, <1>7 DEF AbstractOp
  <1>10. ASSUME NEW d \in Callers, d # c
         PROVE  Private(d)' /\ AbstractOp(op[d])' = AbstractOp(op[d])
    <2>1. op'[d] = op[d] /\ Private(d) /\ OpGood(d)
      BY <1>1, <1>2, <1>10 DEF StoreInv, FileInv, FileTypeOK
    <2>2. Process[d] \in Procs /\ (Writing(d) => Process[d] # Process[c])
      BY <1>1, <1>10 DEF StoreInv, WritesApart, Writing, Procs
    <2>3. Writing(d) => tmp[Process[d]] # f
      BY <1>6, <2>2
    <2>4. Writing(d) => content'[tmp[Process[d]]] = content[tmp[Process[d]]]
      <3>1. Writing(d) => tmp[Process[d]] \in Files
        BY <1>2, <2>1, <2>2 DEF Writing, Private, OpGood, FileTypeOK, Files
      <3> QED
        BY <1>5, <2>3, <3>1
    <2>5. op[d].at = "read" => op[d].file # f /\ content'[op[d].file] = content[op[d].file]
      BY <1>2, <1>3, <1>5, <2>1 DEF Private, OpGood
    <2>6. Private(d)'
      BY <1>1, <1>2, <2>1, <2>4, PrivateStays
    <2> QED
      BY <2>1, <2>5, <2>6, SameAbstract
  <1>11. ValueIs' = ValueIs
    BY <1>1, <1>2, <1>5, <1>6 DEF ValueIs, FileTypeOK, Files
  <1> QED
    BY <1>8, <1>9, <1>10, <1>11, NoneChanges

\* A write takes effect when its file gets the name: the file that is then at
\* the path holds what the caller wrote.
LEMMA RenameRefines ==
    ASSUME StoreInv, NEW c \in Callers, Rename(c)
    PROVE  /\ \A d \in Callers : Private(d)'
           /\ OpsAre[c].at = "put" /\ ValueIs' = OpsAre[c].v
           /\ OpsAre' = [OpsAre EXCEPT ![c] = [OpsAre[c] EXCEPT !.at = "done"]]
  <1> DEFINE p == Process[c]
             o == [op[c] EXCEPT !.at = "done"]
  <1>1. FileInv /\ FileTypeOK /\ OwnTmp /\ op[c] \in Op /\ p \in Procs /\ OpsAre[c] = AbstractOp(op[c])
    BY DEF StoreInv, FileInv, FileTypeOK, Procs, OpsAre
  <1>2. op[c].at = "rename" /\ content' = content /\ tmp[p] # 0 /\ content[tmp[p]] = op[c].v
    BY DEF Rename, StoreInv, Private
  <1>3. path' = tmp[p] /\ tmp' = [tmp EXCEPT ![p] = 0] /\ op' = [op EXCEPT ![c] = o]
    BY <1>2 DEF Rename, TmpOf, Renamed, PutOp
  <1>4. o.at = "done" /\ o.v = op[c].v
    BY <1>1 DEF Op
  <1> HIDE DEF o
  <1>5. op'[c] = o /\ \A d \in Callers : d # c => op'[d] = op[d]
    BY <1>1, <1>3 DEF FileTypeOK
  <1>6. \A q \in Procs : tmp'[q] = IF q = p THEN 0 ELSE tmp[q]
    BY <1>1, <1>3 DEF FileTypeOK
  <1>7. Private(c)'
    BY <1>4, <1>5 DEF Private
  <1>8. ASSUME NEW d \in Callers, d # c
        PROVE  Private(d)' /\ AbstractOp(op[d])' = AbstractOp(op[d])
    <2>1. Process[d] \in Procs /\ (Writing(d) => Process[d] # p)
      BY <1>2, <1>8 DEF StoreInv, WritesApart, Writing, Procs
    <2>2. Writing(d) => tmp'[Process[d]] = tmp[Process[d]]
      BY <1>6, <2>1
    <2>3. \A q \in Procs : tmp'[q] \in {tmp[q], 0}
      BY <1>6
    <2>4. op'[d] = op[d] /\ Private(d)
      BY <1>5, <1>8 DEF StoreInv
    <2>5. Private(d)'
      BY <1>1, <1>2, <2>2, <2>3, <2>4, PrivateStays
    <2> QED
      BY <1>2, <2>4, <2>5, SameAbstract
  <1>9. OpsAre[c] = [at |-> "put", v |-> op[c].v]
    BY <1>1, <1>2 DEF AbstractOp
  <1>10. AbstractOp(op[c])' = [at |-> "done", v |-> op[c].v]
    BY <1>4, <1>5 DEF AbstractOp
  <1>11. [OpsAre[c] EXCEPT !.at = "done"] = [at |-> "done", v |-> op[c].v]
    BY <1>9
  <1>12. OpsAre' = [OpsAre EXCEPT ![c] = [OpsAre[c] EXCEPT !.at = "done"]]
    BY <1>8, <1>10, <1>11, OneChanges
  <1>13. ValueIs' = op[c].v
    BY <1>2, <1>3 DEF ValueIs
  <1> QED
    BY <1>7, <1>8, <1>9, <1>12, <1>13

\* A clear takes effect with its unlink.
LEMMA UnlinkRefines ==
    ASSUME StoreInv, NEW c \in Callers, Unlink(c)
    PROVE  /\ \A d \in Callers : Private(d)'
           /\ OpsAre[c].at = "put" /\ ValueIs' = OpsAre[c].v
           /\ OpsAre' = [OpsAre EXCEPT ![c] = [OpsAre[c] EXCEPT !.at = "done"]]
  <1> DEFINE o == [op[c] EXCEPT !.at = "done"]
  <1>1. FileInv /\ op[c] \in Op /\ OpsAre[c] = AbstractOp(op[c]) /\ OpGood(c)
    BY DEF StoreInv, FileInv, FileTypeOK, OpsAre
  <1>2. op[c].at = "unlink" /\ op[c].v = "null" /\ path' = 0 /\ UNCHANGED <<tmp, content>> /\ PutOp(c, o)
    BY <1>1 DEF Unlink, OpGood
  <1>3. o.at = "done" /\ o.v = "null"
    BY <1>1, <1>2 DEF Op
  <1> HIDE DEF o
  <1>4. op'[c] = o
    BY <1>1, <1>2, Puts
  <1>5. Private(c)'
    BY <1>3, <1>4 DEF Private
  <1>6. \A d \in Callers : d # c => Private(d)' /\ AbstractOp(op[d])' = AbstractOp(op[d])
    BY <1>2, OthersStay
  <1>7. OpsAre[c] = [at |-> "put", v |-> "null"]
    BY <1>1, <1>2 DEF AbstractOp
  <1>8. AbstractOp(op[c])' = [at |-> "done", v |-> "null"]
    BY <1>3, <1>4 DEF AbstractOp
  <1>9. [OpsAre[c] EXCEPT !.at = "done"] = [at |-> "done", v |-> "null"]
    BY <1>7
  <1>10. OpsAre' = [OpsAre EXCEPT ![c] = [OpsAre[c] EXCEPT !.at = "done"]]
    BY <1>6, <1>8, <1>9, OneChanges
  <1>11. ValueIs' = "null"
    BY <1>2 DEF ValueIs
  <1> QED
    BY <1>5, <1>6, <1>7, <1>10, <1>11

\* A crash leaves a part of a state in temporary files only, which the next
\* write of the process empties: nothing is stored and nobody reads it.
LEMMA CrashRefines ==
    ASSUME StoreInv, NEW p \in Procs, Crash(p)
    PROVE  /\ \A d \in Callers : Private(d)'
           /\ ValueIs' = ValueIs
           /\ \E C \in SUBSET Callers :
                OpsAre' = [c \in Callers |-> IF c \in C THEN [at |-> "idle", v |-> "null"] ELSE OpsAre[c]]
  <1>1. FileInv /\ FileTypeOK /\ OwnTmp
    BY DEF StoreInv, FileInv
  <1>2. /\ path' = path /\ tmp' = tmp
        /\ \A c \in Callers : op'[c] = IF Process[c] = p THEN NoOp ELSE op[c]
    BY <1>1, CrashLeaves
  <1>3. ASSUME NEW f \in Files, content'[f] # content[f]
        PROVE  f = tmp[p] /\ f # 0
    <2>1. PICK c \in Callers : Process[c] = p /\ op[c].at = "write" /\ op[c].file = f
      BY <1>1, <1>3, CrashLeaves
    <2> QED
      BY <2>1, Constants DEF StoreInv, Private, Files
  <1>4. ValueIs' = ValueIs
    BY <1>1, <1>2, <1>3 DEF ValueIs, FileTypeOK, Files
  <1>5. ASSUME NEW d \in Callers, Process[d] = p
        PROVE  Private(d)' /\ AbstractOp(op[d])' = [at |-> "idle", v |-> "null"]
    <2>1. op'[d].at = "idle" /\ op'[d].v = "null"
      BY <1>2, <1>5, BegunEmpty
    <2> QED
      BY <2>1 DEF Private, AbstractOp
  <1>6. ASSUME NEW d \in Callers, Process[d] # p
        PROVE  Private(d)' /\ AbstractOp(op[d])' = AbstractOp(op[d])
    <2>1. op'[d] = op[d] /\ Private(d) /\ OpGood(d) /\ Process[d] \in Procs
      BY <1>1, <1>2, <1>6 DEF StoreInv, FileInv, Procs
    <2>2. Writing(d) => content'[tmp[Process[d]]] = content[tmp[Process[d]]]
      <3>1. Writing(d) => tmp[Process[d]] \in Files
        BY <1>1, <2>1 DEF Writing, Private, OpGood, FileTypeOK, Files
      <3>2. tmp[Process[d]] # 0 => tmp[Process[d]] # tmp[p]
        BY <1>1, <1>6, <2>1 DEF OwnTmp
      <3> QED
        BY <1>3, <3>1, <3>2
    <2>3. op[d].at = "read" => content'[op[d].file] = content[op[d].file]
      BY <1>3, <2>1 DEF Private, OpGood
    <2>4. Private(d)'
      BY <1>1, <1>2, <2>1, <2>2, PrivateStays
    <2> QED
      BY <2>1, <2>3, <2>4, SameAbstract
  <1> DEFINE C == {c \in Callers : Process[c] = p}
  <1>7. OpsAre' = [c \in Callers |-> IF c \in C THEN [at |-> "idle", v |-> "null"] ELSE OpsAre[c]]
    BY <1>5, <1>6 DEF OpsAre
  <1> QED
    BY <1>4, <1>5, <1>6, <1>7

\* When writes of one process take turns, every step is a step of the store or
\* unseen by it, and keeps the invariant.
LEMMA StoreStep == StoreInv /\ [Next]_vars /\ WritesApart' => StoreInv' /\ [Store!Next]_Store!vars
  <1> SUFFICES ASSUME StoreInv, [Next]_vars, WritesApart'
               PROVE  StoreInv' /\ [Store!Next]_Store!vars
    OBVIOUS
  <1> USE DEF ValueIs, OpsAre
  <1>1. WritesApart' /\ FileInv'
    BY FileStep DEF StoreInv
  <1> SUFFICES (\A d \in Callers : Private(d)') /\ [Store!Next]_Store!vars
    BY <1>1 DEF StoreInv
  <1>2. ASSUME NEW c \in Callers,
               \/ \E v \in States : CallWrite(c, v)
               \/ CallClear(c) \/ CallRead(c) \/ Return(c)
        PROVE  (\A d \in Callers : Private(d)') /\ [Store!Next]_Store!vars
    BY <1>2, CallsRefine DEF Store!Next, Store!Values, Store!CallPut, Store!CallGet, Store!Return,
       Store!NoOp
  <1>3. ASSUME NEW c \in Callers, OpenPath(c) \/ ReadPath(c)
        PROVE  (\A d \in Callers : Private(d)') /\ [Store!Next]_Store!vars
    BY <1>3, ReadsRefine DEF Store!Next, Store!Get, Store!vars
  <1>4. ASSUME NEW c \in Callers, OpenTmp(c) \/ WriteTmp(c)
        PROVE  (\A d \in Callers : Private(d)') /\ [Store!Next]_Store!vars
    BY <1>4, OpenTmpRefines, WriteTmpRefines DEF Store!vars
  <1>5. ASSUME NEW c \in Callers, Rename(c) \/ Unlink(c)
        PROVE  (\A d \in Callers : Private(d)') /\ [Store!Next]_Store!vars
    BY <1>5, RenameRefines, UnlinkRefines DEF Store!Next, Store!Put
  <1>6. ASSUME NEW p \in Procs, Crash(p)
        PROVE  (\A d \in Callers : Private(d)') /\ [Store!Next]_Store!vars
    BY <1>6, CrashRefines DEF Store!Next, Store!Crash, Store!NoOp
  <1>7. CASE UNCHANGED vars
    BY <1>7 DEF vars, Store!vars, StoreInv, Private, AbstractOp
  <1> QED
    BY <1>2, <1>3, <1>4, <1>5, <1>6, <1>7 DEF Next

\* At the start nothing is stored and nobody has an operation.
LEMMA StoreInit == Init => StoreInv /\ Store!Init
  <1> SUFFICES ASSUME Init PROVE StoreInv /\ Store!Init
    OBVIOUS
  <1>1. path = 0 /\ \A c \in Callers : op[c].at = "idle" /\ op[c].v = "null"
    BY BegunEmpty DEF Init
  <1>2. \A c \in Callers : Private(c)
    BY <1>1 DEF Private
  <1>3. \A c \in Callers : AbstractOp(op[c]) = [at |-> "idle", v |-> "null"]
    BY <1>1 DEF AbstractOp
  <1>4. Store!Init
    BY <1>1, <1>3 DEF Store!Init, Store!NoOp
  <1>5. WritesApart
    BY <1>1 DEF WritesApart, Writing
  <1> QED
    BY <1>2, <1>4, <1>5, FileInit DEF StoreInv

\* fileStorage is an atomic store for any callers in any processes, in every
\* behaviour in which the writes of one process take turns: nobody reads a part
\* of a state or one that was not stored when the file was opened, though reads
\* and clears overlap as they like and any process may die at any point.
THEOREM StoreIsAtomic == Spec /\ []WritesApart => ImplementsAtomicStore
  <1>1. Init => StoreInv /\ Store!Init
    BY StoreInit
  <1>2. StoreInv /\ [Next]_vars /\ WritesApart' => StoreInv' /\ [Store!Next]_Store!vars
    BY StoreStep
  <1> QED
    BY <1>1, <1>2, PTL DEF Spec, ImplementsAtomicStore, Store!Spec

=============================================================================
