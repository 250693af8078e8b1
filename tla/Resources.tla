----------------------------- MODULE Resources -----------------------------
(***************************************************************************)
(* The other classes that hold something to give back: pipe (a FILE of     *)
(* popen), fs::directory (a DIR), fs::file (a mapping), postgres::app (a   *)
(* PGconn) and postgres::cmd_result (a PGresult).  Each has its own idea   *)
(* of when the pointer is reset, when it is overwritten and what the       *)
(* destructor does; all but cmd_result can be copied.                      *)
(*                                                                         *)
(* Handles are addresses: one that was given back may be handed out again, *)
(* by another class too.  Giving back what is not handed out is undefined; *)
(* nothing is said of what follows.                                        *)
(***************************************************************************)
EXTENDS FiniteSets

CONSTANTS
    Obj,     \* places where an object can be constructed
    Handle,  \* what popen, opendir, mmap, PQconnectdb and PQexec return
    Null,    \* the null pointer
    Wild     \* a pointer that is no handle: MAP_FAILED, or a field that was
             \* never initialized

ASSUME ResourcesAssumption == Null # Wild /\ Null \notin Handle /\ Wild \notin Handle

VARIABLES
    class,   \* the class of the object in each place, "none" without one
    ptr,     \* _file, _stream, _data, _conn or _result of each object
    open,    \* the handles handed out
    broken   \* something was given back that was not handed out

vars == <<class, ptr, open, broken>>

Init ==
    /\ class = [o \in Obj |-> "none"]
    /\ ptr = [o \in Obj |-> Null]
    /\ open = {}
    /\ broken = FALSE

-----------------------------------------------------------------------------
(* Parts of the operations *)

Live == {o \in Obj : class[o] # "none"}

New(o, c) == class[o] = "none" /\ class' = [class EXCEPT ![o] = c]
Old(o, c) == class[o] = c /\ UNCHANGED class
End(o, c) == class[o] = c /\ class' = [class EXCEPT ![o] = "none"]

Points(o, p) == ptr' = [ptr EXCEPT ![o] = p]

\* Handing out, with what remains open: a handle that is free, or a failure
\* and the pointer that reports it.
Takes(o, remaining, failure) ==
    \/ \E h \in Handle \ remaining : Points(o, h) /\ open' = remaining \union {h}
    \/ Points(o, failure) /\ open' = remaining

\* Giving back.  Null is not given back, it is tested for.
Breaks(p) == p # Null /\ p \notin open

Gives(p) ==
    /\ open' = open \ {p}
    /\ broken' = Breaks(p)

-----------------------------------------------------------------------------
(* pipe *)

\* The constructor does not initialize _file.
ConstructPipe(o) ==
    /\ New(o, "pipe")
    /\ \E p \in Handle \union {Null, Wild} : Points(o, p)
    /\ UNCHANGED <<open, broken>>

\* exec and exec_complete overwrite _file.
Exec(o) ==
    /\ Old(o, "pipe")
    /\ Takes(o, open, Null)
    /\ UNCHANGED broken

ClosePipe(o)   == Old(o, "pipe") /\ Gives(ptr[o]) /\ Points(o, Null)
DestroyPipe(o) == End(o, "pipe") /\ Gives(ptr[o]) /\ Points(o, Null)

Pipes ==
    \E o \in Obj :
       ConstructPipe(o) \/ Exec(o) \/ ClosePipe(o) \/ DestroyPipe(o)

-----------------------------------------------------------------------------
(* fs::directory *)

ConstructDirectory(o) ==
    /\ New(o, "directory")
    /\ Points(o, Null)
    /\ UNCHANGED <<open, broken>>

ConstructOpenDirectory(o) ==
    /\ New(o, "directory")
    /\ Takes(o, open, Null)
    /\ UNCHANGED broken

\* The variant that does not close first.
OpenDirectoryOver(o) == Old(o, "directory") /\ Takes(o, open, Null) /\ UNCHANGED broken

\* open() closes what the pointer says, whether or not close() has done so.
OpenDirectory(o) ==
    /\ Old(o, "directory")
    /\ Takes(o, open \ {ptr[o]}, Null)
    /\ broken' = Breaks(ptr[o])

\* close() keeps the pointer; there is no destructor.
CloseDirectory(o)   == Old(o, "directory") /\ Gives(ptr[o]) /\ UNCHANGED ptr
DestroyDirectory(o) == End(o, "directory") /\ Points(o, Null) /\ UNCHANGED <<open, broken>>

Directories ==
    \E o \in Obj :
       \/ ConstructDirectory(o) \/ ConstructOpenDirectory(o)
       \/ OpenDirectory(o) \/ CloseDirectory(o) \/ DestroyDirectory(o)

-----------------------------------------------------------------------------
(* fs::file *)

\* Opening may fail before there is a mapping, which changes no pointer; a
\* mapping that fails gives MAP_FAILED, which is not null and is kept.
Maps(o) ==
    \/ Takes(o, open, Wild)
    \/ UNCHANGED <<ptr, open>>

ConstructFile(o) == New(o, "file") /\ UNCHANGED <<ptr, open, broken>>

ConstructOpenFile(o) == New(o, "file") /\ Maps(o) /\ UNCHANGED broken

OpenFile(o) == Old(o, "file") /\ Maps(o) /\ UNCHANGED broken

\* munmap of MAP_FAILED fails and changes nothing.
DestroyFile(o) ==
    /\ End(o, "file")
    /\ Points(o, Null)
    /\ open' = open \ {ptr[o]}
    /\ UNCHANGED broken

Files ==
    \E o \in Obj :
       ConstructFile(o) \/ ConstructOpenFile(o) \/ OpenFile(o) \/ DestroyFile(o)

-----------------------------------------------------------------------------
(* postgres::cmd_result *)

\* exec_cmd: PQexec may return null.
ConstructResult(o) ==
    /\ New(o, "result")
    /\ Takes(o, open, Null)
    /\ UNCHANGED broken

\* The variant that leaves the result to the source as well.
MoveResultKeeps(n, o) ==
    /\ New(n, "result")
    /\ class[o] = "result"
    /\ Points(n, ptr[o])
    /\ UNCHANGED <<open, broken>>

MoveResult(n, o) ==
    /\ New(n, "result")
    /\ class[o] = "result"
    /\ ptr' = [ptr EXCEPT ![n] = ptr[o], ![o] = Null]
    /\ UNCHANGED <<open, broken>>

\* What o had is overwritten; assigned to itself it has nothing afterwards.
AssignResult(o, p) ==
    /\ Old(o, "result") /\ class[p] = "result"
    /\ ptr' = [ptr EXCEPT ![o] = ptr[p], ![p] = Null]
    /\ UNCHANGED <<open, broken>>

\* free() is const: it cannot reset the pointer.
FreeResult(o)    == Old(o, "result") /\ Gives(ptr[o]) /\ UNCHANGED ptr
DestroyResult(o) == End(o, "result") /\ Gives(ptr[o]) /\ Points(o, Null)

Results ==
    \E o \in Obj :
       \/ ConstructResult(o) \/ FreeResult(o) \/ DestroyResult(o)
       \/ \E p \in Obj : MoveResult(o, p) \/ AssignResult(o, p)

-----------------------------------------------------------------------------
(* postgres::app *)

\* PQconnectdb returns a connection also when it is not connected; it is
\* null only without memory, and PQfinish ignores null.
ConstructApp(o) ==
    /\ New(o, "app")
    /\ Takes(o, open, Null)
    /\ UNCHANGED broken

DestroyApp(o) == End(o, "app") /\ Gives(ptr[o]) /\ Points(o, Null)

Apps == \E o \in Obj : ConstructApp(o) \/ DestroyApp(o)

-----------------------------------------------------------------------------
(* What the compiler adds *)

\* No class but cmd_result says how it is copied: the pointer is, and a move
\* is a copy.
Copied == {"pipe", "directory", "file", "app"}

CopyConstruct(n, o) ==
    /\ class[o] \in Copied
    /\ New(n, class[o])
    /\ Points(n, ptr[o])
    /\ UNCHANGED <<open, broken>>

CopyAssign(o, p) ==
    /\ class[p] \in Copied
    /\ Old(o, class[p])
    /\ Points(o, ptr[p])
    /\ UNCHANGED <<open, broken>>

Copies == \E o, p \in Obj : CopyConstruct(o, p) \/ CopyAssign(o, p)

-----------------------------------------------------------------------------

Next ==
    /\ ~broken
    /\ Pipes \/ Directories \/ Files \/ Results \/ Apps \/ Copies

Spec == Init /\ [][Next]_vars

-----------------------------------------------------------------------------
(* Properties *)

\* Every object that would give something back has it, and has it alone.
\* MAP_FAILED may be given back.
Sound ==
    /\ ~broken
    /\ \A o \in Live : ptr[o] \in open \union {Null} \/ (class[o] = "file" /\ ptr[o] = Wild)
    /\ \A o, p \in Live : o # p /\ ptr[o] = ptr[p] => ptr[o] \notin Handle

\* What is handed out and nobody will give back.
Lost == open \ {ptr[o] : o \in Live}

Tight == Lost = {}

\* Steps after which an object points to what is not its own.
Forgets ==
    \E o \in Obj :
       \/ ConstructPipe(o) \/ CloseDirectory(o) \/ FreeResult(o)
       \/ \E p \in Obj : CopyConstruct(o, p) \/ CopyAssign(o, p)

\* Four things lead to a second close, and each takes a further call to do
\* so: a pipe that was never used, a directory that was closed, a result
\* that was freed, and any object that was copied.  Nothing else does, moves
\* of results and failures included.
OnlyForgettingIsUnsound == [][Sound /\ ~Sound' => Forgets]_vars

\* Steps that overwrite the last pointer to something.
Overwrites ==
    \E o \in Obj :
       /\ ptr[o] \in open
       /\ \/ Exec(o) \/ DestroyDirectory(o) \/ OpenFile(o)
          \/ \E p \in Obj : AssignResult(o, p) \/ CopyAssign(o, p)

\* Something is lost only by using a pipe, a file or a result a second time
\* without giving it back, by assigning to an object that has something, and
\* by a directory that goes out of scope open.
OnlyOverwritingLoses == [][Tight /\ ~Tight' => Overwrites]_vars
=============================================================================
