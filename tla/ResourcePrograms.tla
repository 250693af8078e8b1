-------------------------- MODULE ResourcePrograms --------------------------
(***************************************************************************)
(* The programs of the repository that use pipes, directories, files and   *)
(* postgres, each as the sequence of its calls, with the failures it tests *)
(* for, those it does not, and the destructors that run when it returns or *)
(* throws; and anybody else, who makes any calls in any order.             *)
(*                                                                         *)
(* Objects are local: place 1 of the stack is that of the object declared  *)
(* first, and they are destroyed from the last to the first.               *)
(***************************************************************************)
EXTENDS Resources, Naturals

CONSTANTS
    Levels,      \* nesting at which print_directory_recurse stops
    AnyPlaces,   \* bound: places used by anybody else
    AnyHandles   \* bound: what anybody else is handed out

ASSUME ProgramsAssumption ==
    /\ IsFiniteSet(Obj) /\ Obj = 1 .. Cardinality(Obj)
    /\ 4 \in Obj
    /\ Levels \in Nat /\ Levels + 2 \in Obj
    /\ AnyPlaces \in Obj
    /\ AnyHandles \subseteq Handle

VARIABLES
    user,   \* the program that runs
    step    \* its next call; "unwind" when it leaves, "over" without objects,
            \* "dead" when it was killed

pvars == <<vars, user, step>>

First == [postgres |-> "ConstructPipe", pipes |-> "ConstructReadPipe",
          json |-> "ConstructFile", ls |-> "ConstructDirectory",
          walk |-> "Walk", anybody |-> "Any"]

ProgramInit ==
    /\ Init
    /\ user \in DOMAIN First
    /\ step = First[user]

At(program, call)  == user = program /\ step = call /\ ~broken
Then(call)         == step' = call /\ UNCHANGED user
ThenOneOf(calls)   == \E call \in calls : Then(call)

\* The place for the next object, and the last one that has an object.
Depth == Cardinality(Live)

\* Reading through a pointer that is none kills the program, and no
\* destructor runs then.
Reads(p, call) == IF p \in Handle THEN Then(call) ELSE Then("dead")

Unwind ==
    /\ step = "unwind" /\ ~broken
    /\ \/ Depth = 0 /\ Then("over") /\ UNCHANGED vars
       \/ /\ Depth > 0
          /\ Then("unwind")
          /\ \/ DestroyPipe(Depth) \/ DestroyDirectory(Depth) \/ DestroyFile(Depth)
             \/ DestroyResult(Depth) \/ DestroyApp(Depth)

-----------------------------------------------------------------------------
(* test_postgres *)

\* The variant that tries again.
StartServerAgain ==
    \/ At("postgres", "ConstructPipe") /\ ConstructPipe(1) /\ Then("ExecStart")
    \/ At("postgres", "ExecStart") /\ Exec(1) /\ ThenOneOf({"ExecStart", "ConstructApp"})

StartServer ==
    \/ At("postgres", "ConstructPipe") /\ ConstructPipe(1) /\ Then("ExecStart")
    \/ /\ At("postgres", "ExecStart")
       /\ Exec(1)
       /\ IF ptr'[1] = Null THEN Then("unwind") ELSE Then("ConstructApp")

\* Without a connection the program leaves, and the server keeps running.
ConnectApp ==
    /\ At("postgres", "ConstructApp")
    /\ ConstructApp(2)
    /\ IF ptr'[2] = Null THEN Then("unwind") ELSE ThenOneOf({"ConstructFile", "unwind"})

\* read_query_from_file: open() reports an error, or reports none and has no
\* mapping, or a mapping that failed; the query is then read from the pointer.
ReadQuery ==
    \/ At("postgres", "ConstructFile") /\ ConstructFile(3) /\ Then("OpenFile")
    \/ /\ At("postgres", "OpenFile")
       /\ OpenFile(3)
       /\ \/ ptr'[3] = Null /\ Then("unwind")
          \/ Reads(ptr'[3], "DestroyFile")
    \/ At("postgres", "DestroyFile") /\ DestroyFile(3) /\ Then("CreateTables")

RunQueries ==
    \/ At("postgres", "CreateTables") /\ ConstructResult(3) /\ Then("Select")
    \/ At("postgres", "Select") /\ ConstructResult(4) /\ Then("Assign")
    \/ At("postgres", "Assign") /\ AssignResult(3, 4) /\ Then("DropTemporary")
    \/ At("postgres", "DropTemporary") /\ DestroyResult(4) /\ Then("ExecStop")

\* error() of a success was never initialized: a server that stops may be
\* reported by an exception all the same.  Either way the program leaves.
StopServer ==
    /\ At("postgres", "ExecStop")
    /\ Exec(1)
    /\ Then("unwind")

Postgres == StartServer \/ ConnectApp \/ ReadQuery \/ RunQueries \/ StopServer

-----------------------------------------------------------------------------
(* pipe_test, test_json_parser *)

\* The two descriptors that ::pipe makes stay open in an array of the
\* program: they are nobody's, and no handle.
PipeTest ==
    \/ At("pipes", "ConstructReadPipe") /\ ConstructPipe(1) /\ Then("ConstructWritePipe")
    \/ At("pipes", "ConstructWritePipe") /\ ConstructPipe(2) /\ Then("ExecRead")
    \/ At("pipes", "ExecRead") /\ Exec(1) /\ Then("ExecWrite")
    \/ At("pipes", "ExecWrite") /\ Exec(2) /\ Then("pipe")
    \/ At("pipes", "pipe") /\ Then("unwind") /\ UNCHANGED vars

\* The assertion sees that the file could not be opened, not that it could
\* not be mapped; what the parser does with the text, or behind it, may be
\* the end of the program as well.
JsonTest ==
    \/ /\ At("json", "ConstructFile")
       /\ ConstructOpenFile(1)
       /\ Reads(ptr'[1], "parse")
    \/ /\ At("json", "parse")
       /\ ThenOneOf({"unwind", "dead"})
       /\ UNCHANGED vars

-----------------------------------------------------------------------------
(* ls, print_directory_recurse *)

List ==
    /\ At("ls", "ConstructDirectory")
    /\ ConstructOpenDirectory(1)
    /\ Then("unwind")

\* A directory is opened for each one listed, whether or not it is listed in
\* turn, and goes out of scope when the walk returns from it.
Enter ==
    /\ At("walk", "Walk")
    /\ Depth > 0 => Depth <= Levels + 1 /\ ptr[Depth] # Null
    /\ ConstructOpenDirectory(Depth + 1)
    /\ Then("Walk")

LeaveDirectory ==
    /\ At("walk", "Walk")
    /\ Depth > 0
    /\ DestroyDirectory(Depth)
    /\ IF Depth = 1 THEN Then("over") ELSE Then("Walk")

-----------------------------------------------------------------------------
(* Anybody else *)

Anybody ==
    /\ At("anybody", "Any")
    /\ Next
    /\ Live' \subseteq 1 .. AnyPlaces
    /\ open' \subseteq AnyHandles
    /\ Then("Any")

ProgramNext ==
    \/ Postgres \/ PipeTest \/ JsonTest \/ List \/ Enter \/ LeaveDirectory
    \/ Unwind \/ Anybody

ProgramSpec == ProgramInit /\ [][ProgramNext]_pvars

-----------------------------------------------------------------------------
(* Properties *)

\* How many handles each program loses on its way out: the first FILE and
\* the first result of test_postgres, the directory of ls.
MayLose == [postgres |-> 2, pipes |-> 0, json |-> 0, ls |-> 1]

\* The uninitialized pipes, the results that are moved and overwritten, the
\* failures that are not looked at: no program gives back what it does not
\* have, on any way out, and those that do not list directories lose no more
\* than their missing closes say.
ProgramsKeepTheirOwn ==
    /\ user # "anybody" => ~broken
    /\ user \in DOMAIN MayLose => Cardinality(Lost) <= MayLose[user]
=============================================================================
