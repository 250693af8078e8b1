----------------------- MODULE ResourceProgramsProofs -----------------------
(***************************************************************************)
(* Which calls on pipes, directories, files, connections and results leave *)
(* an object with what is not its own, and which lose something: for any   *)
(* number of objects and handles.  Both are properties of steps; the       *)
(* invariant they need is the type of the variables, and that a place      *)
(* without an object points nowhere.                                       *)
(*                                                                         *)
(* The programs make calls of Resources only, so what is proved of all     *)
(* orders of calls holds of them; and for any nesting of directories and   *)
(* any handles they never give back what they do not have, and lose no     *)
(* more than MayLose says.  The invariant says, for each program and step, *)
(* which pipes were not used yet (all others are sound) and how much has   *)
(* been lost so far.                                                       *)
(***************************************************************************)
EXTENDS ResourcePrograms, FiniteSetTheorems, TLAPS

TypeOK ==
    /\ class \in [Obj -> {"none", "pipe", "directory", "file", "app", "result"}]
    /\ ptr \in [Obj -> Handle \union {Null, Wild}]
    /\ open \subseteq Handle
    /\ broken \in BOOLEAN
    /\ \A o \in Obj : class[o] = "none" => ptr[o] = Null

LEMMA NextType == TypeOK /\ [Next]_vars => TypeOK'
<1> SUFFICES ASSUME TypeOK, [Next]_vars
             PROVE  TypeOK'
  OBVIOUS
<1> USE DEF TypeOK, New, Old, End, Points, Takes, Gives, Breaks
<1>1. CASE UNCHANGED vars
  BY <1>1 DEF vars
<1>2. CASE Pipes
  BY <1>2 DEF Pipes, ConstructPipe, Exec, ClosePipe, DestroyPipe
<1>3. CASE Directories
  BY <1>3 DEF Directories, ConstructDirectory, ConstructOpenDirectory,
     OpenDirectory, CloseDirectory, DestroyDirectory
<1>4. CASE Files
  BY <1>4 DEF Files, ConstructFile, ConstructOpenFile, OpenFile, DestroyFile, Maps
<1>5. CASE Results
  BY <1>5 DEF Results, ConstructResult, MoveResult, AssignResult, FreeResult,
     DestroyResult
<1>6. CASE Apps
  BY <1>6 DEF Apps, ConstructApp, DestroyApp
<1>7. CASE Copies
  BY <1>7 DEF Copies, CopyConstruct, CopyAssign, Copied
<1>8. QED
  BY <1>1, <1>2, <1>3, <1>4, <1>5, <1>6, <1>7 DEF Next

LEMMA TypeHolds == Spec => []TypeOK
<1>1. Init => TypeOK
  BY DEF Init, TypeOK
<1>2. QED
  BY <1>1, NextType, PTL DEF Spec

-----------------------------------------------------------------------------
(* What becomes unsound *)

LEMMA PipesSound ==
  ASSUME TypeOK, Sound, NEW o \in Obj, Exec(o) \/ ClosePipe(o) \/ DestroyPipe(o)
  PROVE  Sound'
<1> USE ResourcesAssumption
    DEF TypeOK, Sound, Live, New, Old, End, Points, Takes, Gives, Breaks
<1>1. CASE Exec(o)
  BY <1>1 DEF Exec
<1>2. CASE ClosePipe(o)
  BY <1>2 DEF ClosePipe
<1>3. CASE DestroyPipe(o)
  BY <1>3 DEF DestroyPipe
<1>4. QED
  BY <1>1, <1>2, <1>3

LEMMA DirectoriesSound ==
  ASSUME TypeOK, Sound, NEW o \in Obj,
         \/ ConstructDirectory(o) \/ ConstructOpenDirectory(o)
         \/ OpenDirectory(o) \/ DestroyDirectory(o)
  PROVE  Sound'
<1> USE ResourcesAssumption
    DEF TypeOK, Sound, Live, New, Old, End, Points, Takes, Gives, Breaks
<1>1. CASE ConstructDirectory(o)
  BY <1>1 DEF ConstructDirectory
<1>2. CASE ConstructOpenDirectory(o)
  BY <1>2 DEF ConstructOpenDirectory
<1>3. CASE OpenDirectory(o)
  BY <1>3 DEF OpenDirectory
<1>4. CASE DestroyDirectory(o)
  BY <1>4 DEF DestroyDirectory
<1>5. QED
  BY <1>1, <1>2, <1>3, <1>4

LEMMA FilesSound ==
  ASSUME TypeOK, Sound, NEW o \in Obj,
         ConstructFile(o) \/ ConstructOpenFile(o) \/ OpenFile(o) \/ DestroyFile(o)
  PROVE  Sound'
<1> USE ResourcesAssumption
    DEF TypeOK, Sound, Live, New, Old, End, Points, Takes, Maps
<1>1. CASE ConstructFile(o)
  BY <1>1 DEF ConstructFile
<1>2. CASE ConstructOpenFile(o)
  BY <1>2 DEF ConstructOpenFile
<1>3. CASE OpenFile(o)
  BY <1>3 DEF OpenFile
<1>4. CASE DestroyFile(o)
  BY <1>4 DEF DestroyFile
<1>5. QED
  BY <1>1, <1>2, <1>3, <1>4

LEMMA ResultsSound ==
  ASSUME TypeOK, Sound, NEW o \in Obj, NEW p \in Obj,
         ConstructResult(o) \/ DestroyResult(o) \/ MoveResult(o, p) \/ AssignResult(o, p)
  PROVE  Sound'
<1> USE ResourcesAssumption
    DEF TypeOK, Sound, Live, New, Old, End, Points, Takes, Gives, Breaks
<1>1. CASE ConstructResult(o)
  BY <1>1 DEF ConstructResult
<1>2. CASE DestroyResult(o)
  BY <1>2 DEF DestroyResult
<1>3. CASE MoveResult(o, p)
  BY <1>3 DEF MoveResult
<1>4. CASE AssignResult(o, p)
  BY <1>4 DEF AssignResult
<1>5. QED
  BY <1>1, <1>2, <1>3, <1>4

LEMMA AppsSound ==
  ASSUME TypeOK, Sound, NEW o \in Obj, ConstructApp(o) \/ DestroyApp(o)
  PROVE  Sound'
<1> USE ResourcesAssumption
    DEF TypeOK, Sound, Live, New, Old, End, Points, Takes, Gives, Breaks
<1>1. CASE ConstructApp(o)
  BY <1>1 DEF ConstructApp
<1>2. CASE DestroyApp(o)
  BY <1>2 DEF DestroyApp
<1>3. QED
  BY <1>1, <1>2

\* In any order of calls, only a pipe that is constructed, a directory that
\* is closed, a result that is freed and an object that is copied get a pointer
\* they must not give back.
THEOREM UnsoundnessComesFromForgetting == Spec => OnlyForgettingIsUnsound
<1>1. TypeOK /\ [Next]_vars => (Sound /\ ~Sound' => Forgets)
  <2> SUFFICES ASSUME TypeOK, [Next]_vars, Sound, ~Forgets
               PROVE  Sound'
    OBVIOUS
  <2>1. CASE UNCHANGED vars
    BY <2>1 DEF Sound, Live, vars
  <2>2. CASE Next
    BY <2>2, PipesSound, DirectoriesSound, FilesSound, ResultsSound, AppsSound
       DEF Next, Pipes, Directories, Files, Results, Apps, Copies, Forgets
  <2>3. QED
    BY <2>1, <2>2
<1>2. QED
  BY <1>1, TypeHolds, PTL DEF Spec, OnlyForgettingIsUnsound

-----------------------------------------------------------------------------
(* What is lost *)

\* No call loses anything but what the object pointed to.
LEMMA PipesLose ==
  ASSUME TypeOK, NEW o \in Obj,
         ConstructPipe(o) \/ Exec(o) \/ ClosePipe(o) \/ DestroyPipe(o)
  PROVE  /\ Lost' \subseteq Lost \union {ptr[o]}
         /\ (Exec(o) /\ ptr[o] \in open) \/ Lost' \subseteq Lost
<1> USE ResourcesAssumption
    DEF TypeOK, Lost, Live, New, Old, End, Points, Takes, Gives
<1>1. CASE ConstructPipe(o)
  BY <1>1 DEF ConstructPipe
<1>2. CASE Exec(o)
  BY <1>2 DEF Exec
<1>3. CASE ClosePipe(o)
  BY <1>3 DEF ClosePipe
<1>4. CASE DestroyPipe(o)
  BY <1>4 DEF DestroyPipe
<1>5. QED
  BY <1>1, <1>2, <1>3, <1>4

LEMMA DirectoriesLose ==
  ASSUME TypeOK, NEW o \in Obj,
         \/ ConstructDirectory(o) \/ ConstructOpenDirectory(o)
         \/ OpenDirectory(o) \/ CloseDirectory(o) \/ DestroyDirectory(o)
  PROVE  /\ Lost' \subseteq Lost \union {ptr[o]}
         /\ (DestroyDirectory(o) /\ ptr[o] \in open) \/ Lost' \subseteq Lost
<1> USE ResourcesAssumption
    DEF TypeOK, Lost, Live, New, Old, End, Points, Takes, Gives
<1>1. CASE ConstructDirectory(o)
  BY <1>1 DEF ConstructDirectory
<1>2. CASE ConstructOpenDirectory(o)
  BY <1>2 DEF ConstructOpenDirectory
<1>3. CASE OpenDirectory(o)
  BY <1>3 DEF OpenDirectory
<1>4. CASE CloseDirectory(o)
  BY <1>4 DEF CloseDirectory
<1>5. CASE DestroyDirectory(o)
  BY <1>5 DEF DestroyDirectory
<1>6. QED
  BY <1>1, <1>2, <1>3, <1>4, <1>5

LEMMA FilesLose ==
  ASSUME TypeOK, NEW o \in Obj,
         ConstructFile(o) \/ ConstructOpenFile(o) \/ OpenFile(o) \/ DestroyFile(o)
  PROVE  /\ Lost' \subseteq Lost \union {ptr[o]}
         /\ (OpenFile(o) /\ ptr[o] \in open) \/ Lost' \subseteq Lost
<1> USE ResourcesAssumption
    DEF TypeOK, Lost, Live, New, Old, End, Points, Takes, Maps
<1>1. CASE ConstructFile(o)
  BY <1>1 DEF ConstructFile
<1>2. CASE ConstructOpenFile(o)
  BY <1>2 DEF ConstructOpenFile
<1>3. CASE OpenFile(o)
  BY <1>3 DEF OpenFile
<1>4. CASE DestroyFile(o)
  BY <1>4 DEF DestroyFile
<1>5. QED
  BY <1>1, <1>2, <1>3, <1>4

LEMMA ResultsLose ==
  ASSUME TypeOK, NEW o \in Obj, NEW p \in Obj,
         \/ ConstructResult(o) \/ FreeResult(o) \/ DestroyResult(o)
         \/ MoveResult(o, p) \/ AssignResult(o, p)
  PROVE  /\ Lost' \subseteq Lost \union {ptr[o]}
         /\ (AssignResult(o, p) /\ ptr[o] \in open) \/ Lost' \subseteq Lost
<1> USE ResourcesAssumption
    DEF TypeOK, Lost, Live, New, Old, End, Points, Takes, Gives
<1>1. CASE ConstructResult(o)
  BY <1>1 DEF ConstructResult
<1>2. CASE FreeResult(o)
  BY <1>2 DEF FreeResult
<1>3. CASE DestroyResult(o)
  BY <1>3 DEF DestroyResult
<1>4. CASE MoveResult(o, p)
  BY <1>4 DEF MoveResult
<1>5. CASE AssignResult(o, p)
  BY <1>5 DEF AssignResult
<1>6. QED
  BY <1>1, <1>2, <1>3, <1>4, <1>5

LEMMA AppsLose ==
  ASSUME TypeOK, NEW o \in Obj, ConstructApp(o) \/ DestroyApp(o)
  PROVE  Lost' \subseteq Lost
<1> USE ResourcesAssumption
    DEF TypeOK, Lost, Live, New, Old, End, Points, Takes, Gives
<1>1. CASE ConstructApp(o)
  BY <1>1 DEF ConstructApp
<1>2. CASE DestroyApp(o)
  BY <1>2 DEF DestroyApp
<1>3. QED
  BY <1>1, <1>2

LEMMA CopiesLose ==
  ASSUME TypeOK, NEW o \in Obj, NEW p \in Obj, CopyConstruct(o, p) \/ CopyAssign(o, p)
  PROVE  (CopyAssign(o, p) /\ ptr[o] \in open) \/ Lost' \subseteq Lost
<1> USE DEF TypeOK, Lost, Live, New, Old, Points, Copied
<1>1. CASE CopyConstruct(o, p)
  BY <1>1 DEF CopyConstruct
<1>2. CASE CopyAssign(o, p)
  BY <1>2 DEF CopyAssign
<1>3. QED
  BY <1>1, <1>2

LEMMA NextLoses == TypeOK /\ Next /\ ~Overwrites => Lost' \subseteq Lost
<1> SUFFICES ASSUME TypeOK, Next, ~Overwrites
             PROVE  Lost' \subseteq Lost
  OBVIOUS
<1>1. CASE Pipes
  BY <1>1, PipesLose DEF Pipes, Overwrites
<1>2. CASE Directories
  BY <1>2, DirectoriesLose DEF Directories, Overwrites
<1>3. CASE Files
  BY <1>3, FilesLose DEF Files, Overwrites
<1>4. CASE Results
  BY <1>4, ResultsLose DEF Results, Overwrites
<1>5. CASE Apps \/ Copies
  BY <1>5, AppsLose, CopiesLose DEF Apps, Copies, Overwrites
<1>6. QED
  BY <1>1, <1>2, <1>3, <1>4, <1>5 DEF Next

\* In any order of calls, nothing is lost but by the calls that overwrite, or
\* forget, the pointer to what is open.
THEOREM LossComesFromOverwriting == Spec => OnlyOverwritingLoses
<1>1. TypeOK /\ [Next]_vars => (Tight /\ ~Tight' => Overwrites)
  <2> SUFFICES ASSUME TypeOK, [Next]_vars, Tight, ~Overwrites
               PROVE  Tight'
    OBVIOUS
  <2>1. CASE UNCHANGED vars
    BY <2>1 DEF Tight, Lost, Live, vars
  <2>2. CASE Next
    BY <2>2, NextLoses DEF Tight
  <2>3. QED
    BY <2>1, <2>2
<1>2. QED
  BY <1>1, TypeHolds, PTL DEF Spec, OnlyOverwritingLoses

-----------------------------------------------------------------------------
(* The programs *)

LEMMA Places ==
  /\ 1 \in Obj /\ 2 \in Obj /\ 3 \in Obj /\ 4 \in Obj
  /\ Cardinality(Obj) \in Nat
<1>1. Cardinality(Obj) \in Nat
  BY ProgramsAssumption, FS_CardinalityType
<1>2. Obj = 1 .. Cardinality(Obj) /\ 4 \in Obj
  BY ProgramsAssumption
<1>3. QED
  BY <1>1, <1>2

\* The last object has a place, and so has the next one of a walk.
LEMMA DepthType == Depth \in Nat /\ (Depth > 0 => Depth \in Obj)
<1>1. Live \subseteq Obj
  BY DEF Live
<1>2. Depth \in Nat /\ Depth <= Cardinality(Obj)
  BY <1>1, ProgramsAssumption, FS_Subset, FS_CardinalityType DEF Depth
<1>3. QED
  BY <1>2, Places, ProgramsAssumption

LEMMA NextPlace == Enter => Depth + 1 \in Obj
<1> SUFFICES ASSUME Enter
             PROVE  Depth + 1 \in Obj
  OBVIOUS
<1>1. Depth > 0 => Depth <= Levels + 1
  BY DEF Enter
<1>2. /\ Levels \in Nat /\ Levels + 2 \in Obj
      /\ Obj = 1 .. Cardinality(Obj) /\ Cardinality(Obj) \in Nat
  BY ProgramsAssumption, Places
<1>3. QED
  BY <1>1, <1>2, DepthType

-----------------------------------------------------------------------------
(* Every step is a call *)

LEMMA StepIsCall == [ProgramNext]_pvars => [Next]_vars
<1> SUFFICES ASSUME [ProgramNext]_pvars
             PROVE  [Next]_vars
  OBVIOUS
<1> USE Places, DepthType DEF At, Next
<1>1. CASE Postgres
  <2>1. CASE StartServer
    BY <2>1 DEF StartServer, Pipes
  <2>2. CASE ConnectApp
    BY <2>2 DEF ConnectApp, Apps
  <2>3. CASE ReadQuery
    BY <2>3 DEF ReadQuery, Files
  <2>4. CASE RunQueries
    BY <2>4 DEF RunQueries, Results
  <2>5. CASE StopServer
    BY <2>5 DEF StopServer, Pipes
  <2>6. QED
    BY <1>1, <2>1, <2>2, <2>3, <2>4, <2>5 DEF Postgres
<1>2. CASE PipeTest
  BY <1>2 DEF PipeTest, Pipes
<1>3. CASE JsonTest
  BY <1>3 DEF JsonTest, Files
<1>4. CASE List
  BY <1>4 DEF List, Directories
<1>5. CASE Enter
  BY <1>5, NextPlace DEF Enter, Directories
<1>6. CASE LeaveDirectory
  BY <1>6 DEF LeaveDirectory, Directories
<1>7. CASE Unwind
  BY <1>7 DEF Unwind, Pipes, Directories, Files, Results, Apps
<1>8. CASE Anybody
  BY <1>8 DEF Anybody
<1>9. CASE UNCHANGED pvars
  BY <1>9 DEF pvars
<1>10. QED
  BY <1>1, <1>2, <1>3, <1>4, <1>5, <1>6, <1>7, <1>8, <1>9 DEF ProgramNext

\* The programs are sequences of calls: what holds of any calls holds of them.
THEOREM ProgramsAreCalls ==
  ProgramSpec => Spec /\ OnlyForgettingIsUnsound /\ OnlyOverwritingLoses
<1>1. ProgramInit => Init
  BY DEF ProgramInit
<1>2. ProgramSpec => Spec
  BY <1>1, StepIsCall, PTL DEF ProgramSpec, Spec
<1>3. QED
  BY <1>2, UnsoundnessComesFromForgetting, LossComesFromOverwriting, PTL

-----------------------------------------------------------------------------
(* Giving back *)

\* Sound, but for the places of S.
SoundBut(S) ==
    /\ ~broken
    /\ \A o \in Live \ S : \/ ptr[o] \in open \union {Null}
                           \/ class[o] = "file" /\ ptr[o] = Wild
    /\ \A o, p \in Live \ S : o # p /\ ptr[o] = ptr[p] => ptr[o] \notin Handle

\* A pipe points anywhere until it is used.
LEMMA ConstructPipeUnsound ==
  ASSUME TypeOK, NEW S, SoundBut(S), NEW o \in Obj, ConstructPipe(o)
  PROVE  SoundBut(S \union {o})'
  BY DEF SoundBut, TypeOK, Live, ConstructPipe, New, Points

LEMMA ExecSound ==
  ASSUME TypeOK, NEW S, SoundBut(S), NEW o \in Obj, Exec(o)
  PROVE  SoundBut(S \ {o})'
  BY ResourcesAssumption
  DEF SoundBut, TypeOK, Live, Exec, Old, Takes, Points

\* The pipes that are not used yet.
Unused ==
    CASE user = "postgres" /\ step = "ExecStart"       -> {1}
      [] user = "pipes" /\ step = "ConstructWritePipe" -> {1}
      [] user = "pipes" /\ step = "ExecRead"           -> {1, 2}
      [] user = "pipes" /\ step = "ExecWrite"          -> {2}
      [] OTHER                                         -> {}

Kept == user # "anybody" => SoundBut(Unused)

\* Steps at which all objects are sound, and remain so.
LEMMA KeptAtLast ==
  ASSUME Unused = {}, Unused' = {}, Kept, UNCHANGED user, Sound => Sound'
  PROVE  Kept'
  BY DEF Kept, SoundBut, Sound

LEMMA PostgresKeeps ==
  ASSUME TypeOK, Kept, Postgres
  PROVE  Kept'
<1> USE Places DEF At, Then, ThenOneOf, Reads
<1>1. user = "postgres" /\ user' = "postgres"
  BY DEF Postgres, StartServer, ConnectApp, ReadQuery, RunQueries, StopServer
<1>2. CASE StartServer
  <2>1. CASE step = "ConstructPipe"
    <3>1. ConstructPipe(1) /\ step' = "ExecStart"
      BY <1>2, <2>1 DEF StartServer
    <3>2. SoundBut({}) /\ Unused' = {} \union {1}
      BY <1>1, <2>1, <3>1 DEF Kept, Unused
    <3>3. QED
      BY <3>1, <3>2, ConstructPipeUnsound DEF Kept
  <2>2. CASE step = "ExecStart"
    <3>1. Exec(1) /\ step' \in {"unwind", "ConstructApp"}
      BY <1>2, <2>2 DEF StartServer
    <3>2. SoundBut({1}) /\ Unused' = {1} \ {1}
      BY <1>1, <2>2, <3>1 DEF Kept, Unused
    <3>3. QED
      BY <3>1, <3>2, ExecSound DEF Kept
  <2>3. QED
    BY <1>2, <2>1, <2>2 DEF StartServer
<1>3. CASE ConnectApp \/ ReadQuery \/ RunQueries \/ StopServer
  <2>1. Unused = {} /\ Unused' = {} /\ user' = user
    BY <1>1, <1>3 DEF Unused, ConnectApp, ReadQuery, RunQueries, StopServer
  <2>2. Sound => Sound'
    BY <1>3, PipesSound, AppsSound, FilesSound, ResultsSound
    DEF ConnectApp, ReadQuery, RunQueries, StopServer
  <2>3. QED
    BY <2>1, <2>2, KeptAtLast
<1>4. QED
  BY <1>2, <1>3 DEF Postgres

LEMMA PipeTestKeeps ==
  ASSUME TypeOK, Kept, PipeTest
  PROVE  Kept'
<1> USE Places DEF At, Then, Kept
<1>1. user = "pipes" /\ user' = "pipes"
  BY DEF PipeTest
<1>2. CASE step = "ConstructReadPipe"
  <2>1. ConstructPipe(1) /\ step' = "ConstructWritePipe"
    BY <1>2 DEF PipeTest
  <2>2. SoundBut({}) /\ Unused' = {} \union {1}
    BY <1>1, <1>2, <2>1 DEF Unused
  <2>3. QED
    BY <2>1, <2>2, ConstructPipeUnsound
<1>3. CASE step = "ConstructWritePipe"
  <2>1. ConstructPipe(2) /\ step' = "ExecRead"
    BY <1>3 DEF PipeTest
  <2>2. SoundBut({1}) /\ Unused' = {1} \union {2}
    BY <1>1, <1>3, <2>1 DEF Unused
  <2>3. QED
    BY <2>1, <2>2, ConstructPipeUnsound
<1>4. CASE step = "ExecRead"
  <2>1. Exec(1) /\ step' = "ExecWrite"
    BY <1>4 DEF PipeTest
  <2>2. SoundBut({1, 2}) /\ Unused' = {1, 2} \ {1}
    BY <1>1, <1>4, <2>1 DEF Unused
  <2>3. QED
    BY <2>1, <2>2, ExecSound
<1>5. CASE step = "ExecWrite"
  <2>1. Exec(2) /\ step' = "pipe"
    BY <1>5 DEF PipeTest
  <2>2. SoundBut({2}) /\ Unused' = {2} \ {2}
    BY <1>1, <1>5, <2>1 DEF Unused
  <2>3. QED
    BY <2>1, <2>2, ExecSound
<1>6. CASE step = "pipe"
  <2>1. UNCHANGED vars /\ step' = "unwind"
    BY <1>6 DEF PipeTest
  <2>2. Unused = {} /\ Unused' = {} /\ UNCHANGED user
    BY <1>1, <1>6, <2>1 DEF Unused
  <2>3. Sound => Sound'
    BY <2>1 DEF vars, Sound, Live
  <2>4. QED
    BY <2>2, <2>3, KeptAtLast
<1>7. QED
  BY <1>2, <1>3, <1>4, <1>5, <1>6 DEF PipeTest

LEMMA OthersKeep ==
  ASSUME TypeOK, Kept, JsonTest \/ List \/ Enter \/ LeaveDirectory \/ Unwind
  PROVE  Kept'
<1> USE Places, DepthType DEF At, Then, ThenOneOf, Reads
<1>1. Unused = {} /\ Unused' = {} /\ user' = user
  BY DEF Unused, JsonTest, List, Enter, LeaveDirectory, Unwind
<1>2. UNCHANGED vars => (Sound => Sound')
  BY DEF vars, Sound, Live
<1>3. Sound => Sound'
  <2>1. CASE JsonTest
    BY <1>2, <2>1, FilesSound DEF JsonTest
  <2>2. CASE List \/ Enter \/ LeaveDirectory
    BY <2>2, NextPlace, DirectoriesSound DEF List, Enter, LeaveDirectory
  <2>3. CASE Unwind
    BY <1>2, <2>3, PipesSound, DirectoriesSound, FilesSound, ResultsSound, AppsSound
    DEF Unwind
  <2>4. QED
    BY <2>1, <2>2, <2>3
<1>4. QED
  BY <1>1, <1>3, KeptAtLast

LEMMA NextKeeps == TypeOK /\ Kept /\ [ProgramNext]_pvars => Kept'
<1> SUFFICES ASSUME TypeOK, Kept, [ProgramNext]_pvars
             PROVE  Kept'
  OBVIOUS
<1>1. CASE Anybody
  BY <1>1 DEF Anybody, At, Then, Kept
<1>2. CASE UNCHANGED pvars
  BY <1>2 DEF pvars, vars, Kept, SoundBut, Unused, Live
<1>3. QED
  BY <1>1, <1>2, PostgresKeeps, PipeTestKeeps, OthersKeep DEF ProgramNext

-----------------------------------------------------------------------------
(* Losing *)

NoDirectory == \A o \in Obj : class[o] # "directory"

\* What each program has lost at each step.  A pipe that was not used yet may
\* point to anything: what it overwrites is lost only if something is open.
PostgresDebt ==
    /\ NoDirectory
    /\ step \in {"ConstructPipe", "ExecStart"} => open = {}
    /\ step = "OpenFile" => ptr[3] = Null
    /\ CASE step \in {"DropTemporary", "ExecStop"} -> \E a : Lost \subseteq {a}
         [] step \in {"unwind", "over", "dead"}    -> \E a, b : Lost \subseteq {a, b}
         [] OTHER                                  -> Lost = {}

PipesDebt ==
    /\ NoDirectory
    /\ step \in {"ConstructReadPipe", "ConstructWritePipe", "ExecRead"} => open = {}
    /\ step = "ExecWrite" => class[1] = "pipe" /\ open \subseteq {ptr[1]}
    /\ Lost = {}

JsonDebt == NoDirectory /\ Lost = {}

ListDebt ==
    /\ Live \subseteq {1}
    /\ Live # {} \/ step = "ConstructDirectory" => Lost = {}
    /\ \E a : Lost \subseteq {a}

Debt ==
    /\ user = "postgres" => PostgresDebt
    /\ user = "pipes" => PipesDebt
    /\ user = "json" => JsonDebt
    /\ user = "ls" => ListDebt

LEMMA StartsWithout == ProgramInit => Debt
<1> SUFFICES ASSUME ProgramInit
             PROVE  Debt
  OBVIOUS
<1>1. Live = {} /\ open = {} /\ Lost = {} /\ NoDirectory
  BY DEF ProgramInit, Init, Live, Lost, NoDirectory
<1>2. user = "postgres" => step = "ConstructPipe"
  BY DEF ProgramInit, First
<1>3. Lost \subseteq {1}
  BY <1>1
<1>4. user = "postgres" => PostgresDebt
  BY <1>1, <1>2 DEF PostgresDebt
<1>5. PipesDebt \/ user # "pipes"
  BY <1>1 DEF PipesDebt, ProgramInit, First
<1>6. JsonDebt /\ ListDebt
  BY <1>1, <1>3 DEF JsonDebt, ListDebt
<1>7. QED
  BY <1>4, <1>5, <1>6 DEF Debt

\* Leaving loses directories only.
LEMMA UnwindLoses ==
  ASSUME TypeOK, Unwind, NoDirectory
  PROVE  Lost' \subseteq Lost /\ NoDirectory'
<1> USE DepthType
<1>1. CASE UNCHANGED vars
  BY <1>1 DEF vars, Lost, Live, NoDirectory
<1>2. CASE Depth \in Obj /\ (DestroyPipe(Depth) \/ DestroyFile(Depth)
                             \/ DestroyResult(Depth) \/ DestroyApp(Depth))
  <2>1. Lost' \subseteq Lost
    <3>1. ~Exec(Depth) /\ ~OpenFile(Depth)
      BY <1>2
      DEF Exec, OpenFile, Old, End, DestroyPipe, DestroyFile, DestroyResult,
          DestroyApp, TypeOK
    <3>2. DestroyResult(Depth) => ~AssignResult(Depth, Depth)
      BY <1>2 DEF DestroyResult, AssignResult, Old, End, TypeOK
    <3>3. QED
      BY <1>2, <3>1, <3>2, PipesLose, FilesLose, ResultsLose, AppsLose
  <2>2. NoDirectory'
    BY <1>2
    DEF NoDirectory, DestroyPipe, DestroyFile, DestroyResult, DestroyApp, End, TypeOK
  <2>3. QED
    BY <2>1, <2>2
<1>3. CASE Depth \in Obj /\ DestroyDirectory(Depth)
  BY <1>3 DEF DestroyDirectory, End, NoDirectory
<1>4. QED
  BY <1>1, <1>2, <1>3 DEF Unwind

\* test_postgres, call by call.
LEMMA PostgresLoses ==
  ASSUME TypeOK, Postgres, PostgresDebt
  PROVE  PostgresDebt'
<1> USE Places DEF At, Then, ThenOneOf, Reads, PostgresDebt
<1>1. NoDirectory'
  BY DEF NoDirectory, TypeOK, New, Old, End,
         Postgres, StartServer, ConnectApp, ReadQuery, RunQueries, StopServer,
         ConstructPipe, Exec, ConstructApp, ConstructFile, OpenFile, DestroyFile,
         ConstructResult, AssignResult, DestroyResult
<1>2. CASE StartServer
  <2>1. CASE step = "ConstructPipe"
    <3>1. ConstructPipe(1) /\ step' = "ExecStart" /\ open = {} /\ open' = {}
      BY <1>2, <2>1 DEF StartServer, ConstructPipe
    <3>2. QED
      BY <1>1, <3>1 DEF Lost
  <2>2. CASE step = "ExecStart"
    <3>1. Exec(1) /\ step' \in {"unwind", "ConstructApp"} /\ open = {} /\ Lost = {}
      BY <1>2, <2>2 DEF StartServer
    <3>2. Lost' = {}
      BY <3>1, PipesLose
    <3>3. QED
      BY <1>1, <3>1, <3>2
  <2>3. QED
    BY <1>2, <2>1, <2>2 DEF StartServer
<1>3. CASE ConnectApp
  <2>1. ConstructApp(2) /\ step' \in {"unwind", "ConstructFile"} /\ Lost = {}
    BY <1>3 DEF ConnectApp
  <2>2. Lost' = {}
    BY <2>1, AppsLose
  <2>3. QED
    BY <1>1, <2>1, <2>2
<1>4. CASE ReadQuery
  <2>1. CASE step = "ConstructFile"
    <3>1. ConstructFile(3) /\ step' = "OpenFile" /\ Lost = {}
      BY <1>4, <2>1 DEF ReadQuery
    <3>2. ptr'[3] = Null
      BY <3>1 DEF ConstructFile, New, TypeOK
    <3>3. Lost' = {}
      BY <3>1, FilesLose DEF ConstructFile, OpenFile, New, Old
    <3>4. QED
      BY <1>1, <3>1, <3>2, <3>3
  <2>2. CASE step = "OpenFile"
    <3>1. /\ OpenFile(3) /\ step' \in {"unwind", "DestroyFile", "dead"}
          /\ Lost = {} /\ ptr[3] = Null
      BY <1>4, <2>2 DEF ReadQuery
    <3>2. Lost' = {}
      BY <3>1, FilesLose, ResourcesAssumption DEF TypeOK
    <3>3. QED
      BY <1>1, <3>1, <3>2
  <2>3. CASE step = "DestroyFile"
    <3>1. DestroyFile(3) /\ step' = "CreateTables" /\ Lost = {}
      BY <1>4, <2>3 DEF ReadQuery
    <3>2. ~OpenFile(3)
      BY <3>1 DEF DestroyFile, OpenFile, Old, End, TypeOK
    <3>3. Lost' = {}
      BY <3>1, <3>2, FilesLose
    <3>4. QED
      BY <1>1, <3>1, <3>3
  <2>4. QED
    BY <1>4, <2>1, <2>2, <2>3 DEF ReadQuery
<1>5. CASE RunQueries
  <2>1. ASSUME NEW o \in Obj, ConstructResult(o)
        PROVE  Lost' \subseteq Lost
    <3>1. ~AssignResult(o, o)
      BY <2>1 DEF ConstructResult, AssignResult, New, Old
    <3>2. QED
      BY <2>1, <3>1, ResultsLose
  <2>2. CASE step \in {"CreateTables", "Select"}
    <3>1. /\ \E o \in Obj : ConstructResult(o)
          /\ step' \in {"Select", "Assign"} /\ Lost = {}
      BY <1>5, <2>2 DEF RunQueries
    <3>2. Lost' = {}
      BY <2>1, <3>1
    <3>3. QED
      BY <1>1, <3>1, <3>2
  <2>3. CASE step = "Assign"
    <3>1. AssignResult(3, 4) /\ step' = "DropTemporary" /\ Lost = {}
      BY <1>5, <2>3 DEF RunQueries
    <3>2. Lost' \subseteq {ptr[3]}
      BY <3>1, ResultsLose
    <3>3. QED
      BY <1>1, <3>1, <3>2
  <2>4. CASE step = "DropTemporary"
    <3>1. /\ DestroyResult(4) /\ step' = "ExecStop"
          /\ \E a : Lost \subseteq {a}
      BY <1>5, <2>4 DEF RunQueries
    <3>2. ~AssignResult(4, 4)
      BY <3>1 DEF DestroyResult, AssignResult, Old, End, TypeOK
    <3>3. Lost' \subseteq Lost
      BY <3>1, <3>2, ResultsLose
    <3>4. QED
      BY <1>1, <3>1, <3>3
  <2>5. QED
    BY <1>5, <2>2, <2>3, <2>4 DEF RunQueries
<1>6. CASE StopServer
  <2>1. Exec(1) /\ step' = "unwind" /\ \E a : Lost \subseteq {a}
    BY <1>6 DEF StopServer
  <2>2. Lost' \subseteq Lost \union {ptr[1]}
    BY <2>1, PipesLose
  <2>3. \E a, b : Lost' \subseteq {a, b}
    BY <2>1, <2>2
  <2>4. QED
    BY <1>1, <2>1, <2>3
<1>7. QED
  BY <1>2, <1>3, <1>4, <1>5, <1>6 DEF Postgres

LEMMA PipeTestLoses ==
  ASSUME TypeOK, PipeTest, PipesDebt
  PROVE  PipesDebt'
<1> USE Places DEF At, Then, PipesDebt
<1>1. NoDirectory'
  BY DEF NoDirectory, TypeOK, New, Old, PipeTest, ConstructPipe, Exec, vars
<1>2. CASE step \in {"ConstructReadPipe", "ConstructWritePipe"}
  <2>1. open = {} /\ open' = {} /\ step' \in {"ConstructWritePipe", "ExecRead"}
    BY <1>2 DEF PipeTest, ConstructPipe
  <2>2. QED
    BY <1>1, <2>1 DEF Lost
<1>3. CASE step = "ExecRead"
  <2>1. Exec(1) /\ step' = "ExecWrite" /\ open = {}
    BY <1>3 DEF PipeTest
  <2>2. class'[1] = "pipe" /\ open' \subseteq {ptr'[1]}
    BY <2>1 DEF Exec, Old, Takes, Points, TypeOK
  <2>3. Lost' = {}
    BY <2>2 DEF Lost, Live
  <2>4. QED
    BY <1>1, <2>1, <2>2, <2>3
<1>4. CASE step = "ExecWrite"
  <2>1. /\ Exec(2) /\ step' = "pipe"
        /\ class[1] = "pipe" /\ open \subseteq {ptr[1]}
    BY <1>4 DEF PipeTest
  <2>2. /\ class'[1] = "pipe" /\ class'[2] = "pipe"
        /\ open' \subseteq {ptr'[1], ptr'[2]}
    BY <2>1 DEF Exec, Old, Takes, Points, TypeOK
  <2>3. Lost' = {}
    BY <2>2 DEF Lost, Live
  <2>4. QED
    BY <1>1, <2>1, <2>3
<1>5. CASE step = "pipe"
  <2>1. UNCHANGED vars /\ step' = "unwind"
    BY <1>5 DEF PipeTest
  <2>2. QED
    BY <1>1, <2>1 DEF vars, Lost, Live
<1>6. QED
  BY <1>2, <1>3, <1>4, <1>5 DEF PipeTest

LEMMA JsonLoses ==
  ASSUME TypeOK, JsonTest, JsonDebt
  PROVE  JsonDebt'
<1> USE Places DEF At, JsonDebt
<1>1. NoDirectory'
  BY DEF NoDirectory, TypeOK, New, JsonTest, ConstructOpenFile, vars
<1>2. CASE ConstructOpenFile(1)
  <2>1. ~OpenFile(1)
    BY <1>2 DEF ConstructOpenFile, OpenFile, New, Old
  <2>2. QED
    BY <1>1, <1>2, <2>1, FilesLose
<1>3. CASE UNCHANGED vars
  BY <1>1, <1>3 DEF vars, Lost, Live
<1>4. QED
  BY <1>2, <1>3 DEF JsonTest

\* The directory of ls is lost when ls returns.
LEMMA ListLoses ==
  ASSUME TypeOK, List \/ Unwind, ListDebt
  PROVE  ListDebt'
<1> USE Places, DepthType DEF At, ListDebt
<1>0. step' \in {"unwind", "over"}
  BY DEF List, Unwind, Then
<1>1. CASE List
  <2>1. ConstructOpenDirectory(1) /\ Lost = {}
    BY <1>1 DEF List
  <2>2. Live' \subseteq {1}
    BY <2>1 DEF ConstructOpenDirectory, New, Live, TypeOK
  <2>3. ~DestroyDirectory(1)
    BY <2>1 DEF ConstructOpenDirectory, DestroyDirectory, New, End
  <2>4. Lost' = {}
    BY <2>1, <2>3, DirectoriesLose
  <2>5. Lost' \subseteq {1}
    BY <2>4
  <2>6. QED
    BY <2>2, <2>4, <2>5
<1>2. CASE UNCHANGED vars
  BY <1>0, <1>2 DEF vars, Lost, Live
<1>3. ASSUME NEW o \in Obj, NEW c, End(o, c), c # "none", Lost' \subseteq Lost \union {ptr[o]}
      PROVE  ListDebt'
  <2>1. o \in Live /\ Live' \subseteq Live \ {o}
    BY <1>3 DEF End, Live, TypeOK
  <2>2. Live' = {} /\ Lost' \subseteq {ptr[o]}
    BY <1>3, <2>1
  <2>3. QED
    BY <1>0, <2>2
<1>4. CASE Depth \in Obj /\ (\/ DestroyPipe(Depth) \/ DestroyDirectory(Depth)
                             \/ DestroyFile(Depth) \/ DestroyResult(Depth)
                             \/ DestroyApp(Depth))
  <2>1. Lost' \subseteq Lost \union {ptr[Depth]}
    BY <1>4, PipesLose, DirectoriesLose, FilesLose, ResultsLose, AppsLose
  <2>2. \E c \in {"pipe", "directory", "file", "result", "app"} : End(Depth, c)
    BY <1>4
    DEF DestroyPipe, DestroyDirectory, DestroyFile, DestroyResult, DestroyApp
  <2>3. QED
    BY <1>3, <1>4, <2>1, <2>2
<1>5. QED
  BY <1>1, <1>2, <1>4 DEF Unwind

LEMMA NextOwes == TypeOK /\ Debt /\ [ProgramNext]_pvars => Debt'
<1> SUFFICES ASSUME TypeOK, Debt, [ProgramNext]_pvars
             PROVE  Debt'
  OBVIOUS
<1> USE DEF Debt
<1>1. CASE Postgres
  <2>1. user = "postgres" /\ user' = "postgres"
    BY <1>1 DEF Postgres, StartServer, ConnectApp, ReadQuery, RunQueries,
       StopServer, At, Then, ThenOneOf, Reads
  <2>2. QED
    BY <1>1, <2>1, PostgresLoses
<1>2. CASE PipeTest \/ JsonTest \/ List
  BY <1>2, PipeTestLoses, JsonLoses, ListLoses
  DEF PipeTest, JsonTest, List, At, Then, ThenOneOf, Reads
<1>3. CASE Enter \/ LeaveDirectory \/ Anybody
  BY <1>3 DEF Enter, LeaveDirectory, Anybody, At, Then
<1>4. CASE Unwind
  <2>1. user' = user /\ step = "unwind" /\ step' \in {"unwind", "over"}
    BY <1>4 DEF Unwind, Then
  <2>2. user = "ls" => ListDebt'
    BY <1>4, ListLoses
  <2>3. user = "postgres" => PostgresDebt'
    BY <1>4, <2>1, UnwindLoses DEF PostgresDebt
  <2>4. user = "pipes" => PipesDebt'
    BY <1>4, <2>1, UnwindLoses DEF PipesDebt
  <2>5. user = "json" => JsonDebt'
    BY <1>4, UnwindLoses DEF JsonDebt
  <2>6. QED
    BY <2>1, <2>2, <2>3, <2>4, <2>5
<1>5. CASE UNCHANGED pvars
  BY <1>5
  DEF pvars, vars, PostgresDebt, PipesDebt, JsonDebt, ListDebt, NoDirectory,
      Lost, Live
<1>6. QED
  BY <1>1, <1>2, <1>3, <1>4, <1>5 DEF ProgramNext

\* As numbers.
LEMMA DebtCounted ==
  ASSUME Debt, user \in DOMAIN MayLose
  PROVE  Cardinality(Lost) <= MayLose[user]
<1>1. ASSUME NEW a, NEW b, Lost \subseteq {a, b}
      PROVE  Cardinality(Lost) <= 2
  <2>1. IsFiniteSet({a}) /\ Cardinality({a}) = 1
    BY FS_Singleton
  <2>2. /\ IsFiniteSet({a} \union {b}) /\ Cardinality({a} \union {b}) <= 2
        /\ Cardinality({a} \union {b}) \in Nat
    <3>1. /\ IsFiniteSet({a} \union {b})
          /\ Cardinality({a} \union {b}) =
               IF b \in {a} THEN Cardinality({a}) ELSE Cardinality({a}) + 1
      BY <2>1, FS_AddElement
    <3>2. QED
      BY <2>1, <3>1
  <2>3. Lost \subseteq {a} \union {b}
    BY <1>1
  <2>4. Cardinality(Lost) <= Cardinality({a} \union {b}) /\ Cardinality(Lost) \in Nat
    BY <2>2, <2>3, FS_Subset, FS_CardinalityType
  <2>5. QED
    BY <2>2, <2>4
<1>2. ASSUME NEW a, Lost \subseteq {a}
      PROVE  Cardinality(Lost) <= 1
  <2>1. IsFiniteSet({a}) /\ Cardinality({a}) = 1
    BY FS_Singleton
  <2>2. Cardinality(Lost) <= Cardinality({a})
    BY <1>2, <2>1, FS_Subset
  <2>3. QED
    BY <2>1, <2>2
<1>3. Lost = {} => Cardinality(Lost) = 0
  BY FS_EmptySet
<1>4. CASE user = "postgres"
  <2>1. \E a, b : Lost \subseteq {a, b}
    BY <1>4 DEF Debt, PostgresDebt
  <2>2. QED
    BY <1>1, <1>4, <2>1 DEF MayLose
<1>5. CASE user = "ls"
  BY <1>2, <1>5 DEF Debt, ListDebt, MayLose
<1>6. CASE user \in {"pipes", "json"}
  BY <1>3, <1>6 DEF Debt, PipesDebt, JsonDebt, MayLose
<1>7. QED
  BY <1>4, <1>5, <1>6 DEF MayLose

-----------------------------------------------------------------------------

\* However the calls of a program fail, and wherever it leaves: it never gives
\* back what it does not have, and loses what its missing closes lose and no
\* more.
THEOREM ProgramsAreTidy == ProgramSpec => []ProgramsKeepTheirOwn
<1>1. ProgramInit => Kept /\ Debt
  <2>1. ProgramInit => Kept
    BY DEF ProgramInit, Init, Kept, SoundBut, Live
  <2>2. QED
    BY <2>1, StartsWithout
<1>2. TypeOK /\ Kept /\ Debt /\ [ProgramNext]_pvars => Kept' /\ Debt'
  BY NextKeeps, NextOwes
<1>3. Kept /\ Debt => ProgramsKeepTheirOwn
  BY DebtCounted DEF Kept, SoundBut, ProgramsKeepTheirOwn
<1>4. ProgramSpec => []TypeOK
  BY ProgramsAreCalls, TypeHolds, PTL
<1>5. QED
  BY <1>1, <1>2, <1>3, <1>4, PTL DEF ProgramSpec
=============================================================================
