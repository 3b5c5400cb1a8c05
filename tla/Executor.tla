------------------------------ MODULE Executor ------------------------------
(***************************************************************************)
(* The command builder and the executor of the build manager, and the      *)
(* clean verb, for concurrent invocations that share one build directory.  *)
(*                                                                         *)
(* generate_cmake_config and generate_build_command turn the effective     *)
(* configuration into argument lists.  On Windows, when detection found    *)
(* vcvarsall.bat, _run_windows_with_vcvars writes the command to the       *)
(* fixed file build/temp_build_cmd.bat, runs that file, removes it         *)
(* (ignoring any error) and returns; configure() and build() then append   *)
(* the attempt to the history.  Without vcvars the command runs directly.  *)
(* clean runs cmake's clean target through the same executor when          *)
(* CMakeCache.txt exists, and otherwise deletes what the build directory   *)
(* holds.  generate-makefile and setup-vscode write the artifacts whose    *)
(* entries shell back into the same CLI.                                   *)
(*                                                                         *)
(* Writing the batch file is one step: its text is far below the write     *)
(* buffer.  The history file itself is modelled in BuildManager; here an   *)
(* attempt is the command configure()/build() records and, as an           *)
(* auxiliary field, the command its subprocess really ran.                 *)
(***************************************************************************)
EXTENDS Integers, Sequences, SequencesExt, TLC

CONSTANTS
    Procs,          \* invocation slots that may run at the same time
    System,         \* platform.system().lower()
    Configs,        \* the effective configurations the workspace may have
    DeleteMayFail,  \* TRUE: os.remove of the batch file may fail (file in use)
    CMakeMayBeMissing, \* TRUE: cmake may be absent from PATH
    MaxRuns         \* bound: number of invocations explored

ASSUME DeleteMayFail \in BOOLEAN /\ CMakeMayBeMissing \in BOOLEAN /\ MaxRuns \in Nat

WorkspaceRoot == "C:/drogon"
BuildDir == "C:/drogon/build"

Verbs == {"configure", "build", "clean", "generate-makefile", "setup-vscode"}

-----------------------------------------------------------------------------
(* Command builder                                                         *)

\* The compiler switch is added on Linux and macOS only.
CompilerFlags(c) ==
    IF System \in {"linux", "darwin"}
    THEN CASE c.compiler = "gcc"   -> <<"-DCMAKE_C_COMPILER=gcc", "-DCMAKE_CXX_COMPILER=g++">>
           [] c.compiler = "clang" -> <<"-DCMAKE_C_COMPILER=clang", "-DCMAKE_CXX_COMPILER=clang++">>
           [] OTHER                -> <<>>
    ELSE <<>>

\* generate_cmake_config
GenerateCmakeConfig(c) ==
    <<"cmake", "-S", WorkspaceRoot, "-B", BuildDir>>
    \o (IF c.generator # "" THEN <<"-G", c.generator>> ELSE <<>>)
    \o (IF c.toolchain # "" THEN <<"-DCMAKE_TOOLCHAIN_FILE=" \o c.toolchain>> ELSE <<>>)
    \o CompilerFlags(c)
    \o <<"-DCMAKE_CXX_FLAGS=-" \o c.optimization_level, "-DCMAKE_BUILD_TYPE=Release">>
    \o c.cmake_extra_args

\* Mutant of GenerateBuildCommand: --config never passed.
GenerateBuildCommandNoConfig(c) ==
    <<"cmake", "--build", BuildDir, "--parallel", ToString(c.parallel_jobs)>>

\* generate_build_command: --config Release for a generator on Windows
\* whose name does not start with "Ninja".
GenerateBuildCommand(c) ==
    <<"cmake", "--build", BuildDir, "--parallel", ToString(c.parallel_jobs)>>
    \o (IF System = "windows" /\ ~IsPrefix("Ninja", c.generator) THEN <<"--config", "Release">> ELSE <<>>)

CleanCommand == <<"cmake", "--build", BuildDir, "--target", "clean">>

\* The command of a stage of a verb.
CommandOf(stage, c) ==
    CASE stage = "configure" -> GenerateCmakeConfig(c)
      [] stage = "build"     -> GenerateBuildCommand(c)
      [] OTHER               -> CleanCommand

-----------------------------------------------------------------------------
(* Generated artifacts                                                     *)

\* generate_makefile writes auto_make.bat on Windows and a Makefile
\* elsewhere; generate_vscode_integration writes .vscode/tasks.json.
ArtifactOf(v) ==
    CASE v = "setup-vscode"   -> ".vscode/tasks.json"
      [] System = "windows"   -> "auto_make.bat"
      [] OTHER                -> "Makefile"

-----------------------------------------------------------------------------
VARIABLES
    config,     \* each invocation's effective configuration (vcvars: vcvars_path found)
    batch,      \* build/temp_build_cmd.bat: exists, and the command it holds
    cache,      \* generator recorded in build/CMakeCache.txt, "none" if absent
    artifacts,  \* the generated files in the workspace
    pc,         \* where each invocation is
    verb,       \* sys.argv[1] of each invocation
    stage,      \* the stage being executed: configure, build or clean
    ran,        \* the command the running subprocess executed
    calls,      \* executor calls of configure()/build() in this invocation
    recs,       \* attempts appended by this invocation
    history,    \* the attempts appended, with the command that really ran
    runs

vars == <<config, batch, cache, artifacts, pc, verb, stage, ran, calls, recs, history, runs>>

Command == Seq(STRING)
\* tree: the generator of the build tree the command ran in (auxiliary)
Attempt == [proc : Procs, type : {"configure", "build"}, command : Command,
            ran : Command, tree : STRING]

TypeOK ==
    /\ config \in [Procs -> Configs]
    /\ batch \in [exists : BOOLEAN, command : Command]
    /\ cache \in STRING
    /\ artifacts \subseteq {"auto_make.bat", "Makefile", ".vscode/tasks.json"}
    /\ pc \in [Procs -> {"idle", "clean", "generate", "exec", "runbatch", "finish", "done", "crashed"}]
    /\ verb \in [Procs -> Verbs]
    /\ stage \in [Procs -> Verbs]
    /\ ran \in [Procs -> Command]
    /\ calls \in [Procs -> Nat] /\ recs \in [Procs -> Nat]
    /\ history \in Seq(Attempt)
    /\ runs \in 0..MaxRuns

Init ==
    /\ config \in [Procs -> Configs]
    /\ batch = [exists |-> FALSE, command |-> <<>>]
    /\ cache = "none"
    /\ artifacts = {}
    /\ pc = [p \in Procs |-> "idle"]
    /\ verb = [p \in Procs |-> "build"]
    /\ stage = [p \in Procs |-> "configure"]
    /\ ran = [p \in Procs |-> <<>>]
    /\ calls = [p \in Procs |-> 0]
    /\ recs = [p \in Procs |-> 0]
    /\ history = <<>>
    /\ runs = 0

NoBatch == [exists |-> FALSE, command |-> <<>>]

\* The verb's first step in run_command.
FirstStep(v) ==
    CASE v = "clean"                              -> "clean"
      [] v \in {"generate-makefile", "setup-vscode"} -> "generate"
      [] OTHER                                    -> "exec"

(***************************************************************************)
(* main(): BuildManager(workspace_root) detects the environment afresh,    *)
(* then run_command(sys.argv[1]).  The verb is given on the command line   *)
(* or by an entry of a generated artifact, whose verbs are among these.    *)
(***************************************************************************)
Invoke(p) ==
    /\ pc[p] \in {"idle", "done", "crashed"}
    /\ runs < MaxRuns
    /\ \E c \in Configs : config' = [config EXCEPT ![p] = c]
    /\ \E v \in Verbs :
          /\ verb' = [verb EXCEPT ![p] = v]
          /\ pc' = [pc EXCEPT ![p] = FirstStep(v)]
          /\ stage' = [stage EXCEPT ![p] = IF FirstStep(v) = "exec" THEN "configure" ELSE v]
    /\ ran' = [ran EXCEPT ![p] = <<>>]
    /\ calls' = [calls EXCEPT ![p] = 0]
    /\ recs' = [recs EXCEPT ![p] = 0]
    /\ runs' = runs + 1
    /\ UNCHANGED <<batch, cache, artifacts, history>>

\* generate_makefile / generate_vscode_integration: open(..., "w") and write
\* fixed text (chmod errors ignored); run_command then returns True.
GenerateArtifact(p) ==
    /\ pc[p] = "generate"
    /\ artifacts' = artifacts \cup {ArtifactOf(verb[p])}
    /\ pc' = [pc EXCEPT ![p] = "done"]
    /\ UNCHANGED <<config, batch, cache, verb, stage, ran, calls, recs, history, runs>>

\* clean(): with CMakeCache.txt, cmake's clean target through the executor;
\* without, every file and directory of the build directory is deleted.
Clean(p) ==
    /\ pc[p] = "clean"
    /\ IF cache # "none"
       THEN /\ pc' = [pc EXCEPT ![p] = "exec"]
            /\ UNCHANGED batch
       ELSE /\ batch' = NoBatch
            /\ pc' = [pc EXCEPT ![p] = "done"]
    /\ UNCHANGED <<config, cache, artifacts, verb, stage, ran, calls, recs, history, runs>>

\* The executor is entered for the stage's command.
CountCall(p) == [calls EXCEPT ![p] = IF stage[p] = "clean" THEN @ ELSE @ + 1]

\* configure()/build()/clean() take _run_windows_with_vcvars on Windows
\* when detection found vcvars_path, and subprocess.run(cmd) otherwise.
UsesBatch(p) == System = "windows" /\ config[p].vcvars

\* _run_windows_with_vcvars: open(temp_batch, "w") and the three writes.
WriteBatch(p) ==
    /\ pc[p] = "exec"
    /\ UsesBatch(p)
    /\ batch' = [exists |-> TRUE, command |-> CommandOf(stage[p], config[p])]
    /\ calls' = CountCall(p)
    /\ pc' = [pc EXCEPT ![p] = "runbatch"]
    /\ UNCHANGED <<config, cache, artifacts, verb, stage, ran, recs, history, runs>>

\* subprocess.run([temp_batch]): the file runs whatever it holds now; when
\* it is gone, FileNotFoundError escapes and ends the invocation.
RunBatch(p) ==
    /\ pc[p] = "runbatch"
    /\ IF batch.exists
       THEN /\ ran' = [ran EXCEPT ![p] = batch.command]
            /\ pc' = [pc EXCEPT ![p] = "finish"]
       ELSE /\ pc' = [pc EXCEPT ![p] = "crashed"]
            /\ UNCHANGED ran
    /\ UNCHANGED <<config, batch, cache, artifacts, verb, stage, calls, recs, history, runs>>

(***************************************************************************)
(* subprocess.run(cmd) directly.  When cmake is not on PATH it raises      *)
(* FileNotFoundError, which no caller catches: the invocation ends.  (In   *)
(* the batch file a missing cmake is only a failing line: cmd returns      *)
(* non-zero, one of CMakeOutcomes.)                                        *)
(***************************************************************************)
RunDirect(p) ==
    /\ pc[p] = "exec"
    /\ ~UsesBatch(p)
    /\ calls' = CountCall(p)
    /\ \/ /\ ran' = [ran EXCEPT ![p] = CommandOf(stage[p], config[p])]
          /\ pc' = [pc EXCEPT ![p] = "finish"]
       \/ /\ CMakeMayBeMissing
          /\ pc' = [pc EXCEPT ![p] = "crashed"]
          /\ UNCHANGED ran
    /\ UNCHANGED <<config, batch, cache, artifacts, verb, stage, recs, history, runs>>

\* The generator a configure command passes with -G.
GeneratorOf(cmd) ==
    LET ks == {k \in 1..(Len(cmd) - 1) : cmd[k] = "-G"}
    IN  IF ks = {} THEN "" ELSE cmd[Min(ks) + 1]

(***************************************************************************)
(* What the command that ran can return, and the CMakeCache.txt it leaves: *)
(* a configure (cmake -S ...) fails against a cache of another generator   *)
(* and leaves it; otherwise it may succeed, writing the cache for its      *)
(* generator, or fail before or after writing it.  A build or clean        *)
(* target fails without a cache.                                           *)
(***************************************************************************)
CMakeOutcomes(cmd) ==
    IF cmd[2] = "-S"
    THEN LET g == GeneratorOf(cmd) IN
         IF cache \notin {"none", g} THEN {[ok |-> FALSE, cache |-> cache]}
         ELSE {[ok |-> TRUE, cache |-> g], [ok |-> FALSE, cache |-> cache],
               [ok |-> FALSE, cache |-> g]}
    ELSE {[ok |-> b, cache |-> cache] : b \in IF cache = "none" THEN {FALSE} ELSE BOOLEAN}

\* The attempt configure() or build() appends, with the tree it ran in.
AttemptOf(p, o) ==
    [proc |-> p, type |-> stage[p], command |-> CommandOf(stage[p], config[p]),
     ran |-> ran[p], tree |-> o.cache]

\* run_command("build") goes on to build() after a successful configure().
NextStage(p, o) ==
    IF stage[p] = "configure" /\ verb[p] = "build" /\ o.ok
    THEN /\ stage' = [stage EXCEPT ![p] = "build"]
         /\ pc' = [pc EXCEPT ![p] = "exec"]
    ELSE /\ pc' = [pc EXCEPT ![p] = "done"]
         /\ UNCHANGED stage

\* Mutant of AfterRun: clean's run appended as an attempt as well.
AfterRunRecordsClean(p, o) ==
    /\ history' = Append(history, AttemptOf(p, o))
    /\ recs' = [recs EXCEPT ![p] = @ + 1]
    /\ cache' = o.cache
    /\ NextStage(p, o)

(***************************************************************************)
(* configure()/build() after the executor returned: the attempt is         *)
(* appended with " ".join(cmd) whatever the result.  clean records nothing.*)
(***************************************************************************)
AfterRun(p, o) ==
    /\ history' = IF stage[p] = "clean" THEN history ELSE Append(history, AttemptOf(p, o))
    /\ recs' = [recs EXCEPT ![p] = IF stage[p] = "clean" THEN @ ELSE @ + 1]
    /\ cache' = o.cache
    /\ NextStage(p, o)

\* The subprocess returns; with the batch file, os.remove(temp_batch)
\* removes the file that is there now, and an error of it is ignored.
Finish(p) ==
    /\ pc[p] = "finish"
    /\ \/ ~UsesBatch(p) /\ UNCHANGED batch
       \/ UsesBatch(p) /\ batch' = NoBatch
       \/ UsesBatch(p) /\ DeleteMayFail /\ UNCHANGED batch
    /\ \E o \in CMakeOutcomes(ran[p]) : AfterRun(p, o)
    /\ UNCHANGED <<config, artifacts, verb, ran, calls, runs>>

\* The steps of one invocation.
Step(p) ==
    \/ Clean(p) \/ GenerateArtifact(p) \/ WriteBatch(p) \/ RunBatch(p)
    \/ RunDirect(p) \/ Finish(p)

Finished ==
    /\ runs = MaxRuns
    /\ \A p \in Procs : pc[p] \in {"idle", "done", "crashed"}
    /\ UNCHANGED vars

Next ==
    \/ \E p \in Procs : Invoke(p) \/ Step(p)
    \/ Finished

Spec == Init /\ [][Next]_vars
-----------------------------------------------------------------------------
(* Properties                                                              *)

\* CMake generators that hold several configurations in one build tree.
MultiConfigGenerators ==
    {"Visual Studio 17 2022", "Visual Studio 16 2019", "Ninja Multi-Config", "Xcode"}

(***************************************************************************)
(* Every build attempt builds the Release configuration (spec.md 4.4): in  *)
(* a build tree of a multi-config generator CMAKE_BUILD_TYPE is ignored,   *)
(* so the build command that ran there must name --config Release.  The    *)
(* command is built from the invocation's detected generator, the tree is  *)
(* whatever CMakeCache.txt records when it runs.                           *)
(***************************************************************************)
ReleaseBuilt ==
    \A i \in DOMAIN history :
        history[i].type = "build" /\ history[i].tree \in MultiConfigGenerators
            => \E k \in 1..(Len(history[i].ran) - 1) :
                  history[i].ran[k] = "--config" /\ history[i].ran[k + 1] = "Release"

(***************************************************************************)
(* Not checked by a passing run (with one invocation at a time the batch  *)
(* file run is always the one just written; two invocations break it).    *)
(* The history records the command that really ran: for every attempt      *)
(* configure() or build() appended, the batch file its subprocess executed *)
(* held that invocation's own command (spec.md 3: "the exact command       *)
(* executed").                                                             *)
(***************************************************************************)
RunsOwnCommand ==
    \A i \in DOMAIN history : history[i].ran = history[i].command

(***************************************************************************)
(* Checked by the violation run executor_race (and broken one invocation  *)
(* at a time when cmake is not on PATH).                                   *)
(* spec.md 4.6: "Every invocation -- success or failure -- appends exactly *)
(* one BuildAttempt".  When an invocation is over, it has appended one     *)
(* attempt per executor call of configure() and build().                   *)
(***************************************************************************)
AttemptPerExecution ==
    \A p \in Procs : pc[p] \in {"idle", "done", "crashed"} => recs[p] = calls[p]

(***************************************************************************)
(* Not checked by a passing run: after clean has returned, no              *)
(* CMakeCache.txt remains to pin the generator.  clean() keeps the cache   *)
(* whenever one exists, so after detection changes the generator every     *)
(* configure fails and no verb of the CLI recovers.                        *)
(***************************************************************************)
CleanForgetsGenerator ==
    \A p \in Procs : pc[p] = "done" /\ verb[p] = "clean" => cache = "none"
=============================================================================
