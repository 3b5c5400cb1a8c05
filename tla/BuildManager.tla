---------------------------- MODULE BuildManager ----------------------------
(***************************************************************************)
(* The build manager (class BuildManager in scripts/auto_build_manager.py) *)
(* as invocations of the CLI that share the two JSON files of the scripts  *)
(* directory: build_history.json and build_optimizations.json.             *)
(*                                                                         *)
(* Each process p of Procs is one slot in which the CLI is invoked again   *)
(* and again (an editor task, a Makefile target, a shell).  An invocation  *)
(*   - Start:     __init__ loads both files, then main() dispatches the    *)
(*                verb through run_command;                                *)
(*   - Configure: configure() runs cmake, appends one attempt to its       *)
(*                in-memory history and saves the whole history;           *)
(*   - Build:     build() does the same for the build command and, when    *)
(*                the build succeeded, runs _analyze_and_optimize, which   *)
(*                may change parallel_jobs and saves the optimizations.    *)
(* _save_json opens the file with mode "w" (truncating it) and then dumps; *)
(* a process that dies between the two leaves a file that json.load        *)
(* rejects, which the next _load_json silently replaces by its default.    *)
(* Only the platform of the running machine is modelled, so the            *)
(* optimizations file is reduced to that platform's parallel_jobs.         *)
(***************************************************************************)
EXTENDS Integers, Sequences, SequencesExt, FiniteSets, Heuristic

CONSTANTS
    Procs,          \* invocation slots that may run at the same time
    Durations,      \* wall-clock durations a build command may take
    ConfigureDurations, \* durations a cmake configure may take
    CoreCounts,     \* values multiprocessing.cpu_count() may return
    MaxRuns,        \* bound: number of CLI invocations explored
    CrashOnSave,    \* TRUE: a process may die in the middle of _save_json
    Absent,         \* model value: the file does not exist
    Corrupt         \* model value: the file holds text json.load rejects

ASSUME CrashOnSave \in BOOLEAN
ASSUME MaxRuns \in Nat /\ CoreCounts \subseteq Nat \ {0}

\* The verbs of run_command that read or write the two files.
Verbs == {"configure", "build"}

VARIABLES
    history_file,       \* content of scripts/build_history.json
    optimization_file,  \* parallel_jobs stored in build_optimizations.json
    pc,                 \* where each invocation is
    verb,               \* sys.argv[1] of the invocation
    build_history,      \* self.build_history of the invocation
    parallel_jobs,      \* self.config["parallel_jobs"] of the invocation
    cpu_count,          \* multiprocessing.cpu_count() seen by the invocation
    clock,              \* datetime.now(): the timestamp of the next attempt
    runs,               \* invocations started so far
    saved               \* observer: timestamps of attempts whose save returned

vars == <<history_file, optimization_file, pc, verb, build_history,
          parallel_jobs, cpu_count, clock, runs, saved>>

Attempt == [ts : Nat, type : Verbs, success : BOOLEAN,
            duration : Durations \cup ConfigureDurations]

\* The outcomes of a _save_json: completed, or died after truncating.
SaveOutcomes == IF CrashOnSave THEN {"saved", "crashed"} ELSE {"saved"}

TypeOK ==
    /\ history_file \in Seq(Attempt) \cup {Corrupt}
    /\ optimization_file \in Nat \cup {Absent, Corrupt}
    /\ pc \in [Procs -> {"idle", "configure", "build", "exited", "crashed"}]
    /\ verb \in [Procs -> Verbs]
    /\ build_history \in [Procs -> Seq(Attempt)]
    /\ parallel_jobs \in [Procs -> Nat]
    /\ cpu_count \in [Procs -> CoreCounts]
    /\ clock \in Nat /\ runs \in 0..MaxRuns
    /\ saved \subseteq Nat

-----------------------------------------------------------------------------
(* Loading: _load_json returns the parsed file, or the default when the    *)
(* file is absent or json.load raises.                                     *)

\* Mutant of LoadHistory: the file never read.
LoadHistoryIgnoringFile(f) == <<>>

\* self._load_json(self.history_file, [])
LoadHistory(f) == IF f = Corrupt THEN <<>> ELSE f

\* Mutant of DefaultJobs: max written for min.
DefaultJobsMaxForMin(cores) == IF cores > 16 THEN cores ELSE 16

\* DEFAULT_CONFIGS["linux"]["parallel_jobs"] = min(cpu_count(), 16)
DefaultJobs(cores) == IF cores < 16 THEN cores ELSE 16

\* Mutants of LoadJobs: an absent file not defaulted; the file never read.
LoadJobsNoAbsentDefault(f, cores) == IF f = Corrupt THEN DefaultJobs(cores) ELSE f
LoadJobsIgnoringFile(f, cores) == DefaultJobs(cores)

\* self.optimizations.get(self.system, DEFAULT_CONFIGS[...])["parallel_jobs"]
LoadJobs(f, cores) == IF f \in {Absent, Corrupt} THEN DefaultJobs(cores) ELSE f

Init ==
    /\ history_file = <<>>
    /\ optimization_file = Absent
    /\ pc = [p \in Procs |-> "idle"]
    /\ verb = [p \in Procs |-> "build"]
    /\ build_history = [p \in Procs |-> <<>>]
    /\ parallel_jobs = [p \in Procs |-> 0]
    /\ cpu_count = [p \in Procs |-> CHOOSE c \in CoreCounts : TRUE]
    /\ clock = 1
    /\ runs = 0
    /\ saved = {}

(***************************************************************************)
(* main(): BuildManager(workspace_root) loads both files, then the verb is *)
(* dispatched; run_command("build") starts with configure() as well.       *)
(***************************************************************************)
Start(p) ==
    /\ pc[p] \in {"idle", "exited", "crashed"}
    /\ runs < MaxRuns
    /\ \E v \in Verbs, c \in CoreCounts :
          /\ verb' = [verb EXCEPT ![p] = v]
          /\ cpu_count' = [cpu_count EXCEPT ![p] = c]
          /\ build_history' = [build_history EXCEPT ![p] = LoadHistory(history_file)]
          /\ parallel_jobs' = [parallel_jobs EXCEPT ![p] = LoadJobs(optimization_file, c)]
    /\ pc' = [pc EXCEPT ![p] = "configure"]
    /\ runs' = runs + 1
    /\ UNCHANGED <<history_file, optimization_file, clock, saved>>

\* Mutant of Record: the attempt inserted at the front (insert(0, ...)).
RecordPrepended(p, type, ok, d) ==
    <<[ts |-> clock, type |-> type, success |-> ok, duration |-> d]>> \o build_history[p]

\* self.build_history.append({...}) with the timestamp of this step
Record(p, type, ok, d) ==
    Append(build_history[p], [ts |-> clock, type |-> type, success |-> ok, duration |-> d])

\* self._save_json(self.history_file, self.build_history), either outcome
SaveHistory(h, outcome) ==
    IF outcome = "saved"
    THEN history_file' = h /\ saved' = saved \cup {Last(h).ts}
    ELSE history_file' = Corrupt /\ saved' = saved

(***************************************************************************)
(* configure(): run cmake, append the attempt, save the history.  For the  *)
(* "build" verb a successful configure goes on to build(), a failed one    *)
(* makes run_command return False.                                         *)
(***************************************************************************)
Configure(p) ==
    /\ pc[p] = "configure"
    /\ \E ok \in BOOLEAN, d \in ConfigureDurations, outcome \in SaveOutcomes :
          LET h == Record(p, "configure", ok, d) IN
          /\ build_history' = [build_history EXCEPT ![p] = h]
          /\ SaveHistory(h, outcome)
          /\ pc' = [pc EXCEPT ![p] =
                      CASE outcome = "crashed"        -> "crashed"
                        [] verb[p] = "build" /\ ok    -> "build"
                        [] OTHER                      -> "exited"]
    /\ clock' = clock + 1
    /\ UNCHANGED <<optimization_file, verb, parallel_jobs, cpu_count, runs>>

(***************************************************************************)
(* build(): run the build, append the attempt, save the history, and when  *)
(* the build succeeded run _analyze_and_optimize, which saves the          *)
(* optimizations unless it found no successful build in the window.        *)
(***************************************************************************)
Build(p) ==
    /\ pc[p] = "build"
    /\ \E ok \in BOOLEAN, d \in Durations, outcome \in SaveOutcomes,
          optOutcome \in SaveOutcomes :
          LET h       == Record(p, "build", ok, d)
              analyze == ok /\ AnalyzeSaves(h)
              jobs    == IF analyze THEN AnalyzeJobs(h, parallel_jobs[p], cpu_count[p])
                         ELSE parallel_jobs[p]
          IN
          /\ build_history' = [build_history EXCEPT ![p] = h]
          /\ SaveHistory(h, outcome)
          /\ IF outcome = "saved" /\ analyze
             THEN /\ parallel_jobs' = [parallel_jobs EXCEPT ![p] = jobs]
                  /\ optimization_file' = IF optOutcome = "saved" THEN jobs ELSE Corrupt
                  /\ pc' = [pc EXCEPT ![p] = IF optOutcome = "saved" THEN "exited" ELSE "crashed"]
             ELSE /\ optOutcome = "saved"
                  /\ UNCHANGED <<parallel_jobs, optimization_file>>
                  /\ pc' = [pc EXCEPT ![p] = IF outcome = "saved" THEN "exited" ELSE "crashed"]
    /\ clock' = clock + 1
    /\ UNCHANGED <<verb, cpu_count, runs>>

\* Every invocation has exited and no further one is explored.
Finished ==
    /\ runs = MaxRuns
    /\ \A p \in Procs : pc[p] \in {"idle", "exited", "crashed"}
    /\ UNCHANGED vars

Next ==
    \/ \E p \in Procs : Start(p) \/ Configure(p) \/ Build(p)
    \/ Finished

Spec == Init /\ [][Next]_vars

-----------------------------------------------------------------------------
(* Properties                                                              *)

Timestamps(h) == {h[i].ts : i \in DOMAIN h}

(***************************************************************************)
(* Every attempt whose _save_json returned is still in build_history.json: *)
(* configure() and build() persist the log immediately so that the        *)
(* history survives the invocation (spec.md 4.6), and it is append-only,   *)
(* never truncated (spec.md 3).  Breaks when a later save writes a history *)
(* that was loaded before the attempt was saved, or when the file is       *)
(* lost to a crash inside _save_json.                                      *)
(***************************************************************************)
HistoryDurable ==
    \A t \in saved : history_file # Corrupt /\ t \in Timestamps(history_file)

(***************************************************************************)
(* The parallel_jobs stored in build_optimizations.json moves by at most   *)
(* one per save: _analyze_and_optimize adjusts by a single job so that the *)
(* setting "cannot oscillate by more than one job per successful build"    *)
(* (spec.md 4.5).  A save computed from a stale value breaks it.           *)
(***************************************************************************)
JobsStepBounded ==
    [][ (optimization_file \in Nat /\ optimization_file' \in Nat)
          => optimization_file' - optimization_file \in {-1, 0, 1} ]_optimization_file

(***************************************************************************)
(* The parallel_jobs an invocation hands to "cmake --build --parallel" is  *)
(* between 1 and twice cpu_count() (spec.md 3, PlatformConfig invariant).  *)
(***************************************************************************)
JobsWithinCores ==
    \A p \in Procs : pc[p] \in {"configure", "build"}
        => parallel_jobs[p] \in 1..(2 * cpu_count[p])

(***************************************************************************)
(* build_history.json behaves as the append-only log of AttemptLog: every  *)
(* save of configure() or build() leaves the file unchanged or appends the *)
(* single newer attempt of that step.  Stated for runs without crashes,    *)
(* where the file is always a sequence.                                    *)
(***************************************************************************)
AttemptLogAbstract == INSTANCE AttemptLog WITH Attempts <- Attempt, log <- history_file

AttemptLogRefined == AttemptLogAbstract!Spec

(***************************************************************************)
(* After a successful build, parallel_jobs is what spec.md 4.5 and the     *)
(* scenarios of spec.md 8 prescribe: the duration of the build just done   *)
(* compared with the mean of the successful builds recorded before it.     *)
(***************************************************************************)
AnalyzeMatchesSpec ==
    [][ \A p \in Procs :
          (pc[p] = "build" /\ pc'[p] = "exited" /\ Last(build_history'[p]).success)
            => parallel_jobs'[p] =
                 SpecAnalyzeJobs(build_history[p], Last(build_history'[p]).duration,
                                 parallel_jobs[p], cpu_count[p]) ]_vars
=============================================================================
