----------------------------- MODULE Bootstrap -----------------------------
(***************************************************************************)
(* The entry point auto_build.py (main) and the CLI contract of the        *)
(* manager it launches.                                                    *)
(*                                                                         *)
(* auto_build.py checks whether scripts/auto_build_manager.py exists; if   *)
(* not, it creates it by opening it with mode "w" and writing a fallback   *)
(* template, then it runs  python scripts/auto_build_manager.py <args>     *)
(* and exits with that process's return code.  Several invocations may run *)
(* at once (an editor task run on folder open, a Makefile target, a        *)
(* shell), and an invocation may die while writing the file.               *)
(*                                                                         *)
(* The manager file is "absent", "empty" (opened, nothing written yet:     *)
(* the template is far below the write buffer, so its text reaches the     *)
(* file at close), "stub" (the template of auto_build.py) or "full" (the   *)
(* complete manager of scripts/auto_build_manager.py).                     *)
(***************************************************************************)
EXTENDS Integers, FiniteSets

CONSTANTS
    Procs,          \* invocation slots that may run at the same time
    InitialManagers, \* what the manager file may be before any run
    CrashOnWrite,   \* TRUE: an invocation may die while creating the file
    MaxRuns         \* bound: number of invocations explored

ASSUME InitialManagers \subseteq {"absent", "full"}
ASSUME CrashOnWrite \in BOOLEAN /\ MaxRuns \in Nat

\* sys.argv[1]: verbs of both managers and one neither knows.
Verbs == {"build", "clean", "bogus"}

\* What a cmake invocation does: exits 0, exits non-zero, or is not on PATH
\* (subprocess.run raises FileNotFoundError, an uncaught exception).
CmakeResults == {"ok", "fail", "missing"}

Complete == {"stub", "full"}

\* exit -1: the invocation has not exited yet.
NoOutcome == [configure |-> "none", build |-> "none", exit |-> -1]

Outcome == [configure : CmakeResults \cup {"none"},
            build     : CmakeResults \cup {"none"},
            exit      : {-1, 0, 1}]

VARIABLES
    manager_file,   \* content of scripts/auto_build_manager.py
    pc,             \* where each invocation of auto_build.py is
    verb,           \* the verb passed on to the manager
    ran,            \* the manager content each invocation executed
    outcome,        \* what the manager ran and the exit code of auto_build.py
    runs

vars == <<manager_file, pc, verb, ran, outcome, runs>>

TypeOK ==
    /\ manager_file \in {"absent", "empty"} \cup Complete
    /\ pc \in [Procs -> {"idle", "check", "create", "write", "run", "done", "crashed"}]
    /\ verb \in [Procs -> Verbs]
    /\ ran \in [Procs -> {"none", "absent", "empty"} \cup Complete]
    /\ outcome \in [Procs -> Outcome]
    /\ runs \in 0..MaxRuns

-----------------------------------------------------------------------------
(* The managers, as functions of the verb and of what cmake does.  A cmake *)
(* that is missing for the configure step is missing for the build step.   *)

\* Mutant of StubOutcome: an escaping exception reported with exit code 2.
StubOutcomeExitTwo(v, c, b) ==
    CASE v # "build"     -> [configure |-> "none", build |-> "none", exit |-> 0]
      [] c = "missing"   -> [configure |-> c, build |-> "none", exit |-> 2]
      [] OTHER           -> [configure |-> c, build |-> b, exit |-> 0]

\* The template's main(): both cmake calls with check=False, results
\* ignored; main() is called without sys.exit, so the exit code is 0
\* unless an exception escapes.
StubOutcome(v, c, b) ==
    CASE v # "build"     -> [configure |-> "none", build |-> "none", exit |-> 0]
      [] c = "missing"   -> [configure |-> c, build |-> "none", exit |-> 1]
      [] OTHER           -> [configure |-> c, build |-> b, exit |-> 0]

\* Mutant of FullOutcome: run_command("build") returning configure()'s result.
FullOutcomeConfigureOnly(v, c, b) ==
    CASE v = "clean"     -> [configure |-> "none", build |-> "none", exit |-> 0]
      [] v = "bogus"     -> [configure |-> "none", build |-> "none", exit |-> 1]
      [] c # "ok"        -> [configure |-> c, build |-> "none", exit |-> 1]
      [] OTHER           -> [configure |-> c, build |-> b, exit |-> 0]

\* run_command of the complete manager and `return 0 if success else 1`.
FullOutcome(v, c, b) ==
    CASE v = "clean"     -> [configure |-> "none", build |-> "none", exit |-> 0]
      [] v = "bogus"     -> [configure |-> "none", build |-> "none", exit |-> 1]
      [] c # "ok"        -> [configure |-> c, build |-> "none", exit |-> 1]
      [] OTHER           -> [configure |-> c, build |-> b, exit |-> IF b = "ok" THEN 0 ELSE 1]

\* python on an empty file runs nothing and exits 0 (a missing file is never
\* run: the existence check precedes every run and nothing deletes it).
ManagerOutcome(content, v, c, b) ==
    CASE content = "stub"  -> StubOutcome(v, c, b)
      [] content = "full"  -> FullOutcome(v, c, b)
      [] OTHER             -> [configure |-> "none", build |-> "none", exit |-> 0]

-----------------------------------------------------------------------------
Init ==
    /\ manager_file \in InitialManagers
    /\ pc = [p \in Procs |-> "idle"]
    /\ verb = [p \in Procs |-> "build"]
    /\ ran = [p \in Procs |-> "none"]
    /\ outcome = [p \in Procs |-> NoOutcome]
    /\ runs = 0

\* auto_build.py is invoked; args = ["build"] if len(sys.argv) < 2 else ...
Invoke(p) ==
    /\ pc[p] \in {"idle", "done", "crashed"}
    /\ runs < MaxRuns
    /\ \E v \in Verbs : verb' = [verb EXCEPT ![p] = v]
    /\ pc' = [pc EXCEPT ![p] = "check"]
    /\ ran' = [ran EXCEPT ![p] = "none"]
    /\ outcome' = [outcome EXCEPT ![p] = NoOutcome]
    /\ runs' = runs + 1
    /\ UNCHANGED manager_file

\* if not build_manager.exists():
CheckExists(p) ==
    /\ pc[p] = "check"
    /\ pc' = [pc EXCEPT ![p] = IF manager_file = "absent" THEN "create" ELSE "run"]
    /\ UNCHANGED <<manager_file, verb, ran, outcome, runs>>

\* scripts_dir.mkdir(exist_ok=True); open(build_manager, "w") truncates.
OpenForWrite(p) ==
    /\ pc[p] = "create"
    /\ manager_file' = "empty"
    /\ pc' = [pc EXCEPT ![p] = "write"]
    /\ UNCHANGED <<verb, ran, outcome, runs>>

\* f.write(template) and the close of the with block; the chmod after it
\* ignores its errors and changes nothing modelled.
WriteTemplate(p) ==
    /\ pc[p] = "write"
    /\ manager_file' = "stub"
    /\ pc' = [pc EXCEPT ![p] = "run"]
    /\ UNCHANGED <<verb, ran, outcome, runs>>

\* The invocation dies with the file open and nothing written to it.
CrashWhileWriting(p) ==
    /\ CrashOnWrite
    /\ pc[p] = "write"
    /\ pc' = [pc EXCEPT ![p] = "crashed"]
    /\ UNCHANGED <<manager_file, verb, ran, outcome, runs>>

\* subprocess.run([sys.executable, build_manager] + args); return returncode
RunManager(p) ==
    /\ pc[p] = "run"
    /\ \E c \in CmakeResults, b \in CmakeResults :
          /\ (c = "missing") = (b = "missing")
          /\ outcome' = [outcome EXCEPT ![p] = ManagerOutcome(manager_file, verb[p], c, b)]
    /\ ran' = [ran EXCEPT ![p] = manager_file]
    /\ pc' = [pc EXCEPT ![p] = "done"]
    /\ UNCHANGED <<manager_file, verb, runs>>

Finished ==
    /\ runs = MaxRuns
    /\ \A p \in Procs : pc[p] \in {"idle", "done", "crashed"}
    /\ UNCHANGED vars

Next ==
    \/ \E p \in Procs :
          \/ Invoke(p) \/ CheckExists(p) \/ OpenForWrite(p)
          \/ WriteTemplate(p) \/ CrashWhileWriting(p) \/ RunManager(p)
    \/ Finished

Spec == Init /\ [][Next]_vars

-----------------------------------------------------------------------------
(* Properties                                                              *)

(***************************************************************************)
(* With the complete manager in place, auto_build.py exits 0 for the build *)
(* verb only if cmake configured and built successfully: "exit code 0 on  *)
(* success, 1 on failure (configure or build)" (spec.md 6).  auto_build.py *)
(* returns the return code of the manager file it ran; the template does   *)
(* not keep this contract.                                                 *)
(***************************************************************************)
ExitReflectsBuild ==
    \A p \in Procs :
        (pc[p] = "done" /\ ran[p] = "full" /\ verb[p] = "build" /\ outcome[p].exit = 0)
            => outcome[p].configure = "ok" /\ outcome[p].build = "ok"

(***************************************************************************)
(* Every invocation runs a complete manager script, never the file another *)
(* invocation (or a crashed one) has opened and not yet written.           *)
(***************************************************************************)
RunsCompleteManager == \A p \in Procs : ran[p] \in {"none"} \cup Complete
=============================================================================
