--------------------------- MODULE ConfigResolver ---------------------------
(***************************************************************************)
(* Environment detection of the build manager (_detect_environment and the *)
(* per-platform _detect_*_environment methods of BuildManager) across      *)
(* successive invocations on one machine.                                  *)
(*                                                                         *)
(* self.config is the platform's entry of the loaded optimizations, and    *)
(* detection writes its findings (generator fallback, compiler switch,     *)
(* Visual Studio paths) INTO that entry.  After a successful build,        *)
(* _analyze_and_optimize saves the entry, so what one invocation detected  *)
(* becomes the starting point of the next one, whose environment may have  *)
(* changed in between (tools installed or removed).                        *)
(*                                                                         *)
(* The has_* flags and version strings written into the entry are left     *)
(* out: every invocation recomputes them before reading them.              *)
(***************************************************************************)
EXTENDS Integers, Sequences, SequencesExt, FiniteSets

CONSTANTS
    Systems,        \* values platform.system().lower() may return
    VSRoots,        \* the vs_paths list, in search order
    Editions,       \* the editions list, in search order
    EnvMayChange,   \* TRUE: tools may be installed/removed between runs
    MaxRuns,        \* bound: number of invocations explored
    None            \* model value: a key absent from self.config

ASSUME Systems \subseteq {"windows", "linux", "darwin"}
ASSUME Range(VSRoots) \subseteq {"VS_PATH", "2022", "2019", "2019x86"}
ASSUME EnvMayChange \in BOOLEAN /\ MaxRuns \in Nat

Tools == {"ninja", "make", "gcc", "clang"}

\* Year of the installation under a root; VS_PATH may hold either.
Years == {2019, 2022}

\* vs_year = "2022" if "2022" in vs_path else "2019": the custom VS_PATH is
\* taken to be a path without "2022" in it (e.g. D:\VS).
PathYear(root) == IF root = "2022" THEN 2022 ELSE 2019

InstalledYear(root, env) ==
    CASE root = "VS_PATH" -> env.customYear
      [] root = "2022"    -> 2022
      [] OTHER            -> 2019

\* f"Visual Studio {17 if vs_year=='2022' else 16} {vs_year}"
VSGenerator(year) == IF year = 2022 THEN "Visual Studio 17 2022"
                                    ELSE "Visual Studio 16 2019"

Generators == {"Ninja", "Unix Makefiles", VSGenerator(2019), VSGenerator(2022)}

Installs == Range(VSRoots) \X Range(Editions)

\* Only VS_PATH can point at an installation of either year.
CustomYears == IF "VS_PATH" \in Range(VSRoots) THEN Years ELSE {2019}

(***************************************************************************)
(* An environment: the tools on PATH, the root directories that exist, the *)
(* (root, edition) pairs whose vcvarsall.bat exists, and the year of the   *)
(* installation VS_PATH points at.                                         *)
(***************************************************************************)
EnvsOf(sys) ==
    IF sys = "windows"
    THEN {e \in [tools : {{}, {"ninja"}}, dirs : SUBSET Range(VSRoots),
                 vcvars : SUBSET Installs, customYear : CustomYears] :
            \A i \in e.vcvars : i[1] \in e.dirs}
    ELSE [tools : SUBSET Tools, dirs : {{}}, vcvars : {{}}, customYear : {2019}]

Config == [generator : Generators, compiler : {"msvc", "gcc", "clang"},
           vs_path : Range(VSRoots) \cup {None}, vcvars : Installs \cup {None}]

\* DEFAULT_CONFIGS[system], without parallel_jobs (see BuildManager)
DefaultConfig(sys) ==
    [generator |-> "Ninja",
     compiler  |-> CASE sys = "windows" -> "msvc"
                     [] sys = "linux"   -> "gcc"
                     [] OTHER              -> "clang",
     vs_path   |-> None,
     vcvars    |-> None]

VARIABLES
    system,             \* platform.system().lower(), fixed for the machine
    optimization_file,  \* the platform's entry of build_optimizations.json
    env,                \* the machine as the current invocation finds it
    config,             \* self.config of the current invocation
    pc,
    runs

vars == <<system, optimization_file, env, config, pc, runs>>

TypeOK ==
    /\ system \in Systems
    /\ optimization_file \in Config \cup {None}
    /\ env \in EnvsOf(system)
    /\ config \in Config
    /\ pc \in {"idle", "configure"}
    /\ runs \in 0..MaxRuns

-----------------------------------------------------------------------------
(* Detection: each operator maps the config entry it starts from and the   *)
(* environment to the entry it leaves in self.config.                      *)

\* Editions, in order, whose vcvarsall.bat exists under root.
EditionsFound(root, e) == {j \in DOMAIN Editions : <<root, Editions[j]>> \in e.vcvars}

\* Mutant of SearchVS: the edition stored where vcvars_path belongs.
RECURSIVE SearchVSEditionAsPath(_, _, _)
SearchVSEditionAsPath(cfg, e, i) ==
    IF i > Len(VSRoots) THEN cfg
    ELSE LET root  == VSRoots[i]
             found == EditionsFound(root, e)
             next  == IF found = {} THEN cfg
                      ELSE [cfg EXCEPT !.vs_path = root,
                                       !.vcvars  = Editions[Min(found)]]
         IN  CASE root \notin e.dirs     -> SearchVSEditionAsPath(cfg, e, i + 1)
               [] next.vs_path # None    -> next
               [] OTHER                  -> SearchVSEditionAsPath(next, e, i + 1)

\* Mutant of SearchVS: the editions loop without its break (last one wins).
RECURSIVE SearchVSLastEdition(_, _, _)
SearchVSLastEdition(cfg, e, i) ==
    IF i > Len(VSRoots) THEN cfg
    ELSE LET root  == VSRoots[i]
             found == EditionsFound(root, e)
             next  == IF found = {} THEN cfg
                      ELSE [cfg EXCEPT !.vs_path = root,
                                       !.vcvars  = <<root, Editions[Max(found)]>>]
         IN  CASE root \notin e.dirs     -> SearchVSLastEdition(cfg, e, i + 1)
               [] next.vs_path # None    -> next
               [] OTHER                  -> SearchVSLastEdition(next, e, i + 1)

(***************************************************************************)
(* The vs_paths loop of _detect_windows_environment, from index i on.  A   *)
(* root that does not exist is skipped; under an existing root the first   *)
(* edition with a vcvarsall.bat is recorded; then the loop stops as soon   *)
(* as "vs_path" is in self.config, which is also the case when the loaded  *)
(* entry already carried a vs_path from an earlier invocation.             *)
(***************************************************************************)
RECURSIVE SearchVS(_, _, _)
SearchVS(cfg, e, i) ==
    IF i > Len(VSRoots) THEN cfg
    ELSE LET root  == VSRoots[i]
             found == EditionsFound(root, e)
             next  == IF found = {} THEN cfg
                      ELSE [cfg EXCEPT !.vs_path = root,
                                       !.vcvars  = <<root, Editions[Min(found)]>>]
         IN  CASE root \notin e.dirs     -> SearchVS(cfg, e, i + 1)
               [] next.vs_path # None    -> next
               [] OTHER                  -> SearchVS(next, e, i + 1)

\* Mutant of DetectWindows: no fallback to the Visual Studio generator.
DetectWindowsNoFallback(cfg, e) == SearchVS(cfg, e, 1)

\* _detect_windows_environment: Visual Studio search, then the Ninja check
\* with the fallback to the Visual Studio generator of the recorded vs_path.
DetectWindows(cfg, e) ==
    LET c == SearchVS(cfg, e, 1) IN
    IF "ninja" \in e.tools \/ c.vs_path = None THEN c
    ELSE [c EXCEPT !.generator = VSGenerator(PathYear(c.vs_path))]

\* Mutant of DetectLinux: no Makefiles fallback.
DetectLinuxNoFallback(cfg, e) ==
    IF "gcc" \notin e.tools /\ "clang" \in e.tools
    THEN [cfg EXCEPT !.compiler = "clang"] ELSE cfg

\* _detect_linux_environment: clang replaces gcc only when gcc is missing;
\* a missing ninja switches to Unix Makefiles.
DetectLinux(cfg, e) ==
    LET c == IF "gcc" \notin e.tools /\ "clang" \in e.tools
             THEN [cfg EXCEPT !.compiler = "clang"] ELSE cfg
    IN  IF "ninja" \in e.tools THEN c ELSE [c EXCEPT !.generator = "Unix Makefiles"]

\* _detect_macos_environment: only the Ninja check changes the entry.
DetectMacOS(cfg, e) ==
    IF "ninja" \in e.tools THEN cfg ELSE [cfg EXCEPT !.generator = "Unix Makefiles"]

\* _detect_environment
DetectEnvironment(cfg, e) ==
    CASE system = "windows" -> DetectWindows(cfg, e)
      [] system = "linux"   -> DetectLinux(cfg, e)
      [] OTHER              -> DetectMacOS(cfg, e)

\* self.optimizations.get(self.system, DEFAULT_CONFIGS[self.system])
LoadConfig(f) == IF f = None THEN DefaultConfig(system) ELSE f

-----------------------------------------------------------------------------
(* The external tools, as far as the entry decides whether cmake can work. *)

GeneratorAvailable(g, e) ==
    CASE g = "Ninja"          -> "ninja" \in e.tools
      [] g = "Unix Makefiles" -> "make" \in e.tools
      [] OTHER                -> \E i \in e.vcvars : VSGenerator(InstalledYear(i[1], e)) = g

\* On Windows cl.exe is reachable through the recorded vcvarsall.bat, or
\* found by a Visual Studio generator itself.
CompilerAvailable(c, e) ==
    IF system = "windows"
    THEN c.vcvars \in e.vcvars \/ (c.generator # "Ninja" /\ GeneratorAvailable(c.generator, e))
    ELSE c.compiler \in e.tools

Workable(c, e) == GeneratorAvailable(c.generator, e) /\ CompilerAvailable(c, e)

-----------------------------------------------------------------------------
Init ==
    /\ system \in Systems
    /\ optimization_file = None
    /\ env \in EnvsOf(system)
    /\ config = DefaultConfig(system)
    /\ pc = "idle"
    /\ runs = 0

\* The machine as the next invocation finds it.
NextEnvs == IF EnvMayChange THEN EnvsOf(system) ELSE {env}

\* BuildManager.__init__: load the optimizations, then _detect_environment.
Start ==
    /\ pc = "idle"
    /\ runs < MaxRuns
    /\ \E e \in NextEnvs :
          /\ env' = e
          /\ config' = DetectEnvironment(LoadConfig(optimization_file), e)
    /\ pc' = "configure"
    /\ runs' = runs + 1
    /\ UNCHANGED <<system, optimization_file>>

(***************************************************************************)
(* run_command("build") succeeds: configure() and build() both return 0,   *)
(* which needs a generator and a compiler the machine has, and             *)
(* _analyze_and_optimize saves self.config as the platform's entry.        *)
(***************************************************************************)
BuildSucceeds ==
    /\ pc = "configure"
    /\ Workable(config, env)
    /\ optimization_file' = config
    /\ pc' = "idle"
    /\ UNCHANGED <<system, env, config, runs>>

\* Any other outcome (configure or build fails, a verb other than build):
\* nothing is saved to build_optimizations.json.
BuildFails ==
    /\ pc = "configure"
    /\ pc' = "idle"
    /\ UNCHANGED <<system, optimization_file, env, config, runs>>

Finished == runs = MaxRuns /\ pc = "idle" /\ UNCHANGED vars

Next == Start \/ BuildSucceeds \/ BuildFails \/ Finished

Spec == Init /\ [][Next]_vars

-----------------------------------------------------------------------------
(* Properties                                                              *)

PlatformGenerators ==
    IF system = "windows" THEN {"Ninja", VSGenerator(2019), VSGenerator(2022)}
                          ELSE {"Ninja", "Unix Makefiles"}

(***************************************************************************)
(* The generator cmake is given is one the machine has, unless it has none *)
(* of the platform's generators: "if the preferred generator's executable  *)
(* is unavailable, fall back to a platform-appropriate alternate"          *)
(* (spec.md 4.3).  Detection only ever moves away from Ninja and names the *)
(* Visual Studio year from the vs_path string.                             *)
(***************************************************************************)
UsesAvailableGenerator ==
    pc = "configure" =>
        \/ GeneratorAvailable(config.generator, env)
        \/ \A g \in PlatformGenerators : ~GeneratorAvailable(g, env)

(***************************************************************************)
(* Not checked by a passing run: on Linux it restates the gcc/clang test,  *)
(* and on macOS the code breaks it (no compiler switch there).             *)
(* The compiler selected is one the machine has, unless it has neither gcc *)
(* nor clang: "if the preferred compiler is unavailable but an alternate   *)
(* is, switch the compiler selection" (spec.md 4.3).                       *)
(***************************************************************************)
UsesAvailableCompiler ==
    (pc = "configure" /\ system # "windows") =>
        \/ config.compiler \in env.tools
        \/ {"gcc", "clang"} \cap env.tools = {}

\* The first (root, edition) in search order with a vcvarsall.bat.
FirstActivation(e) ==
    LET roots == {i \in DOMAIN VSRoots : EditionsFound(VSRoots[i], e) # {}} IN
    IF roots = {} THEN None
    ELSE LET root == VSRoots[Min(roots)]
         IN  <<root, Editions[Min(EditionsFound(root, e))]>>

(***************************************************************************)
(* The activation script the Executor will call is the first (root,        *)
(* edition) found on this machine, and there is none recorded when none    *)
(* exists (spec.md 4.3).  Detection keeps a vs_path and vcvars_path loaded *)
(* from an earlier invocation and stops searching when it sees one.        *)
(***************************************************************************)
ActivationIsFirstFound ==
    (pc = "configure" /\ system = "windows") => config.vcvars = FirstActivation(env)
=============================================================================
