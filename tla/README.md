# TLA+ models of the Drogon auto-build scripts

This directory holds TLA+ models of the build-automation scripts of this
repository, together with the TLC configurations that check them:

- `src/auto_build.py`, the entry point;
- `src/.history/scripts/auto_build_manager_20250303234030.py`, the build manager (called "the manager" below);
- `src/.history/scripts/verify_environment_20250303234030.py`, the environment verifier, which probes tools, libraries and cmake packages, writes `scripts/environment_report.json` and exits 0 only if everything was found.

`PROJECT.json` lists the components, runs, mutants, the map from definitions to source lines, the findings and the hazards.

## The system

`auto_build.py main` runs first. It checks whether `scripts/auto_build_manager.py` exists. If it does not, it creates the file with `open(...,"w")` and writes a fallback template. It then runs that file with the verb and returns its exit code.

The complete manager handles one verb per process:

1. `main` builds a `BuildManager`.
2. `__init__` loads `build_history.json` and `build_optimizations.json` through `_load_json`, which falls back to a default when a file is missing or invalid.
3. `_detect_environment` then writes its findings into `self.config`: the generator fallback, the compiler switch, and the Visual Studio `vs_path`/`vcvars_path`. `self.config` is the platform's entry of the loaded optimizations.
4. `run_command` dispatches the verb:
   - `configure` runs cmake, appends one attempt to the in-memory history and saves the whole history;
   - `build` runs `configure` first, then does the same with the build command;
   - after a successful build, `_analyze_and_optimize` adjusts `parallel_jobs` and saves the optimizations, including everything detection wrote.

Invocations interact only through the two JSON files and the manager file. Several invocations can run at once: an editor task run on folder open, a Makefile target and a shell. Nothing locks these files. `_save_json` truncates a file before it dumps the data.

## Inventory

| Part | State | Operations | Hard behaviour |
|---|---|---|---|
| Persisted state store | the two JSON files | `_load_json`, `_save_json` | a crash between truncate and dump; last write wins between processes |
| Adaptive heuristic | `parallel_jobs` | `_analyze_and_optimize` | window includes the current build; float thresholds; cap by cores |
| Configuration resolver | `self.config`, persisted entry | `_detect_*_environment` | detection results persisted and never undone |
| Entry point | `scripts/auto_build_manager.py` | `auto_build.py main` | check-then-create; crash while writing; stub exit codes |
| CLI dispatch | exit code | `run_command`, `main` | unknown verb; build after failed configure; detection re-run by every invocation |
| Command builder | (none) | `generate_cmake_config`, `generate_build_command` | `--config` only for non-"Ninja*" generators on Windows |
| Executor and `clean` | `build/temp_build_cmd.bat`, `build/CMakeCache.txt` | `_run_windows_with_vcvars`, `clean` | fixed temp path shared by invocations; removal errors ignored; `clean` deletes the build directory's files |
| Generated artifacts | `auto_make.bat` or `Makefile`, `.vscode/tasks.json` | `generate_makefile`, `generate_vscode_integration` | entries that shell back into the CLI; a folder-open task that starts builds unasked |
| Environment prober | the process environment, the report file | `parse_version`, `compare_versions`, `check_tool`, `find_library_in_path`, `update_environment_path`, `main` | version ordering; `os.listdir` raising before the report; probes repeated for the report |

## Modules

### `Heuristic`

Pure operators for `_analyze_and_optimize`:

- `SuccessfulBuilds` filters `build_history[-10:]`.
- `FasterThanAverage` and `SlowerThanAverage` decide `d < avg*0.9` and `d > avg*1.1` exactly, by cross-multiplying. Durations are integers: the count is positive, so the cross-multiplied form stays exact for a negative duration.
- `IncreasedJobs` and `DecreasedJobs` compute the new job count.
- `AnalyzeJobs` combines the above.
- `SpecAnalyzeJobs` is the policy as spec.md 4.5 states it, with the prior builds only. It is used only as a reference.

### `BuildManager`

Each process of `Procs` is a slot in which the CLI is invoked again and again, up to `MaxRuns` invocations in total.

State:

- the two files: `history_file`, and `optimization_file`, which is reduced to the platform's `parallel_jobs`; `Absent` and `Corrupt` are model values;
- per invocation: `pc`, `verb`, `build_history`, `parallel_jobs` and `cpu_count`;
- a `clock` that gives each attempt a distinct timestamp;
- the observer `saved`: the timestamps of attempts whose save returned.

Actions:

- `Start` is `__init__` plus `main`'s dispatch.
- `Configure` is `configure()` including its save.
- `Build` is `build()` including its save and `_analyze_and_optimize` with its save.

Each save may complete or, when `CrashOnSave` holds, die after truncating, which leaves `Corrupt`. `AttemptLog` is the abstract append-only log. `BuildManager` instantiates it with `log <- history_file`.

### `ConfigResolver`

This module models detection across invocations on one machine.

- `env` is the machine: the tools on PATH, the existing Visual Studio roots, the (root, edition) pairs that have `vcvarsall.bat`, and the year of the installation `VS_PATH` points at.
- `system` (`platform.system()`) is chosen from `Systems` at `Init` and never changes.
- Between invocations the machine may change (`EnvMayChange`).
- `Start` loads the persisted entry and applies `DetectEnvironment`. `SearchVS` is the recursive `vs_paths`/`editions` loop.
- `BuildSucceeds` persists the entry. It needs a generator and a compiler the machine has, since cmake fails otherwise.
- `BuildFails` persists nothing.

### `Bootstrap`

This module models `auto_build.py main` for concurrent invocations, as the steps `CheckExists`, `OpenForWrite`, `WriteTemplate`, `CrashWhileWriting` and `RunManager`.

The manager file is `absent`, `empty`, `stub` (the template) or `full`. The template is written in a single buffered write, so its text appears on the file's close.

`RunManager` computes the exit code from what is on disk:

- `StubOutcome` for the template;
- `FullOutcome` for `run_command`/`main` of the complete manager;
- exit 0 for an empty file.

The cmake results are chosen nondeterministically. A missing cmake is missing for both steps.

### `Executor`

This module models the build directory shared by concurrent invocations (slots `Procs`, up to `MaxRuns` invocations).

- `batch` is `build/temp_build_cmd.bat`: whether it exists and the command it holds.
- `cache` is the generator recorded in `CMakeCache.txt`, or `"none"`.
- `artifacts` is the set of generated files in the workspace.
- `GenerateCmakeConfig` and `GenerateBuildCommand` are the argument lists of the Command Builder. `config[p]` is invocation `p`'s effective configuration, chosen from `Configs` whenever it starts, since `BuildManager.__init__` detects afresh. Its `vcvars` field says whether detection found `vcvarsall.bat`.
- The actions:
  - `Invoke` is `main` and `run_command` with one of the five verbs; `FirstStep` is the dispatch. After a successful configure, `build` goes on to its build stage (`NextStage`).
  - `GenerateArtifact` is `generate_makefile` (`auto_make.bat` on Windows, `Makefile` elsewhere) and `generate_vscode_integration` (`.vscode/tasks.json`). Their text is abstracted: their entries only start `build` and `clean`, which `Invoke` already covers.
  - `WriteBatch`, `RunBatch` and `Finish` are `_run_windows_with_vcvars`: writing the file, running it, then `os.remove` together with the recording that `configure()`/`build()` do after the call. `Finish` may leave the file when `DeleteMayFail` holds.
  - `RunDirect` runs the command without vcvars. When `CMakeMayBeMissing` holds, it may instead raise `FileNotFoundError`, which nothing catches, and the invocation ends (`crashed`). Inside the batch file, a missing cmake is only a failing line, one of the `CMakeOutcomes`.
  - `Clean` is `clean()`: with a cache it runs cmake's clean target through the executor; without one it deletes the build directory's files.
- `CMakeOutcomes` is what cmake can do with the command that ran. A configure fails against a `CMakeCache.txt` of another generator and leaves it in place. Otherwise it may succeed and write the cache, or fail before or after writing it. A build or clean target fails when there is no cache.
- `RunBatch` runs whatever the file holds at that moment. If the file is gone, `FileNotFoundError` ends the invocation (`crashed`).
- The auxiliary variables record what actually ran (`ran`, the `ran` field of each attempt) and how many executor calls and attempts an invocation made (`calls`, `recs`).

### `EnvVerifier`

This module models one run of `verify_environment.py` on a machine chosen at `Init` that does not change during the run.

- The machine (`machine`) records, for each required tool, whether it is on PATH, whether running it raises, and the text it prints. It also records each directory as missing, listable or unlistable, and which directories hold a file matching each library's pattern.
- A tool's text is its sequence of tokens. A token is the tuple of numbers of one run of digits and dots, and a word is `<<>>`. `ParseVersion` (with the recursive `PadZeros`) and `CompareVersions` (Python's list `>=` as the recursive `ListGeq`) work on those tokens. `CheckTool` keeps `check_tool`'s order of tests.
- `path` is the library path variable. `UpdatePath` is `update_environment_path`, including its substring test (`IsSubstring` on the joined string). `Search` is the recursive loop of `find_library_in_path`: it skips missing directories, an unlistable directory raises, and the first match wins.
- The actions are `main`'s phases:
  - `UpdateEnvironmentPath`;
  - `CheckTools`;
  - `CheckLibraries`, where a raising lookup exits 1 through the `__main__` handler with no report;
  - `CheckCMakeModules`, where cmake's package result is nondeterministic;
  - `SaveReport`, which runs the second probes, saves the report and sets the exit code;
  - `Finished`.
- `SpecVersion`, `SpecAtLeast`, `SpecToolAvailable` and `SpecFirstMatch` are spec.md 4.2's wording, written independently of the code and used only as references.

The MC modules (`MCBuildManager`, `MCConfigResolver`, `MCBootstrap`, `MCEnvVerifier`, `MCExecutor`) give the sequence-valued and set-valued constants.

## Runs

Pass runs:

| Run | What it shows |
|---|---|
| `single` | 6 sequential invocations on 2 cores. The history is never lost (`HistoryDurable`) and refines `AttemptLog` (`AttemptLogRefined`). `parallel_jobs` stays in 1..2·cores (`JobsWithinCores`) and moves by at most 1 per save (`JobsStepBounded`). |
| `crash_pass` | With crashes inside either save, and a build duration of -1 after the clock steps back, `parallel_jobs` stays in 1..2·cores (`JobsWithinCores`; spec.md 8: for any sequence of durations), including when a lost optimizations file falls back to the default. |
| `detect_fixed` | On an unchanging Linux or Windows machine, detection picks an available generator (`UsesAvailableGenerator`), and records the first (root, edition) found. |
| `bootstrap_single` | One invocation at a time, either on a fresh checkout, where an invocation may die while creating the file, or with the complete manager installed. A build verb under the complete manager exits 0 only if both configure and build succeeded (`ExitReflectsBuild`). |
| `executor_single` | Sequential invocations of all five verbs on Windows, each re-detecting its configuration, with and without vcvars, with failing removals and with cmake possibly missing from PATH. A build in a Visual Studio tree passes `--config Release` (`ReleaseBuilt`). |
| `env_pass` | On every Linux machine of the bounds, tool verdicts equal spec.md 4.2's padded lexicographic floor check, and each library result is the first match. |

Violation runs each show one finding of `PROJECT.json`:

| Run | What TLC finds |
|---|---|
| `crash_loss` | A crash mid-save wipes the history. |
| `race_history` | Two invocations: a saved attempt is overwritten. |
| `windows_stale_vcvars` | A persisted `vs_path`/`vcvars_path` is never re-searched after Visual Studio changes. |
| `bootstrap_race` | A second invocation runs the empty file the first has just opened. |
| `executor_race` | Two invocations on Windows. One removes `temp_build_cmd.bat` (its own `os.remove`, or `clean` without a cache) before the other runs it; the other dies with `FileNotFoundError` and records no attempt. cmake is on PATH in this run, so the race is the only cause. |
| `env_report_lost` | An existing but unreadable library directory ends `main` before `environment_report.json` is written, against spec.md 6. |

TLC also finds these properties violated, with the constants changed as stated. They are listed as hazards in `PROJECT.json`, not as separate runs:

- `UsesAvailableGenerator` on a Linux machine whose tools change;
- `UsesAvailableGenerator` with `VSRoots <- MCRootsWithVSPath` (the year guessed from the path);
- `UsesAvailableCompiler` on macOS (`Systems = {"darwin"}`): `_detect_macos_environment` never switches the compiler;
- `JobsWithinCores` with `CoreCounts` {1,2}: a persisted `parallel_jobs` exceeds 2·cores on a smaller machine;
- `AnalyzeMatchesSpec` (a `PROPERTY` of `BuildManager`) under `single.cfg`: the window counts the current build, unlike spec.md 4.5;
- `RunsOwnCommand` in the `executor_race` setting: an invocation runs the batch file another one has just rewritten;
- `AttemptPerExecution` under `executor_single.cfg` (`CMakeMayBeMissing = TRUE`): without vcvars, `subprocess.run` raises `FileNotFoundError` when cmake is not on PATH, and the invocation ends without its attempt;
- `ReleaseBuilt` with a persisted `Ninja Multi-Config` generator;
- `CleanForgetsGenerator` under `executor_single.cfg`: `clean` keeps a `CMakeCache.txt`, so after detection switches the generator, every configure fails and no verb recovers;
- `ExitReflectsBuild` when its restriction to the complete manager is dropped: the fallback template exits 0 after a failed cmake.

`UsesAvailableCompiler`, `RunsOwnCommand`, `CleanForgetsGenerator` and `AnalyzeMatchesSpec` are defined in their modules for these checks but are not in a passing run: where the code is right, they would only restate a guard or an assignment.

Every property of a pass run has a mutant in `PROJECT.json`: a plausible bug of the code that TLC finds under that run's configuration.

## Bounds

- **History.** Three build durations {1,2,3} with `MaxRuns` 6 give histories with three or more successful builds. So the increase, the decrease and the "unchanged" branch of the heuristic all happen, and the job count reaches its cap of 4 on 2 cores. `crash_pass` uses {-1,1,3}: a duration of -1 after a clock step, with a faster and a slower build.
- **Configure duration.** This is fixed at 1: the heuristic never reads it.
- **Core counts.** {1,2} is enough to show the stale clamp.
- **Visual Studio.** Two roots and two editions are enough for "first found" to differ from "last found", and for a persisted root to shadow another.
- **Races.** Two slots suffice, since each race involves two invocations.
- **Executor.** Three sequential invocations cover configure, build, and a clean with and without a cache. Together with a removal that fails, they let a stale batch file meet the next write. Three invocations also reach a configure with one generator, a clean that keeps its cache, and a configure with the other generator that cmake refuses. The configurations differ only in generator (Ninja or Visual Studio 17 2022) and `vcvars`; the other fields do not change control flow on Windows. The race needs only two invocations: a write and a removal.
- **Verifier.** The tool outputs include the cases where a wrong comparison goes astray:
  - cmake 4.0.2 against the 3.5.0 floor breaks a componentwise comparison;
  - git 2.0 against 2.0.0 breaks an unpadded one;
  - a text with no version, 3.4.9 and make 3.81 are below their floors.

  Directory states include a missing directory before a match, an unreadable one before and after a match, and an initial `LD_LIBRARY_PATH` containing `/usr/lib/x86_64-linux-gnu`. That last case makes the substring test skip `/usr/lib`.

## Fairness and liveness

No fairness is assumed and no liveness is checked. No step of the code waits on anything except the subprocess it has started. So under fairness, termination would hold by the shape of the model. And the one way an invocation really hangs, a cmake that never returns (the code sets no timeout), is exactly what a fairness assumption would exclude. That hang is a `liveness` hazard in `PROJECT.json` without a property.

`Finished` lets a run stop once `MaxRuns` invocations have exited, so deadlock checking stays on for every other state.

## Not modelled, and the plan

The next modules, in order:

1. A two-slot run that shows `JobsStepBounded` broken by lost optimization updates. The run list is full, so this would replace a violation run.

`Executor` chooses the detected configuration from `Configs` rather than composing `ConfigResolver`. Detection's own properties are checked there. What matters to the executor is only that the generator can change between invocations.

In `EnvVerifier`, the machine does not change during a run, so the second probes of the report agree with the first; the race with another process is a hazard. The Windows `cl` and `vcpkg` branches and the Windows and macOS paths are in the operators, but the runs use Linux. `check_enviro_script_setup` and `check_vscode_integration` only feed report flags that no property reads.

The report printing of the verifier writes fixed text and is left out. So is the text of the generated artifacts: they are modelled as files that exist. That a user's own `tasks.json` or `Makefile` is replaced is therefore a hazard without a property.
