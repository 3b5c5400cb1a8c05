---------------------------- MODULE EnvVerifier ----------------------------
(***************************************************************************)
(* The environment verification tool, scripts/verify_environment.py: one  *)
(* run of main() on a machine, as its phases                               *)
(*   update_environment_path -> check_tool for every required tool ->      *)
(*   find_library_in_path for every required library ->                   *)
(*   check_cmake_modules -> the report, which probes tools and libraries   *)
(*   a second time, and the exit code.                                     *)
(* An exception that escapes a phase ends the run through the handler of   *)
(* the __main__ block with exit code 1.                                    *)
(*                                                                         *)
(* The text a tool prints is abstracted to its sequence of tokens, where a *)
(* token is the tuple of the numbers of one maximal run of digits and dots *)
(* ("cmake version 3.28.1" is << <<>>, <<>>, <<3,28,1>> >>, a word is     *)
(* <<>>).  The regular expression \d+\.\d+(\.\d+)? then matches at the     *)
(* first token with at least two numbers, and takes at most three of them. *)
(* Directory names are strings because update_environment_path tests a     *)
(* path with a substring test on the joined variable.                      *)
(***************************************************************************)
EXTENDS Integers, Sequences, SequencesExt

CONSTANTS
    System,         \* platform.system().lower()
    ToolChoices,    \* tool -> the states its executable may be in
    DirChoices,     \* directory -> "missing", "listable" or "unlistable"
    LibChoices,     \* library -> the sets of directories holding a matching file
    InitialLibPaths, \* the library path variable at start, as its entries
    PackageResults, \* sets of packages the cmake test may report found
    VSCmdValues     \* whether VSCMD_ARG_TGT_ARCH is set (Windows)

ASSUME System \in {"windows", "linux", "darwin"}

\* COMMON_REQUIRED and PLATFORM_REQUIRED: command name -> min_version, with
\* None (no floor) written as the empty text.
Required ==
    LET common == ("cmake" :> << <<3,5,0>> >>) @@ ("git" :> << <<2,0,0>> >>) IN
    CASE System = "windows" -> common @@ ("ninja" :> << <<1,8,0>> >>)
                                      @@ ("cl" :> <<>>) @@ ("vcpkg" :> <<>>)
      [] System = "linux"   -> common @@ ("g++" :> << <<7,0,0>> >>) @@ ("make" :> << <<4,0>> >>)
      [] OTHER              -> common @@ ("clang++" :> << <<9,0,0>> >>)

Tools == DOMAIN Required

\* REQUIRED_LIBRARIES[system], by name (the file patterns are abstracted to
\* which directories hold a matching file).
Libs == {"JsonCpp", "OpenSSL", "OpenSSL Crypto", "zlib", "Brotli", "UUID"}

\* find_library_in_path: the standard directories appended to the variable.
Fallbacks ==
    CASE System = "windows" -> <<"C:\\Windows\\System32", "C:\\vcpkg\\installed\\x64-windows\\bin">>
      [] System = "darwin"  -> <<"/usr/local/lib", "/usr/lib">>
      [] OTHER              -> <<"/usr/local/lib", "/usr/lib", "/usr/lib/x86_64-linux-gnu">>

\* update_environment_path: the directories it may prepend, in loop order.
PathsToAdd ==
    CASE System = "windows" -> <<"C:\\vcpkg\\installed\\x64-windows\\bin">>
      [] System = "darwin"  -> <<"/usr/local/lib", "/usr/local/opt/openssl/lib",
                                 "/usr/local/opt/jsoncpp/lib">>
      [] OTHER              -> <<"/usr/local/lib", "/usr/lib", "/usr/lib/x86_64-linux-gnu">>

Separator == IF System = "windows" THEN ";" ELSE ":"

Packages == {"OpenSSL", "ZLIB", "jsoncpp", "UUID"}

\* The state of a tool's executable: not on PATH, on PATH but running it
\* raises, or it runs and prints a text.
ToolState == [status : {"absent", "raises", "runs"}, output : Seq(Seq(Nat))]

Machine == [tools : [Tools -> ToolState], dirs : [DOMAIN DirChoices -> {"missing", "listable", "unlistable"}],
            libs : [Libs -> SUBSET DOMAIN DirChoices], vscmd : BOOLEAN]

\* A library lookup: the directory of the first match, "" for none, or the
\* exception os.listdir raised.
LibResult == [outcome : {"found", "none", "raised"}, path : DOMAIN DirChoices \cup {""}]

VARIABLES
    machine,        \* the machine, as the run finds it
    path,           \* the entries of LD_LIBRARY_PATH / DYLD_LIBRARY_PATH / PATH
    pc,
    tools_ok,       \* check_tool results of the checking pass
    libs_found,     \* find_library_in_path results of the checking pass
    packages,       \* packages the cmake test found
    report,         \* environment_report.json, with saved = FALSE until written
    exit_code       \* -1 until the process exits

vars == <<machine, path, pc, tools_ok, libs_found, packages, report, exit_code>>

TypeOK ==
    /\ machine \in Machine
    /\ path \in Seq(STRING)
    /\ pc \in {"start", "tools", "libs", "cmake", "report", "exited"}
    /\ tools_ok \in [Tools -> BOOLEAN]
    /\ libs_found \in [Libs -> LibResult]
    /\ packages \subseteq Packages
    /\ report \in [saved : BOOLEAN, tools : [Tools -> BOOLEAN], libs : [Libs -> LibResult]]
    /\ exit_code \in {-1, 0, 1}

-----------------------------------------------------------------------------
(* Version parsing and comparison                                          *)

\* while len(components) < 3: components.append('0')
RECURSIVE PadZeros(_)
PadZeros(c) == IF Len(c) < 3 THEN PadZeros(Append(c, 0)) ELSE c

\* parse_version: re.search(r'(\d+\.\d+(\.\d+)?)'), split, pad, int.
ParseVersion(text) ==
    LET hits == {i \in DOMAIN text : Len(text[i]) >= 2} IN
    IF hits = {} THEN <<0, 0, 0>>
    ELSE LET tok == text[Min(hits)] IN PadZeros(SubSeq(tok, 1, IF Len(tok) > 3 THEN 3 ELSE Len(tok)))

\* Python's list comparison  v1 >= v2.
RECURSIVE ListGeq(_, _)
ListGeq(a, b) ==
    CASE b = <<>>          -> TRUE
      [] a = <<>>          -> FALSE
      [] Head(a) # Head(b) -> Head(a) > Head(b)
      [] OTHER             -> ListGeq(Tail(a), Tail(b))

\* Mutant of CompareVersions: every component compared on its own.
CompareVersionsComponentwise(version1, version2) ==
    LET a == ParseVersion(version1)  b == ParseVersion(version2)
    IN  \A i \in 1..3 : a[i] >= b[i]

\* compare_versions: True if version1 >= version2
CompareVersions(version1, version2) == ListGeq(ParseVersion(version1), ParseVersion(version2))

(***************************************************************************)
(* check_tool: cl on Windows needs the Visual Studio prompt and to be on   *)
(* PATH; otherwise not on PATH -> False; running it raises -> False;       *)
(* vcpkg -> True; a floor the parsed output does not reach -> False.       *)
(***************************************************************************)
CheckTool(t, m) ==
    CASE t = "cl" /\ System = "windows" -> m.vscmd /\ m.tools[t].status # "absent"
      [] m.tools[t].status # "runs"     -> FALSE
      [] t = "vcpkg"                    -> TRUE
      [] Required[t] # <<>>             -> CompareVersions(m.tools[t].output, Required[t])
      [] OTHER                          -> TRUE

-----------------------------------------------------------------------------
(* Library search and the path variable                                    *)

\* Python's  a in b  on two strings.
IsSubstring(a, b) ==
    \E i \in 1..(Len(b) - Len(a) + 1) : SubSeq(b, i, i + Len(a) - 1) = a

\* The variable's value: its entries joined by the separator.
Joined(entries) ==
    FoldLeft(LAMBDA acc, e : IF acc = "" THEN e ELSE acc \o Separator \o e, "", entries)

(***************************************************************************)
(* update_environment_path: every directory of PathsToAdd that exists and  *)
(* is not a substring of the variable is prepended to it (Windows has one *)
(* such directory, so its single test is the same loop).                   *)
(***************************************************************************)
UpdatePath(entries, m) ==
    FoldLeft(LAMBDA cur, d :
                IF m.dirs[d] # "missing" /\ ~IsSubstring(d, Joined(cur))
                THEN <<d>> \o cur ELSE cur,
             entries, PathsToAdd)

\* The directories find_library_in_path scans: the variable, then the
\* fallbacks, without empty entries.
SearchPaths(entries) == SelectSeq(entries \o Fallbacks, LAMBDA d : d # "")

NoMatch == [outcome |-> "none", path |-> ""]

\* Mutant of Search: a missing directory ends the scan.
RECURSIVE SearchStopsAtMissing(_, _, _, _)
SearchStopsAtMissing(l, m, dirs, i) ==
    IF i > Len(dirs) THEN NoMatch
    ELSE LET d == dirs[i] IN
         CASE m.dirs[d] = "missing"    -> NoMatch
           [] m.dirs[d] = "unlistable" -> [outcome |-> "raised", path |-> d]
           [] d \in m.libs[l]          -> [outcome |-> "found", path |-> d]
           [] OTHER                    -> SearchStopsAtMissing(l, m, dirs, i + 1)

(***************************************************************************)
(* The loop of find_library_in_path from the i-th directory on: a missing  *)
(* directory is skipped, os.listdir of an unreadable one (or of a file)    *)
(* raises out of the function, and the first listed file that matches the  *)
(* pattern returns.                                                        *)
(***************************************************************************)
RECURSIVE Search(_, _, _, _)
Search(l, m, dirs, i) ==
    IF i > Len(dirs) THEN NoMatch
    ELSE LET d == dirs[i] IN
         CASE m.dirs[d] = "missing"    -> Search(l, m, dirs, i + 1)
           [] m.dirs[d] = "unlistable" -> [outcome |-> "raised", path |-> d]
           [] d \in m.libs[l]          -> [outcome |-> "found", path |-> d]
           [] OTHER                    -> Search(l, m, dirs, i + 1)

FindLibraryInPath(l, m, entries) == Search(l, m, SearchPaths(entries), 1)

\* The loop over REQUIRED_LIBRARIES: one lookup that raises ends main.
LibLookupRaises(m, entries) ==
    \E l \in Libs : FindLibraryInPath(l, m, entries).outcome = "raised"

\* Mutant of ExitCode: the number of failed checks returned.
ExitCodeCountsFailures(tools, libs, pkgs) ==
    Cardinality({t \in Tools : ~tools[t]}) + Cardinality({l \in Libs : libs[l].outcome # "found"})
        + Cardinality(Packages \ pkgs)

\* return 0 if all_tools_available and all_libs_available else 1, where a
\* package the cmake test did not find also clears all_libs_available.
ExitCode(tools, libs, pkgs) ==
    IF /\ \A t \in Tools : tools[t]
       /\ \A l \in Libs : libs[l].outcome = "found"
       /\ pkgs = Packages
    THEN 0 ELSE 1
-----------------------------------------------------------------------------
(* One run of main()                                                       *)

\* All functions f with f[x] \in F[x] for every x of F's domain.
PerKeyChoices(F) == {f \in [DOMAIN F -> UNION Range(F)] : \A x \in DOMAIN F : f[x] \in F[x]}

Init ==
    /\ machine \in [tools : PerKeyChoices(ToolChoices), dirs : PerKeyChoices(DirChoices),
                    libs : PerKeyChoices(LibChoices), vscmd : VSCmdValues]
    /\ path \in InitialLibPaths
    /\ pc = "start"
    /\ tools_ok = [t \in Tools |-> FALSE]
    /\ libs_found = [l \in Libs |-> NoMatch]
    /\ packages = {}
    /\ report = [saved |-> FALSE, tools |-> tools_ok, libs |-> libs_found]
    /\ exit_code = -1

\* update_environment_path(); the setup and editor checks only print.
UpdateEnvironmentPath ==
    /\ pc = "start"
    /\ path' = UpdatePath(path, machine)
    /\ pc' = "tools"
    /\ UNCHANGED <<machine, tools_ok, libs_found, packages, report, exit_code>>

\* The loops over COMMON_REQUIRED and PLATFORM_REQUIRED[system].
CheckTools ==
    /\ pc = "tools"
    /\ tools_ok' = [t \in Tools |-> CheckTool(t, machine)]
    /\ pc' = "libs"
    /\ UNCHANGED <<machine, path, libs_found, packages, report, exit_code>>

\* The loop over REQUIRED_LIBRARIES[system].  An exception of os.listdir
\* reaches the handler of __main__: exit 1, no report.
CheckLibraries ==
    /\ pc = "libs"
    /\ IF LibLookupRaises(machine, path)
       THEN /\ exit_code' = 1
            /\ pc' = "exited"
            /\ UNCHANGED libs_found
       ELSE /\ libs_found' = [l \in Libs |-> FindLibraryInPath(l, machine, path)]
            /\ pc' = "cmake"
            /\ UNCHANGED exit_code
    /\ UNCHANGED <<machine, path, tools_ok, packages, report>>

\* check_cmake_modules(): which packages cmake reports as found is up to the
\* cmake run; an exception of the run reports none.
CheckCMakeModules ==
    /\ pc = "cmake"
    /\ packages' \in PackageResults \cup {{}}
    /\ pc' = "report"
    /\ UNCHANGED <<machine, path, tools_ok, libs_found, report, exit_code>>

\* The report probes every tool and library again and is saved; main
\* returns the verdict of the checking pass.  The machine is the one of the
\* checking pass, so the second lookups do not raise either.
SaveReport ==
    /\ pc = "report"
    /\ report' = [saved |-> TRUE,
                  tools |-> [t \in Tools |-> CheckTool(t, machine)],
                  libs  |-> [l \in Libs |-> FindLibraryInPath(l, machine, path)]]
    /\ exit_code' = ExitCode(tools_ok, libs_found, packages)
    /\ pc' = "exited"
    /\ UNCHANGED <<machine, path, tools_ok, libs_found, packages>>

\* The process has exited.
Finished ==
    /\ pc = "exited"
    /\ UNCHANGED vars

Next ==
    \/ UpdateEnvironmentPath
    \/ CheckTools
    \/ CheckLibraries
    \/ CheckCMakeModules
    \/ SaveReport
    \/ Finished

Spec == Init /\ [][Next]_vars
-----------------------------------------------------------------------------
(* Properties                                                              *)

\* spec.md 4.2 (c): the first dotted token, zero-padded to three numbers,
\* "0.0.0" when there is none.
SpecVersion(text) ==
    IF \A i \in DOMAIN text : Len(text[i]) < 2 THEN <<0, 0, 0>>
    ELSE LET tok == text[CHOOSE i \in DOMAIN text :
                            Len(text[i]) >= 2 /\ \A j \in 1..(i - 1) : Len(text[j]) < 2]
         IN  [k \in 1..3 |-> IF k <= Len(tok) THEN tok[k] ELSE 0]

\* "compare lexicographically component-by-component"
SpecAtLeast(a, b) ==
    a = b \/ \E k \in 1..3 : a[k] > b[k] /\ \A j \in 1..(k - 1) : a[j] = b[j]

\* spec.md 4.2 (a)-(d): not found, raising or below the floor is unavailable.
SpecToolAvailable(t, m) ==
    /\ m.tools[t].status = "runs"
    /\ Required[t] # <<>> => SpecAtLeast(SpecVersion(m.tools[t].output), SpecVersion(Required[t]))

\* The tools spec.md 4.2 covers: cl on Windows is gated on the prompt instead.
SpecTools == IF System = "windows" THEN Tools \ {"cl"} ELSE Tools

\* "first match wins": the first existing directory of the variable, then the
\* fallbacks, that holds a matching file.
SpecFirstMatch(l, m, entries) ==
    LET D == entries \o Fallbacks
        hits == {i \in DOMAIN D : D[i] # "" /\ m.dirs[D[i]] = "listable" /\ D[i] \in m.libs[l]}
    IN  IF hits = {} THEN NoMatch ELSE [outcome |-> "found", path |-> D[Min(hits)]]

(***************************************************************************)
(* After the tool checks of main, every tool's verdict is the one of       *)
(* spec.md 4.2: parse_version, compare_versions (Python list comparison)   *)
(* and check_tool's order of tests agree with the padded lexicographic     *)
(* comparison for every tool output the machine can print.                 *)
(***************************************************************************)
ToolVerdictMatchesSpec ==
    pc \notin {"start", "tools"} =>
        \A t \in SpecTools : tools_ok[t] = SpecToolAvailable(t, machine)

(***************************************************************************)
(* Once find_library_in_path has run for every library without raising,   *)
(* each result is the first match of the updated variable and the fallback *)
(* directories, as spec.md 4.2 says: skipping a missing directory does not *)
(* end the scan, and the variable comes before the fallbacks.              *)
(***************************************************************************)
LibraryIsFirstMatch ==
    pc \in {"cmake", "report"} \/ report.saved =>
        \A l \in Libs : libs_found[l] = SpecFirstMatch(l, machine, path)

(***************************************************************************)
(* spec.md 6: the diagnostic report is "written to a fixed path after      *)
(* every run".  An os.listdir error in find_library_in_path ends main      *)
(* through the __main__ handler before the report is saved.                *)
(***************************************************************************)
ReportWritten ==
    pc = "exited" => report.saved
=============================================================================
