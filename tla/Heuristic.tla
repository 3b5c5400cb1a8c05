----------------------------- MODULE Heuristic -----------------------------
(***************************************************************************)
(* The adaptive parallelism heuristic of the build manager                 *)
(* (BuildManager._analyze_and_optimize in                                  *)
(* scripts/auto_build_manager.py), as pure operators over a build history. *)
(*                                                                         *)
(* A history is a sequence of attempt records                              *)
(*     [ts |-> t, type |-> "configure" | "build",                          *)
(*      success |-> BOOLEAN, duration |-> Int]                             *)
(* standing for the JSON objects appended by configure() and build(); the  *)
(* command string and return code are left out because the heuristic      *)
(* never reads them.                                                       *)
(*                                                                         *)
(* Durations are wall-clock floats in the code; here they are integers    *)
(* (negative after a clock step), and                                      *)
(* the float comparisons  d < avg * 0.9  and  d > avg * 1.1  are decided   *)
(* exactly by cross-multiplying with the count and the sum.                *)
(***************************************************************************)
EXTENDS Integers, Sequences, SequencesExt

\* The code slices build_history[-10:].
HistoryWindow == 10

\* The code requires at least this many successful builds in the window.
MinTrendBuilds == 3

LastN(s, n) == IF Len(s) <= n THEN s ELSE SubSeq(s, Len(s) - n + 1, Len(s))

IsSuccessfulBuild(b) == b.type = "build" /\ b.success

\* successful_builds = [b for b in build_history[-10:] if ...]
SuccessfulBuilds(hist) == SelectSeq(LastN(hist, HistoryWindow), IsSuccessfulBuild)

SumDurations(bs) == FoldLeft(LAMBDA acc, b : acc + b.duration, 0, bs)

\* last < avg * 0.9  with avg = sum / n
FasterThanAverage(last, sum, n) == 10 * last * n < 9 * sum

\* last > avg * 1.1
SlowerThanAverage(last, sum, n) == 10 * last * n > 11 * sum

\* Mutant of IncreasedJobs: the cap dropped.
IncreasedJobsUncapped(jobs, cores) == jobs + 1

\* min(parallel_jobs + 1, cpu_count() * 2)
IncreasedJobs(jobs, cores) == IF jobs + 1 < cores * 2 THEN jobs + 1 ELSE cores * 2

\* max(parallel_jobs - 1, 1)
DecreasedJobs(jobs) == IF jobs - 1 > 1 THEN jobs - 1 ELSE 1

(***************************************************************************)
(* The new parallel_jobs the code computes from the in-memory history      *)
(* (which already ends with the build just recorded), the current          *)
(* parallel_jobs and cpu_count().                                          *)
(***************************************************************************)
AnalyzeJobs(hist, jobs, cores) ==
    LET sb == SuccessfulBuilds(hist)
        n  == Len(sb)
        s  == SumDurations(sb)
        d  == IF n > 0 THEN Last(sb).duration ELSE 0
    IN  CASE n < MinTrendBuilds                 -> jobs
          [] FasterThanAverage(d, s, n)         -> IncreasedJobs(jobs, cores)
          [] SlowerThanAverage(d, s, n) /\ jobs > 1 -> DecreasedJobs(jobs)
          [] OTHER                              -> jobs

\* `if not successful_builds: return` skips the save of the optimizations.
AnalyzeSaves(hist) == Len(SuccessfulBuilds(hist)) > 0

(***************************************************************************)
(* The policy as spec.md section 4.5 and the scenarios of section 8 state  *)
(* it: the window and the average are taken over the successful builds     *)
(* recorded BEFORE the build just finished (histBefore), whose duration d  *)
(* is compared with that average.                                          *)
(***************************************************************************)
SpecAnalyzeJobs(histBefore, d, jobs, cores) ==
    LET prior == SuccessfulBuilds(histBefore)
        n     == Len(prior)
        s     == SumDurations(prior)
    IN  CASE n < MinTrendBuilds                 -> jobs
          [] FasterThanAverage(d, s, n)         -> IncreasedJobs(jobs, cores)
          [] SlowerThanAverage(d, s, n) /\ jobs > 1 -> DecreasedJobs(jobs)
          [] OTHER                              -> jobs
=============================================================================
