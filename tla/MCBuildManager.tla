--------------------------- MODULE MCBuildManager ---------------------------
(* Model-checking instance of BuildManager: durations of one to three time *)
(* units give faster, equal and slower builds relative to any mean.        *)
EXTENDS BuildManager

MCDurations == {1, 2, 3}

\* time.time() may step back during a build (NTP, DST on some clocks): the
\* recorded end_time - start_time is then negative.
MCDurationsWithClockStep == {-1, 1, 3}
=============================================================================
