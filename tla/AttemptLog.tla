----------------------------- MODULE AttemptLog -----------------------------
(***************************************************************************)
(* What build_history.json promises (spec.md 3 and 4.6): an append-only    *)
(* log of attempt records, each appended once, in timestamp order, never   *)
(* rewritten, truncated or deleted.                                        *)
(***************************************************************************)
EXTENDS Integers, Sequences

CONSTANT Attempts   \* the set of attempt records

VARIABLE log

\* A record may follow the log only if it is newer than every entry in it.
Newer(r) == \A i \in DOMAIN log : log[i].ts < r.ts

AppendAttempt(r) == r \in Attempts /\ Newer(r) /\ log' = Append(log, r)

Init == log = <<>>

\* The appended record is named by the new last entry, so that Attempts
\* (which has a timestamp field over Nat) is never enumerated.
Next == Len(log') = Len(log) + 1 /\ AppendAttempt(log'[Len(log')])

Spec == Init /\ [][Next]_log
=============================================================================
