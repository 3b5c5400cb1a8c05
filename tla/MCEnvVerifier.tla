--------------------------- MODULE MCEnvVerifier ---------------------------
(* A Linux machine for one run of verify_environment.py.                   *)
EXTENDS EnvVerifier

Runs(text) == [status |-> "runs", output |-> text]
NotFound   == [status |-> "absent", output |-> <<>>]
Raising    == [status |-> "raises", output |-> <<>>]

\* "cmake version 4.0.2" passes the 3.5.0 floor although 0 < 5; "3.4.9"
\* fails it; "git version 2.0" meets 2.0.0 only once padded; g++ may print
\* no version at all.
MCToolChoices ==
    ("cmake" :> {Runs(<< <<>>, <<>>, <<4,0,2>> >>), Runs(<< <<>>, <<>>, <<3,4,9>> >>)})
    @@ ("git" :> {Runs(<< <<>>, <<>>, <<2,0>> >>), NotFound})
    @@ ("g++" :> {Runs(<< <<>>, <<>>, <<>>, <<11,4,0>> >>), Runs(<< <<>> >>), Raising})
    @@ ("make" :> {Runs(<< <<>>, <<>>, <<4,0>> >>), Runs(<< <<>>, <<>>, <<3,81>> >>)})

MCDirChoices ==
    ("/opt/drogon/lib" :> {"missing", "listable", "unlistable"})
    @@ ("/usr/local/lib" :> {"missing", "listable"})
    @@ ("/usr/lib" :> {"listable"})
    @@ ("/usr/lib/x86_64-linux-gnu" :> {"listable", "unlistable"})

MCLibChoices ==
    ("JsonCpp" :> {{}, {"/opt/drogon/lib"}, {"/usr/lib"}, {"/opt/drogon/lib", "/usr/local/lib"}})
    @@ ("OpenSSL" :> {{"/usr/lib/x86_64-linux-gnu"}, {"/usr/lib", "/usr/lib/x86_64-linux-gnu"}})
    @@ [l \in {"OpenSSL Crypto", "zlib", "Brotli", "UUID"} |-> {{"/usr/lib"}}]

MCInitialLibPaths == {<<>>, <<"/opt/drogon/lib">>, <<"/usr/lib/x86_64-linux-gnu">>}

MCPackageResults == {Packages, Packages \ {"UUID"}}
=============================================================================
