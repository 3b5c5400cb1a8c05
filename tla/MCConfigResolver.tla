-------------------------- MODULE MCConfigResolver --------------------------
(* Model-checking instance of ConfigResolver: the code's search lists cut  *)
(* to the entries that tell the cases apart (two roots, two editions).     *)
EXTENDS ConfigResolver

\* vs_paths without the custom VS_PATH entry
MCRoots == <<"2022", "2019">>

\* vs_paths starting with a custom VS_PATH
MCRootsWithVSPath == <<"VS_PATH", "2022">>

MCEditions == <<"Community", "Professional">>
=============================================================================
