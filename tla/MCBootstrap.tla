---------------------------- MODULE MCBootstrap ----------------------------
(* Model-checking instance of Bootstrap; the constants are set in the .cfg *)
(* files (slots as model values, the initial manager file, crash switch).  *)
EXTENDS Bootstrap
=============================================================================
