---------------------------- MODULE MCExecutor -----------------------------
(* Windows configurations for the executor: the two generators detection  *)
(* sets, with and without vcvarsall.bat, with and without extra arguments. *)
EXTENDS Executor

MCConfigs ==
    [generator : {"Ninja", "Visual Studio 17 2022"},
     toolchain : {"C:/vcpkg/scripts/buildsystems/vcpkg.cmake"},
     compiler : {"msvc"}, optimization_level : {"O2"}, parallel_jobs : {4},
     cmake_extra_args : {<<>>}, vcvars : BOOLEAN]
=============================================================================
