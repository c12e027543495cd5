------------------------------ MODULE BuildMain ------------------------------
(***************************************************************************)
(* The two graphs main of build.c makes with the functions of build.h: the *)
(* library, and its tests.                                                 *)
(***************************************************************************)
EXTENDS Common

CONSTANT Windows    \* _WIN32 is defined

Dir(base) == File(NoPath, base, "")
SrcDir == File(Dir("."), "src", "")

libaven_build_step(g, dir) ==
    aven_build_common_step_cc_ex(g, 1, 0, File(SrcDir, "aven", ".c"), dir)

libaven_build_windres_manifest_step(g, dir) ==
    aven_build_common_step_windres(
        g, File(File(SrcDir, "windows", ""), "manifest", ".rc"), dir)

\* Append a root with the last step of the graph as its only dependency.
RootOf(g) == Append(g, aven_build_step_add_dep(aven_build_step_root, Len(g)))

LibGraph ==
    RootOf(libaven_build_step(<<aven_build_step_mkdir(Dir("build_out"))>>, 1))

TestGraph(g) ==
    LET made     == Append(g, aven_build_step_mkdir(Dir("build_test")))
        dir      == Len(made)
        resource == libaven_build_windres_manifest_step(made, dir)
        tested(h, objs) == aven_build_common_step_cc_ld_run_exe_ex(
            h, 1, 0, 0, objs, File(NoPath, "test", ".c"), dir, FALSE, 0)
    IN  RootOf(IF Windows THEN tested(resource, <<Len(resource)>>)
                          ELSE tested(made, <<>>))

MainGraph == TestGraph(LibGraph)
root_step == Len(LibGraph)
test_root_step == Len(MainGraph)
=============================================================================
