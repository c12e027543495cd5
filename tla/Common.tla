-------------------------------- MODULE Common --------------------------------
(***************************************************************************)
(* The step constructors of include/aven/build/common.h, for one value of  *)
(* the options.  Flags, include paths, macros, libraries and arguments     *)
(* count, their text does not matter.                                      *)
(***************************************************************************)
EXTENDS StepGraph

CONSTANTS
    Opts,       \* an AvenBuildCommonOpts
    Chop        \* Chop[b] is the name b without its last character

BinType == {"CONSOLE", "WINDOW", "DLL"}

\* A flag and its argument are two words when the separator is positive.
Flagged(n, sep) == Plain(IF sep > 0 THEN 2 * n ELSE n)
OutWords(target, sep) == Plain(IF sep > 0 THEN 1 ELSE 0) \o <<Word("out", target)>>

Target(dir, base, exts) == File(dir, base, IF exts = <<>> THEN "" ELSE exts[1])

\* aven_path_fname overwrites the last character of a name it had to cut from
\* a directory, which does no harm to what comes before an extension.
fname_base(p) ==
    IF p.in # NoPath /\ p.ext = "" THEN Chop[p.base] ELSE p.base

aven_build_common_step_subdir(g, dir, name) ==
    Append(g, aven_build_step_add_dep(
                  aven_build_step_mkdir(File(g[dir].out, name, "")), dir))

\* Mutant of aven_build_common_step_add_path_deps: the PATH steps are made to
\* depend on the command, not on the directory.
AddPathDepsSwapped(g, cmd, dir, base, exts) ==
    LET extra == IF exts = <<>> THEN <<>> ELSE Tail(exts)
        side  == [i \in 1..Len(extra) |->
                    aven_build_step_add_dep(
                        aven_build_step_path(File(g[dir].out, base, extra[i])),
                        Len(g) + Len(extra) + 1)]
    IN  Append(g \o side, add_deps(cmd, [i \in 1..Len(extra) |-> Len(g) + i]))
\* Append a command, after a PATH step for every extension but the first.
aven_build_common_step_add_path_deps(g, cmd, dir, base, exts) ==
    LET extra == IF exts = <<>> THEN <<>> ELSE Tail(exts)
        side  == [i \in 1..Len(extra) |->
                    aven_build_step_add_dep(
                        aven_build_step_path(File(g[dir].out, base, extra[i])), dir)]
    IN  Append(g \o side, add_deps(cmd, [i \in 1..Len(extra) |-> Len(g) + i]))
-----------------------------------------------------------------------------
\* Mutant of CcSlots: the separate words of the macros are not counted.
CcSlotsNoMacros(incs, macros) ==
    4 + Opts.ccflags + incs + macros + IF Opts.ccsep > 0 THEN 1 + incs ELSE 0
CcSlots(incs, macros) ==
    4 + Opts.ccflags + incs + macros + IF Opts.ccsep > 0 THEN 1 + incs + macros ELSE 0

aven_build_common_step_cc_ex(g, incs, macros, src, dir) ==
    LET base   == fname_base(src)
        target == Target(g[dir].out, base, Opts.obexts)
        words  == Plain(1 + Opts.ccflags) \o Flagged(incs, Opts.ccsep)
                    \o Flagged(macros, Opts.ccsep) \o Plain(1)
                    \o OutWords(target, Opts.ccsep) \o <<Word("src", src)>>
        cmd    == aven_build_step_cmd(target, words, CcSlots(incs, macros))
    IN  aven_build_common_step_add_path_deps(
            g, aven_build_step_add_dep(cmd, dir), dir, base, Opts.obexts)

\* The words a kind of binary adds to the command of the linker.
BinWords(kind) ==
    CASE kind = "WINDOW" -> IF Opts.winflag THEN 1 ELSE 0
      [] kind = "DLL" -> 1
      [] kind = "CONSOLE" -> 0

LdSlots(libs, objs, kind) ==
    2 + Opts.ldflags + Len(objs) + libs
      + (IF Opts.ldsep > 0 THEN 1 + libs ELSE 0) + BinWords(kind)

ObjWords(g, objs) == [i \in 1..Len(objs) |-> Word("obj", g[objs[i]].out)]

\* Mutants of LinkDeps: the objects are not waited for, nor is the directory.
LinkDepsNoObjs(cmd, objs, dir) == aven_build_step_add_dep(cmd, dir)
LinkDepsNoDir(cmd, objs, dir) == add_deps(cmd, objs)
LinkDeps(cmd, objs, dir) == aven_build_step_add_dep(add_deps(cmd, objs), dir)

aven_build_common_step_ld(g, libs, objs, dir, base, kind) ==
    LET exts   == IF kind = "DLL" THEN Opts.soexts ELSE Opts.exexts
        target == Target(g[dir].out, base, exts)
        words  == Plain(1 + Opts.ldflags + BinWords(kind))
                    \o OutWords(target, Opts.ldsep) \o ObjWords(g, objs)
                    \o Flagged(libs, Opts.ldsep)
        cmd    == aven_build_step_cmd(target, words, LdSlots(libs, objs, kind))
    IN  aven_build_common_step_add_path_deps(g, LinkDeps(cmd, objs, dir), dir, base, exts)

ArSlots(objs) ==
    2 + Opts.arflags + Len(objs) + IF Opts.aroutflag /\ Opts.arsep > 0 THEN 1 ELSE 0

aven_build_common_step_ar(g, objs, dir, base) ==
    LET target == Target(g[dir].out, base, Opts.arexts)
        words  == Plain(1 + Opts.arflags)
                    \o OutWords(target, IF Opts.aroutflag THEN Opts.arsep ELSE 0)
                    \o ObjWords(g, objs)
        cmd    == aven_build_step_cmd(target, words, ArSlots(objs))
    IN  aven_build_common_step_add_path_deps(
            g, LinkDeps(cmd, objs, dir), dir, base, Opts.arexts)

\* Asserts that there is a resource compiler.
aven_build_common_step_windres(g, src, dir) ==
    LET base   == fname_base(src)
        target == Target(g[dir].out, base, Opts.wrexts)
        words  == Plain(2 + Opts.wrflags) \o <<Word("out", target), Word("src", src)>>
        cmd    == aven_build_step_cmd(target, words, 4 + Opts.wrflags)
    IN  aven_build_common_step_add_path_deps(
            g, aven_build_step_add_dep(cmd, dir), dir, base, Opts.wrexts)
-----------------------------------------------------------------------------
\* Mutants of RmObj: the object is removed once it is there, and the binary is
\* no one's output any more.
RmObjEarly(g, obj, bin) ==
    [aven_build_step_add_dep(aven_build_step_rm(g[obj].out), obj)
        EXCEPT !.out = g[bin].out]
RmObjOnly(g, obj, bin) == aven_build_step_add_dep(aven_build_step_rm(g[obj].out), bin)
\* The step that removes the object takes over the output of the link.
RmObj(g, obj, bin) ==
    [aven_build_step_add_dep(aven_build_step_rm(g[obj].out), bin)
        EXCEPT !.out = g[bin].out]

aven_build_common_step_cc_ld(g, incs, macros, libs, objs, src, dir, kind) ==
    LET compiled == aven_build_common_step_cc_ex(g, incs, macros, src, dir)
        obj      == Len(compiled)
        linked   == aven_build_common_step_ld(compiled, libs, <<obj>> \o objs, dir,
                        fname_base(compiled[obj].out), kind)
        bin      == Len(linked)
    IN  Append([linked EXCEPT ![bin].out = NoPath], RmObj(linked, obj, bin))

aven_build_common_step_run_exe(g, exe, args) ==
    LET words == <<Word("exe", g[exe].out)>> \o Plain(args)
    IN  Append(g, aven_build_step_add_dep(
                      aven_build_step_cmd(NoPath, words, 1 + args), exe))

aven_build_common_step_cc_ld_run_exe_ex(g, incs, macros, libs, objs, src, dir, graphical, args) ==
    LET linked == aven_build_common_step_cc_ld(g, incs, macros, libs, objs, src, dir,
                      IF graphical THEN "WINDOW" ELSE "CONSOLE")
    IN  aven_build_common_step_run_exe(linked, Len(linked), args)
=============================================================================
