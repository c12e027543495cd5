------------------------------- MODULE MCShared -------------------------------
(***************************************************************************)
(* Two roots that share a compilation `cc' with a side file `pdb'          *)
(* (aven_build_common_step_add_path_deps), next to a second command `gen', *)
(* which makes nothing, as a test does.  A client may also run `cc' alone, *)
(* and then nobody waits for it.                                           *)
(***************************************************************************)
EXTENDS BuildProps, TLC

CONSTANTS all, other, cc, pdb, gen, dir,
          srcPath, objPath, pdbPath, dirPath

MCStep == {all, other, cc, pdb, gen, dir}
MCPath == {srcPath, objPath, pdbPath, dirPath}

MCType == [s \in MCStep |->
    CASE s \in {all, other} -> "ROOT" [] s \in {cc, gen} -> "CMD"
      [] s = pdb -> "PATH" [] s = dir -> "MKDIR"]
MCDep == [s \in MCStep |->
    CASE s = all -> <<gen, cc>>
      [] s = other -> <<cc>>
      [] s = cc -> <<pdb, dir>>
      [] s \in {gen, pdb} -> <<dir>>
      [] s = dir -> <<>>]
MCOut == [s \in MCStep |->
    CASE s = cc -> objPath [] s = pdb -> pdbPath [] s = dir -> dirPath [] OTHER -> NoPath]
MCArg == [s \in MCStep |-> NoPath]
MCReads == [s \in MCStep |-> IF s = cc THEN {srcPath} ELSE {}]
MCWrites == [s \in MCStep |-> IF s = cc THEN {objPath, pdbPath} ELSE {}]
MCSource == {srcPath}
MCIn == [p \in MCPath |-> IF p \in {srcPath, dirPath} THEN NoPath ELSE dirPath]
MCRoots == {all, other, cc}

PidSymmetry == Permutations(Pid)
=============================================================================
