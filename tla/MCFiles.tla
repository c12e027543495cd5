------------------------------- MODULE MCFiles -------------------------------
(***************************************************************************)
(* Two roots that share the steps the engine executes itself: a truncated  *)
(* file and a copy of it in the directory `dir', and a temporary directory *)
(* that is made and removed.  `lost' is a copy whose out_path is not       *)
(* valid, as aven_build_common_step_cc_ld leaves that of its link step.    *)
(* A file has the name of the directory at first: `dir' takes it for one,  *)
(* and the steps above fail, until a clean has removed it.                 *)
(***************************************************************************)
EXTENDS BuildProps

CONSTANTS all, other, copy, blank, dir, rmtmp, tmp, lost,
          copyPath, blankPath, dirPath, tmpPath

MCStep == {all, other, copy, blank, dir, rmtmp, tmp, lost}
MCPath == {copyPath, blankPath, dirPath, tmpPath}

MCType == [s \in MCStep |->
    CASE s \in {all, other} -> "ROOT" [] s \in {copy, lost} -> "COPY"
      [] s = blank -> "TRUNC" [] s = rmtmp -> "RMDIR" [] s \in {dir, tmp} -> "MKDIR"]
MCDep == [s \in MCStep |->
    CASE s = all -> <<copy, rmtmp>>
      [] s = other -> <<rmtmp, blank>>
      [] s = copy -> <<blank, dir>>
      [] s \in {blank, lost} -> <<dir>>
      [] s = rmtmp -> <<tmp>>
      [] s \in {dir, tmp} -> <<>>]
MCOut == [s \in MCStep |->
    CASE s = copy -> copyPath [] s = blank -> blankPath [] s = dir -> dirPath
      [] s = tmp -> tmpPath [] OTHER -> NoPath]
MCArg == [s \in MCStep |->
    CASE s \in {copy, lost} -> blankPath [] s = rmtmp -> tmpPath [] OTHER -> NoPath]
MCNothing == [s \in MCStep |-> {}]
MCIn == [p \in MCPath |-> IF p \in {dirPath, tmpPath} THEN NoPath ELSE dirPath]
MCSource == {dirPath}
MCRoots == {all, other, lost}
=============================================================================
