-------------------------- MODULE MCVDiskRegistry --------------------------
(***************************************************************************)
(* Small instance of VDiskRegistry: three names for two host files, so one *)
(* file has two names.                                                     *)
(***************************************************************************)
EXTENDS VDiskRegistry, TLC

CONSTANTS a, aliasOfA, b, fa, fb

MCFileOf == a :> fa @@ aliasOfA :> fa @@ b :> fb

(* A sparse GPT disk with a partition, and a differencing image, which is  *)
(* recognised but not supported.                                           *)
MCImage == {[format |-> "dynamic", table |-> "gpt", parts |-> 1],
            [format |-> "diff", table |-> "mbr", parts |-> 0]}

Symmetry == Permutations(Id)
=============================================================================
