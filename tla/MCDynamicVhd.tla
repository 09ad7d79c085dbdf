---------------------------- MODULE MCDynamicVhd ----------------------------
(***************************************************************************)
(* Small instance of DynamicVhd: three blocks of two units in a file that  *)
(* has room for two of them, so that the third allocation is refused as    *)
(* too big, and a misread size that cuts off the last unit.                *)
(***************************************************************************)
EXTENDS DynamicVhd

CONSTANTS zero, one
=============================================================================
