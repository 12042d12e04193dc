------------------------------- MODULE Inputs -------------------------------
(***************************************************************************)
(* A function of the code that is asked, and the input it is given; see    *)
(* MC_Requests, which enumerates both.                                     *)
(***************************************************************************)
CONSTANT Error   \* a function that raises gives this

VARIABLES asked, given
=============================================================================
