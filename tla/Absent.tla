------------------------------- MODULE Absent -------------------------------
(***************************************************************************)
(* Python's None, one value for the components that are reasoned about     *)
(* together.                                                               *)
(***************************************************************************)
CONSTANT None
=============================================================================
