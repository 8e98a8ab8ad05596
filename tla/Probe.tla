-------------------------------- MODULE Probe --------------------------------
(***************************************************************************)
(* An input for operators that have no state of their own: its kind and    *)
(* the arguments. It is chosen at the start and stays.                     *)
(***************************************************************************)
VARIABLE probe
=============================================================================
