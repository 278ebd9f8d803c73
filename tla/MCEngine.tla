------------------------------ MODULE MCEngine ------------------------------
(* The engine over the abstract session, for model checking. *)
EXTENDS Engine
=============================================================================
