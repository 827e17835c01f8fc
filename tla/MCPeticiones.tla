---------------------------- MODULE MCPeticiones ----------------------------
(* Model-checking runs of Peticiones: every constant is given in the .cfg. *)
EXTENDS Peticiones
=============================================================================
