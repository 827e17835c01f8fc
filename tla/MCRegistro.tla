----------------------------- MODULE MCRegistro -----------------------------
(* Registro with two users after one correo: one has requests to register, to try *)
(* again when told of a failure, and to log in.                                   *)
EXTENDS Registro

TresYDos == [u \in Usuarios |-> IF u = "ana" THEN 3 ELSE 2]
=============================================================================
