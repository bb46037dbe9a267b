----------------------------- MODULE MCConexion -----------------------------
(* Instances of Conexion for TLC.                                           *)
EXTENDS Conexion

\* The pids procesar_socket gives the first consoles.
DosPids == {0, 1}

\* How far Conexion.cfg follows a behaviour.
EnTurno == ~mezclado
=============================================================================
