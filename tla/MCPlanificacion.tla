-------------------------- MODULE MCPlanificacion --------------------------
(* Programs and symmetry for model-checking Planificacion.                  *)
EXTENDS Planificacion, TLC

\* A process that reaches memory and then asks for I/O twice, or once.
ProgDosEs == {<<"M", "I", "I", "E">>}
ProgMemoria == {<<"M", "I", "E">>}
ProgES == {<<"I", "E">>}
\* A process that leaves by itself and one an interruption can catch.
ProgSrt == {<<"I", "E">>, <<"N", "E">>}

Simetria == Permutations(Pids)
=============================================================================
