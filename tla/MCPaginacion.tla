---------------------------- MODULE MCPaginacion ----------------------------
(* Sizes for model-checking Paginacion.                                     *)
EXTENDS Paginacion

CONSTANTS p1, p2
\* A process with a page more than its frames, alone; a larger and a smaller one.
TamanioUno == p1 :> 3
TamanioDos == (p1 :> 2) @@ (p2 :> 1)
=============================================================================
