----------------------------- MODULE MCConsola -----------------------------
(* Files for model-checking Consola.                                        *)
EXTENDS Consola

Linea(nombre, numeros) ==
  <<<<nombre, 0>>>> \o [j \in DOMAIN numeros |-> <<"numero", numeros[j]>>]

\* Every operation, with and without something after EXIT; COPY before it, twice, and
\* after it; an operation that is not one, and a parameter that is no number.
Fuentes == {
  <<Linea("NO_OP", <<2>>), Linea("WRITE", <<4, 42>>), Linea("EXIT", << >>)>>,
  <<Linea("COPY", <<0, 4>>), Linea("I/O", <<300>>), Linea("COPY", <<8, 12>>), Linea("EXIT", << >>),
    Linea("READ", <<7>>)>>,
  <<Linea("READ", <<7>>), Linea("EXIT", << >>), Linea("COPY", <<1, 2>>)>>,
  <<Linea("SALTO", <<1>>), Linea("EXIT", << >>)>>,
  <<<<<<"READ", 0>>, <<"letra", 0>>>>, Linea("EXIT", << >>)>> }

ArchivosMC ==
  {[fuente |-> f, palabras |-> FlattenSeq(f), salto |-> s] : f \in Fuentes, s \in BOOLEAN}
=============================================================================
