---------------------------- MODULE AcervoVagas ----------------------------
(***************************************************************************)
(* The spots as the rest of the app sees them in one run of the program:   *)
(* each appears once, with the fields it keeps, and may vanish for good.   *)
(* When the program starts again, whatever was saved is there.  The home   *)
(* screen relies on it while it shows spots, and the garage keeps it.      *)
(***************************************************************************)
CONSTANTS
  Vagas,     \* pool of spots
  Campos,    \* what a spot keeps of its form
  Ausente    \* the spot is not there

VARIABLES acervo, apagadas

vars == <<acervo, apagadas>>

Init == acervo \in [Vagas -> Campos \cup {Ausente}] /\ apagadas = {}

Inserir(v) ==
  /\ acervo[v] = Ausente /\ v \notin apagadas
  /\ \E c \in Campos : acervo' = [acervo EXCEPT ![v] = c]
  /\ UNCHANGED apagadas

Apagar(v) ==
  /\ acervo[v] # Ausente
  /\ acervo' = [acervo EXCEPT ![v] = Ausente]
  /\ apagadas' = apagadas \cup {v}

Recomecar == acervo' \in [Vagas -> Campos \cup {Ausente}] /\ apagadas' = {}

Next == (\E v \in Vagas : Inserir(v) \/ Apagar(v)) \/ Recomecar

Spec == Init /\ [][Next]_vars
=============================================================================
