---------------------------- MODULE EscolhaVaga ----------------------------
(***************************************************************************)
(* What the request form may rely on from the home screen: the spot it is  *)
(* handed comes from the result of the last search, and none is handed     *)
(* only if that result is empty.  Reservas starts from this promise (its   *)
(* Buscar, AbrirPedido and AbrirPedidoSemVaga); Home is shown to keep it,  *)
(* with its steps, its markers and its late answers.                       *)
(***************************************************************************)
CONSTANTS
  Vagas,     \* the spots there may ever be
  Nulo       \* nil

VARIABLES
  resultado, \* the spots the last search fetched
  pagina,    \* "home", or "request" when the form covers it
  recebida   \* the spot the form was handed (Nulo on the home screen)

vars == <<resultado, pagina, recebida>>

Init == resultado = {} /\ pagina = "home" /\ recebida = Nulo

Buscar == /\ pagina = "home"
          /\ resultado' \in SUBSET Vagas
          /\ UNCHANGED <<pagina, recebida>>

AbrirPedido == /\ pagina = "home"
               /\ pagina' = "request"
               /\ IF resultado = {} THEN recebida' = Nulo ELSE recebida' \in resultado
               /\ UNCHANGED resultado

Voltar == /\ pagina = "request"
          /\ pagina' = "home"
          /\ recebida' = Nulo
          /\ UNCHANGED resultado

Next == Buscar \/ AbrirPedido \/ Voltar

Spec == Init /\ [][Next]_vars
=============================================================================
