--------------------------- MODULE VidaRequisicao ---------------------------
(***************************************************************************)
(* The life of a rental request (entity Requisicao), free of screens,      *)
(* forms and network: not there, inserted blank, "Pendente", and at last   *)
(* "Aprovado" or "Rejeitado".  In memory a request moves one place at a    *)
(* time and never back; the store follows the memory as a whole, at some   *)
(* saves; a relaunch takes the memory back to the store.                   *)
(***************************************************************************)
CONSTANT Requisicoes

VARIABLES
  vista,     \* where each request stands in the managed object context
  gravada    \* where it stands in the store

vars == <<vista, gravada>>

Decididas == {"Aprovado", "Rejeitado"}
Estados == {"nenhuma", "branca", "Pendente"} \cup Decididas

(* The places a request may move to from e.                                *)
Proximos(e) == CASE e = "nenhuma"  -> {"branca"}
                 [] e = "branca"   -> {"Pendente"}
                 [] e = "Pendente" -> Decididas
                 [] OTHER          -> {}

TypeOK == vista \in [Requisicoes -> Estados] /\ gravada \in [Requisicoes -> Estados]

Init == /\ vista = [r \in Requisicoes |-> "nenhuma"]
        /\ gravada = vista

Avancar(r) == /\ \E e \in Proximos(vista[r]) : vista' = [vista EXCEPT ![r] = e]
              /\ gravada' \in {gravada, vista'}

Gravar == UNCHANGED vista /\ gravada' = vista

Relancar == vista' = gravada /\ UNCHANGED gravada

Next == (\E r \in Requisicoes : Avancar(r)) \/ Gravar \/ Relancar

Spec == Init /\ [][Next]_vars
=============================================================================
