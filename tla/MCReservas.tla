----------------------------- MODULE MCReservas -----------------------------
EXTENDS Reservas, TLC
CONSTANTS v1, v2, r1, r2, c1, k1, k2

(* All spots at one price, where no property is about prices: then the ids *)
(* too can be exchanged.                                                   *)
PrecosMC == [k \in Chaves |-> {3}]
Simetria == Permutations(Requisicoes) \cup Permutations(Vagas) \cup Permutations(Chaves)
=============================================================================
