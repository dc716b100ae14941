------------------------------ MODULE MCParken ------------------------------
EXTENDS Parken, TLC
CONSTANTS v1, v2, r1, c1, k1, k2, e1, t1

(* Both spots are near the address; each has its own id and price.         *)
PertoMC == [e \in Enderecos |-> Vagas]
IdsMC == [v \in Vagas |-> IF v = v1 THEN 1 ELSE 2]
ChavesMC == [v \in Vagas |-> IF v = v1 THEN k1 ELSE k2]
PrecoDeMC == [v \in Vagas |-> IF v = v1 THEN 3 ELSE 5]
PrecosMC == [k \in Chaves |-> IF k = k1 THEN {3} ELSE {5}]
=============================================================================
