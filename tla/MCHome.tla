------------------------------- MODULE MCHome -------------------------------
EXTENDS Home, TLC
CONSTANTS v1, v2, v3, e1, e2

(* The first address has the spots v1 and v2 near, the second only v2.     *)
PertoMC == [e \in Enderecos |-> IF e = e1 THEN {v1, v2} \cap Vagas ELSE {v2} \cap Vagas]

(* Unique ids, the same in the attribute and in the fields.                *)
IdsMC == [v \in Vagas |-> IF v = v1 THEN 1 ELSE IF v = v2 THEN 2 ELSE 3]
=============================================================================
