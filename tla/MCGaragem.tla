----------------------------- MODULE MCGaragem -----------------------------
EXTENDS Garagem, TLC
CONSTANTS v1, v2, c1, c2

Simetria == Permutations(Vagas) \cup Permutations(Campos)
=============================================================================
