------------------------------ MODULE MCAcesso ------------------------------
EXTENDS Acesso, TLC
CONSTANTS e1, e2
=============================================================================
