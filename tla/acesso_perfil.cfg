CONSTANTS
  e1 = e1
  e2 = e2
  Emails = {e1, e2}
  Nulo = Nulo
  MaxPedidos = 2
  MaxFalhas = 0
  MaxReinicios = 0
SPECIFICATION Spec
INVARIANTS PerfilDoDono
