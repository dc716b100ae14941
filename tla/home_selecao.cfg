CONSTANTS
  v1 = v1
  v2 = v2
  v3 = v3
  e1 = e1
  e2 = e2
  Vagas = {v1, v2}
  Enderecos = {e1}
  Textos = {t1}
  Perto <- PertoMC
  IdGravado <- IdsMC
  IdMontado <- IdsMC
  Nulo = Nulo
  MaxBuscas = 1
SPECIFICATION Spec
INVARIANTS SelecaoNaReserva
