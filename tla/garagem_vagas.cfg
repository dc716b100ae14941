CONSTANTS
  v1 = v1
  v2 = v2
  c1 = c1
  c2 = c2
  Vagas = {v1, v2}
  Campos = {c1, c2}
  Vazio = Vazio
  Ausente = Ausente
  Nulo = Nulo
  MaxToques = 2
  MaxFalhas = 1
  MaxReinicios = 1
SPECIFICATION Spec
INVARIANTS TypeOK IdDosCampos FantasmaTemMotivo SoFalhaAtrasa
PROPERTIES TiraSoOQueGravou SegueContexto SegueAcervo
SYMMETRY Simetria
