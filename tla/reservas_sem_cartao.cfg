CONSTANTS
  v1 = v1
  v2 = v2
  r1 = r1
  r2 = r2
  c1 = c1
  k1 = k1
  k2 = k2
  Vagas = {v1}
  Requisicoes = {r1}
  Cartoes = {c1}
  Chaves = {k1}
  Precos <- PrecosMC
  Ausente = Ausente
  Nulo = Nulo
  MaxHoras = 1
  MaxFalhas = 0
  MaxReinicios = 0
SPECIFICATION Spec
INVARIANTS SucessoTemCartao
