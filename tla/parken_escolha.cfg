CONSTANTS
  v1 = v1
  v2 = v2
  r1 = r1
  c1 = c1
  k1 = k1
  k2 = k2
  e1 = e1
  t1 = t1
  Vagas = {v1, v2}
  Requisicoes = {r1}
  Cartoes = {c1}
  Chaves = {k1, k2}
  Precos <- PrecosMC
  Enderecos = {e1}
  Textos = {t1}
  Perto <- PertoMC
  IdGravado <- IdsMC
  IdMontado <- IdsMC
  ChaveDe <- ChavesMC
  PrecoDe <- PrecoDeMC
  Ausente = Ausente
  Nulo = Nulo
  MaxHoras = 1
  MaxFalhas = 0
  MaxReinicios = 0
  MaxBuscas = 1
SPECIFICATION SpecParken
INVARIANTS PedidoDaEscolhida PedidoTemVaga TotalCoerente
PROPERTIES SegueAcervo
