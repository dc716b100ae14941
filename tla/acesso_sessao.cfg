CONSTANTS
  e1 = e1
  e2 = e2
  Emails = {e1, e2}
  Nulo = Nulo
  MaxPedidos = 2
  MaxFalhas = 1
  MaxReinicios = 1
SPECIFICATION FairSpec
INVARIANTS TypeOK SessaoDoUltimo SemSessaoTemMotivo PerfilUmaVez
PROPERTIES PerfilTrocadoSoEmCorrida PerfilNaoSePerde PerfilChega SegueSessao
