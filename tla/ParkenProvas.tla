---------------------------- MODULE ParkenProvas ----------------------------
(***************************************************************************)
(* The composition lives as each of its two parts, so what is proved of    *)
(* them holds of it; on that rests what neither can say alone: the request *)
(* the owner sees is for the spot the user chose.                          *)
(***************************************************************************)
EXTENDS Parken, ReservasProvas

HP == INSTANCE HomeProvas WITH
       vagas <- resultado, pagina <- paginaHome, existentes <- VagasEm(ctx),
       linhas <- linhasHome, selecionada <- selecionadaHome, queda <- quedaHome

-----------------------------------------------------------------------------
(* What the form of each spot registers is a record of the entity.         *)
LEMMA FichaRegistrada == \A v \in Vagas : FichaDe(v) \in RegistrosVaga
  <1> SUFFICES ASSUME NEW v \in Vagas PROVE FichaDe(v) \in RegistrosVaga
    OBVIOUS
  <1>1. ChaveDe[v] \in Chaves /\ PrecoDe[v] \in Precos[ChaveDe[v]]
    BY ChaveDeAssumption, PrecoDeAssumption
  <1> QED BY <1>1 DEF FichaDe, RegistrosVaga

(* Every step is one of the booking flow, or of the home screen alone.     *)
LEMMA PassoReservas == ASSUME NextParken PROVE [Next]_vars
  <1>1. CASE TocarHome \/ ResponderHome \/ CairAoRequisitar \/ Encerrado
    BY <1>1 DEF TocarHome, ResponderHome, CairAoRequisitar, Encerrado, varsParken
  <1>2. ASSUME NEW e \in Enderecos, BuscarPerto(e) PROVE [Next]_vars
    BY <1>2 DEF BuscarPerto, Next, Usuario
  <1>3. CASE Requisitar
    <2>1. PICK v \in Vagas \cup {Nulo} : Abrir(v)
      BY <1>3 DEF Requisitar
    <2>2. CASE v = Nulo
      BY <2>1, <2>2 DEF Abrir, Next, Usuario
    <2>3. CASE v # Nulo
      BY <2>1, <2>3 DEF Abrir, Next, Usuario
    <2> QED BY <2>2, <2>3
  <1>4. CASE VoltarDoPedido
    BY <1>4 DEF VoltarDoPedido, Next, Usuario
  <1>5. ASSUME NEW v \in Vagas, ApagarVaga(v) \/ InserirVaga(v) PROVE [Next]_vars
    <2>1. Apagar(v) \/ NovaVaga(v, FichaDe(v))
      BY <1>5 DEF ApagarVaga, InserirVaga
    <2>2. FichaDe(v) \in RegistrosVaga
      BY FichaRegistrada
    <2> QED BY <2>1, <2>2 DEF Next, Usuario, Sistema
  <1>6. ASSUME NEW r \in Requisicoes, Confirmar(r) PROVE [Next]_vars
    BY <1>6 DEF Confirmar, Next, Usuario
  <1>7. CASE SoReservas
    BY <1>7 DEF SoReservas, Next, Usuario, Sistema
  <1> QED BY <1>1, <1>2, <1>3, <1>4, <1>5, <1>6, <1>7 DEF NextParken

(* The composition implements the booking flow, with every property proved *)
(* of it.                                                                  *)
THEOREM ImplementaReservas == SpecParken => Spec
  <1>1. InitParken => Init
    BY DEF InitParken
  <1>2. [NextParken]_varsParken => [Next]_vars
    BY PassoReservas DEF varsParken
  <1> QED BY <1>1, <1>2, PTL DEF SpecParken, Spec

-----------------------------------------------------------------------------
(* A row of the home screen, or an address asked for one, is there only    *)
(* once a search has found a spot: the guard of AbrirPedidoSemVaga, which  *)
(* Reservas states of its own, holds back no request of the home screen.   *)
Achado == parkingLocateList # << >> \/ geocodificando # {} => achou

(* Only a search, which fetches what is there, asks for addresses.         *)
LEMMA PassoAchado == ASSUME Achado, NextParken PROVE Achado'
  <1>1. ASSUME achou' = achou, geocodificando' \subseteq geocodificando,
               parkingLocateList' \in {parkingLocateList, << >>}
        PROVE  Achado'
    BY <1>1 DEF Achado
  <1>2. CASE TocarHome \/ CairAoRequisitar
    <2>1. achou' = achou
      BY <1>2 DEF TocarHome, CairAoRequisitar, vars
    <2>2. geocodificando' = geocodificando /\ parkingLocateList' \in {parkingLocateList, << >>}
      BY <1>2 DEF TocarHome, CairAoRequisitar, H!Digitar, H!ApagarTexto, H!AlternarPainel, H!EscolherVaga,
                  H!VoltarAoPrimeiro, H!VoltarAoSegundo, H!Requisitar, H!IrAoPrimeiro, H!tabela
    <2> QED BY <1>1, <2>1, <2>2
  <1>3. CASE ResponderHome
    <2>1. achou' = achou
      BY <1>3 DEF ResponderHome, vars
    <2>2. CASE \E q \in Textos : H!ResponderSugestoes(q) \/ H!FalharSugestoes(q)
      BY <1>1, <2>1, <2>2 DEF H!ResponderSugestoes, H!FalharSugestoes, H!tabela
    <2>3. CASE \E g \in geocodificando : H!ResponderEndereco(g) \/ H!FalharEndereco(g)
      BY <2>1, <2>3 DEF Achado
    <2> QED BY <1>3, <2>2, <2>3 DEF ResponderHome
  <1>4. ASSUME NEW e \in Enderecos, BuscarPerto(e) PROVE Achado'
    <2>1. CASE sugestoes = Nulo
      BY <1>1, <1>4, <2>1 DEF BuscarPerto, H!EscolherSugestao, vars
    <2>2. CASE sugestoes # Nulo
      <3>1. /\ achou' = (achou \/ VagasEm(ctx) # {})
            /\ parkingLocateList' = << >>
            /\ geocodificando' = geocodificando \cup H!Perguntas(buscas', e)
        BY <1>4, <2>2 DEF BuscarPerto, Buscar, H!EscolherSugestao, H!BuscarPerto
      <3>2. VagasEm(ctx) = {} => H!Perguntas(buscas', e) = {}
        BY DEF H!Perguntas
      <3> QED BY <3>1, <3>2 DEF Achado
    <2> QED BY <2>1, <2>2
  <1>5. CASE Requisitar
    <2>1. PICK v \in Vagas \cup {Nulo} : Abrir(v) /\ H!Requisitar
      BY <1>5 DEF Requisitar
    <2>2. achou' = achou
      BY <2>1 DEF Abrir, AbrirPedido, AbrirPedidoSemVaga
    <2>3. geocodificando' = geocodificando /\ parkingLocateList' \in {parkingLocateList, << >>}
      BY <2>1 DEF H!Requisitar, H!IrAoPrimeiro
    <2> QED BY <1>1, <2>2, <2>3
  <1>6. CASE VoltarDoPedido \/ \E v \in Vagas : ApagarVaga(v) \/ InserirVaga(v)
    <2>1. achou' = achou
      BY <1>6 DEF VoltarDoPedido, VoltarNaTela, OkSucesso, ApagarVaga, Apagar, InserirVaga, NovaVaga, formulario
    <2>2. UNCHANGED <<geocodificando, parkingLocateList>>
      BY <1>6 DEF VoltarDoPedido, ApagarVaga, InserirVaga, H!VoltarDoPedido, H!ApagarVaga, H!InserirVaga,
                  H!tabela, varsHome
    <2> QED BY <1>1, <2>1, <2>2
  <1>7. CASE SoReservas
    <2>1. achou' = achou
      BY <1>7 DEF SoReservas, Prosseguir, RecusarSemCartao, SalvarCartaoIncompleto, FecharFolha, VoltarNaFolha,
                  OkPreencha, CadastrarCartao, VoltarSemCartao, OkDecidida, SegundoPlano, DefinirHora, Digitar,
                  AbrirConfirmacao, AbrirSolicitacao, ResponderPerfil, Decidir, SalvarCartao, Apagar,
                  AbrirCartao, AbrirFolha, formulario
    <2> QED BY <1>1, <1>7, <2>1 DEF SoReservas, varsHome
  <1>8. CASE (\E r \in Requisicoes : Confirmar(r)) \/ Encerrado
    BY <1>1, <1>8 DEF Confirmar, ConfirmarPedido, Encerrado, varsParken, varsHome, vars, formulario
  <1> QED BY <1>2, <1>3, <1>4, <1>5, <1>6, <1>7, <1>8 DEF NextParken

(* The home screen opens the form only from a row that a search had found. *)
LEMMA SempreAchado == SpecParken => []Achado
  <1>1. InitParken => Achado
    BY DEF InitParken, H!Init, Achado
  <1>2. Achado /\ [NextParken]_varsParken => Achado'
    <2>1. UNCHANGED varsParken => (Achado => Achado')
      BY DEF varsParken, varsHome, vars, Achado
    <2> QED BY <2>1, PassoAchado
  <1> QED BY <1>1, <1>2, PTL DEF SpecParken

-----------------------------------------------------------------------------
(* The alerts of the checkout cover the checkout.                          *)
AlertaNoCheckout == alerta \in {"sucesso", "semCartao"} => tela = "checkout"

(* What the steps of the booking flow leave as it is, and what they may    *)
(* copy from page to page and into a request.                              *)
SoReservasMantem ==
  /\ resultado' = resultado /\ paginaHome' = paginaHome
  /\ \A v \in Vagas : ctx'[v] = ctx[v]
  /\ AlertaNoCheckout'
  /\ tela' # "home" => tela # "home" /\ pedido'.id = pedido.id
  /\ tela' = "checkout" => checkout'.id = pedido.id \/ (tela = "checkout" /\ checkout'.id = checkout.id)
  /\ \A r \in Requisicoes : leituras'[r] \in {leituras[r], Nulo}
  /\ \A r \in Requisicoes : Respondida(ctx'[r]) =>
       \/ Respondida(ctx[r]) /\ ctx'[r].id = ctx[r].id
       \/ leituras[r] # Nulo /\ ctx'[r].id = leituras[r].id

LEMMA PassoSoReservas == ASSUME IInv, AlertaNoCheckout, SoReservas PROVE SoReservasMantem
  <1>0. TypeOK
    BY DEF IInv
  <1> DEFINE Quieto == UNCHANGED <<ctx, tela, resultado, pedido, checkout, leituras>>
  <1>1. ASSUME Quieto, alerta' \in {alerta, "nenhum", "preencha", "decidida"} PROVE SoReservasMantem
    BY <1>1 DEF SoReservasMantem, AlertaNoCheckout, paginaHome
  <1>2. CASE SalvarCartaoIncompleto \/ FecharFolha \/ VoltarNaFolha \/ OkPreencha \/ CadastrarCartao \/ OkDecidida
    BY <1>1, <1>2
    DEF SalvarCartaoIncompleto, FecharFolha, VoltarNaFolha, OkPreencha, CadastrarCartao, OkDecidida,
        persistencia, formulario, rede
  <1>3. CASE SegundoPlano \/ \E f \in {"garagem", "confirmacoes", "historico", "pagamento"} : AbrirFolha(f)
    BY <1>1, <1>3 DEF SegundoPlano, AbrirFolha, persistencia, formulario, rede
  <1>4. CASE \/ \E r \in Requisicoes : AbrirConfirmacao(r) \/ AbrirSolicitacao(r)
             \/ \E k \in Cartoes \cup {Nulo} : AbrirCartao(k)
    BY <1>1, <1>4 DEF AbrirConfirmacao, AbrirSolicitacao, AbrirCartao, persistencia, formulario, rede
  <1>5. CASE Prosseguir
    BY <1>5 DEF Prosseguir, NaTela, Tocavel, persistencia, rede, SoReservasMantem, AlertaNoCheckout, paginaHome
  <1>6. CASE RecusarSemCartao
    BY <1>6 DEF RecusarSemCartao, NaTela, persistencia, formulario, rede, SoReservasMantem, AlertaNoCheckout, paginaHome
  <1>7. CASE VoltarSemCartao
    BY <1>7 DEF VoltarSemCartao, persistencia, rede, SoReservasMantem, AlertaNoCheckout, paginaHome
  <1>8. ASSUME NEW h \in 0..MaxHoras, DefinirHora(h) PROVE SoReservasMantem
    <2>1. pedido'.id = pedido.id
      BY <1>0, <1>8 DEF DefinirHora, ComHoras, TypeOK, PaginasOK, Pedidos
    <2> QED BY <1>8, <2>1 DEF DefinirHora, NaTela, persistencia, rede, SoReservasMantem, AlertaNoCheckout, paginaHome
  <1>9. ASSUME NEW b \in BOOLEAN, Digitar(b) PROVE SoReservasMantem
    <2>1. pedido'.id = pedido.id
      BY <1>0, <1>9 DEF Digitar, TypeOK, PaginasOK, Pedidos
    <2> QED BY <1>9, <2>1 DEF Digitar, NaTela, persistencia, rede, SoReservasMantem, AlertaNoCheckout, paginaHome
  <1>10. ASSUME NEW r \in Requisicoes, ResponderPerfil(r) PROVE SoReservasMantem
    <2>1. /\ leituras[r] # Nulo /\ leituras' = [leituras EXCEPT ![r] = Nulo]
          /\ ctx' = ctx \/ ctx' = [ctx EXCEPT ![r] = Preenchida(leituras[r])]
          /\ UNCHANGED <<tela, alerta, resultado, pedido, checkout>>
      BY <1>10 DEF ResponderPerfil, Resposta, Gravar, persistencia, formulario
    <2>2. \A o \in Objetos \ {r} : ctx'[o] = ctx[o]
      BY <1>0, <2>1 DEF TypeOK, DadosOK
    <2>3. ctx'[r] = ctx[r] \/ ctx'[r].id = leituras[r].id
      BY <1>0, <2>1 DEF TypeOK, DadosOK, Preenchida, Objetos
    <2> QED BY <1>0, <2>1, <2>2, <2>3, ObjetosAssumption
            DEF SoReservasMantem, AlertaNoCheckout, paginaHome, Objetos, TypeOK, PaginasOK
  <1>11. ASSUME NEW e \in Decisoes, Decidir(e) PROVE SoReservasMantem
    <2> DEFINE q == selecionada.requisicao
    <2>1. q \in Requisicoes /\ Respondida(ctx[q])
      BY <1>11, NuloAssumption DEF Decidir, NaFolha, Tocavel, IInv, ListaEmDia, PendentesEm, RequisicoesEm, Respondida
    <2>2. /\ ctx' = [ctx EXCEPT ![q] = [ctx[q] EXCEPT !.estado = e]]
          /\ alerta' = "decidida" /\ UNCHANGED <<tela, resultado, pedido, checkout, leituras>>
      BY <1>11 DEF Decidir, Gravar, ComEstado, formulario, rede
    <2>3. ctx[q] \in RegistrosRequisicao
      BY <1>0, <2>1 DEF TypeOK, DadosOK, Respondida
    <2>4. [ctx[q] EXCEPT !.estado = e].id = ctx[q].id
      BY <2>3 DEF RegistrosRequisicao
    <2> HIDE DEF q
    <2>5. \A o \in Objetos : ctx'[o] = IF o = q THEN [ctx[q] EXCEPT !.estado = e] ELSE ctx[o]
      BY <1>0, <2>1, <2>2 DEF TypeOK, DadosOK, Objetos
    <2> QED BY <2>1, <2>2, <2>4, <2>5, ObjetosAssumption
            DEF SoReservasMantem, AlertaNoCheckout, paginaHome, Objetos
  <1>12. ASSUME NEW k \in Cartoes, SalvarCartao(k) \/ Apagar(k) PROVE SoReservasMantem
    <2>1. /\ \E x : ctx' \in {ctx, [ctx EXCEPT ![k] = x]}
          /\ UNCHANGED <<tela, alerta, resultado, pedido, checkout, leituras>>
      BY <1>12 DEF SalvarCartao, Apagar, Gravar, formulario, rede
    <2>2. \A o \in Objetos \ {k} : ctx'[o] = ctx[o]
      BY <1>0, <2>1 DEF TypeOK, DadosOK
    <2> QED BY <2>1, <2>2, ObjetosAssumption DEF SoReservasMantem, AlertaNoCheckout, paginaHome, Objetos
  <1> QED BY <1>2, <1>3, <1>4, <1>5, <1>6, <1>7, <1>8, <1>9, <1>10, <1>11, <1>12 DEF SoReservas

(* What else moves from page to page: the form is left, the garage changes.*)
LEMMA Saida == ASSUME VoltarNaTela \/ OkSucesso
               PROVE  /\ UNCHANGED <<ctx, resultado, leituras>>
                      /\ tela' = "home" \/ (tela = "checkout" /\ tela' = "request" /\ pedido' = pedido)
                      /\ alerta' = "nenhum"
  BY DEF VoltarNaTela, OkSucesso, NaTela, Tocavel, persistencia, rede

LEMMA Retirada == ASSUME TypeOK, NEW v \in Vagas, Apagar(v)
                  PROVE  /\ \A o \in Objetos : ctx'[o] = IF o = v THEN Ausente ELSE ctx[o]
                         /\ UNCHANGED <<tela, alerta, resultado, pedido, checkout, leituras>>
  <1>1. ctx' = [ctx EXCEPT ![v] = Ausente] /\ UNCHANGED <<tela, alerta, resultado, pedido, checkout, leituras>>
    BY DEF Apagar, Gravar, formulario, rede
  <1> QED BY <1>1 DEF TypeOK, DadosOK

LEMMA Entrada == ASSUME TypeOK, NEW v \in Vagas, NEW f, NovaVaga(v, f)
                 PROVE  /\ \A o \in Objetos : ctx'[o] = IF o = v THEN f ELSE ctx[o]
                        /\ UNCHANGED <<tela, alerta, resultado, pedido, checkout, leituras>>
  <1>1. ctx' = [ctx EXCEPT ![v] = f] /\ UNCHANGED <<tela, alerta, resultado, pedido, checkout, leituras>>
    BY DEF NovaVaga, Gravar, formulario, rede
  <1> QED BY <1>1 DEF TypeOK, DadosOK

LEMMA Confirmacao == ASSUME TypeOK, NEW r \in Requisicoes, ConfirmarPedido(r)
                     PROVE  /\ \A o \in Objetos : ctx'[o] = IF o = r THEN EmBranco ELSE ctx[o]
                            /\ UNCHANGED <<tela, resultado, pedido, checkout>>
                            /\ tela = "checkout"
                            /\ leituras' = [leituras EXCEPT ![r] = checkout]
  BY DEF ConfirmarPedido, NaTela, formulario, TypeOK, DadosOK

(* Every step is one of the home screen, or leaves it as it is.            *)
LEMMA PassoHome ==
  ASSUME IInv, AlertaNoCheckout, NextParken
  PROVE  [H!Next]_(H!vars) /\ AlertaNoCheckout'
  <1>0. TypeOK
    BY DEF IInv
  <1> DEFINE Parada == UNCHANGED <<varsHome, resultado, paginaHome, VagasEm(ctx)>>
  <1>1. ASSUME Parada PROVE UNCHANGED H!vars
    BY <1>1 DEF varsHome, H!vars
  <1>2. CASE TocarHome
    BY <1>2 DEF TocarHome, H!Next, vars, AlertaNoCheckout
  <1>3. CASE ResponderHome
    BY <1>3 DEF ResponderHome, H!Next, vars, AlertaNoCheckout
  <1>4. CASE CairAoRequisitar
    BY <1>4 DEF CairAoRequisitar, H!Next, vars, AlertaNoCheckout
  <1>5. ASSUME NEW e \in Enderecos, BuscarPerto(e) PROVE H!Next /\ AlertaNoCheckout'
    <2>1. UNCHANGED <<tela, alerta>>
      BY <1>5 DEF BuscarPerto, Buscar, vars
    <2> QED BY <1>5, <2>1 DEF BuscarPerto, H!Next, AlertaNoCheckout
  <1>6. CASE Requisitar
    <2>1. PICK v \in Vagas \cup {Nulo} : Abrir(v) /\ H!Requisitar
      BY <1>6 DEF Requisitar
    <2>2. alerta' = "nenhum"
      BY <2>1 DEF Abrir, AbrirPedido, AbrirPedidoSemVaga, NaTela, Tocavel
    <2> QED BY <2>1, <2>2 DEF H!Next, AlertaNoCheckout
  <1>7. CASE VoltarDoPedido
    <2>1. /\ UNCHANGED <<ctx, resultado, leituras>> /\ alerta' = "nenhum"
          /\ tela' = "home" \/ (tela = "checkout" /\ tela' = "request")
      BY <1>7, Saida DEF VoltarDoPedido
    <2>2. CASE tela' = "home"
      BY <1>7, <2>1, <2>2 DEF VoltarDoPedido, H!Next, AlertaNoCheckout
    <2>3. CASE tela' # "home"
      BY <1>1, <1>7, <2>1, <2>3 DEF VoltarDoPedido, VagasEm, paginaHome, AlertaNoCheckout
    <2> QED BY <2>2, <2>3
  <1>8. ASSUME NEW v \in Vagas, ApagarVaga(v) PROVE [H!Next]_(H!vars) /\ AlertaNoCheckout'
    <2>1. /\ \A o \in Objetos : ctx'[o] = IF o = v THEN Ausente ELSE ctx[o]
          /\ UNCHANGED <<tela, alerta, resultado>>
      BY <1>0, <1>8, Retirada DEF ApagarVaga
    <2>2. CASE ctx[v] # Ausente
      BY <1>8, <2>1, <2>2 DEF ApagarVaga, H!Next, AlertaNoCheckout
    <2>3. CASE ctx[v] = Ausente
      BY <1>1, <1>8, <2>1, <2>3 DEF ApagarVaga, VagasEm, paginaHome, AlertaNoCheckout, Objetos
    <2> QED BY <2>2, <2>3
  <1>9. ASSUME NEW v \in Vagas, InserirVaga(v) PROVE H!Next /\ AlertaNoCheckout'
    <2>1. UNCHANGED <<tela, alerta>>
      BY <1>9 DEF InserirVaga, NovaVaga
    <2> QED BY <1>9, <2>1 DEF InserirVaga, H!Next, AlertaNoCheckout
  <1>10. ASSUME NEW r \in Requisicoes, Confirmar(r) PROVE UNCHANGED H!vars /\ AlertaNoCheckout'
    <2>1. /\ \A v \in Vagas : ctx'[v] = ctx[v]
          /\ UNCHANGED <<tela, resultado>> /\ tela = "checkout"
      BY <1>0, <1>10, Confirmacao, ObjetosAssumption DEF Confirmar, Objetos
    <2> QED BY <1>1, <1>10, <2>1 DEF Confirmar, VagasEm, paginaHome, AlertaNoCheckout
  <1>11. CASE SoReservas
    <2>1. SoReservasMantem /\ UNCHANGED varsHome
      BY <1>11, PassoSoReservas DEF SoReservas
    <2> QED BY <1>1, <2>1 DEF SoReservasMantem, VagasEm
  <1>12. CASE Encerrado
    BY <1>1, <1>12 DEF Encerrado, varsParken, vars, VagasEm, paginaHome, AlertaNoCheckout
  <1> QED BY <1>2, <1>3, <1>4, <1>5, <1>6, <1>7, <1>8, <1>9, <1>10, <1>11, <1>12 DEF NextParken

(* The composition implements the home screen.                             *)
THEOREM ImplementaHome == SpecParken => H!Spec
  <1>1. InitParken => H!Init /\ AlertaNoCheckout
    BY DEF InitParken, Init, AlertaNoCheckout
  <1>2. IInv /\ AlertaNoCheckout /\ [NextParken]_varsParken => [H!Next]_(H!vars) /\ AlertaNoCheckout'
    <2>1. UNCHANGED varsParken => UNCHANGED H!vars /\ (AlertaNoCheckout => AlertaNoCheckout')
      BY DEF varsParken, varsHome, vars, H!vars, VagasEm, paginaHome, AlertaNoCheckout
    <2> QED BY <2>1, PassoHome
  <1> QED BY <1>1, <1>2, ImplementaReservas, Invariancia, PTL DEF SpecParken, H!Spec

(* What is proved of the home screen is proved of an instance of it that   *)
(* says the same.                                                          *)
LEMMA MesmaHome == H!Spec => HP!Spec
  <1>1. H!Init => HP!Init
    BY DEF H!Init, HP!Init, H!SemEntrega, HP!SemEntrega
  <1>2. [H!Next]_(H!vars) => [HP!Next]_(HP!vars)
    BY DEF
        H!Next, H!vars, H!Digitar, H!ResponderSugestoes, H!FalharSugestoes, H!ApagarTexto,
        H!AlternarPainel, H!EscolherSugestao, H!ResponderEndereco, H!FalharEndereco,
        H!EscolherVaga, H!VoltarAoPrimeiro, H!VoltarAoSegundo, H!Requisitar, H!VoltarDoPedido,
        H!ApagarVaga, H!InserirVaga, H!FicarFechado, H!BuscarPerto, H!Perguntas, H!IrAoPrimeiro,
        H!IrAoSegundo, H!Listar, H!VagasFinais, H!Ultimas, H!NaHome, H!MarcadorVaga,
        H!MarcadorDestino, H!MarcadoresVaga, H!pesquisa, H!tabela, H!garagem, H!SemEntrega,
        HP!Next, HP!vars, HP!Digitar, HP!ResponderSugestoes, HP!FalharSugestoes, HP!ApagarTexto,
        HP!AlternarPainel, HP!EscolherSugestao, HP!ResponderEndereco, HP!FalharEndereco,
        HP!EscolherVaga, HP!VoltarAoPrimeiro, HP!VoltarAoSegundo, HP!Requisitar, HP!VoltarDoPedido,
        HP!ApagarVaga, HP!InserirVaga, HP!FicarFechado, HP!BuscarPerto, HP!Perguntas,
        HP!IrAoPrimeiro, HP!IrAoSegundo, HP!Listar, HP!VagasFinais, HP!Ultimas, HP!NaHome,
        HP!MarcadorVaga, HP!MarcadorDestino, HP!MarcadoresVaga, HP!pesquisa, HP!tabela, HP!garagem,
        HP!SemEntrega
  <1> QED BY <1>1, <1>2, PTL DEF H!Spec, HP!Spec

LEMMA HomeInvariante == SpecParken => [](HP!IInv /\ HP!TypeOK /\ HP!EntregaCerta)
  BY ImplementaHome, MesmaHome, HP!Invariancia, HP!Tipos, HP!EntregaSempreCerta,
     IdsAssumption, PertoAssumption, TextosAssumption, BuscasAssumption, PTL

-----------------------------------------------------------------------------
(* What a step does to the spots, and to those the last search fetched.    *)
VagasIguais ==
  /\ \A w \in Vagas : ctx'[w] = ctx[w]
  /\ resultado' \in {resultado, VagasEm(ctx)}
  /\ UNCHANGED apagadas

VagaSai(v) ==
  /\ ctx[v] # Ausente
  /\ \A w \in Vagas : ctx'[w] = IF w = v THEN Ausente ELSE ctx[w]
  /\ apagadas' = apagadas \cup {v}
  /\ UNCHANGED resultado

VagaEntra(v) ==
  /\ ctx[v] = Ausente /\ v \notin apagadas
  /\ \A w \in Vagas : ctx'[w] = IF w = v THEN FichaDe(v) ELSE ctx[w]
  /\ UNCHANGED <<apagadas, resultado>>

LEMMA PassoVagas ==
  ASSUME IInv, AlertaNoCheckout, NextParken
  PROVE  VagasIguais \/ \E v \in Vagas : VagaSai(v) \/ VagaEntra(v)
  <1>0. TypeOK
    BY DEF IInv
  <1>1. CASE TocarHome \/ ResponderHome \/ CairAoRequisitar \/ Encerrado
    <2>1. UNCHANGED <<ctx, resultado>>
      BY <1>1 DEF TocarHome, ResponderHome, CairAoRequisitar, Encerrado, varsParken, vars
    <2>2. apagadas' = apagadas
      BY <1>1 DEF TocarHome, ResponderHome, CairAoRequisitar, Encerrado, varsParken, varsHome, H!garagem,
         H!Digitar, H!ApagarTexto, H!AlternarPainel, H!EscolherVaga, H!VoltarAoPrimeiro, H!VoltarAoSegundo,
         H!ResponderSugestoes, H!FalharSugestoes, H!ResponderEndereco, H!FalharEndereco, H!Requisitar
    <2> QED BY <2>1, <2>2 DEF VagasIguais
  <1>2. ASSUME NEW e \in Enderecos, BuscarPerto(e) PROVE VagasIguais
    <2>1. ctx' = ctx /\ resultado' \in {resultado, VagasEm(ctx)}
      BY <1>2 DEF BuscarPerto, Buscar, persistencia, vars
    <2>2. apagadas' = apagadas
      BY <1>2 DEF BuscarPerto, H!EscolherSugestao, H!garagem
    <2> QED BY <2>1, <2>2 DEF VagasIguais
  <1>3. CASE Requisitar
    <2>1. PICK v \in Vagas \cup {Nulo} : Abrir(v) /\ H!Requisitar
      BY <1>3 DEF Requisitar
    <2>2. UNCHANGED <<ctx, resultado>>
      BY <2>1 DEF Abrir, AbrirPedido, AbrirPedidoSemVaga, persistencia
    <2>3. apagadas' = apagadas
      BY <2>1 DEF H!Requisitar, H!garagem
    <2> QED BY <2>2, <2>3 DEF VagasIguais
  <1>4. CASE VoltarDoPedido
    <2>1. UNCHANGED <<ctx, resultado>>
      BY <1>4, Saida DEF VoltarDoPedido
    <2>2. apagadas' = apagadas
      BY <1>4 DEF VoltarDoPedido, H!VoltarDoPedido, H!garagem, varsHome
    <2> QED BY <2>1, <2>2 DEF VagasIguais
  <1>5. ASSUME NEW v \in Vagas, ApagarVaga(v) PROVE VagaSai(v) \/ VagasIguais
    <2>1. /\ \A w \in Vagas : ctx'[w] = IF w = v THEN Ausente ELSE ctx[w]
          /\ resultado' = resultado
      BY <1>0, <1>5, Retirada DEF ApagarVaga, Objetos
    <2>2. ctx[v] # Ausente => apagadas' = apagadas \cup {v}
      BY <1>5 DEF ApagarVaga, H!ApagarVaga
    <2>3. ctx[v] = Ausente => apagadas' = apagadas
      BY <1>5 DEF ApagarVaga, varsHome
    <2> QED BY <2>1, <2>2, <2>3 DEF VagaSai, VagasIguais
  <1>6. ASSUME NEW v \in Vagas, InserirVaga(v) PROVE VagaEntra(v)
    <2>1. /\ \A w \in Vagas : ctx'[w] = IF w = v THEN FichaDe(v) ELSE ctx[w]
          /\ resultado' = resultado
      BY <1>0, <1>6, Entrada DEF InserirVaga, Objetos
    <2>2. apagadas' = apagadas /\ v \notin VagasEm(ctx) \cup apagadas
      BY <1>6 DEF InserirVaga, H!InserirVaga
    <2> QED BY <2>1, <2>2 DEF VagaEntra, VagasEm
  <1>7. ASSUME NEW r \in Requisicoes, Confirmar(r) PROVE VagasIguais
    <2>1. (\A v \in Vagas : ctx'[v] = ctx[v]) /\ resultado' = resultado
      BY <1>0, <1>7, Confirmacao, ObjetosAssumption DEF Confirmar, Objetos
    <2> QED BY <1>7, <2>1 DEF Confirmar, varsHome, VagasIguais
  <1>8. CASE SoReservas
    <2>1. SoReservasMantem /\ apagadas' = apagadas
      BY <1>8, PassoSoReservas DEF SoReservas, varsHome
    <2> QED BY <2>1 DEF SoReservasMantem, VagasIguais
  <1> QED BY <1>1, <1>2, <1>3, <1>4, <1>5, <1>6, <1>7, <1>8 DEF NextParken

(* Each is a step of the abstract spots.                                   *)
LEMMA PassoAcervo ==
  ASSUME IInv, AlertaNoCheckout, NextParken
  PROVE  [AP!Next]_(AP!vars)
  <1>1. CASE VagasIguais
    BY <1>1 DEF VagasIguais, AcervoParken, AP!vars
  <1>2. ASSUME NEW v \in Vagas, VagaSai(v) PROVE AP!Next
    <2>1. AcervoParken[v] # Ausente
      BY <1>2 DEF VagaSai, AcervoParken
    <2>2. AcervoParken' = [AcervoParken EXCEPT ![v] = Ausente]
      BY <1>2 DEF VagaSai, AcervoParken
    <2> QED BY <1>2, <2>1, <2>2 DEF VagaSai, AP!Apagar, AP!Next
  <1>3. ASSUME NEW v \in Vagas, VagaEntra(v) PROVE AP!Next
    <2>1. AcervoParken[v] = Ausente /\ v \notin apagadas /\ UNCHANGED apagadas
      BY <1>3 DEF VagaEntra, AcervoParken
    <2>2. FichaDe(v) \in RegistrosVaga
      BY FichaRegistrada
    <2>3. AcervoParken' = [AcervoParken EXCEPT ![v] = FichaDe(v)]
      BY <1>3 DEF VagaEntra, AcervoParken
    <2> QED BY <2>1, <2>2, <2>3 DEF AP!Inserir, AP!Next
  <1> QED BY <1>1, <1>2, <1>3, PassoVagas

LEMMA AlertaInvariante == SpecParken => []AlertaNoCheckout
  <1>1. InitParken => AlertaNoCheckout
    BY DEF InitParken, Init, AlertaNoCheckout
  <1>2. IInv /\ AlertaNoCheckout /\ [NextParken]_varsParken => AlertaNoCheckout'
    BY PassoHome DEF varsParken, vars, AlertaNoCheckout
  <1> QED BY <1>1, <1>2, ImplementaReservas, Invariancia, PTL DEF SpecParken

(* The spots of the composition live as those of the garage do: neither    *)
(* part brings a deleted spot back nor changes the fields of one           *)
(* (NovaVagaViewController:103-140, GarageViewController:59-63).           *)
THEOREM ImplementaAcervo == SpecParken => SegueAcervo
  <1>1. InitParken => AP!Init
    BY DEF InitParken, Init, H!Init, AP!Init, AcervoParken, Objetos
  <1>2. IInv /\ AlertaNoCheckout /\ [NextParken]_varsParken => [AP!Next]_(AP!vars)
    <2>1. UNCHANGED varsParken => UNCHANGED AP!vars
      BY DEF varsParken, varsHome, vars, AP!vars, AcervoParken
    <2> QED BY <2>1, PassoAcervo
  <1> QED BY <1>1, <1>2, AlertaInvariante, ImplementaReservas, Invariancia, PTL
          DEF SpecParken, SegueAcervo, AP!Spec

-----------------------------------------------------------------------------
(* The way of the choice: from the spot handed over to the form, to the    *)
(* checkout, to the closure of the profile read, to the request.           *)
Origens == [escolhida : HP!Escolhas, apagada : BOOLEAN]

DaEntrega(id) ==
  LET m == entregue.escolhida IN m # Nulo => m.vaga \in apagadas \/ id = ChaveDe[m.vaga]

DaOrigem(id, o) == o.escolhida # Nulo => o.apagada \/ id = ChaveDe[o.escolhida.vaga]

Caminho ==
  /\ tela # "home" => DaEntrega(pedido.id)
  /\ tela = "checkout" => DaEntrega(checkout.id)
  /\ \A r \in Requisicoes : leituras[r] # Nulo => DaOrigem(leituras[r].id, origem[r])
  /\ \A r \in Requisicoes : Respondida(ctx[r]) => DaOrigem(ctx[r].id, origem[r])

(* The garage inserts spots under their own id, and what the last search   *)
(* fetched is there or was deleted.                                        *)
Garagens ==
  /\ \A v \in Vagas : ctx[v] # Ausente => ctx[v].chave = ChaveDe[v]
  /\ \A v \in Vagas : store[v] # Ausente => store[v].chave = ChaveDe[v]
  /\ resultado \subseteq VagasEm(ctx) \cup apagadas

PInv ==
  /\ origem \in [Requisicoes -> Origens]
  /\ Garagens
  /\ H!IdsFieis => Caminho

LEMMA PassoStore == ASSUME IInv, NextParken PROVE store' \in {store, ctx'}
  BY ContextoPasso, PassoReservas
  DEF Contexto!Next, Contexto!vars, Contexto!Editar, Contexto!Salvar, Contexto!Relancar

LEMMA PassoGaragens == ASSUME IInv, AlertaNoCheckout, Garagens, NextParken PROVE Garagens'
  <1>1. CASE VagasIguais
    BY <1>1, PassoStore DEF VagasIguais, Garagens, VagasEm
  <1>2. ASSUME NEW v \in Vagas, VagaSai(v) PROVE Garagens'
    BY <1>2, PassoStore DEF VagaSai, Garagens, VagasEm
  <1>3. ASSUME NEW v \in Vagas, VagaEntra(v) PROVE Garagens'
    <2>1. FichaDe(v) # Ausente
      BY FichaRegistrada, AusenteAssumption DEF Registros
    <2> QED BY <1>3, <2>1, PassoStore DEF VagaEntra, Garagens, VagasEm, FichaDe
  <1> QED BY <1>1, <1>2, <1>3, PassoVagas

LEMMA PassoOrigem ==
  ASSUME HP!TypeOK, origem \in [Requisicoes -> Origens], NextParken
  PROVE  origem' \in [Requisicoes -> Origens]
  <1>1. ASSUME NEW r \in Requisicoes, Confirmar(r) PROVE origem' \in [Requisicoes -> Origens]
    <2>1. entregue.escolhida \in HP!Escolhas
      BY DEF HP!TypeOK
    <2> QED BY <1>1, <2>1 DEF Confirmar, Origens
  <1>2. CASE origem' = origem
    BY <1>2
  <1>3. (\E r \in Requisicoes : Confirmar(r)) \/ origem' = origem
    BY DEF NextParken, TocarHome, ResponderHome, CairAoRequisitar, BuscarPerto, Requisitar, VoltarDoPedido,
       ApagarVaga, InserirVaga, SoReservas, Encerrado, varsParken
  <1> QED BY <1>1, <1>2, <1>3

LEMMA PassoCaminho ==
  ASSUME IInv, AlertaNoCheckout, HP!TypeOK, HP!TypeOK', HP!EntregaCerta', PInv, H!IdsFieis, NextParken
  PROVE  Caminho'
  <1>0. TypeOK /\ Caminho /\ Garagens
    BY DEF IInv, PInv
  <1>1. ASSUME UNCHANGED <<ctx, leituras, origem>>, tela' = "home" PROVE Caminho'
    BY <1>0, <1>1 DEF Caminho
  <1>2. ASSUME UNCHANGED <<ctx, leituras, origem, tela, pedido, checkout>>, NaTela("home") PROVE Caminho'
    BY <1>0, <1>2 DEF Caminho, NaTela
  <1>3. ASSUME UNCHANGED <<ctx, leituras, origem, tela, pedido, checkout, entregue, apagadas>> PROVE Caminho'
    BY <1>0, <1>3 DEF Caminho, DaEntrega
  <1>4. CASE TocarHome \/ CairAoRequisitar \/ \E e \in Enderecos : BuscarPerto(e)
    <2>1. UNCHANGED <<ctx, leituras, origem, tela, pedido, checkout>> /\ NaTela("home")
      BY <1>4 DEF TocarHome, CairAoRequisitar, BuscarPerto, Buscar, vars, persistencia, rede
    <2> QED BY <1>2, <2>1
  <1>5. CASE ResponderHome \/ Encerrado
    <2>1. UNCHANGED <<ctx, leituras, origem, tela, pedido, checkout>>
      BY <1>5 DEF ResponderHome, Encerrado, vars, varsParken
    <2>2. UNCHANGED <<entregue, apagadas>>
      BY <1>5 DEF ResponderHome, Encerrado, varsParken, varsHome, H!garagem,
         H!ResponderSugestoes, H!FalharSugestoes, H!ResponderEndereco, H!FalharEndereco
    <2> QED BY <1>3, <2>1, <2>2
  <1>6. CASE Requisitar
    <2>1. PICK v \in Vagas \cup {Nulo} : Abrir(v) /\ H!Requisitar /\ entregue'.vaga = v
      BY <1>6 DEF Requisitar
    <2>2. UNCHANGED <<ctx, leituras, origem>> /\ tela' = "request"
      BY <1>6, <2>1 DEF Requisitar, Abrir, AbrirPedido, AbrirPedidoSemVaga, persistencia, rede
    <2>3. apagadas' = apagadas
      BY <2>1 DEF H!Requisitar, H!garagem
    <2> DEFINE m == entregue'.escolhida
    <2>4. ASSUME m # Nulo, m.vaga \notin apagadas PROVE pedido'.id = ChaveDe[m.vaga]
      <3>1. m.vaga \in Vagas
        BY <2>4 DEF HP!TypeOK, HP!Escolhas, HP!Modelos
      <3>2. v = m.vaga
        BY <2>1, <2>3, <2>4 DEF HP!EntregaCerta, HP!IdsFieis, H!IdsFieis
      <3>3. v # Nulo
        BY <3>1, <3>2, TextosAssumption
      <3>4. v \in resultado /\ \E f \in FichasLidas(v) : pedido'.id = f.chave
        BY <2>1, <3>3 DEF Abrir, AbrirPedido, SemPedido
      <3>5. ctx[v] # Ausente
        BY <1>0, <2>4, <3>2, <3>4 DEF Garagens, VagasEm
      <3> QED BY <1>0, <3>1, <3>2, <3>4, <3>5 DEF FichasLidas, Garagens
    <2> QED BY <1>0, <2>2, <2>3, <2>4 DEF Caminho, DaEntrega
  <1>7. CASE VoltarDoPedido
    <2>1. /\ UNCHANGED <<ctx, leituras, origem>>
          /\ tela' = "home" \/ (tela = "checkout" /\ tela' = "request" /\ pedido' = pedido)
      BY <1>7, Saida DEF VoltarDoPedido
    <2>2. tela' # "home" => UNCHANGED <<entregue, apagadas>>
      BY <1>7 DEF VoltarDoPedido, varsHome
    <2> QED BY <1>0, <2>1, <2>2 DEF Caminho, DaEntrega
  <1>8. ASSUME NEW v \in Vagas, ApagarVaga(v) \/ InserirVaga(v) PROVE Caminho'
    <2>1. /\ \A r \in Requisicoes : ctx'[r] = ctx[r]
          /\ UNCHANGED <<tela, pedido, checkout, leituras, origem>>
      <3>1. v \notin Requisicoes
        BY ObjetosAssumption
      <3>2. CASE ApagarVaga(v)
        BY <1>0, <3>1, <3>2, Retirada DEF ApagarVaga, Objetos
      <3>3. CASE InserirVaga(v)
        BY <1>0, <3>1, <3>3, Entrada DEF InserirVaga, Objetos
      <3> QED BY <1>8, <3>2, <3>3
    <2>2. UNCHANGED entregue /\ apagadas \subseteq apagadas'
      BY <1>8 DEF ApagarVaga, InserirVaga, H!ApagarVaga, H!InserirVaga, varsHome
    <2> QED BY <1>0, <2>1, <2>2 DEF Caminho, DaEntrega
  <1>9. ASSUME NEW r \in Requisicoes, Confirmar(r) PROVE Caminho'
    <2>1. /\ \A o \in Objetos : ctx'[o] = IF o = r THEN EmBranco ELSE ctx[o]
          /\ UNCHANGED <<tela, pedido, checkout>> /\ tela = "checkout"
          /\ leituras' = [leituras EXCEPT ![r] = checkout]
      BY <1>0, <1>9, Confirmacao DEF Confirmar
    <2>2. UNCHANGED <<entregue, apagadas>>
      BY <1>9 DEF Confirmar, varsHome
    <2>3. \A q \in Requisicoes \ {r} : origem'[q] = origem[q] /\ leituras'[q] = leituras[q] /\ ctx'[q] = ctx[q]
      BY <1>0, <1>9, <2>1 DEF Confirmar, PInv, TypeOK, PaginasOK, Objetos
    <2>4. ~Respondida(ctx'[r])
      BY <2>1 DEF Respondida, EmBranco, Objetos
    <2>5. leituras'[r] = checkout
      BY <1>0, <2>1 DEF TypeOK, PaginasOK
    <2>6. origem'[r] = [escolhida |-> entregue.escolhida,
                        apagada |-> entregue.escolhida # Nulo /\ entregue.escolhida.vaga \in apagadas]
      BY <1>9 DEF Confirmar, PInv
    <2>7. DaOrigem(checkout.id, origem'[r])
      <3>1. /\ origem'[r].escolhida = entregue.escolhida
            /\ origem'[r].apagada = (entregue.escolhida # Nulo /\ entregue.escolhida.vaga \in apagadas)
        BY <2>6
      <3>2. DaEntrega(checkout.id)
        BY <1>0, <2>1 DEF Caminho
      <3> QED BY Zenon, <3>1, <3>2 DEF DaEntrega, DaOrigem
    <2>8. \A q \in Requisicoes : leituras'[q] # Nulo => DaOrigem(leituras'[q].id, origem'[q])
      BY <1>0, <2>3, <2>5, <2>7 DEF Caminho
    <2>9. \A q \in Requisicoes : Respondida(ctx'[q]) => DaOrigem(ctx'[q].id, origem'[q])
      BY <1>0, <2>3, <2>4 DEF Caminho
    <2> QED BY <1>0, <2>1, <2>2, <2>8, <2>9 DEF Caminho, DaEntrega, DaOrigem
  <1>10. CASE SoReservas
    <2>1. SoReservasMantem /\ UNCHANGED <<entregue, apagadas, origem>>
      BY <1>10, PassoSoReservas DEF SoReservas, varsHome
    <2>2. \A r \in Requisicoes : leituras'[r] # Nulo => DaOrigem(leituras'[r].id, origem[r])
      BY <1>0, <2>1 DEF Caminho, SoReservasMantem
    <2>3. \A r \in Requisicoes : Respondida(ctx'[r]) => DaOrigem(ctx'[r].id, origem[r])
      <3> SUFFICES ASSUME NEW r \in Requisicoes, Respondida(ctx'[r]) PROVE DaOrigem(ctx'[r].id, origem[r])
        OBVIOUS
      <3>1. \/ Respondida(ctx[r]) /\ ctx'[r].id = ctx[r].id
            \/ leituras[r] # Nulo /\ ctx'[r].id = leituras[r].id
        BY <2>1 DEF SoReservasMantem
      <3> QED BY <1>0, <3>1 DEF Caminho
    <2> QED BY <1>0, <2>1, <2>2, <2>3 DEF Caminho, DaEntrega, DaOrigem, SoReservasMantem
  <1> QED BY <1>4, <1>5, <1>6, <1>7, <1>8, <1>9, <1>10 DEF NextParken

(* The request the owner sees is for the spot the user chose, at its       *)
(* price, unless that spot was deleted before the form opened.             *)
THEOREM PedidoSempreDaEscolhida == SpecParken => []PedidoDaEscolhida
  <1> DEFINE Tudo == IInv /\ AlertaNoCheckout /\ HP!TypeOK /\ HP!EntregaCerta
  <1>1. InitParken => AlertaNoCheckout /\ PInv
    <2> SUFFICES ASSUME InitParken PROVE AlertaNoCheckout /\ PInv
      OBVIOUS
    <2>1. origem \in [Requisicoes -> Origens]
      <3>1. SemOrigem \in Origens
        BY DEF SemOrigem, Origens, HP!Escolhas
      <3> QED BY <3>1 DEF InitParken
    <2>2. Garagens /\ Caminho /\ AlertaNoCheckout
      BY DEF InitParken, Init, Garagens, Caminho, AlertaNoCheckout, Objetos, Respondida
    <2> QED BY <2>1, <2>2 DEF PInv
  <1>2. Tudo /\ Tudo' /\ PInv /\ [NextParken]_varsParken => PInv'
    <2> SUFFICES ASSUME Tudo, Tudo', PInv, [NextParken]_varsParken PROVE PInv'
      OBVIOUS
    <2>1. CASE NextParken
      <3>1. origem' \in [Requisicoes -> Origens]
        BY <2>1, PassoOrigem DEF PInv
      <3>2. Garagens'
        BY <2>1, PassoGaragens DEF PInv
      <3>3. H!IdsFieis => Caminho'
        BY <2>1, PassoCaminho
      <3>4. H!IdsFieis' <=> H!IdsFieis
        BY DEF H!IdsFieis
      <3> QED BY <3>1, <3>2, <3>3, <3>4 DEF PInv
    <2>2. CASE UNCHANGED varsParken
      BY <2>2 DEF varsParken, varsHome, vars, PInv, Garagens, Caminho, DaEntrega, DaOrigem, VagasEm, Respondida,
                  H!IdsFieis
    <2> QED BY <2>1, <2>2
  <1>4. PInv /\ TotalCoerente => PedidoDaEscolhida
    <2> SUFFICES ASSUME PInv, TotalCoerente, H!IdsFieis, NEW r \in Requisicoes,
                        Respondida(ctx[r]), origem[r].escolhida # Nulo, ~origem[r].apagada
                 PROVE  DaEscolhida(r)
      BY Zenon DEF PedidoDaEscolhida
    <2>1. ctx[r].id = ChaveDe[origem[r].escolhida.vaga]
      BY DEF PInv, Caminho, DaOrigem
    <2>2. origem[r].escolhida.vaga \in Vagas
      BY DEF PInv, Origens, HP!Escolhas, HP!Modelos
    <2> DEFINE v == origem[r].escolhida.vaga
    <2>3. PICK p \in Precos[ChaveDe[v]] : ctx[r].valorTotal = p * ctx[r].qtdHoras
      BY <2>1, <2>2, ChaveDeAssumption DEF TotalCoerente
    <2>4. \A w \in Vagas : ChaveDe[w] = ChaveDe[v] => w = v
      BY <2>2, ChaveDeAssumption DEF H!IdsFieis
    <2>5. p = PrecoDe[v]
      BY <2>2, <2>4, ChaveDeAssumption, PrecoDeAssumption
    <2> QED BY <2>1, <2>3, <2>5 DEF DaEscolhida
  <1>5. SpecParken => []IInv /\ []TotalCoerente
    BY ImplementaReservas, Invariancia, TotaisCoerentes, PTL
  <1> QED BY <1>1, <1>2, <1>4, <1>5, AlertaInvariante, HomeInvariante, PTL DEF SpecParken

-----------------------------------------------------------------------------
(* The way of any id, whatever the choice was.                             *)
TemVaga(id) ==
  \/ \E v \in VagasEm(ctx) : id = ChaveDe[v]
  \/ \E v \in apagadas : id \in {ChaveDe[v], ChavePadrao, ChaveNula}

CaminhoDaVaga ==
  /\ tela # "home" => TemVaga(pedido.id)
  /\ tela = "checkout" => TemVaga(checkout.id)
  /\ \A r \in Requisicoes : leituras[r] # Nulo => TemVaga(leituras[r].id)
  /\ \A r \in Requisicoes : Respondida(ctx[r]) => TemVaga(ctx[r].id)

(* Once a spot is behind an id, it or its deletion stays behind it.        *)
LEMMA TemVagaFica ==
  ASSUME IInv, AlertaNoCheckout, NextParken
  PROVE  \A id : TemVaga(id) => TemVaga(id)'
  <1>1. \A v \in VagasEm(ctx) : v \in VagasEm(ctx') \/ v \in apagadas'
    BY PassoVagas, AusenteAssumption, FichaRegistrada
    DEF VagasIguais, VagaSai, VagaEntra, VagasEm, Registros
  <1>2. apagadas \subseteq apagadas'
    BY PassoVagas DEF VagasIguais, VagaSai, VagaEntra
  <1> QED BY <1>1, <1>2 DEF TemVaga

(* Where the ids of the pages, of the closures and of the requests come    *)
(* from in a step other than the opening of the form.                      *)
IdsCopiados ==
  /\ tela' # "home" => tela # "home" /\ pedido'.id = pedido.id
  /\ tela' = "checkout" => checkout'.id = pedido.id \/ (tela = "checkout" /\ checkout'.id = checkout.id)
  /\ \A r \in Requisicoes : leituras'[r] # Nulo =>
       \/ leituras[r] # Nulo /\ leituras'[r].id = leituras[r].id
       \/ tela = "checkout" /\ leituras'[r].id = checkout.id
  /\ \A r \in Requisicoes : Respondida(ctx'[r]) =>
       \/ Respondida(ctx[r]) /\ ctx'[r].id = ctx[r].id
       \/ leituras[r] # Nulo /\ ctx'[r].id = leituras[r].id

LEMMA PassoIds == ASSUME IInv, AlertaNoCheckout, NextParken, ~Requisitar PROVE IdsCopiados
  <1>0. TypeOK
    BY DEF IInv
  <1>1. CASE TocarHome \/ ResponderHome \/ CairAoRequisitar \/ Encerrado
    BY <1>1 DEF TocarHome, ResponderHome, CairAoRequisitar, Encerrado, varsParken, vars, IdsCopiados
  <1>2. ASSUME NEW e \in Enderecos, BuscarPerto(e) PROVE IdsCopiados
    <2>1. UNCHANGED <<ctx, leituras, tela, pedido, checkout>>
      BY <1>2 DEF BuscarPerto, Buscar, vars, persistencia, rede
    <2> QED BY <2>1 DEF IdsCopiados
  <1>3. CASE VoltarDoPedido
    BY <1>3, Saida DEF VoltarDoPedido, IdsCopiados
  <1>4. ASSUME NEW v \in Vagas, ApagarVaga(v) \/ InserirVaga(v) PROVE IdsCopiados
    <2>1. v \notin Requisicoes
      BY ObjetosAssumption
    <2>2. ASSUME ApagarVaga(v)
          PROVE  /\ \A r \in Requisicoes : ctx'[r] = ctx[r]
                 /\ UNCHANGED <<tela, pedido, checkout, leituras>>
      BY <1>0, <2>1, <2>2, Retirada DEF ApagarVaga, Objetos
    <2>3. ASSUME InserirVaga(v)
          PROVE  /\ \A r \in Requisicoes : ctx'[r] = ctx[r]
                 /\ UNCHANGED <<tela, pedido, checkout, leituras>>
      BY <1>0, <2>1, <2>3, Entrada DEF InserirVaga, Objetos
    <2> QED BY <1>4, <2>2, <2>3 DEF IdsCopiados
  <1>5. ASSUME NEW r \in Requisicoes, Confirmar(r) PROVE IdsCopiados
    <2>1. /\ \A o \in Objetos : ctx'[o] = IF o = r THEN EmBranco ELSE ctx[o]
          /\ UNCHANGED <<tela, pedido, checkout>> /\ tela = "checkout"
          /\ leituras' = [leituras EXCEPT ![r] = checkout]
      BY <1>0, <1>5, Confirmacao DEF Confirmar
    <2>2. ~Respondida(EmBranco)
      BY DEF Respondida, EmBranco
    <2> QED BY <1>0, <2>1, <2>2 DEF TypeOK, PaginasOK, Objetos, IdsCopiados
  <1>6. CASE SoReservas
    BY <1>6, PassoSoReservas DEF SoReservas, SoReservasMantem, IdsCopiados
  <1> QED BY <1>1, <1>2, <1>3, <1>4, <1>5, <1>6 DEF NextParken

(* The form opens on a spot that is there, on one deleted since the search,*)
(* or on none: then the chosen one was deleted before the search.          *)
LEMMA Abertura ==
  ASSUME IInv, Garagens, HP!IInv, Requisitar
  PROVE  TemVaga(pedido'.id) /\ tela' = "request" /\ UNCHANGED <<ctx, leituras>>
  <1>1. PICK v \in Vagas \cup {Nulo} : Abrir(v) /\ H!Requisitar /\ entregue'.vaga = v
    BY DEF Requisitar
  <1>2. tela' = "request" /\ UNCHANGED <<ctx, leituras>>
    BY <1>1 DEF Abrir, AbrirPedido, AbrirPedidoSemVaga, persistencia, rede
  <1>3. CASE v = Nulo
    <2>1. resultado = {} /\ pedido'.id = ChaveNula
      BY <1>1, <1>3 DEF Abrir, AbrirPedidoSemVaga, SemPedido
    <2>2. selecionadaHome \in DOMAIN parkingLocateList
      BY <1>1 DEF H!Requisitar, Requisitar
    <2>3. parkingLocateList[selecionadaHome].vaga \in apagadas
      BY <2>1, <2>2 DEF HP!IInv, HP!VagasConhecidas, HP!Conhecidas
    <2> QED BY <1>2, <2>1, <2>3 DEF TemVaga
  <1>4. CASE v # Nulo
    <2>1. v \in Vagas /\ v \in resultado /\ \E f \in FichasLidas(v) : pedido'.id = f.chave
      BY <1>1, <1>4 DEF Abrir, AbrirPedido, SemPedido
    <2>2. CASE ctx[v] # Ausente
      BY <1>2, <2>1, <2>2 DEF FichasLidas, Garagens, TemVaga, VagasEm
    <2>3. CASE ctx[v] = Ausente
      <3>1. v \in apagadas
        BY <2>1, <2>3 DEF Garagens, VagasEm
      <3>2. \A f \in FichasLidas(v) : f.chave \in {ChaveDe[v], ChavePadrao}
        BY <2>1, <2>3 DEF FichasLidas, Garagens
      <3> QED BY <1>2, <2>1, <3>1, <3>2 DEF TemVaga
    <2> QED BY <2>2, <2>3
  <1> QED BY <1>3, <1>4

LEMMA PassoCaminhoDaVaga ==
  ASSUME IInv, AlertaNoCheckout, Garagens, HP!IInv, CaminhoDaVaga, NextParken
  PROVE  CaminhoDaVaga'
  <1>1. \A id : TemVaga(id) => TemVaga(id)'
    BY TemVagaFica
  <1>2. CASE Requisitar
    <2>1. TemVaga(pedido'.id) /\ tela' = "request" /\ UNCHANGED <<ctx, leituras>>
      BY <1>2, Abertura
    <2>2. PICK id : id = pedido'.id
      OBVIOUS
    <2>3. TemVaga(id)'
      BY <1>1, <2>1, <2>2
    <2>4. tela' # "home" => TemVaga(pedido.id)'
      BY <2>2, <2>3 DEF TemVaga
    <2> QED BY <1>1, <2>1, <2>4 DEF CaminhoDaVaga
  <1>3. CASE ~Requisitar
    <2>1. IdsCopiados
      BY <1>3, PassoIds
    <2> QED BY <1>1, <2>1 DEF CaminhoDaVaga, IdsCopiados
  <1> QED BY <1>2, <1>3

(* A request the owner sees asks for a spot of the garage, or some spot    *)
(* was deleted, with or without a save, whatever the ids of the spots are  *)
(* (RequestViewController:48-76, HomeViewController:747-760).              *)
THEOREM PedidoSempreTemVaga == SpecParken => []PedidoTemVaga
  <1> DEFINE Fatos == IInv /\ AlertaNoCheckout /\ HP!IInv
             Inv == Garagens /\ CaminhoDaVaga
  <1>1. InitParken => Inv
    BY DEF InitParken, Init, Garagens, CaminhoDaVaga, Objetos, Respondida
  <1>2. Fatos /\ Inv /\ [NextParken]_varsParken => Inv'
    <2> SUFFICES ASSUME Fatos, Inv, [NextParken]_varsParken PROVE Inv'
      OBVIOUS
    <2>1. CASE NextParken
      BY <2>1, PassoGaragens, PassoCaminhoDaVaga
    <2>2. CASE UNCHANGED varsParken
      BY <2>2 DEF varsParken, varsHome, vars, Garagens, CaminhoDaVaga, TemVaga, VagasEm, Respondida
    <2> QED BY <2>1, <2>2
  <1>3. Inv => PedidoTemVaga
    BY DEF CaminhoDaVaga, TemVaga, PedidoTemVaga
  <1> QED BY <1>1, <1>2, <1>3, ImplementaReservas, Invariancia, AlertaInvariante, HomeInvariante, PTL DEF SpecParken
=============================================================================
