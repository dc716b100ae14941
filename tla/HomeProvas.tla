----------------------------- MODULE HomeProvas -----------------------------
(***************************************************************************)
(* Safety of the home screen, for every set of spots, addresses and texts, *)
(* every assignment of ids and every number of searches.                   *)
(***************************************************************************)
EXTENDS Home, TLAPS

(* Whatever the screen still knows of a spot, from the last search, from a *)
(* listed model, from the chosen one or from a question under way, the     *)
(* last search fetched that spot too, unless it was deleted meanwhile.     *)
Conhecidas == vagas \cup apagadas

VagasConhecidas ==
  /\ vagas \subseteq existentes \cup apagadas
  /\ \A g \in geocodificando : g.vaga \in Conhecidas
  /\ \A i \in DOMAIN parkingLocateList : parkingLocateList[i].vaga \in Conhecidas
  /\ parkChoosed # Nulo => parkChoosed.vaga \in Conhecidas

IInv ==
  /\ TypeOK
  /\ DestinoNoMapa
  /\ ListadasNoMapa
  /\ TabelaEmDia
  /\ SugestoesEmDia
  /\ EscolhidaNaSelecao
  /\ VagasConhecidas

LEMMA Vazia == <<>> \in Seq(Modelos) /\ DOMAIN <<>> = {}
  OBVIOUS

LEMMA Inicio == Init => IInv /\ EntregaCerta
  <1> SUFFICES ASSUME Init PROVE IInv /\ EntregaCerta
    OBVIOUS
  <1>1. TypeOK
    <2>0. PainelOK
      BY Zenon DEF Init, PainelOK
    <2>1. entregue \in [escolhida : Escolhas, vaga : Vagas \cup {Nulo}] /\ parkChoosed \in Escolhas
      BY DEF Init, SemEntrega, Escolhas
    <2>2. ListasOK
      BY Vazia DEF Init, ListasOK
    <2> QED BY <2>0, <2>1, <2>2, BuscasAssumption DEF Init, TypeOK
  <1>2. DestinoNoMapa /\ ListadasNoMapa /\ TabelaEmDia /\ SugestoesEmDia /\ EscolhidaNaSelecao
    BY DEF Init, DestinoNoMapa, ListadasNoMapa, TabelaEmDia, SugestoesEmDia, EscolhidaNaSelecao,
           MarcadoresVaga
  <1>3. VagasConhecidas /\ EntregaCerta
    BY DEF Init, VagasConhecidas, EntregaCerta, SemEntrega
  <1> QED BY <1>1, <1>2, <1>3 DEF IInv

-----------------------------------------------------------------------------
(* What each operator that touches the list returns.                       *)
LEMMA ModeloTipado ==
  ASSUME TypeOK, NEW g \in geocodificando
  PROVE  [busca |-> g.busca, vaga |-> g.vaga] \in Modelos
  BY DEF TypeOK, Modelos

LEMMA Listagem ==
  ASSUME TypeOK, NEW m \in Modelos, Listar(m)
  PROVE  /\ parkingLocateList' \in Seq(Modelos)
         /\ DOMAIN parkingLocateList' = DOMAIN parkingLocateList \cup {Len(parkingLocateList) + 1}
         /\ \A i \in DOMAIN parkingLocateList : parkingLocateList'[i] = parkingLocateList[i]
         /\ parkingLocateList'[Len(parkingLocateList) + 1] = m
         /\ linhas' = parkingLocateList'
         /\ selecionada' = 0
  BY DEF TypeOK, ListasOK, Listar

(* The form is handed nothing, or a spot the last search fetched.          *)
LEMMA EscolhaFeita ==
  ASSUME NEW id, NEW v \in VagasFinais(id)
  PROVE  IF vagas = {} THEN v = Nulo ELSE v \in vagas
  BY DEF VagasFinais, Ultimas

-----------------------------------------------------------------------------
LEMMA PassoListas == ASSUME IInv, [Next]_vars PROVE ListasOK'
  <1> USE DEF IInv, TypeOK
  <1>1. ASSUME parkingLocateList' \in {parkingLocateList, <<>>}, UNCHANGED linhas PROVE ListasOK'
    BY <1>1, Vazia DEF ListasOK
  <1>2. CASE \E g \in geocodificando : ResponderEndereco(g)
    <2> PICK g \in geocodificando : ResponderEndereco(g)
      BY <1>2
    <2>1. CASE g.perto
      BY <2>1, ModeloTipado, Listagem DEF ResponderEndereco, ListasOK
    <2>2. CASE ~g.perto
      BY <2>2 DEF ResponderEndereco, ListasOK
    <2> QED BY <2>1, <2>2
  <1> QED
    BY <1>1, <1>2
    DEF Next, vars, FicarFechado, tabela, Digitar, ResponderSugestoes, FalharSugestoes, ApagarTexto,
        AlternarPainel, EscolherSugestao, BuscarPerto, FalharEndereco, EscolherVaga,
        VoltarAoPrimeiro, IrAoPrimeiro, VoltarAoSegundo, Requisitar, VoltarDoPedido, ApagarVaga,
        InserirVaga

LEMMA PassoPainel == ASSUME IInv, [Next]_vars PROVE PainelOK'
  <1> USE DEF IInv, TypeOK
  <1>1. ASSUME UNCHANGED <<isSearching, isPopupOpen>> PROVE PainelOK'
    BY <1>1 DEF PainelOK
  <1>2. ASSUME isSearching' = FALSE, UNCHANGED isPopupOpen PROVE PainelOK'
    BY <1>2, Zenon DEF PainelOK
  <1>3. ASSUME isSearching' = FALSE, isPopupOpen' = FALSE PROVE PainelOK'
    BY <1>3, Zenon DEF PainelOK
  <1>4. ASSUME NEW q \in Textos, Digitar(q) PROVE PainelOK'
    BY <1>4, Zenon DEF PainelOK, Digitar
  <1>5. ASSUME AlternarPainel PROVE PainelOK'
    BY <1>5, Zenon DEF PainelOK, AlternarPainel, pesquisa
  <1> QED
    BY <1>1, <1>2, <1>3, <1>4, <1>5, Zenon
    DEF Next, vars, FicarFechado, pesquisa, ResponderSugestoes, FalharSugestoes, ApagarTexto,
        EscolherSugestao, BuscarPerto, IrAoSegundo, ResponderEndereco, FalharEndereco, EscolherVaga,
        VoltarAoPrimeiro, IrAoPrimeiro, VoltarAoSegundo, Requisitar, VoltarDoPedido, ApagarVaga,
        InserirVaga

LEMMA PassoTipos == ASSUME IInv, [Next]_vars PROVE TypeOK'
  <1> USE PassoListas, PassoPainel DEF IInv
  <1>1. CASE \E q \in Textos : Digitar(q)
    BY <1>1 DEF TypeOK, Digitar, tabela, garagem
  <1>2. CASE \E q \in Textos : ResponderSugestoes(q) \/ FalharSugestoes(q)
    BY <1>2 DEF TypeOK, ResponderSugestoes, FalharSugestoes, tabela, garagem
  <1>3. CASE ApagarTexto \/ AlternarPainel
    BY <1>3 DEF TypeOK, ApagarTexto, AlternarPainel, pesquisa, tabela, garagem
  <1>4. CASE \E e \in Enderecos : EscolherSugestao(e)
    <2> PICK e \in Enderecos : EscolherSugestao(e)
      BY <1>4
    <2>1. CASE sugestoes = Nulo
      BY <2>1 DEF TypeOK, EscolherSugestao, garagem
    <2>2. CASE sugestoes # Nulo
      <3>1. BuscarPerto(e) /\ UNCHANGED <<isPopupOpen, pesquisas, linhas, selecionada, parkChoosed,
                                           pagina, entregue, garagem, queda>>
        BY <2>2 DEF EscolherSugestao
      <3>2. buscas' \in 1..MaxBuscas /\ destino' = buscas' /\ passo' = 2 /\ isSearching' = FALSE
            /\ sugestoes' = Nulo /\ linhasSugestao' = Nulo /\ vagas' \subseteq Vagas
        BY <3>1, BuscasAssumption DEF BuscarPerto, IrAoSegundo, TypeOK
      <3>3. mapa' \subseteq Marcadores
        <4>1. MarcadorDestino(buscas') \in Marcadores
          BY <3>2 DEF MarcadorDestino, Marcadores
        <4> QED BY <3>1, <4>1 DEF BuscarPerto, TypeOK
      <3>4. geocodificando' \subseteq [busca : 1..MaxBuscas, vaga : Vagas, perto : BOOLEAN]
        BY <3>1, <3>2 DEF BuscarPerto, Perguntas, TypeOK
      <3> QED BY <3>1, <3>2, <3>3, <3>4, BuscasAssumption DEF TypeOK, garagem
    <2> QED BY <2>1, <2>2
  <1>5. CASE \E g \in geocodificando : ResponderEndereco(g)
    <2> PICK g \in geocodificando : ResponderEndereco(g)
      BY <1>5
    <2> DEFINE m == [busca |-> g.busca, vaga |-> g.vaga]
    <2>1. m \in Modelos
      BY ModeloTipado
    <2>2. UNCHANGED <<passo, pesquisa, isPopupOpen, destino, vagas, parkChoosed, pagina, entregue,
                      queda, garagem, buscas>> /\ geocodificando' \subseteq geocodificando
      BY DEF ResponderEndereco
    <2>3. CASE g.perto
      <3>1. Listar(m)
        BY <2>3 DEF ResponderEndereco
      <3>2. parkingLocateList' \in Seq(Modelos) /\ selecionada' = 0
        BY <2>1, <3>1, Listagem DEF TypeOK, ListasOK
      <3>3. mapa' \subseteq Marcadores
        <4>1. ASSUME NEW x \in Modelos PROVE MarcadorVaga(x) \in Marcadores
          BY <4>1 DEF MarcadorVaga, Marcadores, Modelos
        <4>2. \A i \in DOMAIN parkingLocateList' : parkingLocateList'[i] \in Modelos
          BY <3>2
        <4> QED BY <3>1, <4>1, <4>2 DEF Listar, MarcadoresVaga, TypeOK
      <3> QED BY <2>2, <3>2, <3>3 DEF TypeOK, pesquisa, garagem
    <2>4. CASE ~g.perto
      BY <2>2, <2>4 DEF ResponderEndereco, TypeOK, pesquisa, garagem
    <2> QED BY <2>3, <2>4
  <1>6. CASE \E g \in geocodificando : FalharEndereco(g)
    BY <1>6 DEF TypeOK, FalharEndereco, pesquisa, tabela, garagem
  <1>7. CASE \E i \in DOMAIN linhas : EscolherVaga(i)
    <2> PICK i \in DOMAIN linhas : EscolherVaga(i)
      BY <1>7
    <2>1. i \in Nat
      BY DEF TypeOK, ListasOK
    <2>2. i \in DOMAIN parkingLocateList => parkingLocateList[i] \in Escolhas
      BY DEF TypeOK, ListasOK, Escolhas
    <2> QED BY <2>1, <2>2 DEF TypeOK, EscolherVaga, pesquisa, garagem
  <1>8. CASE VoltarAoPrimeiro
    <2>1. passo' = 1 /\ destino' = 0 /\ mapa' \subseteq mapa
      BY <1>8 DEF VoltarAoPrimeiro, IrAoPrimeiro
    <2>2. UNCHANGED <<pesquisas, sugestoes, linhasSugestao, vagas, geocodificando, selecionada,
                      parkChoosed, pagina, entregue, queda, existentes, apagadas, buscas>>
      BY <1>8 DEF VoltarAoPrimeiro, garagem
    <2> QED BY <2>1, <2>2, BuscasAssumption DEF TypeOK
  <1>9. CASE VoltarAoSegundo
    BY <1>9 DEF TypeOK, VoltarAoSegundo, IrAoSegundo, tabela, garagem
  <1>10. CASE Requisitar
    <2>1. CASE selecionada \in DOMAIN parkingLocateList
      <3> PICK v \in VagasFinais(IdMontado[parkingLocateList[selecionada].vaga]) :
                 entregue' = [escolhida |-> parkChoosed, vaga |-> v]
        BY <1>10, <2>1 DEF Requisitar
      <3>1. v \in Vagas \cup {Nulo}
        BY EscolhaFeita DEF TypeOK
      <3>2. entregue' \in [escolhida : Escolhas, vaga : Vagas \cup {Nulo}]
        BY <3>1 DEF TypeOK
      <3>3. pagina' = "request" /\ passo' = 1 /\ destino' = 0 /\ mapa' \subseteq mapa
        BY <1>10, <2>1 DEF Requisitar, IrAoPrimeiro
      <3>4. UNCHANGED <<queda, pesquisas, sugestoes, linhasSugestao, vagas, geocodificando,
                        selecionada, parkChoosed, existentes, apagadas, buscas>>
        BY <1>10, <2>1 DEF Requisitar, garagem
      <3> QED BY <3>2, <3>3, <3>4, BuscasAssumption DEF TypeOK
    <2>2. CASE selecionada \notin DOMAIN parkingLocateList
      BY <1>10, <2>2 DEF TypeOK, Requisitar, garagem
    <2> QED BY <2>1, <2>2
  <1>11. CASE VoltarDoPedido
    BY <1>11 DEF TypeOK, VoltarDoPedido, SemEntrega, Escolhas, pesquisa, tabela, garagem
  <1>12. CASE \E v \in Vagas : ApagarVaga(v) \/ InserirVaga(v)
    BY <1>12 DEF TypeOK, ApagarVaga, InserirVaga, pesquisa, tabela
  <1>13. CASE UNCHANGED vars
    BY <1>13 DEF TypeOK, vars
  <1> QED
    BY <1>1, <1>2, <1>3, <1>4, <1>5, <1>6, <1>7, <1>8, <1>9, <1>10, <1>11, <1>12, <1>13
    DEF Next, FicarFechado

-----------------------------------------------------------------------------
(* The map.  What step 1 takes away is what the list and the destination   *)
(* put there; the markers left behind are of spots no longer listed.       *)
LEMMA MarcadoresDistintos ==
  /\ \A m \in Modelos : MarcadorVaga(m).tipo = "vaga"
  /\ \A n \in Nat : MarcadorDestino(n).tipo = "destino"
  BY DEF MarcadorVaga, MarcadorDestino

LEMMA IdaAoPrimeiro ==
  ASSUME IInv, IrAoPrimeiro
  PROVE  DestinoNoMapa' /\ ListadasNoMapa'
  <1>1. passo' = 1 /\ parkingLocateList' = <<>>
    BY DEF IrAoPrimeiro
  <1>2. \A m \in mapa' : m \in mapa /\ m # MarcadorDestino(destino)
    BY DEF IrAoPrimeiro
  <1>3. {m \in mapa' : m.tipo = "destino"} = {}
    BY <1>2 DEF IInv, DestinoNoMapa
  <1> QED BY <1>1, <1>3, Vazia DEF DestinoNoMapa, ListadasNoMapa, MarcadoresVaga

LEMMA PassoMapa == ASSUME IInv, [Next]_vars PROVE DestinoNoMapa' /\ ListadasNoMapa'
  <1>1. TypeOK /\ DestinoNoMapa /\ ListadasNoMapa
    BY DEF IInv
  <1>2. ASSUME UNCHANGED <<mapa, destino, parkingLocateList>>, (passo = 1) = (passo' = 1)
        PROVE  DestinoNoMapa' /\ ListadasNoMapa'
    BY <1>1, <1>2 DEF DestinoNoMapa, ListadasNoMapa, MarcadoresVaga
  <1>3. CASE \E e \in Enderecos : EscolherSugestao(e)
    <2> PICK e \in Enderecos : EscolherSugestao(e)
      BY <1>3
    <2>1. CASE sugestoes = Nulo
      BY <1>2, <2>1 DEF EscolherSugestao
    <2>2. CASE sugestoes # Nulo
      <3>1. /\ passo = 1 /\ passo' = 2 /\ parkingLocateList' = <<>> /\ destino' = buscas'
            /\ mapa' = (mapa \ {MarcadorDestino(destino)}) \cup {MarcadorDestino(buscas')}
        BY <2>2 DEF EscolherSugestao, NaHome, BuscarPerto, IrAoSegundo
      <3>2. {m \in mapa' : m.tipo = "destino"} = {MarcadorDestino(destino')}
        BY <1>1, <3>1 DEF DestinoNoMapa, MarcadorDestino
      <3> QED BY <3>1, <3>2, Vazia DEF DestinoNoMapa, ListadasNoMapa, MarcadoresVaga
    <2> QED BY <2>1, <2>2
  <1>4. CASE \E g \in geocodificando : ResponderEndereco(g)
    <2> PICK g \in geocodificando : ResponderEndereco(g)
      BY <1>4
    <2> DEFINE m == [busca |-> g.busca, vaga |-> g.vaga]
    <2>1. CASE g.perto
      <3>1. m \in Modelos /\ Listar(m) /\ UNCHANGED <<passo, destino>>
        BY <1>1, <2>1, ModeloTipado DEF ResponderEndereco
      <3>2. mapa' = mapa \cup MarcadoresVaga(parkingLocateList')
        BY <3>1 DEF Listar
      <3>3. \A i \in DOMAIN parkingLocateList' : parkingLocateList'[i] \in Modelos
        BY <1>1, <3>1, Listagem
      <3>4. \A x \in MarcadoresVaga(parkingLocateList') : x.tipo = "vaga"
        BY <3>3, MarcadoresDistintos DEF MarcadoresVaga
      <3>5. {x \in mapa' : x.tipo = "destino"} = {x \in mapa : x.tipo = "destino"}
        BY <3>2, <3>4
      <3>6. DestinoNoMapa'
        BY <1>1, <3>1, <3>5 DEF DestinoNoMapa, MarcadorDestino
      <3> QED BY <3>2, <3>6 DEF ListadasNoMapa, MarcadoresVaga
    <2>2. CASE ~g.perto
      BY <1>2, <2>2 DEF ResponderEndereco
    <2> QED BY <2>1, <2>2
  <1>5. CASE VoltarAoPrimeiro
    BY <1>5, IdaAoPrimeiro DEF VoltarAoPrimeiro
  <1>6. CASE Requisitar
    BY <1>2, <1>6, IdaAoPrimeiro DEF Requisitar
  <1>7. CASE \E i \in DOMAIN linhas : EscolherVaga(i)
    BY <1>2, <1>7 DEF EscolherVaga, NaHome
  <1>8. CASE VoltarAoSegundo
    BY <1>2, <1>8 DEF VoltarAoSegundo, NaHome, IrAoSegundo, tabela
  <1> QED
    BY <1>2, <1>3, <1>4, <1>5, <1>6, <1>7, <1>8
    DEF Next, vars, FicarFechado, tabela, Digitar, ResponderSugestoes, FalharSugestoes, ApagarTexto,
        AlternarPainel, FalharEndereco, VoltarDoPedido, ApagarVaga, InserirVaga

-----------------------------------------------------------------------------
(* The tables.                                                             *)
LEMMA PassoTabela == ASSUME IInv, [Next]_vars PROVE TabelaEmDia' /\ EscolhidaNaSelecao'
  <1>1. TypeOK /\ ListasOK /\ TabelaEmDia /\ EscolhidaNaSelecao
    BY DEF IInv, TypeOK
  <1>2. ASSUME UNCHANGED <<tabela, passo, parkChoosed>> PROVE TabelaEmDia' /\ EscolhidaNaSelecao'
    BY <1>1, <1>2 DEF TabelaEmDia, EscolhidaNaSelecao, tabela
  <1>3. ASSUME parkingLocateList' = <<>>, passo' # 3 PROVE TabelaEmDia' /\ EscolhidaNaSelecao'
    BY <1>3 DEF TabelaEmDia, EscolhidaNaSelecao
  <1>4. CASE \E g \in geocodificando : ResponderEndereco(g)
    <2> PICK g \in geocodificando : ResponderEndereco(g)
      BY <1>4
    <2>1. linhas' = parkingLocateList' /\ selecionada' = 0
      BY DEF ResponderEndereco, Listar
    <2> QED BY <2>1 DEF TabelaEmDia, EscolhidaNaSelecao
  <1>5. CASE \E e \in Enderecos : EscolherSugestao(e)
    <2> PICK e \in Enderecos : EscolherSugestao(e)
      BY <1>5
    <2>1. CASE sugestoes = Nulo
      BY <1>2, <2>1 DEF EscolherSugestao, tabela
    <2>2. CASE sugestoes # Nulo
      BY <1>3, <2>2 DEF EscolherSugestao, BuscarPerto, IrAoSegundo
    <2> QED BY <2>1, <2>2
  <1>6. CASE VoltarAoPrimeiro
    BY <1>3, <1>6 DEF VoltarAoPrimeiro, IrAoPrimeiro
  <1>7. CASE Requisitar
    BY <1>2, <1>3, <1>7 DEF Requisitar, IrAoPrimeiro, tabela
  <1>8. CASE \E i \in DOMAIN linhas : EscolherVaga(i)
    BY <1>1, <1>8 DEF EscolherVaga, NaHome, TabelaEmDia, EscolhidaNaSelecao
  <1>9. CASE VoltarAoSegundo
    BY <1>1, <1>9 DEF VoltarAoSegundo, IrAoSegundo, TabelaEmDia, EscolhidaNaSelecao, tabela
  <1> QED
    BY <1>2, <1>4, <1>5, <1>6, <1>7, <1>8, <1>9
    DEF Next, vars, FicarFechado, tabela, Digitar, ResponderSugestoes, FalharSugestoes, ApagarTexto,
        AlternarPainel, FalharEndereco, VoltarDoPedido, ApagarVaga, InserirVaga

LEMMA PassoSugestoes == ASSUME IInv, [Next]_vars PROVE SugestoesEmDia'
  <1>1. SugestoesEmDia
    BY DEF IInv
  <1> QED
    BY <1>1
    DEF Next, vars, FicarFechado, pesquisa, SugestoesEmDia, Digitar, ResponderSugestoes,
        FalharSugestoes, ApagarTexto, AlternarPainel, EscolherSugestao, BuscarPerto, IrAoSegundo,
        ResponderEndereco, FalharEndereco, EscolherVaga, VoltarAoPrimeiro, VoltarAoSegundo,
        Requisitar, VoltarDoPedido, ApagarVaga, InserirVaga

-----------------------------------------------------------------------------
(* The spots known.                                                        *)
LEMMA PassoConhecidas == ASSUME IInv, [Next]_vars PROVE VagasConhecidas'
  <1>1. TypeOK /\ ListasOK /\ VagasConhecidas
    BY DEF IInv, TypeOK
  <1>2. ASSUME UNCHANGED vagas, existentes \cup apagadas \subseteq existentes' \cup apagadas',
               apagadas \subseteq apagadas', geocodificando' \subseteq geocodificando,
               parkingLocateList' \in {parkingLocateList, <<>>},
               parkChoosed' # parkChoosed => parkChoosed'.vaga \in Conhecidas
        PROVE  VagasConhecidas'
    BY <1>1, <1>2, Vazia DEF VagasConhecidas, Conhecidas
  <1>3. CASE \E e \in Enderecos : EscolherSugestao(e)
    <2> PICK e \in Enderecos : EscolherSugestao(e)
      BY <1>3
    <2>1. CASE sugestoes = Nulo
      BY <1>2, <2>1 DEF EscolherSugestao, garagem
    <2>2. CASE sugestoes # Nulo
      <3>1. /\ vagas' = existentes /\ parkingLocateList' = <<>>
            /\ geocodificando' = geocodificando \cup Perguntas(buscas', e)
            /\ UNCHANGED <<parkChoosed, existentes, apagadas>>
        BY <2>2 DEF EscolherSugestao, BuscarPerto, garagem
      <3>2. \A g \in Perguntas(buscas', e) : g.vaga \in existentes
        BY DEF Perguntas
      <3>3. Conhecidas \subseteq Conhecidas'
        BY <1>1, <3>1 DEF VagasConhecidas, Conhecidas
      <3> QED BY <1>1, <3>1, <3>2, <3>3, Vazia DEF VagasConhecidas, Conhecidas
    <2> QED BY <2>1, <2>2
  <1>4. CASE \E g \in geocodificando : ResponderEndereco(g)
    <2> PICK g \in geocodificando : ResponderEndereco(g)
      BY <1>4
    <2> DEFINE m == [busca |-> g.busca, vaga |-> g.vaga]
    <2>1. CASE g.perto
      <3>1. /\ m \in Modelos /\ Listar(m)
            /\ UNCHANGED <<vagas, existentes, apagadas, parkChoosed>>
            /\ geocodificando' \subseteq geocodificando
        BY <1>1, <2>1, ModeloTipado DEF ResponderEndereco, garagem
      <3>2. g.vaga \in Conhecidas
        BY <1>1 DEF VagasConhecidas
      <3>3. \A i \in DOMAIN parkingLocateList' : parkingLocateList'[i].vaga \in Conhecidas
        BY <1>1, <3>1, <3>2, Listagem DEF VagasConhecidas
      <3> QED BY <1>1, <3>1, <3>3 DEF VagasConhecidas, Conhecidas
    <2>2. CASE ~g.perto
      BY <1>2, <2>2 DEF ResponderEndereco, garagem
    <2> QED BY <2>1, <2>2
  <1>5. CASE \E i \in DOMAIN linhas : EscolherVaga(i)
    BY <1>1, <1>2, <1>5 DEF EscolherVaga, garagem, VagasConhecidas
  <1>6. CASE \E v \in Vagas : ApagarVaga(v) \/ InserirVaga(v)
    BY <1>2, <1>6 DEF ApagarVaga, InserirVaga, tabela
  <1> QED
    BY <1>2, <1>3, <1>4, <1>5, <1>6
    DEF Next, vars, FicarFechado, tabela, garagem, Digitar, ResponderSugestoes, FalharSugestoes,
        ApagarTexto, AlternarPainel, FalharEndereco, VoltarAoPrimeiro, IrAoPrimeiro,
        VoltarAoSegundo, Requisitar, VoltarDoPedido

THEOREM Invariancia == Spec => []IInv
  <1>1. Init => IInv
    BY Inicio
  <1>2. IInv /\ [Next]_vars => IInv'
    BY PassoTipos, PassoMapa, PassoTabela, PassoSugestoes, PassoConhecidas DEF IInv
  <1> QED BY <1>1, <1>2, PTL DEF Spec

(* Type correctness of the home screen.                                    *)
THEOREM Tipos == Spec => []TypeOK
  BY Invariancia, PTL DEF IInv

(* The map never shows two destinations, nor one at step 1, and a spot     *)
(* listed is always on it.                                                 *)
THEOREM MapaSempreEmDia == Spec => []MapaEmDia
  BY Invariancia, PTL DEF IInv, MapaEmDia

(* The rows of the spots are those of the list, unless it is empty, and a  *)
(* row of suggestions always has its suggestion.                           *)
THEOREM TabelasSempreEmDia == Spec => []TabelasEmDia
  BY Invariancia, PTL DEF IInv, TabelasEmDia

(* The selected row, while a spot is shown, is that spot's or none.        *)
THEOREM EscolhidaSempreNaSelecao == Spec => []EscolhidaNaSelecao
  BY Invariancia, PTL DEF IInv

-----------------------------------------------------------------------------
(* Where the home screen may index out of range.                           *)
LEMMA PassoIndice == ASSUME IInv, IndiceSoNaListaVazia, [Next]_vars PROVE IndiceSoNaListaVazia'
  <1>0. TypeOK /\ ListasOK /\ TabelaEmDia /\ SugestoesEmDia /\ EscolhidaNaSelecao
    BY DEF IInv, TypeOK
  <1>1. CASE queda = "indice"
    <2>1. UNCHANGED vars
      BY <1>1
      DEF Next, FicarFechado, NaHome, Digitar, ResponderSugestoes, FalharSugestoes, ApagarTexto,
          AlternarPainel, EscolherSugestao, ResponderEndereco, FalharEndereco, EscolherVaga,
          VoltarAoPrimeiro, VoltarAoSegundo, Requisitar, VoltarDoPedido, ApagarVaga, InserirVaga
    <2> QED BY <2>1 DEF vars, IndiceSoNaListaVazia
  <1>2. CASE queda # "indice" /\ queda' = "indice"
    <2>1. ASSUME NEW e \in Enderecos, EscolherSugestao(e) PROVE FALSE
      BY <1>0, <1>2, <2>1 DEF EscolherSugestao, SugestoesEmDia
    <2>2. ASSUME NEW i \in DOMAIN linhas, EscolherVaga(i) PROVE IndiceSoNaListaVazia'
      <3>1. i \notin DOMAIN parkingLocateList /\ passo = 2 /\ UNCHANGED <<passo, parkingLocateList, linhas>>
        BY <1>2, <2>2 DEF EscolherVaga, NaHome
      <3>2. parkingLocateList = <<>>
        BY <1>0, <3>1 DEF TabelaEmDia
      <3> QED BY <3>1, <3>2, Vazia DEF IndiceSoNaListaVazia
    <2>3. CASE Requisitar
      <3>1. passo = 3 /\ selecionada \notin DOMAIN parkingLocateList /\ selecionada # 0
        BY <1>2, <2>3 DEF Requisitar, NaHome
      <3> QED BY <1>0, <3>1 DEF EscolhidaNaSelecao
    <2> QED
      BY <1>2, <2>1, <2>2, <2>3
      DEF Next, vars, FicarFechado, Digitar, ResponderSugestoes, FalharSugestoes, ApagarTexto,
          AlternarPainel, ResponderEndereco, FalharEndereco, VoltarAoPrimeiro, VoltarAoSegundo,
          VoltarDoPedido, ApagarVaga, InserirVaga
  <1>3. CASE queda' # "indice"
    BY <1>3 DEF IndiceSoNaListaVazia
  <1> QED BY <1>1, <1>2, <1>3

(* An index is out of range only for a row of the spots tapped after its   *)
(* list was emptied and before an answer fills it (HomeViewController:664),*)
(* never for a suggestion nor for the chosen spot (:427, :744).            *)
THEOREM IndiceSoForaNaListaVazia == Spec => []IndiceSoNaListaVazia
  <1>1. Init => IndiceSoNaListaVazia
    BY DEF Init, IndiceSoNaListaVazia
  <1>2. IInv /\ IndiceSoNaListaVazia /\ [Next]_vars => IndiceSoNaListaVazia'
    BY PassoIndice
  <1> QED BY <1>1, <1>2, Invariancia, PTL DEF Spec

-----------------------------------------------------------------------------
(* The spot handed to the form.                                            *)
LEMMA PassoEntrega == ASSUME IInv, EntregaCerta, [Next]_vars PROVE EntregaCerta'
  <1>1. ASSUME UNCHANGED entregue, apagadas \subseteq apagadas' PROVE EntregaCerta'
    BY <1>1 DEF EntregaCerta, IdsFieis
  <1>2. CASE Requisitar
    <2>1. CASE selecionada \notin DOMAIN parkingLocateList
      BY <1>1, <1>2, <2>1 DEF Requisitar, garagem
    <2>2. CASE selecionada \in DOMAIN parkingLocateList
      <3> DEFINE m == parkingLocateList[selecionada]
      <3> PICK v \in VagasFinais(IdMontado[m.vaga]) :
                 entregue' = [escolhida |-> parkChoosed, vaga |-> v]
        BY <1>2, <2>2 DEF Requisitar
      <3>1. passo = 3 /\ UNCHANGED <<existentes, apagadas>>
        BY <1>2 DEF Requisitar, NaHome, garagem
      <3>2. m = parkChoosed /\ m \in Modelos
        <4>1. selecionada # 0
          BY <2>2 DEF IInv, TypeOK, ListasOK
        <4> QED BY <2>2, <3>1, <4>1 DEF IInv, TypeOK, ListasOK, EscolhidaNaSelecao
      <3>3. m.vaga \in Vagas /\ m.vaga \in vagas \cup apagadas
        BY <2>2, <3>2 DEF IInv, VagasConhecidas, Conhecidas, Modelos
      <3>4. ASSUME IdsFieis, m.vaga \notin apagadas PROVE v = m.vaga
        <4>1. m.vaga \in vagas /\ m.vaga \in existentes
          BY <3>3, <3>4 DEF IInv, VagasConhecidas
        <4>2. {w \in vagas : IdGravado[w] = IdMontado[m.vaga]} = {m.vaga}
          BY <3>3, <3>4, <4>1 DEF IdsFieis, IInv, TypeOK
        <4> QED BY <4>1, <4>2 DEF VagasFinais
      <3>5. entregue'.escolhida = m /\ entregue'.vaga = v
        BY <3>2
      <3> QED BY <3>1, <3>4, <3>5 DEF EntregaCerta, IdsFieis
    <2> QED BY <2>1, <2>2
  <1>3. CASE VoltarDoPedido
    BY <1>3 DEF VoltarDoPedido, SemEntrega, EntregaCerta
  <1> QED
    BY <1>1, <1>2, <1>3
    DEF Next, vars, FicarFechado, garagem, Digitar, ResponderSugestoes, FalharSugestoes,
        ApagarTexto, AlternarPainel, EscolherSugestao, ResponderEndereco, FalharEndereco,
        EscolherVaga, VoltarAoPrimeiro, VoltarAoSegundo, ApagarVaga, InserirVaga

(* With faithful and unique ids the form gets the spot that was chosen,    *)
(* or that spot was deleted meanwhile.                                     *)
THEOREM EntregaSempreCerta == Spec => []EntregaCerta
  <1>1. Init => EntregaCerta
    BY Inicio
  <1>2. IInv /\ EntregaCerta /\ [Next]_vars => EntregaCerta'
    BY PassoEntrega
  <1> QED BY <1>1, <1>2, Invariancia, PTL DEF Spec

-----------------------------------------------------------------------------
(* The promise to the form.                                                *)
LEMMA PassoEscolha == ASSUME IInv, [Next]_vars PROVE [Escolha!Next]_(Escolha!vars)
  <1>1. CASE \E e \in Enderecos : EscolherSugestao(e)
    <2> PICK e \in Enderecos : EscolherSugestao(e)
      BY <1>1
    <2>1. pagina = "home" /\ UNCHANGED <<pagina, entregue>>
      BY DEF EscolherSugestao, NaHome
    <2>2. vagas' = vagas \/ vagas' \in SUBSET Vagas
      BY DEF EscolherSugestao, BuscarPerto, IInv, TypeOK
    <2> QED BY <2>1, <2>2 DEF Escolha!Next, Escolha!Buscar, Escolha!vars
  <1>2. CASE Requisitar
    <2>1. CASE selecionada \notin DOMAIN parkingLocateList
      BY <1>2, <2>1 DEF Requisitar, Escolha!vars
    <2>2. CASE selecionada \in DOMAIN parkingLocateList
      <3> PICK v \in VagasFinais(IdMontado[parkingLocateList[selecionada].vaga]) :
                 entregue' = [escolhida |-> parkChoosed, vaga |-> v]
        BY <1>2, <2>2 DEF Requisitar
      <3>1. pagina = "home" /\ pagina' = "request" /\ UNCHANGED vagas
        BY <1>2, <2>2 DEF Requisitar, NaHome
      <3>2. entregue'.vaga = v
        OBVIOUS
      <3> QED BY <3>1, <3>2, EscolhaFeita DEF Escolha!Next, Escolha!AbrirPedido
    <2> QED BY <2>1, <2>2
  <1>3. CASE VoltarDoPedido
    BY <1>3 DEF VoltarDoPedido, SemEntrega, Escolha!Next, Escolha!Voltar
  <1> QED
    BY <1>1, <1>2, <1>3
    DEF Next, vars, FicarFechado, Escolha!vars, Digitar, ResponderSugestoes, FalharSugestoes,
        ApagarTexto, AlternarPainel, ResponderEndereco, FalharEndereco, EscolherVaga,
        VoltarAoPrimeiro, VoltarAoSegundo, ApagarVaga, InserirVaga

(* The home screen implements the choice of a spot: whatever it hands over *)
(* is from the last search's result.                                       *)
THEOREM ImplementaEscolha == Spec => SegueEscolha
  <1>1. Init => Escolha!Init
    BY DEF Init, Escolha!Init, SemEntrega
  <1>2. IInv /\ [Next]_vars => [Escolha!Next]_(Escolha!vars)
    BY PassoEscolha
  <1> QED BY <1>1, <1>2, Invariancia, PTL DEF Spec, SegueEscolha, Escolha!Spec
=============================================================================
