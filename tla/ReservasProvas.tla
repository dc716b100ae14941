--------------------------- MODULE ReservasProvas ---------------------------
(***************************************************************************)
(* Safety of the booking flow, for every pool of objects, every set of     *)
(* prices and every bound.                                                 *)
(***************************************************************************)
EXTENDS Reservas, TLAPS

(* Every request with a state, in memory or in the store, has a date.      *)
Completas ==
  \A r \in Requisicoes :
    /\ Respondida(ctx[r]) => ctx[r].data
    /\ Respondida(store[r]) => store[r].data

IInv ==
  /\ TypeOK
  /\ LeituraNaoAtropela
  /\ StoreAtrasado
  /\ ListaEmDia
  /\ Completas
  /\ ConfirmacoesTemData

LEMMA Inicio == Init => IInv
  <1> SUFFICES ASSUME Init PROVE IInv
    OBVIOUS
  <1>1. TypeOK
    BY ObjetosAssumption, LimitesAssumption
    DEF Init, TypeOK, DadosOK, PaginasOK, Objetos, SemPedido, SemCheckout, SemSelecao, Pedidos, Checkouts, Selecoes, Ids
  <1>2. /\ LeituraNaoAtropela /\ StoreAtrasado /\ ListaEmDia /\ Completas /\ ConfirmacoesTemData
    BY DEF Init, LeituraNaoAtropela, StoreAtrasado, ListaEmDia, Completas, ConfirmacoesTemData,
           Respondida, Objetos
  <1> QED BY <1>1, <1>2 DEF IInv

(* What a save, failed or not, leaves behind.                              *)
LEMMA Gravacao ==
  ASSUME NEW c, Gravar(c), PaginasOK
  PROVE  ctx' = c /\ store' \in {store, c} /\ falhas' \in Nat
  BY LimitesAssumption DEF Gravar, Gravou, NaoGravou, PaginasOK

-----------------------------------------------------------------------------
(* What a step can do to the requests, in the words every later proof      *)
(* uses: move one request one place on, saved or not; touch no request in  *)
(* memory and at most commit them all; or start again from the store.      *)
Origem(q, y) ==
  \/ y = EmBranco /\ leituras' = [leituras EXCEPT ![q] = checkout]
  \/ /\ leituras[q] # Nulo /\ leituras' = [leituras EXCEPT ![q] = Nulo]
     /\ y = Preenchida(leituras[q])
  \/ /\ Respondida(ctx[q]) /\ UNCHANGED leituras
     /\ \E e \in Decisoes : y = [ctx[q] EXCEPT !.estado = e]

Avancou ==
  \E q \in Requisicoes : \E y \in RegistrosRequisicao :
    /\ Posicao(y) = Posicao(ctx[q]) + 1
    /\ y.estado # Nulo => y.data
    /\ ctx' = [ctx EXCEPT ![q] = y]
    /\ store' \in {store, ctx'}
    /\ \A r \in Requisicoes : leituras'[r] # Nulo => ctx'[r] = EmBranco
    /\ Origem(q, y)

NaoMexeu ==
  /\ \A r \in Requisicoes : ctx'[r] = ctx[r] /\ leituras'[r] \in {leituras[r], Nulo}
  /\ store' \in {store, ctx'}

Relancou ==
  /\ ctx' = store /\ UNCHANGED store
  /\ leituras' = [r \in Requisicoes |-> Nulo]
  /\ reinicios' # reinicios

LEMMA Movimento == ASSUME IInv, [Next]_vars PROVE Avancou \/ NaoMexeu \/ Relancou
  <1> USE DEF IInv, TypeOK
  <1>1. CASE \E r \in Requisicoes : ConfirmarPedido(r)
    <2> PICK r \in Requisicoes : ConfirmarPedido(r)
      BY <1>1
    <2>1. ctx[r] = Ausente /\ ctx' = [ctx EXCEPT ![r] = EmBranco] /\ store' = store
      BY DEF ConfirmarPedido, Novo
    <2>2. EmBranco \in RegistrosRequisicao /\ EmBranco.estado = Nulo
      BY DEF EmBranco, RegistrosRequisicao, Estados
    <2>3. EmBranco # Ausente
      BY <2>2, AusenteAssumption DEF Registros
    <2>4. Posicao(EmBranco) = Posicao(ctx[r]) + 1
      <3>1. Posicao(ctx[r]) = 0
        BY <2>1 DEF Posicao
      <3>2. Posicao(EmBranco) = 1
        BY <2>2, <2>3, NuloAssumption DEF Posicao
      <3> QED BY <3>1, <3>2
    <2>5. \A q \in Requisicoes : leituras'[q] # Nulo => ctx'[q] = EmBranco
      BY DEF ConfirmarPedido, LeituraNaoAtropela, DadosOK, PaginasOK, Objetos
    <2>6. \E y \in RegistrosRequisicao :
            /\ Posicao(y) = Posicao(ctx[r]) + 1
            /\ y.estado # Nulo => y.data
            /\ ctx' = [ctx EXCEPT ![r] = y]
            /\ store' \in {store, ctx'}
            /\ Origem(r, y)
      BY <2>1, <2>2, <2>4 DEF Origem, ConfirmarPedido
    <2> QED BY <2>5, <2>6 DEF Avancou
  <1>2. CASE \E r \in Requisicoes : ResponderPerfil(r)
    <2> PICK r \in Requisicoes : ResponderPerfil(r)
      BY <1>2
    <2>1. leituras[r] # Nulo /\ leituras' = [leituras EXCEPT ![r] = Nulo] /\ ctx[r] = EmBranco
      BY DEF ResponderPerfil, Resposta, LeituraNaoAtropela
    <2>2. CASE perfil
      <3> DEFINE y == Preenchida(leituras[r])
      <3>1. ctx' = [ctx EXCEPT ![r] = y] /\ store' \in {store, ctx'}
        BY <2>2, Gravacao DEF ResponderPerfil
      <3>2. y \in RegistrosRequisicao /\ y.estado = "Pendente" /\ y.data
        BY <2>1 DEF Preenchida, PaginasOK, Checkouts, RegistrosRequisicao, Estados
      <3>3. EmBranco \in RegistrosRequisicao /\ EmBranco.estado = Nulo
        BY DEF EmBranco, RegistrosRequisicao, Estados
      <3>4. Posicao(y) = Posicao(ctx[r]) + 1
        <4> HIDE DEF y
        <4> QED BY <2>1, <3>2, <3>3, AusenteAssumption, NuloAssumption DEF Posicao, Registros
      <3>5. \A q \in Requisicoes : leituras'[q] # Nulo => ctx'[q] = EmBranco
        BY <2>1, <3>1 DEF LeituraNaoAtropela, DadosOK, PaginasOK, Objetos
      <3>6. Origem(r, y)
        BY <2>1 DEF Origem
      <3> HIDE DEF y
      <3> QED BY <3>1, <3>2, <3>4, <3>5, <3>6 DEF Avancou
    <2>3. CASE ~perfil
      BY <2>1, <2>3 DEF ResponderPerfil, persistencia, NaoMexeu, PaginasOK
    <2> QED BY <2>2, <2>3
  <1>3. CASE \E e \in Decisoes : Decidir(e)
    <2> PICK e \in Decisoes : Decidir(e)
      BY <1>3
    <2> DEFINE r == selecionada.requisicao
               y == [ctx[r] EXCEPT !.estado = e]
    <2>1. r \in Requisicoes /\ ctx[r] # Ausente /\ ctx[r].estado = "Pendente"
      BY DEF Decidir, NaFolha, Tocavel, ListaEmDia, PendentesEm, RequisicoesEm
    <2>2. ctx[r] \in RegistrosRequisicao /\ ctx[r].data
      BY <2>1, NuloAssumption DEF DadosOK, Completas, Respondida
    <2>3. ctx' = [ctx EXCEPT ![r] = y] /\ store' \in {store, ctx'} /\ leituras' = leituras
      BY <2>1, Gravacao DEF Decidir, ComEstado, rede
    <2>4. y \in RegistrosRequisicao /\ y.estado = e /\ y.data
      BY <2>2 DEF RegistrosRequisicao, Estados
    <2>5. Posicao(y) = Posicao(ctx[r]) + 1
      BY <2>1, <2>4, AusenteAssumption, NuloAssumption DEF Posicao, Registros, Decisoes
    <2>6. \A q \in Requisicoes : leituras'[q] # Nulo => ctx'[q] = EmBranco
      <3>1. leituras[r] = Nulo
        BY <2>1, NuloAssumption DEF LeituraNaoAtropela, EmBranco
      <3> QED BY <2>3, <3>1 DEF LeituraNaoAtropela, DadosOK, Objetos
    <2>7. Origem(r, y)
      BY <2>1, <2>3, NuloAssumption DEF Origem, Respondida
    <2> HIDE DEF y, r
    <2> QED BY <2>1, <2>3, <2>4, <2>5, <2>6, <2>7 DEF Avancou
  <1>4. ASSUME NEW o \in Vagas \cup Cartoes, NEW x, UNCHANGED leituras, store' \in {store, ctx'},
               ctx' = ctx \/ ctx' = [ctx EXCEPT ![o] = x]
        PROVE  NaoMexeu
    BY <1>4, ObjetosAssumption DEF NaoMexeu, DadosOK, Objetos
  <1>5. CASE \E k \in Cartoes : SalvarCartao(k)
    <2> PICK k \in Cartoes : SalvarCartao(k)
      BY <1>5
    <2>1. ctx' = ctx \/ ctx' = [ctx EXCEPT ![k] = [cartaoNum |-> "informado"]]
      BY Gravacao DEF SalvarCartao
    <2>2. store' \in {store, ctx'} /\ leituras' = leituras
      BY Gravacao DEF SalvarCartao, rede
    <2> QED BY <1>4, <2>1, <2>2
  <1>6. CASE \E o \in Vagas \cup Cartoes : Apagar(o)
    <2> PICK o \in Vagas \cup Cartoes : Apagar(o)
      BY <1>6
    <2>1. ctx' = [ctx EXCEPT ![o] = Ausente] /\ store' \in {store, ctx'} /\ leituras' = leituras
      BY Gravacao DEF Apagar, rede
    <2> QED BY <1>4, <2>1
  <1>7. CASE \E v \in Vagas, f \in RegistrosVaga : NovaVaga(v, f)
    <2> PICK v \in Vagas, f \in RegistrosVaga : NovaVaga(v, f)
      BY <1>7
    <2>1. ctx' = [ctx EXCEPT ![v] = f] /\ store' \in {store, ctx'} /\ leituras' = leituras
      BY Gravacao DEF NovaVaga, rede
    <2> QED BY <1>4, <2>1
  <1>8. CASE SegundoPlano
    BY <1>8 DEF SegundoPlano, Gravou, NaoGravou, rede, NaoMexeu
  <1>9. CASE Reiniciar
    BY <1>9 DEF Reiniciar, Relancou, PaginasOK
  <1>10. CASE UNCHANGED <<ctx, store, leituras>>
    BY <1>10 DEF NaoMexeu
  <1> QED
    BY <1>1, <1>2, <1>3, <1>5, <1>6, <1>7, <1>8, <1>9, <1>10
    DEF Next, Usuario, Sistema, vars, persistencia, rede, Buscar, AbrirPedidoSemVaga, Prosseguir,
        RecusarSemCartao, AbrirPedido, DefinirHora, Digitar, AbrirConfirmacao, AbrirSolicitacao,
        AbrirCartao, SalvarCartaoIncompleto, AbrirFolha, FecharFolha, VoltarNaFolha, VoltarNaTela,
        OkPreencha, OkSucesso, CadastrarCartao, VoltarSemCartao, OkDecidida, FicarFechado

(* The three invariants that relate memory, store and reads.               *)
DadosEmOrdem == LeituraNaoAtropela /\ StoreAtrasado /\ Completas

LEMMA Posicoes == \A x : Posicao(x) \in 0..3
  BY DEF Posicao

LEMMA PassoDados == ASSUME IInv, [Next]_vars PROVE DadosEmOrdem'
  <1>0. DadosEmOrdem /\ DadosOK
    BY DEF IInv, TypeOK, DadosEmOrdem
  <1>1. CASE Avancou
    <2> PICK q \in Requisicoes, y \in RegistrosRequisicao :
          /\ Posicao(y) = Posicao(ctx[q]) + 1
          /\ y.estado # Nulo => y.data
          /\ ctx' = [ctx EXCEPT ![q] = y]
          /\ store' \in {store, ctx'}
          /\ \A r \in Requisicoes : leituras'[r] # Nulo => ctx'[r] = EmBranco
      BY <1>1 DEF Avancou
    <2>1. \A r \in Requisicoes : ctx'[r] = IF r = q THEN y ELSE ctx[r]
      BY <1>0 DEF DadosOK, Objetos
    <2>2. StoreAtrasado'
      <3> SUFFICES ASSUME NEW r \in Requisicoes
                   PROVE  store'[r] = ctx'[r] \/ Posicao(store'[r]) < Posicao(ctx'[r])
        BY DEF StoreAtrasado, Posicao
      <3>1. Posicao(store[r]) \in 0..3 /\ Posicao(ctx[r]) \in 0..3 /\ Posicao(y) \in 0..3
        BY Posicoes
      <3>2. store[r] = ctx[r] \/ Posicao(store[r]) < Posicao(ctx[r])
        BY <1>0 DEF DadosEmOrdem, StoreAtrasado
      <3>3. CASE store' = ctx'
        BY <3>3
      <3>4. CASE store' = store /\ r = q
        BY <2>1, <3>1, <3>2, <3>4
      <3>5. CASE store' = store /\ r # q
        BY <2>1, <3>2, <3>5
      <3> QED BY <3>3, <3>4, <3>5
    <2>3. Completas'
      <3> SUFFICES ASSUME NEW r \in Requisicoes
                   PROVE  /\ Respondida(ctx'[r]) => ctx'[r].data
                          /\ Respondida(store'[r]) => store'[r].data
        BY DEF Completas, Respondida
      <3>1. Respondida(ctx'[r]) => ctx'[r].data
        <4>1. CASE r = q
          BY <2>1, <4>1 DEF Respondida
        <4>2. CASE r # q
          BY <1>0, <2>1, <4>2 DEF DadosEmOrdem, Completas
        <4> QED BY <4>1, <4>2
      <3>2. CASE store' = ctx'
        BY <3>1, <3>2
      <3>3. CASE store' = store
        BY <1>0, <3>1, <3>3 DEF DadosEmOrdem, Completas
      <3> QED BY <3>2, <3>3
    <2> QED BY <2>2, <2>3 DEF DadosEmOrdem, LeituraNaoAtropela
  <1>2. CASE NaoMexeu
    BY <1>0, <1>2 DEF NaoMexeu, DadosEmOrdem, LeituraNaoAtropela, StoreAtrasado, Completas, Respondida, Posicao
  <1>3. CASE Relancou
    BY <1>0, <1>3 DEF Relancou, DadosEmOrdem, LeituraNaoAtropela, StoreAtrasado, Completas
  <1> QED BY <1>1, <1>2, <1>3, Movimento

-----------------------------------------------------------------------------
(* Types.                                                                  *)
LEMMA EdicaoTipada ==
  ASSUME DadosOK, NEW o \in Objetos, NEW x \in Registros \cup {Ausente},
         o \in Vagas => x \in RegistrosVaga \cup {Ausente},
         o \in Cartoes => x \in RegistrosCartao \cup {Ausente},
         o \in Requisicoes => x \in RegistrosRequisicao \cup {Ausente},
         ctx' = [ctx EXCEPT ![o] = x], store' \in {store, ctx'}
  PROVE  DadosOK'
  <1>1. \A p \in Objetos : ctx'[p] = IF p = o THEN x ELSE ctx[p]
    BY DEF DadosOK
  <1>2. /\ ctx' \in [Objetos -> Registros \cup {Ausente}]
        /\ \A v \in Vagas : ctx'[v] \in RegistrosVaga \cup {Ausente}
        /\ \A k \in Cartoes : ctx'[k] \in RegistrosCartao \cup {Ausente}
        /\ \A r \in Requisicoes : ctx'[r] \in RegistrosRequisicao \cup {Ausente}
    BY <1>1 DEF DadosOK, Objetos
  <1>3. CASE store' = ctx'
    BY <1>2, <1>3 DEF DadosOK
  <1>4. CASE store' = store
    BY <1>2, <1>4 DEF DadosOK
  <1> QED BY <1>3, <1>4

LEMMA PassoTiposDados == ASSUME IInv, [Next]_vars PROVE DadosOK'
  <1> USE DEF IInv, TypeOK
  <1>1. CASE \E r \in Requisicoes : ConfirmarPedido(r)
    <2> PICK r \in Requisicoes : ConfirmarPedido(r)
      BY <1>1
    <2>1. EmBranco \in RegistrosRequisicao
      BY DEF EmBranco, RegistrosRequisicao, Estados
    <2>2. ctx' = [ctx EXCEPT ![r] = EmBranco] /\ store' \in {store, ctx'}
      BY DEF ConfirmarPedido
    <2> QED BY <2>1, <2>2, ObjetosAssumption, EdicaoTipada DEF Objetos, Registros
  <1>2. CASE \E r \in Requisicoes : ResponderPerfil(r)
    <2> PICK r \in Requisicoes : ResponderPerfil(r)
      BY <1>2
    <2>1. Preenchida(leituras[r]) \in RegistrosRequisicao
      BY DEF ResponderPerfil, Resposta, Preenchida, PaginasOK, Checkouts, RegistrosRequisicao, Estados
    <2>2. CASE perfil
      <3>1. /\ ctx' = [ctx EXCEPT ![r] = Preenchida(leituras[r])]
            /\ store' \in {store, ctx'}
        BY <2>2, Gravacao DEF ResponderPerfil
      <3> QED BY <2>1, <3>1, ObjetosAssumption, EdicaoTipada DEF Objetos, Registros
    <2>3. CASE ~perfil
      BY <2>3 DEF ResponderPerfil, persistencia, DadosOK
    <2> QED BY <2>2, <2>3
  <1>3. CASE \E e \in Decisoes : Decidir(e)
    <2> PICK e \in Decisoes : Decidir(e)
      BY <1>3
    <2> DEFINE r == selecionada.requisicao
               y == [ctx[r] EXCEPT !.estado = e]
    <2>1. r \in Requisicoes /\ ctx[r] # Ausente
      BY DEF Decidir, NaFolha, Tocavel, ListaEmDia, PendentesEm, RequisicoesEm
    <2>2. y \in RegistrosRequisicao
      BY <2>1 DEF DadosOK, RegistrosRequisicao, Estados
    <2>3. ctx' = [ctx EXCEPT ![r] = y] /\ store' \in {store, ctx'}
      BY <2>1, Gravacao DEF Decidir, ComEstado
    <2> HIDE DEF y, r
    <2> QED BY <2>1, <2>2, <2>3, ObjetosAssumption, EdicaoTipada DEF Objetos, Registros
  <1>4. CASE \E k \in Cartoes : SalvarCartao(k)
    <2> PICK k \in Cartoes : SalvarCartao(k)
      BY <1>4
    <2> DEFINE x == [cartaoNum |-> "informado"]
    <2>1. x \in RegistrosCartao
      BY DEF RegistrosCartao
    <2>2. ctx' = ctx \/ ctx' = [ctx EXCEPT ![k] = x]
      BY Gravacao DEF SalvarCartao
    <2>3. store' \in {store, ctx'}
      BY Gravacao DEF SalvarCartao
    <2>4. CASE ctx' = ctx
      BY <2>3, <2>4 DEF DadosOK
    <2>5. CASE ctx' = [ctx EXCEPT ![k] = x]
      <3> HIDE DEF x
      <3> QED BY <2>1, <2>3, <2>5, ObjetosAssumption, EdicaoTipada DEF Objetos, Registros
    <2> QED BY <2>2, <2>4, <2>5
  <1>5. CASE \E o \in Vagas \cup Cartoes : Apagar(o)
    <2> PICK o \in Vagas \cup Cartoes : Apagar(o)
      BY <1>5
    <2>1. ctx' = [ctx EXCEPT ![o] = Ausente] /\ store' \in {store, ctx'}
      BY Gravacao DEF Apagar
    <2> QED BY <2>1, EdicaoTipada DEF Objetos
  <1>6. CASE \E v \in Vagas, f \in RegistrosVaga : NovaVaga(v, f)
    <2> PICK v \in Vagas, f \in RegistrosVaga : NovaVaga(v, f)
      BY <1>6
    <2>1. ctx' = [ctx EXCEPT ![v] = f] /\ store' \in {store, ctx'}
      BY Gravacao DEF NovaVaga
    <2> QED BY <2>1, ObjetosAssumption, EdicaoTipada DEF Objetos, Registros
  <1>7. CASE SegundoPlano
    BY <1>7 DEF SegundoPlano, Gravou, NaoGravou, DadosOK
  <1>8. CASE Reiniciar
    BY <1>8 DEF Reiniciar, DadosOK
  <1>9. CASE UNCHANGED <<ctx, store>>
    BY <1>9 DEF DadosOK
  <1> QED
    BY <1>1, <1>2, <1>3, <1>4, <1>5, <1>6, <1>7, <1>8, <1>9
    DEF Next, Usuario, Sistema, vars, persistencia, Buscar, AbrirPedidoSemVaga, Prosseguir,
        RecusarSemCartao, AbrirPedido, DefinirHora, Digitar, AbrirConfirmacao, AbrirSolicitacao,
        AbrirCartao, SalvarCartaoIncompleto, AbrirFolha, FecharFolha, VoltarNaFolha, VoltarNaTela,
        OkPreencha, OkSucesso, CadastrarCartao, VoltarSemCartao, OkDecidida, FicarFechado

(* What the form reads of a spot, there or gone: its id and one of the     *)
(* prices registered under it, or the defaults.                            *)
LEMMA FichaLida ==
  ASSUME DadosOK, NEW v \in Vagas, NEW f \in FichasLidas(v)
  PROVE  /\ f.valor \in Nat
         /\ f.chave \in Chaves \cup {ChavePadrao}
         /\ f.chave \in Chaves => f.valor \in Precos[f.chave]
  <1>1. ASSUME f \in RegistrosVaga PROVE f.chave \in Chaves /\ f.valor \in Precos[f.chave]
    BY <1>1 DEF RegistrosVaga
  <1>2. CASE f \in RegistrosVaga
    BY <1>1, <1>2, ChavesAssumption
  <1>3. CASE f \in [chave : {ChavePadrao}, valor : {0, 1}]
    BY <1>3, ChavesAssumption
  <1>4. f \in RegistrosVaga \/ f \in [chave : {ChavePadrao}, valor : {0, 1}]
    BY DEF FichasLidas, DadosOK
  <1> QED BY <1>2, <1>3, <1>4

(* Pages: the fields of each page stay within their types.                 *)
LEMMA PassoTiposPaginas == ASSUME IInv, [Next]_vars PROVE PaginasOK'
  <1> USE DEF IInv, TypeOK
  <1>1. CASE \/ Buscar \/ AbrirPedidoSemVaga \/ Prosseguir
             \/ \E h \in 0..MaxHoras : DefinirHora(h)
             \/ \E b \in BOOLEAN : Digitar(b)
    <2>1. CASE Buscar
      BY <2>1 DEF Buscar, VagasEm, PaginasOK, persistencia, rede, listas
    <2>2. CASE AbrirPedidoSemVaga
      BY <2>2 DEF AbrirPedidoSemVaga, PaginasOK, persistencia, rede, listas, Pedidos, SemPedido, Ids
    <2>3. CASE Prosseguir
      <3>1. checkout' \in Checkouts /\ alerta' \in {"nenhum", "preencha"}
        BY <2>3 DEF Prosseguir, PaginasOK, Pedidos, Checkouts
      <3> QED BY <2>3, <3>1 DEF Prosseguir, PaginasOK, persistencia, rede, listas
    <2>4. CASE \E h \in 0..MaxHoras : DefinirHora(h)
      <3> PICK h \in 0..MaxHoras : DefinirHora(h)
        BY <2>4
      <3>1. h \in Nat /\ pedido.valorHora \in Nat
        BY LimitesAssumption DEF PaginasOK, Pedidos
      <3>2. pedido.valorHora * h \in Nat
        BY <3>1
      <3>3. pedido' \in Pedidos
        BY <3>1, <3>2 DEF DefinirHora, ComHoras, PaginasOK, Pedidos
      <3> QED BY <3>3 DEF DefinirHora, PaginasOK, persistencia, rede, listas
    <2>5. CASE \E b \in BOOLEAN : Digitar(b)
      BY <2>5 DEF Digitar, PaginasOK, Pedidos, persistencia, rede, listas
    <2> QED BY <1>1, <2>1, <2>2, <2>3, <2>4, <2>5
  <1>2. CASE \E v \in Vagas : AbrirPedido(v)
    <2> PICK v \in Vagas : AbrirPedido(v)
      BY <1>2
    <2>1. PICK f \in FichasLidas(v) : pedido' = [SemPedido EXCEPT !.id = f.chave, !.valorHora = f.valor]
      BY DEF AbrirPedido
    <2>2. pedido' \in Pedidos
      <3>1. f.chave \in Ids /\ f.valor \in Nat
        BY FichaLida, ChavesAssumption DEF Ids
      <3> QED BY <2>1, <3>1 DEF Pedidos, SemPedido
    <2> QED BY <2>2 DEF AbrirPedido, PaginasOK, persistencia, rede, listas
  <1>3. CASE \/ \E r \in Requisicoes : ConfirmarPedido(r)
             \/ RecusarSemCartao
             \/ \E r \in Requisicoes : ResponderPerfil(r)
    BY <1>3, LimitesAssumption
    DEF ConfirmarPedido, RecusarSemCartao, ResponderPerfil, Resposta, Gravar, Gravou, NaoGravou, PaginasOK,
        persistencia, formulario, rede, listas
  <1>4. CASE \/ \E r \in Requisicoes : AbrirConfirmacao(r) \/ AbrirSolicitacao(r)
             \/ \E e \in Decisoes : Decidir(e)
    BY <1>4, LimitesAssumption
    DEF AbrirConfirmacao, AbrirSolicitacao, Decidir, Gravar, Gravou, NaoGravou, PaginasOK, Selecoes,
        persistencia, formulario, rede, listas
  <1>5. CASE \/ \E k \in Cartoes \cup {Nulo} : AbrirCartao(k)
             \/ SalvarCartaoIncompleto
             \/ \E k \in Cartoes : SalvarCartao(k)
             \/ \E o \in Vagas \cup Cartoes : Apagar(o)
             \/ \E v \in Vagas, f \in RegistrosVaga : NovaVaga(v, f)
    BY <1>5, LimitesAssumption
    DEF AbrirCartao, SalvarCartaoIncompleto, SalvarCartao, VoltarAosCartoes, Apagar, LinhasSem, NovaVaga, Gravar,
        Gravou, NaoGravou, CartoesEm, VagasEm, Objetos, PaginasOK, persistencia, formulario, rede, listas
  <1>6. ASSUME NEW c, NEW antes \in Vagas \cup {Nulo}, MostrarConfirmacoes(c, antes)
        PROVE  /\ folha' = "confirmacoes" /\ linhas' \subseteq Objetos
               /\ vagaSelec' \in Vagas \cup {Nulo} /\ queda' \in {"nenhuma", "data"}
    BY <1>6 DEF MostrarConfirmacoes, LinhasConfirmacoes, PendentesEm, RequisicoesEm, VagasDe, VagasEm, Objetos
  <1>7. ASSUME NEW f, AbrirLista(f)
        PROVE  /\ folha' \in {"pagamento", "garagem", "historico", "confirmacoes"}
               /\ linhas' \subseteq Objetos /\ vagaSelec' \in Vagas \cup {Nulo}
               /\ queda' \in {queda, "nenhuma", "data"}
    <2>1. CASE MostrarConfirmacoes(ctx, Nulo)
      BY <2>1, <1>6
    <2> QED BY <1>7, <2>1 DEF AbrirLista, CartoesEm, VagasEm, RequisicoesEm, Objetos, PaginasOK
  <1>8. CASE \E f \in {"garagem", "confirmacoes", "historico", "pagamento"} : AbrirFolha(f)
    BY <1>7, <1>8 DEF AbrirFolha, PaginasOK, persistencia, formulario, rede
  <1>9. CASE FecharFolha
    BY <1>9 DEF FecharFolha, LimparFolha, Selecoes, PaginasOK, persistencia, formulario, rede
  <1>10. CASE VoltarNaFolha
    <2>1. CASE MostrarConfirmacoes(ctx, vagaSelec) /\ selecionada' = SemSelecao /\ UNCHANGED cartao
      <3>1. vagaSelec \in Vagas \cup {Nulo}
        BY DEF PaginasOK
      <3>2. /\ folha' = "confirmacoes" /\ linhas' \subseteq Objetos
            /\ vagaSelec' \in Vagas \cup {Nulo} /\ queda' \in {"nenhuma", "data"}
        BY <2>1, <3>1, <1>6
      <3> QED BY <1>10, <2>1, <3>2 DEF VoltarNaFolha, PaginasOK, Selecoes, persistencia, formulario, rede
    <2>2. CASE \/ folha' = "historico" /\ linhas' = RequisicoesEm(ctx)
                  /\ UNCHANGED <<vagaSelec, selecionada, cartao, queda>>
               \/ VoltarAosCartoes(ctx) /\ UNCHANGED <<vagaSelec, selecionada, queda>>
      <3>1. linhas' \subseteq Objetos
        BY <2>2 DEF VoltarAosCartoes, CartoesEm, RequisicoesEm, Objetos
      <3>2. folha' \in {"historico", "pagamento"} /\ cartao' \in Cartoes \cup {Nulo}
            /\ UNCHANGED <<vagaSelec, selecionada, queda>>
        BY <2>2 DEF VoltarAosCartoes, PaginasOK
      <3> QED BY <1>10, <3>1, <3>2 DEF VoltarNaFolha, PaginasOK, persistencia, formulario, rede
    <2> QED BY <1>10, <2>1, <2>2 DEF VoltarNaFolha
  <1>11. CASE VoltarNaTela \/ OkPreencha \/ OkSucesso \/ VoltarSemCartao
    <2>1. SemPedido \in Pedidos /\ SemCheckout \in Checkouts
      BY DEF Pedidos, Checkouts, SemPedido, SemCheckout, Ids
    <2>2. CASE VoltarNaTela
      BY <2>1, <2>2 DEF VoltarNaTela, PaginasOK, persistencia, rede, listas
    <2>3. CASE OkPreencha
      BY <2>3 DEF OkPreencha, PaginasOK, persistencia, formulario, rede, listas
    <2>4. CASE OkSucesso \/ VoltarSemCartao
      BY <2>1, <2>4 DEF OkSucesso, VoltarSemCartao, PaginasOK, persistencia, rede, listas
    <2> QED BY <1>11, <2>2, <2>3, <2>4
  <1>12. CASE CadastrarCartao
    BY <1>7, <1>12 DEF CadastrarCartao, PaginasOK, persistencia, formulario, rede
  <1>13. CASE OkDecidida
    <2>1. vagaSelec \in Vagas \cup {Nulo}
      BY DEF PaginasOK
    <2>2. /\ folha' = "confirmacoes" /\ linhas' \subseteq Objetos
          /\ vagaSelec' \in Vagas \cup {Nulo} /\ queda' \in {"nenhuma", "data"}
      BY <1>13, <2>1, <1>6 DEF OkDecidida
    <2> QED BY <1>13, <2>2 DEF OkDecidida, PaginasOK, Selecoes, persistencia, formulario, rede
  <1>14. CASE SegundoPlano
    BY <1>14 DEF SegundoPlano, Gravou, NaoGravou, PaginasOK, formulario, rede, listas
  <1>15. CASE Reiniciar
    <2>1. SemPedido \in Pedidos /\ SemCheckout \in Checkouts
      BY DEF Pedidos, Checkouts, SemPedido, SemCheckout, Ids
    <2>2. /\ reinicios' \in Nat /\ falhas' \in Nat
          /\ leituras' \in [Requisicoes -> Checkouts \cup {Nulo}]
      BY <1>15 DEF Reiniciar, PaginasOK
    <2>3. /\ linhas' = {} /\ vagaSelec' = Nulo /\ selecionada' \in Selecoes /\ cartao' = Nulo
          /\ folha' = "nenhuma"
      BY <1>15 DEF Reiniciar, LimparFolha, Selecoes
    <2>4. /\ resultado' = {} /\ achou' = FALSE /\ pedido' \in Pedidos /\ checkout' \in Checkouts
          /\ perfil' \in BOOLEAN /\ tela' = "home" /\ alerta' = "nenhum" /\ queda' = "nenhuma"
      BY <1>15, <2>1 DEF Reiniciar
    <2> QED BY <2>2, <2>3, <2>4 DEF PaginasOK
  <1>16. CASE UNCHANGED vars
    BY <1>16 DEF vars, PaginasOK
  <1> QED
    BY <1>1, <1>2, <1>3, <1>4, <1>5, <1>8, <1>9, <1>10, <1>11, <1>12, <1>13, <1>14, <1>15, <1>16
    DEF Next, Usuario, Sistema, FicarFechado

-----------------------------------------------------------------------------
(* The owner's list: what is on screen is still pending.  A request leaves *)
(* the pending ones only on the page that decides it, and that page gives  *)
(* way to a list fetched again.                                            *)
LEMMA MostradasPendentes ==
  ASSUME NEW c, NEW antes, MostrarConfirmacoes(c, antes),
         \A r \in PendentesEm(c) : c[r].data
  PROVE  folha' = "confirmacoes" /\ linhas' = PendentesEm(c) /\ queda' = "nenhuma"
  BY DEF MostrarConfirmacoes, LinhasConfirmacoes

LEMMA PassoListas == ASSUME IInv, [Next]_vars PROVE ListaEmDia' /\ ConfirmacoesTemData'
  <1> USE DEF IInv, TypeOK
  <1>0. \A r \in PendentesEm(ctx) : r \in Requisicoes /\ ctx[r].data
    BY NuloAssumption DEF PendentesEm, RequisicoesEm, Completas, Respondida
  <1>1. CASE \E r \in Requisicoes : ConfirmarPedido(r)
    BY <1>1 DEF ConfirmarPedido, NaTela, Tocavel, listas, ListaEmDia, ConfirmacoesTemData
  <1>2. CASE \E r \in Requisicoes : ResponderPerfil(r)
    <2> PICK r \in Requisicoes : ResponderPerfil(r)
      BY <1>2
    <2>1. UNCHANGED <<folha, alerta, queda, linhas, selecionada>>
      BY DEF ResponderPerfil, listas
    <2>2. PendentesEm(ctx) \subseteq PendentesEm(ctx')
      <3>1. CASE perfil
        <4>1. ctx' = [ctx EXCEPT ![r] = Preenchida(leituras[r])]
          BY <3>1, Gravacao DEF ResponderPerfil
        <4>2. Preenchida(leituras[r]) \in RegistrosRequisicao
          BY DEF ResponderPerfil, Resposta, Preenchida, PaginasOK, Checkouts, RegistrosRequisicao, Estados
        <4>3. Preenchida(leituras[r]) # Ausente /\ Preenchida(leituras[r]).estado = "Pendente"
          BY <4>2, AusenteAssumption DEF Registros, Preenchida
        <4> QED BY <4>1, <4>3 DEF PendentesEm, RequisicoesEm, DadosOK, Objetos
      <3>2. CASE ~perfil
        BY <3>2 DEF ResponderPerfil, persistencia
      <3> QED BY <3>1, <3>2
    <2> QED BY <2>1, <2>2 DEF ListaEmDia, ConfirmacoesTemData
  <1>3. CASE \E e \in Decisoes : Decidir(e)
    BY <1>3 DEF Decidir, NaFolha, Tocavel, listas, ListaEmDia, ConfirmacoesTemData
  <1>4. ASSUME NEW o \in Vagas \cup Cartoes, NEW x, ctx' = [ctx EXCEPT ![o] = x]
        PROVE  PendentesEm(ctx') = PendentesEm(ctx)
    BY <1>4, ObjetosAssumption DEF PendentesEm, RequisicoesEm, DadosOK, Objetos
  <1>5. CASE \E k \in Cartoes : SalvarCartao(k)
    BY <1>5 DEF SalvarCartao, VoltarAosCartoes, NaFolha, Tocavel, ListaEmDia, ConfirmacoesTemData
  <1>6. CASE \E o \in Vagas \cup Cartoes : Apagar(o)
    BY <1>6 DEF Apagar, NaFolha, Tocavel, ListaEmDia, ConfirmacoesTemData
  <1>7. CASE \E v \in Vagas, f \in RegistrosVaga : NovaVaga(v, f)
    <2> PICK v \in Vagas, f \in RegistrosVaga : NovaVaga(v, f)
      BY <1>7
    <2>1. ctx' = [ctx EXCEPT ![v] = f]
      BY Gravacao DEF NovaVaga
    <2>2. PendentesEm(ctx') = PendentesEm(ctx)
      BY <2>1, <1>4
    <2> QED BY <2>2 DEF NovaVaga, ListaEmDia, ConfirmacoesTemData
  <1>8. CASE \E r \in Requisicoes : AbrirConfirmacao(r)
    BY <1>0, <1>8
    DEF AbrirConfirmacao, NaFolha, Tocavel, persistencia, ListaEmDia, ConfirmacoesTemData
  <1>9. CASE \/ \E k \in Cartoes \cup {Nulo} : AbrirCartao(k)
             \/ \E r \in Requisicoes : AbrirSolicitacao(r)
    BY <1>9 DEF AbrirCartao, AbrirSolicitacao, ListaEmDia, ConfirmacoesTemData
  <1>10. ASSUME NEW f, AbrirLista(f), UNCHANGED ctx
         PROVE  ListaEmDia' /\ ConfirmacoesTemData'
    BY <1>0, <1>10, MostradasPendentes DEF AbrirLista, ListaEmDia, ConfirmacoesTemData
  <1>11. CASE \E f \in {"garagem", "confirmacoes", "historico", "pagamento"} : AbrirFolha(f)
    BY <1>10, <1>11 DEF AbrirFolha, persistencia
  <1>12. CASE CadastrarCartao
    BY <1>10, <1>12 DEF CadastrarCartao, persistencia
  <1>13. CASE VoltarNaFolha
    BY <1>0, <1>13, MostradasPendentes
    DEF VoltarNaFolha, VoltarAosCartoes, persistencia, ListaEmDia, ConfirmacoesTemData
  <1>14. CASE OkDecidida
    BY <1>0, <1>14, MostradasPendentes DEF OkDecidida, persistencia, ListaEmDia, ConfirmacoesTemData
  <1>15. CASE FecharFolha \/ Reiniciar
    BY <1>15 DEF FecharFolha, Reiniciar, LimparFolha, ListaEmDia, ConfirmacoesTemData
  <1>16. CASE SegundoPlano
    BY <1>16 DEF SegundoPlano, listas, ListaEmDia, ConfirmacoesTemData
  <1>17. CASE \/ Buscar \/ AbrirPedidoSemVaga \/ Prosseguir \/ RecusarSemCartao
              \/ \E v \in Vagas : AbrirPedido(v)
              \/ \E h \in 0..MaxHoras : DefinirHora(h)
              \/ \E b \in BOOLEAN : Digitar(b)
              \/ SalvarCartaoIncompleto \/ VoltarNaTela \/ OkPreencha \/ OkSucesso \/ VoltarSemCartao
    <2>1. UNCHANGED <<ctx, folha, queda, linhas, selecionada>>
      BY <1>17 DEF Buscar, AbrirPedidoSemVaga, Prosseguir, RecusarSemCartao, AbrirPedido, DefinirHora, Digitar,
                   SalvarCartaoIncompleto, VoltarNaTela, OkPreencha, OkSucesso, VoltarSemCartao,
                   persistencia, listas
    <2>2. alerta' # "decidida" => alerta # "decidida"
      BY <1>17 DEF Buscar, AbrirPedidoSemVaga, Prosseguir, RecusarSemCartao, AbrirPedido, DefinirHora, Digitar,
                   SalvarCartaoIncompleto, VoltarNaTela, OkPreencha, OkSucesso, VoltarSemCartao,
                   NaTela, NaFolha, Tocavel
    <2> QED BY <2>1, <2>2 DEF ListaEmDia, ConfirmacoesTemData
  <1>18. CASE UNCHANGED vars
    BY <1>18 DEF vars, ListaEmDia, ConfirmacoesTemData
  <1> QED
    BY <1>1, <1>2, <1>3, <1>5, <1>6, <1>7, <1>8, <1>9, <1>11, <1>12, <1>13, <1>14, <1>15, <1>16, <1>17, <1>18
    DEF Next, Usuario, Sistema, FicarFechado

-----------------------------------------------------------------------------
(* The inductive invariant holds in every reachable state.                 *)
THEOREM Invariancia == Spec => []IInv
  <1>1. IInv /\ [Next]_vars => IInv'
    BY PassoTiposDados, PassoTiposPaginas, PassoDados, PassoListas DEF IInv, TypeOK, DadosEmOrdem
  <1> QED BY <1>1, Inicio, PTL DEF Spec

(* Every variable keeps its type: in particular what the asynchronous      *)
(* answers write over the shared context is always a record of the entity. *)
THEOREM Tipos == Spec => []TypeOK
  BY Invariancia, PTL DEF IInv

(* The list of confirmations and the page of one never trap on a date.     *)
THEOREM ConfirmacoesNuncaCaem == Spec => []ConfirmacoesTemData
  BY Invariancia, PTL DEF IInv

(* An awaited profile answer always finds its request blank.               *)
THEOREM LeituraSempreEmBranco == Spec => []LeituraNaoAtropela
  BY Invariancia, PTL DEF IInv

(* The store never runs ahead of the memory and holds no half-written      *)
(* request.                                                                *)
THEOREM StoreSempreAtrasado == Spec => []StoreAtrasado
  BY Invariancia, PTL DEF IInv

(* No page offers the decision of a request already decided.               *)
THEOREM ListaSempreEmDia == Spec => []ListaEmDia
  BY Invariancia, PTL DEF IInv

-----------------------------------------------------------------------------
(* Nobody but the answer itself ends a read, and with a profile the answer *)
(* fills the request.                                                      *)
LEMMA PassoBranca == ASSUME IInv, BrancaTemMotivo, [Next]_vars PROVE BrancaTemMotivo'
  <1>0. TypeOK /\ DadosOK /\ PaginasOK /\ reinicios \in Nat
    BY DEF IInv, TypeOK, PaginasOK
  <1>1. CASE Reiniciar
    BY <1>0, <1>1 DEF Reiniciar, BrancaTemMotivo
  <1>2. CASE ~Reiniciar
    <2>0. UNCHANGED <<perfil, reinicios>>
      BY <1>2
      DEF Next, Usuario, Sistema, vars, persistencia, rede, Buscar, AbrirPedidoSemVaga, Prosseguir,
          RecusarSemCartao, AbrirPedido, DefinirHora, Digitar, AbrirConfirmacao, AbrirSolicitacao,
          AbrirCartao, SalvarCartaoIncompleto, AbrirFolha, FecharFolha, VoltarNaFolha, VoltarNaTela,
          OkPreencha, OkSucesso, CadastrarCartao, VoltarSemCartao, OkDecidida, FicarFechado,
          ConfirmarPedido, ResponderPerfil, Decidir, SalvarCartao, Apagar, NovaVaga, SegundoPlano
    <2> SUFFICES ASSUME NEW r \in Requisicoes, ctx'[r] = EmBranco, leituras'[r] = Nulo, perfil, ~(reinicios > 0)
                 PROVE  FALSE
      BY <2>0 DEF BrancaTemMotivo, EmBranco
    <2>1. ctx[r] # EmBranco \/ leituras[r] # Nulo
      BY DEF BrancaTemMotivo
    <2>2. ASSUME NEW q \in Requisicoes, ConfirmarPedido(q) PROVE FALSE
      <3>1. leituras' = [leituras EXCEPT ![q] = checkout] /\ ctx' = [ctx EXCEPT ![q] = EmBranco]
        BY <2>2 DEF ConfirmarPedido
      <3>2. checkout # Nulo
        BY <1>0, CheckoutsAssumption DEF PaginasOK
      <3> QED BY <1>0, <2>1, <3>1, <3>2 DEF PaginasOK, DadosOK, Objetos
    <2>3. ASSUME NEW q \in Requisicoes, ResponderPerfil(q) PROVE FALSE
      <3>1. leituras' = [leituras EXCEPT ![q] = Nulo]
        BY <2>3 DEF ResponderPerfil
      <3>2. ctx' = [ctx EXCEPT ![q] = Preenchida(leituras[q])]
        BY <1>0, <2>3, Gravacao DEF ResponderPerfil
      <3>3. Preenchida(leituras[q]) # EmBranco
        BY NuloAssumption DEF Preenchida, EmBranco
      <3> QED BY <1>0, <2>1, <3>1, <3>2, <3>3 DEF PaginasOK, DadosOK, Objetos
    <2>4. ASSUME UNCHANGED leituras PROVE FALSE
      <3>1. leituras[r] = Nulo /\ ctx[r] # EmBranco
        BY <2>1, <2>4
      <3>2. CASE Avancou
        <4>1. PICK q \in Requisicoes, y \in RegistrosRequisicao :
                ctx' = [ctx EXCEPT ![q] = y] /\ Origem(q, y)
          BY <3>2 DEF Avancou
        <4>2. r = q /\ y = EmBranco
          BY <1>0, <3>1, <4>1 DEF DadosOK, Objetos
        <4>3. EmBranco.estado = Nulo
          BY DEF EmBranco
        <4>4. leituras' # [leituras EXCEPT ![q] = checkout]
          BY <1>0, <2>4, <3>1, <4>2, CheckoutsAssumption DEF PaginasOK
        <4>5. ~\E e \in Decisoes : y = [ctx[q] EXCEPT !.estado = e] /\ Respondida(ctx[q])
          <5>1. Respondida(ctx[q]) => ctx[q] \in RegistrosRequisicao
            BY <1>0 DEF DadosOK, Respondida
          <5>2. ASSUME NEW e \in Decisoes, Respondida(ctx[q]) PROVE [ctx[q] EXCEPT !.estado = e].estado = e
            BY <5>1, <5>2 DEF RegistrosRequisicao
          <5>3. Nulo \notin Decisoes
            BY NuloAssumption DEF Decisoes
          <5> QED BY <4>2, <4>3, <5>2, <5>3
        <4> QED BY <3>1, <4>1, <4>2, <4>4, <4>5 DEF Origem
      <3>3. CASE NaoMexeu
        BY <3>1, <3>3 DEF NaoMexeu
      <3>4. CASE Relancou
        BY <2>0, <3>4 DEF Relancou
      <3> QED BY <3>2, <3>3, <3>4, Movimento
    <2> QED
      BY <1>2, <2>2, <2>3, <2>4
      DEF Next, Usuario, Sistema, vars, rede, Buscar, AbrirPedidoSemVaga, Prosseguir,
          RecusarSemCartao, AbrirPedido, DefinirHora, Digitar, AbrirConfirmacao, AbrirSolicitacao,
          AbrirCartao, SalvarCartaoIncompleto, AbrirFolha, FecharFolha, VoltarNaFolha, VoltarNaTela,
          OkPreencha, OkSucesso, CadastrarCartao, VoltarSemCartao, OkDecidida, FicarFechado,
          Decidir, SalvarCartao, Apagar, NovaVaga, SegundoPlano
  <1> QED BY <1>1, <1>2

(* A request stays blank, with nobody to fill it, only for a user without  *)
(* a profile or after a relaunch (CheckoutVaga:129-136).                   *)
THEOREM BrancasTemMotivo == Spec => []BrancaTemMotivo
  <1>1. Init => BrancaTemMotivo
    <2>1. EmBranco \in Registros
      BY DEF EmBranco, Registros, RegistrosRequisicao, Estados
    <2>2. EmBranco # Ausente
      BY <2>1, AusenteAssumption
    <2> QED BY <2>2 DEF Init, BrancaTemMotivo, Objetos
  <1>2. IInv /\ BrancaTemMotivo /\ [Next]_vars => BrancaTemMotivo'
    BY PassoBranca
  <1> QED BY Invariancia, <1>1, <1>2, PTL DEF Spec

-----------------------------------------------------------------------------
(* A step counts at most one failed save, and the counter never goes back. *)
LEMMA FalhasCrescem == ASSUME [Next]_vars PROVE falhas' \in {falhas, falhas + 1}
  BY DEF Next, Usuario, Sistema, vars, persistencia, rede, Buscar, AbrirPedidoSemVaga, Prosseguir,
         RecusarSemCartao, AbrirPedido, DefinirHora, Digitar, AbrirConfirmacao, AbrirSolicitacao,
         AbrirCartao, SalvarCartaoIncompleto, AbrirFolha, FecharFolha, VoltarNaFolha, VoltarNaTela,
         OkPreencha, OkSucesso, CadastrarCartao, VoltarSemCartao, OkDecidida, FicarFechado,
         ConfirmarPedido, ResponderPerfil, Decidir, SalvarCartao, Apagar, NovaVaga, SegundoPlano,
         Reiniciar, Gravar, Gravou, NaoGravou

(* The rows of the cards are those of the context while saves succeed.     *)
LEMMA PassoCartao == ASSUME IInv, CartaoTemMotivo, [Next]_vars PROVE CartaoTemMotivo'
  <1>0. DadosOK /\ falhas \in Nat
    BY DEF IInv, TypeOK, PaginasOK
  <1> SUFFICES ASSUME falhas' = 0
               PROVE  queda' # "cartao" /\ (folha' = "pagamento" => linhas' \subseteq CartoesEm(ctx'))
    BY DEF CartaoTemMotivo, CartoesEm
  <1>1. falhas' \in {falhas, falhas + 1}
    BY FalhasCrescem
  <1>2. falhas = 0 /\ queda # "cartao" /\ (folha = "pagamento" => linhas \subseteq CartoesEm(ctx))
    BY <1>0, <1>1 DEF CartaoTemMotivo
  <1>3. ASSUME UNCHANGED <<folha, linhas>>, queda' \in {queda, "salvar"}, \A k \in Cartoes : ctx'[k] = ctx[k]
        PROVE  queda' # "cartao" /\ (folha' = "pagamento" => linhas' \subseteq CartoesEm(ctx'))
    BY <1>2, <1>3 DEF CartoesEm
  <1>4. ASSUME NEW r \in Requisicoes, NEW x, ctx' = [ctx EXCEPT ![r] = x]
        PROVE  \A k \in Cartoes : ctx'[k] = ctx[k]
    BY <1>0, <1>4, ObjetosAssumption DEF DadosOK, Objetos
  <1>5. CASE \E r \in Requisicoes : ConfirmarPedido(r) \/ ResponderPerfil(r)
    <2> PICK r \in Requisicoes : ConfirmarPedido(r) \/ ResponderPerfil(r)
      BY <1>5
    <2>1. \A k \in Cartoes : ctx'[k] = ctx[k]
      BY <1>4 DEF ConfirmarPedido, ResponderPerfil, Gravar, persistencia
    <2> QED BY <1>3, <2>1 DEF ConfirmarPedido, ResponderPerfil, listas
  <1>6. ASSUME NEW f, AbrirLista(f), UNCHANGED ctx
        PROVE  queda' # "cartao" /\ (folha' = "pagamento" => linhas' \subseteq CartoesEm(ctx'))
    BY <1>2, <1>6 DEF AbrirLista, MostrarConfirmacoes
  <1>7. CASE (\E f \in {"garagem", "confirmacoes", "historico", "pagamento"} : AbrirFolha(f)) \/ CadastrarCartao
    BY <1>6, <1>7 DEF AbrirFolha, CadastrarCartao, persistencia
  <1>8. CASE FecharFolha \/ Reiniciar
    BY <1>2, <1>8 DEF FecharFolha, Reiniciar, LimparFolha
  <1>9. CASE VoltarNaFolha
    BY <1>2, <1>9 DEF VoltarNaFolha, VoltarAosCartoes, MostrarConfirmacoes, persistencia
  <1>10. CASE \/ OkDecidida \/ \E e \in Decisoes : Decidir(e)
              \/ \E r \in Requisicoes : AbrirConfirmacao(r) \/ AbrirSolicitacao(r)
    BY <1>2, <1>10 DEF OkDecidida, MostrarConfirmacoes, AbrirConfirmacao, AbrirSolicitacao, Decidir, NaFolha
  <1>11. CASE \E k \in Cartoes \cup {Nulo} : AbrirCartao(k)
    BY <1>2, <1>11 DEF AbrirCartao, NaFolha, CartoesEm
  <1>12. CASE \E k \in Cartoes : SalvarCartao(k)
    BY <1>2, <1>12 DEF SalvarCartao, VoltarAosCartoes
  <1>13. CASE \E o \in Vagas \cup Cartoes : Apagar(o)
    <2> PICK o \in Vagas \cup Cartoes : Apagar(o)
      BY <1>13
    <2>1. /\ ctx' = [ctx EXCEPT ![o] = Ausente] /\ linhas' = linhas \ {o}
          /\ UNCHANGED <<folha, queda>>
      BY <1>2 DEF Apagar, Gravar, LinhasSem
    <2>2. \A k \in Cartoes : k # o => ctx'[k] = ctx[k]
      BY <1>0, <2>1 DEF DadosOK, Objetos
    <2> QED BY <1>2, <2>1, <2>2 DEF CartoesEm
  <1>14. CASE \E v \in Vagas, f \in RegistrosVaga : NovaVaga(v, f)
    <2> PICK v \in Vagas, f \in RegistrosVaga : NovaVaga(v, f)
      BY <1>14
    <2>1. ctx' = [ctx EXCEPT ![v] = f] /\ UNCHANGED <<folha, queda>>
          /\ (folha = "pagamento" => linhas' = linhas)
      BY DEF NovaVaga, Gravar
    <2>2. \A c \in Cartoes : ctx'[c] = ctx[c]
      BY <1>0, <2>1, ObjetosAssumption DEF DadosOK, Objetos
    <2> QED BY <1>2, <2>1, <2>2 DEF CartoesEm
  <1>15. CASE UNCHANGED <<ctx, folha, linhas>> /\ queda' \in {queda, "salvar"}
    BY <1>3, <1>15
  <1> QED
    BY <1>5, <1>7, <1>8, <1>9, <1>10, <1>11, <1>12, <1>13, <1>14, <1>15
    DEF Next, Usuario, Sistema, vars, persistencia, listas, Buscar, AbrirPedidoSemVaga, Prosseguir,
        RecusarSemCartao, AbrirPedido, DefinirHora, Digitar, SalvarCartaoIncompleto, VoltarNaTela,
        OkPreencha, OkSucesso, VoltarSemCartao, FicarFechado, SegundoPlano

(* The page of a card traps only after a failed save (Pagamento:33).       *)
THEOREM CartoesTemMotivo == Spec => []CartaoTemMotivo
  <1>1. Init => CartaoTemMotivo
    BY DEF Init, CartaoTemMotivo
  <1>2. IInv /\ CartaoTemMotivo /\ [Next]_vars => CartaoTemMotivo'
    BY PassoCartao
  <1> QED BY Invariancia, <1>1, <1>2, PTL DEF Spec

-----------------------------------------------------------------------------
(* While saves succeed, memory and store part only over a blank request.   *)
LEMMA PassoAtraso == ASSUME IInv, SoFalhaAtrasa, [Next]_vars PROVE SoFalhaAtrasa'
  <1>0. DadosOK /\ falhas \in Nat
    BY DEF IInv, TypeOK, PaginasOK
  <1> SUFFICES ASSUME falhas' = 0
               PROVE  \A o \in Objetos : store'[o] = ctx'[o] \/ (store'[o] = Ausente /\ ctx'[o] = EmBranco)
    BY DEF SoFalhaAtrasa, EmBranco
  <1>1. falhas = 0
    BY <1>0, FalhasCrescem
  <1>2. \A o \in Objetos : store[o] = ctx[o] \/ (store[o] = Ausente /\ ctx[o] = EmBranco)
    BY <1>1 DEF SoFalhaAtrasa
  <1>3. ASSUME NEW c, Gravar(c) PROVE store' = ctx'
    BY <1>1, <1>3 DEF Gravar, Gravou, NaoGravou
  <1>4. CASE \E r \in Requisicoes : ConfirmarPedido(r)
    <2> PICK r \in Requisicoes : ConfirmarPedido(r)
      BY <1>4
    <2>1. ctx' = [ctx EXCEPT ![r] = EmBranco] /\ store' = store /\ store[r] = Ausente
      BY DEF ConfirmarPedido, Novo
    <2>2. \A o \in Objetos : ctx'[o] = IF o = r THEN EmBranco ELSE ctx[o]
      BY <1>0, <2>1 DEF DadosOK
    <2> QED BY <1>2, <2>1, <2>2
  <1>5. CASE \E r \in Requisicoes : ResponderPerfil(r)
    BY <1>2, <1>3, <1>5 DEF ResponderPerfil, persistencia
  <1>6. CASE \/ \E e \in Decisoes : Decidir(e)
             \/ \E k \in Cartoes : SalvarCartao(k)
             \/ \E o \in Vagas \cup Cartoes : Apagar(o)
             \/ \E v \in Vagas, f \in RegistrosVaga : NovaVaga(v, f)
    BY <1>3, <1>6 DEF Decidir, SalvarCartao, Apagar, NovaVaga
  <1>7. CASE SegundoPlano
    BY <1>1, <1>7 DEF SegundoPlano, Gravou, NaoGravou
  <1>8. CASE Reiniciar
    BY <1>8 DEF Reiniciar
  <1>9. CASE UNCHANGED <<ctx, store>>
    BY <1>2, <1>9
  <1> QED
    BY <1>4, <1>5, <1>6, <1>7, <1>8, <1>9
    DEF Next, Usuario, Sistema, vars, persistencia, Buscar, AbrirPedidoSemVaga, Prosseguir,
        RecusarSemCartao, AbrirPedido, DefinirHora, Digitar, AbrirConfirmacao, AbrirSolicitacao,
        AbrirCartao, SalvarCartaoIncompleto, AbrirFolha, FecharFolha, VoltarNaFolha, VoltarNaTela,
        OkPreencha, OkSucesso, CadastrarCartao, VoltarSemCartao, OkDecidida, FicarFechado

(* Only a failed save leaves in memory more than blank requests: every     *)
(* screen saves what it changed in the step that changed it                *)
(* (CheckoutVaga:162, ConfirmarVaga:100, Pagamento:86, VagasTable:97).     *)
THEOREM SoFalhasAtrasam == Spec => []SoFalhaAtrasa
  <1>1. Init => SoFalhaAtrasa
    BY DEF Init, SoFalhaAtrasa
  <1>2. IInv /\ SoFalhaAtrasa /\ [Next]_vars => SoFalhaAtrasa'
    BY PassoAtraso
  <1> QED BY Invariancia, <1>1, <1>2, PTL DEF Spec

-----------------------------------------------------------------------------
(* The history.  A request without a state is the blank one checkout       *)
(* inserts, in memory and in the store, and the rows of the history are    *)
(* requests that are still there.                                          *)
HistoricoEmDia ==
  /\ \A r \in Requisicoes : \A x \in {ctx[r], store[r]} :
       x # Ausente /\ x.estado = Nulo => x = EmBranco
  /\ folha = "historico" => linhas \subseteq RequisicoesEm(ctx)

LEMMA PassoVazias ==
  ASSUME IInv, HistoricoEmDia, [Next]_vars
  PROVE  \A r \in Requisicoes : \A x \in {ctx'[r], store'[r]} :
           x # Ausente /\ x.estado = Nulo => x = EmBranco
  <1>0. DadosOK
    BY DEF IInv, TypeOK
  <1>1. CASE Avancou
    <2> PICK q \in Requisicoes, y \in RegistrosRequisicao :
          ctx' = [ctx EXCEPT ![q] = y] /\ store' \in {store, ctx'} /\ Origem(q, y)
      BY <1>1 DEF Avancou
    <2>1. y.estado = Nulo => y = EmBranco
      <3>1. CASE leituras[q] # Nulo /\ y = Preenchida(leituras[q])
        BY <3>1, NuloAssumption DEF Preenchida
      <3>2. CASE Respondida(ctx[q]) /\ \E e \in Decisoes : y = [ctx[q] EXCEPT !.estado = e]
        <4>1. ctx[q] \in RegistrosRequisicao
          BY <1>0, <3>2 DEF DadosOK, Respondida
        <4>2. y.estado \in Decisoes
          BY <3>2, <4>1 DEF RegistrosRequisicao
        <4> QED BY <4>2, NuloAssumption DEF Decisoes
      <3> QED BY <3>1, <3>2 DEF Origem
    <2>2. \A r \in Requisicoes : ctx'[r] = IF r = q THEN y ELSE ctx[r]
      BY <1>0 DEF DadosOK, Objetos
    <2>3. \A r \in Requisicoes : ctx'[r] # Ausente /\ ctx'[r].estado = Nulo => ctx'[r] = EmBranco
      BY <2>1, <2>2 DEF HistoricoEmDia
    <2>4. CASE store' = ctx'
      BY <2>3, <2>4
    <2>5. CASE store' = store
      BY <2>3, <2>5 DEF HistoricoEmDia
    <2> QED BY <2>4, <2>5
  <1>2. CASE NaoMexeu
    BY <1>2 DEF NaoMexeu, HistoricoEmDia
  <1>3. CASE Relancou
    BY <1>3 DEF Relancou, HistoricoEmDia
  <1> QED BY <1>1, <1>2, <1>3, Movimento

(* No request leaves the memory of a running program.                      *)
LEMMA RequisicoesFicam ==
  ASSUME IInv, [Next]_vars, reinicios' = reinicios
  PROVE  RequisicoesEm(ctx) \subseteq RequisicoesEm(ctx')
  <1>0. DadosOK
    BY DEF IInv, TypeOK
  <1>1. CASE Avancou
    <2> PICK q \in Requisicoes, y \in RegistrosRequisicao : ctx' = [ctx EXCEPT ![q] = y]
      BY <1>1 DEF Avancou
    <2>1. y # Ausente
      BY AusenteAssumption DEF Registros
    <2> QED BY <1>0, <2>1 DEF DadosOK, Objetos, RequisicoesEm
  <1>2. CASE NaoMexeu
    BY <1>2 DEF NaoMexeu, RequisicoesEm
  <1>3. ~Relancou
    BY DEF Relancou
  <1> QED BY <1>1, <1>2, <1>3, Movimento

LEMMA PassoLinhasHistorico ==
  ASSUME IInv, HistoricoEmDia, [Next]_vars, folha' = "historico"
  PROVE  linhas' \subseteq RequisicoesEm(ctx')
  <1>1. reinicios' = reinicios
    BY DEF Next, Usuario, Sistema, vars, persistencia, rede, Buscar, AbrirPedidoSemVaga, Prosseguir,
           RecusarSemCartao, AbrirPedido, DefinirHora, Digitar, AbrirConfirmacao, AbrirSolicitacao,
           AbrirCartao, SalvarCartaoIncompleto, AbrirFolha, FecharFolha, VoltarNaFolha, VoltarNaTela,
           OkPreencha, OkSucesso, CadastrarCartao, VoltarSemCartao, OkDecidida, FicarFechado,
           ConfirmarPedido, ResponderPerfil, Decidir, SalvarCartao, Apagar, NovaVaga, SegundoPlano,
           Reiniciar, LimparFolha
  <1>2. CASE folha = "historico" /\ linhas' = linhas
    BY <1>1, <1>2, RequisicoesFicam DEF HistoricoEmDia
  <1>3. ASSUME NEW f, AbrirLista(f), UNCHANGED ctx PROVE linhas' = RequisicoesEm(ctx')
    BY <1>3 DEF AbrirLista, MostrarConfirmacoes
  <1>4. CASE (\E f \in {"garagem", "confirmacoes", "historico", "pagamento"} : AbrirFolha(f)) \/ CadastrarCartao
    BY <1>3, <1>4 DEF AbrirFolha, CadastrarCartao, persistencia
  <1>5. CASE VoltarNaFolha
    BY <1>5 DEF VoltarNaFolha, VoltarAosCartoes, MostrarConfirmacoes, persistencia
  <1>6. CASE \/ FecharFolha \/ OkDecidida \/ \E r \in Requisicoes : AbrirConfirmacao(r) \/ AbrirSolicitacao(r)
             \/ \E k \in Cartoes \cup {Nulo} : AbrirCartao(k)
             \/ \E k \in Cartoes : SalvarCartao(k)
    BY <1>6 DEF FecharFolha, LimparFolha, OkDecidida, MostrarConfirmacoes, AbrirConfirmacao, AbrirSolicitacao,
                AbrirCartao, SalvarCartao, VoltarAosCartoes, NaFolha
  <1>7. CASE (\E o \in Vagas \cup Cartoes : Apagar(o)) \/ \E v \in Vagas, f \in RegistrosVaga : NovaVaga(v, f)
    BY <1>2, <1>7 DEF Apagar, NaFolha, NovaVaga
  <1>8. CASE Reiniciar
    BY <1>8 DEF Reiniciar, LimparFolha
  <1> QED
    BY <1>2, <1>4, <1>5, <1>6, <1>7, <1>8
    DEF Next, Usuario, Sistema, vars, listas, Buscar, AbrirPedidoSemVaga, Prosseguir,
        RecusarSemCartao, AbrirPedido, DefinirHora, Digitar, SalvarCartaoIncompleto, VoltarNaTela,
        OkPreencha, OkSucesso, VoltarSemCartao, FicarFechado, ConfirmarPedido, ResponderPerfil, Decidir, SegundoPlano

(* The trap: only the detail of a request without a date makes it, and a   *)
(* program that trapped stays as it fell until it is started again.        *)
LEMMA PassoQuedaHistorico ==
  ASSUME IInv, HistoricoEmDia, BrancaTemMotivo, HistoricoCaiSoNaBranca, [Next]_vars
  PROVE  HistoricoCaiSoNaBranca'
  <1> SUFFICES ASSUME queda' = "semData"
               PROVE  \E r \in linhas' \cap Requisicoes :
                        ctx'[r] = EmBranco /\ (leituras'[r] # Nulo \/ ~perfil' \/ reinicios' > 0)
    BY DEF HistoricoCaiSoNaBranca, EmBranco
  <1>1. CASE UNCHANGED vars
    BY <1>1 DEF vars, HistoricoCaiSoNaBranca
  <1>2. CASE \E r \in Requisicoes : AbrirSolicitacao(r)
    <2> PICK r \in Requisicoes : AbrirSolicitacao(r)
      BY <1>2
    <2>1. /\ folha = "historico" /\ r \in linhas /\ ~ctx[r].data
          /\ UNCHANGED <<ctx, linhas, leituras, perfil, reinicios>>
      BY DEF AbrirSolicitacao, NaFolha, persistencia, rede, listas
    <2>2. ctx[r] # Ausente
      BY <2>1 DEF HistoricoEmDia, RequisicoesEm
    <2>3. ctx[r] = EmBranco
      BY <2>1, <2>2 DEF IInv, Completas, Respondida, HistoricoEmDia
    <2>4. leituras[r] # Nulo \/ ~perfil \/ reinicios > 0
      BY <2>3 DEF BrancaTemMotivo
    <2> QED BY <2>1, <2>3, <2>4
  <1>3. ASSUME queda = "nenhuma", UNCHANGED queda PROVE FALSE
    BY <1>3
  <1>4. ASSUME NEW f, AbrirLista(f), queda = "nenhuma" PROVE FALSE
    BY <1>4 DEF AbrirLista, MostrarConfirmacoes
  <1>5. CASE \/ \E f \in {"garagem", "confirmacoes", "historico", "pagamento"} : AbrirFolha(f)
             \/ CadastrarCartao
    BY <1>4, <1>5 DEF AbrirFolha, CadastrarCartao, NaTela, Tocavel
  <1>6. CASE \/ VoltarNaFolha \/ OkDecidida \/ \E r \in Requisicoes : AbrirConfirmacao(r)
             \/ \E k \in Cartoes \cup {Nulo} : AbrirCartao(k)
             \/ SegundoPlano \/ Reiniciar
    BY <1>6
    DEF VoltarNaFolha, OkDecidida, MostrarConfirmacoes, AbrirConfirmacao, AbrirCartao, SegundoPlano, Reiniciar,
        NaFolha, Tocavel
  <1> QED
    BY <1>1, <1>2, <1>3, <1>5, <1>6
    DEF Next, Usuario, Sistema, Buscar, AbrirPedidoSemVaga, Prosseguir, RecusarSemCartao, AbrirPedido, DefinirHora,
        Digitar, ConfirmarPedido, Decidir, SalvarCartao, SalvarCartaoIncompleto, Apagar, NovaVaga, FecharFolha,
        VoltarNaTela, OkPreencha, OkSucesso, VoltarSemCartao, ResponderPerfil, Resposta, FicarFechado,
        NaTela, NaFolha, Tocavel

(* The history traps on a date (`as! Date`, Historico:35) only over a      *)
(* request still blank, for one of the reasons that leave it blank: a      *)
(* request that was filled never does it.                                  *)
THEOREM HistoricoSoCaiNaBranca == Spec => []HistoricoCaiSoNaBranca
  <1>1. Init => HistoricoEmDia /\ HistoricoCaiSoNaBranca
    BY DEF Init, HistoricoEmDia, HistoricoCaiSoNaBranca, Objetos
  <1>2. IInv /\ HistoricoEmDia /\ [Next]_vars => HistoricoEmDia'
    BY PassoVazias, PassoLinhasHistorico DEF HistoricoEmDia, RequisicoesEm, EmBranco
  <1>3. IInv /\ HistoricoEmDia /\ BrancaTemMotivo /\ HistoricoCaiSoNaBranca /\ [Next]_vars
          => HistoricoCaiSoNaBranca'
    BY PassoQuedaHistorico
  <1> QED BY Invariancia, BrancasTemMotivo, <1>1, <1>2, <1>3, PTL DEF Spec

-----------------------------------------------------------------------------
(* Decisions are final: what the store holds as decided is what the memory *)
(* holds, and no step but a relaunch moves a decided request on.           *)
DecisaoMantida ==
  \A r \in Requisicoes :
    /\ Decidida(store[r]) => store'[r] = store[r]
    /\ Decidida(ctx[r]) /\ reinicios' = reinicios => ctx'[r] = ctx[r]

LEMMA PassoDecisao == ASSUME IInv, [Next]_vars PROVE DecisaoMantida
  <1>0. DadosOK /\ StoreAtrasado
    BY DEF IInv, TypeOK
  <1>1. \A r \in Requisicoes : Decidida(ctx[r]) => Posicao(ctx[r]) = 3
    BY NuloAssumption DEF Decidida, Decisoes, Posicao
  <1>2. \A r \in Requisicoes : Decidida(store[r]) => store[r] = ctx[r]
    <2> SUFFICES ASSUME NEW r \in Requisicoes, Decidida(store[r])
                 PROVE  store[r] = ctx[r]
      OBVIOUS
    <2>1. Posicao(store[r]) = 3
      BY NuloAssumption DEF Decidida, Decisoes, Posicao
    <2>2. Posicao(ctx[r]) \in 0..3
      BY Posicoes
    <2> QED BY <1>0, <2>1, <2>2 DEF StoreAtrasado
  <1>3. ASSUME \A r \in Requisicoes : Decidida(ctx[r]) => ctx'[r] = ctx[r],
               store' \in {store, ctx'}
        PROVE  DecisaoMantida
    BY <1>2, <1>3 DEF DecisaoMantida
  <1>4. CASE Avancou
    <2> PICK q \in Requisicoes, y \in RegistrosRequisicao :
          /\ Posicao(y) = Posicao(ctx[q]) + 1
          /\ ctx' = [ctx EXCEPT ![q] = y]
          /\ store' \in {store, ctx'}
      BY <1>4 DEF Avancou
    <2>1. Posicao(y) \in 0..3
      BY Posicoes
    <2>2. ~Decidida(ctx[q])
      BY <1>1, <2>1
    <2>3. \A r \in Requisicoes : r # q => ctx'[r] = ctx[r]
      BY <1>0 DEF DadosOK, Objetos
    <2> QED BY <1>3, <2>2, <2>3
  <1>5. CASE NaoMexeu
    BY <1>3, <1>5 DEF NaoMexeu
  <1>6. CASE Relancou
    BY <1>6 DEF Relancou, DecisaoMantida
  <1> QED BY <1>4, <1>5, <1>6, Movimento

(* A decision is final.                                                    *)
THEOREM DecisoesSaoFinais == Spec => DecisaoFinal
  <1>1. IInv /\ [Next]_vars => [DecisaoMantida]_vars
    BY PassoDecisao
  <1>2. Spec => [][DecisaoMantida]_vars
    BY <1>1, Invariancia, PTL DEF Spec
  <1> QED BY <1>2 DEF DecisaoFinal, DecisaoMantida

-----------------------------------------------------------------------------
(* The spot the owner is shown.  vagaSelec survives a list without spots   *)
(* (`antes`), so it may come from a request decided since: the invariant   *)
(* carries that request along, from the list to the page and back.         *)
DeAlguem(v) ==
  /\ v \in VagasEm(ctx)
  /\ \E q \in RequisicoesEm(ctx) :
       (q \in linhas \/ Decidida(ctx[q])) /\ ctx[q].id = ctx[v].chave

VagaDoDono ==
  /\ alerta = "decidida" => folha = "confirmar"
  /\ folha \in {"confirmacoes", "confirmar"} =>
       /\ linhas \subseteq {r \in Requisicoes : Respondida(ctx[r])}
       /\ vagaSelec # Nulo => DeAlguem(vagaSelec)
  /\ folha = "confirmar" => vagaSelec # Nulo /\ selecionada.vaga = vagaSelec

(* Unless the program starts again, a request with a state keeps its spot, *)
(* and one decided stays decided.                                          *)
LEMMA RespondidasFicam ==
  ASSUME IInv, [Next]_vars, reinicios' = reinicios, NEW q \in Requisicoes, Respondida(ctx[q])
  PROVE  /\ Respondida(ctx'[q]) /\ ctx'[q].id = ctx[q].id
         /\ Decidida(ctx[q]) => Decidida(ctx'[q])
  <1>0. DadosOK /\ LeituraNaoAtropela
    BY DEF IInv, TypeOK
  <1>1. CASE Avancou
    <2> PICK p \in Requisicoes, y \in RegistrosRequisicao :
          /\ Posicao(y) = Posicao(ctx[p]) + 1
          /\ ctx' = [ctx EXCEPT ![p] = y] /\ Origem(p, y)
      BY <1>1 DEF Avancou
    <2>1. CASE p # q
      BY <1>0, <2>1 DEF DadosOK, Objetos
    <2>2. CASE p = q
      <3>1. ctx'[q] = y /\ y # Ausente
        BY <1>0, <2>2, AusenteAssumption DEF DadosOK, Objetos, Registros
      <3>2. CASE y = EmBranco
        <4>1. Posicao(y) = 1
          BY <3>1, <3>2 DEF Posicao, EmBranco
        <4>2. Posicao(ctx[q]) \in {2, 3}
          BY NuloAssumption DEF Posicao, Respondida
        <4> QED BY <2>2, <4>1, <4>2
      <3>3. CASE leituras[q] # Nulo
        BY <1>0, <3>3 DEF LeituraNaoAtropela, Respondida, EmBranco
      <3>4. CASE \E e \in Decisoes : y = [ctx[q] EXCEPT !.estado = e]
        <4>1. ctx[q] \in RegistrosRequisicao
          BY <1>0 DEF DadosOK, Respondida
        <4>2. y.estado \in Decisoes /\ y.id = ctx[q].id
          BY <3>4, <4>1 DEF RegistrosRequisicao
        <4> QED BY <3>1, <4>2, NuloAssumption DEF Respondida, Decidida, Decisoes
      <3> QED BY <2>2, <3>2, <3>3, <3>4 DEF Origem
    <2> QED BY <2>1, <2>2
  <1>2. CASE NaoMexeu
    BY <1>2 DEF NaoMexeu
  <1>3. ~Relancou
    BY DEF Relancou
  <1> QED BY <1>1, <1>2, <1>3, Movimento

(* A step that keeps the list and its spot keeps what they stand for.      *)
LEMMA DonoMantido ==
  ASSUME IInv, VagaDoDono, [Next]_vars, reinicios' = reinicios,
         UNCHANGED <<folha, linhas, vagaSelec, selecionada>>,
         folha \in {"confirmacoes", "confirmar"} /\ vagaSelec # Nulo => ctx'[vagaSelec] = ctx[vagaSelec],
         alerta' = "decidida" => folha = "confirmar"
  PROVE  VagaDoDono'
  <1> SUFFICES ASSUME folha \in {"confirmacoes", "confirmar"}
               PROVE  /\ linhas \subseteq {r \in Requisicoes : Respondida(ctx'[r])}
                      /\ vagaSelec # Nulo => DeAlguem(vagaSelec)'
    BY DEF VagaDoDono, Respondida
  <1>1. linhas \subseteq {r \in Requisicoes : Respondida(ctx'[r])}
    BY RespondidasFicam DEF VagaDoDono
  <1>2. ASSUME vagaSelec # Nulo PROVE DeAlguem(vagaSelec)'
    <2>1. PICK q \in RequisicoesEm(ctx) :
            (q \in linhas \/ Decidida(ctx[q])) /\ ctx[q].id = ctx[vagaSelec].chave
      BY <1>2 DEF VagaDoDono, DeAlguem
    <2>2. q \in Requisicoes /\ Respondida(ctx[q])
      BY <2>1, NuloAssumption DEF VagaDoDono, RequisicoesEm, Decidida, Decisoes, Respondida
    <2>3. Respondida(ctx'[q]) /\ ctx'[q].id = ctx[q].id /\ (Decidida(ctx[q]) => Decidida(ctx'[q]))
      BY <2>2, RespondidasFicam
    <2>4. vagaSelec \in VagasEm(ctx) /\ ctx'[vagaSelec] = ctx[vagaSelec]
      BY <1>2 DEF VagaDoDono, DeAlguem
    <2>5. vagaSelec' = vagaSelec /\ linhas' = linhas /\ vagaSelec \in VagasEm(ctx')
      BY <2>4 DEF VagasEm
    <2>6. q \in RequisicoesEm(ctx')
      BY <2>2, <2>3 DEF RequisicoesEm, Respondida
    <2> QED BY <2>1, <2>3, <2>4, <2>5, <2>6 DEF DeAlguem, Decidida, VagasEm, RequisicoesEm
  <1> QED BY <1>1, <1>2

(* The list fetched again: a spot found now is one of a pending request,   *)
(* one kept from before is one of a request still listed or decided.       *)
LEMMA DonoMostrado ==
  ASSUME IInv, UNCHANGED ctx, NEW antes, MostrarConfirmacoes(ctx, antes), alerta' # "decidida",
         antes # Nulo => /\ VagaDoDono /\ folha \in {"confirmacoes", "confirmar"} /\ antes = vagaSelec
  PROVE  VagaDoDono'
  <1>0. DadosOK
    BY DEF IInv, TypeOK
  <1>1. folha' = "confirmacoes" /\ linhas' = PendentesEm(ctx)
    BY DEF MostrarConfirmacoes, LinhasConfirmacoes
  <1>2. PendentesEm(ctx) \subseteq {r \in Requisicoes : Respondida(ctx[r])}
    BY NuloAssumption DEF PendentesEm, RequisicoesEm, Respondida
  <1>3. ASSUME vagaSelec' # Nulo PROVE DeAlguem(vagaSelec)'
    <2>1. CASE \E r \in PendentesEm(ctx) : vagaSelec' \in VagasDe(r, ctx)
      BY <1>1, <2>1 DEF DeAlguem, VagasDe, VagasEm, PendentesEm, RequisicoesEm
    <2>2. CASE vagaSelec' = antes
      <3>1. VagaDoDono /\ DeAlguem(vagaSelec) /\ vagaSelec' = vagaSelec
        BY <1>3, <2>2 DEF VagaDoDono
      <3>2. PICK q \in RequisicoesEm(ctx) :
              (q \in linhas \/ Decidida(ctx[q])) /\ ctx[q].id = ctx[vagaSelec].chave
        BY <3>1 DEF DeAlguem
      <3>3. Respondida(ctx[q]) /\ ctx[q] \in RegistrosRequisicao
        BY <1>0, <1>3, <2>2, <3>1, <3>2, NuloAssumption
        DEF VagaDoDono, Decidida, Decisoes, Respondida, RequisicoesEm, DadosOK
      <3>4. q \in PendentesEm(ctx) \/ Decidida(ctx[q])
        BY <3>3 DEF Respondida, Decidida, RegistrosRequisicao, Estados, PendentesEm, RequisicoesEm
      <3> QED BY <1>1, <3>1, <3>2, <3>4 DEF DeAlguem, VagasEm, RequisicoesEm, Decidida
    <2> QED BY <2>1, <2>2 DEF MostrarConfirmacoes
  <1> QED BY <1>1, <1>2, <1>3 DEF VagaDoDono, Respondida

LEMMA PassoDono == ASSUME IInv, VagaDoDono, [Next]_vars PROVE VagaDoDono'
  <1>0. DadosOK /\ PaginasOK
    BY DEF IInv, TypeOK
  <1>1. CASE \/ FecharFolha \/ Reiniciar
             \/ \E r \in Requisicoes : AbrirSolicitacao(r)
             \/ \E k \in Cartoes \cup {Nulo} : AbrirCartao(k)
             \/ \E k \in Cartoes : SalvarCartao(k)
             \/ \E o \in Vagas \cup Cartoes : Apagar(o)
    BY <1>1 DEF FecharFolha, Reiniciar, LimparFolha, AbrirSolicitacao, AbrirCartao, SalvarCartao,
                VoltarAosCartoes, Apagar, NaFolha, Tocavel, VagaDoDono
  <1>2. ASSUME NEW f, AbrirLista(f), UNCHANGED ctx, alerta' = "nenhum" PROVE VagaDoDono'
    BY <1>2, DonoMostrado DEF AbrirLista, VagaDoDono
  <1>3. CASE \E f \in {"garagem", "confirmacoes", "historico", "pagamento"} : AbrirFolha(f)
    BY <1>2, <1>3 DEF AbrirFolha, persistencia, NaTela, Tocavel
  <1>4. CASE CadastrarCartao
    BY <1>2, <1>4 DEF CadastrarCartao, persistencia
  <1>5. CASE VoltarNaFolha
    <2>1. CASE folha = "confirmar" /\ MostrarConfirmacoes(ctx, vagaSelec)
      BY <1>5, <2>1, DonoMostrado DEF VoltarNaFolha, Tocavel, persistencia
    <2>2. CASE folha' \in {"historico", "pagamento"}
      BY <1>5, <2>2 DEF VoltarNaFolha, Tocavel, VagaDoDono
    <2> QED BY <1>5, <2>1, <2>2 DEF VoltarNaFolha, VoltarAosCartoes
  <1>6. CASE OkDecidida
    BY <1>6, DonoMostrado DEF OkDecidida, persistencia, VagaDoDono
  <1>7. CASE \E r \in Requisicoes : AbrirConfirmacao(r)
    <2> PICK r \in Requisicoes : AbrirConfirmacao(r)
      BY <1>7
    <2>1. UNCHANGED <<ctx, linhas, vagaSelec, alerta>> /\ folha = "confirmacoes" /\ alerta = "nenhum"
      BY DEF AbrirConfirmacao, NaFolha, Tocavel, persistencia
    <2>2. CASE vagaSelec = Nulo
      BY <2>1, <2>2 DEF AbrirConfirmacao, VagaDoDono, DeAlguem
    <2>3. CASE vagaSelec # Nulo
      BY <2>1, <2>3 DEF AbrirConfirmacao, VagaDoDono, DeAlguem
    <2> QED BY <2>2, <2>3
  <1>8. ASSUME UNCHANGED <<ctx, folha, linhas, vagaSelec, selecionada>>,
               alerta' = "decidida" => alerta = "decidida"
        PROVE  VagaDoDono'
    BY <1>8 DEF VagaDoDono, DeAlguem
  <1>9. CASE \/ Buscar \/ AbrirPedidoSemVaga \/ Prosseguir \/ RecusarSemCartao
             \/ \E v \in Vagas : AbrirPedido(v)
             \/ \E h \in 0..MaxHoras : DefinirHora(h)
             \/ \E b \in BOOLEAN : Digitar(b)
             \/ SalvarCartaoIncompleto \/ VoltarNaTela \/ OkPreencha \/ OkSucesso \/ VoltarSemCartao
             \/ SegundoPlano \/ UNCHANGED vars
    <2>1. UNCHANGED <<ctx, folha, linhas, vagaSelec, selecionada>>
      BY <1>9 DEF Buscar, AbrirPedidoSemVaga, Prosseguir, RecusarSemCartao, AbrirPedido, DefinirHora, Digitar,
                  SalvarCartaoIncompleto, VoltarNaTela, OkPreencha, OkSucesso, VoltarSemCartao, SegundoPlano,
                  vars, persistencia, listas
    <2>2. alerta' = "decidida" => alerta = "decidida"
      BY <1>9 DEF Buscar, AbrirPedidoSemVaga, Prosseguir, RecusarSemCartao, AbrirPedido, DefinirHora, Digitar,
                  SalvarCartaoIncompleto, VoltarNaTela, OkPreencha, OkSucesso, VoltarSemCartao, SegundoPlano,
                  vars
    <2> QED BY <1>8, <2>1, <2>2
  <1>10. ASSUME NEW r \in Requisicoes, NEW x, ctx' = [ctx EXCEPT ![r] = x]
         PROVE  vagaSelec # Nulo => ctx'[vagaSelec] = ctx[vagaSelec]
    BY <1>0, <1>10, ObjetosAssumption DEF DadosOK, PaginasOK, Objetos
  <1>11. CASE \E r \in Requisicoes : ConfirmarPedido(r) \/ ResponderPerfil(r)
    <2> PICK r \in Requisicoes : ConfirmarPedido(r) \/ ResponderPerfil(r)
      BY <1>11
    <2>1. vagaSelec # Nulo => ctx'[vagaSelec] = ctx[vagaSelec]
      BY <1>10 DEF ConfirmarPedido, ResponderPerfil, Gravar, persistencia
    <2>2. /\ UNCHANGED <<folha, linhas, vagaSelec, selecionada>> /\ reinicios' = reinicios
          /\ alerta' \in {alerta, "sucesso"}
      BY DEF ConfirmarPedido, ResponderPerfil, listas
    <2>3. alerta' = "decidida" => folha = "confirmar"
      BY <2>2 DEF VagaDoDono
    <2> QED BY <2>1, <2>2, <2>3, DonoMantido
  <1>12. CASE \E e \in Decisoes : Decidir(e)
    <2> PICK e \in Decisoes : Decidir(e)
      BY <1>12
    <2>1. selecionada.requisicao \in Requisicoes
      BY DEF Decidir, NaFolha, Tocavel, IInv, ListaEmDia, PendentesEm, RequisicoesEm
    <2>2. \E x : ctx' = [ctx EXCEPT ![selecionada.requisicao] = x]
      BY DEF Decidir, Gravar, ComEstado
    <2>3. vagaSelec # Nulo => ctx'[vagaSelec] = ctx[vagaSelec]
      BY <1>10, <2>1, <2>2
    <2>4. UNCHANGED <<folha, linhas, vagaSelec, selecionada>> /\ reinicios' = reinicios /\ folha = "confirmar"
      BY DEF Decidir, NaFolha, listas
    <2> QED BY <2>3, <2>4, DonoMantido
  <1>13. CASE \E v \in Vagas, f \in RegistrosVaga : NovaVaga(v, f)
    <2> PICK v \in Vagas, f \in RegistrosVaga : NovaVaga(v, f)
      BY <1>13
    <2>1. ctx' = [ctx EXCEPT ![v] = f] /\ ctx[v] = Ausente
      BY DEF NovaVaga, Gravar, Novo
    <2>2. /\ UNCHANGED <<folha, alerta, vagaSelec, selecionada>> /\ reinicios' = reinicios
          /\ folha # "garagem" => linhas' = linhas
      BY DEF NovaVaga
    <2>3. CASE folha = "garagem"
      BY <2>2, <2>3 DEF VagaDoDono
    <2>4. CASE folha # "garagem"
      <3>1. folha \in {"confirmacoes", "confirmar"} /\ vagaSelec # Nulo => ctx'[vagaSelec] = ctx[vagaSelec]
        BY <1>0, <2>1 DEF VagaDoDono, DeAlguem, VagasEm, DadosOK, Objetos
      <3>2. alerta' = "decidida" => folha = "confirmar"
        BY <2>2 DEF VagaDoDono
      <3> QED BY <2>2, <2>4, <3>1, <3>2, DonoMantido
    <2> QED BY <2>3, <2>4
  <1> QED
    BY <1>1, <1>3, <1>4, <1>5, <1>6, <1>7, <1>9, <1>11, <1>12, <1>13
    DEF Next, Usuario, Sistema, FicarFechado

(* The page to confirm shows a spot that exists and that a request listed, *)
(* or one decided, asks for: with one request it is the right spot         *)
(* (vagaSelec, ListaConfirmacoes:91 and :157).                             *)
THEOREM ConfirmaSempreDeAlguem == Spec => []ConfirmaDeAlguem
  <1>1. Init => VagaDoDono
    BY DEF Init, VagaDoDono
  <1>2. IInv /\ VagaDoDono /\ [Next]_vars => VagaDoDono'
    BY PassoDono
  <1>3. VagaDoDono => ConfirmaDeAlguem
    BY DEF VagaDoDono, ConfirmaDeAlguem, DeAlguem
  <1> QED BY Invariancia, <1>1, <1>2, <1>3, PTL DEF Spec

-----------------------------------------------------------------------------
(* Refinement: the flow implements the life of a request.                  *)
Vista == [r \in Requisicoes |-> Situacao(ctx[r])]
Gravada == [r \in Requisicoes |-> Situacao(store[r])]

LEMMA VidaInicio == Init => Vida!Init
  BY DEF Init, Vida!Init, Situacao, Objetos

LEMMA Avanco ==
  ASSUME NEW x \in RegistrosRequisicao \cup {Ausente}, NEW y \in RegistrosRequisicao,
         Posicao(y) = Posicao(x) + 1
  PROVE  Situacao(y) \in Vida!Proximos(Situacao(x))
  <1>1. y # Ausente /\ (x # Ausente => x.estado \in Estados) /\ y.estado \in Estados
    BY AusenteAssumption DEF Registros, RegistrosRequisicao
  <1>2. CASE x = Ausente
    BY <1>1, <1>2, NuloAssumption DEF Posicao, Situacao, Estados, Decisoes, Vida!Proximos
  <1>3. CASE x # Ausente /\ x.estado = Nulo
    BY <1>1, <1>3, NuloAssumption DEF Posicao, Situacao, Estados, Decisoes, Vida!Proximos
  <1>4. CASE x # Ausente /\ x.estado = "Pendente"
    BY <1>1, <1>4, NuloAssumption DEF Posicao, Situacao, Estados, Decisoes, Vida!Proximos, Vida!Decididas
  <1>5. CASE x # Ausente /\ x.estado \in Decisoes
    BY <1>1, <1>5, NuloAssumption DEF Posicao, Situacao, Estados, Decisoes
  <1> QED BY <1>1, <1>2, <1>3, <1>4, <1>5 DEF Estados

LEMMA VidaPasso == ASSUME IInv, [Next]_vars PROVE [Vida!Next]_(Vida!vars)
  <1>0. DadosOK
    BY DEF IInv, TypeOK
  <1>1. CASE Avancou
    <2> PICK q \in Requisicoes, y \in RegistrosRequisicao :
          /\ Posicao(y) = Posicao(ctx[q]) + 1
          /\ ctx' = [ctx EXCEPT ![q] = y]
          /\ store' \in {store, ctx'}
      BY <1>1 DEF Avancou
    <2>1. Situacao(y) \in Vida!Proximos(Vista[q])
      BY <1>0, Avanco DEF DadosOK, Vista
    <2>2. Vista' = [Vista EXCEPT ![q] = Situacao(y)]
      BY <1>0 DEF Vista, DadosOK, Objetos
    <2>3. Gravada' \in {Gravada, Vista'}
      BY DEF Vista, Gravada
    <2> QED BY <2>1, <2>2, <2>3 DEF Vida!Next, Vida!Avancar, Vista, Gravada
  <1>2. CASE NaoMexeu
    <2>1. Vista' = Vista /\ Gravada' \in {Gravada, Vista}
      BY <1>2 DEF NaoMexeu, Vista, Gravada
    <2> QED BY <2>1 DEF Vida!Next, Vida!Gravar, Vida!vars, Vista, Gravada
  <1>3. CASE Relancou
    BY <1>3 DEF Relancou, Vida!Next, Vida!Relancar
  <1> QED BY <1>1, <1>2, <1>3, Movimento

(* Every behaviour of the flow is a life of requests: the initial states   *)
(* map to initial states, every step to a step or a stutter.               *)
THEOREM ImplementaVida == Spec => SegueVida
  <1>1. IInv /\ [Next]_vars => [Vida!Next]_(Vida!vars)
    BY VidaPasso
  <1> QED BY <1>1, VidaInicio, Invariancia, PTL DEF Spec, SegueVida, Vida!Spec

-----------------------------------------------------------------------------
(* Totals: the price follows the hours through the form, the checkout and  *)
(* what the pending answers have captured, into the requests.              *)
Coerente(id, horas, total) == id \in Chaves => \E p \in Precos[id] : total = p * horas

RegistroCoerente(x) == Respondida(x) => Coerente(x.id, x.qtdHoras, x.valorTotal)

Totais ==
  /\ pedido.id \in Chaves => pedido.valorHora \in Precos[pedido.id]
  /\ Coerente(pedido.id, pedido.qtdHora, pedido.valorTotal)
  /\ Coerente(checkout.id, checkout.qtdHoras, checkout.valorVaga)
  /\ \A r \in Requisicoes :
       /\ leituras[r] # Nulo => Coerente(leituras[r].id, leituras[r].qtdHoras, leituras[r].valorVaga)
       /\ RegistroCoerente(ctx[r])
       /\ RegistroCoerente(store[r])

LEMMA TotaisInicio == Init => Totais
  BY ChavesAssumption DEF Init, Totais, Coerente, RegistroCoerente, Respondida, SemPedido, SemCheckout, Objetos

(* The form and the checkout.                                              *)
LEMMA TotaisFormulario ==
  ASSUME IInv, Totais, [Next]_vars
  PROVE  /\ pedido'.id \in Chaves => pedido'.valorHora \in Precos[pedido'.id]
         /\ Coerente(pedido'.id, pedido'.qtdHora, pedido'.valorTotal)
         /\ Coerente(checkout'.id, checkout'.qtdHoras, checkout'.valorVaga)
  <1>0. DadosOK /\ PaginasOK
    BY DEF IInv, TypeOK
  <1>1. SemPedido.id \notin Chaves /\ SemCheckout.id \notin Chaves
    BY ChavesAssumption DEF SemPedido, SemCheckout
  <1>2. CASE \E v \in Vagas : AbrirPedido(v)
    <2> PICK v \in Vagas : AbrirPedido(v)
      BY <1>2
    <2>1. PICK f \in FichasLidas(v) : pedido' = [SemPedido EXCEPT !.id = f.chave, !.valorHora = f.valor]
      BY DEF AbrirPedido
    <2>2. /\ pedido'.id = f.chave /\ pedido'.valorHora = f.valor
          /\ pedido'.qtdHora = 0 /\ pedido'.valorTotal = 0
      BY <2>1 DEF SemPedido
    <2>3. f.valor \in Nat /\ (f.chave \in Chaves => f.valor \in Precos[f.chave])
      BY <1>0, FichaLida
    <2>5. f.valor * 0 = 0
      BY <2>3
    <2>4. checkout' = checkout
      BY DEF AbrirPedido
    <2> QED BY <2>2, <2>3, <2>4, <2>5 DEF Totais, Coerente
  <1>3. CASE \E h \in 0..MaxHoras : DefinirHora(h)
    <2> PICK h \in 0..MaxHoras : DefinirHora(h)
      BY <1>3
    <2>1. /\ pedido'.id = pedido.id /\ pedido'.valorHora = pedido.valorHora
          /\ pedido'.qtdHora = h /\ pedido'.valorTotal = pedido.valorHora * h
      BY <1>0 DEF DefinirHora, ComHoras, PaginasOK, Pedidos
    <2>2. checkout' = checkout
      BY DEF DefinirHora
    <2> QED BY <2>1, <2>2 DEF Totais, Coerente
  <1>4. CASE \E b \in BOOLEAN : Digitar(b)
    BY <1>0, <1>4 DEF Digitar, PaginasOK, Pedidos, Totais, Coerente
  <1>5. CASE Prosseguir
    BY <1>0, <1>5 DEF Prosseguir, PaginasOK, Pedidos, Totais, Coerente
  <1>6. CASE AbrirPedidoSemVaga \/ VoltarNaTela \/ OkSucesso \/ VoltarSemCartao \/ Reiniciar
    BY <1>1, <1>6 DEF AbrirPedidoSemVaga, VoltarNaTela, OkSucesso, VoltarSemCartao, Reiniciar, Totais, Coerente
  <1>7. CASE UNCHANGED <<pedido, checkout>>
    BY <1>7 DEF Totais, Coerente
  <1> QED
    BY <1>2, <1>3, <1>4, <1>5, <1>6, <1>7
    DEF Next, Usuario, Sistema, vars, formulario, Buscar, RecusarSemCartao, ConfirmarPedido, AbrirConfirmacao,
        AbrirSolicitacao, Decidir, SalvarCartao, AbrirCartao, SalvarCartaoIncompleto, Apagar, AbrirFolha,
        FecharFolha, VoltarNaFolha, OkPreencha, CadastrarCartao, OkDecidida, ResponderPerfil, NovaVaga,
        SegundoPlano, FicarFechado

(* The requests and the pending answers.                                   *)
LEMMA TotaisRequisicoes ==
  ASSUME IInv, Totais, [Next]_vars
  PROVE  \A r \in Requisicoes :
           /\ leituras'[r] # Nulo => Coerente(leituras'[r].id, leituras'[r].qtdHoras, leituras'[r].valorVaga)
           /\ RegistroCoerente(ctx'[r])
           /\ RegistroCoerente(store'[r])
  <1>0. DadosOK /\ PaginasOK
    BY DEF IInv, TypeOK
  <1>1. CASE Avancou
    <2> PICK q \in Requisicoes, y \in RegistrosRequisicao :
          ctx' = [ctx EXCEPT ![q] = y] /\ store' \in {store, ctx'} /\ Origem(q, y)
      BY <1>1 DEF Avancou
    <2>1. RegistroCoerente(y)
      <3>1. CASE y = EmBranco
        BY <3>1 DEF EmBranco, RegistroCoerente, Respondida
      <3>2. CASE leituras[q] # Nulo /\ y = Preenchida(leituras[q])
        BY <3>2 DEF Preenchida, Totais, RegistroCoerente
      <3>3. CASE Respondida(ctx[q]) /\ \E e \in Decisoes : y = [ctx[q] EXCEPT !.estado = e]
        <4>1. ctx[q] \in RegistrosRequisicao
          BY <1>0, <3>3 DEF DadosOK, Respondida
        <4>2. y.id = ctx[q].id /\ y.qtdHoras = ctx[q].qtdHoras /\ y.valorTotal = ctx[q].valorTotal
          BY <3>3, <4>1 DEF RegistrosRequisicao
        <4> QED BY <3>3, <4>2 DEF Totais, RegistroCoerente
      <3> QED BY <3>1, <3>2, <3>3 DEF Origem
    <2>2. \A r \in Requisicoes : ctx'[r] = IF r = q THEN y ELSE ctx[r]
      BY <1>0 DEF DadosOK, Objetos
    <2>3. \A r \in Requisicoes : RegistroCoerente(ctx'[r]) /\ RegistroCoerente(store'[r])
      BY <2>1, <2>2 DEF Totais
    <2>4. \A r \in Requisicoes : leituras'[r] \in {leituras[r], Nulo, checkout}
      BY <1>0 DEF Origem, PaginasOK
    <2> QED BY <2>3, <2>4 DEF Totais
  <1>2. CASE NaoMexeu
    BY <1>2 DEF NaoMexeu, Totais
  <1>3. CASE Relancou
    BY <1>3 DEF Relancou, Totais
  <1> QED BY <1>1, <1>2, <1>3, Movimento

(* The total of a request is the price of its spot for its hours, in       *)
(* memory and in the store.                                                *)
THEOREM TotaisCoerentes == Spec => []TotalCoerente
  <1>1. IInv /\ Totais /\ [Next]_vars => Totais'
    BY TotaisFormulario, TotaisRequisicoes DEF Totais
  <1>2. Totais => TotalCoerente
    BY DEF Totais, TotalCoerente, RegistroCoerente, Coerente
  <1> QED BY <1>1, <1>2, TotaisInicio, Invariancia, PTL DEF Spec

-----------------------------------------------------------------------------
(* Refinement: the flow keeps to the discipline of the shared context.     *)
LEMMA ContextoPasso == ASSUME IInv, [Next]_vars PROVE [Contexto!Next]_(Contexto!vars)
  <1>0. DadosOK' /\ PaginasOK
    BY PassoTiposDados DEF IInv, TypeOK
  <1>1. ASSUME NEW o \in Objetos, NEW x, ctx' = ctx \/ ctx' = [ctx EXCEPT ![o] = x], store' \in {store, ctx'}
        PROVE  [Contexto!Next]_(Contexto!vars)
    <2>1. CASE ctx' = ctx
      BY <1>1, <2>1 DEF Contexto!Next, Contexto!Salvar, Contexto!vars
    <2>2. CASE ctx' = [ctx EXCEPT ![o] = x]
      <3>1. ctx'[o] \in Contexto!Conteudo /\ ctx' = [ctx EXCEPT ![o] = ctx'[o]]
        BY <1>0, <2>2 DEF DadosOK, Contexto!Conteudo, IInv, TypeOK
      <3> QED BY <1>1, <3>1 DEF Contexto!Next, Contexto!Editar
    <2> QED BY <1>1, <2>1, <2>2
  <1>3. CASE \E k \in Cartoes : SalvarCartao(k)
    <2> PICK k \in Cartoes : SalvarCartao(k)
      BY <1>3
    <2>1. ctx' = ctx \/ ctx' = [ctx EXCEPT ![k] = [cartaoNum |-> "informado"]]
      BY <1>0, Gravacao DEF SalvarCartao
    <2>2. store' \in {store, ctx'}
      BY <1>0, Gravacao DEF SalvarCartao
    <2> QED BY <1>1, <2>1, <2>2 DEF Objetos
  <1>4. CASE \E o \in Vagas \cup Cartoes : Apagar(o)
    <2> PICK o \in Vagas \cup Cartoes : Apagar(o)
      BY <1>4
    <2>1. ctx' = [ctx EXCEPT ![o] = Ausente] /\ store' \in {store, ctx'}
      BY <1>0, Gravacao DEF Apagar
    <2> QED BY <1>1, <2>1 DEF Objetos
  <1>5. CASE \E v \in Vagas, f \in RegistrosVaga : NovaVaga(v, f)
    <2> PICK v \in Vagas, f \in RegistrosVaga : NovaVaga(v, f)
      BY <1>5
    <2>1. ctx' = [ctx EXCEPT ![v] = f] /\ store' \in {store, ctx'}
      BY <1>0, Gravacao DEF NovaVaga
    <2> QED BY <1>1, <2>1 DEF Objetos
  <1>6. CASE UNCHANGED ctx /\ store' \in {store, ctx'}
    BY <1>6 DEF Contexto!Next, Contexto!Salvar, Contexto!vars
  <1>7. CASE Reiniciar
    BY <1>7 DEF Reiniciar, Contexto!Next, Contexto!Relancar
  <1>8. CASE \E r \in Requisicoes : ConfirmarPedido(r) \/ ResponderPerfil(r)
    <2> PICK r \in Requisicoes : ConfirmarPedido(r) \/ ResponderPerfil(r)
      BY <1>8
    <2>1. \E x : (ctx' = ctx \/ ctx' = [ctx EXCEPT ![r] = x]) /\ store' \in {store, ctx'}
      BY <1>0, Gravacao DEF ConfirmarPedido, ResponderPerfil, persistencia
    <2> QED BY <1>1, <2>1 DEF Objetos
  <1>9. CASE \E e \in Decisoes : Decidir(e)
    <2> PICK e \in Decisoes : Decidir(e)
      BY <1>9
    <2>1. selecionada.requisicao \in Objetos
      BY DEF Decidir, NaFolha, Tocavel, IInv, ListaEmDia, PendentesEm, RequisicoesEm, Objetos
    <2>2. \E x : ctx' = [ctx EXCEPT ![selecionada.requisicao] = x] /\ store' \in {store, ctx'}
      BY <1>0, Gravacao DEF Decidir, ComEstado
    <2> QED BY <1>1, <2>1, <2>2
  <1> QED
    BY <1>3, <1>4, <1>5, <1>6, <1>7, <1>8, <1>9
    DEF Next, Usuario, Sistema, vars, persistencia, rede, Buscar, AbrirPedidoSemVaga, Prosseguir,
        RecusarSemCartao, AbrirPedido, DefinirHora, Digitar, AbrirConfirmacao, AbrirSolicitacao,
        AbrirCartao, SalvarCartaoIncompleto, AbrirFolha, FecharFolha, VoltarNaFolha, VoltarNaTela,
        OkPreencha, OkSucesso, CadastrarCartao, VoltarSemCartao, OkDecidida, FicarFechado,
        SegundoPlano, Gravou, NaoGravou

(* The store changes only by committing the whole context.                 *)
THEOREM ImplementaContexto == Spec => SegueContexto
  <1>1. IInv /\ [Next]_vars => [Contexto!Next]_(Contexto!vars)
    BY ContextoPasso
  <1>2. Init => Contexto!Init
    BY DEF Init, Contexto!Init, Contexto!Conteudo
  <1> QED BY <1>1, <1>2, Invariancia, PTL DEF Spec, SegueContexto, Contexto!Spec
=============================================================================
