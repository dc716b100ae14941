------------------------------ MODULE Reservas ------------------------------
(***************************************************************************)
(* Renting a spot, from the choice on the map to the owner's decision:     *)
(* RequestViewController (the form), CheckoutVagaViewController (the       *)
(* confirmation, with its asynchronous profile read),                      *)
(* ListaConfirmacoesTableViewController and ConfirmarVagaViewController    *)
(* (the owner approves or rejects), the Historico screens and the          *)
(* Pagamento screens, all over the one shared managed object context.      *)
(*                                                                         *)
(* The main thread runs one handler at a time, so a handler is one action; *)
(* what interleaves is the user, the answers of the network, the save that *)
(* AppDelegate makes when the app leaves the foreground, and the end of    *)
(* the process.                                                            *)
(***************************************************************************)
EXTENDS Naturals

CONSTANTS
  Vagas, Requisicoes, Cartoes,  \* pools of managed objects, by entity
  Chaves,        \* the ids "rua-numero-cep-titulo" spots can have
  Precos,        \* the prices per hour under which each id is registered
  Ausente,       \* the object does not exist
  Nulo,          \* nil
  MaxHoras,      \* the stepper's maximumValue (100 in Request.storyboard)
  MaxFalhas,     \* bound: how many saves may fail
  MaxReinicios   \* bound: how many times the app is started again

Objetos == Vagas \cup Requisicoes \cup Cartoes

ChaveNula == ""                           \* RequestViewController.id, no spot
ChavePadrao == "Rua-N/D-00000-000-Titulo" \* read from a spot that is gone
Ids == Chaves \cup {ChaveNula, ChavePadrao}

Decisoes == {"Aprovado", "Rejeitado"}
Estados == {Nulo, "Pendente"} \cup Decisoes

ASSUME ObjetosAssumption ==
  /\ Vagas \cap Requisicoes = {}
  /\ Vagas \cap Cartoes = {}
  /\ Requisicoes \cap Cartoes = {}
  /\ Nulo \notin Objetos
ASSUME ChavesAssumption ==
  /\ Precos \in [Chaves -> SUBSET Nat]
  /\ Chaves \cap {ChaveNula, ChavePadrao, Nulo} = {}
ASSUME NuloAssumption == Nulo \notin {"Pendente", "Aprovado", "Rejeitado", ChaveNula, ChavePadrao}
ASSUME LimitesAssumption == MaxHoras \in Nat /\ MaxFalhas \in Nat /\ MaxReinicios \in Nat

(* Contents of the three entities.  `data` says whether the date is set,   *)
(* `preenchida` whether marca, modelo and placa are all non-empty.  Two    *)
(* spots may have the same id, at the same price or at different ones.     *)
RegistrosVaga == UNION {[chave : {k}, valor : Precos[k]] : k \in Chaves}
RegistrosCartao == [cartaoNum : {"informado"}]
RegistrosRequisicao ==
  [estado : Estados, id : Ids \cup {Nulo}, data : BOOLEAN,
   preenchida : BOOLEAN, qtdHoras : Nat, valorTotal : Nat]
Registros == RegistrosVaga \cup RegistrosCartao \cup RegistrosRequisicao

(* Mutant: the request is inserted already pending.                        *)
EmBrancoPendente == [estado |-> "Pendente", id |-> Nulo, data |-> FALSE,
                     preenchida |-> FALSE, qtdHoras |-> 0, valorTotal |-> 0]

(* NSManagedObject(entity:insertInto:): every attribute nil or zero.       *)
EmBranco == [estado |-> Nulo, id |-> Nulo, data |-> FALSE,
             preenchida |-> FALSE, qtdHoras |-> 0, valorTotal |-> 0]

(* The fields of RequestViewController and of CheckoutVagaViewController.  *)
Pedidos == [id : Ids, valorHora : Nat, qtdHora : Nat, valorTotal : Nat, preenchida : BOOLEAN]
Checkouts == [id : Ids, valorVaga : Nat, qtdHoras : Nat, preenchida : BOOLEAN, validaCartao : BOOLEAN]

VARIABLES
  ctx,          \* persistentContainer.viewContext: object -> contents
  store,        \* the SQLite store: object -> contents
  falhas,       \* how many saves failed so far
  tela,         \* top of the main navigation stack
  folha,        \* the modal sheet on top of it, by its visible screen
  alerta,       \* the alert on top of everything
  queda,        \* the trap that ended the process, "nenhuma" while it runs
  resultado,    \* HomeViewController.vagas, as the last search fetched it
  achou,        \* some search since the launch fetched a spot
  pedido,       \* RequestViewController
  checkout,     \* CheckoutVagaViewController
  leituras,     \* profile reads under way: request -> what its closure captured
  perfil,       \* the user has a profile under users/<uid> in the database
  linhas,       \* the managed objects listed by the sheet's table
  vagaSelec,    \* ListaConfirmacoesTableViewController.vagaSelec
  selecionada,  \* ConfirmarVagaViewController.requisicao and .vagas
  cartao,       \* PagamentoViewController.cartoes
  reinicios     \* how many times the app was started again

persistencia == <<ctx, store, falhas>>
formulario == <<resultado, achou, pedido, checkout>>
listas == <<linhas, vagaSelec, selecionada, cartao>>
rede == <<leituras, perfil>>
vars == <<ctx, store, falhas, tela, folha, alerta, queda, resultado, achou, pedido, checkout,
          leituras, perfil, linhas, vagaSelec, selecionada, cartao, reinicios>>

(* The mark of a missing object is not what an object can hold.            *)
ASSUME AusenteAssumption == Ausente \notin Registros
ASSUME CheckoutsAssumption == Nulo \notin Checkouts

-----------------------------------------------------------------------------
SemPedido == [id |-> ChaveNula, valorHora |-> 0, qtdHora |-> 0, valorTotal |-> 0, preenchida |-> FALSE]
SemCheckout == [id |-> ChaveNula, valorVaga |-> 0, qtdHoras |-> 0, preenchida |-> FALSE, validaCartao |-> FALSE]
SemSelecao == [requisicao |-> Nulo, vaga |-> Nulo]

(* The fetches of the screens; `c` is the context they run on.             *)
VagasEm(c) == {v \in Vagas : c[v] # Ausente}
CartoesEm(c) == {k \in Cartoes : c[k] # Ausente}
RequisicoesEm(c) == {r \in Requisicoes : c[r] # Ausente}

(* Mutant: the predicate lets through every request that has a state.      *)
PendentesOuDecididas(c) == {r \in RequisicoesEm(c) : c[r].estado # Nulo}

(* The predicate "estado CONTAINS[c] 'Pendente'".                          *)
PendentesEm(c) == {r \in RequisicoesEm(c) : c[r].estado = "Pendente"}

(* An object no page can hold: only such a one stands for a new insertion. *)
Novo(o) == ctx[o] = Ausente /\ store[o] = Ausente /\ o \notin linhas \cup resultado

(* Mutant: the save runs before the changes are made.                      *)
GravouAntes(c) == store' = ctx /\ UNCHANGED falhas

(* managedContext.save() with the context as it is in c.  Every handler    *)
(* catches the error and only prints it.                                   *)
Gravou(c) == store' = c /\ UNCHANGED falhas
NaoGravou == falhas < MaxFalhas /\ falhas' = falhas + 1 /\ UNCHANGED store

(* Mutant: a save that fails takes the handler's changes back.             *)
GravarOuDesfazer(c) == (ctx' = c /\ Gravou(c)) \/ (UNCHANGED ctx /\ NaoGravou)

Gravar(c) == ctx' = c /\ (Gravou(c) \/ NaoGravou)

(* A touch reaches a screen only when no alert covers it.                  *)
Tocavel == queda = "nenhuma" /\ alerta = "nenhum"
NaTela(t) == Tocavel /\ tela = t /\ folha = "nenhuma"
NaFolha(f) == Tocavel /\ folha = f

Init ==
  /\ ctx = [o \in Objetos |-> Ausente]
  /\ store = ctx
  /\ falhas = 0
  /\ tela = "home" /\ folha = "nenhuma" /\ alerta = "nenhum" /\ queda = "nenhuma"
  /\ resultado = {} /\ achou = FALSE /\ pedido = SemPedido /\ checkout = SemCheckout
  /\ leituras = [r \in Requisicoes |-> Nulo]
  /\ perfil \in BOOLEAN
  /\ linhas = {} /\ vagaSelec = Nulo /\ selecionada = SemSelecao /\ cartao = Nulo
  /\ reinicios = 0

-----------------------------------------------------------------------------
(* HomeViewController: a search fetches the spots ...                      *)
Buscar == /\ NaTela("home")
          /\ resultado' = VagasEm(ctx)
          /\ achou' = (achou \/ VagasEm(ctx) # {})
          /\ UNCHANGED <<persistencia, tela, folha, alerta, queda, pedido, checkout, rede, listas, reinicios>>

(* ... and requestSegue hands one of them to RequestViewController, which  *)
(* rebuilds the id from its fields.  The list may be older than a deletion *)
(* made in the garage: a deletion not yet saved still shows the fields, a  *)
(* saved one leaves the defaults.                                          *)
FichasLidas(v) == CASE ctx[v] # Ausente -> {ctx[v]}
                    [] ctx[v] = Ausente /\ store[v] # Ausente -> {store[v]}
                    [] OTHER -> [chave : {ChavePadrao}, valor : {0, 1}]

AbrirPedido(v) ==
  /\ NaTela("home")
  /\ v \in resultado
  /\ \E f \in FichasLidas(v) : pedido' = [SemPedido EXCEPT !.id = f.chave, !.valorHora = f.valor]
  /\ tela' = "request"
  /\ UNCHANGED <<persistencia, folha, alerta, queda, resultado, achou, checkout, rede, listas, reinicios>>

(* The list of spots is empty but a row of an older search, which had      *)
(* found some, was chosen: vagaFinal stays nil and the form shows "VAGA    *)
(* NULA".                                                                  *)
AbrirPedidoSemVaga ==
  /\ NaTela("home")
  /\ resultado = {} /\ achou
  /\ pedido' = SemPedido
  /\ tela' = "request"
  /\ UNCHANGED <<persistencia, folha, alerta, queda, resultado, achou, checkout, rede, listas, reinicios>>

(* Mutant: the total is computed before the hours are read.                *)
ComHorasAntigas(p, h) == [p EXCEPT !.qtdHora = h, !.valorTotal = p.valorHora * p.qtdHora]

(* RequestViewController.definirHora and the three text fields.            *)
ComHoras(p, h) == [p EXCEPT !.qtdHora = h, !.valorTotal = p.valorHora * h]

DefinirHora(h) ==
  /\ NaTela("request")
  /\ pedido' = ComHoras(pedido, h)
  /\ UNCHANGED <<persistencia, tela, folha, alerta, queda, resultado, achou, checkout, rede, listas, reinicios>>

Digitar(b) ==
  /\ NaTela("request")
  /\ pedido' = [pedido EXCEPT !.preenchida = b]
  /\ UNCHANGED <<persistencia, tela, folha, alerta, queda, resultado, achou, checkout, rede, listas, reinicios>>

(* The button runs actProsseguir, which only warns, and the segue          *)
(* segueVaga, which shows the checkout whatever was typed; its viewDidLoad *)
(* looks for a card once.                                                  *)
Completo(c) == c.preenchida /\ c.qtdHoras >= 1

Prosseguir ==
  /\ NaTela("request")
  /\ checkout' = [id |-> pedido.id, valorVaga |-> pedido.valorTotal, qtdHoras |-> pedido.qtdHora,
                  preenchida |-> pedido.preenchida, validaCartao |-> CartoesEm(ctx) # {}]
  /\ alerta' = IF Completo(checkout') THEN "nenhum" ELSE "preencha"
  /\ tela' = "checkout"
  /\ UNCHANGED <<persistencia, folha, queda, resultado, achou, pedido, rede, listas, reinicios>>

(* CheckoutVagaViewController.confirmar with a card: save() inserts a      *)
(* blank request and asks for the profile, then success is announced.      *)
ConfirmarPedido(r) ==
  /\ NaTela("checkout")
  /\ checkout.validaCartao
  /\ Novo(r)
  /\ ctx' = [ctx EXCEPT ![r] = EmBranco]
  /\ leituras' = [leituras EXCEPT ![r] = checkout]
  /\ alerta' = "sucesso"
  /\ UNCHANGED <<store, falhas, tela, folha, queda, formulario, perfil, listas, reinicios>>

RecusarSemCartao ==
  /\ NaTela("checkout")
  /\ ~checkout.validaCartao
  /\ alerta' = "semCartao"
  /\ UNCHANGED <<persistencia, tela, folha, queda, formulario, rede, listas, reinicios>>

(* Mutant: the id is not among the fields set.                             *)
PreenchidaSemId(c) == [estado |-> "Pendente", id |-> Nulo, data |-> TRUE, preenchida |-> c.preenchida,
                       qtdHoras |-> c.qtdHoras, valorTotal |-> c.valorVaga]

(* Mutant: the date is not among the fields set.                           *)
PreenchidaSemData(c) == [estado |-> "Pendente", id |-> c.id, data |-> FALSE, preenchida |-> c.preenchida,
                         qtdHoras |-> c.qtdHoras, valorTotal |-> c.valorVaga]

(* Mutant: the answer finds nobody once the page is gone.                  *)
RespostaNaPagina(r) == queda = "nenhuma" /\ leituras[r] # Nulo /\ tela = "checkout"

(* The answer to observeSingleEvent, whatever is on screen by then: with a *)
(* profile the request is filled from the page that asked and saved,       *)
(* without one nothing happens.                                            *)
Preenchida(c) == [estado |-> "Pendente", id |-> c.id, data |-> TRUE, preenchida |-> c.preenchida,
                  qtdHoras |-> c.qtdHoras, valorTotal |-> c.valorVaga]

Resposta(r) == queda = "nenhuma" /\ leituras[r] # Nulo

(* Mutant: observe instead of observeSingleEvent, the closure stays.       *)
ResponderSempre(r) ==
  /\ Resposta(r)
  /\ IF perfil THEN Gravar([ctx EXCEPT ![r] = Preenchida(leituras[r])])
               ELSE UNCHANGED persistencia
  /\ UNCHANGED <<tela, folha, alerta, queda, formulario, rede, listas, reinicios>>

ResponderPerfil(r) ==
  /\ Resposta(r)
  /\ leituras' = [leituras EXCEPT ![r] = Nulo]
  /\ IF perfil THEN Gravar([ctx EXCEPT ![r] = Preenchida(leituras[r])])
               ELSE UNCHANGED persistencia
  /\ UNCHANGED <<tela, folha, alerta, queda, formulario, perfil, listas, reinicios>>

-----------------------------------------------------------------------------
(* Mutant: the ids are not compared.                                       *)
VagasQuaisquer(r, c) == VagasEm(c)

(* The owner's list.  viewWillAppear fetches the pending requests and the  *)
(* spots; rendering a row looks for the row's spot, remembers it in        *)
(* vagaSelec and formats the date (`as! Date`).  Rows are rendered in an   *)
(* order nothing fixes: any row with a spot may be the last.               *)
VagasDe(r, c) == {v \in VagasEm(c) : c[v].chave = c[r].id}

(* Mutant: the rows of an earlier appearance are kept.                     *)
LinhasAcumuladas(c) == linhas \cup PendentesEm(c)

LinhasConfirmacoes(c) == PendentesEm(c)

MostrarConfirmacoes(c, antes) ==
  LET comVaga == {r \in PendentesEm(c) : VagasDe(r, c) # {}}
  IN /\ folha' = "confirmacoes"
     /\ linhas' = LinhasConfirmacoes(c)
     /\ vagaSelec' \in IF comVaga = {} THEN {antes} ELSE UNION {VagasDe(r, c) : r \in comVaga}
     /\ queda' = IF \E r \in comVaga : ~c[r].data THEN "data" ELSE "nenhuma"

(* prepare(segueConfirmacao) takes the chosen row's request but vagaSelec  *)
(* (`vagaSelec!`), and ConfirmarVagaViewController.viewDidLoad formats the *)
(* date.                                                                   *)
AbrirConfirmacao(r) ==
  /\ NaFolha("confirmacoes")
  /\ r \in linhas
  /\ IF vagaSelec = Nulo
     THEN queda' = "semVaga" /\ UNCHANGED <<folha, selecionada>>
     ELSE /\ selecionada' = [requisicao |-> r, vaga |-> vagaSelec]
          /\ folha' = "confirmar"
          /\ queda' = IF ctx[r].data THEN "nenhuma" ELSE "data"
  /\ UNCHANGED <<persistencia, tela, alerta, formulario, rede, linhas, vagaSelec, cartao, reinicios>>

(* Mutant: the state is written with another word.                         *)
ComEstadoEstranho(r, e) == [ctx EXCEPT ![r].estado = "Decidido"]

(* Mutant: the spot of a decided request leaves the garage.                *)
ComEstadoEVaga(r, e) == [ctx EXCEPT ![r].estado = e, ![selecionada.vaga] = Ausente]

ComEstado(r, e) == [ctx EXCEPT ![r].estado = e]

(* actAprovar and actRejeitar: set the state, save, announce.              *)
Decidir(e) ==
  /\ NaFolha("confirmar")
  /\ Gravar(ComEstado(selecionada.requisicao, e))
  /\ alerta' = "decidida"
  /\ UNCHANGED <<tela, folha, queda, formulario, rede, listas, reinicios>>

(* Historico: every request is listed, the detail formats the date.        *)
AbrirSolicitacao(r) ==
  /\ NaFolha("historico")
  /\ r \in linhas
  /\ folha' = "solicitacao"
  /\ queda' = IF ctx[r].data THEN "nenhuma" ELSE "semData"
  /\ UNCHANGED <<persistencia, tela, alerta, formulario, rede, listas, reinicios>>

-----------------------------------------------------------------------------
(* Pagamento.  A card row, or "new card", opens PagamentoViewController,   *)
(* whose viewDidLoad casts the fields of a card that may be gone           *)
(* (`as! String`).                                                         *)
AbrirCartao(k) ==
  /\ NaFolha("pagamento")
  /\ k \in linhas \cup {Nulo}
  /\ cartao' = k
  /\ folha' = "cartao"
  /\ queda' = IF k = Nulo THEN "nenhuma"
              ELSE IF ctx[k] = Ausente /\ store[k] = Ausente THEN "cartao" ELSE "nenhuma"
  /\ UNCHANGED <<persistencia, tela, alerta, formulario, rede, linhas, vagaSelec, selecionada, reinicios>>

(* salvar with an empty field only warns.                                  *)
SalvarCartaoIncompleto ==
  /\ NaFolha("cartao")
  /\ alerta' = "preencha"
  /\ UNCHANGED <<persistencia, tela, folha, queda, formulario, rede, listas, reinicios>>

(* salvar: update the card the page was opened with (nothing to update if  *)
(* it is deleted) or insert one, save, back to the list, which refetches.  *)
VoltarAosCartoes(c) ==
  folha' = "pagamento" /\ linhas' = CartoesEm(c) /\ cartao' = Nulo

SalvarCartao(k) ==
  /\ NaFolha("cartao")
  /\ IF cartao = Nulo THEN Novo(k) ELSE k = cartao
  /\ IF cartao = Nulo THEN Gravar([ctx EXCEPT ![k] = [cartaoNum |-> "informado"]]) ELSE Gravar(ctx)
  /\ VoltarAosCartoes(ctx')
  /\ UNCHANGED <<tela, alerta, queda, formulario, rede, vagaSelec, selecionada, reinicios>>

(* Mutant: the row is left to the next fetch.                              *)
LinhasComApagada(o) == linhas

(* Deleting a row, of cards or of spots: the row goes only if the save     *)
(* succeeds; the deletion stays pending otherwise.                         *)
LinhasSem(o) == IF falhas' = falhas THEN linhas \ {o} ELSE linhas

Apagar(o) ==
  /\ o \in linhas
  /\ \/ NaFolha("pagamento") /\ o \in Cartoes
     \/ NaFolha("garagem") /\ o \in Vagas
  /\ Gravar([ctx EXCEPT ![o] = Ausente])
  /\ linhas' = LinhasSem(o)
  /\ UNCHANGED <<tela, folha, alerta, queda, formulario, rede, vagaSelec, selecionada, cartao, reinicios>>

(* NovaVagaViewController.save, called by the answer of the geocoder, on   *)
(* any screen: the garage's list is refetched if the page is still there   *)
(* to be popped.                                                           *)
NovaVaga(v, f) ==
  /\ queda = "nenhuma"
  /\ Novo(v)
  /\ Gravar([ctx EXCEPT ![v] = f])
  /\ linhas' \in IF folha = "garagem" THEN {linhas, VagasEm(ctx')} ELSE {linhas}
  /\ UNCHANGED <<tela, folha, alerta, queda, formulario, rede, vagaSelec, selecionada, cartao, reinicios>>

-----------------------------------------------------------------------------
(* Navigation.  The drawer is on the home screen; the checkout has a       *)
(* button of its own to Pagamento (attPagSegue).  A sheet comes up with a  *)
(* new list, whose viewWillAppear fetches its rows; the page below does    *)
(* not load again when the sheet is swiped away.                           *)
AbrirLista(f) ==
  \/ /\ f = "pagamento" /\ linhas' = CartoesEm(ctx)
     /\ folha' = f /\ UNCHANGED <<vagaSelec, queda>>
  \/ /\ f = "garagem" /\ linhas' = VagasEm(ctx)
     /\ folha' = f /\ UNCHANGED <<vagaSelec, queda>>
  \/ /\ f = "historico" /\ linhas' = RequisicoesEm(ctx)
     /\ folha' = f /\ UNCHANGED <<vagaSelec, queda>>
  \/ f = "confirmacoes" /\ MostrarConfirmacoes(ctx, Nulo)

AbrirFolha(f) ==
  /\ NaTela("home") \/ (NaTela("checkout") /\ f = "pagamento")
  /\ AbrirLista(f)
  /\ UNCHANGED <<persistencia, tela, alerta, formulario, rede, selecionada, cartao, reinicios>>

LimparFolha ==
  folha' = "nenhuma" /\ linhas' = {} /\ vagaSelec' = Nulo /\ selecionada' = SemSelecao /\ cartao' = Nulo

FecharFolha ==
  /\ Tocavel
  /\ folha # "nenhuma"
  /\ LimparFolha
  /\ UNCHANGED <<persistencia, tela, alerta, queda, formulario, rede, reinicios>>

(* The back buttons inside the sheets; each list refetches.                *)
VoltarNaFolha ==
  /\ Tocavel
  /\ \/ /\ folha = "confirmar" /\ MostrarConfirmacoes(ctx, vagaSelec)
        /\ selecionada' = SemSelecao /\ UNCHANGED cartao
     \/ /\ folha = "solicitacao" /\ folha' = "historico" /\ linhas' = RequisicoesEm(ctx)
        /\ UNCHANGED <<vagaSelec, selecionada, cartao, queda>>
     \/ /\ folha = "cartao" /\ VoltarAosCartoes(ctx)
        /\ UNCHANGED <<vagaSelec, selecionada, queda>>
  /\ UNCHANGED <<persistencia, tela, alerta, formulario, rede, reinicios>>

(* The back buttons of the main stack; a page left is gone.                *)
VoltarNaTela ==
  /\ \/ NaTela("checkout") /\ tela' = "request" /\ UNCHANGED pedido
     \/ NaTela("request") /\ tela' = "home" /\ pedido' = SemPedido
  /\ checkout' = SemCheckout
  /\ UNCHANGED <<persistencia, folha, alerta, queda, resultado, achou, rede, listas, reinicios>>

(* The buttons of the alerts.                                              *)
OkPreencha ==
  /\ queda = "nenhuma" /\ alerta = "preencha"
  /\ alerta' = "nenhum"
  /\ UNCHANGED <<persistencia, tela, folha, queda, formulario, rede, listas, reinicios>>

OkSucesso ==
  /\ queda = "nenhuma" /\ alerta = "sucesso"
  /\ alerta' = "nenhum" /\ tela' = "home"
  /\ pedido' = SemPedido /\ checkout' = SemCheckout
  /\ UNCHANGED <<persistencia, folha, queda, resultado, achou, rede, listas, reinicios>>

CadastrarCartao ==
  /\ queda = "nenhuma" /\ alerta = "semCartao"
  /\ alerta' = "nenhum"
  /\ AbrirLista("pagamento")
  /\ UNCHANGED <<persistencia, tela, formulario, rede, selecionada, cartao, reinicios>>

VoltarSemCartao ==
  /\ queda = "nenhuma" /\ alerta = "semCartao"
  /\ alerta' = "nenhum" /\ tela' = "request" /\ checkout' = SemCheckout
  /\ UNCHANGED <<persistencia, folha, queda, resultado, achou, pedido, rede, listas, reinicios>>

OkDecidida ==
  /\ queda = "nenhuma" /\ alerta = "decidida"
  /\ alerta' = "nenhum"
  /\ MostrarConfirmacoes(ctx, vagaSelec)
  /\ selecionada' = SemSelecao
  /\ UNCHANGED <<persistencia, tela, formulario, rede, cartao, reinicios>>

-----------------------------------------------------------------------------
(* sceneDidEnterBackground: AppDelegate.saveContext commits whatever is    *)
(* pending, and a save that fails is fatal.                                *)
SegundoPlano ==
  /\ queda = "nenhuma"
  /\ ctx # store
  /\ \/ Gravou(ctx) /\ UNCHANGED queda
     \/ NaoGravou /\ queda' = "salvar"
  /\ UNCHANGED <<ctx, tela, folha, alerta, formulario, rede, listas, reinicios>>

(* The process is ended (a trap, the system, exit(0)) and started again:   *)
(* the context is read back from the store, nothing under way comes back,  *)
(* and the user who signs in may be another.                               *)
Reiniciar ==
  /\ reinicios < MaxReinicios
  /\ reinicios' = reinicios + 1
  /\ ctx' = store
  /\ UNCHANGED <<store, falhas>>
  /\ tela' = "home" /\ alerta' = "nenhum" /\ queda' = "nenhuma"
  /\ resultado' = {} /\ achou' = FALSE /\ pedido' = SemPedido /\ checkout' = SemCheckout
  /\ leituras' = [r \in Requisicoes |-> Nulo]
  /\ perfil' \in BOOLEAN
  /\ LimparFolha

(* An app that trapped and is not opened again stays closed.               *)
FicarFechado == queda # "nenhuma" /\ UNCHANGED vars

-----------------------------------------------------------------------------
Usuario ==
  \/ Buscar \/ AbrirPedidoSemVaga \/ Prosseguir \/ RecusarSemCartao
  \/ \E v \in Vagas : AbrirPedido(v)
  \/ \E h \in 0..MaxHoras : DefinirHora(h)
  \/ \E b \in BOOLEAN : Digitar(b)
  \/ \E r \in Requisicoes : ConfirmarPedido(r) \/ AbrirConfirmacao(r) \/ AbrirSolicitacao(r)
  \/ \E e \in Decisoes : Decidir(e)
  \/ \E k \in Cartoes : SalvarCartao(k)
  \/ \E k \in Cartoes \cup {Nulo} : AbrirCartao(k)
  \/ SalvarCartaoIncompleto
  \/ \E o \in Vagas \cup Cartoes : Apagar(o)
  \/ \E f \in {"garagem", "confirmacoes", "historico", "pagamento"} : AbrirFolha(f)
  \/ FecharFolha \/ VoltarNaFolha \/ VoltarNaTela
  \/ OkPreencha \/ OkSucesso \/ CadastrarCartao \/ VoltarSemCartao \/ OkDecidida

Sistema ==
  \/ \E r \in Requisicoes : ResponderPerfil(r)
  \/ \E v \in Vagas, f \in RegistrosVaga : NovaVaga(v, f)
  \/ SegundoPlano
  \/ Reiniciar
  \/ FicarFechado

Next == Usuario \/ Sistema

Spec == Init /\ [][Next]_vars

(* Firebase answers every profile read in the end, while the app runs;     *)
(* nobody is bound to touch the screen, to leave the app or to restart it. *)
FairSpec == Spec /\ \A r \in Requisicoes : WF_vars(ResponderPerfil(r))

-----------------------------------------------------------------------------
(* Type invariant.                                                         *)
Selecoes == [requisicao : Requisicoes, vaga : Vagas] \cup {SemSelecao}

DadosOK ==
  /\ ctx \in [Objetos -> Registros \cup {Ausente}]
  /\ store \in [Objetos -> Registros \cup {Ausente}]
  /\ \A v \in Vagas : {ctx[v], store[v]} \subseteq RegistrosVaga \cup {Ausente}
  /\ \A k \in Cartoes : {ctx[k], store[k]} \subseteq RegistrosCartao \cup {Ausente}
  /\ \A r \in Requisicoes : {ctx[r], store[r]} \subseteq RegistrosRequisicao \cup {Ausente}

PaginasOK ==
  /\ falhas \in Nat /\ reinicios \in Nat
  /\ tela \in {"home", "request", "checkout"}
  /\ folha \in {"nenhuma", "garagem", "confirmacoes", "confirmar", "historico",
                "solicitacao", "pagamento", "cartao"}
  /\ alerta \in {"nenhum", "preencha", "sucesso", "semCartao", "decidida"}
  /\ queda \in {"nenhuma", "data", "semData", "semVaga", "cartao", "salvar"}
  /\ resultado \subseteq Vagas /\ achou \in BOOLEAN
  /\ pedido \in Pedidos
  /\ checkout \in Checkouts
  /\ leituras \in [Requisicoes -> Checkouts \cup {Nulo}]
  /\ perfil \in BOOLEAN
  /\ linhas \subseteq Objetos
  /\ vagaSelec \in Vagas \cup {Nulo}
  /\ selecionada \in Selecoes
  /\ cartao \in Cartoes \cup {Nulo}

TypeOK == DadosOK /\ PaginasOK

Decidida(x) == x # Ausente /\ x.estado \in Decisoes
Respondida(x) == x # Ausente /\ x.estado # Nulo

(* The list of confirmations and the page of one never trap on a request's *)
(* date (`data as! Date`, ListaConfirmacoes:98 and ConfirmarVaga:49): the  *)
(* blank request checkout inserts stays out of the list until one step has *)
(* filled all of it, through saves made by others and relaunches.          *)
ConfirmacoesTemData == queda # "data"

(* The profile's answer is never late for its request: as long as it is    *)
(* awaited the request is the blank one checkout inserted, so the write of *)
(* "Pendente" (CheckoutVaga:157) cannot undo a decision.                   *)
LeituraNaoAtropela == \A r \in Requisicoes : leituras[r] # Nulo => ctx[r] = EmBranco

(* The owner's list holds only pending requests, and the page of one is of *)
(* a request still pending until it has been decided there: no page ever   *)
(* offers a second decision (viewWillAppear, ListaConfirmacoes:31-49).     *)
ListaEmDia ==
  /\ folha = "confirmacoes" => linhas \subseteq PendentesEm(ctx)
  /\ folha = "confirmar" /\ alerta # "decidida" => selecionada.requisicao \in PendentesEm(ctx)

(* The total of a request is what an hourly price registered under the id  *)
(* it asks for gives for its hours, however the form was changed, left and *)
(* entered again, and whatever page is on screen when the answer writes it *)
(* (definirHora, prepare, save).                                           *)
TotalCoerente ==
  \A r \in Requisicoes : \A x \in {ctx[r], store[r]} :
    Respondida(x) /\ x.id \in Chaves =>
      \E p \in Precos[x.id] : x.valorTotal = p * x.qtdHoras

(* While its profile read is awaited, or in a request with a profile on    *)
(* record that was filled, nothing is lost by saves alone: a blank request *)
(* nobody will fill exists only for a user without a profile or after a    *)
(* relaunch (CheckoutVaga:129-136).                                        *)
BrancaTemMotivo ==
  \A r \in Requisicoes :
    ctx[r] = EmBranco /\ leituras[r] = Nulo => ~perfil \/ reinicios > 0

(* The list of cards shows a card that is not in the context, or the page  *)
(* of one traps on its fields (`as! String`, Pagamento:33), only if a save *)
(* failed: only then does another screen's save commit a deletion below    *)
(* the row (PagamentoTable:76-84).                                         *)
CartaoTemMotivo ==
  falhas = 0 => queda # "cartao" /\ (folha = "pagamento" => linhas \subseteq CartoesEm(ctx))

(* The history traps on a request without a date (`as! Date`,              *)
(* Historico:35) only if a listed one is still the blank one of          *)
(* checkout, while its profile read is awaited, or for good without a      *)
(* profile or after a relaunch: a request that was filled never does it.   *)
HistoricoCaiSoNaBranca ==
  queda = "semData" =>
    \E r \in linhas \cap Requisicoes :
      ctx[r] = EmBranco /\ (leituras[r] # Nulo \/ ~perfil \/ reinicios > 0)

(* As long as no save has failed, the store lacks nothing but blank        *)
(* requests: every screen saves what it changes before another one, or a   *)
(* relaunch, can come (CheckoutVaga:162, ConfirmarVaga:100, Pagamento:86,  *)
(* PagamentoTable:81, VagasTable:97, NovaVaga:203).                        *)
SoFalhaAtrasa ==
  falhas = 0 =>
    \A o \in Objetos : store[o] = ctx[o] \/ (store[o] = Ausente /\ ctx[o] = EmBranco)

(* The page to confirm may show the spot of another request than the one   *)
(* chosen, but it is one that exists and that a request of the list, or    *)
(* one decided, asks for: with a single request it is the right one        *)
(* (vagaSelec, ListaConfirmacoes:91 and :157).                             *)
ConfirmaDeAlguem ==
  folha = "confirmar" =>
    /\ selecionada.vaga \in VagasEm(ctx)
    /\ \E q \in RequisicoesEm(ctx) :
         /\ q \in linhas \/ Decidida(ctx[q])
         /\ ctx[q].id = ctx[selecionada.vaga].chave

(* The store is never ahead of the memory, and where a request stands at   *)
(* the same place in both it has the same contents: no request is half     *)
(* written, in spite of failed saves and of saves made by other screens.   *)
Posicao(x) == CASE x = Ausente -> 0
                [] x # Ausente /\ x.estado = Nulo -> 1
                [] x # Ausente /\ x.estado = "Pendente" -> 2
                [] OTHER -> 3

StoreAtrasado ==
  \A r \in Requisicoes : \/ store[r] = ctx[r]
                         \/ Posicao(store[r]) < Posicao(ctx[r])

(* A decision is final: no step changes a request decided in the store,    *)
(* and none but a relaunch changes one decided in memory.  The code never  *)
(* looks at the old state (ConfirmarVaga:94-97); that the list is fetched  *)
(* again on every return (ListaConfirmacoes:31) is what makes it so.       *)
DecisaoFinal ==
  [][\A r \in Requisicoes :
       /\ Decidida(store[r]) => store'[r] = store[r]
       /\ Decidida(ctx[r]) /\ reinicios' = reinicios => ctx'[r] = ctx[r]]_vars

(* The flow implements the life of a request ...                           *)
Situacao(x) == CASE x = Ausente -> "nenhuma"
                 [] x # Ausente /\ x.estado = Nulo -> "branca"
                 [] OTHER -> x.estado

Vida == INSTANCE VidaRequisicao
          WITH vista <- [r \in Requisicoes |-> Situacao(ctx[r])],
               gravada <- [r \in Requisicoes |-> Situacao(store[r])]
SegueVida == Vida!Spec

(* ... and keeps to the discipline of the shared context.                  *)
Contexto == INSTANCE ContextoGerenciado WITH Valores <- Registros
SegueContexto == Contexto!Spec

(* A request confirmed by a user with a profile is pending in the end,     *)
(* unless the process ends first: no failed save and no screen the user    *)
(* moves to prevents it.                                                   *)
PedidoAtendido ==
  \A r \in Requisicoes : \A n \in 0..MaxReinicios :
    (perfil /\ leituras[r] # Nulo /\ reinicios = n)
      ~> (Respondida(ctx[r]) \/ queda # "nenhuma" \/ reinicios > n)

-----------------------------------------------------------------------------
(* What the screens say and the code does not keep (violation runs).       *)

(* "Cartão não cadastrado." (CheckoutVaga:101): without a card no booking  *)
(* is made.                                                                *)
SucessoTemCartao == alerta = "sucesso" => CartoesEm(ctx) # {}

(* "Pass the selected object to the new view controller."                  *)
(* (ListaConfirmacoes:152): when the spot the chosen request asks for is   *)
(* there, the page shows it.                                               *)
ConfirmaAVagaPedida ==
  LET pedidas == VagasDe(selecionada.requisicao, ctx)
  IN folha = "confirmar" /\ pedidas # {} => selecionada.vaga \in pedidas

(* "Vaga solicitada com sucesso. Favor aguardar aprovação."                *)
(* (CheckoutVaga:87): what was announced gets to the owner's list.         *)
SucessoEhSucesso ==
  \A r \in Requisicoes : leituras[r] # Nulo ~> Respondida(ctx[r])
=============================================================================
