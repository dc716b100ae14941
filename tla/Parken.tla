------------------------------- MODULE Parken -------------------------------
(***************************************************************************)
(* The home screen and the booking flow in one run of the process, from    *)
(* the search of an address to the request the owner sees.                 *)
(*                                                                         *)
(* Home and Reservas each say what the other does in the simplest way: for *)
(* Reservas a search is one step and any spot of it may be handed to the   *)
(* form, for Home the form is a page that comes back and the garage a set. *)
(* Here each step that both know is one step of both: the search is that   *)
(* of Home, the spot handed over is the one its loop finds, the garage is  *)
(* that of the shared context, and touches reach Home only when no page,   *)
(* sheet or alert of the booking flow covers it, while answers always do.  *)
(***************************************************************************)
EXTENDS Reservas

CONSTANTS
  Enderecos, Textos, Perto, IdGravado, IdMontado, MaxBuscas,   \* see Home
  ChaveDe,   \* spot -> the id put together from its fields, as a key
  PrecoDe    \* spot -> its price per hour

ASSUME IdsAssumption == IdGravado \in [Vagas -> Nat] /\ IdMontado \in [Vagas -> Nat]
ASSUME PertoAssumption == Perto \in [Enderecos -> SUBSET Vagas]
ASSUME TextosAssumption == Nulo \notin Vagas \cup Textos
ASSUME BuscasAssumption == MaxBuscas \in Nat
(* The key and IdMontado are two views of one string.                      *)
ASSUME ChaveDeAssumption ==
  /\ ChaveDe \in [Vagas -> Chaves]
  /\ \A v, w \in Vagas : ChaveDe[v] = ChaveDe[w] => IdMontado[v] = IdMontado[w]
ASSUME PrecoDeAssumption ==
  /\ PrecoDe \in [Vagas -> Nat]
  /\ \A k \in Chaves : Precos[k] = {PrecoDe[v] : v \in {w \in Vagas : ChaveDe[w] = k}}

VARIABLES
  passo, isSearching, isPopupOpen, pesquisas, sugestoes, linhasSugestao, destino, mapa,
  geocodificando, parkingLocateList, parkChoosed, entregue, apagadas, buscas,   \* see Home
  linhasHome,       \* the rows of parkingLocateTable
  selecionadaHome,  \* indexPathForSelectedRow (0: nil)
  quedaHome,        \* the trap of the home screen, "nenhuma" while it runs
  origem            \* request -> the choice it was confirmed for (history)

varsHome == <<passo, isSearching, isPopupOpen, pesquisas, sugestoes, linhasSugestao, destino, mapa,
              geocodificando, parkingLocateList, parkChoosed, entregue, apagadas, buscas,
              linhasHome, selecionadaHome, quedaHome>>
varsParken == <<vars, varsHome, origem>>

(* The two share the list of the last search, the page on top and the      *)
(* spots in the context.                                                   *)
paginaHome == IF tela = "home" THEN "home" ELSE "request"

H == INSTANCE Home WITH
       vagas <- resultado, pagina <- paginaHome, existentes <- VagasEm(ctx),
       linhas <- linhasHome, selecionada <- selecionadaHome, queda <- quedaHome

SemOrigem == [escolhida |-> Nulo, apagada |-> FALSE]

InitParken ==
  /\ Init
  /\ H!Init
  /\ origem = [r \in Requisicoes |-> SemOrigem]

Aberto == queda = "nenhuma" /\ quedaHome = "nenhuma"

-----------------------------------------------------------------------------
(* Steps of the home screen alone: touches, if nothing covers it ...       *)
TocarHome ==
  /\ NaTela("home")
  /\ UNCHANGED <<vars, origem>>
  /\ \/ \E q \in Textos : H!Digitar(q)
     \/ H!ApagarTexto \/ H!AlternarPainel
     \/ \E i \in DOMAIN linhasHome : H!EscolherVaga(i)
     \/ H!VoltarAoPrimeiro \/ H!VoltarAoSegundo

(* ... and answers, whatever covers it.                                    *)
ResponderHome ==
  /\ Aberto
  /\ UNCHANGED <<vars, origem>>
  /\ \/ \E q \in Textos : H!ResponderSugestoes(q) \/ H!FalharSugestoes(q)
     \/ \E g \in geocodificando : H!ResponderEndereco(g) \/ H!FalharEndereco(g)

(* A search; without suggestions behind the row it traps.                  *)
BuscarPerto(e) ==
  /\ NaTela("home")
  /\ IF sugestoes # Nulo THEN Buscar ELSE UNCHANGED vars
  /\ H!EscolherSugestao(e)
  /\ UNCHANGED origem

(* The form opens on the spot prepare found, or on none.                   *)
Abrir(v) == IF v = Nulo THEN AbrirPedidoSemVaga ELSE AbrirPedido(v)

Requisitar ==
  /\ \E v \in Vagas \cup {Nulo} : Abrir(v) /\ H!Requisitar /\ entregue'.vaga = v
  /\ quedaHome' = "nenhuma"
  /\ UNCHANGED origem

(* ... or prepare traps.                                                   *)
CairAoRequisitar ==
  /\ NaTela("home")
  /\ UNCHANGED <<vars, origem>>
  /\ H!Requisitar
  /\ quedaHome' # "nenhuma"

(* The form is left, by its back button or after the announcement of       *)
(* success.                                                                *)
VoltarDoPedido ==
  /\ VoltarNaTela \/ OkSucesso
  /\ IF tela' = "home" THEN H!VoltarDoPedido ELSE UNCHANGED varsHome
  /\ UNCHANGED origem

(* The garage.  Deleting a spot whose deletion is pending changes nothing. *)
ApagarVaga(v) ==
  /\ Apagar(v)
  /\ IF ctx[v] # Ausente THEN H!ApagarVaga(v) ELSE UNCHANGED varsHome
  /\ UNCHANGED origem

FichaDe(v) == [chave |-> ChaveDe[v], valor |-> PrecoDe[v]]

InserirVaga(v) ==
  /\ NovaVaga(v, FichaDe(v))
  /\ H!InserirVaga(v)
  /\ UNCHANGED origem

(* A request is confirmed for what the home screen handed over.            *)
Confirmar(r) ==
  /\ ConfirmarPedido(r)
  /\ origem' = [origem EXCEPT ![r] =
       [escolhida |-> entregue.escolhida,
        apagada |-> entregue.escolhida # Nulo /\ entregue.escolhida.vaga \in apagadas]]
  /\ UNCHANGED varsHome

(* Steps of the booking flow alone.                                        *)
SoReservas ==
  /\ \/ Prosseguir \/ RecusarSemCartao \/ SalvarCartaoIncompleto
     \/ FecharFolha \/ VoltarNaFolha
     \/ OkPreencha \/ CadastrarCartao \/ VoltarSemCartao \/ OkDecidida \/ SegundoPlano
     \/ \E h \in 0..MaxHoras : DefinirHora(h)
     \/ \E b \in BOOLEAN : Digitar(b)
     \/ \E r \in Requisicoes : AbrirConfirmacao(r) \/ AbrirSolicitacao(r) \/ ResponderPerfil(r)
     \/ \E e \in Decisoes : Decidir(e)
     \/ \E k \in Cartoes : SalvarCartao(k) \/ Apagar(k)
     \/ \E k \in Cartoes \cup {Nulo} : AbrirCartao(k)
     \/ \E f \in {"garagem", "confirmacoes", "historico", "pagamento"} : AbrirFolha(f)
  /\ UNCHANGED <<varsHome, origem>>

Encerrado == ~Aberto /\ UNCHANGED varsParken

NextParken ==
  \/ /\ quedaHome = "nenhuma"
     /\ \/ TocarHome \/ ResponderHome
        \/ \E e \in Enderecos : BuscarPerto(e)
        \/ Requisitar \/ CairAoRequisitar \/ VoltarDoPedido
        \/ \E v \in Vagas : ApagarVaga(v) \/ InserirVaga(v)
        \/ \E r \in Requisicoes : Confirmar(r)
        \/ SoReservas
  \/ Encerrado

SpecParken == InitParken /\ [][NextParken]_varsParken

-----------------------------------------------------------------------------
(* With ids that are unique and are those of the fields, a request the     *)
(* owner sees is for the spot the user chose and at its price, unless that *)
(* spot had been deleted when the form was opened, which then opens on     *)
(* another one (prepare, HomeViewController:742-760, RequestViewController *)
(* :71 and :93, CheckoutVagaViewController:158-159): late answers, new     *)
(* searches, returns, deletions and failed saves in between change         *)
(* neither.                                                                *)
DaEscolhida(r) ==
  LET v == origem[r].escolhida.vaga
  IN ctx[r].id = ChaveDe[v] /\ ctx[r].valorTotal = PrecoDe[v] * ctx[r].qtdHoras

PedidoDaEscolhida ==
  H!IdsFieis =>
    \A r \in Requisicoes :
      Respondida(ctx[r]) /\ origem[r].escolhida # Nulo => DaEscolhida(r) \/ origem[r].apagada

(* Whatever the ids, a request the owner sees asks for a spot of the       *)
(* garage, by the id of its fields, or some spot was deleted: only then    *)
(* does it ask for the deleted one, for the standard id read from an       *)
(* object that is gone, or for none (RequestViewController:48-76,          *)
(* HomeViewController:747-760).                                            *)
PedidoTemVaga ==
  \A r \in Requisicoes : Respondida(ctx[r]) =>
    \/ \E v \in VagasEm(ctx) : ctx[r].id = ChaveDe[v]
    \/ \E v \in apagadas : ctx[r].id \in {ChaveDe[v], ChavePadrao, ChaveNula}

(* The spots of the composition live as those of the garage do.            *)
AcervoParken == [v \in Vagas |-> ctx[v]]
AP == INSTANCE AcervoVagas WITH Campos <- RegistrosVaga, acervo <- AcervoParken
SegueAcervo == AP!Spec
=============================================================================
