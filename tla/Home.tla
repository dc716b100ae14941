-------------------------------- MODULE Home --------------------------------
(***************************************************************************)
(* The home screen: searching an address, the spots near it and the choice *)
(* of one (HomeViewController, its three steps in one page, with           *)
(* HereSdkController for the map and the address service).                 *)
(*                                                                         *)
(* Two kinds of questions are answered late and in any order, whatever the *)
(* page shows by then: the suggestions for what was typed, and one reverse *)
(* geocoding per spot of a search.  Nothing ties an answer to the search   *)
(* that asked.  A table keeps the rows of its last reloadData, while a tap *)
(* on a row indexes the list as it is now.                                 *)
(***************************************************************************)
EXTENDS Integers, Sequences

CONSTANTS
  Vagas,       \* pool of spots (managed objects of the entity Vaga)
  Enderecos,   \* addresses one can search
  Textos,      \* texts one can type (or favourites one can tap)
  Perto,       \* address -> the spots at most 1000 m away
  IdGravado,   \* spot -> its attribute "id"
  IdMontado,   \* spot -> the id put together from its rua, numero, cep, titulo
  Nulo,        \* nil
  MaxBuscas    \* bound: how many searches are made

(* The ids are ordered, as the strings are: the spots are fetched sorted.  *)
ASSUME IdsAssumption == IdGravado \in [Vagas -> Nat] /\ IdMontado \in [Vagas -> Nat]
ASSUME PertoAssumption == Perto \in [Enderecos -> SUBSET Vagas]
ASSUME NuloAssumption == Nulo \notin Vagas \cup Textos
ASSUME BuscasAssumption == MaxBuscas \in Nat

VARIABLES
  passo,             \* the step shown: 1 search, 2 spots nearby, 3 spot chosen
  isSearching,
  isPopupOpen,
  pesquisas,         \* texts whose suggestions are awaited
  sugestoes,         \* suggestAddressList, by the text it answers (Nulo: empty)
  linhasSugestao,    \* the rows of suggestAddressTable (Nulo: none)
  destino,           \* destineLocateMapMarker, by its search (0: nil)
  mapa,              \* the markers on the map
  vagas,             \* HomeViewController.vagas
  geocodificando,    \* reverse geocodings under way, with what they captured
  parkingLocateList,
  linhas,            \* the rows of parkingLocateTable
  selecionada,       \* indexPathForSelectedRow (0: nil)
  parkChoosed,       \* the model shown by step 3
  pagina,            \* "home", or "request" when the form covers it
  entregue,          \* what prepare handed over, and for which model
  queda,             \* the trap that ended the process, "nenhuma" while it runs
  existentes,        \* the spots in the managed object context
  apagadas,          \* the spots deleted from it
  buscas             \* how many searches were made

pesquisa == <<isSearching, pesquisas, sugestoes, linhasSugestao>>
tabela == <<parkingLocateList, linhas, selecionada>>
garagem == <<existentes, apagadas>>
vars == <<passo, isSearching, isPopupOpen, pesquisas, sugestoes, linhasSugestao, destino, mapa, vagas,
          geocodificando, parkingLocateList, linhas, selecionada, parkChoosed, pagina, entregue,
          queda, existentes, apagadas, buscas>>

(* A model of the list, and its marker: one per search and spot.  The      *)
(* marker of a destination is known by its search.                         *)
Modelos == [busca : 1..MaxBuscas, vaga : Vagas]
Marcadores == [tipo : {"vaga", "destino"}, busca : 1..MaxBuscas, vaga : Vagas \cup {Nulo}]
MarcadorVaga(m) == [tipo |-> "vaga", busca |-> m.busca, vaga |-> m.vaga]
MarcadorDestino(n) == [tipo |-> "destino", busca |-> n, vaga |-> Nulo]
MarcadoresVaga(lista) == {MarcadorVaga(lista[i]) : i \in DOMAIN lista}

SemEntrega == [escolhida |-> Nulo, vaga |-> Nulo]

NaHome(s) == queda = "nenhuma" /\ pagina = "home" /\ passo \in s

Init ==
  /\ passo = 1 /\ isSearching = FALSE /\ isPopupOpen = FALSE
  /\ pesquisas = {} /\ sugestoes = Nulo /\ linhasSugestao = Nulo
  /\ destino = 0 /\ mapa = {}
  /\ vagas = {} /\ geocodificando = {}
  /\ parkingLocateList = <<>> /\ linhas = <<>> /\ selecionada = 0 /\ parkChoosed = Nulo
  /\ pagina = "home" /\ entregue = SemEntrega /\ queda = "nenhuma"
  /\ existentes \in SUBSET Vagas /\ apagadas = {}
  /\ buscas = 0

-----------------------------------------------------------------------------
(* goToStep.                                                               *)

(* Step 1 cleans the map and the list of spots, but does not reload the    *)
(* table, which keeps its rows and its selection.                          *)
IrAoPrimeiro ==
  /\ passo' = 1 /\ isSearching' = FALSE /\ isPopupOpen' = FALSE
  /\ mapa' = mapa \ (MarcadoresVaga(parkingLocateList) \cup {MarcadorDestino(destino)})
  /\ parkingLocateList' = <<>>
  /\ destino' = 0

(* Mutant: the table of suggestions is not reloaded.                       *)
IrAoSegundoSemRecarregar ==
  passo' = 2 /\ isSearching' = FALSE /\ sugestoes' = Nulo /\ UNCHANGED linhasSugestao

IrAoSegundo ==
  passo' = 2 /\ isSearching' = FALSE /\ sugestoes' = Nulo /\ linhasSugestao' = Nulo

-----------------------------------------------------------------------------
(* First step.  A text typed, or a favourite tapped, asks for suggestions; *)
(* an empty text closes the panel.                                         *)
Digitar(q) ==
  /\ NaHome({1})
  /\ isSearching' = TRUE /\ isPopupOpen' = TRUE
  /\ pesquisas' = pesquisas \cup {q}
  /\ UNCHANGED <<passo, sugestoes, linhasSugestao, destino, mapa, vagas, geocodificando, tabela,
                 parkChoosed, pagina, entregue, queda, garagem, buscas>>

ApagarTexto ==
  /\ NaHome({1})
  /\ isSearching' = FALSE /\ isPopupOpen' = FALSE
  /\ UNCHANGED <<passo, pesquisas, sugestoes, linhasSugestao, destino, mapa, vagas, geocodificando,
                 tabela, parkChoosed, pagina, entregue, queda, garagem, buscas>>

(* togglePopupClick, and dismissPopupClick when the panel is open.         *)
AlternarPainel ==
  /\ NaHome({1, 2, 3})
  /\ isPopupOpen' = ~isPopupOpen
  /\ UNCHANGED <<passo, pesquisa, destino, mapa, vagas, geocodificando, tabela, parkChoosed, pagina,
                 entregue, queda, garagem, buscas>>

(* The answer takes the place of the list, whatever was typed since; the   *)
(* table shows rows only while a search is being typed.                    *)
ResponderSugestoes(q) ==
  /\ queda = "nenhuma"
  /\ q \in pesquisas
  /\ pesquisas' = pesquisas \ {q}
  /\ sugestoes' = q
  /\ linhasSugestao' = IF isSearching THEN q ELSE Nulo
  /\ UNCHANGED <<passo, isSearching, isPopupOpen, destino, mapa, vagas, geocodificando, tabela,
                 parkChoosed, pagina, entregue, queda, garagem, buscas>>

FalharSugestoes(q) ==
  /\ queda = "nenhuma"
  /\ q \in pesquisas
  /\ pesquisas' = pesquisas \ {q}
  /\ UNCHANGED <<passo, isSearching, isPopupOpen, sugestoes, linhasSugestao, destino, mapa, vagas,
                 geocodificando, tabela, parkChoosed, pagina, entregue, queda, garagem, buscas>>

-----------------------------------------------------------------------------
(* Second step: loadParkingLocateNear.  The list is emptied, neither its   *)
(* markers nor the table's rows are; the spots are fetched and each one's  *)
(* address is asked for, the distance captured.                            *)
Perguntas(n, e) == [busca : {n}, vaga : existentes \cap Perto[e], perto : {TRUE}]
                     \cup [busca : {n}, vaga : existentes \ Perto[e], perto : {FALSE}]

BuscarPerto(e) ==
  /\ buscas < MaxBuscas
  /\ buscas' = buscas + 1
  /\ IrAoSegundo
  /\ destino' = buscas'
  /\ mapa' = (mapa \ {MarcadorDestino(destino)}) \cup {MarcadorDestino(buscas')}
  /\ parkingLocateList' = <<>>
  /\ vagas' = existentes
  /\ geocodificando' = geocodificando \cup Perguntas(buscas', e)

(* A row of the suggestions is tapped: the list is indexed as it is now.   *)
EscolherSugestao(e) ==
  /\ NaHome({1})
  /\ isSearching /\ isPopupOpen
  /\ linhasSugestao # Nulo
  /\ IF sugestoes = Nulo
     THEN /\ queda' = "indice"
          /\ UNCHANGED <<passo, isSearching, sugestoes, linhasSugestao, destino, mapa, vagas,
                         geocodificando, parkingLocateList, buscas>>
     ELSE BuscarPerto(e) /\ UNCHANGED queda
  /\ UNCHANGED <<isPopupOpen, pesquisas, linhas, selecionada, parkChoosed, pagina, entregue, garagem>>

(* Mutant: a model is put first and only its row is inserted in the table. *)
ListarNaFrente(m) ==
  /\ parkingLocateList' = <<m>> \o parkingLocateList
  /\ mapa' = mapa \cup MarcadoresVaga(parkingLocateList')
  /\ linhas' = parkingLocateList'
  /\ UNCHANGED selecionada

(* Mutant: the table is reloaded before the model is added.                *)
ListarDepoisDeRecarregar(m) ==
  /\ parkingLocateList' = Append(parkingLocateList, m)
  /\ mapa' = mapa \cup MarcadoresVaga(parkingLocateList')
  /\ linhas' = parkingLocateList /\ selecionada' = 0

(* Mutant: the markers are drawn before the model is added.                *)
ListarSemMarcador(m) ==
  /\ parkingLocateList' = Append(parkingLocateList, m)
  /\ mapa' = mapa \cup MarcadoresVaga(parkingLocateList)
  /\ linhas' = parkingLocateList' /\ selecionada' = 0

(* addParkingFound's answer for a spot that is near: its model is added to *)
(* whatever list there is, the markers of all are drawn, the table reloads *)
(* (and loses its selection).                                              *)
Listar(m) ==
  /\ parkingLocateList' = Append(parkingLocateList, m)
  /\ mapa' = mapa \cup MarcadoresVaga(parkingLocateList')
  /\ linhas' = parkingLocateList' /\ selecionada' = 0

ResponderEndereco(g) ==
  /\ queda = "nenhuma"
  /\ g \in geocodificando
  /\ geocodificando' = geocodificando \ {g}
  /\ IF g.perto
     THEN Listar([busca |-> g.busca, vaga |-> g.vaga])
     ELSE linhas' = parkingLocateList /\ selecionada' = 0 /\ UNCHANGED <<parkingLocateList, mapa>>
  /\ UNCHANGED <<passo, pesquisa, isPopupOpen, destino, vagas, parkChoosed, pagina, entregue, queda,
                 garagem, buscas>>

FalharEndereco(g) ==
  /\ queda = "nenhuma"
  /\ g \in geocodificando
  /\ geocodificando' = geocodificando \ {g}
  /\ UNCHANGED <<passo, pesquisa, isPopupOpen, destino, mapa, vagas, tabela, parkChoosed, pagina,
                 entregue, queda, garagem, buscas>>

VoltarAoPrimeiro ==
  /\ NaHome({2})
  /\ IrAoPrimeiro
  /\ UNCHANGED <<pesquisas, sugestoes, linhasSugestao, vagas, geocodificando, linhas, selecionada,
                 parkChoosed, pagina, entregue, queda, garagem, buscas>>

(* A row of the spots is tapped: the list is indexed as it is now.         *)
EscolherVaga(i) ==
  /\ NaHome({2})
  /\ i \in DOMAIN linhas
  /\ selecionada' = i
  /\ IF i \in DOMAIN parkingLocateList
     THEN passo' = 3 /\ parkChoosed' = parkingLocateList[i] /\ UNCHANGED queda
     ELSE queda' = "indice" /\ UNCHANGED <<passo, parkChoosed>>
  /\ UNCHANGED <<pesquisa, isPopupOpen, destino, mapa, vagas, geocodificando, parkingLocateList,
                 linhas, pagina, entregue, garagem, buscas>>

-----------------------------------------------------------------------------
(* Third step.                                                             *)
VoltarAoSegundo ==
  /\ NaHome({3})
  /\ IrAoSegundo
  /\ UNCHANGED <<isPopupOpen, pesquisas, destino, mapa, vagas, geocodificando, tabela, parkChoosed,
                 pagina, entregue, queda, garagem, buscas>>

(* prepare(requestSegue) looks among the spots of the last search for the  *)
(* stored id that is the chosen model's.  The loop keeps the spot it looks *)
(* at before it compares, so without a match the last one is left, or nil  *)
(* when there is none.  A spot deleted since has no id to read, or still   *)
(* has it if the deletion was not saved.                                   *)
Ultimas == {w \in vagas : \A x \in vagas : IdGravado[x] <= IdGravado[w]}

(* Mutant: the form is handed the id, not the spot.                        *)
VagasFinaisPeloId(id) == {id}

(* Mutant: without a match the form is handed nothing.                     *)
VagasFinaisOuNil(id) ==
  LET iguais == {w \in vagas : IdGravado[w] = id}
  IN iguais \cup IF iguais \cap existentes = {} THEN {Nulo} ELSE {}

(* Mutant: the loop never stops.                                           *)
VagasFinaisSemBreak(id) == IF vagas = {} THEN {Nulo} ELSE Ultimas

VagasFinais(id) ==
  LET iguais == {w \in vagas : IdGravado[w] = id}
      semIgual == IF vagas = {} THEN {Nulo} ELSE Ultimas
  IN iguais \cup IF iguais \cap existentes = {} THEN semIgual ELSE {}

(* The button performs the segue, whose prepare needs a selected row, and  *)
(* requestParkClick, which goes back to the first step.                    *)
Requisitar ==
  /\ NaHome({3})
  /\ IF selecionada \in DOMAIN parkingLocateList
     THEN /\ \E v \in VagasFinais(IdMontado[parkingLocateList[selecionada].vaga]) :
               entregue' = [escolhida |-> parkChoosed, vaga |-> v]
          /\ pagina' = "request"
          /\ IrAoPrimeiro
          /\ UNCHANGED queda
     ELSE /\ queda' = IF selecionada = 0 THEN "semSelecao" ELSE "indice"
          /\ UNCHANGED <<passo, isSearching, isPopupOpen, destino, mapa, parkingLocateList, pagina, entregue>>
  /\ UNCHANGED <<pesquisas, sugestoes, linhasSugestao, vagas, geocodificando, linhas, selecionada,
                 parkChoosed, garagem, buscas>>

VoltarDoPedido ==
  /\ queda = "nenhuma" /\ pagina = "request"
  /\ pagina' = "home"
  /\ entregue' = SemEntrega
  /\ UNCHANGED <<passo, pesquisa, isPopupOpen, destino, mapa, vagas, geocodificando, tabela,
                 parkChoosed, queda, garagem, buscas>>

-----------------------------------------------------------------------------
(* The garage, a sheet over any step: spots are deleted from its list, and *)
(* inserted by the answer of its geocoder, on any page.                    *)
ApagarVaga(v) ==
  /\ NaHome({1, 2, 3})
  /\ v \in existentes
  /\ existentes' = existentes \ {v}
  /\ apagadas' = apagadas \cup {v}
  /\ UNCHANGED <<passo, pesquisa, isPopupOpen, destino, mapa, vagas, geocodificando, tabela,
                 parkChoosed, pagina, entregue, queda, buscas>>

InserirVaga(v) ==
  /\ queda = "nenhuma"
  /\ v \notin existentes \cup apagadas
  /\ existentes' = existentes \cup {v}
  /\ UNCHANGED <<passo, pesquisa, isPopupOpen, destino, mapa, vagas, geocodificando, tabela,
                 parkChoosed, pagina, entregue, queda, apagadas, buscas>>

(* An app that trapped stays closed.                                       *)
FicarFechado == queda # "nenhuma" /\ UNCHANGED vars

-----------------------------------------------------------------------------
Next ==
  \/ \E q \in Textos : Digitar(q) \/ ResponderSugestoes(q) \/ FalharSugestoes(q)
  \/ ApagarTexto \/ AlternarPainel
  \/ \E e \in Enderecos : EscolherSugestao(e)
  \/ \E g \in geocodificando : ResponderEndereco(g) \/ FalharEndereco(g)
  \/ \E i \in DOMAIN linhas : EscolherVaga(i)
  \/ VoltarAoPrimeiro \/ VoltarAoSegundo \/ Requisitar \/ VoltarDoPedido
  \/ \E v \in Vagas : ApagarVaga(v) \/ InserirVaga(v)
  \/ FicarFechado

Spec == Init /\ [][Next]_vars

-----------------------------------------------------------------------------
Escolhas == Modelos \cup {Nulo}

(* Type invariant.                                                         *)
ListasOK == parkingLocateList \in Seq(Modelos) /\ linhas \in Seq(Modelos)

PainelOK == isSearching \in BOOLEAN /\ isPopupOpen \in BOOLEAN

TypeOK ==
  /\ ListasOK /\ PainelOK
  /\ passo \in 1..3
  /\ pesquisas \subseteq Textos
  /\ sugestoes \in Textos \cup {Nulo} /\ linhasSugestao \in Textos \cup {Nulo}
  /\ buscas \in 0..MaxBuscas /\ destino \in 0..MaxBuscas
  /\ mapa \subseteq Marcadores
  /\ vagas \subseteq Vagas /\ existentes \subseteq Vagas /\ apagadas \subseteq Vagas
  /\ geocodificando \subseteq [busca : 1..MaxBuscas, vaga : Vagas, perto : BOOLEAN]
  /\ selecionada \in Nat
  /\ parkChoosed \in Escolhas
  /\ pagina \in {"home", "request"}
  /\ entregue \in [escolhida : Escolhas, vaga : Vagas \cup {Nulo}]
  /\ queda \in {"nenhuma", "indice", "semSelecao"}

(* The map is in step with the search and the list.  It shows the          *)
(* destination of the search on screen and no other: one marker at steps 2 *)
(* and 3, none at step 1, through searches, returns and late answers       *)
(* (goToStep, loadParkingLocateNear, setDestineLocateMarker); and a spot   *)
(* listed has its marker, whichever search its answer came from            *)
(* (addParkingFound).                                                      *)
DestinoNoMapa ==
  {m \in mapa : m.tipo = "destino"} = IF passo = 1 THEN {} ELSE {MarcadorDestino(destino)}

ListadasNoMapa == MarcadoresVaga(parkingLocateList) \subseteq mapa

MapaEmDia == DestinoNoMapa /\ ListadasNoMapa

(* The tables are in step with the lists a tap on them indexes, in spite   *)
(* of answers that come late and in any order.  The rows of the spots may  *)
(* be older than their list only while the list is empty, so that a tap    *)
(* never opens another row's spot (HomeViewController:664); a row of       *)
(* suggestions has its suggestion behind it (:427).                        *)
TabelaEmDia == parkingLocateList # <<>> => linhas = parkingLocateList

SugestoesEmDia == linhasSugestao # Nulo => linhasSugestao = sugestoes

TabelasEmDia == TabelaEmDia /\ SugestoesEmDia

(* The home screen indexes out of range (HomeViewController:427, :664 and  *)
(* :744) in one case only: a row of the spots is tapped after the list was *)
(* emptied and before its first answer; never for a suggestion, nor when   *)
(* the chosen spot is requested.                                           *)
IndiceSoNaListaVazia ==
  queda = "indice" => passo = 2 /\ parkingLocateList = <<>> /\ linhas # <<>>

(* While a spot is shown by step 3, the selected row, which is what        *)
(* prepare reads, is that spot's or none: answers that come meanwhile do   *)
(* not put another one there (HomeViewController:744).                     *)
EscolhidaNaSelecao ==
  passo = 3 /\ selecionada # 0 =>
    selecionada \in DOMAIN parkingLocateList /\ parkingLocateList[selecionada] = parkChoosed

(* With ids that are unique and are those of the fields, the form gets the *)
(* chosen spot, unless that spot was deleted in the garage after it was    *)
(* found: searches made and answered in between do not change it           *)
(* (prepare, HomeViewController:742-760).                                  *)
IdsFieis == IdMontado = IdGravado /\ \A v, w \in Vagas : IdGravado[v] = IdGravado[w] => v = w

EntregaCerta ==
  IdsFieis /\ entregue.escolhida # Nulo =>
    \/ entregue.vaga = entregue.escolhida.vaga
    \/ entregue.escolhida.vaga \in apagadas

(* The home screen keeps its promise to the form.                          *)
Escolha == INSTANCE EscolhaVaga WITH resultado <- vagas, recebida <- entregue.vaga
SegueEscolha == Escolha!Spec

-----------------------------------------------------------------------------
(* What the code says and does not keep (violation runs).                  *)

(* prepare asserts that a row is selected (`indexPathForSelectedRow!`,     *)
(* HomeViewController:744).                                                *)
SelecaoNaReserva == queda # "semSelecao"

(* "Pass the selected object to the new view controller."                  *)
(* (HomeViewController:740).                                               *)
PassaASelecionada == entregue.escolhida # Nulo => entregue.vaga = entregue.escolhida.vaga
=============================================================================
