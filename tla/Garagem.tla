------------------------------ MODULE Garagem ------------------------------
(***************************************************************************)
(* The owner's garage, a sheet with a navigation stack of its own:         *)
(* VagasTableViewController (the list), NovaVagaViewController (the form), *)
(* VisualizarVagaViewController (one spot) and                             *)
(* AtualizarFrequenciaViewController (its week).                           *)
(*                                                                         *)
(* A spot is registered by the answer of the geocoder, whatever page is    *)
(* shown by then: its id, price and week are those of the touch on         *)
(* "Salvar", its other fields those of the form at the answer.  Nothing    *)
(* stops a second touch while an answer is awaited.  A deletion whose save *)
(* fails stays pending, and the next save of any screen commits it below   *)
(* the row that still shows the spot.                                      *)
(***************************************************************************)
EXTENDS Naturals

CONSTANTS
  Vagas,         \* pool of managed objects of the entity Vaga
  Campos,        \* what can fill in the form, each with its id
  Vazio,         \* the form with a field left empty
  Ausente,       \* the object does not exist
  Nulo,          \* nil
  MaxToques,     \* bound: touches on "Salvar" that ask the geocoder
  MaxFalhas,     \* bound: saves that fail
  MaxReinicios   \* bound: how many times the app is started again

ASSUME VazioAssumption == Vazio \notin Campos
ASSUME NuloAssumption == Nulo \notin Vagas
ASSUME LimitesAssumption == MaxToques \in Nat /\ MaxFalhas \in Nat /\ MaxReinicios \in Nat

Formularios == Campos \cup {Vazio}
Registros == [id : Campos, campos : Formularios, frequencia : BOOLEAN]
ASSUME AusenteAssumption == Ausente \notin Registros \cup (Campos \X Formularios)

VARIABLES
  ctx, store,    \* the managed object context and the SQLite store
  pagina,        \* the page on top of the sheet, "fora" without a sheet
  linhas,        \* VagasTableViewController.vagas
  aberta,        \* VisualizarVagaViewController.vaga
  formulario,    \* the fields of the form on the stack, if there is one
  pedidos,       \* geocodings under way, with the fields of their form
  alerta,        \* an alert is shown
  queda,         \* why the process ended, "nenhuma" while it runs
  apagadas,      \* spots deleted by this process
  editou,        \* a form was ever edited while its answer was awaited
  toques, falhas, reinicios

persistencia == <<ctx, store, falhas>>
telas == <<pagina, linhas, aberta, formulario, alerta>>
vars == <<ctx, store, pagina, linhas, aberta, formulario, pedidos, alerta, queda, apagadas, editou,
          toques, falhas, reinicios>>

(* A geocoding, by the touch behind it: what the touch captured, the form  *)
(* it will read, and whether that form is still on the stack.              *)
Pedidos == [n : 1..MaxToques, id : Campos, frequencia : BOOLEAN, campos : Formularios, naPilha : BOOLEAN]

Existentes(c) == {v \in Vagas : c[v] # Ausente}

(* A new object was never there, nor is it one that a page still shows.    *)
Novo(v) == ctx[v] = Ausente /\ store[v] = Ausente /\ v \notin apagadas

(* Mutant: only the object at hand is saved.                               *)
GravarSo(c) ==
  /\ ctx' = c
  /\ \/ store' = [v \in Vagas |-> IF c[v] # ctx[v] THEN c[v] ELSE store[v]] /\ UNCHANGED falhas
     \/ falhas < MaxFalhas /\ falhas' = falhas + 1 /\ UNCHANGED store

(* Mutant: the save runs before the change is made.                        *)
GravarAntes(c) ==
  /\ ctx' = c
  /\ \/ store' = ctx /\ UNCHANGED falhas
     \/ falhas < MaxFalhas /\ falhas' = falhas + 1 /\ UNCHANGED store

(* Make the change, then managedContext.save().                            *)
Gravar(c) ==
  /\ ctx' = c
  /\ \/ store' = c /\ UNCHANGED falhas
     \/ falhas < MaxFalhas /\ falhas' = falhas + 1 /\ UNCHANGED store

NaPagina(p) == queda = "nenhuma" /\ ~alerta /\ pagina = p

(* A form that leaves the stack lives on in the closures that captured it. *)
SemForm == {[p EXCEPT !.naPilha = FALSE] : p \in pedidos}

Init ==
  /\ ctx \in [Vagas -> {[id |-> c, campos |-> c, frequencia |-> TRUE] : c \in Campos} \cup {Ausente}]
  /\ store = ctx
  /\ pagina = "fora" /\ linhas = {} /\ aberta = Nulo /\ formulario = Vazio
  /\ pedidos = {} /\ alerta = FALSE /\ queda = "nenhuma"
  /\ apagadas = {} /\ editou = FALSE
  /\ toques = 0 /\ falhas = 0 /\ reinicios = 0

-----------------------------------------------------------------------------
(* The list.                                                               *)

(* The list appears (viewWillAppear): its rows are fetched again.          *)
Listar(c) ==
  /\ pagina' = "lista" /\ aberta' = Nulo /\ formulario' = Vazio
  /\ linhas' = Existentes(c)

AbrirGaragem ==
  /\ NaPagina("fora")
  /\ Listar(ctx)
  /\ UNCHANGED <<persistencia, pedidos, alerta, queda, apagadas, editou, toques, reinicios>>

(* The sheet is swiped away with all its pages.                            *)
FecharGaragem ==
  /\ queda = "nenhuma" /\ ~alerta /\ pagina # "fora"
  /\ pagina' = "fora" /\ linhas' = {} /\ aberta' = Nulo /\ formulario' = Vazio
  /\ pedidos' = SemForm
  /\ UNCHANGED <<persistencia, alerta, queda, apagadas, editou, toques, reinicios>>

(* Mutant: the row is left to the next fetch.                              *)
LinhasComApagada(v) == linhas

(* The row goes only if the save succeeds.                                 *)
LinhasSem(v) == IF falhas' = falhas THEN linhas \ {v} ELSE linhas

(* Deleting a row.                                                         *)
ApagarVaga(v) ==
  /\ NaPagina("lista") /\ v \in linhas
  /\ Gravar([ctx EXCEPT ![v] = Ausente])
  /\ apagadas' = apagadas \cup {v}
  /\ linhas' = LinhasSem(v)
  /\ UNCHANGED <<pagina, aberta, formulario, pedidos, alerta, queda, editou, toques, reinicios>>

-----------------------------------------------------------------------------
(* One spot and its week.                                                  *)

(* A deleted object reads as before until a save commits its deletion, and *)
(* as nil afterwards; both pages unwrap the week (`freq!`, `as!`).         *)
SemSemana(v) == ctx[v] = Ausente /\ store[v] = Ausente

VisualizarVaga(v) ==
  /\ NaPagina("lista") /\ v \in linhas
  /\ pagina' = "ver" /\ aberta' = v
  /\ queda' = IF SemSemana(v) THEN "ver" ELSE "nenhuma"
  /\ UNCHANGED <<persistencia, linhas, formulario, pedidos, alerta, apagadas, editou, toques, reinicios>>

AbrirFrequencia ==
  /\ NaPagina("ver")
  /\ pagina' = "frequencia"
  /\ queda' = IF SemSemana(aberta) THEN "frequencia" ELSE "nenhuma"
  /\ UNCHANGED <<persistencia, linhas, aberta, formulario, pedidos, alerta, apagadas, editou, toques, reinicios>>

(* Mutant: the week of a spot whose deletion is pending brings it back.    *)
ComFrequenciaMesmoApagada(v, f) ==
  IF ctx[v] = Ausente
  THEN IF store[v] = Ausente THEN ctx ELSE [ctx EXCEPT ![v] = [store[v] EXCEPT !.frequencia = f]]
  ELSE [ctx EXCEPT ![v].frequencia = f]

(* Setting the week of a deleted object leaves it deleted.                 *)
ComFrequencia(v, f) ==
  IF ctx[v] = Ausente THEN ctx ELSE [ctx EXCEPT ![v].frequencia = f]

(* AtualizarFrequencia.confirmar: the week is saved, the list comes back.  *)
ConfirmarFrequencia(f) ==
  /\ NaPagina("frequencia")
  /\ Gravar(ComFrequencia(aberta, f))
  /\ Listar(ctx')
  /\ UNCHANGED <<pedidos, alerta, queda, apagadas, editou, toques, reinicios>>

(* The back buttons.                                                       *)
Voltar ==
  /\ queda = "nenhuma" /\ ~alerta
  /\ \/ pagina = "frequencia" /\ pagina' = "ver" /\ UNCHANGED <<linhas, aberta, formulario, pedidos>>
     \/ pagina = "ver" /\ Listar(ctx) /\ UNCHANGED pedidos
     \/ pagina = "nova" /\ Listar(ctx) /\ pedidos' = SemForm
  /\ UNCHANGED <<persistencia, alerta, queda, apagadas, editou, toques, reinicios>>

-----------------------------------------------------------------------------
(* The form.                                                               *)
AbrirNova ==
  /\ NaPagina("lista")
  /\ pagina' = "nova"
  /\ UNCHANGED <<persistencia, linhas, aberta, formulario, pedidos, alerta, queda, apagadas, editou, toques, reinicios>>

(* The user may fill the form in, or change it, also while an answer to it *)
(* is awaited, which will then read what it holds.                         *)
Preencher(c) ==
  /\ NaPagina("nova")
  /\ formulario' = c
  /\ pedidos' = {IF p.naPilha THEN [p EXCEPT !.campos = c] ELSE p : p \in pedidos}
  /\ editou' = (editou \/ \E p \in pedidos : p.naPilha /\ p.campos # c)
  /\ UNCHANGED <<persistencia, pagina, linhas, aberta, alerta, queda, apagadas, toques, reinicios>>

(* Mutant: the empty fields are not looked for.                            *)
CompletoSempre(c) == TRUE

Completo(c) == c # Vazio

PedidoDe(f) == [n |-> toques + 1, id |-> formulario, frequencia |-> f, campos |-> formulario, naPilha |-> TRUE]

(* "Salvar" with a complete form asks the geocoder and changes nothing on  *)
(* screen.                                                                 *)
Salvar(f) ==
  /\ NaPagina("nova") /\ Completo(formulario)
  /\ toques < MaxToques
  /\ toques' = toques + 1
  /\ pedidos' = pedidos \cup {PedidoDe(f)}
  /\ UNCHANGED <<persistencia, telas, queda, apagadas, editou, reinicios>>

(* ... with an empty field it shows "Preencha todos os campos".            *)
SalvarIncompleto ==
  /\ NaPagina("nova") /\ ~Completo(formulario)
  /\ alerta' = TRUE
  /\ UNCHANGED <<persistencia, pagina, linhas, aberta, formulario, pedidos, queda, apagadas, editou,
                 toques, reinicios>>

(* ... with a price such as "1,50" it traps (`Double(txtPreco.text!)!`).   *)
SalvarPrecoInvalido ==
  /\ NaPagina("nova") /\ Completo(formulario)
  /\ queda' = "preco"
  /\ UNCHANGED <<persistencia, telas, pedidos, apagadas, editou, toques, reinicios>>

Ok ==
  /\ queda = "nenhuma" /\ alerta
  /\ alerta' = FALSE
  /\ UNCHANGED <<persistencia, pagina, linhas, aberta, formulario, pedidos, queda, apagadas, editou,
                 toques, reinicios>>

-----------------------------------------------------------------------------
(* The answers of the geocoder, on any page.                               *)

(* Mutant: the closure reads the form on screen instead of its own.        *)
RegistroDaTela(p) == [id |-> p.id, campos |-> formulario, frequencia |-> p.frequencia]

RegistroDe(p) == [id |-> p.id, campos |-> p.campos, frequencia |-> p.frequencia]

(* Mutant: the closure pops whatever page of the sheet is on top.          *)
DepoisDeGravarSempre(p, c) ==
  IF pagina = "nova" THEN Listar(c) /\ pedidos' = {[q EXCEPT !.naPilha = FALSE] : q \in pedidos \ {p}}
  ELSE pedidos' = pedidos \ {p} /\ UNCHANGED <<pagina, linhas, aberta, formulario>>

(* popViewController: a form that left the stack has no navigation         *)
(* controller any more, and pops nothing.                                  *)
DepoisDeGravar(p, c) ==
  IF p.naPilha THEN Listar(c) /\ pedidos' = {[q EXCEPT !.naPilha = FALSE] : q \in pedidos \ {p}}
  ELSE pedidos' = pedidos \ {p} /\ UNCHANGED <<pagina, linhas, aberta, formulario>>

Responder(p, v) ==
  /\ queda = "nenhuma"
  /\ p \in pedidos /\ Novo(v)
  /\ Gravar([ctx EXCEPT ![v] = RegistroDe(p)])
  /\ DepoisDeGravar(p, ctx')
  /\ UNCHANGED <<alerta, queda, apagadas, editou, toques, reinicios>>

(* No place found, or no network: an alert, if the form is there to show   *)
(* it and shows none yet.                                                  *)
Recusar(p) ==
  /\ queda = "nenhuma"
  /\ p \in pedidos
  /\ pedidos' = pedidos \ {p}
  /\ alerta' = (alerta \/ p.naPilha)
  /\ UNCHANGED <<persistencia, pagina, linhas, aberta, formulario, queda, apagadas, editou, toques, reinicios>>

-----------------------------------------------------------------------------
(* The rest of the app and the system.                                     *)

(* A save of another screen, or of an answer it awaited, writes the spots  *)
(* too.                                                                    *)
GravarEmOutraTela ==
  /\ queda = "nenhuma"
  /\ Gravar(ctx)
  /\ UNCHANGED <<telas, pedidos, queda, apagadas, editou, toques, reinicios>>

(* sceneDidEnterBackground: saveContext ends the process when it fails.    *)
SegundoPlano ==
  /\ queda = "nenhuma"
  /\ Gravar(ctx)
  /\ queda' = IF falhas' = falhas THEN "nenhuma" ELSE "salvar"
  /\ UNCHANGED <<telas, pedidos, apagadas, editou, toques, reinicios>>

(* The process ends, or ended, and the app is started again.               *)
Reiniciar ==
  /\ reinicios < MaxReinicios
  /\ reinicios' = reinicios + 1
  /\ ctx' = store
  /\ pagina' = "fora" /\ linhas' = {} /\ aberta' = Nulo /\ formulario' = Vazio
  /\ pedidos' = {} /\ alerta' = FALSE /\ queda' = "nenhuma" /\ apagadas' = {}
  /\ UNCHANGED <<store, editou, toques, falhas>>

FicarFechado == queda # "nenhuma" /\ UNCHANGED vars

-----------------------------------------------------------------------------
Usuario ==
  \/ AbrirGaragem \/ FecharGaragem \/ Voltar \/ AbrirNova \/ AbrirFrequencia
  \/ SalvarIncompleto \/ SalvarPrecoInvalido \/ Ok
  \/ \E v \in Vagas : ApagarVaga(v) \/ VisualizarVaga(v)
  \/ \E c \in Formularios : Preencher(c)
  \/ \E f \in BOOLEAN : Salvar(f) \/ ConfirmarFrequencia(f)

Geocoder == \E p \in pedidos : Recusar(p) \/ \E v \in Vagas : Responder(p, v)

Next == Usuario \/ Geocoder \/ GravarEmOutraTela \/ SegundoPlano \/ Reiniciar \/ FicarFechado

Spec == Init /\ [][Next]_vars

-----------------------------------------------------------------------------
(* Type invariant.                                                         *)
TypeOK ==
  /\ ctx \in [Vagas -> Registros \cup {Ausente}] /\ store \in [Vagas -> Registros \cup {Ausente}]
  /\ pagina \in {"fora", "lista", "nova", "ver", "frequencia"}
  /\ linhas \subseteq Vagas
  /\ aberta \in Vagas \cup {Nulo} /\ (aberta = Nulo <=> pagina \notin {"ver", "frequencia"})
  /\ formulario \in Formularios /\ pedidos \subseteq Pedidos
  /\ alerta \in BOOLEAN /\ editou \in BOOLEAN
  /\ queda \in {"nenhuma", "preco", "ver", "frequencia", "salvar"}
  /\ apagadas \subseteq Vagas
  /\ toques \in 0..MaxToques /\ falhas \in 0..MaxFalhas /\ reinicios \in 0..MaxReinicios

(* Whatever the order of answers, forms and relaunches, the id of a spot   *)
(* is that of its fields, in memory and in the store, unless a form was    *)
(* edited while its own answer was awaited (NovaVaga:82 and :103-117).     *)
(* Bookings and confirmations find spots by it.                            *)
IdDosCampos ==
  editou \/ \A v \in Vagas : \A r \in {ctx[v], store[v]} \ {Ausente} : r.id = r.campos

(* A row or a page shows a spot that is not in the context, or traps on    *)
(* its week, only if a save failed (VagasTable:94-101, VisualizarVaga:44,  *)
(* AtualizarFrequencia:28): a deletion that is saved takes its row along.  *)
Mostradas == linhas \cup ({aberta} \ {Nulo})

FantasmaTemMotivo ==
  falhas = 0 => Mostradas \subseteq Existentes(ctx) /\ queda \notin {"ver", "frequencia"}

(* As long as no save has failed, memory and store hold the same spots:    *)
(* every handler of the garage saves before it leaves its page, whatever   *)
(* the order of touches and answers (VagasTable:97, NovaVaga:203,          *)
(* AtualizarFrequencia:72), so only a failure can lose a spot, or bring a  *)
(* deleted one back, when the app starts again.                            *)
SoFalhaAtrasa == falhas = 0 => store = ctx

(* An answer that takes a page away takes the form it has registered, as   *)
(* it stands on screen, never another page nor a newer form                *)
(* (NovaVaga:123).                                                         *)
TiraSoOQueGravou ==
  [][\A v \in Vagas : ctx[v] = Ausente /\ ctx'[v] # Ausente /\ pagina' # pagina /\ reinicios' = reinicios
       => pagina = "nova" /\ ctx'[v].campos = formulario]_vars

(* The garage keeps to the discipline of the shared context.               *)
CG == INSTANCE ContextoGerenciado WITH Objetos <- Vagas, Valores <- Registros
SegueContexto == CG!Spec

(* Spots appear once, keep their id and fields, and vanish for good, as    *)
(* the home screen relies on.                                              *)
Acervo == [v \in Vagas |-> IF ctx[v] = Ausente THEN Ausente ELSE <<ctx[v].id, ctx[v].campos>>]
AV == INSTANCE AcervoVagas WITH Campos <- Campos \X Formularios, acervo <- Acervo
SegueAcervo == AV!Spec
=============================================================================
