# Parken in TLA+

Parken is an iOS app in which people rent out their parking spots: a driver
searches an address, chooses a spot nearby and requests it; the owner approves
or rejects the request. This directory holds TLA+ modules that model the app
(`src/client-ios/Parken`), the TLC configurations that check them and the
proofs, checked by TLAPS, of the properties that matter most. Names are those
of the code, in Portuguese where the code is.

## The system

One process, and one thread for all the app's own code. UIKit, Core Data (one
context, `viewContext`), and the callbacks of Firebase and HERE run on the main
thread, so **a handler runs to its end before another starts**; what
interleaves is the user, the answers of the network, the save on entering
background, and the end of the process. There is one exception: FIRAuth
replaces the current user on a work queue of its own, before it queues the
closure that hears of it, also in the middle of a handler (see `Acesso`).
There is no server of its own: the "owner" and the "driver" are the same app
on the same store (the request to `Parking/GetParkingListByPerimeter` only
prints its answer).

| part | state | operations | hard behaviour | what makes it correct |
|---|---|---|---|---|
| context and store (`AppDelegate`, `SceneDelegate`) | the context, the SQLite store | `save()` of every screen, `saveContext` on entering background | a save commits what EVERY screen has pending; a failed one leaves it pending (fatal on entering background); a relaunch drops it | the store changes only as a whole and is never ahead of the memory; nothing is half written |
| booking (`RequestViewController`, `CheckoutVagaViewController`) | form fields, copies of them in the checkout, `validaCartao` | stepper, text fields, button with action and segue, `confirmar`, `save` | a blank request is inserted, then filled by an asynchronous profile read that may come when the page is gone, or never | totals match hours; a confirmed request gets to the owner; no half request reaches a screen that cannot show it |
| confirmations (`ListaConfirmacoesTableViewController`, `ConfirmarVagaViewController`) | listed requests, `vagaSelec`, request and spot of the page | appear, render rows, open, approve, reject | lists fetched once per appearance; `vagaSelec` set by rendering; the state overwritten blindly | only pending requests are offered; a decision is final; the spot shown is the request's |
| history (`Historico...`) | listed requests | appear, open | casts the date of any request | never traps |
| cards (`Pagamento...`) | listed cards, card of the page | appear, open, save, delete | deletion left pending by a failed save | cards shown exist |
| home (`HomeViewController`, `HereSdkController`) | step, suggestions, spots of the search, list and table of spots, selection, markers | type, choose a suggestion, choose a spot, go back, request | suggestions and geocodings answered late and out of order, tied to no search; tables older than their lists | map, tables and selection in step with the lists; the chosen spot is the one requested |
| garage (`Vagas...`, `NovaVaga...`, `VisualizarVaga...`, `AtualizarFrequencia...`) | spots, rows, form, geocodings under way | open, delete, fill in, save (asks the geocoder), answer of the geocoder, change the week | id, price and week captured at the touch, other fields read at the answer; several answers to one form; a deletion whose save fails stays pending below its row | id and fields agree; an answer takes only its own form away; rows show spots that exist |
| access (`AccessViewController`, `RegisterViewController`, `SignInViewController`, `CustomNavViewController`) | current user, accounts, profiles, stack of pages | sign in by e-mail and password, register (create, write the profile, sign out), enter, open the drawer, leave | FIRAuth's thread changes the user between a success and its closure, which reads the current user instead of its result, and signs out whoever it is | nobody reaches a page that unwraps the user with nobody signed in; a profile goes under its own account |
| monthly plan, chat, static pages, components | none that lasts | alerts, navigation | none | - |

Components interact through the shared context (every list is a fetch on it),
through `prepare(for:sender:)` (a page gets its objects from the one before)
and through callbacks that outlive the page that asked.

## Modules

| module | models | extends / refines |
|---|---|---|
| `ContextoGerenciado` | what any screen may rely on from persistence | abstract |
| `VidaRequisicao` | the life of a request, without screens or network | abstract |
| `EscolhaVaga` | what the form may rely on from the home screen | abstract |
| `AcervoVagas` | what the home screen may rely on from the garage | abstract |
| `Sessao` | sessions, accounts and profiles as the rest of the app sees them | abstract |
| `Reservas` | booking, checkout, confirmations, history, cards, garage as seen by them, saves and relaunches | implements `VidaRequisicao` and `ContextoGerenciado` |
| `Home` | the home screen with its map, suggestions and spots | implements `EscolhaVaga` |
| `Garagem` | the owner's spots: list, form and geocoder, one spot, its week | implements `AcervoVagas` and `ContextoGerenciado` |
| `Acesso` | sign-in and registration over FIRAuth's two threads, up to the home screen | implements `Sessao` |
| `Parken` | the home screen and the booking flow together, from the search to the request | composes `Reservas` and `Home`, implements both and `AcervoVagas` |
| `MCReservas`, `MCHome`, `MCGaragem`, `MCAcesso`, `MCParken` | the values TLC uses | extend the five above |
| `ReservasProvas`, `HomeProvas`, `GaragemProvas`, `AcessoProvas`, `ParkenProvas` | theorems and proofs | extend the five above and `TLAPS` |

Definitions marked `Mutant:` stand just before the definition they deform, as
a plausible bug of that code would; they are used by no specification.

### `Reservas`

* `ctx` and `store` map each managed object of a finite pool to its contents or
  `Ausente`. Contents keep what the properties tell apart: a spot its id and its
  price (`Precos` gives the prices that spots of an id may have: nothing keeps
  two spots of one id and different prices apart), a request its state, id, whether it has a date, whether the vehicle is filled
  in, its hours and its total. `Gravar(c)` is "make the change, then `save()`":
  the store becomes the whole context, or the save fails and the change stays
  pending.
* `tela`, `folha` and `alerta` are the top of the navigation stack, the visible
  screen of the modal sheet and the alert; `Tocavel`, `NaTela` and `NaFolha`
  say which of them gets touches. `queda` records the trap (a failed cast, a
  `fatalError`) that ended the process, so that "never traps" is an invariant.
* `pedido` and `checkout` are the fields of the two pages; `leituras` holds, for
  each request, what the closure of its profile read captured (the checkout
  page, which stays alive for it). `perfil` says whether the signed-in user has
  a profile in Firebase: there is nothing else the answer depends on.
* A handler is one action. `ConfirmarPedido` is `confirmar` and `save` up to
  `observeSingleEvent`; `ResponderPerfil` is the closure; `Decidir` is
  `actAprovar`/`actRejeitar` with `save`; `Prosseguir` is the button with both
  its action and its segue, and the `viewDidLoad` of the page it shows;
  `MostrarConfirmacoes` is `viewWillAppear` and the rendering of the rows.
* `NovaVaga` may insert a spot at any time: the geocoder's answer comes on any
  page. `AbrirPedido` may open the form on any spot of the last search, which
  is what `EscolhaVaga` promises and `Home` keeps, and reads id and price from it
  (`FichasLidas`: those of the spot, or the defaults of a deleted one).
* `achou` says whether a search of this run of the process found a spot: without
  one, no row is there to be chosen. It guards `AbrirPedidoSemVaga`, the form
  opened for no spot because the last search found none while the chosen row is
  an older search's. `ParkenProvas` shows that it holds back no request of the
  home screen (`SempreAchado`).

### `Home`

* `passo` is the step shown; `parkingLocateList` and `linhas` are the list and
  the rows of its table as of the last `reloadData`; `selecionada` is
  `indexPathForSelectedRow`. A tap uses the row, then indexes the list as it is.
* `geocodificando` holds the reverse geocodings under way with what they
  captured (which search, which spot, near or not); `ResponderEndereco` and
  `FalharEndereco` answer any of them, at any step, on any page.
* `mapa` is the set of markers on the map, by the search that made them.
* `VagasFinais(id)` is the loop of `prepare`: a spot with that stored id, or the
  last of the search, or nil. Stored ids and ids put together from the fields
  are separate constants because the code stores one and compares it with the
  other.
* `Requisitar` performs `requestSegue` (with `prepare`) and `requestParkClick`,
  which hang on one button, in that order. In the other order `prepare` would
  always index an empty list, so the order is the one in which the app works.

### `Garagem`

* The sheet has a navigation stack of its own; `pagina` is its top. Pages below
  it are determined by it, except that `linhas`, the rows of the list, stay as
  they were fetched until the list appears again.
* `pedidos` holds the geocodings under way. Each has what the touch on "Salvar"
  captured (`id`, `frequencia`), the fields its form holds now (`campos`), and
  whether that form is still on the stack (`naPilha`): a form that is gone lives
  on in the closure, and its `navigationController` is nil. Nothing disables the
  button, so one form may have several requests; they are answered in any order.
* `editou` and `apagadas` are history: whether a form was ever edited while its
  own answer was awaited, and the spots this process deleted.
* A spot of which a deletion is pending reads as before and one whose deletion
  was saved reads as nil (`SemSemana`); deleting a deleted object does nothing,
  and setting a field of one leaves it deleted.
* A price that is no number traps in one step (`SalvarPrecoInvalido`).

### `Acesso`

* Two threads. `ResponderPedido` is FIRAuth's work queue
  (`signInFlowAuthDataResultCallbackByDecoratingCallback`, `updateCurrentUser`):
  it replaces `usuario`, then appends the closure to `fila`, the main queue.
  `RetornarCadastro` and `RetornarEntrada` are the closures, in the order they
  were queued.
* `registerClick`'s closure is two actions, because `signOut` synchronises with
  the work queue: another answer may come between the write of the profile and
  the sign-out. `saindo` keeps the main thread in between, so that nothing else
  runs on it.
* The silent sign-in with the new account, asked for by that closure, is a
  request with `visivel = FALSE`: it changes the user and shows nothing.
* `pilha` is the navigation stack of `Welcome.storyboard`. The bar is hidden on
  the first two pages, so they are never popped; "Finalizar Cadastro" pushes a
  second `AccessViewController` over the form.
* The session outlives the process (it is in the keychain); requests, queued
  closures and writes not yet acknowledged do not.
* Left out: pages with nothing but a way back, the reset of a password (an
  e-mail is sent, nothing changes here), and the countdown of
  `SignInViewController`, which is a label.

### `Parken`

`Reservas` knows of the home screen only that a search fetches the spots and
that the form opens on one of them; `Home` knows of the form only that it comes
back, and of the garage a set of spots. `Parken` puts the two together: it
EXTENDS `Reservas` and has an INSTANCE `H` of `Home`.

* What both know is one variable: the spots of the last search (`vagas` of
  `Home`, `resultado` of `Reservas`), the spots that exist (those of `ctx`), and
  the page on top (`paginaHome`, from `tela`).
* What both do is one step of both: `BuscarPerto`, `Requisitar` (the spot that
  the loop of `prepare` finds is the one the form opens on), `VoltarDoPedido`,
  `ApagarVaga`, `InserirVaga`. Touches reach `Home` only when neither a page nor
  a sheet nor an alert covers it (`TocarHome`); answers reach it whatever covers
  it (`ResponderHome`).
* A spot is inserted under the id of its own fields (`ChaveDe`), which is what
  `IdDosCampos` of `Garagem` gives unless its form was edited meanwhile, and at
  its own price (`PrecoDe`). Two spots may share an id, at one price or at two;
  the key of `Reservas` and `IdMontado` of `Home` are the same string, so spots
  of one key have one `IdMontado` (`ChaveDeAssumption`).
* A trap of either ends the process of both (`queda`, `quedaHome`). It is one
  run of the process: the search, the list and the form do not survive it.
* `origem` is history: for each request, what `Home` handed over before it was
  confirmed, and whether the chosen spot was deleted by then.

### Assumptions of the models

* All rows of a table are rendered when it appears or reloads (short lists).
  They are rendered in no order that matters: any row may be the last.
* Fetches on the context and `loadPersistentStores` do not fail; saves may.
* A spot or card deleted and saved reads as nil in every field; one whose
  deletion is still pending reads as before.
* In `Reservas`, somebody is signed in throughout; a relaunch may sign in
  somebody else, with or without a profile. An account does not gain a profile
  while a read of it is under way. `Acesso` has the case of nobody signed in.
* In `Home` and `Garagem`, a managed object is not used again in the process
  that deleted it.
* In `Acesso`, an e-mail stands for its account, and a wrong password for a
  refusal. The database applies writes in the order they were made, and each
  may be refused. Sign-ins go to FIRAuth's network calls in parallel, so they
  are answered in any order.
* The marker of the user, the camera, favourites and every label are left out.

## What the runs check

Bounds are constants of the modules: `MaxHoras` (the stepper's maximum),
`MaxFalhas` (failures), `MaxReinicios` (relaunches), `MaxBuscas` (searches),
`MaxToques` (geocodings asked for), `MaxPedidos` (sign-ins and registrations),
and the sizes of the pools. They are counters in guards, never `CONSTRAINT`s.

| run | instance | shows |
|---|---|---|
| `reservas_falhas` | 1 spot, 1 request, 1 card, 1 failure, 1 relaunch, fairness | `TypeOK`; `ConfirmacoesTemData`: the owner's screens never trap on a date; `BrancaTemMotivo`: a request stays blank only for want of a profile or after a relaunch; `CartaoTemMotivo`: the page of a card traps only after a failed save; `StoreAtrasado`: the store is never ahead nor half written; `SoFalhaAtrasa`: until a save fails the store lacks nothing but blank requests; `HistoricoCaiSoNaBranca`: the history traps only on a listed request that is still blank; `DecisaoFinal`; `SegueVida`; `SegueContexto`; `PedidoAtendido`: a request of a user with a profile gets to the owner |
| `reservas_pedidos` | 2 spots, 2 requests, 2 ids, 1 card, no failure | `LeituraNaoAtropela`: no answer is late for its request; `ListaEmDia`: no page offers a second decision; `ConfirmaDeAlguem`: the spot shown beside a request exists, and a request listed or decided asks for it, whichever row was rendered last |
| `home_buscas` | 2 spots, 2 addresses, 2 searches, 2 texts | `TypeOK`; `MapaEmDia`: one destination on the map at steps 2 and 3, none at step 1, and every spot listed; `TabelasEmDia`: rows match what a tap on them indexes, but for an emptied list; `EscolhidaNaSelecao`: the selected row is the chosen spot's, or none; `IndiceSoNaListaVazia`: an index is out of range only when a row is tapped after its list was emptied; `EntregaCerta`: the form gets the chosen spot, or that spot was deleted; `SegueEscolha` |
| `parken_escolha` | 2 spots of prices 3 and 5, 1 request, 1 card, 1 address, 1 text, 1 search, 0 to 1 hours | `PedidoDaEscolhida`: a request in the owner's hands is for the spot the user chose on the home screen and at its price, or that spot had been deleted; `PedidoTemVaga`: it asks for a spot of the garage, or some spot was deleted; `TotalCoerente`: total = a price registered under its id x hours; `SegueAcervo`: a spot changes only as the garage may change it |
| `garagem_vagas` | 2 spots, 2 contents of the form, 2 geocodings, 1 failure, 1 relaunch | `TypeOK`; `IdDosCampos`: id and fields agree unless a form was edited while its answer was awaited; `FantasmaTemMotivo`: rows and pages show spots that are gone only after a failed save; `SoFalhaAtrasa`: until then memory and store agree; `TiraSoOQueGravou`: an answer takes away only the form it registers; `SegueContexto`; `SegueAcervo` |
| `acesso_sessao` | 2 accounts, 2 requests, 1 failure, 1 relaunch, fairness | `TypeOK`; `SessaoDoUltimo`: what a closure may rely on when it reads the current user; `SemSessaoTemMotivo`: the unwraps of the user trap only after a finished registration or by the untitled shortcut; `PerfilTrocadoSoEmCorrida`: a profile goes under another uid only in a race of two answers; `PerfilNaoSePerde`: nothing but storing it, a failure, a relaunch or the trap of its closure takes a profile off its way; `PerfilUmaVez`: it is in one place of that way, and never written twice; `PerfilChega`: the profile of a created account is stored; `SegueSessao` |

Why the bounds are enough: requests touch each other only through the shared
save and the owner's list, so two of them and one failure already show every
pair of positions of two requests in memory and in the store; one relaunch
separates what was saved from what was not, and a second one starts from a
state of the same shape; two spots, requested by two requests, make it matter
which row was rendered last, and two prices make a total taken from the wrong
spot visible; two searches are the least for an answer of one to come during the
other, and a third would find the same lists. Two geocodings are enough for two
answers to one form, and for one answer that comes when a second form is shown;
two accounts and two requests are the least for a sign-in and a registration to
race. The ids of `home_buscas` are unique; that its properties hold of spots
registered twice under one id, or whose id is not that of their fields, is left
to the proofs, which assume nothing of the sort. `parken_escolha` has one search
and no failing save: its 1.4 million states take a minute and a half, and a second search
or a failure takes it past five; late answers of one search during the next are
in `home_buscas`, failures in `reservas_falhas`, and all of it in the proof.
Failures and relaunches are in
`reservas_falhas` and not in `reservas_pedidos`, and so are the hours in
`parken_escolha`: with two spots and two requests each of them multiplies the six
hundred thousand states of that run; the proofs have all of them at once. Objects are
interchangeable where `Simetria` is used (no constant of that run tells them
apart), and no liveness is checked under symmetry. `CHECK_DEADLOCK` is never
off: a model that may stop says so with a step of its own (`FicarFechado`,
`Parado`).

Runs that end in a violation, each of something the code itself says:

| run | what happens |
|---|---|
| `reservas_sem_cartao` | the only card is deleted on the sheet over the checkout, which then books without one |
| `reservas_vaga_errada` | of two requests for two spots, one is opened beside the spot of the other, whose row was rendered last |
| `reservas_sucesso` | success is announced for a request that is never filled |
| `home_selecao` | a late answer clears the selection and requesting the spot traps |
| `home_vaga_trocada` | the chosen spot was deleted in the garage: the form opens on another one |
| `acesso_perfil` | the data of a registration are written under the account of a sign-in answered in between |

Three more disagreements are in the models without a run of their own: "Preencha
todos os campos" is shown while the segue opens the checkout anyway
(`Prosseguir`); the history traps on the date of a request that is still blank
(`AbrirSolicitacao`, `queda = "semData"`; `HistoricoCaiSoNaBranca` says of which
one, and that nothing else does it); and after "Voce esta logado." the next
page may unwrap nobody, because the sign-out at the end of a registration undid
the sign-in before its closure ran (`RetornarEntrada`, `queda = "signIn"`).

## Fairness

`FairSpec` of `Reservas` assumes weak fairness of `ResponderPerfil` only:
`observeSingleEvent` answers, from its cache or from the network, as long as
the app runs. Nothing is assumed of the user, of saves, of relaunches or of the
geocoder. `PedidoAtendido` therefore ends in "filled, or the process ended".

`FairSpec` of `Acesso` assumes weak fairness of `Responder` (a request ends
with an answer or an error, a timeout being one), `Escrever` (a write is retried
until it is acknowledged or refused) and `Retornar` (the main queue is served).
Nothing is assumed of the user nor of the server creating an account, so
`PerfilChega` starts from an account that was created.

`Home` and `Garagem` state no liveness: a geocoding may fail, and the code
neither retries nor reloads the table then, so "the table is eventually right"
or "the spot is eventually registered" is not true.

## What is proved

For every value of the constants that meets the named assumptions (the pools
of the entities are disjoint, ids are not the empty string nor nil, prices
are naturals, the bounds are naturals, the marks of a missing object and of nil are
not what they stand in for; in `Home`, ids are naturals, standing for their
order as strings). Every safety property of a passing run is a theorem.

`ReservasProvas`: the inductive invariant `IInv` joins `TypeOK`,
`LeituraNaoAtropela`, `StoreAtrasado`, `ListaEmDia`, `Completas` (a request with
a state has its date, in memory and in the store) and `ConfirmacoesTemData`.
`ConfirmacoesTemData` alone is not inductive: it needs that listed requests are
pending, that pending ones are complete, also in the store a relaunch starts
from, and that a read under way is of a blank request, for otherwise its answer
could move a request out of its place. The proof first shows (`Movimento`) that
a step moves one request one place on, or moves none, or starts again from the
store; everything about requests follows from that. On it rest `Tipos`,
`ConfirmacoesNuncaCaem`, `LeituraSempreEmBranco`, `StoreSempreAtrasado`,
`ListaSempreEmDia`, the action property `DecisoesSaoFinais`, and the two
refinements `ImplementaVida` and `ImplementaContexto`. `TotaisCoerentes` adds
the invariant that form, checkout and captured fields have totals of a price
registered under their id (`FichaLida`: what the form reads is a spot's, or the
defaults);
`BrancasTemMotivo`, `CartoesTemMotivo` and `SoFalhasAtrasam` are inductive once
`IInv` holds. `HistoricoSoCaiNaBranca` needs `HistoricoEmDia`: a request without
a state is the blank one, also in the store a relaunch starts from, and the rows
of the history are requests that are still there.
`ConfirmaSempreDeAlguem` needs `VagaDoDono`: the spot of the page was rendered
beside some row, and neither deciding that row's request nor an answer takes the
request or the spot away while the page is shown.

`HomeProvas`: `IInv` joins `TypeOK` with the two halves of `MapaEmDia`
(`DestinoNoMapa`, `ListadasNoMapa`), the two of `TabelasEmDia` (`TabelaEmDia`,
`SugestoesEmDia`), `EscolhidaNaSelecao` and `VagasConhecidas`
(whatever the screen still knows of a spot, the last search fetched that spot
or it was deleted). `EntregaSempreCerta` needs the last one: the chosen model
may come from an older search than the one whose spots `prepare` looks through.
`IndiceSoForaNaListaVazia` follows the three places that index a list:
`SugestoesEmDia` clears the first, `EscolhidaNaSelecao` the third, and
`TabelaEmDia` leaves the second its one case.
`ImplementaEscolha` is the refinement of `EscolhaVaga`.

`GaragemProvas`: `IInv` joins `TypeOK`, `IdDosCampos` and `FantasmaTemMotivo`
with what they need of requests under way and of what is shown. `FormNaPilha`: a
form still on the stack is the page on top, and its closures read what it shows;
`RespostaTiraSoOQueGravou` is that. `PedidosFieis`: what a touch captured is
what its form holds, unless one was edited; `IdsSempreDosCampos` is that, carried
into the record. `MostradasConhecidas`: whatever is shown exists or was deleted
by this process, so that no new object takes its place. `SoFalhasAtrasam` is
inductive by itself: no handler leaves its page with something unsaved.
`ImplementaContexto` and
`ImplementaAcervo` are the refinements.

`AcessoProvas`: `IInv` joins `TypeOK`, `SessaoDoUltimo` and `SemSessaoTemMotivo`
with `PilhaOK` (the first page is never taken away, so the mark of a finished
registration stays), `CadastroPedido` (only a submitted form asks for an
account, and so for the sign-out), `ContasExistem` (whatever an answer, a write
or the session names is an account) and `SucessoTemSessao` (while a success is
queued somebody is signed in, but for a sign-out), from which
`SemSessaoTemMotivo` follows when the closure runs. On it rest
`SessaoSempreDoUltimo`, `SemSessaoSempreTemMotivo`, `TrocaSoEmCorrida` and the
refinement `ImplementaSessao`. A second invariant, `PerfilIInv`, follows a
profile from the account's creation through the main queue and the writes to the
database. `Trajeto` shows that a step moves one profile one place on, or none, or
empties the way; with `PerfisExistem` (whoever's profile is on its way, or
stored, has an account, so that a newly created one is on no way yet) it gives
`PerfilSempreUmaVez` and `PerfilNuncaSePerde`, which is the safety half of
`PerfilChega`: what is left to fairness is only that the steps are taken.

`ParkenProvas`: the composition implements the specification of each part
(`ImplementaReservas`, `ImplementaHome`), so every theorem of `ReservasProvas` and
`HomeProvas` holds of it. For the first, each step of `Parken` is one of
`Reservas` or leaves it alone; for the second, the spots and the page on top must
change only as `Home` allows, which needs `AlertaNoCheckout` (an alert that leads
back to the home screen is one of the checkout). `PedidoSempreDaEscolhida` is
neither's alone. It assumes that the ids are those of the fields
and unique (`IdsFieis`); without that, two spots of one id may have two prices.
Its invariant `PInv` has `Garagens` (spots are there under their
own id, and those of the last search exist or were deleted) and `Caminho`: the
id in the form, in the checkout, in the closure of the profile read and in the
request is that of the choice it came from, at each hand-over. `EntregaCerta` of
`Home` starts that chain and `TotalCoerente` of `Reservas` adds the price.
`PedidoSempreTemVaga` has no assumption on the ids and no history of the choice:
it carries through the same hand-overs (`CaminhoDaVaga`) that what is asked for
is a spot of the garage, as long as none was deleted. A spot whose deletion is
pending is read as the store has it, so `Garagens` speaks of the store too; that
takes a failed save, which `parken_escolha` has none of and the proof has.
`SempreAchado` shows that a row of the list, or a geocoding under way, means that
a search found a spot: the guard `achou` of `Reservas` is no restriction.
`ImplementaAcervo` goes by `PassoVagas`: a step of the composition leaves the
spots alone, deletes one or inserts one.

Only model-checked: the liveness properties `PedidoAtendido` and `PerfilChega`,
which the prover does not reach.

## What is not modelled

* Chat (empty screens), the monthly plan (saves nothing), static pages, visual
  components.
* Favourites, the camera and the marker of the user in `Home`: in memory only,
  and no other state reads them.
* The vendored libraries under `Pods` and the frameworks (Firebase, leveldb,
  nanopb, HERE, Jelly, Alamofire). They are modelled as far as the app relies
  on them: FIRAuth's work queue, which is the one place where a library's
  threads change state that the app reads, is translated from its source; the
  rest is marked external. In lines the vendored C, C++ and Objective-C is many
  times the app; the app itself is Swift, and it is the app that this
  development is about. Measured against the vendored sources alone the map
  covers close to nothing.

## What could come next

1. A composition of `Garagem` and `Home` over `AcervoVagas`, in which `IdsFieis`
   follows from `IdDosCampos`, unless a form was edited, and from the fields of
   two spots being different.
2. `Acesso` giving `Reservas` its `perfil`, which a profile written while a read
   is under way may change.
