------------------------------- MODULE Acesso -------------------------------
(***************************************************************************)
(* Getting in: AccessViewController (e-mail and password),                 *)
(* RegisterViewController (a new account and its profile),                 *)
(* SignInViewController (the step before the home screen), and the places  *)
(* behind them that unwrap the signed-in user: the drawer                  *)
(* (CustomNavViewController) and the checkout.                             *)
(*                                                                         *)
(* Two threads meet here.  FIRAuth answers on its own work queue: there it *)
(* replaces the current user, then queues the page's closure on the main   *)
(* thread.  By the time the closure runs, other answers may have replaced  *)
(* the user again, and a registration's closure signs out whoever it is.   *)
(* Pages with nothing but a way back (terms, privacy, presentation, reset  *)
(* of the password) are left out.                                          *)
(***************************************************************************)
EXTENDS Naturals, Sequences

CONSTANTS
  Emails,        \* the e-mails one can type, each an account or none yet
  Nulo,          \* nil
  MaxPedidos,    \* bound: sign-ins and registrations asked for by the user
  MaxFalhas,     \* bound: failures that lose something
  MaxReinicios   \* bound: how many times the app is started again

ASSUME NuloAssumption == Nulo \notin Emails
ASSUME LimitesAssumption == MaxPedidos \in Nat /\ MaxFalhas \in Nat /\ MaxReinicios \in Nat

VARIABLES
  usuario,      \* Auth.auth().currentUser, also in the keychain
  contas,       \* the accounts the server knows
  perfis,       \* users/<uid> on the server: the e-mail it holds, or nil
  pedidos,      \* requests to the authentication service under way
  fila,         \* closures queued on the main thread by FIRAuth
  saindo,       \* the main thread is in registerClick's closure, about to sign out
  escritas,     \* setValue calls the database has not acknowledged yet
  pilha,        \* the navigation stack of Welcome.storyboard
  principal,    \* the home screen over it: "nao", or how it was reached
  menu,         \* the drawer was loaded
  queda,        \* why the process ended, "nenhuma" while it runs
  feitos,       \* how many requests the user made
  falhas,       \* how many failures lost something
  reinicios     \* how many times the app was started again

servidor == <<contas, perfis>>
telas == <<pilha, principal, menu>>
limites == <<feitos, falhas, reinicios>>
vars == <<usuario, contas, perfis, pedidos, fila, saindo, escritas, pilha, principal, menu,
          queda, feitos, falhas, reinicios>>

(* A request, by the touch behind it: `feito` says that the server has     *)
(* created the account, `visivel` that the closure is that of a page (the  *)
(* sign-in asked for by registerClick's closure has one that only prints). *)
Pedidos == [n : 1..MaxPedidos, op : {"criar", "entrar"}, email : Emails, visivel : BOOLEAN, feito : BOOLEAN]
Retornos == [n : 1..MaxPedidos, op : {"criar", "entrar"}, email : Emails, visivel : BOOLEAN, ok : BOOLEAN]
Escritas == [uid : Emails, email : Emails]
Paginas == {"access", "register", "signIn"}

Novo(op, e) == [n |-> feitos + 1, op |-> op, email |-> e, visivel |-> TRUE, feito |-> FALSE]

(* The main thread takes a touch or a closure; `topo` is on screen.        *)
Livre == queda = "nenhuma" /\ ~saindo
NaPagina(p) == Livre /\ principal = "nao" /\ pilha[Len(pilha)] = p

Init ==
  /\ contas \in SUBSET Emails
  /\ perfis = [e \in Emails |-> IF e \in contas THEN e ELSE Nulo]
  /\ usuario \in contas \cup {Nulo}
  /\ pedidos = {} /\ fila = <<>> /\ saindo = FALSE /\ escritas = <<>>
  /\ pilha = <<"access">> /\ principal = "nao" /\ menu = FALSE /\ queda = "nenhuma"
  /\ feitos = 0 /\ falhas = 0 /\ reinicios = 0

-----------------------------------------------------------------------------
(* The user's touches.                                                     *)

(* "Entrar": signInClick with an e-mail and a password.                    *)
Entrar(e) ==
  /\ NaPagina("access")
  /\ feitos < MaxPedidos
  /\ pedidos' = pedidos \cup {Novo("entrar", e)}
  /\ feitos' = feitos + 1
  /\ UNCHANGED <<usuario, servidor, fila, saindo, escritas, telas, queda, falhas, reinicios>>

(* "Registrar" performs its segue, and signInClick too if the fields are   *)
(* filled in.                                                              *)
Registrar ==
  /\ NaPagina("access")
  /\ feitos < MaxPedidos
  /\ pilha' = Append(pilha, "register")
  /\ \/ UNCHANGED <<pedidos, feitos>>
     \/ /\ \E e \in Emails : pedidos' = pedidos \cup {Novo("entrar", e)}
        /\ feitos' = feitos + 1
  /\ UNCHANGED <<usuario, servidor, fila, saindo, escritas, principal, menu, queda, falhas, reinicios>>

(* "Finalizar Cadastro" runs registerClick and performs its segue to a new *)
(* AccessViewController: the form stays below it as it is, for ever.       *)
Cadastrar(e) ==
  /\ NaPagina("register")
  /\ feitos < MaxPedidos
  /\ pedidos' = pedidos \cup {Novo("criar", e)}
  /\ feitos' = feitos + 1
  /\ pilha' = Append(pilha, "access")
  /\ UNCHANGED <<usuario, servidor, fila, saindo, escritas, principal, menu, queda, falhas, reinicios>>

(* The back button of SignInViewController; the other two hide the bar.    *)
Voltar ==
  /\ NaPagina("signIn")
  /\ pilha' = SubSeq(pilha, 1, Len(pilha) - 1)
  /\ UNCHANGED <<usuario, servidor, pedidos, fila, saindo, escritas, principal, menu, queda, limites>>

(* "Verificar" checks no code: acessarClick shows the home screen.         *)
Acessar ==
  /\ NaPagina("signIn")
  /\ principal' = "entrou"
  /\ UNCHANGED <<usuario, servidor, pedidos, fila, saindo, escritas, pilha, menu, queda, limites>>

(* The button without a visible title shows it to anybody.                 *)
Atalho ==
  /\ NaPagina("access")
  /\ principal' = "atalho"
  /\ UNCHANGED <<usuario, servidor, pedidos, fila, saindo, escritas, pilha, menu, queda, limites>>

(* The drawer is loaded when first shown (`userID!`).                      *)
AbrirMenu ==
  /\ Livre /\ principal # "nao" /\ ~menu
  /\ menu' = TRUE
  /\ queda' = IF usuario = Nulo THEN "menu" ELSE "nenhuma"
  /\ UNCHANGED <<usuario, servidor, pedidos, fila, saindo, escritas, pilha, principal, limites>>

(* Confirming a booking unwraps the user (`userID!`); who is signed in     *)
(* goes on and changes nothing here.                                       *)
ConfirmarSemUsuario ==
  /\ Livre /\ principal # "nao"
  /\ usuario = Nulo
  /\ queda' = "checkout"
  /\ UNCHANGED <<usuario, servidor, pedidos, fila, saindo, escritas, telas, limites>>

(* "Sair" ends the process and leaves the session as it is.                *)
Sair ==
  /\ Livre /\ menu
  /\ queda' = "sair"
  /\ UNCHANGED <<usuario, servidor, pedidos, fila, saindo, escritas, telas, limites>>

-----------------------------------------------------------------------------
(* The services, at any moment, also while a closure runs.                 *)

CriarConta(p) ==
  /\ p \in pedidos
  /\ p.op = "criar" /\ ~p.feito /\ p.email \notin contas
  /\ contas' = contas \cup {p.email}
  /\ pedidos' = (pedidos \ {p}) \cup {[p EXCEPT !.feito = TRUE]}
  /\ UNCHANGED <<usuario, perfis, fila, saindo, escritas, telas, queda, limites>>

Retorno(p, ok) == [n |-> p.n, op |-> p.op, email |-> p.email, visivel |-> p.visivel, ok |-> ok]

(* Mutant: the closure is queued before the user is replaced, which only   *)
(* a sign-in does.                                                         *)
SessaoSoDeEntrada(p) == IF p.op = "entrar" THEN p.email ELSE usuario

(* The user an answer leaves signed in.                                    *)
SessaoDe(p) == p.email

Aceita(p) == IF p.op = "criar" THEN p.feito ELSE p.email \in contas

(* FIRAuth's work queue: the current user is replaced, then the closure is *)
(* queued.                                                                 *)
ResponderPedido(p) ==
  /\ queda = "nenhuma"
  /\ p \in pedidos
  /\ Aceita(p)
  /\ pedidos' = pedidos \ {p}
  /\ usuario' = SessaoDe(p)
  /\ fila' = Append(fila, Retorno(p, TRUE))
  /\ UNCHANGED <<servidor, saindo, escritas, telas, queda, limites>>

(* An answer with an error: a wrong password, an e-mail in use, no network *)
(* (which loses something only if the account was created).                *)
FalharPedido(p) ==
  /\ queda = "nenhuma"
  /\ p \in pedidos
  /\ IF p.feito THEN falhas < MaxFalhas /\ falhas' = falhas + 1 ELSE UNCHANGED falhas
  /\ pedidos' = pedidos \ {p}
  /\ fila' = Append(fila, Retorno(p, FALSE))
  /\ UNCHANGED <<usuario, servidor, saindo, escritas, telas, queda, feitos, reinicios>>

(* Writes reach the database in order; its rules may refuse one.           *)
GravarPerfil ==
  /\ queda = "nenhuma"
  /\ escritas # <<>>
  /\ escritas' = Tail(escritas)
  /\ perfis' = [perfis EXCEPT ![Head(escritas).uid] = Head(escritas).email]
  /\ UNCHANGED <<usuario, contas, pedidos, fila, saindo, telas, queda, limites>>

RecusarPerfil ==
  /\ queda = "nenhuma"
  /\ escritas # <<>>
  /\ falhas < MaxFalhas
  /\ falhas' = falhas + 1
  /\ escritas' = Tail(escritas)
  /\ UNCHANGED <<usuario, servidor, pedidos, fila, saindo, telas, queda, feitos, reinicios>>

-----------------------------------------------------------------------------
(* The closures, in the order they were queued.                            *)
Proximo(op) == Livre /\ fila # <<>> /\ Head(fila).op = op

(* Mutant: a write takes the place of those still under way.               *)
PerfilSubstituto(r) == <<[uid |-> usuario, email |-> r.email]>>

(* Mutant: the profile goes under the account of the form as well.         *)
ComPerfilNasDuas(r) ==
  escritas \o <<[uid |-> usuario, email |-> r.email], [uid |-> r.email, email |-> r.email]>>

(* The profile goes under the user current by then.                        *)
ComPerfil(r) == Append(escritas, [uid |-> usuario, email |-> r.email])

(* Mutant: the closure does not look at the error.                         *)
CriouSempre(r) == r.op = "criar"

(* guard error == nil.                                                     *)
Criou(r) == r.ok

(* Mutant: the user is chained with `?`, and its uid may be missing.       *)
IdentificadoSempre == TRUE

(* `user!.uid` finds a user.                                               *)
Identificado == usuario # Nulo

(* registerClick's closure, up to signOut: it asks for a sign-in with the  *)
(* same e-mail, unwraps the current user and writes the form's data under  *)
(* that user.                                                              *)
RetornarCadastro ==
  LET r == Head(fila)
  IN /\ Proximo("criar")
     /\ fila' = Tail(fila)
     /\ IF ~Criou(r) THEN UNCHANGED <<pedidos, escritas, saindo, queda>>
        ELSE /\ pedidos' = pedidos \cup
                  {[n |-> r.n, op |-> "entrar", email |-> r.email, visivel |-> FALSE, feito |-> FALSE]}
             /\ IF ~Identificado
                THEN queda' = "cadastro" /\ UNCHANGED <<escritas, saindo>>
                ELSE /\ escritas' = ComPerfil(r)
                     /\ saindo' = TRUE
                     /\ UNCHANGED queda
     /\ UNCHANGED <<usuario, servidor, telas, limites>>

(* ... and signOut, which waits for FIRAuth's work queue, and may fail to  *)
(* clear the keychain.                                                     *)
Deslogar ==
  /\ queda = "nenhuma" /\ saindo
  /\ saindo' = FALSE
  /\ \/ usuario' = Nulo /\ UNCHANGED falhas
     \/ falhas < MaxFalhas /\ falhas' = falhas + 1 /\ UNCHANGED usuario
  /\ UNCHANGED <<servidor, pedidos, fila, escritas, telas, queda, feitos, reinicios>>

(* Mutant: the closure does not look at the error.                         *)
EntraSempre(r) == r.visivel

Entra(r) == r.ok /\ r.visivel

(* signInClick's closure shows SignInViewController on top of whatever     *)
(* page is there by then; its viewDidLoad unwraps the user (`userID!`).    *)
RetornarEntrada ==
  /\ Proximo("entrar")
  /\ fila' = Tail(fila)
  /\ pilha' = IF Entra(Head(fila)) THEN Append(pilha, "signIn") ELSE pilha
  /\ queda' = IF Entra(Head(fila)) /\ usuario = Nulo THEN "signIn" ELSE "nenhuma"
  /\ UNCHANGED <<usuario, servidor, pedidos, saindo, escritas, principal, menu, limites>>

-----------------------------------------------------------------------------
(* The process ends, or ended, and the app is started again: the session   *)
(* comes from the keychain, what was under way is lost.                    *)
Reiniciar ==
  /\ reinicios < MaxReinicios
  /\ reinicios' = reinicios + 1
  /\ pedidos' = {} /\ fila' = <<>> /\ saindo' = FALSE /\ escritas' = <<>>
  /\ pilha' = <<"access">> /\ principal' = "nao" /\ menu' = FALSE /\ queda' = "nenhuma"
  /\ UNCHANGED <<usuario, servidor, feitos, falhas>>

(* Nothing else to do within the bounds, or an app that stays closed.      *)
Parado ==
  /\ \/ queda # "nenhuma"
     \/ pedidos = {} /\ fila = <<>> /\ escritas = <<>> /\ ~saindo
  /\ UNCHANGED vars

-----------------------------------------------------------------------------
Usuario ==
  \/ \E e \in Emails : Entrar(e) \/ Cadastrar(e)
  \/ Registrar \/ Voltar \/ Acessar \/ Atalho \/ AbrirMenu \/ ConfirmarSemUsuario \/ Sair

Responder == \E p \in pedidos : ResponderPedido(p) \/ FalharPedido(p)
Escrever == GravarPerfil \/ RecusarPerfil
Retornar == RetornarCadastro \/ Deslogar \/ RetornarEntrada

Next ==
  \/ Usuario
  \/ \E p \in pedidos : CriarConta(p)
  \/ Responder \/ Escrever \/ Retornar
  \/ Reiniciar \/ Parado

Spec == Init /\ [][Next]_vars

(* Requests end with an answer or an error (a timeout is one), writes are  *)
(* retried until acknowledged or refused, the main thread runs what is     *)
(* queued.  Nothing is assumed of the user nor of the server's creating an *)
(* account.                                                                *)
FairSpec == Spec /\ WF_vars(Responder) /\ WF_vars(Escrever) /\ WF_vars(Retornar)

-----------------------------------------------------------------------------
(* Type invariant.                                                         *)
TypeOK ==
  /\ contas \subseteq Emails
  /\ usuario \in Emails \cup {Nulo}
  /\ perfis \in [Emails -> Emails \cup {Nulo}]
  /\ pedidos \subseteq Pedidos /\ fila \in Seq(Retornos) /\ escritas \in Seq(Escritas)
  /\ saindo \in BOOLEAN /\ menu \in BOOLEAN
  /\ pilha \in Seq(Paginas) /\ pilha # <<>>
  /\ principal \in {"nao", "entrou", "atalho"}
  /\ queda \in {"nenhuma", "menu", "checkout", "cadastro", "signIn", "sair"}
  /\ feitos \in 0..MaxPedidos /\ falhas \in 0..MaxFalhas /\ reinicios \in 0..MaxReinicios

(* A registration was finished in this process: its form is still below    *)
(* the page it led to.                                                     *)
Cadastrou == \E i \in 2..Len(pilha) : pilha[i - 1] = "register" /\ pilha[i] = "access"

(* While closures of successful requests are queued, the session is that   *)
(* of the last of them, or nobody's after the sign-out of a registration   *)
(* whose closure ran in between (FIRAuth.m:1965-1978,                      *)
(* RegisterViewController:73).  It is what a closure may rely on when it   *)
(* reads the current user instead of its result.                           *)
Sucessos == {i \in 1..Len(fila) : fila[i].ok}

SessaoDoUltimo ==
  \A i \in Sucessos :
    (\A j \in Sucessos : j <= i) =>
      usuario = fila[i].email \/ (usuario = Nulo /\ Cadastrou)

(* Whoever came through SignInViewController stays signed in, and no       *)
(* `userID!` or `user!` traps, unless a registration was finished in this  *)
(* process or the home screen was reached without signing in               *)
(* (SignInViewController:42, CustomNavViewController:15,                   *)
(* CheckoutVagaViewController:135, RegisterViewController:71).             *)
SemSessaoTemMotivo ==
  \/ Cadastrou
  \/ /\ usuario = Nulo => principal # "entrou" /\ \A i \in 1..Len(pilha) : pilha[i] # "signIn"
     /\ queda \in {"menu", "checkout", "cadastro", "signIn"} => principal = "atalho"

(* A profile is written under another account's uid only when another      *)
(* answer is already queued behind the registration's                      *)
(* (RegisterViewController:70-71).                                         *)
Trocada(w) == w.uid # w.email

PerfilTrocadoSoEmCorrida ==
  [][Len(escritas') > Len(escritas) /\ Trocada(escritas'[Len(escritas')])
       => \E i \in 2..Len(fila) : fila[i].ok]_vars

(* The profile of an account that was created is on its way: its request   *)
(* is about to be answered, its closure is queued, or its write is under   *)
(* way.                                                                    *)
Criadas == {p \in pedidos : p.op = "criar" /\ p.feito}
Voltando == {i \in 1..Len(fila) : fila[i].op = "criar" /\ fila[i].ok}
NaFila(e) == \E i \in Voltando : fila[i].email = e
NaEscrita(e) == \E i \in 1..Len(escritas) : escritas[i].email = e
Criada(e) == \E p \in Criadas : p.email = e
ACaminho(e) == Criada(e) \/ NaFila(e) \/ NaEscrita(e)

(* No step takes a profile off its way but by storing it, under whatever   *)
(* account, by a failure, by a relaunch, or by the trap of the closure     *)
(* (`user!`, RegisterViewController:71): neither the pages nor the answers *)
(* that come in between do.                                                *)
PerfilNaoSePerde ==
  [][\A e \in Emails : ACaminho(e) =>
       \/ ACaminho(e)' \/ (\E u \in Emails : perfis'[u] = e)
       \/ falhas' > falhas \/ reinicios' > reinicios \/ queda' = "cadastro"]_vars

(* The profile of an account is written once: it is in one place of its    *)
(* way only, and nowhere in the database before, so that no late write     *)
(* repeats it (AccessViewController:43, RegisterViewController:44-71).     *)
UmLugar ==
  /\ \A p, q \in Criadas : p.email = q.email => p = q
  /\ \A i, j \in Voltando : fila[i].email = fila[j].email => i = j
  /\ \A i, j \in 1..Len(escritas) : escritas[i].email = escritas[j].email => i = j
  /\ \A e \in Emails : ~(Criada(e) /\ NaFila(e)) /\ ~(Criada(e) /\ NaEscrita(e)) /\ ~(NaFila(e) /\ NaEscrita(e))

PerfilUmaVez == UmLugar /\ \A e, u \in Emails : ACaminho(e) => perfis[u] # e

(* The profile of an account that was created gets to the database,        *)
(* whatever page the user moves to, unless the process ends, something     *)
(* fails, or a profile went under another account's uid.                   *)
Perturbado(n) ==
  \/ queda # "nenhuma" \/ falhas > 0 \/ reinicios > n
  \/ \E i \in 1..Len(escritas) : Trocada(escritas[i])
  \/ \E u \in Emails : perfis[u] \notin {u, Nulo}

PerfilChega ==
  \A e \in Emails : \A n \in 0..MaxReinicios :
    (reinicios = n /\ \E p \in pedidos : p.feito /\ p.email = e) ~> (perfis[e] = e \/ Perturbado(n))

(* Sessions, accounts and profiles live as the rest of the app relies on.  *)
SE == INSTANCE Sessao
SegueSessao == SE!Spec

-----------------------------------------------------------------------------
(* What the code says and does not keep (a violation run).                 *)

(* "Criação de conta feita com sucesso." (RegisterViewController:55): the  *)
(* data of the form are those of the account just created.                 *)
PerfilDoDono == \A u \in Emails : perfis[u] \in {u, Nulo}
=============================================================================
