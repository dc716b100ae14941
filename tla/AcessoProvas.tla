---------------------------- MODULE AcessoProvas ----------------------------
(***************************************************************************)
(* Safety of sign-in and registration, for every set of e-mails and any    *)
(* number of requests, failures and relaunches.                            *)
(***************************************************************************)
EXTENDS Acesso, SequenceTheorems, TLAPS

(* The stack starts with the access page, which nothing takes away.        *)
PilhaOK == pilha[1] = "access"

(* Only a form that was submitted asks for an account, and so for the      *)
(* sign-out that comes with it.                                            *)
CadastroPedido ==
  /\ \A p \in pedidos : p.op = "criar" => Cadastrou
  /\ \A i \in 1..Len(fila) : fila[i].op = "criar" => Cadastrou
  /\ saindo => Cadastrou

(* An account that an answer, a write or the session names exists.         *)
ContasExistem ==
  /\ usuario \in contas \cup {Nulo}
  /\ \A p \in pedidos : p.feito => p.email \in contas
  /\ \A i \in 1..Len(fila) : fila[i].ok => fila[i].email \in contas
  /\ \A i \in 1..Len(escritas) : escritas[i].uid \in contas /\ escritas[i].email \in contas

(* While a success is queued somebody is signed in, but for a sign-out.    *)
SucessoTemSessao == (\E i \in 1..Len(fila) : fila[i].ok) => usuario # Nulo \/ Cadastrou

IInv ==
  /\ TypeOK
  /\ PilhaOK
  /\ CadastroPedido
  /\ ContasExistem
  /\ SucessoTemSessao
  /\ SessaoDoUltimo
  /\ SemSessaoTemMotivo

LEMMA Inicio == Init => IInv
  <1> SUFFICES ASSUME Init PROVE IInv
    OBVIOUS
  <1>1. saindo \in BOOLEAN /\ menu \in BOOLEAN /\ ~saindo
    BY Zenon DEF Init
  <1>2. fila = <<>> /\ escritas = <<>> /\ pilha = <<"access">> /\ pedidos = {}
    BY DEF Init
  <1>3. TypeOK /\ PilhaOK
    BY <1>1, <1>2, LimitesAssumption DEF Init, TypeOK, PilhaOK, Paginas
  <1>4. CadastroPedido /\ ContasExistem /\ SucessoTemSessao
    BY <1>1, <1>2 DEF Init, CadastroPedido, ContasExistem, SucessoTemSessao
  <1>5. SessaoDoUltimo
    BY <1>2 DEF SessaoDoUltimo, Sucessos
  <1>6. SemSessaoTemMotivo
    BY <1>2 DEF Init, SemSessaoTemMotivo
  <1> QED BY <1>3, <1>4, <1>5, <1>6 DEF IInv

-----------------------------------------------------------------------------
(* What the queues become.                                                 *)
LEMMA Acrescentar ==
  ASSUME NEW S, NEW s \in Seq(S), NEW x \in S
  PROVE  /\ Append(s, x) \in Seq(S) /\ Append(s, x) # <<>>
         /\ Len(Append(s, x)) = Len(s) + 1
         /\ \A i \in 1..Len(s) : Append(s, x)[i] = s[i]
         /\ Append(s, x)[Len(s) + 1] = x
  OBVIOUS

LEMMA Retirar ==
  ASSUME NEW S, NEW s \in Seq(S), s # <<>>
  PROVE  /\ Head(s) \in S /\ Head(s) = s[1] /\ Len(s) >= 1
         /\ Tail(s) \in Seq(S) /\ Len(Tail(s)) = Len(s) - 1
         /\ \A i \in 1..Len(Tail(s)) : Tail(s)[i] = s[i + 1]
  OBVIOUS

(* The back button takes the step before the home screen off the stack.    *)
LEMMA Recuar ==
  ASSUME TypeOK, PilhaOK, Voltar
  PROVE  /\ pilha' \in Seq(Paginas) /\ pilha' # <<>> /\ Len(pilha') = Len(pilha) - 1
         /\ pilha[Len(pilha)] = "signIn"
         /\ \A i \in 1..Len(pilha') : pilha'[i] = pilha[i]
  <1>1. pilha \in Seq(Paginas) /\ pilha # <<>> /\ Len(pilha) \in Nat \ {0}
    BY DEF TypeOK
  <1>2. pilha[Len(pilha)] = "signIn" /\ pilha' = SubSeq(pilha, 1, Len(pilha) - 1)
    BY DEF Voltar, NaPagina
  <1>3. Len(pilha) # 1
    BY <1>2 DEF PilhaOK
  <1> DEFINE n == Len(pilha) - 1
  <1>4. n \in Nat \ {0} /\ \A i \in 1..n : pilha[i] \in Paginas
    BY <1>1, <1>3
  <1>5. pilha' = SubSeq(pilha, 1, n)
    BY <1>2
  <1> HIDE DEF n
  <1>6. /\ SubSeq(pilha, 1, n) \in Seq(Paginas)
        /\ Len(SubSeq(pilha, 1, n)) = IF 1 <= n THEN n - 1 + 1 ELSE 0
        /\ \A i \in 1..n - 1 + 1 : SubSeq(pilha, 1, n)[i] = pilha[1 + i - 1]
    BY <1>4, SubSeqProperties
  <1>7. /\ pilha' \in Seq(Paginas) /\ Len(pilha') = n
        /\ \A i \in 1..n : pilha'[i] = pilha[i]
    BY <1>4, <1>5, <1>6
  <1> QED BY <1>1, <1>2, <1>4, <1>7 DEF n

LEMMA RetornoTipado ==
  ASSUME TypeOK, NEW p \in pedidos, NEW ok \in BOOLEAN
  PROVE  /\ Retorno(p, ok) \in Retornos
         /\ Retorno(p, ok).op = p.op /\ Retorno(p, ok).email = p.email /\ Retorno(p, ok).ok = ok
  BY DEF TypeOK, Retorno, Retornos, Pedidos

LEMMA Enfileirar ==
  ASSUME TypeOK, NEW p \in pedidos, NEW ok \in BOOLEAN, fila' = Append(fila, Retorno(p, ok))
  PROVE  /\ Len(fila') = Len(fila) + 1
         /\ \A i \in 1..Len(fila) : fila'[i] = fila[i]
         /\ fila'[Len(fila) + 1] = Retorno(p, ok)
         /\ fila'[Len(fila) + 1].op = p.op /\ fila'[Len(fila) + 1].email = p.email
         /\ fila'[Len(fila) + 1].ok = ok
  <1>1. fila \in Seq(Retornos)
    BY DEF TypeOK
  <1>2. \A x \in Retornos :
          /\ Len(Append(fila, x)) = Len(fila) + 1 /\ Append(fila, x)[Len(fila) + 1] = x
          /\ \A i \in 1..Len(fila) : Append(fila, x)[i] = fila[i]
    BY <1>1, Acrescentar
  <1>3. /\ Retorno(p, ok) \in Retornos
        /\ Retorno(p, ok).op = p.op /\ Retorno(p, ok).email = p.email /\ Retorno(p, ok).ok = ok
    BY RetornoTipado
  <1> QED BY <1>2, <1>3

(* The sign-in that a registration's closure asks for.                     *)
Implicita(r) == [n |-> r.n, op |-> "entrar", email |-> r.email, visivel |-> FALSE, feito |-> FALSE]

LEMMA Cadastro ==
  ASSUME TypeOK, RetornarCadastro
  PROVE  /\ fila # <<>> /\ fila' = Tail(fila) /\ Head(fila) \in Retornos
         /\ Head(fila).op = "criar" /\ queda = "nenhuma" /\ ~saindo
         /\ UNCHANGED <<usuario, contas, perfis, pilha, principal, menu, feitos, falhas, reinicios>>
         /\ \/ UNCHANGED <<pedidos, escritas, saindo, queda>>
            \/ /\ Head(fila).ok /\ Implicita(Head(fila)) \in Pedidos
               /\ pedidos' = pedidos \cup {Implicita(Head(fila))}
               /\ \/ usuario = Nulo /\ queda' = "cadastro" /\ UNCHANGED <<escritas, saindo>>
                  \/ /\ usuario # Nulo /\ saindo' = TRUE /\ UNCHANGED queda
                     /\ ComPerfil(Head(fila)) = Append(escritas, [uid |-> usuario, email |-> Head(fila).email])
                     /\ escritas' = ComPerfil(Head(fila))
                     /\ [uid |-> usuario, email |-> Head(fila).email] \in Escritas
  <1>1. fila # <<>> /\ fila' = Tail(fila) /\ Head(fila).op = "criar" /\ queda = "nenhuma" /\ ~saindo
    BY DEF RetornarCadastro, Proximo, Livre
  <1>2. Head(fila) \in Retornos
    BY <1>1, Retirar DEF TypeOK
  <1>3. Implicita(Head(fila)) \in Pedidos
    BY <1>2 DEF Implicita, Retornos, Pedidos
  <1>4. usuario # Nulo => [uid |-> usuario, email |-> Head(fila).email] \in Escritas
    BY <1>2 DEF TypeOK, Retornos, Escritas
  <1>5. UNCHANGED <<usuario, contas, perfis, pilha, principal, menu, feitos, falhas, reinicios>>
    BY DEF RetornarCadastro, servidor, telas, limites
  <1>6. CASE ~Head(fila).ok
    BY <1>1, <1>2, <1>5, <1>6 DEF RetornarCadastro, Criou, Identificado
  <1>7. CASE Head(fila).ok
    BY <1>1, <1>2, <1>3, <1>4, <1>5, <1>7 DEF RetornarCadastro, Criou, Identificado, Implicita, ComPerfil
  <1> QED BY <1>6, <1>7

(* A registration once finished stays so until the app is started again.   *)
LEMMA CadastrouFica ==
  ASSUME TypeOK, PilhaOK, [Next]_vars, ~Reiniciar
  PROVE  PilhaOK' /\ (Cadastrou => Cadastrou')
  <1>1. ASSUME NEW x \in Paginas, pilha' = Append(pilha, x) PROVE PilhaOK' /\ (Cadastrou => Cadastrou')
    <2>1. /\ pilha \in Seq(Paginas) /\ Len(pilha) >= 1 /\ Len(pilha') = Len(pilha) + 1
          /\ \A i \in 1..Len(pilha) : pilha'[i] = pilha[i]
      BY <1>1, Acrescentar DEF TypeOK
    <2> QED BY <2>1 DEF PilhaOK, Cadastrou
  <1>2. CASE Voltar
    <2>1. /\ Len(pilha') = Len(pilha) - 1 /\ pilha[Len(pilha)] = "signIn"
          /\ Len(pilha') \in Nat \ {0} /\ \A i \in 1..Len(pilha') : pilha'[i] = pilha[i]
      BY <1>2, Recuar
    <2>2. ASSUME NEW i \in 2..Len(pilha), pilha[i - 1] = "register", pilha[i] = "access"
          PROVE  i \in 2..Len(pilha') /\ pilha'[i - 1] = "register" /\ pilha'[i] = "access"
      <3>1. i # Len(pilha)
        BY <2>1, <2>2
      <3> QED BY <2>1, <2>2, <3>1
    <2> QED BY <2>1, <2>2 DEF PilhaOK, Cadastrou
  <1>3. CASE Registrar
    BY <1>1, <1>3 DEF Registrar, Paginas
  <1>4. ASSUME NEW e \in Emails, Cadastrar(e) PROVE PilhaOK' /\ (Cadastrou => Cadastrou')
    BY <1>1, <1>4 DEF Cadastrar, Paginas
  <1>5. ASSUME UNCHANGED pilha PROVE PilhaOK' /\ (Cadastrou => Cadastrou')
    BY <1>5 DEF PilhaOK, Cadastrou
  <1>6. CASE RetornarEntrada
    BY <1>1, <1>5, <1>6 DEF RetornarEntrada, Paginas
  <1> QED
    BY <1>2, <1>3, <1>4, <1>5, <1>6
    DEF Next, Usuario, Responder, Escrever, Retornar, Entrar, Acessar, Atalho, AbrirMenu,
        ConfirmarSemUsuario, Sair, CriarConta, ResponderPedido, FalharPedido, GravarPerfil,
        RecusarPerfil, RetornarCadastro, Deslogar, Parado, vars, telas

LEMMA CadastrarCadastra ==
  ASSUME TypeOK, NEW e \in Emails, Cadastrar(e)
  PROVE  Cadastrou'
  <1>1. /\ pilha \in Seq(Paginas) /\ Len(pilha) >= 1 /\ pilha[Len(pilha)] = "register"
        /\ pilha' = Append(pilha, "access") /\ "access" \in Paginas
    BY DEF Cadastrar, NaPagina, TypeOK, Paginas
  <1>2. /\ Len(pilha') = Len(pilha) + 1 /\ pilha'[Len(pilha) + 1] = "access"
        /\ pilha'[Len(pilha)] = "register"
    BY <1>1, Acrescentar
  <1>3. \E i \in 2..Len(pilha') : pilha'[i - 1] = "register" /\ pilha'[i] = "access"
    <2>1. Len(pilha) + 1 \in 2..Len(pilha') /\ Len(pilha) + 1 - 1 = Len(pilha)
      BY <1>1, <1>2
    <2> QED BY <1>1, <1>2, <2>1
  <1> QED BY <1>3 DEF Cadastrou

-----------------------------------------------------------------------------
LEMMA PassoTipos == ASSUME TypeOK, PilhaOK, [Next]_vars PROVE TypeOK'
  <1> USE DEF TypeOK, servidor, telas, limites
  <1>1. ASSUME NEW op \in {"criar", "entrar"}, NEW e \in Emails, feitos < MaxPedidos
        PROVE  Novo(op, e) \in Pedidos /\ feitos + 1 \in 0..MaxPedidos
    BY <1>1, LimitesAssumption DEF Novo, Pedidos
  <1>2. ASSUME NEW x \in Paginas PROVE Append(pilha, x) \in Seq(Paginas) /\ Append(pilha, x) # <<>>
    BY Acrescentar
  <1>3. ASSUME NEW e \in Emails, Entrar(e) \/ Cadastrar(e) PROVE TypeOK'
    BY <1>1, <1>2, <1>3 DEF Entrar, Cadastrar, Paginas
  <1>4. CASE Registrar
    <2>1. pilha' \in Seq(Paginas) /\ pilha' # <<>> /\ feitos < MaxPedidos
      BY <1>2, <1>4 DEF Registrar, Paginas
    <2>2. pedidos' \subseteq Pedidos /\ feitos' \in 0..MaxPedidos
      BY <1>1, <1>4, <2>1 DEF Registrar
    <2> QED BY <1>4, <2>1, <2>2 DEF Registrar
  <1>5. CASE Voltar
    BY <1>5, Recuar DEF Voltar
  <1>6. CASE Acessar \/ Atalho \/ ConfirmarSemUsuario \/ Sair
    BY <1>6 DEF Acessar, Atalho, ConfirmarSemUsuario, Sair
  <1>7. CASE AbrirMenu
    <2>1. menu' \in BOOLEAN
      BY <1>7, Zenon DEF AbrirMenu
    <2> QED BY <1>7, <2>1 DEF AbrirMenu
  <1>8. ASSUME NEW p \in pedidos, CriarConta(p) PROVE TypeOK'
    <2>1. [p EXCEPT !.feito = TRUE] \in Pedidos /\ p.email \in Emails
      BY DEF Pedidos
    <2> QED BY <1>8, <2>1 DEF CriarConta
  <1>9. ASSUME NEW p \in pedidos, ResponderPedido(p) \/ FalharPedido(p) PROVE TypeOK'
    <2>1. fila' \in Seq(Retornos)
      <3>1. Retorno(p, TRUE) \in Retornos /\ Retorno(p, FALSE) \in Retornos
        BY RetornoTipado
      <3>2. fila' = Append(fila, Retorno(p, TRUE)) \/ fila' = Append(fila, Retorno(p, FALSE))
        BY <1>9 DEF ResponderPedido, FalharPedido
      <3>3. \A x \in Retornos : Append(fila, x) \in Seq(Retornos)
        BY Acrescentar
      <3> QED BY <3>1, <3>2, <3>3
    <2>2. usuario' \in Emails \cup {Nulo}
      BY <1>9 DEF ResponderPedido, FalharPedido, SessaoDe, Pedidos
    <2>3. falhas' \in 0..MaxFalhas
      <3>1. CASE ResponderPedido(p)
        BY <3>1 DEF ResponderPedido
      <3>2. CASE FalharPedido(p)
        <4>1. falhas' = falhas \/ (falhas < MaxFalhas /\ falhas' = falhas + 1)
          BY <3>2 DEF FalharPedido
        <4> QED BY <4>1, LimitesAssumption
      <3> QED BY <1>9, <3>1, <3>2
    <2> QED BY <1>9, <2>1, <2>2, <2>3 DEF ResponderPedido, FalharPedido
  <1>10. CASE GravarPerfil
    <2>1. escritas # <<>> /\ escritas' = Tail(escritas)
      BY <1>10 DEF GravarPerfil
    <2>2. Head(escritas) \in Escritas /\ escritas' \in Seq(Escritas)
      BY <2>1, Retirar
    <2>3. Head(escritas).uid \in Emails /\ Head(escritas).email \in Emails
      BY <2>2 DEF Escritas
    <2> QED BY <1>10, <2>2, <2>3 DEF GravarPerfil
  <1>11. CASE RecusarPerfil
    BY <1>11, Retirar, LimitesAssumption DEF RecusarPerfil
  <1>12. CASE RetornarCadastro
    <2>1. fila' \in Seq(Retornos)
      <3>1. fila # <<>> /\ fila' = Tail(fila)
        BY <1>12, Cadastro
      <3> QED BY <3>1, Retirar
    <2>2. pedidos' \subseteq Pedidos
      BY <1>12, Cadastro
    <2>3. escritas' \in Seq(Escritas)
      <3>1. \/ escritas' = escritas
            \/ \E w \in Escritas : escritas' = Append(escritas, w)
        BY <1>12, Cadastro
      <3>2. \A w \in Escritas : Append(escritas, w) \in Seq(Escritas)
        BY Acrescentar
      <3> QED BY <3>1, <3>2
    <2>4. saindo' \in BOOLEAN
      BY <1>12, Cadastro
    <2> QED BY <1>12, <2>1, <2>2, <2>3, <2>4, Cadastro
  <1>13. CASE Deslogar
    <2>1. saindo' \in BOOLEAN
      BY <1>13, Zenon DEF Deslogar
    <2> QED BY <1>13, <2>1, LimitesAssumption DEF Deslogar
  <1>14. CASE RetornarEntrada
    <2>1. fila' \in Seq(Retornos)
      BY <1>14, Retirar DEF RetornarEntrada, Proximo
    <2> QED BY <1>2, <1>14, <2>1 DEF RetornarEntrada, Paginas
  <1>15. CASE Reiniciar
    <2>1. saindo' \in BOOLEAN /\ menu' \in BOOLEAN
      BY <1>15, Zenon DEF Reiniciar
    <2> QED BY <1>15, <2>1, LimitesAssumption DEF Reiniciar, Paginas
  <1>16. CASE Parado \/ UNCHANGED vars
    BY <1>16 DEF Parado, vars
  <1> QED BY <1>3, <1>4, <1>5, <1>6, <1>7, <1>8, <1>9, <1>10, <1>11, <1>12, <1>13, <1>14, <1>15, <1>16
          DEF Next, Usuario, Responder, Escrever, Retornar

-----------------------------------------------------------------------------
(* How a step moves the queue of closures and the session: they move       *)
(* together only when FIRAuth answers.                                     *)
LEMMA Movimento ==
  ASSUME TypeOK, [Next]_vars
  PROVE  \/ UNCHANGED <<fila, usuario>>
         \/ fila' = <<>> /\ UNCHANGED usuario
         \/ UNCHANGED fila /\ saindo /\ usuario' \in {usuario, Nulo}
         \/ fila # <<>> /\ fila' = Tail(fila) /\ UNCHANGED usuario
         \/ \E p \in pedidos : /\ fila' = Append(fila, Retorno(p, TRUE)) /\ usuario' = p.email
                              /\ Aceita(p) /\ UNCHANGED contas
         \/ \E p \in pedidos : fila' = Append(fila, Retorno(p, FALSE)) /\ UNCHANGED usuario
  <1>1. ASSUME NEW p \in pedidos, ResponderPedido(p)
        PROVE  fila' = Append(fila, Retorno(p, TRUE)) /\ usuario' = p.email /\ Aceita(p) /\ UNCHANGED contas
    BY <1>1 DEF ResponderPedido, SessaoDe, servidor
  <1>2. ASSUME NEW p \in pedidos, FalharPedido(p)
        PROVE  fila' = Append(fila, Retorno(p, FALSE)) /\ UNCHANGED usuario
    BY <1>2 DEF FalharPedido
  <1>3. CASE RetornarCadastro
    BY <1>3, Cadastro
  <1>4. CASE RetornarEntrada
    BY <1>4 DEF RetornarEntrada, Proximo
  <1>5. CASE Deslogar
    BY <1>5 DEF Deslogar
  <1>6. CASE Reiniciar
    BY <1>6 DEF Reiniciar
  <1> QED
    BY <1>1, <1>2, <1>3, <1>4, <1>5, <1>6
    DEF Next, Usuario, Responder, Escrever, Retornar, Entrar, Cadastrar, Registrar, Voltar, Acessar,
        Atalho, AbrirMenu, ConfirmarSemUsuario, Sair, CriarConta, GravarPerfil, RecusarPerfil,
        Parado, vars

LEMMA PassoSessao == ASSUME IInv, [Next]_vars PROVE SucessoTemSessao' /\ SessaoDoUltimo'
  <1>0. /\ TypeOK /\ PilhaOK /\ SucessoTemSessao /\ SessaoDoUltimo /\ (saindo => Cadastrou)
        /\ fila \in Seq(Retornos) /\ Len(fila) \in Nat
    BY DEF IInv, TypeOK, CadastroPedido
  <1>1. CASE Reiniciar
    BY <1>1 DEF Reiniciar, SucessoTemSessao, SessaoDoUltimo, Sucessos
  <1>2. CASE ~Reiniciar
    <2>0. Cadastrou => Cadastrou'
      BY <1>0, <1>2, CadastrouFica
    <2>1. CASE UNCHANGED <<fila, usuario>>
      BY <1>0, <2>0, <2>1 DEF SucessoTemSessao, SessaoDoUltimo, Sucessos
    <2>2. CASE fila' = <<>>
      BY <2>2 DEF SucessoTemSessao, SessaoDoUltimo, Sucessos
    <2>3. CASE UNCHANGED fila /\ saindo /\ usuario' \in {usuario, Nulo}
      BY <1>0, <2>0, <2>3 DEF SucessoTemSessao, SessaoDoUltimo, Sucessos
    <2>4. CASE fila # <<>> /\ fila' = Tail(fila) /\ UNCHANGED usuario
      <3>1. /\ Len(fila') \in Nat /\ Len(fila) = Len(fila') + 1
            /\ \A i \in 1..Len(fila') : fila'[i] = fila[i + 1] /\ i + 1 \in 1..Len(fila)
        BY <1>0, <2>4, Retirar
      <3>2. SucessoTemSessao'
        BY <1>0, <2>0, <2>4, <3>1 DEF SucessoTemSessao
      <3>3. ASSUME NEW i \in Sucessos', \A j \in Sucessos' : j <= i
            PROVE  usuario' = fila'[i].email \/ (usuario' = Nulo /\ Cadastrou')
        <4>1. i + 1 \in Sucessos /\ fila'[i] = fila[i + 1]
          BY <3>1 DEF Sucessos
        <4>2. ASSUME NEW j \in Sucessos PROVE j <= i + 1
          <5>1. j \in 1..Len(fila) /\ fila[j].ok
            BY DEF Sucessos
          <5>2. CASE j = 1
            BY <3>1, <5>2 DEF Sucessos
          <5>3. CASE j # 1
            <6>1. j - 1 \in 1..Len(fila') /\ fila'[j - 1] = fila[j]
              BY <3>1, <5>1, <5>3
            <6>2. j - 1 \in Sucessos'
              BY <5>1, <6>1 DEF Sucessos
            <6> QED BY <3>1, <3>3, <5>1, <6>2 DEF Sucessos
          <5> QED BY <5>2, <5>3
        <4> QED BY <1>0, <2>0, <2>4, <4>1, <4>2 DEF SessaoDoUltimo
      <3> QED BY <3>2, <3>3 DEF SessaoDoUltimo
    <2>5. ASSUME NEW p \in pedidos, fila' = Append(fila, Retorno(p, TRUE)), usuario' = p.email
          PROVE  SucessoTemSessao' /\ SessaoDoUltimo'
      <3>1. /\ Len(fila') = Len(fila) + 1 /\ fila'[Len(fila) + 1].ok
            /\ fila'[Len(fila) + 1].email = p.email
        BY <1>0, <2>5, Enfileirar
      <3>2. Len(fila) + 1 \in Sucessos' /\ \A i \in Sucessos' : i \in 1..Len(fila) + 1
        BY <1>0, <3>1 DEF Sucessos
      <3>3. usuario' # Nulo
        BY <1>0, <2>5, NuloAssumption DEF TypeOK, Pedidos
      <3>4. ASSUME NEW i \in Sucessos', \A j \in Sucessos' : j <= i PROVE usuario' = fila'[i].email
        <4>1. i = Len(fila) + 1
          BY <1>0, <3>2, <3>4
        <4> QED BY <2>5, <3>1, <4>1
      <3> QED BY <3>3, <3>4 DEF SucessoTemSessao, SessaoDoUltimo
    <2>6. ASSUME NEW p \in pedidos, fila' = Append(fila, Retorno(p, FALSE)), UNCHANGED usuario
          PROVE  SucessoTemSessao' /\ SessaoDoUltimo'
      <3>1. /\ Len(fila') = Len(fila) + 1 /\ ~fila'[Len(fila) + 1].ok
            /\ \A i \in 1..Len(fila) : fila'[i] = fila[i]
        BY <1>0, <2>6, Enfileirar
      <3>2. \A i \in 1..Len(fila') : fila'[i].ok => i \in 1..Len(fila)
        BY <1>0, <3>1
      <3>3. Sucessos' = Sucessos
        BY <1>0, <3>1, <3>2 DEF Sucessos
      <3>4. \A i \in Sucessos : fila'[i] = fila[i]
        BY <3>1 DEF Sucessos
      <3>5. SucessoTemSessao'
        BY <1>0, <2>0, <2>6, <3>1, <3>2 DEF SucessoTemSessao
      <3> QED BY <1>0, <2>0, <2>6, <3>3, <3>4, <3>5 DEF SessaoDoUltimo
    <2> QED BY <1>0, <2>1, <2>2, <2>3, <2>4, <2>5, <2>6, Movimento
  <1> QED BY <1>1, <1>2

LEMMA PassoCadastro == ASSUME IInv, [Next]_vars PROVE PilhaOK' /\ CadastroPedido'
  <1>0. /\ TypeOK /\ PilhaOK /\ CadastroPedido /\ fila \in Seq(Retornos) /\ Len(fila) \in Nat
    BY DEF IInv, TypeOK
  <1>1. CASE Reiniciar
    BY <1>1 DEF Reiniciar, PilhaOK, CadastroPedido
  <1>2. CASE ~Reiniciar
    <2>0. PilhaOK' /\ (Cadastrou => Cadastrou')
      BY <1>0, <1>2, CadastrouFica
    <2>1. ASSUME NEW i \in 1..Len(fila'), fila'[i].op = "criar" PROVE Cadastrou
      <3>1. CASE fila' = fila
        BY <1>0, <2>1, <3>1 DEF CadastroPedido
      <3>2. CASE fila # <<>> /\ fila' = Tail(fila)
        <4>1. fila'[i] = fila[i + 1] /\ i + 1 \in 1..Len(fila)
          BY <1>0, <3>2, Retirar
        <4> QED BY <1>0, <2>1, <4>1 DEF CadastroPedido
      <3>3. ASSUME NEW p \in pedidos, NEW ok \in BOOLEAN, fila' = Append(fila, Retorno(p, ok))
            PROVE  Cadastrou
        <4>1. /\ Len(fila') = Len(fila) + 1 /\ fila'[Len(fila) + 1].op = p.op
              /\ \A j \in 1..Len(fila) : fila'[j] = fila[j]
          BY <1>0, <3>3, Enfileirar
        <4>2. \/ i \in 1..Len(fila) /\ fila'[i] = fila[i]
              \/ fila'[i].op = p.op
          BY <1>0, <4>1
        <4> QED BY <1>0, <2>1, <4>2 DEF CadastroPedido
      <3>4. CASE fila' = <<>>
        BY <3>4
      <3> QED BY <1>0, <3>1, <3>2, <3>3, <3>4, Movimento
    <2>2. ASSUME NEW p \in pedidos', p.op = "criar" PROVE Cadastrou'
      <3>1. CASE \E q \in pedidos : q.op = "criar"
        BY <1>0, <2>0, <3>1 DEF CadastroPedido
      <3>2. CASE \A q \in pedidos : q.op # "criar"
        <4>1. ASSUME NEW e \in Emails, Cadastrar(e) PROVE Cadastrou'
          BY <1>0, <4>1, CadastrarCadastra
        <4>2. CASE RetornarCadastro
          <5>1. pedidos' = pedidos \/ pedidos' = pedidos \cup {Implicita(Head(fila))}
            BY <1>0, <4>2, Cadastro
          <5>2. Implicita(Head(fila)).op = "entrar"
            BY DEF Implicita
          <5> QED BY <2>2, <3>2, <5>1, <5>2
        <4>3. ASSUME NEW e \in Emails PROVE Novo("entrar", e).op = "entrar"
          BY DEF Novo
        <4>4. ASSUME NEW q \in pedidos, CriarConta(q) PROVE FALSE
          BY <3>2, <4>4 DEF CriarConta
        <4>5. ASSUME NEW e \in Emails, Entrar(e) PROVE FALSE
          BY <2>2, <3>2, <4>3, <4>5 DEF Entrar
        <4>6. CASE Registrar
          <5>1. \/ pedidos' = pedidos
                \/ \E e \in Emails : pedidos' = pedidos \cup {Novo("entrar", e)}
            BY <4>6 DEF Registrar
          <5> QED BY <2>2, <3>2, <4>3, <5>1
        <4>7. CASE pedidos' \subseteq pedidos
          BY <2>2, <3>2, <4>7
        <4> QED
          BY <4>1, <4>2, <4>4, <4>5, <4>6, <4>7, <1>2
          DEF Next, Usuario, Responder, Escrever, Retornar, Voltar, Acessar,
              Atalho, AbrirMenu, ConfirmarSemUsuario, Sair, ResponderPedido, FalharPedido,
              GravarPerfil, RecusarPerfil, Deslogar, RetornarEntrada, Parado, vars
      <3> QED BY <3>1, <3>2
    <2>3. ASSUME saindo' PROVE Cadastrou'
      <3>1. CASE saindo
        BY <1>0, <2>0, <3>1 DEF CadastroPedido
      <3>2. CASE RetornarCadastro
        <4>1. fila # <<>> /\ Head(fila).op = "criar"
          BY <1>0, <3>2, Cadastro
        <4>2. Head(fila) = fila[1] /\ 1 \in 1..Len(fila)
          BY <1>0, <4>1, Retirar
        <4> QED BY <1>0, <2>0, <4>1, <4>2 DEF CadastroPedido
      <3>3. CASE ~saindo /\ ~RetornarCadastro
        BY <1>2, <2>3, <3>3
        DEF Next, Usuario, Responder, Escrever, Retornar, Entrar, Cadastrar, Registrar, Voltar, Acessar,
            Atalho, AbrirMenu, ConfirmarSemUsuario, Sair, CriarConta, ResponderPedido, FalharPedido,
            GravarPerfil, RecusarPerfil, Deslogar, RetornarEntrada, Parado, vars
      <3> QED BY <3>1, <3>2, <3>3
    <2> QED BY <2>0, <2>1, <2>2, <2>3 DEF CadastroPedido
  <1> QED BY <1>1, <1>2

(* What an answer, a write or the session names stays.                     *)
LEMMA ContasFicam == ASSUME [Next]_vars PROVE contas \subseteq contas'
  BY DEF Next, Usuario, Responder, Escrever, Retornar, Entrar, Cadastrar, Registrar, Voltar, Acessar,
         Atalho, AbrirMenu, ConfirmarSemUsuario, Sair, CriarConta, ResponderPedido, FalharPedido,
         GravarPerfil, RecusarPerfil, RetornarCadastro, Deslogar, RetornarEntrada, Reiniciar, Parado,
         vars, servidor

LEMMA AceitoExiste ==
  ASSUME TypeOK, ContasExistem, NEW p \in pedidos, Aceita(p)
  PROVE  p.email \in contas
  BY DEF TypeOK, ContasExistem, Aceita, Pedidos

(* The requests that a step leaves under way.                              *)
LEMMA PassoPedidos ==
  ASSUME TypeOK, ContasExistem, [Next]_vars
  PROVE  \A p \in pedidos' : p.feito => p.email \in contas'
  <1>0. contas \subseteq contas' /\ \A p \in pedidos : p.feito => p.email \in contas
    BY ContasFicam DEF ContasExistem
  <1>1. \A op \in {"criar", "entrar"}, e \in Emails : ~Novo(op, e).feito
    BY DEF Novo
  <1>2. CASE pedidos' \subseteq pedidos
    BY <1>0, <1>2
  <1>3. ASSUME NEW e \in Emails, Entrar(e) \/ Cadastrar(e)
        PROVE  \A p \in pedidos' : p.feito => p.email \in contas'
    BY <1>0, <1>1, <1>3 DEF Entrar, Cadastrar
  <1>4. CASE Registrar
    <2>1. \/ pedidos' = pedidos
          \/ \E e \in Emails : pedidos' = pedidos \cup {Novo("entrar", e)}
      BY <1>4 DEF Registrar
    <2> QED BY <1>0, <1>1, <2>1
  <1>5. ASSUME NEW q \in pedidos, CriarConta(q)
        PROVE  \A p \in pedidos' : p.feito => p.email \in contas'
    <2>1. [q EXCEPT !.feito = TRUE].email = q.email
      BY DEF TypeOK, Pedidos
    <2> QED BY <1>0, <1>5, <2>1 DEF CriarConta
  <1>6. CASE RetornarCadastro
    <2>1. pedidos' = pedidos \/ pedidos' = pedidos \cup {Implicita(Head(fila))}
      BY <1>6, Cadastro
    <2> QED BY <1>0, <2>1 DEF Implicita
  <1> QED
    BY <1>2, <1>3, <1>4, <1>5, <1>6
    DEF Next, Usuario, Responder, Escrever, Retornar, Voltar, Acessar, Atalho, AbrirMenu,
        ConfirmarSemUsuario, Sair, ResponderPedido, FalharPedido, GravarPerfil, RecusarPerfil,
        Deslogar, RetornarEntrada, Reiniciar, Parado, vars

(* The closures it leaves queued.                                          *)
LEMMA PassoFila ==
  ASSUME TypeOK, ContasExistem, [Next]_vars
  PROVE  \A i \in 1..Len(fila') : fila'[i].ok => fila'[i].email \in contas'
  <1>0. /\ contas \subseteq contas' /\ fila \in Seq(Retornos) /\ Len(fila) \in Nat
        /\ \A i \in 1..Len(fila) : fila[i].ok => fila[i].email \in contas
    BY ContasFicam DEF TypeOK, ContasExistem
  <1> SUFFICES ASSUME NEW i \in 1..Len(fila'), fila'[i].ok PROVE fila'[i].email \in contas'
    OBVIOUS
  <1>1. CASE fila' = fila \/ fila' = <<>>
    BY <1>0, <1>1
  <1>2. CASE fila # <<>> /\ fila' = Tail(fila)
    <2>1. fila'[i] = fila[i + 1] /\ i + 1 \in 1..Len(fila)
      BY <1>0, <1>2, Retirar
    <2> QED BY <1>0, <2>1
  <1>3. ASSUME NEW p \in pedidos, NEW ok \in BOOLEAN, ok => Aceita(p), fila' = Append(fila, Retorno(p, ok))
        PROVE  fila'[i].email \in contas'
    <2>1. /\ Len(fila') = Len(fila) + 1
          /\ fila'[Len(fila) + 1].email = p.email /\ fila'[Len(fila) + 1].ok = ok
          /\ \A j \in 1..Len(fila) : fila'[j] = fila[j]
      BY <1>3, Enfileirar
    <2>2. CASE i = Len(fila) + 1
      BY <1>0, <1>3, <2>1, <2>2, AceitoExiste
    <2>3. CASE i \in 1..Len(fila)
      BY <1>0, <2>1, <2>3
    <2> QED BY <1>0, <2>1, <2>2, <2>3
  <1> QED BY <1>1, <1>2, <1>3, Movimento

(* A write that a step adds is the last one, of a registration's closure.  *)
LEMMA Escrita ==
  ASSUME TypeOK, [Next]_vars
  PROVE  \/ escritas' = escritas \/ escritas' = <<>>
         \/ escritas # <<>> /\ escritas' = Tail(escritas)
         \/ /\ RetornarCadastro /\ Head(fila).ok /\ usuario # Nulo
            /\ escritas' = Append(escritas, [uid |-> usuario, email |-> Head(fila).email])
  <1>1. CASE RetornarCadastro
    BY <1>1, Cadastro
  <1> QED
    BY <1>1
    DEF Next, Usuario, Responder, Escrever, Retornar, Entrar, Cadastrar, Registrar, Voltar, Acessar,
        Atalho, AbrirMenu, ConfirmarSemUsuario, Sair, CriarConta, ResponderPedido, FalharPedido,
        GravarPerfil, RecusarPerfil, Deslogar, RetornarEntrada, Reiniciar, Parado, vars

(* It is where it was added, with the fields it was given.                 *)
LEMMA NovaEscrita ==
  ASSUME TypeOK, RetornarCadastro, Head(fila).ok, usuario # Nulo,
         escritas' = Append(escritas, [uid |-> usuario, email |-> Head(fila).email])
  PROVE  /\ Len(escritas') = Len(escritas) + 1
         /\ \A i \in 1..Len(escritas) : escritas'[i] = escritas[i]
         /\ escritas'[Len(escritas) + 1].uid = usuario
         /\ escritas'[Len(escritas) + 1].email = Head(fila).email
  <1>1. escritas \in Seq(Escritas) /\ Head(fila) \in Retornos
    BY Cadastro DEF TypeOK
  <1>2. [uid |-> usuario, email |-> Head(fila).email] \in Escritas
    BY <1>1 DEF TypeOK, Retornos, Escritas
  <1>3. \A x \in Escritas :
          /\ Len(Append(escritas, x)) = Len(escritas) + 1 /\ Append(escritas, x)[Len(escritas) + 1] = x
          /\ \A i \in 1..Len(escritas) : Append(escritas, x)[i] = escritas[i]
    BY <1>1, Acrescentar
  <1> QED BY <1>2, <1>3

LEMMA PassoEscritas ==
  ASSUME TypeOK, ContasExistem, [Next]_vars
  PROVE  \A i \in 1..Len(escritas') : escritas'[i].uid \in contas' /\ escritas'[i].email \in contas'
  <1>0. /\ contas \subseteq contas' /\ escritas \in Seq(Escritas) /\ Len(escritas) \in Nat
        /\ \A i \in 1..Len(escritas) : escritas[i].uid \in contas /\ escritas[i].email \in contas
    BY ContasFicam DEF TypeOK, ContasExistem
  <1> SUFFICES ASSUME NEW i \in 1..Len(escritas')
               PROVE  escritas'[i].uid \in contas' /\ escritas'[i].email \in contas'
    OBVIOUS
  <1>1. CASE escritas' = escritas \/ escritas' = <<>>
    BY <1>0, <1>1
  <1>2. CASE escritas # <<>> /\ escritas' = Tail(escritas)
    <2>1. escritas'[i] = escritas[i + 1] /\ i + 1 \in 1..Len(escritas)
      BY <1>0, <1>2, Retirar
    <2> QED BY <1>0, <2>1
  <1>3. ASSUME RetornarCadastro, Head(fila).ok, usuario # Nulo,
               escritas' = Append(escritas, [uid |-> usuario, email |-> Head(fila).email])
        PROVE  escritas'[i].uid \in contas' /\ escritas'[i].email \in contas'
    <2>1. /\ Len(escritas') = Len(escritas) + 1
          /\ \A j \in 1..Len(escritas) : escritas'[j] = escritas[j]
          /\ escritas'[Len(escritas) + 1].uid = usuario
          /\ escritas'[Len(escritas) + 1].email = Head(fila).email
      BY <1>3, NovaEscrita
    <2>2. usuario \in contas
      BY <1>3 DEF ContasExistem
    <2>3. fila \in Seq(Retornos) /\ fila # <<>>
      BY <1>3, Cadastro DEF TypeOK
    <2>4. Head(fila) = fila[1] /\ 1 \in 1..Len(fila)
      BY <2>3, Retirar
    <2>5. Head(fila).email \in contas
      BY <1>3, <2>4 DEF ContasExistem
    <2> QED BY <1>0, <2>1, <2>2, <2>5
  <1> QED BY <1>1, <1>2, <1>3, Escrita

LEMMA PassoContas == ASSUME IInv, [Next]_vars PROVE ContasExistem'
  <1>0. TypeOK /\ ContasExistem /\ contas \subseteq contas' /\ usuario \in contas \cup {Nulo}
    BY ContasFicam DEF IInv, ContasExistem
  <1>1. usuario' \in contas' \cup {Nulo}
    BY <1>0, Movimento, AceitoExiste
  <1> QED BY <1>0, <1>1, PassoPedidos, PassoFila, PassoEscritas DEF ContasExistem

(* Without a registration, what keeps the session keeps the pages on it.   *)
LEMMA PassoMotivo == ASSUME IInv, [Next]_vars PROVE SemSessaoTemMotivo'
  <1>0. /\ TypeOK /\ PilhaOK /\ pilha \in Seq(Paginas) /\ Len(pilha) \in Nat \ {0}
        /\ fila \in Seq(Retornos)
    BY DEF IInv, TypeOK
  <1>1. CASE Reiniciar
    BY <1>1 DEF Reiniciar, SemSessaoTemMotivo
  <1>2. CASE ~Reiniciar /\ ~Cadastrou'
    <2>1. ~Cadastrou
      BY <1>0, <1>2, CadastrouFica
    <2>2. /\ usuario = Nulo => principal # "entrou" /\ \A i \in 1..Len(pilha) : pilha[i] # "signIn"
          /\ queda \in {"menu", "checkout", "cadastro", "signIn"} => principal = "atalho"
      BY <2>1 DEF IInv, SemSessaoTemMotivo
    <2>3. ~Deslogar
      BY <2>1 DEF IInv, CadastroPedido, Deslogar
    <2>4. ~RetornarCadastro
      <3>1. fila # <<>> => Head(fila) = fila[1] /\ 1 \in 1..Len(fila)
        BY <1>0, Retirar
      <3> QED BY <1>0, <2>1, <3>1, Cadastro DEF IInv, CadastroPedido
    <2>5. CASE UNCHANGED <<usuario, pilha, principal, queda>>
      BY <2>2, <2>5 DEF SemSessaoTemMotivo
    <2>6. ASSUME NEW p \in pedidos, ResponderPedido(p) PROVE SemSessaoTemMotivo'
      <3>1. usuario' # Nulo
        BY <1>0, <2>6, NuloAssumption DEF ResponderPedido, SessaoDe, TypeOK, Pedidos
      <3> QED BY <2>2, <2>6, <3>1 DEF ResponderPedido, telas, SemSessaoTemMotivo
    <2>7. CASE RetornarEntrada
      <3>1. fila # <<>> /\ UNCHANGED <<usuario, principal>>
        BY <2>7 DEF RetornarEntrada, Proximo
      <3>2. CASE Entra(Head(fila))
        <4>1. Head(fila) = fila[1] /\ 1 \in 1..Len(fila)
          BY <1>0, <3>1, Retirar
        <4>2. usuario # Nulo
          BY <2>1, <3>2, <4>1 DEF IInv, SucessoTemSessao, Entra
        <4> QED BY <2>7, <3>1, <4>2 DEF RetornarEntrada, SemSessaoTemMotivo
      <3>3. CASE ~Entra(Head(fila))
        BY <2>2, <2>7, <3>1, <3>3 DEF RetornarEntrada, SemSessaoTemMotivo
      <3> QED BY <3>2, <3>3
    <2>8. ASSUME NEW x \in Paginas, x # "signIn", pilha' = Append(pilha, x),
                 UNCHANGED <<usuario, principal, queda>>
          PROVE  SemSessaoTemMotivo'
      <3>1. /\ Len(pilha') = Len(pilha) + 1 /\ pilha'[Len(pilha) + 1] = x
            /\ \A i \in 1..Len(pilha) : pilha'[i] = pilha[i]
        BY <1>0, <2>8, Acrescentar
      <3>2. (\A i \in 1..Len(pilha) : pilha[i] # "signIn") => \A i \in 1..Len(pilha') : pilha'[i] # "signIn"
        BY <1>0, <2>8, <3>1
      <3> QED BY <2>2, <2>8, <3>2 DEF SemSessaoTemMotivo
    <2>9. ASSUME NEW e \in Emails, Cadastrar(e) PROVE FALSE
      BY <1>0, <1>2, <2>9, CadastrarCadastra
    <2>10. CASE Registrar
      BY <2>8, <2>10 DEF Registrar, Paginas
    <2>11. CASE Voltar
      <3>1. Len(pilha') = Len(pilha) - 1 /\ \A i \in 1..Len(pilha') : pilha'[i] = pilha[i]
        BY <1>0, <2>11, Recuar
      <3>2. (\A i \in 1..Len(pilha) : pilha[i] # "signIn") => \A i \in 1..Len(pilha') : pilha'[i] # "signIn"
        BY <1>0, <3>1
      <3> QED BY <2>2, <2>11, <3>2 DEF Voltar, SemSessaoTemMotivo
    <2>12. CASE Acessar
      <3>1. usuario # Nulo /\ queda = "nenhuma"
        BY <1>0, <2>2, <2>12 DEF Acessar, NaPagina, Livre
      <3> QED BY <2>12, <3>1 DEF Acessar, SemSessaoTemMotivo
    <2>13. CASE Atalho
      BY <2>2, <2>13 DEF Atalho, SemSessaoTemMotivo
    <2>14. CASE AbrirMenu \/ ConfirmarSemUsuario
      <3>1. /\ UNCHANGED <<usuario, pilha, principal>>
            /\ principal \in {"entrou", "atalho"}
            /\ queda' \in {"menu", "checkout"} => usuario = Nulo
            /\ queda' \in {"nenhuma", "menu", "checkout"}
        BY <1>0, <2>14 DEF AbrirMenu, ConfirmarSemUsuario, telas, TypeOK
      <3> QED BY <2>2, <3>1 DEF SemSessaoTemMotivo
    <2>15. CASE Sair
      BY <2>2, <2>15 DEF Sair, telas, SemSessaoTemMotivo
    <2> QED
      BY <1>2, <2>3, <2>4, <2>5, <2>6, <2>7, <2>9, <2>10, <2>11, <2>12, <2>13, <2>14, <2>15
      DEF Next, Usuario, Responder, Escrever, Retornar, Entrar, CriarConta, FalharPedido,
          GravarPerfil, RecusarPerfil, Parado, vars, telas
  <1>3. CASE Cadastrou'
    BY <1>3 DEF SemSessaoTemMotivo
  <1> QED BY <1>1, <1>2, <1>3

-----------------------------------------------------------------------------
LEMMA Passo == ASSUME IInv, [Next]_vars PROVE IInv'
  <1>1. TypeOK'
    BY PassoTipos DEF IInv
  <1> QED BY <1>1, PassoCadastro, PassoContas, PassoSessao, PassoMotivo DEF IInv

LEMMA Invariancia == Spec => []IInv
  <1>1. IInv /\ [Next]_vars => IInv'
    BY Passo
  <1> QED BY Inicio, <1>1, PTL DEF Spec

(* Every state is made of the values the code gives it.                    *)
THEOREM Tipos == Spec => []TypeOK
  <1>1. IInv => TypeOK
    BY DEF IInv
  <1> QED BY Invariancia, <1>1, PTL

(* A closure of FIRAuth that runs while it is the only success queued      *)
(* finds its own account signed in, or nobody after the sign-out of a      *)
(* registration (AccessViewController:44-57, RegisterViewController:53-76).*)
THEOREM SessaoSempreDoUltimo == Spec => []SessaoDoUltimo
  <1>1. IInv => SessaoDoUltimo
    BY DEF IInv
  <1> QED BY Invariancia, <1>1, PTL

(* No `userID!` traps on the way through the sign-in of a process in which *)
(* no registration was finished.                                           *)
THEOREM SemSessaoSempreTemMotivo == Spec => []SemSessaoTemMotivo
  <1>1. IInv => SemSessaoTemMotivo
    BY DEF IInv
  <1> QED BY Invariancia, <1>1, PTL

(* A write under another account's uid is that of a registration's closure *)
(* with another success behind it.                                         *)
LEMMA TrocaTemCorrida ==
  ASSUME IInv, [Next]_vars, Len(escritas') > Len(escritas), Trocada(escritas'[Len(escritas')])
  PROVE  \E i \in 2..Len(fila) : fila[i].ok
  <1>0. TypeOK /\ escritas \in Seq(Escritas) /\ Len(escritas) \in Nat /\ SessaoDoUltimo
    BY DEF IInv, TypeOK
  <1>1. /\ RetornarCadastro /\ Head(fila).ok /\ usuario # Nulo
        /\ escritas' = Append(escritas, [uid |-> usuario, email |-> Head(fila).email])
    <2>1. escritas # <<>> => Len(Tail(escritas)) = Len(escritas) - 1
      BY <1>0, Retirar
    <2>2. Len(<<>>) = 0
      OBVIOUS
    <2> QED BY <1>0, <2>1, <2>2, Escrita
  <1>2. usuario # Head(fila).email
    BY <1>0, <1>1, NovaEscrita DEF Trocada
  <1>3. fila \in Seq(Retornos) /\ fila # <<>> /\ Len(fila) \in Nat
    BY <1>0, <1>1 DEF TypeOK, RetornarCadastro, Proximo
  <1>4. Head(fila) = fila[1] /\ 1 \in Sucessos
    BY <1>1, <1>3, Retirar DEF Sucessos
  <1>5. SUFFICES ASSUME \A i \in 2..Len(fila) : ~fila[i].ok PROVE FALSE
    OBVIOUS
  <1>6. \A j \in Sucessos : j <= 1
    BY <1>3, <1>5 DEF Sucessos
  <1> QED BY <1>0, <1>1, <1>2, <1>4, <1>6 DEF SessaoDoUltimo

(* A profile goes under another account's uid only when another success is *)
(* queued behind the registration's (RegisterViewController:70-71).        *)
THEOREM TrocaSoEmCorrida == Spec => PerfilTrocadoSoEmCorrida
  <1>1. IInv /\ [Next]_vars
          => [Len(escritas') > Len(escritas) /\ Trocada(escritas'[Len(escritas')])
                => \E i \in 2..Len(fila) : fila[i].ok]_vars
    BY TrocaTemCorrida
  <1> QED BY Invariancia, <1>1, PTL DEF Spec, PerfilTrocadoSoEmCorrida

-----------------------------------------------------------------------------
(* The way of a profile, from the account to the database.                 *)
FilaUnica == \A i, j \in Voltando : fila[i].email = fila[j].email => i = j
EscritasUnicas == \A i, j \in 1..Len(escritas) : escritas[i].email = escritas[j].email => i = j
Volta(r) == r.op = "criar" /\ r.ok

(* A profile in the database is that of an account.                        *)
PerfisExistem == \A u \in Emails : perfis[u] \in contas \cup {Nulo}

LEMMA EntraNaFila ==
  ASSUME TypeOK, NEW p \in pedidos, NEW ok \in BOOLEAN, fila' = Append(fila, Retorno(p, ok))
  PROVE  /\ ~(p.op = "criar" /\ ok) =>
              /\ FilaUnica => FilaUnica'
              /\ \A e \in Emails : NaFila(e)' <=> NaFila(e)
         /\ p.op = "criar" /\ ok =>
              /\ FilaUnica /\ ~NaFila(p.email) => FilaUnica'
              /\ \A e \in Emails : NaFila(e)' <=> NaFila(e) \/ e = p.email
  <1> DEFINE n == Len(fila) + 1
  <1>1. /\ Len(fila) \in Nat /\ Len(fila') = n
        /\ \A i \in 1..Len(fila) : fila'[i] = fila[i]
        /\ fila'[n].op = p.op /\ fila'[n].email = p.email /\ fila'[n].ok = ok
    BY Enfileirar DEF TypeOK
  <1>2. \A i \in Voltando : i \in Voltando' /\ fila'[i] = fila[i] /\ i # n
    BY <1>1 DEF Voltando
  <1>3. \A i \in Voltando' : i \in Voltando \/ (i = n /\ p.op = "criar" /\ ok)
    BY <1>1 DEF Voltando
  <1>4. ASSUME p.op = "criar", ok PROVE n \in Voltando'
    <2>1. n \in 1..Len(fila')
      BY <1>1
    <2> HIDE DEF n
    <2>2. fila'[n].ok
      BY <1>1, <1>4, Zenon
    <2> QED BY <1>1, <1>4, <2>1, <2>2 DEF Voltando
  <1> HIDE DEF n
  <1>5. ASSUME ~(p.op = "criar" /\ ok)
        PROVE  (FilaUnica => FilaUnica') /\ \A e \in Emails : NaFila(e)' <=> NaFila(e)
    BY <1>2, <1>3, <1>5 DEF FilaUnica, NaFila
  <1>6. ASSUME p.op = "criar" /\ ok
        PROVE  /\ FilaUnica /\ ~NaFila(p.email) => FilaUnica'
               /\ \A e \in Emails : NaFila(e)' <=> NaFila(e) \/ e = p.email
    <2>1. /\ n \in Voltando' /\ fila'[n].email = p.email
          /\ \A i \in Voltando' : i \in Voltando \/ i = n
      BY <1>1, <1>3, <1>4, <1>6
    <2>2. \A e \in Emails : NaFila(e)' <=> NaFila(e) \/ e = p.email
      BY <1>2, <2>1 DEF NaFila
    <2>3. ASSUME FilaUnica, ~NaFila(p.email) PROVE FilaUnica'
      <3>1. \A i, j \in Voltando : fila[i].email = fila[j].email => i = j
        BY <2>3 DEF FilaUnica
      <3>2. \A i \in Voltando : fila[i].email # p.email
        BY <2>3 DEF NaFila
      <3> QED BY <1>2, <2>1, <3>1, <3>2 DEF FilaUnica
    <2> QED BY <2>2, <2>3
  <1> QED BY <1>5, <1>6

LEMMA SaiDaFila ==
  ASSUME TypeOK, fila # <<>>, fila' = Tail(fila)
  PROVE  /\ FilaUnica => FilaUnica'
         /\ \A e \in Emails :
              /\ NaFila(e)' => NaFila(e)
              /\ NaFila(e) => NaFila(e)' \/ (Volta(Head(fila)) /\ e = Head(fila).email)
         /\ \A e \in Emails :
              Volta(Head(fila)) /\ e = Head(fila).email => NaFila(e) /\ (FilaUnica => ~NaFila(e)')
  <1>1. /\ Head(fila) = fila[1] /\ Len(fila) \in Nat /\ Len(fila) >= 1
        /\ Len(fila') = Len(fila) - 1 /\ \A i \in 1..Len(fila') : fila'[i] = fila[i + 1]
    BY Retirar DEF TypeOK
  <1>2. \A i \in Voltando' : i \in Nat \ {0} /\ i + 1 \in Voltando /\ fila'[i] = fila[i + 1]
    BY <1>1 DEF Voltando
  <1>3. \A i \in Voltando :
          \/ i = 1 /\ Volta(Head(fila))
          \/ i - 1 \in Voltando' /\ fila'[i - 1] = fila[i]
    BY <1>1 DEF Voltando, Volta
  <1>4. Volta(Head(fila)) => 1 \in Voltando
    BY <1>1 DEF Voltando, Volta
  <1>5. ASSUME FilaUnica PROVE FilaUnica'
    <2>1. ASSUME NEW i \in Voltando', NEW j \in Voltando', fila'[i].email = fila'[j].email PROVE i = j
      <3>1. /\ i + 1 \in Voltando /\ j + 1 \in Voltando /\ i \in Nat /\ j \in Nat
            /\ fila[i + 1].email = fila[j + 1].email
        BY <1>2, <2>1
      <3>2. i + 1 = j + 1
        BY <1>5, <3>1 DEF FilaUnica
      <3> QED BY <3>1, <3>2
    <2> QED BY <2>1 DEF FilaUnica
  <1>6. ASSUME NEW e \in Emails
        PROVE  /\ NaFila(e)' => NaFila(e)
               /\ NaFila(e) => NaFila(e)' \/ (Volta(Head(fila)) /\ e = Head(fila).email)
    BY <1>1, <1>2, <1>3 DEF NaFila
  <1>7. ASSUME NEW e \in Emails, Volta(Head(fila)), e = Head(fila).email
        PROVE  NaFila(e) /\ (FilaUnica => ~NaFila(e)')
    <2>1. NaFila(e)
      BY <1>1, <1>4, <1>7 DEF NaFila
    <2>2. ASSUME FilaUnica, NEW i \in Voltando', fila'[i].email = e PROVE FALSE
      <3>1. i \in Nat \ {0} /\ i + 1 \in Voltando /\ fila'[i] = fila[i + 1]
        BY <1>2, <2>2
      <3>2. i + 1 # 1
        BY <3>1
      <3>3. 1 \in Voltando
        BY <1>4, <1>7
      <3>4. fila[i + 1].email = fila[1].email
        BY <1>1, <1>7, <2>2, <3>1, Zenon
      <3> QED BY <2>2, <3>1, <3>2, <3>3, <3>4 DEF FilaUnica
    <2> QED BY <2>1, <2>2 DEF NaFila
  <1> QED BY <1>5, <1>6, <1>7

LEMMA EntraNasEscritas ==
  ASSUME TypeOK, NEW w \in Escritas, escritas' = Append(escritas, w)
  PROVE  /\ EscritasUnicas /\ ~NaEscrita(w.email) => EscritasUnicas'
         /\ \A e \in Emails : NaEscrita(e)' <=> NaEscrita(e) \/ e = w.email
  <1>1. /\ Len(escritas) \in Nat /\ Len(escritas') = Len(escritas) + 1
        /\ \A i \in 1..Len(escritas) : escritas'[i] = escritas[i]
        /\ escritas'[Len(escritas) + 1] = w
    BY Acrescentar DEF TypeOK
  <1>2. \A i \in 1..Len(escritas') : i \in 1..Len(escritas) \/ i = Len(escritas) + 1
    BY <1>1
  <1>3. \A e \in Emails : NaEscrita(e)' <=> NaEscrita(e) \/ e = w.email
    BY <1>1, <1>2 DEF NaEscrita
  <1>4. ASSUME EscritasUnicas, ~NaEscrita(w.email) PROVE EscritasUnicas'
    BY <1>1, <1>2, <1>4 DEF EscritasUnicas, NaEscrita
  <1> QED BY <1>3, <1>4

LEMMA SaiDasEscritas ==
  ASSUME TypeOK, escritas # <<>>, escritas' = Tail(escritas)
  PROVE  /\ EscritasUnicas => EscritasUnicas'
         /\ \A e \in Emails :
              /\ NaEscrita(e)' => NaEscrita(e)
              /\ NaEscrita(e) => NaEscrita(e)' \/ e = Head(escritas).email
              /\ e = Head(escritas).email => NaEscrita(e) /\ (EscritasUnicas => ~NaEscrita(e)')
  <1>1. /\ Head(escritas) = escritas[1] /\ Len(escritas) \in Nat /\ Len(escritas) >= 1
        /\ Len(escritas') = Len(escritas) - 1
        /\ \A i \in 1..Len(escritas') : escritas'[i] = escritas[i + 1]
    BY Retirar DEF TypeOK
  <1>2. \A i \in 1..Len(escritas') :
          i + 1 \in 1..Len(escritas) /\ i + 1 # 1 /\ escritas'[i] = escritas[i + 1]
    BY <1>1
  <1>3. \A i \in 1..Len(escritas) :
          i = 1 \/ (i - 1 \in 1..Len(escritas') /\ escritas'[i - 1] = escritas[i])
    BY <1>1
  <1>4. EscritasUnicas => EscritasUnicas'
    BY <1>1, <1>2 DEF EscritasUnicas
  <1>5. ASSUME NEW e \in Emails
        PROVE  /\ NaEscrita(e)' => NaEscrita(e)
               /\ NaEscrita(e) => NaEscrita(e)' \/ e = Head(escritas).email
               /\ e = Head(escritas).email => NaEscrita(e) /\ (EscritasUnicas => ~NaEscrita(e)')
    <2>1. NaEscrita(e)' => NaEscrita(e)
      BY <1>2 DEF NaEscrita
    <2>2. NaEscrita(e) => NaEscrita(e)' \/ e = Head(escritas).email
      BY <1>1, <1>3 DEF NaEscrita
    <2>3. ASSUME e = Head(escritas).email PROVE NaEscrita(e)
      BY <1>1, <2>3 DEF NaEscrita
    <2>4. ASSUME e = Head(escritas).email, EscritasUnicas, NEW i \in 1..Len(escritas'),
                 escritas'[i].email = e
          PROVE  FALSE
      <3>1. i + 1 \in 1..Len(escritas) /\ i + 1 # 1 /\ 1 \in 1..Len(escritas)
        BY <1>1, <1>2
      <3>2. escritas[i + 1].email = escritas[1].email
        BY <1>1, <1>2, <2>4
      <3> QED BY <2>4, <3>1, <3>2 DEF EscritasUnicas
    <2> QED BY <2>1, <2>2, <2>3, <2>4 DEF NaEscrita
  <1> QED BY <1>4, <1>5

(* A step moves a profile from one place of its way to the next, or the    *)
(* relaunch empties them all.                                              *)
Parte == UNCHANGED <<fila, escritas, perfis>>

CriaConta == \E p \in pedidos :
  /\ p.email \in Emails /\ p.email \notin contas /\ p.op = "criar"
  /\ [p EXCEPT !.feito = TRUE].email = p.email
  /\ Criadas' = Criadas \cup {[p EXCEPT !.feito = TRUE]}
  /\ Parte

Responde == \E p \in pedidos : \E ok \in BOOLEAN :
  /\ Criadas' = Criadas \ {p}
  /\ p.op = "criar" /\ ok => p \in Criadas
  /\ p \in Criadas /\ ~ok => falhas' > falhas
  /\ fila' = Append(fila, Retorno(p, ok))
  /\ UNCHANGED <<escritas, perfis>>

Retorna ==
  /\ fila # <<>> /\ fila' = Tail(fila) /\ Criadas' = Criadas /\ UNCHANGED perfis
  /\ \/ /\ UNCHANGED escritas
        /\ Volta(Head(fila)) => queda' = "cadastro"
     \/ /\ Volta(Head(fila))
        /\ \E w \in Escritas : w.email = Head(fila).email /\ escritas' = Append(escritas, w)

Escreve ==
  /\ escritas # <<>> /\ escritas' = Tail(escritas) /\ Criadas' = Criadas /\ UNCHANGED fila
  /\ \/ perfis' = [perfis EXCEPT ![Head(escritas).uid] = Head(escritas).email]
     \/ UNCHANGED perfis /\ falhas' > falhas

Esvazia ==
  /\ reinicios' > reinicios /\ UNCHANGED perfis
  /\ Criadas' = {} /\ fila' = <<>> /\ escritas' = <<>>

LEMMA Trajeto ==
  ASSUME TypeOK, [Next]_vars
  PROVE  (Criadas' = Criadas /\ Parte) \/ CriaConta \/ Responde \/ Retorna \/ Escreve \/ Esvazia
  <1>1. \A op \in {"criar", "entrar"}, e \in Emails : ~Novo(op, e).feito
    BY DEF Novo
  <1>2. ASSUME UNCHANGED pedidos PROVE Criadas' = Criadas
    BY <1>2 DEF Criadas
  <1>3. ASSUME NEW e \in Emails, Entrar(e) \/ Cadastrar(e) PROVE Criadas' = Criadas /\ Parte
    BY <1>1, <1>3 DEF Entrar, Cadastrar, servidor, Criadas, Parte
  <1>4. CASE Registrar
    <2>1. \/ pedidos' = pedidos
          \/ \E e \in Emails : pedidos' = pedidos \cup {Novo("entrar", e)}
      BY <1>4 DEF Registrar
    <2>2. Criadas' = Criadas
      BY <1>1, <2>1 DEF Criadas
    <2> QED BY <1>4, <2>2 DEF Registrar, servidor, Parte
  <1>5. ASSUME NEW p \in pedidos, CriarConta(p) PROVE CriaConta
    <2>1. /\ p.email \in Emails /\ [p EXCEPT !.feito = TRUE].email = p.email
          /\ [p EXCEPT !.feito = TRUE].op = p.op /\ [p EXCEPT !.feito = TRUE].feito
      BY DEF TypeOK, Pedidos
    <2>2. p.op = "criar" /\ ~p.feito /\ p.email \notin contas /\ Parte
          /\ pedidos' = (pedidos \ {p}) \cup {[p EXCEPT !.feito = TRUE]}
      BY <1>5 DEF CriarConta, Parte
    <2>3. Criadas' = Criadas \cup {[p EXCEPT !.feito = TRUE]}
      BY <2>1, <2>2 DEF Criadas
    <2> QED BY <2>1, <2>2, <2>3 DEF CriaConta
  <1>6. ASSUME NEW p \in pedidos, ResponderPedido(p) PROVE Responde
    <2>1. Aceita(p) /\ pedidos' = pedidos \ {p} /\ fila' = Append(fila, Retorno(p, TRUE))
          /\ UNCHANGED <<escritas, perfis>>
      BY <1>6 DEF ResponderPedido, servidor
    <2>2. Criadas' = Criadas \ {p} /\ (p.op = "criar" => p \in Criadas)
      BY <2>1 DEF Criadas, Aceita
    <2> QED BY <2>1, <2>2 DEF Responde
  <1>7. ASSUME NEW p \in pedidos, FalharPedido(p) PROVE Responde
    <2>1. pedidos' = pedidos \ {p} /\ fila' = Append(fila, Retorno(p, FALSE))
          /\ (p.feito => falhas' = falhas + 1) /\ UNCHANGED <<escritas, perfis>>
      BY <1>7 DEF FalharPedido, servidor
    <2>2. Criadas' = Criadas \ {p} /\ (p \in Criadas => falhas' > falhas)
      BY <2>1 DEF Criadas, TypeOK
    <2> QED BY <2>1, <2>2 DEF Responde
  <1>8. CASE RetornarCadastro
    <2>1. pedidos' = pedidos \/ pedidos' = pedidos \cup {Implicita(Head(fila))}
      BY <1>8, Cadastro
    <2>2. Criadas' = Criadas
      BY <2>1 DEF Criadas, Implicita
    <2>3. fila # <<>> /\ fila' = Tail(fila) /\ UNCHANGED perfis /\ Head(fila).op = "criar"
      BY <1>8, Cadastro
    <2>4. CASE ~Head(fila).ok
      BY <1>8, <2>2, <2>3, <2>4 DEF RetornarCadastro, Criou, Identificado, Retorna, Volta
    <2>5. CASE Head(fila).ok
      <3> DEFINE w == [uid |-> usuario, email |-> Head(fila).email]
      <3>1. \/ queda' = "cadastro" /\ UNCHANGED escritas
            \/ w \in Escritas /\ escritas' = Append(escritas, w)
        <4>1. usuario = Nulo => queda' = "cadastro" /\ UNCHANGED escritas
          BY <1>8, <2>5 DEF RetornarCadastro, Criou, Identificado
        <4>2. usuario # Nulo => escritas' = Append(escritas, w)
          BY <1>8, <2>5 DEF RetornarCadastro, Criou, Identificado, ComPerfil
        <4>3. usuario # Nulo => w \in Escritas
          BY <1>8, Cadastro DEF TypeOK, Retornos, Escritas
        <4> QED BY <4>1, <4>2, <4>3
      <3>2. w.email = Head(fila).email
        OBVIOUS
      <3> HIDE DEF w
      <3> QED BY <2>2, <2>3, <2>5, <3>1, <3>2 DEF Retorna, Volta
    <2> QED BY <2>4, <2>5
  <1>9. CASE RetornarEntrada
    BY <1>2, <1>9 DEF RetornarEntrada, Proximo, servidor, Retorna, Volta
  <1>10. CASE GravarPerfil \/ RecusarPerfil
    BY <1>2, <1>10 DEF GravarPerfil, RecusarPerfil, servidor, Escreve, TypeOK
  <1>11. CASE Reiniciar
    BY <1>11 DEF Reiniciar, servidor, Criadas, Esvazia, TypeOK
  <1> QED
    BY <1>2, <1>3, <1>4, <1>5, <1>6, <1>7, <1>8, <1>9, <1>10, <1>11
    DEF Next, Usuario, Responder, Escrever, Retornar, Voltar, Acessar, Atalho, AbrirMenu,
        ConfirmarSemUsuario, Sair, Deslogar, Parado, vars, servidor, Parte
PerfilIInv == IInv /\ PerfisExistem /\ PerfilUmaVez

LEMMA PassoPerfis == ASSUME IInv, PerfisExistem, [Next]_vars PROVE PerfisExistem'
  <1>0. TypeOK /\ ContasExistem /\ contas \subseteq contas'
    BY ContasFicam DEF IInv
  <1>1. CASE UNCHANGED perfis
    BY <1>0, <1>1 DEF PerfisExistem
  <1>2. CASE GravarPerfil
    <2>1. escritas \in Seq(Escritas) /\ escritas # <<>>
      BY <1>0, <1>2 DEF GravarPerfil, TypeOK
    <2>2. Head(escritas) = escritas[1] /\ 1 \in 1..Len(escritas)
      BY <2>1, Retirar
    <2>3. Head(escritas).email \in contas
      BY <1>0, <2>2 DEF ContasExistem
    <2>4. \A u \in Emails : perfis'[u] = perfis[u] \/ perfis'[u] = Head(escritas).email
      BY <1>0, <1>2 DEF GravarPerfil, TypeOK
    <2> QED BY <1>0, <2>3, <2>4 DEF PerfisExistem
  <1>3. CASE RetornarCadastro
    BY <1>0, <1>1, <1>3, Cadastro
  <1> QED
    BY <1>1, <1>2, <1>3
    DEF Next, Usuario, Responder, Escrever, Retornar, Entrar, Cadastrar, Registrar, Voltar, Acessar,
        Atalho, AbrirMenu, ConfirmarSemUsuario, Sair, CriarConta, ResponderPedido, FalharPedido,
        RecusarPerfil, Deslogar, RetornarEntrada, Reiniciar, Parado, vars, servidor

(* A profile on its way is that of an account.                             *)
LEMMA CaminhoDeConta ==
  ASSUME IInv, NEW e \in Emails, ACaminho(e)
  PROVE  e \in contas
  <1>1. ContasExistem
    BY DEF IInv
  <1>2. ASSUME NEW p \in Criadas, p.email = e PROVE e \in contas
    BY <1>1, <1>2 DEF ContasExistem, Criadas
  <1>3. ASSUME NaFila(e) PROVE e \in contas
    BY <1>1, <1>3 DEF ContasExistem, NaFila, Voltando
  <1>4. ASSUME NaEscrita(e) PROVE e \in contas
    BY <1>1, <1>4 DEF ContasExistem, NaEscrita
  <1> QED BY <1>2, <1>3, <1>4 DEF ACaminho, Criada

CriadasUnicas == \A p, q \in Criadas : p.email = q.email => p = q

UmLugarDe(e) ==
  /\ ~(Criada(e) /\ NaFila(e)) /\ ~(Criada(e) /\ NaEscrita(e)) /\ ~(NaFila(e) /\ NaEscrita(e))
  /\ ACaminho(e) => \A u \in Emails : perfis[u] # e

LEMMA Partes ==
  PerfilUmaVez <=> CriadasUnicas /\ FilaUnica /\ EscritasUnicas /\ \A e \in Emails : UmLugarDe(e)
  BY DEF PerfilUmaVez, UmLugar, CriadasUnicas, FilaUnica, EscritasUnicas, UmLugarDe

LEMMA PartesJuntas ==
  CriadasUnicas' /\ FilaUnica' /\ EscritasUnicas' /\ (\A e \in Emails : UmLugarDe(e)') => PerfilUmaVez'
  BY DEF PerfilUmaVez, UmLugar, CriadasUnicas, FilaUnica, EscritasUnicas, UmLugarDe

LEMMA PassoUmaVez == ASSUME PerfilIInv, [Next]_vars PROVE PerfilUmaVez'
  <1>0. /\ TypeOK /\ IInv /\ CriadasUnicas /\ FilaUnica /\ EscritasUnicas
        /\ \A e \in Emails : UmLugarDe(e)
    BY Partes DEF PerfilIInv, IInv
  <1>1. \A p \in Criadas : p \in pedidos /\ p.email \in Emails /\ p.op = "criar"
    BY <1>0 DEF Criadas, TypeOK, Pedidos
  <1>2. CASE Criadas' = Criadas /\ Parte
    BY <1>0, <1>2
    DEF Parte, PerfilUmaVez, UmLugar, CriadasUnicas, FilaUnica, EscritasUnicas, UmLugarDe, ACaminho,
        Criada, NaFila, NaEscrita, Voltando
  <1>3. CASE CriaConta
    <2>1. PICK p \in pedidos :
            /\ p.email \in Emails /\ p.email \notin contas
            /\ [p EXCEPT !.feito = TRUE].email = p.email
            /\ Criadas' = Criadas \cup {[p EXCEPT !.feito = TRUE]}
            /\ Parte
      BY <1>3 DEF CriaConta
    <2>2. ~ACaminho(p.email) /\ \A u \in Emails : perfis[u] # p.email
      BY <1>0, <2>1, CaminhoDeConta, NuloAssumption DEF PerfilIInv, PerfisExistem
    <2>3. \A q \in Criadas : q.email # p.email
      BY <2>2 DEF ACaminho, Criada
    <2>4. CriadasUnicas'
      BY <1>0, <2>1, <2>3 DEF CriadasUnicas
    <2>5. FilaUnica' /\ EscritasUnicas'
      BY <1>0, <2>1 DEF Parte, FilaUnica, EscritasUnicas, Voltando
    <2>6. ASSUME NEW e \in Emails PROVE UmLugarDe(e)'
      <3>1. /\ Criada(e)' <=> Criada(e) \/ e = p.email
            /\ NaFila(e)' <=> NaFila(e)
            /\ NaEscrita(e)' <=> NaEscrita(e)
        BY <2>1 DEF Parte, Criada, NaFila, NaEscrita, Voltando
      <3> QED BY <1>0, <2>1, <2>2, <3>1 DEF UmLugarDe, ACaminho, Parte
    <2> QED BY <2>4, <2>5, <2>6, PartesJuntas
  <1>4. CASE Responde
    <2>1. PICK p \in pedidos, ok \in BOOLEAN :
            /\ Criadas' = Criadas \ {p}
            /\ p.op = "criar" /\ ok => p \in Criadas
            /\ fila' = Append(fila, Retorno(p, ok))
            /\ UNCHANGED <<escritas, perfis>>
      BY <1>4 DEF Responde
    <2>2. CriadasUnicas' /\ EscritasUnicas'
      BY <1>0, <2>1 DEF CriadasUnicas, EscritasUnicas
    <2>3. \A e \in Emails :
            /\ Criada(e)' => Criada(e)
            /\ NaEscrita(e)' <=> NaEscrita(e)
      BY <2>1 DEF Criada, NaEscrita
    <2>4. CASE ~(p.op = "criar" /\ ok)
      <3>1. FilaUnica' /\ \A e \in Emails : NaFila(e)' <=> NaFila(e)
        BY <1>0, <2>1, <2>4, EntraNaFila
      <3>2. \A e \in Emails : UmLugarDe(e)'
        BY <1>0, <2>1, <2>3, <3>1 DEF UmLugarDe, ACaminho
      <3> QED BY <2>2, <3>1, <3>2, PartesJuntas
    <2>5. CASE p.op = "criar" /\ ok
      <3>1. p \in Criadas /\ p.email \in Emails /\ Criada(p.email)
        BY <1>1, <2>1, <2>5 DEF Criada
      <3>2. ~NaFila(p.email) /\ ~NaEscrita(p.email) /\ \A u \in Emails : perfis[u] # p.email
        BY <1>0, <3>1 DEF UmLugarDe, ACaminho
      <3>3. FilaUnica' /\ \A e \in Emails : NaFila(e)' <=> NaFila(e) \/ e = p.email
        BY <1>0, <2>1, <2>5, <3>2, EntraNaFila
      <3>4. \A e \in Emails : Criada(e)' => e # p.email
        BY <1>0, <2>1, <3>1 DEF CriadasUnicas, Criada
      <3>5. \A e \in Emails : UmLugarDe(e)'
        BY <1>0, <2>1, <2>3, <3>2, <3>3, <3>4 DEF UmLugarDe, ACaminho
      <3> QED BY <2>2, <3>3, <3>5, PartesJuntas
    <2> QED BY <2>4, <2>5
  <1>5. CASE Retorna
    <2>1. fila # <<>> /\ fila' = Tail(fila) /\ Criadas' = Criadas /\ UNCHANGED perfis
      BY <1>5 DEF Retorna
    <2>2. CriadasUnicas' /\ \A e \in Emails : Criada(e)' <=> Criada(e)
      BY <1>0, <2>1 DEF CriadasUnicas, Criada
    <2>3. FilaUnica' /\ \A e \in Emails : NaFila(e)' => NaFila(e)
      BY <1>0, <2>1, SaiDaFila
    <2>4. CASE UNCHANGED escritas
      <3>1. EscritasUnicas' /\ \A e \in Emails : NaEscrita(e)' <=> NaEscrita(e)
        BY <1>0, <2>4 DEF EscritasUnicas, NaEscrita
      <3>2. \A e \in Emails : UmLugarDe(e)'
        BY <1>0, <2>1, <2>2, <2>3, <3>1 DEF UmLugarDe, ACaminho
      <3> QED BY <2>2, <2>3, <3>1, <3>2, PartesJuntas
    <2>5. ASSUME Volta(Head(fila)), NEW w \in Escritas, w.email = Head(fila).email,
                 escritas' = Append(escritas, w)
          PROVE  PerfilUmaVez'
      <3>1. w.email \in Emails /\ NaFila(w.email)
        BY <1>0, <2>1, <2>5, SaiDaFila DEF Escritas
      <3>2. \A e \in Emails : e = w.email => ~NaFila(e)'
        BY <1>0, <2>1, <2>5, SaiDaFila
      <3>3. ~Criada(w.email) /\ ~NaEscrita(w.email) /\ \A u \in Emails : perfis[u] # w.email
        BY <1>0, <3>1 DEF UmLugarDe, ACaminho
      <3>4. EscritasUnicas' /\ \A e \in Emails : NaEscrita(e)' <=> NaEscrita(e) \/ e = w.email
        BY <1>0, <2>5, <3>3, EntraNasEscritas
      <3>5. \A e \in Emails : UmLugarDe(e)'
        BY <1>0, <2>1, <2>2, <2>3, <3>2, <3>3, <3>4 DEF UmLugarDe, ACaminho
      <3> QED BY <2>2, <2>3, <3>4, <3>5, PartesJuntas
    <2> QED BY <1>5, <2>4, <2>5 DEF Retorna
  <1>6. CASE Escreve
    <2>1. escritas # <<>> /\ escritas' = Tail(escritas) /\ Criadas' = Criadas /\ UNCHANGED fila
      BY <1>6 DEF Escreve
    <2>2. CriadasUnicas' /\ FilaUnica'
      BY <1>0, <2>1 DEF CriadasUnicas, FilaUnica, Voltando
    <2>3. \A e \in Emails :
            /\ Criada(e)' <=> Criada(e)
            /\ NaFila(e)' <=> NaFila(e)
      BY <2>1 DEF Criada, NaFila, Voltando
    <2>4. /\ EscritasUnicas'
          /\ \A e \in Emails :
               /\ NaEscrita(e)' => NaEscrita(e)
               /\ e = Head(escritas).email => NaEscrita(e) /\ ~NaEscrita(e)'
      BY <1>0, <2>1, SaiDasEscritas
    <2>5. ASSUME NEW e \in Emails PROVE UmLugarDe(e)'
      <3>1. CASE e = Head(escritas).email
        <4>1. NaEscrita(e) /\ ~NaEscrita(e)'
          BY <2>4, <3>1
        <4> QED BY <1>0, <2>3, <4>1 DEF UmLugarDe, ACaminho
      <3>2. CASE e # Head(escritas).email
        <4>1. \A u \in Emails : perfis'[u] = perfis[u] \/ perfis'[u] = Head(escritas).email
          BY <1>0, <1>6 DEF Escreve, TypeOK
        <4> QED BY <1>0, <2>3, <2>4, <3>2, <4>1 DEF UmLugarDe, ACaminho
      <3> QED BY <3>1, <3>2
    <2> QED BY <2>2, <2>4, <2>5, PartesJuntas
  <1>7. CASE Esvazia
    BY <1>7
    DEF Esvazia, PerfilUmaVez, UmLugar, ACaminho, Criada, NaFila, NaEscrita, Voltando
  <1> QED BY <1>0, <1>2, <1>3, <1>4, <1>5, <1>6, <1>7, Trajeto

LEMMA PerfilInvariancia == Spec => []PerfilIInv
  <1>1. Init => PerfisExistem /\ PerfilUmaVez
    <2> SUFFICES ASSUME Init PROVE PerfisExistem /\ PerfilUmaVez
      OBVIOUS
    <2>1. PerfisExistem
      BY DEF Init, PerfisExistem
    <2>2. Criadas = {} /\ fila = <<>> /\ escritas = <<>>
      BY DEF Init, Criadas
    <2> QED BY <2>1, <2>2
            DEF PerfilUmaVez, UmLugar, ACaminho, Criada, NaFila, NaEscrita, Voltando
  <1>2. PerfilIInv /\ [Next]_vars => PerfilIInv'
    BY Passo, PassoPerfis, PassoUmaVez DEF PerfilIInv
  <1>3. Init => PerfilIInv
    BY <1>1, Inicio DEF PerfilIInv
  <1> QED BY <1>2, <1>3, PTL DEF Spec

(* The profile of an account is written once: two registrations of one     *)
(* account never both reach the database, nor does one of them after its   *)
(* profile is there (RegisterViewController:44-71).                        *)
THEOREM PerfilSempreUmaVez == Spec => []PerfilUmaVez
  <1>1. PerfilIInv => PerfilUmaVez
    BY DEF PerfilIInv
  <1> QED BY PerfilInvariancia, <1>1, PTL

(* What takes a profile off its way.                                       *)
LEMMA PassoPerda ==
  ASSUME IInv, [Next]_vars, NEW e \in Emails, ACaminho(e)
  PROVE  \/ ACaminho(e)' \/ (\E u \in Emails : perfis'[u] = e)
         \/ falhas' > falhas \/ reinicios' > reinicios \/ queda' = "cadastro"
  <1>0. TypeOK
    BY DEF IInv
  <1>1. CASE Criadas' = Criadas /\ Parte
    BY <1>1 DEF Parte, ACaminho, Criada, NaFila, NaEscrita, Voltando
  <1>2. CASE CriaConta
    <2>1. Criadas \subseteq Criadas' /\ Parte
      BY <1>2 DEF CriaConta
    <2> QED BY <2>1 DEF Parte, ACaminho, Criada, NaFila, NaEscrita, Voltando
  <1>3. CASE Responde
    <2>1. PICK p \in pedidos, ok \in BOOLEAN :
            /\ Criadas' = Criadas \ {p}
            /\ p \in Criadas /\ ~ok => falhas' > falhas
            /\ fila' = Append(fila, Retorno(p, ok))
            /\ UNCHANGED <<escritas, perfis>>
      BY <1>3 DEF Responde
    <2>2. NaFila(e) => NaFila(e)'
      BY <1>0, <2>1, EntraNaFila
    <2>3. NaEscrita(e) => NaEscrita(e)'
      BY <2>1 DEF NaEscrita
    <2>4. CASE Criada(e)
      <3>1. CASE p \in Criadas /\ p.email = e
        <4>1. p.op = "criar" /\ (~ok => falhas' > falhas)
          BY <2>1, <3>1 DEF Criadas
        <4>2. ok => NaFila(e)'
          BY <1>0, <2>1, <3>1, <4>1, EntraNaFila
        <4> QED BY <4>1, <4>2 DEF ACaminho
      <3>2. CASE ~(p \in Criadas /\ p.email = e)
        <4>1. Criada(e)'
          BY <2>1, <2>4, <3>2 DEF Criada
        <4> QED BY <4>1 DEF ACaminho
      <3> QED BY <3>1, <3>2
    <2> QED BY <2>2, <2>3, <2>4 DEF ACaminho
  <1>4. CASE Retorna
    <2>1. Criada(e) => Criada(e)'
      BY <1>4 DEF Retorna, Criada
    <2>2. NaFila(e) => NaFila(e)' \/ (Volta(Head(fila)) /\ e = Head(fila).email)
      BY <1>0, <1>4, SaiDaFila DEF Retorna
    <2>3. CASE UNCHANGED escritas /\ (Volta(Head(fila)) => queda' = "cadastro")
      <3>1. NaEscrita(e) => NaEscrita(e)'
        BY <2>3 DEF NaEscrita
      <3> QED BY <2>1, <2>2, <2>3, <3>1 DEF ACaminho
    <2>4. ASSUME NEW w \in Escritas, w.email = Head(fila).email, escritas' = Append(escritas, w)
          PROVE  ACaminho(e)'
      <3>1. NaEscrita(e)' <=> NaEscrita(e) \/ e = w.email
        BY <1>0, <2>4, EntraNasEscritas
      <3> QED BY <2>1, <2>2, <2>4, <3>1 DEF ACaminho
    <2> QED BY <1>4, <2>3, <2>4 DEF Retorna
  <1>5. CASE Escreve
    <2>1. (Criada(e) => Criada(e)') /\ (NaFila(e) => NaFila(e)')
      BY <1>5 DEF Escreve, Criada, NaFila, Voltando
    <2>2. escritas # <<>> /\ escritas' = Tail(escritas)
      BY <1>5 DEF Escreve
    <2>3. NaEscrita(e) => NaEscrita(e)' \/ e = Head(escritas).email
      BY <1>0, <2>2, SaiDasEscritas
    <2>4. CASE e = Head(escritas).email
      <3>1. Head(escritas).uid \in Emails
        <4>1. Head(escritas) \in Escritas
          BY <1>0, <2>2, Retirar DEF TypeOK
        <4> QED BY <4>1 DEF Escritas
      <3>2. perfis' = [perfis EXCEPT ![Head(escritas).uid] = e] => perfis'[Head(escritas).uid] = e
        BY <1>0, <3>1 DEF TypeOK
      <3> QED BY <1>5, <2>4, <3>1, <3>2 DEF Escreve
    <2> QED BY <2>1, <2>3, <2>4 DEF ACaminho
  <1>6. CASE Esvazia
    BY <1>6 DEF Esvazia
  <1> QED BY <1>0, <1>1, <1>2, <1>3, <1>4, <1>5, <1>6, Trajeto

(* The profile of an account that was created goes off its way only by     *)
(* being stored, by a failure, by a relaunch or by the trap of the closure *)
(* (`user!`, RegisterViewController:71), whatever the pages and the other  *)
(* answers do in between.                                                  *)
THEOREM PerfilNuncaSePerde == Spec => PerfilNaoSePerde
  <1>1. IInv /\ [Next]_vars
          => [\A e \in Emails : ACaminho(e) =>
                \/ ACaminho(e)' \/ (\E u \in Emails : perfis'[u] = e)
                \/ falhas' > falhas \/ reinicios' > reinicios \/ queda' = "cadastro"]_vars
    BY PassoPerda
  <1> QED BY Invariancia, <1>1, PTL DEF Spec, PerfilNaoSePerde

-----------------------------------------------------------------------------
LEMMA PassoSegue == ASSUME IInv, [Next]_vars PROVE [SE!Next]_(SE!vars)
  <1>0. TypeOK /\ ContasExistem
    BY DEF IInv
  <1>1. CASE UNCHANGED <<usuario, contas, perfis>>
    BY <1>1 DEF SE!vars
  <1>2. ASSUME NEW p \in pedidos, CriarConta(p) PROVE SE!Next
    <2>1. p.email \in Emails /\ SE!CriarConta(p.email)
      BY <1>0, <1>2 DEF CriarConta, SE!CriarConta, TypeOK, Pedidos
    <2> QED BY <2>1 DEF SE!Next
  <1>3. ASSUME NEW p \in pedidos, ResponderPedido(p) PROVE SE!Next
    <2>1. p.email \in Emails /\ p.email \in contas
      BY <1>0, <1>3, AceitoExiste DEF ResponderPedido, TypeOK, Pedidos
    <2>2. SE!Entrar(p.email)
      BY <1>3, <2>1 DEF ResponderPedido, SessaoDe, servidor, SE!Entrar
    <2> QED BY <2>1, <2>2 DEF SE!Next
  <1>4. CASE Deslogar
    <2>1. SE!Sair \/ UNCHANGED <<usuario, contas, perfis>>
      BY <1>4 DEF Deslogar, servidor, SE!Sair
    <2> QED BY <1>1, <2>1 DEF SE!Next
  <1>5. CASE GravarPerfil
    <2>1. escritas \in Seq(Escritas) /\ escritas # <<>>
      BY <1>0, <1>5 DEF GravarPerfil, TypeOK
    <2>2. Head(escritas) \in Escritas /\ Head(escritas) = escritas[1] /\ 1 \in 1..Len(escritas)
      BY <2>1, Retirar
    <2>3. /\ Head(escritas).uid \in Emails /\ Head(escritas).email \in Emails
          /\ Head(escritas).uid \in contas /\ Head(escritas).email \in contas
      BY <1>0, <2>2 DEF ContasExistem, Escritas
    <2>4. SE!GravarPerfil(Head(escritas).uid, Head(escritas).email)
      BY <1>5, <2>3 DEF GravarPerfil, SE!GravarPerfil
    <2> QED BY <2>3, <2>4 DEF SE!Next
  <1>6. CASE RetornarCadastro
    BY <1>0, <1>1, <1>6, Cadastro
  <1> QED
    BY <1>1, <1>2, <1>3, <1>4, <1>5, <1>6
    DEF Next, Usuario, Responder, Escrever, Retornar, Entrar, Cadastrar, Registrar, Voltar, Acessar,
        Atalho, AbrirMenu, ConfirmarSemUsuario, Sair, FalharPedido, RecusarPerfil, RetornarEntrada,
        Reiniciar, Parado, vars, servidor

(* The app keeps to what the rest of it relies on about sessions, accounts *)
(* and profiles (FIRAuth.m, RegisterViewController:61-73).                 *)
THEOREM ImplementaSessao == Spec => SegueSessao
  <1>1. Init => SE!Init
    BY DEF Init, SE!Init
  <1>2. IInv /\ [Next]_vars => [SE!Next]_(SE!vars)
    BY PassoSegue
  <1> QED BY Invariancia, <1>1, <1>2, PTL DEF Spec, SegueSessao, SE!Spec
=============================================================================
