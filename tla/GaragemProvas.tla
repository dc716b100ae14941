--------------------------- MODULE GaragemProvas ---------------------------
(***************************************************************************)
(* Safety of the garage, for every pool of spots, every content of the     *)
(* form and any number of touches, failed saves and relaunches.            *)
(***************************************************************************)
EXTENDS Garagem, TLAPS

(* A form still on the stack is the page on top, and the closures that     *)
(* captured it read what it shows.                                         *)
FormNaPilha == \A p \in pedidos : p.naPilha => pagina = "nova" /\ p.campos = formulario

(* What a touch captured is what its form holds, unless it was edited.     *)
PedidosFieis == editou \/ \A p \in pedidos : p.id = p.campos

(* Whatever a row or a page shows is there, or was deleted by this process.*)
MostradasConhecidas == Mostradas \subseteq Existentes(ctx) \cup apagadas

IInv ==
  /\ TypeOK
  /\ FormNaPilha
  /\ PedidosFieis
  /\ IdDosCampos
  /\ FantasmaTemMotivo
  /\ MostradasConhecidas

LEMMA Inicio == Init => IInv
  <1> SUFFICES ASSUME Init PROVE IInv
    OBVIOUS
  <1>1. ctx \in [Vagas -> Registros \cup {Ausente}] /\ store = ctx
    <2>1. \A c \in Campos : [id |-> c, campos |-> c, frequencia |-> TRUE] \in Registros
      BY DEF Registros, Formularios
    <2> QED BY <2>1 DEF Init
  <1>2. TypeOK
    <2>1. alerta \in BOOLEAN /\ editou \in BOOLEAN
      BY Zenon DEF Init
    <2> QED BY <1>1, <2>1, LimitesAssumption, NuloAssumption DEF Init, TypeOK, Formularios
  <1>3. IdDosCampos
    BY DEF Init, IdDosCampos
  <1>4. FormNaPilha /\ PedidosFieis /\ FantasmaTemMotivo /\ MostradasConhecidas
    BY DEF Init, FormNaPilha, PedidosFieis, FantasmaTemMotivo, MostradasConhecidas, Mostradas
  <1> QED BY <1>2, <1>3, <1>4 DEF IInv

-----------------------------------------------------------------------------
(* What the operators of the actions return.                               *)
LEMMA Gravacao ==
  ASSUME TypeOK, NEW c \in [Vagas -> Registros \cup {Ausente}], Gravar(c)
  PROVE  /\ ctx' = c /\ store' \in {store, c}
         /\ ctx' \in [Vagas -> Registros \cup {Ausente}] /\ store' \in [Vagas -> Registros \cup {Ausente}]
         /\ falhas' \in 0..MaxFalhas
         /\ falhas' = 0 => falhas = 0 /\ store' = c /\ falhas' = falhas
  BY LimitesAssumption DEF TypeOK, Gravar

LEMMA SemFormTipado == ASSUME TypeOK PROVE SemForm \subseteq Pedidos /\ \A p \in SemForm : ~p.naPilha
  BY DEF TypeOK, SemForm, Pedidos

LEMMA Semana ==
  ASSUME TypeOK, NEW v \in Vagas, NEW f \in BOOLEAN
  PROVE  /\ ComFrequencia(v, f) \in [Vagas -> Registros \cup {Ausente}]
         /\ Existentes(ComFrequencia(v, f)) = Existentes(ctx)
         /\ \A w \in Vagas : ctx[w] # Ausente =>
              /\ ComFrequencia(v, f)[w].id = ctx[w].id
              /\ ComFrequencia(v, f)[w].campos = ctx[w].campos
  <1>1. CASE ctx[v] = Ausente
    BY <1>1 DEF ComFrequencia, TypeOK
  <1>2. CASE ctx[v] # Ausente
    <2>1. ctx[v] \in Registros
      BY <1>2 DEF TypeOK
    <2>2. [ctx[v] EXCEPT !.frequencia = f] \in Registros
      BY <2>1 DEF Registros
    <2>3. ComFrequencia(v, f) = [ctx EXCEPT ![v] = [ctx[v] EXCEPT !.frequencia = f]]
      BY <1>2 DEF ComFrequencia
    <2> QED BY <2>1, <2>2, <2>3, AusenteAssumption DEF TypeOK, Existentes, Registros
  <1> QED BY <1>1, <1>2

LEMMA Registro == ASSUME TypeOK, NEW p \in pedidos PROVE RegistroDe(p) \in Registros
  BY DEF TypeOK, RegistroDe, Registros, Pedidos

(* Coming back to the list.                                                *)
LEMMA ListaDe ==
  ASSUME NEW c \in [Vagas -> Registros \cup {Ausente}], Listar(c)
  PROVE  /\ pagina' = "lista" /\ linhas' \subseteq Vagas /\ linhas' = Existentes(c)
         /\ aberta' = Nulo /\ formulario' = Vazio
         /\ Mostradas' = Existentes(c)
  BY DEF Listar, Existentes, Mostradas

-----------------------------------------------------------------------------
LEMMA PassoTipos == ASSUME TypeOK, [Next]_vars PROVE TypeOK'
  <1> USE DEF TypeOK
  <1>1. CASE AbrirGaragem
    BY <1>1, ListaDe DEF AbrirGaragem, persistencia, Formularios
  <1>2. CASE FecharGaragem
    BY <1>2, SemFormTipado DEF FecharGaragem, persistencia, Formularios
  <1>3. CASE Voltar
    <2>1. CASE pagina = "frequencia"
      BY <1>3, <2>1 DEF Voltar, persistencia
    <2>2. CASE pagina # "frequencia"
      <3>1. Listar(ctx) /\ pedidos' \in {pedidos, SemForm}
        BY <1>3, <2>2 DEF Voltar
      <3> QED BY <1>3, <3>1, ListaDe, SemFormTipado DEF Voltar, persistencia, Formularios
    <2> QED BY <2>1, <2>2
  <1>4. CASE AbrirNova \/ AbrirFrequencia \/ Ok \/ SalvarIncompleto \/ SalvarPrecoInvalido
    BY <1>4 DEF AbrirNova, AbrirFrequencia, Ok, SalvarIncompleto, SalvarPrecoInvalido, NaPagina,
                persistencia, telas
  <1>5. ASSUME NEW v \in Vagas, ApagarVaga(v) PROVE TypeOK'
    <2>1. Gravar([ctx EXCEPT ![v] = Ausente])
      BY <1>5 DEF ApagarVaga
    <2>2. linhas' \subseteq linhas
      BY <1>5 DEF ApagarVaga, LinhasSem
    <2> QED BY <1>5, <2>1, <2>2, Gravacao DEF ApagarVaga
  <1>6. ASSUME NEW v \in Vagas, VisualizarVaga(v) PROVE TypeOK'
    BY <1>6, NuloAssumption DEF VisualizarVaga, NaPagina, persistencia
  <1>7. ASSUME NEW c \in Formularios, Preencher(c) PROVE TypeOK'
    <2>1. pedidos' \subseteq Pedidos
      BY <1>7 DEF Preencher, Pedidos
    <2>2. editou' \in BOOLEAN
      BY <1>7 DEF Preencher
    <2> QED BY <1>7, <2>1, <2>2 DEF Preencher, NaPagina, persistencia
  <1>8. ASSUME NEW f \in BOOLEAN, Salvar(f) PROVE TypeOK'
    <2>1. PedidoDe(f) \in Pedidos
      BY <1>8, LimitesAssumption DEF Salvar, Completo, PedidoDe, Pedidos, Formularios
    <2>2. toques' \in 0..MaxToques
      BY <1>8, LimitesAssumption DEF Salvar
    <2> QED BY <1>8, <2>1, <2>2 DEF Salvar, persistencia, telas
  <1>9. ASSUME NEW f \in BOOLEAN, ConfirmarFrequencia(f) PROVE TypeOK'
    <2>1. aberta \in Vagas
      BY <1>9 DEF ConfirmarFrequencia, NaPagina
    <2>2. Gravar(ComFrequencia(aberta, f)) /\ Listar(ctx')
      BY <1>9 DEF ConfirmarFrequencia
    <2> QED BY <1>9, <2>1, <2>2, Semana, Gravacao, ListaDe DEF ConfirmarFrequencia, Formularios
  <1>10. ASSUME NEW p \in pedidos, Recusar(p) PROVE TypeOK'
    <2>1. alerta' \in BOOLEAN
      BY <1>10 DEF Recusar
    <2> QED BY <1>10, <2>1 DEF Recusar, persistencia
  <1>11. ASSUME NEW p \in pedidos, NEW v \in Vagas, Responder(p, v) PROVE TypeOK'
    <2>1. Gravar([ctx EXCEPT ![v] = RegistroDe(p)]) /\ DepoisDeGravar(p, ctx')
      BY <1>11 DEF Responder
    <2>2. [ctx EXCEPT ![v] = RegistroDe(p)] \in [Vagas -> Registros \cup {Ausente}]
      BY Registro
    <2>3. CASE p.naPilha
      <3>1. Listar(ctx') /\ pedidos' = {[q EXCEPT !.naPilha = FALSE] : q \in pedidos \ {p}}
        BY <2>1, <2>3 DEF DepoisDeGravar
      <3>2. \A q \in pedidos : [q EXCEPT !.naPilha = FALSE] \in Pedidos
        BY DEF Pedidos
      <3>3. pedidos' \subseteq Pedidos
        BY <3>1, <3>2
      <3> QED BY <1>11, <2>1, <2>2, <3>1, <3>3, Gravacao, ListaDe DEF Responder, Formularios
    <2>4. CASE ~p.naPilha
      BY <1>11, <2>1, <2>2, <2>4, Gravacao DEF Responder, DepoisDeGravar
    <2> QED BY <2>3, <2>4
  <1>12. CASE GravarEmOutraTela \/ SegundoPlano
    <2>1. Gravar(ctx)
      BY <1>12 DEF GravarEmOutraTela, SegundoPlano
    <2> QED BY <1>12, <2>1, Gravacao DEF GravarEmOutraTela, SegundoPlano, telas
  <1>13. CASE Reiniciar
    <2>1. alerta' \in BOOLEAN
      BY <1>13, Zenon DEF Reiniciar
    <2> QED BY <1>13, <2>1, LimitesAssumption DEF Reiniciar, Formularios
  <1>14. CASE FicarFechado \/ UNCHANGED vars
    BY <1>14 DEF FicarFechado, vars
  <1> QED BY <1>1, <1>2, <1>3, <1>4, <1>5, <1>6, <1>7, <1>8, <1>9, <1>10, <1>11, <1>12, <1>13, <1>14
          DEF Next, Usuario, Geocoder

-----------------------------------------------------------------------------
(* Requests and their forms.                                               *)
LEMMA PassoForm == ASSUME IInv, [Next]_vars PROVE FormNaPilha'
  <1> USE DEF IInv, FormNaPilha
  <1>1. ASSUME NEW P \in {pedidos, SemForm}, pedidos' = P, \A p \in P : ~p.naPilha PROVE FormNaPilha'
    BY <1>1
  <1>2. CASE AbrirGaragem
    BY <1>2 DEF AbrirGaragem, NaPagina
  <1>3. CASE FecharGaragem
    BY <1>1, <1>3, SemFormTipado DEF FecharGaragem
  <1>4. CASE Voltar
    <2>1. CASE pagina = "nova"
      BY <1>1, <1>4, <2>1, SemFormTipado DEF Voltar
    <2>2. CASE pagina # "nova"
      BY <1>4, <2>2 DEF Voltar
    <2> QED BY <2>1, <2>2
  <1>5. CASE AbrirNova \/ AbrirFrequencia
    BY <1>5 DEF AbrirNova, AbrirFrequencia, NaPagina
  <1>6. ASSUME NEW v \in Vagas, ApagarVaga(v) \/ VisualizarVaga(v) PROVE FormNaPilha'
    BY <1>6 DEF ApagarVaga, VisualizarVaga, NaPagina
  <1>7. ASSUME NEW c \in Formularios, Preencher(c) PROVE FormNaPilha'
    <2>1. ASSUME NEW q \in pedidos', q.naPilha PROVE q.campos = c
      <3> PICK p \in pedidos : q = IF p.naPilha THEN [p EXCEPT !.campos = c] ELSE p
        BY <1>7 DEF Preencher
      <3> QED BY <2>1 DEF TypeOK, Pedidos
    <2> QED BY <1>7, <2>1 DEF Preencher, NaPagina
  <1>8. ASSUME NEW f \in BOOLEAN, Salvar(f) PROVE FormNaPilha'
    BY <1>8 DEF Salvar, Completo, PedidoDe, NaPagina, telas
  <1>9. ASSUME NEW f \in BOOLEAN, ConfirmarFrequencia(f) PROVE FormNaPilha'
    BY <1>9 DEF ConfirmarFrequencia, NaPagina
  <1>10. ASSUME NEW p \in pedidos, Recusar(p) PROVE FormNaPilha'
    BY <1>10 DEF Recusar
  <1>11. ASSUME NEW p \in pedidos, NEW v \in Vagas, Responder(p, v) PROVE FormNaPilha'
    <2>1. CASE p.naPilha
      <3>1. pedidos' = {[q EXCEPT !.naPilha = FALSE] : q \in pedidos \ {p}}
        BY <1>11, <2>1 DEF Responder, DepoisDeGravar
      <3>2. \A q \in pedidos : ~[q EXCEPT !.naPilha = FALSE].naPilha
        BY DEF TypeOK, Pedidos
      <3> QED BY <3>1, <3>2
    <2>2. CASE ~p.naPilha
      BY <1>11, <2>2 DEF Responder, DepoisDeGravar
    <2> QED BY <2>1, <2>2
  <1>12. CASE Reiniciar
    BY <1>12 DEF Reiniciar
  <1> QED BY <1>2, <1>3, <1>4, <1>5, <1>6, <1>7, <1>8, <1>9, <1>10, <1>11, <1>12
          DEF Next, Usuario, Geocoder, vars, telas, Ok, SalvarIncompleto, SalvarPrecoInvalido,
              GravarEmOutraTela, SegundoPlano, FicarFechado

LEMMA PassoFieis == ASSUME IInv, [Next]_vars PROVE PedidosFieis'
  <1> USE DEF PedidosFieis
  <1>0. TypeOK /\ (editou \/ \A p \in pedidos : p.id = p.campos)
    BY DEF IInv
  <1>1. ASSUME pedidos' \in {pedidos, SemForm}, UNCHANGED editou PROVE PedidosFieis'
    <2>1. \A p \in pedidos : [p EXCEPT !.naPilha = FALSE].id = p.id /\ [p EXCEPT !.naPilha = FALSE].campos = p.campos
      BY <1>0 DEF TypeOK, Pedidos
    <2>2. CASE editou
      BY <1>1, <2>2
    <2>3. CASE \A p \in pedidos : p.id = p.campos
      <3> SUFFICES ASSUME NEW q \in pedidos' PROVE q.id = q.campos
        OBVIOUS
      <3> PICK p \in pedidos : q \in {p, [p EXCEPT !.naPilha = FALSE]}
        BY <1>1 DEF SemForm
      <3> QED BY <2>1, <2>3
    <2> QED BY <1>0, <2>2, <2>3
  <1>2. ASSUME NEW c \in Formularios, Preencher(c) PROVE PedidosFieis'
    <2> SUFFICES ASSUME ~editou', NEW q \in pedidos' PROVE q.id = q.campos
      OBVIOUS
    <2> PICK p \in pedidos : q = IF p.naPilha THEN [p EXCEPT !.campos = c] ELSE p
      BY <1>2 DEF Preencher
    <2>1. ~editou /\ (p.naPilha => p.campos = c)
      BY <1>2 DEF Preencher
    <2> QED BY <1>0, <2>1 DEF TypeOK, Pedidos
  <1>3. ASSUME NEW f \in BOOLEAN, Salvar(f) PROVE PedidosFieis'
    BY <1>0, <1>3 DEF Salvar, Completo, PedidoDe
  <1>4. ASSUME NEW p \in pedidos, Recusar(p) PROVE PedidosFieis'
    BY <1>0, <1>4 DEF Recusar
  <1>5. ASSUME NEW p \in pedidos, NEW v \in Vagas, Responder(p, v) PROVE PedidosFieis'
    <2>1. pedidos' \in {pedidos \ {p}, {[q EXCEPT !.naPilha = FALSE] : q \in pedidos \ {p}}} /\ UNCHANGED editou
      BY <1>5 DEF Responder, DepoisDeGravar
    <2>2. \A q \in pedidos : [q EXCEPT !.naPilha = FALSE].id = q.id /\ [q EXCEPT !.naPilha = FALSE].campos = q.campos
      BY <1>0 DEF TypeOK, Pedidos
    <2>3. CASE editou
      BY <2>1, <2>3
    <2>4. CASE \A q \in pedidos : q.id = q.campos
      <3> SUFFICES ASSUME NEW r \in pedidos' PROVE r.id = r.campos
        OBVIOUS
      <3> PICK q \in pedidos : r \in {q, [q EXCEPT !.naPilha = FALSE]}
        BY <2>1
      <3> QED BY <2>2, <2>4
    <2> QED BY <1>0, <2>3, <2>4
  <1>6. CASE Reiniciar
    BY <1>0, <1>6 DEF Reiniciar
  <1> QED BY <1>0, <1>1, <1>2, <1>3, <1>4, <1>5, <1>6
          DEF Next, Usuario, Geocoder, vars, telas, AbrirGaragem, FecharGaragem, Voltar, AbrirNova,
              AbrirFrequencia, SalvarIncompleto, SalvarPrecoInvalido, Ok, ApagarVaga, VisualizarVaga,
              ConfirmarFrequencia, GravarEmOutraTela, SegundoPlano, FicarFechado

-----------------------------------------------------------------------------
(* How a step changes the spots: it puts some c in the context, which the  *)
(* store takes over or not, or starts again from the store.                *)
Fiel(r) == r = Ausente \/ r.id = r.campos

LEMMA PassoIds == ASSUME IInv, [Next]_vars PROVE IdDosCampos'
  <1>0. editou => editou'
    BY DEF Next, Usuario, Geocoder, vars, telas, AbrirGaragem, FecharGaragem, Voltar, AbrirNova,
           AbrirFrequencia, SalvarIncompleto, SalvarPrecoInvalido, Ok, ApagarVaga, VisualizarVaga,
           ConfirmarFrequencia, GravarEmOutraTela, SegundoPlano, FicarFechado, Preencher, Salvar,
           Recusar, Responder, Reiniciar
  <1> SUFFICES ASSUME ~editou, ~editou' PROVE IdDosCampos'
    BY <1>0 DEF IdDosCampos
  <1>1. \A v \in Vagas : Fiel(ctx[v]) /\ Fiel(store[v])
    BY DEF IInv, IdDosCampos, Fiel
  <1>2. SUFFICES \A v \in Vagas : Fiel(ctx'[v]) /\ Fiel(store'[v])
    BY DEF IdDosCampos, Fiel
  <1>3. ASSUME NEW c \in [Vagas -> Registros \cup {Ausente}], Gravar(c), \A v \in Vagas : Fiel(c[v])
        PROVE  \A v \in Vagas : Fiel(ctx'[v]) /\ Fiel(store'[v])
    BY <1>1, <1>3 DEF Gravar
  <1>4. ASSUME NEW v \in Vagas, ApagarVaga(v) PROVE \A w \in Vagas : Fiel(ctx'[w]) /\ Fiel(store'[w])
    <2> DEFINE c == [ctx EXCEPT ![v] = Ausente]
    <2>1. c \in [Vagas -> Registros \cup {Ausente}] /\ \A w \in Vagas : Fiel(c[w])
      BY <1>1 DEF IInv, TypeOK, Fiel
    <2>2. Gravar(c)
      BY <1>4 DEF ApagarVaga
    <2> HIDE DEF c
    <2> QED BY <1>3, <2>1, <2>2
  <1>5. ASSUME NEW f \in BOOLEAN, ConfirmarFrequencia(f)
        PROVE  \A w \in Vagas : Fiel(ctx'[w]) /\ Fiel(store'[w])
    <2>1. aberta \in Vagas
      BY <1>5 DEF ConfirmarFrequencia, NaPagina, IInv, TypeOK
    <2> DEFINE c == ComFrequencia(aberta, f)
    <2>2. c \in [Vagas -> Registros \cup {Ausente}] /\ \A w \in Vagas : Fiel(c[w])
      BY <1>1, <2>1, Semana DEF IInv, Existentes, Fiel
    <2>3. Gravar(c)
      BY <1>5 DEF ConfirmarFrequencia
    <2> HIDE DEF c
    <2> QED BY <1>3, <2>2, <2>3
  <1>6. ASSUME NEW p \in pedidos, NEW v \in Vagas, Responder(p, v)
        PROVE  \A w \in Vagas : Fiel(ctx'[w]) /\ Fiel(store'[w])
    <2> DEFINE c == [ctx EXCEPT ![v] = RegistroDe(p)]
    <2>1. Fiel(RegistroDe(p)) /\ RegistroDe(p) \in Registros
      BY Registro DEF IInv, PedidosFieis, Fiel, RegistroDe
    <2>2. c \in [Vagas -> Registros \cup {Ausente}] /\ \A w \in Vagas : Fiel(c[w])
      BY <1>1, <2>1 DEF IInv, TypeOK
    <2>3. Gravar(c)
      BY <1>6 DEF Responder
    <2> HIDE DEF c
    <2> QED BY <1>3, <2>2, <2>3
  <1>7. CASE GravarEmOutraTela \/ SegundoPlano
    BY <1>1, <1>3, <1>7 DEF GravarEmOutraTela, SegundoPlano, IInv, TypeOK
  <1>8. CASE Reiniciar
    BY <1>1, <1>8 DEF Reiniciar
  <1> QED BY <1>1, <1>4, <1>5, <1>6, <1>7, <1>8
          DEF Next, Usuario, Geocoder, vars, telas, persistencia, AbrirGaragem, FecharGaragem, Voltar,
              AbrirNova, AbrirFrequencia, SalvarIncompleto, SalvarPrecoInvalido, Ok, VisualizarVaga,
              FicarFechado, Preencher, Salvar, Recusar

-----------------------------------------------------------------------------
(* What is shown: nothing that is not there, or a deletion whose save      *)
(* failed.                                                                 *)
LEMMA PassoMostradas == ASSUME IInv, [Next]_vars PROVE MostradasConhecidas' /\ FantasmaTemMotivo'
  <1> DEFINE Certa == MostradasConhecidas /\ FantasmaTemMotivo
             Alguma == Mostradas' \subseteq Mostradas /\ queda' \notin {"ver", "frequencia"}
  <1> USE DEF IInv, TypeOK, MostradasConhecidas, FantasmaTemMotivo
  <1>1. ASSUME UNCHANGED <<ctx, falhas, apagadas, queda>>, Mostradas' \subseteq Mostradas \cup Existentes(ctx)
        PROVE  Certa'
    BY <1>1 DEF Existentes
  <1>2. CASE AbrirGaragem
    BY <1>1, <1>2, ListaDe DEF AbrirGaragem, persistencia
  <1>3. CASE FecharGaragem
    BY <1>1, <1>3 DEF FecharGaragem, persistencia, Mostradas
  <1>4. CASE Voltar
    <2>1. CASE pagina = "frequencia"
      BY <1>1, <1>4, <2>1 DEF Voltar, persistencia, Mostradas
    <2>2. CASE pagina # "frequencia"
      BY <1>1, <1>4, <2>2, ListaDe DEF Voltar, persistencia
    <2> QED BY <2>1, <2>2
  <1>5. ASSUME NEW v \in Vagas, ApagarVaga(v) PROVE Certa'
    <2> DEFINE c == [ctx EXCEPT ![v] = Ausente]
    <2>1. Gravar(c)
      BY <1>5 DEF ApagarVaga
    <2>2. c \in [Vagas -> Registros \cup {Ausente}] /\ Existentes(c) = Existentes(ctx) \ {v}
      BY DEF Existentes
    <2>3. ctx' = c /\ falhas' \in 0..MaxFalhas /\ (falhas' = 0 => falhas = 0 /\ falhas' = falhas)
      BY <2>1, <2>2, Gravacao
    <2>4. Existentes(ctx)' = Existentes(ctx) \ {v}
      BY <2>2, <2>3 DEF Existentes
    <2>5. aberta' = Nulo /\ Mostradas' = linhas' /\ linhas \subseteq Mostradas
      BY <1>5 DEF ApagarVaga, NaPagina, Mostradas
    <2>6. linhas' \subseteq linhas /\ (falhas' = falhas => linhas' = linhas \ {v})
      BY <1>5 DEF ApagarVaga, LinhasSem
    <2>7. UNCHANGED queda /\ apagadas' = apagadas \cup {v}
      BY <1>5 DEF ApagarVaga
    <2> HIDE DEF c
    <2>8. MostradasConhecidas'
      BY <2>4, <2>5, <2>6, <2>7
    <2>9. FantasmaTemMotivo'
      <3> SUFFICES ASSUME falhas' = 0
                   PROVE  Mostradas' \subseteq Existentes(ctx)' /\ queda' \notin {"ver", "frequencia"}
        OBVIOUS
      <3>1. falhas = 0 /\ falhas' = falhas
        BY <2>3
      <3> QED BY <2>4, <2>5, <2>6, <2>7, <3>1
    <2> QED BY <2>8, <2>9
  <1>6. ASSUME NEW v \in Vagas, VisualizarVaga(v) PROVE Certa'
    <2>1. v \in linhas /\ linhas' = linhas /\ aberta' = v /\ queda = "nenhuma"
      BY <1>6 DEF VisualizarVaga, NaPagina
    <2>2. Mostradas' \subseteq Mostradas
      BY <2>1 DEF Mostradas
    <2>3. UNCHANGED <<ctx, falhas, apagadas>>
      BY <1>6 DEF VisualizarVaga, persistencia
    <2>4. falhas = 0 => ~SemSemana(v)
      BY <2>1 DEF Mostradas, Existentes, SemSemana
    <2>5. falhas = 0 => queda' = "nenhuma"
      BY <1>6, <2>4 DEF VisualizarVaga
    <2> QED BY <2>2, <2>3, <2>5 DEF Existentes
  <1>7. CASE AbrirFrequencia
    <2>1. aberta \in Vagas /\ UNCHANGED <<linhas, aberta, ctx, falhas, apagadas>>
      BY <1>7 DEF AbrirFrequencia, NaPagina, persistencia
    <2>2. UNCHANGED Mostradas /\ aberta \in Mostradas
      BY <2>1, NuloAssumption DEF Mostradas
    <2>3. falhas = 0 => ~SemSemana(aberta)
      BY <2>2 DEF Existentes, SemSemana
    <2>4. falhas = 0 => queda' = "nenhuma"
      BY <1>7, <2>3 DEF AbrirFrequencia
    <2> QED BY <2>1, <2>2, <2>4 DEF Existentes
  <1>8. ASSUME NEW f \in BOOLEAN, ConfirmarFrequencia(f) PROVE Certa'
    <2>1. aberta \in Vagas /\ queda = "nenhuma" /\ UNCHANGED queda
      BY <1>8 DEF ConfirmarFrequencia, NaPagina
    <2>2. Gravar(ComFrequencia(aberta, f)) /\ Listar(ctx')
      BY <1>8 DEF ConfirmarFrequencia
    <2>3. ctx' \in [Vagas -> Registros \cup {Ausente}]
      BY <2>1, <2>2, Semana, Gravacao
    <2>4. Mostradas' = Existentes(ctx)'
      BY <2>2, <2>3, ListaDe DEF Existentes
    <2> QED BY <2>1, <2>4
  <1>9. ASSUME NEW p \in pedidos, NEW v \in Vagas, Responder(p, v) PROVE Certa'
    <2> DEFINE c == [ctx EXCEPT ![v] = RegistroDe(p)]
    <2>1. Gravar(c) /\ DepoisDeGravar(p, ctx') /\ UNCHANGED <<queda, apagadas>> /\ queda = "nenhuma"
      BY <1>9 DEF Responder
    <2>2. c \in [Vagas -> Registros \cup {Ausente}]
      BY Registro
    <2>3. RegistroDe(p) # Ausente
      BY Registro, AusenteAssumption
    <2>4. Existentes(ctx) \subseteq Existentes(c)
      BY <2>3 DEF Existentes
    <2>5. ctx' = c /\ falhas' \in 0..MaxFalhas /\ (falhas' = 0 => falhas = 0)
      BY <2>1, <2>2, Gravacao
    <2> HIDE DEF c
    <2>6. Existentes(ctx) \subseteq Existentes(ctx)'
      BY <2>4, <2>5 DEF Existentes
    <2>7. CASE p.naPilha
      <3>1. Listar(ctx')
        BY <2>1, <2>7 DEF DepoisDeGravar
      <3>2. Mostradas' = Existentes(ctx)'
        BY <2>2, <2>5, <3>1, ListaDe DEF Existentes
      <3> QED BY <2>1, <3>2
    <2>8. CASE ~p.naPilha
      <3>1. UNCHANGED Mostradas
        BY <2>1, <2>8 DEF DepoisDeGravar, Mostradas
      <3> QED BY <2>1, <2>5, <2>6, <3>1
    <2> QED BY <2>7, <2>8
  <1>10. CASE GravarEmOutraTela \/ SegundoPlano
    <2>1. Gravar(ctx) /\ queda = "nenhuma" /\ queda' \in {"nenhuma", "salvar"}
      BY <1>10 DEF GravarEmOutraTela, SegundoPlano
    <2>2. ctx' = ctx /\ (falhas' = 0 => falhas = 0)
      BY <2>1, Gravacao
    <2>3. UNCHANGED <<Mostradas, apagadas>>
      BY <1>10 DEF GravarEmOutraTela, SegundoPlano, telas, Mostradas
    <2> QED BY <2>1, <2>2, <2>3 DEF Existentes
  <1>11. CASE Reiniciar
    BY <1>11 DEF Reiniciar, Mostradas
  <1>12. CASE SalvarPrecoInvalido
    BY <1>12 DEF SalvarPrecoInvalido, persistencia, telas, Mostradas, Existentes
  <1> QED
    BY <1>1, <1>2, <1>3, <1>4, <1>5, <1>6, <1>7, <1>8, <1>9, <1>10, <1>11, <1>12
    DEF Next, Usuario, Geocoder, vars, telas, persistencia, Mostradas, AbrirNova, SalvarIncompleto, Ok,
        Preencher, Salvar, Recusar, FicarFechado

-----------------------------------------------------------------------------
LEMMA Invariancia == Spec => []IInv
  <1>1. IInv /\ [Next]_vars => IInv'
    BY PassoTipos, PassoForm, PassoFieis, PassoIds, PassoMostradas DEF IInv
  <1> QED BY <1>1, Inicio, PTL DEF Spec

(* Type correctness.                                                       *)
THEOREM Tipos == Spec => []TypeOK
  <1>1. IInv => TypeOK
    BY DEF IInv
  <1> QED BY <1>1, Invariancia, PTL

(* The id of a spot is that of its fields unless a form was edited while   *)
(* its own answer was awaited.                                             *)
THEOREM IdsSempreDosCampos == Spec => []IdDosCampos
  <1>1. IInv => IdDosCampos
    BY DEF IInv
  <1> QED BY <1>1, Invariancia, PTL

(* Nothing shows, or traps on, a spot that is not there unless a save      *)
(* failed.                                                                 *)
THEOREM FantasmasTemMotivo == Spec => []FantasmaTemMotivo
  <1>1. IInv => FantasmaTemMotivo
    BY DEF IInv
  <1> QED BY <1>1, Invariancia, PTL

-----------------------------------------------------------------------------
(* While saves succeed, memory and store are the same: a change and its    *)
(* save are one step, and a relaunch reads what was saved.                 *)
LEMMA PassoAtraso == ASSUME TypeOK, SoFalhaAtrasa, [Next]_vars PROVE SoFalhaAtrasa'
  <1> USE DEF SoFalhaAtrasa
  <1>1. ASSUME NEW c, Gravar(c) PROVE SoFalhaAtrasa'
    BY <1>1, LimitesAssumption DEF Gravar, TypeOK
  <1>2. CASE GravarEmOutraTela \/ SegundoPlano
    BY <1>1, <1>2 DEF GravarEmOutraTela, SegundoPlano
  <1>3. ASSUME NEW v \in Vagas, ApagarVaga(v) PROVE SoFalhaAtrasa'
    BY <1>1, <1>3 DEF ApagarVaga
  <1>4. ASSUME NEW f \in BOOLEAN, ConfirmarFrequencia(f) PROVE SoFalhaAtrasa'
    BY <1>1, <1>4 DEF ConfirmarFrequencia
  <1>5. ASSUME NEW p \in pedidos, NEW v \in Vagas, Responder(p, v) PROVE SoFalhaAtrasa'
    BY <1>1, <1>5 DEF Responder
  <1>6. CASE Reiniciar
    BY <1>6 DEF Reiniciar
  <1>7. CASE UNCHANGED persistencia
    BY <1>7 DEF persistencia
  <1> QED
    BY <1>2, <1>3, <1>4, <1>5, <1>6, <1>7
    DEF Next, Usuario, Geocoder, vars, telas, persistencia, AbrirGaragem, FecharGaragem, Voltar,
        AbrirNova, AbrirFrequencia, SalvarIncompleto, SalvarPrecoInvalido, Ok, VisualizarVaga,
        FicarFechado, Preencher, Salvar, Recusar

(* Nothing of the garage is lost, and nothing deleted comes back, unless a *)
(* save failed (VagasTable:97, NovaVaga:203, AtualizarFrequencia:72).      *)
THEOREM SoFalhasAtrasam == Spec => []SoFalhaAtrasa
  <1>1. Init => SoFalhaAtrasa
    BY DEF Init, SoFalhaAtrasa
  <1>2. TypeOK /\ SoFalhaAtrasa /\ [Next]_vars => SoFalhaAtrasa'
    BY PassoAtraso
  <1> QED BY <1>1, <1>2, Tipos, PTL DEF Spec

-----------------------------------------------------------------------------
(* An answer pops its own form, as it stands.                              *)
THEOREM RespostaTiraSoOQueGravou == Spec => TiraSoOQueGravou
  <1>1. ASSUME IInv, [Next]_vars
        PROVE  \A v \in Vagas : ctx[v] = Ausente /\ ctx'[v] # Ausente /\ pagina' # pagina /\ reinicios' = reinicios
                 => pagina = "nova" /\ ctx'[v].campos = formulario
    <2>0. SUFFICES ASSUME NEW v \in Vagas, ctx[v] = Ausente, ctx'[v] # Ausente, pagina' # pagina,
                          reinicios' = reinicios
                   PROVE  pagina = "nova" /\ ctx'[v].campos = formulario
      OBVIOUS
    <2>1. ASSUME NEW f \in BOOLEAN, ConfirmarFrequencia(f) PROVE FALSE
      <3>1. aberta \in Vagas /\ ctx' = ComFrequencia(aberta, f)
        BY <1>1, <2>1 DEF ConfirmarFrequencia, NaPagina, IInv, TypeOK, Gravar
      <3> QED BY <1>1, <2>0, <3>1, Semana DEF Existentes, IInv
    <2>2. ASSUME NEW p \in pedidos, NEW w \in Vagas, Responder(p, w)
          PROVE  pagina = "nova" /\ ctx'[v].campos = formulario
      <3>1. ctx' = [ctx EXCEPT ![w] = RegistroDe(p)] /\ p.naPilha
        BY <2>0, <2>2 DEF Responder, Gravar, DepoisDeGravar
      <3>2. v = w /\ ctx'[v] = RegistroDe(p)
        BY <1>1, <2>0, <3>1 DEF IInv, TypeOK
      <3> QED BY <1>1, <3>1, <3>2 DEF IInv, FormNaPilha, RegistroDe
    <2>3. ASSUME NEW w \in Vagas, ApagarVaga(w) PROVE FALSE
      BY <2>0, <2>3 DEF ApagarVaga
    <2>4. CASE Reiniciar
      BY <1>1, <2>0, <2>4 DEF Reiniciar, IInv, TypeOK
    <2> QED
      BY <1>1, <2>0, <2>1, <2>2, <2>3, <2>4
      DEF Next, Usuario, Geocoder, vars, telas, persistencia, AbrirGaragem, FecharGaragem, Voltar,
          AbrirNova, AbrirFrequencia, SalvarIncompleto, SalvarPrecoInvalido, Ok, VisualizarVaga,
          GravarEmOutraTela, SegundoPlano, FicarFechado, Preencher, Salvar, Recusar, Gravar
  <1> QED BY <1>1, Invariancia, PTL DEF Spec, TiraSoOQueGravou

-----------------------------------------------------------------------------
(* The garage implements the shared context: a step edits one spot and its *)
(* save takes the whole context over or none of it.                        *)
THEOREM ImplementaContexto == Spec => SegueContexto
  <1> USE DEF CG!Next, CG!Editar, CG!Salvar, CG!Relancar, CG!Conteudo, CG!vars
  <1>1. Init => CG!Init
    <2> SUFFICES ASSUME Init PROVE CG!Init
      OBVIOUS
    <2> QED BY Inicio DEF Init, IInv, TypeOK, CG!Init
  <1>2. ASSUME IInv, [Next]_vars PROVE [CG!Next]_(CG!vars)
    <2>0. TypeOK
      BY <1>2 DEF IInv
    <2>1. ASSUME NEW v \in Vagas, NEW r \in Registros \cup {Ausente}, Gravar([ctx EXCEPT ![v] = r])
          PROVE  CG!Editar(v)
      BY <2>0, <2>1 DEF TypeOK, Gravar
    <2>2. ASSUME NEW v \in Vagas, ApagarVaga(v) PROVE CG!Next
      <3>1. Gravar([ctx EXCEPT ![v] = Ausente])
        BY <2>2 DEF ApagarVaga
      <3>2. CG!Editar(v)
        BY <2>1, <3>1
      <3> QED BY <3>2
    <2>3. ASSUME NEW f \in BOOLEAN, ConfirmarFrequencia(f) PROVE [CG!Next]_(CG!vars)
      <3>1. aberta \in Vagas /\ Gravar(ComFrequencia(aberta, f))
        BY <2>0, <2>3 DEF ConfirmarFrequencia, NaPagina, TypeOK
      <3>2. CASE ctx[aberta] = Ausente
        BY <3>1, <3>2 DEF ComFrequencia, Gravar
      <3>3. CASE ctx[aberta] # Ausente
        <4>1. [ctx[aberta] EXCEPT !.frequencia = f] \in Registros
          BY <2>0, <3>1, <3>3 DEF TypeOK, Registros
        <4>2. Gravar([ctx EXCEPT ![aberta] = [ctx[aberta] EXCEPT !.frequencia = f]])
          BY <3>1, <3>3 DEF ComFrequencia
        <4>3. CG!Editar(aberta)
          BY <2>1, <3>1, <4>1, <4>2
        <4> QED BY <3>1, <4>3
      <3> QED BY <3>2, <3>3
    <2>4. ASSUME NEW p \in pedidos, NEW v \in Vagas, Responder(p, v) PROVE CG!Next
      <3>1. Gravar([ctx EXCEPT ![v] = RegistroDe(p)])
        BY <2>4 DEF Responder
      <3>2. CG!Editar(v)
        BY <2>0, <2>1, <3>1, Registro
      <3> QED BY <3>2
    <2>5. CASE GravarEmOutraTela \/ SegundoPlano
      BY <2>5 DEF GravarEmOutraTela, SegundoPlano, Gravar
    <2>6. CASE Reiniciar
      BY <2>6 DEF Reiniciar
    <2> QED
      BY <1>2, <2>2, <2>3, <2>4, <2>5, <2>6
      DEF Next, Usuario, Geocoder, vars, telas, persistencia, AbrirGaragem, FecharGaragem, Voltar,
          AbrirNova, AbrirFrequencia, SalvarIncompleto, SalvarPrecoInvalido, Ok, VisualizarVaga,
          FicarFechado, Preencher, Salvar, Recusar
  <1> QED BY <1>1, <1>2, Invariancia, PTL DEF Spec, SegueContexto, CG!Spec

(* The garage keeps what the home screen relies on.                        *)
THEOREM ImplementaAcervo == Spec => SegueAcervo
  <1> DEFINE Guardado == Campos \X Formularios
  <1>1. \A r \in Registros : <<r.id, r.campos>> \in Guardado
    BY DEF Registros
  <1>2. Init => AV!Init
    <2> SUFFICES ASSUME Init PROVE AV!Init
      OBVIOUS
    <2>1. TypeOK /\ apagadas = {}
      BY Inicio DEF Init, IInv
    <2> QED BY <1>1, <2>1 DEF AV!Init, Acervo, TypeOK
  <1>3. ASSUME IInv, [Next]_vars PROVE [AV!Next]_(AV!vars)
    <2>0. TypeOK /\ TypeOK' /\ MostradasConhecidas
      BY <1>3, PassoTipos DEF IInv
    <2>1. ASSUME UNCHANGED <<ctx, apagadas>> PROVE UNCHANGED AV!vars
      BY <2>1 DEF AV!vars, Acervo
    <2>2. ASSUME NEW v \in Vagas, ApagarVaga(v) PROVE [AV!Next]_(AV!vars)
      <3>1. ctx' = [ctx EXCEPT ![v] = Ausente] /\ apagadas' = apagadas \cup {v} /\ v \in linhas
        BY <2>2 DEF ApagarVaga, Gravar
      <3>2. CASE ctx[v] = Ausente
        <4>1. v \in apagadas
          BY <2>0, <3>1, <3>2 DEF MostradasConhecidas, Mostradas, Existentes
        <4>2. ctx' = ctx
          BY <2>0, <3>1, <3>2 DEF TypeOK
        <4> QED BY <2>1, <3>1, <4>1, <4>2
      <3>3. CASE ctx[v] # Ausente
        <4>1. Acervo' = [Acervo EXCEPT ![v] = Ausente]
          BY <2>0, <3>1, <3>3 DEF Acervo, TypeOK
        <4>2. Acervo[v] # Ausente
          BY <1>1, <2>0, <3>3, AusenteAssumption DEF Acervo, TypeOK
        <4> QED BY <3>1, <4>1, <4>2 DEF AV!Next, AV!Apagar
      <3> QED BY <3>2, <3>3
    <2>3. ASSUME NEW f \in BOOLEAN, ConfirmarFrequencia(f) PROVE UNCHANGED AV!vars
      <3>1. aberta \in Vagas /\ ctx' = ComFrequencia(aberta, f) /\ UNCHANGED apagadas
        BY <2>0, <2>3 DEF ConfirmarFrequencia, NaPagina, TypeOK, Gravar
      <3>2. Acervo' = Acervo
        BY <2>0, <3>1, Semana DEF Acervo, Existentes
      <3> QED BY <3>1, <3>2 DEF AV!vars
    <2>4. ASSUME NEW p \in pedidos, NEW v \in Vagas, Responder(p, v) PROVE AV!Next
      <3>1. ctx' = [ctx EXCEPT ![v] = RegistroDe(p)] /\ UNCHANGED apagadas /\ Novo(v)
        BY <2>4 DEF Responder, Gravar
      <3>2. RegistroDe(p) \in Registros /\ RegistroDe(p) # Ausente
        BY <2>0, Registro, AusenteAssumption
      <3>3. Acervo' = [Acervo EXCEPT ![v] = <<RegistroDe(p).id, RegistroDe(p).campos>>]
        BY <2>0, <3>1, <3>2 DEF Acervo, TypeOK
      <3>4. Acervo[v] = Ausente /\ v \notin apagadas
        BY <3>1 DEF Acervo, Novo
      <3> QED BY <1>1, <3>1, <3>2, <3>3, <3>4 DEF AV!Next, AV!Inserir
    <2>5. CASE GravarEmOutraTela \/ SegundoPlano
      BY <2>1, <2>5 DEF GravarEmOutraTela, SegundoPlano, Gravar
    <2>6. CASE Reiniciar
      <3>1. Acervo' \in [Vagas -> Guardado \cup {Ausente}]
        BY <1>1, <2>0 DEF Acervo, TypeOK
      <3> QED BY <2>6, <3>1 DEF Reiniciar, AV!Next, AV!Recomecar
    <2> QED
      BY <1>3, <2>1, <2>2, <2>3, <2>4, <2>5, <2>6
      DEF Next, Usuario, Geocoder, vars, telas, persistencia, AbrirGaragem, FecharGaragem, Voltar,
          AbrirNova, AbrirFrequencia, SalvarIncompleto, SalvarPrecoInvalido, Ok, VisualizarVaga,
          FicarFechado, Preencher, Salvar, Recusar
  <1> QED BY <1>2, <1>3, Invariancia, PTL DEF Spec, SegueAcervo, AV!Spec
=============================================================================
