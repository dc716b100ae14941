------------------------------- MODULE Sessao -------------------------------
(***************************************************************************)
(* What the app may rely on from its accounts, whatever pages and races    *)
(* lie between: the session is nobody's or that of an account that exists, *)
(* accounts and profiles never vanish, and a profile is only stored under  *)
(* an account that exists, with the data of one.                           *)
(***************************************************************************)
CONSTANTS Emails, Nulo

VARIABLES usuario, contas, perfis

vars == <<usuario, contas, perfis>>

Init ==
  /\ contas \subseteq Emails
  /\ perfis \in [Emails -> Emails \cup {Nulo}]
  /\ usuario \in contas \cup {Nulo}

CriarConta(e) == contas' = contas \cup {e} /\ UNCHANGED <<usuario, perfis>>

Entrar(e) == e \in contas /\ usuario' = e /\ UNCHANGED <<contas, perfis>>

Sair == usuario' = Nulo /\ UNCHANGED <<contas, perfis>>

GravarPerfil(u, d) ==
  /\ u \in contas /\ d \in contas
  /\ perfis' = [perfis EXCEPT ![u] = d]
  /\ UNCHANGED <<usuario, contas>>

Next ==
  \/ \E e \in Emails : CriarConta(e) \/ Entrar(e)
  \/ Sair
  \/ \E u, d \in Emails : GravarPerfil(u, d)

Spec == Init /\ [][Next]_vars
=============================================================================
