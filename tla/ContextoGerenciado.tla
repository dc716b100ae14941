------------------------- MODULE ContextoGerenciado -------------------------
(***************************************************************************)
(* What the rest of the app may rely on from persistence.  Every screen    *)
(* works on one shared Core Data context, AppDelegate's                    *)
(* persistentContainer.viewContext, and on the SQLite store behind it.     *)
(* A handler touches one managed object and then tries to save; a save     *)
(* that succeeds writes the WHOLE context, whoever made its pending        *)
(* changes; one that fails leaves them pending; a relaunch starts again    *)
(* from the store.  The detailed modules are shown to implement this one.  *)
(***************************************************************************)
CONSTANTS
  Objetos,   \* the managed objects there may ever be
  Valores,   \* what an object can hold
  Ausente    \* the object does not exist (never inserted, or deleted)

VARIABLES
  ctx,       \* the context: what every fetch on the main thread sees
  store      \* the SQLite store: what survives the process

vars == <<ctx, store>>

Conteudo == Valores \cup {Ausente}

TypeOK == ctx \in [Objetos -> Conteudo] /\ store \in [Objetos -> Conteudo]

Init == /\ ctx \in [Objetos -> Conteudo]
        /\ store = ctx

(* A handler edits, inserts or deletes one object; the save that goes     *)
(* with it (if any) fails and leaves the change pending, or succeeds and   *)
(* commits everything.                                                     *)
Editar(o) == /\ ctx'[o] \in Conteudo
             /\ ctx' = [ctx EXCEPT ![o] = ctx'[o]]
             /\ store' \in {store, ctx'}

(* AppDelegate.saveContext, or a handler that changed nothing and saved.   *)
Salvar == UNCHANGED ctx /\ store' = ctx

(* The process ends and starts again: pending changes are gone.            *)
Relancar == ctx' = store /\ UNCHANGED store

Next == (\E o \in Objetos : Editar(o)) \/ Salvar \/ Relancar

Spec == Init /\ [][Next]_vars
=============================================================================
