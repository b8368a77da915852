---------------------------- MODULE WalkerProofs ----------------------------
(***************************************************************************)
(* What Walker promises, for every set of vertices, every choice of        *)
(* graphs and any number of Updates.                                       *)
(*                                                                         *)
(* The argument for DepsHonoured follows one waitDeps answer from the      *)
(* Update that asked for it to the walkVertex that takes it.  The answer   *)
(* belongs to the channel numbered info[i].depsUpdateCh; it is either      *)
(* still in info[i].depsCh, or in the walkVertex's own depsCh, or taken;   *)
(* and only the waitDeps of that channel is not cancelled.                 *)
(***************************************************************************)
EXTENDS Walker, TLAPS

\* i is the walkerVertex of a vertex whose waitDeps the Update in progress
\* has yet to replace.
InFlux(i) ==
    /\ update.pc = "swap"
    /\ i = InfoOf(i[1])
    /\ i[1] \in update.changed \cup update.spawn

\* Where the answer to the latest wait for dependencies is.
ChannelInv ==
    \A i \in Info :
        /\ info[i].depsCh \in {Nil, info[i].depsUpdateCh}
        /\ walk[i].depsCh # Nil /\ info[i].depsCh = Nil
              => walk[i].depsCh = info[i].depsUpdateCh
        /\ walk[i].pc \in {"none", "added", "start"}
              => walk[i].depsCh = Nil /\ info[i].depsCh = info[i].depsUpdateCh
        /\ walk[i].pc = "select" => walk[i].depsCh # Nil
        /\ walk[i].pc = "load" /\ info[i].depsCh = Nil /\ walk[i].depsCh = Nil
             /\ info[i].depsUpdateCh # Nil
              => waiter[<<i[1], info[i].depsUpdateCh>>].doneCh = "taken"
        /\ i[2] > Cur => walk[i].pc = "none"

\* Which waitDeps a walkerVertex has, and for which dependencies.
DepsInv ==
    \A i \in Info :
        /\ info[i].depsUpdateCh <= Cur
        /\ update.pc = "remove" => info[i].depsUpdateCh # Cur
        /\ update.pc = "swap" /\ info[i].depsUpdateCh = Cur
              => i = InfoOf(i[1]) /\ i[1] \notin update.changed
        /\ IF InFlux(i) /\ i[1] \in update.spawn
           THEN info[i].depsUpdateCh = Cur
           ELSE info[i].depsCancelCh = info[i].depsUpdateCh
        /\ ~InFlux(i) => IF info[i].depsUpdateCh = Nil
                         THEN info[i].deps = {}
                         ELSE waiter[<<i[1], info[i].depsUpdateCh>>].deps = info[i].deps

\* Only a waitDeps that has been replaced is cancelled.
CancelInv ==
    /\ \A i \in Info : info[i].depsCancelCh # Nil
                          => ~ waiter[<<i[1], info[i].depsCancelCh>>].canceled
    /\ \A i, j \in Info :
          i[1] = j[1] /\ i # j /\ info[i].depsCancelCh # Nil
             => info[i].depsCancelCh # info[j].depsCancelCh

\* The waitDeps w is one that Updates have yet to start.
Unborn(w) ==
    \/ w[2] > Cur
    \/ w[2] = Cur /\ update.pc = "remove"
    \/ w[2] = Cur /\ update.pc = "swap" /\ w[1] \in update.changed \cup update.spawn

\* A waitDeps that has answered has seen its dependencies done or has been
\* cancelled.
WaiterInv ==
    \A w \in Info :
        /\ waiter[w].doneCh \notin {"none", "empty"} => waiter[w].deps \subseteq done \/ waiter[w].canceled
        /\ Unborn(w) => waiter[w].doneCh = "none"

\* What an Update in progress has still to do is about vertices that have
\* a walkerVertex.
UpdateInv ==
    /\ \A v \in vertices : vertexMap[v] # Nil
    /\ update.old \subseteq vertices
    /\ update.pc # "idle" => Cur \in Upd
    /\ update.pc = "swap" => \A v \in update.changed \cup update.spawn : vertexMap[v] \in Upd
    /\ \A u, v \in update.spawn : u = v
    /\ update.changed \cap update.spawn = {}

IInv ==
    /\ TypeOK
    /\ ChannelInv
    /\ DepsInv
    /\ CancelInv
    /\ WaiterInv
    /\ UpdateInv

-----------------------------------------------------------------------------
\* Every action keeps the types: the numbers of channels stay within the
\* Updates there are, whatever Update and the goroutines do in between.
LEMMA TypeInitial == Init => TypeOK
<1> USE WalkerAssumption
<1>1. NewInfo \in InfoRec
      BY DEF NewInfo, InfoRec, Nil
<1>2. NoWaiter \in WaiterRec
      BY DEF NoWaiter, WaiterRec
<1>3. NewWalk \in WalkRec
      BY DEF NewWalk, WalkRec, Pcs, Nil
<1>4. IdleUpdate(0) \in UpdateRec
      BY DEF IdleUpdate, UpdateRec
<1>5. Nil \in 0..MaxUpdates
      BY DEF Nil
<1> QED BY <1>1, <1>2, <1>3, <1>4, <1>5 DEF Init, TypeOK

\* Every step keeps the types.
LEMMA TypePreserved == TypeOK /\ UpdateInv /\ [Next]_vars => TypeOK'
<1> SUFFICES ASSUME TypeOK, UpdateInv, [Next]_vars PROVE TypeOK'
    OBVIOUS
<1> USE WalkerAssumption
<1>1. ASSUME NEW g \in Graphs, UpdateBegin(g) PROVE TypeOK'
  <2>1. update' \in UpdateRec
       BY <1>1 DEF TypeOK, UpdateBegin, UpdateRec, Upd
  <2>2. walk' \in [Info -> WalkRec]
       BY <1>1 DEF TypeOK, UpdateBegin, WalkRec, Pcs
  <2>3. vertexMap' \in [Vertex -> 0..MaxUpdates]
       BY <1>1 DEF TypeOK, UpdateBegin, UpdateRec, Upd
  <2>4. vertices' \subseteq Vertex
       BY <1>1 DEF TypeOK, UpdateBegin
  <2> QED BY <1>1, <2>1, <2>2, <2>3, <2>4 DEF TypeOK, UpdateBegin
<1>2. ASSUME UpdateEdges PROVE TypeOK'
  <2> DEFINE known(v) == vertexMap[v] # Nil
             added    == {e \in update.edges \ edges : known(WaiterOf(e)) /\ known(DepOf(e))}
             removed  == {e \in edges \ update.edges : known(WaiterOf(e))}
             gained(v) == {DepOf(e) : e \in {x \in added : WaiterOf(x) = v}}
             lost(v)   == {DepOf(e) : e \in {x \in removed : WaiterOf(x) = v}}
             deps(i) == {d \in info[i].deps : d[1] \notin gained(i[1]) \cup lost(i[1])}
                           \cup {InfoOf(d) : d \in gained(i[1])}
  <2>1. update' \in UpdateRec
        BY <1>2 DEF TypeOK, UpdateEdges, UpdateRec, Cur, WaiterOf
  <2>2. \A v \in Vertex : vertexMap[v] # Nil => InfoOf(v) \in Info
        BY DEF TypeOK, InfoOf, Info, Upd, Nil
  <2>3. \A v : gained(v) \subseteq {u \in Vertex : vertexMap[u] # Nil}
        BY DEF TypeOK, UpdateRec, DepOf
  <2>4. \A i \in Info : deps(i) \subseteq Info
    <3> HIDE DEF gained, lost
    <3> QED BY <2>2, <2>3 DEF TypeOK, InfoRec
  <2>5. info' = [i \in Info |-> IF i = InfoOf(i[1]) THEN [info[i] EXCEPT !.deps = deps(i)]
                                                   ELSE info[i]]
        BY <1>2 DEF UpdateEdges
  <2>6. info' \in [Info -> InfoRec]
    <3> HIDE DEF deps
    <3> QED BY <2>4, <2>5 DEF TypeOK, InfoRec
  <2>7. edges' \subseteq Vertex \X Vertex
        BY <1>2 DEF TypeOK, UpdateEdges, UpdateRec
  <2> QED BY <1>2, <2>1, <2>6, <2>7 DEF TypeOK, UpdateEdges
<1>3. ASSUME UpdateStart PROVE TypeOK'
  <2>1. update' \in UpdateRec
       BY <1>3 DEF TypeOK, UpdateStart, UpdateRec, IdleUpdate, Cur
  <2>2. walk' \in [Info -> WalkRec]
       BY <1>3 DEF TypeOK, UpdateStart, WalkRec, Pcs
  <2> QED BY <1>3, <2>1, <2>2 DEF TypeOK, UpdateStart
<1>4. ASSUME NEW v \in Vertex, UpdateRemove(v) PROVE TypeOK'
  <2>1. update' \in UpdateRec
       BY <1>4 DEF TypeOK, UpdateRemove, UpdateRec
  <2>2. canceled' \subseteq Info
       BY <1>4 DEF TypeOK, UpdateRemove, InfoOf, Info, Upd, UpdateInv, Nil
  <2>3. vertexMap' \in [Vertex -> 0..MaxUpdates]
       BY <1>4 DEF TypeOK, UpdateRemove, Nil
  <2>4. vertices' \subseteq Vertex
       BY <1>4 DEF TypeOK, UpdateRemove
  <2> QED BY <1>4, <2>1, <2>2, <2>3, <2>4 DEF TypeOK, UpdateRemove
<1>5. ASSUME NEW v \in Vertex, UpdateSwap(v) PROVE TypeOK'
  <2>1. update' \in UpdateRec
       BY <1>5 DEF TypeOK, UpdateSwap, UpdateRec, Cur
  <2>2. info' \in [Info -> InfoRec]
       BY <1>5 DEF TypeOK, UpdateSwap, InfoRec, UpdateRec, Cur
  <2> QED BY <1>5, <2>1, <2>2 DEF TypeOK, UpdateSwap
<1>6. ASSUME NEW v \in Vertex, UpdateSpawn(v) PROVE TypeOK'
  <2>1. update' \in UpdateRec
        BY <1>6 DEF TypeOK, UpdateSpawn, UpdateRec
  <2>2. Cur \in 0..MaxUpdates /\ InfoOf(v) \in Info
        BY <1>6 DEF TypeOK, UpdateSpawn, UpdateRec, Cur, UpdateInv, InfoOf, Info
  <2>3. info[InfoOf(v)].deps \subseteq Info
        BY <2>2 DEF TypeOK, InfoRec
  <2>4. info' \in [Info -> InfoRec]
        BY <1>6, <2>2 DEF TypeOK, UpdateSpawn, InfoRec
  <2>5. waiter' \in [Info -> WaiterRec]
        BY <1>6, <2>3 DEF TypeOK, UpdateSpawn, WaiterRec
  <2> QED BY <1>6, <2>1, <2>4, <2>5 DEF TypeOK, UpdateSpawn
<1>7. ASSUME NEW i \in Info, WaitDepsCanceled(i) PROVE TypeOK'
  <2>1. waiter' \in [Info -> WaiterRec]
       BY <1>7 DEF TypeOK, WaitDepsCanceled, WaiterRec
  <2> QED BY <1>7, <2>1 DEF TypeOK, WaitDepsCanceled
<1>8. ASSUME NEW i \in Info, WaitDepsSatisfied(i) PROVE TypeOK'
  <2>1. waiter' \in [Info -> WaiterRec]
       BY <1>8 DEF TypeOK, WaitDepsSatisfied, WaiterRec
  <2> QED BY <1>8, <2>1 DEF TypeOK, WaitDepsSatisfied
<1>9. ASSUME NEW i \in Info, WalkEnter(i) PROVE TypeOK'
  <2>1. walk' \in [Info -> WalkRec]
       BY <1>9 DEF TypeOK, WalkEnter, WalkRec, Pcs, Nil
  <2> QED BY <1>9, <2>1 DEF TypeOK, WalkEnter
<1>10. ASSUME NEW i \in Info, WalkSelectCancel(i) PROVE TypeOK'
  <2>1. walk' \in [Info -> WalkRec]
       BY <1>10 DEF TypeOK, WalkSelectCancel, WalkRec, Pcs
  <2> QED BY <1>10, <2>1 DEF TypeOK, WalkSelectCancel
<1>11. ASSUME NEW i \in Info, WalkSelectDeps(i) PROVE TypeOK'
  <2>1. walk' \in [Info -> WalkRec]
       BY <1>11 DEF TypeOK, WalkSelectDeps, WalkRec, Pcs, Nil
  <2>2. waiter' \in [Info -> WaiterRec]
       BY <1>11 DEF TypeOK, WalkSelectDeps, WaiterRec
  <2> QED BY <1>11, <2>1, <2>2 DEF TypeOK, WalkSelectDeps
<1>12. ASSUME NEW i \in Info, WalkSelectUpdate(i) PROVE TypeOK'
  <2>1. walk' \in [Info -> WalkRec]
       BY <1>12 DEF TypeOK, WalkSelectUpdate, WalkRec, Pcs
  <2> QED BY <1>12, <2>1 DEF TypeOK, WalkSelectUpdate
<1>13. ASSUME NEW i \in Info, WalkLoad(i) PROVE TypeOK'
  <2>1. info' \in [Info -> InfoRec]
       BY <1>13 DEF TypeOK, WalkLoad, InfoRec, Nil
  <2>2. walk' \in [Info -> WalkRec]
       BY <1>13 DEF TypeOK, WalkLoad, WalkRec, InfoRec, Pcs
  <2> QED BY <1>13, <2>1, <2>2 DEF TypeOK, WalkLoad
<1>14. ASSUME NEW i \in Info, WalkCheck(i) PROVE TypeOK'
  <2>1. walk' \in [Info -> WalkRec]
       BY <1>14 DEF TypeOK, WalkCheck, WalkRec, Pcs
  <2> QED BY <1>14, <2>1 DEF TypeOK, WalkCheck
<1>15. ASSUME NEW i \in Info, WalkSkip(i) PROVE TypeOK'
  <2>1. walk' \in [Info -> WalkRec]
       BY <1>15 DEF TypeOK, WalkSkip, WalkRec, Pcs
  <2>2. diagsMap' \in [Vertex -> {"none", "ok", "error"}] /\ upstreamFailed' \subseteq Vertex
       BY <1>15 DEF TypeOK, WalkSkip, Info
  <2> QED BY <1>15, <2>1, <2>2 DEF TypeOK, WalkSkip
<1>16. ASSUME NEW i \in Info, WalkClose(i) PROVE TypeOK'
  <2>1. walk' \in [Info -> WalkRec]
       BY <1>16 DEF TypeOK, WalkClose, WalkRec, Pcs
  <2> QED BY <1>16, <2>1 DEF TypeOK, WalkClose
<1>17. ASSUME NEW i \in Info, WalkExit(i) PROVE TypeOK'
  <2>1. walk' \in [Info -> WalkRec]
       BY <1>17 DEF TypeOK, WalkExit, WalkRec, Pcs
  <2> QED BY <1>17, <2>1 DEF TypeOK, WalkExit
<1>18. ASSUME NEW i \in Info, NEW diags \in {"ok", "error"}, WalkCallback(i, diags) PROVE TypeOK'
  <2>1. walk' \in [Info -> WalkRec]
       BY <1>18 DEF TypeOK, WalkCallback, WalkRec, Pcs
  <2>2. diagsMap' \in [Vertex -> {"none", "ok", "error"}]
       BY <1>18 DEF TypeOK, WalkCallback, Info
  <2> QED BY <1>18, <2>1, <2>2 DEF TypeOK, WalkCallback
<1>19. ASSUME Wait PROVE TypeOK'
  <2>1. result' \subseteq Vertex
       BY <1>19 DEF TypeOK, Wait, OwnFailures
  <2> QED BY <1>19, <2>1 DEF TypeOK, Wait
<1>20. CASE UNCHANGED vars
     BY <1>20 DEF vars, TypeOK
<1> QED
    BY <1>1, <1>2, <1>3, <1>4, <1>5, <1>6, <1>7, <1>8, <1>9, <1>10,
       <1>11, <1>12, <1>13, <1>14, <1>15, <1>16, <1>17, <1>18, <1>19, <1>20
    DEF Next, UpdateStep, WaitDepsStep, WalkStep
-----------------------------------------------------------------------------
\* What the two steps that give a vertex its new channels do, field by field.
LEMMA SwapEffect ==
    ASSUME IInv, NEW v \in Vertex, UpdateSwap(v)
    PROVE  /\ InfoOf(v) \in Info
           /\ Cur \in Upd
           /\ \A j \in Info :
                 /\ info'[j].deps = info[j].deps
                 /\ info'[j].depsCancelCh = info[j].depsCancelCh
                 /\ info'[j].depsCh = IF j = InfoOf(v) THEN Cur ELSE info[j].depsCh
                 /\ info'[j].depsUpdateCh = IF j = InfoOf(v) THEN Cur
                                                             ELSE info[j].depsUpdateCh
<1>1. InfoOf(v) \in Info /\ Cur \in Upd
      BY DEF IInv, UpdateInv, UpdateSwap, InfoOf, Info
<1>2. ASSUME NEW j \in Info
      PROVE  /\ info'[j].deps = info[j].deps
             /\ info'[j].depsCancelCh = info[j].depsCancelCh
             /\ info'[j].depsCh = IF j = InfoOf(v) THEN Cur ELSE info[j].depsCh
             /\ info'[j].depsUpdateCh = IF j = InfoOf(v) THEN Cur ELSE info[j].depsUpdateCh
      BY <1>1 DEF IInv, TypeOK, InfoRec, UpdateSwap
<1> QED BY <1>1, <1>2

\* After UpdateSpawn only the new waitDeps and the replaced one differ.
LEMMA SpawnEffect ==
    ASSUME IInv, NEW v \in Vertex, UpdateSpawn(v)
    PROVE  /\ InfoOf(v) \in Info
           /\ Cur \in Upd
           /\ info[InfoOf(v)].depsUpdateCh = Cur
           /\ waiter[<<v, Cur>>].doneCh = "none"
           /\ \A j \in Info :
                 /\ info'[j].deps = info[j].deps
                 /\ info'[j].depsCh = info[j].depsCh
                 /\ info'[j].depsUpdateCh = info[j].depsUpdateCh
                 /\ info'[j].depsCancelCh = IF j = InfoOf(v) THEN Cur
                                                             ELSE info[j].depsCancelCh
           /\ \A w \in Info : w # <<v, Cur>> =>
                 /\ waiter'[w].deps = waiter[w].deps
                 /\ waiter'[w].doneCh = waiter[w].doneCh
                 /\ waiter'[w].canceled
                       => waiter[w].canceled \/ w = <<v, info[InfoOf(v)].depsCancelCh>>
           /\ waiter'[<<v, Cur>>].deps = info[InfoOf(v)].deps
           /\ ~ waiter'[<<v, Cur>>].canceled
<1>1. InfoOf(v) \in Info /\ Cur \in Upd
      BY DEF IInv, UpdateInv, UpdateSpawn, InfoOf, Info
<1>2. info[InfoOf(v)].depsUpdateCh = Cur
      BY <1>1 DEF IInv, DepsInv, InFlux, UpdateSpawn, InfoOf
<1>3. <<v, Cur>> \in Info /\ waiter[<<v, Cur>>].doneCh = "none"
      BY <1>1 DEF IInv, WaiterInv, Unborn, UpdateSpawn, Info
<1>4. \A j \in Info :
         /\ info'[j].deps = info[j].deps
         /\ info'[j].depsCh = info[j].depsCh
         /\ info'[j].depsUpdateCh = info[j].depsUpdateCh
         /\ info'[j].depsCancelCh = IF j = InfoOf(v) THEN Cur ELSE info[j].depsCancelCh
      BY <1>1 DEF IInv, TypeOK, InfoRec, UpdateSpawn
<1>5. \A w \in Info : w # <<v, Cur>> =>
         /\ waiter'[w].deps = waiter[w].deps
         /\ waiter'[w].doneCh = waiter[w].doneCh
         /\ waiter'[w].canceled
               => waiter[w].canceled \/ w = <<v, info[InfoOf(v)].depsCancelCh>>
      BY DEF IInv, TypeOK, WaiterRec, UpdateSpawn
<1>6. waiter'[<<v, Cur>>].deps = info[InfoOf(v)].deps /\ ~ waiter'[<<v, Cur>>].canceled
      BY <1>3 DEF UpdateSpawn
<1> QED BY <1>1, <1>2, <1>3, <1>4, <1>5, <1>6

-----------------------------------------------------------------------------
\* An Update in progress only has walkerVertexes of its own to change.
LEMMA UpdatePreserved == IInv /\ [Next]_vars => UpdateInv'
<1> SUFFICES ASSUME IInv, [Next]_vars PROVE UpdateInv'
    OBVIOUS
<1> USE WalkerAssumption DEF IInv
<1>1. ASSUME NEW g \in Graphs, UpdateBegin(g) PROVE UpdateInv'
     BY <1>1 DEF TypeOK, UpdateInv, UpdateBegin, UpdateRec, Upd, Cur, Nil
<1>2. ASSUME UpdateEdges PROVE UpdateInv'
     BY <1>2 DEF TypeOK, UpdateInv, UpdateEdges, UpdateRec, Upd, Cur, Nil, WaiterOf
<1>3. ASSUME UpdateStart PROVE UpdateInv'
     BY <1>3 DEF TypeOK, UpdateInv, UpdateStart, UpdateRec, Cur, IdleUpdate
<1>4. ASSUME NEW v \in Vertex, UpdateRemove(v) PROVE UpdateInv'
     BY <1>4 DEF TypeOK, UpdateInv, UpdateRemove, UpdateRec, Upd, Cur, InfoOf
<1>5. ASSUME NEW v \in Vertex, UpdateSwap(v) PROVE UpdateInv'
     BY <1>5 DEF TypeOK, UpdateInv, UpdateSwap, UpdateRec, Upd, Cur
<1>6. ASSUME NEW v \in Vertex, UpdateSpawn(v) PROVE UpdateInv'
     BY <1>6 DEF TypeOK, UpdateInv, UpdateSpawn, UpdateRec, Cur
<1>7. ASSUME UNCHANGED <<vertices, vertexMap, update>> PROVE UpdateInv'
     BY <1>7 DEF UpdateInv, InFlux, Unborn, Cur, InfoOf
<1> QED
    BY <1>1, <1>2, <1>3, <1>4, <1>5, <1>6, <1>7
    DEF Next, UpdateStep, WaitDepsStep, WalkStep, vars, WaitDepsCanceled,
       WaitDepsSatisfied, WalkEnter, WalkSelectCancel, WalkSelectDeps, WalkSelectUpdate,
       WalkLoad, WalkCheck, WalkSkip, WalkClose, WalkExit, WalkCallback, Wait

\* Answers of waitDeps stay justified, since done only grows.
LEMMA WaiterPreserved == IInv /\ [Next]_vars => WaiterInv'
<1> SUFFICES ASSUME IInv, [Next]_vars PROVE WaiterInv'
    OBVIOUS
<1> USE WalkerAssumption DEF IInv
<1>1. ASSUME NEW g \in Graphs, UpdateBegin(g) PROVE WaiterInv'
     BY <1>1 DEF TypeOK, WaiterRec, WaiterInv, Unborn, UpdateRec, Cur, Info, Upd,
        UpdateBegin
<1>2. ASSUME UpdateEdges PROVE WaiterInv'
     BY <1>2 DEF TypeOK, WaiterRec, WaiterInv, Unborn, UpdateRec, Cur, Info, Upd,
        UpdateEdges
<1>3. ASSUME UpdateStart PROVE WaiterInv'
     BY <1>3 DEF TypeOK, WaiterRec, WaiterInv, Unborn, UpdateRec, Cur, Info, Upd,
        UpdateStart, IdleUpdate
<1>4. ASSUME NEW v \in Vertex, UpdateRemove(v) PROVE WaiterInv'
     BY <1>4 DEF TypeOK, WaiterRec, WaiterInv, Unborn, UpdateRec, Cur, Info, Upd,
        UpdateRemove
<1>5. ASSUME NEW v \in Vertex, UpdateSwap(v) PROVE WaiterInv'
     BY <1>5 DEF TypeOK, WaiterRec, WaiterInv, Unborn, UpdateRec, Cur, Info, Upd, UpdateSwap
<1>6. ASSUME NEW v \in Vertex, UpdateSpawn(v) PROVE WaiterInv'
     BY <1>6 DEF TypeOK, WaiterRec, WaiterInv, Unborn, UpdateRec, Cur, Info, Upd,
        UpdateSpawn, UpdateInv
<1>7. ASSUME NEW i \in Info, WaitDepsCanceled(i) PROVE WaiterInv'
     BY <1>7 DEF TypeOK, WaiterRec, WaiterInv, Unborn, UpdateRec, Cur, Info, Upd,
        WaitDepsCanceled
<1>8. ASSUME NEW i \in Info, WaitDepsSatisfied(i) PROVE WaiterInv'
     BY <1>8 DEF TypeOK, WaiterRec, WaiterInv, Unborn, UpdateRec, Cur, Info, Upd,
        WaitDepsSatisfied
<1>9. ASSUME NEW i \in Info, WalkSelectDeps(i) PROVE WaiterInv'
  <2>1. <<i[1], walk[i].depsCh>> \in Info
        BY <1>9 DEF WalkSelectDeps, TypeOK, WalkRec, Info, Upd, Nil
  <2>2. \A w \in Info : /\ waiter'[w].deps = waiter[w].deps
                         /\ waiter'[w].canceled = waiter[w].canceled
                         /\ \/ waiter'[w].doneCh = waiter[w].doneCh
                            \/ waiter[w].doneCh \in {"true", "false"}
        BY <1>9, <2>1 DEF WalkSelectDeps, TypeOK, WaiterRec
  <2>3. update' = update /\ done' = done
        BY <1>9 DEF WalkSelectDeps
  <2> QED BY <2>2, <2>3 DEF WaiterInv, Unborn, Cur
<1>10. ASSUME NEW i \in Info, WalkClose(i) PROVE WaiterInv'
     BY <1>10 DEF TypeOK, WaiterRec, WaiterInv, Unborn, UpdateRec, Cur, Info, Upd, WalkClose
<1>11. ASSUME UNCHANGED <<waiter, done, update>> PROVE WaiterInv'
     BY <1>11 DEF WaiterInv, InFlux, Unborn, Cur, InfoOf
<1> QED
    BY <1>1, <1>2, <1>3, <1>4, <1>5, <1>6, <1>7, <1>8, <1>9, <1>10, <1>11
    DEF Next, UpdateStep, WaitDepsStep, WalkStep, vars, WalkEnter, WalkSelectCancel,
       WalkSelectUpdate, WalkLoad, WalkCheck, WalkSkip, WalkExit, WalkCallback, Wait

\* Update cancels exactly the waitDeps it replaces.
LEMMA CancelPreserved == IInv /\ [Next]_vars => CancelInv'
<1> SUFFICES ASSUME IInv, [Next]_vars PROVE CancelInv'
    OBVIOUS
<1> USE WalkerAssumption DEF IInv
<1>1. ASSUME UpdateEdges PROVE CancelInv'
     BY <1>1 DEF TypeOK, CancelInv, InfoRec, WaiterRec, Cur, Info, Upd, Nil, UpdateEdges
<1>2. ASSUME NEW v \in Vertex, UpdateSwap(v) PROVE CancelInv'
  <2>1. waiter' = waiter
        BY <1>2 DEF UpdateSwap
  <2> QED BY <1>2, <2>1, SwapEffect DEF CancelInv
<1>3. ASSUME NEW v \in Vertex, UpdateSpawn(v) PROVE CancelInv'
  <2> DEFINE me == InfoOf(v)
  <2>1. me \in Info /\ me[1] = v /\ Cur \in Upd
        BY <1>3, SpawnEffect DEF InfoOf
  <2>2. \A j \in Info : j # me /\ j[1] = v => info[j].depsCancelCh # Cur
        BY <1>3, <2>1 DEF DepsInv, InFlux, UpdateSpawn
  <2>3. \A j \in Info : info'[j].depsCancelCh = IF j = me THEN Cur ELSE info[j].depsCancelCh
        BY <1>3, SpawnEffect
  <2>4. \A w \in Info : w # <<v, Cur>> /\ waiter'[w].canceled
                           => waiter[w].canceled \/ w = <<v, info[me].depsCancelCh>>
        BY <1>3, SpawnEffect
  <2>5. ~ waiter'[<<v, Cur>>].canceled
        BY <1>3, SpawnEffect
  <2>6. \A i, j \in Info :
           i[1] = j[1] /\ i # j /\ info'[i].depsCancelCh # Nil
             => info'[i].depsCancelCh # info'[j].depsCancelCh
        BY <2>1, <2>2, <2>3 DEF CancelInv
  <2>7. ASSUME NEW j \in Info, info'[j].depsCancelCh # Nil
        PROVE  ~ waiter'[<<j[1], info'[j].depsCancelCh>>].canceled
    <3>1. CASE j = me
          BY <3>1, <2>1, <2>3, <2>5
    <3>2. CASE j # me
      <4>1. info'[j].depsCancelCh = info[j].depsCancelCh /\ info[j].depsCancelCh # Nil
            BY <3>2, <2>3, <2>7
      <4>2. <<j[1], info[j].depsCancelCh>> \in Info
            BY <4>1 DEF TypeOK, InfoRec, Info, Upd, Nil
      <4>3. ~ waiter[<<j[1], info[j].depsCancelCh>>].canceled
            BY <4>1 DEF CancelInv
      <4>4. j[1] = v => info[j].depsCancelCh # info[me].depsCancelCh
            BY <3>2, <4>1, <2>1 DEF CancelInv
      <4>5. <<j[1], info[j].depsCancelCh>> # <<v, Cur>>
            BY <3>2, <2>2
      <4>6. <<j[1], info[j].depsCancelCh>> # <<v, info[me].depsCancelCh>>
            BY <4>4
      <4> QED BY <4>1, <4>2, <4>3, <4>5, <4>6, <2>4
    <3> QED BY <3>1, <3>2
  <2> QED BY <2>6, <2>7 DEF CancelInv
<1>4. ASSUME NEW i \in Info, WaitDepsCanceled(i) PROVE CancelInv'
     BY <1>4 DEF TypeOK, CancelInv, InfoRec, WaiterRec, Cur, Info, Upd, Nil,
        WaitDepsCanceled
<1>5. ASSUME NEW i \in Info, WaitDepsSatisfied(i) PROVE CancelInv'
     BY <1>5 DEF TypeOK, CancelInv, InfoRec, WaiterRec, Cur, Info, Upd, Nil,
        WaitDepsSatisfied
<1>6. ASSUME NEW i \in Info, WalkSelectDeps(i) PROVE CancelInv'
     BY <1>6 DEF TypeOK, CancelInv, InfoRec, WaiterRec, Cur, Info, Upd, Nil, WalkSelectDeps
<1>7. ASSUME NEW i \in Info, WalkLoad(i) PROVE CancelInv'
     BY <1>7 DEF TypeOK, CancelInv, InfoRec, WaiterRec, Cur, Info, Upd, Nil, WalkLoad
<1>8. ASSUME UNCHANGED <<info, waiter>> PROVE CancelInv'
     BY <1>8 DEF CancelInv, InFlux, Unborn, Cur, InfoOf
<1> QED
    BY <1>1, <1>2, <1>3, <1>4, <1>5, <1>6, <1>7, <1>8
    DEF Next, UpdateStep, WaitDepsStep, WalkStep, vars, UpdateBegin, UpdateStart,
       UpdateRemove, WalkEnter, WalkSelectCancel, WalkSelectUpdate, WalkCheck, WalkSkip,
       WalkClose, WalkExit, WalkCallback, Wait

\* The current waitDeps of a vertex waits for its current dependencies.
LEMMA DepsPreserved == IInv /\ [Next]_vars => DepsInv'
<1> SUFFICES ASSUME IInv, [Next]_vars PROVE DepsInv'
    OBVIOUS
<1> USE WalkerAssumption DEF IInv
<1>1. ASSUME NEW g \in Graphs, UpdateBegin(g) PROVE DepsInv'
     BY <1>1 DEF TypeOK, DepsInv, InFlux, InfoRec, WaiterRec, UpdateRec, Cur, InfoOf,
        Info, Upd, Nil, UpdateBegin
<1>2. ASSUME UpdateEdges PROVE DepsInv'
  <2> DEFINE known(v) == vertexMap[v] # Nil
             added    == {e \in update.edges \ edges : known(WaiterOf(e)) /\ known(DepOf(e))}
             removed  == {e \in edges \ update.edges : known(WaiterOf(e))}
             gained(v) == {DepOf(e) : e \in {x \in added : WaiterOf(x) = v}}
             lost(v)   == {DepOf(e) : e \in {x \in removed : WaiterOf(x) = v}}
             deps(i) == {d \in info[i].deps : d[1] \notin gained(i[1]) \cup lost(i[1])}
                           \cup {InfoOf(d) : d \in gained(i[1])}
  <2>1. \A i \in Info : info'[i] = IF i = InfoOf(i[1])
                                   THEN [info[i] EXCEPT !.deps = deps(i)] ELSE info[i]
        BY <1>2 DEF UpdateEdges
  <2>2. /\ update.pc = "remove" /\ update'.pc = "swap" /\ Cur' = Cur
        /\ update'.changed = {WaiterOf(e) : e \in added \cup removed} /\ update'.spawn = {}
        /\ waiter' = waiter /\ vertexMap' = vertexMap
        BY <1>2 DEF UpdateEdges, Cur
  <2>3. ASSUME NEW i \in Info, i[1] \notin update'.changed
        PROVE  info[i].deps = deps(i)
    <3>1. {x \in added : WaiterOf(x) = i[1]} = {} /\ {x \in removed : WaiterOf(x) = i[1]} = {}
      <4> HIDE DEF added, removed
      <4> QED BY <2>2, <2>3
    <3>2. gained(i[1]) = {} /\ lost(i[1]) = {}
      <4> HIDE DEF added, removed
      <4> QED BY <3>1
    <3> HIDE DEF gained, lost
    <3> QED BY <3>2
  <2> HIDE DEF deps, added, removed
  <2>4. ASSUME NEW i \in Info
        PROVE  /\ info'[i].depsUpdateCh = info[i].depsUpdateCh
               /\ info'[i].depsCancelCh = info[i].depsCancelCh
               /\ i # InfoOf(i[1]) \/ i[1] \notin update'.changed
                     => info'[i].deps = info[i].deps
    <3>1. info[i] \in InfoRec
          BY <2>4 DEF TypeOK
    <3>2. CASE i # InfoOf(i[1])
          BY <2>4, <3>2, <2>1
    <3>3. CASE i = InfoOf(i[1])
      <4>1. info'[i] = [info[i] EXCEPT !.deps = deps(i)]
            BY <2>4, <3>3, <2>1
      <4>2. i[1] \notin update'.changed => info[i].deps = deps(i)
            BY <2>4, <2>3
      <4> QED BY <3>1, <3>3, <4>1, <4>2 DEF InfoRec
    <3> QED BY <3>2, <3>3
  <2>5. ASSUME NEW i \in Info
        PROVE  /\ ~InFlux(i) /\ info[i].depsUpdateCh # Cur
               /\ InFlux(i)' <=> i = InfoOf(i[1]) /\ i[1] \in update'.changed
        BY <2>2 DEF DepsInv, InFlux, InfoOf
  <2>6. ASSUME NEW i \in Info
        PROVE  /\ info'[i].depsUpdateCh <= Cur' /\ info'[i].depsUpdateCh # Cur'
               /\ info'[i].depsCancelCh = info'[i].depsUpdateCh
        BY <2>2, <2>4, <2>5 DEF DepsInv
  <2>7. ASSUME NEW i \in Info, ~InFlux(i)'
        PROVE  IF info'[i].depsUpdateCh = Nil
               THEN info'[i].deps = {}
               ELSE waiter'[<<i[1], info'[i].depsUpdateCh>>].deps = info'[i].deps
    <3>1. info'[i].deps = info[i].deps /\ info'[i].depsUpdateCh = info[i].depsUpdateCh
          BY <2>4, <2>5, <2>7
    <3>2. waiter' = waiter
          BY <2>2
    <3> QED BY <3>1, <3>2, <2>5 DEF DepsInv
  <2> QED BY <2>2, <2>6, <2>7 DEF DepsInv
<1>3. ASSUME UpdateStart PROVE DepsInv'
     BY <1>3 DEF TypeOK, DepsInv, InFlux, InfoRec, WaiterRec, UpdateRec, Cur, InfoOf,
        Info, Upd, Nil, UpdateStart, IdleUpdate
<1>4. ASSUME NEW v \in Vertex, UpdateRemove(v) PROVE DepsInv'
     BY <1>4 DEF TypeOK, DepsInv, InFlux, InfoRec, WaiterRec, UpdateRec, Cur, InfoOf,
        Info, Upd, Nil, UpdateRemove
<1>5. ASSUME NEW v \in Vertex, UpdateSwap(v) PROVE DepsInv'
     BY <1>5 DEF TypeOK, DepsInv, InFlux, InfoRec, WaiterRec, UpdateRec, Cur, InfoOf,
        Info, Upd, Nil, UpdateSwap
<1>6. ASSUME NEW v \in Vertex, UpdateSpawn(v) PROVE DepsInv'
     BY <1>6 DEF TypeOK, DepsInv, InFlux, InfoRec, WaiterRec, UpdateRec, Cur, InfoOf,
        Info, Upd, Nil, UpdateSpawn, UpdateInv
<1>7. ASSUME NEW i \in Info, WaitDepsCanceled(i) PROVE DepsInv'
     BY <1>7 DEF TypeOK, DepsInv, InFlux, InfoRec, WaiterRec, UpdateRec, Cur, InfoOf,
        Info, Upd, Nil, WaitDepsCanceled
<1>8. ASSUME NEW i \in Info, WaitDepsSatisfied(i) PROVE DepsInv'
     BY <1>8 DEF TypeOK, DepsInv, InFlux, InfoRec, WaiterRec, UpdateRec, Cur, InfoOf,
        Info, Upd, Nil, WaitDepsSatisfied
<1>9. ASSUME NEW i \in Info, WalkSelectDeps(i) PROVE DepsInv'
     BY <1>9 DEF TypeOK, DepsInv, InFlux, InfoRec, WaiterRec, UpdateRec, Cur, InfoOf,
        Info, Upd, Nil, WalkSelectDeps
<1>10. ASSUME NEW i \in Info, WalkLoad(i) PROVE DepsInv'
     BY <1>10 DEF TypeOK, DepsInv, InFlux, InfoRec, WaiterRec, UpdateRec, Cur, InfoOf,
        Info, Upd, Nil, WalkLoad
<1>11. ASSUME UNCHANGED <<info, waiter, update, vertexMap>> PROVE DepsInv'
     BY <1>11 DEF DepsInv, InFlux, Unborn, Cur, InfoOf
<1> QED
    BY <1>1, <1>2, <1>3, <1>4, <1>5, <1>6, <1>7, <1>8, <1>9, <1>10, <1>11
    DEF Next, UpdateStep, WaitDepsStep, WalkStep, vars, WalkEnter, WalkSelectCancel,
       WalkSelectUpdate, WalkCheck, WalkSkip, WalkClose, WalkExit, WalkCallback, Wait

\* The current answer is in one place: info, walkVertex, or taken.
LEMMA ChannelPreserved == IInv /\ [Next]_vars => ChannelInv'
<1> SUFFICES ASSUME IInv, [Next]_vars PROVE ChannelInv'
    OBVIOUS
<1> USE WalkerAssumption DEF IInv
<1>1. ASSUME NEW g \in Graphs, UpdateBegin(g) PROVE ChannelInv'
     BY <1>1 DEF TypeOK, ChannelInv, InfoRec, WaiterRec, WalkRec, UpdateRec, Cur, InfoOf,
        Info, Upd, Nil, UpdateBegin
<1>2. ASSUME UpdateEdges PROVE ChannelInv'
     BY <1>2 DEF TypeOK, ChannelInv, InfoRec, WaiterRec, WalkRec, UpdateRec, Cur, InfoOf,
        Info, Upd, Nil, UpdateEdges
<1>3. ASSUME UpdateStart PROVE ChannelInv'
     BY <1>3 DEF TypeOK, ChannelInv, InfoRec, WaiterRec, WalkRec, UpdateRec, Cur, InfoOf,
        Info, Upd, Nil, UpdateStart, IdleUpdate
<1>4. ASSUME NEW v \in Vertex, UpdateRemove(v) PROVE ChannelInv'
     BY <1>4 DEF TypeOK, ChannelInv, InfoRec, WaiterRec, WalkRec, UpdateRec, Cur, InfoOf,
        Info, Upd, Nil, UpdateRemove
<1>5. ASSUME NEW v \in Vertex, UpdateSwap(v) PROVE ChannelInv'
  <2>1. walk' = walk /\ waiter' = waiter /\ Cur' = Cur
        BY <1>5 DEF UpdateSwap, Cur
  <2>2. Cur # Nil
        BY <1>5, SwapEffect DEF Upd, Nil
  <2>3. ASSUME NEW j \in Info
        PROVE  \/ /\ info'[j].depsCh = info[j].depsCh
                  /\ info'[j].depsUpdateCh = info[j].depsUpdateCh
               \/ info'[j].depsCh = Cur /\ info'[j].depsUpdateCh = Cur
        BY <1>5, SwapEffect
  <2> HIDE DEF IInv
  <2>4. ChannelInv
        BY DEF IInv
  <2> QED BY <2>1, <2>2, <2>3, <2>4 DEF ChannelInv
<1>6. ASSUME NEW v \in Vertex, UpdateSpawn(v) PROVE ChannelInv'
  <2>1. walk' = walk /\ Cur' = Cur
        BY <1>6 DEF UpdateSpawn, Cur, TypeOK, UpdateRec
  <2>2. \A j \in Info : /\ info'[j].depsCh = info[j].depsCh
                         /\ info'[j].depsUpdateCh = info[j].depsUpdateCh
        BY <1>6, SpawnEffect
  <2>3. \A w \in Info : waiter[w].doneCh = "taken" => waiter'[w].doneCh = "taken"
        BY <1>6, SpawnEffect
  <2>4. \A j \in Info : info[j].depsUpdateCh # Nil => <<j[1], info[j].depsUpdateCh>> \in Info
        BY DEF TypeOK, InfoRec, Info, Upd, Nil
  <2> QED BY <2>1, <2>2, <2>3, <2>4 DEF ChannelInv
<1>7. ASSUME NEW i \in Info, WaitDepsCanceled(i) PROVE ChannelInv'
     BY <1>7 DEF TypeOK, ChannelInv, InfoRec, WaiterRec, WalkRec, UpdateRec, Cur, InfoOf,
        Info, Upd, Nil, WaitDepsCanceled
<1>8. ASSUME NEW i \in Info, WaitDepsSatisfied(i) PROVE ChannelInv'
     BY <1>8 DEF TypeOK, ChannelInv, InfoRec, WaiterRec, WalkRec, UpdateRec, Cur, InfoOf,
        Info, Upd, Nil, WaitDepsSatisfied
<1>9. ASSUME NEW i \in Info, WalkEnter(i) PROVE ChannelInv'
     BY <1>9 DEF TypeOK, ChannelInv, InfoRec, WaiterRec, WalkRec, UpdateRec, Cur, InfoOf,
        Info, Upd, Nil, WalkEnter
<1>10. ASSUME NEW i \in Info, WalkSelectCancel(i) PROVE ChannelInv'
     BY <1>10 DEF TypeOK, ChannelInv, InfoRec, WaiterRec, WalkRec, UpdateRec, Cur, InfoOf,
        Info, Upd, Nil, WalkSelectCancel
<1>11. ASSUME NEW i \in Info, WalkSelectDeps(i) PROVE ChannelInv'
     BY <1>11 DEF TypeOK, ChannelInv, InfoRec, WaiterRec, WalkRec, UpdateRec, Cur, InfoOf,
        Info, Upd, Nil, WalkSelectDeps
<1>12. ASSUME NEW i \in Info, WalkSelectUpdate(i) PROVE ChannelInv'
     BY <1>12 DEF TypeOK, ChannelInv, InfoRec, WaiterRec, WalkRec, UpdateRec, Cur, InfoOf,
        Info, Upd, Nil, WalkSelectUpdate
<1>13. ASSUME NEW i \in Info, WalkLoad(i) PROVE ChannelInv'
     BY <1>13 DEF TypeOK, ChannelInv, InfoRec, WaiterRec, WalkRec, UpdateRec, Cur, InfoOf,
        Info, Upd, Nil, WalkLoad
<1>14. ASSUME NEW i \in Info, WalkCheck(i) PROVE ChannelInv'
     BY <1>14 DEF TypeOK, ChannelInv, InfoRec, WaiterRec, WalkRec, UpdateRec, Cur, InfoOf,
        Info, Upd, Nil, WalkCheck
<1>15. ASSUME NEW i \in Info, WalkSkip(i) PROVE ChannelInv'
     BY <1>15 DEF TypeOK, ChannelInv, InfoRec, WaiterRec, WalkRec, UpdateRec, Cur, InfoOf,
        Info, Upd, Nil, WalkSkip
<1>16. ASSUME NEW i \in Info, WalkClose(i) PROVE ChannelInv'
     BY <1>16 DEF TypeOK, ChannelInv, InfoRec, WaiterRec, WalkRec, UpdateRec, Cur, InfoOf,
        Info, Upd, Nil, WalkClose
<1>17. ASSUME NEW i \in Info, WalkExit(i) PROVE ChannelInv'
     BY <1>17 DEF TypeOK, ChannelInv, InfoRec, WaiterRec, WalkRec, UpdateRec, Cur, InfoOf,
        Info, Upd, Nil, WalkExit
<1>18. ASSUME NEW i \in Info, NEW diags \in {"ok", "error"}, WalkCallback(i, diags) PROVE ChannelInv'
     BY <1>18 DEF TypeOK, ChannelInv, InfoRec, WaiterRec, WalkRec, UpdateRec, Cur, InfoOf,
        Info, Upd, Nil, WalkCallback
<1>19. ASSUME UNCHANGED <<info, walk, waiter, update.n>> PROVE ChannelInv'
     BY <1>19 DEF ChannelInv, InFlux, Unborn, Cur, InfoOf
<1> QED
    BY <1>1, <1>2, <1>3, <1>4, <1>5, <1>6, <1>7, <1>8, <1>9, <1>10, <1>11, <1>12, <1>13,
       <1>14, <1>15, <1>16, <1>17, <1>18, <1>19
    DEF Next, UpdateStep, WaitDepsStep, WalkStep, vars, Wait

-----------------------------------------------------------------------------
\* A walker that has not been updated.
LEMMA InitialIInv == Init => IInv
<1> SUFFICES ASSUME Init PROVE IInv
    OBVIOUS
<1> USE WalkerAssumption
<1>1. TypeOK
      BY TypeInitial
<1>2. UpdateInv
      BY DEF Init, UpdateInv, IdleUpdate, Cur
<1>3. ChannelInv
      BY DEF Init, ChannelInv, NewInfo, NewWalk, Nil
<1>4. DepsInv
      BY DEF Init, DepsInv, NewInfo, IdleUpdate, InFlux, Cur, Nil
<1>5. CancelInv
      BY DEF Init, CancelInv, NewInfo, Nil
<1>6. WaiterInv
      BY DEF Init, WaiterInv, NoWaiter
<1> QED BY <1>1, <1>2, <1>3, <1>4, <1>5, <1>6 DEF IInv

\* The inductive invariant: at any moment of any interleaving of Updates,
\* waitDeps and walkVertex goroutines.
THEOREM Inductive == Spec => []IInv
<1>1. IInv /\ [Next]_vars => IInv'
      BY TypePreserved, ChannelPreserved, DepsPreserved, CancelPreserved, WaiterPreserved,
         UpdatePreserved DEF IInv
<1> QED BY <1>1, InitialIInv, PTL DEF Spec

\* The walker's state stays within its types: no Update and no goroutine
\* refers to a walkerVertex or a channel that no Update has made.
THEOREM TypeCorrect == Spec => []TypeOK
<1>1. IInv => TypeOK
      BY DEF IInv
<1> QED BY <1>1, Inductive, PTL

\* Only the end of the wait loop, with no channel left to wait on, leads to
\* the last check before the callback.
LEMMA LeavesLoop ==
    ASSUME TypeOK, [Next]_vars, NEW i \in Info,
           walk[i].pc = "load", walk'[i].pc = "check"
    PROVE  info[i].depsCh = Nil /\ walk[i].depsCh = Nil
<1>1. ASSUME NEW g \in Graphs, UpdateBegin(g) PROVE info[i].depsCh = Nil /\ walk[i].depsCh = Nil
     BY <1>1 DEF TypeOK, WalkRec, UpdateBegin
<1>2. ASSUME UpdateStart PROVE info[i].depsCh = Nil /\ walk[i].depsCh = Nil
     BY <1>2 DEF TypeOK, WalkRec, UpdateStart
<1>3. ASSUME NEW j \in Info, WalkEnter(j) PROVE info[i].depsCh = Nil /\ walk[i].depsCh = Nil
     BY <1>3 DEF TypeOK, WalkRec, WalkEnter
<1>4. ASSUME NEW j \in Info, WalkSelectCancel(j) PROVE info[i].depsCh = Nil /\ walk[i].depsCh = Nil
     BY <1>4 DEF TypeOK, WalkRec, WalkSelectCancel
<1>5. ASSUME NEW j \in Info, WalkSelectDeps(j) PROVE info[i].depsCh = Nil /\ walk[i].depsCh = Nil
     BY <1>5 DEF TypeOK, WalkRec, WalkSelectDeps
<1>6. ASSUME NEW j \in Info, WalkSelectUpdate(j) PROVE info[i].depsCh = Nil /\ walk[i].depsCh = Nil
     BY <1>6 DEF TypeOK, WalkRec, WalkSelectUpdate
<1>7. ASSUME NEW j \in Info, WalkLoad(j) PROVE info[i].depsCh = Nil /\ walk[i].depsCh = Nil
     BY <1>7 DEF TypeOK, WalkRec, WalkLoad
<1>8. ASSUME NEW j \in Info, WalkCheck(j) PROVE info[i].depsCh = Nil /\ walk[i].depsCh = Nil
     BY <1>8 DEF TypeOK, WalkRec, WalkCheck
<1>9. ASSUME NEW j \in Info, WalkSkip(j) PROVE info[i].depsCh = Nil /\ walk[i].depsCh = Nil
     BY <1>9 DEF TypeOK, WalkRec, WalkSkip
<1>10. ASSUME NEW j \in Info, WalkClose(j) PROVE info[i].depsCh = Nil /\ walk[i].depsCh = Nil
     BY <1>10 DEF TypeOK, WalkRec, WalkClose
<1>11. ASSUME NEW j \in Info, WalkExit(j) PROVE info[i].depsCh = Nil /\ walk[i].depsCh = Nil
     BY <1>11 DEF TypeOK, WalkRec, WalkExit
<1>12. ASSUME NEW j \in Info, NEW diags \in {"ok", "error"}, WalkCallback(j, diags) PROVE info[i].depsCh = Nil /\ walk[i].depsCh = Nil
     BY <1>12 DEF TypeOK, WalkRec, WalkCallback
<1>13. ASSUME walk' = walk PROVE info[i].depsCh = Nil /\ walk[i].depsCh = Nil
     BY <1>13
<1> QED
    BY <1>1, <1>2, <1>3, <1>4, <1>5, <1>6, <1>7, <1>8, <1>9, <1>10, <1>11, <1>12, <1>13
    DEF Next, UpdateStep, WaitDepsStep, WalkStep, vars, UpdateEdges, UpdateRemove,
       UpdateSwap, UpdateSpawn, WaitDepsCanceled, WaitDepsSatisfied, Wait

\* The re-check of DepsCh under DepsLock is enough: however often Update
\* replaces the dependencies of a vertex while it waits, it leaves its wait
\* loop between Updates only when all its current dependencies are done.
THEOREM DepsAreHonoured == Spec => DepsHonoured
<1>1. ASSUME IInv, [Next]_vars, NEW i \in Info,
             walk[i].pc = "load", walk'[i].pc = "check", update.pc = "idle"
      PROVE  info[i].deps \subseteq done
  <2> DEFINE w == <<i[1], info[i].depsUpdateCh>>
  <2>1. info[i].depsCh = Nil /\ walk[i].depsCh = Nil
        BY <1>1, LeavesLoop DEF IInv
  <2>2. ~InFlux(i)
        BY <1>1 DEF InFlux
  <2>3. CASE info[i].depsUpdateCh = Nil
        BY <1>1, <2>2, <2>3 DEF IInv, DepsInv
  <2>4. CASE info[i].depsUpdateCh # Nil
    <3>1. w \in Info /\ waiter[w].doneCh = "taken"
          BY <1>1, <2>1, <2>4 DEF IInv, ChannelInv, TypeOK, InfoRec, Info, Upd, Nil
    <3>2. ~waiter[w].canceled
          BY <1>1, <2>2, <2>4 DEF IInv, DepsInv, CancelInv
    <3>3. waiter[w].deps = info[i].deps
          BY <1>1, <2>2, <2>4 DEF IInv, DepsInv
    <3> QED BY <1>1, <3>1, <3>2, <3>3 DEF IInv, WaiterInv
  <2> QED BY <2>3, <2>4
<1>2. IInv /\ [Next]_vars =>
         [\A i \in Info :
            walk[i].pc = "load" /\ walk'[i].pc = "check" /\ update.pc = "idle"
               => info[i].deps \subseteq done]_vars
      BY <1>1
<1> QED BY <1>2, Inductive, PTL DEF Spec, DepsHonoured

-----------------------------------------------------------------------------
(***************************************************************************)
(* A walk of one graph: Update is called once.  SingleInv says that        *)
(* nothing is cancelled or replaced then, DiagsInv when a vertex has       *)
(* diagnostics, AnswerInv what the answer of waitDeps says about them, and *)
(* WaitInv that nothing happens after Wait has returned.                   *)
(***************************************************************************)
Passed == {"check", "callback", "skip", "close", "exit", "exited"}
Finished == {"close", "exit", "exited"}

SingleInv ==
    /\ canceled = {}
    /\ update.old = {}
    /\ \A w \in Info : ~waiter[w].canceled
    /\ \A v \in Vertex : vertexMap[v] \in {Nil, 1}
    /\ \A v \in Vertex : v \in vertices => walk[<<v, 1>>].pc # "none"
    /\ update.pc # "idle" => \A i \in Info : walk[i].pc \in {"none", "added"}
    /\ update.pc = "idle" => \A i \in Info : walk[i].pc # "added"
    /\ Cur = 0 => update.pc = "idle" /\ vertices = {}
    /\ Cur = 0 \/ update.pc = "remove" => edges = {}
    /\ update.pc = "swap" => \A v \in update.spawn : info[InfoOf(v)].depsCancelCh = Nil
    /\ \A e \in edges : <<DepOf(e), 1>> \in info[<<WaiterOf(e), 1>>].deps

\* The walkVertex has no answer to wait for any more.
Settled(i) ==
    \/ walk[i].pc \in Passed
    \/ walk[i].pc = "load" /\ info[i].depsCh = Nil /\ walk[i].depsCh = Nil

DiagsInv ==
    /\ \A i \in Info : i \in done <=> walk[i].pc \in {"exit", "exited"}
    /\ \A v \in Vertex : LET pc == walk[<<v, 1>>].pc IN
          /\ pc \in Finished <=> diagsMap[v] # "none"
          /\ v \in upstreamFailed => diagsMap[v] = "error"
          /\ pc \in Finished => (v \in upstreamFailed <=> ~walk[<<v, 1>>].depsSuccess)
          /\ pc = "callback" => walk[<<v, 1>>].depsSuccess
          /\ pc = "skip" => ~walk[<<v, 1>>].depsSuccess
    /\ upstreamFailed # {} => OwnFailures # {}

AllOk(deps)   == \A d \in deps : diagsMap[d[1]] = "ok"
OneBad(deps)  == \E d \in deps : diagsMap[d[1]] = "error"

AnswerInv ==
    /\ \A w \in Info : /\ waiter[w].doneCh = "true" => AllOk(waiter[w].deps)
                       /\ waiter[w].doneCh = "false" => OneBad(waiter[w].deps)
    /\ \A i \in Info : Settled(i) => IF walk[i].depsSuccess THEN AllOk(info[i].deps)
                                                            ELSE OneBad(info[i].deps)

WaitInv == returned => Cur = 1 /\ WaitGroup = {} /\ result = OwnFailures

OneWalk == Cur <= 1 => SingleInv /\ DiagsInv /\ AnswerInv /\ WaitInv

\* What the steps of the goroutines and of Wait have in common.
Quiet ==
    /\ UNCHANGED <<canceled, update, vertexMap, vertices, edges>>
    /\ \A w \in Info : waiter'[w].canceled = waiter[w].canceled
    /\ \A j \in Info : /\ info'[j].deps = info[j].deps
                       /\ info'[j].depsCancelCh = info[j].depsCancelCh
    /\ \A j \in Info : \/ walk'[j].pc = walk[j].pc
                       \/ /\ walk[j].pc \notin {"none", "added"}
                          /\ walk'[j].pc \notin {"none", "added"}

\* Only Update cancels, replaces dependencies or starts goroutines.
LEMMA QuietSteps ==
    ASSUME TypeOK, Wait \/ UNCHANGED vars \/ \E i \in Info : WaitDepsStep(i) \/ WalkStep(i)
    PROVE  Quiet
<1>1. ASSUME NEW i \in Info, WaitDepsCanceled(i) PROVE Quiet
     BY <1>1 DEF Quiet, TypeOK, WaiterRec, WaitDepsCanceled
<1>2. ASSUME NEW i \in Info, WaitDepsSatisfied(i) PROVE Quiet
     BY <1>2 DEF Quiet, TypeOK, WaiterRec, WaitDepsSatisfied
<1>3. ASSUME NEW i \in Info, WalkEnter(i) PROVE Quiet
     BY <1>3 DEF Quiet, TypeOK, WalkRec, WalkEnter
<1>4. ASSUME NEW i \in Info, WalkSelectCancel(i) PROVE Quiet
     BY <1>4 DEF Quiet, TypeOK, WalkRec, WalkSelectCancel
<1>5. ASSUME NEW i \in Info, WalkSelectDeps(i) PROVE Quiet
     BY <1>5 DEF Quiet, TypeOK, WalkRec, WaiterRec, WalkSelectDeps
<1>6. ASSUME NEW i \in Info, WalkSelectUpdate(i) PROVE Quiet
     BY <1>6 DEF Quiet, TypeOK, WalkRec, WalkSelectUpdate
<1>7. ASSUME NEW i \in Info, WalkLoad(i) PROVE Quiet
     BY <1>7 DEF Quiet, TypeOK, WalkRec, InfoRec, WalkLoad
<1>8. ASSUME NEW i \in Info, WalkCheck(i) PROVE Quiet
     BY <1>8 DEF Quiet, TypeOK, WalkRec, WalkCheck
<1>9. ASSUME NEW i \in Info, WalkSkip(i) PROVE Quiet
     BY <1>9 DEF Quiet, TypeOK, WalkRec, WalkSkip
<1>10. ASSUME NEW i \in Info, WalkClose(i) PROVE Quiet
     BY <1>10 DEF Quiet, TypeOK, WalkRec, WalkClose
<1>11. ASSUME NEW i \in Info, WalkExit(i) PROVE Quiet
     BY <1>11 DEF Quiet, TypeOK, WalkRec, WalkExit
<1>12. ASSUME NEW i \in Info, NEW diags \in {"ok", "error"}, WalkCallback(i, diags) PROVE Quiet
     BY <1>12 DEF Quiet, TypeOK, WalkRec, WalkCallback
<1>13. ASSUME Wait PROVE Quiet
     BY <1>13 DEF Quiet, TypeOK, vars, Wait
<1>14. ASSUME UNCHANGED vars PROVE Quiet
     BY <1>14 DEF Quiet, vars
<1> QED
    BY <1>1, <1>2, <1>3, <1>4, <1>5, <1>6, <1>7, <1>8, <1>9, <1>10, <1>11, <1>12, <1>13, <1>14
    DEF WaitDepsStep, WalkStep

\* In the first Update nothing is removed and nothing replaced.
LEMMA SinglePreserved ==
    ASSUME Cur <= 1, Cur' <= 1, IInv, SingleInv, DiagsInv, AnswerInv, WaitInv, [Next]_vars
    PROVE  SingleInv'
<1> USE WalkerAssumption
<1>1. ASSUME NEW g \in Graphs, UpdateBegin(g) PROVE SingleInv'
  <2>1. Cur = 0 /\ Cur' = 1
        BY <1>1 DEF IInv, TypeOK, UpdateRec, UpdateBegin, Cur
  <2>2. vertices = {} /\ edges = {} /\ vertices' = g.vertices /\ edges' = {}
        BY <1>1, <2>1 DEF SingleInv, UpdateBegin
  <2>3. \A i \in Info : walk[i].pc = "none"
    <3>1. \A i \in Info : i[2] > Cur
          BY <2>1 DEF Info, Upd
    <3> QED BY <3>1 DEF IInv, ChannelInv
  <2>4. \A i \in Info : walk'[i].pc = IF i[1] \in g.vertices /\ i[2] = 1 THEN "added" ELSE "none"
        BY <1>1, <2>1, <2>2, <2>3 DEF UpdateBegin, Cur, IInv, TypeOK, WalkRec
  <2>5. \A v \in Vertex : <<v, 1>> \in Info
        BY DEF Info, Upd
  <2>6. \A v \in Vertex : v \in g.vertices => walk'[<<v, 1>>].pc # "none"
        BY <2>4, <2>5
  <2>7. \A v \in Vertex : vertexMap'[v] \in {Nil, 1}
        BY <1>1, <2>1 DEF SingleInv, UpdateBegin, Cur, IInv, TypeOK
  <2>8. /\ update'.old = {} /\ update'.spawn = {} /\ update'.pc = "remove"
        /\ canceled' = {} /\ waiter' = waiter
        BY <1>1, <2>2 DEF UpdateBegin, SingleInv
  <2> QED BY <2>1, <2>2, <2>4, <2>6, <2>7, <2>8 DEF SingleInv
<1>2. ASSUME UpdateEdges PROVE SingleInv'
  <2> DEFINE known(v) == vertexMap[v] # Nil
             added    == {e \in update.edges \ edges : known(WaiterOf(e)) /\ known(DepOf(e))}
             removed  == {e \in edges \ update.edges : known(WaiterOf(e))}
             gained(v) == {DepOf(e) : e \in {x \in added : WaiterOf(x) = v}}
             lost(v)   == {DepOf(e) : e \in {x \in removed : WaiterOf(x) = v}}
             deps(i) == {d \in info[i].deps : d[1] \notin gained(i[1]) \cup lost(i[1])}
                           \cup {InfoOf(d) : d \in gained(i[1])}
  <2>1. edges = {} /\ edges' = added
        BY <1>2 DEF SingleInv, UpdateEdges
  <2>2. \A e \in added : /\ WaiterOf(e) \in Vertex /\ DepOf(e) \in Vertex
                         /\ vertexMap[WaiterOf(e)] = 1 /\ vertexMap[DepOf(e)] = 1
        BY DEF IInv, TypeOK, UpdateRec, WaiterOf, DepOf, SingleInv
  <2>3. \A i \in Info : i = InfoOf(i[1]) => info'[i].deps = deps(i)
    <3>1. \A i \in Info : i = InfoOf(i[1]) => info'[i] = [info[i] EXCEPT !.deps = deps(i)]
          BY <1>2 DEF UpdateEdges
    <3>2. \A i \in Info : info[i] \in InfoRec
          BY DEF IInv, TypeOK
    <3> HIDE DEF deps
    <3> QED BY <3>1, <3>2 DEF InfoRec
  <2>4. ASSUME NEW e \in added
        PROVE  <<DepOf(e), 1>> \in info'[<<WaiterOf(e), 1>>].deps
    <3>1. <<WaiterOf(e), 1>> \in Info /\ <<WaiterOf(e), 1>> = InfoOf(WaiterOf(e))
          BY <2>2 DEF Info, Upd, InfoOf
    <3>2. InfoOf(DepOf(e)) = <<DepOf(e), 1>>
          BY <2>2 DEF InfoOf
    <3>3. DepOf(e) \in gained(WaiterOf(e))
          OBVIOUS
    <3>4. info'[<<WaiterOf(e), 1>>].deps = deps(<<WaiterOf(e), 1>>)
          BY <2>3, <3>1
    <3> QED BY <3>2, <3>3, <3>4
  <2>5. /\ update'.pc = "swap" /\ update'.old = {} /\ update'.spawn = {} /\ Cur' = Cur
        /\ update.pc = "remove"
        /\ UNCHANGED <<canceled, waiter, vertexMap, vertices, walk>>
        BY <1>2 DEF UpdateEdges, Cur
  <2> HIDE DEF added
  <2> QED BY <2>1, <2>4, <2>5 DEF SingleInv
<1>3. ASSUME UpdateStart PROVE SingleInv'
  <2>1. \A i \in Info : walk'[i].pc = IF walk[i].pc = "added" THEN "start" ELSE walk[i].pc
        BY <1>3 DEF UpdateStart, IInv, TypeOK, WalkRec
  <2>2. /\ update'.pc = "idle" /\ update'.old = {} /\ update.pc = "swap" /\ Cur' = Cur
        /\ UNCHANGED <<canceled, waiter, vertexMap, vertices, edges, info>>
        BY <1>3 DEF UpdateStart, IdleUpdate, Cur
  <2>3. \A v \in vertices : <<v, 1>> \in Info
        BY DEF IInv, TypeOK, Info, Upd
  <2> QED BY <2>1, <2>2, <2>3 DEF SingleInv
<1>4. ASSUME NEW v \in Vertex, UpdateRemove(v) PROVE SingleInv'
     BY <1>4 DEF SingleInv, UpdateRemove
<1>5. ASSUME NEW v \in Vertex, UpdateSwap(v) PROVE SingleInv'
  <2>1. info[InfoOf(v)].depsCancelCh = Nil
    <3>1. InfoOf(v) \in Info /\ InfoOf(v)[1] = v /\ v \notin update.spawn
          BY <1>5, SwapEffect DEF InfoOf, UpdateSwap
    <3>2. info[InfoOf(v)].depsUpdateCh <= Cur /\ info[InfoOf(v)].depsUpdateCh # Cur
          BY <1>5, <3>1 DEF IInv, DepsInv, UpdateSwap
    <3>3. info[InfoOf(v)].depsUpdateCh = 0
      <4>1. info[InfoOf(v)].depsUpdateCh \in Nat /\ Cur \in Nat
            BY <3>1 DEF IInv, TypeOK, InfoRec, UpdateRec, Cur
      <4> QED BY <3>2, <4>1
    <3> QED BY <3>1, <3>3 DEF IInv, DepsInv, InFlux, Nil
  <2>2. /\ update'.pc = "swap" /\ update'.old = {} /\ update'.spawn = {v} /\ Cur' = Cur
        /\ update.pc = "swap"
        /\ UNCHANGED <<canceled, waiter, vertexMap, vertices, walk, edges>>
        BY <1>5 DEF UpdateSwap, Cur
  <2>3. \A j \in Info : info'[j].deps = info[j].deps /\ info'[j].depsCancelCh = info[j].depsCancelCh
        BY <1>5, SwapEffect
  <2>4. InfoOf(v)' = InfoOf(v) /\ InfoOf(v) \in Info
        BY <2>2, <1>5, SwapEffect DEF InfoOf
  <2>5. \A e \in edges : <<WaiterOf(e), 1>> \in Info
        BY DEF IInv, TypeOK, WaiterOf, Info, Upd
  <2> QED BY <2>1, <2>2, <2>3, <2>4, <2>5 DEF SingleInv
<1>6. ASSUME NEW v \in Vertex, UpdateSpawn(v) PROVE SingleInv'
  <2>1. /\ update'.pc = "swap" /\ update'.old = {} /\ update'.spawn = {} /\ Cur' = Cur
        /\ update.pc = "swap"
        /\ UNCHANGED <<canceled, vertexMap, vertices, walk, edges>>
        BY <1>6 DEF UpdateSpawn, Cur, SingleInv, IInv, TypeOK, UpdateRec
  <2>2. \A j \in Info : info'[j].deps = info[j].deps
        BY <1>6, SpawnEffect
  <2>3. info[InfoOf(v)].depsCancelCh = Nil
        BY <1>6 DEF SingleInv, UpdateSpawn
  <2>4. \A w \in Info : ~waiter'[w].canceled
    <3>1. \A w \in Info : w # <<v, Nil>>
          BY DEF Info, Upd, Nil
    <3> QED BY <1>6, <2>3, <3>1, SpawnEffect DEF SingleInv
  <2>5. \A e \in edges : <<WaiterOf(e), 1>> \in Info
        BY DEF IInv, TypeOK, WaiterOf, Info, Upd
  <2> QED BY <2>1, <2>2, <2>4, <2>5 DEF SingleInv
<1>7. ASSUME Quiet PROVE SingleInv'
  <2>1. \A v \in Vertex : <<v, 1>> \in Info
        BY DEF Info, Upd
  <2>2. \A e \in edges : WaiterOf(e) \in Vertex
        BY DEF IInv, TypeOK, WaiterOf
  <2>3. update.pc = "swap" => \A v \in update.spawn : InfoOf(v) \in Info /\ InfoOf(v)' = InfoOf(v)
        BY <1>7 DEF IInv, TypeOK, UpdateRec, UpdateInv, InfoOf, Info, Quiet
  <2>4. vertices \subseteq Vertex /\ Cur' = Cur
        BY <1>7 DEF IInv, TypeOK, Quiet, Cur
  <2>5. \A v \in Vertex : v \in vertices' => walk'[<<v, 1>>].pc # "none"
        BY <1>7, <2>1 DEF SingleInv, Quiet
  <2>6. /\ update'.pc # "idle" => \A i \in Info : walk'[i].pc \in {"none", "added"}
        /\ update'.pc = "idle" => \A i \in Info : walk'[i].pc # "added"
        BY <1>7 DEF SingleInv, Quiet
  <2>7. ASSUME NEW e \in edges PROVE <<DepOf(e), 1>> \in info'[<<WaiterOf(e), 1>>].deps
    <3>1. <<WaiterOf(e), 1>> \in Info
          BY <2>1, <2>2
    <3>2. info'[<<WaiterOf(e), 1>>].deps = info[<<WaiterOf(e), 1>>].deps
          BY <1>7, <3>1 DEF Quiet
    <3> QED BY <3>2 DEF SingleInv
  <2> QED BY <1>7, <2>3, <2>4, <2>5, <2>6, <2>7 DEF SingleInv, Quiet
<1> QED BY <1>1, <1>2, <1>3, <1>4, <1>5, <1>6, <1>7, QuietSteps DEF IInv, Next, UpdateStep

\* With one Update there is one walkerVertex per vertex.
LEMMA FirstOnly ==
    ASSUME Cur <= 1, IInv, NEW i \in Info, walk[i].pc # "none"
    PROVE  i = <<i[1], 1>> /\ i[1] \in Vertex
<1>1. ~(i[2] > Cur)
      BY DEF IInv, ChannelInv
<1>2. Cur \in Nat /\ i[2] \in Nat /\ i[2] > 0 /\ i = <<i[1], i[2]>>
      BY DEF IInv, TypeOK, UpdateRec, Cur, Info, Upd
<1> QED BY <1>1, <1>2 DEF Info

\* A vertex gets its diagnostics once, when it ends, and a skipped one has a
\* failure upstream that is reported.
LEMMA DiagsPreserved ==
    ASSUME Cur <= 1, Cur' <= 1, IInv, SingleInv, DiagsInv, AnswerInv, WaitInv, [Next]_vars
    PROVE  DiagsInv'
<1> USE WalkerAssumption
<1>1. ASSUME NEW g \in Graphs, UpdateBegin(g) PROVE DiagsInv'
  <2>1. ASSUME NEW j \in Info
        PROVE  walk'[j] = walk[j] \/ (walk[j].pc = "none" /\ walk'[j].pc = "added")
    <3>1. CASE j[2] = Cur + 1
      <4>1. j[2] > Cur
            BY <3>1 DEF IInv, TypeOK, UpdateRec, Cur
      <4>2. walk[j].pc = "none" /\ walk[j] \in WalkRec
            BY <4>1 DEF IInv, ChannelInv, TypeOK
      <4>3. walk'[j] = walk[j] \/ walk'[j] = [walk[j] EXCEPT !.pc = "added"]
            BY <1>1 DEF UpdateBegin
      <4> QED BY <4>2, <4>3 DEF WalkRec
    <3>2. CASE j[2] # Cur + 1
      <4>1. walk'[j] = walk[j]
            BY <1>1, <3>2 DEF UpdateBegin, Cur
      <4> QED BY <4>1
    <3> QED BY <3>1, <3>2
  <2>2. UNCHANGED <<done, diagsMap, upstreamFailed>> /\ OwnFailures' = OwnFailures
        BY <1>1 DEF UpdateBegin, OwnFailures
  <2>3. \A v \in Vertex : <<v, 1>> \in Info
        BY DEF Info, Upd
  <2> QED BY <2>1, <2>2, <2>3 DEF DiagsInv, Finished
<1>2. ASSUME UpdateEdges PROVE DiagsInv'
     BY <1>2 DEF IInv, DiagsInv, TypeOK, WalkRec, Cur, Info, Upd, OwnFailures, Finished,
        UpdateEdges
<1>3. ASSUME UpdateStart PROVE DiagsInv'
     BY <1>3 DEF IInv, DiagsInv, TypeOK, WalkRec, Cur, Info, Upd, OwnFailures, Finished,
        UpdateStart, IdleUpdate
<1>4. ASSUME NEW v \in Vertex, UpdateRemove(v) PROVE DiagsInv'
     BY <1>4 DEF IInv, DiagsInv, TypeOK, WalkRec, Cur, Info, Upd, OwnFailures, Finished,
        UpdateRemove
<1>5. ASSUME NEW v \in Vertex, UpdateSwap(v) PROVE DiagsInv'
     BY <1>5 DEF IInv, DiagsInv, TypeOK, WalkRec, Cur, Info, Upd, OwnFailures, Finished,
        UpdateSwap
<1>6. ASSUME NEW v \in Vertex, UpdateSpawn(v) PROVE DiagsInv'
     BY <1>6 DEF IInv, DiagsInv, TypeOK, WalkRec, Cur, Info, Upd, OwnFailures, Finished,
        UpdateSpawn
<1>7. ASSUME NEW i \in Info, WaitDepsCanceled(i) PROVE DiagsInv'
     BY <1>7 DEF IInv, DiagsInv, TypeOK, WalkRec, Cur, Info, Upd, OwnFailures, Finished,
        WaitDepsCanceled
<1>8. ASSUME NEW i \in Info, WaitDepsSatisfied(i) PROVE DiagsInv'
     BY <1>8 DEF IInv, DiagsInv, TypeOK, WalkRec, Cur, Info, Upd, OwnFailures, Finished,
        WaitDepsSatisfied
<1>9. ASSUME NEW i \in Info, WalkEnter(i) PROVE DiagsInv'
     BY <1>9 DEF IInv, DiagsInv, TypeOK, WalkRec, Cur, Info, Upd, OwnFailures, Finished,
        WalkEnter
<1>10. ASSUME NEW i \in Info, WalkSelectCancel(i) PROVE DiagsInv'
     BY <1>10 DEF WalkSelectCancel, SingleInv
<1>11. ASSUME NEW i \in Info, WalkSelectDeps(i) PROVE DiagsInv'
     BY <1>11 DEF IInv, DiagsInv, TypeOK, WalkRec, Cur, Info, Upd, OwnFailures,
        Finished, WalkSelectDeps
<1>12. ASSUME NEW i \in Info, WalkSelectUpdate(i) PROVE DiagsInv'
     BY <1>12 DEF IInv, DiagsInv, TypeOK, WalkRec, Cur, Info, Upd, OwnFailures,
        Finished, WalkSelectUpdate
<1>13. ASSUME NEW i \in Info, WalkLoad(i) PROVE DiagsInv'
     BY <1>13 DEF IInv, DiagsInv, TypeOK, WalkRec, Cur, Info, Upd, OwnFailures,
        Finished, WalkLoad
<1>14. ASSUME NEW i \in Info, WalkCheck(i) PROVE DiagsInv'
  <2>1. i = <<i[1], 1>> /\ i[1] \in Vertex
        BY <1>14, FirstOnly DEF WalkCheck
  <2>2. /\ walk'[i].pc = IF walk[i].depsSuccess THEN "callback" ELSE "skip"
        /\ walk'[i].depsSuccess = walk[i].depsSuccess
        /\ \A j \in Info : j # i => walk'[j] = walk[j]
        BY <1>14 DEF WalkCheck, SingleInv, IInv, TypeOK, WalkRec
  <2>3. UNCHANGED <<done, diagsMap, upstreamFailed>> /\ OwnFailures' = OwnFailures
        BY <1>14 DEF WalkCheck, OwnFailures
  <2>4. \A v \in Vertex : <<v, 1>> \in Info
        BY DEF Info, Upd
  <2>5. walk[i].pc = "check"
        BY <1>14 DEF WalkCheck
  <2> QED BY <2>1, <2>2, <2>3, <2>4, <2>5 DEF DiagsInv, Finished
<1>15. ASSUME NEW i \in Info, WalkSkip(i) PROVE DiagsInv'
  <2>1. i = <<i[1], 1>> /\ i[1] \in Vertex
        BY <1>15, FirstOnly DEF WalkSkip
  <2>2. walk[i].pc = "skip" /\ ~walk[i].depsSuccess /\ diagsMap[i[1]] = "none"
        BY <1>15, <2>1 DEF WalkSkip, DiagsInv, Finished
  <2>3. OneBad(info[i].deps)
        BY <2>2 DEF AnswerInv, Settled, Passed
  <2>4. PICK u \in Vertex : diagsMap[u] = "error"
        BY <2>3 DEF OneBad, IInv, TypeOK, InfoRec, Info
  <2>5. PICK v \in Vertex : diagsMap[v] = "error" /\ v \notin upstreamFailed
        BY <2>4 DEF DiagsInv, OwnFailures
  <2>6. /\ walk'[i].pc = "close" /\ walk'[i].depsSuccess = walk[i].depsSuccess
        /\ \A j \in Info : j # i => walk'[j] = walk[j]
        /\ diagsMap'[i[1]] = "error"
        /\ \A w \in Vertex : w # i[1] => diagsMap'[w] = diagsMap[w]
        /\ upstreamFailed' = upstreamFailed \cup {i[1]} /\ done' = done
        BY <1>15, <2>1 DEF WalkSkip, IInv, TypeOK, WalkRec
  <2>7. v \in OwnFailures'
        BY <2>2, <2>5, <2>6 DEF OwnFailures
  <2>8. \A w \in Vertex : <<w, 1>> \in Info
        BY DEF Info, Upd
  <2> QED BY <2>1, <2>2, <2>6, <2>7, <2>8 DEF DiagsInv, Finished
<1>16. ASSUME NEW i \in Info, WalkClose(i) PROVE DiagsInv'
     BY <1>16 DEF IInv, DiagsInv, TypeOK, WalkRec, Cur, Info, Upd, OwnFailures,
        Finished, WalkClose
<1>17. ASSUME NEW i \in Info, WalkExit(i) PROVE DiagsInv'
     BY <1>17 DEF IInv, DiagsInv, TypeOK, WalkRec, Cur, Info, Upd, OwnFailures,
        Finished, WalkExit
<1>18. ASSUME NEW i \in Info, NEW diags \in {"ok", "error"}, WalkCallback(i, diags) PROVE DiagsInv'
  <2>1. i = <<i[1], 1>> /\ i[1] \in Vertex
        BY <1>18, FirstOnly DEF WalkCallback
  <2>2. /\ walk[i].pc = "callback" /\ walk[i].depsSuccess /\ diagsMap[i[1]] = "none"
        /\ i[1] \notin upstreamFailed
        BY <1>18, <2>1 DEF WalkCallback, DiagsInv, Finished
  <2>3. /\ walk'[i].pc = "close" /\ walk'[i].depsSuccess = walk[i].depsSuccess
        /\ \A j \in Info : j # i => walk'[j] = walk[j]
        /\ diagsMap'[i[1]] # "none"
        /\ \A w \in Vertex : w # i[1] => diagsMap'[w] = diagsMap[w]
        /\ upstreamFailed' = upstreamFailed /\ done' = done
        BY <1>18, <2>1 DEF WalkCallback, IInv, TypeOK, WalkRec
  <2>4. upstreamFailed' # {} => OwnFailures' # {}
    <3>1. OwnFailures \subseteq OwnFailures'
          BY <2>2, <2>3 DEF OwnFailures
    <3> QED BY <2>3, <3>1 DEF DiagsInv
  <2>5. \A w \in Vertex : <<w, 1>> \in Info
        BY DEF Info, Upd
  <2>6. \A j \in Info : j \in done' <=> walk'[j].pc \in {"exit", "exited"}
        BY <2>2, <2>3 DEF DiagsInv
  <2>7. ASSUME NEW w \in Vertex
        PROVE  /\ walk'[<<w, 1>>].pc \in Finished <=> diagsMap'[w] # "none"
               /\ w \in upstreamFailed' => diagsMap'[w] = "error"
               /\ walk'[<<w, 1>>].pc \in Finished
                     => (w \in upstreamFailed' <=> ~walk'[<<w, 1>>].depsSuccess)
               /\ walk'[<<w, 1>>].pc = "callback" => walk'[<<w, 1>>].depsSuccess
               /\ walk'[<<w, 1>>].pc = "skip" => ~walk'[<<w, 1>>].depsSuccess
    <3>1. CASE w = i[1]
          BY <2>1, <2>2, <2>3, <3>1 DEF Finished
    <3>2. CASE w # i[1]
          BY <2>1, <2>3, <2>5, <3>2 DEF DiagsInv
    <3> QED BY <3>1, <3>2
  <2> QED BY <2>4, <2>6, <2>7 DEF DiagsInv
<1>19. ASSUME Wait PROVE DiagsInv'
     BY <1>19 DEF IInv, DiagsInv, TypeOK, WalkRec, Cur, Info, Upd, OwnFailures,
        Finished, Wait
<1>20. ASSUME UNCHANGED vars PROVE DiagsInv'
     BY <1>20 DEF DiagsInv, TypeOK, WalkRec, Cur, Info, Upd, OwnFailures, Finished, vars
<1> QED
    BY <1>1, <1>2, <1>3, <1>4, <1>5, <1>6, <1>7, <1>8, <1>9, <1>10, <1>11, <1>12, <1>13,
       <1>14, <1>15, <1>16, <1>17, <1>18, <1>19, <1>20
    DEF Next, UpdateStep, WaitDepsStep, WalkStep

\* The answer of waitDeps stays true, because diagnostics are never replaced.
LEMMA AnswerPreserved ==
    ASSUME Cur <= 1, Cur' <= 1, IInv, SingleInv, DiagsInv, AnswerInv, WaitInv, [Next]_vars
    PROVE  AnswerInv'
<1> USE WalkerAssumption
<1>1. ASSUME NEW g \in Graphs, UpdateBegin(g) PROVE AnswerInv'
     BY <1>1 DEF IInv, AnswerInv, TypeOK, InfoRec, WaiterRec, WalkRec, Info, Upd, Nil,
        ChannelInv, Passed, Settled, AllOk, OneBad, UpdateBegin
<1>2. ASSUME UpdateEdges PROVE AnswerInv'
  <2>1. \A j \in Info : ~Settled(j)'
        BY <1>2 DEF UpdateEdges, SingleInv, Settled, Passed
  <2>2. UNCHANGED <<waiter, diagsMap>>
        BY <1>2 DEF UpdateEdges
  <2> QED BY <2>1, <2>2 DEF AnswerInv, AllOk, OneBad
<1>3. ASSUME UpdateStart PROVE AnswerInv'
     BY <1>3 DEF IInv, AnswerInv, TypeOK, InfoRec, WaiterRec, WalkRec, Info, Upd, Nil,
        ChannelInv, Passed, Settled, AllOk, OneBad, UpdateStart, IdleUpdate
<1>4. ASSUME NEW v \in Vertex, UpdateRemove(v) PROVE AnswerInv'
     BY <1>4 DEF IInv, AnswerInv, TypeOK, InfoRec, WaiterRec, WalkRec, Info, Upd, Nil,
        ChannelInv, Passed, Settled, AllOk, OneBad, UpdateRemove
<1>5. ASSUME NEW v \in Vertex, UpdateSwap(v) PROVE AnswerInv'
  <2>1. \A j \in Info : ~Settled(j)'
        BY <1>5 DEF UpdateSwap, SingleInv, Settled, Passed
  <2>2. UNCHANGED <<waiter, diagsMap>>
        BY <1>5 DEF UpdateSwap
  <2> QED BY <2>1, <2>2 DEF AnswerInv, AllOk, OneBad
<1>6. ASSUME NEW v \in Vertex, UpdateSpawn(v) PROVE AnswerInv'
     BY <1>6 DEF IInv, AnswerInv, TypeOK, InfoRec, WaiterRec, WalkRec, Info, Upd, Nil,
        ChannelInv, Passed, Settled, AllOk, OneBad, UpdateSpawn
<1>7. ASSUME NEW i \in Info, WaitDepsCanceled(i) PROVE AnswerInv'
     BY <1>7 DEF WaitDepsCanceled, SingleInv
<1>8. ASSUME NEW i \in Info, WaitDepsSatisfied(i) PROVE AnswerInv'
  <2>1. \A d \in waiter[i].deps : d \in Info /\ d \in done
        BY <1>8 DEF WaitDepsSatisfied, IInv, TypeOK, WaiterRec
  <2>2. ASSUME NEW d \in waiter[i].deps PROVE diagsMap[d[1]] \in {"ok", "error"}
    <3>1. walk[d].pc \in {"exit", "exited"}
          BY <2>1 DEF DiagsInv
    <3>2. d = <<d[1], 1>> /\ d[1] \in Vertex
          BY <2>1, <3>1, FirstOnly
    <3>3. diagsMap[d[1]] # "none"
          BY <3>1, <3>2 DEF DiagsInv, Finished
    <3> QED BY <3>2, <3>3 DEF IInv, TypeOK
  <2>3. /\ \A w \in Info : waiter'[w].deps = waiter[w].deps
        /\ \A w \in Info : w # i => waiter'[w].doneCh = waiter[w].doneCh
        /\ waiter'[i].doneCh = IF OneBad(waiter[i].deps) THEN "false" ELSE "true"
        BY <1>8 DEF WaitDepsSatisfied, IInv, TypeOK, WaiterRec, OneBad
  <2>4. UNCHANGED <<diagsMap, walk, info>>
        BY <1>8 DEF WaitDepsSatisfied
  <2>5. ~OneBad(waiter[i].deps) => AllOk(waiter[i].deps)
        BY <2>2 DEF OneBad, AllOk
  <2> QED BY <2>3, <2>4, <2>5 DEF AnswerInv, AllOk, OneBad, Settled
<1>9. ASSUME NEW i \in Info, WalkEnter(i) PROVE AnswerInv'
  <2>1. /\ walk'[i].pc = "load" /\ walk'[i].depsSuccess = TRUE
        /\ \A j \in Info : j # i => walk'[j] = walk[j]
        /\ UNCHANGED <<waiter, diagsMap, info, update>>
        BY <1>9 DEF WalkEnter, IInv, TypeOK, WalkRec
  <2>2. update.pc = "idle"
        BY <1>9 DEF WalkEnter, SingleInv
  <2>3. info[i].depsCh = Nil => info[i].deps = {}
        BY <1>9, <2>2 DEF WalkEnter, IInv, ChannelInv, DepsInv, InFlux
  <2> QED BY <2>1, <2>3 DEF AnswerInv, AllOk, OneBad, Settled, Passed
<1>10. ASSUME NEW i \in Info, WalkSelectCancel(i) PROVE AnswerInv'
     BY <1>10 DEF WalkSelectCancel, SingleInv
<1>11. ASSUME NEW i \in Info, WalkSelectDeps(i) PROVE AnswerInv'
  <2> DEFINE w == <<i[1], walk[i].depsCh>>
  <2>1. w \in Info
        BY <1>11 DEF WalkSelectDeps, IInv, TypeOK, WalkRec, Info, Upd, Nil
  <2>2. /\ walk'[i].pc = "load" /\ walk'[i].depsSuccess = (waiter[w].doneCh = "true")
        /\ \A j \in Info : j # i => walk'[j] = walk[j]
        /\ waiter[w].doneCh \in {"true", "false"}
        /\ walk[i].pc = "select" /\ walk[i].depsCh # Nil
        /\ waiter'[w].doneCh = "taken"
        /\ \A x \in Info : x # w => waiter'[x] = waiter[x]
        /\ UNCHANGED <<diagsMap, info, update>>
        BY <1>11, <2>1 DEF WalkSelectDeps, IInv, TypeOK, WalkRec, WaiterRec
  <2>3. update.pc = "idle"
        BY <2>2 DEF SingleInv
  <2>4. info[i].depsCh = Nil => waiter[w].deps = info[i].deps
        BY <2>2, <2>3 DEF IInv, ChannelInv, DepsInv, InFlux
  <2>5. IF waiter[w].doneCh = "true" THEN AllOk(waiter[w].deps) ELSE OneBad(waiter[w].deps)
        BY <2>1, <2>2 DEF AnswerInv
  <2>6. ASSUME NEW j \in Info, Settled(j)'
        PROVE  IF walk'[j].depsSuccess THEN AllOk(info[j].deps) ELSE OneBad(info[j].deps)
    <3>1. CASE j = i
          BY <2>2, <2>4, <2>5, <2>6, <3>1 DEF Settled, Passed
    <3>2. CASE j # i
          BY <2>2, <2>6, <3>2 DEF Settled, AnswerInv
    <3> QED BY <3>1, <3>2
  <2>7. \A x \in Info : /\ waiter'[x].doneCh = "true" => AllOk(waiter'[x].deps)
                        /\ waiter'[x].doneCh = "false" => OneBad(waiter'[x].deps)
        BY <2>2 DEF AnswerInv
  <2> QED BY <2>2, <2>6, <2>7 DEF AnswerInv, AllOk, OneBad
<1>12. ASSUME NEW i \in Info, WalkSelectUpdate(i) PROVE AnswerInv'
  <2>1. /\ walk'[i].pc = "load" /\ walk'[i].depsCh = walk[i].depsCh /\ walk[i].depsCh # Nil
        /\ \A j \in Info : j # i => walk'[j] = walk[j]
        /\ UNCHANGED <<waiter, diagsMap, info>>
        BY <1>12 DEF WalkSelectUpdate, IInv, TypeOK, WalkRec, ChannelInv
  <2> QED BY <2>1 DEF AnswerInv, AllOk, OneBad, Settled, Passed
<1>13. ASSUME NEW i \in Info, WalkLoad(i) PROVE AnswerInv'
     BY <1>13 DEF IInv, AnswerInv, TypeOK, InfoRec, WaiterRec, WalkRec, Info, Upd, Nil,
        ChannelInv, Passed, Settled, AllOk, OneBad, WalkLoad
<1>14. ASSUME NEW i \in Info, WalkCheck(i) PROVE AnswerInv'
     BY <1>14 DEF IInv, AnswerInv, TypeOK, InfoRec, WaiterRec, WalkRec, Info, Upd, Nil,
        ChannelInv, Passed, Settled, AllOk, OneBad, WalkCheck
<1>15. ASSUME NEW i \in Info, WalkSkip(i) PROVE AnswerInv'
  <2>1. i = <<i[1], 1>> /\ i[1] \in Vertex
        BY <1>15, FirstOnly DEF WalkSkip
  <2>2. diagsMap[i[1]] = "none"
        BY <1>15, <2>1 DEF WalkSkip, DiagsInv, Finished
  <2>3. \A w \in Vertex : diagsMap[w] # "none" => diagsMap'[w] = diagsMap[w]
        BY <1>15, <2>2 DEF WalkSkip, IInv, TypeOK
  <2>4. \A S \in SUBSET Info : (AllOk(S) => AllOk(S)') /\ (OneBad(S) => OneBad(S)')
        BY <2>3 DEF AllOk, OneBad, Info
  <2>5. \A j \in Info : info[j].deps \in SUBSET Info /\ waiter[j].deps \in SUBSET Info
        BY DEF IInv, TypeOK, InfoRec, WaiterRec
  <2>6. /\ \A j \in Info : Settled(j)' => Settled(j) /\ walk'[j].depsSuccess = walk[j].depsSuccess
        /\ UNCHANGED <<waiter, info>>
        BY <1>15 DEF WalkSkip, IInv, TypeOK, WalkRec, Settled, Passed
  <2> QED BY <2>4, <2>5, <2>6 DEF AnswerInv
<1>16. ASSUME NEW i \in Info, WalkClose(i) PROVE AnswerInv'
     BY <1>16 DEF IInv, AnswerInv, TypeOK, InfoRec, WaiterRec, WalkRec, Info, Upd, Nil,
        ChannelInv, Passed, Settled, AllOk, OneBad, WalkClose
<1>17. ASSUME NEW i \in Info, WalkExit(i) PROVE AnswerInv'
     BY <1>17 DEF IInv, AnswerInv, TypeOK, InfoRec, WaiterRec, WalkRec, Info, Upd, Nil,
        ChannelInv, Passed, Settled, AllOk, OneBad, WalkExit
<1>18. ASSUME NEW i \in Info, NEW diags \in {"ok", "error"}, WalkCallback(i, diags) PROVE AnswerInv'
  <2>1. i = <<i[1], 1>> /\ i[1] \in Vertex
        BY <1>18, FirstOnly DEF WalkCallback
  <2>2. diagsMap[i[1]] = "none"
        BY <1>18, <2>1 DEF WalkCallback, DiagsInv, Finished
  <2>3. \A w \in Vertex : diagsMap[w] # "none" => diagsMap'[w] = diagsMap[w]
        BY <1>18, <2>2 DEF WalkCallback, IInv, TypeOK
  <2>4. \A S \in SUBSET Info : (AllOk(S) => AllOk(S)') /\ (OneBad(S) => OneBad(S)')
        BY <2>3 DEF AllOk, OneBad, Info
  <2>5. \A j \in Info : info[j].deps \in SUBSET Info /\ waiter[j].deps \in SUBSET Info
        BY DEF IInv, TypeOK, InfoRec, WaiterRec
  <2>6. /\ \A j \in Info : Settled(j)' => Settled(j) /\ walk'[j].depsSuccess = walk[j].depsSuccess
        /\ UNCHANGED <<waiter, info>>
        BY <1>18 DEF WalkCallback, IInv, TypeOK, WalkRec, Settled, Passed
  <2> QED BY <2>4, <2>5, <2>6 DEF AnswerInv
<1>19. ASSUME Wait PROVE AnswerInv'
     BY <1>19 DEF IInv, AnswerInv, TypeOK, InfoRec, WaiterRec, WalkRec, Info, Upd, Nil,
        ChannelInv, Passed, Settled, AllOk, OneBad, Wait
<1>20. ASSUME UNCHANGED vars PROVE AnswerInv'
     BY <1>20 DEF AnswerInv, TypeOK, InfoRec, WaiterRec, WalkRec, Info, Upd, Nil,
        ChannelInv, Passed, Settled, AllOk, OneBad, vars
<1> QED
    BY <1>1, <1>2, <1>3, <1>4, <1>5, <1>6, <1>7, <1>8, <1>9, <1>10, <1>11, <1>12, <1>13,
       <1>14, <1>15, <1>16, <1>17, <1>18, <1>19, <1>20
    DEF Next, UpdateStep, WaitDepsStep, WalkStep

\* After Wait has returned no goroutine of the walk is left.
LEMMA WaitPreserved ==
    ASSUME Cur <= 1, Cur' <= 1, IInv, SingleInv, DiagsInv, AnswerInv, WaitInv, [Next]_vars
    PROVE  WaitInv'
<1> USE WalkerAssumption
<1>1. ASSUME NEW g \in Graphs, UpdateBegin(g) PROVE WaitInv'
     BY <1>1 DEF IInv, WaitInv, TypeOK, WalkRec, UpdateRec, Cur, OwnFailures, WaitGroup,
        UpdateBegin
<1>2. ASSUME UpdateEdges PROVE WaitInv'
     BY <1>2 DEF IInv, WaitInv, TypeOK, WalkRec, UpdateRec, Cur, OwnFailures, WaitGroup,
        UpdateEdges
<1>3. ASSUME UpdateStart PROVE WaitInv'
     BY <1>3 DEF IInv, WaitInv, TypeOK, WalkRec, UpdateRec, Cur, OwnFailures, WaitGroup,
        UpdateStart, IdleUpdate
<1>4. ASSUME NEW v \in Vertex, UpdateRemove(v) PROVE WaitInv'
     BY <1>4 DEF IInv, WaitInv, TypeOK, WalkRec, UpdateRec, Cur, OwnFailures, WaitGroup,
        UpdateRemove
<1>5. ASSUME NEW v \in Vertex, UpdateSwap(v) PROVE WaitInv'
     BY <1>5 DEF IInv, WaitInv, TypeOK, WalkRec, UpdateRec, Cur, OwnFailures, WaitGroup,
        UpdateSwap
<1>6. ASSUME NEW v \in Vertex, UpdateSpawn(v) PROVE WaitInv'
     BY <1>6 DEF IInv, WaitInv, TypeOK, WalkRec, UpdateRec, Cur, OwnFailures, WaitGroup,
        UpdateSpawn
<1>7. ASSUME NEW i \in Info, WaitDepsCanceled(i) PROVE WaitInv'
     BY <1>7 DEF IInv, WaitInv, TypeOK, WalkRec, UpdateRec, Cur, OwnFailures, WaitGroup,
        WaitDepsCanceled
<1>8. ASSUME NEW i \in Info, WaitDepsSatisfied(i) PROVE WaitInv'
     BY <1>8 DEF IInv, WaitInv, TypeOK, WalkRec, UpdateRec, Cur, OwnFailures, WaitGroup,
        WaitDepsSatisfied
<1>9. ASSUME NEW i \in Info, WalkEnter(i) PROVE WaitInv'
     BY <1>9 DEF IInv, WaitInv, TypeOK, WalkRec, UpdateRec, Cur, OwnFailures, WaitGroup,
        WalkEnter
<1>10. ASSUME NEW i \in Info, WalkSelectCancel(i) PROVE WaitInv'
     BY <1>10 DEF IInv, WaitInv, TypeOK, WalkRec, UpdateRec, Cur, OwnFailures,
        WaitGroup, WalkSelectCancel
<1>11. ASSUME NEW i \in Info, WalkSelectDeps(i) PROVE WaitInv'
     BY <1>11 DEF IInv, WaitInv, TypeOK, WalkRec, UpdateRec, Cur, OwnFailures,
        WaitGroup, WalkSelectDeps
<1>12. ASSUME NEW i \in Info, WalkSelectUpdate(i) PROVE WaitInv'
     BY <1>12 DEF IInv, WaitInv, TypeOK, WalkRec, UpdateRec, Cur, OwnFailures,
        WaitGroup, WalkSelectUpdate
<1>13. ASSUME NEW i \in Info, WalkLoad(i) PROVE WaitInv'
     BY <1>13 DEF IInv, WaitInv, TypeOK, WalkRec, UpdateRec, Cur, OwnFailures,
        WaitGroup, WalkLoad
<1>14. ASSUME NEW i \in Info, WalkCheck(i) PROVE WaitInv'
     BY <1>14 DEF IInv, WaitInv, TypeOK, WalkRec, UpdateRec, Cur, OwnFailures,
        WaitGroup, WalkCheck
<1>15. ASSUME NEW i \in Info, WalkSkip(i) PROVE WaitInv'
     BY <1>15 DEF IInv, WaitInv, TypeOK, WalkRec, UpdateRec, Cur, OwnFailures,
        WaitGroup, WalkSkip
<1>16. ASSUME NEW i \in Info, WalkClose(i) PROVE WaitInv'
     BY <1>16 DEF IInv, WaitInv, TypeOK, WalkRec, UpdateRec, Cur, OwnFailures,
        WaitGroup, WalkClose
<1>17. ASSUME NEW i \in Info, WalkExit(i) PROVE WaitInv'
     BY <1>17 DEF IInv, WaitInv, TypeOK, WalkRec, UpdateRec, Cur, OwnFailures,
        WaitGroup, WalkExit
<1>18. ASSUME NEW i \in Info, NEW diags \in {"ok", "error"}, WalkCallback(i, diags) PROVE WaitInv'
     BY <1>18 DEF IInv, WaitInv, TypeOK, WalkRec, UpdateRec, Cur, OwnFailures,
        WaitGroup, WalkCallback
<1>19. ASSUME Wait PROVE WaitInv'
     BY <1>19 DEF IInv, WaitInv, TypeOK, WalkRec, UpdateRec, Cur, OwnFailures,
        WaitGroup, Wait
<1>20. ASSUME UNCHANGED vars PROVE WaitInv'
     BY <1>20 DEF WaitInv, TypeOK, WalkRec, UpdateRec, Cur, OwnFailures, WaitGroup, vars
<1> QED
    BY <1>1, <1>2, <1>3, <1>4, <1>5, <1>6, <1>7, <1>8, <1>9, <1>10, <1>11, <1>12, <1>13,
       <1>14, <1>15, <1>16, <1>17, <1>18, <1>19, <1>20
    DEF Next, UpdateStep, WaitDepsStep, WalkStep

\* As long as there has been one Update, OneWalk holds.
THEOREM OneWalkHolds == Spec => []OneWalk
<1>1. Init => OneWalk
  <2> SUFFICES ASSUME Init PROVE OneWalk
      OBVIOUS
  <2> USE WalkerAssumption
  <2>0. \A v \in Vertex : <<v, 1>> \in Info
        BY DEF Info, Upd
  <2>1. SingleInv
        BY DEF Init, SingleInv, NewInfo, NewWalk, NoWaiter, IdleUpdate, Cur, Nil
  <2>2. DiagsInv
        BY <2>0 DEF Init, DiagsInv, NewWalk, Finished
  <2>3. AnswerInv
        BY DEF Init, AnswerInv, NoWaiter, NewWalk, Settled, Passed
  <2>4. WaitInv
        BY DEF Init, WaitInv
  <2> QED BY <2>1, <2>2, <2>3, <2>4 DEF OneWalk
<1>2. IInv /\ OneWalk /\ [Next]_vars => OneWalk'
  <2> SUFFICES ASSUME IInv, OneWalk, [Next]_vars, Cur' <= 1
               PROVE  (SingleInv /\ DiagsInv /\ AnswerInv /\ WaitInv)'
      BY DEF OneWalk
  <2>1. Cur' = Cur \/ Cur' = Cur + 1
    <3>1. ASSUME NEW g \in Graphs, UpdateBegin(g) PROVE Cur' = Cur + 1
          BY <3>1 DEF UpdateBegin, Cur
    <3>2. ASSUME UpdateStep PROVE Cur' = Cur
          BY <3>2 DEF UpdateStep, UpdateEdges, UpdateStart, IdleUpdate, UpdateRemove, UpdateSwap,
                      UpdateSpawn, Cur, IInv, TypeOK, UpdateRec
    <3>3. ASSUME Quiet PROVE Cur' = Cur
          BY <3>3 DEF Quiet, Cur
    <3> QED BY <3>1, <3>2, <3>3, QuietSteps DEF IInv, Next
  <2>2. Cur <= 1
        BY <2>1 DEF IInv, TypeOK, UpdateRec, Cur
  <2>3. SingleInv /\ DiagsInv /\ AnswerInv /\ WaitInv
        BY <2>2 DEF OneWalk
  <2> QED BY <2>2, <2>3, SinglePreserved, DiagsPreserved, AnswerPreserved, WaitPreserved
<1> QED BY <1>1, <1>2, Inductive, PTL DEF Spec

\* A failure cascades, whatever the graph: when a callback runs, everything
\* its vertex depends on has run and succeeded.
THEOREM FailuresCascade == Spec => []FailureCascades
<1>1. IInv /\ OneWalk => FailureCascades
  <2> SUFFICES ASSUME IInv, OneWalk, Cur <= 1, NEW e \in edges, Ran(WaiterOf(e))
               PROVE  diagsMap[DepOf(e)] = "ok"
      BY DEF FailureCascades
  <2> DEFINE i == <<WaiterOf(e), 1>>
  <2>1. SingleInv /\ DiagsInv /\ AnswerInv
        BY DEF OneWalk
  <2>2. i \in Info /\ WaiterOf(e) \in Vertex
        BY WalkerAssumption DEF IInv, TypeOK, WaiterOf, Info, Upd
  <2>3. walk[i].pc \in Passed /\ walk[i].depsSuccess
        BY <2>1, <2>2 DEF Ran, DiagsInv, Passed, Finished
  <2>4. AllOk(info[i].deps)
        BY <2>1, <2>2, <2>3 DEF AnswerInv, Settled
  <2>5. <<DepOf(e), 1>> \in info[i].deps
        BY <2>1 DEF SingleInv
  <2> QED BY <2>4, <2>5 DEF AllOk
<1> QED BY <1>1, Inductive, OneWalkHolds, PTL

\* What Wait returns accounts for every vertex of any graph, and no failure
\* is hidden behind the skipped vertices it leaves out.
THEOREM WaitAccounts == Spec => []WaitAccountsForAll
<1>1. IInv /\ OneWalk => WaitAccountsForAll
  <2> SUFFICES ASSUME IInv, OneWalk, returned, Cur <= 1
               PROVE  /\ \A v \in vertices : diagsMap[v] # "none"
                      /\ result = {} => \A v \in vertices : diagsMap[v] = "ok"
      BY DEF WaitAccountsForAll
  <2>1. SingleInv /\ DiagsInv /\ WaitInv
        BY DEF OneWalk
  <2>2. ASSUME NEW v \in vertices PROVE v \in Vertex /\ diagsMap[v] # "none"
    <3>1. v \in Vertex /\ <<v, 1>> \in Info /\ walk[<<v, 1>>].pc # "none"
          BY <2>1, WalkerAssumption DEF SingleInv, IInv, TypeOK, Info, Upd
    <3>2. walk[<<v, 1>>].pc = "exited"
          BY <2>1, <3>1 DEF WaitInv, WaitGroup
    <3> QED BY <2>1, <3>1, <3>2 DEF DiagsInv, Finished
  <2>3. ASSUME result = {} PROVE \A v \in Vertex : diagsMap[v] # "error"
        BY <2>1, <2>3 DEF WaitInv, DiagsInv, OwnFailures
  <2> QED BY <2>2, <2>3 DEF IInv, TypeOK
<1> QED BY <1>1, Inductive, OneWalkHolds, PTL
=============================================================================
