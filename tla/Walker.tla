------------------------------- MODULE Walker -------------------------------
(***************************************************************************)
(* The concurrent graph walker of internal/dag/walk.go.                    *)
(*                                                                         *)
(* Every vertex of the graph gets a goroutine (walkVertex) that waits for  *)
(* the vertex's dependencies and then runs the callback; every vertex that *)
(* has dependencies also gets a goroutine (waitDeps) that waits for them   *)
(* and reports, on a buffered channel, whether they all succeeded.  Update *)
(* may change the graph while all of these run.                            *)
(*                                                                         *)
(* The walkerVertex made for vertex v by the u-th Update is <<v, u>>, and  *)
(* so is the waitDeps goroutine the u-th Update starts for v: one Update   *)
(* makes at most one of each.  A channel is named by the object it belongs *)
(* to (0 is the nil channel) and a closed channel is a member of a set.    *)
(***************************************************************************)
EXTENDS Naturals, FiniteSets

CONSTANTS
    Vertex,      \* the vertices graphs are made of
    Graphs,      \* the graphs Update may be given
    Reverse,     \* Walker.Reverse: the source of an edge waits for its target
    MaxUpdates   \* bound on the number of calls of Update

ASSUME WalkerAssumption ==
    /\ MaxUpdates \in Nat \ {0}
    /\ Reverse \in BOOLEAN
    /\ \A g \in Graphs : /\ g.vertices \subseteq Vertex
                         /\ g.edges \subseteq Vertex \X Vertex

Upd  == 1..MaxUpdates
Info == Vertex \X Upd
Nil  == 0

VARIABLES
    vertices,        \* Walker.vertices
    edges,           \* Walker.edges
    vertexMap,       \* Walker.vertexMap: the Update that made the walkerVertex
    info,            \* the fields of each walkerVertex that change
    canceled,        \* the walkerVertexes whose CancelCh is closed
    done,            \* the walkerVertexes whose DoneCh is closed
    waiter,          \* the waitDeps goroutines
    walk,            \* the walkVertex goroutines
    diagsMap,        \* Walker.diagsMap
    upstreamFailed,  \* Walker.upstreamFailed
    update,          \* the Update in progress, if any
    returned,        \* Wait has returned
    result           \* the vertices whose diagnostics Wait has returned

vars == <<vertices, edges, vertexMap, info, canceled, done, waiter, walk,
          diagsMap, upstreamFailed, update, returned, result>>

-----------------------------------------------------------------------------
(***************************************************************************)
(* edgeParts: who waits for whom.                                          *)
(***************************************************************************)
WaiterOf(e) == IF Reverse THEN e[1] ELSE e[2]
DepOf(e)    == IF Reverse THEN e[2] ELSE e[1]

\* A walkerVertex as Update makes it, and the walkVertex locals at entry.
NewInfo == [deps |-> {}, depsCh |-> Nil, depsUpdateCh |-> Nil, depsCancelCh |-> Nil]
NewWalk == [pc |-> "none", depsCh |-> Nil, depsUpdateCh |-> Nil, depsSuccess |-> FALSE]
NoWaiter == [deps |-> {}, doneCh |-> "none", canceled |-> FALSE]
IdleUpdate(n) == [n |-> n, pc |-> "idle", old |-> {}, changed |-> {}, spawn |-> {},
                  edges |-> {}]

Pcs == {"none", "added", "start", "select", "load", "check", "callback", "skip",
        "close", "exit", "exited"}

InfoRec   == [deps : SUBSET Info, depsCh : 0..MaxUpdates, depsUpdateCh : 0..MaxUpdates,
              depsCancelCh : 0..MaxUpdates]
WaiterRec == [deps : SUBSET Info, doneCh : {"none", "empty", "true", "false", "taken"},
              canceled : BOOLEAN]
WalkRec   == [pc : Pcs, depsCh : 0..MaxUpdates, depsUpdateCh : 0..MaxUpdates,
              depsSuccess : BOOLEAN]
UpdateRec == [n : 0..MaxUpdates, pc : {"idle", "remove", "swap"}, old : SUBSET Vertex,
              changed : SUBSET Vertex, spawn : SUBSET Vertex,
              edges : SUBSET (Vertex \X Vertex)]

TypeOK ==
    /\ vertices \subseteq Vertex
    /\ edges \subseteq Vertex \X Vertex
    /\ vertexMap \in [Vertex -> 0..MaxUpdates]
    /\ info \in [Info -> InfoRec]
    /\ canceled \subseteq Info
    /\ done \subseteq Info
    /\ waiter \in [Info -> WaiterRec]
    /\ walk \in [Info -> WalkRec]
    /\ diagsMap \in [Vertex -> {"none", "ok", "error"}]
    /\ upstreamFailed \subseteq Vertex
    /\ update \in UpdateRec
    /\ returned \in BOOLEAN
    /\ result \subseteq Vertex

Init ==
    /\ vertices = {}
    /\ edges = {}
    /\ vertexMap = [v \in Vertex |-> Nil]
    /\ info = [i \in Info |-> NewInfo]
    /\ canceled = {}
    /\ done = {}
    /\ waiter = [i \in Info |-> NoWaiter]
    /\ walk = [i \in Info |-> NewWalk]
    /\ diagsMap = [v \in Vertex |-> "none"]
    /\ upstreamFailed = {}
    /\ update = IdleUpdate(0)
    /\ returned = FALSE
    /\ result = {}

-----------------------------------------------------------------------------
(***************************************************************************)
(* Update.  changeLock serialises Updates, but the goroutines see its      *)
(* steps one by one: the CancelCh of each removed vertex is closed, then   *)
(* each vertex whose edges changed gets a new DepsCh (under DepsLock) and  *)
(* after it a new waitDeps goroutine, and at last the walkVertex           *)
(* goroutines of the new vertices start.                                   *)
(***************************************************************************)
\* The Update that holds changeLock, or held it last; it names the channels that Update makes.
Cur == update.n

\* The walkerVertex that vertexMap has for v.
InfoOf(v) == <<v, vertexMap[v]>>

UpdateBegin(g) ==
    LET n    == update.n + 1
        newV == g.vertices \ vertices
    IN  /\ update.pc = "idle"
        /\ update.n < MaxUpdates
        /\ update' = [n |-> n, pc |-> "remove", old |-> vertices \ g.vertices,
                      changed |-> {}, spawn |-> {}, edges |-> g.edges]
        /\ vertices' = vertices \cup newV
        /\ vertexMap' = [v \in Vertex |-> IF v \in newV THEN n ELSE vertexMap[v]]
        /\ walk' = [i \in Info |-> IF i[1] \in newV /\ i[2] = n
                                   THEN [walk[i] EXCEPT !.pc = "added"] ELSE walk[i]]
        /\ UNCHANGED <<edges, info, canceled, done, waiter, diagsMap, upstreamFailed, returned,
                       result>>

\* Cancels one of the vertices the new graph no longer has.
UpdateRemove(v) ==
    /\ update.pc = "remove"
    /\ v \in update.old
    /\ canceled' = canceled \cup {InfoOf(v)}
    /\ vertexMap' = [vertexMap EXCEPT ![v] = Nil]
    /\ vertices' = vertices \ {v}
    /\ update' = [update EXCEPT !.old = @ \ {v}]
    /\ UNCHANGED <<edges, info, done, waiter, walk, diagsMap, upstreamFailed, returned,
                       result>>

(***************************************************************************)
(* The edge differences are applied to the deps maps, which only Update    *)
(* reads.  An edge is skipped when its waiter (or, for a new edge, its     *)
(* dependency) is not in vertexMap; a removed edge that is skipped stays   *)
(* in Walker.edges.                                                        *)
(***************************************************************************)
UpdateEdges ==
    LET known(v) == vertexMap[v] # Nil
        added    == {e \in update.edges \ edges : known(WaiterOf(e)) /\ known(DepOf(e))}
        removed  == {e \in edges \ update.edges : known(WaiterOf(e))}
        gained(v) == {DepOf(e) : e \in {x \in added : WaiterOf(x) = v}}
        lost(v)   == {DepOf(e) : e \in {x \in removed : WaiterOf(x) = v}}
    IN  /\ update.pc = "remove"
        /\ update.old = {}
        /\ edges' = (edges \cup added) \ removed
        /\ info' = [i \in Info |->
              IF i = InfoOf(i[1])
              THEN [info[i] EXCEPT !.deps =
                      {d \in @ : d[1] \notin gained(i[1]) \cup lost(i[1])}
                        \cup {InfoOf(d) : d \in gained(i[1])}]
              ELSE info[i]]
        /\ update' = [n |-> Cur, pc |-> "swap", old |-> {},
                      changed |-> {WaiterOf(e) : e \in added \cup removed},
                      spawn |-> {}, edges |-> {}]
        /\ UNCHANGED <<vertices, vertexMap, canceled, done, waiter, walk, diagsMap,
                       upstreamFailed, returned, result>>

\* Under DepsLock: the old DepsUpdateCh is closed (it is no longer the
\* current one) and the new channels are installed.
UpdateSwap(v) ==
    /\ update.pc = "swap"
    /\ update.spawn = {}
    /\ v \in update.changed
    /\ info' = [info EXCEPT ![InfoOf(v)] =
                   [deps |-> @.deps, depsCh |-> Cur, depsUpdateCh |-> Cur,
                    depsCancelCh |-> @.depsCancelCh]]
    /\ update' = [n |-> Cur, pc |-> "swap", old |-> {}, changed |-> update.changed \ {v},
                  spawn |-> {v}, edges |-> {}]
    /\ UNCHANGED <<vertices, edges, vertexMap, canceled, done, waiter, walk, diagsMap,
                   upstreamFailed, returned, result>>

\* Then the older waitDeps is cancelled and the new one starts.
UpdateSpawn(v) ==
    LET i == InfoOf(v)
        old == info[i].depsCancelCh
    IN  /\ update.pc = "swap"
        /\ v \in update.spawn
        /\ waiter' = [w \in Info |->
              IF w = <<v, Cur>>
              THEN [deps |-> info[i].deps, doneCh |-> "empty", canceled |-> FALSE]
              ELSE [waiter[w] EXCEPT !.canceled = @ \/ w = <<v, old>>]]
        /\ info' = [info EXCEPT ![i].depsCancelCh = Cur]
        /\ update' = [update EXCEPT !.spawn = {}]
        /\ UNCHANGED <<vertices, edges, vertexMap, canceled, done, walk, diagsMap,
                       upstreamFailed, returned, result>>

UpdateStart ==
    /\ update.pc = "swap"
    /\ update.changed = {}
    /\ update.spawn = {}
    /\ walk' = [i \in Info |-> IF walk[i].pc = "added"
                               THEN [walk[i] EXCEPT !.pc = "start"] ELSE walk[i]]
    /\ update' = IdleUpdate(Cur)
    /\ UNCHANGED <<vertices, edges, vertexMap, info, canceled, done, waiter, diagsMap,
                   upstreamFailed, returned, result>>

-----------------------------------------------------------------------------
(***************************************************************************)
(* waitDeps.  It waits for its dependencies one after the other in the     *)
(* random order of a map; DoneChs stay closed, so that is waiting until    *)
(* all are closed, with cancelCh selectable as long as there is a          *)
(* dependency to wait for.                                                 *)
(***************************************************************************)
WaitDepsCanceled(w) ==
    /\ waiter[w].doneCh = "empty"
    /\ waiter[w].canceled
    /\ waiter[w].deps # {}
    /\ waiter' = [waiter EXCEPT ![w].doneCh = "false"]
    /\ UNCHANGED <<vertices, edges, vertexMap, info, canceled, done, walk, diagsMap,
                   upstreamFailed, update, returned, result>>

\* Faults: not looking at the diagnostics, and returning without an answer
\* when a dependency failed.
WaitDepsNoErrorCheck(w) ==
    /\ waiter[w].doneCh = "empty"
    /\ waiter[w].deps \subseteq done
    /\ waiter' = [waiter EXCEPT ![w].doneCh = "true"]
    /\ UNCHANGED <<vertices, edges, vertexMap, info, canceled, done, walk, diagsMap,
                   upstreamFailed, update, returned, result>>

WaitDepsSilentFailure(w) ==
    /\ waiter[w].doneCh = "empty"
    /\ waiter[w].deps \subseteq done
    /\ \A d \in waiter[w].deps : diagsMap[d[1]] # "error"
    /\ waiter' = [waiter EXCEPT ![w].doneCh = "true"]
    /\ UNCHANGED <<vertices, edges, vertexMap, info, canceled, done, walk, diagsMap,
                   upstreamFailed, update, returned, result>>

WaitDepsSatisfied(w) ==
    /\ waiter[w].doneCh = "empty"
    /\ waiter[w].deps \subseteq done
    /\ waiter' = [waiter EXCEPT ![w].doneCh =
                     IF \E d \in waiter[w].deps : diagsMap[d[1]] = "error"
                     THEN "false" ELSE "true"]
    /\ UNCHANGED <<vertices, edges, vertexMap, info, canceled, done, walk, diagsMap,
                   upstreamFailed, update, returned, result>>

-----------------------------------------------------------------------------
(***************************************************************************)
(* walkVertex.                                                             *)
(***************************************************************************)
\* The first select finds the preloaded channel ready.
WalkEnter(i) ==
    /\ walk[i].pc = "start"
    /\ walk' = [walk EXCEPT ![i] = [pc |-> "load", depsCh |-> Nil,
                                    depsUpdateCh |-> @.depsUpdateCh, depsSuccess |-> TRUE]]
    /\ UNCHANGED <<vertices, edges, vertexMap, info, canceled, done, waiter, diagsMap,
                   upstreamFailed, update, returned, result>>

WalkSelectCancel(i) ==
    /\ walk[i].pc \in {"start", "select"}
    /\ i \in canceled
    /\ walk' = [walk EXCEPT ![i].pc = "close"]
    /\ UNCHANGED <<vertices, edges, vertexMap, info, canceled, done, waiter, diagsMap,
                   upstreamFailed, update, returned, result>>

WalkSelectDeps(i) ==
    LET w == <<i[1], walk[i].depsCh>>
    IN  /\ walk[i].pc = "select"
        /\ walk[i].depsCh # Nil
        /\ waiter[w].doneCh \in {"true", "false"}
        /\ walk' = [walk EXCEPT ![i] = [pc |-> "load", depsCh |-> Nil,
                                        depsUpdateCh |-> @.depsUpdateCh,
                                        depsSuccess |-> (waiter[w].doneCh = "true")]]
        /\ waiter' = [waiter EXCEPT ![w].doneCh = "taken"]
        /\ UNCHANGED <<vertices, edges, vertexMap, info, canceled, done, diagsMap,
                       upstreamFailed, update, returned, result>>

WalkSelectUpdate(i) ==
    /\ walk[i].pc = "select"
    /\ walk[i].depsUpdateCh \notin {Nil, info[i].depsUpdateCh}
    /\ walk' = [walk EXCEPT ![i].pc = "load"]
    /\ UNCHANGED <<vertices, edges, vertexMap, info, canceled, done, waiter, diagsMap,
                   upstreamFailed, update, returned, result>>

\* Fault: not looking for newer dependencies once the known ones are done.
WalkLoadOnce(i) ==
    LET first == walk[i].depsUpdateCh = Nil
        ch == IF first /\ info[i].depsCh # Nil THEN info[i].depsCh ELSE walk[i].depsCh
    IN  /\ walk[i].pc = "load"
        /\ info' = [info EXCEPT ![i].depsCh = Nil]
        /\ walk' = [walk EXCEPT ![i].depsCh = ch, ![i].depsUpdateCh = info[i].depsUpdateCh,
                                ![i].pc = IF ch = Nil THEN "check" ELSE "select"]
        /\ UNCHANGED <<vertices, edges, vertexMap, canceled, done, waiter, diagsMap,
                       upstreamFailed, update, returned, result>>

\* The section under DepsLock at the end of the loop body.
WalkLoad(i) ==
    LET ch  == IF info[i].depsCh # Nil THEN info[i].depsCh ELSE walk[i].depsCh
        upd == IF info[i].depsUpdateCh # Nil THEN info[i].depsUpdateCh
                                             ELSE walk[i].depsUpdateCh
    IN  /\ walk[i].pc = "load"
        /\ info' = [info EXCEPT ![i].depsCh = Nil]
        /\ walk' = [walk EXCEPT ![i] = [pc |-> IF ch = Nil THEN "check" ELSE "select",
                                        depsCh |-> ch, depsUpdateCh |-> upd,
                                        depsSuccess |-> @.depsSuccess]]
        /\ UNCHANGED <<vertices, edges, vertexMap, canceled, done, waiter, diagsMap,
                       upstreamFailed, update, returned, result>>

\* The last look at CancelCh, and the choice between callback and skip.
WalkCheck(i) ==
    /\ walk[i].pc = "check"
    /\ walk' = [walk EXCEPT ![i].pc = IF i \in canceled THEN "close"
                                      ELSE IF walk[i].depsSuccess THEN "callback"
                                                                  ELSE "skip"]
    /\ UNCHANGED <<vertices, edges, vertexMap, info, canceled, done, waiter, diagsMap,
                   upstreamFailed, update, returned, result>>

\* The callback returns and its diagnostics are recorded.
WalkCallback(i, diags) ==
    /\ walk[i].pc = "callback"
    /\ diagsMap' = [diagsMap EXCEPT ![i[1]] = diags]
    /\ walk' = [walk EXCEPT ![i].pc = "close"]
    /\ UNCHANGED <<vertices, edges, vertexMap, info, canceled, done, waiter,
                   upstreamFailed, update, returned, result>>

WalkSkip(i) ==
    /\ walk[i].pc = "skip"
    /\ diagsMap' = [diagsMap EXCEPT ![i[1]] = "error"]
    /\ upstreamFailed' = upstreamFailed \cup {i[1]}
    /\ walk' = [walk EXCEPT ![i].pc = "close"]
    /\ UNCHANGED <<vertices, edges, vertexMap, info, canceled, done, waiter, update, returned,
                   result>>

\* The deferred calls: close(DoneCh), then wait.Done().
WalkClose(i) ==
    /\ walk[i].pc = "close"
    /\ done' = done \cup {i}
    /\ walk' = [walk EXCEPT ![i].pc = "exit"]
    /\ UNCHANGED <<vertices, edges, vertexMap, info, canceled, waiter, diagsMap,
                   upstreamFailed, update, returned, result>>

WalkExit(i) ==
    /\ walk[i].pc = "exit"
    /\ walk' = [walk EXCEPT ![i].pc = "exited"]
    /\ UNCHANGED <<vertices, edges, vertexMap, info, canceled, done, waiter, diagsMap,
                   upstreamFailed, update, returned, result>>

-----------------------------------------------------------------------------
(***************************************************************************)
(* Wait: called after the first Update, it returns the diagnostics of the  *)
(* vertices that failed by themselves once the WaitGroup is at zero.       *)
(***************************************************************************)
\* Fault: lowering the WaitGroup before a skipped vertex has recorded that.
WaitGroupEarly == {i \in Info : walk[i].pc \notin {"none", "skip", "close", "exit", "exited"}}
WaitGroup == {i \in Info : walk[i].pc \notin {"none", "exited"}}

OwnFailures == {v \in Vertex : diagsMap[v] = "error" /\ v \notin upstreamFailed}

Wait ==
    /\ update.n > 0
    /\ WaitGroup = {}
    /\ ~returned
    /\ returned' = TRUE
    /\ result' = OwnFailures
    /\ UNCHANGED <<vertices, edges, vertexMap, info, canceled, done, waiter, walk,
                   diagsMap, upstreamFailed, update>>

-----------------------------------------------------------------------------
UpdateStep ==
    \/ UpdateEdges
    \/ UpdateStart
    \/ \E v \in Vertex : UpdateRemove(v) \/ UpdateSwap(v) \/ UpdateSpawn(v)

WaitDepsStep(w) == WaitDepsCanceled(w) \/ WaitDepsSatisfied(w)

WalkStep(i) ==
    \/ WalkEnter(i) \/ WalkSelectCancel(i) \/ WalkSelectDeps(i) \/ WalkSelectUpdate(i)
    \/ WalkLoad(i) \/ WalkCheck(i) \/ WalkSkip(i) \/ WalkClose(i) \/ WalkExit(i)
    \/ \E diags \in {"ok", "error"} : WalkCallback(i, diags)

Next ==
    \/ \E g \in Graphs : UpdateBegin(g)
    \/ UpdateStep
    \/ \E i \in Info : WaitDepsStep(i) \/ WalkStep(i)
    \/ Wait

Spec == Init /\ [][Next]_vars

(***************************************************************************)
(* The Go scheduler runs every goroutine that can run.  A callback that    *)
(* has been called returns: that is an assumption on the callback.         *)
(***************************************************************************)
Fairness ==
    /\ WF_vars(UpdateStep)
    /\ \A i \in Info : WF_vars(WaitDepsStep(i)) /\ WF_vars(WalkStep(i))
    /\ WF_vars(Wait)

FairSpec == Spec /\ Fairness

-----------------------------------------------------------------------------
(***************************************************************************)
(* Properties of a walk of one graph, which is how AcyclicGraph.Walk uses  *)
(* the walker: Update once, then Wait.                                     *)
(***************************************************************************)
Ran(v) == \/ walk[<<v, 1>>].pc = "callback"
          \/ diagsMap[v] # "none" /\ v \notin upstreamFailed

\* "A vertex will only be walked when the dependencies of that vertex have
\* been walked", and a failure cascades: when the callback of a vertex runs,
\* everything the vertex depends on has run and succeeded, and stays so.
FailureCascades ==
    Cur <= 1 => \A e \in edges : Ran(WaiterOf(e)) => diagsMap[DepOf(e)] = "ok"

\* What Wait returns accounts for the whole walk: every vertex was executed
\* or skipped, and an empty result means every callback ran and succeeded,
\* so that dropping the diagnostics of skipped vertices hides no failure.
WaitAccountsForAll ==
    returned /\ Cur <= 1 =>
        /\ \A v \in vertices : diagsMap[v] # "none"
        /\ result = {} => \A v \in vertices : diagsMap[v] = "ok"

\* Once a graph has been given to Update, Wait returns.
WalkTerminates == (update.n > 0) ~> returned

(***************************************************************************)
(* Properties of walks that are updated while they run.                    *)
(***************************************************************************)
\* The re-check of DepsCh under DepsLock is what makes a walk follow its
\* updates: a vertex that leaves its wait loop while no Update is in
\* progress has had every dependency it has now finished, however often
\* its dependencies were replaced before.
DepsHonoured ==
    [][\A i \in Info :
          walk[i].pc = "load" /\ walk'[i].pc = "check" /\ update.pc = "idle"
             => info[i].deps \subseteq done]_vars
=============================================================================
