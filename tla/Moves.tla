------------------------------- MODULE Moves -------------------------------
(***************************************************************************)
(* Move statements (internal/refactoring): what Core does with "moved"     *)
(* blocks, and with count added or removed, before it plans.  It collects  *)
(* the statements, orders them by how they chain and nest, applies each    *)
(* one to the modules of the previous state, which change meanwhile, and   *)
(* validates the statements only afterwards.  The order of independent     *)
(* statements and the order of modules are those of Go maps: any.          *)
(*                                                                         *)
(* A module instance is a sequence of steps, a name with a key.  A         *)
(* moveable is a module path with a resource and a key; its kind is that   *)
(* of its Go type: "call" (AbsModuleCall), "minst" (ModuleInstance), "res" *)
(* (AbsResource) or "inst" (AbsResourceInstance).  An endpoint is a        *)
(* moveable relative to the module that declares the statement.            *)
(***************************************************************************)
EXTENDS Sequences, SequencesExt, FiniteSets

CONSTANTS
    Configs,  \* the configurations: [mods, insts, moved], see below
    Priors    \* the possible sets of resource instances in the previous state

NoKey  == ""
AnyKey == "*"
Zero   == "0"
NoName == ""

\* InstanceKey: none, that of the first of count, or a string for any other.
Key == {NoKey, Zero} \union (STRING \ {AnyKey})

\* The paths of module instances.
Path == Seq([name : STRING, key : Key])

\* mods: the module instances that are declared, with all their parents; insts: the
\* resource instances; moved: the moved blocks, each with the module that has it and both
\* ends of one kind (MightUnifyWith).
ASSUME MovesAssumption ==
    /\ \A c \in Configs :
        /\ c.mods \subseteq Path /\ <<>> \in c.mods
        /\ \A m \in c.mods : m # <<>> => Front(m) \in c.mods
        /\ \A i \in c.insts : i.mod \in c.mods
        /\ \A move \in c.moved :
            /\ move.decl \in Seq(STRING)
            /\ move.from.res = NoName <=> move.to.res = NoName
            /\ \A e \in {move.from, move.to} :
                e.mod \in Path /\ e.key # AnyKey /\ (e.res = NoName => e.mod # <<>>)
    /\ \A addresses \in Priors : \A a \in addresses :
        a = [mod |-> a.mod, res |-> a.res, key |-> a.key] /\ a.mod \in Path /\ a.res # NoName

VARIABLES
    config,   \* the configuration
    prior,    \* the addresses of the previous state
    pc,       \* "find", "apply", "planned" or "rejected"
    stmts,    \* the statements, explicit and implied
    todo,     \* those not yet begun
    stmt,     \* the current one
    visit,    \* the modules still to be visited for it
    at,       \* the state: for each address, where the object there was before
    changes,  \* MoveResults.Changes: for each new address the old one
    blocked,  \* MoveResults.Blocked
    first     \* the set of the result of an earlier plan from the same state

vars == <<config, prior, pc, stmts, todo, stmt, visit, at, changes, blocked, first>>

None == [none |-> TRUE]

-----------------------------------------------------------------------------
(* Addresses *)

Step(n, k) == [name |-> n, key |-> k]

\* ModuleInstance.Module: the path without its keys.
Static(m) == [i \in DOMAIN m |-> m[i].name]

Address(m, r, k) == [mod |-> m, res |-> r, key |-> k]

\* state.Modules: the root, and every module that has a resource instance.  A resource
\* without instances (count = 0) is not in the state.
Modules(addresses) == {<<>>} \union {a.mod : a \in addresses}

Endpoint(decl, kind, path, r, k) ==
    [decl |-> decl, kind |-> kind, path |-> path, res |-> r, key |-> k]

IsModuleKind(e) == e.kind \in {"call", "minst"}

\* UnifyMoveEndpoints: whole objects if neither address has a key, else instances.
Unify(move) ==
    LET isModule == move.from.res = NoName
        keyed    == IF isModule THEN Last(move.from.mod).key # NoKey \/ Last(move.to.mod).key # NoKey
                                ELSE move.from.key # NoKey \/ move.to.key # NoKey
        kind     == IF isModule THEN (IF keyed THEN "minst" ELSE "call")
                                ELSE (IF keyed THEN "inst" ELSE "res")
        End(a)   == Endpoint(move.decl, kind, a.mod, a.res, a.key)
    IN  [from |-> End(move.from), to |-> End(move.to)]

\* synthModuleInstance: the path from the root, with a wildcard where any instance will do.
Synth(e) ==
    [i \in DOMAIN e.decl |-> Step(e.decl[i], AnyKey)]
      \o (IF e.kind = "call" THEN Append(Front(e.path), Step(Last(e.path).name, AnyKey)) ELSE e.path)

\* moduleInstanceCanMatch: the steps of p agree with the first ones of q.
CanMatch(p, q) ==
    \A i \in DOMAIN p :
        /\ p[i].name = q[i].name
        /\ p[i].key = q[i].key \/ p[i].key = AnyKey \/ q[i].key = AnyKey

SelectsModule(e, m) == Len(Synth(e)) = Len(m) /\ CanMatch(Synth(e), m)

SelectsResource(e, m, r) == ~IsModuleKind(e) /\ SelectsModule(e, m) /\ e.res = r

CanChainFrom(e, o) ==
    /\ Len(Synth(e)) = Len(Synth(o))
    /\ CanMatch(Synth(o), Synth(e))
    /\ \/ IsModuleKind(e) /\ IsModuleKind(o)
       \/ e.kind = o.kind /\ e.res = o.res /\ (e.kind = "inst" => e.key = o.key)

NestedWithin(e, o) ==
    /\ Len(Synth(o)) <= Len(Synth(e))
    /\ CanMatch(Synth(o), Synth(e))
    /\ CASE o.kind = "call"  -> e.kind = "call" => Len(Synth(e)) > Len(Synth(o))
         [] o.kind = "minst" -> IsModuleKind(e) => Len(Synth(e)) > Len(Synth(o))
         [] o.kind = "res"   -> e.kind = "inst" /\ e.res = o.res /\ Len(Synth(e)) = Len(Synth(o))
         [] o.kind = "inst"  -> FALSE

\* IsModuleReIndex: the endpoints of one statement name the same module.
IsModuleReIndex(s) == s.from.kind = "minst" /\ Static(s.from.path) = Static(s.to.path)

-----------------------------------------------------------------------------
(* The statements *)

Explicit == {Unify(move) : move \in config.moved}

\* ImpliedMoveStatementEndpoint: one object, relative to the root.
ImpliedMove(kind, from, to) ==
    [from |-> Endpoint(<<>>, kind, from.mod, from.res, from.key),
     to   |-> Endpoint(<<>>, kind, to.mod, to.res, to.key)]

\* The key that the object without repetition, or the first of count, has now: none if
\* there is no repetition, zero for count; no such key for for_each or if nothing is declared.
KeptKey(keys) == {NoKey, Zero} \intersect keys

Rekeyed(m, k) == Append(Front(m), Step(Last(m).name, k))

\* impliedMoveStatementsForModules
ImpliedForModules(explicit) ==
    LET Keys(m)  == {Last(d).key : d \in {d \in config.mods \ {<<>>} : Static(d) = Static(m)}}
        Have(m)  == \E s \in explicit : SelectsModule(s.from, m) \/ SelectsModule(s.to, m)
        Moves(m) == {ImpliedMove("minst", Address(m, NoName, NoKey), Address(Rekeyed(m, k), NoName, NoKey)) :
                        k \in KeptKey(Keys(m)) \ {Last(m).key}}
    IN  UNION {Moves(m) : m \in {m \in Modules(prior) \ {<<>>} : Last(m).key \in {NoKey, Zero} /\ ~Have(m)}}

\* impliedMoveStatementsForModuleResources
ImpliedForResources(explicit) ==
    LET Keys(a)  == {i.key : i \in {i \in config.insts : Static(i.mod) = Static(a.mod) /\ i.res = a.res}}
        Have(a)  == \E s \in explicit : SelectsResource(s.from, a.mod, a.res) \/ SelectsResource(s.to, a.mod, a.res)
        Moves(a) == {ImpliedMove("inst", a, [a EXCEPT !.key = k]) : k \in KeptKey(Keys(a)) \ {a.key}}
    IN  UNION {Moves(a) : a \in {a \in prior : a.key \in {NoKey, Zero} /\ ~Have(a)}}

\* FindMoveStatements and ImpliedMoveStatements.  The code has a list: of two equal blocks
\* the second finds nothing to move, and the set has one.
Statements == Explicit \union ImpliedForModules(Explicit) \union ImpliedForResources(Explicit)

\* Fault: a statement does not wait for the one whose result it moves on.
DependsOnNestedOnly(a, b) ==
    /\ \/ NestedWithin(a.from, b.to) \/ NestedWithin(a.to, b.to)
       \/ NestedWithin(b.from, a.from) \/ NestedWithin(b.to, a.from)
    /\ Len(a.to.decl) >= Len(b.to.decl) \/ ~IsModuleReIndex(a)

\* Fault: the destinations are not compared.
DependsOnUnlessTo(a, b) ==
    \/ CanChainFrom(a.from, b.to)
    \/ /\ NestedWithin(a.from, b.to) \/ NestedWithin(b.from, a.from) \/ NestedWithin(b.to, a.from)
       /\ Len(a.to.decl) >= Len(b.to.decl) \/ ~IsModuleReIndex(a)

\* statementDependsOn: b has to be executed before a.
DependsOn(a, b) ==
    \/ CanChainFrom(a.from, b.to)
    \/ /\ \/ NestedWithin(a.from, b.to) \/ NestedWithin(a.to, b.to)
          \/ NestedWithin(b.from, a.from) \/ NestedWithin(b.to, a.from)
       /\ Len(a.to.decl) >= Len(b.to.decl) \/ ~IsModuleReIndex(a)

\* validateMoveStatementGraph: no set of statements in which each waits for another.
Acyclic(ss) ==
    \A c \in SUBSET ss \ {{}} : \E a \in c : \A b \in c \ {a} : ~DependsOn(a, b)

-----------------------------------------------------------------------------
(* The effect of a statement on a module *)

\* MoveDestination of a module instance: the set of its destination, if s applies to it.
ModuleDestination(s, m) ==
    LET d == Len(s.from.decl)
        n == d + Len(s.from.path)
        Prefix == SubSeq(m, 1, d)
        Match  == SubSeq(m, d + 1, n)
        Suffix == SubSeq(m, n + 1, Len(m))
    IN  IF /\ m # <<>> /\ n <= Len(m) /\ Static(Prefix) = s.from.decl
           /\ \/ s.from.kind = "minst" /\ Match = s.from.path
              \/ /\ s.from.kind = "call"
                 /\ Front(Match) = Front(s.from.path) /\ Last(Match).name = Last(s.from.path).name
        THEN {Prefix \o (IF s.from.kind = "minst" THEN s.to.path ELSE Rekeyed(s.to.path, Last(Match).key))
                     \o Suffix}
        ELSE {}

\* The module part of MoveDestination of a resource or of a resource instance: the exact module.
ContainerDestination(s, m) ==
    LET d == Len(s.from.decl)
    IN  IF /\ d <= Len(m) /\ Static(SubSeq(m, 1, d)) = s.from.decl
           /\ SubSeq(m, d + 1, Len(m)) = s.from.path
        THEN {SubSeq(m, 1, d) \o s.to.path}
        ELSE {}

\* What of module m moves by s, in a state with these addresses: the moveable, where it
\* goes, the instances that go with it and whether the place is taken.
Matches(s, m, addresses) ==
    LET Inside == {a \in addresses : a.mod = m}
        WholeModule(dest) ==
            [obj |-> Address(m, NoName, NoKey), dest |-> Address(dest, NoName, NoKey), insts |-> Inside,
             taken |-> dest \in Modules(addresses)]
        WholeResource(dest) ==
            [obj |-> Address(m, s.from.res, AnyKey), dest |-> Address(dest, s.to.res, AnyKey),
             insts |-> {a \in Inside : a.res = s.from.res},
             taken |-> \E a \in addresses : a.mod = dest /\ a.res = s.to.res]
        Instance(dest) ==
            LET to == Address(dest, s.to.res, s.to.key)
            IN  [obj |-> Address(m, s.from.res, s.from.key), dest |-> to,
                 insts |-> {a \in Inside : a.res = s.from.res /\ a.key = s.from.key},
                 taken |-> to \in addresses]
    IN  {x \in CASE IsModuleKind(s.from)  -> {WholeModule(d) : d \in ModuleDestination(s, m)}
                 [] s.from.kind = "res"   -> {WholeResource(d) : d \in ContainerDestination(s, m)}
                 [] s.from.kind = "inst"  -> {Instance(d) : d \in ContainerDestination(s, m)} :
            x.insts # {}}

\* The new address of instance a of the moveable x.
NewAddress(x, a) ==
    [mod |-> x.dest.mod,
     res |-> IF x.dest.res = NoName THEN a.res ELSE x.dest.res,
     key |-> IF x.dest.res = NoName \/ x.dest.key = AnyKey THEN a.key ELSE x.dest.key]

\* A function with the values of f at the instances of x moved to their new addresses.
Carry(f, x) ==
    LET New(a) == NewAddress(x, a)
    IN  [n \in (DOMAIN f \ x.insts) \union {New(a) : a \in x.insts} |->
            IF \E a \in x.insts : New(a) = n THEN f[CHOOSE a \in x.insts : New(a) = n] ELSE f[n]]

-----------------------------------------------------------------------------

Identity(addresses) == [a \in addresses |-> a]

Init ==
    /\ config \in Configs /\ prior \in Priors
    /\ pc = "find" /\ stmts = {} /\ todo = {} /\ stmt = None /\ visit = {}
    /\ at = Identity(prior) /\ changes = Identity({}) /\ blocked = {} /\ first = {}

\* prePlanFindAndApplyMoves up to the loop of ApplyMoves, which does nothing if there is a cycle.
FindMoveStatements ==
    /\ pc = "find"
    /\ pc' = "apply"
    /\ stmts' = Statements
    /\ todo' = IF Acyclic(stmts') THEN stmts' ELSE {}
    /\ UNCHANGED <<config, prior, stmt, visit, at, changes, blocked, first>>

\* ApplyMoves begins a statement all of whose dependencies are through, in some topological
\* order of the graph.
BeginStatement(s) ==
    /\ pc = "apply" /\ visit = {}
    /\ s \in todo /\ \A b \in todo \ {s} : ~DependsOn(s, b)
    /\ stmt' = s /\ todo' = todo \ {s} /\ visit' = Modules(DOMAIN at)
    /\ UNCHANGED <<config, prior, pc, stmts, at, changes, blocked, first>>

\* Fault: a move of something that has been moved before starts a new entry.
RecordMoveAnew(x) ==
    changes' = [n \in DOMAIN changes \union {NewAddress(x, a) : a \in x.insts} |->
                   IF \E a \in x.insts : NewAddress(x, a) = n
                   THEN CHOOSE a \in x.insts : NewAddress(x, a) = n
                   ELSE changes[n]]

\* recordOldAddr, for every instance that moves: a chain of moves is one entry.
RecordMove(x) ==
    LET old == [a \in DOMAIN changes \union x.insts |-> IF a \in DOMAIN changes THEN changes[a] ELSE a]
    IN  changes' = Carry(old, x)

\* ApplyMoves visits a module that the current statement does not apply to, or that it
\* cannot move because there is something at the destination already.
VisitInVain(m) ==
    /\ m \in visit
    /\ \A x \in Matches(stmt, m, DOMAIN at) : x.taken
    /\ blocked' = {b \in blocked : \A x \in Matches(stmt, m, DOMAIN at) : b.actual # x.obj}
                   \union {[actual |-> x.obj, wanted |-> x.dest] : x \in Matches(stmt, m, DOMAIN at)}
    /\ visit' = visit \ {m}
    /\ UNCHANGED <<config, prior, pc, stmts, todo, stmt, at, changes, first>>

\* ApplyMoves visits a module and moves it, or a resource or an instance in it
\* (MoveModuleInstance, MoveAbsResource, MoveAbsResourceInstance).  A module that is empty
\* then is removed; one that is made may or may not be visited for the same statement.
VisitAndMove(m) ==
    /\ m \in visit
    /\ \E x \in Matches(stmt, m, DOMAIN at) :
        /\ ~x.taken
        /\ RecordMove(x)
        /\ at' = Carry(at, x)
        /\ \E more \in SUBSET (Modules(DOMAIN at') \ Modules(DOMAIN at \ x.insts)) :
            visit' = ((visit \ {m}) \intersect Modules(DOMAIN at')) \union more
    /\ UNCHANGED <<config, prior, pc, stmts, todo, stmt, blocked, first>>

-----------------------------------------------------------------------------
(* ValidateMoves, after the plan *)

\* InModuleInstance
Absolute(e, m) == [kind |-> e.kind, mod |-> m \o e.path, res |-> e.res, key |-> e.key]

\* moveableObjectExists
Declared(o) ==
    CASE o.kind = "minst" -> o.mod \in config.mods
      [] o.kind = "call"  -> \E m \in config.mods \ {<<>>} :
                                Front(m) = Front(o.mod) /\ Last(m).name = Last(o.mod).name
      [] o.kind = "inst"  -> Address(o.mod, o.res, o.key) \in config.insts
      [] o.kind = "res"   -> \E i \in config.insts : i.mod = o.mod /\ i.res = o.res

\* Each statement in every declared instance of its module.
AbsoluteMoves ==
    {[from |-> Absolute(p[1].from, p[2]), to |-> Absolute(p[1].to, p[2])] :
        p \in {p \in stmts \X config.mods : Static(p[2]) = p[1].from.decl}}

ValidateMoves ==
    /\ \A v \in AbsoluteMoves : v.from # v.to /\ ~Declared(v.from)
    /\ \A v, w \in AbsoluteMoves : (v.from = w.from) <=> (v.to = w.to)
    /\ Acyclic(stmts)

\* planWalk has planned and validates the statements.
PostPlanValidateMoves ==
    /\ pc = "apply" /\ todo = {} /\ visit = {}
    /\ pc' = IF ValidateMoves THEN "planned" ELSE "rejected"
    /\ stmt' = None
    /\ UNCHANGED <<config, prior, stmts, todo, visit, at, changes, blocked, first>>

\* The plan is made again, from the same configuration and the same stored state.
PlanAgain ==
    /\ pc = "planned" /\ first = {}
    /\ first' = {at}
    /\ pc' = "find" /\ at' = Identity(prior) /\ changes' = Identity({}) /\ blocked' = {} /\ stmts' = {}
    /\ UNCHANGED <<config, prior, todo, stmt, visit>>

Next ==
    \/ FindMoveStatements
    \/ \E s \in todo : BeginStatement(s)
    \/ \E m \in visit : VisitInVain(m)
    \/ \E m \in visit : VisitAndMove(m)
    \/ PostPlanValidateMoves
    \/ PlanAgain

Spec == Init /\ [][Next]_vars

-----------------------------------------------------------------------------
(* Properties *)

\* ApplyMoves loses no object, and at any time MoveResults.OldAddr tells for every address
\* in the state where the object at that address was before all moves.
OldAddrIsTrue ==
    /\ {at[a] : a \in DOMAIN at} = prior
    /\ DOMAIN changes \subseteq DOMAIN at
    /\ \A a \in DOMAIN at : at[a] = IF a \in DOMAIN changes THEN changes[a] ELSE a

\* The endpoints can select the same object, or one something inside of the other.
Meets(e, o) == CanChainFrom(e, o) \/ NestedWithin(e, o) \/ NestedWithin(o, e)

\* statementDependsOn takes t to be declared inside of the module that s gives another
\* index, but t is declared around it and can move something there.
DeclaredBetween(s, t) ==
    /\ IsModuleReIndex(s) /\ Meets(s.from, t.to) /\ ~CanChainFrom(s.from, t.to)
    /\ Len(s.from.decl) < Len(t.to.decl) /\ Len(t.to.decl) < Len(Synth(s.from))

\* Statement s comes after all others that can move something to where it applies.
InItsPlace(s) == ~Meets(s.from, s.to) /\ \A t \in stmts : ~DeclaredBetween(s, t)

\* Both modules are in the one that s selects, or are it.
TogetherIn(s, m, n) ==
    LET k == Len(Synth(s.from))
    IN  k <= Len(m) /\ k <= Len(n) /\ \A i \in 1..k : m[i] = n[i]

\* MoveResults.Blocked has x, or something in the same module that is to move.
HeldBack(s, x) ==
    \E b \in blocked :
        \/ b.actual = x.obj
        \/ IsModuleKind(s.from) /\ b.actual.res = NoName /\ TogetherIn(s, x.obj.mod, b.actual.mod)

\* Everything in the state that statement s applies to was held back.
Exhausted(s) ==
    \A m \in Modules(DOMAIN at) : \A x \in Matches(s, m, DOMAIN at) : HeldBack(s, x)

\* One pass over the statements in topological order is enough: in an accepted plan no
\* statement applies to anything any more, except to what MoveResults.Blocked accounts for.
\* Left out are statements that move something into what they select themselves, and
\* those that nothing orders although they should be (DeclaredBetween).
NoneLeftBehind == pc = "planned" => \A s \in stmts : InItsPlace(s) => Exhausted(s)

\* No two statements can move the same object, or to the same place, in some instance of a
\* module, declared or not (ValidateMoves compares those in the declared instances only).
Unambiguous ==
    \A s, t \in stmts : s # t /\ s.to.kind = t.to.kind =>
        ~CanChainFrom(s.from, t.from) /\ ~CanChainFrom(s.to, t.to)

\* Conflicts between statements are settled in a deterministic way: a plan made again from
\* the same state finds every object at the same address as the first one.
SameResult ==
    pc = "planned" /\ Unambiguous /\ (\A s \in stmts : InItsPlace(s)) => first \subseteq {at}
=============================================================================
