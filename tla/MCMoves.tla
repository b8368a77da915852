------------------------------ MODULE MCMoves ------------------------------
(***************************************************************************)
(* Configurations with modules a and b, each alone or inside the other,    *)
(* and with resources x and y.                                             *)
(***************************************************************************)
EXTENDS Moves, FiniteSetsExt

CONSTANTS MaxMoved, MaxPrior  \* bounds on the moved blocks and on the objects

A  == <<Step("a", NoKey)>>
A0 == <<Step("a", Zero)>>
B  == <<Step("b", NoKey)>>
AB == A \o B

Root == <<>>

X(m)  == Address(m, "x", NoKey)
X0(m) == Address(m, "x", Zero)
Y(m)  == Address(m, "y", NoKey)
M(m)  == Address(m, NoName, NoKey)

Move(decl, from, to) == [decl |-> decl, from |-> from, to |-> to]

\* Chains of renames, moves into and out of modules, modules renamed, given an index and
\* nested, and moves that a module makes inside itself.
MovedBlocks ==
    { Move(<<>>, X(Root), Y(Root)), Move(<<>>, Y(Root), X(A)), Move(<<>>, Y(Root), Y(A0)),
      Move(<<>>, X(AB), Y(Root)),
      Move(<<>>, M(A), M(B)), Move(<<>>, M(A0), M(A)), Move(<<>>, M(A), M(A0)),
      Move(<<>>, M(AB), M(B)), Move(<<>>, M(B), M(AB)), Move(<<>>, M(A0), M(B)),
      Move(<<"a">>, X(Root), Y(Root)), Move(<<"a">>, Y(Root), X(B)), Move(<<"b">>, X(Root), Y(Root)) }

\* What is declared: resources in the root, with and without count, and in the modules.
Layouts ==
    { [mods |-> {Root, A, B}, insts |-> {Y(B), Y(A)}],
      [mods |-> {Root, A0, B}, insts |-> {Y(A0), X0(Root)}],
      [mods |-> {Root, A, AB}, insts |-> {Y(AB), Y(Root)}],
      [mods |-> {Root, B}, insts |-> {Y(B), X(B), X0(Root)}] }

AllConfigs ==
    { [mods |-> l.mods, insts |-> l.insts, moved |-> moved] :
        l \in Layouts, moved \in UNION {kSubset(k, MovedBlocks) : k \in 0..MaxMoved} }

\* Module b has moved x into the first instance of its module a, and the root has taken
\* the index off that one: nothing orders the two statements (DeclaredBetween).
Between ==
    {[mods |-> {Root, B, B \o A}, insts |-> {X(B \o A)},
      moved |-> {Move(<<"b">>, X(Root), X(A0)), Move(<<>>, M(B \o A0), M(B \o A))}]}

\* A module has moved blocks only if it is in the configuration.
UpToMaxMoved ==
    Between \union
    {c \in AllConfigs : \A move \in c.moved : \E m \in c.mods : Static(m) = move.decl}

UpToMaxPrior ==
    UNION {kSubset(k, {X(Root), Y(Root), X(A), Y(A), X(A0), Y(A0), X(B), Y(B), X(AB), Y(AB)}) : k \in 1..MaxPrior}
=============================================================================
