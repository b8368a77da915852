------------------------------ MODULE MCApply ------------------------------
(***************************************************************************)
(* Instances of Apply for TLC: a resource b that may use a resource a.     *)
(***************************************************************************)
EXTENDS Apply, TLC

CONSTANTS a, b

\* b uses a, or a is removed and b stands alone, or everything is destroyed.
Shapes(cbd) ==
    LET cfg(present, used) ==
          [present |-> present, refs |-> [r \in Res |-> IF r = b THEN used ELSE {}], cbd |-> cbd]
    IN  {cfg({a, b}, {a}), cfg({b}, {}), cfg({}, {})}

\* b does not use a any more, or not yet.
Apart(cbd) == [present |-> {a, b}, refs |-> [r \in Res |-> {}], cbd |-> cbd]

\* It is a that uses b.
Reversed == [present |-> {a, b}, refs |-> [r \in Res |-> IF r = a THEN {b} ELSE {}], cbd |-> {}]

\* b is removed and a stands alone.
Alone == [present |-> {a}, refs |-> [r \in Res |-> {}], cbd |-> {}]

\* create_before_destroy is set and unset at will.
AnyConfigs == UNION {Shapes(S) : S \in SUBSET {a, b}} \union {Apart({}), Reversed, Alone}

\* create_before_destroy of a comes from b only.  b may also stop using a.
Inherited ==
    {[present |-> {a, b}, refs |-> [r \in Res |-> IF r = b THEN S ELSE {}], cbd |-> {b}] :
        S \in SUBSET {a}}
=============================================================================
