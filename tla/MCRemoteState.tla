--------------------------- MODULE MCRemoteState ---------------------------
(***************************************************************************)
(* Instances of RemoteState for TLC.                                       *)
(***************************************************************************)
EXTENDS RemoteState, FiniteSets, TLC

CONSTANTS a, b

Sym == Permutations(Proc)

\* Snapshots to start from: none, or one that tracks a, current or to be
\* migrated to another encryption.
NoneYet  == {Absent}
Existing == {[lineage |-> 1, serial |-> 1, state |-> {a}, stale |-> s] : s \in BOOLEAN}
AnyStart == NoneYet \union Existing

\* A file from elsewhere, of another lineage, and one of the old format that
\* has no lineage.
Other  == [lineage |-> 90, serial |-> 3, state |-> {b}]
Legacy == [lineage |-> 0, serial |-> 0, state |-> {b}]
ForeignFiles == {Other, Legacy}
NoFiles == {}
AnyForce == BOOLEAN
NoImport == {}
=============================================================================
