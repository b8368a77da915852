----------------------------- MODULE MCS3Client -----------------------------
(***************************************************************************)
(* Three commands, configured as a team is while it moves from one lock to *)
(* the other: everyone on the table, one on both, one on the file alone,   *)
(* everyone on both, everyone on the file.                                 *)
(***************************************************************************)
EXTENDS S3Client, TLC

CONSTANTS p1, p2, p3

Team == {p1, p2, p3}

Config(a, b) == [p \in Team |-> IF p = p3 THEN b ELSE a]

TeamModes ==
    { Config({"dynamo"}, {"dynamo"}), Config({"dynamo"}, Mechanism), Config(Mechanism, {"s3"}),
      Config(Mechanism, Mechanism), Config({"s3"}, {"s3"}) }

\* The commands that are configured alike may be exchanged.
Alike == Permutations({p1, p2})
=============================================================================
