----------------------------- MODULE StateStore -----------------------------
(***************************************************************************)
(* What a place to keep states in promises (statemgr.Locker and the        *)
(* clients of package remote): at most one client holds the lock, it gets  *)
(* it only when it is free, and only the client that holds it changes the  *)
(* content.  Removing a whole workspace is the exception: it goes past the *)
(* lock.                                                                   *)
(***************************************************************************)
CONSTANTS
    Client,   \* those who may hold the lock
    Nobody,   \* the lock is free
    Gone      \* what the content is when there is none

VARIABLES holder, content

TypeOK == holder \in {Nobody} \union Client

Init == TypeOK

Acquire(p) == holder = Nobody /\ holder' = p /\ UNCHANGED content

\* By its holder, by an operator, or because the holder is gone.
Release == holder # Nobody /\ holder' = Nobody /\ UNCHANGED content

Write(p) == holder = p /\ content' # content /\ UNCHANGED holder

Remove == content' = Gone /\ UNCHANGED holder

Next == (\E p \in Client : Acquire(p) \/ Write(p)) \/ Release \/ Remove

Spec == Init /\ [][Next]_<<holder, content>>
=============================================================================
