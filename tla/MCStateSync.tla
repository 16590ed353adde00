----------------------------- MODULE MCStateSync -----------------------------
(* Small sets of clients for StateSync.                                    *)
EXTENDS StateSync

CONSTANTS host, remote, ready, move

MCOwner == [o \in Order |-> remote]
MCOwnerHost == [o \in Order |-> host]
=============================================================================
