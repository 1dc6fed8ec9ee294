---------------------------- MODULE MCHubDeadline ----------------------------
(***************************************************************************)
(* Sockets of different users, for TLC.                                    *)
(***************************************************************************)
EXTENDS HubDeadline

MCUserOf == [c \in Sockets |-> c]
=============================================================================
