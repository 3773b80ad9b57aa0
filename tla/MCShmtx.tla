------------------------------ MODULE MCShmtx ------------------------------
(* A small instance of Shmtx for TLC. *)
EXTENDS Shmtx
=============================================================================
