-------------------------- MODULE MCSingleInstance --------------------------
(* SingleInstance with three processes: one that runs and two launches     *)
(* that find it.                                                           *)
EXTENDS SingleInstance
=============================================================================
