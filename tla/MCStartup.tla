------------------------------- MODULE MCStartup -------------------------------
(* Instances of Startup for TLC: exports configured with the same address. *)
EXTENDS Startup

MCSocket == [e \in Exporters |-> "0.0.0.0:8080"]
===============================================================================
