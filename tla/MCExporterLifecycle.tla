-------------------------- MODULE MCExporterLifecycle --------------------------
(* Instances of ExporterLifecycle for TLC: an exporter of which serve() is *)
(* called twice, and one with the same address whose router panics.        *)
EXTENDS ExporterLifecycle

MCSocket == [e \in Exporters |-> "0.0.0.0:8080"]

MCOf == [k \in Calls |-> IF k = "typo.1" THEN "typo" ELSE "web"]
===============================================================================
