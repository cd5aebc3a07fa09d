------------------------------ MODULE MCAggregator ------------------------------
(* Instances of Aggregator for TLC.                                        *)
EXTENDS Aggregator, TLC

CONSTANTS d1, forbidden, absent, none

MCDirs   == {d1}
MCErrorPages == {forbidden}
MCLength == (d1 :> 1) @@ (forbidden :> 1)
===============================================================================
