------------------------------ MODULE MCSessions ------------------------------
(* A keyboard, its twin and the output of a managed configuration.         *)
EXTENDS Sessions

MCIdentity == [kb |-> "serial", twin |-> "serial", sink |-> "virtual"]
MCTopology == [kb |-> "port1", twin |-> "port2", sink |-> "virtual"]
MCPlugged  == [kb |-> "n1", twin |-> None, sink |-> "n2"]
=============================================================================
