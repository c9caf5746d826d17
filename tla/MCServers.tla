----------------------------- MODULE MCServers -----------------------------
(* A small instance of each of the servers for TLC; the layouts of data     *)
(* sets are those of MCLerobotExport.                                       *)
EXTENDS Backends, MCLerobotExport
Inputs == {"all"}
Types == {"quat"}
InputsOf == [r \in Types \cup {"other"} |-> IF r = "other" THEN {} ELSE Inputs]
=============================================================================
