------------------------------ MODULE MCWorkers ------------------------------
(***************************************************************************)
(* Instance of Workers for TLC.                                            *)
(***************************************************************************)
EXTENDS Workers

MCBudgets ==
  { [messages |-> 2, prints |-> 0, failures |-> 0],
    [messages |-> 1, prints |-> 0, failures |-> 1],
    [messages |-> 0, prints |-> 2, failures |-> 1] }
=============================================================================
