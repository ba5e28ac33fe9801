------------------------------ MODULE MCFileLog ------------------------------
(* The node and one operator command on one data directory.                *)
EXTENDS FileLog, TLC

CONSTANTS node, cli, a, b, c

(* Processes are interchangeable, and so are requests.                     *)
Symmetry == Permutations(Proc) \cup Permutations(Id)
==============================================================================
