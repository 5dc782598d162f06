------------------------ MODULE MCTransactionEngine ------------------------
(* TransactionEngine for TLC: contents c1 and c2 are valid, c3 has a serial  *)
(* of its own and is rejected by named-checkzone, c4 shares the serial of c1 *)
(* (an operator who forgot to raise it).                                     *)
EXTENDS TransactionEngine, TLC

CONSTANTS c1, c2, c3, c4

MCContent == {c1, c2, c3, c4}
MCValid == {c1, c2, c4}
MCSerial == c1 :> 1 @@ c2 :> 2 @@ c3 :> 3 @@ c4 :> 1

\* The smaller instance: without c4.
FewContent == {c1, c2, c3}
FewValid == {c1, c2}
FewSerial == c1 :> 1 @@ c2 :> 2 @@ c3 :> 3

ApplyCommands == Apply
AllCommands == CommandNames

\* A rollback may end with a file that named has not loaded, and says so.
AgreeingCommands == CommandNames \ {"rollback-commit"}

\* The processes are interchangeable.
Symmetric == Permutations(Procs)
=============================================================================
