----------------------------- MODULE MCAccounts -----------------------------
(* Instances of Accounts for TLC. *)
EXTENDS Accounts, TLC

CONSTANTS r1, r2, r3, a, b, svn, data

(* Numbers with gaps.                                                      *)
Uid(d) == IF d[1] = "CN" THEN 3 ELSE 7
OldNumbers == [d \in {"CN", "UID"} \X Names |-> Uid(d) + (IF d[2] = a THEN 0 ELSE 2)]

SymmetricRequests == Permutations(Requests)
=============================================================================
