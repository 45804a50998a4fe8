---------------------------- MODULE MCCsvCommit ----------------------------
(* Instances of CsvCommit for TLC. *)
EXTENDS CsvCommit, TLC

CONSTANTS i1, i2, i3, a, b, c, h, k, d1, d2, s

(* Two runs of one environment and script, and one of another: two of them *)
(* save the same rows in opposite order.                                   *)
ThreeJobs  == i1 :> a @@ i2 :> b @@ i3 :> c
NoneBefore == [i \in Imports |-> {}]
TwoHashes  == a :> h @@ b :> h @@ c :> k
ThreeFiles == i1 :> <<{d1, d2}>> @@ i2 :> <<{d2}, {d1}>> @@ i3 :> <<{d1}, {d2}>>

(* All on one spot. *)
OneSpot == [d \in Data |-> s]

(* One job with two files of results.                                      *)
OneJob    == [i \in Imports |-> a]
InOrder   == i1 :> {} @@ i2 :> {i1}
OneHash   == [j \in Jobs |-> h]
TwoFiles  == i1 :> <<{d1}>> @@ i2 :> <<{d2}>>
=============================================================================
