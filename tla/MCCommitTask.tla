---------------------------- MODULE MCCommitTask ----------------------------
(* Instances of CommitTask for TLC. *)
EXTENDS CommitTask, TLC

CONSTANTS t1, t2, t3, n, k, l, c, dn, dk, opendap, kml

(* A job that was delivered twice, and another of the same repository that *)
(* has a KML file of the same name, a NetCDF and a CSV file.               *)
Deliveries == t1 :> {k} @@ t2 :> {k} @@ t3 :> {l, n, c}
FileKind   == n :> "netcdf" @@ k :> "kml" @@ l :> "kml" @@ c :> "csv"
FileDest   == n :> dn @@ k :> dk @@ l :> dk @@ c :> dn
DestDir    == dn :> opendap @@ dk :> kml
=============================================================================
