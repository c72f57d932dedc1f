------------------------------ MODULE Database ------------------------------
(***************************************************************************)
(* The database (external), as far as it is left open: whether a request   *)
(* that writes a row that has changed since its snapshot fails (MariaDB    *)
(* with innodb_snapshot_isolation) or writes all the same.                 *)
(***************************************************************************)
CONSTANT SnapshotConflicts

ASSUME DatabaseAssumption == SnapshotConflicts \in BOOLEAN
=============================================================================
