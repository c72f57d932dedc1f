---------------------------- MODULE Applications ----------------------------
(***************************************************************************)
(* The loan applications that the modules of the dashboards and of the     *)
(* bank's pipeline are about, whatever they keep of each.                  *)
(***************************************************************************)
CONSTANTS Apps,
          None   \* the absence of a value
=============================================================================
