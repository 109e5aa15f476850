------------------------------- MODULE MCSchema -------------------------------
(***************************************************************************)
(* Two instances that start on a database that is new or was migrated by   *)
(* any earlier version of the application.                                 *)
(***************************************************************************)
EXTENDS Schema

CONSTANTS a, b
=============================================================================
