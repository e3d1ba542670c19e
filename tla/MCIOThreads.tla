---------------------------- MODULE MCIOThreads ----------------------------
(* The instance of IOThreads that TLC checks. *)
EXTENDS IOThreads
=============================================================================
