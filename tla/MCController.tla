---------------------------- MODULE MCController ----------------------------
(* Controller for TLC.                                                     *)
EXTENDS Controller
=============================================================================
