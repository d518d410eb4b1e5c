----------------------------- MODULE MCClipboard -----------------------------
(* Clipboard for TLC.                                                      *)
EXTENDS Clipboard, TLC
=============================================================================
