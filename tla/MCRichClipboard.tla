--------------------------- MODULE MCRichClipboard ---------------------------
(* RichClipboard for TLC.                                                  *)
EXTENDS RichClipboard, TLC
=============================================================================
