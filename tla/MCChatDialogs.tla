--------------------------- MODULE MCChatDialogs ---------------------------
(* Three members, of whom one is an administrator, on two pages, and two   *)
(* join requests, of which one fits on the page.                           *)
EXTENDS ChatDialogs, TLC
=============================================================================
