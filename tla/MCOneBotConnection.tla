------------------------ MODULE MCOneBotConnection ------------------------
(* Two accounts.                                                           *)
EXTENDS OneBotConnection

CONSTANTS r1, r2
=============================================================================
