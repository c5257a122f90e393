------------------------ MODULE MCConsoleTimeline ------------------------
(* Two accounts with a room of the same name, one with a second room. The  *)
(* first two messages are of one second, and their sequence numbers run    *)
(* against their hashes.                                                   *)
EXTENDS ConsoleTimeline

CONSTANTS a, b, r, s

Visibility == <<{a}, {a}, {a}, {b}, {a}>>
Places == <<r, r, r, r, s>>
Times == <<1, 1, 2, 3, 3>>
Sequences == <<1, 0, 0, 0, 0>>
===========================================================================
