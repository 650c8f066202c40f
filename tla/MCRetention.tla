----------------------------- MODULE MCRetention -----------------------------
(* Retentions around every bound: negative, less than a second, whole and  *)
(* odd, the longest an int32 of seconds holds, and longer.                 *)
EXTENDS Retention

MCAsked == -3 .. 7
=============================================================================
