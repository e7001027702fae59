---------------------------- MODULE MCPollTimer -----------------------------
(* A clock that counts 3 nanoseconds to the microsecond and 4 microseconds  *)
(* to the second, so that a wait crosses the end of a second.               *)
EXTENDS PollTimer
=============================================================================
