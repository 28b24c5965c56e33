------------------------------- MODULE MCServer -------------------------------
(***************************************************************************)
(* Model checking Server: one instance for the session and its tasks, one  *)
(* for the timers.                                                         *)
(***************************************************************************)
EXTENDS Server

\* without_ping(), in protobuf.
NoTimers == [json : {FALSE}, ping : {FALSE}, pong : {FALSE}]

\* Pings that expect an answer, in protobuf; and pings that don't, in the
\* encoding that can fail.
Timers == {[json |-> FALSE, ping |-> TRUE, pong |-> TRUE],
           [json |-> TRUE, ping |-> TRUE, pong |-> FALSE]}

=============================================================================
