------------------------------- MODULE MCPings -------------------------------
(* A person, the agent that reports and the owner that works.  Threads of   *)
(* four messages, or of three with a mention, follow, mute, vote, mark or   *)
(* change of focus among them.                                              *)
EXTENDS Pings

CONSTANTS h, a, b

NoName == {{}}
OneName == {{}, {b}}
=============================================================================
