---------------------------- MODULE MCPollCycle ----------------------------
(* Two sources whose stamps coincide, two selections, two changes of each   *)
(* document; the streak of 401s is bad at three and saturates at five.      *)
EXTENDS PollCycle
=============================================================================
