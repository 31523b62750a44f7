-------------------------- MODULE MCChannelHealth --------------------------
(* Recorders of each kind of board and two setups, of which the second      *)
(* drops the first channel and gives the other ids; the ids ascend with the  *)
(* entries of the array of their kind.  The codes of the PCM channels are    *)
(* those of the first setup, then that of the second.                        *)
EXTENDS ChannelHealth, TLC

MCHwStates ==
  (<<"m1553", 0>> :> {"data", "silent"}) @@ (<<"m1553", 1>> :> {"data", "wrong", "dead"})
  @@ (<<"pcm", 0>> :> {{}, {"clock", "minor"}, {"major", "UART_PARITY"}})
  @@ (<<"pcm", 1>> :> {{}, {"clock"}, {"watch"}})
  @@ (<<"video", 0>> :> {"good", "nosignal", "dead"}) @@ (<<"video", 1>> :> {"good", "nopackets"})
  @@ (<<"time", 0>> :> {"none", "carrier", "sync"})
MCChannel(i, on, included, watch) ==
  [id |-> i, on |-> on, included |-> included, watch |-> watch, source |-> "none"]
MCTwo(kind, a, b) == (<<kind, 0>> :> a) @@ (<<kind, 1>> :> b)
MCTime(source) == <<"time", 0>> :> [MCChannel(1, TRUE, TRUE, FALSE) EXCEPT !.source = source]
MCSite(kind, large, included) ==
  [large |-> large,
   setups |-> {MCTwo(kind, MCChannel(2, TRUE, included, FALSE), MCChannel(3, TRUE, TRUE, TRUE)),
               MCTwo(kind, MCChannel(3, FALSE, TRUE, FALSE), MCChannel(4, TRUE, TRUE, FALSE))}]
MCPcm(included, codes) ==
  [MCSite("pcm", FALSE, included) EXCEPT !.setups =
     {[s \in DOMAIN c |-> [c[s] EXCEPT !.source = codes[IF c[<<"pcm", 0>>].on THEN 1 + s[2] ELSE 3]]] : c \in @}]
MCSites ==
  {MCSite("m1553", FALSE, TRUE), MCSite("m1553", TRUE, TRUE), MCSite("video", FALSE, FALSE),
   MCPcm(FALSE, <<"sync", "nrz", "sync">>), MCPcm(TRUE, <<"uart", "sync", "pulse">>),
   [large |-> FALSE,
    setups |-> {MCTime(source) : source \in {"irig", "gps", "rmm", "bus", "internal"}}]}

ASSUME MCIdsAscend == IdsAscend
=============================================================================
