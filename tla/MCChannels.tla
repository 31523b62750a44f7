----------------------------- MODULE MCChannels -----------------------------
(* Three sets of boards and two setups for Channels: the second swaps the ids *)
(* of a PCM and a video channel and drops a 1553 channel and the video.     *)
EXTENDS Channels

MCSlots ==
  {<<"time", 0>>, <<"voice", 0>>, <<"m1553", 0>>, <<"m1553", 1>>, <<"pcm", 0>>, <<"video", 0>>}
MCId(pcm, video) == [s \in MCSlots |->
  CASE s[1] = "time" -> 1 [] s[1] = "voice" -> 2 [] s[1] = "m1553" -> 4 + s[2]
    [] s[1] = "pcm" -> pcm [] s[1] = "video" -> video]
MCSetup(ids, off) == [s \in MCSlots |-> [id |-> ids[s], on |-> s \notin off]]
MCSetups ==
  {MCSetup(MCId(6, 7), {}), MCSetup(MCId(7, 6), {<<"m1553", 1>>, <<"video", 0>>})}
MCBoardLists ==
  {<<"M1553_8", "PCM_4", "VIDEO">>, <<"M1553_4", "PCM_4">>, <<"PCM_8", "M1553_8">>}
ASSUME MCPublishable == IdsOfOneKind /\ OneSize

MCRequests == {{1, 5}, {7}, {4, 0}}
=============================================================================
