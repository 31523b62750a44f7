------------------------------ MODULE MCSetups ------------------------------
(* Small setup files for Setups.  Each has the lines of one or two tracks   *)
(* turned round and reversed, as long as the tracks of a kind stand by their *)
(* numbers.                                                                *)
EXTENDS Setups

L(att, k, v) == [att |-> att, n |-> k, v |-> v]

MCTime == <<L("TK1", 1, "1"), L("CDT", 1, "TIMEIN"), L("CHE", 1, "T"), L("TSRC", 0, "E"),
           L("TMS.E", 0, "T")>>
MCVoices == <<L("TK1", 2, "2"), L("CDT", 2, "ANAIN"), L("TK1", 3, "3"), L("CDT", 3, "ANAIN"),
             L("CHE", 3, "T")>>
MCBuses == <<L("TK1", 4, "4"), L("CDT", 4, "1553IN"), L("CHE", 4, "T"), L("TK1", 5, "5"),
            L("CDT", 5, "DISIN"), L("DTF", 5, "D")>>
MCVideo == <<L("TK1", 6, "6"), L("CDT", 6, "VIDIN"), L("V.CR", 6, "3M"), L("VO.X", 1, "8"),
            L("EV.T", 1, "E")>>
MCPcm == <<L("TK1", 7, "7"), L("CDT", 7, "UARTIN"), L("CUCE", 7, "T"), L("TK1", 8, "8"),
          L("CDT", 8, "PCMIN"), L("L.D1", 1, "NRZ-L")>>
MCEthernet == <<L("TK1", 9, "9"), L("CDT", 9, "ETHIN"), L("EIP", 0, "10.0.0.1"), L("ARE", 0, "T"),
               L("B.BNA", 1, "bus")>>

\* CDT lines of one kind in the order of the tracks.
MCInOrder(text) ==
  \A i, j \in DOMAIN text :
    text[i].att = "CDT" /\ text[j].att = "CDT" /\ KindOf(text[i].v) = KindOf(text[j].v)
      => (text[i].n < text[j].n => i < j)
MCOrders(lines) ==
  LET turned(k) == [i \in DOMAIN lines |-> lines[1 + ((i + k) % Len(lines))]]
  IN  {text \in {turned(k) : k \in {1, 3}} \union {Reverse(turned(k)) : k \in {2, 4}} :
         MCInOrder(text)}

MCSlots == {<<"time", 0>>, <<"voice", 0>>, <<"voice", 1>>, <<"m1553", 0>>, <<"m1553", 1>>,
            <<"dm", 0>>, <<"video", 0>>, <<"pcm", 0>>, <<"pcm", 1>>, <<"uart", 0>>, <<"eth", 0>>,
            <<"general", 0>>, <<"event", 1>>, <<"bus", 1>>}
MCIds == {"1", "2", "3", "4", "5", "6", "7", "8", "9"}

\* Another file, of one voice channel and a PCM channel with a bit rate.
MCOther == <<L("TK1", 2, "2"), L("CDT", 2, "ANAIN"), L("CHE", 2, "T"), L("AGI", 2, "800"),
             L("TK1", 8, "8"), L("CDT", 8, "PCMIN"), L("L.D2", 1, "1000")>>
\* A file without channels, and one with a line without a value.
MCPlain == <<L("PN", 0, "program")>>
MCBad == <<L("TK1", 1, "1"), L("bad", 0, "")>>

MCDisks ==
  {[k \in {0, 1} |-> IF k = 0 THEN text ELSE MCOther] :
     text \in UNION {MCOrders(t) : t \in {MCTime, MCVoices, MCBuses, MCVideo, MCPcm, MCEthernet}}}
MCTexts == {MCPlain, MCBad}
MCCartridges ==
  {[setup |-> 1, text |-> <<L("TK1", 3, "3"), L("CDT", 3, "ANAIN"), L("CHE", 3, "F")>>]}

\* Every text the channels may be set up from is one the parser expects.
MCExpected(text) == WellFormed(text) /\ Orderly(text)
ASSUME TextsAreExpected ==
  /\ \A d \in MCDisks : \A k \in DOMAIN d :
       MCExpected(d[k]) /\ MCExpected(Sorted(d[k])) /\ MCExpected(Header \o d[k])
  /\ \A c \in MCCartridges : MCExpected(c.text)
  /\ \A text \in MCTexts : Refused(text) \/ MCExpected(text)
=============================================================================
