----------------------------- MODULE TmatsFile -----------------------------
(***************************************************************************)
(* A setup file (TMATS, M23_Tmats.c) and the configuration made from it.   *)
(* The file is gone through many times: the numbers of the tracks of each  *)
(* kind are collected, then the lines are copied to a second text, sorted  *)
(* by kind and track (ProcessTmats), and that text is parsed track by      *)
(* track (ParseTMATSFile).  A line is what split_line leaves of it: an     *)
(* attribute, the number in its name and the value; R-, V-, P-, B- and C-  *)
(* groups are told apart by the names: "CHE" is R-1\CHE-n, "V.CR" is       *)
(* V-1\VID\V\CR-n, "P.D9" is V-1\..\P\D9-n, "L.D1" is P-n\D1.  Values are  *)
(* opaque; a channel is a function from the fields set to their values.    *)
(***************************************************************************)
EXTENDS Integers, Sequences, SequencesExt, TLC

CONSTANTS
  Slots,        \* entries of the configuration: <<kind, index>>
  Ids           \* channel ids

Kinds == {"time", "voice", "m1553", "video", "eth", "pcm", "dm", "uart"}

KindOf(type) ==
  CASE type = "TIMEIN" -> "time" [] type = "ANAIN" -> "voice" [] type = "ETHIN" -> "eth"
    [] type = "VIDIN" -> "video" [] type \in {"1553IN", "DISIN"} -> "m1553"
    [] type \in {"PCMIN", "UARTIN", "PULSEIN"} -> "pcm"

-----------------------------------------------------------------------------
(* Lines.                                                                  *)

\* get_new_line: an empty line, and one that starts with a space, end the text.
Visible(text) ==
  LET ends == {i \in DOMAIN text : text[i].att = "blank"}
  IN  IF ends = {} THEN text ELSE SubSeq(text, 1, (CHOOSE i \in ends : \A j \in ends : i <= j) - 1)

\* split_line: a line without a value (the program goes on with NULL) or
\* without a backslash is refused, and with it the file.
Refused(text) == \E i \in DOMAIN Visible(text) : Visible(text)[i].att = "bad"

\* The lines of a text at the positions P, in their order: every pass of
\* ProcessTmats goes over the file from its start and copies so.
LinesAt(text, P) ==
  LET taken[i \in 0..Len(text)] ==
        IF i = 0 THEN <<>>
        ELSE IF i \in P THEN Append(taken[i - 1], text[i]) ELSE taken[i - 1]
  IN  taken[Len(text)]

\* The first pass: the tracks of a kind, in the order of their CDT lines.
CdtsOf(text, kind) == {i \in DOMAIN text : text[i].att = "CDT" /\ KindOf(text[i].v) = kind}
Tracks(text, kind) ==
  LET cdts == LinesAt(text, CdtsOf(text, kind))
  IN  [i \in DOMAIN cdts |-> cdts[i].n]

LastTrack(s, none) == IF s = <<>> THEN none ELSE s[Len(s)]
NoTrack == 255

-----------------------------------------------------------------------------
(* ProcessTmats: what is copied for each kind.                             *)

GeneralCopied ==
  {"PN", "106", "RN", "RLS.RCS", "RTS.ETO", "VOF", "DCD", "RIE", "MRC.E", "MRC.ID",
   "MRC.RCT", "MRC.SPM", "MRC.SRM", "RRE", "RID", "DATE", "SO1", "SO2"}
ConversionAtts ==
  {"C.DCN", "C.DCT", "C.DPA", "C.DPTM", "C.DPNO", "C.DP-", "C.DP", "C.MOT1", "C.MOT2"}

\* The positions of the lines of a track, and of those that go without a number,
\* as the pass of each kind compares them.
Own(text, n, copied) == {i \in DOMAIN text : text[i].att \in copied /\ text[i].n = n}
Anywhere(text, copied) == {i \in DOMAIN text : text[i].att \in copied}

GeneralLines(text) == LinesAt(text, Anywhere(text, GeneralCopied \union ConversionAtts))

\* The TK1 line of a track comes first, whatever its place in the file: each kind
\* has a pass of its own for it.
FirstLine(text, n) == LinesAt(text, Own(text, n, {"TK1"}))

TrackLines(text, n, copied) == FirstLine(text, n) \o LinesAt(text, Own(text, n, copied))

\* There is one time track, the last; the lines without a number are its own.
TimeNumbered == {"CHE", "DSI", "CDT", "TK4", "CN"}
TimePlain == {"TFMT", "TSRC", "TMS.E", "TMS.ID", "TMS.FMT", "TMS.TCW", "TMS.WLN",
              "TMS.TWO", "TMS.N", "1PPS"}
TimeLines(text) ==
  LET n == LastTrack(Tracks(text, "time"), NoTrack)
  IN  FirstLine(text, n)
        \o LinesAt(text, Own(text, n, TimeNumbered) \union Anywhere(text, TimePlain))

VoiceCopied == {"CHE", "DSI", "CDT", "TK4", "AGI", "CN", "PGA"}
VoiceLines(text) ==
  FlattenSeq([i \in DOMAIN Tracks(text, "voice") |->
                TrackLines(text, Tracks(text, "voice")[i], VoiceCopied)])

M1553Recorder == {"CHE", "DSI", "DLN", "CDT", "BDLN", "CDLN", "TK4", "DTF", "DMSK"}
M1553Vendor == {"RDF.RTA", "RDF.TR", "RDF.SA", "RDF.FDT", "RDF.N", "B.WWP", "B.WWM",
                "B.WWLI", "CN", "CSM", "IIM"}
M1553Lines(text) ==
  FlattenSeq([i \in DOMAIN Tracks(text, "m1553") |->
                TrackLines(text, Tracks(text, "m1553")[i], M1553Recorder \union M1553Vendor)])

\* The overlay lines of the old form (VO) carry the position of the channel.
VideoRecorder == {"CHE", "DSI", "VED", "VXF", "VST", "VSF", "CBR", "CDT", "TK4"}
VideoOverlay == {"VCO.OET", "VCO.VOE", "VCO.OE", "VCO.OBG", "VCO.VOC", "VCO.OLF", "VCO.X", "VCO.Y"}
VideoPlaced == {"VO.OET", "VO.X", "VO.Y"}
VideoVendor ==
  {"ASI.ASL", "ASI.ASR", "V.CR", "V.VM", "V.VC", "V.VR", "V.VF", "V.VI", "V.AM", "V.AR",
   "V.AG", "V.ASL", "V.ASR", "V.VOS", "V.VOC", "V.VOF", "V.VOP", "V.VOE", "V.LVO", "V.HLE",
   "V.RED", "CN", "IIM"}
VideoLines(text) ==
  FlattenSeq([i \in DOMAIN Tracks(text, "video") |->
    LET n == Tracks(text, "video")[i]
    IN  FirstLine(text, n)
          \o LinesAt(text, Own(text, n, VideoRecorder \union VideoOverlay \union VideoVendor)
                            \union Own(text, i, VideoPlaced))])

EthernetNumbered == {"CHE", "DSI", "CDT", "TK4", "CN"}
EthernetPlain == {"EFM", "EIP", "RIP", "RPN", "EMA", "ECP"}
EthernetLines(text) ==
  LET n == LastTrack(Tracks(text, "eth"), NoTrack)
  IN  FirstLine(text, n)
        \o LinesAt(text, Own(text, n, EthernetNumbered) \union Anywhere(text, EthernetPlain))

PcmRecorder == {"CHE", "DSI", "DLN", "CDT", "PDP", "PWWP", "PWWM", "PWWB", "TK4", "IST",
                "UCR", "UCB", "UCP"}
PcmVendor == {"P.D10", "P.CP4", "P.CP7", "P.MF6", "P.IDCM", "P.D9", "IIM", "CUCE"}
LinkAtts == {"L.D1", "L.D2", "L.D4", "L.D6", "L.F2", "L.SYNC1", "L.SYNC2", "L.SYNC3", "L.MF4",
             "L.MF5", "L.F1", "L.MF1", "L.MF2", "L.MF", "L.IDC1", "L.IDC4", "L.IDC6", "L.DLN"}

\* ContUart: once a CUCE line with T was passed, in whatever track and for good,
\* the P- groups are counted from zero, since the UART of the controller has none.
CountsFromZero(text, pass, at) ==
  \E j \in DOMAIN text : text[j].att = "CUCE" /\ text[j].v = "T" /\ (pass > 1 \/ j < at)

LinkLines(text, pass) ==
  {k \in DOMAIN text : /\ text[k].att \in LinkAtts
                       /\ text[k].n = (IF CountsFromZero(text, pass, k) THEN pass - 1 ELSE pass)}

Separator == <<[att |-> "COM", n |-> 0, v |-> "==="]>>

PcmLines(text) ==
  FlattenSeq([i \in DOMAIN Tracks(text, "pcm") |->
    LET n == Tracks(text, "pcm")[i]
    IN  FirstLine(text, n)
          \o LinesAt(text, Own(text, n, PcmRecorder \union PcmVendor) \union LinkLines(text, i))
          \o Separator])

EventAtts == {"EV.ID", "EV.D", "EV.E", "EV.T", "EV.P", "EV.LC", "EV.MS", "EV.MN", "EV.DLN",
              "EV.CM", "EV.IC", "EV.N"}
IndexAtts == {"IDX.E", "IDX.ICV", "IDX.ITV", "IDX.IT"}
RestLines(text) == LinesAt(text, Anywhere(text, EventAtts \union IndexAtts \union VideoPlaced))

Sorted(text) ==
  LET t == Visible(text)
  IN  GeneralLines(t) \o TimeLines(t) \o VoiceLines(t) \o M1553Lines(t) \o VideoLines(t)
        \o EthernetLines(t) \o Separator \o PcmLines(t) \o RestLines(t)

-----------------------------------------------------------------------------
(* The decoders: the fields an attribute of a kind sets, and those cleared  *)
(* before the lines of a track are read; the others keep what an earlier    *)
(* setup left.                                                              *)

GeneralDecoded == {"PN", "106", "RN", "RLS.RCS", "RTS.ETO", "VOF", "DCD", "MRC.E", "MRC.ID",
                   "MRC.RCT", "MRC.SPM", "MRC.SRM", "RID", "DATE", "SO1", "SO2"}
GeneralCleared == {"RLS.RCS", "RTS.ETO", "VOF", "DCD", "MRC.E", "ARE", "RN", "EV.E", "IDX.E"}
EventCleared == {"EV.ID", "EV.D", "EV.MS", "EV.T", "EV.LC"}

VideoRecorderDecoded == {"TK1", "CHE", "DSI", "VED", "TK4", "VST", "VSF", "CBR"}
OverlayDecoded == {"VO.OET", "VO.X", "VO.Y", "VCO.OET", "VCO.X", "VCO.Y", "VCO.OE", "VCO.OBG",
                   "VCO.VOC", "VCO.OLF"}
VideoVendorDecoded == {"V.CR", "V.VC", "V.VR", "V.VF", "V.VI", "V.AR", "V.AG", "CN", "IIM"}
AudioDecoded == {"ASI.ASL", "ASI.ASR", "V.ASL", "V.ASR"}
VideoOverlayDecoded == {"V.VOE", "V.VOS", "V.VOC", "V.VOF", "V.VOP", "V.LVO"}

\* Two names of one field: the old and the new form of an attribute.
VideoField(att) ==
  CASE att = "V.CR" -> "CBR" [] att = "V.VI" -> "VST" [] att = "V.VF" -> "VSF"
    [] att = "ASI.ASL" -> "V.ASL" [] att = "ASI.ASR" -> "V.ASR" [] att = "CN" -> "TK4"
    [] att = "VCO.OET" -> "VO.OET" [] att = "VCO.X" -> "VO.X" [] att = "VCO.Y" -> "VO.Y"
    [] att = "VCO.OE" -> "V.VOE" [] att = "VCO.OBG" -> "V.VOF"
    [] att \in {"VCO.VOC", "VCO.OLF"} -> "V.VOC"
    [] OTHER -> att
VideoCleared == {"CBR", "VSF", "V.VC", "V.VOS", "V.LVO", "IIM"}
OverlayDefaults == {"V.VOE", "VO.OET", "V.VOC", "V.VOF", "V.VOP", "VO.X", "VO.Y"}

M1553RecorderDecoded == {"TK1", "CHE", "DSI", "BDLN", "CDLN", "TK4", "DTF", "DMSK"}
FilterDecoded == {"RDF.N", "RDF.RTA", "RDF.SA", "RDF.TR", "RDF.FDT"}
M1553VendorDecoded == {"B.WWP", "B.WWM", "B.WWLI", "CN", "CSM", "IIM"}
M1553Cleared == {"B.WWP", "B.WWM", "B.WWLI", "DTF", "RDF.N", "IIM"}
DiscreteDecoded == {"TK1", "CHE", "DSI", "TK4", "DMSK"}

PcmRecorderDecoded == {"TK1", "CHE", "DSI", "PDP", "TK4", "IST", "UCB", "UCR", "UCP"}
PcmFrameDecoded == {"CN", "P.CP7", "P.D9", "P.MF6", "P.IDCM", "P.IDCB", "P.WWP", "P.WWM",
                    "P.WWB", "P.WWF"}
PcmFilterDecoded == {"CUCE", "IIM", "D1D", "FME", "FEC", "MFW3", "CRCE", "RFDS", "TFDS"}
PcmCleared == {"P.WWP", "P.WWM", "P.WWB", "P.WWF", "CUCE", "P.IDCB", "D1D", "P.D9", "FME",
               "CRCE", "RFDS", "TFDS", "MFW3", "IIM"}

VoiceDecoded == {"TK1", "CHE", "DSI", "TK4", "AGI", "CN", "SC", "PGA"}

EthernetDecoded == {"TK1", "CHE", "DSI"} \union EthernetPlain
EthernetCleared == {"EFM", "EMA", "EIP", "ECP"}

TimeDecoded == {"TK1", "CHE", "DSI", "TFMT", "TSRC", "TK4", "CN", "TMS.E", "TMS.ID", "TMS.FMT",
                "TMS.TCW", "TMS.WLN", "TMS.TWO", "TMS.N"}

Decoded(kind) ==
  CASE kind = "video" -> VideoRecorderDecoded \union OverlayDecoded \union VideoVendorDecoded
                           \union AudioDecoded \union VideoOverlayDecoded
    [] kind = "m1553" -> M1553RecorderDecoded \union FilterDecoded \union M1553VendorDecoded
    [] kind = "dm" -> DiscreteDecoded
    [] kind = "pcm" -> PcmRecorderDecoded \union PcmFrameDecoded \union PcmFilterDecoded
                         \union LinkAtts
    [] kind = "voice" -> VoiceDecoded
    [] kind = "eth" -> EthernetDecoded
    [] kind = "time" -> TimeDecoded

Cleared(kind) ==
  CASE kind = "video" -> VideoCleared \union OverlayDefaults
    [] kind = "m1553" -> M1553Cleared [] kind = "dm" -> {"DMSK"}
    [] kind = "pcm" -> PcmCleared [] kind = "voice" -> {"AGI"}
    [] kind = "eth" -> EthernetCleared [] kind = "time" -> {"source"}

Field(kind, att) ==
  CASE kind = "video" -> VideoField(att)
    [] kind = "voice" /\ att = "PGA" -> "AGI"
    [] kind = "m1553" /\ att = "CDLN" -> "BDLN"
    [] att = "CN" -> "TK4"
    [] OTHER -> att

With(chan, field, v) == [f \in DOMAIN chan \union {field} |-> IF f = field THEN v ELSE chan[f]]
Without(chan, fields) == [f \in DOMAIN chan \ fields |-> chan[f]]

\* The external source stands back behind the bus, the cartridge does not.
TimeSourceSet(chan, l) ==
  LET source == IF "source" \in DOMAIN chan THEN chan["source"] ELSE "internal"
  IN  CASE l.att = "TMS.E" /\ l.v = "T" -> With(chan, "source", "m1553")
        [] l.att = "TSRC" /\ l.v = "E" /\ source # "m1553" -> With(chan, "source", "irig")
        [] l.att = "TSRC" /\ l.v = "R" -> With(chan, "source", "rmm")
        [] OTHER -> chan

\* One loop over the lines per kind, Decode_VideoChannel to Decode_VoiceChannel,
\* each with its own comparisons and its own fields to clear.
DecodeLine(kind, chan, l) ==
  IF l.att \notin Decoded(kind) THEN chan
  ELSE With(IF kind = "time" THEN TimeSourceSet(chan, l) ELSE chan, Field(kind, l.att), l.v)

DecodeLines(kind, chan, block) ==
  LET after[i \in 0..Len(block)] ==
        IF i = 0 THEN chan ELSE DecodeLine(kind, after[i - 1], block[i])
  IN  after[Len(block)]

\* (As a mutant of it, DecodeLines: nothing is cleared before a track is read.)
Decode(kind, chan, block) == DecodeLines(kind, Without(chan, Cleared(kind)), block)

-----------------------------------------------------------------------------
(* ParseTMATSFile.                                                         *)

Blank == << >>
NoChannels == [kind \in Kinds |-> 0]

Ends(l) == l.att \in {"TK1", "COM"} \union EventAtts \union IndexAtts

\* The lines of the track that starts at i.
Block(text, i) ==
  LET ends == {j \in (i + 1)..Len(text) : Ends(text[j])}
  IN  SubSeq(text, i, IF ends = {} THEN Len(text)
                      ELSE (CHOOSE j \in ends : \A k \in ends : j <= k) - 1)

\* The type is the next CDT line's; sorting puts the track's own there.
LookAhead(text, i) ==
  LET cdts == {j \in (i + 1)..Len(text) : text[j].att = "CDT"}
  IN  text[CHOOSE j \in cdts : \A k \in cdts : j <= k].v

HasValue(block, att, v) == \E i \in DOMAIN block : block[i].att = att /\ block[i].v = v
Has(block, att) == \E i \in DOMAIN block : block[i].att = att

\* (Mutant: a discrete channel is taken for a 1553 channel.)
CountedAsBus(p, kind, id) ==
  [p EXCEPT !.n[kind] = @ + 1, !.types[id] = IF kind = "dm" THEN "m1553" ELSE kind]

\* A parse in progress: the configuration, the channels of each kind so far and
\* HealthArrayTypes.
Counted(p, kind, id) ==
  [p EXCEPT !.n[kind] = @ + 1, !.types[id] = IF kind = "dm" THEN "discrete" ELSE kind]

\* What the UART of the controller takes from a PCM channel.
TakenOver(chan, uart) ==
  LET fields == {"TK1", "CHE", "DSI", "TK4"} \intersect DOMAIN chan
  IN  [f \in fields \union DOMAIN uart |-> IF f \in fields THEN chan[f] ELSE uart[f]]

\* The entry after the last 1553 channel is used for the discretes, too.
DecodeM1553(p, block) ==
  LET slot == <<"m1553", p.n["m1553"]>>
      discrete == Has(block, "DTF") \/ Has(block, "DMSK")
      c == [p.config EXCEPT ![slot] = Decode("m1553", @, block),
                            ![<<"dm", 0>>] = Decode("dm", @, block)]
  IN  Counted([p EXCEPT !.config = c], IF discrete THEN "dm" ELSE "m1553", c[slot]["TK1"])

DecodePcm(p, block, type) ==
  LET slot == <<"pcm", p.n["pcm"]>>
      chan == Decode("pcm", p.config[slot], block)
      uart == type = "UARTIN"
      own == HasValue(block, "CUCE", "T")
      code == IF uart /\ ~own THEN With(chan, "L.D1", "UART") ELSE chan
      c == [p.config EXCEPT ![slot] = code,
              ![<<"uart", 0>>] = IF uart /\ own THEN TakenOver(chan, @) ELSE @]
  IN  Counted([p EXCEPT !.config = c], IF uart /\ own THEN "uart" ELSE "pcm", chan["TK1"])

DecodeBlock(p, block, type) ==
  LET kind == KindOf(type)
      slot == <<kind, IF kind \in {"time", "eth"} THEN 0 ELSE p.n[kind]>>
  IN  CASE kind = "m1553" -> DecodeM1553(p, block)
        [] kind = "pcm" -> DecodePcm(p, block, type)
        [] OTHER -> LET c == [p.config EXCEPT ![slot] = Decode(kind, @, block)]
                    IN  Counted([p EXCEPT !.config = c], kind, c[slot]["TK1"])

DecodeBlocks(text, p) ==
  LET after[i \in 0..Len(text)] ==
        IF i = 0 THEN p
        ELSE IF text[i].att = "TK1"
             THEN DecodeBlock(after[i - 1], Block(text, i), LookAhead(text, i))
             ELSE after[i - 1]
  IN  after[Len(text)]

\* The buses are read from the file itself, past the sorted text.
BusAtts == {"B.BNA", "B.NMS", "B.TRM", "B.STA", "B.TRA", "B.DWC", "B.MN", "B.MT", "B.MTO",
            "B.MBM", "B.MWN", "B.NML", "B.MFP"}

\* Settings, conversions, events and buses: one entry each, by the number.
EntryOf(l) ==
  CASE l.att \in GeneralDecoded \union IndexAtts \union {"ARE", "EV.E", "EV.N"} -> <<"general", 0>>
    [] l.att \in EventAtts \ {"EV.E", "EV.N"} -> <<"event", l.n>>
    [] l.att \in ConversionAtts -> <<"conversion", l.n>>
    [] l.att \in BusAtts -> <<"bus", l.n>>
    [] OTHER -> <<"none", 0>>

Entered(config, l) ==
  IF EntryOf(l) \in Slots THEN [config EXCEPT ![EntryOf(l)] = With(@, l.att, l.v)] ELSE config

Settle(config, lines) ==
  LET after[i \in 0..Len(lines)] ==
        IF i = 0 THEN config ELSE Entered(after[i - 1], lines[i])
  IN  after[Len(lines)]

BusLines(config, text) == Settle(config, LinesAt(text, Anywhere(text, BusAtts)))

ClearedSettings(config) ==
  [s \in DOMAIN config |->
     CASE s[1] = "general" -> Without(config[s], GeneralCleared)
       [] s[1] = "event" -> Without(config[s], EventCleared)
       [] OTHER -> config[s]]

Parsed(text, config, count) ==
  DecodeBlocks(text,
    [config |-> Settle(ClearedSettings(config), text), n |-> count,
     types |-> [id \in Ids |-> "none"]])

ParseTMATSFile(text, config) == Parsed(text, config, NoChannels)

\* ProcessTmats of a file that can be read.  The auto record line is looked for
\* in the file itself.
Processed(text, config) ==
  LET t == Visible(text)
      auto == LinesAt(t, {i \in DOMAIN t : t[i].att = "ARE" /\ t[i].v = "T"})
      p == ParseTMATSFile(Sorted(text), BusLines(config, t))
  IN  [p EXCEPT !.config = Settle(@, auto)]
=============================================================================
