------------------------------- MODULE Setups -------------------------------
(***************************************************************************)
(* Setup files and their use: .TMATS WRITE, GET, SAVE and DELETE, a setup  *)
(* by number, the setup file of a cartridge taken over at power up, the    *)
(* TMATS packet at the head of a recording.  One buffer (TmatsGetBuffer)   *)
(* holds what the operator wrote, what he asked to see, what a setup       *)
(* sorted and what a recording begins with.                                *)
(* Left out: the check of the channel ids made in configuration 0 only,    *)
(* and .TMATS READ, which changes nothing.                                 *)
(***************************************************************************)
EXTENDS TmatsFile, FiniteSets

CONSTANTS
  SetupNumbers, \* of setup files: a few of 0..15
  Disks,        \* the setup files a recorder may come with
  Texts,        \* what the operator writes
  Cartridges,   \* setup files of cartridges: [setup, text]
  MaxEdits      \* bound: uses of SAVE and DELETE

Lines == [att : STRING, n : Nat, v : STRING]
NoText == <<[att |-> "none", n |-> 0, v |-> "none"]>>

ASSUME FilesAssumption ==
  /\ 0 \in SetupNumbers /\ SetupNumbers \subseteq 0..15
  /\ Disks \subseteq [SetupNumbers -> Seq(Lines)] /\ Texts \subseteq Seq(Lines)
  /\ \A c \in Cartridges : c.setup \in SetupNumbers /\ c.text \in Seq(Lines)
  /\ Slots \subseteq (Kinds \union {"general", "event", "conversion", "bus"}) \X Nat

VARIABLES
  disk,       \* Setup%d.tmt, NoText for a missing one
  buffer,     \* TmatsGetBuffer
  readable,   \* Tmats_Loaded_To_Read
  loaded,     \* TmatsRecordBuffer while LoadedTmatsFromCartridge, else NoText
  config, counts, arrayTypes, \* as the parser left them: Config, its counts, HealthArrayTypes
  voice,      \* enable bits of the two voice channels
  tmatsLoaded,\* TmatsLoaded
  current,    \* SelectedSetup
  saved,      \* the setup in the settings file
  recorderStatus, \* RecorderStatus, "off" without power
  told,       \* the TMATS packet of the recording
  made,       \* text of the last setup, NoText if that failed
  fresh,      \* nobody has touched the file of that setup since
  edits       \* how often SAVE and DELETE were used

parsed == <<config, counts, arrayTypes>>
filesVars == <<disk, buffer, readable, loaded, parsed, voice, tmatsLoaded, current, saved, recorderStatus,
          told, made, fresh, edits>>

Unset == [s \in Slots |-> Blank]
Untyped == [id \in Ids |-> "none"]

\* What TmatsGet puts before a file: tail number and versions.
Header == <<[att |-> "COM", n |-> 0, v |-> "versions"]>>

FilesInit ==
  /\ disk \in Disks /\ saved \in SetupNumbers
  /\ buffer = <<>> /\ readable = FALSE /\ loaded = NoText
  /\ config = Unset /\ counts = NoChannels /\ arrayTypes = Untyped /\ voice = [i \in 0..1 |-> FALSE]
  /\ tmatsLoaded = FALSE /\ current = 0 /\ recorderStatus = "off"
  /\ told = NoText /\ made = NoText /\ fresh = FALSE /\ edits = 0

Stopped == recorderStatus \in {"IDLE", "ERROR"}

-----------------------------------------------------------------------------
(* A setup.                                                                *)

\* What ProcessTmats clears before it opens the file.
Reset(c) == [c EXCEPT ![<<"general", 0>>] = Without(@, {"ARE", "VOF", "DCD", "RN"})]

\* A file without a channel is taken or not: the result is not set then.
Outcomes(text) ==
  IF text = NoText \/ Refused(text) THEN {FALSE}
  ELSE IF Processed(text, config).n = NoChannels THEN BOOLEAN ELSE {TRUE}

On(c, s) == s \in Slots /\ "CHE" \in DOMAIN c[s] /\ c[s]["CHE"] = "T"

\* SetupHardware goes through the voice channels of this setup only.
SetVoices(c, count) == [i \in 0..1 |-> IF i < count THEN On(c, <<"voice", i>>) ELSE voice[i]]

\* Setup k from a text; ok: it was taken.
Take(text, ok) ==
  LET p == Processed(text, config)
      read == text # NoText /\ ~Refused(text)
  IN  /\ config' = IF read THEN p.config ELSE Reset(config)
      /\ counts' = IF read THEN p.n ELSE counts
      /\ arrayTypes' = IF read THEN p.types ELSE Untyped
      /\ voice' = IF ok THEN SetVoices(p.config, p.n["voice"]) ELSE voice
      /\ made' = IF ok THEN text ELSE NoText
      /\ fresh' = ok

Copied(text) == IF text = NoText \/ Refused(text) THEN <<>> ELSE Sorted(text)

\* ProcessTmats reads the cartridge's text as long as there is one.
Source(k) == IF loaded # NoText THEN loaded ELSE disk[k]

\* .SETUP k: the number is kept whatever comes of it, on file only if it went well.
SetUp(k) ==
  /\ Stopped
  /\ \E ok \in Outcomes(Source(k)) :
       /\ Take(Source(k), ok)
       /\ recorderStatus' = IF ok THEN "IDLE" ELSE "ERROR"
       /\ tmatsLoaded' = (tmatsLoaded \/ ok)
       /\ saved' = IF ok THEN k ELSE saved
  /\ current' = k
  /\ buffer' = Copied(Source(k))
  /\ UNCHANGED <<disk, readable, loaded, told, edits>>

-----------------------------------------------------------------------------
(* Power up and down.                                                      *)

\* M23_ControllerInitialize without a setup file on the cartridge.  The last step
\* sends the file of the current setup to the network.
StartFromDisk ==
  /\ recorderStatus = "off"
  /\ \E ok \in Outcomes(disk[saved]) :
       LET k == IF ok THEN saved ELSE current
       IN  /\ Take(disk[saved], ok)
           /\ tmatsLoaded' = ok
           /\ current' = k
           /\ buffer' = IF disk[k] = NoText THEN Copied(disk[saved]) ELSE Header \o disk[k]
           /\ readable' = (disk[k] # NoText)
  /\ recorderStatus' = "IDLE"
  /\ UNCHANGED <<disk, loaded, saved, told, edits>>

\* M23_LoadTmatsFromRMM: the text is taken and, unless it keeps to the cartridge
\* (RLS.RCS E), saved under its number; from now on every setup is this one.
StartFromCartridge ==
  /\ recorderStatus = "off"
  /\ \E c \in Cartridges :
       /\ \E ok \in Outcomes(c.text) :
            /\ Take(c.text, ok)
            /\ saved' = IF ok THEN c.setup ELSE saved
            /\ current' = IF ok THEN c.setup ELSE current
       /\ loaded' = c.text
       /\ buffer' = Header \o c.text
       /\ disk' = IF ~Refused(c.text) /\ ~HasValue(Visible(c.text), "RLS.RCS", "E")
                  THEN [disk EXCEPT ![c.setup] = c.text] ELSE disk
  /\ readable' = TRUE /\ tmatsLoaded' = TRUE /\ recorderStatus' = "IDLE"
  /\ UNCHANGED <<told, edits>>

PowerOff ==
  /\ recorderStatus # "off"
  /\ recorderStatus' = "off"
  /\ buffer' = <<>> /\ readable' = FALSE /\ loaded' = NoText
  /\ config' = Unset /\ counts' = NoChannels /\ arrayTypes' = Untyped /\ voice' = [i \in 0..1 |-> FALSE]
  /\ tmatsLoaded' = FALSE /\ current' = 0 /\ told' = NoText /\ made' = NoText /\ fresh' = FALSE
  /\ UNCHANGED <<disk, saved, edits>>

-----------------------------------------------------------------------------
(* .TMATS, refused while recording.                                        *)

Write(text) ==
  /\ Stopped
  /\ buffer' = text /\ readable' = TRUE
  /\ UNCHANGED <<disk, loaded, parsed, voice, tmatsLoaded, current, saved, recorderStatus, told, made, fresh,
                 edits>>

\* (Mutant: the file, whatever was loaded.)
FetchedFile(k) == IF disk[k] = NoText THEN NoText ELSE Header \o disk[k]

\* TmatsGet, the result in `text`; NoText if there is no such file.
Fetched(k) == IF Source(k) = NoText THEN NoText ELSE Header \o Source(k)

Got(k) ==
  /\ buffer' = IF Fetched(k) = NoText THEN buffer ELSE Fetched(k)
  /\ readable' = (Fetched(k) # NoText)

Get(k) ==
  /\ Stopped
  /\ Got(k)
  /\ UNCHANGED <<disk, loaded, parsed, voice, tmatsLoaded, current, saved, recorderStatus, told, made, fresh,
                 edits>>

Save(k) ==
  /\ Stopped /\ readable
  /\ edits < MaxEdits /\ edits' = edits + 1
  /\ disk' = [disk EXCEPT ![k] = buffer]
  /\ fresh' = (fresh /\ k # current)
  /\ UNCHANGED <<buffer, readable, loaded, parsed, voice, tmatsLoaded, current, saved, recorderStatus,
                 told, made>>

Delete(k) ==
  /\ Stopped
  /\ disk' = [disk EXCEPT ![k] = NoText]
  /\ edits < MaxEdits /\ edits' = edits + 1
  /\ fresh' = (fresh /\ k # current)
  /\ UNCHANGED <<buffer, readable, loaded, parsed, voice, tmatsLoaded, current, saved, recorderStatus,
                 told, made>>

DeleteAll ==
  /\ Stopped
  /\ disk' = [k \in SetupNumbers |-> NoText]
  /\ edits < MaxEdits /\ edits' = edits + 1
  /\ fresh' = FALSE
  /\ UNCHANGED <<buffer, readable, loaded, parsed, voice, tmatsLoaded, current, saved, recorderStatus,
                 told, made>>

-----------------------------------------------------------------------------
(* A recording begins with the file of the current setup.                  *)

Record ==
  /\ Stopped /\ tmatsLoaded
  /\ Got(current)
  /\ told' = Fetched(current)
  /\ recorderStatus' = "RECORD"
  /\ UNCHANGED <<disk, loaded, parsed, voice, tmatsLoaded, current, saved, made, fresh, edits>>

Stop ==
  /\ recorderStatus = "RECORD"
  /\ recorderStatus' = "IDLE" /\ told' = NoText
  /\ UNCHANGED <<disk, buffer, readable, loaded, parsed, voice, tmatsLoaded, current, saved,
                 made, fresh, edits>>

FilesNext ==
  \/ \E k \in SetupNumbers : SetUp(k) \/ Get(k) \/ Save(k) \/ Delete(k)
  \/ StartFromDisk \/ StartFromCartridge \/ PowerOff
  \/ \E text \in Texts : Write(text)
  \/ DeleteAll \/ Record \/ Stop

FilesSpec == FilesInit /\ [][FilesNext]_filesVars

-----------------------------------------------------------------------------
(* What a text states, read without sorting it.  The tracks of a kind      *)
(* stand in the order of their numbers, a discrete track and the UART of    *)
(* the controller apart; the other lines go by track or by position.       *)

Line(text, i) == Visible(text)[i]
HasLine(text, att, k) ==
  \E i \in DOMAIN Visible(text) : Line(text, i).att = att /\ Line(text, i).n = k
TracksOf(text) ==
  {l.n : l \in {Line(text, i) : i \in {j \in DOMAIN Visible(text) :
     Line(text, j).att = "TK1" /\ HasLine(text, "CDT", Line(text, j).n)}}}
TypeOf(text, k) ==
  Line(text, CHOOSE i \in DOMAIN Visible(text) : Line(text, i).att = "CDT" /\ Line(text, i).n = k).v
SaysTrue(text, att, k) ==
  \E i \in DOMAIN Visible(text) : Line(text, i) = [att |-> att, n |-> k, v |-> "T"]

Use(text, k) ==
  CASE HasLine(text, "DTF", k) \/ HasLine(text, "DMSK", k) -> "dm"
    [] TypeOf(text, k) = "UARTIN" /\ SaysTrue(text, "CUCE", k) -> "uart"
    [] OTHER -> KindOf(TypeOf(text, k))
SlotOf(text, k) ==
  <<Use(text, k), Cardinality({m \in TracksOf(text) : m < k /\ Use(text, m) = Use(text, k)})>>

\* Line l is about track k, which has channel s.
Tells(text, k, s, l) ==
  /\ l.att \in Decoded(IF s[1] = "uart" THEN "pcm" ELSE s[1])
  /\ CASE l.att \in TimePlain -> s[1] = "time"
       [] l.att \in EthernetPlain -> s[1] = "eth"
       [] l.att \in VideoPlaced \union LinkAtts -> l.n = s[2] + 1
       [] OTHER -> l.n = k
States(text, k, att, v) ==
  \E i \in DOMAIN Visible(text) :
    LET l == Visible(text)[i]
    IN  l.att = att /\ l.v = v /\ Tells(text, k, SlotOf(text, k), l)

\* The bus before the external source before the clock of the recorder.
StatedSource(text, k) ==
  IF States(text, k, "TMS.E", "T") THEN "m1553"
  ELSE IF States(text, k, "TSRC", "E") THEN "irig"
  ELSE IF States(text, k, "TSRC", "R") THEN "rmm" ELSE "internal"

Kept == {"TK1", "CHE", "DSI", "TK4"}

\* Channel chan is what the text states of track k.
DecodedAs(use) == IF use = "uart" THEN "pcm" ELSE use
Told(text, k) == {i \in DOMAIN Visible(text) : Tells(text, k, SlotOf(text, k), Line(text, i))}
FieldsTold(text, k) == {Field(DecodedAs(Use(text, k)), Line(text, i).att) : i \in Told(text, k)}
AsStated(text, k, chan) ==
  LET use == Use(text, k)
  IN  /\ \A f \in FieldsTold(text, k) : (use = "uart" => f \in Kept) =>
           /\ f \in DOMAIN chan
           /\ \E i \in Told(text, k) :
                Field(DecodedAs(use), Line(text, i).att) = f /\ Line(text, i).v = chan[f]
      /\ use # "uart" =>
           (Cleared(use) \ {"source"}) \intersect DOMAIN chan \subseteq FieldsTold(text, k)
      /\ use = "time" =>
           StatedSource(text, k) = (IF "source" \in DOMAIN chan THEN chan["source"] ELSE "internal")

-----------------------------------------------------------------------------
(* What the parser takes for granted of a text: every track has one id and  *)
(* one type, which it knows; ids differ; there is one time track and one    *)
(* Ethernet track at most; the lines that tell a discrete channel are about *)
(* 1553 tracks; and the configuration has room for the channels.           *)

ChannelTypes ==
  {"TIMEIN", "ANAIN", "ETHIN", "VIDIN", "1553IN", "DISIN", "PCMIN", "UARTIN", "PULSEIN"}

WellFormedLines(t) ==
  /\ t \in Seq(Lines)
  /\ \A att \in {"TK1", "CDT"} : \A i, j \in Anywhere(t, {att}) : t[i].n = t[j].n => i = j
  /\ \A i, j \in Anywhere(t, {"TK1"}) : t[i].v = t[j].v => i = j
  /\ \A i \in Anywhere(t, {"TK1", "CDT"}) : t[i].n # NoTrack
  /\ \A i \in Anywhere(t, {"CDT"}) :
       t[i].v \in ChannelTypes /\ \E j \in Anywhere(t, {"TK1"}) : t[i].n = t[j].n
  /\ \A kind \in {"time", "eth"} : \A i, j \in CdtsOf(t, kind) : i = j
  /\ \A i \in Anywhere(t, {"DTF", "DMSK"}), j \in Anywhere(t, {"CDT"}) :
       t[i].n = t[j].n => KindOf(t[j].v) = "m1553"
  /\ \A kind \in Kinds : \A i \in DOMAIN Tracks(t, kind) : <<kind, i - 1>> \in Slots

WellFormed(text) == WellFormedLines(Visible(text))

(* What it takes for granted beyond that, when it counts the channels: room *)
(* for each; the tracks of a kind by their numbers, a discrete track the    *)
(* last of its kind and the UART of the controller the first, no other      *)
(* track says it is one; no number that stands for no track; no line the    *)
(* sort leaves out, or that the parser overrules; one time source.          *)

NotCopied(kind) ==
  CASE kind = "voice" -> {"SC"}
    [] kind = "pcm" -> {"CN", "P.IDCB", "P.WWP", "P.WWM", "P.WWB", "P.WWF", "D1D", "FME", "FEC", "MFW3",
                        "CRCE", "RFDS", "TFDS"}
    [] OTHER -> {}

Orderly(text) ==
  LET t == Visible(text)
  IN  /\ \A k \in TracksOf(text) : SlotOf(text, k) \in Slots
      /\ \A kind \in Kinds : \A i, j \in CdtsOf(t, kind) : i < j => t[i].n < t[j].n
      /\ \A i \in DOMAIN t : t[i].n # NoTrack
      /\ \A k, m \in TracksOf(text) :
           /\ Use(text, k) = "dm" /\ KindOf(TypeOf(text, m)) = "m1553" => m <= k
           /\ Use(text, k) = "uart" /\ KindOf(TypeOf(text, m)) = "pcm" => k <= m
      /\ \A i \in Anywhere(t, {"CUCE"}) :
           t[i].v = "T" => \E k \in TracksOf(text) : Use(text, k) = "uart"
      /\ \A k \in TracksOf(text) : \A i \in DOMAIN t :
           t[i].n = k => t[i].att \notin NotCopied(KindOf(TypeOf(text, k)))
      /\ \A k \in TracksOf(text) : TypeOf(text, k) = "UARTIN" /\ Use(text, k) = "pcm" =>
           \A i \in Told(text, k) : t[i].att = "L.D1" => t[i].v = "UART"
      /\ \A i, j \in Anywhere(t, {"TSRC"}) : i = j
      /\ \A i \in Anywhere(t, {"TSRC"}), j \in Anywhere(t, {"TMS.E"}) : ~(t[i].v = "R" /\ t[j].v = "T")

-----------------------------------------------------------------------------
(* Properties.                                                             *)

(* After a setup every track of its file is configured as the file states, *)
(* whatever the order of the lines, and fields with a default that it does *)
(* not state have that default, whatever setups came before.               *)
ConfiguredAsStated ==
  made # NoText => \A k \in TracksOf(made) : AsStated(made, k, config[SlotOf(made, k)])

(* The health thread knows the channels by HealthArrayTypes alone: after a *)
(* setup it has the id of every track with the kind of the channel that    *)
(* has it, and no other id, so that a status word is never read as one of  *)
(* another kind.                                                           *)
TypesAsStated ==
  made # NoText =>
    \A id \in Ids :
      LET of == {k \in TracksOf(made) : States(made, k, "TK1", id)}
      IN  arrayTypes[id] = IF of = {} THEN "none"
                      ELSE LET use == Use(made, CHOOSE k \in of : TRUE)
                           IN  IF use = "dm" THEN "discrete" ELSE use

(* The TMATS packet at the head of a recording describes the channels      *)
(* recorded: it is the text they were set up from, if that setup went well *)
(* and its file is still the same, loaded from the cartridge or not.       *)
RecordedAsConfigured ==
  recorderStatus = "RECORD" /\ fresh => told = Header \o made
=============================================================================
