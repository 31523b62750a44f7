--------------------------- MODULE RecordingStore ---------------------------
(***************************************************************************)
(* What the file table of the cartridge promises, without its blocks: the  *)
(* recordings lie one behind the other on the medium, a new one starts     *)
(* where the last one ends, and after a loss of power the recorder goes on *)
(* behind every recording whose entry had reached the medium.              *)
(* StanagTable implements this specification.                              *)
(***************************************************************************)
EXTENDS Integers, Sequences

CONSTANTS
  ReservedBlocks,   \* first block that holds data
  MaxCount          \* bound: blocks of one recording

VARIABLES
  files,      \* the recordings since the last erase, as [start, count]
  open,       \* is the last recording still being written
  durable     \* what a restart would find on the medium

vars == <<files, open, durable>>

\* The first block behind a sequence of recordings.
End(s) == IF s = <<>> THEN ReservedBlocks
          ELSE s[Len(s)].start + s[Len(s)].count

Init ==
  /\ files \in {<<>>} \cup {<<[start |-> ReservedBlocks, count |-> n]>> : n \in 1..MaxCount}
  /\ open = FALSE
  /\ durable = files

\* A recording starts where the previous one ends.
Open ==
  /\ ~open
  /\ open' = TRUE
  /\ files' = Append(files, [start |-> End(files), count |-> 0])
  /\ UNCHANGED durable

\* The open recording never shrinks.
Grow(n) ==
  /\ open
  /\ n >= files[Len(files)].count
  /\ files' = [files EXCEPT ![Len(files)].count = n]
  /\ UNCHANGED <<open, durable>>

\* A save makes the recordings durable up to some point, never fewer than were.
Save(n) ==
  /\ n >= Len(durable)
  /\ durable' = SubSeq(files, 1, n)
  /\ UNCHANGED <<files, open>>

Close ==
  /\ open
  /\ open' = FALSE
  /\ UNCHANGED <<files, durable>>

\* An erase keeps nothing, or the first file alone.
Erase(n) ==
  /\ ~open
  /\ files' = SubSeq(files, 1, n)
  /\ durable' = files'
  /\ UNCHANGED open

\* Power fails or the cartridge is pulled: what was durable is what is left.
Restart ==
  /\ files' = durable
  /\ open' = FALSE
  /\ UNCHANGED durable

Next ==
  \/ Open \/ Close \/ Restart
  \/ \E n \in 0..MaxCount : Grow(n)
  \/ \E n \in 0..Len(files) : Save(n)
  \/ \E n \in 0..1 : Erase(n)

Spec == Init /\ [][Next]_vars
=============================================================================
