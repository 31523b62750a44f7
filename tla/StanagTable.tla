----------------------------- MODULE StanagTable -----------------------------
(***************************************************************************)
(* The file table of the cartridge (STANAG 4575 directory, M23_Stanag.c):  *)
(* an array of blocks with a few entries each, held in memory and written  *)
(* to the cartridge two blocks at a time, and the counters that say where  *)
(* the next recording and the next entry go.  The handlers are those one   *)
(* thread at a time calls: open, root update, close, erase, mount; power   *)
(* may fail and the cartridge may be pulled between any two steps, the two *)
(* disk writes of one update included.                                     *)
(***************************************************************************)
EXTENDS Integers, Sequences, FiniteSets

CONSTANTS
  EntriesPerBlock,   \* MAX_NUM_FILES_IN_STANAG_BLOCK
  MaxStanagBlocks,   \* MAX_STANAG_BLOCKS
  ReservedBlocks,    \* RESERVED_BLOCKS: system block and table, then the data
  BlockSize,         \* BLOCK_SIZE
  MaxBytes,          \* bound: bytes of one recording
  FileLimit,         \* bound: recordings between two erases
  MaxUnstored        \* bound: recordings in a row none of whose roots arrived

ASSUME GeometryAssumption ==
  /\ EntriesPerBlock \in Nat \ {0}
  /\ MaxStanagBlocks \in Nat \ {0}
  /\ ReservedBlocks \in Nat
  /\ BlockSize \in Nat \ {0}
ASSUME BoundAssumption ==
  /\ MaxBytes \in Nat
  /\ FileLimit \in Nat
  /\ FileLimit <= MaxStanagBlocks * EntriesPerBlock
  /\ MaxUnstored \in Nat

VARIABLES
  fileTable,              \* FileTable[k].STANAG_FileEntries, in memory
  numberOfFilesEntries,   \* FileTable[k].STANAG_NumberOfFilesEntries, in memory
  diskTable,              \* the same two on the cartridge
  diskEntries,
  currentFileNumber,      \* CurrentFileNumber: entries closed so far
  currentFileState,       \* CurrentFileState: "open" (0) or "closed" (1)
  currentWriteBlock,      \* CurrentWriteBlock
  totalBytesWritten,      \* TotalBytesWritten
  numberOfBlocksWritten,  \* NumberOfBlocksWritten
  keepsSetup,             \* LoadedTmatsFromCartridge and not CH10_TMATS
  present,                \* the cartridge is in its bay
  pending,                \* table blocks FileStoreFileTable has still to write
  stored,                 \* an update of the open recording was begun
  unstored                \* recordings closed since the last begun update

memory  == <<fileTable, numberOfFilesEntries>>
disk    == <<diskTable, diskEntries>>
counter == <<currentFileNumber, currentFileState, currentWriteBlock>>
sizes   == <<totalBytesWritten, numberOfBlocksWritten>>
history == <<stored, unstored>>
vars == <<memory, disk, counter, sizes, keepsSetup, present, pending, history>>

Blocks == 0..(MaxStanagBlocks - 1)
Slots  == 0..(EntriesPerBlock - 1)
Entry  == [start : Int, count : Int]
Unused == [start |-> -1, count |-> -1]      \* the eight bytes 0xFF

CeilBlocks(bytes) == (bytes + BlockSize - 1) \div BlockSize
EndOf(e) == e.start + e.count

BlankTable == [k \in Blocks |-> [j \in Slots |-> Unused]]
NoEntries  == [k \in Blocks |-> 0]

\* The block of the table that CurrentFileNumber selects, and its last entry.
TableBlock == currentFileNumber \div EntriesPerBlock
LastSlot == numberOfFilesEntries[TableBlock] - 1

-----------------------------------------------------------------------------
\* sinit and FileRetrieveFileTable: what is found on the cartridge decides
\* where the next recording goes.  The loop sums up the entries until the first
\* block that has none; its writing position is the end of one entry of the
\* block before, the one the sum selects; with no such block it stays where
\* sinit put it.
FirstEmptyBlock(num) ==
  IF \E k \in Blocks : num[k] = 0
  THEN CHOOSE k \in Blocks : num[k] = 0 /\ \A i \in 0..(k-1) : num[i] # 0
  ELSE MaxStanagBlocks

\* (Mutant: the number of the last entry in place of the number of entries.)
RecoveredLast(num) ==
  Cardinality({p \in Blocks \X Slots : p[1] < FirstEmptyBlock(num) /\ p[2] < num[p[1]]}) - 1

\* The sum of the entry counts up to there, as a number of used slots.
RecoveredNumber(num) ==
  Cardinality({p \in Blocks \X Slots : p[1] < FirstEmptyBlock(num) /\ p[2] < num[p[1]]})

RecoveredWriteBlock(table, num) ==
  LET j == FirstEmptyBlock(num)
  IN  IF j = 0 \/ j = MaxStanagBlocks THEN ReservedBlocks
      ELSE EndOf(table[j-1][(RecoveredNumber(num) - 1) % EntriesPerBlock])

-----------------------------------------------------------------------------
\* A blank cartridge, or one whose only file is the recorder's setup.
SetupEntry(n) == [start |-> ReservedBlocks, count |-> n]

Init ==
  /\ \/ fileTable = BlankTable /\ numberOfFilesEntries = NoEntries
     \/ /\ \E n \in 1..CeilBlocks(MaxBytes) : fileTable = [BlankTable EXCEPT ![0][0] = SetupEntry(n)]
        /\ numberOfFilesEntries = [NoEntries EXCEPT ![0] = 1]
  /\ keepsSetup \in {FALSE, numberOfFilesEntries[0] = 1}
  /\ diskTable = fileTable
  /\ diskEntries = numberOfFilesEntries
  /\ currentFileNumber = numberOfFilesEntries[0]
  /\ currentFileState = "closed"
  /\ currentWriteBlock = IF currentFileNumber = 1 THEN EndOf(fileTable[0][0])
                         ELSE ReservedBlocks
  /\ totalBytesWritten = 0
  /\ numberOfBlocksWritten = 0
  /\ present = TRUE
  /\ pending = <<>>
  /\ stored = FALSE
  /\ unstored = 0

\* sopen: the next free entry of the selected block, at the writing position.
\* Nothing is written to the cartridge yet.  (RecordFile opens only when the
\* disk is connected.)
SOpen ==
  /\ present /\ pending = <<>>
  /\ currentFileState = "closed"
  /\ currentFileNumber < FileLimit
  /\ currentFileState' = "open"
  /\ LET k == TableBlock
         n == numberOfFilesEntries[k]
     IN  /\ numberOfFilesEntries' = [numberOfFilesEntries EXCEPT ![k] = n + 1]
         /\ fileTable' = [fileTable EXCEPT
                            ![k][n] = [start |-> currentWriteBlock, count |-> 0]]
  /\ totalBytesWritten' = 0
  /\ numberOfBlocksWritten' = 0
  /\ stored' = FALSE
  /\ UNCHANGED <<disk, currentFileNumber, currentWriteBlock, keepsSetup,
                 present, pending, unstored>>

\* (Mutants: the current block alone; the current block first.)
StoreCurrent(k) == <<k>>
StoreBackwards(k) == IF k # 0 THEN <<k, k - 1>> ELSE <<k>>

\* FileStoreFileTable: the block before the current one first, "to get the
\* latest information", then the current one.
StoreOrder(k) == IF k # 0 THEN <<k - 1, k>> ELSE <<k>>

\* UpdateStanag(0): size and block count of the last entry, then the store.
UpdateStanag(bytes) ==
  /\ totalBytesWritten' = bytes
  /\ fileTable' = [fileTable EXCEPT ![TableBlock][LastSlot].count = CeilBlocks(bytes)]
  /\ pending' = StoreOrder(TableBlock)
  /\ stored' = TRUE
  /\ unstored' = 0

\* UpdateStanagBlocks: a root packet (of the control loop or the last one, of
\* Stop) says how many bytes are recorded.
UpdateStanagBlocks ==
  /\ present /\ pending = <<>>
  /\ currentFileState = "open"
  /\ \E bytes \in 1..MaxBytes :
       /\ bytes >= totalBytesWritten
       /\ UpdateStanag(bytes)
       /\ numberOfBlocksWritten' = CeilBlocks(bytes)
  /\ UNCHANGED <<numberOfFilesEntries, disk, counter, keepsSetup, present>>

\* UpdateStanagAndBlocks: without index packets the control loop takes the
\* number of blocks the FireWire logic has recorded.
UpdateStanagAndBlocks ==
  /\ present /\ pending = <<>>
  /\ currentFileState = "open"
  /\ \E blocks \in 0..(MaxBytes \div BlockSize) :
       /\ blocks * BlockSize >= totalBytesWritten
       /\ UpdateStanag(blocks * BlockSize)
       /\ numberOfBlocksWritten' = blocks
  /\ UNCHANGED <<numberOfFilesEntries, disk, counter, keepsSetup, present>>

\* One DiskWrite of FileStoreFileTable.
WriteTableBlock ==
  /\ present /\ pending # <<>>
  /\ LET k == Head(pending)
     IN  /\ diskTable' = [diskTable EXCEPT ![k] = fileTable[k]]
         /\ diskEntries' = [diskEntries EXCEPT ![k] = numberOfFilesEntries[k]]
  /\ pending' = Tail(pending)
  /\ UNCHANGED <<memory, counter, sizes, keepsSetup, present, history>>

\* Emergency_Close, the end of Stop: counts the entry and moves the writing
\* position behind it.  It writes nothing to the cartridge.
EmergencyClose ==
  /\ pending = <<>>
  /\ currentFileState = "open"
  /\ stored \/ unstored < MaxUnstored
  /\ currentFileState' = "closed"
  /\ currentFileNumber' = currentFileNumber + 1
  /\ currentWriteBlock' = currentWriteBlock + CeilBlocks(totalBytesWritten)
  /\ totalBytesWritten' = 0
  /\ numberOfBlocksWritten' = 0
  /\ unstored' = IF stored THEN unstored ELSE unstored + 1
  /\ UNCHANGED <<memory, disk, keepsSetup, present, pending, stored>>

\* (Mutant: the blocks are cleared, the counter is not.)
EraseAllButNumber ==
  /\ ~keepsSetup
  /\ fileTable' = BlankTable
  /\ numberOfFilesEntries' = NoEntries
  /\ currentFileNumber' = currentFileNumber
  /\ currentWriteBlock' = ReservedBlocks

\* serase without a setup file to keep: blank table, blank cartridge.
EraseAll ==
  /\ ~keepsSetup
  /\ fileTable' = BlankTable
  /\ numberOfFilesEntries' = NoEntries
  /\ currentFileNumber' = 0
  /\ currentWriteBlock' = ReservedBlocks

\* serase with one (InitializeStanagErase): entry 0 stays and the whole table
\* is written.
EraseButSetup ==
  /\ keepsSetup
  /\ fileTable' = [BlankTable EXCEPT ![0][0] =
                      [start |-> ReservedBlocks, count |-> fileTable[0][0].count]]
  /\ numberOfFilesEntries' = [NoEntries EXCEPT ![0] = 1]
  /\ currentFileNumber' = 1
  /\ currentWriteBlock' = ReservedBlocks + fileTable[0][0].count

\* The cartridge completes an erase it has begun (see the README).
SErase ==
  /\ present /\ pending = <<>>
  /\ currentFileState = "closed"       \* Erase: only when idle
  /\ EraseAll \/ EraseButSetup
  /\ diskTable' = fileTable'
  /\ diskEntries' = numberOfFilesEntries'
  /\ unstored' = 0
  /\ UNCHANGED <<currentFileState, sizes, keepsSetup, present, pending, stored>>

\* sinit, once the cartridge is there: everything comes from the cartridge.
SInit ==
  /\ fileTable' = diskTable
  /\ numberOfFilesEntries' = diskEntries
  /\ currentFileNumber' = RecoveredNumber(diskEntries)
  /\ currentWriteBlock' = RecoveredWriteBlock(diskTable, diskEntries)
  /\ currentFileState' = "closed"
  /\ present' = TRUE
  /\ pending' = <<>>
  /\ stored' = FALSE
  /\ unstored' = 0
  /\ UNCHANGED <<disk, keepsSetup>>

\* Power fails and comes back: the static variables start from zero.
PowerCycle ==
  /\ present
  /\ SInit
  /\ totalBytesWritten' = 0
  /\ numberOfBlocksWritten' = 0

\* The cartridge is pulled, whatever the recorder is doing: the disk write under
\* way fails, Removal_Stop leaves the table and its counters as they are.
Remove ==
  /\ present
  /\ present' = FALSE
  /\ pending' = <<>>
  /\ UNCHANGED <<memory, disk, counter, sizes, keepsSetup, history>>

\* Mount of the same cartridge: sinit leaves the sizes of the lost recording.
Mount ==
  /\ ~present
  /\ SInit
  /\ UNCHANGED sizes

Next ==
  \/ SOpen \/ UpdateStanagBlocks \/ UpdateStanagAndBlocks \/ WriteTableBlock
  \/ EmergencyClose \/ SErase
  \/ PowerCycle \/ Remove \/ Mount

Spec == Init /\ [][Next]_vars

-----------------------------------------------------------------------------
(* Properties.                                                             *)

\* Types and bounds of the state.
TypeOK ==
  /\ fileTable \in [Blocks -> [Slots -> Entry]]
  /\ diskTable \in [Blocks -> [Slots -> Entry]]
  /\ numberOfFilesEntries \in [Blocks -> Nat]
  /\ diskEntries \in [Blocks -> Nat]
  /\ currentFileNumber \in Nat
  /\ currentFileState \in {"open", "closed"}
  /\ currentWriteBlock \in Int
  /\ totalBytesWritten \in Nat
  /\ numberOfBlocksWritten \in Nat
  /\ keepsSetup \in BOOLEAN
  /\ present \in BOOLEAN
  /\ pending \in Seq(Blocks)
  /\ stored \in BOOLEAN
  /\ unstored \in Nat

\* The number of entries begun since the last erase.
Opened == IF currentFileState = "open" THEN currentFileNumber + 1
          ELSE currentFileNumber

\* How many of n entries fall in block k when the blocks are filled in order.
FilledOf(n, k) ==
  IF n <= k * EntriesPerBlock THEN 0
  ELSE IF n >= (k + 1) * EntriesPerBlock THEN EntriesPerBlock
  ELSE n - k * EntriesPerBlock

EntryAt(table, i) == table[i \div EntriesPerBlock][i % EntriesPerBlock]

\* CurrentFileNumber (which selects the block of an entry) and the entry counts
\* of the blocks (which select its slot) are two counters kept apart: whatever
\* opens, closes, erases and restarts happen, they agree on where every entry is.
SlotsMatchCounter ==
  \A k \in Blocks : numberOfFilesEntries[k] = FilledOf(Opened, k)

\* If power failed now, the next recording would be appended behind every
\* recording the table on the cartridge knows of ("start the new recording
\* appending to the old one", FileRetrieveFileTable).
RecoveryAppends ==
  \A k \in Blocks : \A j \in Slots :
    j < diskEntries[k] =>
      EndOf(diskTable[k][j]) <= RecoveredWriteBlock(diskTable, diskEntries)

-----------------------------------------------------------------------------
(* The table implements RecordingStore.                                    *)

FilesOf(table, n) == [i \in 1..n |-> EntryAt(table, i - 1)]

Store == INSTANCE RecordingStore WITH
  MaxCount <- CeilBlocks(MaxBytes),
  files   <- FilesOf(fileTable, Opened),
  open    <- currentFileState = "open",
  durable <- FilesOf(diskTable, RecoveredNumber(diskEntries))

\* Every behaviour of the table, its restarts in the middle of an update
\* included, is one of a store that only appends and only loses its tail.
Implements == Store!Init /\ [][Store!Next]_(Store!vars)
=============================================================================
