-------------------------- MODULE StanagTable_proofs --------------------------
(***************************************************************************)
(* Proofs about StanagTable, for every geometry of the table.  First its   *)
(* two counters, which agree as long as at most a block of recordings in a *)
(* row is closed without an update of the table.  Then its contents: the   *)
(* recordings lie behind one another in memory and on the cartridge, the   *)
(* cartridge holds the first of those in memory, and so a restart goes on  *)
(* behind every recording the cartridge knows of.  Last the dates of the   *)
(* entries and the search by time (FileSearch).                            *)
(***************************************************************************)
EXTENDS StanagTable, FileSearch, FiniteSetTheorems, FunctionTheorems, SequenceTheorems, TLAPS

-----------------------------------------------------------------------------
(* Arithmetic of the entry numbers.                                        *)

\* Entry n lies in block n \div e, in slot n % e.
LEMMA DivMod ==
  ASSUME NEW n \in Nat, NEW e \in Nat \ {0}
  PROVE  /\ n \div e \in Nat
         /\ n % e \in 0..(e - 1)
         /\ n = (n \div e) * e + (n % e)
  BY Z3

\* And in no other.
LEMMA DivModUnique ==
  ASSUME NEW a \in Nat, NEW e \in Nat \ {0}, NEW b \in 0..(e - 1)
  PROVE  /\ (a * e + b) \div e = a
         /\ (a * e + b) % e = b
  BY Z3

\* Entry numbers grow with their blocks.
LEMMA ProductMonotone ==
  ASSUME NEW a \in Nat, NEW b \in Nat, NEW e \in Nat, a <= b
  PROVE  a * e <= b * e
  BY Z3

\* The first entries of neighbouring blocks are one block of entries apart.
LEMMA ProductNext ==
  ASSUME NEW a \in Int, NEW e \in Nat
  PROVE  /\ a * e \in Int
         /\ (a + 1) * e = a * e + e
         /\ (a - 1) * e = a * e - e
  BY Z3

-----------------------------------------------------------------------------
(* What FilledOf says of a block: full, empty, or the one in between.      *)

\* A block is full, empty or filled up to entry n, by where n lies.
LEMMA FilledFacts ==
  ASSUME NEW n \in Nat, NEW k \in Nat
  PROVE  /\ FilledOf(n, k) \in 0..EntriesPerBlock
         /\ n <= k * EntriesPerBlock => FilledOf(n, k) = 0
         /\ n >= k * EntriesPerBlock + EntriesPerBlock => FilledOf(n, k) = EntriesPerBlock
         /\ (n >= k * EntriesPerBlock /\ n <= k * EntriesPerBlock + EntriesPerBlock)
              => FilledOf(n, k) = n - k * EntriesPerBlock
         /\ FilledOf(n, k) = 0 <=> n <= k * EntriesPerBlock
<1>1. /\ EntriesPerBlock \in Nat \ {0}
      /\ k * EntriesPerBlock \in Int
      /\ (k + 1) * EntriesPerBlock = k * EntriesPerBlock + EntriesPerBlock
  BY GeometryAssumption, ProductNext
<1> DEFINE below == k * EntriesPerBlock
           above == (k + 1) * EntriesPerBlock
<1>2. FilledOf(n, k) = IF n <= below THEN 0
                       ELSE IF n >= above THEN EntriesPerBlock ELSE n - below
  BY Zenon DEF FilledOf
<1>3. /\ EntriesPerBlock \in Nat \ {0}
      /\ below \in Int
      /\ above = below + EntriesPerBlock
  BY <1>1
<1> HIDE DEF below, above
<1>4. /\ FilledOf(n, k) \in 0..EntriesPerBlock
      /\ n <= below => FilledOf(n, k) = 0
      /\ n >= below + EntriesPerBlock => FilledOf(n, k) = EntriesPerBlock
      /\ (n >= below /\ n <= below + EntriesPerBlock) => FilledOf(n, k) = n - below
      /\ FilledOf(n, k) = 0 <=> n <= below
  BY <1>2, <1>3
<1>5. QED
  BY <1>4 DEF below

\* Where block k lies in relation to entry number n of block b.
LEMMA BlockOrder ==
  ASSUME NEW k \in Nat, NEW b \in Nat
  PROVE  /\ k < b => k * EntriesPerBlock + EntriesPerBlock <= b * EntriesPerBlock
         /\ k * EntriesPerBlock \in Nat
<1>1. /\ EntriesPerBlock \in Nat
      /\ (k + 1) * EntriesPerBlock = k * EntriesPerBlock + EntriesPerBlock
      /\ k * EntriesPerBlock \in Int
  BY GeometryAssumption, ProductNext
<1>2. 0 * EntriesPerBlock <= k * EntriesPerBlock
  BY <1>1, ProductMonotone
<1>3. k < b => (k + 1) * EntriesPerBlock <= b * EntriesPerBlock
  BY <1>1, ProductMonotone
<1>4. QED
  BY <1>1, <1>2, <1>3

\* One more entry fills the block that its number selects, and no other.
LEMMA FilledNext ==
  ASSUME NEW n \in Nat, NEW k \in Nat
  PROVE  FilledOf(n + 1, k) = IF k = n \div EntriesPerBlock THEN FilledOf(n, k) + 1
                              ELSE FilledOf(n, k)
<1> DEFINE b == n \div EntriesPerBlock
           s == n % EntriesPerBlock
<1>1. b \in Nat /\ s \in 0..(EntriesPerBlock - 1) /\ n = b * EntriesPerBlock + s
  BY GeometryAssumption, DivMod
<1> HIDE DEF b, s
<1>2. /\ k < b => k * EntriesPerBlock + EntriesPerBlock <= b * EntriesPerBlock
      /\ b < k => b * EntriesPerBlock + EntriesPerBlock <= k * EntriesPerBlock
      /\ k * EntriesPerBlock \in Nat /\ b * EntriesPerBlock \in Nat
  BY <1>1, BlockOrder
<1>3. FilledOf(n + 1, k) = IF k = b THEN FilledOf(n, k) + 1 ELSE FilledOf(n, k)
  <2> DEFINE x == k * EntriesPerBlock
             y == b * EntriesPerBlock
  <2>1. \A p \in Nat :
           /\ p <= x => FilledOf(p, k) = 0
           /\ p >= x + EntriesPerBlock => FilledOf(p, k) = EntriesPerBlock
           /\ (p >= x /\ p <= x + EntriesPerBlock) => FilledOf(p, k) = p - x
    BY FilledFacts
  <2>2. /\ k < b => x + EntriesPerBlock <= y
        /\ b < k => y + EntriesPerBlock <= x
        /\ x \in Nat /\ y \in Nat
        /\ n = y + s /\ s \in 0..(EntriesPerBlock - 1) /\ b \in Nat
        /\ k = b => x = y
    BY <1>1, <1>2
  <2> HIDE DEF x, y
  <2>3. QED
    BY <2>1, <2>2, n + 1 \in Nat, GeometryAssumption
<1>4. QED
  BY <1>3 DEF b

-----------------------------------------------------------------------------
(* Recovery: the number found on a cartridge filled block by block.        *)

\* The first block without entries is the first one the entries do not reach.
LEMMA FirstEmptyFound ==
  ASSUME NEW num \in [Blocks -> Nat],
         NEW m \in 0..(MaxStanagBlocks * EntriesPerBlock),
         \A k \in Blocks : num[k] = FilledOf(m, k)
  PROVE  /\ FirstEmptyBlock(num) \in 0..MaxStanagBlocks
         /\ \A k \in Blocks : k < FirstEmptyBlock(num) <=> num[k] # 0
<1>1. MaxStanagBlocks \in Nat \ {0} /\ EntriesPerBlock \in Nat \ {0}
  BY GeometryAssumption
<1>2. m \in Nat
  BY <1>1, BlockOrder
<1>3. \A k \in Blocks : k \in Nat /\ (num[k] = 0 <=> m <= k * EntriesPerBlock)
  <2> SUFFICES ASSUME NEW k \in Blocks
               PROVE  k \in Nat /\ (num[k] = 0 <=> m <= k * EntriesPerBlock)
    OBVIOUS
  <2>1. k \in Nat /\ num[k] = FilledOf(m, k)
    BY <1>1 DEF Blocks
  <2>2. FilledOf(m, k) = 0 <=> m <= k * EntriesPerBlock
    BY <1>2, <2>1, FilledFacts
  <2>3. QED
    BY <2>1, <2>2
<1>4. \A k, l \in Blocks : k < l /\ num[k] = 0 => num[l] = 0
  <2> SUFFICES ASSUME NEW k \in Blocks, NEW l \in Blocks, k < l, num[k] = 0
               PROVE  num[l] = 0
    OBVIOUS
  <2>1. k * EntriesPerBlock + EntriesPerBlock <= l * EntriesPerBlock
        /\ k * EntriesPerBlock \in Nat /\ l * EntriesPerBlock \in Nat
    BY <1>3, BlockOrder
  <2>2. m <= k * EntriesPerBlock
    BY <1>3
  <2>3. m <= l * EntriesPerBlock
    BY <1>1, <1>2, <2>1, <2>2
  <2>4. QED
    BY <1>3, <2>3
<1>5. CASE \E k \in Blocks : num[k] = 0
  <2> DEFINE First(k) == num[k] = 0 /\ \A i \in 0..(k-1) : num[i] # 0
             b == (m + (EntriesPerBlock - 1)) \div EntriesPerBlock
             s == (m + (EntriesPerBlock - 1)) % EntriesPerBlock
  <2>1. b \in Nat /\ s \in 0..(EntriesPerBlock - 1)
        /\ m + (EntriesPerBlock - 1) = b * EntriesPerBlock + s
    BY <1>1, <1>2, DivMod
  <2> HIDE DEF b, s
  <2>2. PICK e \in Blocks : num[e] = 0
    BY <1>5
  <2>3. b * EntriesPerBlock \in Nat /\ e \in Nat /\ e * EntriesPerBlock \in Nat
        /\ (e < b => e * EntriesPerBlock + EntriesPerBlock <= b * EntriesPerBlock)
    BY <1>3, <2>1, BlockOrder
  <2>4. m <= e * EntriesPerBlock
    BY <1>3, <2>2
  <2>5. b <= e
    BY <1>1, <1>2, <2>1, <2>3, <2>4
  <2>6. b \in Blocks
    BY <1>1, <2>1, <2>5 DEF Blocks
  <2>7. num[b] = 0
    BY <1>1, <1>2, <1>3, <2>1, <2>3, <2>6
  <2>8. ASSUME NEW i \in 0..(b-1)
        PROVE  num[i] # 0
    <3>1. i \in Nat /\ i \in Blocks /\ i < b
      BY <1>1, <2>1, <2>6 DEF Blocks
    <3>2. i * EntriesPerBlock + EntriesPerBlock <= b * EntriesPerBlock
          /\ i * EntriesPerBlock \in Nat
      BY <2>1, <3>1, BlockOrder
    <3>3. ~(m <= i * EntriesPerBlock)
      BY <1>1, <1>2, <2>1, <2>3, <3>2
    <3>4. QED
      BY <1>3, <3>1, <3>3
  <2>9. First(b)
    BY <2>7, <2>8
  <2>10. FirstEmptyBlock(num) = CHOOSE k \in Blocks : First(k)
    BY <1>5 DEF FirstEmptyBlock
  <2>11. FirstEmptyBlock(num) \in Blocks /\ First(FirstEmptyBlock(num))
    BY <2>6, <2>9, <2>10
  <2>12. QED
    BY <1>1, <1>3, <1>4, <2>11 DEF Blocks
<1>6. CASE ~\E k \in Blocks : num[k] = 0
  BY <1>1, <1>6 DEF FirstEmptyBlock, Blocks
<1>7. QED
  BY <1>5, <1>6

\* The entries up to there are as many as were recorded.
LEMMA RecoveredNumberFound ==
  ASSUME NEW num \in [Blocks -> Nat],
         NEW m \in 0..(MaxStanagBlocks * EntriesPerBlock),
         \A k \in Blocks : num[k] = FilledOf(m, k)
  PROVE  RecoveredNumber(num) = m
<1> DEFINE E == EntriesPerBlock
           used == {p \in Blocks \X Slots : p[1] < FirstEmptyBlock(num) /\ p[2] < num[p[1]]}
           at == [i \in 0..(m-1) |-> <<i \div E, i % E>>]
<1>1. MaxStanagBlocks \in Nat \ {0} /\ E \in Nat \ {0}
  BY GeometryAssumption
<1>2. m \in Nat
  BY <1>1, BlockOrder
<1>3. \A k \in Blocks : k < FirstEmptyBlock(num) <=> num[k] # 0
  BY FirstEmptyFound
<1>4. \A p \in Blocks \X Slots : p \in used <=> p[2] < num[p[1]]
  BY <1>1, <1>3 DEF Blocks, Slots
<1>5. ASSUME NEW k \in Blocks, NEW j \in Slots
      PROVE  j < num[k] <=> k * E + j < m
  <2>1. k \in Nat /\ j \in 0..(E - 1)
    BY <1>1 DEF Blocks, Slots
  <2>2. k * E \in Nat /\ num[k] = FilledOf(m, k)
    BY <2>1, BlockOrder
  <2>3. /\ m <= k * E => FilledOf(m, k) = 0
        /\ m >= k * E + E => FilledOf(m, k) = E
        /\ (m >= k * E /\ m <= k * E + E) => FilledOf(m, k) = m - k * E
    BY <1>2, <2>1, FilledFacts
  <2>4. QED
    BY <1>1, <1>2, <2>1, <2>2, <2>3
<1>6. ASSUME NEW i \in 0..(m-1)
      PROVE  /\ i \div E \in Blocks /\ i % E \in Slots
             /\ (i \div E) * E + (i % E) = i
  <2>0. i \in Nat
    BY <1>2
  <2>1. i \div E \in Nat /\ i % E \in 0..(E - 1) /\ i = (i \div E) * E + (i % E)
    BY <1>1, <2>0, DivMod
  <2>2. i \div E < MaxStanagBlocks
    <3>1. SUFFICES ASSUME MaxStanagBlocks <= i \div E
                   PROVE  FALSE
      BY <1>1, <2>1
    <3>2. MaxStanagBlocks * E <= (i \div E) * E
      BY <1>1, <2>1, <3>1, ProductMonotone
    <3>3. MaxStanagBlocks * E \in Nat /\ (i \div E) * E \in Nat
      BY <1>1, <2>1, BlockOrder
    <3>4. QED
      BY <1>1, <1>2, <2>1, <3>2, <3>3
  <2>3. QED
    BY <1>1, <2>1, <2>2 DEF Blocks, Slots
<1>7. at \in [0..(m-1) -> used]
  BY <1>4, <1>5, <1>6
<1>8. \A i, j \in 0..(m-1) : at[i] = at[j] => i = j
  BY <1>6
<1>9. ASSUME NEW p \in used
      PROVE  \E i \in 0..(m-1) : at[i] = p
  <2>1. p[1] \in Blocks /\ p[2] \in Slots /\ p = <<p[1], p[2]>> /\ p[1] * E + p[2] < m
    BY <1>4, <1>5
  <2>2. p[1] \in Nat /\ p[2] \in 0..(E - 1)
    BY <1>1, <2>1 DEF Blocks, Slots
  <2>3. p[1] * E \in Nat
    BY <2>2, BlockOrder
  <2>4. p[1] * E + p[2] \in 0..(m-1)
    BY <1>1, <1>2, <2>1, <2>2, <2>3
  <2>5. (p[1] * E + p[2]) \div E = p[1] /\ (p[1] * E + p[2]) % E = p[2]
    BY <1>1, <2>2, DivModUnique
  <2>6. at[p[1] * E + p[2]] = p
    BY <2>1, <2>4, <2>5
  <2>7. QED
    BY <2>4, <2>6
<1>10. at \in Bijection(0..(m-1), used)
  BY <1>7, <1>8, <1>9, Fun_IsBij
<1>11. IsFiniteSet(0..(m-1)) /\ Cardinality(0..(m-1)) = m
  BY <1>2, FS_Interval
<1>12. Cardinality(used) = m
  BY <1>10, <1>11, FS_Bijection DEF ExistsBijection
<1>13. QED
  BY <1>12 DEF RecoveredNumber

-----------------------------------------------------------------------------
(* The inductive invariant.                                                *)

Capacity == MaxStanagBlocks * EntriesPerBlock

Flags == keepsSetup \in BOOLEAN /\ present \in BOOLEAN /\ stored \in BOOLEAN
Words ==
  /\ fileTable \in [Blocks -> [Slots -> Entry]]
  /\ diskTable \in [Blocks -> [Slots -> Entry]]
  /\ numberOfFilesEntries \in [Blocks -> Nat]
  /\ diskEntries \in [Blocks -> Nat]
  /\ currentFileNumber \in Nat
  /\ currentFileState \in {"open", "closed"}
  /\ currentWriteBlock \in Int
  /\ totalBytesWritten \in Nat
  /\ numberOfBlocksWritten \in Nat
  /\ pending \in Seq(Blocks)
  /\ unstored \in Nat

\* Entries closed, or in the table with a stored count, that the cartridge ought
\* to know of but for those whose roots were lost.
Begun == IF currentFileState = "open" /\ stored THEN currentFileNumber + 1
         ELSE currentFileNumber

\* How far the cartridge, with m entries, may lie behind the memory: by the
\* recordings without a root; while an update is under way, so far that the
\* blocks still to be written leave no gap.
Lag(m) ==
  \/ /\ pending = <<>>
     /\ unstored <= MaxUnstored
     /\ m + unstored >= Begun
  \/ /\ currentFileState = "open" /\ stored /\ unstored = 0
     /\ \/ /\ TableBlock # 0
           /\ pending = <<TableBlock - 1, TableBlock>>
           /\ m + EntriesPerBlock >= TableBlock * EntriesPerBlock
        \/ /\ pending = <<TableBlock>>
           /\ m >= TableBlock * EntriesPerBlock

\* The cartridge holds m entries, in blocks filled in order; a cartridge in its
\* bay is not ahead of the memory.
OnDisk(m) ==
  /\ \A k \in Blocks : diskEntries[k] = FilledOf(m, k)
  /\ present => m <= Opened /\ Lag(m)

Inv ==
  /\ Words
  /\ Opened <= Capacity
  /\ SlotsMatchCounter
  /\ \E m \in 0..Capacity : OnDisk(m)

\* At most a block of recordings in a row is closed without an update.
FewUnstored == MaxUnstored <= EntriesPerBlock

\* The table has room for a recording, and for as many as are opened.
LEMMA CapacityFacts == Capacity \in Nat /\ Capacity >= 1 /\ FileLimit <= Capacity
<1>1. MaxStanagBlocks \in Nat /\ EntriesPerBlock \in Nat /\ 1 <= MaxStanagBlocks
      /\ 1 <= EntriesPerBlock
  BY GeometryAssumption
<1>2. 1 * EntriesPerBlock <= MaxStanagBlocks * EntriesPerBlock
  BY <1>1, ProductMonotone
<1>3. MaxStanagBlocks * EntriesPerBlock \in Nat
  BY <1>1, BlockOrder
<1>4. QED
  BY <1>1, <1>2, <1>3, BoundAssumption DEF Capacity

\* A table of no entry and of one.
LEMMA FilledStart ==
  ASSUME NEW k \in Blocks
  PROVE  /\ FilledOf(0, k) = 0
         /\ FilledOf(1, k) = IF k = 0 THEN 1 ELSE 0
<1>1. k \in Nat /\ EntriesPerBlock \in Nat \ {0}
  BY GeometryAssumption DEF Blocks
<1>2. FilledOf(0, k) = 0
  BY <1>1, BlockOrder, FilledFacts
<1>3. 0 \div EntriesPerBlock = 0
  BY <1>1, Z3
<1>4. FilledOf(0 + 1, k) = IF k = 0 \div EntriesPerBlock THEN FilledOf(0, k) + 1
                          ELSE FilledOf(0, k)
  BY <1>1, FilledNext
<1>5. QED
  BY <1>2, <1>3, <1>4

\* The selected block is one of the table as long as there is room, and the next
\* entry is in it.
LEMMA TableBlockFacts ==
  ASSUME NEW n \in Nat, n < Capacity
  PROVE  /\ n \div EntriesPerBlock \in Blocks
         /\ (n \div EntriesPerBlock) * EntriesPerBlock \in Nat
         /\ (n \div EntriesPerBlock) * EntriesPerBlock <= n
         /\ n < (n \div EntriesPerBlock) * EntriesPerBlock + EntriesPerBlock
         /\ n % EntriesPerBlock \in Slots
         /\ FilledOf(n, n \div EntriesPerBlock) = n % EntriesPerBlock
<1> DEFINE b == n \div EntriesPerBlock
           s == n % EntriesPerBlock
<1>1. EntriesPerBlock \in Nat \ {0} /\ MaxStanagBlocks \in Nat \ {0}
  BY GeometryAssumption
<1>2. b \in Nat /\ s \in 0..(EntriesPerBlock - 1) /\ n = b * EntriesPerBlock + s
  BY <1>1, DivMod
<1> HIDE DEF b, s
<1>3. b * EntriesPerBlock \in Nat
      /\ (MaxStanagBlocks <= b => MaxStanagBlocks * EntriesPerBlock <= b * EntriesPerBlock)
  BY <1>1, <1>2, BlockOrder, ProductMonotone
<1>4. b < MaxStanagBlocks
  BY <1>1, <1>2, <1>3, CapacityFacts DEF Capacity
<1>5. FilledOf(n, b) = n - b * EntriesPerBlock
  BY <1>1, <1>2, <1>3, FilledFacts
<1>6. QED
  BY <1>1, <1>2, <1>3, <1>4, <1>5 DEF Blocks, Slots, b, s

\* The blocks of a number of bytes are a number of blocks.
LEMMA CeilBlocksType ==
  ASSUME NEW bytes \in Nat
  PROVE  CeilBlocks(bytes) \in Nat
<1>1. bytes + (BlockSize - 1) \in Nat /\ BlockSize \in Nat \ {0}
  BY GeometryAssumption
<1>2. (bytes + (BlockSize - 1)) \div BlockSize \in Nat
  BY <1>1, DivMod
<1>3. bytes + BlockSize - 1 = bytes + (BlockSize - 1)
  BY <1>1
<1>4. QED
  BY <1>2, <1>3 DEF CeilBlocks

-----------------------------------------------------------------------------
(* The types.                                                              *)

USE DEF Entry, Unused, BlankTable, NoEntries, memory, disk, counter, sizes, history

\* The flags stay Booleans (apart from the rest, for the provers).
LEMMA FlagsStep ==
  ASSUME Flags, [Next]_vars
  PROVE  Flags'
<1> USE DEF Flags
<1>1. CASE SOpen \/ EmergencyClose \/ SErase
  BY <1>1, Zenon DEF SOpen, EmergencyClose, SErase
<1>2. CASE UpdateStanagBlocks \/ UpdateStanagAndBlocks
  BY <1>2, Zenon DEF UpdateStanagBlocks, UpdateStanagAndBlocks, UpdateStanag
<1>3. CASE WriteTableBlock \/ Remove
  BY <1>3, Zenon DEF WriteTableBlock, Remove
<1>4. CASE PowerCycle \/ Mount
  BY <1>4, Zenon DEF PowerCycle, Mount, SInit
<1>5. CASE UNCHANGED vars
  BY <1>5, Zenon DEF vars
<1>6. QED
  BY <1>1, <1>2, <1>3, <1>4, <1>5 DEF Next

\* What a restart computes from a cartridge that is filled in order.
LEMMA Recovered ==
  ASSUME Words, NEW m \in 0..Capacity, \A k \in Blocks : diskEntries[k] = FilledOf(m, k)
  PROVE  /\ RecoveredNumber(diskEntries) = m
         /\ RecoveredWriteBlock(diskTable, diskEntries) \in Int
<1> USE DEF Words
<1>1. RecoveredNumber(diskEntries) = m
  BY RecoveredNumberFound DEF Capacity
<1>2. FirstEmptyBlock(diskEntries) \in 0..MaxStanagBlocks
  BY FirstEmptyFound DEF Capacity
<1> DEFINE j == FirstEmptyBlock(diskEntries)
<1>3. CASE j = 0 \/ j = MaxStanagBlocks
  BY <1>1, <1>3, GeometryAssumption DEF RecoveredWriteBlock
<1>4. CASE ~(j = 0 \/ j = MaxStanagBlocks)
  <2>1. j - 1 \in Blocks
    BY <1>2, <1>4, GeometryAssumption DEF Blocks
  <2>2. m \in Int
    BY CapacityFacts
  <2>3. (m - 1) % EntriesPerBlock \in Slots
    BY <2>2, GeometryAssumption, Z3 DEF Slots
  <2>4. RecoveredWriteBlock(diskTable, diskEntries)
          = EndOf(diskTable[j - 1][(m - 1) % EntriesPerBlock])
    BY <1>1, <1>4 DEF RecoveredWriteBlock
  <2>5. diskTable[j - 1][(m - 1) % EntriesPerBlock] \in Entry
    BY <2>1, <2>3
  <2>6. EndOf(diskTable[j - 1][(m - 1) % EntriesPerBlock]) \in Int
    BY <2>5 DEF EndOf
  <2>7. QED
    BY <1>1, <2>4, <2>6
<1>5. QED
  BY <1>1, <1>3, <1>4

\* One entry of a table changes, and no other.
LEMMA GridUpdate ==
  ASSUME NEW B, NEW S, NEW T, NEW f \in [B -> [S -> T]], NEW b \in B, NEW s \in S, NEW e \in T
  PROVE  /\ [f EXCEPT ![b][s] = e] \in [B -> [S -> T]]
         /\ \A i \in B, j \in S :
              [f EXCEPT ![b][s] = e][i][j] = IF i = b /\ j = s THEN e ELSE f[i][j]
  OBVIOUS

\* The slot sopen takes next, and the one of the open entry.
LEMMA NextSlot ==
  ASSUME Inv, currentFileNumber < Capacity
  PROVE  /\ TableBlock \in Blocks
         /\ currentFileNumber % EntriesPerBlock \in Slots
         /\ numberOfFilesEntries[TableBlock] =
              IF currentFileState = "open" THEN (currentFileNumber % EntriesPerBlock) + 1
              ELSE currentFileNumber % EntriesPerBlock
<1>1. currentFileNumber \in Nat /\ TableBlock \in Blocks /\ TableBlock \in Nat
      /\ currentFileNumber % EntriesPerBlock \in Slots
      /\ FilledOf(currentFileNumber, TableBlock) = currentFileNumber % EntriesPerBlock
  BY TableBlockFacts DEF Inv, Words, TableBlock, Blocks
<1>2. FilledOf(currentFileNumber + 1, TableBlock)
        = (currentFileNumber % EntriesPerBlock) + 1
  BY <1>1, FilledNext DEF TableBlock
<1>3. numberOfFilesEntries[TableBlock] = FilledOf(Opened, TableBlock)
  BY <1>1 DEF Inv, SlotsMatchCounter
<1>4. QED
  BY <1>1, <1>2, <1>3 DEF Opened

\* The update of the open entry: its count, and nothing else, changes.
LEMMA UpdateIs ==
  ASSUME Inv, currentFileState = "open", NEW bytes \in Nat, UpdateStanag(bytes)
  PROVE  LET slot == currentFileNumber % EntriesPerBlock
         IN  /\ TableBlock \in Blocks /\ slot \in Slots
             /\ fileTable' = [fileTable EXCEPT ![TableBlock][slot] =
                                [start |-> fileTable[TableBlock][slot].start,
                                 count |-> CeilBlocks(bytes)]]
<1> DEFINE slot == currentFileNumber % EntriesPerBlock
           c == CeilBlocks(bytes)
<1>1. currentFileNumber < Capacity
  BY CapacityFacts DEF Inv, Words, Opened
<1>2. TableBlock \in Blocks /\ slot \in Slots /\ slot \in Nat
      /\ numberOfFilesEntries[TableBlock] = slot + 1
  BY <1>1, NextSlot, GeometryAssumption DEF Slots
<1>3. LastSlot = slot
  BY <1>2 DEF LastSlot
<1>4. fileTable' = [fileTable EXCEPT ![TableBlock][slot].count = c]
  BY <1>3 DEF UpdateStanag
<1>5. fileTable[TableBlock][slot] \in Entry
  BY <1>2 DEF Inv, Words
<1> HIDE DEF slot, c
<1>6. [fileTable[TableBlock][slot] EXCEPT !.count = c]
        = [start |-> fileTable[TableBlock][slot].start, count |-> c]
  BY <1>5
<1>7. fileTable' = [fileTable EXCEPT ![TableBlock][slot] =
                      [start |-> fileTable[TableBlock][slot].start, count |-> c]]
  BY <1>4, <1>6
<1>8. QED
  BY <1>2, <1>7 DEF slot, c

\* The update of a size leaves the table well typed.
LEMMA UpdateWords ==
  ASSUME Inv, currentFileState = "open", NEW bytes \in Nat, UpdateStanag(bytes)
  PROVE  /\ totalBytesWritten' \in Nat
         /\ fileTable' \in [Blocks -> [Slots -> Entry]]
         /\ pending' \in Seq(Blocks)
         /\ unstored' \in Nat
<1> DEFINE slot == currentFileNumber % EntriesPerBlock
           e == [start |-> fileTable[TableBlock][slot].start, count |-> CeilBlocks(bytes)]
<1>1. TableBlock \in Blocks /\ slot \in Slots
      /\ fileTable' = [fileTable EXCEPT ![TableBlock][slot] = e]
  BY UpdateIs
<1>2. CeilBlocks(bytes) \in Int /\ fileTable[TableBlock][slot] \in Entry
  BY <1>1, CeilBlocksType DEF Inv, Words
<1>3. e \in Entry
  BY <1>2
<1> HIDE DEF e, slot
<1>4. fileTable' \in [Blocks -> [Slots -> Entry]]
  BY <1>1, <1>3, GridUpdate DEF Inv, Words
<1>5. StoreOrder(TableBlock) \in Seq(Blocks)
  <2>1. TableBlock # 0 => TableBlock - 1 \in Blocks
    BY <1>1, GeometryAssumption DEF Blocks
  <2>2. QED
    BY <1>1, <2>1 DEF StoreOrder
<1>6. QED
  BY <1>4, <1>5 DEF UpdateStanag

\* A step keeps the types of the tables and the counters.
LEMMA WordsStep ==
  ASSUME Inv, [Next]_vars
  PROVE  Words'
<1> USE DEF Inv, Words
<1>1. CASE SOpen
  <2>1. currentFileNumber < Capacity /\ currentFileState = "closed"
    BY <1>1, CapacityFacts, BoundAssumption DEF SOpen
  <2> DEFINE slot == currentFileNumber % EntriesPerBlock
             e == [start |-> currentWriteBlock, count |-> 0]
  <2>2. TableBlock \in Blocks /\ slot \in Slots /\ slot \in Nat
        /\ numberOfFilesEntries[TableBlock] = slot
    BY <2>1, NextSlot, GeometryAssumption DEF Slots
  <2>3. /\ numberOfFilesEntries' = [numberOfFilesEntries EXCEPT ![TableBlock] = slot + 1]
        /\ fileTable' = [fileTable EXCEPT ![TableBlock][slot] = e]
    BY <1>1, <2>2 DEF SOpen
  <2>4. e \in Entry
    OBVIOUS
  <2> HIDE DEF e, slot
  <2>5. numberOfFilesEntries' \in [Blocks -> Nat]
    BY <2>2, <2>3
  <2>6. fileTable' \in [Blocks -> [Slots -> Entry]]
    BY <2>2, <2>3, <2>4, GridUpdate
  <2>7. QED
    BY <1>1, <2>5, <2>6 DEF SOpen
<1>2. CASE UpdateStanagBlocks
  <2>1. PICK bytes \in 1..MaxBytes : UpdateStanag(bytes) /\ numberOfBlocksWritten' = CeilBlocks(bytes)
    BY <1>2 DEF UpdateStanagBlocks
  <2>2. bytes \in Nat
    BY BoundAssumption
  <2>3. QED
    BY <1>2, <2>1, <2>2, UpdateWords, CeilBlocksType DEF UpdateStanagBlocks
<1>3. CASE UpdateStanagAndBlocks
  <2>1. PICK blocks \in 0..(MaxBytes \div BlockSize) :
          UpdateStanag(blocks * BlockSize) /\ numberOfBlocksWritten' = blocks
    BY <1>3 DEF UpdateStanagAndBlocks
  <2>2. MaxBytes \div BlockSize \in Nat
    BY BoundAssumption, GeometryAssumption, DivMod
  <2>3. blocks \in Nat
    BY <2>2
  <2>4. blocks * BlockSize \in Int /\ 0 * BlockSize = 0 /\ 0 * BlockSize <= blocks * BlockSize
    BY <2>3, GeometryAssumption, ProductNext, ProductMonotone, Z3
  <2>5. blocks * BlockSize \in Nat
    BY <2>4
  <2>6. QED
    BY <1>3, <2>1, <2>3, <2>5, UpdateWords DEF UpdateStanagAndBlocks
<1>4. CASE WriteTableBlock
  <2>1. Head(pending) \in Blocks /\ pending' \in Seq(Blocks)
    BY <1>4 DEF WriteTableBlock
  <2>2. diskTable' \in [Blocks -> [Slots -> Entry]]
    BY <1>4, <2>1 DEF WriteTableBlock
  <2>3. diskEntries' \in [Blocks -> Nat]
    BY <1>4, <2>1 DEF WriteTableBlock
  <2>4. QED
    BY <1>4, <2>1, <2>2, <2>3 DEF WriteTableBlock
<1>5. CASE EmergencyClose
  <2>1. CeilBlocks(totalBytesWritten) \in Nat
    BY CeilBlocksType
  <2>2. unstored' \in Nat /\ currentFileNumber' \in Nat /\ currentWriteBlock' \in Int
    BY <1>5, <2>1 DEF EmergencyClose
  <2>3. QED
    BY <1>5, <2>2 DEF EmergencyClose
<1>6. CASE SErase
  <2>1. 0 \in Blocks /\ 0 \in Slots
    BY GeometryAssumption DEF Blocks, Slots
  <2>2. CASE EraseAll
    BY <1>6, <2>2, GeometryAssumption DEF SErase, EraseAll
  <2>3. CASE EraseButSetup
    <3>1. fileTable[0][0].count \in Int
      BY <2>1
    <3> DEFINE e == [start |-> ReservedBlocks, count |-> fileTable[0][0].count]
    <3>2. e \in Entry /\ fileTable' = [BlankTable EXCEPT ![0][0] = e]
      BY <2>3, <3>1, GeometryAssumption DEF EraseButSetup
    <3> HIDE DEF e
    <3>3. BlankTable \in [Blocks -> [Slots -> Entry]]
      OBVIOUS
    <3>4. fileTable' \in [Blocks -> [Slots -> Entry]]
      BY <2>1, <3>2, <3>3, GridUpdate
    <3>5. numberOfFilesEntries' \in [Blocks -> Nat]
      BY <2>1, <2>3 DEF EraseButSetup
    <3>6. currentWriteBlock' \in Int /\ currentFileNumber' \in Nat
      BY <2>3, <3>1, GeometryAssumption DEF EraseButSetup
    <3>7. QED
      BY <1>6, <3>4, <3>5, <3>6 DEF SErase
  <2>4. QED
    BY <1>6, <2>2, <2>3 DEF SErase
<1>7. CASE PowerCycle \/ Mount
  <2>1. PICK m \in 0..Capacity : OnDisk(m)
    OBVIOUS
  <2>2. RecoveredNumber(diskEntries) = m
        /\ RecoveredWriteBlock(diskTable, diskEntries) \in Int
    BY <2>1, Recovered DEF OnDisk
  <2>3. m \in Nat
    BY CapacityFacts
  <2>4. QED
    <3>1. /\ SInit
          /\ totalBytesWritten' \in Nat /\ numberOfBlocksWritten' \in Nat
      BY <1>7 DEF PowerCycle, Mount
    <3>2. pending' = <<>>
      BY <3>1 DEF SInit
    <3>3. pending' \in Seq(Blocks)
      BY <3>2
    <3>4. QED
      BY <3>1, <2>2, <2>3, <3>3 DEF SInit
<1>8. CASE Remove
  BY <1>8 DEF Remove
<1>9. CASE UNCHANGED vars
  BY <1>9 DEF vars
<1>10. QED
  BY <1>1, <1>2, <1>3, <1>4, <1>5, <1>6, <1>7, <1>8, <1>9 DEF Next

-----------------------------------------------------------------------------
(* The two counters and the cartridge, action by action.                   *)

\* The rest of the invariant, behind the types.
Counters ==
  /\ Opened <= Capacity
  /\ SlotsMatchCounter
  /\ \E m \in 0..Capacity : OnDisk(m)

\* An entry is opened where the counter says (sopen).
LEMMA SOpenKeeps ==
  ASSUME Inv, Words', SOpen
  PROVE  Counters'
<1> USE DEF Words
<1>1. currentFileNumber < Capacity /\ currentFileState = "closed" /\ currentFileState' = "open"
      /\ currentFileNumber' = currentFileNumber /\ currentFileNumber \in Nat
  BY CapacityFacts, BoundAssumption DEF SOpen, Inv
<1>2. Opened = currentFileNumber /\ Opened' = currentFileNumber + 1
  BY <1>1 DEF Opened
<1>3. SlotsMatchCounter'
  <2>1. TableBlock \in Blocks
        /\ numberOfFilesEntries' = [numberOfFilesEntries EXCEPT
                                      ![TableBlock] = numberOfFilesEntries[TableBlock] + 1]
    BY <1>1, NextSlot DEF SOpen
  <2>2. \A k \in Blocks : k \in Nat /\ numberOfFilesEntries[k] = FilledOf(currentFileNumber, k)
    BY <1>2, GeometryAssumption DEF Inv, SlotsMatchCounter, Blocks
  <2>3. \A k \in Blocks : numberOfFilesEntries'[k] = FilledOf(currentFileNumber + 1, k)
    BY <1>1, <2>1, <2>2, FilledNext DEF TableBlock, Inv
  <2>4. QED
    BY <1>2, <2>3 DEF SlotsMatchCounter
<1>4. PICK m \in 0..Capacity : OnDisk(m)
  BY DEF Inv
<1>5. diskEntries' = diskEntries /\ pending = <<>> /\ pending' = <<>> /\ present
      /\ unstored' = unstored /\ stored' = FALSE
  BY DEF SOpen
<1>6. unstored <= MaxUnstored /\ m + unstored >= currentFileNumber /\ m <= currentFileNumber
  BY <1>1, <1>2, <1>4, <1>5 DEF OnDisk, Lag, Begun
<1>7. Lag(m)'
  BY <1>1, <1>5, <1>6 DEF Lag, Begun
<1>8. OnDisk(m)'
  BY <1>1, <1>2, <1>4, <1>5, <1>6, <1>7, CapacityFacts DEF OnDisk
<1>9. QED
  BY <1>1, <1>2, <1>3, <1>8, CapacityFacts DEF Counters

\* Emergency_Close counts the entry that sopen began, and no other.
LEMMA CloseKeeps ==
  ASSUME Inv, Words', EmergencyClose
  PROVE  Counters'
<1> USE DEF Words
<1>1. currentFileState = "open" /\ currentFileState' = "closed"
      /\ currentFileNumber' = currentFileNumber + 1 /\ currentFileNumber \in Nat
  BY DEF EmergencyClose, Inv
<1>2. Opened' = Opened /\ Opened = currentFileNumber + 1
  BY <1>1 DEF Opened
<1>3. SlotsMatchCounter'
  BY <1>2 DEF EmergencyClose, Inv, SlotsMatchCounter
<1>4. PICK m \in 0..Capacity : OnDisk(m)
  BY DEF Inv
<1>5. diskEntries' = diskEntries /\ pending = <<>> /\ pending' = <<>> /\ (present' <=> present)
      /\ (stored' <=> stored) /\ (stored \/ unstored < MaxUnstored)
      /\ unstored' = IF stored THEN unstored ELSE unstored + 1
  BY DEF EmergencyClose
<1>6. ASSUME present
      PROVE  Lag(m)'
  <2>1. m \in Nat /\ unstored \in Nat /\ MaxUnstored \in Nat
    BY CapacityFacts, BoundAssumption DEF Inv
  <2>2. unstored <= MaxUnstored /\ m + unstored >= Begun
    BY <1>4, <1>5, <1>6 DEF OnDisk, Lag
  <2>3. Begun' = currentFileNumber + 1
    BY <1>1 DEF Begun
  <2>4. Begun = IF stored THEN currentFileNumber + 1 ELSE currentFileNumber
    BY <1>1 DEF Begun
  <2>5. unstored' <= MaxUnstored /\ m + unstored' >= currentFileNumber + 1
    BY <1>1, <1>5, <2>1, <2>2, <2>4
  <2>6. QED
    BY <1>5, <2>3, <2>5 DEF Lag
<1>7. OnDisk(m)'
  BY <1>2, <1>4, <1>5, <1>6 DEF OnDisk
<1>8. QED
  BY <1>2, <1>3, <1>7, CapacityFacts DEF Counters, Inv

\* The blocks an update will write leave no gap behind what is on the cartridge.
LEMMA UpdateKeeps ==
  ASSUME Inv, FewUnstored, Words', NEW bytes \in Nat, UpdateStanag(bytes),
         present, pending = <<>>, currentFileState = "open",
         UNCHANGED <<numberOfFilesEntries, disk, counter, present>>
  PROVE  Counters'
<1> USE DEF Words
<1>1. currentFileNumber \in Nat /\ currentFileNumber < Capacity
  BY CapacityFacts DEF Inv, Opened
<1>2. Opened' = Opened /\ Opened = currentFileNumber + 1 /\ TableBlock' = TableBlock
  BY DEF Opened, TableBlock
<1>3. SlotsMatchCounter'
  BY <1>2 DEF Inv, SlotsMatchCounter
<1>4. PICK m \in 0..Capacity : OnDisk(m)
  BY DEF Inv
<1>5. m \in Nat /\ m <= Opened /\ unstored <= MaxUnstored /\ m + unstored >= currentFileNumber
  BY <1>1, <1>4, CapacityFacts DEF OnDisk, Lag, Begun, Inv
<1>6. TableBlock * EntriesPerBlock \in Nat /\ TableBlock * EntriesPerBlock <= currentFileNumber
      /\ TableBlock \in Nat
  BY <1>1, TableBlockFacts DEF TableBlock, Blocks
<1>7. m + EntriesPerBlock >= TableBlock * EntriesPerBlock
  BY <1>1, <1>5, <1>6, GeometryAssumption, BoundAssumption DEF FewUnstored, Inv
<1>8. TableBlock = 0 => m >= TableBlock * EntriesPerBlock
  BY <1>5, GeometryAssumption, Z3
<1>9. pending' = StoreOrder(TableBlock) /\ stored' = TRUE /\ unstored' = 0
  BY DEF UpdateStanag
<1>10. Lag(m)'
  BY <1>2, <1>7, <1>8, <1>9 DEF Lag, StoreOrder
<1>11. OnDisk(m)'
  BY <1>2, <1>4, <1>5, <1>10 DEF OnDisk
<1>12. QED
  BY <1>2, <1>3, <1>11, CapacityFacts DEF Counters, Inv

\* One write of an update: the block before the current one fills the cartridge
\* up to the current one, which then brings it level with the memory.
LEMMA WriteKeeps ==
  ASSUME Inv, Words', WriteTableBlock
  PROVE  Counters'
<1> USE DEF Words
<1> DEFINE E == EntriesPerBlock
           n == currentFileNumber
           b == TableBlock
<1>1. PICK m \in 0..Capacity : OnDisk(m)
  BY DEF Inv
<1>2. present /\ pending # <<>> /\ present' = present /\ pending' = Tail(pending)
      /\ UNCHANGED <<numberOfFilesEntries, counter, history>>
      /\ diskEntries' = [diskEntries EXCEPT ![Head(pending)] = numberOfFilesEntries[Head(pending)]]
  BY DEF WriteTableBlock
<1>3. Lag(m) /\ m <= Opened /\ \A k \in Blocks : diskEntries[k] = FilledOf(m, k)
  BY <1>1, <1>2 DEF OnDisk
<1>4. currentFileState = "open" /\ stored /\ unstored = 0
      /\ \/ b # 0 /\ pending = <<b - 1, b>> /\ m + E >= b * E
         \/ pending = <<b>> /\ m >= b * E
  BY <1>2, <1>3 DEF Lag
<1>5. n \in Nat /\ n < Capacity /\ Opened = n + 1
  BY <1>4, CapacityFacts DEF Inv, Opened
<1>6. Opened' = n + 1 /\ Begun' = n + 1 /\ TableBlock' = b
  BY <1>2, <1>4 DEF Opened, Begun, TableBlock
<1>7. b \in Blocks /\ b \in Nat /\ b * E \in Nat /\ b * E <= n /\ n < b * E + E
  BY <1>5, TableBlockFacts DEF TableBlock, Blocks
<1>8. m \in Nat /\ n + 1 \in Nat /\ E \in Nat \ {0} /\ MaxUnstored \in Nat
  BY <1>5, CapacityFacts, GeometryAssumption, BoundAssumption
<1>9. \A k \in Blocks : numberOfFilesEntries[k] = FilledOf(n + 1, k)
  BY <1>5 DEF Inv, SlotsMatchCounter
<1>10. SlotsMatchCounter'
  BY <1>2, <1>6, <1>9 DEF SlotsMatchCounter
<1>11a. \A k \in Blocks : k \in Nat
  BY GeometryAssumption DEF Blocks
<1>11b. \A k \in Blocks :
          /\ k * E \in Nat
          /\ k < b => k * E + E <= b * E
          /\ b < k => b * E + E <= k * E
  BY <1>7, <1>11a, BlockOrder
<1>11c. \A k \in Blocks : \A p \in Nat :
          /\ p <= k * E => FilledOf(p, k) = 0
          /\ p >= k * E + E => FilledOf(p, k) = E
  BY <1>11a, FilledFacts
<1> HIDE DEF E, n, b
<1>12. CASE b # 0 /\ pending = <<b - 1, b>> /\ m + E >= b * E
  <2> DEFINE full == b * E
             m2 == IF m <= full THEN full ELSE m
  <2>1. b - 1 \in Blocks /\ pending' = <<b>> /\ Head(pending) = b - 1
    BY <1>2, <1>7, <1>12 DEF Blocks
  <2>2. (b - 1) * E + E = full
    BY <1>7, <1>8, ProductNext
  <2>3. full \in Nat /\ full <= n /\ m + E >= full /\ m <= n + 1
    BY <1>3, <1>5, <1>7, <1>12
  <2>4. \A k \in Blocks : /\ k < b - 1 => k * E + E <= (b - 1) * E
                          /\ k * E \in Nat /\ (b - 1) * E \in Nat
                          /\ k >= b => full <= k * E
    <3> SUFFICES ASSUME NEW k \in Blocks
                 PROVE  /\ k < b - 1 => k * E + E <= (b - 1) * E
                        /\ k * E \in Nat /\ (b - 1) * E \in Nat
                        /\ k >= b => full <= k * E
      OBVIOUS
    <3>1. k \in Nat /\ b - 1 \in Nat
      BY <2>1, GeometryAssumption DEF Blocks
    <3>2. /\ k < b - 1 => k * E + E <= (b - 1) * E
          /\ k * E \in Nat /\ (b - 1) * E \in Nat
      BY <3>1, BlockOrder DEF E
    <3>3. k >= b => full <= k * E
      BY <3>1, <1>7, <1>8, ProductMonotone
    <3>4. QED
      BY <3>2, <3>3
  <2> HIDE DEF full
  <2>5. m2 \in Nat /\ m2 >= full /\ m2 <= n + 1
    BY <1>5, <1>8, <2>3, n \in Nat
  <2>6. ASSUME NEW k \in Blocks
        PROVE  diskEntries'[k] = FilledOf(m2, k)
    <3>1. CASE k = b - 1
      <4>1. diskEntries'[k] = FilledOf(n + 1, k)
        BY <1>2, <1>9, <2>1, <3>1 DEF Inv
      <4>2. FilledOf(n + 1, k) = E /\ FilledOf(m2, k) = E
        BY <1>5, <1>8, <1>11b, <1>11c, <2>2, <2>3, <2>5, <3>1
      <4>3. QED
        BY <4>1, <4>2
    <3>2. CASE k # b - 1
      <4>1. diskEntries'[k] = FilledOf(m, k)
        BY <1>2, <1>3, <2>1, <3>2 DEF Inv
      <4>2. CASE k < b - 1 /\ m <= full
        <5> DEFINE p == k * E
                   q == (b - 1) * E
        <5>1. k * E \in Nat /\ k * E + E <= full - E
          <6>1. p \in Nat /\ q \in Nat /\ p + E <= q
            BY <2>4, <4>2
          <6>2. q + E = full
            BY <2>2
          <6> HIDE DEF p, q
          <6>3. p + E <= full - E
            BY <1>8, <2>3, <6>1, <6>2
          <6>4. QED
            BY <6>1, <6>3 DEF p
        <5>2. m >= k * E + E /\ full >= k * E + E
          BY <1>8, <2>3, <5>1
        <5>3. FilledOf(m, k) = E /\ FilledOf(full, k) = E
          BY <1>8, <1>11b, <1>11c, <2>3, <5>2
        <5>4. QED
          BY <4>1, <4>2, <5>3
      <4>3. CASE k >= b /\ m <= full
        <5>1. k * E \in Nat /\ m <= k * E /\ full <= k * E
          BY <1>8, <2>3, <2>4, <4>3
        <5>2. FilledOf(m, k) = 0 /\ FilledOf(full, k) = 0
          BY <1>8, <1>11b, <1>11c, <2>3, <5>1
        <5>3. QED
          BY <4>1, <4>3, <5>2
      <4>4. CASE ~(m <= full)
        BY <4>1, <4>4
      <4>5. k < b - 1 \/ k >= b
        BY <1>7, <3>2 DEF Blocks
      <4>6. QED
        BY <4>2, <4>3, <4>4, <4>5
    <3>3. QED
      BY <3>1, <3>2
  <2>7. PICK q \in 0..Capacity : q = m2
    BY <1>5, <2>5, CapacityFacts
  <2> HIDE DEF m2
  <2>8. Lag(q)'
    BY <1>2, <1>4, <1>6, <2>1, <2>5, <2>7 DEF Lag, E, full, b
  <2>9. OnDisk(q)'
    BY <1>6, <2>5, <2>6, <2>7, <2>8 DEF OnDisk
  <2>10. QED
    BY <1>5, <1>6, <1>10, <2>9, CapacityFacts DEF Counters
<1>13. CASE pending = <<b>> /\ m >= b * E
  <2>1. pending' = <<>> /\ Head(pending) = b
    BY <1>2, <1>13
  <2>2. ASSUME NEW k \in Blocks
        PROVE  diskEntries'[k] = FilledOf(n + 1, k)
    <3>1. CASE k = b
      BY <1>2, <1>9, <2>1, <3>1 DEF Inv
    <3>2. CASE k # b
      <4>1. diskEntries'[k] = FilledOf(m, k)
        BY <1>2, <1>3, <2>1, <3>2 DEF Inv
      <4> DEFINE x == k * E
                 y == b * E
      <4>2. /\ x \in Nat /\ y \in Nat /\ m >= y /\ m <= n + 1 /\ y <= n /\ n < y + E
            /\ k < b => x + E <= y
            /\ b < k => y + E <= x
            /\ \A p \in Nat : (p <= x => FilledOf(p, k) = 0) /\ (p >= x + E => FilledOf(p, k) = E)
            /\ n \in Nat /\ b \in Nat /\ k \in Int
        BY <1>3, <1>5, <1>7, <1>11b, <1>11c, <1>13 DEF Blocks
      <4> HIDE DEF x, y
      <4>3. FilledOf(m, k) = FilledOf(n + 1, k)
        BY <1>8, <3>2, <4>2
      <4>4. QED
        BY <4>1, <4>3
    <3>3. QED
      BY <3>1, <3>2
  <2>3. unstored' = 0 /\ MaxUnstored \in Nat
    BY <1>2, <1>4, <1>8
  <2>4. PICK q \in 0..Capacity : q = n + 1
    BY <1>5, <1>8, CapacityFacts
  <2>5. Lag(q)'
    BY <1>5, <1>6, <1>8, <2>1, <2>3, <2>4 DEF Lag
  <2>6. OnDisk(q)'
    BY <1>5, <1>6, <2>2, <2>4, <2>5 DEF OnDisk
  <2>7. QED
    BY <1>5, <1>6, <1>8, <1>10, <2>6, CapacityFacts DEF Counters
<1>14. QED
  BY <1>4, <1>12, <1>13 DEF E

\* An erase leaves no entry, or the setup's, in the memory and on the cartridge.
LEMMA EraseKeeps ==
  ASSUME Inv, Words', SErase
  PROVE  Counters'
<1> USE DEF Words
<1>1. currentFileState' = "closed" /\ present' = present /\ pending' = <<>> /\ unstored' = 0
      /\ diskEntries' = numberOfFilesEntries' /\ MaxUnstored \in Nat
  BY BoundAssumption DEF SErase
<1>2. PICK m \in {0, 1} : currentFileNumber' = m
                          /\ \A k \in Blocks : numberOfFilesEntries'[k] = FilledOf(m, k)
  <2>1. CASE EraseAll
    BY <2>1, FilledStart DEF EraseAll
  <2>2. CASE EraseButSetup
    BY <2>2, FilledStart DEF EraseButSetup
  <2>3. QED
    BY <2>1, <2>2 DEF SErase
<1>3. Opened' = m /\ Begun' = m
  BY <1>1, <1>2 DEF Opened, Begun
<1>4. SlotsMatchCounter'
  BY <1>2, <1>3 DEF SlotsMatchCounter
<1>5. OnDisk(m)'
  BY <1>1, <1>2, <1>3 DEF OnDisk, Lag
<1>6. QED
  BY <1>3, <1>4, <1>5, CapacityFacts DEF Counters

\* A restart takes the entries of the cartridge.
LEMMA RestartKeeps ==
  ASSUME Inv, Words', SInit
  PROVE  Counters'
<1> USE DEF Words
<1>1. PICK m \in 0..Capacity : OnDisk(m)
  BY DEF Inv
<1>2. \A k \in Blocks : diskEntries[k] = FilledOf(m, k)
  BY <1>1 DEF OnDisk
<1>3. RecoveredNumber(diskEntries) = m
  BY <1>2, Recovered DEF Inv
<1>4. currentFileState' = "closed" /\ currentFileNumber' = m /\ pending' = <<>>
      /\ unstored' = 0 /\ diskEntries' = diskEntries /\ numberOfFilesEntries' = diskEntries
      /\ MaxUnstored \in Nat /\ m \in Nat
  BY <1>3, BoundAssumption, CapacityFacts DEF SInit
<1>5. Opened' = m /\ Begun' = m
  BY <1>4 DEF Opened, Begun
<1>6. SlotsMatchCounter' /\ OnDisk(m)'
  BY <1>2, <1>4, <1>5 DEF SlotsMatchCounter, OnDisk, Lag
<1>7. QED
  BY <1>5, <1>6, CapacityFacts DEF Counters

\* Without a cartridge nothing is said of how far it lies behind.
LEMMA RemoveKeeps ==
  ASSUME Inv, Words', Remove
  PROVE  Counters'
<1>1. present' = FALSE /\ UNCHANGED <<numberOfFilesEntries, diskEntries, counter>>
  BY DEF Remove
<1>2. PICK m \in 0..Capacity : OnDisk(m)
  BY DEF Inv
<1>3. OnDisk(m)' /\ Opened' = Opened /\ SlotsMatchCounter'
  BY <1>1, <1>2 DEF OnDisk, Opened, SlotsMatchCounter, Inv
<1>4. QED
  BY <1>3, CapacityFacts DEF Counters, Inv

-----------------------------------------------------------------------------
(* The theorems.                                                           *)

\* A table of m entries, alike in the memory and on the cartridge.
LEMMA InvStart ==
  ASSUME Init, NEW m \in {0, 1}, currentFileNumber = m,
         \A k \in Blocks : numberOfFilesEntries[k] = FilledOf(m, k),
         fileTable \in [Blocks -> [Slots -> Entry]],
         numberOfFilesEntries \in [Blocks -> Nat],
         currentWriteBlock \in Int
  PROVE  Inv
<1>1. diskTable = fileTable /\ diskEntries = numberOfFilesEntries /\ currentFileState = "closed"
      /\ totalBytesWritten = 0 /\ numberOfBlocksWritten = 0 /\ pending = <<>> /\ unstored = 0
      /\ MaxUnstored \in Nat
  BY BoundAssumption DEF Init
<1>2. Words
  <2>1. pending \in Seq(Blocks)
    BY <1>1
  <2>2. QED
    BY <1>1, <2>1 DEF Words
<1>3. Opened = m /\ Begun = m
  BY <1>1 DEF Opened, Begun
<1>4. SlotsMatchCounter /\ OnDisk(m)
  BY <1>1, <1>3 DEF SlotsMatchCounter, OnDisk, Lag
<1>5. QED
  BY <1>2, <1>3, <1>4, CapacityFacts DEF Inv

\* A blank cartridge, and one with the setup's file.
LEMMA InvInit ==
  ASSUME Init
  PROVE  Inv
<1>1. 0 \in Blocks /\ 0 \in Slots /\ ReservedBlocks \in Nat /\ CeilBlocks(MaxBytes) \in Nat
  BY GeometryAssumption, BoundAssumption, CeilBlocksType DEF Blocks, Slots
<1>2. BlankTable \in [Blocks -> [Slots -> Entry]] /\ NoEntries \in [Blocks -> Nat]
  OBVIOUS
<1>3. CASE fileTable = BlankTable /\ numberOfFilesEntries = NoEntries
  <2>1. numberOfFilesEntries[0] = 0 /\ \A k \in Blocks : numberOfFilesEntries[k] = FilledOf(0, k)
    BY <1>1, <1>3, FilledStart
  <2>2. currentFileNumber = 0 /\ currentWriteBlock = ReservedBlocks
    BY <2>1 DEF Init
  <2>3. QED
    BY <1>1, <1>2, <1>3, <2>1, <2>2, InvStart
<1>4. ASSUME NEW c \in 1..CeilBlocks(MaxBytes),
             fileTable = [BlankTable EXCEPT ![0][0] = SetupEntry(c)],
             numberOfFilesEntries = [NoEntries EXCEPT ![0] = 1]
      PROVE  Inv
  <2> DEFINE e == SetupEntry(c)
  <2>1. e \in Entry
    BY <1>1 DEF SetupEntry
  <2> HIDE DEF e
  <2>2. fileTable = [BlankTable EXCEPT ![0][0] = e]
    BY <1>4 DEF e
  <2>3. fileTable \in [Blocks -> [Slots -> Entry]] /\ fileTable[0][0] = e
    BY <1>1, <1>2, <2>1, <2>2, GridUpdate
  <2>4. numberOfFilesEntries[0] = 1 /\ numberOfFilesEntries \in [Blocks -> Nat]
        /\ \A k \in Blocks : numberOfFilesEntries[k] = FilledOf(1, k)
    BY <1>1, <1>4, FilledStart
  <2>5. currentFileNumber = 1 /\ currentWriteBlock = EndOf(e)
    BY <2>3, <2>4 DEF Init
  <2>6. EndOf(e) \in Int
    BY <2>1 DEF EndOf
  <2>7. QED
    BY <2>3, <2>4, <2>5, <2>6, InvStart
<1>5. QED
  BY <1>3, <1>4 DEF Init

\* The flags are Booleans at the start.
LEMMA FlagsInit ==
  ASSUME Init
  PROVE  Flags
  BY Zenon DEF Init, Flags

\* A step keeps the invariant.
LEMMA InvStep ==
  ASSUME Inv, FewUnstored, [Next]_vars
  PROVE  Inv'
<1>1. Words'
  BY WordsStep
<1> SUFFICES Counters'
  BY <1>1 DEF Counters, Inv
<1>2. CASE SOpen
  BY <1>1, <1>2, SOpenKeeps
<1>3. CASE UpdateStanagBlocks
  <2>1. PICK bytes \in 1..MaxBytes : UpdateStanag(bytes)
    BY <1>3 DEF UpdateStanagBlocks
  <2>2. bytes \in Nat
    BY BoundAssumption
  <2>3. QED
    BY <1>1, <1>3, <2>1, <2>2, UpdateKeeps DEF UpdateStanagBlocks
<1>4. CASE UpdateStanagAndBlocks
  <2>1. PICK blocks \in 0..(MaxBytes \div BlockSize) : UpdateStanag(blocks * BlockSize)
    BY <1>4 DEF UpdateStanagAndBlocks
  <2>2. blocks \in Nat /\ BlockSize \in Nat
    BY BoundAssumption, GeometryAssumption, DivMod
  <2>3. blocks * BlockSize \in Nat
    BY <2>2, Z3
  <2>4. QED
    BY <1>1, <1>4, <2>1, <2>3, UpdateKeeps DEF UpdateStanagAndBlocks
<1>5. CASE WriteTableBlock
  BY <1>1, <1>5, WriteKeeps
<1>6. CASE EmergencyClose
  BY <1>1, <1>6, CloseKeeps
<1>7. CASE SErase
  BY <1>1, <1>7, EraseKeeps
<1>8. CASE PowerCycle \/ Mount
  BY <1>1, <1>8, RestartKeeps DEF PowerCycle, Mount
<1>9. CASE Remove
  BY <1>1, <1>9, RemoveKeeps
<1>10. CASE UNCHANGED vars
  BY <1>10 DEF Inv, Counters, vars, Opened, SlotsMatchCounter, OnDisk, Lag, Begun, TableBlock
<1>11. QED
  BY <1>1, <1>2, <1>3, <1>4, <1>5, <1>6, <1>7, <1>8, <1>9, <1>10 DEF Next

\* The inductive invariant holds in every state.
LEMMA Invariance ==
  ASSUME FewUnstored
  PROVE  Spec => [](Inv /\ Flags)
<1>1. Init => Inv /\ Flags
  BY InvInit, FlagsInit
<1>2. Inv /\ Flags /\ [Next]_vars => Inv' /\ Flags'
  BY InvStep, FlagsStep
<1>3. QED
  BY <1>1, <1>2, PTL DEF Spec

\* The state keeps its types: what a restart computes from whatever an interrupted
\* update left on the cartridge (sinit, FileRetrieveFileTable) is again a number
\* of entries and a writing position, and every update falls on an entry of the
\* table.
THEOREM TypeCorrect ==
  ASSUME FewUnstored
  PROVE  Spec => []TypeOK
<1>1. Inv /\ Flags => TypeOK
  BY Zenon DEF Inv, Words, Flags, TypeOK
<1>2. QED
  BY <1>1, Invariance, PTL

\* CurrentFileNumber and the entry counts of the blocks agree on where every entry
\* is, whatever is opened, closed, erased, cut off or mounted again.
THEOREM CountersAgree ==
  ASSUME FewUnstored
  PROVE  Spec => []SlotsMatchCounter
<1>1. Inv => SlotsMatchCounter
  BY DEF Inv
<1>2. QED
  BY <1>1, Invariance, PTL

\* What an interrupted update leaves on the cartridge is filled block by block
\* (FileStoreFileTable writes the block before the current one first), so that
\* the number a restart counts up to (sinit) is that of the entries in it, and a
\* cartridge in its bay is never ahead of the memory.
THEOREM CartridgeFilled ==
  ASSUME FewUnstored
  PROVE  Spec => []( \E m \in 0..Capacity :
                       /\ \A k \in Blocks : diskEntries[k] = FilledOf(m, k)
                       /\ RecoveredNumber(diskEntries) = m
                       /\ present => m <= Opened )
<1>1. Inv => \E m \in 0..Capacity :
               /\ \A k \in Blocks : diskEntries[k] = FilledOf(m, k)
               /\ RecoveredNumber(diskEntries) = m
               /\ present => m <= Opened
  BY Recovered DEF Inv, OnDisk
<1>2. QED
  BY <1>1, Invariance, PTL

-----------------------------------------------------------------------------
(* The entries by their numbers.                                           *)

\* Entry i has a block and a slot.
LEMMA Place ==
  ASSUME NEW i \in 0..(Capacity - 1)
  PROVE  /\ i \div EntriesPerBlock \in Blocks /\ i % EntriesPerBlock \in Slots
         /\ i = (i \div EntriesPerBlock) * EntriesPerBlock + (i % EntriesPerBlock)
<1>1. i \in Nat /\ i < Capacity /\ EntriesPerBlock \in Nat \ {0}
  BY CapacityFacts, GeometryAssumption
<1>2. QED
  BY <1>1, TableBlockFacts, DivMod

\* And is among the first m when its slot is filled.
LEMMA SlotUsed ==
  ASSUME NEW m \in Nat, NEW i \in 0..(Capacity - 1)
  PROVE  i % EntriesPerBlock < FilledOf(m, i \div EntriesPerBlock) <=> i < m
<1> DEFINE E == EntriesPerBlock
           b == i \div E
           s == i % E
           x == b * E
<1>1. i \in Nat /\ i < Capacity /\ E \in Nat \ {0}
  BY CapacityFacts, GeometryAssumption
<1>2. b \in Nat /\ s \in 0..(E - 1) /\ i = x + s
  BY <1>1, DivMod
<1>3. x \in Nat
  BY <1>2, BlockOrder
<1>4. /\ m <= x => FilledOf(m, b) = 0
      /\ m >= x + E => FilledOf(m, b) = E
      /\ (m >= x /\ m <= x + E) => FilledOf(m, b) = m - x
  BY <1>2, FilledFacts
<1> HIDE DEF x, b, s, E
<1>5. s < FilledOf(m, b) <=> i < m
  BY <1>1, <1>2, <1>3, <1>4
<1>6. QED
  BY <1>5 DEF b, s, E

Tables == [Blocks -> [Slots -> Entry]]

\* Entries are entries.
LEMMA EntryType ==
  ASSUME NEW t \in Tables, NEW i \in 0..(Capacity - 1)
  PROVE  EntryAt(t, i) \in Entry
<1>1. i \div EntriesPerBlock \in Blocks /\ i % EntriesPerBlock \in Slots
  BY Place
<1>2. QED
  BY <1>1 DEF Tables, EntryAt

\* One entry given a value.
LEMMA EntryGiven ==
  ASSUME NEW t \in Tables, NEW n \in 0..(Capacity - 1), NEW e \in Entry, NEW u,
         NEW d, NEW r, d = n \div EntriesPerBlock, r = n % EntriesPerBlock,
         \A c \in Blocks, q \in Slots : u[c][q] = IF c = d /\ q = r THEN e ELSE t[c][q]
  PROVE  /\ EntryAt(u, n) = e
         /\ \A i \in 0..(Capacity - 1) : i # n => EntryAt(u, i) = EntryAt(t, i)
<1> DEFINE b == n \div EntriesPerBlock
           s == n % EntriesPerBlock
<1>1. b \in Blocks /\ s \in Slots /\ n = b * EntriesPerBlock + s
  BY Place
<1> HIDE DEF b, s
<1>2. \A c \in Blocks, q \in Slots : u[c][q] = IF c = b /\ q = s THEN e ELSE t[c][q]
  <2>1. d = b /\ r = s
    BY DEF b, s
  <2>2. QED
    BY <2>1, Zenon
<1>3. EntryAt(u, n) = e
  BY <1>1, <1>2 DEF EntryAt, b, s
<1>4. ASSUME NEW i \in 0..(Capacity - 1), i # n
      PROVE  EntryAt(u, i) = EntryAt(t, i)
  <2> DEFINE c == i \div EntriesPerBlock
             q == i % EntriesPerBlock
  <2>1. c \in Blocks /\ q \in Slots /\ i = c * EntriesPerBlock + q
    BY Place
  <2> HIDE DEF c, q
  <2>2. ~(c = b /\ q = s)
    BY <1>1, <1>4, <2>1
  <2>3. u[c][q] = t[c][q]
    BY <1>2, <2>1, <2>2
  <2>4. QED
    BY <2>3 DEF EntryAt, c, q
<1>5. QED
  BY <1>3, <1>4

-----------------------------------------------------------------------------
(* The invariant.                                                          *)

\* What a restart would count.
Found == RecoveredNumber(diskEntries)

\* The last block of the table stays empty.
Room == (MaxStanagBlocks - 1) * EntriesPerBlock
RoomLeft == MaxStanagBlocks >= 2 /\ FileLimit <= Room

\* The position behind the first n entries.
Behind(t, n) == IF n = 0 THEN ReservedBlocks ELSE EndOf(EntryAt(t, n - 1))

\* The first n entries lie one behind the other: each at the end of the one before,
\* and so behind all before it.
Laid(t, n) ==
  /\ \A i \in 0..(n - 1) : EntryAt(t, i).count >= 0
  /\ \A i \in 0..(n - 1) : EntryAt(t, i).start = Behind(t, i)
  /\ \A i, l \in 0..(n - 1) : i < l => EndOf(EntryAt(t, i)) <= EntryAt(t, l).start

\* In memory; the next one begins, or the open one has begun, at the writing position.
MemoryLaid ==
  /\ Laid(fileTable, Opened)
  /\ currentWriteBlock = Behind(fileTable, currentFileNumber)
  /\ currentFileState = "open" =>
       EntryAt(fileTable, currentFileNumber)
         = [start |-> currentWriteBlock, count |-> CeilBlocks(totalBytesWritten)]

\* The cartridge has the entries of the memory, the size of the open one aside while
\* an update is under way.
Agree ==
  present => \A i \in 0..(Found - 1) :
    /\ EntryAt(diskTable, i).start = EntryAt(fileTable, i).start
    /\ (i # currentFileNumber \/ pending = <<>>) => EntryAt(diskTable, i) = EntryAt(fileTable, i)

Bounds == Opened <= Room /\ Found <= Room /\ (keepsSetup => Found >= 1 /\ currentFileNumber >= 1)

Contents ==
  /\ MemoryLaid
  /\ Laid(diskTable, Found)
  /\ Agree
  /\ Bounds

-----------------------------------------------------------------------------
(* Lemmas about the parts.                                                 *)

LEMMA RoomFacts ==
  ASSUME RoomLeft
  PROVE  /\ Room \in Nat /\ Room >= 1 /\ FileLimit <= Room
         /\ Capacity = Room + EntriesPerBlock /\ Capacity \in Nat
<1>1. MaxStanagBlocks \in Nat /\ EntriesPerBlock \in Nat /\ EntriesPerBlock >= 1
      /\ MaxStanagBlocks - 1 \in Nat /\ 1 <= MaxStanagBlocks - 1
  BY GeometryAssumption DEF RoomLeft
<1>2. 1 * EntriesPerBlock <= Room
  BY <1>1, ProductMonotone DEF Room
<1>3. Room \in Nat /\ 1 * EntriesPerBlock = EntriesPerBlock
  BY <1>1, BlockOrder DEF Room
<1>4. Room = Capacity - EntriesPerBlock
  BY <1>1, ProductNext DEF Room, Capacity
<1>5. QED
  BY <1>1, <1>2, <1>3, <1>4, CapacityFacts DEF RoomLeft

\* What the cartridge holds, in numbers.
LEMMA FoundFacts ==
  ASSUME Inv
  PROVE  /\ Found \in 0..Capacity
         /\ \A k \in Blocks : diskEntries[k] = FilledOf(Found, k)
         /\ present => Found <= Opened /\ Lag(Found)
<1>1. PICK m \in 0..Capacity : OnDisk(m)
  BY DEF Inv
<1>2. Found = m
  BY <1>1, Recovered DEF OnDisk, Inv, Found
<1>3. QED
  BY <1>1, <1>2 DEF OnDisk

\* The numbers of the counters.
LEMMA Numbers ==
  ASSUME Inv
  PROVE  /\ currentFileNumber \in Nat /\ Opened \in Nat /\ Opened <= Capacity
         /\ Opened = IF currentFileState = "open" THEN currentFileNumber + 1
                     ELSE currentFileNumber
         /\ fileTable \in Tables /\ diskTable \in Tables
         /\ currentWriteBlock \in Int /\ totalBytesWritten \in Nat
BY DEF Inv, Words, Opened, Tables

\* No entry is behind the position at the end of the last.
LEMMA LaidLast ==
  ASSUME NEW t \in Tables, NEW n \in 0..Capacity, Laid(t, n), NEW i \in 0..(n - 1)
  PROVE  EndOf(EntryAt(t, i)) <= Behind(t, n)
<1>1. n \in Nat /\ n # 0 /\ n - 1 \in 0..(n - 1) /\ i \in 0..(Capacity - 1)
      /\ n - 1 \in 0..(Capacity - 1)
  BY CapacityFacts
<1>2. EntryAt(t, i) \in Entry /\ EntryAt(t, n - 1) \in Entry
  BY <1>1, EntryType
<1>3. EntryAt(t, n - 1).count >= 0 /\ (i < n - 1 => EndOf(EntryAt(t, i)) <= EntryAt(t, n - 1).start)
  BY <1>1 DEF Laid
<1>4. Behind(t, n) = EndOf(EntryAt(t, n - 1))
  BY <1>1 DEF Behind
<1>5. /\ EndOf(EntryAt(t, i)) \in Int /\ EndOf(EntryAt(t, n - 1)) \in Int
      /\ EntryAt(t, n - 1).start \in Int
      /\ EntryAt(t, n - 1).start <= EndOf(EntryAt(t, n - 1))
  <2> DEFINE x == EntryAt(t, i)
             y == EntryAt(t, n - 1)
  <2>1. x \in Entry /\ y \in Entry /\ y.count >= 0
    BY <1>2, <1>3
  <2> HIDE DEF x, y
  <2>2. EndOf(x) \in Int /\ EndOf(y) \in Int /\ y.start \in Int /\ y.start <= EndOf(y)
    BY <2>1 DEF EndOf
  <2>3. QED
    BY <2>2 DEF x, y
<1>6. i = n - 1 \/ i < n - 1
  BY <1>1
<1>7. QED
  <2>1. CASE i = n - 1
    BY <1>4, <1>5, <2>1
  <2>2. CASE i < n - 1
    BY <1>3, <1>4, <1>5, <2>2
  <2>3. QED
    BY <1>6, <2>1, <2>2

\* Two tables with the same entries.
LEMMA LaidSame ==
  ASSUME NEW t, NEW u, NEW n \in Nat, Laid(t, n),
         \A i \in 0..(n - 1) : EntryAt(u, i) = EntryAt(t, i)
  PROVE  Laid(u, n) /\ Behind(u, n) = Behind(t, n)
<1>1. \A i \in 0..n : Behind(u, i) = Behind(t, i)
  BY DEF Behind
<1>2. QED
  BY <1>1 DEF Laid

\* One entry more.
LEMMA LaidMore ==
  ASSUME NEW t \in Tables, NEW n \in 0..(Capacity - 1), Laid(t, n),
         EntryAt(t, n).start = Behind(t, n), EntryAt(t, n).count >= 0
  PROVE  Laid(t, n + 1)
<1>1. n \in Nat /\ n \in 0..Capacity /\ 0..(n + 1 - 1) = 0..(n - 1) \cup {n}
  BY CapacityFacts
<1>2. \A i \in 0..(n - 1) : EndOf(EntryAt(t, i)) <= EntryAt(t, n).start
  BY <1>1, LaidLast
<1>3. QED
  BY <1>1, <1>2 DEF Laid

\* Nothing is written of a recording of no bytes.
LEMMA CeilZero == CeilBlocks(0) = 0
<1>1. BlockSize \in Nat \ {0} /\ 0 * BlockSize = 0 /\ BlockSize - 1 \in 0..(BlockSize - 1)
  BY GeometryAssumption
<1>2. (0 * BlockSize + (BlockSize - 1)) \div BlockSize = 0
  BY <1>1, DivModUnique
<1>3. 0 + BlockSize - 1 = 0 * BlockSize + (BlockSize - 1)
  BY <1>1
<1>4. QED
  BY <1>2, <1>3 DEF CeilBlocks

\* The writing position a restart computes is the end of the last entry it counts, as
\* long as the table has a block without entries.
LEMMA PositionFound ==
  ASSUME RoomLeft, NEW t \in Tables, NEW num \in [Blocks -> Nat], NEW m \in 0..Room,
         \A k \in Blocks : num[k] = FilledOf(m, k)
  PROVE  RecoveredWriteBlock(t, num) = Behind(t, m)
<1> DEFINE E == EntriesPerBlock
           j == FirstEmptyBlock(num)
<1>1. /\ E \in Nat \ {0} /\ MaxStanagBlocks \in Nat /\ MaxStanagBlocks >= 2
      /\ m \in Nat /\ m <= Room /\ m \in 0..Capacity /\ Room \in Nat
  BY GeometryAssumption, RoomFacts DEF RoomLeft
<1>2. RecoveredNumber(num) = m /\ j \in 0..MaxStanagBlocks
      /\ \A k \in Blocks : k < j <=> num[k] # 0
  BY <1>1, RecoveredNumberFound, FirstEmptyFound DEF Capacity
<1>3. \A k \in Blocks : k \in Nat /\ (num[k] # 0 <=> m > k * E)
  <2> SUFFICES ASSUME NEW k \in Blocks
               PROVE  k \in Nat /\ (num[k] # 0 <=> m > k * E)
    OBVIOUS
  <2>1. k \in Nat /\ k * E \in Nat
    BY <1>1, BlockOrder DEF Blocks
  <2>2. FilledOf(m, k) = 0 <=> m <= k * E
    BY <1>1, <2>1, FilledFacts
  <2>3. QED
    BY <1>1, <2>1, <2>2
<1>4. CASE m = 0
  <2>1. 0 \in Blocks /\ ~(m > 0 * E)
    BY <1>1, <1>4 DEF Blocks
  <2>2. ~(0 < j)
    BY <1>2, <1>3, <2>1
  <2>3. j = 0
    BY <1>1, <1>2, <2>2
  <2>4. QED
    BY <1>4, <2>3 DEF RecoveredWriteBlock, Behind
<1>5. CASE m # 0
  <2> DEFINE c == (m - 1) \div E
             s == (m - 1) % E
  <2>1. m - 1 \in Nat
    BY <1>1, <1>5
  <2>2. c \in Nat /\ s \in 0..(E - 1) /\ m - 1 = c * E + s
    BY <1>1, <2>1, DivMod
  <2> HIDE DEF c, s, j, E
  <2>3. c * E \in Nat /\ (c + 1) * E = c * E + E
    BY <1>1, <2>2, BlockOrder, ProductNext DEF E
  <2>4. c < MaxStanagBlocks - 1
    <3>1. SUFFICES ASSUME MaxStanagBlocks - 1 <= c
                   PROVE  FALSE
      BY <1>1, <2>2
    <3>2. Room <= c * E
      BY <1>1, <2>2, <3>1, ProductMonotone DEF Room, E
    <3>3. QED
      BY <1>1, <2>2, <2>3, <3>2
  <2>5. c \in Blocks /\ c + 1 \in Blocks
    BY <1>1, <2>2, <2>4 DEF Blocks
  <2>6. c < j /\ ~(c + 1 < j)
    <3>1. m > c * E /\ ~(m > (c + 1) * E)
      BY <1>1, <2>2, <2>3
    <3>2. QED
      BY <1>2, <1>3, <2>5, <3>1 DEF E, j
  <2>7. j = c + 1 /\ j # 0 /\ j # MaxStanagBlocks /\ j - 1 = c
    BY <1>1, <1>2, <2>2, <2>4, <2>6 DEF j
  <2>8. RecoveredWriteBlock(t, num) = EndOf(t[j - 1][(m - 1) % E])
    BY <1>2, <2>7 DEF RecoveredWriteBlock, j, E
  <2>9. QED
    BY <1>5, <2>7, <2>8 DEF Behind, EntryAt, c, E
<1>6. QED
  BY <1>4, <1>5

-----------------------------------------------------------------------------
(* The contents, action by action.                                         *)

\* An entry is opened at the writing position, behind all others.
LEMMA SOpenContents ==
  ASSUME RoomLeft, Inv, Inv', Contents, SOpen
  PROVE  Contents'
<1> DEFINE n == currentFileNumber
           e == [start |-> currentWriteBlock, count |-> 0]
<1>1. /\ n \in 0..(Capacity - 1) /\ n \in Nat /\ n < Room /\ present /\ pending = <<>>
      /\ currentFileState = "closed" /\ currentFileState' = "open"
      /\ UNCHANGED <<diskTable, diskEntries, currentFileNumber, currentWriteBlock, keepsSetup,
                     pending>>
      /\ totalBytesWritten' = 0
  BY Numbers, RoomFacts, GeometryAssumption, BoundAssumption DEF SOpen
<1>2. Opened = n /\ Opened' = n + 1 /\ Found' = Found
  BY <1>1 DEF Opened, Found
<1>3. fileTable \in Tables /\ fileTable' \in Tables /\ currentWriteBlock \in Int /\ e \in Entry
  BY Numbers DEF Inv, Words, Tables
<1>4. fileTable' = [fileTable EXCEPT ![n \div EntriesPerBlock][n % EntriesPerBlock] = e]
  <2>1. numberOfFilesEntries[TableBlock] = n % EntriesPerBlock
    BY <1>1, NextSlot, CapacityFacts
  <2>2. QED
    BY <2>1 DEF SOpen, TableBlock
<1> HIDE DEF e
<1>5. EntryAt(fileTable', n) = e
      /\ \A i \in 0..(Capacity - 1) : i # n => EntryAt(fileTable', i) = EntryAt(fileTable, i)
  <2> DEFINE d == n \div EntriesPerBlock
             r == n % EntriesPerBlock
  <2>1. fileTable' = [fileTable EXCEPT ![d][r] = e]
    BY <1>4
  <2>2. d = n \div EntriesPerBlock /\ r = n % EntriesPerBlock
    OBVIOUS
  <2> HIDE DEF d, r
  <2>3. QED
    <3>1. n \in 0..(Capacity - 1) /\ fileTable \in Tables /\ e \in Entry
      BY <1>1, <1>3
    <3>2. d \in Blocks /\ r \in Slots
      BY <2>2, <3>1, Place
    <3> HIDE DEF n
    <3>3. \A c \in Blocks, q \in Slots :
            fileTable'[c][q] = IF c = d /\ q = r THEN e ELSE fileTable[c][q]
      BY <2>1, <3>1, <3>2 DEF Tables
    <3>4. QED
      BY <2>2, <3>1, <3>3, EntryGiven
<1>6. \A i \in 0..(n - 1) : EntryAt(fileTable', i) = EntryAt(fileTable, i)
  BY <1>1, <1>5, CapacityFacts
<1>7. Laid(fileTable, n) /\ currentWriteBlock = Behind(fileTable, n)
  BY <1>2 DEF Contents, MemoryLaid
<1>8. Laid(fileTable', n) /\ Behind(fileTable', n) = Behind(fileTable, n)
  BY <1>1, <1>6, <1>7, LaidSame, Zenon
<1>9. Laid(fileTable', n + 1)
  BY <1>1, <1>3, <1>5, <1>7, <1>8, LaidMore DEF e
<1>10. MemoryLaid'
  BY <1>1, <1>2, <1>5, <1>7, <1>8, <1>9, CeilZero DEF MemoryLaid, e
<1>11. Laid(diskTable, Found)'
  BY <1>1, <1>2 DEF Contents, Laid, Behind
<1>12. Agree'
  <2>1. Found \in Nat /\ Found <= n
    BY <1>1, <1>2, FoundFacts
  <2>2. \A i \in 0..(Found - 1) : EntryAt(diskTable, i) = EntryAt(fileTable, i)
    BY <1>1 DEF Contents, Agree
  <2>3. \A i \in 0..(Found - 1) : EntryAt(diskTable', i) = EntryAt(fileTable', i)
    BY <1>1, <1>6, <2>1, <2>2
  <2>4. QED
    BY <1>2, <2>3 DEF Agree
<1>13. Bounds'
  BY <1>1, <1>2, RoomFacts DEF Contents, Bounds
<1>14. QED
  BY <1>10, <1>11, <1>12, <1>13 DEF Contents

\* An update changes the size of the open entry, which is the last.
LEMMA UpdateContents ==
  ASSUME RoomLeft, Inv, Inv', Contents, NEW bytes \in Nat, UpdateStanag(bytes),
         present, pending = <<>>, currentFileState = "open",
         UNCHANGED <<diskTable, diskEntries, currentFileNumber, currentWriteBlock,
                     currentFileState, keepsSetup, present>>
  PROVE  Contents'
<1> DEFINE n == currentFileNumber
           e == [start |-> EntryAt(fileTable, n).start, count |-> CeilBlocks(bytes)]
<1>1. n \in 0..(Capacity - 1) /\ n \in Nat /\ Opened = n + 1 /\ Opened' = n + 1
      /\ Found' = Found /\ totalBytesWritten' = bytes /\ n < Room
  BY Numbers, RoomFacts DEF Opened, Found, UpdateStanag, Contents, Bounds
<1>2. /\ fileTable \in Tables /\ fileTable' \in Tables /\ CeilBlocks(bytes) \in Nat
      /\ EntryAt(fileTable, n) \in Entry
  BY <1>1, Numbers, CeilBlocksType, EntryType DEF Inv, Words, Tables
<1>3. fileTable' = [fileTable EXCEPT ![n \div EntriesPerBlock][n % EntriesPerBlock] = e]
  BY UpdateIs DEF TableBlock, EntryAt
<1>4. e \in Entry
  BY <1>2
<1> HIDE DEF e
<1>5. EntryAt(fileTable', n) = e
      /\ \A i \in 0..(Capacity - 1) : i # n => EntryAt(fileTable', i) = EntryAt(fileTable, i)
  <2> DEFINE d == n \div EntriesPerBlock
             r == n % EntriesPerBlock
  <2>1. fileTable' = [fileTable EXCEPT ![d][r] = e]
    BY <1>3
  <2>2. d = n \div EntriesPerBlock /\ r = n % EntriesPerBlock
    OBVIOUS
  <2> HIDE DEF d, r
  <2>3. QED
    <3>1. n \in 0..(Capacity - 1) /\ fileTable \in Tables /\ e \in Entry
      BY <1>1, <1>2, <1>4
    <3>2. d \in Blocks /\ r \in Slots
      BY <2>2, <3>1, Place
    <3> HIDE DEF n
    <3>3. \A c \in Blocks, q \in Slots :
            fileTable'[c][q] = IF c = d /\ q = r THEN e ELSE fileTable[c][q]
      BY <2>1, <3>1, <3>2 DEF Tables
    <3>4. QED
      BY <2>2, <3>1, <3>3, EntryGiven
<1>6. \A i \in 0..(n - 1) : EntryAt(fileTable', i) = EntryAt(fileTable, i)
  BY <1>1, <1>5, CapacityFacts
<1>7. /\ Laid(fileTable, n) /\ currentWriteBlock = Behind(fileTable, n)
      /\ EntryAt(fileTable, n).start = currentWriteBlock
  BY <1>1 DEF Contents, MemoryLaid, Laid
<1>8. Laid(fileTable', n) /\ Behind(fileTable', n) = Behind(fileTable, n)
  BY <1>1, <1>6, <1>7, LaidSame, Zenon
<1>9. e = [start |-> currentWriteBlock, count |-> CeilBlocks(bytes)]
  BY <1>7 DEF e
<1>10. Laid(fileTable', n + 1)
  BY <1>1, <1>2, <1>5, <1>7, <1>8, <1>9, LaidMore
<1>11. MemoryLaid'
  BY <1>1, <1>5, <1>7, <1>8, <1>9, <1>10 DEF MemoryLaid
<1>12. Laid(diskTable, Found)'
  BY <1>1 DEF Contents, Laid, Behind
<1>13. Agree'
  <2>1. Found \in Nat /\ Found <= n + 1 /\ pending' # <<>>
    BY <1>1, FoundFacts DEF UpdateStanag, StoreOrder
  <2>2. \A i \in 0..(Found - 1) : EntryAt(diskTable, i) = EntryAt(fileTable, i)
    BY DEF Contents, Agree
  <2>3. \A i \in 0..(Found - 1) :
          /\ EntryAt(diskTable', i).start = EntryAt(fileTable', i).start
          /\ i # n => EntryAt(diskTable', i) = EntryAt(fileTable', i)
    <3>1. EntryAt(fileTable', n).start = EntryAt(fileTable, n).start
      BY <1>5 DEF e
    <3>2. QED
      BY <1>1, <1>6, <2>1, <2>2, <3>1
  <2>4. QED
    BY <1>1, <2>1, <2>3 DEF Agree
<1>14. Bounds'
  BY <1>1 DEF Contents, Bounds
<1>15. QED
  BY <1>11, <1>12, <1>13, <1>14 DEF Contents

\* A block written holds what the memory holds; the others stay.
LEMMA BlockWritten ==
  ASSUME RoomLeft, Inv, Inv', Contents, WriteTableBlock
  PROVE  /\ Found' \in Nat /\ Found' <= Opened /\ Found <= Opened
         /\ \A i \in 0..(Found' - 1) :
              \/ EntryAt(diskTable', i) = EntryAt(fileTable, i)
              \/ i \in 0..(Found - 1) /\ EntryAt(diskTable', i) = EntryAt(diskTable, i)
         /\ \A i \in 0..(Opened - 1) :
              i \div EntriesPerBlock = Head(pending)
                => i \in 0..(Found' - 1) /\ EntryAt(diskTable', i) = EntryAt(fileTable, i)
         /\ Found' >= Found
<1> DEFINE k == Head(pending)
<1>1. /\ present /\ present' = present /\ Opened' = Opened
      /\ diskTable' = [diskTable EXCEPT ![k] = fileTable[k]]
      /\ diskEntries' = [diskEntries EXCEPT ![k] = numberOfFilesEntries[k]]
      /\ k \in Blocks
  BY DEF WriteTableBlock, Opened, Inv, Words
<1>2. /\ Found \in 0..Capacity /\ Found <= Opened
      /\ \A b \in Blocks : diskEntries[b] = FilledOf(Found, b)
  BY <1>1, FoundFacts
<1>3. /\ Found' \in 0..Capacity /\ Found' <= Opened
      /\ \A b \in Blocks : diskEntries'[b] = FilledOf(Found', b)
  <2>1. PICK m \in 0..Capacity : OnDisk(m)'
    BY DEF Inv
  <2>2. m <= Opened /\ \A b \in Blocks : diskEntries'[b] = FilledOf(m, b)
    BY <1>1, <2>1 DEF OnDisk
  <2>3. diskEntries' \in [Blocks -> Nat]
    BY DEF Inv, Words
  <2>4. RecoveredNumber(diskEntries') = m
    BY <2>2, <2>3, RecoveredNumberFound DEF Capacity
  <2>5. QED
    BY <2>1, <2>2, <2>4 DEF Found
<1>4. /\ diskTable \in Tables /\ Opened \in Nat /\ Opened <= Capacity /\ Capacity \in Nat
      /\ diskEntries \in [Blocks -> Nat]
      /\ \A b \in Blocks : numberOfFilesEntries[b] = FilledOf(Opened, b)
  BY Numbers, CapacityFacts DEF Inv, SlotsMatchCounter, Words
<1> HIDE DEF k
<1>5. ASSUME NEW i \in 0..(Capacity - 1), i \div EntriesPerBlock = k
      PROVE  (i < Found' <=> i < Opened) /\ EntryAt(diskTable', i) = EntryAt(fileTable, i)
  <2>1. FilledOf(Found', k) = FilledOf(Opened, k)
    BY <1>1, <1>3, <1>4
  <2>2. i < Found' <=> i < Opened
    BY <1>3, <1>4, <1>5, <2>1, SlotUsed
  <2>3. diskTable'[k] = fileTable[k]
    BY <1>1, <1>4 DEF Tables
  <2>4. QED
    BY <1>5, <2>2, <2>3 DEF EntryAt
<1>6. ASSUME NEW i \in 0..(Capacity - 1), i \div EntriesPerBlock # k
      PROVE  (i < Found' <=> i < Found) /\ EntryAt(diskTable', i) = EntryAt(diskTable, i)
  <2> DEFINE b == i \div EntriesPerBlock
  <2>1. b \in Blocks
    BY Place
  <2>2. b # k
    BY <1>6
  <2> HIDE DEF b
  <2>3. FilledOf(Found', b) = FilledOf(Found, b) /\ diskTable'[b] = diskTable[b]
    BY <1>1, <1>2, <1>3, <1>4, <2>1, <2>2 DEF Tables
  <2>4. i < Found' <=> i < Found
    BY <1>2, <1>3, <1>4, <2>3, SlotUsed DEF b
  <2>5. QED
    BY <2>3, <2>4 DEF EntryAt, b
<1>7. ASSUME NEW i \in 0..(Found' - 1)
      PROVE  \/ EntryAt(diskTable', i) = EntryAt(fileTable, i)
             \/ i \in 0..(Found - 1) /\ EntryAt(diskTable', i) = EntryAt(diskTable, i)
  <2>1. i \in 0..(Capacity - 1) /\ i < Found' /\ i \in Nat
    <3>1. \A f \in 0..Capacity : \A x \in 0..(f - 1) : x \in 0..(Capacity - 1) /\ x < f /\ x \in Nat
      BY <1>4
    <3>2. QED
      BY <1>3, <3>1
  <2>2. CASE i \div EntriesPerBlock = k
    BY <1>5, <2>1, <2>2
  <2>3. CASE i \div EntriesPerBlock # k
    <3>1. i < Found /\ EntryAt(diskTable', i) = EntryAt(diskTable, i)
      BY <1>6, <2>1, <2>3
    <3>2. QED
      BY <1>2, <1>4, <2>1, <3>1
  <2>4. QED
    BY <2>2, <2>3
<1>8. ASSUME NEW i \in 0..(Opened - 1), i \div EntriesPerBlock = k
      PROVE  i \in 0..(Found' - 1) /\ EntryAt(diskTable', i) = EntryAt(fileTable, i)
  <2>1. i \in 0..(Capacity - 1) /\ i < Opened /\ i \in Nat
    BY <1>4
  <2>2. i < Found' /\ EntryAt(diskTable', i) = EntryAt(fileTable, i)
    BY <1>5, <1>8, <2>1
  <2>3. \A f \in 0..Capacity : \A x \in Nat : x < f => x \in 0..(f - 1)
    BY <1>4
  <2>4. QED
    BY <1>3, <2>1, <2>2, <2>3
<1>9. Found' >= Found
  <2>1. CASE Found = 0
    BY <1>3, <1>4, <2>1
  <2>2. CASE Found # 0
    <3> DEFINE i == Found - 1
    <3>1. i \in 0..(Capacity - 1) /\ i < Found /\ i < Opened /\ i \in Nat /\ Found = i + 1
      BY <1>2, <1>4, <2>2
    <3> HIDE DEF i
    <3>2. i < Found'
      BY <1>5, <1>6, <3>1
    <3>3. Found' \in Nat
      BY <1>3, <1>4
    <3>4. QED
      BY <3>1, <3>2, <3>3
  <2>3. QED
    BY <2>1, <2>2
<1>10. Found' \in Nat
  BY <1>3, <1>4
<1>11. QED
  BY <1>2, <1>3, <1>7, <1>8, <1>9, <1>10, Zenon DEF k

\* A write of an update brings the cartridge nearer to the memory.
LEMMA WriteContents ==
  ASSUME RoomLeft, Inv, Inv', Contents, WriteTableBlock
  PROVE  Contents'
<1> DEFINE n == currentFileNumber
<1>1. /\ present /\ present' = present /\ pending # <<>> /\ pending' = Tail(pending)
      /\ UNCHANGED <<fileTable, currentFileNumber, currentFileState, currentWriteBlock,
                     totalBytesWritten, keepsSetup>>
      /\ Opened' = Opened
  BY DEF WriteTableBlock, Opened
<1>2. /\ currentFileState = "open" /\ Opened = n + 1 /\ n \in Nat /\ n + 1 <= Capacity
      /\ Found \in 0..Capacity /\ Found <= n + 1 /\ Capacity \in Nat
      /\ pending' = <<>> => Head(pending) = n \div EntriesPerBlock
  <2>1. Lag(Found)
    BY <1>1, FoundFacts
  <2>2. /\ currentFileState = "open"
        /\ pending = <<TableBlock - 1, TableBlock>> \/ pending = <<TableBlock>>
    BY <1>1, <2>1 DEF Lag
  <2>3. pending' = <<>> => Head(pending) = TableBlock
    <3>1. CASE pending = <<TableBlock - 1, TableBlock>>
      <4>1. Tail(pending) = <<TableBlock>> /\ <<TableBlock>> # <<>>
        BY <3>1
      <4>2. QED
        BY <1>1, <4>1
    <3>2. CASE pending = <<TableBlock>>
      BY <3>2
    <3>3. QED
      BY <2>2, <3>1, <3>2
  <2>4. QED
    BY <1>1, <2>2, <2>3, Numbers, FoundFacts, CapacityFacts DEF TableBlock
<1>3. /\ Found' \in Nat /\ Found' <= n + 1
      /\ \A i \in 0..(Found' - 1) :
           \/ EntryAt(diskTable', i) = EntryAt(fileTable, i)
           \/ i \in 0..(Found - 1) /\ EntryAt(diskTable', i) = EntryAt(diskTable, i)
      /\ \A i \in 0..n :
           i \div EntriesPerBlock = Head(pending)
             => i \in 0..(Found' - 1) /\ EntryAt(diskTable', i) = EntryAt(fileTable, i)
      /\ Found' >= Found
  BY <1>2, BlockWritten
<1>4. /\ Laid(fileTable, n + 1) /\ Laid(diskTable, Found)
      /\ \A i \in 0..(Found - 1) :
           /\ EntryAt(diskTable, i).start = EntryAt(fileTable, i).start
           /\ i # n => EntryAt(diskTable, i) = EntryAt(fileTable, i)
  BY <1>1, <1>2 DEF Contents, MemoryLaid, Agree
<1>3a. n \in Nat /\ Found' \in Nat /\ Found' <= n + 1
  BY <1>2, <1>3
<1> HIDE DEF n
<1>3b. \A i \in 0..(Found' - 1) : i \in 0..n /\ (i # 0 => i - 1 \in 0..(Found' - 1) /\ i - 1 # n)
  <2>1. \A f \in Nat : f <= n + 1 =>
          \A i \in 0..(f - 1) : i \in 0..n /\ (i # 0 => i - 1 \in 0..(f - 1) /\ i - 1 # n)
    BY <1>3a
  <2>2. QED
    BY <1>3a, <2>1
<1>5. MemoryLaid'
  BY <1>1 DEF Contents, MemoryLaid, Laid, Behind
<1>6. \A i \in 0..(Found' - 1) :
        /\ EntryAt(diskTable', i).start = EntryAt(fileTable, i).start
        /\ i # n => EntryAt(diskTable', i) = EntryAt(fileTable, i)
        /\ EntryAt(diskTable', i).count >= 0
        /\ i \in 0..n
  <2> SUFFICES ASSUME NEW i \in 0..(Found' - 1)
               PROVE  /\ EntryAt(diskTable', i).start = EntryAt(fileTable, i).start
                      /\ i # n => EntryAt(diskTable', i) = EntryAt(fileTable, i)
                      /\ EntryAt(diskTable', i).count >= 0
                      /\ i \in 0..n
    OBVIOUS
  <2>1. i \in 0..n
    BY <1>3b
  <2>2. EntryAt(fileTable, i).count >= 0
    BY <1>2, <1>4, <2>1 DEF Laid
  <2>3. CASE EntryAt(diskTable', i) = EntryAt(fileTable, i)
    BY <2>1, <2>2, <2>3
  <2>4. CASE i \in 0..(Found - 1) /\ EntryAt(diskTable', i) = EntryAt(diskTable, i)
    BY <1>4, <2>1, <2>4 DEF Laid
  <2>5. QED
    BY <1>3, <2>3, <2>4
<1>7. Laid(diskTable', Found')
  <2>1. ASSUME NEW i \in 0..(Found' - 1)
        PROVE  EntryAt(diskTable', i).start = Behind(diskTable', i)
    <3>1. i \in 0..n /\ EntryAt(fileTable, i).start = Behind(fileTable, i)
      BY <1>2, <1>4, <1>6 DEF Laid
    <3>2. i # 0 => EntryAt(diskTable', i - 1) = EntryAt(fileTable, i - 1)
      BY <1>3b, <1>6
    <3>3. Behind(diskTable', i) = Behind(fileTable, i)
      BY <3>2 DEF Behind
    <3>4. QED
      BY <1>6, <3>1, <3>3
  <2>2. ASSUME NEW i \in 0..(Found' - 1), NEW l \in 0..(Found' - 1), i < l
        PROVE  EndOf(EntryAt(diskTable', i)) <= EntryAt(diskTable', l).start
    <3>1. i \in 0..n /\ l \in 0..n
      BY <1>6
    <3>2. i # n
      BY <1>2, <2>2, <3>1
    <3>3. EndOf(EntryAt(fileTable, i)) <= EntryAt(fileTable, l).start
      BY <1>2, <1>4, <2>2, <3>1 DEF Laid
    <3>4. QED
      BY <1>6, <3>2, <3>3
  <2>3. QED
    BY <1>6, <2>1, <2>2 DEF Laid
<1>8. Agree'
  <2>1. ASSUME pending' = <<>>
        PROVE  n \in 0..(Found' - 1) /\ EntryAt(diskTable', n) = EntryAt(fileTable, n)
    <3>1. n \in 0..n /\ n \div EntriesPerBlock = Head(pending)
      BY <1>2, <1>3a, <2>1 DEF n
    <3>2. QED
      BY <1>3, <3>1
  <2>2. QED
    BY <1>1, <1>6, <2>1 DEF Agree, n
<1>9. Bounds'
  BY <1>1, <1>2, <1>3, RoomFacts DEF Contents, Bounds, n
<1>10. Laid(diskTable, Found)'
  BY <1>7 DEF Laid, Behind
<1>11. QED
  BY <1>5, <1>8, <1>9, <1>10 DEF Contents

\* The next writing position is the end of the entry closed.
LEMMA CloseContents ==
  ASSUME RoomLeft, Inv, Inv', Contents, EmergencyClose
  PROVE  Contents'
<1> DEFINE n == currentFileNumber
<1>1. /\ pending = <<>> /\ pending' = <<>> /\ currentFileState = "open"
      /\ currentFileState' = "closed" /\ currentFileNumber' = n + 1
      /\ currentWriteBlock' = currentWriteBlock + CeilBlocks(totalBytesWritten)
      /\ UNCHANGED <<fileTable, diskTable, diskEntries, keepsSetup>> /\ (present' <=> present)
      /\ n \in Nat
  BY Numbers DEF EmergencyClose
<1>2. Opened = n + 1 /\ Opened' = n + 1 /\ Found' = Found
  BY <1>1 DEF Opened, Found
<1>3. EntryAt(fileTable, n) = [start |-> currentWriteBlock, count |-> CeilBlocks(totalBytesWritten)]
      /\ Laid(fileTable, n + 1)
  BY <1>1, <1>2 DEF Contents, MemoryLaid
<1>4. currentWriteBlock' = Behind(fileTable, n + 1)
  BY <1>1, <1>3 DEF Behind, EndOf
<1>5. MemoryLaid'
  BY <1>1, <1>2, <1>3, <1>4 DEF MemoryLaid, Laid, Behind
<1>6. Laid(diskTable, Found)' /\ Agree'
  BY <1>1, <1>2 DEF Contents, Laid, Behind, Agree
<1>7. Bounds'
  BY <1>1, <1>2 DEF Contents, Bounds
<1>8. QED
  BY <1>5, <1>6, <1>7 DEF Contents

\* A table of one entry, and of none.
LEMMA LaidStart ==
  ASSUME NEW t
  PROVE  /\ Laid(t, 0)
         /\ EntryAt(t, 0) = t[0][0]
         /\ (t[0][0].start = ReservedBlocks /\ t[0][0].count >= 0) => Laid(t, 1)
<1>1. 0..(0 - 1) = {} /\ 0..(1 - 1) = {0}
  OBVIOUS
<1>2. 0 \div EntriesPerBlock = 0 /\ 0 % EntriesPerBlock = 0
  <2>1. EntriesPerBlock \in Nat \ {0} /\ 0 * EntriesPerBlock = 0
        /\ 0 \in 0..(EntriesPerBlock - 1)
    BY GeometryAssumption
  <2>2. (0 * EntriesPerBlock + 0) \div EntriesPerBlock = 0
        /\ (0 * EntriesPerBlock + 0) % EntriesPerBlock = 0
    BY <2>1, DivModUnique
  <2>3. QED
    BY <2>1, <2>2
<1>3. EntryAt(t, 0) = t[0][0]
  BY <1>2 DEF EntryAt
<1>4. QED
  BY <1>1, <1>3 DEF Laid, Behind

\* An erase leaves the first entry or none, in memory and on the cartridge alike.
LEMMA EraseContents ==
  ASSUME RoomLeft, Inv, Inv', Contents, SErase
  PROVE  Contents'
<1>1. /\ pending' = <<>> /\ currentFileState = "closed" /\ currentFileState' = "closed"
      /\ diskTable' = fileTable' /\ diskEntries' = numberOfFilesEntries'
      /\ (keepsSetup' <=> keepsSetup)
  BY DEF SErase
<1>2. ASSUME NEW m \in {0, 1}, \A k \in Blocks : numberOfFilesEntries'[k] = FilledOf(m, k)
      PROVE  Found' = m
  <2>1. diskEntries' \in [Blocks -> Nat] /\ m \in 0..Capacity
    BY CapacityFacts DEF Inv, Words
  <2>2. QED
    BY <1>1, <1>2, <2>1, RecoveredNumberFound DEF Found, Capacity
<1>3. CASE EraseAll
  <2>1. /\ currentFileNumber' = 0 /\ currentWriteBlock' = ReservedBlocks /\ ~keepsSetup
        /\ \A k \in Blocks : numberOfFilesEntries'[k] = FilledOf(0, k)
    BY <1>3, FilledStart DEF EraseAll
  <2>2. Found' = 0 /\ Opened' = 0
    BY <1>1, <1>2, <2>1 DEF Opened
  <2>3. Laid(fileTable', 0)
    BY LaidStart
  <2>4. MemoryLaid'
    BY <1>1, <2>1, <2>2, <2>3 DEF MemoryLaid, Behind
  <2>5. Laid(diskTable, Found)' /\ Agree'
    BY <1>1, <2>2, <2>3 DEF Laid, Behind, Agree
  <2>6. Bounds'
    BY <1>1, <2>1, <2>2, RoomFacts DEF Bounds
  <2>7. QED
    BY <2>4, <2>5, <2>6 DEF Contents
<1>4. CASE EraseButSetup
  <2> DEFINE e == [start |-> ReservedBlocks, count |-> fileTable[0][0].count]
  <2>1. /\ currentFileNumber' = 1 /\ currentWriteBlock' = EndOf(e) /\ keepsSetup
        /\ fileTable' = [BlankTable EXCEPT ![0][0] = e]
        /\ \A k \in Blocks : numberOfFilesEntries'[k] = FilledOf(1, k)
    BY <1>4, FilledStart DEF EraseButSetup, EndOf
  <2>2. Found' = 1 /\ Opened' = 1
    BY <1>1, <1>2, <2>1 DEF Opened
  <2>3. e.count >= 0 /\ e.start = ReservedBlocks
    <3>1. currentFileNumber >= 1 /\ Opened = currentFileNumber /\ currentFileNumber \in Nat
      BY <1>1, <2>1, Numbers DEF Contents, Bounds
    <3>2. EntryAt(fileTable, 0).count >= 0
      BY <3>1 DEF Contents, MemoryLaid, Laid
    <3>3. QED
      BY <3>2, LaidStart
  <2> HIDE DEF e
  <2>4. 0 \in Blocks /\ 0 \in Slots
    BY GeometryAssumption DEF Blocks, Slots
  <2>5. fileTable'[0][0] = e
    BY <2>1, <2>4
  <2>6. Laid(fileTable', 1) /\ EntryAt(fileTable', 0) = e
    BY <2>3, <2>5, LaidStart
  <2>7. MemoryLaid'
    BY <1>1, <2>1, <2>2, <2>6 DEF MemoryLaid, Behind
  <2>8. Laid(diskTable, Found)' /\ Agree'
    BY <1>1, <2>2, <2>6 DEF Laid, Behind, Agree
  <2>9. Bounds'
    BY <1>1, <2>1, <2>2, RoomFacts DEF Bounds
  <2>10. QED
    BY <2>7, <2>8, <2>9 DEF Contents
<1>5. QED
  BY <1>3, <1>4 DEF SErase

\* A restart goes on behind the last entry of the cartridge.
LEMMA RestartContents ==
  ASSUME RoomLeft, Inv, Inv', Contents, SInit
  PROVE  Contents'
<1>1. /\ fileTable' = diskTable /\ UNCHANGED <<diskTable, diskEntries>>
      /\ currentFileNumber' = Found /\ currentFileState' = "closed" /\ pending' = <<>>
      /\ currentWriteBlock' = RecoveredWriteBlock(diskTable, diskEntries)
      /\ (keepsSetup' <=> keepsSetup)
  BY DEF SInit, Found
<1>2. Opened' = Found /\ Found' = Found
  BY <1>1 DEF Opened, Found
<1>3. /\ Found \in 0..Room /\ diskTable \in Tables /\ diskEntries \in [Blocks -> Nat]
      /\ \A k \in Blocks : diskEntries[k] = FilledOf(Found, k)
  <2>1. Found \in 0..Capacity /\ Capacity \in Nat /\ Room \in Nat /\ Found <= Room
    BY FoundFacts, RoomFacts DEF Contents, Bounds
  <2>2. Found \in 0..Room
    BY <2>1
  <2>3. QED
    BY <2>2, FoundFacts, Numbers DEF Inv, Words
<1>4. RecoveredWriteBlock(diskTable, diskEntries) = Behind(diskTable, Found)
  BY <1>3, PositionFound
<1>5. MemoryLaid'
  BY <1>1, <1>2, <1>4 DEF Contents, MemoryLaid, Laid, Behind
<1>6. Laid(diskTable, Found)' /\ Agree'
  BY <1>1, <1>2 DEF Contents, Laid, Behind, Agree
<1>7. Bounds'
  BY <1>1, <1>2 DEF Contents, Bounds
<1>8. QED
  BY <1>5, <1>6, <1>7 DEF Contents

\* The cartridge pulled takes nothing with it.
LEMMA RemoveContents ==
  ASSUME Contents, Remove
  PROVE  Contents'
<1>1. /\ present' = FALSE
      /\ UNCHANGED <<fileTable, diskTable, diskEntries, currentFileNumber, currentFileState,
                     currentWriteBlock, totalBytesWritten, keepsSetup>>
  BY DEF Remove
<1>2. Opened' = Opened /\ Found' = Found
  BY <1>1 DEF Opened, Found
<1>3. QED
  BY <1>1, <1>2 DEF Contents, MemoryLaid, Laid, Behind, Agree, Bounds

LEMMA ContentsInit ==
  ASSUME RoomLeft, Init, Inv
  PROVE  Contents
<1>1. /\ diskTable = fileTable /\ diskEntries = numberOfFilesEntries
      /\ currentFileState = "closed" /\ pending = <<>>
      /\ currentFileNumber = numberOfFilesEntries[0]
      /\ currentWriteBlock = IF currentFileNumber = 1 THEN EndOf(fileTable[0][0])
                             ELSE ReservedBlocks
      /\ 0 \in Blocks /\ 0 \in Slots
  BY GeometryAssumption DEF Init, Blocks, Slots
<1>1a. keepsSetup => currentFileNumber = 1
  BY <1>1, Zenon DEF Init
<1>2. ASSUME NEW m \in {0, 1}, \A k \in Blocks : numberOfFilesEntries[k] = FilledOf(m, k)
      PROVE  Found = m
  <2>1. diskEntries \in [Blocks -> Nat] /\ m \in 0..Capacity
    BY CapacityFacts DEF Inv, Words
  <2>2. QED
    BY <1>1, <1>2, <2>1, RecoveredNumberFound DEF Found, Capacity
<1>3. CASE fileTable = BlankTable /\ numberOfFilesEntries = NoEntries
  <2>1. currentFileNumber = 0 /\ \A k \in Blocks : numberOfFilesEntries[k] = FilledOf(0, k)
    BY <1>1, <1>3, FilledStart
  <2>2. Found = 0 /\ Opened = 0 /\ Laid(fileTable, 0)
    BY <1>1, <1>2, <2>1, LaidStart DEF Opened
  <2>3. MemoryLaid /\ Agree /\ Bounds
    BY <1>1, <1>1a, <2>1, <2>2, RoomFacts DEF MemoryLaid, Behind, Agree, Bounds
  <2>4. QED
    BY <1>1, <2>2, <2>3 DEF Contents
<1>4. ASSUME NEW c \in 1..CeilBlocks(MaxBytes),
             fileTable = [BlankTable EXCEPT ![0][0] = SetupEntry(c)],
             numberOfFilesEntries = [NoEntries EXCEPT ![0] = 1]
      PROVE  Contents
  <2>1. currentFileNumber = 1 /\ \A k \in Blocks : numberOfFilesEntries[k] = FilledOf(1, k)
    BY <1>1, <1>4, FilledStart
  <2>2. fileTable[0][0] = SetupEntry(c)
    BY <1>1, <1>4
  <2>3. CeilBlocks(MaxBytes) \in Nat
    BY BoundAssumption, CeilBlocksType
  <2>4. fileTable[0][0].start = ReservedBlocks /\ fileTable[0][0].count >= 0
    BY <2>2, <2>3 DEF SetupEntry
  <2>5. Found = 1 /\ Opened = 1 /\ Laid(fileTable, 1) /\ EntryAt(fileTable, 0) = fileTable[0][0]
    BY <1>1, <1>2, <2>1, <2>4, LaidStart DEF Opened
  <2>6. MemoryLaid /\ Agree /\ Bounds
    BY <1>1, <1>1a, <2>1, <2>5, RoomFacts DEF MemoryLaid, Behind, Agree, Bounds
  <2>7. QED
    BY <1>1, <2>5, <2>6 DEF Contents
<1>5. QED
  BY <1>3, <1>4 DEF Init

-----------------------------------------------------------------------------
(* The theorem.                                                            *)

LEMMA ContentsStep ==
  ASSUME RoomLeft, Inv, Inv', Contents, [Next]_vars
  PROVE  Contents'
<1>1. CASE SOpen
  BY <1>1, SOpenContents
<1>2. CASE UpdateStanagBlocks \/ UpdateStanagAndBlocks
  <2>1. PICK bytes \in Nat : UpdateStanag(bytes)
    <3>1. CASE UpdateStanagBlocks
      BY <3>1, BoundAssumption DEF UpdateStanagBlocks
    <3>2. CASE UpdateStanagAndBlocks
      <4>1. PICK blocks \in 0..(MaxBytes \div BlockSize) : UpdateStanag(blocks * BlockSize)
        BY <3>2 DEF UpdateStanagAndBlocks
      <4>2. blocks \in Nat /\ BlockSize \in Nat
        BY BoundAssumption, GeometryAssumption, DivMod
      <4>3. blocks * BlockSize \in Nat
        BY <4>2, Z3
      <4>4. QED
        BY <4>1, <4>3
    <3>3. QED
      BY <1>2, <3>1, <3>2
  <2>2. /\ present /\ pending = <<>> /\ currentFileState = "open"
        /\ UNCHANGED <<diskTable, diskEntries, currentFileNumber, currentWriteBlock,
                       currentFileState, keepsSetup, present>>
    BY <1>2 DEF UpdateStanagBlocks, UpdateStanagAndBlocks
  <2>3. QED
    BY <2>1, <2>2, UpdateContents
<1>3. CASE WriteTableBlock
  BY <1>3, WriteContents
<1>4. CASE EmergencyClose
  BY <1>4, CloseContents
<1>5. CASE SErase
  BY <1>5, EraseContents
<1>6. CASE PowerCycle \/ Mount
  BY <1>6, RestartContents DEF PowerCycle, Mount
<1>7. CASE Remove
  BY <1>7, RemoveContents
<1>8. CASE UNCHANGED vars
  BY <1>8 DEF vars, Contents, MemoryLaid, Laid, Behind, Agree, Bounds, Opened, Found
<1>9. QED
  BY <1>1, <1>2, <1>3, <1>4, <1>5, <1>6, <1>7, <1>8 DEF Next

\* The entry of every filled slot is one of those a restart counts, and so ends at or
\* before the position it goes on from.
LEMMA ContentsAppend ==
  ASSUME RoomLeft, Inv, Contents
  PROVE  RecoveryAppends
<1>1. /\ Found \in 0..Room /\ Found \in 0..Capacity /\ Capacity \in Nat /\ diskTable \in Tables
      /\ diskEntries \in [Blocks -> Nat]
      /\ \A k \in Blocks : diskEntries[k] = FilledOf(Found, k)
  BY FoundFacts, RoomFacts, Numbers DEF Contents, Bounds, Inv, Words
<1>2. RecoveredWriteBlock(diskTable, diskEntries) = Behind(diskTable, Found)
  BY <1>1, PositionFound
<1>3. SUFFICES ASSUME NEW k \in Blocks, NEW j \in Slots, j < diskEntries[k]
               PROVE  EndOf(diskTable[k][j]) <= Behind(diskTable, Found)
  BY <1>2 DEF RecoveryAppends
<1> DEFINE i == k * EntriesPerBlock + j
<1>4. k \in Nat /\ j \in 0..(EntriesPerBlock - 1) /\ EntriesPerBlock \in Nat \ {0}
      /\ MaxStanagBlocks \in Nat /\ k + 1 <= MaxStanagBlocks
  BY GeometryAssumption DEF Blocks, Slots
<1>5. i \div EntriesPerBlock = k /\ i % EntriesPerBlock = j
  BY <1>4, DivModUnique
<1>6. i \in 0..(Capacity - 1)
  <2>1. (k + 1) * EntriesPerBlock <= Capacity
    BY <1>4, ProductMonotone DEF Capacity
  <2>2. (k + 1) * EntriesPerBlock = k * EntriesPerBlock + EntriesPerBlock
        /\ k * EntriesPerBlock \in Nat
    BY <1>4, ProductNext, BlockOrder
  <2>3. QED
    BY <1>1, <1>4, <2>1, <2>2
<1> HIDE DEF i
<1>7. i < Found
  <2>1. Found \in Nat
    BY <1>1
  <2>2. i % EntriesPerBlock < FilledOf(Found, i \div EntriesPerBlock)
    BY <1>1, <1>3, <1>5
  <2>3. QED
    BY <1>6, <2>1, <2>2, SlotUsed
<1>8. i \in 0..(Found - 1)
  BY <1>1, <1>6, <1>7
<1>9. EndOf(EntryAt(diskTable, i)) <= Behind(diskTable, Found)
  BY <1>1, <1>8, LaidLast DEF Contents
<1>10. QED
  BY <1>5, <1>9 DEF EntryAt

\* Whatever was being recorded, updated or written when power failed or the cartridge was
\* pulled, the next recording is appended behind every recording the cartridge
\* knows of and overwrites none (sinit, FileRetrieveFileTable), as long as the last
\* block of the table stays empty: RecoveryAppends of StanagTable, for every geometry.
THEOREM RestartAppends ==
  ASSUME FewUnstored, RoomLeft
  PROVE  Spec => []RecoveryAppends
<1>1. Init => Contents
  BY InvInit, ContentsInit
<1>2. Inv /\ Inv' /\ Contents /\ [Next]_vars => Contents'
  BY ContentsStep
<1>3. Inv /\ Contents => RecoveryAppends
  BY ContentsAppend
<1>4. QED
  BY <1>1, <1>2, <1>3, Invariance, PTL DEF Spec

-----------------------------------------------------------------------------
(* The table implements RecordingStore: the recordings of the store are    *)
(* the entries of the memory, those that are durable the entries a restart *)
(* counts.                                                                 *)

Files == FilesOf(fileTable, Opened)
Durable == FilesOf(diskTable, Found)

\* The first entries of a table as a sequence.
LEMMA FilesAre ==
  ASSUME NEW t \in Tables, NEW n \in 0..Capacity
  PROVE  /\ FilesOf(t, n) \in Seq(Entry) /\ Len(FilesOf(t, n)) = n
         /\ \A i \in 1..n : FilesOf(t, n)[i] = EntryAt(t, i - 1)
<1>1. n \in Nat /\ \A i \in 1..n : i - 1 \in 0..(Capacity - 1)
  BY CapacityFacts
<1>2. FilesOf(t, n) \in [1..n -> Entry]
  BY <1>1, EntryType DEF FilesOf
<1>3. FilesOf(t, n) \in Seq(Entry) /\ Len(FilesOf(t, n)) = n
  <2>1. FilesOf(t, n) \in Seq(Entry)
    <3>1. \A S : [1..n -> S] \in {[1..m -> S] : m \in Nat}
      BY <1>1
    <3>2. \A S : [1..n -> S] \subseteq Seq(S)
      BY <3>1, SeqDef, Zenon
    <3>3. QED
      BY <1>2, <3>2, Zenon
  <2>2. DOMAIN FilesOf(t, n) = 1..n
    BY <1>2
  <2>3. QED
    BY <1>1, <2>1, <2>2, LenProperties
<1>4. QED
  BY <1>3 DEF FilesOf

\* Two tables with the same first entries.
LEMMA FilesSame ==
  ASSUME NEW t, NEW u, NEW n \in Nat,
         \A i \in 0..(n - 1) : EntryAt(u, i) = EntryAt(t, i)
  PROVE  FilesOf(u, n) = FilesOf(t, n)
<1>1. \A i \in 1..n : i - 1 \in 0..(n - 1)
  OBVIOUS
<1>2. QED
  BY <1>1 DEF FilesOf

\* Fewer entries of a table are the beginning of more.
LEMMA FilesPrefix ==
  ASSUME NEW t \in Tables, NEW n \in 0..Capacity, NEW m \in 0..n
  PROVE  SubSeq(FilesOf(t, n), 1, m) = FilesOf(t, m)
<1>1. n \in Nat /\ m \in Nat /\ m \in 0..Capacity
  BY CapacityFacts
<1>2. FilesOf(t, n) \in Seq(Entry) /\ Len(FilesOf(t, n)) = n
  BY FilesAre
<1>3. SubSeq(FilesOf(t, n), 1, m) = [i \in 1..m |-> FilesOf(t, n)[i]]
  BY <1>1, <1>2
<1>4. \A i \in 1..m : FilesOf(t, n)[i] = EntryAt(t, i - 1)
  BY <1>1, FilesAre
<1>5. QED
  BY <1>3, <1>4 DEF FilesOf

\* One entry more is appended.
LEMMA FilesAppend ==
  ASSUME NEW t \in Tables, NEW n \in 0..(Capacity - 1)
  PROVE  FilesOf(t, n + 1) = Append(FilesOf(t, n), EntryAt(t, n))
<1>1. n \in Nat /\ n \in 0..Capacity /\ n + 1 \in 0..Capacity /\ EntryAt(t, n) \in Entry
  BY CapacityFacts, EntryType
<1>2. /\ FilesOf(t, n) \in Seq(Entry) /\ Len(FilesOf(t, n)) = n
      /\ FilesOf(t, n + 1) \in Seq(Entry) /\ Len(FilesOf(t, n + 1)) = n + 1
      /\ \A i \in 1..n : FilesOf(t, n)[i] = EntryAt(t, i - 1)
      /\ \A i \in 1..(n + 1) : FilesOf(t, n + 1)[i] = EntryAt(t, i - 1)
  BY <1>1, FilesAre
<1> DEFINE x == FilesOf(t, n)
           y == FilesOf(t, n + 1)
           e == EntryAt(t, n)
<1>3. /\ x \in Seq(Entry) /\ Len(x) = n /\ y \in Seq(Entry) /\ Len(y) = n + 1 /\ e \in Entry
      /\ \A i \in 1..n : y[i] = x[i]
      /\ y[n + 1] = e
  <2>1. n + 1 \in 1..(n + 1) /\ n + 1 - 1 = n /\ \A i \in 1..n : i \in 1..(n + 1)
    BY <1>1
  <2>2. y[n + 1] = EntryAt(t, n + 1 - 1)
    BY <2>1 DEF FilesOf
  <2>3. \A i \in 1..n : y[i] = x[i]
    BY <1>2, <2>1, Zenon
  <2>4. QED
    BY <1>1, <1>2, <2>1, <2>2, <2>3, Zenon
<1> HIDE DEF x, y, e
<1>4. Append(x, e) \in Seq(Entry) /\ Len(Append(x, e)) = n + 1
      /\ \A i \in 1..(n + 1) : Append(x, e)[i] = IF i = n + 1 THEN e ELSE x[i]
  BY <1>1, <1>3
<1>5. \A i \in 1..(n + 1) : Append(x, e)[i] = y[i]
  BY <1>1, <1>3, <1>4
<1>6. y = Append(x, e)
  BY <1>1, <1>3, <1>4, <1>5
<1>7. QED
  BY <1>6 DEF x, y, e

\* The last entry is where the next one begins.
LEMMA EndIsBehind ==
  ASSUME NEW t \in Tables, NEW n \in 0..Capacity
  PROVE  Store!End(FilesOf(t, n)) = Behind(t, n)
<1>1. n \in Nat
  BY CapacityFacts
<1>2. /\ FilesOf(t, n) \in Seq(Entry) /\ Len(FilesOf(t, n)) = n
      /\ \A i \in 1..n : FilesOf(t, n)[i] = EntryAt(t, i - 1)
  BY FilesAre
<1>3. FilesOf(t, n) = <<>> <=> n = 0
  BY <1>1, <1>2
<1>4. n # 0 => FilesOf(t, n)[n] = EntryAt(t, n - 1)
  BY <1>1, <1>2
<1>5. QED
  BY <1>2, <1>3, <1>4 DEF Store!End, Behind, EndOf

\* More bytes take no fewer blocks.
LEMMA CeilMonotone ==
  ASSUME NEW a \in Nat, NEW b \in Nat, a <= b
  PROVE  CeilBlocks(a) <= CeilBlocks(b)
<1> DEFINE x == a + (BlockSize - 1)
           y == b + (BlockSize - 1)
<1>1. BlockSize \in Nat \ {0} /\ x \in Nat /\ y \in Nat /\ x <= y
      /\ a + BlockSize - 1 = x /\ b + BlockSize - 1 = y
  BY GeometryAssumption
<1> HIDE DEF x, y
<1>2. /\ x \div BlockSize \in Nat /\ y \div BlockSize \in Nat
      /\ x = (x \div BlockSize) * BlockSize + (x % BlockSize) /\ x % BlockSize \in 0..(BlockSize - 1)
      /\ y = (y \div BlockSize) * BlockSize + (y % BlockSize) /\ y % BlockSize \in 0..(BlockSize - 1)
  BY <1>1, DivMod
<1> DEFINE p == x \div BlockSize
           q == y \div BlockSize
<1>3. p <= q
  <2>1. SUFFICES ASSUME q + 1 <= p
                 PROVE  FALSE
    BY <1>2
  <2>2. (q + 1) * BlockSize <= p * BlockSize /\ (q + 1) * BlockSize = q * BlockSize + BlockSize
        /\ q * BlockSize \in Int /\ p * BlockSize \in Int
    BY <1>1, <1>2, <2>1, ProductMonotone, ProductNext
  <2> HIDE DEF p, q
  <2>3. /\ x = p * BlockSize + (x % BlockSize) /\ x % BlockSize \in 0..(BlockSize - 1)
        /\ y = q * BlockSize + (y % BlockSize) /\ y % BlockSize \in 0..(BlockSize - 1)
    BY <1>2 DEF p, q
  <2>4. QED
    BY <1>1, <2>2, <2>3
<1>4. QED
  BY <1>1, <1>3 DEF CeilBlocks

\* What the sequences are.
LEMMA FilesFacts ==
  ASSUME Inv
  PROVE  /\ Files \in Seq(Entry) /\ Len(Files) = Opened
         /\ Durable \in Seq(Entry) /\ Len(Durable) = Found
         /\ fileTable \in Tables /\ diskTable \in Tables
         /\ Opened \in 0..Capacity /\ Found \in 0..Capacity /\ Capacity \in Nat
<1>1. /\ fileTable \in Tables /\ diskTable \in Tables
      /\ Opened \in 0..Capacity /\ Found \in 0..Capacity /\ Capacity \in Nat
  BY Numbers, FoundFacts, CapacityFacts
<1>2. QED
  BY <1>1, FilesAre DEF Files, Durable

\* A recording opened is one of the store.
LEMMA SOpenImplements ==
  ASSUME RoomLeft, Inv, Inv', Contents, Contents', SOpen
  PROVE  Store!Open
<1> DEFINE n == currentFileNumber
<1>1. /\ currentFileState = "closed" /\ currentFileState' = "open"
      /\ UNCHANGED <<diskTable, diskEntries, currentFileNumber, currentWriteBlock>>
      /\ totalBytesWritten' = 0
  BY DEF SOpen
<1>2. /\ n \in 0..(Capacity - 1) /\ n \in Nat /\ n \in 0..Capacity
      /\ Opened = n /\ Opened' = n + 1 /\ Found' = Found
  BY <1>1, Numbers, RoomFacts, GeometryAssumption, BoundAssumption DEF Opened, Found, SOpen
<1>3. fileTable \in Tables /\ fileTable' \in Tables
  BY DEF Inv, Words, Tables
<1>4. /\ EntryAt(fileTable', n) = [start |-> currentWriteBlock, count |-> 0]
      /\ currentWriteBlock = Behind(fileTable, n)
  BY <1>1, <1>2, CeilZero DEF Contents, MemoryLaid
<1>5. FilesOf(fileTable', n + 1) = Append(FilesOf(fileTable', n), EntryAt(fileTable', n))
  BY <1>2, <1>3, FilesAppend
<1>6. FilesOf(fileTable', n) = FilesOf(fileTable, n)
  <2> DEFINE d == n \div EntriesPerBlock
             r == n % EntriesPerBlock
             e == [start |-> currentWriteBlock, count |-> 0]
  <2>1. d \in Blocks /\ r \in Slots
    BY <1>2, Place
  <2>2. fileTable' = [fileTable EXCEPT ![d][r] = e]
    <3>1. numberOfFilesEntries[TableBlock] = n % EntriesPerBlock
      BY <1>1, <1>2, NextSlot, CapacityFacts
    <3>2. QED
      BY <3>1 DEF SOpen, TableBlock
  <2>3. e \in Entry /\ d = n \div EntriesPerBlock /\ r = n % EntriesPerBlock
    BY Numbers
  <2> HIDE DEF d, r, e
  <2>4. \A c \in Blocks, q \in Slots :
          fileTable'[c][q] = IF c = d /\ q = r THEN e ELSE fileTable[c][q]
    BY <1>3, <2>1, <2>2 DEF Tables
  <2>5. \A i \in 0..(Capacity - 1) : i # n => EntryAt(fileTable', i) = EntryAt(fileTable, i)
    BY <1>2, <1>3, <2>3, <2>4, EntryGiven
  <2>6. \A i \in 0..(n - 1) : EntryAt(fileTable', i) = EntryAt(fileTable, i)
    BY <1>2, <2>5, CapacityFacts
  <2>7. QED
    BY <1>2, <2>6, FilesSame, Zenon
<1>7. Store!End(Files) = currentWriteBlock
  BY <1>2, <1>3, <1>4, EndIsBehind DEF Files
<1>8. Files' = Append(Files, [start |-> Store!End(Files), count |-> 0])
  BY <1>2, <1>4, <1>5, <1>6, <1>7 DEF Files
<1>9. Durable' = Durable
  BY <1>1, <1>2 DEF Durable
<1>10. QED
  BY <1>1, <1>8, <1>9 DEF Store!Open, Files, Durable, Found

\* An update lets the open recording of the store grow.
LEMMA UpdateImplements ==
  ASSUME RoomLeft, Inv, Inv', Contents, Contents', NEW bytes \in Nat, bytes <= MaxBytes,
         bytes >= totalBytesWritten, UpdateStanag(bytes), currentFileState = "open",
         UNCHANGED <<diskTable, diskEntries, currentFileNumber, currentFileState>>
  PROVE  \E c \in 0..CeilBlocks(MaxBytes) : Store!Grow(c)
<1> DEFINE n == currentFileNumber
           c == CeilBlocks(bytes)
           e == [start |-> EntryAt(fileTable, n).start, count |-> c]
<1>1. /\ n \in 0..(Capacity - 1) /\ n \in Nat /\ Opened = n + 1 /\ Opened' = n + 1
      /\ Found' = Found /\ totalBytesWritten \in Nat
  BY Numbers, CapacityFacts DEF Opened, Found
<1>2. /\ fileTable \in Tables /\ fileTable' \in Tables /\ c \in Nat
      /\ EntryAt(fileTable, n) \in Entry
  BY <1>1, CeilBlocksType, EntryType DEF Inv, Words, Tables
<1>3. c \in 0..CeilBlocks(MaxBytes) /\ c >= CeilBlocks(totalBytesWritten)
      /\ CeilBlocks(totalBytesWritten) = EntryAt(fileTable, n).count
  <2>1. c <= CeilBlocks(MaxBytes) /\ CeilBlocks(MaxBytes) \in Nat
    BY BoundAssumption, CeilMonotone, CeilBlocksType
  <2>2. CeilBlocks(totalBytesWritten) <= c /\ CeilBlocks(totalBytesWritten) \in Nat
    BY <1>1, CeilMonotone, CeilBlocksType
  <2>3. CeilBlocks(totalBytesWritten) = EntryAt(fileTable, n).count
    BY DEF Contents, MemoryLaid
  <2>4. QED
    BY <1>2, <2>1, <2>2, <2>3
<1> HIDE DEF c
<1>4. EntryAt(fileTable', n) = e
      /\ \A i \in 0..(Capacity - 1) : i # n => EntryAt(fileTable', i) = EntryAt(fileTable, i)
  <2> DEFINE d == n \div EntriesPerBlock
             r == n % EntriesPerBlock
  <2>1. d \in Blocks /\ r \in Slots
    BY <1>1, Place
  <2>2. fileTable' = [fileTable EXCEPT ![d][r] = e]
    BY UpdateIs DEF TableBlock, EntryAt, c
  <2>3. e \in Entry /\ d = n \div EntriesPerBlock /\ r = n % EntriesPerBlock
    BY <1>2
  <2> HIDE DEF d, r, e
  <2>4. \A b \in Blocks, q \in Slots :
          fileTable'[b][q] = IF b = d /\ q = r THEN e ELSE fileTable[b][q]
    BY <1>2, <2>1, <2>2 DEF Tables
  <2>5. QED
    BY <1>1, <1>2, <2>3, <2>4, EntryGiven
<1>5. /\ Files \in Seq(Entry) /\ Len(Files) = n + 1 /\ Files' \in Seq(Entry)
      /\ Len(Files') = n + 1 /\ e \in Entry
      /\ \A i \in 1..(n + 1) : Files[i] = EntryAt(fileTable, i - 1)
      /\ \A i \in 1..(n + 1) : Files'[i] = EntryAt(fileTable', i - 1)
  <2>1. n + 1 \in 0..Capacity
    BY <1>1, CapacityFacts
  <2>2. e \in Entry
    BY <1>2
  <2>3. QED
    BY <1>1, <1>2, <2>1, <2>2, FilesAre DEF Files
<1>6. Files[n + 1] = EntryAt(fileTable, n) /\ Files'[n + 1] = e
  <2>1. n + 1 \in 1..(n + 1) /\ n + 1 - 1 = n
    BY <1>1
  <2>2. Files[n + 1] = EntryAt(fileTable, n + 1 - 1) /\ Files'[n + 1] = EntryAt(fileTable', n + 1 - 1)
    BY <1>1, <2>1 DEF Files, FilesOf
  <2>3. QED
    BY <1>4, <2>1, <2>2, Zenon
<1>7. \A i \in 1..n : Files'[i] = Files[i]
  <2> SUFFICES ASSUME NEW i \in 1..n
               PROVE  Files'[i] = Files[i]
    OBVIOUS
  <2>1. i \in 1..(n + 1) /\ i - 1 \in 0..(Capacity - 1) /\ i - 1 # n
    BY <1>1, CapacityFacts
  <2>2. QED
    BY <1>4, <1>5, <2>1
<1>8. Files' = [Files EXCEPT ![Len(Files)].count = c]
  <2> DEFINE last == [Files[n + 1] EXCEPT !.count = c]
  <2>1. last = e
    BY <1>2, <1>6
  <2> HIDE DEF e
  <2>2. Files' = [Files EXCEPT ![n + 1] = e]
    <3>1. n + 1 \in 1..Len(Files)
      BY <1>1, <1>5
    <3>2. /\ [Files EXCEPT ![n + 1] = e] \in Seq(Entry)
          /\ Len([Files EXCEPT ![n + 1] = e]) = Len(Files)
          /\ \A j \in 1..Len(Files) : [Files EXCEPT ![n + 1] = e][j] = IF j = n + 1 THEN e ELSE Files[j]
      BY <1>5, <3>1, ExceptSeq
    <3>3. \A j \in 1..(n + 1) : Files'[j] = [Files EXCEPT ![n + 1] = e][j]
      BY <1>1, <1>5, <1>6, <1>7, <3>2
    <3>4. QED
      BY <1>5, <3>2, <3>3, SeqEqual
  <2>3. QED
    BY <1>5, <2>1, <2>2
<1>9. Durable' = Durable
  BY <1>1 DEF Durable
<1>10. Files[Len(Files)].count = CeilBlocks(totalBytesWritten)
  BY <1>3, <1>5, <1>6
<1>11. Store!Grow(c)
  BY <1>3, <1>8, <1>9, <1>10 DEF Store!Grow, Files, Durable, Found
<1>12. QED
  BY <1>3, <1>11

\* A write of an update saves recordings, or nothing new.
LEMMA WriteImplements ==
  ASSUME RoomLeft, Inv, Inv', Contents, Contents', WriteTableBlock
  PROVE  \/ \E m \in 0..Len(Files) : Store!Save(m)
         \/ UNCHANGED Store!vars
<1> DEFINE n == currentFileNumber
<1>1. /\ present /\ pending # <<>> /\ UNCHANGED <<fileTable, currentFileNumber, currentFileState>>
      /\ Opened' = Opened
  BY DEF WriteTableBlock, Opened
<1>2. currentFileState = "open" /\ Opened = n + 1 /\ n \in Nat
  <2>1. Lag(Found)
    BY <1>1, FoundFacts
  <2>2. QED
    BY <1>1, <2>1, Numbers DEF Lag
<1>3. /\ Found' \in Nat /\ Found' <= Opened /\ Found' >= Found
      /\ Found \in 0..Capacity /\ Found <= Opened /\ Opened \in 0..Capacity /\ Capacity \in Nat
      /\ \A i \in 0..(Found' - 1) :
           \/ EntryAt(diskTable', i) = EntryAt(fileTable, i)
           \/ i \in 0..(Found - 1) /\ EntryAt(diskTable', i) = EntryAt(diskTable, i)
  BY BlockWritten, FilesFacts
<1>4. \A i \in 0..(Found - 1) : i # n => EntryAt(diskTable, i) = EntryAt(fileTable, i)
  BY <1>1 DEF Contents, Agree
<1>5. fileTable \in Tables /\ diskTable \in Tables /\ Files' = Files /\ Len(Files) = Opened
      /\ Len(Durable) = Found
  BY <1>1, FilesFacts DEF Files
<1> HIDE DEF n
<1>6. CASE \A i \in 0..(Found' - 1) : EntryAt(diskTable', i) = EntryAt(fileTable, i)
  <2>1. Durable' = FilesOf(fileTable, Found')
    BY <1>3, <1>6, FilesSame, Zenon DEF Durable
  <2>2. Found' \in 0..Opened
    BY <1>2, <1>3
  <2>3. Durable' = SubSeq(Files, 1, Found')
    BY <1>3, <1>5, <2>1, <2>2, FilesPrefix DEF Files
  <2>4. Store!Save(Found')
    BY <1>1, <1>3, <1>5, <2>3 DEF Store!Save, Files, Durable, Found
  <2>5. QED
    BY <1>5, <2>2, <2>4
<1>7. ASSUME NEW j \in 0..(Found' - 1), EntryAt(diskTable', j) # EntryAt(fileTable, j)
      PROVE  UNCHANGED Store!vars
  <2>1. j \in 0..(Found - 1) /\ EntryAt(diskTable', j) = EntryAt(diskTable, j)
    BY <1>3, <1>7
  <2>2. j = n
    BY <1>4, <1>7, <2>1
  <2>3. Found = n + 1 /\ Found' = n + 1
    <3>1. \A f, g \in Nat : j \in 0..(f - 1) /\ f <= g /\ g <= n + 1 => f = n + 1 /\ g = n + 1
      BY <1>2, <2>2
    <3>2. Found \in Nat
      BY <1>3
    <3>3. QED
      BY <1>2, <1>3, <2>1, <3>1, <3>2
  <2>4. \A i \in 0..(Found - 1) : EntryAt(diskTable', i) = EntryAt(diskTable, i)
    BY <1>3, <1>4, <2>1, <2>2, <2>3
  <2>5. Durable' = Durable
    BY <1>3, <2>3, <2>4, FilesSame DEF Durable
  <2>6. QED
    BY <1>1, <1>5, <2>5 DEF Store!vars, Files, Durable, Found
<1>8. QED
  BY <1>6, <1>7

\* The other actions: a close, an erase, a restart, a removal.
LEMMA CloseImplements ==
  ASSUME EmergencyClose, Inv
  PROVE  Store!Close
<1>1. /\ currentFileState = "open" /\ currentFileState' = "closed"
      /\ currentFileNumber' = currentFileNumber + 1
      /\ UNCHANGED <<fileTable, diskTable, diskEntries>>
  BY DEF EmergencyClose
<1>2. Opened' = Opened
  BY <1>1 DEF Opened
<1>3. Files' = Files /\ Durable' = Durable
  BY <1>1, <1>2 DEF Files, Durable, Found
<1>4. QED
  BY <1>1, <1>3 DEF Store!Close, Files, Durable, Found

LEMMA EraseImplements ==
  ASSUME RoomLeft, Inv, Inv', Contents, Contents', SErase
  PROVE  \E m \in 0..1 : Store!Erase(m)
<1>1. /\ currentFileState = "closed" /\ currentFileState' = "closed"
      /\ diskTable' = fileTable' /\ diskEntries' = numberOfFilesEntries'
  BY DEF SErase
<1>2. /\ fileTable \in Tables /\ fileTable' \in Tables /\ Opened \in 0..Capacity
      /\ Opened = currentFileNumber /\ Capacity \in Nat /\ Capacity >= 1
  BY <1>1, FilesFacts, CapacityFacts DEF Opened, Inv, Words, Tables
<1>3. ASSUME NEW m \in {0, 1}, currentFileNumber' = m, m <= Opened,
             \A k \in Blocks : numberOfFilesEntries'[k] = FilledOf(m, k),
             \A i \in 0..(m - 1) : EntryAt(fileTable', i) = EntryAt(fileTable, i)
      PROVE  Store!Erase(m)
  <2>1. m \in 0..Capacity /\ diskEntries' \in [Blocks -> Nat]
    BY <1>2 DEF Inv, Words
  <2>2. Found' = m /\ Opened' = m
    BY <1>1, <1>3, <2>1, RecoveredNumberFound DEF Found, Opened, Capacity
  <2>3. Files' = FilesOf(fileTable', m) /\ Durable' = FilesOf(fileTable', m)
    BY <1>1, <2>2 DEF Files, Durable
  <2>4. FilesOf(fileTable', m) = FilesOf(fileTable, m)
    BY <1>3, FilesSame
  <2>5. m \in 0..Opened
    BY <1>2, <1>3
  <2>6. SubSeq(Files, 1, m) = FilesOf(fileTable, m)
    BY <1>2, <2>5, FilesPrefix DEF Files
  <2>7. Files' = SubSeq(Files, 1, m) /\ Durable' = Files'
    BY <2>3, <2>4, <2>6
  <2>8. QED
    BY <1>1, <2>7 DEF Store!Erase, Files, Durable, Found
<1>4. CASE EraseAll
  <2>1. currentFileNumber' = 0 /\ \A k \in Blocks : numberOfFilesEntries'[k] = FilledOf(0, k)
    BY <1>4, FilledStart DEF EraseAll
  <2>2. Store!Erase(0)
    BY <1>2, <1>3, <2>1
  <2>3. QED
    BY <2>2
<1>5. CASE EraseButSetup
  <2> DEFINE e == [start |-> ReservedBlocks, count |-> fileTable[0][0].count]
  <2>1. /\ currentFileNumber' = 1 /\ keepsSetup
        /\ fileTable' = [BlankTable EXCEPT ![0][0] = e]
        /\ \A k \in Blocks : numberOfFilesEntries'[k] = FilledOf(1, k)
    BY <1>5, FilledStart DEF EraseButSetup
  <2>2. Opened >= 1 /\ 0 \in Blocks /\ 0 \in Slots
    BY <1>2, <2>1, GeometryAssumption DEF Contents, Bounds, Blocks, Slots
  <2>3. EntryAt(fileTable, 0).start = ReservedBlocks
    BY <1>2, <2>2 DEF Contents, MemoryLaid, Laid, Behind
  <2>4. fileTable[0][0] = e
    <3>1. fileTable[0][0] \in Entry /\ fileTable[0][0].start = ReservedBlocks
      BY <1>2, <2>2, <2>3, LaidStart DEF Tables
    <3>2. QED
      BY <3>1
  <2> HIDE DEF e
  <2>5. fileTable'[0][0] = e
    BY <2>1, <2>2
  <2>6. EntryAt(fileTable', 0) = EntryAt(fileTable, 0)
    BY <2>4, <2>5, LaidStart
  <2>7. \A i \in 0..(1 - 1) : EntryAt(fileTable', i) = EntryAt(fileTable, i)
    BY <2>6
  <2>8. Store!Erase(1)
    BY <1>2, <1>3, <2>1, <2>2, <2>7
  <2>9. QED
    BY <2>8
<1>6. QED
  BY <1>4, <1>5 DEF SErase

LEMMA RestartImplements ==
  ASSUME SInit, Inv
  PROVE  Store!Restart
<1>1. /\ fileTable' = diskTable /\ UNCHANGED <<diskTable, diskEntries>>
      /\ currentFileNumber' = Found /\ currentFileState' = "closed"
  BY DEF SInit, Found
<1>2. Opened' = Found /\ Found' = Found
  BY <1>1 DEF Opened, Found
<1>3. Files' = Durable /\ Durable' = Durable
  BY <1>1, <1>2 DEF Files, Durable
<1>4. QED
  BY <1>1, <1>3 DEF Store!Restart, Files, Durable, Found

LEMMA StutterImplements ==
  ASSUME Remove \/ UNCHANGED vars
  PROVE  UNCHANGED Store!vars
<1>1. UNCHANGED <<fileTable, diskTable, diskEntries, currentFileNumber, currentFileState>>
  BY DEF Remove, vars
<1>2. Files' = Files /\ Durable' = Durable
  BY <1>1 DEF Files, Durable, Found, Opened
<1>3. QED
  BY <1>1, <1>2 DEF Store!vars, Files, Durable, Found

\* The first state is one of the store.
LEMMA InitImplements ==
  ASSUME RoomLeft, Init, Inv, Contents
  PROVE  Store!Init
<1>1. /\ diskTable = fileTable /\ diskEntries = numberOfFilesEntries
      /\ currentFileState = "closed" /\ currentFileNumber = numberOfFilesEntries[0]
      /\ 0 \in Blocks /\ 0 \in Slots
  BY GeometryAssumption DEF Init, Blocks, Slots
<1>2. Found = Opened /\ Opened = currentFileNumber
  <2>1. Opened = currentFileNumber /\ \A k \in Blocks : numberOfFilesEntries[k] = FilledOf(Opened, k)
    BY <1>1 DEF Opened, Inv, SlotsMatchCounter
  <2>2. QED
    BY <1>1, <2>1, FilesFacts, RecoveredNumberFound DEF Found, Capacity, Inv, Words
<1>3. Durable = Files
  BY <1>1, <1>2 DEF Files, Durable
<1>4. Files \in {<<>>} \cup {<<[start |-> ReservedBlocks, count |-> c]>> : c \in 1..CeilBlocks(MaxBytes)}
  <2>1. CASE fileTable = BlankTable /\ numberOfFilesEntries = NoEntries
    <3>1. Len(Files) = 0 /\ Files \in Seq(Entry)
      BY <1>1, <1>2, <2>1, FilesFacts
    <3>2. Files = <<>>
      BY <3>1
    <3>3. QED
      BY <3>2
  <2>2. ASSUME NEW c \in 1..CeilBlocks(MaxBytes),
               fileTable = [BlankTable EXCEPT ![0][0] = SetupEntry(c)],
               numberOfFilesEntries = [NoEntries EXCEPT ![0] = 1]
        PROVE  Files = <<SetupEntry(c)>>
    <3>1. Opened = 1 /\ fileTable[0][0] = SetupEntry(c)
      BY <1>1, <1>2, <2>2
    <3>2. EntryAt(fileTable, 0) = SetupEntry(c)
      BY <3>1, LaidStart
    <3> HIDE DEF SetupEntry
    <3>3. FilesOf(fileTable, 1) = <<SetupEntry(c)>>
      BY <3>2 DEF FilesOf
    <3>4. QED
      BY <3>1, <3>3 DEF Files
  <2>3. QED
    BY <2>1, <2>2 DEF Init, SetupEntry
<1>5. QED
  BY <1>1, <1>3, <1>4 DEF Store!Init, Files, Durable, Found

\* Every step of the table is one of the store, or changes nothing of it.
LEMMA StepImplements ==
  ASSUME RoomLeft, Inv, Inv', Contents, Contents', [Next]_vars
  PROVE  [Store!Next]_(Store!vars)
<1>1. CASE SOpen
  BY <1>1, SOpenImplements DEF Store!Next
<1>2. CASE UpdateStanagBlocks
  <2>1. PICK bytes \in 1..MaxBytes : bytes >= totalBytesWritten /\ UpdateStanag(bytes)
    BY <1>2 DEF UpdateStanagBlocks
  <2>2. bytes \in Nat /\ bytes <= MaxBytes
    BY BoundAssumption
  <2>3. /\ currentFileState = "open"
        /\ UNCHANGED <<diskTable, diskEntries, currentFileNumber, currentFileState>>
    BY <1>2 DEF UpdateStanagBlocks
  <2>4. QED
    BY <2>1, <2>2, <2>3, UpdateImplements DEF Store!Next
<1>3. CASE UpdateStanagAndBlocks
  <2>1. PICK blocks \in 0..(MaxBytes \div BlockSize) :
          blocks * BlockSize >= totalBytesWritten /\ UpdateStanag(blocks * BlockSize)
    BY <1>3 DEF UpdateStanagAndBlocks
  <2>2. blocks * BlockSize \in Nat /\ blocks * BlockSize <= MaxBytes
    <3>1. /\ MaxBytes \in Nat /\ BlockSize \in Nat \ {0} /\ MaxBytes \div BlockSize \in Nat
          /\ MaxBytes % BlockSize \in Nat /\ blocks \in Nat /\ blocks <= MaxBytes \div BlockSize
          /\ MaxBytes = (MaxBytes \div BlockSize) * BlockSize + (MaxBytes % BlockSize)
      BY BoundAssumption, GeometryAssumption, DivMod
    <3>2. blocks * BlockSize <= (MaxBytes \div BlockSize) * BlockSize
      BY <3>1, ProductMonotone
    <3>3. blocks * BlockSize \in Nat /\ (MaxBytes \div BlockSize) * BlockSize \in Nat
      BY <3>1, Z3
    <3>4. QED
      BY <3>1, <3>2, <3>3
  <2>3. /\ currentFileState = "open"
        /\ UNCHANGED <<diskTable, diskEntries, currentFileNumber, currentFileState>>
    BY <1>3 DEF UpdateStanagAndBlocks
  <2>4. QED
    BY <2>1, <2>2, <2>3, UpdateImplements DEF Store!Next
<1>4. CASE WriteTableBlock
  BY <1>4, WriteImplements DEF Store!Next, Files
<1>5. CASE EmergencyClose
  BY <1>5, CloseImplements DEF Store!Next
<1>6. CASE SErase
  BY <1>6, EraseImplements DEF Store!Next
<1>7. CASE PowerCycle \/ Mount
  BY <1>7, RestartImplements DEF Store!Next, PowerCycle, Mount
<1>8. CASE Remove \/ UNCHANGED vars
  BY <1>8, StutterImplements
<1>9. QED
  BY <1>1, <1>2, <1>3, <1>4, <1>5, <1>6, <1>7, <1>8 DEF Next

\* The file table implements a store that only appends and only loses its tail: a restart
\* in the middle of an update, a cartridge pulled and mounted again, and recordings
\* whose roots never arrived included (Implements of StanagTable), for every geometry.
THEOREM TableImplements ==
  ASSUME FewUnstored, RoomLeft
  PROVE  Spec => Implements
<1>1. Init => Contents /\ Store!Init
  BY InvInit, ContentsInit, InitImplements
<1>2. Inv /\ Inv' /\ Contents /\ [Next]_vars => Contents'
  BY ContentsStep
<1>3. Inv /\ Inv' /\ Contents /\ Contents' /\ [Next]_vars => [Store!Next]_(Store!vars)
  BY StepImplements
<1>4. QED
  BY <1>1, <1>2, <1>3, Invariance, PTL DEF Spec, Implements

-----------------------------------------------------------------------------
(* FileSearch: the dates of the entries and the search by time.            *)

\* The calendar: a day of the year and its date, there and back.
LEMMA MonthsAscend ==
  ASSUME NEW leap \in BOOLEAN, NEW m \in 1..13
  PROVE  MonthStart(leap)[m] \in 0..366
<1>1. m \in {1, 2, 3, 4, 5, 6, 7, 8, 9, 10, 11, 12, 13}
  OBVIOUS
<1>2. CASE leap
  BY <1>1, <1>2 DEF MonthStart
<1>3. CASE ~leap
  BY <1>1, <1>3 DEF MonthStart
<1>4. QED
  BY <1>2, <1>3

LEMMA DayHasMonth ==
  ASSUME NEW leap \in BOOLEAN, NEW d \in 1..MonthStart(leap)[13]
  PROVE  \E m \in 1..12 : MonthStart(leap)[m] < d /\ d <= MonthStart(leap)[m + 1]
<1> DEFINE before == MonthStart(leap)
<1>1. /\ before[1] = 0 /\ before[13] \in Int
      /\ \A m \in 1..12 : before[m] \in Int /\ before[m + 1] \in Int
  BY MonthsAscend DEF MonthStart
<1> HIDE DEF before
<1>2. SUFFICES ASSUME \A m \in 1..12 : before[m] < d => before[m + 1] < d
               PROVE  FALSE
  BY <1>1 DEF before
<1>3. before[1] < d /\ d <= before[13]
  BY <1>1 DEF before
<1>4. before[1 + 1] < d
  BY <1>2, <1>3
<1>5. before[2 + 1] < d /\ before[3 + 1] < d /\ before[4 + 1] < d
  BY <1>2, <1>4
<1>6. before[5 + 1] < d /\ before[6 + 1] < d /\ before[7 + 1] < d
  BY <1>2, <1>5
<1>7. before[8 + 1] < d /\ before[9 + 1] < d /\ before[10 + 1] < d
  BY <1>2, <1>6
<1>8. before[11 + 1] < d /\ before[12 + 1] < d
  BY <1>2, <1>7
<1>9. QED
  BY <1>1, <1>3, <1>8

\* The calendar: the date made of a day of the year gives that day back, on
\* every day of every year, leap years included (SystemDate and DayFromDate of
\* FileSearch: the two month tables of the code undo each other, so the entry
\* of a recording tells the day it was opened).
THEOREM DateAndBack ==
  ASSUME NEW y \in Nat, NEW d \in 1..DaysIn(y)
  PROVE  /\ SystemDate(d, y) \in [day : Int, month : Int, year : Nat]
         /\ DayFromDate(SystemDate(d, y)) = d
<1> DEFINE before == MonthStart(IsLeap(y))
           months == {m \in 1..12 : before[m] < d /\ d <= before[m + 1]}
           month == CHOOSE m \in months : TRUE
<1>1. IsLeap(y) \in BOOLEAN
  BY DEF IsLeap
<1>2. months # {}
  BY <1>1, DayHasMonth DEF DaysIn
<1>3. month \in 1..12
  BY <1>2
<1>4. SystemDate(d, y) = [day |-> d - before[month], month |-> month, year |-> y]
  BY <1>2 DEF SystemDate
<1> HIDE DEF month
<1>5. before[month] \in Int
  <2>1. MonthStart(IsLeap(y))[month] \in 0..366
    BY <1>1, <1>3, MonthsAscend
  <2>2. QED
    BY <2>1
<1>6. QED
  BY <1>3, <1>4, <1>5 DEF DayFromDate

\* Times of the year are ordered by the day and then by the time of day.
LEMMA TagOrder ==
  ASSUME NEW d \in Nat, NEW e \in Nat,
         NEW t \in 0..(PartsPerDay - 1), NEW u \in 0..(PartsPerDay - 1)
  PROVE  /\ PartsPerDay \in Nat \ {0}
         /\ TimeTag(d, t) \in Nat
         /\ TimeTag(d, t) <= TimeTag(e, u) <=> d < e \/ (d = e /\ t <= u)
         /\ DayOf(TimeTag(d, t)) = d
<1>1. PartsPerDay \in Nat \ {0}
  BY ClockAssumption DEF PartsPerDay
<1>2. TimeTag(d, t) \in Nat /\ DayOf(TimeTag(d, t)) = d
  BY <1>1 DEF TimeTag, DayOf
<1>3. ASSUME NEW a \in Nat, NEW b \in Nat, a < b
      PROVE  a * PartsPerDay + PartsPerDay <= b * PartsPerDay
  BY <1>1, <1>3
<1>4. TimeTag(d, t) <= TimeTag(e, u) <=> d < e \/ (d = e /\ t <= u)
  <2>1. CASE d < e
    BY <1>1, <1>3, <2>1 DEF TimeTag
  <2>2. CASE e < d
    BY <1>1, <1>3, <2>2 DEF TimeTag
  <2>3. CASE d = e
    BY <1>1, <2>3 DEF TimeTag
  <2>4. QED
    BY <2>1, <2>2, <2>3
<1>5. QED
  BY <1>1, <1>2, <1>4

LEMMA HoursAscend ==
  ASSUME NEW t \in Nat, NEW u \in Nat, t <= u
  PROVE  Hour(t) <= Hour(u) /\ Hour(t) \in Nat /\ Hour(u) \in Nat
<1>1. ASSUME NEW n \in Nat \ {0}, NEW a \in Nat
      PROVE  /\ a \div n \in Nat
             /\ n * (a \div n) <= a /\ a < n * (a \div n) + n
  BY <1>1
<1>2. ASSUME NEW n \in Nat \ {0}
      PROVE  t \div n <= u \div n
  BY <1>1, <1>2
<1>3. QED
  BY <1>1, <1>2, ClockAssumption DEF Hour

\* The entry of a recording and what the recording was.
Tells(e, s) ==
  \E d, c \in 1..DaysIn(year), t, u \in 0..(PartsPerDay - 1) :
    /\ e = [createDate |-> SystemDate(d, year), createTime |-> t, closeTime |-> u]
    /\ s = [from |-> TimeTag(d, t), to |-> TimeTag(c, u)]
    /\ s.from <= s.to

\* An entry covers no time but of its recording, and all of one within a day.
LEMMA CoversTruly ==
  ASSUME year \in Nat, NEW e, NEW s, Tells(e, s), NEW tag \in Int
  PROVE  /\ Covers(e, tag) => s.from <= tag /\ tag < s.to
         /\ s.from <= tag /\ tag < s.to /\ DayOf(s.from) = DayOf(s.to)
              => Covers(e, tag)
<1>1. PICK d \in 1..DaysIn(year), c \in 1..DaysIn(year),
           t \in 0..(PartsPerDay - 1), u \in 0..(PartsPerDay - 1) :
        /\ e = [createDate |-> SystemDate(d, year), createTime |-> t, closeTime |-> u]
        /\ s = [from |-> TimeTag(d, t), to |-> TimeTag(c, u)]
        /\ s.from <= s.to
  BY DEF Tells
<1>2. d \in Nat /\ c \in Nat /\ t \in Nat /\ u \in Nat
  OBVIOUS
<1>3. DayFromDate(e.createDate) = d
  BY <1>1, DateAndBack
<1>4. d < c \/ (d = c /\ t <= u)
  BY <1>1, <1>2, TagOrder
<1>5. t <= u => EndDay(e) = d
  BY <1>1, <1>2, <1>3, HoursAscend DEF EndDay
<1>6. EndDay(e) \in {d, d + 1}
  BY <1>1, <1>3 DEF EndDay
<1>7. PartsPerDay \in Nat \ {0}
  BY <1>2, TagOrder
<1>8. ASSUME Covers(e, tag)
      PROVE  s.from <= tag /\ tag < s.to
  <2>1. TimeTag(EndDay(e), t) <= tag /\ tag < TimeTag(EndDay(e), u)
    BY <1>1, <1>8 DEF Covers
  <2>2. t < u
    <3>1. EndDay(e) * PartsPerDay \in Int
      BY <1>2, <1>6, <1>7
    <3>2. QED
      BY <1>2, <2>1, <3>1 DEF TimeTag
  <2>3. TimeTag(d, t) <= tag /\ tag < TimeTag(d, u)
    BY <1>5, <2>1, <2>2
  <2>4. /\ TimeTag(d, u) <= TimeTag(c, u)
        /\ TimeTag(d, u) \in Nat /\ TimeTag(c, u) \in Nat
    BY <1>2, <1>4, TagOrder
  <2>5. QED
    BY <1>1, <2>3, <2>4
<1>9. ASSUME s.from <= tag, tag < s.to, DayOf(s.from) = DayOf(s.to)
      PROVE  Covers(e, tag)
  <2>1. d = c
    BY <1>1, <1>2, <1>9, TagOrder
  <2>2. EndDay(e) = d
    BY <1>4, <1>5, <2>1
  <2>3. QED
    BY <1>1, <1>9, <2>1, <2>2 DEF Covers
<1>10. QED
  BY <1>8, <1>9

\* Recordings follow one another, and every entry tells its recording.
SearchTypes ==
  /\ year \in Nat /\ day \in 1..DaysIn(year) /\ time \in 0..(PartsPerDay - 1)
  /\ recording \in BOOLEAN /\ (recording => Len(span) # 0)
  /\ entries \in Seq([createDate : [day : Int, month : Int, year : Nat],
                      createTime : Nat, closeTime : Nat])
  /\ span \in Seq([from : Nat, to : Nat])
  /\ Len(span) = Len(entries)

EntriesTell ==
  \A i \in 1..Len(span) : Tells(entries[i], span[i]) /\ span[i].to <= TimeTag(day, time)

SpansFollow ==
  \A i, j \in 1..Len(span) : i < j => span[i].to <= span[j].from

SearchInv == SearchTypes /\ EntriesTell /\ SpansFollow

LEMMA YearHasDays ==
  ASSUME NEW y \in Nat
  PROVE  DaysIn(y) \in Nat
<1>1. IsLeap(y) \in BOOLEAN
  BY DEF IsLeap
<1>2. MonthStart(IsLeap(y))[13] \in 0..366
  BY <1>1, MonthsAscend
<1>3. QED
  BY <1>2 DEF DaysIn

\* The time of the clock, as a time of the year.
LEMMA NowIsTag ==
  ASSUME SearchTypes
  PROVE  /\ day \in Nat /\ time \in Nat /\ TimeTag(day, time) \in Nat
         /\ PartsPerDay \in Nat \ {0} /\ DaysIn(year) \in Nat
<1>1. day \in Nat /\ time \in 0..(PartsPerDay - 1) /\ DaysIn(year) \in Nat
  BY YearHasDays DEF SearchTypes
<1>2. QED
  BY <1>1, TagOrder

LEMMA SpanTimes ==
  ASSUME SearchTypes, NEW i \in 1..Len(span)
  PROVE  span[i].from \in Nat /\ span[i].to \in Nat
<1>1. span[i] \in [from : Nat, to : Nat]
  <2>1. span \in Seq([from : Nat, to : Nat])
    BY DEF SearchTypes
  <2>2. QED
    BY <2>1, ElementOfSeq
<1>2. QED
  BY <1>1

LEMMA TimeGoesOn ==
  ASSUME SearchInv, Tick
  PROVE  SearchInv'
<1>1. UNCHANGED <<year, entries, recording, span>>
  BY DEF Tick
<1>2. /\ day \in Nat /\ time \in Nat /\ TimeTag(day, time) \in Nat
      /\ PartsPerDay \in Nat \ {0} /\ DaysIn(year) \in Nat
  BY NowIsTag DEF SearchInv
<1>3. \/ time + 1 < PartsPerDay /\ time' = time + 1 /\ day' = day
      \/ time + 1 = PartsPerDay /\ day < DaysIn(year) /\ time' = 0 /\ day' = day + 1
  BY DEF Tick
<1>4. day' \in 1..DaysIn(year) /\ time' \in 0..(PartsPerDay - 1)
  <2>1. day \in 1..DaysIn(year) /\ time \in 0..(PartsPerDay - 1)
    BY DEF SearchInv, SearchTypes
  <2>2. QED
    BY <1>2, <1>3, <2>1
<1>5. TimeTag(day', time') = TimeTag(day, time) + 1
  <2>1. /\ (day + 1) * PartsPerDay = day * PartsPerDay + PartsPerDay
        /\ day * PartsPerDay \in Nat
    BY <1>2
  <2>2. CASE time + 1 < PartsPerDay
    BY <1>2, <1>3, <2>1, <2>2 DEF TimeTag
  <2>3. CASE time + 1 = PartsPerDay /\ time' = 0 /\ day' = day + 1
    BY <1>2, <2>1, <2>3 DEF TimeTag
  <2>4. QED
    BY <1>2, <1>3, <2>2, <2>3
<1>6. SearchTypes'
  BY <1>1, <1>4 DEF SearchInv, SearchTypes, DaysIn, PartsPerDay
<1>7. EntriesTell'
  <2>1. \A i \in 1..Len(span) : span[i].to \in Nat
    BY SpanTimes DEF SearchInv
  <2>2. \A i \in 1..Len(span) : Tells(entries[i], span[i])' = Tells(entries[i], span[i])
    BY <1>1 DEF Tells
  <2>3. TimeTag(day, time)' = TimeTag(day', time')
    BY DEF TimeTag
  <2>4. QED
    BY <1>1, <1>2, <1>5, <2>1, <2>2, <2>3 DEF SearchInv, EntriesTell
<1>8. QED
  BY <1>1, <1>6, <1>7 DEF SearchInv, SpansFollow

LEMMA RecordingOpens ==
  ASSUME SearchInv, SOpenTimes
  PROVE  SearchInv'
<1> DEFINE n == Len(span)
           Entries == [createDate : [day : Int, month : Int, year : Nat],
                       createTime : Nat, closeTime : Nat]
           Spans == [from : Nat, to : Nat]
           e == [createDate |-> SystemDate(day, year), createTime |-> time, closeTime |-> time]
           s == [from |-> TimeTag(day, time), to |-> TimeTag(day, time)]
<1>1. /\ UNCHANGED <<year, day, time>> /\ recording' = TRUE
      /\ entries' = Append(entries, e) /\ span' = Append(span, s)
  BY DEF SOpenTimes
<1>2. day \in Nat /\ time \in Nat /\ TimeTag(day, time) \in Nat
  BY NowIsTag DEF SearchInv
<1>3. SystemDate(day, year) \in [day : Int, month : Int, year : Nat]
  BY DateAndBack DEF SearchInv, SearchTypes
<1>4. Tells(e, s)
  BY <1>2 DEF Tells, SearchInv, SearchTypes
<1>5. e \in Entries
  BY <1>2, <1>3
<1>6. s \in Spans /\ s.from = TimeTag(day, time) /\ s.to = TimeTag(day, time)
  BY <1>2
<1>7. entries \in Seq(Entries) /\ span \in Seq(Spans) /\ Len(entries) = n /\ n \in Nat
  BY DEF SearchInv, SearchTypes
<1> HIDE DEF e, s, Entries, Spans
<1>8. /\ entries' \in Seq(Entries) /\ Len(entries') = n + 1 /\ entries'[n + 1] = e
      /\ \A i \in 1..n : entries'[i] = entries[i]
  BY <1>1, <1>5, <1>7, AppendProperties
<1>9. /\ span' \in Seq(Spans) /\ Len(span') = n + 1 /\ span'[n + 1] = s
      /\ \A i \in 1..n : span'[i] = span[i]
  BY <1>1, <1>6, <1>7, AppendProperties
<1>10. SearchTypes'
  <2>1. day' \in 1..DaysIn(year)' /\ time' \in 0..(PartsPerDay' - 1) /\ year' \in Nat
    BY <1>1 DEF SearchInv, SearchTypes, DaysIn, PartsPerDay
  <2>2. recording' \in BOOLEAN /\ Len(span') # 0
    BY <1>1, <1>7, <1>9
  <2>3. QED
    BY <1>8, <1>9, <2>1, <2>2 DEF SearchTypes, Entries, Spans
<1>11. TimeTag(day, time)' = TimeTag(day, time) /\ \A f, r : Tells(f, r)' = Tells(f, r)
  BY <1>1 DEF TimeTag, Tells
<1>12. ASSUME NEW i \in 1..(n + 1)
       PROVE  Tells(entries'[i], span'[i]) /\ span'[i].to <= TimeTag(day, time)
  <2>1. CASE i = n + 1
    BY <1>2, <1>4, <1>6, <1>8, <1>9, <2>1
  <2>2. CASE i \in 1..n
    BY <1>8, <1>9, <2>2 DEF SearchInv, EntriesTell
  <2>3. QED
    BY <1>7, <2>1, <2>2
<1>13. ASSUME NEW i \in 1..(n + 1), NEW j \in 1..(n + 1), i < j
       PROVE  span'[i].to <= span'[j].from
  <2>1. i \in 1..n /\ span'[i] = span[i]
    BY <1>7, <1>9, <1>13
  <2>2. CASE j = n + 1
    BY <1>6, <1>9, <2>1, <2>2 DEF SearchInv, EntriesTell
  <2>3. CASE j \in 1..n
    BY <1>9, <1>13, <2>1, <2>3 DEF SearchInv, SpansFollow
  <2>4. QED
    BY <1>7, <2>2, <2>3
<1>14. EntriesTell' /\ SpansFollow'
  BY <1>9, <1>11, <1>12, <1>13 DEF EntriesTell, SpansFollow
<1>15. QED
  BY <1>10, <1>14 DEF SearchInv

LEMMA RecordingGrows ==
  ASSUME SearchInv, UpdateStanagTimes
  PROVE  SearchInv'
<1> DEFINE n == Len(span)
           Entries == [createDate : [day : Int, month : Int, year : Nat],
                       createTime : Nat, closeTime : Nat]
           Spans == [from : Nat, to : Nat]
           e == [entries[n] EXCEPT !.closeTime = time]
           s == [span[n] EXCEPT !.to = TimeTag(day, time)]
<1>1. /\ entries \in Seq(Entries) /\ span \in Seq(Spans) /\ Len(entries) = n /\ n \in Nat
      /\ n # 0
  BY DEF SearchInv, SearchTypes, UpdateStanagTimes
<1>2. /\ UNCHANGED <<year, day, time, recording>>
      /\ entries' = [entries EXCEPT ![n] = e] /\ span' = [span EXCEPT ![n] = s]
  BY <1>1 DEF UpdateStanagTimes
<1>3. day \in Nat /\ time \in Nat /\ TimeTag(day, time) \in Nat
  BY NowIsTag DEF SearchInv
<1>4. entries[n] \in Entries /\ span[n] \in Spans
  <2>1. n \in 1..Len(entries) /\ n \in 1..Len(span)
    BY <1>1
  <2> HIDE DEF n, Entries, Spans
  <2>2. QED
    BY <1>1, <2>1, ElementOfSeq
<1>5. e \in Entries /\ s \in Spans /\ s.from = span[n].from /\ s.to = TimeTag(day, time)
  BY <1>3, <1>4
<1>6. Tells(e, s)
  <2>1. Tells(entries[n], span[n]) /\ span[n].to <= TimeTag(day, time)
    BY <1>1 DEF SearchInv, EntriesTell
  <2>2. PICK d \in 1..DaysIn(year), c \in 1..DaysIn(year),
             t \in 0..(PartsPerDay - 1), u \in 0..(PartsPerDay - 1) :
          /\ entries[n] = [createDate |-> SystemDate(d, year), createTime |-> t, closeTime |-> u]
          /\ span[n] = [from |-> TimeTag(d, t), to |-> TimeTag(c, u)]
          /\ span[n].from <= span[n].to
    BY <2>1 DEF Tells
  <2>3. e = [createDate |-> SystemDate(d, year), createTime |-> t, closeTime |-> time]
    BY <2>2
  <2>4. s = [from |-> TimeTag(d, t), to |-> TimeTag(day, time)]
    BY <2>2
  <2>5. s.from <= s.to
    BY <1>3, <1>4, <1>5, <2>1, <2>2
  <2>6. day \in 1..DaysIn(year) /\ time \in 0..(PartsPerDay - 1)
    BY DEF SearchInv, SearchTypes
  <2> HIDE DEF e, s
  <2>7. QED
    BY <2>3, <2>4, <2>5, <2>6 DEF Tells
<1> HIDE DEF e, s, Entries, Spans
<1>7. /\ entries' \in Seq(Entries) /\ Len(entries') = n /\ entries'[n] = e
      /\ \A i \in 1..n : i # n => entries'[i] = entries[i]
  BY <1>1, <1>2, <1>5, ExceptSeq
<1>8. /\ span' \in Seq(Spans) /\ Len(span') = n /\ span'[n] = s
      /\ \A i \in 1..n : i # n => span'[i] = span[i]
  BY <1>1, <1>2, <1>5, ExceptSeq
<1>9. SearchTypes'
  <2>1. /\ day' \in 1..DaysIn(year)' /\ time' \in 0..(PartsPerDay' - 1) /\ year' \in Nat
        /\ recording' \in BOOLEAN
    BY <1>2 DEF SearchInv, SearchTypes, DaysIn, PartsPerDay
  <2>2. QED
    BY <1>1, <1>7, <1>8, <2>1 DEF SearchTypes, Entries, Spans
<1>10. TimeTag(day, time)' = TimeTag(day, time) /\ \A f, r : Tells(f, r)' = Tells(f, r)
  BY <1>2 DEF TimeTag, Tells
<1>11. ASSUME NEW i \in 1..n
       PROVE  Tells(entries'[i], span'[i]) /\ span'[i].to <= TimeTag(day, time)
  <2>1. CASE i = n
    BY <1>3, <1>5, <1>6, <1>7, <1>8, <2>1
  <2>2. CASE i # n
    BY <1>7, <1>8, <2>2 DEF SearchInv, EntriesTell
  <2>3. QED
    BY <2>1, <2>2
<1>12. ASSUME NEW i \in 1..n, NEW j \in 1..n, i < j
       PROVE  span'[i].to <= span'[j].from
  <2>1. span'[i] = span[i]
    BY <1>1, <1>8, <1>12
  <2>2. span'[j].from = span[j].from
    BY <1>5, <1>8
  <2>3. QED
    BY <1>12, <2>1, <2>2 DEF SearchInv, SpansFollow
<1>13. EntriesTell' /\ SpansFollow'
  BY <1>8, <1>10, <1>11, <1>12 DEF EntriesTell, SpansFollow
<1>14. QED
  BY <1>9, <1>13 DEF SearchInv

\* At most one recording was going on at a time, so the first entry that covers it is
\* the only one.
LEMMA FindsTruly ==
  ASSUME SearchInv, NEW tag \in Int
  PROVE  LET going == {i \in 1..Len(span) : /\ span[i].from <= tag /\ tag < span[i].to
                                            /\ ~(recording /\ i = Len(span))}
             found == GetFileFromTime(tag) + 1
         IN  /\ found = 0 \/ found \in going
             /\ \A i \in going : DayOf(span[i].from) = DayOf(span[i].to) => found = i
<1> DEFINE going == {i \in 1..Len(span) : /\ span[i].from <= tag /\ tag < span[i].to
                                          /\ ~(recording /\ i = Len(span))}
           covering == {i \in 1..Len(entries) : Covers(entries[i], tag)}
           first == CHOOSE i \in covering : \A j \in covering : i <= j
<1>1. \A i \in 1..Len(span) : span[i].from \in Nat /\ span[i].to \in Nat
  BY SpanTimes DEF SearchInv
<1>2. Len(span) = Len(entries) /\ Len(span) \in Nat
  BY DEF SearchInv, SearchTypes
<1>3. ASSUME NEW i \in 1..Len(span)
      PROVE  /\ i \in covering => span[i].from <= tag /\ tag < span[i].to
             /\ i \in going /\ DayOf(span[i].from) = DayOf(span[i].to) => i \in covering
  <2>1. Tells(entries[i], span[i])
    BY DEF SearchInv, EntriesTell
  <2>2. QED
    BY <1>2, <2>1, CoversTruly DEF SearchInv, SearchTypes
<1>4. ASSUME NEW i \in covering, NEW j \in covering
      PROVE  i = j
  <2>1. i \in 1..Len(span) /\ j \in 1..Len(span)
    BY <1>2
  <2>2. ~(i < j) /\ ~(j < i)
    BY <1>1, <1>3, <2>1 DEF SearchInv, SpansFollow
  <2>3. QED
    BY <2>1, <2>2
<1>5. CASE covering = {}
  BY <1>3, <1>5 DEF GetFileFromTime
<1>6. CASE covering # {}
  <2>1. PICK i \in covering : TRUE
    BY <1>6
  <2>2. i \in Int /\ \A j \in covering : j = i
    BY <1>4, <2>1
  <2>3. first = i
    BY <2>2
  <2>4. GetFileFromTime(tag) = IF i - 1 = Len(entries) - 1 /\ recording THEN -1 ELSE i - 1
    <3> HIDE DEF first
    <3>1. GetFileFromTime(tag) =
            IF covering = {} \/ (first - 1 = Len(entries) - 1 /\ recording) THEN -1 ELSE first - 1
      BY DEF GetFileFromTime, first
    <3>2. QED
      BY <1>6, <2>3, <3>1
  <2>5. CASE i = Len(entries) /\ recording
    BY <1>2, <1>3, <2>2, <2>4, <2>5
  <2>6. CASE ~(i = Len(entries) /\ recording)
    <3>1. GetFileFromTime(tag) + 1 = i
      BY <1>2, <2>2, <2>4, <2>6
    <3>2. i \in going
      BY <1>2, <1>3, <2>1, <2>6
    <3>3. QED
      BY <1>3, <2>2, <3>1, <3>2
  <2>7. QED
    BY <2>5, <2>6
<1>7. QED
  BY <1>5, <1>6

\* A search by time finds no recording but one that was going on then, and every one
\* that began and ended on a day: for any years and days, any division of the day, and
\* any number of recordings of any length (SearchFindsRecording of FileSearch).
THEOREM SearchIsTrue == SearchSpec => []SearchFindsRecording
<1>1. SearchInit => SearchInv
  <2>1. PartsPerDay \in Nat \ {0}
    BY ClockAssumption DEF PartsPerDay
  <2>2. ASSUME SearchInit
        PROVE  year \in Nat /\ day \in 1..DaysIn(year)
    <3>1. year \in Nat
      BY <2>2, ClockAssumption DEF SearchInit
    <3>2. QED
      BY <2>2, <3>1, YearHasDays, ClockAssumption DEF SearchInit
  <2>3. ASSUME SearchInit
        PROVE  /\ time = 0 /\ recording = FALSE /\ entries = <<>> /\ span = <<>>
               /\ Len(<<>>) = 0 /\ 1..0 = {}
    BY <2>3 DEF SearchInit
  <2>4. SearchInit => SearchTypes
    BY <2>1, <2>2, <2>3, EmptySeq DEF SearchTypes
  <2>5. QED
    BY <2>3, <2>4 DEF SearchInv, EntriesTell, SpansFollow
<1>2. SearchInv /\ [SearchNext]_searchVars => SearchInv'
  <2>1. ASSUME SearchInv, EmergencyCloseTimes \/ UNCHANGED searchVars
        PROVE  SearchInv'
    <3>1. UNCHANGED <<year, day, time, entries, span>>
      BY <2>1 DEF EmergencyCloseTimes, searchVars
    <3>2. QED
      <4>1. SearchTypes'
        <5>1. CASE EmergencyCloseTimes
          BY <2>1, <3>1, <5>1 DEF EmergencyCloseTimes, SearchInv, SearchTypes, DaysIn,
                                  PartsPerDay
        <5>2. CASE UNCHANGED searchVars
          BY <2>1, <3>1, <5>2 DEF searchVars, SearchInv, SearchTypes, DaysIn, PartsPerDay
        <5>3. QED
          BY <2>1, <5>1, <5>2
      <4>2. EntriesTell' /\ SpansFollow'
        BY <2>1, <3>1 DEF SearchInv, EntriesTell, SpansFollow, Tells, TimeTag
      <4>3. QED
        BY <4>1, <4>2 DEF SearchInv
  <2>2. QED
    BY <2>1, TimeGoesOn, RecordingOpens, RecordingGrows, Zenon DEF SearchNext
<1>3. SearchInv => SearchFindsRecording
  <2>1. SUFFICES ASSUME SearchInv,
                        NEW tag \in TimeTag(day, time) - ticks .. TimeTag(day, time)
                 PROVE  LET going == {i \in 1..Len(span) : /\ span[i].from <= tag /\ tag < span[i].to
                                                           /\ ~(recording /\ i = Len(span))}
                            found == GetFileFromTime(tag) + 1
                        IN  /\ found = 0 \/ found \in going
                            /\ \A i \in going :
                                 DayOf(span[i].from) = DayOf(span[i].to) => found = i
    BY DEF SearchFindsRecording
  <2>2. tag \in Int
    OBVIOUS
  <2>3. QED
    BY <2>1, <2>2, FindsTruly
<1>4. QED
  BY <1>1, <1>2, <1>3, PTL DEF SearchSpec
=============================================================================
