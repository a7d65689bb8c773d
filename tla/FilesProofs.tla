---------------------------- MODULE FilesProofs ----------------------------
(***************************************************************************)
(* What cat prints is the file it was asked for, cd stays in the tree, and *)
(* a file that is there is found: for every disk and archive that is well  *)
(* formed, every path and every sequence of commands.                      *)
(***************************************************************************)
EXTENDS Files, Lemmas

Path == Seq(Seq(STRING))

(* What a file record is, opened or not. *)
Records == [flags : {FS_FILE, FS_DIR, FS_INVALID}, at : Nat, position : Nat,
            length : Nat, eof : {0, 1}, deviceID : STRING]

-----------------------------------------------------------------------------
(* The entries of the FAT *)

(* A quotient is bounded. *)
LEMMA DivBound ==
    ASSUME NEW a \in Nat, NEW n \in Nat, NEW d \in Nat \ {0}, a < n * d
    PROVE  a \div d < n
<1>1. a \div d \in Nat /\ a % d \in 0 .. (d - 1) /\ a = (a \div d) * d + (a % d)
  BY DivModNat
<1>2. SUFFICES ASSUME n <= a \div d PROVE FALSE
  BY <1>1
<1>3. n * d <= (a \div d) * d
  BY <1>1, <1>2, MulMono
<1>4. PICK x \in Nat, y \in Nat : x = n * d /\ y = (a \div d) * d
  BY <1>1
<1> QED
  BY <1>1, <1>3, <1>4

(* A number put together is taken apart again. *)
LEMMA DivParts ==
    ASSUME NEW a \in Nat, NEW d \in Nat \ {0}, NEW r \in Nat, r < d
    PROVE  (a * d + r) \div d = a /\ (a * d + r) % d = r
<1>1. r \in 0 .. (d - 1)
  OBVIOUS
<1> QED
  BY <1>1, DivExact

(* The two ways an entry of 12 bits is cut. *)
LEMMA TwelveBits ==
    ASSUME NEW a \in Nat, a < 4096
    PROVE  /\ a \div 256 \in Nat /\ a \div 256 < 16
           /\ a % 256 \in Nat /\ a % 256 < 256
           /\ a = (a \div 256) * 256 + (a % 256)
           /\ a \div 16 \in Nat /\ a \div 16 < 256
           /\ a % 16 \in Nat /\ a % 16 < 16
           /\ a = (a \div 16) * 16 + (a % 16)
<1>1. a < 16 * 256 /\ a < 256 * 16 /\ 256 \in Nat \ {0} /\ 16 \in Nat \ {0}
  OBVIOUS
<1>2. a \div 256 \in Nat /\ a % 256 \in 0 .. (256 - 1) /\ a = (a \div 256) * 256 + (a % 256)
  BY <1>1, DivModNat
<1>3. a \div 16 \in Nat /\ a % 16 \in 0 .. (16 - 1) /\ a = (a \div 16) * 16 + (a % 16)
  BY <1>1, DivModNat
<1>4. a \div 256 < 16 /\ a \div 16 < 256
  BY <1>1, DivBound
<1>5. a % 256 \in Nat /\ a % 256 < 256 /\ a % 16 \in Nat /\ a % 16 < 16
  BY <1>2, <1>3
<1> QED
  BY <1>2, <1>3, <1>4, <1>5

(* The clusters have small numbers. *)
LEMMA ClustersType ==
    ASSUME Written(disk), NEW c \in Clusters
    PROVE  /\ c \in Nat /\ 1 < c /\ c < 4088
           /\ disk.next[c] \in Nat /\ disk.next[c] < 4096
           /\ disk.next[c] \in Clusters \/ disk.next[c] = 0 \/ 4088 <= disk.next[c]
           /\ c + (c \div 2) + 1 < SectorSize * FatSectors
BY DEF Written, FatWritten, Clusters

LEMMA ClusterNumbers ==
    ASSUME Written(disk)
    PROVE  Clusters \subseteq Nat
BY ClustersType

(* An entry of the FAT has 12 bits. *)
LEMMA FatEntryType ==
    ASSUME Written(disk), NEW n \in Nat
    PROVE  /\ FatEntry(n) \in Nat /\ FatEntry(n) < 4096
           /\ n \in Clusters => FatEntry(n) = disk.next[n]
<1>1. CASE n \in Clusters
  <2>1. n # 0
    BY <1>1, ClustersType
  <2>2. FatEntry(n) = disk.next[n]
    BY <1>1, <2>1 DEF FatEntry
  <2> QED
    BY <1>1, <2>2, ClustersType
<1>2. CASE n \notin Clusters
  BY <1>2 DEF FatEntry
<1> QED
  BY <1>1, <1>2

(* Three bytes of the FAT from an even entry on. *)
LEMMA FatBytes ==
    ASSUME NEW m \in Nat
    PROVE  /\ FatByte(3 * m) = FatEntry(2 * m) % 256
           /\ FatByte(3 * m + 1) = (FatEntry(2 * m) \div 256) + 16 * (FatEntry(2 * m + 1) % 16)
           /\ FatByte(3 * m + 2) = FatEntry(2 * m + 1) \div 16
<1>1. /\ (3 * m) % 3 = 0 /\ (3 * m) \div 3 = m
      /\ (3 * m + 1) % 3 = 1 /\ (3 * m + 1) \div 3 = m
      /\ (3 * m + 2) % 3 = 2 /\ (3 * m + 2) \div 3 = m
  OBVIOUS
<1> QED
  BY <1>1 DEF FatByte

(* A byte of the FAT is a number. *)
LEMMA FatByteType ==
    ASSUME Written(disk), NEW i \in Nat
    PROVE  FatByte(i) \in Nat
<1>1. PICK m \in Nat, r \in 0 .. 2 : i = 3 * m + r
  <2>1. i \div 3 \in Nat /\ i % 3 \in 0 .. 2 /\ i = (i \div 3) * 3 + (i % 3)
    BY DivModNat
  <2> QED
    BY <2>1
<1> DEFINE a == FatEntry(2 * m)
           b == FatEntry(2 * m + 1)
<1>2. 2 * m \in Nat /\ 2 * m + 1 \in Nat
  OBVIOUS
<1>3. a \in Nat /\ a < 4096 /\ b \in Nat /\ b < 4096
  BY <1>2, FatEntryType
<1>4. /\ FatByte(3 * m) = a % 256
      /\ FatByte(3 * m + 1) = (a \div 256) + 16 * (b % 16)
      /\ FatByte(3 * m + 2) = b \div 16
  BY FatBytes
<1> HIDE DEF a, b
<1>5. a % 256 \in Nat /\ a \div 256 \in Nat /\ b \div 16 \in Nat /\ b % 16 \in Nat
  BY <1>3, TwelveBits
<1>6. FatByte(3 * m) \in Nat /\ FatByte(3 * m + 1) \in Nat /\ FatByte(3 * m + 2) \in Nat
  BY <1>4, <1>5
<1>7. r = 0 \/ r = 1 \/ r = 2
  OBVIOUS
<1>8. 3 * m + 0 = 3 * m
  OBVIOUS
<1> QED
  BY <1>1, <1>6, <1>7, <1>8

(* A sector holds its part of the FAT. *)
LEMMA SectorByteIs ==
    ASSUME NEW q \in Nat, q < FatSectors, NEW i \in Nat
    PROVE  SectorByte(1 + q, i) = FatByte(q * SectorSize + i)
<1>1. ((1 + q) - 1) % FatSectors = q
  BY Fat12Assumption
<1> QED
  BY <1>1 DEF SectorByte

(* What is behind the start of the FAT, in whichever sector. *)
LEMMA FatArrayIs ==
    ASSUME NEW offset \in Nat, offset + 1 < SectorSize * FatSectors
    PROVE  LET sector == 1 + (offset \div SectorSize)
               at == offset % SectorSize
           IN  /\ FatArray(sector, at) = FatByte(offset)
               /\ FatArray(sector, at + 1) = FatByte(offset + 1)
<1> DEFINE q == offset \div SectorSize
           at == offset % SectorSize
<1>1. q \in Nat /\ at \in 0 .. SectorSize - 1 /\ offset = q * SectorSize + at
  BY Fat12Assumption, DivModNat
<1> HIDE DEF q, at
<1>2. SectorSize \in Nat \ {0} /\ FatSectors \in Nat \ {0}
  BY Fat12Assumption
<1>3. q < FatSectors
  <2>1. SUFFICES ASSUME FatSectors <= q PROVE FALSE
    BY <1>1, <1>2
  <2>2. FatSectors * SectorSize <= q * SectorSize
    BY <1>1, <1>2, <2>1, MulMono
  <2>3. PICK x \in Nat, y \in Nat : x = FatSectors * SectorSize /\ y = q * SectorSize
    BY <1>1, <1>2
  <2>4. SectorSize * FatSectors = x
    BY <1>2, <2>3
  <2> QED
    BY <1>1, <2>2, <2>3, <2>4
<1>4. FatArray(1 + q, at) = FatByte(offset)
  BY <1>1, <1>2, <1>3, SectorByteIs DEF FatArray
<1>5. CASE at + 1 < SectorSize
  <2>1. q * SectorSize + (at + 1) = offset + 1
    <3>1. PICK y \in Nat : y = q * SectorSize
      BY <1>1, <1>2
    <3> QED
      BY <1>1, <3>1
  <2>2. FatArray(1 + q, at + 1) = SectorByte(1 + q, at + 1)
    BY <1>5 DEF FatArray
  <2>3. SectorByte(1 + q, at + 1) = FatByte(q * SectorSize + (at + 1))
    BY <1>1, <1>3, SectorByteIs
  <2> QED
    BY <1>4, <2>1, <2>2, <2>3 DEF q, at
<1>6. CASE ~ at + 1 < SectorSize
  <2>1. at + 1 = SectorSize /\ (at + 1) - SectorSize = 0
    BY <1>1, <1>2, <1>6
  <2>2. (q + 1) * SectorSize = q * SectorSize + SectorSize
    BY <1>1, <1>2
  <2>3. PICK y \in Nat : y = q * SectorSize
    BY <1>1, <1>2
  <2>4. (q + 1) * SectorSize = offset + 1
    BY <1>1, <1>2, <2>1, <2>2, <2>3
  <2>5. q + 1 < FatSectors
    <3>1. SUFFICES ASSUME FatSectors <= q + 1 PROVE FALSE
      BY <1>1, <1>2
    <3>2. FatSectors * SectorSize <= (q + 1) * SectorSize
      BY <1>1, <1>2, <3>1, MulMono
    <3>3. FatSectors * SectorSize = SectorSize * FatSectors
      BY <1>2
    <3>4. PICK x \in Nat : x = SectorSize * FatSectors
      BY <1>2
    <3> QED
      BY <2>4, <3>2, <3>3, <3>4
  <2>6. FatArray(1 + q, at + 1) = SectorByte(1 + (q + 1), 0)
    <3>1. (1 + q) + 1 = 1 + (q + 1)
      BY <1>1
    <3> QED
      BY <1>6, <2>1, <3>1 DEF FatArray
  <2>7. SectorByte(1 + (q + 1), 0) = FatByte((q + 1) * SectorSize + 0)
    <3>1. q + 1 \in Nat /\ 0 \in Nat
      BY <1>1
    <3> QED
      BY <2>5, <3>1, SectorByteIs
  <2>8. offset + 1 + 0 = offset + 1
    OBVIOUS
  <2> QED
    BY <1>4, <2>4, <2>6, <2>7, <2>8 DEF q, at
<1> QED
  BY <1>5, <1>6

(* The next cluster is the entry of the FAT, odd or even, in one sector or  *)
(* across two.                                                              *)
LEMMA NextClusterIs ==
    ASSUME Written(disk), NEW c \in Clusters
    PROVE  NextCluster(c) = disk.next[c]
<1> DEFINE offset == c + (c \div 2)
<1>1. c \in Nat /\ offset + 1 < SectorSize * FatSectors
  BY ClustersType
<1>2. c \div 2 \in Nat
  BY <1>1, DivModNat
<1>3. offset \in Nat
  BY <1>1, <1>2
<1> DEFINE word == FatByte(offset) + 256 * FatByte(offset + 1)
<1>4. NextCluster(c) = IF c % 2 = 1 THEN word \div 16 ELSE word % 4096
  <2>1. /\ FatArray(1 + (offset \div SectorSize), offset % SectorSize) = FatByte(offset)
        /\ FatArray(1 + (offset \div SectorSize), (offset % SectorSize) + 1) = FatByte(offset + 1)
    <3> HIDE DEF offset
    <3> QED
      BY <1>1, <1>3, FatArrayIs
  <2> QED
    BY <2>1 DEF NextCluster
<1> HIDE DEF offset, word
<1> DEFINE m == c \div 2
           e == FatEntry(c)
<1>5. e \in Nat /\ e < 4096 /\ e = disk.next[c] /\ m \in Nat /\ c = 2 * m + (c % 2) /\ c % 2 \in 0 .. 1
  <2>1. e \in Nat /\ e < 4096 /\ e = disk.next[c]
    BY <1>1, FatEntryType
  <2>2. 2 \in Nat \ {0}
    OBVIOUS
  <2>3. c % 2 \in 0 .. (2 - 1) /\ c = m * 2 + (c % 2)
    BY <1>1, <2>2, DivModNat
  <2>4. c % 2 \in 0 .. 1 /\ c = 2 * m + (c % 2)
    <3> HIDE DEF m
    <3> QED
      BY <1>2, <2>3 DEF m
  <2> QED
    BY <1>2, <2>1, <2>4
<1> DEFINE a == FatEntry(2 * m)
           b == FatEntry(2 * m + 1)
<1>6. a \in Nat /\ a < 4096 /\ b \in Nat /\ b < 4096
  <2>1. 2 * m \in Nat /\ 2 * m + 1 \in Nat
    BY <1>5
  <2> QED
    BY <2>1, FatEntryType
<1>7. /\ FatByte(3 * m) = a % 256
      /\ FatByte(3 * m + 1) = (a \div 256) + 16 * (b % 16)
      /\ FatByte(3 * m + 2) = b \div 16
  BY <1>5, FatBytes
<1>8. CASE c % 2 = 1
  <2>1. c = 2 * m + 1
    BY <1>5, <1>8
  <2>2. offset = 3 * m + 1 /\ offset + 1 = 3 * m + 2
    <3>1. offset = c + m
      BY DEF offset
    <3> QED
      BY <1>5, <2>1, <3>1
  <2>3. e = b
    BY <2>1
  <2> HIDE DEF a, b, e, m
  <2>4. word = ((a \div 256) + 16 * (b % 16)) + 256 * (b \div 16)
    BY <1>7, <2>2 DEF word
  <2>5. /\ a \div 256 \in Nat /\ a \div 256 < 16 /\ b % 16 \in Nat /\ b \div 16 \in Nat
        /\ b = (b \div 16) * 16 + (b % 16)
    BY <1>6, TwelveBits
  <2>6. ASSUME NEW x \in Nat, NEW y \in Nat, NEW z \in Nat, b = y * 16 + z
        PROVE  (x + 16 * z) + 256 * y = b * 16 + x
    BY <2>6
  <2>7. word = b * 16 + (a \div 256)
    BY <2>4, <2>5, <2>6
  <2>8. word \div 16 = b
    <3> DEFINE r == a \div 256
    <3>1. b \in Nat /\ 16 \in Nat \ {0} /\ r \in Nat /\ r < 16 /\ word = b * 16 + r
      BY <1>6, <2>5, <2>7
    <3> HIDE DEF r
    <3> QED
      BY <3>1, DivParts
  <2> QED
    BY <1>4, <1>5, <1>8, <2>3, <2>8
<1>9. CASE c % 2 = 0
  <2>1. c = 2 * m
    BY <1>5, <1>9
  <2>2. offset = 3 * m /\ offset + 1 = 3 * m + 1
    <3>1. offset = c + m
      BY DEF offset
    <3> QED
      BY <1>5, <2>1, <3>1
  <2>3. e = a
    BY <2>1
  <2> HIDE DEF a, b, e, m
  <2>4. word = (a % 256) + 256 * ((a \div 256) + 16 * (b % 16))
    BY <1>7, <2>2 DEF word
  <2>5. /\ a \div 256 \in Nat /\ b % 16 \in Nat /\ a % 256 \in Nat
        /\ a = (a \div 256) * 256 + (a % 256)
    BY <1>6, TwelveBits
  <2>6. ASSUME NEW x \in Nat, NEW y \in Nat, NEW z \in Nat, a = y * 256 + x
        PROVE  x + 256 * (y + 16 * z) = z * 4096 + a
    BY <2>6
  <2>7. word = (b % 16) * 4096 + a
    BY <2>4, <2>5, <2>6
  <2>8. word % 4096 = a
    <3> DEFINE r == b % 16
    <3>1. a \in Nat /\ a < 4096 /\ 4096 \in Nat \ {0} /\ r \in Nat /\ word = r * 4096 + a
      BY <1>6, <2>5, <2>7
    <3> HIDE DEF r
    <3> QED
      BY <3>1, DivParts
  <2> QED
    BY <1>4, <1>5, <1>9, <2>3, <2>8
<1> QED
  BY <1>5, <1>8, <1>9

(* Whatever is read, a number comes of it. *)
LEMMA NextClusterType ==
    ASSUME Written(disk), NEW c \in Nat
    PROVE  NextCluster(c) \in Nat
<1> DEFINE offset == c + (c \div 2)
           sector == 1 + (offset \div SectorSize)
           at == offset % SectorSize
<1>1. ASSUME NEW s \in Nat \ {0}, NEW i \in Nat PROVE SectorByte(s, i) \in Nat
  <2>1. (s - 1) % FatSectors \in Nat
    BY Fat12Assumption, DivModType
  <2>2. ((s - 1) % FatSectors) * SectorSize \in Nat
    BY <2>1, Fat12Assumption
  <2>3. ((s - 1) % FatSectors) * SectorSize + i \in Nat
    BY <2>2
  <2> QED
    BY <2>3, FatByteType DEF SectorByte
<1>2. ASSUME NEW s \in Nat \ {0}, NEW i \in Nat PROVE FatArray(s, i) \in Nat
  <2>1. SectorSize \in Nat /\ s + 1 \in Nat \ {0}
    BY Fat12Assumption
  <2>2. CASE i < SectorSize
    BY <1>1, <2>2 DEF FatArray
  <2>3. CASE ~ i < SectorSize
    <3>1. i - SectorSize \in Nat
      BY <2>1, <2>3
    <3> QED
      BY <1>1, <2>1, <2>3, <3>1 DEF FatArray
  <2> QED
    BY <2>2, <2>3
<1>3. offset \in Nat
  <2>1. c \div 2 \in Nat
    BY DivModNat
  <2> QED
    BY <2>1
<1>4. sector \in Nat \ {0} /\ at \in Nat
  <2> HIDE DEF offset
  <2>1. offset \div SectorSize \in Nat /\ offset % SectorSize \in Nat
    BY <1>3, Fat12Assumption, DivModNat
  <2> QED
    BY <2>1
<1> DEFINE word == FatArray(sector, at) + 256 * FatArray(sector, at + 1)
<1>5. word \in Nat
  <2> HIDE DEF sector, at
  <2>1. at + 1 \in Nat
    BY <1>4
  <2> QED
    BY <1>2, <1>4, <2>1
<1>6. NextCluster(c) = IF c % 2 = 1 THEN word \div 16 ELSE word % 4096
  BY DEF NextCluster
<1>7. word \div 16 \in Nat /\ word % 4096 \in Nat
  <2> HIDE DEF word
  <2>1. 16 \in Nat \ {0} /\ 4096 \in Nat \ {0}
    OBVIOUS
  <2>2. word \div 16 \in Nat
    BY <1>5, <2>1, DivModNat
  <2>3. word % 4096 \in 0 .. (4096 - 1)
    BY <1>5, <2>1, DivModNat
  <2>4. ASSUME NEW x, x \in 0 .. (4096 - 1) PROVE x \in Nat
    BY <2>4
  <2> QED
    BY <2>2, <2>3, <2>4
<1> QED
  BY <1>6, <1>7

-----------------------------------------------------------------------------
(* What an open of the floppy finds *)

LEMMA InvalidType == Invalid \in Records
<1>1. "none" \in STRING
  BY FilesAssumption
<1> QED
  BY <1>1 DEF Invalid, Records, FS_INVALID

LEMMA FoundType ==
    ASSUME NEW e \in Entries
    PROVE  Found(e) \in Records
<1>1. "none" \in STRING
  BY FilesAssumption
<1>2. e.cluster \in Nat /\ e.size \in Nat
  BY DEF Entries
<1> QED
  BY <1>1, <1>2 DEF Found, Records, FS_FILE, FS_DIR, FS_INVALID

(* The search returns an entry with the name, or there is none.             *)
LEMMA FirstNamedIs ==
    ASSUME NEW sectors \in Seq(Seq(Entries)), NEW part
    PROVE  \/ /\ FirstNamed(sectors, part) = Invalid
              /\ \A s \in DOMAIN sectors : \A i \in DOMAIN sectors[s] :
                    sectors[s][i].name # ToDosFileName(part)
           \/ \E s \in DOMAIN sectors : \E i \in DOMAIN sectors[s] :
                 /\ sectors[s][i].name = ToDosFileName(part)
                 /\ FirstNamed(sectors, part) = Found(sectors[s][i])
<1> DEFINE name == ToDosFileName(part)
           hits(s) == { i \in DOMAIN sectors[s] : sectors[s][i].name = name }
           in == { s \in DOMAIN sectors : hits(s) # {} }
           first == Min(in)
<1>1. FirstNamed(sectors, part) =
         IF in = {} THEN Invalid ELSE Found(sectors[first][Min(hits(first))])
  BY DEF FirstNamed
<1>2. CASE in = {}
  BY <1>1, <1>2
<1>3. CASE in # {}
  <2>1. in \subseteq Nat
    BY LenProperties
  <2>2. first \in in
    <3> HIDE DEF in
    <3> QED
      BY <1>3, <2>1, MinOfNaturals
  <2> HIDE DEF first
  <2>3. first \in DOMAIN sectors /\ hits(first) # {}
    BY <2>2
  <2>4. sectors[first] \in Seq(Entries)
    BY <2>3
  <2>5. hits(first) \subseteq Nat
    BY <2>4, LenProperties
  <2>6. Min(hits(first)) \in hits(first)
    <3> HIDE DEF hits
    <3> QED
      BY <2>3, <2>5, MinOfNaturals
  <2>7. FirstNamed(sectors, part) = Found(sectors[first][Min(hits(first))])
    BY <1>1, <1>3
  <2> QED
    BY <2>3, <2>6, <2>7
<1> QED
  BY <1>2, <1>3

LEMMA FirstNamedType ==
    ASSUME NEW sectors \in Seq(Seq(Entries)), NEW part
    PROVE  FirstNamed(sectors, part) \in Records
<1>1. ASSUME NEW s \in DOMAIN sectors, NEW i \in DOMAIN sectors[s]
      PROVE  Found(sectors[s][i]) \in Records
  <2>1. sectors[s] \in Seq(Entries)
    OBVIOUS
  <2>2. sectors[s][i] \in Entries
    BY <2>1
  <2> QED
    BY <2>2, FoundType
<1> QED
  BY <1>1, FirstNamedIs, InvalidType

(* A directory that a search finds is one of the disk, if the sectors are.  *)
LEMMA FoundDirectory ==
    ASSUME NEW sectors \in Seq(Seq(Entries)), NEW part,
           \A s \in DOMAIN sectors : sectors[s] \in Leftovers,
           FirstNamed(sectors, part).flags = FS_DIR
    PROVE  ToDosFileName(part) \in DosDirectories
<1>1. PICK s \in DOMAIN sectors : \E i \in DOMAIN sectors[s] :
         /\ sectors[s][i].name = ToDosFileName(part)
         /\ FirstNamed(sectors, part) = Found(sectors[s][i])
  BY FirstNamedIs DEF Invalid, FS_DIR, FS_INVALID
<1>2. PICK i \in DOMAIN sectors[s] :
         /\ sectors[s][i].name = ToDosFileName(part)
         /\ FirstNamed(sectors, part) = Found(sectors[s][i])
  BY <1>1
<1>3. sectors[s][i].dir
  BY <1>2 DEF Found, FS_DIR, FS_FILE
<1>4. sectors[s] \in ToSet(disk.root) \cup Range(disk.dirs)
  <2>1. sectors[s] # <<>>
    BY <1>2
  <2> QED
    BY <2>1 DEF Leftovers
<1>5. sectors[s][i] \in ToSet(sectors[s])
  BY DEF ToSet
<1> QED
  BY <1>2, <1>3, <1>4, <1>5 DEF DosDirectories

(* The root directory, however much of it was read.                         *)
LEMMA RootReadIs ==
    ASSUME Written(disk), NEW root \in RootReads
    PROVE  /\ root \in Seq(Seq(Entries))
           /\ \A s \in DOMAIN root : root[s] \in Leftovers
<1>1. disk.root \in Seq(Seq(Entries))
  BY DEF Written, EntriesWritten
<1>2. PICK n \in Nat : DOMAIN disk.root = 1 .. n
  BY <1>1
<1>3. \A s \in DOMAIN disk.root : disk.root[s] \in Leftovers
  BY DEF Leftovers, ToSet
<1>4. CASE root = disk.root
  BY <1>1, <1>3, <1>4
<1>5. CASE root # disk.root
  <2>1. PICK t \in DOMAIN disk.root, left \in Leftovers :
           root = [disk.root EXCEPT ![t] = left]
    BY <1>5 DEF RootReads, RootWithout
  <2>2. left \in Seq(Entries)
    <3>1. CASE left = <<>>
      BY <3>1
    <3>2. CASE left \in ToSet(disk.root)
      BY <1>1, <3>2 DEF ToSet
    <3>3. CASE left \in Range(disk.dirs)
      BY <3>3 DEF Range, Written, EntriesWritten
    <3> QED
      BY <3>1, <3>2, <3>3 DEF Leftovers
  <2>3. DOMAIN root = 1 .. n /\ \A s \in 1 .. n : root[s] = IF s = t THEN left ELSE disk.root[s]
    BY <1>2, <2>1
  <2>4. root = [s \in 1 .. n |-> IF s = t THEN left ELSE disk.root[s]]
    BY <1>2, <2>1
  <2>5. \A s \in 1 .. n : disk.root[s] \in Seq(Entries)
    BY <1>1, <1>2
  <2>6. root \in [1 .. n -> Seq(Entries)]
    BY <2>2, <2>4, <2>5
  <2>7. root \in Seq(Seq(Entries))
    <3> DEFINE T == Seq(Entries)
    <3>1. root \in [1 .. n -> T] /\ n \in Nat
      BY <2>6
    <3> HIDE DEF T
    <3>2. root \in Seq(T)
      BY <3>1
    <3> QED
      BY <3>2 DEF T
  <2>8. \A s \in DOMAIN root : root[s] \in Leftovers
    BY <1>2, <1>3, <2>3
  <2> QED
    BY <2>7, <2>8
<1> QED
  BY <1>4, <1>5

(* The entry found in the root directory.                                   *)
LEMMA DirectoryIs ==
    ASSUME Written(disk), NEW part, NEW root \in RootReads,
           NEW f, f = fsysFatDirectory(part, root)
    PROVE  /\ f \in Records
           /\ f.flags = FS_DIR => ToDosFileName(part) \in DosDirectories
           /\ root = disk.root =>
                \/ /\ f = Invalid
                   /\ \A s \in DOMAIN disk.root : \A i \in DOMAIN disk.root[s] :
                         disk.root[s][i].name # ToDosFileName(part)
                \/ \E s \in DOMAIN disk.root : \E i \in DOMAIN disk.root[s] :
                      /\ disk.root[s][i].name = ToDosFileName(part)
                      /\ f = Found(disk.root[s][i])
<1>1. root \in Seq(Seq(Entries)) /\ \A s \in DOMAIN root : root[s] \in Leftovers
  BY RootReadIs
<1>2. f = FirstNamed(root, part)
  BY DEF fsysFatDirectory
<1>3. f \in Records
  BY <1>1, <1>2, FirstNamedType
<1>4. f.flags = FS_DIR => ToDosFileName(part) \in DosDirectories
  BY <1>1, <1>2, FoundDirectory
<1> QED
  BY <1>1, <1>2, <1>3, <1>4, FirstNamedIs

LEMMA SubDirType ==
    ASSUME Written(disk), NEW kFile, NEW part
    PROVE  /\ fsysFatOpenSubDir(kFile, part) \in SUBSET Records
           /\ \A f \in fsysFatOpenSubDir(kFile, part) :
                f.flags = FS_DIR => ToDosFileName(part) \in DosDirectories
<1>1. ASSUME NEW c, NEW f,
             f = FirstNamed([i \in 1 .. DirReads |-> EntriesIn(Walk(c)[i])], part)
      PROVE  f \in Records /\ (f.flags = FS_DIR => ToDosFileName(part) \in DosDirectories)
  <2>1. ASSUME NEW x PROVE EntriesIn(x) \in Seq(Entries) /\ EntriesIn(x) \in Leftovers
    <3>1. CASE x \in DOMAIN disk.dirs
      BY <3>1 DEF EntriesIn, Written, EntriesWritten, Leftovers, Range
    <3>2. CASE x \notin DOMAIN disk.dirs
      BY <3>2 DEF EntriesIn, Leftovers
    <3> QED
      BY <3>1, <3>2
  <2> DEFINE sectors == [i \in 1 .. DirReads |-> EntriesIn(Walk(c)[i])]
  <2>2. sectors \in [1 .. DirReads -> Seq(Entries)]
    BY <2>1
  <2>3. sectors \in Seq(Seq(Entries))
    BY <2>2, Fat12Assumption
  <2>5. \A i \in DOMAIN sectors : sectors[i] \in Leftovers
    BY <2>1
  <2>6. f = FirstNamed(sectors, part)
    BY <1>1
  <2> HIDE DEF sectors
  <2> QED
    BY <2>3, <2>5, <2>6, FirstNamedType, FoundDirectory
<1> QED
  BY <1>1 DEF fsysFatOpenSubDir

(* Whatever an open returns is a file record; in the root directory there   *)
(* is one result.  If it is a directory, one on the disk has the last name. *)
LEMMA FatOpenIs ==
    ASSUME Written(disk), NEW p \in Seq(Seq(STRING)), p # <<>>, NEW root \in RootReads
    PROVE  /\ fsysFatOpen(p, root) \in SUBSET Records
           /\ Len(p) = 2 => fsysFatOpen(p, root) = {fsysFatDirectory(p[2], root)}
           /\ \A f \in fsysFatOpen(p, root) :
                f.flags = FS_DIR => ToDosFileName(p[Len(p)]) \in DosDirectories
<1> DEFINE Leads(fs, part) ==
             /\ fs \in SUBSET Records
             /\ \A f \in fs : f.flags = FS_DIR => ToDosFileName(part) \in DosDirectories
<1>1. ASSUME NEW part PROVE Leads({fsysFatDirectory(part, root)}, part)
  BY DirectoryIs
<1>2. CASE Len(p) = 1
  <2>1. fsysFatOpen(p, root) = {fsysFatDirectory(p[1], root)}
    BY <1>2 DEF fsysFatOpen
  <2> QED
    BY <1>1, <1>2, <2>1
<1>3. CASE Len(p) # 1
  <2>1. PICK n \in Nat : n = Len(p) - 2
    <3>1. Len(p) \in Nat /\ Len(p) # 0
      BY EmptySeq, LenProperties
    <3> DEFINE l == Len(p)
    <3>2. l \in Nat /\ l # 0 /\ l # 1
      BY <1>3, <3>1
    <3> HIDE DEF l
    <3>3. l - 2 \in Nat
      BY <3>2
    <3> QED
      BY <3>3 DEF l
  <2> DEFINE base == {fsysFatDirectory(p[2], root)}
             Sub(f, i) == IF f.flags = FS_DIR THEN fsysFatOpenSubDir(f, p[i + 2]) ELSE {f}
             T == SUBSET Records
             L(fs, i) == Leads(fs, p[i + 2])
             g == [q \in T \X (1 .. n) |-> UNION { Sub(f, q[2]) : f \in q[1] }]
             IsOpened(h) == h = [i \in 0 .. n |-> IF i = 0 THEN base
                                                ELSE UNION { Sub(f, i) : f \in h[i - 1] }]
  <2>2. base \in T /\ L(base, 0)
    BY <1>1
  <2>3. ASSUME NEW fs \in T, NEW i
        PROVE  UNION { Sub(f, i) : f \in fs } \in T /\ L(UNION { Sub(f, i) : f \in fs }, i)
    <3>1. ASSUME NEW f \in fs PROVE L(Sub(f, i), i)
      <4>1. CASE f.flags = FS_DIR
        BY <4>1, SubDirType
      <4>2. CASE f.flags # FS_DIR
        BY <4>2
      <4> QED
        BY <4>1, <4>2
    <3> HIDE DEF Sub
    <3> QED
      BY <3>1
  <2> HIDE DEF base, Sub, T, L
  <2>4. g \in [T \X (1 .. n) -> T]
    <3>1. ASSUME NEW q \in T \X (1 .. n) PROVE UNION { Sub(f, q[2]) : f \in q[1] } \in T
      <4>1. PICK fs \in T, i \in 1 .. n : fs = q[1] /\ i = q[2]
        BY <3>1
      <4>2. UNION { Sub(f, i) : f \in fs } \in T
        BY <2>3
      <4> QED
        BY <4>1, <4>2
    <3> QED
      BY <3>1, Zenon
  <2>5. PICK h : Loop(h, T, base, n, g)
    <3> HIDE DEF g
    <3>1. LoopBody(T, base, n, g)
      BY <2>2, <2>4 DEF LoopBody
    <3> QED
      BY <3>1, LoopExists
  <2>6. /\ h \in [0 .. n -> T] /\ h[0] = base
        /\ \A i \in 1 .. n : h[i] = g[<<h[i - 1], i>>]
    <3> HIDE DEF g
    <3> QED
      BY <2>5 DEF Loop
  <2>7. \A i \in 1 .. n : h[i] = UNION { Sub(f, i) : f \in h[i - 1] }
    <3> TAKE i \in 1 .. n
    <3>1. h[i - 1] \in T
      BY <2>6
    <3>2. g[<<h[i - 1], i>>] = UNION { Sub(f, i) : f \in h[i - 1] }
      BY <3>1
    <3> QED
      BY <2>6, <3>2
  <2>8. IsOpened(h)
    <3> HIDE DEF g
    <3> QED
      BY <2>6, <2>7
  <2> DEFINE opened == CHOOSE x : IsOpened(x)
  <2>9. IsOpened(opened)
    BY <2>8
  <2>10. fsysFatOpen(p, root) = opened[n]
    BY <1>3, <2>1 DEF fsysFatOpen, base, Sub
  <2> HIDE DEF opened
  <2>11. opened[0] = base
    BY <2>9
  <2>12. \A i \in 0 .. n : opened[i] \in T
    <3> DEFINE S == [i \in 0 .. n |-> T]
    <3>1. opened[0] \in S[0]
      BY <2>2, <2>11
    <3>2. \A i \in 1 .. n : opened[i - 1] \in S[i - 1] => opened[i] \in S[i]
      <4> TAKE i \in 1 .. n
      <4>1. i - 1 \in 0 .. n /\ i \in 0 .. n /\ i # 0
        OBVIOUS
      <4>2. opened[i] = UNION { Sub(f, i) : f \in opened[i - 1] }
        BY <2>9, <4>1
      <4>3. S[i - 1] = T /\ S[i] = T
        BY <4>1
      <4> HIDE DEF S, IsOpened
      <4>4. ASSUME opened[i - 1] \in T PROVE opened[i] \in T
        <5>1. PICK fs \in T : fs = opened[i - 1]
          BY <4>4
        <5>2. UNION { Sub(f, i) : f \in fs } \in T
          BY <2>3
        <5> QED
          BY <4>2, <5>1, <5>2
      <4> QED
        BY <4>3, <4>4
    <3> HIDE DEF S
    <3>3. \A i \in 0 .. n : opened[i] \in S[i]
      BY <3>1, <3>2, LoopKeeps
    <3> QED
      BY <3>3 DEF S
  <2>13. opened[n] \in T
    BY <2>12
  <2>15. L(opened[n], n)
    <3>1. CASE n = 0
      BY <2>2, <2>11, <3>1
    <3>2. CASE n # 0
      <4>1. n \in 1 .. n /\ n \in 0 .. n /\ n - 1 \in 0 .. n
        BY <3>2
      <4>2. opened[n] = UNION { Sub(f, n) : f \in opened[n - 1] } /\ opened[n - 1] \in T
        BY <2>9, <2>12, <3>2, <4>1
      <4>3. PICK fs \in T : fs = opened[n - 1]
        BY <4>2
      <4>4. L(UNION { Sub(f, n) : f \in fs }, n)
        BY <2>3
      <4> QED
        BY <4>2, <4>3, <4>4
    <3> QED
      BY <3>1, <3>2
  <2>16. n + 2 = Len(p)
    <3>1. Len(p) \in Nat
      BY LenProperties
    <3> QED
      BY <2>1, <3>1
  <2>14. Len(p) = 2 => n = 0
    BY <2>1
  <2> QED
    BY <2>10, <2>11, <2>13, <2>14, <2>15, <2>16 DEF T, base, L
<1> QED
  BY <1>2, <1>3

-----------------------------------------------------------------------------
(* Names in the archive *)

Names == { name \in Seq(Seq(STRING)) :
             /\ name # <<>>
             /\ \A j \in DOMAIN name :
                  Len(name[j]) = 1 \/ (name[j] = <<>> /\ 1 < j /\ j = Len(name)) }

(* Without the slash behind it a name has a token in every part, and there  *)
(* is nothing to strip any more.                                            *)
LEMMA CheckDirIs ==
    ASSUME NEW name \in Names
    PROVE  /\ check_dir(name) \in Names
           /\ \A j \in DOMAIN check_dir(name) : Len(check_dir(name)[j]) = 1
           /\ check_dir(check_dir(name)) = check_dir(name)
           /\ check_dir(name)[1] = name[1]
<1> DEFINE S == Seq(STRING)
<1>1. name \in Seq(S) /\ name # <<>>
  BY DEF Names
<1>2. \A j \in DOMAIN name : Len(name[j]) = 1 \/ (name[j] = <<>> /\ 1 < j /\ j = Len(name))
  BY DEF Names
<1>e. Len(<<>>) = 0
  OBVIOUS
<1> HIDE DEF S
<1>3. PICK n \in Nat : n = Len(name) /\ n # 0 /\ DOMAIN name = 1 .. n
  BY <1>1, EmptySeq, LenProperties
<1>4. ASSUME NEW s \in Seq(S), s # <<>>, \A j \in DOMAIN s : Len(s[j]) = 1
      PROVE  check_dir(s) = s
  <2>1. Len(s) \in DOMAIN s
    BY <1>4, EmptySeq, LenProperties
  <2>2. Last(s) # <<>>
    BY <1>4, <1>e, <2>1 DEF Last
  <2> QED
    BY <2>2 DEF check_dir
<1>5. CASE n > 1 /\ name[n] = <<>>
  <2> DEFINE front == SubSeq(name, 1, n - 1)
  <2>1. check_dir(name) = front
    BY <1>3, <1>5 DEF check_dir, Last, Front
  <2>2. front \in Seq(S) /\ Len(front) = n - 1 /\ \A j \in 1 .. n - 1 : front[j] = name[j]
    BY <1>1, <1>3, <1>5
  <2>3. DOMAIN front = 1 .. n - 1
    BY <2>2, LenProperties
  <2> HIDE DEF front
  <2>4. \A j \in DOMAIN front : Len(front[j]) = 1
    <3> TAKE j \in DOMAIN front
    <3>1. j \in DOMAIN name /\ j # n /\ front[j] = name[j]
      BY <1>3, <1>5, <2>2, <2>3
    <3> QED
      BY <1>2, <1>3, <3>1
  <2>5. front # <<>> /\ front[1] = name[1]
    <3>1. 1 \in 1 .. n - 1
      BY <1>3, <1>5
    <3> QED
      BY <1>e, <2>2, <3>1
  <2>6. front \in Names
    BY <2>2, <2>4, <2>5 DEF Names, S
  <2>7. check_dir(front) = front
    BY <1>4, <2>2, <2>4, <2>5
  <2> QED
    BY <2>1, <2>4, <2>5, <2>6, <2>7
<1>6. CASE ~ (n > 1 /\ name[n] = <<>>)
  <2>1. check_dir(name) = name
    BY <1>3, <1>6 DEF check_dir, Last, Front
  <2>2. \A j \in DOMAIN name : Len(name[j]) = 1
    BY <1>2, <1>3, <1>6
  <2> QED
    BY <2>1, <2>2
<1> QED
  BY <1>5, <1>6

-----------------------------------------------------------------------------
(* The addresses of the archive *)

Blocks(size) == (size + TarBlock - 1) \div TarBlock

(* The whole blocks of a file are those that begin before its end. *)
LEMMA BlocksIs ==
    ASSUME NEW size \in Nat
    PROVE  /\ Blocks(size) \in Nat
           /\ Blocks(size) = (size \div TarBlock) + (IF size % TarBlock # 0 THEN 1 ELSE 0)
           /\ \A k \in Nat : k * TarBlock >= size <=> k >= Blocks(size)
<1> DEFINE q == size \div TarBlock
           r == size % TarBlock
           b == q + (IF r # 0 THEN 1 ELSE 0)
<1>1. TarBlock \in Nat \ {0}
  BY RamdiskAssumption
<1>2. q \in Nat /\ r \in 0 .. TarBlock - 1 /\ size = q * TarBlock + r
  BY <1>1, DivModNat
<1>3. PICK x \in Nat : x = q * TarBlock
  BY <1>1, <1>2
<1> HIDE DEF q, r
<1>4. Blocks(size) = b
  <2>1. CASE r = 0
    <3>1. TarBlock - 1 \in 0 .. TarBlock - 1 /\ size + TarBlock - 1 = q * TarBlock + (TarBlock - 1)
      BY <1>1, <1>2, <1>3, <2>1
    <3>2. (size + TarBlock - 1) \div TarBlock = q
      BY <1>1, <1>2, <3>1, DivExact
    <3> QED
      BY <1>2, <2>1, <3>2 DEF Blocks
  <2>2. CASE r # 0
    <3>1. (q + 1) * TarBlock = q * TarBlock + TarBlock
      BY <1>1, <1>2
    <3>2. r - 1 \in 0 .. TarBlock - 1 /\ size + TarBlock - 1 = (q + 1) * TarBlock + (r - 1)
      BY <1>1, <1>2, <1>3, <2>2, <3>1
    <3>3. q + 1 \in Nat
      BY <1>2
    <3>4. (size + TarBlock - 1) \div TarBlock = q + 1
      BY <1>1, <3>2, <3>3, DivExact
    <3> QED
      BY <2>2, <3>4 DEF Blocks
  <2> QED
    BY <2>1, <2>2
<1>5. b \in Nat /\ (b = q \/ b = q + 1)
  BY <1>2
<1>6. ASSUME NEW k \in Nat, k >= b PROVE k * TarBlock >= size
  <2>1. CASE r = 0
    <3>1. q * TarBlock <= k * TarBlock
      BY <1>1, <1>2, <1>6, <2>1, MulMono
    <3>2. PICK y \in Nat : y = k * TarBlock
      BY <1>1
    <3> QED
      BY <1>2, <1>3, <2>1, <3>1, <3>2
  <2>2. CASE r # 0
    <3>1. q + 1 <= k
      BY <1>2, <1>6, <2>2
    <3>2. (q + 1) * TarBlock <= k * TarBlock /\ (q + 1) * TarBlock = q * TarBlock + TarBlock
      BY <1>1, <1>2, <3>1, MulMono
    <3>3. PICK y \in Nat : y = k * TarBlock
      BY <1>1
    <3> QED
      BY <1>1, <1>2, <1>3, <3>2, <3>3
  <2> QED
    BY <2>1, <2>2
<1>7. ASSUME NEW k \in Nat, k < b PROVE k * TarBlock < size
  <2>1. CASE r = 0
    <3>1. k + 1 <= q
      BY <1>2, <1>7, <2>1
    <3>2. (k + 1) * TarBlock <= q * TarBlock /\ (k + 1) * TarBlock = k * TarBlock + TarBlock
      BY <1>1, <1>2, <3>1, MulMono
    <3>3. PICK y \in Nat : y = k * TarBlock
      BY <1>1
    <3> QED
      BY <1>1, <1>2, <1>3, <2>1, <3>2, <3>3
  <2>2. CASE r # 0
    <3>1. k <= q
      BY <1>2, <1>7, <2>2
    <3>2. k * TarBlock <= q * TarBlock
      BY <1>1, <1>2, <3>1, MulMono
    <3>3. PICK y \in Nat : y = k * TarBlock
      BY <1>1
    <3> QED
      BY <1>1, <1>2, <1>3, <2>2, <3>2, <3>3
  <2> QED
    BY <2>1, <2>2
<1>8. \A k \in Nat : k * TarBlock >= size <=> k >= b
  <2> TAKE k \in Nat
  <2> DEFINE y == k * TarBlock
  <2>1. y \in Nat /\ (k >= b => y >= size) /\ (k < b => y < size)
    BY <1>1, <1>6, <1>7
  <2> HIDE DEF b, y
  <2>2. y >= size <=> k >= b
    BY <1>5, <2>1
  <2> QED
    BY <2>2 DEF y
<1> HIDE DEF b
<1>9. Blocks(size) \in Nat /\ \A k \in Nat : k * TarBlock >= size <=> k >= Blocks(size)
  BY <1>4, <1>5, <1>8
<1> QED
  BY <1>4, <1>9 DEF b, q, r

Headers1 == [name : Names, size : Nat, dir : BOOLEAN]

LEMMA TapeIs ==
    ASSUME NEW tape \in Archives
    PROVE  /\ tape \in Seq(Headers1) /\ Len(tape) \in Nat \ {0}
           /\ \A i \in 1 .. Len(tape) : check_subdir(tape[i].name) =>
                 \E k \in 1 .. Len(tape) :
                    tape[k].dir /\ check_dir(tape[k].name) = <<tape[i].name[1]>>
           /\ \A i, k \in 1 .. Len(tape) :
                 check_dir(tape[k].name) = check_dir(tape[i].name) => k = i
<1> DEFINE Raw == [name : Seq(Seq(STRING)), size : Nat, dir : BOOLEAN]
<1>1. Packed(tape)
  BY TapeAssumption
<1>2. tape \in Seq(Raw) /\ tape # <<>>
  BY <1>1 DEF Packed
<1>3. PICK n \in Nat : n = Len(tape) /\ n # 0 /\ DOMAIN tape = 1 .. n
  BY <1>2, EmptySeq, LenProperties
<1>4. \A i \in 1 .. n : tape[i] \in Headers1
  <2> TAKE i \in 1 .. n
  <2>1. tape[i] \in Raw
    <3> HIDE DEF Raw
    <3> QED
      BY <1>2, <1>3, ElementOfSeq
  <2>2. tape[i].name \in Seq(Seq(STRING))
    BY <2>1
  <2>3. /\ tape[i].name # <<>>
        /\ \A j \in DOMAIN tape[i].name :
             Len(tape[i].name[j]) = 1
               \/ (tape[i].name[j] = <<>> /\ 1 < j /\ j = Len(tape[i].name))
    BY <1>1, <1>3 DEF Packed
  <2>4. tape[i].name \in Names
    BY <2>2, <2>3 DEF Names
  <2> QED
    BY <2>1, <2>4 DEF Headers1
<1>5. tape \in Seq(Headers1)
  BY <1>2, <1>3, <1>4
<1>6. \A i \in 1 .. n : check_subdir(tape[i].name) =>
         \E k \in 1 .. n : tape[k].dir /\ check_dir(tape[k].name) = <<tape[i].name[1]>>
  BY <1>1, <1>3 DEF Packed
<1>7. \A i, k \in 1 .. n : check_dir(tape[k].name) = check_dir(tape[i].name) => k = i
  BY <1>1, <1>3 DEF Packed
<1> QED
  BY <1>3, <1>5, <1>6, <1>7

(* Where the entries of an archive are. *)
LEMMA BehindIs ==
    ASSUME NEW tape \in Archives, NEW at, at = Behind(tape)
    PROVE  /\ at \in [0 .. Len(tape) -> Nat] /\ at[0] = initrdAddr
           /\ \A i \in 1 .. Len(tape) :
                 at[i] = at[i - 1] + TarBlock + Blocks(tape[i].size) * TarBlock
           /\ \A i, j \in 0 .. Len(tape) : i < j => at[i] < at[j]
<1>1. PICK n \in Nat : n = Len(tape) /\ tape \in Seq(Headers1)
  BY TapeIs
<1>2. \A i \in 1 .. n : tape[i].size \in Nat
  <2> TAKE i \in 1 .. n
  <2>1. tape[i] \in Headers1
    BY <1>1
  <2> QED
    BY <2>1 DEF Headers1
<1>3. TarBlock \in Nat \ {0} /\ initrdAddr \in Nat
  BY RamdiskAssumption
<1> DEFINE data(i) == Blocks(tape[i].size) * TarBlock
           g == [q \in Nat \X (1 .. n) |-> q[1] + TarBlock + data(q[2])]
           Is(h) == h = [i \in 0 .. n |-> IF i = 0 THEN initrdAddr
                                         ELSE h[i - 1] + TarBlock + data(i)]
<1>4. \A i \in 1 .. n : data(i) \in Nat
  <2> TAKE i \in 1 .. n
  <2>1. Blocks(tape[i].size) \in Nat
    BY <1>2, BlocksIs
  <2> QED
    BY <1>3, <2>1
<1>5. at = CHOOSE h : Is(h)
  BY <1>1 DEF Behind, Blocks
<1> HIDE DEF data
<1>6. g \in [Nat \X (1 .. n) -> Nat]
  BY <1>3, <1>4
<1>7. PICK h : Loop(h, Nat, initrdAddr, n, g)
  <2> HIDE DEF g
  <2>1. LoopBody(Nat, initrdAddr, n, g)
    BY <1>3, <1>6 DEF LoopBody
  <2> QED
    BY <2>1, LoopExists
<1>8. h \in [0 .. n -> Nat] /\ h[0] = initrdAddr /\ \A i \in 1 .. n : h[i] = g[<<h[i - 1], i>>]
  <2> HIDE DEF g
  <2> QED
    BY <1>7 DEF Loop
<1>9. \A i \in 1 .. n : h[i] = h[i - 1] + TarBlock + data(i)
  <2> TAKE i \in 1 .. n
  <2>1. h[i - 1] \in Nat
    BY <1>8
  <2>2. g[<<h[i - 1], i>>] = h[i - 1] + TarBlock + data(i)
    BY <2>1
  <2> QED
    BY <1>8, <2>2
<1>10. Is(h)
  <2> HIDE DEF g
  <2> QED
    BY <1>8, <1>9
<1>11. Is(at)
  BY <1>5, <1>10
<1>12. at[0] = initrdAddr /\ \A i \in 1 .. n : at[i] = at[i - 1] + TarBlock + data(i)
  <2>1. \A i \in 1 .. n : i \in 0 .. n /\ i # 0
    OBVIOUS
  <2> HIDE DEF g
  <2> QED
    BY <1>11, <2>1
<1>13. \A i \in 0 .. n : at[i] \in Nat
  <2> DEFINE S == [i \in 0 .. n |-> Nat]
  <2>1. at[0] \in S[0]
    BY <1>3, <1>12
  <2>2. \A i \in 1 .. n : at[i - 1] \in S[i - 1] => at[i] \in S[i]
    <3> TAKE i \in 1 .. n
    <3>1. S[i - 1] = Nat /\ S[i] = Nat
      OBVIOUS
    <3> HIDE DEF S
    <3> QED
      BY <1>3, <1>4, <1>12, <3>1
  <2> HIDE DEF S
  <2>3. \A i \in 0 .. n : at[i] \in S[i]
    BY <2>1, <2>2, LoopKeeps
  <2> QED
    BY <2>3 DEF S
<1>14. at \in [0 .. n -> Nat]
  <2>1. at = [i \in 0 .. n |-> at[i]]
    BY <1>11
  <2> QED
    BY <1>13, <2>1
<1>15. ASSUME NEW i \in 0 .. n PROVE \A j \in 0 .. n : i < j => at[i] < at[j]
  <2> DEFINE S == [j \in 0 .. n |-> { x \in Nat : i < j => at[i] < x }]
  <2>1. at[0] \in S[0]
    BY <1>13
  <2>2. \A j \in 1 .. n : at[j - 1] \in S[j - 1] => at[j] \in S[j]
    <3> SUFFICES ASSUME NEW j \in 1 .. n, at[j - 1] \in S[j - 1] PROVE at[j] \in S[j]
      OBVIOUS
    <3>1. i < j - 1 => at[i] < at[j - 1]
      OBVIOUS
    <3>2. i < j => at[i] < at[j]
      <4>1. at[j] = at[j - 1] + TarBlock + data(j) /\ at[j - 1] \in Nat /\ data(j) \in Nat
        BY <1>4, <1>12, <1>13
      <4>2. i = j - 1 \/ i < j - 1 \/ ~ i < j
        OBVIOUS
      <4>3. at[i] \in Nat
        BY <1>13
      <4> HIDE DEF S
      <4> QED
        BY <1>3, <3>1, <4>1, <4>2, <4>3
    <3> QED
      BY <1>13, <3>2
  <2>3. \A j \in 0 .. n : at[j] \in S[j]
    <3> HIDE DEF S
    <3> QED
      BY <2>1, <2>2, LoopKeeps
  <2> QED
    BY <2>3
<1> QED
  BY <1>1, <1>12, <1>14, <1>15 DEF data

Starts(at, n) == { at[i - 1] : i \in 1 .. n }

LEMMA LoadedIs ==
    ASSUME NEW tape \in Archives, NEW at, at = Behind(tape)
    PROVE  /\ DOMAIN Loaded(tape) = Starts(at, Len(tape))
           /\ \A i \in 1 .. Len(tape) : Loaded(tape)[at[i - 1]] = tape[i]
<1>1. PICK n \in Nat : n = Len(tape) /\ DOMAIN tape = 1 .. n
  BY TapeIs, LenProperties
<1>2. at \in [0 .. n -> Nat] /\ \A i, j \in 0 .. n : i < j => at[i] < at[j]
  BY <1>1, BehindIs
<1> DEFINE of == HeadersAt(tape)
<1>3. of = [i \in 1 .. n |-> at[i - 1]]
  BY <1>1 DEF HeadersAt
<1>4. Loaded(tape) = [a \in Range(of) |-> tape[CHOOSE i \in 1 .. n : of[i] = a]]
  BY <1>1 DEF Loaded
<1> HIDE DEF of
<1>5. Range(of) = { at[i - 1] : i \in 1 .. n }
  BY <1>3 DEF Range
<1>6. ASSUME NEW i \in 1 .. n PROVE Loaded(tape)[at[i - 1]] = tape[i]
  <2>1. ASSUME NEW j \in 1 .. n, of[j] = at[i - 1] PROVE j = i
    <3>1. at[j - 1] = at[i - 1]
      BY <1>3, <2>1
    <3>2. j - 1 \in 0 .. n /\ i - 1 \in 0 .. n
      OBVIOUS
    <3>3. ~ j - 1 < i - 1 /\ ~ i - 1 < j - 1
      <4>1. at[j - 1] \in Nat /\ at[i - 1] \in Nat
        BY <1>2, <3>2
      <4>2. ~ at[j - 1] < at[i - 1] /\ ~ at[i - 1] < at[j - 1]
        BY <3>1, <4>1
      <4> QED
        BY <1>2, <3>2, <4>2
    <3> QED
      BY <3>3
  <2>2. of[i] = at[i - 1]
    BY <1>3
  <2>3. (CHOOSE j \in 1 .. n : of[j] = at[i - 1]) = i
    BY <2>1, <2>2
  <2>4. at[i - 1] \in Range(of)
    BY <1>5
  <2> QED
    BY <1>4, <2>3, <2>4
<1>7. DOMAIN Loaded(tape) = Starts(at, n)
  BY <1>4, <1>5 DEF Starts
<1> QED
  BY <1>1, <1>6, <1>7

(* The archive as it was loaded, with some slashes stripped. *)
Stripped(tape) ==
    /\ archive = [a \in DOMAIN Loaded(tape) |-> archive[a]]
    /\ \A a \in DOMAIN Loaded(tape) :
         \/ archive[a] = Loaded(tape)[a]
         \/ archive[a] = [Loaded(tape)[a] EXCEPT !.name = check_dir(@)]

LEMMA ArchiveIs ==
    ASSUME NEW tape \in Archives, NEW at, at = Behind(tape), Stripped(tape)
    PROVE  /\ DOMAIN archive = Starts(at, Len(tape))
           /\ DOMAIN archive \subseteq Nat /\ initrdAddr \in DOMAIN archive
           /\ \A i \in 1 .. Len(tape) :
                /\ archive[at[i - 1]] \in Headers1
                /\ archive[at[i - 1]].size = tape[i].size
                /\ archive[at[i - 1]].dir = tape[i].dir
                /\ archive[at[i - 1]].name \in {tape[i].name, check_dir(tape[i].name)}
                /\ check_dir(archive[at[i - 1]].name) = check_dir(tape[i].name)
           /\ \A a \in DOMAIN archive : archive[a] \in Headers1
<1>1. PICK n \in Nat \ {0} : n = Len(tape)
  BY TapeIs
<1>2. /\ DOMAIN Loaded(tape) = Starts(at, n)
      /\ \A i \in 1 .. n : Loaded(tape)[at[i - 1]] = tape[i]
  <2>1. /\ DOMAIN Loaded(tape) = Starts(at, Len(tape))
        /\ \A i \in 1 .. Len(tape) : Loaded(tape)[at[i - 1]] = tape[i]
    BY LoadedIs, Zenon
  <2> QED
    BY <1>1, <2>1, Zenon
<1>3. at \in [0 .. n -> Nat] /\ at[0] = initrdAddr
  BY <1>1, BehindIs
<1>4. DOMAIN archive = Starts(at, n)
  BY <1>2 DEF Stripped
<1>5. DOMAIN archive \subseteq Nat
  BY <1>3, <1>4 DEF Starts
<1>6. initrdAddr \in DOMAIN archive
  <2>1. 1 \in 1 .. n /\ 1 - 1 = 0
    OBVIOUS
  <2> QED
    BY <1>3, <1>4, <2>1 DEF Starts
<1>7. ASSUME NEW i \in 1 .. n
      PROVE  /\ archive[at[i - 1]] \in Headers1
             /\ archive[at[i - 1]].size = tape[i].size
             /\ archive[at[i - 1]].dir = tape[i].dir
             /\ archive[at[i - 1]].name \in {tape[i].name, check_dir(tape[i].name)}
             /\ check_dir(archive[at[i - 1]].name) = check_dir(tape[i].name)
  <2> DEFINE h == tape[i]
  <2>1. h \in Headers1
    <3>1. tape \in Seq(Headers1)
      BY TapeIs
    <3> QED
      BY <1>1, <3>1, ElementOfSeq
  <2>2. \/ archive[at[i - 1]] = h
        \/ archive[at[i - 1]] = [h EXCEPT !.name = check_dir(@)]
    <3>1. at[i - 1] \in DOMAIN Loaded(tape) /\ Loaded(tape)[at[i - 1]] = h
      BY <1>2 DEF Starts
    <3> HIDE DEF h
    <3> QED
      BY <3>1 DEF Stripped
  <2> HIDE DEF h
  <2>3. h.name \in Names
    BY <2>1 DEF Headers1
  <2>4. check_dir(h.name) \in Names /\ check_dir(check_dir(h.name)) = check_dir(h.name)
    BY <2>3, CheckDirIs
  <2>5. CASE archive[at[i - 1]] = h
    BY <2>1, <2>5 DEF h
  <2>6. CASE archive[at[i - 1]] = [h EXCEPT !.name = check_dir(@)]
    <3> DEFINE x == [h EXCEPT !.name = check_dir(@)]
    <3>1. x \in Headers1 /\ x.size = h.size /\ x.dir = h.dir /\ x.name = check_dir(h.name)
      BY <2>1, <2>4 DEF Headers1
    <3> HIDE DEF x
    <3> QED
      BY <2>4, <2>6, <3>1 DEF x, h
  <2> QED
    BY <2>2, <2>5, <2>6
<1>8. \A a \in DOMAIN archive : archive[a] \in Headers1
  BY <1>4, <1>7 DEF Starts
<1> QED
  BY <1>1, <1>4, <1>5, <1>6, <1>7, <1>8

(* The walk along the headers. *)
IsWalk(h) ==
    h = [i \in 0 .. Cardinality(DOMAIN archive) |->
           IF i = 0 THEN {initrdAddr}
           ELSE h[i - 1] \cup ({ Following(a) : a \in h[i - 1] } \cap DOMAIN archive)]

(* It comes past every header and nothing else, as the archive was packed   *)
(* without gaps.                                                            *)
LEMMA HeadersAre ==
    ASSUME NEW tape \in Archives, Stripped(tape)
    PROVE  Headers = DOMAIN archive
<1> DEFINE at == Behind(tape)
           D == DOMAIN archive
<1>1. PICK n \in Nat \ {0} : n = Len(tape)
  BY TapeIs
<1>2. /\ D = { at[i - 1] : i \in 1 .. n } /\ initrdAddr \in D /\ D \subseteq Nat
      /\ \A i \in 1 .. n : archive[at[i - 1]].size = tape[i].size /\ archive[at[i - 1]] \in Headers1
  <2>1. at = Behind(tape)
    OBVIOUS
  <2> HIDE DEF at
  <2>2. /\ DOMAIN archive = Starts(at, Len(tape)) /\ initrdAddr \in DOMAIN archive
        /\ DOMAIN archive \subseteq Nat
        /\ \A i \in 1 .. Len(tape) :
             archive[at[i - 1]].size = tape[i].size /\ archive[at[i - 1]] \in Headers1
    BY <2>1, ArchiveIs
  <2> QED
    BY <1>1, <2>2 DEF Starts
<1>3. /\ at \in [0 .. n -> Nat] /\ at[0] = initrdAddr
      /\ \A i \in 1 .. n : at[i] = at[i - 1] + TarBlock + Blocks(tape[i].size) * TarBlock
      /\ \A i, j \in 0 .. n : i < j => at[i] < at[j]
  BY <1>1, BehindIs
<1> HIDE DEF at
<1>4. Cardinality(D) = n
  <2> DEFINE f == [i \in 1 .. n |-> at[i - 1]]
  <2>1. f \in [1 .. n -> D] /\ \A a \in D : \E i \in 1 .. n : f[i] = a
    BY <1>2
  <2>2. \A i, j \in 1 .. n : f[i] = f[j] => i = j
    <3> SUFFICES ASSUME NEW i \in 1 .. n, NEW j \in 1 .. n, f[i] = f[j], i < j PROVE FALSE
      OBVIOUS
    <3>1. i - 1 \in 0 .. n /\ j - 1 \in 0 .. n /\ i - 1 < j - 1
      OBVIOUS
    <3>2. at[i - 1] < at[j - 1] /\ at[i - 1] \in Nat /\ at[j - 1] \in Nat
      BY <1>3, <3>1
    <3> QED
      BY <3>2
  <2>3. f \in Bijection(1 .. n, D)
    <3> HIDE DEF D
    <3>1. f \in Injection(1 .. n, D)
      BY <2>1, <2>2 DEF Injection, IsInjective
    <3>2. f \in Surjection(1 .. n, D)
      BY <2>1 DEF Surjection
    <3> QED
      BY <3>1, <3>2 DEF Bijection
  <2>4. ExistsBijection(1 .. n, D)
    BY <2>3 DEF ExistsBijection
  <2> HIDE DEF D
  <2> QED
    BY <2>4, FS_CountingElements
<1>5. ASSUME NEW i \in 1 .. n PROVE Following(at[i - 1]) = at[i]
  <2> DEFINE size == tape[i].size
             q == size \div TarBlock
             one == IF size % TarBlock # 0 THEN 1 ELSE 0
  <2>1. archive[at[i - 1]].size = size /\ size \in Nat
    BY <1>2 DEF Headers1
  <2>2. TarBlock \in Nat \ {0}
    BY RamdiskAssumption
  <2>3. Following(at[i - 1]) = at[i - 1] + (q + 1) * TarBlock + one * TarBlock
    <3>1. Following(at[i - 1]) =
             at[i - 1] + (q + 1) * TarBlock + (IF size % TarBlock # 0 THEN TarBlock ELSE 0)
      BY <2>1 DEF Following
    <3> HIDE DEF q
    <3>2. CASE size % TarBlock # 0
      <4>1. one = 1 /\ one * TarBlock = TarBlock
        BY <2>2, <3>2
      <4> QED
        BY <3>1, <3>2, <4>1
    <3>3. CASE ~ size % TarBlock # 0
      <4>1. one = 0 /\ one * TarBlock = 0
        BY <2>2, <3>3
      <4> QED
        BY <3>1, <3>3, <4>1
    <3> QED
      BY <3>2, <3>3
  <2>4. Blocks(size) = q + one /\ q \in Nat /\ one \in Nat
    <3>1. q \in Nat
      BY <2>1, <2>2, DivModNat
    <3>2. Blocks(size) = q + one
      BY <2>1, BlocksIs
    <3> QED
      BY <3>1, <3>2
  <2>5. at[i] = at[i - 1] + TarBlock + (q + one) * TarBlock
    BY <1>3, <2>4
  <2>6. at[i - 1] \in Nat
    BY <1>3
  <2> HIDE DEF q, one, size
  <2>7. (q + 1) * TarBlock = q * TarBlock + TarBlock
    BY <2>2, <2>4
  <2>8. (q + one) * TarBlock = q * TarBlock + one * TarBlock
    BY <2>2, <2>4
  <2> DEFINE x == q * TarBlock
             y == one * TarBlock
  <2>9. x \in Nat /\ y \in Nat
    BY <2>2, <2>4
  <2>10. Following(at[i - 1]) = at[i - 1] + (x + TarBlock) + y
    BY <2>3, <2>7
  <2>11. at[i] = at[i - 1] + TarBlock + (x + y)
    BY <2>5, <2>8
  <2> HIDE DEF x, y
  <2> QED
    BY <2>2, <2>6, <2>9, <2>10, <2>11
<1> DEFINE T == SUBSET D
           more(s) == s \cup ({ Following(a) : a \in s } \cap D)
           g == [p \in T \X (1 .. n) |-> more(p[1])]
<1> HIDE DEF D
<1>6. g \in [T \X (1 .. n) -> T]
  OBVIOUS
<1>7. PICK h : Loop(h, T, {initrdAddr}, n, g)
  <2>1. LoopBody(T, {initrdAddr}, n, g)
    <3> HIDE DEF g
    <3> QED
      BY <1>2, <1>6 DEF LoopBody
  <2> HIDE DEF g, T
  <2> QED
    BY <2>1, LoopExists
<1>8. /\ h \in [0 .. n -> T] /\ h[0] = {initrdAddr}
      /\ \A i \in 1 .. n : h[i] = g[<<h[i - 1], i>>]
  <2> HIDE DEF g, T
  <2> QED
    BY <1>7 DEF Loop
<1>9. \A i \in 1 .. n : h[i] = more(h[i - 1])
  <2> TAKE i \in 1 .. n
  <2>1. h[i - 1] \in T
    BY <1>8
  <2> HIDE DEF T, more
  <2>2. g[<<h[i - 1], i>>] = more(h[i - 1])
    BY <2>1
  <2> HIDE DEF g
  <2> QED
    BY <1>8, <2>2
<1> HIDE DEF g
<1>10. IsWalk(h)
  BY <1>4, <1>8, <1>9 DEF IsWalk, D
<1> DEFINE passed == CHOOSE x : IsWalk(x)
<1>11. IsWalk(passed)
  BY <1>10
<1>12. Headers = passed[n]
  BY <1>4 DEF Headers, IsWalk, D
<1> HIDE DEF passed, T
<1>13. passed[0] = {initrdAddr} /\ \A i \in 1 .. n : passed[i] = more(passed[i - 1])
  <2>1. \A i \in 1 .. n : i \in 0 .. n /\ i # 0
    OBVIOUS
  <2> QED
    BY <1>4, <1>11, <2>1 DEF IsWalk, D
<1> DEFINE S == [i \in 0 .. n |-> { s \in SUBSET D : \A j \in 0 .. i : j < n => at[j] \in s }]
<1>14. passed[0] \in S[0]
  <2>1. \A j \in 0 .. 0 : at[j] \in {initrdAddr}
    BY <1>3
  <2> QED
    BY <1>2, <1>13, <2>1
<1>15. ASSUME NEW i \in 1 .. n, passed[i - 1] \in S[i - 1] PROVE passed[i] \in S[i]
  <2> DEFINE s == passed[i - 1]
  <2>1. s \subseteq D /\ \A j \in 0 .. i - 1 : j < n => at[j] \in s
    BY <1>15
  <2>2. passed[i] = s \cup ({ Following(a) : a \in s } \cap D)
    BY <1>13
  <2> HIDE DEF s
  <2>3. ASSUME i < n PROVE at[i] \in passed[i]
    <3>1. i - 1 \in 0 .. i - 1 /\ i - 1 < n /\ i + 1 \in 1 .. n /\ (i + 1) - 1 = i
      BY <2>3
    <3>2. at[i - 1] \in s /\ at[i] \in D
      BY <1>2, <2>1, <3>1
    <3>3. at[i] = Following(at[i - 1])
      BY <1>5
    <3> QED
      BY <2>2, <3>2, <3>3
  <2>4. \A j \in 0 .. i : j < n => at[j] \in passed[i]
    <3> TAKE j \in 0 .. i
    <3>1. j \in 0 .. i - 1 \/ j = i
      OBVIOUS
    <3> QED
      BY <2>1, <2>2, <2>3, <3>1
  <2>5. passed[i] \subseteq D
    BY <2>1, <2>2
  <2> QED
    BY <2>4, <2>5
<1>16. \A i \in 0 .. n : passed[i] \in S[i]
  <2> HIDE DEF S
  <2> QED
    BY <1>14, <1>15, LoopKeeps
<1>17. passed[n] \subseteq D /\ \A j \in 0 .. n : j < n => at[j] \in passed[n]
  BY <1>16
<1>18. \A i \in 1 .. n : at[i - 1] \in passed[n]
  BY <1>17
<1> QED
  BY <1>2, <1>12, <1>17, <1>18 DEF D

-----------------------------------------------------------------------------
(* Headers by their names *)

LEMMA NamesDiffer ==
    ASSUME NEW tape \in Archives, Stripped(tape),
           NEW a \in DOMAIN archive, NEW b \in DOMAIN archive,
           check_dir(archive[a].name) = check_dir(archive[b].name)
    PROVE  a = b
<1> DEFINE at == Behind(tape)
<1>1. at = Behind(tape)
  OBVIOUS
<1> HIDE DEF at
<1>2. /\ DOMAIN archive = Starts(at, Len(tape))
      /\ \A i \in 1 .. Len(tape) : check_dir(archive[at[i - 1]].name) = check_dir(tape[i].name)
  BY <1>1, ArchiveIs
<1>3. PICK i \in 1 .. Len(tape) : a = at[i - 1]
  BY <1>2 DEF Starts
<1>4. PICK j \in 1 .. Len(tape) : b = at[j - 1]
  BY <1>2 DEF Starts
<1>5. check_dir(tape[i].name) = check_dir(tape[j].name)
  BY <1>2, <1>3, <1>4
<1>6. j = i
  BY <1>5, TapeIs
<1> QED
  BY <1>3, <1>4, <1>6

(* Of one part is the name of what lies in the root. *)
LEMMA InRoot ==
    ASSUME NEW name \in Names
    PROVE  check_subdir(name) <=> Len(check_dir(name)) > 1
<1> DEFINE S == Seq(STRING)
<1>1. name \in Seq(S) /\ name # <<>>
  BY DEF Names
<1> HIDE DEF S
<1>2. PICK n \in Nat : n = Len(name) /\ n # 0 /\ DOMAIN name = 1 .. n
  BY <1>1, EmptySeq, LenProperties
<1>3. CASE n > 1 /\ name[n] = <<>>
  <2>1. check_dir(name) = SubSeq(name, 1, n - 1)
    BY <1>2, <1>3 DEF check_dir, Last, Front
  <2>2. Len(check_dir(name)) = n - 1
    BY <1>1, <1>2, <1>3, <2>1
  <2>3. check_subdir(name) <=> n > 2
    BY <1>2, <1>3 DEF check_subdir
  <2> QED
    BY <1>2, <2>2, <2>3
<1>4. CASE ~ (n > 1 /\ name[n] = <<>>)
  <2>1. check_dir(name) = name
    BY <1>2, <1>4 DEF check_dir, Last, Front
  <2>2. check_subdir(name) <=> n > 1
    BY <1>2, <1>4 DEF check_subdir
  <2> QED
    BY <1>2, <2>1, <2>2
<1> QED
  BY <1>3, <1>4

(* What lies in a directory has the directory of the root above it.         *)
LEMMA ParentIsThere ==
    ASSUME NEW tape \in Archives, Stripped(tape),
           NEW a \in DOMAIN archive, Len(check_dir(archive[a].name)) > 1
    PROVE  \E b \in DOMAIN archive :
              archive[b].dir /\ check_dir(archive[b].name) = <<check_dir(archive[a].name)[1]>>
<1> DEFINE at == Behind(tape)
<1>1. at = Behind(tape)
  OBVIOUS
<1> HIDE DEF at
<1>2. /\ DOMAIN archive = Starts(at, Len(tape))
      /\ \A i \in 1 .. Len(tape) :
           /\ archive[at[i - 1]].dir = tape[i].dir
           /\ check_dir(archive[at[i - 1]].name) = check_dir(tape[i].name)
  BY <1>1, ArchiveIs
<1>3. PICK i \in 1 .. Len(tape) : a = at[i - 1]
  BY <1>2 DEF Starts
<1>4. check_dir(archive[a].name) = check_dir(tape[i].name)
  BY <1>2, <1>3
<1>5. tape[i].name \in Names
  <2>1. tape[i] \in Headers1
    <3>1. tape \in Seq(Headers1)
      BY TapeIs
    <3> QED
      BY <3>1, ElementOfSeq
  <2> QED
    BY <2>1 DEF Headers1
<1>6. check_subdir(tape[i].name)
  BY <1>4, <1>5, InRoot
<1>7. PICK k \in 1 .. Len(tape) : tape[k].dir /\ check_dir(tape[k].name) = <<tape[i].name[1]>>
  BY <1>6, TapeIs
<1>8. tape[i].name[1] = check_dir(archive[a].name)[1]
  BY <1>4, <1>5, CheckDirIs
<1>9. at[k - 1] \in DOMAIN archive
  BY <1>2 DEF Starts
<1> QED
  BY <1>2, <1>7, <1>8, <1>9

-----------------------------------------------------------------------------
(* What an open of the ramdisk finds, and what it does to the archive *)

FileOf(a) ==
    [flags |-> IF archive[a].dir THEN FS_DIR ELSE FS_FILE,
     at |-> a + TarBlock, position |-> a + TarBlock,
     length |-> archive[a].size, eof |-> 0, deviceID |-> "none"]

(* Some headers are stripped of their slash. *)
Touched(new) ==
    /\ new = [a \in DOMAIN archive |-> new[a]]
    /\ \A a \in DOMAIN archive :
         new[a] = archive[a] \/ new[a] = [archive[a] EXCEPT !.name = check_dir(@)]

LEMMA SearchIs ==
    ASSUME NEW tape \in Archives, Stripped(tape),
           NEW compared \in SUBSET DOMAIN archive, NEW name,
           NEW s, s = Search(compared, name)
    PROVE  /\ Touched(s.archive)
           /\ \/ /\ s.file = Invalid
                 /\ \A a \in compared : check_dir(archive[a].name) # name
              \/ \E a \in compared :
                    check_dir(archive[a].name) = name /\ s.file = FileOf(a)
<1> DEFINE hits == { a \in compared : check_dir(archive[a].name) = name }
           at == Min(hits)
           seen == IF hits = {} THEN compared ELSE { a \in compared : a <= at }
           new == [a \in DOMAIN archive |->
                     IF a \in seen THEN [archive[a] EXCEPT !.name = check_dir(@)]
                     ELSE archive[a]]
<1>1. s.archive = new /\ s.file = IF hits = {} THEN Invalid ELSE FileOf(at)
  BY DEF Search, FileOf
<1>2. Touched(s.archive)
  <2> HIDE DEF seen
  <2>1. Touched(new)
    BY DEF Touched
  <2> HIDE DEF new
  <2> QED
    BY <1>1, <2>1
<1>3. CASE hits = {}
  BY <1>1, <1>2, <1>3
<1>4. CASE hits # {}
  <2>1. hits \subseteq Nat
    <3>1. DOMAIN archive \subseteq Nat
      BY ArchiveIs
    <3> QED
      BY <3>1
  <2>2. at \in hits
    <3> HIDE DEF hits
    <3> QED
      BY <1>4, <2>1, MinOfNaturals
  <2> HIDE DEF at, new
  <2> QED
    BY <1>1, <1>2, <1>4, <2>2
<1> QED
  BY <1>3, <1>4

LEMMA RdOpenIs ==
    ASSUME NEW tape \in Archives, Stripped(tape), NEW p, Len(p) \in Nat \ {0},
           NEW o, o = fsysRdOpen(p)
    PROVE  /\ Touched(o.archive)
           /\ \/ o.file = Invalid
              \/ \E a \in DOMAIN archive :
                   /\ o.file = FileOf(a)
                   /\ \/ Len(p) = 1 /\ check_dir(archive[a].name) = <<p[1]>>
                      \/ /\ Len(p) > 1 /\ check_dir(archive[a].name) = <<p[2]>>
                         /\ Len(p) = 2 \/ ~ archive[a].dir
                      \/ Len(p) > 2 /\ check_dir(archive[a].name) = Rest(p)
<1> DEFINE part == IF Len(p) = 1 THEN p[1] ELSE p[2]
           compared == { a \in Headers : ~ check_subdir(archive[a].name) }
           root == Search(compared, <<part>>)
           rest == Search(Headers, Rest(p))
           new == [a \in DOMAIN archive |->
                     IF rest.archive[a] # archive[a] THEN rest.archive[a] ELSE root.archive[a]]
<1>1. Headers = DOMAIN archive
  BY HeadersAre
<1>2. /\ Touched(root.archive)
      /\ \/ root.file = Invalid
         \/ \E a \in DOMAIN archive :
               check_dir(archive[a].name) = <<part>> /\ root.file = FileOf(a)
  <2>1. compared \in SUBSET DOMAIN archive
    BY <1>1
  <2> HIDE DEF compared, part
  <2> QED
    BY <2>1, SearchIs
<1>3. /\ Touched(rest.archive)
      /\ \/ rest.file = Invalid
         \/ \E a \in DOMAIN archive :
               check_dir(archive[a].name) = Rest(p) /\ rest.file = FileOf(a)
  <2>1. Headers \in SUBSET DOMAIN archive
    BY <1>1
  <2> QED
    BY <2>1, SearchIs
<1>4. o = IF Len(p) <= 2 \/ root.file.flags # FS_DIR THEN root
          ELSE [file |-> rest.file, archive |-> new]
  BY DEF fsysRdOpen, fsysRdOpenRootDirectory, fsysRdOpenSubDir
<1> HIDE DEF root, rest
<1>5. CASE Len(p) <= 2 \/ root.file.flags # FS_DIR
  <2>1. o = root
    BY <1>4, <1>5
  <2>2. CASE root.file = Invalid
    BY <1>2, <2>1, <2>2
  <2>3. CASE \E a \in DOMAIN archive :
                check_dir(archive[a].name) = <<part>> /\ root.file = FileOf(a)
    <3>1. PICK a \in DOMAIN archive :
             check_dir(archive[a].name) = <<part>> /\ root.file = FileOf(a)
      BY <2>3
    <3>2. FileOf(a).flags = IF archive[a].dir THEN FS_DIR ELSE FS_FILE
      BY DEF FileOf
    <3>3. Len(p) <= 2 \/ ~ archive[a].dir
      BY <1>5, <3>1, <3>2
    <3>4. Touched(o.archive) /\ o.file = FileOf(a)
      BY <1>2, <2>1, <3>1
    <3> HIDE DEF new, compared
    <3>5. CASE Len(p) = 1
      BY <3>1, <3>4, <3>5
    <3>6. CASE Len(p) # 1
      <4>1. Len(p) > 1 /\ part = p[2] /\ (Len(p) = 2 \/ ~ archive[a].dir)
        <5> DEFINE l == Len(p)
        <5>1. l \in Nat \ {0} /\ l # 1 /\ (l <= 2 \/ ~ archive[a].dir)
          BY <3>3, <3>6
        <5> HIDE DEF l
        <5>2. l > 1 /\ (l = 2 \/ ~ archive[a].dir)
          BY <5>1
        <5> QED
          BY <3>6, <5>2 DEF l
      <4> HIDE DEF part
      <4> QED
        BY <3>1, <3>4, <4>1
    <3> QED
      BY <3>5, <3>6
  <2> QED
    BY <1>2, <2>2, <2>3
<1>6. CASE ~ (Len(p) <= 2 \/ root.file.flags # FS_DIR)
  <2>1. o.file = rest.file /\ o.archive = new
    BY <1>4, <1>6
  <2>2. Touched(new)
    <3>1. \A a \in DOMAIN archive : new[a] = rest.archive[a] \/ new[a] = root.archive[a]
      OBVIOUS
    <3>2. new = [a \in DOMAIN archive |-> new[a]]
      OBVIOUS
    <3> HIDE DEF new
    <3> QED
      BY <1>2, <1>3, <3>1, <3>2 DEF Touched
  <2> HIDE DEF new
  <2>3. Len(p) > 2
    BY <1>6
  <2> QED
    BY <1>3, <2>1, <2>2, <2>3
<1> QED
  BY <1>5, <1>6

(* A file that is in the archive is found by its path. *)
LEMMA RdFinds ==
    ASSUME NEW tape \in Archives, Stripped(tape), NEW S, NEW p \in Seq(S), Len(p) > 1,
           p[1] = <<>> \/ Len(p) = 2,
           NEW a \in DOMAIN archive, ~ archive[a].dir, check_dir(archive[a].name) = Tail(p)
    PROVE  fsysRdOpen(p).file.flags = FS_FILE
<1> DEFINE compared == { b \in Headers : ~ check_subdir(archive[b].name) }
           root == Search(compared, <<p[2]>>)
           rest == Search(Headers, Rest(p))
<1>1. Headers = DOMAIN archive
  BY HeadersAre
<1>2. \A b \in DOMAIN archive : archive[b].name \in Names
  BY ArchiveIs DEF Headers1
<1>3. Len(p) \in Nat /\ Tail(p) \in Seq(S) /\ Len(Tail(p)) = Len(p) - 1 /\ Tail(p)[1] = p[2]
  OBVIOUS
<1>4. \/ /\ root.file = Invalid
         /\ \A b \in compared : check_dir(archive[b].name) # <<p[2]>>
      \/ \E b \in compared : check_dir(archive[b].name) = <<p[2]>> /\ root.file = FileOf(b)
  <2>1. compared \in SUBSET DOMAIN archive
    BY <1>1
  <2> HIDE DEF compared
  <2> QED
    BY <2>1, SearchIs
<1>5. \/ /\ rest.file = Invalid
         /\ \A b \in Headers : check_dir(archive[b].name) # Rest(p)
      \/ \E b \in Headers : check_dir(archive[b].name) = Rest(p) /\ rest.file = FileOf(b)
  <2>1. Headers \in SUBSET DOMAIN archive
    BY <1>1
  <2> QED
    BY <2>1, SearchIs
<1>6. ASSUME NEW b \in DOMAIN archive, check_dir(archive[b].name) = <<p[2]>>
      PROVE  root.file = FileOf(b)
  <2>1. Len(check_dir(archive[b].name)) = 1
    BY <1>6
  <2>2. b \in compared
    <3>1. ~ Len(check_dir(archive[b].name)) > 1
      BY <2>1
    <3>2. ~ check_subdir(archive[b].name)
      BY <1>2, <3>1, InRoot
    <3> QED
      BY <1>1, <3>2
  <2>3. PICK c \in compared : check_dir(archive[c].name) = <<p[2]>> /\ root.file = FileOf(c)
    BY <1>4, <1>6, <2>2
  <2>4. c = b
    BY <1>1, <1>6, <2>3, NamesDiffer
  <2> QED
    BY <2>3, <2>4
<1>7. \A b \in DOMAIN archive : FileOf(b).flags = IF archive[b].dir THEN FS_DIR ELSE FS_FILE
  BY DEF FileOf
<1> HIDE DEF root, rest, compared
<1>8. CASE Len(p) = 2
  <2>1. Tail(p) = <<p[2]>>
    <3> DEFINE t == Tail(p)
    <3>1. t \in Seq(S) /\ Len(t) = 1 /\ t[1] = p[2]
      BY <1>3, <1>8
    <3> HIDE DEF t
    <3>2. t = <<t[1]>>
      BY <3>1
    <3> QED
      BY <3>1, <3>2 DEF t
  <2>2. root.file = FileOf(a)
    BY <1>6, <2>1
  <2>3. fsysRdOpen(p) = root
    BY <1>8 DEF fsysRdOpen, fsysRdOpenRootDirectory, root, compared
  <2> QED
    BY <1>7, <2>2, <2>3
<1>9. CASE Len(p) > 2
  <2>1. p[1] = <<>> /\ Rest(p) = Tail(p)
    BY <1>9 DEF Rest
  <2>2. Len(check_dir(archive[a].name)) > 1 /\ check_dir(archive[a].name)[1] = p[2]
    BY <1>3, <1>9
  <2>3. PICK b \in DOMAIN archive :
           archive[b].dir /\ check_dir(archive[b].name) = <<check_dir(archive[a].name)[1]>>
    BY <2>2, ParentIsThere
  <2>4. root.file.flags = FS_DIR
    BY <1>6, <1>7, <2>2, <2>3
  <2>5. PICK c \in Headers : check_dir(archive[c].name) = Rest(p) /\ rest.file = FileOf(c)
    BY <1>1, <1>5, <2>1
  <2>6. c = a
    BY <1>1, <2>1, <2>5, NamesDiffer
  <2>7. fsysRdOpen(p).file = rest.file
    <3>1. ~ (Len(p) <= 2 \/ root.file.flags # FS_DIR) /\ Len(p) # 1
      BY <1>3, <1>9, <2>4
    <3> QED
      BY <3>1 DEF fsysRdOpen, fsysRdOpenRootDirectory, fsysRdOpenSubDir, root, rest, compared
  <2> QED
    BY <1>7, <2>5, <2>6, <2>7
<1> QED
  BY <1>3, <1>8, <1>9

-----------------------------------------------------------------------------
(* The clusters of a file *)

(* s leads from c along the FAT to the last cluster of a file. *)
Follows(s, c) ==
    /\ s \in Seq(Clusters) /\ Len(s) \in Nat \ {0} /\ s[1] = c
    /\ \A i \in 1 .. Len(s) :
         IF i = Len(s) THEN disk.next[s[i]] \notin Clusters ELSE s[i + 1] = disk.next[s[i]]

LEMMA FollowsOne ==
    ASSUME NEW c \in Clusters, disk.next[c] \notin Clusters
    PROVE  Follows(<<c>>, c) /\ Len(<<c>>) = 1
BY DEF Follows

LEMMA FollowsMore ==
    ASSUME NEW c \in Clusters, disk.next[c] \in Clusters,
           NEW t, Follows(t, disk.next[c]), NEW s, s = <<c>> \o t
    PROVE  Follows(s, c) /\ Len(s) = Len(t) + 1
<1>1. t \in Seq(Clusters) /\ t[1] = disk.next[c]
  BY DEF Follows
<1>2. PICK n \in Nat \ {0} : n = Len(t)
  BY DEF Follows
<1>3. /\ s \in Seq(Clusters) /\ Len(s) = Len(t) + 1 /\ s[1] = c
      /\ \A i \in 1 .. Len(t) : s[i + 1] = t[i]
      /\ \A i \in 2 .. Len(s) : i - 1 \in 1 .. Len(t) /\ s[i] = t[i - 1]
  BY <1>1, Prefixed1
<1>4. \A i \in 1 .. n :
         IF i = n THEN disk.next[t[i]] \notin Clusters ELSE t[i + 1] = disk.next[t[i]]
  BY <1>2 DEF Follows
<1>5. ASSUME NEW i \in 1 .. n + 1
      PROVE  IF i = n + 1 THEN disk.next[s[i]] \notin Clusters ELSE s[i + 1] = disk.next[s[i]]
  <2>1. CASE i = 1
    <3>1. i # n + 1 /\ 1 \in 1 .. n
      BY <2>1
    <3>2. s[1 + 1] = t[1]
      BY <1>2, <1>3, <3>1
    <3> QED
      BY <1>1, <1>3, <2>1, <3>1, <3>2
  <2>2. CASE i # 1
    <3>1. i - 1 \in 1 .. n /\ s[i] = t[i - 1]
      BY <1>2, <1>3, <2>2
    <3>2. CASE i = n + 1
      <4>1. i - 1 = n
        BY <3>2
      <4> QED
        BY <1>4, <3>1, <3>2, <4>1
    <3>3. CASE i # n + 1
      <4>1. i - 1 # n /\ (i - 1) + 1 = i /\ i \in 1 .. n
        BY <3>1, <3>3
      <4>2. t[i] = disk.next[t[i - 1]]
        BY <1>4, <3>1, <4>1
      <4>3. s[i + 1] = t[i]
        BY <1>2, <1>3, <4>1
      <4> QED
        BY <3>1, <3>3, <4>2, <4>3
    <3> QED
      BY <3>2, <3>3
  <2> QED
    BY <2>1, <2>2
<1> QED
  BY <1>2, <1>3, <1>5 DEF Follows

IsFrom(f) ==
    f = [x \in Clusters |-> IF disk.next[x] \in Clusters THEN <<x>> \o f[disk.next[x]]
                            ELSE <<x>>]

(* The clusters of a file are no more than are remembered. *)
LEMMA ClustersFromIs ==
    ASSUME disk \in Disks, NEW c \in Clusters
    PROVE  Follows(ClustersFrom(c), c) /\ Len(ClustersFrom(c)) <= MaxPrinted
<1>1. Written(disk)
  BY DiskAssumption
<1>2. PICK rank \in [Clusters -> 0 .. MaxPrinted - 1] :
         \A x \in Clusters : disk.next[x] \in Clusters => rank[disk.next[x]] < rank[x]
  BY FilesAssumption DEF Clusters
<1>3. MaxPrinted \in Nat \ {0}
  BY FilesAssumption
<1> DEFINE nxt == [x \in Clusters |-> IF disk.next[x] \in Clusters THEN disk.next[x] ELSE 0]
           pos == [x \in Clusters |-> MaxPrinted - 1 - rank[x]]
<1>4. 0 \notin Clusters
  BY <1>1, ClustersType
<1>5. Upward(Clusters, nxt, pos, MaxPrinted - 1)
  <2>1. MaxPrinted - 1 \in Nat
    BY <1>3
  <2>2. ASSUME NEW x \in Clusters
        PROVE  /\ pos[x] \in 0 .. MaxPrinted - 1 /\ nxt[x] \in Clusters \cup {0}
               /\ nxt[x] # 0 => pos[x] < pos[nxt[x]]
    <3>1. rank[x] \in 0 .. MaxPrinted - 1 /\ pos[x] = MaxPrinted - 1 - rank[x]
      BY <1>2
    <3>2. CASE disk.next[x] \in Clusters
      <4> DEFINE y == disk.next[x]
      <4>1. y \in Clusters /\ nxt[x] = y /\ rank[y] < rank[x]
        BY <1>2, <3>2
      <4> HIDE DEF y
      <4>2. rank[y] \in 0 .. MaxPrinted - 1 /\ pos[y] = MaxPrinted - 1 - rank[y]
        BY <1>2, <4>1
      <4> HIDE DEF pos, nxt
      <4>3. pos[x] < pos[y] /\ pos[x] \in 0 .. MaxPrinted - 1
        BY <1>3, <3>1, <4>1, <4>2
      <4> QED
        BY <4>1, <4>3
    <3>3. CASE disk.next[x] \notin Clusters
      <4>1. nxt[x] = 0
        BY <3>3
      <4> HIDE DEF pos, nxt
      <4>2. pos[x] \in 0 .. MaxPrinted - 1
        BY <1>3, <3>1
      <4> QED
        BY <4>1, <4>2
    <3> QED
      BY <3>2, <3>3
  <2> HIDE DEF pos, nxt
  <2> QED
    BY <1>4, <2>1, <2>2 DEF Upward
<1>6. PICK f0 : Chain(Clusters, nxt, f0)
  <2> HIDE DEF pos, nxt
  <2> QED
    BY <1>5, ChainExists
<1> DEFINE f1 == [x \in Clusters |-> f0[x]]
<1>7. IsFrom(f1)
  <2>1. ASSUME NEW x \in Clusters
        PROVE  f0[x] = IF disk.next[x] \in Clusters THEN <<x>> \o f0[disk.next[x]] ELSE <<x>>
    <3>1. f0[x] = <<x>> \o f0[nxt[x]] /\ f0[0] = <<>>
      BY <1>4, <1>6 DEF Chain
    <3>2. CASE disk.next[x] \in Clusters
      BY <3>1, <3>2
    <3>3. CASE disk.next[x] \notin Clusters
      <4>1. <<x>> \o <<>> = <<x>>
        OBVIOUS
      <4> QED
        BY <3>1, <3>3, <4>1
    <3> QED
      BY <3>2, <3>3
  <2> QED
    BY <2>1 DEF IsFrom
<1> HIDE DEF f1
<1> DEFINE from == CHOOSE f : IsFrom(f)
<1>8. IsFrom(from)
  BY <1>7
<1>9. ClustersFrom(c) = from[c]
  BY DEF ClustersFrom, IsFrom
<1> HIDE DEF from
<1>10. \A x \in Clusters :
          from[x] = IF disk.next[x] \in Clusters THEN <<x>> \o from[disk.next[x]] ELSE <<x>>
  BY <1>8 DEF IsFrom
<1> DEFINE N == { k \in Nat : \A x \in Clusters :
                     rank[x] <= k => Follows(from[x], x) /\ Len(from[x]) <= k + 1 }
<1>11. 0 \in N
  <2> SUFFICES ASSUME NEW x \in Clusters, rank[x] <= 0
               PROVE  Follows(from[x], x) /\ Len(from[x]) <= 0 + 1
    OBVIOUS
  <2>1. disk.next[x] \notin Clusters
    <3>1. ASSUME disk.next[x] \in Clusters PROVE FALSE
      <4>1. rank[disk.next[x]] < rank[x] /\ rank[disk.next[x]] \in 0 .. MaxPrinted - 1
            /\ rank[x] \in 0 .. MaxPrinted - 1
        BY <1>2, <3>1
      <4> QED
        BY <4>1
    <3> QED
      BY <3>1
  <2>2. from[x] = <<x>>
    BY <1>10, <2>1
  <2> QED
    BY <2>1, <2>2, FollowsOne
<1>12. ASSUME NEW k \in N PROVE k + 1 \in N
  <2>1. k \in Nat
    BY <1>12
  <2> SUFFICES ASSUME NEW x \in Clusters, rank[x] <= k + 1
               PROVE  Follows(from[x], x) /\ Len(from[x]) <= (k + 1) + 1
    BY <2>1
  <2>2. CASE disk.next[x] \notin Clusters
    <3>1. from[x] = <<x>>
      BY <1>10, <2>2
    <3>2. Follows(from[x], x) /\ Len(from[x]) = 1
      BY <2>2, <3>1, FollowsOne
    <3> QED
      BY <2>1, <3>2
  <2>3. CASE disk.next[x] \in Clusters
    <3> DEFINE y == disk.next[x]
    <3>1. rank[y] <= k
      <4>1. rank[y] < rank[x] /\ rank[y] \in 0 .. MaxPrinted - 1 /\ rank[x] \in 0 .. MaxPrinted - 1
        BY <1>2, <2>3
      <4> HIDE DEF y
      <4> QED
        BY <2>1, <4>1
    <3>2. Follows(from[y], y) /\ Len(from[y]) <= k + 1
      BY <1>12, <2>3, <3>1
    <3>3. from[x] = <<x>> \o from[y]
      BY <1>10, <2>3
    <3>4. Follows(from[x], x) /\ Len(from[x]) = Len(from[y]) + 1
      BY <2>3, <3>2, <3>3, FollowsMore
    <3>5. Len(from[y]) \in Nat
      BY <3>2 DEF Follows
    <3> HIDE DEF y
    <3> QED
      BY <2>1, <3>2, <3>4, <3>5
  <2> QED
    BY <2>2, <2>3
<1>13. N = Nat
  <2> HIDE DEF N
  <2>1. N \in SUBSET Nat
    BY DEF N
  <2> QED
    BY <1>11, <1>12, <2>1, SetInduction
<1>14. rank[c] \in 0 .. MaxPrinted - 1 /\ MaxPrinted - 1 \in Nat
  BY <1>2, <1>3
<1>15. rank[c] <= MaxPrinted - 1
  BY <1>14
<1>16. Follows(from[c], c) /\ Len(from[c]) <= (MaxPrinted - 1) + 1
  BY <1>13, <1>14, <1>15
<1> QED
  BY <1>3, <1>9, <1>16

-----------------------------------------------------------------------------
(* The number of a sector *)

Digits == { s \in Seq(Nat) : \A i \in DOMAIN s : isdigit(s[i]) }

LEMMA DigitIs ==
    ASSUME NEW s \in Digits, NEW i \in DOMAIN s
    PROVE  /\ s[i] \in Nat /\ 48 <= s[i] /\ s[i] <= 57
           /\ ~ isspace(s[i]) /\ DigitOf(s[i]) = s[i] - 48
<1> DEFINE c == s[i]
<1>1. c \in Nat /\ isdigit(c)
  <2>1. s \in Seq(Nat) /\ isdigit(s[i])
    BY DEF Digits
  <2> QED
    BY <2>1, ElementOfSeq, LenProperties
<1> HIDE DEF c
<1>2. 48 <= c /\ c <= 57
  BY <1>1 DEF isdigit
<1>3. ~ isspace(c)
  BY <1>1, <1>2 DEF isspace
<1>4. ~ isupper(c)
  BY <1>1, <1>2 DEF isupper
<1>5. DigitOf(c) = c - 48
  BY <1>1, <1>4 DEF DigitOf
<1> QED
  BY <1>1, <1>2, <1>3, <1>5 DEF c

(* Of digits alone, strtol takes all and knows no sign. *)
LEMMA DigitsStay ==
    ASSUME NEW s \in Digits
    PROVE  BehindSpaces(s) = s /\ Number(s) = s /\ (s # <<>> => s[1] \notin {43, 45})
<1>1. s \in Seq(Nat)
  BY DEF Digits
<1>2. PICK n \in Nat : n = Len(s) /\ DOMAIN s = 1 .. n
  BY <1>1, LenProperties
<1>3. CASE s = <<>>
  <2>1. DOMAIN s = {}
    BY <1>3
  <2>2. BehindSpaces(s) = s
    BY <1>3, <2>1 DEF BehindSpaces
  <2>3. Number(s) = s
    BY <2>1 DEF Number
  <2> QED
    BY <1>3, <2>2, <2>3
<1>4. CASE s # <<>>
  <2>1. n \in Nat \ {0} /\ 1 \in DOMAIN s
    BY <1>1, <1>2, <1>4, EmptySeq
  <2> DEFINE kept == { i \in DOMAIN s : ~ isspace(s[i]) }
             ends == { i \in DOMAIN s : ~ isdigit(s[i]) /\ ~ isalpha(s[i]) }
  <2>2. kept = 1 .. n
    BY <1>2, DigitIs
  <2>3. ends = {}
    BY DEF Digits
  <2>4. Min(kept) = 1
    <3>1. 1 .. n \subseteq Nat /\ 1 \in 1 .. n
      BY <2>1
    <3> DEFINE m == Min(1 .. n)
    <3>2. m \in 1 .. n /\ m <= 1
      BY <3>1, MinOfNaturals
    <3>3. m = 1
      <4> HIDE DEF m
      <4> QED
        BY <3>2
    <3> HIDE DEF kept
    <3> QED
      BY <2>2, <3>3
  <2>5. BehindSpaces(s) = SubSeq(s, 1, Len(s))
    <3>1. kept # {}
      BY <2>1, <2>2
    <3> QED
      BY <2>4, <3>1 DEF BehindSpaces
  <2>6. SubSeq(s, 1, Len(s)) = s
    BY <1>1, SubSeqFull
  <2>7. Number(s) = s
    BY <2>3 DEF Number
  <2>8. s[1] \notin {43, 45}
    BY <2>1, DigitIs
  <2> QED
    BY <2>5, <2>6, <2>7, <2>8
<1> QED
  BY <1>3, <1>4

IsRun(h, s, turn) == h = [i \in 0 .. Len(s) |-> IF i = 0 THEN 0 ELSE turn[<<h[i - 1], s[i]>>]]

(* A loop over the characters of a string has its values. *)
LEMMA RunExists ==
    ASSUME NEW s \in Seq(Nat), NEW turn \in [Int \X Nat -> Int]
    PROVE  \E h \in [0 .. Len(s) -> Int] : IsRun(h, s, turn)
<1>1. PICK n \in Nat : n = Len(s) /\ DOMAIN s = 1 .. n
  BY LenProperties
<1> DEFINE g == [q \in Int \X (1 .. n) |-> turn[<<q[1], s[q[2]]>>]]
<1>2. g \in [Int \X (1 .. n) -> Int]
  BY <1>1, ElementOfSeq
<1>3. PICK h : Loop(h, Int, 0, n, g)
  <2> HIDE DEF g
  <2>1. LoopBody(Int, 0, n, g)
    BY <1>2 DEF LoopBody
  <2> QED
    BY <2>1, LoopExists
<1>4. h \in [0 .. n -> Int] /\ h[0] = 0 /\ \A i \in 1 .. n : h[i] = g[<<h[i - 1], i>>]
  <2> HIDE DEF g
  <2> QED
    BY <1>3 DEF Loop
<1>5. \A i \in 1 .. n : h[i] = turn[<<h[i - 1], s[i]>>]
  <2> TAKE i \in 1 .. n
  <2>1. h[i - 1] \in Int
    BY <1>4
  <2>2. g[<<h[i - 1], i>>] = turn[<<h[i - 1], s[i]>>]
    BY <2>1
  <2> QED
    BY <1>4, <2>2
<1>6. IsRun(h, s, turn)
  <2> HIDE DEF g
  <2> QED
    BY <1>1, <1>4, <1>5 DEF IsRun
<1> QED
  BY <1>1, <1>4, <1>6

LEMMA LongMaxType == LONG_MAX \in Nat
  BY SMT DEF LONG_MAX

(* What atoi makes of digits, if it fits, is the number they stand for.     *)
LEMMA AtoiIs ==
    ASSUME NEW s \in Digits, NEW top \in 0 .. LONG_MAX, atoi(s) \in 0 .. (top - 1)
    PROVE  Decimal(s) = atoi(s) /\ atoi(s) \in Nat
<1>1. s \in Seq(Nat)
  BY DEF Digits
<1>2. PICK n \in Nat : n = Len(s) /\ DOMAIN s = 1 .. n
  BY <1>1, LenProperties
<1> DEFINE turn == [q \in Int \X Nat |-> 10 * q[1] + (q[2] - 48)]
           step == [q \in Int \X Nat |-> Accumulate(q[1], q[2], 7)]
           IsValue(f) == f = [i \in 0 .. Len(s) |->
                                IF i = 0 THEN 0 ELSE 10 * f[i - 1] + (s[i] - 48)]
           IsAcc(f) == f = [i \in 0 .. Len(s) |->
                              IF i = 0 THEN 0 ELSE Accumulate(f[i - 1], s[i], 7)]
           value == CHOOSE f : IsValue(f)
           acc == CHOOSE f : IsAcc(f)
<1>3. \A i \in 1 .. n : s[i] \in Nat /\ DigitOf(s[i]) = s[i] - 48
  BY <1>2, DigitIs
<1>5. IsValue(value)
  <2>1. turn \in [Int \X Nat -> Int]
    OBVIOUS
  <2>2. PICK h \in [0 .. n -> Int] : IsRun(h, s, turn)
    <3> HIDE DEF turn
    <3> QED
      BY <1>1, <1>2, <2>1, RunExists
  <2>3. \A i \in 1 .. n : turn[<<h[i - 1], s[i]>>] = 10 * h[i - 1] + (s[i] - 48)
    BY <1>3, <2>2
  <2>4. IsValue(h)
    <3> HIDE DEF turn
    <3>1. h[0] = 0 /\ \A i \in 1 .. n : h[i] = turn[<<h[i - 1], s[i]>>]
      BY <1>2, <2>2 DEF IsRun
    <3>2. \A i \in 0 .. n : h[i] = IF i = 0 THEN 0 ELSE 10 * h[i - 1] + (s[i] - 48)
      <4> TAKE i \in 0 .. n
      <4>1. CASE i = 0
        BY <3>1, <4>1
      <4>2. CASE i # 0
        <5>1. i \in 1 .. n
          BY <4>2
        <5> QED
          BY <2>3, <3>1, <4>2, <5>1, Zenon
      <4> QED
        BY <4>1, <4>2
    <3>3. h = [i \in 0 .. n |-> IF i = 0 THEN 0 ELSE 10 * h[i - 1] + (s[i] - 48)]
      BY <2>2, <3>2
    <3> QED
      BY <1>2, <3>3
  <2> QED
    BY <2>4
<1>6. IsAcc(acc)
  <2>1. step \in [Int \X Nat -> Int]
    <3> SUFFICES ASSUME NEW a \in Int, NEW c \in Nat PROVE Accumulate(a, c, 7) \in Int
      BY Zenon
    <3>1. DigitOf(c) \in Int
      <4>1. ~ (isdigit(c) /\ isupper(c))
        BY DEF isdigit, isupper
      <4>2. DigitOf(c) \in {c - 48, c - 55, c - 87}
        BY <4>1, Zenon DEF DigitOf
      <4> QED
        BY <4>2
    <3> QED
      BY <3>1, SMT DEF Accumulate
  <2>2. PICK h \in [0 .. n -> Int] : IsRun(h, s, step)
    <3> HIDE DEF step
    <3> QED
      BY <1>1, <1>2, <2>1, RunExists
  <2>3. \A i \in 1 .. n : step[<<h[i - 1], s[i]>>] = Accumulate(h[i - 1], s[i], 7)
    BY <1>3, <2>2
  <2>4. IsAcc(h)
    <3> HIDE DEF step
    <3>1. h[0] = 0 /\ \A i \in 1 .. n : h[i] = step[<<h[i - 1], s[i]>>]
      BY <1>2, <2>2 DEF IsRun
    <3>2. \A i \in 0 .. n : h[i] = IF i = 0 THEN 0 ELSE Accumulate(h[i - 1], s[i], 7)
      <4> TAKE i \in 0 .. n
      <4>1. CASE i = 0
        BY <3>1, <4>1
      <4>2. CASE i # 0
        <5>1. i \in 1 .. n
          BY <4>2
        <5> QED
          BY <2>3, <3>1, <4>2, <5>1, Zenon
      <4> QED
        BY <4>1, <4>2
    <3>3. h = [i \in 0 .. n |-> IF i = 0 THEN 0 ELSE Accumulate(h[i - 1], s[i], 7)]
      BY <2>2, <3>2
    <3> QED
      BY <1>2, <3>3
  <2> QED
    BY <2>4
<1> HIDE DEF value, acc, turn, step
<1>7. value[0] = 0 /\ \A i \in 1 .. n : value[i] = 10 * value[i - 1] + (s[i] - 48)
  BY <1>2, <1>5
<1>8. acc[0] = 0 /\ \A i \in 1 .. n : acc[i] = Accumulate(acc[i - 1], s[i], 7)
  BY <1>2, <1>6
<1> DEFINE Fits(i) == value[i] \in Int /\ (acc[i] = value[i] \/ acc[i] = -1)
           S == [i \in 0 .. n |-> IF Fits(i) THEN {acc[i]} ELSE {}]
<1>9. Fits(0)
  BY <1>7, <1>8
<1>10. ASSUME NEW i \in 1 .. n, Fits(i - 1) PROVE Fits(i)
  <2>1. acc[i - 1] \in Int /\ value[i - 1] \in Int /\ i - 1 \in 0 .. n
    BY <1>10
  <2>2. acc[i] = Accumulate(acc[i - 1], s[i], 7)
    BY <1>8
  <2>3. CASE acc[i - 1] = -1
    <3>1. acc[i] = -1
      BY <2>2, <2>3, SMT DEF Accumulate
    <3> QED
      BY <1>3, <1>7, <2>1, <3>1
  <2>4. CASE acc[i - 1] = value[i - 1]
    <3>1. acc[i] = -1 \/ acc[i] = acc[i - 1] * 10 + (s[i] - 48)
      BY <1>3, <2>2, SMT DEF Accumulate
    <3> QED
      BY <1>3, <1>7, <2>1, <2>4, <3>1
  <2> QED
    BY <1>10, <2>3, <2>4
<1>11. Fits(n)
  <2>1. acc[0] \in S[0]
    BY <1>9
  <2>2. \A i \in 1 .. n : acc[i - 1] \in S[i - 1] => acc[i] \in S[i]
    BY <1>10
  <2> HIDE DEF S
  <2>3. \A i \in 0 .. n : acc[i] \in S[i]
    BY <2>1, <2>2, LoopKeeps
  <2>4. acc[n] \in S[n]
    BY <2>3
  <2> HIDE DEF Fits
  <2> QED
    BY <2>4 DEF S
<1>12. Decimal(s) = value[n]
  BY <1>2 DEF Decimal, value
<1>13. atoi(s) = IF acc[n] < 0 THEN LONG_MAX ELSE acc[n]
  <2>1. BehindSpaces(s) = s /\ Number(s) = s
    BY DigitsStay
  <2>2. ~ (s # <<>> /\ s[1] = 45) /\ ~ (s # <<>> /\ s[1] \in {43, 45})
    BY DigitsStay
  <2>3. Value(s, 7) = acc[n]
    BY <1>2 DEF Value, acc
  <2> QED
    BY <2>1, <2>2, <2>3, Zenon DEF atoi, strtol
<1>14. acc[n] >= 0
  <2>1. acc[n] \in Int
    BY <1>11
  <2>2. LONG_MAX \in Nat /\ LONG_MAX \notin 0 .. (top - 1)
    BY LongMaxType
  <2> QED
    BY <1>13, <2>1, <2>2
<1> QED
  BY <1>11, <1>12, <1>13, <1>14

-----------------------------------------------------------------------------
(* Paths *)

(* A path begins with the letter of the ramdisk and a colon, or, without a  *)
(* colon, with what an absolute path begins with, the letter of a volume.   *)
Begins(p) ==
    \/ p[1] = <<"x", ":">> /\ Len(p) >= 2
    \/ Len(p[1]) >= 3 /\ ~ Prefixed(p) /\ p[1][1] \in Letters

LEMMA JoinIs ==
    ASSUME NEW S, NEW p \in Seq(Seq(S)), NEW q \in Seq(Seq(S)), Len(p) >= 2, q # <<>>
    PROVE  /\ strcat(p, q) \in Seq(Seq(S))
           /\ Len(strcat(p, q)) >= 2
           /\ strcat(p, q)[1] = p[1]
<1>1. PICK m \in Nat : m = Len(p) /\ DOMAIN p = 1 .. m
  BY LenProperties
<1>2. PICK l \in Nat \ {0} : l = Len(q) /\ DOMAIN q = 1 .. l
  BY LenProperties, EmptySeq
<1>3. m >= 2
  BY <1>1
<1> DEFINE front == SubSeq(p, 1, m - 1)
           joint == Last(p) \o q[1]
<1>4. front \in Seq(Seq(S)) /\ Len(front) = m - 1 /\ front[1] = p[1]
  <2>1. \A i \in 1 .. (m - 1) : p[i] \in Seq(S)
    BY <1>1, ElementOfSeq
  <2>2. /\ front \in Seq(Seq(S))
        /\ Len(front) = IF 1 <= m - 1 THEN m - 1 - 1 + 1 ELSE 0
        /\ \A i \in 1 .. ((m - 1) - 1 + 1) : front[i] = p[1 + i - 1]
    <3>1. m - 1 \in Int
      OBVIOUS
    <3> QED
      BY <2>1, <3>1, SubSeqProperties
  <2> HIDE DEF front
  <2>3. 1 \in 1 .. ((m - 1) - 1 + 1) /\ 1 <= m - 1
    BY <1>3
  <2> QED
    BY <2>2, <2>3
<1>5. joint \in Seq(S)
  <2>1. Last(p) \in Seq(S) /\ q[1] \in Seq(S)
    BY <1>1, <1>2, <1>3, ElementOfSeq DEF Last
  <2> QED
    BY <2>1, ConcatProperties
<1> HIDE DEF front, joint
<1>6. <<joint>> \in Seq(Seq(S)) /\ Len(<<joint>>) = 1
  BY <1>5
<1>7. /\ front \o <<joint>> \in Seq(Seq(S)) /\ Len(front \o <<joint>>) = m
      /\ (front \o <<joint>>)[1] = p[1]
  <2>1. 1 \in 1 .. (Len(front) + Len(<<joint>>)) /\ 1 <= Len(front)
    BY <1>3, <1>4, <1>6
  <2> PICK one \in Seq(Seq(S)) : one = <<joint>> /\ Len(one) = 1
    BY <1>6
  <2>2. front \o one \in Seq(Seq(S)) /\ Len(front \o one) = Len(front) + Len(one)
        /\ (front \o one)[1] = front[1]
    BY <1>4, <2>1, ConcatProperties
  <2> QED
    BY <1>4, <2>2
<1>8. Tail(q) \in Seq(Seq(S)) /\ Len(Tail(q)) \in Nat
  BY HeadTailProperties, LenProperties
<1> DEFINE whole == (front \o <<joint>>) \o Tail(q)
<1>9. whole \in Seq(Seq(S)) /\ Len(whole) >= 2 /\ whole[1] = p[1]
  <2> DEFINE ahead == front \o <<joint>>
             t == Tail(q)
  <2>1. ahead \in Seq(Seq(S)) /\ t \in Seq(Seq(S)) /\ Len(ahead) = m /\ Len(t) \in Nat
        /\ ahead[1] = p[1]
    BY <1>7, <1>8
  <2> HIDE DEF ahead, t
  <2>2. 1 \in 1 .. (Len(ahead) + Len(t)) /\ 1 <= Len(ahead) /\ Len(ahead) + Len(t) >= 2
    BY <1>3, <2>1
  <2>3. ahead \o t \in Seq(Seq(S)) /\ Len(ahead \o t) >= 2 /\ (ahead \o t)[1] = p[1]
    BY <2>1, <2>2, ConcatProperties
  <2> QED
    BY <2>3 DEF ahead, t
<1>10. strcat(p, q) = whole
  BY <1>1 DEF strcat, Front, front, joint
<1> HIDE DEF whole
<1> QED
  BY <1>9, <1>10

(* What the shell opens for what was typed. *)
LEMMA FullPathIs ==
    ASSUME currPath \in Path, Len(currPath) >= 2, Begins(currPath), NEW typed \in Typed
    PROVE  LET p == FullPath(typed)
           IN  /\ p \in Path /\ p # <<>> /\ Begins(p)
               /\ Prefixed(p) => p[1] = currPath[1]
<1>1. /\ typed \in Path /\ typed # <<>>
      /\ Absolute(typed) => ~ Prefixed(typed) /\ typed[1][1] \in Letters
  BY TypedAssumption DEF Path
<1>2. CASE Absolute(typed)
  <2>1. FullPath(typed) = typed
    BY <1>2 DEF FullPath
  <2> QED
    BY <1>1, <1>2, <2>1 DEF Absolute, Begins
<1>3. CASE ~ Absolute(typed)
  <2> DEFINE p == strcat(currPath, typed)
  <2>1. FullPath(typed) = p
    BY <1>3 DEF FullPath
  <2>2. p \in Path /\ Len(p) >= 2 /\ p[1] = currPath[1]
    BY <1>1, JoinIs DEF Path
  <2> HIDE DEF p
  <2>3. Begins(p)
    BY <2>2 DEF Begins, Prefixed
  <2>4. p # <<>>
    BY <2>2, EmptySeq
  <2> QED
    BY <2>1, <2>2, <2>3, <2>4
<1> QED
  BY <1>2, <1>3

(* The name the file system gets: the part of the letter is gone. *)
LEMMA UnprefixedIs ==
    ASSUME NEW p \in Path, p # <<>>, Begins(p), NEW q, q = Unprefixed(p)
    PROVE  /\ q \in Path /\ Len(q) = Len(p) /\ Tail(q) = Tail(p)
           /\ Len(p) >= 2 => q[2] = p[2] /\ q[Len(q)] = p[Len(p)]
           /\ q[1] = <<>> \/ Len(q[1]) >= 3
           /\ Prefixed(p) => q[1] = <<>>
           /\ Len(p) = 1 => Len(q[1]) >= 3
<1>1. PICK l \in Nat \ {0} : l = Len(p) /\ DOMAIN p = 1 .. l
  BY LenProperties, EmptySeq DEF Path
<1>2. Tail(p) \in Path /\ Len(Tail(p)) = l - 1 /\ \A i \in 1 .. (l - 1) : Tail(p)[i] = p[i + 1]
  BY <1>1, HeadTailProperties DEF Path
<1>3. CASE Prefixed(p)
  <2>1. p[1] = <<"x", ":">> /\ l >= 2
    BY <1>1, <1>3 DEF Begins
  <2>2. SubSeq(p[1], 3, Len(p[1])) = <<>>
    <3>1. Len(p[1]) = 2
      BY <2>1
    <3> QED
      BY <3>1, SubSeqEmpty
  <2> DEFINE t == Tail(p)
             none == << <<>> >>
  <2>3. q = none \o t
    BY <1>3, <2>2 DEF Unprefixed
  <2>4. none \in Path /\ none[1] = <<>> /\ Len(none) = 1
    BY DEF Path
  <2>5. t \in Path /\ Len(t) = l - 1 /\ \A i \in 1 .. (l - 1) : t[i] = p[i + 1]
    BY <1>2
  <2> HIDE DEF t, none
  <2>6. q \in Path /\ Len(q) = l /\ \A i \in 1 .. l : q[i] = IF i <= 1 THEN none[i] ELSE t[i - 1]
    <3> DEFINE Part == Seq(STRING)
    <3>1. none \in Seq(Part) /\ t \in Seq(Part)
      BY <2>4, <2>5 DEF Path
    <3> HIDE DEF Part
    <3>2. /\ none \o t \in Seq(Part) /\ Len(none \o t) = Len(none) + Len(t)
          /\ \A i \in 1 .. (Len(none) + Len(t)) :
               (none \o t)[i] = IF i <= Len(none) THEN none[i] ELSE t[i - Len(none)]
      BY <3>1, ConcatProperties
    <3>3. Len(none) = 1 /\ Len(t) = l - 1 /\ Len(none) + Len(t) = l
      BY <2>4, <2>5
    <3>4. /\ q \in Seq(Part) /\ Len(q) = l
          /\ \A i \in 1 .. l : q[i] = IF i <= 1 THEN none[i] ELSE t[i - 1]
      BY <2>3, <3>2, <3>3
    <3> QED
      BY <3>4 DEF Path, Part
  <2>7. q[1] = <<>> /\ q[2] = p[2] /\ q[l] = p[l] /\ q # <<>>
    <3>1. /\ 1 \in 1 .. l /\ 2 \in 1 .. l /\ 1 \in 1 .. (l - 1)
          /\ l \in 1 .. l /\ l - 1 \in 1 .. (l - 1) /\ (l - 1) + 1 = l /\ ~ (l <= 1)
      BY <2>1
    <3> QED
      BY <2>4, <2>5, <2>6, <3>1, EmptySeq
  <2>8. Tail(q) = t
    <3> DEFINE u == Tail(q)
    <3>1. u \in Path /\ Len(u) = l - 1 /\ \A i \in 1 .. (l - 1) : u[i] = q[i + 1]
      BY <2>6, <2>7, HeadTailProperties DEF Path
    <3> HIDE DEF u
    <3>2. \A i \in 1 .. (l - 1) : u[i] = t[i]
      BY <2>6, <3>1
    <3>3. u = t
      BY <2>5, <3>1, <3>2, SeqEqual DEF Path
    <3> QED
      BY <3>3 DEF u
  <2> QED
    BY <1>1, <2>1, <2>6, <2>7, <2>8 DEF t
<1>4. CASE ~ Prefixed(p)
  <2>1. q = p
    BY <1>4 DEF Unprefixed
  <2>2. Len(p[1]) >= 3
    <3>1. ASSUME p[1] = <<"x", ":">> PROVE FALSE
      <4>1. Len(p[1]) = 2 /\ p[1][2] = ":"
        BY <3>1
      <4>2. Len(p[1]) >= 2
        BY <4>1
      <4> QED
        BY <1>4, <4>1, <4>2, Zenon DEF Prefixed
    <3> QED
      BY <3>1 DEF Begins
  <2> QED
    BY <1>4, <2>1, <2>2
<1> QED
  BY <1>3, <1>4

-----------------------------------------------------------------------------
(* An open and the names of a path *)

LEMMA SecondIs ==
    ASSUME NEW p \in Path, Len(p) >= 2
    PROVE  /\ SubSeq(p, 2, 2) = <<p[2]>>
           /\ Len(p) = 2 => Tail(p) = <<p[2]>>
<1> DEFINE T == Seq(STRING)
<1>1. p \in Seq(T) /\ p # <<>> /\ Len(p) \in Nat
  BY EmptySeq DEF Path
<1>2. 2 \in 1 .. Len(p)
  BY <1>1
<1> HIDE DEF T
<1>3. p[2] \in T
  BY <1>1, <1>2, ElementOfSeq
<1> DEFINE s == SubSeq(p, 2, 2)
           x == p[2]
<1>4. s \in Seq(T) /\ Len(s) = 1 /\ s[1] = x
  <2>1. \A i \in 2 .. 2 : p[i] \in T
    BY <1>3
  <2>2. /\ s \in Seq(T)
        /\ Len(s) = IF 2 <= 2 THEN 2 - 2 + 1 ELSE 0
        /\ \A i \in 1 .. (2 - 2 + 1) : s[i] = p[2 + i - 1]
    BY <2>1, SubSeqProperties
  <2> HIDE DEF s
  <2> QED
    BY <2>2
<1>5. Len(p) = 2 => Tail(p) = s
  BY <1>1, TailIsSubSeq
<1> HIDE DEF s, x
<1>6. x \in T
  BY <1>3 DEF x
<1>7. <<x>> \in Seq(T) /\ Len(<<x>>) = 1 /\ <<x>>[1] = x
  BY <1>6
<1>8. s = <<x>>
  <2>1. \A i \in 1 .. Len(s) : s[i] = <<x>>[i]
    BY <1>4, <1>7
  <2> QED
    BY <1>4, <1>7, <2>1, SeqEqual
<1> QED
  BY <1>5, <1>8 DEF s, x

(* What the ramdisk opens has the names of the path, or the path goes on    *)
(* behind a file.                                                           *)
LEMMA RdPathIs ==
    ASSUME NEW tape \in Archives, Stripped(tape), NEW p \in Path, p # <<>>, Begins(p),
           NEW o, o = fsysRdOpen(Unprefixed(p))
    PROVE  /\ Touched(o.archive)
           /\ \/ o.file = Invalid
              \/ \E n \in 2 .. Len(p) : \E a \in TapeHeaders(SubSeq(p, 2, n)) :
                    o.file = FileOf(a) /\ (archive[a].dir => n = Len(p))
<1> DEFINE q == Unprefixed(p)
<1>1. PICK l \in Nat \ {0} : l = Len(p) /\ l = Len(q)
  <2>1. Len(p) \in Nat \ {0}
    BY EmptySeq DEF Path
  <2> QED
    BY <2>1, UnprefixedIs
<1>2. /\ q \in Path /\ Tail(q) = Tail(p) /\ (l >= 2 => q[2] = p[2])
      /\ q[1] = <<>> \/ Len(q[1]) >= 3
      /\ l = 1 => Len(q[1]) >= 3
  BY <1>1, UnprefixedIs
<1> HIDE DEF q
<1>3. /\ Touched(o.archive)
      /\ \/ o.file = Invalid
         \/ \E a \in DOMAIN archive :
              /\ o.file = FileOf(a)
              /\ \/ Len(q) = 1 /\ check_dir(archive[a].name) = <<q[1]>>
                 \/ /\ Len(q) > 1 /\ check_dir(archive[a].name) = <<q[2]>>
                    /\ Len(q) = 2 \/ ~ archive[a].dir
                 \/ Len(q) > 2 /\ check_dir(archive[a].name) = Rest(q)
  BY <1>1, RdOpenIs DEF q
<1>4. ASSUME NEW a \in DOMAIN archive
      PROVE  /\ archive[a].name \in Names
             /\ check_dir(archive[a].name) \in Names
             /\ Len(check_dir(archive[a].name)[1]) = 1
  <2>1. archive[a] \in Headers1
    BY ArchiveIs
  <2>2. archive[a].name \in Names
    BY <2>1 DEF Headers1
  <2> DEFINE c == check_dir(archive[a].name)
  <2>3. c \in Names /\ \A j \in DOMAIN c : Len(c[j]) = 1
    BY <2>2, CheckDirIs
  <2>4. 1 \in DOMAIN c
    <3> HIDE DEF c
    <3>1. c \in Seq(Seq(STRING)) /\ c # <<>>
      BY <2>3 DEF Names
    <3> QED
      BY <3>1, EmptySeq, LenProperties
  <2> QED
    BY <2>2, <2>3, <2>4
<1>5. ASSUME NEW a \in DOMAIN archive, o.file = FileOf(a),
             Len(q) = 1, check_dir(archive[a].name) = <<q[1]>>
      PROVE  FALSE
  <2>1. Len(q[1]) >= 3
    BY <1>1, <1>2, <1>5
  <2>2. check_dir(archive[a].name)[1] = q[1]
    BY <1>5
  <2>3. Len(q[1]) = 1
    BY <1>4, <2>2
  <2> QED
    BY <2>1, <2>3
<1>6. ASSUME NEW a \in DOMAIN archive, o.file = FileOf(a),
             Len(q) > 1, check_dir(archive[a].name) = <<q[2]>>,
             Len(q) = 2 \/ ~ archive[a].dir
      PROVE  \E n \in 2 .. Len(p) : \E b \in TapeHeaders(SubSeq(p, 2, n)) :
                o.file = FileOf(b) /\ (archive[b].dir => n = Len(p))
  <2>1. l >= 2 /\ 2 \in 2 .. l
    BY <1>1, <1>6
  <2>2. SubSeq(p, 2, 2) = <<p[2]>>
    BY <1>1, <2>1, SecondIs
  <2>3. a \in TapeHeaders(SubSeq(p, 2, 2))
    BY <1>2, <1>6, <2>1, <2>2 DEF TapeHeaders
  <2>4. archive[a].dir => 2 = Len(p)
    BY <1>1, <1>6
  <2> QED
    BY <1>1, <1>6, <2>1, <2>3, <2>4
<1>7. ASSUME NEW a \in DOMAIN archive, o.file = FileOf(a),
             Len(q) > 2, check_dir(archive[a].name) = Rest(q)
      PROVE  \E n \in 2 .. Len(p) : \E b \in TapeHeaders(SubSeq(p, 2, n)) :
                o.file = FileOf(b) /\ (archive[b].dir => n = Len(p))
  <2>1. CASE q[1] = <<>>
    <3>1. Rest(q) = Tail(p)
      BY <1>2, <2>1 DEF Rest
    <3>2. Tail(p) = SubSeq(p, 2, l)
      BY <1>1, TailIsSubSeq DEF Path
    <3>3. a \in TapeHeaders(SubSeq(p, 2, l)) /\ l \in 2 .. l
      BY <1>1, <1>7, <3>1, <3>2 DEF TapeHeaders
    <3> QED
      BY <1>1, <1>7, <3>3
  <2>2. CASE Len(q[1]) >= 3
    <3> DEFINE first == q[1]
               t == Tail(q)
    <3>1. first \in Seq(STRING) /\ Len(first) >= 3 /\ first # <<>>
      <4>1. 1 \in 1 .. Len(q)
        BY <1>1
      <4>2. first \in Seq(STRING)
        BY <1>2, <4>1, ElementOfSeq DEF Path
      <4> QED
        BY <2>2, <4>2, EmptySeq
    <3>2. Tail(first) \in Seq(STRING) /\ Len(Tail(first)) = Len(first) - 1
      <4> HIDE DEF first
      <4> QED
        BY <3>1, HeadTailProperties
    <3>3. t \in Seq(Seq(STRING))
      <4>1. q # <<>> /\ q \in Seq(Seq(STRING))
        BY <1>1, <1>2, EmptySeq DEF Path
      <4> QED
        BY <4>1, HeadTailProperties
    <3>4. Rest(q) = <<Tail(first)>> \o t
      BY <3>1 DEF Rest
    <3> DEFINE u == Tail(first)
    <3>5. u \in Seq(STRING) /\ Len(u) >= 2
      <4>1. Len(first) \in Nat
        BY <3>1, LenProperties
      <4> HIDE DEF first
      <4> QED
        BY <3>1, <3>2, <4>1
    <3> HIDE DEF t, u, first
    <3>6. (<<u>> \o t)[1] = u
      <4>1. <<u>> \in Seq(Seq(STRING)) /\ Len(<<u>>) = 1 /\ Len(t) \in Nat
        BY <3>3, <3>5, LenProperties
      <4>2. 1 \in 1 .. (Len(<<u>>) + Len(t)) /\ 1 <= Len(<<u>>)
        BY <4>1
      <4>3. (<<u>> \o t)[1] = <<u>>[1]
        BY <3>3, <4>1, <4>2, ConcatProperties
      <4> QED
        BY <4>3
    <3>7. check_dir(archive[a].name)[1] = u
      BY <1>7, <3>4, <3>6 DEF u
    <3> QED
      BY <1>4, <3>5, <3>7
  <2> QED
    BY <1>2, <2>1, <2>2
<1> QED
  BY <1>3, <1>5, <1>6, <1>7

(* Stripping headers changes no name without its slash, no size, no kind.   *)
LEMMA TouchedKeeps ==
    ASSUME NEW tape \in Archives, Stripped(tape), Touched(archive')
    PROVE  /\ Stripped(tape)'
           /\ DOMAIN archive' = DOMAIN archive
           /\ \A a \in DOMAIN archive : /\ archive'[a].size = archive[a].size
                                        /\ archive'[a].dir = archive[a].dir
           /\ \A names : TapeHeaders(names)' = TapeHeaders(names)
<1>1. DOMAIN archive' = DOMAIN archive
  BY DEF Touched
<1>2. DOMAIN archive = DOMAIN Loaded(tape)
  BY DEF Stripped
<1>3. ASSUME NEW a \in DOMAIN archive
      PROVE  /\ archive[a] \in Headers1 /\ archive'[a] \in Headers1
             /\ archive'[a].size = archive[a].size /\ archive'[a].dir = archive[a].dir
             /\ check_dir(archive'[a].name) = check_dir(archive[a].name)
             /\ \/ archive'[a] = archive[a]
                \/ archive'[a] = [archive[a] EXCEPT !.name = check_dir(@)]
  <2> DEFINE h == archive[a]
             x == [h EXCEPT !.name = check_dir(@)]
  <2>1. h \in Headers1
    BY ArchiveIs
  <2>2. archive'[a] = h \/ archive'[a] = x
    BY DEF Touched
  <2> HIDE DEF h
  <2>3. h.name \in Names
    BY <2>1 DEF Headers1
  <2>4. check_dir(h.name) \in Names /\ check_dir(check_dir(h.name)) = check_dir(h.name)
    BY <2>3, CheckDirIs
  <2>5. x \in Headers1 /\ x.size = h.size /\ x.dir = h.dir /\ x.name = check_dir(h.name)
    BY <2>1, <2>4 DEF Headers1
  <2>6. archive[a] = h
    BY DEF h
  <2>7. archive'[a] = h \/ archive'[a] = [archive[a] EXCEPT !.name = check_dir(@)]
    BY <2>2, <2>6
  <2> HIDE DEF x
  <2> QED
    BY <2>1, <2>2, <2>4, <2>5, <2>6, <2>7
<1>4. ASSUME NEW a \in DOMAIN Loaded(tape)
      PROVE  \/ archive'[a] = Loaded(tape)[a]
             \/ archive'[a] = [Loaded(tape)[a] EXCEPT !.name = check_dir(@)]
  <2> DEFINE L == Loaded(tape)[a]
             x == [L EXCEPT !.name = check_dir(@)]
  <2>1. L \in Headers1
    <3>1. PICK n \in Nat \ {0} : n = Len(tape)
      BY TapeIs
    <3>2. /\ DOMAIN Loaded(tape) = Starts(Behind(tape), Len(tape))
          /\ \A i \in 1 .. Len(tape) : Loaded(tape)[Behind(tape)[i - 1]] = tape[i]
      BY LoadedIs, Zenon
    <3>3. PICK i \in 1 .. Len(tape) : a = Behind(tape)[i - 1]
      BY <3>2 DEF Starts
    <3>4. tape[i] \in Headers1
      <4>1. tape \in Seq(Headers1)
        BY TapeIs
      <4> QED
        BY <4>1, ElementOfSeq
    <3> QED
      BY <3>2, <3>3, <3>4
  <2>2. archive[a] = L \/ archive[a] = x
    BY DEF Stripped
  <2>3. archive'[a] = archive[a] \/ archive'[a] = [archive[a] EXCEPT !.name = check_dir(@)]
    BY <1>2, <1>3
  <2> HIDE DEF L
  <2>4. L.name \in Names
    BY <2>1 DEF Headers1
  <2>5. check_dir(L.name) \in Names /\ check_dir(check_dir(L.name)) = check_dir(L.name)
    BY <2>4, CheckDirIs
  <2>6. [x EXCEPT !.name = check_dir(@)] = x
    <3> DEFINE y == [x EXCEPT !.name = check_dir(@)]
    <3>1. x \in Headers1 /\ x.size = L.size /\ x.dir = L.dir /\ x.name = check_dir(L.name)
      BY <2>1, <2>5 DEF Headers1
    <3> HIDE DEF x
    <3>2. y \in Headers1 /\ y.size = x.size /\ y.dir = x.dir /\ y.name = check_dir(x.name)
      BY <2>5, <3>1 DEF Headers1
    <3> HIDE DEF y
    <3>3. y.name = x.name
      BY <2>5, <3>1, <3>2
    <3>4. y = x
      BY <3>1, <3>2, <3>3 DEF Headers1
    <3> QED
      BY <3>4 DEF y
  <2> HIDE DEF x
  <2>7. archive'[a] = L \/ archive'[a] = x
    <3>1. CASE archive[a] = L
      BY <2>3, <3>1 DEF x
    <3>2. CASE archive[a] = x
      BY <2>3, <2>6, <3>2
    <3> QED
      BY <2>2, <3>1, <3>2
  <2> QED
    BY <2>7 DEF L, x
<1>5. Stripped(tape)'
  <2>1. archive' = [a \in DOMAIN Loaded(tape) |-> archive'[a]]
    BY <1>2 DEF Touched
  <2> QED
    BY <1>4, <2>1 DEF Stripped
<1>6. \A names : TapeHeaders(names)' = TapeHeaders(names)
  BY <1>1, <1>3 DEF TapeHeaders
<1> QED
  BY <1>1, <1>3, <1>5, <1>6

(* An archive that is loaded has nothing stripped yet. *)
LEMMA LoadedIsStripped ==
    ASSUME NEW tape \in Archives, archive = Loaded(tape)
    PROVE  Stripped(tape)
<1>1. archive = [a \in DOMAIN Loaded(tape) |-> archive[a]]
  BY DEF Loaded
<1> QED
  BY <1>1 DEF Stripped

LEMMA OnDevice ==
    ASSUME NEW f \in Records, NEW d \in STRING
    PROVE  LET g == [f EXCEPT !.deviceID = d]
           IN  /\ g \in Records /\ g.deviceID = d /\ g.flags = f.flags /\ g.at = f.at
               /\ g.position = f.position /\ g.length = f.length /\ g.eof = f.eof
  BY DEF Records

(* What an open of a volume returns, whichever file system it has. *)
LEMMA VolOpenIs ==
    ASSUME disk \in Disks, NEW tape \in Archives, Stripped(tape),
           NEW p \in Path, p # <<>>, Begins(p), NEW device \in STRING,
           NEW root \in RootReads,
           NEW open \in volOpenFile(p, device, root), NEW d, d = Device(p, device)
    PROVE  /\ open.file \in Records /\ Touched(open.archive)
           /\ open.file.flags # FS_INVALID => open.file.deviceID = d
           /\ _FileSystems[d] = "FAT12" /\ Len(p) = 2 =>
                open.file = [fsysFatDirectory(p[2], root) EXCEPT !.deviceID = d]
           /\ _FileSystems[d] = "FAT12" /\ Len(p) >= 2 /\ open.file.flags = FS_DIR =>
                ToDosFileName(p[Len(p)]) \in DosDirectories
           /\ _FileSystems[d] # "FAT12" /\ open.file.flags # FS_INVALID =>
                \E n \in 2 .. Len(p) : \E a \in TapeHeaders(SubSeq(p, 2, n)) :
                   /\ open.file = [FileOf(a) EXCEPT !.deviceID = d]
                   /\ archive[a].dir => n = Len(p)
           /\ _FileSystems[d] = "RAMDISK" =>
                open.file.flags = fsysRdOpen(Unprefixed(p)).file.flags
<1> DEFINE name == Unprefixed(p)
           on(f) == [f EXCEPT !.deviceID = d]
           o == fsysRdOpen(name)
<1>1. d \in STRING
  <2>1. CASE Prefixed(p)
    <3>1. p[1] = <<"x", ":">>
      BY <2>1 DEF Begins
    <3>2. d = "x"
      BY <2>1, <3>1 DEF Device
    <3> QED
      BY <3>2, FilesAssumption
  <2>2. CASE ~ Prefixed(p)
    BY <2>2 DEF Device
  <2> QED
    BY <2>1, <2>2
<1>2. Touched(archive)
  BY DEF Touched, Stripped
<1>3. Invalid \in Records /\ Invalid.flags = FS_INVALID
  BY InvalidType DEF Invalid
<1>4. \A f \in Records : on(f) \in Records /\ on(f).deviceID = d /\ on(f).flags = f.flags
  BY <1>1, OnDevice
<1>5. CASE _FileSystems[d] = "FAT12"
  <2>1. volOpenFile(p, device, root)
          = { [file |-> on(f), archive |-> archive] : f \in fsysFatOpen(name, root) }
    BY <1>5 DEF volOpenFile
  <2>2. PICK f \in fsysFatOpen(name, root) : open = [file |-> on(f), archive |-> archive]
    BY <2>1
  <2>3. /\ name \in Path /\ name # <<>> /\ Len(name) = Len(p)
        /\ Len(p) >= 2 => name[2] = p[2] /\ name[Len(name)] = p[Len(p)]
    <3>1. /\ name \in Path /\ Len(name) = Len(p)
          /\ Len(p) >= 2 => name[2] = p[2] /\ name[Len(name)] = p[Len(p)]
      BY UnprefixedIs
    <3>2. Len(p) # 0
      BY EmptySeq DEF Path
    <3> HIDE DEF name
    <3> QED
      BY <3>1, <3>2
  <2>4. /\ fsysFatOpen(name, root) \in SUBSET Records
        /\ Len(name) = 2 => fsysFatOpen(name, root) = {fsysFatDirectory(name[2], root)}
        /\ \A g \in fsysFatOpen(name, root) :
              g.flags = FS_DIR => ToDosFileName(name[Len(name)]) \in DosDirectories
    <3>1. Written(disk)
      BY DiskAssumption
    <3> HIDE DEF name
    <3> QED
      BY <2>3, <3>1, FatOpenIs DEF Path
  <2>5. f \in Records
    BY <2>2, <2>4
  <2>6. Len(p) = 2 => f = fsysFatDirectory(p[2], root)
    BY <2>2, <2>3, <2>4
  <2>7. f.flags = FS_DIR /\ Len(p) >= 2 => ToDosFileName(p[Len(p)]) \in DosDirectories
    BY <2>2, <2>3, <2>4
  <2> HIDE DEF name
  <2>8. open.file = on(f) /\ open.archive = archive
    BY <2>2
  <2>9. open.file \in Records /\ open.file.deviceID = d /\ open.file.flags = f.flags
    BY <1>4, <2>5, <2>8
  <2> QED
    BY <1>2, <1>5, <2>6, <2>7, <2>8, <2>9
<1>6. CASE _FileSystems[d] = "RAMDISK"
  <2>1. open = [file |-> on(o.file), archive |-> o.archive]
    BY <1>6 DEF volOpenFile
  <2>2. /\ Touched(o.archive)
        /\ \/ o.file = Invalid
           \/ \E n \in 2 .. Len(p) : \E a \in TapeHeaders(SubSeq(p, 2, n)) :
                 o.file = FileOf(a) /\ (archive[a].dir => n = Len(p))
    BY RdPathIs
  <2>3. \A a \in DOMAIN archive : FileOf(a) \in Records
    <3> SUFFICES ASSUME NEW a \in DOMAIN archive PROVE FileOf(a) \in Records
      OBVIOUS
    <3>1. a \in Nat /\ archive[a] \in Headers1
      BY ArchiveIs
    <3>2. a + TarBlock \in Nat /\ archive[a].size \in Nat
      BY <3>1, RamdiskAssumption DEF Headers1
    <3>3. "none" \in STRING
      BY FilesAssumption
    <3> QED
      BY <3>2, <3>3 DEF FileOf, Records, FS_FILE, FS_DIR, FS_INVALID
  <2>4. o.file \in Records
    BY <1>3, <2>2, <2>3 DEF TapeHeaders
  <2> HIDE DEF name, o
  <2>5. open.file = on(o.file) /\ open.archive = o.archive
    BY <2>1
  <2>6. open.file \in Records /\ open.file.deviceID = d /\ open.file.flags = o.file.flags
    BY <1>4, <2>4, <2>5
  <2>7. o.file.flags # FS_INVALID =>
          \E n \in 2 .. Len(p) : \E a \in TapeHeaders(SubSeq(p, 2, n)) :
             open.file = on(FileOf(a)) /\ (archive[a].dir => n = Len(p))
    BY <1>3, <2>2, <2>5
  <2> QED
    BY <1>6, <2>2, <2>5, <2>6, <2>7 DEF name, o
<1>7. CASE _FileSystems[d] \notin {"FAT12", "RAMDISK"}
  <2>1. open = [file |-> Invalid, archive |-> archive]
    BY <1>7 DEF volOpenFile
  <2>2. FS_INVALID # FS_DIR
    BY DEF FS_INVALID, FS_DIR
  <2> QED
    BY <1>2, <1>3, <1>7, <2>1, <2>2
<1> QED
  BY <1>5, <1>6, <1>7

-----------------------------------------------------------------------------
(* What a file consists of *)

(* A name leads to the entries of the root directory that have it. *)
LEMMA FatEntriesIs ==
    ASSUME NEW x, NEW e
    PROVE  e \in FatEntries(<<x>>) <=>
             \E s \in DOMAIN disk.root : \E i \in DOMAIN disk.root[s] :
                e = disk.root[s][i] /\ e.name = ToDosFileName(x)
<1> DEFINE names == <<x>>
           root == UNION { ToSet(s) : s \in ToSet(disk.root) }
           below(under) == UNION { ToSet(EntriesIn(c)) :
                                     c \in UNION { ToSet(ClustersFrom(d.cluster)) :
                                                     d \in { d \in under : d.dir } } }
           IsUnder(f) == f = [i \in DOMAIN names |->
                               { y \in IF i = 1 THEN root ELSE below(f[i - 1]) :
                                   y.name = ToDosFileName(names[i]) }]
           base == { y \in root : y.name = ToDosFileName(x) }
           under == CHOOSE f : IsUnder(f)
<1>1. DOMAIN names = {1} /\ Len(names) = 1 /\ names[1] = x
  OBVIOUS
<1> HIDE DEF names
<1>2. IsUnder(under)
  <2> DEFINE h == [i \in DOMAIN names |-> base]
  <2>1. \A i \in DOMAIN names :
          h[i] = { y \in IF i = 1 THEN root ELSE below(h[i - 1]) :
                     y.name = ToDosFileName(names[i]) }
    <3> HIDE DEF root, below
    <3> QED
      BY <1>1
  <2>2. IsUnder(h)
    <3> HIDE DEF root, below, base
    <3> QED
      BY <2>1
  <2> QED
    BY <2>2
<1>3. FatEntries(names) = under[Len(names)]
  BY DEF FatEntries
<1> HIDE DEF under
<1>4. FatEntries(names) = base
  <2> HIDE DEF root, below
  <2> QED
    BY <1>1, <1>2, <1>3
<1>5. e \in base <=> \E s \in DOMAIN disk.root : \E i \in DOMAIN disk.root[s] :
                        e = disk.root[s][i] /\ e.name = ToDosFileName(x)
  BY DEF ToSet
<1> QED
  BY <1>4, <1>5 DEF names

(* The first k of the elements a sequence has. *)
LEMMA PrefixIs ==
    ASSUME NEW S, NEW t \in Seq(S), NEW k \in Nat, k <= Len(t),
           NEW s, s = [i \in 1 .. k |-> t[i]]
    PROVE  s \in Seq(S) /\ Len(s) = k /\ IsPrefix(s, t)
<1>1. PICK n \in Nat : n = Len(t) /\ DOMAIN t = 1 .. n
  BY LenProperties
<1>2. \A i \in 1 .. k : t[i] \in S
  <2>1. k <= n
    BY <1>1
  <2>2. \A i \in 1 .. k : i \in 1 .. Len(t)
    BY <1>1, <2>1
  <2> QED
    BY <2>2, ElementOfSeq
<1>3. s \in [1 .. k -> S]
  BY <1>2
<1>4. s \in Seq(S) /\ Len(s) = k /\ DOMAIN s = 1 .. k
  BY <1>3
<1>5. SubSeq(s, 1, k) = s
  BY <1>4, SubSeqFull
<1> DEFINE u == SubSeq(t, 1, k)
<1>6. u \in Seq(S) /\ Len(u) = k /\ \A i \in 1 .. k : u[i] = t[i]
  <2>1. /\ u \in Seq(S)
        /\ Len(u) = IF 1 <= k THEN k - 1 + 1 ELSE 0
        /\ \A i \in 1 .. (k - 1 + 1) : u[i] = t[1 + i - 1]
    BY <1>2, SubSeqProperties
  <2> HIDE DEF u
  <2> QED
    BY <2>1
<1> HIDE DEF u
<1>7. s = u
  <2>1. \A i \in 1 .. Len(s) : s[i] = u[i]
    BY <1>4, <1>6
  <2> QED
    BY <1>4, <1>6, <2>1, SeqEqual
<1> QED
  BY <1>1, <1>4, <1>5, <1>7 DEF IsPrefix, u

(* No file of the tape has more blocks than are remembered. *)
LEMMA BlocksFit ==
    ASSUME NEW tape \in Archives, Stripped(tape), NEW a \in DOMAIN archive
    PROVE  /\ a \in Nat /\ archive[a].size \in Nat /\ Blocks(archive[a].size) \in Nat
           /\ Blocks(archive[a].size) <= MaxPrinted
<1>1. a \in Nat /\ archive[a].size \in Nat
  BY ArchiveIs DEF Headers1
<1>2. archive[a].size <= MaxPrinted * TarBlock
  <2>1. PICK n \in Nat \ {0} : n = Len(tape)
    BY TapeIs
  <2>2. PICK i \in 1 .. n : a = Behind(tape)[i - 1]
    <3>1. DOMAIN archive = Starts(Behind(tape), n)
      BY <2>1, ArchiveIs
    <3> QED
      BY <3>1 DEF Starts
  <2>3. archive[a].size = tape[i].size
    BY <2>1, <2>2, ArchiveIs
  <2>4. i \in DOMAIN tape
    BY <2>1, TapeIs, LenProperties
  <2> QED
    BY <2>3, <2>4, FilesAssumption
<1>3. MaxPrinted \in Nat
  BY FilesAssumption
<1>4. MaxPrinted >= Blocks(archive[a].size) /\ Blocks(archive[a].size) \in Nat
  <2> DEFINE z == archive[a].size
  <2>1. z \in Nat /\ MaxPrinted * TarBlock >= z
    <3>1. PICK m \in Nat : m = MaxPrinted * TarBlock
      BY <1>3, RamdiskAssumption
    <3> DEFINE y == archive[a].size
    <3>2. y \in Nat /\ y <= m
      BY <1>1, <1>2, <3>1
    <3> HIDE DEF y
    <3>3. m >= y
      BY <3>2
    <3> QED
      BY <1>1, <3>1, <3>3 DEF y
  <2> HIDE DEF z
  <2>2. MaxPrinted >= Blocks(z) /\ Blocks(z) \in Nat
    BY <1>3, <2>1, BlocksIs
  <2> QED
    BY <2>2 DEF z
<1> QED
  BY <1>1, <1>3, <1>4

-----------------------------------------------------------------------------
(* The invariant *)

Typing ==
    /\ disk \in Disks
    /\ \E tape \in Archives : Stripped(tape)
    /\ _FileSystems["x"] = "RAMDISK"
    /\ \A d \in Letters : _FileSystems[d] = "FAT12" => d = "a"
    /\ command \in {"prompt", "cat", "dump"}
    /\ failures \in 0 .. MaxFailures /\ spoiled \in BOOLEAN
    /\ file \in Records /\ printed \in Seq(Nat) /\ added \subseteq {AtZero, OnTheStack}
    /\ path \in Path /\ path # <<>>
    /\ currPath \in Path /\ Last(currPath) = <<>> /\ Len(currPath) \in 2 .. MaxParts
    /\ Begins(currPath)

(* k blocks of the file with header a are printed, and the next is known.   *)
PrintedOfTape(a, k) ==
    /\ ~ archive[a].dir
    /\ file.position = a + TarBlock /\ file.length = archive[a].size
    /\ printed = [i \in 1 .. k |-> a + i * TarBlock]
    /\ k <= Blocks(archive[a].size)
    /\ command = "prompt" => k = Blocks(archive[a].size)
    /\ command = "cat" => /\ k < Blocks(archive[a].size)
                          /\ file.at = a + (k + 1) * TarBlock /\ file.eof = 0

(* k clusters of the chain s are. *)
PrintedOfChain(s, k) ==
    /\ printed = [i \in 1 .. k |-> DataStart - 2 + s[i]]
    /\ k <= Len(s)
    /\ command = "prompt" => k = Len(s)
    /\ command = "cat" => k < Len(s) /\ file.at = s[k + 1] /\ file.eof = 0

CatInv ==
    /\ command = "cat" \/ (command = "prompt" /\ printed # <<>>)
    /\ ~ spoiled /\ Covered(file.deviceID, path)
    => IF _FileSystems[file.deviceID] = "FAT12"
       THEN \E e \in FatEntries(<<path[2]>>) :
               /\ ~ e.dir /\ e.cluster \in Clusters
               /\ \E k \in Nat : PrintedOfChain(ClustersFrom(e.cluster), k)
       ELSE \E n \in 2 .. Len(path) : \E a \in TapeHeaders(SubSeq(path, 2, n)) :
            \E k \in Nat : PrintedOfTape(a, k)

DumpInv ==
    command = "dump" /\ ~ spoiled =>
        /\ sectornumbuf \in Seq(Nat) /\ printed = <<atoi(sectornumbuf)>>
        /\ atoi(sectornumbuf) \in 0 .. (DiskSectors - 1)

(* A read of a ramdisk file begins in the file or behind it, so that of one *)
(* shorter than a block none is followed by what lies on the stack.         *)
AddedInv ==
    /\ command = "cat" /\ _FileSystems[file.deviceID] # "FAT12" => file.position <= file.at
    /\ OnTheStack \in added /\ file.length < TarBlock => _FileSystems[file.deviceID] = "FAT12"

FilesInv == Typing /\ CurrentIsDirectory /\ CatInv /\ AddedInv /\ DumpInv

(* What is printed, when the invariant holds. *)
LEMMA InvPrints ==
    ASSUME FilesInv
    PROVE  PrintsTheFile
<1>1. Typing /\ CatInv /\ AddedInv /\ DumpInv
  BY DEF FilesInv
<1>2. PICK tape \in Archives : Stripped(tape)
  BY <1>1 DEF Typing
<1>3. disk \in Disks /\ path \in Path /\ command \in {"prompt", "cat", "dump"}
  BY <1>1 DEF Typing
<1>4. ASSUME command # "dump", printed # <<>>, ~ spoiled, Covered(file.deviceID, path)
      PROVE  \E n \in 2 .. Len(path) :
             \E content \in FilesAt(_FileSystems[file.deviceID], SubSeq(path, 2, n)) :
                /\ IsPrefix(printed, content)
                /\ command = "prompt" => printed = content
  <2>1. command = "cat" \/ (command = "prompt" /\ printed # <<>>)
    BY <1>3, <1>4
  <2>2. CASE _FileSystems[file.deviceID] = "FAT12"
    <3>1. Len(path) = 2
      BY <1>4, <2>2 DEF Covered
    <3>2. PICK e \in FatEntries(<<path[2]>>), k \in Nat :
             /\ ~ e.dir /\ e.cluster \in Clusters
             /\ PrintedOfChain(ClustersFrom(e.cluster), k)
      BY <1>1, <1>4, <2>1, <2>2 DEF CatInv
    <3> DEFINE s == ClustersFrom(e.cluster)
               content == [i \in DOMAIN s |-> DataStart - 2 + s[i]]
    <3>3. s \in Seq(Clusters)
      BY <1>3, <3>2, ClustersFromIs DEF Follows
    <3>4. printed = [i \in 1 .. k |-> DataStart - 2 + s[i]] /\ k <= Len(s)
          /\ (command = "prompt" => k = Len(s))
      BY <3>2 DEF PrintedOfChain
    <3>5. content \in FilesAt("FAT12", <<path[2]>>)
      BY <3>2 DEF FilesAt
    <3> HIDE DEF s
    <3>6. PICK n \in Nat : n = Len(s) /\ DOMAIN s = 1 .. n
      BY <3>3, LenProperties
    <3>7. content = [i \in 1 .. n |-> DataStart - 2 + s[i]]
      BY <3>6
    <3>8. content \in Seq(Int) /\ Len(content) = n
      <4>1. \A i \in 1 .. n : s[i] \in Int
        <5> TAKE i \in 1 .. n
        <5>1. s[i] \in Clusters
          BY <3>3, <3>6, ElementOfSeq
        <5>2. Written(disk)
          BY <1>3, DiskAssumption
        <5>3. s[i] \in Nat
          BY <5>1, <5>2, ClusterNumbers
        <5> QED
          BY <5>3
      <4>2. DataStart \in Int
        BY Fat12Assumption
      <4> QED
        BY <3>7, <4>1, <4>2
    <3>9. printed = [i \in 1 .. k |-> content[i]]
      BY <3>4, <3>6, <3>7
    <3> HIDE DEF content
    <3>10. IsPrefix(printed, content)
      BY <3>4, <3>6, <3>8, <3>9, PrefixIs
    <3>11. command = "prompt" => printed = content
      BY <3>4, <3>6, <3>7
    <3>12. SubSeq(path, 2, 2) = <<path[2]>> /\ 2 \in 2 .. Len(path)
      <4>1. Len(path) >= 2
        BY <3>1
      <4>2. SubSeq(path, 2, 2) = <<path[2]>>
        BY <1>3, <4>1, SecondIs
      <4>3. 2 \in 2 .. Len(path)
        BY <3>1
      <4> QED
        BY <4>2, <4>3
    <3> QED
      BY <2>2, <3>5, <3>10, <3>11, <3>12
  <2>3. CASE _FileSystems[file.deviceID] # "FAT12"
    <3>10. PICK n \in 2 .. Len(path) :
              \E a \in TapeHeaders(SubSeq(path, 2, n)) : \E k \in Nat : PrintedOfTape(a, k)
      BY <1>1, <1>4, <2>1, <2>3 DEF CatInv
    <3>11. PICK a \in TapeHeaders(SubSeq(path, 2, n)) : \E k \in Nat : PrintedOfTape(a, k)
      BY <3>10
    <3>1. PICK k \in Nat : PrintedOfTape(a, k)
      BY <3>11
    <3> DEFINE b == Blocks(archive[a].size)
               content == [i \in 1 .. b |-> a + i * TarBlock]
    <3>2. a \in DOMAIN archive
      BY DEF TapeHeaders
    <3>3. a \in Nat /\ b \in Nat
      BY <1>2, <3>2, BlocksFit
    <3>4. /\ ~ archive[a].dir /\ printed = [i \in 1 .. k |-> a + i * TarBlock]
          /\ k <= b /\ (command = "prompt" => k = b)
      BY <3>1 DEF PrintedOfTape
    <3>5. content \in FilesAt(_FileSystems[file.deviceID], SubSeq(path, 2, n))
      BY <2>3, <3>4 DEF FilesAt, Blocks
    <3> HIDE DEF b
    <3>6. content \in Seq(Int) /\ Len(content) = b
      <4>1. \A i \in 1 .. b : a + i * TarBlock \in Int
        BY <3>3, RamdiskAssumption
      <4> QED
        BY <3>3, <4>1
    <3>7. printed = [i \in 1 .. k |-> content[i]]
      BY <3>3, <3>4
    <3>8. command = "prompt" => printed = content
      BY <3>4
    <3> HIDE DEF content
    <3>9. IsPrefix(printed, content)
      BY <3>4, <3>6, <3>7, PrefixIs
    <3> QED
      BY <3>5, <3>8, <3>9
  <2> QED
    BY <2>2, <2>3
<1>5. ASSUME command = "dump", ~ spoiled, \A i \in DOMAIN sectornumbuf : isdigit(sectornumbuf[i])
      PROVE  printed = <<Decimal(sectornumbuf)>>
  <2>1. /\ sectornumbuf \in Seq(Nat) /\ printed = <<atoi(sectornumbuf)>>
        /\ atoi(sectornumbuf) \in 0 .. (DiskSectors - 1)
    BY <1>1, <1>5 DEF DumpInv
  <2>2. sectornumbuf \in Digits
    BY <1>5, <2>1 DEF Digits
  <2>3. Decimal(sectornumbuf) = atoi(sectornumbuf)
    BY <2>1, <2>2, FilesAssumption, AtoiIs
  <2> QED
    BY <2>1, <2>3
<1> QED
  BY <1>1, <1>4, <1>5 DEF PrintsTheFile, AddedInv

LEMMA CurrentDeviceType ==
    ASSUME Typing
    PROVE  CurrentDevice \in STRING /\ CurrentDevice \in Letters
<1>0. currPath \in Path /\ Len(currPath) >= 2 /\ Begins(currPath)
  BY DEF Typing
<1>1. 1 \in 1 .. Len(currPath)
  BY <1>0
<1>2. currPath[1] \in Seq(STRING)
  BY <1>0, <1>1, ElementOfSeq DEF Path
<1> DEFINE first == currPath[1]
           l == Len(first)
<1>3. l = 2 \/ l >= 3
  <2>1. CASE currPath[1] = <<"x", ":">>
    BY <2>1
  <2>2. CASE Len(currPath[1]) >= 3
    BY <2>2
  <2> QED
    BY <1>0, <2>1, <2>2 DEF Begins
<1>4. 1 \in 1 .. Len(first)
  <2>1. l \in Nat
    BY <1>2, LenProperties
  <2> HIDE DEF l
  <2>2. 1 \in 1 .. l
    BY <1>3, <2>1
  <2> QED
    BY <2>2 DEF l
<1>5. CurrentDevice \in Letters
  <2>1. CASE currPath[1] = <<"x", ":">>
    <3>1. first[1] = "x"
      BY <2>1
    <3> QED
      BY <3>1 DEF CurrentDevice, Letters
  <2>2. CASE currPath[1] # <<"x", ":">>
    BY <1>0, <2>2 DEF Begins, CurrentDevice
  <2> QED
    BY <2>1, <2>2
<1> QED
  BY <1>2, <1>4, <1>5, ElementOfSeq DEF CurrentDevice

(* The device that is opened has a letter. *)
LEMMA DeviceType ==
    ASSUME Typing, NEW p, Begins(p)
    PROVE  Device(p, CurrentDevice) \in Letters
<1>1. CASE Prefixed(p)
  <2>1. p[1] = <<"x", ":">>
    BY <1>1 DEF Begins
  <2>2. Device(p, CurrentDevice) = "x"
    BY <1>1, <2>1 DEF Device
  <2> QED
    BY <2>2 DEF Letters
<1>2. CASE ~ Prefixed(p)
  BY <1>2, CurrentDeviceType DEF Device
<1> QED
  BY <1>1, <1>2

LEMMA WholeRoot == disk.root \in RootReads
  BY DEF RootReads

LEMMA RootIsRead ==
    ASSUME NEW p, NEW root \in RootsRead(p)
    PROVE  root \in RootReads
  BY WholeRoot DEF RootsRead

(* What a cat of a path that is there finds. *)
LEMMA OpenFindsFile ==
    ASSUME Typing, NEW typed \in Typed, NEW p, p = FullPath(typed),
           NEW open \in volOpenFile(p, CurrentDevice, disk.root),
           Prefixed(p) \/ Len(p) = 2, Named(p, CurrentDevice) # {}
    PROVE  open.file.flags = FS_FILE
<1>1. PICK tape \in Archives : Stripped(tape)
  BY DEF Typing
<1>2. /\ disk \in Disks /\ currPath \in Path /\ Len(currPath) >= 2 /\ Begins(currPath)
      /\ _FileSystems["x"] = "RAMDISK"
  BY DEF Typing
<1>3. p \in Path /\ p # <<>> /\ Begins(p) /\ (Prefixed(p) => p[1] = currPath[1])
  BY <1>2, FullPathIs
<1>4. CurrentDevice \in STRING
  BY CurrentDeviceType
<1>5. Device(p, CurrentDevice) = CurrentDevice
  BY <1>3 DEF Device, CurrentDevice
<1> DEFINE d == CurrentDevice
<1>6. /\ _FileSystems[d] = "FAT12" /\ Len(p) = 2 =>
           open.file = [fsysFatDirectory(p[2], disk.root) EXCEPT !.deviceID = d]
      /\ _FileSystems[d] = "RAMDISK" => open.file.flags = fsysRdOpen(Unprefixed(p)).file.flags
  BY <1>1, <1>2, <1>3, <1>4, <1>5, WholeRoot, VolOpenIs
<1>7. _FileSystems[d] \in {"FAT12", "RAMDISK"} /\ Len(p) >= 2
      /\ FilesAt(_FileSystems[d], Tail(p)) # {}
  <2>1. Len(p) \in Nat
    BY <1>3, LenProperties DEF Path
  <2>2. _FileSystems[d] \in {"FAT12", "RAMDISK"} /\ ~ (Len(p) < 2)
        /\ FilesAt(_FileSystems[d], Tail(p)) # {}
    BY DEF Named
  <2> HIDE DEF d
  <2> QED
    BY <2>1, <2>2
<1>8. CASE _FileSystems[d] = "FAT12"
  <2>1. Len(p) = 2
    <3>1. CASE Prefixed(p)
      <4>1. currPath[1] = <<"x", ":">>
        BY <1>3, <3>1 DEF Begins
      <4>2. d = "x"
        BY <4>1 DEF CurrentDevice
      <4> QED
        BY <1>2, <1>8, <4>2
    <3> QED
      BY <3>1
  <2>2. Tail(p) = <<p[2]>>
    <3>1. Len(p) >= 2
      BY <2>1
    <3> QED
      BY <1>3, <2>1, <3>1, SecondIs
  <2>3. PICK e \in FatEntries(<<p[2]>>) : ~ e.dir
    BY <1>7, <1>8, <2>2 DEF FilesAt
  <2>12. PICK s \in DOMAIN disk.root : \E i \in DOMAIN disk.root[s] :
            e = disk.root[s][i] /\ e.name = ToDosFileName(p[2])
    BY FatEntriesIs
  <2>4. PICK i \in DOMAIN disk.root[s] :
            e = disk.root[s][i] /\ e.name = ToDosFileName(p[2])
    BY <2>12
  <2> DEFINE f == fsysFatDirectory(p[2], disk.root)
  <2>5. Written(disk)
    BY <1>2, DiskAssumption
  <2>6. /\ f \in Records
        /\ \/ /\ f = Invalid
              /\ \A t \in DOMAIN disk.root : \A j \in DOMAIN disk.root[t] :
                      disk.root[t][j].name # ToDosFileName(p[2])
           \/ \E t \in DOMAIN disk.root : \E j \in DOMAIN disk.root[t] :
                 /\ disk.root[t][j].name = ToDosFileName(p[2])
                 /\ f = Found(disk.root[t][j])
    BY <2>5, WholeRoot, DirectoryIs
  <2> HIDE DEF f
  <2>13. PICK t \in DOMAIN disk.root : \E j \in DOMAIN disk.root[t] :
            disk.root[t][j].name = ToDosFileName(p[2]) /\ f = Found(disk.root[t][j])
    BY <2>4, <2>6
  <2>7. PICK j \in DOMAIN disk.root[t] :
            disk.root[t][j].name = ToDosFileName(p[2]) /\ f = Found(disk.root[t][j])
    BY <2>13
  <2>8. t = s /\ j = i
    <3>1. disk.root[t][j].name = disk.root[s][i].name
      BY <2>4, <2>7
    <3> QED
      BY <2>5, <3>1 DEF Written, EntriesWritten
  <2>9. f = Found(e)
    BY <2>4, <2>7, <2>8
  <2>10. f.flags = FS_FILE
    BY <2>3, <2>9 DEF Found
  <2>11. open.file = [f EXCEPT !.deviceID = d]
    BY <1>6, <1>8, <2>1 DEF f
  <2> QED
    BY <1>4, <2>6, <2>10, <2>11, OnDevice
<1>9. CASE _FileSystems[d] = "RAMDISK"
  <2>1. PICK a \in TapeHeaders(Tail(p)) : ~ archive[a].dir
    BY <1>7, <1>9 DEF FilesAt
  <2> DEFINE q == Unprefixed(p)
  <2>2. q \in Path /\ Len(q) = Len(p) /\ Tail(q) = Tail(p) /\ (Prefixed(p) => q[1] = <<>>)
    BY <1>3, UnprefixedIs
  <2> HIDE DEF q
  <2>3. a \in DOMAIN archive /\ check_dir(archive[a].name) = Tail(q)
    BY <2>1, <2>2 DEF TapeHeaders
  <2>4. Len(q) > 1 /\ (q[1] = <<>> \/ Len(q) = 2)
    BY <1>7, <2>2
  <2>5. fsysRdOpen(q).file.flags = FS_FILE
    BY <1>1, <2>1, <2>2, <2>3, <2>4, RdFinds DEF Path
  <2> QED
    BY <1>6, <1>9, <2>5 DEF q
<1> QED
  BY <1>7, <1>8, <1>9

-----------------------------------------------------------------------------
(* A read *)

LEMMA GoesOnIs ==
    ASSUME NEW f \in Records, NEW next \in Nat, NEW g, g = GoesOn(f, next)
    PROVE  /\ g \in Records /\ g.deviceID = f.deviceID
           /\ g.position = f.position /\ g.length = f.length
           /\ next >= 4088 \/ next = 0 => g.eof = 1
           /\ ~ (next >= 4088 \/ next = 0) => g.at = next /\ g.eof = f.eof
<1>1. CASE next >= 4088 \/ next = 0
  <2>1. GoesOn(f, next) = [f EXCEPT !.eof = 1]
    BY <1>1 DEF GoesOn
  <2> QED
    BY <1>1, <2>1 DEF Records
<1>2. CASE ~ (next >= 4088 \/ next = 0)
  <2>1. GoesOn(f, next) = [f EXCEPT !.at = next]
    BY <1>2 DEF GoesOn
  <2> QED
    BY <1>2, <2>1 DEF Records
<1> QED
  BY <1>1, <1>2

LEMMA RdReadIs ==
    ASSUME NEW f \in Records
    PROVE  LET g == fsysRdRead(f).file
           IN  /\ fsysRdRead(f).block = f.at
               /\ g \in Records /\ g.deviceID = f.deviceID
               /\ g.position = f.position /\ g.length = f.length
               /\ IF f.at + TarBlock >= f.position + f.length THEN g.eof = 1
                  ELSE g.at = f.at + TarBlock /\ g.eof = f.eof
<1> DEFINE next == f.at + TarBlock
           end == next >= f.position + f.length
           g == fsysRdRead(f).file
<1>1. next \in Nat
  BY RamdiskAssumption DEF Records
<1>2. fsysRdRead(f).block = f.at
      /\ g = IF end THEN [f EXCEPT !.eof = 1] ELSE [f EXCEPT !.at = next]
  BY DEF fsysRdRead
<1> HIDE DEF next, end, g
<1>3. /\ g \in Records /\ g.deviceID = f.deviceID
      /\ g.position = f.position /\ g.length = f.length
      /\ IF end THEN g.eof = 1 ELSE g.at = next /\ g.eof = f.eof
  BY <1>1, <1>2 DEF Records
<1> QED
  BY <1>2, <1>3 DEF g, end, next

LEMMA ClosedIs ==
    ASSUME NEW f \in Records
    PROVE  LET g == volCloseFile(f)
           IN  /\ g \in Records /\ g.deviceID = f.deviceID
               /\ g.position = f.position /\ g.length = f.length
  BY DEF volCloseFile, Records

(* Whatever is read, a block has a number and the file stays a file. *)
LEMMA ReadType ==
    ASSUME Typing, NEW read, read = volReadFile(file) \/ read \in fsysFatReadFails(file)
    PROVE  /\ read.block \in Nat /\ read.file \in Records /\ read.added \subseteq {AtZero}
           /\ read.file.deviceID = file.deviceID
           /\ read.file.position = file.position /\ read.file.length = file.length
<1>1. file \in Records /\ file.at \in Nat
  BY DEF Typing, Records
<1>2. Written(disk)
  BY DiskAssumption DEF Typing
<1>3. PhysSector(file.at) \in Nat
  <2>1. DataStart \in Nat /\ DataStart >= 2
    BY Fat12Assumption
  <2> QED
    BY <1>1, <2>1 DEF PhysSector
<1>4. CASE read = volReadFile(file)
  <2>1. CASE _FileSystems[file.deviceID] = "FAT12"
    <3>1. read = [block |-> PhysSector(file.at), added |-> {},
                  file |-> GoesOn(file, NextCluster(file.at))]
      BY <1>4, <2>1 DEF volReadFile, fsysFatRead
    <3>2. NextCluster(file.at) \in Nat
      BY <1>1, <1>2, NextClusterType
    <3> DEFINE g == read.file
    <3>3. read.block = PhysSector(file.at) /\ g = GoesOn(file, NextCluster(file.at))
          /\ read.added = {}
      BY <3>1
    <3> HIDE DEF g
    <3>4. /\ g \in Records /\ g.deviceID = file.deviceID
          /\ g.position = file.position /\ g.length = file.length
      BY <1>1, <3>2, <3>3, GoesOnIs
    <3> QED
      BY <1>3, <3>3, <3>4 DEF g
  <2>2. CASE _FileSystems[file.deviceID] # "FAT12"
    <3>1. read = fsysRdRead(file)
      BY <1>4, <2>2 DEF volReadFile
    <3>2. read.added = {AtZero}
      BY <3>1 DEF fsysRdRead
    <3> QED
      BY <1>1, <3>1, <3>2, RdReadIs
  <2> QED
    BY <2>1, <2>2
<1>5. CASE read \in fsysFatReadFails(file)
  <2>1. PICK block \in {PhysSector(file.at), Unread}, next \in Clusters \cup {0, 4088, Elsewhere} :
           read = [block |-> block, added |-> {}, file |-> GoesOn(file, next)]
    BY <1>5 DEF fsysFatReadFails
  <2>2. next \in Nat
    BY <1>2, ClustersType DEF Elsewhere
  <2> DEFINE g == read.file
  <2>3. read.block \in Nat /\ read.added = {} /\ g = GoesOn(file, next)
    BY <1>3, <2>1 DEF Unread
  <2> HIDE DEF g
  <2>4. /\ g \in Records /\ g.deviceID = file.deviceID
        /\ g.position = file.position /\ g.length = file.length
    BY <1>1, <2>2, <2>3, GoesOnIs
  <2> QED
    BY <2>3, <2>4 DEF g
<1> QED
  BY <1>4, <1>5

(* One more of the elements of a function. *)
LEMMA OneMore ==
    ASSUME NEW k \in Nat, NEW t, \A i \in 1 .. (k + 1) : t[i] \in Int
    PROVE  /\ [i \in 1 .. k |-> t[i]] \in Seq(Int) /\ Len([i \in 1 .. k |-> t[i]]) = k
           /\ Append([i \in 1 .. k |-> t[i]], t[k + 1]) = [i \in 1 .. (k + 1) |-> t[i]]
<1> DEFINE s == [i \in 1 .. k |-> t[i]]
           u == [i \in 1 .. (k + 1) |-> t[i]]
           x == t[k + 1]
           w == Append(s, x)
<1>1. s \in Seq(Int) /\ Len(s) = k /\ \A i \in 1 .. k : s[i] = t[i]
  OBVIOUS
<1>2. u \in Seq(Int) /\ Len(u) = k + 1 /\ \A i \in 1 .. (k + 1) : u[i] = t[i]
  OBVIOUS
<1>3. x \in Int
  OBVIOUS
<1> HIDE DEF s, u
<1>4. /\ w \in Seq(Int) /\ Len(w) = k + 1
      /\ \A i \in 1 .. k : w[i] = t[i]
      /\ w[k + 1] = x
  <2> HIDE DEF x
  <2> QED
    BY <1>1, <1>3, AppendProperties
<1> HIDE DEF w
<1>5. \A i \in 1 .. Len(w) : w[i] = u[i]
  <2> TAKE i \in 1 .. Len(w)
  <2>1. i \in 1 .. (k + 1)
    BY <1>4
  <2>2. i \in 1 .. k \/ i = k + 1
    BY <2>1
  <2> QED
    BY <1>2, <1>4, <2>1, <2>2
<1>6. w = u
  BY <1>2, <1>4, <1>5, SeqEqual
<1> QED
  BY <1>1, <1>6 DEF s, u, w

(* One more cluster of the file. *)
LEMMA ChainStep ==
    ASSUME Typing, command = "cat", NEW c \in Clusters, NEW s, s = ClustersFrom(c),
           NEW k \in Nat, PrintedOfChain(s, k),
           NEW read, read = fsysFatRead(file), Prints(read)
    PROVE  PrintedOfChain(s, k + 1)'
<1>1. disk \in Disks /\ Written(disk) /\ file \in Records
  BY DiskAssumption DEF Typing
<1>2. PICK n \in Nat : n = Len(s) /\ DOMAIN s = 1 .. n
  <2>1. s \in Seq(Clusters)
    BY <1>1, ClustersFromIs DEF Follows
  <2> QED
    BY <2>1, LenProperties
<1>3. Follows(s, c) /\ n <= MaxPrinted
  BY <1>1, <1>2, ClustersFromIs
<1>4. printed = [i \in 1 .. k |-> DataStart - 2 + s[i]] /\ k < n
      /\ file.at = s[k + 1] /\ file.eof = 0
  BY <1>2 DEF PrintedOfChain
<1>5. \A i \in 1 .. n : s[i] \in Clusters /\ s[i] \in Nat
  <2>1. \A i \in 1 .. n : s[i] \in Clusters
    BY <1>2, <1>3, ElementOfSeq DEF Follows
  <2> QED
    BY <1>1, <2>1, ClustersType
<1>6. k + 1 \in 1 .. n /\ k + 1 \in Nat
  BY <1>4
<1> DEFINE a == s[k + 1]
           next == disk.next[a]
<1>7. a \in Clusters /\ a \in Nat
  BY <1>5, <1>6
<1>8. read.block = DataStart - 2 + a /\ read.file = GoesOn(file, next)
  <2>1. NextCluster(a) = next
    BY <1>1, <1>7, NextClusterIs
  <2>2. read = [block |-> PhysSector(a), added |-> {}, file |-> GoesOn(file, next)]
    BY <1>4, <2>1 DEF fsysFatRead
  <2>3. PhysSector(a) = DataStart - 2 + a
    BY <1>7, Fat12Assumption DEF PhysSector
  <2> QED
    BY <2>2, <2>3
<1>9. next \in Nat /\ (next \in Clusters => 1 < next /\ next < 4088)
      /\ (next \notin Clusters => next = 0 \/ 4088 <= next)
  BY <1>1, <1>7, ClustersType
<1>10. IF k + 1 = n THEN next \notin Clusters ELSE s[(k + 1) + 1] = next
  BY <1>2, <1>3, <1>6 DEF Follows
<1>11. k + 1 # n => next \in Clusters /\ s[(k + 1) + 1] = next
  <2> SUFFICES ASSUME k + 1 # n PROVE next \in Clusters /\ s[(k + 1) + 1] = next
    OBVIOUS
  <2>1. (k + 1) + 1 \in 1 .. n
    BY <1>6
  <2> QED
    BY <1>5, <1>10, <2>1
<1>12. printed' = [i \in 1 .. (k + 1) |-> DataStart - 2 + s[i]]
  <2> DEFINE t == [i \in 1 .. n |-> DataStart - 2 + s[i]]
  <2>1. \A i \in 1 .. (k + 1) : i \in 1 .. n
    BY <1>6
  <2>2. \A i \in 1 .. (k + 1) : t[i] = DataStart - 2 + s[i] /\ t[i] \in Int
    BY <1>5, <2>1, Fat12Assumption
  <2>3. printed = [i \in 1 .. k |-> t[i]]
    BY <1>4, <2>2
  <2>4. read.block = t[k + 1]
    BY <1>6, <1>8, <2>2
  <2> HIDE DEF t, a, next
  <2>5. Len(printed) = k /\ Append(printed, t[k + 1]) = [i \in 1 .. (k + 1) |-> t[i]]
    BY <2>2, <2>3, OneMore
  <2>6. Len(printed) # MaxPrinted
    <3>1. MaxPrinted \in Nat
      BY FilesAssumption
    <3> QED
      BY <1>3, <1>4, <2>5, <3>1
  <2>7. printed' = Append(printed, read.block)
    BY <2>6 DEF Prints
  <2> QED
    BY <2>2, <2>4, <2>5, <2>7
<1> HIDE DEF next, a
<1>13. CASE k + 1 = n
  <2>1. read.file.eof = 1
    <3>1. next = 0 \/ next >= 4088
      BY <1>9, <1>10, <1>13
    <3>2. read.file = [file EXCEPT !.eof = 1]
      BY <1>8, <3>1 DEF GoesOn
    <3> QED
      BY <1>1, <3>2 DEF Records
  <2>2. command' = "prompt"
    BY <2>1 DEF Prints
  <2> QED
    BY <1>2, <1>12, <1>13, <2>2 DEF PrintedOfChain
<1>14. CASE k + 1 # n
  <2>1. ~ (next >= 4088 \/ next = 0)
    BY <1>9, <1>11, <1>14
  <2>2. read.file.at = next /\ read.file.eof = 0
    <3>1. read.file = [file EXCEPT !.at = next]
      BY <1>8, <2>1 DEF GoesOn
    <3> QED
      BY <1>1, <1>4, <3>1 DEF Records
  <2>3. command' = "cat" /\ file' = read.file
    BY <2>2 DEF Prints
  <2>4. k + 1 < n
    BY <1>6, <1>14
  <2> QED
    BY <1>2, <1>11, <1>12, <1>14, <2>2, <2>3, <2>4 DEF PrintedOfChain
<1> QED
  BY <1>13, <1>14

(* One more block of the file. *)
LEMMA TapeStep ==
    ASSUME Typing, NEW tape \in Archives, Stripped(tape), command = "cat",
           NEW a \in DOMAIN archive, NEW k \in Nat, PrintedOfTape(a, k),
           NEW read, read = fsysRdRead(file), Prints(read)
    PROVE  PrintedOfTape(a, k + 1)'
<1> DEFINE z == archive[a].size
           b == Blocks(z)
           f == read.file
<1>1. a \in Nat /\ z \in Nat /\ b \in Nat /\ b <= MaxPrinted
  BY BlocksFit
<1>2. /\ ~ archive[a].dir /\ file.position = a + TarBlock /\ file.length = z
      /\ printed = [i \in 1 .. k |-> a + i * TarBlock]
      /\ k < b /\ file.at = a + (k + 1) * TarBlock /\ file.eof = 0
  BY DEF PrintedOfTape
<1>3. file \in Records /\ TarBlock \in Nat
  BY RamdiskAssumption DEF Typing
<1>4. /\ read.block = file.at /\ f \in Records
      /\ f.position = file.position /\ f.length = file.length
      /\ IF file.at + TarBlock >= file.position + file.length THEN f.eof = 1
         ELSE f.at = file.at + TarBlock /\ f.eof = file.eof
  BY <1>3, RdReadIs
<1>5. PICK m \in Nat : m = (k + 1) * TarBlock
  BY <1>3
<1>6. m + TarBlock = ((k + 1) + 1) * TarBlock
  BY <1>3, <1>5
<1>7. m >= z <=> k + 1 >= b
  <2> HIDE DEF z
  <2>1. k + 1 \in Nat
    OBVIOUS
  <2> QED
    BY <1>1, <1>5, <2>1, BlocksIs
<1> HIDE DEF b, z
<1>8. file.at + TarBlock >= file.position + file.length <=> k + 1 >= b
  BY <1>1, <1>2, <1>3, <1>5, <1>7
<1>9. printed' = [i \in 1 .. (k + 1) |-> a + i * TarBlock]
  <2> DEFINE t == [i \in 1 .. (k + 1) |-> a + i * TarBlock]
  <2>1. \A i \in 1 .. (k + 1) : t[i] \in Int
    BY <1>1, <1>3
  <2>2. printed = [i \in 1 .. k |-> t[i]] /\ read.block = t[k + 1]
    BY <1>2, <1>4
  <2>3. t = [i \in 1 .. (k + 1) |-> t[i]]
    OBVIOUS
  <2> HIDE DEF t
  <2>4. Len(printed) = k /\ Append(printed, t[k + 1]) = t
    BY <2>1, <2>2, <2>3, OneMore
  <2>5. Len(printed) # MaxPrinted
    <3>1. MaxPrinted \in Nat
      BY FilesAssumption
    <3> QED
      BY <1>1, <1>2, <2>4, <3>1
  <2>6. printed' = Append(printed, read.block)
    BY <2>5 DEF Prints
  <2> QED
    BY <2>2, <2>4, <2>6 DEF t
<1>10. archive'[a] = archive[a] /\ Blocks(archive'[a].size) = b
  <2>1. archive' = archive
    BY DEF Prints
  <2> QED
    BY <2>1 DEF b, z
<1> HIDE DEF f
<1>11. CASE k + 1 >= b
  <2>1. f.eof = 1
    BY <1>4, <1>8, <1>11
  <2>2. command' = "prompt" /\ file' = volCloseFile(f)
    BY <2>1 DEF Prints, f
  <2>3. file'.position = f.position /\ file'.length = f.length
    BY <1>4, <2>2, ClosedIs
  <2>4. k + 1 = b
    BY <1>1, <1>2, <1>11
  <2> QED
    BY <1>2, <1>4, <1>9, <1>10, <2>2, <2>3, <2>4 DEF PrintedOfTape, z
<1>12. CASE ~ (k + 1 >= b)
  <2>1. f.at = file.at + TarBlock /\ f.eof = 0
    BY <1>2, <1>4, <1>8, <1>12
  <2>2. command' = "cat" /\ file' = f
    BY <2>1 DEF Prints, f
  <2>3. f.at = a + ((k + 1) + 1) * TarBlock
    BY <1>1, <1>2, <1>3, <1>5, <1>6, <2>1
  <2>4. k + 1 < b
    BY <1>1, <1>12
  <2> QED
    <3>1. /\ ~ archive'[a].dir /\ archive'[a].size = z
      BY <1>2, <1>10 DEF z
    <3>2. /\ file'.position = a + TarBlock /\ file'.length = z
          /\ file'.at = a + ((k + 1) + 1) * TarBlock /\ file'.eof = 0
      BY <1>2, <1>4, <2>1, <2>2, <2>3
    <3>3. Blocks(archive'[a].size) = b /\ k + 1 < b /\ k + 1 <= b /\ command' # "prompt"
      BY <1>1, <1>10, <2>2, <2>4
    <3> QED
      BY <1>9, <3>1, <3>2, <3>3 DEF PrintedOfTape
<1> QED
  BY <1>11, <1>12

-----------------------------------------------------------------------------
(* The steps *)

LEMMA DiskKept ==
    ASSUME disk' = disk
    PROVE  /\ Clusters' = Clusters
           /\ \A c : ClustersFrom(c)' = ClustersFrom(c)
           /\ \A x : FatEntries(<<x>>)' = FatEntries(<<x>>)
<1>1. Clusters' = Clusters
  BY DEF Clusters
<1>2. \A c : ClustersFrom(c)' = ClustersFrom(c)
  BY DEF ClustersFrom, Clusters
<1>3. \A x : FatEntries(<<x>>)' = FatEntries(<<x>>)
  BY DEF FatEntries, ClustersFrom, Clusters, EntriesIn
<1> QED
  BY <1>1, <1>2, <1>3

(* The current path still names a directory when slashes are stripped. *)
LEMMA CurrentKept ==
    ASSUME CurrentIsDirectory, UNCHANGED <<disk, _FileSystems, currPath>>,
           NEW tape \in Archives, Stripped(tape), Touched(archive')
    PROVE  CurrentIsDirectory'
<1>1. ASSUME NEW names, IsDirectory(names) PROVE IsDirectory(names)'
  <2>1. PICK a \in TapeHeaders(names) : archive[a].dir
    BY <1>1 DEF IsDirectory
  <2>2. a \in DOMAIN archive
    BY DEF TapeHeaders
  <2>3. TapeHeaders(names)' = TapeHeaders(names) /\ archive'[a].dir = archive[a].dir
    BY <2>2, TouchedKeeps
  <2> QED
    BY <2>1, <2>3 DEF IsDirectory
<1>2. DosDirectories' = DosDirectories /\ Prefixed(currPath)' = Prefixed(currPath)
  BY DEF DosDirectories, Prefixed
<1> DEFINE names == Front(Tail(currPath))
<1>3. names' = names
  OBVIOUS
<1>4. names = <<>> \/ IsDirectory(names)
      \/ (~ Prefixed(currPath) /\ _FileSystems["a"] = "FAT12"
            /\ ToDosFileName(Last(names)) \in DosDirectories)
  BY DEF CurrentIsDirectory
<1>5. ToDosFileName(Last(names))' = ToDosFileName(Last(names))
  BY <1>3
<1> HIDE DEF names
<1>6. names' = <<>> \/ IsDirectory(names)'
      \/ (~ Prefixed(currPath)' /\ _FileSystems'["a"] = "FAT12"
            /\ ToDosFileName(Last(names))' \in DosDirectories')
  BY <1>1, <1>2, <1>3, <1>4, <1>5
<1> QED
  BY <1>6 DEF CurrentIsDirectory, names

LEMMA TouchedSelf ==
    ASSUME NEW tape \in Archives, Stripped(tape), archive' = archive
    PROVE  Touched(archive')
  BY DEF Touched, Stripped

(* What every read keeps. *)
LEMMA PrintsType ==
    ASSUME FilesInv, NEW read, Prints(read),
           \/ read = volReadFile(file)
           \/ read \in fsysFatReadFails(file) /\ _FileSystems[file.deviceID] = "FAT12",
           failures' \in 0 .. MaxFailures, spoiled' \in BOOLEAN
    PROVE  Typing' /\ CurrentIsDirectory' /\ DumpInv' /\ AddedInv'
<1>1. Typing /\ CurrentIsDirectory /\ AddedInv
  BY DEF FilesInv
<1>2. /\ read.block \in Nat /\ read.file \in Records /\ read.added \subseteq {AtZero}
      /\ read.file.deviceID = file.deviceID
      /\ read.file.position = file.position /\ read.file.length = file.length
  BY <1>1, ReadType
<1>3. /\ UNCHANGED <<disk, archive, _FileSystems, currPath, path, sectornumbuf>>
      /\ command' \in {"prompt", "cat"}
      /\ file' \in {read.file, volCloseFile(read.file)}
      /\ printed' \in {printed, Append(printed, read.block)}
  BY DEF Prints
<1>12. PICK behind \in BehindTheBlock : added' = added \cup read.added \cup behind
  BY DEF Prints
<1>13. behind \in {{}, {OnTheStack}}
  BY DEF BehindTheBlock
<1>14. added' \subseteq {AtZero, OnTheStack}
  BY <1>1, <1>2, <1>12, <1>13 DEF Typing
<1>4. file' \in Records
  BY <1>2, <1>3, ClosedIs
<1>5. printed' \in Seq(Nat)
  <2>1. printed \in Seq(Nat)
    BY <1>1 DEF Typing
  <2> QED
    BY <1>2, <1>3, <2>1, AppendProperties
<1>6. PICK tape \in Archives : Stripped(tape)
  BY <1>1 DEF Typing
<1>7. Touched(archive')
  BY <1>3, <1>6, TouchedSelf
<1>8. \E t \in Archives : Stripped(t)'
  BY <1>6, <1>7, TouchedKeeps
<1>9. Typing'
  BY <1>1, <1>3, <1>4, <1>5, <1>8, <1>14 DEF Typing, Begins, Prefixed
<1>10. CurrentIsDirectory'
  BY <1>1, <1>3, <1>6, <1>7, CurrentKept
<1>11. DumpInv'
  BY <1>3 DEF DumpInv
<1>15. file'.deviceID = file.deviceID /\ file'.length = file.length
       /\ file'.position = file.position
  BY <1>2, <1>3, ClosedIs
<1>16. /\ file.at \in Nat /\ file.position \in Nat /\ file.length \in Nat
       /\ TarBlock \in Nat \ {0}
  BY <1>1, RamdiskAssumption DEF Typing, Records
<1>17. command = "cat"
  BY DEF Prints
<1>18. ASSUME _FileSystems[file.deviceID] # "FAT12"
       PROVE  /\ command' = "cat" => file'.position <= file'.at
              /\ ~ (OnTheStack \in added' /\ file.length < TarBlock)
  <2>1. file.position <= file.at
    BY <1>1, <1>17, <1>18 DEF AddedInv
  <2>2. read = fsysRdRead(file)
    <3>1. read \notin fsysFatReadFails(file) \/ read = volReadFile(file)
      BY <1>18
    <3> QED
      BY <1>18, <3>1 DEF volReadFile
  <2>3. ASSUME command' = "cat" PROVE file'.position <= file'.at
    <3>1. file' = read.file /\ read.file.eof # 1
      BY <2>3 DEF Prints
    <3>2. file \in Records
      BY <1>1 DEF Typing
    <3>3. read.file.at = file.at + TarBlock
      BY <2>2, <3>1, <3>2, RdReadIs
    <3> QED
      BY <1>15, <1>16, <2>1, <3>1, <3>3
  <2>4. ASSUME file.length < TarBlock PROVE OnTheStack \notin added'
    <3>1. file.at + TarBlock > file.position + file.length
      BY <1>16, <2>1, <2>4
    <3>2. behind = {}
      BY <1>12, <1>18, <3>1 DEF BehindTheBlock
    <3>3. OnTheStack \notin added
      BY <1>1, <1>18, <2>4 DEF AddedInv
    <3>4. OnTheStack # AtZero
      BY DEF OnTheStack, AtZero
    <3> QED
      BY <1>2, <1>12, <3>2, <3>3, <3>4
  <2> QED
    BY <2>3, <2>4
<1>19. AddedInv'
  BY <1>3, <1>15, <1>18 DEF AddedInv
<1> QED
  BY <1>9, <1>10, <1>11, <1>19

LEMMA ReadOnKeeps ==
    ASSUME FilesInv, ReadOn
    PROVE  FilesInv'
<1> DEFINE read == volReadFile(file)
<1>1. Typing /\ CatInv
  BY DEF FilesInv
<1>2. Prints(read) /\ UNCHANGED <<failures, spoiled>>
  BY DEF ReadOn
<1>3. Typing' /\ CurrentIsDirectory' /\ DumpInv' /\ AddedInv'
  BY <1>1, <1>2, PrintsType DEF Typing
<1>4. /\ read.file \in Records /\ read.file.deviceID = file.deviceID
      /\ read.file.length = file.length
  BY <1>1, ReadType
<1>5. /\ UNCHANGED <<disk, archive, _FileSystems, path>>
      /\ command = "cat"
      /\ file' \in {read.file, volCloseFile(read.file)}
  BY <1>2 DEF Prints
<1>6. file'.deviceID = file.deviceID /\ file'.length = file.length
  BY <1>4, <1>5, ClosedIs
<1>7. PICK tape \in Archives : Stripped(tape)
  BY <1>1 DEF Typing
<1>8. CASE spoiled \/ ~ Covered(file.deviceID, path)
  <2>1. spoiled' \/ ~ Covered(file.deviceID, path)'
    BY <1>2, <1>5, <1>6, <1>8 DEF Covered
  <2> QED
    BY <1>3, <2>1 DEF CatInv, FilesInv
<1>9. CASE ~ spoiled /\ Covered(file.deviceID, path) /\ _FileSystems[file.deviceID] = "FAT12"
  <2>1. PICK e \in FatEntries(<<path[2]>>), k \in Nat :
           /\ ~ e.dir /\ e.cluster \in Clusters
           /\ PrintedOfChain(ClustersFrom(e.cluster), k)
    BY <1>1, <1>5, <1>9 DEF CatInv
  <2>2. read = fsysFatRead(file)
    BY <1>9 DEF volReadFile
  <2>3. PICK s : s = ClustersFrom(e.cluster)
    OBVIOUS
  <2> HIDE DEF read
  <2>4. PrintedOfChain(s, k + 1)'
    BY <1>1, <1>2, <1>5, <2>1, <2>2, <2>3, ChainStep
  <2>5. /\ e \in FatEntries(<<path[2]>>)' /\ e.cluster \in Clusters'
        /\ ClustersFrom(e.cluster)' = s
    BY <1>5, <2>1, <2>3, DiskKept
  <2>6. PrintedOfChain(ClustersFrom(e.cluster), k + 1)' /\ k + 1 \in Nat
    BY <2>4, <2>5 DEF PrintedOfChain
  <2>7. _FileSystems'[file'.deviceID] = "FAT12"
    BY <1>5, <1>6, <1>9
  <2>8. CatInv'
    BY <2>1, <2>5, <2>6, <2>7 DEF CatInv
  <2> QED
    BY <1>3, <2>8 DEF FilesInv
<1>10. CASE ~ spoiled /\ Covered(file.deviceID, path) /\ _FileSystems[file.deviceID] # "FAT12"
  <2>1. PICK n \in 2 .. Len(path) :
           \E a \in TapeHeaders(SubSeq(path, 2, n)) : \E k \in Nat : PrintedOfTape(a, k)
    BY <1>1, <1>5, <1>10 DEF CatInv
  <2>2. PICK a \in TapeHeaders(SubSeq(path, 2, n)) : \E k \in Nat : PrintedOfTape(a, k)
    BY <2>1
  <2>3. PICK k \in Nat : PrintedOfTape(a, k)
    BY <2>2
  <2>4. read = fsysRdRead(file)
    BY <1>10 DEF volReadFile
  <2>5. a \in DOMAIN archive
    BY DEF TapeHeaders
  <2> HIDE DEF read
  <2>6. PrintedOfTape(a, k + 1)' /\ k + 1 \in Nat
    BY <1>1, <1>2, <1>5, <1>7, <2>3, <2>4, <2>5, TapeStep
  <2>7. a \in TapeHeaders(SubSeq(path, 2, n))' /\ n \in 2 .. Len(path')
    BY <1>5, <2>2 DEF TapeHeaders
  <2>8. _FileSystems'[file'.deviceID] # "FAT12"
    BY <1>5, <1>6, <1>10
  <2>9. CatInv'
    BY <2>6, <2>7, <2>8 DEF CatInv
  <2> QED
    BY <1>3, <2>9 DEF FilesInv
<1> QED
  BY <1>8, <1>9, <1>10

LEMMA ReadFailsKeeps ==
    ASSUME FilesInv, ReadFails
    PROVE  FilesInv'
<1>1. PICK read \in fsysFatReadFails(file) : Prints(read)
  BY DEF ReadFails
<1>6. _FileSystems[file.deviceID] = "FAT12"
  BY DEF ReadFails
<1>2. failures \in 0 .. MaxFailures /\ failures > 0
  BY DEF FilesInv, Typing, ReadFails
<1>3. failures' \in 0 .. MaxFailures /\ spoiled' = TRUE
  BY <1>2, FilesAssumption DEF ReadFails
<1>4. Typing' /\ CurrentIsDirectory' /\ DumpInv' /\ AddedInv'
  BY <1>1, <1>3, <1>6, PrintsType
<1>5. CatInv'
  BY <1>3 DEF CatInv
<1> QED
  BY <1>4, <1>5 DEF FilesInv

LEMMA CountedIs ==
    ASSUME Typing, NEW p, NEW root \in RootsRead(p), Counted(root)
    PROVE  /\ failures' \in 0 .. MaxFailures
           /\ failures' = failures => root = disk.root
<1>1. failures \in 0 .. MaxFailures
  BY DEF Typing
<1>2. CASE root = disk.root
  BY <1>1, <1>2 DEF Counted
<1>3. CASE root # disk.root
  <2>1. failures # 0
    BY <1>3 DEF RootsRead
  <2>2. failures' = failures - 1
    BY <1>3 DEF Counted
  <2> QED
    BY <1>1, <2>1, <2>2, FilesAssumption
<1> QED
  BY <1>2, <1>3

LEMMA ReadFileKeeps ==
    ASSUME FilesInv, cmd_read_file
    PROVE  FilesInv'
<1>1. Typing /\ CurrentIsDirectory
  BY DEF FilesInv
<1>2. PICK tape \in Archives : Stripped(tape)
  BY <1>1 DEF Typing
<1>3. PICK typed \in Typed : \E root \in RootsRead(FullPath(typed)) :
        \E open \in volOpenFile(FullPath(typed), CurrentDevice, root) :
           /\ Counted(root) /\ spoiled' = (failures' # failures)
           /\ path' = FullPath(typed) /\ archive' = open.archive /\ file' = open.file
           /\ command' = IF open.file.flags = FS_FILE THEN "cat" ELSE "prompt"
  BY DEF cmd_read_file
<1>19. PICK p : p = FullPath(typed)
  OBVIOUS
<1>20. PICK d : d = Device(p, CurrentDevice)
  OBVIOUS
<1>4. PICK root \in RootsRead(p) :
        \E open \in volOpenFile(p, CurrentDevice, root) :
           /\ Counted(root) /\ spoiled' = (failures' # failures)
           /\ path' = p /\ archive' = open.archive /\ file' = open.file
           /\ command' = IF open.file.flags = FS_FILE THEN "cat" ELSE "prompt"
  BY <1>3, <1>19
<1>5. PICK open \in volOpenFile(p, CurrentDevice, root) :
           /\ Counted(root) /\ spoiled' = (failures' # failures)
           /\ path' = p /\ archive' = open.archive /\ file' = open.file
           /\ command' = IF open.file.flags = FS_FILE THEN "cat" ELSE "prompt"
  BY <1>4
<1>6. /\ printed' = <<>> /\ added' = {}
      /\ UNCHANGED <<disk, _FileSystems, currPath, sectornumbuf>>
  BY DEF cmd_read_file
<1>21. root \in RootReads
  BY RootIsRead
<1>7. /\ disk \in Disks /\ currPath \in Path /\ Len(currPath) >= 2 /\ Begins(currPath)
  BY <1>1 DEF Typing
<1>8. p \in Path /\ p # <<>> /\ Begins(p)
  BY <1>7, <1>19, FullPathIs
<1>9. CurrentDevice \in STRING
  BY <1>1, CurrentDeviceType
<1>10. /\ open.file \in Records /\ Touched(open.archive)
       /\ open.file.flags # FS_INVALID => open.file.deviceID = d
       /\ _FileSystems[d] = "FAT12" /\ Len(p) = 2 =>
            open.file = [fsysFatDirectory(p[2], root) EXCEPT !.deviceID = d]
       /\ _FileSystems[d] # "FAT12" /\ open.file.flags # FS_INVALID =>
            \E n \in 2 .. Len(p) : \E a \in TapeHeaders(SubSeq(p, 2, n)) :
               /\ open.file = [FileOf(a) EXCEPT !.deviceID = d]
               /\ archive[a].dir => n = Len(p)
  BY <1>2, <1>7, <1>8, <1>9, <1>20, <1>21, VolOpenIs
<1>11. Touched(archive')
  BY <1>5, <1>10
<1>12. \E t \in Archives : Stripped(t)'
  BY <1>2, <1>11, TouchedKeeps
<1>13. failures' \in 0 .. MaxFailures
  BY <1>1, <1>5, CountedIs
<1>14. Typing'
  <2>1. /\ printed' \in Seq(Nat) /\ command' \in {"prompt", "cat", "dump"} /\ spoiled' \in BOOLEAN
        /\ added' \subseteq {AtZero, OnTheStack}
    BY <1>5, <1>6
  <2> QED
    BY <1>1, <1>5, <1>6, <1>8, <1>10, <1>12, <1>13, <2>1 DEF Typing, Begins, Prefixed
<1>15. CurrentIsDirectory'
  BY <1>1, <1>2, <1>6, <1>11, CurrentKept
<1>16. DumpInv'
  BY <1>5 DEF DumpInv
<1>17. ASSUME command' = "cat", Covered(file.deviceID, path)', ~ spoiled'
       PROVE  CatInv'
  <2>1. open.file.flags = FS_FILE /\ open.file.flags # FS_INVALID
    BY <1>5, <1>17 DEF FS_FILE, FS_INVALID
  <2>2. file'.deviceID = d /\ file'.length > 0 /\ file' = open.file /\ path' = p
        /\ (_FileSystems[d] = "FAT12" => Len(p) = 2)
    BY <1>5, <1>6, <1>10, <1>17, <2>1 DEF Covered
  <2>3. CASE _FileSystems[d] = "FAT12"
    <3> DEFINE f == fsysFatDirectory(p[2], root)
    <3>1. Len(p) = 2 /\ file' = [f EXCEPT !.deviceID = d]
      BY <1>10, <2>2, <2>3
    <3>2. Written(disk)
      BY <1>7, DiskAssumption
    <3>21. root = disk.root
      BY <1>1, <1>5, <1>17, CountedIs
    <3>3. /\ f \in Records
          /\ \/ f = Invalid
             \/ \E s \in DOMAIN disk.root : \E i \in DOMAIN disk.root[s] :
                   disk.root[s][i].name = ToDosFileName(p[2]) /\ f = Found(disk.root[s][i])
      BY <1>21, <3>2, <3>21, DirectoryIs
    <3> HIDE DEF f
    <3>4. d \in STRING
      <4>1. file' \in Records
        BY <1>10, <2>2
      <4> QED
        BY <2>2, <4>1 DEF Records
    <3>5. f.flags = FS_FILE /\ f.length > 0 /\ file'.at = f.at /\ file'.eof = f.eof
      BY <2>1, <2>2, <3>1, <3>3, <3>4, OnDevice
    <3>6. f # Invalid
      BY <3>5 DEF Invalid, FS_FILE, FS_INVALID
    <3>7. PICK s \in DOMAIN disk.root : \E i \in DOMAIN disk.root[s] :
             disk.root[s][i].name = ToDosFileName(p[2]) /\ f = Found(disk.root[s][i])
      BY <3>3, <3>6
    <3>8. PICK i \in DOMAIN disk.root[s] :
             disk.root[s][i].name = ToDosFileName(p[2]) /\ f = Found(disk.root[s][i])
      BY <3>7
    <3>19. PICK e : e = disk.root[s][i]
      OBVIOUS
    <3>9. ~ e.dir /\ e.size > 0 /\ f.at = e.cluster /\ f.eof = 0
      <4>1. f = Found(e)
        BY <3>8, <3>19
      <4> QED
        BY <3>5, <4>1 DEF Found, FS_FILE, FS_DIR
    <3>10. e.cluster \in Clusters
      BY <3>2, <3>9, <3>19 DEF Written, EntriesWritten, Clusters
    <3>11. e \in FatEntries(<<p[2]>>)
      BY <3>8, <3>19, FatEntriesIs
    <3>20. PICK s1 : s1 = ClustersFrom(e.cluster)
      OBVIOUS
    <3>12. Follows(s1, e.cluster)
      BY <1>7, <3>10, <3>20, ClustersFromIs
    <3>13. Len(s1) \in Nat \ {0} /\ s1[1] = e.cluster
      BY <3>12 DEF Follows
    <3>14. ClustersFrom(e.cluster)' = s1 /\ Clusters' = Clusters
           /\ FatEntries(<<p[2]>>)' = FatEntries(<<p[2]>>)
      BY <1>6, <3>20, DiskKept
    <3>15. PrintedOfChain(s1, 0)'
      <4>1. printed' = [j \in 1 .. 0 |-> DataStart - 2 + s1[j]]
        BY <1>6
      <4>2. file'.at = s1[0 + 1] /\ file'.eof = 0 /\ 0 < Len(s1) /\ 0 <= Len(s1)
            /\ command' # "prompt"
        BY <1>17, <3>5, <3>9, <3>13
      <4> QED
        BY <4>1, <4>2 DEF PrintedOfChain
    <3>16. PrintedOfChain(ClustersFrom(e.cluster), 0)'
      BY <3>14, <3>15 DEF PrintedOfChain
    <3>17. e \in FatEntries(<<path[2]>>)' /\ e.cluster \in Clusters'
      BY <2>2, <3>10, <3>11, <3>14
    <3>18. _FileSystems'[file'.deviceID] = "FAT12"
      BY <1>6, <2>2, <2>3
    <3> QED
      BY <3>9, <3>16, <3>17, <3>18 DEF CatInv
  <2>4. CASE _FileSystems[d] # "FAT12"
    <3>1. PICK n \in 2 .. Len(p) : \E a \in TapeHeaders(SubSeq(p, 2, n)) :
               open.file = [FileOf(a) EXCEPT !.deviceID = d]
      BY <1>10, <2>1, <2>4
    <3>2. PICK a \in TapeHeaders(SubSeq(p, 2, n)) :
               open.file = [FileOf(a) EXCEPT !.deviceID = d]
      BY <3>1
    <3>3. a \in DOMAIN archive
      BY DEF TapeHeaders
    <3>4. a \in Nat /\ archive[a].size \in Nat /\ Blocks(archive[a].size) \in Nat
      BY <1>2, <3>3, BlocksFit
    <3>5. /\ file'.flags = FS_FILE /\ file'.at = a + TarBlock
          /\ file'.position = a + TarBlock /\ file'.length = archive[a].size /\ file'.eof = 0
          /\ ~ archive[a].dir
      <4>1. file' = [flags |-> IF archive[a].dir THEN FS_DIR ELSE FS_FILE,
                     at |-> a + TarBlock, position |-> a + TarBlock,
                     length |-> archive[a].size, eof |-> 0, deviceID |-> d]
        BY <2>2, <3>2 DEF FileOf
      <4> QED
        BY <2>1, <2>2, <4>1 DEF FS_FILE, FS_DIR
    <3>6. archive'[a].dir = archive[a].dir /\ archive'[a].size = archive[a].size
          /\ TapeHeaders(SubSeq(p, 2, n))' = TapeHeaders(SubSeq(p, 2, n))
      BY <1>2, <1>11, <3>3, TouchedKeeps
    <3> DEFINE z == archive[a].size
    <3>7. z > 0 /\ z \in Nat
      BY <2>2, <3>4, <3>5
    <3> HIDE DEF z
    <3>8. 0 < Blocks(z) /\ 0 <= Blocks(z)
      <4>1. ~ (0 * TarBlock >= z)
        BY <3>7, RamdiskAssumption
      <4>2. Blocks(z) \in Nat /\ (0 * TarBlock >= z <=> 0 >= Blocks(z))
        BY <3>7, BlocksIs
      <4> QED
        BY <4>1, <4>2
    <3>9. PrintedOfTape(a, 0)'
      <4>1. printed' = [i \in 1 .. 0 |-> a + i * TarBlock]
        BY <1>6
      <4>2. file'.at = a + (0 + 1) * TarBlock
        BY <3>4, <3>5, RamdiskAssumption
      <4>3. archive'[a].size = z /\ file'.length = z /\ ~ archive'[a].dir
            /\ file'.position = a + TarBlock /\ file'.eof = 0
        BY <3>5, <3>6 DEF z
      <4> QED
        BY <1>17, <3>8, <4>1, <4>2, <4>3 DEF PrintedOfTape
    <3>10. a \in TapeHeaders(SubSeq(path, 2, n))' /\ n \in 2 .. Len(path')
      BY <2>2, <3>2, <3>6
    <3>11. _FileSystems'[file'.deviceID] # "FAT12"
      BY <1>6, <2>2, <2>4
    <3> QED
      BY <3>9, <3>10, <3>11 DEF CatInv
  <2> QED
    BY <2>3, <2>4
<1>18. CatInv'
  BY <1>6, <1>17 DEF CatInv
<1>22. AddedInv'
  <2>1. OnTheStack \notin added'
    BY <1>6
  <2>2. ASSUME command' = "cat", _FileSystems[file'.deviceID] # "FAT12"
        PROVE  file'.position <= file'.at
    <3>1. open.file.flags # FS_INVALID /\ file' = open.file
      BY <1>5, <2>2 DEF FS_FILE, FS_INVALID
    <3>2. _FileSystems[d] # "FAT12"
      BY <1>10, <2>2, <3>1
    <3>3. PICK n \in 2 .. Len(p) : \E a \in TapeHeaders(SubSeq(p, 2, n)) :
               open.file = [FileOf(a) EXCEPT !.deviceID = d]
      BY <1>10, <3>1, <3>2
    <3>4. PICK a \in TapeHeaders(SubSeq(p, 2, n)) :
               open.file = [FileOf(a) EXCEPT !.deviceID = d]
      BY <3>3
    <3>5. a \in DOMAIN archive
      BY DEF TapeHeaders
    <3>6. a + TarBlock \in Nat
      BY <1>2, <3>5, BlocksFit, RamdiskAssumption
    <3>7. file'.at = a + TarBlock /\ file'.position = a + TarBlock
      BY <3>1, <3>4 DEF FileOf
    <3> QED
      BY <3>6, <3>7
  <2> QED
    BY <1>6, <2>1, <2>2 DEF AddedInv
<1> QED
  BY <1>14, <1>15, <1>16, <1>18, <1>22 DEF FilesInv

LEMMA QuietKeeps ==
    ASSUME Typing, CurrentIsDirectory, UNCHANGED <<disk, archive, _FileSystems, currPath>>
    PROVE  (\E tape \in Archives : Stripped(tape)') /\ CurrentIsDirectory'
<1>1. PICK tape \in Archives : Stripped(tape)
  BY DEF Typing
<1>2. Touched(archive')
  BY <1>1, TouchedSelf
<1> QED
  BY <1>1, <1>2, TouchedKeeps, CurrentKept

LEMMA NoPath == << <<>> >> \in Path /\ << <<>> >> # <<>> /\ <<>> \in Seq(Nat)
  BY DEF Path

LEMMA DumpKeeps ==
    ASSUME FilesInv, cmd_read_sect
    PROVE  FilesInv'
<1>1. Typing /\ CurrentIsDirectory
  BY DEF FilesInv
<1>2. PICK typed \in Dumped :
        sectornumbuf' = typed /\ (SectorRead(atoi(typed)) \/ SectorUnread(atoi(typed)))
  BY DEF cmd_read_sect
<1>3. /\ command' = "dump" /\ path' = << <<>> >> /\ file' = Invalid /\ added' = {}
      /\ UNCHANGED <<disk, archive, _FileSystems, currPath>>
  BY DEF cmd_read_sect
<1>4. (\E tape \in Archives : Stripped(tape)') /\ CurrentIsDirectory'
  BY <1>1, <1>3, QuietKeeps
<1>5. typed \in Seq(Nat)
  BY <1>2, FilesAssumption
<1>6. /\ printed' \in Seq(Nat) /\ failures' \in 0 .. MaxFailures /\ spoiled' \in BOOLEAN
      /\ ~ spoiled' => /\ printed' = <<atoi(typed)>>
                       /\ atoi(typed) \in 0 .. (DiskSectors - 1)
  <2>1. failures \in 0 .. MaxFailures /\ MaxFailures \in Nat
    BY <1>1, FilesAssumption DEF Typing
  <2>2. CASE SectorRead(atoi(typed))
    <3>1. DiskSectors - 1 \in Int
      BY FilesAssumption, LongMaxType
    <3>2. atoi(typed) \in Nat
      BY <2>2, <3>1 DEF SectorRead
    <3>3. /\ printed' = <<atoi(typed)>> /\ spoiled' = FALSE /\ failures' = failures
          /\ atoi(typed) \in 0 .. (DiskSectors - 1)
      BY <2>2 DEF SectorRead
    <3>4. printed' \in Seq(Nat)
      <4>1. PICK x \in Nat : x = atoi(typed)
        BY <3>2
      <4>2. <<x>> \in Seq(Nat)
        OBVIOUS
      <4> QED
        BY <3>3, <4>1, <4>2
    <3> QED
      BY <2>1, <3>3, <3>4
  <2>3. CASE SectorUnread(atoi(typed))
    <3>1. printed' = <<0>> /\ spoiled' = TRUE
      BY <2>3 DEF SectorUnread, Unread
    <3>2. failures' = failures \/ (failures > 0 /\ failures' = failures - 1)
      BY <2>3 DEF SectorUnread
    <3>3. failures' \in 0 .. MaxFailures
      BY <2>1, <3>2
    <3> QED
      BY <3>1, <3>3
  <2> QED
    BY <1>2, <2>2, <2>3
<1>7. Typing'
  BY <1>1, <1>3, <1>4, <1>6, InvalidType, NoPath DEF Typing, Begins, Prefixed
<1>8. DumpInv'
  BY <1>2, <1>5, <1>6 DEF DumpInv
<1>9. CatInv' /\ AddedInv'
  BY <1>3 DEF CatInv, AddedInv
<1> QED
  BY <1>4, <1>7, <1>8, <1>9 DEF FilesInv

(* The commands that leave nothing behind. *)
LEMMA ForgetKeeps ==
    ASSUME FilesInv, Forget, command' = "prompt", failures' \in 0 .. MaxFailures,
           UNCHANGED <<disk, archive, _FileSystems, currPath>>
    PROVE  FilesInv'
<1>1. Typing /\ CurrentIsDirectory
  BY DEF FilesInv
<1>2. path' = << <<>> >> /\ file' = Invalid /\ printed' = <<>> /\ spoiled' = FALSE
      /\ added' = {}
  BY DEF Forget
<1>3. (\E tape \in Archives : Stripped(tape)') /\ CurrentIsDirectory'
  BY <1>1, QuietKeeps
<1>4. Typing'
  <2>1. path' \in Path /\ path' # <<>> /\ file' \in Records /\ printed' \in Seq(Nat)
    BY <1>2, InvalidType, NoPath
  <2> QED
    BY <1>1, <1>2, <1>3, <2>1 DEF Typing, Begins, Prefixed
<1>5. DumpInv' /\ CatInv' /\ AddedInv'
  BY <1>2 DEF DumpInv, CatInv, AddedInv
<1> QED
  BY <1>3, <1>4, <1>5 DEF FilesInv

LEMMA FrontOfAppend ==
    ASSUME NEW p \in Path, p # <<>>, NEW q, q = Append(p, <<>>)
    PROVE  /\ q \in Path /\ Len(q) = Len(p) + 1 /\ Last(q) = <<>> /\ q[1] = p[1]
           /\ Front(Tail(q)) = Tail(p)
<1> DEFINE T == Seq(STRING)
<1>1. p \in Seq(T) /\ <<>> \in T
  BY DEF Path
<1> HIDE DEF T
<1>2. PICK l \in Nat \ {0} : l = Len(p)
  BY <1>1, EmptySeq
<1>3. /\ q \in Seq(T) /\ Len(q) = l + 1 /\ \A i \in 1 .. l : q[i] = p[i]
      /\ q[l + 1] = <<>> /\ q # <<>>
  BY <1>1, <1>2, AppendProperties
<1>4. Last(q) = <<>> /\ q[1] = p[1]
  BY <1>2, <1>3 DEF Last
<1> DEFINE t == Tail(p)
           u == Tail(q)
           v == SubSeq(u, 1, l - 1)
<1>5. t \in Seq(T) /\ Len(t) = l - 1 /\ \A i \in 1 .. (l - 1) : t[i] = p[i + 1]
  BY <1>1, <1>2, HeadTailProperties
<1>6. u \in Seq(T) /\ Len(u) = l /\ \A i \in 1 .. l : u[i] = q[i + 1]
  BY <1>3, HeadTailProperties
<1> HIDE DEF t, u
<1>7. \A i \in 1 .. (l - 1) : u[i] = t[i] /\ u[i] \in T
  <2> TAKE i \in 1 .. (l - 1)
  <2>1. i \in 1 .. l /\ i + 1 \in 1 .. l /\ i \in 1 .. Len(t)
    BY <1>5
  <2>2. u[i] = t[i]
    BY <1>3, <1>5, <1>6, <2>1
  <2>3. t[i] \in T
    BY <1>5, <2>1, ElementOfSeq
  <2> QED
    BY <2>2, <2>3
<1>8. v \in Seq(T) /\ Len(v) = l - 1 /\ \A i \in 1 .. (l - 1) : v[i] = t[i]
  <2>1. l - 1 \in Int
    OBVIOUS
  <2>2. /\ v \in Seq(T)
        /\ Len(v) = IF 1 <= l - 1 THEN (l - 1) - 1 + 1 ELSE 0
        /\ \A i \in 1 .. ((l - 1) - 1 + 1) : v[i] = u[1 + i - 1]
    BY <1>7, <2>1, SubSeqProperties
  <2> HIDE DEF v
  <2> QED
    BY <1>7, <2>2
<1>9. v = t
  <2> HIDE DEF v
  <2>1. \A i \in 1 .. Len(v) : v[i] = t[i]
    BY <1>8
  <2> QED
    BY <1>5, <1>8, <2>1, SeqEqual
<1>10. Front(u) = t
  BY <1>6, <1>9 DEF Front
<1> QED
  BY <1>2, <1>3, <1>4, <1>10 DEF t, u, T, Path

LEMMA ChangeDirKeeps ==
    ASSUME FilesInv, cmd_change_dir
    PROVE  FilesInv'
<1>1. Typing /\ CurrentIsDirectory
  BY DEF FilesInv
<1>2. PICK tape \in Archives : Stripped(tape)
  BY <1>1 DEF Typing
<1>3. PICK typed \in Typed : \E root \in RootsRead(FullPath(typed)) :
        \E open \in volOpenFile(FullPath(typed), CurrentDevice, root) :
           /\ Counted(root) /\ archive' = open.archive
           /\ currPath' = IF open.file.flags = FS_DIR
                          THEN Append(FullPath(typed), <<>>) ELSE currPath
  BY DEF cmd_change_dir
<1>4. PICK p : p = FullPath(typed)
  OBVIOUS
<1>5. PICK d : d = Device(p, CurrentDevice)
  OBVIOUS
<1>6. PICK root \in RootsRead(p) :
        \E open \in volOpenFile(p, CurrentDevice, root) :
           /\ Counted(root) /\ archive' = open.archive
           /\ currPath' = IF open.file.flags = FS_DIR THEN Append(p, <<>>) ELSE currPath
  BY <1>3, <1>4
<1>7. PICK open \in volOpenFile(p, CurrentDevice, root) :
           /\ Counted(root) /\ archive' = open.archive
           /\ currPath' = IF open.file.flags = FS_DIR THEN Append(p, <<>>) ELSE currPath
  BY <1>6
<1>8. /\ command' = "prompt" /\ Len(currPath') <= MaxParts
      /\ path' = << <<>> >> /\ file' = Invalid /\ printed' = <<>> /\ spoiled' = FALSE
      /\ added' = {}
      /\ UNCHANGED <<disk, _FileSystems, sectornumbuf>>
  BY DEF cmd_change_dir, Forget
<1>9. /\ disk \in Disks /\ currPath \in Path /\ Len(currPath) >= 2 /\ Begins(currPath)
      /\ _FileSystems["x"] = "RAMDISK"
  BY <1>1 DEF Typing
<1>10. p \in Path /\ p # <<>> /\ Begins(p)
  BY <1>4, <1>9, FullPathIs
<1>11. CurrentDevice \in STRING
  BY <1>1, CurrentDeviceType
<1>12. /\ open.file \in Records /\ Touched(open.archive)
       /\ open.file.flags # FS_INVALID => open.file.deviceID = d
       /\ _FileSystems[d] = "FAT12" /\ Len(p) = 2 =>
            open.file = [fsysFatDirectory(p[2], root) EXCEPT !.deviceID = d]
       /\ _FileSystems[d] = "FAT12" /\ Len(p) >= 2 /\ open.file.flags = FS_DIR =>
            ToDosFileName(p[Len(p)]) \in DosDirectories
       /\ _FileSystems[d] # "FAT12" /\ open.file.flags # FS_INVALID =>
            \E n \in 2 .. Len(p) : \E a \in TapeHeaders(SubSeq(p, 2, n)) :
               /\ open.file = [FileOf(a) EXCEPT !.deviceID = d]
               /\ archive[a].dir => n = Len(p)
  BY <1>2, <1>5, <1>9, <1>10, <1>11, RootIsRead, VolOpenIs
<1>13. Touched(archive')
  BY <1>7, <1>12
<1>14. \E t \in Archives : Stripped(t)'
  BY <1>2, <1>13, TouchedKeeps
<1>15. failures' \in 0 .. MaxFailures
  BY <1>1, <1>7, CountedIs
<1>18. path' \in Path /\ path' # <<>> /\ file' \in Records /\ printed' \in Seq(Nat)
  BY <1>8, InvalidType, NoPath
<1>16. CASE open.file.flags # FS_DIR
  <2>1. currPath' = currPath
    BY <1>7, <1>16
  <2>2. CurrentIsDirectory'
    BY <1>1, <1>2, <1>8, <1>13, <2>1, CurrentKept
  <2>3. Typing'
    BY <1>1, <1>8, <1>14, <1>15, <1>18, <2>1 DEF Typing, Begins, Prefixed
  <2>4. DumpInv' /\ CatInv' /\ AddedInv'
    BY <1>8 DEF DumpInv, CatInv, AddedInv
  <2> QED
    BY <2>2, <2>3, <2>4 DEF FilesInv
<1>17. CASE open.file.flags = FS_DIR
  <2>1. currPath' = Append(p, <<>>)
    BY <1>7, <1>17
  <2>2. PICK q : q = currPath'
    OBVIOUS
  <2>3. /\ q \in Path /\ Len(q) = Len(p) + 1 /\ Last(q) = <<>> /\ q[1] = p[1]
        /\ Front(Tail(q)) = Tail(p)
    BY <1>10, <2>1, <2>2, FrontOfAppend
  <2>4. PICK l \in Nat \ {0} : l = Len(p)
    BY <1>10, EmptySeq DEF Path
  <2>5. Begins(q) /\ (Prefixed(q) <=> Prefixed(p))
    <3>1. Len(p) >= 2 => Len(q) >= 2
      BY <2>3, <2>4
    <3>2. Prefixed(q) <=> Prefixed(p)
      BY <2>3 DEF Prefixed
    <3> QED
      BY <1>10, <2>3, <3>1, <3>2 DEF Begins
  <2>6. Len(q) \in 2 .. MaxParts
    BY <1>8, <2>2, <2>3, <2>4, FilesAssumption
  <2>7. Typing'
    <3>1. Begins(currPath)'
      BY <2>2, <2>5 DEF Begins, Prefixed
    <3> QED
      BY <1>1, <1>8, <1>14, <1>15, <1>18, <2>2, <2>3, <2>6, <3>1 DEF Typing
  <2>10. ASSUME _FileSystems[d] # "FAT12" PROVE CurrentIsDirectory'
    <3>2. open.file.flags # FS_INVALID
      BY <1>17 DEF FS_DIR, FS_INVALID
    <3>3. PICK n \in 2 .. Len(p) : \E a \in TapeHeaders(SubSeq(p, 2, n)) :
             /\ open.file = [FileOf(a) EXCEPT !.deviceID = d]
             /\ archive[a].dir => n = Len(p)
      BY <1>12, <2>10, <3>2
    <3>4. PICK a \in TapeHeaders(SubSeq(p, 2, n)) :
             /\ open.file = [FileOf(a) EXCEPT !.deviceID = d]
             /\ archive[a].dir => n = Len(p)
      BY <3>3
    <3>5. archive[a].dir
      BY <1>17, <3>4 DEF FileOf, FS_DIR, FS_FILE
    <3>6. SubSeq(p, 2, n) = Tail(p)
      BY <1>10, <3>4, <3>5, TailIsSubSeq DEF Path
    <3>7. a \in TapeHeaders(Tail(p)) /\ a \in DOMAIN archive
      BY <3>6 DEF TapeHeaders
    <3>8. TapeHeaders(Tail(p))' = TapeHeaders(Tail(p)) /\ archive'[a].dir = archive[a].dir
      BY <1>2, <1>13, <3>7, TouchedKeeps
    <3>9. IsDirectory(Tail(p))'
      BY <3>5, <3>7, <3>8 DEF IsDirectory
    <3> QED
      BY <2>2, <2>3, <3>9 DEF CurrentIsDirectory
  <2>11. ASSUME _FileSystems[d] = "FAT12" PROVE CurrentIsDirectory'
    <3>1. d \in Letters
      BY <1>1, <1>5, <1>10, DeviceType
    <3>2. d = "a"
      BY <1>1, <2>11, <3>1 DEF Typing
    <3>3. ~ Prefixed(p)
      <4> SUFFICES ASSUME Prefixed(p) PROVE FALSE
        OBVIOUS
      <4>1. p[1] = <<"x", ":">>
        BY <1>10 DEF Begins
      <4> QED
        BY <1>5, <3>2, <4>1 DEF Device
    <3>4. ASSUME l = 1 PROVE CurrentIsDirectory'
      <4>1. Tail(p) = <<>>
        <5> DEFINE t == Tail(p)
        <5>1. t \in Path /\ Len(t) = 0
          <6> DEFINE T == Seq(STRING)
          <6>1. p \in Seq(T) /\ p # <<>> /\ Len(p) = 1
            BY <1>10, <2>4, <3>4 DEF Path
          <6> HIDE DEF T
          <6>2. Tail(p) \in Seq(T) /\ Len(Tail(p)) = Len(p) - 1
            BY <6>1, HeadTailProperties
          <6> QED
            BY <6>1, <6>2 DEF T, Path
        <5> HIDE DEF t
        <5>2. t = <<>>
          BY <5>1, EmptySeq DEF Path
        <5> QED
          BY <5>2 DEF t
      <4> QED
        BY <2>2, <2>3, <4>1 DEF CurrentIsDirectory
    <3>5. ASSUME l # 1 PROVE CurrentIsDirectory'
      <4>1. Len(p) >= 2
        BY <2>4, <3>5
      <4>2. ToDosFileName(p[l]) \in DosDirectories
        BY <1>12, <1>17, <2>4, <2>11, <4>1
      <4>3. Last(Tail(p)) = p[l]
        <5> DEFINE t == Tail(p)
        <5>1. Len(t) = l - 1 /\ \A i \in 1 .. (l - 1) : t[i] = p[i + 1]
          BY <1>10, <2>4, HeadTailProperties DEF Path
        <5> HIDE DEF t
        <5>2. l - 1 \in 1 .. (l - 1) /\ (l - 1) + 1 = l
          BY <2>4, <3>5
        <5>3. t[Len(t)] = p[l]
          BY <5>1, <5>2
        <5> QED
          BY <5>3 DEF t, Last
      <4>4. PICK names : names = Tail(p)
        OBVIOUS
      <4>5. ToDosFileName(Last(names)) \in DosDirectories
        BY <4>2, <4>3, <4>4
      <4>6. DosDirectories' = DosDirectories
        BY <1>8 DEF DosDirectories
      <4>7. ~ Prefixed(q) /\ _FileSystems'["a"] = "FAT12"
        BY <1>8, <2>5, <2>11, <3>2, <3>3
      <4>8. Front(Tail(currPath')) = names
        BY <2>2, <2>3, <4>4
      <4> QED
        BY <2>2, <4>5, <4>6, <4>7, <4>8 DEF CurrentIsDirectory, Prefixed
    <3> QED
      BY <3>4, <3>5
  <2>8. CurrentIsDirectory'
    BY <2>10, <2>11
  <2>9. DumpInv' /\ CatInv' /\ AddedInv'
    BY <1>8 DEF DumpInv, CatInv, AddedInv
  <2> QED
    BY <2>7, <2>8, <2>9 DEF FilesInv
<1> QED
  BY <1>16, <1>17

LEMMA StutterKeeps ==
    ASSUME FilesInv, UNCHANGED vars
    PROVE  FilesInv'
<1>1. Typing /\ CurrentIsDirectory /\ CatInv /\ AddedInv /\ DumpInv
  BY DEF FilesInv
<1>2. UNCHANGED <<disk, archive, _FileSystems, currPath, command, path, sectornumbuf,
                  file, printed, added, failures, spoiled>>
  BY DEF vars
<1>3. (\E tape \in Archives : Stripped(tape)') /\ CurrentIsDirectory'
  BY <1>1, <1>2, QuietKeeps
<1>4. Typing'
  BY <1>1, <1>2, <1>3 DEF Typing, Begins, Prefixed
<1>5. DumpInv' /\ AddedInv'
  BY <1>1, <1>2 DEF DumpInv, AddedInv
<1>6. CatInv'
  <2>1. \A names : TapeHeaders(names)' = TapeHeaders(names)
    BY <1>2 DEF TapeHeaders
  <2> QED
    BY <1>1, <1>2, <2>1, DiskKept DEF CatInv, Covered, PrintedOfChain, PrintedOfTape
<1> QED
  BY <1>3, <1>4, <1>5, <1>6 DEF FilesInv

LEMMA FilesInitially ==
    ASSUME Init
    PROVE  FilesInv
<1>1. PICK tape \in Archives : archive = Loaded(tape)
  BY DEF Init
<1>2. Stripped(tape)
  BY <1>1, LoadedIsStripped
<1>3. /\ disk \in Disks /\ command = "prompt" /\ path = << <<>> >> /\ file = Invalid
      /\ printed = <<>> /\ added = {} /\ failures = MaxFailures /\ spoiled = FALSE
      /\ currPath = << <<"x", ":">>, <<>> >>
  BY DEF Init
<1>4. /\ _FileSystems["x"] = "RAMDISK"
      /\ \A d \in Letters : _FileSystems[d] = "FAT12" => d = "a"
  BY DEF Init, Letters
<1>5. currPath \in Path /\ Last(currPath) = <<>> /\ Len(currPath) = 2 /\ currPath[1] = <<"x", ":">>
  <2>1. <<"x", ":">> \in Seq(STRING)
    BY FilesAssumption
  <2> DEFINE first == <<"x", ":">>
  <2> HIDE DEF first
  <2>2. << first, <<>> >> \in Seq(Seq(STRING))
    BY <2>1 DEF first
  <2>3. currPath = << first, <<>> >>
    BY <1>3 DEF first
  <2>4. Len(currPath) = 2 /\ currPath[2] = <<>> /\ currPath[1] = first
    BY <2>3
  <2> QED
    BY <2>2, <2>3, <2>4 DEF Last, Path, first
<1>6. Begins(currPath) /\ Len(currPath) \in 2 .. MaxParts
  BY <1>5, FilesAssumption DEF Begins
<1>7. Typing
  <2>1. path \in Path /\ path # <<>> /\ file \in Records /\ printed \in Seq(Nat)
    BY <1>3, InvalidType, NoPath
  <2>2. failures \in 0 .. MaxFailures
    BY <1>3, FilesAssumption
  <2> QED
    BY <1>2, <1>3, <1>4, <1>5, <1>6, <2>1, <2>2 DEF Typing
<1>8. CurrentIsDirectory
  <2>1. Front(Tail(currPath)) = <<>>
    <3> DEFINE first == <<"x", ":">>
    <3>1. currPath = << first, <<>> >>
      BY <1>3
    <3> HIDE DEF first
    <3>2. Tail(currPath) = << <<>> >>
      BY <3>1
    <3>3. Len(<< <<>> >>) = 1 /\ SubSeq(<< <<>> >>, 1, 1 - 1) = <<>>
      BY SubSeqEmpty
    <3> QED
      BY <3>2, <3>3 DEF Front
  <2> QED
    BY <2>1 DEF CurrentIsDirectory
<1>9. CatInv /\ AddedInv /\ DumpInv
  BY <1>3 DEF CatInv, AddedInv, DumpInv
<1> QED
  BY <1>7, <1>8, <1>9 DEF FilesInv

LEMMA FilesNext ==
    ASSUME FilesInv, [Next]_vars
    PROVE  FilesInv'
<1>1. CASE cmd_read_file
  BY <1>1, ReadFileKeeps
<1>2. CASE ReadOn
  BY <1>2, ReadOnKeeps
<1>3. CASE ReadFails
  BY <1>3, ReadFailsKeeps
<1>4. CASE cmd_read_sect
  BY <1>4, DumpKeeps
<1>5. CASE cmd_read_sect_fails
  <2>1. failures \in 0 .. MaxFailures /\ MaxFailures \in Nat
    BY FilesAssumption DEF FilesInv, Typing
  <2>2. failures' = failures \/ (failures > 0 /\ failures' = failures - 1)
    BY <1>5, Zenon DEF cmd_read_sect_fails
  <2>3. /\ Forget /\ command' = "prompt"
        /\ UNCHANGED <<disk, archive, _FileSystems, currPath>>
    BY <1>5 DEF cmd_read_sect_fails
  <2>4. failures' \in 0 .. MaxFailures
    BY <2>1, <2>2
  <2> QED
    BY <2>3, <2>4, ForgetKeeps
<1>6. CASE DumpEnds
  <2>1. /\ Forget /\ command' = "prompt"
        /\ UNCHANGED <<disk, archive, _FileSystems, currPath, failures>>
    BY <1>6 DEF DumpEnds
  <2>2. failures' \in 0 .. MaxFailures
    BY <2>1 DEF FilesInv, Typing
  <2> QED
    BY <2>1, <2>2, ForgetKeeps
<1>7. CASE cmd_change_dir
  BY <1>7, ChangeDirKeeps
<1>8. CASE UNCHANGED vars
  BY <1>8, StutterKeeps
<1> QED
  BY <1>1, <1>2, <1>3, <1>4, <1>5, <1>6, <1>7, <1>8 DEF Next

(* A cat that is refused was refused a path that names no file. *)
LEMMA FilesRefuse ==
    ASSUME FilesInv, Next, Refuses, Prefixed(path') \/ Len(path') = 2
    PROVE  Named(path', CurrentDevice) = {}
<1>1. command = "prompt" /\ command' = "prompt" /\ ~ spoiled' /\ path' # << <<>> >>
  BY DEF Refuses
<1>2. cmd_read_file
  <2>1. ~ ReadOn /\ ~ ReadFails
    BY <1>1 DEF ReadOn, ReadFails, Prints
  <2>2. ~ cmd_read_sect /\ ~ cmd_read_sect_fails /\ ~ DumpEnds /\ ~ cmd_change_dir
    BY <1>1 DEF cmd_read_sect, cmd_read_sect_fails, DumpEnds, cmd_change_dir, Forget
  <2> QED
    BY <2>1, <2>2 DEF Next
<1>3. PICK typed \in Typed : \E root \in RootsRead(FullPath(typed)) :
        \E open \in volOpenFile(FullPath(typed), CurrentDevice, root) :
           /\ Counted(root) /\ spoiled' = (failures' # failures)
           /\ path' = FullPath(typed)
           /\ command' = IF open.file.flags = FS_FILE THEN "cat" ELSE "prompt"
  BY <1>2 DEF cmd_read_file
<1>4. PICK p : p = FullPath(typed)
  OBVIOUS
<1>5. PICK root \in RootsRead(p) :
        \E open \in volOpenFile(p, CurrentDevice, root) :
           /\ Counted(root) /\ spoiled' = (failures' # failures)
           /\ path' = p
           /\ command' = IF open.file.flags = FS_FILE THEN "cat" ELSE "prompt"
  BY <1>3, <1>4
<1>6. PICK open \in volOpenFile(p, CurrentDevice, root) :
           /\ Counted(root) /\ spoiled' = (failures' # failures)
           /\ path' = p
           /\ command' = IF open.file.flags = FS_FILE THEN "cat" ELSE "prompt"
  BY <1>5
<1>7. Typing
  BY DEF FilesInv
<1>8. root = disk.root
  <2>1. failures' = failures
    BY <1>1, <1>6
  <2> QED
    BY <1>6, <1>7, <2>1, CountedIs
<1>9. open.file.flags # FS_FILE
  BY <1>1, <1>6
<1>10. Prefixed(p) \/ Len(p) = 2
  BY <1>6
<1>11. Named(p, CurrentDevice) = {}
  BY <1>4, <1>7, <1>8, <1>9, <1>10, OpenFindsFile
<1> QED
  BY <1>6, <1>11

-----------------------------------------------------------------------------
(* Theorems *)

(* The invariant holds of every sequence of commands. *)
THEOREM FilesInvariant == Spec => []FilesInv
<1>1. Init => FilesInv
  BY FilesInitially
<1>2. FilesInv /\ [Next]_vars => FilesInv'
  BY FilesNext
<1> QED
  BY <1>1, <1>2, PTL DEF Spec

(* The variables of the file system and of the commands have their types: a *)
(* current path has two to MaxParts parts and ends with a slash.            *)
THEOREM FilesType == Spec => []TypeOK
<1>1. FilesInv => TypeOK
  <2> SUFFICES ASSUME FilesInv PROVE TypeOK
    OBVIOUS
  <2>1. Typing
    BY DEF FilesInv
  <2>2. file.flags \in {FS_FILE, FS_DIR, FS_INVALID}
    BY <2>1 DEF Typing, Records
  <2>3. \A i \in DOMAIN printed : printed[i] \in Nat
    <3>1. printed \in Seq(Nat)
      BY <2>1 DEF Typing
    <3> QED
      BY <3>1, ElementOfSeq, LenProperties
  <2> QED
    BY <2>1, <2>2, <2>3, Zenon DEF Typing, TypeOK, Path
<1> QED
  BY <1>1, FilesInvariant, PTL

(* Whatever was opened, stripped and read before, and whichever reads of    *)
(* earlier commands failed, the blocks cat prints are those of the file its *)
(* path names, in their order and all of them; from a ramdisk file that     *)
(* fits a block it adds only the text at address 0; and floppydump prints   *)
(* the sector that was typed, if its read did not fail.                     *)
THEOREM CatPrintsTheFile == Spec => []PrintsTheFile
<1>1. FilesInv => PrintsTheFile
  BY InvPrints
<1> QED
  BY <1>1, FilesInvariant, PTL

(* cd leads to directories alone: to one of the ramdisk, which the slashes  *)
(* later commands strip from the archive do not take away, or, once a       *)
(* volume was typed, to a path that ends with the name of a directory of    *)
(* the floppy.                                                              *)
THEOREM CdStaysInTheTree == Spec => []CurrentIsDirectory
<1>1. FilesInv => CurrentIsDirectory
  BY DEF FilesInv
<1> QED
  BY <1>1, FilesInvariant, PTL

(* volOpenFile refuses no file that is there, in the root directory of the  *)
(* floppy or anywhere on the ramdisk.                                       *)
THEOREM OpenFindsTheFile == Spec => FindsWhatIsThere
<1>1. FilesInv /\ [Next]_vars =>
        [Refuses /\ (Prefixed(path') \/ Len(path') = 2)
           => Named(path', CurrentDevice) = {}]_vars
  BY FilesRefuse
<1> QED
  BY <1>1, FilesInvariant, PTL DEF Spec, FindsWhatIsThere
=============================================================================
