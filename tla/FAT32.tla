------------------------------- MODULE FAT32 --------------------------------
(***************************************************************************)
(* The read-only file system (kernel/fat32.c, kernel/vfs.c): mounting,     *)
(* looking a name up in the root directory, reading along a cluster chain. *)
(*                                                                         *)
(* A sector is SECTOR cells, and a cell can be looked at in three ways, as *)
(* the code does through g_sector_buf: as a FAT entry (`next'), as a       *)
(* directory entry (`entry') and as file contents (`id', which byte of the *)
(* volume it is).  A volume is laid out by whoever formatted it; the code  *)
(* finds things on it by arithmetic on sector numbers, and any sector read *)
(* may fail.  Sector numbers outside the volume fail too; this includes    *)
(* those that wrap around 2^32 for a cluster number below 2.               *)
(***************************************************************************)
EXTENDS Integers, Sequences

CONSTANTS
  SECTOR,     \* cells in a sector
  MASK,       \* FAT entries are numbers modulo MASK (2^28); bits above are reserved
  EOF_MIN,    \* the first end-of-chain mark (0x0FFFFFF8)
  HALF,       \* base of the two halves of a start cluster (2^16)
  NAME, EXT,  \* characters of a name and of an extension (8, 3)
  Volumes,    \* volumes that may be inserted
  Paths,      \* paths that are looked up
  Lens        \* lengths that are asked for

ASSUME FatAssumption ==
  /\ {SECTOR, MASK, HALF, NAME, EXT} \subseteq Nat \ {0}
  /\ EOF_MIN \in 0 .. MASK - 1 /\ Lens \subseteq Nat

VARIABLES
  volume,
  bpb,        \* what fat32_init keeps: fat_start, data_start, root_cluster, spc
  g_ready,    \* the flags of fat32.c and vfs.c, which are set together
  pc,         \* the call in progress and where it stands in its loop
  path, len,  \* its arguments
  node,       \* the vfs_node_t of the last vfs_open
  cluster, s, \* the loop's variables
  out,        \* what fat32_read has copied
  faulted     \* history: a sector read of this call failed

fatVars == <<volume, bpb, g_ready, pc, path, len, node, cluster, s, out, faulted>>

----------------------------------------------------------------------------
(* A formatted volume (external): reserved sectors, the copies of the FAT,  *)
(* then the clusters from number 2 on.                                      *)

NoEntry == [kind |-> "end", name |-> <<>>, hi |-> 0, lo |-> 0, size |-> 0]
Cell(n, e, c, i, k) == [next |-> n, entry |-> e, id |-> <<c, i, k>>]

\* Entry k of a cluster of a directory, and the cells of sector i of an area.
DirEntry(v, c, k) == IF c \in DOMAIN v.dir THEN v.dir[c][k] ELSE NoEntry
ReservedArea(i) == [k \in 1 .. SECTOR |-> Cell(0, NoEntry, 0, i, k)]
FatCopy(v, i) ==
  [k \in 1 .. SECTOR |-> Cell(v.fat[(i - 1) * SECTOR + k - 1], NoEntry, 1, i, k)]
Cluster(v, c, i) ==
  [k \in 1 .. SECTOR |-> Cell(0, DirEntry(v, c, (i - 1) * SECTOR + k), c, i, k)]

DataStart(v) == v.reserved + v.num_fats * v.fat_size
Disk(v) ==
  [lba \in 0 .. DataStart(v) + v.clusters * v.spc - 1 |->
     IF lba < v.reserved THEN ReservedArea(lba + 1)
     ELSE IF lba < DataStart(v) THEN FatCopy(v, ((lba - v.reserved) % v.fat_size) + 1)
     ELSE LET n == lba - DataStart(v) IN Cluster(v, (n \div v.spc) + 2, (n % v.spc) + 1)]

----------------------------------------------------------------------------
(* Addresses and names.                                                     *)

cluster_to_lba(c) == bpb.data_start + (c - 2) * bpb.spc

\* Where the FAT entry of a cluster is.
FatSector(c) == bpb.fat_start + (c \div SECTOR)

is_eof(c) == c >= EOF_MIN

\* read_sector: the cells of the sector, if it exists and the transfer succeeds.
Readable(lba) == lba \in DOMAIN Disk(volume)
Sector(lba) == Disk(volume)[lba]

\* Mutant: the reserved bits stay.
Unmasked(c) == Sector(FatSector(c))[(c % SECTOR) + 1].next

\* fat_next, when its sector can be read.
NextCluster(c) == Sector(FatSector(c))[(c % SECTOR) + 1].next % MASK

Upper == [c \in {"a", "b", "c", "A", "B", "C", ".", "/"} |->
            CASE c = "a" -> "A" [] c = "b" -> "B" [] c = "c" -> "C" [] OTHER -> c]

Space == " "
Chars == DOMAIN Upper \cup {Space}

ASSUME PathAssumption == Paths \subseteq Seq(DOMAIN Upper)

Capitals(str) == [i \in DOMAIN str |-> Upper[str[i]]]
Padded(str, n) == [i \in 1 .. n |-> IF i \in DOMAIN str THEN str[i] ELSE Space]
Lesser(x, y) == IF x < y THEN x ELSE y
WithoutSlash(p) == IF p # <<>> /\ p[1] = "/" THEN Tail(p) ELSE p

\* The characters before the first dot, at most NAME of them; the extension only
\* when the dot comes right after them.
Stem(p) == CHOOSE n \in 0 .. NAME :
             /\ n <= Len(p) /\ \A i \in 1 .. n : p[i] # "."
             /\ n = NAME \/ n = Len(p) \/ p[n + 1] = "."
path_to_83(p) ==
  LET q == WithoutSlash(p)
      n == Stem(q)
      ext == IF n < Len(q) /\ q[n + 1] = "." THEN SubSeq(q, n + 2, Lesser(Len(q), n + 1 + EXT))
             ELSE <<>>
  IN Padded(Capitals(SubSeq(q, 1, n)), NAME) \o Padded(Capitals(ext), EXT)

----------------------------------------------------------------------------

NoNode == [valid |-> FALSE, start |-> 0, size |-> 0]
NoBpb == [fat_start |-> 0, data_start |-> 0, root |-> 0, spc |-> 0]

FatInit == /\ volume \in Volumes /\ bpb = NoBpb /\ g_ready = FALSE
           /\ pc = "boot" /\ path = <<>> /\ len = 0 /\ node = NoNode
           /\ cluster = 0 /\ s = 0 /\ out = <<>> /\ faulted = FALSE

\* vfs_init and fat32_init: called whether or not the stick came up, so the
\* read of sector 0 may fail.
vfs_init ==
  /\ pc = "boot" /\ pc' = "idle"
  /\ \/ UNCHANGED <<bpb, g_ready>>
     \/ /\ volume.sector_size_512 /\ volume.fat_size # 0
        /\ g_ready' = TRUE
        /\ bpb' = [fat_start |-> volume.reserved,
                   data_start |-> volume.reserved + volume.num_fats * volume.fat_size,
                   root |-> volume.root, spc |-> volume.spc]
  /\ UNCHANGED <<volume, path, len, node, cluster, s, out, faulted>>

\* Mutant: the loop of a read ends only with the chain.
ToChainEnd(call, c, copied) ==
  /\ cluster' = c /\ s' = 0
  /\ pc' = IF is_eof(c) THEN "idle" ELSE call

\* The loop of a call goes on with cluster c: it ends at an end-of-chain mark,
\* or, for a read, once len cells are there.
Enter(call, c, copied) ==
  /\ cluster' = c /\ s' = 0
  /\ pc' = IF is_eof(c) \/ (call = "file" /\ copied >= len') THEN "idle" ELSE call

\* vfs_open up to the first sector of fat32_open.  With nothing mounted, the node
\* is invalid.
OpenBegin ==
  /\ pc = "idle"
  /\ path' \in Paths /\ faulted' = FALSE /\ node' = NoNode
  /\ IF g_ready THEN Enter("dir", bpb.root, 0) ELSE UNCHANGED <<pc, cluster, s>>
  /\ out' = <<>> /\ len' = 0
  /\ UNCHANGED <<volume, bpb, g_ready>>

\* Mutant: deleted entries are not skipped.
SkipsLess(e) == e.kind \in {"lfn", "label"}

Skipped(e) == e.kind \in {"deleted", "lfn", "label"}

Matches(e) == ~Skipped(e) /\ e.name = path_to_83(path)

\* The entry of a sector that stops the search, if one does.
Stops(sector) == {k \in 1 .. SECTOR : sector[k].entry.kind = "end" \/ Matches(sector[k].entry)}
FirstOf(K) == CHOOSE k \in K : \A j \in K : k <= j

StartCluster(e) == e.hi * HALF + e.lo

AfterSector == IF s + 1 < bpb.spc THEN s' = s + 1 /\ pc' = pc
               ELSE s' = 0 /\ pc' = (IF pc = "dir" THEN "dirnext" ELSE "filenext")

\* One sector of the directory.
OpenSector ==
  /\ pc = "dir" /\ Readable(cluster_to_lba(cluster) + s)
  /\ LET sector == Sector(cluster_to_lba(cluster) + s)
         e == sector[FirstOf(Stops(sector))].entry
     IN CASE Stops(sector) = {} -> AfterSector /\ UNCHANGED node
          [] Stops(sector) # {} /\ e.kind = "end" -> pc' = "idle" /\ UNCHANGED <<s, node>>
          [] OTHER -> /\ pc' = "idle" /\ UNCHANGED s
                      /\ node' = [valid |-> TRUE, start |-> StartCluster(e), size |-> e.size]
  /\ UNCHANGED <<volume, bpb, g_ready, path, len, cluster, out, faulted>>

\* vfs_read up to the first sector of fat32_read: never more than the file's
\* size, nothing from an invalid node.
ReadBegin ==
  /\ pc = "idle" /\ node.valid
  /\ \E n \in Lens : len' = Lesser(n, node.size)
  /\ out' = <<>> /\ faulted' = FALSE
  /\ Enter("file", node.start, 0)
  /\ UNCHANGED <<volume, bpb, g_ready, path, node>>

Chunk(done) == Lesser(SECTOR, len - done)

\* One sector of the file; the FAT is asked for the next cluster even when all
\* was read.
ReadSector ==
  /\ pc = "file" /\ Readable(cluster_to_lba(cluster) + s)
  /\ LET sector == Sector(cluster_to_lba(cluster) + s)
     IN out' = out \o [k \in 1 .. Chunk(Len(out)) |-> sector[k].id]
  /\ IF Len(out') < len THEN AfterSector ELSE s' = 0 /\ pc' = "filenext"
  /\ UNCHANGED <<volume, bpb, g_ready, path, len, node, cluster, faulted>>

\* fat_next, and the test at the head of the loop.
Follow ==
  /\ pc \in {"dirnext", "filenext"} /\ Readable(FatSector(cluster))
  /\ UNCHANGED len
  /\ Enter(IF pc = "dirnext" THEN "dir" ELSE "file", NextCluster(cluster), Len(out))
  /\ UNCHANGED <<volume, bpb, g_ready, path, node, out, faulted>>

\* A sector that cannot be read ends the search or the read; so does a FAT sector,
\* which fat_next answers with an end-of-chain mark.
ReadFails ==
  /\ pc \notin {"boot", "idle"}
  /\ pc' = "idle" /\ faulted' = TRUE
  /\ UNCHANGED <<volume, bpb, g_ready, path, len, node, cluster, s, out>>

FatStep == OpenSector \/ ReadSector \/ Follow \/ ReadFails
FatNext == vfs_init \/ OpenBegin \/ ReadBegin \/ FatStep
FatSpec == FatInit /\ [][FatNext]_fatVars

----------------------------------------------------------------------------
(* What the volume holds, said without sector numbers.                      *)

\* The n-th cluster of the chain that starts at c: the links are the FAT's.
Link(v, c, n) ==
  LET link[i \in 0 .. n] ==
        IF i = 0 THEN c
        ELSE IF link[i - 1] \in DOMAIN v.fat THEN v.fat[link[i - 1]] % MASK
        ELSE EOF_MIN
  IN link[n]
DataClusters(v) == 2 .. v.clusters + 1
\* The chain of c has n clusters, all of the data area, and then its end.
ChainLength(v, c, n) == /\ \A i \in 0 .. n - 1 : Link(v, c, i) \in DataClusters(v)
                        /\ is_eof(Link(v, c, n))
Acyclic(v, c) == \E n \in 0 .. v.clusters : ChainLength(v, c, n)

\* The i-th cell of the file whose chain starts at c.
PerCluster(v) == v.spc * SECTOR
FileCell(v, c, i) ==
  <<Link(v, c, i \div PerCluster(v)), ((i % PerCluster(v)) \div SECTOR) + 1, (i % SECTOR) + 1>>

\* All entries of the root directory in order, and the first that a path names:
\* the path spelled in capitals is the entry's name, a dot, its extension.
RootEntries(v) ==
  LET n == CHOOSE n \in 0 .. v.clusters : ChainLength(v, v.root, n)
  IN [i \in 0 .. n * PerCluster(v) - 1 |->
        DirEntry(v, Link(v, v.root, i \div PerCluster(v)), (i % PerCluster(v)) + 1)]
Trimmed(str) ==
  LET n == CHOOSE n \in 0 .. Len(str) : /\ \A i \in 1 .. n : str[i] # Space
                                        /\ n = Len(str) \/ str[n + 1] = Space
  IN SubSeq(str, 1, n)
Spelled(name) ==
  LET ext == Trimmed(SubSeq(name, NAME + 1, NAME + EXT))
  IN Trimmed(SubSeq(name, 1, NAME)) \o (IF ext = <<>> THEN <<>> ELSE <<".">> \o ext)
Live(v) == LET all == RootEntries(v)
               end == {i \in DOMAIN all : all[i].kind = "end"}
           IN {i \in DOMAIN all : all[i].kind \in {"file", "subdir"} /\ \A j \in end : i < j}
Named(v, p) == {i \in Live(v) : Spelled(RootEntries(v)[i].name) = Capitals(WithoutSlash(p))}
\* The path has at most NAME characters, and EXT after a dot.
Fits83(p) == \E n \in 0 .. NAME, m \in 0 .. EXT :
               LET q == WithoutSlash(p)
               IN \/ m = 0 /\ Len(q) = n /\ \A i \in 1 .. n : q[i] # "."
                  \/ /\ m > 0 /\ Len(q) = n + 1 + m
                     /\ \A i \in DOMAIN q : (q[i] = ".") = (i = n + 1)

----------------------------------------------------------------------------
(* What is taken for granted of a volume (external).                        *)

\* A name and an extension, each filled up with spaces.
ShortName(str) ==
  /\ str \in Seq(Chars) /\ Len(str) = NAME + EXT /\ \A i \in DOMAIN str : str[i] # "."
  /\ \A i, j \in DOMAIN str :
       i < j /\ (j <= NAME \/ i > NAME) /\ str[i] = Space => str[j] = Space

EntryOK(e) ==
  /\ e.kind \in {"end", "deleted", "lfn", "label", "file", "subdir"}
  /\ {e.hi, e.lo, e.size} \subseteq Nat /\ StartCluster(e) < MASK
  /\ e.kind \in {"file", "subdir"} => ShortName(e.name)

\* There is a FAT, it has an entry for every cluster, and no cluster has the number
\* of an end-of-chain mark; directories hold entries.  Links may lead anywhere.
Formatted(v) ==
  /\ {v.reserved, v.num_fats, v.fat_size, v.spc, v.clusters} \subseteq Nat
  /\ v.spc > 0 /\ v.num_fats > 0 /\ v.root \in 0 .. MASK - 1
  /\ v.fat \in [0 .. v.fat_size * SECTOR - 1 -> Nat]
  /\ v.clusters + 1 < v.fat_size * SECTOR /\ v.fat_size * SECTOR <= EOF_MIN
  /\ \A c \in DOMAIN v.dir, k \in 1 .. PerCluster(v) : EntryOK(v.dir[c][k])
VolumesFormatted == \A v \in Volumes : Formatted(v)

----------------------------------------------------------------------------

\* The variables have their types, and a sound node has a file behind it.
FatTypeOK ==
  /\ g_ready \in BOOLEAN /\ faulted \in BOOLEAN
  /\ pc \in {"boot", "idle", "dir", "dirnext", "file", "filenext"}
  /\ cluster \in 0 .. MASK - 1 /\ s \in 0 .. volume.spc /\ len \in Nat
  /\ Len(out) <= len /\ pc \in {"file", "filenext"} => node.valid

\* fat32_read copies the cells of the file in their order, each once, whatever
\* reads failed and however the chain is broken further on; and all that was
\* asked for when the chain is whole and no read failed.
ReadExact ==
  node.valid =>
    /\ \A i \in 1 .. Len(out) :
         (\A j \in 0 .. i - 1 : FileCell(volume, node.start, j)[1] \in DataClusters(volume))
           => out[i] = FileCell(volume, node.start, i - 1)
    /\ (pc = "idle" /\ out # <<>> /\ ~faulted /\ Acyclic(volume, node.start)
        /\ FileCell(volume, node.start, node.size - 1)[1] \in DataClusters(volume))
         => Len(out) = len

\* vfs_open finds the first live entry of the root directory that the path
\* names, in whichever sector and cluster it is, and nothing else: not an entry
\* that was deleted, nor one behind the end of the directory.
OpenFinds ==
  (g_ready /\ pc = "idle" /\ Fits83(path) /\ path # <<>> /\ Acyclic(volume, volume.root)) =>
    /\ node.valid => LET e == RootEntries(volume)[FirstOf(Named(volume, path))]
                     IN /\ Named(volume, path) # {}
                        /\ node.start = StartCluster(e) /\ node.size = e.size
    /\ Named(volume, path) # {} /\ ~faulted => node.valid

\* The file system serves what the volume holds.
FatInv == FatTypeOK /\ ReadExact /\ OpenFinds

\* A search ends when the directory's chain does, and a read ends on every
\* chain, also on one that closes on itself: no volume keeps vfs_read busy.
CallEnds == (pc \notin {"boot", "idle"} /\ (pc \in {"dir", "dirnext"} => Acyclic(volume, volume.root))) ~> pc = "idle"
=============================================================================
