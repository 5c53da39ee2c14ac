------------------------------- MODULE Fat32 -------------------------------
(***************************************************************************)
(* The FAT32 driver (fs/fat32/fat32_driver.cpp) as functions of a session: *)
(* the disk as the driver sees it and the list of the sector writes it has *)
(* issued, in order, with what it said.  The driver is sequential and      *)
(* caches nothing, so what a call writes is determined by the disk at its  *)
(* start; FileSystem puts the writes on the disk one by one and may cut    *)
(* the power between two.                                                  *)
(*                                                                         *)
(* The disk is a function of addresses: the two copies of the (only) FAT   *)
(* sector that is ever allocated from, the boot sector, the GPT and the    *)
(* clusters.  A cluster holds a directory, a sequence of entries, or data, *)
(* a sequence of units; unit k of the file NAME is the token <<NAME, k>>.  *)
(***************************************************************************)
EXTENDS Integers, Sequences, FiniteSetsExt

CONSTANTS LastCluster,    \* 127 in the code: clusters 2 .. LastCluster
          ClusterSize,    \* units of data in a cluster
          DirSize,        \* directory entries in a cluster
          Names,          \* names as users and paths give them
          EightThree,     \* the 8.3 form of each name
          MaxFileSize     \* kMaxFileSize, the largest file that can be opened

Clusters == 2 .. LastCluster
Root == 2
Free == 0
EOC == LastCluster + 1    \* 0x0FFFFFF8 and above
Fat1 == <<"fat", 1>>
Fat2 == <<"fat", 2>>
Bpb == <<"bpb", 0>>
Data(c) == <<"data", c>>

Unused == [name |-> "0x00"]
Deleted == [name |-> "0xE5"]
Dots == {".", ".."}
EmptyDir == [i \in 1 .. DirSize |-> Unused]
Entry(name, attr, clus, size) ==
    [name |-> name, attr |-> attr, clus |-> clus, size |-> size]

Blank == <<"", 0>>
Units(name, from, len) ==
    [k \in 1 .. ClusterSize |-> IF k <= len THEN <<name, from + k>> ELSE Blank]

(* A session, one sector write of it, and a message on the console. *)
Session(disk) == [disk |-> disk, log |-> <<>>, said |-> {}]
Write(s, at, val) ==
    [s EXCEPT !.disk = [s.disk EXCEPT ![at] = val], !.log = Append(s.log, <<at, val>>)]
Say(s, message) == [s EXCEPT !.said = s.said \cup {message}]
Result(s, c) == [s |-> s, c |-> c]

(* Upper case, the name cut to eight characters, the extension to three:    *)
(* different names may have the same form.                                  *)
To83Format(name) == EightThree[name]
IsNameEqual(entryName, name) == entryName = To83Format(name)

-----------------------------------------------------------------------------
(* The FAT. *)

GetNextCluster(disk, c) == disk[Fat1][c]

AllocateCluster(s) ==
    LET free == {c \in Clusters : s.disk[Fat1][c] = Free}
        fat == [s.disk[Fat1] EXCEPT ![Min(free)] = EOC]
    IN  IF free = {} THEN Result(Say(s, "disk full"), 0)
        ELSE Result(Write(Write(s, Fat1, fat), Fat2, fat), Min(free))

(* The backup is written before the FAT (a mutant). *)
LinkClusterBackupFirst(s, current, next) ==
    LET fat == [s.disk[Fat1] EXCEPT ![current] = next]
    IN  Write(Write(s, Fat2, fat), Fat1, fat)

LinkCluster(s, current, next) ==
    LET fat == [s.disk[Fat1] EXCEPT ![current] = next]
    IN  Write(Write(s, Fat1, fat), Fat2, fat)

(* Only the first cluster is freed (a mutant). *)
FreeChainFirst(s, current) ==
    IF current \in Clusters THEN LinkCluster(s, current, Free) ELSE s

RECURSIVE FreeChain(_, _)
FreeChain(s, current) ==
    IF current \in Clusters
    THEN FreeChain(LinkCluster(s, current, Free), GetNextCluster(s.disk, current))
    ELSE s

(* The clusters that a walk along the FAT visits; more than there are only  *)
(* on a loop.                                                               *)
RECURSIVE Walk(_, _, _)
Walk(disk, c, steps) ==
    IF c \in Clusters /\ steps > 0
    THEN <<c>> \o Walk(disk, GetNextCluster(disk, c), steps - 1)
    ELSE <<>>
Chain(disk, c) == Walk(disk, c, LastCluster)

-----------------------------------------------------------------------------
(* Directories.  A place is a cluster and an index in it. *)

DirCluster(parent) == IF parent = 0 THEN Root ELSE parent
NoPlace == [at |-> 0, i |-> 0]
EntryAt(disk, p) == disk[Data(p.at)][p.i]

(* The first entry of that name in front of the end mark, cluster by cluster. *)
Hits(disk, name, c) ==
    {i \in 1 .. DirSize :
        /\ IsNameEqual(disk[Data(c)][i].name, name)
        /\ \A j \in 1 .. i : disk[Data(c)][j] # Unused}

(* FindDirectoryEntry gives up at the first end mark ... *)
FindDirectoryEntry(disk, name, parent) ==
    LET chain == Chain(disk, DirCluster(parent))
        found == {k \in DOMAIN chain :
                    /\ Hits(disk, name, chain[k]) # {}
                    /\ \A j \in 1 .. k - 1 : Unused \notin {disk[Data(chain[j])][i] : i \in 1 .. DirSize}}
    IN  IF found = {} THEN NoPlace
        ELSE [at |-> chain[Min(found)], i |-> Min(Hits(disk, name, chain[Min(found)]))]

(* ... the loops of DeleteFile and AppendFile go on with the next cluster. *)
SearchDirectory(disk, name, parent) ==
    LET chain == Chain(disk, DirCluster(parent))
        found == {k \in DOMAIN chain : Hits(disk, name, chain[k]) # {}}
    IN  IF found = {} THEN NoPlace
        ELSE [at |-> chain[Min(found)], i |-> Min(Hits(disk, name, chain[Min(found)]))]

(* Only the first cluster of the directory is tried; a full directory is    *)
(* reported on the console and the caller goes on.                          *)
AddDirectoryEntry(s, entry, parent) ==
    LET at == Data(DirCluster(parent))
        slots == {i \in 1 .. DirSize : s.disk[at][i] \in {Unused, Deleted}}
    IN  IF slots = {} THEN Say(s, "directory full")
        ELSE Write(s, at, [s.disk[at] EXCEPT ![Min(slots)] = entry])

CreateDirectory(s, name83, parent) ==
    LET new == AllocateCluster(s)
        dots == [EmptyDir EXCEPT ![1] = Entry(".", "dir", new.c, 0),
                                 ![2] = Entry("..", "dir", parent, 0)]
        made == LinkCluster(Write(new.s, Data(new.c), dots), new.c, EOC)
    IN  IF new.c = 0 THEN new
        ELSE Result(AddDirectoryEntry(made, Entry(name83, "dir", new.c, 0), parent), new.c)

(* Along the path; 0 when a file is in the way or the disk is full. *)
RECURSIVE EnsureFrom(_, _, _)
EnsureFrom(s, current, path) ==
    IF path = <<>> THEN Result(s, current)
    ELSE LET p == FindDirectoryEntry(s.disk, Head(path), current)
             new == CreateDirectory(s, To83Format(Head(path)), current)
         IN  IF p # NoPlace
             THEN IF EntryAt(s.disk, p).attr = "dir"
                  THEN EnsureFrom(s, EntryAt(s.disk, p).clus, Tail(path))
                  ELSE Result(s, 0)
             ELSE IF new.c = 0 THEN new ELSE EnsureFrom(new.s, new.c, Tail(path))

EnsureDirectory(s, path) == EnsureFrom(s, Root, path)

-----------------------------------------------------------------------------
(* Files. *)

(***************************************************************************)
(* The loop of WriteFile and AppendFile: a new cluster for every part of   *)
(* the rest, linked behind the previous one (0: none) and then filled.     *)
(***************************************************************************)
RECURSIVE Extend(_, _, _, _, _)
Extend(s, prev, name, from, remaining) ==
    IF remaining <= 0 THEN [s |-> s, prev |-> prev, full |-> FALSE]
    ELSE LET new == AllocateCluster(s)
             linked == IF prev = 0 THEN new.s ELSE LinkCluster(new.s, prev, new.c)
             len == Min({remaining, ClusterSize})
         IN  IF new.c = 0 THEN [s |-> new.s, prev |-> prev, full |-> TRUE]
             ELSE Extend(Write(linked, Data(new.c), Units(name, from, len)),
                         new.c, name, from + len, remaining - len)

(* The last cluster gets its end mark once more. *)
EndChain(ext) == LinkCluster(ext.s, ext.prev, EOC)

(* The entry is always a new one; when the disk is full the clusters that   *)
(* have been taken stay taken.                                              *)
WriteFile(s, name83, size, parent) ==
    LET first == AllocateCluster(s).c
        ext == Extend(s, 0, name83, 0, size)
    IN  IF size = 0 THEN s
        ELSE IF ext.full THEN ext.s
        ELSE AddDirectoryEntry(EndChain(ext), Entry(name83, "file", first, size), parent)

(* The data goes to the start of the last cluster (a mutant). *)
FillLastClusterFromStart(s, last, e, size) ==
    Write(s, Data(last), Units(e.name, e.size, Min({size, ClusterSize})))

(* Step 4 of AppendFile: what is unused of the last cluster is filled. *)
FillLastCluster(s, last, e, size) ==
    LET used == ((e.size - 1) % ClusterSize) + 1
    IN  Write(s, Data(last), [k \in 1 .. ClusterSize |->
                IF k \in used + 1 .. used + size THEN <<e.name, e.size - used + k>>
                ELSE s.disk[Data(last)][k]])

(* Step 6 of AppendFile: the entry is looked for once more.  The size is     *)
(* set to the full one even when the disk filled up half way.               *)
UpdateEntry(s, name, parent, e, size, first) ==
    LET q == SearchDirectory(s.disk, name, parent)
    IN  Write(s, Data(q.at), [s.disk[Data(q.at)] EXCEPT
                                 ![q.i].size = e.size + size,
                                 ![q.i].clus = IF e.size = 0 THEN first ELSE @])

(* name is given in the 8.3 form. *)
AppendFile(s, name, size, parent) ==
    LET p == FindDirectoryEntry(s.disk, name, parent)
        e == EntryAt(s.disk, p)
        chain == Chain(s.disk, e.clus)
        start == IF e.clus = 0 THEN AllocateCluster(s) ELSE Result(s, chain[Len(chain)])
        first == IF e.clus = 0 THEN start.c ELSE e.clus
        room == (ClusterSize - (e.size % ClusterSize)) % ClusterSize
        filled == IF room > 0 THEN FillLastCluster(start.s, start.c, e, size) ELSE start.s
        ext == Extend(filled, start.c, e.name, e.size + room, size - room)
    IN  IF size = 0 THEN s
        ELSE IF p = NoPlace THEN WriteFile(s, name, size, parent)
        ELSE IF start.c = 0 THEN start.s
        ELSE UpdateEntry(EndChain(ext), name, parent, e, size, first)

(* The entry is not marked (a mutant). *)
DeleteFileKeepsEntry(s, name, parent) ==
    LET p == SearchDirectory(s.disk, name, parent)
    IN  IF p = NoPlace THEN s ELSE FreeChain(s, EntryAt(s.disk, p).clus)

(* Clusters first, the entry afterwards; directories are not told apart. *)
DeleteFile(s, name, parent) ==
    LET p == SearchDirectory(s.disk, name, parent)
        freed == FreeChain(s, EntryAt(s.disk, p).clus)
    IN  IF p = NoPlace THEN s
        ELSE Write(freed, Data(p.at), [s.disk[Data(p.at)] EXCEPT ![p.i] = Deleted])

(* dir is the directory part of the destination, <<>> for the root. *)
CopyFileFrom(s, size, dir, name) ==
    LET parent == EnsureDirectory(s, dir)
    IN  IF size = 0 THEN s
        ELSE IF dir = <<>> THEN WriteFile(s, To83Format(name), size, 0)
        ELSE IF parent.c = 0 THEN parent.s
        ELSE WriteFile(parent.s, To83Format(name), size, parent.c)

(* The entry that a path leads to; every segment but the last a directory. *)
RECURSIVE GetFileEntry(_, _, _)
GetFileEntry(disk, path, current) ==
    LET p == FindDirectoryEntry(disk, Head(path), current)
    IN  IF p = NoPlace \/ Len(path) = 1 THEN p
        ELSE IF EntryAt(disk, p).attr = "dir"
             THEN GetFileEntry(disk, Tail(path), EntryAt(disk, p).clus)
             ELSE NoPlace

(* What ReadFile puts into the buffer.  Cluster 0 is not on the disk, and  *)
(* the size that is returned is always that of the entry.                  *)
ReadFile(disk, e) ==
    LET chain == Chain(disk, e.clus)
        unit(k) == LET n == (k - 1) \div ClusterSize
                   IN  IF n < Len(chain) THEN disk[Data(chain[n + 1])][((k - 1) % ClusterSize) + 1]
                       ELSE Blank
    IN  [k \in 1 .. e.size |-> unit(k)]

(* The entries that ls shows of a directory. *)
ListDirectory(disk, cluster) ==
    LET chain == Chain(disk, cluster)
    IN  {p \in [at : {chain[k] : k \in DOMAIN chain}, i : 1 .. DirSize] :
            /\ \A j \in 1 .. p.i : disk[Data(p.at)][j] # Unused
            /\ EntryAt(disk, p) # Deleted}

-----------------------------------------------------------------------------
(* Open files: the content is copied when the file is opened. *)

NotOpen == [data |-> <<>>, pos |-> 0]

(* An empty, missing or too large file is not opened: the size is cut to    *)
(* the limit, and ReadFile then refuses the buffer.                         *)
FileFD(disk, path) ==
    LET p == GetFileEntry(disk, path, Root)
    IN  IF p # NoPlace /\ EntryAt(disk, p).size \in 1 .. MaxFileSize
        THEN [data |-> ReadFile(disk, EntryAt(disk, p)), pos |-> 0]
        ELSE NotOpen

(* The position moves past the end (a mutant). *)
ReadFDUnclamped(f, len) == [f EXCEPT !.pos = f.pos + len]

ReadFD(f, len) == [f EXCEPT !.pos = f.pos + Min({len, Len(f.data) - f.pos})]
=============================================================================
