----------------------------- MODULE FileSystem -----------------------------
(***************************************************************************)
(* The disk through boots, formatting, installation, calls of the FAT32    *)
(* driver and power losses.  A call (fs/fat32/fat32_driver.cpp), the       *)
(* formatting (fs/fat32/fat32.cpp, fs/installer.cpp) and each step of the  *)
(* installer is a list of sector writes that reach the disk one by one;    *)
(* the power may fail between any two of them, and the next boot decides   *)
(* from the signature of the boot sector alone whether the system is       *)
(* already installed (main.cpp).                                           *)
(***************************************************************************)
EXTENDS Fat32

CONSTANTS InstallSteps,   \* what RunInstaller does: [op, dir, name, size]
          Calls,          \* what is asked of the installed system, same form
          Paths,          \* what is opened
          Fds,            \* descriptors for files, 3 .. 15 in the code
          MaxCalls,       \* bound: calls in one behaviour
          MaxLosses       \* bound: power losses in one behaviour

VARIABLES disk,
          mode,           \* "off", "format", "install" or "ready"
          todo,           \* installation steps to go
          call,           \* the call under way, NoCall between two calls
          writes,         \* the writes it has still to do
          begun,          \* it has done at least one
          marks,          \* what has happened that leaves traces on the disk
          fds,            \* the files of g_fds
          calls, losses   \* for the bounds

vars == <<disk, mode, todo, call, writes, begun, marks, fds, calls, losses>>

NoCall == [op |-> "none"]
Format == [op |-> "format"]
Gpt(part) == <<"gpt", part>>
GptParts == {"mbr", "entries", "backupEntries", "header", "backupHeader"}
Zeros == [c \in 0 .. LastCluster |-> Free]
NewFat == [Zeros EXCEPT ![0] = EOC, ![1] = EOC, ![Root] = EOC]

(* A disk without a file system. *)
Init ==
    /\ disk = [at \in {Fat1, Fat2, Bpb} \cup {Data(c) : c \in Clusters} \cup {Gpt(p) : p \in GptParts}
                |-> IF at \in {Fat1, Fat2} THEN Zeros
                    ELSE IF at[1] = "data" THEN EmptyDir ELSE FALSE]
    /\ mode = "off"
    /\ todo = <<>>
    /\ call = NoCall
    /\ writes = <<>>
    /\ begun = FALSE
    /\ marks = {}
    /\ fds = [fd \in Fds |-> NotOpen]
    /\ calls = 0
    /\ losses = 0

-----------------------------------------------------------------------------
(* Formatting. *)

(* The protective MBR, both entry arrays, then both headers. *)
FormatDiskGPT(s) ==
    LET put(t, part) == Write(t, Gpt(part), TRUE)
    IN  put(put(put(put(put(s, "mbr"), "entries"), "backupEntries"), "header"), "backupHeader")

(* The boot sector first, then the FATs, then the root directory. *)
FormatPartitionFAT32(s) ==
    Write(Write(Write(Write(s, Bpb, TRUE), Fat1, NewFat), Fat2, NewFat), Data(Root), EmptyDir)

(* The partition before the partition table (a mutant). *)
FormattingPartitionFirst(s) == FormatDiskGPT(FormatPartitionFAT32(s))
Formatting(s) == FormatPartitionFAT32(FormatDiskGPT(s))

-----------------------------------------------------------------------------
(* Boot, installation, calls. *)

(* What FAT32 trees look like: the entries below a directory. *)
Live(d, c) == {p \in ListDirectory(d, c) : EntryAt(d, p).name \notin Dots}
RECURSIVE Tree(_, _)
Tree(d, c) ==
    LET live == Live(d, c)
        dirs == {p \in live : EntryAt(d, p).attr = "dir"}
    IN  live \cup UNION {Tree(d, EntryAt(d, p).clus) : p \in dirs}

Perform(s, c) ==
    CASE c.op = "mkdir"  -> EnsureDirectory(s, c.dir).s
      [] c.op = "copy"   -> CopyFileFrom(s, c.size, c.dir, c.name)
      [] c.op = "write"  -> WriteFile(s, To83Format(c.name), c.size, 0)
      [] c.op = "append" -> AppendFile(s, c.name, c.size, 0)
      [] c.op = "delete" -> DeleteFile(s, c.name, 0)

(* DeleteFile does not look whether it deletes a directory. *)
DeletesDirectory(c) ==
    /\ c.op = "delete"
    /\ LET p == SearchDirectory(disk, c.name, 0)
       IN  p # NoPlace /\ EntryAt(disk, p).attr = "dir"

(* AppendFile takes the last cluster of the chain for the one in which the  *)
(* file ends.  It is another one when an earlier AppendFile was interrupted *)
(* or ran out of clusters.                                                  *)
AppendsElsewhere(c) ==
    /\ c.op = "append"
    /\ LET p == FindDirectoryEntry(disk, c.name, 0)
           slack == Len(Chain(disk, EntryAt(disk, p).clus)) * ClusterSize - EntryAt(disk, p).size
       IN  p # NoPlace /\ slack \notin 0 .. ClusterSize - 1

Start(c) ==
    LET done == Perform(Session(disk), c)
    IN  /\ call' = c
        /\ writes' = done.log
        /\ begun' = FALSE
        /\ marks' = marks \cup done.said
                     \cup (IF DeletesDirectory(c) THEN {"directory deleted"} ELSE {})
                     \cup (IF AppendsElsewhere(c) THEN {"misplaced"} ELSE {})

(* What the driver does with a disk on which a deletion or the formatting   *)
(* was torn apart is not modelled further than the next boot.               *)
Torn == marks \cap {"torn delete", "torn format"} # {}

PowerOn ==
    /\ mode = "off"
    /\ IF disk[Bpb]
       THEN mode' = "ready" /\ UNCHANGED <<call, writes, begun>>
       ELSE /\ mode' = "format"
            /\ call' = Format
            /\ writes' = Formatting(Session(disk)).log
            /\ begun' = FALSE
    /\ UNCHANGED <<disk, todo, marks, fds, calls, losses>>

(* The device writes the next sector. *)
WriteSector ==
    /\ writes # <<>>
    /\ disk' = [disk EXCEPT ![Head(writes)[1]] = Head(writes)[2]]
    /\ writes' = Tail(writes)
    /\ begun' = TRUE
    /\ UNCHANGED <<mode, todo, call, marks, fds, calls, losses>>

(* Without a USB mass storage device RunInstaller does nothing. *)
Return ==
    /\ call # NoCall
    /\ writes = <<>>
    /\ call' = NoCall
    /\ IF mode = "format"
       THEN mode' = "install" /\ todo' \in {InstallSteps, <<>>}
       ELSE UNCHANGED <<mode, todo>>
    /\ UNCHANGED <<disk, writes, begun, marks, fds, calls, losses>>

RunInstaller ==
    /\ mode = "install"
    /\ call = NoCall
    /\ IF todo = <<>>
       THEN mode' = "ready" /\ UNCHANGED <<todo, call, writes, begun, marks>>
       ELSE Start(Head(todo)) /\ todo' = Tail(todo) /\ UNCHANGED mode
    /\ UNCHANGED <<disk, fds, calls, losses>>

Idle == mode = "ready" /\ call = NoCall /\ calls < MaxCalls /\ ~Torn

Call(c) ==
    /\ Idle
    /\ Start(c)
    /\ calls' = calls + 1
    /\ UNCHANGED <<disk, mode, todo, fds, losses>>

(* Open, Read and Close of a file; the first free descriptor is taken. *)
OnFds(new) ==
    /\ fds' = new
    /\ calls' = calls + 1
    /\ UNCHANGED <<disk, mode, todo, call, writes, begun, marks, losses>>

Open(path) ==
    LET free == {fd \in Fds : fds[fd] = NotOpen}
    IN  /\ Idle
        /\ free # {}
        /\ OnFds([fds EXCEPT ![Min(free)] = FileFD(disk, path)])

Read(fd, len) ==
    /\ Idle
    /\ fds[fd] # NotOpen
    /\ OnFds([fds EXCEPT ![fd] = ReadFD(fds[fd], len)])

Close(fd) ==
    /\ Idle
    /\ fds[fd] # NotOpen
    /\ OnFds([fds EXCEPT ![fd] = NotOpen])

PowerLoss ==
    /\ mode # "off"
    /\ losses < MaxLosses
    /\ mode' = "off"
    /\ todo' = <<>>
    /\ call' = NoCall
    /\ writes' = <<>>
    /\ begun' = FALSE
    /\ marks' = marks \cup {"power loss"}
                  \cup (IF call.op = "delete" /\ begun /\ writes # <<>> THEN {"torn delete"} ELSE {})
                  \cup (IF call = Format /\ disk[Bpb] /\ writes # <<>> THEN {"torn format"} ELSE {})
    /\ fds' = [fd \in Fds |-> NotOpen]
    /\ losses' = losses + 1
    /\ UNCHANGED <<disk, calls>>

Next ==
    \/ PowerOn
    \/ WriteSector
    \/ Return
    \/ RunInstaller
    \/ \E c \in Calls : Call(c)
    \/ \E path \in Paths : Open(path)
    \/ \E fd \in Fds, len \in 1 .. ClusterSize : Read(fd, len)
    \/ \E fd \in Fds : Close(fd)
    \/ PowerLoss

Spec == Init /\ [][Next]_vars

-----------------------------------------------------------------------------
(* From here on the file system is in use and has not been torn apart. *)
Mounted == mode \in {"install", "ready"} /\ ~Torn
Nodes == Tree(disk, Root)
ChainOf(p) == Chain(disk, EntryAt(disk, p).clus)
ClustersOf(p) == LET chain == ChainOf(p) IN {chain[k] : k \in DOMAIN chain}

(* DeleteFile frees the clusters of an entry before it marks the entry. *)
BeingDeleted(p) ==
    call.op = "delete" /\ p = SearchDirectory(disk, call.name, 0)

(***************************************************************************)
(* Whatever calls are made and wherever the power fails outside DeleteFile,*)
(* every entry leads to a chain that ends with the end mark, and no cluster*)
(* belongs to two of them, twice to one, or to the root as well:           *)
(* AllocateCluster never gives out a cluster that is in use.               *)
(***************************************************************************)
ChainsSound ==
    LET nodes == Nodes
        used == UNION {ClustersOf(p) : p \in nodes}
    IN  Mounted =>
            /\ \A p \in nodes :
                 LET chain == ChainOf(p)
                 IN  BeingDeleted(p) \/ disk[Fat1][chain[Len(chain)]] = EOC
            /\ Root \notin used
            /\ Cardinality(used) = MapThenSumSet(LAMBDA p : Len(ChainOf(p)), nodes)

(***************************************************************************)
(* A file that is listed in a directory reads back as what was written and *)
(* appended, unit by unit, during every other call and after every power   *)
(* loss outside DeleteFile: the entry becomes visible, and grows, only     *)
(* after the data and the links are on the disk.  A disk that was full     *)
(* cuts it short.  The exception is an AppendFile to a file whose last     *)
(* cluster is not the one in which it ends.                                *)
(***************************************************************************)
ContentIntact ==
    Mounted /\ "misplaced" \notin marks =>
        \A p \in Nodes : EntryAt(disk, p).attr = "file" /\ ~BeingDeleted(p) =>
            LET content == ReadFile(disk, EntryAt(disk, p))
            IN  \A k \in DOMAIN content :
                    \/ content[k] = <<EntryAt(disk, p).name, k>>
                    \/ "disk full" \in marks /\ content[k] = Blank

(***************************************************************************)
(* An open file reads as the file was when it was opened, from the first   *)
(* unit to the last, although it may have been deleted or extended since.  *)
(***************************************************************************)
OpenFilesIntact ==
    marks = {} =>
        \A fd \in Fds :
            /\ fds[fd].pos \in 0 .. Len(fds[fd].data)
            /\ \E name \in {To83Format(n) : n \in Names} :
                 \A k \in DOMAIN fds[fd].data : fds[fd].data[k] = <<name, k>>

(***************************************************************************)
(* Between calls every cluster in use belongs to a file or a directory,    *)
(* unless the power failed, the disk or a directory was full, or a         *)
(* directory was deleted with what it held.                                *)
(***************************************************************************)
NothingLeaks ==
    Mounted /\ call = NoCall /\ marks = {} =>
        {c \in Clusters : disk[Fat1][c] # Free} = {Root} \cup UNION {ClustersOf(p) : p \in Nodes}

(***************************************************************************)
(* The backup FAT only ever takes the value of the FAT: it is never ahead, *)
(* and the next write to it repairs what a power loss left different.      *)
(***************************************************************************)
BackupFollows == [][disk'[Fat2] # disk[Fat2] => disk'[Fat2] = disk[Fat1]]_vars

(***************************************************************************)
(* A boot sector that makes the next boot skip the formatting is written   *)
(* only when the partition table is complete in both copies.               *)
(***************************************************************************)
SignedDiskHasGpt == disk[Bpb] => \A p \in GptParts : disk[Gpt(p)]
=============================================================================
