---------------------------- MODULE AtomicOutput ----------------------------
(***************************************************************************)
(* How a COPC file gets its name (copc-writer writer.rs, write_copc_inner  *)
(* and PendingOutput): a writer fills a temporary file next to the         *)
(* destination, patches it, syncs it, renames it over the destination and  *)
(* syncs the directory.  Writers are processes of their own that may share *)
(* a destination; any of them may fail, be cancelled or be killed at any   *)
(* step, and the machine may lose power.                                   *)
(*                                                                         *)
(* Abstracted: a file is the set of its sections that have been written;   *)
(* the file system is the part of POSIX the code relies on.  A rename is   *)
(* atomic; after a power loss a file holds what was synced and an          *)
(* arbitrary part of what was not, and a directory entry has the value of  *)
(* its last sync or any value given to it since.                           *)
(***************************************************************************)
EXTENDS Naturals, Sequences

CONSTANTS
  Writers,    \* each writes one file; its inode is named after it
  Before,     \* the destination before: an older file, or nothing
  MaxLosses   \* bound: power losses

ASSUME WritersAssumption == Before \notin Writers /\ MaxLosses \in Nat

VARIABLES
  pc,         \* "start", "write", "flush", "sync", "rename", "syncdir",
              \* then "ok", "err" or "gone"
  todo,       \* the sections a writer has still to write, in order
  buffer,     \* written to the BufWriter only
  content,    \* of each writer's file, as any process sees it
  synced,     \* the part of it that is on disk
  temp,       \* the writers whose temporary name exists
  entry,      \* the values the destination has had, the present one last
  durable,    \* the number of them up to the last one known to be on disk
  losses

outputVars == <<pc, todo, buffer, content, synced, temp, entry, durable, losses>>

\* In the order they are written.  The patches overwrite placeholders in
\* what was written before: the COPC info, and the offset of the first EVLR.
Sections == <<"header and vlrs", "points", "hierarchy and evlrs", "patches">>

Complete == {Sections[i] : i \in DOMAIN Sections}

Destination == entry[Len(entry)]

OutputInit ==
  /\ pc = [w \in Writers |-> "start"]
  /\ todo = [w \in Writers |-> Sections]
  /\ buffer = [w \in Writers |-> {}]
  /\ content = [w \in Writers |-> {}]
  /\ synced = [w \in Writers |-> {}]
  /\ temp = {}
  /\ entry = <<Before>>
  /\ durable = 1
  /\ losses = 0

-----------------------------------------------------------------------------
\* The input is accepted and the octree built before a file is created.
Create(w) ==
  /\ pc[w] = "start"
  /\ temp' = temp \cup {w}
  /\ pc' = [pc EXCEPT ![w] = "write"]
  /\ UNCHANGED <<todo, buffer, content, synced, entry, durable, losses>>

\* Any prefix of what is buffered may go to the file on the way: here, all
\* or nothing.
Write(w) ==
  /\ pc[w] = "write"
  /\ LET pending == buffer[w] \cup {Head(todo[w])} IN
     \/ buffer' = [buffer EXCEPT ![w] = pending] /\ UNCHANGED content
     \/ /\ buffer' = [buffer EXCEPT ![w] = {}]
        /\ content' = [content EXCEPT ![w] = @ \cup pending]
  /\ todo' = [todo EXCEPT ![w] = Tail(@)]
  /\ pc' = [pc EXCEPT ![w] = IF Len(todo[w]) = 1 THEN "flush" ELSE @]
  /\ UNCHANGED <<synced, temp, entry, durable, losses>>

\* writer.flush, writer.into_inner
Flush(w) ==
  /\ pc[w] = "flush"
  /\ content' = [content EXCEPT ![w] = @ \cup buffer[w]]
  /\ buffer' = [buffer EXCEPT ![w] = {}]
  /\ pc' = [pc EXCEPT ![w] = "sync"]
  /\ UNCHANGED <<todo, synced, temp, entry, durable, losses>>

\* Mutant (SyncFile): left out.
SyncFile_Skip(w) ==
  /\ pc[w] = "sync"
  /\ pc' = [pc EXCEPT ![w] = "rename"]
  /\ UNCHANGED <<todo, buffer, content, synced, temp, entry, durable, losses>>

\* file.sync_all
SyncFile(w) ==
  /\ pc[w] = "sync"
  /\ synced' = [synced EXCEPT ![w] = content[w]]
  /\ pc' = [pc EXCEPT ![w] = "rename"]
  /\ UNCHANGED <<todo, buffer, content, temp, entry, durable, losses>>

\* Mutant (Rename): the temporary name stays.
Rename_Link(w) ==
  /\ pc[w] = "rename"
  /\ entry' = Append(entry, w)
  /\ pc' = [pc EXCEPT ![w] = "syncdir"]
  /\ UNCHANGED <<todo, buffer, content, synced, temp, durable, losses>>

\* PendingOutput::commit, persist
Rename(w) ==
  /\ pc[w] = "rename"
  /\ entry' = Append(entry, w)
  /\ temp' = temp \ {w}
  /\ pc' = [pc EXCEPT ![w] = "syncdir"]
  /\ UNCHANGED <<todo, buffer, content, synced, durable, losses>>

\* Mutant (SyncDirectory): left out.
SyncDirectory_Skip(w) ==
  /\ pc[w] = "syncdir"
  /\ pc' = [pc EXCEPT ![w] = "ok"]
  /\ UNCHANGED <<todo, buffer, content, synced, temp, entry, durable, losses>>

\* PendingOutput::commit, sync_parent_directory on Unix
SyncDirectory(w) ==
  /\ pc[w] = "syncdir"
  /\ durable' = Len(entry)
  /\ pc' = [pc EXCEPT ![w] = "ok"]
  /\ UNCHANGED <<todo, buffer, content, synced, temp, entry, losses>>

Running(w) == pc[w] \in {"start", "write", "flush", "sync", "rename", "syncdir"}

\* Mutant (WriterFails): a failed writer publishes what it has.
WriterFails_Publish(w) ==
  /\ Running(w)
  /\ temp' = temp \ {w}
  /\ entry' = IF w \in temp THEN Append(entry, w) ELSE entry
  /\ pc' = [pc EXCEPT ![w] = "err"]
  /\ UNCHANGED <<todo, buffer, content, synced, durable, losses>>

\* Cancelled, or any error: dropping the PendingOutput removes the temporary
\* file.  An error of the directory sync comes after the rename.
WriterFails(w) ==
  /\ Running(w)
  /\ temp' = temp \ {w}
  /\ pc' = [pc EXCEPT ![w] = "err"]
  /\ UNCHANGED <<todo, buffer, content, synced, entry, durable, losses>>

\* The process is killed: its buffer is lost, its temporary file stays.
Kill(w) ==
  /\ Running(w) /\ pc[w] # "start"
  /\ buffer' = [buffer EXCEPT ![w] = {}]
  /\ pc' = [pc EXCEPT ![w] = "gone"]
  /\ UNCHANGED <<todo, content, synced, temp, entry, durable, losses>>

\* Power is lost.  A file whose rename did not last has its temporary name
\* again.  Writers that had not started run after the restart.
PowerLoss ==
  /\ losses < MaxLosses
  /\ losses' = losses + 1
  /\ pc' = [w \in Writers |-> IF Running(w) /\ pc[w] # "start" THEN "gone" ELSE pc[w]]
  /\ buffer' = [w \in Writers |-> {}]
  /\ content' \in {c \in [Writers -> SUBSET Complete] :
                     \A w \in Writers : synced[w] \subseteq c[w] /\ c[w] \subseteq content[w]}
  /\ synced' = content'
  /\ \E n \in durable..Len(entry) :
       /\ entry' = SubSeq(entry, 1, n)
       /\ durable' = n
       /\ temp' = temp \cup {entry[i] : i \in (n + 1)..Len(entry)}
  /\ UNCHANGED todo

OutputNext ==
  \/ \E w \in Writers :
       \/ Create(w) \/ Write(w) \/ Flush(w) \/ SyncFile(w) \/ Rename(w) \/ SyncDirectory(w)
       \/ WriterFails(w) \/ Kill(w)
  \/ PowerLoss

OutputSpec == OutputInit /\ [][OutputNext]_outputVars

-----------------------------------------------------------------------------
\* Every variable has its type.
TypeOK ==
  /\ pc \in [Writers -> {"start", "write", "flush", "sync", "rename", "syncdir",
                         "ok", "err", "gone"}]
  /\ todo \in [Writers -> Seq(Complete)]
  /\ buffer \in [Writers -> SUBSET Complete]
  /\ content \in [Writers -> SUBSET Complete]
  /\ synced \in [Writers -> SUBSET Complete]
  /\ temp \subseteq Writers
  /\ entry \in Seq(Writers \cup {Before}) /\ entry # <<>>
  /\ durable \in 1..Len(entry)
  /\ losses \in 0..MaxLosses

\* What is at the destination is a whole file, at every moment and whatever
\* a power loss brings back: no reader ever opens a part of one.
NeverPartial ==
  \A i \in DOMAIN entry :
    entry[i] # Before => content[entry[i]] = Complete /\ synced[entry[i]] = Complete

\* Once a writer has returned Ok, its file has been at the destination for
\* good: it can only be replaced by a later one.
OkIsDurable == \A w \in Writers : pc[w] = "ok" => \E i \in 1..durable : entry[i] = w

\* A writer that has returned left no temporary file.
NoLitter ==
  \A w \in Writers : pc[w] \in {"ok", "err"} /\ w \in temp => losses > 0 /\ pc[w] = "err"

\* The abstract writer's answers; a file that is not whole is no answer.
Answer == [w \in Writers |-> IF Running(w) THEN "none" ELSE pc[w]]

Shown ==
  [i \in DOMAIN entry |->
     IF entry[i] = Before \/ content[entry[i]] = Complete THEN entry[i] ELSE {}]

Promise == INSTANCE AtomicPublish WITH past <- Shown, settled <- durable, answer <- Answer

\* The steps of the writer, seen from the destination, are those of an
\* atomic publication.
ImplementsPublish == Promise!PSpec
=============================================================================
