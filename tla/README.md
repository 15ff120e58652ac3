# Hexarc: TLA+ models of its database and its messages

Hexarc is an integrated stack for web services: a set of engines (database, web
server, script language, cluster administration) that run in one or more
processes per machine and exchange messages. This project models two parts of
it. AeonDB (`src/AeonDb`) is the database, which has to keep what it was given
through crashes, failed disks and any order of its threads. ArchonEngine
(`src/ArchonEngine`) is what the engines are built on: the sessions in which
they wait for each other's answers, the queue that takes messages from process
to process, and Mnemosynth, the configuration that all of them share.

The modules are checked with TLC on small instances. `AeonViewProofs`,
`SecondaryViewProofs`, `RowScanProofs`, `TableVolumesProofs`, `SessionsProofs`,
`InterprocessQueueProofs`, `FileUploadsProofs` and `MnemosynthProofs` hold
theorems about eight of them, checked by TLAPS, for all instances.

## 1. Inventory

### AeonDB

| Component | State | Operations | What makes it correct |
|---|---|---|---|
| Table on one volume: `CAeonTable`, `CAeonView`, `CRowInsertLog`, `CAeonSegment` | memory rows, recovery log, stack of immutable segment files, `m_Seq` | insert, save, merge, release of merged files, crash, log replay, open | lookups return the last insert that landed; an insert is atomic; a save, a merge or a reopen changes no row |
| Secondary views: `CAeonTable::Insert`, `Recreate`, `DeleteView`, `HousekeepingUpdateView` | per view the same state again, `m_bUpdateNeeded`, the descriptor, row IDs | insert into all views, add, background build, delete | once up to date, a view shows exactly the table; row IDs are unique; a stale view is eventually updated |
| Scans: `CAeonTable::GetRows`, `CRowIterator` | a cursor over the live memory array and the segments | getRows, getMoreRows, select a key, advance | every lasting row once, in order, with data it had |
| Volumes: `RecoveryRestore`, `RecoveryBackup`, `OnVolumesChanged`, `HousekeepingBackup`, `HousekeepingValidateBackup`, `Open` | primary and backup volume, lost, needed and validate flags, housekeeping state | fail-over, copy, validation, loss and return of a volume, choice of the volume to open | no acknowledged row is lost while a trusted volume has it; a backup believed complete is; the table is given up only when nothing is left; no thread waits for ever |
| Uploads: `CAeonTable::UploadFile`, `CAeonUploadSessions` | the file descriptor, the files, one session per upload with the ranges it still expects | a part of an upload, completion, version check, deletion, expiry | the file of a descriptor holds what was uploaded; no file without a descriptor; no version overwritten unseen |
| Segment block cache | blocks with reference counts | load, unload, free | no referenced block is freed |
| Engine, handlers, diagnostics | table list, wait sessions | the `Aeon.*` messages | each message maps to one table operation |
| Keys and row values | none | encode, compare, compress | encoding keeps order; compression round-trips |

How they meet: every table operation takes the table's recursive critical
section `m_cs`. Message handlers run on several engine threads; housekeeping
runs on the `Arc.housekeeping` timer, and releases `m_cs` while it copies a
volume, merges segments or builds a view; readers release it before they read.
So the hard behaviour is of four kinds: a crash between two file operations, an
operation of another thread inside one of these unlocked stretches, a volume
that fails or returns at any of these times, and state read before an unlock
and used after it. `PROJECT.json` lists each as a hazard at its line.

### ArchonEngine

| Component | State | Operations | What makes it correct |
|---|---|---|---|
| Sessions and timers: `CSessionManager`, `ISessionHandler`, `CTimedMessageQueue`, `CSimpleProcessingThread`, `CSimpleEventThread` | tickets of sessions with their counters, the pool and list of timers, the messages on the engine's port | start, reply, error, keep-alive, timeout, delete, collection | a client is answered once; a timeout ends only what it was set for; no freed session is reached; the timer thread sleeps past no timer |
| Queue between processes: `CInterprocessMessageQueue`, `CInterprocessMessageThread` | named semaphore, event and memory, and in the memory an allocator and a ring of messages | create, open, enqueue, dequeue, death of a process | accepted messages are delivered once and in order; the memory stays whole; everyone gets out of the critical section |
| Mnemosynth: `CMnemosynthDb`, `CMnemosynthEngine`, and what `CExarchEngine` does with it | in every module a copy of all entries with sequence numbers, checkpoints | write, delete, update within and between machines, start and stop of a module | a copy is a consistent prefix of what was written; a confirmed checkpoint is true; copies converge |
| Transporter, ports, in-process queues; Exarch (processes, machines, upgrades); Esper (network) | addresses, machines, sockets | send, connect, supervise | messages get where they are addressed |

How they meet: an engine's threads take messages off one port, each in three
steps (look the session up, process under its lock, delete), while another
thread turns timers into messages to the same port. Processes meet only in
shared memory under a named semaphore, which no one gives back for a process
that dies. A central module sends Mnemosynth's updates to the modules of its
machine through those queues and to other machines through Exarch, whose three
threads may swap two of them.

### The rest of Hexarc

Hyperion (HTTP server, services, task scheduler), Hexe and HexeEngine (language
and virtual machine), AEON (data types and formats), Cryptosaur (users),
Arcology (start-up, diagnostics), ArchonClient and AI1 (clients), Foundation and
the small libraries. They are listed in `PROJECT.json` with the reason each is
not modelled. `CMachineStorage` (which volumes there are, and the ring that
chooses a backup) is part of the volumes model.

## 2. Plan

Modules, in the order of importance of what they describe:

1. `RowStore`, `AeonView`: one view on one volume, against an abstract durable
   map. **Done**, with the inductive invariant and its proofs.
2. `SecondaryView`: a second view beside it. **Done**, with proofs of its
   safety.
3. `RowScan`: readers without the lock. **Done**, without per-dimension limits.
4. `TableVolumes`: the table on several volumes. **Done**, without file tables,
   with proofs of its safety.
5. `Sessions` over `TimedQueue`: threads, sessions and timers of an engine.
   **Done**, with proofs.
6. `InterprocessQueue` over `BlockHeap`, against the abstract `MessageQueue`.
   **Done**, for one queue object per process, with proofs of its invariants
   and of the refinement.
7. `Mnemosynth`: modules, machines, restarts and checkpoints. **Done**, without
   machines that leave, with proofs of what every copy reads.
8. `FileUploads`: the parts of uploads to one path. **Done**, on one volume,
   with proofs of its safety.
9. Left: iterator limits, `Mutate`, the block cache and the descriptor's rename
   window in AeonDB; the other session handlers; the port map, the in-process
   queue and machines that leave in ArchonEngine; the start and upgrade of
   processes by Exarch; Esper's connections; Hyperion's task scheduler.

The set of runs is kept small enough to be repeated at every change: one or two
per module, each with the windows closed that break its properties. The table
of windows in section 4 says how to open one.

Composition: `AeonView` refines `RowStore` (an `INSTANCE` with a refinement
mapping). `SecondaryView`, `RowScan` and `TableVolumes` each keep, of a view,
only what `AeonView` shows of it, namely that its memory rows over its segments
give the last insert, and that the log replays the memory rows. They share no
variables: a composed state space would be the product of their histories, and
the interactions that matter across two components (flush against update, flush
against backup, fail-over against merge) are inside one of the modules each.
`InterprocessQueue` refines `MessageQueue`, and it contains `BlockHeap`, its
allocator, as operators on a heap, as `Sessions` contains `TimedQueue`.
`Mnemosynth` takes from the queue what `InterprocessQueue` shows: messages of
one sender arrive in order, and are lost only with their receiver.

Theorems left to prove: the two invariants of `Mnemosynth` about checkpoints.

## 3. The modules

### AeonView and RowStore

`rows` is `m_pRows`, `log` the complete records of the recovery file and `torn`
a partial record after them, `disk` the segment files, `segments` the ones in
`m_Segments`, `retired` the ones marked for delete and still referenced.
`op` is the insert or save that holds `m_cs`: it has a middle, in which the
process may die, and nothing else that needs `m_cs` runs. `merge` is the merge
that housekeeping makes with `m_cs` released. `store` is history: what each row
must be.

* `BeginInsert`, `EndInsert`: `CAeonView::Insert` puts the row in memory, then
  `CRowInsertLog::Insert` writes it through. The write of an insert cut short
  lands whole, in part or not at all (`Crash`).
* `BeginSave`, `SaveWritten`, `SegmentSaveComplete`: `CAeonTable::Save`; the
  segment carries the current `m_Seq`, the log is truncated at the end.
* `BeginMerge`, `MergeWritten`, `MergeFailed`, `SegmentMergeComplete`,
  `MergeToNothing`, `Release`: `HousekeepingMergeSegments`.
  `GetSegmentsToMerge` chooses by file size, so any adjacent pair may be chosen.
  Equal sequence numbers may be in either order in the list, so `Newest`,
  `MayBeOldest` and `MayNotBeOldest` leave that open. A replaced file goes when
  its last reference does, in any order.
* `OpenLog`, `RecoverRow`, `RecoverEnd`, `OpenSegment`, `OpenFailed`,
  `OpenDone`: `CAeonTable::Open`. The table fails if a segment file was left
  unfinished; `m_Seq` becomes the highest segment's plus the records replayed.

`RowStore` is the promise: a map in which an insert is applied when it is
acknowledged or, at a crash, applied or dropped. The mapping takes as the
abstract store what a reopen would recover from the volume now.

### SecondaryView

The table's operations on two views at once. A row is a value and a row ID; an
entry of the view is the pair, which the code appends to the key so that equal
values do not collide. Because each operation holds `m_cs`, each is one action;
`CrashInInsert` and `CrashInFinish` are the crashes in the middle of one.
`task` is an update under way: `from` the segments its iterator holds, `left`
the rows it has not read, `batch` and `created` the entries gathered and the
entries in segment files not yet part of the view. `orphans` are files on the
volume that the running view has not opened and a reopen would.

### RowScan

One client and its iterator (`scan`), with writers. Each call of the iterator
that takes the row array's lock is one action: the array may change between any
two. `count` is the number of rows when the iterator was made; `pos` and `key`
are the cursor of each source; while `live`, positions refer to the array as it
is now. `out` is what the client has received, `held` the data each row has had
since the scan began.

### TableVolumes

`db` is the table with its volumes as one record, so that the recovery
functions, which call each other, are operators from a table to a table
(`RecoveryBackup`, `RecoveryFailure`, `RestoreTo`, `SaveDesc`, `Save`). `hk` is
housekeeping's state with what it holds across the unlocked stretch (`from`,
`to`, the segments left to copy; the merge and its volume). `copies` are saved
segments whose copy to the backup is still to be made; the code copies a flush's
segments with `m_cs` released, and those of housekeeping's own save before it
returns: the model lets both be late. `readers` have met a disk error and not
reported it yet. `wait` is a `RecoveryRestore` that waits for housekeeping,
`"locked"` when its caller's hold on `m_cs` remains. `owed` is history: the
acknowledged rows that are in memory, on the primary volume or, when that has
failed, on a backup that is not marked lost or needed. A crash gives up what
was only in memory, unless the log has it.

### TimedQueue and Sessions

A timer queue is a record: `pool` with its two links per entry, the ends `first`
and `last` of the list in use, the start `free` of the other, and whether the
timer thread's `event` is set. Each method of `CTimedMessageQueue` is an
operator on it, made of assignments to one field at a time. Of the time of a
timer only the order of the list is kept, so `InsertToList` may stop at any of
the places where its search stops for some delay.

`Sessions` is an engine. `table` and `freeIDs` are the `TIDTable` of tickets: a
slot that is used again has another counter. `sessions` are the handlers in the
order of their start (a `CMessageSerializerSession`: a list of commands, each
with a timeout), `deleted` those removed and not yet collected, `freed` those
whose memory is gone. `calls` are commands that other engines have yet to
answer, `queue` the messages on the port, `workers` what each thread does:
nothing, `"process"` a message with its session looked up, or `"delete"` a
session by its ticket. `armed` is the timer that the timer thread sleeps for.

* `StartSession`; `Answer` and `KeepAlive` are the other engines.
* `Take`, then `ProcessMessage`, `ProcessTimeout` or `ProcessKeepAlive`, then
  `Delete`: the three steps of `CSimpleProcessingThread`.
* `Mark`: the collection, which runs only when no thread is in a message.
* `Arm`, `Wake`, `Fire`: `CSimpleEventThread` and `GetNextTimeout`.

### BlockHeap, MessageQueue and InterprocessQueue

`BlockHeap` is the allocator in an array of words, with the sizes, the free
list and the joining of neighbours that the code does only when nothing fits.
`InterprocessQueue` has the named objects (`handles`: who holds each; `lock`,
`event`), the memory (`heap`, the `slots` of the ring, `head`, `tail`) and `at`,
where each process is: creating its queue object by object, opening it object
by object (each of these opens creates what does not exist yet, `New`, and has to
close it again), waiting for the semaphore, or inside. `Opens` and `Starts` are
the steps to a queue, `LockToEnqueue` and `LockToDequeue` enter, `Leave` does the
work and leaves; `Deliver` is the receiver's thread, `Die` the death of any
process at any step. `KeepsPromise` maps it to `MessageQueue`: pending are the
messages the thread has taken followed by those in the ring.

### Mnemosynth

`db` has for every module the record of its `CMnemosynthDb`: entries with owner
and sequence number, endpoints with what has been received and sent, the next
sequence number, whether a delta is needed. `inbox` is the queue of messages of
each engine's one thread. `pid` and `start` are what Exarch knows of a module's
process, `waiting` and `arcology` the checkpoints that a module or the arcology
waits for. `Write` and `OnDbModified` are the writing module; `OnUpdate`,
`NotifyOnArcologyUpdate`, `NotifyOnEndpointUpdate` and `OnEndpointUpdated` follow
an update and its confirmation; `OnMachineConnection` sends a full update to a
machine just met; `OnModuleStart`, `MsgOnModuleStart`, `Stop` and
`MsgOnModuleStop` are a module's life as Exarch writes it into Mnemosynth;
every key has one writer, except that `MsgOnModuleStop` deletes the stopped
module's ports (`PortsOf`, written by the module itself otherwise);
`Reorder` and `Lose` are what may happen between machines.

### FileUploads

One path of a file table. `row` is its descriptor, `files` every file ever made
(where it is, its text, and the text last flushed), `sessions` the upload
sessions with the ranges they expect, `threads` the calls of `UploadFile`:
`Look` reads the descriptor under the table's lock, `OpenSession` opens the
session and the file under that of the sessions, `Write` and `WriteFails` write
with no lock, `Account` takes the part off the expected ranges, `Commit`,
`OutOfDate` and `InsertFails` look again and store. `DeleteFile`, `Expire` and
`Crash` are the client, the timeout of a session and the machine. `plan` and
`sent` are the client: what it uploads (a whole file, a range, an append; which
version it has seen), and what it has sent of it.

## 4. The runs

A constant `Windows` (`CrashPoints` in `AeonView`) names the scenarios in which
the code does not keep a property; a guard `... => "w" \in Windows` excludes
scenario w unless the configuration opens it. A passing run therefore says: the
property holds as long as the scenarios left out, stated exactly by the guards,
do not happen. A hazard that is such a scenario is not covered by that run; in
`PROJECT.json` it has a note with its window and the property that fails when the
window is opened.

| Run | Configuration | Shows | Bounds |
|---|---|---|---|
| `view` | `AeonView.cfg` | lookups read the latest insert, recovered rows stay newest, the view implements `RowStore`; `IInv` holds | 2 keys, 1 value and nil, 4 files, `MaxSeq` 4; crashes while a file is being written included |
| `index_built` | `SecondaryView_built` | a view is added, built by housekeeping, and then shows exactly the table | 2 keys, 2 values, 5 inserts, 2 faults |
| `index_faults` | `SecondaryView_faults` | with all windows open but `add` and `reuse`: row IDs are unique, and a view that starts stale becomes ready or is deleted | 2 keys, 1 value, 4 inserts, 2 faults |
| `index_flush` | `SecondaryView_flush` | violation of `ViewComplete` | 2 keys, 2 values, 4 inserts |
| `scan` | `RowScan.cfg` | scans are complete, ordered and true | 3 keys, any initial rows, 1 write, any saves and compactions, pages of 2 |
| `volumes_faults` | `TableVolumes_faults` | rows stay readable; a backup believed complete is; a table is given up only when it must be | 3 volumes, 1 row, 3 faults |
| `volumes_live` | `TableVolumes_live` | rows stay readable, with merges; no restore waits for ever; backups get made; a fail-over in the middle of the copy (`override`) included | 2 volumes, 2 rows, 1 fault |
| `sessions` | `Sessions.cfg` | one answer per client, timeouts that are meant, no freed session reached, timers well linked, owned and never overslept | 2 threads, 2 sessions of 2 commands, 1 keep-alive per command |
| `mnemosynth` | `Mnemosynth.cfg` | copies are consistent prefixes of what was written, and agree at rest | 2 machines, one with a module; 3 keys, 2 writes per module |
| `mnemosynth_restart` | `Mnemosynth_restart` | checkpoints are true and do not stay open, those made after a restart included; copies converge | 1 machine with a module; 1 write per run of a module, 1 stop, 2 checkpoints |
| `ipqueue` | `InterprocessQueue.cfg` | a receiver has its queue; memory and ring stay whole; the queue implements `MessageQueue`, and no message stays in it | 2 senders, 9 words, 2 slots, messages of 1 and 4 words, 3 messages, 1 try (2 tries pass too, in more states than one run should take), 2 deaths |
| `uploads` | `FileUploads.cfg` | a stored descriptor has its file; expected ranges are true; no orphan; no unseen version overwritten | 2 threads, 2 clients, 3 units, 2 files, 3 commits, 1 crash |

`TypeOK` is checked in `view` and in `sessions`, where it is also proved. The
other modules state it as well; it holds in their configurations when it is
added to the invariants.

What happens in each window, and the property that fails when it is opened: put
it into `Windows` (`CrashPoints`) of the module's run and check the property.
Only `flush` of `SecondaryView` has a run of its own, `index_flush`.

| Window | Fails | What happens | Code |
|---|---|---|---|
| `AeonView`: `writing` | `Reopens` | a crash leaves an unfinished segment file, and the whole table fails to open | `CAeonTable.cpp:3720` |
| `retiring` | `DeletedStaysDeleted` | a crash leaves the inputs of a merge that dropped tombstones, and a deleted row returns | `CAeonView.cpp:1144` |
| `SecondaryView`: `add` | none | `Recreate` adds the view; a scenario of its own, not a defect | `CAeonTable.cpp:4275` |
| `renumber` (with `add`) | `ViewSound` | the update reads a saved row under one ID and the unsaved row over it under another, and leaves the entry of the first: the view was added while such a row was unsaved (every overwrite in a table without other views gives a new ID), or the row was deleted and inserted again before the view was up to date | `Housekeeping.cpp:508` |
| `flush` (with `add`) | `ViewComplete` | a flush during the update moves rows to a segment the update does not read | `Housekeeping.cpp:361` |
| `insert` | `ViewComplete` | a crash between the log of the primary view and that of the other | `CAeonTable.cpp:2665` |
| `finish` (with `add`) | `ViewComplete` | a crash after the descriptor says up to date and before the memory rows are entered | `Housekeeping.cpp:488` |
| `abort`, `abandon` (with `add`) | `ViewSound` | an update aborted, or cut by a crash, after its first segment leaves files that the next open takes for the view's | `Housekeeping.cpp:436` |
| `reuse` | `RowIDsUnique` | a table that crashed with rows and no segment starts a sequence one lower than at first, and gives an ID again | `CAeonTable.cpp:3656` |
| `delete` (with `add`) | `ViewSound` | the deleted view's recovery log is replayed into a new view with the same ID | `CAeonTable.cpp:937` |
| `undermine` (with `add`, `delete`) | none: `UpdateLostView` is reached | the view is deleted during its update, which then uses the null pointer that `GetAt` returned; the model lets the process die there | `Housekeeping.cpp:421` |
| `RowScan`: `shift` | `ScanOrdered` | an insert into the live array shifts the positions of a scan, which returns a row twice | `CAeonTable.cpp:1927` |
| `vanish` | `NearestScanComplete` | the last key of a page is compacted away, and `nearest` skips the row after it | `CAeonTable.cpp:1963` |
| `TableVolumes`: `tie` | `AckedReadable` | at open, a backup with the same segments wins over the volume that has the log | `CAeonTable.cpp:1293` |
| `return` | `AckedReadable` | a volume that was away comes back with higher-numbered segments than the one used since, and is opened instead of it | `CAeonTable.cpp:1293` |
| `log` | `GivesUpOnlyWhenLost` | after a fail-over the log is still on the failed volume; the next insert fails over again | `CAeonTable.cpp:4251` |
| `stale` | `GivesUpOnlyWhenLost` | a second reader reports the error of a volume that is no longer the primary | `CAeonTable.cpp:2037` |
| `flush` | `BackupComplete` | segments saved while the copy runs are not copied | `Housekeeping.cpp:71` |
| `override` | `BackupComplete` | the volumes change during the copy, and the new backup is marked complete | `Housekeeping.cpp:71` |
| `wait` | `RestoreEnds` | a restore waits for housekeeping while it holds the lock | `CAeonTable.cpp:4234` |
| `glitch` | none checked | a read error on a healthy volume while the backup is behind: the comment at 4220 accepts it | `CAeonTable.cpp:4220` |
| `Sessions`: `ended` | `AnsweredOnce` | a reply to a session that has answered and that its thread is about to delete is processed: it answers again | `CSessionManager.cpp:126`, `:182` |
| `ticket` (with `ended`) | `NoUseAfterFree` | a session is deleted twice, the second time after its slot has become another's: the slot is looked at, not the ticket | `CSessionManager.cpp:38` |
| `stale` | `TimeoutIsReal` | a timeout that was sent before its command was answered has the number of the next command's timer | `ISessionHandler.cpp:97` |
| `reuse` | `TimersOwned` | the number a session keeps of its timer that has fired is given to another session, whose timer the first then deletes | `CTimedMessageQueue.cpp:134` |
| `keepalive` | `TimersWellFormed` | more time is given to a timer that has fired: a free entry is linked into the list | `CTimedMessageQueue.cpp:325` |
| `shorten` | `WakesInTime` | a keep-alive puts a timer before the one the thread sleeps for and wakes no one | `CTimedMessageQueue.cpp:329` |
| `wrap` (with `Counters` = 1) | `TimeoutIsReal` | the counter of a slot's ticket comes round, and a timeout for an earlier session reaches the new one | `FoundationMaps.h:764` |
| `Mnemosynth`: `reorder` | `AssimilatedUpTo` | two updates of one machine, or two machines' updates of one key, are swapped: the later one is skipped, or the older one stays | `CMnemosynthDb.cpp:777` |
| `lose` | `AssimilatedUpTo` | an update with entries is lost on the way, and the next one is taken as if it had not been | `CMnemosynthDb.cpp:777` |
| `late` | `AssimilatedUpTo` | an update of a dead process is handled after its endpoint was reset | `CMnemosynthDb.cpp:626` |
| `samepid` | `AssimilatedUpTo` | the new process has the number of the old one, so its endpoint is not reset | `CMnemosynthDb.cpp:626` |
| `leftover` | `AssimilatedUpTo` | a new process opens the old one's queue and reads messages meant for it | `CMnemosynthDb.cpp:626` |
| `relay` | `AssimilatedUpTo` | a module has started again, and another machine's central module passes on entries of the old process with the number of the new one, to a module of its machine | `CMnemosynthDb.cpp:626` |
| `recount` (with a second module) | `ConfirmedIsThere` | a module has started again, and another one confirms a checkpoint by the number it has of the dead process | `CMnemosynthEngine.cpp:81` |
| `InterprocessQueue`: `locked` | `EachLeaves` | a process dies inside the critical section while another holds the semaphore open | `CInterprocessMessageQueue.cpp:701` |
| `race` | `HasQueue` | a receiver creates its queue while a sender, not finding it, has parts of it open | `CInterprocessMessageQueue.cpp:858` |
| `gone` | `HasQueue` | the last holder of the queue dies between the receiver's failing `Create` and the end of its `Open` | `CInterprocessMessageThread.cpp:58` |
| `FileUploads`: `resend` | `SessionTrue`, `Stored` | a part is sent again; the first part again gives a range of negative length, and the upload counts as complete | `CAeonUploadSessions.cpp:545` |
| `concurrent` | `NoOrphan` | two parts at a time: the second cannot open the file, and deletes the session under the first | `CAeonUploadSessions.cpp:406` |
| `stale` | `NoOrphan` | the file to scrap is the one seen before the transfer, not the one replaced | `CAeonTable.cpp:4873` |
| `append` | `Stored` | two uploads, one of them an append, write into the file that the descriptor names | `CAeonUploadSessions.cpp:285` |
| `abandon` | `Stored` | an append that does not come to its end leaves its text in that file | `CAeonUploadSessions.cpp:285` |
| `aba` | `NoLostUpdate`, `NoOrphan` | a file deleted and stored anew has the version number that a client has seen | `CAeonTable.cpp:4930` |
| `open` | `NoOrphan` | a file open for copying cannot be deleted | `CAeonUploadSessions.cpp:406` |

The windows of `Mnemosynth` are not all guards of actions: `relay` and `recount` are
conditions of the properties. For `recount` take `Endpoint <- TwoModules`,
`WriterOf <- EachWrites` and `PortsOf <- OwnPortsOf` of `MCMnemosynth`, and
`MaxCheckpoints = 1`, in `Mnemosynth_restart.cfg`, with `ConfirmedIsThere` alone: a
counterexample of 24 states after 3.5 million. In the run itself, with one module
to a machine, the condition excludes nothing.

What the two properties about checkpoints leave out: `ConfirmedIsThere` speaks of
a pair, the module that confirmed and one that the checkpoint waits for, as long
as both run in the process they had when the checkpoint was made (`StillRuns`);
others may have stopped, and these two before. It excepts a module that stopped
since, because the code confirms by it: its endpoint is removed, `GetSequence`
returns 0xffffffff for its ID (`CMnemosynthDb.cpp:678`), and that is above what
the checkpoint asks for (`CMnemosynthEngine.cpp:81`). `QuietConfirmed` excepts
the checkpoints that asked, or wait for, a module that stopped since, which stay
open or not as it happens; and, with `AtDeletion`, those that wait for a
deletion: a module that joins after the central one has passed the deletion on
gets a full update without it (`CMnemosynthDb.cpp:393`) and never reaches its
number. With two modules, two writes and no stop TLC finds a checkpoint that
stays open this way if the exception is dropped; with it the property holds there
as far as one of the two modules writes (36,650 states).

Why the bounds are enough. `AeonView`: four files allow a newest, a middle and
an oldest segment with a merge's output, and three inserts allow a value, its
deletion and a row on top; one value is enough because the lookups of two keys
differ only through nil and absence. `SecondaryView`: two keys collide on a
value, and five inserts allow a change of value back and forth, some before the
view exists, some during its update and some after it. The run with two faults
starts with a stale view instead: the faults are what it is about, and one
value is enough for row IDs. `RowScan`: with pages of two, three keys need two
pages, and either page may end at the overwritten row; a second write is within
reach of the next page only. `TableVolumes`: a third volume is needed for a
backup that is neither of the two; a second fault for a fail-over after a
fail-over, and a third for a volume that is away meanwhile (2,279,030 states).
(Two volumes, two rows and two faults together also hold: 7.8 million states,
too long for a routine run.) `Sessions`: two threads can hold
one session, or two sessions one timer's number; with two commands a timeout of
the first meets the timer of the second. `Counters` is the code's 255, far from
wrapping; 318,737 states. `Mnemosynth`: a machine with a module next to one
without shows each way an update takes (up, down, across); two keys are the
module's and one its machine's, for the module's status; two writes of one key,
or of two, tell a hole from a prefix; 459,197 states. The restart is a run of
its own on one machine, with checkpoints (20,087 states). `InterprocessQueue`:
nine words hold a message of four words with one of one word, or several short
ones, so the free list is searched, split and joined; two slots make the ring
wrap and fill; of two deaths the second can be that of a sender which alone keeps
the queue of the first in being (319,453 states). `FileUploads`: three units allow a part at the
start, in the middle and at the end, in any order, and two clients a winner and
a loser; the second commit replaces a file, the third a replaced one (99,897
states).

`CHECK_DEADLOCK FALSE` stands in all runs but those of `AeonView` and `RowScan`:
the bounds (on inserts, faults, sessions, writes, messages, commits) and, in
`TableVolumes`, a table with no usable volume, are states in which nothing more
happens.

### Fairness

* `Housekeeping` (`SecondaryView`) and `HousekeepingThread` (`TableVolumes`) are
  weakly fair: the process sends `Arc.housekeeping` on a timer for as long as
  it runs, and a copy or merge is a loop over finitely many files. In
  `CAeonTable::Housekeeping` a needed backup comes first, then a view to update,
  then saving and merging; so the update is not starved by saves, and one weak
  fairness condition on the thread is enough.
* `Reopen`, `Open`: a dead engine is started again by Exarch.
* `ContinueRestore`: the loop in `RecoveryRestore` polls four times a second.
* `Runs` (`Mnemosynth`): the engine threads of Mnemosynth and Exarch take the
  next message as long as there is one, and a launched module starts. Nothing
  makes a module write, stop or ask for a checkpoint.
* `InterprocessQueue`: each running process goes on: it opens what it is
  opening, waits and enters when the semaphore is free, and leaves (`Leave` is
  weakly fair: straight-line code). The receiver is started again after it
  dies, by Exarch. Nothing makes a sender send.

`Sessions` and `FileUploads` state safety only. No fairness is assumed of
clients, of faults or of volumes coming back. The
bound on faults is part of the liveness results: an update that every time is
aborted is never finished.

## 5. What is proved

### The view on one volume

`AeonViewProofs` proves, for every set of keys, values and files, and every
`MaxSeq`:

* `TypeCorrect`: `Spec => []TypeOK`.
* `Invariance`: `Spec => []IInv`, if `"retiring" \notin CrashPoints`.
* `LookupsReadLatest`: `Spec => []ReadsLatest`, under the same assumption.
* `UnsavedRowsStayNewest`: `Spec => []UnsavedRowsAreNewest`, likewise.
* `ViewImplementsRowStore`: `Spec => ImplementsRowStore`, under the assumption
  about `"retiring"`.

`ReadsLatest` is not inductive: it speaks only of the open table, and a crash
or a save replaces everything a lookup reads. `IInv` (module `AeonViewInv`)
says where each row's data is at any time:

* `LogHoldsStore`, `SegmentsHoldRest`: the last log record of a key gives its
  data; a key not in the log has it in the newest complete segment that holds
  it. This is about the volume, and so survives a crash.
* `RowsHoldLog`: the memory rows are what the log, or the part replayed so far,
  gives.
* `Ordering`: segments have distinct sequence numbers, none above `m_Seq`, and
  all below it when there are unsaved rows; so a save goes on top.
* `SaveFile`, `MergeFile`: the file being written holds the unsaved rows, or
  can stand in for the two inputs of the merge, with neighbours that are still
  neighbours when it is finished although saves came between.
* `Files`: what the process may hold open, and what else may be on the volume.

The assumption about `"retiring"` is where `SegmentsHoldRest` needs it: a crash
with a merge's input still on the volume adds old rows to the stack.
`Invariance` is put together from one lemma per action (`BeginInsertIInv` to
`OpenDoneIInv`), with one step per part of `IInv` that the action disturbs.

The refinement follows from `IInv`. `RecoverableIsStore` says that what a reopen
would recover from the volume, which the mapping takes as the abstract store, is
`store`; that needs a witness for the last record of a key in the log, which
`HasLast` gives. `InitRefines` and `NextRefines` then map the two ends of an
insert, a crash and the end of a reopen to steps of `RowStore`, and every step
of a save, a merge, a release or a recovery to a stutter. `HasLast` itself is a small induction over steps, since
the prover cannot do one over the log.

### Secondary views

`SecondaryViewProofs` proves, for every set of keys and values, every `MaxSeq`
and number of faults, and each initial state of the view:

* `TypeCorrect`: `Spec => []TypeOK`, whatever windows are open.
* `RowIDsStayUnique`: `Spec => []RowIDsUnique`, if `"reuse" \notin Windows`.
* `ViewShowsAll` and `ViewShowsOnly`: `Spec => []ViewComplete` and
  `Spec => []ViewSound`, if no window is open except those of adding a view and
  of `undermine`, which without `delete` changes nothing.

`TypeOK` needs `Counts`: `m_Seq` is the highest segment's number plus the
records of the log, or one more in a table without segments, which is what
bounds the IDs that rows get after a reopen. `RowIDsUnique` speaks of live rows,
but a row that memory hides comes back into play when an update reads the
segments; so the inductive `IDInv` says of all rows, in memory or in a segment,
that no ID belongs to two keys (`Apart`), and that saved IDs are below the
number of the highest segment and IDs in memory below what `m_Seq` will be after
a reopen (`Below`). A table with rows and no segment is what `"reuse"`
excludes: it counted from 1, and counts from 0 when it is opened again.

For the last two theorems `VInv` adds:

* `Clean`: a view that is not up to date has no rows and no files, and an update
  under way reads the segments that there are.
* `SameIDs`: from when the view is added until it is up to date, a row in memory
  has the ID under which a saved row of its key will be read.
* `Gathered`: the entries that the update has gathered are those of the rows it
  has read, each under its key.
* `Exact`: an up-to-date view shows the entry of every row and no other.

The step that matters is the end of the update (`FinishExact`). A saved row that
a memory row replaces has left its entry in the new segments, and the code
deletes it under the memory row's ID: `SameIDs` makes that the entry's ID, and
`Apart` keeps the deletion from hitting another row's entry. TLC finds `VInv` to
hold in the configuration of `index_built`. Opening any of the windows that are
assumed closed breaks a part of it, as the table in section 4 says.

### Scans

`RowScanProofs` proves, for every range of keys, set of values, page size, and
number of inserts, saves and compactions, if neither `"shift"` nor `"vanish"` is
open:

* `ScanReturnsAll`: `Spec => []ScanComplete`.
* `ScanInOrder`: `Spec => []ScanOrdered`.
* `ScanReturnsTrue`: `Spec => []ScanTrue`.

The iterator works with positions and counts, the properties speak of keys. The
lemmas of the first part connect the two: the key at the position that was
looked up with `k` is the first key from `k` on (`KeyAtPosition`), the position
after a key's is where the next key stands (`PositionsGrow`), and the best of
the sources' first keys is the first key of all of them (`BestIsFirst`). The
invariant `RInv` says, while a call runs:

* `CountsRight`, `CursorRight`: the counts are those of the arrays the iterator
  reads, and both its positions are what a look-up of one key, the current one,
  would give (`StandsAt`). An insert into the live array moves the first of
  these under the iterator, which is `"shift"`.
* `RequestRight`: the next page starts at the last key returned, and the
  iterator still finds it. `"vanish"` is a compaction that drops that row.
* `ReturnedSoFar`: every lasting row before the key that the scan has `Reached`
  has been returned, and nothing from it on.
* what the iterator would return for a key (`DataFor`) is data that the row had
  since the scan began.

Each action of the scan has its lemmas, one per part, and so have the inserts,
saves and compactions between them. TLC finds `RInv` to hold in the
configuration of `scan`.

### Volumes

`TableVolumesProofs` proves, for every number of volumes, set of rows and of
readers, and number of faults, if no window is open:

* `AckedRowsStayReadable`: `Spec => []AckedReadable`.
* `BelievedBackupsAreComplete`: `Spec => []BackupComplete`.
* `GivenUpOnlyWhenHopeless`: `Spec => GivesUpOnlyWhenLost`.

The recovery functions call each other on a table that is half changed, so the
proof first says what each returns for any table (`WriteDescDoes`,
`RecoveryBackupDoes`, `SaveDescDoes`, `SegmentSavedDoes`, `RestoreToDoes`,
`RecoveryRestoreDoes`): that table with other descriptors (`Described`), with
another backup wanted (`Planned`), restored from a volume (`Restored`), with
backup and primary swapped while a thread waits (`Swapped`), or given up
(`GivenUp`). Each of the five then keeps the invariant, and each action is one of
them. The volume opened is the first of the highest: `Least` and `Greatest`, by
well-founded induction on numbers, show that there is one.

The invariant `VInv` says of a table in use:

* `Named`, `Mounted`: primary, backup and log are on volumes that have the table,
  and a backup that is not lost is another one than the primary; a volume that
  goes offline is let go of in the same step.
* `InUse`: the segments in use are on the volume they were opened on, which after
  a fail-over is not yet the primary, and the rows in memory are in the log.
* `Waiting`: a thread that waits for housekeeping has marked the backup as lost.
* `CopyRight`, `MergeRight`: what housekeeping copies or merges with `m_cs`
  released is on the volume in use and goes to the backup; what is still to be
  copied and what is there make up all segments in use.
* `Held`: the acknowledged rows are in memory or in the segments in use; and, if
  the primary volume is broken, in memory or on the backup (`Replaced`); and, if a
  restore waits, in memory or on the volume it will open. The last fails while
  housekeeping copies onto that volume (`Overwriting`), and holds again when the
  copy ends, because the wait outlasts it.
* `Mirrored`: a backup believed complete has each segment in use, or the copy of
  it is pending.

and of one that has crashed (`Down`), that one volume which can be opened has all
rows that are owed. The last is the delicate one: which volume that is depends on
where the log is, what waits and what has failed (`CrashKeeps`). It is then not
enough that the volume is there: the attempt to prove `OpenKeeps` led to the
window `return`, which three faults are needed to reach. A volume goes away, the
table saves rows on the other, both fail in turn and return, and the one with
the higher sequence number is opened. TLC finds `VInv` to hold in the
configuration of `volumes_faults`.

### Sessions

`SessionsProofs` proves, for every set of threads, every number of sessions,
commands, keep-alives and counters:

* `TypeCorrect`: `Spec => []TypeOK`, whatever windows are open.
* `ClientAnsweredOnce`: `Spec => []AnsweredOnce`, if `"ended" \notin Windows`.
* `FreedOutOfReach`: `Spec => []NoUseAfterFree`, under the same assumption.

The other windows may be open: with a timer list as broken as they make it, a
session still answers once. This is the point of the two theorems: what a
client sees does not rest on the timers.

The type invariant is inductive only with `SlotKnown`: the slot of a ticket that
a thread holds is in the table, which never shrinks. `TimedQueue`'s methods are
handled by lemmas of their own (`InsertType`, `RemoveType`, `AddType`, ...): each
is a composition of assignments of one link, each of which keeps `IsQueue`, so no
proof opens more than one of them.

For the other two, `SInv` adds to the type invariant:

* `TableSound`, `SessionsListed`: a ticket in use is that of its session, which
  has not been deleted, and a session that has not been deleted is found by its
  ticket.
* `FreeSlots`: the list of free tickets names slots that are free, each once.
* `EndedGone`: what waits for the collection, or was collected, has been deleted.
* `Answered`: a session that is past its list has answered once and keeps no
  timer; any other has not answered.
* `Held`, `OneDeletes`: what a thread works for is not freed, and its ticket is
  the one the thread holds; one thread at most is about to delete a session,
  and nobody has done so before.
* `TimeoutIDs`: a timeout on the port has the number of a timer, so that a
  session without one takes no timeout.

`"ended"` is where `OneDeletes` needs the assumption: a second reply to an
ended session would send a second thread to delete it. Each kind of step has a
lemma (`TakeKeeps`, `MessageKeeps`, `TimeoutKeeps`, `DeleteKeeps`, `MarkKeeps`,
...) with one step per part of `SInv` that it disturbs. TLC finds `SInv` to
hold in the configuration of `sessions`.

The second half of `SessionsProofs` goes on from there to what the timers do. It
proves, if none of `"stale"`, `"reuse"`, `"keepalive"`, `"ended"` and `"wrap"` is open:

* `ListsStayWhole`: `Spec => []TimersWellFormed`.
* `WaitingIsTimed`: `Spec => []TimersOwned`.
* `GivesUpOnRealTimeout`: `Spec => TimeoutIsReal`.
* `WakesForTheFirst`: `Spec => []WakesInTime`, if `"shorten"` is closed too.

`TimersWellFormed` follows the links from one end of a list to the other. The
invariant speaks of neighbours instead: `Listed` says that `next` and `prev` of
the running timers are each other's inverse and end where `first` and `last`
point, `FreeListed` that every free entry but the first has one before it, and
`Ranked` that numbers can be given to the entries that grow along the links, so
that nothing is a circle. Each assignment of `TimedQueue` has a lemma that says
what it does to each field, and each method another (`RemoveLists`, `InsertLists`,
`FreeLists`, `AllocateLists`). From this `WholeIsWellFormed` gets what a walk
along the links meets. The walk is a recursive function; where an induction
would be needed the lemmas take the first entry at which they fail, which
`WellFoundedInduction` gives for the numbers.

The lists stay whole only if `DeleteMessage` and `KeepAliveMessage` are never
called for an entry that has been freed, and this is about the sessions. For
each session that waits `Timed` says that its timer runs with its ticket and its
command (`Running`) or has fired, and the timeout is on its way (`Sent`); that
timeouts on their way are not of running timers, and that only one for the
current command has the number that the session keeps (`Spent`); that a
keep-alive is only on its way while the timer runs (`Extendable`); and that a
thread with a timeout for its ticket works for it (`Theirs`). `Owned` says that
every running timer is that of a waiting session. The windows `"stale"`,
`"reuse"` and `"wrap"` break `Spent`, `"keepalive"` breaks `Extendable`, and
`"ended"` breaks `SInv`.

### Uploads

`FileUploadsProofs` proves, for every set of threads and clients, every length
and position, and every number of files, descriptors and crashes:

* `NothingOverwrittenUnseen`: `Spec => NoLostUpdate`, if neither `"concurrent"`
  nor `"aba"` is open. The other windows may be: parts may be sent again,
  appends cut short, and clients without a version may get in between.
* With all windows closed, `DescriptorIsStored`: `Spec => []Stored`,
  `RangesAreTrue`: `Spec => []SessionTrue`, and `NoFileIsOrphaned`:
  `Spec => []NoOrphan`.

The first rests on `UInv`. It says that a client has one call at a time
(`OneCall`), that it has a plan exactly while its upload is under way and its
session keeps the version of it (`UploadOK`), that a thread about to store a
descriptor has that version or, from an upload that only looks complete, version
0 (`CallOK`), and that the version of an upload under way is not above the
table's and, while they are equal, the table's descriptor is the one the client
has seen (`SeenOK`). Most steps are of one call: `OneUpload` shows once that such
a step leaves all other calls and uploads alone. `"concurrent"` is where
`OneCall`, and `"aba"` where `SeenOK` needs the assumption.

The other three rest on `FInv`, which adds to `UInv` what is in the files. None
of them is inductive alone: a descriptor is stored rightly because the ranges of
the session were true, these because every part was written where its range
says, and that the file was still there then is the business of `NoOrphan`. TLC
finds that `FInv` holds in the configuration of `uploads`. Its parts are

* `RowKept`: the descriptor's file is in place, and its text and the text last
  flushed both hold the upload, without a hole (`IsKept`), so a crash takes
  nothing from it;
* `SessionOK`: a session has a file of its own, or the table's when it appends;
  its ranges are in order and apart (`Ranges`), and what they do not cover is in
  the file; `SentOK`: between calls they are what the client has not sent, and
  the file is what it was before the upload but for that (`Based`);
* `WorkOK`: how far each call is. It has seen the table's file or one replaced
  since (`CurOK`); its part is of what the client has sent (`PartOK`); before the
  session and file are open, while it writes, and once it has the receipt of a
  finished upload, it keeps `LookedOK`, `OpenOK` (with `Copies`, for the first
  part of an upload over an old file) and `ReceiptOK`;
* `Separate`, no two uploads own a file, and `NothingElse`: until a crash every
  file in place is the descriptor's or an upload's;
* `LoneAppend` and `LoneCall`: what it means that `"append"`, `"stale"` and
  `"open"` are closed.

`StepKeeps` is the frame: a step that `Touches` one call and one upload leaves the
parts of the others as they were (`OtherSessions`, `OtherCalls`), so each action
has to show only its own. The operators have lemmas: what a write and what a
copy leaves in a text (`WriteUnitsIs`, `CopySegmentsIs`), and that taking a part
off the expected ranges, found by position and cut, split or dropped, takes
exactly its units off and leaves ranges in order (`RangeForIs`, `SplicedRanges`,
`WithoutPartIs`). `StillNeeded` says that `CalcUploadCompletion`, which adds up the
lengths, is below 100 while a range is left; the sum is a recursive function, and
instead of an induction the lemma takes the first place at which it would fail.
`OthersOpen` and `RowOpen` say which files somebody has open, and so that the
removal or the move of a file, which fails on an open one, succeeds.

### The queue between processes

`InterprocessQueueProofs` proves, if neither `"race"` nor `"gone"` is open, for
any number of senders, words, slots, messages, tries and deaths, for every chunk
and all lengths of messages that fit the region:

* `ReceiverHasQueue`: `Spec => []HasQueue`.
* `EventNeverLies`: `Spec => []EventTellsMessages`.
* `NoMessageOverwritten`: `Spec => []BlocksTile`.
* `EmptyIsAsGoodAsNew`: `Spec => []EmptyTakesAny`.
* `QueueKeepsPromise`: `Spec => KeepsPromise`, the refinement of `MessageQueue`.

The first two need only where the processes are. `QInv` says where a process can be and which objects it holds there (`PlaceOK`);
that while a process makes the objects, or closes what it made, nobody else has
any (`Alone`); that a sender has the queue open while the receiver opens it
(`Kept`); and that whoever has found the semaphore finds an event which tells
(`EventOK`). `"race"` is where `Alone` and `"gone"` where `Kept` needs the
assumption. `Undisturbed` is what `"race"` being closed means: who reaches for an
object finds the whole queue held by another, or nobody at it. `RingAfter` is
the arithmetic of the ring: taking `k` messages makes it empty exactly when there
were `k`. A process that dies with the semaphore (`"locked"`) does not disturb
any of the theorems.

The other three are about the allocator. `Sound(h, B, L)` says of a heap, with
the set `B` of the offsets of its blocks and the sequence `L` of the free ones as
witnesses, that the blocks tile the region (each ends where another, or the last
word, is, and each but the first begins where one ends), that `L` holds the free
ones once, and that the links of the heap are `L`. With the witnesses the two
walks of the model need no induction in the invariant: `FreeListIs` and
`BlocksAre` show that the recursive functions `FreeList` and `Blocks` return `L`
and `B`, each by the least number at which they would differ. Every operation
then has a lemma that names the new witnesses and says what it leaves alone
(`Keeps`: the words of the blocks in use): `UnlinkIs` skips one place of `L`,
`PutFirstIs` puts one in front, `CombineIs` takes a block out of both, `SplitIs`
adds one to `B`; `FreeEntryIs`, `CombinedForIs` and `AllocIs` are made of them.
`CombinedForIs` shows that as many rounds as there are free blocks leave no two
neighbours free, and `AllocIs` that a search which fails then finds some block
in use; hence an empty queue takes any message (`EmptyTakesAny`).

`Filed(h, r, lens)` adds the messages: the blocks in use are those in the slots
`r`, each in one slot, and in each is the whole of a message that was sent. The
invariant `RingInv` is `Filed` of the heap and the ring while the queue exists
(`FilesOK`), that a sender under way has a message with a number (`MessagesOK`),
and that only a receiver which is at rest has messages in hand (`HandOK`).
`FiledAfter`, `FiledFull` and `FiledRestIs` say what an `Enqueue`, one without
room, and a `Dequeue` do to the sequence of messages, `AddSlot` and `TakeSlots`
the same of the slots. `NextRing` is the refinement, step by step: every action
leaves `Pending` alone but `Enqueue` (`Accept`), `Deliver`, and a death, which
loses what is in hand or, with the last handle, everything.

### Mnemosynth

`MnemosynthProofs` proves, with every window closed (`Windows = {}`), for any
machines, modules and keys, any number of writes, stops and checkpoints:

* `MnemosynthInvariant`: `Spec => []Inv`, the invariant of all that follows.
* `MnemosynthAssimilated`: `Spec => []AssimilatedUpTo`.
* `MnemosynthQuietAgree`: `Spec => []QuietAgree`.

All windows have to be closed: each of them makes a copy lose or keep what it
should not, and section 4 has a counterexample for each.

A copy's own numbers do not say what it holds: `recv` starts again from 0 when a
process number is first heard of, a full update leaves deletions out, and a
delta forgets them. So the invariant `Inv` has, in `Kept`, two ghosts under an
existential quantifier: `at[n][e]`, how many of `e`'s writes the copy in `n` stands
for, and `mk[n][j]`, how many the message `inbox[n][j]` does. TLC cannot
enumerate them; it checks what follows from them. The parts of `Good` are

* `Copying`: of each key of `e` the copy reads what the last of the first
  `at[n][e]` writes left; `recv` is not above `at`.
* `Owning`: what a module would pass on of `e` is what `e` wrote last, up to `at`.
* `Flowing`: the messages about `e` on their way to `n` come in the order of
  their marks, and each, with those before it, has the last write of each key up
  to its mark (`Whole`, `InOrder`); or `n` never heard of the key, and it was
  deleted (`Unheard`).
* `Sending`: every last write of which the source knows is in the copy, in a
  message, or pending there: not yet sent, with the event set (`Pending`).
* `Starting`, `Notified`: before `n` is sent everything, it has nothing of `e` and
  nothing is on its way; and a full update that is owed has the event set.
* `Clearing`: Exarch deletes the ports of a stopped module's last process, an
  entry written under another module's number. The deletion arrives everywhere
  before what the new process writes there (`ClearedFirst`), since the same
  central module passes both on.
* `Keys`, `Base`, `Marked`: who writes which key, the types, and the numbers of
  endpoints, sequences and processes.

The other parts of `Inv`, `Waits`, `Starts` and `Connects`, say what waits in a
module, how a module's start and its process agree, and that a connected machine
is known.

A step is proved in two layers. A first lemma takes the databases and inboxes
before and after as parameters and shows what a kind of change does to `Good`:
`WriteKeeps`, `AddKeeps`, `TakeKeeps` (a message is incorporated), `SpreadKeeps`
(a module sends its delta), `StopKeeps`, `RemoveKeeps`, `LaunchKeeps`,
`DropKeeps`, `TurnKeeps`. Each rests on one lemma per pair of a module and an
endpoint (`TakenPair`, `SpreadPair`, `LaunchPair`, ...), and the pairs that a
change does not touch are left alone by `PairFacts` and the `...Frame` lemmas. A
second lemma (`WriteKept`, `OnUpdateKept`, `MsgOnModuleStopKept`, ...) shows that
an action is such changes in a row: `OnUpdate` of a central module takes a message
and spreads it. `IncorporateIs`, `AfterDeltaIs`, `DeltaIs` say what the operators
of `CMnemosynthDb` return.

`AssimilatedUpTo` follows from `Copying`, with `at[n][e]` as the moment. For
`QuietAgree` the inboxes are empty and no event is set, so nothing is pending and
`Sending` leaves the copy as the only place where a last write can be.

### Only model-checked

* `ConfirmedIsThere` and `QuietConfirmed` of `Mnemosynth`: they relate the
  sequence numbers in a checkpoint to those received, along the same paths but
  per process; the invariant above would need what has been received of every
  process to grow, those before an endpoint was first heard of included.
* `Reopens` of `AeonView`. With the window `writing` closed it would say no more
  than the guard of `Crash`; with the window open it does not hold.
* The window `relay` of `Mnemosynth`, which the runs keep closed: TLC's
  simulation finds `AssimilatedUpTo` violated with two modules on each of two
  machines, one stop and two writes, too long for a full search.
* All liveness: `ViewBecomesReady`, `BackupMade`, `RestoreEnds`, `Converges`,
  `EachLeaves`. The prover cannot reason about fairness or `ENABLED`.
* What is violated: `ViewComplete` in `index_flush`, with its window open. For
  the windows that the theorems assume closed, section 4 says which property
  TLC finds violated when one is opened.
* What a recursive function computes for all inputs. The library's induction
  rules cannot be instantiated here; where a theorem needs such a fact its lemma
  takes a minimal counterexample (`SessionsProofs`, `FileUploadsProofs`,
  `MnemosynthProofs`).

## 6. Findings

These are places where a comment in the code says one thing and a model shows
another. The run `index_flush` shows the first, which `PROJECT.json` lists. For
the others put the window named into `Windows` (`CrashPoints`) of the module's
run and check the property.

* Rows missing from a view after a flush during its update
  (`Housekeeping.cpp:361`), where the comment at 357 says "Since we are in
  housekeeping we can guarantee that no new segments will get created while we
  process." Run `index_flush`, property `ViewComplete`.
* A table that does not open after a crash during a save (`CAeonTable.cpp:3720`,
  comment at 3701). Window `writing`, property `Reopens`.
* A deleted row that returns after a crash during a merge (`CAeonView.cpp:1144`,
  comment at `Housekeeping.cpp:219`). Window `retiring`, property
  `DeletedStaysDeleted`.
* A row skipped between two pages of a scan (`CAeonTable.cpp:1963`); 1961 says
  "Advance one, since we want the first row after the last key." and
  `AeonDb.h:713` "GetRows: Start with first row AFTER key". Window `vanish`,
  property `NearestScanComplete`.
* A restore that waits for a thread which waits for it (`CAeonTable.cpp:4234`);
  4229 says "We wait until the housekeeping thread is done." Window `wait`,
  property `RestoreEnds`, under `FairSpec`.
* A file stored before it was uploaded. The first part sent again makes a range
  of negative length (`CAeonUploadSessions.cpp:545`), the sum of what is needed
  reaches 0, and `CalcUploadCompletion` (51) returns 100; `CAeonTable.cpp:4742`
  says of `UploadFile` "When this returns 100, the file has been properly stored
  in the database." Window `resend`, property `Stored`.
* Updates between machines that swap: Exarch has three threads
  (`CExarchEngine.cpp:355`) and `MsgSendToMachine` (`AMP1.cpp:244`) sends without
  a lock; `IncorporateDelta` (`CMnemosynthDb.cpp:777`) skips the one that comes
  late, and `Mnemosynth.h:119` says "We've assimilated up to this sequence for
  this endpoint". Window `reorder`, property `AssimilatedUpTo`.
* A checkpoint confirmed by the numbers of a dead process. When a module starts
  again Exarch removes its endpoint in the central module; another module of the
  machine keeps the number it had received of the old process until it hears
  from the new one (`CMnemosynthDb.cpp:626`), finds it above what the new process
  had written when it started (`CMnemosynthEngine.cpp:81`) and confirms.
  `CExarchEngine.cpp:3034` says "This will register for an event when all copies
  of Mnemosynth on the machine have reached the proper sequence number." Window
  `recount`, property `ConfirmedIsThere`, with a second module as section 4 says.
* Two parts of one file at a time: `CAeonUploadSessions.cpp:434` says "This allows
  other threads to write out data to other files (or even the same file)", and
  `CFile.cpp:61` opens a file for writing without sharing. Window `concurrent`,
  property `NoOrphan`.

The table of windows in section 4 has the others, which no comment contradicts
as plainly or which need a rarer sequence of events.

## 7. Not modelled

* In AeonDB: iterator limits, `Mutate`, the block cache, `CAeonRowQuery`, key
  encoding, and these details of the parts that are modelled: a crash between
  the two file operations of `SaveDesc` or between `DeleteView`'s deletion of
  files and its save of the descriptor; a volume that fails in the middle of an
  action of `TableVolumes`; list-valued secondary keys, and views that index
  nil; `AEON_COMPACT_TOMBSTONES`, which no build file defines; the delay before
  housekeeping saves.
* In uploads: the copy of a file on the backup volume; the paths that are made
  up for files (every file is new); the comparison with `SESSION_TIMEOUT`, which
  wraps with the tick count; the reference to a range that is used after
  `InsertAt` may have moved it. A session expires only while no thread is in a
  call: `Mark` runs in a collection.
* In sessions: handlers other than `CMessageSerializerSession`, which override
  the same callbacks; how long a timer runs (its place in the list is any).
* In the queue between processes: several threads of one process that open and
  use one queue object without a lock; messages larger than the memory, which go
  through a temporary file; what a sender does after a full queue has refused a message
  ten times (`CInterprocessMessageQueue.cpp:681`: the message is dropped).
* In Mnemosynth: machines that leave, or start again as seen from another
  machine, and the removal of their endpoints; `Mnemosynth.onModified`, whose
  failures are swallowed (`CMnemosynthEngine.cpp:594`); checkpoints that wait for
  an endpoint that is dead (469). Modules stop only once they run. Whether an
  endpoint is local the code decides by `strStartsWith` of its name and the
  machine's, with nothing after it (`CMnemosynthDb.cpp:657`); the model compares
  machines, and so takes names none of which is the start of another. With
  machines `A` and `AB`, `A` takes the central module of `AB` for local; as it is
  then neither a local module that is not central (426) nor a foreign central one
  (457), it is sent nothing.
* The other subsystems: see section 1 and the components in `PROJECT.json`.
