# A verification project for Brain Framework (bf)

TLA+ models of `bf`: the assistant queue and its deliveries, the programs and what they store, the search
cache, what readers are told, and the scripts that replace files of other people's checkouts and brains.
TLC checks the models on small instances; TLAPS proves the safety of all but five of them (`Ranking`, `Answers`,
`Paging`, `Listing` and `Dashboard`) for any number of processes, jobs, messages,
programs, files and brains. `PROJECT.json` lists components, runs, mutants, findings, hazards and theorems, and
maps every definition to the lines it models. Source paths below are relative to `src/src/bf/`.

## 1. Inventory

`bf` is one Python package. It keeps a *brain* (a directory of notes and of collected records) and
private state outside it (lock files, run history, a search cache). Many short processes and one
long one (`bf watch`) work on a brain at once; nothing but files, advisory locks and two SQLite
databases coordinates them.

| component | source | state | operations | what makes it correct |
|---|---|---|---|---|
| Assistant jobs | `runtime.py`, `assistants.py` | `jobs`, `checkpoints`, the record of a run | admit, gate, claim, harness, answer, prepare, commit, finish, fail, recover, retry, cancel | no harness with effects replays by itself; one attempt at a time; no answer is lost; complete only with its record; slot order |
| Deliveries | `runtime.py`, `assistants.py` | `deliveries` | insert, select, mark, send, receipt, fail, recover, retry, cancel | no send that is not idempotent repeats by itself; nothing is sent before its record is stored |
| Lock files | `storage.py`, `runtime.forget` | one file per job or delivery | open, flock, close, unlink | exclusion although names are removed while others wait |
| Record transactions | `records.py`, `storage.py` | `memories/SOURCE/*.json`, `memories/.pending/` | commit, recover, clear | all or nothing through kills, errors and power losses |
| Dispatcher | `assistants.py` | task table, backoff | tick, pick, harvest, cycle | no job or delivery starves behind what is held; nothing is tried twice at once |
| Stream channels | `channels.py`, `assistants.py` | cursor, acknowledgements | resume, accept, acknowledge, reconnect | acknowledged only when durable; none skipped or doubled |
| Read inputs | `assistants.poll`, `channels.read` | window checkpoint | read, halve, double, admit a prefix | no message between two windows is missed |
| Schedules and wakes | `assistants.py`, `runtime.py`, `models.py` | schedule and wake checkpoints | due, enqueue, wake, finish, cancel | a wake starts one run, and the newest request is kept |
| Queue capacity, retention and place | `runtime.py`, `storage.py` | bytes, slots, the folder of a queue | reserve, claim, trim; bind, rename | what is admitted can be stored; a queue stays with its brain |
| Collection and updates | `collect.py`, `history.py`, `update.py` | records, run history, cycle lock | due, window, run, cycle | coverage never claims a gap; no stale due list |
| Forgetting and expiry | `records.py`, `collect.py` | records, the forgotten list | collect, forget, expire, snapshot | what the source or the owner decided stays decided |
| Field mappings | `ontology.py`, `collect.py` | fields of stored records | project, reproject | all fields from one set of mappings |
| Programs | `collect.run` | a session, its process groups, its pipes | start, feed, drain, time out, cancel, end | nothing of the program's group survives; the outcome is true |
| Reports of routines | `collect.py` | action folders | write, prune, put back | no text a person changed is lost |
| Search cache | `index.py`, `storage.py` | live generation, build, locks | refresh, build, publish, serve | one generation per reply; nothing committed is hidden |
| Folder scans | `index._scan` | fingerprints of folders | trust, list, store | no change is overlooked |
| Search | `index.search`, `retrieve._search` | rows of a reply | rank, fold, alternate, page | every match once |
| Reading over several brains | `retrieve.py`, `records.find` | answer, problems | resolve, look up, gather | absence is never claimed wrongly |
| Links and expansion | `graph.py`, `links.py`, `index.py` | names and links | expand, backlinks | names of two owners never merge |
| Computed pages | `pages.py` | offsets, periods, reminders | page, browse, review | pages together are the whole |
| Health | `health.py` | a report | status | trouble is in the report |
| Watch | `watch.py`, `watch_settings.py` | update, alerts, table | loop, stop, alert, sort, select | one stop signal; each outcome once; the selection stays |
| Guarded write | `skills/bf-use/scripts/guarded-write.py` | inode lock, note | lock, check, rename, unlink | no lost update among helpers |
| Brain selection | `config.py` | registry | register, select, follow references | a name selects the brain its owner gave it to |
| Usage log | `usage.py` | counts per day | note, rotate, summary | no event lost or doubled |
| Skill installation | `install.py` | skill folders, manifest | install, update, remove | a person's files survive |
| Release scripts | `scripts/release.py`, `push-and-tag.sh` | clone, checkout, tag | prepare, publish, sync | other sessions' edits survive |
| Example sensors | `examples/sensors/github-history.py` | pages of a history | page, collect | the window is whole |
| Configuration models, validation, evaluation, CLI, MCP, skill scripts | the other modules | none | stateless or thin callers | not modelled |

How they interact. A channel, a schedule, a wake or `bf run` admits a *job*. A worker picks a
runnable one, takes its lock file, runs the gate and the harness, saves the answer, prepares a
record and its deliveries in one queue transaction, commits the record in `memories/` under the
writer lock, and finishes the job; only then may a worker send the deliveries. Any command may
record attempts whose process ended, and the owner retries or cancels work with `bf queue`. Collections
write records under the same writer lock and then their history, from which the next window, `bf status`
and the watch view are computed; the search cache follows `memories/`, and pages, searches and reads
answer from it and from the files of every selected brain.

What is hard: every step is a transaction, a lock operation or an effect of its own, so any two
processes interleave between any two steps; the harness, the send command and a push have effects that
cannot be undone; processes are killed; lock files are unlinked while others hold them open; a
decision is taken from a row, a file or a configuration that was read earlier; the power may go between two
syncs; and people edit the same files without any lock.

## 2. Modules

| modules | model |
|---|---|
| `LockFile` | a lock file's name, inodes, descriptors and flocks |
| `JobAttempts`, `Deliveries` | the jobs and deliveries tables and the calls that change them; both extend `LockFile` |
| `JobAttemptsProofs`, `DeliveriesProofs`, `ChannelStreamProofs`, `SearchCacheProofs`, `RecordCommitProofs`, `CollectionProofs`, `GuardedWriteProofs`, `RunProofs` | inductive invariants, lemmas and theorems of the module each is named after, and of others as instances: `JobAttemptsProofs` of `QueueFolders` and `QueueSpace`, `ChannelStreamProofs` of `ReadPoll`, `CollectionProofs` of `Retention` and `Reprojection`, `GuardedWriteProofs` of `BrainSelection`, `Reports`, `Installation` and `Releases`, `SearchCacheProofs` of `FolderScan`, `UsageLog`, `Reminders`, `Timeline` and `Links`, `RunProofs` of `ProgramRun`, `Dispatcher`, `Schedules`, `WatchLoop` and `Health` |
| `RecordCommit` | `_commit`, `recover`, `_clear`, one filesystem operation a step; refines `AtomicRecords`, what a transaction promises |
| `ChannelStream` | worker, pump and admission of one stream, and its adapter; refines `Inbox`, what a stream input promises |
| `Dispatcher`, `Schedules`, `ReadPoll`, `QueueSpace`, `QueueFolders` | who tries what when; one schedule and its wakes; one read input; room; the folder of a queue |
| `Collection`, `Retention`, `Reprojection`, `ProgramRun`, `Reports` | windows, history and cycles; which records stay; which fields they have; one run of a program; reports |
| `SearchCache`, `FolderScan` | generations, builds and locks of the cache; what a freshness check does not list again |
| `Ranking`, `Answers`, `Links`, `Paging`, `Timeline`, `Reminders`, `Health` | what searches, reads, pages and status answer |
| `WatchLoop`, `Dashboard` | the controller of `bf watch`, and its table |
| `GuardedWrite`, `BrainSelection`, `UsageLog`, `Installation`, `Releases`, `Listing` | helpers, registry, counts, installer, release scripts, the GitHub sensor |
| `MCJobAttempts`, `MCSearchCache`, `MCUpkeep`, `MCWorkspace` | instances for TLC: constants, symmetry, and the compositions below |

`MCWorkspace` and `MCUpkeep` check many components in one run. A variable `component` chooses one in the initial
state and never changes; the next-state relation is that component's alone, and each property is a conjunction of
`component = c => P_c`. The state space is the sum of the components', not their product, so nothing is shared between them
that the code shares; where components do interact in the code, one module has both sides (`Collection` has collections, cycles,
routines and the history; `Retention` collections and `bf forget`; `SearchCache` writers, builders and readers; `Health`
the four sources a report reads). In `MCWorkspace` the components' variables are `work1` to `work10`, in the order their module declares
them, and zero when unused; `Acting` and `Sensing` are two instances of `Collection`, `Periodic` and `Daily` of `Schedules`.
The type invariant of each component there is a conjunct of `TypesHold`. `SpecGaps`, `SpecLate` and `SpecRetention` are one component
alone, for the runs CollectionGap, LateUntold and CollectFails: `Gapping` is `Sensing` over a longer time, `Late` is `Diagnosing` with a
schedule at a time of day. Stream and RecordPower need no instance module, since the configuration gives all constants.

### LockFile

`path[k]` is the inode behind the name of key k's lock file, `fd[p]` and `held[p]` what process p has
open and whether it holds the flock. A flock belongs to an inode: after `forget` unlinks the name, a
process that opened the old inode and one that creates a new one both succeed. The two halves of
`storage._lock`, opening and flocking, are two actions, since that is where the race lies. Inode
numbers may be reused once closed; the lowest free one is taken, which loses nothing because an inode
number matters only while somebody has it open.

### JobAttempts

A process (`pc`, `task`, `key`) is a thread of a dispatcher, a `bf run`, a `bf update` or a
`bf queue`. Each label is a step of `assistants._execute` or of `Queue.retry`, and each action is the
whole transaction the code makes there. `jobs`, `saved` (the raw and prepared columns), `gate`, `tries`
and `waiting` (the retry checkpoint: attempts, and whether its due time lies ahead), `out` (the job's
delivery) and `earlier` (the rows that precede it in its slot) are the queue; `record` is
`memories/`. `starts`, `retries`, `kills` and `withdrawn` are history that only properties read.

* An error is what the code distinguishes: a failing gate, a busy lock or file (`busy`), a full queue
  (`full`), a program that never started (`notStarted`), anything else (`plain`).
* `Kill` ends a process anywhere and drops its descriptors; `Signal` is the `except BaseException`
  branch, which records the process's own attempt; either counts towards `MaxKills`.
* `Queue.next` and the execution of what it returned are separate: `Pick` reads, the call follows,
  and what it read may be stale by then. Any process may pick any runnable job, which includes every
  lane and backoff of the dispatcher.
* Time is reduced to "the due time is still ahead". `earlier` is the order of admission: rows are
  compared by creation time in microseconds, read inside the admitting transaction, and the model
  assumes that the clock does not go back between two admissions of a slot.
* Capacity is a choice here: a claim may be refused at any time. `QueueSpace` has the bytes.
* `CancelMayFail` says whether SQLite may refuse `bf run`'s cancellation of its own job, an error the
  code suppresses. The finding about `bf run` needs it; the theorems about exclusion assume it
  does not happen.

### Deliveries

The same shape for `assistants.deliver`: the row is selected before the lock (`read[p]` keeps the
attempt count it held), `Mark` is `Queue.sending`, `effects` counts the sends that reached the
channel. `committed` is what the jobs table contributes: `CommitJob` is the job's completion,
`CancelWithJob` the cancellation of a job that never completed. Because of the stale row two senders may exceed
`MAX_ATTEMPTS` by one attempt each, and `Queue.sending` does not look at the due time again.

### RecordCommit and AtomicRecords

An entry is a directory entry: a record file, a staged original, the manifest, or `memories/.pending`
itself. `now[e]` is what a process sees, `disk[e]` the set of values it may have after a power loss:
every change adds one, and the sync of its directory leaves only the last. A power loss picks one value
for each unsynced entry independently; this is what the code's per-directory syncs guard against, and
it is weaker than what a journaling filesystem guarantees. File contents are synced before their rename
and never change in place, so an entry stands for its bytes. The first staged file creates
`memories/.pending` durably (`Store.parent`), which `Plan` does in its step; a leftover staged entry of an
earlier transaction is gone by then, since the writer recovers first. The loops over records visit them in any
order. A failing operation enters the `except` branch
(`CommitFails`) with the special case of a completion marker that landed although its sync failed.

`AtomicRecords` says what readers get: a transaction replaces the records at once, and only a power loss
may undo the last one, as long as the journal could still be replayed. The refinement maps `records` to
what a reader would be shown after recovery (the originals while the manifest is open), and `previous` to the
originals while the disk may still hold an open manifest.

### ChannelStream and Inbox

`log` is what the provider has, edits included; a position of it stands for a cursor. The adapter is external and modelled
as the documentation of channels demands: one that polls resumes from the cursor it is given, or from `since`, and goes
through the log in order; one that is pushed to delivers whatever it has not acknowledged, in any order and perhaps twice.
`pipe` are the frames it wrote and `acks` the acknowledgements it has not read: both are lost with the connection. The worker
(`pc`) reads a frame and loads `bf.yaml` to find its recipients (`Receive`), loads it again to prepare their jobs (`Prepare`),
admits message, jobs and cursor in one transaction (`Admit`), and then buffers the acknowledgement (`Report`). `Refuse` is a
full queue; `Break` everything else that ends a connection, a kill of `bf watch` included, at any point in between.
`Receipt` is the part of `Queue.delivered` that meets the stream, and `Claim` stands for the start of a job in `JobAttempts`.
Only messages need an identity, so a version is "first" or "edit", and `text[a][m]` is the version a job was created from.

`Inbox` promises that a message is admitted in one version only, that jobs exist only for admitted messages and answer that
version, and that an acknowledged message was admitted or is our own. The refinement maps `admitted` to the digests the
queue keeps and `own` to marked messages and receipts. Health reports, backoff delays, frame and buffer limits (a frame
that breaks one ends the connection, as `Break` does), and the expiry of tombstones after 35 days are left out.

### Queue and dispatcher

* `Dispatcher`: `items` are jobs of lanes and deliveries of channels in the order the queue offers them; `Stuck` ones are held by
  another process all along, so every attempt at them is refused. `tasks` is the one task table with its limits (`Senders`, `Readers`,
  one worker a lane), `later` the backoff. The cycle of `bf update` takes the dispatcher lock and tries everything once. A pass waits for no
  worker: jobs, deliveries and polls last as many passes as they like. Polls that do may keep all readers, and as inputs are picked in
  the configuration's order, a later input may then starve; `EveryoneIsTried` says of such an input that the others take every reader again and
  again, and promises polls to all inputs only from when on polls end within a pass and are at most readers times `every`. It is assumed that a lane or
  channel has one held item at most, and that channels with one leave a sender free. `_admit`,
  a configuration that fails to load, and kills of watch are left out.
* `Schedules`: `Due` is what `due_schedules` computed, `Enqueue` and `EnqueueWake` the later transactions. Two races remain, which only
  start a run early or with the progress of before: `due_schedules` reads the wake, and `schedule()` reads it again,
  so a newer request may start when the older was due (`runtime.py:412` compares with the second read); and progress and active runs are
  read in two transactions. Time zones and daylight saving are not modelled.
* `ReadPoll`: `sent` holds when a message was written and when the provider lists it; `overlap` covers that delay. `admitted` may be a
  prefix, after which the checkpoint stands at its last message.
* `QueueSpace`: bytes are coarse units; `Reserved` is `answer_space`. Failed jobs keep their raw answers and so their reservations:
  admitted work may wait although nothing runs, until the owner resolves them.
* `QueueFolders`: folders are named by device and inode and bound to a path; at a boot device numbers move between brains of one inode number
  (roots of btrfs subvolumes). When two such brains get each other's number, or a brain is moved to the path another's folder is still bound to,
  a drained queue may be bound again while a queue with work of the same brain stays under its old number unnoticed; `shared` sets these
  cases aside. A rename onto a folder that exists is refused. `programs/` is left out.

### Programs and what they store

* `Collection`: an instant t stands for the items of [t, t+1). `history` has the three times of a program (`run`, `success`, `until`);
  `collected` is what really was stored, and `HistoryIsTrue` compares the two. Records and history are written in two steps. The window of a
  manual run is computed before its lock, as in the code. Clock corrections move `clock` back. Dry runs are left out.
* `Retention`: `Collect` prints any revision of any record, stale pages included; expired and forgotten records leave in a first
  transaction, new ones come in a second. `KeepsDecisions` excuses one case: a stale page whose event time is expired removes
  a newer stored revision.
* `Reprojection`: `Configs` are two mappings of a field each; documents print values the property accepts or not. `bf build --reproject` and
  collections read `bf.yaml` before they take the sensor's lock (`collect.py:571`), so a collection that had read it but waits for the lock
  puts older mappings back after a reprojection: excused, since the next one repairs it.
* `ProgramRun`: the leader and one helper of its session share a stdout pipe of bounded capacity. `apart` are the helpers that took a process
  group or a session of their own: `os.killpg` does not reach them (a comment at `collect.py:296` says "the whole session", `docs/docs/limits.md:101`
  says what happens), so `GroupEnds` excepts them and no more. A `logged` routine (`output: log`) never fails of its output's size and keeps a tail; `OutputIsWhole`
  says which outputs are whole. A second signal during the `finally` and a reused process group are assumed not to happen.
* `Reports`: a person edits, adds files, or gets actions from a pull. The deletion, the removal of the folder and the put-back may each fail, which the
  code logs and passes over (`PruningFails`). Lost in the code, and set aside (`raced`): a save between the read and the removal of a report,
  and its text when the process dies, or the put-back fails, while it is deleted.

### Cache and answers

* `SearchCache`: the live generation, the build file, and the writer, reader, building and generation locks with the gate that closes before
  a replacement waits for its readers. Its run has three kinds of instances: with changes, with a kill and damage, and with two readers that overlap.
* `FolderScan`: a file stands for its fingerprint; a folder's time is that of its last change, and a check trusts a row older than `Settle`.
  Assumed: a permission change and its revocation do not fall into one tick of the filesystem's clock.
* `Ranking`: BM25 scores are given, evidence is fixed while pages are read; suggestions and excerpts are left out.
* `Answers`: of one thing asked for, what each brain holds; brains fail, lag or change between two visits. First pages only; a record file
  renamed by hand during a read, and an alias dropped after the cache named it, are outside.
* `Links`: expansion in two passes over the caches, while one edit happens. `Opened` is an exact read: the file of that name, or else what the
  cache resolves the name to. A file that the cache leaves out (it states a BF name that is not its brain's to give) still opens by its exact ref, though the
  cache of the same or of another brain gives that ref to another item; `NamesOpenTheirOwner` excepts it.
* `Paging`, `Timeline`, `Reminders`: offsets over merged lists and over one text; days of unequal lengths, months and ranges; the review
  order, news of linked records, and the sections for what happened and what comes. Deprecated notes, tasks, tags and preview caps are left out.
* `Health`: configuration, cache, history and queue are read one after the other, each as of its own instant. `held` keeps what needed
  attention all along and at some time. A program that succeeds while a report is being made is reported overdue (`raced`).

### Owners and helpers

* `WatchLoop`, `Dashboard`: the loop with its update process, signals, board and alerts; the table that each poll replaces under the
  cursor. A second signal between the flag of `Job.terminate` and its SIGTERM, and edits of `bf.yaml` inside the loop, are left out of the first; pause,
  help and drawing of the second, where an unreadable snapshot loses the selection.
* `GuardedWrite`: inodes are used again; an editor that renames between the second check and the helper's own rename loses its save (`raced`).
* `BrainSelection`: the name of `bf.yaml` is read before the registry lock, and a registered name later selects that directory
  whatever `bf.yaml` then says.
* `UsageLog`, `Installation`: an append to the file that another process rotates meanwhile may be lost (`excused`). `bf install` takes no lock, and a
  person may edit at any time: `_state` and `_unedited` look at a file before it is written or deleted, and do not look again, so that an edit in
  between is lost, also without `--force` (`raced`, which holds such a file until the run has dealt with it). `_state` reads its files in one step here. A kill
  inside the very first manifest write leaves a temporary that later counts as unmanaged.
* `Releases`: edits between a copy and its digest, or between `sync`'s comparison and its checkout, are set aside as `raced`. A push that
  reached origin but reported failure removes the local tag; reruns of `publish` then skip push-and-tag, and `sync` stays "not tagged".
* `Listing`: pages go by number or by time; what changes while pages within two seconds are read by number is set aside (`raced`).

## 3. Runs

Every passing run completes on the whole state space of its instance.

| run | instance | states | shows |
|---|---|---|---|
| JobRaces | 3 processes, 1 routed job of a gated schedule or of `bf run`, 1 kill or signal, 1 retry | 754,786 | budget of starts, exclusion of attempts, record before completion, finished jobs and answers stay |
| JobLive | 1 process, 2 messages of a slot, the first idempotent, or one `bf run`, 1 kill | 52,262 | slot order; every job is resolved or waits for the owner |
| Stream | 3 messages of which 2 are posted or edited, 1 assistant, either kind of adapter, 2 broken connections, any number of refusals, 1 change of readers | 261,106 | refinement of `Inbox`; the cursor skips nothing; loyal readers get every job; no echo is answered; every message arrives |
| Cache | 3 processes as a reader, a builder and writer; or with a kill and damage; or two readers and a builder; 1 change, 1 edit | 151,302 | one generation per connection; nothing committed is hidden; a ready cache is fresh; calls end |
| Upkeep | records (2, one value, 3 faults), deliveries (1 process, 1 kill, 3 attempts), alerts (2 programs that fail), dispatcher (2 jobs, 2 deliveries, 2 inputs), one program run | 118,549 | refinement of `AtomicRecords`, and recovery ends; what was told stays so (`OutcomeTold`); runs and dispatchers leave behind nothing but helpers that left the group of their program (`RunsEndClean`); deliveries, jobs and runs resolve and inputs are polled while others leave a reader (`WorkResolves`); failures are told |
| Workspace | 28 components, see `MCWorkspace`; most with two parties, one or two changes and a fault | 1,357,639 | the safety of all of them |
| JobWithdraw, RecordPower, CacheStale, CollectionGap, LateUntold, CollectFails | small instances | | counterexamples to what a comment or document says; see section 6 |

Why the bounds are enough. Exclusion needs three parties: one that removes a lock file, one that still
holds the old inode, one that creates the new one; hence three processes and four inodes (one more than
processes, so that a creation is never refused) in JobRaces, and two processes where no third
can matter: deliveries, whose rows settle under the same lock. In the guarded write two helpers may read three times in all, so
that one that was refused or killed comes back as the third party beside an editor; `WritesStay` proves it for any number of helpers. One job suffices for everything except slot order, which
relates two (`SlotKept` proves it for any number of processes, where the run has one). One kill and one retry reach each recovery
path with a live competitor; limits of two or three let an attempt count reach its boundary. Two records are the least for a
mix, and two values with absence give additions, changes and removals (Workspace, two faults); three faults give a crash, a crash during its
recovery, and a power loss after that (Upkeep, one value). Of three kinds of messages (too large for a prompt, marked as our own, sent by a
delivery) any two may be posted, or one of them and its edit, which covers every pair of frames in flight together, and two frames are
what a cursor could be carried past; two broken connections are a redelivery and one more loss. One assistant is enough because
each gets its jobs by itself. Time windows have lengths of one to four instants around the settings they are compared with, so that each
comparison is met from both sides; a poll has three messages where a batch has two, each listed at once or as late as the overlap allows, a history four items where a page has two, a queue
four jobs where two fill it. Most components that relate brains have two; `Ranking` also two, with copies within one and
a match in the other. Where people, providers or `bf.yaml` change things, one or two changes meet each step of a call that reads twice.

Symmetry: the processes of JobRaces are interchangeable, which their module only compares. No other run uses symmetry: Workspace
explores more states without it in less time, and no run with liveness may rely on it.

`CHECK_DEADLOCK FALSE` is set only where the system may stop: bounded logs, clocks and edits run out, and calls answer and end.

Every action of every component is taken in some passing run (TLC's coverage of expressions, since a composed run is one action to it).

Every property has a mutant: an operator before the definition it replaces, marked "A mutant", that a plausible
slip would turn the code into, and that TLC refutes under the run's own configuration. Conjunctions over components have several.

The type invariants of `SearchCache`, `ChannelStream` and `RecordCommit` (outside Workspace) are proved and no run lists them; those of
`WatchLoop`, `Dispatcher` and `ProgramRun` hold, checked alone.

## 4. Fairness

`FairSpec` of `JobAttempts` assumes that a call that can go on does (its process runs, or it was
killed, which the models bound); that a lock that is free again and again is taken in the end (the dispatcher tries
every second and leaves a busy job alone for a bounded time only); that the dispatcher picks runnable work and
records abandoned attempts again and again (`Dispatcher.tick` every second, `recover_attempts` every minute and at
its start); that due times pass; and that the conditions the owner or other processes control come true in the end:
`bf.yaml` loads and still describes the work, answer space and the writer lock come free, a delivery is resolved.
Without the last ones work waits by design. No fairness is assumed of kills, signals or the owner's decisions.
`ChannelStream` assumes that the worker and the adapter's acknowledgements go on, that the adapter writes each frame it
keeps being able to write, and that an admission which is tried again and again finds room once: a refusal reconnects, and
the owner or finished work frees the queue. Nothing makes receipts, claims, posts or changes of `bf.yaml` happen.

`SearchCache` assumes that each process goes on and takes a lock that comes free again and again (SF), and that the gate is free of readers
again and again: a reader holds it only while it takes the generation lock. In Upkeep each component's fairness is guarded by
`component = c`, so that it says nothing about the others: a writer that can act does (a later command recovers first);
the loop of watch passes, its update ends and its intervals elapse, and a snapshot that can be read again and again is (SF, from
`poll_interval`); with one process that delivers nobody else takes its lock, so WF suffices for its lock, recovery and backoff, while the
conditions of `bf.yaml` and the pick need SF; the dispatcher enters again and again (SF: an update's cycle has the lock in between) and passes, and each worker ends, though no time bounds it;
a program run's own steps and those of its drain go on, while the program itself is bounded by its timeout only.

## 5. Proofs

Eight modules hold theorems, each checked by TLAPS for every value of the constants. `JobAttempts`, `Deliveries`, `ChannelStream`,
`SearchCache` and `RecordCommit` assume their constants' properties by name, and TLC evaluates those assumptions in the runs; all other
modules only name theirs, since the compositions instantiate them: the theorems have them as hypotheses, and `InstancesAssumption` of
the compositions has TLC evaluate them for each instance.

| theorem | states | proved in |
|---|---|---|
| `ExclusiveAttempt`, `BudgetKept`, `RecordedBeforeComplete`, `SlotKept`, `FinishedForGood`, `AnswerForGood` | the properties of JobRaces and JobLive | `JobAttemptsProofs` |
| `ExclusiveSend`, `SendOwnsRow`, `BudgetKept`, `CommittedFirst`, `SettledForGood` | the safety of deliveries | `DeliveriesProofs` |
| `CursorSkipsNothing`, `AcknowledgedIsServed`, `EchoStartsNothing`, `Refinement` | the properties of Stream; `ChannelStream` implements `Inbox` | `ChannelStreamProofs` |
| `ConnectionsSeeOneGeneration`, `FingerprintsAreTrue`, `ReadyMeansFresh` | the safety of Cache | `SearchCacheProofs` |
| `OutcomesAreTold`, `OriginalsSurviveKills`, `Refinement` | `RecordCommit` implements `AtomicRecords` | `RecordCommitProofs` |
| `HistoryTold`, `ActionsAreDaily`, `ListIsFresh`, `ResumesWhereItEnded` | `HistoryIsTrue`, `OneActionPerDay`, `DueListIsFresh`, `NothingSkipped` | `CollectionProofs` |
| `DecisionsAreKept`, `FieldsStayRight` | `WhatIsDecidedStays` and `RecordsAreKept` of `Retention` and `Reprojection` | `CollectionProofs` |
| `WritesStay`, `RegistrationsAreKept` | `WrittenStays` | `GuardedWriteProofs` |
| `WorkStays`, `EditsStay`, `ReleasesStaySafe` | `EditsSurvive` | `GuardedWriteProofs` |
| `NamesStaySafe` | `AnswersAreRight` of `BrainSelection` | `GuardedWriteProofs` |
| `GroupsEnd`, `OutputsAreWhole`, `EachTriedByOne` | `RunsEndClean` | `RunProofs` |
| `WakesAreKept`, `UpdateIsStopped`, `SuccessesCountOnce` | `RequestsAreKept`, `UpdateStops`, `CountsAreTrue` of the watch | `RunProofs` |
| `TroubleStaysTold` | `AnswersAreRight` of `Health` | `RunProofs` |
| `WithdrawnForGood` | what JobWithdraw refutes, where the cancellation does not fail | `JobAttemptsProofs` |
| `QueuesFollow`, `RoomStaysKept` | `WhatIsDecidedStays` of `QueueFolders`, `RoomIsKept` | `JobAttemptsProofs` |
| `PollsMissNothing`, `FoldersAreSeen` | `NothingMissed` of `ReadPoll` and `FolderScan` | `ChannelStreamProofs`, `SearchCacheProofs` |
| `CountsStayTrue` | `CountsAreTrue` of the usage log | `SearchCacheProofs` |
| `RemindersStayRight`, `PagesStayRight`, `LinksStayRight` | `AnswersAreRight` of `Reminders`, `Timeline`, `Links` | `SearchCacheProofs` |

The second column names the property of a run whose conjunct for that component the theorem states for every value of the constants.
Each module also proves the inductive invariants (`Invariance`, `QueueInvariance`, `LinkInvariance` and the like), which have the types as their
first conjuncts. Each action is shown to preserve each conjunct it can disturb. The larger invariants were checked by TLC on an instance
before they were proved.

**Jobs.** All but `TypeCorrect` need `~CancelMayFail`. That a live attempt's row says `running` cannot be shown by itself: a recovering process would
overwrite it, were it not for the lock, and the lock is a file that may be replaced. So the invariant says, in turn:
who holds a descriptor and a flock at each step (`LockFollowsPC`), that an inode has one holder (`OneHolder`), and
that all who opened the file of an *unfinished* job have the inode behind its name (`SameFile`), since only a
finished job's file is unlinked (`UnlinkedIsFinished`). Together they give `AloneAtWork`: at most one process is past
the flock of an unfinished job. With it, what the process read stays true up to what the owner may do without the lock,
and `StateFollowsPC` says what that is at each step (for example `pending` or `cancelled` before the claim, `running` from
then on, since running jobs cannot be resolved). `SavedFollowsState` gives the point a retry resumes from,
`StartsFollowState` counts starts against the owner's retries, `FullBeforeStart` says that a job withdrawn for lack
of space never started, and `AloneBeforeCreation` that `bf run` has its key to itself until it creates the job.
`SlotKept` adds `SlotInv`: everything before the job of a worker is finished, from the moment the queue
offered it. A worker reads that in `Queue.next`, before it locks, and acts on it much later; it stays true because the jobs before
a job are fixed at its admission (`EarlierStep`) and finished jobs stay finished (`FinishedStep`). `bf run` never asks the queue, and
needs no order, because its slot is its own (`SlotAssumption`). `WithdrawnForGood` adds that a withdrawn job is
cancelled or was never created (`WithdrawnInv`): only the `bf run` that did not withdraw it creates it, and no retry takes up a cancelled one.

**Queue folders.** `Apart` says that brains have different devices and paths, `Whole` that work waits only in a queue bound to its brain, `Called` that a call is about
its brain's present folder and renames under the lock, and `Kept` that, until a number or a path comes to an old folder, exactly one folder is
bound to a brain: its own, or the one a call is about to rename. The proof found three things that the model had wrong or too loose: a move to
another's bound path was not counted as `shared`, a rename replaced an existing folder, and the assumption allowed two brains at one place.

**Room.** `RoomIsKept` is a conjunct of its own inductive invariant, with the types (`SpaceTypes`) and what a row of each state has (`RowsAreRight`). It speaks of
sums over any number of jobs. Operators are no parameters here, so induction over a finite set is proved once for a *set* of good subsets
(`SubsetInduction`, from the well-foundedness of inclusion), and from it that a sum is the sum of its parts, changes by what one element
changes, and grows with its terms.

**Deliveries.** The argument about locks is that of jobs. What differs is that a send acts on the row it selected before the lock, so that row says
nothing at the step that needs it; `SendsAreDue` keeps only what survives (the delivery exists, its job's completion is committed), and
`EffectsFollowState` counts the sends that reached the channel: a message that may be sent unasked has not reached it since the owner's
last retry. `SettledForGood` goes through the transactions that write a row: each looks at the state in its own transaction,
but for the receipt, which overwrites it, and there `LiveSendOwnsRow` says that the row is `running`.

**Streams.** `NothingSkipped` is about the cursor in the database, but it moves to the frame in hand; whether that skips anything depends on the frames
in flight. `PollInOrder` says that those of a polling adapter are consecutive from where the cursor stands, through every disconnection;
`HandledFirst`, that the frame about to be reported, the buffered acknowledgements and those given are all for handled messages;
`FrameInHand` and `AdmittedServed`, that whoever read the channel all along is among the recipients of the frame in hand and of all that
was admitted. The proofs need that the absence of a version is none of the versions (`NoneAssumption`). In the refinement `Admit` maps to `Inbox`'s `Admit`, `Acknowledge` to its
`Acknowledge`, `Receipt` to `Recognise`; a frame admitted a second time and every other step map to stutters.

**Polls.** `PollWindow` orders the bounds of a window against the checkpoint, `BatchRead` says what a batch holds of it, and `LeftBehind` what may lie before it unread:
a message that the provider listed later than `overlap`, one that the next poll reads again, or what an overflow of one instant gave up.

**Cache.** Locks follow the program counter (`LocksFollowPC`) and connections follow locks (`ConnectedUnderLock`), so that no two steps that need
a lock are of two processes at once. The data follow from orders between versions of a file: fingerprint <= stored content <= brain
(`LiveIsTrue`) and, for a build, call's start <= fingerprint <= content <= brain (`DraftIsTrue`), since a file is fingerprinted before it is read. `CallsOK` puts
what a call compared between its start and now; `ScanApplies` says a refresh applies to the rows it was compared with, because the writer
lock was taken before the last comparison. `FoundFresh` carries a verdict to the answer; `raced` is set by a replacement in between. Processes are finitely many (the
lowest free inode exists because there are more inodes than processes).

**Records.** The writer's position says what the disk may show after a power loss *now*: `CommitPosition` and `RecoveryPosition` for each
fsync passed, `Journal` for the manifest (files are in doubt only while it is open, and it was durable before the first of them changed), `OldOrNew` for
what any entry may come back as. `Outlook` relates what will be reported (after a completion marker that landed although its sync failed, too)
with what is durable. In the refinement `Plan` maps to `Begin`, the completion marker (`Complete`) to `Commit`, the fsyncs that make the marker or the removal of the
staging directory durable to `Settle`, and a power loss to `Undo` when it brings the open manifest back and to `Settle` otherwise. All
other steps map to stutters: those on the staging directory (`StagingUnseen`), those on record files, since readers see the originals
while the manifest is open (`RecordsUnseen`), and those that write the manifest over the base (`ManifestUnseen`). It is proved for any set of records,
any values and any number of kills, failing operations and power losses, assuming that `Absent` is no value and no marker (`AbsentAssumption`).

**Collections.** Each process's call is described by where it stands (`Placed`), the locks it holds (`Locking`) and what it has stored
(`Storing`: what a run is about to claim, it collected). `Claims` says that a claimed interval is not empty and comes from a program that ran. `HistoryTold` follows for the interval
arithmetic of `_coverage`, whose cases the lemma about a run's claim goes through: windows overlap what the history has, extend it, replace it, or are
older than it (clocks set back and manual runs). The hypothesis `CollectionAssumption` says that instants cover
the settings, and that names of locks are no programs.

**Records of a collection.** For `DecisionsAreKept`, `Between` and `After` say what the two transactions of a collection know of the records: nothing that is listed as
forgotten is stored or about to be, and what is stored but not about to be kept was not printed; `Alone` keeps `bf forget` from running between them. For `FieldsStayRight`,
`Visiting` says of a reprojection in progress that the records to come are as they were, those behind it are as its mappings say, and that its counts
are cardinalities of these sets; `Collecting` is what a collection that read `bf.yaml` earlier may still store.

**Guarded writes.** `Placed` says for each helper which inode its target has and whether its lock file is the one its name leads to; `OneGuard`
follows, since a lock file that was found in place stays its holder's. `Unsaved` keeps an editor's next change out of every content; `raced \/ Safe` is
the conditional invariant up to the window the code cannot close.

**Other files of a person.** A registration writes what it read under the lock with its own name changed, so `told = registry` is invariant (`RegistryInv`); that a name selects one
directory follows case by case, and showed two cases of `Located` that overlapped. For reports, `Work` places a person's text in its folder, or beside a report
that is put back soon. For installations, `Looked` says that a file which a run has looked at and not yet dealt with is not a person's, unless it was edited since (`raced`), and
`Clean` what an unforced run may find where nobody edited: recorded or shipped bytes in each file it knows; that holds from the look to the last
write, and after a kill it is what the next run checks again. For releases, `Numbered` and `Known` tell contents of a session from those of the release, `KeptClear`
keeps them out of what is about to be overwritten, `InPlace` is the property, and `Tested` follows a commit from CI to the tag.

**Runs, dispatcher, schedules.** For a run, `Session` says when the session exists and that only who left the group is alive at the end although the child is unknown while it forks,
`Stdout` that stdout stays ended once nobody holds it, and `Output` that what was printed is in the pipe or read. For the dispatcher,
`Owners` ties the workers and the cycle to the holder of `.dispatch`, and `Places` ties an item to its lane or channel; that the queue's first item is
one it offers rests on the well-ordering of numbers, derived from the library's theorem on inclusion of finite sets (`LeastItem`). For wakes, `Requests` says that a request
is pending with no job, or taken by the one job that carries it, or gone; its hypothesis `Bounded` adds that the bounds are numbers.

**Watch and status.** For the loop, `Known` says that `Job` knows the update that runs except between `Popen` and the assignment, where signals are deferred; `Asked` that it was asked to stop
exactly if `Job` remembers so, except between these two steps; and `Counting` that what counts as work is what succeeded since the successes last counted. For the
report, `Lasting` says what a trouble that held all along implies of the time the report took at its start, `Told` that the parts read have told it, and `AlertsTrue` that what
was told held at some time, or came right while the report was made (`RacedOnes`). `TroubleStaysTold` has a hypothesis (`Simple`): the assistant's
schedule has no time of day and no days. With a time of day the statement is false of the code: it is what LateUntold refutes.

**Folders, counts, reminders.** A check that saw a folder unmoved found what is there (`FoundTrue`), and a trusted row with the folder's time holds it (`CacheHolds`), because a change after the
stat gets a later time than a row old enough to be trusted. Each event of a usage file is in one line, of its day (`TrueLines`), and those of the window that no rotation
overtook are in the newest file (`Noted`). `NewsTrue` says that the linked records a page finds by their times are the news since the last edit, `EditsTrue` that a note's
clock is at most `Skew` ahead; that a review list filled by the first ones holds the most urgent is `FirstsFilled`, by induction over finite sets.

**Time line.** `PageOf` says that the pages of a walk are whole days, ranges or months, `SeenBefore` and `CountedBefore` that what was listed and counted is what fell
before the first day not read. That the pages tile the days rests on lemmas about months of any lengths, whose first and last days exist because a
finite set of numbers has extremes.

**Links.** The invariant speaks of what held all along the read and at some time of it (`HoldersTrue`): a match has every name its item kept (`NamesTold`), a claim of another
item that lasted is heard of once its brain was asked (`HeardOf`), and a name counts as shared only as another held it (`SharedTold`). Without edits the matches
are the owners (`MatchesTrue`) and the probes complete (`ProbesTrue`), which gives `NeverMerged` and `Expanded` for the answer. The proof failed at first for
`NamesOpenTheirOwner`: `Opened` did not resolve a name of no file through the cache, as `retrieve._read` does, and a file the cache leaves out may stand at
the name. TLC confirmed the counterexample; the model and the property were corrected, and a start of the instance now reaches the case.

Only model-checked: all liveness (`MessagesArrive`, `CallsEnd`, `RecoveryEnds`, `WorkResolves`, `FailuresAreTold` and those of jobs), since fairness and
`ENABLED` are beyond the prover; the safety of `Ranking`, `Paging`, `Dashboard` and `Listing`, which sort sequences with operators of the community modules that
are defined by a choice among all orders, and of `Answers`, which filters sequences by a recursive definition: what these compute for every
input needs induction over data with operator parameters, which the provers cannot instantiate. No module declares a RECURSIVE operator.

## 6. Findings

1. `bf run` without answer space cancels its job under `suppress(Error)` and tells its caller that the run was cancelled.
   When SQLite refuses the cancellation, the job stays pending and a dispatcher runs it later (JobWithdraw).
   In the same case the lock file of a pending job is removed, after which two processes may hold "its" lock.
2. A completion marker that was renamed but not synced when its process was killed is trusted by the next recovery, which
   deletes the originals; a power loss may then bring back the open manifest without them (RecordPower). Records are never
   mixed even then: ImplementsAtomicRecords holds with the same faults, because such a manifest is refused instead of applied.
3. A reader checks the cache and opens it in two steps; when another process publishes in between a build that began before a commit, the reader
   answers from it without that commit (CacheStale).
4. A failed run of a cycle that was dated before an overlapping run which succeeded moves the last run back; the end that history proves then
   lies before what the next run takes for contiguous, and a gap inside the catch-up horizon is taken for collected (CollectionGap; a clock
   that is set back does the same).
5. An assistant scheduled at a time of day is not overdue, however long ago it succeeded (LateUntold).
6. A collection whose second transaction fails says that nothing was written although its first removed records (CollectFails).

Each contradicts a comment, docstring or page that `PROJECT.json` quotes.

## 7. Not modelled, and why

* A harness that survives the SIGKILL of its `bf` process keeps running in its own session; `starts` counts it once, and
  the model does not follow its effects further. A stale lock file left by a crash costs nothing and is not collected.
* SQLite's transactions are atomic and durable when they return (`synchronous=EXTRA`); its internals are not modelled.
* Parsing and validation of configuration, notes and messages (`models.py`, `validate.py`): stateless and wording; evaluation (`evaluate.py`);
  the command line and MCP, which call what is modelled; skill scripts and the other example sensors, which are one-shot; drawing and layout.
* Expiry of tombstones after 35 days, dry runs, `bf forget` by pattern, tasks and tags pages, temporary files of interrupted writes.

## 8. What is left

* The theorems about `Answers`, `Ranking`, `Paging`, `Listing` and `Dashboard` need lemmas about selecting from and sorting sequences of any length; folds over
  sets, for which this project has them (`JobAttemptsProofs`), would be a way to restate those modules.
* `TroubleStaysTold` for schedules with a time of day, once the code says when such an assistant is late.
* Liveness beyond the instances that TLC checks.
