------------------------------- MODULE Store -------------------------------
(***************************************************************************)
(* The transfer store of file-share (store.go): the in-memory maps guarded *)
(* by s.mu, the directory tree under dataDir, and the steps every goroutine *)
(* that calls a store method goes through.                                 *)
(*                                                                         *)
(* A store method is cut at the points where another goroutine, or a       *)
(* crash, can see its effects: every acquisition of s.mu and every file    *)
(* system call.  Only createTransfer, createLinkTransfer and               *)
(* touchLinkTransfer touch the disk while they hold s.mu; writeChunk and   *)
(* deleteTransfer release it first, which is where the hazards are.        *)
(*                                                                         *)
(* Data is abstract: a chunk file is absent, torn (created or truncated    *)
(* but not completely written) or whole.  writeMeta's write-to-tmp and     *)
(* rename is one step here; MetaFile models it call by call.               *)
(***************************************************************************)
EXTENDS Integers, FiniteSets

CONSTANTS
    Handlers,               \* request goroutines (one request at a time each)
    Sweeper,                \* the goroutine of main() that runs the TTL sweep
    DirectIds,              \* transfer ids chosen by WebSocket clients
    LinkIds,                \* transfer ids drawn by genRandomToken
    Pubkeys,                \* authenticated identities
    Tokens,                 \* manage tokens
    StartUploads,           \* the start_upload messages clients may send
    LinkStart,              \* LinkStart[id]: the /link/start request given id
    MaxChunks,              \* bound on total_chunks
    maxTransfersPerSender,  \* the cap of createTransfer
    TTL,                    \* -ttl, in ticks of the clock
    MaxClock,               \* bound on the clock
    DiskFull                \* TRUE if a write may fail halfway

None     == ""                        \* Go's empty string: no such field
Ids      == DirectIds \cup LinkIds
Procs    == Handlers \cup {Sweeper}
Index    == 0 .. MaxChunks - 1
Clock    == 0 .. MaxClock
MetaJson == -1                        \* meta.json in a directory listing
Names    == Index \cup {MetaJson}     \* i stands for the file <i>.chunk
Data     == {"absent", "torn", "whole"}

Meta == [ mode      : {"direct", "link"},
          from      : Pubkeys \cup {None},
          to        : Pubkeys \cup {None},
          manage    : Tokens \cup {None},
          total     : 1 .. MaxChunks,
          shareable : BOOLEAN,
          oneTime   : BOOLEAN,
          touched   : Clock ]

NoMeta == [mode |-> "absent"]         \* the key is not in s.meta, no meta.json

ASSUME ProcsAssumption == Sweeper \notin Handlers
ASSUME IdsAssumption == None \notin Ids    \* transferIDPattern, 16 random bytes
\* hello rejects an empty pubkey and linkTransferForManage an empty token
ASSUME CredentialsAssumption == None \notin Pubkeys \cup Tokens
ASSUME BoundsAssumption ==
    /\ MaxChunks \in Nat \ {0}
    /\ maxTransfersPerSender \in Nat
    /\ TTL \in Nat
    /\ MaxClock \in Nat
    /\ DiskFull \in BOOLEAN
ASSUME StartUploadsAssumption ==
    StartUploads \subseteq [ id : DirectIds, from : Pubkeys, to : Pubkeys,
                             total : 0 .. MaxChunks, shareable : BOOLEAN ]
ASSUME LinkStartAssumption ==
    LinkStart \in [ LinkIds -> [ manage : Tokens, total : 1 .. MaxChunks,
                                 oneTime : BOOLEAN ] ]

\* No assumption, but a setting that some promises need: WebSocket clients keep
\* to ids of their own, although start_upload takes any id of the pattern,
\* that of a former link included.
IdsApart == DirectIds \cap LinkIds = {}

VARIABLES
    meta,       \* s.meta
    received,   \* s.received; the nil set and the empty set are alike
    served,     \* s.served
    dir,        \* the transfer directories that exist under dataDir
    metaFile,   \* metaFile[id]: the contents of dataDir/id/meta.json
    chunk,      \* chunk[id][i]: the file dataDir/id/i.chunk
    task,       \* task[p]: where goroutine p is and its local variables
    linked,     \* goroutines whose open file or directory is still on disk
    queue,      \* sweep's local slice of expired ids
    clock

memory    == <<meta, received, served>>
disk      == <<dir, metaFile, chunk>>
storeVars == <<memory, disk, task, linked, queue, clock>>

-----------------------------------------------------------------------------
(* Goroutines. *)

PC == {"idle",
       "create",                                   \* createTransfer, after MkdirAll
       "lookup", "open", "data", "commit", "persist", \* writeChunk
       "indices", "sending",                       \* WebSocket download
       "read", "send", "mark",                     \* link download
       "forget", "list", "unlink"}                 \* deleteTransfer

Op == {"none", "start_upload", "chunk", "download", "complete",
       "link_start", "link_put", "link_get", "link_delete", "sweep"}

Idle == [pc |-> "idle", op |-> "none", id |-> None, idx |-> 0,
         held |-> NoMeta, todo |-> {}, buf |-> "absent"]

Task == [ pc   : PC,
          op   : Op,
          id   : Ids \cup {None},
          idx  : Int,                   \* the chunk index of the request
          held : Meta \cup {NoMeta},    \* the local transferMeta m
          todo : SUBSET Names,          \* names to unlink, or indices to send
          buf  : Data ]                 \* the chunk read for the downloader

Begin(p, op, id, idx, pc) ==
    task' = [task EXCEPT ![p] = [Idle EXCEPT !.pc = pc, !.op = op,
                                             !.id = id, !.idx = idx]]
Goto(p, pc) == task' = [task EXCEPT ![p].pc = pc]
Finish(p)   == task' = [task EXCEPT ![p] = Idle]

At(p, pc) == task[p].pc = pc

\* Mutants of LockFree: createTransfer does not lock s.mu; markLinkChunkServed
\* calls deleteTransfer, which locks s.mu, before it has unlocked it.
NeverLocked == TRUE
LockHeldToBurn ==
    \A p \in Procs : /\ ~At(p, "create")
                     /\ ~(At(p, "forget") /\ task[p].op = "link_get")

\* s.mu is held across a step boundary only inside createTransfer and
\* createLinkTransfer; every other critical section is one step.
LockFree == \A p \in Procs : ~At(p, "create")

Known(id) == meta[id] # NoMeta                \* the ok of a map lookup
Chunks(m) == 0 .. m.total - 1
Touch(m)  == [m EXCEPT !.touched = clock]     \* m.TouchedAt = time.Now()
Files(id) == {i \in Index : chunk[id][i] # "absent"}
Listing(id) ==
    Files(id) \cup (IF metaFile[id] = NoMeta THEN {} ELSE {MetaJson})

\* writeMeta, as one step: the entry is in meta.json, or an error is returned.
WriteMeta(id, m) ==
    id \in dir /\ metaFile' = [metaFile EXCEPT ![id] = m]
WriteMetaFails(id) ==
    (id \notin dir \/ DiskFull) /\ UNCHANGED metaFile

StoreInit ==
    /\ meta     = [id \in Ids |-> NoMeta]
    /\ received = [id \in Ids |-> {}]
    /\ served   = [id \in Ids |-> {}]
    /\ dir      = {}
    /\ metaFile = [id \in Ids |-> NoMeta]
    /\ chunk    = [id \in Ids |-> [i \in Index |-> "absent"]]
    /\ task     = [p \in Procs |-> Idle]
    /\ linked   = {}
    /\ queue    = {}
    /\ clock    = 0

-----------------------------------------------------------------------------
(* createTransfer and createLinkTransfer. *)

DirectMeta(r) ==
    [mode |-> "direct", from |-> r.from, to |-> r.to, manage |-> None,
     total |-> r.total, shareable |-> r.shareable, oneTime |-> FALSE,
     touched |-> clock]

LinkMeta(id) ==
    [mode |-> "link", from |-> None, to |-> None,
     manage |-> LinkStart[id].manage, total |-> LinkStart[id].total,
     shareable |-> FALSE, oneTime |-> LinkStart[id].oneTime,
     touched |-> clock]

SentBy(from) == {id \in Ids : Known(id) /\ meta[id].from = from}

UnderCap(from) == Cardinality(SentBy(from)) < maxTransfersPerSender

\* Lock s.mu, find no entry, MkdirAll.  An existing entry is success without
\* a change of state (a resumed upload), a full account an error.
Create(p, op, id, m) ==
    /\ At(p, "idle")
    /\ LockFree
    /\ ~Known(id)
    /\ dir'  = dir \cup {id}
    /\ task' = [task EXCEPT ![p] = [Idle EXCEPT !.pc = "create", !.op = op,
                                                !.id = id, !.held = m]]
    /\ UNCHANGED <<memory, metaFile, chunk, linked, queue, clock>>

\* writeMeta, publish the entry, unlock, reply upload_ready.
CreateCommit(p) ==
    LET id == task[p].id IN
    /\ At(p, "create")
    /\ WriteMeta(id, task[p].held)
    /\ meta'     = [meta     EXCEPT ![id] = task[p].held]
    /\ received' = [received EXCEPT ![id] = {}]
    /\ Finish(p)
    /\ UNCHANGED <<served, dir, chunk, linked, queue, clock>>

\* writeMeta fails: the directory is gone again, or the disk is full.
CreateFail(p) ==
    /\ At(p, "create")
    /\ WriteMetaFails(task[p].id)
    /\ Finish(p)
    /\ UNCHANGED <<memory, dir, chunk, linked, queue, clock>>

-----------------------------------------------------------------------------
(* writeChunk: five steps, s.mu held only in the first and the fourth. *)

InRange(idx, m) == idx >= 0 /\ idx < m.total

\* Mutant of WriteLookup: the bounds check is off by one.
WriteLookupClosed(p) ==
    LET id == task[p].id IN
    /\ At(p, "lookup")
    /\ LockFree
    /\ IF Known(id) /\ task[p].idx \in 0 .. meta[id].total
       THEN task' = [task EXCEPT ![p].pc = "open", ![p].held = meta[id]]
       ELSE Finish(p)
    /\ UNCHANGED <<memory, disk, linked, queue, clock>>

WriteLookup(p) ==
    LET id == task[p].id IN
    /\ At(p, "lookup")
    /\ LockFree
    /\ IF Known(id) /\ InRange(task[p].idx, meta[id])
       THEN task' = [task EXCEPT ![p].pc = "open", ![p].held = meta[id]]
       ELSE Finish(p)                          \* ErrNotExist, ErrInvalid
    /\ UNCHANGED <<memory, disk, linked, queue, clock>>

\* os.WriteFile opens with O_CREATE|O_TRUNC: the old contents are gone.
WriteOpen(p) ==
    LET id == task[p].id IN
    /\ At(p, "open")
    /\ IF id \in dir
       THEN /\ chunk'  = [chunk EXCEPT ![id][task[p].idx] = "torn"]
            /\ linked' = linked \cup {p}
            /\ Goto(p, "data")
       ELSE /\ Finish(p)
            /\ UNCHANGED <<chunk, linked>>
    /\ UNCHANGED <<memory, dir, metaFile, queue, clock>>

\* The rest of os.WriteFile.  An unlinked file is written to no effect.
WriteData(p) ==
    /\ At(p, "data")
    /\ chunk'  = IF p \in linked
                 THEN [chunk EXCEPT ![task[p].id][task[p].idx] = "whole"]
                 ELSE chunk
    /\ linked' = linked \ {p}
    /\ Goto(p, "commit")
    /\ UNCHANGED <<memory, dir, metaFile, queue, clock>>

\* Mutant of WriteFail: the error of os.WriteFile is ignored.
WriteFailIgnored(p) ==
    /\ At(p, "data")
    /\ DiskFull
    /\ linked' = linked \ {p}
    /\ Goto(p, "commit")
    /\ UNCHANGED <<memory, disk, queue, clock>>

\* os.WriteFile fails halfway; writeChunk returns without removing the file.
WriteFail(p) ==
    /\ At(p, "data")
    /\ DiskFull
    /\ linked' = linked \ {p}
    /\ Finish(p)
    /\ UNCHANGED <<memory, disk, queue, clock>>

\* Mutant of WriteCommit: give up when the transfer is gone by now, and leave
\* the chunk file behind.
WriteCommitIfKnown(p) ==
    LET id == task[p].id
        m  == Touch(task[p].held) IN
    /\ At(p, "commit")
    /\ LockFree
    /\ IF Known(id)
       THEN /\ meta'     = [meta     EXCEPT ![id] = m]
            /\ received' = [received EXCEPT ![id] = @ \cup {task[p].idx}]
            /\ task'     = [task EXCEPT ![p].pc = "persist", ![p].held = m]
       ELSE Finish(p) /\ UNCHANGED <<meta, received>>
    /\ UNCHANGED <<served, disk, linked, queue, clock>>

\* Publish the m of WriteLookup, whatever became of the entry since.
WriteCommit(p) ==
    LET id == task[p].id
        m  == Touch(task[p].held) IN
    /\ At(p, "commit")
    /\ LockFree
    /\ meta'     = [meta     EXCEPT ![id] = m]
    /\ received' = [received EXCEPT ![id] = @ \cup {task[p].idx}]
    /\ task'     = [task EXCEPT ![p].pc = "persist", ![p].held = m]
    /\ UNCHANGED <<served, disk, linked, queue, clock>>

\* writeMeta without s.mu; an error rejects a chunk that is stored.
WritePersist(p) ==
    LET id == task[p].id IN
    /\ At(p, "persist")
    /\ WriteMeta(id, task[p].held) \/ WriteMetaFails(id)
    /\ Finish(p)
    /\ UNCHANGED <<memory, dir, chunk, linked, queue, clock>>

-----------------------------------------------------------------------------
(* deleteTransfer: forget under s.mu, then os.RemoveAll without it. *)

\* Mutant of Forget: the delete of s.served is missing.
ForgetKeepsServed(p) ==
    LET id == task[p].id IN
    /\ At(p, "forget")
    /\ LockFree
    /\ meta'     = [meta     EXCEPT ![id] = NoMeta]
    /\ received' = [received EXCEPT ![id] = {}]
    /\ Goto(p, "list")
    /\ UNCHANGED <<served, disk, linked, queue, clock>>

Forget(p) ==
    LET id == task[p].id IN
    /\ At(p, "forget")
    /\ LockFree
    /\ meta'     = [meta     EXCEPT ![id] = NoMeta]
    /\ received' = [received EXCEPT ![id] = {}]
    /\ served'   = [served   EXCEPT ![id] = {}]
    /\ Goto(p, "list")
    /\ UNCHANGED <<disk, linked, queue, clock>>

\* RemoveAll opens the directory and reads the names in it.
ListDir(p) ==
    LET id == task[p].id IN
    /\ At(p, "list")
    /\ IF id \in dir
       THEN /\ linked' = linked \cup {p}
            /\ task' = [task EXCEPT ![p].pc = "unlink", ![p].todo = Listing(id)]
       ELSE /\ Finish(p)
            /\ UNCHANGED linked
    /\ UNCHANGED <<memory, disk, queue, clock>>

\* Remove one listed name, in any order, relative to the opened directory.
\* A writer that has the file open keeps a file nobody can find.
Unlink(p) ==
    LET id == task[p].id
        Writers(i) == {q \in Procs : /\ At(q, "data")
                                     /\ task[q].id = id
                                     /\ task[q].idx = i} IN
    /\ At(p, "unlink")
    /\ \E f \in task[p].todo :
          /\ task' = [task EXCEPT ![p].todo = @ \ {f}]
          /\ IF p \notin linked
             THEN UNCHANGED <<metaFile, chunk, linked>>
             ELSE IF f = MetaJson
             THEN /\ metaFile' = [metaFile EXCEPT ![id] = NoMeta]
                  /\ UNCHANGED <<chunk, linked>>
             ELSE /\ chunk'  = [chunk EXCEPT ![id][f] = "absent"]
                  /\ linked' = linked \ Writers(f)
                  /\ UNCHANGED metaFile
    /\ UNCHANGED <<memory, dir, queue, clock>>

\* The final rmdir, by name: it fails when something was created meanwhile,
\* and RemoveAll returns that error.
RemoveDir(p) ==
    LET id == task[p].id
        Handles == {q \in Procs : task[q].id = id} IN
    /\ At(p, "unlink")
    /\ task[p].todo = {}
    /\ IF Listing(id) = {}
       THEN dir' = dir \ {id} /\ linked' = linked \ Handles
       ELSE linked' = linked \ {p} /\ UNCHANGED dir
    /\ Finish(p)
    /\ UNCHANGED <<memory, metaFile, chunk, queue, clock>>

-----------------------------------------------------------------------------
(* readChunk, touchLinkTransfer and markLinkChunkServed. *)

\* readChunk goes to the disk by name: no lock, no look at s.received.
Stored(id, i) == chunk[id][i] # "absent"

\* Mutant of TouchLink: the missing entry is not noticed, and m is Go's zero
\* value with a fresh TouchedAt.
TouchLinkUnchecked(id) ==
    LET zero == [mode |-> "direct", from |-> None, to |-> None, manage |-> None,
                 total |-> 0, shareable |-> FALSE, oneTime |-> FALSE,
                 touched |-> clock] IN
    /\ LockFree
    /\ meta' = [meta EXCEPT ![id] = IF Known(id) THEN Touch(@) ELSE zero]
    /\ UNCHANGED metaFile

\* touchLinkTransfer holds s.mu across its writeMeta, whose error it ignores.
TouchLink(id) ==
    /\ LockFree
    /\ IF ~Known(id) THEN UNCHANGED <<meta, metaFile>>
       ELSE /\ meta' = [meta EXCEPT ![id] = Touch(@)]
            /\ WriteMeta(id, Touch(meta[id])) \/ WriteMetaFails(id)

\* Mutant of Burns: off by one.
BurnsLate(m, set) == m.oneTime /\ Cardinality(set) > m.total

Burns(m, set) == m.oneTime /\ Cardinality(set) >= m.total

\* markLinkChunkServed: the verdict falls under s.mu, the burn follows it.
MarkServed(p) ==
    LET id  == task[p].id
        set == served[id] \cup {task[p].idx} IN
    /\ At(p, "mark")
    /\ LockFree
    /\ IF meta[id].mode # "link" THEN Finish(p) /\ UNCHANGED served
       ELSE /\ served' = [served EXCEPT ![id] = set]
            /\ IF Burns(meta[id], set) THEN Goto(p, "forget") ELSE Finish(p)
    /\ UNCHANGED <<meta, received, disk, linked, queue, clock>>

-----------------------------------------------------------------------------
(* The TTL sweep. *)

\* Mutant of Expired: After instead of Before.
ExpiredAfter(id) == Known(id) /\ meta[id].touched > clock - TTL

Expired(id) == Known(id) /\ meta[id].touched < clock - TTL

\* Collect under s.mu; the deletions follow after s.mu is released.
SweepCollect ==
    /\ At(Sweeper, "idle")
    /\ queue = {}
    /\ LockFree
    /\ \E id \in Ids : Expired(id)
    /\ queue' = {id \in Ids : Expired(id)}
    /\ UNCHANGED <<memory, disk, task, linked, clock>>

SweepNext ==
    /\ At(Sweeper, "idle")
    /\ \E id \in queue :
          /\ queue' = queue \ {id}
          /\ Begin(Sweeper, "sweep", id, 0, "forget")
    /\ UNCHANGED <<memory, disk, linked, clock>>

-----------------------------------------------------------------------------
(* A crash and the restart's loadExisting: the disk is all that is left. *)

Restart ==
    /\ meta'     = metaFile
    /\ received' = [id \in Ids |-> IF metaFile[id] = NoMeta THEN {}
                                                            ELSE Files(id)]
    /\ served'   = [id \in Ids |-> {}]
    /\ task'     = [p \in Procs |-> Idle]
    /\ linked'   = {}
    /\ queue'    = {}
    /\ UNCHANGED <<disk, clock>>

Tick ==
    /\ clock < MaxClock
    /\ clock' = clock + 1
    /\ UNCHANGED <<memory, disk, task, linked, queue>>

=============================================================================
