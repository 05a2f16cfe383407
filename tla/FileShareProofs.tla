-------------------------- MODULE FileShareProofs --------------------------
(***************************************************************************)
(* Proofs that FileShare keeps its types and burns a one-time link when    *)
(* and only when all of its chunks have been written to downloaders -- for *)
(* any number of handlers, transfers and chunks, with crashes, the sweep   *)
(* and WebSocket clients that take the id of a link for their own.         *)
(*                                                                         *)
(* TypeOK is not inductive: a goroutine writes its local copy of a         *)
(* transferMeta, and its index, into the maps long after they were         *)
(* checked.  TypeInv adds what the locals satisfy (LocalOK) and what every *)
(* copy of the entry of one id has in common with the request that made    *)
(* it (Proper), in memory, in meta.json and in the locals.  BurnInv adds   *)
(* the relation of served, sent and the goroutines that are about to burn. *)
(***************************************************************************)
EXTENDS FileShare, FiniteSetTheorems, TLAPS

\* What all copies of the entry of a link agree on: mode, manage token, size
\* and one-time flag are those of its /link/start request, and it has neither
\* From nor To and is not shareable.
LinkEntry(id, m) ==
    /\ id \in LinkIds
    /\ m.mode = "link" /\ m.from = None /\ m.to = None
    /\ m.manage = LinkStart[id].manage
    /\ m.total = LinkStart[id].total
    /\ m.oneTime = LinkStart[id].oneTime
    /\ m.shareable = FALSE

DirectEntry(id, m) ==
    id \in DirectIds /\ m.mode = "direct" /\ m.oneTime = FALSE

Proper(id, m) == m \in Meta /\ (LinkEntry(id, m) \/ DirectEntry(id, m))

Torn(id, i) == chunk[id][i] = "torn"

\* What the locals t of goroutine p satisfy once its first check is passed.
LocalOK(p, t) ==
    /\ t.pc # "idle" => t.id \in Ids
    /\ t.pc \in {"create", "open", "data", "commit", "persist"}
         => Proper(t.id, t.held)
    /\ t.pc \in {"open", "data", "commit", "persist"}
         => InRange(t.idx, t.held)
    /\ t.pc \in {"indices", "sending"} => t.op = "download"
    /\ t.pc = "sending" => t.todo \subseteq Index
    /\ t.pc \in {"read", "send", "mark"} => t.op = "link_get"
    /\ t.op = "link_get" => /\ p \in Handlers
                            /\ t.id \in LinkIds
                            /\ InRange(t.idx, LinkStart[t.id])
    /\ t.op \in {"link_put", "link_delete"} => t.id \in LinkIds
    /\ t.op \in {"chunk", "download", "complete"} => t.id \in DirectIds

StoredOK ==
    \A id \in Ids :
        /\ Known(id) => Proper(id, meta[id])
        /\ metaFile[id] # NoMeta => Proper(id, metaFile[id])

TypeInv ==
    /\ TypeOK
    /\ \A p \in Procs : LocalOK(p, task[p])
    /\ StoredOK

-----------------------------------------------------------------------------
(* Facts about the operators of Store. *)

LEMMA EntryIsNotNoMeta == \A m \in Meta : m # NoMeta
BY DEF Meta, NoMeta

LEMMA TouchProper ==
  ASSUME NEW id \in Ids, NEW m \in Meta, clock \in Clock
  PROVE  /\ Touch(m) \in Meta
         /\ Touch(m).total = m.total
         /\ Touch(m) # NoMeta
         /\ Proper(id, m) => Proper(id, Touch(m))
BY DEF Touch, Meta, Proper, LinkEntry, DirectEntry, NoMeta

LEMMA LinkMetaProper ==
  ASSUME NEW id \in LinkIds, clock \in Clock
  PROVE  Proper(id, LinkMeta(id))
BY LinkStartAssumption, BoundsAssumption DEF LinkMeta, Proper, LinkEntry, Meta

LEMMA DirectMetaProper ==
  ASSUME NEW r \in StartUploads, r.total > 0, clock \in Clock
  PROVE  r.id \in DirectIds /\ Proper(r.id, DirectMeta(r))
<1>1. /\ r.id \in DirectIds /\ r.from \in Pubkeys /\ r.to \in Pubkeys
      /\ r.total \in 0 .. MaxChunks /\ r.shareable \in BOOLEAN
  BY StartUploadsAssumption
<1>2. r.total \in 1 .. MaxChunks
  BY <1>1, BoundsAssumption
<1> QED
  BY <1>1, <1>2 DEF DirectMeta, Proper, DirectEntry, Meta

LEMMA InRangeIndex ==
  ASSUME NEW m \in Meta, NEW i \in Int, InRange(i, m)
  PROVE  i \in Index
BY BoundsAssumption DEF InRange, Meta, Index

\* A writeChunk past its bounds check works on a chunk that may exist.
LEMMA WriterIndex ==
  ASSUME TypeInv, NEW p \in Procs, task[p].pc \in {"open", "data", "commit"}
  PROVE  task[p].idx \in Index /\ task[p].id \in Ids
<1>1. /\ task[p].held \in Meta /\ task[p].idx \in Int
      /\ InRange(task[p].idx, task[p].held) /\ task[p].id \in Ids
  BY DEF TypeInv, TypeOK, LocalOK, Task, Proper
<1> QED
  BY <1>1, InRangeIndex

LEMMA LinkIndex ==
  ASSUME NEW id \in LinkIds, NEW i \in Int, InRange(i, LinkStart[id])
  PROVE  i \in Index
BY BoundsAssumption, LinkStartAssumption DEF InRange, Index

-----------------------------------------------------------------------------
(* Steps of one goroutine. *)

LEMMA IdleTask ==
  ASSUME NEW p \in Procs
  PROVE  Idle \in Task /\ LocalOK(p, Idle)
BY DEF Idle, Task, PC, Op, Data, LocalOK

LEMMA TaskStep ==
  ASSUME TypeInv, NEW p \in Procs, NEW t \in Task, LocalOK(p, t),
         task' = [task EXCEPT ![p] = t]
  PROVE  /\ task' \in [Procs -> Task]
         /\ \A q \in Procs : LocalOK(q, task'[q])
BY DEF TypeInv, TypeOK

LEMMA OnlyTaskStep ==
  ASSUME TypeInv, NEW p \in Procs, NEW t \in Task, LocalOK(p, t),
         task' = [task EXCEPT ![p] = t], OnlyTask
  PROVE  TypeInv'
<1>1. /\ task' \in [Procs -> Task]
      /\ \A q \in Procs : LocalOK(q, task'[q])
  BY TaskStep
<1>2. TypeOK'
  BY <1>1 DEF TypeInv, TypeOK, OnlyTask, memory, disk, observed
<1>3. StoredOK'
  BY DEF TypeInv, StoredOK, Known, OnlyTask, memory, disk
<1> QED
  BY <1>1, <1>2, <1>3 DEF TypeInv

\* A request is accepted and enters its handler.
LEMMA BeginStep ==
  ASSUME TypeInv, NEW p \in Procs, NEW op \in Op, NEW id \in Ids,
         NEW idx \in Int, NEW pc \in PC, Begin(p, op, id, idx, pc), OnlyTask,
         pc \notin {"create", "open", "data", "commit", "persist"},
         pc \in {"indices", "sending"} => op = "download",
         pc \in {"read", "send", "mark"} => op = "link_get",
         op = "link_get" => /\ p \in Handlers /\ id \in LinkIds
                            /\ InRange(idx, LinkStart[id]),
         op \in {"link_put", "link_delete"} => id \in LinkIds,
         op \in {"chunk", "download", "complete"} => id \in DirectIds
  PROVE  TypeInv'
<1> DEFINE t == [Idle EXCEPT !.pc = pc, !.op = op, !.id = id, !.idx = idx]
<1>1. /\ t \in Task /\ t.pc = pc /\ t.op = op /\ t.id = id /\ t.idx = idx
      /\ t.todo = {}
  BY DEF Idle, Task, Data
<1>2. LocalOK(p, t)
  BY <1>1 DEF LocalOK
<1>3. task' = [task EXCEPT ![p] = t]
  BY DEF Begin
<1> HIDE DEF t
<1> QED
  BY <1>1, <1>2, <1>3, OnlyTaskStep

LEMMA FinishStep ==
  ASSUME TypeInv, NEW p \in Procs, Finish(p), OnlyTask
  PROVE  TypeInv'
BY IdleTask, OnlyTaskStep DEF Finish

-----------------------------------------------------------------------------
(* The handlers of FileShare, one lemma for each group. *)

\* What the first check of a request tells about the id it names.
LEMMA LinkIsLink ==
  ASSUME TypeInv, NEW id \in Ids, IsLink(id)
  PROVE  meta[id] \in Meta /\ LinkEntry(id, meta[id])
BY DEF TypeInv, TypeOK, StoredOK, Known, NoMeta, Proper, DirectEntry, IsLink

LEMMA IdentityIsDirect ==
  ASSUME TypeInv, NEW id \in Ids, Known(id), NEW pubkey \in Pubkeys,
         meta[id].from = pubkey \/ meta[id].to = pubkey
  PROVE  id \in DirectIds
BY CredentialsAssumption DEF TypeInv, StoredOK, Proper, LinkEntry, DirectEntry

LEMMA CreateType ==
  ASSUME TypeInv, NEW p \in Handlers, NEW op \in {"start_upload", "link_start"},
         NEW id \in Ids, NEW m, Proper(id, m), Create(p, op, id, m),
         minted' \in SUBSET LinkIds, UNCHANGED observed
  PROVE  TypeInv'
<1> DEFINE t == [Idle EXCEPT !.pc = "create", !.op = op, !.id = id, !.held = m]
<1>1. t \in Task /\ LocalOK(p, t)
  <2>1. /\ "create" \in PC /\ op \in Op /\ m \in Meta
        /\ p \in Procs /\ Idle \in Task
    BY IdleTask DEF PC, Op, Proper, Procs
  <2>2. t \in Task
    BY <2>1 DEF Task
  <2>3. t.pc = "create" /\ t.op = op /\ t.id = id /\ t.held = m
    BY DEF Idle
  <2> HIDE DEF t
  <2> QED
    BY <2>2, <2>3 DEF LocalOK
<1>2. task' = [task EXCEPT ![p] = t]
  BY DEF Create
<1> HIDE DEF t
<1>3. /\ task' \in [Procs -> Task]
      /\ \A q \in Procs : LocalOK(q, task'[q])
  BY <1>1, <1>2, TaskStep DEF Procs
<1>4. TypeOK'
  BY <1>3 DEF TypeInv, TypeOK, Create, memory, observed
<1>5. StoredOK'
  BY DEF TypeInv, StoredOK, Known, Create, memory
<1> QED
  BY <1>3, <1>4, <1>5 DEF TypeInv

LEMMA StartUploadType ==
  ASSUME TypeInv, NEW p \in Handlers, NEW r \in StartUploads, StartUpload(p, r)
  PROVE  TypeInv'
BY CreateType, DirectMetaProper DEF StartUpload, Ids, TypeInv, TypeOK

LEMMA LinkStartType ==
  ASSUME TypeInv, NEW p \in Handlers, NEW id \in LinkIds, handleLinkStart(p, id)
  PROVE  TypeInv'
BY CreateType, LinkMetaProper DEF handleLinkStart, Ids, TypeInv, TypeOK

LEMMA WebSocketType ==
  ASSUME TypeInv, NEW p \in Handlers, NEW id \in Ids, NEW pubkey \in Pubkeys
  PROVE  /\ Download(p, pubkey, id) => TypeInv'
         /\ Complete(p, pubkey, id) => TypeInv'
         /\ \A idx \in AskedIndex : Chunk(p, pubkey, id, idx) => TypeInv'
<1>0. p \in Procs
  BY DEF Procs
<1>1. CASE Download(p, pubkey, id)
  BY <1>0, <1>1, BeginStep, IdentityIsDirect DEF Download, Op, PC
<1>2. CASE Complete(p, pubkey, id)
  BY <1>0, <1>2, BeginStep, IdentityIsDirect DEF Complete, Op, PC
<1>3. ASSUME NEW idx \in AskedIndex, Chunk(p, pubkey, id, idx)
      PROVE  TypeInv'
  <2>1. idx \in Int
    BY BoundsAssumption DEF AskedIndex
  <2> QED
    BY <1>0, <1>3, <2>1, BeginStep, IdentityIsDirect DEF Chunk, Op, PC
<1> QED
  BY <1>1, <1>2, <1>3

LEMMA LinkType ==
  ASSUME TypeInv, NEW p \in Handlers, NEW id \in Ids
  PROVE  /\ \A token \in Tokens :
               /\ handleLinkDelete(p, token, id) => TypeInv'
               /\ \A idx \in AskedIndex :
                     handleLinkChunkUpload(p, token, id, idx) => TypeInv'
         /\ \A idx \in AskedIndex :
               handleLinkChunkDownload(p, id, idx) => TypeInv'
<1>0. /\ p \in Procs /\ AskedIndex \subseteq Int
      /\ IsLink(id) => (id \in LinkIds /\ meta[id].total = LinkStart[id].total)
  <2>1. ASSUME IsLink(id)
        PROVE  id \in LinkIds /\ meta[id].total = LinkStart[id].total
    BY <2>1, LinkIsLink DEF LinkEntry
  <2>2. p \in Procs /\ AskedIndex \subseteq Int
    BY BoundsAssumption DEF Procs, AskedIndex
  <2> QED
    BY <2>1, <2>2
<1>1. ASSUME NEW token \in Tokens, handleLinkDelete(p, token, id)
      PROVE  TypeInv'
  BY <1>0, <1>1, BeginStep DEF handleLinkDelete, MayManage, Op, PC
<1>2. ASSUME NEW token \in Tokens, NEW idx \in AskedIndex,
             handleLinkChunkUpload(p, token, id, idx)
      PROVE  TypeInv'
  BY <1>0, <1>2, BeginStep DEF handleLinkChunkUpload, MayManage, Op, PC
<1>3. ASSUME NEW idx \in AskedIndex, handleLinkChunkDownload(p, id, idx)
      PROVE  TypeInv'
  <2>1. id \in LinkIds /\ InRange(idx, LinkStart[id])
    BY <1>0, <1>3 DEF handleLinkChunkDownload, InRange
  <2> QED
    BY <1>0, <1>3, <2>1, BeginStep DEF handleLinkChunkDownload, Op, PC
<1> QED
  BY <1>1, <1>2, <1>3

\* The steps of the downloads, up to w.Write.
LEMMA ReadingType ==
  ASSUME TypeInv, NEW p \in Procs,
         \/ BodyLost(p) \/ ReceivedIndices(p) \/ SendNext(p) \/ SendDone(p)
         \/ ReadForLink(p)
  PROVE  TypeInv'
<1>0. /\ task[p] \in Task /\ LocalOK(p, task[p])
      /\ At(p, "indices") \/ At(p, "sending") \/ At(p, "read")
            => task[p].id \in Ids
  BY DEF TypeInv, TypeOK, LocalOK, At
<1>1. CASE BodyLost(p) \/ SendDone(p)
  BY <1>1, FinishStep DEF BodyLost, SendDone
<1>2. CASE ReceivedIndices(p)
  <2> DEFINE t == [task[p] EXCEPT !.pc = "sending", !.todo = received[task[p].id]]
  <2>1. received[task[p].id] \subseteq Index
    BY <1>0, <1>2 DEF TypeInv, TypeOK, ReceivedIndices
  <2>2. t \in Task /\ LocalOK(p, t)
    BY <1>0, <1>2, <2>1 DEF Task, PC, Names, LocalOK, ReceivedIndices, At
  <2>3. task' = [task EXCEPT ![p] = t] /\ OnlyTask
    BY <1>2 DEF ReceivedIndices, TypeInv, TypeOK
  <2> QED
    BY <2>2, <2>3, OnlyTaskStep
<1>3. CASE SendNext(p)
  <2>1. PICK i \in task[p].todo :
           IF Stored(task[p].id, i)
           THEN task' = [task EXCEPT ![p].todo = @ \ {i}, ![p].idx = i,
                                     ![p].buf = chunk[task[p].id][i]]
           ELSE Finish(p)
    BY <1>3 DEF SendNext
  <2>2. CASE Finish(p)
    BY <1>3, <2>2, FinishStep DEF SendNext
  <2>3. CASE ~Finish(p)
    <3> DEFINE t == [task[p] EXCEPT !.todo = @ \ {i}, !.idx = i,
                                    !.buf = chunk[task[p].id][i]]
    <3>1. i \in Index /\ task[p].id \in Ids /\ task[p].todo \subseteq Index
      BY <1>0, <1>3, <2>1 DEF SendNext, At, LocalOK
    <3>2. chunk[task[p].id][i] \in Data /\ i \in Int
      BY <3>1, BoundsAssumption DEF TypeInv, TypeOK, Index
    <3>3. task[p].op # "link_get"
      BY <1>0, <1>3 DEF SendNext, At, LocalOK
    <3>4. t \in Task /\ LocalOK(p, t)
      BY <1>0, <1>3, <3>1, <3>2, <3>3 DEF Task, LocalOK, SendNext, At
    <3>5. task' = [task EXCEPT ![p] = t] /\ OnlyTask
      BY <1>3, <2>1, <2>3 DEF SendNext, TypeInv, TypeOK
    <3> QED
      BY <3>4, <3>5, OnlyTaskStep
  <2> QED
    BY <2>2, <2>3
<1>4. CASE ReadForLink(p)
  <2>1. CASE Finish(p)
    BY <1>4, <2>1, FinishStep DEF ReadForLink
  <2>2. CASE ~Finish(p)
    <3> DEFINE t == [task[p] EXCEPT !.pc = "send",
                                    !.buf = chunk[task[p].id][task[p].idx]]
    <3>1. task[p].id \in LinkIds /\ task[p].idx \in Index
      BY <1>0, <1>4, LinkIndex DEF ReadForLink, At, LocalOK, Task
    <3>2. chunk[task[p].id][task[p].idx] \in Data
      BY <3>1 DEF TypeInv, TypeOK, Ids
    <3>3. t \in Task /\ LocalOK(p, t)
      BY <1>0, <1>4, <3>1, <3>2 DEF Task, PC, LocalOK, ReadForLink, At
    <3>4. task' = [task EXCEPT ![p] = t] /\ OnlyTask
      BY <1>4, <2>2 DEF ReadForLink, TypeInv, TypeOK
    <3> QED
      BY <3>3, <3>4, OnlyTaskStep
  <2> QED
    BY <2>1, <2>2
<1> QED
  BY <1>1, <1>2, <1>3, <1>4

-----------------------------------------------------------------------------
(* createTransfer, writeChunk, deleteTransfer and the mark. *)

LEMMA CommitCreateType ==
  ASSUME TypeInv, NEW p \in Procs, CreateCommit(p) \/ CreateFail(p),
         UNCHANGED <<minted, observed>>
  PROVE  TypeInv'
<1>0. Idle \in Task /\ LocalOK(p, Idle) /\ task' = [task EXCEPT ![p] = Idle]
  BY IdleTask DEF CreateCommit, CreateFail, Finish
<1>1. /\ task' \in [Procs -> Task]
      /\ \A q \in Procs : LocalOK(q, task'[q])
  BY <1>0, TaskStep
<1>2. Proper(task[p].id, task[p].held) /\ task[p].held \in Meta
  BY DEF TypeInv, LocalOK, CreateCommit, CreateFail, At, Proper
<1>3. TypeOK'
  BY <1>1, <1>2 DEF TypeInv, TypeOK, CreateCommit, CreateFail, WriteMeta,
                    WriteMetaFails, memory, observed
<1>4. StoredOK'
  BY <1>2 DEF TypeInv, TypeOK, StoredOK, Known, CreateCommit, CreateFail,
              WriteMeta, WriteMetaFails, memory
<1> QED
  BY <1>1, <1>3, <1>4 DEF TypeInv

LEMMA WriteLookupType ==
  ASSUME TypeInv, NEW p \in Procs, WriteLookup(p), UNCHANGED <<minted, observed>>
  PROVE  TypeInv'
<1> DEFINE id == task[p].id
           t  == [task[p] EXCEPT !.pc = "open", !.held = meta[id]]
<1>0. OnlyTask
  BY DEF WriteLookup, OnlyTask
<1>1. CASE Finish(p)
  BY <1>0, <1>1, FinishStep
<1>2. CASE ~Finish(p)
  <2>1. /\ Known(id) /\ InRange(task[p].idx, meta[id])
        /\ task' = [task EXCEPT ![p].pc = "open", ![p].held = meta[id]]
    BY <1>2 DEF WriteLookup
  <2>2. task[p] \in Task /\ LocalOK(p, task[p]) /\ id \in Ids /\ At(p, "lookup")
    BY DEF TypeInv, TypeOK, LocalOK, WriteLookup, At
  <2>3. Proper(id, meta[id]) /\ meta[id] \in Meta
    BY <2>1, <2>2 DEF TypeInv, StoredOK, Proper
  <2>4. t \in Task /\ LocalOK(p, t)
    BY <2>1, <2>2, <2>3 DEF Task, PC, LocalOK, At
  <2>5. task' = [task EXCEPT ![p] = t]
    BY <2>1 DEF TypeInv, TypeOK
  <2> QED
    BY <1>0, <2>4, <2>5, OnlyTaskStep
<1> QED
  BY <1>1, <1>2

\* A goroutine moves on with the same request; only the disk may change.
LEMMA MoveTask ==
  ASSUME TypeInv, NEW p \in Procs, NEW pc \in PC, Goto(p, pc),
         LocalOK(p, [task[p] EXCEPT !.pc = pc])
  PROVE  /\ task' \in [Procs -> Task]
         /\ \A q \in Procs : LocalOK(q, task'[q])
<1> DEFINE t == [task[p] EXCEPT !.pc = pc]
<1>0. task \in [Procs -> Task] /\ task[p] \in Task
  BY DEF TypeInv, TypeOK
<1>1. t \in Task /\ task' = [task EXCEPT ![p] = t]
  BY <1>0 DEF Task, Goto
<1> QED
  BY <1>1, TaskStep

LEMMA WriteFileType ==
  ASSUME TypeInv, NEW p \in Procs, WriteOpen(p) \/ WriteData(p) \/ WriteFail(p),
         UNCHANGED <<minted, observed>>
  PROVE  TypeInv'
<1> DEFINE id == task[p].id
<1>0. /\ task[p] \in Task /\ LocalOK(p, task[p]) /\ id \in Ids
      /\ task[p].pc \in {"open", "data"}
  BY DEF TypeInv, TypeOK, LocalOK, WriteOpen, WriteData, WriteFail, At
<1>1. /\ task' \in [Procs -> Task]
      /\ \A q \in Procs : LocalOK(q, task'[q])
  <2>1. CASE Finish(p)
    BY <2>1, IdleTask, TaskStep DEF Finish
  <2>2. CASE Goto(p, "data") \/ Goto(p, "commit")
    <3>1. \A pc \in {"data", "commit"} : LocalOK(p, [task[p] EXCEPT !.pc = pc])
      BY <1>0 DEF LocalOK, Task
    <3> QED
      BY <2>2, <3>1, MoveTask DEF PC
  <2> QED
    BY <2>1, <2>2 DEF WriteOpen, WriteData, WriteFail
<1>2. chunk' \in [Ids -> [Index -> Data]]
  <2>1. {"torn", "whole"} \subseteq Data /\ chunk \in [Ids -> [Index -> Data]]
    BY DEF Data, TypeInv, TypeOK
  <2> QED
    BY <2>1, <1>0 DEF WriteOpen, WriteData, WriteFail, disk
<1>3. linked' \in SUBSET Procs
  BY DEF TypeInv, TypeOK, WriteOpen, WriteData, WriteFail
<1>4. TypeOK'
  BY <1>1, <1>2, <1>3 DEF TypeInv, TypeOK, WriteOpen, WriteData, WriteFail, memory,
                    disk, observed
<1>5. StoredOK'
  BY DEF TypeInv, StoredOK, Known, WriteOpen, WriteData, WriteFail, memory, disk
<1> QED
  BY <1>1, <1>4, <1>5 DEF TypeInv

LEMMA WriteCommitType ==
  ASSUME TypeInv, NEW p \in Procs, WriteCommit(p), UNCHANGED <<minted, observed>>
  PROVE  TypeInv'
<1> DEFINE id == task[p].id
           m  == Touch(task[p].held)
           t  == [task[p] EXCEPT !.pc = "persist", !.held = m]
<1>1. /\ task[p] \in Task /\ LocalOK(p, task[p]) /\ task[p].pc = "commit"
      /\ id \in Ids /\ Proper(id, task[p].held)
      /\ InRange(task[p].idx, task[p].held) /\ task[p].held \in Meta
  BY DEF TypeInv, TypeOK, LocalOK, WriteCommit, At, Proper
<1>2. Proper(id, m) /\ m \in Meta /\ InRange(task[p].idx, m)
  BY <1>1, TouchProper DEF InRange, TypeInv, TypeOK
<1>3. task[p].idx \in Index
  BY <1>1, InRangeIndex DEF Task
<1>4. t \in Task /\ LocalOK(p, t)
  BY <1>1, <1>2 DEF Task, PC, LocalOK
<1>5. task' = [task EXCEPT ![p] = t]
  BY <1>1 DEF WriteCommit, TypeInv, TypeOK
<1>6. /\ task' \in [Procs -> Task]
      /\ \A q \in Procs : LocalOK(q, task'[q])
  BY <1>4, <1>5, TaskStep
<1>7. TypeOK'
  BY <1>1, <1>2, <1>3, <1>6 DEF TypeInv, TypeOK, WriteCommit, disk, observed
<1>8. StoredOK'
  BY <1>1, <1>2 DEF TypeInv, TypeOK, StoredOK, Known, WriteCommit, disk
<1> QED
  BY <1>6, <1>7, <1>8 DEF TypeInv

LEMMA WritePersistType ==
  ASSUME TypeInv, NEW p \in Procs, WritePersist(p), UNCHANGED <<minted, observed>>
  PROVE  TypeInv'
<1>0. Idle \in Task /\ LocalOK(p, Idle) /\ task' = [task EXCEPT ![p] = Idle]
  BY IdleTask DEF WritePersist, Finish
<1>1. /\ task' \in [Procs -> Task]
      /\ \A q \in Procs : LocalOK(q, task'[q])
  BY <1>0, TaskStep
<1>2. Proper(task[p].id, task[p].held) /\ task[p].held \in Meta
  BY DEF TypeInv, LocalOK, WritePersist, At, Proper
<1>3. TypeOK'
  BY <1>1, <1>2 DEF TypeInv, TypeOK, WritePersist, WriteMeta, WriteMetaFails,
                    memory, observed
<1>4. StoredOK'
  BY <1>2 DEF TypeInv, TypeOK, StoredOK, Known, WritePersist, WriteMeta,
              WriteMetaFails, memory
<1> QED
  BY <1>1, <1>3, <1>4 DEF TypeInv

LEMMA ForgetType ==
  ASSUME TypeInv, NEW p \in Procs, DeleteForget(p)
  PROVE  TypeInv'
<1>0. /\ task[p] \in Task /\ LocalOK(p, task[p]) /\ task[p].pc = "forget"
      /\ task[p].id \in Ids
  BY DEF TypeInv, TypeOK, LocalOK, DeleteForget, Forget, At
<1>1. LocalOK(p, [task[p] EXCEPT !.pc = "list"])
  BY <1>0 DEF LocalOK, Task
<1>2. /\ task' \in [Procs -> Task]
      /\ \A q \in Procs : LocalOK(q, task'[q])
  BY <1>1, MoveTask DEF DeleteForget, Forget, PC
<1>3. burned' \in SUBSET LinkIds
  BY <1>0 DEF TypeInv, TypeOK, LocalOK, DeleteForget
<1>4. TypeOK'
  BY <1>0, <1>2, <1>3 DEF TypeInv, TypeOK, DeleteForget, Forget, disk
<1>5. StoredOK'
  BY <1>0 DEF TypeInv, TypeOK, StoredOK, Known, DeleteForget, Forget, disk
<1> QED
  BY <1>2, <1>4, <1>5 DEF TypeInv

LEMMA RemoveAllType ==
  ASSUME TypeInv, NEW p \in Procs, ListDir(p) \/ Unlink(p) \/ RemoveDir(p),
         UNCHANGED <<minted, observed>>
  PROVE  TypeInv'
<1> DEFINE id == task[p].id
<1>0. /\ task[p] \in Task /\ LocalOK(p, task[p]) /\ id \in Ids
      /\ task[p].pc \in {"list", "unlink"}
  BY DEF TypeInv, TypeOK, LocalOK, ListDir, Unlink, RemoveDir, At
<1>1. CASE ListDir(p)
  <2> DEFINE t == [task[p] EXCEPT !.pc = "unlink", !.todo = Listing(id)]
  <2>1. /\ task' \in [Procs -> Task]
        /\ \A q \in Procs : LocalOK(q, task'[q])
    <3>1. CASE Finish(p)
      BY <3>1, IdleTask, TaskStep DEF Finish
    <3>2. CASE ~Finish(p)
      <4>1. Listing(id) \subseteq Names
        BY DEF Listing, Files, Names
      <4>2. t \in Task /\ LocalOK(p, t)
        BY <1>0, <4>1 DEF Task, PC, LocalOK
      <4>3. task' = [task EXCEPT ![p] = t]
        BY <1>1, <3>2 DEF ListDir, TypeInv, TypeOK
      <4> QED
        BY <4>2, <4>3, TaskStep
    <3> QED
      BY <3>1, <3>2
  <2>2. TypeOK'
    BY <1>1, <2>1 DEF TypeInv, TypeOK, ListDir, memory, disk, observed
  <2>3. StoredOK'
    BY <1>1 DEF TypeInv, StoredOK, Known, ListDir, memory, disk
  <2> QED
    BY <2>1, <2>2, <2>3 DEF TypeInv
<1>2. CASE Unlink(p)
  <2>1. PICK f \in task[p].todo :
           /\ task' = [task EXCEPT ![p].todo = @ \ {f}]
           /\ \/ UNCHANGED <<metaFile, chunk, linked>>
              \/ /\ metaFile' = [metaFile EXCEPT ![id] = NoMeta]
                 /\ UNCHANGED <<chunk, linked>>
              \/ /\ chunk' = [chunk EXCEPT ![id][f] = "absent"]
                 /\ linked' \subseteq linked
                 /\ UNCHANGED metaFile
    BY <1>2 DEF Unlink
  <2> DEFINE t == [task[p] EXCEPT !.todo = @ \ {f}]
  <2>2. t \in Task /\ LocalOK(p, t)
    BY <1>0 DEF Task, LocalOK
  <2>3. task' = [task EXCEPT ![p] = t]
    BY <2>1 DEF TypeInv, TypeOK
  <2>4. /\ task' \in [Procs -> Task]
        /\ \A q \in Procs : LocalOK(q, task'[q])
    BY <2>2, <2>3, TaskStep
  <2>5. chunk' \in [Ids -> [Index -> Data]]
    <3>1. "absent" \in Data /\ chunk \in [Ids -> [Index -> Data]]
      BY DEF Data, TypeInv, TypeOK
    <3> QED
      BY <1>0, <2>1, <3>1
  <2>6. TypeOK'
    BY <1>2, <2>1, <2>4, <2>5 DEF TypeInv, TypeOK, Unlink, memory, observed
  <2>7. StoredOK'
    BY <1>0, <1>2, <2>1 DEF TypeInv, TypeOK, StoredOK, Known, Unlink, memory
  <2> QED
    BY <2>4, <2>6, <2>7 DEF TypeInv
<1>3. CASE RemoveDir(p)
  <2>1. /\ task' \in [Procs -> Task]
        /\ \A q \in Procs : LocalOK(q, task'[q])
    BY <1>3, IdleTask, TaskStep DEF RemoveDir, Finish
  <2>2. TypeOK'
    BY <1>3, <2>1 DEF TypeInv, TypeOK, RemoveDir, memory, observed
  <2>3. StoredOK'
    BY <1>3 DEF TypeInv, StoredOK, Known, RemoveDir, memory
  <2> QED
    BY <2>1, <2>2, <2>3 DEF TypeInv
<1> QED
  BY <1>1, <1>2, <1>3

LEMMA TouchAndSendType ==
  ASSUME TypeInv, NEW p \in Procs, TouchAndSend(p)
  PROVE  TypeInv'
<1> DEFINE id == task[p].id
<1>0. /\ task[p] \in Task /\ LocalOK(p, task[p]) /\ task[p].pc = "send"
      /\ id \in LinkIds /\ id \in Ids /\ task[p].idx \in Index
  <2>1. /\ task[p] \in Task /\ LocalOK(p, task[p]) /\ task[p].pc = "send"
        /\ id \in LinkIds /\ InRange(task[p].idx, LinkStart[id])
    BY DEF TypeInv, TypeOK, LocalOK, TouchAndSend, At
  <2> QED
    BY <2>1, LinkIndex DEF Task, Ids
<1>1. /\ task' \in [Procs -> Task]
      /\ \A q \in Procs : LocalOK(q, task'[q])
  <2>1. CASE Finish(p)
    BY <2>1, IdleTask, TaskStep DEF Finish
  <2>2. CASE Goto(p, "mark")
    <3>1. LocalOK(p, [task[p] EXCEPT !.pc = "mark"])
      BY <1>0 DEF LocalOK, Task
    <3> QED
      BY <2>2, <3>1, MoveTask DEF PC
  <2> QED
    BY <2>1, <2>2 DEF TouchAndSend
<1>2. Known(id) => /\ meta[id] \in Meta /\ Touch(meta[id]) \in Meta
                   /\ Proper(id, Touch(meta[id]))
  <2>1. Known(id) => Proper(id, meta[id]) /\ meta[id] \in Meta
    BY <1>0 DEF TypeInv, StoredOK, Proper
  <2>2. clock \in Clock
    BY DEF TypeInv, TypeOK
  <2> QED
    BY <1>0, <2>1, <2>2, TouchProper
<1>3. /\ meta' \in [Ids -> Meta \cup {NoMeta}]
      /\ metaFile' \in [Ids -> Meta \cup {NoMeta}]
  <2>1. /\ meta \in [Ids -> Meta \cup {NoMeta}]
        /\ metaFile \in [Ids -> Meta \cup {NoMeta}]
    BY DEF TypeInv, TypeOK
  <2>2. \/ UNCHANGED <<meta, metaFile>>
        \/ /\ Known(id) /\ meta' = [meta EXCEPT ![id] = Touch(meta[id])]
           /\ \/ metaFile' = [metaFile EXCEPT ![id] = Touch(meta[id])]
              \/ UNCHANGED metaFile
    BY <1>0, <2>1 DEF TouchAndSend, TouchLink, WriteMeta, WriteMetaFails
  <2> QED
    BY <1>0, <1>2, <2>1, <2>2
<1>4. sent' \in [Ids -> SUBSET Index]
  BY <1>0 DEF TypeInv, TypeOK, TouchAndSend
<1>5. TypeOK'
  BY <1>1, <1>3, <1>4 DEF TypeInv, TypeOK, TouchAndSend
<1>6. StoredOK'
  BY <1>0, <1>2 DEF TypeInv, TypeOK, StoredOK, Known, TouchAndSend, TouchLink,
                    WriteMeta, WriteMetaFails
<1> QED
  BY <1>1, <1>5, <1>6 DEF TypeInv

LEMMA MarkServedType ==
  ASSUME TypeInv, NEW p \in Procs, MarkServed(p), UNCHANGED <<minted, observed>>
  PROVE  TypeInv'
<1> DEFINE id == task[p].id
<1>0. /\ task[p] \in Task /\ LocalOK(p, task[p]) /\ task[p].pc = "mark"
      /\ id \in LinkIds /\ id \in Ids /\ task[p].idx \in Index
  <2>1. /\ task[p] \in Task /\ LocalOK(p, task[p]) /\ task[p].pc = "mark"
        /\ id \in LinkIds /\ InRange(task[p].idx, LinkStart[id])
    BY DEF TypeInv, TypeOK, LocalOK, MarkServed, At
  <2> QED
    BY <2>1, LinkIndex DEF Task, Ids
<1>1. /\ task' \in [Procs -> Task]
      /\ \A q \in Procs : LocalOK(q, task'[q])
  <2>1. CASE Finish(p)
    BY <2>1, IdleTask, TaskStep DEF Finish
  <2>2. CASE Goto(p, "forget")
    <3>1. LocalOK(p, [task[p] EXCEPT !.pc = "forget"])
      BY <1>0 DEF LocalOK, Task
    <3> QED
      BY <2>2, <3>1, MoveTask DEF PC
  <2> QED
    BY <2>1, <2>2 DEF MarkServed
<1>2. TypeOK'
  <2>1. TypeOK
    BY DEF TypeInv
  <2>2. served' \in [Ids -> SUBSET Index]
    <3>1. \/ UNCHANGED served
          \/ served' = [served EXCEPT ![id] = served[id] \cup {task[p].idx}]
      BY DEF MarkServed
    <3>2. served \in [Ids -> SUBSET Index]
      BY <2>1 DEF TypeOK
    <3> QED
      BY <1>0, <3>1, <3>2
  <2>3. UNCHANGED <<meta, received, disk, linked, queue, clock, minted, observed>>
    BY DEF MarkServed
  <2> QED
    BY <1>1, <2>1, <2>2, <2>3 DEF TypeOK, disk, observed
<1>3. StoredOK'
  <2>1. StoredOK
    BY DEF TypeInv
  <2>2. UNCHANGED <<meta, received, dir, metaFile, chunk>>
    BY DEF MarkServed, disk
  <2> QED
    BY <2>1, <2>2 DEF StoredOK, Known
<1> QED
  BY <1>1, <1>2, <1>3 DEF TypeInv

LEMMA SweepType ==
  ASSUME TypeInv, Sweep
  PROVE  TypeInv'
<1>1. CASE SweepCollect
  <2>1. TypeOK'
    BY <1>1 DEF Sweep, SweepCollect, TypeInv, TypeOK, memory, disk, observed
  <2>2. StoredOK' /\ UNCHANGED task
    BY <1>1 DEF SweepCollect, TypeInv, StoredOK, Known, memory, disk
  <2> QED
    BY <2>1, <2>2 DEF TypeInv
<1>2. CASE SweepNext
  <2>1. PICK id \in queue : /\ queue' = queue \ {id}
                            /\ Begin(Sweeper, "sweep", id, 0, "forget")
    BY <1>2 DEF SweepNext
  <2> DEFINE t == [Idle EXCEPT !.pc = "forget", !.op = "sweep", !.id = id,
                               !.idx = 0]
  <2>2. id \in Ids /\ Sweeper \in Procs
    BY <2>1 DEF TypeInv, TypeOK, Procs
  <2>3. Idle \in Task
    BY <2>2, IdleTask
  <2>4. t \in Task /\ LocalOK(Sweeper, t)
    BY <2>2, <2>3 DEF Idle, Task, PC, Op, LocalOK
  <2>5. task' = [task EXCEPT ![Sweeper] = t]
    BY <2>1 DEF Begin
  <2>6. /\ task' \in [Procs -> Task]
        /\ \A q \in Procs : LocalOK(q, task'[q])
    BY <2>2, <2>4, <2>5, TaskStep
  <2>7. TypeOK'
    BY <1>2, <2>1, <2>6 DEF Sweep, SweepNext, TypeInv, TypeOK, memory, disk,
                            observed
  <2>8. StoredOK'
    BY <1>2 DEF SweepNext, TypeInv, StoredOK, Known, memory, disk
  <2> QED
    BY <2>6, <2>7, <2>8 DEF TypeInv
<1> QED
  BY <1>1, <1>2 DEF Sweep

LEMMA TimeType ==
  ASSUME TypeInv, TimePasses
  PROVE  TypeInv'
<1>1. clock' \in Clock
  BY BoundsAssumption DEF TypeInv, TypeOK, TimePasses, Tick, Clock
<1>2. TypeOK'
  BY <1>1 DEF TypeInv, TypeOK, TimePasses, Tick, memory, disk, observed
<1>3. StoredOK' /\ UNCHANGED task
  BY DEF TypeInv, StoredOK, Known, TimePasses, Tick, memory, disk
<1> QED
  BY <1>2, <1>3 DEF TypeInv

LEMMA RestartType ==
  ASSUME TypeInv, CrashRestart
  PROVE  TypeInv'
<1>1. /\ task' \in [Procs -> Task]
      /\ \A q \in Procs : LocalOK(q, task'[q])
  BY IdleTask DEF CrashRestart, Restart
<1>2. TypeOK'
  BY <1>1 DEF TypeInv, TypeOK, CrashRestart, Restart, disk, Files
<1>3. StoredOK'
  BY DEF TypeInv, StoredOK, Known, CrashRestart, Restart, disk
<1> QED
  BY <1>1, <1>2, <1>3 DEF TypeInv

-----------------------------------------------------------------------------
(* Type correctness. *)

LEMMA InitType == Init => TypeInv
<1> SUFFICES ASSUME Init PROVE TypeInv
  OBVIOUS
<1>1. \A p \in Procs : Idle \in Task /\ LocalOK(p, Idle)
  BY IdleTask
<1>2. task \in [Procs -> Task] /\ \A p \in Procs : LocalOK(p, task[p])
  BY <1>1 DEF Init, StoreInit
<1>3. clock \in Clock
  BY BoundsAssumption DEF Init, StoreInit, Clock
<1>4. chunk \in [Ids -> [Index -> Data]]
  BY DEF Init, StoreInit, Data
<1>5. TypeOK
  BY <1>2, <1>3, <1>4 DEF Init, StoreInit, TypeOK
<1>6. StoredOK
  BY DEF Init, StoreInit, StoredOK, Known
<1> QED
  BY <1>2, <1>5, <1>6 DEF TypeInv

LEMMA NextType == TypeInv /\ [Next]_vars => TypeInv'
<1> SUFFICES ASSUME TypeInv, [Next]_vars PROVE TypeInv'
  OBVIOUS
<1>1. ASSUME NEW p \in Handlers, Request(p) PROVE TypeInv'
  BY <1>1, StartUploadType, WebSocketType, LinkStartType, LinkType, Zenon
     DEF Request
<1>2. ASSUME NEW p \in Procs, TakesLock(p) PROVE TypeInv'
  BY <1>2, ForgetType, ReadingType, TouchAndSendType, WriteLookupType,
     WriteCommitType, MarkServedType, Zenon DEF TakesLock
<1>3. ASSUME NEW p \in Procs, NoLock(p) PROVE TypeInv'
  BY <1>3, ReadingType, CommitCreateType, WriteFileType, WritePersistType,
     RemoveAllType, Zenon DEF NoLock
<1>4. CASE UNCHANGED vars
  BY <1>4 DEF TypeInv, TypeOK, StoredOK, Known, vars, storeVars, memory, disk,
              observed
<1> QED
  BY <1>1, <1>2, <1>3, <1>4, SweepType, TimeType, RestartType DEF Next

LEMMA TypeInvariance == Spec => []TypeInv
BY InitType, NextType, PTL DEF Spec

\* The state of the server is always of the declared shape; in particular an
\* index enters received, served or sent only below the bound on
\* total_chunks (the range checks of writeChunk and handleLinkChunkDownload
\* still hold of the entry they are used with).
THEOREM TypeCorrect == Spec => []TypeOK
BY TypeInvariance, PTL DEF TypeInv

-----------------------------------------------------------------------------
(* Burning. *)

BurnsNow(t, id) == t.pc = "forget" /\ t.op = "link_get" /\ t.id = id

UsedUp(id, S) == LinkStart[id].oneTime /\ Cardinality(S) >= LinkStart[id].total

\* Whoever is about to count an index has sent it; the served set holds only
\* indices of the link that were sent; a used-up link has its burner, whatever
\* entry its id has by now, and a burner a used-up link.
BurnInv ==
    /\ \A p \in Procs : At(p, "mark") => task[p].idx \in sent[task[p].id]
    /\ \A id \in Ids : served[id] # {} =>
          /\ id \in LinkIds
          /\ served[id] \subseteq sent[id]
          /\ served[id] \subseteq Chunks(LinkStart[id])
          /\ UsedUp(id, served[id])
                => \E q \in Handlers : BurnsNow(task[q], id)
    /\ BurnIsEarned

\* A set of indices as large as the link is all of them.
LEMMA CoverIsAll ==
  ASSUME NEW id \in LinkIds, NEW S \in SUBSET Chunks(LinkStart[id]),
         Cardinality(S) >= LinkStart[id].total
  PROVE  S = Chunks(LinkStart[id])
<1> DEFINE n == LinkStart[id].total
<1>1. n \in Nat \ {0}
  BY LinkStartAssumption, BoundsAssumption
<1> HIDE DEF n
<1>2. IsFiniteSet(0 .. n - 1) /\ Cardinality(0 .. n - 1) = n
  <2>1. 0 \in Int /\ n - 1 \in Int /\ ~(0 > n - 1) /\ (n - 1) - 0 + 1 = n
    BY <1>1
  <2>2. /\ IsFiniteSet(0 .. n - 1)
        /\ Cardinality(0 .. n - 1) = IF 0 > n - 1 THEN 0 ELSE (n - 1) - 0 + 1
    BY <2>1, FS_Interval, Zenon
  <2> QED
    BY <2>1, <2>2
<1>3. S \in SUBSET (0 .. n - 1) /\ Cardinality(S) >= n
  BY DEF n, Chunks
<1>4. /\ IsFiniteSet(S) /\ Cardinality(S) <= Cardinality(0 .. n - 1)
      /\ Cardinality(0 .. n - 1) = Cardinality(S) => 0 .. n - 1 = S
  BY <1>2, <1>3, FS_Subset, Zenon
<1>5. Cardinality(S) \in Nat
  BY <1>4, FS_CardinalityType
<1>6. S = 0 .. n - 1
  BY <1>1, <1>2, <1>3, <1>4, <1>5
<1> QED
  BY <1>6 DEF n, Chunks

LEMMA NothingServedNoBurn ==
  ASSUME NEW m \in Meta
  PROVE  ~Burns(m, {})
BY FS_EmptySet, BoundsAssumption DEF Burns, Meta

\* An entry that burns is that of the link.
LEMMA BurnsUsedUp ==
  ASSUME NEW id \in Ids, NEW m, NEW S, Proper(id, m), Burns(m, S)
  PROVE  LinkEntry(id, m) /\ UsedUp(id, S)
BY DEF Proper, LinkEntry, DirectEntry, Burns, UsedUp

LEMMA BurnCovered == TypeInv /\ BurnInv => CoveredIsBurning
<1> SUFFICES ASSUME TypeInv, BurnInv, NEW id \in Ids, Known(id),
                    Burns(meta[id], served[id])
             PROVE  \E q \in Handlers : BurnsNow(task[q], id)
  BY DEF CoveredIsBurning, BurnsNow, At
<1>1. Proper(id, meta[id]) /\ meta[id] \in Meta
  BY DEF TypeInv, StoredOK, Proper
<1>2. UsedUp(id, served[id]) /\ served[id] # {}
  BY <1>1, BurnsUsedUp, NothingServedNoBurn
<1> QED
  BY <1>2 DEF BurnInv

\* A step of p that neither counts an index, nor starts or ends a burn.
Quiet(p) ==
    /\ \A q \in Procs \ {p} : task'[q] = task[q]
    /\ ~(task[p].pc = "forget" /\ task[p].op = "link_get")
    /\ task'[p].pc # "mark"
    /\ ~(task'[p].pc = "forget" /\ task'[p].op = "link_get")
    /\ UNCHANGED <<served, sent>>

LEMMA QuietStep ==
  ASSUME BurnInv, NEW p \in Procs, Quiet(p)
  PROVE  BurnInv'
<1>1. \A q \in Procs : At(q, "mark")' => task'[q].idx \in sent'[task'[q].id]
  BY DEF BurnInv, Quiet, At
<1>2. ASSUME NEW id \in Ids, served'[id] # {}
      PROVE  /\ id \in LinkIds
             /\ served'[id] \subseteq sent'[id]
             /\ served'[id] \subseteq Chunks(LinkStart[id])
             /\ UsedUp(id, served'[id])
                   => \E q \in Handlers : BurnsNow(task'[q], id)
  BY <1>2 DEF BurnInv, Quiet, BurnsNow, Procs
<1>3. BurnIsEarned'
  BY DEF BurnInv, BurnIsEarned, Quiet, At, Procs
<1> QED
  BY <1>1, <1>2, <1>3 DEF BurnInv

\* Entering or leaving a handler, and moving on in it.
LEMMA TaskQuiet ==
  ASSUME TypeInv, NEW p \in Procs, task[p].pc # "forget",
         UNCHANGED <<served, sent>>
  PROVE  /\ Finish(p) => Quiet(p)
         /\ \A pc \in PC \ {"mark", "forget"} : Goto(p, pc) => Quiet(p)
         /\ \A t : task' = [task EXCEPT ![p] = t] /\ t.pc # "mark"
                   /\ ~(t.pc = "forget" /\ t.op = "link_get") => Quiet(p)
<1>1. task \in [Procs -> Task]
  BY DEF TypeInv, TypeOK
<1>2. ASSUME Finish(p) PROVE Quiet(p)
  BY <1>1, <1>2 DEF Finish, Idle, Quiet
<1>3. ASSUME NEW pc \in PC \ {"mark", "forget"}, Goto(p, pc) PROVE Quiet(p)
  BY <1>1, <1>3 DEF Goto, Quiet, Task
<1>4. ASSUME NEW t, task' = [task EXCEPT ![p] = t], t.pc # "mark",
             ~(t.pc = "forget" /\ t.op = "link_get")
      PROVE  Quiet(p)
  BY <1>1, <1>4 DEF Quiet
<1> QED
  BY <1>2, <1>3, <1>4

LEMMA BeginQuiet ==
  ASSUME TypeInv, NEW p \in Procs, At(p, "idle"), NEW op, NEW id, NEW idx, NEW pc,
         Begin(p, op, id, idx, pc), pc # "mark", pc = "forget" => op # "link_get",
         OnlyTask
  PROVE  Quiet(p)
<1> DEFINE t == [Idle EXCEPT !.pc = pc, !.op = op, !.id = id, !.idx = idx]
<1>1. t.pc = pc /\ t.op = op
  BY DEF Idle
<1>2. task' = [task EXCEPT ![p] = t]
  BY DEF Begin
<1>3. UNCHANGED <<served, sent>>
  BY DEF OnlyTask, memory, observed
<1> HIDE DEF t
<1> QED
  BY <1>1, <1>2, <1>3, TaskQuiet DEF At

LEMMA CreateQuiet ==
  ASSUME TypeInv, NEW p \in Procs, NEW op, NEW id, NEW m, Create(p, op, id, m),
         UNCHANGED observed
  PROVE  Quiet(p)
<1> DEFINE t == [Idle EXCEPT !.pc = "create", !.op = op, !.id = id, !.held = m]
<1>1. t.pc = "create"
  BY DEF Idle
<1>2. task' = [task EXCEPT ![p] = t]
  BY DEF Create
<1>3. UNCHANGED <<served, sent>> /\ task[p].pc = "idle"
  BY DEF Create, memory, observed, At
<1> HIDE DEF t
<1> QED
  BY <1>1, <1>2, <1>3, TaskQuiet

\* No request counts an index or ends a burn with its first step.
LEMMA RequestQuiet ==
  ASSUME TypeInv, NEW p \in Handlers, Request(p)
  PROVE  Quiet(p)
<1>0. p \in Procs
  BY DEF Procs
<1>1. ASSUME NEW r \in StartUploads, StartUpload(p, r) PROVE Quiet(p)
  BY <1>0, <1>1, CreateQuiet DEF StartUpload
<1>2. ASSUME NEW id \in LinkIds, handleLinkStart(p, id) PROVE Quiet(p)
  BY <1>0, <1>2, CreateQuiet DEF handleLinkStart
<1>3. ASSUME NEW id \in Ids, NEW pubkey \in Pubkeys,
             \/ Download(p, pubkey, id) \/ Complete(p, pubkey, id)
             \/ \E idx \in AskedIndex : Chunk(p, pubkey, id, idx)
      PROVE  Quiet(p)
  BY <1>0, <1>3, BeginQuiet DEF Download, Complete, Chunk, Arrives
<1>4. ASSUME NEW id \in Ids, NEW token \in Tokens,
             \/ handleLinkDelete(p, token, id)
             \/ \E idx \in AskedIndex : handleLinkChunkUpload(p, token, id, idx)
      PROVE  Quiet(p)
  BY <1>0, <1>4, BeginQuiet DEF handleLinkDelete, handleLinkChunkUpload, Arrives
<1>5. ASSUME NEW id \in Ids, NEW idx \in AskedIndex,
             handleLinkChunkDownload(p, id, idx)
      PROVE  Quiet(p)
  BY <1>0, <1>5, BeginQuiet DEF handleLinkChunkDownload, Arrives
<1> QED
  BY <1>1, <1>2, <1>3, <1>4, <1>5 DEF Request

\* Nor does a step that does not take the lock.
LEMMA NoLockQuiet ==
  ASSUME TypeInv, NEW p \in Procs, NoLock(p)
  PROVE  Quiet(p)
<1>0. task \in [Procs -> Task] /\ task[p] \in Task
  BY DEF TypeInv, TypeOK
<1>1. CASE BodyLost(p) \/ SendDone(p)
  BY <1>1, TaskQuiet DEF BodyLost, SendDone, At, OnlyTask, memory, observed
<1>2. CASE SendNext(p) \/ ReadForLink(p)
  <2>1. UNCHANGED <<served, sent>>
    BY <1>2 DEF SendNext, ReadForLink, OnlyTask, memory, observed
  <2>2. CASE Finish(p)
    BY <1>2, <2>1, <2>2, TaskQuiet DEF SendNext, ReadForLink, At
  <2>3. CASE SendNext(p) /\ ~Finish(p)
    <3>1. task[p].pc = "sending" /\ task'[p].pc = "sending"
          /\ \A q \in Procs \ {p} : task'[q] = task[q]
      BY <1>0, <2>3 DEF SendNext, At, Task
    <3> QED
      BY <2>1, <3>1 DEF Quiet
  <2>4. CASE ReadForLink(p) /\ ~Finish(p)
    <3>1. task[p].pc = "read" /\ task'[p].pc = "send"
          /\ \A q \in Procs \ {p} : task'[q] = task[q]
      BY <1>0, <2>4 DEF ReadForLink, At, Task
    <3> QED
      BY <2>1, <3>1 DEF Quiet
  <2> QED
    BY <1>2, <2>2, <2>3, <2>4
<1>3. CASE CreateCommit(p) \/ CreateFail(p) \/ WritePersist(p)
  <2>1. UNCHANGED <<served, sent>> /\ Finish(p) /\ task[p].pc # "forget"
    BY <1>3 DEF NoLock, CreateCommit, CreateFail, WritePersist, memory, At,
                BodyLost, SendNext, SendDone, ReadForLink, OnlyTask, observed
  <2> QED
    BY <2>1, TaskQuiet
<1>4. CASE /\ WriteOpen(p) \/ WriteData(p) \/ WriteFail(p)
           /\ UNCHANGED <<minted, observed>>
  <2>1. /\ UNCHANGED <<served, sent>> /\ task[p].pc # "forget"
        /\ Finish(p) \/ Goto(p, "data") \/ Goto(p, "commit")
    BY <1>4 DEF WriteOpen, WriteData, WriteFail, memory, observed, At
  <2> QED
    BY <2>1, TaskQuiet DEF PC
<1>5. CASE /\ ListDir(p) \/ Unlink(p) \/ RemoveDir(p)
           /\ UNCHANGED <<minted, observed>>
  <2>1. UNCHANGED <<served, sent>> /\ task[p].pc # "forget"
    BY <1>5 DEF ListDir, Unlink, RemoveDir, memory, observed, At
  <2>2. CASE Finish(p)
    BY <2>1, <2>2, TaskQuiet
  <2>3. CASE ListDir(p) /\ ~Finish(p)
    <3> DEFINE t == [task[p] EXCEPT !.pc = "unlink",
                                    !.todo = Listing(task[p].id)]
    <3>1. task' = [task EXCEPT ![p] = t] /\ t.pc = "unlink"
      BY <1>0, <2>3 DEF ListDir, Task
    <3> HIDE DEF t
    <3> QED
      BY <2>1, <3>1, TaskQuiet
  <2>4. CASE Unlink(p)
    <3>1. PICK f \in task[p].todo :
             task' = [task EXCEPT ![p].todo = @ \ {f}]
      BY <2>4 DEF Unlink
    <3>2. task[p].pc = "unlink"
      BY <2>4 DEF Unlink, At
    <3> QED
      BY <1>0, <2>1, <3>1, <3>2 DEF Quiet, Task
  <2> QED
    BY <1>5, <2>2, <2>3, <2>4 DEF RemoveDir
<1> QED
  BY <1>1, <1>2, <1>3, <1>4, <1>5 DEF NoLock

LEMMA WriteLockQuiet ==
  ASSUME TypeInv, NEW p \in Procs,
         \/ ReceivedIndices(p)
         \/ (WriteLookup(p) \/ WriteCommit(p)) /\ UNCHANGED <<minted, observed>>
  PROVE  Quiet(p)
<1>0. task \in [Procs -> Task] /\ task[p] \in Task
  BY DEF TypeInv, TypeOK
<1>1. CASE ReceivedIndices(p)
  BY <1>0, <1>1 DEF ReceivedIndices, OnlyTask, memory, observed, At, Quiet,
                    Task
<1>2. CASE WriteLookup(p) /\ UNCHANGED <<minted, observed>>
  <2>1. UNCHANGED <<served, sent>> /\ task[p].pc = "lookup"
    BY <1>2 DEF WriteLookup, memory, observed, At
  <2>2. CASE Finish(p)
    BY <2>1, <2>2, TaskQuiet
  <2>3. CASE ~Finish(p)
    BY <1>0, <1>2, <2>1, <2>3 DEF WriteLookup, Quiet, Task
  <2> QED
    BY <2>2, <2>3
<1>3. CASE WriteCommit(p) /\ UNCHANGED <<minted, observed>>
  BY <1>0, <1>3 DEF WriteCommit, At, Quiet, observed, Task
<1> QED
  BY <1>1, <1>2, <1>3

\* Steps that leave served, and whoever burns or marks, as they are.
LEMMA SameBurn ==
  ASSUME BurnInv, UNCHANGED <<task, served, sent>>
  PROVE  BurnInv'
BY DEF BurnInv, BurnIsEarned, BurnsNow, At

\* The chunk has been written before it is marked.
LEMMA SendBurn ==
  ASSUME TypeInv, BurnInv, NEW p \in Procs, TouchAndSend(p)
  PROVE  BurnInv'
<1> DEFINE id == task[p].id
<1>0. /\ id \in LinkIds /\ id \in Ids /\ task[p].pc = "send"
      /\ task \in [Procs -> Task] /\ task[p] \in Task
      /\ sent \in [Ids -> SUBSET Index]
  BY DEF TypeInv, TypeOK, LocalOK, TouchAndSend, At, Ids
<1>1. /\ UNCHANGED served
      /\ \A i \in Ids : sent[i] \subseteq sent'[i]
      /\ \A q \in Procs \ {p} : task'[q] = task[q]
      /\ ~(task'[p].pc = "forget" /\ task'[p].op = "link_get")
      /\ task'[p].pc = "mark" => /\ task'[p].id = id
                                 /\ task'[p].idx \in sent'[id]
  BY <1>0 DEF TouchAndSend, Goto, Finish, Idle, Task
<1>2. \A q \in Procs : At(q, "mark")' => task'[q].idx \in sent'[task'[q].id]
  BY <1>0, <1>1 DEF BurnInv, At, TypeInv, LocalOK
<1>3. ASSUME NEW i \in Ids, served'[i] # {}
      PROVE  /\ i \in LinkIds
             /\ served'[i] \subseteq sent'[i]
             /\ served'[i] \subseteq Chunks(LinkStart[i])
             /\ UsedUp(i, served'[i])
                   => \E q \in Handlers : BurnsNow(task'[q], i)
  BY <1>0, <1>1, <1>3 DEF BurnInv, BurnsNow, Procs
<1>4. BurnIsEarned'
  BY <1>0, <1>1 DEF BurnInv, BurnIsEarned, At, Procs, TypeInv, LocalOK
<1> QED
  BY <1>2, <1>3, <1>4 DEF BurnInv

\* The verdict falls on the entry of the link, or on none.
LEMMA MarkBurn ==
  ASSUME TypeInv, BurnInv, NEW p \in Procs, MarkServed(p),
         UNCHANGED <<minted, observed>>
  PROVE  BurnInv'
<1> DEFINE id  == task[p].id
           set == served[id] \cup {task[p].idx}
<1>0. /\ id \in LinkIds /\ id \in Ids /\ p \in Handlers
      /\ task[p].pc = "mark" /\ task[p].op = "link_get"
      /\ task \in [Procs -> Task] /\ task[p] \in Task
      /\ served \in [Ids -> SUBSET Index]
      /\ InRange(task[p].idx, LinkStart[id])
  BY DEF TypeInv, TypeOK, LocalOK, MarkServed, At, Ids
<1>1. UNCHANGED <<meta, sent>> /\ \A q \in Procs \ {p} : task'[q] = task[q]
  BY <1>0 DEF MarkServed, observed, Goto, Finish
<1>2. task[p].idx \in sent[id] /\ task[p].idx \in Chunks(LinkStart[id])
  BY <1>0, LinkStartAssumption, BoundsAssumption
     DEF BurnInv, At, InRange, Chunks, Task
<1>3. set \subseteq sent[id] /\ set \subseteq Chunks(LinkStart[id])
  BY <1>0, <1>2 DEF BurnInv
<1>4. CASE meta[id].mode # "link"
  <2>1. Quiet(p)
    BY <1>0, <1>1, <1>4 DEF MarkServed, Finish, Idle, Quiet
  <2> QED
    BY <2>1, QuietStep
<1>5. CASE meta[id].mode = "link"
  <2>1. /\ served' = [served EXCEPT ![id] = set]
        /\ LinkEntry(id, meta[id])
    BY <1>0, <1>5, LinkIsLink DEF MarkServed, IsLink
  <2>2. Burns(meta[id], set) <=> UsedUp(id, set)
    BY <2>1 DEF Burns, UsedUp, LinkEntry
  <2> HIDE DEF set
  <2>3. /\ task'[p].pc # "mark"
        /\ task'[p].pc = "forget" => UsedUp(id, set) /\ task'[p].id = id
        /\ UsedUp(id, set) => BurnsNow(task'[p], id)
    BY <1>0, <1>5, <2>2 DEF MarkServed, Goto, Finish, Idle, BurnsNow, Task, set
  <2>4. \A q \in Procs : At(q, "mark")' => task'[q].idx \in sent'[task'[q].id]
    BY <1>1, <2>3 DEF BurnInv, At
  <2>5. ASSUME NEW i \in Ids, served'[i] # {}
        PROVE  /\ i \in LinkIds
               /\ served'[i] \subseteq sent'[i]
               /\ served'[i] \subseteq Chunks(LinkStart[i])
               /\ UsedUp(i, served'[i])
                     => \E q \in Handlers : BurnsNow(task'[q], i)
    <3>1. CASE i = id
      BY <1>0, <1>1, <1>3, <2>1, <2>3, <3>1
    <3>2. CASE i # id
      <4>1. served'[i] = served[i] /\ ~BurnsNow(task[p], i)
        BY <1>0, <2>1, <3>2 DEF BurnsNow
      <4> QED
        BY <1>1, <2>5, <4>1 DEF BurnInv, BurnsNow, Procs
    <3> QED
      BY <3>1, <3>2
  <2>6. UsedUp(id, set) => /\ LinkStart[id].oneTime
                           /\ Chunks(LinkStart[id]) \subseteq sent[id]
    BY <1>0, <1>3, CoverIsAll DEF UsedUp
  <2>7. BurnIsEarned'
    BY <1>0, <1>1, <2>3, <2>6 DEF BurnInv, BurnIsEarned, At, Procs
  <2> QED
    BY <2>4, <2>5, <2>7 DEF BurnInv
<1> QED
  BY <1>4, <1>5

LEMMA ForgetBurn ==
  ASSUME TypeInv, BurnInv, NEW p \in Procs, DeleteForget(p)
  PROVE  BurnInv'
<1> DEFINE id == task[p].id
<1>0. /\ id \in Ids /\ task[p].pc = "forget"
      /\ task \in [Procs -> Task] /\ task[p] \in Task
      /\ served \in [Ids -> SUBSET Index]
  BY DEF TypeInv, TypeOK, LocalOK, DeleteForget, Forget, At
<1>1. /\ served' = [served EXCEPT ![id] = {}]
      /\ UNCHANGED sent
      /\ \A q \in Procs \ {p} : task'[q] = task[q]
      /\ task'[p].pc = "list"
  BY <1>0 DEF DeleteForget, Forget, Goto, Task
<1>2. \A q \in Procs : At(q, "mark")' => task'[q].idx \in sent'[task'[q].id]
  BY <1>1 DEF BurnInv, At
<1>3. ASSUME NEW i \in Ids, served'[i] # {}
      PROVE  /\ i \in LinkIds
             /\ served'[i] \subseteq sent'[i]
             /\ served'[i] \subseteq Chunks(LinkStart[i])
             /\ UsedUp(i, served'[i])
                   => \E q \in Handlers : BurnsNow(task'[q], i)
  <2>1. i # id /\ served'[i] = served[i] /\ ~BurnsNow(task[p], i)
    BY <1>0, <1>1, <1>3 DEF BurnsNow
  <2> QED
    BY <1>1, <1>3, <2>1 DEF BurnInv, BurnsNow, Procs
<1>4. BurnIsEarned'
  BY <1>1 DEF BurnInv, BurnIsEarned, At, Procs
<1> QED
  BY <1>2, <1>3, <1>4 DEF BurnInv

LEMMA SweepBurn ==
  ASSUME TypeInv, BurnInv, Sweep
  PROVE  BurnInv'
<1>1. CASE SweepCollect
  BY <1>1, SameBurn DEF Sweep, SweepCollect, memory, observed
<1>2. CASE SweepNext
  <2>1. PICK id \in queue : Begin(Sweeper, "sweep", id, 0, "forget")
    BY <1>2 DEF SweepNext
  <2> DEFINE t == [Idle EXCEPT !.pc = "forget", !.op = "sweep", !.id = id,
                               !.idx = 0]
  <2>2. t.pc = "forget" /\ t.op = "sweep" /\ task' = [task EXCEPT ![Sweeper] = t]
    BY <2>1 DEF Begin, Idle
  <2> HIDE DEF t
  <2>3. /\ Sweeper \in Procs /\ task[Sweeper].pc = "idle"
        /\ UNCHANGED <<served, sent>>
    BY <1>2 DEF Sweep, SweepNext, At, Procs, memory, observed
  <2>4. Quiet(Sweeper)
    BY <2>2, <2>3, TaskQuiet
  <2> QED
    BY <2>3, <2>4, QuietStep
<1> QED
  BY <1>1, <1>2 DEF Sweep

LEMMA RestartBurn == CrashRestart => BurnInv'
<1> SUFFICES ASSUME CrashRestart PROVE BurnInv'
  OBVIOUS
<1>1. /\ \A q \in Procs : task'[q].pc = "idle"
      /\ \A id \in Ids : served'[id] = {}
  BY DEF CrashRestart, Restart, Idle
<1>2. BurnIsEarned' /\ \A q \in Procs : ~At(q, "mark")'
  BY <1>1 DEF BurnIsEarned, At, Procs
<1> QED
  BY <1>1, <1>2 DEF BurnInv

LEMMA InitBurn == Init => BurnInv
<1> SUFFICES ASSUME Init PROVE BurnInv
  OBVIOUS
<1>1. /\ \A p \in Procs : task[p].pc = "idle"
      /\ \A id \in Ids : served[id] = {}
  BY DEF Init, StoreInit, Idle
<1> QED
  BY <1>1 DEF BurnInv, BurnIsEarned, At, Procs

LEMMA NextBurn == TypeInv /\ BurnInv /\ [Next]_vars => BurnInv'
<1> SUFFICES ASSUME TypeInv, BurnInv, [Next]_vars PROVE BurnInv'
  OBVIOUS
<1>1. ASSUME NEW p \in Handlers, Request(p) PROVE BurnInv'
  BY <1>1, RequestQuiet, QuietStep DEF Procs
<1>2. ASSUME NEW p \in Procs, TakesLock(p) PROVE BurnInv'
  BY <1>2, ForgetBurn, SendBurn, MarkBurn, WriteLockQuiet, QuietStep, Zenon
     DEF TakesLock
<1>3. ASSUME NEW p \in Procs, NoLock(p) PROVE BurnInv'
  BY <1>3, NoLockQuiet, QuietStep
<1>4. CASE TimePasses \/ UNCHANGED vars
  BY <1>4, SameBurn DEF TimePasses, Tick, vars, storeVars, memory, observed
<1> QED
  BY <1>1, <1>2, <1>3, <1>4, SweepBurn, RestartBurn DEF Next

LEMMA BurnInvariance == Spec => []BurnInv
<1>1. Init => TypeInv /\ BurnInv
  BY InitType, InitBurn
<1>2. (TypeInv /\ BurnInv) /\ [Next]_vars => (TypeInv /\ BurnInv)'
  BY NextType, NextBurn
<1> QED
  BY <1>1, <1>2, PTL DEF Spec

\* There is no state in which a one-time link is used up and no goroutine is
\* about to delete it: markLinkChunkServed counts and decides in one critical
\* section, and no writeChunk, touch, crash or restart separates the two.
THEOREM UsedUpLinkIsBurning == Spec => []CoveredIsBurning
BY BurnCovered, TypeInvariance, BurnInvariance, PTL

\* markLinkChunkServed deletes a link only if it is one-time and each of its
\* chunks has been written to a downloader since the process started.
THEOREM BurnsAreEarned == Spec => []BurnIsEarned
<1>1. BurnInv => BurnIsEarned
  BY DEF BurnInv
<1> QED
  BY <1>1, BurnInvariance, PTL

=============================================================================
