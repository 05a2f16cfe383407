--------------------------- MODULE PromiseProofs ---------------------------
(***************************************************************************)
(* Proof that FileShare implements BurnAfterRead: for any number of        *)
(* handlers, transfers and chunks, every step of the server is a step of   *)
(* the abstract one-time links or changes nothing they show.  It is proved *)
(* for a server that does not crash and uploaders that hand out a link     *)
(* when its upload is complete, and WebSocket clients that do not take the *)
(* id of a link for a transfer of their own; crash_in_burn and             *)
(* burn_vs_upload show that the promise is broken without the first two.   *)
(*                                                                         *)
(* A burned link would open again if a writeChunk that has looked it up    *)
(* before could publish it afterwards.  ShareInv rules that out: while a   *)
(* download of a link is under way, and ever after it was burned, no       *)
(* goroutine holds a transferMeta of the link that it is still to publish, *)
(* and every index that a late upload names is refused by writeChunk.      *)
(***************************************************************************)
EXTENDS FileShareProofs

\* The steps of writeChunk after which it may still publish its entry.
WritePC == {"lookup", "open", "data", "commit"}

LocalShare(p, t) ==
    /\ t.pc \in WritePC => p \in Handlers /\ t.op \in {"chunk", "link_put"}
    /\ t.pc \in WritePC \cup {"create"} \/ t.op = "link_get"
         => (t.id \in LinkIds => t.id \in minted)

\* Nothing that t is still to do puts link id back into the store.
Harmless(t, id) ==
    t.id = id => /\ t.pc \notin {"create", "open", "data", "commit"}
                 /\ t.pc = "lookup" => ~InRange(t.idx, LinkStart[id])

InUse(id) ==
    \/ id \in burned
    \/ \E p \in Handlers : task[p].op = "link_get" /\ task[p].id = id

LinkShare(id) ==
    /\ Known(id) => id \in minted
    /\ id \in burned => id \in minted /\ ~Known(id)
    /\ InUse(id) => /\ \A q \in Procs : Harmless(task[q], id)
                    /\ Known(id) => received[id] = Chunks(LinkStart[id])

ShareInv ==
    /\ \A p \in Procs : LocalShare(p, task[p])
    /\ \A id \in LinkIds : LinkShare(id)

Shared == IdsApart /\ UploadThenShare /\ ~Crashes

Step == [Promise!Next]_(Promise!vars)

-----------------------------------------------------------------------------
(* Steps that put nothing into the store. *)

\* p neither starts nor resumes a writeChunk or a download of a link, and no
\* link enters the store or changes its received set.
Tame(p) ==
    /\ \A q \in Procs \ {p} : task'[q] = task[q]
    /\ task'[p].pc \notin WritePC \cup {"create"}
    /\ task'[p].op = "link_get" => /\ task[p].op = "link_get"
                                   /\ task'[p].id = task[p].id
    /\ UNCHANGED <<minted, burned>>
    /\ \A id \in LinkIds : Known(id)' => /\ Known(id)
                                         /\ received'[id] = received[id]

LEMMA TameStep ==
  ASSUME TypeInv, ShareInv, NEW p \in Procs, Tame(p)
  PROVE  ShareInv'
<1>1. \A q \in Procs : LocalShare(q, task[q])'
  <2>1. ASSUME NEW q \in Procs PROVE LocalShare(q, task[q])'
    BY <2>1 DEF ShareInv, LocalShare, Tame, WritePC
  <2> QED
    BY <2>1
<1>2. ASSUME NEW id \in LinkIds PROVE LinkShare(id)'
  <2>1. InUse(id)' => InUse(id)
    BY DEF InUse, Tame, TypeInv, LocalOK, Procs
  <2>2. ASSUME InUse(id) PROVE \A q \in Procs : Harmless(task[q], id)'
    BY <2>2 DEF ShareInv, LinkShare, Harmless, Tame, WritePC
  <2>3. LinkShare(id)
    BY DEF ShareInv
  <2> QED
    BY <2>1, <2>2, <2>3 DEF LinkShare, Tame
<1> QED
  BY <1>1, <1>2 DEF ShareInv

\* What BurnAfterRead sees of the links does not change.
Unseen(p) ==
    /\ \A q \in Procs \ {p} : task'[q] = task[q]
    /\ \A id \in OneTimeLinks : ~Reading(p, id) /\ ~Reading(p, id)'
    /\ UNCHANGED sent
    /\ \A id \in OneTimeLinks : LinkPhase(id)' = LinkPhase(id)

LEMMA SameReads ==
  ASSUME NEW p \in Procs, \A q \in Procs \ {p} : task'[q] = task[q],
         NEW id, ~Reading(p, id), ~Reading(p, id)'
  PROVE  Reads(id)' = Reads(id)
<1>1. \A q \in Handlers : /\ Reading(q, id)' <=> Reading(q, id)
                          /\ Reading(q, id) => task'[q] = task[q]
  BY DEF Reading, Procs
<1> QED
  BY <1>1 DEF Reads

LEMMA UnseenStep ==
  ASSUME NEW p \in Procs, Unseen(p)
  PROVE  Step
<1>1. \A id \in OneTimeLinks : Reads(id)' = Reads(id)
  BY SameReads DEF Unseen
<1>2. UNCHANGED Promise!vars
  BY <1>1 DEF Promise!vars, Unseen
<1> QED
  BY <1>2 DEF Step

LEMMA PartStep ==
  ASSUME NEW id \in OneTimeLinks, NEW part \in Chunks(LinkStart[id]),
         \/ Promise!Admit(id, part) \/ Promise!Deliver(id, part)
         \/ Promise!Abandon(id, part)
  PROVE  Step
<1>1. part \in [i \in OneTimeLinks |-> Chunks(LinkStart[i])][id]
  OBVIOUS
<1>2. Promise!Next
  BY <1>1, Zenon DEF Promise!Next
<1> QED
  BY <1>2 DEF Step

\* The steps that show nothing and put nothing into the store.
LEMMA QuietPromise ==
  ASSUME TypeInv, ShareInv, NEW p \in Procs,
         \A q \in Procs \ {p} : task'[q] = task[q],
         task[p].op # "link_get" \/ task[p].pc \notin {"read", "send"},
         task'[p].pc \notin WritePC \cup {"create", "read", "send"},
         task'[p].op = "link_get" => /\ task[p].op = "link_get"
                                     /\ task'[p].id = task[p].id,
         UNCHANGED <<meta, received, dir, minted, burned, sent>>
  PROVE  ShareInv' /\ Step
<1>1. Tame(p)
  BY DEF Tame, Known
<1>2. Unseen(p)
  BY DEF Unseen, Reading, LinkPhase, Known
<1> QED
  BY <1>1, <1>2, TameStep, UnseenStep

-----------------------------------------------------------------------------
(* The requests. *)

\* A request that enters its handler and is neither an upload nor a download.
LEMMA BeginPromise ==
  ASSUME TypeInv, ShareInv, NEW p \in Procs, At(p, "idle"), NEW op \in Op,
         NEW id, NEW idx, NEW pc \in PC, Begin(p, op, id, idx, pc), OnlyTask,
         op # "link_get", pc \notin WritePC \cup {"create", "read", "send"}
  PROVE  ShareInv' /\ Step
<1> DEFINE t == [Idle EXCEPT !.pc = pc, !.op = op, !.id = id, !.idx = idx]
<1>1. t.pc = pc /\ t.op = op
  BY DEF Idle
<1>2. task' = [task EXCEPT ![p] = t] /\ task \in [Procs -> Task]
  BY DEF Begin, TypeInv, TypeOK
<1> HIDE DEF t
<1>3. /\ \A q \in Procs \ {p} : task'[q] = task[q]
      /\ task'[p].pc = pc /\ task'[p].op = op
  BY <1>1, <1>2
<1>4. UNCHANGED <<meta, received, dir, minted, burned, sent>>
  BY DEF OnlyTask, memory, disk, observed
<1> QED
  BY <1>3, <1>4, QuietPromise DEF At

\* An upload of a chunk enters its handler: of a direct transfer, or of a link
\* that is not in use or has this chunk already.
LEMMA BeginWritePromise ==
  ASSUME TypeInv, ShareInv, NEW p \in Handlers, At(p, "idle"),
         NEW op \in {"chunk", "link_put"}, NEW id \in Ids, NEW idx \in Int,
         Begin(p, op, id, idx, "lookup"), OnlyTask,
         id \in LinkIds => /\ Known(id)
                           /\ InUse(id) => ~InRange(idx, LinkStart[id])
  PROVE  ShareInv' /\ Step
<1> DEFINE t == [Idle EXCEPT !.pc = "lookup", !.op = op, !.id = id, !.idx = idx]
<1>1. t.pc = "lookup" /\ t.op = op /\ t.id = id /\ t.idx = idx
  BY DEF Idle
<1>2. /\ p \in Procs /\ task' = [task EXCEPT ![p] = t]
      /\ task \in [Procs -> Task]
  BY DEF Begin, TypeInv, TypeOK, Procs
<1> HIDE DEF t
<1>3. /\ \A q \in Procs \ {p} : task'[q] = task[q]
      /\ task'[p] = t
  BY <1>2
<1>4. UNCHANGED <<meta, received, dir, minted, burned, sent>>
  BY DEF OnlyTask, memory, disk, observed
<1>5. Step
  <2>1. Unseen(p)
    BY <1>1, <1>3, <1>4 DEF Unseen, Reading, LinkPhase, Known, At
  <2> QED
    BY <1>2, <2>1, UnseenStep
<1>6. \A q \in Procs : LocalShare(q, task[q])'
  <2>1. id \in LinkIds => id \in minted
    BY DEF ShareInv, LinkShare
  <2> QED
    BY <1>1, <1>3, <1>4, <2>1 DEF ShareInv, LocalShare, WritePC
<1>7. ASSUME NEW i \in LinkIds PROVE LinkShare(i)'
  <2>1. InUse(i)' => InUse(i)
    BY <1>1, <1>3, <1>4 DEF InUse, Procs
  <2>2. ASSUME InUse(i) PROVE \A q \in Procs : Harmless(task[q], i)'
    BY <1>1, <1>3, <2>2 DEF ShareInv, LinkShare, Harmless
  <2>3. LinkShare(i)
    BY DEF ShareInv
  <2> QED
    BY <1>4, <2>1, <2>2, <2>3 DEF LinkShare, Known
<1> QED
  BY <1>5, <1>6, <1>7 DEF ShareInv

\* createTransfer and createLinkTransfer, up to MkdirAll.
LEMMA CreatePromise ==
  ASSUME TypeInv, ShareInv, NEW p \in Handlers,
         NEW op \in {"start_upload", "link_start"}, NEW id \in Ids, NEW m,
         Create(p, op, id, m), UNCHANGED observed,
         \/ id \notin LinkIds /\ minted' = minted
         \/ id \in LinkIds \ minted /\ minted' = minted \cup {id}
  PROVE  ShareInv' /\ Step
<1> DEFINE t == [Idle EXCEPT !.pc = "create", !.op = op, !.id = id, !.held = m]
<1>1. t.pc = "create" /\ t.op = op /\ t.id = id
  BY DEF Idle
<1>2. /\ p \in Procs /\ task' = [task EXCEPT ![p] = t]
      /\ task \in [Procs -> Task] /\ task[p].pc = "idle"
  BY DEF Create, At, TypeInv, TypeOK, Procs
<1> HIDE DEF t
<1>3. /\ \A q \in Procs \ {p} : task'[q] = task[q]
      /\ task'[p] = t
  BY <1>2
<1>4. /\ UNCHANGED <<meta, received, burned, sent>>
      /\ minted \subseteq minted' /\ dir' = dir \cup {id}
  BY DEF Create, memory, observed
<1>5. ASSUME NEW i \in LinkIds, InUse(i) PROVE i \in minted
  <2>1. CASE i \in burned
    BY <2>1 DEF ShareInv, LinkShare
  <2>2. CASE i \notin burned
    BY <1>5, <2>2 DEF InUse, ShareInv, LocalShare, Procs
  <2> QED
    BY <2>1, <2>2
<1>6. Step
  <2>1. \A i \in OneTimeLinks : i \in burned => i # id
    BY <1>5 DEF OneTimeLinks, InUse
  <2>2. \A i \in OneTimeLinks : LinkPhase(i)' = LinkPhase(i)
    BY <1>4, <2>1 DEF LinkPhase, Known
  <2>3. Unseen(p)
    BY <1>1, <1>2, <1>3, <1>4, <2>2 DEF Unseen, Reading
  <2> QED
    BY <1>2, <2>3, UnseenStep
<1>7. \A q \in Procs : LocalShare(q, task[q])'
  BY <1>1, <1>3, <1>4 DEF ShareInv, LocalShare, WritePC
<1>8. ASSUME NEW i \in LinkIds PROVE LinkShare(i)'
  <2>1. InUse(i)' => InUse(i)
    BY <1>1, <1>3, <1>4 DEF InUse, Procs
  <2>2. ASSUME InUse(i) PROVE \A q \in Procs : Harmless(task[q], i)'
    <3>1. i # id
      BY <1>5, <2>2
    <3> QED
      BY <1>1, <1>3, <2>2, <3>1 DEF ShareInv, LinkShare, Harmless
  <2>3. LinkShare(i)
    BY DEF ShareInv
  <2> QED
    BY <1>4, <2>1, <2>2, <2>3 DEF LinkShare, Known
<1> QED
  BY <1>6, <1>7, <1>8 DEF ShareInv

\* A download is admitted: the link is complete and nobody writes to it.
LEMMA AdmitPromise ==
  ASSUME Shared, TypeInv, ShareInv, NEW p \in Handlers, NEW id \in Ids,
         NEW idx \in AskedIndex, handleLinkChunkDownload(p, id, idx)
  PROVE  ShareInv' /\ Step
<1> DEFINE t == [Idle EXCEPT !.pc = "read", !.op = "link_get", !.id = id,
                             !.idx = idx]
<1>1. t.pc = "read" /\ t.op = "link_get" /\ t.id = id /\ t.idx = idx
  BY DEF Idle
<1>2. /\ p \in Procs /\ task' = [task EXCEPT ![p] = t]
      /\ task \in [Procs -> Task] /\ task[p].pc = "idle"
  BY DEF handleLinkChunkDownload, Arrives, Begin, At, TypeInv, TypeOK, Procs
<1> HIDE DEF t
<1>3. /\ \A q \in Procs \ {p} : task'[q] = task[q]
      /\ task'[p] = t
  BY <1>2
<1>4. UNCHANGED <<meta, received, dir, minted, burned, sent>>
  BY DEF handleLinkChunkDownload, OnlyTask, memory, disk, observed
<1>5. /\ id \in LinkIds /\ Known(id) /\ Uploaded(id)
      /\ InRange(idx, LinkStart[id]) /\ idx \in Int
      /\ Chunks(meta[id]) = Chunks(LinkStart[id])
  <2>1. IsLink(id) /\ InRange(idx, meta[id]) /\ Uploaded(id)
    BY DEF handleLinkChunkDownload, Shared
  <2>2. meta[id] \in Meta /\ LinkEntry(id, meta[id])
    BY <2>1, LinkIsLink
  <2>3. id \in LinkIds /\ Known(id) /\ meta[id].total = LinkStart[id].total
    BY <2>2, EntryIsNotNoMeta DEF Known, LinkEntry
  <2>4. idx \in Int
    BY BoundsAssumption DEF AskedIndex
  <2> QED
    BY <2>1, <2>2, <2>3, <2>4 DEF InRange, Chunks
<1>6. LinkShare(id)
  BY <1>5 DEF ShareInv
<1>7. \A q \in Procs : LocalShare(q, task[q])'
  BY <1>1, <1>3, <1>4, <1>5, <1>6 DEF ShareInv, LinkShare, LocalShare, WritePC
<1>8. \A q \in Procs : Harmless(task[q], id)'
  <2>1. \A q \in Procs \ {p} : task[q].id = id
                               => task[q].pc \notin WritePC \cup {"create"}
    <3>1. \A q \in Procs : task[q].pc # "create"
      BY DEF handleLinkChunkDownload, LockFree, At
    <3>2. ASSUME NEW q \in Procs, task[q].id = id, task[q].pc \in WritePC
          PROVE  FALSE
      <4>1. q \in Handlers /\ task[q].op = "chunk"
        BY <1>5, <3>2 DEF ShareInv, LocalShare, Uploaded
      <4>2. id \in DirectIds
        BY <3>2, <4>1 DEF TypeInv, LocalOK
      <4> QED
        BY <1>5, <4>2 DEF Shared, IdsApart
    <3> QED
      BY <3>1, <3>2
  <2> QED
    BY <1>1, <1>3, <2>1 DEF Harmless, WritePC
<1>9. ASSUME NEW i \in LinkIds PROVE LinkShare(i)'
  <2>1. i # id => (InUse(i)' => InUse(i))
    BY <1>1, <1>3, <1>4 DEF InUse, Procs
  <2>2. ASSUME i # id, InUse(i) PROVE \A q \in Procs : Harmless(task[q], i)'
    BY <1>1, <1>3, <2>2 DEF ShareInv, LinkShare, Harmless
  <2>3. LinkShare(i)
    BY DEF ShareInv
  <2> QED
    BY <1>4, <1>5, <1>8, <2>1, <2>2, <2>3 DEF LinkShare, Known, Uploaded
<1>10. Step
  <2>1. CASE id \notin OneTimeLinks
    <3>1. Unseen(p)
      BY <1>1, <1>2, <1>3, <1>4, <2>1 DEF Unseen, Reading, LinkPhase, Known
    <3> QED
      BY <1>2, <3>1, UnseenStep
  <2>2. CASE id \in OneTimeLinks
    <3>1. ASSUME NEW i \in OneTimeLinks, i # id PROVE Reads(i)' = Reads(i)
      BY <1>1, <1>2, <1>3, <3>1, SameReads DEF Reading
    <3>2. Reads(id)' = Reads(id) \cup {idx}
      <4>1. \A q \in Handlers \ {p} : /\ Reading(q, id)' <=> Reading(q, id)
                                      /\ task'[q].idx = task[q].idx
        BY <1>3 DEF Reading, Procs
      <4>2. ~Reading(p, id) /\ Reading(p, id)' /\ task'[p].idx = idx
        BY <1>1, <1>2, <1>3 DEF Reading
      <4> QED
        BY <4>1, <4>2 DEF Reads
    <3>3. idx \in Chunks(LinkStart[id])
      BY <1>5, LinkStartAssumption, BoundsAssumption DEF InRange, Chunks
    <3>4. Promise!Admit(id, idx)
      BY <1>4, <1>5, <2>2, <3>1, <3>2 DEF Promise!Admit, LinkPhase, Known
    <3> QED
      BY <2>2, <3>3, <3>4, PartStep
  <2> QED
    BY <2>1, <2>2
<1> QED
  BY <1>7, <1>9, <1>10 DEF ShareInv

\* An upload is accepted only while its chunk is missing.
LEMMA LateUploadRefused ==
  ASSUME Shared, TypeInv, ShareInv, NEW p \in Handlers, NEW id \in Ids,
         NEW token \in Tokens, NEW idx \in AskedIndex,
         handleLinkChunkUpload(p, token, id, idx)
  PROVE  /\ id \in LinkIds /\ Known(id)
         /\ InUse(id) => ~InRange(idx, LinkStart[id])
<1>1. IsLink(id) /\ idx \notin received[id]
  BY DEF handleLinkChunkUpload, MayManage, Shared, Reupload
<1>2. id \in LinkIds /\ Known(id)
  <2>1. meta[id] \in Meta /\ LinkEntry(id, meta[id])
    BY <1>1, LinkIsLink
  <2> QED
    BY <2>1, EntryIsNotNoMeta DEF Known, LinkEntry
<1>3. InUse(id) => received[id] = Chunks(LinkStart[id])
  BY <1>2 DEF ShareInv, LinkShare
<1>4. idx \in Int /\ LinkStart[id].total \in Int
  BY <1>2, LinkStartAssumption, BoundsAssumption DEF AskedIndex
<1> QED
  BY <1>1, <1>2, <1>3, <1>4 DEF Chunks, InRange

LEMMA RequestPromise ==
  ASSUME Shared, TypeInv, ShareInv, NEW p \in Handlers, Request(p)
  PROVE  ShareInv' /\ Step
<1>0. p \in Procs /\ AskedIndex \subseteq Int
  BY BoundsAssumption DEF Procs, AskedIndex
<1>1. ASSUME NEW r \in StartUploads, StartUpload(p, r) PROVE ShareInv' /\ Step
  <2>1. r.id \in DirectIds /\ r.id \notin LinkIds /\ r.id \in Ids
    BY StartUploadsAssumption DEF Shared, IdsApart, Ids
  <2>2. /\ Create(p, "start_upload", r.id, DirectMeta(r))
        /\ minted' = minted /\ UNCHANGED observed
    BY <1>1 DEF StartUpload
  <2> QED
    BY <2>1, <2>2, CreatePromise
<1>2. ASSUME NEW id \in LinkIds, handleLinkStart(p, id) PROVE ShareInv' /\ Step
  <2>1. /\ Create(p, "link_start", id, LinkMeta(id))
        /\ id \in Ids /\ id \in LinkIds \ minted
        /\ minted' = minted \cup {id} /\ UNCHANGED observed
    BY <1>2 DEF handleLinkStart, Ids
  <2> QED
    BY <2>1, CreatePromise
<1>3. ASSUME NEW id \in Ids, NEW pubkey \in Pubkeys,
             Download(p, pubkey, id) \/ Complete(p, pubkey, id)
      PROVE  ShareInv' /\ Step
  BY <1>0, <1>3, BeginPromise DEF Download, Complete, Arrives, Op, PC, WritePC
<1>4. ASSUME NEW id \in Ids, NEW token \in Tokens, handleLinkDelete(p, token, id)
      PROVE  ShareInv' /\ Step
  BY <1>0, <1>4, BeginPromise DEF handleLinkDelete, Arrives, Op, PC, WritePC
<1>5. ASSUME NEW id \in Ids, NEW pubkey \in Pubkeys, NEW idx \in AskedIndex,
             Chunk(p, pubkey, id, idx)
      PROVE  ShareInv' /\ Step
  <2>1. id \notin LinkIds
    BY <1>5, IdentityIsDirect DEF Chunk, Shared, IdsApart
  <2> QED
    BY <1>0, <1>5, <2>1, BeginWritePromise DEF Chunk, Arrives
<1>6. ASSUME NEW id \in Ids, NEW token \in Tokens, NEW idx \in AskedIndex,
             handleLinkChunkUpload(p, token, id, idx)
      PROVE  ShareInv' /\ Step
  <2>1. Known(id) /\ (InUse(id) => ~InRange(idx, LinkStart[id]))
    BY <1>6, LateUploadRefused
  <2> QED
    BY <1>0, <1>6, <2>1, BeginWritePromise DEF handleLinkChunkUpload, Arrives
<1> QED
  BY <1>1, <1>2, <1>3, <1>4, <1>5, <1>6, AdmitPromise, Zenon DEF Request

-----------------------------------------------------------------------------
(* writeChunk. *)

\* p goes on with a writeChunk; while its link is in use it cannot have come
\* to this step.
LEMMA WriterPromise ==
  ASSUME TypeInv, ShareInv, NEW p \in Procs,
         \A q \in Procs \ {p} : task'[q] = task[q],
         task[p].pc \in WritePC, task'[p].pc \in WritePC \ {"lookup"},
         task'[p].op = task[p].op, task'[p].id = task[p].id,
         task[p].id \in LinkIds /\ task[p].pc = "lookup"
            => InRange(task[p].idx, LinkStart[task[p].id]),
         UNCHANGED <<meta, received, dir, minted, burned, sent>>
  PROVE  ShareInv' /\ Step
<1>1. task[p].op # "link_get" /\ p \in Handlers
  BY DEF ShareInv, LocalShare
<1>2. Step
  <2>1. Unseen(p)
    BY <1>1 DEF Unseen, Reading, LinkPhase, Known
  <2> QED
    BY <2>1, UnseenStep
<1>3. \A q \in Procs : LocalShare(q, task[q])'
  BY DEF ShareInv, LocalShare, WritePC
<1>4. ASSUME NEW i \in LinkIds PROVE LinkShare(i)'
  <2>1. InUse(i)' => InUse(i)
    BY <1>1 DEF InUse, Procs
  <2>2. ASSUME InUse(i) PROVE \A q \in Procs : Harmless(task[q], i)'
    <3>1. task[p].id # i
      BY <2>2 DEF ShareInv, LinkShare, Harmless, WritePC
    <3> QED
      BY <2>2, <3>1 DEF ShareInv, LinkShare, Harmless
  <2>3. LinkShare(i)
    BY DEF ShareInv
  <2> QED
    BY <2>1, <2>2, <2>3 DEF LinkShare, Known
<1> QED
  BY <1>2, <1>3, <1>4 DEF ShareInv

LEMMA WriteFilePromise ==
  ASSUME Shared, TypeInv, ShareInv, NEW p \in Procs, UNCHANGED <<minted, observed>>,
         \/ WriteLookup(p) \/ WriteOpen(p) \/ WriteData(p) \/ WriteFail(p)
         \/ WritePersist(p)
  PROVE  ShareInv' /\ Step
<1>0. task \in [Procs -> Task] /\ task[p] \in Task
  BY DEF TypeInv, TypeOK
<1>1. /\ UNCHANGED <<meta, received, dir, minted, burned, sent>>
      /\ task[p].pc \in WritePC \cup {"persist"}
      /\ \A q \in Procs \ {p} : task'[q] = task[q]
  BY <1>0 DEF WriteLookup, WriteOpen, WriteData, WriteFail, WritePersist, memory,
              disk, observed, Finish, Goto, At, WritePC
<1>2. CASE Finish(p)
  <2>1. task'[p].pc = "idle" /\ task'[p].op = "none"
    BY <1>0, <1>2 DEF Finish, Idle
  <2> QED
    BY <1>1, <2>1, QuietPromise DEF WritePC
<1>3. CASE ~Finish(p)
  <2>1. /\ task[p].pc \in WritePC /\ task'[p].pc \in WritePC \ {"lookup"}
        /\ task'[p].op = task[p].op /\ task'[p].id = task[p].id
    BY <1>0, <1>3 DEF WriteLookup, WriteOpen, WriteData, WriteFail, WritePersist,
                      Goto, At, WritePC, Task
  <2>2. ASSUME task[p].id \in LinkIds, task[p].pc = "lookup"
        PROVE  InRange(task[p].idx, LinkStart[task[p].id])
    <3>1. WriteLookup(p)
      BY <2>2 DEF WriteOpen, WriteData, WriteFail, WritePersist, At
    <3>2. Known(task[p].id) /\ InRange(task[p].idx, meta[task[p].id])
      BY <1>3, <3>1 DEF WriteLookup
    <3> QED
      BY <2>2, <3>2 DEF Shared, IdsApart, TypeInv, StoredOK, Proper, LinkEntry,
                        DirectEntry, InRange, Ids
  <2> QED
    BY <1>1, <2>1, <2>2, WriterPromise
<1> QED
  BY <1>2, <1>3

\* p publishes an entry: a new one, or the one it looked up before its write.
LEMMA PublishPromise ==
  ASSUME TypeInv, ShareInv, NEW p \in Procs, NEW id \in Ids, NEW m \in Meta, NEW S,
         id = task[p].id, task[p].pc \in {"create", "commit"},
         \A q \in Procs \ {p} : task'[q] = task[q],
         task'[p].pc \in {"idle", "persist"}, task'[p].op # "link_get",
         meta' = [meta EXCEPT ![id] = m],
         received' = [received EXCEPT ![id] = S],
         UNCHANGED <<dir, minted, burned, sent>>
  PROVE  ShareInv' /\ Step
<1>1. id \in LinkIds => ~InUse(id) /\ id \in minted
  BY DEF ShareInv, LinkShare, Harmless, LocalShare, WritePC
<1>2. /\ Known(id)'
      /\ \A i \in Ids \ {id} : meta'[i] = meta[i] /\ received'[i] = received[i]
  BY EntryIsNotNoMeta DEF Known, TypeInv, TypeOK
<1>3. \A i \in LinkIds : InUse(i)' => InUse(i)
  BY DEF InUse, Procs
<1>4. \A q \in Procs : LocalShare(q, task[q])'
  BY DEF ShareInv, LocalShare, WritePC
<1>5. ASSUME NEW i \in LinkIds PROVE LinkShare(i)'
  <2>1. CASE i = id
    BY <1>1, <1>3, <2>1 DEF LinkShare, InUse
  <2>2. CASE i # id
    <3>1. ASSUME InUse(i) PROVE \A q \in Procs : Harmless(task[q], i)'
      BY <3>1 DEF ShareInv, LinkShare, Harmless
    <3>2. LinkShare(i)
      BY DEF ShareInv
    <3> QED
      BY <1>2, <1>3, <2>2, <3>1, <3>2 DEF LinkShare, Known, Ids
  <2> QED
    BY <2>1, <2>2
<1>6. \A i \in OneTimeLinks : ~Reading(p, i) /\ ~Reading(p, i)'
  BY DEF Reading
<1>7. \A i \in OneTimeLinks \ {id} : LinkPhase(i)' = LinkPhase(i)
  BY <1>2 DEF LinkPhase, Known, OneTimeLinks, Ids
<1>8. Step
  <2>1. CASE id \notin OneTimeLinks \/ Known(id)
    <3>1. Unseen(p)
      BY <1>2, <1>6, <1>7, <2>1 DEF Unseen, LinkPhase
    <3> QED
      BY <3>1, UnseenStep
  <2>2. CASE id \in OneTimeLinks /\ ~Known(id)
    <3>1. LinkPhase(id) = "closed" /\ LinkPhase(id)' = "open"
      BY <1>1, <1>2, <2>2 DEF LinkPhase, InUse, OneTimeLinks
    <3>2. \A i \in OneTimeLinks : Reads(i)' = Reads(i)
      BY <1>6, SameReads
    <3>3. Promise!Open(id)
      BY <1>7, <2>2, <3>1, <3>2 DEF Promise!Open, Promise!Move
    <3> QED
      BY <2>2, <3>3 DEF Step, Promise!Next
  <2> QED
    BY <2>1, <2>2
<1> QED
  BY <1>4, <1>5, <1>8 DEF ShareInv

LEMMA CommitPromise ==
  ASSUME TypeInv, ShareInv, NEW p \in Procs, UNCHANGED <<minted, observed>>,
         CreateCommit(p) \/ CreateFail(p) \/ WriteCommit(p)
  PROVE  ShareInv' /\ Step
<1>0. /\ task \in [Procs -> Task] /\ task[p] \in Task
      /\ task[p].id \in Ids /\ task[p].held \in Meta
      /\ Touch(task[p].held) \in Meta
  <2>1. /\ task \in [Procs -> Task] /\ task[p] \in Task
        /\ task[p].id \in Ids /\ task[p].held \in Meta
    BY DEF TypeInv, TypeOK, LocalOK, Proper, CreateCommit, CreateFail,
           WriteCommit, At
  <2> QED
    BY <2>1, TouchProper DEF TypeInv, TypeOK
<1>1. CASE CreateCommit(p)
  <2>1. /\ \A q \in Procs \ {p} : task'[q] = task[q]
        /\ task'[p].pc = "idle" /\ task'[p].op = "none"
    BY <1>0, <1>1 DEF CreateCommit, Finish, Idle
  <2> QED
    BY <1>0, <1>1, <2>1, PublishPromise DEF CreateCommit, At, observed
<1>2. CASE CreateFail(p)
  <2>1. /\ \A q \in Procs \ {p} : task'[q] = task[q]
        /\ task'[p].pc = "idle" /\ task'[p].op = "none"
    BY <1>0, <1>2 DEF CreateFail, Finish, Idle
  <2> QED
    BY <1>2, <2>1, QuietPromise DEF CreateFail, At, memory, observed, WritePC
<1>3. CASE WriteCommit(p)
  <2>1. task[p].op # "link_get" /\ task[p].pc = "commit"
    BY <1>3 DEF ShareInv, LocalShare, WriteCommit, At, WritePC
  <2>2. /\ \A q \in Procs \ {p} : task'[q] = task[q]
        /\ task'[p].pc = "persist" /\ task'[p].op = task[p].op
    BY <1>0, <1>3 DEF WriteCommit, Task
  <2> QED
    BY <1>0, <1>3, <2>1, <2>2, PublishPromise DEF WriteCommit, disk, observed
<1> QED
  BY <1>1, <1>2, <1>3

-----------------------------------------------------------------------------
(* The download of a link. *)

\* One reader of a part is gone; others may be left.
LEMMA ReaderGone ==
  ASSUME NEW p \in Handlers, \A q \in Procs \ {p} : task'[q] = task[q],
         NEW id, Reading(p, id), ~Reading(p, id)'
  PROVE  Reads(id)' \in {Reads(id), Reads(id) \ {task[p].idx}}
<1>1. \A q \in Handlers \ {p} : /\ Reading(q, id)' <=> Reading(q, id)
                                /\ task'[q].idx = task[q].idx
  BY DEF Reading, Procs
<1>2. Reads(id)' = {task[q].idx : q \in {r \in Handlers \ {p} : Reading(r, id)}}
  BY <1>1 DEF Reads
<1>3. Reads(id) = {task[q].idx : q \in {r \in Handlers \ {p} : Reading(r, id)}}
                  \cup {task[p].idx}
  BY DEF Reads
<1> QED
  BY <1>2, <1>3

\* p leaves the download without having sent the chunk.
LEMMA AbandonPromise ==
  ASSUME NEW p \in Handlers, NEW id \in LinkIds,
         \A q \in Procs \ {p} : task'[q] = task[q],
         Reading(p, id), task'[p].op = "none", task[p].idx \in Chunks(LinkStart[id]),
         UNCHANGED sent, \A i \in OneTimeLinks : LinkPhase(i)' = LinkPhase(i)
  PROVE  Step
<1>1. p \in Procs /\ \A i \in OneTimeLinks \ {id} : Reads(i)' = Reads(i)
  BY SameReads DEF Reading, Procs
<1>2. Reads(id)' \in {Reads(id), Reads(id) \ {task[p].idx}}
  BY ReaderGone DEF Reading
<1>3. CASE id \notin OneTimeLinks \/ Reads(id)' = Reads(id)
  <2>1. UNCHANGED Promise!vars
    BY <1>1, <1>3 DEF Promise!vars
  <2> QED
    BY <2>1 DEF Step
<1>4. CASE id \in OneTimeLinks /\ Reads(id)' = Reads(id) \ {task[p].idx}
  <2>1. Promise!Abandon(id, task[p].idx)
    BY <1>1, <1>4 DEF Promise!Abandon
  <2> QED
    BY <1>4, <2>1, PartStep
<1> QED
  BY <1>2, <1>3, <1>4

LEMMA DeliverPromise ==
  ASSUME NEW p \in Handlers, NEW id \in LinkIds,
         \A q \in Procs \ {p} : task'[q] = task[q],
         Reading(p, id), task'[p].pc = "mark", task[p].idx \in Chunks(LinkStart[id]),
         sent \in [Ids -> SUBSET Index],
         sent' = [sent EXCEPT ![id] = @ \cup {task[p].idx}],
         \A i \in OneTimeLinks : LinkPhase(i)' = LinkPhase(i)
  PROVE  Step
<1>1. /\ p \in Procs
      /\ \A i \in OneTimeLinks \ {id} : /\ Reads(i)' = Reads(i)
                                        /\ sent'[i] = sent[i]
  BY SameReads DEF Reading, Procs, OneTimeLinks, Ids
<1>2. Reads(id)' \in {Reads(id), Reads(id) \ {task[p].idx}}
  BY ReaderGone DEF Reading
<1>3. task[p].idx \in Reads(id) /\ sent'[id] = sent[id] \cup {task[p].idx}
  BY DEF Reads, Ids
<1>4. CASE id \notin OneTimeLinks
  <2>1. UNCHANGED Promise!vars
    BY <1>1, <1>4 DEF Promise!vars
  <2> QED
    BY <2>1 DEF Step
<1>5. CASE id \in OneTimeLinks
  <2>1. PICK part \in Chunks(LinkStart[id]) : part = task[p].idx
    OBVIOUS
  <2>2. Promise!Deliver(id, part)
    BY <1>1, <1>2, <1>3, <1>5, <2>1 DEF Promise!Deliver
  <2> QED
    BY <1>5, <2>2, PartStep
<1> QED
  BY <1>4, <1>5

\* What is known of p in a download of a link.
LEMMA InDownload ==
  ASSUME TypeInv, NEW p \in Procs, task[p].pc \in {"read", "send", "mark"}
  PROVE  /\ p \in Handlers /\ task[p].id \in LinkIds /\ task[p].id \in Ids
         /\ task[p].op = "link_get"
         /\ task[p].idx \in Chunks(LinkStart[task[p].id])
         /\ task[p].pc # "mark" => Reading(p, task[p].id)
<1>1. /\ p \in Handlers /\ task[p].id \in LinkIds /\ task[p].op = "link_get"
      /\ InRange(task[p].idx, LinkStart[task[p].id]) /\ task[p].idx \in Int
  BY DEF TypeInv, TypeOK, LocalOK, Task
<1>2. task[p].idx \in Chunks(LinkStart[task[p].id])
  BY <1>1, LinkStartAssumption, BoundsAssumption DEF InRange, Chunks
<1> QED
  BY <1>1, <1>2 DEF Reading, Ids

LEMMA ReadPromise ==
  ASSUME TypeInv, ShareInv, NEW p \in Procs, ReadForLink(p)
  PROVE  ShareInv' /\ Step
<1> DEFINE id == task[p].id
<1>0. /\ task \in [Procs -> Task] /\ task[p] \in Task /\ task[p].pc = "read"
      /\ UNCHANGED <<meta, received, dir, minted, burned, sent>>
  BY DEF TypeInv, TypeOK, ReadForLink, At, OnlyTask, memory, disk, observed
<1>1. /\ p \in Handlers /\ id \in LinkIds /\ task[p].op = "link_get"
      /\ task[p].idx \in Chunks(LinkStart[id]) /\ Reading(p, id)
  BY <1>0, InDownload
<1>2. \A q \in Procs \ {p} : task'[q] = task[q]
  BY <1>0 DEF ReadForLink, Finish
<1>3. \A i \in OneTimeLinks : LinkPhase(i)' = LinkPhase(i)
  BY <1>0 DEF LinkPhase, Known
<1>4. CASE Finish(p)
  <2>1. task'[p].pc = "idle" /\ task'[p].op = "none"
    BY <1>0, <1>4 DEF Finish, Idle
  <2>2. Tame(p)
    BY <1>0, <1>2, <2>1 DEF Tame, WritePC, Known
  <2>3. Step
    BY <1>0, <1>1, <1>2, <1>3, <2>1, AbandonPromise
  <2> QED
    BY <2>2, <2>3, TameStep
<1>5. CASE ~Finish(p)
  <2>1. /\ task'[p].pc = "send" /\ task'[p].op = task[p].op
        /\ task'[p].id = id /\ task'[p].idx = task[p].idx
    BY <1>0, <1>5 DEF ReadForLink, Task
  <2>2. Tame(p)
    BY <1>0, <1>2, <2>1 DEF Tame, WritePC, Known
  <2>3. ASSUME NEW i PROVE Reads(i)' = Reads(i)
    <3>1. \A q \in Handlers : /\ Reading(q, i)' <=> Reading(q, i)
                              /\ task'[q].idx = task[q].idx
      BY <1>0, <1>2, <2>1 DEF Reading, Procs
    <3> QED
      BY <3>1 DEF Reads
  <2>4. UNCHANGED Promise!vars
    BY <1>0, <1>3, <2>3 DEF Promise!vars
  <2> QED
    BY <2>2, <2>4, TameStep DEF Step
<1> QED
  BY <1>4, <1>5

LEMMA SendPromise ==
  ASSUME TypeInv, ShareInv, NEW p \in Procs, TouchAndSend(p)
  PROVE  ShareInv' /\ Step
<1> DEFINE id == task[p].id
<1>0. /\ task \in [Procs -> Task] /\ task[p] \in Task /\ task[p].pc = "send"
      /\ sent \in [Ids -> SUBSET Index]
      /\ UNCHANGED <<received, dir, minted, burned>>
  BY DEF TypeInv, TypeOK, TouchAndSend, At
<1>1. /\ p \in Handlers /\ id \in LinkIds /\ id \in Ids
      /\ task[p].op = "link_get"
      /\ task[p].idx \in Chunks(LinkStart[id]) /\ Reading(p, id)
  BY <1>0, InDownload
<1>2. \A q \in Procs \ {p} : task'[q] = task[q]
  BY <1>0 DEF TouchAndSend, Goto, Finish
<1>3. \A i \in Ids : Known(i)' <=> Known(i)
  <2>1. Known(id) => Touch(meta[id]) # NoMeta
    <3>1. Known(id) => meta[id] \in Meta
      BY <1>1 DEF TypeInv, StoredOK, Proper
    <3>2. clock \in Clock
      BY DEF TypeInv, TypeOK
    <3> QED
      BY <1>1, <3>1, <3>2, TouchProper
  <2> QED
    BY <1>1, <2>1 DEF TouchAndSend, TouchLink, Known, TypeInv, TypeOK
<1>4. \A i \in OneTimeLinks : LinkPhase(i)' = LinkPhase(i)
  BY <1>0, <1>3 DEF LinkPhase, OneTimeLinks, Ids
<1>5. CASE Goto(p, "mark") /\ sent' = [sent EXCEPT ![id] = @ \cup {task[p].idx}]
  <2>1. /\ task'[p].pc = "mark" /\ task'[p].op = task[p].op
        /\ task'[p].id = id
    BY <1>0, <1>5 DEF Goto, Task
  <2>2. Tame(p)
    BY <1>0, <1>2, <1>3, <2>1 DEF Tame, WritePC, Ids
  <2>3. Step
    BY <1>0, <1>1, <1>2, <1>4, <1>5, <2>1, DeliverPromise
  <2> QED
    BY <2>2, <2>3, TameStep
<1>6. CASE Finish(p) /\ UNCHANGED sent
  <2>1. task'[p].pc = "idle" /\ task'[p].op = "none"
    BY <1>0, <1>6 DEF Finish, Idle
  <2>2. Tame(p)
    BY <1>0, <1>2, <1>3, <2>1 DEF Tame, WritePC, Ids
  <2>3. Step
    BY <1>1, <1>2, <1>4, <1>6, <2>1, AbandonPromise
  <2> QED
    BY <2>2, <2>3, TameStep
<1> QED
  BY <1>5, <1>6 DEF TouchAndSend

LEMMA MarkPromise ==
  ASSUME TypeInv, ShareInv, NEW p \in Procs, MarkServed(p),
         UNCHANGED <<minted, observed>>
  PROVE  ShareInv' /\ Step
<1>1. /\ task \in [Procs -> Task] /\ task[p] \in Task /\ task[p].pc = "mark"
      /\ UNCHANGED <<meta, received, dir, minted, burned, sent>>
  BY DEF TypeInv, TypeOK, MarkServed, At, disk, observed
<1>2. task[p].op = "link_get"
  BY <1>1, InDownload
<1>3. /\ \A q \in Procs \ {p} : task'[q] = task[q]
      /\ \/ task'[p].pc = "idle" /\ task'[p].op = "none"
         \/ task'[p].pc = "forget" /\ task'[p].id = task[p].id
  BY <1>1 DEF MarkServed, Goto, Finish, Idle, Task
<1> QED
  BY <1>1, <1>2, <1>3, QuietPromise DEF WritePC

-----------------------------------------------------------------------------
(* deleteTransfer. *)

LEMMA ForgetPromise ==
  ASSUME TypeInv, BurnInv, ShareInv, NEW p \in Procs, DeleteForget(p)
  PROVE  ShareInv' /\ Step
<1> PICK id \in Ids : id = task[p].id
  BY DEF TypeInv, LocalOK, DeleteForget, Forget, At
<1>0. /\ task \in [Procs -> Task] /\ task[p] \in Task /\ task[p].pc = "forget"
      /\ LocalOK(p, task[p])
  BY DEF TypeInv, TypeOK, DeleteForget, Forget, At
<1>1. /\ \A q \in Procs \ {p} : task'[q] = task[q]
      /\ task'[p].pc = "list" /\ task'[p].op = task[p].op /\ task'[p].id = id
  BY <1>0 DEF DeleteForget, Forget, Goto, Task
<1>2. /\ UNCHANGED <<dir, minted, sent>>
      /\ ~Known(id)'
      /\ \A i \in Ids \ {id} : meta'[i] = meta[i] /\ received'[i] = received[i]
  <2>1. /\ meta \in [Ids -> Meta \cup {NoMeta}]
        /\ received \in [Ids -> SUBSET Index]
    BY DEF TypeInv, TypeOK
  <2> QED
    BY <1>0, <2>1 DEF DeleteForget, Forget, disk, Known
<1>3. \A i \in OneTimeLinks : ~Reading(p, i) /\ ~Reading(p, i)'
  BY <1>0, <1>1 DEF Reading
<1>4. \A i \in OneTimeLinks : Reads(i)' = Reads(i)
  BY <1>1, <1>3, SameReads
<1>5. CASE task[p].op # "link_get"
  <2>1. UNCHANGED burned
    BY <1>5 DEF DeleteForget
  <2>2. Tame(p)
    BY <1>0, <1>1, <1>2, <1>5, <2>1 DEF Tame, WritePC, Known, Ids
  <2>3. \A i \in OneTimeLinks \ {id} : LinkPhase(i)' = LinkPhase(i)
    BY <1>2, <2>1 DEF LinkPhase, Known, OneTimeLinks, Ids
  <2>4. CASE id \in OneTimeLinks /\ Known(id)
    <3>1. LinkPhase(id) = "open" /\ LinkPhase(id)' = "closed"
      BY <1>2, <2>1, <2>4 DEF LinkPhase, ShareInv, LinkShare, OneTimeLinks
    <3>2. Promise!Close(id)
      BY <1>2, <1>4, <2>3, <2>4, <3>1 DEF Promise!Close, Promise!Move
    <3> QED
      BY <2>2, <2>4, <3>2, TameStep DEF Step, Promise!Next
  <2>5. CASE id \notin OneTimeLinks \/ ~Known(id)
    <3>1. \A i \in OneTimeLinks : LinkPhase(i)' = LinkPhase(i)
      BY <1>2, <2>1, <2>3, <2>5 DEF LinkPhase
    <3>2. Unseen(p)
      BY <1>1, <1>2, <1>3, <3>1 DEF Unseen
    <3> QED
      BY <2>2, <3>2, TameStep, UnseenStep
  <2> QED
    BY <2>4, <2>5
<1>6. CASE task[p].op = "link_get"
  <2>1. /\ p \in Handlers /\ id \in LinkIds /\ id \in minted
        /\ id \in OneTimeLinks /\ Chunks(LinkStart[id]) \subseteq sent[id]
        /\ burned' = burned \cup {id}
    BY <1>0, <1>6 DEF LocalOK, ShareInv, LocalShare, BurnInv, BurnIsEarned,
                      OneTimeLinks, At, DeleteForget
  <2>2. \A i \in LinkIds : InUse(i)' => InUse(i)
    BY <1>1, <1>6, <2>1 DEF InUse, Procs
  <2>3. \A q \in Procs : LocalShare(q, task[q])'
    BY <1>0, <1>1, <1>2, <1>6 DEF ShareInv, LocalShare, WritePC
  <2>4. ASSUME NEW i \in LinkIds PROVE LinkShare(i)'
    <3>1. ASSUME InUse(i) PROVE \A q \in Procs : Harmless(task[q], i)'
      BY <1>1, <3>1 DEF ShareInv, LinkShare, Harmless
    <3>2. LinkShare(i)
      BY DEF ShareInv
    <3> QED
      BY <1>2, <2>1, <2>2, <3>1, <3>2 DEF LinkShare, Known, Ids
  <2>5. \A i \in OneTimeLinks \ {id} : LinkPhase(i)' = LinkPhase(i)
    BY <1>2, <2>1 DEF LinkPhase, Known, OneTimeLinks, Ids
  <2>6. CASE id \in burned
    <3>1. \A i \in OneTimeLinks : LinkPhase(i)' = LinkPhase(i)
      BY <1>2, <2>1, <2>5, <2>6 DEF LinkPhase, ShareInv, LinkShare
    <3>2. Unseen(p)
      BY <1>1, <1>2, <1>3, <3>1 DEF Unseen
    <3> QED
      BY <2>3, <2>4, <3>2, UnseenStep DEF ShareInv
  <2>7. CASE id \notin burned
    <3>1. /\ LinkPhase(id) \in {"open", "closed"}
          /\ LinkPhase(id)' \in {"burned", "destroyed"}
      BY <1>2, <2>1, <2>7 DEF LinkPhase
    <3>2. Promise!Burn(id)
      BY <1>2, <1>4, <2>1, <2>5, <3>1 DEF Promise!Burn, Promise!Move
    <3> QED
      BY <2>1, <2>3, <2>4, <3>2 DEF ShareInv, Step, Promise!Next
  <2> QED
    BY <2>6, <2>7
<1> QED
  BY <1>5, <1>6

LEMMA RemoveAllPromise ==
  ASSUME TypeInv, ShareInv, NEW p \in Procs, UNCHANGED <<minted, observed>>,
         ListDir(p) \/ Unlink(p) \/ RemoveDir(p)
  PROVE  ShareInv' /\ Step
<1> PICK id \in Ids : id = task[p].id
  BY DEF TypeInv, LocalOK, ListDir, Unlink, RemoveDir, At
<1>0. /\ task \in [Procs -> Task] /\ task[p] \in Task
      /\ task[p].pc \in {"list", "unlink"}
      /\ UNCHANGED <<meta, received, minted, burned, sent>>
  BY DEF TypeInv, TypeOK, ListDir, Unlink, RemoveDir, At, memory, disk, observed
<1>1. \A q \in Procs \ {p} : task'[q] = task[q]
  BY <1>0 DEF ListDir, Unlink, RemoveDir, Finish
<1>2. \/ task'[p].pc = "idle" /\ task'[p].op = "none"
      \/ /\ task'[p].pc = "unlink" /\ task'[p].op = task[p].op
         /\ task'[p].id = task[p].id
  BY <1>0 DEF ListDir, Unlink, RemoveDir, Finish, Idle, At, Task
<1>3. CASE UNCHANGED dir
  BY <1>0, <1>1, <1>2, <1>3, QuietPromise DEF WritePC
<1>4. CASE ~UNCHANGED dir
  <2>1. dir' = dir \ {id} /\ id \in dir
    BY <1>4 DEF ListDir, Unlink, RemoveDir, disk
  <2>2. Tame(p)
    BY <1>0, <1>1, <1>2 DEF Tame, WritePC, Known
  <2>3. \A i \in OneTimeLinks : /\ ~Reading(p, i) /\ ~Reading(p, i)'
                                /\ i # id => LinkPhase(i)' = LinkPhase(i)
    BY <1>0, <1>2, <2>1 DEF Reading, LinkPhase, Known
  <2>4. CASE id \in OneTimeLinks /\ LinkPhase(id) = "burned"
    <3>1. LinkPhase(id)' = "destroyed"
      BY <1>0, <2>1, <2>4 DEF LinkPhase, Known
    <3>2. \A i \in OneTimeLinks : Reads(i)' = Reads(i)
      BY <1>1, <2>3, SameReads
    <3>3. Promise!Destroy(id)
      BY <1>0, <2>3, <2>4, <3>1, <3>2 DEF Promise!Destroy, Promise!Move
    <3> QED
      BY <2>2, <2>4, <3>3, TameStep DEF Step, Promise!Next
  <2>5. CASE ~(id \in OneTimeLinks /\ LinkPhase(id) = "burned")
    <3>1. id \in OneTimeLinks => LinkPhase(id)' = LinkPhase(id)
      BY <1>0, <2>1, <2>5 DEF LinkPhase, Known
    <3>2. Unseen(p)
      BY <1>0, <1>1, <2>3, <3>1 DEF Unseen
    <3> QED
      BY <2>2, <3>2, TameStep, UnseenStep
  <2> QED
    BY <2>4, <2>5
<1> QED
  BY <1>3, <1>4

-----------------------------------------------------------------------------
(* Everything else. *)

LEMMA BodyPromise ==
  ASSUME TypeInv, ShareInv, NEW p \in Procs,
         BodyLost(p) \/ ReceivedIndices(p) \/ SendNext(p) \/ SendDone(p)
  PROVE  ShareInv' /\ Step
<1>1. /\ task \in [Procs -> Task] /\ task[p] \in Task
      /\ task[p].pc \in {"lookup", "indices", "sending"}
      /\ UNCHANGED <<meta, received, dir, minted, burned, sent>>
  BY DEF TypeInv, TypeOK, BodyLost, ReceivedIndices, SendNext, SendDone, At,
         OnlyTask, memory, disk, observed
<1>2. \A q \in Procs \ {p} : task'[q] = task[q]
  BY <1>1 DEF BodyLost, ReceivedIndices, SendNext, SendDone, Finish
<1>3. \/ task'[p].pc = "idle" /\ task'[p].op = "none"
      \/ /\ task'[p].pc = "sending" /\ task'[p].op = task[p].op
         /\ task'[p].id = task[p].id
  <2>1. CASE Finish(p)
    BY <1>1, <2>1 DEF Finish, Idle
  <2>2. CASE ReceivedIndices(p)
    BY <1>1, <2>2 DEF ReceivedIndices, Task
  <2>3. CASE SendNext(p) /\ ~Finish(p)
    <3>1. PICK i \in task[p].todo :
             task' = [task EXCEPT ![p].todo = @ \ {i}, ![p].idx = i,
                                  ![p].buf = chunk[task[p].id][i]]
      BY <2>3 DEF SendNext
    <3> QED
      BY <1>1, <2>3, <3>1 DEF SendNext, At, Task
  <2> QED
    BY <2>1, <2>2, <2>3 DEF BodyLost, SendDone
<1> QED
  BY <1>1, <1>2, <1>3, QuietPromise DEF WritePC

LEMMA SweepPromise ==
  ASSUME TypeInv, ShareInv, Sweep
  PROVE  ShareInv' /\ Step
<1>1. UNCHANGED <<meta, received, dir, minted, burned, sent>>
  BY DEF Sweep, SweepCollect, SweepNext, memory, disk, observed
<1>2. CASE SweepCollect
  <2>1. UNCHANGED task
    BY <1>2 DEF SweepCollect
  <2>2. ShareInv'
    BY <1>1, <2>1 DEF ShareInv, LocalShare, LinkShare, InUse, Harmless, Known
  <2>3. UNCHANGED Promise!vars
    BY <1>1, <2>1 DEF Promise!vars, LinkPhase, Known, Reads, Reading
  <2> QED
    BY <2>2, <2>3 DEF Step
<1>3. CASE SweepNext
  <2>1. PICK id \in queue : Begin(Sweeper, "sweep", id, 0, "forget")
    BY <1>3 DEF SweepNext
  <2> DEFINE t == [Idle EXCEPT !.pc = "forget", !.op = "sweep", !.id = id,
                               !.idx = 0]
  <2>2. /\ t.pc = "forget" /\ t.op = "sweep" /\ task' = [task EXCEPT ![Sweeper] = t]
        /\ task \in [Procs -> Task] /\ Sweeper \in Procs
    BY <2>1 DEF Begin, Idle, TypeInv, TypeOK, Procs
  <2> HIDE DEF t
  <2>3. /\ \A q \in Procs \ {Sweeper} : task'[q] = task[q]
        /\ task'[Sweeper].pc = "forget" /\ task'[Sweeper].op = "sweep"
        /\ task[Sweeper].pc = "idle"
    BY <1>3, <2>2 DEF SweepNext, At
  <2> QED
    BY <1>1, <2>2, <2>3, QuietPromise DEF WritePC
<1> QED
  BY <1>2, <1>3 DEF Sweep

LEMMA InitPromise == Init => ShareInv /\ Promise!Init
<1> SUFFICES ASSUME Init PROVE ShareInv /\ Promise!Init
  OBVIOUS
<1>1. /\ \A p \in Procs : task[p].pc = "idle" /\ task[p].op = "none"
      /\ \A id \in Ids : ~Known(id) /\ sent[id] = {}
      /\ burned = {}
  BY DEF Init, StoreInit, Idle, Known
<1>2. ShareInv
  BY <1>1 DEF ShareInv, LocalShare, LinkShare, InUse, WritePC, Procs, Ids
<1>3. \A id \in OneTimeLinks : LinkPhase(id) = "closed" /\ Reads(id) = {}
  BY <1>1 DEF OneTimeLinks, LinkPhase, Reads, Reading, Procs, Ids
<1>4. \A id \in OneTimeLinks : sent[id] = {}
  BY <1>1 DEF OneTimeLinks, Ids
<1> QED
  BY <1>2, <1>3, <1>4 DEF Promise!Init

LEMMA NextPromise ==
  ASSUME Shared, TypeInv, BurnInv, ShareInv, [Next]_vars
  PROVE  ShareInv' /\ Step
<1>1. ASSUME NEW p \in Handlers, Request(p) PROVE ShareInv' /\ Step
  BY <1>1, RequestPromise
<1>2. ASSUME NEW p \in Procs, TakesLock(p) PROVE ShareInv' /\ Step
  BY <1>2, ForgetPromise, BodyPromise, SendPromise, WriteFilePromise,
     CommitPromise, MarkPromise, Zenon DEF TakesLock
<1>3. ASSUME NEW p \in Procs, NoLock(p) PROVE ShareInv' /\ Step
  BY <1>3, BodyPromise, ReadPromise, CommitPromise, WriteFilePromise,
     RemoveAllPromise, Zenon DEF NoLock
<1>4. CASE TimePasses \/ UNCHANGED vars
  <2>1. UNCHANGED <<meta, received, dir, task, minted, burned, sent>>
    BY <1>4 DEF TimePasses, Tick, vars, storeVars, memory, disk, observed
  <2>2. ShareInv'
    BY <2>1 DEF ShareInv, LocalShare, LinkShare, InUse, Harmless, Known
  <2>3. UNCHANGED Promise!vars
    BY <2>1 DEF Promise!vars, LinkPhase, Known, Reads, Reading
  <2> QED
    BY <2>2, <2>3 DEF Step
<1>5. ~CrashRestart
  BY DEF CrashRestart, Shared
<1> QED
  BY <1>1, <1>2, <1>3, <1>4, <1>5, SweepPromise DEF Next

\* "burned: meta and every chunk are gone for good": as long as the process
\* lives, a link that markLinkChunkServed has deleted is never known again,
\* not even to a writeChunk that looked it up before.
THEOREM BurnedLinksStayGone ==
  ASSUME Shared
  PROVE  Spec => []BurnedStaysGone
<1>1. Init => TypeInv /\ BurnInv /\ ShareInv
  BY InitType, InitBurn, InitPromise
<1>2. (TypeInv /\ BurnInv /\ ShareInv) /\ [Next]_vars
        => (TypeInv /\ BurnInv /\ ShareInv)'
  BY NextType, NextBurn, NextPromise
<1>3. TypeInv /\ BurnInv /\ ShareInv => BurnedStaysGone
  BY DEF TypeInv, TypeOK, ShareInv, LinkShare, BurnedStaysGone
<1> QED
  BY <1>1, <1>2, <1>3, PTL DEF Spec

\* The server implements the one-time links of BurnAfterRead: a link is burned
\* only when each of its chunks was delivered to a download admitted while it
\* was open, it never opens again, and nothing else ever happens to it.
THEOREM ServerKeepsPromise ==
  ASSUME Shared
  PROVE  Spec => KeepsPromise
<1>1. Init => TypeInv /\ BurnInv /\ ShareInv /\ Promise!Init
  BY InitType, InitBurn, InitPromise
<1>2. (TypeInv /\ BurnInv /\ ShareInv) /\ [Next]_vars
        => /\ (TypeInv /\ BurnInv /\ ShareInv)'
           /\ [Promise!Next]_(Promise!vars)
  BY NextType, NextBurn, NextPromise DEF Step
<1> QED
  BY <1>1, <1>2, PTL DEF Spec, KeepsPromise, Promise!Spec

=============================================================================
