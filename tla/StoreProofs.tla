---------------------------- MODULE StoreProofs ----------------------------
(***************************************************************************)
(* What the store keeps to, for any number of goroutines, transfers and    *)
(* links, with the sweep: no sender has more transfers than                *)
(* maxTransfersPerSender, no stored chunk is left behind by everybody, and *)
(* a chunk that counts as received is whole.                               *)
(*                                                                         *)
(* The first needs the assumption Settled.  A chunk write of a direct      *)
(* transfer puts the entry it read back, uncounted, when the transfer was  *)
(* deleted meanwhile; so does one that was let in by the link which had    *)
(* the id before; and a restart finds the meta.json of a transfer that was *)
(* already forgotten.  CapInv is the argument: s.mu is held from the check *)
(* of the limit to the publication of the entry, so that there is one      *)
(* creator at a time and what it checked still holds when it commits.      *)
(*                                                                         *)
(* The last two are about the files, which every step but createTransfer   *)
(* and touchLinkTransfer reads and writes without s.mu; they need that the *)
(* process lives, and the last that no write fails halfway.  FilesInv is   *)
(* the argument: os.WriteFile and os.RemoveAll reach a file through the    *)
(* directory they opened, so whoever can still find it answers for it.     *)
(***************************************************************************)
EXTENDS FileShareProofs

Settled == IdsApart /\ "chunk" \notin Requests /\ ~Crashes

WriteChunkPC == {"lookup", "open", "data", "commit", "persist"}

CapInv ==
    /\ \A p \in Procs : task[p].pc \in WriteChunkPC => task[p].id \in LinkIds
    /\ \A p, q \in Procs : At(p, "create") /\ At(q, "create") => p = q
    /\ \A p \in Procs :
          At(p, "create") => /\ ~Known(task[p].id)
                             /\ task[p].held.from \in Pubkeys
                                  => UnderCap(task[p].held.from)
    /\ \A k \in Pubkeys : IsFiniteSet(SentBy(k))
    /\ SenderCap

\* A step of goroutine p that creates nothing: it changes entries under s.mu
\* only, and only removes them, touches them, or works on a link.
Plain(p) ==
    /\ \A q \in Procs \ {p} : task'[q] = task[q]
    /\ task'[p].pc # "create"
    /\ task'[p].pc \in WriteChunkPC => task'[p].id \in LinkIds
    /\ \/ UNCHANGED meta
       \/ /\ LockFree
          /\ \A id \in Ids : \/ meta'[id] = NoMeta
                             \/ meta'[id] = meta[id]
                             \/ id \in LinkIds

\* Links are nobody's transfers, and nothing else is added.
LEMMA PlainSent ==
  ASSUME IdsApart, TypeInv', NEW p \in Procs, Plain(p), NEW k \in Pubkeys
  PROVE  SentBy(k)' \subseteq SentBy(k)
<1> SUFFICES ASSUME NEW id \in Ids, meta'[id] # NoMeta, meta'[id].from = k
             PROVE  id \in SentBy(k)
  BY DEF SentBy, Known
<1>1. id \notin LinkIds
  BY CredentialsAssumption
     DEF IdsApart, TypeInv, StoredOK, Known, Proper, LinkEntry, DirectEntry
<1>2. meta'[id] = meta[id]
  BY <1>1 DEF Plain
<1> QED
  BY <1>2 DEF SentBy, Known

LEMMA PlainCap ==
  ASSUME IdsApart, TypeInv, TypeInv', CapInv, NEW p \in Procs, Plain(p)
  PROVE  CapInv'
<1>1. \A q \in Procs : task'[q].pc \in WriteChunkPC => task'[q].id \in LinkIds
  BY DEF CapInv, Plain
<1>2. \A q \in Procs : At(q, "create")' => At(q, "create") /\ task'[q] = task[q]
  BY DEF Plain, At
<1>3. \A q, r \in Procs : At(q, "create")' /\ At(r, "create")' => q = r
  BY <1>2 DEF CapInv
<1>4. ASSUME NEW q \in Procs, At(q, "create")'
      PROVE  /\ ~Known(task[q].id)'
             /\ task'[q].held.from \in Pubkeys => UnderCap(task[q].held.from)'
  <2>1. At(q, "create") /\ task'[q] = task[q]
    BY <1>2, <1>4
  <2>2. UNCHANGED meta
    BY <2>1 DEF Plain, LockFree
  <2> QED
    BY <2>1, <2>2 DEF CapInv, Known, UnderCap, SentBy
<1>5. ASSUME NEW k \in Pubkeys
      PROVE  /\ IsFiniteSet(SentBy(k)')
             /\ Cardinality(SentBy(k)') <= maxTransfersPerSender
  <2>1. IsFiniteSet(SentBy(k)) /\ Cardinality(SentBy(k)) <= maxTransfersPerSender
    BY DEF CapInv, SenderCap
  <2>2. SentBy(k)' \subseteq SentBy(k)
    BY PlainSent
  <2>3. /\ IsFiniteSet(SentBy(k)')
        /\ Cardinality(SentBy(k)') <= Cardinality(SentBy(k))
    BY <2>1, <2>2, FS_Subset
  <2>4. Cardinality(SentBy(k)) \in Nat /\ Cardinality(SentBy(k)') \in Nat
    BY <2>1, <2>3, FS_CardinalityType
  <2> QED
    BY <2>1, <2>3, <2>4, BoundsAssumption
<1> QED
  BY <1>1, <1>3, <1>4, <1>5 DEF CapInv, SenderCap, At

-----------------------------------------------------------------------------
(* createTransfer and createLinkTransfer. *)

\* The check: nobody else is creating, and meta stays as it is.
LEMMA CreateCap ==
  ASSUME TypeInv, CapInv, NEW p \in Procs, NEW op, NEW id \in Ids, NEW m,
         Create(p, op, id, m), m.from \in Pubkeys => UnderCap(m.from)
  PROVE  CapInv'
<1>1. /\ meta' = meta
      /\ \A q \in Procs \ {p} : task'[q] = task[q] /\ ~At(q, "create")
      /\ task'[p].pc = "create" /\ task'[p].id = id /\ task'[p].held = m
      /\ ~Known(id)
  BY DEF Create, memory, LockFree, TypeInv, TypeOK, Idle
<1>2. \A k : SentBy(k)' = SentBy(k)
  BY <1>1 DEF SentBy, Known
<1>3. \A q \in Procs : task'[q].pc \in WriteChunkPC => task'[q].id \in LinkIds
  BY <1>1 DEF CapInv, WriteChunkPC
<1>4. \A q \in Procs : At(q, "create")' => q = p
  BY <1>1 DEF At
<1>5. ~Known(task[p].id)' /\ (m.from \in Pubkeys => UnderCap(m.from)')
  BY <1>1, <1>2 DEF Known, UnderCap
<1> QED
  BY <1>1, <1>2, <1>3, <1>4, <1>5 DEF CapInv, SenderCap

\* The publication: one transfer more than at the check, which left room.
LEMMA CommitCap ==
  ASSUME TypeInv, TypeInv', CapInv, NEW p \in Procs, CreateCommit(p)
  PROVE  CapInv'
<1> DEFINE id == task[p].id
           m  == task[p].held
<1>1. /\ At(p, "create") /\ id \in Ids /\ Proper(id, m)
      /\ meta' = [meta EXCEPT ![id] = m] /\ meta \in [Ids -> Meta \cup {NoMeta}]
      /\ task' = [task EXCEPT ![p] = Idle] /\ task \in [Procs -> Task]
  BY DEF CreateCommit, Finish, At, TypeInv, TypeOK, LocalOK
<1>2. ~Known(id) /\ (m.from \in Pubkeys => UnderCap(m.from))
  BY <1>1 DEF CapInv
<1> HIDE DEF id, m
<1>3. meta'[id] = m /\ \A i \in Ids \ {id} : meta'[i] = meta[i]
  BY <1>1
<1>4. \A q \in Procs : ~At(q, "create")'
  BY <1>1 DEF CapInv, At, Idle
<1>5. \A q \in Procs : task'[q].pc \in WriteChunkPC => task'[q].id \in LinkIds
  BY <1>1 DEF CapInv, WriteChunkPC, Idle
<1>6. ASSUME NEW k \in Pubkeys
      PROVE  /\ IsFiniteSet(SentBy(k)')
             /\ Cardinality(SentBy(k)') <= maxTransfersPerSender
  <2>1. /\ IsFiniteSet(SentBy(k)) /\ Cardinality(SentBy(k)) \in Nat
        /\ Cardinality(SentBy(k)) <= maxTransfersPerSender
    BY FS_CardinalityType DEF CapInv, SenderCap
  <2>2. CASE m.from = k
    <3>1. SentBy(k)' = SentBy(k) \cup {id} /\ id \notin SentBy(k)
      BY <1>1, <1>2, <1>3, <2>2, EntryIsNotNoMeta DEF SentBy, Known, Proper
    <3>2. /\ IsFiniteSet(SentBy(k)')
          /\ Cardinality(SentBy(k)') = Cardinality(SentBy(k)) + 1
      BY <2>1, <3>1, FS_AddElement
    <3>3. Cardinality(SentBy(k)) < maxTransfersPerSender
      BY <1>2, <2>2 DEF UnderCap
    <3> QED
      BY <2>1, <3>2, <3>3, BoundsAssumption
  <2>3. CASE m.from # k
    <3>1. SentBy(k)' = SentBy(k)
      BY <1>2, <1>3, <2>3 DEF SentBy, Known
    <3> QED
      BY <2>1, <3>1
  <2> QED
    BY <2>2, <2>3
<1> QED
  BY <1>4, <1>5, <1>6 DEF CapInv, SenderCap

-----------------------------------------------------------------------------
(* The other steps are plain. *)

LEMMA BeginPlain ==
  ASSUME TypeInv, NEW p \in Procs, NEW op, NEW id, NEW idx, NEW pc,
         Begin(p, op, id, idx, pc), pc # "create",
         pc \in WriteChunkPC => id \in LinkIds, UNCHANGED meta
  PROVE  Plain(p)
<1>1. task \in [Procs -> Task]
  BY DEF TypeInv, TypeOK
<1> QED
  BY <1>1 DEF Begin, Idle, Plain

LEMMA TaskPlain ==
  ASSUME TypeInv, CapInv, NEW p \in Procs,
         \/ UNCHANGED meta
         \/ /\ LockFree
            /\ \A id \in Ids : \/ meta'[id] = NoMeta
                               \/ meta'[id] = meta[id]
                               \/ id \in LinkIds
  PROVE  /\ Finish(p) => Plain(p)
         /\ \A pc : Goto(p, pc) /\ pc \notin WriteChunkPC \cup {"create"}
                       => Plain(p)
         /\ \A pc \in WriteChunkPC : Goto(p, pc) /\ task[p].pc \in WriteChunkPC
                       => Plain(p)
         /\ \A t : task' = [task EXCEPT ![p] = t] /\ t.pc # "create"
                   /\ (t.pc \in WriteChunkPC => t.id \in LinkIds) => Plain(p)
<1>1. task \in [Procs -> Task] /\ task[p] \in Task
  BY DEF TypeInv, TypeOK
<1>2. ASSUME NEW t, task' = [task EXCEPT ![p] = t], t.pc # "create",
             t.pc \in WriteChunkPC => t.id \in LinkIds
      PROVE  Plain(p)
  BY <1>1, <1>2 DEF Plain
<1>3. Finish(p) => Plain(p)
  <2>1. Idle.pc = "idle" /\ "idle" \notin WriteChunkPC
    BY DEF Idle, WriteChunkPC
  <2> QED
    BY <1>2, <2>1 DEF Finish
<1>4. ASSUME NEW pc, Goto(p, pc)
      PROVE  /\ task' = [task EXCEPT ![p] = [task[p] EXCEPT !.pc = pc]]
             /\ [task[p] EXCEPT !.pc = pc].pc = pc
             /\ [task[p] EXCEPT !.pc = pc].id = task[p].id
  BY <1>1, <1>4 DEF Goto, Task
<1>5. ASSUME NEW pc, Goto(p, pc), pc \notin WriteChunkPC \cup {"create"}
      PROVE  Plain(p)
  BY <1>2, <1>4, <1>5
<1>6. ASSUME NEW pc \in WriteChunkPC, Goto(p, pc), task[p].pc \in WriteChunkPC
      PROVE  Plain(p)
  <2>1. task[p].id \in LinkIds
    BY <1>6 DEF CapInv
  <2>2. pc # "create"
    BY DEF WriteChunkPC
  <2> QED
    BY <1>2, <1>4, <1>6, <2>1, <2>2
<1> QED
  BY <1>2, <1>3, <1>5, <1>6

LEMMA RequestCap ==
  ASSUME Settled, TypeInv, TypeInv', CapInv, NEW p \in Handlers, Request(p)
  PROVE  CapInv'
<1>0. p \in Procs /\ IdsApart
  BY DEF Procs, Settled
<1>1. ASSUME NEW r \in StartUploads, StartUpload(p, r)
      PROVE  CapInv'
  <2>1. r.id \in Ids /\ DirectMeta(r).from = r.from
    BY <1>1, StartUploadsAssumption DEF Ids, DirectMeta
  <2> QED
    BY <1>0, <1>1, <2>1, CreateCap DEF StartUpload
<1>2. ASSUME NEW id \in LinkIds, handleLinkStart(p, id)
      PROVE  CapInv'
  <2>1. id \in Ids /\ LinkMeta(id).from \notin Pubkeys
    BY CredentialsAssumption DEF Ids, LinkMeta
  <2> QED
    BY <1>0, <1>2, <2>1, CreateCap DEF handleLinkStart
<1>3. ASSUME NEW id \in Ids, NEW pubkey \in Pubkeys,
             Download(p, pubkey, id) \/ Complete(p, pubkey, id)
      PROVE  Plain(p)
  BY <1>0, <1>3, BeginPlain DEF Download, Complete, WriteChunkPC, OnlyTask, memory
<1>4. ASSUME NEW id \in Ids, NEW pubkey \in Pubkeys, NEW idx \in AskedIndex
      PROVE  ~Chunk(p, pubkey, id, idx)
  BY DEF Settled, Chunk, Arrives
<1>5. ASSUME NEW id \in Ids, NEW token \in Tokens, handleLinkDelete(p, token, id)
      PROVE  Plain(p)
  BY <1>0, <1>5, BeginPlain DEF handleLinkDelete, WriteChunkPC, OnlyTask, memory
<1>6. ASSUME NEW id \in Ids, NEW token \in Tokens, NEW idx \in AskedIndex,
             handleLinkChunkUpload(p, token, id, idx)
      PROVE  Plain(p)
  BY <1>0, <1>6, BeginPlain, LinkIsLink
     DEF handleLinkChunkUpload, MayManage, LinkEntry, WriteChunkPC, OnlyTask, memory
<1>7. ASSUME NEW id \in Ids, NEW idx \in AskedIndex,
             handleLinkChunkDownload(p, id, idx)
      PROVE  Plain(p)
  BY <1>0, <1>7, BeginPlain
     DEF handleLinkChunkDownload, WriteChunkPC, OnlyTask, memory
<1> QED
  BY <1>0, <1>1, <1>2, <1>3, <1>4, <1>5, <1>6, <1>7, PlainCap
     DEF Request

LEMMA LockCap ==
  ASSUME TypeInv, CapInv, NEW p \in Procs, TakesLock(p)
  PROVE  Plain(p)
<1>0. /\ task \in [Procs -> Task] /\ task[p] \in Task
      /\ meta \in [Ids -> Meta \cup {NoMeta}]
  BY DEF TypeInv, TypeOK
<1>1. CASE DeleteForget(p)
  <2>1. /\ LockFree /\ Goto(p, "list")
        /\ \A id \in Ids : meta'[id] = NoMeta \/ meta'[id] = meta[id]
    BY <1>0, <1>1 DEF DeleteForget, Forget
  <2> QED
    BY <2>1, TaskPlain DEF WriteChunkPC
<1>2. CASE ReceivedIndices(p)
  <2> DEFINE t == [task[p] EXCEPT !.pc = "sending", !.todo = received[task[p].id]]
  <2>1. task' = [task EXCEPT ![p] = t] /\ t.pc = "sending" /\ UNCHANGED meta
    BY <1>0, <1>2 DEF ReceivedIndices, OnlyTask, memory, Task
  <2> HIDE DEF t
  <2> QED
    BY <2>1, TaskPlain DEF WriteChunkPC
<1>3. CASE TouchAndSend(p)
  <2>1. task[p].id \in LinkIds /\ LockFree
    BY <1>3 DEF TypeInv, LocalOK, TouchAndSend, TouchLink, At
  <2>2. \A id \in Ids : meta'[id] = meta[id] \/ id \in LinkIds
    BY <1>0, <1>3, <2>1 DEF TouchAndSend, TouchLink
  <2>3. Finish(p) \/ Goto(p, "mark")
    BY <1>3 DEF TouchAndSend
  <2> QED
    BY <2>1, <2>2, <2>3, TaskPlain DEF WriteChunkPC
<1>4. CASE WriteLookup(p)
  <2> DEFINE t == [task[p] EXCEPT !.pc = "open", !.held = meta[task[p].id]]
  <2>1. UNCHANGED meta /\ task[p].id \in LinkIds
    BY <1>4 DEF WriteLookup, memory, CapInv, WriteChunkPC, At
  <2>2. Finish(p) \/ task' = [task EXCEPT ![p] = t]
    BY <1>0, <1>4 DEF WriteLookup
  <2>3. t.pc = "open" /\ t.id = task[p].id
    BY <1>0 DEF Task
  <2> HIDE DEF t
  <2> QED
    BY <2>1, <2>2, <2>3, TaskPlain
<1>5. CASE WriteCommit(p)
  <2> DEFINE t == [task[p] EXCEPT !.pc = "persist", !.held = Touch(task[p].held)]
  <2>1. task[p].id \in LinkIds /\ LockFree
    BY <1>5 DEF WriteCommit, CapInv, WriteChunkPC, At
  <2>2. \A id \in Ids : meta'[id] = meta[id] \/ id \in LinkIds
    BY <1>0, <1>5, <2>1 DEF WriteCommit
  <2>3. task' = [task EXCEPT ![p] = t] /\ t.pc = "persist" /\ t.id = task[p].id
    BY <1>0, <1>5 DEF WriteCommit, Task
  <2> HIDE DEF t
  <2> QED
    BY <2>1, <2>2, <2>3, TaskPlain
<1>6. CASE MarkServed(p)
  <2>1. UNCHANGED meta /\ (Finish(p) \/ Goto(p, "forget"))
    BY <1>6 DEF MarkServed
  <2> QED
    BY <2>1, TaskPlain DEF WriteChunkPC
<1> QED
  BY <1>1, <1>2, <1>3, <1>4, <1>5, <1>6 DEF TakesLock

LEMMA NoLockCap ==
  ASSUME IdsApart, TypeInv, TypeInv', CapInv, NEW p \in Procs, NoLock(p)
  PROVE  CapInv'
<1>0. task \in [Procs -> Task] /\ task[p] \in Task
  BY DEF TypeInv, TypeOK
<1>1. CASE BodyLost(p) \/ SendDone(p) \/ CreateFail(p) \/ WritePersist(p)
           \/ WriteFail(p)
  <2>1. Finish(p) /\ UNCHANGED meta
    BY <1>1 DEF BodyLost, SendDone, CreateFail, WritePersist, WriteFail, OnlyTask,
                memory
  <2> QED
    BY <2>1, TaskPlain, PlainCap
<1>2. CASE SendNext(p) \/ ReadForLink(p)
  <2>1. /\ UNCHANGED meta
        /\ \/ Finish(p)
           \/ \E t : /\ task' = [task EXCEPT ![p] = t]
                     /\ t.pc \in {"sending", "send"}
    <3>1. CASE SendNext(p)
      <4>1. PICK i \in task[p].todo :
               IF Stored(task[p].id, i)
               THEN task' = [task EXCEPT ![p].todo = @ \ {i}, ![p].idx = i,
                                         ![p].buf = chunk[task[p].id][i]]
               ELSE Finish(p)
        BY <3>1 DEF SendNext
      <4> DEFINE t == [task[p] EXCEPT !.todo = @ \ {i}, !.idx = i,
                                      !.buf = chunk[task[p].id][i]]
      <4>2. t.pc = "sending"
        BY <1>0, <3>1 DEF Task, SendNext, At
      <4>3. Finish(p) \/ task' = [task EXCEPT ![p] = t]
        BY <1>0, <4>1
      <4> HIDE DEF t
      <4> QED
        BY <3>1, <4>2, <4>3 DEF SendNext, OnlyTask, memory
    <3>2. CASE ReadForLink(p)
      <4> DEFINE t == [task[p] EXCEPT !.pc = "send",
                                      !.buf = chunk[task[p].id][task[p].idx]]
      <4>1. t.pc = "send"
        BY <1>0 DEF Task
      <4>2. Finish(p) \/ task' = [task EXCEPT ![p] = t]
        BY <1>0, <3>2 DEF ReadForLink
      <4> HIDE DEF t
      <4> QED
        BY <3>2, <4>1, <4>2 DEF ReadForLink, OnlyTask, memory
    <3> QED
      BY <1>2, <3>1, <3>2
  <2>2. Plain(p)
    BY <2>1, TaskPlain DEF WriteChunkPC
  <2> QED
    BY <2>2, PlainCap
<1>3. CASE CreateCommit(p)
  BY <1>3, CommitCap
<1>4. CASE WriteOpen(p) \/ WriteData(p)
  <2>1. /\ UNCHANGED meta /\ task[p].pc \in WriteChunkPC
        /\ Finish(p) \/ Goto(p, "data") \/ Goto(p, "commit")
    BY <1>4 DEF WriteOpen, WriteData, At, memory, WriteChunkPC
  <2>2. Plain(p)
    BY <2>1, TaskPlain DEF WriteChunkPC
  <2> QED
    BY <2>2, PlainCap
<1>5. CASE ListDir(p)
  <2> DEFINE t == [task[p] EXCEPT !.pc = "unlink", !.todo = Listing(task[p].id)]
  <2>1. t.pc = "unlink"
    BY <1>0 DEF Task
  <2>2. UNCHANGED meta /\ (Finish(p) \/ task' = [task EXCEPT ![p] = t])
    BY <1>0, <1>5 DEF ListDir, memory
  <2> HIDE DEF t
  <2>3. Plain(p)
    BY <2>1, <2>2, TaskPlain DEF WriteChunkPC
  <2> QED
    BY <2>3, PlainCap
<1>6. CASE Unlink(p)
  <2>1. PICK f \in task[p].todo : task' = [task EXCEPT ![p].todo = @ \ {f}]
    BY <1>6 DEF Unlink
  <2> DEFINE t == [task[p] EXCEPT !.todo = @ \ {f}]
  <2>2. t.pc = "unlink" /\ task' = [task EXCEPT ![p] = t] /\ UNCHANGED meta
    BY <1>0, <1>6, <2>1 DEF Task, Unlink, At, memory
  <2> HIDE DEF t
  <2>3. Plain(p)
    BY <2>2, TaskPlain DEF WriteChunkPC
  <2> QED
    BY <2>3, PlainCap
<1>7. CASE RemoveDir(p)
  <2>1. Finish(p) /\ UNCHANGED meta
    BY <1>7 DEF RemoveDir, memory
  <2> QED
    BY <2>1, TaskPlain, PlainCap
<1> QED
  BY <1>1, <1>2, <1>3, <1>4, <1>5, <1>6, <1>7 DEF NoLock

LEMMA SweepPlain ==
  ASSUME TypeInv, Sweep
  PROVE  Sweeper \in Procs /\ Plain(Sweeper)
<1>0. Sweeper \in Procs
  BY DEF Procs
<1>1. CASE SweepCollect
  <2>1. UNCHANGED <<meta, task>> /\ task[Sweeper].pc = "idle"
    BY <1>1 DEF SweepCollect, memory, At
  <2> QED
    BY <1>0, <2>1 DEF Plain, WriteChunkPC
<1>2. CASE SweepNext
  <2>1. PICK id \in queue : Begin(Sweeper, "sweep", id, 0, "forget")
    BY <1>2 DEF SweepNext
  <2> QED
    BY <1>0, <1>2, <2>1, BeginPlain DEF SweepNext, memory, WriteChunkPC
<1> QED
  BY <1>0, <1>1, <1>2 DEF Sweep

LEMMA InitCap == Init => CapInv
<1> SUFFICES ASSUME Init PROVE CapInv
  OBVIOUS
<1>1. \A p \in Procs : task[p].pc = "idle"
  BY DEF Init, StoreInit, Idle
<1>2. \A k : SentBy(k) = {}
  BY DEF Init, StoreInit, SentBy, Known
<1>3. IsFiniteSet({}) /\ Cardinality({}) <= maxTransfersPerSender
  BY FS_EmptySet, BoundsAssumption
<1> QED
  BY <1>1, <1>2, <1>3 DEF CapInv, SenderCap, At, WriteChunkPC

LEMMA NextCap ==
  ASSUME Settled, TypeInv, TypeInv', CapInv, [Next]_vars
  PROVE  CapInv'
<1>0. IdsApart
  BY DEF Settled
<1>1. ASSUME NEW p \in Handlers, Request(p) PROVE CapInv'
  BY <1>1, RequestCap
<1>2. ASSUME NEW p \in Procs, TakesLock(p) \/ NoLock(p)
      PROVE  CapInv'
  BY <1>0, <1>2, LockCap, NoLockCap, PlainCap
<1>3. CASE Sweep
  BY <1>0, <1>3, SweepPlain, PlainCap
<1>4. CASE TimePasses \/ UNCHANGED vars
  <2>1. UNCHANGED <<meta, task>>
    BY <1>4 DEF TimePasses, Tick, vars, storeVars, memory
  <2>2. \A k : SentBy(k)' = SentBy(k)
    BY <2>1 DEF SentBy, Known
  <2> QED
    BY <2>1, <2>2 DEF CapInv, SenderCap, At, Known, UnderCap
<1>5. ~CrashRestart
  BY DEF Settled, CrashRestart
<1> QED
  BY <1>1, <1>2, <1>3, <1>4, <1>5 DEF Next

-----------------------------------------------------------------------------
(* The limit. *)

\* SenderCap: two start_uploads of one sender cannot both use up its last
\* place, since createTransfer holds s.mu from the count to the new entry.
THEOREM SendersAreCapped ==
  ASSUME Settled
  PROVE  Spec => []SenderCap
<1>1. TypeInv /\ TypeInv' /\ CapInv /\ [Next]_vars => CapInv'
  BY NextCap
<1>2. CapInv => SenderCap
  BY DEF CapInv
<1> QED
  BY <1>1, <1>2, InitCap, TypeInvariance, PTL DEF Spec

-----------------------------------------------------------------------------
(* The files of a transfer.  They are in its directory, a writer that has   *)
(* its file open finds it there, and nothing is left behind that nobody     *)
(* will find; unless a write fails, a torn file has a writer.               *)

\* p is in os.WriteFile and its file can be found.
HasFile(p) == At(p, "data") /\ p \in linked

Writes(p, id, i) == HasFile(p) /\ task[p].id = id /\ task[p].idx = i

DiskInv ==
    /\ \A id \in Ids : Listing(id) # {} => id \in dir
    /\ \A p \in Procs : HasFile(p) => Stored(task[p].id, task[p].idx)
    /\ NoOrphanChunks

TornInv ==
    /\ \A p \in Procs : task[p].pc \in {"lookup", "open", "data"} => p \in Handlers
    /\ ~DiskFull => \A id \in Ids, i \in Index :
                       Torn(id, i) => \E p \in Handlers : Writes(p, id, i)

FilesInv == DiskInv /\ TornInv

\* The steps of p that leave the chunk files alone, and what each of them has
\* to show: whom p was waiting for is served, and p does not lose a file.
LEMMA SameFiles ==
  ASSUME TypeInv, TypeInv', FilesInv, NEW p \in Procs,
         \A q \in Procs \ {p} : task'[q] = task[q],
         UNCHANGED <<chunk, linked>>, dir \subseteq dir',
         \A id \in Ids : metaFile'[id] # NoMeta => metaFile[id] # NoMeta \/ id \in dir,
         \A id \in Ids : Known(id) => Known(id)' \/ \A i \in Index : Awaits(p, id, i)',
         \A id \in Ids, i \in Index :
            Awaits(p, id, i) => \/ Known(id)' \/ Awaits(p, id, i)'
                                \/ chunk[id][i] = "absent",
         ~At(p, "data"), ~At(p, "data")',
         task'[p].pc \in {"lookup", "open"} => p \in Handlers
  PROVE  FilesInv'
<1>1. ASSUME NEW id \in Ids, Listing(id)' # {} PROVE id \in dir'
  <2>1. Listing(id) # {} \/ id \in dir
    BY <1>1 DEF Listing, Files
  <2> QED
    BY <2>1 DEF FilesInv, DiskInv
<1>2. \A q \in Procs : HasFile(q)' => q # p /\ HasFile(q) /\ task'[q] = task[q]
  BY DEF HasFile, At
<1>3. \A q \in Procs : HasFile(q)' => Stored(task[q].id, task[q].idx)'
  BY <1>2 DEF FilesInv, DiskInv, Stored
<1>4. ASSUME NEW id \in Ids, NEW i \in Index, chunk'[id][i] = "whole"
      PROVE  Known(id)' \/ \E q \in Procs : Awaits(q, id, i)'
  <2>1. CASE Known(id)
    BY <2>1
  <2>2. ASSUME NEW q \in Procs, Awaits(q, id, i) 
        PROVE  Known(id)' \/ Awaits(q, id, i)'
    <3>1. CASE q = p
      BY <1>4, <2>2, <3>1
    <3>2. CASE q # p
      BY <2>2, <3>2 DEF Awaits, At
    <3> QED
      BY <3>1, <3>2
  <2> QED
    BY <1>4, <2>1, <2>2 DEF FilesInv, DiskInv, NoOrphanChunks
<1>5. \A q \in Procs : task'[q].pc \in {"lookup", "open", "data"} => q \in Handlers
  BY DEF FilesInv, TornInv, At
<1>6. ASSUME NEW id \in Ids, NEW i \in Index, Torn(id, i)', ~DiskFull
      PROVE  \E q \in Handlers : Writes(q, id, i)'
  <2>1. PICK q \in Handlers : Writes(q, id, i)
    BY <1>6 DEF FilesInv, TornInv, Torn
  <2>2. q # p /\ q \in Procs /\ task'[q] = task[q]
    BY <2>1 DEF Writes, HasFile, Procs
  <2> QED
    BY <2>1, <2>2 DEF Writes, HasFile, At
<1> QED
  BY <1>1, <1>3, <1>4, <1>5, <1>6 DEF FilesInv, DiskInv, TornInv, NoOrphanChunks

\* Of these, the steps of somebody nobody waits for that forget no entry.
LEMMA IdleFiles ==
  ASSUME TypeInv, TypeInv', FilesInv, NEW p \in Procs, NEW t,
         task' = [task EXCEPT ![p] = t],
         UNCHANGED <<chunk, linked>>, dir \subseteq dir',
         \A id \in Ids : metaFile'[id] # NoMeta => metaFile[id] # NoMeta \/ id \in dir,
         \A id \in Ids : Known(id) => Known(id)',
         task[p].pc \notin {"data", "commit", "list", "unlink"},
         t.pc # "data",
         t.pc \in {"lookup", "open"} => p \in Handlers
  PROVE  FilesInv'
<1>1. \A q \in Procs \ {p} : task'[q] = task[q]
  OBVIOUS
<1>2. task'[p] = t
  BY DEF TypeInv, TypeOK
<1>3. \A id, i : ~Awaits(p, id, i)
  BY DEF Awaits, At
<1> QED
  BY <1>1, <1>2, <1>3, SameFiles DEF At

\* A meta.json is written only to a directory that is there.
LEMMA WriteMetaDir ==
  ASSUME TypeInv, NEW x, NEW m, WriteMeta(x, m) \/ WriteMetaFails(x)
  PROVE  \A id \in Ids : metaFile'[id] # NoMeta => metaFile[id] # NoMeta \/ id \in dir
BY DEF WriteMeta, WriteMetaFails, TypeInv, TypeOK

\* The locals of a goroutine that returns or goes on.
LEMMA MovedTask ==
  ASSUME TypeInv, NEW p \in Procs
  PROVE  /\ Finish(p) => \E t : task' = [task EXCEPT ![p] = t] /\ t.pc = "idle"
         /\ \A pc : Goto(p, pc)
                      => \E t : task' = [task EXCEPT ![p] = t] /\ t.pc = pc
<1>1. Idle.pc = "idle"
  BY DEF Idle
<1>2. ASSUME NEW pc, Goto(p, pc)
      PROVE  \E t : task' = [task EXCEPT ![p] = t] /\ t.pc = pc
  <2> DEFINE t == [task[p] EXCEPT !.pc = pc]
  <2>1. t.pc = pc
    BY DEF TypeInv, TypeOK, Task
  <2>2. task' = [task EXCEPT ![p] = t]
    BY <1>2 DEF Goto
  <2> HIDE DEF t
  <2> QED
    BY <2>1, <2>2
<1> QED
  BY <1>1, <1>2 DEF Finish

LEMMA RequestFiles ==
  ASSUME TypeInv, TypeInv', FilesInv, NEW p \in Handlers, Request(p)
  PROVE  FilesInv'
<1>0. p \in Procs
  BY DEF Procs
<1>1. ASSUME NEW op, NEW id \in Ids, NEW m, Create(p, op, id, m)
      PROVE  FilesInv'
  <2> DEFINE t == [Idle EXCEPT !.pc = "create", !.op = op, !.id = id, !.held = m]
  <2>1. /\ t.pc = "create" /\ task' = [task EXCEPT ![p] = t] /\ At(p, "idle")
        /\ UNCHANGED <<meta, chunk, linked, metaFile>> /\ dir \subseteq dir'
    BY <1>1 DEF Create, Idle, memory
  <2> HIDE DEF t
  <2> QED
    BY <1>0, <2>1, IdleFiles DEF At, Known
<1>2. ASSUME NEW op, NEW id, NEW idx, NEW pc, Begin(p, op, id, idx, pc),
             pc # "data", At(p, "idle"), OnlyTask
      PROVE  FilesInv'
  <2> DEFINE t == [Idle EXCEPT !.pc = pc, !.op = op, !.id = id, !.idx = idx]
  <2>1. /\ t.pc = pc /\ task' = [task EXCEPT ![p] = t]
        /\ UNCHANGED <<meta, chunk, linked, metaFile, dir>>
    BY <1>2 DEF Begin, Idle, OnlyTask, memory, disk
  <2> HIDE DEF t
  <2> QED
    BY <1>0, <1>2, <2>1, IdleFiles DEF At, Known
<1>3. ASSUME NEW r \in StartUploads, StartUpload(p, r)
      PROVE  FilesInv'
  <2>1. r.id \in Ids
    BY StartUploadsAssumption DEF Ids
  <2> QED
    BY <1>1, <1>3, <2>1 DEF StartUpload
<1>4. ASSUME NEW id \in LinkIds, handleLinkStart(p, id)
      PROVE  FilesInv'
  BY <1>1, <1>4 DEF handleLinkStart, Ids
<1> QED
  BY <1>2, <1>3, <1>4 DEF Request, Download, Complete, Chunk, handleLinkDelete,
       handleLinkChunkUpload, handleLinkChunkDownload, Arrives

\* The steps that hold s.mu, but for the first of a deletion.
LEMMA LockFiles ==
  ASSUME TypeInv, TypeInv', FilesInv, NEW p \in Procs, TakesLock(p)
  PROVE  FilesInv'
<1>0. /\ task \in [Procs -> Task] /\ task[p] \in Task
      /\ meta \in [Ids -> Meta \cup {NoMeta}]
      /\ task[p].pc # "idle" => task[p].id \in Ids
  BY DEF TypeInv, TypeOK, LocalOK
<1> DEFINE id == task[p].id
<1>1. CASE DeleteForget(p)
  <2>1. /\ At(p, "forget") /\ id \in Ids /\ task' = [task EXCEPT ![p].pc = "list"]
        /\ UNCHANGED disk /\ UNCHANGED linked /\ meta' = [meta EXCEPT ![id] = NoMeta]
    BY <1>0, <1>1 DEF DeleteForget, Forget, Goto, At
  <2>2. /\ \A q \in Procs \ {p} : task'[q] = task[q]
        /\ task'[p].pc = "list" /\ task'[p].id = id
    BY <1>0, <2>1 DEF Task
  <2>3. \A x \in Ids : Known(x) => Known(x)' \/ x = id
    BY <1>0, <2>1 DEF Known
  <2>4. \A i \in Index : Awaits(p, id, i)'
    BY <2>2 DEF Awaits
  <2>5. \A x, i : ~Awaits(p, x, i)
    BY <2>1 DEF Awaits, At
  <2> QED
    BY <2>1, <2>2, <2>3, <2>4, <2>5, SameFiles DEF At, disk
<1>2. CASE ReceivedIndices(p)
  <2> DEFINE t == [task[p] EXCEPT !.pc = "sending", !.todo = received[id]]
  <2>1. /\ t.pc = "sending" /\ task' = [task EXCEPT ![p] = t] /\ At(p, "indices")
        /\ UNCHANGED <<meta, chunk, linked, metaFile, dir>>
    BY <1>0, <1>2 DEF ReceivedIndices, OnlyTask, memory, disk, Task
  <2> HIDE DEF t
  <2> QED
    BY <2>1, IdleFiles DEF At, Known
<1>3. CASE TouchAndSend(p)
  <2>1. PICK t : task' = [task EXCEPT ![p] = t] /\ t.pc \in {"idle", "mark"}
    BY <1>3, MovedTask DEF TouchAndSend
  <2>2. UNCHANGED <<chunk, linked, dir>> /\ At(p, "send") /\ TouchLink(id)
    BY <1>3 DEF TouchAndSend
  <2>3. id \in Ids
    BY <1>0, <2>2 DEF At
  <2>4. \A x \in Ids : Known(x) => Known(x)'
    <3>1. CASE ~Known(id)
      BY <2>2, <3>1 DEF TouchLink, Known
    <3>2. CASE Known(id)
      <4>1. Touch(meta[id]) # NoMeta
        BY <1>0, <2>3, <3>2, TouchProper DEF Known, TypeInv, TypeOK
      <4> QED
        BY <1>0, <2>2, <2>3, <3>2, <4>1 DEF TouchLink, Known
    <3> QED
      BY <3>1, <3>2
  <2>5. \A x \in Ids : metaFile'[x] # NoMeta => metaFile[x] # NoMeta \/ x \in dir
    BY <2>2, WriteMetaDir DEF TouchLink
  <2> QED
    BY <2>1, <2>2, <2>4, <2>5, IdleFiles DEF At
<1>4. CASE WriteLookup(p)
  <2>1. PICK t : task' = [task EXCEPT ![p] = t] /\ t.pc \in {"idle", "open"}
    <3>1. CASE Finish(p)
      BY <3>1, MovedTask
    <3>2. CASE ~Finish(p)
      <4> DEFINE t == [task[p] EXCEPT !.pc = "open", !.held = meta[id]]
      <4>1. t.pc = "open" /\ task' = [task EXCEPT ![p] = t]
        BY <1>0, <1>4, <3>2 DEF Task, WriteLookup
      <4> HIDE DEF t
      <4> QED
        BY <4>1
    <3> QED
      BY <3>1, <3>2
  <2>2. /\ UNCHANGED <<meta, chunk, linked, dir, metaFile>> /\ At(p, "lookup")
        /\ p \in Handlers
    BY <1>4 DEF WriteLookup, memory, disk, FilesInv, TornInv, At
  <2> QED
    BY <2>1, <2>2, IdleFiles DEF At, Known
<1>5. CASE WriteCommit(p)
  <2>1. /\ At(p, "commit") /\ UNCHANGED disk /\ UNCHANGED linked
        /\ id \in Ids /\ meta' = [meta EXCEPT ![id] = Touch(task[p].held)]
    BY <1>0, <1>5 DEF WriteCommit, At
  <2>2. /\ \A q \in Procs \ {p} : task'[q] = task[q]
        /\ task'[p].pc = "persist"
    BY <1>0, <1>5 DEF WriteCommit, Task
  <2>3. Touch(task[p].held) # NoMeta
    <3>1. LocalOK(p, task[p]) /\ clock \in Clock /\ task[p].pc = "commit"
      BY <2>1 DEF At, TypeInv, TypeOK
    <3>2. task[p].held \in Meta
      BY <3>1 DEF LocalOK, Proper
    <3> QED
      BY <2>1, <3>1, <3>2, TouchProper
  <2>4. meta'[id] # NoMeta /\ \A x \in Ids : x # id => meta'[x] = meta[x]
    BY <1>0, <2>1, <2>3
  <2>5. \A x \in Ids : Known(x) => Known(x)'
    BY <2>4 DEF Known
  <2>6. \A x \in Ids, i \in Index : Awaits(p, x, i) => Known(x)'
    BY <2>4 DEF Awaits, Known
  <2>7. UNCHANGED <<chunk, linked, dir, metaFile>>
    BY <2>1 DEF disk
  <2>8. ~At(p, "data") /\ ~At(p, "data")'
    BY <2>1, <2>2 DEF At
  <2> QED
    BY <2>2, <2>5, <2>6, <2>7, <2>8, SameFiles
<1>6. CASE MarkServed(p)
  <2>1. PICK t : task' = [task EXCEPT ![p] = t] /\ t.pc \in {"idle", "forget"}
    BY <1>6, MovedTask DEF MarkServed
  <2>2. UNCHANGED <<meta, chunk, linked, dir, metaFile>> /\ At(p, "mark")
    BY <1>6 DEF MarkServed, disk
  <2> QED
    BY <2>1, <2>2, IdleFiles DEF At, Known
<1> QED
  BY <1>1, <1>2, <1>3, <1>4, <1>5, <1>6 DEF TakesLock

-----------------------------------------------------------------------------
(* os.WriteFile and os.RemoveAll. *)

\* What a step of p leaves to the others: who waits for an entry or a file,
\* or has a file open, still does.
LEMMA OthersFiles ==
  ASSUME NEW p \in Procs, \A q \in Procs \ {p} : task'[q] = task[q],
         linked \ {p} = linked' \ {p}
  PROVE  \A q \in Procs \ {p} :
            /\ HasFile(q)' <=> HasFile(q)
            /\ \A id, i : /\ Awaits(q, id, i)' <=> Awaits(q, id, i)
                          /\ Writes(q, id, i)' <=> Writes(q, id, i)
BY DEF HasFile, Awaits, Writes, At

LEMMA WriterFiles ==
  ASSUME TypeInv, FilesInv, NEW p \in Procs,
         WriteOpen(p) \/ WriteData(p) \/ WriteFail(p)
  PROVE  FilesInv'
<1> DEFINE id == task[p].id
           k  == task[p].idx
<1>0. /\ task \in [Procs -> Task] /\ task[p] \in Task
      /\ chunk \in [Ids -> [Index -> Data]] /\ linked \subseteq Procs
      /\ task[p].pc \in {"open", "data"} /\ p \in Handlers
      /\ id \in Ids /\ k \in Index
  BY WriterIndex DEF TypeInv, TypeOK, WriteOpen, WriteData, WriteFail, At,
                     FilesInv, TornInv
<1>1. /\ \A q \in Procs \ {p} : task'[q] = task[q]
      /\ linked \ {p} = linked' \ {p}
      /\ UNCHANGED <<meta, metaFile, dir>>
  BY <1>0 DEF WriteOpen, WriteData, WriteFail, Goto, Finish, memory, disk
<1>2. \A x, i : ~Awaits(p, x, i)
  BY <1>0 DEF Awaits, At
<1>3. \A q \in Procs : task'[q].pc \in {"lookup", "open", "data"} => q \in Handlers
  BY <1>0, <1>1 DEF FilesInv, TornInv
<1>4. ASSUME NEW x \in Ids, NEW i \in Index, chunk'[x][i] = chunk[x][i],
             chunk[x][i] = "whole"
      PROVE  Known(x)' \/ \E q \in Procs : Awaits(q, x, i)'
  <2>1. Known(x) \/ \E q \in Procs \ {p} : Awaits(q, x, i)
    BY <1>2, <1>4 DEF FilesInv, DiskInv, NoOrphanChunks
  <2> QED
    BY <1>1, <2>1, OthersFiles DEF Known
<1>5. ASSUME NEW x \in Ids, NEW i \in Index, Torn(x, i), ~Writes(p, x, i), ~DiskFull
      PROVE  \E q \in Handlers : Writes(q, x, i)'
  <2>1. PICK q \in Handlers : Writes(q, x, i)
    BY <1>5 DEF FilesInv, TornInv
  <2> QED
    BY <1>1, <1>5, <2>1, OthersFiles DEF Procs
<1>6. CASE WriteOpen(p) /\ id \in dir
  <2>1. /\ chunk' = [chunk EXCEPT ![id][k] = "torn"] /\ p \in linked'
        /\ task'[p].pc = "data" /\ task'[p].id = id /\ task'[p].idx = k
        /\ ~At(p, "data")
    BY <1>0, <1>6 DEF WriteOpen, Goto, At, Task
  <2>2. \A x \in Ids, i \in Index :
           chunk'[x][i] = IF x = id /\ i = k THEN "torn" ELSE chunk[x][i]
    BY <1>0, <2>1
  <2>3. ASSUME NEW x \in Ids, Listing(x)' # {} PROVE x \in dir'
    <3>1. x = id \/ Listing(x) # {}
      BY <1>1, <2>2, <2>3 DEF Listing, Files
    <3> QED
      BY <1>1, <1>6, <3>1 DEF FilesInv, DiskInv
  <2>4. ASSUME NEW q \in Procs, HasFile(q)'
        PROVE  Stored(task[q].id, task[q].idx)'
    <3>1. CASE q = p
      BY <1>0, <2>1, <2>2, <3>1 DEF Stored
    <3>2. CASE q # p
      <4>1. HasFile(q) /\ task'[q] = task[q]
        BY <1>1, <2>4, <3>2, OthersFiles
      <4>2. Stored(task[q].id, task[q].idx) /\ task[q].id \in Ids /\ task[q].idx \in Index
        BY <4>1, WriterIndex DEF FilesInv, DiskInv, HasFile, At
      <4> QED
        BY <2>2, <4>1, <4>2 DEF Stored
    <3> QED
      BY <3>1, <3>2
  <2>5. NoOrphanChunks'
    BY <1>4, <2>2 DEF NoOrphanChunks
  <2>6. ASSUME NEW x \in Ids, NEW i \in Index, Torn(x, i)', ~DiskFull
        PROVE  \E q \in Handlers : Writes(q, x, i)'
    <3>1. CASE x = id /\ i = k
      BY <1>0, <2>1, <3>1 DEF Writes, HasFile, At
    <3>2. CASE ~(x = id /\ i = k)
      <4>1. Torn(x, i) /\ ~Writes(p, x, i)
        BY <2>1, <2>2, <2>6, <3>2 DEF Torn, Writes, HasFile
      <4> QED
        BY <1>5, <2>6, <4>1
    <3> QED
      BY <3>1, <3>2
  <2> QED
    BY <1>3, <2>3, <2>4, <2>5, <2>6 DEF FilesInv, DiskInv, TornInv
<1>7. CASE (WriteOpen(p) /\ id \notin dir) \/ WriteFail(p)
  <2>1. UNCHANGED chunk /\ ~At(p, "data")'
    BY <1>0, <1>7 DEF WriteOpen, WriteFail, Finish, Idle, disk, At
  <2>2. \A x \in Ids : Listing(x)' # {} => x \in dir'
    BY <1>1, <2>1 DEF Listing, Files, FilesInv, DiskInv
  <2>3. \A q \in Procs : HasFile(q)' => Stored(task[q].id, task[q].idx)'
    <3>1. \A q \in Procs : HasFile(q)' => q # p
      BY <2>1 DEF HasFile
    <3> QED
      BY <1>1, <2>1, <3>1, OthersFiles DEF FilesInv, DiskInv, Stored
  <2>4. NoOrphanChunks'
    BY <1>4, <2>1 DEF NoOrphanChunks
  <2>5. ASSUME NEW x \in Ids, NEW i \in Index, Torn(x, i)', ~DiskFull
        PROVE  \E q \in Handlers : Writes(q, x, i)'
    <3>1. Torn(x, i) /\ ~Writes(p, x, i)
      BY <1>7, <2>1, <2>5 DEF Torn, Writes, HasFile, At, WriteOpen, WriteFail
    <3> QED
      BY <1>5, <2>5, <3>1
  <2> QED
    BY <1>3, <2>2, <2>3, <2>4, <2>5 DEF FilesInv, DiskInv, TornInv
<1>8. CASE WriteData(p)
  <2>1. /\ chunk' = IF p \in linked THEN [chunk EXCEPT ![id][k] = "whole"] ELSE chunk
        /\ task'[p].pc = "commit" /\ task'[p].id = id /\ At(p, "data")
    BY <1>0, <1>8 DEF WriteData, Goto, At, Task
  <2>2. /\ \A x \in Ids, i \in Index :
              \/ chunk'[x][i] = chunk[x][i]
              \/ x = id /\ i = k /\ p \in linked /\ chunk'[x][i] = "whole"
        /\ p \in linked => chunk'[id][k] = "whole"
    BY <1>0, <2>1
  <2>3. p \in linked => chunk[id][k] # "absent"
    BY <2>1 DEF FilesInv, DiskInv, HasFile, Stored
  <2>4. ASSUME NEW x \in Ids, Listing(x)' # {} PROVE x \in dir'
    <3>1. Listing(x)' = Listing(x)
      BY <1>1, <2>2, <2>3 DEF Listing, Files
    <3> QED
      BY <1>1, <2>4, <3>1 DEF FilesInv, DiskInv
  <2>5. ASSUME NEW q \in Procs, HasFile(q)'
        PROVE  Stored(task[q].id, task[q].idx)'
    <3>1. q # p
      BY <2>1, <2>5 DEF HasFile, At
    <3>2. HasFile(q) /\ task'[q] = task[q]
      BY <1>1, <2>5, <3>1, OthersFiles
    <3>3. Stored(task[q].id, task[q].idx) /\ task[q].id \in Ids /\ task[q].idx \in Index
      BY <3>2, WriterIndex DEF FilesInv, DiskInv, HasFile, At
    <3> QED
      BY <2>2, <3>2, <3>3 DEF Stored
  <2>6. ASSUME NEW x \in Ids, NEW i \in Index, chunk'[x][i] = "whole"
        PROVE  Known(x)' \/ \E q \in Procs : Awaits(q, x, i)'
    <3>1. CASE x = id
      <4>1. Awaits(p, x, i)'
        BY <2>1, <3>1 DEF Awaits
      <4> QED
        BY <4>1
    <3>2. CASE x # id
      BY <1>4, <2>2, <2>6, <3>2
    <3> QED
      BY <3>1, <3>2
  <2>7. ASSUME NEW x \in Ids, NEW i \in Index, Torn(x, i)', ~DiskFull
        PROVE  \E q \in Handlers : Writes(q, x, i)'
    <3>1. Torn(x, i) /\ ~Writes(p, x, i)
      BY <2>2, <2>7 DEF Torn, Writes, HasFile
    <3> QED
      BY <1>5, <2>7, <3>1
  <2> QED
    BY <1>3, <2>4, <2>5, <2>6, <2>7 DEF FilesInv, DiskInv, TornInv, NoOrphanChunks
<1> QED
  BY <1>6, <1>7, <1>8

\* The names read from the directory are all that is there; without a
\* directory nothing is.
LEMMA ListFiles ==
  ASSUME TypeInv, FilesInv, NEW p \in Procs, ListDir(p)
  PROVE  FilesInv'
<1> DEFINE id == task[p].id
<1>0. /\ task \in [Procs -> Task] /\ task[p] \in Task /\ linked \subseteq Procs
      /\ id \in Ids /\ task[p].pc = "list"
  BY DEF TypeInv, TypeOK, LocalOK, ListDir, At
<1>1. /\ \A q \in Procs \ {p} : task'[q] = task[q]
      /\ linked \ {p} = linked' \ {p}
      /\ UNCHANGED <<meta, metaFile, dir, chunk>>
      /\ task'[p].pc \in {"idle", "unlink"}
  BY <1>0 DEF ListDir, Finish, Idle, memory, disk, Task
<1>2. \A x \in Ids : Listing(x)' # {} => x \in dir'
  BY <1>1 DEF Listing, Files, FilesInv, DiskInv
<1>3. \A q \in Procs : HasFile(q)' => q # p
  BY <1>1 DEF HasFile, At
<1>4. \A q \in Procs : HasFile(q)' => Stored(task[q].id, task[q].idx)'
  BY <1>1, <1>3, OthersFiles DEF FilesInv, DiskInv, Stored
<1>5. ASSUME NEW x \in Ids, NEW i \in Index, chunk'[x][i] = "whole"
      PROVE  Known(x)' \/ \E q \in Procs : Awaits(q, x, i)'
  <2>1. Known(x) \/ \E q \in Procs : Awaits(q, x, i)
    BY <1>1, <1>5 DEF FilesInv, DiskInv, NoOrphanChunks
  <2>2. CASE Awaits(p, x, i)
    <3>1. x = id /\ i \in Listing(id)
      BY <1>1, <1>5, <2>2 DEF Awaits, Listing, Files
    <3>2. id \in dir
      BY <1>0, <3>1 DEF FilesInv, DiskInv
    <3>3. /\ p \in linked' /\ task'[p].pc = "unlink" /\ task'[p].id = id
          /\ i \in task'[p].todo
      BY <1>0, <3>1, <3>2 DEF ListDir, Task
    <3>4. Awaits(p, x, i)'
      BY <3>1, <3>3 DEF Awaits, At
    <3> QED
      BY <3>4
  <2> QED
    BY <1>1, <2>1, <2>2, OthersFiles DEF Known
<1>6. \A q \in Procs : task'[q].pc \in {"lookup", "open", "data"} => q \in Handlers
  BY <1>1 DEF FilesInv, TornInv
<1>7. ASSUME NEW x \in Ids, NEW i \in Index, Torn(x, i)', ~DiskFull
      PROVE  \E q \in Handlers : Writes(q, x, i)'
  <2>1. PICK q \in Handlers : Writes(q, x, i)
    BY <1>1, <1>7 DEF FilesInv, TornInv, Torn
  <2>2. q \in Procs /\ q # p
    BY <1>0, <2>1 DEF Writes, HasFile, At, Procs
  <2> QED
    BY <1>1, <2>1, <2>2, OthersFiles
<1> QED
  BY <1>2, <1>4, <1>5, <1>6, <1>7 DEF FilesInv, DiskInv, TornInv, NoOrphanChunks

\* A file leaves the directory together with the writers that have it open.
LEMMA UnlinkFiles ==
  ASSUME TypeInv, TypeInv', FilesInv, NEW p \in Procs, Unlink(p)
  PROVE  FilesInv'
<1> DEFINE id == task[p].id
<1>0. /\ task \in [Procs -> Task] /\ task[p] \in Task /\ linked \subseteq Procs
      /\ chunk \in [Ids -> [Index -> Data]] /\ id \in Ids /\ task[p].pc = "unlink"
  BY DEF TypeInv, TypeOK, LocalOK, Unlink, At
<1>1. PICK f \in task[p].todo :
        /\ task' = [task EXCEPT ![p].todo = @ \ {f}]
        /\ IF p \notin linked
           THEN UNCHANGED <<metaFile, chunk, linked>>
           ELSE IF f = MetaJson
           THEN metaFile' = [metaFile EXCEPT ![id] = NoMeta] /\ UNCHANGED <<chunk, linked>>
           ELSE /\ chunk' = [chunk EXCEPT ![id][f] = "absent"]
                /\ linked' = linked \ {q \in Procs : /\ At(q, "data")
                                                     /\ task[q].id = id
                                                     /\ task[q].idx = f}
                /\ UNCHANGED metaFile
  BY DEF Unlink
<1>2. /\ \A q \in Procs \ {p} : task'[q] = task[q]
      /\ task'[p].pc = "unlink" /\ task'[p].id = id /\ task'[p].todo = task[p].todo \ {f}
      /\ UNCHANGED <<meta, dir>>
  BY <1>0, <1>1 DEF Task, Unlink, memory
<1>3. f \in Index \/ f = MetaJson
  BY <1>0, <1>1 DEF Task, Names
<1>4. MetaJson \notin Index
  BY BoundsAssumption DEF MetaJson, Index
<1>5. CASE p \notin linked \/ f = MetaJson
  <2>1. UNCHANGED <<chunk, linked>>
    BY <1>1, <1>5
  <2>2. \A x \in Ids : metaFile'[x] # NoMeta => metaFile[x] # NoMeta
    BY <1>0, <1>1, <1>5 DEF TypeInv, TypeOK
  <2>3. \A x \in Ids, i \in Index : Awaits(p, x, i) => Awaits(p, x, i)'
    BY <1>0, <1>2, <1>4, <1>5, <2>1 DEF Awaits, At
  <2> QED
    BY <1>0, <1>2, <2>1, <2>2, <2>3, SameFiles DEF At, Known
<1>6. CASE p \in linked /\ f \in Index
  <2>1. /\ chunk' = [chunk EXCEPT ![id][f] = "absent"]
        /\ linked' = linked \ {q \in Procs : Writes(q, id, f)}
        /\ UNCHANGED metaFile
    BY <1>1, <1>4, <1>6 DEF Writes, HasFile
  <2>2. \A x \in Ids, i \in Index :
           chunk'[x][i] = IF x = id /\ i = f THEN "absent" ELSE chunk[x][i]
    BY <1>0, <1>6, <2>1
  <2>3. \A x \in Ids : Listing(x)' # {} => x \in dir'
    <3>1. \A x \in Ids : Listing(x)' \subseteq Listing(x)
      BY <2>1, <2>2 DEF Listing, Files
    <3> QED
      BY <1>2, <3>1 DEF FilesInv, DiskInv
  <2>4. ASSUME NEW q \in Procs, HasFile(q)'
        PROVE  HasFile(q) /\ task'[q] = task[q] /\ ~Writes(q, id, f)
    BY <1>2, <2>1, <2>4 DEF HasFile, At
  <2>5. ASSUME NEW q \in Procs, HasFile(q)'
        PROVE  Stored(task[q].id, task[q].idx)'
    <3>1. Stored(task[q].id, task[q].idx) /\ task[q].id \in Ids /\ task[q].idx \in Index
      BY <2>4, <2>5, WriterIndex DEF FilesInv, DiskInv, HasFile, At
    <3> QED
      BY <2>2, <2>4, <2>5, <3>1 DEF Stored, Writes
  <2>6. ASSUME NEW q \in Procs, NEW x \in Ids, NEW i \in Index, Awaits(q, x, i),
               ~(x = id /\ i = f)
        PROVE  Awaits(q, x, i)'
    <3>1. q \in linked /\ At(q, "unlink") => q \in linked'
      BY <2>1 DEF Writes, HasFile, At
    <3>2. CASE q = p
      BY <1>0, <1>2, <2>6, <3>1, <3>2 DEF Awaits, At
    <3>3. CASE q # p
      BY <1>2, <2>6, <3>1, <3>3 DEF Awaits, At
    <3> QED
      BY <3>2, <3>3
  <2>7. ASSUME NEW x \in Ids, NEW i \in Index, chunk'[x][i] = "whole"
        PROVE  Known(x)' \/ \E q \in Procs : Awaits(q, x, i)'
    <3>1. chunk[x][i] = "whole" /\ ~(x = id /\ i = f)
      BY <2>2, <2>7
    <3>2. Known(x) \/ \E q \in Procs : Awaits(q, x, i)
      BY <3>1 DEF FilesInv, DiskInv, NoOrphanChunks
    <3> QED
      BY <1>2, <2>6, <3>1, <3>2 DEF Known
  <2>8. \A q \in Procs : task'[q].pc \in {"lookup", "open", "data"} => q \in Handlers
    BY <1>2 DEF FilesInv, TornInv
  <2>9. ASSUME NEW x \in Ids, NEW i \in Index, Torn(x, i)', ~DiskFull
        PROVE  \E q \in Handlers : Writes(q, x, i)'
    <3>1. Torn(x, i) /\ ~(x = id /\ i = f)
      BY <2>2, <2>9 DEF Torn
    <3>2. PICK q \in Handlers : Writes(q, x, i)
      BY <2>9, <3>1 DEF FilesInv, TornInv
    <3>3. q \in Procs /\ q # p /\ q \in linked'
      BY <1>0, <2>1, <3>1, <3>2 DEF Writes, HasFile, At, Procs
    <3> QED
      BY <1>2, <3>2, <3>3 DEF Writes, HasFile, At
  <2> QED
    BY <2>3, <2>5, <2>7, <2>8, <2>9 DEF FilesInv, DiskInv, TornInv, NoOrphanChunks
<1> QED
  BY <1>3, <1>5, <1>6

\* An empty directory goes, and nobody waited for a file in it.
LEMMA RemoveDirFiles ==
  ASSUME TypeInv, FilesInv, NEW p \in Procs, RemoveDir(p)
  PROVE  FilesInv'
<1> DEFINE id == task[p].id
<1>0. /\ task \in [Procs -> Task] /\ linked \subseteq Procs
      /\ id \in Ids /\ task[p].pc = "unlink" /\ task[p].todo = {}
  BY DEF TypeInv, TypeOK, LocalOK, RemoveDir, At
<1>1. /\ \A q \in Procs \ {p} : task'[q] = task[q]
      /\ task'[p].pc = "idle"
      /\ UNCHANGED <<meta, metaFile, chunk>>
  BY <1>0 DEF RemoveDir, Finish, Idle, memory
<1>2. \A x, i : ~Awaits(p, x, i) /\ ~Writes(p, x, i)
  BY <1>0 DEF Awaits, Writes, HasFile, At
<1>3. \/ /\ Listing(id) = {} /\ dir' = dir \ {id}
         /\ linked' = linked \ {q \in Procs : task[q].id = id}
      \/ UNCHANGED dir /\ linked' = linked \ {p}
  BY DEF RemoveDir
<1>4. \A x \in Ids : Listing(x)' = Listing(x)
  BY <1>1 DEF Listing, Files
<1>5. \A x \in Ids : Listing(x)' # {} => x \in dir'
  BY <1>3, <1>4 DEF FilesInv, DiskInv
<1>6. ASSUME NEW q \in Procs, HasFile(q)'
      PROVE  Stored(task[q].id, task[q].idx)'
  <2>1. q # p
    BY <1>1, <1>6 DEF HasFile, At
  <2>2. HasFile(q) /\ task'[q] = task[q]
    BY <1>1, <1>3, <1>6, <2>1 DEF HasFile, At
  <2> QED
    BY <1>1, <2>2 DEF FilesInv, DiskInv, Stored
<1>7. ASSUME NEW q \in Procs \ {p}, NEW x \in Ids, NEW i \in Index, Stored(x, i)
      PROVE  /\ Awaits(q, x, i) => Awaits(q, x, i)'
             /\ Writes(q, x, i) => Writes(q, x, i)'
  <2>1. i \in Listing(x)
    BY <1>7 DEF Listing, Files, Stored
  <2>2. task[q].id = x => (q \in linked => q \in linked')
    BY <1>3, <2>1
  <2> QED
    BY <1>1, <2>2 DEF Awaits, Writes, HasFile, At
<1>8. ASSUME NEW x \in Ids, NEW i \in Index, chunk'[x][i] = "whole"
      PROVE  Known(x)' \/ \E q \in Procs : Awaits(q, x, i)'
  <2>1. Known(x) \/ \E q \in Procs \ {p} : Awaits(q, x, i)
    BY <1>1, <1>2, <1>8 DEF FilesInv, DiskInv, NoOrphanChunks
  <2> QED
    BY <1>1, <1>7, <1>8, <2>1 DEF Known, Stored
<1>9. \A q \in Procs : task'[q].pc \in {"lookup", "open", "data"} => q \in Handlers
  BY <1>1 DEF FilesInv, TornInv
<1>10. ASSUME NEW x \in Ids, NEW i \in Index, Torn(x, i)', ~DiskFull
       PROVE  \E q \in Handlers : Writes(q, x, i)'
  <2>1. PICK q \in Handlers : Writes(q, x, i)
    BY <1>1, <1>10 DEF FilesInv, TornInv, Torn
  <2>2. q \in Procs \ {p} /\ Stored(x, i)
    BY <1>1, <1>2, <1>10, <2>1 DEF Procs, Torn, Stored
  <2> QED
    BY <1>7, <2>1, <2>2
<1> QED
  BY <1>5, <1>6, <1>8, <1>9, <1>10 DEF FilesInv, DiskInv, TornInv, NoOrphanChunks

LEMMA NoLockFiles ==
  ASSUME TypeInv, TypeInv', FilesInv, NEW p \in Procs, NoLock(p)
  PROVE  FilesInv'
<1>0. /\ task \in [Procs -> Task] /\ task[p] \in Task
      /\ task[p].pc # "idle" => task[p].id \in Ids
  BY DEF TypeInv, TypeOK, LocalOK
<1> DEFINE id == task[p].id
<1>1. CASE BodyLost(p) \/ SendDone(p)
  BY <1>1, MovedTask, IdleFiles DEF BodyLost, SendDone, OnlyTask, memory, disk, At, Known
<1>2. CASE SendNext(p)
  <2>1. PICK t : task' = [task EXCEPT ![p] = t] /\ t.pc \in {"idle", "sending"}
    <3>1. CASE Finish(p)
      BY <3>1, MovedTask
    <3>2. ASSUME ~Finish(p)
          PROVE  \E t : task' = [task EXCEPT ![p] = t] /\ t.pc \in {"idle", "sending"}
      <4>1. PICK i \in task[p].todo :
              task' = [task EXCEPT ![p].todo = @ \ {i}, ![p].idx = i,
                                   ![p].buf = chunk[id][i]]
        BY <1>2, <3>2 DEF SendNext
      <4> DEFINE t == [task[p] EXCEPT !.todo = @ \ {i}, !.idx = i, !.buf = chunk[id][i]]
      <4>2. t.pc = "sending"
        BY <1>0, <1>2 DEF SendNext, At, Task
      <4>3. task' = [task EXCEPT ![p] = t]
        BY <1>0, <4>1 DEF Task
      <4> HIDE DEF t
      <4> QED
        BY <4>2, <4>3
    <3> QED
      BY <3>1, <3>2
  <2>2. UNCHANGED <<meta, chunk, linked, metaFile, dir>> /\ At(p, "sending")
    BY <1>2 DEF SendNext, OnlyTask, memory, disk
  <2> QED
    BY <2>1, <2>2, IdleFiles DEF At, Known
<1>3. CASE ReadForLink(p)
  <2>1. PICK t : task' = [task EXCEPT ![p] = t] /\ t.pc \in {"idle", "send"}
    <3>1. CASE Finish(p)
      BY <3>1, MovedTask
    <3>2. CASE ~Finish(p)
      <4> DEFINE t == [task[p] EXCEPT !.pc = "send", !.buf = chunk[id][task[p].idx]]
      <4>1. t.pc = "send" /\ task' = [task EXCEPT ![p] = t]
        BY <1>0, <1>3, <3>2 DEF Task, ReadForLink
      <4> HIDE DEF t
      <4> QED
        BY <4>1
    <3> QED
      BY <3>1, <3>2
  <2>2. UNCHANGED <<meta, chunk, linked, metaFile, dir>> /\ At(p, "read")
    BY <1>3 DEF ReadForLink, OnlyTask, memory, disk
  <2> QED
    BY <2>1, <2>2, IdleFiles DEF At, Known
<1>4. CASE CreateCommit(p)
  <2>1. /\ At(p, "create") /\ WriteMeta(id, task[p].held) /\ Finish(p)
        /\ UNCHANGED <<chunk, linked, dir>>
        /\ meta' = [meta EXCEPT ![id] = task[p].held]
    BY <1>4 DEF CreateCommit
  <2>2. task[p].held # NoMeta
    BY <2>1, EntryIsNotNoMeta DEF At, TypeInv, TypeOK, LocalOK, Proper
  <2>3. \A x \in Ids : Known(x) => Known(x)'
    BY <2>1, <2>2 DEF Known, TypeInv, TypeOK
  <2>4. \A x \in Ids : metaFile'[x] # NoMeta => metaFile[x] # NoMeta \/ x \in dir
    BY <2>1, WriteMetaDir
  <2>5. PICK t : task' = [task EXCEPT ![p] = t] /\ t.pc = "idle"
    BY <2>1, MovedTask
  <2> QED
    BY <2>1, <2>3, <2>4, <2>5, IdleFiles DEF At
<1>5. CASE CreateFail(p) \/ WritePersist(p)
  <2>1. /\ Finish(p) /\ UNCHANGED <<meta, chunk, linked, dir>>
        /\ task[p].pc \in {"create", "persist"}
        /\ \E m : WriteMeta(id, m) \/ WriteMetaFails(id)
    BY <1>5 DEF CreateFail, WritePersist, memory, At
  <2>2. \A x \in Ids : metaFile'[x] # NoMeta => metaFile[x] # NoMeta \/ x \in dir
    BY <2>1, WriteMetaDir
  <2>3. PICK t : task' = [task EXCEPT ![p] = t] /\ t.pc = "idle"
    BY <2>1, MovedTask
  <2> QED
    BY <2>1, <2>2, <2>3, IdleFiles DEF Known
<1> QED
  BY <1>1, <1>2, <1>3, <1>4, <1>5, WriterFiles, ListFiles, UnlinkFiles,
     RemoveDirFiles DEF NoLock

LEMMA SweepFiles ==
  ASSUME TypeInv, TypeInv', FilesInv, Sweep
  PROVE  FilesInv'
<1>1. Sweeper \in Procs
  BY DEF Procs
<1>2. UNCHANGED <<meta, chunk, linked, metaFile, dir>> /\ At(Sweeper, "idle")
  BY DEF Sweep, SweepCollect, SweepNext, memory, disk
<1>3. \E t : task' = [task EXCEPT ![Sweeper] = t] /\ t.pc \in {"idle", "forget"}
  <2>1. CASE SweepCollect
    <3> DEFINE t == task[Sweeper]
    <3>1. t.pc = "idle" /\ task' = [task EXCEPT ![Sweeper] = t]
      BY <1>1, <2>1 DEF SweepCollect, At, TypeInv, TypeOK
    <3> HIDE DEF t
    <3> QED
      BY <3>1
  <2>2. ASSUME SweepNext
        PROVE  \E t : task' = [task EXCEPT ![Sweeper] = t] /\ t.pc \in {"idle", "forget"}
    <3>1. PICK id \in queue : Begin(Sweeper, "sweep", id, 0, "forget")
      BY <2>2 DEF SweepNext
    <3> DEFINE t == [Idle EXCEPT !.pc = "forget", !.op = "sweep", !.id = id, !.idx = 0]
    <3>2. t.pc = "forget" /\ task' = [task EXCEPT ![Sweeper] = t]
      BY <3>1 DEF Begin, Idle
    <3> HIDE DEF t
    <3> QED
      BY <3>2
  <2> QED
    BY <2>1, <2>2 DEF Sweep
<1> QED
  BY <1>1, <1>2, <1>3, IdleFiles DEF At, Known

LEMMA InitFiles == Init => FilesInv
<1> SUFFICES ASSUME Init PROVE FilesInv
  OBVIOUS
<1>1. \A id \in Ids : Listing(id) = {}
  BY DEF Init, StoreInit, Listing, Files
<1>2. \A p \in Procs : task[p].pc = "idle"
  BY DEF Init, StoreInit, Idle
<1>3. \A id \in Ids, i \in Index : chunk[id][i] = "absent"
  BY DEF Init, StoreInit
<1> QED
  BY <1>1, <1>2, <1>3 DEF FilesInv, DiskInv, TornInv, NoOrphanChunks, HasFile, At, Torn

LEMMA NextFiles ==
  ASSUME ~Crashes, TypeInv, TypeInv', FilesInv, [Next]_vars
  PROVE  FilesInv'
<1>1. CASE TimePasses \/ UNCHANGED vars
  <2>1. UNCHANGED <<meta, chunk, linked, metaFile, dir, task>>
    BY <1>1 DEF TimePasses, Tick, vars, storeVars, memory, disk
  <2> QED
    BY <2>1 DEF FilesInv, DiskInv, TornInv, NoOrphanChunks, Awaits, HasFile, Writes,
                Torn, Stored, Listing, Files, Known, At
<1> QED
  BY <1>1, RequestFiles, LockFiles, NoLockFiles, SweepFiles DEF Next, CrashRestart

LEMMA FilesInvariance ==
  ASSUME ~Crashes
  PROVE  Spec => []FilesInv
<1>1. TypeInv /\ TypeInv' /\ FilesInv /\ [Next]_vars => FilesInv'
  BY NextFiles
<1> QED
  BY <1>1, InitFiles, TypeInvariance, PTL DEF Spec

\* While the process runs, every stored chunk belongs to a transfer the sweep
\* will find, or somebody is about to remove it or to publish its transfer
\* again (writeChunk, deleteTransfer).
THEOREM NoChunkIsOrphaned ==
  ASSUME ~Crashes
  PROVE  Spec => []NoOrphanChunks
<1>1. FilesInv => NoOrphanChunks
  BY DEF FilesInv, DiskInv
<1> QED
  BY <1>1, FilesInvariance, PTL

\* What loadExisting counts as received, and what status_result lists, is a
\* whole chunk unless writeChunk is rewriting it: a torn file takes a write
\* that fails halfway (the finding of torn_chunk), or a crash.
THEOREM ReceivedChunksAreWhole ==
  ASSUME ~Crashes, ~DiskFull
  PROVE  Spec => []ReceivedIsWhole
<1>1. TypeInv /\ FilesInv => ReceivedIsWhole
  <2> SUFFICES ASSUME TypeInv, FilesInv, NEW id \in Ids, NEW i \in received[id], Torn(id, i)
               PROVE  \E p \in Handlers : /\ At(p, "data")
                                          /\ task[p].id = id
                                          /\ task[p].idx = i
    BY DEF ReceivedIsWhole, Torn
  <2>1. i \in Index
    BY DEF TypeInv, TypeOK
  <2> QED
    BY <2>1 DEF FilesInv, TornInv, Writes, HasFile
<1> QED
  BY <1>1, FilesInvariance, TypeInvariance, PTL

=============================================================================
