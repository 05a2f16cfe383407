---------------------------- MODULE IntactProofs ----------------------------
(***************************************************************************)
(* Proof that no downloader of a link is sent a half-written chunk,        *)
(* although readChunk takes no lock and writeChunk rewrites the file in    *)
(* place: for any number of handlers, links and chunks, with deletions,    *)
(* the sweep and failing writes, as long as the process lives, uploaders   *)
(* hand out a link when its upload is complete, and nobody else takes its  *)
(* id for a transfer (Shared).                                             *)
(*                                                                         *)
(* IntactInv says that one writeChunk at most is at work on a chunk of a   *)
(* link, that an index in the received set names a file that is not torn,  *)
(* and that none of the files of a link in use is.                         *)
(***************************************************************************)
EXTENDS PromiseProofs

LinkWriter(p) == task[p].id \in LinkIds /\ task[p].pc \in WritePC

SameChunk(p, q) == task[p].id = task[q].id /\ task[p].idx = task[q].idx

\* A writer that has lost its file, or is done with it, leaves none torn.
WriterOK(p) ==
    /\ task[p].idx \notin received[task[p].id]
    /\ task[p].pc = "commit" \/ (task[p].pc = "data" /\ p \notin linked)
         => ~Torn(task[p].id, task[p].idx)

FilesOK(id) ==
    /\ \A i \in received[id] : ~Torn(id, i)
    /\ InUse(id) => \A i \in Chunks(LinkStart[id]) : ~Torn(id, i)

IntactInv ==
    /\ \A p, q \in Procs :
          LinkWriter(p) /\ LinkWriter(q) /\ SameChunk(p, q) => p = q
    /\ \A p \in Procs : LinkWriter(p) => WriterOK(p)
    /\ \A id \in LinkIds : FilesOK(id)
    /\ DeliveredIntact

\* A step that neither starts nor resumes a writeChunk of a link, tears no
\* file, receives no index and reads no torn file.
Calm(p) ==
    /\ \A q \in Procs \ {p} : task'[q] = task[q]
    /\ ~LinkWriter(p)'
    /\ task'[p].op = "link_get" => task'[p].buf # "torn"
    /\ \A id \in LinkIds :
          /\ InUse(id)' => InUse(id)
          /\ received'[id] \subseteq received[id]
          /\ \A i \in Index : Torn(id, i)' => Torn(id, i)
    /\ \A q \in Procs \ {p} :
          LinkWriter(q) /\ task[q].pc = "data" /\ q \in linked
            => q \in linked' \/ ~Torn(task[q].id, task[q].idx)'

LEMMA LinkChunks == \A id \in LinkIds : Chunks(LinkStart[id]) \subseteq Index
BY LinkStartAssumption, BoundsAssumption DEF Chunks, Index

LEMMA CalmStep ==
  ASSUME TypeInv, IntactInv, NEW p \in Procs, Calm(p)
  PROVE  IntactInv'
<1>1. \A q \in Procs : LinkWriter(q)' => q # p /\ LinkWriter(q) /\ task'[q] = task[q]
  BY DEF Calm, LinkWriter
<1>2. ASSUME NEW q \in Procs, NEW r \in Procs, LinkWriter(q)', LinkWriter(r)',
             SameChunk(q, r)'
      PROVE  q = r
  BY <1>1, <1>2 DEF IntactInv, SameChunk
<1>3. ASSUME NEW q \in Procs, LinkWriter(q)' PROVE WriterOK(q)'
  <2>1. /\ q # p /\ LinkWriter(q) /\ task'[q] = task[q] /\ WriterOK(q)
        /\ task[q].id \in LinkIds
    BY <1>1, <1>3 DEF IntactInv, LinkWriter
  <2>2. task'[q].idx \notin received'[task'[q].id]
    BY <2>1 DEF WriterOK, Calm
  <2>3. ASSUME task[q].pc = "commit" \/ (task[q].pc = "data" /\ q \notin linked')
        PROVE  ~Torn(task[q].id, task[q].idx)'
    <3>1. PICK id \in LinkIds, i \in Index : id = task[q].id /\ i = task[q].idx
      BY <2>1, <2>3, WriterIndex
    <3>2. Torn(id, i)' => Torn(id, i)
      BY DEF Calm
    <3>3. CASE Torn(id, i)
      <4>1. task[q].pc = "data" /\ q \in linked /\ q \notin linked'
        BY <2>1, <2>3, <3>1, <3>3 DEF WriterOK, Torn
      <4> QED
        BY <2>1, <4>1 DEF Calm
    <3> QED
      BY <2>1, <3>1, <3>2, <3>3
  <2> QED
    BY <2>1, <2>2, <2>3 DEF WriterOK
<1>4. ASSUME NEW id \in LinkIds PROVE FilesOK(id)'
  <2>1. received[id] \subseteq Index
    BY DEF TypeInv, TypeOK, Ids
  <2>2. FilesOK(id)
    BY DEF IntactInv
  <2> QED
    BY <2>1, <2>2, LinkChunks DEF Calm, FilesOK
<1>5. DeliveredIntact'
  BY DEF IntactInv, DeliveredIntact, Calm, Procs
<1> QED
  BY <1>2, <1>3, <1>4, <1>5 DEF IntactInv

\* p moves on, and the files of links stay as they are.
LEMMA CalmMove ==
  ASSUME TypeInv, IntactInv, NEW p \in Procs,
         \A q \in Procs \ {p} : task'[q] = task[q],
         task'[p].pc \notin WritePC \/ task'[p].id \notin LinkIds,
         task'[p].op = "link_get" => /\ task[p].op = "link_get"
                                     /\ task'[p].id = task[p].id
                                     /\ task'[p].buf # "torn",
         UNCHANGED <<received, chunk, burned>>,
         linked \ {p} \subseteq linked'
  PROVE  IntactInv'
<1>1. \A id \in LinkIds : InUse(id)' => InUse(id)
  BY DEF InUse, Procs
<1>2. Calm(p)
  BY <1>1 DEF Calm, LinkWriter, Torn
<1> QED
  BY <1>2, CalmStep

\* p goes on with its writeChunk, which may tear its own file only.
LEMMA WriterStep ==
  ASSUME TypeInv, IntactInv, NEW p \in Procs, LinkWriter(p),
         NEW id \in LinkIds, NEW i \in Int, id = task[p].id, i = task[p].idx,
         \A q \in Procs \ {p} : task'[q] = task[q],
         task'[p].pc \in WritePC, task'[p].op # "link_get",
         task'[p].id = id, task'[p].idx = i,
         UNCHANGED <<received, burned>>, linked \ {p} \subseteq linked',
         \A x \in LinkIds, y \in Index :
            (x # id \/ y # i) => (Torn(x, y)' => Torn(x, y)),
         Torn(id, i)' => ~InUse(id),
         WriterOK(p)'
  PROVE  IntactInv'
<1>1. \A q \in Procs : LinkWriter(q)' => LinkWriter(q)
  BY DEF LinkWriter
<1>2. \A q, r \in Procs : SameChunk(q, r)' => SameChunk(q, r)
  BY DEF SameChunk
<1>3. \A x \in LinkIds : InUse(x)' => InUse(x)
  BY DEF InUse, Procs
<1>4. ASSUME NEW q \in Procs \ {p}, LinkWriter(q)' PROVE WriterOK(q)'
  <2>1. LinkWriter(q) /\ WriterOK(q) /\ task'[q] = task[q] /\ ~SameChunk(p, q)
    BY <1>1, <1>4 DEF IntactInv
  <2>2. task'[q].idx \notin received'[task'[q].id]
    BY <2>1 DEF WriterOK
  <2>3. ASSUME task[q].pc = "commit" \/ (task[q].pc = "data" /\ q \notin linked')
        PROVE  ~Torn(task[q].id, task[q].idx)'
    <3>1. PICK x \in LinkIds, y \in Index : x = task[q].id /\ y = task[q].idx
      BY <2>1, <2>3, WriterIndex DEF LinkWriter
    <3>2. x # id \/ y # i
      BY <2>1, <3>1 DEF SameChunk
    <3>3. ~Torn(x, y)
      BY <2>1, <2>3, <3>1 DEF WriterOK, Torn
    <3>4. ~Torn(x, y)'
      BY <3>2, <3>3
    <3> QED
      BY <2>1, <3>1, <3>4
  <2> QED
    BY <2>1, <2>2, <2>3 DEF WriterOK
<1>5. ASSUME NEW x \in LinkIds PROVE FilesOK(x)'
  <2>1. FilesOK(x) /\ received[x] \subseteq Index
    BY DEF IntactInv, TypeInv, TypeOK, Ids
  <2>2. x = id => i \notin received[x]
    BY DEF IntactInv, WriterOK
  <2>3. \A y \in received[x] : ~Torn(x, y)'
    BY <2>1, <2>2 DEF FilesOK
  <2>4. InUse(x) => \A y \in Chunks(LinkStart[x]) : ~Torn(x, y)'
    BY <2>1, LinkChunks DEF FilesOK
  <2> QED
    BY <1>3, <2>3, <2>4 DEF FilesOK
<1>6. DeliveredIntact'
  <2>1. \A q \in Handlers \ {p} : task'[q].op = "link_get" => task'[q].buf # "torn"
    BY DEF IntactInv, DeliveredIntact, Procs
  <2> QED
    BY <2>1 DEF DeliveredIntact
<1> QED
  BY <1>1, <1>2, <1>4, <1>5, <1>6 DEF IntactInv

-----------------------------------------------------------------------------
(* The requests. *)

LEMMA BeginIntact ==
  ASSUME TypeInv, IntactInv, NEW p \in Procs, NEW op, NEW id, NEW idx, NEW pc,
         Begin(p, op, id, idx, pc), OnlyTask, op # "link_get",
         pc \notin WritePC \/ id \notin LinkIds
  PROVE  IntactInv'
<1> DEFINE t == [Idle EXCEPT !.pc = pc, !.op = op, !.id = id, !.idx = idx]
<1>1. t.pc = pc /\ t.op = op /\ t.id = id
  BY DEF Idle
<1>2. task' = [task EXCEPT ![p] = t] /\ task \in [Procs -> Task]
  BY DEF Begin, TypeInv, TypeOK
<1> HIDE DEF t
<1>3. \A q \in Procs \ {p} : task'[q] = task[q]
  BY <1>2
<1>4. task'[p].pc = pc /\ task'[p].op = op /\ task'[p].id = id
  BY <1>1, <1>2
<1>5. UNCHANGED <<received, chunk, burned, linked>>
  BY DEF OnlyTask, memory, disk, observed
<1> QED
  BY <1>3, <1>4, <1>5, CalmMove

LEMMA CreateIntact ==
  ASSUME TypeInv, IntactInv, NEW p \in Procs, NEW op \in {"start_upload", "link_start"},
         NEW id, NEW m, Create(p, op, id, m), UNCHANGED observed
  PROVE  IntactInv'
<1> DEFINE t == [Idle EXCEPT !.pc = "create", !.op = op, !.id = id, !.held = m]
<1>1. t.pc = "create" /\ t.op = op
  BY DEF Idle
<1>2. task' = [task EXCEPT ![p] = t] /\ task \in [Procs -> Task]
  BY DEF Create, TypeInv, TypeOK
<1> HIDE DEF t
<1>3. /\ \A q \in Procs \ {p} : task'[q] = task[q]
      /\ task'[p].pc = "create" /\ task'[p].op # "link_get"
  BY <1>1, <1>2
<1>4. UNCHANGED <<received, chunk, burned, linked>>
  BY DEF Create, memory, observed
<1> QED
  BY <1>3, <1>4, CalmMove DEF WritePC

\* Nobody else uploads this chunk, and it has not been received.
LEMMA UploadIntact ==
  ASSUME Shared, TypeInv, ShareInv, IntactInv, NEW p \in Handlers, NEW id \in Ids,
         NEW token \in Tokens, NEW idx \in AskedIndex,
         handleLinkChunkUpload(p, token, id, idx)
  PROVE  IntactInv'
<1> DEFINE t == [Idle EXCEPT !.pc = "lookup", !.op = "link_put", !.id = id,
                             !.idx = idx]
<1>1. /\ t.pc = "lookup" /\ t.op = "link_put" /\ t.id = id /\ t.idx = idx
  BY DEF Idle
<1>2. /\ p \in Procs /\ task' = [task EXCEPT ![p] = t]
      /\ task \in [Procs -> Task] /\ task[p].pc = "idle"
  BY DEF handleLinkChunkUpload, Arrives, Begin, At, TypeInv, TypeOK, Procs
<1> HIDE DEF t
<1>3. \A q \in Procs \ {p} : task'[q] = task[q]
  BY <1>2
<1>4. task'[p] = t
  BY <1>2
<1>5. UNCHANGED <<received, chunk, burned, linked>>
  BY DEF handleLinkChunkUpload, OnlyTask, memory, disk, observed
<1>6. /\ idx \notin received[id]
      /\ \A q \in Handlers : ~(/\ task[q].op = "link_put" /\ task[q].id = id
                               /\ task[q].idx = idx)
  BY DEF handleLinkChunkUpload, Shared, Reupload
<1>7. ASSUME NEW q \in Procs \ {p}, LinkWriter(q)
      PROVE  ~(task[q].id = id /\ task[q].idx = idx)
  <2>1. q \in Handlers /\ task[q].op \in {"chunk", "link_put"}
    BY <1>7 DEF ShareInv, LocalShare, LinkWriter
  <2>2. task[q].op # "chunk"
    BY <1>7 DEF Shared, IdsApart, TypeInv, LocalOK, LinkWriter
  <2> QED
    BY <1>6, <2>1, <2>2
<1>8. \A q \in Procs : LinkWriter(q)' => q = p \/ LinkWriter(q)
  BY <1>3 DEF LinkWriter
<1>9. ASSUME NEW q \in Procs, NEW r \in Procs, LinkWriter(q)', LinkWriter(r)',
             SameChunk(q, r)'
      PROVE  q = r
  <2>1. CASE q # p /\ r # p
    BY <1>3, <1>8, <1>9, <2>1 DEF IntactInv, SameChunk
  <2>2. CASE q = p /\ r # p
    BY <1>1, <1>3, <1>4, <1>7, <1>8, <1>9, <2>2 DEF SameChunk
  <2>3. CASE q # p /\ r = p
    BY <1>1, <1>3, <1>4, <1>7, <1>8, <1>9, <2>3 DEF SameChunk
  <2> QED
    BY <2>1, <2>2, <2>3
<1>10. ASSUME NEW q \in Procs, LinkWriter(q)' PROVE WriterOK(q)'
  <2>1. CASE q = p
    BY <1>1, <1>4, <1>5, <1>6, <2>1 DEF WriterOK
  <2>2. CASE q # p
    BY <1>3, <1>5, <1>8, <1>10, <2>2 DEF IntactInv, WriterOK, Torn
  <2> QED
    BY <2>1, <2>2
<1>11. \A i \in LinkIds : InUse(i)' => InUse(i)
  BY <1>1, <1>3, <1>4, <1>5 DEF InUse, Procs
<1>12. \A i \in LinkIds : FilesOK(i)'
  BY <1>5, <1>11 DEF IntactInv, FilesOK, Torn
<1>13. DeliveredIntact'
  BY <1>1, <1>3, <1>4 DEF IntactInv, DeliveredIntact, Procs
<1> QED
  BY <1>9, <1>10, <1>12, <1>13 DEF IntactInv

\* A link is handed out with all of its files, each of them whole.
LEMMA AdmitIntact ==
  ASSUME Shared, TypeInv, IntactInv, NEW p \in Handlers, NEW id \in Ids,
         NEW idx \in AskedIndex, handleLinkChunkDownload(p, id, idx)
  PROVE  IntactInv'
<1> DEFINE t == [Idle EXCEPT !.pc = "read", !.op = "link_get", !.id = id,
                             !.idx = idx]
<1>1. /\ t.pc = "read" /\ t.op = "link_get" /\ t.id = id /\ t.buf = "absent"
  BY DEF Idle
<1>2. /\ p \in Procs /\ task' = [task EXCEPT ![p] = t]
      /\ task \in [Procs -> Task]
  BY DEF handleLinkChunkDownload, Begin, TypeInv, TypeOK, Procs
<1> HIDE DEF t
<1>3. \A q \in Procs \ {p} : task'[q] = task[q]
  BY <1>2
<1>4. task'[p] = t
  BY <1>2
<1>5. UNCHANGED <<received, chunk, burned, linked>>
  BY DEF handleLinkChunkDownload, OnlyTask, memory, disk, observed
<1>6. id \in LinkIds /\ received[id] = Chunks(LinkStart[id])
  <2>1. IsLink(id) /\ received[id] = Chunks(meta[id])
    BY DEF handleLinkChunkDownload, Shared, Uploaded
  <2> QED
    BY <2>1, LinkIsLink DEF LinkEntry, Chunks
<1>7. \A q \in Procs : LinkWriter(q)' => q # p /\ LinkWriter(q)
  BY <1>1, <1>3, <1>4 DEF LinkWriter, WritePC
<1>8. ASSUME NEW q \in Procs, NEW r \in Procs, LinkWriter(q)', LinkWriter(r)',
             SameChunk(q, r)'
      PROVE  q = r
  BY <1>3, <1>7, <1>8 DEF IntactInv, SameChunk
<1>9. ASSUME NEW q \in Procs, LinkWriter(q)' PROVE WriterOK(q)'
  BY <1>3, <1>5, <1>7, <1>9 DEF IntactInv, WriterOK, Torn
<1>10. \A i \in LinkIds \ {id} : InUse(i)' => InUse(i)
  BY <1>1, <1>3, <1>4, <1>5 DEF InUse, Procs
<1>11. ASSUME NEW i \in LinkIds PROVE FilesOK(i)'
  <2>1. FilesOK(i)
    BY DEF IntactInv
  <2> QED
    BY <1>5, <1>6, <1>10, <2>1 DEF FilesOK, Torn
<1>12. DeliveredIntact'
  BY <1>1, <1>3, <1>4 DEF IntactInv, DeliveredIntact, Procs
<1> QED
  BY <1>8, <1>9, <1>11, <1>12 DEF IntactInv

LEMMA RequestIntact ==
  ASSUME Shared, TypeInv, ShareInv, IntactInv, NEW p \in Handlers, Request(p)
  PROVE  IntactInv'
<1>0. p \in Procs
  BY DEF Procs
<1>1. ASSUME NEW r \in StartUploads, StartUpload(p, r) PROVE IntactInv'
  BY <1>0, <1>1, CreateIntact DEF StartUpload
<1>2. ASSUME NEW id \in LinkIds, handleLinkStart(p, id) PROVE IntactInv'
  BY <1>0, <1>2, CreateIntact DEF handleLinkStart
<1>3. ASSUME NEW id \in Ids, NEW pubkey \in Pubkeys,
             Download(p, pubkey, id) \/ Complete(p, pubkey, id)
      PROVE  IntactInv'
  BY <1>0, <1>3, BeginIntact DEF Download, Complete, WritePC
<1>4. ASSUME NEW id \in Ids, NEW token \in Tokens, handleLinkDelete(p, token, id)
      PROVE  IntactInv'
  BY <1>0, <1>4, BeginIntact DEF handleLinkDelete, WritePC
<1>5. ASSUME NEW id \in Ids, NEW pubkey \in Pubkeys, NEW idx \in AskedIndex,
             Chunk(p, pubkey, id, idx)
      PROVE  IntactInv'
  <2>1. id \notin LinkIds
    BY <1>5, IdentityIsDirect DEF Chunk, Shared, IdsApart
  <2> QED
    BY <1>0, <1>5, <2>1, BeginIntact DEF Chunk
<1> QED
  BY <1>1, <1>2, <1>3, <1>4, <1>5, UploadIntact, AdmitIntact, Zenon DEF Request

-----------------------------------------------------------------------------
(* writeChunk. *)

\* What is known of p in a writeChunk of a link.
LEMMA LinkWriterFacts ==
  ASSUME IdsApart, TypeInv, ShareInv, NEW p \in Procs, LinkWriter(p)
  PROVE  /\ task[p].op = "link_put"
         /\ task[p].pc # "lookup" => ~InUse(task[p].id)
<1>1. task[p].op \in {"chunk", "link_put"} /\ task[p].id \in LinkIds
  BY DEF ShareInv, LocalShare, LinkWriter
<1>2. task[p].op # "chunk"
  BY <1>1 DEF IdsApart, TypeInv, LocalOK
<1>3. task[p].pc # "lookup" => ~InUse(task[p].id)
  BY <1>1 DEF ShareInv, LinkShare, Harmless, LinkWriter, WritePC
<1> QED
  BY <1>1, <1>2, <1>3

LEMMA LookupIntact ==
  ASSUME TypeInv, ShareInv, IntactInv, NEW p \in Procs, WriteLookup(p),
         UNCHANGED <<minted, observed>>
  PROVE  IntactInv'
<1>1. /\ task \in [Procs -> Task] /\ task[p] \in Task /\ task[p].pc = "lookup"
      /\ UNCHANGED <<received, chunk, burned, linked>>
      /\ \A q \in Procs \ {p} : task'[q] = task[q]
  BY DEF TypeInv, TypeOK, WriteLookup, Finish, At, memory, disk, observed
<1>2. CASE Finish(p)
  <2>1. task'[p].pc = "idle" /\ task'[p].op = "none"
    BY <1>1, <1>2 DEF Finish, Idle
  <2> QED
    BY <1>1, <2>1, CalmMove DEF WritePC
<1>3. CASE ~Finish(p)
  <2>1. /\ task'[p].pc = "open" /\ task'[p].op = task[p].op
        /\ task'[p].id = task[p].id /\ task'[p].idx = task[p].idx
    BY <1>1, <1>3 DEF WriteLookup, Task
  <2>2. task[p].op # "link_get"
    BY <1>1 DEF ShareInv, LocalShare, WritePC
  <2>3. CASE task[p].id \notin LinkIds
    BY <1>1, <2>1, <2>2, <2>3, CalmMove
  <2>4. CASE task[p].id \in LinkIds
    <3>1. LinkWriter(p) /\ task[p].idx \in Int
      BY <1>1, <2>4 DEF LinkWriter, WritePC, Task
    <3>2. WriterOK(p)'
      BY <1>1, <2>1, <3>1 DEF IntactInv, WriterOK
    <3>3. /\ \A x \in LinkIds, y \in Index : Torn(x, y)' => Torn(x, y)
          /\ \A q \in Procs : LinkWriter(q)' => LinkWriter(q)
      BY <1>1, <2>1, <3>1 DEF Torn, LinkWriter
    <3>4. \A q, r \in Procs : SameChunk(q, r)' => SameChunk(q, r)
      BY <1>1, <2>1 DEF SameChunk
    <3>5. \A q \in Procs \ {p} : LinkWriter(q)' => WriterOK(q)'
      BY <1>1, <3>3 DEF IntactInv, WriterOK, Torn
    <3>6. \A x \in LinkIds : InUse(x)' => InUse(x)
      BY <1>1, <2>1, <2>2 DEF InUse, Procs
    <3>7. \A x \in LinkIds : FilesOK(x)'
      BY <1>1, <3>6 DEF IntactInv, FilesOK, Torn
    <3>8. DeliveredIntact'
      BY <1>1, <2>1, <2>2 DEF IntactInv, DeliveredIntact, Procs
    <3> QED
      BY <3>2, <3>3, <3>4, <3>5, <3>7, <3>8 DEF IntactInv
  <2> QED
    BY <2>3, <2>4
<1> QED
  BY <1>2, <1>3

LEMMA FileIntact ==
  ASSUME IdsApart, TypeInv, ShareInv, IntactInv, NEW p \in Procs,
         WriteOpen(p) \/ WriteData(p), UNCHANGED <<minted, observed>>
  PROVE  IntactInv'
<1> PICK id \in Ids, i \in Index : id = task[p].id /\ i = task[p].idx
  BY WriterIndex DEF WriteOpen, WriteData, At
<1>0. i \in Int
  BY DEF Index
<1>1. /\ task \in [Procs -> Task] /\ task[p] \in Task
      /\ task[p].pc \in {"open", "data"}
      /\ UNCHANGED <<received, burned>>
      /\ linked \ {p} \subseteq linked'
      /\ \A q \in Procs \ {p} : task'[q] = task[q]
  BY DEF TypeInv, TypeOK, WriteOpen, WriteData, Finish, Goto, At, memory, observed
<1>2. task[p].op # "link_get"
  BY <1>1 DEF ShareInv, LocalShare, WritePC
<1>3. CASE Finish(p)
  <2>1. task'[p].pc = "idle" /\ task'[p].op = "none"
    BY <1>1, <1>3 DEF Finish, Idle
  <2>2. UNCHANGED chunk
    BY <1>1, <2>1 DEF WriteOpen, WriteData, Goto, Task
  <2> QED
    BY <1>1, <2>1, <2>2, CalmMove DEF WritePC
<1>4. CASE ~Finish(p)
  <2>1. /\ task'[p].pc \in {"data", "commit"} /\ task'[p].op = task[p].op
        /\ task'[p].id = id /\ task'[p].idx = i
        /\ task'[p].pc = "data" <=> task[p].pc = "open"
    BY <1>1, <1>4 DEF WriteOpen, WriteData, Goto, At, Task
  <2>2. /\ chunk \in [Ids -> [Index -> Data]]
        /\ \A x \in Ids, y \in Index : (x # id \/ y # i) => chunk'[x][y] = chunk[x][y]
    BY <1>4 DEF TypeInv, TypeOK, WriteOpen, WriteData
  <2>3. CASE id \notin LinkIds
    <3>1. \A x \in LinkIds : InUse(x)' => InUse(x)
      BY <1>1, <1>2, <2>1 DEF InUse, Procs
    <3>2. Calm(p)
      BY <1>1, <1>2, <2>1, <2>2, <2>3, <3>1 DEF Calm, LinkWriter, Torn, Ids
    <3> QED
      BY <3>2, CalmStep
  <2>4. CASE id \in LinkIds
    <3>1. LinkWriter(p) /\ ~InUse(id)
      BY <1>1, <2>4, LinkWriterFacts DEF LinkWriter, WritePC
    <3>2. WriterOK(p)
      BY <3>1 DEF IntactInv
    <3>3. WriterOK(p)'
      <4>1. task'[p].idx \notin received'[task'[p].id]
        BY <1>1, <2>1, <3>2 DEF WriterOK
      <4>2. CASE task[p].pc = "open"
        <5>1. task'[p].pc = "data" /\ p \in linked'
          BY <1>4, <2>1, <4>2 DEF WriteOpen, WriteData, At
        <5> QED
          BY <4>1, <5>1 DEF WriterOK
      <4>3. CASE task[p].pc = "data"
        <5>1. chunk'[id][i] = IF p \in linked THEN "whole" ELSE chunk[id][i]
          BY <2>2, <4>3 DEF WriteOpen, WriteData, At
        <5>2. p \notin linked => chunk[id][i] # "torn"
          BY <3>2, <4>3 DEF WriterOK, Torn
        <5> QED
          BY <2>1, <4>1, <5>1, <5>2 DEF WriterOK, Torn
      <4> QED
        BY <1>1, <4>2, <4>3
    <3>4. \A x \in LinkIds, y \in Index :
             (x # id \/ y # i) => (Torn(x, y)' => Torn(x, y))
      BY <2>2 DEF Torn, Ids
    <3> QED
      BY <1>0, <1>1, <1>2, <2>1, <2>4, <3>1, <3>3, <3>4, WriterStep DEF WritePC
  <2> QED
    BY <2>3, <2>4
<1> QED
  BY <1>3, <1>4

\* The file of a chunk is whole, or gone, when its index is published.
LEMMA CommitIntact ==
  ASSUME TypeInv, ShareInv, IntactInv, NEW p \in Procs, WriteCommit(p),
         UNCHANGED <<minted, observed>>
  PROVE  IntactInv'
<1> PICK id \in Ids, i \in Index : id = task[p].id /\ i = task[p].idx
  BY WriterIndex DEF WriteCommit, At
<1>1. /\ task \in [Procs -> Task] /\ task[p] \in Task /\ task[p].pc = "commit"
      /\ received \in [Ids -> SUBSET Index]
      /\ received' = [received EXCEPT ![id] = @ \cup {i}]
      /\ UNCHANGED <<chunk, burned, linked>>
      /\ \A q \in Procs \ {p} : task'[q] = task[q]
  BY DEF TypeInv, TypeOK, WriteCommit, At, disk, observed
<1>2. task'[p].pc = "persist" /\ task'[p].op = task[p].op
  BY <1>1 DEF WriteCommit, Task
<1>3. task[p].op # "link_get"
  BY <1>1 DEF ShareInv, LocalShare, WritePC
<1>4. \A x \in LinkIds : InUse(x)' => InUse(x)
  BY <1>1, <1>2, <1>3 DEF InUse, Procs
<1>5. CASE id \notin LinkIds
  <2>1. \A x \in LinkIds : received'[x] = received[x]
    BY <1>1, <1>5 DEF Ids
  <2>2. Calm(p)
    BY <1>1, <1>2, <1>3, <1>4, <2>1 DEF Calm, LinkWriter, Torn, WritePC
  <2> QED
    BY <2>2, CalmStep
<1>6. CASE id \in LinkIds
  <2>1. LinkWriter(p) /\ ~Torn(id, i)
    BY <1>1, <1>6 DEF LinkWriter, WritePC, IntactInv, WriterOK, Torn
  <2>2. \A q \in Procs : LinkWriter(q)' => q # p /\ LinkWriter(q)
    BY <1>1, <1>2 DEF LinkWriter, WritePC
  <2>3. ASSUME NEW q \in Procs, NEW r \in Procs, LinkWriter(q)', LinkWriter(r)',
               SameChunk(q, r)'
        PROVE  q = r
    BY <1>1, <2>2, <2>3 DEF IntactInv, SameChunk
  <2>4. ASSUME NEW q \in Procs, LinkWriter(q)' PROVE WriterOK(q)'
    <3>1. /\ q # p /\ LinkWriter(q) /\ WriterOK(q) /\ task'[q] = task[q]
          /\ ~SameChunk(p, q) /\ task[q].id \in Ids
      BY <1>1, <2>1, <2>2, <2>4 DEF IntactInv, LinkWriter, Ids
    <3>2. task[q].idx \notin received'[task[q].id]
      BY <1>1, <3>1 DEF WriterOK, SameChunk
    <3> QED
      BY <1>1, <3>1, <3>2 DEF WriterOK, Torn
  <2>5. ASSUME NEW x \in LinkIds PROVE FilesOK(x)'
    <3>1. FilesOK(x) /\ x \in Ids
      BY DEF IntactInv, Ids
    <3> QED
      BY <1>1, <1>4, <2>1, <3>1 DEF FilesOK, Torn
  <2>6. DeliveredIntact'
    BY <1>1, <1>2, <1>3 DEF IntactInv, DeliveredIntact, Procs
  <2> QED
    BY <2>3, <2>4, <2>5, <2>6 DEF IntactInv
<1> QED
  BY <1>5, <1>6

-----------------------------------------------------------------------------
(* Reading and deleting. *)

LEMMA NotTornBefore ==
  ASSUME TypeInv, IntactInv, NEW p \in Procs
  PROVE  task[p].op = "link_get" => p \in Handlers /\ task[p].buf # "torn"
BY DEF TypeInv, LocalOK, IntactInv, DeliveredIntact

\* The file that is read belongs to a link in use.
LEMMA ReadIntact ==
  ASSUME TypeInv, IntactInv, NEW p \in Procs, ReadForLink(p)
  PROVE  IntactInv'
<1>1. /\ task \in [Procs -> Task] /\ task[p] \in Task /\ task[p].pc = "read"
      /\ UNCHANGED <<received, chunk, burned, linked>>
      /\ \A q \in Procs \ {p} : task'[q] = task[q]
  BY DEF TypeInv, TypeOK, ReadForLink, Finish, At, OnlyTask, memory, disk, observed
<1>2. CASE Finish(p)
  <2>1. task'[p].pc = "idle" /\ task'[p].op = "none"
    BY <1>1, <1>2 DEF Finish, Idle
  <2> QED
    BY <1>1, <2>1, CalmMove DEF WritePC
<1>3. CASE ~Finish(p)
  <2>1. /\ p \in Handlers /\ task[p].id \in LinkIds /\ task[p].op = "link_get"
        /\ task[p].idx \in Chunks(LinkStart[task[p].id])
    BY <1>1, InDownload
  <2>2. ~Torn(task[p].id, task[p].idx)
    BY <2>1 DEF IntactInv, FilesOK, InUse
  <2>3. /\ task'[p].pc = "send" /\ task'[p].op = task[p].op
        /\ task'[p].id = task[p].id
        /\ task'[p].buf = chunk[task[p].id][task[p].idx]
    BY <1>1, <1>3 DEF ReadForLink, Task
  <2> QED
    BY <1>1, <2>1, <2>2, <2>3, CalmMove DEF WritePC, Torn
<1> QED
  BY <1>2, <1>3

\* Steps of p that leave the files, the received sets and the links in use.
LEMMA PassIntact ==
  ASSUME TypeInv, IntactInv, NEW p \in Procs,
         \/ BodyLost(p) \/ ReceivedIndices(p) \/ SendNext(p) \/ SendDone(p)
         \/ TouchAndSend(p)
         \/ /\ MarkServed(p) \/ CreateFail(p) \/ WriteFail(p) \/ WritePersist(p)
               \/ ListDir(p)
            /\ UNCHANGED <<minted, observed>>
  PROVE  IntactInv'
<1>0. /\ task \in [Procs -> Task] /\ task[p] \in Task
      /\ task[p].op = "link_get" => task[p].buf # "torn"
  BY NotTornBefore DEF TypeInv, TypeOK
<1>1. /\ UNCHANGED <<received, chunk, burned>>
      /\ linked \ {p} \subseteq linked'
  BY DEF BodyLost, ReceivedIndices, SendNext, SendDone, TouchAndSend, MarkServed,
         CreateFail, WriteFail, WritePersist, ListDir, OnlyTask, memory, disk,
         observed
<1>2. CASE Finish(p)
  <2>1. /\ task'[p].pc = "idle" /\ task'[p].op = "none"
        /\ \A q \in Procs \ {p} : task'[q] = task[q]
    BY <1>0, <1>2 DEF Finish, Idle
  <2> QED
    BY <1>1, <2>1, CalmMove DEF WritePC
<1>3. CASE ReceivedIndices(p) \/ (SendNext(p) /\ ~Finish(p))
  <2>1. /\ \A q \in Procs \ {p} : task'[q] = task[q]
        /\ task'[p].pc = "sending" /\ task'[p].op = task[p].op
    <3>1. CASE ReceivedIndices(p)
      BY <1>0, <3>1 DEF ReceivedIndices, Task
    <3>2. CASE SendNext(p) /\ ~Finish(p)
      <4>1. PICK i \in task[p].todo :
               task' = [task EXCEPT ![p].todo = @ \ {i}, ![p].idx = i,
                                    ![p].buf = chunk[task[p].id][i]]
        BY <3>2 DEF SendNext
      <4> QED
        BY <1>0, <3>2, <4>1 DEF SendNext, At, Task
    <3> QED
      BY <1>3, <3>1, <3>2
  <2>2. task[p].op = "download"
    BY <1>3 DEF TypeInv, LocalOK, ReceivedIndices, SendNext, At
  <2> QED
    BY <1>1, <2>1, <2>2, CalmMove DEF WritePC
<1>4. CASE Goto(p, "mark") \/ Goto(p, "forget")
  <2>1. /\ \A q \in Procs \ {p} : task'[q] = task[q]
        /\ task'[p].pc \in {"mark", "forget"} /\ task'[p].op = task[p].op
        /\ task'[p].id = task[p].id /\ task'[p].buf = task[p].buf
    BY <1>0, <1>4 DEF Goto, Task
  <2> QED
    BY <1>0, <1>1, <2>1, CalmMove DEF WritePC
<1>5. CASE ListDir(p) /\ ~Finish(p)
  <2>1. /\ \A q \in Procs \ {p} : task'[q] = task[q]
        /\ task'[p].pc = "unlink" /\ task'[p].op = task[p].op
        /\ task'[p].id = task[p].id /\ task'[p].buf = task[p].buf
    BY <1>0, <1>5 DEF ListDir, Task
  <2> QED
    BY <1>0, <1>1, <2>1, CalmMove DEF WritePC
<1> QED
  BY <1>2, <1>3, <1>4, <1>5
     DEF BodyLost, SendDone, TouchAndSend, MarkServed, CreateFail, WriteFail,
         WritePersist

LEMMA CreateCommitIntact ==
  ASSUME TypeInv, IntactInv, NEW p \in Procs, CreateCommit(p),
         UNCHANGED <<minted, observed>>
  PROVE  IntactInv'
<1>1. /\ task \in [Procs -> Task] /\ received \in [Ids -> SUBSET Index]
      /\ received' = [received EXCEPT ![task[p].id] = {}]
      /\ UNCHANGED <<chunk, burned, linked>>
      /\ \A q \in Procs \ {p} : task'[q] = task[q]
      /\ task'[p].pc = "idle" /\ task'[p].op = "none"
  BY DEF TypeInv, TypeOK, CreateCommit, Finish, Idle, observed
<1>2. \A x \in LinkIds : InUse(x)' => InUse(x)
  BY <1>1 DEF InUse, Procs
<1>3. \A x \in LinkIds : received'[x] \subseteq received[x]
  BY <1>1 DEF Ids
<1>4. Calm(p)
  BY <1>1, <1>2, <1>3 DEF Calm, LinkWriter, Torn, WritePC
<1> QED
  BY <1>4, CalmStep

LEMMA ForgetIntact ==
  ASSUME TypeInv, IntactInv, NEW p \in Procs, DeleteForget(p)
  PROVE  IntactInv'
<1> PICK id \in Ids : id = task[p].id
  BY DEF TypeInv, LocalOK, DeleteForget, Forget, At
<1>1. /\ task \in [Procs -> Task] /\ task[p] \in Task
      /\ received \in [Ids -> SUBSET Index]
      /\ received' = [received EXCEPT ![id] = {}]
      /\ UNCHANGED <<chunk, linked>>
  BY DEF TypeInv, TypeOK, DeleteForget, Forget, disk
<1>2. /\ \A q \in Procs \ {p} : task'[q] = task[q]
      /\ task'[p].pc = "list" /\ task'[p].op = task[p].op
      /\ task'[p].id = id /\ task'[p].buf = task[p].buf
  BY <1>1 DEF DeleteForget, Forget, Goto, Task
<1>3. /\ \/ burned' = burned
         \/ task[p].op = "link_get" /\ burned' = burned \cup {id}
      /\ task[p].op = "link_get" => p \in Handlers /\ task[p].buf # "torn"
  BY NotTornBefore DEF DeleteForget
<1>4. \A x \in LinkIds : InUse(x)' => InUse(x)
  BY <1>2, <1>3 DEF InUse, Procs
<1>5. \A x \in LinkIds : received'[x] \subseteq received[x]
  BY <1>1 DEF Ids
<1>6. Calm(p)
  BY <1>1, <1>2, <1>3, <1>4, <1>5 DEF Calm, LinkWriter, Torn, WritePC
<1> QED
  BY <1>6, CalmStep

\* A writer loses its file only when nobody can find the file any more.
LEMMA RemoveIntact ==
  ASSUME TypeInv, IntactInv, NEW p \in Procs, Unlink(p) \/ RemoveDir(p),
         UNCHANGED <<minted, observed>>
  PROVE  IntactInv'
<1> PICK id \in Ids : id = task[p].id
  BY DEF TypeInv, LocalOK, Unlink, RemoveDir, At
<1>0. /\ task \in [Procs -> Task] /\ task[p] \in Task
      /\ chunk \in [Ids -> [Index -> Data]]
      /\ task[p].op = "link_get" => task[p].buf # "torn"
      /\ UNCHANGED <<received, burned>>
  BY NotTornBefore DEF TypeInv, TypeOK, Unlink, RemoveDir, memory, observed
<1>1. /\ \A q \in Procs \ {p} : task'[q] = task[q]
      /\ \/ task'[p].pc = "idle" /\ task'[p].op = "none"
         \/ /\ task'[p].pc = "unlink" /\ task'[p].op = task[p].op
            /\ task'[p].id = task[p].id /\ task'[p].buf = task[p].buf
  BY <1>0 DEF Unlink, RemoveDir, Finish, Idle, At, Task
<1>2. \A x \in LinkIds : InUse(x)' => InUse(x)
  BY <1>0, <1>1 DEF InUse, Procs
<1>3. /\ \A x \in Ids, y \in Index : Torn(x, y)' => Torn(x, y)
      /\ \A q \in Procs, y \in Index :
            /\ task[q].pc = "data" /\ task[q].idx = y /\ task[q].id \in Ids
            /\ q \in linked /\ q \notin linked'
            => q = p \/ chunk'[task[q].id][y] = "absent"
  <2>1. CASE Unlink(p)
    <3>1. PICK f \in task[p].todo :
             IF p \notin linked
             THEN UNCHANGED <<metaFile, chunk, linked>>
             ELSE IF f = MetaJson
             THEN UNCHANGED <<chunk, linked>>
             ELSE /\ chunk' = [chunk EXCEPT ![id][f] = "absent"]
                  /\ linked' = linked \ {q \in Procs : /\ task[q].pc = "data"
                                                       /\ task[q].id = id
                                                       /\ task[q].idx = f}
      BY <2>1 DEF Unlink, At
    <3>2. f \in Index \/ f = MetaJson
      BY <1>0, <2>1 DEF Task, Names
    <3> QED
      BY <1>0, <3>1, <3>2 DEF Torn
  <2>2. CASE RemoveDir(p)
    <3>1. CASE Listing(id) = {}
      <4>1. \A y \in Index : chunk[id][y] = "absent"
        BY <3>1 DEF Listing, Files
      <4>2. linked' = linked \ {q \in Procs : task[q].id = id} /\ UNCHANGED chunk
        BY <2>2, <3>1 DEF RemoveDir
      <4> QED
        BY <4>1, <4>2 DEF Torn
    <3>2. CASE Listing(id) # {}
      <4>1. linked' = linked \ {p} /\ UNCHANGED chunk
        BY <2>2, <3>2 DEF RemoveDir
      <4> QED
        BY <4>1 DEF Torn
    <3> QED
      BY <3>1, <3>2
  <2> QED
    BY <2>1, <2>2
<1>4. ASSUME NEW q \in Procs \ {p}, LinkWriter(q), task[q].pc = "data", q \in linked
      PROVE  q \in linked' \/ ~Torn(task[q].id, task[q].idx)'
  <2>1. PICK x \in Ids, y \in Index : x = task[q].id /\ y = task[q].idx
    BY <1>4, WriterIndex
  <2>2. q \notin linked' => chunk'[x][y] = "absent"
    BY <1>3, <1>4, <2>1
  <2> QED
    BY <1>1, <2>1, <2>2 DEF Torn
<1>5. Calm(p)
  BY <1>0, <1>1, <1>2, <1>3, <1>4 DEF Calm, LinkWriter, WritePC, Ids
<1> QED
  BY <1>5, CalmStep

LEMMA SweepIntact ==
  ASSUME TypeInv, IntactInv, Sweep
  PROVE  IntactInv'
<1>1. UNCHANGED <<received, chunk, linked, burned>>
  BY DEF Sweep, SweepCollect, SweepNext, memory, disk, observed
<1>2. CASE SweepCollect
  BY <1>1, <1>2 DEF SweepCollect, IntactInv, LinkWriter, WriterOK, FilesOK,
                    SameChunk, Torn, InUse, DeliveredIntact
<1>3. CASE SweepNext
  <2>1. PICK id \in queue : Begin(Sweeper, "sweep", id, 0, "forget")
    BY <1>3 DEF SweepNext
  <2> DEFINE t == [Idle EXCEPT !.pc = "forget", !.op = "sweep", !.id = id,
                               !.idx = 0]
  <2>2. /\ t.pc = "forget" /\ t.op = "sweep" /\ task' = [task EXCEPT ![Sweeper] = t]
        /\ task \in [Procs -> Task] /\ Sweeper \in Procs
    BY <2>1 DEF Begin, Idle, TypeInv, TypeOK, Procs
  <2> HIDE DEF t
  <2>3. /\ \A q \in Procs \ {Sweeper} : task'[q] = task[q]
        /\ task'[Sweeper].pc = "forget" /\ task'[Sweeper].op = "sweep"
    BY <2>2
  <2> QED
    BY <1>1, <2>2, <2>3, CalmMove DEF WritePC
<1> QED
  BY <1>2, <1>3 DEF Sweep

LEMMA InitIntact == Init => IntactInv
<1> SUFFICES ASSUME Init PROVE IntactInv
  OBVIOUS
<1>1. /\ \A p \in Procs : task[p].pc = "idle" /\ task[p].op = "none"
      /\ burned = {} /\ \A id \in Ids : received[id] = {}
  BY DEF Init, StoreInit, Idle
<1> QED
  BY <1>1 DEF IntactInv, LinkWriter, FilesOK, InUse, DeliveredIntact, WritePC,
              Procs, Ids

LEMMA NextIntact ==
  ASSUME Shared, TypeInv, ShareInv, IntactInv, [Next]_vars
  PROVE  IntactInv'
<1>0. IdsApart
  BY DEF Shared
<1>1. ASSUME NEW p \in Handlers, Request(p) PROVE IntactInv'
  BY <1>1, RequestIntact
<1>2. ASSUME NEW p \in Procs, TakesLock(p) PROVE IntactInv'
  BY <1>2, ForgetIntact, PassIntact, LookupIntact, CommitIntact, Zenon
     DEF TakesLock
<1>3. ASSUME NEW p \in Procs, NoLock(p) PROVE IntactInv'
  BY <1>0, <1>3, PassIntact, ReadIntact, CreateCommitIntact, FileIntact, RemoveIntact,
     Zenon DEF NoLock
<1>4. CASE TimePasses \/ UNCHANGED vars
  BY <1>4 DEF TimePasses, Tick, vars, storeVars, memory, disk, observed, IntactInv,
              LinkWriter, WriterOK, FilesOK, SameChunk, Torn, InUse,
              DeliveredIntact
<1>5. ~CrashRestart
  BY DEF CrashRestart, Shared
<1> QED
  BY <1>1, <1>2, <1>3, <1>4, <1>5, SweepIntact DEF Next

\* "chunks are stored exactly as received", as far as a downloader of a link
\* can see: the file that handleLinkChunkDownload reads without a lock is
\* never one that writeChunk has truncated and not yet written again.
THEOREM LinkChunksAreWhole ==
  ASSUME Shared
  PROVE  Spec => []DeliveredIntact
<1>1. Init => TypeInv /\ BurnInv /\ ShareInv /\ IntactInv
  BY InitType, InitBurn, InitPromise, InitIntact
<1>2. (TypeInv /\ BurnInv /\ ShareInv /\ IntactInv) /\ [Next]_vars
        => (TypeInv /\ BurnInv /\ ShareInv /\ IntactInv)'
  BY NextType, NextBurn, NextPromise, NextIntact
<1>3. IntactInv => DeliveredIntact
  BY DEF IntactInv
<1> QED
  BY <1>1, <1>2, <1>3, PTL DEF Spec

=============================================================================
