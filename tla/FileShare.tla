----------------------------- MODULE FileShare -----------------------------
(***************************************************************************)
(* The file-share server (server.go, main.go) over the transfer store: the *)
(* WebSocket protocol between identities (dispatch) and the link-share     *)
(* HTTP surface (the handleLink handlers), each request served by a        *)
(* goroutine of its own, next to the hourly TTL sweep and crashes.         *)
(*                                                                         *)
(* A request that is refused by its first check changes nothing and is not *)
(* a step.  Authentication is the subject of WsSession: here a WebSocket   *)
(* request comes with the pubkey of its connection, a link request with    *)
(* the manage token it presents.                                           *)
(***************************************************************************)
EXTENDS Store

CONSTANTS
    Requests,        \* the kinds of requests clients make in this instance
    Crashes,         \* TRUE if the process may crash and restart
    UploadThenShare  \* TRUE if uploaders send each chunk of a link once and
                     \* hand out the link after the last acknowledgement

ASSUME FileShareAssumption ==
    /\ Requests \subseteq Op \ {"none", "sweep"}
    /\ Crashes \in BOOLEAN
    /\ UploadThenShare \in BOOLEAN

VARIABLES
    minted,     \* link ids genRandomToken has drawn: it never repeats one
    \* Observations; no step of the server reads them.
    sent,       \* sent[id]: indices w.Write succeeded for, since the start
    burned      \* link ids that markLinkChunkServed has deleted

observed == <<sent, burned>>
vars     == <<storeVars, minted, observed>>

\* A step that moves a goroutine and changes nothing another one can see.
OnlyTask == UNCHANGED <<memory, disk, linked, queue, clock, minted, observed>>

Init ==
    /\ StoreInit
    /\ minted = {}
    /\ sent   = [id \in Ids |-> {}]
    /\ burned = {}

\* Indices clients ask for: everything legal and one beyond on either side.
AskedIndex == -1 .. MaxChunks

Arrives(p, op) == op \in Requests /\ At(p, "idle")

-----------------------------------------------------------------------------
(* The WebSocket protocol: dispatch. *)

\* The client picks the id, even that of a link; but nobody guesses the 16
\* random bytes of a link before genRandomToken has drawn them.
StartUpload(p, r) ==
    /\ Arrives(p, "start_upload")
    /\ r.id \in LinkIds => r.id \in minted
    /\ r.total > 0
    /\ UnderCap(r.from)
    /\ Create(p, "start_upload", r.id, DirectMeta(r))
    /\ UNCHANGED <<minted, observed>>

\* Only the sender writes.  The binary frame is read between the check and
\* writeChunk, which looks the transfer up again.
Chunk(p, pubkey, id, idx) ==
    /\ Arrives(p, "chunk")
    /\ LockFree
    /\ Known(id) /\ meta[id].from = pubkey
    /\ Begin(p, "chunk", id, idx, "lookup")
    /\ OnlyTask

\* The frame, or the body of a link upload, does not arrive.
BodyLost(p) ==
    /\ At(p, "lookup")
    /\ Finish(p)
    /\ OnlyTask

Download(p, pubkey, id) ==
    /\ Arrives(p, "download")
    /\ LockFree
    /\ Known(id) /\ meta[id].to = pubkey
    /\ Begin(p, "download", id, 0, "indices")
    /\ OnlyTask

ReceivedIndices(p) ==
    /\ At(p, "indices")
    /\ LockFree
    /\ task' = [task EXCEPT ![p].pc = "sending",
                            ![p].todo = received[task[p].id]]
    /\ OnlyTask

\* One round of the download loop: indices ascend, a chunk that cannot be
\* read ends the connection.
SendNext(p) ==
    LET id == task[p].id IN
    /\ At(p, "sending")
    /\ \E i \in task[p].todo :
          /\ \A j \in task[p].todo : i <= j
          /\ IF Stored(id, i)
             THEN task' = [task EXCEPT ![p].todo = @ \ {i}, ![p].idx = i,
                                       ![p].buf = chunk[id][i]]
             ELSE Finish(p)
    /\ OnlyTask

\* download_done, or the connection is lost before it.
SendDone(p) ==
    /\ At(p, "sending")
    /\ Finish(p)
    /\ OnlyTask

\* A shareable transfer is left alone, any other one deleted.
Complete(p, pubkey, id) ==
    /\ Arrives(p, "complete")
    /\ LockFree
    /\ Known(id) /\ meta[id].to = pubkey
    /\ ~meta[id].shareable
    /\ Begin(p, "complete", id, 0, "forget")
    /\ OnlyTask

-----------------------------------------------------------------------------
(* The link-share HTTP surface. *)

IsLink(id) == meta[id].mode = "link"

Uploaded(id) ==
    /\ received[id] = Chunks(meta[id])
    /\ \A q \in Handlers : ~(task[q].op = "link_put" /\ task[q].id = id)

handleLinkStart(p, id) ==
    /\ Arrives(p, "link_start")
    /\ id \notin minted
    /\ Create(p, "link_start", id, LinkMeta(id))
    /\ minted' = minted \cup {id}
    /\ UNCHANGED observed

\* linkTransferForManage
MayManage(id, token) == IsLink(id) /\ meta[id].manage = token

\* Two uploads of one chunk, or one that goes on after the link is out.
Reupload(id, idx) ==
    \/ idx \in received[id]
    \/ \E q \in Handlers : /\ task[q].op = "link_put"
                           /\ task[q].id = id
                           /\ task[q].idx = idx

handleLinkChunkUpload(p, token, id, idx) ==
    /\ Arrives(p, "link_put")
    /\ LockFree
    /\ MayManage(id, token)
    /\ UploadThenShare => ~Reupload(id, idx)
    /\ Begin(p, "link_put", id, idx, "lookup")
    /\ OnlyTask

handleLinkChunkDownload(p, id, idx) ==
    /\ Arrives(p, "link_get")
    /\ LockFree
    /\ IsLink(id)
    /\ InRange(idx, meta[id])
    /\ UploadThenShare => Uploaded(id)
    /\ Begin(p, "link_get", id, idx, "read")
    /\ OnlyTask

ReadForLink(p) ==
    LET id == task[p].id
        i  == task[p].idx IN
    /\ At(p, "read")
    /\ IF Stored(id, i)
       THEN task' = [task EXCEPT ![p].pc = "send", ![p].buf = chunk[id][i]]
       ELSE Finish(p)                                          \* 404
    /\ OnlyTask

\* Mutant of TouchAndSend: the error of w.Write is ignored.
SendUnchecked(p) ==
    LET id == task[p].id IN
    /\ At(p, "send")
    /\ TouchLink(id)
    /\ Goto(p, "mark")
    /\ \/ sent' = [sent EXCEPT ![id] = @ \cup {task[p].idx}]
       \/ UNCHANGED sent
    /\ UNCHANGED <<received, served, dir, chunk, linked, queue, clock,
                   minted, burned>>

\* touchLinkTransfer, then w.Write: a failed write must not count as served.
TouchAndSend(p) ==
    LET id == task[p].id IN
    /\ At(p, "send")
    /\ TouchLink(id)
    /\ \/ /\ Goto(p, "mark")
          /\ sent' = [sent EXCEPT ![id] = @ \cup {task[p].idx}]
       \/ /\ Finish(p)
          /\ UNCHANGED sent
    /\ UNCHANGED <<received, served, dir, chunk, linked, queue, clock,
                   minted, burned>>

handleLinkDelete(p, token, id) ==
    /\ Arrives(p, "link_delete")
    /\ LockFree
    /\ MayManage(id, token)
    /\ Begin(p, "link_delete", id, 0, "forget")
    /\ OnlyTask

-----------------------------------------------------------------------------
(* Composition. *)

DeleteForget(p) ==
    /\ Forget(p)
    /\ burned' = IF task[p].op = "link_get" THEN burned \cup {task[p].id}
                                            ELSE burned
    /\ UNCHANGED <<minted, sent>>

\* The steps of a goroutine between its first check and its return.
TakesLock(p) ==
    \/ DeleteForget(p) \/ ReceivedIndices(p) \/ TouchAndSend(p)
    \/ /\ WriteLookup(p) \/ WriteCommit(p) \/ MarkServed(p)
       /\ UNCHANGED <<minted, observed>>

NoLock(p) ==
    \/ BodyLost(p) \/ SendNext(p) \/ SendDone(p) \/ ReadForLink(p)
    \/ /\ \/ CreateCommit(p) \/ CreateFail(p)
          \/ WriteOpen(p) \/ WriteData(p) \/ WriteFail(p) \/ WritePersist(p)
          \/ ListDir(p) \/ Unlink(p) \/ RemoveDir(p)
       /\ UNCHANGED <<minted, observed>>

Request(p) ==
    \/ \E r \in StartUploads : StartUpload(p, r)
    \/ \E id \in Ids, pubkey \in Pubkeys :
          \/ Download(p, pubkey, id)
          \/ Complete(p, pubkey, id)
          \/ \E idx \in AskedIndex : Chunk(p, pubkey, id, idx)
    \/ \E id \in LinkIds : handleLinkStart(p, id)
    \/ \E id \in Ids, token \in Tokens :
          \/ handleLinkDelete(p, token, id)
          \/ \E idx \in AskedIndex : handleLinkChunkUpload(p, token, id, idx)
    \/ \E id \in Ids, idx \in AskedIndex : handleLinkChunkDownload(p, id, idx)

Sweep == (SweepCollect \/ SweepNext) /\ UNCHANGED <<minted, observed>>

TimePasses == Tick /\ UNCHANGED <<minted, observed>>

CrashRestart ==
    /\ Crashes
    /\ Restart
    /\ sent' = [id \in Ids |-> {}]
    /\ UNCHANGED <<minted, burned>>

Next ==
    \/ \E p \in Handlers : Request(p)
    \/ \E p \in Procs : TakesLock(p) \/ NoLock(p)
    \/ Sweep
    \/ TimePasses
    \/ CrashRestart

Spec == Init /\ [][Next]_vars

\* A goroutine that can run does run.  sync.Mutex hands the lock over to a
\* waiter that has starved for a millisecond, so a step that needs s.mu
\* happens if s.mu is free again and again: strong fairness.  Requests, the
\* clock and crashes are never promised.
Fairness ==
    /\ \A p \in Procs : SF_vars(TakesLock(p)) /\ WF_vars(NoLock(p))
    /\ SF_vars(Sweep)

FairSpec == Spec /\ Fairness

-----------------------------------------------------------------------------
(* Type invariant. *)

\* Every variable ranges over what the code can put in it: in particular an
\* index enters received or served only inside the bound on total_chunks.
TypeOK ==
    /\ meta     \in [Ids -> Meta \cup {NoMeta}]
    /\ received \in [Ids -> SUBSET Index]
    /\ served   \in [Ids -> SUBSET Index]
    /\ dir      \in SUBSET Ids
    /\ metaFile \in [Ids -> Meta \cup {NoMeta}]
    /\ chunk    \in [Ids -> [Index -> Data]]
    /\ task     \in [Procs -> Task]
    /\ linked   \in SUBSET Procs
    /\ queue    \in SUBSET Ids
    /\ clock    \in Clock
    /\ minted   \in SUBSET LinkIds
    /\ sent     \in [Ids -> SUBSET Index]
    /\ burned   \in SUBSET LinkIds

-----------------------------------------------------------------------------
(* Safety of the link surface. *)

\* As soon as the served set of a one-time link covers it, somebody who was
\* just told so by markLinkChunkServed is about to delete it: there is no
\* state in which the link is used up and nobody burns it.
CoveredIsBurning ==
    \A id \in Ids :
        Known(id) /\ Burns(meta[id], served[id])
            => \E p \in Handlers : /\ At(p, "forget")
                                   /\ task[p].op = "link_get"
                                   /\ task[p].id = id

\* markLinkChunkServed burns only a one-time link, and only when each of its
\* chunks has been written to a downloader since the process started.
BurnIsEarned ==
    \A p \in Handlers :
        At(p, "forget") /\ task[p].op = "link_get"
            => /\ LinkStart[task[p].id].oneTime
               /\ Chunks(LinkStart[task[p].id]) \subseteq sent[task[p].id]

\* "burned: meta and every chunk are gone for good": the store never again
\* knows a link that markLinkChunkServed has deleted, as long as no WebSocket
\* client takes its id for a transfer of its own (IdsApart).
BurnedStaysGone == \A id \in burned : ~Known(id)

\* "the failure direction is a retry, never an unburnable link": a link that
\* was burned once and that the store knows again, after a restart, still has
\* all of its chunks, so that the next complete pass can burn it.
NeverUnburnable ==
    \A id \in burned : Known(id) => Chunks(meta[id]) \subseteq Files(id)

-----------------------------------------------------------------------------
(* Safety of storage. *)

\* A chunk that status_result lists, and that nobody is rewriting, is stored
\* exactly as it was received.
ReceivedIsWhole ==
    \A id \in Ids : \A i \in received[id] :
        \/ chunk[id][i] # "torn"
        \/ \E p \in Handlers : /\ At(p, "data")
                               /\ task[p].id = id
                               /\ task[p].idx = i

\* No downloader of a link is sent a chunk that is not what its sender
\* uploaded: readChunk takes no lock, and relies on nobody writing a chunk of
\* a link that has been handed out.
DeliveredIntact ==
    \A p \in Handlers : task[p].op = "link_get" => task[p].buf # "torn"

\* p is about to publish the entry of id again, to read its directory, or to
\* remove this very file.
Awaits(p, id, i) ==
    /\ task[p].id = id
    /\ \/ task[p].pc \in {"commit", "list"}
       \/ At(p, "unlink") /\ p \in linked /\ i \in task[p].todo

\* Every chunk that has been stored belongs to a transfer the sweep will
\* find, or to a writeChunk or deleteTransfer that makes it so or removes it;
\* what a failed write leaves of a chunk may not, and neither may what a crash
\* leaves of a deletion.
NoOrphanChunks ==
    \A id \in Ids, i \in Index :
        chunk[id][i] = "whole" => Known(id) \/ \E p \in Procs : Awaits(p, id, i)

\* maxTransfersPerSender bounds the entries of one sender, in an instance
\* without crashes, without chunk writes of direct transfers and with ids of
\* links for links only: a writeChunk that is under way while its transfer is
\* deleted puts the entry back uncounted, and so does a restart before its
\* meta.json is unlinked.
SenderCap ==
    \A k \in Pubkeys : Cardinality(SentBy(k)) <= maxTransfersPerSender

-----------------------------------------------------------------------------
(* Safety of the life cycle. *)

\* The sweep takes no transfer that was used within the TTL.
SweepSparesTouched ==
    [][\A id \in Ids :
          /\ At(Sweeper, "forget") /\ task[Sweeper].id = id
          /\ Known(id) /\ meta'[id] = NoMeta
          => clock - meta[id].touched > TTL
      ]_vars

-----------------------------------------------------------------------------
(* Liveness. *)

\* Every request, and every deletion of the sweep, comes to its end: s.mu is
\* always released and nobody waits for it forever.
RequestsFinish == \A p \in Procs : ~At(p, "idle") ~> At(p, "idle")

\* A transfer nobody uses for longer than the TTL does not stay.
ExpiredIsSwept ==
    \A id \in Ids :
        Known(id) /\ clock - meta[id].touched > TTL
            ~> ~(Known(id) /\ clock - meta[id].touched > TTL)

\* Once every chunk of a one-time link has been written out, nothing of it
\* stays, in memory or on disk.
DownloadedIsDestroyed ==
    \A id \in LinkIds :
        LinkStart[id].oneTime /\ Chunks(LinkStart[id]) \subseteq sent[id]
            ~> ~Known(id) /\ id \notin dir

-----------------------------------------------------------------------------
(* The abstract specification of one-time links. *)

OneTimeLinks == {id \in LinkIds : LinkStart[id].oneTime}

\* A link the store has burned is destroyed when its directory is gone, too.
LinkPhase(id) ==
    IF Known(id) THEN "open"
    ELSE IF id \notin burned THEN "closed"
    ELSE IF id \in dir THEN "burned" ELSE "destroyed"

\* A download is admitted by its first check, and has delivered its chunk
\* when w.Write has succeeded.
Reading(p, id) ==
    /\ task[p].op = "link_get" /\ task[p].id = id
    /\ task[p].pc \in {"read", "send"}

Reads(id) == {task[p].idx : p \in {q \in Handlers : Reading(q, id)}}

Promise == INSTANCE BurnAfterRead WITH
    Links     <- OneTimeLinks,
    Parts     <- [id \in OneTimeLinks |-> Chunks(LinkStart[id])],
    phase     <- [id \in OneTimeLinks |-> LinkPhase(id)],
    reads     <- [id \in OneTimeLinks |-> Reads(id)],
    delivered <- [id \in OneTimeLinks |-> sent[id]]

\* One-time links behave like those of BurnAfterRead, in an instance without
\* crashes whose uploaders share a link when it is complete: every step of
\* the server is one of theirs or changes nothing they show.
KeepsPromise == Promise!Spec

=============================================================================
