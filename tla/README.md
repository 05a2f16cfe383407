# file-share in TLA+

file-share is a Go server that keeps encrypted transfers until somebody
collects them. It sees ciphertext only. What can go wrong in it is therefore
not in the data but in its life cycle: many goroutines, one lock that is held
for less than it seems, a directory tree written without it, a sweep, and
crashes. These modules model that life cycle from the code under `src/`; TLC
checks it on small instances, and TLAPS proves for all instances every safety
invariant that a passing run checks, and that one-time links keep their promise. Two smaller systems stand
beside it: the sessions and frames of the WebSocket connections, and the
rotating log.

## 1. Inventory

| Component | Source | State | Operations |
|---|---|---|---|
| Transfer store | `store.go` | `meta`, `received`, `served` under `s.mu`; `dataDir/<id>/meta.json` and `<i>.chunk` | `createTransfer`, `createLinkTransfer`, `writeChunk`, `readChunk`, `receivedIndices`, `touchLinkTransfer`, `markLinkChunkServed`, `deleteTransfer`, `sweep`, `loadExisting` |
| TTL sweeper | `main.go` | a ticker | calls `sweep` every hour |
| WebSocket protocol | `server.go` `dispatch` | none of its own | `start_upload`, `chunk`, `status`, `list`, `download`, `complete` |
| Link-share HTTP surface | `server.go` `handleLink*` | none of its own | start, upload, meta, download, delete |
| WebSocket session | `server.go` `handleWS`, `authenticate` | the connection, the expiry timer | hello, challenge, response, read loop, `session_expired` |
| WebSocket framing | `ws.go` | the bytes of a message so far | `writeFrame`, `readFrame`, `ReadMessage` with reassembly, pings and the two size limits |
| Broker key source | `delegate.go` | `pub`, `expiresAt` under an RWMutex | `current`, `set`, refresh loop |
| Access tokens | `token.go` | none | `verifyToken` |
| Log rotation | `logging.go` | the open file and its size | `Write`, `rotate` |
| Cryptography | `crypto.go` | none | X25519, HKDF, AES-GCM wrappers |
| Startup and routing | `main.go` | none | flags, routes, CORS |

**How they interact.** Each HTTP or WebSocket connection is served by a
goroutine. After authentication every control message is one `dispatch` call,
every link request one handler call, and both are short sequences of store
calls: a `getMeta` to check who may do it, then the operation, which looks the
transfer up again. The sweeper is one more caller. All of them share the three
maps, under `s.mu`, and the directory of the transfer, under nothing.

**What is hard.**

* `s.mu` is held across file system calls by `createTransfer`,
  `createLinkTransfer` and `touchLinkTransfer`, but not by `writeChunk`
  (released around `os.WriteFile`, and before `writeMeta`), `deleteTransfer`
  (released before `os.RemoveAll`), `readChunk` (never taken) and `sweep`
  (released between the collection and each deletion).
* `writeChunk` publishes the entry it read before the file write.
* The process can stop between any two of these steps, and `loadExisting`
  rebuilds the maps from whatever the directory tree holds. `served` is lost on
  purpose.
* A one-time link burns when the last of its chunks has been written out, by
  whichever of several concurrent downloaders that is.
* The handlers check `Mode`, `To` or the manage token once, at the beginning.
  `start_upload` takes any id of the right form that no entry has, that of a link
  which is gone included: the later steps of a link request may then meet a direct
  transfer, and those of a WebSocket request a link's chunks on their way out.
* `writeMeta` writes `meta.json.tmp` and renames it; all writers of a transfer
  use that one name, and `writeChunk` calls it without `s.mu`.
* The expiry timer writes to a connection from a second goroutine, and the
  refresh of the broker key runs beside every login.
* A client may cut messages into frames, put pings between them and pipeline; the
  data of a chunk is whatever binary message follows its header.
* A log rotation is a chain of renames that can stop, or fail, anywhere.

**What makes each component correct.**

* *Store*: an acknowledged chunk is on disk, whole, and survives a restart; an
  entry has its `meta.json`; chunk files do not outlive every way of finding
  them; the limit per sender holds.
* *Sweeper*: what expired goes, and only that goes.
* *Link surface*: a one-time link burns when, and only when, every chunk has
  been written to downloaders, and is then gone for good.
* *WebSocket protocol*: only the sender writes, only the recipient reads and
  completes; every request ends.
* *Session*: no dispatch before `auth_ok`; a session ends when its token expires.
* *Key source*: no key is used after its certificate has expired; a failed
  refresh never replaces a good key.
* *Framing*: messages arrive whole, in order and once; data is stored under the
  header it was sent after; a connection is refused as too large exactly when
  what is sent exceeds a limit.
* *Log rotation*: no file outgrows its limit, and what is dropped is the oldest.

The hazards, each at its line, are listed in `PROJECT.json`.

## 2. Modules

| Module | Content |
|---|---|
| `Store` | the store: memory, disk, and one action per atomic step of each store method |
| `FileShare` | the requests of both surfaces, the sweep and crashes, composed with `Store`; its properties, and the refinement mapping to `BurnAfterRead` |
| `BurnAfterRead` | what the server promises of one-time links, without goroutines, locks or files |
| `AtomicMeta` | what `writeMeta` promises its callers: one step or nothing |
| `MetaFile` | `writeMeta` system call by system call, with the temporary file all writers of a transfer share |
| `WsSession` | a WebSocket connection from upgrade to close, the expiry timer, the broker's key and its refresh |
| `WsFraming` | frames, messages and the pairing of chunk headers with their data |
| `RotatingLog` | the log file and its rotation, system call by system call |
| `MC...` | values of the constants of each of these for TLC |
| `FileShareProofs` | types, and when a link burns |
| `PromiseProofs` | `FileShare` implements `BurnAfterRead` |
| `IntactProofs` | downloaders of a link read whole chunks |
| `StoreProofs` | the limit per sender, chunks left behind, received chunks |
| `MetaFileProofs`, `WsSessionProofs`, `WsFramingProofs`, `RotatingLogProofs` | proofs about the module each is named after |

`Store` and `FileShare` are one specification; `BurnAfterRead` is its abstraction, and
`AtomicMeta` that of `MetaFile`.
The others meet it at a boundary each: `MetaFile` opens up the step `WriteMeta` of
`Store`; `WsSession` is what happens around a `dispatch`, of which it sees the number
of frames it writes, while `FileShare` starts where a session hands it a message with
the pubkey of the connection; `WsFraming` is how that message, and the data of a
chunk after it, got there. `RotatingLog` shares nothing with the rest.

### Store

A store method is cut wherever another goroutine or a crash can see the
difference: at each acquisition of `s.mu` and each file system call.
`task[p]` is the stack of goroutine `p`: the step it is at (`pc`), the request
it serves (`op`, `id`, `idx`), the local `transferMeta` (`held`), the names or
indices still to go through (`todo`) and the chunk read for a downloader
(`buf`).

| Code | Actions |
|---|---|
| `createTransfer`, `createLinkTransfer` | `Create` (lock, lookup, limit, `MkdirAll`), `CreateCommit` (`writeMeta`, publish, unlock) or `CreateFail` |
| `writeChunk` | `WriteLookup`, `WriteOpen` (create and truncate), `WriteData` or `WriteFail`, `WriteCommit`, `WritePersist` |
| `deleteTransfer` | `Forget` (the three map deletes), then `os.RemoveAll`: `ListDir`, `Unlink` per name in any order, `RemoveDir` |
| `markLinkChunkServed` | `MarkServed`, followed by the steps of `deleteTransfer` if it burns |
| `touchLinkTransfer` | `TouchLink`, part of the download's step |
| `receivedIndices`, `readChunk` | `ReceivedIndices` and `Stored` in `FileShare` |
| `sweep` | `SweepCollect` (under `s.mu`), `SweepNext` per id, then `deleteTransfer` |
| crash, `loadExisting` | `Restart` |

`s.mu` is a variable only implicitly: a critical section that is one step needs
no owner, and the two that are longer hold it exactly while a goroutine is at
`create` (`LockFree`). Chunk contents are `absent`, `torn` (truncated, or partly
written) or `whole`. `linked` says whose open file or directory is still
reachable by name: a writer whose file was unlinked goes on and changes
nothing.

`writeMeta` is one step here. `MetaFile` shows that it may be, as long as the calls
for one transfer take turns, which they do under `s.mu` and with an uploader that
waits for its acknowledgements: it then implements `AtomicMeta`, whose `Succeed` and
`Fail` are the `WriteMeta` and `WriteMetaFails` of `Store`. It also shows what happens
when they do not (`meta_torn`, below).

### FileShare

Every request that passes its first check starts a task; a refused request
changes nothing and is not a step. `Chunk` and `handleLinkChunkUpload` stop
between check and `writeChunk`, where the frame or body arrives (`BodyLost` if it
does not). `TouchAndSend` is `touchLinkTransfer` and `w.Write`, which may fail.
`status`, `list` and `handleLinkMeta` change nothing and have no action.

`sent` and `burned` are observations: which chunks `w.Write` took since the
process started, and which links `markLinkChunkServed` has deleted. `minted`
are the ids drawn by `genRandomToken`, which never repeats one. WebSocket clients
take their ids from `DirectIds`; if it shares ids with `LinkIds`, they may use such an
id as soon as it has been drawn and no entry has it, but they do not guess 16 random
bytes before that.

### BurnAfterRead

One-time links only (`OneTimeLinks`). A link is closed, open, burned or destroyed;
downloads are admitted while it is open, each may deliver its part or be
abandoned, and a burn needs every part delivered. The mapping: a link is open while
the store knows it, burned from the burn's `Forget` until its directory is gone,
destroyed then; `reads` are the parts of the downloads between their first check and
`w.Write`; `delivered` is `sent`. A link may be closed and open again before it is
burned, because a chunk write under way while the owner deletes the link brings it
back; after the burn it may not.

### MetaFile

One transfer. `CreateTransfer`, `WriteChunk` and `TouchLinkTransfer` are the callers,
the latter two with what they do under `s.mu` first; `OpenTmp`, `WriteTmp` or
`WriteTmpFails`, `Rename` or `RenameFails` are the system calls, `Restart` the crash and
`loadExisting`. A file is the `TouchedAt` in it and the length of the text, since a
longer text that is overwritten by a shorter one, through two open descriptors,
leaves a tail and is no JSON. A descriptor follows its file over a rename (`file`).

`AtomicMeta` has the entry in memory, the one on disk and what a call is about to write.
The mapping takes `meta.json` for the disk and forgets `meta.json.tmp`: opening and
writing it is nothing, `Rename` is `Succeed`, both failures are `Fail`.

### WsSession

| Code | Actions |
|---|---|
| `upgradeWebSocket` | `Upgrade` |
| `authenticate` | `Hello` (reads the key, `current`), `Challenge` (`verifyToken` with the key read before), `Begin` (right response, `auth_ok`, timer armed), `AuthFails` |
| read loop of `handleWS` | `ReadBuffered`, `ReadSocket`, `ReadFails`, `PeerLeaves`; `LoopLock` and `FrameWritten` or `FrameFails` per frame |
| deferred `Stop` and `Close` | `StopTimer`, `LoopLock`, `LoopClose` |
| `time.AfterFunc` | `Fire`, then `session_expired` and `Close`: `TimerLock`, `TimerWrites`, `TimerCloses` |
| `writeFrame` | `Lock`, `Unlock`; `partial` are the writers with an unfinished frame |
| `newStaticKeySource`, `newDelegateKeySource` | `KeyInit`; `RefreshTick`, `Resolve` or `ResolveFails`, `SetKey` |

A connection slot is reused once its handler and its timer goroutine have
returned. `buffered` counts messages the `bufio.Reader` already holds: they are read
and dispatched after `conn.Close`, too. A certificate is a key with two times;
that it is signed by the root for the root is part of `Resolve`. `helloAt` is an
observation.

The comment at `ws.go:50` that only the read loop writes to a connection is out of
date: the timer does, and the `writeMu` it describes as a precaution is what keeps
frames whole.

### WsFraming

The peer says messages in frames of its choice (`SendFirst`, `SendContinuation`) with
control frames in between (`SendControl`), a continuation without a beginning
included; `ReadFrame` is one `readFrame` with what `ReadMessage`, the read loop and
`dispatch` do about it. `EncodeLength` and `DecodeLength` work on the bytes of the
extended length. A payload is the sequence of the parts it was cut into, each with
its real length and whether it is masked; `size` is the `len(message)` that `ReadMessage`
compares with the limit; XOR with the same key twice is nothing.
A chunk header may be refused by `dispatch` for reasons of the store: `header'` is then
0 and the data after it is a stray binary message.

### RotatingLog

`Log` is a line on its way through stdout to `rotatingFile.Write`, which rotates
(`CloseFile`, `RemoveOldest`, `Shift`, `MoveCurrent`, `Reopen`) or goes on to `WriteLine`.
`MayFail` names the calls that may fail. `CrashRestart` includes `newRotatingFile` and its
`Stat`. A rotation that fails after `CloseFile` leaves the file closed until the next
start, as in the code.

## 3. Properties and runs

| Run | Properties | Setting and what it shows |
|---|---|---|
| `both_modes` | `TypeOK`, `CoveredIsBurning`, `BurnIsEarned` | A one-time link of two chunks, and direct transfers that WebSocket clients start under its id once it is gone; every kind of request, two goroutines, failing writes, crashes at any step (1.7 million states; the clock stands still, so that nothing expires). A link is used up exactly when somebody is burning it, and is burned only when all of it was written out, whatever entry its id has by then. |
| `two_uploads` | `SenderCap` | Two transfers of a sender with a limit of one, one of them started again with another flag, while they are completed and swept and the disk fails. |
| `link_life` | `DeliveredIntact`, `NoOrphanChunks`, `KeepsPromise`, `DownloadedIsDestroyed`, `RequestsFinish`, `ExpiredIsSwept` | The intended use of a one-time link under fair scheduling: upload, then hand out, two downloaders, burn, sweep, failing writes. It implements `BurnAfterRead`; it is destroyed; nothing blocks for ever; what expires goes; no torn chunk is read for a downloader and none becomes unreachable. |
| `meta_file` | `TypeOK`, `RenamesItsOwn`, `NotForgotten`, `TouchesInOrder`, `WritesAtomically` | One uploader, then two downloaders, failing and partial writes, crashes. `meta.json` is never damaged or set back, and `writeMeta` is one step. |
| `ws_session` | `TypeOK`, `FramesAreWhole`, `AdmittedByLiveKey`, `SessionIsTimed`, `ExpiredSessionEnds`, `RotationIsPickedUp` | One connection slot after another session, static key or two certificates of which the newer ends first, tokens of both keys and of a plan that does not include the service. No mixed frames, no admission by a lapsed key, no session beyond its token or cut off before, no rotation that is missed. |
| `ws_framing` | `TypeOK`, `MessagesArriveWhole`, `ChunksArePaired`, `RefusedForCause` | Up to four frames, any fragmentation, pings, pongs and closes anywhere (1 million states). Messages arrive whole, data follows its header, and nothing that exceeds a limit is taken, nor anything else refused as too large. |
| `rotating_log` | `TypeOK`, `FilesBounded`, `KeepsNewest`, `OnlyOldestIsLost` | Six lines through three rotated files, failing calls and crashes between any two (1.4 million states). |

Runs that end in a counterexample, each against a sentence of the repository
quoted in `PROJECT.json`:

| Run | Property | What the code does |
|---|---|---|
| `sweep_vs_touch` | `SweepSparesTouched` | `sweep` deletes ids it collected earlier without looking again; a download that touches the link in between does not save it. |
| `burn_vs_upload` | `BurnedStaysGone` | `writeChunk` publishes the entry it read before the write; a PUT that overlaps the burn brings the burned link back, with chunks listed that are not there. |
| `torn_chunk` | `ReceivedIsWhole` | Chunks are written in place; after a crash the restart takes a truncated one for received. |
| `crash_in_burn` | `NeverUnburnable` | A crash inside the burn's `RemoveAll` leaves a link without some of its chunks: it can never be covered again. |
| `meta_torn` | `NotForgotten` | Two chunk writes of one transfer share `meta.json.tmp`; one renames the file the other has just truncated, and a crash then loses the transfer. |

The passing runs leave out what these show to be broken, and say so by their
constants: `link_life` has no crashes and an uploader that sends each chunk once and
hands out the link afterwards (`UploadThenShare`), `two_uploads` no chunk writes,
`meta_file` one uploader, `rotating_log` no failing shift: `rotate` ignores the error of a
shift, the next one then overwrites a file that is not the oldest, and `KeepsNewest`
and `OnlyOldestIsLost` are false.

`DeliveredIntact` is about downloads of links. A recipient who downloads a direct
transfer while one of its chunks is sent again may be sent part of it.

Further known consequences of the same steps, visible in the model by adding
requests to a configuration: an entry put back by `writeChunk` is not counted
against the limit of its sender, lists chunks that are not on disk and may bring
back the flags of an earlier transfer; so does a restart that finds the `meta.json`
of a transfer whose deletion had only reached the maps; a `start_upload` between the
sweep's `Forget` and its `RemoveAll` (`store.go:338`) loses its `meta.json`, and with it
the transfer at the next restart; `complete` may delete a transfer re-created as
shareable after its check; a link request that passed its check of `Mode` before
the burn goes on with the direct transfer a client has started under the id since:
a PUT may publish over it, or write a chunk of it, a download may touch it and send a
chunk of it, and a DELETE may delete it; a crash inside `RemoveAll` after `meta.json` went leaves
chunks nothing refers to.

**Bounds.** Two goroutines in `FileShare`: every race in section 1 is one between
two of them, or one and the sweeper, which is a third process. Two chunks where
sets of chunks matter, one otherwise. `MaxClock` 1 with TTL 0 is the smallest
clock on which an entry can be used, expire and be used again; `both_modes` has a
clock of one instant, in which nothing expires, so that crashes and all requests fit. Its link
and its direct transfers share one id, the closest the two protocols can meet; in the
other runs `IdsApart` holds. A
limit of one transfer makes the second one hit it. Indices asked for run from
-1 to one past the end. In `meta_file` five touches let the create, an upload and a
second round of both downloaders meet, and two lengths are a longer and a shorter
text. In `ws_session` connections share nothing but the key
source, which they only read, so one slot is enough; three instants let a
certificate lapse before, at and after the expiry of a token. In `ws_framing` the
lengths 126, 65536 and 65537 take a two byte and an eight byte encoding, and meet the
frame limit of 65536 and go one beyond it; 65536 + 126 is exactly the message
limit, so that two fragments meet it and three exceed it. Four frames are
the shortest header, header, data, stray sequence, or a message of two fragments
with a ping inside and one after it. In `rotating_log` a line of 4 does not fit a file of
3 alone, and six lines make every one of the four files exist and the oldest go.
Symmetry of the goroutines is used only in runs without liveness.

**Fairness** (`Fairness` of `FileShare`, in the run `link_life`). Strong
fairness for the steps that need `s.mu`: `sync.Mutex` switches to hand-over for
a waiter older than a millisecond, so whoever waits gets it if it is released
again and again. Weak fairness for the others: a runnable goroutine runs, file
system calls return, and a frame, a body or a `w.Write` arrives or fails, which
for a peer that neither reads nor leaves is TCP's decision, not the server's.
The sweep is fair because its ticker never stops. Requests, the clock and
crashes are never promised.

`Fairness` of `WsSession` is the same for `writeMu` and the steps of the two
goroutines: it takes every write to return, which a peer that stops reading and
stays can prevent, as connections have no deadline. A successful fetch of the
certificate is strongly fair: a broker that is reached again and again is
eventually reached while its certificate is valid. It takes each fetch to end;
`http.DefaultClient` has no timeout. Nothing is assumed of clients: they may sit
in the handshake or the session for ever. The other modules state safety only.

**Deadlock** checking is off in all runs: requests, touches, frames, lines and
clocks are bounded, so an instance may come to rest. That nothing blocks in the middle
is `RequestsFinish` and `ExpiredSessionEnds`.

## 4. Not modelled

* Refused requests, `status`, `list` and the `meta` endpoint: they change nothing.
* The bytes of a chunk: two concurrent writes of one chunk with different bytes
  look alike. Two writers to one file are still two writers.
* The broker's key and the plan of the token in `handleLinkStart`
  (`server.go:349-357`): the model admits every start. `WsSession` has `current` and
  `VerifyToken` for the other caller.
* A leftover `meta.json.tmp` among the names `RemoveAll` goes through (`Listing`): it
  would be one more name to unlink.
* Whether bytes handed to `w.Write` arrive.
* Failing `unlink`s and `rmdir`s of a transfer, except the `rmdir` of a directory into
  which something was written meanwhile.
* Several goroutines in one `Write` of the log: `slog`'s handler and `r.mu` let one in.
* `rotatingFile.Close`: it is deferred in a `main` that ends in `log.Fatal`, which skips it.
* Frames of 2^31 bytes and more: `Max16` and the limits are far below.
* `crypto.go`: wrappers of X25519, HKDF and AES-GCM without state; a model would
  assume what it should show. What depends on them is one step (`Begin`, `Resolve`,
  `VerifyToken`).
* Flags, routes, CORS and formatting: straight-line configuration.

## 5. Proofs

All theorems hold for all values of the constants that satisfy the named
assumptions of the modules: any number of goroutines, ids, chunks, certificates, files,
any clock bound. Those that need more name it.

| Theorem | Property | Assumes in addition |
|---|---|---|
| `FileShareProofs!TypeCorrect` | `TypeOK` | |
| `FileShareProofs!UsedUpLinkIsBurning` | `CoveredIsBurning` | |
| `FileShareProofs!BurnsAreEarned` | `BurnIsEarned` | |
| `PromiseProofs!ServerKeepsPromise` | `KeepsPromise` (refinement of `BurnAfterRead`) | `Shared` |
| `PromiseProofs!BurnedLinksStayGone` | `BurnedStaysGone` | `Shared` |
| `IntactProofs!LinkChunksAreWhole` | `DeliveredIntact` | `Shared` |
| `StoreProofs!SendersAreCapped` | `SenderCap` | `Settled` |
| `StoreProofs!NoChunkIsOrphaned` | `NoOrphanChunks` | `~Crashes` |
| `StoreProofs!ReceivedChunksAreWhole` | `ReceivedIsWhole` | `~Crashes`, `~DiskFull` |
| `MetaFileProofs!SerialTypes`, `!SerialRenames`, `!SerialNotForgotten`, `!SerialTouches` | `TypeOK`, `RenamesItsOwn`, `NotForgotten`, `TouchesInOrder` | `Serial` |
| `MetaFileProofs!SerialIsAtomic` | `WritesAtomically` (refinement of `AtomicMeta`) | `Serial` |
| `WsSessionProofs!SessionTypeCorrect` | `TypeOK` | |
| `WsSessionProofs!FramesNeverMix` | `FramesAreWhole` | |
| `WsSessionProofs!LapsedKeysAdmitNobody` | `AdmittedByLiveKey` | |
| `WsSessionProofs!SessionsAreTimed` | `SessionIsTimed` | |
| `WsFramingProofs!LengthSurvives`, `!PayloadSurvives` | | |
| `WsFramingProofs!FramingTypeCorrect` | `TypeOK` | |
| `WsFramingProofs!MessagesAreWhole` | `MessagesArriveWhole` | |
| `WsFramingProofs!ChunksPair` | `ChunksArePaired` | |
| `WsFramingProofs!RefusalsHaveCause` | `RefusedForCause` | |
| `RotatingLogProofs!LogTypeCorrect`, `!LogFilesBounded` | `TypeOK`, `FilesBounded` | |
| `RotatingLogProofs!NewerLinesAreKept` | `OnlyOldestIsLost` | `ShiftsWork` |
| `RotatingLogProofs!NewestAreInOrder` | `KeepsNewest` | `ShiftsWork` |

*The assumptions.* `IdsApart` is that no client starts a direct transfer under the id of
a link. The code does not enforce it, so the modules do not assume it: the types and
the burn (`FileShareProofs`), orphaned chunks and received chunks are proved without it.
`Shared` is `IdsApart`, `UploadThenShare` and no crashes; `crash_in_burn` and
`burn_vs_upload` show that the promise fails without the last two. `Settled` is
`IdsApart`, no crashes and no chunk writes of direct transfers; the consequences listed in
section 3 show why. `Serial` is `UploadThenShare` and one uploader; `meta_torn` has two.
`ShiftsWork` is that no `os.Rename(path.i, path.(i+1))` fails; `rotate` ignores their errors.
A crash between the steps of `RemoveAll` leaves chunks without a `meta.json`, and a crash or
a full disk leaves torn ones (`torn_chunk`), hence `~Crashes` and `~DiskFull`. `WsFraming`
assumes that `maxFrameSize` is at least 125, the longest control frame.

*`TypeInv`.* `TypeOK` alone is not inductive: `WriteCommit` adds `task[p].idx` to
`received`, which is in bounds only because of the
lookup steps earlier. `LocalOK` says what a goroutine knows at each step: the
index it works on is in range, and the entry it holds is one its id may have. `StoredOK`
says the same of every entry in memory or on disk (`Proper`): a link entry, under an id of
`LinkIds` and with what its `/link/start` said, or a direct entry under one of
`DirectIds`. Which of the two an id has may change between two steps of a request, and
the invariant says nothing against it.

*`BurnInv`.* A link's `served` set contains only indices that
were sent; a goroutine about to mark its index has sent it; a goroutine that
was told to burn found the set complete; and a covered link has such a goroutine.
The last part speaks of the `served` set and of what `/link/start` said, and not of the entry the
id has at the moment, which `writeChunk` or a `start_upload` may put there while the
burn is under way. It needs that only `Forget` and a restart empty `served`, and that
an entry that burns is a link entry (`BurnsUsedUp`), which has the link's total. Most
actions change none of this; `QuietStep` says so once.

*`ShareInv`.* A burned link would open again if a `writeChunk` that looked it up before
published it afterwards. Under `UploadThenShare` a link is downloaded only when it is
complete and no upload is in a handler, and a late upload names an index that is
already received, or none. So while a download is under way, and ever after the burn,
no goroutine is past the lookup with an entry of that link, and one that is before it
names an index that `writeChunk` refuses (`Harmless`). From this each step of the
server is shown to be a step of `BurnAfterRead` or to change nothing it shows: the
burn is `Burn` because `BurnInv` says all parts were delivered; `WriteCommit` of a link
not burned is `Open` or nothing; `TouchAndSend` is `Deliver` or `Abandon`. Several
downloads may be to deliver one part, so that the abstract `reads` may or may not
lose it.

*`IntactInv`.* At most one `writeChunk` is at work on a chunk of a link, an index
enters `received` only after its file is whole, and by `ShareInv` no writer is left when
a download is admitted. `readChunk` needs no lock for that reason and for no other.

*`CapInv`.* `s.mu` is held from the count to the publication of the new entry, so there
is one creator at a time, its id stays unknown and its sender below the limit until it
commits (`CreateCap`, `CommitCap`). All other steps are `Plain`: under `s.mu` they
remove entries, touch them, or work on a link, which is nobody's transfer; this is
where `IdsApart` is used, for a PUT under way could put a direct entry back that
`createTransfer` has not counted.

*`FilesInv`.* A file is found through the directory it was opened in: a chunk on disk
has its directory, a writer that is still `linked` has its file there, and whoever can
still find a whole chunk of an unknown transfer answers for it (`Awaits`): a
`writeChunk` will publish the transfer, or a `RemoveAll` has the chunk still before it. A
torn file has a writer unless a write failed. Of the steps, only those of `os.WriteFile`
and `os.RemoveAll` touch files; `SameFiles` deals with all the others.

*`MetaInv`.* Whoever is in `writeMeta` is alone in it: an uploader before the link is
handed out, a downloader after it and with `s.mu` (`Alone`). Then the temporary file is
his, from `OpenTmp` to `Rename` (`Progress`), and `meta.json` is absent or whole and no
younger than the last touch. So at most one call is under way, its `Rename` puts its own
text in place, and a restart finds a whole file or none: each system call is a step of
`AtomicMeta` or nothing.

*`WriterInv`, `KeyInv`, `DataInv`.* `WriterInv` ties `writeMu` to the two program counters:
who is inside `writeFrame`
holds it, and there is no timer before the session begins, so that arming it
cannot overwrite one that is writing. `KeyInv` says that the cached key and expiry
belong to one certificate, hence `current` returns only keys alive at that moment,
and that the goroutine keeps that key until the session begins, whatever the
refresh loop does meanwhile. `DataInv` has the other types; it needs that a dispatch
with a frame to write has counted it. `SessionIsTimed` is inductive with these: there is
no timer before `Begin`, which arms it for the token of this session, each way out of the
read loop stops it, and it is gone only after its own `conn.Close`.

*Framing.* The decoded length is the encoded one by the division theorem, byte by byte,
below 2^31, and unmasking the masked payload gives it back.

*`FrameInv`.* What the peer says and what the server has read are two sequences of
messages that the frames on the wire connect. Instead of a fold over the wire, `Path` has
a function of snapshots, one per frame, the first of which is what the server has and the
last what the peer has said: reading a frame drops the first, sending one adds a last.
`Behind` holds of each snapshot, so that none is ahead of the peer; the received
messages are a prefix of those sent at every point, and the message in the making is
never larger than the one being sent, nor contains a part that is not in it. A refusal
for size is then one for the size of the peer's own message; and what was accepted or
is being reassembled is within both limits, as each frame was when it was read.

*`BoundInv`.* `r.size` is the length of the open file whichever calls failed, and a
line is written only where it fits or comes first (`SizeOK`).

*`GapInv`.* The shifts leave a gap behind them: `path.(i+1)` is missing unless it is
`path.maxFiles`, so that no rename replaces lines other than the oldest. A crash leaves
the gap there, and the next rotation makes its own. `KeepsNewest` has for each file the
place in the log where it ends (`Cuts`), non-increasing in the number of the file; a rename
into a gap moves two of these places, a removal one, and an appended line the first.

**Model-checked only.** Liveness (`DownloadedIsDestroyed`, `RequestsFinish`,
`ExpiredIsSwept`, `ExpiredSessionEnds`, `RotationIsPickedUp`), which is out of the
prover's reach. Every invariant, action property and refinement of the passing runs is
proved, those under an assumption for the instances that satisfy it.

## 6. Plan

Done: `Store` and `FileShare` (the core), their runs and proofs; `WsSession`; then
`MetaFile`, `BurnAfterRead` with the proof of the refinement, `WsFraming`,
`RotatingLog`, `AtomicMeta`, and the proofs of what the runs of these check. Left:

1. `ReceivedIsWhole` for links of a server that may crash but not in a chunk write.
2. `SenderCap` with chunk writes under an assumption on clients only: a transfer is
   completed after its last upload has been acknowledged.
