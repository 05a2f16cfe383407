------------------------------ MODULE MetaFile ------------------------------
(***************************************************************************)
(* writeMeta of file-share (store.go) system call by system call, for one  *)
(* transfer: every writer uses the same meta.json.tmp, and the writeMeta   *)
(* of writeChunk, alone among its callers, runs without s.mu.  Store takes *)
(* writeMeta for one step; this module shows when it may.                  *)
(*                                                                         *)
(* A file is the transferMeta that is in it, reduced to what differs from  *)
(* one write to the next: TouchedAt, and the length of the JSON text.      *)
(* MarshalIndent writes TouchedAt without its trailing zeros, so a later   *)
(* text may be shorter than the one before.  A write at offset 0 over a    *)
(* longer text leaves the end of that text behind.                         *)
(***************************************************************************)
EXTENDS Integers

CONSTANTS
    Uploaders,       \* goroutines that run createTransfer and writeChunk
    Downloaders,     \* goroutines that run touchLinkTransfer
    MaxLen,          \* bound on the length of the text
    MaxTouch,        \* bound on the number of touches
    DiskFull,        \* TRUE if a write may fail
    UploadThenShare  \* TRUE if nobody downloads before the last upload

ASSUME MetaFileAssumption ==
    /\ Uploaders \cap Downloaders = {}
    /\ "free" \notin Uploaders \cup Downloaders
    /\ MaxLen \in Nat \ {0}
    /\ MaxTouch \in Nat
    /\ DiskFull \in BOOLEAN
    /\ UploadThenShare \in BOOLEAN

Writers == Uploaders \cup Downloaders

Version  == [touched : 1 .. MaxTouch, len : 1 .. MaxLen]
Damaged  == [touched : {0}, len : 0 .. MaxLen]    \* not a JSON text
Absent   == [touched |-> 0, len |-> -1]           \* no such file
Contents == Version \cup Damaged \cup {Absent}

Empty    == [touched |-> 0, len |-> 0]            \* a file just truncated
Whole(f) == f \in Version

VARIABLES
    entry,   \* s.meta[id], Absent if the store does not know the transfer
    tmp,     \* the contents of meta.json.tmp
    final,   \* the contents of meta.json
    mu,      \* who holds s.mu
    pc,      \* pc[p]: where goroutine p is in writeMeta
    m,       \* m[p]: the transferMeta it writes
    file,    \* file[p]: the name its open file goes by
    now,     \* the time of the last touch
    shared   \* the uploader has handed out the link

vars == <<entry, tmp, final, mu, pc, m, file, now, shared>>

Known == entry # Absent

Init ==
    /\ entry  = Absent
    /\ tmp    = Absent
    /\ final  = Absent
    /\ mu     = "free"
    /\ pc     = [p \in Writers |-> "idle"]
    /\ m      = [p \in Writers |-> Absent]
    /\ file   = [p \in Writers |-> "none"]
    /\ now    = 0
    /\ shared = FALSE

-----------------------------------------------------------------------------
(* The callers of writeMeta. *)

\* Mutant of Fresh: TouchedAt is not set.
FreshUntouched(p, len) ==
    /\ pc[p] = "idle"
    /\ now < MaxTouch
    /\ now' = now + 1
    /\ m'   = [m EXCEPT ![p] = [touched |-> now, len |-> len]]

\* A transferMeta with a fresh TouchedAt, to be written by p.
Fresh(p, len) ==
    /\ pc[p] = "idle"
    /\ now < MaxTouch
    /\ now' = now + 1
    /\ m'   = [m EXCEPT ![p] = [touched |-> now + 1, len |-> len]]

\* createTransfer, createLinkTransfer: s.mu is held until writeMeta returns.
CreateTransfer(p, len) ==
    /\ Fresh(p, len)
    /\ mu = "free"
    /\ ~Known
    /\ mu' = p
    /\ pc' = [pc EXCEPT ![p] = "create"]
    /\ UNCHANGED <<entry, tmp, final, file, shared>>

\* writeChunk, the chunk being on disk: publish m under s.mu, write it without.
WriteChunk(p, len) ==
    /\ Fresh(p, len)
    /\ mu = "free"
    /\ Known
    /\ UploadThenShare => ~shared
    /\ entry' = m'[p]
    /\ pc' = [pc EXCEPT ![p] = "open"]
    /\ UNCHANGED <<tmp, final, mu, file, shared>>

\* Mutant of TouchLinkTransfer: s.mu is released before writeMeta.
TouchUnlocked(p, len) ==
    /\ Fresh(p, len)
    /\ mu = "free"
    /\ Known
    /\ UploadThenShare => shared
    /\ entry' = m'[p]
    /\ pc' = [pc EXCEPT ![p] = "open"]
    /\ UNCHANGED <<tmp, final, mu, file, shared>>

\* touchLinkTransfer: s.mu is held, the error of writeMeta ignored.
TouchLinkTransfer(p, len) ==
    /\ Fresh(p, len)
    /\ mu = "free"
    /\ Known
    /\ UploadThenShare => shared
    /\ entry' = m'[p]
    /\ mu' = p
    /\ pc' = [pc EXCEPT ![p] = "open"]
    /\ UNCHANGED <<tmp, final, file, shared>>

\* Every upload has been acknowledged, and the link goes to its readers.
HandOut ==
    /\ ~shared /\ Known
    /\ \A p \in Uploaders : pc[p] = "idle"
    /\ shared' = TRUE
    /\ UNCHANGED <<entry, tmp, final, mu, pc, m, file, now>>

-----------------------------------------------------------------------------
(* writeMeta: os.WriteFile of meta.json.tmp, os.Rename to meta.json. *)

\* Mutant of Return: createTransfer ignores the error of writeMeta.
ReturnUnchecked(p, ok) ==
    /\ pc' = [pc EXCEPT ![p] = "idle"]
    /\ mu' = IF mu = p THEN "free" ELSE mu
    /\ entry' = IF ~Known THEN m[p] ELSE entry
    /\ m'  = [m EXCEPT ![p] = Absent]
    /\ UNCHANGED <<now, shared>>

\* writeMeta returns, and with it the caller; createTransfer publishes m if
\* there was no error.
Return(p, ok) ==
    /\ pc' = [pc EXCEPT ![p] = "idle"]
    /\ mu' = IF mu = p THEN "free" ELSE mu
    /\ entry' = IF ok /\ ~Known THEN m[p] ELSE entry
    /\ m'  = [m EXCEPT ![p] = Absent]
    /\ UNCHANGED <<now, shared>>

\* Mutant of OpenTmp: no O_TRUNC.
OpenWithoutTrunc(p) ==
    /\ pc[p] \in {"create", "open"}
    /\ tmp'  = IF tmp = Absent THEN Empty ELSE tmp
    /\ file' = [file EXCEPT ![p] = "tmp"]
    /\ pc'   = [pc EXCEPT ![p] = "write"]
    /\ UNCHANGED <<entry, final, mu, m, now, shared>>

\* O_CREATE|O_TRUNC: a file that is there is emptied, whoever writes to it.
OpenTmp(p) ==
    /\ pc[p] \in {"create", "open"}
    /\ tmp'  = Empty
    /\ file' = [file EXCEPT ![p] = "tmp"]
    /\ pc'   = [pc EXCEPT ![p] = "write"]
    /\ UNCHANGED <<entry, final, mu, m, now, shared>>

\* The file p has open becomes f.  Another writer may have renamed it, or
\* renamed another one over it.
SetFile(p, f) ==
    /\ tmp'   = IF file[p] = "tmp"   THEN f ELSE tmp
    /\ final' = IF file[p] = "final" THEN f ELSE final
    /\ file'  = [file EXCEPT ![p] = "none"]

FileOf(p) == IF file[p] = "tmp" THEN tmp ELSE final

Over(v, f) == IF f.len > v.len THEN [touched |-> 0, len |-> f.len] ELSE v

WriteTmp(p) ==
    /\ pc[p] = "write"
    /\ SetFile(p, Over(m[p], FileOf(p)))
    /\ pc' = [pc EXCEPT ![p] = "rename"]
    /\ UNCHANGED <<entry, mu, m, now, shared>>

\* Mutant of WriteTmpFails: the error of os.WriteFile is ignored.
WriteErrorIgnored(p) ==
    /\ pc[p] = "write"
    /\ DiskFull
    /\ \E len \in 0 .. m[p].len : SetFile(p, [touched |-> 0, len |-> len])
    /\ pc' = [pc EXCEPT ![p] = "rename"]
    /\ UNCHANGED <<entry, mu, m, now, shared>>

\* A part of the text is written, and stays there.
WriteTmpFails(p) ==
    /\ pc[p] = "write"
    /\ DiskFull
    /\ \E len \in 0 .. m[p].len :
          SetFile(p, [touched |-> 0,
                      len |-> IF len < FileOf(p).len THEN FileOf(p).len
                                                     ELSE len])
    /\ Return(p, FALSE)

Rename(p) ==
    /\ pc[p] = "rename"
    /\ tmp # Absent
    /\ final' = tmp
    /\ tmp'   = Absent
    /\ file'  = [q \in Writers |-> CASE file[q] = "tmp"   -> "final"
                                     [] file[q] = "final" -> "gone"
                                     [] OTHER             -> file[q]]
    /\ Return(p, TRUE)

\* ENOENT, another writer has renamed meta.json.tmp; or the directory cannot
\* be written.  A chunk that is stored is reported as an error.
RenameFails(p) ==
    /\ pc[p] = "rename"
    /\ tmp = Absent \/ DiskFull
    /\ Return(p, FALSE)
    /\ UNCHANGED <<tmp, final, file>>

-----------------------------------------------------------------------------
(* A crash and loadExisting: meta.json is read back, a transfer without a  *)
(* valid one is skipped; meta.json.tmp is not looked at.                   *)

Restart ==
    /\ entry' = IF Whole(final) THEN final ELSE Absent
    /\ mu'    = "free"
    /\ pc'    = [p \in Writers |-> "idle"]
    /\ m'     = [p \in Writers |-> Absent]
    /\ file'  = [p \in Writers |-> "none"]
    /\ UNCHANGED <<tmp, final, now, shared>>

Next ==
    \/ \E p \in Uploaders, len \in 1 .. MaxLen :
          CreateTransfer(p, len) \/ WriteChunk(p, len)
    \/ \E p \in Downloaders, len \in 1 .. MaxLen : TouchLinkTransfer(p, len)
    \/ \E p \in Writers :
          \/ OpenTmp(p) \/ WriteTmp(p) \/ WriteTmpFails(p)
          \/ Rename(p) \/ RenameFails(p)
    \/ HandOut
    \/ Restart

Spec == Init /\ [][Next]_vars

-----------------------------------------------------------------------------
(* Properties. *)

TypeOK ==
    /\ entry  \in Version \cup {Absent}
    /\ tmp    \in Contents
    /\ final  \in Contents
    /\ mu     \in Writers \cup {"free"}
    /\ pc     \in [Writers -> {"idle", "create", "open", "write", "rename"}]
    /\ m      \in [Writers -> Version \cup {Absent}]
    /\ file   \in [Writers -> {"none", "tmp", "final", "gone"}]
    /\ now    \in 0 .. MaxTouch
    /\ shared \in BOOLEAN

\* The file a writeMeta is about to rename to meta.json is there and holds
\* what this writeMeta wrote, although all of them use one name.
RenamesItsOwn ==
    \A p \in Writers : pc[p] = "rename" => tmp = m[p]

\* "a restarted server must not forget in-flight transfers": once known, a
\* transfer stays known, over failed writes and over a crash at any point of
\* any writeMeta (in this module nobody deletes it).
NotForgotten == [][Known => entry' # Absent]_vars

\* The TTL survives a restart: the TouchedAt on disk never goes back to that
\* of an earlier touch.
TouchesInOrder == [][final'.touched >= final.touched]_vars

\* Calls that take turns behave like those of AtomicMeta: the truncated, the
\* partly written and the renamed file never show, to a caller or a restart.
Atomic == INSTANCE AtomicMeta WITH
    Versions <- Version,
    None     <- Absent,
    meta     <- entry,
    disk     <- final,
    writing  <- {m[p] : p \in {q \in Writers : pc[q] # "idle"}}

WritesAtomically == Atomic!Spec

=============================================================================
