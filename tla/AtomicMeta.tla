------------------------------ MODULE AtomicMeta -----------------------------
(***************************************************************************)
(* What writeMeta promises its callers, without files, names and system    *)
(* calls: a call succeeds in one step or changes nothing, and a restart    *)
(* finds what the last successful one wrote ("a restarted server must not  *)
(* forget in-flight transfers", store.go).  This is what Store takes       *)
(* writeMeta for.                                                          *)
(***************************************************************************)
CONSTANTS
    Versions,  \* the transferMeta of a transfer from one touch to the next
    None       \* no entry, no file

VARIABLES
    meta,      \* the entry in memory
    disk,      \* the entry on disk
    writing    \* what the calls under way are to write: one at a time

vars == <<meta, disk, writing>>

Init ==
    /\ meta    = None
    /\ disk    = None
    /\ writing = {}

\* An entry that is known is published before it is written, a new one after.
Call(v) ==
    /\ writing = {}
    /\ writing' = {v}
    /\ meta' = IF meta = None THEN None ELSE v
    /\ UNCHANGED disk

Succeed(v) ==
    /\ v \in writing
    /\ disk' = v
    /\ meta' = IF meta = None THEN v ELSE meta
    /\ writing' = {}

Fail ==
    /\ writing # {}
    /\ writing' = {}
    /\ UNCHANGED <<meta, disk>>

Restart ==
    /\ meta'    = disk
    /\ writing' = {}
    /\ UNCHANGED disk

Next ==
    \/ \E v \in Versions : Call(v) \/ Succeed(v)
    \/ Fail
    \/ Restart

Spec == Init /\ [][Next]_vars

=============================================================================
