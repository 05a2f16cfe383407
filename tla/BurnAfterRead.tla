---------------------------- MODULE BurnAfterRead ----------------------------
(***************************************************************************)
(* What file-share promises of its one-time links, without goroutines,     *)
(* locks or files ("OneTime makes the share burn after its first complete  *)
(* download", server.go): a link is open, may be closed by its owner or    *)
(* its age, and is burned when each of its chunks has been delivered, and  *)
(* not before; a burned link never opens again, and what is left of it is  *)
(* destroyed.  A download that was admitted while the link was open may    *)
(* still be answered.                                                      *)
(***************************************************************************)
EXTENDS Integers

CONSTANTS
    Links,
    Parts      \* Parts[id]: the chunks of link id

VARIABLES
    phase,      \* "closed", "open", "burned" or "destroyed"
    reads,      \* reads[id]: chunks some admitted download is to deliver
    delivered   \* delivered[id]: chunks that have been delivered

vars == <<phase, reads, delivered>>

Init ==
    /\ phase     = [id \in Links |-> "closed"]
    /\ reads     = [id \in Links |-> {}]
    /\ delivered = [id \in Links |-> {}]

Move(id, from, to) ==
    /\ phase[id] \in from
    /\ phase' = [phase EXCEPT ![id] = to]
    /\ UNCHANGED <<reads, delivered>>

\* A closed link may open again: the chunk of a late writer brings it back.
Open(id)  == Move(id, {"closed"}, "open")
Close(id) == Move(id, {"open"}, "closed")

Admit(id, part) ==
    /\ phase[id] = "open"
    /\ reads' = [reads EXCEPT ![id] = @ \cup {part}]
    /\ UNCHANGED <<phase, delivered>>

\* Several downloads may be to deliver the same chunk.
Deliver(id, part) ==
    /\ part \in reads[id]
    /\ delivered' = [delivered EXCEPT ![id] = @ \cup {part}]
    /\ reads' \in {reads, [reads EXCEPT ![id] = @ \ {part}]}
    /\ UNCHANGED phase

Abandon(id, part) ==
    /\ reads' = [reads EXCEPT ![id] = @ \ {part}]
    /\ UNCHANGED <<phase, delivered>>

\* The sweep may have left nothing to destroy.
Burn(id) ==
    /\ Parts[id] \subseteq delivered[id]
    /\ \E left \in {"burned", "destroyed"} : Move(id, {"open", "closed"}, left)

Destroy(id) == Move(id, {"burned"}, "destroyed")

Next ==
    \E id \in Links :
        \/ Open(id) \/ Close(id) \/ Burn(id) \/ Destroy(id)
        \/ \E part \in Parts[id] :
              Admit(id, part) \/ Deliver(id, part) \/ Abandon(id, part)

Spec == Init /\ [][Next]_vars

=============================================================================
