-------------------------- MODULE WsSessionProofs --------------------------
(***************************************************************************)
(* The safety properties of WsSession, for all values of the constants:    *)
(* frames of the two writers are never mixed, in delegate mode every       *)
(* session was admitted by a key whose certificate had not expired, every  *)
(* open session has its timer, and the variables stay in their ranges.     *)
(***************************************************************************)
EXTENDS WsSession, FiniteSetTheorems, TLAPS

-----------------------------------------------------------------------------
(* writeMu. *)

\* Who is inside writeFrame holds writeMu, nobody else has a frame in the
\* buffer, and there is no timer before the session begins.
WriterOK(c) ==
    /\ writeMu[c] \in {"free", "loop", "timer"}
    /\ partial[c] = (IF writeMu[c] = "free" THEN {} ELSE {writeMu[c]})
    /\ loop[c] \in {"writing", "leaving"} <=> writeMu[c] = "loop"
    /\ timer[c] \in {"notifying", "closing"} <=> writeMu[c] = "timer"
    /\ loop[c] \in {"hello", "verify", "response"} => timer[c] = "off"

WriterInv ==
    /\ loop    \in [Conns -> LoopPC]
    /\ timer   \in [Conns -> TimerPC]
    /\ writeMu \in [Conns -> {"free", "loop", "timer"}]
    /\ partial \in [Conns -> SUBSET Goroutines]
    /\ \A c \in Conns : WriterOK(c)

LEMMA WriterInit == Init => WriterInv
  BY DEF Init, WriterInv, WriterOK, LoopPC, TimerPC, Goroutines

\* The deferred Stop turns an armed timer off and leaves a fired one alone.
LEMMA StopTimerEffect ==
  ASSUME NEW c \in Conns, timer \in [Conns -> TimerPC], StopTimer(c)
  PROVE  /\ timer' \in [Conns -> TimerPC]
         /\ \A d \in Conns : timer'[d] # timer[d]
                               => timer[d] = "armed" /\ timer'[d] = "off"
<1>1. CASE timer[c] = "armed"
  BY <1>1 DEF StopTimer, TimerTo, TimerPC
<1>2. CASE timer[c] # "armed"
  BY <1>2 DEF StopTimer, TimerTo, TimerPC
<1> QED
  BY <1>1, <1>2

\* A connection is looked at on its own: a step of one leaves the others as
\* they are, and the bounds of the four variables follow from its new values.
LEMMA WriterOfOne ==
  ASSUME WriterInv, NEW c \in Conns,
         loop'    \in [Conns -> LoopPC],
         timer'   \in [Conns -> TimerPC],
         writeMu' \in [Conns -> {"free", "loop", "timer"}],
         partial' \in [Conns -> SUBSET Goroutines],
         \A d \in Conns \ {c} : /\ loop'[d] = loop[d]
                                /\ timer'[d] = timer[d]
                                /\ writeMu'[d] = writeMu[d]
                                /\ partial'[d] = partial[d],
         WriterOK(c)'
  PROVE  WriterInv'
<1>1. ASSUME NEW d \in Conns PROVE WriterOK(d)'
  <2>1. CASE d = c
    BY <2>1
  <2>2. CASE d # c
    <3>1. WriterOK(d)
      BY DEF WriterInv
    <3>2. /\ loop'[d] = loop[d]       /\ timer'[d] = timer[d]
          /\ writeMu'[d] = writeMu[d] /\ partial'[d] = partial[d]
      BY <2>2
    <3> QED
      BY <3>1, <3>2 DEF WriterOK
  <2> QED
    BY <2>1, <2>2
<1> QED
  BY <1>1 DEF WriterInv

\* The read loop moves on, without writeMu before and after.
LEMMA LoopMoves ==
  ASSUME WriterInv, NEW c \in Conns, NEW pc \in LoopPC \ {"writing", "leaving"},
         loop[c] \notin {"writing", "leaving"},
         pc \in {"hello", "verify", "response"} => timer[c] = "off",
         loop' = [loop EXCEPT ![c] = pc],
         UNCHANGED <<timer, writeMu, partial>>
  PROVE  WriterInv'
<1>1. loop' \in [Conns -> LoopPC] /\ loop'[c] = pc
  BY DEF WriterInv
<1>2. \A d \in Conns \ {c} : loop'[d] = loop[d]
  BY DEF WriterInv
<1>3. WriterOK(c)
  BY DEF WriterInv
<1>4. WriterOK(c)'
  BY <1>1, <1>3 DEF WriterOK
<1> QED
  BY <1>1, <1>2, <1>4, WriterOfOne DEF WriterInv

\* The read loop leaves the session without writeMu and stops the timer.
LEMMA LoopStops ==
  ASSUME WriterInv, NEW c \in Conns,
         loop[c] \in {"read", "writing"},
         loop' = [loop EXCEPT ![c] = "leave"],
         StopTimer(c),
         writeMu' = [writeMu EXCEPT ![c] = IF loop[c] = "writing"
                                           THEN "free" ELSE @],
         partial' = [partial EXCEPT ![c] = @ \ {"loop"}]
  PROVE  WriterInv'
<1>1. WriterOK(c)
  BY DEF WriterInv
<1>2. /\ timer' \in [Conns -> TimerPC]
      /\ \A d \in Conns : timer'[d] # timer[d]
                            => timer[d] = "armed" /\ timer'[d] = "off"
  BY StopTimerEffect DEF WriterInv
<1>3. \A d \in Conns \ {c} : timer'[d] = timer[d]
  BY DEF StopTimer, TimerTo, WriterInv
<1>4. /\ loop' \in [Conns -> LoopPC] /\ loop'[c] = "leave"
      /\ \A d \in Conns \ {c} : loop'[d] = loop[d]
  BY DEF WriterInv, LoopPC
<1>5. /\ writeMu' \in [Conns -> {"free", "loop", "timer"}]
      /\ writeMu'[c] = IF loop[c] = "writing" THEN "free" ELSE writeMu[c]
      /\ \A d \in Conns \ {c} : writeMu'[d] = writeMu[d]
  BY DEF WriterInv
<1>6. /\ partial' \in [Conns -> SUBSET Goroutines]
      /\ partial'[c] = partial[c] \ {"loop"}
      /\ \A d \in Conns \ {c} : partial'[d] = partial[d]
  BY DEF WriterInv
<1>7. timer'[c] \in {"notifying", "closing"} <=> timer[c] \in {"notifying", "closing"}
  BY <1>2
<1>8. WriterOK(c)'
  BY <1>1, <1>4, <1>5, <1>6, <1>7 DEF WriterOK
<1> QED
  BY <1>2, <1>3, <1>4, <1>5, <1>6, <1>8, WriterOfOne

\* Either goroutine takes writeMu, which is free, and starts a frame.
LEMMA WriterLocks ==
  ASSUME WriterInv, NEW c \in Conns, NEW g \in Goroutines,
         NEW lpc \in LoopPC, NEW tpc \in TimerPC,
         Lock(c, g),
         loop' = [loop EXCEPT ![c] = lpc], timer' = [timer EXCEPT ![c] = tpc],
         lpc \in {"writing", "leaving"} <=> g = "loop",
         tpc \in {"notifying", "closing"} <=> g = "timer",
         lpc \notin {"hello", "verify", "response"}
  PROVE  WriterInv'
<1>1. WriterOK(c) /\ writeMu[c] = "free" /\ partial[c] = {}
  BY DEF WriterInv, WriterOK, Lock
<1>2. /\ loop' \in [Conns -> LoopPC] /\ loop'[c] = lpc
      /\ \A d \in Conns \ {c} : loop'[d] = loop[d]
  BY DEF WriterInv
<1>3. /\ timer' \in [Conns -> TimerPC] /\ timer'[c] = tpc
      /\ \A d \in Conns \ {c} : timer'[d] = timer[d]
  BY DEF WriterInv
<1>4. /\ writeMu' \in [Conns -> {"free", "loop", "timer"}] /\ writeMu'[c] = g
      /\ \A d \in Conns \ {c} : writeMu'[d] = writeMu[d]
  BY DEF WriterInv, Lock, Goroutines
<1>5. /\ partial' \in [Conns -> SUBSET Goroutines] /\ partial'[c] = {g}
      /\ \A d \in Conns \ {c} : partial'[d] = partial[d]
  BY <1>1 DEF WriterInv, Lock
<1>6. WriterOK(c)'
  BY <1>2, <1>3, <1>4, <1>5 DEF WriterOK, Goroutines
<1> QED
  BY <1>2, <1>3, <1>4, <1>5, <1>6, WriterOfOne

\* It gives writeMu back.
LEMMA WriterUnlocks ==
  ASSUME WriterInv, NEW c \in Conns, NEW g \in Goroutines,
         NEW lpc \in LoopPC \ {"writing", "leaving"},
         NEW tpc \in TimerPC \ {"notifying", "closing"},
         writeMu[c] = g, Unlock(c, g),
         loop' = [loop EXCEPT ![c] = lpc], timer' = [timer EXCEPT ![c] = tpc],
         lpc \notin {"hello", "verify", "response"}
  PROVE  WriterInv'
<1>1. partial[c] = {g}
  BY DEF WriterInv, WriterOK, Goroutines
<1>2. /\ loop' \in [Conns -> LoopPC] /\ loop'[c] = lpc
      /\ \A d \in Conns \ {c} : loop'[d] = loop[d]
  BY DEF WriterInv
<1>3. /\ timer' \in [Conns -> TimerPC] /\ timer'[c] = tpc
      /\ \A d \in Conns \ {c} : timer'[d] = timer[d]
  BY DEF WriterInv
<1>4. /\ writeMu' \in [Conns -> {"free", "loop", "timer"}] /\ writeMu'[c] = "free"
      /\ \A d \in Conns \ {c} : writeMu'[d] = writeMu[d]
  BY DEF WriterInv, Unlock
<1>5. /\ partial' \in [Conns -> SUBSET Goroutines] /\ partial'[c] = {}
      /\ \A d \in Conns \ {c} : partial'[d] = partial[d]
  BY <1>1 DEF WriterInv, Unlock
<1>6. WriterOK(c)'
  BY <1>2, <1>3, <1>4, <1>5 DEF WriterOK
<1> QED
  BY <1>2, <1>3, <1>4, <1>5, <1>6, WriterOfOne

\* The timer moves on, without writeMu before and after.
LEMMA TimerMoves ==
  ASSUME WriterInv, NEW c \in Conns, NEW pc \in TimerPC \ {"notifying", "closing"},
         timer[c] \notin {"notifying", "closing"},
         loop[c] \notin {"hello", "verify", "response"} \/ pc = "off",
         timer' = [timer EXCEPT ![c] = pc],
         UNCHANGED <<loop, writeMu, partial>>
  PROVE  WriterInv'
<1>1. timer' \in [Conns -> TimerPC] /\ timer'[c] = pc
  BY DEF WriterInv
<1>2. \A d \in Conns \ {c} : timer'[d] = timer[d]
  BY DEF WriterInv
<1>3. WriterOK(c)
  BY DEF WriterInv
<1>4. WriterOK(c)'
  BY <1>1, <1>3 DEF WriterOK
<1> QED
  BY <1>1, <1>2, <1>4, WriterOfOne DEF WriterInv

LEMMA WriterUnchanged ==
  ASSUME WriterInv, UNCHANGED <<loop, timer, writeMu, partial>>
  PROVE  WriterInv'
<1>1. ASSUME NEW d \in Conns PROVE WriterOK(d)'
  BY DEF WriterInv, WriterOK
<1> QED
  BY <1>1 DEF WriterInv

\* authenticate.
LEMMA WriterAuthenticate ==
  ASSUME WriterInv, NEW c \in Conns, Authenticate(c)
  PROVE  WriterInv'
<1>1. CASE Upgrade(c)
  <2>1. /\ loop[c] = "closed" /\ timer[c] = "off"
        /\ loop' = [loop EXCEPT ![c] = "hello"]
        /\ UNCHANGED <<timer, writeMu, partial>>
    BY <1>1 DEF Upgrade, LoopTo
  <2> QED
    BY <2>1, LoopMoves DEF LoopPC
<1>2. ASSUME NEW t \in AccessTokens, Hello(c, t) PROVE WriterInv'
  <2>1. /\ loop[c] = "hello" /\ loop' = [loop EXCEPT ![c] = "verify"]
        /\ UNCHANGED <<timer, writeMu, partial>>
    BY <1>2 DEF Hello, LoopTo, wire
  <2>2. timer[c] = "off"
    BY <2>1 DEF WriterInv, WriterOK
  <2> QED
    BY <2>1, <2>2, LoopMoves DEF LoopPC
<1>3. CASE Challenge(c)
  <2>1. /\ loop[c] = "verify" /\ loop' = [loop EXCEPT ![c] = "response"]
        /\ UNCHANGED <<timer, writeMu, partial>>
    BY <1>3 DEF Challenge, LoopTo, wire
  <2>2. timer[c] = "off"
    BY <2>1 DEF WriterInv, WriterOK
  <2> QED
    BY <2>1, <2>2, LoopMoves DEF LoopPC
<1>4. CASE Begin(c)
  <2>1. /\ loop[c] = "response" /\ loop' = [loop EXCEPT ![c] = "read"]
        /\ timer' = [timer EXCEPT ![c] = "armed"]
        /\ UNCHANGED <<writeMu, partial>>
    BY <1>4 DEF Begin, LoopTo, TimerTo, wire
  <2>2. /\ loop' \in [Conns -> LoopPC] /\ loop'[c] = "read"
        /\ timer' \in [Conns -> TimerPC] /\ timer'[c] = "armed"
    BY <2>1 DEF WriterInv, LoopPC, TimerPC
  <2>3. \A d \in Conns \ {c} : loop'[d] = loop[d] /\ timer'[d] = timer[d]
    BY <2>1 DEF WriterInv
  <2>4. WriterOK(c) /\ timer[c] = "off"
    BY <2>1 DEF WriterInv, WriterOK
  <2>5. WriterOK(c)'
    BY <2>1, <2>2, <2>4 DEF WriterOK
  <2> QED
    BY <2>1, <2>2, <2>3, <2>5, WriterOfOne DEF WriterInv
<1>5. CASE AuthFails(c)
  <2>1. /\ loop[c] \in {"hello", "verify", "response"}
        /\ loop' = [loop EXCEPT ![c] = "leave"]
        /\ UNCHANGED <<timer, writeMu, partial>>
    BY <1>5 DEF AuthFails, LoopTo, wire
  <2> QED
    BY <2>1, LoopMoves DEF LoopPC
<1> QED
  BY <1>1, <1>2, <1>3, <1>4, <1>5 DEF Authenticate

\* The read loop and its writes.
LEMMA WriterReadLoop ==
  ASSUME WriterInv, NEW c \in Conns, ReadLoop(c)
  PROVE  WriterInv'
<1>1. CASE ReadBuffered(c) \/ ReadSocket(c)
  <2>1. Dispatch(c)
    BY <1>1 DEF ReadBuffered, ReadSocket
  <2>2. PICK n \in 0 .. MaxReply : LoopTo(c, IF n = 0 THEN "read" ELSE "write")
    BY <2>1 DEF Dispatch
  <2>3. loop[c] = "read" /\ UNCHANGED <<timer, writeMu, partial>>
    BY <2>1 DEF Dispatch, wire
  <2>4. PICK pc \in {"read", "write"} : loop' = [loop EXCEPT ![c] = pc]
    BY <2>2 DEF LoopTo
  <2> QED
    BY <2>3, <2>4, LoopMoves DEF LoopPC
<1>2. CASE ReadFails(c) \/ PeerLeaves(c)
  <2>1. /\ StopTimer(c) /\ loop[c] = "read"
        /\ loop' = [loop EXCEPT ![c] = "leave"]
        /\ UNCHANGED <<writeMu, partial>>
    BY <1>2 DEF ReadFails, PeerLeaves, LoopTo, wire
  <2>2. writeMu' = [writeMu EXCEPT ![c] = IF loop[c] = "writing" THEN "free" ELSE @]
    BY <2>1 DEF WriterInv
  <2>3. "loop" \notin partial[c]
    BY <2>1 DEF WriterInv, WriterOK
  <2>4. partial' = [partial EXCEPT ![c] = @ \ {"loop"}]
    BY <2>1, <2>3 DEF WriterInv
  <2> QED
    BY <2>1, <2>2, <2>4, LoopStops
<1>3. CASE LoopLock(c)
  <2>1. PICK pc \in {"writing", "leaving"} : LoopTo(c, pc)
    BY <1>3 DEF LoopLock
  <2>2. loop[c] \in {"write", "leave"} /\ Lock(c, "loop") /\ timer' = timer
    BY <1>3 DEF LoopLock
  <2>3. timer[c] \notin {"notifying", "closing"} /\ timer[c] \in TimerPC
    BY <2>2 DEF Lock, WriterInv, WriterOK
  <2>4. timer' = [timer EXCEPT ![c] = timer[c]]
    BY <2>2 DEF WriterInv
  <2>5. loop' = [loop EXCEPT ![c] = pc]
    BY <2>1 DEF LoopTo
  <2> QED
    BY <2>2, <2>3, <2>4, <2>5, WriterLocks DEF LoopPC, Goroutines
<1>4. CASE FrameWritten(c) \/ (loop[c] = "leaving" /\ LoopClose(c))
  <2>1. /\ loop[c] \in {"writing", "leaving"} /\ Unlock(c, "loop")
        /\ timer' = timer
    BY <1>4 DEF FrameWritten, LoopClose
  <2>2. PICK pc \in {"read", "write", "shut"} : LoopTo(c, pc)
    BY <1>4 DEF FrameWritten, LoopClose
  <2>3. writeMu[c] = "loop" /\ timer[c] \in TimerPC \ {"notifying", "closing"}
    BY <2>1 DEF WriterInv, WriterOK
  <2>4. timer' = [timer EXCEPT ![c] = timer[c]]
    BY <2>1 DEF WriterInv
  <2>5. loop' = [loop EXCEPT ![c] = pc]
    BY <2>2 DEF LoopTo
  <2> QED
    BY <2>1, <2>3, <2>4, <2>5, WriterUnlocks DEF LoopPC, Goroutines
<1>5. CASE FrameFails(c)
  <2>1. /\ StopTimer(c) /\ loop[c] = "writing"
        /\ loop'    = [loop EXCEPT ![c] = "leave"]
        /\ writeMu' = [writeMu EXCEPT ![c] = "free"]
        /\ partial' = [partial EXCEPT ![c] = @ \ {"loop"}]
    BY <1>5 DEF FrameFails, LoopTo, Unlock
  <2>2. writeMu' = [writeMu EXCEPT ![c] = IF loop[c] = "writing" THEN "free" ELSE @]
    BY <2>1
  <2> QED
    BY <2>1, <2>2, LoopStops
<1>6. CASE loop[c] = "shut" /\ LoopClose(c)
  <2>1. loop' = [loop EXCEPT ![c] = "closed"] /\ UNCHANGED <<timer, writeMu, partial>>
    BY <1>6 DEF LoopClose, LoopTo, Shut
  <2> QED
    BY <1>6, <2>1, LoopMoves DEF LoopPC
<1>7. LoopClose(c) => loop[c] \in {"leaving", "shut"}
  BY DEF LoopClose
<1> QED
  BY <1>1, <1>2, <1>3, <1>4, <1>5, <1>6, <1>7 DEF ReadLoop

\* The expiry timer.
LEMMA WriterTimer ==
  ASSUME WriterInv, NEW c \in Conns, Timer(c)
  PROVE  WriterInv'
<1>1. WriterOK(c) /\ loop[c] \in LoopPC /\ loop = [loop EXCEPT ![c] = loop[c]]
  BY DEF WriterInv
<1>2. CASE Fire(c)
  <2>1. /\ timer[c] = "armed" /\ timer' = [timer EXCEPT ![c] = "notify"]
        /\ UNCHANGED <<loop, writeMu, partial>>
    BY <1>2 DEF Fire, TimerTo, wire
  <2>2. loop[c] \notin {"hello", "verify", "response"}
    BY <1>1, <2>1 DEF WriterOK
  <2> QED
    BY <2>1, <2>2, TimerMoves DEF TimerPC
<1>3. CASE TimerLock(c)
  <2>1. PICK pc \in {"notifying", "closing"} : TimerTo(c, pc)
    BY <1>3 DEF TimerLock
  <2>2. timer[c] \in {"notify", "close"} /\ Lock(c, "timer") /\ loop' = loop
    BY <1>3 DEF TimerLock
  <2>3. loop[c] \notin {"writing", "leaving", "hello", "verify", "response"}
    BY <1>1, <2>2 DEF Lock, WriterOK
  <2>4. timer' = [timer EXCEPT ![c] = pc]
    BY <2>1 DEF TimerTo
  <2>5. loop' = [loop EXCEPT ![c] = loop[c]]
    BY <1>1, <2>2
  <2> QED
    BY <1>1, <2>2, <2>3, <2>4, <2>5, WriterLocks DEF TimerPC, Goroutines
<1>4. CASE TimerWrites(c)
  <2>1. PICK pc \in {"close", "shut"} : TimerTo(c, pc)
    BY <1>4 DEF TimerWrites
  <2>2. timer[c] \in {"notifying", "closing"} /\ Unlock(c, "timer") /\ loop' = loop
    BY <1>4 DEF TimerWrites
  <2>3. /\ writeMu[c] = "timer"
        /\ loop[c] \notin {"writing", "leaving", "hello", "verify", "response"}
    BY <1>1, <2>2 DEF WriterOK
  <2>4. timer' = [timer EXCEPT ![c] = pc]
    BY <2>1 DEF TimerTo
  <2>5. loop' = [loop EXCEPT ![c] = loop[c]]
    BY <1>1, <2>2
  <2> QED
    BY <1>1, <2>2, <2>3, <2>4, <2>5, WriterUnlocks DEF TimerPC, Goroutines
<1>5. CASE TimerCloses(c)
  <2>1. /\ timer[c] = "shut" /\ timer' = [timer EXCEPT ![c] = "off"]
        /\ UNCHANGED <<loop, writeMu, partial>>
    BY <1>5 DEF TimerCloses, TimerTo, Shut
  <2> QED
    BY <2>1, TimerMoves DEF TimerPC
<1> QED
  BY <1>2, <1>3, <1>4, <1>5 DEF Timer

LEMMA WriterStep == WriterInv /\ [Next]_vars => WriterInv'
<1> SUFFICES ASSUME WriterInv, [Next]_vars PROVE WriterInv'
  OBVIOUS
<1>1. CASE UNCHANGED vars
  BY <1>1, WriterUnchanged DEF vars, wire
<1>2. CASE Tick
  BY <1>2, WriterUnchanged DEF Tick, wire
<1>3. CASE Refresh
  <2>1. UNCHANGED <<loop, timer, writeMu, partial>>
    BY <1>3 DEF Refresh, RefreshTick, Resolve, ResolveFails, SetKey, Others, wire
  <2> QED
    BY <2>1, WriterUnchanged
<1>4. ASSUME NEW k \in Certs, Publish(k) PROVE WriterInv'
  BY <1>4, WriterUnchanged DEF Publish, Others, wire
<1>5. ASSUME NEW c \in Conns, Authenticate(c) \/ ReadLoop(c) \/ Timer(c)
      PROVE  WriterInv'
  BY <1>5, WriterAuthenticate, WriterReadLoop, WriterTimer
<1> QED
  BY <1>1, <1>2, <1>3, <1>4, <1>5 DEF Next

\* FramesAreWhole: writeMu keeps the read loop and the expiry timer apart, on
\* every connection, for any number of connections.
THEOREM FramesNeverMix == Spec => []FramesAreWhole
<1>1. WriterInv => FramesAreWhole
  <2> SUFFICES ASSUME WriterInv, NEW c \in Conns
               PROVE  Cardinality(partial[c]) <= 1
    BY DEF FramesAreWhole
  <2>1. partial[c] = {} \/ partial[c] = {writeMu[c]}
    BY DEF WriterInv, WriterOK
  <2>2. Cardinality({}) = 0 /\ Cardinality({writeMu[c]}) = 1
    BY FS_EmptySet, FS_Singleton
  <2> QED
    BY <2>1, <2>2
<1> QED
  BY <1>1, WriterInit, WriterStep, PTL DEF Spec

-----------------------------------------------------------------------------
(* The key that admits a session. *)

Delegate == refresh.pc # "off"

\* The cached key and expiry are those of one certificate.
SourceOK ==
    Delegate => \E k \in Certs : pub = k.key /\ expiresAt = k.expires

\* authenticate holds a key that was alive at the hello, and from the
\* challenge on a token signed with it.
HeldKeyOK(c) ==
    /\ loop[c] \in {"verify", "response", "read", "write", "writing"}
          => \E k \in Certs : k.key = key[c] /\ helloAt[c] <= k.expires
    /\ loop[c] \in {"response", "read", "write", "writing"}
          => token[c].signedBy = key[c]

KeyInv ==
    /\ refresh \in [ pc   : {"off", "waiting", "fetching", "resolved"},
                     cert : Certs \cup {NoCert} ]
    /\ refresh.pc = "resolved" => refresh.cert \in Certs
    /\ cert    \in Certs
    /\ clock   \in Int
    /\ loop    \in [Conns -> LoopPC]
    /\ DOMAIN key = Conns /\ DOMAIN token = Conns /\ DOMAIN helloAt = Conns
    /\ SourceOK
    /\ Delegate => \A c \in Conns : HeldKeyOK(c)

LEMMA KeyInitially == Init => KeyInv
<1> SUFFICES ASSUME Init PROVE KeyInv
  OBVIOUS
<1> USE DEF Init, KeyInit
<1>1. refresh \in [ pc   : {"off", "waiting", "fetching", "resolved"},
                    cert : Certs \cup {NoCert} ]
      /\ refresh.pc # "resolved"
  OBVIOUS
<1>2. clock \in Int /\ cert \in Certs /\ loop \in [Conns -> LoopPC]
  BY DEF LoopPC
<1>3. DOMAIN key = Conns /\ DOMAIN token = Conns /\ DOMAIN helloAt = Conns
  OBVIOUS
<1>4. SourceOK
  BY DEF SourceOK, Delegate
<1>5. \A c \in Conns : HeldKeyOK(c)
  BY DEF HeldKeyOK
<1> QED
  BY <1>1, <1>2, <1>3, <1>4, <1>5 DEF KeyInv

LEMMA KeyStep == KeyInv /\ [Next]_vars => KeyInv'
<1> SUFFICES ASSUME KeyInv, [Next]_vars PROVE KeyInv'
  OBVIOUS
<1> USE DEF KeyInv, LoopPC
<1>1. CASE Tick \/ UNCHANGED vars
  BY <1>1, LimitsAssumption
     DEF Tick, vars, keySource, auth, SourceOK, Delegate, HeldKeyOK
<1>2. ASSUME NEW k \in Certs, Publish(k)
      PROVE  KeyInv'
  BY <1>2 DEF Publish, Others, auth, SourceOK, Delegate, HeldKeyOK
<1>3. CASE RefreshTick \/ ResolveFails
  BY <1>3 DEF RefreshTick, ResolveFails, Others, auth, SourceOK, Delegate,
              HeldKeyOK
<1>4. CASE Resolve
  BY <1>4 DEF Resolve, Others, auth, SourceOK, Delegate, HeldKeyOK
<1>5. CASE SetKey
  BY <1>5 DEF SetKey, Others, auth, SourceOK, Delegate, HeldKeyOK
<1>6. ASSUME NEW c \in Conns, Authenticate(c)
      PROVE  KeyInv'
  <2>1. CASE Upgrade(c) \/ AuthFails(c)
    BY <2>1 DEF Upgrade, AuthFails, LoopTo, keySource, auth, SourceOK, Delegate,
                HeldKeyOK
  <2>2. ASSUME NEW t \in AccessTokens, Hello(c, t)
        PROVE  KeyInv'
    <3>1. Delegate => \E k \in Certs : k.key = pub /\ clock <= k.expires
      BY <2>2, CertsAssumption DEF Hello, HasKey, SourceOK, Cert, Time
    <3>2. Delegate' <=> Delegate
      BY <2>2 DEF Hello, keySource, Delegate
    <3>3. ASSUME Delegate, NEW d \in Conns
          PROVE  HeldKeyOK(d)'
      <4>1. CASE d = c
        BY <2>2, <3>1, <3>3, <4>1 DEF Hello, LoopTo, HeldKeyOK
      <4>2. CASE d # c
        BY <2>2, <3>3, <4>2 DEF Hello, LoopTo, HeldKeyOK
      <4> QED
        BY <4>1, <4>2
    <3> QED
      BY <2>2, <3>2, <3>3 DEF Hello, LoopTo, keySource, SourceOK, Delegate
  <2>3. CASE Challenge(c)
    BY <2>3 DEF Challenge, VerifyToken, LoopTo, keySource, auth, SourceOK,
                Delegate, HeldKeyOK
  <2>4. CASE Begin(c)
    BY <2>4 DEF Begin, LoopTo, keySource, auth, SourceOK, Delegate, HeldKeyOK
  <2> QED
    BY <1>6, <2>1, <2>2, <2>3, <2>4 DEF Authenticate
<1>7. ASSUME NEW c \in Conns, ReadLoop(c)
      PROVE  KeyInv'
  <2> USE DEF LoopTo, keySource, auth, SourceOK, Delegate, HeldKeyOK
  <2>1. CASE ReadBuffered(c) \/ ReadSocket(c)
    BY <2>1 DEF ReadBuffered, ReadSocket, Dispatch
  <2>2. CASE ReadFails(c) \/ PeerLeaves(c)
    BY <2>2 DEF ReadFails, PeerLeaves
  <2>3. CASE LoopLock(c)
    BY <2>3 DEF LoopLock
  <2>4. CASE FrameWritten(c)
    BY <2>4 DEF FrameWritten
  <2>5. CASE FrameFails(c)
    BY <2>5 DEF FrameFails
  <2>6. CASE LoopClose(c)
    BY <2>6 DEF LoopClose
  <2> QED
    BY <1>7, <2>1, <2>2, <2>3, <2>4, <2>5, <2>6 DEF ReadLoop
<1>8. ASSUME NEW c \in Conns, Timer(c)
      PROVE  KeyInv'
  BY <1>8 DEF Timer, Fire, TimerLock, TimerWrites, TimerCloses, keySource, auth,
              SourceOK, Delegate, HeldKeyOK
<1> QED
  BY <1>1, <1>2, <1>3, <1>4, <1>5, <1>6, <1>7, <1>8 DEF Next, Refresh

\* AdmittedByLiveKey: current fails closed, set keeps key and expiry together,
\* and verifyToken uses the key that current returned, whatever refreshes
\* happen between these steps.
THEOREM LapsedKeysAdmitNobody == Spec => []AdmittedByLiveKey
<1>1. KeyInv => AdmittedByLiveKey
  BY DEF KeyInv, HeldKeyOK, Delegate, AdmittedByLiveKey, InSession
<1> QED
  BY <1>1, KeyInitially, KeyStep, PTL DEF Spec

-----------------------------------------------------------------------------
(* Type correctness.  WriterInv and KeyInv give the types of the program   *)
(* counters, of writeMu and of the refresh loop; here are the others.      *)

\* A dispatch that has a frame to write has counted it.
FramesPending ==
    \A c \in Conns : loop[c] \in {"write", "writing"} => pending[c] > 0

DataInv ==
    /\ clock     \in Time
    /\ pub       \in Keys
    /\ expiresAt \in 0 .. MaxClock
    /\ key       \in [Conns -> Keys]
    /\ token     \in [Conns -> AccessTokens]
    /\ pending   \in [Conns -> 0 .. MaxReply]
    /\ buffered  \in [Conns -> 0 .. MaxBuffered]
    /\ open      \in [Conns -> BOOLEAN]
    /\ helloAt   \in [Conns -> 0 .. MaxClock]
    /\ FramesPending

LEMMA CertOfKey ==
  ASSUME NEW k \in Certs
  PROVE  k.key \in Keys /\ k.expires \in 0 .. MaxClock
  BY CertsAssumption, LimitsAssumption DEF Cert, Time

LEMMA DataInitially == Init => DataInv
<1> SUFFICES ASSUME Init PROVE DataInv
  OBVIOUS
<1>1. clock \in Time
  BY LimitsAssumption DEF Init, KeyInit, Time
<1>2. pub \in Keys /\ expiresAt \in 0 .. MaxClock
  <2>1. CASE pub \in Keys /\ expiresAt = 0
    BY <2>1, LimitsAssumption
  <2>2. CASE cert \in Certs /\ pub = cert.key /\ expiresAt = cert.expires
    BY <2>2, CertOfKey
  <2> QED
    BY <2>1, <2>2 DEF Init, KeyInit
<1>3. key \in [Conns -> Keys] /\ token \in [Conns -> AccessTokens]
  BY <1>2 DEF Init
<1>4. /\ pending \in [Conns -> 0 .. MaxReply]
      /\ buffered \in [Conns -> 0 .. MaxBuffered]
      /\ open \in [Conns -> BOOLEAN]
      /\ helloAt \in [Conns -> 0 .. MaxClock]
  BY LimitsAssumption DEF Init
<1>5. FramesPending
  BY DEF Init, FramesPending
<1> QED
  BY <1>1, <1>2, <1>3, <1>4, <1>5 DEF DataInv

LEMMA DataStep == KeyInv /\ DataInv /\ [Next]_vars => DataInv'
<1> SUFFICES ASSUME KeyInv, DataInv, [Next]_vars PROVE DataInv'
  OBVIOUS
<1> USE LimitsAssumption DEF DataInv
<1>1. CASE Tick \/ UNCHANGED vars
  BY <1>1 DEF Tick, Time, vars, keySource, auth, wire, FramesPending
<1>2. ASSUME NEW k \in Certs, Publish(k)
      PROVE  DataInv'
  BY <1>2 DEF Publish, Others, auth, wire, FramesPending
<1>3. CASE RefreshTick \/ Resolve \/ ResolveFails
  BY <1>3 DEF RefreshTick, Resolve, ResolveFails, Others, auth, wire,
              FramesPending
<1>4. CASE SetKey
  <2>1. refresh.cert \in Certs
    BY <1>4 DEF SetKey, KeyInv
  <2>2. pub' \in Keys /\ expiresAt' \in 0 .. MaxClock
    BY <1>4, <2>1, CertOfKey DEF SetKey
  <2> QED
    BY <1>4, <2>2 DEF SetKey, Others, auth, wire, FramesPending
<1>5. ASSUME NEW c \in Conns, Authenticate(c)
      PROVE  DataInv'
  <2> USE DEF LoopTo, keySource, auth, wire, FramesPending, KeyInv
  <2>1. CASE Upgrade(c)
    BY <2>1 DEF Upgrade
  <2>2. CASE Challenge(c)
    BY <2>2 DEF Challenge
  <2>3. CASE Begin(c)
    BY <2>3 DEF Begin
  <2>4. CASE AuthFails(c)
    BY <2>4 DEF AuthFails
  <2>5. ASSUME NEW t \in AccessTokens, Hello(c, t)
        PROVE  DataInv'
    BY <2>5 DEF Hello, Time
  <2> QED
    BY <1>5, <2>1, <2>2, <2>3, <2>4, <2>5 DEF Authenticate
<1>6. ASSUME NEW c \in Conns, ReadLoop(c)
      PROVE  DataInv'
  <2> USE DEF LoopTo, Lock, Unlock, Shut, keySource, auth, FramesPending, KeyInv
  <2>1. CASE ReadBuffered(c)
    BY <2>1 DEF ReadBuffered, Dispatch, wire
  <2>2. CASE ReadSocket(c)
    BY <2>2 DEF ReadSocket, Dispatch, wire
  <2>3. CASE ReadFails(c) \/ PeerLeaves(c)
    BY <2>3 DEF ReadFails, PeerLeaves, wire
  <2>4. CASE LoopLock(c)
    BY <2>4 DEF LoopLock
  <2>5. CASE FrameWritten(c)
    <3>1. pending[c] \in 1 .. MaxReply
      BY <2>5 DEF FrameWritten
    <3>2. /\ pending' \in [Conns -> 0 .. MaxReply]
          /\ pending'[c] = pending[c] - 1
          /\ \A d \in Conns \ {c} : pending'[d] = pending[d]
      BY <2>5, <3>1 DEF FrameWritten
    <3>3. FramesPending'
      BY <2>5, <3>1, <3>2 DEF FrameWritten
    <3> QED
      BY <2>5, <3>2, <3>3 DEF FrameWritten
  <2>6. CASE FrameFails(c)
    BY <2>6 DEF FrameFails
  <2>7. CASE LoopClose(c)
    BY <2>7 DEF LoopClose
  <2> QED
    BY <1>6, <2>1, <2>2, <2>3, <2>4, <2>5, <2>6, <2>7 DEF ReadLoop
<1>7. ASSUME NEW c \in Conns, Timer(c)
      PROVE  DataInv'
  BY <1>7 DEF Timer, Fire, TimerLock, TimerWrites, TimerCloses, Lock, Unlock,
              Shut, keySource, auth, wire, FramesPending
<1> QED
  BY <1>1, <1>2, <1>3, <1>4, <1>5, <1>6, <1>7 DEF Next, Refresh

\* Every reachable state of a session has the declared shape: in particular
\* dispatch never counts below zero the frames it has yet to write, and the
\* cached key and expiry come from a certificate or the static key.
THEOREM SessionTypeCorrect == Spec => []TypeOK
<1>1. WriterInv /\ KeyInv /\ DataInv => TypeOK
  BY DEF WriterInv, KeyInv, DataInv, TypeOK, Goroutines
<1> QED
  BY <1>1, WriterInit, WriterStep, KeyInitially, KeyStep, DataInitially,
     DataStep, PTL DEF Spec

-----------------------------------------------------------------------------
(* The expiry timer of a session. *)

TimedOK(c) ==
    /\ InSession(c) /\ open[c] => timer[c] # "off"
    /\ timer[c] = "armed" => InSession(c)
    /\ timer[c] \notin {"off", "armed"} => token[c].expires <= clock

\* Tokens and clocks are compared as integers.
LEMMA ExpiryIsTime ==
  ASSUME DataInv, NEW c \in Conns
  PROVE  token[c].expires \in Int /\ clock \in Int
<1>1. token[c] \in Token
  BY TokensAssumption DEF DataInv
<1> QED
  BY <1>1 DEF DataInv, Token, Time

\* A step that leaves a connection alone, time aside, keeps its timer right.
LEMMA TimedUntouched ==
  ASSUME SessionIsTimed, DataInv, NEW c \in Conns,
         loop'[c] = loop[c], timer'[c] = timer[c],
         token'[c] = token[c], open'[c] = open[c],
         clock' = clock \/ clock' = clock + 1
  PROVE  TimedOK(c)'
  BY ExpiryIsTime DEF SessionIsTimed, TimedOK, InSession

\* The handshake: there is no timer until Begin arms it.
LEMMA TimedAuthenticate ==
  ASSUME SessionIsTimed, WriterInv, DataInv, NEW c \in Conns, Authenticate(c)
  PROVE  TimedOK(c)'
<1> USE DEF TimedOK, InSession, WriterInv, LoopTo
<1>1. timer[c] = "off"
  BY DEF Authenticate, Upgrade, Challenge, Begin, AuthFails, Hello, WriterOK
<1>2. CASE Begin(c)
  BY <1>2 DEF Begin, TimerTo
<1>3. CASE Upgrade(c) \/ Challenge(c) \/ AuthFails(c)
  BY <1>1, <1>3 DEF Upgrade, Challenge, AuthFails
<1>4. ASSUME NEW t \in AccessTokens, Hello(c, t)
      PROVE  TimedOK(c)'
  BY <1>1, <1>4 DEF Hello
<1> QED
  BY <1>2, <1>3, <1>4 DEF Authenticate

\* The read loop: the session goes on with its timer or leaves and stops it.
LEMMA TimedReadLoop ==
  ASSUME SessionIsTimed, WriterInv, DataInv, NEW c \in Conns, ReadLoop(c)
  PROVE  TimedOK(c)'
<1> USE DEF SessionIsTimed, TimedOK, InSession, WriterInv, DataInv, LoopTo
<1>1. CASE ReadBuffered(c) \/ ReadSocket(c)
  BY <1>1 DEF ReadBuffered, ReadSocket, Dispatch, auth, wire
<1>2. CASE ReadFails(c) \/ PeerLeaves(c) \/ FrameFails(c)
  <2>1. /\ loop'[c] = "leave" /\ StopTimer(c)
        /\ UNCHANGED <<clock, token, open>>
    BY <1>2 DEF ReadFails, PeerLeaves, FrameFails, Unlock, auth, wire
  <2>2. timer'[c] = IF timer[c] = "armed" THEN "off" ELSE timer[c]
    BY <2>1 DEF StopTimer, TimerTo
  <2> QED
    BY <2>1, <2>2
<1>3. CASE LoopLock(c) \/ FrameWritten(c)
  BY <1>3 DEF LoopLock, FrameWritten, Lock, Unlock, auth
<1>4. CASE LoopClose(c)
  BY <1>4 DEF LoopClose, Unlock, Shut, auth
<1> QED
  BY <1>1, <1>2, <1>3, <1>4 DEF ReadLoop

\* The timer: it fires when the token has expired and ends with conn.Close.
LEMMA TimedTimer ==
  ASSUME SessionIsTimed, WriterInv, DataInv, NEW c \in Conns, Timer(c)
  PROVE  TimedOK(c)'
<1> USE DEF SessionIsTimed, TimedOK, InSession, WriterInv, DataInv, TimerTo
<1>1. CASE Fire(c)
  BY <1>1, ExpiryIsTime DEF Fire, auth, wire
<1>2. CASE TimerLock(c) \/ TimerWrites(c)
  BY <1>2 DEF TimerLock, TimerWrites, Lock, Unlock, auth
<1>3. CASE TimerCloses(c)
  BY <1>3 DEF TimerCloses, Shut, auth
<1> QED
  BY <1>1, <1>2, <1>3 DEF Timer

\* A step of one connection leaves the others alone.
LEMMA OneConnection ==
  ASSUME WriterInv, DataInv, NEW c \in Conns, NEW d \in Conns \ {c},
         Authenticate(c) \/ ReadLoop(c) \/ Timer(c)
  PROVE  /\ loop'[d] = loop[d] /\ timer'[d] = timer[d]
         /\ token'[d] = token[d] /\ open'[d] = open[d] /\ clock' = clock
<1> USE DEF WriterInv, DataInv, LoopTo, TimerTo, auth, wire
<1>1. CASE Authenticate(c)
  BY <1>1 DEF Authenticate, Upgrade, Challenge, Begin, AuthFails, Hello
<1>2. CASE ReadBuffered(c) \/ ReadSocket(c)
  BY <1>2 DEF ReadBuffered, ReadSocket, Dispatch
<1>3. CASE ReadFails(c) \/ PeerLeaves(c) \/ FrameFails(c)
  BY <1>3 DEF ReadFails, PeerLeaves, FrameFails, StopTimer, Unlock
<1>4. CASE LoopLock(c) \/ FrameWritten(c)
  BY <1>4 DEF LoopLock, FrameWritten, Lock, Unlock
<1>5. CASE LoopClose(c)
  BY <1>5 DEF LoopClose, Unlock, Shut
<1>6. CASE Timer(c)
  BY <1>6 DEF Timer, Fire, TimerLock, TimerWrites, TimerCloses, Lock, Unlock, Shut
<1> QED
  BY <1>1, <1>2, <1>3, <1>4, <1>5, <1>6 DEF ReadLoop

LEMMA TimedStep ==
  SessionIsTimed /\ WriterInv /\ DataInv /\ [Next]_vars => SessionIsTimed'
<1> SUFFICES ASSUME SessionIsTimed, WriterInv, DataInv, [Next]_vars,
                    NEW d \in Conns
             PROVE  TimedOK(d)'
  BY DEF SessionIsTimed, TimedOK, InSession
<1>1. CASE UNCHANGED vars \/ Tick \/ Refresh \/ \E k \in Certs : Publish(k)
  <2>1. /\ UNCHANGED <<loop, timer, token, open>>
        /\ clock' = clock \/ clock' = clock + 1
    BY <1>1 DEF vars, Tick, Refresh, RefreshTick, Resolve, ResolveFails, SetKey,
                Publish, Others, auth, wire
  <2> QED
    BY <2>1, TimedUntouched
<1>2. ASSUME NEW c \in Conns, Authenticate(c) \/ ReadLoop(c) \/ Timer(c)
      PROVE  TimedOK(d)'
  <2>1. CASE c = d
    BY <1>2, <2>1, TimedAuthenticate, TimedReadLoop, TimedTimer
  <2>2. CASE c # d
    BY <1>2, <2>2, OneConnection, TimedUntouched
  <2> QED
    BY <2>1, <2>2
<1> QED
  BY <1>1, <1>2 DEF Next

\* SessionIsTimed: from auth_ok to the last Close the timer of handleWS is on
\* the session of its own token, neither missing, nor left over, nor early.
THEOREM SessionsAreTimed == Spec => []SessionIsTimed
<1>1. Init => SessionIsTimed
  BY DEF Init, SessionIsTimed, InSession
<1> QED
  BY <1>1, TimedStep, WriterInit, WriterStep, KeyInitially, KeyStep,
     DataInitially, DataStep, PTL DEF Spec

=============================================================================
