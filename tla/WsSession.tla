----------------------------- MODULE WsSession -----------------------------
(***************************************************************************)
(* A WebSocket session of file-share from the upgrade to the last Close    *)
(* (server.go: handleWS, authenticate; ws.go; token.go), next to the       *)
(* source of the broker's key and its refresh loop (delegate.go).          *)
(*                                                                         *)
(* Two goroutines use one connection: the read loop, which also writes all *)
(* replies, and the timer that ends the session when its access token      *)
(* expires.  They meet at writeMu and at the closing of the connection.    *)
(*                                                                         *)
(* What a request does to the store is the subject of FileShare; here it is *)
(* the number of frames its dispatch writes.                               *)
(***************************************************************************)
EXTENDS Integers, FiniteSets

CONSTANTS
    Conns,        \* slots for connections, one connection at a time each
    Keys,         \* signing keys of the broker
    Certs,        \* delegate certificates the broker may publish
    AccessTokens, \* tokens clients may present
    MinTier,      \* -min-tier
    MaxReply,     \* bound on the frames one dispatch writes
    MaxBuffered,  \* bound on the messages in the bufio.Reader of a connection
    MaxClock      \* bound on the clock

Time  == 1 .. MaxClock            \* Unix time; 0 means "no expiry"
Tiers == {"free", "paid", "other"}
Plans == {"", "vpn", "full", "other"}

Token == [signedBy : Keys, tier : Tiers, plan : Plans, expires : Time]
Cert  == [key : Keys, issued : Time, expires : Time]

ASSUME KeysAssumption  == Keys # {}
ASSUME CertsAssumption == Certs \subseteq Cert
ASSUME TokensAssumption ==
    AccessTokens \subseteq Token /\ MinTier \in {"free", "paid"}
ASSUME LimitsAssumption ==
    /\ MaxReply \in Nat
    /\ MaxBuffered \in Nat
    /\ MaxClock \in Nat \ {0}

VARIABLES
    clock,
    cert,       \* the certificate the broker publishes now
    pub,        \* brokerKeySource.pub
    expiresAt,  \* brokerKeySource.expiresAt
    refresh,    \* the refresh loop: where it is, and the certificate it checked
    loop,       \* loop[c]: where the goroutine of handleWS is
    key,        \* key[c]: authenticate's local brokerPub
    token,      \* token[c]: the token of the hello message
    pending,    \* pending[c]: frames the current dispatch has yet to write
    buffered,   \* buffered[c]: messages read from the socket, not from ReadMessage
    timer,      \* timer[c]: where the expiry timer is
    writeMu,    \* writeMu[c]: who holds it
    partial,    \* partial[c]: writers with an unfinished frame in the buffer
    open,       \* open[c]: conn.Close has not been called
    helloAt     \* observation: when authenticate read the key

keySource == <<cert, pub, expiresAt, refresh>>
auth      == <<key, token, helloAt>>
wire      == <<writeMu, partial, open>>
vars == <<clock, keySource, loop, auth, pending, buffered, timer, wire>>

Goroutines == {"loop", "timer"}

LoopPC == {"closed",                         \* no connection in this slot
           "hello", "verify", "response",    \* authenticate
           "read",                           \* ReadMessage of the read loop
           "write", "writing",               \* a frame of dispatch
           "leave", "leaving", "shut"}       \* the deferred Stop and Close

TimerPC == {"off", "armed", "notify", "notifying", "close", "closing", "shut"}

-----------------------------------------------------------------------------
(* The broker's key. *)

NoCert == [key |-> "none", issued |-> 0, expires |-> 0]

Valid(k) == k.issued <= clock /\ clock <= k.expires

\* A static key never expires and is not refreshed; in delegate mode the
\* server does not start without a valid certificate.
KeyInit ==
    /\ clock = 1
    /\ cert \in Certs
    /\ \/ /\ pub \in Keys
          /\ expiresAt = 0
          /\ refresh = [pc |-> "off", cert |-> NoCert]
       \/ /\ Valid(cert)
          /\ pub = cert.key
          /\ expiresAt = cert.expires
          /\ refresh = [pc |-> "waiting", cert |-> NoCert]

Others == UNCHANGED <<clock, loop, auth, pending, buffered, timer, wire>>

Publish(k) ==
    /\ cert' = k
    /\ UNCHANGED <<pub, expiresAt, refresh>> /\ Others

RefreshTick ==
    /\ refresh.pc = "waiting"
    /\ refresh' = [refresh EXCEPT !.pc = "fetching"]
    /\ UNCHANGED <<cert, pub, expiresAt>> /\ Others

\* resolveDelegateKey: signed by the root, for this root, valid now.
Resolve ==
    /\ refresh.pc = "fetching"
    /\ Valid(cert)
    /\ refresh' = [pc |-> "resolved", cert |-> cert]
    /\ UNCHANGED <<cert, pub, expiresAt>> /\ Others

\* Mutant of ResolveFails: the refresh loop returns.
ResolveEndsLoop ==
    /\ refresh.pc = "fetching"
    /\ refresh' = [refresh EXCEPT !.pc = "off"]
    /\ UNCHANGED <<cert, pub, expiresAt>> /\ Others

\* No answer, or one that fails a check: keep the last known key.
ResolveFails ==
    /\ refresh.pc = "fetching"
    /\ refresh' = [refresh EXCEPT !.pc = "waiting"]
    /\ UNCHANGED <<cert, pub, expiresAt>> /\ Others

\* Mutant of SetKey: the expiry stays that of the previous certificate.
SetPubOnly ==
    /\ refresh.pc = "resolved"
    /\ pub' = refresh.cert.key
    /\ refresh' = [pc |-> "waiting", cert |-> NoCert]
    /\ UNCHANGED <<cert, expiresAt>> /\ Others

SetKey ==
    /\ refresh.pc = "resolved"
    /\ pub' = refresh.cert.key
    /\ expiresAt' = refresh.cert.expires
    /\ refresh' = [pc |-> "waiting", cert |-> NoCert]
    /\ UNCHANGED cert /\ Others

\* current: fail closed when the cached certificate has expired.
HasKey == expiresAt = 0 \/ clock <= expiresAt

\* A tier tierRank does not know ranks like "free".
TierRank(t) == IF t = "paid" THEN 1 ELSE 0

\* verifyToken; signatures are abstracted to the key that made them.
VerifyToken(brokerPub, t, allowVPNPlan) ==
    /\ t.signedBy = brokerPub
    /\ TierRank(t.tier) >= TierRank(MinTier)
    /\ t.plan \in {"", "full"} \/ (allowVPNPlan /\ t.plan = "vpn")
    /\ clock <= t.expires

-----------------------------------------------------------------------------
(* Frames: writeFrame takes writeMu, fills the buffer and flushes it. *)

\* Mutant of Lock: writeMu is not there.
LockNobody(c, g) ==
    /\ writeMu' = [writeMu EXCEPT ![c] = g]
    /\ partial' = [partial EXCEPT ![c] = @ \cup {g}]
    /\ UNCHANGED open

Lock(c, g) ==
    /\ writeMu[c] = "free"
    /\ writeMu' = [writeMu EXCEPT ![c] = g]
    /\ partial' = [partial EXCEPT ![c] = @ \cup {g}]
    /\ UNCHANGED open

\* The flush succeeded or failed.
Unlock(c, g) ==
    /\ writeMu' = [writeMu EXCEPT ![c] = "free"]
    /\ partial' = [partial EXCEPT ![c] = @ \ {g}]
    /\ UNCHANGED open

\* conn.Close, the second half of wsConn.Close.
Shut(c) ==
    /\ open' = [open EXCEPT ![c] = FALSE]
    /\ UNCHANGED <<writeMu, partial>>

LoopTo(c, pc)  == loop'  = [loop  EXCEPT ![c] = pc]
TimerTo(c, pc) == timer' = [timer EXCEPT ![c] = pc]

-----------------------------------------------------------------------------
(* handleWS and authenticate.  Until the session begins nobody else writes *)
(* to the connection, and the handshake's frames are part of its steps.    *)

\* A slot is free when its last timer goroutine has returned, too.
Upgrade(c) ==
    /\ loop[c] = "closed"
    /\ timer[c] = "off"
    /\ LoopTo(c, "hello")
    /\ open' = [open EXCEPT ![c] = TRUE]
    /\ buffered' = [buffered EXCEPT ![c] = 0]
    /\ UNCHANGED <<clock, keySource, auth, pending, timer, writeMu, partial>>

\* The hello message and current().
Hello(c, t) ==
    /\ loop[c] = "hello"
    /\ HasKey
    /\ LoopTo(c, "verify")
    /\ key'     = [key     EXCEPT ![c] = pub]
    /\ token'   = [token   EXCEPT ![c] = t]
    /\ helloAt' = [helloAt EXCEPT ![c] = clock]
    /\ UNCHANGED <<clock, keySource, pending, buffered, timer, wire>>

\* verifyToken against the key read before, then the challenge.
Challenge(c) ==
    /\ loop[c] = "verify"
    /\ VerifyToken(key[c], token[c], FALSE)
    /\ LoopTo(c, "response")
    /\ UNCHANGED <<clock, keySource, auth, pending, buffered, timer, wire>>

\* Mutant of Begin: no timer for a token that expired during the handshake.
BeginIfUnexpired(c) ==
    /\ loop[c] = "response"
    /\ LoopTo(c, "read")
    /\ TimerTo(c, IF clock < token[c].expires THEN "armed" ELSE "off")
    /\ UNCHANGED <<clock, keySource, auth, pending, buffered, wire>>

\* The right response: auth_ok, and the timer is set.
Begin(c) ==
    /\ loop[c] = "response"
    /\ LoopTo(c, "read")
    /\ TimerTo(c, "armed")
    /\ UNCHANGED <<clock, keySource, auth, pending, buffered, wire>>

\* authenticate returns an error: no key, a bad token or response, no peer.
AuthFails(c) ==
    /\ loop[c] \in {"hello", "verify", "response"}
    /\ LoopTo(c, "leave")
    /\ UNCHANGED <<clock, keySource, auth, pending, buffered, timer, wire>>

\* dispatch writes up to MaxReply frames.  A ping is answered with one; the
\* data that follows a chunk header is a message of its own.
Dispatch(c) ==
    /\ loop[c] = "read"
    /\ \E n \in 0 .. MaxReply :
          /\ pending' = [pending EXCEPT ![c] = n]
          /\ LoopTo(c, IF n = 0 THEN "read" ELSE "write")
    /\ UNCHANGED <<clock, keySource, auth, timer, wire>>

\* ReadMessage returns a message from the bufio.Reader, conn.Close or not.
ReadBuffered(c) ==
    /\ buffered[c] > 0
    /\ buffered' = [buffered EXCEPT ![c] = @ - 1]
    /\ Dispatch(c)

\* ReadMessage has to read from the socket; more messages may come along.
ReadSocket(c) ==
    /\ buffered[c] = 0
    /\ open[c]
    /\ \E n \in 0 .. MaxBuffered : buffered' = [buffered EXCEPT ![c] = n]
    /\ Dispatch(c)

\* Mutant of StopTimer: handleWS does not defer Stop.
NeverStop(c) == TimerTo(c, timer[c])

StopTimer(c) ==
    TimerTo(c, IF timer[c] = "armed" THEN "off" ELSE timer[c])

\* The read loop returns: the connection is closed, by either side, or
\* dispatch returned an error.  The deferred Stop does not wait for a timer
\* that has fired.
ReadFails(c) ==
    /\ loop[c] = "read"
    /\ ~open[c] /\ buffered[c] = 0
    /\ LoopTo(c, "leave")
    /\ StopTimer(c)
    /\ UNCHANGED <<clock, keySource, auth, pending, buffered, wire>>

PeerLeaves(c) ==
    /\ loop[c] = "read"
    /\ open[c]
    /\ LoopTo(c, "leave")
    /\ StopTimer(c)
    /\ UNCHANGED <<clock, keySource, auth, pending, buffered, wire>>

LoopLock(c) ==
    /\ \/ loop[c] = "write" /\ LoopTo(c, "writing")
       \/ loop[c] = "leave" /\ LoopTo(c, "leaving")
    /\ Lock(c, "loop")
    /\ UNCHANGED <<clock, keySource, auth, pending, buffered, timer>>

\* Mutant of FrameWritten: one frame too many.
FrameTooMany(c) ==
    /\ loop[c] = "writing"
    /\ open[c]
    /\ Unlock(c, "loop")
    /\ pending' = [pending EXCEPT ![c] = @ - 1]
    /\ LoopTo(c, IF pending[c] = 0 THEN "read" ELSE "write")
    /\ UNCHANGED <<clock, keySource, auth, buffered, timer>>

\* The frame is out: go on to the next one, or to the next message.
FrameWritten(c) ==
    /\ loop[c] = "writing"
    /\ open[c]
    /\ Unlock(c, "loop")
    /\ pending' = [pending EXCEPT ![c] = @ - 1]
    /\ LoopTo(c, IF pending[c] = 1 THEN "read" ELSE "write")
    /\ UNCHANGED <<clock, keySource, auth, buffered, timer>>

\* The peer is gone or the timer has closed the connection.
FrameFails(c) ==
    /\ loop[c] = "writing"
    /\ Unlock(c, "loop")
    /\ pending' = [pending EXCEPT ![c] = 0]
    /\ LoopTo(c, "leave")
    /\ StopTimer(c)
    /\ UNCHANGED <<clock, keySource, auth, buffered>>

\* wsConn.Close: the close frame, whose error is ignored, then conn.Close.
LoopClose(c) ==
    /\ \/ /\ loop[c] = "leaving"
          /\ LoopTo(c, "shut")
          /\ Unlock(c, "loop")
       \/ /\ loop[c] = "shut"
          /\ LoopTo(c, "closed")
          /\ Shut(c)
    /\ UNCHANGED <<clock, keySource, auth, pending, buffered, timer>>

-----------------------------------------------------------------------------
(* The expiry timer: session_expired, then wsConn.Close. *)

Fire(c) ==
    /\ timer[c] = "armed"
    /\ clock >= token[c].expires
    /\ TimerTo(c, "notify")
    /\ UNCHANGED <<clock, keySource, loop, auth, pending, buffered, wire>>

TimerLock(c) ==
    /\ \/ timer[c] = "notify" /\ TimerTo(c, "notifying")
       \/ timer[c] = "close" /\ TimerTo(c, "closing")
    /\ Lock(c, "timer")
    /\ UNCHANGED <<clock, keySource, loop, auth, pending, buffered>>

TimerWrites(c) ==
    /\ \/ timer[c] = "notifying" /\ TimerTo(c, "close")
       \/ timer[c] = "closing" /\ TimerTo(c, "shut")
    /\ Unlock(c, "timer")
    /\ UNCHANGED <<clock, keySource, loop, auth, pending, buffered>>

TimerCloses(c) ==
    /\ timer[c] = "shut"
    /\ TimerTo(c, "off")
    /\ Shut(c)
    /\ UNCHANGED <<clock, keySource, loop, auth, pending, buffered>>

-----------------------------------------------------------------------------
Init ==
    /\ KeyInit
    /\ loop     = [c \in Conns |-> "closed"]
    /\ key      \in [Conns -> {pub}]
    /\ token    \in {[c \in Conns |-> t] : t \in AccessTokens}
    /\ pending  = [c \in Conns |-> 0]
    /\ buffered = [c \in Conns |-> 0]
    /\ timer    = [c \in Conns |-> "off"]
    /\ writeMu  = [c \in Conns |-> "free"]
    /\ partial  = [c \in Conns |-> {}]
    /\ open     = [c \in Conns |-> FALSE]
    /\ helloAt  = [c \in Conns |-> 0]

Refresh == RefreshTick \/ Resolve \/ ResolveFails \/ SetKey

Authenticate(c) ==
    \/ Upgrade(c) \/ Challenge(c) \/ Begin(c) \/ AuthFails(c)
    \/ \E t \in AccessTokens : Hello(c, t)

ReadLoop(c) ==
    \/ ReadBuffered(c) \/ ReadSocket(c) \/ ReadFails(c) \/ PeerLeaves(c)
    \/ LoopLock(c) \/ FrameWritten(c) \/ FrameFails(c) \/ LoopClose(c)

Timer(c) == Fire(c) \/ TimerLock(c) \/ TimerWrites(c) \/ TimerCloses(c)

Tick ==
    /\ clock < MaxClock
    /\ clock' = clock + 1
    /\ UNCHANGED <<keySource, loop, auth, pending, buffered, timer, wire>>

Next ==
    \/ Tick
    \/ \E k \in Certs : Publish(k)
    \/ Refresh
    \/ \E c \in Conns : Authenticate(c) \/ ReadLoop(c) \/ Timer(c)

Spec == Init /\ [][Next]_vars

\* Runnable goroutines run, timers fire, a frame is flushed or fails, and the
\* broker's answer comes or fails; writeMu, contended by the other goroutine,
\* needs strong fairness like every sync.Mutex, and so does a successful
\* refresh: the broker is reached again and again.  Peers promise nothing.
Fairness ==
    /\ WF_vars(RefreshTick) /\ SF_vars(Resolve) /\ WF_vars(SetKey)
    /\ \A c \in Conns :
          /\ WF_vars(Timer(c)) /\ SF_vars(TimerLock(c)) /\ SF_vars(LoopLock(c))
          /\ WF_vars(FrameWritten(c) \/ FrameFails(c) \/ LoopClose(c))
          /\ WF_vars(ReadBuffered(c) \/ ReadFails(c))

FairSpec == Spec /\ Fairness

-----------------------------------------------------------------------------
(* Properties. *)

InSession(c) == loop[c] \in {"read", "write", "writing"}

TypeOK ==
    /\ clock     \in Time
    /\ cert      \in Certs
    /\ pub       \in Keys
    /\ expiresAt \in 0 .. MaxClock
    /\ refresh   \in [ pc   : {"off", "waiting", "fetching", "resolved"},
                       cert : Certs \cup {NoCert} ]
    /\ loop      \in [Conns -> LoopPC]
    /\ key       \in [Conns -> Keys]
    /\ token     \in [Conns -> AccessTokens]
    /\ pending   \in [Conns -> 0 .. MaxReply]
    /\ buffered  \in [Conns -> 0 .. MaxBuffered]
    /\ timer     \in [Conns -> TimerPC]
    /\ writeMu   \in [Conns -> Goroutines \cup {"free"}]
    /\ partial   \in [Conns -> SUBSET Goroutines]
    /\ open      \in [Conns -> BOOLEAN]
    /\ helloAt   \in [Conns -> 0 .. MaxClock]

\* The read loop and the timer never have a frame each in the buffer of one
\* connection: their bytes would be interleaved (writeMu of wsConn).
FramesAreWhole == \A c \in Conns : Cardinality(partial[c]) <= 1

\* "fails closed rather than silently verifying against a lapsed trust
\* chain": in delegate mode the key that admitted a session belonged to a
\* certificate that had not expired when authenticate read the key.
AdmittedByLiveKey ==
    \A c \in Conns :
        InSession(c) /\ refresh.pc # "off"
            => /\ token[c].signedBy = key[c]
               /\ \E k \in Certs : k.key = key[c] /\ helloAt[c] <= k.expires

\* While a session is open its expiry timer is pending or at work; the timer
\* is not left behind by a session that ended before it fired (the deferred
\* Stop of handleWS), and never ends a session whose token is still good.
SessionIsTimed ==
    \A c \in Conns :
        /\ InSession(c) /\ open[c] => timer[c] # "off"
        /\ timer[c] = "armed" => InSession(c)
        /\ timer[c] \notin {"off", "armed"} => token[c].expires <= clock

\* A session does not outlive its token, not even one that expires during
\* the handshake: the connection is closed and the handler returns, although
\* the read loop and the timer compete for writeMu and both close.
ExpiredSessionEnds ==
    \A c \in Conns :
        InSession(c) /\ clock >= token[c].expires ~> loop[c] = "closed"

\* "a broker-side delegate rotation is picked up without restarting": in
\* delegate mode a valid certificate that stays published is adopted, however
\* many refreshes fail before.
RotationIsPickedUp ==
    \A k \in Certs :
        refresh.pc # "off" /\ cert = k /\ Valid(k)
            ~> (pub = k.key /\ expiresAt = k.expires) \/ cert # k \/ ~Valid(k)

=============================================================================
