-------------------------------- MODULE Mitm --------------------------------
(***************************************************************************)
(* TLS interception (server/mitm): serveConnect answers a CONNECT, does    *)
(* the handshake with a leaf certificate from the CA's cache, arms a timer *)
(* that closes the tunnel before the leaf expires and serves requests on   *)
(* the one connection until it is closed.                                  *)
(*                                                                         *)
(* A tunnel is three goroutines: serveConnect (pc), the timer's watcher    *)
(* (timer) and the server's connection (conn, done: singleConnListener).   *)
(***************************************************************************)
EXTENDS Integers, Sequences, FiniteSets, SequencesExt

CONSTANTS
  Tunnels, Names,
  LeafTTL,           \* lifetime of a leaf
  Margin,            \* CA.effectiveMargin
  HandshakeTimeout,  \* readHeaderTimeout
  CacheSize,         \* DefaultMaxCacheSize
  TimerSlack,        \* how late a due timer may fire
  MaxTime            \* bound on the clock

ASSUME MitmAssumption ==
  /\ {LeafTTL, Margin, HandshakeTimeout, CacheSize, TimerSlack, MaxTime} \subseteq Nat
  /\ HandshakeTimeout < Margin /\ TimerSlack < Margin /\ Margin < LeafTTL

VARIABLES
  now,
  cache,     \* the LRU cache, most recently used first: name and notAfter
  pc,        \* serveConnect of each tunnel
  began,     \* when its handshake began
  leaf,      \* leafNotAfter; 0 before GetCertificate
  sni,       \* the name asked for
  timer,     \* the watcher: none, armed, fired or stopped
  due,       \* when an armed timer fires
  conn,      \* whether the hijacked connection is open
  done       \* whether singleConnListener.done is closed

vars == <<now, cache, pc, began, leaf, sni, timer, due, conn, done>>

-----------------------------------------------------------------------------
(* The cache (an LRU library) *)

Cached(n) == {i \in DOMAIN cache : cache[i].name = n}
Without(n) == IF Cached(n) = {} THEN cache
              ELSE RemoveAt(cache, CHOOSE i \in Cached(n) : TRUE)
Touched(e) == <<e>> \o Without(e.name)
Added(e)   == SubSeq(Touched(e), 1, IF Len(Touched(e)) < CacheSize
                                   THEN Len(Touched(e)) ELSE CacheSize)

(* Mutant: a leaf is used until it expires. *)
UsableToTheEnd(e) == now < e.notAfter

(* time.Now().Add(margin).Before(notAfter) *)
Usable(e) == now + Margin < e.notAfter

-----------------------------------------------------------------------------
InHandshake(t) == pc[t] \in {"handshake", "issue", "finish"}

(* The connection is hijacked and acknowledged, or refused: not HTTP/1, a  *)
(* target without a port, no hijack, a failing write.                      *)
Connect(t) ==
  /\ pc[t] = "idle"
  /\ \/ /\ pc' = [pc EXCEPT ![t] = "handshake"]
        /\ began' = [began EXCEPT ![t] = now]
        /\ conn' = [conn EXCEPT ![t] = TRUE]
     \/ /\ pc' = [pc EXCEPT ![t] = "returned"]
        /\ UNCHANGED <<began, conn>>
  /\ UNCHANGED <<now, cache, leaf, sni, timer, due, done>>

(* GetCertificate: leafFor finds a leaf of the name, or issues one. *)
ClientHello(t, n) ==
  /\ pc[t] = "handshake" /\ conn[t]
  /\ sni' = [sni EXCEPT ![t] = n]
  /\ \/ \E i \in Cached(n) :
          /\ Usable(cache[i])
          /\ cache' = Touched(cache[i])
          /\ leaf' = [leaf EXCEPT ![t] = cache[i].notAfter]
          /\ pc' = [pc EXCEPT ![t] = "finish"]
     \/ /\ \A i \in Cached(n) : ~Usable(cache[i])
        /\ cache' = IF Cached(n) = {} THEN cache
                    ELSE Touched(cache[CHOOSE i \in Cached(n) : TRUE])
        /\ leaf' = [leaf EXCEPT ![t] = now + LeafTTL]
        /\ pc' = [pc EXCEPT ![t] = "issue"]
  /\ UNCHANGED <<now, began, timer, due, conn, done>>

(* ... and adds it; another tunnel may have added one meanwhile. *)
AddLeaf(t) ==
  /\ pc[t] = "issue"
  /\ cache' = Added([name |-> sni[t], notAfter |-> leaf[t]])
  /\ pc' = [pc EXCEPT ![t] = "finish"]
  /\ UNCHANGED <<now, began, leaf, sni, timer, due, conn, done>>

(* Mutant: the margin is added. *)
ArmLate(t) ==
  /\ due' = [due EXCEPT ![t] = leaf[t] + Margin]
  /\ timer' = [timer EXCEPT ![t] = IF due'[t] > now THEN "armed" ELSE @]

(* No timer when the margin has begun. *)
Arm(t) ==
  /\ due' = [due EXCEPT ![t] = leaf[t] - Margin]
  /\ timer' = [timer EXCEPT ![t] = IF due'[t] > now THEN "armed" ELSE @]

HandshakeDone(t) ==
  /\ pc[t] = "finish" /\ conn[t]
  /\ pc' = [pc EXCEPT ![t] = "serve"]
  /\ Arm(t)
  /\ UNCHANGED <<now, cache, began, leaf, sni, conn, done>>

(* The context of the handshake closes the connection; a certificate being *)
(* issued is still issued and cached.                                      *)
HandshakeTimesOut(t) ==
  /\ InHandshake(t) /\ conn[t] /\ now >= began[t] + HandshakeTimeout
  /\ conn' = [conn EXCEPT ![t] = FALSE]
  /\ UNCHANGED <<now, cache, pc, began, leaf, sni, timer, due, done>>

(* A handshake, or issueLeaf, fails: the deferred calls close all. *)
HandshakeFails(t) ==
  /\ InHandshake(t)
  /\ pc' = [pc EXCEPT ![t] = "returned"]
  /\ conn' = [conn EXCEPT ![t] = FALSE]
  /\ UNCHANGED <<now, cache, began, leaf, sni, timer, due, done>>

-----------------------------------------------------------------------------
(* The client leaves, or the connection has been idle for too long. *)
PeerCloses(t) ==
  /\ pc[t] = "serve" /\ conn[t]
  /\ conn' = [conn EXCEPT ![t] = FALSE]
  /\ UNCHANGED <<now, cache, pc, began, leaf, sni, timer, due, done>>

TimerFires(t) ==
  /\ timer[t] = "armed" /\ due[t] <= now
  /\ timer' = [timer EXCEPT ![t] = "fired"]
  /\ conn' = [conn EXCEPT ![t] = FALSE]
  /\ UNCHANGED <<now, cache, pc, began, leaf, sni, due, done>>

(* Mutant: the connection is closed without a word to the listener. *)
CloseQuietly(t) ==
  /\ pc[t] = "serve" /\ ~conn[t] /\ ~done[t]
  /\ conn' = [conn EXCEPT ![t] = FALSE]
  /\ UNCHANGED <<now, cache, pc, began, leaf, sni, timer, due, done>>

(* http.Server sees the end of the connection: notifyOnCloseConn.Close. *)
NotifyClose(t) ==
  /\ pc[t] = "serve" /\ ~conn[t] /\ ~done[t]
  /\ done' = [done EXCEPT ![t] = TRUE]
  /\ UNCHANGED <<now, cache, pc, began, leaf, sni, timer, due, conn>>

(* The second Accept ends, Serve and serveConnect return. *)
ServeReturns(t) ==
  /\ pc[t] = "serve" /\ done[t]
  /\ pc' = [pc EXCEPT ![t] = "returned"]
  /\ UNCHANGED <<now, cache, began, leaf, sni, timer, due, conn, done>>

(* The watcher sees tunnelDone. *)
TimerStops(t) ==
  /\ timer[t] = "armed" /\ pc[t] = "returned"
  /\ timer' = [timer EXCEPT ![t] = "stopped"]
  /\ UNCHANGED <<now, cache, pc, began, leaf, sni, due, conn, done>>

(* A handshake is cut off in time and a timer fires within its slack. *)
Tick ==
  /\ now < MaxTime
  /\ \A t \in Tunnels :
        /\ InHandshake(t) /\ conn[t] => now < began[t] + HandshakeTimeout
        /\ timer[t] = "armed" => now < due[t] + TimerSlack
  /\ now' = now + 1
  /\ UNCHANGED <<cache, pc, began, leaf, sni, timer, due, conn, done>>

Init ==
  /\ now = 0 /\ cache = <<>>
  /\ pc = [t \in Tunnels |-> "idle"]
  /\ began = [t \in Tunnels |-> 0] /\ leaf = [t \in Tunnels |-> 0]
  /\ sni = [t \in Tunnels |-> CHOOSE n \in Names : TRUE]
  /\ timer = [t \in Tunnels |-> "none"] /\ due = [t \in Tunnels |-> 0]
  /\ conn = [t \in Tunnels |-> FALSE] /\ done = [t \in Tunnels |-> FALSE]

Next ==
  \/ \E t \in Tunnels :
       \/ Connect(t) \/ AddLeaf(t) \/ HandshakeDone(t)
       \/ HandshakeTimesOut(t) \/ HandshakeFails(t)
       \/ PeerCloses(t) \/ TimerFires(t) \/ TimerStops(t)
       \/ NotifyClose(t) \/ ServeReturns(t)
       \/ \E n \in Names : ClientHello(t, n)
  \/ Tick

Spec == Init /\ [][Next]_vars

(* Goroutines that can run do run, and time passes. *)
FairSpec ==
  /\ Spec /\ WF_vars(Tick)
  /\ \A t \in Tunnels :
       /\ WF_vars(AddLeaf(t)) /\ WF_vars(HandshakeDone(t))
       /\ WF_vars(NotifyClose(t)) /\ WF_vars(ServeReturns(t))
       /\ WF_vars(TimerFires(t)) /\ WF_vars(TimerStops(t))

-----------------------------------------------------------------------------
(* A leaf handed out at the ClientHello is still valid when the handshake, *)
(* however slow, is over (leafFor and its margin), though a cache entry    *)
(* may be shared and overwritten by another tunnel.                        *)
LeafOutlivesHandshake ==
  \A t \in Tunnels : pc[t] = "finish" /\ conn[t] => now < leaf[t]

(* How far the code keeps "Close the tunnel before the leaf cert expires"  *)
(* (mitm.go:178), for every tunnel, with a timer or without: one that      *)
(* stays open past the end of its leaf began when the leaf, taken from the *)
(* cache, had no more than the margin and the time of a handshake left.    *)
(* Any other tunnel is closed before that, a fresh leaf's always.          *)
OutlivesOnlyLateLeaf ==
  \A t \in Tunnels :
    pc[t] = "serve" /\ conn[t] /\ leaf[t] <= now =>
      leaf[t] <= began[t] + HandshakeTimeout + Margin

(* Whoever closes the connection, the client or the timer, serveConnect    *)
(* returns, the blocked Accept with it, and the watcher is not left behind.*)
TornDown ==
  \A t \in Tunnels :
    (pc[t] = "serve" /\ ~conn[t]) ~> (pc[t] = "returned" /\ timer[t] # "armed")
=============================================================================
