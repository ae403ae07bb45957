----------------------------- MODULE MitmProofs -----------------------------
(***************************************************************************)
(* LeafOutlivesHandshake and OutlivesOnlyLateLeaf for any tunnels, names   *)
(* and durations that satisfy MitmAssumption.                              *)
(*                                                                         *)
(* Neither is inductive.  A leaf outlives a handshake because it had more  *)
(* than the margin left when the client said hello, the handshake began no *)
(* later than that, and it is cut off after less than the margin.  A       *)
(* tunnel whose leaf is not late has an armed timer as long as it is open: *)
(* its handshake ended before the margin began, the timer is due a margin  *)
(* before the leaf it was armed for expires, no hello replaces that leaf   *)
(* afterwards, and the watcher stops only when the tunnel has returned.    *)
(***************************************************************************)
EXTENDS Mitm, SequenceTheorems, TLAPS

Leaves == [name : Names, notAfter : Nat]
PCs    == {"idle", "handshake", "issue", "finish", "serve", "returned"}
Timers == {"none", "armed", "fired", "stopped"}

TypeOK ==
  /\ now \in Nat
  /\ cache \in Seq(Leaves)
  /\ pc \in [Tunnels -> PCs]
  /\ began \in [Tunnels -> Nat]
  /\ leaf \in [Tunnels -> Nat]
  /\ DOMAIN sni = Tunnels
  /\ timer \in [Tunnels -> Timers]
  /\ due \in [Tunnels -> Int]
  /\ conn \in [Tunnels -> BOOLEAN]

(* A handshake with a connection is within its time; once it has a leaf,   *)
(* the leaf outlasts that time.                                            *)
HandshakeOK(t) ==
  /\ InHandshake(t) /\ conn[t] =>
        began[t] <= now /\ now <= began[t] + HandshakeTimeout
  /\ pc[t] = "issue" => sni[t] \in Names
  /\ pc[t] \in {"issue", "finish"} => began[t] + HandshakeTimeout < leaf[t]

(* A timer belongs to a tunnel whose handshake is over; an open tunnel has *)
(* one, or began on a late leaf.                                           *)
TimerOK(t) ==
  /\ timer[t] = "armed" =>
        /\ pc[t] \in {"serve", "returned"}
        /\ due[t] = leaf[t] - Margin
        /\ now <= due[t] + TimerSlack
  /\ pc[t] = "serve" /\ conn[t] =>
        \/ timer[t] = "armed"
        \/ leaf[t] <= began[t] + HandshakeTimeout + Margin

MitmInv == TypeOK /\ \A t \in Tunnels : HandshakeOK(t) /\ TimerOK(t)

-----------------------------------------------------------------------------
(* The cache *)

LEMMA WithoutType ==
  ASSUME cache \in Seq(Leaves), NEW n
  PROVE  Without(n) \in Seq(Leaves)
<1>1. CASE Cached(n) = {}
  BY <1>1 DEF Without
<1>2. CASE Cached(n) # {}
  <2> DEFINE i == CHOOSE i \in Cached(n) : TRUE
  <2>1. i \in 1 .. Len(cache)
    BY <1>2 DEF Cached
  <2> HIDE DEF i
  <2>2. SubSeq(cache, 1, i - 1) \in Seq(Leaves) /\ SubSeq(cache, i + 1, Len(cache)) \in Seq(Leaves)
    BY <2>1, SubSeqProperties
  <2>3. RemoveAt(cache, i) \in Seq(Leaves)
    BY <2>2, ConcatProperties DEF RemoveAt
  <2> QED
    BY <1>2, <2>3 DEF Without, i
<1> QED
  BY <1>1, <1>2

LEMMA TouchedType ==
  ASSUME cache \in Seq(Leaves), NEW e \in Leaves
  PROVE  Touched(e) \in Seq(Leaves)
<1>1. <<e>> \in Seq(Leaves)
  OBVIOUS
<1> QED
  BY <1>1, WithoutType, ConcatProperties DEF Touched

LEMMA AddedType ==
  ASSUME cache \in Seq(Leaves), NEW e \in Leaves
  PROVE  Added(e) \in Seq(Leaves)
<1> DEFINE s == Touched(e)
           m == IF Len(s) < CacheSize THEN Len(s) ELSE CacheSize
<1>1. s \in Seq(Leaves)
  BY TouchedType
<1> HIDE DEF s
<1>2. m \in Nat /\ m <= Len(s)
  BY <1>1, LenProperties, MitmAssumption
<1> HIDE DEF m
<1>3. SubSeq(s, 1, m) \in Seq(Leaves)
  BY <1>1, <1>2, SubSeqProperties
<1> QED
  BY <1>3 DEF Added, s, m

-----------------------------------------------------------------------------
(* A step leaves the other tunnels as they are. *)
SameTunnel(t) ==
  /\ pc'[t] = pc[t] /\ began'[t] = began[t] /\ leaf'[t] = leaf[t]
  /\ sni'[t] = sni[t] /\ timer'[t] = timer[t] /\ due'[t] = due[t]
  /\ conn'[t] = conn[t]

LEMMA Untouched ==
  ASSUME MitmInv, NEW t \in Tunnels, SameTunnel(t), now' = now
  PROVE  HandshakeOK(t)' /\ TimerOK(t)'
BY DEF MitmInv, SameTunnel, HandshakeOK, TimerOK, InHandshake

(* So it is enough to look at the tunnel that moves. *)
LEMMA OneMoves ==
  ASSUME MitmInv, NEW t \in Tunnels, now' = now, TypeOK',
         \A u \in Tunnels \ {t} : SameTunnel(u),
         HandshakeOK(t)', TimerOK(t)'
  PROVE  MitmInv'
<1>1. \A u \in Tunnels : HandshakeOK(u)' /\ TimerOK(u)'
  BY Untouched
<1> QED
  BY <1>1 DEF MitmInv
-----------------------------------------------------------------------------
(* The steps of a tunnel *)

LEMMA ConnectKeeps ==
  ASSUME MitmInv, NEW t \in Tunnels, Connect(t)
  PROVE  MitmInv'
<1>1. TypeOK'
  <2>1. pc' \in [Tunnels -> PCs]
    BY DEF MitmInv, TypeOK, Connect, PCs
  <2>2. began' \in [Tunnels -> Nat]
    BY DEF MitmInv, TypeOK, Connect
  <2>3. conn' \in [Tunnels -> BOOLEAN]
    BY DEF MitmInv, TypeOK, Connect
  <2> QED
    BY <2>1, <2>2, <2>3 DEF MitmInv, TypeOK, Connect
<1>2. now' = now /\ \A u \in Tunnels \ {t} : SameTunnel(u)
  BY DEF MitmInv, TypeOK, Connect, SameTunnel
<1>3. HandshakeOK(t)'
  BY MitmAssumption DEF MitmInv, TypeOK, HandshakeOK, InHandshake, Connect
<1>4. TimerOK(t)'
  BY MitmAssumption DEF MitmInv, TypeOK, HandshakeOK, TimerOK, InHandshake, Connect
<1> QED
  BY <1>1, <1>2, <1>3, <1>4, OneMoves

(* A leaf from the cache has the margin left, a new one its lifetime. *)
LEMMA ClientHelloKeeps ==
  ASSUME MitmInv, NEW t \in Tunnels, NEW n \in Names, ClientHello(t, n)
  PROVE  MitmInv'
<1>1. /\ pc[t] = "handshake" /\ conn[t] /\ sni' = [sni EXCEPT ![t] = n]
      /\ UNCHANGED <<now, began, timer, due, conn, done>>
  BY DEF ClientHello
<1>2. \E p \in {"finish", "issue"}, l \in Nat :
        /\ pc' = [pc EXCEPT ![t] = p]
        /\ leaf' = [leaf EXCEPT ![t] = l]
        /\ now + Margin < l \/ l = now + LeafTTL
        /\ cache' \in Seq(Leaves)
  <2>1. CASE \E i \in Cached(n) :
               /\ Usable(cache[i])
               /\ cache' = Touched(cache[i])
               /\ leaf' = [leaf EXCEPT ![t] = cache[i].notAfter]
               /\ pc' = [pc EXCEPT ![t] = "finish"]
    <3>1. PICK i \in Cached(n) :
            /\ Usable(cache[i])
            /\ cache' = Touched(cache[i])
            /\ leaf' = [leaf EXCEPT ![t] = cache[i].notAfter]
            /\ pc' = [pc EXCEPT ![t] = "finish"]
      BY <2>1
    <3>2. cache \in Seq(Leaves) /\ cache[i] \in Leaves
      BY DEF MitmInv, TypeOK, Cached
    <3>3. cache' \in Seq(Leaves)
      BY <3>1, <3>2, TouchedType
    <3>4. cache[i].notAfter \in Nat
      BY <3>2 DEF Leaves
    <3> QED
      BY <3>1, <3>3, <3>4 DEF Usable
  <2>2. CASE /\ cache' = IF Cached(n) = {} THEN cache
                         ELSE Touched(cache[CHOOSE i \in Cached(n) : TRUE])
             /\ leaf' = [leaf EXCEPT ![t] = now + LeafTTL]
             /\ pc' = [pc EXCEPT ![t] = "issue"]
    <3>1. cache \in Seq(Leaves) /\ now \in Nat
      BY DEF MitmInv, TypeOK
    <3>2. \A i \in Cached(n) : cache[i] \in Leaves
      BY <3>1 DEF Cached
    <3>3. cache' \in Seq(Leaves)
      BY <2>2, <3>1, <3>2, TouchedType
    <3>4. now + LeafTTL \in Nat
      BY <3>1, MitmAssumption
    <3> QED
      BY <2>2, <3>3, <3>4
  <2> QED
    BY <2>1, <2>2 DEF ClientHello
<1>3. PICK p \in {"finish", "issue"}, l \in Nat :
        /\ pc' = [pc EXCEPT ![t] = p]
        /\ leaf' = [leaf EXCEPT ![t] = l]
        /\ now + Margin < l \/ l = now + LeafTTL
        /\ cache' \in Seq(Leaves)
  BY <1>2
<1>4. TypeOK'
  BY <1>1, <1>3 DEF MitmInv, TypeOK, PCs
<1>5. now' = now /\ \A u \in Tunnels \ {t} : SameTunnel(u)
  BY <1>1, <1>3 DEF MitmInv, TypeOK, SameTunnel
<1>6. /\ pc'[t] = p /\ leaf'[t] = l /\ sni'[t] = n
      /\ began'[t] = began[t] /\ conn'[t] = conn[t] /\ timer'[t] = timer[t]
  BY <1>1, <1>3 DEF MitmInv, TypeOK
<1>7. /\ began[t] \in Nat /\ now \in Nat
      /\ began[t] <= now /\ now <= began[t] + HandshakeTimeout
  BY <1>1 DEF MitmInv, TypeOK, HandshakeOK, InHandshake
<1>8. began[t] + HandshakeTimeout < l
  BY <1>3, <1>7, MitmAssumption
<1>9. HandshakeOK(t)'
  BY <1>5, <1>6, <1>7, <1>8 DEF HandshakeOK, InHandshake
<1>10. TimerOK(t)'
  BY <1>1, <1>6 DEF MitmInv, TimerOK
<1> QED
  BY <1>4, <1>5, <1>9, <1>10, OneMoves

LEMMA AddLeafKeeps ==
  ASSUME MitmInv, NEW t \in Tunnels, AddLeaf(t)
  PROVE  MitmInv'
<1>1. TypeOK'
  <2>1. sni[t] \in Names /\ leaf[t] \in Nat /\ cache \in Seq(Leaves)
    BY DEF AddLeaf, MitmInv, TypeOK, HandshakeOK
  <2>2. [name |-> sni[t], notAfter |-> leaf[t]] \in Leaves
    BY <2>1 DEF Leaves
  <2>3. cache' \in Seq(Leaves)
    BY <2>1, <2>2, AddedType DEF AddLeaf
  <2> QED
    BY <2>3 DEF MitmInv, TypeOK, AddLeaf, PCs
<1>2. now' = now /\ \A u \in Tunnels \ {t} : SameTunnel(u)
  BY DEF MitmInv, TypeOK, AddLeaf, SameTunnel
<1>3. HandshakeOK(t)'
  BY DEF MitmInv, TypeOK, HandshakeOK, InHandshake, AddLeaf
<1>4. TimerOK(t)'
  BY DEF MitmInv, TypeOK, HandshakeOK, TimerOK, InHandshake, AddLeaf
<1> QED
  BY <1>1, <1>2, <1>3, <1>4, OneMoves

LEMMA HandshakeDoneKeeps ==
  ASSUME MitmInv, NEW t \in Tunnels, HandshakeDone(t)
  PROVE  MitmInv'
<1>1. TypeOK'
  BY MitmAssumption DEF MitmInv, TypeOK, HandshakeDone, Arm, PCs, Timers
<1>2. now' = now /\ \A u \in Tunnels \ {t} : SameTunnel(u)
  BY DEF MitmInv, TypeOK, HandshakeDone, SameTunnel, Arm
<1>3. HandshakeOK(t)'
  BY MitmAssumption DEF MitmInv, TypeOK, HandshakeOK, InHandshake, HandshakeDone, Arm
<1>4. TimerOK(t)'
  BY MitmAssumption DEF MitmInv, TypeOK, HandshakeOK, TimerOK, InHandshake, HandshakeDone, Arm
<1> QED
  BY <1>1, <1>2, <1>3, <1>4, OneMoves

LEMMA HandshakeTimesOutKeeps ==
  ASSUME MitmInv, NEW t \in Tunnels, HandshakeTimesOut(t)
  PROVE  MitmInv'
<1>1. TypeOK'
  BY DEF MitmInv, TypeOK, HandshakeTimesOut, PCs, Timers
<1>2. now' = now /\ \A u \in Tunnels \ {t} : SameTunnel(u)
  BY DEF MitmInv, TypeOK, HandshakeTimesOut, SameTunnel
<1>3. HandshakeOK(t)'
  BY DEF MitmInv, TypeOK, HandshakeOK, InHandshake, HandshakeTimesOut
<1>4. TimerOK(t)'
  BY DEF MitmInv, TypeOK, HandshakeOK, TimerOK, InHandshake, HandshakeTimesOut
<1> QED
  BY <1>1, <1>2, <1>3, <1>4, OneMoves

LEMMA HandshakeFailsKeeps ==
  ASSUME MitmInv, NEW t \in Tunnels, HandshakeFails(t)
  PROVE  MitmInv'
<1>1. TypeOK'
  BY DEF MitmInv, TypeOK, HandshakeFails, PCs, Timers
<1>2. now' = now /\ \A u \in Tunnels \ {t} : SameTunnel(u)
  BY DEF MitmInv, TypeOK, HandshakeFails, SameTunnel
<1>3. HandshakeOK(t)'
  BY DEF MitmInv, TypeOK, HandshakeOK, InHandshake, HandshakeFails
<1>4. TimerOK(t)'
  BY DEF MitmInv, TypeOK, HandshakeOK, TimerOK, InHandshake, HandshakeFails
<1> QED
  BY <1>1, <1>2, <1>3, <1>4, OneMoves

LEMMA PeerClosesKeeps ==
  ASSUME MitmInv, NEW t \in Tunnels, PeerCloses(t)
  PROVE  MitmInv'
<1>1. TypeOK'
  BY DEF MitmInv, TypeOK, PeerCloses, PCs, Timers
<1>2. now' = now /\ \A u \in Tunnels \ {t} : SameTunnel(u)
  BY DEF MitmInv, TypeOK, PeerCloses, SameTunnel
<1>3. HandshakeOK(t)'
  BY DEF MitmInv, TypeOK, HandshakeOK, InHandshake, PeerCloses
<1>4. TimerOK(t)'
  BY DEF MitmInv, TypeOK, HandshakeOK, TimerOK, InHandshake, PeerCloses
<1> QED
  BY <1>1, <1>2, <1>3, <1>4, OneMoves

LEMMA TimerFiresKeeps ==
  ASSUME MitmInv, NEW t \in Tunnels, TimerFires(t)
  PROVE  MitmInv'
<1>1. TypeOK'
  BY DEF MitmInv, TypeOK, TimerFires, PCs, Timers
<1>2. now' = now /\ \A u \in Tunnels \ {t} : SameTunnel(u)
  BY DEF MitmInv, TypeOK, TimerFires, SameTunnel
<1>3. HandshakeOK(t)'
  BY DEF MitmInv, TypeOK, HandshakeOK, InHandshake, TimerFires
<1>4. TimerOK(t)'
  BY DEF MitmInv, TypeOK, HandshakeOK, TimerOK, InHandshake, TimerFires
<1> QED
  BY <1>1, <1>2, <1>3, <1>4, OneMoves

LEMMA NotifyCloseKeeps ==
  ASSUME MitmInv, NEW t \in Tunnels, NotifyClose(t)
  PROVE  MitmInv'
<1>1. TypeOK'
  BY DEF MitmInv, TypeOK, NotifyClose, PCs, Timers
<1>2. now' = now /\ \A u \in Tunnels \ {t} : SameTunnel(u)
  BY DEF MitmInv, TypeOK, NotifyClose, SameTunnel
<1>3. HandshakeOK(t)'
  BY DEF MitmInv, TypeOK, HandshakeOK, InHandshake, NotifyClose
<1>4. TimerOK(t)'
  BY DEF MitmInv, TypeOK, HandshakeOK, TimerOK, InHandshake, NotifyClose
<1> QED
  BY <1>1, <1>2, <1>3, <1>4, OneMoves

LEMMA ServeReturnsKeeps ==
  ASSUME MitmInv, NEW t \in Tunnels, ServeReturns(t)
  PROVE  MitmInv'
<1>1. TypeOK'
  BY DEF MitmInv, TypeOK, ServeReturns, PCs, Timers
<1>2. now' = now /\ \A u \in Tunnels \ {t} : SameTunnel(u)
  BY DEF MitmInv, TypeOK, ServeReturns, SameTunnel
<1>3. HandshakeOK(t)'
  BY DEF MitmInv, TypeOK, HandshakeOK, InHandshake, ServeReturns
<1>4. TimerOK(t)'
  BY DEF MitmInv, TypeOK, HandshakeOK, TimerOK, InHandshake, ServeReturns
<1> QED
  BY <1>1, <1>2, <1>3, <1>4, OneMoves

LEMMA TimerStopsKeeps ==
  ASSUME MitmInv, NEW t \in Tunnels, TimerStops(t)
  PROVE  MitmInv'
<1>1. TypeOK'
  BY DEF MitmInv, TypeOK, TimerStops, PCs, Timers
<1>2. now' = now /\ \A u \in Tunnels \ {t} : SameTunnel(u)
  BY DEF MitmInv, TypeOK, TimerStops, SameTunnel
<1>3. HandshakeOK(t)'
  BY DEF MitmInv, TypeOK, HandshakeOK, InHandshake, TimerStops
<1>4. TimerOK(t)'
  BY DEF MitmInv, TypeOK, HandshakeOK, TimerOK, InHandshake, TimerStops
<1> QED
  BY <1>1, <1>2, <1>3, <1>4, OneMoves

(* Time does not run past a deadline that is being enforced. *)
LEMMA TickKeeps ==
  ASSUME MitmInv, Tick
  PROVE  MitmInv'
<1>1. TypeOK'
  BY DEF MitmInv, TypeOK, Tick
<1>2. ASSUME NEW t \in Tunnels PROVE HandshakeOK(t)' /\ TimerOK(t)'
  BY MitmAssumption DEF MitmInv, TypeOK, Tick, HandshakeOK, TimerOK, InHandshake
<1> QED
  BY <1>1, <1>2 DEF MitmInv

LEMMA MitmStep == MitmInv /\ [Next]_vars => MitmInv'
<1> SUFFICES ASSUME MitmInv, [Next]_vars PROVE MitmInv'
  OBVIOUS
<1>1. CASE Next
  BY <1>1, ConnectKeeps, ClientHelloKeeps, AddLeafKeeps, HandshakeDoneKeeps,
     HandshakeTimesOutKeeps, HandshakeFailsKeeps, PeerClosesKeeps, TimerFiresKeeps,
     NotifyCloseKeeps, ServeReturnsKeeps, TimerStopsKeeps, TickKeeps DEF Next
<1>2. CASE UNCHANGED vars
  BY <1>2 DEF vars, MitmInv, TypeOK, HandshakeOK, TimerOK, InHandshake
<1> QED
  BY <1>1, <1>2

(* The invariant behind both theorems: serveConnect, leafFor and the       *)
(* teardown timer keep their deadlines in every order of steps.            *)
THEOREM MitmInvariant == Spec => []MitmInv
<1>1. Init => MitmInv
  BY DEF Init, MitmInv, TypeOK, HandshakeOK, TimerOK, InHandshake, PCs, Timers
<1> QED
  BY <1>1, MitmStep, PTL DEF Spec

(* The certificate leafFor hands out is valid when the handshake ends.     *)
THEOREM HandshakeLeafValid == Spec => []LeafOutlivesHandshake
<1>1. MitmInv => LeafOutlivesHandshake
  BY MitmAssumption DEF MitmInv, TypeOK, HandshakeOK, InHandshake, LeafOutlivesHandshake
<1> QED
  BY <1>1, MitmInvariant, PTL

(* Only a tunnel that began on a leaf about to end stays open when the     *)
(* leaf has expired (mitm.go:178-196).                                     *)
THEOREM TunnelsEndInTime == Spec => []OutlivesOnlyLateLeaf
<1>1. ASSUME MitmInv, NEW t \in Tunnels, pc[t] = "serve", conn[t], leaf[t] <= now
      PROVE  leaf[t] <= began[t] + HandshakeTimeout + Margin
  <2>1. timer[t] # "armed"
    BY <1>1, MitmAssumption DEF MitmInv, TypeOK, TimerOK
  <2> QED
    BY <1>1, <2>1 DEF MitmInv, TimerOK
<1>2. MitmInv => OutlivesOnlyLateLeaf
  BY <1>1 DEF OutlivesOnlyLateLeaf
<1> QED
  BY <1>2, MitmInvariant, PTL
=============================================================================
