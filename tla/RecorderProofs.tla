--------------------------- MODULE RecorderProofs ---------------------------
(***************************************************************************)
(* Safety of the traffic recorder and of the shutdown that closes it, for  *)
(* any number of handlers, any buffer capacity and any counter width.      *)
(*                                                                         *)
(* The inductive invariant relates the three goroutines that meet at the   *)
(* recorder: LockInv is what the read-write lock gives Record and Close,   *)
(* FlowInv follows an accepted event through the channel and the writer to *)
(* the store, MainInv orders Shutdown, Close and the databases.            *)
(***************************************************************************)
EXTENDS Recorder, TLAPS

\* The events in a channel buffer.
Buffered(s) == {s[i] : i \in 1 .. Len(s)}

\* No handler is past RLock once the channel is closed, or without a recorder.
LockInv ==
  /\ "closed channel" \notin panics
  /\ closed <=> closer \in {"drain", "returned"}
  /\ closed \/ wiring = "none" => \A c \in Handlers : pc[c] \in {"idle", "request"}
  /\ \A c \in Handlers : pc[c] # "idle" => ev[c] # NoEvent

\* An accepted event is buffered, being inserted, or done.
FlowInv ==
  /\ sent \subseteq stored \union failed \union Buffered(in) \union {cur}
  /\ writer = "insert" <=> cur # NoEvent
  /\ writer = "exited" => closed /\ in = <<>>
  /\ closer = "returned" => writer = "exited"
  /\ wiring = "none" => writer = "idle" /\ in = <<>>

\* Close starts after Shutdown, the databases close after Close.
MainInv ==
  /\ main \in {"serving", "shutdown", "closing"} => closer = "none"
  /\ wiring = "none" => closer = "none"
  /\ ~dbOpen => closer = "returned" \/ wiring = "none"
  /\ late # {} => closed
  /\ quiesced => /\ main \notin {"serving", "shutdown"}
                 /\ late \subseteq Hijacked
                 /\ \A c \in Handlers \ Hijacked : pc[c] = "idle"

\* The type invariant, by the part of the state it is about.
TypeHandlers ==
  /\ next \in 1 .. MaxEvents + 1
  /\ pc \in [Handlers -> {"idle", "request", "send", "load", "cas"}]
  /\ ev \in [Handlers -> Events \union {NoEvent}]

TypeDrops ==
  /\ total \in [Handlers -> 0 .. Word - 1] /\ last \in [Handlers -> 0 .. Word - 1]
  /\ dropped \in 0 .. Word - 1 /\ loggedDrops \in 0 .. Word - 1 /\ logs \in Nat

TypeFlow ==
  /\ in \in Seq(Events) /\ Len(in) <= BufferSize
  /\ cur \in Events \union {NoEvent}
  /\ sent \subseteq Events /\ stored \subseteq Events /\ failed \subseteq Events

TypeFlags ==
  /\ wiring \in Wirings
  /\ closed \in BOOLEAN /\ deadline \in BOOLEAN /\ quiesced \in BOOLEAN /\ dbOpen \in BOOLEAN
  /\ writer \in {"idle", "insert", "exited"}
  /\ closer \in {"none", "lock", "drain", "returned"}
  /\ main \in {"serving", "shutdown", "closing", "await", "exiting", "exit"}
  /\ late \subseteq Handlers
  /\ panics \subseteq {"nil receiver", "closed channel"}

RInv == TypeOK /\ LockInv /\ FlowInv /\ MainInv

----------------------------------------------------------------------------
(***************************************************************************)
(* The channel buffer.                                                     *)
(***************************************************************************)

\* A send adds exactly its event to the buffer.
LEMMA BufferedAppend ==
  ASSUME NEW S, NEW s \in Seq(S), NEW e \in S
  PROVE  /\ Append(s, e) \in Seq(S)
         /\ Len(Append(s, e)) = Len(s) + 1
         /\ Buffered(s) \union {e} \subseteq Buffered(Append(s, e))
  BY DEF Buffered

\* A receive takes the head, and nothing else, out of the buffer.
LEMMA BufferedTail ==
  ASSUME NEW S, NEW s \in Seq(S), s # <<>>
  PROVE  /\ Head(s) \in S
         /\ Tail(s) \in Seq(S)
         /\ Len(Tail(s)) <= Len(s)
         /\ Buffered(s) \subseteq Buffered(Tail(s)) \union {Head(s)}
<1>1. /\ Head(s) \in S
      /\ Tail(s) \in Seq(S)
      /\ Len(Tail(s)) = Len(s) - 1
      /\ Len(s) \in Nat
  OBVIOUS
<1>2. ASSUME NEW i \in 1 .. Len(s), i # 1
      PROVE  s[i] \in Buffered(Tail(s))
  <2>1. i - 1 \in 1 .. Len(Tail(s)) /\ s[i] = Tail(s)[i - 1]
    BY <1>1, <1>2
  <2> QED
    BY <2>1 DEF Buffered
<1>3. s[1] = Head(s)
  BY <1>1
<1> QED
  BY <1>1, <1>2, <1>3 DEF Buffered

\* TypeOK is its parts.
LEMMA TypeParts == TypeOK <=> TypeHandlers /\ TypeDrops /\ TypeFlow /\ TypeFlags
  BY DEF TypeOK, TypeHandlers, TypeDrops, TypeFlow, TypeFlags

\* TypeOK is its parts, in the next state.
LEMMA TypePartsNext == TypeOK' <=> (TypeHandlers /\ TypeDrops /\ TypeFlow /\ TypeFlags)'
  BY DEF TypeOK, TypeHandlers, TypeDrops, TypeFlow, TypeFlags

\* The drop counters stay within their width.
LEMMA WordRange ==
  ASSUME NEW x \in Nat
  PROVE  x % Word \in 0 .. Word - 1
  BY RecorderAssumption

\* The initial state of NewAsyncRecorder and runWithShutdown.
LEMMA RInitInv == Init => RInv
<1> SUFFICES ASSUME Init PROVE RInv
  OBVIOUS
<1>1. TypeOK
  <2>1. TypeHandlers
    BY RecorderAssumption DEF Init, TypeHandlers, Events, NoEvent
  <2>2. TypeDrops
    BY RecorderAssumption DEF Init, TypeDrops
  <2>3. TypeFlow
    BY RecorderAssumption DEF Init, TypeFlow
  <2>4. TypeFlags
    BY Zenon DEF Init, TypeFlags
  <2> QED
    BY <2>1, <2>2, <2>3, <2>4, TypeParts
<1>2. LockInv
  BY DEF Init, LockInv
<1>3. FlowInv
  BY DEF Init, FlowInv
<1>4. MainInv
  BY DEF Init, MainInv
<1> QED
  BY <1>1, <1>2, <1>3, <1>4 DEF RInv

\* A request begins with an event of its own.
LEMMA BeginInv ==
  ASSUME RInv, NEW c \in Handlers, Begin(c)
  PROVE  RInv'
<1> USE DEF Begin, chanVars, dropVars, mainVars, writeVars, Return
<1>1. TypeOK'
  <2>1. TypeHandlers'
    BY RecorderAssumption, TypeParts DEF RInv, TypeHandlers, Events, NoEvent
  <2>2. TypeDrops'
    BY TypeParts DEF RInv, TypeDrops
  <2>3. TypeFlow'
    BY TypeParts DEF RInv, TypeFlow
  <2>4. TypeFlags'
    BY Zenon, TypeParts DEF RInv, TypeFlags
  <2> QED
    BY <2>1, <2>2, <2>3, <2>4, TypePartsNext
<1>2. LockInv'
  <2>0. next # NoEvent
    BY RecorderAssumption, TypeParts DEF RInv, TypeHandlers, NoEvent
  <2>1. \A d \in Handlers : pc'[d] # "idle" => ev'[d] # NoEvent
    BY <2>0 DEF RInv, TypeOK, LockInv
  <2>2. closed \/ wiring = "none" => \A d \in Handlers : pc'[d] \in {"idle", "request"}
    BY DEF RInv, TypeOK, LockInv
  <2> QED
    BY <2>1, <2>2 DEF RInv, LockInv
<1>3. FlowInv'
  BY DEF RInv, TypeOK, LockInv, FlowInv, MainInv
<1>4. MainInv'
  BY DEF RInv, TypeOK, LockInv, MainInv
<1> QED
  BY <1>1, <1>2, <1>3, <1>4 DEF RInv

\* A handler without a recorder only panics.
LEMMA RecordNilInv ==
  ASSUME RInv, NEW c \in Handlers, RecordNil(c)
  PROVE  RInv'
<1> USE DEF RecordNil, chanVars, dropVars, mainVars, writeVars, Return
<1>1. TypeOK'
  <2>1. TypeHandlers'
    BY RecorderAssumption, TypeParts DEF RInv, TypeHandlers, Events, NoEvent
  <2>2. TypeDrops'
    BY TypeParts DEF RInv, TypeDrops
  <2>3. TypeFlow'
    BY TypeParts DEF RInv, TypeFlow
  <2>4. TypeFlags'
    BY Zenon, TypeParts DEF RInv, TypeFlags
  <2> QED
    BY <2>1, <2>2, <2>3, <2>4, TypePartsNext
<1>2. LockInv'
  BY DEF RInv, TypeOK, LockInv, MainInv
<1>3. FlowInv'
  BY DEF RInv, TypeOK, LockInv, FlowInv, MainInv
<1>4. MainInv'
  BY DEF RInv, TypeOK, LockInv, MainInv
<1> QED
  BY <1>1, <1>2, <1>3, <1>4 DEF RInv

\* A handler enters the read lock only while the channel is open.
LEMMA RecordLockInv ==
  ASSUME RInv, NEW c \in Handlers, RecordLock(c)
  PROVE  RInv'
<1> USE DEF RecordLock, chanVars, dropVars, mainVars, writeVars, Return
<1>1. TypeOK'
  <2>1. TypeHandlers'
    BY RecorderAssumption, TypeParts DEF RInv, TypeHandlers, Events, NoEvent
  <2>2. TypeDrops'
    BY TypeParts DEF RInv, TypeDrops
  <2>3. TypeFlow'
    BY TypeParts DEF RInv, TypeFlow
  <2>4. TypeFlags'
    BY Zenon, TypeParts DEF RInv, TypeFlags
  <2> QED
    BY <2>1, <2>2, <2>3, <2>4, TypePartsNext
<1>2. LockInv'
  BY DEF RInv, TypeOK, LockInv, MainInv
<1>3. FlowInv'
  BY DEF RInv, TypeOK, LockInv, FlowInv, MainInv
<1>4. MainInv'
  BY DEF RInv, TypeOK, LockInv, MainInv
<1> QED
  BY <1>1, <1>2, <1>3, <1>4 DEF RInv

\* A send happens only on the open channel and accepts its event.
LEMMA RecordSendInv ==
  ASSUME RInv, NEW c \in Handlers, RecordSend(c)
  PROVE  RInv'
<1> USE DEF RecordSend, chanVars, dropVars, mainVars, writeVars, Return
<1>1. TypeOK'
  <2>1. TypeHandlers'
    BY RecorderAssumption, TypeParts DEF RInv, TypeHandlers, Events, NoEvent
  <2>2. TypeDrops'
    BY TypeParts DEF RInv, TypeDrops
  <2>3. TypeFlow'
    <3>1. ~closed /\ ev[c] \in Events /\ in \in Seq(Events)
      BY DEF RInv, LockInv, TypeOK, NoEvent
    <3>2. /\ Append(in, ev[c]) \in Seq(Events)
          /\ Len(Append(in, ev[c])) = Len(in) + 1
      BY <3>1, BufferedAppend
    <3> QED
      BY <3>1, <3>2, RecorderAssumption, TypeParts DEF RInv, TypeFlow
  <2>4. TypeFlags'
    BY Zenon, TypeParts DEF RInv, TypeFlags
  <2> QED
    BY <2>1, <2>2, <2>3, <2>4, TypePartsNext
<1>2. LockInv'
  BY DEF RInv, TypeOK, LockInv, MainInv
<1>3. FlowInv'
  <2>1. ~closed /\ ev[c] \in Events /\ in \in Seq(Events)
    BY DEF RInv, LockInv, TypeOK, NoEvent
  <2>2. Buffered(in) \union {ev[c]} \subseteq Buffered(in')
    BY <2>1, BufferedAppend
  <2>3. sent' \subseteq stored \union failed \union Buffered(in') \union {cur}
    BY <2>1, <2>2 DEF RInv, FlowInv
  <2> QED
    BY <2>1, <2>3 DEF RInv, FlowInv, LockInv
<1>4. MainInv'
  BY DEF RInv, TypeOK, LockInv, MainInv
<1> QED
  BY <1>1, <1>2, <1>3, <1>4 DEF RInv

\* A drop is counted under the read lock.
LEMMA DropAddInv ==
  ASSUME RInv, NEW c \in Handlers, DropAdd(c)
  PROVE  RInv'
<1> USE DEF DropAdd, chanVars, dropVars, mainVars, writeVars, Return
<1>1. TypeOK'
  <2>1. TypeHandlers'
    BY RecorderAssumption, TypeParts DEF RInv, TypeHandlers, Events, NoEvent
  <2>2. TypeDrops'
    <3>1. dropped' \in 0 .. Word - 1
      BY TypeParts, WordRange DEF RInv, TypeDrops
    <3> QED
      BY <3>1, TypeParts DEF RInv, TypeDrops
  <2>3. TypeFlow'
    BY TypeParts DEF RInv, TypeFlow
  <2>4. TypeFlags'
    BY Zenon, TypeParts DEF RInv, TypeFlags
  <2> QED
    BY <2>1, <2>2, <2>3, <2>4, TypePartsNext
<1>2. LockInv'
  BY DEF RInv, TypeOK, LockInv, MainInv
<1>3. FlowInv'
  BY DEF RInv, TypeOK, LockInv, FlowInv, MainInv
<1>4. MainInv'
  BY DEF RInv, TypeOK, LockInv, MainInv
<1> QED
  BY <1>1, <1>2, <1>3, <1>4 DEF RInv

\* A dropping handler leaves the lock or goes on to the swap.
LEMMA DropLoadInv ==
  ASSUME RInv, NEW c \in Handlers, DropLoad(c)
  PROVE  RInv'
<1> USE DEF DropLoad, chanVars, dropVars, mainVars, writeVars, Return
<1>1. TypeOK'
  <2>1. TypeHandlers'
    BY RecorderAssumption, TypeParts DEF RInv, TypeHandlers, Events, NoEvent
  <2>2. TypeDrops'
    BY TypeParts DEF RInv, TypeDrops
  <2>3. TypeFlow'
    BY TypeParts DEF RInv, TypeFlow
  <2>4. TypeFlags'
    BY Zenon, TypeParts DEF RInv, TypeFlags
  <2> QED
    BY <2>1, <2>2, <2>3, <2>4, TypePartsNext
<1>2. LockInv'
  BY DEF RInv, TypeOK, LockInv, MainInv
<1>3. FlowInv'
  BY DEF RInv, TypeOK, LockInv, FlowInv, MainInv
<1>4. MainInv'
  BY DEF RInv, TypeOK, LockInv, MainInv
<1> QED
  BY <1>1, <1>2, <1>3, <1>4 DEF RInv

\* The swap is the handler's last step under the lock.
LEMMA DropCASInv ==
  ASSUME RInv, NEW c \in Handlers, DropCAS(c)
  PROVE  RInv'
<1> USE DEF DropCAS, chanVars, dropVars, mainVars, writeVars, Return
<1>1. TypeOK'
  <2>1. TypeHandlers'
    BY RecorderAssumption, TypeParts DEF RInv, TypeHandlers, Events, NoEvent
  <2>2. TypeDrops'
    BY TypeParts DEF RInv, TypeDrops
  <2>3. TypeFlow'
    BY TypeParts DEF RInv, TypeFlow
  <2>4. TypeFlags'
    BY Zenon, TypeParts DEF RInv, TypeFlags
  <2> QED
    BY <2>1, <2>2, <2>3, <2>4, TypePartsNext
<1>2. LockInv'
  BY DEF RInv, TypeOK, LockInv, MainInv
<1>3. FlowInv'
  BY DEF RInv, TypeOK, LockInv, FlowInv, MainInv
<1>4. MainInv'
  BY DEF RInv, TypeOK, LockInv, MainInv
<1> QED
  BY <1>1, <1>2, <1>3, <1>4 DEF RInv

\* The writer takes an event over from the buffer.
LEMMA ReceiveInv ==
  ASSUME RInv, Receive
  PROVE  RInv'
<1> USE DEF Receive, chanVars, dropVars, mainVars, writeVars, writerFrame
<1>1. TypeOK'
  <2>1. TypeHandlers'
    BY RecorderAssumption, TypeParts DEF RInv, TypeHandlers, Events, NoEvent
  <2>2. TypeDrops'
    BY TypeParts DEF RInv, TypeDrops
  <2>3. TypeFlow'
    <3>1. /\ Head(in) \in Events
          /\ Tail(in) \in Seq(Events)
          /\ Len(Tail(in)) <= Len(in)
      BY BufferedTail, TypeParts DEF RInv, TypeFlow
    <3>2. Len(in) \in Nat /\ Len(Tail(in)) \in Nat
      BY <3>1, TypeParts DEF RInv, TypeFlow
    <3> QED
      BY <3>1, <3>2, RecorderAssumption, TypeParts DEF RInv, TypeFlow
  <2>4. TypeFlags'
    BY Zenon, TypeParts DEF RInv, TypeFlags
  <2> QED
    BY <2>1, <2>2, <2>3, <2>4, TypePartsNext
<1>2. LockInv'
  BY DEF RInv, TypeOK, LockInv, MainInv
<1>3. FlowInv'
  <2>1. Buffered(in) \subseteq Buffered(in') \union {cur'}
    BY BufferedTail DEF RInv, TypeOK
  <2>2. sent \subseteq Events /\ NoEvent \notin Events
    BY TypeParts DEF RInv, TypeFlow, NoEvent, Events
  <2>3. sent \subseteq stored \union failed \union Buffered(in) \union {NoEvent}
    BY Zenon DEF RInv, FlowInv
  <2>4. sent \subseteq stored \union failed \union Buffered(in') \union {cur'}
    BY Zenon, <2>1, <2>2, <2>3
  <2>5. cur' # NoEvent
    <3>1. in \in Seq(Events) /\ in # <<>>
      BY TypeParts DEF RInv, TypeFlow
    <3>2. Head(in) \in Events
      BY <3>1, BufferedTail
    <3> QED
      BY <3>2 DEF NoEvent, Events
  <2>6. closer # "returned" /\ wiring # "none"
    BY DEF RInv, FlowInv
  <2> QED
    BY <2>4, <2>5, <2>6 DEF FlowInv
<1>4. MainInv'
  BY DEF RInv, TypeOK, LockInv, MainInv
<1> QED
  BY <1>1, <1>2, <1>3, <1>4 DEF RInv

\* The writer finishes with its event.
LEMMA InsertInv ==
  ASSUME RInv, Insert
  PROVE  RInv'
<1> USE DEF Insert, chanVars, dropVars, mainVars, writeVars, writerFrame
<1>1. TypeOK'
  <2>1. TypeHandlers'
    BY RecorderAssumption, TypeParts DEF RInv, TypeHandlers, Events, NoEvent
  <2>2. TypeDrops'
    BY TypeParts DEF RInv, TypeDrops
  <2>3. TypeFlow'
    <3>1. cur \in Events
      BY DEF RInv, TypeOK, FlowInv
    <3> QED
      BY <3>1, TypeParts DEF RInv, TypeFlow
  <2>4. TypeFlags'
    BY Zenon, TypeParts DEF RInv, TypeFlags
  <2> QED
    BY <2>1, <2>2, <2>3, <2>4, TypePartsNext
<1>2. LockInv'
  BY DEF RInv, TypeOK, LockInv, MainInv
<1>3. FlowInv'
  BY DEF RInv, TypeOK, LockInv, FlowInv, MainInv
<1>4. MainInv'
  BY DEF RInv, TypeOK, LockInv, MainInv
<1> QED
  BY <1>1, <1>2, <1>3, <1>4 DEF RInv

\* The writer leaves an empty, closed channel.
LEMMA WriterExitInv ==
  ASSUME RInv, WriterExit
  PROVE  RInv'
<1> USE DEF WriterExit, chanVars, dropVars, mainVars, writeVars, writerFrame
<1>1. TypeOK'
  BY DEF RInv, TypeOK
<1>2. LockInv'
  BY DEF RInv, TypeOK, LockInv, MainInv
<1>3. FlowInv'
  BY DEF RInv, TypeOK, LockInv, FlowInv, MainInv
<1>4. MainInv'
  BY DEF RInv, TypeOK, LockInv, MainInv
<1> QED
  BY <1>1, <1>2, <1>3, <1>4 DEF RInv

\* Close closes the channel when no handler is under the read lock.
LEMMA CloseChannelInv ==
  ASSUME RInv, CloseChannel
  PROVE  RInv'
<1> USE DEF CloseChannel, chanVars, dropVars, mainVars, writeVars, closeFrame
<1>1. TypeOK'
  BY DEF RInv, TypeOK
<1>2. LockInv'
  <2>1. \A c \in Handlers : pc[c] \in {"idle", "request"}
    BY DEF RInv, TypeOK, Readers
  <2> QED
    BY <2>1 DEF RInv, LockInv
<1>3. FlowInv'
  BY DEF RInv, TypeOK, LockInv, FlowInv, MainInv
<1>4. MainInv'
  BY DEF RInv, TypeOK, LockInv, MainInv
<1> QED
  BY <1>1, <1>2, <1>3, <1>4 DEF RInv

\* Close returns after the writer.
LEMMA CloseReturnInv ==
  ASSUME RInv, CloseReturn
  PROVE  RInv'
<1> USE DEF CloseReturn, chanVars, dropVars, mainVars, writeVars, closeFrame
<1>1. TypeOK'
  BY DEF RInv, TypeOK
<1>2. LockInv'
  BY DEF RInv, TypeOK, LockInv, MainInv
<1>3. FlowInv'
  BY DEF RInv, TypeOK, LockInv, FlowInv, MainInv
<1>4. MainInv'
  BY DEF RInv, TypeOK, LockInv, MainInv
<1> QED
  BY <1>1, <1>2, <1>3, <1>4 DEF RInv

\* A signal starts Shutdown.
LEMMA SignalInv ==
  ASSUME RInv, Signal
  PROVE  RInv'
<1> USE DEF Signal, chanVars, dropVars, mainVars, writeVars, mainFrame
<1>1. TypeOK'
  BY DEF RInv, TypeOK
<1>2. LockInv'
  BY DEF RInv, TypeOK, LockInv, MainInv
<1>3. FlowInv'
  BY DEF RInv, TypeOK, LockInv, FlowInv, MainInv
<1>4. MainInv'
  BY DEF RInv, TypeOK, LockInv, MainInv
<1> QED
  BY <1>1, <1>2, <1>3, <1>4 DEF RInv

\* A failed listener goes straight to closeAfterServe.
LEMMA ListenFailsInv ==
  ASSUME RInv, ListenFails
  PROVE  RInv'
<1> USE DEF ListenFails, chanVars, dropVars, mainVars, writeVars, mainFrame
<1>1. TypeOK'
  BY DEF RInv, TypeOK
<1>2. LockInv'
  BY DEF RInv, TypeOK, LockInv, MainInv
<1>3. FlowInv'
  BY DEF RInv, TypeOK, LockInv, FlowInv, MainInv
<1>4. MainInv'
  BY DEF RInv, TypeOK, LockInv, MainInv
<1> QED
  BY <1>1, <1>2, <1>3, <1>4 DEF RInv

\* The deadline passes.
LEMMA ExpireInv ==
  ASSUME RInv, Expire
  PROVE  RInv'
<1> USE DEF Expire, chanVars, dropVars, mainVars, writeVars, mainFrame
<1>1. TypeOK'
  BY DEF RInv, TypeOK
<1>2. LockInv'
  BY DEF RInv, TypeOK, LockInv, MainInv
<1>3. FlowInv'
  BY DEF RInv, TypeOK, LockInv, FlowInv, MainInv
<1>4. MainInv'
  BY DEF RInv, TypeOK, LockInv, MainInv
<1> QED
  BY <1>1, <1>2, <1>3, <1>4 DEF RInv

\* Shutdown returns when the tracked handlers are idle.
LEMMA ShutdownQuiescesInv ==
  ASSUME RInv, ShutdownQuiesces
  PROVE  RInv'
<1> USE DEF ShutdownQuiesces, chanVars, dropVars, mainVars, writeVars, mainFrame
<1>1. TypeOK'
  BY DEF RInv, TypeOK
<1>2. LockInv'
  BY DEF RInv, TypeOK, LockInv, MainInv
<1>3. FlowInv'
  BY DEF RInv, TypeOK, LockInv, FlowInv, MainInv
<1>4. MainInv'
  BY DEF RInv, TypeOK, LockInv, MainInv
<1> QED
  BY <1>1, <1>2, <1>3, <1>4 DEF RInv

\* Shutdown is cut off.
LEMMA ShutdownExpiresInv ==
  ASSUME RInv, ShutdownExpires
  PROVE  RInv'
<1> USE DEF ShutdownExpires, chanVars, dropVars, mainVars, writeVars, mainFrame
<1>1. TypeOK'
  BY DEF RInv, TypeOK
<1>2. LockInv'
  BY DEF RInv, TypeOK, LockInv, MainInv
<1>3. FlowInv'
  BY DEF RInv, TypeOK, LockInv, FlowInv, MainInv
<1>4. MainInv'
  BY DEF RInv, TypeOK, LockInv, MainInv
<1> QED
  BY <1>1, <1>2, <1>3, <1>4 DEF RInv

\* closeAfterServe starts Close or closes the databases.
LEMMA StartCloseInv ==
  ASSUME RInv, StartClose
  PROVE  RInv'
<1> USE DEF StartClose, chanVars, dropVars, mainVars, writeVars, mainFrame
<1>1. TypeOK'
  BY DEF RInv, TypeOK
<1>2. LockInv'
  BY DEF RInv, TypeOK, LockInv, MainInv
<1>3. FlowInv'
  BY DEF RInv, TypeOK, LockInv, FlowInv, MainInv
<1>4. MainInv'
  <2>1. CASE wiring = "async"
    BY <2>1 DEF RInv, MainInv
  <2>2. CASE wiring = "none"
    BY <2>2 DEF RInv, MainInv
  <2> QED
    BY <2>1, <2>2, RecorderAssumption DEF RInv, TypeOK
<1> QED
  BY <1>1, <1>2, <1>3, <1>4 DEF RInv

\* The databases close after Close.
LEMMA CloseDoneInv ==
  ASSUME RInv, CloseDone
  PROVE  RInv'
<1> USE DEF CloseDone, chanVars, dropVars, mainVars, writeVars, mainFrame
<1>1. TypeOK'
  BY DEF RInv, TypeOK
<1>2. LockInv'
  BY DEF RInv, TypeOK, LockInv, MainInv
<1>3. FlowInv'
  BY DEF RInv, TypeOK, LockInv, FlowInv, MainInv
<1>4. MainInv'
  BY DEF RInv, TypeOK, LockInv, MainInv
<1> QED
  BY <1>1, <1>2, <1>3, <1>4 DEF RInv

\* The drain is cut off and leaves the databases open.
LEMMA DrainTimesOutInv ==
  ASSUME RInv, DrainTimesOut
  PROVE  RInv'
<1> USE DEF DrainTimesOut, chanVars, dropVars, mainVars, writeVars, mainFrame
<1>1. TypeOK'
  BY DEF RInv, TypeOK
<1>2. LockInv'
  BY DEF RInv, TypeOK, LockInv, MainInv
<1>3. FlowInv'
  BY DEF RInv, TypeOK, LockInv, FlowInv, MainInv
<1>4. MainInv'
  BY DEF RInv, TypeOK, LockInv, MainInv
<1> QED
  BY <1>1, <1>2, <1>3, <1>4 DEF RInv

\* The process exits.
LEMMA ExitInv ==
  ASSUME RInv, Exit
  PROVE  RInv'
<1> USE DEF Exit, chanVars, dropVars, mainVars, writeVars, mainFrame
<1>1. TypeOK'
  BY DEF RInv, TypeOK
<1>2. LockInv'
  BY DEF RInv, TypeOK, LockInv, MainInv
<1>3. FlowInv'
  BY DEF RInv, TypeOK, LockInv, FlowInv, MainInv
<1>4. MainInv'
  BY DEF RInv, TypeOK, LockInv, MainInv
<1> QED
  BY <1>1, <1>2, <1>3, <1>4 DEF RInv

----------------------------------------------------------------------------
\* Every step of every goroutine keeps the invariant.
LEMMA RInductive == RInv /\ [Next]_vars => RInv'
<1> SUFFICES ASSUME RInv, [Next]_vars PROVE RInv'
  OBVIOUS
<1>1. ASSUME NEW c \in Handlers, Begin(c) \/ Record(c) PROVE RInv'
  BY <1>1, BeginInv, RecordNilInv, RecordLockInv, RecordSendInv, DropAddInv, DropLoadInv,
     DropCASInv DEF Record, Locked
<1>2. CASE Receive \/ Insert \/ WriterExit
  BY <1>2, ReceiveInv, InsertInv, WriterExitInv
<1>3. CASE CloseChannel \/ CloseReturn
  BY <1>3, CloseChannelInv, CloseReturnInv
<1>4. CASE Signal \/ ListenFails \/ Expire \/ ShutdownQuiesces \/ ShutdownExpires
  BY <1>4, SignalInv, ListenFailsInv, ExpireInv, ShutdownQuiescesInv, ShutdownExpiresInv
<1>5. CASE StartClose \/ CloseDone \/ DrainTimesOut \/ Exit
  BY <1>5, StartCloseInv, CloseDoneInv, DrainTimesOutInv, ExitInv
<1>6. CASE UNCHANGED vars
  <2> USE <1>6 DEF vars, chanVars, dropVars, mainVars, writeVars, RInv
  <2>1. TypeOK'
    <3>1. TypeHandlers'
      BY TypeParts DEF TypeHandlers
    <3>2. TypeDrops'
      BY TypeParts DEF TypeDrops
    <3>3. TypeFlow'
      BY TypeParts DEF TypeFlow
    <3>4. TypeFlags'
      BY Zenon, TypeParts DEF TypeFlags
    <3> QED
      BY <3>1, <3>2, <3>3, <3>4, TypePartsNext
  <2>2. LockInv'
    BY DEF LockInv
  <2>3. FlowInv'
    BY DEF FlowInv, Buffered
  <2>4. MainInv'
    BY DEF MainInv
  <2> QED
    BY <2>1, <2>2, <2>3, <2>4
<1> QED
  BY <1>1, <1>2, <1>3, <1>4, <1>5, <1>6 DEF Next

\* RInv holds in every state of the recorder and its process.
LEMMA RInvariant == Spec => []RInv
  BY RInitInv, RInductive, PTL DEF Spec

\* No interleaving of Record and Close sends on the closed channel, for any
\* number of handlers (recorder.go, Record and Close).
THEOREM RecordNeverPanics == Spec => []NeverSendsOnClosed
<1>1. RInv => NeverSendsOnClosed
  BY DEF RInv, LockInv, NeverSendsOnClosed
<1> QED
  BY <1>1, RInvariant, PTL

\* Every event Record accepted has been handed to the store when Close returns,
\* for any buffer capacity (recorder.go, run and Close).
THEOREM CloseDrains == Spec => []NothingLost
<1>1. RInv => NothingLost
  <2> SUFFICES ASSUME RInv, closer = "returned" PROVE sent \subseteq stored \union failed
    BY DEF NothingLost
  <2>1. cur = NoEvent /\ in = <<>> /\ sent \subseteq Events
    BY DEF RInv, TypeOK, FlowInv
  <2>2. Buffered(in) = {}
    BY <2>1 DEF Buffered
  <2>3. NoEvent \notin Events
    BY DEF NoEvent, Events
  <2> QED
    BY <2>1, <2>2, <2>3 DEF RInv, FlowInv
<1> QED
  BY <1>1, RInvariant, PTL

\* The databases are closed only after the writer's last insert (run.go,
\* closeAfterServe).
THEOREM DatabasesCloseLast == Spec => []StoreOutlivesWriter
<1>1. RInv => StoreOutlivesWriter
  BY DEF RInv, FlowInv, MainInv, StoreOutlivesWriter
<1> QED
  BY <1>1, RInvariant, PTL

\* After a graceful Shutdown only hijacked connections find the recorder closed
\* (run.go, runWithShutdown).
THEOREM GracefulShutdown == Spec => []GracefulRecordsAll
<1>1. RInv => GracefulRecordsAll
  BY DEF RInv, MainInv, GracefulRecordsAll
<1> QED
  BY <1>1, RInvariant, PTL
=============================================================================
