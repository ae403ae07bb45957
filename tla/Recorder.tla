------------------------------ MODULE Recorder ------------------------------
(***************************************************************************)
(* The traffic recorder (internal/control/traffic/recorder.go) and the     *)
(* shutdown of the process that owns it (internal/cli/servecmd/run.go).    *)
(*                                                                         *)
(* Request handlers hand one event each to AsyncRecorder.Record, which     *)
(* enqueues it on a bounded channel under a read lock or drops it.  One    *)
(* writer goroutine moves events from the channel to the store.  Close     *)
(* takes the write lock, closes the channel and waits for the writer.  The *)
(* main goroutine stops the HTTP server, closes the recorder and then the  *)
(* databases, all under one deadline.                                      *)
(*                                                                         *)
(* A handler in Hijacked serves a connection taken over by the MITM        *)
(* listener: http.Server.Shutdown neither waits for it nor stops it.       *)
(***************************************************************************)
EXTENDS Naturals, Sequences

CONSTANTS
  Handlers,      \* the goroutines that serve requests
  Hijacked,      \* those whose connection was hijacked by a CONNECT
  BufferSize,    \* capacity of the channel
  DropLogEvery,  \* drops between two WARN lines
  Word,          \* 2^64: the range of the drop counters
  Wirings,       \* "async": a recorder is configured; "none": it is not
  MaxEvents      \* bound: requests in one run

ASSUME RecorderAssumption ==
  /\ Hijacked \subseteq Handlers
  /\ BufferSize \in Nat \ {0}
  /\ DropLogEvery \in Nat \ {0}
  /\ Word \in Nat \ {0}
  /\ MaxEvents \in Nat
  /\ Wirings \subseteq {"async", "none"}

VARIABLES
  wiring,      \* what buildTraffic returned
  next,        \* the next event id
  pc, ev,      \* per handler: its place in Record, its event
  total, last, \* per handler: the locals of onDrop
  in, closed,  \* the channel's buffer; AsyncRecorder.closed
  writer, cur, \* the writer goroutine and the event it is inserting
  dropped, loggedDrops, logs,   \* drop counters, WARN lines emitted
  closer,      \* the goroutine running Close
  main, deadline, quiesced,     \* runWithShutdown, shutCtx, Shutdown = nil
  dbOpen,      \* the *sql.DB behind the store
  sent, stored, failed, late,   \* history: accepted, inserted, errored, refused
  panics       \* history: panics a handler ran into

chanVars  == <<in, closed>>
dropVars  == <<total, last, dropped, loggedDrops, logs>>
mainVars  == <<closer, main, deadline, quiesced, dbOpen>>
writeVars == <<writer, cur, stored, failed>>
vars == <<wiring, next, pc, ev, chanVars, dropVars, mainVars, writeVars,
          sent, late, panics>>

Events == 1 .. MaxEvents
NoEvent == 0

\* The handlers that hold the read lock of AsyncRecorder.mu.
Readers == {c \in Handlers : pc[c] \in {"send", "load", "cas"}}

Init ==
  /\ wiring \in Wirings
  /\ next = 1
  /\ pc = [c \in Handlers |-> "idle"]
  /\ ev = [c \in Handlers |-> NoEvent]
  /\ total = [c \in Handlers |-> 0]
  /\ last = [c \in Handlers |-> 0]
  /\ in = <<>> /\ closed = FALSE
  /\ writer = "idle" /\ cur = NoEvent
  /\ dropped = 0 /\ loggedDrops = 0 /\ logs = 0
  /\ closer = "none"
  /\ main = "serving" /\ deadline = FALSE /\ quiesced = FALSE
  /\ dbOpen = TRUE
  /\ sent = {} /\ stored = {} /\ failed = {} /\ late = {}
  /\ panics = {}

Alive == main # "exit"

----------------------------------------------------------------------------
(***************************************************************************)
(* A request and its deferred recorderHook.commit.                         *)
(***************************************************************************)

\* A request reaches the handler.  Once Shutdown has returned nil no
\* connection the server still tracks can start one.
Begin(c) ==
  /\ Alive /\ next <= MaxEvents
  /\ pc[c] = "idle"
  /\ c \in Hijacked \/ ~quiesced
  /\ pc' = [pc EXCEPT ![c] = "request"]
  /\ ev' = [ev EXCEPT ![c] = next]
  /\ next' = next + 1
  /\ UNCHANGED <<wiring, chanVars, dropVars, mainVars, writeVars, sent, late, panics>>

Return(c) == pc' = [pc EXCEPT ![c] = "idle"]

\* commit with --traffic-store=none: runServe stores the nil *AsyncRecorder in
\* the Recorder interface, so the hook's nil test is false and Record is
\* called on a nil receiver.  The recoverer middleware ends the request.
RecordNil(c) ==
  /\ Alive /\ wiring = "none"
  /\ pc[c] = "request"
  /\ panics' = panics \union {"nil receiver"}
  /\ Return(c)
  /\ UNCHANGED <<wiring, next, ev, chanVars, dropVars, mainVars, writeVars, sent, late>>

\* RLock, held up by a Close that waits for or holds the lock, and the test of
\* closed, which cannot change before RUnlock.
RecordLock(c) ==
  /\ Alive /\ wiring = "async"
  /\ pc[c] = "request"
  /\ closer # "lock"
  /\ IF closed
       THEN Return(c) /\ late' = late \union {c}
       ELSE pc' = [pc EXCEPT ![c] = "send"] /\ UNCHANGED late
  /\ UNCHANGED <<wiring, next, ev, chanVars, dropVars, mainVars, writeVars, sent, panics>>

\* The select of Record: send, or default.  A send on a closed channel panics.
RecordSend(c) ==
  /\ Alive
  /\ pc[c] = "send"
  /\ closed \/ Len(in) < BufferSize
  /\ Return(c)
  /\ IF closed
       THEN panics' = panics \union {"closed channel"} /\ UNCHANGED <<in, sent>>
       ELSE in' = Append(in, ev[c]) /\ sent' = sent \union {ev[c]} /\ UNCHANGED panics
  /\ UNCHANGED <<wiring, next, ev, closed, dropVars, mainVars, writeVars, late>>

\* onDrop: total := dropped.Add(1).
DropAdd(c) ==
  /\ Alive
  /\ pc[c] = "send"
  /\ ~closed /\ Len(in) >= BufferSize
  /\ dropped' = (dropped + 1) % Word
  /\ total' = [total EXCEPT ![c] = dropped']
  /\ pc' = [pc EXCEPT ![c] = "load"]
  /\ UNCHANGED <<wiring, next, ev, chanVars, last, loggedDrops, logs, mainVars,
                 writeVars, sent, late, panics>>

\* onDrop: last := loggedDrops.Load(), and the unsigned comparison.
DropLoad(c) ==
  /\ Alive
  /\ pc[c] = "load"
  /\ last' = [last EXCEPT ![c] = loggedDrops]
  /\ IF (total[c] + Word - loggedDrops) % Word < DropLogEvery
       THEN Return(c)
       ELSE pc' = [pc EXCEPT ![c] = "cas"]
  /\ UNCHANGED <<wiring, next, ev, chanVars, total, dropped, loggedDrops, logs,
                 mainVars, writeVars, sent, late, panics>>

\* onDrop: CompareAndSwap, and the WARN line of the winner.
DropCAS(c) ==
  /\ Alive
  /\ pc[c] = "cas"
  /\ Return(c)
  /\ IF loggedDrops = last[c]
       THEN loggedDrops' = total[c] /\ logs' = logs + 1
       ELSE UNCHANGED <<loggedDrops, logs>>
  /\ UNCHANGED <<wiring, next, ev, chanVars, total, last, dropped, mainVars,
                 writeVars, sent, late, panics>>

\* What a handler does under the read lock.
Locked(c) == RecordSend(c) \/ DropAdd(c) \/ DropLoad(c) \/ DropCAS(c)

Record(c) == RecordNil(c) \/ RecordLock(c) \/ Locked(c)

----------------------------------------------------------------------------
(***************************************************************************)
(* The writer goroutine: run and write.                                    *)
(***************************************************************************)
writerFrame == <<wiring, next, pc, ev, closed, dropVars, mainVars, sent, late, panics>>

Receive ==
  /\ Alive /\ wiring = "async"
  /\ writer = "idle" /\ in # <<>>
  /\ writer' = "insert" /\ cur' = Head(in) /\ in' = Tail(in)
  /\ UNCHANGED <<writerFrame, stored, failed>>

\* store.Insert returns; an error is logged and the event given up.
Insert ==
  /\ Alive
  /\ writer = "insert"
  /\ \/ dbOpen /\ stored' = stored \union {cur} /\ UNCHANGED failed
     \/ failed' = failed \union {cur} /\ UNCHANGED stored
  /\ writer' = "idle" /\ cur' = NoEvent
  /\ UNCHANGED <<writerFrame, in>>

\* Mutant: the loop stops at the closed flag without draining the buffer.
WriterExitEarly ==
  /\ Alive /\ wiring = "async"
  /\ writer = "idle" /\ closed
  /\ writer' = "exited"
  /\ UNCHANGED <<writerFrame, in, cur, stored, failed>>

\* The range loop ends when the channel is closed and empty: close(exitCh).
WriterExit ==
  /\ Alive /\ wiring = "async"
  /\ writer = "idle" /\ closed /\ in = <<>>
  /\ writer' = "exited"
  /\ UNCHANGED <<writerFrame, in, cur, stored, failed>>

----------------------------------------------------------------------------
(***************************************************************************)
(* Close, on a goroutine of its own.                                       *)
(***************************************************************************)
closeFrame == <<wiring, next, pc, ev, in, dropVars, main, deadline, quiesced, dbOpen,
                writeVars, sent, late, panics>>

\* Mutant: Close does not take the lock around close(in).
CloseChannelUnlocked ==
  /\ Alive
  /\ closer = "lock"
  /\ closed' = TRUE
  /\ closer' = "drain"
  /\ UNCHANGED closeFrame

\* Lock is granted once every reader has left; closed and close(in) under it.
CloseChannel ==
  /\ Alive
  /\ closer = "lock" /\ Readers = {}
  /\ closed' = TRUE
  /\ closer' = "drain"
  /\ UNCHANGED closeFrame

\* <-exitCh
CloseReturn ==
  /\ Alive
  /\ closer = "drain" /\ writer = "exited"
  /\ closer' = "returned"
  /\ UNCHANGED <<closeFrame, closed>>

----------------------------------------------------------------------------
(***************************************************************************)
(* runWithShutdown and closeAfterServe, on the main goroutine.             *)
(***************************************************************************)
mainFrame == <<wiring, next, pc, ev, chanVars, dropVars, writeVars, sent, late, panics>>

\* SIGINT or SIGTERM: arm shutCtx, call httpSrv.Shutdown.
Signal ==
  /\ main = "serving"
  /\ main' = "shutdown"
  /\ UNCHANGED <<mainFrame, closer, deadline, quiesced, dbOpen>>

\* ListenAndServe failed: shutCtx armed, no Shutdown.
ListenFails ==
  /\ main = "serving"
  /\ main' = "closing"
  /\ UNCHANGED <<mainFrame, closer, deadline, quiesced, dbOpen>>

Expire ==
  /\ main \in {"shutdown", "closing", "await"} /\ ~deadline
  /\ deadline' = TRUE
  /\ UNCHANGED <<mainFrame, closer, main, quiesced, dbOpen>>

\* Mutant: Shutdown does not wait for the active handlers.
ShutdownHasty ==
  /\ main = "shutdown"
  /\ main' = "closing" /\ quiesced' = TRUE
  /\ UNCHANGED <<mainFrame, closer, deadline, dbOpen>>

\* Shutdown returns nil when no tracked connection is active ...
ShutdownQuiesces ==
  /\ main = "shutdown"
  /\ \A c \in Handlers \ Hijacked : pc[c] = "idle"
  /\ main' = "closing" /\ quiesced' = TRUE
  /\ UNCHANGED <<mainFrame, closer, deadline, dbOpen>>

\* Mutant: Shutdown is given a context without a deadline.
ShutdownForever ==
  /\ main = "shutdown" /\ FALSE
  /\ UNCHANGED vars

\* ... and the context's error at the deadline.
ShutdownExpires ==
  /\ main = "shutdown" /\ deadline
  /\ main' = "closing"
  /\ UNCHANGED <<mainFrame, closer, deadline, quiesced, dbOpen>>

\* closeAfterServe: start Close, or go straight to the cache without a recorder.
StartClose ==
  /\ main = "closing"
  /\ IF wiring = "async"
       THEN main' = "await" /\ closer' = "lock" /\ UNCHANGED dbOpen
       ELSE main' = "exiting" /\ dbOpen' = FALSE /\ UNCHANGED closer
  /\ UNCHANGED <<mainFrame, deadline, quiesced>>

\* case err := <-done, then cache.closeAll.
CloseDone ==
  /\ main = "await" /\ closer = "returned"
  /\ main' = "exiting" /\ dbOpen' = FALSE
  /\ UNCHANGED <<mainFrame, closer, deadline, quiesced>>

\* Mutant: the cache is closed at the deadline although the writer still runs.
DrainTimesOutCloses ==
  /\ main = "await" /\ deadline
  /\ main' = "exiting" /\ dbOpen' = FALSE
  /\ UNCHANGED <<mainFrame, closer, deadline, quiesced>>

\* case <-ctx.Done(): return without closing the cache.
DrainTimesOut ==
  /\ main = "await" /\ deadline
  /\ main' = "exiting"
  /\ UNCHANGED <<mainFrame, closer, deadline, quiesced, dbOpen>>

\* <-serveErr, the deferred calls, and the end of the process.
Exit ==
  /\ main = "exiting"
  /\ main' = "exit"
  /\ UNCHANGED <<mainFrame, closer, deadline, quiesced, dbOpen>>

Next ==
  \/ \E c \in Handlers : Begin(c) \/ Record(c)
  \/ Receive \/ Insert \/ WriterExit
  \/ CloseChannel \/ CloseReturn
  \/ Signal \/ ListenFails \/ Expire \/ ShutdownQuiesces \/ ShutdownExpires
  \/ StartClose \/ CloseDone \/ DrainTimesOut \/ Exit

Spec == Init /\ [][Next]_vars

(***************************************************************************)
(* Fairness.  The Go scheduler keeps running main when it can run, and its *)
(* timer expires.  Nothing is asked of the handlers, the writer, Close or  *)
(* the store: an upstream exchange or an insert may hang for ever.         *)
(***************************************************************************)
FairSpec ==
  /\ Spec /\ WF_vars(Exit) /\ WF_vars(Expire)
  /\ WF_vars(ShutdownQuiesces \/ ShutdownExpires)
  /\ WF_vars(StartClose \/ CloseDone \/ DrainTimesOut)

----------------------------------------------------------------------------
(***************************************************************************)
(* Properties.                                                             *)
(***************************************************************************)

TypeOK ==
  /\ wiring \in Wirings
  /\ next \in 1 .. MaxEvents + 1
  /\ pc \in [Handlers -> {"idle", "request", "send", "load", "cas"}]
  /\ ev \in [Handlers -> Events \union {NoEvent}]
  /\ total \in [Handlers -> 0 .. Word - 1] /\ last \in [Handlers -> 0 .. Word - 1]
  /\ in \in Seq(Events) /\ Len(in) <= BufferSize /\ closed \in BOOLEAN
  /\ writer \in {"idle", "insert", "exited"} /\ cur \in Events \union {NoEvent}
  /\ dropped \in 0 .. Word - 1 /\ loggedDrops \in 0 .. Word - 1 /\ logs \in Nat
  /\ closer \in {"none", "lock", "drain", "returned"}
  /\ main \in {"serving", "shutdown", "closing", "await", "exiting", "exit"}
  /\ deadline \in BOOLEAN /\ quiesced \in BOOLEAN /\ dbOpen \in BOOLEAN
  /\ sent \subseteq Events /\ stored \subseteq Events /\ failed \subseteq Events
  /\ late \subseteq Handlers
  /\ panics \subseteq {"nil receiver", "closed channel"}

\* No Record sends on the channel that Close has closed, however the two
\* interleave: the read lock makes the closed test and the send one step for
\* Close (recorder.go, Record and Close).
NeverSendsOnClosed == "closed channel" \notin panics

\* When Close returns, every event that Record accepted was handed to the store:
\* "no committed Record loses its event" (recorder.go, AsyncRecorder).
NothingLost == closer = "returned" => sent \subseteq stored \union failed

\* The database is closed only when the writer can no longer insert: it is not
\* in Insert and no event is buffered (run.go, closeAfterServe).
StoreOutlivesWriter == ~dbOpen => writer # "insert" /\ in = <<>>

\* If Shutdown returned nil, no request on a tracked connection found the
\* recorder closed: its event was accepted or counted as dropped.  Only a
\* hijacked connection can come too late (run.go, runWithShutdown).
GracefulRecordsAll == quiesced => late \subseteq Hijacked

\* Once main has begun to shut down the process exits, whatever the handlers,
\* the writer and the store do: one deadline bounds both waits (run.go,
\* runWithShutdown).
ShutdownTerminates == (main # "serving") ~> (main = "exit")

\* Without a configured recorder commit does nothing (server/recorder.go, the
\* comments on recorderHook.rec and commit).
NoRecorderNoEffect == "nil receiver" \notin panics
=============================================================================
