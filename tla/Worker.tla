------------------------------- MODULE Worker -------------------------------
(***************************************************************************)
(* bfb worker (internal/worker/server.go): an HTTP server on a Unix socket *)
(* whose clients post runs and read their events as a stream, and may ask  *)
(* the worker to shut down.  Every request has a connection and a handler  *)
(* of its own, so runs overlap; the goroutine of Serve waits for a         *)
(* shutdown request, for its context (SIGINT or SIGTERM) or for a failing  *)
(* listener.                                                               *)
(*                                                                         *)
(* A shutdown request drains: no connection is accepted any more and Serve *)
(* returns when every handler has ended, however long they take, unless    *)
(* its context ends meanwhile.  The context alone gives the handlers five  *)
(* seconds.  When Serve returns the process ends, and with it the handlers *)
(* that are left: for their scans that is the crash of module Engine.  Two *)
(* runs for one repository meet in the lock files of module RepoLock.      *)
(*                                                                         *)
(* net/http is external: Shutdown, Close and the cancellation of a request *)
(* whose client left are modelled as its documentation has them.           *)
(***************************************************************************)
EXTENDS Naturals, Sequences, SequencesExt

CONSTANTS
  Runs,         \* requests of POST /v1/runs
  Posts,        \* requests of POST /v1/shutdown
  Stuck,        \* runs that go on until they are canceled
  MaxProgress   \* progress events of one run

ASSUME WorkerAssumption ==
  /\ Runs \intersect Posts = {}
  /\ Stuck \subseteq Runs
  /\ MaxProgress \in Nat

Requests == Runs \union Posts

VARIABLES
  serve,      \* where Serve is, and how it returned
  stopped,    \* the stop channel is closed
  signalled,  \* Serve's context has ended
  conn,       \* the connection of each request
  at,         \* where its handler is
  canceled,   \* the context of each run has ended
  err,        \* whether a run's error is set when it returns
  stream      \* the events that reached the client of each run

vars == <<serve, stopped, signalled, conn, at, canceled, err, stream>>
requests == <<conn, at, canceled, err, stream>>

Init ==
  /\ serve = "select" /\ stopped = FALSE /\ signalled = FALSE
  /\ conn = [q \in Requests |-> "away"]
  /\ at = [q \in Requests |-> "none"]
  /\ canceled = [r \in Runs |-> FALSE]
  /\ err = [r \in Runs |-> FALSE]
  /\ stream = [r \in Runs |-> <<>>]

Returned == serve \in {"nil", "failed", "interrupted"}

\* Mutant: an idle connection that its client keeps open counts as well.
BusyWhileConnected(q) == conn[q] \in {"new", "open", "over"}

\* Handlers that have not returned, and connections whose request is not read.
\* A handler counts as busy though its client has left.
Busy(q) == conn[q] = "new" \/ at[q] \in {"running", "returned", "finishing"}

-----------------------------------------------------------------------------
(* The handlers *)

\* The listener is open until Serve starts to shut down.
Connect(q) ==
  /\ serve = "select" /\ conn[q] = "away"
  /\ conn' = [conn EXCEPT ![q] = "new"]
  /\ UNCHANGED <<serve, stopped, signalled, at, canceled, err, stream>>

\* The client leaves, or net/http drops a connection it has read nothing of
\* (while it shuts down).
Disconnect(q) ==
  /\ ~Returned /\ conn[q] \in {"new", "open"}
  /\ conn' = [conn EXCEPT ![q] = IF @ = "new" THEN "over" ELSE "cut"]
  /\ UNCHANGED <<serve, stopped, signalled, at, canceled, err, stream>>

Write(r, event) ==
  stream' = [stream EXCEPT ![r] = IF conn[r] = "open" THEN Append(@, event) ELSE @]

Handling(q) == ~Returned /\ conn[q] = "new"

\* Wrong media type, malformed body, another protocol; a shutdown with a body.
Reject(q) ==
  /\ Handling(q)
  /\ conn' = [conn EXCEPT ![q] = "over"]
  /\ at' = [at EXCEPT ![q] = "ended"]
  /\ stream' = IF q \in Runs THEN [stream EXCEPT ![q] = <<"rejected">>] ELSE stream
  /\ UNCHANGED <<serve, stopped, signalled, canceled, err>>

StartRun(r) ==
  /\ Handling(r)
  /\ conn' = [conn EXCEPT ![r] = "open"]
  /\ at' = [at EXCEPT ![r] = "running"]
  /\ UNCHANGED <<serve, stopped, signalled, canceled, err, stream>>

\* net/http ends the request's context some time after the client has left.
Notice(r) ==
  /\ ~Returned /\ conn[r] = "cut" /\ at[r] # "ended" /\ ~canceled[r]
  /\ canceled' = [canceled EXCEPT ![r] = TRUE]
  /\ UNCHANGED <<serve, stopped, signalled, conn, at, err, stream>>

\* The scan reports progress from the run's own goroutine (progress.go).
Progress(r) ==
  /\ ~Returned /\ at[r] = "running" /\ ~canceled[r]
  /\ Len(stream[r]) < MaxProgress
  /\ Write(r, "progress")
  /\ UNCHANGED <<serve, stopped, signalled, conn, at, canceled, err>>

\* The run returns, with a result to write or without, with an error or
\* without: a canceled run may have finished all the same.
RunReturns(r) ==
  /\ ~Returned /\ at[r] = "running" /\ (r \in Stuck => canceled[r])
  /\ \E failed \in BOOLEAN, result \in BOOLEAN :
       /\ err' = [err EXCEPT ![r] = failed]
       /\ at' = [at EXCEPT ![r] = IF result THEN "returned" ELSE "finishing"]
  /\ UNCHANGED <<serve, stopped, signalled, conn, canceled, stream>>

WriteResult(r) ==
  /\ ~Returned /\ at[r] = "returned"
  /\ at' = [at EXCEPT ![r] = "finishing"]
  /\ Write(r, "result")
  /\ UNCHANGED <<serve, stopped, signalled, conn, canceled, err>>

\* Mutant: no return after the event of a failed run.
FallsThrough(r) ==
  (IF ~err[r] THEN <<>> ELSE IF canceled[r] THEN <<"canceled">> ELSE <<"error">>)
    \o <<"complete">>

\* The last event of a run: the context is read again after the run returned.
LastEvent(r) ==
  IF ~err[r] THEN <<"complete">> ELSE IF canceled[r] THEN <<"canceled">> ELSE <<"error">>

WriteLast(r) ==
  /\ ~Returned /\ at[r] = "finishing"
  /\ at' = [at EXCEPT ![r] = "ended"]
  /\ stream' = [stream EXCEPT ![r] = IF conn[r] = "open" THEN @ \o LastEvent(r) ELSE @]
  /\ conn' = [conn EXCEPT ![r] = IF @ = "open" THEN "over" ELSE @]
  /\ UNCHANGED <<serve, stopped, signalled, canceled, err>>

\* A shutdown request closes the stop channel, once, and is answered.
PostShutdown(q) ==
  /\ Handling(q)
  /\ stopped' = TRUE
  /\ conn' = [conn EXCEPT ![q] = "open"]
  /\ at' = [at EXCEPT ![q] = "running"]
  /\ UNCHANGED <<serve, signalled, canceled, err, stream>>

AnswerShutdown(q) ==
  /\ ~Returned /\ at[q] = "running"
  /\ at' = [at EXCEPT ![q] = "ended"]
  /\ conn' = [conn EXCEPT ![q] = IF @ = "open" THEN "over" ELSE @]
  /\ UNCHANGED <<serve, stopped, signalled, canceled, err, stream>>

Handler(q) ==
  \/ Reject(q)
  \/ q \in Runs /\ (StartRun(q) \/ Notice(q) \/ RunReturns(q) \/ WriteResult(q) \/ WriteLast(q))
  \/ q \in Posts /\ (PostShutdown(q) \/ AnswerShutdown(q))

-----------------------------------------------------------------------------
(* Serve *)

\* Mutant: the runs are given Serve's context.
SignalCancels ==
  /\ ~Returned /\ ~signalled /\ signalled' = TRUE
  /\ canceled' = [r \in Runs |-> canceled[r] \/ at[r] = "running"]
  /\ UNCHANGED <<serve, stopped, conn, at, err, stream>>

\* SIGINT or SIGTERM.
Signal ==
  /\ ~Returned /\ ~signalled /\ signalled' = TRUE
  /\ UNCHANGED <<serve, stopped, requests>>

\* The select has several ready cases at times, and takes any of them.
SelectStop ==
  /\ serve = "select" /\ stopped /\ serve' = "draining"
  /\ UNCHANGED <<stopped, signalled, requests>>

SelectDone ==
  /\ serve = "select" /\ signalled /\ serve' = "grace"
  /\ UNCHANGED <<stopped, signalled, requests>>

\* The listener fails: Serve returns its error at once.
ListenerFails ==
  /\ serve = "select" /\ serve' = "failed"
  /\ UNCHANGED <<stopped, signalled, requests>>

\* Mutant: the deadline that both shutdowns once had.
DrainForAWhile ==
  /\ serve \in {"draining", "grace"}
  /\ serve' = IF serve = "draining" THEN "nil" ELSE "interrupted"
  /\ UNCHANGED <<stopped, signalled, requests>>

\* http.Server.Shutdown returns when no handler is left.
Drained ==
  /\ serve \in {"draining", "grace"}
  /\ \A q \in Requests : ~Busy(q)
  /\ serve' = IF serve = "draining" THEN "nil" ELSE "interrupted"
  /\ UNCHANGED <<stopped, signalled, requests>>

\* Mutant: a drain that has started waits for the handlers only.
GraceEndsOnly ==
  /\ serve = "grace"
  /\ serve' = "interrupted"
  /\ conn' = [q \in Requests |-> IF conn[q] \in {"new", "open"} THEN "cut" ELSE conn[q]]
  /\ UNCHANGED <<stopped, signalled, at, canceled, err, stream>>

\* Its context ended first, or its five seconds: Close cuts every connection.
Interrupt ==
  /\ serve = "grace" \/ (serve = "draining" /\ signalled)
  /\ serve' = "interrupted"
  /\ conn' = [q \in Requests |-> IF conn[q] \in {"new", "open"} THEN "cut" ELSE conn[q]]
  /\ UNCHANGED <<stopped, signalled, at, canceled, err, stream>>

Serve == SelectStop \/ SelectDone \/ Drained \/ Interrupt

Next ==
  \/ \E q \in Requests : Connect(q) \/ Disconnect(q) \/ Handler(q)
  \/ \E r \in Runs : Progress(r)
  \/ Serve \/ Signal \/ ListenerFails

Spec == Init /\ [][Next]_vars

\* The goroutine of Serve and the handlers run; nothing makes a stuck run return,
\* a client leave or the listener fail.
FairSpec == Spec /\ WF_vars(Serve) /\ \A q \in Requests : WF_vars(Handler(q))

-----------------------------------------------------------------------------
(* Properties *)

Terminal == {"complete", "error", "canceled", "rejected"}
Event == Terminal \union {"progress", "result"}

TypeOK ==
  /\ serve \in {"select", "draining", "grace", "nil", "failed", "interrupted"}
  /\ {stopped, signalled} \subseteq BOOLEAN
  /\ conn \in [Requests -> {"away", "new", "open", "cut", "over"}]
  /\ at \in [Requests -> {"none", "running", "returned", "finishing", "ended"}]
  /\ canceled \in [Runs -> BOOLEAN] /\ err \in [Runs -> BOOLEAN]
  /\ stream \in [Runs -> Seq(Event)]

\* A client that stayed to the end of its response has read exactly one terminal
\* event, as the last (README.md:215-216).
StreamsEnd ==
  \A r \in Runs :
    /\ \A i \in DOMAIN stream[r] : stream[r][i] \in Terminal => i = Len(stream[r])
    /\ conn[r] = "over" /\ at[r] = "ended" => stream[r] # <<>> /\ Last(stream[r]) \in Terminal

\* Serve returns nil only when every handler has ended: a run that was going when
\* the shutdown was asked for, or whose request was still unread, has ended, and
\* the shutdown itself was answered (server.go:149-158).
NilMeansDrained ==
  serve = "nil" => \A q \in Requests : at[q] \in {"none", "ended"}

\* Nothing but its own client ends a run's context while Serve has not returned:
\* neither a shutdown nor a signal in the grace it gives (server.go:217).
OnlyClientsCancel ==
  \A r \in Runs : canceled[r] => conn[r] = "cut"

\* A signal ends the worker though runs never return, also when it comes in the
\* middle of a drain (server.go:150, 159-165).
SignalEnds == signalled ~> Returned

\* A shutdown request ends the worker, unless a run hangs.
ShutdownEnds == stopped ~> (Returned \/ \E r \in Stuck : at[r] = "running")

=============================================================================
