---------------------------- MODULE WorkerProofs ----------------------------
(***************************************************************************)
(* What module Worker promises of the streams of its runs, of a drained    *)
(* shutdown and of the runs' contexts, for every set of runs and of        *)
(* shutdown requests, and whichever runs hang.                             *)
(*                                                                         *)
(* WorkerInv is inductive.  The steps are taken in four groups: those that *)
(* leave every stream alone, those that add an event, Reject and WriteLast,*)
(* which end a stream, and those of Serve.                                 *)
(***************************************************************************)
EXTENDS Worker, SequenceTheorems, TLAPS

-----------------------------------------------------------------------------
(* The inductive invariant behind StreamsEnd, NilMeansDrained and           *)
(* OnlyClientsCancel                                                        *)

\* A connection is open while its handler is under way, and is over without one
\* or when the handler has ended; a handler goes on when its client has left.
HandlersConnected ==
  \A q \in Requests :
    /\ conn[q] \in {"away", "new"} => at[q] = "none"
    /\ conn[q] = "open" => at[q] \in {"running", "returned", "finishing"}
    /\ conn[q] = "over" => at[q] \in {"none", "ended"}

\* Only the end of its handler puts a terminal event into a stream.
NothingTerminalYet ==
  \A r \in Runs : at[r] # "ended" => \A i \in DOMAIN stream[r] : stream[r][i] \notin Terminal

WorkerInv ==
  /\ TypeOK /\ HandlersConnected /\ NothingTerminalYet
  /\ StreamsEnd /\ NilMeansDrained /\ OnlyClientsCancel

-----------------------------------------------------------------------------
(* Streams *)

Open(s) == \A i \in DOMAIN s : s[i] \notin Terminal
Over(s) == s # <<>> /\ Last(s) \in Terminal
Ordered(s) == \A i \in DOMAIN s : s[i] \in Terminal => i = Len(s)

\* An event after events of which none was terminal.
LEMMA OneMore ==
  ASSUME NEW s \in Seq(Event), NEW e \in Event, Open(s)
  PROVE  /\ s \o <<e>> = Append(s, e) /\ Append(s, e) \in Seq(Event)
         /\ Ordered(Append(s, e))
         /\ e \in Terminal => Over(Append(s, e))
         /\ e \notin Terminal => Open(Append(s, e))
<1>1. Len(s) \in Nat /\ DOMAIN s = 1..Len(s)
  BY LenProperties
<1>2. s \o <<e>> = Append(s, e)
  OBVIOUS
<1>3. /\ Append(s, e) \in Seq(Event)
      /\ Len(Append(s, e)) = Len(s) + 1
      /\ \A i \in 1..Len(s) : Append(s, e)[i] = s[i]
      /\ Append(s, e)[Len(s) + 1] = e
  BY AppendProperties
<1> DEFINE t == Append(s, e)
<1> HIDE DEF t
<1>4. DOMAIN t = 1..(Len(s) + 1) /\ Len(t) = Len(s) + 1
  BY <1>1, <1>3, LenProperties DEF t
<1>5. \A i \in DOMAIN t : (i \in DOMAIN s /\ t[i] = s[i]) \/ (i = Len(t) /\ t[i] = e)
  BY <1>1, <1>3, <1>4 DEF t
<1>6. Ordered(t) /\ (e \notin Terminal => Open(t))
  BY <1>5 DEF Open, Ordered
<1>7. e \in Terminal => Over(t)
  BY <1>1, <1>3, <1>4, EmptySeq DEF Over, Last, t
<1> QED
  BY <1>2, <1>3, <1>6, <1>7 DEF t

LEMMA Single == ASSUME NEW e \in Terminal
                PROVE  <<e>> \in Seq(Event) /\ Ordered(<<e>>) /\ Over(<<e>>)
  BY DEF Event, Ordered, Over, Last

-----------------------------------------------------------------------------
(* The invariant holds and is kept, in parts *)

StreamsInv == NothingTerminalYet /\ StreamsEnd

LEMMA StreamsOf ==
  StreamsInv <=> \A r \in Runs : /\ Ordered(stream[r])
                                 /\ at[r] # "ended" => Open(stream[r])
                                 /\ conn[r] = "over" /\ at[r] = "ended" => Over(stream[r])
  BY DEF StreamsInv, NothingTerminalYet, StreamsEnd, Open, Over, Ordered

LEMMA WorkerStart == Init => WorkerInv
<1> SUFFICES ASSUME Init PROVE WorkerInv
  OBVIOUS
<1>1. \A r \in Runs : r \in Requests
  BY DEF Requests
<1>2. TypeOK
  <2>1. stream \in [Runs -> Seq(Event)]
    BY EmptySeq DEF Init
  <2> QED
    BY <2>1 DEF Init, TypeOK
<1>3. StreamsInv
  BY <1>1 DEF Init, StreamsInv, NothingTerminalYet, StreamsEnd
<1> QED
  BY <1>1, <1>2, <1>3 DEF Init, WorkerInv, HandlersConnected, StreamsInv, NilMeansDrained,
                          OnlyClientsCancel

\* Connections, and the steps of Serve: no handler moves, and no stream.
LEMMA WorkerConnections ==
  ASSUME WorkerInv,
         (\E q \in Requests : Connect(q) \/ Disconnect(q)) \/ Serve \/ Signal \/ ListenerFails
  PROVE  WorkerInv'
<1> USE DEF requests
<1>1. TypeOK /\ HandlersConnected /\ NothingTerminalYet /\ StreamsEnd /\ NilMeansDrained
      /\ OnlyClientsCancel /\ Runs \subseteq Requests
  BY DEF WorkerInv, Requests
<1>2. CASE \E q \in Requests : Connect(q) \/ Disconnect(q)
  <2>1. PICK q \in Requests : 
          /\ \/ conn[q] = "away" /\ conn' = [conn EXCEPT ![q] = "new"]
             \/ conn[q] = "new" /\ conn' = [conn EXCEPT ![q] = "over"]
             \/ conn[q] = "open" /\ conn' = [conn EXCEPT ![q] = "cut"]
          /\ serve \notin {"nil", "failed", "interrupted"}
          /\ UNCHANGED <<serve, stopped, signalled, at, canceled, err, stream>>
    BY <1>2 DEF Connect, Disconnect, Returned
  <2>2. TypeOK'
    BY <1>1, <2>1 DEF TypeOK
  <2>3. HandlersConnected'
    BY <1>1, <2>1 DEF TypeOK, HandlersConnected
  <2>4. NothingTerminalYet' /\ NilMeansDrained'
    BY <1>1, <2>1 DEF NothingTerminalYet, NilMeansDrained
  <2>5. StreamsEnd'
    BY <1>1, <2>1 DEF TypeOK, HandlersConnected, StreamsEnd
  <2>6. OnlyClientsCancel'
    BY <1>1, <2>1 DEF TypeOK, OnlyClientsCancel
  <2> QED
    BY <2>2, <2>3, <2>4, <2>5, <2>6 DEF WorkerInv
<1>3. CASE Serve \/ Signal \/ ListenerFails
  <2>1. /\ \/ conn' = conn
           \/ conn' = [q \in Requests |-> IF conn[q] \in {"new", "open"} THEN "cut" ELSE conn[q]]
        /\ UNCHANGED <<at, canceled, err, stream, stopped>>
        /\ signalled' \in {signalled, TRUE}
        /\ serve' \in {serve, "draining", "grace", "nil", "interrupted", "failed"}
    BY <1>3 DEF Serve, SelectStop, SelectDone, Drained, Interrupt, Signal, ListenerFails
  <2>2. serve' = "nil" => serve = "nil" \/ \A q \in Requests : ~Busy(q)
    BY <1>3 DEF Serve, SelectStop, SelectDone, Drained, Interrupt, Signal, ListenerFails
  <2>3. TypeOK'
    BY <1>1, <2>1 DEF TypeOK
  <2>4. HandlersConnected'
    BY <1>1, <2>1 DEF TypeOK, HandlersConnected
  <2>5. NothingTerminalYet'
    BY <1>1, <2>1 DEF NothingTerminalYet
  <2>6. NilMeansDrained'
    BY <1>1, <2>1, <2>2 DEF NilMeansDrained, Busy, TypeOK
  <2>7. StreamsEnd'
    BY <1>1, <2>1 DEF TypeOK, StreamsEnd
  <2>8. OnlyClientsCancel'
    BY <1>1, <2>1 DEF TypeOK, OnlyClientsCancel
  <2> QED
    BY <2>3, <2>4, <2>5, <2>6, <2>7, <2>8 DEF WorkerInv
<1> QED
  BY <1>2, <1>3

\* A handler's step that leaves the streams alone: it begins, its run returns,
\* its context ends, or a shutdown is asked for and answered.
LEMMA WorkerHandler ==
  ASSUME WorkerInv, NEW q \in Requests,
         \/ q \in Runs /\ (StartRun(q) \/ Notice(q) \/ RunReturns(q))
         \/ q \in Posts /\ (PostShutdown(q) \/ AnswerShutdown(q))
  PROVE  WorkerInv'
<1>1. /\ TypeOK /\ HandlersConnected /\ NothingTerminalYet /\ StreamsEnd /\ NilMeansDrained
      /\ OnlyClientsCancel /\ Runs \subseteq Requests /\ Runs \intersect Posts = {}
  BY WorkerAssumption DEF WorkerInv, Requests
<1>2. CASE StartRun(q) \/ PostShutdown(q)
  <2>1. /\ conn[q] = "new" /\ conn' = [conn EXCEPT ![q] = "open"]
        /\ at' = [at EXCEPT ![q] = "running"]
        /\ serve \notin {"nil", "failed", "interrupted"} /\ stopped' \in {stopped, TRUE}
        /\ UNCHANGED <<serve, signalled, canceled, err, stream>>
    BY <1>2 DEF StartRun, PostShutdown, Handling, Returned
  <2>2. at[q] = "none"
    BY <1>1, <2>1 DEF HandlersConnected
  <2>3. TypeOK'
    BY <1>1, <2>1 DEF TypeOK
  <2>4. HandlersConnected'
    BY <1>1, <2>1 DEF TypeOK, HandlersConnected
  <2>5. NothingTerminalYet' /\ StreamsEnd'
    BY <1>1, <2>1, <2>2 DEF TypeOK, NothingTerminalYet, StreamsEnd
  <2>6. NilMeansDrained' /\ OnlyClientsCancel'
    BY <1>1, <2>1 DEF TypeOK, NilMeansDrained, OnlyClientsCancel
  <2> QED
    BY <2>3, <2>4, <2>5, <2>6 DEF WorkerInv
<1>3. CASE q \in Runs /\ Notice(q)
  <2>1. /\ conn[q] = "cut" /\ canceled' = [canceled EXCEPT ![q] = TRUE]
        /\ UNCHANGED <<serve, stopped, signalled, conn, at, err, stream>>
    BY <1>3 DEF Notice
  <2>2. TypeOK' /\ OnlyClientsCancel'
    BY <1>1, <2>1 DEF TypeOK, OnlyClientsCancel
  <2> QED
    BY <1>1, <2>1, <2>2
    DEF WorkerInv, HandlersConnected, NothingTerminalYet, StreamsEnd, NilMeansDrained
<1>4. CASE q \in Runs /\ RunReturns(q)
  <2>1. /\ at[q] = "running" /\ serve \notin {"nil", "failed", "interrupted"}
        /\ at' \in {[at EXCEPT ![q] = "returned"], [at EXCEPT ![q] = "finishing"]}
        /\ \E failed \in BOOLEAN : err' = [err EXCEPT ![q] = failed]
        /\ UNCHANGED <<serve, stopped, signalled, conn, canceled, stream>>
    BY <1>4 DEF RunReturns, Returned
  <2>2. TypeOK'
    BY <1>1, <2>1 DEF TypeOK
  <2>3. HandlersConnected'
    BY <1>1, <2>1 DEF TypeOK, HandlersConnected
  <2>4. NothingTerminalYet' /\ StreamsEnd'
    BY <1>1, <2>1 DEF TypeOK, NothingTerminalYet, StreamsEnd
  <2>5. NilMeansDrained' /\ OnlyClientsCancel'
    BY <1>1, <2>1 DEF NilMeansDrained, OnlyClientsCancel
  <2> QED
    BY <2>2, <2>3, <2>4, <2>5 DEF WorkerInv
<1>5. CASE q \in Posts /\ AnswerShutdown(q)
  <2>1. /\ at[q] = "running" /\ serve \notin {"nil", "failed", "interrupted"}
        /\ at' = [at EXCEPT ![q] = "ended"]
        /\ conn' = [conn EXCEPT ![q] = IF @ = "open" THEN "over" ELSE @]
        /\ UNCHANGED <<serve, stopped, signalled, canceled, err, stream>>
    BY <1>5 DEF AnswerShutdown, Returned
  <2>2. q \notin Runs
    BY <1>1, <1>5
  <2>3. TypeOK'
    BY <1>1, <2>1 DEF TypeOK
  <2>4. HandlersConnected'
    BY <1>1, <2>1 DEF TypeOK, HandlersConnected
  <2>5. \A r \in Runs : conn'[r] = conn[r] /\ at'[r] = at[r]
    BY <1>1, <2>1, <2>2 DEF TypeOK
  <2>6. NothingTerminalYet' /\ StreamsEnd' /\ OnlyClientsCancel'
    BY <1>1, <2>1, <2>5 DEF NothingTerminalYet, StreamsEnd, OnlyClientsCancel
  <2>7. NilMeansDrained'
    BY <1>1, <2>1 DEF NilMeansDrained
  <2> QED
    BY <2>3, <2>4, <2>6, <2>7 DEF WorkerInv
<1> QED
  BY <1>2, <1>3, <1>4, <1>5

\* A progress event or the result reaches a client that is still there.
LEMMA WorkerWrites ==
  ASSUME WorkerInv, NEW r \in Runs, Progress(r) \/ WriteResult(r)
  PROVE  WorkerInv'
<1>1. /\ TypeOK /\ HandlersConnected /\ StreamsInv /\ NilMeansDrained
      /\ OnlyClientsCancel /\ Runs \subseteq Requests
  BY DEF WorkerInv, Requests, StreamsInv
<1>2. PICK e \in {"progress", "result"} :
        stream' = [stream EXCEPT ![r] = IF conn[r] = "open" THEN Append(@, e) ELSE @]
  BY DEF Progress, WriteResult, Write
<1>3. /\ \/ at[r] = "running" /\ at' = at
         \/ at[r] = "returned" /\ at' = [at EXCEPT ![r] = "finishing"]
      /\ serve \notin {"nil", "failed", "interrupted"}
      /\ UNCHANGED <<serve, stopped, signalled, conn, canceled, err>>
  BY DEF Progress, WriteResult, Returned
<1>4. stream[r] \in Seq(Event) /\ Open(stream[r]) /\ Ordered(stream[r])
      /\ e \in Event /\ e \notin Terminal
  BY <1>1, <1>3, StreamsOf DEF TypeOK, Event, Terminal
<1>5. stream'[r] \in Seq(Event) /\ Open(stream'[r]) /\ Ordered(stream'[r])
  BY <1>1, <1>2, <1>4, OneMore DEF TypeOK
<1>6. \A x \in Runs \ {r} : stream'[x] = stream[x] /\ at'[x] = at[x]
  BY <1>1, <1>2, <1>3 DEF TypeOK
<1>7. TypeOK'
  BY <1>1, <1>2, <1>3, <1>5 DEF TypeOK
<1>8. HandlersConnected'
  BY <1>1, <1>3 DEF TypeOK, HandlersConnected
<1>9. StreamsInv'
  <2>1. at'[r] # "ended"
    BY <1>1, <1>3 DEF TypeOK
  <2> QED
    BY <1>1, <1>3, <1>5, <1>6, <2>1, StreamsOf
    DEF StreamsInv, NothingTerminalYet, StreamsEnd, Open, Over, Ordered
<1>10. NilMeansDrained' /\ OnlyClientsCancel'
  BY <1>1, <1>3 DEF NilMeansDrained, OnlyClientsCancel
<1> QED
  BY <1>7, <1>8, <1>9, <1>10 DEF WorkerInv, StreamsInv

\* The end of a handler: the last event of a run, or the refusal of a request.
LEMMA WorkerEnds ==
  ASSUME WorkerInv, NEW q \in Requests, Reject(q) \/ (q \in Runs /\ WriteLast(q))
  PROVE  WorkerInv'
<1>1. /\ TypeOK /\ HandlersConnected /\ StreamsInv /\ NilMeansDrained
      /\ OnlyClientsCancel /\ Runs \subseteq Requests
  BY DEF WorkerInv, Requests, StreamsInv
<1>2. /\ at' = [at EXCEPT ![q] = "ended"]
      /\ conn' = [conn EXCEPT ![q] = IF @ \in {"new", "open"} THEN "over" ELSE @]
      /\ conn[q] = "new" \/ at[q] = "finishing"
      /\ serve \notin {"nil", "failed", "interrupted"}
      /\ UNCHANGED <<serve, stopped, signalled, canceled, err>>
  <2>1. CASE Reject(q)
    BY <1>1, <2>1 DEF Reject, Handling, Returned, TypeOK
  <2>2. CASE WriteLast(q)
    <3>1. conn[q] # "new"
      BY <1>1, <2>2 DEF WriteLast, HandlersConnected
    <3> QED
      BY <1>1, <2>2, <3>1 DEF WriteLast, Returned, TypeOK
  <2> QED
    BY <2>1, <2>2
<1>3. q \in Runs =>
        /\ stream'[q] \in Seq(Event) /\ Ordered(stream'[q])
        /\ conn'[q] = "over" => Over(stream'[q])
        /\ stream' = [stream EXCEPT ![q] = stream'[q]]
  <2> SUFFICES ASSUME q \in Runs
               PROVE  /\ stream'[q] \in Seq(Event) /\ Ordered(stream'[q])
                      /\ conn'[q] = "over" => Over(stream'[q])
                      /\ stream' = [stream EXCEPT ![q] = stream'[q]]
    OBVIOUS
  <2>1. CASE Reject(q)
    <3>1. stream' = [stream EXCEPT ![q] = <<"rejected">>] /\ "rejected" \in Terminal
      BY <2>1 DEF Reject, Terminal
    <3>2. stream'[q] = <<"rejected">>
      BY <1>1, <3>1 DEF TypeOK
    <3> QED
      BY <3>1, <3>2, Single
  <2>2. CASE WriteLast(q)
    <3>1. PICK e \in Terminal : LastEvent(q) = <<e>>
      BY DEF LastEvent, Terminal
    <3>2. /\ at[q] = "finishing"
          /\ stream' = [stream EXCEPT ![q] = IF conn[q] = "open" THEN @ \o <<e>> ELSE @]
      BY <2>2, <3>1 DEF WriteLast
    <3>3. stream[q] \in Seq(Event) /\ Open(stream[q]) /\ Ordered(stream[q]) /\ e \in Event
      BY <1>1, <3>2, StreamsOf DEF TypeOK, Event
    <3>4. conn[q] \in {"open", "cut"}
      BY <1>1, <3>2 DEF TypeOK, HandlersConnected
    <3>5. CASE conn[q] = "open"
      <4>1. stream' = [stream EXCEPT ![q] = stream[q] \o <<e>>]
        BY <3>2, <3>5
      <4>2. stream'[q] = Append(stream[q], e)
        BY <1>1, <4>1, <3>3, OneMore DEF TypeOK
      <4> QED
        BY <3>3, <4>1, <4>2, OneMore
    <3>6. CASE conn[q] = "cut"
      <4>1. stream' = stream /\ conn'[q] = "cut"
        BY <1>1, <1>2, <3>2, <3>6 DEF TypeOK
      <4> QED
        BY <1>1, <3>3, <4>1 DEF TypeOK
    <3> QED
      BY <3>4, <3>5, <3>6
  <2> QED
    BY <2>1, <2>2
<1>4. q \notin Runs => stream' = stream
  BY DEF Reject
<1>5. TypeOK'
  <2>1. stream' \in [Runs -> Seq(Event)]
    BY <1>1, <1>3, <1>4 DEF TypeOK
  <2> QED
    BY <1>1, <1>2, <2>1 DEF TypeOK
<1>6. HandlersConnected'
  BY <1>1, <1>2 DEF TypeOK, HandlersConnected
<1>7. \A r \in Runs \ {q} : stream'[r] = stream[r] /\ at'[r] = at[r] /\ conn'[r] = conn[r]
  BY <1>1, <1>2, <1>3, <1>4 DEF TypeOK
<1>8. StreamsInv'
  <2>1. q \in Runs => at'[q] = "ended"
    BY <1>1, <1>2 DEF TypeOK
  <2> QED
    BY <1>1, <1>3, <1>7, <2>1, StreamsOf
    DEF StreamsInv, NothingTerminalYet, StreamsEnd, Open, Over, Ordered
<1>9. NilMeansDrained'
  BY <1>1, <1>2 DEF NilMeansDrained
<1>10. OnlyClientsCancel'
  BY <1>1, <1>2 DEF TypeOK, OnlyClientsCancel
<1> QED
  BY <1>5, <1>6, <1>8, <1>9, <1>10 DEF WorkerInv, StreamsInv

LEMMA WorkerStep == WorkerInv /\ [Next]_vars => WorkerInv'
<1> SUFFICES ASSUME WorkerInv, [Next]_vars PROVE WorkerInv'
  OBVIOUS
<1>1. CASE Next
  BY <1>1, WorkerConnections, WorkerHandler, WorkerWrites, WorkerEnds DEF Next, Handler
<1>2. CASE UNCHANGED vars
  BY <1>2 DEF vars, WorkerInv, TypeOK, HandlersConnected, NothingTerminalYet, StreamsEnd,
              NilMeansDrained, OnlyClientsCancel
<1> QED
  BY <1>1, <1>2

\* WorkerInv holds however runs, clients, a shutdown and a signal interleave.
THEOREM WorkerCorrect == Spec => []WorkerInv
  BY WorkerStart, WorkerStep, PTL DEF Spec

\* A client that stayed to the end of its response has read exactly one terminal
\* event, as the last.
THEOREM StreamsEndCorrect == Spec => []StreamsEnd
<1>1. WorkerInv => StreamsEnd
  BY DEF WorkerInv
<1> QED
  BY <1>1, WorkerCorrect, PTL

\* Serve returns nil only when no handler is under way.
THEOREM NilMeansDrainedCorrect == Spec => []NilMeansDrained
<1>1. WorkerInv => NilMeansDrained
  BY DEF WorkerInv
<1> QED
  BY <1>1, WorkerCorrect, PTL

\* Neither a shutdown nor a signal in its grace cancels a run: only its client.
THEOREM OnlyClientsCancelCorrect == Spec => []OnlyClientsCancel
<1>1. WorkerInv => OnlyClientsCancel
  BY DEF WorkerInv
<1> QED
  BY <1>1, WorkerCorrect, PTL

=============================================================================
