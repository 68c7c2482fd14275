---------------------------- MODULE ReviewBatches ----------------------------
(***************************************************************************)
(* The review of one candidate against the issue history, in detail: the   *)
(* part that Engine takes in one step per chunk (Refresh, ReviewNew,       *)
(* ReviewRejects, ReviewFails).                                            *)
(*                                                                         *)
(* reviewChunks (run.go) splits long issues into parts and fills chunks    *)
(* with them.  executeReview has a chunk compared by an agent; an answer   *)
(* without a receipt that can be decoded is restated once (execute), a     *)
(* receipt that does not cover the chunk is asked for again once.  Every   *)
(* prompt starts a process of its own and talks to it (agent.go): it is    *)
(* initialized, given a session and its options, and prompted; it may fail *)
(* or die at every step, and the time of the attempt may run out.  A chunk *)
(* found to be new enters the checkpoint, which is saved and outlives the  *)
(* attempt and the process.                                                *)
(*                                                                         *)
(* Meanwhile people write new issues and edit old ones.  A history is a    *)
(* sequence of issues in order of their numbers; of the text of an issue   *)
(* only the length and a version are kept.                                 *)
(***************************************************************************)
EXTENDS Integers, Sequences, FiniteSets, SequencesExt

CONSTANTS
  Histories,   \* issue histories: sequences of [number, version, size]
  Limit,       \* runes of a part, and the size of a chunk (24000 in the code)
  MaxParts,    \* parts of a chunk (20 in the code)
  Wrapping,    \* what a part's number, title and JSON add to its size
  Handshakes,  \* requests before the prompt: initialize, session/new, options
  Checked,     \* what a receipt may list as checked
  MaxEdits     \* bound: how often the history changes

Issue == [number : Nat \ {0}, version : Nat, size : Nat]

ASSUME ReviewAssumption ==
  /\ \A h \in Histories :
       h \in Seq(Issue) /\ \A k, l \in DOMAIN h : k < l => h[k].number < h[l].number
  /\ Limit \in Nat \ {0} /\ MaxParts \in Nat \ {0} /\ Wrapping \in Nat \ {0}
  /\ Handshakes \in Nat \ {0, 1}
  /\ MaxEdits \in Nat

VARIABLES
  history, edits,       \* the tracker
  pc,                   \* where reviewAndPublish is
  snap, todo,           \* the list read last, and the chunks still to review
  ckpt, saved,          \* the checkpoint in memory, and in state.json
  pass, recovering,     \* executeReview's attempt; execute's second prompt
  phase, agent,         \* Execute: requests answered; the agent's processes
  reply,                \* what Execute returns
  asked,                \* prompts sent for the chunk
  compared              \* ghost: text named in a receipt that was accepted

tracker == <<history, edits>>
review == <<snap, todo>>
checkpoint == <<ckpt, saved>>
session == <<phase, agent>>
vars == <<tracker, pc, review, checkpoint, pass, recovering, session, reply, asked, compared>>

NoCheckpoint == [validated |-> FALSE, batches |-> {}]

Init ==
  /\ history \in Histories /\ edits = 0
  /\ pc = "idle"
  /\ snap = <<>> /\ todo = <<>>
  /\ ckpt = NoCheckpoint /\ saved = NoCheckpoint
  /\ pass = 0 /\ recovering = FALSE
  /\ phase = 0 /\ agent = "none"
  /\ reply = [kind |-> "none"] /\ asked = 0
  /\ compared = {}

-----------------------------------------------------------------------------
(* Parts and chunks *)

\* The parts of an issue, at least one; each says which issue it is of.
PartsOf(i) ==
  [k \in 1..(IF i.size = 0 THEN 1 ELSE (i.size + Limit - 1) \div Limit) |->
     [number |-> i.number, version |-> i.version,
      from |-> (k - 1) * Limit, to |-> Min({k * Limit, i.size})]]

Weight(p) == p.to - p.from + Wrapping

\* Mutant: chunks are bounded by the number of parts only.
FullByCount(b, p) == Len(b.chunk) >= MaxParts

\* The part p does not go into the chunk being filled.
Full(b, p) ==
  /\ b.chunk # <<>>
  /\ \/ b.size + Weight(p) > Limit
     \/ Len(b.chunk) >= MaxParts
     \/ Last(b.chunk).number = p.number

AddPart(b, p) ==
  IF Full(b, p)
  THEN [chunks |-> Append(b.chunks, b.chunk), chunk |-> <<p>>, size |-> Weight(p)]
  ELSE [b EXCEPT !.chunk = Append(@, p), !.size = @ + Weight(p)]

Parts(h) == FlattenSeq([k \in DOMAIN h |-> PartsOf(h[k])])

NoParts == [chunks |-> <<>>, chunk |-> <<>>, size |-> 0]

\* An empty history is one empty chunk.
ReviewChunks(h) ==
  LET filled == FoldLeft(AddPart, NoParts, Parts(h))
  IN  IF filled.chunk = <<>> THEN <<<<>>>> ELSE Append(filled.chunks, filled.chunk)

\* Mutant: a checkpoint knows a chunk by its numbers.
KeyOfNumbers(chunk) ==
  [k \in DOMAIN chunk |-> <<chunk[k].number, chunk[k].from, chunk[k].to>>]

\* reviewBatchKey: a digest of everything that is in the chunk.
Key(chunk) == chunk

Numbers(chunk) == {chunk[k].number : k \in DOMAIN chunk}

-----------------------------------------------------------------------------
(* Answers *)

Verdicts == {"new", "duplicate", "uncertain", "invalid"}

\* The last line of an answer holds no receipt that can be decoded; one that is
\* refused whatever the chunk (unknown fields, no reason); or one to be looked at.
Answers ==
  {[kind |-> "unmarked"], [kind |-> "malformed"]}
    \union [kind : {"receipt"}, verdict : Verdicts, checked : Checked,
            duplicate : {0} \union UNION {ToSet(c) : c \in Checked}]

\* Every supplied number exactly once, and no other.
Covers(a, chunk) == ToSet(a.checked) = Numbers(chunk) /\ IsInjective(a.checked)

\* parseReview.
Parsed(a, chunk) ==
  CASE a.kind = "unmarked"  -> "unmarked"
    [] a.kind = "malformed" -> "error"
    [] a.kind = "receipt" /\ ~Covers(a, chunk) -> "coverage"
    [] a.kind = "receipt" /\ Covers(a, chunk) ->
         IF a.duplicate \in (IF a.verdict = "duplicate" THEN Numbers(chunk) ELSE {0})
         THEN "ok" ELSE "error"

-----------------------------------------------------------------------------
(* The attempt, from the refresh of the history on *)

Chunk == Head(todo)

Resume ==
  /\ pc = "idle" /\ pc' = "refresh"
  /\ UNCHANGED <<tracker, review, checkpoint, pass, recovering, session, reply, asked, compared>>

\* A chunk without a checkpoint is to be reviewed.
AddOpen(s, c) == IF Key(c) \in ckpt.batches THEN s ELSE Append(s, c)

Pending(h) ==
  LET open == FoldLeft(AddOpen, <<>>, ReviewChunks(h))
  IN  IF open = <<>> /\ ~ckpt.validated THEN <<<<>>>> ELSE open

\* The history is read; its chunks without a checkpoint are to be reviewed.
Refresh ==
  /\ pc = "refresh"
  /\ snap' = history
  /\ todo' = Pending(history)
  /\ pc' = IF todo' = <<>> THEN "publish" ELSE "execute"
  /\ pass' = 0 /\ recovering' = FALSE /\ asked' = 0
  /\ UNCHANGED <<tracker, checkpoint, session, reply, compared>>

\* The attempt ends with an error; a setup error is refunded (Engine).
Fails(kind) ==
  /\ pc' = "idle"
  /\ reply' = [kind |-> kind]
  /\ snap' = <<>> /\ todo' = <<>>
  /\ pass' = 0 /\ recovering' = FALSE /\ asked' = 0

-----------------------------------------------------------------------------
(* One prompt: agentProcess.Execute *)

\* The state directory, the transcript, the host or the process fails.
CannotLaunch ==
  /\ pc = "execute" /\ pc' = "returned"
  /\ reply' = [kind |-> "setup"]
  /\ UNCHANGED <<tracker, review, checkpoint, pass, recovering, session, asked, compared>>

Launch ==
  /\ pc = "execute" /\ pc' = "session"
  /\ phase' = 0 /\ agent' = "running"
  /\ UNCHANGED <<tracker, review, checkpoint, pass, recovering, reply, asked, compared>>

Talking == pc = "session" /\ agent = "running"

\* initialize, authenticate, session/new, mode, model and effort, one by one.
Handshake ==
  /\ Talking /\ phase < Handshakes
  /\ phase' = phase + 1
  /\ UNCHANGED <<tracker, pc, review, checkpoint, pass, recovering, agent, reply, asked, compared>>

Prompt ==
  /\ Talking /\ phase = Handshakes
  /\ phase' = phase + 1
  /\ asked' = asked + 1
  /\ UNCHANGED <<tracker, pc, review, checkpoint, pass, recovering, agent, reply, compared>>

\* The turn has ended, and its whole text was received.
Answer ==
  /\ Talking /\ phase > Handshakes
  /\ reply' \in Answers
  /\ pc' = "closing"
  /\ UNCHANGED <<tracker, review, checkpoint, pass, recovering, session, asked, compared>>

AgentDies ==
  /\ Talking /\ agent' = "dead"
  /\ UNCHANGED <<tracker, pc, review, checkpoint, pass, recovering, phase, reply, asked, compared>>

\* A request fails, another stop reason, an answer that is too long, or the time
\* of the attempt is over: a setup error as long as there was no prompt.
SessionFails ==
  /\ pc = "session" /\ pc' = "closing"
  /\ reply' = [kind |-> IF phase <= Handshakes THEN "setup" ELSE "failed"]
  /\ UNCHANGED <<tracker, review, checkpoint, pass, recovering, session, asked, compared>>

\* Mutant: an agent that has answered is left to end by itself.
CloseFailed ==
  /\ pc = "closing" /\ pc' = "returned"
  /\ phase' = 0 /\ agent' = IF reply.kind = "failed" THEN "none" ELSE agent
  /\ UNCHANGED <<tracker, review, checkpoint, pass, recovering, reply, asked, compared>>

\* The deferred calls: the process group is killed and waited for.
Close ==
  /\ pc = "closing" /\ pc' = "returned"
  /\ phase' = 0 /\ agent' = "none"
  /\ UNCHANGED <<tracker, review, checkpoint, pass, recovering, reply, asked, compared>>

Session == CannotLaunch \/ Launch \/ Handshake \/ Prompt \/ Answer \/ AgentDies \/ SessionFails \/ Close

-----------------------------------------------------------------------------
(* execute and executeReview: what is made of the answer *)

Returned(outcomes) ==
  /\ pc = "returned"
  /\ reply.kind \notin {"setup", "failed"} /\ Parsed(reply, Chunk) \in outcomes

\* In the recovery pass as well the error of Execute is what counts.
ExecuteFails ==
  /\ pc = "returned" /\ reply.kind \in {"setup", "failed"}
  /\ Fails(reply.kind)
  /\ UNCHANGED <<tracker, checkpoint, session, compared>>

\* The agent is asked once to restate the receipt of its own answer.
Recover ==
  /\ Returned({"unmarked"}) /\ ~recovering
  /\ recovering' = TRUE
  /\ pc' = "execute" /\ reply' = [kind |-> "none"]
  /\ UNCHANGED <<tracker, review, checkpoint, pass, session, asked, compared>>

\* The prompt is repeated once, with what the receipt lacks.
Correct ==
  /\ Returned({"coverage"}) /\ ~recovering /\ pass = 0
  /\ pass' = 1
  /\ pc' = "execute" /\ reply' = [kind |-> "none"]
  /\ UNCHANGED <<tracker, review, checkpoint, recovering, session, asked, compared>>

\* A restated receipt that does not cover the chunk is not asked for again.
ReceiptFails ==
  /\ \/ Returned({"error"})
     \/ Returned({"unmarked"}) /\ recovering
     \/ Returned({"coverage"}) /\ (recovering \/ pass = 1)
  /\ Fails("failed")
  /\ UNCHANGED <<tracker, checkpoint, session, compared>>

Accept ==
  /\ Returned({"ok"})
  /\ pc' = "verify"
  /\ UNCHANGED <<tracker, review, checkpoint, pass, recovering, session, reply, asked, compared>>

WorkspaceFails ==
  /\ pc = "verify"
  /\ Fails("failed")
  /\ UNCHANGED <<tracker, checkpoint, session, compared>>

\* The text of the parts a receipt speaks for; rune 0 stands for number and title.
Text(chunk, numbers) ==
  UNION {{[number |-> p.number, version |-> p.version, rune |-> r] :
            r \in {0} \union (p.from + 1)..p.to} :
         p \in {q \in ToSet(chunk) : q.number \in numbers}}

\* The workspace is unchanged: the chunk enters the checkpoint, which is saved.
Attest ==
  /\ pc = "verify" /\ reply.verdict = "new"
  /\ ckpt' = [validated |-> TRUE, batches |-> ckpt.batches \union {Key(Chunk)}]
  /\ compared' = compared \union Text(Chunk, ToSet(reply.checked))
  /\ \/ /\ saved' = ckpt'
        /\ todo' = Tail(todo)
        /\ pc' = IF todo' = <<>> THEN "refresh" ELSE "execute"
        /\ pass' = 0 /\ recovering' = FALSE /\ asked' = 0
        /\ reply' = [kind |-> "none"]
        /\ UNCHANGED snap
     \/ saved' \in {saved, ckpt'} /\ Fails("failed")
  /\ UNCHANGED <<tracker, session>>

\* An issue was added or edited since the list was read; one that is gone does
\* not count.
Changed == ~(ToSet(history) \subseteq ToSet(snap))

\* Every chunk of the list is in the checkpoint, but there is more to compare.
Reread ==
  /\ pc = "publish" /\ Changed /\ pc' = "refresh"
  /\ UNCHANGED <<tracker, review, checkpoint, pass, recovering, session, reply, asked, compared>>

\* The candidate is filed, or not new; another begins without a checkpoint.
NextCandidate ==
  /\ \/ pc = "publish" /\ ~Changed
     \/ pc = "verify" /\ reply.verdict # "new"
  /\ ckpt' = NoCheckpoint /\ saved' = NoCheckpoint
  /\ compared' = {}
  /\ Fails("none")
  /\ UNCHANGED <<tracker, session>>

Attempt ==
  \/ Resume \/ Refresh \/ ExecuteFails \/ Recover \/ Correct \/ ReceiptFails \/ Accept
  \/ WorkspaceFails \/ Attest \/ Reread \/ NextCandidate

-----------------------------------------------------------------------------

\* bfb ends anywhere; an agent left alone sees the end of its input.
Crash ==
  /\ pc # "idle"
  /\ ckpt' = saved
  /\ phase' = 0 /\ agent' = "none"
  /\ Fails("none")
  /\ UNCHANGED <<tracker, saved, compared>>

Edit ==
  /\ edits < MaxEdits /\ edits' = edits + 1
  /\ history' \in Histories \ {history}
  /\ UNCHANGED <<pc, review, checkpoint, pass, recovering, session, reply, asked, compared>>

Next == Session \/ Attempt \/ Crash \/ Edit

Spec == Init /\ [][Next]_vars

-----------------------------------------------------------------------------
(* Properties *)

TypeOK ==
  /\ history \in Histories /\ edits \in 0..MaxEdits
  /\ pc \in {"idle", "refresh", "execute", "session", "closing", "returned", "verify", "publish"}
  /\ {ckpt.validated, saved.validated, recovering} \subseteq BOOLEAN
  /\ saved.batches \subseteq ckpt.batches
  /\ pass \in 0..1 /\ phase \in 0..Handshakes + 1
  /\ agent \in {"none", "running", "dead"}
  /\ reply \in Answers \union [kind : {"none", "setup", "failed"}]

\* What is between the prompts of a chunk: no process of an agent is left while an
\* answer is judged and the workspace verified, an accepted receipt is the answer
\* to a prompt for this chunk, and recovery and correction together never make
\* more than three prompts of it (agent.go:78, run.go:212, run.go:506).
SessionInv ==
  /\ TypeOK
  /\ agent # "none" => pc \in {"session", "closing"}
  /\ asked <= 1 + pass + (IF recovering THEN 1 ELSE 0)
  /\ pc = "verify" => asked = 1 + pass + (IF recovering THEN 1 ELSE 0)

\* When a candidate may be filed, every rune of every issue of the list, in its
\* present version and whatever chunk it was part of when it was reviewed, was in
\* a prompt whose accepted receipt names the issue, and the finding itself was
\* validated; so also after edits, restarts and failed saves.
EveryRuneCompared ==
  pc = "publish" =>
    /\ ckpt.validated
    /\ \A k \in DOMAIN snap : \A r \in 0..snap[k].size :
         [number |-> snap[k].number, version |-> snap[k].version, rune |-> r] \in compared

\* What a chunk weighs.
Load(c) == FoldLeft(LAMBDA n, p : n + Weight(p), 0, c)

\* A chunk stays within its size and number of parts, a single long part apart, and
\* has each issue once, so that the receipt's entry of a number speaks for one part.
WellBatched ==
  \A c \in ToSet(todo) :
    /\ Len(c) <= MaxParts
    /\ Cardinality(Numbers(c)) = Len(c)
    /\ Len(c) > 1 => Load(c) <= Limit

=============================================================================
