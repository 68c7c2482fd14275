---------------------------- MODULE GitHubClient ----------------------------
(***************************************************************************)
(* The whole GitHub client: the downloads of IssuePages, and the request   *)
(* that creates an issue (githubClient.create, createdResponse), which     *)
(* runs `gh api --include` through osrun.Run (internal/osrun/run.go) and   *)
(* has to tell a refusal from everything else by what gh has printed: only *)
(* a refusal lets the engine send the request again.                       *)
(*                                                                         *)
(* Run copies the standard output of gh, whose end it keeps, and returns   *)
(* when gh has ended and nothing holds the pipe, or a second later.  The   *)
(* context kills gh's process group; a descendant in a group of its own    *)
(* survives, and holds the pipe.                                           *)
(*                                                                         *)
(* Output is a sequence of pieces: a status line, the end of the headers,  *)
(* the pieces of a body.  A body has text that people and agents wrote and *)
(* may have pieces that read like a status line and headers.  Standard     *)
(* error only words the error; encodings are left out.                     *)
(***************************************************************************)
EXTENDS IssuePages, Sequences

CONSTANTS
  Capacity,  \* pieces of output that are kept (8 MiB)
  Pieces,    \* what output consists of
  Bodies     \* bodies of GitHub's answers

Refusal == "403"   \* 400, 401, 403, 404, 405, 409, 410, 411, 413, 414, 415, 422, 429
Status == {"201", Refusal, "502"}
EndOfHeaders == "headers"

ASSUME ClientAssumption ==
  /\ Capacity \in Nat \ {0}
  /\ Status \union {EndOfHeaders} \subseteq Pieces
  /\ Bodies \subseteq Seq(Pieces)

VARIABLES
  post,      \* what GitHub has done with the create request
  answer,    \* all that gh prints if nothing stops it
  sent,      \* pieces of it that gh has written
  gh, ok,    \* the process of gh: running, exited, reaped; its exit code is 0
  holder,    \* who but gh holds the pipe: none, its group, another group
  watch,     \* the goroutine that watches the context
  copied, kept, truncated,  \* the copying goroutine and its Tail
  late,      \* WaitDelay is over
  outcome    \* what create returns

command == <<answer, sent, gh, ok, holder, watch, copied, kept, truncated, late>>
createVars == <<post, command, outcome>>
clientVars == <<vars, createVars>>

ClientInit ==
  /\ Init
  /\ post = "none" /\ outcome = "none"
  /\ answer = <<>> /\ sent = 0 /\ gh = "none" /\ ok = FALSE /\ holder = "none"
  /\ watch = "none" /\ copied = 0 /\ kept = <<>> /\ truncated = FALSE /\ late = FALSE

-----------------------------------------------------------------------------
(* The request *)

\* create starts gh.  What a download left is gone by then.  Bound: it is sent
\* before people change anything; it reads nothing of the tracker.
Post ==
  /\ pc \in {"idle", "done", "failed"} /\ changes = 0 /\ outcome = "none"
  /\ pc' = "posting" /\ page' = 1 /\ listed' = [i \in Issues |-> 0] /\ notes' = {}
  /\ start' = Nothing /\ removed' = Nothing
  /\ gh' = "running" /\ watch' = "watching"
  /\ UNCHANGED <<github, changes, post, answer, sent, ok, holder, copied, kept, truncated, late, outcome>>

Posting == pc = "posting" /\ UNCHANGED <<client, changes, start, removed>>

\* GitHub creates the issue or refuses, or fails with or without having created
\* it; it may do so after gh has been killed.
Serve ==
  /\ Posting /\ post = "none"
  /\ \E status \in Status, body \in Bodies :
       /\ answer' = <<status, EndOfHeaders>> \o body
       /\ \/ status = Refusal /\ post' = "refused" /\ UNCHANGED tracker
          \/ status = "502" /\ post' = "failed" /\ UNCHANGED tracker
          \/ /\ status # Refusal /\ post' = "created"
             /\ \E i \in Issues \ (Pulls \union tracker \union gone.issues) : tracker' = tracker \union {i}
  /\ UNCHANGED <<discussion, gone, sent, gh, ok, holder, watch, copied, kept, truncated, late, outcome>>

-----------------------------------------------------------------------------
(* osrun.Run *)

Running == Posting /\ UNCHANGED <<github, post, outcome>>

\* gh prints a piece.  Something it has started may hold the pipe from then on.
GhWrites ==
  /\ Running /\ gh = "running" /\ sent < Len(answer)
  /\ sent' = sent + 1
  /\ holder' \in {holder} \union {"group", "other"}
  /\ UNCHANGED <<answer, gh, ok, watch, copied, kept, truncated, late>>

\* It ends, successfully when it has printed a successful answer, in error after
\* any other, and wherever it breaks off.
GhExits ==
  /\ Running /\ gh = "running"
  /\ gh' = "exited"
  /\ ok' \in {FALSE, answer # <<>> /\ sent = Len(answer) /\ answer[1] = "201"}
  /\ UNCHANGED <<answer, sent, holder, watch, copied, kept, truncated, late>>

\* What held the pipe ends.
HolderEnds ==
  /\ Running /\ holder # "none"
  /\ holder' = "none"
  /\ UNCHANGED <<answer, sent, gh, ok, watch, copied, kept, truncated, late>>

AtMost(n, max) == IF n < max THEN n ELSE max

\* Tail.Write: the last Capacity pieces of everything.
KeepTail(s) == SubSeq(s, Len(s) - AtMost(Capacity, Len(s)) + 1, Len(s))
Excess(s) == Len(s) > Capacity

\* The copying goroutine reads what is there, or a part of it.
Copy ==
  /\ Running /\ ~late
  /\ \E n \in 1..(sent - copied) :
       LET p == SubSeq(answer, copied + 1, copied + n)
       IN  /\ copied' = copied + n
           /\ kept' = KeepTail(kept \o KeepTail(p))
           /\ truncated' = (truncated \/ Excess(p) \/ Excess(kept \o KeepTail(p)))
  /\ UNCHANGED <<answer, sent, gh, ok, holder, watch, late>>

\* The minute is over, or bfb is being stopped: Kill ends the group.  A process
\* that has exited and is not reaped counts; when no process of the group is
\* left, that gh was done is no error.
Expire ==
  /\ Running /\ watch = "watching"
  /\ IF gh # "reaped" \/ holder = "group"
     THEN watch' = "canceled"
     ELSE watch' = "done"
  /\ IF gh = "running" THEN gh' = "exited" /\ ok' = FALSE ELSE UNCHANGED <<gh, ok>>
  /\ holder' = IF holder = "group" THEN "none" ELSE holder
  /\ UNCHANGED <<answer, sent, copied, kept, truncated, late>>

\* Wait has the process, and then the context's goroutine.
Reap ==
  /\ Running /\ gh = "exited" /\ gh' = "reaped"
  /\ UNCHANGED <<answer, sent, ok, holder, watch, copied, kept, truncated, late>>

Unwatch ==
  /\ Running /\ gh = "reaped" /\ watch = "watching" /\ watch' = "done"
  /\ UNCHANGED <<answer, sent, gh, ok, holder, copied, kept, truncated, late>>

Drained == copied = sent /\ holder = "none"

\* A second after gh has ended, or was killed, the pipe is closed: WaitDelay.
StopWaiting ==
  /\ Running /\ gh = "reaped" /\ watch # "watching" /\ ~Drained /\ ~late
  /\ late' = TRUE
  /\ UNCHANGED <<answer, sent, gh, ok, holder, watch, copied, kept, truncated>>

\* Mutant: that the pipe had to be closed is no error.
ExitOnly == ~ok \/ watch = "canceled"

\* cmd.Run's error.
Failed == ~ok \/ watch = "canceled" \/ late

\* Mutant: the tail of an output that was cut is shown.
TailText == kept

\* What Run returns: nothing of an output that was cut, and an error then.
RunText == IF truncated THEN <<>> ELSE kept
RunErr == Failed \/ truncated

-----------------------------------------------------------------------------
(* createdResponse and validateCreated *)

HasHead(text) == Len(text) >= 2 /\ text[1] \in Status /\ text[2] = EndOfHeaders

\* The last piece of a body is the issue, or is not what was sent.
Valid(text) == Len(text) > 2 /\ text[Len(text)] = "issue"

Classified(text, err) ==
  CASE ~HasHead(text)              -> "unknown"
    [] HasHead(text) /\ text[1] = Refusal -> "rejected"
    [] HasHead(text) /\ text[1] # Refusal ->
         IF ~err /\ text[1] = "201" /\ Valid(text) THEN "issue" ELSE "unknown"

\* create returns to the engine.
Return ==
  /\ Posting /\ gh = "reaped" /\ watch # "watching" /\ (Drained \/ late) /\ outcome = "none"
  /\ outcome' = Classified(RunText, RunErr)
  /\ UNCHANGED <<github, post, command>>

\* The engine goes on; the next command begins with nothing.
Resume ==
  /\ pc = "posting" /\ outcome # "none"
  /\ pc' = "idle"
  /\ post' = "none" /\ outcome' = "none"
  /\ answer' = <<>> /\ sent' = 0 /\ gh' = "none" /\ ok' = FALSE /\ holder' = "none"
  /\ watch' = "none" /\ copied' = 0 /\ kept' = <<>> /\ truncated' = FALSE /\ late' = FALSE
  /\ UNCHANGED <<github, page, listed, notes, changes, start, removed>>

\* The downloads, and people; bound: they rest while a create request is under way.
Download == (Begin \/ ReadIssues \/ ReadComments \/ RequestFails) /\ UNCHANGED createVars
PeopleStep == pc # "posting" /\ People /\ UNCHANGED createVars

ClientNext ==
  \/ Post \/ Serve \/ Return \/ Resume
  \/ GhWrites \/ GhExits \/ HolderEnds \/ Copy
  \/ Expire \/ Reap \/ Unwatch \/ StopWaiting
  \/ Download \/ PeopleStep

ClientSpec == ClientInit /\ [][ClientNext]_clientVars

-----------------------------------------------------------------------------
(* Properties *)

\* What Run returns without an error is all that the command has printed,
\* whenever the context ends, however the process and its descendants end and
\* however much there was (internal/osrun/run.go:72-93).
AnswerWhole == outcome # "none" /\ ~RunErr => RunText = answer

\* create reports a refusal only when GitHub has refused, and an issue only
\* when GitHub has created it, though the output may be the fragment of a body
\* that reads like another answer (github.go:136-137, osrun/run.go:85-86).
OutcomeIsTrue ==
  /\ outcome = "rejected" => post = "refused"
  /\ outcome = "issue" => post = "created"

=============================================================================
