------------------------------ MODULE Dashboard ------------------------------
(***************************************************************************)
(* What the dashboard shows (cmd/bfb/dashboard.go) of what the scan        *)
(* reports (progress.go), composed with DashboardSession, which decodes    *)
(* the keys and ends the session.  Three parties share one mutex: the scan *)
(* that reports its proposals, whoever writes to the log, and the ticks    *)
(* that press keys and draw.                                               *)
(*                                                                         *)
(* A report holds the latest Limit proposals, oldest first; the list on    *)
(* the screen is newest first, and the selection counts from the newest.   *)
(* The activity log keeps the last LogLimit records; each takes one row or *)
(* more, and scrolling counts rows from the last.  A proposal is its       *)
(* number and status, a record the rows it takes.  A status is pending     *)
(* (also posting), stale, or decided, for all the others.  Colours, texts, *)
(* the counters and a pane that changes its size are left out.             *)
(***************************************************************************)
EXTENDS DashboardSession, Integers

CONSTANTS
  Limit,         \* proposals in a report (200)
  LogLimit,      \* activityLimit (200)
  RecordRows,    \* rows a record may take: 2000 columns, wrapped
  Rows,          \* rows of the pane for the log or the text of a proposal
  TextRows,      \* rows of that text
  Old,           \* bound: how many proposals of closed scans are saved at the start
  MaxProposals,  \* bound: proposals
  MaxLog         \* bound: rows logged

ASSUME DashboardAssumption ==
  /\ {Limit, LogLimit, RecordRows, Rows} \subseteq Nat \ {0}
  /\ {TextRows, MaxProposals, MaxLog} \subseteq Nat
  /\ Old \subseteq 0..MaxProposals

VARIABLES
  completed, candidates,  \* the engine's State: proposals of closed scans, and of this one
  findings,               \* progress.Findings, of the last report
  initial,                \* the statuses in the first report; none before it
  ui,                     \* view, selected, detail, scroll
  activity,               \* the kept records, each as the number of rows before it
  total,                  \* rows ever logged
  start                   \* ghost: the saved proposals when the scan began

engine == <<completed, candidates, start>>
log == <<activity, total>>
screen == <<findings, initial, ui, log>>
dashVars == <<vars, engine, screen>>

Activity == 2
Far == LogLimit * RecordRows + TextRows   \* 1 << 30

AtMost(n, max) == IF n < max THEN n ELSE max
AtLeast0(n) == IF n < 0 THEN 0 ELSE n

Proposal(id, status) == [id |-> id, status |-> status]
None == <<Proposal(0, "none")>>

DashInit ==
  /\ Init
  /\ \E old \in Old, open \in BOOLEAN :
       /\ completed = [i \in 1..old |-> Proposal(i, "decided")]
       /\ candidates = IF open /\ old < MaxProposals THEN <<Proposal(old + 1, "pending")>> ELSE <<>>
  /\ findings = <<>> /\ initial = None
  /\ ui = [view |-> 0, selected |-> 0, detail |-> FALSE, scroll |-> 0]
  /\ activity = <<>> /\ total = 0 /\ start = completed \o candidates

-----------------------------------------------------------------------------
(* Reports *)

Newest(s, n) == SubSeq(s, Len(s) - AtMost(n, Len(s)) + 1, Len(s))

\* The proposals in a report.
Latest(c, s) == Newest(c \o s, Limit)

\* The proposal at a place of the list on the screen.
Shown(list, selected) == list[Len(list) - selected].id

\* Where the proposal id is in a list, counted from the newest.
Places(list, id) == {Len(list) - i : i \in {j \in DOMAIN list : list[j].id = id}}

\* Mutant: the selection stays where it is on the screen.
SamePlace(p) == AtLeast0(AtMost(ui.selected, Len(p) - 1))

\* A proposal that is open, or was browsed to, stays selected.
Reselected(p) ==
  LET again == IF (ui.detail \/ ui.selected > 0) /\ Len(findings) > ui.selected
               THEN Places(p, Shown(findings, ui.selected)) ELSE {}
      place == IF again = {} THEN ui.selected ELSE CHOOSE s \in again : TRUE
  IN  AtLeast0(AtMost(place, Len(p) - 1))

\* Mutant: every report begins a new summary.
Anew(p) == p

\* The proposals the summary takes for known.
FirstReport(p) == IF initial = None THEN p ELSE initial

\* dashboard.update, called by the engine's goroutine with what it holds now.
Report(c, s) ==
  /\ scan = "running"
  /\ completed' = c /\ candidates' = s
  /\ findings' = Latest(c, s)
  /\ initial' = FirstReport(findings')
  /\ ui' = [ui EXCEPT !.selected = Reselected(findings')]
  /\ UNCHANGED <<vars, log, start>>

\* Run has read the state: "starting".
Starting == initial = None /\ Report(completed, candidates)

\* A discovery is saved.
Discovered ==
  /\ initial # None /\ candidates = <<>>
  /\ \E n \in 1..(MaxProposals - Len(completed)) :
       Report(completed, [i \in 1..n |-> Proposal(Len(completed) + i, "pending")])

\* The first pending proposal is decided.
Decided ==
  /\ initial # None
  /\ \E i \in DOMAIN candidates :
       /\ candidates[i].status = "pending"
       /\ \A j \in 1..(i - 1) : candidates[j].status # "pending"
       /\ Report(completed, [candidates EXCEPT ![i].status = "decided"])

\* The scan is closed; what is pending of one that is discarded becomes stale.
Closed ==
  /\ initial # None /\ candidates # <<>>
  /\ Report(completed \o [i \in DOMAIN candidates |->
                            IF candidates[i].status = "pending"
                            THEN Proposal(candidates[i].id, "stale") ELSE candidates[i]], <<>>)

\* What the summary lists when the session is over.
Listed == {i \in DOMAIN findings : \A j \in DOMAIN initial : initial[j] # findings[i]}

-----------------------------------------------------------------------------
(* The activity log *)

\* Mutant: the view follows the log.
Follow(u) == u

\* A new record takes a view that was scrolled back one row further.
Held(u) == IF u.view = Activity /\ u.scroll > 0 THEN [u EXCEPT !.scroll = @ + 1] ELSE u

\* Rows are logged.
Logged(rows) ==
  /\ scan = "running" /\ total + rows <= MaxLog
  /\ total' = total + rows
  /\ UNCHANGED <<vars, engine, findings, initial>>

\* A record is added; the oldest one over the limit goes.
AddActivity ==
  \E rows \in 1..RecordRows :
    /\ Logged(rows)
    /\ activity' = Newest(Append(activity, total), LogLimit)
    /\ ui' = Held(ui)

\* A chunk of a transcript goes on with the last record, up to its longest.
Continue ==
  /\ activity # <<>>
  /\ \E rows \in 1..(activity[Len(activity)] + RecordRows - total) : Logged(rows)
  /\ UNCHANGED <<activity, ui>>

-----------------------------------------------------------------------------
(* Keys and drawing *)

Steps == [up |-> -1, k |-> -1, down |-> 1]

\* The digits, those of a marker that was torn included.
Views ==
  [key \in {"1", "2", "3", "200~", "201~"} |->
     CASE key \in {"1", "201~"} -> 0 [] key \in {"2", "200~"} -> 1 [] key = "3" -> Activity]

Press(u, key) ==
  CASE key = ESC \/ (key = "enter" /\ u.detail) ->
         [u EXCEPT !.detail = FALSE, !.scroll = 0]
    [] key \in DOMAIN Steps /\ u.detail ->
         [u EXCEPT !.scroll = AtLeast0(@ + Steps[key])]
    [] key \in DOMAIN Steps /\ ~u.detail /\ u.view = Activity ->
         [u EXCEPT !.scroll = AtLeast0(@ - Steps[key])]
    [] key \in DOMAIN Steps /\ ~u.detail /\ u.view # Activity ->
         [u EXCEPT !.selected = AtLeast0(AtMost(@ + Steps[key], Len(findings) - 1))]
    [] key = "g" /\ (u.detail \/ u.view = Activity) ->
         [u EXCEPT !.scroll = IF u.detail THEN 0 ELSE Far]
    [] key = "g" /\ ~u.detail /\ u.view # Activity ->
         [u EXCEPT !.selected = 0]
    [] key = "enter" /\ ~u.detail /\ u.view # Activity /\ findings # <<>> ->
         [u EXCEPT !.detail = TRUE, !.scroll = 0]
    [] key \in DOMAIN Views /\ ~u.detail ->
         [u EXCEPT !.view = Views[key], !.scroll = 0]
    [] OTHER -> u

\* A byte gives two keys at most.
PressAll(u, keys) ==
  IF keys = <<>> THEN u
  ELSE IF Len(keys) = 1 THEN Press(u, keys[1]) ELSE Press(Press(u, keys[1]), keys[2])

ReadKeys ==
  /\ Read
  /\ ui' = PressAll(ui, Pressed(Head(line).byte))
  /\ UNCHANGED <<engine, findings, initial, log>>

FlushKey ==
  /\ FlushEscape
  /\ ui' = Press(ui, ESC)
  /\ UNCHANGED <<engine, findings, initial, log>>

\* How far render lets a view be scrolled.
Extent(u) ==
  IF u.detail /\ findings # <<>> THEN AtLeast0(TextRows - Rows)
  ELSE IF u.view = Activity /\ activity # <<>> THEN AtLeast0(total - activity[1] - Rows)
  ELSE u.scroll

Draw ==
  /\ scan # "over" /\ ~gone
  /\ ui.scroll > Extent(ui)
  /\ ui' = [ui EXCEPT !.scroll = Extent(ui)]
  /\ UNCHANGED <<vars, engine, findings, initial, log>>

\* Everything else in the session.
SessionStep ==
  /\ Input \/ Signal \/ HangUp \/ SeeHangUp \/ ScanReturns \/ Leave
  /\ UNCHANGED <<engine, screen>>

DashNext ==
  \/ Starting \/ Discovered \/ Decided \/ Closed
  \/ AddActivity \/ Continue
  \/ ReadKeys \/ FlushKey \/ Draw \/ SessionStep

DashSpec == DashInit /\ [][DashNext]_dashVars

DashFairSpec ==
  /\ DashSpec
  /\ WF_dashVars(ReadKeys \/ (SeeHangUp /\ SessionStep))
  /\ WF_dashVars(cause # "none" /\ ScanReturns /\ SessionStep)
  /\ WF_dashVars(Leave /\ SessionStep)

-----------------------------------------------------------------------------
(* Properties *)

Ids(list) == {list[i].id : i \in DOMAIN list}

\* dashboard.go:66: "Keep a finding open while new results arrive; the overview
\* follows new findings only when the user has not browsed away from the newest
\* one."  It stays selected while it is among the latest, whatever is found,
\* decided or closed in between, and the newest is followed.
SelectionStays ==
  [][(findings # findings' /\ findings # <<>>) =>
       IF ui.detail \/ ui.selected > 0
       THEN LET open == Shown(findings, ui.selected)
            IN  open \in Ids(findings') => Shown(findings', ui'.selected) = open
       ELSE ui'.selected = 0]_dashVars

\* The summary that stays in the terminal has every proposal of the last report
\* that was found, decided or given up in this session, and no other, however
\* many scans were closed and however many proposals were saved before
\* (README.md:119).
SummaryTellsNews ==
  scan = "over" /\ initial # None =>
    Listed = {i \in DOMAIN findings : \A j \in DOMAIN start : start[j] # findings[i]}

\* The rows of the log on the screen.
Bottom == total - AtMost(ui.scroll, Extent(ui))
Dropped == IF activity = <<>> THEN 0 ELSE activity[1]
OnScreen == {n \in (Bottom - Rows + 1)..Bottom : n > Dropped}

\* The rows added that the view is not held against: all of them that go on with
\* the last record, and all but one of a new one.
Unheld == total' - total - (IF activity' = activity THEN 0 ELSE 1)

\* README.md:114: "`G` resumes following live activity."  A log that was not
\* scrolled back follows.  One that was stays where it is while records of one row
\* are added; wider ones and the chunks of a transcript move it on, but never by
\* more than their rows beyond that, and never back, as long as the limit takes
\* away nothing that is on the screen (dashboard.go:126-131, 164-173, 359-365).
ScrolledBackHolds ==
  [][total # total' /\ ui.view = Activity =>
       IF ui.scroll = 0 THEN Bottom' = total'
       ELSE \/ OnScreen \subseteq OnScreen'
            \/ Bottom' - Bottom \in 0..Unheld
            \/ \E n \in OnScreen : n <= Dropped']_dashVars

=============================================================================
