-------------------------- MODULE DashboardSession --------------------------
(***************************************************************************)
(* The terminal dashboard's session (cmd/bfb/terminal.go): the scan runs   *)
(* in a goroutine of its own, and every 100 ms a tick reads the keyboard   *)
(* and decodes it.  A quit key, a signal or a terminal that is gone cancel *)
(* the scan; the session ends only when the scan has returned.             *)
(*                                                                         *)
(* The terminal is in raw mode, so Ctrl+C is a byte like any other, and in *)
(* bracketed-paste mode, so pasted text comes between two markers.  The    *)
(* decoder takes its input apart byte by byte: ESC followed by [ or O      *)
(* begins a sequence that the next byte from @ to ~ ends.  Whether bytes   *)
(* come in one read or in several makes a difference only when a tick      *)
(* finds nothing to read and a lone ESC waiting, which it takes for the    *)
(* key, and when a sequence without an end grows too long.                 *)
(*                                                                         *)
(* Bytes are single characters and the ends "200~" and "201~" of the paste *)
(* markers, each of which the terminal sends in one piece.  The next input *)
(* comes when the last one is read.                                        *)
(***************************************************************************)
EXTENDS Naturals, Sequences, SequencesExt

CONSTANTS
  Keys,        \* the keys that are typed, each as its bytes
  Pasted,      \* the characters of pasted texts
  Longest,     \* an unfinished sequence of more bytes is given up (32)
  MaxInputs,   \* bound: keys typed and texts pasted
  MaxPaste     \* bound: bytes of a pasted text

ESC == "esc"
Quits == {"q", "ctrl+c"}
Markers == {"200~", "201~"}

\* A key sends one byte or more, Alt+O for instance ESC and O; nobody types a
\* paste marker.  Terminals filter control characters out of what is pasted.
ASSUME SessionAssumption ==
  /\ MaxInputs \in Nat /\ MaxPaste \in Nat /\ Longest \in Nat \ {0, 1}
  /\ \A key \in Keys : key # <<>> /\ key \in Seq(Range(key) \ Markers)
  /\ ESC \notin Pasted

VARIABLES
  line,      \* bytes the terminal has still to deliver, each typed or pasted
  inputs,
  pending, paste,   \* keyDecoder
  quits,     \* ghost: what was read of quit keys typed
  torn,      \* ghost: a paste marker was not read as one sequence
  cause,     \* what canceled the scan
  signalled, gone,  \* the parent context has ended; the terminal hung up
  scan       \* the scan's goroutine, and the session

ghosts == <<quits, torn>>
vars == <<line, inputs, pending, paste, ghosts, cause, signalled, gone, scan>>

Texts == BoundedSeq(Pasted, MaxPaste)

Bracketed(text) == <<ESC, "[", "200~">> \o text \o <<ESC, "[", "201~">>

Mark(bytes, typed) == [i \in DOMAIN bytes |-> [byte |-> bytes[i], typed |-> typed]]

Init ==
  /\ line = <<>> /\ inputs = 0
  /\ pending = <<>> /\ paste = FALSE
  /\ quits = "none" /\ torn = FALSE /\ cause = "none" /\ signalled = FALSE /\ gone = FALSE
  /\ scan = "running"

\* The person at the terminal.
Input ==
  /\ inputs < MaxInputs /\ line = <<>> /\ ~gone /\ scan # "over"
  /\ inputs' = inputs + 1
  /\ \/ \E key \in Keys : line' = Mark(key, TRUE)
     \/ \E text \in Texts : line' = Mark(Bracketed(text), FALSE)
  /\ UNCHANGED <<pending, paste, ghosts, cause, signalled, gone, scan>>

-----------------------------------------------------------------------------
(* The decoder *)

Openers == {"[", "O"}

\* The keys below @ that the dashboard knows end no sequence.
Final(byte) == byte \notin {ESC, "ctrl+c", "enter", "tab", "1", "2", "3"}

\* What is pending after a byte.
Rest(byte) ==
  IF Len(pending) < 2 /\ byte = ESC THEN <<ESC>>
  ELSE IF pending = <<ESC>> /\ byte \in Openers THEN <<ESC, byte>>
  ELSE IF Len(pending) >= 2 /\ ~Final(byte) THEN Append(pending, byte)
  ELSE <<>>

\* The same when the byte is the last of a read: it may be given up.
Kept(byte) == {Rest(byte)} \union IF Len(Rest(byte)) > Longest THEN {<<>>} ELSE {}

\* A sequence that the byte completes, and the markers.
Ends(byte, end) == pending = <<ESC, "[">> /\ byte = end

\* Mutant: the end of a paste is not told from other sequences.
PasteStays(byte) == Ends(byte, "200~") \/ paste

PasteAfter(byte) == (Ends(byte, "200~") \/ paste) /\ ~Ends(byte, "201~")

\* The arrow keys.
Arrow == [A |-> "up", B |-> "down"]

\* The keys a byte gives when it is not in a paste: an ESC that begins no
\* sequence, and the key that the byte is or completes.
Decoded(byte) ==
  (IF pending = <<ESC>> /\ byte \notin Openers THEN <<ESC>> ELSE <<>>)
    \o (IF Len(pending) < 2 /\ Rest(byte) = <<>> THEN <<byte>> ELSE <<>>)
    \o (IF pending \in {<<ESC, o>> : o \in Openers} /\ byte \in DOMAIN Arrow
        THEN <<Arrow[byte]>> ELSE <<>>)

\* Mutant: text is not discarded.
PressedText(byte) == Decoded(byte)

Pressed(byte) == IF paste THEN <<>> ELSE Decoded(byte)

IsQuit(b) == b.typed /\ b.byte \in Quits

\* A quit key is typed between two sequences, or right after a q.
IsDue(b) == IsQuit(b) /\ (quits = "q" \/ Len(pending) < 2)

\* Nothing was asked for; the last byte is a q; a quit key was typed; one that
\* must be heard was.
QuitsAfter(b) ==
  IF quits = "due" \/ IsDue(b) THEN "due"
  ELSE IF IsQuit(b) THEN IF b.byte = "q" THEN "q" ELSE "typed"
  ELSE IF quits = "q" THEN "typed" ELSE quits

\* The ESC of a marker becomes part of a sequence that was typed.
Tears(b) == ~b.typed /\ b.byte = ESC /\ Len(pending) >= 2

\* A tick reads and feeds the decoder.
Read ==
  /\ line # <<>> /\ ~gone /\ scan # "over"
  /\ LET b == Head(line) IN
       /\ pending' \in Kept(b.byte)
       /\ paste' = PasteAfter(b.byte)
       /\ quits' = QuitsAfter(b) /\ torn' = (torn \/ Tears(b))
       /\ cause' = IF cause = "none" /\ Range(Pressed(b.byte)) \intersect Quits # {} THEN "key" ELSE cause
  /\ line' = Tail(line)
  /\ UNCHANGED <<inputs, signalled, gone, scan>>

\* A tick finds nothing to read and an ESC waiting, which may be a marker's, and
\* also in a paste.
FlushEscape ==
  /\ pending = <<ESC>> /\ ~gone /\ scan # "over"
  /\ pending' = <<>>
  /\ torn' = (torn \/ (line # <<>> /\ Head(line) = [byte |-> "[", typed |-> FALSE]))
  /\ UNCHANGED <<line, inputs, paste, quits, cause, signalled, gone, scan>>

-----------------------------------------------------------------------------
(* The session *)

\* The parent context ends, and the scan's with it.
Signal ==
  /\ ~signalled /\ scan # "over" /\ signalled' = TRUE
  /\ cause' = IF cause = "none" THEN "signal" ELSE cause
  /\ UNCHANGED <<line, inputs, pending, paste, ghosts, gone, scan>>

\* The terminal goes away: nothing more is read.
HangUp ==
  /\ ~gone /\ scan # "over" /\ gone' = TRUE
  /\ UNCHANGED <<line, inputs, pending, paste, ghosts, cause, signalled, scan>>

\* Mutant: a terminal that is gone is nothing to poll.
IgnoreHangUp == gone /\ cause = "signal" /\ UNCHANGED vars

\* The next tick sees it, or fails to read or to draw, and cancels.
SeeHangUp ==
  /\ gone /\ cause = "none" /\ scan # "over" /\ cause' = "terminal"
  /\ UNCHANGED <<line, inputs, pending, paste, ghosts, signalled, gone, scan>>

\* The scan returns by itself (bfb once) or because it is canceled.
ScanReturns ==
  /\ scan = "running" /\ scan' = "returned"
  /\ UNCHANGED <<line, inputs, pending, paste, ghosts, cause, signalled, gone>>

\* The session returns when the scan has (terminal.go:26).
Leave ==
  /\ scan = "returned" /\ scan' = "over"
  /\ UNCHANGED <<line, inputs, pending, paste, ghosts, cause, signalled, gone>>

Next ==
  \/ Input \/ Read \/ FlushEscape
  \/ Signal \/ HangUp \/ SeeHangUp
  \/ ScanReturns \/ Leave

Spec == Init /\ [][Next]_vars

\* The ticks go on, and a scan that is canceled returns: it looks at its context
\* wherever it waits.
FairSpec ==
  /\ Spec
  /\ WF_vars(Read \/ SeeHangUp)
  /\ WF_vars(cause # "none" /\ ScanReturns)
  /\ WF_vars(Leave)

-----------------------------------------------------------------------------
(* Properties *)

BytesRead == {ESC, "["} \union Markers \union Pasted \union UNION {Range(k) : k \in Keys}

TypeOK ==
  /\ line \in Seq([byte : BytesRead, typed : BOOLEAN])
  /\ inputs \in 0..MaxInputs
  /\ pending = <<>> \/ pending[1] = ESC
  /\ {paste, torn, signalled, gone} \subseteq BOOLEAN
  /\ quits \in {"none", "typed", "q", "due"}
  /\ cause \in {"none", "key", "signal", "terminal"}
  /\ scan \in {"running", "returned", "over"}

\* terminal.go:110: "Decode split escape sequences and discard bracketed paste, so
\* pasted text cannot accidentally act as dashboard shortcuts."  So only a key that
\* was typed stops the dashboard.  (Violated: a marker is torn when a tick comes
\* between its ESC and its [, and when its ESC ends up in a sequence that Alt+O or
\* Alt+[ began; what follows are keys.)
PasteNeverStops == cause = "key" => quits # "none"

\* What is pasted stops the dashboard only when a marker was torn, by a pause or
\* by a sequence typed before it (terminal.go:96, 125): whatever the text and the
\* keys are, and however many sequences were left unfinished or given up.
OnlyTornPasteStops == cause = "key" => quits # "none" \/ torn

\* A quit key is heard when it is typed between two sequences, and the second
\* of two is in any case, for the first q ends whatever was begun; unless a
\* marker was torn, which may leave the decoder in a paste for good.
QuitHeard == quits = "due" => cause # "none" \/ torn

\* Such a quit key, a signal and a terminal that is gone all end the session.
SessionEnds == (signalled \/ gone \/ (quits = "due" /\ ~torn)) ~> scan = "over"

=============================================================================
