--------------------------- MODULE DashboardProofs ---------------------------
(***************************************************************************)
(* The safety of the terminal dashboard, for any keys typed and texts      *)
(* pasted of any length, any number of proposals and any sizes of the      *)
(* report, the log and the pane.                                           *)
(*                                                                         *)
(* Three inductive invariants: KeyboardInv says what the decoder waits for *)
(* wherever it is in its input, ReportsInv how the reports follow what is  *)
(* saved, and UiInv that what is selected exists.                          *)
(***************************************************************************)
EXTENDS Dashboard, SequenceTheorems, TLAPS

-----------------------------------------------------------------------------
(* The inductive invariant behind OnlyTornPasteStops and QuitHeard          *)

\* The byte that k others follow.
Before(k) == line[Len(line) - k].byte

\* What is left of a key.
KeyAhead ==
  ~paste /\ \A i \in DOMAIN line : line[i].typed /\ line[i].byte \notin Markers

\* What is left of a pasted text of m bytes: inside the markers the decoder knows
\* that it is in a paste, and begins no sequence but that of the end marker.
PasteAhead(m) ==
  /\ Len(line) \in 1..(m + 6) /\ \A i \in DOMAIN line : ~line[i].typed
  /\ \A k \in 0..(Len(line) - 1) :
       /\ k = 0 => Before(k) = "201~"
       /\ k \in {1, m + 4} => Before(k) = "["
       /\ k \in {2, m + 5} => Before(k) = ESC
       /\ k = m + 3 => Before(k) = "200~"
       /\ k \in 3..(m + 2) => Before(k) \in Pasted
  /\ paste <=> Len(line) <= m + 3
  /\ Len(line) \in {2, m + 5} => pending = <<ESC>>
  /\ Len(line) \in {1, m + 4} => pending = <<ESC, "[">>
  /\ Len(line) \in 3..(m + 3) => pending = <<>>

\* A q ends what was begun before it.
AfterQ == quits = "q" => pending = <<>>

\* Once a marker was torn, nothing is known of the decoder.
KeyboardInv ==
  /\ line \in Seq([byte : BytesRead, typed : BOOLEAN])
  /\ pending \in Seq(BytesRead) /\ torn \in BOOLEAN
  /\ torn \/ KeyAhead \/ \E m \in 0..MaxPaste : PasteAhead(m)
  /\ AfterQ /\ OnlyTornPasteStops /\ QuitHeard

-----------------------------------------------------------------------------
(* The inductive invariants behind SummaryTellsNews, SelectionStays and     *)
(* ScrolledBackHolds                                                        *)

Proposals == [id : Nat, status : {"pending", "stale", "decided"}]
Numbered(s) == \A i \in DOMAIN s : s[i].id = i

\* Proposals keep their numbers and their places among all that are saved.  The
\* first report told what was saved when the scan began, the last what is saved now.
ReportsInv ==
  /\ {completed, candidates, start} \subseteq Seq(Proposals)
  /\ Numbered(completed \o candidates) /\ Numbered(start)
  /\ Len(start) <= Len(completed \o candidates)
  /\ \/ initial = None /\ findings = <<>> /\ start = completed \o candidates
     \/ initial = Newest(start, Limit) /\ findings = Latest(completed, candidates)

\* The selection is in the list, the open proposal too, and the log is not read
\* while a proposal is open.
UiOf(u) ==
  /\ u \in [view : 0..2, selected : Nat, detail : BOOLEAN, scroll : Nat]
  /\ u.selected < Len(findings) \/ u.selected = 0
  /\ u.detail => findings # <<>> /\ u.view # Activity

\* Every kept record begins after the one before it, and has a row.
LogInv ==
  /\ activity \in Seq(Nat) /\ total \in Nat
  /\ \A i \in DOMAIN activity : activity[i] < total
  /\ \A i, j \in DOMAIN activity : i < j => activity[i] < activity[j]
  /\ activity = <<>> => total = 0

UiInv == UiOf(ui) /\ LogInv

-----------------------------------------------------------------------------
(* The keyboard *)

\* The elements of two sequences, one after the other.
LEMMA RangeConcat ==
  ASSUME NEW S, NEW s \in Seq(S), NEW t \in Seq(S)
  PROVE  Range(s \o t) = Range(s) \union Range(t)
<1>1. /\ Len(s) \in Nat /\ DOMAIN s = 1..Len(s)
      /\ Len(t) \in Nat /\ DOMAIN t = 1..Len(t)
  BY LenProperties
<1>2. /\ s \o t \in Seq(S) /\ Len(s \o t) = Len(s) + Len(t)
      /\ \A i \in 1..(Len(s) + Len(t)) :
           (s \o t)[i] = IF i <= Len(s) THEN s[i] ELSE t[i - Len(s)]
  BY ConcatProperties
<1> DEFINE u == s \o t
<1> HIDE DEF u
<1>3. DOMAIN u = 1..(Len(s) + Len(t))
  BY <1>2, LenProperties DEF u
<1>4. ASSUME NEW i \in DOMAIN u PROVE u[i] \in Range(s) \union Range(t)
  <2>1. CASE i <= Len(s)
    BY <1>1, <1>2, <1>3, <1>4, <2>1 DEF u, Range
  <2>2. CASE ~(i <= Len(s))
    <3>1. i - Len(s) \in DOMAIN t /\ u[i] = t[i - Len(s)]
      BY <1>1, <1>2, <1>3, <1>4, <2>2 DEF u
    <3> QED
      BY <3>1 DEF Range
  <2> QED
    BY <2>1, <2>2
<1>5. ASSUME NEW i \in DOMAIN s PROVE s[i] \in Range(u)
  <2>1. i \in DOMAIN u /\ u[i] = s[i]
    BY <1>1, <1>2, <1>3 DEF u
  <2> QED
    BY <2>1 DEF Range
<1>6. ASSUME NEW i \in DOMAIN t PROVE t[i] \in Range(u)
  <2>1. i + Len(s) \in DOMAIN u /\ u[i + Len(s)] = t[i]
    BY <1>1, <1>2, <1>3 DEF u
  <2> QED
    BY <2>1 DEF Range
<1> QED
  BY <1>4, <1>5, <1>6 DEF u, Range

\* A sequence of one element.
LEMMA OneElement ==
  ASSUME NEW S, NEW x \in S
  PROVE  <<x>> \in Seq(S) /\ Range(<<x>>) = {x} /\ Len(<<x>>) = 1
<1>1. <<x>> \in Seq(S) /\ Len(<<x>>) = 1 /\ <<x>>[1] = x
  OBVIOUS
<1>2. DOMAIN <<x>> = {1}
  OBVIOUS
<1> QED
  BY <1>1, <1>2 DEF Range

\* What the decoder makes of a byte that is not in a paste.
LEMMA DecodedKeys ==
  ASSUME NEW byte
  PROVE  /\ Range(Decoded(byte)) \subseteq {ESC, byte, "up", "down"}
         /\ Len(pending) < 2 /\ Rest(byte) = <<>> => byte \in Range(Decoded(byte))
<1> DEFINE S == {ESC, byte, "up", "down"}
           A == IF pending = <<ESC>> /\ byte \notin Openers THEN <<ESC>> ELSE <<>>
           B == IF Len(pending) < 2 /\ Rest(byte) = <<>> THEN <<byte>> ELSE <<>>
           C == IF pending \in {<<ESC, o>> : o \in Openers} /\ byte \in DOMAIN Arrow
                THEN <<Arrow[byte]>> ELSE <<>>
<1>1. A \in Seq(S)
  <2>1. <<>> \in Seq(S) /\ <<ESC>> \in Seq(S)
    BY OneElement, EmptySeq
  <2> QED
    BY <2>1
<1>2. B \in Seq(S)
  <2>1. <<>> \in Seq(S) /\ <<byte>> \in Seq(S)
    BY OneElement, EmptySeq
  <2> QED
    BY <2>1
<1>3. byte \in DOMAIN Arrow => Arrow[byte] \in S
  BY DEF Arrow
<1>4. C \in Seq(S)
  <2>1. <<>> \in Seq(S) /\ (byte \in DOMAIN Arrow => <<Arrow[byte]>> \in Seq(S))
    BY <1>3, OneElement, EmptySeq
  <2> QED
    BY <2>1
<1>5. Len(pending) < 2 /\ Rest(byte) = <<>> => byte \in Range(B)
  <2>1. byte \in Range(<<byte>>)
    BY OneElement
  <2> QED
    BY <2>1
<1>6. Decoded(byte) = (A \o B) \o C
  BY DEF Decoded
<1> HIDE DEF A, B, C, S
<1>7. A \o B \in Seq(S)
  BY <1>1, <1>2, ConcatProperties
<1>8. Range(Decoded(byte)) = (Range(A) \union Range(B)) \union Range(C)
  <2>1. Range(A \o B) = Range(A) \union Range(B)
    BY <1>1, <1>2, RangeConcat
  <2>2. Range((A \o B) \o C) = Range(A \o B) \union Range(C)
    BY <1>4, <1>7, RangeConcat
  <2> QED
    BY <1>6, <2>1, <2>2
<1>9. ASSUME NEW s \in Seq(S) PROVE Range(s) \subseteq S
  BY <1>9, LenProperties, ElementOfSeq DEF Range
<1> QED
  BY <1>1, <1>2, <1>4, <1>5, <1>8, <1>9 DEF S

\* So a byte in a paste is no key, and a byte that is not gives a quit key if
\* it is one; unless it belongs to a sequence, a quit key gives itself.
LEMMA QuitKeys ==
  ASSUME NEW byte
  PROVE  /\ Range(Pressed(byte)) \intersect Quits # {} => byte \in Quits /\ ~paste
         /\ byte \in Quits /\ ~paste /\ Len(pending) \in Nat /\ Len(pending) < 2 =>
              Range(Pressed(byte)) \intersect Quits # {}
<1>1. paste => Range(Pressed(byte)) = {}
  BY DEF Pressed, Range
<1>2. {ESC, "up", "down"} \intersect Quits = {}
  BY DEF ESC, Quits
<1>3. byte \in Quits /\ Len(pending) \in Nat /\ Len(pending) < 2 => Rest(byte) = <<>>
  <2>1. byte \in Quits => byte # ESC /\ byte \notin Openers
    BY DEF Quits, ESC, Openers
  <2>2. Len(pending) \in Nat /\ Len(pending) < 2 => ~(Len(pending) >= 2)
    OBVIOUS
  <2> QED
    BY <2>1, <2>2 DEF Rest
<1> QED
  BY <1>1, <1>2, <1>3, DecodedKeys DEF Pressed

\* Reading leaves the bytes that come after the first where they are, counted
\* from the last.
LEMMA TailBytes ==
  ASSUME NEW R, line \in Seq(R), line # <<>>, line' = Tail(line)
  PROVE  /\ Len(line) \in Nat \ {0} /\ line' \in Seq(R) /\ Len(line') = Len(line) - 1
         /\ Head(line) \in R /\ 1 \in DOMAIN line
         /\ Head(line) = line[1] /\ Head(line).byte = Before(Len(line) - 1)
         /\ \A k \in 0..(Len(line) - 2) : Before(k)' = Before(k)
         /\ \A i \in DOMAIN line' : i + 1 \in DOMAIN line /\ line'[i] = line[i + 1]
<1>1. /\ Len(line) \in Nat \ {0} /\ DOMAIN line = 1..Len(line)
  BY LenProperties, EmptySeq
<1>2. /\ line' \in Seq(R) /\ Len(line') = Len(line) - 1
      /\ \A i \in 1..Len(line') : line'[i] = line[i + 1]
      /\ Head(line) = line[1] /\ Head(line) \in R
  BY <1>1, HeadTailProperties
<1>3. DOMAIN line' = 1..Len(line')
  BY <1>2, LenProperties
<1>4. Head(line).byte = Before(Len(line) - 1)
  BY <1>1, <1>2 DEF Before
<1>5. ASSUME NEW k \in 0..(Len(line) - 2) PROVE Before(k)' = Before(k)
  <2>1. Len(line') - k \in 1..Len(line') /\ Len(line') - k + 1 = Len(line) - k
    BY <1>1, <1>2
  <2> QED
    BY <1>2, <2>1 DEF Before
<1> QED
  BY <1>1, <1>2, <1>3, <1>4, <1>5

\* How the decoder goes on between two sequences and within a marker, and what
\* ends a sequence in general.
LEMMA DecoderSteps ==
  ASSUME NEW byte, Len(pending) \in Nat
  PROVE  /\ Len(pending) < 2 /\ byte = ESC => Kept(byte) = {<<ESC>>}
         /\ pending = <<>> /\ byte # ESC => Kept(byte) = {<<>>}
         /\ pending = <<ESC>> /\ byte = "[" => Kept(byte) = {<<ESC, "[">>}
         /\ Len(pending) >= 2 /\ Final(byte) => Kept(byte) = {<<>>}
         /\ \A end : Ends(byte, end) => byte = end
         /\ pending # <<ESC, "[">> => \A end : ~Ends(byte, end)
         /\ pending = <<ESC, "[">> => \A end : Ends(byte, end) <=> byte = end
<1>1. /\ Len(<<>>) = 0 /\ Len(<<ESC>>) = 1 /\ Len(<<ESC, "[">>) = 2
      /\ <<>> # <<ESC>> /\ <<>> # <<ESC, "[">> /\ <<ESC>> # <<ESC, "[">>
  OBVIOUS
<1>2. ESC # "[" /\ "[" \in Openers
  BY DEF ESC, Openers
<1>3. Longest \in Nat /\ Longest >= 2
  BY SessionAssumption
<1>4. /\ Len(pending) < 2 /\ byte = ESC => Rest(byte) = <<ESC>>
      /\ pending = <<>> /\ byte # ESC => Rest(byte) = <<>>
      /\ pending = <<ESC>> /\ byte = "[" => Rest(byte) = <<ESC, "[">>
  BY <1>1, <1>2 DEF Rest
<1>5. Len(pending) >= 2 /\ Final(byte) => Rest(byte) = <<>>
  <2> DEFINE n == Len(pending)
  <2>1. n \in Nat /\ (pending = <<ESC>> => n = 1)
    BY <1>1
  <2> HIDE DEF n
  <2>2. n >= 2 => ~(n < 2) /\ pending # <<ESC>>
    BY <2>1
  <2> QED
    BY <2>2 DEF Rest, n
<1>6. ASSUME NEW r \in {<<>>, <<ESC>>, <<ESC, "[">>}, Rest(byte) = r
      PROVE  Kept(byte) = {r}
  <2> DEFINE n == Len(Rest(byte))
  <2>1. n \in {0, 1, 2}
    BY <1>1, <1>6
  <2> HIDE DEF n
  <2>2. ~(n > Longest)
    BY <1>3, <2>1
  <2>3. Kept(byte) = {Rest(byte)} \union {}
    BY <2>2, Zenon DEF Kept, n
  <2> QED
    BY <1>6, <2>3
<1>7. /\ Rest(byte) = <<>> => Kept(byte) = {<<>>}
      /\ Rest(byte) = <<ESC>> => Kept(byte) = {<<ESC>>}
      /\ Rest(byte) = <<ESC, "[">> => Kept(byte) = {<<ESC, "[">>}
  BY <1>6, Zenon
<1>8. /\ \A end : Ends(byte, end) => byte = end
      /\ pending # <<ESC, "[">> => \A end : ~Ends(byte, end)
      /\ pending = <<ESC, "[">> => \A end : Ends(byte, end) <=> byte = end
  BY Zenon DEF Ends
<1> QED
  BY <1>4, <1>5, <1>7, <1>8, Zenon

\* What is pending is made of bytes that were read.
LEMMA KeptBytes ==
  ASSUME pending \in Seq(BytesRead), NEW byte \in BytesRead, NEW rest \in Kept(byte)
  PROVE  rest \in Seq(BytesRead)
<1>1. ESC \in BytesRead
  BY DEF BytesRead
<1>2. <<>> \in Seq(BytesRead) /\ <<ESC>> \in Seq(BytesRead) /\ <<ESC, byte>> \in Seq(BytesRead)
  BY <1>1, EmptySeq
<1>3. Append(pending, byte) \in Seq(BytesRead)
  BY AppendProperties
<1>4. Rest(byte) \in Seq(BytesRead)
  BY <1>2, <1>3 DEF Rest
<1> QED
  BY <1>2, <1>4 DEF Kept

\* What is typed is a key and what is pasted a whole paste.
LEMMA KeyboardInput ==
  ASSUME KeyboardInv, Input
  PROVE  KeyboardInv'
<1> DEFINE Bytes == [byte : BytesRead, typed : BOOLEAN]
<1>1. line = <<>> /\ UNCHANGED <<pending, paste, quits, torn, cause>>
  BY DEF Input, ghosts
<1>2. Len(line) = 0
  BY <1>1
<1>3. torn \/ ~paste
  BY <1>2, SessionAssumption DEF KeyboardInv, KeyAhead, PasteAhead
<1>4. /\ pending' \in Seq(BytesRead) /\ torn' \in BOOLEAN
      /\ AfterQ' /\ OnlyTornPasteStops' /\ QuitHeard'
  BY <1>1 DEF KeyboardInv, AfterQ, OnlyTornPasteStops, QuitHeard
<1>5. CASE \E key \in Keys : line' = Mark(key, TRUE)
  <2>1. PICK key \in Keys : line' = Mark(key, TRUE)
    BY <1>5
  <2>2. key \in Seq(Range(key) \ Markers) /\ Len(key) \in Nat /\ DOMAIN key = 1..Len(key)
    BY SessionAssumption, LenProperties
  <2>3. \A i \in 1..Len(key) : key[i] \in BytesRead /\ key[i] \notin Markers
    BY <2>2, ElementOfSeq DEF BytesRead, Range
  <2>4. line' = [i \in 1..Len(key) |-> [byte |-> key[i], typed |-> TRUE]]
    BY <2>1, <2>2 DEF Mark
  <2>5. line' \in Seq(Bytes)
    BY <2>2, <2>3, <2>4
  <2>6. \A i \in DOMAIN line' : line'[i].typed /\ line'[i].byte \notin Markers
    BY <2>3, <2>4
  <2>7. torn' \/ KeyAhead'
    BY <1>1, <1>3, <2>6 DEF KeyAhead
  <2> QED
    BY <1>4, <2>5, <2>7 DEF KeyboardInv
<1>6. CASE \E text \in Texts : line' = Mark(Bracketed(text), FALSE)
  <2>1. PICK text \in Texts : line' = Mark(Bracketed(text), FALSE)
    BY <1>6
  <2> DEFINE Bs == Pasted
             a == <<ESC, "[", "200~">>
             z == <<ESC, "[", "201~">>
             B == {ESC, "["} \union Markers \union Pasted
             whole == Bracketed(text)
  <2>2. PICK m \in 0..MaxPaste : text \in [1..m -> Bs]
    BY <2>1 DEF Texts, BoundedSeq, SeqOf
  <2>3. m \in Nat /\ text \in Seq(B) /\ Len(text) = m /\ \A i \in 1..m : text[i] \in Bs
    BY <2>2, SessionAssumption
  <2>4. /\ a \in Seq(B) /\ Len(a) = 3 /\ a[1] = ESC /\ a[2] = "[" /\ a[3] = "200~"
        /\ z \in Seq(B) /\ Len(z) = 3 /\ z[1] = ESC /\ z[2] = "[" /\ z[3] = "201~"
    BY DEF Markers
  <2> HIDE DEF a, z, B, Bs
  <2>5. /\ a \o text \in Seq(B) /\ Len(a \o text) = m + 3
        /\ \A i \in 1..(m + 3) : (a \o text)[i] = IF i <= 3 THEN a[i] ELSE text[i - 3]
    <3>1. /\ a \o text \in Seq(B) /\ Len(a \o text) = Len(a) + Len(text)
          /\ \A i \in 1..(Len(a) + Len(text)) :
               (a \o text)[i] = IF i <= Len(a) THEN a[i] ELSE text[i - Len(a)]
      BY <2>3, <2>4, ConcatProperties
    <3>2. Len(a) + Len(text) = m + 3
      BY <2>3, <2>4
    <3> QED
      BY <2>4, <3>1, <3>2
  <2>6. whole = (a \o text) \o z
    BY DEF Bracketed, a, z
  <2> HIDE DEF whole
  <2>7. /\ whole \in Seq(B) /\ Len(whole) = m + 6
        /\ \A i \in 1..(m + 6) :
             whole[i] = IF i <= m + 3 THEN (a \o text)[i] ELSE z[i - (m + 3)]
    BY <2>3, <2>4, <2>5, <2>6, ConcatProperties
  <2>8. DOMAIN whole = 1..(m + 6) /\ \A i \in 1..(m + 6) : whole[i] \in B
    BY <2>3, <2>7, LenProperties, ElementOfSeq
  <2>9. line' = [i \in 1..(m + 6) |-> [byte |-> whole[i], typed |-> FALSE]]
    BY <2>1, <2>8 DEF Mark, whole
  <2>10. \A i \in 1..(m + 6) : line'[i].byte = whole[i] /\ ~line'[i].typed
    BY <2>9
  <2>11. line' \in Seq(Bytes) /\ Len(line') = m + 6 /\ DOMAIN line' = 1..(m + 6)
    <3>1. \A i \in 1..(m + 6) : [byte |-> whole[i], typed |-> FALSE] \in Bytes
      BY <2>8 DEF BytesRead, B
    <3> QED
      BY <2>3, <2>9, <3>1
  <2>12. \A k \in 0..(m + 5) : Before(k)' = whole[m + 6 - k]
    <3>1. \A k \in 0..(m + 5) : m + 6 - k \in 1..(m + 6)
      BY <2>3
    <3> QED
      BY <2>10, <2>11, <3>1 DEF Before
  <2>13. /\ Before(0)' = "201~" /\ Before(1)' = "[" /\ Before(2)' = ESC
         /\ Before(m + 3)' = "200~" /\ Before(m + 4)' = "[" /\ Before(m + 5)' = ESC
    <3>1. whole[m + 6] = "201~" /\ whole[m + 5] = "[" /\ whole[m + 4] = ESC
      BY <2>3, <2>4, <2>7
    <3>2. whole[3] = "200~" /\ whole[2] = "[" /\ whole[1] = ESC
      BY <2>3, <2>4, <2>5, <2>7
    <3> QED
      BY <2>3, <2>12, <3>1, <3>2
  <2>14. \A k \in 3..(m + 2) : Before(k)' \in Bs
    <3>1. ASSUME NEW k \in 3..(m + 2) PROVE whole[m + 6 - k] = text[m + 3 - k]
      <4>1. /\ m + 6 - k \in 1..(m + 6) /\ m + 6 - k <= m + 3
            /\ m + 6 - k \in 1..(m + 3) /\ ~(m + 6 - k <= 3) /\ (m + 6 - k) - 3 = m + 3 - k
        BY <2>3
      <4>2. whole[m + 6 - k] = (a \o text)[m + 6 - k]
        BY <2>7, <4>1
      <4> QED
        BY <2>5, <4>1, <4>2
    <3>2. \A k \in 3..(m + 2) : m + 3 - k \in 1..m /\ k \in 0..(m + 5)
      BY <2>3
    <3> QED
      BY <2>3, <2>12, <3>1, <3>2
  <2>15. ~paste => PasteAhead(m)'
    <3>1. Len(line') \in 1..(m + 6) /\ \A i \in DOMAIN line' : ~line'[i].typed
      BY <2>3, <2>10, <2>11
    <3>2. /\ ~(Len(line') <= m + 3) /\ Len(line') # 1 /\ Len(line') # 2
          /\ Len(line') # m + 4 /\ Len(line') # m + 5 /\ Len(line') \notin 3..(m + 3)
      BY <2>3, <2>11
    <3> QED
      BY <1>1, <2>13, <2>14, <3>1, <3>2 DEF PasteAhead, Bs
  <2> QED
    BY <1>1, <1>3, <1>4, <2>2, <2>11, <2>15 DEF KeyboardInv
<1> QED
  BY <1>5, <1>6 DEF Input

\* What a reading is: the first byte goes, and the rest stays.
LEMMA ReadStep ==
  ASSUME KeyboardInv, Read
  PROVE  /\ Len(pending) \in Nat /\ Len(line) \in Nat \ {0} /\ Len(line') = Len(line) - 1
         /\ line' \in Seq([byte : BytesRead, typed : BOOLEAN])
         /\ pending' \in Seq(BytesRead) /\ pending' \in Kept(Head(line).byte)
         /\ Head(line).typed \in BOOLEAN /\ torn' \in BOOLEAN
         /\ 1 \in DOMAIN line /\ Head(line) = line[1]
         /\ Head(line).byte = Before(Len(line) - 1)
         /\ \A k \in 0..(Len(line) - 2) : Before(k)' = Before(k)
         /\ \A i \in DOMAIN line' : i + 1 \in DOMAIN line /\ line'[i] = line[i + 1]
<1> DEFINE Bytes == [byte : BytesRead, typed : BOOLEAN]
<1>1. /\ line \in Seq(Bytes) /\ line # <<>> /\ line' = Tail(line)
      /\ pending \in Seq(BytesRead) /\ pending' \in Kept(Head(line).byte)
      /\ torn \in BOOLEAN /\ torn' = (torn \/ Tears(Head(line)))
  BY DEF KeyboardInv, Read
<1>2. Len(pending) \in Nat
  BY <1>1, LenProperties
<1> HIDE DEF Bytes
<1>3. /\ Len(line) \in Nat \ {0} /\ line' \in Seq(Bytes) /\ Len(line') = Len(line) - 1
      /\ Head(line) \in Bytes /\ 1 \in DOMAIN line /\ Head(line) = line[1]
      /\ Head(line).byte = Before(Len(line) - 1)
      /\ \A k \in 0..(Len(line) - 2) : Before(k)' = Before(k)
      /\ \A i \in DOMAIN line' : i + 1 \in DOMAIN line /\ line'[i] = line[i + 1]
  BY <1>1, TailBytes
<1>4. Head(line).byte \in BytesRead /\ Head(line).typed \in BOOLEAN
  BY <1>3 DEF Bytes
<1>5. pending' \in Seq(BytesRead)
  BY <1>1, <1>4, KeptBytes
<1>6. torn' \in BOOLEAN
  BY <1>1 DEF Tears
<1> QED
  BY <1>1, <1>2, <1>3, <1>4, <1>5, <1>6 DEF Bytes

\* What a byte does to the ghosts and to the cause, whatever is left to read.
LEMMA ReadGhosts ==
  ASSUME KeyboardInv, Read,
         torn \/ KeyAhead \/ (Head(line).byte \in Quits => paste /\ ~Head(line).typed)
  PROVE  AfterQ' /\ OnlyTornPasteStops' /\ QuitHeard'
<1> DEFINE b == Head(line)
<1>1. /\ quits' = QuitsAfter(b) /\ torn' = (torn \/ Tears(b)) /\ pending' \in Kept(b.byte)
      /\ cause' = IF cause = "none" /\ Range(Pressed(b.byte)) \intersect Quits # {} THEN "key" ELSE cause
  BY DEF Read
<1>2. /\ Len(pending) \in Nat /\ b.typed \in BOOLEAN /\ 1 \in DOMAIN line /\ b = line[1]
      /\ torn \in BOOLEAN
  BY ReadStep DEF KeyboardInv
<1>3. AfterQ /\ OnlyTornPasteStops /\ QuitHeard
  BY DEF KeyboardInv
<1>4. KeyAhead => b.typed /\ ~paste
  BY <1>2 DEF KeyAhead
<1> HIDE DEF b
<1>5. ASSUME IsQuit(b)
      PROVE  torn \/ (b.typed /\ ~paste /\ b.byte \in Quits)
  BY <1>4, <1>5 DEF IsQuit, b
<1>6. ASSUME IsDue(b)
      PROVE  torn \/ Range(Pressed(b.byte)) \intersect Quits # {}
  <2>1. Len(pending) < 2
    <3>1. Len(<<>>) = 0
      OBVIOUS
    <3> QED
      BY <1>3, <1>6, <3>1 DEF IsDue, AfterQ
  <2>2. IsQuit(b)
    BY <1>6 DEF IsDue
  <2> QED
    BY <1>2, <1>5, <2>1, <2>2, QuitKeys
<1>7. AfterQ'
  <2> SUFFICES ASSUME quits' = "q" PROVE pending' = <<>>
    BY DEF AfterQ
  <2>1. IsQuit(b) /\ ~IsDue(b) /\ b.byte = "q"
    BY <1>1 DEF QuitsAfter
  <2>2. Len(pending) >= 2
    BY <1>2, <2>1 DEF IsDue
  <2>3. Final("q")
    BY DEF Final, ESC
  <2> QED
    BY <1>1, <1>2, <2>1, <2>2, <2>3, DecoderSteps
<1>8. OnlyTornPasteStops'
  <2> SUFFICES ASSUME cause' = "key", ~torn' PROVE quits' # "none"
    BY DEF OnlyTornPasteStops
  <2>1. ~torn
    BY <1>1
  <2>2. CASE cause = "key"
    <3>1. quits # "none"
      BY <1>3, <2>1, <2>2 DEF OnlyTornPasteStops
    <3> QED
      BY <1>1, <3>1 DEF QuitsAfter
  <2>3. CASE cause # "key"
    <3>1. Range(Pressed(b.byte)) \intersect Quits # {}
      BY <1>1, <2>3
    <3>2. b.byte \in Quits /\ ~paste
      BY <3>1, QuitKeys
    <3>3. b.typed
      BY <1>4, <2>1, <3>2 DEF b
    <3>4. IsQuit(b)
      BY <3>2, <3>3 DEF IsQuit
    <3> QED
      BY <1>1, <3>4 DEF QuitsAfter
  <2> QED
    BY <2>2, <2>3
<1>9. QuitHeard'
  <2> SUFFICES ASSUME quits' = "due", ~torn' PROVE cause' # "none"
    BY DEF QuitHeard
  <2>1. ~torn
    BY <1>1
  <2>2. quits = "due" \/ IsDue(b)
    BY <1>1 DEF QuitsAfter
  <2>3. CASE quits = "due"
    <3>1. cause # "none"
      BY <1>3, <2>1, <2>3 DEF QuitHeard
    <3> QED
      BY <1>1, <3>1
  <2>4. CASE IsDue(b)
    BY <1>1, <1>6, <2>1, <2>4
  <2> QED
    BY <2>2, <2>3, <2>4
<1> QED
  BY <1>7, <1>8, <1>9

\* A byte of a key neither begins nor ends a paste.
LEMMA KeyboardReadsKey ==
  ASSUME KeyboardInv, KeyAhead, Read
  PROVE  KeyboardInv'
<1>1. /\ line' \in Seq([byte : BytesRead, typed : BOOLEAN])
      /\ pending' \in Seq(BytesRead) /\ torn' \in BOOLEAN
      /\ Len(pending) \in Nat /\ 1 \in DOMAIN line /\ Head(line) = line[1]
      /\ \A i \in DOMAIN line' : i + 1 \in DOMAIN line /\ line'[i] = line[i + 1]
  BY ReadStep
<1>2. Head(line).byte \notin Markers /\ ~paste
  BY <1>1 DEF KeyAhead
<1>3. ~paste'
  BY <1>1, <1>2, DecoderSteps DEF Read, PasteAfter, Markers
<1>4. KeyAhead'
  BY <1>1, <1>3 DEF KeyAhead
<1> QED
  BY <1>1, <1>4, ReadGhosts DEF KeyboardInv

\* A byte of a pasted text: between the markers nothing is a key, and the markers
\* themselves are none, unless one is torn.
LEMMA KeyboardReadsPaste ==
  ASSUME KeyboardInv, NEW m \in 0..MaxPaste, PasteAhead(m), Read
  PROVE  KeyboardInv'
<1> DEFINE b == Head(line)
           n == Len(line)
<1>1. m \in Nat /\ ESC \notin Pasted /\ Len(pending) \in Nat
  BY SessionAssumption, ReadStep
<1>2. /\ n \in Nat \ {0} /\ Len(line') = n - 1
      /\ 1 \in DOMAIN line /\ b = line[1] /\ b.byte = Before(n - 1)
      /\ \A k \in 0..(n - 2) : Before(k)' = Before(k)
      /\ \A i \in DOMAIN line' : i + 1 \in DOMAIN line /\ line'[i] = line[i + 1]
  BY ReadStep
<1>3. pending' \in Kept(b.byte) /\ paste' = PasteAfter(b.byte) /\ torn' = (torn \/ Tears(b))
  BY DEF Read
<1>4. ~b.typed /\ \A i \in DOMAIN line' : ~line'[i].typed
  BY <1>2 DEF PasteAhead
<1>5. n \in 1..(m + 6) /\ (paste <=> n <= m + 3)
  BY DEF PasteAhead
<1>6. ASSUME NEW k \in 0..(n - 1)
      PROVE  /\ k = 0 => Before(k) = "201~"
             /\ k \in {1, m + 4} => Before(k) = "["
             /\ k \in {2, m + 5} => Before(k) = ESC
             /\ k = m + 3 => Before(k) = "200~"
             /\ k \in 3..(m + 2) => Before(k) \in Pasted
  BY DEF PasteAhead
<1>7. /\ n \in {2, m + 5} => pending = <<ESC>>
      /\ n \in {1, m + 4} => pending = <<ESC, "[">>
      /\ n \in 3..(m + 3) => pending = <<>>
  BY DEF PasteAhead
<1>8. Len(<<>>) = 0 /\ Len(<<ESC>>) = 1 /\ Len(<<ESC, "[">>) = 2
  OBVIOUS
<1> HIDE DEF b, n
<1>9. ~paste => b.byte \notin Quits
  <2>1. ~paste => n \in {m + 4, m + 5, m + 6}
    BY <1>1, <1>5
  <2>2. n - 1 \in 0..(n - 1)
    BY <1>2
  <2>3. /\ n = m + 4 => b.byte = "200~"
        /\ n = m + 5 => b.byte = "["
        /\ n = m + 6 => b.byte = ESC
    BY <1>1, <1>2, <1>6, <2>2
  <2> QED
    BY <2>1, <2>3 DEF Quits, ESC
<1>10. /\ AfterQ' /\ OnlyTornPasteStops' /\ QuitHeard'
       /\ line' \in Seq([byte : BytesRead, typed : BOOLEAN])
       /\ pending' \in Seq(BytesRead) /\ torn' \in BOOLEAN
  BY <1>4, <1>9, ReadStep, ReadGhosts DEF b
<1>11. /\ ESC # "[" /\ ESC # "200~" /\ ESC # "201~"
       /\ Final("200~") /\ Final("201~")
  BY DEF ESC, Final
<1>12. ASSUME n > 1
       PROVE  torn' \/ PasteAhead(m)'
  <2>1. Len(line') \in 1..(m + 6) /\ \A i \in DOMAIN line' : ~line'[i].typed
    BY <1>1, <1>2, <1>4, <1>5, <1>12
  <2>2. \A k \in 0..(Len(line') - 1) : k \in 0..(n - 1) /\ Before(k)' = Before(k)
    BY <1>2
  <2>3. n - 1 \in 0..(n - 1)
    BY <1>2
  <2>4. CASE n = m + 6
    <3>1. b.byte = ESC
      BY <1>1, <1>2, <1>6, <2>3, <2>4
    <3>2. CASE Len(pending) >= 2
      BY <1>3, <1>4, <3>1, <3>2 DEF Tears
    <3>3. CASE Len(pending) < 2
      <4>1. pending' = <<ESC>> /\ (paste' <=> paste)
        <5>1. pending # <<ESC, "[">>
          BY <1>8, <3>3
        <5> QED
          BY <1>1, <1>3, <3>1, <3>3, <5>1, DecoderSteps DEF PasteAfter
      <4>2. Len(line') = m + 5 /\ ~paste
        BY <1>1, <1>2, <1>5, <2>4
      <4>3. /\ ~(m + 5 <= m + 3) /\ m + 5 # 1 /\ m + 5 # m + 4 /\ m + 5 \notin 3..(m + 3)
        BY <1>1
      <4> QED
        BY <1>6, <2>1, <2>2, <4>1, <4>2, <4>3 DEF PasteAhead
    <3> QED
      BY <1>1, <3>2, <3>3
  <2>5. CASE n = m + 5
    <3>1. b.byte = "[" /\ pending = <<ESC>>
      BY <1>1, <1>2, <1>6, <1>7, <2>3, <2>5
    <3>2. pending' = <<ESC, "[">> /\ (paste' <=> paste)
      <4>1. pending # <<ESC, "[">>
        BY <1>8, <3>1
      <4> QED
        BY <1>1, <1>3, <3>1, <4>1, DecoderSteps DEF PasteAfter
    <3>3. Len(line') = m + 4 /\ ~paste
      BY <1>1, <1>2, <1>5, <2>5
    <3>4. /\ ~(m + 4 <= m + 3) /\ m + 4 # 2 /\ m + 4 # m + 5 /\ m + 4 \notin 3..(m + 3)
      BY <1>1
    <3> QED
      BY <1>6, <2>1, <2>2, <3>2, <3>3, <3>4 DEF PasteAhead
  <2>6. CASE n = m + 4
    <3>1. b.byte = "200~" /\ pending = <<ESC, "[">>
      BY <1>1, <1>2, <1>6, <1>7, <2>3, <2>6
    <3>2. pending' = <<>> /\ paste'
      <4>1. Len(pending) >= 2
        BY <1>8, <3>1
      <4> QED
        BY <1>1, <1>3, <1>11, <3>1, <4>1, DecoderSteps DEF PasteAfter
    <3>3. Len(line') = m + 3
      BY <1>1, <1>2, <2>6
    <3>4. /\ m + 3 <= m + 3 /\ m + 3 # 2 /\ m + 3 # 1 /\ m + 3 # m + 4 /\ m + 3 # m + 5
      BY <1>1
    <3> QED
      BY <1>6, <2>1, <2>2, <3>2, <3>3, <3>4 DEF PasteAhead
  <2>7. CASE n \in 4..(m + 3)
    <3>1. b.byte # ESC /\ pending = <<>>
      <4>1. n - 1 \in 3..(m + 2) \/ n - 1 = m + 3
        BY <1>1, <2>7
      <4>2. n \in 3..(m + 3)
        BY <1>1, <2>7
      <4> QED
        BY <1>1, <1>2, <1>6, <1>7, <1>11, <2>3, <4>1, <4>2
    <3>2. paste
      BY <1>1, <1>5, <2>7
    <3>3. pending' = <<>> /\ paste'
      <4>1. pending # <<ESC, "[">>
        BY <1>8, <3>1
      <4> QED
        BY <1>1, <1>3, <3>1, <3>2, <4>1, DecoderSteps DEF PasteAfter
    <3>4. Len(line') \in 3..(m + 2)
      BY <1>1, <1>2, <2>7
    <3>5. ASSUME NEW x \in 3..(m + 2)
          PROVE x <= m + 3 /\ x # 2 /\ x # 1 /\ x # m + 4 /\ x # m + 5
      BY <1>1
    <3> QED
      BY <1>6, <2>1, <2>2, <3>3, <3>4, <3>5 DEF PasteAhead
  <2>8. CASE n = 3
    <3>1. b.byte = ESC /\ pending = <<>> /\ paste
      <4>1. n \in 3..(m + 3) /\ n <= m + 3
        BY <1>1, <2>8
      <4> QED
        BY <1>2, <1>5, <1>6, <1>7, <2>3, <2>8, <4>1
    <3>2. pending' = <<ESC>> /\ paste'
      <4>1. pending # <<ESC, "[">> /\ Len(pending) < 2
        BY <1>8, <3>1
      <4> QED
        BY <1>1, <1>3, <3>1, <4>1, DecoderSteps DEF PasteAfter
    <3>3. Len(line') = 2
      BY <1>2, <2>8
    <3>4. 2 <= m + 3 /\ 2 # 1 /\ 2 # m + 4 /\ 2 \notin 3..(m + 3)
      BY <1>1
    <3> QED
      BY <1>6, <2>1, <2>2, <3>2, <3>3, <3>4 DEF PasteAhead
  <2>9. CASE n = 2
    <3>1. b.byte = "[" /\ pending = <<ESC>> /\ paste
      <4>1. n <= m + 3
        BY <1>1, <2>9
      <4> QED
        BY <1>2, <1>5, <1>6, <1>7, <2>3, <2>9, <4>1
    <3>2. pending' = <<ESC, "[">> /\ paste'
      <4>1. pending # <<ESC, "[">>
        BY <1>8, <3>1
      <4> QED
        BY <1>1, <1>3, <3>1, <4>1, DecoderSteps DEF PasteAfter
    <3>3. Len(line') = 1
      BY <1>2, <2>9
    <3>4. 1 <= m + 3 /\ 1 # 2 /\ 1 # m + 5 /\ 1 \notin 3..(m + 3)
      BY <1>1
    <3> QED
      BY <1>6, <2>1, <2>2, <3>2, <3>3, <3>4 DEF PasteAhead
  <2>10. n \in {m + 6, m + 5, m + 4, 2, 3} \union 4..(m + 3)
    BY <1>1, <1>5, <1>12
  <2> QED
    BY <2>4, <2>5, <2>6, <2>7, <2>8, <2>9, <2>10
<1>13. ASSUME n = 1
       PROVE  KeyAhead'
  <2>1. b.byte = "201~" /\ pending = <<ESC, "[">> /\ Len(line') = 0
    BY <1>2, <1>6, <1>7, <1>13
  <2>2. ~paste'
    BY <1>1, <1>3, <2>1, DecoderSteps DEF PasteAfter
  <2>3. DOMAIN line' = {}
    BY <1>10, <2>1, LenProperties
  <2> QED
    BY <2>2, <2>3 DEF KeyAhead
<1>14. n > 1 \/ n = 1
  BY <1>5
<1> QED
  BY <1>10, <1>12, <1>13, <1>14 DEF KeyboardInv

\* A torn marker is known, so that nothing else matters.
LEMMA KeyboardReadsTorn ==
  ASSUME KeyboardInv, torn, Read
  PROVE  KeyboardInv'
<1>1. torn'
  BY DEF Read
<1> QED
  BY <1>1, ReadStep, ReadGhosts DEF KeyboardInv

\* A tick flushes an ESC that is a key, or tears a marker.
LEMMA KeyboardFlush ==
  ASSUME KeyboardInv, FlushEscape
  PROVE  KeyboardInv'
<1>1. /\ pending = <<ESC>> /\ pending' = <<>> /\ UNCHANGED <<line, paste, quits, cause>>
      /\ torn' = (torn \/ (line # <<>> /\ Head(line) = [byte |-> "[", typed |-> FALSE]))
  BY DEF FlushEscape
<1>2. pending' \in Seq(BytesRead) /\ torn' \in BOOLEAN
  BY <1>1, EmptySeq
<1>3. AfterQ' /\ OnlyTornPasteStops' /\ QuitHeard'
  BY <1>1 DEF KeyboardInv, AfterQ, OnlyTornPasteStops, QuitHeard
<1>4. KeyAhead => KeyAhead'
  BY <1>1 DEF KeyAhead
<1>5. ASSUME NEW m \in 0..MaxPaste, PasteAhead(m)
      PROVE  torn' \/ PasteAhead(m)'
  <2>1. m \in Nat /\ Len(line) \in 1..(m + 6)
    BY <1>5, SessionAssumption DEF PasteAhead
  <2>2. Len(line) \in {2, m + 5, m + 6}
    <3> DEFINE n == Len(line)
    <3>1. n \notin {1, m + 4} /\ n \notin 3..(m + 3)
      <4>1. <<ESC>> # <<>> /\ <<ESC>> # <<ESC, "[">>
        OBVIOUS
      <4> QED
        BY <1>1, <1>5, <4>1, Zenon DEF PasteAhead
    <3>2. n \in 1..(m + 6)
      BY <2>1
    <3> HIDE DEF n
    <3>3. n \in {2, m + 5, m + 6}
      BY <2>1, <3>1, <3>2
    <3> QED
      BY <3>3 DEF n
  <2>3. CASE Len(line) \in {2, m + 5}
    <3>1. /\ line \in Seq([byte : BytesRead, typed : BOOLEAN])
          /\ line # <<>> /\ 1 \in DOMAIN line
      BY <2>1, EmptySeq, LenProperties DEF KeyboardInv
    <3>2. Head(line) = line[1] /\ Head(line) \in [byte : BytesRead, typed : BOOLEAN]
      <4> DEFINE Bytes == [byte : BytesRead, typed : BOOLEAN]
      <4>1. line \in Seq(Bytes) /\ line # <<>>
        BY <3>1
      <4> HIDE DEF Bytes
      <4>2. Head(line) = line[1] /\ Head(line) \in Bytes
        BY <4>1, HeadTailProperties
      <4> QED
        BY <4>2 DEF Bytes
    <3>3. ~Head(line).typed
      BY <1>5, <3>1, <3>2, Zenon DEF PasteAhead
    <3>4. Head(line).byte = "["
      <4>1. /\ Len(line) - 1 \in 0..(Len(line) - 1) /\ Len(line) - 1 \in {1, m + 4}
            /\ Len(line) - (Len(line) - 1) = 1
        BY <2>1, <2>3
      <4>2. Before(Len(line) - 1) = "["
        BY <1>5, <4>1 DEF PasteAhead
      <4> QED
        BY <3>2, <4>1, <4>2 DEF Before
    <3>5. Head(line) = [byte |-> "[", typed |-> FALSE]
      BY <3>2, <3>3, <3>4
    <3> QED
      BY <1>1, <3>1, <3>5
  <2>4. CASE Len(line) = m + 6
    <3>1. Len(line) # 2 /\ Len(line) # m + 5 /\ Len(line) # 1 /\ Len(line) # m + 4 /\ Len(line) \notin 3..(m + 3)
      BY <2>1, <2>4
    <3> QED
      BY <1>1, <1>5, <3>1 DEF PasteAhead, Before
  <2> QED
    BY <2>2, <2>3, <2>4
<1> QED
  BY <1>1, <1>2, <1>3, <1>4, <1>5 DEF KeyboardInv

LEMMA KeyboardInit ==
  Init => KeyboardInv
<1> SUFFICES ASSUME Init PROVE KeyboardInv
  OBVIOUS
<1>1. line = <<>> /\ DOMAIN line = {} /\ pending = <<>>
  BY DEF Init
<1>2. line \in Seq([byte : BytesRead, typed : BOOLEAN]) /\ pending \in Seq(BytesRead)
  BY <1>1, EmptySeq
<1>3. KeyAhead
  BY <1>1 DEF Init, KeyAhead
<1> QED
  BY <1>2, <1>3 DEF Init, KeyboardInv, AfterQ, OnlyTornPasteStops, QuitHeard

LEMMA KeyboardStep ==
  ASSUME KeyboardInv, [Next]_vars
  PROVE  KeyboardInv'
<1>1. CASE Input
  BY <1>1, KeyboardInput
<1>2. CASE Read
  BY <1>2, KeyboardReadsKey, KeyboardReadsPaste, KeyboardReadsTorn DEF KeyboardInv
<1>3. CASE FlushEscape
  BY <1>3, KeyboardFlush
<1>4. CASE Signal \/ HangUp \/ SeeHangUp \/ ScanReturns \/ Leave \/ UNCHANGED vars
  <2>1. /\ UNCHANGED <<line, pending, paste, quits, torn>>
        /\ cause' = cause \/ cause' \in {"signal", "terminal"}
    BY <1>4 DEF Signal, HangUp, SeeHangUp, ScanReturns, Leave, vars, ghosts
  <2>2. KeyAhead' <=> KeyAhead
    BY <2>1 DEF KeyAhead
  <2>3. \A m \in 0..MaxPaste : PasteAhead(m) => PasteAhead(m)'
    BY <2>1 DEF PasteAhead, Before
  <2>4. AfterQ' /\ OnlyTornPasteStops' /\ QuitHeard'
    BY <2>1 DEF KeyboardInv, AfterQ, OnlyTornPasteStops, QuitHeard
  <2> QED
    BY <2>1, <2>2, <2>3, <2>4 DEF KeyboardInv
<1> QED
  BY <1>1, <1>2, <1>3, <1>4 DEF Next

\* The dashboard's steps are steps of its session: the reports, the log and the
\* screen leave the decoder and the scan's end alone.
THEOREM DashboardIsSession == DashSpec => Spec
<1>1. DashInit => Init
  BY DEF DashInit
<1>2. [DashNext]_dashVars => [Next]_vars
  <2>1. Starting \/ Discovered \/ Decided \/ Closed => UNCHANGED vars
    BY DEF Starting, Discovered, Decided, Closed, Report
  <2>2. AddActivity \/ Continue \/ Draw => UNCHANGED vars
    BY DEF AddActivity, Continue, Logged, Draw
  <2>3. ReadKeys \/ FlushKey \/ SessionStep => Next
    BY DEF ReadKeys, FlushKey, SessionStep, Next
  <2>4. UNCHANGED dashVars => UNCHANGED vars
    BY DEF dashVars
  <2> QED
    BY <2>1, <2>2, <2>3, <2>4 DEF DashNext
<1> QED
  BY <1>1, <1>2, PTL DEF DashSpec, Spec

\* What the decoder waits for, wherever the terminal pauses.
THEOREM KeyboardCorrect == Spec => []KeyboardInv
<1>1. KeyboardInv /\ [Next]_vars => KeyboardInv'
  BY KeyboardStep
<1> QED
  BY <1>1, KeyboardInit, PTL DEF Spec

\* What is pasted stops the dashboard only when a marker was torn, whatever the
\* keys and the texts are (terminal.go:96, 110-125).
THEOREM OnlyTornPasteStopsCorrect == DashSpec => []OnlyTornPasteStops
<1>1. KeyboardInv => OnlyTornPasteStops
  BY DEF KeyboardInv
<1> QED
  BY <1>1, DashboardIsSession, KeyboardCorrect, PTL

\* A quit key between two sequences, and the second of two in any case, is heard
\* as long as no marker was torn, whatever was typed and pasted before.
THEOREM QuitHeardCorrect == DashSpec => []QuitHeard
<1>1. KeyboardInv => QuitHeard
  BY DEF KeyboardInv
<1> QED
  BY <1>1, DashboardIsSession, KeyboardCorrect, PTL

-----------------------------------------------------------------------------
(* The reports *)

\* The latest n of a list, oldest first.
LEMMA NewestOf ==
  ASSUME NEW S, NEW s \in Seq(S), NEW n \in Nat
  PROVE  /\ AtMost(n, Len(s)) \in 0..Len(s)
         /\ Newest(s, n) \in Seq(S) /\ Len(Newest(s, n)) = AtMost(n, Len(s))
         /\ DOMAIN Newest(s, n) = 1..AtMost(n, Len(s))
         /\ \A i \in 1..AtMost(n, Len(s)) :
              /\ Len(s) - AtMost(n, Len(s)) + i \in 1..Len(s)
              /\ Newest(s, n)[i] = s[Len(s) - AtMost(n, Len(s)) + i]
<1> DEFINE l == Len(s)
           a == AtMost(n, l)
<1>1. l \in Nat
  BY LenProperties
<1>2. a \in 0..l
  BY <1>1 DEF AtMost
<1> HIDE DEF l, a
<1>3. /\ l - a + 1 \in 1..(l + 1) /\ l \in (l - a + 1 - 1)..l
      /\ l - (l - a + 1) + 1 = a
      /\ \A i \in 1..a : (l - a + 1) + i - 1 = l - a + i /\ l - a + i \in 1..l
  BY <1>1, <1>2
<1>4. Newest(s, n) = SubSeq(s, l - a + 1, l)
  BY DEF Newest, l, a
<1>5. /\ Newest(s, n) \in Seq(S) /\ Len(Newest(s, n)) = a
      /\ \A i \in 1..a : Newest(s, n)[i] = s[l - a + i]
  <2>1. CASE a = 0
    <3>1. l - a + 1 > l
      BY <1>1, <1>2, <2>1
    <3>2. Newest(s, n) = <<>>
      BY <1>1, <1>3, <1>4, <3>1, SubSeqEmpty
    <3> QED
      BY <2>1, <3>2, EmptySeq
  <2>2. CASE a # 0
    <3>1. l - a + 1 <= l
      BY <1>1, <1>2, <2>2
    <3> QED
      BY <1>1, <1>3, <1>4, <3>1, SubSeqProperties DEF l
  <2> QED
    BY <2>1, <2>2
<1> QED
  BY <1>1, <1>2, <1>3, <1>5, LenProperties DEF l, a

\* The place of a proposal in a report says its number.
LEMMA NewestNumbered ==
  ASSUME NEW s \in Seq(Proposals), Numbered(s), NEW n \in Nat
  PROVE  \A i \in DOMAIN Newest(s, n) :
           /\ Newest(s, n)[i].id = Len(s) - AtMost(n, Len(s)) + i
           /\ Newest(s, n)[i] = s[Newest(s, n)[i].id]
           /\ Newest(s, n)[i].id \in 1..Len(s)
<1>1. DOMAIN s = 1..Len(s)
  BY LenProperties
<1>2. \A j \in 1..Len(s) : s[j].id = j
  BY <1>1 DEF Numbered
<1>3. ASSUME NEW i \in DOMAIN Newest(s, n)
      PROVE  /\ Len(s) - AtMost(n, Len(s)) + i \in 1..Len(s)
             /\ Newest(s, n)[i] = s[Len(s) - AtMost(n, Len(s)) + i]
  BY NewestOf
<1> QED
  BY <1>2, <1>3

\* What a report changes: nothing that is saved is lost or renumbered.
LEMMA ReportStep ==
  ASSUME ReportsInv, Starting \/ Discovered \/ Decided \/ Closed
  PROVE  /\ {completed', candidates'} \subseteq Seq(Proposals)
         /\ Numbered(completed' \o candidates')
         /\ Len(completed \o candidates) <= Len(completed' \o candidates')
         /\ initial = None => UNCHANGED <<completed, candidates>>
         /\ findings' = Latest(completed', candidates') /\ initial' = FirstReport(findings')
         /\ ui' = [ui EXCEPT !.selected = Reselected(findings')]
         /\ UNCHANGED <<vars, log, start>>
<1> DEFINE all == completed \o candidates
<1>1. completed \in Seq(Proposals) /\ candidates \in Seq(Proposals)
  BY DEF ReportsInv
<1>2. /\ Len(completed) \in Nat /\ DOMAIN completed = 1..Len(completed)
      /\ Len(candidates) \in Nat /\ DOMAIN candidates = 1..Len(candidates)
  BY <1>1, LenProperties
<1>3. /\ all \in Seq(Proposals) /\ Len(all) = Len(completed) + Len(candidates)
      /\ \A i \in 1..(Len(completed) + Len(candidates)) :
           all[i] = IF i <= Len(completed) THEN completed[i] ELSE candidates[i - Len(completed)]
  BY <1>1, ConcatProperties
<1>4. \A i \in 1..(Len(completed) + Len(candidates)) : all[i].id = i
  BY <1>3, LenProperties DEF ReportsInv, Numbered
<1>5. /\ \A i \in 1..Len(completed) : completed[i] \in Proposals /\ completed[i].id = i
      /\ \A i \in 1..Len(candidates) :
           candidates[i] \in Proposals /\ candidates[i].id = Len(completed) + i
  <2>1. ASSUME NEW i \in 1..Len(completed) PROVE completed[i].id = i
    <3>1. i \in 1..(Len(completed) + Len(candidates)) /\ i <= Len(completed)
      BY <1>2
    <3> QED
      BY <1>3, <1>4, <3>1
  <2>2. ASSUME NEW i \in 1..Len(candidates) PROVE candidates[i].id = Len(completed) + i
    <3>1. /\ Len(completed) + i \in 1..(Len(completed) + Len(candidates))
          /\ ~(Len(completed) + i <= Len(completed)) /\ (Len(completed) + i) - Len(completed) = i
      BY <1>2
    <3> QED
      BY <1>3, <1>4, <3>1
  <2> QED
    BY <1>1, <1>2, <2>1, <2>2, ElementOfSeq
<1> HIDE DEF all
\* A list that continues the numbers of one that is saved.
<1>6. ASSUME NEW c \in Seq(Proposals), NEW s \in Seq(Proposals),
             \A i \in 1..Len(c) : c[i].id = i,
             \A i \in 1..Len(s) : s[i].id = Len(c) + i
      PROVE  Numbered(c \o s) /\ Len(c \o s) = Len(c) + Len(s)
  <2>1. Len(c) \in Nat /\ Len(s) \in Nat
    BY LenProperties
  <2>2. /\ c \o s \in Seq(Proposals) /\ Len(c \o s) = Len(c) + Len(s)
        /\ \A i \in 1..(Len(c) + Len(s)) : (c \o s)[i] = IF i <= Len(c) THEN c[i] ELSE s[i - Len(c)]
    BY ConcatProperties
  <2>3. DOMAIN (c \o s) = 1..(Len(c) + Len(s))
    BY <2>2, LenProperties
  <2>4. ASSUME NEW i \in 1..(Len(c) + Len(s)) PROVE (c \o s)[i].id = i
    <3>1. CASE i <= Len(c)
      BY <1>6, <2>1, <2>2, <3>1
    <3>2. CASE ~(i <= Len(c))
      <4>1. i - Len(c) \in 1..Len(s) /\ Len(c) + (i - Len(c)) = i
        BY <2>1, <3>2
      <4> QED
        BY <1>6, <2>2, <3>2, <4>1
    <3> QED
      BY <3>1, <3>2
  <2> QED
    BY <2>2, <2>3, <2>4 DEF Numbered
<1>7. CASE Starting
  BY <1>3, <1>7 DEF ReportsInv, Starting, Report, all
<1>8. CASE Discovered
  <2>1. candidates = <<>> /\ initial # None
    BY <1>8 DEF Discovered
  <2>2. PICK n \in 1..(MaxProposals - Len(completed)) :
          Report(completed, [i \in 1..n |-> Proposal(Len(completed) + i, "pending")])
    BY <1>8 DEF Discovered
  <2> DEFINE s == [i \in 1..n |-> Proposal(Len(completed) + i, "pending")]
  <2>3. n \in Nat /\ \A i \in 1..n : s[i] \in Proposals /\ s[i].id = Len(completed) + i
    BY <1>2, DashboardAssumption DEF Proposal, Proposals
  <2>4. s \in Seq(Proposals) /\ Len(s) = n
    BY <2>3
  <2>5. completed' = completed /\ candidates' = s
    BY <2>2 DEF Report
  <2> HIDE DEF s
  <2>6. Numbered(completed \o s) /\ Len(completed \o s) = Len(completed) + Len(s)
    BY <1>1, <1>5, <1>6, <2>3, <2>4
  <2>7. Len(candidates) = 0
    BY <2>1
  <2>8. Len(all) <= Len(completed' \o candidates')
    BY <1>2, <1>3, <2>3, <2>4, <2>5, <2>6, <2>7
  <2> QED
    BY <1>1, <2>1, <2>2, <2>4, <2>5, <2>6, <2>8 DEF Report, all
<1>9. CASE Decided
  <2>1. initial # None
    BY <1>9 DEF Decided
  <2>2. PICK i \in DOMAIN candidates : Report(completed, [candidates EXCEPT ![i].status = "decided"])
    BY <1>9 DEF Decided
  <2> DEFINE s == [candidates EXCEPT ![i].status = "decided"]
  <2>3. \A j \in 1..Len(candidates) : s[j] \in Proposals /\ s[j].id = Len(completed) + j
    BY <1>2, <1>5 DEF Proposals
  <2>4. s \in Seq(Proposals) /\ Len(s) = Len(candidates)
    <3>1. s = [j \in 1..Len(candidates) |-> s[j]]
      BY <1>2
    <3> HIDE DEF s
    <3> QED
      BY <1>2, <2>3, <3>1
  <2>5. completed' = completed /\ candidates' = s
    BY <2>2 DEF Report
  <2> HIDE DEF s
  <2>6. Numbered(completed \o s) /\ Len(completed \o s) = Len(completed) + Len(s)
    BY <1>1, <1>5, <1>6, <2>3, <2>4
  <2>7. Len(all) <= Len(completed' \o candidates')
    BY <1>2, <1>3, <2>4, <2>5, <2>6
  <2> QED
    BY <1>1, <2>1, <2>2, <2>4, <2>5, <2>6, <2>7 DEF Report, all
<1>10. CASE Closed
  <2> DEFINE g == [i \in DOMAIN candidates |->
                     IF candidates[i].status = "pending"
                     THEN Proposal(candidates[i].id, "stale") ELSE candidates[i]]
  <2>1. initial # None /\ Report(completed \o g, <<>>)
    BY <1>10 DEF Closed
  <2>2. \A i \in 1..Len(candidates) : g[i] \in Proposals /\ g[i].id = Len(completed) + i
    BY <1>2, <1>5 DEF Proposal, Proposals
  <2>3. g \in Seq(Proposals) /\ Len(g) = Len(candidates)
    BY <1>2, <2>2
  <2>4. completed' = completed \o g /\ candidates' = <<>>
    BY <2>1 DEF Report
  <2> HIDE DEF g
  <2>5. /\ Numbered(completed \o g) /\ Len(completed \o g) = Len(completed) + Len(g)
        /\ completed \o g \in Seq(Proposals)
    BY <1>1, <1>5, <1>6, <2>2, <2>3, ConcatProperties
  <2>6. completed' \o candidates' = completed \o g /\ <<>> \in Seq(Proposals)
    BY <2>4, <2>5, ConcatEmptySeq, EmptySeq
  <2>7. Len(all) <= Len(completed' \o candidates')
    BY <1>2, <1>3, <2>3, <2>5, <2>6
  <2> QED
    BY <2>1, <2>4, <2>5, <2>6, <2>7 DEF Report, all
<1> QED
  BY <1>7, <1>8, <1>9, <1>10

\* No report is taken for none.
LEMMA ReportIsNotNone ==
  None \notin Seq(Proposals)
<1>1. Len(None) = 1 /\ None[1] = [id |-> 0, status |-> "none"]
  BY DEF None, Proposal
<1>2. [id |-> 0, status |-> "none"] \notin Proposals
  BY DEF Proposals
<1>3. ASSUME None \in Seq(Proposals) PROVE None[1] \in Proposals
  BY <1>1, <1>3, ElementOfSeq
<1> QED
  BY <1>1, <1>2, <1>3

LEMMA ReportsInit ==
  DashInit => ReportsInv
<1> SUFFICES ASSUME DashInit PROVE ReportsInv
  OBVIOUS
<1>1. PICK old \in Old, open \in BOOLEAN :
        /\ completed = [i \in 1..old |-> Proposal(i, "decided")]
        /\ candidates = IF open /\ old < MaxProposals THEN <<Proposal(old + 1, "pending")>> ELSE <<>>
  BY DEF DashInit
<1>2. old \in Nat
  BY DashboardAssumption
<1>3. \A i \in 1..old : completed[i] \in Proposals /\ completed[i].id = i
  BY <1>1, <1>2 DEF Proposal, Proposals
<1>4. completed \in Seq(Proposals) /\ Len(completed) = old
  BY <1>1, <1>2, <1>3
<1>5. /\ candidates \in Seq(Proposals) /\ Len(candidates) \in 0..1
      /\ Len(candidates) = 1 => candidates[1].id = old + 1
  <2> DEFINE p == Proposal(old + 1, "pending")
  <2>1. p \in Proposals /\ p.id = old + 1
    BY <1>2 DEF Proposal, Proposals
  <2> HIDE DEF p
  <2>2. /\ <<p>> \in Seq(Proposals) /\ Len(<<p>>) = 1 /\ <<p>>[1] = p
        /\ <<>> \in Seq(Proposals) /\ Len(<<>>) = 0
    BY <2>1, OneElement, EmptySeq
  <2>3. CASE open /\ old < MaxProposals
    <3>1. candidates = <<p>>
      BY <1>1, <2>3 DEF p
    <3> QED
      BY <2>1, <2>2, <3>1
  <2>4. CASE ~(open /\ old < MaxProposals)
    <3>1. candidates = <<>>
      BY <1>1, <2>4
    <3> QED
      BY <2>2, <3>1
  <2> QED
    BY <2>3, <2>4
<1>6. /\ completed \o candidates \in Seq(Proposals)
      /\ Len(completed \o candidates) = old + Len(candidates)
      /\ \A i \in 1..(old + Len(candidates)) :
           (completed \o candidates)[i] = IF i <= old THEN completed[i] ELSE candidates[i - old]
  BY <1>4, <1>5, ConcatProperties
<1>7. Numbered(completed \o candidates)
  <2>1. DOMAIN (completed \o candidates) = 1..(old + Len(candidates))
    BY <1>6, LenProperties
  <2>2. ASSUME NEW i \in 1..(old + Len(candidates)) PROVE (completed \o candidates)[i].id = i
    <3>1. CASE i <= old
      BY <1>2, <1>3, <1>6, <3>1
    <3>2. CASE ~(i <= old)
      <4>1. i - old = 1 /\ i = old + 1 /\ Len(candidates) = 1
        <5>1. \A x \in 0..1 : \A y \in 1..(old + x) :
                ~(y <= old) => y - old = 1 /\ y = old + 1 /\ x = 1
          BY <1>2
        <5> QED
          BY <1>5, <3>2, <5>1
      <4> QED
        BY <1>5, <1>6, <3>2, <4>1
    <3> QED
      BY <3>1, <3>2
  <2> QED
    BY <2>1, <2>2 DEF Numbered
<1>8. start = completed \o candidates /\ initial = None /\ findings = <<>>
  BY DEF DashInit
<1> QED
  BY <1>2, <1>4, <1>5, <1>6, <1>7, <1>8 DEF ReportsInv

LEMMA ReportsStep ==
  ASSUME ReportsInv, [DashNext]_dashVars
  PROVE  ReportsInv'
<1>1. CASE Starting \/ Discovered \/ Decided \/ Closed
  <2>1. /\ {completed', candidates', start'} \subseteq Seq(Proposals)
        /\ Numbered(completed' \o candidates') /\ Numbered(start) /\ start' = start
        /\ findings' = Latest(completed', candidates') /\ initial' = FirstReport(findings')
    BY <1>1, ReportStep DEF ReportsInv
  <2>2. /\ Len(start) \in Nat /\ Len(completed \o candidates) \in Nat
        /\ Len(completed' \o candidates') \in Nat
        /\ Len(start) <= Len(completed \o candidates)
        /\ Len(completed \o candidates) <= Len(completed' \o candidates')
    <3>1. /\ completed \o candidates \in Seq(Proposals) /\ start \in Seq(Proposals)
          /\ completed' \o candidates' \in Seq(Proposals)
      BY <2>1, ConcatProperties DEF ReportsInv
    <3> QED
      BY <1>1, <3>1, ReportStep, LenProperties DEF ReportsInv
  <2>3. Len(start') <= Len(completed' \o candidates')
    BY <2>1, <2>2
  <2>4. initial' = Newest(start', Limit)
    <3>1. CASE initial = None
      <4>1. Newest(start, Limit) # None
        BY DashboardAssumption, NewestOf, ReportIsNotNone DEF ReportsInv
      <4>2. start = completed \o candidates
        BY <3>1, <4>1 DEF ReportsInv
      <4>3. completed' = completed /\ candidates' = candidates
        BY <1>1, <3>1, ReportStep
      <4> QED
        BY <2>1, <3>1, <4>2, <4>3 DEF FirstReport, Latest
    <3>2. CASE initial # None
      BY <2>1, <3>2 DEF FirstReport, ReportsInv
    <3> QED
      BY <3>1, <3>2
  <2> QED
    BY <2>1, <2>3, <2>4 DEF ReportsInv
<1>2. CASE \/ AddActivity \/ Continue \/ ReadKeys \/ FlushKey \/ Draw \/ SessionStep
           \/ UNCHANGED dashVars
  <2>1. UNCHANGED <<completed, candidates, start, findings, initial>>
    BY <1>2 DEF AddActivity, Continue, Logged, ReadKeys, FlushKey, Draw, SessionStep, dashVars,
                engine, screen
  <2> QED
    BY <2>1 DEF ReportsInv, Numbered, Latest, Newest
<1> QED
  BY <1>1, <1>2 DEF DashNext

\* The first report told what was saved when the scan began, and the last what
\* is saved now.
THEOREM ReportsCorrect == DashSpec => []ReportsInv
<1>1. ReportsInv /\ [DashNext]_dashVars => ReportsInv'
  BY ReportsStep
<1> QED
  BY <1>1, ReportsInit, PTL DEF DashSpec

\* The summary lists what became of the proposals in this session, and nothing
\* that was there before, however many scans were closed (README.md:119).
THEOREM SummaryTellsNewsCorrect == DashSpec => []SummaryTellsNews
<1>1. ReportsInv => SummaryTellsNews
  <2> SUFFICES ASSUME ReportsInv, initial # None
               PROVE  Listed = {i \in DOMAIN findings : \A j \in DOMAIN start : start[j] # findings[i]}
    BY DEF SummaryTellsNews
  <2> DEFINE all == completed \o candidates
             n == AtMost(Limit, Len(start))
  <2>1. /\ initial = Newest(start, Limit) /\ findings = Newest(all, Limit)
        /\ start \in Seq(Proposals) /\ all \in Seq(Proposals)
        /\ Numbered(start) /\ Numbered(all) /\ Len(start) <= Len(all) /\ Limit \in Nat
    BY DashboardAssumption, ConcatProperties DEF ReportsInv, Latest
  <2>2. /\ Len(start) \in Nat /\ DOMAIN start = 1..Len(start)
        /\ Len(all) \in Nat /\ DOMAIN all = 1..Len(all)
    BY <2>1, LenProperties
  <2> HIDE DEF all
  <2>3. ASSUME NEW i \in DOMAIN findings, NEW j \in DOMAIN start, start[j] = findings[i]
        PROVE  \E k \in DOMAIN initial : initial[k] = findings[i]
    <3>1. start[j].id = j
      BY <2>1, <2>3 DEF Numbered
    <3>2. findings[i].id = Len(all) - AtMost(Limit, Len(all)) + i
      BY <2>1, <2>3, NewestNumbered
    <3>3. i \in Nat /\ i >= 1
      <4>1. i \in 1..AtMost(Limit, Len(all)) /\ AtMost(Limit, Len(all)) \in Nat
        BY <2>1, <2>2, <2>3, NewestOf DEF AtMost
      <4> QED
        BY <4>1
    <3>4. j = Len(all) - AtMost(Limit, Len(all)) + i
      BY <2>3, <3>1, <3>2
    <3>5. j - (Len(start) - n) \in 1..n
      BY <2>1, <2>2, <2>3, <3>3, <3>4 DEF AtMost
    <3>6. n \in 0..Len(start) /\ DOMAIN initial = 1..n /\ \A k \in 1..n : initial[k] = start[Len(start) - n + k]
      <4> HIDE DEF n
      <4> QED
        BY <2>1, NewestOf DEF n
    <3>7. Len(start) - n + (j - (Len(start) - n)) = j
      BY <2>2, <3>5, <3>6
    <3> QED
      BY <2>3, <3>5, <3>6, <3>7
  <2>4. ASSUME NEW k \in DOMAIN initial
        PROVE  \E j \in DOMAIN start : start[j] = initial[k]
    BY <2>1, <2>2, NewestNumbered
  <2> QED
    BY <2>3, <2>4 DEF Listed
<1> QED
  BY <1>1, ReportsCorrect, PTL

-----------------------------------------------------------------------------
(* The screen *)

\* What UiInv says of ui.
LEMMA UiShape ==
  ASSUME UiInv
  PROVE  /\ ui.view \in 0..2 /\ ui.selected \in Nat
         /\ ui.detail \in BOOLEAN /\ ui.scroll \in Nat
         /\ ui.selected < Len(findings) \/ ui.selected = 0
         /\ ui.detail => findings # <<>> /\ ui.view # Activity
  BY DEF UiInv, UiOf

\* A report holds the latest of what is saved.
LEMMA FindingsLength ==
  ASSUME ReportsInv
  PROVE  /\ findings \in Seq(Proposals) /\ Len(findings) \in Nat /\ DOMAIN findings = 1..Len(findings)
         /\ findings # <<>> => /\ findings = Newest(completed \o candidates, Limit)
                               /\ Len(completed \o candidates) > 0
<1>1. completed \o candidates \in Seq(Proposals) /\ Limit \in Nat
  BY DashboardAssumption, ConcatProperties DEF ReportsInv
<1>2. findings \in Seq(Proposals)
  <2>1. Newest(completed \o candidates, Limit) \in Seq(Proposals) /\ <<>> \in Seq(Proposals)
    BY <1>1, NewestOf, EmptySeq
  <2> QED
    BY <2>1 DEF ReportsInv, Latest
<1>3. ASSUME findings # <<>>
      PROVE  findings = Newest(completed \o candidates, Limit) /\ Len(completed \o candidates) > 0
  <2>1. findings = Newest(completed \o candidates, Limit)
    BY <1>3 DEF ReportsInv, Latest
  <2>2. Len(completed \o candidates) \in Nat /\ Len(findings) \in 0..Len(completed \o candidates)
    <3> DEFINE all == completed \o candidates
    <3> HIDE DEF all
    <3>1. all \in Seq(Proposals) /\ findings = Newest(all, Limit)
      BY <1>1, <2>1 DEF all
    <3>2. Len(all) \in Nat /\ Len(findings) = AtMost(Limit, Len(all))
      BY <1>1, <3>1, NewestOf, LenProperties
    <3>3. AtMost(Limit, Len(all)) \in 0..Len(all)
      BY <1>1, <3>2 DEF AtMost
    <3> QED
      BY <3>2, <3>3 DEF all
  <2>3. Len(findings) \in Nat \ {0}
    BY <1>2, <1>3, LenProperties, EmptySeq
  <2> QED
    BY <2>1, <2>2, <2>3
<1> QED
  BY <1>2, <1>3, LenProperties

\* A report is empty only if nothing is saved.
LEMMA NextFindings ==
  ASSUME ReportsInv, Starting \/ Discovered \/ Decided \/ Closed
  PROVE  /\ findings' \in Seq(Proposals) /\ Len(findings') \in Nat
         /\ DOMAIN findings' = 1..Len(findings')
         /\ findings' = Newest(completed' \o candidates', Limit)
         /\ findings # <<>> => findings' # <<>>
<1> DEFINE all == completed' \o candidates'
<1>1. /\ all \in Seq(Proposals) /\ Limit \in Nat \ {0} /\ findings' = Newest(all, Limit)
      /\ Len(completed \o candidates) <= Len(all)
  BY ReportStep, DashboardAssumption, ConcatProperties DEF Latest
<1> HIDE DEF all
<1>2. /\ findings' \in Seq(Proposals) /\ Len(findings') = AtMost(Limit, Len(all))
      /\ Len(all) \in Nat
  BY <1>1, NewestOf, LenProperties
<1>3. ASSUME findings # <<>> PROVE findings' # <<>>
  <2>1. Len(completed \o candidates) > 0 /\ Len(completed \o candidates) \in Nat
    <3>1. completed \o candidates \in Seq(Proposals)
      BY ConcatProperties DEF ReportsInv
    <3> QED
      BY <1>3, <3>1, FindingsLength, LenProperties
  <2>2. Len(findings') > 0
    BY <1>1, <1>2, <2>1 DEF AtMost
  <2> QED
    BY <2>2
<1> QED
  BY <1>1, <1>2, <1>3, LenProperties DEF all

\* The place of the selected proposal in the next report: it has one there at
\* most, since numbers are not used twice.
LEMMA SelectedPlace ==
  ASSUME ReportsInv, UiInv, Starting \/ Discovered \/ Decided \/ Closed
  PROVE  /\ Reselected(findings') \in Nat
         /\ Reselected(findings') < Len(findings') \/ Reselected(findings') = 0
         /\ ~(ui.detail \/ ui.selected > 0) => Reselected(findings') = 0
         /\ \A open : /\ ui.detail \/ ui.selected > 0
                      /\ findings # <<>> /\ open = Shown(findings, ui.selected)
                      /\ open \in Ids(findings')
                      => Shown(findings', Reselected(findings')) = open
<1> DEFINE p == findings'
           browsed == (ui.detail \/ ui.selected > 0) /\ Len(findings) > ui.selected
           id == Shown(findings, ui.selected)
           again == IF browsed THEN Places(p, id) ELSE {}
           place == IF again = {} THEN ui.selected ELSE CHOOSE s \in again : TRUE
<1>1. p \in Seq(Proposals) /\ Len(p) \in Nat /\ DOMAIN p = 1..Len(p)
  BY NextFindings
<1>2. /\ ui.selected \in Nat
      /\ ui.selected < Len(findings) \/ ui.selected = 0
      /\ Len(findings) \in Nat /\ (findings # <<>> => Len(findings) > 0)
  BY UiShape, FindingsLength, EmptySeq
<1>3. Reselected(p) = AtLeast0(AtMost(place, Len(p) - 1))
  BY DEF Reselected
<1>4. \A x : Places(p, x) = {Len(p) - i : i \in {j \in DOMAIN p : p[j].id = x}}
  BY DEF Places
<1>5. ASSUME NEW i \in DOMAIN p, NEW j \in DOMAIN p, p[i].id = p[j].id
      PROVE  i = j
  <2> DEFINE all == completed' \o candidates'
             off == Len(all) - AtMost(Limit, Len(all))
  <2>1. /\ all \in Seq(Proposals) /\ Numbered(all) /\ Limit \in Nat /\ p = Newest(all, Limit)
        /\ Len(all) \in Nat
    BY ReportStep, NextFindings, DashboardAssumption, ConcatProperties, LenProperties
  <2> HIDE DEF all, p
  <2>2. p[i].id = off + i /\ p[j].id = off + j
    BY <1>5, <2>1, NewestNumbered
  <2>3. off \in Int
    BY <2>1, DashboardAssumption DEF AtMost
  <2> HIDE DEF off
  <2>4. i \in Int /\ j \in Int
    BY <1>1, <1>5
  <2>5. off + i = off + j
    BY <1>5, <2>2
  <2>6. \A x, a, b \in Int : x + a = x + b => a = b
    OBVIOUS
  <2> QED
    BY <2>3, <2>4, <2>5, <2>6
<1> HIDE DEF p, id
<1>6. again # {} => place \in again
  OBVIOUS
<1>7. \A s \in again : s \in 0..(Len(p) - 1)
  <2>1. ASSUME NEW s \in Places(p, id) PROVE s \in 0..(Len(p) - 1)
    <3>1. PICK i \in DOMAIN p : s = Len(p) - i
      BY <1>4, <2>1
    <3> QED
      BY <1>1, <3>1
  <2> QED
    BY <2>1
<1>8. place \in Nat
  BY <1>1, <1>2, <1>6, <1>7
<1> HIDE DEF again, place
<1>9. Reselected(p) \in Nat /\ (Reselected(p) < Len(p) \/ Reselected(p) = 0)
  BY <1>1, <1>3, <1>8 DEF AtLeast0, AtMost
<1>10. ASSUME ~(ui.detail \/ ui.selected > 0)
       PROVE  Reselected(p) = 0
  <2>1. place = 0
    BY <1>2, <1>10 DEF place, again
  <2> QED
    BY <1>1, <1>3, <2>1 DEF AtLeast0, AtMost
<1>11. ASSUME ui.detail \/ ui.selected > 0, findings # <<>>, id \in Ids(p)
       PROVE  Shown(p, Reselected(p)) = id
  <2>1. browsed
    BY <1>2, <1>11
  <2>2. PICK i \in DOMAIN p : p[i].id = id
    BY <1>11 DEF Ids
  <2>3. Len(p) - i \in Places(p, id)
    BY <1>4, <2>2
  <2>4. place \in Places(p, id) /\ place \in 0..(Len(p) - 1)
    BY <1>6, <1>7, <2>1, <2>3 DEF again
  <2>5. PICK j \in DOMAIN p : p[j].id = id /\ place = Len(p) - j
    BY <1>4, <2>4
  <2>6. Reselected(p) = place
    <3>1. \A l \in Nat : \A x \in 0..(l - 1) : AtLeast0(AtMost(x, l - 1)) = x
      BY DEF AtLeast0, AtMost
    <3> QED
      BY <1>1, <1>3, <2>4, <3>1
  <2>7. Len(p) - Reselected(p) = j
    BY <1>1, <2>5, <2>6
  <2> QED
    BY <2>5, <2>7 DEF Shown
<1> QED
  BY <1>9, <1>10, <1>11 DEF p, id

\* A key leaves the selection in the list, and opens only a proposal that exists.
LEMMA PressKeeps ==
  ASSUME Len(findings) \in Nat, NEW u, UiOf(u), NEW key
  PROVE  UiOf(Press(u, key))
<1> DEFINE U == [view : 0..2, selected : Nat, detail : BOOLEAN, scroll : Nat]
<1>1. /\ u \in U /\ u.view \in 0..2 /\ u.selected \in Nat /\ u.detail \in BOOLEAN
      /\ u.scroll \in Nat
      /\ u.selected < Len(findings) \/ u.selected = 0
      /\ u.detail => findings # <<>> /\ u.view # Activity
  BY DEF UiOf
<1>2. \A k \in DOMAIN Steps : Steps[k] \in Int
  BY DEF Steps
<1>3. Far \in Nat
  BY DashboardAssumption DEF Far
<1>4. \A k \in DOMAIN Views : Views[k] \in 0..2
  BY DEF Views, Activity
<1>5. ASSUME NEW n \in Nat PROVE UiOf([u EXCEPT !.detail = FALSE, !.scroll = n])
  BY <1>1 DEF UiOf
<1>6. ASSUME NEW n \in Nat PROVE UiOf([u EXCEPT !.scroll = n])
  BY <1>1 DEF UiOf
<1>7. ASSUME NEW n \in Nat, n < Len(findings) \/ n = 0 PROVE UiOf([u EXCEPT !.selected = n])
  BY <1>1, <1>7 DEF UiOf
<1>8. ASSUME findings # <<>>, u.view # Activity PROVE UiOf([u EXCEPT !.detail = TRUE, !.scroll = 0])
  BY <1>1, <1>8 DEF UiOf
<1>9. ASSUME NEW v \in 0..2, ~u.detail PROVE UiOf([u EXCEPT !.view = v, !.scroll = 0])
  BY <1>1, <1>9 DEF UiOf
<1>10. ASSUME NEW d \in Int
       PROVE  /\ AtLeast0(u.scroll + d) \in Nat /\ AtLeast0(u.scroll - d) \in Nat
              /\ AtLeast0(AtMost(u.selected + d, Len(findings) - 1)) \in Nat
              /\ \/ AtLeast0(AtMost(u.selected + d, Len(findings) - 1)) < Len(findings)
                 \/ AtLeast0(AtMost(u.selected + d, Len(findings) - 1)) = 0
  BY <1>1 DEF AtLeast0, AtMost
<1> QED
  BY <1>1, <1>2, <1>3, <1>4, <1>5, <1>6, <1>7, <1>8, <1>9, <1>10 DEF Press

LEMMA UiInit ==
  DashInit => UiInv
<1> SUFFICES ASSUME DashInit PROVE UiInv
  OBVIOUS
<1>1. activity = <<>> /\ total = 0 /\ DOMAIN activity = {}
  BY DEF DashInit
<1>2. LogInv
  BY <1>1, EmptySeq DEF LogInv
<1> QED
  BY <1>2, EmptySeq DEF DashInit, UiInv, UiOf

\* A record is added after all the others, and the limit takes records from the
\* front only.
LEMMA AddRecord ==
  ASSUME LogInv, AddActivity
  PROVE  /\ LogInv' /\ activity' # activity /\ activity' # <<>>
         /\ \E rows \in Nat \ {0} : total' = total + rows
         /\ Dropped \in Nat /\ Dropped' \in Nat /\ Dropped <= Dropped' /\ Dropped' <= total
<1> DEFINE all == Append(activity, total)
           l == Len(activity)
           a == AtMost(LogLimit, l + 1)
           off == l + 1 - a
<1>1. /\ activity \in Seq(Nat) /\ total \in Nat /\ LogLimit \in Nat \ {0} /\ RecordRows \in Nat
      /\ l \in Nat /\ DOMAIN activity = 1..l
  BY DashboardAssumption, LenProperties DEF LogInv
<1>2. PICK rows \in Nat \ {0} : total' = total + rows /\ activity' = Newest(all, LogLimit)
  BY <1>1 DEF AddActivity, Logged
<1>3. /\ all \in Seq(Nat) /\ Len(all) = l + 1 /\ all[l + 1] = total
      /\ \A i \in 1..l : all[i] = activity[i]
  BY <1>1, AppendProperties
<1>4. /\ \A i \in 1..(l + 1) : all[i] \in Nat /\ all[i] <= total
      /\ \A i, j \in 1..(l + 1) : i < j => all[i] < all[j]
  <2>1. \A i \in 1..l : activity[i] \in Nat /\ activity[i] < total
    BY <1>1, ElementOfSeq DEF LogInv
  <2>2. \A i, j \in 1..l : i < j => activity[i] < activity[j]
    BY <1>1 DEF LogInv
  <2>3. \A i \in 1..(l + 1) : i \in 1..l \/ i = l + 1
    BY <1>1
  <2>4. \A j \in 1..l : ~(l + 1 < j)
    BY <1>1
  <2> QED
    BY <1>1, <1>3, <2>1, <2>2, <2>3, <2>4
<1> HIDE DEF all, l
<1>5. a \in 1..(l + 1) /\ off \in 0..l
  BY <1>1 DEF AtMost
<1>6. /\ activity' \in Seq(Nat) /\ Len(activity') = a /\ DOMAIN activity' = 1..a
      /\ \A i \in 1..a : off + i \in 1..(l + 1) /\ activity'[i] = all[off + i]
  <2>1. /\ Newest(all, LogLimit) \in Seq(Nat) /\ Len(Newest(all, LogLimit)) = a
        /\ DOMAIN Newest(all, LogLimit) = 1..a
        /\ \A i \in 1..a : off + i \in 1..(l + 1) /\ Newest(all, LogLimit)[i] = all[off + i]
    <3> DEFINE k == Len(all)
    <3>1. /\ Newest(all, LogLimit) \in Seq(Nat) /\ Len(Newest(all, LogLimit)) = AtMost(LogLimit, k)
          /\ DOMAIN Newest(all, LogLimit) = 1..AtMost(LogLimit, k)
          /\ \A i \in 1..AtMost(LogLimit, k) :
               /\ k - AtMost(LogLimit, k) + i \in 1..k
               /\ Newest(all, LogLimit)[i] = all[k - AtMost(LogLimit, k) + i]
      BY <1>1, <1>3, NewestOf
    <3>2. k = l + 1
      BY <1>3
    <3> HIDE DEF k
    <3>3. AtMost(LogLimit, k) = a /\ k - a = off
      BY <1>1, <3>2 DEF AtMost
    <3> HIDE DEF a, off
    <3>4. Newest(all, LogLimit) \in Seq(Nat) /\ Len(Newest(all, LogLimit)) = a /\ DOMAIN Newest(all, LogLimit) = 1..a
      BY <3>1, <3>3, Zenon
    <3>5. \A i \in 1..a : off + i \in 1..k /\ Newest(all, LogLimit)[i] = all[off + i]
      <4>1. \A i \in 1..a : k - a + i \in 1..k /\ Newest(all, LogLimit)[i] = all[k - a + i]
        BY <3>1, <3>3, Zenon
      <4> QED
        BY <3>3, <4>1, Zenon
    <3> QED
      BY <3>2, <3>4, <3>5, Zenon
  <2> QED
    BY <1>2, <2>1
<1>7. 1 \in 1..a /\ a \in Nat /\ off \in Nat
  BY <1>1, <1>5
<1> HIDE DEF a, off
<1>8. activity' # <<>>
  BY <1>6, <1>7
<1>9. LogInv'
  <2>1. \A i \in DOMAIN activity' : activity'[i] < total'
    BY <1>1, <1>2, <1>4, <1>6
  <2>2. ASSUME NEW i \in 1..a, NEW j \in 1..a, i < j
        PROVE  activity'[i] < activity'[j]
    <3>1. off + i \in 1..(l + 1) /\ off + j \in 1..(l + 1) /\ off + i < off + j
      <4>1. i \in Nat /\ j \in Nat
        BY <1>7
      <4>2. off + i < off + j
        BY <1>7, <2>2, <4>1
      <4> QED
        BY <1>6, <4>2
    <3> QED
      BY <1>4, <1>6, <3>1
  <2> QED
    BY <1>1, <1>2, <1>6, <1>8, <2>1, <2>2 DEF LogInv
<1>10. Dropped' = all[off + 1] /\ Dropped' \in Nat /\ Dropped' <= total
  <2>1. Dropped' = activity'[1]
    BY <1>8 DEF Dropped
  <2> QED
    BY <1>4, <1>6, <1>7, <2>1
<1>11. Dropped \in Nat /\ Dropped <= Dropped'
  <2>1. CASE activity = <<>>
    BY <1>10, <2>1 DEF Dropped
  <2>2. CASE activity # <<>>
    <3>1. l >= 1
      BY <1>1, <2>2, EmptySeq DEF l
    <3>2. Dropped = all[1] /\ 1 \in 1..(l + 1) /\ off + 1 \in 1..(l + 1)
      BY <1>1, <1>3, <1>6, <1>7, <2>2, <3>1 DEF Dropped
    <3>3. 1 < off + 1 \/ 1 = off + 1
      BY <1>7
    <3>4. all[1] \in Nat /\ (all[1] < all[off + 1] \/ all[1] = all[off + 1])
      BY <1>4, <3>2, <3>3
    <3> QED
      BY <1>10, <3>2, <3>4
  <2> QED
    BY <2>1, <2>2
<1>12. activity' # activity
  <2>1. activity'[a] = total
    <3>1. off + a = l + 1 /\ a \in 1..a
      BY <1>1, <1>5 DEF off
    <3> QED
      BY <1>3, <1>6, <3>1
  <2>2. ASSUME activity' = activity PROVE FALSE
    <3>1. a \in DOMAIN activity /\ activity[a] = total
      BY <1>5, <1>6, <1>7, <2>1, <2>2
    <3>2. activity[a] < total
      BY <3>1 DEF LogInv
    <3> QED
      BY <1>1, <3>1, <3>2
  <2> QED
    BY <2>2
<1> QED
  BY <1>2, <1>8, <1>9, <1>10, <1>11, <1>12

\* A record that goes on keeps its place.
LEMMA ContinueRecord ==
  ASSUME LogInv, Continue
  PROVE  /\ LogInv' /\ activity' = activity /\ activity # <<>>
         /\ \E rows \in Nat \ {0} : total' = total + rows
         /\ Dropped \in Nat /\ Dropped' = Dropped /\ Dropped < total
<1>1. /\ activity \in Seq(Nat) /\ total \in Nat /\ RecordRows \in Nat
      /\ activity # <<>> /\ activity' = activity
  BY DashboardAssumption DEF LogInv, Continue
<1>2. Len(activity) \in Nat \ {0} /\ DOMAIN activity = 1..Len(activity)
  BY <1>1, EmptySeq, LenProperties
<1>3. \A i \in DOMAIN activity : activity[i] \in Nat /\ activity[i] < total
  BY <1>1, <1>2, ElementOfSeq DEF LogInv
<1>4. PICK rows \in Nat \ {0} : total' = total + rows
  <2>1. activity[Len(activity)] + RecordRows - total \in Int
    BY <1>1, <1>2, <1>3
  <2> QED
    BY <2>1 DEF Continue, Logged
<1>5. LogInv'
  <2>1. total' \in Nat /\ \A i \in DOMAIN activity' : activity'[i] < total'
    BY <1>1, <1>3, <1>4
  <2>2. \A i, j \in DOMAIN activity' : i < j => activity'[i] < activity'[j]
    BY <1>1 DEF LogInv
  <2> QED
    BY <1>1, <2>1, <2>2 DEF LogInv
<1>6. Dropped' = Dropped /\ Dropped \in Nat /\ Dropped < total
  BY <1>1, <1>2, <1>3 DEF Dropped
<1> QED
  BY <1>1, <1>4, <1>5, <1>6

\* What a view shows can be drawn.
LEMMA ExtentShape ==
  ASSUME UiInv
  PROVE  /\ Extent(ui) \in Nat
         /\ ui.view = Activity /\ activity # <<>> => Extent(ui) = AtLeast0(total - Dropped - Rows)
         /\ activity # <<>> => Dropped \in Nat /\ Dropped < total
<1>1. /\ ui.scroll \in Nat /\ (ui.view = Activity => ~ui.detail) /\ Rows \in Nat /\ TextRows \in Nat
      /\ activity \in Seq(Nat) /\ total \in Nat
  BY UiShape, DashboardAssumption DEF UiInv, LogInv
<1>2. activity # <<>> => activity[1] \in Nat /\ activity[1] < total
  <2>1. activity # <<>> => 1 \in DOMAIN activity
    BY <1>1, EmptySeq, LenProperties
  <2> QED
    BY <1>1, <2>1, LenProperties, ElementOfSeq DEF UiInv, LogInv
<1> QED
  BY <1>1, <1>2 DEF Extent, Dropped, AtLeast0

LEMMA UiStep ==
  ASSUME ReportsInv, UiInv, [DashNext]_dashVars
  PROVE  UiInv'
<1>1. CASE Starting \/ Discovered \/ Decided \/ Closed
  <2>1. /\ ui' = [ui EXCEPT !.selected = Reselected(findings')] /\ UNCHANGED <<activity, total>>
        /\ findings # <<>> => findings' # <<>>
        /\ Reselected(findings') \in Nat
        /\ Reselected(findings') < Len(findings') \/ Reselected(findings') = 0
    BY <1>1, ReportStep, NextFindings, SelectedPlace DEF log
  <2> QED
    BY <2>1 DEF UiInv, UiOf, LogInv
<1>2. CASE AddActivity
  <2>1. ui' = Held(ui) /\ findings' = findings
    BY <1>2 DEF AddActivity, Logged
  <2>2. LogInv'
    BY <1>2, AddRecord DEF UiInv
  <2> QED
    BY <2>1, <2>2, UiShape DEF UiInv, UiOf, Held
<1>3. CASE Continue
  <2>1. ui' = ui /\ findings' = findings
    BY <1>3 DEF Continue, Logged
  <2>2. LogInv'
    BY <1>3, ContinueRecord DEF UiInv
  <2> QED
    BY <2>1, <2>2 DEF UiInv, UiOf
<1>4. CASE ReadKeys \/ FlushKey
  <2>1. Len(findings) \in Nat /\ UiOf(ui)
    BY FindingsLength DEF UiInv
  <2>2. findings' = findings /\ UNCHANGED <<activity, total>>
    BY <1>4 DEF ReadKeys, FlushKey, log
  <2>3. \A keys : UiOf(PressAll(ui, keys))
    BY <2>1, PressKeeps DEF PressAll
  <2>4. UiOf(ui')
    BY <1>4, <2>1, <2>3, PressKeeps DEF ReadKeys, FlushKey
  <2> QED
    BY <2>2, <2>4 DEF UiInv, UiOf, LogInv
<1>5. CASE Draw
  <2>1. ui' = [ui EXCEPT !.scroll = Extent(ui)] /\ UNCHANGED <<findings, activity, total>>
    BY <1>5 DEF Draw, log
  <2>2. Extent(ui) \in Nat
    BY ExtentShape
  <2> QED
    BY <2>1, <2>2 DEF UiInv, UiOf, LogInv
<1>6. CASE SessionStep \/ UNCHANGED dashVars
  <2>1. UNCHANGED <<ui, findings, activity, total>>
    BY <1>6 DEF SessionStep, dashVars, screen, log
  <2> QED
    BY <2>1 DEF UiInv, UiOf, LogInv
<1> QED
  BY <1>1, <1>2, <1>3, <1>4, <1>5, <1>6 DEF DashNext

\* What is selected is in the list, and what is open too.
THEOREM UiCorrect == DashSpec => []UiInv
<1>1. ReportsInv /\ UiInv /\ [DashNext]_dashVars => UiInv'
  BY UiStep
<1> QED
  BY <1>1, UiInit, ReportsCorrect, PTL DEF DashSpec

\* A proposal that is open, or was browsed to, stays selected whatever is found,
\* decided or closed, and otherwise the newest is (dashboard.go:66).
THEOREM SelectionStaysCorrect == DashSpec => SelectionStays
<1> DEFINE A == (findings # findings' /\ findings # <<>>) =>
                  IF ui.detail \/ ui.selected > 0
                  THEN LET open == Shown(findings, ui.selected)
                       IN  open \in Ids(findings') => Shown(findings', ui'.selected) = open
                  ELSE ui'.selected = 0
<1>1. ASSUME ReportsInv, UiInv, [DashNext]_dashVars
      PROVE  [A]_dashVars
  <2> SUFFICES ASSUME findings # findings', findings # <<>> PROVE A
    OBVIOUS
  <2>1. Starting \/ Discovered \/ Decided \/ Closed
    BY <1>1 DEF DashNext, AddActivity, Continue, Logged, ReadKeys, FlushKey, Draw, SessionStep,
                dashVars, screen
  <2>2. ui'.selected = Reselected(findings')
    BY <1>1, <2>1, ReportStep DEF UiInv, UiOf
  <2> QED
    BY <1>1, <2>1, <2>2, SelectedPlace
<1> QED
  BY <1>1, ReportsCorrect, UiCorrect, PTL DEF DashSpec, SelectionStays

\* The last row of a view that is s rows from the end, when t rows were logged and
\* d of them dropped.
LastRow(t, s, d) == t - AtMost(s, AtLeast0(t - d - Rows))

\* The last row goes from b to c while r rows are added, h of which the view is
\* held against, and the rows up to e instead of d are dropped.
Drifts(b, c, d, e, r, h) ==
  \/ \A n \in (b - Rows + 1)..b : n > d => n \in (c - Rows + 1)..c /\ n > e
  \/ c - b \in 0..(r - h)
  \/ \E n \in (b - Rows + 1)..b : n > d /\ n <= e

\* The arithmetic of a view that is scrolled back.
LEMMA Drift ==
  ASSUME NEW t \in Nat, NEW s \in Nat \ {0}, NEW d \in Nat, NEW e \in Nat,
         NEW r \in Nat \ {0}, NEW h \in {0, 1},
         d < t, d <= e
  PROVE  Drifts(LastRow(t, s, d), LastRow(t + r, s + h, e), d, e, r, h)
<1> DEFINE b == LastRow(t, s, d)
           c == LastRow(t + r, s + h, e)
<1>0. /\ b \in Int /\ c \in Int
      /\ b = t - AtMost(s, AtLeast0(t - d - Rows))
      /\ c = t + r - AtMost(s + h, AtLeast0(t + r - e - Rows))
  BY DashboardAssumption DEF LastRow, AtMost, AtLeast0
<1> HIDE DEF b, c
<1> SUFFICES \/ \A n \in (b - Rows + 1)..b : n > d => n \in (c - Rows + 1)..c /\ n > e
             \/ c - b \in 0..(r - h)
             \/ \E n \in (b - Rows + 1)..b : n > d /\ n <= e
  BY DEF Drifts, b, c
<1>1. Rows \in Nat \ {0}
  BY DashboardAssumption
<1>2. CASE t - d < Rows
  <2>1. b = t
    BY <1>0, <1>1, <1>2 DEF AtMost, AtLeast0
  <2>2. CASE e = d
    <3>1. CASE t + r - e - Rows <= 0
      <4>1. c = t + r
        BY <1>0, <1>1, <3>1 DEF AtMost, AtLeast0
      <4> QED
        BY <1>0, <1>1, <2>1, <2>2, <3>1, <4>1
    <3>2. CASE ~(t + r - e - Rows <= 0)
      <4>1. c - b \in 0..(r - h)
        BY <1>0, <1>1, <1>2, <2>1, <2>2, <3>2 DEF AtMost, AtLeast0
      <4> QED
        BY <4>1
    <3> QED
      BY <3>1, <3>2
  <2>3. CASE e # d
    <3>1. d + 1 \in (b - Rows + 1)..b /\ d + 1 > d /\ d + 1 <= e
      BY <1>0, <1>1, <1>2, <2>1, <2>3
    <3> QED
      BY <3>1
  <2> QED
    BY <2>2, <2>3
<1>3. CASE ~(t - d < Rows) /\ e = d
  <2>1. c - b \in 0..(r - h)
    BY <1>0, <1>1, <1>3 DEF AtMost, AtLeast0
  <2> QED
    BY <2>1
<1>4. CASE ~(t - d < Rows) /\ e # d
  <2>1. b - Rows >= d
    BY <1>0, <1>1, <1>4 DEF AtMost, AtLeast0
  <2>2. CASE b - Rows + 1 <= e
    <3>1. b - Rows + 1 \in (b - Rows + 1)..b /\ b - Rows + 1 > d
      BY <1>0, <1>1, <2>1
    <3> QED
      BY <2>2, <3>1
  <2>3. CASE ~(b - Rows + 1 <= e)
    <3>1. s < t - d - Rows /\ b = t - s
      BY <1>0, <1>1, <1>4, <2>3 DEF AtMost, AtLeast0
    <3>2. t + r - e - Rows >= s + r
      BY <1>0, <1>1, <2>3, <3>1
    <3>3. c = t + r - (s + h)
      BY <1>0, <1>1, <3>2 DEF AtMost, AtLeast0
    <3>4. c - b \in 0..(r - h)
      BY <3>1, <3>3
    <3> QED
      BY <3>4
  <2> QED
    BY <1>0, <1>1, <2>2, <2>3
<1> QED
  BY <1>0, <1>1, <1>2, <1>3, <1>4

\* A log that was scrolled back is moved by no more than the rows it is not held
\* against, whatever the records' widths, and one that was not follows.
THEOREM ScrolledBackHoldsCorrect == DashSpec => ScrolledBackHolds
<1> DEFINE A == total # total' /\ ui.view = Activity =>
                  IF ui.scroll = 0 THEN Bottom' = total'
                  ELSE \/ OnScreen \subseteq OnScreen'
                       \/ Bottom' - Bottom \in 0..Unheld
                       \/ \E n \in OnScreen : n <= Dropped'
<1>1. ASSUME ReportsInv, UiInv, UiInv', [DashNext]_dashVars
      PROVE  [A]_dashVars
  <2> SUFFICES ASSUME total # total', ui.view = Activity PROVE A
    OBVIOUS
  <2>1. AddActivity \/ Continue
    <3>1. Starting \/ Discovered \/ Decided \/ Closed => total' = total
      BY <1>1, ReportStep DEF log
    <3> QED
      BY <1>1, <3>1 DEF DashNext, ReadKeys, FlushKey, Draw, SessionStep, dashVars, screen, log
  <2>2. PICK r \in Nat \ {0}, h \in {0, 1} :
          /\ total' = total + r /\ Unheld = r - h
          /\ ui'.view = Activity /\ ui'.scroll = IF ui.scroll > 0 THEN ui.scroll + h ELSE 0
    <3>1. ui.scroll \in Nat /\ total \in Nat /\ LogInv
      BY <1>1, UiShape DEF UiInv, LogInv
    <3>2. CASE AddActivity
      <4>1. PICK r \in Nat \ {0} : total' = total + r /\ activity' # activity
        BY <3>1, <3>2, AddRecord
      <4>2. ui' = Held(ui)
        BY <3>2 DEF AddActivity
      <4>3. ui'.view = Activity /\ ui'.scroll = IF ui.scroll > 0 THEN ui.scroll + 1 ELSE 0
        BY <1>1, <3>1, <4>2 DEF Held, UiInv, UiOf
      <4>4. Unheld = r - 1
        BY <3>1, <4>1 DEF Unheld
      <4> QED
        BY <4>1, <4>3, <4>4
    <3>3. CASE Continue
      <4>1. PICK r \in Nat \ {0} : total' = total + r /\ activity' = activity
        BY <3>1, <3>3, ContinueRecord
      <4>2. ui' = ui
        BY <3>3 DEF Continue
      <4>3. ui'.view = Activity /\ ui'.scroll = IF ui.scroll > 0 THEN ui.scroll + 0 ELSE 0
        BY <3>1, <4>2
      <4>4. Unheld = r - 0
        BY <3>1, <4>1 DEF Unheld
      <4> QED
        BY <4>1, <4>3, <4>4
    <3> QED
      BY <2>1, <3>2, <3>3
  <2>3. /\ activity' # <<>> /\ Dropped \in Nat /\ Dropped' \in Nat /\ Dropped <= Dropped'
        /\ total \in Nat /\ ui.scroll \in Nat /\ Rows \in Nat \ {0}
    BY <1>1, <2>1, AddRecord, ContinueRecord, UiShape, DashboardAssumption DEF UiInv, LogInv
  <2>4. /\ Extent(ui)' = AtLeast0(total' - Dropped' - Rows)
        /\ Bottom' = total' - AtMost(ui'.scroll, Extent(ui)')
    <3>1. UiInv' => (/\ Extent(ui) \in Nat
                     /\ ui.view = Activity /\ activity # <<>> =>
                          Extent(ui) = AtLeast0(total - Dropped - Rows))'
      BY ExtentShape, PTL
    <3> QED
      BY <1>1, <2>2, <2>3, <3>1 DEF Bottom
  <2>5. CASE ui.scroll = 0
    <3>1. AtMost(0, AtLeast0(total' - Dropped' - Rows)) = 0
      <4>1. total' \in Nat /\ Dropped' \in Nat /\ Rows \in Nat
        BY <2>2, <2>3
      <4>2. \A n \in Int : AtMost(0, AtLeast0(n)) = 0
        BY DEF AtMost, AtLeast0
      <4> QED
        BY <4>1, <4>2
    <3>2. ui'.scroll = 0
      BY <2>2, <2>5
    <3>3. Bottom' = total'
      BY <2>2, <2>3, <2>4, <3>1, <3>2
    <3> QED
      BY <2>5, <3>3
  <2>6. CASE ui.scroll # 0 /\ activity = <<>>
    <3>1. total = 0 /\ Dropped = 0
      BY <1>1, <2>6 DEF UiInv, LogInv, Dropped
    <3>2. Bottom \in Int /\ Bottom <= 0
      BY <1>1, <2>3, <3>1, ExtentShape DEF Bottom, AtMost
    <3>3. OnScreen = {}
      BY <2>3, <3>1, <3>2 DEF OnScreen
    <3> QED
      BY <2>6, <3>3
  <2>7. CASE ui.scroll # 0 /\ activity # <<>>
    <3> DEFINE t == total
               v == ui.scroll
               d == Dropped
               e == Dropped'
               b == Bottom
               c == Bottom'
    <3>1. /\ t \in Nat /\ v \in Nat \ {0} /\ d \in Nat /\ e \in Nat /\ d <= e /\ d < t
          /\ ui'.scroll = v + h
      BY <1>1, <2>2, <2>3, <2>7, ExtentShape
    <3>2. b = LastRow(t, v, d)
      BY <1>1, <2>7, ExtentShape DEF Bottom, LastRow
    <3>3. c = LastRow(t + r, v + h, e)
      <4>1. c = LastRow(total', ui'.scroll, e)
        BY <2>4, Zenon DEF LastRow
      <4> QED
        BY <2>2, <3>1, <4>1
    <3>4. OnScreen = {n \in (b - Rows + 1)..b : n > d} /\ OnScreen' = {n \in (c - Rows + 1)..c : n > e}
      BY DEF OnScreen
    <3> HIDE DEF t, v, d, e, b, c
    <3>5. Drifts(b, c, d, e, r, h)
      BY <3>1, <3>2, <3>3, Drift
    <3>6. \/ OnScreen \subseteq OnScreen' \/ c - b \in 0..(r - h) \/ \E n \in OnScreen : n <= e
      BY <3>4, <3>5 DEF Drifts
    <3> QED
      BY <2>2, <2>7, <3>6 DEF b, c, e
  <2> QED
    BY <2>5, <2>6, <2>7
<1> QED
  BY <1>1, ReportsCorrect, UiCorrect, PTL DEF DashSpec, ScrolledBackHolds

=============================================================================
