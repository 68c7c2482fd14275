--------------------------- MODULE MCReviewBatches ---------------------------
(***************************************************************************)
(* Instances of ReviewBatches for TLC.  The histories have no issue, more  *)
(* issues than a chunk may have parts, an issue without text, texts of     *)
(* exactly one part, of one rune more and of exactly two parts, a last     *)
(* part that shares its chunk with the next issue, and later versions of   *)
(* the same issues.                                                        *)
(***************************************************************************)
EXTENDS ReviewBatches

Entry(number, version, size) == [number |-> number, version |-> version, size |-> size]

FiveHistories ==
  { <<>>,
    << Entry(1, 1, 0), Entry(2, 1, 0), Entry(3, 1, 0) >>,
    << Entry(1, 1, 3), Entry(2, 1, 1) >>,
    << Entry(1, 2, 4), Entry(2, 1, 0) >>,
    << Entry(1, 1, 4), Entry(2, 1, 0), Entry(3, 1, 6) >> }

Lists == {<<>>, <<1>>, <<2>>, <<3>>, <<2, 1>>, <<1, 1>>}

=============================================================================
