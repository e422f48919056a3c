------------------------------ MODULE MCIntake ------------------------------
(***************************************************************************)
(* Intake for TLC: a text that matches two packs, captured as a file at    *)
(* two times, so that a repeated command may carry another time than the   *)
(* first, and imported as turns; an import that matches one pack, and a    *)
(* file that is refused.                                                   *)
(***************************************************************************)
EXTENDS Intake, TLC

CONSTANTS file, turns, ambiguous, clear, malformed, t1, t2, p1, p2

MCMatched == (ambiguous :> {p1, p2}) @@ (clear :> {p1})
                @@ (malformed :> {})

Text(source, content, time) == [source |-> source, content |-> content, observed |-> time]

MCMaterials ==
    {Text(file, ambiguous, t1), Text(file, ambiguous, t2), Text(turns, ambiguous, t1),
     Text(turns, clear, t2), Text(file, malformed, t1)}

Symmetry == Permutations(Processes)
=============================================================================
