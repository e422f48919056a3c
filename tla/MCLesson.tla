------------------------------ MODULE MCLesson ------------------------------
(***************************************************************************)
(* Lesson for TLC: the learner's loop on the lesson's own activity, and    *)
(* the renderer on every valid input of up to four small records.          *)
(***************************************************************************)
EXTENDS Lesson

MCRecords == [event : 1..3, credits : 0..2]

MCInputs ==
    [records : UNION {[1..n -> MCRecords] : n \in 2..4}, cents : 1..2,
     stops : BOOLEAN]

MCActivities == {input \in MCInputs : ValidInput(input)}

\* Just below and at the minimum of 24 characters, and blank.
MCLengths == {0, 23, 24}

MCTimes == {0}
=============================================================================
