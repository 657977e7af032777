--------------------------- MODULE MCLessonJourney --------------------------
(***************************************************************************)
(* Instances of LessonJourney for TLC.                                     *)
(***************************************************************************)
EXTENDS LessonJourney, TLC

CONSTANT s1

OneReading == s1 :> "reading"

TabSymmetry == Permutations(Tab)

=============================================================================
