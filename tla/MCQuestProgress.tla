--------------------------- MODULE MCQuestProgress --------------------------
(***************************************************************************)
(* Instances of QuestProgress for TLC: a reading and a word-study session; *)
(* or a fluency, a retired and a word-study one.                           *)
(***************************************************************************)
EXTENDS QuestProgress, TLC

CONSTANTS s1, s2, s3

ReadingAndWordStudy == s1 :> "reading" @@ s2 :> "word_study"
FluencyRetiredWordStudy == s1 :> "fluency" @@ s2 :> "retired"
                           @@ s3 :> "word_study"

TabSymmetry == Permutations(Tab)

=============================================================================
