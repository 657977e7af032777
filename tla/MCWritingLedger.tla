--------------------------- MODULE MCWritingLedger --------------------------
(***************************************************************************)
(* Two clock readings a day.  Reservations and limit keep the proportions  *)
(* of the code: 1800 and 2000 neurons of at most 4000.                     *)
(***************************************************************************)
EXTENDS WritingLedger, TLC

CONSTANT LastTime

Clock == 0..LastTime

DayOf == [t \in Clock |-> t \div 2]

AllDays == {t \div 2 : t \in Clock}

Neurons == [op \in Operations |-> IF op = "evaluate" THEN 10 ELSE 9]

Interchangeable == Permutations(Workers) \union Permutations(RequestIds)
                   \union Permutations(Payloads)

=============================================================================
