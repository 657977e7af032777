----------------------- MODULE MCAdaptiveProgression ------------------------
(***************************************************************************)
(* A track of three units laid out as the authored packs are.  Two have a  *)
(* guided lesson at their own level and at the one below and two checkpoint *)
(* lessons at their own level; the last is a fluency chapter of two lessons.*)
(***************************************************************************)
EXTENDS AdaptiveProgression

Units == {1, 2, 3}

Guides(unit, level) ==
    {[name |-> "a", unit |-> unit, level |-> level, role |-> "guide"]}

Checkpoints(unit) ==
    {[name |-> n, unit |-> unit, level |-> unit, role |-> "checkpoint"] :
        n \in {"a", "b"}}

Practices(unit) ==
    {[name |-> n, unit |-> unit, level |-> unit, role |-> "fluency"] :
        n \in {"a", "b"}}

Catalog == UNION {Guides(u, u - 1) \union Guides(u, u) \union Checkpoints(u) :
                    u \in {1, 2}} \union Practices(3)

TwoIntervals == <<1, 2>>

=============================================================================
