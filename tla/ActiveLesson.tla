---------------------------- MODULE ActiveLesson ----------------------------
(***************************************************************************)
(* The saved lesson session: what a checkpoint holds, how the lesson       *)
(* screens build the next checkpoint from the last one, and which proposed *)
(* checkpoints the quest-progress hook accepts as a continuation of the    *)
(* durable one.  A pure module: the store, the lock and the screens that   *)
(* use it are in QuestProgress and LessonJourney.                          *)
(*                                                                         *)
(* Questions are 1..NQ, so a model index is the code's                     *)
(* currentQuestionIndex plus one.  The identity fields of a session        *)
(* (lesson, activity, content version, skill, start time, launch context)  *)
(* are determined by its id, which embeds the activity and the start time. *)
(***************************************************************************)
EXTENDS Naturals, FiniteSets

CONSTANTS
    NQ,          \* number of questions of a lesson
    Answer,      \* the answers a learner can give to a question
    Correct,     \* those graded correct
    Help,        \* assistance events a learner can cause
    Practice,    \* fluency-practice milestones (read aloud, phrases, reads)
    SessionId,   \* session ids, one per lesson launch
    KindOf,      \* the lesson role of the lesson a session id was made for
    MaxRev,      \* bound: checkpoints accepted per session
    NoAnswer, NoDraft, NoSession

ASSUME LessonAssumption ==
    /\ NQ \in Nat \ {0}
    /\ MaxRev \in Nat
    /\ Answer # {}
    /\ Correct \subseteq Answer
    /\ NoAnswer \notin Answer
    /\ IsFiniteSet(Help)

Question == 1..NQ

\* "retired" is a lesson the catalog no longer offers: sessions saved by an
\* earlier release only.
Kinds == {"reading", "fluency", "word_study", "retired"}

ASSUME KindAssumption == KindOf \in [SessionId -> Kinds]

Draft == [question : Question, answer : Answer]

Session == [id        : SessionId,
            rev       : 0..MaxRev,
            index     : Question,
            submitted : [Question -> Answer \union {NoAnswer}],
            draft     : Draft \union {NoDraft},
            assist    : SUBSET Help,
            practice  : SUBSET Practice]

ASSUME NoSessionAssumption == NoSession \notin Session /\ NoDraft \notin Draft

-----------------------------------------------------------------------------
NewSession(id) ==
    [id |-> id, rev |-> 0, index |-> 1,
     submitted |-> [q \in Question |-> NoAnswer],
     draft |-> NoDraft, assist |-> {}, practice |-> {}]

Answered(s) == {q \in Question : s.submitted[q] # NoAnswer}

SamePayload(s, t) == [s EXCEPT !.rev = 0] = [t EXCEPT !.rev = 0]

\* The rules of validateActiveLessonCheckpointTransition, one conjunct each:
\* a proposal may move forward by one question and add work, and may take
\* nothing accepted away.
FollowsPosition(old, new) ==
    /\ new.index \in {old.index, old.index + 1}
    /\ \A q \in Answered(new) : q <= new.index
    /\ new.index > old.index => old.index \in Answered(new)

\* Mutant: an answered question must stay answered, whatever the answer.
KeepsQuestions(old, new) == Answered(old) \subseteq Answered(new)

KeepsSubmissions(old, new) ==
    \A q \in Answered(old) : new.submitted[q] = old.submitted[q]

DraftFits(new) ==
    new.draft # NoDraft => /\ new.draft.question = new.index
                           /\ new.index \notin Answered(new)

KeepsSupport(old, new) ==
    /\ old.assist \subseteq new.assist
    /\ old.practice \subseteq new.practice
    /\ KindOf[new.id] # "fluency" => new.practice = {}

ValidTransition(old, new) ==
    /\ old.id = new.id
    /\ FollowsPosition(old, new)
    /\ KeepsSubmissions(old, new)
    /\ DraftFits(new)
    /\ KeepsSupport(old, new)

\* Mutant: the caller and the store both count the new revision.
AcceptedTwice(s) == [s EXCEPT !.rev = @ + 2]

Accepted(s) == [s EXCEPT !.rev = @ + 1]

-----------------------------------------------------------------------------
\* The checkpoints the lesson screens build.
SubmitCheckpoint(s, q, a) ==
    IF q \in Answered(s) THEN s
    ELSE [s EXCEPT !.index = q, !.submitted[q] = a, !.draft = NoDraft]

DraftCheckpoint(s, q, a) ==
    [s EXCEPT !.draft = [question |-> q, answer |-> a]]

AdvanceCheckpoint(s, q) == [s EXCEPT !.index = q, !.draft = NoDraft]

-----------------------------------------------------------------------------
\* The result a screen computes from its own evaluations, and the rewards
\* derived from it.
Result == [id       : SessionId,
           rev      : 0..MaxRev,
           graded   : [Question -> BOOLEAN],
           assisted : 0..Cardinality(Help),
           practice : SUBSET Practice]

Graded(s) == [q \in Question |-> s.submitted[q] \in Correct]

\* Mutants: the screen's grades are taken on trust; a question left open
\* counts as a wrong answer.
SupportsAnyGrades(s, r) ==
    s.index = NQ /\ Answered(s) = Question

SupportsUnanswered(s, r) ==
    s.index = NQ /\ r.graded = Graded(s)

\* activeSessionSupportsCompletion: every question was durably submitted and
\* the screen's grades, help count and practice agree with the saved ones.
SupportsCompletion(s, r) ==
    /\ s.index = NQ
    /\ Answered(s) = Question
    /\ r.graded = Graded(s)
    /\ r.assisted = Cardinality(s.assist)
    /\ KindOf[s.id] = "fluency" => r.practice = s.practice

Award(graded) ==
    10 * NQ + 5 * Cardinality({q \in Question : graded[q]})

\* recoverActiveLessonSession's content check.  That the launch context still
\* fits (isLaunchContextCompatible) is not part of it: "retired" stands for every
\* session that is discarded for good.
Resumable(s) ==
    /\ KindOf[s.id] # "retired"
    /\ s.index >= Cardinality(Answered(s))

=============================================================================
