---------------------------- MODULE MCSubmission ----------------------------
(* Instances of Submission for TLC. *)
EXTENDS Submission, TLC

CONSTANTS t1, t2, t3, m1

ThreeTabs   == {t1, t2, t3}
OneMember   == {m1}
TabSymmetry == Permutations(ThreeTabs)

Survey == [archived |-> FALSE, quiz |-> FALSE, single |-> TRUE, edits |-> FALSE,
           threshold |-> None, max |-> 1, cooldown |-> 0,
           policy |-> "keep_best", lockOnPass |-> FALSE]
Quiz   == [Survey EXCEPT !.quiz = TRUE, !.threshold = 2]

OneShot   == Survey
Unlimited == [Survey EXCEPT !.single = FALSE]
Edits     == [Survey EXCEPT !.edits = TRUE]
Archived  == [Survey EXCEPT !.archived = TRUE]
BestOfTwo == [Quiz EXCEPT !.max = 2]
LastOfAny == [Quiz EXCEPT !.max = 0, !.policy = "keep_latest"]
UntilPass == [Quiz EXCEPT !.max = 0, !.cooldown = 2, !.lockOnPass = TRUE]

FixedConfigs   == {OneShot, Unlimited, Edits, BestOfTwo, LastOfAny, UntilPass}
ChangedConfigs == {Unlimited, Edits, Archived, BestOfTwo, LastOfAny}
=============================================================================
