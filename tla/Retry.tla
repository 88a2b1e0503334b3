-------------------------------- MODULE Retry --------------------------------
(***************************************************************************)
(* The retry engine of services/retry.rs: whether a member's new attempt   *)
(* is allowed, and what their one canonical response becomes.  Pure.       *)
(*                                                                         *)
(* An Option<i32> score is a natural number or None; an Option<bool>    *)
(* `passed` is "yes", "no" or "none".  A form configuration is a record    *)
(* with the retry columns of migrations/009_form_retries.sql.                     *)
(***************************************************************************)
EXTENDS Naturals

CONSTANTS None   \* a value that is not there

ASSUME NoneAssumption == None \notin Nat

Score  == Nat \cup {None}
Passed == {"yes", "no", "none"}
Policy == {"keep_best", "keep_latest"}

Config == [archived : BOOLEAN, quiz : BOOLEAN, single : BOOLEAN, edits : BOOLEAN,
           threshold : Score, max : Nat, cooldown : Nat, policy : Policy,
           lockOnPass : BOOLEAN]

\* What post_submit makes of a form's flags.
Single(c)   == c.single \/ c.quiz
Editable(c) == c.edits /\ ~c.quiz
Governed(c) == Single(c) /\ ~Editable(c)

\* What update_form stores: quizzes are one-shot, surveys have no threshold.
Normal(c) == [c EXCEPT !.single = @ \/ c.quiz,
                       !.edits = @ /\ ~c.quiz,
                       !.threshold = IF c.quiz THEN @ ELSE None]

\* Mutants of the refusals: the wrong value of `passed`; one attempt too many;
\* the comparison of the cooldown turned round.
PassedUngraded(cfg, e) == cfg.lockOnPass /\ e.passed = "none"
ExhaustedLate(cfg, e) == cfg.max > 0 /\ e.count > cfg.max
CoolingBackwards(now, cfg, e) == cfg.cooldown > 0 /\ now > e.edited + cfg.cooldown

\* The three refusals, in the order decide() looks for them.
AlreadyPassed(cfg, e) == cfg.lockOnPass /\ e.passed = "yes"
Exhausted(cfg, e)     == cfg.max > 0 /\ e.count >= cfg.max
Cooling(now, cfg, e)  == cfg.cooldown > 0 /\ now < e.edited + cfg.cooldown

Denied(now, cfg, e) ==
    AlreadyPassed(cfg, e) \/ Exhausted(cfg, e) \/ Cooling(now, cfg, e)

CombinedPassed(a, b) ==
    IF a = "none" /\ b = "none" THEN "none"
    ELSE IF "yes" \in {a, b} THEN "yes" ELSE "no"

\* keep_best has something to compare only when both attempts are graded.
ScoreAwareBest(cfg, e, new) ==
    cfg.policy = "keep_best" /\ e.score # None /\ new.score # None

\* The accepted first attempt.
FirstAttempt(new) ==
    [overwrite |-> TRUE, score |-> new.score, passed |-> new.passed, count |-> 1]

\* Mutant: an equal score replaces the first best.
NextAttemptOnTie(cfg, e, new) ==
    IF ScoreAwareBest(cfg, e, new)
    THEN [overwrite |-> new.score >= e.score,
          score     |-> IF new.score > e.score THEN new.score ELSE e.score,
          passed    |-> CombinedPassed(e.passed, new.passed),
          count     |-> e.count + 1]
    ELSE [overwrite |-> TRUE, score |-> new.score, passed |-> new.passed,
          count     |-> e.count + 1]

\* A further accepted attempt after e; on a tie the first best stays.
NextAttempt(cfg, e, new) ==
    IF ScoreAwareBest(cfg, e, new)
    THEN [overwrite |-> new.score > e.score,
          score     |-> IF new.score > e.score THEN new.score ELSE e.score,
          passed    |-> CombinedPassed(e.passed, new.passed),
          count     |-> e.count + 1]
    ELSE [overwrite |-> TRUE, score |-> new.score, passed |-> new.passed,
          count     |-> e.count + 1]

\* `passed` is stored only for quizzes that declare a threshold.
StoredPassed(cfg, score) ==
    IF cfg.quiz /\ score # None /\ cfg.threshold # None
    THEN IF score >= cfg.threshold THEN "yes" ELSE "no"
    ELSE "none"
=============================================================================
