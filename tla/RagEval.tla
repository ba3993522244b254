------------------------------ MODULE RagEval ------------------------------
(***************************************************************************)
(* Run of internal/rag/eval/eval.go with the evaluation runs and cases of  *)
(* internal/rag/store/store.go: the row of the run is made as running, the *)
(* cases are evaluated one by one in memory, stored in one transaction,    *)
(* and the row is set to done.  Every error returns at once, also one of a *)
(* statement that took effect.  The knowledge base may be deleted          *)
(* meanwhile.                                                              *)
(***************************************************************************)
EXTENDS Integers

CONSTANTS
    Evals,          \* calls of Run, each with its row
    Size,           \* [Evals -> number of cases]
    MaxEvalFaults   \* bound: errors

ASSUME EvalSizes == Size \in [Evals -> Nat \ {0}]
ASSUME EvalBounds == MaxEvalFaults \in Nat

VARIABLES
    evalBase,    \* "open" or "gone"
    run,         \* [Evals -> status of the row, or "none"]
    cases,       \* [Evals -> rows of rag_eval_case with the run's id]
    eval,        \* [Evals -> where the call is, results so far]
    caught,      \* observation: runs deleted with their base while they ran,
                 \* or begun after it
    evalFaults

evalVars == <<evalBase, run, cases, eval, caught, evalFaults>>

EvalTypeOK ==
    /\ evalBase \in {"open", "gone"}
    /\ run \in [Evals -> {"none", "running", "done"}]
    /\ cases \in [Evals -> Nat]
    /\ eval \in [Evals -> [pc : {"begin", "score", "finish", "ok", "failed", "cut"},
                           tried : Nat, results : Nat]]
    /\ caught \subseteq Evals
    /\ evalFaults \in 0..MaxEvalFaults

EvalInit ==
    /\ evalBase = "open"
    /\ run = [e \in Evals |-> "none"]
    /\ cases = [e \in Evals |-> 0]
    /\ eval = [e \in Evals |-> [pc |-> "begin", tried |-> 0, results |-> 0]]
    /\ caught = {}
    /\ evalFaults = 0

\* The row, whether or not the base still exists.
CreateEvalRun(e) ==
    /\ eval[e].pc = "begin"
    /\ run' = [run EXCEPT ![e] = "running"]
    /\ eval' = [eval EXCEPT ![e].pc = "score"]
    /\ caught' = IF evalBase = "gone" THEN caught \cup {e} ELSE caught
    /\ UNCHANGED <<evalBase, cases, evalFaults>>

\* One case: answer, metrics, result.
ScoreCase(e) ==
    /\ eval[e].pc = "score"
    /\ eval[e].tried < Size[e]
    /\ eval' = [eval EXCEPT ![e].tried = @ + 1, ![e].results = @ + 1]
    /\ UNCHANGED <<evalBase, run, cases, caught, evalFaults>>

\* Mutant: a case without metrics is passed over.
PassOver(e) ==
    /\ evalFaults < MaxEvalFaults
    /\ eval[e].pc = "score"
    /\ eval[e].tried < Size[e]
    /\ eval' = [eval EXCEPT ![e].tried = @ + 1]
    /\ evalFaults' = evalFaults + 1
    /\ UNCHANGED <<evalBase, run, cases, caught>>

\* Mutant: an error gives the row a status of its own, which no page knows.
FailMarks(e) ==
    /\ evalFaults < MaxEvalFaults
    /\ eval[e].pc \in {"score", "finish"}
    /\ run' = [run EXCEPT ![e] = "failed"]
    /\ eval' = [eval EXCEPT ![e].pc = "failed"]
    /\ evalFaults' = evalFaults + 1
    /\ UNCHANGED <<evalBase, cases, caught>>

InsertEvalCases(e) ==
    /\ eval[e].pc = "score"
    /\ eval[e].tried = Size[e]
    /\ cases' = [cases EXCEPT ![e] = eval[e].results]
    /\ eval' = [eval EXCEPT ![e].pc = "finish"]
    /\ UNCHANGED <<evalBase, run, caught, evalFaults>>

\* The row after its UPDATE, if it is still there.
Finished(e) == [run EXCEPT ![e] = IF @ = "none" THEN "none" ELSE "done"]

UpdateEvalRun(e) ==
    /\ eval[e].pc = "finish"
    /\ run' = Finished(e)
    /\ eval' = [eval EXCEPT ![e].pc = "ok"]
    /\ UNCHANGED <<evalBase, cases, caught, evalFaults>>

\* INSERT of the row, ComputeMetrics, INSERT of the cases or UPDATE of the row
\* returns an error, a statement with or without its effect.  The caller hears
\* the same of each; "cut" tells the calls whose error is that of the UPDATE.
FailEval(e) ==
    /\ evalFaults < MaxEvalFaults
    /\ \/ /\ eval[e].pc = "begin"
          /\ run' \in {run, [run EXCEPT ![e] = "running"]}
          /\ UNCHANGED cases
       \/ /\ eval[e].pc = "score"
          /\ \/ UNCHANGED cases
             \/ eval[e].tried = Size[e] /\ cases' = [cases EXCEPT ![e] = eval[e].results]
          /\ UNCHANGED run
       \/ /\ eval[e].pc = "finish"
          /\ run' \in {run, Finished(e)}
          /\ UNCHANGED cases
    /\ caught' = IF evalBase = "gone" THEN caught \cup {e} ELSE caught
    /\ eval' = [eval EXCEPT ![e].pc = IF @ = "finish" THEN "cut" ELSE "failed"]
    /\ evalFaults' = evalFaults + 1
    /\ UNCHANGED evalBase

\* DeleteKB: the cases of the base's runs, then the runs, in one transaction.
DeleteEvalBase ==
    /\ evalBase = "open"
    /\ evalBase' = "gone"
    /\ run' = [e \in Evals |-> "none"]
    /\ cases' = [e \in Evals |-> IF run[e] = "none" THEN cases[e] ELSE 0]
    /\ caught' = caught \cup {e \in Evals : eval[e].pc \in {"score", "finish"}}
    /\ UNCHANGED <<eval, evalFaults>>

EvalNext ==
    \/ \E e \in Evals : \/ CreateEvalRun(e) \/ ScoreCase(e) \/ FailEval(e)
                        \/ InsertEvalCases(e) \/ UpdateEvalRun(e)
    \/ DeleteEvalBase

EvalSpec == EvalInit /\ [][EvalNext]_evalVars

-----------------------------------------------------------------------------
\* Cases are stored all or not at all, and a run is shown as done only with all
\* of them, by a call that came as far as its UPDATE: an error before it leaves
\* the run as it was made.
DoneIsComplete ==
    \A e \in Evals :
        /\ cases[e] \in {0, Size[e]}
        /\ run[e] = "done" => eval[e].pc \in {"ok", "cut"} /\ cases[e] = Size[e]

\* A run whose caller got its metrics is never left as running, not even when
\* the base went meanwhile.
AnsweredIsDone ==
    \A e \in Evals : eval[e].pc = "ok" => run[e] # "running"

\* Unless the base was deleted while the call ran, what it was told stays until
\* the base goes, and no case is stored without its run.
CasesNeedRun ==
    \A e \in Evals \ caught :
        /\ eval[e].pc = "ok" /\ evalBase = "open" => run[e] = "done"
        /\ run[e] = "none" => cases[e] = 0

\* Runs, cases and what the callers were told agree.
RunsTellTrue == DoneIsComplete /\ AnsweredIsDone /\ CasesNeedRun

=============================================================================
