--------------------------- MODULE PlatformProofs ---------------------------
(***************************************************************************)
(* What a caller was told holds: a profile that was saved, an evaluation   *)
(* run that is done, a job that has rolled out, an order number that is    *)
(* unique, a chat's count of its answers, for any number of calls, jobs,   *)
(* days, sessions and faults; and the types of MCPlatform, where these run *)
(* beside sessions, the chunker and the parser.                            *)
(***************************************************************************)
EXTENDS MCPlatform, SessionProofs, ChunkerProofs, MarkdownProofs, FiniteSetTheorems, TLAPS

-----------------------------------------------------------------------------
(* Profiles *)

\* A call that updates has a row to update.  While the database works nobody is
\* past its INSERT before there is a row, and when there is one somebody has
\* brought its UPDATE through or still has it to do.
OnTheWay ==
    /\ \A c \in Saves : save[c].pc = "update" => row # NoRow
    /\ saveFaults = 0 =>
         IF row = NoRow THEN \A c \in Saves : save[c].pc \in {"count", "insert"}
         ELSE \E c \in Saves : save[c].pc \in {"update", "ok"}

\* What the calls were sent and told, and the fields of the row.
FieldsAreTold == SavedFieldsStay /\ FieldsWereSent /\ SavesDoNotMix

ProfileInv == ProfileTypeOK /\ OnTheWay /\ FieldsAreTold

\* A row is not the absence of one.
LEMMA RowsAreNoNoRow ==
    ASSUME NEW r, DOMAIN r = Fields
    PROVE  r # NoRow
    BY FieldsAssumption DEF NoRow

\* The first UPDATE or INSERT finds no row.
LEMMA ProfileInvInit == ProfileInit => ProfileInv
    BY SaveBounds
       DEF ProfileInit, ProfileInv, ProfileTypeOK, OnTheWay, FieldsAreTold, SavedFieldsStay,
           FieldsWereSent, SavesDoNotMix, NoRow

\* The call that goes on, and the others.
LEMMA SaveMoves ==
    ASSUME ProfileInv, NEW c \in Saves,
           NEW pc \in {"insert", "update", "ok", "failed", "cut"},
           save' = [save EXCEPT ![c].pc = pc]
    PROVE  /\ save' \in [Saves -> [pc : {"count", "insert", "update", "ok", "failed", "cut"},
                                   fields : (SUBSET Fields) \ {{}}]]
           /\ save'[c].pc = pc
           /\ \A d \in Saves \ {c} : save'[d].pc = save[d].pc
           /\ \A d \in Saves : save'[d].fields = save[d].fields /\ save[d].fields \subseteq Fields
    BY DEF ProfileInv, ProfileTypeOK

\* A call goes on, or ends with an error, and the row is as it was.
LEMMA RowStays ==
    ASSUME ProfileInv, NEW c \in Saves, save[c].pc \notin {"ok", "cut"},
           NEW pc \in {"insert", "update", "failed", "cut"},
           save' = [save EXCEPT ![c].pc = pc], row' = row
    PROVE  FieldsAreTold' /\ (saveFaults' \in 0..MaxSaveFaults => ProfileTypeOK')
<1>1. /\ save'[c].pc = pc /\ \A d \in Saves \ {c} : save'[d].pc = save[d].pc
      /\ \A d \in Saves : save'[d].fields = save[d].fields /\ save[d].fields \subseteq Fields
    BY SaveMoves
<1>2. FieldsAreTold
    BY DEF ProfileInv
<1>3. SavedFieldsStay' /\ FieldsWereSent' /\ SavesDoNotMix'
    BY <1>1, <1>2 DEF FieldsAreTold, SavedFieldsStay, FieldsWereSent, SavesDoNotMix
<1> QED
    BY <1>3, SaveMoves DEF FieldsAreTold, ProfileInv, ProfileTypeOK

\* The INSERT makes a row of empty fields, which no call was told of before.
LEMMA RowMade ==
    ASSUME ProfileInv, NEW c \in Saves, row = NoRow, row' = EmptyRow,
           NEW pc \in {"update", "failed"}, save' = [save EXCEPT ![c].pc = pc]
    PROVE  /\ row' # NoRow /\ FieldsAreTold'
           /\ saveFaults' \in 0..MaxSaveFaults => ProfileTypeOK'
<1>1. row' \in [Fields -> {Unset}] /\ row' # NoRow
    BY RowsAreNoNoRow DEF EmptyRow
<1>2. \A d \in Saves : save'[d].pc # "ok"
    BY SaveMoves DEF ProfileInv, FieldsAreTold, SavedFieldsStay
<1>3. \A d \in Saves : save'[d].fields \subseteq Fields
    BY SaveMoves
<1>4. SavedFieldsStay' /\ FieldsWereSent' /\ SavesDoNotMix'
    BY <1>1, <1>2, <1>3, UnsetAssumption DEF SavedFieldsStay, FieldsWereSent, SavesDoNotMix
<1> QED
    BY <1>1, <1>4, SaveMoves DEF FieldsAreTold, ProfileTypeOK

\* The UPDATE puts the call in all the fields it was sent and nowhere else,
\* whether the call hears of it or gets an error.
LEMMA RowUpdated ==
    ASSUME ProfileInv, NEW c \in Saves, save[c].pc = "update", row' = Updated(c),
           NEW pc \in {"ok", "cut"}, save' = [save EXCEPT ![c].pc = pc]
    PROVE  /\ row' # NoRow /\ FieldsAreTold'
           /\ saveFaults' \in 0..MaxSaveFaults => ProfileTypeOK'
<1>1. row # NoRow /\ row \in [Fields -> Saves \cup {Unset}]
    BY DEF ProfileInv, ProfileTypeOK, OnTheWay
<1>2. row' \in [Fields -> Saves \cup {Unset}] /\ row' # NoRow
    BY <1>1, RowsAreNoNoRow DEF Updated
<1>3. \A f \in Fields : row'[f] = IF f \in save[c].fields THEN c ELSE row[f]
    BY DEF Updated
<1>4. /\ save'[c].pc = pc /\ \A d \in Saves \ {c} : save'[d].pc = save[d].pc
      /\ \A d \in Saves : save'[d].fields = save[d].fields /\ save[d].fields \subseteq Fields
    BY SaveMoves
<1>5. FieldsAreTold
    BY DEF ProfileInv
<1>6. SavedFieldsStay'
  <2> SUFFICES ASSUME NEW d \in Saves, save'[d].pc = "ok", NEW f \in save'[d].fields
               PROVE  row'[f] # Unset
    BY <1>2 DEF SavedFieldsStay
  <2>1. f \in Fields /\ f \in save[d].fields
    BY <1>4
  <2>2. CASE f \in save[c].fields
    BY <1>3, <2>1, <2>2, UnsetAssumption
  <2>3. CASE f \notin save[c].fields
    <3>1. d # c /\ save[d].pc = "ok"
      BY <1>4, <2>1, <2>3
    <3> QED
      BY <1>3, <1>5, <2>1, <2>3, <3>1 DEF FieldsAreTold, SavedFieldsStay
  <2> QED
    BY <2>2, <2>3
<1>7. FieldsWereSent'
  <2> SUFFICES ASSUME NEW d \in Saves, NEW f \in Fields, row'[f] = d
               PROVE  save'[d].pc \in {"ok", "cut"} /\ f \in save'[d].fields
    BY DEF FieldsWereSent
  <2>1. CASE f \in save[c].fields
    BY <1>3, <1>4, <2>1
  <2>2. CASE f \notin save[c].fields
    <3>1. row[f] = d
      BY <1>3, <2>2
    <3>2. save[d].pc \in {"ok", "cut"} /\ f \in save[d].fields
      BY <1>1, <1>5, <3>1 DEF FieldsAreTold, FieldsWereSent
    <3> QED
      BY <1>4, <3>2
  <2> QED
    BY <2>1, <2>2
<1>8. SavesDoNotMix'
  <2> SUFFICES ASSUME NEW a \in Saves, NEW b \in Saves, a # b,
                      NEW f \in save'[a].fields \cap save'[b].fields,
                      NEW g \in save'[a].fields \cap save'[b].fields,
                      row'[f] = a, row'[g] = b
               PROVE  FALSE
    BY DEF SavesDoNotMix
  <2>1. /\ f \in save[a].fields \cap save[b].fields /\ g \in save[a].fields \cap save[b].fields
        /\ f \in Fields /\ g \in Fields
    BY <1>4
  <2>2. a # c
    BY <1>3, <2>1
  <2>3. b # c
    BY <1>3, <2>1
  <2>4. row[f] = a /\ row[g] = b
    BY <1>3, <2>1, <2>2, <2>3
  <2> QED
    BY <1>1, <1>5, <2>1, <2>4 DEF FieldsAreTold, SavesDoNotMix
<1> QED
    BY <1>2, <1>6, <1>7, <1>8, SaveMoves DEF FieldsAreTold, ProfileTypeOK

\* Every step of a save keeps the invariant.
LEMMA ProfileInvNext == ProfileInv /\ [ProfileNext]_profileVars => ProfileInv'
<1> SUFFICES ASSUME ProfileInv, [ProfileNext]_profileVars PROVE ProfileInv'
    OBVIOUS
<1>0. saveFaults \in 0..MaxSaveFaults /\ OnTheWay
    BY DEF ProfileInv, ProfileTypeOK
<1>1. ASSUME NEW c \in Saves, CountRows(c) PROVE ProfileInv'
  <2> DEFINE pc == IF row = NoRow THEN "insert" ELSE "update"
  <2>1. /\ save' = [save EXCEPT ![c].pc = pc] /\ row' = row /\ saveFaults' = saveFaults
        /\ save[c].pc = "count"
    BY <1>1 DEF CountRows
  <2>2. FieldsAreTold' /\ ProfileTypeOK'
    BY <1>0, <2>1, RowStays
  <2>3. save'[c].pc = pc /\ \A d \in Saves \ {c} : save'[d].pc = save[d].pc
    BY <2>1, SaveMoves
  <2>4. OnTheWay'
    BY <1>0, <2>1, <2>3 DEF OnTheWay
  <2> QED
    BY <2>2, <2>4 DEF ProfileInv
<1>2. ASSUME NEW c \in Saves, InsertRow(c) PROVE ProfileInv'
  <2>1. CASE row = NoRow
    <3>1. row' = EmptyRow /\ save' = [save EXCEPT ![c].pc = "update"] /\ saveFaults' = saveFaults
      BY <1>2, <2>1 DEF InsertRow
    <3>2. row' # NoRow /\ FieldsAreTold' /\ ProfileTypeOK'
      BY <1>0, <2>1, <3>1, RowMade
    <3>3. save'[c].pc = "update"
      BY <3>1, SaveMoves
    <3> QED
      BY <3>2, <3>3 DEF ProfileInv, OnTheWay
  <2>2. CASE row # NoRow
    <3>1. /\ row' = row /\ save' = [save EXCEPT ![c].pc = "failed"] /\ saveFaults' = saveFaults
          /\ save[c].pc = "insert"
      BY <1>2, <2>2 DEF InsertRow
    <3>2. FieldsAreTold' /\ ProfileTypeOK'
      BY <1>0, <3>1, RowStays
    <3>3. save'[c].pc = "failed" /\ \A d \in Saves \ {c} : save'[d].pc = save[d].pc
      BY <3>1, SaveMoves
    <3>4. OnTheWay'
      BY <1>0, <2>2, <3>1, <3>3 DEF OnTheWay
    <3> QED
      BY <3>2, <3>4 DEF ProfileInv
  <2> QED
    BY <2>1, <2>2
<1>3. ASSUME NEW c \in Saves, UpdateRow(c) PROVE ProfileInv'
  <2>1. /\ save[c].pc = "update" /\ row' = Updated(c)
        /\ save' = [save EXCEPT ![c].pc = "ok"] /\ saveFaults' = saveFaults
    BY <1>3 DEF UpdateRow
  <2>2. row' # NoRow /\ FieldsAreTold' /\ ProfileTypeOK'
    BY <1>0, <2>1, RowUpdated
  <2>3. save'[c].pc = "ok"
    BY <2>1, SaveMoves
  <2> QED
    BY <2>2, <2>3 DEF ProfileInv, OnTheWay
<1>4. ASSUME NEW c \in Saves, FailSave(c) PROVE ProfileInv'
  <2> DEFINE pc == IF save[c].pc = "update" THEN "cut" ELSE "failed"
  <2>1. /\ save' = [save EXCEPT ![c].pc = pc] /\ save[c].pc \in {"count", "insert", "update"}
        /\ saveFaults' \in 0..MaxSaveFaults /\ saveFaults' # 0
    BY <1>0, <1>4, SaveBounds DEF FailSave
  <2>2. FieldsAreTold' /\ ProfileTypeOK' /\ (row # NoRow => row' # NoRow)
    <3>1. CASE row' = row
      BY <2>1, <3>1, RowStays
    <3>2. CASE row = NoRow /\ row' = EmptyRow /\ save[c].pc = "insert"
      BY <2>1, <3>2, RowMade
    <3>3. CASE save[c].pc = "update" /\ row' = Updated(c)
      BY <2>1, <3>3, RowUpdated
    <3> QED
      BY <1>4, <3>1, <3>2, <3>3 DEF FailSave
  <2>3. save'[c].pc = pc /\ \A d \in Saves \ {c} : save'[d].pc = save[d].pc
    BY <2>1, SaveMoves
  <2>4. OnTheWay'
    BY <1>0, <2>1, <2>2, <2>3 DEF OnTheWay
  <2> QED
    BY <2>2, <2>4 DEF ProfileInv
<1>5. CASE UNCHANGED profileVars
    BY <1>5
       DEF profileVars, ProfileInv, ProfileTypeOK, OnTheWay, FieldsAreTold, SavedFieldsStay,
           FieldsWereSent, SavesDoNotMix
<1> QED
    BY <1>1, <1>2, <1>3, <1>4, <1>5 DEF ProfileNext

\* First saves may meet in any number, and the database may fail anywhere, also
\* in a statement that took effect: what each call was told holds, the fields
\* of two saves do not mix, and unless the database fails one save gets through.
THEOREM SavesAreTold == ProfileSpec => []SavesTellTrue
<1>1. ProfileInv => SavesTellTrue
  <2>1. ProfileInv => OneSaveWins
    BY DEF ProfileInv, OnTheWay, OneSaveWins, Ended
  <2> QED
    BY <2>1 DEF ProfileInv, FieldsAreTold, SavesTellTrue
<1> QED
    BY <1>1, ProfileInvInit, ProfileInvNext, PTL DEF ProfileSpec

-----------------------------------------------------------------------------
(* Evaluation runs *)

\* How far the call is tells what its row and its cases are.
EvalOK(e) ==
    /\ eval[e].tried <= Size[e] /\ eval[e].results = eval[e].tried
    /\ eval[e].pc = "begin" => run[e] = "none" /\ cases[e] = 0
    /\ eval[e].pc = "finish" => eval[e].results = Size[e]
    /\ eval[e].pc = "finish" /\ run[e] # "none" => cases[e] = Size[e]
    /\ cases[e] \in {0, Size[e]}
    /\ eval[e].pc = "score" => cases[e] = 0
    /\ run[e] = "done" => eval[e].pc \in {"ok", "cut"} /\ cases[e] = Size[e]
    /\ eval[e].pc = "ok" => run[e] # "running"
    /\ e \notin caught =>
         /\ eval[e].pc \in {"score", "finish"} => run[e] = "running"
         /\ eval[e].pc = "ok" /\ evalBase = "open" => run[e] = "done"
         /\ run[e] = "none" => cases[e] = 0

EvalInv == EvalTypeOK /\ \A e \in Evals : EvalOK(e)

\* Nothing has begun.
LEMMA EvalInvInit == EvalInit => EvalInv
<1> SUFFICES ASSUME EvalInit PROVE EvalInv
    OBVIOUS
<1>1. EvalTypeOK
    BY EvalBounds DEF EvalInit, EvalTypeOK
<1>2. ASSUME NEW e \in Evals PROVE EvalOK(e)
    BY EvalSizes DEF EvalInit, EvalOK
<1> QED
    BY <1>1, <1>2 DEF EvalInv

\* A call moves its own row and cases only.
LEMMA EvalStepKeeps ==
    ASSUME EvalInv, NEW e \in Evals, EvalTypeOK', EvalOK(e)',
           evalBase' = evalBase, caught \subseteq caught',
           \A d \in Evals \ {e} : /\ run'[d] = run[d] /\ cases'[d] = cases[d]
                                  /\ eval'[d] = eval[d]
    PROVE  EvalInv'
<1>1. ASSUME NEW d \in Evals, d # e PROVE EvalOK(d)'
    BY <1>1 DEF EvalInv, EvalOK
<1> QED
    BY <1>1 DEF EvalInv

\* Every step of the runs, and the deletion of the base, keeps the invariant.
LEMMA EvalInvNext == EvalInv /\ [EvalNext]_evalVars => EvalInv'
<1> SUFFICES ASSUME EvalInv, [EvalNext]_evalVars PROVE EvalInv'
    OBVIOUS
<1> USE EvalSizes, EvalBounds
<1>1. ASSUME NEW e \in Evals, CreateEvalRun(e) PROVE EvalInv'
  <2>1. EvalTypeOK'
    BY <1>1 DEF CreateEvalRun, EvalInv, EvalTypeOK
  <2>2. EvalOK(e)'
    BY <1>1 DEF CreateEvalRun, EvalInv, EvalTypeOK, EvalOK
  <2>3. /\ evalBase' = evalBase /\ caught \subseteq caught'
        /\ \A d \in Evals \ {e} : run'[d] = run[d] /\ cases'[d] = cases[d] /\ eval'[d] = eval[d]
    BY <1>1 DEF CreateEvalRun, EvalInv, EvalTypeOK
  <2> QED
    BY <2>1, <2>2, <2>3, EvalStepKeeps
<1>2. ASSUME NEW e \in Evals, ScoreCase(e) PROVE EvalInv'
  <2> DEFINE q == [eval[e] EXCEPT !.tried = @ + 1, !.results = @ + 1]
  <2>1. /\ eval' = [eval EXCEPT ![e] = q]
        /\ q \in [pc : {"begin", "score", "finish", "ok", "failed", "cut"}, tried : Nat, results : Nat]
        /\ q.pc = "score" /\ q.tried = eval[e].tried + 1 /\ q.results = eval[e].results + 1
    BY <1>2 DEF ScoreCase, EvalInv, EvalTypeOK
  <2> HIDE DEF q
  <2>2. EvalTypeOK'
    BY <1>2, <2>1 DEF ScoreCase, EvalInv, EvalTypeOK
  <2>3. eval'[e] = q /\ \A d \in Evals \ {e} : eval'[d] = eval[d]
    BY <2>1 DEF EvalInv, EvalTypeOK
  <2>4. /\ EvalOK(e) /\ eval[e].pc = "score" /\ eval[e].tried < Size[e]
        /\ UNCHANGED <<evalBase, run, cases, caught>>
        /\ eval[e].tried \in Nat /\ eval[e].results \in Nat /\ Size[e] \in Nat
    BY <1>2 DEF ScoreCase, EvalInv, EvalTypeOK
  <2>5. EvalOK(e)'
    BY <2>1, <2>3, <2>4 DEF EvalOK
  <2> QED
    BY <2>2, <2>3, <2>4, <2>5, EvalStepKeeps
<1>3. ASSUME NEW e \in Evals, FailEval(e) PROVE EvalInv'
  <2>0. /\ run' = run \/ run' = [run EXCEPT ![e] = "running"] \/ run' = Finished(e)
        /\ cases' = cases \/ cases' = [cases EXCEPT ![e] = eval[e].results]
    BY <1>3 DEF FailEval
  <2>1. EvalTypeOK'
    BY <1>3, <2>0 DEF FailEval, Finished, EvalInv, EvalTypeOK
  <2>2. EvalOK(e)'
    <3>1. EvalOK(e) /\ EvalTypeOK
      BY DEF EvalInv
    <3>2. CASE eval[e].pc = "begin"
      BY <1>3, <3>1, <3>2 DEF FailEval, EvalTypeOK, EvalOK
    <3>3. CASE eval[e].pc = "score"
      BY <1>3, <3>1, <3>3 DEF FailEval, EvalTypeOK, EvalOK
    <3>4. CASE eval[e].pc = "finish"
      BY <1>3, <3>1, <3>4 DEF FailEval, Finished, EvalTypeOK, EvalOK
    <3> QED
      BY <1>3, <3>2, <3>3, <3>4 DEF FailEval
  <2>3. /\ evalBase' = evalBase /\ caught \subseteq caught'
        /\ \A d \in Evals \ {e} : run'[d] = run[d] /\ cases'[d] = cases[d] /\ eval'[d] = eval[d]
    BY <1>3, <2>0 DEF FailEval, Finished, EvalInv, EvalTypeOK
  <2> QED
    BY <2>1, <2>2, <2>3, EvalStepKeeps
<1>4. ASSUME NEW e \in Evals, InsertEvalCases(e) PROVE EvalInv'
  <2>1. EvalTypeOK'
    BY <1>4 DEF InsertEvalCases, EvalInv, EvalTypeOK
  <2>2. EvalOK(e)'
    BY <1>4 DEF InsertEvalCases, EvalInv, EvalTypeOK, EvalOK
  <2>3. /\ evalBase' = evalBase /\ caught \subseteq caught'
        /\ \A d \in Evals \ {e} : run'[d] = run[d] /\ cases'[d] = cases[d] /\ eval'[d] = eval[d]
    BY <1>4 DEF InsertEvalCases, EvalInv, EvalTypeOK
  <2> QED
    BY <2>1, <2>2, <2>3, EvalStepKeeps
<1>5. ASSUME NEW e \in Evals, UpdateEvalRun(e) PROVE EvalInv'
  <2>1. EvalTypeOK'
    BY <1>5 DEF UpdateEvalRun, Finished, EvalInv, EvalTypeOK
  <2>2. EvalOK(e)'
    BY <1>5 DEF UpdateEvalRun, Finished, EvalInv, EvalTypeOK, EvalOK
  <2>3. /\ evalBase' = evalBase /\ caught \subseteq caught'
        /\ \A d \in Evals \ {e} : run'[d] = run[d] /\ cases'[d] = cases[d] /\ eval'[d] = eval[d]
    BY <1>5 DEF UpdateEvalRun, Finished, EvalInv, EvalTypeOK
  <2> QED
    BY <2>1, <2>2, <2>3, EvalStepKeeps
<1>6. CASE DeleteEvalBase
  <2>1. EvalTypeOK'
    BY <1>6 DEF DeleteEvalBase, EvalInv, EvalTypeOK
  <2>2. ASSUME NEW e \in Evals PROVE EvalOK(e)'
    BY <1>6 DEF DeleteEvalBase, EvalInv, EvalTypeOK, EvalOK
  <2> QED
    BY <2>1, <2>2 DEF EvalInv
<1>7. CASE UNCHANGED evalVars
  <2>1. EvalTypeOK'
    BY <1>7 DEF evalVars, EvalInv, EvalTypeOK
  <2>2. ASSUME NEW e \in Evals PROVE EvalOK(e)'
    BY <1>7 DEF evalVars, EvalInv, EvalOK
  <2> QED
    BY <2>1, <2>2 DEF EvalInv
<1> QED
    BY <1>1, <1>2, <1>3, <1>4, <1>5, <1>6, <1>7 DEF EvalNext

\* Wherever errors and the deletion of the base strike, also an error of a
\* statement that took effect: a run that is done has the results of all its
\* cases and its call came as far as the UPDATE, none is left running by a call
\* that got its metrics, and no case is stored without its run unless the base
\* was deleted beside the call.
THEOREM RunsAreTold == EvalSpec => []RunsTellTrue
<1>1. EvalInv => RunsTellTrue
    BY DEF EvalInv, EvalOK, RunsTellTrue, DoneIsComplete, AnsweredIsDone, CasesNeedRun
<1> QED
    BY <1>1, EvalInvInit, EvalInvNext, PTL DEF EvalSpec

-----------------------------------------------------------------------------
(* Deployments *)

\* A build that has written its tag and has not imported the image.
Making(j) == job[j].pc \in {"compile", "image", "import"}

\* A tag has an image in the cluster, or a build that will import it.
Backed(t) ==
    \/ t = 0
    \/ cluster[t] # NoJob
    \/ \E j \in Jobs : Making(j) /\ job[j].tag = t

\* A job has no part of a script it does not run, and a tag when it needs one.
OnTrack(j) ==
    /\ job[j].action = "rollout" => job[j].pc \notin Building
    /\ Making(j) => job[j].tag \in Tags
    /\ job[j].pc = "image" => binary # NoJob
    /\ job[j].pc = "import" => docker[job[j].tag] # NoJob

\* What a job that nobody ran beside has left where.
Apart(j) ==
    /\ \A k \in Jobs \ {j} : Running(j) /\ Running(k) /\ j \notin clashed =>
         job[j].action = "rollout" /\ job[k].action = "rollout"
    /\ j \notin clashed /\ job[j].action = "build-rollout" =>
         /\ job[j].pc = "image" => binary = j
         /\ job[j].pc = "import" => docker[job[j].tag] = j
         /\ Making(j) => tagFile = job[j].tag
         /\ job[j].pc = "read" => tagFile \in Tags /\ cluster[tagFile] = j
         /\ job[j].pc = "set" => job[j].tag \in Tags /\ cluster[job[j].tag] = j
         /\ job[j].pc = "wait" => rolled = job[j].rolled /\ rolled \in Tags /\ cluster[rolled] = j

\* While no build has failed half way, whatever names a tag names a backed one.
AllBacked ==
    ~broken =>
        /\ Backed(tagFile) /\ Backed(rolled)
        /\ \A j \in Jobs : job[j].pc = "set" => Backed(job[j].tag)

DeployInv ==
    /\ DeployTypeOK
    /\ \A j \in Jobs : OnTrack(j) /\ Apart(j)
    /\ AllBacked

\* Nothing has run.
LEMMA DeployInvInit == DeployInit => DeployInv
<1> SUFFICES ASSUME DeployInit PROVE DeployInv
    OBVIOUS
<1>1. DeployTypeOK
  <2>1. /\ job \in [Jobs -> [pc : {"new"}, action : {"build", "rollout", "build-rollout"},
                             tag : {0}, rolled : {0}]]
    BY DEF DeployInit
  <2>2. ASSUME NEW r \in [pc : {"new"}, action : {"build", "rollout", "build-rollout"},
                           tag : {0}, rolled : {0}]
        PROVE  r \in JobType
    BY DeployBounds DEF JobType
  <2>3. job \in [Jobs -> JobType]
    BY <2>1, <2>2
  <2>4. 1 \in 1..MaxSecond /\ 0 \in 0..MaxSecond /\ 0 \in 0..MaxDeployFaults
    BY DeployBounds
  <2>5. docker \in [Tags -> Jobs \cup {NoJob}] /\ cluster \in [Tags -> Jobs \cup {NoJob}]
    BY DEF DeployInit
  <2> QED
    BY <2>3, <2>4, <2>5 DEF DeployInit, DeployTypeOK
<1>2. ASSUME NEW j \in Jobs PROVE job[j].pc = "new"
    BY DEF DeployInit
<1>3. \A j \in Jobs : OnTrack(j) /\ Apart(j)
    BY <1>2 DEF OnTrack, Apart, Making, Running, Building, Rolling
<1>4. AllBacked
    BY <1>2 DEF DeployInit, AllBacked, Backed
<1> QED
    BY <1>1, <1>3, <1>4 DEF DeployInv

\* A step of the clock or of a script, seen from another job: a job nobody ran
\* beside finds everything as it was.
LEMMA OtherJob ==
    ASSUME DeployInv, NEW j \in Jobs, NEW k \in Jobs, j # k,
           Running(k), job'[j] = job[j], job'[k].action = job[k].action,
           \A i \in Jobs \ {j, k} : job'[i] = job[i],
           clashed' = clashed,
           job[k].action = "rollout" =>
               binary' = binary /\ docker' = docker /\ cluster' = cluster /\ tagFile' = tagFile
    PROVE  Apart(j)'
<1>1. Apart(j) /\ job[j].action \in {"build", "rollout", "build-rollout"}
    BY DEF DeployInv, DeployTypeOK, JobType
<1>2. ASSUME NEW i \in Jobs \ {j}, Running(j)', Running(i)', j \notin clashed'
      PROVE  job'[j].action = "rollout" /\ job'[i].action = "rollout"
  <2>1. Running(j) /\ Running(i)
    BY <1>2 DEF Running
  <2> QED
    BY <1>1, <1>2, <2>1 DEF Apart
<1>3. j \notin clashed /\ job[j].action = "build-rollout" => ~Running(j)
    BY <1>1 DEF Apart
<1>4. Running(j)' <=> Running(j)
    BY DEF Running
<1> QED
    BY <1>1, <1>2, <1>3, <1>4 DEF Apart, Running, Making, Building, Rolling

\* The fields of a job.
LEMMA JobFields ==
    ASSUME DeployTypeOK, NEW j \in Jobs
    PROVE  /\ job[j].action \in {"build", "rollout", "build-rollout"}
           /\ job[j].pc \in {"new", "success", "failed"} \cup Building \cup Rolling
           /\ job[j].tag \in 0..MaxSecond /\ job[j].rolled \in 0..MaxSecond
           /\ second \in Tags
    BY DEF DeployTypeOK, JobType, Tags

\* A job that moves on.
LEMMA GotoFields ==
    ASSUME DeployTypeOK, NEW j \in Jobs, NEW pc \in {"new", "success", "failed"} \cup Building \cup Rolling,
           Goto(j, pc)
    PROVE  /\ job'[j].pc = pc /\ job'[j].action = job[j].action
           /\ job'[j].tag = job[j].tag /\ job'[j].rolled = job[j].rolled
           /\ \A k \in Jobs \ {j} : job'[k] = job[k]
           /\ job' \in [Jobs -> JobType]
    BY DEF DeployTypeOK, JobType, Goto

\* A job that is started knows whom it runs beside.
LEMMA StartJobKeeps == ASSUME DeployInv, NEW j \in Jobs, StartJob(j) PROVE DeployInv'
<1> DEFINE pc == IF job[j].action = "rollout" THEN "read" ELSE "tag"
           rivals == {k \in Jobs \ {j} : Running(k) /\
                        (job[j].action # "rollout" \/ job[k].action # "rollout")}
<1>1. pc \in Building \cup Rolling /\ pc \in {"read", "tag"} /\ pc \in {"new", "success", "failed"} \cup Building \cup Rolling
    BY DEF Building, Rolling
<1>2. /\ job[j].pc = "new" /\ Goto(j, pc)
      /\ clashed' = IF rivals = {} THEN clashed ELSE clashed \cup rivals \cup {j}
      /\ UNCHANGED <<second, tagFile, binary, docker, cluster, rolled, broken, deployFaults>>
    BY DEF StartJob
<1>3. /\ job'[j].pc = pc /\ job'[j].action = job[j].action /\ job'[j].tag = job[j].tag
      /\ \A k \in Jobs \ {j} : job'[k] = job[k]
      /\ DeployTypeOK'
    BY <1>1, <1>2, GotoFields DEF DeployInv, DeployTypeOK
<1>4. (pc = "read" <=> job[j].action = "rollout") /\ (pc = "tag" <=> job[j].action # "rollout")
    OBVIOUS
<1>5. \A k \in Jobs : k \in rivals <=>
        k # j /\ Running(k) /\ (job[j].action # "rollout" \/ job[k].action # "rollout")
    OBVIOUS
<1> HIDE DEF pc, rivals
<1>6. ASSUME NEW k \in Jobs PROVE OnTrack(k)' /\ Apart(k)'
  <2>1. OnTrack(k) /\ Apart(k)
    BY DEF DeployInv
  <2>2. CASE k = j
    <3>1. OnTrack(k)'
      BY <1>1, <1>3, <1>4, <2>2 DEF OnTrack, Making, Building
    <3>2. ASSUME NEW i \in Jobs \ {k}, Running(i)', k \notin clashed'
          PROVE  job'[k].action = "rollout" /\ job'[i].action = "rollout"
      BY <1>2, <1>3, <1>5, <2>2, <3>2 DEF Running
    <3>3. Apart(k)'
      BY <1>1, <1>3, <1>4, <2>2, <3>2 DEF Apart, Making
    <3> QED
      BY <3>1, <3>3
  <2>3. CASE k # j
    <3>1. OnTrack(k)'
      BY <1>2, <1>3, <2>1, <2>3 DEF OnTrack, Making
    <3>2. ASSUME NEW i \in Jobs \ {k}, Running(k)', Running(i)', k \notin clashed'
          PROVE  job'[k].action = "rollout" /\ job'[i].action = "rollout"
      <4>1. Running(k) /\ k \notin clashed /\ job'[k].action = job[k].action
        BY <1>2, <1>3, <2>3, <3>2 DEF Running
      <4>2. CASE i = j
        BY <1>2, <1>3, <1>5, <2>3, <3>2, <4>1, <4>2
      <4>3. CASE i # j
        BY <1>3, <2>1, <3>2, <4>1, <4>3 DEF Running, Apart
      <4> QED
        BY <4>2, <4>3
    <3>3. k \notin clashed' => k \notin clashed
      BY <1>2
    <3>4. Apart(k)'
      BY <1>2, <1>3, <2>1, <2>3, <3>2, <3>3 DEF Apart, Making
    <3> QED
      BY <3>1, <3>4
  <2> QED
    BY <2>2, <2>3
<1>7. AllBacked'
  <2>1. \A k \in Jobs : Making(k) => Making(k)' /\ job'[k].tag = job[k].tag
    BY <1>2, <1>3 DEF Making
  <2>2. \A t : Backed(t) => Backed(t)'
    BY <1>2, <2>1 DEF Backed
  <2>3. ASSUME NEW k \in Jobs, job'[k].pc = "set"
        PROVE  job[k].pc = "set" /\ job'[k].tag = job[k].tag
    BY <1>1, <1>3, <2>3
  <2>4. broken' = broken /\ tagFile' = tagFile /\ rolled' = rolled
    BY <1>2
  <2> QED
    BY <2>2, <2>3, <2>4 DEF DeployInv, AllBacked
<1> QED
    BY <1>3, <1>6, <1>7 DEF DeployInv

\* A step of a script keeps the invariant when it keeps what it says of the
\* job itself, of the other jobs' tracks, and of the tags.
LEMMA ScriptKeeps ==
    ASSUME DeployInv, NEW j \in Jobs, Running(j), DeployTypeOK',
           job'[j].action = job[j].action, \A k \in Jobs \ {j} : job'[k] = job[k],
           clashed' = clashed, OnTrack(j)',
           job[j].action = "rollout" =>
               binary' = binary /\ docker' = docker /\ cluster' = cluster /\ tagFile' = tagFile,
           binary' # NoJob \/ binary' = binary,
           \A t \in Tags : docker'[t] # NoJob \/ docker'[t] = docker[t],
           j \notin clashed /\ job[j].action = "build-rollout" =>
             /\ job'[j].pc = "image" => binary' = j
             /\ job'[j].pc = "import" => docker'[job'[j].tag] = j
             /\ Making(j)' => tagFile' = job'[j].tag
             /\ job'[j].pc = "read" => tagFile' \in Tags /\ cluster'[tagFile'] = j
             /\ job'[j].pc = "set" => job'[j].tag \in Tags /\ cluster'[job'[j].tag] = j
             /\ job'[j].pc = "wait" =>
                  rolled' = job'[j].rolled /\ rolled' \in Tags /\ cluster'[rolled'] = j,
           AllBacked'
    PROVE  DeployInv'
<1>1. ASSUME NEW k \in Jobs, k # j PROVE OnTrack(k)'
  <2>1. OnTrack(k) /\ job'[k] = job[k]
    BY <1>1 DEF DeployInv
  <2> QED
    BY <2>1 DEF OnTrack, Making
<1>2. ASSUME NEW k \in Jobs, k # j PROVE Apart(k)'
    BY <1>2, OtherJob
<1>3. Apart(j)'
  <2>1. \A k \in Jobs \ {j} : Running(k)' => Running(k) /\ job'[k].action = job[k].action
    BY DEF Running
  <2>2. Apart(j)
    BY DEF DeployInv
  <2> QED
    BY <2>1, <2>2 DEF Apart
<1> QED
    BY <1>1, <1>2, <1>3 DEF DeployInv

\* A build's tag is backed by the build itself, until its image is there.
LEMMA WriteTagKeeps == ASSUME DeployInv, NEW j \in Jobs, WriteTag(j) PROVE DeployInv'
<1> DEFINE q == [job[j] EXCEPT !.pc = "compile", !.tag = second]
<1>0. second \in Tags /\ second \in 0..MaxSecond /\ job[j] \in JobType
    BY DeployBounds DEF DeployInv, DeployTypeOK, Tags
<1>1. /\ job' = [job EXCEPT ![j] = q] /\ q \in JobType
      /\ q.pc = "compile" /\ q.tag = second /\ q.action = job[j].action /\ second \in Tags
    BY <1>0 DEF WriteTag, JobType, Building
<1> HIDE DEF q
<1>2. /\ job[j].pc = "tag" /\ tagFile' = second
      /\ UNCHANGED <<second, binary, docker, cluster, rolled, clashed, broken, deployFaults>>
    BY DEF WriteTag
<1>3. job'[j] = q /\ \A k \in Jobs \ {j} : job'[k] = job[k]
    BY <1>1 DEF DeployInv, DeployTypeOK
<1>4. DeployTypeOK'
    BY <1>1, <1>2 DEF DeployInv, DeployTypeOK, Tags
<1>5. Running(j) /\ OnTrack(j)
    BY <1>2 DEF Running, Building, DeployInv
<1>6. job[j].action # "rollout"
    BY <1>2, <1>5 DEF OnTrack, Building
<1>7. OnTrack(j)' /\ Making(j)'
    BY <1>1, <1>3, <1>6 DEF OnTrack, Making
<1>8. AllBacked'
  <2>1. \A k \in Jobs : Making(k) => Making(k)' /\ job'[k].tag = job[k].tag
    BY <1>2, <1>3 DEF Making
  <2>2. \A t : Backed(t) => Backed(t)'
    BY <1>2, <2>1 DEF Backed
  <2>3. Backed(tagFile)'
    BY <1>1, <1>2, <1>3, <1>7 DEF Backed
  <2>4. \A k \in Jobs : job'[k].pc = "set" => job[k].pc = "set" /\ job'[k].tag = job[k].tag
    BY <1>1, <1>3
  <2> QED
    BY <1>2, <2>2, <2>3, <2>4 DEF DeployInv, AllBacked
<1> QED
    BY <1>1, <1>2, <1>3, <1>4, <1>5, <1>6, <1>7, <1>8, ScriptKeeps DEF Making

\* The binary is the job's own now.
LEMMA CompileKeeps == ASSUME DeployInv, NEW j \in Jobs, Compile(j) PROVE DeployInv'
<1>1. /\ job[j].pc = "compile" /\ Goto(j, "image") /\ binary' = j
      /\ UNCHANGED <<second, tagFile, docker, cluster, rolled, clashed, broken, deployFaults>>
    BY DEF Compile
<1>2. /\ job'[j].pc = "image" /\ job'[j].action = job[j].action /\ job'[j].tag = job[j].tag
      /\ \A k \in Jobs \ {j} : job'[k] = job[k]
      /\ DeployTypeOK'
    BY <1>1, GotoFields DEF DeployInv, DeployTypeOK, Building
<1>3. Running(j) /\ OnTrack(j) /\ Apart(j) /\ Making(j) /\ Making(j)'
    BY <1>1, <1>2 DEF Running, Building, DeployInv, Making
<1>4. job[j].action # "rollout"
    BY <1>1, <1>3 DEF OnTrack, Building
<1>5. OnTrack(j)'
    BY <1>1, <1>2, <1>3, <1>4, NoJobAssumption DEF OnTrack
<1>6. AllBacked'
  <2>1. \A k \in Jobs : Making(k) => Making(k)' /\ job'[k].tag = job[k].tag
    BY <1>2, <1>3 DEF Making
  <2>2. \A t : Backed(t) => Backed(t)'
    BY <1>1, <2>1 DEF Backed
  <2>3. \A k \in Jobs : job'[k].pc = "set" => job[k].pc = "set" /\ job'[k].tag = job[k].tag
    BY <1>2
  <2> QED
    BY <1>1, <2>2, <2>3 DEF DeployInv, AllBacked
<1>7. j \notin clashed /\ job[j].action = "build-rollout" => tagFile' = job'[j].tag
    BY <1>1, <1>2, <1>3 DEF Apart
<1> QED
    BY <1>1, <1>2, <1>3, <1>4, <1>5, <1>6, <1>7, NoJobAssumption, ScriptKeeps

\* The image has the binary that was there.
LEMMA BuildImageKeeps == ASSUME DeployInv, NEW j \in Jobs, BuildImage(j) PROVE DeployInv'
<1>1. /\ job[j].pc = "image" /\ Goto(j, "import")
      /\ docker' = [docker EXCEPT ![job[j].tag] = binary]
      /\ UNCHANGED <<second, tagFile, binary, cluster, rolled, clashed, broken, deployFaults>>
    BY DEF BuildImage
<1>2. Running(j) /\ OnTrack(j) /\ Apart(j) /\ Making(j) /\ job[j].tag \in Tags /\ binary # NoJob
    BY <1>1 DEF Running, Building, DeployInv, Making, OnTrack
<1>3. /\ job'[j].pc = "import" /\ job'[j].action = job[j].action /\ job'[j].tag = job[j].tag
      /\ \A k \in Jobs \ {j} : job'[k] = job[k]
      /\ job' \in [Jobs -> JobType]
    BY <1>1, GotoFields DEF DeployInv, Building
<1>4. /\ DeployTypeOK' /\ docker'[job[j].tag] = binary
      /\ \A t \in Tags : docker'[t] # NoJob \/ docker'[t] = docker[t]
    BY <1>1, <1>2, <1>3 DEF DeployInv, DeployTypeOK
<1>5. job[j].action # "rollout" /\ Making(j)'
    BY <1>1, <1>2, <1>3 DEF OnTrack, Building, Making
<1>6. OnTrack(j)'
    BY <1>1, <1>2, <1>3, <1>4, <1>5 DEF OnTrack
<1>7. AllBacked'
  <2>1. \A k \in Jobs : Making(k) => Making(k)' /\ job'[k].tag = job[k].tag
    BY <1>3, <1>5 DEF Making
  <2>2. \A t : Backed(t) => Backed(t)'
    BY <1>1, <2>1 DEF Backed
  <2>3. \A k \in Jobs : job'[k].pc = "set" => job[k].pc = "set" /\ job'[k].tag = job[k].tag
    BY <1>3
  <2> QED
    BY <1>1, <2>2, <2>3 DEF DeployInv, AllBacked
<1>8. j \notin clashed /\ job[j].action = "build-rollout" =>
        binary = j /\ tagFile' = job'[j].tag
    BY <1>1, <1>2, <1>3 DEF Apart
<1> QED
    BY <1>1, <1>2, <1>3, <1>4, <1>5, <1>6, <1>7, <1>8, ScriptKeeps

\* The cluster has the image of the tag, and the build backs it no longer.
LEMMA ImportImageKeeps == ASSUME DeployInv, NEW j \in Jobs, ImportImage(j) PROVE DeployInv'
<1> DEFINE pc == IF job[j].action = "build" THEN "success" ELSE "read"
<1>1. /\ job[j].pc = "import" /\ Goto(j, pc)
      /\ cluster' = [cluster EXCEPT ![job[j].tag] = docker[job[j].tag]]
      /\ UNCHANGED <<second, tagFile, binary, docker, rolled, clashed, broken, deployFaults>>
    BY DEF ImportImage
<1>2. /\ Running(j) /\ OnTrack(j) /\ Apart(j) /\ Making(j) /\ job[j].tag \in Tags
      /\ docker[job[j].tag] # NoJob
    BY <1>1 DEF Running, Building, DeployInv, Making, OnTrack
<1>3. pc \in {"success", "read"} /\ pc \in {"new", "success", "failed"} \cup Building \cup Rolling
    BY DEF Rolling
<1> HIDE DEF pc
<1>4. /\ job'[j].pc = pc /\ job'[j].action = job[j].action /\ job'[j].tag = job[j].tag
      /\ \A k \in Jobs \ {j} : job'[k] = job[k]
      /\ job' \in [Jobs -> JobType]
    BY <1>1, <1>3, GotoFields DEF DeployInv
<1>5. /\ DeployTypeOK' /\ cluster'[job[j].tag] = docker[job[j].tag]
      /\ \A t \in Tags \ {job[j].tag} : cluster'[t] = cluster[t]
    BY <1>1, <1>2, <1>4 DEF DeployInv, DeployTypeOK
<1>6. job[j].action # "rollout" /\ ~Making(j)'
    BY <1>1, <1>2, <1>3, <1>4 DEF OnTrack, Building, Making
<1>7. OnTrack(j)'
    BY <1>3, <1>4, <1>6 DEF OnTrack
<1>8. AllBacked'
  <2>1. \A k \in Jobs \ {j} : Making(k) => Making(k)' /\ job'[k].tag = job[k].tag
    BY <1>4 DEF Making
  <2>2. ASSUME NEW t \in 0..MaxSecond, Backed(t) PROVE Backed(t)'
    <3>1. CASE t = job[j].tag
      BY <1>2, <1>5, <3>1 DEF Backed
    <3>2. CASE t # job[j].tag
      <4>1. t # 0 => t \in Tags
        BY DeployBounds DEF Tags
      <4>2. t # 0 => cluster'[t] = cluster[t]
        BY <1>5, <3>2, <4>1
      <4> QED
        BY <2>1, <2>2, <3>2, <4>2 DEF Backed
    <3> QED
      BY <3>1, <3>2
  <2>3. \A k \in Jobs : job'[k].pc = "set" => job[k].pc = "set" /\ job'[k].tag = job[k].tag
    BY <1>3, <1>4
  <2>4. tagFile \in 0..MaxSecond /\ rolled \in 0..MaxSecond /\ \A k \in Jobs : job[k].tag \in 0..MaxSecond
    BY JobFields DEF DeployInv, DeployTypeOK
  <2> QED
    BY <1>1, <2>2, <2>3, <2>4 DEF DeployInv, AllBacked
<1>9. j \notin clashed /\ job[j].action = "build-rollout" =>
        docker[job[j].tag] = j /\ tagFile = job[j].tag
    BY <1>1, <1>2 DEF Apart
<1> QED
    BY <1>1, <1>2, <1>3, <1>4, <1>5, <1>6, <1>7, <1>8, <1>9, ScriptKeeps

\* A rollout takes the tag of the file.
LEMMA ReadTagKeeps == ASSUME DeployInv, NEW j \in Jobs, ReadTag(j) PROVE DeployInv'
<1> DEFINE q == [job[j] EXCEPT !.pc = "set", !.tag = tagFile]
<1>1. /\ job' = [job EXCEPT ![j] = q] /\ q \in JobType
      /\ q.pc = "set" /\ q.tag = tagFile /\ q.action = job[j].action
    BY DEF ReadTag, DeployInv, DeployTypeOK, JobType, Rolling
<1> HIDE DEF q
<1>2. /\ job[j].pc = "read"
      /\ UNCHANGED <<second, tagFile, binary, docker, cluster, rolled, clashed, broken, deployFaults>>
    BY DEF ReadTag
<1>3. job'[j] = q /\ \A k \in Jobs \ {j} : job'[k] = job[k]
    BY <1>1 DEF DeployInv, DeployTypeOK
<1>4. DeployTypeOK'
    BY <1>1, <1>2 DEF DeployInv, DeployTypeOK
<1>5. Running(j) /\ OnTrack(j) /\ Apart(j) /\ ~Making(j) /\ ~Making(j)'
    BY <1>1, <1>2, <1>3 DEF Running, Rolling, DeployInv, Making
<1>6. OnTrack(j)'
    BY <1>1, <1>3, <1>5 DEF OnTrack, Building
<1>7. AllBacked'
  <2>1. \A k \in Jobs : Making(k) => Making(k)' /\ job'[k].tag = job[k].tag
    BY <1>3, <1>5 DEF Making
  <2>2. \A t : Backed(t) => Backed(t)'
    BY <1>2, <2>1 DEF Backed
  <2> QED
    BY <1>1, <1>2, <1>3, <2>2 DEF DeployInv, AllBacked
<1>8. j \notin clashed /\ job[j].action = "build-rollout" => tagFile \in Tags /\ cluster[tagFile] = j
    BY <1>2, <1>5 DEF Apart
<1> QED
    BY <1>1, <1>2, <1>3, <1>4, <1>5, <1>6, <1>7, <1>8, ScriptKeeps

\* The deployment is given the tag.
LEMMA SetImageKeeps == ASSUME DeployInv, NEW j \in Jobs, SetImage(j) PROVE DeployInv'
<1> DEFINE q == [job[j] EXCEPT !.pc = "wait", !.rolled = job[j].tag]
<1>1. /\ job' = [job EXCEPT ![j] = q] /\ q \in JobType
      /\ q.pc = "wait" /\ q.tag = job[j].tag /\ q.action = job[j].action /\ q.rolled = job[j].tag
      /\ job[j].tag \in 0..MaxSecond
    BY DEF SetImage, DeployInv, DeployTypeOK, JobType, Rolling
<1> HIDE DEF q
<1>2. /\ job[j].pc = "set" /\ rolled' = job[j].tag
      /\ UNCHANGED <<second, tagFile, binary, docker, cluster, clashed, broken, deployFaults>>
    BY DEF SetImage
<1>3. job'[j] = q /\ \A k \in Jobs \ {j} : job'[k] = job[k]
    BY <1>1 DEF DeployInv, DeployTypeOK
<1>4. DeployTypeOK'
    BY <1>1, <1>2 DEF DeployInv, DeployTypeOK
<1>5. Running(j) /\ OnTrack(j) /\ Apart(j) /\ ~Making(j) /\ ~Making(j)'
    BY <1>1, <1>2, <1>3 DEF Running, Rolling, DeployInv, Making
<1>6. OnTrack(j)'
    BY <1>1, <1>3, <1>5 DEF OnTrack, Building
<1>7. AllBacked'
  <2>1. \A k \in Jobs : Making(k) => Making(k)' /\ job'[k].tag = job[k].tag
    BY <1>3, <1>5 DEF Making
  <2>2. \A t : Backed(t) => Backed(t)'
    BY <1>2, <2>1 DEF Backed
  <2>3. \A k \in Jobs : job'[k].pc = "set" => job[k].pc = "set" /\ job'[k].tag = job[k].tag
    BY <1>1, <1>3
  <2> QED
    BY <1>2, <2>2, <2>3 DEF DeployInv, AllBacked
<1>8. j \notin clashed /\ job[j].action = "build-rollout" =>
        job[j].tag \in Tags /\ cluster[job[j].tag] = j
    BY <1>2, <1>5 DEF Apart
<1> QED
    BY <1>1, <1>2, <1>3, <1>4, <1>5, <1>6, <1>7, <1>8, ScriptKeeps

\* A job that ends, well or not, says no more.
LEMMA EndJobKeeps ==
    ASSUME DeployInv, NEW j \in Jobs, Running(j), NEW pc \in {"success", "failed"}, Goto(j, pc),
           UNCHANGED <<second, tagFile, binary, docker, cluster, rolled, clashed>>,
           broken' \in BOOLEAN, deployFaults' \in 0..MaxDeployFaults,
           ~broken' => ~broken /\ ~Making(j)
    PROVE  DeployInv'
<1>1. pc \in {"new", "success", "failed"} \cup Building \cup Rolling
    OBVIOUS
<1>2. /\ job'[j].pc = pc /\ job'[j].action = job[j].action
      /\ \A k \in Jobs \ {j} : job'[k] = job[k]
      /\ job' \in [Jobs -> JobType]
    BY <1>1, GotoFields DEF DeployInv
<1>3. DeployTypeOK'
    BY <1>2 DEF DeployInv, DeployTypeOK
<1>4. OnTrack(j)' /\ ~Making(j)'
    BY <1>2 DEF OnTrack, Making, Building
<1>5. ASSUME ~broken' PROVE AllBacked'
  <2>1. \A k \in Jobs : Making(k) => Making(k)' /\ job'[k].tag = job[k].tag
    BY <1>2, <1>5 DEF Making
  <2>2. \A t : Backed(t) => Backed(t)'
    BY <2>1 DEF Backed
  <2>3. \A k \in Jobs : job'[k].pc = "set" => job[k].pc = "set" /\ job'[k].tag = job[k].tag
    BY <1>2
  <2> QED
    BY <1>5, <2>2, <2>3 DEF DeployInv, AllBacked
<1>6. AllBacked'
    BY <1>5 DEF AllBacked
<1> QED
    BY <1>2, <1>3, <1>4, <1>6, ScriptKeeps

\* Every step of the clock and of the jobs keeps the invariant.
LEMMA DeployInvNext == DeployInv /\ [DeployNext]_deployVars => DeployInv'
<1> SUFFICES ASSUME DeployInv, [DeployNext]_deployVars PROVE DeployInv'
    OBVIOUS
<1>1. ASSUME NEW j \in Jobs, WaitRollout(j) PROVE DeployInv'
  <2>1. /\ Goto(j, "success")
        /\ UNCHANGED <<second, tagFile, binary, docker, cluster, rolled, clashed, broken, deployFaults>>
    BY <1>1 DEF WaitRollout
  <2>2. Running(j) /\ ~Making(j) /\ broken \in BOOLEAN /\ deployFaults \in 0..MaxDeployFaults
    BY <1>1 DEF WaitRollout, Running, Making, Rolling, DeployInv, DeployTypeOK
  <2> QED
    BY <2>1, <2>2, EndJobKeeps
<1>2. ASSUME NEW j \in Jobs, FailJob(j) PROVE DeployInv'
  <2>1. /\ Goto(j, "failed") /\ Running(j)
        /\ UNCHANGED <<second, tagFile, binary, docker, cluster, rolled, clashed>>
    BY <1>2 DEF FailJob
  <2>2. broken' \in BOOLEAN /\ deployFaults' \in 0..MaxDeployFaults
    BY <1>2, DeployBounds DEF FailJob, DeployInv, DeployTypeOK
  <2>3. ~broken' => ~broken /\ ~Making(j)
    BY <1>2 DEF FailJob, Making, Building
  <2> QED
    BY <2>1, <2>2, <2>3, EndJobKeeps
<1>3. ASSUME UNCHANGED <<tagFile, binary, docker, cluster, rolled, job, clashed, broken>>,
             second' \in 1..MaxSecond, deployFaults' = deployFaults
      PROVE  DeployInv'
  <2>1. DeployTypeOK'
    BY <1>3 DEF DeployInv, DeployTypeOK
  <2>2. ASSUME NEW j \in Jobs PROVE OnTrack(j)' /\ Apart(j)'
    BY <1>3 DEF DeployInv, OnTrack, Apart, Making, Running
  <2>3. \A t : Backed(t) => Backed(t)'
    BY <1>3 DEF Backed, Making
  <2>4. AllBacked'
    BY <1>3, <2>3 DEF DeployInv, AllBacked
  <2> QED
    BY <2>1, <2>2, <2>4 DEF DeployInv
<1>4. CASE PassSecond
    BY <1>3, <1>4, DeployBounds DEF PassSecond, DeployInv, DeployTypeOK
<1>5. CASE UNCHANGED deployVars
    BY <1>3, <1>5 DEF deployVars, DeployInv, DeployTypeOK
<1>6. ASSUME NEW j \in Jobs, Run(j) PROVE DeployInv'
    BY <1>1, <1>2, <1>6, StartJobKeeps, WriteTagKeeps, CompileKeeps, BuildImageKeeps,
       ImportImageKeeps, ReadTagKeeps, SetImageKeeps DEF Run
<1> QED
    BY <1>4, <1>5, <1>6 DEF DeployNext

\* A job nobody ran beside rolls out what it has built.
THEOREM RolloutsAreOwn == DeploySpec => []RolloutUsesOwnBuild
<1>1. DeployInv => RolloutUsesOwnBuild
    BY DEF DeployInv, Apart, RolloutUsesOwnBuild
<1> QED
    BY <1>1, DeployInvInit, DeployInvNext, PTL DEF DeploySpec

\* A rollout names an image the cluster has: what a tag is waiting for would
\* be a build beside it.
THEOREM RolloutsFindImages == DeploySpec => []RolloutFindsImage
<1>1. DeployInv => RolloutFindsImage
  <2> SUFFICES ASSUME DeployInv, NEW j \in Jobs \ clashed, job[j].pc = "wait", ~broken
               PROVE  rolled = 0 \/ cluster[rolled] # NoJob
    BY DEF RolloutFindsImage
  <2>1. Running(j) /\ ~Making(j)
    BY DEF Running, Rolling, Making
  <2>2. ASSUME NEW k \in Jobs PROVE ~Making(k)
    <3> SUFFICES ASSUME Making(k) PROVE FALSE
      OBVIOUS
    <3>1. Running(k) /\ k # j
      BY <2>1 DEF Making, Running, Building
    <3>2. job[k].action # "rollout"
      BY DEF DeployInv, OnTrack, Making, Building
    <3> QED
      BY <2>1, <3>1, <3>2 DEF DeployInv, Apart
  <2> QED
    BY <2>2 DEF DeployInv, AllBacked, Backed
<1> QED
    BY <1>1, DeployInvInit, DeployInvNext, PTL DEF DeploySpec

\* Both together: the image a rollout names is there and is its job's own.
THEOREM RolloutsAreTold == DeploySpec => []RolloutsTellTrue
<1>1. RolloutUsesOwnBuild /\ RolloutFindsImage => RolloutsTellTrue
    BY DEF RolloutsTellTrue
<1> QED
    BY <1>1, RolloutsAreOwn, RolloutsFindImages, PTL

-----------------------------------------------------------------------------
(* Order numbers *)

\* A call that has its count.
Counted(o) == number[o].pc \in {"count", "done"}

\* What INCR gives: at least 1, below W, at most the counter of the day.
CountInv ==
    \A o \in Orders : Counted(o) =>
        number[o].count \in 1..(W - 1) /\ number[o].count <= counter[DayOf[number[o].sec]]

\* Two calls of one day never have the same count.
CountsDiffer ==
    \A o, p \in Orders :
        /\ o # p /\ Counted(o) /\ Counted(p)
        /\ DayOf[number[o].sec] = DayOf[number[p].sec]
        => number[o].count # number[p].count

\* Counters stay below W.
CounterInv == \A d \in Days : counter[d] < W

\* A number is made of the call's seconds and count.
NumberInv ==
    \A o \in Orders : number[o].pc = "done" =>
        number[o].id = number[o].sec * W + number[o].count

OrderIdInv == OrderIdTypeOK /\ CounterInv /\ CountInv /\ CountsDiffer /\ NumberInv

\* Numbers below W never reach into the seconds: a larger second wins.
LEMMA SecondsDominate ==
    ASSUME NEW a \in Nat, NEW b \in Nat, NEW r \in 1..(W - 1), NEW q \in 1..(W - 1), a < b
    PROVE  a * W + r < b * W + q
<1> DEFINE d == b - a
<1>1. d \in Nat \ {0} /\ b = a + d
    OBVIOUS
<1>2. W \in Nat \ {0}
    BY WAssumption
<1> HIDE DEF d
<1>3. b * W = a * W + d * W
    BY <1>1, <1>2
<1>4. d * W >= W
  <2>1. d * W = (d - 1) * W + W
    BY <1>1, <1>2
  <2>2. (d - 1) * W >= 0
    BY <1>1, <1>2
  <2>3. (d - 1) * W \in Int /\ d * W \in Int
    BY <1>1, <1>2
  <2> QED
    BY <2>1, <2>2, <2>3, <1>2
<1>5. a * W \in Int /\ b * W \in Int /\ d * W \in Int
    BY <1>1, <1>2
<1> QED
    BY <1>2, <1>3, <1>4, <1>5

\* Composing seconds and count loses neither: equal numbers have equal parts.
LEMMA PartsOfNumber ==
    ASSUME NEW a \in Nat, NEW b \in Nat, NEW r \in 1..(W - 1), NEW q \in 1..(W - 1),
           a * W + r = b * W + q
    PROVE  a = b /\ r = q
<1>1. W \in Nat \ {0} /\ a * W \in Int /\ b * W \in Int
    BY WAssumption
<1>2. ~(a < b)
    BY <1>1, SecondsDominate
<1>3. ~(b < a)
  <2>1. b < a => b * W + q < a * W + r
    BY SecondsDominate
  <2> QED
    BY <2>1, <1>1
<1>4. a = b
    BY <1>2, <1>3
<1> QED
    BY <1>1, <1>4

\* The state a call is in has the type of NumberState.
LEMMA NumberFields ==
    ASSUME OrderIdTypeOK, NEW o \in Orders
    PROVE  /\ number[o].pc \in {"idle", "read", "count", "done"}
           /\ number[o].sec \in Seconds /\ number[o].sec \in Nat
           /\ number[o].count \in Nat /\ number[o].id \in Nat
           /\ DayOf[number[o].sec] \in Days
    BY SecondsAssumption, DayOfAssumption DEF OrderIdTypeOK, NumberState

\* No call has begun: the invariant holds.
LEMMA OrderIdInvInit == OrderIdInit => OrderIdInv
<1> SUFFICES ASSUME OrderIdInit PROVE OrderIdInv
    OBVIOUS
<1>1. (CHOOSE s \in Seconds : TRUE) \in Seconds
    BY SecondsAssumption
<1> DEFINE first == CHOOSE s \in Seconds : TRUE
<1>2. first \in Seconds
    BY <1>1
<1>3. number = [o \in Orders |-> [pc |-> "idle", sec |-> first, count |-> 0, id |-> 0]]
    BY DEF OrderIdInit
<1> HIDE DEF first
<1>4. counter = [d \in Days |-> 0]
    BY DEF OrderIdInit
<1>5. OrderIdTypeOK
    BY <1>2, <1>3, <1>4 DEF OrderIdTypeOK, NumberState
<1>6. \A o \in Orders : number[o].pc = "idle"
    BY <1>3
<1>7. CounterInv
    BY <1>4, WAssumption DEF CounterInv
<1> QED
    BY <1>5, <1>6, <1>7 DEF OrderIdInv, CountInv, CountsDiffer, NumberInv, Counted

\* Reading the clock changes the seconds of a call that has no count yet.
LEMMA ReadClockKeeps ==
    ASSUME OrderIdInv, NEW o \in Orders, ReadClock(o)
    PROVE  OrderIdInv'
<1>1. PICK s \in Seconds : number' = [number EXCEPT ![o].pc = "read", ![o].sec = s]
    BY DEF ReadClock
<1> DEFINE moved == [number[o] EXCEPT !.pc = "read", !.sec = s]
<1>2. number' = [number EXCEPT ![o] = moved] /\ counter' = counter
    BY <1>1 DEF ReadClock, OrderIdInv, OrderIdTypeOK
<1>3. moved \in NumberState /\ moved.pc = "read"
    BY <1>1 DEF OrderIdInv, OrderIdTypeOK, NumberState
<1> HIDE DEF moved
<1>4. /\ number'[o].pc = "read"
      /\ \A p \in Orders \ {o} : number'[p] = number[p]
    BY <1>2, <1>3 DEF OrderIdInv, OrderIdTypeOK
<1>5. OrderIdTypeOK'
    BY <1>2, <1>3 DEF OrderIdInv, OrderIdTypeOK
<1>6. CounterInv' /\ CountInv' /\ CountsDiffer' /\ NumberInv'
    BY <1>2, <1>4 DEF OrderIdInv, CounterInv, CountInv, CountsDiffer, NumberInv, Counted
<1> QED
    BY <1>5, <1>6 DEF OrderIdInv

\* INCR gives a count no other call of that day has.
LEMMA IncrKeeps ==
    ASSUME OrderIdInv, NEW o \in Orders, Incr(o)
    PROVE  OrderIdInv'
<1> DEFINE d == DayOf[number[o].sec]
           n == counter[d] + 1
           moved == [number[o] EXCEPT !.pc = "count", !.count = n]
<1>1. OrderIdTypeOK /\ d \in Days /\ number[o].pc = "read"
    BY NumberFields DEF OrderIdInv, Incr
<1>2. counter[d] \in Nat /\ n \in Nat /\ n \in 1..(W - 1) /\ n = counter[d] + 1
    BY <1>1, WAssumption DEF OrderIdTypeOK, Incr
<1>3. /\ number' = [number EXCEPT ![o] = moved]
      /\ counter' = [counter EXCEPT ![d] = n]
    BY <1>1 DEF Incr, OrderIdTypeOK
<1>4. moved \in NumberState /\ moved.pc = "count" /\ moved.count = n /\ moved.sec = number[o].sec
    BY <1>1, <1>2 DEF OrderIdTypeOK, NumberState
<1>5. DayOf[moved.sec] = d
    BY <1>4
<1> HIDE DEF moved, n, d
<1>6. /\ number'[o] = moved
      /\ \A p \in Orders \ {o} : number'[p] = number[p]
    BY <1>3, <1>1 DEF OrderIdTypeOK
<1>7. /\ counter'[d] = n
      /\ \A e \in Days \ {d} : counter'[e] = counter[e]
    BY <1>3, <1>1 DEF OrderIdTypeOK
<1>8. OrderIdTypeOK'
    BY <1>1, <1>2, <1>3, <1>4 DEF OrderIdTypeOK
<1>9. CounterInv'
  <2>1. n < W
    BY <1>2, WAssumption
  <2> QED
    BY <2>1, <1>7 DEF CounterInv, OrderIdInv
<1>10. \A e \in Days : counter'[e] \in Nat /\ counter[e] \in Nat /\ counter[e] <= counter'[e]
    BY <1>1, <1>2, <1>7 DEF OrderIdTypeOK
<1>11. CountInv'
  <2> SUFFICES ASSUME NEW p \in Orders, Counted(p)'
               PROVE  /\ number'[p].count \in 1..(W - 1)
                      /\ number'[p].count <= counter'[DayOf[number'[p].sec]]
    BY DEF CountInv
  <2>1. CASE p = o
    BY <2>1, <1>2, <1>4, <1>5, <1>6, <1>7
  <2>2. CASE p # o
    <3>1. Counted(p) /\ number'[p] = number[p]
      BY <2>2, <1>6 DEF Counted
    <3>2. number[p].count \in 1..(W - 1) /\ number[p].count <= counter[DayOf[number[p].sec]]
      BY <3>1 DEF OrderIdInv, CountInv
    <3>3. DayOf[number[p].sec] \in Days
      BY <1>1, NumberFields
    <3> QED
      BY <3>1, <3>2, <3>3, <1>10, WAssumption
  <2> QED
    BY <2>1, <2>2
<1>12. \A p \in Orders \ {o} : Counted(p) /\ DayOf[number[p].sec] = d => number[p].count # n
  <2> SUFFICES ASSUME NEW p \in Orders \ {o}, Counted(p), DayOf[number[p].sec] = d
               PROVE  number[p].count # n
    OBVIOUS
  <2>1. number[p].count <= counter[d] /\ number[p].count \in Nat
    BY <1>1, NumberFields DEF OrderIdInv, CountInv
  <2> QED
    BY <2>1, <1>2
<1>13. CountsDiffer'
  <2> SUFFICES ASSUME NEW p \in Orders, NEW q \in Orders, p # q, Counted(p)', Counted(q)',
                      DayOf[number'[p].sec] = DayOf[number'[q].sec]
               PROVE  number'[p].count # number'[q].count
    BY DEF CountsDiffer
  <2>1. CASE p = o
    BY <2>1, <1>4, <1>5, <1>6, <1>12 DEF Counted
  <2>2. CASE q = o
    BY <2>2, <1>4, <1>5, <1>6, <1>12 DEF Counted
  <2>3. CASE p # o /\ q # o
    BY <2>3, <1>6 DEF Counted, OrderIdInv, CountsDiffer
  <2> QED
    BY <2>1, <2>2, <2>3
<1>14. NumberInv'
    BY <1>4, <1>6 DEF OrderIdInv, NumberInv
<1> QED
    BY <1>8, <1>9, <1>11, <1>13, <1>14 DEF OrderIdInv

\* The count is below W, so the modulo changes nothing.
LEMMA ComposeKeeps ==
    ASSUME OrderIdInv, NEW o \in Orders, Compose(o)
    PROVE  OrderIdInv'
<1> DEFINE id == number[o].sec * W + (number[o].count % W)
           moved == [number[o] EXCEPT !.pc = "done", !.id = id]
<1>1. OrderIdTypeOK /\ number[o].pc = "count" /\ counter' = counter
    BY DEF OrderIdInv, Compose
<1>2. number[o].count \in 1..(W - 1) /\ number[o].sec \in Nat /\ W \in Nat
    BY <1>1, NumberFields, WAssumption DEF OrderIdInv, CountInv, Counted
<1>3. number[o].count % W = number[o].count
    BY <1>2
<1>4. id = number[o].sec * W + number[o].count /\ id \in Nat
    BY <1>2, <1>3
<1>5. number' = [number EXCEPT ![o] = moved]
    BY <1>1 DEF Compose, OrderIdTypeOK
<1> HIDE DEF id
<1>6. /\ moved \in NumberState /\ moved.pc = "done" /\ moved.id = id
      /\ moved.sec = number[o].sec /\ moved.count = number[o].count
    BY <1>1, <1>4 DEF OrderIdTypeOK, NumberState
<1> HIDE DEF moved
<1>7. /\ number'[o] = moved
      /\ \A p \in Orders \ {o} : number'[p] = number[p]
    BY <1>1, <1>5 DEF OrderIdTypeOK
<1>8. OrderIdTypeOK'
    BY <1>1, <1>5, <1>6 DEF OrderIdTypeOK
<1>9. \A p \in Orders : /\ number'[p].sec = number[p].sec /\ number'[p].count = number[p].count
                        /\ Counted(p)' <=> Counted(p)
    BY <1>1, <1>6, <1>7 DEF Counted
<1>10. CounterInv' /\ CountInv' /\ CountsDiffer'
    BY <1>1, <1>9 DEF OrderIdInv, CounterInv, CountInv, CountsDiffer
<1>11. NumberInv'
    BY <1>4, <1>6, <1>7 DEF OrderIdInv, NumberInv
<1> QED
    BY <1>8, <1>10, <1>11 DEF OrderIdInv

\* Every step keeps the invariant.
LEMMA OrderIdInvNext == OrderIdInv /\ [OrderIdNext]_orderIdVars => OrderIdInv'
<1> SUFFICES ASSUME OrderIdInv, [OrderIdNext]_orderIdVars PROVE OrderIdInv'
    OBVIOUS
<1>1. ASSUME NEW o \in Orders, ReadClock(o) PROVE OrderIdInv'
    BY <1>1, ReadClockKeeps
<1>2. ASSUME NEW o \in Orders, Incr(o) PROVE OrderIdInv'
    BY <1>2, IncrKeeps
<1>3. ASSUME NEW o \in Orders, Compose(o) PROVE OrderIdInv'
    BY <1>3, ComposeKeeps
<1>4. CASE UNCHANGED orderIdVars
    BY <1>4 DEF orderIdVars, OrderIdInv, OrderIdTypeOK, CounterInv, CountInv, CountsDiffer,
                NumberInv, Counted
<1> QED
    BY <1>1, <1>2, <1>3, <1>4 DEF OrderIdNext

\* Different calls have different seconds or, on one day, different counts.
LEMMA OrderIdInvImpliesUnique == OrderIdInv => UniqueIds
<1> SUFFICES ASSUME OrderIdInv, NEW o \in Orders, NEW p \in Orders, o # p,
                    number[o].pc = "done", number[p].pc = "done",
                    number[o].id = number[p].id
             PROVE  FALSE
    BY DEF UniqueIds
<1> DEFINE a == number[o].sec
           b == number[p].sec
           r == number[o].count
           q == number[p].count
<1>1. a \in Nat /\ b \in Nat /\ r \in 1..(W - 1) /\ q \in 1..(W - 1)
    BY NumberFields DEF OrderIdInv, CountInv, Counted
<1>2. a * W + r = b * W + q
    BY DEF OrderIdInv, NumberInv
<1>3. a = b => r # q
    BY DEF OrderIdInv, CountsDiffer, Counted
<1> HIDE DEF a, b, r, q
<1> QED
    BY <1>1, <1>2, <1>3, PartsOfNumber

\* NextOrderId never gives two calls the same number, on any number of pods
\* whose clocks show anything, as long as a day has fewer than W orders.
THEOREM NumbersAreUnique == OrderIdSpec => []UniqueIds
<1>1. OrderIdInit => OrderIdInv
    BY OrderIdInvInit
<1>2. OrderIdInv /\ [OrderIdNext]_orderIdVars => OrderIdInv'
    BY OrderIdInvNext
<1>3. OrderIdInv => UniqueIds
    BY OrderIdInvImpliesUnique
<1> QED
    BY <1>1, <1>2, <1>3, PTL DEF OrderIdSpec

-----------------------------------------------------------------------------
(* Chat sessions: their message counts and their logs *)

\* A session that is still to come has nothing.  One that no two calls shared
\* has at most one call under way, and none when it is gone.
Quiet(s) ==
    /\ chat[s] = "new" => logs[s] = 0 /\ messages[s] = 0 /\ AskingIn(s) = {}
    /\ s \notin crossed => /\ \A k, j \in AskingIn(s) : k = j
                           /\ chat[s] # "open" => logs[s] = 0 /\ AskingIn(s) = {}

\* The logs are never behind the count, nor behind what a call is to write.
Ahead(s) ==
    chat[s] = "open" /\ s \notin blotted =>
        /\ messages[s] <= logs[s]
        /\ \A k \in AskingIn(s) : /\ asking[k].seen <= logs[s]
                                  /\ asking[k].pc = "count" => asking[k].seen + 1 <= logs[s]

\* In a session no two calls shared, the one call has seen the count, and the
\* logs are ahead by its answer once it is stored.
Exact(s) ==
    chat[s] = "open" /\ s \notin blotted /\ s \notin crossed =>
        /\ \A k \in AskingIn(s) : /\ asking[k].seen = messages[s]
                                  /\ asking[k].pc = "count" => logs[s] = messages[s] + 1
        /\ (\A k \in AskingIn(s) : asking[k].pc # "count") => logs[s] = messages[s]

ChatOK(s) == Quiet(s) /\ Ahead(s) /\ Exact(s)

ChatInv == ChatTypeOK /\ \A s \in Chats : ChatOK(s)

-----------------------------------------------------------------------------
\* A call that is not idle is a question in one of the sessions.
LEMMA Question ==
    ASSUME ChatTypeOK, NEW k \in Asks
    PROVE  /\ asking[k].pc # "idle" => asking[k] \in Asking
           /\ asking[k] # NoQuestion => asking[k] \in Asking
           /\ NoQuestion.pc = "idle"
    BY DEF ChatTypeOK, NoQuestion, Asking

\* A call that moves in one session does not disturb another.
LEMMA OtherChat ==
    ASSUME NEW s \in Chats, ChatOK(s), NEW k \in Asks,
           \A j \in Asks \ {k} : asking'[j] = asking[j],
           asking[k] # NoQuestion => asking[k].chat # s,
           asking'[k] # NoQuestion => asking'[k].chat # s,
           chat'[s] = chat[s], messages'[s] = messages[s], logs'[s] = logs[s],
           s \notin crossed' => s \notin crossed, s \notin blotted' => s \notin blotted
    PROVE  ChatOK(s)'
<1>1. AskingIn(s)' = AskingIn(s)
    BY DEF AskingIn
<1>2. \A j \in AskingIn(s) : asking'[j] = asking[j]
    BY DEF AskingIn
<1> QED
    BY <1>1, <1>2 DEF ChatOK, Quiet, Ahead, Exact

\* No session has begun.
LEMMA ChatInvInit == ChatInit => ChatInv
<1> SUFFICES ASSUME ChatInit PROVE ChatInv
    OBVIOUS
<1>1. ChatTypeOK
    BY ChatBounds DEF ChatInit, ChatTypeOK
<1>2. \A s \in Chats : AskingIn(s) = {}
    BY DEF ChatInit, AskingIn
<1>3. \A s \in Chats : ChatOK(s)
    BY <1>2 DEF ChatInit, ChatOK, Quiet, Ahead, Exact
<1> QED
    BY <1>1, <1>3 DEF ChatInv

\* A new session has one call, which has seen no message.
LEMMA CreateSessionKeeps ==
    ASSUME ChatInv, NEW k \in Asks, NEW s \in Chats, CreateSession(k, s)
    PROVE  ChatInv'
<1> DEFINE q == [pc |-> "answer", chat |-> s, seen |-> 0]
<1>1. q \in Asking /\ q # NoQuestion /\ q.pc = "answer" /\ q.chat = s /\ q.seen = 0
    BY DEF Asking, NoQuestion
<1>2. /\ asking' = [asking EXCEPT ![k] = q] /\ chat' = [chat EXCEPT ![s] = "open"]
      /\ asking[k] = NoQuestion /\ chat[s] = "new" /\ crossed \subseteq crossed'
      /\ UNCHANGED <<base, messages, logs, blotted, chatFaults>>
    BY DEF CreateSession
<1> HIDE DEF q
<1>3. /\ asking'[k] = q /\ \A j \in Asks \ {k} : asking'[j] = asking[j]
      /\ chat'[s] = "open" /\ \A t \in Chats \ {s} : chat'[t] = chat[t]
    BY <1>2 DEF ChatInv, ChatTypeOK
<1>4. ChatTypeOK'
    BY <1>1, <1>2, ChatBounds DEF ChatInv, ChatTypeOK, CreateSession
<1>5. AskingIn(s) = {} /\ logs[s] = 0 /\ messages[s] = 0
    BY <1>2 DEF ChatInv, ChatOK, Quiet
<1>6. AskingIn(s)' = {k}
    BY <1>1, <1>2, <1>3, <1>5 DEF AskingIn
<1>7. ChatOK(s)'
    BY <1>1, <1>2, <1>3, <1>5, <1>6 DEF ChatOK, Quiet, Ahead, Exact
<1>8. ASSUME NEW t \in Chats, t # s PROVE ChatOK(t)'
    BY <1>1, <1>2, <1>3, <1>8, OtherChat DEF ChatInv
<1> QED
    BY <1>4, <1>7, <1>8 DEF ChatInv

\* A call that reads a session sees its count; a second one crosses the first.
LEMMA GetSessionKeeps ==
    ASSUME ChatInv, NEW k \in Asks, NEW s \in Chats, GetSession(k, s)
    PROVE  ChatInv'
<1> DEFINE q == [pc |-> "answer", chat |-> s, seen |-> messages[s]]
<1>1. messages[s] \in Nat /\ logs[s] \in Nat
    BY DEF ChatInv, ChatTypeOK
<1>2. q \in Asking /\ q # NoQuestion /\ q.pc = "answer" /\ q.chat = s /\ q.seen = messages[s]
    BY <1>1 DEF Asking, NoQuestion
<1>3. /\ asking' = [asking EXCEPT ![k] = q] /\ asking[k] = NoQuestion /\ chat[s] = "open"
      /\ crossed' = IF AskingIn(s) = {} THEN crossed ELSE crossed \cup {s}
      /\ UNCHANGED <<base, chat, messages, logs, blotted, chatFaults>>
    BY DEF GetSession
<1> HIDE DEF q
<1>4. asking'[k] = q /\ \A j \in Asks \ {k} : asking'[j] = asking[j]
    BY <1>3 DEF ChatInv, ChatTypeOK
<1>5. ChatTypeOK'
    BY <1>2, <1>3, ChatBounds DEF ChatInv, ChatTypeOK, GetSession
<1>6. AskingIn(s)' = AskingIn(s) \cup {k} /\ \A j \in AskingIn(s) : asking'[j] = asking[j]
    BY <1>2, <1>3, <1>4 DEF AskingIn
<1>7. s \notin crossed' => AskingIn(s) = {} /\ s \notin crossed
    BY <1>3
<1>8. ChatOK(s)
    BY DEF ChatInv
<1>9. Quiet(s)'
    BY <1>3, <1>6, <1>7, <1>8 DEF ChatOK, Quiet
<1>10. Ahead(s)'
    BY <1>2, <1>3, <1>4, <1>6, <1>8 DEF ChatOK, Ahead
<1>11. Exact(s)'
    BY <1>2, <1>3, <1>4, <1>6, <1>7, <1>8 DEF ChatOK, Exact
<1>12. ASSUME NEW t \in Chats, t # s PROVE ChatOK(t)'
    BY <1>2, <1>3, <1>4, <1>12, OtherChat DEF ChatInv
<1> QED
    BY <1>5, <1>9, <1>10, <1>11, <1>12 DEF ChatInv, ChatOK

\* A call that leaves without an answer takes nothing with it.
LEMMA AnswerNothingKeeps ==
    ASSUME ChatInv, NEW k \in Asks, AnswerNothing(k)
    PROVE  ChatInv'
<1>1. /\ asking' = [asking EXCEPT ![k] = NoQuestion] /\ asking[k].pc = "answer"
      /\ UNCHANGED <<base, chat, messages, logs, crossed, blotted, asked, chatFaults>>
    BY DEF AnswerNothing, EndAsk
<1>2. asking'[k] = NoQuestion /\ \A j \in Asks \ {k} : asking'[j] = asking[j]
    BY <1>1 DEF ChatInv, ChatTypeOK
<1>3. ChatTypeOK'
    BY <1>1 DEF ChatInv, ChatTypeOK
<1>4. ASSUME NEW s \in Chats PROVE ChatOK(s)'
  <2>1. AskingIn(s)' = AskingIn(s) \ {k}
    BY <1>2 DEF AskingIn
  <2>2. \A j \in AskingIn(s)' : asking'[j] = asking[j]
    BY <1>2 DEF AskingIn
  <2>3. (\A j \in AskingIn(s)' : asking'[j].pc # "count") => \A j \in AskingIn(s) : asking[j].pc # "count"
    BY <1>1, <2>1, <2>2
  <2>4. ChatOK(s)
    BY DEF ChatInv
  <2> QED
    BY <1>1, <2>1, <2>2, <2>3, <2>4 DEF ChatOK, Quiet, Ahead, Exact
<1> QED
    BY <1>3, <1>4 DEF ChatInv

\* An answer is in memory first.
LEMMA AnswerKeeps ==
    ASSUME ChatInv, NEW k \in Asks, Answer(k)
    PROVE  ChatInv'
<1> DEFINE q == [asking[k] EXCEPT !.pc = "log"]
<1>1. asking[k] \in Asking /\ asking[k].pc = "answer" /\ asking[k] # NoQuestion
    BY Question DEF Answer, ChatInv
<1>2. /\ q \in Asking /\ q # NoQuestion /\ q.pc = "log" /\ q.chat = asking[k].chat
      /\ q.seen = asking[k].seen
    BY <1>1 DEF Asking, NoQuestion
<1>3. /\ asking' = [asking EXCEPT ![k] = q]
      /\ UNCHANGED <<base, chat, messages, logs, crossed, blotted, asked, chatFaults>>
    BY DEF Answer, ChatInv, ChatTypeOK
<1> HIDE DEF q
<1>4. asking'[k] = q /\ \A j \in Asks \ {k} : asking'[j] = asking[j]
    BY <1>3 DEF ChatInv, ChatTypeOK
<1>5. ChatTypeOK'
    BY <1>2, <1>3 DEF ChatInv, ChatTypeOK
<1>6. ASSUME NEW s \in Chats PROVE ChatOK(s)'
  <2>1. AskingIn(s)' = AskingIn(s)
    BY <1>1, <1>2, <1>4 DEF AskingIn
  <2>2. \A j \in AskingIn(s) : /\ asking'[j].seen = asking[j].seen
                               /\ asking'[j].pc = "count" <=> asking[j].pc = "count"
    BY <1>1, <1>2, <1>4 DEF AskingIn
  <2>3. ChatOK(s)
    BY DEF ChatInv
  <2> QED
    BY <1>3, <2>1, <2>2, <2>3 DEF ChatOK, Quiet, Ahead, Exact
<1> QED
    BY <1>5, <1>6 DEF ChatInv

\* A stored answer puts the logs one ahead.
LEMMA CreateChatLogKeeps ==
    ASSUME ChatInv, NEW k \in Asks, CreateChatLog(k)
    PROVE  ChatInv'
<1> DEFINE q == [asking[k] EXCEPT !.pc = "count"]
<1>1. asking[k] \in Asking /\ asking[k].pc = "log" /\ asking[k] # NoQuestion
    BY Question DEF CreateChatLog, ChatInv
<1>2. PICK s \in Chats : s = asking[k].chat
    BY <1>1 DEF Asking
<1>3. /\ q \in Asking /\ q # NoQuestion /\ q.pc = "count" /\ q.chat = s
      /\ q.seen = asking[k].seen
    BY <1>1, <1>2 DEF Asking, NoQuestion
<1>4. logs[s] \in Nat /\ messages[s] \in Nat /\ asking[k].seen \in Nat
    BY <1>1 DEF ChatInv, ChatTypeOK, Asking
<1>5. /\ asking' = [asking EXCEPT ![k] = q] /\ logs' = [logs EXCEPT ![s] = logs[s] + 1]
      /\ UNCHANGED <<base, chat, messages, crossed, blotted, asked, chatFaults>>
    BY <1>2 DEF CreateChatLog, ChatInv, ChatTypeOK
<1> HIDE DEF q
<1>6. /\ asking'[k] = q /\ \A j \in Asks \ {k} : asking'[j] = asking[j]
      /\ logs'[s] = logs[s] + 1 /\ \A t \in Chats \ {s} : logs'[t] = logs[t]
    BY <1>5 DEF ChatInv, ChatTypeOK
<1>7. ChatTypeOK'
    BY <1>3, <1>4, <1>5 DEF ChatInv, ChatTypeOK
<1>8. k \in AskingIn(s) /\ AskingIn(s)' = AskingIn(s)
    BY <1>1, <1>2, <1>3, <1>6 DEF AskingIn
<1>9. ChatOK(s)
    BY DEF ChatInv
<1>10. s \notin crossed => AskingIn(s) = {k} /\ chat[s] = "open"
    BY <1>8, <1>9 DEF ChatOK, Quiet
<1>11. Quiet(s)'
    BY <1>5, <1>8, <1>9, <1>10 DEF ChatOK, Quiet
<1>12. \A j \in AskingIn(s) : asking'[j].seen = asking[j].seen /\ asking[j].seen \in Nat
    BY <1>3, <1>6, Question DEF AskingIn, ChatInv, Asking
<1>13. \A j \in AskingIn(s) \ {k} : asking'[j].pc = asking[j].pc
    BY <1>6 DEF AskingIn
<1>14. Ahead(s)'
    BY <1>4, <1>5, <1>6, <1>8, <1>9, <1>12, <1>13 DEF ChatOK, Ahead
<1>15. Exact(s)'
    BY <1>1, <1>3, <1>5, <1>6, <1>8, <1>9, <1>10, <1>12 DEF ChatOK, Exact
<1>16. ASSUME NEW t \in Chats, t # s PROVE ChatOK(t)'
    BY <1>2, <1>3, <1>5, <1>6, <1>16, OtherChat DEF ChatInv
<1> QED
    BY <1>7, <1>11, <1>14, <1>15, <1>16 DEF ChatInv, ChatOK

\* A failed log makes its session blotted.
LEMMA FailLogKeeps ==
    ASSUME ChatInv, NEW k \in Asks, FailLog(k)
    PROVE  ChatInv'
<1> DEFINE q == [asking[k] EXCEPT !.pc = "count"]
<1>1. asking[k] \in Asking /\ asking[k].pc = "log" /\ asking[k] # NoQuestion
    BY Question DEF FailLog, ChatInv
<1>2. PICK s \in Chats : s = asking[k].chat
    BY <1>1 DEF Asking
<1>3. q \in Asking /\ q # NoQuestion /\ q.chat = s
    BY <1>1, <1>2 DEF Asking, NoQuestion
<1>4. /\ asking' = [asking EXCEPT ![k] = q] /\ blotted' = blotted \cup {s}
      /\ UNCHANGED <<base, chat, messages, logs, crossed, asked>>
    BY <1>2 DEF FailLog, ChatInv, ChatTypeOK
<1> HIDE DEF q
<1>5. asking'[k] = q /\ \A j \in Asks \ {k} : asking'[j] = asking[j]
    BY <1>4 DEF ChatInv, ChatTypeOK
<1>6. ChatTypeOK'
    BY <1>3, <1>4, ChatBounds DEF ChatInv, ChatTypeOK, FailLog
<1>7. AskingIn(s)' = AskingIn(s)
    BY <1>1, <1>2, <1>3, <1>5 DEF AskingIn
<1>8. ChatOK(s)'
    BY <1>4, <1>7 DEF ChatInv, ChatOK, Quiet, Ahead, Exact
<1>9. ASSUME NEW t \in Chats, t # s PROVE ChatOK(t)'
    BY <1>2, <1>3, <1>4, <1>5, <1>9, OtherChat DEF ChatInv
<1> QED
    BY <1>6, <1>8, <1>9 DEF ChatInv

\* The count becomes what the call has seen and one more: never more than the
\* logs, and just the logs when the call was alone.
LEMMA CountMessageKeeps ==
    ASSUME ChatInv, NEW k \in Asks, CountMessage(k)
    PROVE  ChatInv'
<1>1. asking[k] \in Asking /\ asking[k].pc = "count" /\ asking[k] # NoQuestion
    BY Question DEF CountMessage, ChatInv
<1>2. PICK s \in Chats : s = asking[k].chat
    BY <1>1 DEF Asking
<1> DEFINE n == IF chat[s] = "open" THEN asking[k].seen + 1 ELSE messages[s]
<1>3. /\ logs[s] \in Nat /\ messages[s] \in Nat /\ asking[k].seen \in Nat /\ n \in Nat
      /\ chat[s] = "open" => n = asking[k].seen + 1
    BY <1>1 DEF ChatInv, ChatTypeOK, Asking
<1>4. /\ asking' = [asking EXCEPT ![k] = NoQuestion] /\ messages' = [messages EXCEPT ![s] = n]
      /\ UNCHANGED <<base, chat, logs, crossed, blotted, asked, chatFaults>>
    BY <1>2 DEF CountMessage, EndAsk, ChatInv, ChatTypeOK
<1>5. chat[s] # "open" => n = messages[s]
    OBVIOUS
<1> HIDE DEF n
<1>6. /\ asking'[k] = NoQuestion /\ \A j \in Asks \ {k} : asking'[j] = asking[j]
      /\ messages'[s] = n /\ \A t \in Chats \ {s} : messages'[t] = messages[t]
    BY <1>4 DEF ChatInv, ChatTypeOK
<1>7. ChatTypeOK'
    BY <1>3, <1>4 DEF ChatInv, ChatTypeOK
<1>8. /\ k \in AskingIn(s) /\ AskingIn(s)' = AskingIn(s) \ {k}
      /\ \A j \in AskingIn(s)' : asking'[j] = asking[j]
    BY <1>1, <1>2, <1>6 DEF AskingIn
<1>9. ChatOK(s)
    BY DEF ChatInv
<1>10. s \notin crossed => AskingIn(s) = {k} /\ chat[s] = "open"
    BY <1>8, <1>9 DEF ChatOK, Quiet
<1>11. Quiet(s)'
    BY <1>4, <1>8, <1>9, <1>10 DEF ChatOK, Quiet
<1>12. Ahead(s)'
    BY <1>1, <1>3, <1>4, <1>6, <1>8, <1>9 DEF ChatOK, Ahead
<1>13. Exact(s)'
    BY <1>1, <1>3, <1>4, <1>6, <1>8, <1>9, <1>10 DEF ChatOK, Exact
<1>14. ASSUME NEW t \in Chats, t # s PROVE ChatOK(t)'
    BY <1>2, <1>4, <1>6, <1>14, OtherChat DEF ChatInv
<1> QED
    BY <1>7, <1>11, <1>12, <1>13, <1>14 DEF ChatInv, ChatOK

\* A count that is cut off makes its session blotted.
LEMMA CutCountKeeps ==
    ASSUME ChatInv, NEW k \in Asks, CutCount(k)
    PROVE  ChatInv'
<1>1. asking[k] \in Asking /\ asking[k] # NoQuestion
    BY Question DEF CutCount, ChatInv
<1>2. PICK s \in Chats : s = asking[k].chat
    BY <1>1 DEF Asking
<1>3. /\ asking' = [asking EXCEPT ![k] = NoQuestion] /\ blotted' = blotted \cup {s}
      /\ UNCHANGED <<base, chat, messages, logs, crossed, asked>>
    BY <1>2 DEF CutCount, EndAsk
<1>4. asking'[k] = NoQuestion /\ \A j \in Asks \ {k} : asking'[j] = asking[j]
    BY <1>3 DEF ChatInv, ChatTypeOK
<1>5. ChatTypeOK'
    BY <1>3, ChatBounds DEF ChatInv, ChatTypeOK, CutCount
<1>6. AskingIn(s)' \subseteq AskingIn(s)
    BY <1>4 DEF AskingIn
<1>7. ChatOK(s)'
    BY <1>3, <1>6 DEF ChatInv, ChatOK, Quiet, Ahead, Exact
<1>8. ASSUME NEW t \in Chats, t # s PROVE ChatOK(t)'
    BY <1>2, <1>3, <1>4, <1>8, OtherChat DEF ChatInv
<1> QED
    BY <1>5, <1>7, <1>8 DEF ChatInv

\* Sessions that go, go with their logs; a call in one of them crosses it.
LEMMA DropKeeps ==
    ASSUME ChatInv, NEW gone \in SUBSET Chats, Drop(gone),
           \A s \in gone : chat[s] = "open" /\ logs'[s] = 0,
           \A s \in Chats \ gone : logs'[s] = logs[s] \/ (chat[s] # "open" /\ logs'[s] = 0),
           logs' \in [Chats -> Nat], base' \in {"open", "gone"},
           UNCHANGED <<asking, blotted, asked, chatFaults>>
    PROVE  ChatInv'
<1>1. \A s \in Chats : AskingIn(s)' = AskingIn(s)
    BY DEF AskingIn
<1>2. /\ \A s \in gone : chat'[s] = "gone" /\ (s \notin crossed' => AskingIn(s) = {})
      /\ \A s \in Chats \ gone : chat'[s] = chat[s] /\ messages'[s] = messages[s]
      /\ crossed \subseteq crossed' /\ crossed' \subseteq Chats
    BY DEF Drop, ChatInv, ChatTypeOK
<1>3. ChatTypeOK'
    BY <1>2 DEF ChatInv, ChatTypeOK, Drop
<1>4. ASSUME NEW s \in gone PROVE ChatOK(s)'
    BY <1>1, <1>2, <1>4 DEF ChatOK, Quiet, Ahead, Exact
<1>5. ASSUME NEW s \in Chats \ gone PROVE ChatOK(s)'
  <2>1. ChatOK(s)
    BY <1>5 DEF ChatInv
  <2> QED
    BY <1>1, <1>2, <1>5, <2>1 DEF ChatOK, Quiet, Ahead, Exact
<1> QED
    BY <1>3, <1>4, <1>5 DEF ChatInv

\* DeleteSession takes one session with its logs, DeleteKB all of them.
LEMMA DeletesKeep ==
    ASSUME ChatInv, (\E s \in Chats : DeleteSession(s)) \/ DeleteChatBase
    PROVE  ChatInv'
<1>1. ASSUME NEW s \in Chats, DeleteSession(s) PROVE ChatInv'
  <2> DEFINE gone == {s}
  <2>1. /\ gone \in SUBSET Chats /\ Drop(gone)
        /\ \A t \in gone : chat[t] = "open" /\ logs'[t] = 0
        /\ \A t \in Chats \ gone : logs'[t] = logs[t] \/ (chat[t] # "open" /\ logs'[t] = 0)
        /\ logs' \in [Chats -> Nat] /\ base' \in {"open", "gone"}
        /\ UNCHANGED <<asking, blotted, asked, chatFaults>>
    BY <1>1 DEF DeleteSession, ChatInv, ChatTypeOK
  <2> HIDE DEF gone
  <2> QED
    BY <2>1, DropKeeps
<1>2. ASSUME DeleteChatBase PROVE ChatInv'
  <2> DEFINE gone == {s \in Chats : chat[s] = "open"}
  <2>1. /\ gone \in SUBSET Chats /\ Drop(gone)
        /\ \A t \in gone : chat[t] = "open" /\ logs'[t] = 0
        /\ \A t \in Chats \ gone : logs'[t] = logs[t] \/ (chat[t] # "open" /\ logs'[t] = 0)
        /\ logs' \in [Chats -> Nat] /\ base' \in {"open", "gone"}
        /\ UNCHANGED <<asking, blotted, asked, chatFaults>>
    BY <1>2 DEF DeleteChatBase, ChatInv, ChatTypeOK
  <2> HIDE DEF gone
  <2> QED
    BY <2>1, DropKeeps
<1> QED
    BY <1>1, <1>2

-----------------------------------------------------------------------------
\* Every step keeps the invariant.
LEMMA ChatInvNext == ChatInv /\ [ChatNext]_chatVars => ChatInv'
<1> SUFFICES ASSUME ChatInv, [ChatNext]_chatVars PROVE ChatInv'
    OBVIOUS
<1>1. ASSUME NEW k \in Asks, Ask(k) PROVE ChatInv'
    BY <1>1, CreateSessionKeeps, GetSessionKeeps, AnswerNothingKeeps, AnswerKeeps,
       CreateChatLogKeeps, FailLogKeeps, CountMessageKeeps, CutCountKeeps DEF Ask
<1>2. ASSUME UNCHANGED chatVars PROVE ChatInv'
    BY <1>2 DEF chatVars, ChatInv, ChatTypeOK, ChatOK, Quiet, Ahead, Exact, AskingIn
<1> QED
    BY <1>1, <1>2, DeletesKeep DEF ChatNext

\* In a session no two calls shared, the answers being counted are none or one.
LEMMA ChatInvImplies == ChatInv => ChatTypeOK /\ CountMatchesLogs /\ LogsNeedSession
<1> SUFFICES ASSUME ChatInv PROVE ChatTypeOK /\ CountMatchesLogs /\ LogsNeedSession
    OBVIOUS
<1>1. ASSUME NEW s \in Chats, chat[s] = "open", s \notin blotted, s \notin crossed
      PROVE  logs[s] = messages[s] + Cardinality(Uncounted(s))
  <2>1. Exact(s) /\ Quiet(s) /\ messages[s] \in Nat
    BY DEF ChatInv, ChatOK, ChatTypeOK
  <2>2. CASE Uncounted(s) = {}
    <3>1. \A k \in AskingIn(s) : asking[k].pc # "count"
      BY <2>2 DEF Uncounted
    <3>2. Cardinality(Uncounted(s)) = 0
      BY <2>2, FS_EmptySet
    <3> QED
      BY <1>1, <2>1, <3>1, <3>2 DEF Exact
  <2>3. CASE Uncounted(s) # {}
    <3>1. PICK k \in AskingIn(s) : asking[k].pc = "count"
      BY <2>3 DEF Uncounted
    <3>2. Uncounted(s) = {k}
      BY <1>1, <2>1, <3>1 DEF Quiet, Uncounted
    <3>3. Cardinality(Uncounted(s)) = 1
      BY <3>2, FS_Singleton
    <3> QED
      BY <1>1, <2>1, <3>1, <3>3 DEF Exact
  <2> QED
    BY <2>2, <2>3
<1>2. CountMatchesLogs
    BY <1>1 DEF CountMatchesLogs, ChatInv, ChatOK, Ahead
<1>3. LogsNeedSession
    BY DEF LogsNeedSession, ChatInv, ChatOK, Quiet
<1> QED
    BY <1>2, <1>3 DEF ChatInv

\* The invariant holds in every reachable state.
LEMMA ChatInvariant == ChatSpec => []ChatInv
<1>1. ChatInit => ChatInv
    BY ChatInvInit
<1>2. ChatInv /\ [ChatNext]_chatVars => ChatInv'
    BY ChatInvNext
<1> QED
    BY <1>1, <1>2, PTL DEF ChatSpec

-----------------------------------------------------------------------------
\* message_count never runs ahead of the log rows of its session, and is exact
\* where calls did not meet and no write failed.
THEOREM CountsAreRight == ChatSpec => []CountMatchesLogs
<1>1. ChatInv => CountMatchesLogs
    BY ChatInvImplies
<1> QED
    BY <1>1, ChatInvariant, PTL

\* DeleteSession and DeleteKB leave no log row behind, unless a call was still
\* answering in the session.
THEOREM NoLogsWithoutSession == ChatSpec => []LogsNeedSession
<1>1. ChatInv => LogsNeedSession
    BY ChatInvImplies
<1> QED
    BY <1>1, ChatInvariant, PTL

\* Both together, for any number of sessions and of questions at once.
THEOREM LogsAlwaysAgree == ChatSpec => []LogsAgree
<1>1. CountMatchesLogs /\ LogsNeedSession => LogsAgree
    BY DEF LogsAgree
<1> QED
    BY <1>1, CountsAreRight, NoLogsWithoutSession, PTL

-----------------------------------------------------------------------------
(* The eight together *)

\* All that is kept of the eight; nothing of one rests on another.
PlatformInv ==
    /\ SessionInv /\ ProfileInv /\ OrderIdInv /\ ChatInv /\ EvalInv /\ DeployInv
    /\ TextInv /\ FormInv
    /\ MarkdownInv /\ LinesInv /\ LimitInv

\* Every part begins as its module does.
LEMMA PlatformInvInit == Init => PlatformInv
<1> SUFFICES ASSUME Init PROVE PlatformInv
  OBVIOUS
<1>1. /\ SessionInit /\ ProfileInit /\ OrderIdInit /\ ChatInit /\ EvalInit /\ DeployInit
      /\ ChunkInit /\ MarkdownInit
  BY DEF Init
<1>2. SessionInv /\ ProfileInv /\ OrderIdInv /\ ChatInv /\ EvalInv /\ DeployInv
  BY <1>1, InvInit, ProfileInvInit, OrderIdInvInit, ChatInvInit, EvalInvInit, DeployInvInit
<1>3. TextInv /\ FormInv
  BY <1>1, TextInvInit, FormInvInit
<1>4. MarkdownInv /\ LinesInv /\ LimitInv
  BY <1>1, MarkdownInvInit, LinesInvInit, LimitInvInit
<1> QED  BY <1>2, <1>3, <1>4 DEF PlatformInv

\* A step is one of its part, and the others stay as they are.
LEMMA PlatformInvNext == PlatformInv /\ [Next]_vars => PlatformInv'
<1> SUFFICES ASSUME PlatformInv, [Next]_vars PROVE PlatformInv'
  OBVIOUS
<1>1. /\ [SessionNext]_sessionVars /\ [ProfileNext]_profileVars /\ [OrderIdNext]_orderIdVars
      /\ [ChatNext]_chatVars /\ [EvalNext]_evalVars /\ [DeployNext]_deployVars
      /\ [ChunkNext]_chunkVars /\ [MarkdownNext]_markdownVars
  BY DEF Next, vars
<1>2. /\ SessionInv /\ ProfileInv /\ OrderIdInv /\ ChatInv /\ EvalInv /\ DeployInv
      /\ TextInv /\ FormInv /\ MarkdownInv /\ LinesInv /\ LimitInv
  BY DEF PlatformInv
<1>3. SessionInv' /\ ProfileInv' /\ OrderIdInv' /\ ChatInv' /\ EvalInv' /\ DeployInv'
  BY <1>1, <1>2, InvNext, ProfileInvNext, OrderIdInvNext, ChatInvNext, EvalInvNext, DeployInvNext
<1>4. TextInv' /\ FormInv'
  BY <1>1, <1>2, TextInvNext, FormInvNext
<1>5. MarkdownInv' /\ LinesInv' /\ LimitInv'
  BY <1>1, <1>2, MarkdownInvNext, LinesInvNext, LimitInvNext
<1> QED  BY <1>3, <1>4, <1>5 DEF PlatformInv

\* The types of all eight hold in the composition that the run checks: of
\* whatever is said, saved, numbered, asked, evaluated, rolled out, cut and
\* parsed, for any values of their constants.
THEOREM PlatformTypes == Spec => []TypeOK
<1>1. PlatformInv => TypeOK
  BY ChunkTyped, MarkdownTyped
     DEF PlatformInv, SessionInv, ProfileInv, OrderIdInv, ChatInv, EvalInv, DeployInv, TypeOK
<1> QED  BY <1>1, PlatformInvInit, PlatformInvNext, PTL DEF Spec

=============================================================================
