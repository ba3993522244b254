------------------------------ MODULE Profile ------------------------------
(***************************************************************************)
(* UpsertUserInfo of internal/service/user.go: the row of tb_user_info,    *)
(* made on the first save, in three calls: COUNT, INSERT of the key alone  *)
(* when there was no row, UPDATE of the fields that were sent.  user_id is *)
(* the primary key, so of two INSERTs the second is refused.               *)
(***************************************************************************)
EXTENDS Integers, FiniteSets

CONSTANTS
    Saves,          \* calls, of one user
    Fields,         \* introduce, gender, city, birthday
    MaxSaveFaults   \* bound: calls of the database that fail

ASSUME SaveBounds == MaxSaveFaults \in Nat
ASSUME FieldsAssumption == Fields # {}

VARIABLES
    row,         \* [Fields -> the call that wrote it, Unset], or NoRow
    save,        \* [Saves -> where the call is and what it was sent]
    saveFaults   \* faults so far

profileVars == <<row, save, saveFaults>>

Unset == "unset"
NoRow == <<>>
EmptyRow == [f \in Fields |-> Unset]
ASSUME UnsetAssumption == Unset \notin Saves

ProfileTypeOK ==
    /\ row = NoRow \/ row \in [Fields -> Saves \cup {Unset}]
    /\ save \in [Saves -> [pc : {"count", "insert", "update", "ok", "failed", "cut"},
                           fields : (SUBSET Fields) \ {{}}]]
    /\ saveFaults \in 0..MaxSaveFaults

\* Every call has something to save: the code refuses one that has not.
ProfileInit ==
    /\ row = NoRow
    /\ save \in [Saves -> [pc : {"count"}, fields : (SUBSET Fields) \ {{}}]]
    /\ saveFaults = 0

CountRows(c) ==
    /\ save[c].pc = "count"
    /\ save' = [save EXCEPT ![c].pc = IF row = NoRow THEN "insert" ELSE "update"]
    /\ UNCHANGED <<row, saveFaults>>

\* Mutant: REPLACE INTO.
ReplaceRow(c) ==
    /\ save[c].pc = "insert"
    /\ row' = EmptyRow
    /\ save' = [save EXCEPT ![c].pc = "update"]
    /\ UNCHANGED saveFaults

\* INSERT of the key; refused when another call has inserted it meanwhile.
InsertRow(c) ==
    /\ save[c].pc = "insert"
    /\ IF row = NoRow
       THEN row' = EmptyRow /\ save' = [save EXCEPT ![c].pc = "update"]
       ELSE UNCHANGED row /\ save' = [save EXCEPT ![c].pc = "failed"]
    /\ UNCHANGED saveFaults

\* The row with the fields that c was sent.
Updated(c) == [f \in Fields |-> IF f \in save[c].fields THEN c ELSE row[f]]

UpdateRow(c) ==
    /\ save[c].pc = "update"
    /\ row' = Updated(c)
    /\ save' = [save EXCEPT ![c].pc = "ok"]
    /\ UNCHANGED saveFaults

\* A statement returns an error, with or without its effect.  The caller hears
\* the same of each; "cut" tells those whose error is that of the UPDATE.
FailSave(c) ==
    /\ saveFaults < MaxSaveFaults
    /\ \/ save[c].pc = "count" /\ UNCHANGED row
       \/ save[c].pc = "insert" /\ row' \in {row, IF row = NoRow THEN EmptyRow ELSE row}
       \/ save[c].pc = "update" /\ row' \in {row, Updated(c)}
    /\ save' = [save EXCEPT ![c].pc = IF @ = "update" THEN "cut" ELSE "failed"]
    /\ saveFaults' = saveFaults + 1

ProfileNext ==
    \E c \in Saves : CountRows(c) \/ InsertRow(c) \/ UpdateRow(c) \/ FailSave(c)

ProfileSpec == ProfileInit /\ [][ProfileNext]_profileVars

-----------------------------------------------------------------------------
Ended(c) == save[c].pc \in {"ok", "failed", "cut"}

\* What was saved stays: a field a call was told to have saved is never empty
\* again, however many other calls then make or change the row.
SavedFieldsStay ==
    \A c \in Saves : save[c].pc = "ok" =>
        row # NoRow /\ \A f \in save[c].fields : row[f] # Unset

\* A field is what a call sent that was told ok, or whose UPDATE came back with
\* an error; a call that was refused before has left nothing.
FieldsWereSent ==
    row # NoRow => \A c \in Saves, f \in Fields :
        row[f] = c => save[c].pc \in {"ok", "cut"} /\ f \in save[c].fields

\* Fields that two calls both sent are of one of them: a profile does not mix
\* two saves, whatever order they and their errors come in.
SavesDoNotMix ==
    row # NoRow => \A c, d \in Saves : c # d =>
        \A f, g \in save[c].fields \cap save[d].fields : row[f] = c => row[g] # d

\* Of first saves that meet all may be refused but the one whose INSERT came
\* first; unless the database fails, that one gets through.
OneSaveWins ==
    saveFaults = 0 /\ (\A c \in Saves : Ended(c)) /\ Saves # {} =>
        \E c \in Saves : save[c].pc = "ok"

\* What the callers of first saves that meet were told is what they find.
SavesTellTrue == SavedFieldsStay /\ FieldsWereSent /\ SavesDoNotMix /\ OneSaveWins

=============================================================================
