----------------------------- MODULE Repertoire -----------------------------
(***************************************************************************)
(* One player's opening repertoire: the rows of llm/seca/storage/repo.py   *)
(* (305-508) and the editing endpoints of llm/seca/repertoire/router.py.   *)
(* An edit seeds the defaults, reads, and commits; each of the three is a  *)
(* session of its own, so requests interleave between them.  A commit      *)
(* updates the columns that differ from what was read, by primary key: it  *)
(* fails when a row it updates is gone.                                    *)
(***************************************************************************)
EXTENDS Naturals, FiniteSets

CONSTANTS Ecos, Defaults,  \* DEFAULT_REPERTOIRE, among the Ecos
          FavouriteEco,    \* the default that is active
          Edits,           \* requests that may be under way together
          MaxLines          \* bound on the primary keys handed out

ASSUME RepertoireAssumption ==
    Defaults \subseteq Ecos /\ FavouriteEco \in Defaults /\ MaxLines \in Nat

VARIABLES lines,    \* Ecos to rows; key 0 is no row
          edit,     \* what each request is doing
          keys,     \* primary keys handed out
          dropped,  \* history: deleted while other lines were left, not re-added
          overlapped  \* history: two writers of the active flag overlapped

repertoireVars == <<lines, edit, keys, dropped, overlapped>>

Absent == [key |-> 0, active |-> FALSE]
StoredRows(l) == {e \in Ecos : l[e].key # 0}
Resting == [at |-> "idle"]

RepertoireInit ==
    /\ lines = [e \in Ecos |-> Absent]
    /\ edit = [r \in Edits |-> Resting]
    /\ keys = 0
    /\ dropped = {}
    /\ overlapped = FALSE

Doing(r, at) == edit' = [edit EXCEPT ![r].at = at]
Answered(r) == edit' = [edit EXCEPT ![r] = Resting]
seeded == <<lines, keys, dropped, overlapped>>

\* Mutated form of NothingStored: each default is looked for on its own.
NothingStoredOf(l) == Defaults \ StoredRows(l) # {}

\* A request arrives with a valid eco; all four editing endpoints seed first,
\* and seed_default_repertoire looks for any row.
NothingStored(l) == StoredRows(l) = {}

Edit(r, op, e) ==
    /\ edit[r] = Resting
    /\ edit' = [edit EXCEPT ![r] =
                  [op |-> op, eco |-> e, read |-> [f \in Ecos |-> Absent],
                   at |-> IF NothingStored(lines) THEN "seeding" ELSE "reading"]]
    /\ UNCHANGED seeded

FlagEdit(r) == edit[r].at = "writing" /\ edit[r].op \in {"activate", "add"}

\* Its INSERTs; a unique (player, eco) that exists by now fails the request.
FillDefaults(l) ==
    [e \in Ecos |-> IF e \in Defaults
                    THEN [key |-> keys + 1, active |-> e = FavouriteEco] ELSE l[e]]

SeedDefaults(r) ==
    /\ edit[r].at = "seeding"
    /\ IF StoredRows(lines) \intersect Defaults # {}
       THEN Answered(r) /\ UNCHANGED seeded
       ELSE /\ keys < MaxLines
            /\ lines' = FillDefaults(lines)
            /\ keys' = keys + 1
            /\ overlapped' = (overlapped \/ StoredRows(lines) # {} \/ \E q \in Edits : FlagEdit(q))
            /\ Doing(r, "reading")
            /\ UNCHANGED dropped

\* What a later step uses of the rows: all of them, or the one of the eco.
AsRead(q) == [f \in Ecos |-> IF q.op = "activate" \/ f = q.eco THEN lines[f] ELSE Absent]

\* The SELECTs.  DELETE, drill-result and active answer 404 without a row.
ReadLines(r) ==
    /\ edit[r].at = "reading"
    /\ IF edit[r].op # "add" /\ lines[edit[r].eco].key = 0
       THEN Answered(r) /\ UNCHANGED overlapped
       ELSE /\ edit' = [edit EXCEPT ![r].at = "writing", ![r].read = AsRead(edit[r])]
            /\ overlapped' = (overlapped \/ \E q \in Edits : FlagEdit(q))
    /\ UNCHANGED <<lines, keys, dropped>>

\* set_active_opening: the others are demoted, the target promoted.  Only a
\* flag that differs from the one read is in the UPDATE.
Activated(e, read) ==
    [f \in Ecos |-> IF f = e THEN [lines[f] EXCEPT !.active = TRUE]
                    ELSE IF read[f].active THEN [lines[f] EXCEPT !.active = FALSE]
                    ELSE lines[f]]

SameRows(read) == \A f \in StoredRows(read) : lines[f].key = read[f].key

SetActiveOpening(r) ==
    /\ edit[r].at = "writing" /\ edit[r].op = "activate"
    /\ lines' = IF SameRows(edit[r].read)
                THEN Activated(edit[r].eco, edit[r].read) ELSE lines
    /\ Answered(r)
    /\ UNCHANGED <<keys, dropped, overlapped>>

\* upsert_opening, always called with is_active = False: an existing row loses
\* its flag, a new one is appended.
AddOpening(r) ==
    /\ edit[r].at = "writing" /\ edit[r].op = "add"
    /\ LET e == edit[r].eco IN
       IF edit[r].read[e].key # 0
       THEN /\ lines' = IF lines[e].key = edit[r].read[e].key
                           /\ edit[r].read[e].active
                        THEN [lines EXCEPT ![e].active = FALSE] ELSE lines
            /\ UNCHANGED <<keys, dropped>>
       ELSE IF lines[e].key # 0
       THEN UNCHANGED <<lines, keys, dropped>>
       ELSE /\ keys < MaxLines
            /\ lines' = [lines EXCEPT ![e] = [key |-> keys + 1, active |-> FALSE]]
            /\ keys' = keys + 1
            /\ dropped' = dropped \ {e}
    /\ Answered(r)
    /\ UNCHANGED overlapped

\* delete_opening; a row that is gone or was replaced is left alone.
DeleteOpening(r) ==
    /\ edit[r].at = "writing" /\ edit[r].op = "delete"
    /\ LET e == edit[r].eco
           left == IF lines[e].key = edit[r].read[e].key
                   THEN [lines EXCEPT ![e] = Absent] ELSE lines
           seeding == \E q \in Edits : edit[q].at = "seeding"
       IN /\ lines' = left
          /\ dropped' = IF StoredRows(left) = {} \/ seeding THEN {}
                        ELSE IF left = lines THEN dropped ELSE dropped \union {e}
    /\ Answered(r)
    /\ UNCHANGED <<keys, overlapped>>

\* The drill result: the mastery of the row, if it is still there.
DrillOpening(r) ==
    /\ edit[r].at = "writing" /\ edit[r].op = "drill"
    /\ Answered(r)
    /\ UNCHANGED seeded

RepertoireNext ==
    \E r \in Edits :
       \/ SeedDefaults(r) \/ ReadLines(r) \/ SetActiveOpening(r)
       \/ AddOpening(r) \/ DeleteOpening(r) \/ DrillOpening(r)
       \/ \E op \in {"activate", "add", "delete", "drill"}, e \in Ecos : Edit(r, op, e)

RepertoireSpec == RepertoireInit /\ [][RepertoireNext]_repertoireVars

-----------------------------------------------------------------------------
(* Properties *)

ActiveLines == {e \in Ecos : lines[e].active}

\* Keys are handed out once, only stored lines are active, and a request holds
\* rows that were handed out.
RepertoireTypeOK ==
    /\ keys \in 0..MaxLines
    /\ lines \in [Ecos -> [key : 0..keys, active : BOOLEAN]]
    /\ ActiveLines \subseteq StoredRows(lines)
    /\ dropped \subseteq Ecos /\ overlapped \in BOOLEAN

\* repo.py 415-416: "Two writes in one transaction so the "exactly one active"
\* invariant holds at every observable moment".  It does as long as no two
\* requests that write the flag overlap: the demotion covers the rows the
\* transaction has seen.
OneActiveUnlessOverlapped == ~overlapped => Cardinality(ActiveLines) <= 1

\* router.py 238-262: a deleted default does not come back when a later edit
\* seeds, nor when a request that read the line before the deletion writes it;
\* only deleting the last line, or adding it again, brings it back.
DroppedStaysDropped == dropped \intersect StoredRows(lines) = {}

\* The repertoire has one active line and brings back none that was deleted.
RepertoireSafe == RepertoireTypeOK /\ OneActiveUnlessOverlapped /\ DroppedStaysDropped
=============================================================================
