----------------------------- MODULE StudyWeek -----------------------------
(***************************************************************************)
(* One player's study plans: the background task that mints a plan after a *)
(* finished game (llm/seca/coach/study_plan/agent.py), the two endpoints   *)
(* of its router, POST /training/solve, and the drill sheet of the         *)
(* application that calls the three in order.  A handler reads, then       *)
(* commits; devices and tasks interleave between the two.                  *)
(***************************************************************************)
EXTENDS Naturals, FiniteSets, Sequences

CONSTANTS Events,    \* finished games with a first mistake: one task each
          Drills,    \* drill sheets open together
          PlanDays,  \* PLAN_DAY_OFFSETS, as a sequence of three
          MaxDrops   \* bound on sheets closed half way

ASSUME StudyAssumption ==
    /\ PlanDays \in Seq(Nat) /\ Len(PlanDays) = 3 /\ PlanDays[1] = 0
    /\ PlanDays[1] <= PlanDays[2] /\ PlanDays[2] <= PlanDays[3]
    /\ MaxDrops \in Nat

WeekSlots == 1..3
\* Days that happen; the last plan may be minted when the first ends.
LastDay == 2 * PlanDays[3]

VARIABLES plan,    \* the study plan of each game, or NoPlan
          minted,  \* games in the order their plans were created
          task,    \* where the background task of each game is
          today,   \* days since the first game
          drill,   \* the sheet of each device
          solved,  \* the TrainingCompletion rows, by source_ref
          xp,      \* Player.training_xp, in units of XP_PER_SOLVE
          drops

studyVars == <<plan, minted, task, today, drill, solved, xp, drops>>
weekly == <<plan, minted>>
credit == <<solved, xp>>

NoPlan == [status |-> "none"]
Closed == [at |-> "closed"]
Minted == {e \in Events : plan[e] # NoPlan}
ActivePlans == {e \in Minted : plan[e].status = "active"}

StudyInit ==
    /\ plan = [e \in Events |-> NoPlan]
    /\ minted = <<>>
    /\ task = [t \in Events |-> "queued"]
    /\ today = 0
    /\ drill = [d \in Drills |-> Closed]
    /\ solved = {} /\ xp = 0 /\ drops = 0

-----------------------------------------------------------------------------
\* The background task.
TaskAt(t, s) == task' = [task EXCEPT ![t] = s]
others == <<today, drill, solved, xp, drops>>

\* generate_plan: nothing while a plan is active.  (/game/finish starts one task
\* for a stored event, so the two checks for a second one never bite.)  The
\* clock of this model leaves room for the whole week.
Check(t) ==
    /\ task[t] = "queued"
    /\ TaskAt(t, IF ActivePlans # {} \/ today + PlanDays[3] > LastDay
                 THEN "over" ELSE "minting")
    /\ UNCHANGED <<weekly, others>>

\* The plan and its three puzzles in one commit.
NewPlan == [status |-> "active", born |-> today, done |-> {}]
Mint(t) ==
    /\ task[t] = "minting"
    /\ plan' = [plan EXCEPT ![t] = NewPlan]
    /\ minted' = Append(minted, t)
    /\ TaskAt(t, "enriching")
    /\ UNCHANGED others

\* The verdict and the practice puzzles are written by commits of their own
\* (PracticePuzzles): the plan can be served and solved meanwhile.
Enrich(t) == task[t] = "enriching" /\ TaskAt(t, "over") /\ UNCHANGED <<weekly, others>>

\* The process dies: its tasks are lost, and the requests it was serving.
Restart ==
    /\ \E t \in Events : task[t] \in {"minting", "enriching"}
    /\ task' = [t \in Events |-> IF task[t] = "queued" THEN "queued" ELSE "over"]
    /\ drill' = [d \in Drills |-> Closed]
    /\ UNCHANGED <<weekly, today, credit, drops>>

-----------------------------------------------------------------------------
\* The drill sheet.
\* _serialize_plan: the first incomplete day, once its date has come.
DueSlot(p) ==
    {s \in WeekSlots \ p.done : /\ \A r \in WeekSlots : r < s => r \in p.done
                                /\ p.born + PlanDays[s] <= today}

\* GET /coach/plan/today: the latest active plan.
Latest ==
    {minted[i] : i \in {j \in DOMAIN minted :
                           /\ minted[j] \in ActivePlans
                           /\ \A k \in DOMAIN minted : k > j => minted[k] \notin ActivePlans}}

Open(d) ==
    /\ drill[d] = Closed
    /\ \E e \in Latest : \E s \in DueSlot(plan[e]) :
          drill' = [drill EXCEPT ![d] =
                      [at |-> "drill", event |-> e, slot |-> s, xp |-> 0, done |-> {}]]
    /\ UNCHANGED <<weekly, task, today, credit, drops>>

Ref(d) == <<drill[d].event, drill[d].slot>>

\* The sheet's next call, with the counter or the days it has read, if any.
Sheet(d, s, xpRead, daysRead) ==
    drill' = [drill EXCEPT ![d] = [at |-> s, event |-> @.event, slot |-> @.slot,
                                   xp |-> xpRead, done |-> daysRead]]
served == <<weekly, task, today, drops>>

\* The engine approved the move.  solve looks the row up and has the player.
Solve(d) ==
    /\ drill[d].at = "drill"
    /\ IF Ref(d) \in solved THEN Sheet(d, "credited", 0, {})
       ELSE Sheet(d, "crediting", xp, {})
    /\ UNCHANGED <<served, credit>>

\* Its commit: the unique source_ref turns the second one into a repeat, and a
\* first one writes the counter it read, plus one.
Credit(d) ==
    /\ drill[d].at = "crediting"
    /\ IF Ref(d) \in solved THEN UNCHANGED credit
       ELSE solved' = solved \cup {Ref(d)} /\ xp' = drill[d].xp + 1
    /\ Sheet(d, "credited", 0, {})
    /\ UNCHANGED served

\* complete_puzzle reads the plan and its days.
ReadPlan(d) ==
    /\ drill[d].at = "credited"
    /\ Sheet(d, "completing", 0, plan[drill[d].event].done)
    /\ UNCHANGED <<served, credit>>

\* Mutated form: the days as they were before this one was marked.
AllDoneBefore(done, s) == done = WeekSlots
\* Its commit: this day, and the plan when all the days it read are done.
AllDone(done, s) == done \cup {s} = WeekSlots
Complete(d) ==
    LET e == drill[d].event  s == drill[d].slot
    IN /\ drill[d].at = "completing"
       /\ plan' = [plan EXCEPT
             ![e].done = @ \cup {s},
             ![e].status = IF AllDone(drill[d].done, s) THEN "completed" ELSE @]
       /\ drill' = [drill EXCEPT ![d] = Closed]
       /\ UNCHANGED <<minted, task, today, credit, drops>>

\* The sheet is closed, or a call is lost, before its answer.
Drop(d) ==
    /\ drill[d] # Closed /\ drops < MaxDrops
    /\ drill' = [drill EXCEPT ![d] = Closed]
    /\ drops' = drops + 1
    /\ UNCHANGED <<weekly, task, today, credit>>

\* A background task and a call are over long before a day is.
Midnight ==
    /\ today < LastDay
    /\ \A t \in Events : task[t] \notin {"minting", "enriching"}
    /\ today' = today + 1
    /\ UNCHANGED <<weekly, task, drill, credit, drops>>

Sheets(d) == Open(d) \/ Solve(d) \/ Credit(d) \/ ReadPlan(d) \/ Complete(d)
Background(t) == Check(t) \/ Mint(t) \/ Enrich(t)

StudyNext ==
    \/ \E t \in Events : Background(t)
    \/ \E d \in Drills : Sheets(d) \/ Drop(d)
    \/ Restart \/ Midnight

\* Time passes, the background thread runs, and a player who is shown a puzzle
\* comes back to it until it is done.
StudyFairness ==
    /\ WF_studyVars(Midnight)
    /\ \A d \in Drills : WF_studyVars(Sheets(d))
    /\ \A t \in Events : WF_studyVars(Background(t))

StudySpec == StudyInit /\ [][StudyNext]_studyVars /\ StudyFairness

-----------------------------------------------------------------------------
\* Properties.
\* The plans, sheets and counters keep their shape; plans are listed once.
StudyTypeOK ==
    /\ \A e \in Minted :
          /\ plan[e].status \in {"active", "completed"}
          /\ plan[e].done \subseteq WeekSlots /\ plan[e].born \in 0..LastDay
    /\ Len(minted) = Cardinality(Minted) /\ {minted[i] : i \in DOMAIN minted} = Minted
    /\ \A d \in Drills : drill[d] # Closed =>
          /\ drill[d].at \in {"drill", "crediting", "credited", "completing"}
          /\ drill[d].event \in Minted /\ drill[d].slot \in WeekSlots
    /\ today \in 0..LastDay /\ xp \in Nat /\ drops \in 0..MaxDrops

\* A plan is completed exactly when its three days are solved, although
\* complete_puzzle decides it from days it read before its commit and two sheets
\* may be in it at once: a solved week that stayed active would block every
\* later plan.
SolvedWeekIsCompleted ==
    \A e \in Minted : plan[e].status = "completed" <=> plan[e].done = WeekSlots

\* A day is solved only after the days before it and not before its date: the
\* completion endpoint checks neither, the days it is called for were served.
DaysInOrder ==
    \A e \in Minted : \A s \in plan[e].done :
        /\ \A r \in WeekSlots : r < s => r \in plan[e].done
        /\ today >= plan[e].born + PlanDays[s]

\* One puzzle is credited once, however many sheets and retries post it.
NoDoubleCredit == xp <= Cardinality(solved)

\* Every plan is worked off: two plans minted together do not hide each other.
EveryWeekEnds == \A e \in Events : plan[e] # NoPlan ~> plan[e].status = "completed"

\* A week is solved in order, ends when it is solved, and each day is paid for once.
WeekSafe == StudyTypeOK /\ SolvedWeekIsCompleted /\ DaysInOrder /\ NoDoubleCredit
=============================================================================
