------------------------------- MODULE Billing -------------------------------
(***************************************************************************)
(* Player.plan of one player between the store's subscription, the         *)
(* RevenueCat events about it and the older purchase verification:         *)
(* llm/seca/billing/router.py and entitlements.set_plan.  RevenueCat       *)
(* delivers an event again until it is answered 200, so an answer that is  *)
(* lost repeats it and a failure lets a later event overtake it.           *)
(***************************************************************************)
EXTENDS Naturals, Sequences

CONSTANTS MaxEvents,  \* bound on the life of the subscription
          MaxFailures \* bound on failed writes and lost answers

ASSUME BillingAssumption == MaxEvents \in Nat /\ MaxFailures \in Nat

VARIABLES subscription, \* at the store
          sent,         \* the events about it, in order
          pending,      \* those not yet answered 200, by number
          unmatched,    \* those whose app_user_id is not the player's
          free,        \* Player.plan is "free"
          verifying,    \* the verdict POST /billing/google/verify holds
          failures,
          lastApplied       \* history: number of the last event that set the plan,
                        \* or 0 after a verification did

billingVars == <<subscription, sent, pending, unmatched, free, verifying, failures, lastApplied>>

Grants == {"INITIAL_PURCHASE", "RENEWAL", "UNCANCELLATION"}
Revokes == {"EXPIRATION"}
Entitled == {"ACTIVE", "IN_GRACE_PERIOD", "CANCELED"}

BillingInit ==
    /\ subscription = "none" /\ sent = <<>> /\ pending = {} /\ unmatched = {}
    /\ free = TRUE /\ verifying = "idle" /\ failures = 0 /\ lastApplied = 0

\* The store and RevenueCat: what happens to a subscription, and its event,
\* which an SDK that does not know the player yet sends without the player's id.
Life ==
    {<<"none", "INITIAL_PURCHASE", "ACTIVE">>, <<"EXPIRED", "RENEWAL", "ACTIVE">>,
     <<"ACTIVE", "RENEWAL", "ACTIVE">>, <<"ACTIVE", "CANCELLATION", "CANCELED">>,
     <<"CANCELED", "UNCANCELLATION", "ACTIVE">>, <<"CANCELED", "EXPIRATION", "EXPIRED">>,
     <<"ACTIVE", "BILLING_ISSUE", "IN_GRACE_PERIOD">>,
     <<"IN_GRACE_PERIOD", "RENEWAL", "ACTIVE">>,
     <<"IN_GRACE_PERIOD", "EXPIRATION", "EXPIRED">>}

StoreEvent ==
    /\ Len(sent) < MaxEvents
    /\ \E l \in Life : /\ l[1] = subscription
                       /\ subscription' = l[3]
                       /\ sent' = Append(sent, l[2])
    /\ pending' = pending \cup {Len(sent) + 1}
    /\ unmatched' \in {unmatched, unmatched \cup {Len(sent) + 1}}
    /\ UNCHANGED <<free, verifying, failures, lastApplied>>

\* The other types, and events of another entitlement, are ignored.
Changes(e) == e \in Grants \cup Revokes

\* revenuecat_webhook: the plan is set and committed, whatever it was before;
\* an event of an anonymous user or of no player, a grant even, is answered 200
\* all the same.  The answer may be lost.  Nothing compares an event with a
\* later one.
Webhook(n) ==
    /\ n \in pending
    /\ IF Changes(sent[n]) /\ n \notin unmatched
       THEN free' = (sent[n] \notin Grants) /\ lastApplied' = n
       ELSE UNCHANGED <<free, lastApplied>>
    /\ \/ pending' = pending \ {n} /\ UNCHANGED failures
       \/ failures < MaxFailures /\ failures' = failures + 1 /\ UNCHANGED pending
    /\ UNCHANGED <<subscription, sent, unmatched, verifying>>

\* set_plan fails, is rolled back, and 500 asks for another delivery.
\* Mutated form: the failure is answered 200.
WriteSwallowed(n) ==
    /\ n \in pending /\ failures < MaxFailures
    /\ failures' = failures + 1
    /\ pending' = pending \ {n}
    /\ UNCHANGED <<subscription, sent, unmatched, free, verifying, lastApplied>>
WriteFails(n) ==
    /\ n \in pending /\ failures < MaxFailures /\ Changes(sent[n])
    /\ failures' = failures + 1
    /\ UNCHANGED <<subscription, sent, pending, unmatched, free, verifying, lastApplied>>

\* POST /billing/google/verify: Google's verdict, then the flip; without a
\* verdict (502, 503) and with a refusal (402) the plan is left alone.
AskGoogle ==
    /\ verifying = "idle" /\ subscription # "none"
    /\ verifying' = IF subscription \in Entitled THEN "entitled" ELSE "idle"
    /\ UNCHANGED <<subscription, sent, pending, unmatched, free, failures, lastApplied>>
ActivatePlan ==
    /\ verifying = "entitled"
    /\ free' = FALSE /\ lastApplied' = 0 /\ verifying' = "idle"
    /\ UNCHANGED <<subscription, sent, pending, unmatched, failures>>

BillingNext ==
    \/ StoreEvent \/ AskGoogle \/ ActivatePlan
    \/ \E n \in 1..MaxEvents : Webhook(n) \/ WriteFails(n)
BillingSpec == BillingInit /\ [][BillingNext]_billingVars

\* A plan is set only by something that was bought: a player without a
\* subscription stays free, and no more events are waiting than were sent.
BillingTypeOK ==
    /\ pending \subseteq DOMAIN sent /\ unmatched \subseteq DOMAIN sent
    /\ subscription = "none" => free /\ sent = <<>> /\ verifying = "idle"
    /\ subscription \in {"none", "EXPIRED"} \cup Entitled
    /\ lastApplied \in 0..Len(sent) /\ failures \in 0..MaxFailures

LastChange == {n \in DOMAIN sent : /\ Changes(sent[n])
                  /\ \A m \in DOMAIN sent : m > n => ~Changes(sent[m])}

\* Once every event is answered, and the last that changes the plan was also
\* applied last, the player has the plan exactly while the store says so, a
\* cancelled subscription and one in grace included.
PlanTracksStore ==
    pending = {} /\ lastApplied \in LastChange => (free <=> subscription \notin Entitled)

\* Once every event is answered and none was an expiration, a player is free
\* only if no grant named the player: no failure and no order of deliveries loses
\* a grant that does.  A grant the handler cannot match is lost unless a later
\* event names the player.
NoGrantLost ==
    pending = {} /\ ~(\E n \in DOMAIN sent : sent[n] = "EXPIRATION") =>
        (free => \A n \in DOMAIN sent : sent[n] \in Grants => n \in unmatched)

\* The plan is what the store last said of it in an event that names the player.
BillingSafe == BillingTypeOK /\ PlanTracksStore /\ NoGrantLost
=============================================================================
