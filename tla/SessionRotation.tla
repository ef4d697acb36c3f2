-------------------------- MODULE SessionRotation ---------------------------
(***************************************************************************)
(* Token rotation of one session: get_current_player validates the bearer  *)
(* token and mints a fresh one, the commit_pending_auth_rotation           *)
(* middleware makes it the session's token once the response is a 2xx, and *)
(* the client stores the X-Auth-Token of the replies it takes for          *)
(* successes.  Requests overlap and take any time between the two points;  *)
(* logout and a password change delete the session row.                    *)
(*                                                                         *)
(* A JWT of the session carries nothing but its expiry in whole seconds,   *)
(* so a token is the second it was minted in.  The 24 h expiry of a token  *)
(* and the 7 day expiry of the session lie beyond the modelled time.       *)
(***************************************************************************)
EXTENDS Naturals, FiniteSets

CONSTANTS MaxCalls,     \* bound on authenticated requests, numbered as they are sent
          Habits,       \* ways the client and its network may behave
          Grace,        \* PREVIOUS_TOKEN_GRACE_SECONDS
          MaxSeconds,   \* bound on the clock
          NoToken       \* no token

AllStatuses == {"ok", "accepted", "error"}  \* 200, another 2xx, 4xx or 5xx

\* A habit bounds the requests in flight at a time and says which response
\* classes the routes in use have and whether replies may be lost.
ASSUME SessionRotationAssumption ==
    /\ Grace \in Nat /\ MaxSeconds \in Nat /\ MaxCalls \in Nat
    /\ \A h \in Habits : /\ h.inFlight \in Nat \ {0}
                        /\ h.statuses \subseteq AllStatuses
                        /\ h.lossy \in BOOLEAN
    /\ NoToken \notin 0..MaxSeconds

Tokens == 0..MaxSeconds
Calls == 1..MaxCalls

VARIABLES
    habit,    \* the habit of this session's client
    second,      \* seconds since login
    open,     \* the sessions row exists
    current,  \* token_hash
    previous, \* previous_token_hash
    until,    \* previous_token_expires_at
    client,   \* the token the client has stored
    step,     \* where each request is
    token,    \* the token each request presents
    fresh,   \* pending_auth_rotation.new_token
    status,   \* the response class of each answered request
    demoted   \* history: when each token last stopped being the current one

sessionVars == <<habit, second, open, current, previous, until, client, step, token, fresh, status,
                 demoted>>
session == <<open, current, previous, until, demoted>>

SessionTypeOK ==
    /\ habit \in Habits
    /\ second \in Tokens
    /\ open \in BOOLEAN
    /\ current \in Tokens
    /\ previous \in Tokens \union {NoToken}
    /\ until \in 0..MaxSeconds + Grace
    /\ client \in Tokens \union {NoToken}
    /\ step \in [Calls -> {"unsent", "sent", "admitted", "answered", "closed", "refused"}]
    /\ token \in [Calls -> Tokens]
    /\ fresh \in [Calls -> Tokens]
    /\ status \in [Calls -> habit.statuses \union {NoToken}]
    /\ demoted \in [Tokens -> Tokens \union {NoToken}]

\* Login stored the first token.
SessionInit ==
    /\ habit \in Habits
    /\ second = 0
    /\ open = TRUE
    /\ current = 0 /\ previous = NoToken /\ until = 0
    /\ client = 0
    /\ step = [r \in Calls |-> "unsent"]
    /\ token = [r \in Calls |-> 0]
    /\ fresh = [r \in Calls |-> 0]
    /\ status = [r \in Calls |-> NoToken]
    /\ demoted = [t \in Tokens |-> NoToken]

-----------------------------------------------------------------------------
InFlight == {r \in Calls : step[r] \in {"sent", "admitted", "answered"}}

SecondPasses ==
    /\ second < MaxSeconds
    /\ second' = second + 1
    /\ UNCHANGED <<habit, session, client, step, token, fresh, status>>

\* authHeaders() reads the stored token.
Send(r) ==
    /\ step[r] = "unsent" /\ \A q \in 1..r - 1 : step[q] # "unsent"
    /\ client # NoToken
    /\ Cardinality(InFlight) < habit.inFlight
    /\ step' = [step EXCEPT ![r] = "sent"]
    /\ token' = [token EXCEPT ![r] = client]
    /\ UNCHANGED <<habit, second, session, client, fresh, status>>

\* get_player_by_session.
Accepts(t) == t = current \/ (t = previous /\ second < until)

\* get_current_player.
AdmitCall(r) ==
    /\ step[r] = "sent"
    /\ IF open /\ Accepts(token[r])
       THEN /\ step' = [step EXCEPT ![r] = "admitted"]
            /\ fresh' = [fresh EXCEPT ![r] = second]
       ELSE /\ step' = [step EXCEPT ![r] = "refused"]
            /\ UNCHANGED fresh
    /\ UNCHANGED <<habit, second, session, client, token, status>>

\* Mutated form of Rotates: the rotation is committed whatever the response.
RotatesAlways(s) == TRUE

\* The middleware commits the rotation on a 2xx only.
Rotates(s) == s \in {"ok", "accepted"}

\* rotate_session_token; a deleted row makes it a no-op.  If its write fails
\* the reply carries no token: for the session and the client, an "error".
Rotate(new) ==
    IF open /\ current # new
    THEN /\ previous' = current
         /\ until' = second + Grace
         /\ current' = new
         /\ demoted' = [demoted EXCEPT ![current] = second]
         /\ UNCHANGED open
    ELSE UNCHANGED session

Respond(r, s) ==
    /\ step[r] = "admitted"
    /\ s \in habit.statuses
    /\ status' = [status EXCEPT ![r] = s]
    /\ step' = [step EXCEPT ![r] = "answered"]
    /\ IF Rotates(s) THEN Rotate(fresh[r]) ELSE UNCHANGED session
    /\ UNCHANGED <<habit, second, client, token, fresh>>

\* consumeRefreshedToken runs for the success codes of the call: a 200 always,
\* another 2xx only where the caller listed it.
Receive(r) ==
    /\ step[r] = "answered"
    /\ step' = [step EXCEPT ![r] = "closed"]
    /\ client' = IF status[r] = "ok" THEN fresh[r] ELSE client
    /\ UNCHANGED <<habit, second, session, token, fresh, status>>

LoseReply(r) ==
    /\ habit.lossy
    /\ step[r] = "answered"
    /\ step' = [step EXCEPT ![r] = "closed"]
    /\ UNCHANGED <<habit, second, session, client, token, fresh, status>>

\* logout and change_password delete the row; the client forgets its token.
Revoke ==
    /\ open
    /\ open' = FALSE
    /\ client' = NoToken
    /\ UNCHANGED <<habit, second, current, previous, until, demoted, step, token, fresh, status>>

SessionNext ==
    \/ SecondPasses \/ Revoke
    \/ \E r \in Calls : \/ Send(r) \/ AdmitCall(r) \/ Receive(r) \/ LoseReply(r)
                        \/ \E s \in AllStatuses : Respond(r, s)

SessionSpec == SessionInit /\ [][SessionNext]_sessionVars
-----------------------------------------------------------------------------
(* Properties *)

\* One request at a time and no reply lost: what is said of the client's own
\* token holds for such a client only.
Careful == habit.inFlight = 1 /\ ~habit.lossy

\* auth/router.py 549-550: "Active user: every authenticated call hands back a
\* fresh 24h JWT, the client saves it" - no request of a client that uses the
\* token it was last given is refused while the session exists.
ActiveClientStaysIn == Careful /\ open => \A r \in Calls : step[r] # "refused"

\* auth/service.py 330-332: "The next call carrying the freshly-rotated token
\* validates against the current hash as normal" - whenever the client has
\* nothing in flight, the token it has stored is the session's current one.
ClientInStep == Careful /\ open /\ client # NoToken /\ InFlight = {} => client = current

\* A token that was rotated out stops working once its grace is over, and for
\* good (auth/service.py 336-338: it "becomes useless within
\* PREVIOUS_TOKEN_GRACE_SECONDS of the legitimate owner's next call"), for a
\* client that sends one request at a time: a late commit of an overlapping
\* request can make an older token current again.
RotatedOutStaysOut == habit.inFlight = 1 =>
    \A t \in Tokens :
        open /\ demoted[t] # NoToken /\ second >= demoted[t] + Grace => ~Accepts(t)

\* The token of an active client works, and one it has replaced does not.
RotationSafe == SessionTypeOK /\ ActiveClientStaysIn /\ ClientInStep /\ RotatedOutStaysOut
=============================================================================
