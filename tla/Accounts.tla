------------------------------ MODULE Accounts ------------------------------
(***************************************************************************)
(* Accounts and their sessions (llm/seca/auth): registration, password and *)
(* Lichess sign-in, the session cap, expiry and sliding, password change,  *)
(* logout and erasure.  A request reads and verifies in one step and       *)
(* commits in a later one, which is where a password hash of a quarter of  *)
(* a second lies; requests interleave between steps.  Which of a session's *)
(* tokens is accepted is SessionRotation's subject.                        *)
(*                                                                         *)
(* The database enforces its unique and foreign keys, as Postgres does.    *)
(* Time passes in half days.                                               *)
(***************************************************************************)
EXTENDS Integers, FiniteSets

CONSTANTS Emails, LichessIds,   \* identities an account is found by
          Passwords,            \* usable passwords
          AuthRequests,         \* requests in flight
          MAX_SESSIONS,         \* _MAX_SESSIONS
          SESSION_EXTEND,       \* half days a session lasts, from login or from a slide
          SLIDE_THRESHOLD,      \* a session with less left than this slides
          ACCESS_EXPIRE,        \* half days a token lasts
          MaxAccounts, MaxLogins \* bounds on rows ever inserted

ASSUME AccountsAssumption ==
    /\ Emails \intersect LichessIds = {} /\ "unusable" \notin Passwords
    /\ {MAX_SESSIONS, SESSION_EXTEND, SLIDE_THRESHOLD, ACCESS_EXPIRE} \subseteq Nat \ {0}
    /\ ACCESS_EXPIRE <= SLIDE_THRESHOLD /\ SLIDE_THRESHOLD <= SESSION_EXTEND
    /\ {MaxAccounts, MaxLogins} \subseteq Nat

VARIABLES
    account,  \* account[i]: the players row of an identity
    born,     \* players rows ever inserted
    sessions, \* sessions[k]: the k-th sessions row, in the order they were inserted
    logins,   \* sessions rows ever inserted
    auth,     \* auth[q]: what request q is about to do and what it has read
    crossed   \* history: a commit fell between another request's read and its commit

accountVars == <<account, born, sessions, logins, auth, crossed>>

Idents == Emails \union LichessIds
Logins == 1..MaxLogins
NoAccount == [id |-> 0, password |-> "unusable"]
NoSession == [player |-> 0, password |-> "unusable", left |-> -1, token |-> 0]
AtRest == [pc |-> "idle", ident |-> "nobody", id |-> 0, password |-> "unusable", evict |-> {}]

AccountsTypeOK ==
    /\ \A i \in Idents : account[i].id \in 0..born
    /\ \A i \in Idents : account[i].id = 0 => account[i] = NoAccount
    /\ \A i \in Emails : account[i].id # 0 => account[i].password \in Passwords
    /\ \A i \in LichessIds : account[i].password = "unusable"
    /\ born \in 0..MaxAccounts /\ logins \in 0..MaxLogins
    /\ \A k \in Logins : sessions[k] # NoSession =>
         k <= logins /\ sessions[k].player \in 1..born /\ sessions[k].left \in -1..SESSION_EXTEND
    /\ \A q \in AuthRequests : auth[q].pc \in {"idle", "insert", "login", "create", "again",
                                                "issue", "commit", "change", "erase"}
    /\ crossed \in BOOLEAN

AccountsInit ==
    /\ account = [i \in Idents |-> NoAccount] /\ born = 0
    /\ sessions = [k \in Logins |-> NoSession] /\ logins = 0
    /\ auth = [q \in AuthRequests |-> AtRest]
    /\ crossed = FALSE

Idle(q) == auth[q].pc = "idle"
AuthAt(q, pc) == auth[q].pc = pc
Goes(q, pc) == auth' = [auth EXCEPT ![q].pc = pc]
Ends(q) == auth' = [auth EXCEPT ![q] = AtRest]

\* A commit, seen by whoever has read and not committed.
Commits(q) ==
    crossed' = (crossed \/ \E r \in AuthRequests \ {q} : ~Idle(r))

NewAccount(i, password) ==
    /\ born' = born + 1
    /\ account' = [account EXCEPT ![i] = [id |-> born + 1, password |-> password]]

\* The row a request has read is still there: the foreign key of an insert, the
\* row count of an update.
RowExists(id) == \E i \in Idents : account[i].id = id

StillThere(id) == RowExists(id)

-----------------------------------------------------------------------------
(* Registration and sign-in *)

Asks(q, pc, i, id, password) ==
    auth' = [auth EXCEPT ![q] = [pc |-> pc, ident |-> i, id |-> id, password |-> password, evict |-> {}]]

\* POST /auth/register for an address nobody has; the same request logs in.
Register(q, i, password) ==
    /\ Idle(q) /\ i \in Emails /\ account[i] = NoAccount
    /\ Asks(q, "insert", i, 0, password)
    /\ UNCHANGED <<account, born, sessions, logins, crossed>>

InsertPlayer(q) ==
    /\ AuthAt(q, "insert") /\ born < MaxAccounts
    /\ IF account[auth[q].ident] = NoAccount
       THEN NewAccount(auth[q].ident, auth[q].password) /\ Goes(q, "login")
       ELSE Ends(q) /\ UNCHANGED <<account, born>>  \* IntegrityError
    /\ Commits(q)
    /\ UNCHANGED <<sessions, logins>>

\* POST /auth/login with the right password.
Login(q, i, password) ==
    /\ Idle(q) /\ i \in Emails
    /\ account[i] # NoAccount /\ account[i].password = password
    /\ Asks(q, "issue", i, account[i].id, password)
    /\ UNCHANGED <<account, born, sessions, logins, crossed>>

\* The login of a registration, which may find that the row is gone or has
\* another password.
LogNewPlayerIn(q) ==
    /\ AuthAt(q, "login")
    /\ LET row == account[auth[q].ident]
       IN  IF row.password = auth[q].password
           THEN auth' = [auth EXCEPT ![q].pc = "issue", ![q].id = row.id]
           ELSE Ends(q)
    /\ UNCHANGED <<account, born, sessions, logins, crossed>>

\* POST /auth/lichess after the OAuth exchange has proved the identity.
LoginWithLichess(q, i) ==
    /\ Idle(q) /\ i \in LichessIds
    /\ Asks(q, IF account[i] = NoAccount THEN "create" ELSE "issue", i, account[i].id, "unusable")
    /\ UNCHANGED <<account, born, sessions, logins, crossed>>

\* The first sign-in creates the row; when the unique index refuses it another
\* request has, and its row is used.
CreatePlayer(q) ==
    /\ AuthAt(q, "create") /\ born < MaxAccounts
    /\ IF account[auth[q].ident] = NoAccount
       THEN /\ NewAccount(auth[q].ident, "unusable")
            /\ auth' = [auth EXCEPT ![q].pc = "issue", ![q].id = born + 1]
       ELSE Goes(q, "again") /\ UNCHANGED <<account, born>>
    /\ Commits(q)
    /\ UNCHANGED <<sessions, logins>>

UseOtherRow(q) ==
    /\ AuthAt(q, "again")
    /\ LET id == account[auth[q].ident].id
       IN  IF id = 0 THEN Ends(q) ELSE auth' = [auth EXCEPT ![q].pc = "issue", ![q].id = id]
    /\ UNCHANGED <<account, born, sessions, logins, crossed>>

-----------------------------------------------------------------------------
(* _issue_session *)

Rows == {k \in Logins : sessions[k] # NoSession}
Of(id) == {k \in Rows : sessions[k].player = id}
Expired(k) == sessions[k].left < 0

\* The sessions rows without those of a set.
Without(gone) == [k \in Logins |-> IF k \in gone THEN NoSession ELSE sessions[k]]

\* How many of n sessions go to make room for a new one.
Surplus(n) == n - MAX_SESSIONS + 1

\* active[: len(active) - _MAX_SESSIONS + 1]: those with fewer rows before them.
Oldest(active) ==
    {k \in active : Cardinality({j \in active : j < k}) < Surplus(Cardinality(active))}

\* The expired sessions are pruned and the oldest of the others are marked.
ReadSessions(q) ==
    /\ AuthAt(q, "issue")
    /\ LET expired == {k \in Of(auth[q].id) : Expired(k)}
       IN  auth' = [auth EXCEPT ![q].pc = "commit",
                                ![q].evict = expired \union Oldest(Of(auth[q].id) \ expired)]
    /\ UNCHANGED <<account, born, sessions, logins, crossed>>

IssueSession(q) ==
    /\ AuthAt(q, "commit") /\ logins < MaxLogins
    /\ IF StillThere(auth[q].id)
       THEN /\ logins' = logins + 1
            /\ sessions' = [Without(auth[q].evict) EXCEPT ![logins + 1] =
                  [player |-> auth[q].id, password |-> auth[q].password,
                   left |-> SESSION_EXTEND, token |-> ACCESS_EXPIRE]]
       ELSE UNCHANGED <<sessions, logins>>
    /\ Commits(q) /\ Ends(q)
    /\ UNCHANGED <<account, born>>

-----------------------------------------------------------------------------
(* Authenticated requests *)

\* A session whose client holds an unexpired token of it.
Admitted(k) == sessions[k].left >= 0 /\ sessions[k].token > 0
IdentOf(id) == CHOOSE i \in Idents : account[i].id = id

Slid(s) == IF s.left < SLIDE_THRESHOLD THEN [s EXCEPT !.left = SESSION_EXTEND] ELSE s

\* get_current_player: the session slides and a new token is handed out.
Call(k) ==
    /\ k \in Rows /\ Admitted(k)
    /\ sessions' = [sessions EXCEPT ![k] = [Slid(sessions[k]) EXCEPT !.token = ACCESS_EXPIRE]]
    /\ UNCHANGED <<account, born, logins, auth, crossed>>

Logout(k) ==
    /\ k \in Rows /\ sessions[k].token > 0
    /\ sessions' = Without({k})
    /\ crossed' = (crossed \/ \E r \in AuthRequests : ~Idle(r))
    /\ UNCHANGED <<account, born, logins, auth>>

\* POST /auth/change-password with the right current password.
ChangePassword(q, k, password) ==
    /\ Idle(q) /\ k \in Rows /\ Admitted(k)
    /\ LET id == sessions[k].player
       IN  /\ account[IdentOf(id)].password \in Passwords
           /\ Asks(q, "change", IdentOf(id), id, password)
    /\ UNCHANGED <<account, born, sessions, logins, crossed>>

\* Mutated form of Revoked: the sessions stay.
KeptAll(id) == sessions

Revoked(id) == Without(Of(id))

\* The new hash and the deletion of every session are one commit.
CommitPassword(q) ==
    /\ AuthAt(q, "change")
    /\ IF RowExists(auth[q].id)
       THEN /\ account' = [account EXCEPT ![auth[q].ident].password = auth[q].password]
            /\ sessions' = Revoked(auth[q].id)
       ELSE UNCHANGED <<account, sessions>>
    /\ Commits(q) /\ Ends(q)
    /\ UNCHANGED <<born, logins>>

\* DELETE /auth/me, or the web page's password or Lichess form, which prove the
\* identity without a session.
AskErasure(q, i) ==
    /\ Idle(q) /\ account[i] # NoAccount
    /\ Asks(q, "erase", i, account[i].id, "unusable")
    /\ UNCHANGED <<account, born, sessions, logins, crossed>>

\* purge_player_data: the children, the sessions and the player in one commit.
Purge(q) ==
    /\ AuthAt(q, "erase")
    /\ account' = [i \in Idents |-> IF account[i].id = auth[q].id THEN NoAccount ELSE account[i]]
    /\ sessions' = Without(Of(auth[q].id))
    /\ Commits(q) /\ Ends(q)
    /\ UNCHANGED <<born, logins>>

Older(s) == [s EXCEPT !.left = IF s.left < 0 THEN s.left ELSE s.left - 1,
                      !.token = IF s.token = 0 THEN s.token ELSE s.token - 1]

TimePasses ==
    /\ Rows # {}
    /\ sessions' = [k \in Logins |-> IF k \in Rows THEN Older(sessions[k]) ELSE NoSession]
    /\ UNCHANGED <<account, born, logins, auth, crossed>>

AccountsNext ==
    \/ TimePasses
    \/ \E k \in Logins : Call(k) \/ Logout(k)
    \/ \E q \in AuthRequests :
         \/ InsertPlayer(q) \/ LogNewPlayerIn(q) \/ CreatePlayer(q) \/ UseOtherRow(q)
         \/ ReadSessions(q) \/ IssueSession(q) \/ CommitPassword(q) \/ Purge(q)
         \/ \E i \in Idents : LoginWithLichess(q, i) \/ AskErasure(q, i)
         \/ \E i \in Idents, password \in Passwords : Register(q, i, password) \/ Login(q, i, password)
         \/ \E k \in Logins, password \in Passwords : ChangePassword(q, k, password)

AccountsSpec == AccountsInit /\ [][AccountsNext]_accountVars

-----------------------------------------------------------------------------
(* Properties *)

\* service.py 384: "Revoke all sessions so stolen tokens can't be reused after
\* a password change".  As long as no commit falls between another request's
\* read and its own, every session of a password account was opened with the
\* password the account has.  A login verified before a change and committed
\* after it does get a session with the old password.
PasswordChangeLogsOut ==
    ~crossed => \A k \in Rows, i \in Idents :
        account[i].id = sessions[k].player => account[i].password = sessions[k].password

\* service.py 145: no player has more sessions than the cap, again as long as
\* requests do not cross; two crossing logins can exceed it.
SessionsCapped ==
    ~crossed => \A id \in 1..born : Cardinality(Of(id)) <= MAX_SESSIONS

\* Whatever interleaves, no session is left of an account that was erased.
NoSessionOfErasedPlayer == \A k \in Rows : RowExists(sessions[k].player)

\* auth/tokens.py 19-33: an active client "never sees an expiry-driven bounce":
\* a session does not expire under a token that has not.
SessionOutlivesToken ==
    \A k \in Rows : sessions[k].token > 0 => ~Expired(k)

\* Sessions belong to accounts that exist, under their present passwords, within the
\* cap, and as long as their tokens.
AccountsSafe ==
    AccountsTypeOK /\ PasswordChangeLogsOut /\ SessionsCapped /\ NoSessionOfErasedPlayer
    /\ SessionOutlivesToken
=============================================================================
