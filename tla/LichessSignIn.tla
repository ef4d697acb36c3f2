---------------------------- MODULE LichessSignIn ----------------------------
(***************************************************************************)
(* What the server does with a Lichess authorization code: sign-in         *)
(* (login_lichess in auth/router.py), the account link (link in            *)
(* lichess/router.py) and the web page's erasure                           *)
(* (delete_account_lichess_callback in auth/web_deletion.py), over the     *)
(* token client (lichess/client.py); and the import that sign-in and the   *)
(* cold-start /auth/me start.  Requests overlap; Lichess, the database and *)
(* the process fail anywhere; a client sends the same code again.          *)
(***************************************************************************)
EXTENDS Naturals, FiniteSets

CONSTANTS Codes,       \* authorization codes, each given to one route
          RouteOf,     \* the route a code is for: "signin", "link", "erase"
          MaxSends,    \* bound: requests, a client's retries with a used code included
          MaxOutages   \* bound: times the database goes away

ASSUME LichessSignInAssumption ==
    /\ RouteOf \in [Codes -> {"signin", "link", "erase"}]
    /\ MaxSends \in Nat /\ MaxOutages \in Nat

VARIABLES grant,   \* at Lichess: each code's token
          account, \* the player of this Lichess identity, its link and its imports
          visit,   \* the request that carries a code now
          sends,   \* requests so far
          dbUp, outages

signInVars == <<grant, account, visit, sends, dbUp, outages>>

\* known: the server has the token; it has not when the answer of the exchange was
\* lost, or the process ended.  tried: a revocation failed.
Grant == [code |-> "fresh", token |-> "none", known |-> FALSE, tried |-> FALSE]
Nobody == [exists |-> FALSE, linked |-> FALSE, imported |-> FALSE, importing |-> FALSE]

\* signed: its session is committed; gone: and then its player was erased.
NoVisit == [at |-> "rest", status |-> 0, signed |-> FALSE, gone |-> FALSE]

HttpStatuses == {0, 200, 401, 404, 409, 500, 502, 503}

\* The variables' types; a token needs a redeemed code, a link a player.
SignInTypeOK ==
    /\ grant \in [Codes -> [code : {"fresh", "used"}, token : {"none", "live", "revoked"},
                            known : BOOLEAN, tried : BOOLEAN]]
    /\ account \in [exists : BOOLEAN, linked : BOOLEAN, imported : BOOLEAN, importing : BOOLEAN]
    /\ visit \in [Codes -> [at : {"rest", "exchange", "account", "revoke", "identity", "erased",
                                  "link", "kick", "reply", "answered"},
                            status : HttpStatuses, signed : BOOLEAN, gone : BOOLEAN]]
    /\ sends \in 0..MaxSends /\ dbUp \in BOOLEAN /\ outages \in 0..MaxOutages
    /\ \A c \in Codes : grant[c].token # "none" => grant[c].code = "used"
    /\ account.linked \/ account.importing => account.exists

SignInInit ==
    /\ grant = [c \in Codes |-> Grant]
    /\ account \in {Nobody, [Nobody EXCEPT !.exists = TRUE, !.linked = TRUE]}
    /\ visit = [c \in Codes |-> NoVisit]
    /\ sends = 0
    /\ dbUp = TRUE /\ outages = 0

Stage(c, p) == visit[c].at = p
Moves(c, p) == visit' = [visit EXCEPT ![c].at = p]
Answers(c, s) == visit' = [visit EXCEPT ![c].at = "answered", ![c].status = s]

\* The error the routes answer: sign-in and link tell a rejected grant and a busy
\* Lichess apart, the erasure page does not.
StatusOf(c, trouble) ==
    CASE RouteOf[c] = "erase" -> 502
      [] trouble = "rejected" -> 401
      [] trouble = "busy" -> 503
      [] OTHER -> 502

Send(c) ==
    /\ visit[c].at \in {"rest", "answered"} /\ sends < MaxSends
    /\ sends' = sends + 1
    /\ visit' = [visit EXCEPT ![c] = [NoVisit EXCEPT !.at = "exchange"]]
    /\ UNCHANGED <<grant, account, dbUp, outages>>

-----------------------------------------------------------------------------
(* The token client *)

ofVisit == <<account, sends, dbUp, outages>>

Redeemed(code) == [Grant EXCEPT !.code = "used", !.token = "live", !.known = TRUE]

\* exchange_authorization_code: a fresh code gives a token, a used one nothing.
Exchange(c) ==
    /\ Stage(c, "exchange") /\ grant[c].code = "fresh"
    /\ grant' = [grant EXCEPT ![c] = Redeemed(c)]
    /\ Moves(c, "account")
    /\ UNCHANGED ofVisit

\* The token is minted, but the answer is lost, cut off at the byte cap or malformed.
ExchangeLost(c) ==
    /\ Stage(c, "exchange") /\ grant[c].code = "fresh"
    /\ grant' = [grant EXCEPT ![c] = [Redeemed(c) EXCEPT !.known = FALSE]]
    /\ Answers(c, StatusOf(c, "upstream"))
    /\ UNCHANGED ofVisit

ExchangeFails(c) ==
    /\ Stage(c, "exchange")
    /\ \E trouble \in {"rejected", "busy", "upstream"} :
          /\ grant[c].code = "used" => trouble # "upstream"
          /\ Answers(c, StatusOf(c, trouble))
    /\ UNCHANGED <<ofVisit, grant>>

\* fetch_account, the identity it returns validated.
FetchAccount(c) ==
    /\ Stage(c, "account")
    /\ visit' = [visit EXCEPT ![c].at = IF RouteOf[c] = "erase" THEN "identity" ELSE "revoke"]
    /\ UNCHANGED <<ofVisit, grant>>

\* Mutated form of AfterTrouble: the failed request is answered at once.
AnswersAtOnce(c, status) == Answers(c, status)

\* When it fails, sign-in and link revoke the token first; the page does not.
AfterTrouble(c, status) ==
    IF RouteOf[c] = "erase" THEN Answers(c, status)
    ELSE visit' = [visit EXCEPT ![c].at = "revoke", ![c].status = status]

FetchAccountFails(c) ==
    /\ Stage(c, "account")
    /\ \E trouble \in {"rejected", "busy", "upstream"} : AfterTrouble(c, StatusOf(c, trouble))
    /\ UNCHANGED <<ofVisit, grant>>

\* revoke_token, which never raises, and how the route goes on.
RevokeToken(c) ==
    /\ visit[c].at \in {"revoke", "erased"}
    /\ \E done \in BOOLEAN :
          grant' = [grant EXCEPT ![c].token = IF done THEN "revoked" ELSE @, ![c].tried = ~done]
    /\ IF visit[c].status # 0 THEN Answers(c, visit[c].status) ELSE Moves(c, "identity")
    /\ UNCHANGED ofVisit

-----------------------------------------------------------------------------
(* The routes *)

others == <<grant, sends, dbUp, outages>>

\* A database error that the route does not catch.
Breaks(c) ==
    /\ ~dbUp /\ Stage(c, "identity")
    /\ Answers(c, 500)
    /\ UNCHANGED <<others, account>>

\* login_with_lichess: the player is found or created, and the session is committed.
LogIn(c) ==
    /\ Stage(c, "identity") /\ RouteOf[c] = "signin" /\ dbUp
    /\ account' = [account EXCEPT !.exists = TRUE]
    /\ visit' = [visit EXCEPT ![c].at = "link", ![c].signed = TRUE]
    /\ UNCHANGED others

\* player.id is read outside the try of _ensure_lichess_link and of
\* _kick_lichess_import, and is loaded again after a commit or a rollback.
IdReadFails(c) ==
    /\ visit[c].at \in {"link", "kick", "reply"} /\ (~dbUp \/ visit[c].gone)
    /\ Answers(c, 500)
    /\ UNCHANGED <<others, account>>

\* _ensure_lichess_link swallows what goes wrong.
LinkFailed(c) == Moves(c, "kick")

\* _ensure_lichess_link: a player that has a link keeps it.
EnsureLink(c) ==
    /\ Stage(c, "link") /\ dbUp
    /\ \/ account' = [account EXCEPT !.linked = @ \/ (account.exists /\ ~visit[c].gone)] /\ Moves(c, "kick")
       \/ UNCHANGED account /\ LinkFailed(c)
    /\ UNCHANGED others

\* start_import_job needs a link and coalesces with a running job.
Kicked == account.linked /\ ~account.importing

\* _kick_lichess_import: what goes wrong is swallowed.
KickImport(c) ==
    /\ Stage(c, "kick") /\ dbUp
    /\ account' \in {account, [account EXCEPT !.importing = @ \/ Kicked]}
    /\ Moves(c, "reply")
    /\ UNCHANGED others

Reply(c) ==
    /\ Stage(c, "reply") /\ dbUp
    /\ Answers(c, 200)
    /\ UNCHANGED <<others, account>>

\* link_account for the player that is signed in, with the handle claimed.
Link(c) ==
    /\ Stage(c, "identity") /\ RouteOf[c] = "link" /\ dbUp
    /\ account' = [account EXCEPT !.linked = account.exists]
    /\ Answers(c, IF account.exists THEN 200 ELSE 500)
    /\ UNCHANGED others

\* The page finds no player of this identity, or purges it; both end in a revocation.
NoOneToErase(c) ==
    /\ Stage(c, "identity") /\ RouteOf[c] = "erase" /\ dbUp /\ ~account.exists
    /\ visit' = [visit EXCEPT ![c].at = "erased", ![c].status = 404]
    /\ UNCHANGED <<others, account>>

Erase(c) ==
    /\ Stage(c, "identity") /\ RouteOf[c] = "erase" /\ dbUp /\ account.exists
    /\ account' = Nobody
    /\ visit' = [d \in Codes |->
                    IF d = c THEN [visit[c] EXCEPT !.at = "erased", !.status = 200]
                    ELSE [visit[d] EXCEPT !.gone = visit[d].signed]]
    /\ UNCHANGED others

-----------------------------------------------------------------------------
(* Imports, /auth/me, and what fails *)

\* _maybe_backfill_lichess_import: a link, and no imported game.
NeedsBackfill == account.linked /\ ~account.imported

\* The cold-start /auth/me.
Me ==
    /\ account.exists /\ dbUp /\ NeedsBackfill /\ Kicked
    /\ account' = [account EXCEPT !.importing = TRUE]
    /\ UNCHANGED <<visit, others>>

\* A job ends, with games or without.
ImportEnds ==
    /\ account.importing
    /\ \E some \in BOOLEAN :
          account' = [account EXCEPT !.importing = FALSE, !.imported = @ \/ some]
    /\ UNCHANGED <<visit, others>>

DatabaseGoes ==
    /\ dbUp /\ outages < MaxOutages
    /\ dbUp' = FALSE /\ outages' = outages + 1
    /\ UNCHANGED <<grant, account, visit, sends>>

DatabaseReturns ==
    /\ ~dbUp
    /\ dbUp' = TRUE
    /\ UNCHANGED <<grant, account, visit, sends, outages>>

\* The process ends: its requests are not answered.
ProcessEnds ==
    /\ \E c \in Codes : visit[c].at \notin {"rest", "answered"}
    /\ visit' = [c \in Codes |-> IF visit[c].at = "answered" THEN visit[c] ELSE NoVisit]
    /\ grant' = [c \in Codes |-> IF visit[c].at = "answered" THEN grant[c]
                                 ELSE [grant[c] EXCEPT !.known = FALSE]]
    /\ account' = [account EXCEPT !.importing = FALSE]
    /\ UNCHANGED <<sends, dbUp, outages>>

SignInNext ==
    \/ \E c \in Codes :
          \/ Send(c) \/ Exchange(c) \/ ExchangeLost(c) \/ ExchangeFails(c)
          \/ FetchAccount(c) \/ FetchAccountFails(c) \/ RevokeToken(c)
          \/ Breaks(c) \/ LogIn(c) \/ IdReadFails(c) \/ EnsureLink(c) \/ KickImport(c) \/ Reply(c)
          \/ Link(c) \/ NoOneToErase(c) \/ Erase(c)
    \/ Me \/ ImportEnds \/ DatabaseGoes \/ DatabaseReturns \/ ProcessEnds

SignInSpec == SignInInit /\ [][SignInNext]_signInVars

-----------------------------------------------------------------------------
(* Properties *)

\* auth/router.py 1036-1043: a sign-in or link that was answered leaves no token
\* alive that the server could have revoked, however it ended.  (The erasure page
\* promises none of it: it leaves the token alive when the account cannot be
\* fetched, or when the purge fails.)
NoTokenLeft ==
    \A c \in Codes :
        visit[c].at = "answered" /\ visit[c].status # 0 /\ RouteOf[c] # "erase" =>
            grant[c].token # "live" \/ grant[c].tried \/ ~grant[c].known

\* auth/router.py 845-846, 913-915: once the session is committed, neither the link
\* nor the import makes the sign-in fail: only a database that went away, or the
\* erasure of its player in the same moment, does.
SignedInIsServed ==
    \A c \in Codes :
        visit[c].at = "answered" /\ visit[c].signed =>
            visit[c].status = 200 \/ visit[c].gone \/ outages > 0

\* A sign-in is served once its session exists, and leaves no token behind.
SignInSafe == SignInTypeOK /\ NoTokenLeft /\ SignedInIsServed
=============================================================================
