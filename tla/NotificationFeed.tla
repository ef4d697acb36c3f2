-------------------------- MODULE NotificationFeed --------------------------
(***************************************************************************)
(* One player's notification feed (llm/seca/notifications): rows that only *)
(* the server creates and the player reads and dismisses while they age.   *)
(* Every query filters by player, so feeds do not interact.  A producer    *)
(* looks a row up in one statement and writes it in another; import        *)
(* workers, requests and the player's clicks interleave in between.        *)
(*                                                                         *)
(* A row keeps what the service reads back: its type, games_analyzed, the  *)
(* two lifecycle stamps and how old it is, "merge" being less than         *)
(* GAME_ANALYZED_MERGE_WINDOW_MINUTES and "old" more than the 30 days      *)
(* after which it is expired or hidden.  The count is the set of the calls *)
(* whose games it includes, so that one that is lost or counted twice      *)
(* shows.  created_at orders the rows: the feed is a sequence, oldest      *)
(* first, and a merged row moves to its end.                               *)
(***************************************************************************)
EXTENDS Naturals, FiniteSets, Sequences, SequencesExt

CONSTANTS FeedCallers,  \* import workers that call a producer, each once
          MaxRows       \* bound on rows: one for each caller

ASSUME NotificationFeedAssumption ==
    MaxRows \in Nat /\ IsFiniteSet(FeedCallers) /\ Cardinality(FeedCallers) <= MaxRows

Ages == {"merge", "recent", "old"}
Rows == [id : 1..MaxRows, type : {"game_analyzed", "system_alert"}, games : SUBSET FeedCallers,
         read : BOOLEAN, dismissed : BOOLEAN, age : Ages]

VARIABLES
    feed,       \* the notifications rows
    rowsMade,   \* rows created so far, whose count names the next one
    feedCaller, \* where each producer call is: between its read and its write, or not
    analyzed,   \* history: the notify_games_analyzed calls that have written
    overlap     \* history: a click or another call fell between a read and its write

feedVars == <<feed, rowsMade, feedCaller, analyzed, overlap>>

NoTarget == [id |-> 0, games |-> {}]
Waiting == [at |-> "idle", target |-> NoTarget]

FeedTypeOK ==
    /\ feed \in Seq(Rows) /\ rowsMade \in 0..MaxRows /\ Len(feed) = rowsMade
    /\ feedCaller \in [FeedCallers -> [at : {"idle", "announcing", "alerting", "done"},
                                       target : [id : 0..MaxRows, games : SUBSET FeedCallers]]]
    /\ analyzed \in SUBSET FeedCallers /\ overlap \in BOOLEAN

FeedInit ==
    /\ feed = <<>> /\ rowsMade = 0
    /\ feedCaller = [c \in FeedCallers |-> Waiting]
    /\ analyzed = {} /\ overlap = FALSE

InCall == {c \in FeedCallers : feedCaller[c].at \in {"announcing", "alerting"}}
Overlaps(c) == overlap' = (overlap \/ InCall \ {c} # {})

-----------------------------------------------------------------------------
(* The player's requests *)

\* _visible_filter: not dismissed, not expired, at most 30 days old.
Visible(row) == ~row.dismissed /\ row.age # "old"

\* unread_badge_count: both types have at least medium priority.
Unread(row) == Visible(row) /\ ~row.read
Badge == {i \in DOMAIN feed : Unread(feed[i])}

\* An UPDATE of the rows that satisfy a condition.
UpdateRows(Cond(_), Set(_)) ==
    feed' = [i \in DOMAIN feed |-> IF Cond(feed[i]) THEN Set(feed[i]) ELSE feed[i]]

Read(row) == [row EXCEPT !.read = TRUE]
Dismissed(row) == [row EXCEPT !.dismissed = TRUE]

Click ==
    /\ overlap' = (overlap \/ InCall # {})
    /\ UNCHANGED <<rowsMade, feedCaller, analyzed>>

\* POST /notifications/{id}/read; a row that is already read keeps its stamp.
MarkRead(id) ==
    /\ \E i \in DOMAIN feed : feed[i].id = id /\ ~feed[i].read
    /\ UpdateRows(LAMBDA row : row.id = id, Read)
    /\ Click

\* POST /notifications/read-all.
MarkAllRead ==
    /\ Badge # {}
    /\ UpdateRows(Unread, Read)
    /\ Click

\* POST /notifications/{id}/dismiss.
Dismiss(id) ==
    /\ \E i \in DOMAIN feed : feed[i].id = id /\ ~feed[i].dismissed
    /\ UpdateRows(LAMBDA row : row.id = id, Dismissed)
    /\ Click

\* Time passes: a row gets older, and none stays younger than a later one.
Rank(age) == CASE age = "merge" -> 0 [] age = "recent" -> 1 [] age = "old" -> 2
Age(i) ==
    /\ i \in DOMAIN feed /\ feed[i].age # "old"
    /\ LET older == IF feed[i].age = "merge" THEN "recent" ELSE "old"
       IN  /\ \A k \in 1..i - 1 : Rank(feed[k].age) >= Rank(older)
           /\ feed' = [feed EXCEPT ![i].age = older]
    /\ UNCHANGED <<rowsMade, feedCaller, analyzed, overlap>>

-----------------------------------------------------------------------------
(* The producers *)

Post(type, games) ==
    /\ rowsMade' = rowsMade + 1
    /\ feed' = Append(feed, [id |-> rowsMade + 1, type |-> type, games |-> games,
                             read |-> FALSE, dismissed |-> FALSE, age |-> "merge"])

\* Mutated form of Mergeable: a row the player has read is merged into.
MergeableRead(row) == row.type = "game_analyzed" /\ ~row.dismissed /\ row.age = "merge"

\* A merge target is unread, undismissed and within the merge window.
Mergeable(row) ==
    row.type = "game_analyzed" /\ ~row.read /\ ~row.dismissed /\ row.age = "merge"

\* The latest of them.
MergeTarget ==
    LET rows == {i \in DOMAIN feed : Mergeable(feed[i])}
    IN  IF rows = {} THEN NoTarget ELSE [id |-> feed[Max(rows)].id, games |-> feed[Max(rows)].games]

\* The SELECT of notify_games_analyzed.
FindTarget(c) ==
    /\ feedCaller[c].at = "idle"
    /\ feedCaller' = [feedCaller EXCEPT ![c] = [at |-> "announcing", target |-> MergeTarget]]
    /\ Overlaps(c)
    /\ UNCHANGED <<feed, rowsMade, analyzed>>

\* Mutated form of WriteTotal: a merge posts the total in a second row.
WriteTotalTwice(target, c) == Post("game_analyzed", target.games \union {c})

\* Its write: a new row, or the target with the total and created_at = now.
WriteTotal(target, c) ==
    \/ target.id = 0 /\ Post("game_analyzed", {c})
    \/ \E i \in DOMAIN feed :
          /\ feed[i].id = target.id
          /\ feed' = Append(RemoveAt(feed, i),
                            [feed[i] EXCEPT !.games = target.games \union {c}, !.age = "merge"])
          /\ UNCHANGED rowsMade

Finish(c) == feedCaller' = [feedCaller EXCEPT ![c] = [Waiting EXCEPT !.at = "done"]]

NotifyGamesAnalyzed(c) ==
    /\ feedCaller[c].at = "announcing"
    /\ WriteTotal(feedCaller[c].target, c)
    /\ analyzed' = analyzed \union {c}
    /\ Finish(c) /\ Overlaps(c)

\* A database error in the producer rolls back; the import goes on.
NotifyFails(c) ==
    /\ feedCaller[c].at \in {"announcing", "alerting"}
    /\ Finish(c)
    /\ UNCHANGED <<feed, rowsMade, analyzed, overlap>>

\* The Lichess alert, found by type and action whatever its age.
LiveAlert(row) == row.type = "system_alert" /\ ~row.dismissed
Alerts == {i \in DOMAIN feed : LiveAlert(feed[i])}

\* An undismissed alert suppresses another one.
Suppressed == Alerts # {}

\* The SELECT of notify_lichess_disconnected.
LookForAlert(c) ==
    /\ feedCaller[c].at = "idle"
    /\ feedCaller' = [feedCaller EXCEPT ![c] =
           [Waiting EXCEPT !.at = IF Suppressed THEN "done" ELSE "alerting"]]
    /\ Overlaps(c)
    /\ UNCHANGED <<feed, rowsMade, analyzed>>

\* Its INSERT.
NotifyDisconnected(c) ==
    /\ feedCaller[c].at = "alerting"
    /\ Post("system_alert", {})
    /\ Finish(c) /\ Overlaps(c)
    /\ UNCHANGED analyzed

\* resolve_lichess_disconnected: a reconnection, a relink or an unlink.
ResolveDisconnected ==
    /\ Alerts # {}
    /\ UpdateRows(LiveAlert, Dismissed)
    /\ Click

FeedNext ==
    \/ MarkAllRead \/ ResolveDisconnected
    \/ \E i \in 1..MaxRows : MarkRead(i) \/ Dismiss(i) \/ Age(i)
    \/ \E c \in FeedCallers :
         \/ FindTarget(c) \/ NotifyGamesAnalyzed(c)
         \/ LookForAlert(c) \/ NotifyDisconnected(c) \/ NotifyFails(c)

FeedSpec == FeedInit /\ [][FeedNext]_feedVars

-----------------------------------------------------------------------------
(* Properties *)

\* What all the rows together say is ready.
Announced == UNION {feed[i].games : i \in DOMAIN feed}

\* notify_games_analyzed: a merge replaces the count it read, so no two rows count
\* the same games, whatever overlaps; and the feed announces exactly the games
\* that were analyzed as long as nothing falls between a producer's read and its write.
AnnouncesWhatWasAnalyzed ==
    /\ \A i, j \in DOMAIN feed : i # j => feed[i].games \intersect feed[j].games = {}
    /\ Announced \subseteq analyzed
    /\ ~overlap => Announced = analyzed

\* service.py 244-250: "at most one live copy" of the alert, as long as
\* nothing falls between the look and the insert.
OneLiveAlert == ~overlap => \A i, j \in Alerts : i = j

\* service.py 173-176: "A read row is never merged into": what the player has
\* read does not change any more, as long as nothing falls in between.
ReadRowsFrozen ==
    [][~overlap' => \A i \in DOMAIN feed : feed[i].read =>
           \E k \in DOMAIN feed' : feed'[k].id = feed[i].id /\ feed'[k].games = feed[i].games]_feedVars

\* The feed tells the truth about the analyzed games, and alerts once.
FeedSafe == FeedTypeOK /\ AnnouncesWhatWasAnalyzed /\ OneLiveAlert
=============================================================================
