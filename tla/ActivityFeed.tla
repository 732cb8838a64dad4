----------------------------- MODULE ActivityFeed -----------------------------
(***************************************************************************)
(* The recent activity of a dashboard: the service returns one page of the *)
(* parking events, newest first, and a cursor for the next; the page of    *)
(* the browser collects them while cars come and go.  A row is reused when *)
(* its car returns, with a new check-in time.                              *)
(***************************************************************************)
EXTENDS Integers, FiniteSetsExt, SequencesExt

CONSTANTS
    EventIds,
    Limit,      \* ACTIVITY_PAGE_SIZE
    LastTime    \* bound: check-in times are 1..LastTime

ASSUME FeedAssumption ==
    /\ EventIds \subseteq Nat \ {0} /\ IsFiniteSet(EventIds)
    /\ Limit \in Nat \ {0} /\ LastTime \in Nat \ {0}

VARIABLES
    checkInTime,  \* of each row; 0 before it is inserted, Gone once deleted
    feed,         \* pages on screen: [items, hasMore, nextCursor]
    fetching,     \* [at, pages, target]: pages read so far, how many are wanted
    unsettled     \* history: rows written since the first of these pages was read

feedVars == <<checkInTime, feed, fetching, unsettled>>

NoCursor == [checkInTime |-> LastTime + 1, id |-> 0]
Gone == -1
Idle == [at |-> "idle", pages |-> <<>>, target |-> 0, unsettled |-> {}]

FeedInit ==
    /\ checkInTime \in [EventIds -> 0..1]
    /\ \A i, j \in EventIds : i < j => checkInTime[i] >= checkInTime[j]
    /\ feed = <<>>
    /\ fetching = Idle
    /\ unsettled = {}

(***************************************************************************)
(* getRecentActivity                                                       *)
(***************************************************************************)
Row(id) == [checkInTime |-> checkInTime[id], id |-> id]
StoredRows == {Row(id) : id \in {i \in EventIds : checkInTime[i] > 0}}

\* orderBy checkInTime desc, id desc: does row a come after row b?
After(a, b) ==
    a.checkInTime < b.checkInTime \/ (a.checkInTime = b.checkInTime /\ a.id < b.id)

inOrder(rows) ==
    [i \in 1..Cardinality(rows) |-> CHOOSE r \in rows : Cardinality({x \in rows : After(r, x)}) = i - 1]

\* Fault: the id does not count.
cursorFilterByTime(cursor) == {r \in StoredRows : r.checkInTime < cursor.checkInTime}

\* Fault: the last row of the page before is returned again.
cursorFilterWithLast(cursor) == {r \in StoredRows : r = cursor \/ After(r, cursor)}

cursorFilter(cursor) == {r \in StoredRows : After(r, cursor)}

\* take: limit + 1; the row too many only says that there is more.
getRecentActivity(cursor) ==
    LET events == inOrder(cursorFilter(cursor))
        items == SubSeq(events, 1, Min({Limit, Len(events)}))
        hasMore == Len(events) > Limit
    IN [items |-> items, hasMore |-> hasMore,
        nextCursor |-> IF hasMore THEN Last(items) ELSE NoCursor]

(***************************************************************************)
(* The parking events: a first visit, a return, a vehicle deleted.  The    *)
(* time is taken before the row is committed, so rows may appear a little  *)
(* late.                                                                   *)
(***************************************************************************)
RowWritten(id) ==
    /\ unsettled' = unsettled \union {id}
    /\ fetching' = IF fetching.pages = <<>> THEN fetching
                   ELSE [fetching EXCEPT !.unsettled = @ \union {id}]

CheckIn(id, time) ==
    /\ checkInTime[id] # Gone
    /\ checkInTime[id] = 0 => \A i \in EventIds : i < id => checkInTime[i] # 0
    /\ time \in checkInTime[id] + 1 .. LastTime
    /\ \A i \in EventIds : time >= checkInTime[i] - 1
    /\ checkInTime' = [checkInTime EXCEPT ![id] = time]
    /\ RowWritten(id)
    /\ UNCHANGED feed

Delete(id) ==
    /\ checkInTime[id] > 0
    /\ checkInTime' = [checkInTime EXCEPT ![id] = Gone]
    /\ RowWritten(id)
    /\ UNCHANGED feed

(***************************************************************************)
(* useInfiniteQuery in RecentActivityTimeline, as the library runs it.     *)
(***************************************************************************)
\* The sentinel comes into view, unless a page is being fetched.
fetchNextPage ==
    /\ fetching.at = "idle"
    /\ feed # <<>> /\ Last(feed).hasMore
    /\ fetching' = [at |-> "next", pages |-> feed, target |-> Len(feed) + 1, unsettled |-> {}]
    /\ UNCHANGED <<checkInTime, feed, unsettled>>

\* Opening, or 'dashboard' was invalidated: as many pages as there were, one
\* after the other, in place of what was being fetched.
Refetch ==
    /\ fetching.at # "all"
    /\ fetching' = [at |-> "all", pages |-> <<>>, target |-> Max({1, Len(feed)}), unsettled |-> {}]
    /\ UNCHANGED <<checkInTime, feed, unsettled>>

\* pageParam of the next page is the cursor of the one before.
queryFn ==
    /\ fetching.at # "idle"
    /\ Len(fetching.pages) < fetching.target
    /\ fetching.pages # <<>> => Last(fetching.pages).hasMore
    /\ LET pageParam == IF fetching.pages = <<>> THEN NoCursor ELSE Last(fetching.pages).nextCursor
       IN fetching' = [fetching EXCEPT !.pages = Append(@, getRecentActivity(pageParam))]
    /\ UNCHANGED <<checkInTime, feed, unsettled>>

\* All pages wanted, or no more: they are shown together.
Show ==
    /\ fetching.at # "idle"
    /\ fetching.pages # <<>>
    /\ Len(fetching.pages) = fetching.target \/ ~Last(fetching.pages).hasMore
    /\ feed' = fetching.pages
    /\ unsettled' = IF fetching.at = "all" THEN fetching.unsettled ELSE unsettled
    /\ fetching' = Idle
    /\ UNCHANGED checkInTime

\* Twice no answer: the pages on screen stay.
FetchError ==
    /\ fetching.at # "idle"
    /\ fetching' = Idle
    /\ UNCHANGED <<checkInTime, feed, unsettled>>

FeedNext ==
    \/ \E id \in EventIds, time \in 1..LastTime : CheckIn(id, time)
    \/ \E id \in EventIds : Delete(id)
    \/ fetchNextPage \/ Refetch \/ queryFn \/ Show \/ FetchError

FeedSpec == FeedInit /\ [][FeedNext]_feedVars

(***************************************************************************)
(* Properties.                                                             *)
(***************************************************************************)
FeedTypeOK ==
    /\ checkInTime \in [EventIds -> Gone..LastTime]
    /\ fetching.at \in {"idle", "next", "all"}
    /\ unsettled \subseteq EventIds

\* Is item i of page k above item j of page l?
Above(k, i, l, j) == k < l \/ (k = l /\ i < j)

\* Whatever cars came, went and returned between the pages, the feed repeats no
\* event, is in order, and skips none: an event that was not written since the
\* first page was read is shown, unless it comes after the last page and the
\* feed says that there is more (recent-activity-cursor.ts, getRecentActivity,
\* RecentActivityTimeline).
ActivityFeedSound ==
    /\ \A k, l \in DOMAIN feed : \A i \in DOMAIN feed[k].items, j \in DOMAIN feed[l].items :
          LET upper == feed[k].items[i]
              lower == feed[l].items[j]
          IN Above(k, i, l, j) => upper.id # lower.id /\ After(lower, upper)
    /\ feed # <<>> =>
          \A id \in EventIds \ unsettled :
              checkInTime[id] > 0 =>
                  \/ \E p \in ToSet(feed) : Row(id) \in ToSet(p.items)
                  \/ Last(feed).hasMore /\ After(Row(id), Last(feed).nextCursor)
===============================================================================
