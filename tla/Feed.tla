-------------------------------- MODULE Feed --------------------------------
(***************************************************************************)
(* What main-service shows of the news: the personalised feed, its         *)
(* preferences and events (internal/handlers/personalization,              *)
(* services/personalization, store/personalization), and the list of the   *)
(* latest news (internal/handlers/newshttp, services/news, store/news).    *)
(*                                                                         *)
(* A feed request reads the preferences in one statement and the page in   *)
(* another; rows come and go with Retention meanwhile.  Points of the      *)
(* score are tenths, hours are ticks of its clock.                         *)
(***************************************************************************)
EXTENDS UserApi, Retention

CONSTANTS
    Readers,         \* slots for concurrent feed requests
    Admins,          \* users with the role admin
    Preferences,     \* what a PUT may carry: [categories, sources, language, words, hours]
    Queries,         \* what a GET may carry: [limit, offset, hours, search]
    CategoryOf, SourceOf,
    LanguageOf,      \* the language of an item's source
    WordRank,        \* the rank of an item for the preferred keywords, up to 20
    SearchRank,      \* and for the search text; 0 if the text does not match it
    DefaultLimit, MaxLimit,   \* 50 and 100, for the feed
    MaxListLimit,             \* 500, for the latest news
    DefaultHours, MaxHours,   \* 168 and 720
    MaxEvents        \* bound: events

ASSUME FeedAssumption ==
    /\ \A p \in Preferences : "hours" \in DOMAIN p /\ p.hours \in Int
    /\ MaxHours \in Nat /\ DefaultHours \in 1 .. MaxHours /\ MaxEvents \in Nat
    /\ Queries \subseteq [limit : Int, offset : Int, hours : Int, search : BOOLEAN]
    /\ DefaultLimit \in Nat \ {0} /\ MaxLimit \in Nat \ {0}
    /\ WordRank \in [News -> Nat] /\ SearchRank \in [News -> Nat]

VARIABLES
    prefs,     \* the row of user_news_preferences, or NoValue
    events,    \* how many events of a kind a user has for an item
    inserted,  \* events ever inserted (bounds InsertEvent)
    hidden,    \* <<user, item>> whose "hide" was answered 202
    reading    \* GetFeed between its two statements, or NoValue

feedVars == <<prefs, events, inserted, hidden, reading>>

Kinds == {"view", "click", "like", "dislike", "hide"}

NoEvents == [n \in News |-> [k \in Kinds |-> 0]]

NoPreferences == [categories |-> {}, sources |-> {}, language |-> "", words |-> FALSE, hours |-> DefaultHours]

FeedTypeOK ==
    /\ \A u \in Users : prefs[u] # NoValue => users[u] # "none" /\ prefs[u].hours \in 1 .. MaxHours
    /\ events \in [Users -> [News -> [Kinds -> 0 .. MaxEvents]]] /\ inserted \in 0 .. MaxEvents
    /\ \A u \in Users, n \in News : events[u][n] # NoEvents[n] => n \in rows /\ users[u] # "none"
    /\ hidden \subseteq Users \X News

FeedInit ==
    /\ prefs = [u \in Users |-> NoValue]
    /\ events = [u \in Users |-> NoEvents] /\ inserted = 0
    /\ hidden = {}
    /\ reading = [s \in Readers |-> NoValue]

\* Errors of the service: 400 for what is sent, 500 for what is asked for.
FeedStatus(op, err) ==
    CASE err # "ok" /\ op \in {"putPrefs", "event"} -> 400
      [] err # "ok"        -> 500
      [] op = "putPrefs"   -> 204
      [] op = "event"      -> 202
      [] OTHER             -> 200

\* resolveTargetUserID: only an admin may name another user.
MayActFor(by, u) == by = u \/ by \in Admins

\* Before any statement: 403, a number that is none (400), an invalid body.
FeedRefuses(op, by, u) ==
    /\ IF MayActFor(by, u) THEN op # "getPrefs" /\ Refuse(op, 400) ELSE Refuse(op, 403)
    /\ UNCHANGED feedVars

FeedFails(op) == Fails(op, FeedStatus(op, "failed")) /\ UNCHANGED feedVars

-----------------------------------------------------------------------------
(* GET and PUT /users/me/preferences *)

\* GetPreferences of the service: without a row, the defaults.
Current(u) == IF prefs[u] = NoValue THEN NoPreferences ELSE prefs[u]

GetPreferences(by, u) ==
    \/ FeedRefuses("getPrefs", by, u) \/ FeedFails("getPrefs")
    \/ /\ MayActFor(by, u)
       /\ Reply("getPrefs", FeedStatus("getPrefs", "ok"), {Current(u)})
       /\ UNCHANGED feedVars

Normalized(p) == IF p.hours <= 0 THEN [p EXCEPT !.hours = DefaultHours] ELSE p

\* The foreign key wants a row of the user.
UpsertPreferences(u, p) ==
    /\ users[u] # "none"
    /\ prefs' = [prefs EXCEPT ![u] = p]
    /\ Reply("putPrefs", FeedStatus("putPrefs", "ok"), {})
    /\ UNCHANGED <<events, inserted, hidden, reading>>

\* A language other than ru and en is refused like too large a window.
PutPreferences(by, u, p) ==
    \/ FeedRefuses("putPrefs", by, u) \/ FeedFails("putPrefs")
    \/ MayActFor(by, u) /\ p.hours <= MaxHours /\ UpsertPreferences(u, Normalized(p))

-----------------------------------------------------------------------------
(* POST /news/events *)

\* The foreign keys want a row of the user and of the item.
InsertEvent(u, n, kind) ==
    /\ inserted < MaxEvents
    /\ users[u] # "none" /\ n \in rows
    /\ events' = [events EXCEPT ![u][n][kind] = @ + 1]
    /\ inserted' = inserted + 1
    /\ Reply("event", FeedStatus("event", "ok"), {})
    /\ hidden' = IF answer'.status = 202 /\ kind = "hide" THEN hidden \cup {<<u, n>>} ELSE hidden
    /\ UNCHANGED <<prefs, reading>>

CreateEvent(by, u, n, kind) ==
    \/ FeedRefuses("event", by, u) \/ FeedFails("event")
    \/ MayActFor(by, u) /\ InsertEvent(u, n, kind)

-----------------------------------------------------------------------------
(* GET /news/feed *)

\* Limits and offsets out of range are replaced, not refused.
Limit(l, max) == IF l <= 0 THEN DefaultLimit ELSE IF l < max THEN l ELSE max
Offset(o)     == IF o < 0 THEN 0 ELSE o

\* The window: the request's, else that of the preferences.
Window(q, p) ==
    LET hours == IF q.hours > 0 THEN q.hours ELSE p.hours IN IF hours < MaxHours THEN hours ELSE MaxHours

HiddenFrom(u) == {n \in News : <<u, n>> \in hidden}

\* The first statement, of the preferences.
GetFeed(s, by, u, q) ==
    /\ reading[s] = NoValue
    /\ \/ FeedRefuses("feed", by, u) \/ FeedFails("feed")
       \/ /\ MayActFor(by, u)
          /\ reading' = [reading EXCEPT ![s] = [user |-> u, query |-> q, prefs |-> Current(u),
                                                hidden |-> HiddenFrom(u)]]
          /\ UNCHANGED <<http, prefs, events, inserted, hidden>>

\* Two points for a new item, one less per day.
Freshness(n) == LET age == 10 * (now - processedAt[n]) IN
    IF age >= 20 * DayLength THEN 0 ELSE 20 - age \div DayLength

Boost(u, n) == LET e == events[u][n] IN
    15 * e["like"] - 15 * e["dislike"] + 3 * e["click"] + e["view"]

Score(u, p, q, n) ==
    Freshness(n)
    + (IF CategoryOf[n] \in p.categories THEN 10 ELSE 0)
    + (IF SourceOf[n] \in p.sources THEN 8 ELSE 0)
    + (IF p.words THEN WordRank[n] ELSE 0)
    + (IF q.search THEN SearchRank[n] ELSE 0)
    + Boost(u, n)

\* Mutant: a "like" takes a "hide" back.
VisibleUnlessLiked(u, n) == events[u][n]["hide"] = 0 \/ events[u][n]["like"] > 0

\* BOOL_OR(event_type = 'hide'): hidden once, hidden for good.
Visible(u, n) == events[u][n]["hide"] = 0

\* The WHERE clause.  Preferred categories, sources and languages
\* filter, keywords do not.
Eligible(u, p, q) ==
    {n \in rows :
        /\ processedAt[n] >= now - Window(q, p)
        /\ p.categories = {} \/ CategoryOf[n] \in p.categories
        /\ p.sources = {} \/ SourceOf[n] \in p.sources
        /\ p.language \in {"", LanguageOf[n]}
        /\ q.search => SearchRank[n] > 0
        /\ Visible(u, n)}

\* ORDER BY score DESC, processed_at DESC, created_at DESC.
Precedes(u, p, q, m, n) ==
    LET a == Score(u, p, q, m)  b == Score(u, p, q, n) IN
    \/ a > b
    \/ a = b /\ processedAt[m] > processedAt[n]
    \/ a = b /\ processedAt[m] = processedAt[n] /\ createdAt[m] > createdAt[n]

\* The first k items in an order; items that tie may come in any.
Firsts(all, order, k) ==
    {F \in SUBSET all : /\ Cardinality(F) = k \/ (F = all /\ Cardinality(F) < k)
                        /\ \A n \in F, m \in all \ F : <<m, n>> \notin order}

\* LIMIT and OFFSET.
Pages(all, order, offset, limit) ==
    {page \in SUBSET all :
        \E from \in Firsts(all, order, offset), to \in Firsts(all, order, offset + limit) :
            from \subseteq to /\ page = to \ from}

FeedPages(u, p, q) ==
    LET order == {pair \in rows \X rows : Precedes(u, p, q, pair[1], pair[2])} IN
    Pages(Eligible(u, p, q), order, Offset(q.offset), Limit(q.limit, MaxLimit))

GetPersonalizedFeed(s) ==
    LET r == reading[s] IN
    /\ r # NoValue
    /\ reading' = [reading EXCEPT ![s] = NoValue]
    /\ \/ \E page \in FeedPages(r.user, r.prefs, r.query) : Reply("feed", FeedStatus("feed", "ok"), page)
       \/ Fails("feed", FeedStatus("feed", "failed"))
    /\ UNCHANGED <<prefs, events, inserted, hidden>>

-----------------------------------------------------------------------------
(* GET /news: the latest items, for admins *)

\* Newest first; processed_at before created_at.
Newer == {pair \in rows \X rows :
    LET m == pair[1]  n == pair[2] IN
    \/ processedAt[m] > processedAt[n]
    \/ processedAt[m] = processedAt[n] /\ createdAt[m] > createdAt[n]}

ListLatest(limit) ==
    /\ \/ Refuse("listNews", 400) \/ Fails("listNews", 500)
       \/ \E page \in Firsts(rows, Newer, Limit(limit, MaxListLimit)) : Reply("listNews", 200, page)
    /\ UNCHANGED feedVars

-----------------------------------------------------------------------------
FeedRequest ==
    \/ \E by, u \in Users :
        \/ GetPreferences(by, u)
        \/ \E p \in Preferences : PutPreferences(by, u, p)
        \/ \E n \in News, kind \in Kinds : CreateEvent(by, u, n, kind)
        \/ \E q \in Queries, s \in Readers : GetFeed(s, by, u, q)
    \/ \E s \in Readers : GetPersonalizedFeed(s)
    \/ \E q \in Queries : ListLatest(q.limit)

\* Mutant: without ON DELETE CASCADE.
KeepEvents == UNCHANGED events

\* ON DELETE CASCADE: a removed row takes its events along.
CascadeEvents ==
    events' = [u \in Users |-> [n \in News |-> IF n \in rows \ rows' THEN NoEvents[n] ELSE events[u][n]]]

NewsStep == RetentionNext /\ CascadeEvents /\ UNCHANGED <<prefs, inserted, hidden, reading>>

-----------------------------------------------------------------------------
(* Properties *)

\* An item that the user was told is hidden does not come back in any feed asked
\* for afterwards, whatever events follow, on any page and for any preferences.
HiddenStays ==
    [][\A s \in Readers :
        reading[s] # NoValue /\ reading'[s] = NoValue => answer'.found \cap reading[s].hidden = {}]_reading
=============================================================================
