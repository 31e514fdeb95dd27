-------------------------------- MODULE Pages --------------------------------
(***************************************************************************)
(* Lists that are read page by page while the collector writes: the API     *)
(* answers a page and a cursor (or an offset), the browser appends it to    *)
(* what it shows and asks on.  Rows are added and collected again between   *)
(* two pages, requests overtake each other, fail, and the user turns to     *)
(* another listing.  One list is read at a time, of one of these views:     *)
(*   "threads"  the comments of a video, in one of three orders;            *)
(*   "source"   the videos of a source;                                     *)
(*   "explore"  the videos of all channels or of one, by offsets;           *)
(*   "library"  the same by cursors, read by a client of the API.           *)
(***************************************************************************)
EXTENDS Integers, FiniteSets, Sequences, Functions

CONSTANTS
    Items,       \* a set of numbers: rows, by their youtube ids
    Few,         \* those of the second source, and of one channel
    Late,        \* rows that may still be to come at first, one of them at most
    Undated,     \* rows that may have no time of their own, one of them at most
    Limit,       \* rows of a page
    Views,       \* the views to read
    MaxStores,   \* bound on rows collected, first or again
    MaxTurns,    \* bound on turns to another listing and refreshes
    MaxFaults,   \* bound on failed requests
    MaxRequests  \* bound on requests, never reached

ASSUME PagesConstants ==
    /\ Items \subseteq Nat \ {0} /\ IsFiniteSet(Items)
    /\ Few \subseteq Items /\ Late \subseteq Items /\ Undated \subseteq Items
    /\ Limit \in Nat \ {0}
    /\ Views \subseteq {"threads", "source", "explore", "library"}
    /\ MaxStores \in Nat /\ MaxTurns \in Nat /\ MaxFaults \in Nat /\ MaxRequests \in Nat \ {0}

VARIABLES
    view,      \* the view, chosen once
    published, \* published_at, 0 when YouTube tells none
    rows,      \* the stored rows
    fetching,  \* when a response not stored yet was fetched, or 0
    clock,
    listing,   \* the order, the source or the channel the user chose
    shown,     \* the list in the browser, and where it goes on
    flights,   \* requests not answered yet
    asked,     \* requests so far
    latest,    \* the request whose number is the latest: commentsRequest, resultsRequest
    loading,   \* isCommentsLoading, isSourceVideosLoadingMore, isExploreLoadingMore
    failed,    \* the view shows an error
    turns,
    faults

data == <<published, rows, fetching, clock>>
pageVars == <<view, data, listing, shown, flights, asked, latest, loading, failed, turns, faults>>

Listings(v) == CASE v = "threads" -> {"newest", "oldest", "recommended"}
                 [] v = "source" -> {"A", "B"}
                 [] OTHER -> {"all", "channel"}
Listing == UNION {Listings(v) : v \in Views}
Member(l) == IF l \in {"B", "channel"} THEN Few ELSE Items

Missing == [fetched |-> 0, likes |-> 0, seen |-> 0]
Stored == {i \in Items : rows[i] # Missing}

------------------------------------------------------------------------------
(* The order of a listing: rows by a key whose last part is their id. *)

\* The sequences of the members of S in an order: there is one, if it is strict and total.
Arranged(S, Precedes(_, _)) ==
    {s \in [1..Cardinality(S) -> S] : \A m, n \in DOMAIN s : m < n => Precedes(s[m], s[n])}

EffectiveAt(row, i) == IF published[i] = 0 THEN row.fetched ELSE published[i]

SortKey(l, row, i) ==
    CASE l = "recommended" -> <<row.likes, EffectiveAt(row, i), i>>
      [] l \in {"all", "channel"} -> <<EffectiveAt(row, i), row.fetched, i>>
      [] OTHER -> <<EffectiveAt(row, i), i>>

Below(k, c) == \E n \in DOMAIN k : k[n] < c[n] /\ \A m \in 1..(n - 1) : k[m] = c[m]
Follows(l, k, c) == IF l = "oldest" THEN Below(c, k) ELSE Below(k, c)

Key(l, i) == SortKey(l, rows[i], i)
Before(l, i, j) == Follows(l, Key(l, j), Key(l, i))
Sorted(l, S) == Arranged(S, LAMBDA i, j : Before(l, i, j))

------------------------------------------------------------------------------
(* A page.  A cursor keeps the key of the last row of the page before it,   *)
(* the time of the first page, and the listing it was made for; an offset   *)
(* keeps the number of rows only.  session and stable are history: the      *)
(* first request of the list a cursor comes from, and the rows there were   *)
(* when it was answered that kept their place since.                        *)

Start == [of |-> "start", key |-> <<>>, at |-> 0]
End == [of |-> "end", key |-> <<>>, at |-> 0]

ByOffset == view = "explore"
BySnapshot == view \in {"source", "library"}

SnapshotAt(cursor) == IF cursor = Start THEN clock ELSE cursor.at

\* Mutation: the cursor does not keep the id, and rows with equal times are one.
CursorUntied(l, i, at) ==
    [of |-> l, key |-> [Key(l, i) EXCEPT ![Len(Key(l, i))] = 0], at |-> at]

Cursor(l, i, at) == [of |-> l, key |-> Key(l, i), at |-> at]

\* An API client may send any cursor: it must be one of this listing.
Decoded(l, cursor) == cursor = Start \/ ByOffset \/ cursor.of = l

Slice(s, offset) ==
    SubSeq(s, offset + 1, IF offset + Limit < Len(s) THEN offset + Limit ELSE Len(s))

\* The next rows of S after the cursor.
After(l, cursor, S) ==
    {i \in S \cap Member(l) : cursor # Start => Follows(l, Key(l, i), cursor.key)}

ThreadRows(l, cursor) == After(l, cursor, Stored)

\* Rows first seen after the first page do not join a list of videos.
SeenBy(at) == {i \in Stored : rows[i].seen <= at}
SourceRows(l, cursor) == After(l, cursor, SeenBy(SnapshotAt(cursor)))
LibraryRows(l, cursor) == After(l, cursor, SeenBy(SnapshotAt(cursor)))

ExploreRows(l) == Stored \cap Member(l)

\* What a query selects, to be sorted.
Selected(l, cursor) ==
    CASE view = "threads" -> ThreadRows(l, cursor)
      [] view = "source" -> SourceRows(l, cursor)
      [] view = "library" -> LibraryRows(l, cursor)
      [] OTHER -> ExploreRows(l)

KeysetPage(l, cursor, rest) ==
    LET items == Slice(rest, 0)
    IN [items |-> items,
        next |-> IF Len(rest) > Limit
                   THEN Cursor(l, items[Len(items)], SnapshotAt(cursor)) ELSE End]

OffsetPage(l, cursor, all) ==
    LET offset == IF cursor = Start THEN 0 ELSE cursor.key[1]
        items == Slice(all, offset)
    IN [items |-> items,
        next |-> IF Len(all) > offset + Limit
                   THEN [of |-> l, key |-> <<offset + Len(items)>>, at |-> 0] ELSE End]

PageOf(l, cursor, found) ==
    IF ByOffset THEN OffsetPage(l, cursor, found) ELSE KeysetPage(l, cursor, found)

NoPage == [items |-> <<>>, next |-> Start]

Empty(l) == [listing |-> l, items |-> <<>>, next |-> End,
             session |-> 0, mixed |-> FALSE, stable |-> {}, since |-> 0]

Request(no, l, cursor, session) ==
    [no |-> no, listing |-> l, cursor |-> cursor, page |-> NoPage, state |-> "asked",
     aborted |-> FALSE, session |-> session, stable |-> {}, since |-> 0]

First(f) == f.cursor = Start

------------------------------------------------------------------------------
PagesInit ==
    \E v \in Views : \E l \in {"newest", "A", "all"} \cap Listings(v) :
        /\ view = v
        /\ \E undated \in Undated \cup {0} :
              published = [i \in Items |-> IF i = undated THEN 0 ELSE 1]
        /\ \E late \in Late \cup {0} :
              rows = [i \in Items |-> IF i = late THEN Missing
                                     ELSE [fetched |-> 2, likes |-> 0, seen |-> 2]]
        /\ fetching = [i \in Items |-> 0]
        /\ clock = 2
        /\ listing = l
        /\ shown = Empty(l)
        /\ flights = {Request(1, l, Start, 1)}
        /\ asked = 1 /\ latest = 1
        /\ loading = (v \in {"threads", "library"})
        /\ failed = FALSE
        /\ turns = 0 /\ faults = 0

client == <<listing, shown, flights, asked, latest, loading, failed, turns, faults>>
requests == <<asked, latest, turns>>

(* The collector. *)

Fetch(i) ==
    /\ fetching[i] = 0
    /\ clock < 2 + MaxStores
    /\ clock' = clock + 1
    /\ fetching' = [fetching EXCEPT ![i] = clock + 1]
    /\ UNCHANGED <<view, published, rows, client>>

\* A row keeps its first_seen_at; the transaction that stores it began when it was fetched.
Stores(i, likes) ==
    [fetched |-> fetching[i], likes |-> likes,
     seen |-> IF i \in Stored THEN rows[i].seen ELSE fetching[i]]

Kept(l, i, row) == rows[i] # Missing /\ SortKey(l, row, i) = Key(l, i)
StillThere(f, i, row) ==
    [f EXCEPT !.stable = IF Kept(f.listing, i, row) THEN @ ELSE @ \ {i}]

Store(i) ==
    /\ fetching[i] # 0
    /\ \E likes \in IF view = "threads" THEN 0..1 ELSE {0} :
          LET row == Stores(i, likes) IN
          /\ rows' = [rows EXCEPT ![i] = row]
          /\ flights' = {StillThere(f, i, row) : f \in flights}
          /\ shown' = StillThere(shown, i, row)
    /\ fetching' = [fetching EXCEPT ![i] = 0]
    /\ UNCHANGED <<view, published, clock, listing, requests, loading, failed, faults>>

Served(f, found) ==
    [f EXCEPT !.state = "served", !.page = PageOf(f.listing, f.cursor, found),
              !.stable = IF First(f) THEN Stored \cap Member(f.listing) ELSE {},
              !.since = IF First(f) THEN clock ELSE 0]

(* The API answers a request; the answer is under way. *)
Serve(f) ==
    /\ f.state = "asked"
    /\ \/ /\ Decoded(f.listing, f.cursor)
          /\ \E found \in Sorted(f.listing, Selected(f.listing, f.cursor)) :
                flights' = (flights \ {f}) \cup {Served(f, found)}
       \/ /\ ~Decoded(f.listing, f.cursor)
          /\ flights' = (flights \ {f}) \cup {[f EXCEPT !.state = "refused"]}
    /\ UNCHANGED <<view, data, listing, shown, requests, loading, failed, faults>>

------------------------------------------------------------------------------
(* The browser.  Guarded views number their requests and hear the latest    *)
(* only; the list of a source aborts those it no longer wants.              *)

Guarded == view \in {"threads", "library"}

\* Mutation: every answer is shown.
HeardAny(f) == TRUE

Heard(f) ==
    CASE Guarded -> f.no = latest
      [] view = "source" -> IF First(f) THEN f.no = latest
                            ELSE ~f.aborted /\ f.listing = listing /\ shown.listing = listing
      [] OTHER -> TRUE

\* s without the members of S.
Without(s, S) ==
    LET kept == {n \in DOMAIN s : s[n] \notin S}
    IN {[n \in DOMAIN place |-> s[place[n]]] : place \in Arranged(kept, LAMBDA m, n : m < n)}

Appended(f, more) ==
    [shown EXCEPT
        !.items = @ \o more,
        !.next = f.page.next,
        !.mixed = @ \/ f.session # shown.session \/ f.listing # shown.listing]

Replaced(f) ==
    [listing |-> f.listing, items |-> f.page.items, next |-> f.page.next,
     session |-> f.no, mixed |-> FALSE, stable |-> f.stable, since |-> f.since]

\* The spinner of a guarded view stops with the latest request, the other two
\* have one for further pages only.
Loaded(f) == CASE Guarded -> loading /\ f.no # latest
               [] First(f) -> loading
               [] view = "source" -> loading /\ f.aborted
               [] OTHER -> FALSE

Answer(f) ==
    /\ f.state = "served"
    /\ flights' = flights \ {f}
    /\ \E more \in Without(f.page.items, Range(shown.items)) :
          shown' = IF ~Heard(f) THEN shown ELSE IF First(f) THEN Replaced(f) ELSE Appended(f, more)
    /\ loading' = Loaded(f)
    /\ UNCHANGED <<view, data, listing, requests, failed, faults>>

\* A request is refused, or lost.
Fail(f) ==
    /\ \/ f.state = "refused" /\ UNCHANGED faults
       \/ f.state = "asked" /\ faults < MaxFaults /\ faults' = faults + 1
    /\ flights' = flights \ {f}
    /\ failed' = (failed \/ (IF view = "source" THEN ~f.aborted ELSE Heard(f)))
    /\ shown' = IF Guarded /\ Heard(f) /\ First(f) THEN Empty(listing) ELSE shown
    /\ loading' = Loaded(f)
    /\ UNCHANGED <<view, data, listing, requests>>

Aborted(fs) == IF view = "source" THEN {[f EXCEPT !.aborted = TRUE] : f \in fs} ELSE fs

\* Mutation: loading a source again leaves the spinner of its further pages.
BeginSpinning(l) ==
    /\ asked < MaxRequests
    /\ asked' = asked + 1
    /\ latest' = asked + 1
    /\ flights' = Aborted(flights) \cup {Request(asked + 1, l, Start, asked + 1)}
    /\ loading' = (Guarded \/ loading)
    /\ failed' = FALSE
    /\ UNCHANGED <<view, data, faults>>

\* The first page of a list is asked for.
Begin(l) ==
    /\ asked < MaxRequests
    /\ asked' = asked + 1
    /\ latest' = asked + 1
    /\ flights' = Aborted(flights) \cup {Request(asked + 1, l, Start, asked + 1)}
    /\ loading' = Guarded
    /\ failed' = FALSE
    /\ UNCHANGED <<view, data, faults>>

\* The user turns to another order, source or channel.
Turn(l) ==
    /\ turns < MaxTurns
    /\ l # listing
    /\ turns' = turns + 1
    /\ listing' = l
    /\ shown' = IF Guarded THEN Empty(l) ELSE shown
    /\ Begin(l)

\* A job ended: the page of a source is loaded again, and Explore, of all channels.
Refresh ==
    /\ turns < MaxTurns
    /\ ~Guarded
    /\ turns' = turns + 1
    /\ Begin(IF view = "source" THEN listing ELSE "all")
    /\ UNCHANGED <<listing, shown>>

Displayed == view = "source" => shown.listing = listing /\ shown.session # 0

Further(l) ==
    /\ Displayed
    /\ shown.next # End
    /\ ~loading
    /\ asked < MaxRequests
    /\ asked' = asked + 1
    /\ latest' = IF Guarded THEN asked + 1 ELSE latest
    /\ flights' = flights \cup {Request(asked + 1, l, shown.next, shown.session)}
    /\ loading' = TRUE
    /\ failed' = FALSE
    /\ UNCHANGED <<view, data, listing, shown, turns>>

\* The end of the list is scrolled into sight; a source whose next page failed
\* waits for the user to try again.
More == (view = "source" => ~failed) /\ Further(listing) /\ UNCHANGED faults
Retry == view = "source" /\ failed /\ Further(listing) /\ UNCHANGED faults

\* A client of the API goes on with the cursor of another listing.
Misuse(l) ==
    /\ view = "library" /\ l # listing
    /\ faults < MaxFaults
    /\ faults' = faults + 1
    /\ Further(l)

------------------------------------------------------------------------------
Serving == \E f \in flights : Serve(f)
Hearing == \E f \in flights : Answer(f)
Failing == \E f \in flights : Fail(f)
Collecting == \E i \in Items : Fetch(i) \/ Store(i)
Turning == \E l \in Listings(view) : Turn(l)

PagesNext == Serving \/ Hearing \/ Failing \/ Collecting \/ Turning \/ Refresh \/ More \/ Retry
        \/ (\E l \in Listings(view) : Misuse(l))

PagesSpec == PagesInit /\ [][PagesNext]_pageVars
Refusing == \E f \in flights : f.state = "refused" /\ Fail(f)
PagesFairSpec == PagesSpec /\ WF_pageVars(Serving) /\ WF_pageVars(Hearing) /\ WF_pageVars(Refusing) /\ WF_pageVars(More)

------------------------------------------------------------------------------
(* Properties. *)

Cursors == [of: Listing \cup {"start", "end"}, key: Seq(Nat), at: Nat]
Requests == [no: Nat \ {0}, listing: Listing, cursor: Cursors,
             page: [items: Seq(Items), next: Cursors], state: {"asked", "served", "refused"},
             aborted: BOOLEAN, session: Nat, stable: SUBSET Items, since: Nat]

\* Every variable keeps its type, and no request has a number that was not given out.
PagesTypeOK ==
    /\ view \in Views
    /\ published \in [Items -> 0..1]
    /\ rows \in [Items -> [fetched: Nat, likes: 0..1, seen: Nat]]
    /\ fetching \in [Items -> Nat] /\ clock \in Nat
    /\ listing \in Listings(view)
    /\ shown \in [listing: Listing, items: Seq(Items), next: Cursors, session: Nat,
                  mixed: BOOLEAN, stable: SUBSET Items, since: Nat]
    /\ flights \subseteq Requests
    /\ \A f \in flights : f.no <= asked
    /\ asked \in 0..MaxRequests /\ latest \in 0..asked
    /\ loading \in BOOLEAN /\ failed \in BOOLEAN
    /\ turns \in 0..MaxTurns /\ faults \in 0..MaxFaults

\* No row is shown twice, and what the collector does between two pages moves no other
\* row across the boundary of a page: the rows that keep their place since the first page are
\* shown once each, in the order of the listing, from its first one on, and all
\* of them when the list ends; no video that was first seen later joins.
ShownAsListed ==
    LET items == shown.items
        there == shown.stable \cap Range(items)
    IN /\ IsInjective(items)
       /\ ~shown.mixed =>
            /\ \A m, n \in DOMAIN items : m < n /\ {items[m], items[n]} \subseteq there
                                           => Before(shown.listing, items[m], items[n])
            /\ \A i \in shown.stable \ there, j \in there : ~Before(shown.listing, i, j)
            /\ shown.next = End => shown.stable \subseteq there
            /\ BySnapshot => \A i \in Range(items) : rows[i].seen <= shown.since

\* Whatever overtakes what, a list with cursors goes on where it left off in its
\* own listing, holds that listing's rows only, and the comments shown are those
\* of the order the user chose last.
OneListing ==
    /\ ~ByOffset => /\ shown.next.of \in {shown.listing, "end"}
                    /\ Range(shown.items) \subseteq Member(shown.listing)
    /\ Guarded => shown.listing = listing

\* A list that is scrolled through ends, or shows an error: no answer that comes
\* late, is dropped or aborted leaves it loading for ever.
EveryListSettles ==
    <>[](failed \/ (Displayed /\ shown.next = End /\ ~loading))

\* What the plan asks of paging, of the list of a source: no video is left out
\* (docs/DATABASE_PERFORMANCE_OPTIMIZATION_PLAN.md, 6.1).
NothingMissed ==
    shown.next = End /\ shown.session # 0 => shown.stable \subseteq Range(shown.items)
==============================================================================
