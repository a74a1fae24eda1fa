----------------------------- MODULE AdminPage -----------------------------
(***************************************************************************)
(* The admin page (MyAdminHandler with Pagination): an administrator walks *)
(* through the list of users by the arrow at its foot while users come and *)
(* go and start and stop their servers.  The links carry the page only:    *)
(* sort, order and page size of the address are those of one request.      *)
(***************************************************************************)
EXTENDS Pagination, FiniteSets

CONSTANTS
    User,            \* users by the order of their names: a set of numbers
    Admin,           \* those who are administrators
    Stayer,          \* bound: users who neither come nor go
    Starter,         \* bound: users who start and stop servers
    DefaultPerPage, MaxPerPage,
    Request          \* requests: page, perPage (0: missing or refused), sort, order

ASSUME AdminPageAssumption ==
    /\ User \subseteq Nat /\ IsFiniteSet(User) /\ Admin \subseteq User
    /\ Stayer \subseteq User /\ Starter \subseteq User
    /\ DefaultPerPage \in Nat \ {0} /\ MaxPerPage \in Nat \ {0}
    /\ Request \subseteq [page : Nat, perPage : Nat, sort : Seq(STRING), order : Seq(STRING)]

VARIABLES
    listed,    \* the users in the database
    running,   \* those with a server
    page,      \* what the administrator sees; empty before and after an error
    walk       \* history: the users seen by following the arrow

adminVars == <<listed, running, page, walk>>

Columns == {"name", "admin", "running"}
Directions == {"asc", "desc"}
DefaultSort == <<"admin", "name">>
DefaultOrder == [name |-> "asc", admin |-> "desc", running |-> "desc"]

\* Mutated form of PageArgs: a page below one is not looked for.
PageArgsBelowOne(r) ==
    [number |-> r.page,
     perPage |-> AtMost(IF r.perPage = 0 THEN DefaultPerPage ELSE r.perPage, MaxPerPage)]

\* get_page_args: a page that is missing, no number or below one is the first, a
\* size that is missing or no number the default (one below one is made one, the
\* least size of Request); the validator cuts every size, the default too.
PageArgs(r) ==
    [number |-> IF r.page = 0 THEN 1 ELSE r.page,
     perPage |-> AtMost(IF r.perPage = 0 THEN DefaultPerPage ELSE r.perPage, MaxPerPage)]

In(seq) == {seq[i] : i \in DOMAIN seq}

\* sorts.remove(bad), for each bad value once: the first of its occurrences goes.
Purged(seq, good) ==
    LET kept == {i \in DOMAIN seq : seq[i] \in good \/ \E j \in 1..(i - 1) : seq[j] = seq[i]}
        Nth(k) == CHOOSE i \in kept : Cardinality({j \in kept : j <= i}) = k
    IN  [k \in 1..Cardinality(kept) |-> seq[Nth(k)]]

\* The columns of DefaultSort come last, unless they were asked for.
Sorts(r) ==
    LET asked == Purged(IF r.sort = <<>> THEN DefaultSort ELSE r.sort, Columns)
        Unless(s) == IF s \in In(asked) THEN <<>> ELSE <<s>>
    IN  asked \o Unless(DefaultSort[1]) \o Unless(DefaultSort[2])

\* Several columns, and an order for each; what is too much is cut.
Orders(r, sorts) ==
    LET asked == Purged(r.order, Directions)
    IN  [i \in DOMAIN sorts |-> IF i <= Len(asked) THEN asked[i] ELSE DefaultOrder[sorts[i]]]

\* A bad value that was given twice is still there: the page is an error.
Fails(r) ==
    LET sorts == Sorts(r)
    IN  \/ In(sorts) \ Columns # {}
        \/ In(Orders(r, sorts)) \ Directions # {}

\* The code orders running by Spawner.server_id, an id or NULL: here the users
\* with a server are equal among themselves, and no property tells them apart.
Key(u, column) ==
    CASE column = "name" -> u
      [] column = "admin" -> IF u \in Admin THEN 1 ELSE 0
      [] column = "running" -> IF u \in running THEN 1 ELSE 0

\* order_by: the first column in which they differ decides.
Before(u, v, sorts, orders) ==
    \E i \in DOMAIN sorts :
        /\ \A j \in 1..(i - 1) : Key(u, sorts[j]) = Key(v, sorts[j])
        /\ IF orders[i] = "asc" THEN Key(u, sorts[i]) < Key(v, sorts[i])
                                ELSE Key(u, sorts[i]) > Key(v, sorts[i])

\* The users at the places that offset and limit select.
Shown(r) ==
    LET sorts == Sorts(r)
        orders == Orders(r, sorts)
        args == PageArgs(r)
        Place(u) == 1 + Cardinality({v \in listed : Before(v, u, sorts, orders)})
    IN  {u \in listed : Place(u) \in Slice(args.number, args.perPage, Cardinality(listed))}

Plain(r) == r.sort = <<>> /\ r.order = <<>> /\ r.perPage = 0

\* The page as it is rendered.
Rendered(r) ==
    LET args == PageArgs(r)
        total == Cardinality(listed)
        last == TotalPages(total, args.perPage)
    IN  [number |-> args.number, last |-> last, shown |-> Shown(r),
         info |-> Info(args.number, args.perPage, total)]

Bar == Links(page[1].number, page[1].last)

NoWalk == [seen |-> {}, twice |-> {}, plain |-> FALSE, intact |-> FALSE]

AdminInit ==
    /\ \E comers \in SUBSET (User \ Stayer) : listed = Stayer \cup comers
    /\ listed # {} /\ running = {}
    /\ page = <<>>
    /\ walk = NoWalk

\* MyAdminHandler.get, for an address that was typed or sorted by.
Open(r) ==
    /\ page' = IF Fails(r) THEN <<>> ELSE <<Rendered(r)>>
    /\ walk' = IF Fails(r) \/ PageArgs(r).number # 1 THEN NoWalk
               ELSE [seen |-> Shown(r), twice |-> {}, plain |-> Plain(r), intact |-> TRUE]
    /\ UNCHANGED <<listed, running>>

Link(p) == [page |-> p, perPage |-> 0, sort |-> <<>>, order |-> <<>>]

\* The arrow: the walk goes on.
Follow ==
    /\ page # <<>> /\ Forward(page[1].number, page[1].last)
    /\ LET r == Link(page[1].number + 1)
       IN  /\ page' = <<Rendered(r)>>
           /\ walk' = [walk EXCEPT !.seen = @ \cup Shown(r),
                                   !.twice = @ \cup (walk.seen \cap Shown(r))]
    /\ UNCHANGED <<listed, running>>

\* Any other link.
Jump(p) ==
    /\ page # <<>> /\ p \in Bar
    /\ page' = <<Rendered(Link(p))>>
    /\ walk' = NoWalk
    /\ UNCHANGED <<listed, running>>

Changed == [walk EXCEPT !.intact = FALSE]

Join(u) ==
    /\ u \notin listed
    /\ listed' = listed \cup {u}
    /\ walk' = Changed
    /\ UNCHANGED <<running, page>>

Leave(u) ==
    /\ u \in listed /\ listed # {u}
    /\ listed' = listed \ {u} /\ running' = running \ {u}
    /\ walk' = Changed
    /\ UNCHANGED page

\* A server starts or stops; a walk in the default order does not mind.
Toggle(u) ==
    /\ u \in listed
    /\ running' = IF u \in running THEN running \ {u} ELSE running \cup {u}
    /\ UNCHANGED <<listed, page, walk>>

AdminNext ==
    \/ \E r \in Request : Open(r)
    \/ Follow
    \/ page # <<>> /\ \E p \in Bar : Jump(p)
    \/ \E u \in User \ Stayer : Join(u) \/ Leave(u)
    \/ \E u \in Starter : Toggle(u)

AdminSpec == AdminInit /\ [][AdminNext]_adminVars

-----------------------------------------------------------------------------
(* Properties.                                                             *)

AdminTypeOK ==
    /\ listed \subseteq User /\ running \subseteq listed
    /\ page = <<>> \/ /\ page[1].shown \subseteq User
                      /\ page[1].number \in Nat \ {0}
    /\ walk.seen \subseteq User /\ walk.twice \subseteq walk.seen
    /\ walk.plain \in BOOLEAN /\ walk.intact \in BOOLEAN

AtEnd == page # <<>> /\ ~Forward(page[1].number, page[1].last)

\* An administrator who follows the arrow from the first page to the last has
\* seen every user, and none twice, whatever servers start and stop meanwhile:
\* unless users came or went, or the first page had a sort or size of its own,
\* which the links of the page do not carry on.
WalkSeesEveryone ==
    AtEnd /\ walk.plain /\ walk.intact => walk.seen = listed /\ walk.twice = {}

\* From a page with users every link leads to one with users, while nobody
\* leaves and the page has the default size: the links are made for that size.
LinksLeadToUsers ==
    walk.plain /\ walk.intact /\ page # <<>> =>
        \A p \in Bar : Shown(Link(p)) # {}

\* The line below the list names the places it shows, and the bar has the pages
\* that before_page and after_page of calculate_pages_window stand for (IsWindow),
\* for every size of page and of list.  The docstring of that method promises
\* another bar, which the code does not make.
PageSaysWhatItShows ==
    page # <<>> /\ page[1].number <= page[1].last =>
        /\ page[1].info.end - page[1].info.start + 1 = Cardinality(page[1].shown)
        /\ IsWindow(Window(page[1].number, page[1].last), page[1].number, page[1].last)
=============================================================================
