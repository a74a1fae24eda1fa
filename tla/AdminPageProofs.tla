-------------------------- MODULE AdminPageProofs ---------------------------
(***************************************************************************)
(* The admin page, for every number of users and of users on a page, and   *)
(* for every request: the invariant of the page and of a reader who walks  *)
(* through it by its links, and the properties that follow from it.        *)
(***************************************************************************)
EXTENDS AdminPage, PaginationProofs, FunctionTheorems

-----------------------------------------------------------------------------
(* Ranks in an order.                                                      *)

\* A strict order in which any two compare.
IsStrictOrder(R, S) ==
    /\ \A u \in S : <<u, u>> \notin R
    /\ \A u, v, w \in S : <<u, v>> \in R /\ <<v, w>> \in R => <<u, w>> \in R
    /\ \A u, v \in S : u # v => <<u, v>> \in R \/ <<v, u>> \in R

\* How many come before u, and u itself.
Rank(u, R, S) == 1 + Cardinality({v \in S : <<v, u>> \in R})

\* Who comes before has the smaller rank.
LEMMA RankGrows ==
    ASSUME NEW S, NEW R, IsFiniteSet(S), IsStrictOrder(R, S),
           NEW u \in S, NEW v \in S, <<u, v>> \in R
    PROVE  /\ Rank(u, R, S) \in Nat /\ Rank(v, R, S) \in Nat
           /\ Rank(u, R, S) < Rank(v, R, S)
<1> DEFINE B(w) == {x \in S : <<x, w>> \in R}
<1>1. \A w : IsFiniteSet(B(w)) /\ Cardinality(B(w)) \in Nat
  <2> TAKE w
  <2>1. B(w) \in SUBSET S
    OBVIOUS
  <2> HIDE DEF B
  <2> QED
    BY <2>1, FS_Subset, FS_CardinalityType
<1>2. u \notin B(u) /\ B(u) \cup {u} \in SUBSET B(v)
  BY DEF IsStrictOrder
<1>3. Rank(u, R, S) = 1 + Cardinality(B(u)) /\ Rank(v, R, S) = 1 + Cardinality(B(v))
  BY DEF Rank
<1> HIDE DEF B
<1>4. Cardinality(B(u) \cup {u}) = Cardinality(B(u)) + 1
  BY <1>1, <1>2, FS_AddElement
<1>5. Cardinality(B(u) \cup {u}) <= Cardinality(B(v))
  BY <1>1, <1>2, FS_Subset
<1> QED
  BY <1>1, <1>3, <1>4, <1>5

\* The ranks of a finite set are the numbers from 1 to its size, each once.
LEMMA RanksAreAll ==
    ASSUME NEW S, NEW R, IsFiniteSet(S), IsStrictOrder(R, S)
    PROVE  [u \in S |-> Rank(u, R, S)] \in Bijection(S, 1..Cardinality(S))
<1> DEFINE f == [u \in S |-> Rank(u, R, S)]
           n == Cardinality(S)
<1>1. n \in Nat
  BY FS_CardinalityType
<1>2. ASSUME NEW u \in S PROVE Rank(u, R, S) \in 1..n
  <2> DEFINE B == {x \in S : <<x, u>> \in R}
  <2>1. B \in SUBSET S /\ u \notin B /\ B \cup {u} \in SUBSET S
    BY DEF IsStrictOrder
  <2>2. Rank(u, R, S) = 1 + Cardinality(B)
    BY DEF Rank
  <2> HIDE DEF B
  <2>3. IsFiniteSet(B) /\ Cardinality(B) \in Nat
    BY <2>1, FS_Subset, FS_CardinalityType
  <2>4. Cardinality(B \cup {u}) = Cardinality(B) + 1
    BY <2>1, <2>3, FS_AddElement
  <2>5. Cardinality(B \cup {u}) <= n
    BY <2>1, FS_Subset
  <2> QED
    BY <1>1, <2>2, <2>3, <2>4, <2>5
<1>3. f \in [S -> 1..n]
  BY <1>2
<1>4. ASSUME NEW u \in S, NEW v \in S, f[u] = f[v] PROVE u = v
  <2>1. f[u] = Rank(u, R, S) /\ f[v] = Rank(v, R, S)
    OBVIOUS
  <2>2. CASE <<u, v>> \in R
    BY <1>4, <2>1, <2>2, RankGrows
  <2>3. CASE <<v, u>> \in R
    BY <1>4, <2>1, <2>3, RankGrows
  <2> QED
    BY <2>2, <2>3 DEF IsStrictOrder
<1> HIDE DEF f
<1>5. f \in Injection(S, 1..n)
  BY <1>3, <1>4, Fun_IsInj
<1>6. IsFiniteSet(1..n) /\ Cardinality(1..n) = n
  BY <1>1, FS_Interval
<1>7. f \in Surjection(S, 1..n)
  BY <1>5, <1>6, FS_Injection DEF n
<1>8. f \in Bijection(S, 1..n)
  BY <1>5, <1>7, Fun_IsBij
<1> QED
  BY <1>8 DEF f, n

\* Those whose rank is in a set of numbers.
Ranked(I, R, S) == {u \in S : Rank(u, R, S) \in I}

\* As many have their rank in a set of numbers as there are numbers in it.
LEMMA RanksOfSlice ==
    ASSUME NEW S, NEW R, IsFiniteSet(S), IsStrictOrder(R, S),
           NEW I \in SUBSET (1..Cardinality(S))
    PROVE  IsFiniteSet(Ranked(I, R, S)) /\ Cardinality(Ranked(I, R, S)) = Cardinality(I)
<1> DEFINE f == [u \in S |-> Rank(u, R, S)]
           P == {u \in S : Rank(u, R, S) \in I}
           g == [u \in P |-> f[u]]
<1>1. /\ f \in [S -> 1..Cardinality(S)]
      /\ \A a, b \in S : f[a] = f[b] => a = b
      /\ \A t \in 1..Cardinality(S) : \E s \in S : f[s] = t
  <2>1. f \in Bijection(S, 1..Cardinality(S))
    BY RanksAreAll
  <2> HIDE DEF f
  <2>2. f \in Injection(S, 1..Cardinality(S)) /\ f \in Surjection(S, 1..Cardinality(S))
    BY <2>1 DEF Bijection
  <2> QED
    BY <2>2 DEF Injection, Surjection, IsInjective
<1>2. P \in SUBSET S
  OBVIOUS
<1>3. g \in [P -> I] /\ \A a, b \in P : g[a] = g[b] => a = b
  BY <1>1
<1>4. \A t \in I : \E s \in P : g[s] = t
  BY <1>1
<1> HIDE DEF P, g, f
<1>5. g \in Bijection(P, I)
  BY <1>3, <1>4, Fun_IsBij
<1>6. IsFiniteSet(P)
  BY <1>2, FS_Subset
<1>7. Cardinality(P) = Cardinality(I)
  BY <1>5, <1>6, FS_Bijection DEF ExistsBijection
<1> QED
  BY <1>6, <1>7 DEF P, Ranked

-----------------------------------------------------------------------------
(* Sequences without the bad values.                                       *)

\* Nothing is taken from a sequence that has good values only.
LEMMA GoodIsKept ==
    ASSUME NEW good, NEW seq \in Seq(good)
    PROVE  Purged(seq, good) = seq
<1> DEFINE kept == {i \in DOMAIN seq : seq[i] \in good \/ \E j \in 1..(i - 1) : seq[j] = seq[i]}
           Nth(k) == CHOOSE i \in kept : Cardinality({j \in kept : j <= i}) = k
<1>1. PICK n \in Nat : n = Len(seq)
  BY LenProperties
<1>2. DOMAIN seq = 1..n /\ \A i \in 1..n : seq[i] \in good
  BY <1>1, LenProperties, ElementOfSeq
<1>3. kept = 1..n
  BY <1>2
<1>4. Purged(seq, good) = [k \in 1..Cardinality(kept) |-> seq[Nth(k)]]
  BY Zenon DEF Purged
<1> HIDE DEF kept
<1>5. ASSUME NEW i \in 1..n PROVE Cardinality({j \in kept : j <= i}) = i
  <2>1. {j \in kept : j <= i} = 1..i
    BY <1>3
  <2>2. Cardinality(1..i) = i
    BY FS_Interval
  <2> QED
    BY <2>1, <2>2
<1>6. ASSUME NEW k \in 1..n PROVE Nth(k) = k
  <2>1. k \in kept /\ Cardinality({j \in kept : j <= k}) = k
    BY <1>3, <1>5
  <2>2. Nth(k) \in kept /\ Cardinality({j \in kept : j <= Nth(k)}) = k
    BY <2>1
  <2> HIDE DEF Nth
  <2> QED
    BY <1>3, <1>5, <2>2
<1> HIDE DEF Nth
<1>7. Cardinality(kept) = n
  BY <1>3, FS_Interval
<1>8. [k \in 1..n |-> seq[Nth(k)]] = [k \in 1..n |-> seq[k]]
  BY <1>6
<1>9. seq = [k \in 1..n |-> seq[k]]
  BY <1>2, LenProperties
<1> QED
  BY <1>4, <1>7, <1>8, <1>9

\* What is left of a sequence is a sequence.
LEMMA PurgedIsSequence ==
    ASSUME NEW good, NEW T, NEW seq \in Seq(T)
    PROVE  Purged(seq, good) \in Seq(In(Purged(seq, good)))
<1> DEFINE kept == {i \in DOMAIN seq : seq[i] \in good \/ \E j \in 1..(i - 1) : seq[j] = seq[i]}
           Nth(k) == CHOOSE i \in kept : Cardinality({j \in kept : j <= i}) = k
           purged == Purged(seq, good)
<1>1. IsFiniteSet(DOMAIN seq)
  BY LenProperties, FS_Interval
<1>2. kept \in SUBSET DOMAIN seq
  OBVIOUS
<1>3. purged = [k \in 1..Cardinality(kept) |-> seq[Nth(k)]]
  BY Zenon DEF Purged
<1> HIDE DEF kept, Nth, purged
<1>4. Cardinality(kept) \in Nat
  BY <1>1, <1>2, FS_Subset, FS_CardinalityType
<1>5. DOMAIN purged = 1..Cardinality(kept) /\ \A i \in DOMAIN purged : purged[i] \in In(purged)
  BY <1>3 DEF In
<1>6. purged \in [1..Cardinality(kept) -> In(purged)]
  BY <1>3, <1>5
<1> QED
  BY <1>4, <1>6 DEF purged

\* What two sequences have, one after the other.
LEMMA InBoth ==
    ASSUME NEW S, NEW s \in Seq(S), NEW t \in Seq(S)
    PROVE  In(s \o t) = In(s) \cup In(t)
<1>1. /\ Len(s) \in Nat /\ DOMAIN s = 1..Len(s)
      /\ Len(t) \in Nat /\ DOMAIN t = 1..Len(t)
  BY LenProperties
<1>2. DOMAIN (s \o t) = 1..(Len(s) + Len(t))
  BY ConcatProperties, LenProperties
<1>3. \A i \in 1..(Len(s) + Len(t)) : (s \o t)[i] = IF i <= Len(s) THEN s[i] ELSE t[i - Len(s)]
  BY ConcatProperties
<1>4. ASSUME NEW x \in In(s) \cup In(t) PROVE x \in In(s \o t)
  <2>1. CASE x \in In(s)
    <3>1. PICK i \in 1..Len(s) : x = s[i]
      BY <1>1, <2>1 DEF In
    <3>2. i \in 1..(Len(s) + Len(t)) /\ (s \o t)[i] = x
      BY <1>1, <1>3, <3>1
    <3> QED
      BY <1>2, <3>2 DEF In
  <2>2. CASE x \in In(t)
    <3>1. PICK i \in 1..Len(t) : x = t[i]
      BY <1>1, <2>2 DEF In
    <3>2. Len(s) + i \in 1..(Len(s) + Len(t)) /\ (s \o t)[Len(s) + i] = x
      BY <1>1, <1>3, <3>1
    <3> QED
      BY <1>2, <3>2 DEF In
  <2> QED
    BY <1>4, <2>1, <2>2
<1>5. ASSUME NEW x \in In(s \o t) PROVE x \in In(s) \cup In(t)
  <2>1. PICK i \in 1..(Len(s) + Len(t)) : x = (s \o t)[i]
    BY <1>2, <1>5 DEF In
  <2>2. x = IF i <= Len(s) THEN s[i] ELSE t[i - Len(s)]
    BY <1>3, <2>1
  <2> QED
    BY <1>1, <2>1, <2>2 DEF In
<1> QED
  BY <1>4, <1>5

-----------------------------------------------------------------------------
(* The order of the users.                                                 *)

\* What the columns compare are numbers.
LEMMA KeyIsNumber ==
    ASSUME NEW u \in Nat, NEW column \in Columns
    PROVE  Key(u, column) \in Nat
BY DEF Key, Columns

\* Those who come before, as pairs.
Order(sorts, orders) ==
    {p \in listed \X listed : Before(p[1], p[2], sorts, orders)}

\* With the name among the columns no two users are at one place.
LEMMA BeforeIsOrder ==
    ASSUME NEW sorts, NEW orders, NEW n \in Nat, DOMAIN sorts = 1..n,
           In(sorts) \subseteq Columns, "name" \in In(sorts), listed \subseteq Nat
    PROVE  IsStrictOrder(Order(sorts, orders), listed)
<1> DEFINE Less(i, u, v) == IF orders[i] = "asc" THEN Key(u, sorts[i]) < Key(v, sorts[i])
                                                 ELSE Key(u, sorts[i]) > Key(v, sorts[i])
           Same(i, u, v) == \A j \in 1..(i - 1) : Key(u, sorts[j]) = Key(v, sorts[j])
<1>1. \A u, v : Before(u, v, sorts, orders) <=> \E i \in 1..n : Same(i, u, v) /\ Less(i, u, v)
  BY Zenon DEF Before
<1>2. \A i \in 1..n, u \in listed : Key(u, sorts[i]) \in Nat
  BY KeyIsNumber DEF In
<1>3. ASSUME NEW u \in listed PROVE ~Before(u, u, sorts, orders)
  BY <1>1, <1>2, <1>3
<1>4. ASSUME NEW u \in listed, NEW v \in listed, NEW w \in listed,
             Before(u, v, sorts, orders), Before(v, w, sorts, orders)
      PROVE  Before(u, w, sorts, orders)
  <2>1. PICK i \in 1..n : Same(i, u, v) /\ Less(i, u, v)
    BY <1>1, <1>4
  <2>2. PICK j \in 1..n : Same(j, v, w) /\ Less(j, v, w)
    BY <1>1, <1>4
  <2>3. /\ \A k \in 1..n : /\ Key(u, sorts[k]) \in Nat /\ Key(v, sorts[k]) \in Nat
                           /\ Key(w, sorts[k]) \in Nat
    BY <1>2, <1>4
  <2>4. CASE i <= j
    <3>1. Same(i, u, w)
      BY <2>1, <2>2, <2>4
    <3>2. Key(v, sorts[i]) = Key(w, sorts[i]) \/ i = j
      BY <2>1, <2>2, <2>4
    <3>3. Less(i, u, w)
      BY <2>1, <2>2, <2>3, <3>2
    <3> QED
      BY <1>1, <3>1, <3>3
  <2>5. CASE j < i
    <3>1. Same(j, u, w)
      BY <2>1, <2>2, <2>5
    <3>2. Key(u, sorts[j]) = Key(v, sorts[j])
      BY <2>1, <2>2, <2>5
    <3>3. Less(j, u, w)
      BY <2>2, <2>3, <3>2
    <3> QED
      BY <1>1, <3>1, <3>3
  <2> QED
    BY <2>4, <2>5
<1>5. ASSUME NEW u \in listed, NEW v \in listed, u # v
      PROVE  Before(u, v, sorts, orders) \/ Before(v, u, sorts, orders)
  <2> DEFINE T == {i \in 1..n : Key(u, sorts[i]) # Key(v, sorts[i])}
  <2>1. T \in SUBSET Nat
    OBVIOUS
  <2>2. T # {}
    <3>1. PICK i \in 1..n : sorts[i] = "name"
      BY DEF In
    <3>2. Key(u, sorts[i]) = u /\ Key(v, sorts[i]) = v
      BY <3>1 DEF Key
    <3> QED
      BY <1>5, <3>1, <3>2
  <2>3. PICK k \in T : \A j \in T : k <= j
    <3> HIDE DEF T
    <3> QED
      BY <2>1, <2>2, LeastNumber
  <2>4. Same(k, u, v) /\ Same(k, v, u)
    BY <2>3
  <2>5. Key(u, sorts[k]) \in Nat /\ Key(v, sorts[k]) \in Nat
    BY <1>2, <1>5
  <2>6. Less(k, u, v) \/ Less(k, v, u)
    BY <2>5
  <2> QED
    BY <1>1, <2>4, <2>6
<1>6. \A u, v \in listed : <<u, v>> \in Order(sorts, orders) <=> Before(u, v, sorts, orders)
  BY DEF Order
<1> QED
  BY <1>3, <1>4, <1>5, <1>6 DEF IsStrictOrder

\* The columns of a request, with the name always among them.
LEMMA SortsAre ==
    ASSUME NEW r, NEW T, r.sort \in Seq(T)
    PROVE  /\ \E n \in Nat : DOMAIN Sorts(r) = 1..n
           /\ "name" \in In(Sorts(r))
           /\ r.sort = <<>> => Sorts(r) = <<"admin", "name">>
<1> DEFINE seq == IF r.sort = <<>> THEN DefaultSort ELSE r.sort
           asked == Purged(seq, Columns)
           Unless(s) == IF s \in In(asked) THEN <<>> ELSE <<s>>
           a == Unless("admin")
           b == Unless("name")
           S == In(asked) \cup {"admin", "name"}
<1>1. Sorts(r) = (asked \o a) \o b
  <2>1. DefaultSort[1] = "admin" /\ DefaultSort[2] = "name"
    BY DEF DefaultSort
  <2> HIDE DEF asked
  <2>2. Sorts(r) = (asked \o Unless(DefaultSort[1])) \o Unless(DefaultSort[2])
    BY Zenon DEF Sorts, asked
  <2> QED
    BY <2>1, <2>2
<1>2. asked \in Seq(S)
  <2>1. seq \in Seq(T \cup {"admin", "name"})
    <3>1. <<"admin", "name">> \in Seq(T \cup {"admin", "name"})
      OBVIOUS
    <3>2. r.sort \in Seq(T \cup {"admin", "name"})
      BY SeqMonotonic
    <3> QED
      BY <3>1, <3>2 DEF DefaultSort
  <2> HIDE DEF seq
  <2> QED
    BY <2>1, PurgedIsSequence, SeqMonotonic
<1>3. a \in Seq(S) /\ b \in Seq(S) /\ "name" \in In(asked) \cup In(b)
  <2> HIDE DEF asked
  <2>1. <<"admin">> \in Seq(S) /\ <<"name">> \in Seq(S) /\ <<>> \in Seq(S)
    OBVIOUS
  <2>2. In(<<"name">>) = {"name"}
    BY DEF In
  <2> HIDE DEF S
  <2> QED
    BY <2>1, <2>2
<1>4. CASE r.sort = <<>>
  <2>1. seq = <<"admin", "name">> /\ seq \in Seq(Columns)
    BY <1>4 DEF DefaultSort, Columns
  <2>2. asked = seq
    <3> HIDE DEF seq
    <3> QED
      BY <2>1, GoodIsKept
  <2>3. "admin" \in In(asked) /\ "name" \in In(asked)
    <3>1. In(<<"admin", "name">>) = {"admin", "name"}
      BY DEF In
    <3> QED
      BY <2>1, <2>2, <3>1
  <2>4. Sorts(r) = (asked \o <<>>) \o <<>>
    BY <1>1, <2>3
  <2> HIDE DEF asked, seq, S
  <2>5. (asked \o <<>>) \o <<>> = asked
    BY <1>2, ConcatEmptySeq
  <2>6. Sorts(r) = <<"admin", "name">>
    BY <2>1, <2>2, <2>4, <2>5
  <2>7. DOMAIN <<"admin", "name">> = 1..2 /\ "name" \in In(<<"admin", "name">>)
    BY DEF In
  <2> QED
    BY <2>6, <2>7
<1> HIDE DEF asked, a, b, S
<1>5. asked \o a \in Seq(S) /\ (asked \o a) \o b \in Seq(S)
  BY <1>2, <1>3, ConcatProperties
<1>6. In((asked \o a) \o b) = (In(asked) \cup In(a)) \cup In(b)
  <2>1. In(asked \o a) = In(asked) \cup In(a)
    BY <1>2, <1>3, InBoth
  <2>2. In((asked \o a) \o b) = In(asked \o a) \cup In(b)
    BY <1>3, <1>5, InBoth
  <2> QED
    BY <2>1, <2>2
<1>7. \E n \in Nat : DOMAIN ((asked \o a) \o b) = 1..n
  BY <1>5, LenProperties
<1> QED
  BY <1>1, <1>3, <1>4, <1>6, <1>7

\* The orders of a request without any.
LEMMA PlainOrders ==
    ASSUME NEW r, r.order = <<>>
    PROVE  Orders(r, <<"admin", "name">>) = <<"desc", "asc">>
<1>1. Purged(<<>>, Directions) = <<>>
  <2>1. <<>> \in Seq(Directions)
    OBVIOUS
  <2> QED
    BY <2>1, GoodIsKept
<1>2. Orders(r, <<"admin", "name">>) =
         [i \in 1..2 |-> DefaultOrder[<<"admin", "name">>[i]]]
  BY <1>1 DEF Orders
<1> QED
  BY <1>2 DEF DefaultOrder

-----------------------------------------------------------------------------
(* The invariant.                                                          *)

\* A request as an address has it.
IsRequest(r) == r \in [page : Nat, perPage : Nat, sort : Seq(STRING), order : Seq(STRING)]

\* The order of a page without a sort of its own: administrators first, by name.
PlainBefore(u, v) ==
    \/ u \in Admin /\ v \notin Admin
    \/ (u \in Admin <=> v \in Admin) /\ u < v

\* The place of a user in that order.
PlainPlace(u) == 1 + Cardinality({v \in listed : PlainBefore(v, u)})

\* A page of a link has the default size, or the maximum when that is less.
DefaultSize == AtMost(DefaultPerPage, MaxPerPage)

\* The walk so far, from the first page and in one order.
WalkSoFar ==
    LET last == TotalPages(Cardinality(listed), DefaultSize)
        number == page[1].number
    IN  /\ page[1].last = last /\ number \in 1..last
        /\ walk.seen = {u \in listed : PlainPlace(u) <= DefaultSize * number}
        /\ walk.twice = {}

\* The page as it was when it was rendered.
PageOK ==
    /\ page[1].number \in Nat \ {0} /\ page[1].last \in Nat
    /\ page[1].shown \subseteq User
    /\ page[1].number <= page[1].last =>
          /\ page[1].info.end - page[1].info.start + 1 = Cardinality(page[1].shown)
          /\ IsWindow(Window(page[1].number, page[1].last), page[1].number, page[1].last)

\* The inductive invariant: what is listed are users, the page is what its
\* request asked for, and the walk has seen the places of its pages.
AdminInv ==
    /\ listed \subseteq User /\ listed # {} /\ running \subseteq listed
    /\ walk \in [seen : SUBSET User, twice : SUBSET User, plain : BOOLEAN, intact : BOOLEAN]
    /\ walk.twice \subseteq walk.seen
    /\ page # <<>> => PageOK
    /\ page # <<>> /\ walk.plain /\ walk.intact => WalkSoFar

-----------------------------------------------------------------------------

\* The columns of a request that does not fail put the users in one order.
LEMMA RequestsOrder ==
    ASSUME NEW r, IsRequest(r), ~Fails(r), listed \subseteq Nat
    PROVE  IsStrictOrder(Order(Sorts(r), Orders(r, Sorts(r))), listed)
<1> DEFINE sorts == Sorts(r)
           orders == Orders(r, sorts)
<1>1. r.sort \in Seq(STRING)
  BY DEF IsRequest
<1>2. PICK n \in Nat : DOMAIN sorts = 1..n
  BY <1>1, SortsAre
<1>3. "name" \in In(sorts)
  BY <1>1, SortsAre
<1>4. In(sorts) \subseteq Columns
  <2>1. ~(In(sorts) \ Columns # {})
    BY Zenon DEF Fails
  <2> QED
    BY <2>1
<1> HIDE DEF sorts, orders
<1>5. IsStrictOrder(Order(sorts, orders), listed)
  BY <1>2, <1>3, <1>4, BeforeIsOrder
<1> QED
  BY <1>5 DEF sorts, orders

\* The size of a page that nobody asked another size for.
LEMMA DefaultIsSize ==
    ASSUME AdminPageAssumption
    PROVE  DefaultSize \in Nat \ {0}
  BY DEF AdminPageAssumption, DefaultSize, AtMost

\* A request of an address is what the handler reads from it.
LEMMA ArgsAre ==
    ASSUME AdminPageAssumption, NEW r, IsRequest(r)
    PROVE  /\ PageArgs(r).number \in Nat \ {0} /\ PageArgs(r).perPage \in Nat \ {0}
           /\ r.page # 0 => PageArgs(r).number = r.page
           /\ r.page = 0 => PageArgs(r).number = 1
           /\ r.perPage = 0 => PageArgs(r).perPage = DefaultSize
<1>1. r.page \in Nat /\ r.perPage \in Nat
  BY DEF IsRequest
<1>2. DefaultPerPage \in Nat \ {0} /\ MaxPerPage \in Nat \ {0}
  BY DEF AdminPageAssumption
<1> QED
  BY <1>1, <1>2 DEF PageArgs, AtMost, DefaultSize

\* The shown users are those whose rank is in the slice.
LEMMA ShownByRank ==
    ASSUME NEW r
    PROVE  Shown(r) = Ranked(Slice(PageArgs(r).number, PageArgs(r).perPage, Cardinality(listed)),
                             Order(Sorts(r), Orders(r, Sorts(r))), listed)
<1> DEFINE sorts == Sorts(r)
           orders == Orders(r, sorts)
           args == PageArgs(r)
           Place(u) == 1 + Cardinality({v \in listed : Before(v, u, sorts, orders)})
<1>1. Shown(r) = {u \in listed : Place(u) \in Slice(args.number, args.perPage, Cardinality(listed))}
  BY Zenon DEF Shown
<1> HIDE DEF sorts, orders, args
<1>2. ASSUME NEW u \in listed PROVE Place(u) = Rank(u, Order(sorts, orders), listed)
  <2>1. {v \in listed : Before(v, u, sorts, orders)}
           = {v \in listed : <<v, u>> \in Order(sorts, orders)}
    BY DEF Order
  <2> QED
    BY <2>1, Zenon DEF Rank
<1> HIDE DEF Place
<1>3. Shown(r) = {u \in listed : Rank(u, Order(sorts, orders), listed)
                     \in Slice(args.number, args.perPage, Cardinality(listed))}
  BY <1>1, <1>2
<1> QED
  BY <1>3 DEF sorts, orders, args, Ranked

\* On one of its pages the page shows as many users as its line says, and the
\* right pages in the bar.
LEMMA RenderedIsRight ==
    ASSUME AdminPageAssumption, listed \subseteq User, NEW r, IsRequest(r), ~Fails(r)
    PROVE  LET p == Rendered(r)
           IN  /\ p.number \in Nat \ {0} /\ p.last \in Nat /\ p.shown \subseteq User
               /\ p.number <= p.last =>
                     /\ p.info.end - p.info.start + 1 = Cardinality(p.shown)
                     /\ IsWindow(Window(p.number, p.last), p.number, p.last)
<1> DEFINE total == Cardinality(listed)
           page1 == PageArgs(r).number
           size == PageArgs(r).perPage
           last == TotalPages(total, size)
           R == Order(Sorts(r), Orders(r, Sorts(r)))
<1>1. listed \subseteq Nat /\ IsFiniteSet(listed) /\ total \in Nat
  BY FS_Subset, FS_CardinalityType DEF AdminPageAssumption
<1>2. page1 \in Nat \ {0} /\ size \in Nat \ {0}
  BY ArgsAre
<1>3. IsStrictOrder(R, listed)
  BY <1>1, RequestsOrder
<1>4. Shown(r) = Ranked(Slice(page1, size, total), R, listed)
  BY ShownByRank
<1>5. /\ Rendered(r).number = page1 /\ Rendered(r).last = last
      /\ Rendered(r).shown = Shown(r) /\ Rendered(r).info = Info(page1, size, total)
  BY DEF Rendered
<1> HIDE DEF page1, size, R
<1>6. last \in Nat
  BY <1>1, <1>2, LastPage
<1>7. Shown(r) \subseteq User
  BY <1>4 DEF Ranked
<1>8. ASSUME page1 <= last
      PROVE  /\ Info(page1, size, total).end - Info(page1, size, total).start + 1
                   = Cardinality(Shown(r))
             /\ IsWindow(Window(page1, last), page1, last)
  <2>1. page1 \in 1..last
    BY <1>2, <1>6, <1>8
  <2>2. IsWindow(Window(page1, last), page1, last)
    <3> HIDE DEF last
    <3> QED
      BY <1>6, <2>1, WindowIsRight
  <2> DEFINE a == Info(page1, size, total).start
             b == Info(page1, size, total).end
             I == Slice(page1, size, total)
  <2>3. I = a..b /\ a <= b
    BY <1>1, <1>2, <2>1, InfoNamesTheSlice
  <2>4. a \in Int /\ b \in Int
    BY <1>1, <1>2 DEF Info, AtMost
  <2>5. I \subseteq 1..total
    BY DEF Slice
  <2> HIDE DEF a, b, I, total
  <2>6. Cardinality(I) = b - a + 1
    BY <2>3, <2>4, FS_Interval
  <2>7. I \in SUBSET (1..Cardinality(listed))
    BY <2>5 DEF total
  <2>8. Cardinality(Ranked(I, R, listed)) = Cardinality(I)
    BY <1>1, <1>3, <2>7, RanksOfSlice
  <2>9. Shown(r) = Ranked(I, R, listed)
    BY <1>4 DEF I
  <2> QED
    BY <2>2, <2>6, <2>8, <2>9 DEF a, b
<1> HIDE DEF last
<1> QED
  BY <1>2, <1>5, <1>6, <1>7, <1>8

-----------------------------------------------------------------------------
(* The plain order, which the links of the bar ask for.                    *)

\* What that order is, column by column.
LEMMA PlainOrderIs ==
    ASSUME listed \subseteq Nat, NEW u \in listed, NEW v \in listed
    PROVE  Before(u, v, <<"admin", "name">>, <<"desc", "asc">>) <=> PlainBefore(u, v)
<1> DEFINE sorts == <<"admin", "name">>
           orders == <<"desc", "asc">>
           Same(i) == \A j \in 1..(i - 1) : Key(u, sorts[j]) = Key(v, sorts[j])
           Less(i) == IF orders[i] = "asc" THEN Key(u, sorts[i]) < Key(v, sorts[i])
                                           ELSE Key(u, sorts[i]) > Key(v, sorts[i])
           Admins(x) == IF x \in Admin THEN 1 ELSE 0
<1>1. \A x : Key(x, sorts[1]) = Admins(x) /\ Key(x, sorts[2]) = x
  BY DEF Key
<1>2. orders[1] = "desc" /\ orders[2] = "asc" /\ DOMAIN sorts = 1..2
  OBVIOUS
<1>3. Before(u, v, sorts, orders) <=> \E i \in 1..2 : Same(i) /\ Less(i)
  BY <1>2, Zenon DEF Before
<1>4. Same(1) /\ (Same(2) <=> Admins(u) = Admins(v))
  BY <1>1
<1>5. (Less(1) <=> Admins(u) > Admins(v)) /\ (Less(2) <=> u < v)
  BY <1>1, <1>2
<1> HIDE DEF Same, Less, sorts, orders
<1>6. Before(u, v, sorts, orders) <=>
         Admins(u) > Admins(v) \/ (Admins(u) = Admins(v) /\ u < v)
  BY <1>3, <1>4, <1>5
<1> QED
  BY <1>6 DEF PlainBefore, sorts, orders

\* A request with neither sort nor order nor size does not fail, and shows the
\* users by their places in the plain order, whoever has a server.
LEMMA PlainShown ==
    ASSUME AdminPageAssumption, listed \subseteq User, NEW r, IsRequest(r), Plain(r)
    PROVE  /\ ~Fails(r) /\ PageArgs(r).perPage = DefaultSize
           /\ Shown(r) = {u \in listed : PlainPlace(u)
                             \in Slice(PageArgs(r).number, DefaultSize, Cardinality(listed))}
           /\ \A u \in listed : PlainPlace(u) \in 1..Cardinality(listed)
           /\ \A i \in 1..Cardinality(listed) : \E u \in listed : PlainPlace(u) = i
<1> DEFINE sorts == <<"admin", "name">>
           orders == <<"desc", "asc">>
           R == Order(sorts, orders)
<1>1. r.sort = <<>> /\ r.order = <<>> /\ r.perPage = 0
  BY DEF Plain
<1>2. r.sort \in Seq(STRING)
  BY DEF IsRequest
<1>3. Sorts(r) = sorts
  BY <1>1, <1>2, SortsAre
<1>4. Orders(r, Sorts(r)) = orders
  BY <1>1, <1>3, PlainOrders
<1>5. ~Fails(r)
  <2>1. In(sorts) = {"admin", "name"} /\ In(orders) = {"desc", "asc"}
    BY DEF In
  <2>2. In(Sorts(r)) = {"admin", "name"} /\ In(Orders(r, Sorts(r))) = {"desc", "asc"}
    BY <1>3, <1>4, <2>1
  <2>3. Fails(r) <=> \/ In(Sorts(r)) \ Columns # {}
                     \/ In(Orders(r, Sorts(r))) \ Directions # {}
    BY Zenon DEF Fails
  <2> QED
    BY <2>2, <2>3 DEF Columns, Directions
<1>6. listed \subseteq Nat /\ IsFiniteSet(listed)
  BY FS_Subset DEF AdminPageAssumption
<1>7. PageArgs(r).perPage = DefaultSize
  BY <1>1, ArgsAre
<1> HIDE DEF sorts, orders
<1>8. IsStrictOrder(R, listed)
  BY <1>3, <1>4, <1>5, <1>6, RequestsOrder
<1>9. Shown(r) = Ranked(Slice(PageArgs(r).number, DefaultSize, Cardinality(listed)), R, listed)
  BY <1>3, <1>4, <1>7, ShownByRank
<1>10. ASSUME NEW u \in listed PROVE PlainPlace(u) = Rank(u, R, listed)
  <2>1. {v \in listed : PlainBefore(v, u)} = {v \in listed : <<v, u>> \in R}
    BY <1>6, PlainOrderIs DEF Order, sorts, orders
  <2> QED
    BY <2>1, Zenon DEF Rank, PlainPlace
<1> HIDE DEF R
<1> DEFINE f == [u \in listed |-> Rank(u, R, listed)]
<1>11. /\ f \in [listed -> 1..Cardinality(listed)]
       /\ \A t \in 1..Cardinality(listed) : \E s \in listed : f[s] = t
  <2>1. f \in Bijection(listed, 1..Cardinality(listed))
    BY <1>6, <1>8, RanksAreAll
  <2> HIDE DEF f
  <2> QED
    BY <2>1 DEF Bijection, Surjection
<1>12. \A u \in listed : f[u] = PlainPlace(u)
  BY <1>10
<1> HIDE DEF f
<1> QED
  BY <1>5, <1>7, <1>9, <1>10, <1>11, <1>12 DEF Ranked

\* What a link of the bar asks for.
LEMMA LinkIsPlain ==
    ASSUME NEW p \in Nat
    PROVE  IsRequest(Link(p)) /\ Plain(Link(p)) /\ Link(p).page = p
<1>1. <<>> \in Seq(STRING)
  BY EmptySeq
<1> QED
  BY <1>1 DEF IsRequest, Plain, Link

-----------------------------------------------------------------------------
(* The steps.                                                              *)

\* What is rendered for a request that does not fail is a page as it should be.
LEMMA RenderedPageOK ==
    ASSUME AdminPageAssumption, listed \subseteq User, NEW r, IsRequest(r), ~Fails(r),
           page' = <<Rendered(r)>>
    PROVE  PageOK'
<1> DEFINE p == Rendered(r)
<1>1. page'[1] = p
  OBVIOUS
<1>2. /\ p.number \in Nat \ {0} /\ p.last \in Nat /\ p.shown \subseteq User
      /\ p.number <= p.last =>
            /\ p.info.end - p.info.start + 1 = Cardinality(p.shown)
            /\ IsWindow(Window(p.number, p.last), p.number, p.last)
  BY RenderedIsRight
<1> HIDE DEF p
<1> QED
  BY <1>1, <1>2, Zenon DEF PageOK

\* At first there are no page and no walk.
LEMMA AdminInvInit ==
    ASSUME AdminPageAssumption, AdminInit
    PROVE  AdminInv
BY DEF AdminPageAssumption, AdminInit, AdminInv, NoWalk

\* The first page of a walk.
LEMMA WalkBegins ==
    ASSUME AdminPageAssumption, AdminInv, NEW r, IsRequest(r), Plain(r),
           PageArgs(r).number = 1, page' = <<Rendered(r)>>,
           walk'.seen = Shown(r), walk'.twice = {}, UNCHANGED listed
    PROVE  WalkSoFar'
<1> DEFINE total == Cardinality(listed)
           last == TotalPages(total, DefaultSize)
<1>1. listed \subseteq User /\ listed # {} /\ IsFiniteSet(listed)
  BY FS_Subset DEF AdminInv, AdminPageAssumption
<1>2. total \in Nat /\ total # 0 /\ DefaultSize \in Nat \ {0}
  BY DefaultIsSize, <1>1, FS_CardinalityType, FS_EmptySet DEF AdminPageAssumption
<1>3. last \in Nat /\ total <= DefaultSize * last
  BY <1>2, LastPage
<1> HIDE DEF total, last
<1>4. last # 0
  BY <1>2, <1>3
<1>5. page'[1].number = 1 /\ page'[1].last = last
  <2>1. PageArgs(r).perPage = DefaultSize
    BY <1>1, PlainShown
  <2> QED
    BY <2>1 DEF Rendered, total, last
<1>6. /\ Shown(r) = {u \in listed : PlainPlace(u) \in Slice(1, DefaultSize, total)}
      /\ \A u \in listed : PlainPlace(u) \in 1..total
  BY <1>1, PlainShown DEF total
<1>7. Shown(r) = {u \in listed : PlainPlace(u) <= DefaultSize * 1}
  BY <1>2, <1>6 DEF Slice
<1>8. \A u : PlainPlace(u)' = PlainPlace(u)
  BY DEF PlainPlace, PlainBefore
<1>9. TotalPages(Cardinality(listed'), DefaultSize) = last
  BY DEF last, total
<1> QED
  BY <1>3, <1>4, <1>5, <1>7, <1>8, <1>9 DEF WalkSoFar

\* The next page of a walk.
LEMMA WalkGoesOn ==
    ASSUME AdminPageAssumption, AdminInv, WalkSoFar,
           Forward(page[1].number, page[1].last),
           page' = <<Rendered(Link(page[1].number + 1))>>,
           walk'.seen = walk.seen \cup Shown(Link(page[1].number + 1)),
           walk'.twice = walk.twice \cup (walk.seen \cap Shown(Link(page[1].number + 1))),
           UNCHANGED listed
    PROVE  WalkSoFar'
<1> DEFINE total == Cardinality(listed)
           last == TotalPages(total, DefaultSize)
           n == page[1].number
           r == Link(n + 1)
<1>1. listed \subseteq User /\ IsFiniteSet(listed)
  BY FS_Subset DEF AdminInv, AdminPageAssumption
<1>2. total \in Nat /\ DefaultSize \in Nat \ {0}
  BY DefaultIsSize, <1>1, FS_CardinalityType DEF AdminPageAssumption
<1>3. last \in Nat
  BY <1>2, LastPage
<1>4. page[1].last = last /\ n \in 1..last /\ walk.twice = {}
      /\ walk.seen = {u \in listed : PlainPlace(u) <= DefaultSize * n}
  BY DEF WalkSoFar
<1> HIDE DEF total, last, n
<1>5. n < last
  BY <1>4 DEF Forward, n
<1>6. n \in Nat /\ n + 1 \in 1..last
  BY <1>3, <1>4, <1>5
<1>7. IsRequest(r) /\ Plain(r) /\ r.page = n + 1
  BY <1>6, LinkIsPlain
<1>8. PageArgs(r).number = n + 1
  BY <1>6, <1>7, ArgsAre
<1>9. page'[1].number = n + 1 /\ page'[1].last = last
  <2>1. PageArgs(r).perPage = DefaultSize
    BY <1>1, <1>7, PlainShown
  <2> QED
    BY <1>8, <2>1 DEF Rendered, total, last, n
<1>10. /\ Shown(r) = {u \in listed : PlainPlace(u) \in Slice(n + 1, DefaultSize, total)}
       /\ \A u \in listed : PlainPlace(u) \in 1..total
  BY <1>1, <1>7, <1>8, PlainShown DEF total
<1>11. walk'.seen = walk.seen \cup Shown(r) /\ walk'.twice = walk.seen \cap Shown(r)
  BY <1>4 DEF n
<1> HIDE DEF r
<1>12. (n + 1) - 1 = n
  BY <1>6
<1>13. DefaultSize * n \in Int /\ DefaultSize * (n + 1) = DefaultSize * n + DefaultSize
  BY <1>2, <1>6
<1>14. Shown(r) = {u \in listed : /\ DefaultSize * n < PlainPlace(u)
                                  /\ PlainPlace(u) <= DefaultSize * (n + 1)}
  BY <1>10, <1>12 DEF Slice
<1>15. \A u \in listed : PlainPlace(u) \in Int
  BY <1>10
<1> DEFINE d == DefaultSize * n
           e == DefaultSize * (n + 1)
<1>16. d \in Int /\ e \in Int /\ d <= e
  BY <1>2, <1>13
<1> HIDE DEF d, e
<1>17. /\ walk.seen = {u \in listed : PlainPlace(u) <= d}
       /\ Shown(r) = {u \in listed : d < PlainPlace(u) /\ PlainPlace(u) <= e}
  BY <1>4, <1>14 DEF d, e
<1>18. walk'.seen = {u \in listed : PlainPlace(u) <= e} /\ walk'.twice = {}
  BY <1>11, <1>15, <1>16, <1>17
<1>19. \A u : PlainPlace(u)' = PlainPlace(u)
  BY DEF PlainPlace, PlainBefore
<1>20. TotalPages(Cardinality(listed'), DefaultSize) = last
  BY DEF last, total
<1> QED
  BY <1>6, <1>9, <1>18, <1>19, <1>20 DEF WalkSoFar, e

\* The rest of the invariant, which has no arithmetic in it.
WalkIs(w) ==
    /\ w \in [seen : SUBSET User, twice : SUBSET User, plain : BOOLEAN, intact : BOOLEAN]
    /\ w.twice \subseteq w.seen

\* Every step keeps the invariant.
LEMMA AdminInvStep ==
    ASSUME AdminPageAssumption, AdminInv, [AdminNext]_adminVars
    PROVE  AdminInv'
<1> USE DEF WalkIs
<1>1. /\ listed \subseteq User /\ listed # {} /\ running \subseteq listed /\ WalkIs(walk)
      /\ page # <<>> => PageOK
      /\ page # <<>> /\ walk.plain /\ walk.intact => WalkSoFar
  BY DEF AdminInv
<1>2. WalkIs(NoWalk) /\ ~NoWalk.plain
  BY DEF NoWalk
<1>3. \A r : Shown(r) \subseteq User
  BY <1>1, ShownByRank DEF Ranked
<1>4. ASSUME NEW r \in Request, Open(r)
      PROVE  AdminInv'
  <2>1. IsRequest(r)
    BY DEF IsRequest, AdminPageAssumption
  <2>2. UNCHANGED <<listed, running>>
    BY <1>4 DEF Open
  <2>3. CASE Fails(r)
    <3>1. page' = <<>> /\ walk' = NoWalk
      BY <1>4, <2>3 DEF Open
    <3> QED
      BY <1>1, <1>2, <2>2, <3>1 DEF AdminInv
  <2>4. CASE ~Fails(r)
    <3>1. page' = <<Rendered(r)>>
      BY <1>4, <2>4 DEF Open
    <3>2. PageOK'
      BY <1>1, <2>1, <2>4, <3>1, RenderedPageOK
    <3>3. CASE PageArgs(r).number # 1
      <4>1. walk' = NoWalk
        BY <1>4, <3>3 DEF Open
      <4> QED
        BY <1>1, <1>2, <2>2, <3>2, <4>1 DEF AdminInv
    <3>4. CASE PageArgs(r).number = 1
      <4>1. walk' = [seen |-> Shown(r), twice |-> {}, plain |-> Plain(r), intact |-> TRUE]
        BY <1>4, <2>4, <3>4 DEF Open
      <4>2. Plain(r) \in BOOLEAN
        BY DEF Plain
      <4>3. WalkIs(walk')
        BY <1>3, <4>1, <4>2
      <4>4. walk'.plain => WalkSoFar'
        BY <2>1, <2>2, <3>1, <3>4, <4>1, WalkBegins
      <4> QED
        BY <1>1, <2>2, <3>2, <4>3, <4>4 DEF AdminInv
    <3> QED
      BY <3>3, <3>4
  <2> QED
    BY <2>3, <2>4
<1>5. CASE Follow
  <2> DEFINE r == Link(page[1].number + 1)
  <2>1. /\ page # <<>> /\ Forward(page[1].number, page[1].last)
        /\ page' = <<Rendered(r)>>
        /\ walk' = [walk EXCEPT !.seen = @ \cup Shown(r),
                                !.twice = @ \cup (walk.seen \cap Shown(r))]
        /\ UNCHANGED <<listed, running>>
    BY <1>5 DEF Follow
  <2>2. page[1].number + 1 \in Nat
    BY <1>1, <2>1 DEF PageOK
  <2>3. IsRequest(r) /\ Plain(r)
    BY <2>2, LinkIsPlain
  <2> HIDE DEF r
  <2>4. ~Fails(r)
    BY <1>1, <2>3, PlainShown
  <2>5. PageOK'
    BY <1>1, <2>1, <2>3, <2>4, RenderedPageOK
  <2>6. /\ walk'.seen = walk.seen \cup Shown(r)
        /\ walk'.twice = walk.twice \cup (walk.seen \cap Shown(r))
        /\ walk'.plain = walk.plain /\ walk'.intact = walk.intact
        /\ WalkIs(walk')
    BY <1>1, <1>3, <2>1
  <2>7. walk'.plain /\ walk'.intact => WalkSoFar'
    BY <1>1, <2>1, <2>6, WalkGoesOn DEF r
  <2> QED
    BY <1>1, <2>1, <2>5, <2>6, <2>7 DEF AdminInv
<1>6. ASSUME NEW p \in Bar, page # <<>>, Jump(p)
      PROVE  AdminInv'
  <2>1. page' = <<Rendered(Link(p))>> /\ walk' = NoWalk /\ UNCHANGED <<listed, running>>
    BY <1>6 DEF Jump
  <2>2. p \in Nat
    BY <1>1, <1>6, LinksAreNumbers DEF Bar, PageOK
  <2>3. IsRequest(Link(p)) /\ Plain(Link(p))
    BY <2>2, LinkIsPlain
  <2>4. ~Fails(Link(p))
    BY <1>1, <2>3, PlainShown
  <2>5. PageOK'
    BY <1>1, <2>1, <2>3, <2>4, RenderedPageOK
  <2> QED
    BY <1>1, <1>2, <2>1, <2>5 DEF AdminInv
<1>7. ASSUME NEW u \in User, Join(u) \/ Leave(u)
      PROVE  AdminInv'
  <2>1. /\ listed' \subseteq User /\ listed' # {} /\ running' \subseteq listed'
        /\ page' = page /\ walk' = Changed
    BY <1>1, <1>7 DEF Join, Leave
  <2>2. WalkIs(Changed) /\ ~Changed.intact
    BY <1>1 DEF Changed
  <2>3. page # <<>> => PageOK'
    BY <1>1, <2>1 DEF PageOK
  <2> QED
    BY <2>1, <2>2, <2>3 DEF AdminInv
<1>8. ASSUME UNCHANGED <<listed, page, walk>>, running' \subseteq listed
      PROVE  AdminInv'
  <2>1. \A u : PlainPlace(u)' = PlainPlace(u)
    BY <1>8 DEF PlainPlace, PlainBefore
  <2>2. WalkSoFar => WalkSoFar'
    BY <1>8, <2>1 DEF WalkSoFar
  <2>3. PageOK => PageOK'
    BY <1>8 DEF PageOK
  <2> QED
    BY <1>1, <1>8, <2>2, <2>3 DEF AdminInv
<1>9. ASSUME NEW u \in Starter, Toggle(u)
      PROVE  AdminInv'
  <2>1. UNCHANGED <<listed, page, walk>> /\ running' \subseteq listed
    BY <1>1, <1>9 DEF Toggle
  <2> QED
    BY <1>8, <2>1
<1>10. CASE UNCHANGED adminVars
  <2>1. UNCHANGED <<listed, page, walk>> /\ running' \subseteq listed
    BY <1>1, <1>10 DEF adminVars
  <2> QED
    BY <1>8, <2>1
<1> QED
  BY <1>4, <1>5, <1>6, <1>7, <1>9, <1>10 DEF AdminNext

\* The invariant of the admin page.
THEOREM AdminInvariant == AdminSpec => []AdminInv
<1>1. AdminInit => AdminInv
  BY AdminPageAssumption, AdminInvInit
<1>2. AdminInv /\ [AdminNext]_adminVars => AdminInv'
  BY AdminPageAssumption, AdminInvStep
<1> QED
  BY <1>1, <1>2, PTL DEF AdminSpec

\* The types are its first part.
LEMMA InvGivesTypes == AdminInv => AdminTypeOK
BY DEF AdminInv, AdminTypeOK, PageOK

\* The line below the list and the bar are those of the page that is shown.
LEMMA InvGivesPageSays == AdminInv => PageSaysWhatItShows
BY DEF AdminInv, PageSaysWhatItShows, PageOK

\* At its end the walk has every place of the list.
LEMMA InvGivesWalk == AdminInv => WalkSeesEveryone
<1> SUFFICES ASSUME AdminInv, AtEnd, walk.plain, walk.intact
             PROVE  walk.seen = listed /\ walk.twice = {}
  BY DEF WalkSeesEveryone
<1> DEFINE total == Cardinality(listed)
           last == TotalPages(total, DefaultSize)
           n == page[1].number
<1>1. WalkSoFar /\ page # <<>> /\ ~Forward(page[1].number, page[1].last)
  BY DEF AdminInv, AtEnd
<1>2. listed \subseteq User /\ IsFiniteSet(listed)
  BY AdminPageAssumption, FS_Subset DEF AdminInv, AdminPageAssumption
<1>3. total \in Nat /\ DefaultSize \in Nat \ {0}
  BY DefaultIsSize, <1>2, AdminPageAssumption, FS_CardinalityType DEF AdminPageAssumption
<1>4. last \in Nat /\ total <= DefaultSize * last
  BY <1>3, LastPage
<1>5. page[1].last = last /\ n \in 1..last /\ walk.twice = {}
      /\ walk.seen = {u \in listed : PlainPlace(u) <= DefaultSize * n}
  BY <1>1 DEF WalkSoFar
<1>6. \A u \in listed : PlainPlace(u) \in 1..total
  <2>1. IsRequest(Link(1)) /\ Plain(Link(1))
    BY LinkIsPlain
  <2> QED
    BY <1>2, <2>1, AdminPageAssumption, PlainShown
<1> HIDE DEF total, last
<1>7. n = last
  BY <1>1, <1>4, <1>5 DEF Forward
<1> HIDE DEF n
<1>8. DefaultSize * n \in Int
  BY <1>3, <1>4, <1>7
<1>9. \A u \in listed : PlainPlace(u) <= DefaultSize * n
  BY <1>3, <1>4, <1>6, <1>7, <1>8
<1> QED
  BY <1>5, <1>9

\* A link of the bar leads to a page of the list, and so to somebody.
LEMMA InvGivesLinks == AdminInv => LinksLeadToUsers
<1> SUFFICES ASSUME AdminInv, walk.plain, walk.intact, page # <<>>, NEW p \in Bar
             PROVE  Shown(Link(p)) # {}
  BY DEF LinksLeadToUsers
<1> DEFINE total == Cardinality(listed)
           last == TotalPages(total, DefaultSize)
           n == page[1].number
<1>1. WalkSoFar
  BY DEF AdminInv
<1>2. listed \subseteq User /\ IsFiniteSet(listed)
  BY AdminPageAssumption, FS_Subset DEF AdminInv, AdminPageAssumption
<1>3. total \in Nat /\ DefaultSize \in Nat \ {0}
  BY DefaultIsSize, <1>2, AdminPageAssumption, FS_CardinalityType DEF AdminPageAssumption
<1>4. last \in Nat
  BY <1>3, LastPage
<1>5. page[1].last = last /\ n \in 1..last
  BY <1>1 DEF WalkSoFar
<1>6. p \in Links(n, last)
  BY <1>5 DEF Bar
<1> HIDE DEF n, total
<1>7. p \in 1..last /\ Slice(p, DefaultSize, total) # {}
  BY <1>3, <1>5, <1>6, LinksLeadToPages
<1> HIDE DEF last
<1>8. p \in Nat \ {0}
  BY <1>4, <1>7
<1>9. IsRequest(Link(p)) /\ Plain(Link(p)) /\ PageArgs(Link(p)).number = p
  BY <1>8, AdminPageAssumption, LinkIsPlain, ArgsAre
<1>10. PICK i \in Slice(p, DefaultSize, total) : TRUE
  BY <1>7
<1>11. i \in 1..total
  BY <1>10 DEF Slice
<1>12. /\ Shown(Link(p)) = {u \in listed : PlainPlace(u) \in Slice(p, DefaultSize, total)}
       /\ \A j \in 1..total : \E u \in listed : PlainPlace(u) = j
  BY <1>2, <1>9, AdminPageAssumption, PlainShown DEF total
<1> QED
  BY <1>10, <1>11, <1>12

\* The state of the admin page has its types.
THEOREM AdminTypes == AdminSpec => []AdminTypeOK
BY AdminInvariant, InvGivesTypes, PTL

\* Who follows the arrow from the first page to the last sees every user, and
\* nobody twice, for every number of users and whatever servers start and stop:
\* the order by name does not move, and the slices of the pages split it.
THEOREM WalkComplete == AdminSpec => []WalkSeesEveryone
BY AdminInvariant, InvGivesWalk, PTL

\* Every link of a page that was not overtaken leads to somebody.
THEOREM LinksLead == AdminSpec => []LinksLeadToUsers
BY AdminInvariant, InvGivesLinks, PTL

\* The page says which places it shows, and has a bar with the right pages.
THEOREM PageTrue == AdminSpec => []PageSaysWhatItShows
BY AdminInvariant, InvGivesPageSays, PTL
=============================================================================
