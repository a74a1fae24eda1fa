-------------------------- MODULE PaginationProofs --------------------------
(***************************************************************************)
(* What the arithmetic of the class Pagination gives for every number of   *)
(* users and every page size: the pages split the list, none is empty, the *)
(* line below the list says which part it is, the bar has the pages a      *)
(* reader expects, and no link leads beyond. The lemmas on numbers and     *)
(* sequences at the beginning serve the admin page and the usage of        *)
(* groups, too.                                                            *)
(***************************************************************************)
EXTENDS Pagination, FiniteSetTheorems, SequenceTheorems, TLAPS

-----------------------------------------------------------------------------
(* Numbers.                                                                *)

\* A set of numbers that is not empty has a least one.
LEMMA LeastNumber ==
    ASSUME NEW T \in SUBSET Nat, T # {}
    PROVE  \E k \in T : \A j \in T : k <= j
<1>1. PICK n \in T : TRUE
  OBVIOUS
<1> DEFINE S == 0..n
           R == StrictSubsetOrdering(S)
           F == {s \in SUBSET S : \E k \in T : s = 0..k}
<1>2. IsFiniteSet(S)
  BY FS_Interval
<1>3. IsWellFoundedOn(R, SUBSET S)
  BY <1>2, FS_StrictSubsetOrderingWellFounded, FS_FiniteSubsetsOfFinite
<1>4. F \subseteq SUBSET S /\ F # {}
  OBVIOUS
<1>5. \E s \in F : \A u \in F : <<u, s>> \notin R
  <2> HIDE DEF F, R, S
  <2> QED
    BY <1>3, <1>4, WFMin
<1>6. PICK k \in T : 0..k \in F /\ \A u \in F : <<u, 0..k>> \notin R
  BY <1>5
<1>7. ASSUME NEW j \in T, j < k
      PROVE  FALSE
  <2>1. 0..j \subseteq 0..k /\ 0..j # 0..k
    BY <1>7
  <2>2. 0..j \in F
    BY <1>6, <2>1
  <2> QED
    BY <1>6, <2>1, <2>2 DEF StrictSubsetOrdering
<1> QED
  BY <1>7

\* Induction, over a set in place of a property: a set that has 0 and, with a
\* number, the next one has them all.
LEMMA SetInduction ==
    ASSUME NEW S \in SUBSET Nat, 0 \in S, \A n \in S : n + 1 \in S
    PROVE  S = Nat
<1>1. ASSUME Nat \ S # {} PROVE FALSE
  <2>1. PICK k \in Nat \ S : \A j \in Nat \ S : k <= j
    BY <1>1, LeastNumber
  <2>2. k - 1 \in Nat /\ k - 1 \in S
    BY <2>1
  <2> QED
    BY <2>1, <2>2
<1> QED
  BY <1>1

\* Quotient and remainder.
LEMMA Division ==
    ASSUME NEW a \in Nat, NEW b \in Nat \ {0}
    PROVE  /\ a \div b \in Nat
           /\ b * (a \div b) <= a /\ a < b * ((a \div b) + 1)
           /\ (a % b = 0) <=> (a = b * (a \div b))
<1>1. a \div b \in Nat
  OBVIOUS
<1>2. b * (a \div b) <= a /\ a < b * ((a \div b) + 1)
  OBVIOUS
<1>3. a % b = a - (b * (a \div b))
  OBVIOUS
<1> QED
  BY <1>1, <1>2, <1>3

\* Multiplication keeps the order.
LEMMA Times ==
    ASSUME NEW a \in Int, NEW b \in Int, NEW c \in Nat, a <= b
    PROVE  c * a <= c * b
<1>1. b - a >= 0 /\ c * (b - a) >= 0
  OBVIOUS
<1>2. c * (b - a) = (c * b) - (c * a)
  OBVIOUS
<1> QED
  BY <1>1, <1>2

-----------------------------------------------------------------------------
(* Sequences.                                                              *)

\* What three sequences have, one after the other.
LEMMA ThreeParts ==
    ASSUME NEW S, NEW s \in Seq(S), NEW t \in Seq(S), NEW u \in Seq(S)
    PROVE  /\ (s \o t) \o u \in Seq(S)
           /\ Len(s) \in Nat /\ Len(t) \in Nat /\ Len(u) \in Nat
           /\ Len((s \o t) \o u) = Len(s) + Len(t) + Len(u)
           /\ \A i \in 1..Len(s) : ((s \o t) \o u)[i] = s[i]
           /\ \A i \in 1..Len(t) : ((s \o t) \o u)[Len(s) + i] = t[i]
           /\ \A i \in 1..Len(u) : ((s \o t) \o u)[Len(s) + Len(t) + i] = u[i]
<1> DEFINE st == s \o t
           stu == st \o u
<1>1. Len(s) \in Nat /\ Len(t) \in Nat /\ Len(u) \in Nat
  BY LenProperties
<1>2. /\ st \in Seq(S) /\ Len(st) = Len(s) + Len(t)
      /\ \A i \in 1..(Len(s) + Len(t)) : st[i] = IF i <= Len(s) THEN s[i] ELSE t[i - Len(s)]
  BY ConcatProperties
<1> HIDE DEF st
<1> st \in Seq(S)
  BY <1>2
<1>3. /\ stu \in Seq(S) /\ Len(stu) = Len(st) + Len(u)
      /\ \A i \in 1..(Len(st) + Len(u)) : stu[i] = IF i <= Len(st) THEN st[i] ELSE u[i - Len(st)]
  BY ConcatProperties
<1> HIDE DEF stu
<1>4. ASSUME NEW i \in 1..Len(s) PROVE stu[i] = s[i]
  BY <1>1, <1>2, <1>3
<1>5. ASSUME NEW i \in 1..Len(t) PROVE stu[Len(s) + i] = t[i]
  BY <1>1, <1>2, <1>3
<1>6. ASSUME NEW i \in 1..Len(u) PROVE stu[Len(s) + Len(t) + i] = u[i]
  <2>1. /\ Len(st) + i \in 1..(Len(st) + Len(u)) /\ ~(Len(st) + i <= Len(st))
        /\ (Len(st) + i) - Len(st) = i /\ Len(st) + i = Len(s) + Len(t) + i
    BY <1>1, <1>2
  <2> QED
    BY <1>3, <2>1
<1> QED
  BY <1>1, <1>2, <1>3, <1>4, <1>5, <1>6 DEF stu, st

-----------------------------------------------------------------------------
(* The pages.                                                              *)

\* There are as many pages as it takes to have all users, and no more.
LEMMA LastPage ==
    ASSUME NEW total \in Nat, NEW perPage \in Nat \ {0}
    PROVE  /\ TotalPages(total, perPage) \in Nat
           /\ total <= perPage * TotalPages(total, perPage)
           /\ TotalPages(total, perPage) = 0 \/ perPage * (TotalPages(total, perPage) - 1) < total
<1> DEFINE q == total \div perPage
<1>1. /\ q \in Nat /\ perPage * q <= total /\ total < perPage * (q + 1)
      /\ (total % perPage = 0) <=> (total = perPage * q)
  BY Division
<1>2. TotalPages(total, perPage) = IF total % perPage = 0 THEN q ELSE q + 1
  BY <1>1 DEF TotalPages
<1> HIDE DEF q
<1>3. CASE total % perPage = 0
  <2>1. perPage * (q - 1) = (perPage * q) - perPage
    BY <1>1
  <2> QED
    BY <1>1, <1>2, <1>3, <2>1
<1>4. CASE total % perPage # 0
  <2>1. (q + 1) - 1 = q
    BY <1>1
  <2> QED
    BY <1>1, <1>2, <1>4, <2>1
<1> QED
  BY <1>3, <1>4

\* Every user is on exactly one of the pages 1 to the last: offset and limit
\* leave nobody out between two pages and show nobody twice.
THEOREM EveryPlaceIsOnOnePage ==
    ASSUME NEW total \in Nat, NEW perPage \in Nat \ {0}, NEW i \in 1..total
    PROVE  \E page \in 1..TotalPages(total, perPage) :
              /\ i \in Slice(page, perPage, total)
              /\ \A other \in Nat : i \in Slice(other, perPage, total) => other = page
<1> DEFINE q == (i - 1) \div perPage
           last == TotalPages(total, perPage)
<1>1. q \in Nat /\ perPage * q <= i - 1 /\ i - 1 < perPage * (q + 1)
  BY Division
<1> HIDE DEF q
<1>2. i \in Slice(q + 1, perPage, total)
  <2>1. (q + 1) - 1 = q
    BY <1>1
  <2> QED
    BY <1>1, <2>1 DEF Slice
<1>3. q + 1 \in 1..last
  <2>1. last \in Nat /\ total <= perPage * last
    BY LastPage
  <2> HIDE DEF last
  <2>2. CASE last <= q
    <3>1. perPage * last <= perPage * q
      BY <1>1, <2>1, <2>2, Times
    <3>2. perPage * last \in Int /\ perPage * q \in Int
      BY <1>1, <2>1
    <3> QED
      BY <1>1, <2>1, <3>1, <3>2
  <2> QED
    BY <1>1, <2>1, <2>2
<1>4. ASSUME NEW other \in Nat, i \in Slice(other, perPage, total)
      PROVE  other = q + 1
  <2>1. perPage * (other - 1) < i /\ i <= perPage * other
    BY <1>4 DEF Slice
  <2>2. CASE other < q + 1
    <3>1. perPage * other <= perPage * q
      BY <1>1, <2>2, Times
    <3>2. perPage * other \in Int /\ perPage * q \in Int
      BY <1>1
    <3> QED
      BY <1>1, <2>1, <3>1, <3>2
  <2>3. CASE other > q + 1
    <3>1. perPage * (q + 1) <= perPage * (other - 1)
      BY <1>1, <2>3, Times
    <3>2. perPage * (q + 1) \in Int /\ perPage * (other - 1) \in Int
      BY <1>1
    <3> QED
      BY <1>1, <2>1, <3>1, <3>2
  <2> QED
    BY <1>1, <2>2, <2>3
<1> QED
  BY <1>2, <1>3, <1>4

\* On the pages 1 to the last, the line below the list names the very places
\* that the page shows, and there is at least one.
THEOREM InfoNamesTheSlice ==
    ASSUME NEW total \in Nat, NEW perPage \in Nat \ {0},
           NEW page \in 1..TotalPages(total, perPage)
    PROVE  /\ Slice(page, perPage, total) =
                 Info(page, perPage, total).start .. Info(page, perPage, total).end
           /\ Info(page, perPage, total).start <= Info(page, perPage, total).end
<1> DEFINE last == TotalPages(total, perPage)
           before == perPage * (page - 1)
<1>1. last \in Nat /\ last # 0 /\ perPage * (last - 1) < total
  BY LastPage
<1>2. before \in Nat /\ before < total
  <2>1. before <= perPage * (last - 1)
    BY <1>1, Times
  <2>2. before \in Nat
    <3>1. page - 1 \in Nat
      BY <1>1
    <3> QED
      BY <3>1
  <2> QED
    BY <1>1, <2>1, <2>2
<1>3. perPage * page = before + perPage
  BY <1>1
<1>4. (page - 1) * perPage = before
  BY <1>1
<1>5. Slice(page, perPage, total) = {i \in 1..total : before < i /\ i <= before + perPage}
  BY <1>3 DEF Slice
<1>6. /\ Info(page, perPage, total).start = AtMost(1 + before, total)
      /\ Info(page, perPage, total).end = AtMost(1 + before + perPage - 1, total)
  BY <1>4 DEF Info
<1> HIDE DEF before
<1>7. /\ Info(page, perPage, total).start = before + 1
      /\ Info(page, perPage, total).end =
            IF before + perPage > total THEN total ELSE before + perPage
  BY <1>2, <1>6 DEF AtMost
<1> QED
  BY <1>2, <1>5, <1>7

-----------------------------------------------------------------------------
(* The links.                                                              *)

\* The numbers of a row of pages.
LEMMA PagesAre ==
    ASSUME NEW last \in Nat, NEW a \in 1..last, NEW b \in 0..last, a <= b + 1
    PROVE  Pages(a, b) \in Seq(0..last)
<1>1. (b - a) + 1 \in Nat
  OBVIOUS
<1>2. \A i \in 1..((b - a) + 1) : (a + i) - 1 \in 0..last
  OBVIOUS
<1>3. Pages(a, b) \in [1..((b - a) + 1) -> 0..last]
  BY <1>2 DEF Pages
<1> QED
  BY <1>1, <1>3

\* The window has pages and dots only.
LEMMA WindowIs ==
    ASSUME NEW last \in Nat \ {0}, NEW page \in 1..last
    PROVE  Window(page, last) \in Seq(0..last)
<1> DEFINE S == Seq(0..last)
<1>1. CASE last <= 7
  BY <1>1, PagesAre DEF Window
<1>2. CASE last > 7
  <2> DEFINE first == IF page > 3 THEN <<1>> ELSE <<>>
             dots == IF page > 4 THEN <<Dots>> ELSE <<>>
             left == Pages(IF page > 3 THEN page - 2 ELSE 1, page - 1)
             tail == IF page + 2 < last - 1 THEN <<Dots>> ELSE <<>>
             right == IF page + 3 >= last THEN Pages(page, last)
                      ELSE (Pages(page, page + 2) \o tail) \o <<last>>
  <2>1. first \in S /\ dots \in S /\ tail \in S
    <3>1. <<1>> \in S /\ <<0>> \in S /\ <<>> \in S
      OBVIOUS
    <3> HIDE DEF S
    <3> QED
      BY <3>1 DEF Dots
  <2>2. left \in S
    <3>1. CASE page > 3
      BY <3>1, PagesAre
    <3>2. CASE page <= 3
      BY <3>2, PagesAre
    <3> QED
      BY <3>1, <3>2
  <2>3. right \in S
    <3>1. CASE page + 3 >= last
      BY <3>1, PagesAre
    <3>2. CASE page + 3 < last
      <4>1. Pages(page, page + 2) \in S
        BY <3>2, PagesAre
      <4>2. <<last>> \in S
        OBVIOUS
      <4>3. tail \in S
        BY <2>1
      <4> HIDE DEF tail
      <4>4. Pages(page, page + 2) \o tail \in S
        BY <4>1, <4>3, ConcatProperties
      <4>5. (Pages(page, page + 2) \o tail) \o <<last>> \in S
        BY <4>2, <4>4, ConcatProperties
      <4>6. right = (Pages(page, page + 2) \o tail) \o <<last>>
        BY <3>2
      <4> HIDE DEF right, S
      <4> QED
        BY <4>5, <4>6
    <3> QED
      BY <3>1, <3>2
  <2>4. Window(page, last) = ((first \o dots) \o left) \o right
    <3>1. Window(page, last) =
             IF last > 7 THEN ((first \o dots) \o left) \o right
             ELSE IF last = 0 THEN <<1>> ELSE Pages(1, last)
      BY Zenon DEF Window
    <3> HIDE DEF first, dots, left, right
    <3> QED
      BY <1>2, <3>1
  <2> HIDE DEF first, dots, left, right
  <2>5. ((first \o dots) \o left) \o right \in S
    BY <2>1, <2>2, <2>3, ConcatProperties
  <2> QED
    BY <2>4, <2>5
<1> QED
  BY <1>1, <1>2

\* From one of the pages 1 to the last no link leads back to it or beyond the
\* list: every page it links to is another one that shows somebody.
THEOREM LinksLeadToPages ==
    ASSUME NEW total \in Nat, NEW perPage \in Nat \ {0},
           NEW page \in 1..TotalPages(total, perPage),
           NEW p \in Links(page, TotalPages(total, perPage))
    PROVE  /\ p \in 1..TotalPages(total, perPage) /\ p # page
           /\ Slice(p, perPage, total) # {}
<1> DEFINE last == TotalPages(total, perPage)
<1>1. last \in Nat \ {0}
  BY LastPage
<1>2. p \in 1..last /\ p # page
  <2> HIDE DEF last
  <2>1. page \in 1..last /\ p \in Links(page, last)
    BY DEF last
  <2>2. \A i \in DOMAIN Window(page, last) : Window(page, last)[i] \in 0..last
    BY <1>1, <2>1, WindowIs
  <2> QED
    BY <1>1, <2>1, <2>2 DEF Links, Forward, Dots
<1>3. Slice(p, perPage, total) # {}
  <2>1. /\ Slice(p, perPage, total) =
               Info(p, perPage, total).start .. Info(p, perPage, total).end
        /\ Info(p, perPage, total).start <= Info(p, perPage, total).end
    BY <1>2, InfoNamesTheSlice
  <2>2. Info(p, perPage, total).start \in Int
    BY <1>1, <1>2 DEF Info, AtMost
  <2> QED
    BY <2>1, <2>2
<1> QED
  BY <1>2, <1>3

-----------------------------------------------------------------------------
(* The bar.                                                                *)

\* Page numbers from a to b, for any b.
LEMMA PagesAreNumbers ==
    ASSUME NEW a \in Nat, NEW b \in Int, NEW S, Nat \subseteq S
    PROVE  Pages(a, b) \in Seq(S)
<1> DEFINE n == IF b - a + 1 < 0 THEN 0 ELSE b - a + 1
<1>1. 1..(b - a + 1) = 1..n /\ n \in Nat
  OBVIOUS
<1>2. \A i \in 1..n : a + i - 1 \in S
  OBVIOUS
<1>3. Pages(a, b) \in [1..n -> S]
  BY <1>1, <1>2 DEF Pages
<1> QED
  BY <1>1, <1>3

\* The part of a window of many pages before the page.
FrontPart(page) ==
    ((IF page > 3 THEN <<1>> ELSE <<>>) \o (IF page > 4 THEN <<Dots>> ELSE <<>>))
    \o Pages(IF page > 3 THEN page - 2 ELSE 1, page - 1)

\* From the page on.
BackPart(page, last) ==
    IF page + 3 >= last THEN Pages(page, last)
    ELSE (Pages(page, page + 2) \o (IF page + 2 < last - 1 THEN <<Dots>> ELSE <<>>))
         \o <<last>>

\* A window is its front and its back, or all pages.
LEMMA WindowParts ==
    ASSUME NEW page, NEW last
    PROVE  Window(page, last) =
              IF last > 7 THEN FrontPart(page) \o BackPart(page, last)
              ELSE IF last = 0 THEN <<1>> ELSE Pages(1, last)
BY Zenon DEF Window, FrontPart, BackPart

\* Before the page: all, or the first, dots and two.
LEMMA FrontIs ==
    ASSUME NEW page \in Nat \ {0}
    PROVE  /\ FrontPart(page) \in Seq(Nat)
           /\ page <= 4 => /\ Len(FrontPart(page)) = page - 1
                           /\ \A i \in 1..(page - 1) : FrontPart(page)[i] = i
           /\ page > 4 => /\ Len(FrontPart(page)) = 4
                          /\ FrontPart(page)[1] = 1 /\ FrontPart(page)[2] = Dots
                          /\ FrontPart(page)[3] = page - 2 /\ FrontPart(page)[4] = page - 1
<1> DEFINE s == IF page > 3 THEN <<1>> ELSE <<>>
           t == IF page > 4 THEN <<Dots>> ELSE <<>>
           first == IF page > 3 THEN page - 2 ELSE 1
           u == Pages(first, page - 1)
<1>1. s \in Seq(Nat) /\ Len(s) = IF page > 3 THEN 1 ELSE 0
  OBVIOUS
<1>2. page > 3 => s[1] = 1
  OBVIOUS
<1>3. t \in Seq(Nat) /\ Len(t) = IF page > 4 THEN 1 ELSE 0
  BY DEF Dots
<1>4. page > 4 => t[1] = Dots
  OBVIOUS
<1>5. /\ first \in Nat \ {0} /\ page - first \in Nat
      /\ page - first = IF page > 3 THEN 2 ELSE page - 1
  OBVIOUS
<1>6. u = [i \in 1..(page - first) |-> first + i - 1]
  <2> HIDE DEF first
  <2>1. (page - 1) - first + 1 = page - first
    BY <1>5
  <2> QED
    BY <2>1 DEF Pages
<1> HIDE DEF first, u
<1>7. /\ u \in Seq(Nat) /\ Len(u) = page - first
      /\ \A i \in 1..(page - first) : u[i] = first + i - 1
  <2>1. u \in [1..(page - first) -> Nat]
    BY <1>5, <1>6
  <2> QED
    BY <1>5, <1>6, <2>1
<1>8. FrontPart(page) = (s \o t) \o u
  BY Zenon DEF FrontPart, u, first
<1>9. first = IF page > 3 THEN page - 2 ELSE 1
  BY DEF first
<1> HIDE DEF s, t
<1>10. /\ FrontPart(page) \in Seq(Nat)
       /\ Len(FrontPart(page)) = Len(s) + Len(t) + Len(u)
       /\ \A i \in 1..Len(s) : FrontPart(page)[i] = s[i]
       /\ \A i \in 1..Len(t) : FrontPart(page)[Len(s) + i] = t[i]
       /\ \A i \in 1..Len(u) : FrontPart(page)[Len(s) + Len(t) + i] = u[i]
  <2>1. /\ ((s \o t) \o u) \in Seq(Nat) /\ Len(((s \o t) \o u)) = Len(s) + Len(t) + Len(u)
        /\ \A i \in 1..Len(s) : ((s \o t) \o u)[i] = s[i]
        /\ \A i \in 1..Len(t) : ((s \o t) \o u)[Len(s) + i] = t[i]
        /\ \A i \in 1..Len(u) : ((s \o t) \o u)[Len(s) + Len(t) + i] = u[i]
    <3> DEFINE N == Nat
    <3>1. s \in Seq(N) /\ t \in Seq(N) /\ u \in Seq(N)
      BY <1>1, <1>3, <1>7
    <3> HIDE DEF N
    <3>2. (s \o t) \o u \in Seq(N)
      BY <3>1, ThreeParts
    <3> QED
      BY <3>1, <3>2, ThreeParts DEF N
  <2> QED
    BY <1>8, <2>1, Zenon
<1>11. CASE page > 4
  <2>1. Len(s) = 1 /\ Len(t) = 1 /\ Len(u) = 2 /\ s[1] = 1 /\ t[1] = Dots
    BY <1>1, <1>2, <1>3, <1>4, <1>5, <1>7, <1>11
  <2>2. u[1] = page - 2 /\ u[2] = page - 1
    BY <1>5, <1>7, <1>9, <1>11
  <2>3. FrontPart(page)[1] = 1 /\ FrontPart(page)[2] = Dots
    BY <1>10, <2>1
  <2>4. FrontPart(page)[3] = page - 2 /\ FrontPart(page)[4] = page - 1
    BY <1>10, <2>1, <2>2
  <2> QED
    BY <1>10, <1>11, <2>1, <2>3, <2>4
<1>12. CASE page = 4
  <2>1. Len(s) = 1 /\ Len(t) = 0 /\ Len(u) = 2 /\ s[1] = 1 /\ u[1] = 2 /\ u[2] = 3
    BY <1>1, <1>2, <1>3, <1>5, <1>7, <1>9, <1>12
  <2>2. FrontPart(page)[1] = 1 /\ FrontPart(page)[2] = 2 /\ FrontPart(page)[3] = 3
    BY <1>10, <2>1
  <2> QED
    BY <1>10, <1>12, <2>1, <2>2
<1>13. CASE page <= 3
  <2>1. Len(s) = 0 /\ Len(t) = 0 /\ Len(u) = page - 1 /\ first = 1
    BY <1>1, <1>3, <1>5, <1>7, <1>9, <1>13
  <2>2. \A i \in 1..(page - 1) : FrontPart(page)[i] = i
    BY <1>7, <1>10, <2>1
  <2> QED
    BY <1>10, <1>13, <2>1, <2>2
<1> QED
  BY <1>11, <1>12, <1>13

\* From the page on: all, or two, dots and the last.
LEMMA BackIs ==
    ASSUME NEW last \in Nat, NEW page \in 1..last
    PROVE  /\ BackPart(page, last) \in Seq(Nat)
           /\ page + 3 >= last =>
                 /\ Len(BackPart(page, last)) = last - page + 1
                 /\ \A i \in 1..(last - page + 1) : BackPart(page, last)[i] = page + i - 1
           /\ page + 3 < last =>
                 /\ Len(BackPart(page, last)) = 5
                 /\ \A i \in 1..3 : BackPart(page, last)[i] = page + i - 1
                 /\ BackPart(page, last)[4] = Dots /\ BackPart(page, last)[5] = last
<1>1. CASE page + 3 >= last
  <2>1. BackPart(page, last) = [i \in 1..(last - page + 1) |-> page + i - 1]
    BY <1>1 DEF BackPart, Pages
  <2>2. /\ last - page + 1 \in Nat
        /\ [i \in 1..(last - page + 1) |-> page + i - 1] \in [1..(last - page + 1) -> Nat]
    OBVIOUS
  <2>3. BackPart(page, last) \in Seq(Nat) /\ Len(BackPart(page, last)) = last - page + 1
    BY <2>1, <2>2
  <2> QED
    BY <1>1, <2>1, <2>3
<1>2. CASE page + 3 < last
  <2> DEFINE s == Pages(page, page + 2)
             t == IF page + 2 < last - 1 THEN <<Dots>> ELSE <<>>
             u == <<last>>
  <2>1. s = [i \in 1..3 |-> page + i - 1]
    <3>1. (page + 2) - page + 1 = 3
      OBVIOUS
    <3> QED
      BY <3>1 DEF Pages
  <2>2. s \in Seq(Nat) /\ Len(s) = 3 /\ \A i \in 1..3 : s[i] = page + i - 1
    <3>1. s \in [1..3 -> Nat]
      BY <2>1
    <3> HIDE DEF s
    <3> QED
      BY <2>1, <3>1
  <2>3. t \in Seq(Nat) /\ Len(t) = 1 /\ t[1] = Dots
    BY <1>2 DEF Dots
  <2>4. u \in Seq(Nat) /\ Len(u) = 1 /\ u[1] = last
    OBVIOUS
  <2>5. BackPart(page, last) = (s \o t) \o u
    <3>1. BackPart(page, last) = IF page + 3 >= last THEN Pages(page, last) ELSE (s \o t) \o u
      BY Zenon DEF BackPart
    <3>2. ~(page + 3 >= last)
      BY <1>2
    <3> QED
      BY <3>1, <3>2, Zenon
  <2> HIDE DEF s, t, u
  <2>6. /\ BackPart(page, last) \in Seq(Nat) /\ Len(BackPart(page, last)) = Len(s) + Len(t) + Len(u)
        /\ \A i \in 1..Len(s) : BackPart(page, last)[i] = s[i]
        /\ \A i \in 1..Len(t) : BackPart(page, last)[Len(s) + i] = t[i]
        /\ \A i \in 1..Len(u) : BackPart(page, last)[Len(s) + Len(t) + i] = u[i]
    <3>1. /\ ((s \o t) \o u) \in Seq(Nat) /\ Len(((s \o t) \o u)) = Len(s) + Len(t) + Len(u)
          /\ \A i \in 1..Len(s) : ((s \o t) \o u)[i] = s[i]
          /\ \A i \in 1..Len(t) : ((s \o t) \o u)[Len(s) + i] = t[i]
          /\ \A i \in 1..Len(u) : ((s \o t) \o u)[Len(s) + Len(t) + i] = u[i]
      <4> DEFINE N == Nat
      <4>1. s \in Seq(N) /\ t \in Seq(N) /\ u \in Seq(N)
        BY <2>2, <2>3, <2>4
      <4> HIDE DEF N
      <4>2. (s \o t) \o u \in Seq(N)
        BY <4>1, ThreeParts
      <4> QED
        BY <4>1, <4>2, ThreeParts DEF N
    <3> QED
      BY <2>5, <3>1, Zenon
  <2>7. BackPart(page, last)[3 + 1] = t[1] /\ BackPart(page, last)[3 + 1 + 1] = u[1]
    BY <2>2, <2>3, <2>4, <2>6
  <2> QED
    BY <1>2, <2>2, <2>3, <2>4, <2>6, <2>7
<1> QED
  BY <1>1, <1>2

\* A page beyond the last has links to pages, too.
LEMMA LinksAreNumbers ==
    ASSUME NEW page \in Nat \ {0}, NEW last \in Nat, NEW p \in Links(page, last)
    PROVE  p \in Nat \ {0}
<1>1. BackPart(page, last) \in Seq(Nat)
  <2>1. CASE page <= last
    BY <2>1, BackIs
  <2>2. CASE page > last
    <3>1. BackPart(page, last) = Pages(page, last) /\ last \in Int /\ page \in Nat
      BY <2>2 DEF BackPart
    <3>2. Pages(page, last) \in Seq(Nat)
      BY <3>1, PagesAreNumbers
    <3> QED
      BY <3>1, <3>2
  <2> QED
    BY <2>1, <2>2
<1>2. Window(page, last) \in Seq(Nat)
  <2>1. FrontPart(page) \o BackPart(page, last) \in Seq(Nat)
    BY <1>1, FrontIs, ConcatProperties
  <2>2. Pages(1, last) \in Seq(Nat) /\ <<1>> \in Seq(Nat)
    <3>1. 1 \in Nat /\ last \in Int
      OBVIOUS
    <3>2. Pages(1, last) \in Seq(Nat)
      BY <3>1, PagesAreNumbers
    <3> QED
      BY <3>2
  <2> QED
    BY <2>1, <2>2, WindowParts
<1>3. \A i \in DOMAIN Window(page, last) : Window(page, last)[i] \in Nat
  BY <1>2
<1> HIDE DEF Window
<1> QED
  BY <1>3 DEF Links, Forward, Dots

\* The window has the pages it is meant to have, in order, and dots exactly
\* where some are left out, for every number of pages.
THEOREM WindowIsRight ==
    ASSUME NEW last \in Nat, NEW page \in 1..last
    PROVE  IsWindow(Window(page, last), page, last)
<1> DEFINE w == Window(page, last)
<1>1. CASE last <= 7
  <2>1. w = [i \in 1..last |-> i]
    <3>1. w = Pages(1, last)
      BY <1>1, WindowParts
    <3>2. (last - 1) + 1 = last
      OBVIOUS
    <3>3. Pages(1, last) = [i \in 1..last |-> 1 + i - 1]
      BY <3>2 DEF Pages
    <3> QED
      BY <3>1, <3>3
  <2>2. DOMAIN w = 1..last /\ Len(w) = last /\ \A i \in 1..last : w[i] = i
    BY <2>1
  <2> HIDE DEF w
  <2>3. {w[i] : i \in 1..last} \ {0} = 1..last
    BY <2>2
  <2> QED
    BY <1>1, <2>2, <2>3 DEF IsWindow, Dots, w
<1>2. CASE last > 7
  <2> DEFINE a == FrontPart(page)
             b == BackPart(page, last)
  <2>1. w = a \o b
    BY <1>2, WindowParts
  <2>2. a \in Seq(Nat) /\ b \in Seq(Nat) /\ Len(a) \in Nat /\ Len(b) \in Nat
    BY FrontIs, BackIs, LenProperties
  <2> HIDE DEF w, a, b
  <2>3. /\ Len(w) = Len(a) + Len(b)
        /\ DOMAIN w = 1..(Len(a) + Len(b))
        /\ \A i \in 1..(Len(a) + Len(b)) : w[i] = IF i <= Len(a) THEN a[i] ELSE b[i - Len(a)]
    BY <2>1, <2>2, ConcatProperties, LenProperties
  <2>4. CASE page <= 4
    <3>1. Len(a) = page - 1 /\ \A i \in 1..(page - 1) : a[i] = i
      BY <2>4, FrontIs DEF a
    <3>2. Len(b) = 5 /\ (\A i \in 1..3 : b[i] = page + i - 1) /\ b[4] = 0 /\ b[5] = last
      BY <1>2, <2>4, BackIs DEF b, Dots
    <3>3. b[1] = page /\ b[2] = page + 1 /\ b[3] = page + 2
      BY <3>2
    <3>4. /\ Len(w) = page + 4 /\ DOMAIN w = 1..(page + 4)
          /\ \A i \in 1..(page + 4) :
                w[i] = IF i <= page + 2 THEN i ELSE IF i = page + 3 THEN 0 ELSE last
      BY <2>3, <3>1, <3>2, <3>3
    <3>5. {w[i] : i \in 1..(page + 4)} \ {0}
             = {1, last} \cup {p \in 1..last : page - 2 <= p /\ p <= page + 2}
      BY <1>2, <2>4, <3>4
    <3>6. \A i, j \in DOMAIN w : i < j /\ w[i] # 0 /\ w[j] # 0 => w[i] < w[j]
      BY <1>2, <2>4, <3>4
    <3>7. \A i \in DOMAIN w : w[i] = 0 =>
              i > 1 /\ i < Len(w) /\ w[i - 1] # 0 /\ w[i + 1] > w[i - 1] + 1
      BY <1>2, <2>4, <3>4
    <3>8. \A i \in 1..(Len(w) - 1) : w[i] # 0 /\ w[i + 1] # 0 => w[i + 1] = w[i] + 1
      BY <1>2, <2>4, <3>4
    <3> QED
      BY <1>2, <3>4, <3>5, <3>6, <3>7, <3>8 DEF IsWindow, Dots, w
  <2>5. CASE page > 4 /\ page + 3 >= last
    <3>1. Len(a) = 4 /\ a[1] = 1 /\ a[2] = 0 /\ a[3] = page - 2 /\ a[4] = page - 1
      BY <2>5, FrontIs DEF a, Dots
    <3>2. Len(b) = last - page + 1 /\ \A i \in 1..(last - page + 1) : b[i] = page + i - 1
      BY <2>5, BackIs DEF b
    <3>3. /\ Len(w) = last - page + 5 /\ DOMAIN w = 1..(last - page + 5)
          /\ \A i \in 1..(last - page + 5) :
                w[i] = IF i = 1 THEN 1 ELSE IF i = 2 THEN 0 ELSE page - 5 + i
      <4>1. Len(w) = last - page + 5 /\ DOMAIN w = 1..(last - page + 5)
        BY <2>3, <3>1, <3>2
      <4>2. \A i \in 1..4 : w[i] = a[i]
        BY <2>3, <3>1, <3>2
      <4>3. ASSUME NEW i \in 5..(last - page + 5) PROVE w[i] = page - 5 + i
        <5>1. i - 4 \in 1..(last - page + 1) /\ w[i] = b[i - 4]
          BY <2>3, <3>1, <3>2
        <5> QED
          BY <3>2, <5>1
      <4>4. /\ w[1] = 1 /\ w[2] = 0 /\ w[3] = page - 2 /\ w[4] = page - 1
        BY <3>1, <4>2
      <4> QED
        BY <4>1, <4>3, <4>4
    <3>4. {w[i] : i \in 1..(last - page + 5)} \ {0}
             = {1, last} \cup {p \in 1..last : page - 2 <= p /\ p <= page + 2}
      <4>1. ASSUME NEW p \in 1..last, page - 2 <= p
            PROVE  p \in {w[i] : i \in 1..(last - page + 5)} \ {0}
        <5>1. p - page + 5 \in 1..(last - page + 5) /\ w[p - page + 5] = p
          BY <2>5, <3>3, <4>1
        <5> QED
          BY <5>1
      <4>2. 1 \in {w[i] : i \in 1..(last - page + 5)} \ {0}
        BY <3>3
      <4>3. ASSUME NEW i \in 1..(last - page + 5), w[i] # 0
            PROVE  w[i] \in {1, last} \cup {p \in 1..last : page - 2 <= p /\ p <= page + 2}
        BY <2>5, <3>3, <4>3
      <4> QED
        BY <2>5, <4>1, <4>2, <4>3
    <3>5. \A i, j \in DOMAIN w : i < j /\ w[i] # 0 /\ w[j] # 0 => w[i] < w[j]
      BY <1>2, <2>5, <3>3
    <3>6. \A i \in DOMAIN w : w[i] = 0 =>
              i > 1 /\ i < Len(w) /\ w[i - 1] # 0 /\ w[i + 1] > w[i - 1] + 1
      <4>1. ASSUME NEW i \in DOMAIN w, w[i] = 0 PROVE i = 2
        BY <2>5, <3>3, <4>1
      <4>2. w[1] = 1 /\ w[3] = page - 2 /\ 2 < Len(w)
        BY <2>5, <3>3
      <4>3. w[2 - 1] # 0 /\ w[2 + 1] > w[2 - 1] + 1
        BY <2>5, <4>2
      <4> QED
        BY <4>1, <4>2, <4>3
    <3>7. \A i \in 1..(Len(w) - 1) : w[i] # 0 /\ w[i + 1] # 0 => w[i + 1] = w[i] + 1
      BY <1>2, <2>5, <3>3
    <3> QED
      BY <1>2, <3>3, <3>4, <3>5, <3>6, <3>7 DEF IsWindow, Dots, w
  <2>6. CASE page > 4 /\ page + 3 < last
    <3>1. Len(a) = 4 /\ a[1] = 1 /\ a[2] = 0 /\ a[3] = page - 2 /\ a[4] = page - 1
      BY <2>6, FrontIs DEF a, Dots
    <3>2. Len(b) = 5 /\ (\A i \in 1..3 : b[i] = page + i - 1) /\ b[4] = 0 /\ b[5] = last
      BY <2>6, BackIs DEF b, Dots
    <3>3. b[1] = page /\ b[2] = page + 1 /\ b[3] = page + 2
      BY <3>2
    <3>4. /\ Len(w) = 9 /\ DOMAIN w = 1..9
          /\ w[1] = 1 /\ w[2] = 0 /\ w[8] = 0 /\ w[9] = last
          /\ \A i \in 3..7 : w[i] = page - 5 + i
      BY <2>3, <3>1, <3>2, <3>3
    <3>5. {w[i] : i \in 1..9} \ {0}
             = {1, last} \cup {p \in 1..last : page - 2 <= p /\ p <= page + 2}
      <4>1. ASSUME NEW p \in 1..last, page - 2 <= p, p <= page + 2
            PROVE  p \in {w[i] : i \in 1..9} \ {0}
        <5>1. p - page + 5 \in 3..7 /\ w[p - page + 5] = p
          BY <2>6, <3>4, <4>1
        <5> QED
          BY <5>1
      <4>2. 1 \in {w[i] : i \in 1..9} \ {0} /\ last \in {w[i] : i \in 1..9} \ {0}
        BY <1>2, <3>4
      <4>3. ASSUME NEW i \in 1..9, w[i] # 0
            PROVE  w[i] \in {1, last} \cup {p \in 1..last : page - 2 <= p /\ p <= page + 2}
        BY <2>6, <3>4, <4>3
      <4> QED
        BY <4>1, <4>2, <4>3
    <3>6. \A i, j \in DOMAIN w : i < j /\ w[i] # 0 /\ w[j] # 0 => w[i] < w[j]
      BY <1>2, <2>6, <3>4
    <3>7. \A i \in DOMAIN w : w[i] = 0 =>
              i > 1 /\ i < Len(w) /\ w[i - 1] # 0 /\ w[i + 1] > w[i - 1] + 1
      BY <1>2, <2>6, <3>4
    <3>8. \A i \in 1..(Len(w) - 1) : w[i] # 0 /\ w[i + 1] # 0 => w[i + 1] = w[i] + 1
      BY <1>2, <2>6, <3>4
    <3> QED
      BY <1>2, <3>4, <3>5, <3>6, <3>7, <3>8 DEF IsWindow, Dots, w
  <2> QED
    BY <2>4, <2>5, <2>6
<1> QED
  BY <1>1, <1>2
=============================================================================
