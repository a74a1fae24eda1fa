----------------------------- MODULE Pagination -----------------------------
(***************************************************************************)
(* The arithmetic of the class Pagination: which of the users a page       *)
(* shows, and which pages it links to.                                     *)
(***************************************************************************)
EXTENDS Integers, Sequences

\* Mutated form of TotalPages: the page that is not full is forgotten.
TotalPagesFull(total, perPage) == total \div perPage

\* _calculate_total_pages.
TotalPages(total, perPage) ==
    total \div perPage + (IF total % perPage = 0 THEN 0 ELSE 1)

\* The places in the ordered list that offset and limit select.
Slice(page, perPage, total) ==
    {i \in 1..total : perPage * (page - 1) < i /\ i <= perPage * page}

AtMost(x, bound) == IF x > bound THEN bound ELSE x

\* info: "Displaying users start - end of total".
Info(page, perPage, total) ==
    LET start == 1 + (page - 1) * perPage
    IN  [start |-> AtMost(start, total), end |-> AtMost(start + perPage - 1, total)]

Dots == 0

Pages(first, last) == [i \in 1..(last - first + 1) |-> first + i - 1]

\* Mutated form of Window: the dots before the page also when nothing is left out.
WindowWithIdleDots(page, last) ==
    IF last > 7
    THEN (IF page > 3 THEN <<1, Dots>> ELSE <<>>)
         \o Pages(IF page > 3 THEN page - 2 ELSE 1, page - 1)
         \o IF page + 3 >= last THEN Pages(page, last)
            ELSE Pages(page, page + 2) \o <<Dots, last>>
    ELSE IF last = 0 THEN <<1>> ELSE Pages(1, last)

\* calculate_pages_window, around page, of last pages; Dots for the separator.
Window(page, last) ==
    IF last > 7
    THEN (IF page > 3 THEN <<1>> ELSE <<>>)
         \o (IF page > 4 THEN <<Dots>> ELSE <<>>)
         \o Pages(IF page > 3 THEN page - 2 ELSE 1, page - 1)
         \o IF page + 3 >= last THEN Pages(page, last)
            ELSE Pages(page, page + 2)
                 \o (IF page + 2 < last - 1 THEN <<Dots>> ELSE <<>>)
                 \o <<last>>
    ELSE IF last = 0 THEN <<1>> ELSE Pages(1, last)

\* Mutated form of Forward: the arrow is there on the last page, too.
ForwardAlways(page, last) == TRUE

\* The arrow to the next page is alive.
Forward(page, last) == page < last

\* links: the pages a page leads to; with a single page there is no bar.
Links(page, last) ==
    LET shown == Window(page, last)
    IN  IF last = 1 THEN {}
        ELSE ({shown[i] : i \in DOMAIN shown} \ {page, Dots})
             \cup (IF page > 1 THEN {page - 1} ELSE {})
             \cup (IF Forward(page, last) THEN {page + 1} ELSE {})

-----------------------------------------------------------------------------

\* The window that the code's before_page = after_page = 2 and its comments are
\* for: the first and the last page and two on each side, or all when at most
\* seven, in order, with dots exactly where some are left out.  The docstring
\* (the current page and the five after it, the last two and the first) says
\* something else: of eight pages it would have all on page 1, this has 1 2 3 .. 8.
IsWindow(w, page, last) ==
    LET pages == IF last > 7 THEN {1, last} \cup {p \in 1..last : page - 2 <= p /\ p <= page + 2}
                 ELSE 1..last
    IN  /\ {w[i] : i \in DOMAIN w} \ {Dots} = pages
        /\ \A i, j \in DOMAIN w :
              i < j /\ w[i] # Dots /\ w[j] # Dots => w[i] < w[j]
        /\ \A i \in DOMAIN w : w[i] = Dots =>
              /\ i > 1 /\ i < Len(w)
              /\ w[i - 1] # Dots /\ w[i + 1] > w[i - 1] + 1
        /\ \A i \in 1..(Len(w) - 1) :
              w[i] # Dots /\ w[i + 1] # Dots => w[i + 1] = w[i] + 1
=============================================================================
