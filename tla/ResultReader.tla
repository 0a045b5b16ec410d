----------------------------- MODULE ResultReader -----------------------------
(***************************************************************************)
(* What paging through a report promises its reader: the rows of one result *)
(* arrive in pages, each once, until all have arrived.                      *)
(***************************************************************************)
EXTENDS Naturals, Sequences

CONSTANT PageSize    \* rows of a page

VARIABLES
    open,       \* the reader has begun
    result,     \* the rows of the report, truncated to its limit
    delivered   \* the rows read so far, in order

vars == <<open, result, delivered>>

Delivered == {delivered[i] : i \in DOMAIN delivered}

Init == open = FALSE /\ result = {} /\ delivered = <<>>

Open ==
    /\ ~open
    /\ open' = TRUE
    /\ result' # {}
    /\ UNCHANGED delivered

\* A page holds rows not delivered before, none of them twice.
Deliver ==
    /\ open
    /\ \E size \in 1..PageSize :
          \E page \in [1..size -> result \ Delivered] :
             /\ \A i, k \in 1..size : page[i] = page[k] => i = k
             /\ delivered' = delivered \o page
    /\ UNCHANGED <<open, result>>

Next == Open \/ Deliver

Spec == Init /\ [][Next]_vars /\ WF_vars(Deliver)

=============================================================================
