---------------------------- MODULE FreePageSet ----------------------------
(***************************************************************************)
(* What the radix tree of src/algorithm promises its callers: a set of     *)
(* page numbers ("the mere presence of an item in the RadixTree mean that  *)
(* it fulfils some condition") that can be read back in ascending order    *)
(* and drained from its smallest element.  Page 0 is the header page and   *)
(* is never a member; 0 is the answer "no page".                           *)
(***************************************************************************)
EXTENDS Integers, Sequences, FiniteSets

CONSTANTS
    Pages,      \* the page numbers the callers hand in, all of them positive
    Freelists,  \* the arrays handed to freelist_to_radix
    Limits      \* the array capacities handed to radix_to_freelist

VARIABLES
    free,       \* the set of pages in the tree
    ret         \* what the last call handed back, as a sequence of numbers

vars == <<free, ret>>

\* The smallest page of a nonempty set, 0 ("no page") for the empty one.
Smallest(S) == IF S = {} THEN 0 ELSE CHOOSE p \in S : \A q \in S : p <= q

\* The first m pages of S in ascending order.
Ascending(S, m) ==
    LET rank(p) == Cardinality({q \in S : q <= p})
        len     == IF Cardinality(S) < m THEN Cardinality(S) ELSE m
    IN  [i \in 1..len |-> CHOOSE p \in S : rank(p) = i]

Init == free = {} /\ ret = <<>>

Insert(p) == free' = free \cup {p} /\ ret' = <<>>

Delete(p) == free' = free \ {p} /\ ret' = <<>>

Lookup(p) == ret' = (IF p \in free THEN <<1>> ELSE <<0>>) /\ UNCHANGED free

PeekMin == ret' = <<Smallest(free)>> /\ UNCHANGED free

PopMin == ret' = <<Smallest(free)>> /\ free' = free \ {Smallest(free)}

Collect(m) == ret' = Ascending(free, m) /\ UNCHANGED free

Load(list) ==
    /\ free' = free \cup ({list[i] : i \in DOMAIN list} \ {0})
    /\ ret' = <<>>

Recreate == free' = {} /\ ret' = <<>>

Next ==
    \/ \E p \in Pages : Insert(p) \/ Delete(p) \/ Lookup(p)
    \/ PeekMin \/ PopMin \/ Recreate
    \/ \E m \in Limits : Collect(m)
    \/ \E list \in Freelists : Load(list)

Spec == Init /\ [][Next]_vars
=============================================================================
