----------------------------- MODULE RadixTree -----------------------------
(***************************************************************************)
(* src/algorithm/radix_tree.c: the 4-level, 16-way tree of page numbers    *)
(* that tracks free pages.  A RadixNode below the root is identified by    *)
(* the 4-bit digits on the way to it, so <<level, prefix>> stands for a    *)
(* non-NULL child pointer and the state of a tree is the set of those      *)
(* nodes.  The root is part of RadixTree itself and always there.  The     *)
(* arena only supplies the memory of nodes: a pruned node is unreachable.  *)
(***************************************************************************)
EXTENDS Integers, Sequences, FiniteSets, SequencesExt

CONSTANTS
    Pages,      \* the page numbers the callers hand in
    Freelists,  \* the arrays handed to freelist_to_radix
    Limits      \* the array capacities handed to radix_to_freelist

UINT16_MAX  == 65535
PageNumbers == 0 .. UINT16_MAX

ASSUME PagesAre16Bit == Pages \subseteq PageNumbers

ASSUME FreelistsHoldPages ==
    \A list \in Freelists : \A i \in DOMAIN list : list[i] \in PageNumbers

ASSUME LimitsAreSizes == Limits \subseteq Nat

VARIABLES
    nodes,      \* the nodes that hang below tree->root
    ret         \* what the last call returned or wrote to the caller's array

vars == <<nodes, ret>>

----------------------------------------------------------------------------
RADIX_SIZE == 16
LEVELS     == 4
Root       == <<0, 0>>
NoNode     == -1                        \* the descent met a node with no child

\* page_no >> ((4 - level) * RADIX_BITS): the digits of a page number that
\* lead to a level, and the node of its path there.
Shifts(p)        == <<p \div 4096, p \div 256, p \div 16, p>>
PrefixAt(p, level) == Shifts(p)[level]
PathNode(p, level) == <<level, PrefixAt(p, level)>>

\* The children[] indices of a node that are not NULL.
Children(N, level, prefix) ==
    {i \in 0 .. RADIX_SIZE - 1 : <<level + 1, RADIX_SIZE * prefix + i>> \in N}

\* The nodes on the paths of a set of pages.
Paths(K) == {PathNode(p, level) : p \in K, level \in 1 .. LEVELS}

HasPath(N, p) == \A level \in 1 .. LEVELS : PathNode(p, level) \in N

\* The pages whose leaf is in the tree.
Keys(N) == {n[2] : n \in {x \in N : x[1] = LEVELS}}

----------------------------------------------------------------------------
radix_tree_insert(N, p) == N \cup Paths({p})

radix_tree_lookup(N, p) == p # 0 /\ HasPath(N, p)

\* Mutant: the cleanup loop without its has_children test.
PruneAlways(N, p, level) == N \ {PathNode(p, level)}

\* One round of the cleanup loop: a node without children goes.  A node that
\* stays is a child of its parent, so the rounds above it change nothing and
\* the loop's break needs no case of its own.
Prune(N, p, level) ==
    IF Children(N, level, PrefixAt(p, level)) = {}
    THEN N \ {PathNode(p, level)} ELSE N

\* Mutant: the leaf goes and nothing is cleaned up.
DeleteLeafOnly(N, p) == N \ {PathNode(p, LEVELS)}

radix_tree_delete(N, p) ==
    IF p = 0 \/ ~HasPath(N, p) THEN N
    ELSE Prune(Prune(Prune(N \ {PathNode(p, 4)}, p, 3), p, 2), p, 1)

\* Mutant: the descent tries the children from index 1 on.
LeftChildFromOne(N, level, prefix) ==
    LET C == Children(N, level, prefix) \ {0}
    IN  IF prefix = NoNode \/ C = {} THEN NoNode
        ELSE RADIX_SIZE * prefix + (CHOOSE i \in C : \A j \in C : i <= j)

\* One round of the leftmost descent, from a node to its first child.
LeftChild(N, level, prefix) ==
    LET C == Children(N, level, prefix)
    IN  IF prefix = NoNode \/ C = {} THEN NoNode
        ELSE RADIX_SIZE * prefix + (CHOOSE i \in C : \A j \in C : i <= j)

Leftmost(N) ==
    LeftChild(N, 3, LeftChild(N, 2, LeftChild(N, 1, LeftChild(N, 0, 0))))

\* Mutant: the answer for an empty tree is not 0.
PeekMinUnchecked(N) == Leftmost(N)

radix_tree_peek_min(N) == IF Leftmost(N) = NoNode THEN 0 ELSE Leftmost(N)

\* One call of walk_radix, given what the calls for the children hand to
\* collect_pages: nothing below a NULL child, children by rising index.
WalkNode(N, walk, n) ==
    IF n[1] = LEVELS THEN <<n[2]>>
    ELSE FlattenSeq([k \in 1 .. RADIX_SIZE |->
             LET child == <<n[1] + 1, RADIX_SIZE * n[2] + k - 1>>
             IN  IF child \in N THEN walk[child] ELSE <<>>])

WalkFrom(N) ==
    LET walk[n \in N \cup {Root}] == WalkNode(N, walk, n)
    IN  walk[Root]

\* collect_pages drops what the caller's array has no room for.
radix_to_freelist(N, max_size) ==
    LET pages == WalkFrom(N)
    IN  SubSeq(pages, 1, IF Len(pages) < max_size THEN Len(pages) ELSE max_size)

\* Mutant: zeros in the list are inserted as well.
LoadWithZeros(N, list) ==
    N \cup UNION {radix_tree_insert({}, list[i]) : i \in DOMAIN list}

freelist_to_radix(N, list) ==
    N \cup UNION {radix_tree_insert({}, list[i]) :
                      i \in {k \in DOMAIN list : list[k] # 0}}

----------------------------------------------------------------------------
Init == nodes = {} /\ ret = <<>>

Insert(p) == nodes' = radix_tree_insert(nodes, p) /\ ret' = <<>>

Delete(p) == nodes' = radix_tree_delete(nodes, p) /\ ret' = <<>>

Lookup(p) ==
    /\ ret' = (IF radix_tree_lookup(nodes, p) THEN <<1>> ELSE <<0>>)
    /\ UNCHANGED nodes

PeekMin == ret' = <<radix_tree_peek_min(nodes)>> /\ UNCHANGED nodes

\* An empty tree answers 0 before the delete; delete(0) is a no-op as well.
PopMin ==
    /\ ret' = <<radix_tree_peek_min(nodes)>>
    /\ nodes' = radix_tree_delete(nodes, radix_tree_peek_min(nodes))

Collect(m) == ret' = radix_to_freelist(nodes, m) /\ UNCHANGED nodes

Load(list) == nodes' = freelist_to_radix(nodes, list) /\ ret' = <<>>

\* radix_tree_destroy followed by radix_tree_create.
Recreate == nodes' = {} /\ ret' = <<>>

Next ==
    \/ \E p \in Pages : Insert(p) \/ Delete(p) \/ Lookup(p)
    \/ PeekMin \/ PopMin \/ Recreate
    \/ \E m \in Limits : Collect(m)
    \/ \E list \in Freelists : Load(list)

Spec == Init /\ [][Next]_vars

----------------------------------------------------------------------------
TypeOK ==
    /\ nodes \subseteq Paths(PageNumbers)
    /\ ret \in Seq(PageNumbers)

\* The tree is exactly the paths of its pages: radix_tree_delete leaves no
\* inner node that leads nowhere and cuts no path another page still needs.
\* Both descents of the code (always to the first child, never back) rely on it.
PathsComplete == nodes = Paths(Keys(nodes))

\* The first-child descent of radix_tree_peek_min and radix_tree_pop_min ends
\* at the smallest page of the tree, and answers 0 only for an empty tree.
LeftmostIsSmallest ==
    IF Keys(nodes) = {} THEN Leftmost(nodes) = NoNode
    ELSE /\ Leftmost(nodes) \in Keys(nodes)
         /\ \A p \in Keys(nodes) : Leftmost(nodes) <= p

\* radix_tree_pop_min removes the page it returns, and that page only
\* ("Get and remove the smallest page number in the tree").
PopMinRemovesSmallest ==
    [][PopMin /\ Keys(nodes) # {} =>
         /\ Keys(nodes') = Keys(nodes) \ {ret'[1]}
         /\ ret'[1] \in Keys(nodes)
         /\ \A p \in Keys(nodes) : ret'[1] <= p]_vars

\* The tree of nodes behaves as the set of its pages: every call, the walk to
\* a freelist and the load from one included, answers as FreePageSet does.
AbstractSet == INSTANCE FreePageSet WITH free <- Keys(nodes)
ImplementsFreePageSet == AbstractSet!Spec
=============================================================================
