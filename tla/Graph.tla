------------------------------- MODULE Graph -------------------------------
(***************************************************************************)
(* The links between the articles of a domain, and the two views of them:  *)
(* the neighbourhood of an article (GET /graph) and the tree of the        *)
(* domain's pages (domain_tree).                                           *)
(*                                                                         *)
(* Jobs add articles and links, never remove them.  A view reads one       *)
(* snapshot of the links; the tree has listed the articles before that, in *)
(* a snapshot of its own, so that it may know links of articles it does    *)
(* not know.  Nothing is written here between the last read of a view and  *)
(* its end: the view would not see it.  What comes first among children    *)
(* and among roots (titles) is left open.                                  *)
(***************************************************************************)
EXTENDS Integers, FiniteSets, Sequences

CONSTANTS
    Articles,   \* ids
    WikiTypes,  \* link_types of the wiki's settings: those that jobs write
    GraphTypes, \* link_types of the graph's settings: those that GET /graph shows
    MaxDepth    \* max_depth of the graph's settings

ASSUME GraphAssumption == MaxDepth \in Nat /\ {"top", "absent"} \cap Articles = {}

VARIABLES
    articles,  \* SUBSET Articles      committed
    links,     \* SUBSET Link          committed
    view,      \* Views                what is being read, and how far it is
    edges,     \* SUBSET (Articles \X Articles)   as read
    visited,   \* SUBSET Articles
    search,    \* Subsearch             build_subgraph
    stack,     \* Seq(Articles)        build_tree: the calls of attach, innermost first
    under      \* [Articles -> Articles \cup Places]   build_tree: whose child it is

graphVars == <<articles, links, view, edges, visited, search, stack, under>>
store == <<articles, links>>

Link == Articles \X Articles \X (WikiTypes \cup GraphTypes)
Views == {"none", "subgraph", "list", "tree"}

\* An article of the top level, and one that the tree does not have.
Places == {"top", "absent"}
Subsearch == [root : Articles \cup {"absent"}, depth : 0..MaxDepth, left : 0..MaxDepth,
           frontier : SUBSET Articles]
NoSearch == [root |-> "absent", depth |-> 0, left |-> 0, frontier |-> {}]

-----------------------------------------------------------------------------
(* Jobs *)

Writable == view \in {"none", "list"}

AddArticle(a) ==
    /\ Writable
    /\ a \notin articles
    /\ articles' = articles \cup {a}
    /\ UNCHANGED <<links, view, edges, visited, search, stack, under>>

\* GraphRepo.link: not to itself, and a link that is there is left alone.
AddLink(a, b, t) ==
    /\ Writable
    /\ {a, b} \subseteq articles
    /\ a # b
    /\ <<a, b, t>> \notin links
    /\ links' = links \cup {<<a, b, t>>}
    /\ UNCHANGED <<articles, view, edges, visited, search, stack, under>>

-----------------------------------------------------------------------------
(* build_subgraph *)

\* Fault: the depth has no ceiling.
ClampBelow(d) == IF d < 0 THEN 0 ELSE d

\* The depth that is asked for, within the limits.
Clamp(d) == IF d < 0 THEN 0 ELSE IF d > MaxDepth THEN MaxDepth ELSE d

\* GraphService.subgraph, and the links of these types.
BeginSubgraph(r, d, types) ==
    /\ view = "none"
    /\ r \in articles
    /\ view' = "subgraph"
    /\ edges' = {<<l[1], l[2]>> : l \in {k \in links : k[3] \in types \cap GraphTypes}}
    /\ visited' = {r}
    /\ search' = [root |-> r, depth |-> Clamp(d), left |-> Clamp(d), frontier |-> {r}]
    /\ UNCHANGED <<store, stack, under>>

\* Fault: only the links from an article are followed.
SuccessorsOf(A) == {b \in Articles : \E a \in A : <<a, b>> \in edges}

\* adjacency
Neighbours(A) == {b \in Articles : \E a \in A : <<a, b>> \in edges \/ <<b, a>> \in edges}

\* One round.
Expand ==
    /\ view = "subgraph"
    /\ search.left > 0 /\ search.frontier # {}
    /\ LET new == Neighbours(search.frontier) \ visited IN
        /\ visited' = visited \cup new
        /\ search' = [search EXCEPT !.left = @ - 1, !.frontier = new]
    /\ UNCHANGED <<store, view, edges, stack, under>>

Found == view = "subgraph" /\ (search.left = 0 \/ search.frontier = {})

-----------------------------------------------------------------------------
(* build_tree *)

\* domain_tree lists the articles.
BeginTree ==
    /\ view = "none"
    /\ view' = "list"
    /\ visited' = articles
    /\ UNCHANGED <<store, edges, search, stack, under>>

\* normalize_parent_child: a pair of a parent and a child.
ParentChild(l) == IF l[3] = "child" THEN <<l[1], l[2]>> ELSE <<l[2], l[1]>>

Placed(a) == under[a] # "absent"
Unplaced == {a \in visited : ~Placed(a)}

\* parent_child_raw, and the pairs of articles that are listed.
ReadPairs ==
    /\ view = "list"
    /\ view' = "tree"
    /\ edges' = {ParentChild(l) : l \in {k \in links : k[3] \in {"parent", "child"}}}
                  \cap (visited \X visited)
    /\ UNCHANGED <<store, visited, search, stack, under>>

IsChild(a) == \E p \in visited : <<p, a>> \in edges

\* The roots, then whatever is left.
NextTop(a) == a \in Unplaced /\ (IsChild(a) => \A b \in Unplaced : IsChild(b))

AttachTop(a) ==
    /\ view = "tree"
    /\ stack = <<>>
    /\ NextTop(a)
    /\ under' = [under EXCEPT ![a] = "top"]
    /\ stack' = <<a>>
    /\ UNCHANGED <<store, view, edges, visited, search>>

AttachChild(a) ==
    /\ view = "tree"
    /\ stack # <<>>
    /\ a \in Unplaced
    /\ <<Head(stack), a>> \in edges
    /\ under' = [under EXCEPT ![a] = Head(stack)]
    /\ stack' = <<a>> \o stack
    /\ UNCHANGED <<store, view, edges, visited, search>>

\* attach returns.
Attached ==
    /\ view = "tree"
    /\ stack # <<>>
    /\ \A a \in Unplaced : <<Head(stack), a>> \notin edges
    /\ stack' = Tail(stack)
    /\ UNCHANGED <<store, view, edges, visited, search, under>>

Complete == view = "tree" /\ stack = <<>> /\ \A a \in visited : ~NextTop(a)

-----------------------------------------------------------------------------
\* The view is sent.
EndView ==
    /\ Found \/ Complete
    /\ view' = "none"
    /\ edges' = {} /\ visited' = {}
    /\ search' = NoSearch
    /\ under' = [a \in Articles |-> "absent"]
    /\ UNCHANGED <<store, stack>>

GraphInit ==
    /\ articles = {} /\ links = {}
    /\ view = "none" /\ edges = {} /\ visited = {}
    /\ search = NoSearch
    /\ stack = <<>>
    /\ under = [a \in Articles |-> "absent"]

ViewStep ==
    \/ Expand \/ ReadPairs \/ Attached \/ EndView
    \/ \E a \in Articles : AttachTop(a) \/ AttachChild(a)

GraphNext ==
    \/ \E a \in Articles : AddArticle(a)
    \/ \E a, b \in Articles, t \in WikiTypes : AddLink(a, b, t)
    \/ \E r \in Articles, d \in -1..(MaxDepth + 1), types \in SUBSET WikiTypes :
        BeginSubgraph(r, d, types)
    \/ BeginTree \/ ViewStep

GraphSpec == GraphInit /\ [][GraphNext]_graphVars

-----------------------------------------------------------------------------
(* Properties *)

GraphTypeOK ==
    /\ articles \subseteq Articles /\ links \subseteq Link
    /\ view \in Views
    /\ edges \subseteq Articles \X Articles
    /\ visited \subseteq Articles
    /\ search \in Subsearch
    /\ stack \in Seq(Articles)
    /\ under \in [Articles -> Articles \cup Places]

\* A walk along n links, in whichever direction, from a to b.
Walk(a, b, n) ==
    \E p \in [0..n -> Articles] :
        /\ p[0] = a /\ p[n] = b
        /\ \A i \in 1..n : <<p[i - 1], p[i]>> \in edges \/ <<p[i], p[i - 1]>> \in edges

\* b is linked from a, by parents of parents: it is in whatever has a and the children
\* of all that it has.
Above(a, b) ==
    \A S \in SUBSET visited :
        a \in S /\ (\A e \in edges : e[1] \in S => e[2] \in S) => b \in S

\* build_subgraph: the neighbourhood is exactly what walks of that many links reach.
NeighbourhoodIsWhole ==
    Found => visited = {b \in Articles : \E n \in 0..search.depth : Walk(search.root, b, n)}

\* build_tree: whatever cycles the links have, the tree has every listed article, in
\* one place, below a parent of its own or at the top; and at the top only if it has
\* no parent or is in no reach of an article that has none.  From each one goes up to
\* the top: no articles have all their places below each other.
TreeIsWhole ==
    Complete =>
        /\ \A a \in visited :
            /\ Placed(a)
            /\ IF under[a] = "top"
               THEN IsChild(a) => ~\E r \in visited : ~IsChild(r) /\ Above(r, a)
               ELSE <<under[a], a>> \in edges
        /\ \A S \in SUBSET visited : S # {} => \E a \in S : under[a] \notin S

\* GET /graph and the tree of the pages leave nothing out, whatever the links are and
\* whatever jobs add while they read.
ViewsAreWhole == NeighbourhoodIsWhole /\ TreeIsWhole
=============================================================================
