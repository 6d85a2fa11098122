---------------------------- MODULE SimplifyDOM -----------------------------
(***************************************************************************)
(* simplifyDOM of internal/extractor/postprocess.go: passes over the tree  *)
(* of an article, each of which replaces nodes by their children or by     *)
(* nothing, until one changes nothing.                                     *)
(* Operators called Faulty... are mistaken variants, as in module Worker.  *)
(***************************************************************************)
EXTENDS Naturals, Sequences, SequencesExt, FiniteSets

CONSTANTS
  Tags,      \* the tags of nodes, "text" for text
  Articles,  \* the lists of children that the root may have
  MaxDepth   \* bound: the levels of an article, its root included

(* A node: its tag, which attributes it has - "data" for
   data-*, "label" for the one of a placeholder image, "class" for any other -
   and its children.  mark tells pieces of content apart. *)
Node(tag, attrs, kids, mark) ==
  [tag |-> tag, attrs |-> attrs, kids |-> kids, mark |-> mark]

\* Text has nothing below it; elements that have at most d levels, their own
\* included, have children with one level less.
Text == [tag : {"text"}, attrs : {{}}, kids : {<<>>}, mark : Nat]
Elements(below) ==
  [tag : Tags \ {"text"}, attrs : SUBSET STRING, kids : Seq(below), mark : Nat]

Tree[d \in 0..MaxDepth] == IF d = 0 THEN {} ELSE Text \cup Elements(Tree[d - 1])

ASSUME SimplifyAssumption ==
  /\ {"text", "div"} \subseteq Tags
  /\ MaxDepth \in Nat \ {0}
  /\ Articles # {} /\ Articles \subseteq Seq(Tree[MaxDepth - 1])

VARIABLES
  root,     \* the node that readability returned: a div without a parent
  changed,  \* the last pass changed the tree
  original  \* ghost: the root before the first pass

svars == <<root, changed, original>>

SimplifyInit ==
  /\ root \in {Node("div", {}, kids, 0) : kids \in Articles}
  /\ changed = TRUE
  /\ original = root

blockChildTags == {"h2", "figure", "ul", "table", "hr", "div", "p"}
hasBlockChild(kids) == \E i \in DOMAIN kids : kids[i].tag \in blockChildTags
figureParent(parent) == parent \in {"figure", "picture"}
isPlaceholderImage(n) == n.tag = "img" /\ "label" \in n.attrs
stripDataAttrs(attrs) == attrs \ {"data"}

(* n is replaced by its children: attrs and kids are what they are after
   data-* is stripped and the children are done, parent is the tag of its
   parent as it is during the pass. *)
FaultyUnwrapped(n, attrs, kids, parent) ==
  \/ n.tag = "p" /\ hasBlockChild(n.kids)
  \/ n.tag \in {"div", "span"} /\ attrs = {}
Unwrapped(n, attrs, kids, parent) ==
  \/ n.tag = "p" /\ (hasBlockChild(kids) \/ figureParent(parent))
  \/ n.tag \in {"div", "span"} /\ attrs = {}

FaultyUnwrapNode(kids) == Reverse(kids)
FaultyWrapInDiv(kids) == <<Node("div", {}, kids, 0)>>

\* What unwrapNode puts in the place of n.
unwrapNode(kids) == kids

\* What the passes over the children of a node leave of them, and report.
Joined(below) == FlattenSeq([i \in DOMAIN below |-> below[i].nodes])
AnyChanged(below) == \E i \in DOMAIN below : below[i].changed

(* simplifyPass of n under a node with tag parent, when it has gone through
   the children: the nodes n is replaced by. *)
Simplified(n, parent, below) ==
  LET kids == Joined(below)
      attrs == stripDataAttrs(n.attrs)
  IN IF n.tag = "text" THEN [nodes |-> <<n>>, changed |-> FALSE]
     ELSE IF isPlaceholderImage(n) THEN [nodes |-> <<>>, changed |-> TRUE]
     ELSE IF Unwrapped(n, attrs, kids, parent)
          THEN [nodes |-> unwrapNode(kids), changed |-> TRUE]
          ELSE [nodes |-> <<Node(n.tag, attrs, kids, n.mark)>>, changed |-> AnyChanged(below)]

\* It calls itself for the children first.
Pass[d \in 0..MaxDepth] ==
  [n \in Tree[d] |-> [parent \in Tags |->
     Simplified(n, parent, [i \in DOMAIN n.kids |-> Pass[d - 1][n.kids[i]][n.tag]])]]

BelowRoot == [i \in DOMAIN root.kids |-> Pass[MaxDepth - 1][root.kids[i]]["div"]]

\* A pass over the whole tree; the root itself has no parent and stays.
SimplifyPass ==
  /\ changed
  /\ root' = [root EXCEPT !.kids = Joined(BelowRoot)]
  /\ changed' = AnyChanged(BelowRoot)
  /\ UNCHANGED original

SimplifySpec == SimplifyInit /\ [][SimplifyPass]_svars /\ WF_svars(SimplifyPass)

-----------------------------------------------------------------------------
\* The text and the pictures of an article, in reading order.
Contents[d \in 0..MaxDepth] ==
  [n \in Tree[d] |->
     IF n.tag \in {"text", "img"}
     THEN IF isPlaceholderImage(n) THEN <<>> ELSE <<n.mark>>
     ELSE FlattenSeq([i \in DOMAIN n.kids |-> Contents[d - 1][n.kids[i]]])]

\* n and all that is below it, an entry for each node.
Listing[d \in 0..MaxDepth] ==
  [n \in Tree[d] |->
     <<n.mark>> \o FlattenSeq([i \in DOMAIN n.kids |-> Listing[d - 1][n.kids[i]]])]

\* The nodes below n, each with the tag of its parent.
Below[d \in 0..MaxDepth] ==
  [n \in Tree[d] |->
     UNION {{<<n.kids[i], n.tag>>} \cup Below[d - 1][n.kids[i]] : i \in DOMAIN n.kids}]

\* n under a node with tag parent is one of those the comment on simplifyDOM lists.
Quirk(n, parent) ==
  \/ n.tag = "p" /\ (hasBlockChild(n.kids) \/ figureParent(parent))
  \/ n.tag \in {"div", "span"} /\ n.attrs = {}
  \/ isPlaceholderImage(n)
  \/ "data" \in n.attrs

(* Nothing of the article is lost or moved, in whatever order wrappers are
   unwrapped; only placeholder images go. *)
ContentsKept == Contents[MaxDepth][root] = Contents[MaxDepth][original]

(* "Runs to a fixed point so cascades work": when no pass changes anything any
   more, none of the listed quirks is left, at any depth. *)
TidyInTheEnd ==
  ~changed => \A b \in Below[MaxDepth][root] : ~Quirk(b[1], b[2])

(* A pass that reports a change has replaced a node by its children or by
   nothing; none makes nodes that the next one must undo. *)
PassesShrink ==
  [][changed' => Len(Listing[MaxDepth][root']) < Len(Listing[MaxDepth][root])]_svars

\* The loop ends, for no pass can shrink the tree for ever.
LoopEnds == <>(~changed)

=============================================================================
