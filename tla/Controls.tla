------------------------------ MODULE Controls ------------------------------
(***************************************************************************)
(* Two controls a window may hold.  ui/TabControl.hpp: what render draws   *)
(* is a function of the control, so it is an operator here; the step is    *)
(* there for its division by the number of tabs, which traps when there    *)
(* are none.  ui/TreeView.hpp: a forest of nodes and the rows render lays  *)
(* out, by a recursion that carries currentY from node to node; a node's   *)
(* expanded flag is public, and its owner sets it.                         *)
(***************************************************************************)
EXTENDS Integers, FiniteSets, SequencesExt

CONSTANTS
    Contents,        \* widgets that can be put in a tab
    TabsWidth,       \* the tab control's width
    MaxTabs,         \* bound: tabs added
    Node,
    Top,             \* the parent of the root nodes
    NoNode           \* nullptr

VARIABLES
    tabs,            \* of [active, contents]
    activeTab,       \* an index from 0
    trapped,
    children,        \* [Node \cup {Top} -> Seq(Node)]
    expanded,
    selectedIndex

tabVars  == <<tabs, activeTab, trapped>>
treeVars == <<children, expanded, selectedIndex>>
vars == <<tabVars, treeVars>>

Init ==
    /\ tabs = <<>> /\ activeTab = 0 /\ trapped = FALSE
    /\ children = [n \in Node \cup {Top} |-> <<>>]
    /\ expanded = {} /\ selectedIndex = -1

-----------------------------------------------------------------------------
\* TabControl

AddTab ==
    /\ Len(tabs) < MaxTabs
    /\ tabs' = Append(tabs, [active |-> tabs = <<>>, contents |-> <<>>])
    /\ UNCHANGED <<activeTab, trapped, treeVars>>

AddWidgetToTab(tabIndex, k) ==
    /\ IF tabIndex >= 0 /\ tabIndex < Len(tabs)
         THEN tabs' = [tabs EXCEPT ![tabIndex + 1].contents = Append(@, k)]
         ELSE UNCHANGED tabs
    /\ UNCHANGED <<activeTab, trapped, treeVars>>

\* Mutant: the tab active before keeps its flag.
SetActiveKeeps(index) ==
    /\ IF index >= 0 /\ index < Len(tabs)
         THEN /\ tabs' = [tabs EXCEPT ![index + 1].active = TRUE]
              /\ activeTab' = index
         ELSE UNCHANGED <<tabs, activeTab>>
    /\ UNCHANGED <<trapped, treeVars>>

SetActiveTab(index) ==
    /\ IF index >= 0 /\ index < Len(tabs)
         THEN /\ tabs' = [tabs EXCEPT ![activeTab + 1].active = FALSE, ![index + 1].active = TRUE]
              /\ activeTab' = index
         ELSE UNCHANGED <<tabs, activeTab>>
    /\ UNCHANGED <<trapped, treeVars>>

\* The headers render draws, left to right.
Headers ==
    [k \in DOMAIN tabs |->
        LET width == TabsWidth \div Len(tabs)
        IN  [x |-> (k - 1) * width, width |-> width, highlighted |-> (k - 1) = activeTab]]

\* The widgets it renders.
Rendered == IF activeTab < Len(tabs) THEN ToSet(tabs[activeTab + 1].contents) ELSE {}

Render ==
    /\ trapped' = (tabs = <<>>)
    /\ UNCHANGED <<tabs, activeTab, treeVars>>

TabNext ==
    \/ AddTab \/ Render
    \/ \E index \in -1 .. MaxTabs :
          \/ SetActiveTab(index)
          \/ \E k \in Contents :
                /\ \A t \in DOMAIN tabs : ~ Contains(tabs[t].contents, k)    \* bound
                /\ AddWidgetToTab(index, k)

-----------------------------------------------------------------------------
\* TreeView

Added == UNION {ToSet(children[n]) : n \in DOMAIN children}

AddRootNode(n) ==
    /\ n \notin Added
    /\ children' = [children EXCEPT ![Top] = Append(@, n)]
    /\ UNCHANGED <<expanded, selectedIndex, tabVars>>

AddChildNode(parent, n) ==
    /\ n \notin Added
    /\ IF parent = NoNode THEN UNCHANGED children
       ELSE children' = [children EXCEPT ![parent] = Append(@, n)]
    /\ UNCHANGED <<expanded, selectedIndex, tabVars>>

SetExpanded(n) ==
    /\ expanded' = IF n \in expanded THEN expanded \ {n} ELSE expanded \cup {n}
    /\ UNCHANGED <<children, selectedIndex, tabVars>>

NodeHeight  == 20
IndentWidth == 20

\* Mutant: a node's children are laid out whether it is expanded or not.
RECURSIVE RenderAll(_, _, _)
RenderAll(node, level, rows) ==
    LET row == [node |-> node, x |-> level * IndentWidth + 5, y |-> 5 + Len(rows) * NodeHeight,
                selected |-> selectedIndex = 5 + Len(rows) * NodeHeight]
    IN  FoldLeft(LAMBDA rs, child : RenderAll(child, level + 1, rs), Append(rows, row), children[node])

\* renderNode: the rows laid out before node, then its own, then its children's.  The
\* selection is compared with a height in pixels, not with the number of a row.
RECURSIVE RenderNode(_, _, _)
RenderNode(node, level, rows) ==
    LET row == [node |-> node, x |-> level * IndentWidth + 5, y |-> 5 + Len(rows) * NodeHeight,
                selected |-> selectedIndex = 5 + Len(rows) * NodeHeight]
    IN  IF node \in expanded
          THEN FoldLeft(LAMBDA rs, child : RenderNode(child, level + 1, rs), Append(rows, row), children[node])
          ELSE Append(rows, row)

Rows == FoldLeft(LAMBDA rs, node : RenderNode(node, 0, rs), <<>>, children[Top])

TreeNext ==
    \E n \in Node :
        \/ AddRootNode(n)
        \/ \E parent \in Added \cup {NoNode} : AddChildNode(parent, n)
        \/ n \in Added /\ SetExpanded(n)

-----------------------------------------------------------------------------

\* The trap ends the program.
Next == ~ trapped /\ (TabNext \/ TreeNext)

Spec == Init /\ [][Next]_vars

-----------------------------------------------------------------------------
\* Properties

TypeOK ==
    /\ tabs \in Seq([active : BOOLEAN, contents : Seq(Contents)])
    /\ activeTab \in Nat /\ trapped \in BOOLEAN
    /\ children \in [Node \cup {Top} -> Seq(Node)]
    /\ expanded \subseteq Node /\ selectedIndex = -1

\* The two records of the active tab agree - each tab's flag and the index - from the
\* first tab on, also when an index out of range is asked for; and of what is drawn
\* one header is highlighted, and the headers share the width without overlap.
TabsAgree ==
    /\ \A k \in DOMAIN tabs : tabs[k].active <=> (k - 1) = activeTab
    /\ tabs # <<>> => \E k \in DOMAIN tabs :
          /\ Headers[k].highlighted /\ Rendered = ToSet(tabs[k].contents)
          /\ \A j \in DOMAIN tabs \ {k} : ~ Headers[j].highlighted
    /\ \A j, k \in DOMAIN tabs : j < k => Headers[j].x + Headers[j].width <= Headers[k].x
    /\ \A k \in DOMAIN tabs : Headers[k].x + Headers[k].width <= TabsWidth
ParentOf(n) == CHOOSE p \in Node \cup {Top} : Contains(children[p], n)

\* Reference: the node and those it is under, up to a root.
RECURSIVE Ancestors(_)
Ancestors(n) == IF ParentOf(n) = Top THEN {} ELSE {ParentOf(n)} \cup Ancestors(ParentOf(n))

\* The rows are the nodes all of whose ancestors are expanded, each once, at its depth,
\* 20 pixels apart, a node's subtree right under it and before its next sibling's
\* (55-94), whatever the order nodes were added and opened in; none shows as selected.
RowsShowForest ==
    LET rows == Rows
        at(n) == CHOOSE k \in DOMAIN rows : rows[k].node = n
        shown == {rows[k].node : k \in DOMAIN rows}
    IN  /\ Cardinality(shown) = Len(rows)
        /\ shown = {n \in Added : Ancestors(n) \subseteq expanded}
        /\ \A k \in DOMAIN rows :
              /\ rows[k].y = 5 + (k - 1) * NodeHeight /\ ~ rows[k].selected
              /\ rows[k].x = 5 + Cardinality(Ancestors(rows[k].node)) * IndentWidth
        /\ \A n, m \in shown :
              (n # m /\ at(n) < at(m) /\ n \notin Ancestors(m)) =>
                  \A d \in shown : n \in Ancestors(d) => at(d) < at(m)
=============================================================================
