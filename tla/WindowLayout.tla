----------------------------- MODULE WindowLayout -----------------------------
(***************************************************************************)
(* The windows of pulse-visualizer and what is in them.                     *)
(*                                                                         *)
(* Config::options.visualizers maps the name of a window ("main", "win_1",  *)
(* ...) to a tree: a leaf is a visualizer, an inner node is a splitter with *)
(* two children.  SDLWindow::states maps the same names to SDL windows.     *)
(* Three things change the trees: the mouse, which drags one visualizer     *)
(* onto another; the menu, which moves a visualizer to another window; and  *)
(* a changed configuration file.  All of them run on the main thread, so    *)
(* what can go wrong is not a race but one call inside another: a handler   *)
(* changes the tree while walkTree is still going through it, and the menu  *)
(* remembers across frames where a visualizer was picked up.                *)
(*                                                                         *)
(* The trees are modelled as the heap they are: a place is a root or a      *)
(* child slot of a splitter, and child says what is in it.  Sizes, ratios   *)
(* and orientations are left out; a drop on an edge is "before" (top, left) *)
(* or "after" (bottom, right).                                              *)
(***************************************************************************)
EXTENDS Naturals, FiniteSets, Sequences, SequencesExt

CONSTANTS
  Visualizers,   (* the registered ones                                    *)
  Splitters,     (* addresses a splitter may have; bounds the trees        *)
  Nothing,       (* an empty place; no visualizer                          *)
  MaxWindows,    (* bound: windows beside the main one                     *)
  MaxShown       (* bound: visualizers shown, one that is twice counts twice *)

ASSUME LayoutAssumption ==
  /\ IsFiniteSet(Visualizers) /\ IsFiniteSet(Splitters)
  /\ Visualizers # {}
  /\ Visualizers \cap Splitters = {}
  /\ Nothing \notin Visualizers \cup Splitters
  /\ "root" \notin Splitters
  /\ MaxWindows \in Nat /\ MaxShown \in Nat

Main   == 0                    \* "main"; n stands for "win_n"
Groups == 0..MaxWindows
Hidden == MaxWindows + 1       \* "hidden": the menu's name for no window
NoGroup == MaxWindows + 2      \* w->group of a visualizer never shown

Sides  == {"primary", "secondary"}
Root(g)       == <<"root", g>>
Slot(s, side) == <<s, side>>
Places == ({"root"} \X Groups) \cup (Splitters \X Sides)
Nodes  == Visualizers \cup Splitters

VARIABLES
  child,            \* what is in each place
  windows,          \* SDLWindow::states: "none", "open", or "empty" (an entry
                    \*   that operator[] made, without a window)
  group,            \* VisualizerWindow::group
  dragging,         \* the visualizers whose dragging flag is set
  drag,             \* DragState of the menu; without active the rest is unread
  newWindowCounter, \* of the menu
  walk,             \* WindowManager::handleEvent delivering a button release
  running           \* FALSE: the program died

vars == <<child, windows, group, dragging, drag, newWindowCounter, walk,
          running>>

NoWalk == [group |-> NoGroup, hover |-> Nothing, todo |-> {}, stack |-> <<>>]
NoDrag == [active |-> FALSE, viz |-> Nothing, from |-> Hidden]

Frames == [at : Places, splitter : Splitters \cup {Nothing},
           next : Sides \cup {"visit"}]

TypeOK ==
  /\ child \in [Places -> Nodes \cup {Nothing}]
  /\ windows \in [Groups -> {"none", "open", "empty"}]
  /\ group \in [Visualizers -> Groups \cup {NoGroup}]
  /\ dragging \subseteq Visualizers
  /\ drag \in [active : BOOLEAN, viz : Visualizers \cup {Nothing},
               from : Groups \cup {Hidden}]
  /\ newWindowCounter \in 1..MaxWindows + 1
  /\ walk.group \in Groups \cup {NoGroup}
  /\ walk.hover \in Visualizers \cup {Nothing}
  /\ walk.todo \subseteq Groups
  /\ walk.stack \in Seq(Frames)
  /\ running \in BOOLEAN

-----------------------------------------------------------------------------
(* The trees *)

\* walkTree: the places of a tree in the order they are visited, the
\* splitters after their children.  (A tree passes no splitter twice; left are
\* those that were not passed on the way.)
Visited(c, g) ==
  LET from[left \in SUBSET Splitters] ==
        [p \in Places |->
           IF c[p] = Nothing THEN <<>>
           ELSE IF c[p] \notin left THEN <<p>>
           ELSE LET below == from[left \ {c[p]}]
                IN Append(below[Slot(c[p], "primary")] \o below[Slot(c[p], "secondary")], p)]
  IN from[Splitters][Root(g)]

Tree(c, g)   == ToSet(Visited(c, g))
Leaves(c, g) == {p \in Tree(c, g) : c[p] \in Visualizers}

\* The places of a tree that hold v.
At(c, g, v) == {p \in Tree(c, g) : c[p] = v}

\* The place of P that walkTree visits first, and the one it visits last.
FirstOf(c, g, P) ==
  LET order == Visited(c, g) IN order[SelectInSeq(order, LAMBDA p : p \in P)]
LastOf(c, g, P) ==
  LET order == Visited(c, g) IN order[SelectLastInSeq(order, LAMBDA p : p \in P)]

Exists(c, g) == c[Root(g)] # Nothing
Shows(c, g, v) == At(c, g, v) # {}
GroupsOf(c, v) == {g \in Groups : Shows(c, g, v)}

Held(c, s)   == \E p \in Places : c[p] = s
Holder(c, s) == CHOOSE p \in Places : c[p] = s
Other(side)  == IF side = "primary" THEN "secondary" ELSE "primary"

\* Where a new splitter is put: any memory that is not in use.  Splitters
\* that walkTree is in are not reused, so that its reads of one that is gone
\* are seen.
OnStack(s) == \E i \in DOMAIN walk.stack : walk.stack[i].splitter = s
Free(c)    == {s \in Splitters : ~Held(c, s) /\ ~OnStack(s)}
New(c)     == CHOOSE s \in Free(c) : TRUE

\* *p = make_shared(Splitter(a, b))
Split(c, p, a, b) ==
  [c EXCEPT ![p] = New(c), ![Slot(New(c), "primary")] = a,
            ![Slot(New(c), "secondary")] = b]

\* The splitter s is destroyed.
Destroyed(c, s) ==
  [c EXCEPT ![Slot(s, "primary")] = Nothing, ![Slot(s, "secondary")] = Nothing]

(* FAULT: the sibling is not promoted. *)
RemovedLeavingHole(c, g, v) ==
  IF Shows(c, g, v) THEN [c EXCEPT ![FirstOf(c, g, At(c, g, v))] = Nothing] ELSE c

\* removeVisualizerById: the first leaf that holds v goes, its sibling takes
\* the place of their splitter.
Removed(c, g, v) ==
  IF ~Shows(c, g, v) THEN c
  ELSE LET p == FirstOf(c, g, At(c, g, v))
       IN IF p = Root(g) THEN [c EXCEPT ![p] = Nothing]
          ELSE Destroyed([c EXCEPT ![Holder(c, p[1])] = c[Slot(p[1], Other(p[2]))]],
                         p[1])

\* addVisualizerToGroup
Added(c, g, v) ==
  IF Exists(c, g) THEN Split(c, Root(g), c[Root(g)], v)
  ELSE [c EXCEPT ![Root(g)] = v]

\* swapVisualizer
Swapped(c, g, d, h) ==
  IF Shows(c, g, d) /\ Shows(c, g, h)
  THEN LET a == LastOf(c, g, At(c, g, d))
           b == LastOf(c, g, At(c, g, h))
       IN [c EXCEPT ![a] = c[b], ![b] = c[a]]
  ELSE c

\* The splitters of a tree with v as a child, as the places that hold them.
Parents(c, g, v) ==
  {p \in Tree(c, g) :
     c[p] \in Splitters /\ \E side \in Sides : c[Slot(c[p], side)] = v}

SplitAround(c, p, d, h, region) ==
  IF region = "before" THEN Split(c, p, d, h) ELSE Split(c, p, h, d)

(* FAULT: the hovered leaf is looked for before the dragged one is removed. *)
InsertedAtOldPlace(c, g, d, h, region) ==
  SplitAround(Removed(c, g, d), LastOf(c, g, At(c, g, h)), d, h, region)

\* insertVisualizer: with the parents found.  A common parent is replaced;
\* else the dragged leaf is removed and the hovered one is split.
Inserted(c, g, d, h, region) ==
  LET a    == LastOf(c, g, Parents(c, g, d))
      b    == LastOf(c, g, Parents(c, g, h))
      rest == Removed(c, g, d)
  IN IF a = b
     THEN Destroyed(SplitAround(c, a, d, h, region), c[a])
     ELSE IF Shows(rest, g, h)
          THEN SplitAround(rest, LastOf(rest, g, At(rest, g, h)), d, h, region)
          ELSE rest

CanInsert(c, g, d, h) ==
  Exists(c, g) /\ Parents(c, g, d) # {} /\ Parents(c, g, h) # {}

-----------------------------------------------------------------------------
(* WindowManager::initialize *)

(* FAULT: windows that lost their tree stay. *)
OpenedNeverClosed(c, w) ==
  [g \in Groups |-> IF Exists(c, g) /\ w[g] = "none" THEN "open" ELSE w[g]]

\* Windows that lost their tree are destroyed, missing ones are created.
\* What operator[] put in is neither: it is there, and not removable.
Opened(c, w) ==
  [g \in Groups |-> IF g = Main THEN w[g]
                    ELSE IF ~Exists(c, g) /\ w[g] = "open" THEN "none"
                    ELSE IF Exists(c, g) /\ w[g] = "none" THEN "open"
                    ELSE w[g]]

\* An order of the windows, that of an unordered_map: how many come after one.
Orders == {after \in [Groups -> Groups] :
             \A g, h \in Groups : after[g] = after[h] => g = h}

\* Every visualizer learns its window, the last one that shows it.
Regrouped(c) ==
  {[v \in Visualizers |->
      LET in == GroupsOf(c, v)
      IN IF in = {} THEN group[v]
         ELSE CHOOSE g \in in : \A h \in in : after[g] <= after[h]] : after \in Orders}

initialize(c) ==
  /\ child' = c
  /\ windows' = Opened(c, windows)
  /\ group' \in Regrouped(c)

\* SDLWindow::states[key], for every key, at the start of every event and
\* every frame.
Looked(c, w) ==
  [g \in Groups |-> IF Exists(c, g) /\ w[g] = "none" THEN "empty" ELSE w[g]]

-----------------------------------------------------------------------------
(* The mouse in the windows *)

\* The main loop is between two events.
Idle == running /\ walk = NoWalk

\* A button press in window g: the visualizer under the pointer is dragged.
\* One that has not learned that it is in another tree still takes part in
\* g's events, with the bounds it had there.  (One pointer: nothing is dragged
\* in a window while the menu drags.)
Press(g) ==
  /\ Idle /\ ~drag.active /\ windows[g] = "open"
  /\ LET members == {v \in Visualizers : GroupsOf(child, v) # {} /\ group[v] = g}
         strays  == {v \in members : ~Shows(child, g, v)}
     IN \E hit \in SUBSET members :
          /\ Cardinality(hit \ strays) <= 1
          /\ dragging' = (dragging \ members) \cup hit
  /\ UNCHANGED <<child, windows, group, drag, newWindowCounter, walk, running>>

\* A button release in window g, with the pointer over the visualizer hover.
\* WindowManager::handleEvent walks all of the trees, in any order.  (Left out:
\* a release while nothing is dragged, which changes nothing, and one with the
\* pointer over no visualizer, which is like one over no region of it.)
Release(g) ==
  /\ Idle /\ ~drag.active /\ windows[g] = "open"
  /\ \E v \in dragging : group[v] = g /\ GroupsOf(child, v) # {}
  /\ \E hover \in Visualizers :
       /\ Shows(child, g, hover)
       /\ walk' = [group |-> g, hover |-> hover, stack |-> <<>>,
                   todo |-> {k \in Groups : Exists(child, k)}]
  /\ windows' = Looked(child, windows)
  /\ UNCHANGED <<child, group, dragging, drag, newWindowCounter, running>>

\* A call of walkTree on the node in place p; the get_if of its first line.
Call(p) ==
  IF child[p] \in Splitters
  THEN [at |-> p, splitter |-> child[p], next |-> "primary"]
  ELSE [at |-> p, splitter |-> Nothing, next |-> "visit"]

Top    == Last(walk.stack)
Popped == Front(walk.stack)

\* What the innermost walkTree reads next was destroyed: its splitter, or the
\* splitter that its reference to a node is part of.
ReadsFreed ==
  IF Top.next = "visit"
  THEN Top.at[1] \in Splitters /\ ~Held(child, Top.at[1])
  ELSE ~Held(child, Top.splitter)

NextTree ==
  /\ walk.stack = <<>>
  /\ \E g \in walk.todo :
       walk' = [walk EXCEPT !.todo = @ \ {g}, !.stack = <<Call(Root(g))>>]
  /\ UNCHANGED <<child, windows, group, dragging, drag, newWindowCounter,
                 running>>

EndWalk ==
  /\ walk # NoWalk /\ walk.stack = <<>> /\ walk.todo = {}
  /\ walk' = NoWalk
  /\ UNCHANGED <<child, windows, group, dragging, drag, newWindowCounter,
                 running>>

\* walkTree(s->primary, fn), walkTree(s->secondary, fn)
Descend ==
  /\ walk.stack # <<>> /\ Top.next # "visit" /\ ~ReadsFreed
  /\ LET after == [Top EXCEPT !.next = IF @ = "primary" THEN "secondary" ELSE "visit"]
     IN walk' = [walk EXCEPT !.stack =
                   Append(Append(Popped, after), Call(Slot(Top.splitter, Top.next)))]
  /\ UNCHANGED <<child, windows, group, dragging, drag, newWindowCounter,
                 running>>

\* What getHoverState finds in window g: the last visualizer of its tree that
\* is dragged.
Dragged(g) ==
  LET at == {p \in Leaves(child, g) : child[p] \in dragging}
  IN IF at = {} THEN Nothing ELSE child[LastOf(child, g, at)]

\* The drop: on the centre the two change places, on an edge the dragged one
\* is inserted beside the other.  A pointer outside of all five regions does
\* nothing.
Drop(d, h) ==
  \/ /\ child' = Swapped(child, walk.group, d, h)
     /\ UNCHANGED <<windows, group>>
  \/ /\ CanInsert(child, group[d], d, h)
     /\ Free(child) # {}
     /\ \E region \in {"before", "after"} :
          initialize(Inserted(child, group[d], d, h, region))
  \/ UNCHANGED <<child, windows, group>>

\* fn on a leaf: VisualizerWindow::handleEvent.  The handler of a visualizer
\* of another window returns early.
VisitLeaf ==
  /\ walk.stack # <<>> /\ Top.next = "visit" /\ ~ReadsFreed
  /\ child[Top.at] \in Visualizers
  /\ LET v == child[Top.at]
         d == Dragged(walk.group)
     IN IF group[v] # walk.group
        THEN UNCHANGED <<child, windows, group, dragging>>
        ELSE /\ dragging' = dragging \ {v}
             /\ IF v \in dragging /\ d # Nothing /\ d # walk.hover
                      /\ Shows(child, walk.group, walk.hover)
                THEN Drop(d, walk.hover)
                ELSE UNCHANGED <<child, windows, group>>
  /\ walk' = [walk EXCEPT !.stack = Popped]
  /\ UNCHANGED <<drag, newWindowCounter, running>>

\* fn on a splitter: Splitter::handleEvent moves nothing.
VisitSplitter ==
  /\ walk.stack # <<>> /\ Top.next = "visit" /\ ~ReadsFreed
  /\ child[Top.at] \in Splitters
  /\ walk' = [walk EXCEPT !.stack = Popped]
  /\ UNCHANGED <<child, windows, group, dragging, drag, newWindowCounter,
                 running>>

\* The read of a destroyed splitter is undefined: the program dies, or this
\* call of walkTree gets by.
ReadFreed ==
  /\ walk.stack # <<>> /\ ReadsFreed
  /\ \/ running' = FALSE /\ walk' = NoWalk
     \/ running' = running /\ walk' = [walk EXCEPT !.stack = Popped]
  /\ UNCHANGED <<child, windows, group, dragging, drag, newWindowCounter>>

-----------------------------------------------------------------------------
(* The list of visualizers in the menu *)

\* visualizerListElement.clicked.  The groups listed are the trees, and
\* "hidden" with the visualizers that are in none of them.
MenuPick(v) ==
  /\ Idle
  /\ \E g \in IF GroupsOf(child, v) = {} THEN {Hidden} ELSE GroupsOf(child, v) :
       drag' = [active |-> TRUE, viz |-> v, from |-> g]
  /\ UNCHANGED <<child, windows, group, dragging, newWindowCounter, walk,
                 running>>

\* The last visualizer of the main window may not leave it.
LastOfMain == drag.from = Main /\ Cardinality(Leaves(child, Main)) = 1

\* visualizerListElement.unclicked outside of all targets, or refused.
MenuCancel ==
  /\ Idle /\ drag.active
  /\ drag' = NoDrag
  /\ windows' = Looked(child, windows)
  /\ UNCHANGED <<child, group, dragging, newWindowCounter, walk, running>>

(* FAULT: the visualizer is not removed from where it was. *)
TakeNothing(c, g, v) ==
  /\ child' = c
  /\ IF g \in Groups /\ Exists(c, g)
     THEN windows' = Looked(c, Opened(c, windows)) /\ group' \in Regrouped(c)
     ELSE windows' = Looked(c, windows) /\ UNCHANGED group

\* removeVisualizerFromGroup, and what WindowManager::handleEvent does with
\* the same event.  A group without a tree is left at the first check.
Take(c, g, v) ==
  LET rest == Removed(c, g, v)
  IN IF g \in Groups /\ Exists(c, g)
     THEN /\ child' = rest
          /\ windows' = Looked(rest, Opened(rest, windows))
          /\ group' \in Regrouped(rest)
     ELSE /\ child' = c
          /\ windows' = Looked(c, windows)
          /\ UNCHANGED group

MayShowMore == Cardinality({p \in Places : child[p] \in Visualizers}) < MaxShown

\* What the menu remembers is not where the visualizer is.
OutOfDate == \/ drag.from \in Groups /\ ~Shows(child, drag.from, drag.viz)
             \/ drag.from = Hidden /\ GroupsOf(child, drag.viz) # {}

\* visualizerListElement.unclicked on a group of the list.
MenuDrop(target) ==
  /\ Idle /\ drag.active
  /\ target # Hidden => Exists(child, target)
  /\ ~(LastOfMain /\ target # Main)
  /\ Free(child) # {}
  /\ OutOfDate => MayShowMore
  /\ Take(IF target = Hidden THEN child ELSE Added(child, target, drag.viz),
          drag.from, drag.viz)
  /\ drag' = NoDrag
  /\ UNCHANGED <<dragging, newWindowCounter, walk, running>>

(* FAULT: the number is counted up twice. *)
AfterKeyTwice(n) == n + 2

AfterKey(n) == n + 1

\* ... on "+ Create new window (drop here)", under the first free key.
MenuCreate ==
  /\ Idle /\ drag.active
  /\ ~LastOfMain
  /\ OutOfDate => MayShowMore
  /\ \E n \in newWindowCounter..MaxWindows :
       /\ ~Exists(child, n)
       /\ \A m \in newWindowCounter..n - 1 : Exists(child, m)
       /\ newWindowCounter' = AfterKey(n)
       /\ Take(Added(child, n, drag.viz), drag.from, drag.viz)
  /\ drag' = NoDrag
  /\ UNCHANGED <<dragging, walk, running>>

-----------------------------------------------------------------------------
(* The configuration file *)

\* Config::reload and reconfigure() after the user took a visualizer out of the
\* file, put one in, be it there already or not, or moved it; something stays in
\* the main window.  (Bound: while the menu drags, only what it drags: for the
\* others the file could as well have changed before.)
Reload(v) ==
  /\ Idle /\ drag.viz \in {v, Nothing}
  /\ Free(child) # {}
  /\ \E out, in \in {Hidden} \cup Groups :
       LET c == IF out = Hidden THEN child ELSE Removed(child, out, v)
           d == IF in = Hidden THEN c ELSE Added(c, in, v)
       IN /\ IF out # Hidden THEN Shows(child, out, v)
             ELSE in # Hidden /\ MayShowMore
          /\ Exists(d, Main)
          /\ initialize(d)
  /\ UNCHANGED <<dragging, drag, newWindowCounter, walk, running>>

\* ... after a save, which changed the file but no tree.
ReloadSame ==
  /\ Idle
  /\ initialize(child)
  /\ UNCHANGED <<dragging, drag, newWindowCounter, walk, running>>

-----------------------------------------------------------------------------
Init ==
  /\ \E v \in Visualizers :
       child = [p \in Places |-> IF p = Root(Main) THEN v ELSE Nothing]
  /\ windows = [g \in Groups |-> IF g = Main THEN "open" ELSE "none"]
  /\ group = [v \in Visualizers |-> IF Shows(child, Main, v) THEN Main ELSE NoGroup]
  /\ dragging = {}
  /\ drag = NoDrag
  /\ newWindowCounter = 1
  /\ walk = NoWalk
  /\ running = TRUE

Next ==
  \/ \E g \in Groups : Press(g) \/ Release(g)
  \/ NextTree \/ Descend \/ VisitLeaf \/ VisitSplitter \/ ReadFreed \/ EndWalk
  \/ \E v \in Visualizers : MenuPick(v) \/ Reload(v)
  \/ \E target \in Groups \cup {Hidden} : MenuDrop(target)
  \/ MenuCreate \/ MenuCancel \/ ReloadSame

Spec == Init /\ [][Next]_vars

-----------------------------------------------------------------------------
(* Properties *)

\* A splitter is in exactly one place and has two children, and every place
\* of a splitter that is not in use is empty: drops and moves never leave a
\* node without an owner, with two, or without the child that walkTree, save
\* and updateBounds dereference.
TreeShape ==
  /\ \A s \in Splitters :
       /\ Cardinality({p \in Places : child[p] = s}) <= 1
       /\ \A side \in Sides : (child[Slot(s, side)] # Nothing) <=> Held(child, s)
  /\ {p \in Places : child[p] # Nothing}
       \subseteq UNION {Tree(child, g) : g \in Groups}

\* "Only one instance of each visualizer ID may exist in the layout."  The file
\* can name one twice, and a drop in the menu adds one that is no longer where
\* it was picked up.  Nothing else does: no drag in a window and no other move
\* in the menu shows a visualizer twice that was shown once, or once more than
\* before where the file has it twice.
Copies(c, v) == Cardinality({p \in Places : c[p] = v})
NeverDoubled ==
  [][child' # child /\ (walk # NoWalk \/ (drag' # drag /\ ~OutOfDate)) =>
       \A v \in Visualizers : Copies(child', v) <= 1 \/ Copies(child', v) <= Copies(child, v)]_vars

\* SDL windows follow the layout: none is left open without a tree and no
\* tree is without an entry, except while the program looks at them.
WindowsFollow ==
  /\ windows[Main] = "open"
  /\ \A g \in Groups \ {Main} :
       /\ windows[g] = "open" => Exists(child, g)
       /\ Exists(child, g) => windows[g] # "none"

\* A drag in a window rearranges it: in every step of a delivered event each
\* tree keeps what it shows, how often it shows it included.
DragsKeep ==
  [][walk # NoWalk /\ child' # child =>
       \A g \in Groups, v \in Visualizers :
         Cardinality(At(child', g, v)) = Cardinality(At(child, g, v))]_vars

\* walkTree never reads a splitter that a handler it called has destroyed.
WalkIsSafe == walk.stack # <<>> => ~ReadsFreed

\* The splitters a running walkTree refers to: those it has not left yet, and
\* those its references to nodes are part of.
Referred == {s \in Splitters : \E i \in DOMAIN walk.stack :
               LET f == walk.stack[i]
               IN f.at[1] = s \/ (f.splitter = s /\ f.next # "visit")}

WalkIntact == \A s \in Referred : Held(child, s)

\* What breaks a walk is a drop in it, which destroys the splitter that the
\* dragged visualizer was a child of, and nothing else does.
OnlyDropsBreak ==
  [][WalkIntact /\ ~WalkIntact' =>
       \E s \in Referred, side \in Sides :
          /\ child[Slot(s, side)] \in dragging
          /\ Held(child, s) /\ ~Held(child', s)]_vars

=============================================================================
