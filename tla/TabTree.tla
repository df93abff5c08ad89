------------------------------ MODULE TabTree -------------------------------
(***************************************************************************)
(* One tab's layout tree in a client (internal/tui layout.go, tab.go,      *)
(* model.go rebuildTabs and restoreTabLayout, worktree_client.go) against  *)
(* the daemon's panes, which reach it as broadcasts.  Splits and replaces  *)
(* reserve a placeholder before the daemon has a pane for it; a create     *)
(* with a worktree holds its placeholder for seconds.  A tree is the       *)
(* function from the paths of its leaves (0 left, 1 right) to a pane or    *)
(* PH; directions and ratios are left out.                                 *)
(***************************************************************************)
EXTENDS Integers, Sequences, FiniteSets, SequencesExt

CONSTANTS TreePanes,  \* pane ids, each used once
          MaxCasts,   \* bound: broadcasts on their way
          MaxReqs     \* bound: requests and answers on their way

VARIABLES dPanes,    \* the daemon's panes of the tab, in order
          dLayout,   \* the layout it stores for the tab
          used,      \* ids given out
          casts,     \* broadcasts on their way: the panes; the layout is only read on attach
          reqs,      \* create requests on their way, in any order: [old, wt]
          resps,     \* create answers on their way: [err, swapped]
          tree,
          pendingSplit,   \* the reserved node: "none", its path, or "lost" once detached
          creating,       \* worktreeCreates has the tab
          held,           \* worktreeReplaced
          timers,         \* createPaneTimeoutMsgs to come
          attached,       \* the client has the tab
          shown,          \* panes of the last broadcast applied, less the ones replaced since
          strayed,        \* panes it filled into a detached node, or let another's pane displace
          panicked

treeVars == <<dPanes, dLayout, used, casts, reqs, resps, tree,
              pendingSplit, creating, held, timers, attached, shown, strayed, panicked>>

daemonSide == <<dPanes, dLayout, used, casts, resps>>

PH == "placeholder"
NoPane == "none"
NoNode == <<2>>   \* no path: paths are over 0 and 1
Lost == <<3>>
NewID == CHOOSE x \in TreePanes \ used : TRUE
NoTree == [p \in {} |-> PH]
RootLeaf(x) == [p \in {<<>>} |-> x]
-----------------------------------------------------------------------------
(* Layout trees. *)

Real(t) == {p \in DOMAIN t : t[p] # PH}
PaneIDs(t) == {t[p] : p \in Real(t)}
PathOf(t, x) == CHOOSE p \in DOMAIN t : t[p] = x

Differ(p, q) == CHOOSE i \in 1 .. Len(p) : p[i] # q[i] /\ \A j \in 1 .. (i - 1) : p[j] = q[j]

\* Leaves: left to right.
FirstLeaf(t) == CHOOSE p \in Real(t) : \A q \in Real(t) \ {p} : p[Differ(p, q)] = 0

\* The path of p's node once every leaf outside keep is gone: each level whose
\* sibling subtree is empty collapses.
Kept(p, keep) == {i \in DOMAIN p : \E q \in keep : IsPrefix(Append(SubSeq(p, 1, i - 1), 1 - p[i]), q)}
NewPath(p, keep) ==
    LET k == Kept(p, keep)
    IN  [j \in 1 .. Cardinality(k) |-> p[CHOOSE i \in k : Cardinality({n \in k : n <= i}) = j]]

\* RemoveLeaf for every leaf outside keep: the sibling's fields move into the
\* parent node.
Collapse(t, keep) ==
    [p \in {NewPath(q, keep) : q \in keep} |-> t[CHOOSE q \in keep : NewPath(q, keep) = p]]

\* The reserved node after it: detached when its own sibling subtree went.
PointerAfter(q, keep) ==
    IF q \notin keep THEN Lost
    ELSE IF q # <<>> /\ Len(q) \notin Kept(q, keep) THEN Lost ELSE NewPath(q, keep)

\* SplitLeaf: the leaf's node gets the pane on its left, a placeholder on its right.
SplitLeaf(t, p) ==
    [q \in (DOMAIN t \ {p}) \cup {Append(p, 0), Append(p, 1)} |->
        IF q = Append(p, 0) THEN t[p] ELSE IF q = Append(p, 1) THEN PH ELSE t[q]]

\* FillPlaceholder: a node's own children first, then its left, then its right subtree.
Holes(t) == {p \in DOMAIN t : t[p] = PH /\ p # <<>>}
FirstHole(t) ==
    CHOOSE p \in Holes(t) : \A q \in Holes(t) \ {p} :
        LET k == Differ(p, q)
        IN  IF (Len(p) = k) # (Len(q) = k) THEN Len(p) = k ELSE p[k] = 0
FillPlaceholder(t, x) == IF Holes(t) = {} THEN t ELSE [t EXCEPT ![FirstHole(t)] = x]

\* PrunePlaceholders: nothing but placeholders leaves a placeholder at the root.
PrunePlaceholders(t) ==
    IF DOMAIN t = {} THEN t ELSE IF Real(t) = {} THEN RootLeaf(PH) ELSE Collapse(t, Real(t))
PrunedPointer(t, q) ==
    IF q \in {NoNode, Lost} THEN q ELSE IF Real(t) = {} /\ q = <<>> THEN q ELSE Lost
-----------------------------------------------------------------------------
TreeInit ==
    /\ used = {CHOOSE x \in TreePanes : TRUE} /\ dPanes = SetToSeq(used)
    /\ casts = <<dPanes>>
    /\ dLayout = NoTree /\ reqs = <<>> /\ resps = {}
    /\ tree = NoTree /\ pendingSplit = NoNode
    /\ creating = FALSE /\ held = NoPane /\ timers = 0
    /\ attached = FALSE /\ shown = {} /\ strayed = {} /\ panicked = FALSE
-----------------------------------------------------------------------------
(* The daemon. *)

Cast(ps) == casts' = Append(casts, ps)

Without(s, x) == SelectSeq(s, LAMBDA y : y # x)

\* ensureTabNotEmpty behind a pane's close.
Emptied(ps) ==
    IF ps # <<>> THEN dPanes' = ps /\ used' = used /\ Cast(ps)
    ELSE /\ used # TreePanes
         /\ dPanes' = <<NewID>> /\ used' = used \cup {NewID} /\ Cast(dPanes')

\* A pane is closed, by this client or another.
PaneClosed(x) ==
    /\ Len(casts) < MaxCasts /\ x \in Range(dPanes)
    /\ Emptied(Without(dPanes, x))
    /\ UNCHANGED <<dLayout, reqs, resps, tree, pendingSplit, creating,
                   held, timers, attached, shown, strayed, panicked>>

\* A pane of another client, or a broadcast about nothing of the tab.
PaneElsewhere ==
    /\ Len(casts) < MaxCasts
    /\ \/ /\ used # TreePanes
          /\ dPanes' = Append(dPanes, NewID) /\ used' = used \cup {NewID} /\ Cast(dPanes')
       \/ Cast(dPanes) /\ UNCHANGED <<dPanes, used>>
    /\ UNCHANGED <<dLayout, reqs, resps, tree, pendingSplit, creating,
                   held, timers, attached, shown, strayed, panicked>>

\* create_pane: the pane is added, the replaced one goes; with a worktree the
\* client is answered, and the add may fail, before or after the swap.
CreatePaneDone(i) ==
  LET r == reqs[i] IN
    /\ Len(casts) < MaxCasts
    /\ reqs' = RemoveAt(reqs, i)
    /\ \/ /\ used # TreePanes
          /\ dPanes' = Without(Append(dPanes, NewID), r.old)
          /\ used' = used \cup {NewID} /\ Cast(dPanes')
          /\ resps' = IF r.wt THEN resps \cup {[err |-> FALSE, swapped |-> FALSE]} ELSE resps
       \/ /\ r.wt
          /\ \/ UNCHANGED <<dPanes, used, casts>> /\ resps' = resps \cup {[err |-> TRUE, swapped |-> FALSE]}
             \/ /\ r.old \in Range(dPanes) /\ Emptied(Without(dPanes, r.old))
                /\ resps' = resps \cup {[err |-> TRUE, swapped |-> TRUE]}
    /\ UNCHANGED <<dLayout, tree, pendingSplit, creating, held, timers,
                   attached, shown, strayed, panicked>>

-----------------------------------------------------------------------------
(* A broadcast. *)

\* The tab without the panes the daemon no longer has.
RemoveGone(panes) ==
    LET keep == {p \in DOMAIN tree : tree[p] = PH \/ tree[p] \in panes}
    IN  [tree |-> IF keep = DOMAIN tree THEN tree ELSE Collapse(tree, keep),
         ptr |-> IF pendingSplit \in {NoNode, Lost} THEN pendingSplit ELSE PointerAfter(pendingSplit, keep),
         creating |-> creating, held |-> held, strayed |-> {}]

\* A pane without a place goes to the reserved node, which also settles the
\* create, or else below the first leaf.
Place(s, x) ==
    IF x \in PaneIDs(s.tree) \/ x = s.held THEN s
    ELSE IF s.ptr # NoNode
    THEN [tree |-> IF s.ptr = Lost THEN s.tree ELSE [s.tree EXCEPT ![s.ptr] = x],
          ptr |-> NoNode, creating |-> FALSE, held |-> NoPane,
          strayed |-> s.strayed \cup {s.held} \cup IF s.ptr = Lost THEN {x} ELSE {}]
    ELSE [s EXCEPT !.tree =
            IF Real(s.tree) = {} THEN RootLeaf(x)
            ELSE FillPlaceholder(SplitLeaf(s.tree, FirstLeaf(s.tree)), x)]

\* diffLayouts and handleUpdateLayout: the daemon stores the tree as it is.
TellLayout(t) == dLayout' = IF DOMAIN t = {} THEN dLayout ELSE t

\* rebuildTabs on a tab the client has, or on one without a stored layout.
RebuildTab(b) ==
    LET s == FoldLeft(Place, RemoveGone(Range(b)), b)
        t == IF s.creating THEN s.tree ELSE PrunePlaceholders(s.tree)
    IN  /\ tree' = t
        /\ pendingSplit' = IF s.creating THEN s.ptr ELSE PrunedPointer(s.tree, s.ptr)
        /\ creating' = s.creating /\ held' = s.held
        /\ strayed' = s.strayed
        /\ TellLayout(t)
        /\ UNCHANGED panicked

\* restoreTabLayout: a new tab takes the stored tree; panes it does not name
\* go below the first leaf, of which there may be none.
RestoreTabLayout(b) ==
    LET stored == [p \in DOMAIN dLayout |-> IF dLayout[p] \in Range(b) THEN dLayout[p] ELSE PH]
        t0 == PrunePlaceholders(stored)
        rest == SelectSeq(b, LAMBDA x : x \notin PaneIDs(t0))
        t == FoldLeft(LAMBDA u, x : FillPlaceholder(SplitLeaf(u, FirstLeaf(u)), x), t0, rest)
    IN  IF Real(t0) = {} /\ rest # <<>>
        THEN panicked' = TRUE /\ UNCHANGED <<tree, strayed, dLayout>>
        ELSE /\ tree' = t
             /\ strayed' = {} /\ TellLayout(t)
             /\ UNCHANGED panicked

ApplyState ==
    /\ casts # <<>> /\ ~panicked
    /\ LET b == Head(casts)
       IN  /\ IF attached \/ DOMAIN dLayout = {} THEN RebuildTab(b)
              ELSE RestoreTabLayout(b) /\ UNCHANGED <<pendingSplit, creating, held>>
           /\ shown' = Range(b)
    /\ casts' = Tail(casts) /\ attached' = TRUE
    /\ UNCHANGED <<dPanes, used, reqs, resps, timers>>
-----------------------------------------------------------------------------
(* The user. *)

Ready == attached /\ ~panicked /\ Real(tree) # {}

\* splitPane, and the dialog's split, of the pane x the user went to: one
\* create per tab while a worktree is added.
SplitPane(x, wt) ==
    /\ Ready /\ x \in PaneIDs(tree) /\ ~creating /\ Len(reqs) < MaxReqs /\ timers < 2
    /\ tree' = SplitLeaf(tree, PathOf(tree, x))
    /\ pendingSplit' = Append(PathOf(tree, x), 1)
    /\ creating' = wt
    /\ timers' = IF wt THEN timers + 1 ELSE timers
    /\ reqs' = Append(reqs, [old |-> NoPane, wt |-> wt])
    /\ UNCHANGED <<daemonSide, held, attached, shown, strayed, panicked>>

\* The dialog's replace: the leaf is emptied at once, its pane held back only
\* while a worktree is added.
ReplacePane(x, wt) ==
    /\ Ready /\ x \in PaneIDs(tree) /\ ~creating /\ Len(reqs) < MaxReqs /\ timers < 2
    /\ tree' = [tree EXCEPT ![PathOf(tree, x)] = PH]
    /\ pendingSplit' = PathOf(tree, x)
    /\ held' = IF wt THEN x ELSE held
    /\ shown' = IF wt THEN shown ELSE shown \ {x}
    /\ creating' = wt
    /\ timers' = IF wt THEN timers + 1 ELSE timers
    /\ reqs' = Append(reqs, [old |-> x, wt |-> wt])
    /\ UNCHANGED <<daemonSide, attached, strayed, panicked>>

\* settleReplacedPane: the held pane goes back to the reserved node if that is
\* still empty, or is disposed.
SettleReplacedPane(restore) ==
    /\ tree' = PrunePlaceholders(
                 IF restore /\ held # NoPane /\ DOMAIN tree # {} /\ pendingSplit \notin {NoNode, Lost}
                 THEN [tree EXCEPT ![pendingSplit] = held] ELSE tree)
    /\ held' = NoPane
    /\ shown' = IF restore THEN shown ELSE shown \ {held}
    /\ strayed' = IF restore /\ pendingSplit = Lost THEN strayed \cup {held} ELSE strayed

\* Mutant of CreatePaneTimeout: the held pane is forgotten.
CreatePaneTimeoutForgets ==
    /\ timers > 0 /\ ~panicked
    /\ timers' = timers - 1
    /\ IF ~creating THEN UNCHANGED <<tree, held, creating, pendingSplit>>
       ELSE tree' = PrunePlaceholders(tree) /\ creating' = FALSE /\ pendingSplit' = NoNode /\ UNCHANGED held
    /\ UNCHANGED <<daemonSide, reqs, attached, shown, strayed, panicked>>

\* applyCreatePaneTimeout; the timer is keyed by the tab, not by the create.
CreatePaneTimeout ==
    /\ timers > 0 /\ ~panicked
    /\ timers' = timers - 1
    /\ IF ~creating THEN UNCHANGED <<tree, held, creating, pendingSplit, shown, strayed>>
       ELSE SettleReplacedPane(TRUE) /\ creating' = FALSE /\ pendingSplit' = NoNode
    /\ UNCHANGED <<daemonSide, reqs, attached, panicked>>

\* applyCreatePaneResp: success only releases the held pane.
CreatePaneResp(r) ==
    /\ r \in resps /\ ~panicked
    /\ resps' = resps \ {r}
    /\ IF ~creating THEN UNCHANGED <<tree, held, creating, pendingSplit, shown, strayed>>
       ELSE IF ~r.err
       THEN held' = NoPane /\ shown' = shown \ {held} /\ UNCHANGED <<tree, creating, pendingSplit, strayed>>
       ELSE SettleReplacedPane(~r.swapped) /\ creating' = FALSE /\ pendingSplit' = NoNode
    /\ UNCHANGED <<dPanes, dLayout, used, casts, reqs, timers, attached,
                   panicked>>

\* The client quits and another attaches: the tab is rebuilt from the daemon's state.
Reattach ==
    /\ attached
    /\ attached' = FALSE /\ panicked' = FALSE
    /\ tree' = NoTree /\ pendingSplit' = NoNode
    /\ creating' = FALSE /\ held' = NoPane /\ timers' = 0 /\ shown' = {} /\ strayed' = {}
    /\ casts' = <<dPanes>> /\ resps' = {}
    /\ UNCHANGED <<dPanes, dLayout, used, reqs>>
-----------------------------------------------------------------------------
TreeNext ==
    \/ \E x \in TreePanes : PaneClosed(x) \/ (\E wt \in BOOLEAN : SplitPane(x, wt) \/ ReplacePane(x, wt))
    \/ PaneElsewhere \/ ApplyState \/ CreatePaneTimeout \/ Reattach
    \/ \E i \in DOMAIN reqs : CreatePaneDone(i)
    \/ \E r \in resps : CreatePaneResp(r)

TreeSpec == TreeInit /\ [][TreeNext]_treeVars
-----------------------------------------------------------------------------
(***************************************************************************)
(* What a client shows of a tab, whatever splits, replaces, worktree       *)
(* creates and broadcasts cross: every pane of the last broadcast stands   *)
(* in the tree exactly once, but for one replaced by this client since,    *)
(* one held back by a worktree create, and one whose reserved node was     *)
(* detached or filled with another client's pane (the next broadcast       *)
(* places it); a pane is held only while its create is in flight; and a    *)
(* placeholder that no create will fill stands alone at the root.          *)
(***************************************************************************)
TreeShowsPanes == attached /\ ~panicked =>
    /\ \A p, q \in Real(tree) : tree[p] = tree[q] => p = q
    /\ shown \ PaneIDs(tree) \subseteq strayed \cup {held}
    /\ held # NoPane => creating /\ held \notin PaneIDs(tree)
    /\ Holes(tree) # {} => pendingSplit # NoNode

\* A client never fails on what the daemon stores: "tab.Leaves()[0] below then
\* panicked with index out of range" (model.go:5845) is a thing of the past.
RestoreNeverPanics == ~panicked
=============================================================================
