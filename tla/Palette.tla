------------------------------ MODULE Palette ------------------------------
(* The command palette (internal/tui/palette.go) and its content search      *)
(* (palette_search.go, internal/daemon/search.go).  The list the cursor      *)
(* walks is the filtered registry followed by the search's hits; the         *)
(* registry is frozen when the palette opens, while broadcasts go on         *)
(* removing the panes, tabs and projects its rows name.  A keystroke arms a  *)
(* 150 ms debounce, the debounce sends the request and arms a 3 s timeout,   *)
(* and all three are told apart by the query they carry.                     *)
EXTENDS Integers, Sequences, SequencesExt, Bags, TLC

CONSTANTS
    PalTyped,   \* the characters a user types; " " separates words
    MaxQuery,   \* longest query
    MaxPending, \* debounces in flight; timeouts, requests and answers in flight
    MaxGone,    \* tabs that other clients close or move
    MaxMatches  \* maxPaneMatches, scaled down

VARIABLES
    pal,     \* paletteState and whether its dialog is the one open
    strips,  \* project -> its tabs in order; a tab holds the pane it is named after
    at,      \* [proj, tab]: the active project and each project's active tab
    debs,    \* bag of queries with a debounce tick in flight
    outs,    \* bag of queries with a timeout tick in flight
    reqs2,   \* requests on their way to the daemon, in order
    answers, \* responses on their way back, in order
    gone,    \* broadcasts that took a tab away or moved one
    astray   \* some navigation row landed neither on its target nor nowhere
palVars == <<pal, strips, at, debs, outs, reqs2, answers, gone, astray>>

----------------------------------------------------------------------------
(* Matching                                                                  *)

TrimSpace(q) ==
    LET ink == {i \in DOMAIN q : q[i] # " "} IN
    IF ink = {} THEN <<>>
    ELSE SubSeq(q, CHOOSE i \in ink : \A j \in ink : i <= j,
                   CHOOSE i \in ink : \A j \in ink : i >= j)

\* Greedy subsequence match; 0 stands for "no match" (a match scores at least 1
\* a character, and the empty query never gets here).
fuzzyScore(query, target) ==
    LET gain(ti, prev) == 1 + (IF ti = 1 THEN 5
                               ELSE IF target[ti - 1] = " " THEN 3 ELSE 0)
                            + (IF ti = prev + 1 THEN 4 ELSE 0)
        scan[ti \in 0 .. Len(target)] ==
            IF ti = 0 THEN [score |-> 0, qi |-> 0, prev |-> -1]
            ELSE LET s == scan[ti - 1] IN
                 IF s.qi < Len(query) /\ target[ti] = query[s.qi + 1]
                 THEN [score |-> s.score + gain(ti, s.prev),
                       qi |-> s.qi + 1, prev |-> ti]
                 ELSE s
        end == scan[Len(target)]
    IN IF end.qi = Len(query) THEN end.score ELSE 0

\* Label and keywords, shortened to what tells the rows apart.
Words == [GoToPane |-> {<<"p">>}, SwitchTab |-> {<<"t">>, <<"p", " ", "t">>},
          MoveTabLeft |-> {<<"t", "p">>}, SwitchProject |-> {<<"p", "p">>},
          ActivePane |-> {<<" ", "t">>}, System |-> {<<"s">>}]
commandScore(query, c) ==
    LET scores == {fuzzyScore(query, w) : w \in Words[c.act]}
    IN CHOOSE s \in scores : \A r \in scores : s >= r

\* What rank ranks, from rank 0 up.
ByRank(rank) ==
    [k \in 1 .. Cardinality(DOMAIN rank) |-> CHOOSE i \in DOMAIN rank : rank[i] = k - 1]

\* Browsing keeps the registry and its headers; a query keeps the rows that
\* match, best first and otherwise in registry order.
filterPalette(query, commands) ==
    IF query = <<>> THEN commands
    ELSE LET score == [i \in DOMAIN commands |->
                          IF commands[i].kind = "header" THEN 0 ELSE commandScore(query, commands[i])]
             hit == {i \in DOMAIN commands : score[i] > 0}
             better(i) == {j \in hit : score[j] > score[i] \/ (score[j] = score[i] /\ j < i)}
             best == ByRank([i \in hit |-> Cardinality(better(i))])
         IN [k \in DOMAIN best |-> commands[best[k]]]

----------------------------------------------------------------------------
(* Rows                                                                      *)

Row(act, arg, on) == [kind |-> "row", act |-> act, arg |-> arg, on |-> on, from |-> <<>>]
Line(kind) == [Row("", "", TRUE) EXCEPT !.kind = kind]

selectable(c) == c.kind = "row" /\ c.on

Projects == DOMAIN strips
Shown == {p \in Projects : strips[p] # <<>>}
Active == at.tab[at.proj]
Position(s, x) == CHOOSE i \in DOMAIN s : s[i] = x
RowsOf(act, ids) == [i \in DOMAIN ids |-> Row(act, ids[i], TRUE)]

\* One row per pane of every project, the tabs of the project on screen and
\* their management, the other projects, the active pane's commands and the
\* system rows; a row that would do nothing is there but greyed.
buildPaletteCommands ==
    LET here == strips[at.proj]
        others == SetToSeq(Shown \ {at.proj})
    IN <<Line("header")>> \o RowsOf("GoToPane", strips["P"] \o strips["Q"])
       \o <<Line("header")>> \o RowsOf("SwitchTab", here)
       \o <<Row("MoveTabLeft", "", Position(here, Active) > 1)>>
       \o <<Line("header")>> \o RowsOf("SwitchProject", others)
       \o <<Line("header"), Row("ActivePane", "", TRUE),
            Line("header"), Row("System", "", TRUE)>>

firstSelectable(cmds) ==
    LET ok == {i \in DOMAIN cmds : selectable(cmds[i])}
    IN IF ok = {} THEN 0 ELSE CHOOSE i \in ok : \A j \in ok : i <= j

\* The next selectable row in that direction, or stay, or the first one.
nextSelectable(cmds, cur, dir) ==
    LET ahead == {i \in DOMAIN cmds : selectable(cmds[i]) /\ (i - cur) * dir > 0}
    IN IF ahead # {}
       THEN CHOOSE i \in ahead : \A j \in ahead : (j - i) * dir >= 0
       ELSE IF cur \in DOMAIN cmds /\ selectable(cmds[cur]) THEN cur
            ELSE firstSelectable(cmds)

\* Stay if the row can still be run, else the next one that can, else the first.
clampPaletteCursor(cmds, cur) ==
    LET c == IF cur < 1 THEN 1 ELSE IF cur > Len(cmds) THEN Len(cmds) ELSE cur
        after == {i \in DOMAIN cmds : i >= c /\ selectable(cmds[i])}
    IN IF cmds = <<>> THEN 0
       ELSE IF after # {} THEN CHOOSE i \in after : \A j \in after : i <= j
            ELSE firstSelectable(cmds)

\* The one list the cursor walks: commands, then what the search has to say.
paletteDisplay(p) ==
    IF TrimSpace(p.query) = <<>> THEN p.filtered
    ELSE p.filtered \o <<Line("header")>>
         \o (IF p.hits # <<>>
             THEN p.hits \o (IF p.truncated THEN <<Line("info")>> ELSE <<>>)
             ELSE <<Line("info")>>)

----------------------------------------------------------------------------
(* Keys                                                                      *)

NoPalette == [open |-> FALSE, query |-> <<>>, cursor |-> 0, commands |-> <<>>,
              filtered |-> <<>>, hits |-> <<>>, searching |-> FALSE,
              timedOut |-> FALSE, truncated |-> FALSE]

PalInit ==
    /\ pal = NoPalette
    /\ strips = [P |-> <<"a", "b">>, Q |-> <<"q">>]
    /\ at = [proj |-> "P", tab |-> [P |-> "a", Q |-> "q"]]
    /\ debs = EmptyBag /\ outs = EmptyBag
    /\ reqs2 = <<>> /\ answers = <<>>
    /\ gone = 0 /\ astray = FALSE

workspace3 == <<strips, at, gone, astray>>
search == <<debs, outs, reqs2, answers>>

openCommandPalette ==
    /\ ~pal.open
    /\ LET cmds == buildPaletteCommands IN
       pal' = [NoPalette EXCEPT !.open = TRUE, !.commands = cmds, !.filtered = cmds,
                                !.cursor = firstSelectable(cmds)]
    /\ UNCHANGED <<workspace3, search>>

closeCommandPalette == pal' = NoPalette

\* The previous query's hits go at once; a query of blanks searches nothing.
afterPaletteQueryChangeKeepsHits(q) ==
    LET blank == TrimSpace(q) = <<>>
        p == [pal EXCEPT !.query = q, !.filtered = filterPalette(q, pal.commands),
                         !.searching = ~blank, !.timedOut = FALSE]
    IN /\ pal' = [p EXCEPT !.cursor = firstSelectable(paletteDisplay(p))]
       /\ debs' = IF blank THEN debs ELSE debs (+) SetToBag({q})
afterPaletteQueryChange(q) ==
    LET blank == TrimSpace(q) = <<>>
        p == [pal EXCEPT !.query = q, !.filtered = filterPalette(q, pal.commands),
                         !.hits = <<>>, !.searching = ~blank, !.timedOut = FALSE]
    IN /\ pal' = [p EXCEPT !.cursor = firstSelectable(paletteDisplay(p))]
       /\ debs' = IF blank THEN debs ELSE debs (+) SetToBag({q})

\* What the row does to the workspace.  Every navigation row is resolved by id
\* against the workspace of now; one whose target has gone does nothing.
InProject(x) == CHOOSE p \in Projects : x \in Range(strips[p])
goToPaneOrFirst(x) ==
    IF x \in UNION {Range(strips[p]) : p \in Projects}
    THEN at' = [proj |-> InProject(x), tab |-> [at.tab EXCEPT ![InProject(x)] = x]]
    ELSE at' = [at EXCEPT !.tab[at.proj] = strips[at.proj][1]]
goToPane(x) ==
    IF x \in UNION {Range(strips[p]) : p \in Projects}
    THEN at' = [proj |-> InProject(x), tab |-> [at.tab EXCEPT ![InProject(x)] = x]]
    ELSE UNCHANGED at
SwitchTab(x) ==
    at' = IF x \in Range(strips[at.proj]) THEN [at EXCEPT !.tab[at.proj] = x] ELSE at
SwitchProject(x) == at' = IF x \in Shown THEN [at EXCEPT !.proj = x] ELSE at
MoveTab(s, i) == [s EXCEPT ![i - 1] = s[i], ![i] = s[i - 1]]

Target(c) == IF c.act = "SwitchProject" THEN at.tab[c.arg] ELSE c.arg

executePaletteCommand(c) ==
    /\ closeCommandPalette
    /\ CASE c.act = "GoToPane" -> goToPane(c.arg)
         [] c.act = "SwitchTab" -> SwitchTab(c.arg)
         [] c.act = "SwitchProject" -> SwitchProject(c.arg)
         [] OTHER -> UNCHANGED at
    /\ strips' = IF c.act = "MoveTabLeft" /\ Position(strips[at.proj], Active) > 1
                 THEN [strips EXCEPT ![at.proj] = MoveTab(@, Position(@, Active))]
                 ELSE strips
    /\ astray' = (astray \/ (at'.tab[at'.proj] \notin {Active, Target(c)}))
    /\ UNCHANGED gone

handleCommandPaletteKey ==
    /\ pal.open
    /\ \/ closeCommandPalette /\ UNCHANGED <<workspace3, search>>
       \/ LET display == paletteDisplay(pal) IN
          /\ pal.cursor \in DOMAIN display /\ selectable(display[pal.cursor])
          /\ executePaletteCommand(display[pal.cursor])
          /\ UNCHANGED search
       \/ \E dir \in {-1, 1} :
          /\ pal' = [pal EXCEPT !.cursor = nextSelectable(paletteDisplay(pal), @, dir)]
          /\ UNCHANGED <<workspace3, search>>
       \/ /\ BagCardinality(debs) < MaxPending
          /\ \/ pal.query # <<>> /\ afterPaletteQueryChange(Front(pal.query))
             \/ /\ Len(pal.query) < MaxQuery
                /\ \E ch \in PalTyped : afterPaletteQueryChange(Append(pal.query, ch))
          /\ UNCHANGED <<workspace3, outs, reqs2, answers>>

\* Pasted text joins the query with its unprintable runes dropped, and goes the
\* same way even when nothing of it is left.
PasteIntoPalette ==
    /\ pal.open /\ BagCardinality(debs) < MaxPending
    /\ \E text \in {<<>>} \cup {<<ch>> : ch \in PalTyped} :
          /\ Len(pal.query) + Len(text) <= MaxQuery
          /\ afterPaletteQueryChange(pal.query \o text)
    /\ UNCHANGED <<workspace3, outs, reqs2, answers>>

\* The link to the daemon on screen dropped: the dialog goes, the state stays.
LinkDropsPalette ==
    /\ pal.open /\ pal' = [pal EXCEPT !.open = FALSE]
    /\ UNCHANGED <<workspace3, search>>

----------------------------------------------------------------------------
(* Search                                                                    *)

DebounceFires ==
    \E q \in BagToSet(debs) :
       /\ debs' = debs (-) SetToBag({q})
       /\ IF pal.open /\ pal.query = q /\ TrimSpace(q) # <<>>
          THEN /\ BagCardinality(outs) + Len(reqs2) + Len(answers) < MaxPending
               /\ pal' = [pal EXCEPT !.searching = TRUE]
               /\ reqs2' = Append(reqs2, q)
               /\ outs' = outs (+) SetToBag({q})
          ELSE UNCHANGED <<pal, reqs2, outs>>
       /\ UNCHANGED <<workspace3, answers>>

SearchTimeoutFires ==
    \E q \in BagToSet(outs) :
       /\ outs' = outs (-) SetToBag({q})
       /\ pal' = IF pal.open /\ pal.query = q /\ pal.searching
                 THEN [pal EXCEPT !.searching = FALSE, !.timedOut = TRUE] ELSE pal
       /\ UNCHANGED <<workspace3, debs, reqs2, answers>>

\* The lines in each pane's output buffer; a dormant pane has none.
Buffer == [a |-> <<>>, b |-> <<<<"p">>>>, q |-> <<<<"t", "p">>, <<"p">>, <<" ">>>>]

scanPaneMatches(lines, term) ==
    LET n == Cardinality({i \in DOMAIN lines : \E j, k \in 1 .. Len(lines[i]) :
                              SubSeq(lines[i], j, k) = term})
    IN [matches |-> IF n > MaxMatches THEN MaxMatches ELSE n, cut |-> n > MaxMatches]

\* Every pane with a match, most matches first and then by id.
searchPanes(term) ==
    LET ids == <<"a", "b", "q">>
        scan == [i \in DOMAIN ids |-> scanPaneMatches(Buffer[ids[i]], TrimSpace(term))]
        found == {i \in DOMAIN ids : scan[i].matches > 0}
        before(i) == {j \in found : scan[j].matches > scan[i].matches
                                    \/ (scan[j].matches = scan[i].matches /\ j < i)}
        best == ByRank([i \in found |-> Cardinality(before(i))])
    IN [panes |-> [k \in DOMAIN best |-> ids[best[k]]],
        truncated |-> \E i \in found : scan[i].cut]

\* The daemon answers with the query as it came, untrimmed; a daemon that does
\* not know the message drops it.
handlePaneSearchReq ==
    /\ reqs2 # <<>> /\ reqs2' = Tail(reqs2)
    /\ LET r == searchPanes(Head(reqs2)) IN
       answers' \in {answers, Append(answers, [query |-> Head(reqs2), panes |-> r.panes,
                                               truncated |-> r.truncated])}
    /\ UNCHANGED <<pal, workspace3, debs, outs>>

\* Panes that have gone since the daemon scanned are left out.
Hits(resp) ==
    LET known == {i \in DOMAIN resp.panes : \E p \in Projects : resp.panes[i] \in Range(strips[p])}
        kept == ByRank([i \in known |-> Cardinality({j \in known : j < i})])
    IN [k \in DOMAIN kept |-> [Row("GoToPane", resp.panes[kept[k]], TRUE) EXCEPT !.from = resp.query]]
Stored(p, resp) ==
    LET q == [p EXCEPT !.hits = Hits(resp), !.searching = FALSE, !.timedOut = FALSE,
                       !.truncated = resp.truncated]
    IN [q EXCEPT !.cursor = clampPaletteCursor(paletteDisplay(q), p.cursor)]

applyPaneSearchAny(resp) == pal' = Stored(pal, resp)
applyPaneSearch(resp) == pal' = IF resp.query = pal.query THEN Stored(pal, resp) ELSE pal

PaneSearchArrives ==
    /\ answers # <<>> /\ answers' = Tail(answers)
    /\ applyPaneSearch(Head(answers))
    /\ UNCHANGED <<workspace3, debs, outs, reqs2>>

----------------------------------------------------------------------------
(* Broadcasts under the open palette                                         *)

\* Another client closed tab x: its project goes with its last tab, and the
\* active tab and project move off what has gone.
TabCloses ==
    /\ gone < MaxGone /\ gone' = gone + 1
    /\ \E p \in Shown : \E x \in Range(strips[p]) :
       /\ \E r \in Projects : strips[r] \notin {<<>>, <<x>>}
       /\ LET s == [strips EXCEPT ![p] = RemoveAt(@, Position(@, x))]
              left == {r \in Projects : s[r] # <<>>}
          IN /\ strips' = s
             /\ at' = [proj |-> IF at.proj \in left THEN at.proj
                                ELSE CHOOSE r \in left : TRUE,
                       tab |-> [r \in Projects |->
                                   IF at.tab[r] = x /\ s[r] # <<>> THEN s[r][1]
                                   ELSE at.tab[r]]]
    /\ UNCHANGED <<pal, astray, search>>

TabMoves ==
    /\ gone < MaxGone /\ gone' = gone + 1
    /\ \E p \in Shown : Len(strips[p]) > 1 /\ strips' = [strips EXCEPT ![p] = Reverse(@)]
    /\ UNCHANGED <<pal, at, astray, search>>

PalNext ==
    \/ openCommandPalette \/ handleCommandPaletteKey \/ PasteIntoPalette
    \/ LinkDropsPalette
    \/ DebounceFires \/ SearchTimeoutFires \/ handlePaneSearchReq \/ PaneSearchArrives
    \/ TabCloses \/ TabMoves

PalSpec == PalInit /\ [][PalNext]_palVars

----------------------------------------------------------------------------
(* Properties                                                                *)

\* An open palette that says "Searching..." has a tick in flight that will
\* either ask for its query or give up on it, whatever the daemon does
\* (paletteSearchTimeout: never "sitting on Searching... forever").
NeverStuckSearching ==
    pal.open /\ pal.searching => BagIn(pal.query, debs) \/ BagIn(pal.query, outs)

\* What an open palette lists under "Found in panes" answers the query in the
\* box, the cursor is on a row Enter can run whenever there is one, and a
\* navigation row has never gone anywhere but to its target: late answers,
\* retyped queries and tabs closed under the frozen registry included.
PaletteSound ==
    /\ NeverStuckSearching
    /\ pal.open =>
       /\ \A i \in DOMAIN pal.hits : pal.hits[i].from = pal.query
       /\ LET d == paletteDisplay(pal) IN
          IF pal.cursor \in DOMAIN d THEN selectable(d[pal.cursor])
          ELSE \A i \in DOMAIN d : ~selectable(d[i])
    /\ ~astray
=============================================================================
