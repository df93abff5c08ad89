------------------------------- MODULE Editor -------------------------------
(* The text editor behind pane notes, plugin files and the read-only viewers *)
(* (internal/tui/editor.go, editor_selection.go, viewer_mouse.go): a         *)
(* document of lines, a cursor, a selection that keys and the mouse extend,  *)
(* and a window over the visual rows that soft wrapping cuts the lines into. *)
(* A rune is a word character or a blank, which is all that jumps and        *)
(* highlighting tell apart.  Rows count from 1, columns and ScrollTop from   *)
(* 0.  The clipboard belongs to the desktop: a paste brings any text.        *)
EXTENDS Integers, Sequences, SequencesExt, FiniteSetsExt

CONSTANTS
    EdDocs,     \* documents an editor is opened on
    EdTexts,    \* what a paste may bring: sequences of lines
    WrapWidth,  \* contentWForLayout, 10 columns or more in the code
    ViewHeight, \* rows shown
    PageSize,   \* lines jumped by alt+up and alt+down
    MaxRunes,   \* runes in a document
    MaxRows     \* lines in a document

VARIABLES
    ed,      \* TextEditor
    behind   \* the document differs from what was last loaded or saved
edVars == <<ed, behind>>

Word == 1
Blank == 0
NoSel == <<>>

\* Who opened the editor: notes wrap and are edited, plugin files are edited,
\* a history entry wraps and a log does not, and neither of the two is edited.
EdKinds == {[wrap |-> TRUE, readOnly |-> FALSE], [wrap |-> FALSE, readOnly |-> FALSE],
            [wrap |-> TRUE, readOnly |-> TRUE], [wrap |-> FALSE, readOnly |-> TRUE]}

NewTextEditor(doc, kind) ==
    [lines |-> doc, pos |-> <<1, 0>>, top |-> 0, sel |-> NoSel, dirty |-> FALSE,
     wrap |-> kind.wrap, readOnly |-> kind.readOnly]

-----------------------------------------------------------------------------
(* Positions, words and paragraphs                                           *)

RowOf(p) == p[1]
ColOf(p) == p[2]
runeLen(lines, r) == Len(lines[r])

\* A position of the document; one past the last rune is one.
InDoc(lines, p) == RowOf(p) \in DOMAIN lines /\ ColOf(p) \in 0 .. runeLen(lines, RowOf(p))

leftOf(lines, p) ==
    IF ColOf(p) > 0 THEN <<RowOf(p), ColOf(p) - 1>>
    ELSE IF RowOf(p) > 1 THEN <<RowOf(p) - 1, runeLen(lines, RowOf(p) - 1)>> ELSE p

rightOf(lines, p) ==
    IF ColOf(p) < runeLen(lines, RowOf(p)) THEN <<RowOf(p), ColOf(p) + 1>>
    ELSE IF RowOf(p) < Len(lines) THEN <<RowOf(p) + 1, 0>> ELSE p

clampCol(lines, p) == <<RowOf(p), Min({ColOf(p), runeLen(lines, RowOf(p))})>>

clampPos(lines, p) ==
    clampCol(lines, <<Max({1, Min({RowOf(p), Len(lines)})}), Max({0, ColOf(p)})>>)

\* The row n lines away, kept in the document.
byRows(lines, p, n) == clampCol(lines, <<Max({1, Min({RowOf(p) + n, Len(lines)})}), ColOf(p)>>)

\* shift+up and shift+down stay where they are at the edges.
stepRow(lines, p, dir) == IF RowOf(p) + dir \in DOMAIN lines
                          THEN clampCol(lines, <<RowOf(p) + dir, ColOf(p)>>) ELSE p

\* Forward to the end of the next word, backward to the start of the last one:
\* blanks are skipped first.
editorWordBoundary(line, col, dir) ==
    LET n == Len(line)
        ahead(c, want) == Min({n} \cup {i \in c .. n - 1 : line[i + 1] = want})
        back(c, want) == Max({-1} \cup {i \in 0 .. c : line[i + 1] = want})
    IN  IF n = 0 \/ col + dir < 0 THEN 0
        ELSE IF col + dir >= n THEN n
        ELSE IF dir > 0 THEN ahead(ahead(col + 1, Word), Blank)
        ELSE back(back(col - 1, Word), Blank) + 1

wordStep(lines, p, dir) ==
    LET next == editorWordBoundary(lines[RowOf(p)], ColOf(p), dir)
        r == RowOf(p) + dir
    IN  IF next # ColOf(p) THEN <<RowOf(p), next>>
        ELSE IF r \notin DOMAIN lines THEN p
        ELSE <<r, IF lines[r] = <<>> THEN 0
                  ELSE editorWordBoundary(lines[r], IF dir > 0 THEN -1 ELSE runeLen(lines, r), dir)>>

\* One word, or three; a step that does not move ends the jump.
editorWordJump(lines, p, dir, count) ==
    LET one == wordStep(lines, p, dir)
    IN  IF count = 1 THEN one ELSE wordStep(lines, wordStep(lines, one, dir), dir)

isEmptyOrWhitespace(line) == \A i \in DOMAIN line : line[i] = Blank

\* Past the blank lines here, then to the next blank line or the document's edge.
editorParagraphJump(lines, row, dir) ==
    LET n == Len(lines)
        blank(r) == isEmptyOrWhitespace(lines[r])
        ahead(r, want) == Min({n + 1} \cup {i \in r .. n : blank(i) = want})
        back(r, want) == Max({0} \cup {i \in 1 .. r : blank(i) = want})
        to == IF dir > 0 THEN ahead(ahead(row, FALSE), TRUE) ELSE back(back(row, FALSE), TRUE)
    IN  <<Max({1, Min({to, n})}), 0>>

-----------------------------------------------------------------------------
(* Visual rows                                                               *)

\* The rows one line is drawn on: cut at WrapWidth runes, at least one.
rowsOf(e, r) ==
    LET n == runeLen(e.lines, r)
    IN  IF ~e.wrap \/ n = 0 THEN <<[row |-> r, from |-> 0, to |-> n]>>
        ELSE [k \in 1 .. (n + WrapWidth - 1) \div WrapWidth |->
                [row |-> r, from |-> (k - 1) * WrapWidth, to |-> Min({k * WrapWidth, n})]]

visualLayout(e) == FlattenSeq([r \in DOMAIN e.lines |-> rowsOf(e, r)])

\* The row that shows position p: the end of a cut row belongs to the next one.
cursorVisualRow(layout, p) ==
    LET owns(v) == /\ layout[v].row = RowOf(p)
                   /\ \/ layout[v].from <= ColOf(p) /\ ColOf(p) < layout[v].to
                      \/ /\ ColOf(p) = layout[v].to
                         /\ (v = Len(layout) \/ layout[v + 1].row # RowOf(p))
        mine == {v \in DOMAIN layout : owns(v)}
        after == {v \in DOMAIN layout : layout[v].row >= RowOf(p)}
    IN  IF mine # {} THEN Min(mine) ELSE IF after # {} THEN Min(after) ELSE Len(layout)

visualToLogical(layout, v, c) ==
    LET vr == layout[Max({1, Min({v, Len(layout)})})]
    IN  <<vr.row, vr.from + Max({0, Min({c, vr.to - vr.from})})>>

ensureCursorVisible(e) ==
    LET v == cursorVisualRow(visualLayout(e), e.pos)
        up == IF v <= e.top THEN v - 1 ELSE e.top
    IN  [e EXCEPT !.top = IF v > up + ViewHeight THEN v - ViewHeight ELSE up]

verticalMove(e, dir) ==
    LET layout == visualLayout(e)
        v == cursorVisualRow(layout, e.pos)
    IN  IF ~e.wrap THEN stepRow(e.lines, e.pos, dir)
        ELSE IF v + dir \notin DOMAIN layout THEN e.pos
        ELSE visualToLogical(layout, v + dir, ColOf(e.pos) - layout[v].from)

\* The document position under a cell of the body.
posAt(e, dy, dx) ==
    IF e.wrap THEN visualToLogical(visualLayout(e), e.top + 1 + dy, dx)
    ELSE clampPos(e.lines, <<e.top + 1 + dy, dx>>)

-----------------------------------------------------------------------------
(* Selection and text                                                        *)

IsEmpty(sel) == IF sel = NoSel THEN TRUE ELSE sel[1] = sel[2]

\* Anchor and cursor, top to bottom and left to right.
Normalized(sel) ==
    LET a == sel[1] c == sel[2]
    IN  IF RowOf(a) < RowOf(c) \/ (RowOf(a) = RowOf(c) /\ ColOf(a) <= ColOf(c)) THEN <<a, c>> ELSE <<c, a>>

before(lines, p) == SubSeq(lines[RowOf(p)], 1, ColOf(p))
after(lines, p) == SubSeq(lines[RowOf(p)], ColOf(p) + 1, runeLen(lines, RowOf(p)))

\* editorExtractText takes the ends' lines in part and the ones between whole.
editorExtractText(lines, sel) ==
    LET s == Normalized(sel)[1] t == Normalized(sel)[2]
    IN  IF RowOf(s) = RowOf(t) THEN <<SubSeq(lines[RowOf(s)], ColOf(s) + 1, ColOf(t))>>
        ELSE <<after(lines, s)>> \o SubSeq(lines, RowOf(s) + 1, RowOf(t) - 1) \o <<before(lines, t)>>

\* Mutation: the last line's selected part stays in the document.
deleteSelectionKeepsTail(e) ==
    LET s == Normalized(e.sel)[1] t == Normalized(e.sel)[2]
    IN  IF IsEmpty(e.sel) THEN [e EXCEPT !.sel = NoSel]
        ELSE [e EXCEPT !.sel = NoSel, !.pos = s,
                       !.lines = SubSeq(@, 1, RowOf(s) - 1)
                                 \o <<before(@, s) \o after(@, <<RowOf(t), ColOf(s)>>)>>
                                 \o SubSeq(@, RowOf(t) + 1, Len(@))]

\* The first line's head joins the last line's tail; the cursor goes to the start.
deleteSelection(e) ==
    LET s == Normalized(e.sel)[1] t == Normalized(e.sel)[2]
    IN  IF IsEmpty(e.sel) THEN [e EXCEPT !.sel = NoSel]
        ELSE [e EXCEPT !.sel = NoSel, !.pos = s,
                       !.lines = SubSeq(@, 1, RowOf(s) - 1) \o <<before(@, s) \o after(@, t)>>
                                 \o SubSeq(@, RowOf(t) + 1, Len(@))]

\* An empty selection stays, at the position where it was emptied.
clearSel(e) == IF IsEmpty(e.sel) THEN e ELSE deleteSelection(e)

\* Text of one line goes into the cursor's line; more of them split it.
insertLines(e, text) ==
    LET n == Len(text)
        head == before(e.lines, e.pos)
        tail == after(e.lines, e.pos)
        new == IF n = 1 THEN <<head \o text[1] \o tail>>
               ELSE <<head \o text[1]>> \o SubSeq(text, 2, n - 1) \o <<text[n] \o tail>>
    IN  [e EXCEPT !.lines = SubSeq(@, 1, RowOf(e.pos) - 1) \o new
                            \o SubSeq(@, RowOf(e.pos) + 1, Len(@)),
                  !.pos = IF n = 1 THEN <<RowOf(@), ColOf(@) + Len(text[1])>>
                          ELSE <<RowOf(@) + n - 1, Len(text[n])>>]

InsertMultiLine(e, text) == IF e.readOnly THEN e ELSE insertLines(clearSel(e), text)

\* Backspace and delete take the rune beside the cursor, or join two lines.
removeBetween(e, p, q) == [deleteSelection([e EXCEPT !.sel = <<p, q>>]) EXCEPT !.sel = e.sel]
backspace(e) == removeBetween(e, leftOf(e.lines, e.pos), e.pos)
deleteChar(e) == removeBetween(e, e.pos, rightOf(e.lines, e.pos))

\* ctrl+y: the only line is emptied instead.
deleteLine(e) ==
    LET rest == SubSeq(e.lines, 1, RowOf(e.pos) - 1)
                \o SubSeq(e.lines, RowOf(e.pos) + 1, Len(e.lines))
    IN  IF Len(e.lines) = 1
        THEN [e EXCEPT !.sel = NoSel, !.lines = <<<<>>>>, !.dirty = @ \/ e.lines # <<<<>>>>,
                       !.pos = IF e.lines = <<<<>>>> THEN @ ELSE <<1, 0>>]
        ELSE [e EXCEPT !.sel = NoSel, !.dirty = TRUE, !.lines = rest,
                       !.pos = clampCol(rest, <<Min({RowOf(@), Len(rest)}), ColOf(@)>>)]
-----------------------------------------------------------------------------
(* Keys                                                                      *)

\* An editor opens at its top, a log at its last line.
Opened(doc, kind) ==
    LET e == NewTextEditor(doc, kind)
    IN  IF kind.readOnly /\ ~kind.wrap
        THEN ensureCursorVisible([e EXCEPT !.pos = <<Len(doc), 0>>]) ELSE e

EdInit == /\ \E doc \in EdDocs, kind \in EdKinds : ed = Opened(doc, kind)
          /\ behind = FALSE

\* The selection names a place the document no longer has; a key that extends
\* it then indexes past Lines.  The model stops here.
Stray == ed.sel # NoSel /\ \E i \in 1 .. 2 : ~InDoc(ed.lines, ed.sel[i])

Fits(e) == /\ Len(e.lines) <= MaxRows
           /\ Len(FlattenSeq(e.lines)) <= MaxRunes

Edit(e) ==
    /\ ~Stray /\ Fits(e)
    /\ ed' = ensureCursorVisible(e)
    /\ behind' = (behind \/ e.lines # ed.lines)

\* A key that leaves the document alone.
Look(e) ==
    /\ ~Stray
    /\ ed' = ensureCursorVisible(e)
    /\ UNCHANGED behind

\* The keys that move the cursor, and with shift the selection's end.
Jumps == {"left", "right", "word left", "word right", "words left", "words right",
          "paragraph up", "paragraph down"}
jump(lines, p, key) ==
    CASE key = "left" -> leftOf(lines, p)
      [] key = "right" -> rightOf(lines, p)
      [] key = "word left" -> editorWordJump(lines, p, -1, 1)
      [] key = "word right" -> editorWordJump(lines, p, 1, 1)
      [] key = "words left" -> editorWordJump(lines, p, -1, 3)
      [] key = "words right" -> editorWordJump(lines, p, 1, 3)
      [] key = "paragraph up" -> editorParagraphJump(lines, RowOf(p), -1)
      [] key = "paragraph down" -> editorParagraphJump(lines, RowOf(p), 1)

\* home and end stay within the visual row when lines are wrapped.
movedTo(e, key) ==
    LET layout == visualLayout(e)
        row == layout[cursorVisualRow(layout, e.pos)]
    IN  CASE key = "up" -> verticalMove(e, -1)
          [] key = "down" -> verticalMove(e, 1)
          [] key = "home" -> <<RowOf(e.pos), row.from>>
          [] key = "end" -> <<RowOf(e.pos), row.to>>
          [] key = "page up" -> byRows(e.lines, e.pos, -PageSize)
          [] key = "page down" -> byRows(e.lines, e.pos, PageSize)
          [] OTHER -> jump(e.lines, e.pos, key)

\* Movement drops the selection.
Move == \E key \in Jumps \cup {"up", "down", "home", "end", "page up", "page down"} :
    Look([ed EXCEPT !.sel = NoSel, !.pos = movedTo(ed, key)])

\* With shift the whole line is home and end, and rows are the document's.
selectedTo(lines, p, key) ==
    CASE key = "up" -> stepRow(lines, p, -1)
      [] key = "down" -> stepRow(lines, p, 1)
      [] key = "home" -> <<RowOf(p), 0>>
      [] key = "end" -> <<RowOf(p), runeLen(lines, RowOf(p))>>
      [] OTHER -> jump(lines, p, key)

\* A selection starts at the cursor, and grows from its own end.
handleEdSelectionKey == \E key \in Jumps \cup {"up", "down", "home", "end"} :
    LET sel == IF ed.sel = NoSel THEN <<ed.pos, ed.pos>> ELSE ed.sel
        cur == selectedTo(ed.lines, sel[2], key)
    IN  Look([ed EXCEPT !.sel = <<sel[1], cur>>, !.pos = cur])

selectAll ==
    LET end == <<Len(ed.lines), runeLen(ed.lines, Len(ed.lines))>>
    IN  Look([ed EXCEPT !.sel = <<<<1, 0>>, end>>, !.pos = end])

\* ctrl+c, enter and the right button copy a selection and drop it.
Copy == ~IsEmpty(ed.sel) /\ Look([ed EXCEPT !.sel = NoSel])

Cut == /\ ~ed.readOnly /\ ~IsEmpty(ed.sel)
       /\ Edit([deleteSelection(ed) EXCEPT !.dirty = TRUE])

\* A character, tab and space; the selection is replaced.
Type == /\ ~ed.readOnly
        /\ \E text \in {<<Word>>, <<Blank>>, <<Blank, Blank>>} :
              Edit([insertLines(clearSel(ed), <<text>>) EXCEPT !.dirty = TRUE])

insertNewline == /\ ~ed.readOnly /\ IsEmpty(ed.sel)
                 /\ Edit([insertLines(ed, <<<<>>, <<>>>>) EXCEPT !.dirty = TRUE])

Erase == /\ ~ed.readOnly
         /\ \E e \in (IF IsEmpty(ed.sel) THEN {backspace(ed), deleteChar(ed)}
                       ELSE {deleteSelection(ed)}) :
              Edit([e EXCEPT !.dirty = TRUE])

EraseLine == ~ed.readOnly /\ Edit(deleteLine(ed))

\* A terminal's paste, or the clipboard read that ctrl+v started in a command of
\* its own: the text comes to an editor that went on meanwhile.  The notes panel
\* brings the cursor into view when it is drawn; the file editor waits for a key.
EdPaste ==
    /\ ~Stray /\ ~ed.readOnly
    /\ \E text \in EdTexts :
         LET e == [InsertMultiLine(ed, text) EXCEPT !.dirty = TRUE]
         IN  /\ Fits(e)
             /\ ed' = IF e.wrap THEN ensureCursorVisible(e) ELSE e
             /\ behind' = (behind \/ e.lines # ed.lines)

\* Save checks and writes the file; where it refuses or cannot write, nothing
\* but its message changes.
Save == /\ ~Stray /\ ~ed.readOnly
        /\ ed' = [ed EXCEPT !.dirty = FALSE] /\ behind' = FALSE
    
\* esc drops the selection first.
Esc == /\ ~Stray /\ ed.sel # NoSel
       /\ ed' = [ed EXCEPT !.sel = NoSel]
       /\ UNCHANGED behind

\* esc without one closes the editor, and what was not saved goes with it.
Close == /\ ~Stray /\ ed.sel = NoSel
         /\ \E doc \in EdDocs, kind \in EdKinds : ed' = Opened(doc, kind)
         /\ behind' = FALSE
-----------------------------------------------------------------------------
(* Mouse: the notes panel and the viewers                                    *)

Clickable == ed.wrap \/ ed.readOnly
Cells == (0 .. ViewHeight - 1) \X (0 .. WrapWidth)

\* A press moves the cursor and becomes the anchor of the drag that may follow.
Press == /\ ~Stray /\ Clickable
         /\ \E c \in Cells :
              ed' = ensureCursorVisible([ed EXCEPT !.pos = posAt(ed, c[1], c[2]), !.sel = NoSel])
         /\ UNCHANGED behind

\* A motion begins the selection at the anchor, clamped to the document, which
\* may have scrolled or changed since the press, and extends it; the release
\* only ends the drag.
EdDrag == /\ ~Stray /\ Clickable
        /\ \E c \in Cells, r \in DOMAIN ed.lines : \E k \in 0 .. runeLen(ed.lines, r) :
             LET p == posAt(ed, c[1], c[2])
                 anchor == IF IsEmpty(ed.sel) THEN <<r, k>> ELSE ed.sel[1]
             IN  ed' = ensureCursorVisible([ed EXCEPT !.pos = p, !.sel = <<anchor, p>>])
        /\ UNCHANGED behind

\* The wheel moves a viewer's window and leaves the cursor where it is.
scrollViewer ==
    /\ ed.readOnly
    /\ \E n \in {-1, 1} :
         LET maxTop == Len(visualLayout(ed)) - ViewHeight
         IN  ed' = [ed EXCEPT !.top = Max({0, Min({@ + n, maxTop})})]
    /\ UNCHANGED behind

EdNext == \/ Move \/ handleEdSelectionKey \/ selectAll \/ Copy \/ Cut
          \/ Type \/ insertNewline \/ Erase \/ EraseLine \/ EdPaste
          \/ Save \/ Esc \/ Close \/ Press \/ EdDrag \/ scrollViewer
-----------------------------------------------------------------------------
\* What is cut can be put back: the text copied from a selection, inserted where
\* the deletion leaves the cursor, gives the document again.
CutIsCopied ==
    ~Stray /\ ~IsEmpty(ed.sel) =>
        LET rest == deleteSelection(ed) IN
        insertLines(rest, editorExtractText(ed.lines, ed.sel)).lines = ed.lines

\* Every place of the document is shown on one visual row, and a click on the
\* cell where it is drawn comes back to it.
ClickFindsPlace ==
    LET layout == visualLayout(ed) IN
    \A r \in DOMAIN ed.lines : \A c \in 0 .. runeLen(ed.lines, r) :
        LET v == cursorVisualRow(layout, <<r, c>>) IN
        visualToLogical(layout, v, c - layout[v].from) = <<r, c>>

\* Whatever keys, pastes and drags interleave: the cursor stays in the document,
\* the notes panel's and the viewers' window over it (a file editor's is past
\* its end when a paste replaces a long document, until the next key), a
\* read-only document never changes, an edited one is dirty until it is saved,
\* a cut loses nothing and a click lands where it aims.
EditorSound ==
    /\ ~Stray => InDoc(ed.lines, ed.pos)
    /\ ~Stray /\ Clickable => ed.top < Len(visualLayout(ed))
    /\ behind => ed.dirty /\ ~ed.readOnly
    /\ CutIsCopied
    /\ ClickFindsPlace
=============================================================================
