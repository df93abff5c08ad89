------------------------------ MODULE MCClient ------------------------------
(* The client's parts and the ring buffer its panes are replayed from, each *)
(* on its own: a behaviour takes one part and leaves the others still.     *)
EXTENDS Reconnect, TabTree, TuiLoop, Attention, Screen, Keys, Dialogs,
        ProjectForm, Replay, Palette, Editor, Notes, RingBuffer

\* The ring's bytes, and chunks from empty to one byte more than fits.
MCByte == {0, 1}
MCChunks == UNION {[1 .. n -> MCByte] : n \in 0 .. Capacity + 1}

\* Screen's projects and their tabs, and the tabs of Keys and their panes.
ScreenTabs == [p1 |-> <<"t1", "t2">>, p2 |-> <<"t3">>]
KT == [t1 |-> {"a", "b"}, t2 |-> {"c"}]

\* Documents of two and three lines, and clipboards of one and two.
MCEdDocs == {<<<<1>>, <<>>, <<0, 1>>>>, <<<<1>>, <<0, 1>>>>}
MCEdTexts == {<<<<1>>>>, <<<<>>, <<1>>>>}

\* The part this behaviour is about; the others stand still.
VARIABLE scope

CInit ==
    /\ scope \in {"links", "tree", "loop", "attention", "screen", "keys",
                 "dialogs", "form", "replay", "palette", "editor", "notes", "ring"}
    /\ RecInit /\ (scope = "links" \/ (\A h \in DestIds \ {Local} : off[h] = "needs"))
    /\ TreeInit
    /\ LoopInit /\ (scope = "loop" \/ (~isRouter /\ sites = {CHOOSE s \in Sites : TRUE}))
    /\ AttInit /\ (scope = "attention" \/ (activeP = "a"))
    /\ ScrInit /\ (scope = "screen" \/ (cl.proj = "p1"))
    /\ KeyInit /\ (scope = "keys" \/ (u.tab = "t1" /\ u.act["t1"] = "a"))
    /\ DlgInit /\ (scope = "dialogs" \/ (dlg.stale = 0 /\ dlg.dialog = NoDlg /\ dlg.queue = <<>>))
    /\ FormInit /\ (scope = "form" \/ (onHost = <<Bootstrap>> /\ ~linked))
    /\ ReplayInit /\ (scope = "replay" \/ (~pane.snap /\ ~pane.own /\ ~pane.key))
    /\ PalInit
    /\ EdInit /\ (scope = "editor" \/ (ed = Opened(<<<<1>>, <<0, 1>>>>, [wrap |-> TRUE, readOnly |-> FALSE])))
    /\ NotesInit
    /\ Init

CNext ==
    /\ UNCHANGED scope
    /\ \/ /\ scope = "links" /\ RecNext
          /\ UNCHANGED <<treeVars, loopVars, attVars, scrVars, keyVars, dlgVars,
                       formVars, replayVars, palVars, edVars, noteVars, vars>>
       \/ /\ scope = "tree" /\ TreeNext
          /\ UNCHANGED <<recVars, loopVars, attVars, scrVars, keyVars, dlgVars, formVars,
                       replayVars, palVars, edVars, noteVars, vars>>
       \/ /\ scope = "loop" /\ LoopNext
          /\ UNCHANGED <<recVars, treeVars, attVars, scrVars, keyVars, dlgVars, formVars,
                       replayVars, palVars, edVars, noteVars, vars>>
       \/ /\ scope = "attention" /\ AttNext
          /\ UNCHANGED <<recVars, treeVars, loopVars, scrVars, keyVars, dlgVars,
                       formVars, replayVars, palVars, edVars, noteVars, vars>>
       \/ /\ scope = "screen" /\ ScrNext
          /\ UNCHANGED <<recVars, treeVars, loopVars, attVars, keyVars, dlgVars,
                       formVars, replayVars, palVars, edVars, noteVars, vars>>
       \/ /\ scope = "keys" /\ KeyNext
          /\ UNCHANGED <<recVars, treeVars, loopVars, attVars, scrVars, dlgVars,
                       formVars, replayVars, palVars, edVars, noteVars, vars>>
       \/ /\ scope = "dialogs" /\ DlgNext
          /\ UNCHANGED <<recVars, treeVars, loopVars, attVars, scrVars, keyVars,
                       formVars, replayVars, palVars, edVars, noteVars, vars>>
       \/ /\ scope = "form" /\ FormNext
          /\ UNCHANGED <<recVars, treeVars, loopVars, attVars, scrVars, keyVars, dlgVars,
                       replayVars, palVars, edVars, noteVars, vars>>
       \/ /\ scope = "replay" /\ ReplayNext
          /\ UNCHANGED <<recVars, treeVars, loopVars, attVars, scrVars, keyVars, dlgVars,
                       formVars, palVars, edVars, noteVars, vars>>
       \/ /\ scope = "palette" /\ PalNext
          /\ UNCHANGED <<recVars, treeVars, loopVars, attVars, scrVars, keyVars, dlgVars,
                       formVars, replayVars, edVars, noteVars, vars>>
       \/ /\ scope = "editor" /\ EdNext
          /\ UNCHANGED <<recVars, treeVars, loopVars, attVars, scrVars, keyVars, dlgVars,
                       formVars, replayVars, palVars, noteVars, vars>>
       \/ /\ scope = "notes" /\ NotesNext
          /\ UNCHANGED <<recVars, treeVars, loopVars, attVars, scrVars, keyVars, dlgVars,
                       formVars, replayVars, palVars, edVars, vars>>
       \/ /\ scope = "ring" /\ Next
          /\ UNCHANGED <<recVars, treeVars, loopVars, attVars, scrVars, keyVars, dlgVars,
                       formVars, replayVars, palVars, edVars, noteVars>>

cVars == <<scope, recVars, treeVars, loopVars, attVars, scrVars, keyVars,
          dlgVars, formVars, replayVars, palVars, edVars, noteVars, vars>>
CSpec == CInit /\ [][CNext]_cVars
=============================================================================
