-------------------------- MODULE ReadOnlyEditor --------------------------
(***************************************************************************)
(* The read-only editor of pkg/common/scrolled_editor.go: a list of lines  *)
(* that can be selected, a search bar that filters them in a goroutine of  *)
(* its own, and the flag in the shared UI context through which search bar and *)
(* window call each other back.                                            *)
(*                                                                         *)
(* A frame is one action of the UI thread and handles at most one event of *)
(* the user.  A line's object is a record that tells its text apart from   *)
(* the same text of an earlier SetText: the editor compares pointers.      *)
(***************************************************************************)
EXTENDS Integers, Sequences, FiniteSets, SequencesExt

CONSTANTS
    Texts,          \* what a line can say
    Setters,        \* the calls of SetText that bring lines
    FilterTexts,    \* what the user types into the search bar
    Match(_, _, _), \* Match(f, c, t): text t contains f, c: as it is written
    NoText,         \* the empty search bar
    None,
    MaxFilters,     \* bound: filter goroutines that run at once
    MaxEvents       \* bound: events of the user

ASSUME NoTextAssumption == NoText \notin FilterTexts

VARIABLES
    lines,          \* originContent: the lines of the text, in order
    original,       \* filter.originalContent
    previousWork,   \* what the last filter goroutine found
    filterText,     \* filterField.searchArea
    caseSensitive,
    flag,           \* the value of the editor's key in the UI context
    filters,        \* filter goroutines that were started and have not run
    selected,       \* selectedLines
    marked,         \* the line objects with isSelected
    click,          \* a clicked line that is not yet in, or out of, selected
    gotoLine,       \* the value of gotoLineKey: a line to go to, or None
    redraw,         \* the window was invalidated
    events,         \* events of the user so far
    forgotten       \* history: lines that were selected when SetText forgot it

editorVars == <<lines, original, previousWork, filterText, caseSensitive, flag, filters,
                selected, marked, click, gotoLine, redraw, events, forgotten>>

Liners == [text : Texts, no : 1..Cardinality(Texts \X Setters), of : Setters]

Init ==
    /\ lines = <<>> /\ original = <<>> /\ previousWork = <<>>
    /\ filterText = NoText /\ caseSensitive = FALSE
    /\ flag = FALSE /\ filters = 0
    /\ selected = <<>> /\ marked = {} /\ click = None
    /\ gotoLine = None /\ redraw = TRUE
    /\ events = 0 /\ forgotten = {}

Filtered(ls) == SelectSeq(ls, LAMBDA l : Match(filterText, caseSensitive, l.text))

\* GetContent: the filter's lines, which are all of them for an empty search bar.
GetFiltered(f) == IF f = NoText THEN original ELSE previousWork
Shown == GetFiltered(filterText)

-----------------------------------------------------------------------------
(* SetText in the steps another thread can see apart: the selection goes,   *)
(* then the lines, the new ones come one by one, the filter gets them all.  *)

\* selected and marked need not agree any more.
ForgetSelected ==
    /\ selected' = <<>>
    /\ forgotten' = forgotten \union ToSet(selected)
    /\ UNCHANGED <<lines, original, previousWork, filterText, caseSensitive, flag,
                   filters, marked, click, gotoLine, redraw>>

SetLines(ls) ==
    /\ lines' = ls
    /\ UNCHANGED <<original, previousWork, filterText, caseSensitive, flag, filters,
                   selected, marked, click, gotoLine, redraw, events, forgotten>>

NewLiner(s, text) == [text |-> text, no |-> Len(lines) + 1, of |-> s]

\* One of two lines that are appended at once may be lost.
AddLine(s, text, alone) ==
    \/ SetLines(Append(lines, NewLiner(s, text)))
    \/ ~alone /\ UNCHANGED editorVars

SetOriginalContent ==
    /\ original' = lines
    /\ UNCHANGED <<lines, previousWork, filterText, caseSensitive, flag, filters,
                   selected, marked, click, gotoLine, redraw, events, forgotten>>

-----------------------------------------------------------------------------
(* The filter goroutine, which holds the filter's lock throughout.  It asks *)
(* for no redraw: Filter.editorId is never set, and the UI context has no   *)
(* key of that name.                                                        *)

\* A filter that keeps its last lines when no line matches.
FilterContentFound ==
    /\ filters > 0
    /\ filters' = filters - 1
    /\ previousWork' = IF filterText = NoText \/ Filtered(original) = <<>>
                         THEN previousWork ELSE Filtered(original)
    /\ UNCHANGED <<lines, original, filterText, caseSensitive, flag, selected, marked,
                   click, gotoLine, redraw, events, forgotten>>

FilterContent ==
    /\ filters > 0
    /\ filters' = filters - 1
    /\ previousWork' = IF filterText = NoText THEN previousWork ELSE Filtered(original)
    /\ UNCHANGED <<lines, original, filterText, caseSensitive, flag, selected, marked,
                   click, gotoLine, redraw, events, forgotten>>

-----------------------------------------------------------------------------
(* A frame.  The polled goto-line empties the search bar, then the lines to *)
(* show are fetched, then the search bar handles the user's typing and the  *)
(* flag, then the lines handle clicks.                                      *)

NoEvent == [kind |-> "none"]
Polled == IF gotoLine # None THEN NoText ELSE filterText

\* A line that is not where its number says has a number to click.
UserEvents ==
    LET ls == GetFiltered(Polled) IN
    {[kind |-> "select", liner |-> l] : l \in ToSet(ls)}
    \union {[kind |-> "goto", liner |-> ls[i]] : i \in {j \in DOMAIN ls : ls[j].no # j}}
    \union {[kind |-> "clearSelection"]}
    \union (IF lines # <<>>
              THEN {[kind |-> "type", text |-> f] : f \in FilterTexts \union {NoText}}
                   \union {[kind |-> "case"]}
              ELSE {})

\* SearchBar.Changed: typing, or else the flag as it was before it is flipped.
Changed(e) == lines # <<>> /\ (e.kind = "type" \/ flag)

\* A search bar without lines is not laid out and flips nothing.
FlippedFlag(e) == 
    CASE lines = <<>>      -> flag
      [] e.kind = "type"   -> flag
      [] e.kind = "case"   -> TRUE
      [] OTHER             -> ~flag

LayoutFilter(e) ==
    /\ filterText' = IF e.kind = "type" THEN e.text ELSE Polled
    /\ flag' = FlippedFlag(e)
    /\ caseSensitive' = IF e.kind = "case" THEN ~caseSensitive ELSE caseSensitive
    /\ filters' = filters + (IF Changed(e) THEN 1 ELSE 0)

\* ClearSelection without the marks.
ForgetSelection == selected' = <<>> /\ UNCHANGED <<marked, click>>

ClearSelection ==
    /\ selected' = <<>> /\ marked' = marked \ ToSet(selected)
    /\ UNCHANGED click

\* Liner.Clicked, and where updateSelections finds the line, if it does.
Clicked(l) ==
    /\ marked' = IF l \in marked THEN marked \ {l} ELSE marked \union {l}
    /\ click' = [liner |-> l,
                 at |-> IF l \in ToSet(selected) THEN SelectInSeq(selected, LAMBDA m : m = l)
                        ELSE 0]
    /\ UNCHANGED selected

LayoutLines(e) ==
    CASE e.kind = "select"         -> Clicked(e.liner)
      [] e.kind = "clearSelection" -> ClearSelection
      [] OTHER                     -> UNCHANGED <<selected, marked, click>>

Frame(e) ==
    /\ filters < MaxFilters /\ click = None
    /\ LayoutFilter(e)
    /\ LayoutLines(e)
    /\ gotoLine' = IF e.kind = "goto" THEN e.liner.no ELSE None
    /\ redraw' = (e.kind \in {"goto", "case"})
    /\ events' = IF e = NoEvent THEN events ELSE events + 1
    /\ UNCHANGED <<lines, original, previousWork, forgotten>>

Redraw == Frame(NoEvent)
UserFrame == events < MaxEvents /\ \E e \in UserEvents : Frame(e)

\* The end of updateSelections, with the list as it is by now.
UpdateSelections ==
    /\ click # None /\ click.at <= Len(selected)
    /\ selected' = IF click.at = 0 THEN Append(selected, click.liner)
                   ELSE RemoveAt(selected, click.at)
    /\ click' = None
    /\ UNCHANGED <<lines, original, previousWork, filterText, caseSensitive, flag,
                   filters, marked, gotoLine, redraw, events, forgotten>>

\* It looks for the line where a SetText has just emptied the list: the
\* program ends, and is started again.
Panic ==
    /\ click # None /\ click.at > Len(selected)
    /\ lines' = <<>> /\ original' = <<>> /\ previousWork' = <<>>
    /\ filterText' = NoText /\ caseSensitive' = FALSE
    /\ flag' = FALSE /\ filters' = 0
    /\ selected' = <<>> /\ marked' = {} /\ click' = None
    /\ gotoLine' = None /\ redraw' = TRUE
    /\ UNCHANGED <<events, forgotten>>

-----------------------------------------------------------------------------
EditorTypeOK ==
    /\ {lines, original, previousWork, selected} \subseteq Seq(Liners)
    /\ filterText \in FilterTexts \union {NoText}
    /\ {caseSensitive, flag, redraw} \subseteq BOOLEAN
    /\ filters \in 0..MaxFilters
    /\ marked \subseteq Liners /\ forgotten \subseteq Liners
    /\ click = None \/ (click.liner \in Liners /\ click.at \in Nat)
    /\ gotoLine \in {None} \union Nat
    /\ events \in 0..MaxEvents

\* The lines a frame would draw are those of the present text that match the
\* search bar.
FilterCurrent == Shown = IF filterText = NoText THEN lines ELSE Filtered(lines)

\* As long as there are lines, and frames for whatever reason, the drawn lines
\* come to agree with the text and the search bar, however the goroutines of
\* SetText, of the filter and the user's typing were interleaved: the flag that
\* every frame flips starts a filter in every second one (SearchBar.Changed).
FilterCatchesUp ==
    (<>[](lines # <<>>) /\ []<><<Redraw>>_editorVars) => <>[]FilterCurrent
=============================================================================
