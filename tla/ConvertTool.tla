---------------------------- MODULE ConvertTool -----------------------------
(***************************************************************************)
(* The convert tool of pkg/panels/convert_tool.go: trees of conversions    *)
(* below texts the user types, the results they keep, and the panel that   *)
(* shows the source of a conversion on the left and its result on the      *)
(* right.  Everything runs on the UI thread and nothing is stored.         *)
(*                                                                         *)
(* A result is kept until it is asked for again as text, and of all the    *)
(* results below an edited text only the one on the panel is renewed.      *)
(* Selecting a conversion refreshes the panel; adding one selects it and   *)
(* leaves the panel as it is.                                              *)
(***************************************************************************)
EXTENDS Integers, Sequences, FiniteSets, SequencesExt

CONSTANTS
    Texts,      \* plain texts a user may type
    Hello,      \* the text of a new item, "Hello World!"
    None,
    MaxItems    \* bound: items and conversions

ASSUME TextAssumption == Hello \in Texts /\ None \notin Texts

VARIABLES
    items,      \* items[i]: the i-th item or conversion made
    current,    \* currentItem, 0 for nil
    readOnly,   \* sourceEditor.ReadOnly
    source,     \* the text of sourceEditor
    target,     \* the text of targetEditor
    dialog,     \* the kind whose options are asked for
    shown,      \* history: the item the panel was last filled for
    overwritten \* history: conversions whose result the user has typed over

vars == <<items, current, readOnly, source, target, dialog, shown, overwritten>>

-----------------------------------------------------------------------------
(* Contents.  A content is what it was made of, a text or the certificate   *)
(* generated by an item, and what was done to it since.                     *)

Content(of, ops) == [of |-> of, ops |-> ops]
Message(text) == Content(None, <<text>>)
Empty == Content(None, <<>>)

\* What a user types or pastes: a text, or an encoded one.
Typed == {Content(t, <<>>) : t \in Texts} \union {Content(Hello, <<"base64">>)}

Source(content, failed, writable) ==
    [content |-> content, err |-> failed, writable |-> writable]
Text(src) == IF src.err THEN Message("error") ELSE src.content

\* The entries of the menu.
Kinds == {"base64", "base64Decode", "x509CertDecode", "x509CertGen", "jwt"}
HasOptions(kind) == kind # "x509CertDecode"

Encode(c) == Source(Content(c.of, Append(c.ops, "base64")), FALSE, FALSE)

\* A text that is not base64 gives an error, and what came before the place
\* that is wrong is kept as content.
Decode(c) ==
    IF c.ops # <<>> /\ Last(c.ops) = "base64"
      THEN Source(Content(c.of, Front(c.ops)), FALSE, FALSE)
      ELSE Source(Content(c.of, Append(c.ops, "cut")), TRUE, FALSE)

\* A certificate, or the encoding of one, is spelled out.
CertInfo(c) ==
    IF c.of \in 1..MaxItems /\ c.ops \in {<<>>, <<"base64">>}
      THEN Source(Content(c.of, <<"info">>), FALSE, FALSE)
      ELSE Source(Message("not a valid pem"), FALSE, FALSE)

\* The generator returns the certificate it has made, if it could make one.
\* Its source does not matter.
Generate(item, i) ==
    IF ~item.valid THEN Source(Empty, TRUE, FALSE)
    ELSE IF item.result # None THEN item.result
    ELSE Source(Content(i, <<>>), FALSE, FALSE)

\* The converter of item, which is number i, applied to the content c.
Convert(item, i, c) ==
    CASE item.kind = "base64" -> Encode(c)
      [] item.kind = "base64Decode" -> Decode(c)
      [] item.kind = "x509CertDecode" -> CertInfo(c)
      [] item.kind = "x509CertGen" -> Generate(item, i)
      [] item.kind = "jwt" -> Source(Message("not implemented"), FALSE, FALSE)

-----------------------------------------------------------------------------
(* Conversions.                                                             *)

IsRoot(is, i) == is[i].origin = 0

\* The conversions from i up to its root.
Path(is, i) ==
    LET up[j \in 0..Len(is)] == IF j = 0 THEN {} ELSE {j} \union up[is[j].origin] IN up[i]

\* GetValue of i: whatever on its path has no result yet gets one.
GetValue(is, i) ==
    LET value[j \in DOMAIN is] ==
          IF is[j].result # None THEN is[j].result
          ELSE Convert(is[j], j, value[is[j].origin].content) IN
    [j \in DOMAIN is |-> IF j \in Path(is, i) THEN [is[j] EXCEPT !.result = value[j]] ELSE is[j]]

\* doConversion of i: anew, from the result its origin has.
DoConversion(is, i) ==
    IF IsRoot(is, i) THEN is
    ELSE LET js == GetValue(is, is[i].origin) IN
         [js EXCEPT ![i].result = Convert(js[i], i, js[is[i].origin].result.content)]

\* The item whose value the left editor shows for i.
SourceOf(is, i) == IF IsRoot(is, i) THEN i ELSE is[i].origin

\* Mutant of AfterSource: GetSourceContent takes the result that is kept.
AfterKeptSource(is, i) == GetValue(is, SourceOf(is, i))

\* GetSourceContent renews the result it shows.
AfterSource(is, i) == DoConversion(is, SourceOf(is, i))

\* Mutant of AfterTarget: GetValueAsString takes the result that is kept.
AfterKeptTarget(is, i) == GetValue(is, i)

\* GetValueAsString renews it too.
AfterTarget(is, i) == DoConversion(is, i)

\* Mutant of ReadOnlyFor: by IsReadOnly of the conversion.
ReadOnlyNever(is, i) == FALSE

\* The source editor is closed unless what it shows is writable.
ReadOnlyFor(is, i) == ~IsRoot(is, i) /\ ~is[is[i].origin].result.writable

TargetText(is, i) == IF IsRoot(is, i) THEN Empty ELSE Text(is[i].result)

\* layoutConversion, updateConversionPanel.
Click(i) ==
    LET sourced == AfterSource(items, i)
        converted == AfterTarget(sourced, i) IN
    /\ dialog = None
    /\ items' = converted
    /\ current' = i
    /\ readOnly' = ReadOnlyFor(sourced, i)
    /\ source' = Text(sourced[SourceOf(items, i)].result)
    /\ target' = TargetText(converted, i)
    /\ shown' = i
    /\ UNCHANGED <<dialog, overwritten>>

-----------------------------------------------------------------------------
(* Adding.                                                                  *)

NewConversionItem ==
    /\ dialog = None
    /\ Len(items) < MaxItems
    /\ items' = Append(items, [origin |-> 0, kind |-> "none", valid |-> TRUE,
                               result |-> Source(Content(Hello, <<>>), FALSE, TRUE)])
    /\ UNCHANGED <<current, readOnly, source, target, dialog, shown, overwritten>>

\* The options asked for matter to the generator only.
Options(kind) == IF kind = "x509CertGen" THEN {"ok", "bad key type", "bad options"} ELSE {"ok"}

\* A conversion of the kind whose origin is the current item.
AddConversion(kind, valid) ==
    /\ Len(items) < MaxItems
    /\ items' = Append(items, [origin |-> current, kind |-> kind, valid |-> valid,
                               result |-> None])

\* The new conversion becomes the current one.
DoFor(kind, valid) ==
    IF current = 0 THEN UNCHANGED <<items, current>>
    ELSE AddConversion(kind, valid) /\ current' = Len(items) + 1

\* A click on an entry of the menu.
ChooseAction(kind) ==
    /\ dialog = None
    /\ IF HasOptions(kind) THEN dialog' = kind /\ UNCHANGED <<items, current>>
                           ELSE dialog' = None /\ DoFor(kind, TRUE)
    /\ UNCHANGED <<readOnly, source, target, shown, overwritten>>

\* The dialog's OK.  The generator refuses a key type it does not know; with
\* other bad options it is added and cannot make a certificate.
Apply(options) ==
    /\ dialog # None
    /\ options \in Options(dialog)
    /\ dialog' = None
    /\ IF options = "bad key type" THEN UNCHANGED <<items, current>>
                                   ELSE DoFor(dialog, options = "ok")
    /\ UNCHANGED <<readOnly, source, target, shown, overwritten>>

Cancel ==
    /\ dialog # None
    /\ dialog' = None
    /\ UNCHANGED <<items, current, readOnly, source, target, shown, overwritten>>

-----------------------------------------------------------------------------
(* Typing.                                                                  *)

\* The source editor is there, open, and takes another text.  For a generator
\* its options are shown instead.
Edits(text) ==
    /\ dialog = None
    /\ ~readOnly
    /\ text # source
    /\ current # 0 => items[current].kind # "x509CertGen"

\* SetValue, whatever IsReadOnly says.
SetValue(is, i, text) == [is EXCEPT ![i].result.content = text]

\* UpdateContent of i.
UpdateContent(is, i, text) == DoConversion(SetValue(is, SourceOf(is, i), text), i)

\* The editor shows the source of the current item.
Aimed == shown # 0 /\ SourceOf(items, shown) = SourceOf(items, current)

Type(text) ==
    LET edited == SourceOf(items, current)
        updated == UpdateContent(items, current, text) IN
    /\ Edits(text)
    /\ current # 0
    /\ items[edited].result # None
    /\ items' = updated
    /\ source' = text
    /\ target' = IF IsRoot(items, current) THEN target ELSE Text(updated[current].result)
    /\ shown' = current
    /\ overwritten' = IF IsRoot(items, edited) \/ Aimed THEN overwritten
                                                      ELSE overwritten \union {edited}
    /\ UNCHANGED <<current, readOnly, dialog>>

\* Nothing is selected: the text stays in the editor.
TypeNothing(text) ==
    /\ Edits(text)
    /\ current = 0
    /\ source' = text
    /\ UNCHANGED <<items, current, readOnly, target, dialog, shown, overwritten>>

-----------------------------------------------------------------------------
Init ==
    /\ items = <<>>
    /\ current = 0
    /\ readOnly = FALSE
    /\ source = Empty
    /\ target = Empty
    /\ dialog = None
    /\ shown = 0
    /\ overwritten = {}

\* SetValue of a conversion that has no result: the program ends, and starts
\* with an empty list.
Panic(text) ==
    /\ Edits(text)
    /\ current # 0
    /\ items[SourceOf(items, current)].result = None
    /\ items' = <<>>
    /\ current' = 0
    /\ readOnly' = FALSE
    /\ source' = Empty
    /\ target' = Empty
    /\ dialog' = None
    /\ shown' = 0
    /\ overwritten' = {}

Next ==
    \/ NewConversionItem
    \/ \E i \in DOMAIN items : Click(i)
    \/ \E kind \in Kinds : ChooseAction(kind)
    \/ \E options \in Options("x509CertGen") : Apply(options)
    \/ Cancel
    \/ \E text \in Typed : Type(text) \/ TypeNothing(text) \/ Panic(text)

Spec == Init /\ [][Next]_vars

-----------------------------------------------------------------------------
(* Properties.                                                              *)

\* Types; and a conversion that has a result has one all the way up.
TypeOK ==
    /\ \A i \in DOMAIN items :
         LET item == items[i] IN
         /\ item.origin \in 0 .. i - 1
         /\ item.kind \in (IF item.origin = 0 THEN {"none"} ELSE Kinds)
         /\ item.result # None => \A j \in Path(items, i) : items[j].result # None
         /\ item.origin = 0 => item.result # None /\ item.result.content \in Typed
    /\ {current, shown} \subseteq 0..Len(items)
    /\ readOnly \in BOOLEAN
    /\ dialog \in Kinds \union {None}

\* The left shows the source content and the right the converted content of
\* the item the panel was filled for (convert_tool.go:1003-1005): what its
\* origin holds now, and what becomes of just that.  (Not after typing over a
\* result that is an error: the text is new and the error stays.)  And all is
\* well typed.
PanelShowsConversion ==
    /\ TypeOK
    /\ shown # 0 /\ shown = current /\ ~IsRoot(items, shown)
         /\ items[shown].origin \notin overwritten =>
         LET from == items[items[shown].origin].result IN
         /\ source = Text(from)
         /\ target = Text(Convert(items[shown], shown, from.content))

\* The result of i when its root holds the text c and nothing is kept.
Straight(i, c) ==
    LET on[j \in DOMAIN items] ==
          IF IsRoot(items, j) THEN Source(c, FALSE, TRUE)
          ELSE Convert([items[j] EXCEPT !.result = None], j, on[items[j].origin].content) IN
    on[i]

\* A result is what its conversions make of some text their root has held.  The
\* editor is read-only for all other sources (convert_tool.go:90, 755), so
\* only typing right after adding a conversion to another one breaks this.
DerivedResults ==
    \A i \in DOMAIN items :
      items[i].result # None /\ Path(items, i) \intersect overwritten = {} =>
        \E c \in Typed : items[i].result = Straight(i, c)

\* For the conversions of a root, and for theirs, the panel shows what the
\* root's present text gives, whatever was edited elsewhere in between.
ShallowFresh ==
    LET path == Path(items, shown)
        root == CHOOSE i \in path : IsRoot(items, i) IN
    shown # 0 /\ shown = current /\ Cardinality(path) <= 3
      /\ path \intersect overwritten = {} =>
        source = Text(Straight(SourceOf(items, shown), items[root].result.content))
=============================================================================
