---------------------------- MODULE Collections ----------------------------
(***************************************************************************)
(* The repository of collections and the editor tabs open on it            *)
(* (pkg/common/types.go, pkg/appui/resourcecollections.go, respage.go).    *)
(* The tree exists three times: as files, as nodes in memory, and as the   *)
(* Resource behind each tab.  A tab starts with the node's own object, but *)
(* reloading a collection makes new objects for everything below it, and   *)
(* the tab keeps the old one.                                              *)
(*                                                                         *)
(* Everything here runs on the UI goroutine.  One action is what a click   *)
(* makes happen in its frame and in the idle frame after it.               *)
(***************************************************************************)
EXTENDS Naturals, SequencesExt, FiniteSetsExt, Functions

CONSTANTS
    Collections,    \* ids of collections
    Resources,      \* ids of resources
    root,           \* the repository
    template,       \* the resource without a name that OpenTemplate opens
    Texts,          \* contents: CRs of resources, configurations of collections
    sample,         \* the content a new one starts with
    None

ASSUME CollectionsAssumption ==
    /\ IsFiniteSet(Resources)
    /\ root \in Collections /\ sample \in Texts
    /\ Collections \cap Resources = {}
    /\ template # None /\ {template, None} \cap (Collections \cup Resources) = {}

VARIABLES
    disk,           \* the files
    node,           \* nodeMap: the tree in memory
    bag,            \* the ResourceNodes of each collection
    cell,           \* which pointer Order is: 0 is one of its own, another
                    \* number that of a template tab it was saved from
    templateCell,   \* the pointer of the template that is open
    tabs,           \* activeResources
    own,            \* Resources of tabs that are not the object of a node
    current,        \* rp.current
    panel,          \* the text in crPanel, the editor of the current one
    currentNode     \* the selection in the tree

treeVars == <<disk, node, bag, cell>>
pageVars == <<tabs, own, current, panel, currentNode, templateCell>>
vars == <<treeVars, pageVars>>

\* order of a collection is not used.
Node == [up : Collections \cup {None}, text : Texts, dirty : BOOLEAN, order : Nat]

Open == ToSet(tabs)

TypeOK ==
    /\ DOMAIN disk \subseteq Collections \cup Resources
    /\ DOMAIN node \subseteq Collections \cup Resources
    /\ \A x \in DOMAIN disk : disk[x] \in Node
    /\ \A x \in DOMAIN node : node[x] \in Node
    /\ DOMAIN bag = DOMAIN node \cap Collections
    /\ cell \in [Resources -> Nat] /\ templateCell \in Nat
    /\ tabs \in Seq(Collections \cup Resources \cup {template})
    /\ DOMAIN own \subseteq Open
    /\ current \in Open \cup {None}
    /\ panel \in Texts \cup {None}
    /\ currentNode \in DOMAIN node \cup {None}

\* f with v at x.
With(f, x, v) == [y \in {x} \cup DOMAIN f |-> IF y = x THEN v ELSE f[y]]

NewNode(up, order) == [up |-> up, text |-> sample, dirty |-> FALSE, order |-> order]

Init ==
    /\ disk = [x \in {root} |-> NewNode(None, 0)] /\ node = disk
    /\ bag = [x \in {root} |-> <<>>]
    /\ cell = [r \in Resources |-> 0] /\ templateCell = 0
    /\ tabs = <<>> /\ own = <<>>
    /\ current = None /\ panel = None /\ currentNode = None

-----------------------------------------------------------------------------
(* Trees of nodes and of files.                                            *)

Below(c, tree) ==
    LET above[x \in DOMAIN tree] ==
            IF tree[x].up = None THEN {} ELSE {tree[x].up} \cup above[tree[x].up]
    IN  {x \in DOMAIN tree : c \in above[x]}

Within(c, tree) == {c} \cup Below(c, tree)

Without(f, S) == Restrict(f, DOMAIN f \ S)

\* Save: Dirty is among the fields of a resource that are written.
Written(files, nodes, S) ==
    [x \in S \cup DOMAIN files |->
        IF x \in S THEN [nodes[x] EXCEPT !.dirty = @ /\ x \in Resources] ELSE files[x]]

Members(c, files) == {r \in Resources \cap DOMAIN files : files[r].up = c}

\* Sort: what Load can make of the resources of c, and of those of all in S.
Sorted(c, files) ==
    {s \in SetToSeqs(Members(c, files)) :
        \A i, j \in DOMAIN s : i < j => files[s[i]].order <= files[s[j]].order}

SortedBags(S, files) ==
    {b \in [S -> UNION {Sorted(c, files) : c \in S}] :
        \A c \in S : ToSet(b[c]) = Members(c, files)}

SameOrder(r, q) == r = q \/ (cell[r] = cell[q] /\ cell[r] # 0)

\* Mutant of Ordered: those behind the first.
OrderedBehind(nodes, s, from) ==
    [x \in DOMAIN nodes |->
        LET at == {i \in from + 1..Len(s) : x \in Resources /\ SameOrder(x, s[i])}
        IN  IF at = {} THEN nodes[x] ELSE [nodes[x] EXCEPT !.order = Max(at) - 1]]

\* Mutant of Ordered: the index before.
OrderedBefore(nodes, s, from) ==
    [x \in DOMAIN nodes |->
        LET at == {i \in from..Len(s) : x \in Resources /\ SameOrder(x, s[i])}
        IN  IF at = {} THEN nodes[x] ELSE [nodes[x] EXCEPT !.order = Max(at) - 2]]

\* *Order = i is assigned for the index i of each r in bag s, starting
\* at one of them: for two with one pointer the last one counts.
Ordered(nodes, s, from) ==
    [x \in DOMAIN nodes |->
        LET at == {i \in from..Len(s) : x \in Resources /\ SameOrder(x, s[i])}
        IN  IF at = {} THEN nodes[x] ELSE [nodes[x] EXCEPT !.order = Max(at) - 1]]

\* Reload of c with the given files, after what has become nodes.
ReloadFrom(c, nodes, files) ==
    LET inside == Below(c, files)
        cols == Collections \cap Within(c, files)
    IN  /\ disk' = files
        /\ node' = [x \in DOMAIN nodes |->
               IF x = c THEN [nodes[c] EXCEPT !.text = files[c].text]
               ELSE IF x \in inside THEN files[x] ELSE nodes[x]]
        /\ cell' = [r \in Resources |-> IF r \in inside THEN 0 ELSE cell[r]]
        /\ \E b \in SortedBags(cols, files) :
               bag' = [d \in Collections \cap DOMAIN nodes |->
                          IF d \in cols THEN b[d] ELSE bag[d]]

-----------------------------------------------------------------------------
(* Tabs.                                                                   *)

\* The Resource of an open tab, and with other own Resources and nodes.
HeldIn(x, o, n) == IF x \in DOMAIN o THEN o[x]
                   ELSE [text |-> n[x].text, dirty |-> n[x].dirty]

Held(x) == HeldIn(x, own, node)

\* Tabs S stay open, and the nodes of inside are replaced.
Kept(S, inside) == [x \in S \cap (DOMAIN own \cup inside) |-> Held(x)]

\* The frames after a click: one of the tabs is elected when there is no
\* current one, setCurrent fills the editor, and the tree selects the node of
\* the current tab.
Frames(ts, cur, selected, text) ==
    /\ tabs' = ts
    /\ current' = IF cur = None /\ ts # <<>> THEN Last(ts) ELSE cur
    /\ panel' = IF current' = None THEN None
                ELSE IF current' # current THEN HeldIn(current', own', node').text ELSE text
    /\ currentNode' = IF current' \in DOMAIN node' THEN current' ELSE selected

\* AddActiveResource(x, true)
Activate(x) == Frames(IF x \in Open THEN tabs ELSE Append(tabs, x), x, currentNode, panel)

SelectNode(x) ==
    /\ x \in DOMAIN node
    /\ UNCHANGED <<treeVars, own, templateCell>>
    /\ Activate(x)

SelectTab(x) ==
    /\ x \in Open
    /\ UNCHANGED <<treeVars, own, templateCell>>
    /\ Activate(x)

\* The items of s, in sequence, that are not in S.
Remaining(s, S) ==
    LET upTo[i \in 0..Len(s)] ==
            IF i = 0 THEN <<>>
            ELSE IF s[i] \in S THEN upTo[i - 1] ELSE Append(upTo[i - 1], s[i])
    IN  upTo[Len(s)]

\* Close queues the tabs, and prune removes them and activates the one that
\* has come to the place of the last.
CloseTabs(closed) ==
    LET rest == Remaining(tabs, ToSet(closed))
        before == Remaining(tabs, ToSet(Front(closed)))
        place == CHOOSE i \in DOMAIN before : before[i] = Last(closed)
    IN  /\ closed # <<>>
        /\ own' = Restrict(own, DOMAIN own \cap ToSet(rest))
        /\ UNCHANGED <<treeVars, templateCell>>
        /\ Frames(rest, IF rest = <<>> THEN None ELSE rest[Min({place, Len(rest)})],
                  currentNode, panel)

\* The x of any tab, and the menu of the current one.
Close ==
    LET n == Len(tabs)
    IN  \E i \in 1..n :
            \/ CloseTabs(<<tabs[i]>>)
            \/ /\ tabs[i] = current /\ n > 1
               /\ \/ CloseTabs(tabs)
                  \/ CloseTabs(SubSeq(tabs, 1, i - 1))
                  \/ CloseTabs(SubSeq(tabs, i + 1, n))
                  \/ CloseTabs(SubSeq(tabs, 1, i - 1) \o SubSeq(tabs, i + 1, n))

\* The template that is not open yet gets an Order of its own.
OpenTemplate ==
    /\ IF template \in Open THEN UNCHANGED <<own, templateCell>>
       ELSE /\ own' = With(own, template, [text |-> sample, dirty |-> FALSE])
            /\ templateCell' = CHOOSE n \in 1..Cardinality(Resources) + 1 : n \notin Range(cell)
    /\ UNCHANGED treeVars
    /\ Activate(template)

-----------------------------------------------------------------------------
(* The editor.                                                             *)

\* SetCR and MarkDirty of the current Resource.
SetCurrent(text, dirty) ==
    IF current \in DOMAIN own
    THEN own' = [own EXCEPT ![current] = [text |-> text, dirty |-> dirty]] /\ UNCHANGED node
    ELSE /\ node' = [node EXCEPT ![current].text = text, ![current].dirty = dirty]
         /\ UNCHANGED own

Edit(t) ==
    /\ current # None /\ panel # t /\ panel' = t
    /\ SetCurrent(t, Held(current).dirty \/ Held(current).text # t)
    /\ UNCHANGED <<disk, bag, cell, tabs, current, currentNode, templateCell>>

\* Mutant of Save: nothing is written when nothing is marked as changed.
SaveDirty ==
    /\ current \in Collections \cup Resources
    /\ SetCurrent(panel, FALSE)
    /\ disk' = IF current \notin DOMAIN node \/ ~node'[current].dirty THEN disk
               ELSE Written(disk, node', {current})
    /\ UNCHANGED <<bag, cell, tabs, current, panel, currentNode, templateCell>>

\* SaveCurrent: the text goes into the Resource of the tab, the node of that
\* id is written, and then the flag of the tab is cleared.
Save ==
    /\ current \in Collections \cup Resources
    /\ SetCurrent(panel, FALSE)
    /\ disk' = LET saved == [node' EXCEPT ![current].dirty = node[current].dirty]
               IN  IF current \in DOMAIN node THEN Written(disk, saved, {current}) ELSE disk
    /\ UNCHANGED <<bag, cell, tabs, current, panel, currentNode, templateCell>>

-----------------------------------------------------------------------------
(* The dialogs that add to a collection.                                   *)

Fresh(x) == x \notin DOMAIN node \cup Open

\* A resource or a collection x is added to c, saved and opened.
Add(c, x, n) ==
    /\ c \in Collections \cap DOMAIN node /\ Fresh(x)
    /\ node' = With(node, x, n)
    /\ disk' = Written(disk, node', {x})

AddResource(c, r) ==
    /\ Add(c, r, NewNode(c, Len(bag[c])))
    /\ bag' = [bag EXCEPT ![c] = Append(@, r)]
    /\ cell' = [cell EXCEPT ![r] = 0]
    /\ UNCHANGED <<own, templateCell>>
    /\ Activate(r)

\* A name with slashes adds one collection after the other.
AddCollection(c, d) ==
    /\ Add(c, d, NewNode(c, 0))
    /\ bag' = With(bag, d, <<>>)
    /\ UNCHANGED <<cell, own, templateCell>>
    /\ Activate(d)

\* SaveCurrent of a template: the dialog is cancelled.
CancelTemplate ==
    /\ current = template
    /\ own' = [own EXCEPT ![template].dirty = FALSE]
    /\ UNCHANGED <<treeVars, tabs, current, panel, currentNode, templateCell>>

\* SaveCurrent of a template, and the dialog adds it to c as r.  Clone has
\* copied the pointer Order, and with it all that were saved before change.
SaveTemplate(c, r) ==
    /\ current = template
    /\ c \in Collections \cap DOMAIN node
    /\ LET order == Len(bag[c])
           ordered == [x \in DOMAIN node |->
               IF x \in Resources /\ cell[x] = templateCell
               THEN [node[x] EXCEPT !.order = order] ELSE node[x]]
       IN  /\ Fresh(r)
           /\ node' = With(ordered, r, [NewNode(c, order) EXCEPT !.text = own[template].text])
           /\ disk' = Written(disk, node', {r})
    /\ bag' = [bag EXCEPT ![c] = Append(@, r)]
    /\ cell' = [cell EXCEPT ![r] = templateCell]
    /\ own' = [own EXCEPT ![template].dirty = FALSE]
    /\ Activate(r)
    /\ UNCHANGED templateCell

-----------------------------------------------------------------------------
(* The menu of the tree.                                                   *)

\* Mutant of UpdatedTabs: as if nothing was called.
TabsNotUpdated(c) == Kept(Open, Below(c, disk))

\* UpdateActiveContents: a tab gets the new text of its resource, or the new
\* collection itself.
UpdatedTabs(c) ==
    LET ids == Within(c, disk)
        old == Kept(Open, Below(c, disk))
    IN  [x \in DOMAIN old \ (ids \cap Collections) |->
            IF x \in ids THEN [old[x] EXCEPT !.text = disk[x].text] ELSE old[x]]

\* The editor is filled again, and the tab of the selection activated.
Shown(ids) ==
    Frames(tabs, IF currentNode \in Open THEN currentNode ELSE current, currentNode,
           IF current \in ids THEN HeldIn(current, own', node').text ELSE panel)

ReloadCollection ==
    /\ currentNode \in Collections
    /\ ReloadFrom(currentNode, node, disk)
    /\ own' = UpdatedTabs(currentNode)
    /\ Shown(Within(currentNode, disk))
    /\ UNCHANGED templateCell

\* Reload of a resource changes its object.
ReloadResource ==
    /\ currentNode \in Resources
    /\ node' = [node EXCEPT ![currentNode].text = disk[currentNode].text,
                            ![currentNode].order = disk[currentNode].order]
    /\ cell' = [cell EXCEPT ![currentNode] = 0]
    /\ own' = UpdatedTabs(currentNode)
    /\ Shown({currentNode})
    /\ UNCHANGED <<disk, bag, templateCell>>

Reload == ReloadCollection \/ ReloadResource

\* Mutant of TabsWithout: only the tab of x itself.
OnlyTabOf(x) == Remaining(tabs, {x})

\* RemoveRefs(x)
TabsWithout(x) == Remaining(tabs, Within(x, node))

\* x has been removed from the nodes and the files, and its parent reloads.
Removed(x, nodes, files) ==
    LET p == node[x].up
        rest == TabsWithout(x)
    IN  /\ ReloadFrom(p, nodes, files)
        /\ own' = Kept(ToSet(rest), Below(p, node))
        /\ Frames(rest, IF current = x THEN None ELSE current, None, panel)
        /\ UNCHANGED templateCell

\* Those behind r get a new Order, and all of the collection is saved.
RemoveResource ==
    LET r == currentNode
        p == node[r].up
        place == CHOOSE i \in DOMAIN bag[p] : bag[p][i] = r
        nodes == Ordered(Without(node, {r}), RemoveAt(bag[p], place), place)
    IN  /\ r \in Resources
        /\ Removed(r, nodes, Without(Written(disk, nodes, Within(p, nodes)), {r}))

\* RemoveAll takes the first resource of each bag until none is left.
RemoveCollection ==
    LET c == currentNode
        gone == Within(c, node)
        nodes == [x \in DOMAIN node \ gone |->
            IF x \in Resources /\ \E d \in Collections \cap gone :
                   \E i \in DOMAIN bag[d] \ {1} : SameOrder(x, bag[d][i])
            THEN [node[x] EXCEPT !.order = 0] ELSE node[x]]
    IN  /\ c \in Collections \ {root}
        /\ Removed(c, nodes, Without(disk, gone))

RemoveSelected == RemoveResource \/ RemoveCollection

\* The menu activates the tab of the selected collection, and the dialog
\* moves its resources to s.
Reorder(s) ==
    LET c == currentNode
        nodes == Ordered(node, s, 1)
        files == Written(disk, nodes, ToSet(s))
    IN  /\ \E i \in DOMAIN s : node[s[i]].order # i - 1
        /\ ReloadFrom(c, nodes, files)
        /\ own' = Kept(Open, Below(c, files))
        /\ Shown({})
        /\ UNCHANGED templateCell

-----------------------------------------------------------------------------
\* The process ends and is started again: only the files are left.
Restart ==
    /\ node' = disk
    /\ bag' \in SortedBags(Collections \cap DOMAIN disk, disk)
    /\ cell' = [r \in Resources |-> 0] /\ templateCell' = 0
    /\ tabs' = <<>> /\ own' = <<>>
    /\ current' = None /\ panel' = None /\ currentNode' = None
    /\ UNCHANGED disk

PageStep ==
    \/ \E x \in Open : SelectTab(x)
    \/ Close
    \/ \E t \in Texts : Edit(t)
    \/ Save

TreeStep ==
    \/ \E x \in DOMAIN node : SelectNode(x)
    \/ \E c \in Collections, r \in Resources : AddResource(c, r)
    \/ \E c, d \in Collections : AddCollection(c, d)
    \/ Reload \/ RemoveSelected
    \/ currentNode \in Collections /\ \E s \in SetToSeqs(ToSet(bag[currentNode])) : Reorder(s)

TemplateStep ==
    \/ OpenTemplate
    \/ CancelTemplate
    \/ \E c \in Collections, r \in Resources : SaveTemplate(c, r)

Next == PageStep \/ TreeStep \/ TemplateStep \/ Restart

Spec == Init /\ [][Next]_vars

\* The user saves a template once each time it is opened: a second resource
\* saved from it shares the pointer Order with the first.
OnceNext ==
    \/ PageStep \/ TreeStep \/ Restart
    \/ OpenTemplate \/ CancelTemplate
    \/ /\ templateCell \notin Range(cell)
       /\ \E c \in Collections, r \in Resources : SaveTemplate(c, r)

OnceSpec == Init /\ [][OnceNext]_vars

-----------------------------------------------------------------------------
(* Properties.                                                             *)

\* No tab stays open on something that was removed, be it with a collection
\* several levels above it, and a tab is current whenever one is open: the
\* editor never writes to what is in no repository.
TabsAreOfNodes ==
    /\ Open \subseteq DOMAIN node \cup {template}
    /\ current = None <=> tabs = <<>>

\* Through additions, removals and moves the resources of a collection are
\* numbered from 0 in the sequence shown, in memory and in their files
\* ("because we use sequential int order, need to resort", types.go): a
\* restart shows the same tree in the same sequence.
Sequential ==
    /\ DOMAIN disk = DOMAIN node
    /\ \A c \in DOMAIN bag :
           /\ ToSet(bag[c]) = Members(c, disk)
           /\ \A i \in DOMAIN bag[c] : {disk[bag[c][i]].order, node[bag[c][i]].order} = {i - 1}

\* What is not marked as changed is in its file as it is in memory, however
\* it was edited, saved along with others, reloaded or reordered.
CleanIsSaved == \A x \in DOMAIN node : ~node[x].dirty => disk[x].text = node[x].text

\* Reload from the menu shows what is in the files, in all open tabs below
\* the selection, whichever object a tab has.
ReloadShowsFiles ==
    [][Reload => \A x \in Open \cap Within(currentNode, disk) :
           /\ Held(x)'.text = disk[x].text
           /\ current' = x => panel' = disk[x].text]_vars
=============================================================================
