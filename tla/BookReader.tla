----------------------------- MODULE BookReader -----------------------------
(***************************************************************************)
(* The reader tool of pkg/panels/tool_reader.go: a repository of books,    *)
(* the files a book was opened with (its root entries), the notes and      *)
(* links the user puts on lines of files, the panes that show the files,   *)
(* and the directory in which each book keeps all that.                    *)
(*                                                                         *)
(* The UI thread runs everything but the file choosers, which answer at    *)
(* any time.  What is asked for in a pane goes through slots of the UI     *)
(* context with the file's url for a key, and is done by the first pane of *)
(* that file that polls.  The program may end between two files of a save, *)
(* and any write may fail, which nobody is told.  Of each file one line    *)
(* stands for all, and the files that are read are there.                  *)
(***************************************************************************)
EXTENDS Integers, Sequences, FiniteSets, SequencesExt

CONSTANTS
    Names,      \* what a user may call a book
    NoName,     \* the empty name, whose directory is the repository's own
    Urls,       \* files
    Notes,      \* texts of notes
    Index,      \* the file master.idx of a book
    None,
    FirstDisks, \* what earlier sessions may have left on the disk
    MaxBooks,   \* bound: books
    MaxPanes,   \* bound: panes made since the program started
    MaxLinks,   \* bound: links of a line
    MaxEvents   \* bound: events of the user, crashes and failing writes

ASSUME NameAssumption == NoName \in Names /\ Index \notin Urls /\ None \notin Urls

VARIABLES
    books,      \* books[i]: [name, files, items], in the order they were made
    listed,     \* bookRepo.books, as indices of books
    current,    \* currentEntry: [book, url]
    trail,      \* rootPanesMap: root key -> panes
    allPanes,   \* url -> pane, 0 for none
    panes,      \* panes[p]: [book, url, note, links], and the dialogs in it:
                \* noteFor is the pane of the line, removing that and the links
    chosen,     \* the slot NEW_FILE_CHOSEN: [url, book]
    noteContext,\* noteContext[u]: the slot noteContextKey: [line, delete]
    linkContext,\* linkContext[u]: the slot linkContextKey: [line, link], with
                \* None for the empty link that asks for the removal
    choosing,   \* choosers that are open: [book] or [pane]
    deleting,   \* the slot DELETE_BOOK: a book
    disk,       \* disk[n]: the directory of the books called n
    saving,     \* books and items the save under way has still to write
    events,     \* count for the bound
    unsaved,    \* history: <<dir, file>> whose last write failed
    used        \* history: names that books had

slots == <<chosen, noteContext, linkContext, choosing, deleting>>
uiVars == <<current, trail, allPanes, panes, slots>>
vars == <<books, listed, uiVars, disk, saving, events, unsaved, used>>

\* What an item has of its file; adrift is an item whose book_dir was lost.
Refs == [note : Notes \union {None}, links : UNION {[1..k -> Urls] : k \in 0..MaxLinks},
         adrift : BOOLEAN]
NoRefs == [note |-> None, links |-> <<>>, adrift |-> FALSE]
NoItems == [u \in Urls |-> None]
NoTrail == <<>>
Key(b, u) == [book |-> books[b].name, url |-> u]

Directories == [idx : Seq(Urls), items : [Urls -> Refs \union {None}]]
EmptyDir == [idx |-> <<>>, items |-> NoItems]

ASSUME DiskAssumption ==
    \A d \in FirstDisks : /\ d \in [Names -> Directories \union {None}]
                          /\ d[NoName] = EmptyDir

-----------------------------------------------------------------------------
(* The files of a book.                                                     *)

\* Book.save: the index, then every item, in the order of a Go map.
SaveBook(b) == [dir |-> b.name, index |-> b.files, items |-> b.items]

\* ReaderTool.Save: every listed book.
SaveBooks(bs) == [i \in DOMAIN listed |-> SaveBook(bs[listed[i]])]

SaveItem(b, u, refs) ==
    <<[dir |-> books[b].name, index |-> None, items |-> [NoItems EXCEPT ![u] = refs]]>>

Job == Head(saving)
Rest(job) == IF job.index = None /\ job.items = NoItems THEN Tail(saving)
             ELSE <<job>> \o Tail(saving)

\* A save of the book makes its directory, a save of an item does not.
Made == IF disk[Job.dir] = None THEN EmptyDir ELSE disk[Job.dir]

WriteIndex ==
    /\ saving # <<>> /\ Job.index # None
    /\ disk' = [disk EXCEPT ![Job.dir] = [Made EXCEPT !.idx = Job.index]]
    /\ saving' = Rest([Job EXCEPT !.index = None])
    /\ unsaved' = unsaved \ {<<Job.dir, Index>>}
    /\ UNCHANGED <<books, listed, uiVars, events, used>>

\* What may be left of a file that was truncated and not filled.
TornIndex == {[Made EXCEPT !.idx = SubSeq(Job.index, 1, k)] : k \in 0 .. Len(Job.index) - 1}

\* The file, the references and the book's directory are written in this order.
TornRefs(refs) ==
    {[NoRefs EXCEPT !.adrift = TRUE]} \union
    {[refs EXCEPT !.links = SubSeq(@, 1, k), !.adrift = TRUE] : k \in 0..Len(refs.links)}

TornItem(u) ==
    IF disk[Job.dir] = None THEN {}
    ELSE {[disk[Job.dir] EXCEPT !.items[u] = refs] : refs \in {None} \union TornRefs(Job.items[u])}

Failure == events < MaxEvents /\ events' = events + 1

\* Neither the directory nor the index, or a part of it: the items of the book
\* are not written either.
IndexFails ==
    /\ saving # <<>> /\ Job.index # None /\ Failure
    /\ \E d \in TornIndex \union {disk[Job.dir]} : disk' = [disk EXCEPT ![Job.dir] = d]
    /\ saving' = Tail(saving)
    /\ unsaved' = unsaved \union {<<Job.dir, Index>>}
                          \union {<<Job.dir, u>> : u \in {v \in Urls : Job.items[v] # None}}
    /\ UNCHANGED <<books, listed, uiVars, used>>

ItemDone(u) ==
    /\ saving # <<>> /\ Job.index = None /\ Job.items[u] # None
    /\ saving' = Rest([Job EXCEPT !.items[u] = None])
    /\ UNCHANGED <<books, listed, uiVars, used>>

WriteItem(u) ==
    /\ ItemDone(u) /\ disk[Job.dir] # None /\ ~Job.items[u].adrift
    /\ disk' = [disk EXCEPT ![Job.dir].items[u] = Job.items[u]]
    /\ unsaved' = unsaved \ {<<Job.dir, u>>}
    /\ UNCHANGED events

\* The other items are written all the same.  An item that is adrift goes to
\* the working directory.
ItemFails(u) ==
    /\ ItemDone(u)
    /\ \/ /\ disk[Job.dir] = None \/ Job.items[u].adrift
          /\ UNCHANGED <<disk, events>>
       \/ /\ disk[Job.dir] # None /\ ~Job.items[u].adrift /\ Failure
          /\ \E d \in TornItem(u) \union {disk[Job.dir]} : disk' = [disk EXCEPT ![Job.dir] = d]
    /\ unsaved' = unsaved \union {<<Job.dir, u>>}

-----------------------------------------------------------------------------
(* Start: a book per directory of the repository.                           *)

Dirs(d) == SetToSeq({n \in Names \ {NoName} : d[n] # None})

\* A book with the items of its root entries only.
LoadedEntries(d) ==
    [i \in DOMAIN Dirs(d) |->
        [name |-> Dirs(d)[i], files |-> d[Dirs(d)[i]].idx,
         items |-> [u \in Urls |-> IF u \in ToSet(d[Dirs(d)[i]].idx)
                                     THEN d[Dirs(d)[i]].items[u] ELSE None]]]

Loaded(d) ==
    [i \in DOMAIN Dirs(d) |->
        [name |-> Dirs(d)[i], files |-> d[Dirs(d)[i]].idx, items |-> d[Dirs(d)[i]].items]]

Started(bs) ==
    /\ books' = bs /\ listed' = [i \in DOMAIN bs |-> i]
    /\ current' = None /\ trail' = NoTrail
    /\ allPanes' = [u \in Urls |-> 0] /\ panes' = <<>>
    /\ chosen' = None /\ deleting' = None /\ choosing' = {}
    /\ noteContext' = NoItems /\ linkContext' = NoItems
    /\ saving' = <<>> /\ unsaved' = {}

Init ==
    /\ disk \in FirstDisks
    /\ books = Loaded(disk) /\ listed = [i \in DOMAIN books |-> i]
    /\ current = None /\ trail = NoTrail
    /\ allPanes = [u \in Urls |-> 0] /\ panes = <<>>
    /\ chosen = None /\ deleting = None /\ choosing = {}
    /\ noteContext = NoItems /\ linkContext = NoItems
    /\ saving = <<>> /\ events = 0 /\ unsaved = {}
    /\ used = {n \in Names \ {NoName} : disk[n] # None}

\* The program ends and is started again, perhaps within a write.
Crash ==
    /\ Failure
    /\ \/ UNCHANGED disk
       \/ /\ saving # <<>>
          /\ \E d \in IF Job.index # None THEN TornIndex
                      ELSE UNION {TornItem(u) : u \in {v \in Urls : Job.items[v] # None}} :
                disk' = [disk EXCEPT ![Job.dir] = d]
    /\ Started(Loaded(disk'))
    /\ UNCHANGED used

-----------------------------------------------------------------------------
(* Books and root entries.                                                  *)

Event == saving = <<>> /\ events < MaxEvents /\ events' = events + 1
Poll == saving = <<>> /\ UNCHANGED events

\* The name dialog's OK.
NewBook(n) ==
    /\ Event /\ Len(books) < MaxBooks
    /\ books' = Append(books, [name |-> n, files |-> <<>>, items |-> NoItems])
    /\ listed' = Append(listed, Len(books) + 1)
    /\ used' = used \union {n}
    /\ UNCHANGED <<uiVars, disk, saving, unsaved>>

NewRootFile(i) ==
    /\ Event
    /\ choosing' = choosing \union {[for |-> "book", of |-> listed[i]]}
    /\ UNCHANGED <<books, listed, current, trail, allPanes, panes, chosen,
                   noteContext, linkContext, deleting, disk, saving, unsaved, used>>

\* A chooser answers: it overwrites an answer nobody has polled.
FileChosen(c, u) ==
    /\ c \in choosing /\ choosing' = choosing \ {c}
    /\ IF c.for = "book"
         THEN chosen' = [url |-> u, book |-> c.of] /\ UNCHANGED linkContext
         ELSE /\ linkContext' = [linkContext EXCEPT ![panes[c.of].url] =
                                   [line |-> c.of, link |-> u]]
              /\ UNCHANGED chosen
    /\ UNCHANGED <<books, listed, current, trail, allPanes, panes, noteContext,
                   deleting, disk, saving, events, unsaved, used>>

\* GetFileItem.
ItemIn(b, u) == IF b.items[u] = None THEN [b EXCEPT !.items[u] = NoRefs] ELSE b

UpdateFiles ==
    /\ Poll /\ chosen # None
    /\ LET b == chosen.book
           bs == [books EXCEPT ![b] =
                    [ItemIn(@, chosen.url) EXCEPT !.files = Append(@, chosen.url)]] IN
       /\ books' = bs
       /\ current' = [book |-> b, url |-> chosen.url]
       /\ saving' = SaveBooks(bs)
    /\ chosen' = None
    /\ UNCHANGED <<listed, trail, allPanes, panes, noteContext, linkContext, choosing,
                   deleting, disk, unsaved, used>>

OpenEntry(i, k) ==
    /\ Event
    /\ current' = [book |-> listed[i], url |-> books[listed[i]].files[k]]
    /\ UNCHANGED <<books, listed, trail, allPanes, panes, slots, disk, saving,
                   unsaved, used>>

\* Mutant of DeleteEntry: not saved.
DeleteEntryUnsaved(i, k) ==
    /\ Event
    /\ books' = [books EXCEPT ![listed[i]].files = RemoveAt(@, k)]
    /\ UNCHANGED <<listed, uiVars, disk, saving, unsaved, used>>

\* An entry leaves the list; its item and an open pane stay.
DeleteEntry(i, k) ==
    /\ Event
    /\ books' = [books EXCEPT ![listed[i]].files = RemoveAt(@, k)]
    /\ saving' = <<SaveBook(books'[listed[i]])>>
    /\ UNCHANGED <<listed, uiVars, disk, unsaved, used>>

DeleteBook(i) ==
    /\ Event /\ deleting' = listed[i]
    /\ UNCHANGED <<books, listed, current, trail, allPanes, panes, chosen,
                   noteContext, linkContext, choosing, disk, saving, unsaved, used>>

\* RemoveAll of the book's directory, which has the others' when it is the
\* repository's.
RemoveDir(n) ==
    disk' = [m \in Names |-> IF m = n \/ n = NoName THEN None ELSE disk[m]]

PollDeleteBook ==
    /\ Poll /\ deleting # None
    /\ deleting' = None
    /\ IF books[deleting].files = <<>>
         THEN /\ listed' = SelectSeq(listed, LAMBDA b : b # deleting)
              /\ RemoveDir(books[deleting].name)
         ELSE UNCHANGED <<listed, disk>>
    /\ UNCHANGED <<books, current, trail, allPanes, panes, chosen, noteContext,
                   linkContext, choosing, saving, unsaved, used>>

-----------------------------------------------------------------------------
(* Panes.                                                                   *)

\* NewFilePane: the lines of a file with what its item has for them.
PaneOf(b, u, refs) ==
    [book |-> b, url |-> u, note |-> refs.note, emptied |-> FALSE,
     links |-> [i \in DOMAIN refs.links |-> [id |-> i - 1, url |-> refs.links[i]]],
     noteFor |-> 0, removing |-> None]

\* Mutant of Registered: under the file of the root entry.
RegisteredForEntry(u, p) == [allPanes EXCEPT ![current.url] = p]

Registered(u, p) == [allPanes EXCEPT ![u] = p]

HasTrail(k) == k \in DOMAIN trail
SetTrail(k, ps) == [l \in DOMAIN trail \union {k} |-> IF l = k THEN ps ELSE trail[l]]

\* FileNavigator.Layout: the first pane of a root entry.
OpenRoot ==
    /\ Poll /\ current # None /\ Len(panes) < MaxPanes
    /\ LET k == Key(current.book, current.url)
           refs == books[current.book].items[current.url]
           p == Len(panes) + 1 IN
       /\ ~HasTrail(k) /\ refs # None
       /\ panes' = Append(panes, PaneOf(current.book, current.url, refs))
       /\ allPanes' = Registered(current.url, p)
       /\ trail' = SetTrail(k, <<p>>)
    /\ UNCHANGED <<books, listed, current, slots, disk, saving, unsaved, used>>

CurrentKey == Key(current.book, current.url)
ShownPanes == IF current # None /\ HasTrail(CurrentKey) THEN trail[CurrentKey] ELSE <<>>

\* The trail up to, and without, the pane that was clicked.
CutBefore(ps, p) == SubSeq(ps, 1, SelectInSeq(ps, LAMBDA q : q = p) - 1)

\* The trail up to the first place of the pane that was clicked.
CutAt(ps, p) == SubSeq(ps, 1, SelectInSeq(ps, LAMBDA q : q = p))

\* A pane that draws its editor, and no dialog in its place.
Editing(p) == p \in ToSet(ShownPanes) /\ panes[p].noteFor = 0 /\ panes[p].removing = None

\* ExtraLinkClicked: the pane of the link follows the one with the link.
ClickLink(p, u) ==
    /\ Event /\ Editing(p)
    /\ \E i \in DOMAIN panes[p].links : panes[p].links[i].url = u
    /\ IF allPanes[u] # 0
         THEN /\ trail' = SetTrail(CurrentKey, Append(CutAt(ShownPanes, p), allPanes[u]))
              /\ UNCHANGED <<books, panes, allPanes>>
         ELSE LET b == current.book
                  q == Len(panes) + 1 IN
              /\ q <= MaxPanes
              /\ books' = [books EXCEPT ![b] = ItemIn(@, u)]
              /\ panes' = Append(panes, PaneOf(b, u, books'[b].items[u]))
              /\ allPanes' = Registered(u, q)
              /\ trail' = SetTrail(CurrentKey, Append(CutAt(ShownPanes, p), q))
    /\ UNCHANGED <<listed, current, slots, disk, saving, unsaved, used>>

\* The menu of the line of pane q.
AskForNote(q, delete) ==
    /\ Event /\ Editing(q)
    /\ noteContext' = [noteContext EXCEPT ![panes[q].url] = [line |-> q, delete |-> delete]]
    /\ UNCHANGED <<books, listed, current, trail, allPanes, panes, chosen, linkContext,
                   choosing, deleting, disk, saving, unsaved, used>>

AskForRemoval(q) ==
    /\ Event /\ Editing(q)
    /\ linkContext' = [linkContext EXCEPT ![panes[q].url] = [line |-> q, link |-> None]]
    /\ UNCHANGED <<books, listed, current, trail, allPanes, panes, chosen, noteContext,
                   choosing, deleting, disk, saving, unsaved, used>>

ChooseLink(q) ==
    /\ Event /\ Editing(q) /\ Len(panes[q].links) < MaxLinks
    /\ choosing' = choosing \union {[for |-> "link", of |-> q]}
    /\ UNCHANGED <<books, listed, current, trail, allPanes, panes, chosen, noteContext,
                   linkContext, deleting, disk, saving, unsaved, used>>

\* The item of a pane gets a note or links, and is saved.
ItemOf(p) == books[panes[p].book].items[panes[p].url]

Update(p, refs) ==
    /\ books' = [books EXCEPT ![panes[p].book].items[panes[p].url] = refs]
    /\ saving' = SaveItem(panes[p].book, panes[p].url, refs)

\* FilePane.Layout: the pane that polls first takes what was asked for in any
\* pane of its file.  The line keeps its pane's, the item is that of the one
\* that polls.
PollNote(p) ==
    /\ Poll /\ p \in ToSet(ShownPanes) /\ noteContext[panes[p].url] # None
    /\ noteContext' = [noteContext EXCEPT ![panes[p].url] = None]
    /\ LET c == noteContext[panes[p].url] IN
       IF c.delete
         THEN /\ Update(p, [ItemOf(p) EXCEPT !.note = None])
              /\ panes' = [panes EXCEPT ![c.line].note = None, ![c.line].emptied = FALSE]
         ELSE /\ panes' = [panes EXCEPT ![p].noteFor = c.line]
              /\ UNCHANGED <<books, saving>>
    /\ UNCHANGED <<listed, current, trail, allPanes, chosen, linkContext, choosing,
                   deleting, disk, unsaved, used>>

\* The line goes on showing a note that is emptied here.
Noted(pane, n) == IF n = None THEN [pane EXCEPT !.emptied = TRUE]
                  ELSE [pane EXCEPT !.note = n, !.emptied = FALSE]

\* Mutant of AnswerNote: the note waits for the next save of the book.
AnswerNoteUnsaved(p, n) ==
    /\ Event /\ p \in ToSet(ShownPanes) /\ panes[p].noteFor # 0
    /\ books' = [books EXCEPT ![panes[p].book].items[panes[p].url].note = n]
    /\ panes' = [panes EXCEPT ![panes[p].noteFor] = Noted(@, n), ![p].noteFor = 0]
    /\ UNCHANGED <<listed, current, trail, allPanes, slots, disk, saving, unsaved, used>>

\* The note dialog's OK.
AnswerNote(p, n) ==
    /\ Event /\ p \in ToSet(ShownPanes) /\ panes[p].noteFor # 0
    /\ Update(p, [ItemOf(p) EXCEPT !.note = n])
    /\ panes' = [panes EXCEPT ![panes[p].noteFor] = Noted(@, n), ![p].noteFor = 0]
    /\ UNCHANGED <<listed, current, trail, allPanes, slots, disk, unsaved, used>>

\* AddRefLink numbers the link by how many there are.
AddRefLink(links, u) == Append(links, [id |-> Len(links), url |-> u])

\* The item has the links of the pane that polls, the line those it shows.
Ids(p) == {panes[p].links[i].id : i \in DOMAIN panes[p].links}

PollLink(p) ==
    /\ Poll /\ p \in ToSet(ShownPanes) /\ panes[p].noteFor = 0
    /\ linkContext[panes[p].url] # None
    /\ linkContext' = [linkContext EXCEPT ![panes[p].url] = None]
    /\ LET c == linkContext[panes[p].url]
           refs == ItemOf(p) IN
       IF c.link # None
         THEN /\ Len(refs.links) < MaxLinks /\ Len(panes[c.line].links) < MaxLinks
              /\ Update(p, [refs EXCEPT !.links = Append(@, c.link)])
              /\ panes' = [panes EXCEPT ![c.line].links = AddRefLink(@, c.link)]
         ELSE /\ panes' = IF panes[c.line].links = <<>> THEN panes
                          ELSE [panes EXCEPT ![p].removing = [line |-> c.line, ids |-> Ids(c.line)]]
              /\ UNCHANGED <<books, saving>>
    /\ UNCHANGED <<listed, current, trail, allPanes, chosen, noteContext, choosing,
                   deleting, disk, unsaved, used>>

LinkUrls(links) == [i \in DOMAIN links |-> links[i].url]

\* Mutant of AnswerLinks: the item is updated before the line.
AnswerLinksEarly(p, ids) ==
    /\ Event /\ p \in ToSet(ShownPanes) /\ panes[p].noteFor = 0 /\ panes[p].removing # None
    /\ ids \subseteq panes[p].removing.ids
    /\ LET q == panes[p].removing.line
           left == SelectSeq(panes[q].links, LAMBDA l : l.id \notin ids) IN
       /\ panes' = [panes EXCEPT ![q].links = left, ![p].removing = None]
       /\ Update(p, [ItemOf(p) EXCEPT !.links = LinkUrls(panes[q].links)])
    /\ UNCHANGED <<listed, current, trail, allPanes, slots, disk, unsaved, used>>

\* The link dialog's OK: all links with a number that is selected go.
AnswerLinks(p, ids) ==
    /\ Event /\ p \in ToSet(ShownPanes) /\ panes[p].noteFor = 0 /\ panes[p].removing # None
    /\ ids \subseteq panes[p].removing.ids
    /\ LET q == panes[p].removing.line
           left == SelectSeq(panes[q].links, LAMBDA l : l.id \notin ids) IN
       /\ panes' = [panes EXCEPT ![q].links = left, ![p].removing = None]
       /\ Update(p, [ItemOf(p) EXCEPT !.links = LinkUrls(left)])
    /\ UNCHANGED <<listed, current, trail, allPanes, slots, disk, unsaved, used>>

CancelDialog(p) ==
    /\ Event /\ p \in ToSet(ShownPanes)
    /\ \/ panes[p].noteFor # 0 /\ panes' = [panes EXCEPT ![p].noteFor = 0]
       \/ /\ panes[p].noteFor = 0 /\ panes[p].removing # None
          /\ panes' = [panes EXCEPT ![p].removing = None]
    /\ UNCHANGED <<books, listed, current, trail, allPanes, slots, disk, saving,
                   unsaved, used>>

-----------------------------------------------------------------------------
BookStep ==
    \/ \E i \in DOMAIN listed :
         \/ NewRootFile(i) \/ DeleteBook(i)
         \/ \E k \in DOMAIN books[listed[i]].files : OpenEntry(i, k) \/ DeleteEntry(i, k)
    \/ UpdateFiles \/ PollDeleteBook

PaneStep ==
    \/ OpenRoot
    \/ \E p \in DOMAIN panes :
         \/ \E u \in Urls : ClickLink(p, u)
         \/ \E n \in Notes \union {None} : AnswerNote(p, n)
         \/ \E delete \in BOOLEAN : AskForNote(p, delete)
         \/ ChooseLink(p) \/ AskForRemoval(p)
         \/ PollNote(p) \/ PollLink(p)
         \/ \E ids \in SUBSET (0..(MaxLinks - 1)) : AnswerLinks(p, ids)
         \/ CancelDialog(p)

Step ==
    \/ BookStep \/ PaneStep
    \/ \E c \in choosing, u \in Urls : FileChosen(c, u)
    \/ WriteIndex \/ IndexFails
    \/ \E u \in Urls : WriteItem(u) \/ ItemFails(u)
    \/ Crash

Next == Step \/ \E n \in Names : NewBook(n)
Spec == Init /\ [][Next]_vars

\* A user who gives each book a name of its own, which no book had before.
CarefulNext == Step \/ \E n \in Names \ (used \union {NoName}) : NewBook(n)
CarefulSpec == Init /\ [][CarefulNext]_vars

-----------------------------------------------------------------------------
\* The state, with the references between its parts: a pane is registered for
\* its own file, and what is asked for in the slot of a file is of its lines.
TypeOK ==
    /\ \A b \in ToSet(books) : b \in [name : Names, files : Seq(Urls),
                                       items : [Urls -> Refs \union {None}]]
    /\ listed \in Seq(DOMAIN books)
    /\ current \in [book : DOMAIN books, url : Urls] \union {None}
    /\ \A k \in DOMAIN trail : trail[k] \in Seq(DOMAIN panes)
    /\ \A u \in Urls :
         /\ allPanes[u] # 0 => panes[allPanes[u]].url = u
         /\ noteContext[u] # None => panes[noteContext[u].line].url = u
         /\ linkContext[u] # None => panes[linkContext[u].line].url = u
    /\ \A p \in DOMAIN panes :
         /\ panes[p].links \in Seq([id : 0..(MaxLinks - 1), url : Urls])
         /\ panes[p].noteFor # 0 => panes[panes[p].noteFor].url = panes[p].url
    /\ \A n \in Names : disk[n] \in Directories \union {None}

Pending(dir, file) ==
    \E i \in DOMAIN saving :
        /\ saving[i].dir = dir
        /\ IF file = Index THEN saving[i].index # None ELSE saving[i].items[file] # None

\* The file is as the program believes: written, and not being written.
Settled(dir, file) == ~Pending(dir, file) /\ <<dir, file>> \notin unsaved

\* A listed book with entries has its directory, and the index in it is its
\* list of entries, unless it is still to be written or its last write failed;
\* the next save that succeeds makes up for that.
BooksOnDisk ==
    \A b \in ToSet(listed) :
        books[b].files # <<>> /\ Settled(books[b].name, Index) =>
            disk[books[b].name] # None /\ disk[books[b].name].idx = books[b].files

\* What is noted and linked in the items of listed books is in their files,
\* with the same exceptions: those still to be written when a book is saved,
\* and those whose last write failed.
NotesOnDisk ==
    \A b \in ToSet(listed), u \in Urls :
        books[b].items[u] \notin {None, NoRefs} /\ Settled(books[b].name, u) =>
            disk[books[b].name] # None /\ disk[books[b].name].items[u] = books[b].items[u]

\* The only pane of a file shows what its item says, whatever was asked for,
\* answered, chosen late and removed in any order: but for a note that was
\* emptied in the dialog, which the line goes on showing.  Where a file has two
\* panes, what one shows may be saved with the item of the other.
PanesShowItems ==
    \A p \in DOMAIN panes :
        (\A q \in DOMAIN panes : panes[q].url = panes[p].url => q = p) =>
            /\ LinkUrls(panes[p].links) = ItemOf(p).links
            /\ ItemOf(p).note = IF panes[p].emptied THEN None ELSE panes[p].note

\* However links are followed, also from a pane that the trail has twice, the
\* trail of a root entry begins with a pane of the entry's file, of a book of
\* that name.
TrailBeginsAtRoot ==
    \A k \in DOMAIN trail :
        /\ trail[k] # <<>>
        /\ panes[trail[k][1]].url = k.url
        /\ books[panes[trail[k][1]].book].name = k.book

\* A start finds again every note and link that was in an item of a listed
\* book, but for files that were still to be written or were not written.
StartFindsNotes ==
    [][Crash =>
        \A b \in ToSet(listed), u \in Urls :
            books[b].items[u] \notin {None, NoRefs} /\ Settled(books[b].name, u) =>
                \E c \in ToSet(books') : c.name = books[b].name /\ c.items[u] = books[b].items[u]
      ]_vars
=============================================================================
