# k8s-resource-util: specification, model checking and proofs

k8s-resource-util is a desktop application (Go, gio UI) in which a user keeps a
repository of Kubernetes resources, edits them, deploys them to a cluster and
undeploys them, and looks at what runs in the cluster.  This directory models the
parts of it that keep state over time and share it between goroutines, checks the
models with TLC and proves the most important safety properties with TLAPS.

## The system

All UI code runs on one goroutine, frame by frame.  Whatever takes long runs in
goroutines the UI starts; they share plain Go structures with it and with each other,
mostly without locks.

| part | state | operations | talks to |
|---|---|---|---|
| deployment records (`k8sservice/k8sclient.go`: DeployedResources, DeployDetail, FileDeploymentPersister) | map and list of details, `deployments.yaml` | LockAndAdd, Merge, Remove, Deployed, persist, Load | resource page, deployments tab, repository (instance pointers) |
| resource page (`appui/respage.go`) | open tabs, close queue, current resource | open, close, edit, save, deploy | repository, records, cluster client, long tasks |
| deployments tab (`panels/deployment_tab.go`) | selection | undeploy, load at start | records, cluster client, long tasks |
| repository (`common/types.go`, `appui/resourcecollections.go`) | tree of collections, node map, files | new, add, save, remove, reload, reorder | disk, resource page |
| long tasks (`common/uicontext.go`) | queue of tasks, progress | AddTask, Update, Done, Failed, RemoveTask | everything that runs long; progress bar |
| UI context (`common/uicontext.go`) | map of flags and values | register, get, set, poll, flip | all panels |
| pod log panel (`panels/res_details.go`) | one buffer, reading task and change flag per container | select, read, reload, show | long tasks, UI context, cluster client |
| in-kube tab (`panels/in_kube_tab.go`) | namespaces, API resources, criteria, results | refresh, query | cluster client, long tasks |
| book reader (`panels/tool_reader.go`) | books, panes, trails, links, notes, directories | add, open, delete, link, note | choosers, disk |
| converter (`panels/convert_tool.go`) | trees of conversions with kept results, panel | add, select, type, options | option dialog |
| editor and log tab (`common/scrolled_editor.go`, `common/util.go`, `panels/log_tab.go`) | lines, selection, filter, log buffer | set text, filter, select, write, clear | loggers, UI context |
| reorder dialog (`appui/resourcecollections.go`) | one sequence per collection seen | select, move, restore, OK | repository, disk |
| cluster client and agent (`k8sservice/k8sclient.go`, `serviceimpl.go`, `k8sagent.go`, `k8sclient_cache.go`) | API resource list, cache with timeouts | DeployResource, fetches, pod logs | cluster, agent over gRPC |
| application shell (`main.go`, `appui/appui.go`) | refresh channel, init state | start, frame loop | all of it |
| other tools and dialogs (`panels/util_tab.go`, `common/text_dialog.go`, ...) | own text | - | UI context |

What is hard here: deploy and undeploy tasks of the same record that overlap; the
action map and the instance objects they share with the record and with the
repository, where the user goes on editing; crashes between the calls of a task; calls
that fail although the cluster executed them; tasks removed from the progress bar by
name; a log reader whose task is replaced while it runs; caches and lookups used
after they are stale.  What makes each part correct:

* records: the file agrees with memory at every step; what a crash leaves on the
  cluster can be undeployed; an undeploy stops the requests a deploy it overtakes has not
  sent yet; an object that was deployed is tracked until it is undeployed; tasks end.
* long tasks: the progress bar names running work only, so every entry leaves it.
* pod log: a log can always be reloaded.
* resource page: current is an open tab; closing the last tab leaves none; no tab is open on
  what was removed; an edit in an open tab reaches the node that is saved (see the
  known divergences: it does not after a removal or a move).
* repository: node map, tree and disk agree; orders number each collection's resources
  in the sequence shown.
* reorder dialog: OK saves what is shown; what failed writes leave of the numbers is
  something the dialog can go on with.  (A torn file does lose its resource, see below.)
* client and cache: an answer is the answer to the question (as far as the cache's keys tell
  questions apart), not older than its timeout; what is called fresh is fresh.
* in-kube tab: a query asks for what was selected, once; the tab comes back from a refresh.
* editor and log: what is drawn agrees with the text, the filter and the selection in the
  end; messages are neither lost nor repeated.
* reader: what a pane shows is what its item has, and that is on disk and found again.
* converter: the panel shows what its conversion makes of its source; results come from
  what was typed.

PROJECT.json lists these as components, and the places where they may go wrong as
hazards with the property that covers each.

## Modules

| module | models |
|---|---|
| `Deployments` | records, file, deploy and undeploy tasks, the cluster, crash and restart, and the repository edits that reach them |
| `DeploymentsProofs` | TLAPS proofs about `Deployments!Spec` and `CarefulSpec` |
| `DurableRecords` | abstract: what the register of deployments promises |
| `DeployRegistry` | the register step by step: map, list, cache, file, table; implements `DurableRecords` |
| `DeployRegistryProofs` | proofs about `DeployRegistry!SerialSpec`, the implementation of `DurableRecords` among them |
| `LongTasks` | the queue behind the progress bar and the deploy, undeploy and refresh goroutines as its users |
| `PodLog` | container logs: UI, readers and reloads; EXTENDS `LongTasks`, whose goroutines run beside the readers |
| `PodLogProofs` | proofs about `PodLog!PodLogSpec`: the queue and the logs |
| `Collections` | the repository as files, as nodes and as the objects behind open tabs; tabs, editor, templates, menu of the tree |
| `CollectionsProofs` | proofs about `Collections!Spec` and `OnceSpec` |
| `ReorderDialog` | the dialog that moves resources of several collections, and its save |
| `ReorderDialogProofs` | proofs about `ReorderDialog!Spec` |
| `AgentProtocol` | requests and replies of the gRPC service |
| `K8sAgent` | the agent's handlers: which replies a request can have; EXTENDS `AgentProtocol` |
| `RemoteService` | the client with its cache, calls in flight, and the agent's list; EXTENDS `K8sAgent` |
| `RemoteServiceProofs` | proofs about `RemoteService!Spec` |
| `ReadOnlyEditor` | lines, selection, search bar and filter goroutines |
| `LogTab` | the log buffer and its writers; EXTENDS `ReadOnlyEditor` |
| `InKubeTab` | lists, criteria, query and refresh; status of pods |
| `InKubeProofs` | proofs about `InKubeTab!Spec` |
| `BookReader` | books, panes, trails, links, notes and their directories |
| `ConvertTool` | conversions, kept results, the panel and the option dialog |
| `SequenceFacts` | lemmas about sequences that several of the proofs need |
| `MC...` | instances for TLC: values of constants, symmetry, views, and specifications of particular users |

`Deployments` and `DeployRegistry` are two views of one register: the first has the
register's operations as single steps and everything around them, the second their
assignments and file operations and nothing around them.

### Deployments

| in the model | in the code |
|---|---|
| `records[n]` | `DeployedResources.resIds[n]` and its entry in `list` |
| `records[n].acts`, `tag` | `DeployDetail.AllInstances`; two holders of one tag hold one Go map, so an action an undeploy marks is seen by the deploy that ranges over that map |
| `records[n].orig` | `OriginalCrs` with `FinalNs` |
| `acts[r].cr = Live` | the action points to the `ResourceInstance` the repository node holds now; otherwise it points to another one (replaced by a reload, removed, or read from the file) and the field is its text, which only a tab that still holds the object can change |
| `records[n].src` | `DeployDetail.res`: the node, a node object the repository has replaced, or none (`Orphan`) |
| `file` | `deployments.yaml`, and the persister's cache it is written from |
| `tasks[t]` | one goroutine: the clicks' `DeployResource` after LockAndAdd, or the undeploy task; `todo` is what it has not yet called for, `call` the request that is out |
| `DeployNew`, `Redeploy`, `DeployPanics` | a click on Deploy: `LockAndAdd`, `ParseResources`, `Merge`, `AddDetail`, `persist`, start of the task |
| `SendDeploy`, `SendUndeploy`, `Serve`, `Succeeded`, `DeployFailed`, `UndeployFailed` | one `K8sClient.DeployResource` call: request, execution by the cluster, answer or error; a failure may come before or after the execution |
| `Deployed`, `DeployedPanics`, `Undeployed` | the end of the tasks |
| `Crash`, `Restart` | the process ends; `DeploymentTab.Load` |
| `cluster[<<name, ns>>]` | an object by kind and `metadata.name` of the text it was made from (`CrName`), and the namespace, if its kind has one |
| `EditCr`, `RemoveResource`, `AddResource`, `ReloadCollection`, `SetDefaultNs` | what the user does to the repository meanwhile |
| `EditOld`, `shown` in `ReloadCollection` | an edit, or the text a reload sets, in a tab opened before its instance was replaced: records and tasks that hold that instance see it, the repository does not |

Abstractions.  A CR is a value that names an object (`CrName`) and a namespace or none (`CrNs`);
`Texts[r]` are the texts the user writes for a resource.  A record is identified with its node, and one call of LockAndAdd, Remove or Deployed is one step, file write
included; the races inside LockAndAdd and the torn write are in `DeployRegistry`.  A task takes its resources in any order: the order of the code (namespaces
first, the rest in Go's map order) is one of them.  A nil dereference (Merge without an
original, Deployed of a removed record, an orphan deployed again) ends the process, so it
is an action that loses what is in memory.  An undeploy has one record selected.
Collections are flat here: a collection stands for a top-level one with all it contains.

### LongTasks and PodLog

`queue` is `LongTasksContext.queue`, `task[t]` a `LongTask` object, `run[t]` the
goroutine that was started with it.  Progress is kept as `toGo`, the updates after which
the float32 sum reaches 1.0 (`UpdatesFor`: for 3, 6 and 7 resources the rounded steps
fall short once; a log reader takes 91).  `RemoveTask` removes the first entry of the
name, whosever it is; at 100% every further `Update` calls `Done` again.  In `PodLog`
`log[l]` is a ContainerLog; the reader's goroutine goes through `kind` open, read,
update, done, and always works on `log[l].logReadTask`, as the closure does.  The UI's
`GetContent` is two steps (`Select` or `Frame`, then `Show`), because its two halves
take the mutex separately, and a reload goroutine is two (`ResetBuffer`, `LoadAgain`).
Clearing the flag in `Changed` and the call of LoadLog that follows are one step.
Saving all logs to files is not modelled.

### Collections

| in the model | in the code |
|---|---|
| `disk` | the directories and YAML files; the parent stands for the path |
| `node`, `bag` | `nodeMap` with what each node's object holds, `ResourceBag.ResourceNodes` |
| `cell[r]`, `templateCell` | which variable the pointer `ResourceInstance.Order` points to: `Clone` copies the pointer, so a template and what was saved from it share one |
| `tabs`, `current` | `activeResources.resList`, `rp.current` |
| `own[x]` | the `Resource` of a tab when it is not the object of a node any more (or never was: a template); a tab outside `DOMAIN own` shares the node's object, and an edit changes both |
| `panel` | the text of `crPanel` |
| `currentNode` | the selection of the tree, which follows the current tab |
| `SelectNode`, `SelectTab`, `Close` | clicks in tree and tab bar; the menu of the current tab |
| `OpenTemplate`, `SaveTemplate`, `CancelTemplate` | a template from the drawer, `SaveCurrent` and its dialog |
| `Edit`, `Save` | the editor, `SaveCurrent` and `SaveResource` |
| `AddResource`, `AddCollection` | the dialogs, with the save and the tab that follow |
| `Reload`, `RemoveSelected`, `Reorder` | the menu of the tree: `handleAction`, `RemoveCurrentResource`, `doReorder` |
| `Restart` | the process ends, `ResourceCollections.Load` |

`ReloadFrom` is `Collection.Reload`: the collection keeps its object and everything below
gets a new one from its file, so tabs below go on with the old objects (`Kept`).  With
equal orders the sort may return any sequence (`SortedBags`).

One action is a click with its frame and the idle frame after it, in which a closed tab
is pruned and another one elected.  Left out: several clicks before that frame, files changed by others,
failing file operations (the reorder dialog has its own module, in which writes fail) and crashes inside one of these handlers.  Labels and names are
the ids; that a name is new in its collection is part of `Fresh`.

### DeployRegistry and DurableRecords

| in the model | in the code |
|---|---|
| `resIds`, `list` | `DeployedResources.resIds` and `list`, in the table's order |
| `cache`, `files[place]` | `FileDeploymentPersister.cache` and `deployments.yaml` in the directory of a cluster |
| `persister = Nowhere` | the `DummyPersister` of a client without cluster |
| `procs[p].pc` | the next assignment or file operation of a goroutine inside `LockAndAdd`, `Deployed` or `Remove`; `cluster` is the time it waits for cluster calls |
| `Deploy(p, add, end)` | a click: the record is added for the tab that is current at the click, and ended for the one that is current when the goroutine runs |
| `Truncate`, `Write`, `PersistFails` | `os.WriteFile`: empty, then written; or an error, after which `Add` and `Remove` return before their last assignments |
| `FrameStart`, `FrameRow` | `Size` of the map, then `Get` of the list row by row |

`DurableRecords` has one step per change: records change one at a time, each is on
disk before the next is made, a start finds what is on disk; while it is written the file
holds nothing, and a failed write goes unnoticed.  `KeepsPromise` instantiates it with
records read from the map and the file parsed; the five structures and every step between
two assignments must map to a step or to a stutter of it.

### ReorderDialog

`items[c]` is the dialog's own sequence for each collection that was selected
(`reorderMap`), `target` the one `currentTarget` for all of them, `order` the numbers in
memory and in the files (equal between two saves), `bag` the tree's sequence.  OK takes the
changed collections in any order (Go's map) and writes file by file; a write may fail,
which ends that collection's save, and the program may end at any moment.  `os.WriteFile`
truncates first, so what is left of the file is one of: the old text or one with the new number
(`WriteFails`), something `InstanceFromYAML` returns nil for, after which the tree goes on
without the resource (`lost`; `WriteTears`, `EndTears`), or something that parses but lacks its
spec or its number, on which the load panics, that one and every one after (`fatal`;
`TearsFatally`), until the user takes the file away (`FileRemoved`).  A frame or a move
that would index past the end ends the program (`Panic`).  The dialog is modal, so the tree
has only its changes.  Left out: a number that is itself cut (there are fewer than eleven
resources), a collection that contains another one of the same save.  A resource
without a number that is alone in its collection panics at the next OK only, in the model at
the load.

### AgentProtocol, K8sAgent and RemoteService

A request is a record of its method and of those parameters a key, a reply or a namespace
depends on; a reply has the fields the client reads.  Data is the request it answers and
the time the cluster was asked, so properties can tell a wrong or an old answer.  `Replies`
is the set of what a handler may answer, failures of the cluster included (`Succeeds`,
`Fails`).  `CacheKey` is what the code makes of a question: the key of instances is
group, version, resource and namespace one after the other with nothing between
(`k8sagent.go:390`), so `Joined` gives the letters of resource and namespace together, and any two
questions may be spelled alike.  Of a CRD the key is `ApiVer + Name` (`util.go:130`); `ApiVer` ends
in a slash and that name, so different ones have different keys.  All keys are in one map, but
no two methods share a key: names of the API have no space, slash or underscore.  A call is `Begin` (with the look-up), `Serve`, `Receive` or `RpcFails`, and
`Put`; two goroutines that write the cache's map at once may end the program (`MapRace`).
The agent may restart and lose its list; time passes in `Tick`, at most `Latency` while an
answer is out.

### ReadOnlyEditor and LogTab

A frame is one action, with at most one event; a click on a line is one more
(`UpdateSelections`), because a writer may empty the list it has looked at.  `SetText` is a step
for each assignment others can see (`ForgetSelected`, `SetLines`, `AddLine` for every line,
`SetOriginalContent`).  Line objects carry the number of the `SetText` that made them: the code
compares pointers.  `flag` is the boolean of the shared UI context that every frame of the search bar flips, so that
every second one starts a filter.  The filter itself wakes nobody (see the divergences).  In `LogTab` a write appends to
the buffer, copies it, and hands it to the editor, with no lock; `seen` is what the
`strings.Builder` of the writer held.  Scrolling and colours are left out.

### InKubeTab

The frame is four actions where a goroutine can see a difference: between frames, adding
resources to the criteria one by one, at the button, drawing the lists.  `query` and
`result` are the running and the last query with what it asked for; `refresh[r]` the steps
of the goroutine of a click.  `overlapped` is history: two refreshes were under
way at once.  A list may still draw lines of the text before, so lines are
records of a name and a text.  `StatusIcon` is `GetStatusIcon` as a function of the states
of a pod's containers.

### BookReader

| in the model | in the code |
|---|---|
| `books[b].items[u]` | `Book.fileSet[url]`; `adrift` when its `BookDir` was lost with a part of its file |
| `panes[p]` | a `FilePane`: `note` and `links` are those of its line objects, `noteFor` and `removing` the line and the links of an open dialog |
| `trail[k]`, `allPanes` | the row of panes of a root entry; the last pane made for a file, which is never forgotten and shared by all books |
| `noteContext[u]`, `linkContext[u]` | the slots of the UI context with the file's url in the key: `AskForNote`, `AskForRemoval`, a link's chooser fill them, overwriting what is there |
| `PollNote`, `PollLink` | `FilePane.Layout`: whichever pane of that file is drawn first takes it.  The line is the one that was clicked, the item the one of the pane that polls |
| `AnswerNote`, `AnswerLinks`, `CancelDialog` | OK and Cancel of the dialogs, which take the place of the editor (`Editing`) |
| `saving`, `WriteIndex`, `WriteItem` | the books and items a save has still to write: the index, then the items in the order of a Go map |
| `IndexFails`, `ItemFails`, `Crash` | mkdir or a write fails, which ends the save of that book or skips the item; the program ends; either may leave a part of the file |
| `unsaved` | history: files whose last write failed since the start |

A part of a file is what its reader makes of it: a shorter list of entries (`TornIndex`), no
item, or one with fewer references and no directory (`TornRefs`, in the order of the fields).
Abstractions: a click on Delete and the poll of its slot are one step; one line stands for
all lines of a file; a name or a note that is cut in the middle is gone; a file that is to
be shown can be read; what an item of a torn file panics on (a map that was never made) is
the end of the program, which may be at any time.

### ConvertTool

A result is a source: its content, whether it is binary and whether it is an error.
A content is what it was made of (a typed text, a generated certificate) and the
operations applied to it, with a decoder undoing its encoder.  `items[i].result = None` is
the nil `convertResult`.  `GetValueAsString` (`AfterTarget`) converts anew, `GetValue` does
not; that difference is what the properties are about.  Only one of the base64 variants is
modelled, typed texts are not empty, and `overwritten` is history: results a user has typed
over.  Saving to and loading from files is left out.

## Runs

All runs are expected to pass.

| run | question | bounds |
|---|---|---|
| `deployments_overlap` | file and records agree, write-ahead, an undeploy stops requests not yet sent, types | 1 collection, 2 resources, 1 text, 2 tasks, crashes, failures, resources removed and added |
| `deployments_careful` | no object is leaked by a careful user | 2 resources and a template, one of them cluster scoped, 5 texts, 2 objects, 2 namespaces, 1 task, all edits that keep name and namespace, crashes |
| `deployments_liveness` | every task ends | 1 resource that may be removed and added, 2 tasks, failures, crashes; fairness |
| `registry` | the register implements `DurableRecords`; undisturbed frames are complete | 2 nodes, 2 goroutines, 1 cluster or none, crashes, failing writes |
| `podlog` | no stale entry of any task, reload stays possible | 1 log, 2 tasks of any kind, 2 reloads at once, 1 chunk, 100% after 2 updates |
| `collections` | files, tree and tabs in step; what is clean is saved; reload shows the files | 3 collections, 2 resources, 2 texts, `MaxTouched` 3 |
| `reorder` | numbers stay places, OK saves what is shown, moves follow the resource | collections of 3, 2 and 0 resources, failing writes, torn files, crashes |
| `remote` | answers to the question, not too old, fresh when said so | 2 goroutines, 2 requests of one topic (one pair with other words of the same letters), 3 time units, restarts, failures |
| `editor` | selection as drawn, quiet logging complete, filter catches up | 2 writers, 2 filter texts, 2 events, 2 filter goroutines; fairness |
| `inkube` | query asks for what is selected, once; lists loaded together; tab comes back; running icon | 2 namespaces, 2 kinds, 1 refresh, 1 query, 3 clicks on lines; fairness |
| `reader` | panes show items; lists, notes and links on disk and found again | 2 books, 2 files, 3 panes, 2 links, 5 events, crashes and failing writes among them |
| `convert` | panel shows the conversion, results come from typed texts, shallow ones are fresh | 4 items of all kinds |

Why these bounds.  The overlapping tasks run with the edits that change which
resources a redeploy finds; texts and default namespaces, which only matter for where
an object goes, are edited in `deployments_careful`.  Two tasks of one record are enough
for every interference through a shared action map or a removed record, and two resources
for a task to be in the middle of its list; a third task or resource would repeat them.
`deployments_careful` needs different scopes, namespaces and a template more than it needs
tasks, because its user waits.  `Tags` (identities of maps) and `Tasks` are slots that are
reused; four tags cover two tasks and two records.  In `podlog` two tasks may be of one
name or of two, both workers, both readers or one of each; `MaxCalls` 1 still has tasks whose
updates fall short of 100% and tasks that pass it, since an undeploy counts selected records
and not resources; `LogUpdates`, `NearlyFull` and `SlowUpdates` shrink 91, 10 and 900 so
that both sides of 100% occur with short logs; `MaxChunks`, `MaxReloads` and `MaxCalls` bound
the data a goroutine works on, not how often it is started.  `SYMMETRY Alike` permutes
slots, nodes, files or resources of one collection, which no action tells apart.
`VIEW Collected` and `VIEW Reachable` ignore objects nothing refers to.

In `collections` three collections give a chain and two siblings, so a removal or a
reload has something two levels below and something beside it; two resources give a
successor to renumber, a move and a neighbour that shares a pointer.  `MaxTouched` bounds,
in all, how many tabs are open and how many nodes, files and own objects differ from a new
one: with 3, tabs on all of a chain may be open at once, or one tab be edited while another
object differs from its file.  It is a constraint on states; sessions may be of any length.
`VIEW Merged` replaces the numbers of order pointers by who shares one, the only thing
an action asks about them, and `Alike` permutes resources and the collections below the
repository.  Its user (`OnceSpec`) saves a template once each time it is opened.

In `reorder` three resources let a move have something on both sides, and collections of
different lengths, which torn files make shorter, let a selection outlive its collection.  In `remote` requests meet only
in a key of the cache or in the agent's list, so a behaviour is about the two requests of one
topic (`Topics`), and three units of time are enough for a value to time out while a call is
out.  In `editor` two writers and a clear make every overlap of two; a word that matches in
one case only, and one the other line has, make filters differ; two filter goroutines may
overlap each other and the write that replaces the text they read, and two events are a
click and what follows it (a clear, a filter, a second click), before or after any of them.  In `inkube` one
cluster-scoped and one namespaced kind and two namespaces make a loop of two rounds of two.
In `reader` the repository is empty, or has a book in which one file has a link to the other and
that one to itself, so that five events reach an entry opened, its link followed, the linked file
opened as an entry too (two panes of one file), and something asked for and answered there; or
a link asked for, added late and removed; or a note with a failing write and a crash after it.  They bound the length of a session, so every behaviour ends:
`CHECK_DEADLOCK FALSE` is there only.  In `convert` four items are a chain of three
conversions below a root (the first depth at which a kept result may be stale), or two roots.

`Tracked` is promised to a careful user only (`CarefulSpec`): one who edits and clicks while no task
runs, undeploys before deploying again, and whose edits leave what a text says of its name and
namespace alone (`OneIdentity`), on a cluster that refuses nothing but the deletion of what is
not there.  Two resources may name one object, a text may state a namespace, and an open tab
may hold an instance the repository has replaced.  Without these conditions the code does leak
objects: `DeployResource` takes name and namespace from the text as it is at the undeploy
(`k8sclient.go:277-300`), so an edit of either leaves the old object; a failing call in
the middle of a deployment drops the record of what was created; and a redeploy that
leaves out a resource forgets its action.  The application may crash anywhere.

`UndeployStopsRequests` is about requests a deploy has not sent yet.  One that is past its
guard (`k8sclient.go:318`) is executed after the deletion and makes the object again: `Serve`
does that in the model, and no property denies it.

Likewise `registry` lets operations of the register not overlap (`SerialSpec`), `reader` gives each book
a name of its own (`CarefulSpec`), and several properties say in their premise what they need
(`clash`, `overlapped`, `quiet`, `overwritten`, `unsaved`, a pane that is the only one of its
file); what happens otherwise is below.

Fairness.  `Deployments!Fairness` lets every running task take its next step when it
has one, and every call be answered, with success or with an error: goroutines are
scheduled by Go, and client calls return.  `InKubeTab` assumes the same of the query and of
refreshes.  In `LogTab` writers and filter goroutines that have started go on, a Clear
that has begun ends, and a window that was invalidated is drawn.  The user, crashes and
restarts are never forced.

### Known divergences

Places where the code does otherwise than its comments say, or than a user would expect.
The models have this behaviour; the properties above are stated around it.

* Two clicks on Deploy deploy one node twice at a time (`respage.go:569`), although
  `respage.go:793` speaks of a locked resource and its disabled button.
* `Merge` (`k8sclient.go:967`) compares with the text of the first deployment, which a
  redeploy never replaces; an edit that is undone after it was redeployed is skipped
  although the cluster still has it ("the resource is not changed").
* Name and namespace of what an undeploy deletes are those of the text by then
  (`k8sclient.go:277`, `:291`, `:334`): after an edit of `metadata.name` or
  `metadata.namespace` the deployed object stays, in spite of the original kept for that
  purpose (`k8sclient.go:904`).  The stored `FinalNs` is for texts without a namespace only.
* A creation that is past the switch of `k8sclient.go:318` when an undeploy of the same
  record deletes the object is executed afterwards and makes it again.
* Two overlapping `LockAndAdd` add two details of one id, and a frame during an operation
  reads a size that the list does not have: index out of range (`k8sclient.go:841-881`).
* `Clone` (`types.go:803`) copies the pointer to the order, so one template tab saved
  twice renumbers the resource saved first, in memory and not in its file.
* A removal and a move reload the collection without the call that updates open tabs
  (`resourcecollections.go:987`, `respage.go:187`).  What is typed in such a tab afterwards is
  lost: Save writes the text of the new node and clears the mark of the tab.
* The reorder dialog keeps its selected index for a collection it knows
  (`resourcecollections.go:523`): it selects a resource nobody picked, or panics in a shorter
  collection; and the error of a failed save is dropped (`:290`).
* A resource file torn by a failed write or the end of the program (`types.go:576`) is left
  out of its collection by the next load without a word (`:889-900`), or, if it still parses
  but has no spec or no number, every start panics (`:906`, `:672-683`) until it is removed.
  After such a loss Restore may select a place beyond the end of the list, which panics.
* The guard that should keep a log's progress below 100% (`res_details.go:361`) is evaluated
  before the first read and never again, so a long log is done at its 91st chunk.
* `DeployResource`, `DoRawRequest` and `GetDescribeFor` of the client drop the error the
  agent has wrapped (`k8sagent.go:277`, `:154`, `:193`; `serviceimpl.go:26`): a refused
  deployment is recorded as Deployed.  A forced refresh of the api resources is answered from
  the client's cache (`:293`), and the key of a description has no kind (`:164`).  The key of
  instances joins its parts without a separator (`:390`): jobs of namespace "test" and job of
  "stest" would answer for each other.
* `Filter.editorId` is never set (`scrolled_editor.go:51-63`), so the flag a finished filter
  sets (`:91`) has a key nobody registered; the error is dropped, and what it found is drawn
  when something else redraws the window.  Instead the search bar flips its own flag in every
  frame and takes it for a change in every second one (`util.go:428`), with or without one.
  After a clear the lines found before stay on the screen, since the search bar is not laid
  out without lines.
* Line objects that were selected when `SetText` emptied the list keep their mark
  (`scrolled_editor.go:1017`): a click draws them unselected and puts them in the list that
  is copied.  An older line that is clicked while it is still drawn stays in that list when it
  is gone.  A click that takes a line out of the list just emptied indexes out of range
  (`:917-924`).  Two `SetText` at once may lose a line (`:1024-1034`).
* Loggers that write at the same time lose messages from the log tab (`log_tab.go:69`), and the window has no way to get them back.
* A query whose criteria do not agree with the selection (a name selected twice) reads them
  while each frame refills them (`in_kube_tab.go:122`); and when one name was selected twice,
  in a list and in the lines still drawn of the list before, while another was taken out of the
  selection, the criteria keep the other: as many names, all of them known.  A pod with a failed container and a
  completed one after it has the icon of a completed pod (`:395`).
* Book names are not checked to be unique (`tool_reader.go:778`): books of one name share
  and delete one directory; a book with the empty name has the repository's.
* Nobody is told of a directory, an index or an item that cannot be written
  (`tool_reader.go:84`, `:99`, `:115`, `:627-648`): memory and disk differ until the next save
  of that file, and what was noted is gone at the next start.  An item whose file lost its
  end is saved to the working directory from then on (`:65`, `BookDir` is read from it).
* The slots of notes and links have the file's url for a key (`:153`), and panes of one file
  share them: with two panes, of two books or of an entry and a link, what is asked for in one is
  saved to the item of whichever is drawn first, and each goes on showing its own lines.
* A note that is emptied in its dialog stays on the line (`scrolled_editor.go:468`) and is gone at
  the next start.  Numbers of links repeat after a removal (`:481`), and then one choice
  removes two.
* After a conversion was added, typing goes into the result of the current item
  (`convert_tool.go:1027`), which may be a read-only one or, not converted yet, nil: a panic.
  `SetValue` warns (`:98`) and assigns all the same.

## Proofs

Each theorem holds for every value of the constants that satisfies the assumptions its
modules name.  TLC has checked the invariants of the runs and, before it was proved, each
inductive invariant (`IInv`, `CarefulInv`) on the bounds above.

| module | theorem | statement |
|---|---|---|
| `DeploymentsProofs` | `Invariance` | `Spec => []IInv` |
| | `TypeCorrect` | `Spec => []TypeOK` |
| | `Durable` | `Spec => []RecordsDurable` |
| | `WriteAhead` | `Spec => []FirstDeployRecorded` |
| | `UndeployHeeded` | `Spec => UndeployStopsRequests` |
| | `NothingLeaked` | `OneIdentity => (CarefulSpec => []Tracked)` |
| `DeployRegistryProofs` | `Invariance` | `SerialSpec => []IInv` |
| | `TypeCorrect` | `SerialSpec => []TypeOK` |
| | `CompleteFrames` | `SerialSpec => []QuietFramesComplete` |
| | `Implements` | `SerialSpec => KeepsPromise` |
| `RemoteServiceProofs` | `Invariance` | `Spec => []IInv` |
| | `Correct` | `Spec => []AnswersAreData` |
| | `Bounded` | `Spec => []BoundedStaleness` |
| | `Fresh` | `Spec => []FreshWhenSaidSo` |
| `ReorderDialogProofs` | `Invariance` | `Spec => []IInv` |
| | `TypeCorrect` | `Spec => []TypeOK` |
| | `OkSaves` | `Spec => OkShowsOrder` |
| | `Follows` | `Spec => MovesKeepTarget` |
| | `Restores` | `Spec => RestoreUndoes` |
| `PodLogProofs` | `Invariance` | `PodLogSpec => []IInv` |
| | `Reloads` | `PodLogSpec => []ReloadPossible` |
| | `NoneIsStale` | `PodLogSpec => []NoStaleEntries` |
| `CollectionsProofs` | `Invariance` | `Spec => []IInv` |
| | `TypeCorrect` | `Spec => []TypeOK` |
| | `NoOrphanTab` | `Spec => []TabsAreOfNodes` |
| | `CleanSaved` | `Spec => []CleanIsSaved` |
| | `ReloadShows` | `Spec => ReloadShowsFiles` |
| | `InSequence` | `OnceSpec => []Sequential` |
| `InKubeProofs` | `Invariance` | `Spec => []IInv` |
| | `QueryComplete` | `Spec => []QuietQueryComplete` |
| | `ListedOnce` | `Spec => []NamespacedListedOnce` |
| | `VisibleLoaded` | `Spec => []ShownTabIsLoaded` |
| | `Icons` | `Spec => []IconTellsRunning` |

In each module there is a lemma for every action, split into the parts of `IInv` the action
can disturb, and one that joins them.

**Deployments** (`ConstantsAssumption`, `NoneAssumption`).  `IInv` is the conjunction of
`TypeOK`, the three safety properties' own inductive forms and what they rest on:
`TasksWellFormed` (what a running task of each kind holds), `DownIsEmpty` (a process that is
down has no records and tasks), `SharedMaps` (a task that holds a record's tag holds the
record's map, and two tasks with one tag hold one map) and `UndeployMarks` (what an undeploy
has come to is a deletion in its map).  `RecordsDurable` is not inductive without
`DownIsEmpty`.  `UndeployStopsRequests` is about steps: a request of a deploy comes from
`SendDeploy` only (`OnlySends`, through all other actions), which takes its kind from the map, and there
`UndeployMarks` and `SharedMaps` have it a deletion.

`NothingLeaked` is about the careful user of `CarefulSpec`, whose steps are steps of `Spec`
(`CarefulIsSpec`), and assumes that the texts of a resource agree on name and namespace
(`OneIdentity`): both are read from the text at the undeploy, so an edit of either moves the
undeploy and not the object.  Texts may state a namespace, and several resources one object.
`CarefulInv` adds to `IInv` that every text in a node, an action, the file or a request is one of
its resource (`TextsKept`), through reloads and tabs that hold replaced instances; so one text
(`Home`) tells the place of them all.  A crash leaves only the file, so it also has what the
file says (`FileFollows`).  Records and file may differ in texts and kinds, not in the
namespaces of their actions (`FileAgrees`); the namespace `Deployed` keeps for the undeploy is
that of the action (`OriginalsAgree`); the file has an action for every object on the cluster
and its namespace is the object's (`ObjectsNamed`).  The last is what crashes and restarts preserve,
while `Tracked` speaks of the records, which are gone when the application is down.  A record
leaves the file at the end of an undeploy only, and by `Gone` nothing of it is on the cluster then;
`TaskPlaces` and `OneTask` say that the running task works where its record says, and alone.

**DeployRegistry** (`FiniteAssumption`, `NamesAssumption`).  The five structures agree only
between operations.  `Mutex` says that at most one goroutine is inside one, and
`GoroutinesInv` says, for each step it can be at, which of map, list, cache and file
already have the change and which not; with `OwnIds` and `FilesDistinct` that is inductive.
`FrameInv` relates a frame under way to the list it draws, `DownInv` says what is left
after a crash.  `Implements` shows of each assignment and file operation that it is one step
of `DurableRecords` or none of its: a record changes in the abstract register when its
detail enters the map, the file when it is truncated, written, or fails to be.

**RemoteService** (`MessagesAssumption`, `BoundsAssumption`).  `CallsInv` says of each call
in flight what its reply may hold and since when, `CacheInv` the same of a cached value and
its timeout, `InfosInv` of the agent's list.  That a value may be returned for another
request than it was fetched for rests on the lemma `SameKey`: checked requests of one key are
the same or, of instances, have names of the same letters (`SameLetters`), whatever the
spelling `Joined` is.

**ReorderDialog** (`OwnerAssumption`, `NoneAssumption`).  Every sequence of the tree is an
arrangement of what is left of its collection (`Left`), and so is every one of the dialog that
may still be saved (`ToSave`); one whose save has failed may have a resource that is lost
(`Lists`).  A slice that is moved leaves an arrangement (`SliceArranges`).  A collection that is
not being written is sorted by its numbers (`BagInv`, but for the time of a start that panics:
`fatal`); while OK runs `SavingInv` says how far it has come.  `Load` after a crash sorts
by numbers of which some may be equal, so the tree may come back in any of several
sequences, but after a complete save in one only: an arrangement that is sorted by numbers by
which another one is counted is that one (`OneInOrder`, from `OnlyOrder`).

**PodLog** (`LongTasksAssumption`, `ObjectsAssumption`, `PodLogAssumption`, `ReaderAssumption`).  `RefersInv` types the
references between logs, readers and tasks.  `EntriesInv` counts: there are no more entries of
a name in the queue than running goroutines of that kind, which is what is preserved
although `RemoveTask` may remove the entry of another goroutine.  `LogsInv` says that the task a log
has is done or one of its readers will end it.

**Collections** (`CollectionsAssumption`).  `IInv` is `TreeInv /\ PageInv`.  Nodes and files
are one well-founded tree (`Agree`: one shape, every parent a collection in the tree, no cycle),
what is clean is saved (`Clean`), and each bag lists the resources of its collection.  Every tab
is open once, and has the object of a node or one of its own; the tree selects the node of the
current tab, without which a removal could close the current tab and elect none.  `Below` is a
recursive function; the proofs need its equation (`BelowFacts`, with the existence of the
function shown by `AboveExists`) and that a branch of a well-founded tree does not return
(`NotBelowItself`).  `InSequence` adds `NumbersInv` (each bag is counted by the numbers of its
nodes and by those of their files) and `CellsInv` (no two resources share the pointer `Order`), and
is about `OnceSpec`, since a template saved twice does share it.  A reload sorts what it reads;
it finds the sequence shown because only one is sorted by counted numbers (`OneSorted`), and
for every collection on the branch one is exhibited (`CanCount`): after a removal
the old one without the removed resource, after a move the new one.

**InKubeTab** (`ListsAssumption`: an answer of the cluster has nothing twice;
`PodsAssumption`: what states a container may have, and that "" names no namespace).  `IInv`
has four parts beside the types.  `QueryOnce` says what a query has not asked for yet: nothing
in the namespaces that are left, and none of the resources that are left in the present one.
That is not inductive by itself, because frames append to the map the loop over the resources
walks through: `LiveInv` adds that in this loop all the query has asked for is in that map, so
that what a frame adds is new.  `RefreshInv` says of a refresh that runs alone which of list,
map and text it has already replaced.  `QuietInv` says that the requests made and those
`Ahead`, as two loops over what is left, are together those of the criteria (`Complete`), and
that no frame may change the criteria meanwhile (`Calm`).  That the criteria then are what is
selected needs a lemma about `Update`, which compares lengths and looks each name up:
`SelectionAgrees` holds for selections without a name twice only.  `Keys`, the loop of
`Update`, is a recursive function; `KeysFacts` shows that it exists (`Iterates`) and that the
criterion has each name once.

Two premises of `QuietQueryComplete` are results of this proof.  With two
refreshes under way at once the step of `AddResource` fails: the criteria may keep a resource
that the second refresh has forgotten.  With a name selected twice `SelectionAgrees` fails.
TLC has a counterexample for each, with two refreshes and with four clicks in one frame.

The runs `remote`, `collections` and `deployments_careful` use narrower specifications than
`Spec`: `TopicSpec` starts calls of one topic, each step of `OnceSpec` is one of `Spec`
(`OnceIsSpec`), and `CarefulClicksSpec` is `CarefulSpec` with clicks on the nodes of `Clicked`.

Only model-checked:

* `TasksEnd`, `FilterCatchesUp` and `TabComesBack`: liveness under fairness is out of the
  prover's reach.
* `SelectionAsDrawn` and `QuietLogComplete`: the filter is a `SelectSeq`, of which the prover
  knows nothing and which would need induction over the text.
* `DerivedResults`, `PanelShowsConversion` and `ShallowFresh` of `ConvertTool`: its values are
  recursive functions along chains of conversions.
* `BooksOnDisk`, `NotesOnDisk`, `PanesShowItems`, `TrailBeginsAtRoot` and `StartFindsNotes` of
  `BookReader`: its lists are built with `SelectSeq`, `SelectInSeq` and `SetToSeq`, of which the
  same holds.

No module declares a RECURSIVE operator; what recurs (`Below` and `Remaining` of `Collections`,
functions of `ConvertTool` and `InKubeTab`) is a recursive function.

## Plan

Modelling is complete in the sense that every part with behaviour over time has a module.
Left, in this order:

1. Proofs: `BookReader`, with its lists as functions of an index.
2. `Collections` with failing and interrupted file operations, and with several clicks
   before an idle frame.
3. `Deployments` with an undeploy of several selected records.

## Not modelled

* The application shell (`main.go`, `appui.go`, `navitems.go`): start-up and choice of the
  panel that is drawn; each step happens once.
* The map of `UIContext`: its flags are part of the components that use them.
* Generated code beyond messages, stubs and handlers; the built-in schemas (string
  constants); icons, colours, configuration, loggers beyond the log tab's writer.
* Views without state (YAML, describe, certificates), drawing, scroll offsets.
* What bytes a conversion or the cluster yields, beyond where they come from.
