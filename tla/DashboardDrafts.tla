---------------------------- MODULE DashboardDrafts ----------------------------
(***************************************************************************)
(* The dashboard builder of one browser tab (apps/frontend: the route      *)
(* routes/dashboards-route.tsx and the draft reducer                       *)
(* features/dashboards/dashboard-draft-reducer.ts) and the control plane   *)
(* that stores the dashboards (SaveDashboard and DeleteDashboard of        *)
(* service.go), which other users of the project change as well.           *)
(*                                                                         *)
(* A draft starts from the tab's cached list and keeps the version it      *)
(* found there; it is saved as a whole.  The tab stays usable while a save *)
(* or a delete is pending, and what their answers do to it is done to      *)
(* whatever draft is open by then.                                         *)
(*                                                                         *)
(* A dashboard's id is made of its name (the slug), so a rename deletes    *)
(* the old record and puts a new one.  The model has one project, one      *)
(* visibility, one control-plane replica and no built-in dashboards; what  *)
(* a widget shows is one mark.  Undo and redo have no caller in the route. *)
(***************************************************************************)
EXTENDS DashboardLayout

CONSTANTS Names,       \* the names of dashboards
          NewName,     \* the name a new dashboard starts with
          FirstKinds,  \* the kinds of the widgets of the dashboard there is
          Kinds,       \* the kinds of widgets that are added
          Deltas,      \* the steps of a move or a resize
          MaxWork,     \* how many edits, saves and deletes the tab makes
          MaxForeign   \* how often others interfere or a call fails

ASSUME NamesAssumption == NewName \in Names
ASSUME KindsAssumption == /\ Kinds \subseteq DOMAIN DefaultSize
                          /\ FirstKinds \in Seq(DOMAIN DefaultSize)
ASSUME DeltasAssumption == Deltas \subseteq Int \X Int
ASSUME BoundsAssumption == MaxWork \in Nat /\ MaxForeign \in Nat

VARIABLES
  stored,    \* stored[n]: the dashboard with that name, or Absent
  list,      \* the tab's cached list of dashboards
  selected,  \* the dashboard of the URL, or NoId
  draft,     \* the open draft, or Closed
  saving,    \* the number of the pending save, or 0
  deleting,  \* a delete is pending
  answers,   \* the answers that wait to be taken: to the save, to the delete
  calls,     \* the saves that are not yet handled
  handler,   \* the save that is being handled, or NoCall
  deletes,   \* the deletes that are not yet handled
  edits,     \* how many edits there were
  mutations, \* how many saves and deletes the tab sent
  foreign    \* how often others interfered or a call failed

tab == <<list, selected, draft>>
control == <<calls, handler, deletes>>
counters == <<edits, mutations, foreign>>
vars == <<stored, tab, saving, deleting, answers, control, counters>>

-----------------------------------------------------------------------------
\* Data

NoId == "none"
ASSUME NoIdAssumption == NoId \notin Names

Absent == [version |-> 0, createdAt |-> 0, widgets |-> <<>>]
Closed == [id |-> NoId, name |-> NewName, base |-> Absent, widgets |-> <<>>,
           open |-> FALSE]
NoInput == [id |-> NoId, name |-> NewName, base |-> Absent, widgets |-> <<>>]
NoCall == [call |-> 0, pc |-> "idle", input |-> NoInput, createdAt |-> 0]

\* createDashboardWidget numbers the id; a copy's id ends with the time.
Widget(id, kind, mark) ==
  [id |-> id, layout |-> DefaultLayout(kind, id[1]), mark |-> mark]
Present(n) == stored[n] # Absent
Selected == IF selected = NoId THEN Absent ELSE list[selected]

\* "base" is what the draft was started from.  The code keeps its version.
StartDraft(id, name, base) ==
  [id |-> id, name |-> name, base |-> base, widgets |-> base.widgets, open |-> TRUE]

Versions == 0..(1 + MaxWork + MaxForeign)
Ids == (1..(Len(FirstKinds) + MaxWork)) \X (0..MaxWork)
Widgets == [id: Ids, layout: Layouts, mark: {"default", "edited", "foreign"}]

TypeOK ==
  /\ \A n \in Names : /\ stored[n].version \in Versions /\ list[n].version \in Versions
                      /\ stored[n].widgets \in Seq(Widgets)
                      /\ list[n].widgets \in Seq(Widgets)
  /\ selected \in Names \cup {NoId}
  /\ draft.id \in Names \cup {NoId} /\ draft.name \in Names
  /\ draft.base.version \in Versions
  /\ draft.widgets \in Seq(Widgets)
  /\ saving \in 0..mutations
  /\ deleting \in BOOLEAN
  /\ answers.save \in Names \cup {NoId, "error"} /\ answers.delete \in BOOLEAN
  /\ Len(calls) <= mutations
  /\ handler.pc \in {"idle", "delete", "put"}
  /\ deletes \subseteq Names
  /\ edits \in Nat /\ mutations \in 0..(MaxWork - edits) /\ foreign \in 0..MaxForeign

\* The project has one dashboard, and the tab shows the overview.
Init ==
  /\ \E first \in Names \ {NewName} :
       stored = [n \in Names |->
                   IF n = first
                   THEN [version |-> 1, createdAt |-> 0,
                         widgets |-> Compact([i \in DOMAIN FirstKinds |->
                                       Widget(<<i, 0>>, FirstKinds[i], "default")], {})]
                   ELSE Absent]
  /\ list = stored
  /\ selected = NoId
  /\ draft = Closed
  /\ saving = 0
  /\ deleting = FALSE
  /\ answers = [save |-> NoId, delete |-> FALSE]
  /\ calls = <<>>
  /\ handler = NoCall
  /\ deletes = {}
  /\ edits = 0 /\ mutations = 0 /\ foreign = 0

-----------------------------------------------------------------------------
\* Opening and leaving a draft

server == <<stored, saving, deleting, answers, control, counters>>

\* A card of the overview, or a pinned dashboard of the sidebar: the link
\* changes the URL and leaves the draft as it is.
OpenDashboard(n) ==
  /\ list[n] # Absent
  /\ selected # n
  /\ selected' = n
  /\ UNCHANGED <<list, draft, server>>

\* createDashboard of the overview, which is shown when nothing else is
CreateDashboard ==
  /\ Selected = Absent /\ ~draft.open
  /\ draft' = StartDraft(NoId, NewName, Absent)
  /\ selected' = NoId
  /\ UNCHANGED <<list, server>>

EnterEditMode ==
  /\ Selected # Absent /\ ~draft.open
  /\ draft' = StartDraft(selected, selected, Selected)
  /\ UNCHANGED <<list, selected, server>>

\* duplicateDashboard, also while another draft is open
DuplicateDashboard ==
  /\ Selected # Absent
  /\ \E copy \in Names \ {selected} :
       draft' = StartDraft(NoId, copy, [Absent EXCEPT !.widgets = Selected.widgets])
  /\ UNCHANGED <<list, selected, server>>

DiscardChanges ==
  /\ draft.open
  /\ draft' = Closed
  /\ UNCHANGED <<list, selected, server>>

-----------------------------------------------------------------------------
CanWork == edits + mutations < MaxWork

\* Edits.  withWidgetHistory compacts whatever an edit leaves.

Edit(widgets) ==
  /\ draft.open
  /\ CanWork
  /\ edits' = edits + 1
  /\ UNCHANGED <<list, selected, stored, saving, deleting, answers, control, mutations, foreign>>
  /\ draft' = [draft EXCEPT !.widgets = widgets]

ids == {draft.widgets[i].id : i \in DOMAIN draft.widgets}
First(id) == FirstOf(draft.widgets, {id})

AddWidget(kind) ==
  LET index == Len(draft.widgets) + 1
  IN  Edit(Compact(Append(draft.widgets, Widget(<<index, 0>>, kind, "default")), {}))

\* duplicateWidgetInput: a new id, and the place below the source
DuplicateWidget(id) ==
  LET copy == [First(id) EXCEPT !.id = <<id[1], edits + 1>>,
                                !.layout.y = @ + First(id).layout.h]
  IN  Edit(Compact(Append(draft.widgets, copy), {}))

RemoveWidget(id) ==
  Edit(Compact(Without(draft.widgets, {id}), {}))

\* update_widget_data: the widget of the editor replaces every widget of its id.
UpdateWidget(id) ==
  Edit(Compact([i \in DOMAIN draft.widgets |->
                  IF draft.widgets[i].id = id
                  THEN [First(id) EXCEPT !.mark = "edited"]
                  ELSE draft.widgets[i]], {}))

MoveWidget(id, delta) == Edit(Move(draft.widgets, id, delta))
ResizeWidget(id, delta) == Edit(Resize(draft.widgets, id, delta))

\* update_metadata
Rename(n) ==
  /\ draft.open /\ draft.name # n
  /\ CanWork
  /\ draft' = [draft EXCEPT !.name = n]
  /\ edits' = edits + 1
  /\ UNCHANGED <<list, selected, stored, saving, deleting, answers, control, mutations, foreign>>

-----------------------------------------------------------------------------
\* Saving and deleting, in the tab

\* toDashboardSaveInput and prepareDashboardSaveInput
SaveInput(d) ==
  [id |-> d.id, name |-> d.name, base |-> d.base,
   widgets |-> SortForSave(Compact(d.widgets, {}))]

Save ==
  /\ draft.open
  /\ saving = 0
  /\ CanWork
  /\ mutations' = mutations + 1
  /\ saving' = mutations + 1
  /\ calls' = Append(calls, [call |-> mutations + 1, input |-> SaveInput(draft)])
  /\ UNCHANGED <<stored, tab, deleting, answers, handler, deletes, edits, foreign>>

\* onSuccess of the save: the draft that is open now is closed.
SaveSucceeds ==
  /\ answers.save \in Names
  /\ draft' = Closed
  /\ selected' = answers.save
  /\ saving' = 0
  /\ answers' = [answers EXCEPT !.save = NoId]
  /\ UNCHANGED <<stored, list, deleting, control, counters>>

\* onError of the save: the draft is left as it is.
SaveFails ==
  /\ answers.save = "error"
  /\ saving' = 0
  /\ answers' = [answers EXCEPT !.save = NoId]
  /\ UNCHANGED <<stored, tab, deleting, control, counters>>

\* Mutant: the delete does not look whether a dashboard is shown.
DeleteUnguarded ==
  /\ ~deleting
  /\ CanWork
  /\ mutations' = mutations + 1
  /\ deleting' = TRUE
  /\ deletes' = deletes \cup {selected}
  /\ UNCHANGED <<stored, tab, saving, answers, calls, handler, edits, foreign>>

DeleteSelected ==
  /\ Selected # Absent
  /\ ~deleting
  /\ CanWork
  /\ mutations' = mutations + 1
  /\ deleting' = TRUE
  /\ deletes' = deletes \cup {selected}
  /\ UNCHANGED <<stored, tab, saving, answers, calls, handler, edits, foreign>>

\* onSuccess of the delete
DeleteSucceeds ==
  /\ answers.delete
  /\ draft' = Closed
  /\ selected' = NoId
  /\ deleting' = FALSE
  /\ answers' = [answers EXCEPT !.delete = FALSE]
  /\ UNCHANGED <<stored, list, saving, control, counters>>

\* The list is read again: a mutation invalidated it, or the user asked for it.
Refetch ==
  /\ list # stored
  /\ list' = stored
  /\ UNCHANGED <<selected, draft, server>>

-----------------------------------------------------------------------------
\* The control plane.  One goroutine handles the saves, one statement a step.

\* The call's answer, which the tab takes while it still waits for it.
Answer(call, answer) ==
  answers' = IF saving = call /\ answers.save = NoId
             THEN [answers EXCEPT !.save = answer] ELSE answers

\* validateDashboardInput
Valid(input) ==
  /\ input.widgets # <<>>
  /\ UniqueIds(input.widgets)
  /\ ValidLayout(input.widgets)

\* Mutant: the version is not compared.
CurrentUnchecked(input) == Present(input.id)

Current(input) == Present(input.id) /\ input.base.version = stored[input.id].version
SlugAvailable(input) == input.name = input.id \/ ~Present(input.name)

SaveReads ==
  /\ handler = NoCall
  /\ calls # <<>>
  /\ calls' = Tail(calls)
  /\ LET input == calls[1].input
         accepted == /\ Valid(input)
                     /\ input.id # NoId => Current(input)
                     /\ SlugAvailable(input)
     IN  IF accepted
         THEN /\ handler' = [call |-> calls[1].call, input |-> input,
                             pc |-> IF input.id \in {NoId, input.name}
                                    THEN "put" ELSE "delete",
                             createdAt |-> IF input.id = NoId THEN calls[1].call
                                           ELSE stored[input.id].createdAt]
              /\ UNCHANGED answers
         ELSE Answer(calls[1].call, "error") /\ UNCHANGED handler
  /\ UNCHANGED <<stored, tab, saving, deleting, deletes, counters>>

\* Mutant: the record of the old name is left.
SaveLeavesOld ==
  /\ handler.pc = "delete"
  /\ handler' = [handler EXCEPT !.pc = "put"]
  /\ UNCHANGED <<stored, tab, saving, deleting, answers, calls, deletes, counters>>

SaveDeletes ==
  /\ handler.pc = "delete"
  /\ stored' = [stored EXCEPT ![handler.input.id] = Absent]
  /\ handler' = [handler EXCEPT !.pc = "put"]
  /\ UNCHANGED <<tab, saving, deleting, answers, calls, deletes, counters>>

SavePuts ==
  /\ handler.pc = "put"
  /\ stored' = [stored EXCEPT ![handler.input.name] =
                  [version |-> handler.input.base.version + 1,
                   createdAt |-> handler.createdAt,
                   widgets |-> handler.input.widgets]]
  /\ handler' = NoCall
  /\ Answer(handler.call, handler.input.name)
  /\ UNCHANGED <<tab, saving, deleting, calls, deletes, counters>>

\* DeleteDashboard, on a subject of its own.  To delete what is gone is no error.
DeleteHandled(n) ==
  /\ n \in deletes
  /\ stored' = [stored EXCEPT ![n] = Absent]
  /\ deletes' = deletes \ {n}
  /\ answers' = [answers EXCEPT !.delete = TRUE]
  /\ UNCHANGED <<tab, saving, deleting, calls, handler, counters>>

-----------------------------------------------------------------------------
\* Others, and faults

Interfere == foreign < MaxForeign /\ foreign' = foreign + 1

\* Somebody else's save of the current version, between two saves of the tab.
OtherSaves(n) ==
  /\ handler = NoCall
  /\ Present(n)
  /\ Interfere
  /\ stored' = [stored EXCEPT ![n] =
                  [version |-> @.version + 1,
                   createdAt |-> @.createdAt,
                   widgets |-> [i \in DOMAIN @.widgets |->
                                  [@.widgets[i] EXCEPT !.mark = "foreign"]]]]
  /\ UNCHANGED <<tab, saving, deleting, answers, control, edits, mutations>>

OtherDeletes(n) ==
  /\ Present(n)
  /\ Interfere
  /\ stored' = [stored EXCEPT ![n] = Absent]
  /\ UNCHANGED <<tab, saving, deleting, answers, control, edits, mutations>>

\* The tab's save times out, though it is handled later.
SaveTimesOut ==
  /\ saving # 0 /\ answers.save = NoId
  /\ Interfere
  /\ answers' = [answers EXCEPT !.save = "error"]
  /\ UNCHANGED <<stored, tab, saving, deleting, control, edits, mutations>>

\* A statement of the handler fails, or the control plane restarts.
SaveBreaks ==
  /\ handler # NoCall
  /\ Interfere
  /\ handler' = NoCall
  /\ Answer(handler.call, "error")
  /\ UNCHANGED <<stored, tab, saving, deleting, calls, deletes, edits, mutations>>

-----------------------------------------------------------------------------
EditStep ==
  \/ \E kind \in Kinds : AddWidget(kind)
  \/ \E id \in ids : DuplicateWidget(id)
  \/ \E id \in ids : RemoveWidget(id)
  \/ \E id \in ids : UpdateWidget(id)
  \/ \E id \in ids, delta \in Deltas : MoveWidget(id, delta)
  \/ \E id \in ids, delta \in Deltas : ResizeWidget(id, delta)
  \/ \E n \in Names : Rename(n)

TabStep ==
  \/ \E n \in Names : OpenDashboard(n)
  \/ CreateDashboard
  \/ EnterEditMode
  \/ DuplicateDashboard
  \/ DiscardChanges
  \/ Save
  \/ SaveSucceeds
  \/ SaveFails
  \/ DeleteSelected
  \/ DeleteSucceeds
  \/ Refetch

Next ==
  \/ EditStep
  \/ TabStep
  \/ SaveReads
  \/ SaveDeletes
  \/ SavePuts
  \/ \E n \in Names : DeleteHandled(n)
  \/ \E n \in Names : OtherSaves(n)
  \/ \E n \in Names : OtherDeletes(n)
  \/ SaveTimesOut
  \/ SaveBreaks

Spec == Init /\ [][Next]_vars

-----------------------------------------------------------------------------
\* Properties

\* Whatever the edits, also with two widgets of one id, the widgets of the draft
\* and of every stored dashboard lie in the grid and do not overlap.
LayoutValid ==
  /\ ValidLayout(draft.widgets)
  /\ \A n \in Names : ValidLayout(stored[n].widgets)

\* A rename moves a dashboard and never copies it: no two names hold records of
\* one creation, whatever saves of older drafts come late and whatever is deleted
\* between the two statements of a rename.
RenameMoves ==
  \A m, n \in Names :
    Present(m) /\ Present(n) /\ stored[m].createdAt = stored[n].createdAt => m = n

LayoutOf(widgets, id) == FirstOf(widgets, {id}).layout

\* With distinct ids, a move loses no widget: it puts its own where the user
\* dropped it (inside the grid), and the others sink no further than they must: each into the first rows from its own
\* on that the moved widget and the ones before it in the list leave free.
MoveSettles ==
  [][\A id \in ids, delta \in Deltas :
       MoveWidget(id, delta) /\ UniqueIds(draft.widgets) =>
         LET after == draft'.widgets
             before == draft.widgets
             Free(i, y) ==
               \A j \in DOMAIN before :
                 before[j].id = id \/ (j < i /\ before[i].id # id) =>
                   ~Overlap([before[i].layout EXCEPT !.y = y], LayoutOf(after, before[j].id))
         IN  /\ Len(after) = Len(before)
             /\ \A i \in DOMAIN before : \E k \in DOMAIN after : after[k].id = before[i].id
             /\ LayoutOf(after, id) =
                Normalize([LayoutOf(before, id) EXCEPT !.x = @ + delta[1], !.y = @ + delta[2]])
             /\ \A i \in DOMAIN before :
                  before[i].id # id =>
                    LET y == LayoutOf(after, before[i].id).y
                    IN  /\ LayoutOf(after, before[i].id) = [before[i].layout EXCEPT !.y = y]
                        /\ y >= before[i].layout.y
                        /\ Free(i, y)
                        /\ \A above \in before[i].layout.y..(y - 1) : ~Free(i, above)]_vars

\* A save replaces only the content its draft was started from, in one life of a
\* dashboard: nobody's save in between, no save that was handled after it timed
\* out, and no answer that closed another draft, makes an older draft cover a
\* newer dashboard.  Across a delete and a new dashboard of the name it does:
\* the id is the same again and the version starts at 1 again.
NoLostUpdate ==
  [][LET n == handler.input.name
         base == handler.input.base
     IN  SavePuts /\ Present(n) /\ stored[n].createdAt = base.createdAt =>
           stored[n].widgets = base.widgets]_vars

\* The layout solver never drops a widget that is moved
\* (specs/05-frontend/dashboard-widgets.md: it must not discard the dragged
\* widget), nor any other.
MoveKeepsWidgets ==
  [][\A id \in ids, delta \in Deltas :
       MoveWidget(id, delta) => Len(draft'.widgets) = Len(draft.widgets)]_vars
=============================================================================
