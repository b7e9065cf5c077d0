---------------------------- MODULE DashboardLayout ----------------------------
(***************************************************************************)
(* The layout solver of the dashboard builder                              *)
(* (apps/frontend/src/features/dashboards/dashboard-layout.ts): widgets    *)
(* on a grid of twelve columns, pushed down until none overlaps another.   *)
(*                                                                         *)
(* Coordinates are integers here; the code also truncates fractions and    *)
(* replaces what is not a number.                                          *)
(***************************************************************************)
EXTENDS Integers, Sequences, FiniteSets, FiniteSetsExt

Columns == 12     \* DASHBOARD_GRID_COLUMNS
MaxHeight == 12   \* MAX_WIDGET_HEIGHT

\* The default width, height and minimum of a kind of widget.
Size(w, h, minW, minH) == [w |-> w, h |-> h, minW |-> minW, minH |-> minH]
DefaultSize ==
  [metric_timeseries |-> Size(6, 4, 4, 3), metric_stat |-> Size(3, 2, 2, 2),
   metric_table |-> Size(6, 4, 4, 3), metric_rich |-> Size(8, 5, 5, 3),
   log_table |-> Size(6, 4, 4, 3), trace_table |-> Size(6, 4, 4, 3),
   live_trace_table |-> Size(6, 4, 4, 3), alert_status |-> Size(4, 3, 3, 2),
   alert_history |-> Size(6, 4, 4, 3), alert_evidence |-> Size(6, 3, 4, 2)]

Layouts == [x: Int, y: Int, w: Int, h: Int, minW: Int, minH: Int]

Larger(a, b) == IF a < b THEN b ELSE a
Smaller(a, b) == IF a < b THEN a ELSE b
Clamp(value, min, max) == Smaller(max, Larger(min, value))

\* normalizeDashboardLayout
Normalize(layout) ==
  LET minW == Clamp(layout.minW, 1, Columns)
      minH == Clamp(layout.minH, 1, MaxHeight)
      w == Clamp(layout.w, minW, Columns)
      h == Clamp(layout.h, minH, MaxHeight)
  IN  [x |-> Clamp(layout.x, 0, Columns - w), y |-> Larger(0, layout.y),
       w |-> w, h |-> h, minW |-> minW, minH |-> minH]

\* defaultDashboardWidgetLayout: slots beside each other, then the next row.
DefaultLayout(kind, slot) ==
  LET size == DefaultSize[kind]
      columnSlots == Larger(1, Columns \div size.w)
      slotIndex == Larger(0, slot - 1)
  IN  Normalize([x |-> (slotIndex % columnSlots) * size.w,
                 y |-> (slotIndex \div columnSlots) * size.h,
                 w |-> size.w, h |-> size.h, minW |-> size.minW, minH |-> size.minH])

\* layoutsOverlap, of layouts that are normalized
Overlap(left, right) ==
  /\ left.x < right.x + right.w
  /\ left.x + left.w > right.x
  /\ left.y < right.y + right.h
  /\ left.y + left.h > right.y

-----------------------------------------------------------------------------
\* Compaction.  A widget is a record with an id and a layout.

WithLayout(widget, layout) == [widget EXCEPT !.layout = Normalize(layout)]

\* Mutant: the widget is pushed below the first blocker only.
SettleOnce(widget, placed) ==
  LET blockers == {i \in DOMAIN placed : Overlap(widget.layout, placed[i].layout)}
      blocker == placed[Min(blockers)].layout
  IN  IF blockers = {} THEN widget
      ELSE [widget EXCEPT !.layout.y = blocker.y + blocker.h]

\* A widget goes below the first placed widget it overlaps, until it fits.
Settle(widget, placed) ==
  LET row[y \in Nat] ==
        LET blockers == {i \in DOMAIN placed :
                           Overlap([widget.layout EXCEPT !.y = y], placed[i].layout)}
            blocker == placed[Min(blockers)].layout
        IN  IF blockers = {} THEN y ELSE row[blocker.y + blocker.h]
  IN  [widget EXCEPT !.layout.y = row[widget.layout.y]]

\* Mutant: the priority widget keeps its place in the list.
Unordered(widgets, priority) == widgets

\* The first widget of these ids, and the widgets of other ids in their order.
FirstOf(widgets, some) ==
  widgets[Min({i \in DOMAIN widgets : widgets[i].id \in some})]
Without(widgets, some) ==
  LET rest == {i \in DOMAIN widgets : widgets[i].id \notin some}
      nth(n) == CHOOSE i \in rest : Cardinality({j \in rest : j <= i}) = n
  IN  [n \in 1..Cardinality(rest) |-> widgets[nth(n)]]

\* orderWidgetsForCompaction: the priority widget, then the widgets of other ids.
\* An empty set of priorities stands for a call without one.
Ordered(widgets, priority) ==
  IF \E i \in DOMAIN widgets : widgets[i].id \in priority
  THEN <<FirstOf(widgets, priority)>> \o Without(widgets, priority)
  ELSE widgets

\* sortIndexedWidgetsForSave.  The index decides nothing in a list without overlaps,
\* where no two widgets begin at one place.
SortForSave(widgets) ==
  LET Before(i, j) ==
        LET left == widgets[i].layout
            right == widgets[j].layout
        IN  \/ left.y < right.y
            \/ left.y = right.y /\ left.x < right.x
            \/ left.y = right.y /\ left.x = right.x /\ i <= j
      nth(n) == CHOOSE i \in DOMAIN widgets :
                  Cardinality({j \in DOMAIN widgets : Before(j, i)}) = n
  IN  [n \in DOMAIN widgets |-> widgets[nth(n)]]

\* The loop of compactDashboardLayout
Pack(ordered) ==
  LET placed[n \in 0..Len(ordered)] ==
        IF n = 0 THEN <<>>
        ELSE LET above == placed[n - 1]
             IN  Append(above, Settle(ordered[n], above))
  IN  placed[Len(ordered)]

\* compactDashboardLayout
Compact(widgets, priority) ==
  LET normalized == [i \in DOMAIN widgets |-> WithLayout(widgets[i], widgets[i].layout)]
  IN  SortForSave(Pack(Ordered(normalized, priority)))

\* moveDashboardWidget and resizeDashboardWidget: the layouts of the id change by
\* the given amounts, and its widget is placed first.
Change(widgets, id, by) ==
  LET Changed(layout) == [layout EXCEPT !.x = @ + by.x, !.y = @ + by.y,
                                        !.w = @ + by.w, !.h = @ + by.h]
  IN  IF \E i \in DOMAIN widgets : widgets[i].id = id
      THEN Compact([i \in DOMAIN widgets |->
                      IF widgets[i].id = id
                      THEN WithLayout(widgets[i], Changed(Normalize(widgets[i].layout)))
                      ELSE widgets[i]], {id})
      ELSE Compact(widgets, {})

Move(widgets, id, delta) ==
  Change(widgets, id, [x |-> delta[1], y |-> delta[2], w |-> 0, h |-> 0])
Resize(widgets, id, delta) ==
  Change(widgets, id, [x |-> 0, y |-> 0, w |-> delta[1], h |-> delta[2]])

-----------------------------------------------------------------------------
\* What a layout is checked against

\* dashboardWidgetsOverlap and the bounds of validateDashboardInput
InGrid(layout) ==
  /\ layout.x >= 0 /\ layout.y >= 0
  /\ layout.minW \in 1..layout.w
  /\ layout.minH \in 1..layout.h
  /\ layout.x + layout.w <= Columns
  /\ layout.h <= MaxHeight

Apart(widgets) ==
  \A i, j \in DOMAIN widgets :
    i # j => ~Overlap(widgets[i].layout, widgets[j].layout)

UniqueIds(widgets) ==
  \A i, j \in DOMAIN widgets : widgets[i].id = widgets[j].id => i = j

ValidLayout(widgets) ==
  /\ \A i \in DOMAIN widgets : InGrid(widgets[i].layout)
  /\ Apart(widgets)
=============================================================================
