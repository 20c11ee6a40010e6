----------------------------- MODULE TableCursor -----------------------------
(***************************************************************************)
(* The table of the entries screen (tui/screens/entries.py): its cursor,   *)
(* the marked column, hashtags inside a cell, the selected rows and the    *)
(* row "new entry" that comes and goes above the entries.  Cells are drawn *)
(* one by one where possible; what is drawn must be what the screen holds. *)
(*                                                                         *)
(* Entries are numbers; the table shows the larger first.  A row is a      *)
(* number from 0, a cell a pair <<row, column>>.                           *)
(***************************************************************************)
EXTENDS Integers, FiniteSets, FiniteSetsExt

CONSTANTS
    Entries,   \* positive integers
    TagCount,  \* entry -> number of its hashtags
    Levels,    \* widths of the terminal: subset of 0 .. 4
    PageStep,  \* _page_step
    Columns,   \* the columns it has, of 0 .. 5: date, money, left, right, item, memo
    NoCell, NoTag, NoAnchor

VARIABLE
    table      \* the fields of the screen and the cells that are drawn

money == 1
item == 4
memo == 5

NoEntry == 0

hidden_columns_for_level(l) ==
    (IF l >= 1 THEN {memo} ELSE {}) \cup (IF l >= 3 THEN {3} ELSE {}) \cup (IF l >= 4 THEN {2} ELSE {})

-------------------------------------------------------------------------------
(* Rows and entries *)

_first_entry_row(s) == IF s.sentinel THEN 1 ELSE 0

_last_entry_row(s) == IF s.rows = {} THEN 0 ELSE _first_entry_row(s) + Cardinality(s.rows) - 1

Height(s) == _first_entry_row(s) + Cardinality(s.rows)

\* Wrong variant: the row of the new entry is not counted.
_row_for_entry_index_bare(s, e) == Cardinality({x \in s.rows : x > e})

_row_for_entry_index(s, e) == _first_entry_row(s) + Cardinality({x \in s.rows : x > e})

\* The entry a row stands for; the first row may stand for none.
_entry_index_for_row(s, r) ==
    LET at == {e \in s.rows : _first_entry_row(s) + Cardinality({x \in s.rows : x > e}) = r}
    IN  IF at = {} THEN NoEntry ELSE CHOOSE e \in at : TRUE

EntryUnder(s) == _entry_index_for_row(s, s.cursor)

\* Hashtags are loaded for the rows of the last list only.
_current_row_tags(s) == IF EntryUnder(s) \in s.all THEN TagCount[EntryUnder(s)] ELSE 0

Clamped(s, r) == Max({0, Min({r, Height(s) - 1})})

\* DataTable.move_cursor; the message RowHighlighted is handled later.
move_cursor(s, r) ==
    [s EXCEPT !.cursor = Clamped(s, r), !.pending = @ \/ Clamped(s, r) # s.cursor]

-------------------------------------------------------------------------------
(* Drawing *)

\* The rows of selected entries.
SelectedOf(s, rows) == {r \in rows : _entry_index_for_row(s, r) \in s.selected}

\* The item cell of a selected entry begins with a tick.
Ticks(s, rows) == (s.ticked \ rows) \cup SelectedOf(s, rows)

\* The row of a selected entry is drawn in reverse.  A cell drawn by itself is
\* drawn plainly: its row, if in reverse, is so no longer from end to end.
DrawnPlainly(s, row) ==
    [s EXCEPT !.reversed = @ \ {row}, !.worn = @ \cup (s.reversed \cap {row})]

\* The marked cell is drawn plainly again.
Restored(s) ==
    IF s.marked = NoCell THEN s
    ELSE IF _entry_index_for_row(s, s.marked[1]) = NoEntry THEN [s EXCEPT !.marked = NoCell]
    ELSE [DrawnPlainly(s, s.marked[1]) EXCEPT
                   !.yellow = @ \ {s.marked},
                   !.ticked = IF s.marked[2] = item THEN Ticks(s, {s.marked[1]}) ELSE @,
                   !.marked = NoCell]

\* The marker goes to the cell of the cursor and the active column, which is
\* drawn in its color only.  A marked hashtag is drawn by another function,
\* which leaves out the tick.
_update_active_cell_marker(was) ==
    LET s == Restored(was)
        cell == <<s.cursor, s.col>>
    IN  IF ~s.active \/ EntryUnder(s) = NoEntry THEN s
        ELSE [DrawnPlainly(s, s.cursor) EXCEPT
                       !.marked = cell,
                       !.yellow = @ \cup {cell},
                       !.ticked = IF s.col # item THEN @
                                  ELSE IF s.tag # NoTag THEN @ \ {s.cursor}
                                  ELSE Ticks(s, {s.cursor})]

\* Where the cursor goes when the table is filled again: it keeps its row if
\* that still holds an entry.
KeptRow(s) ==
    IF s.rows # {} /\ s.cursor \in _first_entry_row(s) .. _last_entry_row(s) THEN s.cursor
    ELSE IF s.rows # {} THEN _first_entry_row(s) ELSE 0

\* Everything is drawn anew, with the cursor on the row of target_cursor, if any.
_render_table(was, rows, target_cursor) ==
    LET s == [was EXCEPT !.rows = rows, !.sentinel = @ \/ rows = {}, !.tag = NoTag,
                         !.marked = NoCell, !.yellow = {}, !.silent = FALSE, !.pending = TRUE]
        selected == SelectedOf(s, 0 .. Height(s) - 1)
        drawn == [s EXCEPT !.ticked = selected, !.reversed = selected, !.worn = {}]
        row == IF target_cursor = {} THEN KeptRow(s) ELSE Max(target_cursor)
    IN  _update_active_cell_marker([drawn EXCEPT !.cursor = Clamped(s, row)])

\* Only the rows that changed, and the one of the marker.
_refresh_selection_display(s, changed, cursor) ==
    LET paint == {_row_for_entry_index(s, e) : e \in changed}
                     \cup (IF s.marked = NoCell THEN {} ELSE {s.marked[1]})
        rows == {r \in paint : _entry_index_for_row(s, r) # NoEntry}
        painted == [s EXCEPT !.marked = NoCell,
                             !.yellow = {c \in @ : c[1] \notin rows},
                             !.ticked = Ticks(s, rows),
                             !.reversed = (@ \ rows) \cup SelectedOf(s, rows),
                             !.worn = @ \ rows]
    IN  _update_active_cell_marker(move_cursor(painted, cursor))

-------------------------------------------------------------------------------
(* Moving and selecting *)

Init ==
    \E l \in Levels :
        table = [rows |-> {}, all |-> {}, filtered |-> FALSE, expanding |-> FALSE,
                 sentinel |-> FALSE, cursor |-> 0, col |-> Min(Columns), active |-> FALSE, tag |-> NoTag,
                 selected |-> {}, anchor |-> NoAnchor, level |-> l,
                 marked |-> NoCell, yellow |-> {}, ticked |-> {},
                 reversed |-> {}, worn |-> {},
                 pending |-> FALSE, silent |-> FALSE]

action_row_up ==
    table' = IF table.rows # {} /\ ~table.sentinel /\ table.cursor = 0
             THEN _render_table([table EXCEPT !.sentinel = TRUE], table.rows, {0})
             ELSE move_cursor(table, table.cursor - 1)

action_row_down ==
    table' = IF table.sentinel /\ table.cursor = 0 /\ table.rows # {}
             THEN _render_table([table EXCEPT !.sentinel = FALSE], table.rows, {0})
             ELSE move_cursor(table, table.cursor + 1)

PageUp(s) == Max({_first_entry_row(s), s.cursor - PageStep})
PageDown(s) == Min({_last_entry_row(s), s.cursor + PageStep})

\* Home, End, PgUp, PgDn.
RowKey ==
    \E r \in {_first_entry_row(table), _last_entry_row(table), PageUp(table), PageDown(table)} :
        table' = move_cursor(table, r)

\* Everything between the anchor and the target is added.
_extend_selection_to(s, target) ==
    LET anchor == IF s.anchor = NoAnchor THEN s.cursor ELSE s.anchor
        range == {_entry_index_for_row(s, r) : r \in (anchor .. target) \cup (target .. anchor)} \ {NoEntry}
    IN  _refresh_selection_display([s EXCEPT !.anchor = anchor, !.selected = @ \cup range],
                                   range \ s.selected, target)

\* Shift with a key.
SelectKey ==
    \E r \in {Max({_first_entry_row(table), table.cursor - 1}),
              Min({_last_entry_row(table), table.cursor + 1}),
              _first_entry_row(table), _last_entry_row(table), PageUp(table), PageDown(table)} :
        table' = _extend_selection_to(table, r)

Toggled(set, e) == IF e \in set THEN set \ {e} ELSE set \cup {e}

\* A click moves the cursor; the table may keep the event from the screen.
on_click ==
    \E r \in 0 .. Height(table) - 1 :
        LET s == move_cursor(table, r)
            e == _entry_index_for_row(table, r)
        IN  \/ table' = s
            \/ table' = [s EXCEPT !.anchor = s.cursor]
            \/ /\ e # NoEntry
               /\ table' = _render_table([s EXCEPT !.selected = Toggled(@, e), !.anchor = r],
                                         s.rows, {r})
            \/ table' = _extend_selection_to(s, r)

action_toggle_selection ==
    LET e == EntryUnder(table)
    IN  /\ e # NoEntry
        /\ table' = _refresh_selection_display([table EXCEPT !.selected = Toggled(@, e)],
                                               {e}, table.cursor)

\* Without a selection the entry under the cursor is added, and nothing drawn.
action_batch_tag ==
    /\ table.selected = {} /\ EntryUnder(table) # NoEntry
    /\ table' = [table EXCEPT !.selected = {EntryUnder(table)}, !.silent = TRUE]

\* Tagged, or cleaned of duplicates: the list asked for next draws it.
SelectionUsed ==
    /\ table.selected # {}
    /\ table' = [table EXCEPT !.selected = {}, !.silent = TRUE]

-------------------------------------------------------------------------------
(* Columns *)

_next_visible_col(s, from, step) ==
    LET seen == {c \in Columns \ hidden_columns_for_level(s.level) :
                     IF step > 0 THEN c > from ELSE c < from}
    IN  IF seen = {} THEN from ELSE IF step > 0 THEN Min(seen) ELSE Max(seen)

MarkerAt(col, tag) ==
    table' = _update_active_cell_marker([table EXCEPT !.active = TRUE, !.col = col, !.tag = tag])

action_prev_column ==
    CASE ~table.active -> MarkerAt(table.col, table.tag)
      [] table.active /\ table.tag # NoTag ->
            MarkerAt(item, IF table.tag > 0 THEN table.tag - 1 ELSE NoTag)
      [] table.active /\ table.tag = NoTag ->
            IF table.col = memo /\ _current_row_tags(table) > 0
            THEN MarkerAt(item, _current_row_tags(table) - 1)
            ELSE MarkerAt(_next_visible_col(table, table.col, -1), NoTag)

action_next_column ==
    CASE ~table.active -> MarkerAt(table.col, table.tag)
      [] table.active /\ table.tag # NoTag ->
            IF table.tag + 1 < _current_row_tags(table) THEN MarkerAt(item, table.tag + 1)
            ELSE MarkerAt(_next_visible_col(table, item, 1), NoTag)
      [] table.active /\ table.tag = NoTag ->
            IF table.col = item /\ _current_row_tags(table) > 0 THEN MarkerAt(item, 0)
            ELSE MarkerAt(_next_visible_col(table, table.col, 1), NoTag)

\* Esc ends the marker, the filter and the selection at once.
action_deactivate_column ==
    LET s == IF table.active
             THEN _update_active_cell_marker([table EXCEPT !.active = FALSE, !.tag = NoTag])
             ELSE table
        cleared == [s EXCEPT !.filtered = FALSE, !.selected = {},
                             !.anchor = IF s.selected # {} THEN NoAnchor ELSE @]
    IN  /\ table.active \/ table.filtered \/ table.selected # {}
        /\ table' = IF s.filtered \/ s.selected # {}
                    THEN _render_table(cleared, IF s.filtered THEN s.all ELSE s.rows, {})
                    ELSE s

on_data_table_row_highlighted ==
    /\ table.pending
    /\ table' = _update_active_cell_marker([table EXCEPT !.pending = FALSE, !.tag = NoTag])

-------------------------------------------------------------------------------
(* New rows *)

\* What the cache and the worker look at: entries older than the list.
Past == {e \in Entries : \A x \in table.all : e < x}

\* Enter on a hashtag, or in a column other than money: what is alike, of the
\* list and of the past, stays.
action_context_enter ==
    /\ table.active /\ EntryUnder(table) # NoEntry
    /\ \/ /\ table.tag # NoTag /\ table.tag < _current_row_tags(table)
          /\ \E alike \in SUBSET table.all :
                /\ EntryUnder(table) \in alike
                /\ table' = _render_table([table EXCEPT !.filtered = TRUE], alike, {})
       \/ /\ table.tag = NoTag /\ table.col # money
          /\ \E alike \in SUBSET (table.all \cup Past) :
                table' = _render_table([table EXCEPT !.filtered = TRUE, !.expanding = TRUE],
                                       alike, {})

\* A step of the worker that searches the past, if it found more.
_expand_filter_in_past ==
    /\ table.expanding
    /\ \E found \in SUBSET (table.all \cup Past) :
          /\ found \cap Past # {}
          /\ table' = _render_table(table, found, {})

action_clear_filter ==
    /\ table.filtered
    /\ table' = _render_table([table EXCEPT !.filtered = FALSE, !.expanding = FALSE],
                              table.all, {})

\* The answer of the ledger; entries it lacks are no longer selected.
refresh_entries ==
    \E list \in SUBSET Entries :
        table' = _render_table([table EXCEPT !.all = list, !.expanding = FALSE,
                                             !.selected = @ \cap list],
                               list, {})

on_resize ==
    \E l \in Levels \ {table.level} :
        LET s == [table EXCEPT !.level = l]
        IN  table' = IF s.rows # {} \/ s.sentinel THEN _render_table(s, s.rows, {}) ELSE s

Next ==
    \/ action_row_up \/ action_row_down \/ RowKey \/ SelectKey \/ on_click
    \/ action_toggle_selection \/ action_batch_tag \/ SelectionUsed
    \/ action_prev_column \/ action_next_column \/ action_deactivate_column
    \/ on_data_table_row_highlighted
    \/ action_context_enter \/ _expand_filter_in_past \/ action_clear_filter
    \/ refresh_entries \/ on_resize

Spec == Init /\ [][Next]_table

-------------------------------------------------------------------------------
\* What is drawn is what the screen holds, although most keys draw a few cells
\* only: at most one cell is yellow, and once the move of the cursor was heard of it is the
\* active column under the cursor; a row has a tick exactly if its entry is
\* selected - but for a cell whose hashtag is marked, and after a batch until
\* the list comes; exactly those rows are in reverse, but for cells the marker
\* was in since (entries.py:1889-1967, 2405-2457, 3222-3240).
DrawnIsHeld ==
    /\ Cardinality(table.yellow) <= 1
    /\ ~table.pending =>
           table.yellow = IF table.active /\ EntryUnder(table) # NoEntry
                          THEN {<<table.cursor, table.col>>} ELSE {}
    /\ ~table.silent =>
           \A r \in 0 .. Height(table) - 1 :
               /\ r \in table.ticked <=>
                      /\ _entry_index_for_row(table, r) \in table.selected
                      /\ ~(table.tag # NoTag /\ table.marked = <<r, item>>)
               /\ r \in table.reversed \cup table.worn <=>
                      _entry_index_for_row(table, r) \in table.selected

\* What the comments say: the whole row of a selected entry is in reverse, and
\* drawing the marker anew breaks neither marker nor selection
\* (entries.py:2419-2422, 3230-3231).  The code does not: a selected row that
\* the marker has left has a plain cell.
SelectionIsShown ==
    ~table.silent =>
        \A r \in 0 .. Height(table) - 1 :
            /\ _entry_index_for_row(table, r) \in table.selected
            /\ table.marked = NoCell \/ table.marked[1] # r
            => r \in table.reversed
===============================================================================
