------------------------------ MODULE SessionView ------------------------------
(***************************************************************************)
(* The statistics interface (src/ui): a table of the rows of the server's   *)
(* database, read again by a timer, with a filter for every column and a    *)
(* heading to sort by.  All of it runs on one event loop, a handler at a    *)
(* time; the server's process writes the database meanwhile, and a read it  *)
(* is refused is not noticed (SessionDao::update).                          *)
(*                                                                          *)
(* A text is a set of marks: it contains another when that is a subset, and *)
(* its width is the number of marks.  Texts, dates and numbers stand for    *)
(* four, four and two filters of one kind each; CONSTANTS choose which.     *)
(***************************************************************************)
EXTENDS Integers, FiniteSets, FiniteSetsExt

CONSTANTS
    TextFilters,    \* of {"user", "isActive", "srcEndpoint", "dstEndpoint"}
    DateFilters,    \* of {"createDate", "updateDate", "fromDate", "toDate"}
    BytesFilters,   \* of {"bytesSent", "bytesRecv"}
    Marks,          \* what texts are made of
    Epoch, LastDate,\* the first date of 1970, and the last one a user picks
    Half,           \* numbers from here on do not fit an int: 2^31 in the code
    MaxRows,        \* bound on the rows of the table
    MaxBytes        \* bound on the bytes of a row that still grows

ASSUME FiltersAssumption ==
    /\ TextFilters \subseteq {"user", "isActive", "srcEndpoint", "dstEndpoint"}
    /\ DateFilters \subseteq {"createDate", "updateDate", "fromDate", "toDate"}
    /\ BytesFilters \subseteq {"bytesSent", "bytesRecv"}
ASSUME MarksAssumption == IsFiniteSet(Marks)
ASSUME DatesAssumption == Epoch \in Nat \ {0, 1} /\ LastDate \in Nat /\ Epoch < LastDate
ASSUME NumbersAssumption == Half \in Nat \ {0, 1} /\ MaxRows \in Nat /\ MaxBytes \in Nat

VARIABLES
    db,         \* the table sessions: a record for each id
    data,       \* SessionDao::_data, the rows as they were read
    filter,     \* SortFilterSessionModel::_userFilter and the others
    field,      \* the text of each filter's field or button
    shown,      \* the rows the proxy model maps
    widths,     \* SessionModel::_columnWidths, 0 when not computed
    heading,    \* the width of each column's heading, which the cells take over
    arrow,      \* the state of each heading: "", "up" or "down"
    sorted,     \* the column and order the proxy model sorts by
    auto        \* is the timer's switch on?

dataVars == <<data, widths, heading>>
sortVars == <<arrow, sorted>>
vars == <<db, dataVars, filter, field, shown, sortVars, auto>>

Filters == TextFilters \cup DateFilters \cup BytesFilters
Columns == TextFilters \cup BytesFilters \cup (DateFilters \cap {"createDate", "updateDate"})
Texts == SUBSET Marks
Invalid == 0        \* QDate()
Dates == 1 .. LastDate
Header == 1         \* the width of a heading's own text

\* The numbers of the database and of the user, wider than an int; an empty field is sent
\* as -1.  A text that is no number is a value of its own.
Numbers == -Half .. 2 * Half
NoText == -1
NoNumber == -Half - 1

\* A wider number as an int, which wraps: QVariant(text).toInt() of a cell, the conversion
\* of a field's text to the property, sqlite3_column_int in the server.
ToInt(n) == ((n + Half) % (2 * Half)) - Half

\* filterAcceptsRow: one condition a filter, all of them needed.
Accepts(row, f, value) ==
    CASE f \in TextFilters -> value \subseteq row[f]
      [] f \in BytesFilters -> value = NoText \/ ToInt(row[f]) = value
      [] f \in {"createDate", "updateDate"} -> value = Invalid \/ row[f] = value
      [] f = "fromDate" -> value = Invalid \/ row["updateDate"] >= value
      [] f = "toDate" -> value = Invalid \/ row["updateDate"] <= value
AcceptedRows(rows, by) == {i \in DOMAIN rows : \A f \in Filters : Accepts(rows[i], f, by[f])}

NoFilter == [f \in Filters |-> CASE f \in TextFilters -> {} [] f \in DateFilters -> Invalid [] f \in BytesFilters -> NoText]

\* columnWidth: computed once over all rows that were read, shown or not, from the text in
\* the database, of which a minus is part.
CellWidth(value, c) ==
    CASE c \in TextFilters -> Cardinality(value)
      [] c \in BytesFilters -> IF value < 0 THEN 1 - value ELSE value
      [] OTHER -> 1
ComputedWidth(rows, c) == Max({Header} \cup {CellWidth(rows[i][c], c) : i \in DOMAIN rows}) + 1
ColumnWidth(rows, cache, c) == IF cache[c] = 0 THEN ComputedWidth(rows, c) ELSE cache[c]

\* The headings ask for their widths, which stay in the cache.
Layout(rows, cache) ==
    /\ widths' = [c \in Columns |-> ColumnWidth(rows, cache, c)]
    /\ heading' = [c \in Columns |-> ColumnWidth(rows, cache, c)]

NoWidths == [c \in Columns |-> 0]

\* The constructors: a first read, which may be refused, and the first layout.
Init ==
    /\ db = <<>> /\ data = <<>>
    /\ filter = NoFilter /\ field = NoFilter /\ shown = {}
    /\ widths = [c \in Columns |-> ComputedWidth(<<>>, c)] /\ heading = widths
    /\ arrow = [c \in Columns |-> ""] /\ sorted = <<"none", "up">> /\ auto = TRUE
--------------------------------------------------------------------------------
(* The timer.  update() empties the rows and the widths and reads; the proxy *)
(* maps again; the handler's change of the window's width lays out again.    *)

Reset(rows, cache) ==
    /\ auto /\ data' = rows /\ Layout(rows, cache) /\ shown' = AcceptedRows(rows, filter)
    /\ UNCHANGED <<db, filter, field, sortVars, auto>>

\* Seeded bug: the widths are not emptied.
ReadsKeepWidths(rows) == Reset(rows, widths)

Reads(rows) == Reset(rows, NoWidths)

UpdateSucceeds == Reads(db)
UpdateRefused == Reads(<<>>)
Update == UpdateSucceeds \/ UpdateRefused

\* The switch of the timer.
SwitchTimer == auto' = ~auto /\ UNCHANGED <<db, dataVars, filter, field, shown, sortVars>>

\* The user changes the window's width: no width is computed twice.
Resize == Layout(data, widths) /\ UNCHANGED <<db, data, filter, field, shown, sortVars, auto>>
--------------------------------------------------------------------------------
(* The filters' fields and their setters. *)

Assigned(values) == [f \in Filters |-> IF f \in DOMAIN values THEN values[f] ELSE filter[f]]

\* Seeded bug: the setter does not call invalidateFilter.
SetFilterStale(values) ==
    filter' = Assigned(values) /\ UNCHANGED shown

\* The setters: a value that is already set changes nothing, else the rows are mapped again.
SetFilter(values) ==
    /\ filter' = Assigned(values)
    /\ shown' = IF filter' = filter THEN shown ELSE AcceptedRows(data, filter')

Types(f, text) == field' = [field EXCEPT ![f] = text] /\ UNCHANGED <<db, dataVars, sortVars, auto>>

EditText(f, text) == Types(f, text) /\ SetFilter([g \in {f} |-> text])

\* Seeded bug: every date is taken.
SetDateAny(date) == date

\* A day is picked: the button shows it, the setter drops one before 1970.
SetDate(date) == IF date < Epoch THEN Invalid ELSE date
PickDate(f, date) == Types(f, date) /\ SetFilter([g \in {f} |-> SetDate(date)])

\* new Date(0,0,0) is a day of 1899, the first of Dates.
ClearDate(f) == Types(f, Invalid) /\ SetFilter([g \in {f} |-> SetDate(1)])

\* The text is converted on its way to the property; one that is no number is an error
\* and sets nothing.
EditBytes(f, text) ==
    /\ Types(f, text)
    /\ IF text = NoNumber THEN UNCHANGED <<filter, shown>>
                          ELSE SetFilter([g \in {f} |-> ToInt(text)])

\* "Reset filters": every field is emptied and every filter set by hand.
ResetFilters ==
    /\ field' = NoFilter /\ SetFilter(NoFilter)
    /\ UNCHANGED <<db, dataVars, sortVars, auto>>
--------------------------------------------------------------------------------
(* The headings. *)

\* initialSortOrder: texts upwards, all else downwards.
InitialSortOrder(c) == IF c \in {"user", "srcEndpoint", "dstEndpoint"} THEN "up" ELSE "down"
NextState(c) == IF arrow[c] = "" THEN InitialSortOrder(c) ELSE IF arrow[c] = "up" THEN "down" ELSE "up"

\* A tap: the next state, stopSorting() for the others, sort().
Tap(c) ==
    /\ arrow' = [d \in Columns |-> IF d = c THEN NextState(c) ELSE ""]
    /\ sorted' = <<c, NextState(c)>>
    /\ UNCHANGED <<db, dataVars, filter, field, shown, auto>>
--------------------------------------------------------------------------------
(* The server's process: a row is added, or a transfer recorded. *)

NewRow(text) == [c \in Columns \cup {"updateDate"} |->
    CASE c \in TextFilters -> text [] c \in BytesFilters -> 0 [] OTHER -> Epoch]

ServerAdds(text) ==
    /\ Cardinality(DOMAIN db) < MaxRows
    /\ db' = [i \in DOMAIN db \cup {Cardinality(DOMAIN db) + 1} |-> IF i \in DOMAIN db THEN db[i] ELSE NewRow(text)]
    /\ UNCHANGED <<dataVars, filter, field, shown, sortVars, auto>>

\* DatabaseService::update reads an int and writes a wider number.
ServerRecords(i, f, date) ==
    /\ db[i][f] < MaxBytes /\ date >= db[i]["updateDate"]
    /\ db' = [db EXCEPT ![i][f] = ToInt(@) + 1, ![i]["updateDate"] = date]
    /\ UNCHANGED <<dataVars, filter, field, shown, sortVars, auto>>

Next ==
    \/ Update \/ SwitchTimer \/ Resize \/ ResetFilters
    \/ \E f \in TextFilters, text \in Texts : EditText(f, text)
    \/ \E f \in DateFilters : ClearDate(f) \/ \E date \in Dates : PickDate(f, date)
    \/ \E f \in BytesFilters, text \in {NoNumber} \cup Numbers : EditBytes(f, text)
    \/ \E c \in Columns : Tap(c)
    \/ \E text \in Texts : ServerAdds(text)
    \/ \E i \in DOMAIN db, f \in BytesFilters, date \in Epoch .. LastDate : ServerRecords(i, f, date)

Spec == Init /\ [][Next]_vars
--------------------------------------------------------------------------------
(* Properties. *)

Fields == [f \in Filters |->
    CASE f \in TextFilters -> Texts [] f \in DateFilters -> {Invalid} \cup Dates
      [] f \in BytesFilters -> {NoNumber} \cup Numbers]

\* Type invariant; no filter is a date before 1970 and no row is shown that was not read.
TypeOK ==
    /\ \A f \in Filters : field[f] \in Fields[f]
    /\ \A f \in Filters : filter[f] \in
        (IF f \in DateFilters THEN {Invalid} \cup Epoch .. LastDate
         ELSE IF f \in TextFilters THEN Texts ELSE -Half .. Half - 1)
    /\ DOMAIN data \subseteq DOMAIN db /\ shown \subseteq DOMAIN data
    /\ arrow \in [Columns -> {"", "up", "down"}]
    /\ sorted \in (Columns \cup {"none"}) \X {"up", "down"} /\ auto \in BOOLEAN

\* Two numbers the interface cannot tell apart: they differ by a multiple of 2^32.
SameInt(m, n) == (m - n) % (2 * Half) = 0

\* The rows shown are those the fields on the screen ask for: a text they contain, the
\* day or period picked, the number typed, up to multiples of 2^32.  A day before 1970
\* asks for nothing, nor does an empty number, -1 or 2^32-1; and a text that is no number
\* leaves the last one in force.  With every field empty, after a reset or by hand, no
\* filter stays on unseen.
ShownAsAsked ==
    shown = {i \in DOMAIN data :
        /\ \A f \in TextFilters : field[f] \subseteq data[i][f]
        /\ \A f \in DateFilters : field[f] >= Epoch =>
            CASE f = "fromDate" -> data[i]["updateDate"] >= field[f]
              [] f = "toDate" -> data[i]["updateDate"] <= field[f]
              [] OTHER -> data[i][f] = field[f]
        /\ \A f \in BytesFilters :
            field[f] # NoNumber /\ ~SameInt(field[f], NoText) => SameInt(data[i][f], field[f])
        /\ \A f \in BytesFilters : field[f] = NoNumber => Accepts(data[i], f, filter[f])}

\* Exactly the heading of the column the table is sorted by has an arrow, and it points
\* the way the rows go.
ArrowTellsOrder ==
    \A c \in Columns : arrow[c] = IF sorted[1] = c THEN sorted[2] ELSE ""

\* Every text that was read fits its column, though widths are kept from layout to layout.
CellsFit == \A i \in DOMAIN data, c \in Columns : CellWidth(data[i][c], c) < heading[c]

\* The headings tell the order of the rows and make room for their cells.
HeadingsFit == ArrowTellsOrder /\ CellsFit
================================================================================
