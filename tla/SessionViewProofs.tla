--------------------------- MODULE SessionViewProofs ---------------------------
(***************************************************************************)
(* Proofs about SessionView, for any choice of filters, dates and bounds.   *)
(***************************************************************************)
EXTENDS SessionView, FiniteSetTheorems, WellFoundedInduction, TLAPS

\* A row's texts, numbers and dates, and a table of them.
RowOK(row) ==
    /\ DOMAIN row = Columns \cup {"updateDate"}
    /\ \A c \in TextFilters : row[c] \in Texts
    /\ \A c \in BytesFilters : row[c] \in Numbers
    /\ \A c \in (Columns \cup {"updateDate"}) \ (TextFilters \cup BytesFilters) : row[c] \in Nat
Tables ==
    /\ \A i \in DOMAIN db : RowOK(db[i])
    /\ \A i \in DOMAIN data : RowOK(data[i])

\* Each filter is what its setter makes of the text of its field.
FilterOf(f) ==
    IF f \in TextFilters THEN filter[f] = field[f]
    ELSE IF f \in DateFilters THEN filter[f] = SetDate(field[f])
    ELSE field[f] # NoNumber => filter[f] = ToInt(field[f])
FiltersSet ==
    /\ DOMAIN field = Filters /\ DOMAIN filter = Filters
    /\ \A f \in Filters : FilterOf(f)

\* The rows shown are those the filters in force accept.
ShownByFilters == shown = AcceptedRows(data, filter)

\* The widths in the cache are those of the rows that are there.
WidthsComputed ==
    /\ widths = [c \in Columns |-> ComputedWidth(data, c)]
    /\ heading = widths

IndInv == TypeOK /\ Tables /\ FiltersSet /\ ShownByFilters /\ WidthsComputed /\ ArrowTellsOrder
--------------------------------------------------------------------------------
(* The greatest element of a set of numbers. *)

\* A set of natural numbers has a least element.
LEMMA LeastNumber ==
    ASSUME NEW T, T \subseteq Nat, T # {}
    PROVE  \E x \in T : \A y \in T : x <= y
<1>1. IsWellFoundedOn(OpToRel(<, Nat), Nat)
  BY NatLessThanWellFounded, Zenon
<1>2. PICK x \in T : \A y \in T : ~(<<y, x>> \in OpToRel(<, Nat))
  BY <1>1, WFMin, Zenon
<1>3. ASSUME NEW y \in T PROVE ~(y < x)
  BY <1>2 DEF OpToRel
<1>4. ASSUME NEW y \in T PROVE x <= y
  BY <1>3, <1>4
<1>. QED
  BY <1>4

\* A set of integers with a bound has a greatest element.
LEMMA GreatestNumber ==
    ASSUME NEW T, T \subseteq Int, T # {}, NEW b \in Int, \A y \in T : y <= b
    PROVE  \E x \in T : \A y \in T : x >= y
<1>. DEFINE D == {b - y : y \in T}
<1>1. \A y \in T : b - y \in Nat
  OBVIOUS
<1>2. D \subseteq Nat /\ D # {}
  BY <1>1
<1>3. PICK d \in D : \A e \in D : d <= e
  <2>. HIDE DEF D
  <2>. QED
    BY <1>2, LeastNumber
<1>4. PICK x \in T : d = b - x
  OBVIOUS
<1>5. ASSUME NEW y \in T PROVE x >= y
  <2>1. b - y \in D
    OBVIOUS
  <2>2. d <= b - y
    BY <1>3, <2>1
  <2>. QED
    BY <1>4, <2>2
<1>. QED
  BY <1>5

\* Max gives it.
LEMMA MaxIsGreatest ==
    ASSUME NEW T, T \subseteq Int, T # {}, NEW b \in Int, \A y \in T : y <= b
    PROVE  Max(T) \in T /\ \A z \in T : Max(T) >= z
  BY GreatestNumber DEF Max

--------------------------------------------------------------------------------
(* Numbers that wrap. *)

\* Division with remainder.
LEMMA Remainder ==
    ASSUME NEW a \in Int, NEW M \in Int, M > 0
    PROVE  /\ a % M \in 0 .. M - 1 /\ a \div M \in Int
           /\ a = M * (a \div M) + (a % M)
<1>1. a % M \in 0 .. M - 1
  OBVIOUS
<1>2. a \div M \in Int
  OBVIOUS
<1>3. a = M * (a \div M) + (a % M)
  OBVIOUS
<1>. QED
  BY <1>1, <1>2, <1>3

\* A multiple of M that is nearer to 0 than M is 0.
LEMMA SmallMultiple ==
    ASSUME NEW M \in Int, M > 0, NEW q \in Int, NEW r \in Int, r < M, -M < r, M * q = r
    PROVE  q = 0 /\ r = 0
<1>1. CASE q >= 1
  <2>1. M * q >= M
    BY <1>1
  <2>. QED
    BY <2>1
<1>2. CASE q <= -1
  <2>1. M * q <= -M
    BY <1>2
  <2>. QED
    BY <2>1
<1>. QED
  BY <1>1, <1>2

\* There is one remainder.
LEMMA OneRemainder ==
    ASSUME NEW a \in Int, NEW M \in Int, M > 0, NEW q \in Int, NEW r \in 0 .. M - 1, a = M * q + r
    PROVE  a % M = r
<1>. DEFINE p == a \div M
            s == a % M
<1>1. p \in Int /\ s \in 0 .. M - 1 /\ a = M * p + s
  BY Remainder
<1>. HIDE DEF p, s
<1>2. M * (p - q) = r - s
  <2>1. M * (p - q) = M * p - M * q
    BY <1>1
  <2>. QED
    BY <1>1, <2>1
<1>3. r - s = 0
  <2>1. p - q \in Int /\ r - s \in Int /\ r - s < M /\ -M < r - s
    BY <1>1
  <2>. QED
    BY <1>2, <2>1, SmallMultiple
<1>4. s = r
  BY <1>1, <1>3
<1>. QED
  BY <1>4 DEF s

\* Two numbers have the same remainder when they differ by a multiple.
LEMMA SameRemainder ==
    ASSUME NEW a \in Int, NEW b \in Int, NEW M \in Int, M > 0
    PROVE  a % M = b % M <=> (a - b) % M = 0
<1>. DEFINE p == a \div M
            r == a % M
            q == b \div M
            s == b % M
<1>1. p \in Int /\ r \in 0 .. M - 1 /\ a = M * p + r
  BY Remainder
<1>2. q \in Int /\ s \in 0 .. M - 1 /\ b = M * q + s
  BY Remainder
<1>. HIDE DEF p, q, r, s
<1>3. M * (p - q) = M * p - M * q
  BY <1>1, <1>2
<1>4. a - b = M * (p - q) + (r - s)
  BY <1>1, <1>2, <1>3
<1>5. CASE r = s
  <2>1. a - b = M * (p - q) + 0
    BY <1>1, <1>2, <1>4, <1>5
  <2>2. (a - b) % M = 0
    BY <1>1, <1>2, <2>1, OneRemainder
  <2>. QED
    BY <1>5, <2>2 DEF r, s
<1>6. CASE (a - b) % M = 0
  <2>. DEFINE d == (a - b) \div M
  <2>1. d \in Int /\ a - b = M * d
    BY <1>6, Remainder
  <2>. HIDE DEF d
  <2>2. M * (d - (p - q)) = r - s
    <3>1. M * (d - (p - q)) = M * d - M * (p - q)
      BY <1>1, <1>2, <2>1
    <3>. QED
      BY <1>1, <1>2, <1>4, <2>1, <3>1
  <2>3. r - s = 0
    BY <1>1, <1>2, <2>1, <2>2, SmallMultiple
  <2>4. r = s
    BY <1>1, <1>2, <2>3
  <2>. QED
    BY <1>6, <2>4 DEF r, s
<1>. QED
  BY <1>5, <1>6 DEF r, s

\* What becomes of a number is an int.
LEMMA IntTyped ==
    ASSUME NEW n \in Int
    PROVE  ToInt(n) \in -Half .. Half - 1
<1>. DEFINE M == 2 * Half
<1>1. M \in Int /\ M > 0 /\ n + Half \in Int
  BY NumbersAssumption
<1>2. (n + Half) % M \in 0 .. M - 1
  <2>. HIDE DEF M
  <2>. QED
    BY <1>1, Remainder
<1>. QED
  BY <1>2, NumbersAssumption DEF ToInt

\* A small number stays what it is.
LEMMA IntKept ==
    ASSUME NEW n \in -Half .. Half - 1
    PROVE  ToInt(n) = n
<1>. DEFINE M == 2 * Half
<1>1. M \in Int /\ M > 0 /\ n \in Int /\ n + Half \in Int /\ n + Half \in 0 .. M - 1 /\ 0 \in Int
  BY NumbersAssumption
<1>2. n + Half = M * 0 + (n + Half)
  BY <1>1
<1>3. (n + Half) % M = n + Half
  <2>. HIDE DEF M
  <2>. QED
    BY <1>1, <1>2, OneRemainder
<1>. QED
  BY <1>1, <1>3, NumbersAssumption DEF ToInt

\* Two numbers become the same int when the interface cannot tell them apart.
LEMMA IntsAgree ==
    ASSUME NEW m \in Int, NEW n \in Int
    PROVE  ToInt(m) = ToInt(n) <=> SameInt(m, n)
<1>. DEFINE M == 2 * Half
            a == m + Half
            b == n + Half
<1>1. M \in Int /\ M > 0 /\ a \in Int /\ b \in Int /\ a - b = m - n
  BY NumbersAssumption
<1>2. a % M = b % M <=> (a - b) % M = 0
  <2>. HIDE DEF M, a, b
  <2>. QED
    BY <1>1, SameRemainder
<1>3. a % M \in Int /\ b % M \in Int
  <2>. HIDE DEF M, a, b
  <2>. QED
    BY <1>1, Remainder
<1>4. ToInt(m) = (a % M) - Half /\ ToInt(n) = (b % M) - Half
  BY DEF ToInt
<1>5. ToInt(m) = ToInt(n) <=> a % M = b % M
  <2>. HIDE DEF M, a, b
  <2>. QED
    BY <1>3, <1>4, NumbersAssumption
<1>6. SameInt(m, n) <=> (a - b) % M = 0
  BY <1>1 DEF SameInt
<1>. QED
  BY <1>2, <1>5, <1>6

\* An empty field is a number that fits.
LEMMA EmptyTyped == NoText \in Numbers /\ NoText \in -Half .. Half - 1 /\ ToInt(NoText) = NoText
<1>1. NoText \in Numbers /\ NoText \in -Half .. Half - 1
  BY NumbersAssumption DEF NoText, Numbers
<1>. QED
  BY <1>1, IntKept
--------------------------------------------------------------------------------
(* The filters and the columns. *)

\* A filter is of one kind, and "none" is no column.
LEMMA Kinds ==
    /\ TextFilters \cap DateFilters = {} /\ TextFilters \cap BytesFilters = {}
    /\ DateFilters \cap BytesFilters = {}
    /\ "none" \notin Columns /\ "updateDate" \notin TextFilters \cup BytesFilters
    /\ Columns \subseteq Filters
  BY FiltersAssumption DEF Columns, Filters

\* SetDate gives no date, or one from the epoch on that can be picked.
LEMMA DateSet ==
    ASSUME NEW date \in {Invalid} \cup Dates
    PROVE  /\ SetDate(date) \in {Invalid} \cup Epoch .. LastDate
           /\ SetDate(date) = IF date >= Epoch THEN date ELSE Invalid
           /\ date >= Epoch => SetDate(date) # Invalid
  BY DatesAssumption DEF SetDate, Dates, Invalid

\* The empty filters and fields have their types and agree.
LEMMA NoFilterTyped ==
    /\ DOMAIN NoFilter = Filters
    /\ \A f \in TextFilters : NoFilter[f] = {} /\ f \in Filters
    /\ \A f \in DateFilters : NoFilter[f] = Invalid /\ f \in Filters
    /\ \A f \in BytesFilters : NoFilter[f] = NoText /\ f \in Filters
  BY Kinds DEF NoFilter, Filters

--------------------------------------------------------------------------------
(* The fields and the filters. *)

\* What TypeOK says of them.
FieldTyped(f) == field[f] \in Fields[f]
FilterTyped(f) ==
    filter[f] \in (IF f \in DateFilters THEN {Invalid} \cup Epoch .. LastDate
                   ELSE IF f \in TextFilters THEN Texts ELSE -Half .. Half - 1)
FieldsOK == FiltersSet /\ \A f \in Filters : FieldTyped(f) /\ FilterTyped(f)

\* A field's values by its kind.
LEMMA FieldKinds ==
    /\ \A f \in TextFilters : Fields[f] = Texts
    /\ \A f \in DateFilters : Fields[f] = {Invalid} \cup Dates
    /\ \A f \in BytesFilters : Fields[f] = {NoNumber} \cup Numbers
  BY Kinds DEF Fields, Filters

\* A field that is edited and its filter, set to what the setter makes of it.
LEMMA OneFieldSet ==
    ASSUME FieldsOK, NEW f \in Filters, NEW text, NEW value,
           field' = [field EXCEPT ![f] = text], filter' = Assigned([g \in {f} |-> value]),
           FieldTyped(f)', FilterTyped(f)', FilterOf(f)'
    PROVE  FieldsOK'
<1>1. DOMAIN field' = Filters /\ DOMAIN filter' = Filters
  BY DEF FieldsOK, FiltersSet, Assigned
<1>2. ASSUME NEW g \in Filters, g # f PROVE field'[g] = field[g] /\ filter'[g] = filter[g]
  BY <1>2 DEF FieldsOK, FiltersSet, Assigned
<1>3. ASSUME NEW g \in Filters PROVE FieldTyped(g)' /\ FilterTyped(g)' /\ FilterOf(g)'
  <2>1. CASE g # f
    BY <1>2, <2>1 DEF FieldsOK, FiltersSet, FieldTyped, FilterTyped, FilterOf
  <2>. QED
    BY <2>1
<1>. QED
  BY <1>1, <1>3 DEF FieldsOK, FiltersSet

\* Every step keeps the fields and the filters together.
LEMMA NextFields ==
    ASSUME FieldsOK, Next
    PROVE  FieldsOK'
<1>1. ASSUME UNCHANGED <<field, filter>>
      PROVE  FieldsOK'
  BY <1>1 DEF FieldsOK, FiltersSet, FieldTyped, FilterTyped, FilterOf
<1>2. ASSUME NEW f \in TextFilters, NEW text \in Texts, EditText(f, text)
      PROVE  FieldsOK'
  <2>1. f \in Filters /\ f \notin DateFilters
    BY Kinds DEF Filters
  <2>2. field' = [field EXCEPT ![f] = text] /\ filter' = Assigned([g \in {f} |-> text])
    BY <1>2 DEF EditText, Types, SetFilter
  <2>3. field'[f] = text /\ filter'[f] = text
    BY <2>1, <2>2 DEF FieldsOK, FiltersSet, Assigned
  <2>4. FieldTyped(f)' /\ FilterTyped(f)' /\ FilterOf(f)'
    BY <2>1, <2>3, FieldKinds DEF FieldTyped, FilterTyped, FilterOf
  <2>. QED
    BY <2>1, <2>2, <2>4, OneFieldSet
<1>3. ASSUME NEW f \in DateFilters, NEW date \in {Invalid} \cup Dates, NEW value,
             value = SetDate(date), Types(f, date), SetFilter([g \in {f} |-> value])
      PROVE  FieldsOK'
  <2>1. f \in Filters /\ f \notin TextFilters
    BY Kinds DEF Filters
  <2>2. field' = [field EXCEPT ![f] = date] /\ filter' = Assigned([g \in {f} |-> value])
    BY <1>3 DEF Types, SetFilter
  <2>3. field'[f] = date /\ filter'[f] = SetDate(date)
    BY <1>3, <2>1, <2>2 DEF FieldsOK, FiltersSet, Assigned
  <2>4. FieldTyped(f)' /\ FilterTyped(f)' /\ FilterOf(f)'
    BY <2>1, <2>3, FieldKinds, DateSet DEF FieldTyped, FilterTyped, FilterOf, SetDate
  <2>. QED
    BY <2>1, <2>2, <2>4, OneFieldSet
<1>4. ASSUME NEW f \in DateFilters, ClearDate(f)
      PROVE  FieldsOK'
  <2>1. SetDate(1) = SetDate(Invalid)
    BY DatesAssumption DEF SetDate, Invalid
  <2>. QED
    BY <1>3, <1>4, <2>1 DEF ClearDate
<1>5. ASSUME NEW f \in DateFilters, NEW date \in Dates, PickDate(f, date)
      PROVE  FieldsOK'
  BY <1>3, <1>5 DEF PickDate
<1>6. ASSUME NEW f \in BytesFilters, NEW text \in {NoNumber} \cup Numbers, EditBytes(f, text)
      PROVE  FieldsOK'
  <2>1. f \in Filters /\ f \notin TextFilters /\ f \notin DateFilters
    BY Kinds DEF Filters
  <2>2. field' = [field EXCEPT ![f] = text] /\ field'[f] = text
    BY <1>6, <2>1 DEF EditBytes, Types, FieldsOK, FiltersSet
  <2>3. FieldTyped(f)'
    BY <2>2, FieldKinds DEF FieldTyped
  <2>4. CASE text = NoNumber
    <3>1. filter' = filter
      BY <1>6, <2>4 DEF EditBytes
    <3>2. FilterTyped(f)'
      BY <2>1, <3>1 DEF FieldsOK, FilterTyped
    <3>3. FilterOf(f)'
      BY <2>1, <2>2, <2>4 DEF FilterOf
    <3>4. ASSUME NEW g \in Filters PROVE FieldTyped(g)' /\ FilterTyped(g)' /\ FilterOf(g)'
      <4>1. CASE g # f
        BY <2>2, <3>1, <4>1 DEF FieldsOK, FiltersSet, FieldTyped, FilterTyped, FilterOf
      <4>. QED
        BY <2>3, <3>2, <3>3, <4>1
    <3>. QED
      BY <2>2, <3>1, <3>4 DEF FieldsOK, FiltersSet
  <2>5. CASE text # NoNumber
    <3>. DEFINE value == ToInt(text)
    <3>1. filter' = Assigned([g \in {f} |-> value])
      BY <1>6, <2>5 DEF EditBytes, SetFilter
    <3>2. filter'[f] = value
      BY <2>1, <3>1 DEF Assigned
    <3>3. value \in -Half .. Half - 1
      BY <2>5, IntTyped, NumbersAssumption DEF Numbers
    <3>4. FilterTyped(f)' /\ FilterOf(f)'
      BY <2>1, <2>2, <3>2, <3>3 DEF FilterTyped, FilterOf
    <3>. HIDE DEF value
    <3>. QED
      BY <2>1, <2>2, <2>3, <3>1, <3>4, OneFieldSet
  <2>. QED
    BY <2>4, <2>5
<1>7. ASSUME ResetFilters
      PROVE  FieldsOK'
  <2>1. field' = NoFilter /\ \A f \in Filters : filter'[f] = NoFilter[f]
    BY <1>7, NoFilterTyped DEF ResetFilters, SetFilter, Assigned
  <2>2. DOMAIN filter' = Filters
    BY <1>7 DEF ResetFilters, SetFilter, Assigned
  <2>3. ASSUME NEW f \in Filters PROVE FieldTyped(f)' /\ FilterTyped(f)' /\ FilterOf(f)'
    <3>1. CASE f \in TextFilters
      BY <2>1, <3>1, Kinds, NoFilterTyped, FieldKinds DEF FieldTyped, FilterTyped, FilterOf, Texts
    <3>2. CASE f \in DateFilters
      BY <2>1, <3>2, Kinds, NoFilterTyped, FieldKinds, DateSet DEF FieldTyped, FilterTyped, FilterOf, SetDate
    <3>3. CASE f \in BytesFilters
      BY <2>1, <3>3, Kinds, NoFilterTyped, FieldKinds, EmptyTyped
         DEF FieldTyped, FilterTyped, FilterOf
    <3>. QED
      BY <3>1, <3>2, <3>3 DEF Filters
  <2>. QED
    BY <2>1, <2>2, <2>3, NoFilterTyped DEF FieldsOK, FiltersSet
<1>8. ASSUME Update \/ SwitchTimer \/ Resize \/ \E c \in Columns : Tap(c)
      PROVE  FieldsOK'
  BY <1>1, <1>8 DEF Update, UpdateSucceeds, UpdateRefused, Reads, Reset, SwitchTimer, Resize, Tap
<1>9. ASSUME \/ \E text \in Texts : ServerAdds(text)
             \/ \E i \in DOMAIN db, f \in BytesFilters, date \in Epoch .. LastDate : ServerRecords(i, f, date)
      PROVE  FieldsOK'
  BY <1>1, <1>9 DEF ServerAdds, ServerRecords
<1>. QED
  BY <1>2, <1>4, <1>5, <1>6, <1>7, <1>8, <1>9 DEF Next
--------------------------------------------------------------------------------
(* The tables. *)

\* The rows the server adds have their types.
LEMMA NewRowOK ==
    ASSUME NEW text \in Texts
    PROVE  RowOK(NewRow(text))
  BY Kinds, NumbersAssumption, DatesAssumption DEF RowOK, NewRow, Columns, Numbers

\* The parts of the invariant about the tables, with what TypeOK says of them.
TablesOK == Tables /\ DOMAIN data \subseteq DOMAIN db

\* Every step keeps the tables; a read gives what the database holds, or nothing.
LEMMA NextTables ==
    ASSUME TablesOK, Next
    PROVE  TablesOK'
<1>1. ASSUME Update
      PROVE  TablesOK'
  <2>1. db' = db /\ (data' = db \/ data' = <<>>)
    BY <1>1 DEF Update, UpdateSucceeds, UpdateRefused, Reads, Reset
  <2>2. DOMAIN <<>> = {}
    OBVIOUS
  <2>3. CASE data' = db
    BY <2>1, <2>3 DEF TablesOK, Tables, RowOK
  <2>4. CASE data' = <<>>
    BY <2>1, <2>2, <2>4 DEF TablesOK, Tables, RowOK
  <2>. QED
    BY <2>1, <2>3, <2>4
<1>2. ASSUME UNCHANGED <<db, data>>
      PROVE  TablesOK'
  BY <1>2 DEF TablesOK, Tables, RowOK
<1>3. ASSUME NEW text \in Texts, ServerAdds(text)
      PROVE  TablesOK'
  <2>. DEFINE n == Cardinality(DOMAIN db) + 1
  <2>1. /\ data' = data /\ DOMAIN db' = DOMAIN db \cup {n}
        /\ \A i \in DOMAIN db' : db'[i] = IF i \in DOMAIN db THEN db[i] ELSE NewRow(text)
    BY <1>3 DEF ServerAdds, dataVars
  <2>2. ASSUME NEW i \in DOMAIN db' PROVE RowOK(db'[i])
    <3>. HIDE DEF n
    <3>. QED
      BY <2>1, NewRowOK DEF TablesOK, Tables
  <2>. QED
    BY <2>1, <2>2 DEF TablesOK, Tables, RowOK
<1>4. ASSUME NEW i \in DOMAIN db, NEW f \in BytesFilters, NEW date \in Epoch .. LastDate,
             ServerRecords(i, f, date)
      PROVE  TablesOK'
  <2>1. /\ data' = data /\ DOMAIN db' = DOMAIN db
        /\ \A j \in DOMAIN db \ {i} : db'[j] = db[j]
        /\ db'[i] = [db[i] EXCEPT ![f] = ToInt(db[i][f]) + 1, !["updateDate"] = date]
    BY <1>4 DEF ServerRecords, dataVars
  <2>2. RowOK(db[i])
    BY DEF TablesOK, Tables
  <2>3. RowOK(db'[i])
    <3>. DEFINE row == db[i]
                new == db'[i]
    <3>1. f # "updateDate" /\ f \in DOMAIN row /\ f \notin TextFilters
      BY <2>2, Kinds DEF RowOK, Columns
    <3>2. /\ DOMAIN new = DOMAIN row /\ new[f] = ToInt(row[f]) + 1 /\ new["updateDate"] = date
          /\ \A c \in DOMAIN row \ {f, "updateDate"} : new[c] = row[c]
      BY <2>1, <2>2, <3>1 DEF RowOK
    <3>3. new[f] \in Numbers
      <4>1. row[f] \in Int
        BY <2>2, NumbersAssumption DEF RowOK, Numbers
      <4>2. ToInt(row[f]) \in -Half .. Half - 1
        BY <4>1, IntTyped
      <4>. QED
        BY <3>2, <4>2, NumbersAssumption DEF Numbers
    <3>4. new["updateDate"] \in Nat
      BY <3>2, DatesAssumption
    <3>5. ASSUME NEW c \in TextFilters PROVE new[c] \in Texts
      BY <2>2, <3>1, <3>2, Kinds DEF RowOK, Columns
    <3>6. ASSUME NEW c \in BytesFilters PROVE new[c] \in Numbers
      BY <2>2, <3>2, <3>3, Kinds DEF RowOK, Columns
    <3>7. ASSUME NEW c \in (Columns \cup {"updateDate"}) \ (TextFilters \cup BytesFilters)
          PROVE  new[c] \in Nat
      BY <2>2, <3>2, <3>4 DEF RowOK
    <3>. QED
      BY <2>2, <3>2, <3>5, <3>6, <3>7 DEF RowOK
  <2>4. ASSUME NEW j \in DOMAIN db PROVE RowOK(db'[j])
    BY <2>1, <2>3 DEF TablesOK, Tables
  <2>. QED
    BY <2>1, <2>4 DEF TablesOK, Tables, RowOK
<1>5. ASSUME SwitchTimer \/ Resize \/ ResetFilters \/ \E c \in Columns : Tap(c)
      PROVE  TablesOK'
  BY <1>2, <1>5 DEF SwitchTimer, Resize, ResetFilters, Tap, dataVars
<1>6. ASSUME \/ \E f \in TextFilters, text \in Texts : EditText(f, text)
             \/ \E f \in DateFilters : ClearDate(f) \/ \E date \in Dates : PickDate(f, date)
             \/ \E f \in BytesFilters, text \in {NoNumber} \cup Numbers : EditBytes(f, text)
      PROVE  TablesOK'
  BY <1>2, <1>6 DEF EditText, ClearDate, PickDate, EditBytes, Types, dataVars
<1>. QED
  BY <1>1, <1>3, <1>4, <1>5, <1>6 DEF Next

--------------------------------------------------------------------------------
(* The rows that are shown. *)

\* A setter shows the rows its filters accept.
LEMMA SetterShows ==
    ASSUME ShownByFilters, NEW values, SetFilter(values), data' = data
    PROVE  ShownByFilters'
<1>1. shown' = AcceptedRows(data, filter')
  <2>1. CASE filter' = filter
    BY <2>1 DEF SetFilter, ShownByFilters
  <2>2. CASE filter' # filter
    BY <2>2 DEF SetFilter
  <2>. QED
    BY <2>1, <2>2
<1>. QED
  BY <1>1 DEF ShownByFilters, AcceptedRows, Accepts

\* After every step the rows shown are those the filters accept.
LEMMA NextShown ==
    ASSUME ShownByFilters, Next
    PROVE  ShownByFilters'
<1>1. ASSUME UNCHANGED <<data, filter, shown>>
      PROVE  ShownByFilters'
  BY <1>1 DEF ShownByFilters, AcceptedRows, Accepts
<1>2. ASSUME Update
      PROVE  ShownByFilters'
  <2>1. shown' = AcceptedRows(data', filter) /\ filter' = filter
    BY <1>2 DEF Update, UpdateSucceeds, UpdateRefused, Reads, Reset
  <2>. QED
    BY <2>1 DEF ShownByFilters, AcceptedRows, Accepts
<1>3. ASSUME NEW f \in TextFilters, NEW text \in Texts, EditText(f, text)
      PROVE  ShownByFilters'
  BY <1>3, SetterShows DEF EditText, Types, dataVars
<1>4. ASSUME NEW f \in DateFilters, NEW date, ClearDate(f) \/ PickDate(f, date)
      PROVE  ShownByFilters'
  BY <1>4, SetterShows DEF ClearDate, PickDate, Types, dataVars
<1>5. ASSUME NEW f \in BytesFilters, NEW text, EditBytes(f, text)
      PROVE  ShownByFilters'
  <2>1. data' = data
    BY <1>5 DEF EditBytes, Types, dataVars
  <2>2. CASE text = NoNumber
    BY <1>1, <1>5, <2>1, <2>2 DEF EditBytes
  <2>3. CASE text # NoNumber
    BY <1>5, <2>1, <2>3, SetterShows DEF EditBytes
  <2>. QED
    BY <2>2, <2>3
<1>6. ASSUME ResetFilters
      PROVE  ShownByFilters'
  BY <1>6, SetterShows DEF ResetFilters, dataVars
<1>7. ASSUME \/ SwitchTimer \/ Resize \/ \E c \in Columns : Tap(c)
             \/ \E text \in Texts : ServerAdds(text)
             \/ \E i \in DOMAIN db, f \in BytesFilters, date \in Epoch .. LastDate : ServerRecords(i, f, date)
      PROVE  ShownByFilters'
  BY <1>1, <1>7 DEF SwitchTimer, Resize, Tap, ServerAdds, ServerRecords, dataVars
<1>. QED
  BY <1>2, <1>3, <1>4, <1>5, <1>6, <1>7 DEF Next

--------------------------------------------------------------------------------
(* The headings. *)

\* A layout computes the widths of the rows that are there.
LEMMA LayoutComputes ==
    ASSUME NEW rows, NEW cache, Layout(rows, cache),
           \A c \in Columns : cache[c] \in {0, ComputedWidth(rows, c)}
    PROVE  /\ widths' = [c \in Columns |-> ComputedWidth(rows, c)]
           /\ heading' = widths'
<1>1. \A c \in Columns : ColumnWidth(rows, cache, c) = ComputedWidth(rows, c)
  BY DEF ColumnWidth
<1>. QED
  BY <1>1 DEF Layout

\* After every step the widths are those of the rows that are there.
LEMMA NextWidths ==
    ASSUME WidthsComputed, Next
    PROVE  WidthsComputed'
<1>1. ASSUME UNCHANGED dataVars
      PROVE  WidthsComputed'
  BY <1>1 DEF dataVars, WidthsComputed, ComputedWidth, CellWidth
<1>2. ASSUME Update
      PROVE  WidthsComputed'
  <2>1. Layout(data', NoWidths) /\ \A c \in Columns : NoWidths[c] = 0
    BY <1>2 DEF Update, UpdateSucceeds, UpdateRefused, Reads, Reset, NoWidths
  <2>2. widths' = [c \in Columns |-> ComputedWidth(data', c)] /\ heading' = widths'
    BY <2>1, LayoutComputes
  <2>. QED
    BY <2>2 DEF WidthsComputed, ComputedWidth, CellWidth
<1>3. ASSUME Resize
      PROVE  WidthsComputed'
  <2>1. Layout(data, widths) /\ data' = data
    BY <1>3 DEF Resize
  <2>2. widths' = [c \in Columns |-> ComputedWidth(data, c)] /\ heading' = widths'
    BY <2>1, LayoutComputes DEF WidthsComputed
  <2>. QED
    BY <2>1, <2>2 DEF WidthsComputed, ComputedWidth, CellWidth
<1>4. ASSUME SwitchTimer \/ ResetFilters \/ \E c \in Columns : Tap(c)
      PROVE  WidthsComputed'
  BY <1>1, <1>4 DEF SwitchTimer, ResetFilters, Tap
<1>5. ASSUME \/ \E f \in TextFilters, text \in Texts : EditText(f, text)
             \/ \E f \in DateFilters : ClearDate(f) \/ \E date \in Dates : PickDate(f, date)
             \/ \E f \in BytesFilters, text \in {NoNumber} \cup Numbers : EditBytes(f, text)
      PROVE  WidthsComputed'
  BY <1>1, <1>5 DEF EditText, ClearDate, PickDate, EditBytes, Types
<1>6. ASSUME \/ \E text \in Texts : ServerAdds(text)
             \/ \E i \in DOMAIN db, f \in BytesFilters, date \in Epoch .. LastDate : ServerRecords(i, f, date)
      PROVE  WidthsComputed'
  BY <1>1, <1>6 DEF ServerAdds, ServerRecords
<1>. QED
  BY <1>2, <1>3, <1>4, <1>5, <1>6 DEF Next

\* The arrows with their types.
ArrowsOK ==
    /\ ArrowTellsOrder
    /\ arrow \in [Columns -> {"", "up", "down"}]
    /\ sorted \in (Columns \cup {"none"}) \X {"up", "down"} /\ auto \in BOOLEAN

\* Every step keeps the arrows in line with the order of the rows.
LEMMA NextArrows ==
    ASSUME ArrowsOK, Next
    PROVE  ArrowsOK'
<1>1. ASSUME UNCHANGED sortVars, auto' \in BOOLEAN
      PROVE  ArrowsOK'
  BY <1>1 DEF sortVars, ArrowsOK, ArrowTellsOrder
<1>2. ASSUME NEW c \in Columns, Tap(c)
      PROVE  ArrowsOK'
  <2>1. NextState(c) \in {"up", "down"}
    BY DEF NextState, InitialSortOrder
  <2>2. /\ arrow' = [d \in Columns |-> IF d = c THEN NextState(c) ELSE ""]
        /\ sorted' = <<c, NextState(c)>> /\ auto' = auto
    BY <1>2 DEF Tap
  <2>. QED
    BY <2>1, <2>2 DEF ArrowsOK, ArrowTellsOrder
<1>3. ASSUME auto' = ~auto
      PROVE  auto' \in BOOLEAN
  BY <1>3
<1>4. ASSUME Update \/ SwitchTimer \/ Resize \/ ResetFilters
      PROVE  ArrowsOK'
  BY <1>1, <1>3, <1>4 DEF ArrowsOK, Update, UpdateSucceeds, UpdateRefused, Reads, Reset,
     SwitchTimer, Resize, ResetFilters
<1>5. ASSUME \/ \E f \in TextFilters, text \in Texts : EditText(f, text)
             \/ \E f \in DateFilters : ClearDate(f) \/ \E date \in Dates : PickDate(f, date)
             \/ \E f \in BytesFilters, text \in {NoNumber} \cup Numbers : EditBytes(f, text)
      PROVE  ArrowsOK'
  BY <1>1, <1>5 DEF ArrowsOK, EditText, ClearDate, PickDate, EditBytes, Types
<1>6. ASSUME \/ \E text \in Texts : ServerAdds(text)
             \/ \E i \in DOMAIN db, f \in BytesFilters, date \in Epoch .. LastDate : ServerRecords(i, f, date)
      PROVE  ArrowsOK'
  BY <1>1, <1>6 DEF ArrowsOK, ServerAdds, ServerRecords
<1>. QED
  BY <1>2, <1>4, <1>5, <1>6 DEF Next
--------------------------------------------------------------------------------
(* The theorems. *)

\* What the parts say of the types.
LEMMA TypesOfParts ==
    ASSUME FieldsOK, TablesOK, ShownByFilters, ArrowsOK
    PROVE  TypeOK
<1>1. shown \subseteq DOMAIN data
  BY DEF ShownByFilters, AcceptedRows
<1>. QED
  BY <1>1 DEF FieldsOK, FieldTyped, FilterTyped, TablesOK, ArrowsOK, TypeOK

\* The invariant has the parts the steps are proved to keep.
LEMMA PartsOfInvariant ==
    ASSUME IndInv
    PROVE  FieldsOK /\ TablesOK /\ ShownByFilters /\ WidthsComputed /\ ArrowsOK
  BY DEF IndInv, TypeOK, FieldsOK, FieldTyped, FilterTyped, TablesOK, ArrowsOK

\* At first nothing was read, nothing is asked for, and nothing is sorted.
LEMMA InitInv == Init => IndInv
<1>. SUFFICES ASSUME Init PROVE IndInv
  OBVIOUS
<1>1. FieldsOK
  <2>1. field = NoFilter /\ filter = NoFilter
    BY DEF Init
  <2>2. ASSUME NEW f \in Filters PROVE FieldTyped(f) /\ FilterTyped(f) /\ FilterOf(f)
    <3>1. CASE f \in TextFilters
      BY <2>1, <3>1, Kinds, NoFilterTyped, FieldKinds DEF FieldTyped, FilterTyped, FilterOf, Texts
    <3>2. CASE f \in DateFilters
      BY <2>1, <3>2, Kinds, NoFilterTyped, FieldKinds, DateSet DEF FieldTyped, FilterTyped, FilterOf, SetDate
    <3>3. CASE f \in BytesFilters
      BY <2>1, <3>3, Kinds, NoFilterTyped, FieldKinds, EmptyTyped
         DEF FieldTyped, FilterTyped, FilterOf
    <3>. QED
      BY <3>1, <3>2, <3>3 DEF Filters
  <2>. QED
    BY <2>1, <2>2, NoFilterTyped DEF FieldsOK, FiltersSet
<1>2. db = <<>> /\ data = <<>> /\ DOMAIN <<>> = {}
  <2>1. DOMAIN <<>> = {}
    OBVIOUS
  <2>. QED
    BY <2>1 DEF Init
<1>3. TablesOK
  BY <1>2 DEF TablesOK, Tables
<1>4. ShownByFilters
  BY <1>2 DEF Init, ShownByFilters, AcceptedRows
<1>5. WidthsComputed
  BY DEF Init, WidthsComputed
<1>6. ArrowsOK
  BY Kinds DEF Init, ArrowsOK, ArrowTellsOrder
<1>. QED
  BY <1>1, <1>3, <1>4, <1>5, <1>6, TypesOfParts DEF IndInv, FieldsOK, TablesOK, ArrowsOK

\* Every step keeps the invariant.
LEMMA NextInv == IndInv /\ [Next]_vars => IndInv'
<1>. SUFFICES ASSUME IndInv, [Next]_vars PROVE IndInv'
  OBVIOUS
<1>1. FieldsOK /\ TablesOK /\ ShownByFilters /\ WidthsComputed /\ ArrowsOK
  BY PartsOfInvariant
<1>2. FieldsOK' /\ TablesOK' /\ ShownByFilters' /\ WidthsComputed' /\ ArrowsOK'
  <2>1. CASE Next
    BY <1>1, <2>1, NextFields, NextTables, NextShown, NextWidths, NextArrows
  <2>2. CASE UNCHANGED vars
    <3>1. FieldsOK' /\ TablesOK'
      BY <1>1, <2>2 DEF vars, dataVars, FieldsOK, FiltersSet, FieldTyped, FilterTyped, FilterOf,
                        TablesOK, Tables, RowOK
    <3>2. ShownByFilters'
      BY <1>1, <2>2 DEF vars, dataVars, ShownByFilters, AcceptedRows, Accepts
    <3>3. WidthsComputed'
      BY <1>1, <2>2 DEF vars, dataVars, WidthsComputed, ComputedWidth, CellWidth
    <3>4. ArrowsOK'
      BY <1>1, <2>2 DEF vars, sortVars, ArrowsOK, ArrowTellsOrder
    <3>. QED
      BY <3>1, <3>2, <3>3, <3>4
  <2>. QED
    BY <2>1, <2>2
<1>3. TypeOK'
  BY <1>2, TypesOfParts, PTL
<1>. QED
  BY <1>2, <1>3 DEF IndInv, FieldsOK, TablesOK, ArrowsOK

\* The inductive invariant of the interface.
THEOREM ViewInvariant == Spec => []IndInv
  BY InitInv, NextInv, PTL DEF Spec

\* The variables keep their types; in particular no filter is a date before 1970, and no
\* row is shown that was not read.
THEOREM ViewTypes == Spec => []TypeOK
<1>1. IndInv => TypeOK
  BY DEF IndInv
<1>. QED
  BY <1>1, ViewInvariant, PTL

\* A text's filter accepts the rows with the text that is typed.
LEMMA TextAgrees ==
    ASSUME IndInv, NEW row, NEW f \in TextFilters
    PROVE  Accepts(row, f, filter[f]) <=> field[f] \subseteq row[f]
<1>1. filter[f] = field[f]
  BY DEF IndInv, FiltersSet, FilterOf, Filters
<1>. QED
  BY <1>1, Kinds, FiltersAssumption DEF Accepts

\* The day or the period a date's field asks for.
DateAsked(row, f) ==
    CASE f = "fromDate" -> row["updateDate"] >= field[f]
      [] f = "toDate" -> row["updateDate"] <= field[f]
      [] OTHER -> row[f] = field[f]

\* A date's filter accepts the rows of the day or period that is picked, if any.
LEMMA DateAgrees ==
    ASSUME IndInv, NEW row, NEW f \in DateFilters
    PROVE  Accepts(row, f, filter[f]) <=> (field[f] >= Epoch => DateAsked(row, f))
<1>1. f \in Filters /\ f \notin TextFilters /\ f \notin BytesFilters
  BY Kinds DEF Filters
<1>2. field[f] \in {Invalid} \cup Dates /\ filter[f] = SetDate(field[f])
  BY <1>1, FieldKinds DEF IndInv, TypeOK, FiltersSet, FilterOf
<1>3. filter[f] = (IF field[f] >= Epoch THEN field[f] ELSE Invalid) /\ (field[f] >= Epoch => filter[f] # Invalid)
  BY <1>2, DateSet
<1>4. CASE f \in {"createDate", "updateDate"}
  BY <1>1, <1>3, <1>4 DEF Accepts, DateAsked
<1>5. CASE f = "fromDate"
  BY <1>1, <1>3, <1>5 DEF Accepts, DateAsked
<1>6. CASE f = "toDate"
  BY <1>1, <1>3, <1>6 DEF Accepts, DateAsked
<1>. QED
  BY <1>4, <1>5, <1>6, FiltersAssumption

\* The number a bytes field asks for.
BytesAsked(row, f) ==
    /\ field[f] # NoNumber /\ ~SameInt(field[f], NoText) => SameInt(row[f], field[f])
    /\ field[f] = NoNumber => Accepts(row, f, filter[f])

\* A bytes filter accepts the rows with the number that is typed, if it is one.
LEMMA BytesAgrees ==
    ASSUME IndInv, NEW row, NEW f \in BytesFilters, row[f] \in Numbers
    PROVE  Accepts(row, f, filter[f]) <=> BytesAsked(row, f)
<1>1. f \in Filters /\ f \notin TextFilters /\ f \notin DateFilters
  BY Kinds DEF Filters
<1>2. field[f] \in {NoNumber} \cup Numbers /\ (field[f] # NoNumber => filter[f] = ToInt(field[f]))
  <2>1. FilterOf(f)
    BY <1>1 DEF IndInv, FiltersSet
  <2>2. field[f] \in {NoNumber} \cup Numbers
    BY <1>1, FieldKinds DEF IndInv, TypeOK
  <2>. QED
    BY <1>1, <2>1, <2>2 DEF FilterOf
<1>3. CASE field[f] = NoNumber
  BY <1>3 DEF BytesAsked
<1>4. CASE field[f] # NoNumber
  <2>1. field[f] \in Int /\ row[f] \in Int /\ NoText \in Int
    BY <1>2, <1>4, EmptyTyped, NumbersAssumption DEF Numbers
  <2>2. Accepts(row, f, filter[f]) <=> ToInt(field[f]) = NoText \/ ToInt(row[f]) = ToInt(field[f])
    BY <1>1, <1>2, <1>4, FiltersAssumption DEF Accepts
  <2>3. ToInt(field[f]) = NoText <=> SameInt(field[f], NoText)
    BY <2>1, EmptyTyped, IntsAgree
  <2>4. ToInt(row[f]) = ToInt(field[f]) <=> SameInt(row[f], field[f])
    BY <2>1, IntsAgree
  <2>. QED
    BY <1>4, <2>2, <2>3, <2>4 DEF BytesAsked
<1>. QED
  BY <1>3, <1>4

\* The rows shown are those the fields on the screen ask for, after any sequence of edits,
\* picks, resets and reads, refused ones among them: the setters' shortcut for a value
\* that is already set, and the fields that set nothing, lose no row.
THEOREM RowsAreAsked == Spec => []ShownAsAsked
<1>1. ASSUME IndInv PROVE ShownAsAsked
  <2>1. ASSUME NEW i \in DOMAIN data
        PROVE  (\A f \in Filters : Accepts(data[i], f, filter[f])) <=>
                  /\ \A f \in TextFilters : field[f] \subseteq data[i][f]
                  /\ \A f \in DateFilters : field[f] >= Epoch => DateAsked(data[i], f)
                  /\ \A f \in BytesFilters : BytesAsked(data[i], f)
    <3>1. \A f \in BytesFilters : data[i][f] \in Numbers
      BY <1>1 DEF IndInv, Tables, RowOK
    <3>2. \A f \in TextFilters : Accepts(data[i], f, filter[f]) <=> field[f] \subseteq data[i][f]
      BY <1>1, TextAgrees
    <3>3. \A f \in DateFilters : Accepts(data[i], f, filter[f]) <=> (field[f] >= Epoch => DateAsked(data[i], f))
      BY <1>1, DateAgrees
    <3>4. \A f \in BytesFilters : Accepts(data[i], f, filter[f]) <=> BytesAsked(data[i], f)
      BY <1>1, <3>1, BytesAgrees
    <3>5. (\A f \in Filters : Accepts(data[i], f, filter[f])) <=>
             /\ \A f \in TextFilters : Accepts(data[i], f, filter[f])
             /\ \A f \in DateFilters : Accepts(data[i], f, filter[f])
             /\ \A f \in BytesFilters : Accepts(data[i], f, filter[f])
      BY Zenon DEF Filters
    <3>. QED
      BY <3>2, <3>3, <3>4, <3>5, Zenon
  <2>2. shown = {i \in DOMAIN data : \A f \in Filters : Accepts(data[i], f, filter[f])}
    BY <1>1 DEF IndInv, ShownByFilters, AcceptedRows
  <2>3. shown = {i \in DOMAIN data :
                  /\ \A f \in TextFilters : field[f] \subseteq data[i][f]
                  /\ \A f \in DateFilters : field[f] >= Epoch => DateAsked(data[i], f)
                  /\ \A f \in BytesFilters : BytesAsked(data[i], f)}
    BY <2>1, <2>2, Zenon
  <2>4. ASSUME NEW i \in DOMAIN data
        PROVE  (\A f \in BytesFilters : BytesAsked(data[i], f)) <=>
                  /\ \A f \in BytesFilters :
                        field[f] # NoNumber /\ ~SameInt(field[f], NoText) => SameInt(data[i][f], field[f])
                  /\ \A f \in BytesFilters : field[f] = NoNumber => Accepts(data[i], f, filter[f])
    BY Zenon DEF BytesAsked
  <2>. QED
    BY <2>3, <2>4, Zenon DEF ShownAsAsked, DateAsked
<1>. QED
  BY <1>1, ViewInvariant, PTL

\* A heading is wider than every cell of its column.
LEMMA WidthFits ==
    ASSUME Tables, NEW i \in DOMAIN data, NEW c \in Columns
    PROVE  CellWidth(data[i][c], c) < ComputedWidth(data, c)
<1>. DEFINE Cells == {CellWidth(data[j][c], c) : j \in DOMAIN data}
            Bound == 1 + 2 * Half + Cardinality(Marks)
<1>1. Cardinality(Marks) \in Nat
  BY MarksAssumption, FS_CardinalityType
<1>2. Bound \in Int
  BY <1>1, NumbersAssumption
<1>3. ASSUME NEW j \in DOMAIN data
      PROVE  CellWidth(data[j][c], c) \in Nat /\ CellWidth(data[j][c], c) <= Bound
  <2>1. CASE c \in TextFilters
    <3>1. data[j][c] \in SUBSET Marks
      BY <2>1 DEF Tables, RowOK, Texts
    <3>2. Cardinality(data[j][c]) \in Nat /\ Cardinality(data[j][c]) <= Cardinality(Marks)
      BY <3>1, MarksAssumption, FS_Subset, FS_CardinalityType
    <3>3. CellWidth(data[j][c], c) = Cardinality(data[j][c])
      BY <2>1, Kinds DEF CellWidth
    <3>. QED
      BY <1>1, <3>2, <3>3, NumbersAssumption
  <2>2. CASE c \in BytesFilters
    <3>. DEFINE n == data[j][c]
    <3>1. n \in Numbers
      BY <2>2 DEF Tables, RowOK
    <3>2. CellWidth(n, c) = IF n < 0 THEN 1 - n ELSE n
      BY <2>2, Kinds DEF CellWidth
    <3>3. CellWidth(n, c) \in Nat /\ CellWidth(n, c) <= 1 + 2 * Half
      BY <3>1, <3>2, NumbersAssumption DEF Numbers
    <3>. QED
      BY <1>1, <3>3, NumbersAssumption
  <2>3. CASE c \notin TextFilters /\ c \notin BytesFilters
    <3>1. CellWidth(data[j][c], c) = 1
      BY <2>3 DEF CellWidth
    <3>. QED
      BY <1>1, <3>1, NumbersAssumption
  <2>. QED
    BY <2>1, <2>2, <2>3
<1>4. ASSUME NEW n \in {Header} \cup Cells PROVE n \in Int /\ n <= Bound
  <2>1. CASE n = Header
    BY <1>1, <2>1, NumbersAssumption DEF Header
  <2>2. CASE n \in Cells
    BY <1>3, <2>2
  <2>. QED
    BY <2>1, <2>2
<1>5. Max({Header} \cup Cells) \in {Header} \cup Cells /\ \A n \in {Header} \cup Cells : Max({Header} \cup Cells) >= n
  <2>1. {Header} \cup Cells \subseteq Int /\ {Header} \cup Cells # {}
    BY <1>4
  <2>. HIDE DEF Cells, Bound
  <2>. QED
    BY <1>2, <1>4, <2>1, MaxIsGreatest
<1>6. CellWidth(data[i][c], c) \in Cells
  OBVIOUS
<1>7. Max({Header} \cup Cells) \in Int /\ Max({Header} \cup Cells) >= CellWidth(data[i][c], c) /\ CellWidth(data[i][c], c) \in Int
  BY <1>4, <1>5, <1>6
<1>8. ComputedWidth(data, c) = Max({Header} \cup Cells) + 1
  BY Zenon DEF ComputedWidth
<1>. HIDE DEF Cells
<1>. QED
  BY <1>7, <1>8

\* The arrow of the headings tells the order of the rows, and every cell fits its column:
\* the widths that are kept from layout to layout are those of the rows read last.
THEOREM HeadingsAreRight == Spec => []HeadingsFit
<1>1. ASSUME IndInv PROVE CellsFit
  <2>1. ASSUME NEW i \in DOMAIN data, NEW c \in Columns PROVE CellWidth(data[i][c], c) < heading[c]
    <3>1. heading[c] = ComputedWidth(data, c)
      BY <1>1 DEF IndInv, WidthsComputed
    <3>. QED
      BY <1>1, <3>1, WidthFits DEF IndInv
  <2>. QED
    BY <2>1 DEF CellsFit
<1>2. IndInv => HeadingsFit
  BY <1>1 DEF IndInv, HeadingsFit
<1>. QED
  BY <1>2, ViewInvariant, PTL
================================================================================
