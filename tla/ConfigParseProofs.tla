--------------------------- MODULE ConfigParseProofs ---------------------------
(***************************************************************************)
(* Proofs about ConfigParse, for files of any lines and any length.         *)
(***************************************************************************)
EXTENDS ConfigParse, SequenceTheorems, TLAPS

\* In a file that keeps to the format, the parser is among the users exactly between the
\* braces, and waits for a password exactly after a login, which it holds.
Tracked ==
    Regular /\ mode # "done" =>
        /\ mode \in {"users", "second"} <=> InBlock(Len(read) + 1)
        /\ mode = "second" <=> PairLine(Len(read), "login")
        /\ mode = "second" => login = read[Len(read)].value

IndInv == TypeOK /\ Tracked /\ UsersAsListed /\ SettingsAsWritten /\ BlocksTracked
--------------------------------------------------------------------------------
(* The parts of a line and the entries of a map. *)

\* The parts of a line are texts of the file or empty.
LEMMA PartsTyped ==
    ASSUME NEW l \in Lines, NEW kind, BothPresent(Parts(l, kind))
    PROVE  /\ Parts(l, kind)[1] \in Texts \ {""} /\ Parts(l, kind)[2] \in Texts \ {""}
           /\ Parts(l, kind) = IF l.kind = kind THEN <<l.tag, l.value>> ELSE <<l.text, l.text>>
<1>1. l.tag \in Texts /\ l.value \in Texts /\ l.text \in Texts
  BY DEF Texts
<1>2. CASE l.kind = kind
  BY <1>1, <1>2 DEF Parts, BothPresent
<1>3. CASE l.kind # kind /\ WideSize
  BY <1>1, <1>3 DEF Parts, BothPresent
<1>4. CASE l.kind # kind /\ ~WideSize
  BY <1>4 DEF Parts, BothPresent
<1>. QED
  BY <1>2, <1>3, <1>4

\* No entry is empty.
EntriesOK(entries) == \A t \in DOMAIN entries : {t, entries[t]} \subseteq Texts \ {""}

\* Entering one that is not empty keeps it so.
LEMMA EnteredTyped ==
    ASSUME NEW entries, EntriesOK(entries), NEW tag \in Texts \ {""}, NEW value \in Texts \ {""}
    PROVE  EntriesOK(Entered(entries, tag, value))
<1>. DEFINE new == Entered(entries, tag, value)
<1>1. /\ DOMAIN new = DOMAIN entries \cup {tag} /\ new[tag] = value
      /\ \A t \in DOMAIN entries \ {tag} : new[t] = entries[t]
  BY DEF Entered
<1>. HIDE DEF new
<1>2. ASSUME NEW t \in DOMAIN new
      PROVE  t \in Texts \ {""} /\ new[t] \in Texts \ {""}
  BY <1>1 DEF EntriesOK
<1>3. EntriesOK(new)
  BY <1>2 DEF EntriesOK
<1>. QED
  BY <1>3 DEF new

--------------------------------------------------------------------------------
(* The types. *)

\* Every step keeps the types.
LEMMA NextTyped ==
    ASSUME TypeOK, Next
    PROVE  TypeOK'
<1>0. EntriesOK(settings) /\ EntriesOK(users)
  BY DEF TypeOK, EntriesOK
<1>1. SUFFICES /\ read' \in Seq(Lines) /\ mode' \in {"settings", "users", "second", "done"}
               /\ login' \in Texts \cup {""} /\ (mode' = "second" => login' # "")
               /\ EntriesOK(settings') /\ EntriesOK(users')
  BY DEF TypeOK, EntriesOK
<1>2. CASE EndOfFile
  BY <1>0, <1>2 DEF EndOfFile, TypeOK
<1>3. ASSUME NEW l \in Lines, ReadLine(l)
      PROVE  /\ read' \in Seq(Lines) /\ mode' \in {"settings", "users", "second", "done"}
             /\ login' \in Texts \cup {""} /\ (mode' = "second" => login' # "")
             /\ EntriesOK(settings') /\ EntriesOK(users')
  <2>1. read' \in Seq(Lines)
    BY <1>3, AppendProperties DEF ReadLine, TypeOK
  <2>2. CASE SkipEmpty(l) \/ OpenUsers(l) \/ CloseUsers(l)
    BY <1>0, <2>1, <2>2 DEF SkipEmpty, OpenUsers, CloseUsers, TypeOK
  <2>3. CASE Assign(l)
    <3>. DEFINE p == Parts(l, "assign")
    <3>1. settings' = (IF BothPresent(p) THEN Entered(settings, p[1], p[2]) ELSE settings)
      BY <2>3 DEF Assign
    <3>2. EntriesOK(settings')
      BY <1>0, <3>1, PartsTyped, EnteredTyped
    <3>. QED
      BY <1>0, <2>1, <2>3, <3>2 DEF Assign, TypeOK
  <2>4. CASE Login(l)
    <3>. DEFINE p == Parts(l, "pair")
    <3>1. \/ mode' = "second" /\ login' = p[2] /\ BothPresent(p)
          \/ mode' = mode /\ login' = login
      BY <2>4 DEF Login
    <3>2. login' \in Texts \cup {""} /\ (mode' = "second" => login' # "")
      BY <3>1, PartsTyped DEF TypeOK
    <3>. QED
      BY <1>0, <2>1, <2>4, <3>1, <3>2 DEF Login, TypeOK
  <2>5. CASE Password(l)
    <3>. DEFINE p == Parts(l, "pair")
    <3>1. \/ users' = users
          \/ users' = Entered(users, login, p[2]) /\ BothPresent(p)
      BY <2>5 DEF Password
    <3>2. login \in Texts \ {""}
      BY <2>5 DEF Password, TypeOK
    <3>3. EntriesOK(users')
      BY <1>0, <3>1, <3>2, PartsTyped, EnteredTyped
    <3>. QED
      BY <1>0, <2>1, <2>5, <3>3 DEF Password, TypeOK
  <2>. QED
    BY <1>3, <2>2, <2>3, <2>4, <2>5 DEF ReadLine
<1>. QED
  BY <1>2, <1>3 DEF Next

--------------------------------------------------------------------------------
(* What a file means, a line at a time. *)

\* A file of n lines gets one more.
Grown(l, n) ==
    /\ n \in Nat /\ Len(read) = n /\ DOMAIN read = 1 .. n
    /\ Len(read') = n + 1 /\ DOMAIN read' = 1 .. n + 1
    /\ \A i \in 1 .. n : read'[i] = read[i]
    /\ read'[n + 1] = l

\* Reading a line does that.
LEMMA ReadGrows ==
    ASSUME TypeOK, NEW l \in Lines, ReadLine(l), NEW n, n = Len(read)
    PROVE  Grown(l, n)
<1>1. read \in Seq(Lines) /\ read' = Append(read, l)
  BY DEF TypeOK, ReadLine
<1>. QED
  BY <1>1, AppendProperties, LenProperties DEF Grown

\* The blocks of the lines before stay.
LEMMA BlocksStay ==
    ASSUME NEW l, NEW n, Grown(l, n), NEW i \in 1 .. n + 1
    PROVE  InBlock(i)' <=> InBlock(i)
<1>1. \A j \in 1 .. i - 1 : read'[j] = read[j]
  BY DEF Grown
<1>2. \A j \in 1 .. i - 1 : \A k \in j + 1 .. i - 1 : read'[k] = read[k]
  BY DEF Grown
<1>. QED
  BY <1>1, <1>2 DEF InBlock

\* A line's own kind tells where the next one stands.
LEMMA BlocksGrow ==
    ASSUME NEW l, NEW n, Grown(l, n)
    PROVE  InBlock(n + 2)' <=> l.kind = "open" \/ (InBlock(n + 1) /\ l.kind # "close")
<1>1. /\ n + 1 \in Nat \ {0} /\ read'[n + 1] = l /\ \A j \in 1 .. n : read'[j] = read[j]
      /\ (n + 2) - 1 = n + 1 /\ (n + 1) - 1 = n
  BY DEF Grown
<1>2. ASSUME l.kind = "open"
      PROVE  InBlock(n + 2)'
  <2>1. n + 1 \in 1 .. (n + 2) - 1 /\ read'[n + 1].kind = "open" /\ (n + 1) + 1 .. (n + 2) - 1 = {}
    BY <1>1, <1>2
  <2>. QED
    BY <2>1 DEF InBlock
<1>3. ASSUME InBlock(n + 1), l.kind # "close"
      PROVE  InBlock(n + 2)'
  <2>1. PICK j \in 1 .. n : read[j].kind = "open" /\ \A k \in j + 1 .. n : read[k].kind # "close"
    BY <1>1, <1>3 DEF InBlock
  <2>2. j \in 1 .. (n + 2) - 1 /\ read'[j].kind = "open"
    BY <1>1, <2>1
  <2>3. ASSUME NEW k \in j + 1 .. (n + 2) - 1 PROVE read'[k].kind # "close"
    <3>1. CASE k = n + 1
      BY <1>1, <1>3, <3>1
    <3>2. CASE k # n + 1
      <4>1. k \in j + 1 .. n /\ k \in 1 .. n
        BY <1>1, <3>2
      <4>. QED
        BY <1>1, <2>1, <4>1
    <3>. QED
      BY <3>1, <3>2
  <2>. QED
    BY <2>2, <2>3 DEF InBlock
<1>4. ASSUME InBlock(n + 2)', l.kind # "open"
      PROVE  InBlock(n + 1) /\ l.kind # "close"
  <2>1. PICK j \in 1 .. n + 1 : read'[j].kind = "open" /\ \A k \in j + 1 .. n + 1 : read'[k].kind # "close"
    BY <1>1, <1>4 DEF InBlock
  <2>2. j \in 1 .. n
    BY <1>1, <1>4, <2>1
  <2>3. l.kind # "close"
    <3>1. n + 1 \in j + 1 .. n + 1
      BY <1>1, <2>2
    <3>. QED
      BY <1>1, <2>1, <3>1
  <2>4. ASSUME NEW k \in j + 1 .. n PROVE read[k].kind # "close"
    <3>1. k \in j + 1 .. n + 1 /\ k \in 1 .. n
      BY <1>1, <2>2
    <3>. QED
      BY <1>1, <2>1, <3>1
  <2>5. read[j].kind = "open"
    BY <1>1, <2>1, <2>2
  <2>. QED
    BY <1>1, <2>2, <2>3, <2>4, <2>5 DEF InBlock
<1>. QED
  BY <1>2, <1>3, <1>4

\* A complete pair, wherever it stands.
IsPairOf(l, tag) == l.kind = "pair" /\ l.tag = tag /\ l.value # "" /\ ~l.brace

\* What stands in line n + 1 when it is l.
IsPair(l, n, tag) ==
    InBlock(n + 1) /\ l.kind = "pair" /\ l.tag = tag /\ l.value # "" /\ ~l.brace
IsSetting(l, n) ==
    l.kind = "assign" /\ ~InBlock(n + 1) /\ l.tag # "" /\ l.value # ""

\* The lines of the users and the settings stay, and one may come.
LEMMA LinesGrow ==
    ASSUME NEW l, NEW n, Grown(l, n)
    PROVE  /\ \A i \in 0 .. n, tag \in {"login", "password"} : PairLine(i, tag)' <=> PairLine(i, tag)
           /\ \A tag \in {"login", "password"} :
                 /\ PairLine(n + 1, tag)' <=> IsPair(l, n, tag)
                 /\ ~PairLine(n + 2, tag)' /\ ~PairLine(n + 1, tag)
           /\ \A i \in 1 .. n : SetAt(i)' <=> SetAt(i)
           /\ SetAt(n + 1)' <=> IsSetting(l, n)
<1>1. ASSUME NEW i \in 0 .. n, NEW tag
      PROVE  PairLine(i, tag)' <=> PairLine(i, tag)
  <2>1. CASE i = 0
    BY <2>1 DEF Grown, PairLine
  <2>2. CASE i # 0
    <3>1. i \in 1 .. n + 1 /\ i \in DOMAIN read /\ i \in DOMAIN read' /\ read'[i] = read[i]
      BY <2>2 DEF Grown
    <3>2. InBlock(i)' <=> InBlock(i)
      BY <3>1, BlocksStay
    <3>3. PairLine(i, tag)' <=> InBlock(i)' /\ IsPairOf(read'[i], tag)
      BY <3>1 DEF PairLine, IsPairOf
    <3>4. PairLine(i, tag) <=> InBlock(i) /\ IsPairOf(read[i], tag)
      BY <3>1 DEF PairLine, IsPairOf
    <3>. QED
      BY <3>1, <3>2, <3>3, <3>4
  <2>. QED
    BY <2>1, <2>2
<1>2. /\ n + 1 \in DOMAIN read' /\ n + 1 \notin DOMAIN read /\ read'[n + 1] = l
      /\ n + 2 \notin DOMAIN read' /\ n + 1 \in 1 .. n + 1
  BY DEF Grown
<1>3. InBlock(n + 1)' <=> InBlock(n + 1)
  BY <1>2, BlocksStay
<1>4. ASSUME NEW tag PROVE PairLine(n + 1, tag)' <=> IsPair(l, n, tag)
  BY <1>2, <1>3 DEF PairLine, IsPair
<1>5. ASSUME NEW tag PROVE ~PairLine(n + 2, tag)' /\ ~PairLine(n + 1, tag)
  BY <1>2 DEF PairLine
<1>6. ASSUME NEW i \in 1 .. n
      PROVE  SetAt(i)' <=> SetAt(i)
  <2>1. i \in 1 .. n + 1 /\ read'[i] = read[i]
    BY DEF Grown
  <2>2. InBlock(i)' <=> InBlock(i)
    BY <2>1, BlocksStay
  <2>. QED
    BY <2>1, <2>2 DEF SetAt
<1>7. SetAt(n + 1)' <=> IsSetting(l, n)
  BY <1>2, <1>3 DEF SetAt, IsSetting
<1>. QED
  BY <1>1, <1>4, <1>5, <1>6, <1>7

\* Where a line stands in a file that keeps to the format.
RegularEnd(l, n) ==
    InBlock(n + 1) =>
        \/ l.kind = "close" /\ ~PairLine(n, "login")
        \/ l.kind = "empty" /\ ~PairLine(n, "login")
        \/ IsPair(l, n, "login") /\ ~PairLine(n, "login")
        \/ IsPair(l, n, "password") /\ PairLine(n, "login")

\* A file that keeps to the format did so before its last line.
LEMMA RegularGrows ==
    ASSUME NEW l, NEW n, Grown(l, n), Regular'
    PROVE  Regular /\ RegularEnd(l, n)
<1>1. ASSUME NEW i \in DOMAIN read', InBlock(i)'
      PROVE  \/ read'[i].kind = "close" /\ ~PairLine(i - 1, "login")'
             \/ read'[i].kind = "empty" /\ ~PairLine(i - 1, "login")'
             \/ PairLine(i, "login")' /\ ~PairLine(i - 1, "login")'
             \/ PairLine(i, "password")' /\ PairLine(i - 1, "login")'
  BY <1>1 DEF Regular
<1>2. ASSUME NEW i \in DOMAIN read, InBlock(i)
      PROVE  \/ read[i].kind = "close" /\ ~PairLine(i - 1, "login")
             \/ read[i].kind = "empty" /\ ~PairLine(i - 1, "login")
             \/ PairLine(i, "login") /\ ~PairLine(i - 1, "login")
             \/ PairLine(i, "password") /\ PairLine(i - 1, "login")
  <2>1. /\ i \in DOMAIN read' /\ read'[i] = read[i] /\ i \in 1 .. n + 1
        /\ i \in 0 .. n /\ i - 1 \in 0 .. n
    BY DEF Grown
  <2>2. InBlock(i)'
    BY <1>2, <2>1, BlocksStay
  <2>3. /\ PairLine(i, "login")' <=> PairLine(i, "login")
        /\ PairLine(i, "password")' <=> PairLine(i, "password")
        /\ PairLine(i - 1, "login")' <=> PairLine(i - 1, "login")
    BY <2>1, LinesGrow
  <2>. QED
    BY <1>1, <2>1, <2>2, <2>3
<1>3. ASSUME InBlock(n + 1)
      PROVE  \/ l.kind = "close" /\ ~PairLine(n, "login")
             \/ l.kind = "empty" /\ ~PairLine(n, "login")
             \/ IsPair(l, n, "login") /\ ~PairLine(n, "login")
             \/ IsPair(l, n, "password") /\ PairLine(n, "login")
  <2>1. /\ n + 1 \in DOMAIN read' /\ read'[n + 1] = l /\ n + 1 \in 1 .. n + 1
        /\ n \in 0 .. n /\ (n + 1) - 1 = n
    BY DEF Grown
  <2>2. InBlock(n + 1)'
    BY <1>3, <2>1, BlocksStay
  <2>3. /\ PairLine(n + 1, "login")' <=> IsPair(l, n, "login")
        /\ PairLine(n + 1, "password")' <=> IsPair(l, n, "password")
        /\ PairLine((n + 1) - 1, "login")' <=> PairLine(n, "login")
    BY <2>1, LinesGrow
  <2>. QED
    BY <1>1, <2>1, <2>2, <2>3
<1>4. Regular
  BY <1>2 DEF Regular
<1>. QED
  BY <1>3, <1>4 DEF RegularEnd

\* Where no line is read, nothing changes its meaning.
LEMMA SameFile ==
    ASSUME read' = read
    PROVE  /\ Regular' <=> Regular
           /\ \A i, tag : PairLine(i, tag)' <=> PairLine(i, tag)
           /\ \A i : (InBlock(i)' <=> InBlock(i)) /\ (ListedAt(i)' <=> ListedAt(i)) /\ (SetAt(i)' <=> SetAt(i))
           /\ \A i : (LastListedAt(i)' <=> LastListedAt(i)) /\ (LastSetAt(i)' <=> LastSetAt(i))
<1>1. ASSUME NEW i PROVE InBlock(i)' <=> InBlock(i)
  BY DEF InBlock
<1>2. ASSUME NEW i, NEW tag PROVE PairLine(i, tag)' <=> PairLine(i, tag)
  BY <1>1 DEF PairLine
<1>3. ASSUME NEW i PROVE (ListedAt(i)' <=> ListedAt(i)) /\ (SetAt(i)' <=> SetAt(i))
  BY <1>1, <1>2 DEF ListedAt, SetAt
<1>4. ASSUME NEW i PROVE (LastListedAt(i)' <=> LastListedAt(i)) /\ (LastSetAt(i)' <=> LastSetAt(i))
  BY <1>3 DEF LastListedAt, LastSetAt
<1>5. Regular' <=> Regular
  BY <1>1, <1>2 DEF Regular
<1>. QED
  BY <1>1, <1>2, <1>3, <1>4, <1>5
--------------------------------------------------------------------------------
(* The parser keeps track of the blocks. *)

\* The parts of a line of the kind that is looked for, with both of them there.
LEMMA CompleteParts ==
    ASSUME NEW l, NEW kind, l.kind = kind, l.tag # "", l.value # ""
    PROVE  /\ BothPresent(Parts(l, kind))
           /\ Parts(l, kind)[1] = l.tag /\ Parts(l, kind)[2] = l.value
<1>1. Parts(l, kind) = <<l.tag, l.value>>
  BY DEF Parts
<1>2. <<l.tag, l.value>>[1] = l.tag /\ <<l.tag, l.value>>[2] = l.value
  OBVIOUS
<1>3. Parts(l, kind)[1] = l.tag /\ Parts(l, kind)[2] = l.value
  BY <1>1, <1>2, Zenon
<1>4. BothPresent(Parts(l, kind))
  BY <1>3, Zenon DEF BothPresent
<1>. QED
  BY <1>3, <1>4

\* Between braces the parser is where the format says, in a file that keeps to it.
LEMMA NextTracked ==
    ASSUME TypeOK, Tracked, Next
    PROVE  Tracked'
<1>1. CASE EndOfFile
  BY <1>1 DEF EndOfFile, Tracked
<1>2. ASSUME NEW l \in Lines, ReadLine(l), Regular', mode' # "done", NEW n, n = Len(read)
      PROVE  /\ mode' \in {"users", "second"} <=> InBlock(n + 2)'
             /\ mode' = "second" <=> PairLine(n + 1, "login")'
             /\ mode' = "second" => login' = read'[n + 1].value
  <2>1. Grown(l, n) /\ l.kind \in Kinds /\ l.text # ""
    BY <1>2, ReadGrows, LinesAssumption
  <2>2. Regular /\ RegularEnd(l, n)
    BY <1>2, <2>1, RegularGrows
  <2>3. mode # "done"
    BY <1>2 DEF ReadLine, SkipEmpty, OpenUsers, Assign, CloseUsers, Login, Password
  <2>4. /\ mode \in {"users", "second"} <=> InBlock(n + 1)
        /\ mode = "second" <=> PairLine(n, "login")
    BY <1>2, <2>2, <2>3 DEF Tracked
  <2>5. InBlock(n + 2)' <=> l.kind = "open" \/ (InBlock(n + 1) /\ l.kind # "close")
    BY <2>1, BlocksGrow
  <2>6. PairLine(n + 1, "login")' <=> IsPair(l, n, "login")
    BY <2>1, LinesGrow
  <2>7. read'[n + 1] = l
    BY <2>1 DEF Grown
  <2>8. CASE SkipEmpty(l)
    BY <2>4, <2>5, <2>6, <2>8 DEF SkipEmpty, IsPair
  <2>9. CASE OpenUsers(l)
    BY <2>4, <2>5, <2>6, <2>9 DEF OpenUsers, IsPair
  <2>10. CASE Assign(l)
    BY <2>4, <2>5, <2>6, <2>10 DEF Assign, IsPair
  <2>11. CASE CloseUsers(l)
    BY <2>4, <2>5, <2>6, <2>11 DEF CloseUsers, IsPair
  <2>12. CASE Login(l)
    <3>1. IsPair(l, n, "login") /\ InBlock(n + 1)
      BY <2>2, <2>4, <2>12 DEF Login, RegularEnd
    <3>2. /\ BothPresent(Parts(l, "pair")) /\ Parts(l, "pair")[1] = "login"
          /\ Parts(l, "pair")[2] = l.value
      BY <3>1, CompleteParts DEF IsPair
    <3>3. mode' = "second" /\ login' = l.value
      BY <2>12, <3>2 DEF Login
    <3>4. l.kind # "close"
      BY <3>1 DEF IsPair
    <3>5. PairLine(n + 1, "login")'
      BY <2>6, <3>1
    <3>6. InBlock(n + 2)'
      BY <2>5, <3>1, <3>4
    <3>7. login' = read'[n + 1].value
      BY <2>7, <3>3
    <3>. QED
      BY <3>3, <3>5, <3>6, <3>7
  <2>13. CASE Password(l)
    <3>1. IsPair(l, n, "password") /\ InBlock(n + 1)
      BY <2>2, <2>4, <2>13 DEF Password, RegularEnd
    <3>2. l.kind = "pair" /\ l.tag = "password" /\ ~l.brace
      BY <3>1 DEF IsPair
    <3>3. mode' = "users"
      BY <2>13, <3>2 DEF Password
    <3>4. ~IsPair(l, n, "login")
      BY <3>2 DEF IsPair
    <3>. QED
      BY <2>5, <2>6, <3>1, <3>2, <3>3, <3>4
  <2>. QED
    BY <1>2, <2>8, <2>9, <2>10, <2>11, <2>12, <2>13 DEF ReadLine
<1>3. ASSUME NEW l \in Lines, ReadLine(l)
      PROVE  Tracked'
  <2>1. PICK n : n = Len(read)
    OBVIOUS
  <2>2. Len(read') = n + 1 /\ n \in Nat
    BY <1>3, <2>1, ReadGrows DEF Grown
  <2>3. Len(read') + 1 = n + 2
    BY <2>2
  <2>. QED
    BY <1>2, <1>3, <2>1, <2>2, <2>3 DEF Tracked
<1>. QED
  BY <1>1, <1>3 DEF Next

\* Without a brace in a comment it is so in any file.
LEMMA NextBlocks ==
    ASSUME TypeOK, BlocksTracked, Next
    PROVE  BlocksTracked'
<1>1. CASE EndOfFile
  BY <1>1 DEF EndOfFile, BlocksTracked
<1>2. ASSUME NEW l \in Lines, ReadLine(l), mode' # "done", \A i \in DOMAIN read' : ~read'[i].brace,
             NEW n, n = Len(read)
      PROVE  mode' \in {"users", "second"} <=> InBlock(n + 2)'
  <2>1. Grown(l, n)
    BY <1>2, ReadGrows
  <2>2. ~l.brace /\ \A i \in DOMAIN read : ~read[i].brace
    BY <1>2, <2>1 DEF Grown
  <2>3. mode # "done"
    BY <1>2 DEF ReadLine, SkipEmpty, OpenUsers, Assign, CloseUsers, Login, Password
  <2>4. mode \in {"users", "second"} <=> InBlock(n + 1)
    BY <1>2, <2>2, <2>3 DEF BlocksTracked
  <2>5. InBlock(n + 2)' <=> l.kind = "open" \/ (InBlock(n + 1) /\ l.kind # "close")
    BY <2>1, BlocksGrow
  <2>6. CASE SkipEmpty(l)
    BY <2>4, <2>5, <2>6 DEF SkipEmpty
  <2>7. CASE OpenUsers(l)
    BY <2>4, <2>5, <2>7 DEF OpenUsers
  <2>8. CASE Assign(l)
    BY <2>4, <2>5, <2>8 DEF Assign
  <2>9. CASE CloseUsers(l)
    BY <2>4, <2>5, <2>9 DEF CloseUsers
  <2>10. CASE Login(l)
    BY <2>4, <2>5, <2>10 DEF Login
  <2>11. CASE Password(l)
    BY <2>2, <2>4, <2>5, <2>11 DEF Password
  <2>. QED
    BY <1>2, <2>6, <2>7, <2>8, <2>9, <2>10, <2>11 DEF ReadLine
<1>3. ASSUME NEW l \in Lines, ReadLine(l)
      PROVE  BlocksTracked'
  <2>1. PICK n : n = Len(read)
    OBVIOUS
  <2>2. Len(read') + 1 = n + 2
    BY <1>3, <2>1, ReadGrows DEF Grown
  <2>. QED
    BY <1>2, <1>3, <2>1, <2>2 DEF BlocksTracked
<1>. QED
  BY <1>1, <1>3 DEF Next

--------------------------------------------------------------------------------
(* The users. *)

\* The lines before the last that list a user go on doing so; the last line lists the one
\* whose login stands before it, and no other.
LEMMA ListingsGrow ==
    ASSUME NEW l, NEW n, Grown(l, n)
    PROVE  /\ \A i \in 1 .. n - 1 : ListedAt(i)' <=> ListedAt(i)
           /\ ListedAt(n)' <=> PairLine(n, "login") /\ IsPair(l, n, "password")
           /\ ~ListedAt(n) /\ ~ListedAt(n + 1)'
<1>1. ASSUME NEW i \in 1 .. n - 1
      PROVE  ListedAt(i)' <=> ListedAt(i)
  <2>1. i \in 0 .. n /\ i + 1 \in 0 .. n
    BY DEF Grown
  <2>2. /\ PairLine(i, "login")' <=> PairLine(i, "login")
        /\ PairLine(i + 1, "password")' <=> PairLine(i + 1, "password")
    BY <2>1, LinesGrow
  <2>. QED
    BY <2>2 DEF ListedAt
<1>2. n \in 0 .. n /\ (n + 1) + 1 = n + 2
  BY DEF Grown
<1>3. /\ PairLine(n, "login")' <=> PairLine(n, "login")
      /\ PairLine(n + 1, "password")' <=> IsPair(l, n, "password")
      /\ ~PairLine(n + 1, "password") /\ ~PairLine(n + 2, "password")'
  BY <1>2, LinesGrow
<1>. QED
  BY <1>1, <1>2, <1>3 DEF ListedAt

\* The users are those listed, after every line.
LEMMA NextUsers ==
    ASSUME TypeOK, Tracked, UsersAsListed, Next
    PROVE  UsersAsListed'
<1>1. CASE EndOfFile
  <2>1. read' = read /\ users' = users
    BY <1>1 DEF EndOfFile
  <2>2. {i \in DOMAIN read : LastListedAt(i)'} = {i \in DOMAIN read : LastListedAt(i)}
    BY <2>1, SameFile
  <2>. QED
    BY <2>1, <2>2, SameFile DEF UsersAsListed
<1>2. ASSUME NEW l \in Lines, ReadLine(l), Regular'
      PROVE  /\ DOMAIN users' = {read'[i].value : i \in {i \in DOMAIN read' : LastListedAt(i)'}}
             /\ \A i \in {i \in DOMAIN read' : LastListedAt(i)'} : users'[read'[i].value] = read'[i + 1].value
  <2>1. PICK n : n = Len(read)
    OBVIOUS
  <2>2. Grown(l, n)
    BY <1>2, <2>1, ReadGrows
  <2>3. Regular /\ RegularEnd(l, n)
    BY <1>2, <2>2, RegularGrows
  <2>4. mode # "done"
    BY <1>2 DEF ReadLine, SkipEmpty, OpenUsers, Assign, CloseUsers, Login, Password
  <2>5. /\ mode \in {"users", "second"} <=> InBlock(n + 1)
        /\ mode = "second" <=> PairLine(n, "login")
        /\ mode = "second" => login = read[n].value
    BY <2>1, <2>3, <2>4 DEF Tracked
  <2>. DEFINE last == {i \in DOMAIN read : LastListedAt(i)}
              new == {i \in DOMAIN read' : LastListedAt(i)'}
  <2>6. DOMAIN users = {read[i].value : i \in last} /\ \A i \in last : users[read[i].value] = read[i + 1].value
    BY <2>3 DEF UsersAsListed
  <2>7. /\ n \in Nat /\ DOMAIN read = 1 .. n /\ DOMAIN read' = 1 .. n + 1
        /\ Len(read) = n /\ Len(read') = n + 1
        /\ \A i \in 1 .. n : read'[i] = read[i]
        /\ read'[n + 1] = l
    BY <2>2 DEF Grown
  <2>8. /\ \A i \in 1 .. n - 1 : ListedAt(i)' <=> ListedAt(i)
        /\ ListedAt(n)' <=> PairLine(n, "login") /\ IsPair(l, n, "password")
        /\ ~ListedAt(n) /\ ~ListedAt(n + 1)'
    BY <2>2, ListingsGrow
  <2>9. \A i \in last : i \in 1 .. n - 1
    BY <2>7, <2>8 DEF LastListedAt
  <2>10. CASE mode # "second"
    <3>1. ~ListedAt(n)'
      BY <2>5, <2>8, <2>10
    <3>2. users' = users
      BY <1>2, <2>10 DEF ReadLine, SkipEmpty, OpenUsers, Assign, CloseUsers, Login, Password
    <3>3. ASSUME NEW i \in 1 .. n + 1
          PROVE  LastListedAt(i)' <=> i \in last
      <4>1. CASE i \in 1 .. n - 1
        BY <2>7, <2>8, <3>1, <4>1 DEF LastListedAt
      <4>2. CASE i \notin 1 .. n - 1
        BY <2>7, <2>8, <2>9, <3>1, <4>2 DEF LastListedAt
      <4>. QED
        BY <4>1, <4>2
    <3>4. new = last
      BY <2>7, <2>9, <3>3
    <3>5. \A i \in last : read'[i] = read[i] /\ read'[i + 1] = read[i + 1]
      BY <2>7, <2>9
    <3>. QED
      BY <2>6, <3>2, <3>4, <3>5
  <2>11. CASE mode = "second"
    <3>1. IsPair(l, n, "password") /\ PairLine(n, "login") /\ login = read[n].value
      <4>1. IsPair(l, n, "password") /\ PairLine(n, "login")
        BY <2>3, <2>5, <2>11 DEF RegularEnd
      <4>. QED
        BY <2>5, <2>11, <4>1
    <3>2. n \in 1 .. n /\ ListedAt(n)'
      BY <2>7, <2>8, <3>1 DEF PairLine
    <3>3. users' = Entered(users, login, l.value)
      <4>1. Password(l)
        BY <1>2, <2>11 DEF ReadLine, SkipEmpty, OpenUsers, Assign, CloseUsers, Login
      <4>2. BothPresent(Parts(l, "pair")) /\ Parts(l, "pair")[2] = l.value
        BY <3>1, CompleteParts DEF IsPair
      <4>. QED
        BY <3>1, <4>1, <4>2 DEF Password, IsPair
    <3>4. /\ DOMAIN users' = DOMAIN users \cup {login}
          /\ users'[login] = l.value
          /\ \A t \in DOMAIN users \ {login} : users'[t] = users[t]
      BY <3>3 DEF Entered
    <3>5. ASSUME NEW i \in 1 .. n + 1
          PROVE  LastListedAt(i)' <=> i = n \/ (i \in last /\ read[i].value # login)
      <4>1. CASE i \in 1 .. n - 1
        <5>1. read'[i] = read[i] /\ read'[n] = read[n] /\ n \in i + 1 .. n + 1
          BY <2>7, <4>1
        <5>2. LastListedAt(i)' <=> LastListedAt(i) /\ read[n].value # read[i].value
          <6>1. ASSUME LastListedAt(i)' PROVE LastListedAt(i) /\ read[n].value # read[i].value
            BY <2>7, <2>8, <3>2, <4>1, <5>1, <6>1 DEF LastListedAt
          <6>2. ASSUME LastListedAt(i), read[n].value # read[i].value PROVE LastListedAt(i)'
            <7>1. ListedAt(i)'
              BY <2>8, <4>1, <6>2 DEF LastListedAt
            <7>2. ASSUME NEW j \in i + 1 .. n + 1, ListedAt(j)' PROVE read'[j].value # read'[i].value
              <8>1. j = n \/ j \in 1 .. n - 1
                BY <2>7, <2>8, <4>1, <7>2
              <8>2. CASE j = n
                BY <5>1, <6>2, <8>2
              <8>3. CASE j \in 1 .. n - 1
                <9>1. ListedAt(j) /\ j \in i + 1 .. Len(read) /\ read'[j] = read[j]
                  BY <2>7, <2>8, <4>1, <7>2, <8>3
                <9>. QED
                  BY <5>1, <6>2, <9>1 DEF LastListedAt
              <8>. QED
                BY <8>1, <8>2, <8>3
            <7>. QED
              BY <2>7, <7>1, <7>2 DEF LastListedAt
          <6>. QED
            BY <6>1, <6>2
        <5>. QED
          BY <2>7, <3>1, <4>1, <5>2
      <4>2. CASE i = n
        <5>1. ASSUME NEW j \in n + 1 .. n + 1 PROVE ~ListedAt(j)'
          BY <2>7, <2>8, <5>1
        <5>. QED
          BY <2>7, <3>2, <4>2, <5>1 DEF LastListedAt
      <4>3. CASE i = n + 1
        BY <2>7, <2>8, <2>9, <4>3 DEF LastListedAt
      <4>. QED
        BY <2>7, <4>1, <4>2, <4>3
    <3>6. new = {n} \cup {i \in last : read[i].value # login}
      BY <2>7, <2>9, <3>2, <3>5
    <3>7. \A i \in last : read'[i] = read[i] /\ read'[i + 1] = read[i + 1]
      BY <2>7, <2>9
    <3>8. read'[n] = read[n] /\ read'[n + 1] = l
      BY <2>7, <3>2
    <3>. HIDE DEF last, new
    <3>9. {read'[i].value : i \in new} = {login} \cup {read[i].value : i \in last}
      <4>1. ASSUME NEW i \in new PROVE read'[i].value \in {login} \cup {read[i_1].value : i_1 \in last}
        BY <3>1, <3>6, <3>7, <3>8
      <4>2. ASSUME NEW i \in last PROVE read[i].value \in {read'[j].value : j \in new}
        <5>1. CASE read[i].value = login
          BY <3>1, <3>6, <3>8, <5>1
        <5>2. CASE read[i].value # login
          BY <3>6, <3>7, <5>2
        <5>. QED
          BY <5>1, <5>2
      <4>3. login \in {read'[j].value : j \in new}
        BY <3>1, <3>6, <3>8
      <4>. QED
        BY <4>1, <4>2, <4>3
    <3>10. ASSUME NEW i \in new PROVE users'[read'[i].value] = read'[i + 1].value
      <4>1. CASE i = n
        BY <3>1, <3>4, <3>8, <4>1
      <4>2. CASE i # n
        <5>1. i \in last /\ read[i].value # login /\ read[i].value \in DOMAIN users
          BY <2>6, <3>6, <4>2
        <5>. QED
          BY <2>6, <3>4, <3>7, <5>1
      <4>. QED
        BY <4>1, <4>2
    <3>11. DOMAIN users' = {read'[i].value : i \in new}
      BY <2>6, <3>4, <3>9
    <3>. QED
      BY <3>10, <3>11 DEF new
  <2>. QED
    BY <2>10, <2>11
<1>. QED
  BY <1>1, <1>2 DEF Next, UsersAsListed
--------------------------------------------------------------------------------
(* The settings. *)

\* A setting that counts after one more line counted before, unless the line is it.
LEMMA SettingsGrow ==
    ASSUME NEW l, NEW n, Grown(l, n), NEW i \in 1 .. n, LastSetAt(i)'
    PROVE  /\ LastSetAt(i) /\ read'[i] = read[i] /\ l.text # read[i].tag
           /\ IsSetting(l, n) => l.tag # read[i].tag
<1>1. /\ n \in Nat /\ Len(read) = n /\ Len(read') = n + 1 /\ read'[n + 1] = l
      /\ \A j \in 1 .. n : read'[j] = read[j]
  BY DEF Grown
<1>2. (\A j \in 1 .. n : SetAt(j)' <=> SetAt(j)) /\ (SetAt(n + 1)' <=> IsSetting(l, n))
  BY LinesGrow
<1>3. SetAt(i)' /\ \A j \in i + 1 .. n + 1 :
          (SetAt(j)' => read'[j].tag # read'[i].tag) /\ read'[j].text # read'[i].tag
  BY <1>1 DEF LastSetAt
<1>4. n + 1 \in i + 1 .. n + 1
  BY <1>1
<1>5. \A j \in i + 1 .. n : j \in i + 1 .. n + 1 /\ j \in 1 .. n
  BY <1>1
<1>6. LastSetAt(i)
  BY <1>1, <1>2, <1>3, <1>5 DEF LastSetAt
<1>. QED
  BY <1>1, <1>2, <1>3, <1>4, <1>6

\* The settings are those written, after every line.
LEMMA NextSettings ==
    ASSUME TypeOK, Tracked, SettingsAsWritten, Next
    PROVE  SettingsAsWritten'
<1>1. CASE EndOfFile
  <2>1. read' = read /\ settings' = settings
    BY <1>1 DEF EndOfFile
  <2>. QED
    BY <2>1, SameFile DEF SettingsAsWritten
<1>2. ASSUME NEW l \in Lines, ReadLine(l), Regular', NEW i \in DOMAIN read', LastSetAt(i)'
      PROVE  read'[i].tag \in DOMAIN settings' /\ settings'[read'[i].tag] = read'[i].value
  <2>1. PICK n : n = Len(read)
    OBVIOUS
  <2>2. Grown(l, n)
    BY <1>2, <2>1, ReadGrows
  <2>3. Regular /\ RegularEnd(l, n)
    BY <1>2, <2>2, RegularGrows
  <2>4. mode # "done"
    BY <1>2 DEF ReadLine, SkipEmpty, OpenUsers, Assign, CloseUsers, Login, Password
  <2>5. mode \in {"users", "second"} <=> InBlock(n + 1)
    BY <2>1, <2>3, <2>4 DEF Tracked
  <2>6. /\ n \in Nat /\ DOMAIN read' = 1 .. n + 1 /\ DOMAIN read = 1 .. n
        /\ \A j \in 1 .. n : read'[j] = read[j]
        /\ read'[n + 1] = l
    BY <2>2 DEF Grown
  <2>7. CASE i = n + 1
    <3>1. IsSetting(l, n)
      <4>1. SetAt(n + 1)'
        BY <1>2, <2>7 DEF LastSetAt
      <4>. QED
        BY <2>2, <4>1, LinesGrow
    <3>2. Assign(l)
      BY <1>2, <2>4, <2>5, <3>1 DEF ReadLine, SkipEmpty, OpenUsers, CloseUsers, Login, Password, IsSetting
    <3>3. /\ BothPresent(Parts(l, "assign"))
          /\ Parts(l, "assign")[1] = l.tag /\ Parts(l, "assign")[2] = l.value
      <4>1. l.kind = "assign" /\ l.tag # "" /\ l.value # ""
        BY <3>1 DEF IsSetting
      <4>. QED
        BY <4>1, CompleteParts
    <3>4. settings' = Entered(settings, l.tag, l.value)
      BY <3>2, <3>3 DEF Assign
    <3>5. l.tag \in DOMAIN settings' /\ settings'[l.tag] = l.value
      BY <3>4 DEF Entered
    <3>. QED
      BY <2>6, <2>7, <3>5
  <2>8. CASE i # n + 1
    <3>1. i \in 1 .. n
      BY <2>6, <2>8
    <3>2. /\ LastSetAt(i) /\ read'[i] = read[i] /\ l.text # read[i].tag
          /\ IsSetting(l, n) => l.tag # read[i].tag
      BY <1>2, <2>2, <3>1, SettingsGrow
    <3>3. read[i].tag \in DOMAIN settings /\ settings[read[i].tag] = read[i].value
      BY <2>3, <2>6, <3>1, <3>2 DEF SettingsAsWritten
    <3>4. CASE settings' = settings
      BY <3>2, <3>3, <3>4
    <3>5. CASE settings' # settings
      <4>. DEFINE p == Parts(l, "assign")
      <4>1. Assign(l)
        BY <1>2, <3>5 DEF ReadLine, SkipEmpty, OpenUsers, CloseUsers, Login, Password
      <4>2. BothPresent(p) /\ settings' = Entered(settings, p[1], p[2])
        BY <3>5, <4>1 DEF Assign
      <4>3. p = IF l.kind = "assign" THEN <<l.tag, l.value>> ELSE <<l.text, l.text>>
        BY <4>2, PartsTyped
      <4>4. p[1] # read[i].tag
        <5>1. CASE l.kind = "assign"
          <6>1. l.tag # "" /\ l.value # "" /\ p[1] = l.tag
            <7>1. p = <<l.tag, l.value>>
              BY <4>3, <5>1
            <7>2. <<l.tag, l.value>>[1] = l.tag /\ <<l.tag, l.value>>[2] = l.value
              OBVIOUS
            <7>3. p[1] = l.tag /\ p[2] = l.value
              BY <7>1, <7>2, Zenon
            <7>4. p[1] # "" /\ p[2] # ""
              BY <4>2, Zenon DEF BothPresent
            <7>. QED
              BY <7>3, <7>4
          <6>2. ~InBlock(n + 1)
            BY <2>5, <4>1 DEF Assign
          <6>. QED
            BY <3>2, <5>1, <6>1, <6>2 DEF IsSetting
        <5>2. CASE l.kind # "assign"
          BY <3>2, <4>3, <5>2
        <5>. QED
          BY <5>1, <5>2
      <4>. HIDE DEF p
      <4>5. /\ DOMAIN settings' = DOMAIN settings \cup {p[1]}
            /\ \A t \in DOMAIN settings \ {p[1]} : settings'[t] = settings[t]
        BY <4>2 DEF Entered
      <4>. QED
        BY <3>2, <3>3, <4>4, <4>5
    <3>. QED
      BY <3>4, <3>5
  <2>. QED
    BY <2>7, <2>8
<1>. QED
  BY <1>1, <1>2 DEF Next, SettingsAsWritten

--------------------------------------------------------------------------------
(* The theorems. *)

\* At first nothing was read.
LEMMA InitInv == Init => IndInv
<1>. SUFFICES ASSUME Init PROVE IndInv
  OBVIOUS
<1>1. read = <<>> /\ Len(read) = 0 /\ DOMAIN read = {} /\ read \in Seq(Lines) /\ mode = "settings"
  <2>1. Len(<<>>) = 0 /\ <<>> \in Seq(Lines)
    OBVIOUS
  <2>2. DOMAIN <<>> = {}
    BY <2>1, LenProperties
  <2>. QED
    BY <2>1, <2>2 DEF Init
<1>2. DOMAIN settings = {} /\ DOMAIN users = {}
  BY DEF Init, NoEntries
<1>3. \A i : ~PairLine(i, "login") /\ ~InBlock(1)
  BY <1>1 DEF PairLine, InBlock
<1>4. TypeOK
  BY <1>1, <1>2 DEF Init, TypeOK
<1>5. Tracked /\ BlocksTracked
  BY <1>1, <1>3 DEF Tracked, BlocksTracked
<1>6. UsersAsListed /\ SettingsAsWritten
  BY <1>1, <1>2 DEF UsersAsListed, SettingsAsWritten
<1>. QED
  BY <1>4, <1>5, <1>6 DEF IndInv

\* Every step keeps the invariant.
LEMMA NextInv == IndInv /\ [Next]_vars => IndInv'
<1>. SUFFICES ASSUME IndInv, [Next]_vars PROVE IndInv'
  OBVIOUS
<1>1. CASE Next
  BY <1>1, NextTyped, NextTracked, NextBlocks, NextUsers, NextSettings DEF IndInv
<1>2. CASE UNCHANGED vars
  <2>1. read' = read /\ mode' = mode /\ login' = login /\ settings' = settings /\ users' = users
    BY <1>2 DEF vars
  <2>2. TypeOK'
    BY <2>1 DEF IndInv, TypeOK
  <2>3. Tracked'
    BY <2>1, SameFile DEF IndInv, Tracked
  <2>4. BlocksTracked'
    BY <2>1, SameFile DEF IndInv, BlocksTracked
  <2>5. SettingsAsWritten'
    BY <2>1, SameFile DEF IndInv, SettingsAsWritten
  <2>6. UsersAsListed'
    <3>1. {i \in DOMAIN read : LastListedAt(i)'} = {i \in DOMAIN read : LastListedAt(i)}
      BY <2>1, SameFile
    <3>. QED
      BY <2>1, <3>1, SameFile DEF IndInv, UsersAsListed
  <2>. QED
    BY <2>2, <2>3, <2>4, <2>5, <2>6 DEF IndInv
<1>. QED
  BY <1>1, <1>2

\* The inductive invariant of the parser, for files of any lines and any length.
THEOREM ParseInvariant == Spec => []IndInv
  BY InitInv, NextInv, PTL DEF Spec

\* The variables keep their types, and no entry of a map has an empty name or value.
THEOREM ParseTypes == Spec => []TypeOK
<1>1. IndInv => TypeOK
  BY DEF IndInv
<1>. QED
  BY <1>1, ParseInvariant, PTL

\* What is read is what the file says: the users of the braces with the passwords of
\* their last listing, the settings with their last value, and no closing brace is lost.
THEOREM FileIsRead == Spec => []ReadAsWritten
<1>1. IndInv => ReadAsWritten
  BY DEF IndInv, ReadAsWritten
<1>. QED
  BY <1>1, ParseInvariant, PTL
================================================================================
