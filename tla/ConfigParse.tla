------------------------------ MODULE ConfigParse ------------------------------
(***************************************************************************)
(* ConfigReader::parseFile and fillUsers (ConfigReader.cpp), line by line.  *)
(*                                                                          *)
(* A line is what the parser can tell of it: its kind once the comment is   *)
(* cut off, the two parts around its delimiter, its text as a whole, and    *)
(* whether a comment in it has a closing brace.  mode says which getline of *)
(* the source reads the next line: the one of parseFile ("settings"), the   *)
(* first of fillUsers ("users") or its second, for a password ("second").   *)
(***************************************************************************)
EXTENDS Naturals, Sequences

CONSTANTS
    Lines,          \* the lines a file may have
    MaxLines,       \* bound on the length of a file
    WideSize        \* is size_t wider than unsigned int?

Kinds == {"empty", "open", "close", "assign", "pair", "bare"}
Texts == UNION {{l.tag, l.value, l.text} : l \in Lines}

ASSUME LinesAssumption ==
    \A l \in Lines : l.kind \in Kinds /\ l.brace \in BOOLEAN /\ l.text # ""
ASSUME BoundAssumption == MaxLines \in Nat /\ WideSize \in BOOLEAN

VARIABLES
    read,       \* the lines read so far
    mode,       \* what reads the next line, or "done"
    login,      \* value1: the login that waits for its password
    settings,   \* m_ConfigSettingMap
    users       \* m_UsersData

vars == <<read, mode, login, settings, users>>

NoEntries == [t \in {} |-> ""]

Init ==
    /\ read = <<>> /\ mode = "settings" /\ login = ""
    /\ settings = NoEntries /\ users = NoEntries

\* The parts of a line around a delimiter, "=" for an assignment and ":" for a pair.  A
\* line without it: find() gives npos, kept in an unsigned int.  Where size_t is wider,
\* it is not npos any more, and both substr() calls return the whole line.
Parts(l, kind) ==
    CASE l.kind = kind -> <<l.tag, l.value>>
      [] l.kind # kind /\ WideSize -> <<l.text, l.text>>
      [] OTHER -> <<"", "">>

\* Seeded bugs: insert() alone, which leaves an entry alone; or empty parts let in.
EnteredOnce(entries, tag, value) ==
    [t \in DOMAIN entries \cup {tag} |-> IF t \in DOMAIN entries THEN entries[t] ELSE value]
BothPresentAlways(p) == TRUE

\* An entry is erased and inserted again: the last one counts.
Entered(entries, tag, value) ==
    [t \in DOMAIN entries \cup {tag} |-> IF t = tag THEN value ELSE entries[t]]

BothPresent(p) == p[1] # "" /\ p[2] # ""
--------------------------------------------------------------------------------
\* A line with nothing in front of its comment.
SkipEmpty(l) ==
    /\ mode \in {"settings", "users"} /\ l.kind = "empty"
    /\ UNCHANGED <<mode, login, settings, users>>

\* parseFile: a line with an opening brace starts the users.
OpenUsers(l) ==
    /\ mode = "settings" /\ l.kind = "open"
    /\ mode' = "users"
    /\ UNCHANGED <<login, settings, users>>

\* parseFile: any other line is a setting, if both its parts are there.
Assign(l) ==
    /\ mode = "settings" /\ l.kind \notin {"empty", "open"}
    /\ LET p == Parts(l, "assign")
       IN settings' = IF BothPresent(p) THEN Entered(settings, p[1], p[2]) ELSE settings
    /\ UNCHANGED <<mode, login, users>>

\* fillUsers: a closing brace ends the users.
CloseUsers(l) ==
    /\ mode = "users" /\ l.kind = "close"
    /\ mode' = "settings"
    /\ UNCHANGED <<login, settings, users>>

\* fillUsers: a login is kept for the next line; anything else is skipped.
Login(l) ==
    /\ mode = "users" /\ l.kind \notin {"empty", "close"}
    /\ LET p == Parts(l, "pair")
       IN IF BothPresent(p) /\ p[1] = "login"
          THEN mode' = "second" /\ login' = p[2]
          ELSE UNCHANGED <<mode, login>>
    /\ UNCHANGED <<settings, users>>

\* fillUsers, the line after a login: a brace anywhere in it, in a comment as well, ends
\* the users; the second part of a pair is the password, whatever the first one is; and
\* after a line without both parts the login is forgotten.
Password(l) ==
    /\ mode = "second" /\ login' = ""
    /\ IF l.kind = "close" \/ l.brace
       THEN mode' = "settings" /\ UNCHANGED users
       ELSE LET p == Parts(l, "pair")
            IN /\ mode' = "users"
               /\ users' = IF l.kind # "empty" /\ BothPresent(p)
                           THEN Entered(users, login, p[2]) ELSE users
    /\ UNCHANGED settings

ReadLine(l) ==
    /\ Len(read) < MaxLines /\ read' = Append(read, l)
    /\ \/ SkipEmpty(l) \/ OpenUsers(l) \/ Assign(l)
       \/ CloseUsers(l) \/ Login(l) \/ Password(l)

\* getline fails, in whichever loop: everything returns.
EndOfFile ==
    /\ mode # "done" /\ mode' = "done"
    /\ UNCHANGED <<read, login, settings, users>>

Next == EndOfFile \/ \E l \in Lines : ReadLine(l)

Spec == Init /\ [][Next]_vars
--------------------------------------------------------------------------------
(* What a file means, by the format config.txt describes: settings, and between *)
(* braces a login line and a password line for each user. *)

\* Line i stands between an opening brace and the closing one.
InBlock(i) ==
    \E j \in 1 .. i - 1 :
        read[j].kind = "open" /\ \A k \in j + 1 .. i - 1 : read[k].kind # "close"

PairLine(i, tag) ==
    i \in DOMAIN read /\ InBlock(i) /\ read[i].kind = "pair" /\ read[i].tag = tag
        /\ read[i].value # "" /\ ~read[i].brace

\* Between braces, every login has its password on the next line, and nothing else
\* but empty lines and comments stands there.
Regular ==
    \A i \in DOMAIN read : InBlock(i) =>
        \/ read[i].kind = "close" /\ ~PairLine(i - 1, "login")
        \/ read[i].kind = "empty" /\ ~PairLine(i - 1, "login")
        \/ PairLine(i, "login") /\ ~PairLine(i - 1, "login")
        \/ PairLine(i, "password") /\ PairLine(i - 1, "login")

\* The lines of a user that count: the last ones.
ListedAt(i) == PairLine(i, "login") /\ PairLine(i + 1, "password")
LastListedAt(i) ==
    ListedAt(i) /\ \A j \in i + 1 .. Len(read) : ListedAt(j) => read[j].value # read[i].value

SetAt(i) == read[i].kind = "assign" /\ ~InBlock(i) /\ read[i].tag # "" /\ read[i].value # ""
LastSetAt(i) ==
    SetAt(i) /\ \A j \in i + 1 .. Len(read) :
        (SetAt(j) => read[j].tag # read[i].tag) /\ read[j].text # read[i].tag

\* Type invariant; no entry is empty.
TypeOK ==
    /\ read \in Seq(Lines) /\ mode \in {"settings", "users", "second", "done"}
    /\ login \in Texts \cup {""} /\ (mode = "second" => login # "")
    /\ \A entries \in {settings, users} :
          \A t \in DOMAIN entries : {t, entries[t]} \subseteq Texts \ {""}

\* In a file that keeps to the format, the users are those listed, each with the
\* password of its last listing: none is lost and no password goes to another login.
UsersAsListed ==
    Regular =>
        LET last == {i \in DOMAIN read : LastListedAt(i)}
        IN /\ DOMAIN users = {read[i].value : i \in last}
           /\ \A i \in last : users[read[i].value] = read[i + 1].value

\* A setting has the value of its last line, as long as the users keep to the format:
\* what else the file has does not matter, but for a line that is the setting's name
\* without a delimiter (see Parts).
SettingsAsWritten ==
    Regular => \A i \in DOMAIN read :
        LastSetAt(i) => read[i].tag \in DOMAIN settings /\ settings[read[i].tag] = read[i].value

\* Without a brace in a comment the parser is among the users exactly between the
\* braces, in any file: a login without a password does not swallow the closing brace.
BlocksTracked ==
    mode # "done" /\ (\A i \in DOMAIN read : ~read[i].brace) =>
        (mode \in {"users", "second"} <=> InBlock(Len(read) + 1))

\* What is read from a file is what the file says.
ReadAsWritten == UsersAsListed /\ SettingsAsWritten /\ BlocksTracked
================================================================================
