---------------------------- MODULE PatternLists -----------------------------
(***************************************************************************)
(* The white- and blacklist of the global injector                         *)
(* (src/injection/injection.cpp).  The installing tool parses two files    *)
(* into arrays of patterns in the shared data segment and parses them      *)
(* again whenever the directory changes (SK_Inject_InitWhiteAndBlacklists, *)
(* SK_Inject_ParseWhiteAndBlacklists); every process the hook reaches      *)
(* searches them for its own name (SK_Inject_TestUserWhitelist and         *)
(* -Blacklist); removing the hook clears them (SKX_RemoveCBTHook).         *)
(* Nothing but the counts, which are plain integers, keeps them apart.     *)
(***************************************************************************)
EXTENDS Integers, Sequences

CONSTANTS Process,     \* the processes that search the lists
          Pattern,     \* the lines with a letter in them
          Matching,    \* those that match the name of the processes
          Invalid,     \* those that are no regular expressions
          Blank,       \* a line without a letter, or an empty pattern
          Torn,        \* a pattern that is half overwritten
          Content,     \* what the files may contain
          NoFile,
          Capacity,    \* patterns in an array
          MaxStarts, MaxEdits, MaxRemovals,  \* bounds
          MaxChanges   \* bound on edits and removals together

ASSUME PatternAssumption == /\ Matching \subseteq Pattern
                            /\ Invalid \subseteq Pattern \ Matching
                            /\ {Blank, Torn} \cap Pattern = {}
ASSUME ContentAssumption == /\ Content \subseteq Seq(Pattern \cup {Blank})
                            /\ \A c \in Content : Len(c) <= Capacity
ASSUME CapacityAssumption == Capacity \in Nat
ASSUME BoundAssumption ==
  {MaxStarts, MaxEdits, MaxRemovals, MaxChanges} \subseteq Nat

(* The lists in the order they are parsed and cleared.                     *)
List  == 1 .. 2
Index == 0 .. Capacity - 1

VARIABLES
  count,    \* shared: whitelist_count and blacklist_count
  patterns, \* shared: whitelist_patterns and blacklist_patterns
  file,     \* the contents of the two files
  sentinel, \* the parsing thread: off, open, line, store, publish, arm, wait
  cur,      \* the list it parses
  lines,    \* the lines it reads,
  pos,      \*   how many of them it has read
  n,        \*   and how many it has stored: its local count
  watched,  \* the watch on the directory: no, yes, closed
  changed,  \*   and whether it has been signalled
  clearing, \* SKX_RemoveCBTHook: 0, or what it clears next, in four steps
  reader,   \* each process: idle, check, match, thrown
  list, i,  \* the list a process searches and its loop counter
  verdict,  \* what its last search returned, FALSE until it has
  \* History variables.
  edits, removals, starts,
  expected, \* the patterns that a list should hold, in any order
  spoiled,  \* lists that were parsed and cleared at the same time
  disturbed,\* processes whose list was written during the search
  missed    \* a file was changed after it was read, before it was watched

shared == <<count, patterns>>
watch  == <<watched, changed>>
parse  == <<sentinel, cur, lines, pos, n, watch>>
search == <<reader, list, i, verdict>>
bounds == <<edits, removals, starts>>
notes  == <<expected, spoiled, disturbed, missed>>
vars   == <<shared, file, parse, clearing, search, bounds, notes>>

Init ==
  /\ count = [l \in List |-> 0]
  /\ patterns = [l \in List |-> [j \in Index |-> Blank]]
  /\ file \in [List -> Content \cup {NoFile}]
  /\ sentinel = "off" /\ cur = 1 /\ lines = <<>> /\ pos = 0 /\ n = 0
  /\ watched = "no" /\ changed = FALSE
  /\ clearing = 0
  /\ reader = [p \in Process |-> "idle"]
  /\ list = [p \in Process |-> 1]
  /\ i = [p \in Process |-> 0]
  /\ verdict = [p \in Process |-> FALSE]
  /\ edits = 0 /\ removals = 0 /\ starts = 0
  /\ expected = [l \in List |-> {}]
  /\ spoiled = {} /\ disturbed = {} /\ missed = FALSE

(* The lines with a letter, as a sequence and as a set.                    *)
Letters(s)  == SelectSeq(s, LAMBDA line : line # Blank)
Patterns(s) == {s[k] : k \in DOMAIN s} \ {Blank}

Parsing(l) == sentinel \in {"line", "store", "publish"} /\ cur = l

(* A list is written: the processes that search it may see any mixture.    *)
Disturb(l) == disturbed' = disturbed \cup
                {p \in Process : reader[p] # "idle" /\ list[p] = l}

Spoil(l, both) == spoiled' = IF both THEN spoiled \cup {l} ELSE spoiled

-----------------------------------------------------------------------------
(* Decisions of the code.  The operators named ...Slip are plausible       *)
(* mistakes the properties below are there to catch; no action uses them.  *)

BlankLinesSlip(line) == TRUE
Stored(line)         == line # Blank

InLoop(p)            == i[p] < count[list[p]]

ParsingDeafSlip      == watched = "yes" /\ sentinel = "wait"
Signalled            == watched = "yes"

PublishedCount       == n

-----------------------------------------------------------------------------
(* SK_Inject_InitWhiteAndBlacklists and SK_Inject_ParseWhiteAndBlacklists  *)

StartSentinel ==
  /\ sentinel = "off"
  /\ starts < MaxStarts /\ starts' = starts + 1
  /\ sentinel' = "open" /\ watched' = "no" /\ changed' = FALSE
  /\ UNCHANGED <<shared, file, cur, lines, pos, n, clearing, search, edits,
                 removals, notes>>

(* On with the next list, or with the watch on the directory.              *)
NextList ==
  /\ cur' = 3 - cur
  /\ sentinel' = IF cur = 1 THEN "open"
                 ELSE [no |-> "arm", yes |-> "wait", closed |-> "off"][watched]

(* The count is invalid until the list is parsed, and stays so if there is *)
(* no file.  The lines are those of the moment it is opened.               *)
OpenList ==
  /\ sentinel = "open"
  /\ count' = [count EXCEPT ![cur] = -1]
  /\ pos' = 0 /\ n' = 0
  /\ IF file[cur] = NoFile
     THEN NextList /\ lines' = <<>>
     ELSE sentinel' = "line" /\ lines' = file[cur] /\ UNCHANGED cur
  /\ expected' = [expected EXCEPT ![cur] = {}]
  /\ spoiled' = IF clearing \in 1 .. 2 * cur THEN spoiled \cup {cur}
                                             ELSE spoiled \ {cur}
  /\ Disturb(cur)
  /\ UNCHANGED <<patterns, file, watch, clearing, search, bounds, missed>>

(* A line with a letter is copied to the shared array at once.             *)
ReadLine ==
  /\ sentinel = "line"
  /\ \/ /\ pos = Len(lines)
        /\ sentinel' = "publish" /\ UNCHANGED <<patterns, pos>>
     \/ /\ pos < Len(lines) /\ Stored(lines[pos + 1])
        /\ patterns' = [patterns EXCEPT ![cur][n] = Torn]
        /\ sentinel' = "store" /\ UNCHANGED pos
     \/ /\ pos < Len(lines) /\ ~Stored(lines[pos + 1])
        /\ pos' = pos + 1 /\ UNCHANGED <<patterns, sentinel>>
  /\ Disturb(cur)
  /\ UNCHANGED <<count, file, cur, lines, n, watch, clearing, search, bounds,
                 expected, spoiled, missed>>

StorePattern ==
  /\ sentinel = "store"
  /\ patterns' = [patterns EXCEPT ![cur][n] = lines[pos + 1]]
  /\ n' = n + 1 /\ pos' = pos + 1
  /\ sentinel' = "line"
  /\ Disturb(cur)
  /\ UNCHANGED <<count, file, cur, lines, watch, clearing, search, bounds,
                 expected, spoiled, missed>>

Publish ==
  /\ sentinel = "publish"
  /\ count' = [count EXCEPT ![cur] = PublishedCount]
  /\ NextList
  /\ expected' = [expected EXCEPT ![cur] = Patterns(lines)]
  /\ lines' = <<>> /\ pos' = 0 /\ n' = 0
  /\ Disturb(cur)
  /\ UNCHANGED <<patterns, file, watch, clearing, search, bounds, spoiled,
                 missed>>

(* FindFirstChangeNotification, which may fail: the thread is done then.   *)
Arm ==
  /\ sentinel = "arm"
  /\ \/ sentinel' = "wait" /\ watched' = "yes"
     \/ sentinel' = "off" /\ UNCHANGED watched
  /\ UNCHANGED <<shared, file, cur, lines, pos, n, changed, clearing, search,
                 bounds, notes>>

ParseAgain ==
  /\ sentinel = "wait" /\ changed
  /\ sentinel' = "open" /\ changed' = FALSE
  /\ UNCHANGED <<shared, file, cur, lines, pos, n, watched, clearing, search,
                 bounds, notes>>

(* The tool's process ends, wherever the thread is.                        *)
SentinelEnds ==
  /\ sentinel # "off"
  /\ sentinel' = "off" /\ cur' = 1 /\ lines' = <<>> /\ pos' = 0 /\ n' = 0
  /\ watched' = "no" /\ changed' = FALSE
  /\ missed' = FALSE
  /\ UNCHANGED <<shared, file, clearing, search, bounds, expected, spoiled,
                 disturbed>>

AlreadyRead(l) == \/ sentinel = "arm"
                  \/ sentinel # "off" /\ (l < cur \/ Parsing(l))

(* Somebody edits, adds or deletes one of the files.  The watch notes a    *)
(* change that falls into a parse, too, until the thread waits again.      *)
EditFile(l) ==
  /\ edits < MaxEdits /\ edits + removals < MaxChanges
  /\ edits' = edits + 1
  /\ \E c \in (Content \cup {NoFile}) \ {file[l]} :
       file' = [file EXCEPT ![l] = c]
  /\ changed' = (changed \/ Signalled)
  /\ missed' = (missed \/ (AlreadyRead(l) /\ watched = "no"))
  /\ UNCHANGED <<shared, sentinel, cur, lines, pos, n, watched, clearing,
                 search, removals, starts, expected, spoiled, disturbed>>

-----------------------------------------------------------------------------
(* SKX_RemoveCBTHook, in the tool or in another process: the count of a    *)
(* list is cleared first, then its patterns.                               *)

(* FindCloseChangeNotification, in the tool.  The thread may be about to   *)
(* use the handle; if it waits on it, the wait may end or last forever.    *)
CloseWatch ==
  /\ watched = "yes" /\ watched' = "closed"
  /\ changed' \in {changed, TRUE}
  /\ \/ UNCHANGED sentinel
     \/ sentinel = "wait" /\ sentinel' = "off"

BeginClear ==
  /\ clearing = 0
  /\ removals < MaxRemovals /\ edits + removals < MaxChanges
  /\ removals' = removals + 1
  /\ clearing' = 1
  /\ \/ UNCHANGED parse
     \/ CloseWatch /\ UNCHANGED <<cur, lines, pos, n>>
  /\ UNCHANGED <<shared, file, search, edits, starts, notes>>

ClearCount(l) ==
  /\ clearing = 2 * l - 1 /\ clearing' = 2 * l
  /\ count' = [count EXCEPT ![l] = 0]
  /\ expected' = [expected EXCEPT ![l] = {}]
  /\ Disturb(l)
  /\ Spoil(l, Parsing(l))
  /\ UNCHANGED <<patterns, file, parse, search, bounds, missed>>

ClearPatterns(l) ==
  /\ clearing = 2 * l /\ clearing' = IF l = 2 THEN 0 ELSE 2 * l + 1
  /\ patterns' = [patterns EXCEPT ![l] = [j \in Index |-> Blank]]
  /\ Disturb(l)
  /\ Spoil(l, Parsing(l) \/ expected[l] # {})
  /\ UNCHANGED <<count, file, parse, search, bounds, expected, missed>>

-----------------------------------------------------------------------------
(* SK_Inject_TestUserWhitelist and SK_Inject_TestUserBlacklist             *)

Answer(p, found) == /\ reader' = [reader EXCEPT ![p] = "idle"]
                    /\ verdict' = [verdict EXCEPT ![p] = found]
                    /\ i' = [i EXCEPT ![p] = 0]

Test(p, l) ==
  /\ reader[p] = "idle"
  /\ list' = [list EXCEPT ![p] = l]
  /\ disturbed' = disturbed \ {p}
  /\ IF count[l] <= 0
     THEN Answer(p, FALSE)
     ELSE /\ reader' = [reader EXCEPT ![p] = "check"]
          /\ verdict' = [verdict EXCEPT ![p] = FALSE]
          /\ i' = [i EXCEPT ![p] = 0]
  /\ UNCHANGED <<shared, file, parse, clearing, bounds, expected, spoiled,
                 missed>>

Check(p) ==
  /\ reader[p] = "check"
  /\ IF InLoop(p)
     THEN reader' = [reader EXCEPT ![p] = "match"] /\ UNCHANGED <<i, verdict>>
     ELSE Answer(p, FALSE)
  /\ UNCHANGED <<shared, file, parse, clearing, list, bounds, notes>>

(* An empty expression matches every name.  What is no expression at all   *)
(* throws, and nobody up to DllMain catches it: the search has no answer,  *)
(* and there is not another one.                                           *)
Match(p) ==
  LET pattern == patterns[list[p]][i[p]] IN
  /\ reader[p] = "match"
  /\ \/ /\ pattern \in Matching \cup {Blank, Torn}
        /\ Answer(p, TRUE)
     \/ /\ pattern \in (Pattern \ (Matching \cup Invalid)) \cup {Torn}
        /\ i' = [i EXCEPT ![p] = @ + 1]
        /\ reader' = [reader EXCEPT ![p] = "check"] /\ UNCHANGED verdict
     \/ /\ pattern \in Invalid \cup {Torn}
        /\ reader' = [reader EXCEPT ![p] = "thrown"]
        /\ UNCHANGED <<i, verdict>>
  /\ UNCHANGED <<shared, file, parse, clearing, list, bounds, notes>>

ParseStep == \/ OpenList \/ ReadLine \/ StorePattern \/ Publish
             \/ Arm \/ ParseAgain

ClearStep == \E l \in List : ClearCount(l) \/ ClearPatterns(l)

SearchStep(p) == Check(p) \/ Match(p)

Next ==
  \/ StartSentinel \/ ParseStep \/ SentinelEnds \/ BeginClear \/ ClearStep
  \/ \E l \in List : EditFile(l)
  \/ \E p \in Process, l \in List : SearchStep(p) \/ Test(p, l)

(* Threads run; nobody is obliged to start one, to edit or to search.      *)
Spec == /\ Init /\ [][Next]_vars
        /\ WF_vars(ParseStep) /\ WF_vars(ClearStep)
        /\ \A p \in Process : WF_vars(SearchStep(p))

-----------------------------------------------------------------------------
(* A process is answered, at once or after it has looked at the patterns.  *)
Answered(p) == /\ SearchStep(p) \/ \E l \in List : Test(p, l)
               /\ reader'[p] = "idle"

(* A search that no write to its list overlaps, and that gives an answer,  *)
(* gives that of the file as it was last parsed: no, while a list is being *)
(* parsed, after it was cleared and when its file is missing.  Only a      *)
(* parse and a clear that overlap each other leave a list that is wrong    *)
(* for good.                                                               *)
QuietSearchRight ==
  [][\A p \in Process :
       Answered(p) /\ p \notin disturbed' /\ list'[p] \notin spoiled
       => verdict'[p] = (expected[list'[p]] \cap Matching # {})]_vars

Held(l) == [k \in 1 .. count[l] |-> patterns[l][k - 1]]

(* When nobody clears the lists and no change falls between the first      *)
(* reading of a file and the watch on it, the lists end up as the files.   *)
FreshInTheEnd ==
  <>[](sentinel # "off" /\ removals = 0 /\ ~missed) =>
    <>[](\A l \in List : Held(l) = IF file[l] = NoFile THEN <<>>
                                   ELSE Letters(file[l]))
=============================================================================
