------------------------- MODULE PatternListsProofs -------------------------
(***************************************************************************)
(* The searches of the white- and blacklist, for files of any content, any *)
(* number of processes that search, and edits, removals and starts at any  *)
(* time.                                                                   *)
(*                                                                         *)
(* An array in the shared segment is no match for its count while a parse  *)
(* or a clear is under way.  A search is right for all that if it is let   *)
(* alone, since the count keeps it out of the array until the array is     *)
(* whole: it is -1 during a parse (Filled), and 0 from the clearing of the *)
(* count on (Kept).                                                        *)
(***************************************************************************)
EXTENDS PatternLists, TLAPS

Entry == Pattern \cup {Blank, Torn}
Line  == Pattern \cup {Blank}

Reading  == {"idle", "check", "match", "thrown"}
Sentinel == {"off", "open", "line", "store", "publish", "arm", "wait"}

ListTypes ==
  /\ count \in [List -> -1 .. Capacity]
  /\ patterns \in [List -> [Index -> Entry]]
  /\ file \in [List -> Content \cup {NoFile}]
  /\ sentinel \in Sentinel /\ cur \in List
  /\ lines \in Seq(Line) /\ Len(lines) <= Capacity
  /\ pos \in 0 .. Len(lines) /\ n \in 0 .. pos
  /\ sentinel = "store" => pos < Len(lines)
  /\ watched \in {"no", "yes", "closed"}
  /\ reader \in [Process -> Reading]
  /\ list \in [Process -> List] /\ i \in [Process -> Nat]
  /\ verdict \in [Process -> BOOLEAN]
  /\ expected \in [List -> SUBSET Pattern]
  /\ spoiled \subseteq List /\ disturbed \subseteq Process

(* What the first k places of an array hold.                               *)
Places(l, k) == {patterns[l][j] : j \in 0 .. k - 1}

(* A list holds what it should, or nothing.                                *)
Kept(l) ==
  expected[l] = IF count[l] > 0 THEN Places(l, count[l]) ELSE {}

(* A parse keeps its list closed, and has copied the patterns among the    *)
(* lines that it has read.                                                 *)
Filled ==
  /\ count[cur] <= 0 /\ expected[cur] = {}
  /\ Places(cur, n) = {lines[k] : k \in 1 .. pos} \ {Blank}
  /\ sentinel = "store" => lines[pos + 1] # Blank
  /\ sentinel = "publish" => pos = Len(lines)

ListInv == \A l \in List \ spoiled : Kept(l) /\ (Parsing(l) => Filled)

(* A search that was let alone has not met a pattern that matches.         *)
Searched(p) ==
  /\ i[p] <= count[list[p]]
  /\ reader[p] = "match" => i[p] < count[list[p]]
  /\ \A j \in 0 .. i[p] - 1 :
       patterns[list[p]][j] \in (Pattern \ Matching) \cup {Torn}

SearchInv ==
  \A p \in Process \ disturbed : reader[p] # "idle" => Searched(p)

-----------------------------------------------------------------------------
(* Types.                                                                  *)

(* After a list comes the other one, or the watch, or the thread's end.    *)
LEMMA NextListTypes ==
  ASSUME cur \in List, watched \in {"no", "yes", "closed"}, NextList
  PROVE  cur' \in List /\ sentinel' \in {"open", "arm", "wait", "off"}
<1>1. cur' \in List
  BY DEF NextList, List
<1>2. [no |-> "arm", yes |-> "wait", closed |-> "off"][watched]
        \in {"arm", "wait", "off"}
  BY DEF NextList
<1>3. QED
  BY <1>1, <1>2 DEF NextList

(* The parser, the edits, the clearing and the searches keep the types.    *)
LEMMA TypesStep == ListTypes /\ [Next]_vars => ListTypes'
<1> SUFFICES ASSUME ListTypes, [Next]_vars PROVE ListTypes'
  OBVIOUS
<1> USE CapacityAssumption
<1>1. CASE UNCHANGED vars
  BY <1>1 DEF ListTypes, vars, shared, parse, watch, search, notes
<1>2. CASE StartSentinel
  BY <1>2 DEF StartSentinel, ListTypes, shared, search, notes, Sentinel
<1>3. CASE OpenList
  <2>1. count' \in [List -> -1 .. Capacity]
    BY <1>3 DEF OpenList, ListTypes
  <2>2. /\ cur' \in List /\ sentinel' \in Sentinel \ {"store"}
        /\ lines' \in Seq(Line) /\ Len(lines') <= Capacity
    <3>1. CASE file[cur] = NoFile
      <4>1. lines' = <<>> /\ NextList
        BY <1>3, <3>1 DEF OpenList
      <4>2. QED
        BY <4>1, NextListTypes DEF ListTypes, Sentinel
    <3>2. CASE file[cur] # NoFile
      <4>1. file[cur] \in Content
        BY <3>2 DEF ListTypes
      <4>2. QED
        BY <1>3, <3>2, <4>1, ContentAssumption
           DEF OpenList, ListTypes, Sentinel, Line
    <3>3. QED
      BY <3>1, <3>2
  <2>3. pos' \in 0 .. Len(lines') /\ n' \in 0 .. pos'
    BY <1>3, <2>2 DEF OpenList
  <2>4. expected' \in [List -> SUBSET Pattern] /\ spoiled' \subseteq List
    BY <1>3 DEF OpenList, ListTypes
  <2>5. QED
    BY <1>3, <2>1, <2>2, <2>3, <2>4
       DEF OpenList, Disturb, ListTypes, watch, search
<1>4. CASE ReadLine
  <2>1. patterns' \in [List -> [Index -> Entry]]
    <3>1. \/ patterns' = patterns
          \/ patterns' = [patterns EXCEPT ![cur][n] = Torn]
      BY <1>4 DEF ReadLine
    <3>2. patterns[cur] \in [Index -> Entry] /\ Torn \in Entry
      BY DEF ListTypes, Entry
    <3>3. [patterns[cur] EXCEPT ![n] = Torn] \in [Index -> Entry]
      BY <3>2
    <3>4. QED
      BY <3>1, <3>3 DEF ListTypes
  <2>2. pos' \in 0 .. Len(lines) /\ n \in 0 .. pos'
    BY <1>4 DEF ReadLine, ListTypes
  <2>3. /\ sentinel' \in Sentinel
        /\ sentinel' = "store" => pos' < Len(lines)
    BY <1>4 DEF ReadLine, ListTypes, Sentinel
  <2>4. QED
    BY <1>4, <2>1, <2>2, <2>3
       DEF ReadLine, Disturb, ListTypes, watch, search
<1>5. CASE StorePattern
  <2>1. pos < Len(lines) /\ lines[pos + 1] \in Line
    BY <1>5 DEF StorePattern, ListTypes
  <2>2. patterns' \in [List -> [Index -> Entry]]
    BY <1>5, <2>1 DEF StorePattern, ListTypes, Entry, Line
  <2>3. pos' \in 0 .. Len(lines) /\ n' \in 0 .. pos'
    BY <1>5, <2>1 DEF StorePattern, ListTypes
  <2>4. QED
    BY <1>5, <2>2, <2>3
       DEF StorePattern, Disturb, ListTypes, Sentinel, watch, search
<1>6. CASE Publish
  <2>1. count' \in [List -> -1 .. Capacity]
    BY <1>6 DEF Publish, PublishedCount, ListTypes
  <2>2. cur' \in List /\ sentinel' \in Sentinel \ {"store"}
    BY <1>6, NextListTypes DEF Publish, ListTypes, Sentinel
  <2>3. Patterns(lines) \subseteq Pattern
    BY DEF Patterns, ListTypes, Line
  <2>4. expected' \in [List -> SUBSET Pattern]
    BY <1>6, <2>3 DEF Publish, ListTypes
  <2>5. QED
    BY <1>6, <2>1, <2>2, <2>4 DEF Publish, Disturb, ListTypes, watch, search
<1>7. CASE Arm \/ ParseAgain
  BY <1>7 DEF Arm, ParseAgain, ListTypes, Sentinel, shared, search, notes
<1>8. CASE SentinelEnds
  BY <1>8 DEF SentinelEnds, ListTypes, Sentinel, List, Line, shared, search
<1>9. ASSUME NEW l \in List, EditFile(l) PROVE ListTypes'
  BY <1>9 DEF EditFile, ListTypes, shared, search
<1>10. CASE BeginClear
  BY <1>10 DEF BeginClear, CloseWatch, ListTypes, Sentinel, shared, parse,
               watch, search, notes
<1>11. ASSUME NEW l \in List, ClearCount(l) \/ ClearPatterns(l)
       PROVE  ListTypes'
  <2>1. count' \in [List -> -1 .. Capacity]
    <3>1. count' = count \/ count' = [count EXCEPT ![l] = 0]
      BY <1>11 DEF ClearCount, ClearPatterns
    <3>2. QED
      BY <3>1 DEF ListTypes
  <2>2. patterns' \in [List -> [Index -> Entry]]
    <3>1. \/ patterns' = patterns
          \/ patterns' = [patterns EXCEPT ![l] = [j \in Index |-> Blank]]
      BY <1>11 DEF ClearCount, ClearPatterns
    <3>2. [j \in Index |-> Blank] \in [Index -> Entry]
      BY DEF Entry
    <3>3. QED
      BY <3>1, <3>2 DEF ListTypes
  <2>3. expected' \in [List -> SUBSET Pattern] /\ spoiled' \subseteq List
    BY <1>11 DEF ClearCount, ClearPatterns, Spoil, ListTypes
  <2>4. QED
    BY <1>11, <2>1, <2>2, <2>3
       DEF ClearCount, ClearPatterns, Disturb, ListTypes, parse, watch, search
<1>12. ASSUME NEW p \in Process, NEW l \in List, SearchStep(p) \/ Test(p, l)
       PROVE  ListTypes'
  <2>1. /\ reader' \in [Process -> Reading]
        /\ list' \in [Process -> List] /\ i' \in [Process -> Nat]
        /\ verdict' \in [Process -> BOOLEAN]
    <3>1. /\ \/ reader' = reader
             \/ \E r \in Reading :
                  reader' = [reader EXCEPT ![p] = r]
          /\ \/ verdict' = verdict
             \/ \E v \in BOOLEAN : verdict' = [verdict EXCEPT ![p] = v]
      BY <1>12 DEF SearchStep, Check, Match, Test, Answer, Reading
    <3>2. list' = list \/ list' = [list EXCEPT ![p] = l]
      BY <1>12 DEF SearchStep, Check, Match, Test
    <3>3. i' = i \/ (\E k \in Nat : i' = [i EXCEPT ![p] = k])
      <4>1. i[p] + 1 \in Nat
        BY DEF ListTypes
      <4>2. QED
        BY <1>12, <4>1 DEF SearchStep, Check, Match, Test, Answer
    <3>4. reader' \in [Process -> Reading]
      BY <3>1 DEF ListTypes
    <3>5. verdict' \in [Process -> BOOLEAN]
      BY <3>1 DEF ListTypes
    <3>6. list' \in [Process -> List]
      BY <3>2 DEF ListTypes
    <3>7. i' \in [Process -> Nat]
      BY <3>3 DEF ListTypes
    <3>8. QED
      BY <3>4, <3>5, <3>6, <3>7
  <2>2. QED
    BY <1>12, <2>1 DEF SearchStep, Check, Match, Test, ListTypes, shared,
                       parse, watch, notes
<1>13. QED
  BY <1>1, <1>2, <1>3, <1>4, <1>5, <1>6, <1>7, <1>8, <1>9, <1>10, <1>11,
     <1>12 DEF Next, ParseStep, ClearStep

-----------------------------------------------------------------------------
(* The lists.                                                              *)

(* A list is the same if its count, its places, and what it should hold    *)
(* are, and if it was spoiled as little as before.                         *)
LEMMA KeptStays ==
  ASSUME NEW l \in List, Kept(l),
         count'[l] = count[l], patterns'[l] = patterns[l],
         expected'[l] = expected[l]
  PROVE  Kept(l)'
BY DEF Kept, Places

(* A parse that nobody meddles with is where it was.                       *)
LEMMA FilledStays ==
  ASSUME Filled, UNCHANGED parse, count'[cur] = count[cur],
         patterns'[cur] = patterns[cur], expected'[cur] = expected[cur]
  PROVE  Filled'
<1>1. Places(cur, n)' = Places(cur, n)
  BY DEF Places, parse
<1>2. QED
  BY <1>1 DEF Filled, parse

(* A parse keeps the list it works on closed until it is whole, and a      *)
(* clear closes it before it empties it; where both are at it at once the  *)
(* list is spoiled.                                                        *)
LEMMA ListStep == ListTypes /\ ListInv /\ [Next]_vars => ListInv'
<1> SUFFICES ASSUME ListTypes, ListInv, [Next]_vars,
                    NEW l \in List, l \notin spoiled'
             PROVE  Kept(l)' /\ (Parsing(l)' => Filled')
  BY DEF ListInv
<1> USE CapacityAssumption
<1>0. /\ l \notin spoiled => Kept(l)
      /\ l \notin spoiled /\ Parsing(l) => Filled
  BY DEF ListInv
<1>c. /\ \A k \in List : count[k] \in Int
      /\ n \in Nat /\ cur \in List
  BY DEF ListTypes
<1>1. ASSUME UNCHANGED <<shared, sentinel, cur, lines, pos, n, expected,
                         spoiled>>
      PROVE  Kept(l)' /\ (Parsing(l)' => Filled')
  <2>1. Kept(l)' <=> Kept(l)
    BY <1>1 DEF Kept, Places, shared
  <2>2. Parsing(l)' <=> Parsing(l)
    BY <1>1 DEF Parsing
  <2>3. Filled' <=> Filled
    BY <1>1 DEF Filled, Places, shared
  <2>4. QED
    BY <1>0, <1>1, <2>1, <2>2, <2>3
<1>2. ASSUME UNCHANGED <<shared, expected, spoiled>>, ~Parsing(l)'
      PROVE  Kept(l)'
  BY <1>0, <1>2, KeptStays DEF shared
<1>3. CASE OpenList
  <2>1. CASE l = cur
    <3>1. count'[l] = -1 /\ expected'[l] = {}
      BY <1>3, <2>1 DEF OpenList, ListTypes
    <3>2. Kept(l)'
      BY <3>1 DEF Kept
    <3>3. ASSUME Parsing(l)' PROVE Filled'
      <4>1. cur' = l /\ sentinel' \in {"line", "store", "publish"}
        BY <3>3 DEF Parsing
      <4>2. file[cur] # NoFile
        BY <1>3, <2>1, <4>1 DEF OpenList, NextList, ListTypes, List
      <4>3. sentinel' = "line" /\ pos' = 0 /\ n' = 0
        BY <1>3, <4>2 DEF OpenList
      <4>4. Places(cur, n)' = {} /\ {lines[k] : k \in 1 .. pos}' = {}
        BY <4>3 DEF Places
      <4>5. QED
        BY <3>1, <4>1, <4>3, <4>4 DEF Filled
    <3>4. QED
      BY <3>2, <3>3
  <2>2. CASE l # cur
    <3>1. /\ count'[l] = count[l] /\ expected'[l] = expected[l]
          /\ patterns' = patterns /\ l \notin spoiled
      BY <1>3, <2>2 DEF OpenList, ListTypes
    <3>2. Kept(l)'
      BY <1>0, <3>1, KeptStays
    <3>3. ~Parsing(l)'
      BY <1>3, <2>2 DEF OpenList, NextList, Parsing, ListTypes
    <3>4. QED
      BY <3>2, <3>3
  <2>3. QED
    BY <2>1, <2>2
<1>4. CASE ReadLine
  <2>1. /\ UNCHANGED <<count, expected, lines, n, cur, spoiled>>
        /\ sentinel = "line"
        /\ \A j \in 0 .. n - 1 : patterns'[cur][j] = patterns[cur][j]
        /\ l # cur => patterns'[l] = patterns[l]
    <3>1. \/ patterns' = patterns
          \/ patterns' = [patterns EXCEPT ![cur][n] = Torn]
      BY <1>4 DEF ReadLine
    <3>2. \A j \in 0 .. n - 1 : j # n /\ j \in Index
      <4>1. n <= Capacity /\ n \in Nat
        BY DEF ListTypes
      <4>2. QED
        BY <4>1 DEF Index
    <3>3. /\ \A j \in 0 .. n - 1 : patterns'[cur][j] = patterns[cur][j]
          /\ l # cur => patterns'[l] = patterns[l]
      <4>1. DOMAIN patterns = List /\ DOMAIN patterns[cur] = Index
        BY <1>c DEF ListTypes
      <4>2. \/ patterns'[cur] = patterns[cur]
            \/ patterns'[cur] = [patterns[cur] EXCEPT ![n] = Torn]
        BY <1>c, <3>1, <4>1
      <4>3. l # cur => patterns'[l] = patterns[l]
        BY <3>1, <4>1
      <4>4. QED
        BY <1>c, <3>2, <4>1, <4>2, <4>3
    <3>4. QED
      BY <1>4, <3>3 DEF ReadLine
  <2>2. CASE l = cur
    <3>1. Filled
      BY <1>0, <2>1, <2>2 DEF Parsing
    <3>2. Kept(l)'
      BY <1>c, <2>1, <2>2, <3>1 DEF Kept, Filled
    <3>3. Places(cur, n)' = Places(cur, n)
      BY <2>1 DEF Places
    <3>4. {lines[k] : k \in 1 .. pos}' \ {Blank}
            = {lines[k] : k \in 1 .. pos} \ {Blank}
      <4>1. CASE pos' = pos
        BY <2>1, <4>1
      <4>2. CASE pos' = pos + 1 /\ lines[pos + 1] = Blank
        <5>1. 1 .. pos' = (1 .. pos) \cup {pos + 1}
          BY <4>2 DEF ListTypes
        <5>2. QED
          BY <2>1, <4>2, <5>1
      <4>3. QED
        BY <1>4, <4>1, <4>2 DEF ReadLine, Stored
    <3>5. /\ sentinel' = "store" => lines[pos' + 1] # Blank
          /\ sentinel' = "publish" => pos' = Len(lines)
      BY <1>4 DEF ReadLine, Stored
    <3>6. QED
      BY <2>1, <3>1, <3>2, <3>3, <3>4, <3>5 DEF Filled
  <2>3. CASE l # cur
    BY <1>0, <2>1, <2>3, KeptStays DEF Parsing
  <2>4. QED
    BY <2>2, <2>3
<1>5. CASE StorePattern
  <2>1. /\ UNCHANGED <<count, expected, lines, cur, spoiled>>
        /\ sentinel = "store" /\ sentinel' = "line"
        /\ pos < Len(lines) /\ pos' = pos + 1 /\ n' = n + 1
        /\ n \in Index
        /\ \A j \in 0 .. n - 1 : patterns'[cur][j] = patterns[cur][j]
        /\ patterns'[cur][n] = lines[pos + 1]
        /\ l # cur => patterns'[l] = patterns[l]
    BY <1>5 DEF StorePattern, ListTypes, Index
  <2>2. CASE l = cur
    <3>1. Filled
      BY <1>0, <2>1, <2>2 DEF Parsing
    <3>2. Kept(l)'
      BY <1>c, <2>1, <2>2, <3>1 DEF Kept, Filled
    <3>3. Places(cur, n)' = Places(cur, n) \cup {lines[pos + 1]}
      <4>1. 0 .. n' - 1 = (0 .. n - 1) \cup {n}
        BY <1>c, <2>1
      <4>2. Places(cur, n)'
              = {patterns'[cur][j] : j \in (0 .. n - 1) \cup {n}}
        BY <2>1, <4>1 DEF Places
      <4>3. {patterns'[cur][j] : j \in (0 .. n - 1) \cup {n}}
              = {patterns'[cur][j] : j \in 0 .. n - 1} \cup {patterns'[cur][n]}
        OBVIOUS
      <4>4. {patterns'[cur][j] : j \in 0 .. n - 1} = Places(cur, n)
        BY <2>1 DEF Places
      <4>5. QED
        BY <2>1, <4>2, <4>3, <4>4
    <3>4. {lines[k] : k \in 1 .. pos}'
            = {lines[k] : k \in 1 .. pos} \cup {lines[pos + 1]}
      <4>1. 1 .. pos' = (1 .. pos) \cup {pos + 1}
        BY <2>1 DEF ListTypes
      <4>2. QED
        BY <2>1, <4>1
    <3>5. lines[pos + 1] # Blank
      BY <2>1, <3>1 DEF Filled
    <3>6. Places(cur, n)' = {lines[k] : k \in 1 .. pos}' \ {Blank}
      BY <3>1, <3>3, <3>4, <3>5 DEF Filled
    <3>7. QED
      BY <2>1, <3>1, <3>2, <3>6 DEF Filled
  <2>3. CASE l # cur
    BY <1>0, <2>1, <2>3, KeptStays DEF Parsing
  <2>4. QED
    BY <2>2, <2>3
<1>6. CASE Publish
  <2>1. /\ UNCHANGED <<patterns, spoiled>> /\ sentinel = "publish"
        /\ count'[cur] = n /\ expected'[cur] = Patterns(lines)
        /\ l # cur => count'[l] = count[l] /\ expected'[l] = expected[l]
    BY <1>6 DEF Publish, PublishedCount, ListTypes
  <2>2. ~Parsing(l)'
    BY <1>6, NextListTypes DEF Publish, Parsing, ListTypes
  <2>3. CASE l = cur
    <3>1. Filled
      BY <1>0, <2>1, <2>3 DEF Parsing
    <3>2. Places(cur, n) = Patterns(lines)
      <4>1. pos = Len(lines) /\ DOMAIN lines = 1 .. pos
        BY <2>1, <3>1 DEF Filled, ListTypes
      <4>2. QED
        BY <3>1, <4>1 DEF Filled, Patterns
    <3>3. n <= 0 => Places(cur, n) = {}
      BY DEF Places, ListTypes
    <3>4. Places(l, count[l])' = Places(cur, n)
      BY <2>1, <2>3 DEF Places
    <3>5. QED
      BY <1>c, <2>1, <2>2, <2>3, <3>2, <3>3, <3>4 DEF Kept
  <2>4. CASE l # cur
    BY <1>0, <2>1, <2>2, <2>4, KeptStays
  <2>5. QED
    BY <2>3, <2>4
<1>7. CASE StartSentinel \/ Arm \/ ParseAgain \/ SentinelEnds
  <2>1. UNCHANGED <<shared, expected, spoiled>> /\ ~Parsing(l)'
    BY <1>7 DEF StartSentinel, Arm, ParseAgain, SentinelEnds, Parsing, notes
  <2>2. QED
    BY <1>2, <2>1
<1>8. CASE BeginClear
  <2>1. \/ UNCHANGED <<shared, sentinel, cur, lines, pos, n, expected,
                       spoiled>>
        \/ UNCHANGED <<shared, expected, spoiled>> /\ ~Parsing(l)'
    BY <1>8 DEF BeginClear, CloseWatch, Parsing, parse, notes
  <2>2. QED
    BY <1>1, <1>2, <2>1
<1>9. ASSUME NEW k \in List, ClearCount(k)
      PROVE  Kept(l)' /\ (Parsing(l)' => Filled')
  <2>1. /\ UNCHANGED <<patterns, parse>> /\ l \notin spoiled
        /\ l # k => count'[l] = count[l] /\ expected'[l] = expected[l]
        /\ l = k => count'[l] = 0 /\ expected'[l] = {} /\ ~Parsing(l)
    BY <1>9 DEF ClearCount, Spoil, ListTypes
  <2>2. CASE l = k
    BY <2>1, <2>2 DEF Kept, Parsing, parse
  <2>3. CASE l # k
    <3>1. Kept(l)'
      BY <1>0, <2>1, <2>3, KeptStays
    <3>2. ASSUME Parsing(l) PROVE Filled'
      BY <1>0, <2>1, <2>3, <3>2, FilledStays DEF Parsing
    <3>3. QED
      BY <2>1, <3>1, <3>2 DEF Parsing, parse
  <2>4. QED
    BY <2>2, <2>3
<1>10. ASSUME NEW k \in List, ClearPatterns(k)
       PROVE  Kept(l)' /\ (Parsing(l)' => Filled')
  <2>1. /\ UNCHANGED <<count, expected, parse>> /\ l \notin spoiled
        /\ l # k => patterns'[l] = patterns[l]
        /\ l = k => expected[l] = {} /\ ~Parsing(l)
    BY <1>10 DEF ClearPatterns, Spoil, ListTypes
  <2>2. CASE l = k
    <3>1. ~(count[l] > 0)
      <4>1. SUFFICES ASSUME count[l] > 0 PROVE FALSE
        OBVIOUS
      <4>2. count[l] \in Int /\ 0 \in 0 .. count[l] - 1
        BY <4>1 DEF ListTypes
      <4>3. patterns[l][0] \in Places(l, count[l])
        BY <4>2 DEF Places
      <4>4. QED
        BY <1>0, <2>1, <2>2, <4>1, <4>3 DEF Kept
    <3>2. QED
      BY <2>1, <2>2, <3>1 DEF Kept, Parsing, parse
  <2>3. CASE l # k
    <3>1. Kept(l)'
      BY <1>0, <2>1, <2>3, KeptStays
    <3>2. ASSUME Parsing(l) PROVE Filled'
      BY <1>0, <2>1, <2>3, <3>2, FilledStays DEF Parsing
    <3>3. QED
      BY <2>1, <3>1, <3>2 DEF Parsing, parse
  <2>4. QED
    BY <2>2, <2>3
<1>11. ASSUME NEW k \in List, EditFile(k)
       PROVE  Kept(l)' /\ (Parsing(l)' => Filled')
  <2>1. UNCHANGED <<shared, sentinel, cur, lines, pos, n, expected, spoiled>>
    BY <1>11 DEF EditFile
  <2>2. QED
    BY <1>1, <2>1
<1>12. ASSUME NEW p \in Process, NEW k \in List, SearchStep(p) \/ Test(p, k)
       PROVE  Kept(l)' /\ (Parsing(l)' => Filled')
  BY <1>1, <1>12 DEF SearchStep, Check, Match, Test, parse, notes
<1>13. CASE UNCHANGED vars
  BY <1>1, <1>13 DEF vars, parse, notes
<1>14. QED
  BY <1>3, <1>4, <1>5, <1>6, <1>7, <1>8, <1>9, <1>10, <1>11, <1>12, <1>13
     DEF Next, ParseStep, ClearStep

-----------------------------------------------------------------------------
(* The searches.                                                           *)

(* A search that a step leaves alone looks at the list it looked at, as it *)
(* was.                                                                    *)
LEMMA LeftAlone ==
  ASSUME ListTypes, [Next]_vars, NEW p \in Process, p \notin disturbed',
         reader[p] # "idle", ~SearchStep(p)
  PROVE  /\ p \notin disturbed /\ reader'[p] = reader[p]
         /\ list'[p] = list[p] /\ i'[p] = i[p]
         /\ count'[list[p]] = count[list[p]]
         /\ patterns'[list[p]] = patterns[list[p]]
<1> USE DEF ListTypes
<1>1. CASE \/ StartSentinel \/ Arm \/ ParseAgain \/ SentinelEnds \/ BeginClear
           \/ \E l \in List : EditFile(l)
           \/ UNCHANGED vars
  BY <1>1 DEF StartSentinel, Arm, ParseAgain, SentinelEnds, BeginClear,
              EditFile, vars, shared, search, notes
<1>2. CASE OpenList \/ ReadLine \/ StorePattern \/ Publish
  <2>1. /\ Disturb(cur) /\ UNCHANGED search
        /\ \A l \in List \ {cur} : /\ count'[l] = count[l]
                                   /\ patterns'[l] = patterns[l]
    BY <1>2 DEF OpenList, ReadLine, StorePattern, Publish
  <2>2. QED
    BY <2>1 DEF Disturb, search
<1>3. ASSUME NEW k \in List, ClearCount(k) \/ ClearPatterns(k)
      PROVE  /\ p \notin disturbed /\ UNCHANGED search
             /\ count'[list[p]] = count[list[p]]
             /\ patterns'[list[p]] = patterns[list[p]]
  <2>1. /\ Disturb(k) /\ UNCHANGED search
        /\ \A l \in List \ {k} : /\ count'[l] = count[l]
                                 /\ patterns'[l] = patterns[l]
    BY <1>3 DEF ClearCount, ClearPatterns
  <2>2. QED
    BY <2>1 DEF Disturb
<1>4. ASSUME NEW q \in Process, NEW l \in List,
             SearchStep(q) \/ Test(q, l)
      PROVE  /\ p \notin disturbed /\ reader'[p] = reader[p]
             /\ list'[p] = list[p] /\ i'[p] = i[p] /\ UNCHANGED shared
  <2>1. q # p
    BY <1>4 DEF Test
  <2>2. QED
    BY <1>4, <2>1 DEF SearchStep, Check, Match, Test, Answer, notes
<1>5. QED
  BY <1>1, <1>2, <1>3, <1>4
     DEF Next, ParseStep, ClearStep, shared, search

(* A search begins with a list that is open, and goes on only past what    *)
(* does not match.                                                         *)
LEMMA SearchInvStep ==
  ListTypes /\ SearchInv /\ [Next]_vars => SearchInv'
<1> SUFFICES ASSUME ListTypes, SearchInv, [Next]_vars,
                    NEW p \in Process, p \notin disturbed',
                    reader'[p] # "idle"
             PROVE  Searched(p)'
  BY DEF SearchInv
<1> USE CapacityAssumption
<1>1. CASE SearchStep(p)
  <2>1. /\ UNCHANGED <<shared, list, disturbed>> /\ Searched(p)
    BY <1>1 DEF SearchStep, Check, Match, SearchInv, notes
  <2>2. CASE Check(p)
    <3>1. i' = i /\ reader'[p] = "match" /\ i[p] < count[list[p]]
      BY <1>1, <2>2 DEF Check, InLoop, Answer, ListTypes
    <3>2. QED
      BY <2>1, <3>1 DEF Searched, shared
  <2>3. CASE Match(p)
    <3>t. CASE reader'[p] = "thrown"
      <4>1. i'[p] = i[p]
        BY <2>3, <3>t DEF Match, Answer, ListTypes
      <4>2. QED
        BY <2>1, <3>t, <4>1 DEF Searched, shared
    <3>1. CASE /\ i'[p] = i[p] + 1 /\ reader'[p] = "check"
               /\ patterns[list[p]][i[p]] \in (Pattern \ Matching) \cup {Torn}
      <4>1. i[p] < count[list[p]]
        BY <2>1, <2>3 DEF Match, Searched
      <4>2. 0 .. i[p] + 1 - 1 = (0 .. i[p] - 1) \cup {i[p]}
        BY DEF ListTypes
      <4>3. i[p] + 1 <= count[list[p]]
        BY <4>1 DEF ListTypes
      <4>4. QED
        BY <2>1, <3>1, <4>2, <4>3 DEF Searched, shared
    <3>2. QED
      BY <2>3, <3>t, <3>1 DEF Match, Answer, ListTypes
  <2>4. QED
    BY <1>1, <2>2, <2>3 DEF SearchStep
<1>2. CASE reader[p] # "idle" /\ ~SearchStep(p)
  <2>1. Searched(p)
    BY <1>2, LeftAlone DEF SearchInv
  <2>2. QED
    BY <1>2, <2>1, LeftAlone DEF Searched
<1>3. CASE reader[p] = "idle"
  <2>1. PICK l \in List : Test(p, l)
    <3>1. reader' # reader
      BY <1>3
    <3>2. ~(StartSentinel \/ ParseStep \/ SentinelEnds \/ BeginClear
              \/ UNCHANGED vars)
      BY <3>1 DEF StartSentinel, ParseStep, OpenList, ReadLine, StorePattern,
                  Publish, Arm, ParseAgain, SentinelEnds, BeginClear, search,
                  vars
    <3>3. ~ClearStep /\ ~ \E l \in List : EditFile(l)
      BY <3>1 DEF ClearStep, ClearCount, ClearPatterns, EditFile, search
    <3>4. PICK q \in Process, l \in List : SearchStep(q) \/ Test(q, l)
      BY <3>2, <3>3 DEF Next
    <3>5. \A r \in Process \ {q} : reader'[r] = reader[r]
      BY <3>4 DEF SearchStep, Check, Match, Test, Answer, ListTypes
    <3>6. q = p
      BY <1>3, <3>5
    <3>7. ~SearchStep(p)
      BY <1>3 DEF SearchStep, Check, Match
    <3>8. QED
      BY <3>4, <3>6, <3>7
  <2>2. /\ list'[p] = l /\ i'[p] = 0 /\ reader'[p] = "check"
        /\ UNCHANGED shared /\ ~(count[l] <= 0)
    BY <2>1 DEF Test, Answer, ListTypes
  <2>3. 0 <= count[l] /\ 0 .. 0 - 1 = {}
    BY <2>2 DEF ListTypes
  <2>4. QED
    BY <2>2, <2>3 DEF Searched, shared
<1>4. QED
  BY <1>1, <1>2, <1>3

(* What the search of an answered process says is what its list holds.     *)
LEMMA AnswerRight ==
  ASSUME ListTypes, ListTypes', ListInv, SearchInv, NEW p \in Process,
         Answered(p), p \notin disturbed', list'[p] \notin spoiled
  PROVE  verdict'[p] = (expected[list'[p]] \cap Matching # {})
<1> USE CapacityAssumption
<1>1. ASSUME NEW l \in List, Test(p, l)
      PROVE  verdict'[p] = (expected[list'[p]] \cap Matching # {})
  <2>1. list'[p] = l /\ count[l] <= 0 /\ verdict'[p] = FALSE
    BY <1>1 DEF Test, Answered, Answer, ListTypes
  <2>2. expected[l] = {}
    <3>1. Kept(l)
      BY <2>1 DEF ListInv
    <3>2. ~(count[l] > 0)
      <4>1. count[l] \in Int
        BY DEF ListTypes
      <4>2. QED
        BY <2>1, <4>1
    <3>3. QED
      BY <3>1, <3>2 DEF Kept
  <2>3. QED
    BY <2>1, <2>2
<1>2. ASSUME SearchStep(p)
      PROVE  verdict'[p] = (expected[list'[p]] \cap Matching # {})
  <2> DEFINE l == list[p]
  <2>1. /\ l \in List /\ l \notin spoiled /\ list' = list
        /\ p \notin disturbed /\ reader[p] # "idle"
    BY <1>2 DEF SearchStep, Check, Match, notes, ListTypes
  <2>c. count[l] \in Int /\ i[p] \in Nat
    BY <2>1 DEF ListTypes
  <2>2. Kept(l) /\ Searched(p)
    BY <2>1 DEF ListInv, SearchInv
  <2>3. CASE Check(p)
    <3>1. ~(i[p] < count[l]) /\ verdict'[p] = FALSE
      BY <1>2, <2>3 DEF Check, InLoop, Answered, Answer, ListTypes
    <3>2. i[p] = count[l]
      BY <2>c, <2>2, <3>1 DEF Searched
    <3>3. ASSUME count[l] > 0 PROVE expected[l] \cap Matching = {}
      <4>1. expected[l] = {patterns[l][j] : j \in 0 .. i[p] - 1}
        BY <2>2, <3>2, <3>3 DEF Kept, Places
      <4>2. expected[l] \subseteq Pattern /\ Torn \notin Pattern
        BY <2>1, PatternAssumption DEF ListTypes
      <4>3. QED
        BY <2>2, <4>1, <4>2 DEF Searched
    <3>4. QED
      BY <2>1, <2>2, <3>1, <3>3 DEF Kept
  <2>4. CASE Match(p)
    <3>1. /\ verdict'[p] = TRUE
          /\ patterns[l][i[p]] \in Matching \cup {Blank, Torn}
      BY <1>2, <2>4 DEF Match, Answered, Answer, ListTypes
    <3>2. i[p] < count[l] /\ i[p] \in 0 .. count[l] - 1 /\ count[l] > 0
      BY <2>c, <2>2, <2>4 DEF Searched, Match
    <3>3. patterns[l][i[p]] \in expected[l]
      BY <2>2, <3>2 DEF Kept, Places
    <3>4. expected[l] \subseteq Pattern
      BY <2>1 DEF ListTypes
    <3>5. QED
      BY <2>1, <3>1, <3>3, <3>4, PatternAssumption
  <2>5. QED
    BY <1>2, <2>3, <2>4 DEF SearchStep
<1>3. QED
  BY <1>1, <1>2 DEF Answered

(* injection.cpp, SK_Inject_TestUserWhitelist and -Blacklist against the   *)
(* parser and the removal: a search that no write to its list overlaps     *)
(* gives the answer of the file, whatever the files hold, unless a parse   *)
(* and a clear of that list overlapped each other before.                  *)
THEOREM QuietSearchesAreRight == Spec => QuietSearchRight
<1>1. Init => ListTypes /\ ListInv /\ SearchInv
  <2> SUFFICES ASSUME Init PROVE ListTypes /\ ListInv /\ SearchInv
    OBVIOUS
  <2>1. ListTypes
    BY CapacityAssumption
       DEF Init, ListTypes, List, Entry, Line, Sentinel, Reading
  <2>2. ListInv
    BY DEF Init, ListInv, Kept, Parsing
  <2>3. SearchInv
    BY DEF Init, SearchInv
  <2>4. QED
    BY <2>1, <2>2, <2>3
<1>2. ListTypes /\ ListTypes' /\ ListInv /\ SearchInv /\ [Next]_vars =>
        [\A p \in Process :
           Answered(p) /\ p \notin disturbed' /\ list'[p] \notin spoiled
           => verdict'[p] = (expected[list'[p]] \cap Matching # {})]_vars
  BY AnswerRight
<1>3. QED
  BY <1>1, <1>2, TypesStep, ListStep, SearchInvStep, PTL
     DEF Spec, QuietSearchRight

=============================================================================
