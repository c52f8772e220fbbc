------------------------- MODULE TextureCacheProofs -------------------------
(***************************************************************************)
(* What TextureCache promises holds for any number of textures, contents   *)
(* and threads.                                                            *)
(***************************************************************************)
EXTENDS TextureCache, FiniteSetTheorems, TLAPS

Asking   == {"look", "read", "judge", "addref", "expel", "forget", "miss"}
Entering == {"lock", "write", "admit", "back", "insert"}
Purging  == {"collected", "purge", "release"}
Admitted == {"back", "insert"}  \* its reference is on the way

(* What a thread looks at when it stands at these stages.                  *)
Looking  == {"judge", "addref", "expel", "forget"}

TypeOK ==
  /\ gameRefs \in [Addr -> Nat] /\ cacheRefs \in [Addr -> Nat]
  /\ content \in [Addr -> Content]
  /\ entries \in [Tag -> Addr \cup {Null, Absent}]
  /\ reventries \in [Addr -> Tag \cup {Absent}]
  /\ Textures_2D \in [Addr \cup {Null} -> Descriptor \cup {Absent}]
  /\ stage \in [Thread ->
                  {"idle", "copy"} \cup Asking \cup Entering \cup Purging]
  /\ tag \in [Thread -> Tag \cup {NoTag}]
  /\ it \in [Thread -> Addr \cup {Null, Absent}]
  /\ mine \in [Thread -> Addr \cup {Absent}]
  /\ left \subseteq Addr

(* Loaders ask for and enter what they load, the rendering thread what it  *)
(* updates; the null pointer in an entry is never taken for a texture, and *)
(* what was found, or is to be released, has a descriptor.                 *)
Shape ==
  /\ \A p \in Thread :
       /\ stage[p] \in Asking \cup Entering \cup {"copy"} =>
            IF p = Render THEN /\ tag[p] \in {"update"} \X Content
                               /\ mine[p] \in Addr
                          ELSE tag[p] \in {"load"} \X Content
       /\ stage[p] \in Entering => mine[p] \in Addr
       /\ stage[p] \in Purging \cup {"copy", "write"} => p = Render
       /\ stage[p] \in Looking => it[p] # Absent
       /\ stage[p] \in {"addref", "copy", "release"} => it[p] \in Addr
       /\ stage[p] \in {"addref", "expel", "forget", "copy", "release"} =>
            Textures_2D[it[p]] # Absent
  /\ stage[Render] = "copy" => gameRefs[it[Render]] >= 1
  /\ ~Live(Null)
  /\ left # {} => stage[Render] \in Purging

(* An address that never had a descriptor belongs to at most one texture   *)
(* on its way into the cache, which only its creator refers to.            *)
Undescribed(a) ==
  /\ gameRefs[a] <= 1
  /\ \A p \in Thread :
       /\ mine[p] = a => gameRefs[a] = 1
       /\ \A q \in Thread : mine[p] = a /\ mine[q] = a => p = q
  /\ Cached(a) => \E p \in Thread : stage[p] = "insert" /\ mine[p] = a
  /\ a \notin left \cup shadowed

NewAddresses == \A a \in Addr : Textures_2D[a] = Absent => Undescribed(a)

ShapeInv == TypeOK /\ Shape /\ NewAddresses

(* Why a tag leads to a texture: it is being entered, it was entered under *)
(* that tag, or under another while a descriptor was there already.        *)
Explained(a, t) ==
  \/ \E p \in Thread : stage[p] \in Admitted /\ mine[p] = a /\ tag[p] = t
  \/ a \in shadowed
  \/ Textures_2D[a] # Absent /\ Textures_2D[a].tag = t

EntriesExplained ==
  /\ \A t \in Tag : entries[t] \in Addr => Explained(entries[t], t)
  /\ \A p \in Thread : stage[p] \in Looking /\ it[p] \in Addr =>
                         Explained(it[p], tag[p])

(* What is expelled is not what was asked for.                             *)
Misses ==
  \A p \in Thread :
    stage[p] \in {"expel", "forget"} =>
      ~Live(it[p]) \/ Textures_2D[it[p]].tag # tag[p]

(* Nobody enters a texture whose descriptor is live: a zombie stays one.   *)
Dead(a) == Live(a) => a \in orphaned

EnteredDead ==
  /\ \A p \in Thread : stage[p] \in Entering => Dead(mine[p])
  /\ \A a \in shadowed \cap Addr : Dead(a)
  /\ stage[Render] = "release" => Dead(it[Render])

(* A live descriptor has its reverse entry, and its reference; what is on  *)
(* the way to become one has them already.                                 *)
LiveLinked ==
  /\ \A a \in Addr : Live(a) => Cached(a) \/ a \in orphaned
  /\ \A p \in Thread :
       stage[p] \in Admitted /\ Textures_2D[mine[p]] = Absent =>
         /\ cacheRefs[mine[p]] > 0
         /\ stage[p] = "insert" => Cached(mine[p]) \/ mine[p] \in orphaned

LiveInv == /\ ShapeInv
           /\ EntriesExplained
           /\ Misses
           /\ EnteredDead
           /\ LiveLinked
           /\ LiveHeld

(* A texture is entered with the tag of what it holds.                     *)
EnteredTagged ==
  \A p \in Thread :
    /\ stage[p] \in {"lock", "admit", "back", "insert"}
    /\ Textures_2D[mine[p]] = Absent
    => content[mine[p]] = tag[p][2] \/ mine[p] \in written

(* A live descriptor has the tag of what the texture holds.                *)
TagTellsContent ==
  \A a \in Addr :
    Live(a) => \/ content[a] = Textures_2D[a].tag[2]
               \/ a \in written \cup orphaned

(* What a thread has found is what it looked for, until it is dropped.     *)
FoundLive ==
  \A p \in Thread :
    stage[p] = "addref" => Hit(p) \/ it[p] \in orphaned \/ p \in overtaken

(* The cache has no more references to a texture than are on their way,    *)
(* and k.                                                                  *)
Within(a, k) == cacheRefs[a] <= InTransit(a) + k

(* A texture a loader is entering was created when the cache did not hold  *)
(* anything at its address.                                                *)
LoadedUnheld ==
  \A l \in Loader :
    stage[l] \in {"lock", "admit", "back", "insert"} =>
      Within(mine[l], 0) \/ mine[l] \in shadowed \cup kept

(* While no reverse entry was lost, whatever the code is about to release  *)
(* is still held: what is to be evicted is live, and a texture with a      *)
(* reverse entry is held unless an update gave its reference back before.  *)
Releasing(a)   == stage[Render] = "release" /\ it[Render] = a
Spare(a)       == cacheRefs[a] > (IF Releasing(a) THEN 1 ELSE 0)
Blacklisted(a) == Textures_2D[a] # Absent /\ Textures_2D[a].tag \in blacklist

HeldUnlessLost ==
  orphaned = {} =>
    /\ \A a \in left : Live(a)
    /\ stage[Render] = "release" => cacheRefs[it[Render]] > 0
    /\ \A a \in Addr : Cached(a) => Spare(a) \/ Blacklisted(a)
    /\ \A p \in Thread : stage[p] = "back" =>
                           Spare(mine[p]) \/ Blacklisted(mine[p])

(* A zombie is a descriptor that kept its tag; none is Absent.             *)
LEMMA DescriptorFacts ==
  /\ \A d \in Descriptor : /\ Zombie(d) \in Descriptor
                           /\ ~Zombie(d).live
                           /\ Zombie(d).tag = d.tag
                           /\ d # Absent
  /\ \A t \in Tag \cup {NoTag}, b \in BOOLEAN :
       /\ [tag |-> t, live |-> b] \in Descriptor
       /\ [tag |-> t, live |-> b].tag = t
       /\ [tag |-> t, live |-> b].live = b
BY AddrAssumption DEF Descriptor, Zombie

(* Tags of loads and of updates are different tags, and tell the content.  *)
LEMMA TagFacts ==
  /\ NoTag \notin Tag /\ Absent \notin Tag
  /\ \A t \in Tag : t[2] \in Content
  /\ \A t \in {"load"} \X Content : t \in Tag
  /\ \A t \in {"update"} \X Content : t \in Tag
  /\ {"load"} \X Content \cap {"update"} \X Content = {}
  /\ \A c \in Content :
       /\ <<"load", c>> \in {"load"} \X Content /\ <<"load", c>>[2] = c
       /\ <<"update", c>> \in {"update"} \X Content /\ <<"update", c>>[2] = c
BY AddrAssumption DEF Tag

(* Whoever owns a texture is counted among its users.                      *)
LEMMA OwnersCount ==
  ASSUME NEW a \in Addr
  PROVE  /\ InUse(a) \in Nat
         /\ \A p \in Thread : mine[p] = a => InUse(a) >= 1
         /\ stage[Render] = "copy" /\ it[Render] = a => InUse(a) >= 1
<1> DEFINE Owners == {p \in Thread : mine[p] = a}
<1>1. IsFiniteSet(Thread)
  BY ThreadAssumption, FS_AddElement DEF Thread
<1>2. IsFiniteSet(Owners) /\ Cardinality(Owners) \in Nat
  BY <1>1, FS_Subset, FS_CardinalityType
<1>3. ASSUME NEW p \in Owners PROVE Cardinality(Owners) >= 1
  <2>1. Owners # {}
    BY <1>3
  <2>2. QED
    BY <1>2, <2>1, FS_EmptySet
<1>4. \A p \in Thread : mine[p] = a => p \in Owners
  OBVIOUS
<1>5. InUse(a) = Cardinality(Owners)
                 + (IF stage[Render] = "copy" /\ it[Render] = a THEN 1 ELSE 0)
  BY DEF InUse
<1> HIDE DEF Owners
<1>6. QED
  BY <1>2, <1>3, <1>4, <1>5

(* A texture that is about to be retired has a descriptor: its own update  *)
(* is under way, so it is not just being entered.                          *)
LEMMA RetiredDescribed ==
  ShapeInv /\ Retire => /\ mine[Render] \in Addr
                        /\ Textures_2D[mine[Render]] \in Descriptor
BY ThreadAssumption
   DEF ShapeInv, TypeOK, Shape, NewAddresses, Undescribed, Retire, Outdates,
       Asking, Thread

(* Every step keeps the types.                                             *)
LEMMA TypeStep == ShapeInv /\ [Next]_vars => TypeOK'
<1> SUFFICES ASSUME ShapeInv, [Next]_vars PROVE TypeOK'
  OBVIOUS
<1>t. TypeOK /\ Shape /\ NewAddresses
  BY DEF ShapeInv
<1>w. \A p \in Thread :
        /\ stage[p] \in Asking \cup Entering \cup {"copy"} =>
             tag[p] \in Tag /\ tag[p][2] \in Content
        /\ stage[p] \in Entering => mine[p] \in Addr
        /\ stage[p] \in Looking => it[p] \in Addr \cup {Null}
  BY <1>t, TagFacts DEF TypeOK, Shape
<1> USE <1>t, DescriptorFacts, TagFacts, ThreadAssumption
    DEF TypeOK, Goto, objects, maps, threads, purge, counts, history,
        Asking, Entering, Purging, Looking, Thread
<1>0. CASE UNCHANGED vars
  BY <1>0 DEF vars
<1>1. ASSUME NEW p \in Thread, Look(p) PROVE TypeOK'
  BY <1>1 DEF Look
<1>2. ASSUME NEW p \in Thread, Read(p) PROVE TypeOK'
  <2>1. tag[p] \in Tag /\ entries[tag[p]] \in Addr \cup {Null, Absent}
    BY <1>w, <1>2 DEF Read
  <2>2. Entry(tag[p]) \in Addr \cup {Null}
    BY <2>1 DEF Entry
  <2>3. QED
    BY <1>2, <2>1, <2>2 DEF Read
<1>3. ASSUME NEW p \in Thread, Judge(p) PROVE TypeOK'
  BY <1>3 DEF Judge
<1>4. ASSUME NEW p \in Thread, AddRef(p) PROVE TypeOK'
  BY <1>4 DEF AddRef, Done
<1>5. ASSUME NEW p \in Thread, Expel(p) PROVE TypeOK'
  BY <1>5, ZenonT(30) DEF Expel, Entry
<1>6. ASSUME NEW p \in Thread, Forget(p) PROVE TypeOK'
  <2>1. tag[p] \in Tag /\ it[p] \in Addr \cup {Null}
    BY <1>w, <1>6 DEF Forget
  <2>2. Textures_2D[it[p]] \in Descriptor
    BY <1>6, <2>1 DEF Forget, Shape
  <2>3. QED
    BY <1>6, <2>1, <2>2 DEF Forget
<1>7. ASSUME NEW p \in Thread, Ignore(p) PROVE TypeOK'
  BY <1>7 DEF Ignore, Done
<1>8. ASSUME NEW p \in Thread, Admit(p) PROVE TypeOK'
  <2>1. tag[p] \in Tag /\ mine[p] \in Addr
    BY <1>w, <1>8 DEF Admit
  <2>2. QED
    BY <1>8, <2>1 DEF Admit
<1>9. ASSUME NEW p \in Thread, LinkBack(p) PROVE TypeOK'
  <2>1. tag[p] \in Tag /\ mine[p] \in Addr
    BY <1>w, <1>9 DEF LinkBack
  <2>2. QED
    BY <1>9, <2>1 DEF LinkBack
<1>10. ASSUME NEW p \in Thread, Insert(p) PROVE TypeOK'
  <2>1. tag[p] \in Tag /\ mine[p] \in Addr
    BY <1>w, <1>10 DEF Insert
  <2>2. [tag |-> tag[p], live |-> TRUE] \in Descriptor
    BY <2>1
  <2>3. Textures_2D' \in [Addr \cup {Null} -> Descriptor \cup {Absent}]
    BY <1>10, <2>2 DEF Insert
  <2>4. QED
    BY <1>10, <2>3 DEF Insert, Done
<1>11. ASSUME NEW l \in Loader, NEW c \in Content, Load(l, c) PROVE TypeOK'
  BY <1>11 DEF Load
<1>12. ASSUME NEW l \in Loader, NEW a \in Addr, Create(l, a) PROVE TypeOK'
  <2>1. tag[l][2] \in Content
    BY <1>w, <1>12 DEF Create
  <2>2. QED
    BY <1>12, <2>1 DEF Create, MakeTexture
<1>13. ASSUME NEW l \in Loader, Lock(l) PROVE TypeOK'
  BY <1>13 DEF Lock
<1>14. ASSUME NEW a \in Addr, NEW c \in Content, CreateEmpty(a, c)
      PROVE  TypeOK'
  BY <1>14 DEF CreateEmpty, MakeTexture
<1>15. ASSUME NEW a \in Addr, NEW c \in Content, WriteUnseen(a, c)
      PROVE  TypeOK'
  BY <1>15 DEF WriteUnseen
<1>16. ASSUME NEW a \in Addr, NEW c \in Content, Update(a, c) PROVE TypeOK'
  BY <1>16 DEF Update
<1>17. ASSUME NEW a \in Addr, GameRelease(a) PROVE TypeOK'
  <2>1. gameRefs[a] - 1 \in Nat
    BY <1>17, OwnersCount DEF GameRelease
  <2>2. QED
    BY <1>17, <2>1 DEF GameRelease
<1>18. ASSUME NEW a \in Addr, Evict(a) PROVE TypeOK'
  <2>1. Textures_2D[a] \in Descriptor
    BY <1>18 DEF Evict, NewAddresses, Undescribed
  <2>2. entries' \in [Tag -> Addr \cup {Null, Absent}]
    BY <1>18 DEF Evict
  <2>3. Textures_2D' \in [Addr \cup {Null} -> Descriptor \cup {Absent}]
    BY <1>18, <2>1 DEF Evict
  <2>4. QED
    BY <1>18, <2>2, <2>3 DEF Evict
<1>19. CASE CopyCached
  <2>1. it[Render] \in Addr /\ mine[Render] \in Addr
    BY <1>19 DEF CopyCached, Shape
  <2>2. gameRefs[it[Render]] - 1 \in Nat
    BY <1>19, <2>1 DEF CopyCached, Shape
  <2>3. QED
    BY <1>19, <2>1, <2>2 DEF CopyCached, Done
<1>20. CASE Retire
  <2>1. mine[Render] \in Addr /\ Textures_2D[mine[Render]] \in Descriptor
    BY <1>20, RetiredDescribed
  <2>2. gameRefs' \in [Addr -> Nat] /\ cacheRefs' \in [Addr -> Nat]
    BY <1>20, <2>1 DEF Retire, TakeBack
  <2>3. Textures_2D' \in [Addr \cup {Null} -> Descriptor \cup {Absent}]
    BY <1>20, <2>1 DEF Retire
  <2>4. QED
    BY <1>20, <2>2, <2>3 DEF Retire
<1>21. CASE Write
  <2>1. tag[Render][2] \in Content
    BY <1>w, <1>21 DEF Write
  <2>2. QED
    BY <1>21, <2>1 DEF Write
<1>22. ASSUME NEW must \in BOOLEAN, Collect(must) PROVE TypeOK'
  BY <1>22 DEF Collect
<1>23. CASE LockAgain
  BY <1>23 DEF LockAgain
<1>24. CASE ReleaseEvicted
  BY <1>24 DEF ReleaseEvicted, TakeBack
<1>25. CASE EndPurge
  BY <1>25 DEF EndPurge, Done
<1> HIDE <1>t DEF TypeOK, Goto, objects, maps, threads, purge, counts,
                  history, Asking, Entering, Purging, Looking, Thread
<1>26. QED
  BY <1>0, <1>1, <1>2, <1>3, <1>4, <1>5, <1>6, <1>7, <1>8, <1>9, <1>10,
     <1>11, <1>12, <1>13, <1>14, <1>15, <1>16, <1>17, <1>18, <1>19, <1>20,
     <1>21, <1>22, <1>23, <1>24, <1>25
     DEF Next, Ask, Enter

(* Every step keeps the stages and what they say of a thread's variables.  *)
LEMMA ShapeStep == ShapeInv /\ [Next]_vars => Shape'
<1> SUFFICES ASSUME ShapeInv, [Next]_vars PROVE Shape'
  OBVIOUS
<1>t. TypeOK /\ Shape /\ NewAddresses /\ TypeOK'
  BY TypeStep DEF ShapeInv
<1> USE <1>t, DescriptorFacts, TagFacts, AddrAssumption, ThreadAssumption
    DEF TypeOK, Shape, Goto, Live, objects, maps, threads, purge, counts,
        history, Asking, Entering, Purging, Looking, Thread
<1>0. CASE UNCHANGED vars
  BY <1>0 DEF vars
<1>1. ASSUME NEW p \in Thread, Look(p) PROVE Shape'
  BY <1>1 DEF Look
<1>2. ASSUME NEW p \in Thread, Read(p) PROVE Shape'
  BY <1>2 DEF Read, Entry
<1>3. ASSUME NEW p \in Thread, Judge(p) PROVE Shape'
  <2>1. it[p] \in Addr \cup {Null} /\ stage[p] = "judge"
    BY <1>3 DEF Judge
  <2>2. /\ Textures_2D'[it[p]] # Absent
        /\ \A x \in Addr \cup {Null} :
             /\ Textures_2D[x] # Absent => Textures_2D'[x] = Textures_2D[x]
             /\ Textures_2D[x] = Absent =>
                  Textures_2D'[x] = Absent \/ ~Textures_2D'[x].live
    BY <1>3, <2>1 DEF Judge
  <2>3. Hit(p) => it[p] \in Addr
    BY <2>1 DEF Hit
  <2>4. stage' = [stage EXCEPT ![p] = IF Hit(p) THEN "addref" ELSE "expel"]
        /\ UNCHANGED <<gameRefs, tag, it, mine, left>>
    BY <1>3 DEF Judge
  <2>5. \A q \in Thread :
          stage'[q] \in {"addref", "copy", "release"} => it'[q] \in Addr
    BY <2>1, <2>3, <2>4
  <2>6. \A q \in Thread :
          stage'[q] \in {"addref", "expel", "forget", "copy", "release"} =>
            Textures_2D'[it'[q]] # Absent
    BY <2>1, <2>2, <2>4
  <2>7. ~Live(Null)' /\ (left' # {} => stage'[Render] \in Purging)
    BY <2>1, <2>2, <2>4
  <2>8. \A q \in Thread :
          /\ stage'[q] \in Asking \cup Entering \cup {"copy"} =>
               IF q = Render THEN /\ tag'[q] \in {"update"} \X Content
                                  /\ mine'[q] \in Addr
                             ELSE tag'[q] \in {"load"} \X Content
          /\ stage'[q] \in Entering => mine'[q] \in Addr
          /\ stage'[q] \in Purging \cup {"copy", "write"} => q = Render
          /\ stage'[q] \in Looking => it'[q] # Absent
    BY <2>1, <2>4
  <2>9. stage'[Render] = "copy" => gameRefs'[it'[Render]] >= 1
    BY <2>1, <2>4
  <2>10. QED
    BY <2>5, <2>6, <2>7, <2>8, <2>9
<1>4. ASSUME NEW p \in Thread, AddRef(p) PROVE Shape'
  BY <1>4 DEF AddRef, Done
<1>5. ASSUME NEW p \in Thread, Expel(p) PROVE Shape'
  BY <1>5 DEF Expel, Entry
<1>6. ASSUME NEW p \in Thread, Forget(p) PROVE Shape'
  <2>1. /\ it[p] \in Addr \cup {Null} /\ Textures_2D[it[p]] \in Descriptor
        /\ Textures_2D' = [Textures_2D EXCEPT ![it[p]] = Zombie(@)]
        /\ Zombie(Textures_2D[it[p]]) # Absent
    BY <1>6 DEF Forget
  <2>2. QED
    BY <1>6, <2>1 DEF Forget
<1>7. ASSUME NEW p \in Thread, Ignore(p) PROVE Shape'
  BY <1>7 DEF Ignore, Done
<1>8. ASSUME NEW p \in Thread, Admit(p) PROVE Shape'
  BY <1>8 DEF Admit
<1>9. ASSUME NEW p \in Thread, LinkBack(p) PROVE Shape'
  BY <1>9 DEF LinkBack
<1>10. ASSUME NEW p \in Thread, Insert(p) PROVE Shape'
  BY <1>10 DEF Insert, Done
<1>11. ASSUME NEW l \in Loader, NEW c \in Content, Load(l, c) PROVE Shape'
  BY <1>11 DEF Load
<1>12. ASSUME NEW l \in Loader, NEW a \in Addr, Create(l, a) PROVE Shape'
  BY <1>12 DEF Create, MakeTexture
<1>13. ASSUME NEW l \in Loader, Lock(l) PROVE Shape'
  BY <1>13 DEF Lock
<1>14. ASSUME NEW a \in Addr, NEW c \in Content, CreateEmpty(a, c)
      PROVE  Shape'
  BY <1>14 DEF CreateEmpty, MakeTexture
<1>15. ASSUME NEW a \in Addr, NEW c \in Content, WriteUnseen(a, c)
      PROVE  Shape'
  BY <1>15 DEF WriteUnseen
<1>16. ASSUME NEW a \in Addr, NEW c \in Content, Update(a, c) PROVE Shape'
  BY <1>16 DEF Update
<1>17. ASSUME NEW a \in Addr, GameRelease(a) PROVE Shape'
  <2>1. InUse(a) \in Nat
        /\ (stage[Render] = "copy" /\ it[Render] = a => InUse(a) >= 1)
    BY OwnersCount
  <2>2. stage[Render] = "copy" => gameRefs'[it[Render]] >= 1
    BY <1>17, <2>1 DEF GameRelease
  <2>3. QED
    BY <1>17, <2>2 DEF GameRelease
<1>18. ASSUME NEW a \in Addr, Evict(a) PROVE Shape'
  <2>1. Textures_2D[a] \in Descriptor
    BY <1>18 DEF Evict, NewAddresses, Undescribed
  <2>2. \A x \in Addr \cup {Null} :
          /\ Textures_2D[x] # Absent => Textures_2D'[x] # Absent
          /\ Textures_2D'[x] # Absent /\ Textures_2D'[x].live => Live(x)
    BY <1>18, <2>1 DEF Evict
  <2>3. /\ UNCHANGED <<gameRefs, tag, mine>> /\ left' \subseteq left
        /\ \/ UNCHANGED <<stage, it>>
           \/ /\ stage' = [stage EXCEPT ![Render] = "release"]
              /\ it' = [it EXCEPT ![Render] = a]
        /\ stage[Render] = "purge"
    BY <1>18 DEF Evict
  <2>4. CASE UNCHANGED <<stage, it>>
    BY <2>2, <2>3, <2>4
  <2>5. CASE /\ stage' = [stage EXCEPT ![Render] = "release"]
             /\ it' = [it EXCEPT ![Render] = a]
    BY <2>1, <2>2, <2>3, <2>5
  <2>6. QED
    BY <2>3, <2>4, <2>5
<1>19. CASE CopyCached
  BY <1>19 DEF CopyCached, Done
<1>20. CASE Retire
  BY <1>20 DEF Retire, TakeBack
<1>21. CASE Write
  BY <1>21 DEF Write
<1>22. ASSUME NEW must \in BOOLEAN, Collect(must) PROVE Shape'
  BY <1>22 DEF Collect
<1>23. CASE LockAgain
  BY <1>23 DEF LockAgain
<1>24. CASE ReleaseEvicted
  BY <1>24 DEF ReleaseEvicted, TakeBack
<1>25. CASE EndPurge
  BY <1>25 DEF EndPurge, Done
<1> HIDE <1>t DEF TypeOK, Shape, Goto, Live, objects, maps, threads,
                  purge, counts, history, Asking, Entering, Purging, Looking,
                  Thread
<1>26. QED
  BY <1>0, <1>1, <1>2, <1>3, <1>4, <1>5, <1>6, <1>7, <1>8, <1>9, <1>10,
     <1>11, <1>12, <1>13, <1>14, <1>15, <1>16, <1>17, <1>18, <1>19, <1>20,
     <1>21, <1>22, <1>23, <1>24, <1>25
     DEF Next, Ask, Enter

(* A descriptor stays, keeps its tag, and is never made live again.        *)
LEMMA DescriptorsLast ==
  ASSUME ShapeInv, [Next]_vars, NEW x \in Addr \cup {Null},
         Textures_2D[x] # Absent
  PROVE  /\ Textures_2D'[x] # Absent
         /\ Textures_2D'[x].tag = Textures_2D[x].tag
         /\ Live(x)' => Live(x)
<1> DEFINE Lasts == /\ Textures_2D'[x] # Absent
                    /\ Textures_2D'[x].tag = Textures_2D[x].tag
                    /\ Live(x)' => Live(x)
<1> SUFFICES Lasts
  OBVIOUS
<1>t. /\ TypeOK /\ Textures_2D[x] \in Descriptor
  BY DEF ShapeInv, TypeOK
<1>z. \A y \in Addr \cup {Null} :
        Textures_2D' = [Textures_2D EXCEPT ![y] = Zombie(@)] => Lasts
  <2> SUFFICES ASSUME NEW y \in Addr \cup {Null},
                      Textures_2D' = [Textures_2D EXCEPT ![y] = Zombie(@)]
               PROVE  Lasts
    OBVIOUS
  <2>1. CASE y = x
    <3>1. Textures_2D'[x] = Zombie(Textures_2D[x])
      BY <1>t, <2>1 DEF TypeOK
    <3>2. QED
      BY <1>t, <3>1, DescriptorFacts DEF Live
  <2>2. CASE y # x
    <3>1. Textures_2D'[x] = Textures_2D[x]
      BY <1>t, <2>2 DEF TypeOK
    <3>2. QED
      BY <3>1 DEF Live
  <2>3. QED
    BY <2>1, <2>2
<1>u. Textures_2D' = Textures_2D => Lasts
  BY DEF Live
<1> USE DEF objects, maps, threads
<1>0. CASE UNCHANGED vars
  BY <1>0, <1>u DEF vars
<1>1. ASSUME NEW p \in Thread, Look(p) PROVE Lasts
  BY <1>1, <1>u DEF Look
<1>2. ASSUME NEW p \in Thread, Read(p) PROVE Lasts
  BY <1>2, <1>u DEF Read
<1>3. ASSUME NEW p \in Thread, Judge(p) PROVE Lasts
  BY <1>3, <1>t DEF Judge, TypeOK, Live
<1>4. ASSUME NEW p \in Thread, AddRef(p) PROVE Lasts
  BY <1>4, <1>u DEF AddRef
<1>5. ASSUME NEW p \in Thread, Expel(p) PROVE Lasts
  BY <1>5, <1>u DEF Expel
<1>6. ASSUME NEW p \in Thread, Forget(p) PROVE Lasts
  BY <1>6, <1>z, <1>t DEF Forget, ShapeInv, Shape, TypeOK, Looking
<1>7. ASSUME NEW p \in Thread, Ignore(p) PROVE Lasts
  BY <1>7, <1>u DEF Ignore
<1>8. ASSUME NEW p \in Thread, Admit(p) PROVE Lasts
  BY <1>8, <1>u DEF Admit
<1>9. ASSUME NEW p \in Thread, LinkBack(p) PROVE Lasts
  BY <1>9, <1>u DEF LinkBack
<1>10. ASSUME NEW p \in Thread, Insert(p) PROVE Lasts
  BY <1>10, <1>t DEF Insert, TypeOK, Live
<1>11. ASSUME NEW l \in Loader, NEW c \in Content, Load(l, c) PROVE Lasts
  BY <1>11, <1>u DEF Load
<1>12. ASSUME NEW l \in Loader, NEW a \in Addr, Create(l, a) PROVE Lasts
  BY <1>12, <1>u DEF Create, MakeTexture
<1>13. ASSUME NEW l \in Loader, Lock(l) PROVE Lasts
  BY <1>13, <1>u DEF Lock
<1>14. ASSUME NEW a \in Addr, NEW c \in Content, CreateEmpty(a, c)
      PROVE  Lasts
  BY <1>14, <1>u DEF CreateEmpty, MakeTexture
<1>15. ASSUME NEW a \in Addr, NEW c \in Content, WriteUnseen(a, c)
      PROVE  Lasts
  BY <1>15, <1>u DEF WriteUnseen
<1>16. ASSUME NEW a \in Addr, NEW c \in Content, Update(a, c) PROVE Lasts
  BY <1>16, <1>u DEF Update
<1>17. ASSUME NEW a \in Addr, GameRelease(a) PROVE Lasts
  BY <1>17, <1>u DEF GameRelease
<1>18. ASSUME NEW a \in Addr, Evict(a) PROVE Lasts
  BY <1>18, <1>z, <1>u DEF Evict
<1>19. CASE CopyCached
  BY <1>19, <1>u DEF CopyCached
<1>20. CASE Retire
  BY <1>20, <1>z, RetiredDescribed DEF Retire
<1>21. CASE Write
  BY <1>21, <1>u DEF Write
<1>22. ASSUME NEW must \in BOOLEAN, Collect(must) PROVE Lasts
  BY <1>22, <1>u DEF Collect
<1>23. CASE LockAgain
  BY <1>23, <1>u DEF LockAgain
<1>24. CASE ReleaseEvicted
  BY <1>24, <1>u DEF ReleaseEvicted
<1>25. CASE EndPurge
  BY <1>25, <1>u DEF EndPurge
<1>26. QED
  BY <1>0, <1>1, <1>2, <1>3, <1>4, <1>5, <1>6, <1>7, <1>8, <1>9, <1>10,
     <1>11, <1>12, <1>13, <1>14, <1>15, <1>16, <1>17, <1>18, <1>19, <1>20,
     <1>21, <1>22, <1>23, <1>24, <1>25
     DEF Next, Ask, Enter

(* A texture gets company only once its address has a descriptor.          *)
LEMMA NewAddressesStep == ShapeInv /\ [Next]_vars => NewAddresses'
<1> SUFFICES ASSUME ShapeInv, [Next]_vars, NEW n \in Addr,
                    Textures_2D'[n] = Absent
             PROVE  Undescribed(n)'
  BY DEF NewAddresses
<1>t. TypeOK /\ Shape /\ TypeOK' /\ Shape'
  BY TypeStep, ShapeStep DEF ShapeInv
<1>n. Textures_2D[n] = Absent /\ Undescribed(n)
  BY DescriptorsLast DEF ShapeInv, NewAddresses
<1>c. /\ InUse(n) \in Nat
      /\ \A p \in Thread : mine[p] = n => InUse(n) >= 1
  BY OwnersCount
<1> USE <1>t, <1>n, TagFacts, AddrAssumption, ThreadAssumption
    DEF TypeOK, Undescribed, Cached, Goto, objects, maps, threads, purge,
        counts, history, Thread
<1>0. CASE UNCHANGED vars
  BY <1>0 DEF vars
<1>1. ASSUME NEW p \in Thread, Look(p) PROVE Undescribed(n)'
  BY <1>1 DEF Look
<1>2. ASSUME NEW p \in Thread, Read(p) PROVE Undescribed(n)'
  BY <1>2 DEF Read, Entry
<1>3. ASSUME NEW p \in Thread, Judge(p) PROVE Undescribed(n)'
  BY <1>3 DEF Judge
<1>4. ASSUME NEW p \in Thread, AddRef(p) PROVE Undescribed(n)'
  <2>1. it[p] \in Addr /\ it[p] # n
    BY <1>4 DEF AddRef, Shape
  <2>2. gameRefs'[n] = gameRefs[n]
        /\ UNCHANGED <<left, reventries, shadowed>>
    BY <1>4, <2>1 DEF AddRef
  <2>3. /\ \A q \in Thread : mine'[q] = n => mine[q] = n
        /\ \A q \in Thread : stage[q] = "insert" =>
                               stage'[q] = "insert" /\ mine'[q] = mine[q]
    BY <1>4, <2>1 DEF AddRef, Done
  <2>4. QED
    BY <2>2, <2>3
<1>5. ASSUME NEW p \in Thread, Expel(p) PROVE Undescribed(n)'
  BY <1>5 DEF Expel, Entry
<1>6. ASSUME NEW p \in Thread, Forget(p) PROVE Undescribed(n)'
  BY <1>6 DEF Forget
<1>7. ASSUME NEW p \in Thread, Ignore(p) PROVE Undescribed(n)'
  BY <1>7 DEF Ignore, Done
<1>8. ASSUME NEW p \in Thread, Admit(p) PROVE Undescribed(n)'
  BY <1>8 DEF Admit
<1>9. ASSUME NEW p \in Thread, LinkBack(p) PROVE Undescribed(n)'
  BY <1>9 DEF LinkBack
<1>10. ASSUME NEW p \in Thread, Insert(p) PROVE Undescribed(n)'
  <2>1. mine[p] \in Addr /\ tag[p] \in Tag
    BY <1>10 DEF Insert, Shape, Asking, Entering
  <2>2. mine[p] # n
    <3>1. [tag |-> tag[p], live |-> TRUE] # Absent
      BY <2>1, DescriptorFacts
    <3>2. Textures_2D'[mine[p]] # Absent
      BY <1>10, <2>1, <3>1 DEF Insert
    <3>3. QED
      BY <3>2
  <2>3. shadowed' \subseteq shadowed \cup {mine[p]}
    BY <1>10 DEF Insert
  <2>4. QED
    BY <1>10, <2>2, <2>3 DEF Insert, Done
<1>11. ASSUME NEW l \in Loader, NEW c \in Content, Load(l, c)
      PROVE  Undescribed(n)'
  BY <1>11 DEF Load
<1>12. ASSUME NEW l \in Loader, NEW a \in Addr, Create(l, a)
      PROVE  Undescribed(n)'
  BY <1>12 DEF Create, MakeTexture, Alive, Refs
<1>13. ASSUME NEW l \in Loader, Lock(l) PROVE Undescribed(n)'
  BY <1>13 DEF Lock
<1>14. ASSUME NEW a \in Addr, NEW c \in Content, CreateEmpty(a, c)
      PROVE  Undescribed(n)'
  BY <1>14 DEF CreateEmpty, MakeTexture, Alive, Refs
<1>15. ASSUME NEW a \in Addr, NEW c \in Content, WriteUnseen(a, c)
      PROVE  Undescribed(n)'
  BY <1>15 DEF WriteUnseen
<1>16. ASSUME NEW a \in Addr, NEW c \in Content, Update(a, c)
      PROVE  Undescribed(n)'
  BY <1>16, <1>c, SMTT(20) DEF Update
<1>17. ASSUME NEW a \in Addr, GameRelease(a) PROVE Undescribed(n)'
  BY <1>17, <1>c DEF GameRelease
<1>18. ASSUME NEW a \in Addr, Evict(a) PROVE Undescribed(n)'
  BY <1>18 DEF Evict, Cached
<1>19. CASE CopyCached
  <2>1. it[Render] \in Addr /\ it[Render] # n
    BY <1>19 DEF CopyCached, Shape
  <2>2. QED
    BY <1>19, <2>1 DEF CopyCached, Done
<1>20. CASE Retire
  <2>1. mine[Render] \in Addr /\ mine[Render] # n
    BY <1>20, RetiredDescribed, DescriptorFacts
  <2>2. QED
    BY <1>20, <2>1 DEF Retire, TakeBack
<1>21. CASE Write
  BY <1>21 DEF Write
<1>22. ASSUME NEW must \in BOOLEAN, Collect(must) PROVE Undescribed(n)'
  BY <1>22 DEF Collect, Live
<1>23. CASE LockAgain
  BY <1>23 DEF LockAgain
<1>24. CASE ReleaseEvicted
  <2>1. it[Render] \in Addr /\ it[Render] # n
    BY <1>24 DEF ReleaseEvicted, Shape
  <2>2. QED
    BY <1>24, <2>1 DEF ReleaseEvicted, TakeBack
<1>25. CASE EndPurge
  BY <1>25 DEF EndPurge, Done
<1>26. QED
  BY <1>0, <1>1, <1>2, <1>3, <1>4, <1>5, <1>6, <1>7, <1>8, <1>9, <1>10,
     <1>11, <1>12, <1>13, <1>14, <1>15, <1>16, <1>17, <1>18, <1>19, <1>20,
     <1>21, <1>22, <1>23, <1>24, <1>25
     DEF Next, Ask, Enter

(* The initial state has the shape.                                        *)
LEMMA ShapeInvInit == Init => ShapeInv
BY AddrAssumption, ThreadAssumption
   DEF Init, ShapeInv, TypeOK, Shape, NewAddresses, Undescribed, Cached,
       Live, Asking, Entering, Purging, Looking, Thread

(* ShapeInv is inductive.                                                  *)
LEMMA ShapeInvStep == ShapeInv /\ [Next]_vars => ShapeInv'
BY TypeStep, ShapeStep, NewAddressesStep DEF ShapeInv

-----------------------------------------------------------------------------
(* A texture's descriptor becomes live only as the texture's first         *)
(* descriptor, when it is entered.                                         *)
FirstInsert(p, a) == Insert(p) /\ mine[p] = a /\ Textures_2D[a] = Absent

(* Only the first insertion at an address makes a descriptor live.         *)
LEMMA LiveByInsert ==
  ASSUME ShapeInv, [Next]_vars, NEW a \in Addr, Live(a)', ~Live(a)
  PROVE  \E p \in Thread : FirstInsert(p, a)
<1> DEFINE Inserted == \E p \in Thread : FirstInsert(p, a)
<1> SUFFICES Inserted
  OBVIOUS
<1>t. TypeOK /\ Textures_2D[a] = Absent
  BY DescriptorsLast DEF ShapeInv
<1> USE <1>t DEF Live, objects, maps, threads
<1>0. CASE UNCHANGED vars
  BY <1>0 DEF vars
<1>1. ASSUME NEW p \in Thread, Look(p) PROVE Inserted
  BY <1>1 DEF Look
<1>2. ASSUME NEW p \in Thread, Read(p) PROVE Inserted
  BY <1>2 DEF Read
<1>3. ASSUME NEW p \in Thread, Judge(p) PROVE Inserted
  BY <1>3 DEF Judge, TypeOK
<1>4. ASSUME NEW p \in Thread, AddRef(p) PROVE Inserted
  BY <1>4 DEF AddRef
<1>5. ASSUME NEW p \in Thread, Expel(p) PROVE Inserted
  BY <1>5 DEF Expel
<1>6. ASSUME NEW p \in Thread, Forget(p) PROVE Inserted
  <2>1. it[p] # a /\ it[p] \in Addr \cup {Null}
    BY <1>6 DEF Forget, ShapeInv, Shape, TypeOK, Looking
  <2>2. QED
    BY <1>6, <2>1 DEF Forget, TypeOK
<1>7. ASSUME NEW p \in Thread, Ignore(p) PROVE Inserted
  BY <1>7 DEF Ignore
<1>8. ASSUME NEW p \in Thread, Admit(p) PROVE Inserted
  BY <1>8 DEF Admit
<1>9. ASSUME NEW p \in Thread, LinkBack(p) PROVE Inserted
  BY <1>9 DEF LinkBack
<1>10. ASSUME NEW p \in Thread, Insert(p) PROVE Inserted
  BY <1>10 DEF Insert, FirstInsert, TypeOK
<1>11. ASSUME NEW l \in Loader, NEW c \in Content, Load(l, c) PROVE Inserted
  BY <1>11 DEF Load
<1>12. ASSUME NEW l \in Loader, NEW b \in Addr, Create(l, b) PROVE Inserted
  BY <1>12 DEF Create, MakeTexture
<1>13. ASSUME NEW l \in Loader, Lock(l) PROVE Inserted
  BY <1>13 DEF Lock
<1>14. ASSUME NEW b \in Addr, NEW c \in Content, CreateEmpty(b, c)
      PROVE  Inserted
  BY <1>14 DEF CreateEmpty, MakeTexture
<1>15. ASSUME NEW b \in Addr, NEW c \in Content, WriteUnseen(b, c)
      PROVE  Inserted
  BY <1>15 DEF WriteUnseen
<1>16. ASSUME NEW b \in Addr, NEW c \in Content, Update(b, c) PROVE Inserted
  BY <1>16 DEF Update
<1>17. ASSUME NEW b \in Addr, GameRelease(b) PROVE Inserted
  BY <1>17 DEF GameRelease
<1>18. ASSUME NEW b \in Addr, Evict(b) PROVE Inserted
  <2>1. a # b
    BY <1>18 DEF Evict, ShapeInv, NewAddresses, Undescribed
  <2>2. QED
    BY <1>18, <2>1 DEF Evict, TypeOK
<1>19. CASE CopyCached
  BY <1>19 DEF CopyCached
<1>20. CASE Retire
  <2>1. mine[Render] # a /\ mine[Render] \in Addr
    BY <1>20, RetiredDescribed, DescriptorFacts
  <2>2. QED
    BY <1>20, <2>1 DEF Retire, TypeOK
<1>21. CASE Write
  BY <1>21 DEF Write
<1>22. ASSUME NEW must \in BOOLEAN, Collect(must) PROVE Inserted
  BY <1>22 DEF Collect
<1>23. CASE LockAgain
  BY <1>23 DEF LockAgain
<1>24. CASE ReleaseEvicted
  BY <1>24 DEF ReleaseEvicted
<1>25. CASE EndPurge
  BY <1>25 DEF EndPurge
<1>26. QED
  BY <1>0, <1>1, <1>2, <1>3, <1>4, <1>5, <1>6, <1>7, <1>8, <1>9, <1>10,
     <1>11, <1>12, <1>13, <1>14, <1>15, <1>16, <1>17, <1>18, <1>19, <1>20,
     <1>21, <1>22, <1>23, <1>24, <1>25
     DEF Next, Ask, Enter

(* What the history remembers stays remembered.                            *)
LEMMA HistoryGrows ==
  [Next]_vars => orphaned \subseteq orphaned' /\ shadowed \subseteq shadowed'
                 /\ kept \subseteq kept'
<1> SUFFICES ASSUME [Next]_vars
             PROVE  /\ orphaned \subseteq orphaned'
                    /\ shadowed \subseteq shadowed'
                    /\ kept \subseteq kept'
  OBVIOUS
<1> QED
  BY DEF Next, Ask, Enter, vars, history, Look, Read, Judge, AddRef, Expel,
         Forget, Ignore, Admit, LinkBack, Insert, Load, Create, MakeTexture,
         Lock,
         CreateEmpty, WriteUnseen, Update, GameRelease, Evict, CopyCached,
         Retire, Write, Collect, LockAgain, ReleaseEvicted, EndPurge

(* A thread whose reference is on the way keeps to its texture and tag     *)
(* until it has inserted the descriptor.                                   *)
LEMMA AdmittedStays ==
  ASSUME TypeOK, [Next]_vars, NEW q \in Thread, stage[q] \in Admitted
  PROVE  \/ Insert(q)
         \/ stage'[q] \in Admitted /\ mine'[q] = mine[q] /\ tag'[q] = tag[q]
<1> DEFINE Stays ==
      \/ Insert(q)
      \/ stage'[q] \in Admitted /\ mine'[q] = mine[q] /\ tag'[q] = tag[q]
<1> SUFFICES Stays
  OBVIOUS
<1> USE ThreadAssumption
    DEF TypeOK, Admitted, Goto, Done, Thread, objects, maps, threads
<1>0. CASE UNCHANGED vars
  BY <1>0 DEF vars
<1>1. ASSUME NEW p \in Thread, Look(p) PROVE Stays
  BY <1>1 DEF Look
<1>2. ASSUME NEW p \in Thread, Read(p) PROVE Stays
  BY <1>2 DEF Read
<1>3. ASSUME NEW p \in Thread, Judge(p) PROVE Stays
  BY <1>3 DEF Judge
<1>4. ASSUME NEW p \in Thread, AddRef(p) PROVE Stays
  BY <1>4 DEF AddRef
<1>5. ASSUME NEW p \in Thread, Expel(p) PROVE Stays
  BY <1>5 DEF Expel
<1>6. ASSUME NEW p \in Thread, Forget(p) PROVE Stays
  BY <1>6 DEF Forget
<1>7. ASSUME NEW p \in Thread, Ignore(p) PROVE Stays
  BY <1>7 DEF Ignore
<1>8. ASSUME NEW p \in Thread, Admit(p) PROVE Stays
  BY <1>8 DEF Admit
<1>9. ASSUME NEW p \in Thread, LinkBack(p) PROVE Stays
  BY <1>9 DEF LinkBack
<1>10. ASSUME NEW p \in Thread, Insert(p) PROVE Stays
  BY <1>10 DEF Insert
<1>11. ASSUME NEW l \in Loader, NEW c \in Content, Load(l, c) PROVE Stays
  BY <1>11 DEF Load
<1>12. ASSUME NEW l \in Loader, NEW a \in Addr, Create(l, a) PROVE Stays
  BY <1>12 DEF Create
<1>13. ASSUME NEW l \in Loader, Lock(l) PROVE Stays
  BY <1>13 DEF Lock
<1>14. ASSUME NEW a \in Addr, NEW c \in Content, CreateEmpty(a, c)
      PROVE  Stays
  BY <1>14 DEF CreateEmpty
<1>15. ASSUME NEW a \in Addr, NEW c \in Content, WriteUnseen(a, c)
      PROVE  Stays
  BY <1>15 DEF WriteUnseen
<1>16. ASSUME NEW a \in Addr, NEW c \in Content, Update(a, c) PROVE Stays
  BY <1>16 DEF Update
<1>17. ASSUME NEW a \in Addr, GameRelease(a) PROVE Stays
  BY <1>17 DEF GameRelease
<1>18. ASSUME NEW a \in Addr, Evict(a) PROVE Stays
  BY <1>18 DEF Evict
<1>19. CASE CopyCached
  BY <1>19 DEF CopyCached
<1>20. CASE Retire
  BY <1>20 DEF Retire
<1>21. CASE Write
  BY <1>21 DEF Write
<1>22. ASSUME NEW must \in BOOLEAN, Collect(must) PROVE Stays
  BY <1>22 DEF Collect
<1>23. CASE LockAgain
  BY <1>23 DEF LockAgain
<1>24. CASE ReleaseEvicted
  BY <1>24 DEF ReleaseEvicted
<1>25. CASE EndPurge
  BY <1>25 DEF EndPurge
<1>26. QED
  BY <1>0, <1>1, <1>2, <1>3, <1>4, <1>5, <1>6, <1>7, <1>8, <1>9, <1>10,
     <1>11, <1>12, <1>13, <1>14, <1>15, <1>16, <1>17, <1>18, <1>19, <1>20,
     <1>21, <1>22, <1>23, <1>24, <1>25
     DEF Next, Ask, Enter

(* What explains an entry goes on to explain it.                           *)
LEMMA ExplainedLasts ==
  ASSUME ShapeInv, [Next]_vars, NEW a \in Addr, NEW t \in Tag,
         Explained(a, t)
  PROVE  Explained(a, t)'
<1>1. CASE a \in shadowed
  BY <1>1, HistoryGrows DEF Explained
<1>2. CASE Textures_2D[a] # Absent /\ Textures_2D[a].tag = t
  BY <1>2, DescriptorsLast DEF Explained
<1>3. ASSUME NEW p \in Thread, stage[p] \in Admitted, mine[p] = a, tag[p] = t
      PROVE  Explained(a, t)'
  <2>1. CASE Insert(p) /\ Textures_2D[a] = Absent
    <3>1. Textures_2D'[a] = [tag |-> t, live |-> TRUE]
      BY <1>3, <2>1 DEF Insert, ShapeInv, TypeOK
    <3>2. QED
      BY <3>1, DescriptorFacts DEF Explained
  <2>2. CASE Insert(p) /\ Textures_2D[a] # Absent
    BY <1>3, <2>2 DEF Insert, Explained
  <2>3. CASE stage'[p] \in Admitted /\ mine'[p] = mine[p] /\ tag'[p] = tag[p]
    BY <1>3, <2>3 DEF Explained
  <2>4. QED
    BY <1>3, <2>1, <2>2, <2>3, AdmittedStays DEF ShapeInv
<1>4. QED
  BY <1>1, <1>2, <1>3 DEF Explained

(* Nobody but the thread that inserts it makes a texture live.             *)
LEMMA DeadLasts ==
  ASSUME ShapeInv, [Next]_vars, NEW a \in Addr, Dead(a),
         \A p \in Thread : ~FirstInsert(p, a)
  PROVE  Dead(a)'
BY LiveByInsert, HistoryGrows DEF Dead

(* Every step leaves each entry, and each find, an explanation.            *)
LEMMA EntriesExplainedStep ==
  ShapeInv /\ EntriesExplained /\ [Next]_vars => EntriesExplained'
<1> SUFFICES ASSUME ShapeInv, EntriesExplained, [Next]_vars
             PROVE  EntriesExplained'
  OBVIOUS
<1>t. TypeOK /\ Shape /\ TypeOK' /\ Shape'
  BY TypeStep, ShapeStep DEF ShapeInv
<1>e. \A a \in Addr, t \in Tag : Explained(a, t) => Explained(a, t)'
  BY ExplainedLasts
<1>s. ASSUME \A t \in Tag : entries'[t] \in Addr => entries'[t] = entries[t],
             \A p \in Thread : stage'[p] \in Looking /\ it'[p] \in Addr =>
               /\ stage[p] \in Looking
               /\ it'[p] = it[p] /\ tag'[p] = tag[p]
      PROVE  EntriesExplained'
  <2>1. \A p \in Thread : stage[p] \in Looking => tag[p] \in Tag
    BY <1>t, TagFacts DEF Shape, Asking, Looking
  <2>2. QED
    BY <1>s, <1>e, <2>1 DEF EntriesExplained
<1> USE <1>t, TagFacts, AddrAssumption, ThreadAssumption
    DEF TypeOK, Goto, Looking, Thread, objects, maps, threads
<1>0. CASE UNCHANGED vars
  BY <1>0, <1>s DEF vars
<1>1. ASSUME NEW p \in Thread, Look(p) PROVE EntriesExplained'
  BY <1>1, <1>s DEF Look
<1>2. ASSUME NEW p \in Thread, Read(p) PROVE EntriesExplained'
  <2>1. tag[p] \in Tag
    BY <1>2 DEF Read, Shape, Asking
  <2>2. \A t \in Tag : entries'[t] \in Addr => Explained(entries[t], t)'
    BY <1>2, <1>e, <2>1 DEF Read, Entry, EntriesExplained
  <2>3. it'[p] \in Addr => it'[p] = entries[tag[p]] /\ tag' = tag
    BY <1>2, <2>1 DEF Read, Entry
  <2>4. it'[p] \in Addr => Explained(it[p], tag[p])'
    BY <1>e, <2>1, <2>3 DEF EntriesExplained
  <2>5. \A q \in Thread \ {p} : stage'[q] = stage[q] /\ it'[q] = it[q]
                               /\ tag'[q] = tag[q]
    BY <1>2 DEF Read
  <2>6. \A q \in Thread \ {p} : stage[q] \in Looking => tag[q] \in Tag
    BY DEF Shape, Asking
  <2>7. \A q \in Thread \ {p} : stage'[q] \in Looking /\ it'[q] \in Addr =>
                               Explained(it[q], tag[q])'
    BY <1>e, <2>5, <2>6 DEF EntriesExplained
  <2>8. QED
    BY <2>2, <2>4, <2>7 DEF EntriesExplained
<1>3. ASSUME NEW p \in Thread, Judge(p) PROVE EntriesExplained'
  BY <1>3, <1>s DEF Judge
<1>4. ASSUME NEW p \in Thread, AddRef(p) PROVE EntriesExplained'
  BY <1>4, <1>s DEF AddRef, Done
<1>5. ASSUME NEW p \in Thread, Expel(p) PROVE EntriesExplained'
  BY <1>5, <1>s DEF Expel, Entry
<1>6. ASSUME NEW p \in Thread, Forget(p) PROVE EntriesExplained'
  BY <1>6, <1>s DEF Forget
<1>7. ASSUME NEW p \in Thread, Ignore(p) PROVE EntriesExplained'
  BY <1>7, <1>s DEF Ignore, Done
<1>8. ASSUME NEW p \in Thread, Admit(p) PROVE EntriesExplained'
  <2>1. tag[p] \in Tag /\ mine[p] \in Addr
    BY <1>8 DEF Admit, Shape, Asking, Entering
  <2>2. Explained(mine[p], tag[p])'
    BY <1>8 DEF Admit, Explained, Admitted
  <2>3. \A t \in Tag : entries'[t] \in Addr => Explained(entries[t], t)'
    BY <1>8, <1>e, <2>1, <2>2 DEF Admit, EntriesExplained
  <2>4. \A q \in Thread : stage'[q] \in Looking =>
          stage[q] \in Looking /\ it'[q] = it[q] /\ tag'[q] = tag[q]
    BY <1>8 DEF Admit
  <2>5. \A q \in Thread : stage[q] \in Looking => tag[q] \in Tag
    BY DEF Shape, Asking
  <2>6. \A q \in Thread : stage'[q] \in Looking /\ it'[q] \in Addr =>
                         Explained(it[q], tag[q])'
    BY <1>e, <2>4, <2>5 DEF EntriesExplained
  <2>7. QED
    BY <2>3, <2>6 DEF EntriesExplained
<1>9. ASSUME NEW p \in Thread, LinkBack(p) PROVE EntriesExplained'
  BY <1>9, <1>s DEF LinkBack
<1>10. ASSUME NEW p \in Thread, Insert(p) PROVE EntriesExplained'
  BY <1>10, <1>s DEF Insert, Done
<1>11. ASSUME NEW l \in Loader, NEW c \in Content, Load(l, c)
      PROVE  EntriesExplained'
  BY <1>11, <1>s DEF Load
<1>12. ASSUME NEW l \in Loader, NEW a \in Addr, Create(l, a)
      PROVE  EntriesExplained'
  BY <1>12, <1>s DEF Create, MakeTexture
<1>13. ASSUME NEW l \in Loader, Lock(l) PROVE EntriesExplained'
  BY <1>13, <1>s DEF Lock
<1>14. ASSUME NEW a \in Addr, NEW c \in Content, CreateEmpty(a, c)
      PROVE  EntriesExplained'
  BY <1>14, <1>s DEF CreateEmpty, MakeTexture
<1>15. ASSUME NEW a \in Addr, NEW c \in Content, WriteUnseen(a, c)
      PROVE  EntriesExplained'
  BY <1>15, <1>s DEF WriteUnseen
<1>16. ASSUME NEW a \in Addr, NEW c \in Content, Update(a, c)
      PROVE  EntriesExplained'
  BY <1>16, <1>s DEF Update
<1>17. ASSUME NEW a \in Addr, GameRelease(a) PROVE EntriesExplained'
  BY <1>17, <1>s DEF GameRelease
<1>18. ASSUME NEW a \in Addr, Evict(a) PROVE EntriesExplained'
  BY <1>18, <1>s DEF Evict
<1>19. CASE CopyCached
  BY <1>19, <1>s DEF CopyCached, Done
<1>20. CASE Retire
  BY <1>20, <1>s DEF Retire, TakeBack
<1>21. CASE Write
  BY <1>21, <1>s DEF Write
<1>22. ASSUME NEW must \in BOOLEAN, Collect(must) PROVE EntriesExplained'
  BY <1>22, <1>s DEF Collect
<1>23. CASE LockAgain
  BY <1>23, <1>s DEF LockAgain
<1>24. CASE ReleaseEvicted
  BY <1>24, <1>s DEF ReleaseEvicted, TakeBack
<1>25. CASE EndPurge
  BY <1>25, <1>s DEF EndPurge, Done
<1>26. QED
  BY <1>0, <1>1, <1>2, <1>3, <1>4, <1>5, <1>6, <1>7, <1>8, <1>9, <1>10,
     <1>11, <1>12, <1>13, <1>14, <1>15, <1>16, <1>17, <1>18, <1>19, <1>20,
     <1>21, <1>22, <1>23, <1>24, <1>25
     DEF Next, Ask, Enter

(* Nothing comes to match while it is being expelled.                      *)
LEMMA MissesStep == ShapeInv /\ Misses /\ [Next]_vars => Misses'
<1> SUFFICES ASSUME ShapeInv, Misses, [Next]_vars, NEW q \in Thread,
                    stage'[q] \in {"expel", "forget"}
             PROVE  (~Live(it[q]) \/ Textures_2D[it[q]].tag # tag[q])'
  BY DEF Misses
<1> DEFINE Missed == (~Live(it[q]) \/ Textures_2D[it[q]].tag # tag[q])'
<1>t. TypeOK /\ Shape /\ TypeOK' /\ Shape'
  BY TypeStep, ShapeStep DEF ShapeInv
<1>s. ASSUME stage[q] \in {"expel", "forget"}, it'[q] = it[q], tag'[q] = tag[q]
      PROVE  Missed
  <2>1. it[q] \in Addr \cup {Null} /\ Textures_2D[it[q]] # Absent
    BY <1>s, <1>t DEF TypeOK, Shape, Looking
  <2>2. QED
    BY <1>s, <2>1, DescriptorsLast DEF Misses
<1> USE <1>t, ThreadAssumption
    DEF TypeOK, Goto, Done, Thread, objects, maps, threads
<1>0. CASE UNCHANGED vars
  BY <1>0, <1>s DEF vars
<1>1. ASSUME NEW p \in Thread, Look(p) PROVE Missed
  BY <1>1, <1>s DEF Look
<1>2. ASSUME NEW p \in Thread, Read(p) PROVE Missed
  BY <1>2, <1>s DEF Read, Entry
<1>3. ASSUME NEW p \in Thread, Judge(p) PROVE Missed
  <2>1. it[p] \in Addr \cup {Null}
    BY <1>3 DEF Judge, Shape, Looking
  <2>2. CASE q = p
    <3>1. ~Hit(p) /\ it' = it /\ tag' = tag
      BY <1>3, <2>2 DEF Judge
    <3>2. \/ Textures_2D'[it[p]] = Textures_2D[it[p]]
          \/ ~Textures_2D'[it[p]].live
      BY <1>3, <2>1 DEF Judge
    <3>3. QED
      BY <2>2, <3>1, <3>2 DEF Hit, Live
  <2>3. CASE q # p
    BY <1>3, <1>s, <2>3 DEF Judge
  <2>4. QED
    BY <2>2, <2>3
<1>4. ASSUME NEW p \in Thread, AddRef(p) PROVE Missed
  BY <1>4, <1>s DEF AddRef, Done
<1>5. ASSUME NEW p \in Thread, Expel(p) PROVE Missed
  BY <1>5, <1>s DEF Expel, Entry
<1>6. ASSUME NEW p \in Thread, Forget(p) PROVE Missed
  BY <1>6, <1>s DEF Forget
<1>7. ASSUME NEW p \in Thread, Ignore(p) PROVE Missed
  BY <1>7, <1>s DEF Ignore, Done
<1>8. ASSUME NEW p \in Thread, Admit(p) PROVE Missed
  BY <1>8, <1>s DEF Admit
<1>9. ASSUME NEW p \in Thread, LinkBack(p) PROVE Missed
  BY <1>9, <1>s DEF LinkBack
<1>10. ASSUME NEW p \in Thread, Insert(p) PROVE Missed
  BY <1>10, <1>s DEF Insert, Done
<1>11. ASSUME NEW l \in Loader, NEW c \in Content, Load(l, c) PROVE Missed
  BY <1>11, <1>s DEF Load
<1>12. ASSUME NEW l \in Loader, NEW a \in Addr, Create(l, a) PROVE Missed
  BY <1>12, <1>s DEF Create, MakeTexture
<1>13. ASSUME NEW l \in Loader, Lock(l) PROVE Missed
  BY <1>13, <1>s DEF Lock
<1>14. ASSUME NEW a \in Addr, NEW c \in Content, CreateEmpty(a, c)
      PROVE  Missed
  BY <1>14, <1>s DEF CreateEmpty, MakeTexture
<1>15. ASSUME NEW a \in Addr, NEW c \in Content, WriteUnseen(a, c)
      PROVE  Missed
  BY <1>15, <1>s DEF WriteUnseen
<1>16. ASSUME NEW a \in Addr, NEW c \in Content, Update(a, c) PROVE Missed
  BY <1>16, <1>s DEF Update
<1>17. ASSUME NEW a \in Addr, GameRelease(a) PROVE Missed
  BY <1>17, <1>s DEF GameRelease
<1>18. ASSUME NEW a \in Addr, Evict(a) PROVE Missed
  BY <1>18, <1>s DEF Evict
<1>19. CASE CopyCached
  BY <1>19, <1>s DEF CopyCached, Done
<1>20. CASE Retire
  BY <1>20, <1>s DEF Retire, TakeBack
<1>21. CASE Write
  BY <1>21, <1>s DEF Write
<1>22. ASSUME NEW must \in BOOLEAN, Collect(must) PROVE Missed
  BY <1>22, <1>s DEF Collect
<1>23. CASE LockAgain
  BY <1>23, <1>s DEF LockAgain
<1>24. CASE ReleaseEvicted
  BY <1>24, <1>s DEF ReleaseEvicted, TakeBack
<1>25. CASE EndPurge
  BY <1>25, <1>s DEF EndPurge, Done
<1>26. QED
  BY <1>0, <1>1, <1>2, <1>3, <1>4, <1>5, <1>6, <1>7, <1>8, <1>9, <1>10,
     <1>11, <1>12, <1>13, <1>14, <1>15, <1>16, <1>17, <1>18, <1>19, <1>20,
     <1>21, <1>22, <1>23, <1>24, <1>25
     DEF Next, Ask, Enter

(* What is entered, shadowed or released does not come to life.            *)
LEMMA EnteredDeadStep == LiveInv /\ [Next]_vars => EnteredDead'
<1> SUFFICES ASSUME LiveInv, [Next]_vars PROVE EnteredDead'
  OBVIOUS
<1>i. ShapeInv /\ EnteredDead /\ LiveLinked /\ LiveHeld
  BY DEF LiveInv
<1>t. TypeOK /\ Shape /\ NewAddresses /\ TypeOK' /\ Shape'
  BY <1>i, TypeStep, ShapeStep DEF ShapeInv
<1>g. orphaned \subseteq orphaned' /\ shadowed \subseteq shadowed'
  BY HistoryGrows
(* A texture that is entered by a thread that goes on is not made live: no *)
(* other thread enters a texture without a descriptor.                     *)
<1>o. ASSUME NEW p \in Thread, NEW a \in Addr, stage[p] \in Entering,
             mine[p] = a, stage'[p] # "idle"
      PROVE  Dead(a)'
  <2>1. Dead(a)
    BY <1>o, <1>i DEF EnteredDead
  <2>2. ~Insert(p)
    BY <1>o, <1>t DEF Insert, Done, Goto, TypeOK
  <2>3. \A q \in Thread : ~FirstInsert(q, a)
    BY <1>o, <1>t, <2>2 DEF FirstInsert, NewAddresses, Undescribed
  <2>4. QED
    BY <1>i, <2>1, <2>3, DeadLasts
<1>l. ASSUME NEW a \in Addr, Textures_2D[a] # Absent, Dead(a)
      PROVE  Dead(a)'
  BY <1>i, <1>l, DeadLasts DEF FirstInsert
<1>h. \A a \in shadowed \cap Addr : Dead(a)'
  BY <1>t, <1>i, <1>l DEF EnteredDead, NewAddresses, Undescribed
<1>r. ASSUME stage[Render] = "release"
      PROVE  /\ it[Render] \in Addr
             /\ \A a \in Addr : it[Render] = a => Dead(a)'
  BY <1>t, <1>i, <1>l, <1>r, ThreadAssumption DEF Shape, EnteredDead, Thread
<1>s. ASSUME \A p \in Thread : stage'[p] \in Entering =>
               stage[p] \in Entering /\ mine'[p] = mine[p],
             shadowed' = shadowed,
             stage'[Render] = "release" =>
               stage[Render] = "release" /\ it'[Render] = it[Render]
      PROVE  EnteredDead'
  <2>1. \A p \in Thread : stage'[p] \in Entering => Dead(mine[p])'
    <3> SUFFICES ASSUME NEW p \in Thread, stage'[p] \in Entering
                 PROVE  Dead(mine[p])'
      OBVIOUS
    <3>1. mine[p] \in Addr /\ stage'[p] # "idle"
      BY <1>s, <1>t DEF Shape, Entering
    <3>2. QED
      BY <1>s, <1>o, <3>1
  <2>2. stage'[Render] = "release" => Dead(it[Render])'
    BY <1>s, <1>r
  <2>3. QED
    BY <1>s, <1>h, <2>1, <2>2 DEF EnteredDead
<1> USE <1>t, ThreadAssumption
    DEF TypeOK, Goto, Entering, Thread, objects, maps, threads, history
<1>0. CASE UNCHANGED vars
  BY <1>0, <1>s DEF vars
<1>1. ASSUME NEW p \in Thread, Look(p) PROVE EnteredDead'
  BY <1>1, <1>s DEF Look
<1>2. ASSUME NEW p \in Thread, Read(p) PROVE EnteredDead'
  BY <1>2, <1>s DEF Read, Entry
<1>3. ASSUME NEW p \in Thread, Judge(p) PROVE EnteredDead'
  BY <1>3, <1>s DEF Judge
<1>4. ASSUME NEW p \in Thread, AddRef(p) PROVE EnteredDead'
  BY <1>4, <1>s DEF AddRef, Done
<1>5. ASSUME NEW p \in Thread, Expel(p) PROVE EnteredDead'
  BY <1>5, <1>s DEF Expel, Entry
<1>6. ASSUME NEW p \in Thread, Forget(p) PROVE EnteredDead'
  BY <1>6, <1>s DEF Forget
<1>7. ASSUME NEW p \in Thread, Ignore(p) PROVE EnteredDead'
  BY <1>7, <1>s DEF Ignore, Done
<1>8. ASSUME NEW p \in Thread, Admit(p) PROVE EnteredDead'
  BY <1>8, <1>s DEF Admit
<1>9. ASSUME NEW p \in Thread, LinkBack(p) PROVE EnteredDead'
  BY <1>9, <1>s DEF LinkBack
<1>10. ASSUME NEW p \in Thread, Insert(p) PROVE EnteredDead'
  <2>1. mine[p] \in Addr /\ Dead(mine[p]) /\ stage'[p] = "idle"
    BY <1>10, <1>i DEF Insert, Done, Shape, EnteredDead
  <2>2. \A q \in Thread \ {p} : stage'[q] = stage[q] /\ mine'[q] = mine[q]
                               /\ it'[q] = it[q]
    BY <1>10 DEF Insert, Done
  <2>3. \A q \in Thread : stage'[q] \in Entering => Dead(mine[q])'
    <3> SUFFICES ASSUME NEW q \in Thread, stage'[q] \in Entering
                 PROVE  Dead(mine[q])'
      OBVIOUS
    <3>1. q # p
      BY <2>1
    <3>2. mine[q] \in Addr /\ stage[q] \in Entering /\ stage'[q] # "idle"
      BY <2>2, <3>1 DEF Shape
    <3>3. QED
      BY <1>o, <2>2, <3>1, <3>2
  <2>4. \A a \in shadowed' \cap Addr : Dead(a)'
    <3>1. CASE Textures_2D[mine[p]] = Absent
      BY <1>10, <1>h, <3>1 DEF Insert
    <3>2. CASE Textures_2D[mine[p]] # Absent
      BY <1>10, <1>h, <1>l, <2>1, <3>2 DEF Insert
    <3>3. QED
      BY <3>1, <3>2
  <2>5. stage'[Render] = "release" => Dead(it[Render])'
    BY <1>r, <2>1, <2>2
  <2>6. QED
    BY <2>3, <2>4, <2>5 DEF EnteredDead
<1>11. ASSUME NEW l \in Loader, NEW c \in Content, Load(l, c)
      PROVE  EnteredDead'
  BY <1>11, <1>s DEF Load
<1>12. ASSUME NEW l \in Loader, NEW a \in Addr, Create(l, a)
      PROVE  EnteredDead'
  <2>1. a \in Addr /\ Dead(a)'
    BY <1>12, <1>i
       DEF Create, MakeTexture, Alive, Refs, LiveHeld, Dead, Live
  <2>2. \A q \in Thread \ {l} : stage'[q] = stage[q] /\ mine'[q] = mine[q]
    BY <1>12 DEF Create
  <2>3. \A q \in Thread \ {l} : stage'[q] \in Entering => Dead(mine[q])'
    <3> SUFFICES ASSUME NEW q \in Thread \ {l}, stage'[q] \in Entering
                 PROVE  Dead(mine[q])'
      OBVIOUS
    <3>1. mine[q] \in Addr /\ stage[q] \in Entering /\ stage'[q] # "idle"
      BY <2>2 DEF Shape
    <3>2. QED
      BY <1>o, <2>2, <3>1
  <2>4. /\ mine'[l] = a /\ stage'[Render] = stage[Render]
        /\ UNCHANGED <<it, shadowed>>
    BY <1>12 DEF Create
  <2>5. \A q \in Thread : stage'[q] \in Entering => Dead(mine[q])'
    BY <2>1, <2>3, <2>4
  <2>6. stage'[Render] = "release" => Dead(it[Render])'
    BY <2>4, <1>r
  <2>7. QED
    BY <1>h, <2>4, <2>5, <2>6 DEF EnteredDead
<1>13. ASSUME NEW l \in Loader, Lock(l) PROVE EnteredDead'
  BY <1>13, <1>s DEF Lock
<1>14. ASSUME NEW a \in Addr, NEW c \in Content, CreateEmpty(a, c)
      PROVE  EnteredDead'
  BY <1>14, <1>s DEF CreateEmpty, MakeTexture
<1>15. ASSUME NEW a \in Addr, NEW c \in Content, WriteUnseen(a, c)
      PROVE  EnteredDead'
  BY <1>15, <1>s DEF WriteUnseen
<1>16. ASSUME NEW a \in Addr, NEW c \in Content, Update(a, c)
      PROVE  EnteredDead'
  BY <1>16, <1>s DEF Update
<1>17. ASSUME NEW a \in Addr, GameRelease(a) PROVE EnteredDead'
  BY <1>17, <1>s DEF GameRelease
<1>18. ASSUME NEW a \in Addr, Evict(a) PROVE EnteredDead'
  <2>1. \A p \in Thread : stage'[p] \in Entering =>
          stage[p] \in Entering /\ mine'[p] = mine[p]
    BY <1>18 DEF Evict
  <2>2. shadowed' = shadowed /\ stage[Render] = "purge"
    BY <1>18 DEF Evict
  <2>3. ASSUME stage'[Render] = "release" PROVE Dead(it[Render])'
    <3>1. it'[Render] = a
      BY <1>18, <2>2, <2>3 DEF Evict
    <3>2. Textures_2D[a] \in Descriptor
      BY <1>18 DEF Evict, NewAddresses, Undescribed
    <3>3. CASE Cached(a)
      BY <1>18, <2>2, <2>3, <3>1, <3>2, <3>3, DescriptorFacts
         DEF Evict, Dead, Live
    <3>4. CASE ~Cached(a)
      BY <1>18, <1>i, <1>g, <2>2, <2>3, <3>1, <3>4
         DEF Evict, LiveLinked, Dead, Live
    <3>5. QED
      BY <3>3, <3>4
  <2>4. \A p \in Thread : stage'[p] \in Entering => Dead(mine[p])'
    <3> SUFFICES ASSUME NEW p \in Thread, stage'[p] \in Entering
                 PROVE  Dead(mine[p])'
      OBVIOUS
    <3>1. mine[p] \in Addr /\ stage'[p] # "idle"
      BY <2>1 DEF Shape
    <3>2. QED
      BY <1>o, <2>1, <3>1
  <2>5. QED
    BY <1>h, <2>2, <2>3, <2>4 DEF EnteredDead
<1>19. CASE CopyCached
  BY <1>19, <1>s DEF CopyCached, Done
<1>20. CASE Retire
  <2>1. mine[Render] \in Addr /\ Dead(mine[Render])'
    BY <1>20, <1>i, RetiredDescribed, DescriptorFacts DEF Retire, Dead, Live
  <2>2. \A q \in Thread \ {Render} : stage'[q] = stage[q] /\ mine'[q] = mine[q]
    BY <1>20 DEF Retire
  <2>3. \A q \in Thread \ {Render} : stage'[q] \in Entering => Dead(mine[q])'
    <3> SUFFICES ASSUME NEW q \in Thread \ {Render}, stage'[q] \in Entering
                 PROVE  Dead(mine[q])'
      OBVIOUS
    <3>1. mine[q] \in Addr /\ stage[q] \in Entering /\ stage'[q] # "idle"
      BY <2>2 DEF Shape
    <3>2. QED
      BY <1>o, <2>2, <3>1
  <2>4. mine'[Render] = mine[Render] /\ stage'[Render] # "release"
        /\ shadowed' = shadowed
    BY <1>20 DEF Retire
  <2>5. \A q \in Thread : stage'[q] \in Entering => Dead(mine[q])'
    BY <2>1, <2>3, <2>4
  <2>6. QED
    BY <1>h, <2>4, <2>5 DEF EnteredDead
<1>21. CASE Write
  <2>1. mine[Render] \in Addr /\ Dead(mine[Render])'
    <3>1. mine[Render] \in Addr /\ Dead(mine[Render])
      BY <1>21, <1>i
         DEF Write, Outdates, Shape, Asking, LiveLinked, EnteredDead, Dead
    <3>2. QED
      BY <1>21, <3>1 DEF Write, Dead, Live
  <2>2. \A q \in Thread \ {Render} : stage'[q] = stage[q] /\ mine'[q] = mine[q]
    BY <1>21 DEF Write
  <2>3. \A q \in Thread \ {Render} : stage'[q] \in Entering => Dead(mine[q])'
    <3> SUFFICES ASSUME NEW q \in Thread \ {Render}, stage'[q] \in Entering
                 PROVE  Dead(mine[q])'
      OBVIOUS
    <3>1. mine[q] \in Addr /\ stage[q] \in Entering /\ stage'[q] # "idle"
      BY <2>2 DEF Shape
    <3>2. QED
      BY <1>o, <2>2, <3>1
  <2>4. mine'[Render] = mine[Render] /\ stage'[Render] # "release"
        /\ shadowed' = shadowed
    BY <1>21 DEF Write
  <2>5. \A q \in Thread : stage'[q] \in Entering => Dead(mine[q])'
    BY <2>1, <2>3, <2>4
  <2>6. QED
    BY <1>h, <2>4, <2>5 DEF EnteredDead
<1>22. ASSUME NEW must \in BOOLEAN, Collect(must) PROVE EnteredDead'
  BY <1>22, <1>s DEF Collect
<1>23. CASE LockAgain
  BY <1>23, <1>s DEF LockAgain
<1>24. CASE ReleaseEvicted
  BY <1>24, <1>s DEF ReleaseEvicted, TakeBack
<1>25. CASE EndPurge
  BY <1>25, <1>s DEF EndPurge, Done
<1>26. QED
  BY <1>0, <1>1, <1>2, <1>3, <1>4, <1>5, <1>6, <1>7, <1>8, <1>9, <1>10,
     <1>11, <1>12, <1>13, <1>14, <1>15, <1>16, <1>17, <1>18, <1>19, <1>20,
     <1>21, <1>22, <1>23, <1>24, <1>25
     DEF Next, Ask, Enter

(* A descriptor comes to life with its reverse entry and its reference.    *)
LEMMA LiveLinkedStep == LiveInv /\ [Next]_vars => LiveLinked'
<1> SUFFICES ASSUME LiveInv, [Next]_vars PROVE LiveLinked'
  OBVIOUS
<1>i. /\ ShapeInv /\ EntriesExplained /\ Misses /\ EnteredDead /\ LiveLinked
      /\ \A p \in Thread : stage[p] \in {"expel", "forget"} =>
           (it[p] \in Addr => Dead(it[p]))
  <2>1. ShapeInv /\ EntriesExplained /\ Misses /\ EnteredDead /\ LiveLinked
    BY DEF LiveInv
  <2>2. ASSUME NEW p \in Thread, stage[p] \in {"expel", "forget"},
               it[p] \in Addr
        PROVE  Dead(it[p])
    <3>1. Explained(it[p], tag[p])
      BY <2>1, <2>2 DEF EntriesExplained, Looking
    <3>2. ~Live(it[p]) \/ Textures_2D[it[p]].tag # tag[p]
      BY <2>1, <2>2 DEF Misses
    <3>3. QED
      BY <2>1, <2>2, <3>1, <3>2
         DEF Explained, EnteredDead, Dead, Live, Admitted, Entering
  <2>3. QED
    BY <2>1, <2>2
<1>t. TypeOK /\ Shape /\ NewAddresses /\ TypeOK' /\ Shape'
  BY <1>i, TypeStep, ShapeStep DEF ShapeInv
<1>g. orphaned \subseteq orphaned'
  BY HistoryGrows
<1>d. \A x \in Addr : Textures_2D'[x] = Absent => Textures_2D[x] = Absent
  BY <1>i, DescriptorsLast
(* A step that erases no reverse entry but of a texture that is orphaned   *)
(* or dead, and no reference of a texture without a descriptor.            *)
<1>s. ASSUME \A x \in Addr :
               Cached(x) => \/ Cached(x)'
                            \/ x \in orphaned'
                            \/ ~Live(x)' /\ Textures_2D[x] # Absent,
             \A x \in Addr : Textures_2D[x] = Absent =>
                               cacheRefs'[x] >= cacheRefs[x],
             \A p \in Thread : stage'[p] \in Admitted =>
               /\ stage[p] \in Admitted /\ mine'[p] = mine[p]
               /\ stage'[p] = stage[p],
             \A p \in Thread : stage[p] = "insert" => stage'[p] = "insert"
      PROVE  LiveLinked'
  <2>1. \A x \in Addr : Live(x)' => Cached(x)' \/ x \in orphaned'
    <3>1. \A p \in Thread : ~Insert(p)
      BY <1>s, <1>t DEF Insert, Done, Goto, TypeOK
    <3>2. \A x \in Addr : Live(x)' => Live(x)
      BY <1>i, <3>1, LiveByInsert DEF FirstInsert
    <3>3. QED
      BY <1>s, <1>i, <1>g, <3>2 DEF LiveLinked
  <2>2. ASSUME NEW p \in Thread, stage'[p] \in Admitted,
               Textures_2D'[mine'[p]] = Absent
        PROVE  /\ cacheRefs'[mine'[p]] > 0
               /\ stage'[p] = "insert" =>
                    Cached(mine[p])' \/ mine'[p] \in orphaned'
    <3>1. mine[p] \in Addr /\ mine'[p] = mine[p] /\ stage[p] = stage'[p]
          /\ Textures_2D[mine[p]] = Absent
      BY <1>s, <1>t, <1>d, <2>2 DEF Shape, Admitted, Entering
    <3>2. cacheRefs[mine[p]] > 0 /\ cacheRefs'[mine[p]] >= cacheRefs[mine[p]]
      BY <1>s, <1>i, <2>2, <3>1 DEF LiveLinked
    <3>3. cacheRefs'[mine[p]] > 0
      BY <1>t, <3>1, <3>2 DEF TypeOK
    <3>4. stage[p] = "insert" => Cached(mine[p]) \/ mine[p] \in orphaned
      BY <1>i, <2>2, <3>1 DEF LiveLinked
    <3>5. Cached(mine[p])' <=> reventries'[mine[p]] # Absent
      BY <3>1 DEF Cached
    <3>6. QED
      BY <1>s, <1>g, <3>1, <3>3, <3>4, <3>5 DEF Cached
  <2>3. QED
    BY <2>1, <2>2 DEF LiveLinked
<1> USE <1>t, <1>g, TagFacts, ThreadAssumption
    DEF TypeOK, Goto, Admitted, Thread, objects, maps, threads, history
<1>0. CASE UNCHANGED vars
  BY <1>0, <1>s DEF vars, Cached
<1>1. ASSUME NEW p \in Thread, Look(p) PROVE LiveLinked'
  BY <1>1, <1>s DEF Look, Cached
<1>2. ASSUME NEW p \in Thread, Read(p) PROVE LiveLinked'
  BY <1>2, <1>s DEF Read, Cached, Entry
<1>3. ASSUME NEW p \in Thread, Judge(p) PROVE LiveLinked'
  BY <1>3, <1>s DEF Judge, Cached
<1>4. ASSUME NEW p \in Thread, AddRef(p) PROVE LiveLinked'
  BY <1>4, <1>s DEF AddRef, Cached, Done
<1>5. ASSUME NEW p \in Thread, Expel(p) PROVE LiveLinked'
  <2>1. tag[p] \in Tag /\ stage[p] = "expel"
    BY <1>5 DEF Expel, Shape, Asking
  <2>2. \A x \in Addr : x # Entry(tag[p]) => reventries'[x] = reventries[x]
    BY <1>5 DEF Expel
  <2>3. \A x \in Addr : x = Entry(tag[p]) =>
          x \in orphaned' \/ (x = it[p] /\ Textures_2D[x] # Absent)
    BY <1>5, AddrAssumption DEF Expel, Shape
  <2>4. \A x \in Addr : x = it[p] => Dead(x)'
    BY <1>5, <1>i, <2>1 DEF Expel, Dead, Live
  <2>5. \A x \in Addr : Cached(x) =>
          \/ Cached(x)'
          \/ x \in orphaned'
          \/ ~Live(x)' /\ Textures_2D[x] # Absent
    BY <2>2, <2>3, <2>4 DEF Cached, Dead
  <2>6. QED
    BY <1>5, <1>s, <2>5 DEF Expel
<1>6. ASSUME NEW p \in Thread, Forget(p) PROVE LiveLinked'
  BY <1>6, <1>s DEF Forget, Cached
<1>7. ASSUME NEW p \in Thread, Ignore(p) PROVE LiveLinked'
  BY <1>7, <1>s DEF Ignore, Cached, Done
<1>8. ASSUME NEW p \in Thread, Admit(p) PROVE LiveLinked'
  <2>1. tag[p] \in Tag /\ mine[p] \in Addr
    BY <1>8 DEF Admit, Shape, Asking, Entering
  <2>2. \A x \in Addr : Live(x)' => Cached(x)' \/ x \in orphaned'
    BY <1>8, <1>i DEF Admit, LiveLinked, Live, Cached
  <2>3. /\ \A x \in Addr : cacheRefs'[x] >= cacheRefs[x]
        /\ cacheRefs'[mine[p]] > 0
    BY <1>8, <2>1 DEF Admit
  <2>4. /\ \A q \in Thread \ {p} : stage'[q] = stage[q]
        /\ stage'[p] = "back"
        /\ UNCHANGED <<mine, reventries, orphaned, Textures_2D>>
    BY <1>8 DEF Admit
  <2>5. \A q \in Thread : stage[q] \in Admitted => mine[q] \in Addr
    BY DEF Shape, Entering
  <2>6. QED
    BY <1>i, <2>1, <2>2, <2>3, <2>4, <2>5 DEF LiveLinked, Cached
<1>9. ASSUME NEW p \in Thread, LinkBack(p) PROVE LiveLinked'
  <2>1. tag[p] \in Tag /\ mine[p] \in Addr
    BY <1>9 DEF LinkBack, Shape, Asking, Entering
  <2>2. /\ \A x \in Addr : Cached(x) => Cached(x)'
        /\ reventries'[mine[p]] # Absent
    BY <1>9, <2>1 DEF LinkBack, Cached
  <2>3. \A x \in Addr : Live(x)' => Cached(x)' \/ x \in orphaned'
    BY <1>9, <1>i, <2>2 DEF LinkBack, LiveLinked, Live
  <2>4. /\ \A q \in Thread \ {p} : stage'[q] = stage[q]
        /\ stage'[p] = "insert" /\ stage[p] = "back"
        /\ UNCHANGED <<mine, cacheRefs, orphaned, Textures_2D>>
    BY <1>9 DEF LinkBack
  <2>5. \A q \in Thread : stage[q] \in Admitted => mine[q] \in Addr
    BY DEF Shape, Entering
  <2>6. QED
    BY <1>i, <2>1, <2>2, <2>3, <2>4, <2>5 DEF LiveLinked, Cached
<1>10. ASSUME NEW p \in Thread, Insert(p) PROVE LiveLinked'
  <2>1. tag[p] \in Tag /\ mine[p] \in Addr
    BY <1>10 DEF Insert, Shape, Asking, Entering
  <2>2. \A x \in Addr : Live(x)' /\ ~Live(x) =>
          x = mine[p] /\ Textures_2D[x] = Absent
    BY <1>10 DEF Insert, Live
  <2>3. UNCHANGED <<reventries, orphaned, cacheRefs>> /\ stage[p] = "insert"
    BY <1>10 DEF Insert
  <2>4. \A x \in Addr : Live(x)' => Cached(x)' \/ x \in orphaned'
    BY <1>i, <2>2, <2>3 DEF LiveLinked, Cached
  <2>5. \A q \in Thread : stage'[q] \in Admitted =>
          stage[q] \in Admitted /\ stage'[q] = stage[q] /\ mine'[q] = mine[q]
          /\ mine[q] \in Addr
    BY <1>10 DEF Insert, Done, Shape, Entering
  <2>6. \A q \in Thread : stage'[q] \in Admitted
                           /\ Textures_2D'[mine'[q]] = Absent =>
                             Textures_2D[mine[q]] = Absent
    BY <2>5, <1>d
  <2>7. QED
    BY <1>i, <2>3, <2>4, <2>5, <2>6 DEF LiveLinked, Cached
<1>11. ASSUME NEW l \in Loader, NEW c \in Content, Load(l, c)
      PROVE  LiveLinked'
  BY <1>11, <1>s DEF Load, Cached
<1>12. ASSUME NEW l \in Loader, NEW a \in Addr, Create(l, a)
      PROVE  LiveLinked'
  BY <1>12, <1>s DEF Create, Cached, MakeTexture
<1>13. ASSUME NEW l \in Loader, Lock(l) PROVE LiveLinked'
  BY <1>13, <1>s DEF Lock, Cached
<1>14. ASSUME NEW a \in Addr, NEW c \in Content, CreateEmpty(a, c)
      PROVE  LiveLinked'
  BY <1>14, <1>s DEF CreateEmpty, Cached, MakeTexture
<1>15. ASSUME NEW a \in Addr, NEW c \in Content, WriteUnseen(a, c)
      PROVE  LiveLinked'
  BY <1>15, <1>s DEF WriteUnseen, Cached
<1>16. ASSUME NEW a \in Addr, NEW c \in Content, Update(a, c)
      PROVE  LiveLinked'
  BY <1>16, <1>s DEF Update, Cached
<1>17. ASSUME NEW a \in Addr, GameRelease(a) PROVE LiveLinked'
  BY <1>17, <1>s DEF GameRelease, Cached
<1>18. ASSUME NEW a \in Addr, Evict(a) PROVE LiveLinked'
  <2>1. Textures_2D[a] \in Descriptor
    BY <1>18 DEF Evict, NewAddresses, Undescribed
  <2>2. \A x \in Addr : Cached(x) =>
          Cached(x)' \/ (~Live(x)' /\ Textures_2D[x] # Absent)
    <3>1. CASE reventries' = reventries
      BY <3>1 DEF Cached
    <3>2. CASE reventries' # reventries
      BY <1>18, <2>1, <3>2, DescriptorFacts DEF Evict, Cached, Live
    <3>3. QED
      BY <3>1, <3>2
  <2>3. QED
    BY <1>18, <1>s, <2>2 DEF Evict
<1>19. CASE CopyCached
  BY <1>19, <1>s DEF CopyCached, Cached, Done
<1>20. CASE Retire
  <2>1. mine[Render] \in Addr /\ Textures_2D[mine[Render]] # Absent
    BY <1>20, RetiredDescribed, DescriptorFacts, <1>i
  <2>2. \A x \in Addr : Textures_2D[x] = Absent =>
                           cacheRefs'[x] >= cacheRefs[x]
    BY <1>20, <2>1 DEF Retire, TakeBack
  <2>3. QED
    BY <1>20, <1>s, <2>2 DEF Retire, Cached
<1>21. CASE Write
  BY <1>21, <1>s DEF Write, Cached
<1>22. ASSUME NEW must \in BOOLEAN, Collect(must) PROVE LiveLinked'
  BY <1>22, <1>s DEF Collect, Cached
<1>23. CASE LockAgain
  BY <1>23, <1>s DEF LockAgain, Cached
<1>24. CASE ReleaseEvicted
  <2>1. it[Render] \in Addr /\ Textures_2D[it[Render]] # Absent
    BY <1>24 DEF ReleaseEvicted, Shape
  <2>2. \A x \in Addr : Textures_2D[x] = Absent =>
                           cacheRefs'[x] >= cacheRefs[x]
    BY <1>24, <2>1 DEF ReleaseEvicted, TakeBack
  <2>3. QED
    BY <1>24, <1>s, <2>2 DEF ReleaseEvicted, Cached
<1>25. CASE EndPurge
  BY <1>25, <1>s DEF EndPurge, Cached, Done
<1>26. QED
  BY <1>0, <1>1, <1>2, <1>3, <1>4, <1>5, <1>6, <1>7, <1>8, <1>9, <1>10,
     <1>11, <1>12, <1>13, <1>14, <1>15, <1>16, <1>17, <1>18, <1>19, <1>20,
     <1>21, <1>22, <1>23, <1>24, <1>25
     DEF Next, Ask, Enter

(* A live descriptor's reference is given back only when it dies.          *)
LEMMA LiveHeldStep == LiveInv /\ [Next]_vars => LiveHeld'
<1> SUFFICES ASSUME LiveInv, [Next]_vars, NEW n \in Addr, Live(n)',
                    n \notin orphaned'
             PROVE  cacheRefs'[n] > 0
  BY DEF LiveHeld
<1>i. ShapeInv /\ EnteredDead /\ LiveLinked /\ LiveHeld
  BY DEF LiveInv
<1>t. TypeOK /\ Shape /\ TypeOK'
  BY <1>i, TypeStep DEF ShapeInv
<1>g. n \notin orphaned
  BY HistoryGrows
<1>l. CASE ~Live(n)
  <2>1. PICK p \in Thread : FirstInsert(p, n)
    BY <1>i, <1>l, LiveByInsert
  <2>2. QED
    BY <1>i, <2>1 DEF FirstInsert, Insert, LiveLinked, Admitted, objects
<1>h. CASE Live(n)
  <2>0. cacheRefs[n] > 0 /\ cacheRefs[n] \in Nat
    BY <1>h, <1>i, <1>g, <1>t DEF LiveHeld, TypeOK
  <2>1. CASE Retire
    <3>1. n # mine[Render]
      BY <1>i, <2>1, RetiredDescribed, DescriptorFacts, <1>t
         DEF Retire, Live, TypeOK
    <3>2. QED
      BY <1>i, <1>t, <2>0, <2>1, <3>1, RetiredDescribed
         DEF Retire, TakeBack, TypeOK
  <2>2. CASE ReleaseEvicted
    <3>1. n # it[Render]
      BY <1>h, <1>i, <1>g, <2>2 DEF ReleaseEvicted, EnteredDead, Dead
    <3>2. QED
      BY <1>t, <2>0, <2>2, <3>1 DEF ReleaseEvicted, TakeBack, TypeOK
  <2>3. CASE ~Retire /\ ~ReleaseEvicted
    <3>1. CASE \E p \in Thread : Admit(p)
      BY <1>t, <2>0, <3>1 DEF Admit, Shape, Entering, TypeOK
    <3>2. CASE \A p \in Thread : ~Admit(p)
      <4>1. cacheRefs' = cacheRefs
        BY <2>3, <3>2
           DEF Next, Ask, Enter, Look, Read, Judge, AddRef, Expel, Forget,
               Ignore, LinkBack, Insert, Load, Create, Lock, CreateEmpty,
               WriteUnseen, Update, GameRelease, Evict, CopyCached, Write,
               Collect, LockAgain, EndPurge, vars, objects
      <4>2. QED
        BY <2>0, <4>1
    <3>3. QED
      BY <3>1, <3>2
  <2>4. QED
    BY <2>1, <2>2, <2>3
<1>3. QED
  BY <1>l, <1>h

(* LiveInv is an invariant.                                                *)
LEMMA LiveInvariant == Spec => []LiveInv
<1>1. Init => LiveInv
  BY ShapeInvInit, AddrAssumption
     DEF Init, LiveInv, EntriesExplained, Misses, EnteredDead, LiveLinked,
         LiveHeld, Live, Entering, Admitted, Looking, Thread
<1>2. LiveInv /\ [Next]_vars => LiveInv'
  BY ShapeInvStep, EntriesExplainedStep, MissesStep, EnteredDeadStep,
     LiveLinkedStep, LiveHeldStep DEF LiveInv
<1>3. QED
  BY <1>1, <1>2, PTL DEF Spec

(* tex_mgr.cpp: a descriptor the cache still vouches for is of a texture   *)
(* it holds a reference to, however loads, updates and purges interleave,  *)
(* unless the texture lost its reverse entry to an expulsion.              *)
THEOREM VouchedIsHeld == Spec => []LiveHeld
<1>1. LiveInv => LiveHeld
  BY DEF LiveInv
<1>2. QED
  BY <1>1, LiveInvariant, PTL

-----------------------------------------------------------------------------
(* What tags say about contents.                                           *)

(* A texture changes unseen, or by being made, copied to or written.       *)
Rewritten(a) == \/ \E l \in Loader : Create(l, a)
                \/ \E c \in Content : CreateEmpty(a, c)
                \/ mine[Render] = a /\ (CopyCached \/ Write)

(* What a step writes to a texture it is not entering is noted.            *)
LEMMA ContentKept ==
  ASSUME TypeOK, [Next]_vars, NEW n \in Addr, ~Rewritten(n), n \notin written'
  PROVE  n \notin written /\ content'[n] = content[n]
<1> DEFINE Kept == n \notin written /\ content'[n] = content[n]
<1> SUFFICES Kept
  OBVIOUS
<1> USE DEF TypeOK, Rewritten, objects, history
<1>0. CASE UNCHANGED vars
  BY <1>0 DEF vars
<1>1. ASSUME NEW p \in Thread, Look(p) PROVE Kept
  BY <1>1 DEF Look
<1>2. ASSUME NEW p \in Thread, Read(p) PROVE Kept
  BY <1>2 DEF Read
<1>3. ASSUME NEW p \in Thread, Judge(p) PROVE Kept
  BY <1>3 DEF Judge
<1>4. ASSUME NEW p \in Thread, AddRef(p) PROVE Kept
  BY <1>4 DEF AddRef
<1>5. ASSUME NEW p \in Thread, Expel(p) PROVE Kept
  BY <1>5 DEF Expel
<1>6. ASSUME NEW p \in Thread, Forget(p) PROVE Kept
  BY <1>6 DEF Forget
<1>7. ASSUME NEW p \in Thread, Ignore(p) PROVE Kept
  BY <1>7 DEF Ignore
<1>8. ASSUME NEW p \in Thread, Admit(p) PROVE Kept
  BY <1>8 DEF Admit
<1>9. ASSUME NEW p \in Thread, LinkBack(p) PROVE Kept
  BY <1>9 DEF LinkBack
<1>10. ASSUME NEW p \in Thread, Insert(p) PROVE Kept
  BY <1>10 DEF Insert
<1>11. ASSUME NEW l \in Loader, NEW c \in Content, Load(l, c) PROVE Kept
  BY <1>11 DEF Load
<1>12. ASSUME NEW l \in Loader, NEW a \in Addr, Create(l, a) PROVE Kept
  BY <1>12 DEF Create, MakeTexture
<1>13. ASSUME NEW l \in Loader, Lock(l) PROVE Kept
  BY <1>13 DEF Lock
<1>14. ASSUME NEW a \in Addr, NEW c \in Content, CreateEmpty(a, c) PROVE Kept
  BY <1>14 DEF CreateEmpty, MakeTexture
<1>15. ASSUME NEW a \in Addr, NEW c \in Content, WriteUnseen(a, c) PROVE Kept
  BY <1>15 DEF WriteUnseen
<1>16. ASSUME NEW a \in Addr, NEW c \in Content, Update(a, c) PROVE Kept
  BY <1>16 DEF Update
<1>17. ASSUME NEW a \in Addr, GameRelease(a) PROVE Kept
  BY <1>17 DEF GameRelease
<1>18. ASSUME NEW a \in Addr, Evict(a) PROVE Kept
  BY <1>18 DEF Evict
<1>19. CASE CopyCached
  BY <1>19 DEF CopyCached
<1>20. CASE Retire
  BY <1>20 DEF Retire
<1>21. CASE Write
  BY <1>21 DEF Write
<1>22. ASSUME NEW must \in BOOLEAN, Collect(must) PROVE Kept
  BY <1>22 DEF Collect
<1>23. CASE LockAgain
  BY <1>23 DEF LockAgain
<1>24. CASE ReleaseEvicted
  BY <1>24 DEF ReleaseEvicted
<1>25. CASE EndPurge
  BY <1>25 DEF EndPurge
<1>26. QED
  BY <1>0, <1>1, <1>2, <1>3, <1>4, <1>5, <1>6, <1>7, <1>8, <1>9, <1>10,
     <1>11, <1>12, <1>13, <1>14, <1>15, <1>16, <1>17, <1>18, <1>19, <1>20,
     <1>21, <1>22, <1>23, <1>24, <1>25
     DEF Next, Ask, Enter

(* A texture nobody has described yet is rewritten by its owner only.      *)
LEMMA OwnerRewrites ==
  ASSUME ShapeInv, NEW p \in Thread, NEW a \in Addr, mine[p] = a,
         Textures_2D[a] = Absent, Rewritten(a)
  PROVE  p = Render /\ (CopyCached \/ Write)
<1>1. gameRefs[a] = 1 /\ Alive(a) /\ (mine[Render] = a => p = Render)
  BY ThreadAssumption
     DEF ShapeInv, TypeOK, NewAddresses, Undescribed, Alive, Refs, Thread
<1>2. QED
  BY <1>1 DEF Rewritten, Create, CreateEmpty, MakeTexture

(* A texture is written with its tag's content before it is entered.       *)
LEMMA EnteredTaggedStep ==
  ShapeInv /\ EnteredTagged /\ [Next]_vars => EnteredTagged'
<1> DEFINE Own == {"lock", "admit", "back", "insert"}
<1> SUFFICES ASSUME ShapeInv, EnteredTagged, [Next]_vars, NEW q \in Thread,
                    stage'[q] \in Own, Textures_2D'[mine'[q]] = Absent
             PROVE  content'[mine'[q]] = tag'[q][2] \/ mine'[q] \in written'
  BY DEF EnteredTagged
<1> DEFINE Tagged ==
      content'[mine'[q]] = tag'[q][2] \/ mine'[q] \in written'
<1>t. TypeOK /\ Shape /\ TypeOK' /\ Shape'
  BY TypeStep, ShapeStep DEF ShapeInv
<1>s. ASSUME stage[q] \in Own, mine'[q] = mine[q], tag'[q] = tag[q]
      PROVE  Tagged
  <2>1. mine[q] \in Addr /\ Textures_2D[mine[q]] = Absent
    BY <1>s, <1>t, DescriptorsLast DEF Shape, Entering
  <2>2. CASE ~Rewritten(mine[q])
    BY <1>s, <1>t, <2>1, <2>2, ContentKept DEF EnteredTagged
  <2>3. CASE Rewritten(mine[q])
    <3>1. q = Render /\ (CopyCached \/ Write)
      BY <2>1, <2>3, OwnerRewrites
    <3>2. Write
      BY <1>s, <3>1 DEF CopyCached
    <3>3. QED
      BY <1>s, <3>1, <3>2 DEF Write
  <2>4. QED
    BY <2>2, <2>3
<1> USE <1>t, ThreadAssumption
    DEF TypeOK, Goto, Done, Thread, objects, maps, threads
<1>0. CASE UNCHANGED vars
  BY <1>0, <1>s DEF vars
<1>1. ASSUME NEW p \in Thread, Look(p) PROVE Tagged
  BY <1>1, <1>s DEF Look
<1>2. ASSUME NEW p \in Thread, Read(p) PROVE Tagged
  BY <1>2, <1>s DEF Read
<1>3. ASSUME NEW p \in Thread, Judge(p) PROVE Tagged
  BY <1>3, <1>s DEF Judge
<1>4. ASSUME NEW p \in Thread, AddRef(p) PROVE Tagged
  BY <1>4, <1>s DEF AddRef
<1>5. ASSUME NEW p \in Thread, Expel(p) PROVE Tagged
  BY <1>5, <1>s DEF Expel
<1>6. ASSUME NEW p \in Thread, Forget(p) PROVE Tagged
  BY <1>6, <1>s DEF Forget
<1>7. ASSUME NEW p \in Thread, Ignore(p) PROVE Tagged
  BY <1>7, <1>s DEF Ignore
<1>8. ASSUME NEW p \in Thread, Admit(p) PROVE Tagged
  BY <1>8, <1>s DEF Admit
<1>9. ASSUME NEW p \in Thread, LinkBack(p) PROVE Tagged
  BY <1>9, <1>s DEF LinkBack
<1>10. ASSUME NEW p \in Thread, Insert(p) PROVE Tagged
  BY <1>10, <1>s DEF Insert
<1>11. ASSUME NEW l \in Loader, NEW c \in Content, Load(l, c) PROVE Tagged
  BY <1>11, <1>s DEF Load
<1>12. ASSUME NEW l \in Loader, NEW a \in Addr, Create(l, a) PROVE Tagged
  <2>1. CASE q = l
    <3>1. mine'[l] = a /\ content'[a] = tag[l][2] /\ tag' = tag
      BY <1>12 DEF Create, MakeTexture
    <3>2. QED
      BY <2>1, <3>1
  <2>2. CASE q # l
    BY <1>12, <1>s, <2>2 DEF Create
  <2>3. QED
    BY <2>1, <2>2
<1>13. ASSUME NEW l \in Loader, Lock(l) PROVE Tagged
  BY <1>13, <1>s DEF Lock
<1>14. ASSUME NEW a \in Addr, NEW c \in Content, CreateEmpty(a, c)
      PROVE  Tagged
  BY <1>14, <1>s DEF CreateEmpty
<1>15. ASSUME NEW a \in Addr, NEW c \in Content, WriteUnseen(a, c)
      PROVE  Tagged
  BY <1>15, <1>s DEF WriteUnseen
<1>16. ASSUME NEW a \in Addr, NEW c \in Content, Update(a, c) PROVE Tagged
  BY <1>16, <1>s DEF Update
<1>17. ASSUME NEW a \in Addr, GameRelease(a) PROVE Tagged
  BY <1>17, <1>s DEF GameRelease
<1>18. ASSUME NEW a \in Addr, Evict(a) PROVE Tagged
  BY <1>18, <1>s DEF Evict
<1>19. CASE CopyCached
  BY <1>19, <1>s DEF CopyCached
<1>20. CASE Retire
  BY <1>20, <1>s DEF Retire
<1>21. CASE Write
  <2>1. CASE q = Render
    <3>1. mine[Render] \in Addr
      BY <1>21 DEF Write, Shape, Asking, Entering
    <3>2. QED
      BY <1>21, <2>1, <3>1 DEF Write
  <2>2. CASE q # Render
    BY <1>21, <1>s, <2>2 DEF Write
  <2>3. QED
    BY <2>1, <2>2
<1>22. ASSUME NEW must \in BOOLEAN, Collect(must) PROVE Tagged
  BY <1>22, <1>s DEF Collect
<1>23. CASE LockAgain
  BY <1>23, <1>s DEF LockAgain
<1>24. CASE ReleaseEvicted
  BY <1>24, <1>s DEF ReleaseEvicted
<1>25. CASE EndPurge
  BY <1>25, <1>s DEF EndPurge
<1>26. QED
  BY <1>0, <1>1, <1>2, <1>3, <1>4, <1>5, <1>6, <1>7, <1>8, <1>9, <1>10,
     <1>11, <1>12, <1>13, <1>14, <1>15, <1>16, <1>17, <1>18, <1>19, <1>20,
     <1>21, <1>22, <1>23, <1>24, <1>25
     DEF Next, Ask, Enter

(* A descriptor comes to life with its content, and keeps it.              *)
LEMMA TagTellsStep ==
  /\ LiveInv /\ EnteredTagged /\ TagTellsContent /\ [Next]_vars
  => TagTellsContent'
<1> SUFFICES ASSUME LiveInv, EnteredTagged, TagTellsContent, [Next]_vars,
                    NEW n \in Addr, Live(n)', n \notin written' \cup orphaned'
             PROVE  content'[n] = Textures_2D'[n].tag[2]
  BY DEF TagTellsContent
<1>i. ShapeInv /\ EnteredDead /\ LiveLinked /\ LiveHeld /\ TypeOK /\ Shape
  BY DEF LiveInv, ShapeInv
<1>g. n \notin orphaned
  BY HistoryGrows
<1>l. CASE ~Live(n)
  <2>1. PICK p \in Thread : FirstInsert(p, n)
    BY <1>i, <1>l, LiveByInsert
  <2>2. /\ content' = content /\ written' = written
        /\ Textures_2D'[n].tag = tag[p] /\ stage[p] = "insert"
        /\ mine[p] = n /\ Textures_2D[n] = Absent
    BY <1>i, <2>1 DEF FirstInsert, Insert, TypeOK, objects
  <2>3. QED
    BY <2>2 DEF EnteredTagged
<1>h. CASE Live(n)
  <2>1. Alive(n)
    BY <1>h, <1>i, <1>g DEF LiveHeld, Alive, Refs, TypeOK
  <2>2. Textures_2D'[n].tag = Textures_2D[n].tag
    BY <1>h, <1>i, DescriptorsLast DEF Live
  <2>3. CASE ~Rewritten(n)
    BY <1>h, <1>i, <1>g, <2>2, <2>3, ContentKept DEF TagTellsContent
  <2>4. CASE mine[Render] = n /\ CopyCached
    <3>1. n \notin written /\ content'[n] = content[n]
      BY <1>i, <2>4 DEF CopyCached, TypeOK
    <3>2. QED
      BY <1>h, <1>g, <2>2, <3>1 DEF TagTellsContent
  <2>5. CASE mine[Render] = n /\ Write
    BY <1>h, <1>i, <1>g, <2>5, ThreadAssumption
       DEF Write, Outdates, LiveLinked, EnteredDead, Dead, Entering, Thread
  <2>6. QED
    BY <2>1, <2>3, <2>4, <2>5 DEF Rewritten, Create, CreateEmpty, MakeTexture
<1>1. QED
  BY <1>l, <1>h

-----------------------------------------------------------------------------
(* The balance of references.                                              *)

Comers(a) == {p \in Thread : mine[p] = a /\ stage[p] \in {"back", "insert"}}
Goer(a)   == IF stage[Render] = "release" /\ it[Render] = a THEN 1 ELSE 0

(* There are finitely many threads.                                        *)
LEMMA ThreadSets ==
  ASSUME NEW S \in SUBSET Thread
  PROVE  IsFiniteSet(S) /\ Cardinality(S) \in Nat
BY ThreadAssumption, FS_AddElement, FS_Subset, FS_CardinalityType DEF Thread

(* A thread that enters a texture brings a reference; no other step lets   *)
(* the cache have more of them than before.                                *)
LEMMA WithinLasts ==
  ASSUME ShapeInv, [Next]_vars, NEW n \in Addr, NEW k \in {0, 1},
         Within(n, k), \A p \in Thread : mine[p] = n => ~Insert(p)
  PROVE  Within(n, k)'
<1>t. TypeOK /\ Shape /\ TypeOK' /\ Shape'
  BY TypeStep, ShapeStep DEF ShapeInv
<1>c. /\ InTransit(n) = Cardinality(Comers(n)) + Goer(n)
      /\ IsFiniteSet(Comers(n)) /\ Cardinality(Comers(n)) \in Nat
      /\ Goer(n) \in {0, 1}
  <2>1. Comers(n) \in SUBSET Thread
    BY DEF Comers
  <2>2. QED
    BY <2>1, ThreadSets DEF InTransit, Comers, Goer
<1>p. /\ InTransit(n)' = Cardinality(Comers(n)') + Goer(n)'
      /\ IsFiniteSet(Comers(n)') /\ Cardinality(Comers(n)') \in Nat
      /\ Goer(n)' \in {0, 1}
  <2>1. Comers(n)' \in SUBSET Thread
    BY DEF Comers
  <2>2. QED
    BY <2>1, ThreadSets DEF InTransit, Comers, Goer
<1>r. cacheRefs[n] \in Nat /\ cacheRefs'[n] \in Nat
  BY <1>t DEF TypeOK
<1>s. ASSUME Comers(n)' = Comers(n), Goer(n)' >= Goer(n),
             cacheRefs'[n] <= cacheRefs[n]
      PROVE  Within(n, k)'
  <2>1. Cardinality(Comers(n)') = Cardinality(Comers(n))
    BY <1>s
  <2>2. QED
    BY <1>s, <1>c, <1>p, <1>r, <2>1 DEF Within
<1> USE <1>t, ThreadAssumption
    DEF TypeOK, Goto, Done, Thread, objects, maps, threads
<1>0. CASE UNCHANGED vars
  BY <1>0, <1>s DEF vars, Comers, Goer
<1>1. ASSUME NEW p \in Thread, Look(p) PROVE Within(n, k)'
  BY <1>1, <1>s, <1>r DEF Look, Comers, Goer
<1>2. ASSUME NEW p \in Thread, Read(p) PROVE Within(n, k)'
  BY <1>2, <1>s, <1>r DEF Read, Comers, Goer, Entry
<1>3. ASSUME NEW p \in Thread, Judge(p) PROVE Within(n, k)'
  BY <1>3, <1>s, <1>r DEF Judge, Comers, Goer
<1>4. ASSUME NEW p \in Thread, AddRef(p) PROVE Within(n, k)'
  BY <1>4, <1>s, <1>r DEF AddRef, Comers, Goer
<1>5. ASSUME NEW p \in Thread, Expel(p) PROVE Within(n, k)'
  BY <1>5, <1>s, <1>r DEF Expel, Comers, Goer, Entry
<1>6. ASSUME NEW p \in Thread, Forget(p) PROVE Within(n, k)'
  BY <1>6, <1>s, <1>r DEF Forget, Comers, Goer
<1>7. ASSUME NEW p \in Thread, Ignore(p) PROVE Within(n, k)'
  BY <1>7, <1>s, <1>r DEF Ignore, Comers, Goer
<1>8. ASSUME NEW p \in Thread, Admit(p) PROVE Within(n, k)'
  <2>1. mine[p] \in Addr /\ stage[p] = "admit"
    BY <1>8 DEF Admit, Shape, Entering
  <2>2. CASE mine[p] # n
    BY <1>8, <1>s, <1>r, <2>1, <2>2 DEF Admit, Comers, Goer
  <2>3. CASE mine[p] = n
    <3>1. Comers(n)' = Comers(n) \cup {p} /\ p \notin Comers(n)
          /\ Goer(n)' = Goer(n) /\ cacheRefs'[n] = cacheRefs[n] + 1
      BY <1>8, <2>1, <2>3 DEF Admit, Comers, Goer
    <3>2. Cardinality(Comers(n)') = Cardinality(Comers(n)) + 1
      <4>1. Cardinality(Comers(n) \cup {p}) = Cardinality(Comers(n)) + 1
        BY <1>c, <3>1, FS_AddElement
      <4>2. QED
        BY <3>1, <4>1
    <3>3. QED
      BY <1>c, <1>p, <1>r, <3>1, <3>2 DEF Within
  <2>4. QED
    BY <2>2, <2>3
<1>9. ASSUME NEW p \in Thread, LinkBack(p) PROVE Within(n, k)'
  BY <1>9, <1>s, <1>r DEF LinkBack, Comers, Goer
<1>10. ASSUME NEW p \in Thread, Insert(p) PROVE Within(n, k)'
  <2>1. mine[p] # n
    BY <1>10
  <2>2. QED
    BY <1>10, <1>s, <1>r, <2>1 DEF Insert, Comers, Goer
<1>11. ASSUME NEW l \in Loader, NEW c \in Content, Load(l, c)
      PROVE  Within(n, k)'
  BY <1>11, <1>s, <1>r DEF Load, Comers, Goer
<1>12. ASSUME NEW l \in Loader, NEW a \in Addr, Create(l, a)
      PROVE  Within(n, k)'
  BY <1>12, <1>s, <1>r DEF Create, Comers, Goer, MakeTexture
<1>13. ASSUME NEW l \in Loader, Lock(l) PROVE Within(n, k)'
  BY <1>13, <1>s, <1>r DEF Lock, Comers, Goer
<1>14. ASSUME NEW a \in Addr, NEW c \in Content, CreateEmpty(a, c)
      PROVE  Within(n, k)'
  BY <1>14, <1>s, <1>r DEF CreateEmpty, Comers, Goer, MakeTexture
<1>15. ASSUME NEW a \in Addr, NEW c \in Content, WriteUnseen(a, c)
      PROVE  Within(n, k)'
  BY <1>15, <1>s, <1>r DEF WriteUnseen, Comers, Goer
<1>16. ASSUME NEW a \in Addr, NEW c \in Content, Update(a, c)
      PROVE  Within(n, k)'
  BY <1>16, <1>s, <1>r DEF Update, Comers, Goer
<1>17. ASSUME NEW a \in Addr, GameRelease(a) PROVE Within(n, k)'
  BY <1>17, <1>s, <1>r DEF GameRelease, Comers, Goer
<1>18. ASSUME NEW a \in Addr, Evict(a) PROVE Within(n, k)'
  <2>1. /\ Comers(n)' = Comers(n) /\ cacheRefs' = cacheRefs
        /\ stage[Render] = "purge"
    BY <1>18 DEF Evict, Comers
  <2>2. Goer(n) = 0
    BY <2>1 DEF Goer
  <2>3. QED
    BY <1>s, <1>r, <1>p, <2>1, <2>2
<1>19. CASE CopyCached
  BY <1>19, <1>s, <1>r DEF CopyCached, Comers, Goer
<1>20. CASE Retire
  <2>1. mine[Render] \in Addr
    BY <1>20, RetiredDescribed
  <2>2. cacheRefs'[n] <= cacheRefs[n]
    BY <1>20, <1>r, <2>1 DEF Retire, TakeBack
  <2>3. Comers(n)' = Comers(n) /\ Goer(n)' = Goer(n)
    BY <1>20 DEF Retire, Comers, Goer
  <2>4. QED
    BY <1>s, <1>p, <2>2, <2>3
<1>21. CASE Write
  BY <1>21, <1>s, <1>r DEF Write, Comers, Goer
<1>22. ASSUME NEW must \in BOOLEAN, Collect(must) PROVE Within(n, k)'
  BY <1>22, <1>s, <1>r DEF Collect, Comers, Goer
<1>23. CASE LockAgain
  BY <1>23, <1>s, <1>r DEF LockAgain, Comers, Goer
<1>24. CASE ReleaseEvicted
  <2>1. it[Render] \in Addr /\ stage[Render] = "release"
    BY <1>24 DEF ReleaseEvicted, Shape
  <2>2. Comers(n)' = Comers(n)
    BY <1>24 DEF ReleaseEvicted, Comers
  <2>3. CASE it[Render] # n
    BY <1>24, <1>s, <1>r, <2>1, <2>2, <2>3
       DEF ReleaseEvicted, GivesBack, TakeBack, Goer
  <2>4. CASE it[Render] = n
    <3>1. Goer(n) = 1 /\ Goer(n)' = 0
      BY <1>24, <2>1, <2>4 DEF ReleaseEvicted, Goer
    <3>2. cacheRefs'[n] = IF cacheRefs[n] > 0 THEN cacheRefs[n] - 1
                                              ELSE cacheRefs[n]
      BY <1>24, <1>r, <2>1, <2>4 DEF ReleaseEvicted, GivesBack, TakeBack
    <3>3. Cardinality(Comers(n)') = Cardinality(Comers(n))
      BY <2>2
    <3>4. QED
      BY <1>c, <1>p, <1>r, <3>1, <3>2, <3>3 DEF Within
  <2>5. QED
    BY <2>3, <2>4
<1>25. CASE EndPurge
  BY <1>25, <1>s, <1>r DEF EndPurge, Comers, Goer
<1>26. QED
  BY <1>0, <1>1, <1>2, <1>3, <1>4, <1>5, <1>6, <1>7, <1>8, <1>9, <1>10,
     <1>11, <1>12, <1>13, <1>14, <1>15, <1>16, <1>17, <1>18, <1>19, <1>20,
     <1>21, <1>22, <1>23, <1>24, <1>25
     DEF Next, Ask, Enter

(* The steps that turn a reference on its way into a descriptor's, or back.*)
LEMMA InsertWithin ==
  ASSUME ShapeInv, [Next]_vars, NEW n \in Addr, NEW p \in Thread, Insert(p),
         mine[p] = n, Within(n, 0)
  PROVE  Within(n, 1)'
<1>t. TypeOK
  BY DEF ShapeInv
<1>1. /\ Comers(n)' = Comers(n) \ {p} /\ p \in Comers(n)
      /\ Goer(n)' = Goer(n) /\ cacheRefs' = cacheRefs
  BY <1>t DEF Insert, Done, Goto, TypeOK, Comers, Goer, objects
<1>2. Comers(n) \in SUBSET Thread
  BY DEF Comers
<1>3. IsFiniteSet(Comers(n)) /\ Cardinality(Comers(n)) \in Nat
  BY <1>2, ThreadSets
<1>4. Cardinality(Comers(n) \ {p}) = Cardinality(Comers(n)) - 1
  BY <1>1, <1>3, FS_RemoveElement
<1>5. /\ InTransit(n) = Cardinality(Comers(n)) + Goer(n)
      /\ InTransit(n)' = Cardinality(Comers(n)') + Goer(n)'
      /\ Goer(n) \in {0, 1}
  BY DEF InTransit, Comers, Goer
<1>6. cacheRefs[n] \in Nat
  BY <1>t DEF TypeOK
<1>7. Cardinality(Comers(n)') = Cardinality(Comers(n)) - 1
  BY <1>1, <1>4
<1>8. QED
  BY <1>1, <1>3, <1>5, <1>6, <1>7 DEF Within

(* An eviction turns the descriptor's reference into one on its way out.   *)
LEMMA EvictWithin ==
  ASSUME ShapeInv, [Next]_vars, NEW n \in Addr, Evict(n),
         stage'[Render] = "release", Within(n, 1)
  PROVE  Within(n, 0)'
<1>t. TypeOK
  BY DEF ShapeInv
<1>1. Comers(n) \in SUBSET Thread
  BY DEF Comers
<1>2. IsFiniteSet(Comers(n)) /\ Cardinality(Comers(n)) \in Nat
  BY <1>1, ThreadSets
<1>3. /\ Comers(n)' = Comers(n) /\ Goer(n) = 0 /\ Goer(n)' = 1
      /\ cacheRefs' = cacheRefs
  BY <1>t, ThreadAssumption
     DEF Evict, Goto, TypeOK, Comers, Goer, Thread, objects
<1>4. /\ InTransit(n) = Cardinality(Comers(n)) + Goer(n)
      /\ InTransit(n)' = Cardinality(Comers(n)') + Goer(n)'
  BY DEF InTransit, Comers, Goer
<1>5. cacheRefs[n] \in Nat
  BY <1>t DEF TypeOK
<1>6. Cardinality(Comers(n)') = Cardinality(Comers(n))
  BY <1>3
<1>7. QED
  BY <1>2, <1>3, <1>4, <1>5, <1>6 DEF Within

(* An update gives the descriptor's reference back, or notes it did not.   *)
LEMMA RetireWithin ==
  ASSUME ShapeInv, [Next]_vars, NEW n \in Addr, Retire, mine[Render] = n,
         Within(n, 1)
  PROVE  Within(n, 0)' \/ n \in kept'
<1>t. TypeOK /\ cacheRefs[n] \in Nat
  BY DEF ShapeInv, TypeOK
<1>1. Comers(n) \in SUBSET Thread
  BY DEF Comers
<1>2. IsFiniteSet(Comers(n)) /\ Cardinality(Comers(n)) \in Nat
  BY <1>1, ThreadSets
<1>3. CASE ~FirstRemoval(Textures_2D[n].tag)
  BY <1>3 DEF Retire
<1>4. CASE FirstRemoval(Textures_2D[n].tag)
  <2>1. mine' = mine /\ Comers(n)' = Comers(n) /\ Goer(n)' = Goer(n)
    BY <1>t, ThreadAssumption
       DEF Retire, Goto, TypeOK, Comers, Goer, Thread
  <2>2. cacheRefs'[n] = IF cacheRefs[n] > 0 THEN cacheRefs[n] - 1
                                            ELSE cacheRefs[n]
    BY <1>t, <1>4 DEF Retire, TakeBack, TypeOK
  <2>3. /\ InTransit(n) = Cardinality(Comers(n)) + Goer(n)
        /\ InTransit(n)' = Cardinality(Comers(n)') + Goer(n)'
        /\ Goer(n) \in {0, 1}
    BY DEF InTransit, Comers, Goer
  <2>4. Cardinality(Comers(n)') = Cardinality(Comers(n))
    BY <2>1
  <2>5. QED
    BY <1>t, <1>2, <2>1, <2>2, <2>3, <2>4 DEF Within
<1>5. QED
  BY <1>3, <1>4

(* A loader's texture has no reference but the one on its way.             *)
LEMMA LoadedUnheldStep ==
  ShapeInv /\ LoadedUnheld /\ [Next]_vars => LoadedUnheld'
<1> DEFINE Own == {"lock", "admit", "back", "insert"}
<1> SUFFICES ASSUME ShapeInv, LoadedUnheld, [Next]_vars, NEW q \in Loader,
                    stage'[q] \in Own, NEW n \in Addr, mine'[q] = n,
                    n \notin shadowed' \cup kept'
             PROVE  Within(n, 0)'
  <2>1. ASSUME ShapeInv, [Next]_vars PROVE Shape' /\ TypeOK'
    BY <2>1, ShapeStep, TypeStep
  <2>2. QED
    BY <2>1, ThreadAssumption, SMTT(20)
       DEF LoadedUnheld, Within, Shape, Entering, Thread, TypeOK, InTransit
<1>t. TypeOK /\ Shape /\ TypeOK' /\ Shape' /\ q \in Thread /\ q # Render
  BY TypeStep, ShapeStep, ThreadAssumption DEF ShapeInv, Thread
<1>s. ASSUME stage[q] \in Own, mine[q] = n
      PROVE  Within(n, 0)'
  <2>1. Within(n, 0)
    BY <1>s, <1>t, HistoryGrows DEF LoadedUnheld, Within
  <2>2. ASSUME NEW p \in Thread, Insert(p), mine[p] = n
        PROVE  FALSE
    <3>1. p # q
      BY <1>t, <2>2 DEF Insert, Done, Goto, TypeOK
    <3>2. Textures_2D[n] # Absent
      BY <1>s, <1>t, <2>2, <3>1 DEF ShapeInv, NewAddresses, Undescribed
    <3>3. n \in shadowed'
      BY <2>2, <3>2 DEF Insert
    <3>4. QED
      BY <3>3
  <2>3. QED
    BY <2>1, <2>2, WithinLasts
<1> USE <1>t, ThreadAssumption
    DEF TypeOK, Goto, Done, Thread, objects, maps, threads
<1>0. CASE UNCHANGED vars
  BY <1>0, <1>s DEF vars
<1>1. ASSUME NEW p \in Thread, Look(p) PROVE Within(n, 0)'
  BY <1>1, <1>s DEF Look
<1>2. ASSUME NEW p \in Thread, Read(p) PROVE Within(n, 0)'
  BY <1>2, <1>s DEF Read
<1>3. ASSUME NEW p \in Thread, Judge(p) PROVE Within(n, 0)'
  BY <1>3, <1>s DEF Judge
<1>4. ASSUME NEW p \in Thread, AddRef(p) PROVE Within(n, 0)'
  BY <1>4, <1>s DEF AddRef
<1>5. ASSUME NEW p \in Thread, Expel(p) PROVE Within(n, 0)'
  BY <1>5, <1>s DEF Expel
<1>6. ASSUME NEW p \in Thread, Forget(p) PROVE Within(n, 0)'
  BY <1>6, <1>s DEF Forget
<1>7. ASSUME NEW p \in Thread, Ignore(p) PROVE Within(n, 0)'
  BY <1>7, <1>s DEF Ignore
<1>8. ASSUME NEW p \in Thread, Admit(p) PROVE Within(n, 0)'
  BY <1>8, <1>s DEF Admit
<1>9. ASSUME NEW p \in Thread, LinkBack(p) PROVE Within(n, 0)'
  BY <1>9, <1>s DEF LinkBack
<1>10. ASSUME NEW p \in Thread, Insert(p) PROVE Within(n, 0)'
  BY <1>10, <1>s DEF Insert
<1>11. ASSUME NEW l \in Loader, NEW c \in Content, Load(l, c)
      PROVE  Within(n, 0)'
  BY <1>11, <1>s DEF Load
<1>12. ASSUME NEW l \in Loader, NEW a \in Addr, Create(l, a)
      PROVE  Within(n, 0)'
  <2>1. CASE q = l
    <3>1. a = n /\ cacheRefs'[a] = 0
      BY <1>12, <2>1 DEF Create, MakeTexture, Alive, Refs
    <3>2. Comers(n)' \in SUBSET Thread
      BY DEF Comers
    <3>3. Cardinality(Comers(n)') \in Nat
      BY <3>2, ThreadSets
    <3>4. InTransit(n)' = Cardinality(Comers(n)') + Goer(n)'
          /\ Goer(n)' \in {0, 1}
      BY DEF InTransit, Comers, Goer
    <3>5. QED
      BY <3>1, <3>3, <3>4 DEF Within
  <2>2. CASE q # l
    BY <1>12, <1>s, <2>2 DEF Create
  <2>3. QED
    BY <2>1, <2>2
<1>13. ASSUME NEW l \in Loader, Lock(l) PROVE Within(n, 0)'
  BY <1>13, <1>s DEF Lock
<1>14. ASSUME NEW a \in Addr, NEW c \in Content, CreateEmpty(a, c)
      PROVE  Within(n, 0)'
  BY <1>14, <1>s DEF CreateEmpty
<1>15. ASSUME NEW a \in Addr, NEW c \in Content, WriteUnseen(a, c)
      PROVE  Within(n, 0)'
  BY <1>15, <1>s DEF WriteUnseen
<1>16. ASSUME NEW a \in Addr, NEW c \in Content, Update(a, c)
      PROVE  Within(n, 0)'
  BY <1>16, <1>s DEF Update
<1>17. ASSUME NEW a \in Addr, GameRelease(a) PROVE Within(n, 0)'
  BY <1>17, <1>s DEF GameRelease
<1>18. ASSUME NEW a \in Addr, Evict(a) PROVE Within(n, 0)'
  BY <1>18, <1>s DEF Evict
<1>19. CASE CopyCached
  BY <1>19, <1>s DEF CopyCached
<1>20. CASE Retire
  BY <1>20, <1>s DEF Retire
<1>21. CASE Write
  BY <1>21, <1>s DEF Write
<1>22. ASSUME NEW must \in BOOLEAN, Collect(must) PROVE Within(n, 0)'
  BY <1>22, <1>s DEF Collect
<1>23. CASE LockAgain
  BY <1>23, <1>s DEF LockAgain
<1>24. CASE ReleaseEvicted
  BY <1>24, <1>s DEF ReleaseEvicted
<1>25. CASE EndPurge
  BY <1>25, <1>s DEF EndPurge
<1>26. QED
  BY <1>0, <1>1, <1>2, <1>3, <1>4, <1>5, <1>6, <1>7, <1>8, <1>9, <1>10,
     <1>11, <1>12, <1>13, <1>14, <1>15, <1>16, <1>17, <1>18, <1>19, <1>20,
     <1>21, <1>22, <1>23, <1>24, <1>25
     DEF Next, Ask, Enter

(* What turns a live descriptor into a zombie.                             *)
LEMMA EndsOfLive ==
  ASSUME ShapeInv, [Next]_vars, NEW n \in Addr, Live(n), ~Live(n)'
  PROVE  \/ Retire /\ mine[Render] = n
         \/ Evict(n) /\ stage'[Render] = "release"
         \/ \E p \in Thread : Forget(p) /\ it[p] = n
<1> DEFINE Ends == \/ Retire /\ mine[Render] = n
                   \/ Evict(n) /\ stage'[Render] = "release"
                   \/ \E p \in Thread : Forget(p) /\ it[p] = n
<1> SUFFICES Ends
  OBVIOUS
<1> USE ThreadAssumption
    DEF ShapeInv, TypeOK, Live, Goto, Thread, objects, maps, threads
<1>0. CASE UNCHANGED vars
  BY <1>0 DEF vars
<1>1. ASSUME NEW p \in Thread, Look(p) PROVE Ends
  BY <1>1 DEF Look
<1>2. ASSUME NEW p \in Thread, Read(p) PROVE Ends
  BY <1>2 DEF Read
<1>3. ASSUME NEW p \in Thread, Judge(p) PROVE Ends
  BY <1>3 DEF Judge
<1>4. ASSUME NEW p \in Thread, AddRef(p) PROVE Ends
  BY <1>4 DEF AddRef
<1>5. ASSUME NEW p \in Thread, Expel(p) PROVE Ends
  BY <1>5 DEF Expel
<1>6. ASSUME NEW p \in Thread, Forget(p) PROVE Ends
  BY <1>6 DEF Forget
<1>7. ASSUME NEW p \in Thread, Ignore(p) PROVE Ends
  BY <1>7 DEF Ignore
<1>8. ASSUME NEW p \in Thread, Admit(p) PROVE Ends
  BY <1>8 DEF Admit
<1>9. ASSUME NEW p \in Thread, LinkBack(p) PROVE Ends
  BY <1>9 DEF LinkBack
<1>10. ASSUME NEW p \in Thread, Insert(p) PROVE Ends
  BY <1>10 DEF Insert
<1>11. ASSUME NEW l \in Loader, NEW c \in Content, Load(l, c) PROVE Ends
  BY <1>11 DEF Load
<1>12. ASSUME NEW l \in Loader, NEW a \in Addr, Create(l, a) PROVE Ends
  BY <1>12 DEF Create, MakeTexture
<1>13. ASSUME NEW l \in Loader, Lock(l) PROVE Ends
  BY <1>13 DEF Lock
<1>14. ASSUME NEW a \in Addr, NEW c \in Content, CreateEmpty(a, c) PROVE Ends
  BY <1>14 DEF CreateEmpty, MakeTexture
<1>15. ASSUME NEW a \in Addr, NEW c \in Content, WriteUnseen(a, c) PROVE Ends
  BY <1>15 DEF WriteUnseen
<1>16. ASSUME NEW a \in Addr, NEW c \in Content, Update(a, c) PROVE Ends
  BY <1>16 DEF Update
<1>17. ASSUME NEW a \in Addr, GameRelease(a) PROVE Ends
  BY <1>17 DEF GameRelease
<1>18. ASSUME NEW a \in Addr, Evict(a) PROVE Ends
  BY <1>18 DEF Evict
<1>19. CASE CopyCached
  BY <1>19 DEF CopyCached
<1>20. CASE Retire
  BY <1>20 DEF Retire
<1>21. CASE Write
  BY <1>21 DEF Write
<1>22. ASSUME NEW must \in BOOLEAN, Collect(must) PROVE Ends
  BY <1>22 DEF Collect
<1>23. CASE LockAgain
  BY <1>23 DEF LockAgain
<1>24. CASE ReleaseEvicted
  BY <1>24 DEF ReleaseEvicted
<1>25. CASE EndPurge
  BY <1>25 DEF EndPurge
<1>26. QED
  BY <1>0, <1>1, <1>2, <1>3, <1>4, <1>5, <1>6, <1>7, <1>8, <1>9, <1>10,
     <1>11, <1>12, <1>13, <1>14, <1>15, <1>16, <1>17, <1>18, <1>19, <1>20,
     <1>21, <1>22, <1>23, <1>24, <1>25
     DEF Next, Ask, Enter

(* Every step keeps the references accounted for.                          *)
LEMMA LeaksNamedStep ==
  LiveInv /\ LoadedUnheld /\ LeaksNamed /\ [Next]_vars => LeaksNamed'
<1> SUFFICES ASSUME LiveInv, LoadedUnheld, LeaksNamed, [Next]_vars,
                    NEW n \in Addr, n \notin shadowed' \cup kept'
             PROVE  Within(n, IF Live(n) THEN 1 ELSE 0)'
  BY DEF LeaksNamed, Within
<1>i. ShapeInv /\ EntriesExplained /\ Misses /\ TypeOK /\ Shape
  BY DEF LiveInv, ShapeInv
<1>g. n \notin shadowed \cup kept
  BY HistoryGrows
<1>w. Within(n, IF Live(n) THEN 1 ELSE 0)
  BY <1>g DEF LeaksNamed, Within
<1>1. ASSUME NEW p \in Thread, Insert(p), mine[p] = n
      PROVE  Within(n, IF Live(n) THEN 1 ELSE 0)'
  <2>1. Textures_2D[n] = Absent
    BY <1>1 DEF Insert
  <2>2. /\ Textures_2D'[n] = [tag |-> tag[p], live |-> TRUE]
        /\ tag[p] \in Tag
    BY <1>1, <1>i, <2>1, TagFacts
       DEF Insert, TypeOK, Shape, Asking, Entering
  <2>3. ~Live(n) /\ Live(n)'
    <3>1. [tag |-> tag[p], live |-> TRUE] # Absent
      BY <2>2, DescriptorFacts
    <3>2. QED
      BY <2>1, <2>2, <3>1 DEF Live
  <2>4. Within(n, 0)
    BY <1>w, <2>3
  <2>5. Within(n, 1)'
    BY <1>1, <1>i, <2>4, InsertWithin
  <2>6. QED
    BY <2>3, <2>5
<1>2. CASE \A p \in Thread : mine[p] = n => ~Insert(p)
  <2>l. \A k \in {0, 1} : Within(n, k) => Within(n, k)'
    BY <1>2, <1>i, WithinLasts
  <2>1. CASE Live(n) <=> Live(n)'
    BY <1>w, <2>1, <2>l
  <2>2. CASE ~Live(n) /\ Live(n)'
    BY <1>2, <1>i, <2>2, LiveByInsert DEF FirstInsert
  <2>3. CASE Live(n) /\ ~Live(n)'
    <3>1. Within(n, 1)
      BY <1>w, <2>3
    <3>2. \/ Retire /\ mine[Render] = n
          \/ Evict(n) /\ stage'[Render] = "release"
          \/ \E p \in Thread : Forget(p) /\ it[p] = n
      BY <1>i, <2>3, EndsOfLive
    <3>3. CASE Retire /\ mine[Render] = n
      BY <1>i, <2>3, <3>1, <3>3, RetireWithin
    <3>4. CASE Evict(n) /\ stage'[Render] = "release"
      BY <1>i, <2>3, <3>1, <3>4, EvictWithin
    <3>5. ASSUME NEW p \in Thread, Forget(p), it[p] = n
          PROVE  Within(n, 0)'
      <4>1. Textures_2D[n].tag # tag[p] /\ Explained(n, tag[p])
        BY <1>i, <2>3, <3>5
           DEF Forget, Misses, EntriesExplained, Looking
      <4>2. PICK q \in Thread :
              stage[q] \in Admitted /\ mine[q] = n /\ tag[q] = tag[p]
        BY <1>g, <4>1 DEF Explained
      <4>3. q # Render
        BY <1>i, <3>5, <4>2, TagFacts
           DEF Forget, Shape, Admitted, Asking, Entering
      <4>4. Within(n, 0)
        BY <1>g, <4>2, <4>3 DEF LoadedUnheld, Within, Admitted, Thread
      <4>5. QED
        BY <2>l, <4>4
    <3>6. QED
      BY <2>3, <3>2, <3>3, <3>4, <3>5
  <2>4. QED
    BY <2>1, <2>2, <2>3
<1>3. QED
  BY <1>1, <1>2

(* tex_mgr.cpp: references outlive neither their descriptor nor the moment *)
(* between two steps, but for the two cases the code loses one: the        *)
(* address had a descriptor already, or the tag was blacklisted before.    *)
THEOREM LeaksAreKnown == Spec => []LeaksNamed
<1>1. Init => LoadedUnheld /\ LeaksNamed
  <2> SUFFICES ASSUME Init PROVE LoadedUnheld /\ LeaksNamed
    OBVIOUS
  <2>1. LoadedUnheld
    BY DEF Init, LoadedUnheld, Thread
  <2>2. ASSUME NEW a \in Addr PROVE cacheRefs[a] <= InTransit(a) + 0
    <3>1. Comers(a) \in SUBSET Thread
      BY DEF Comers
    <3>2. Cardinality(Comers(a)) \in Nat
      BY <3>1, ThreadSets
    <3>3. InTransit(a) = Cardinality(Comers(a)) + Goer(a)
          /\ Goer(a) \in {0, 1}
      BY DEF InTransit, Comers, Goer
    <3>4. QED
      BY <3>2, <3>3 DEF Init
  <2>3. QED
    BY <2>1, <2>2 DEF Init, LeaksNamed, Live
<1>2. LiveInv /\ LoadedUnheld /\ LeaksNamed /\ [Next]_vars
        => LoadedUnheld' /\ LeaksNamed'
  BY LoadedUnheldStep, LeaksNamedStep DEF LiveInv
<1>3. QED
  BY <1>1, <1>2, LiveInvariant, PTL DEF Spec

-----------------------------------------------------------------------------
(* What is touched or released is still there.                             *)

(* A thread that expels a texture found it dead.                           *)
LEMMA ExpelledDead ==
  ASSUME LiveInv, NEW p \in Thread, stage[p] \in {"expel", "forget"},
         it[p] \in Addr
  PROVE  Dead(it[p])
<1>1. EntriesExplained /\ Misses /\ EnteredDead
  BY DEF LiveInv
<1>2. Explained(it[p], tag[p])
  BY <1>1 DEF EntriesExplained, Looking
<1>3. ~Live(it[p]) \/ Textures_2D[it[p]].tag # tag[p]
  BY <1>1 DEF Misses
<1>4. QED
  BY <1>1, <1>2, <1>3
     DEF Explained, EnteredDead, Dead, Live, Admitted, Entering

(* A step that ends a live descriptor is an update of that texture or its  *)
(* eviction.                                                               *)
LEMMA EndsUnlessLost ==
  ASSUME LiveInv, [Next]_vars, orphaned = {}, NEW n \in Addr, Live(n),
         ~Live(n)'
  PROVE  \/ Retire /\ mine[Render] = n
         \/ Evict(n) /\ stage'[Render] = "release"
<1>1. ASSUME NEW p \in Thread, Forget(p), it[p] = n
      PROVE  FALSE
  BY <1>1, ExpelledDead DEF Forget, Dead
<1>2. QED
  BY <1>1, EndsOfLive DEF LiveInv

(* A reference to spare is lost to an update or to the purge only.         *)
LEMMA SpareLasts ==
  ASSUME ShapeInv, [Next]_vars, NEW n \in Addr, Spare(n),
         ~(Retire /\ mine[Render] = n),
         ~(Evict(n) /\ stage'[Render] = "release")
  PROVE  Spare(n)'
<1>t. TypeOK /\ Shape /\ TypeOK'
  BY TypeStep DEF ShapeInv
<1> USE <1>t, ThreadAssumption
    DEF TypeOK, Spare, Releasing, Goto, Done, Thread, objects, maps, threads
<1>0. CASE UNCHANGED vars
  BY <1>0 DEF vars
<1>1. ASSUME NEW p \in Thread, Look(p) PROVE Spare(n)'
  BY <1>1 DEF Look
<1>2. ASSUME NEW p \in Thread, Read(p) PROVE Spare(n)'
  BY <1>2 DEF Read, Entry
<1>3. ASSUME NEW p \in Thread, Judge(p) PROVE Spare(n)'
  BY <1>3 DEF Judge
<1>4. ASSUME NEW p \in Thread, AddRef(p) PROVE Spare(n)'
  BY <1>4 DEF AddRef
<1>5. ASSUME NEW p \in Thread, Expel(p) PROVE Spare(n)'
  BY <1>5 DEF Expel, Entry
<1>6. ASSUME NEW p \in Thread, Forget(p) PROVE Spare(n)'
  BY <1>6 DEF Forget
<1>7. ASSUME NEW p \in Thread, Ignore(p) PROVE Spare(n)'
  BY <1>7 DEF Ignore
<1>8. ASSUME NEW p \in Thread, Admit(p) PROVE Spare(n)'
  BY <1>8 DEF Admit, Shape, Entering
<1>9. ASSUME NEW p \in Thread, LinkBack(p) PROVE Spare(n)'
  BY <1>9 DEF LinkBack
<1>10. ASSUME NEW p \in Thread, Insert(p) PROVE Spare(n)'
  BY <1>10 DEF Insert
<1>11. ASSUME NEW l \in Loader, NEW c \in Content, Load(l, c) PROVE Spare(n)'
  BY <1>11 DEF Load
<1>12. ASSUME NEW l \in Loader, NEW a \in Addr, Create(l, a) PROVE Spare(n)'
  BY <1>12 DEF Create, MakeTexture
<1>13. ASSUME NEW l \in Loader, Lock(l) PROVE Spare(n)'
  BY <1>13 DEF Lock
<1>14. ASSUME NEW a \in Addr, NEW c \in Content, CreateEmpty(a, c)
      PROVE  Spare(n)'
  BY <1>14 DEF CreateEmpty, MakeTexture
<1>15. ASSUME NEW a \in Addr, NEW c \in Content, WriteUnseen(a, c)
      PROVE  Spare(n)'
  BY <1>15 DEF WriteUnseen
<1>16. ASSUME NEW a \in Addr, NEW c \in Content, Update(a, c) PROVE Spare(n)'
  BY <1>16 DEF Update
<1>17. ASSUME NEW a \in Addr, GameRelease(a) PROVE Spare(n)'
  BY <1>17 DEF GameRelease
<1>18. ASSUME NEW a \in Addr, Evict(a) PROVE Spare(n)'
  BY <1>18 DEF Evict
<1>19. CASE CopyCached
  BY <1>19 DEF CopyCached
<1>20. CASE Retire
  BY <1>20, RetiredDescribed DEF Retire, TakeBack
<1>21. CASE Write
  BY <1>21 DEF Write
<1>22. ASSUME NEW must \in BOOLEAN, Collect(must) PROVE Spare(n)'
  BY <1>22 DEF Collect
<1>23. CASE LockAgain
  BY <1>23 DEF LockAgain
<1>24. CASE ReleaseEvicted
  BY <1>24 DEF ReleaseEvicted, GivesBack, TakeBack, Shape
<1>25. CASE EndPurge
  BY <1>25 DEF EndPurge
<1>26. QED
  BY <1>0, <1>1, <1>2, <1>3, <1>4, <1>5, <1>6, <1>7, <1>8, <1>9, <1>10,
     <1>11, <1>12, <1>13, <1>14, <1>15, <1>16, <1>17, <1>18, <1>19, <1>20,
     <1>21, <1>22, <1>23, <1>24, <1>25
     DEF Next, Ask, Enter

(* A tag stays blacklisted, and a descriptor keeps its tag.                *)
LEMMA BlacklistedLasts ==
  ASSUME ShapeInv, [Next]_vars, NEW n \in Addr, Blacklisted(n)
  PROVE  Blacklisted(n)'
<1>1. blacklist \subseteq blacklist'
  BY DEF Next, Ask, Enter, Look, Read, Judge, AddRef, Expel, Forget, Ignore,
         Admit, LinkBack, Insert, Load, Create, Lock, CreateEmpty,
         WriteUnseen, Update, GameRelease, Evict, CopyCached, Retire, Write,
         Collect, LockAgain, ReleaseEvicted, EndPurge, vars, maps
<1>2. QED
  BY <1>1, DescriptorsLast DEF Blacklisted

(* How a thread comes to reference, to link or to release a texture.       *)
LEMMA StillThere ==
  ASSUME TypeOK, [Next]_vars, NEW q \in Thread
  PROVE  /\ stage'[q] = "addref" =>
              \/ Judge(q)
              \/ /\ stage[q] = "addref" /\ it'[q] = it[q] /\ tag'[q] = tag[q]
                 /\ q \in overtaken => q \in overtaken'
         /\ stage'[q] = "back" =>
              \/ Admit(q)
              \/ stage[q] = "back" /\ mine'[q] = mine[q]
         /\ stage'[q] = "release" =>
              \/ \E a \in Addr : Evict(a)
              \/ stage[q] = "release" /\ it'[q] = it[q]
<1> DEFINE Still == /\ stage'[q] = "addref" =>
                         \/ Judge(q)
                         \/ /\ stage[q] = "addref"
                            /\ it'[q] = it[q] /\ tag'[q] = tag[q]
                            /\ q \in overtaken => q \in overtaken'
                    /\ stage'[q] = "back" =>
                         \/ Admit(q)
                         \/ stage[q] = "back" /\ mine'[q] = mine[q]
                    /\ stage'[q] = "release" =>
                         \/ \E a \in Addr : Evict(a)
                         \/ stage[q] = "release" /\ it'[q] = it[q]
<1> SUFFICES Still
  OBVIOUS
<1> USE ThreadAssumption DEF TypeOK, Goto, Done, Thread, threads, history
<1>0. CASE UNCHANGED vars
  BY <1>0 DEF vars
<1>1. ASSUME NEW p \in Thread, Look(p) PROVE Still
  BY <1>1 DEF Look
<1>2. ASSUME NEW p \in Thread, Read(p) PROVE Still
  BY <1>2 DEF Read
<1>3. ASSUME NEW p \in Thread, Judge(p) PROVE Still
  BY <1>3 DEF Judge
<1>4. ASSUME NEW p \in Thread, AddRef(p) PROVE Still
  BY <1>4 DEF AddRef
<1>5. ASSUME NEW p \in Thread, Expel(p) PROVE Still
  BY <1>5 DEF Expel
<1>6. ASSUME NEW p \in Thread, Forget(p) PROVE Still
  BY <1>6 DEF Forget
<1>7. ASSUME NEW p \in Thread, Ignore(p) PROVE Still
  BY <1>7 DEF Ignore
<1>8. ASSUME NEW p \in Thread, Admit(p) PROVE Still
  BY <1>8 DEF Admit
<1>9. ASSUME NEW p \in Thread, LinkBack(p) PROVE Still
  BY <1>9 DEF LinkBack
<1>10. ASSUME NEW p \in Thread, Insert(p) PROVE Still
  BY <1>10 DEF Insert
<1>11. ASSUME NEW l \in Loader, NEW c \in Content, Load(l, c) PROVE Still
  BY <1>11 DEF Load
<1>12. ASSUME NEW l \in Loader, NEW a \in Addr, Create(l, a) PROVE Still
  BY <1>12 DEF Create
<1>13. ASSUME NEW l \in Loader, Lock(l) PROVE Still
  BY <1>13 DEF Lock
<1>14. ASSUME NEW a \in Addr, NEW c \in Content, CreateEmpty(a, c)
      PROVE  Still
  BY <1>14 DEF CreateEmpty
<1>15. ASSUME NEW a \in Addr, NEW c \in Content, WriteUnseen(a, c)
      PROVE  Still
  BY <1>15 DEF WriteUnseen
<1>16. ASSUME NEW a \in Addr, NEW c \in Content, Update(a, c) PROVE Still
  BY <1>16 DEF Update
<1>17. ASSUME NEW a \in Addr, GameRelease(a) PROVE Still
  BY <1>17 DEF GameRelease
<1>18. ASSUME NEW a \in Addr, Evict(a) PROVE Still
  BY <1>18 DEF Evict
<1>19. CASE CopyCached
  BY <1>19 DEF CopyCached
<1>20. CASE Retire
  BY <1>20 DEF Retire
<1>21. CASE Write
  BY <1>21 DEF Write
<1>22. ASSUME NEW must \in BOOLEAN, Collect(must) PROVE Still
  BY <1>22 DEF Collect
<1>23. CASE LockAgain
  BY <1>23 DEF LockAgain
<1>24. CASE ReleaseEvicted
  BY <1>24 DEF ReleaseEvicted
<1>25. CASE EndPurge
  BY <1>25 DEF EndPurge
<1>26. QED
  BY <1>0, <1>1, <1>2, <1>3, <1>4, <1>5, <1>6, <1>7, <1>8, <1>9, <1>10,
     <1>11, <1>12, <1>13, <1>14, <1>15, <1>16, <1>17, <1>18, <1>19, <1>20,
     <1>21, <1>22, <1>23, <1>24, <1>25
     DEF Next, Ask, Enter

(* What a thread has found is dropped by an update or by the purge, who    *)
(* say so, or loses its reverse entry before someone expels it.            *)
LEMMA FoundLiveStep ==
  LiveInv /\ FoundLive /\ [Next]_vars => FoundLive'
<1> SUFFICES ASSUME LiveInv, FoundLive, [Next]_vars,
                    NEW p \in Thread, stage'[p] = "addref"
             PROVE  Hit(p)' \/ it'[p] \in orphaned' \/ p \in overtaken'
  BY DEF FoundLive
<1>i. ShapeInv /\ TypeOK /\ Shape
  BY DEF LiveInv, ShapeInv
<1>1. CASE Judge(p)
  BY <1>i, <1>1 DEF Judge, Hit, Goto, Live, TypeOK
<1>2. CASE ~Judge(p)
  <2>1. /\ stage[p] = "addref" /\ it'[p] = it[p] /\ tag'[p] = tag[p]
        /\ p \in overtaken => p \in overtaken'
    BY <1>i, <1>2, StillThere
  <2>2. PICK n \in Addr : n = it[p]
    BY <1>i, <2>1 DEF Shape
  <2>3. CASE p \in overtaken \/ n \in orphaned
    BY <2>1, <2>2, <2>3, HistoryGrows
  <2>4. CASE Hit(p) /\ Live(n)'
    <3>1. Textures_2D'[n].tag = tag[p]
      BY <1>i, <2>2, <2>4, DescriptorsLast DEF Hit, Live
    <3>2. QED
      BY <2>1, <2>2, <2>4, <3>1 DEF Hit, Live
  <2>5. CASE Live(n) /\ ~Live(n)'
    <3>1. p \in Overtakes(n)
      BY <2>1, <2>2 DEF Overtakes
    <3>2. CASE Retire /\ mine[Render] = n
      BY <3>1, <3>2 DEF Retire
    <3>3. CASE Evict(n)
      BY <2>5, <3>1, <3>3 DEF Evict, Live
    <3>4. ASSUME NEW q \in Thread, Forget(q), it[q] = n
          PROVE  it'[p] \in orphaned'
      <4>1. n \in orphaned
        BY <2>5, <3>4, ExpelledDead DEF Forget, Dead
      <4>2. QED
        BY <2>1, <2>2, <4>1, HistoryGrows
    <3>5. QED
      BY <1>i, <2>5, <3>2, <3>3, <3>4, EndsOfLive
  <2>6. QED
    BY <2>1, <2>2, <2>3, <2>4, <2>5 DEF FoundLive, Hit
<1>3. QED
  BY <1>1, <1>2

(* Both hold throughout.                                                   *)
LEMMA FoundInvariant == Spec => [](FoundLive /\ TagTellsContent)
<1>1. Init => FoundLive /\ EnteredTagged /\ TagTellsContent
  BY DEF Init, FoundLive, EnteredTagged, TagTellsContent, Live
<1>2. LiveInv /\ FoundLive /\ EnteredTagged /\ TagTellsContent /\ [Next]_vars
        => FoundLive' /\ EnteredTagged' /\ TagTellsContent'
  BY FoundLiveStep, EnteredTaggedStep, TagTellsStep DEF LiveInv
<1>3. QED
  BY <1>1, <1>2, LiveInvariant, PTL DEF Spec

(* tex_mgr.cpp: the texture a thread is handed holds the data it asked     *)
(* for, unless it was changed where the cache does not look (the copy of a *)
(* cached texture included), had lost its reverse entry, or was dropped    *)
(* between the find and the reference.                                     *)
THEOREM FindersGetWhatTheyAskFor == Spec => FoundAsAsked
<1> DEFINE AsAsked == \A p \in Thread :
                        AddRef(p) /\ Alive(it[p]) =>
                          \/ content[it[p]] = tag[p][2]
                          \/ it[p] \in written \cup orphaned
                          \/ p \in overtaken
<1>1. LiveInv /\ FoundLive /\ TagTellsContent => AsAsked
  <2> SUFFICES ASSUME LiveInv, FoundLive, TagTellsContent,
                      NEW p \in Thread, AddRef(p),
                      it[p] \notin orphaned, p \notin overtaken
               PROVE  \/ content[it[p]] = tag[p][2]
                      \/ it[p] \in written
    OBVIOUS
  <2>1. stage[p] = "addref" /\ it[p] \in Addr
    BY DEF AddRef, LiveInv, ShapeInv, Shape
  <2>2. Live(it[p]) /\ Textures_2D[it[p]].tag = tag[p]
    BY <2>1 DEF FoundLive, Hit
  <2>3. QED
    BY <2>1, <2>2 DEF TagTellsContent
<1>2. QED
  BY <1>1, LiveInvariant, FoundInvariant, PTL DEF FoundAsAsked

(* Only LinkBack makes a reverse entry.                                    *)
LEMMA StaysUncached ==
  ASSUME TypeOK, [Next]_vars, NEW n \in Addr, Cached(n)',
         ~\E p \in Thread : LinkBack(p) /\ mine[p] = n
  PROVE  Cached(n)
<1> USE DEF TypeOK, Cached, maps
<1> QED
  BY ZenonT(30)
     DEF Next, Ask, Enter, vars, Look, Read, Judge, AddRef, Expel, Forget,
         Ignore, Admit, LinkBack, Insert, Load, Create, Lock, CreateEmpty,
         WriteUnseen, Update, GameRelease, Evict, CopyCached, Retire, Write,
         Collect, LockAgain, ReleaseEvicted, EndPurge

(* Only an update and the purge take references from the cache.            *)
LEMMA CacheRefsLast ==
  ASSUME TypeOK, [Next]_vars, NEW n \in Addr, ~Retire, ~ReleaseEvicted
  PROVE  cacheRefs'[n] >= cacheRefs[n]
<1>1. cacheRefs[n] \in Nat
  BY DEF TypeOK
<1>2. ASSUME NEW p \in Thread, Admit(p) PROVE cacheRefs'[n] >= cacheRefs[n]
  <2>1. CASE mine[p] = n
    BY <1>1, <1>2, <2>1 DEF Admit, TypeOK
  <2>2. CASE mine[p] # n
    BY <1>1, <1>2, <2>2 DEF Admit, TypeOK
  <2>3. QED
    BY <2>1, <2>2
<1>3. CASE ~\E p \in Thread : Admit(p)
  <2>1. cacheRefs' = cacheRefs
    BY <1>3
       DEF Next, Ask, Enter, Look, Read, Judge, AddRef, Expel, Forget,
           Ignore, LinkBack, Insert, Load, Create, Lock, CreateEmpty,
           WriteUnseen, Update, GameRelease, Evict, CopyCached, Write,
           Collect, LockAgain, EndPurge, vars, objects
  <2>2. QED
    BY <1>1, <2>1
<1>4. QED
  BY <1>2, <1>3

(* HeldUnlessLost is inductive, given LiveInv.                             *)
LEMMA HeldUnlessLostStep ==
  LiveInv /\ HeldUnlessLost /\ [Next]_vars => HeldUnlessLost'
<1> SUFFICES ASSUME LiveInv, HeldUnlessLost, [Next]_vars, orphaned' = {}
             PROVE  HeldUnlessLost'
  BY DEF HeldUnlessLost
<1>g. orphaned = {}
  BY HistoryGrows
<1>i. /\ ShapeInv /\ LiveHeld /\ LiveLinked /\ EnteredDead
      /\ TypeOK /\ Shape /\ NewAddresses
  BY DEF LiveInv, ShapeInv
<1>t. TypeOK' /\ Shape'
  BY <1>i, TypeStep, ShapeStep
<1>e. ASSUME NEW n \in Addr, Live(n), ~Live(n)'
      PROVE  \/ Retire /\ mine[Render] = n
             \/ Evict(n) /\ stage'[Render] = "release"
  BY <1>e, <1>g, EndsUnlessLost
<1>1. ASSUME NEW n \in left' PROVE Live(n)'
  <2>1. CASE \E must \in BOOLEAN : Collect(must)
    BY <2>1 DEF Collect, Live, maps
  <2>2. CASE ~\E must \in BOOLEAN : Collect(must)
    <3>1. n \in left /\ n \in Addr /\ ~Evict(n)
      BY <1>i, <2>2
         DEF TypeOK, Next, Ask, Enter, Look, Read, Judge, AddRef, Expel,
             Forget, Ignore, Admit, LinkBack, Insert, Load, Create, Lock,
             CreateEmpty, WriteUnseen, Update, GameRelease, Evict,
             CopyCached, Retire, Write, LockAgain, ReleaseEvicted, EndPurge,
             vars, purge
    <3>2. Live(n) /\ ~Retire
      BY <1>g, <1>i, <3>1
         DEF HeldUnlessLost, Retire, Shape, Purging
    <3>3. QED
      BY <1>e, <3>1, <3>2
  <2>3. QED
    BY <2>1, <2>2
<1>2. ASSUME stage'[Render] = "release" PROVE cacheRefs'[it'[Render]] > 0
  <2>1. CASE \E a \in Addr : Evict(a)
    <3>1. PICK a \in Addr : Evict(a)
      BY <2>1
    <3>2. a \in left /\ it'[Render] = a /\ cacheRefs' = cacheRefs
      BY <1>2, <1>i, <3>1, ThreadAssumption
         DEF Evict, TypeOK, Goto, Thread, objects
    <3>3. QED
      BY <1>g, <1>i, <3>2 DEF HeldUnlessLost, LiveHeld
  <2>2. CASE ~\E a \in Addr : Evict(a)
    <3>1. stage[Render] = "release" /\ it'[Render] = it[Render]
      BY <1>2, <1>i, <2>2, StillThere DEF Thread
    <3>d. it[Render] \in Addr
      BY <1>i, <3>1 DEF Shape, Thread
    <3>2. cacheRefs[it[Render]] > 0 /\ cacheRefs[it[Render]] \in Nat
      BY <1>g, <1>i, <3>1, <3>d DEF HeldUnlessLost, TypeOK
    <3>3. ~Retire /\ ~ReleaseEvicted
      BY <1>2, <1>i, <3>1, ThreadAssumption
         DEF Retire, ReleaseEvicted, Goto, TypeOK, Thread
    <3>4. cacheRefs'[it[Render]] >= cacheRefs[it[Render]]
      BY <1>i, <3>d, <3>3, CacheRefsLast
    <3>5. QED
      BY <1>t, <3>1, <3>2, <3>d, <3>4 DEF TypeOK
  <2>3. QED
    BY <2>1, <2>2
<1>s. ASSUME NEW n \in Addr, Spare(n) \/ Blacklisted(n),
             ~(Evict(n) /\ stage'[Render] = "release")
      PROVE  Spare(n)' \/ Blacklisted(n)'
  <2>1. CASE Retire /\ mine[Render] = n
    <3>1. Textures_2D[n] \in Descriptor
      BY <1>i, <2>1, RetiredDescribed
    <3>2. Textures_2D'[n] = Zombie(Textures_2D[n])
      BY <1>i, <2>1 DEF Retire, TypeOK
    <3>3. Blacklisted(n)'
      BY <2>1, <3>1, <3>2, DescriptorFacts DEF Retire, Blacklisted
    <3>4. QED
      BY <3>3
  <2>2. CASE ~(Retire /\ mine[Render] = n)
    BY <1>s, <1>i, <2>2, SpareLasts, BlacklistedLasts
  <2>3. QED
    BY <2>1, <2>2
<1>3. ASSUME NEW n \in Addr, Cached(n)'
      PROVE  Spare(n)' \/ Blacklisted(n)'
  <2>1. CASE \E p \in Thread : LinkBack(p) /\ mine[p] = n
    <3>1. Spare(n) \/ Blacklisted(n)
      BY <1>g, <2>1 DEF HeldUnlessLost, LinkBack
    <3>2. stage'[Render] # "release" \/ ~Evict(n)
      BY <1>i, <2>1, ThreadAssumption
         DEF LinkBack, Evict, Goto, TypeOK, Thread
    <3>3. QED
      BY <1>s, <3>1, <3>2
  <2>2. CASE ~\E p \in Thread : LinkBack(p) /\ mine[p] = n
    <3>1. Cached(n)
      BY <1>3, <1>i, <2>2, StaysUncached
    <3>2. ~(Evict(n) /\ stage'[Render] = "release")
      BY <1>3, <1>i, <3>1, ThreadAssumption
         DEF Evict, Cached, TypeOK, Goto, Thread
    <3>3. QED
      BY <1>s, <1>g, <3>1, <3>2 DEF HeldUnlessLost
  <2>3. QED
    BY <2>1, <2>2
<1>4. ASSUME NEW p \in Thread, stage'[p] = "back"
      PROVE  Spare(mine[p])' \/ Blacklisted(mine[p])'
  <2>1. CASE Admit(p)
    <3>1. mine[p] \in Addr /\ stage[p] = "admit"
      BY <1>i, <2>1 DEF Admit, Shape, Entering
    <3>2. /\ cacheRefs'[mine[p]] = cacheRefs[mine[p]] + 1
          /\ UNCHANGED <<mine, it>>
          /\ (stage'[Render] = "release" => stage[Render] = "release")
      BY <1>i, <2>1, <3>1, ThreadAssumption
         DEF Admit, TypeOK, Goto, Thread
    <3>3. stage[Render] = "release" => cacheRefs[it[Render]] > 0
      BY <1>g DEF HeldUnlessLost
    <3>4. cacheRefs[mine[p]] \in Nat
      BY <1>i, <3>1 DEF TypeOK
    <3>5. QED
      BY <3>2, <3>3, <3>4 DEF Spare, Releasing
  <2>2. CASE ~Admit(p)
    <3>1. stage[p] = "back" /\ mine'[p] = mine[p] /\ mine[p] \in Addr
      BY <1>4, <1>i, <2>2, StillThere DEF Shape, Entering
    <3>2. PICK n \in Addr : n = mine[p]
      BY <3>1
    <3>3. Spare(n) \/ Blacklisted(n)
      BY <1>g, <3>1, <3>2 DEF HeldUnlessLost
    <3>4. ~Live(n)
      BY <1>g, <1>i, <3>1, <3>2 DEF EnteredDead, Dead, Entering
    <3>5. ~Evict(n)
      BY <1>g, <3>4 DEF Evict, HeldUnlessLost
    <3>6. Spare(n)' \/ Blacklisted(n)'
      BY <1>s, <3>3, <3>5
    <3>7. QED
      BY <3>1, <3>2, <3>6 DEF Spare, Releasing, Blacklisted
  <2>3. QED
    BY <2>1, <2>2
<1>5. QED
  BY <1>1, <1>2, <1>3, <1>4 DEF HeldUnlessLost

(* Whoever touches or releases a texture finds it held.                    *)
LEMMA NothingFreedStep ==
  LiveInv /\ FoundLive /\ HeldUnlessLost /\ NothingFreedTouched /\ [Next]_vars
    => NothingFreedTouched'
<1> SUFFICES ASSUME LiveInv, FoundLive, HeldUnlessLost,
                    NothingFreedTouched, [Next]_vars, orphaned' = {}
             PROVE  NothingFreedTouched'
  BY DEF NothingFreedTouched
<1>g. orphaned = {}
  BY HistoryGrows
<1>i. ShapeInv /\ LiveHeld /\ TypeOK /\ Shape
  BY DEF LiveInv, ShapeInv
<1>a. \A a \in Addr : Live(a) => Alive(a)
  BY <1>g, <1>i DEF LiveHeld, TypeOK, Alive, Refs
<1>n. fault \notin {"purge"} /\ ~robbed
  BY <1>g DEF NothingFreedTouched
<1>1. CASE UNCHANGED vars
  BY <1>g, <1>1 DEF vars, history, NothingFreedTouched
<1> SUFFICES ASSUME fault = "none", Next
             PROVE  NothingFreedTouched'
  BY <1>1 DEF Next
<1>f. fault = "none" /\ ~robbed /\ orphaned' = {}
  BY <1>n
<1>2. ASSUME NEW p \in Thread, AddRef(p) PROVE NothingFreedTouched'
  <2>1. stage[p] = "addref" /\ it[p] \in Addr
    BY <1>2, <1>i DEF AddRef, Shape
  <2>2. CASE Alive(it[p])
    BY <1>2, <1>f, <2>2 DEF AddRef, NothingFreedTouched
  <2>3. CASE ~Alive(it[p])
    <3>1. p \in overtaken
      BY <1>a, <1>g, <2>1, <2>3 DEF FoundLive, Hit
    <3>2. overtaken' = overtaken /\ robbed' = robbed /\ fault' = "getter"
      BY <1>2, <2>3 DEF AddRef
    <3>3. QED
      BY <1>n, <3>1, <3>2 DEF NothingFreedTouched
  <2>4. QED
    BY <2>2, <2>3
<1>3. ASSUME NEW must \in BOOLEAN, Collect(must) PROVE NothingFreedTouched'
  BY <1>3, <1>a, <1>f DEF Collect, NothingFreedTouched
<1>4. ASSUME NEW a \in Addr, Evict(a) PROVE NothingFreedTouched'
  <2>1. Alive(a)
    BY <1>4, <1>a, <1>g DEF Evict, HeldUnlessLost
  <2>2. QED
    BY <1>4, <1>f, <2>1 DEF Evict, NothingFreedTouched
<1>5. CASE Retire
  <2>1. mine[Render] \in Addr /\ Cached(mine[Render])
        /\ Textures_2D[mine[Render]] \in Descriptor
    BY <1>5, <1>i, RetiredDescribed DEF Retire, Outdates
  <2>2. CASE FirstRemoval(Textures_2D[mine[Render]].tag)
    <3>1. Spare(mine[Render])
      BY <1>g, <2>1, <2>2
         DEF HeldUnlessLost, Blacklisted, FirstRemoval
    <3>2. cacheRefs[mine[Render]] > 0
      BY <1>i, <2>1, <3>1 DEF Spare, TypeOK
    <3>3. QED
      BY <1>5, <1>f, <2>2, <3>2 DEF Retire, TakeBack, NothingFreedTouched
  <2>3. CASE ~FirstRemoval(Textures_2D[mine[Render]].tag)
    BY <1>5, <1>f, <2>3 DEF Retire, NothingFreedTouched
  <2>4. QED
    BY <2>2, <2>3
<1>6. CASE ReleaseEvicted
  <2>1. cacheRefs[it[Render]] > 0
    BY <1>6, <1>g DEF ReleaseEvicted, HeldUnlessLost
  <2>2. QED
    BY <1>6, <1>f, <2>1
       DEF ReleaseEvicted, GivesBack, TakeBack, NothingFreedTouched
<1>7. CASE UNCHANGED <<fault, robbed>>
  BY <1>7, <1>f DEF NothingFreedTouched
<1>8. QED
  BY <1>2, <1>3, <1>4, <1>5, <1>6, <1>7
     DEF Next, Ask, Enter, Look, Read, Judge, Expel, Forget, Ignore, Admit,
         LinkBack, Insert, Load, Create, Lock, CreateEmpty, WriteUnseen,
         Update, GameRelease, CopyCached, Write, LockAgain, EndPurge, history

(* tex_mgr.cpp: while no texture lost its reverse entry, nothing that was  *)
(* freed is referenced, but by a thread whose find was dropped before it   *)
(* could, and neither an update nor the purge gives back what is not held. *)
THEOREM NothingFreedIsTouched == Spec => []NothingFreedTouched
<1>1. Init => HeldUnlessLost /\ NothingFreedTouched
  BY DEF Init, HeldUnlessLost, NothingFreedTouched, Cached, Thread
<1>2. /\ LiveInv /\ FoundLive /\ HeldUnlessLost /\ NothingFreedTouched
      /\ [Next]_vars
      => HeldUnlessLost' /\ NothingFreedTouched'
  BY HeldUnlessLostStep, NothingFreedStep
<1>3. QED
  BY <1>1, <1>2, LiveInvariant, FoundInvariant, PTL DEF Spec
=============================================================================
