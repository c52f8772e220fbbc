---------------------------- MODULE TextureCache ----------------------------
(***************************************************************************)
(* The cache of Direct3D 11 textures (src/render/d3d11/tex_mgr/            *)
(* d3d11_tex_mgr.cpp and the hooks in src/render/d3d11/d3d11.cpp).         *)
(*                                                                         *)
(* Threads of the game that load a texture ask the cache for one with the  *)
(* same data first (getTexture2D) and enter a new one (refTexture2D).  The *)
(* thread that renders asks when it updates a texture, and purges the      *)
(* cache after a frame (reset).  Entries are held by a reference.  The     *)
(* two hash tables and the map of descriptors are each safe for several    *)
(* threads, and no lock makes them one: cache_cs is taken by those who     *)
(* enter a loaded texture and by the purge, not by those who ask or by     *)
(* updates.                                                                *)
(*                                                                         *)
(* A texture is known by its address, which is used again once the         *)
(* texture is freed.  Descriptors are never erased; one whose crc32c is    *)
(* zero is a zombie.                                                       *)
(***************************************************************************)
EXTENDS Naturals, FiniteSets

CONSTANTS
  Addr,       \* addresses of textures
  Content,    \* what a texture can hold
  Loader,     \* threads that create textures
  Render,     \* the thread that updates, presents and purges
  Absent,     \* no owner, no entry
  Null,       \* a null pointer
  NoTag,      \* the tag of a descriptor that was made by looking for it
  MaxLoads,   \* bound on textures the game loads or makes
  MaxUpdates, \* bound on updates
  MaxPurges   \* bound on purges

Thread == Loader \cup {Render}

(* Loads and updates hash different descriptors with the data, so a tag of *)
(* one never is a tag of the other.                                        *)
Tag == {"load", "update"} \X Content

ASSUME ThreadAssumption == Render \notin Loader /\ Absent \notin Thread
                           /\ IsFiniteSet(Loader)

(* What Textures_2D knows of a texture.                                    *)
Descriptor == [tag : Tag \cup {NoTag}, live : BOOLEAN]

ASSUME AddrAssumption   == {Absent, Null} \cap Addr = {} /\ NoTag \notin Tag
                           /\ Absent \notin {Null} \cup Tag \cup Descriptor
ASSUME BoundsAssumption ==
  MaxLoads \in Nat /\ MaxUpdates \in Nat /\ MaxPurges \in Nat

VARIABLES
  gameRefs,    \* references of the game, and those handed to it
  cacheRefs,   \* references of the cache
  content,     \* what the texture holds
  uncacheable, \* textures marked with SKID_D3D11TextureUncacheable
  entries,     \* HashMap_2D: from tag to texture
  reventries,  \* HashMap_2D: from texture to tag
  Textures_2D, \* descriptors: tag, and whether crc32c is not zero
  blacklist,   \* Blacklist_2D
  nullDiscard, \* null_desc.discard, in refTexture2D
  cache_cs,    \* the thread that has the lock
  stage,       \* where each thread stands
  tag,         \* the tag it asks for or enters
  it,          \* the texture it found, or evicts
  mine,        \* the texture it created or updates
  mustFree,    \* must_free, in reset
  left,        \* textures, in reset: what may still be evicted
  loads, updates, purges, \* counters for the bounds
  (* History variables.                                                    *)
  written,     \* textures changed behind the cache's back
  shadowed,    \* entered while an older descriptor had their address
  kept,        \* dropped after an update, but their reference was not
  orphaned,    \* lost their reverse entry to someone who expelled another
  overtaken,   \* threads whose find was dropped before they referenced it
  fault,       \* who touched a freed texture
  robbed       \* the cache gave back a reference it did not have

objects == <<gameRefs, cacheRefs, content, uncacheable>>
maps    == <<entries, reventries, Textures_2D, blacklist>>
threads == <<stage, tag, it, mine>>
purge   == <<mustFree, left>>
counts  == <<loads, updates, purges>>
history == <<written, shadowed, kept, orphaned, overtaken, fault, robbed>>
vars == <<objects, maps, nullDiscard, cache_cs, threads, purge, counts,
          history>>

Refs(a)  == gameRefs[a] + cacheRefs[a]
Alive(a) == Refs(a) > 0
Live(a)  == Textures_2D[a] # Absent /\ Textures_2D[a].live

Goto(p, s) == stage' = [stage EXCEPT ![p] = s]

(* A thread is through with what it asked for.                             *)
Done(p) ==
  /\ Goto(p, "idle")
  /\ tag' = [tag EXCEPT ![p] = NoTag]
  /\ it' = [it EXCEPT ![p] = Absent]
  /\ mine' = [mine EXCEPT ![p] = Absent]

(* SK_D3D11_TextureIsCached.                                               *)
Cached(a) == reventries[a] # Absent

Init ==
  /\ gameRefs = [a \in Addr |-> 0] /\ cacheRefs = [a \in Addr |-> 0]
  /\ content \in {[a \in Addr |-> c] : c \in Content}
  /\ uncacheable = {}
  /\ entries = [t \in Tag |-> Absent] /\ reventries = [a \in Addr |-> Absent]
  /\ Textures_2D = [a \in Addr \cup {Null} |-> Absent]
  /\ blacklist = {} /\ nullDiscard = FALSE /\ cache_cs = Absent
  /\ stage = [p \in Thread |-> "idle"] /\ tag = [p \in Thread |-> NoTag]
  /\ it = [p \in Thread |-> Absent] /\ mine = [p \in Thread |-> Absent]
  /\ mustFree = FALSE /\ left = {}
  /\ loads = 0 /\ updates = 0 /\ purges = 0
  /\ written = {} /\ shadowed = {} /\ kept = {} /\ orphaned = {}
  /\ overtaken = {} /\ fault = "none" /\ robbed = FALSE

-----------------------------------------------------------------------------
(* Operators named ...Slip are plausible mistakes the properties below are *)
(* there to catch; no action uses them.                                    *)

ZombiesTooSlip(p) == \* crc32c is not tested
  Textures_2D[it[p]] # Absent /\ Textures_2D[it[p]].tag = tag[p]
Hit(p)            == Live(it[p]) /\ Textures_2D[it[p]].tag = tag[p]

StaysLiveSlip(d)  == d   \* crc32c is left as it is
Zombie(d)         == [d EXCEPT !.live = FALSE]

UnnoticedSlip(a)  == FALSE   \* an update leaves the cache alone
Outdates(a)       == Cached(a)

FirstRemoval(t)   == t \notin blacklist

NeverSlip(a)      == FALSE  \* the purge keeps its reference
GivesBack(a)      == TRUE

-----------------------------------------------------------------------------
(* getTexture2D.                                                           *)

Load(l, c) ==
  /\ stage[l] = "idle" /\ loads < MaxLoads
  /\ loads' = loads + 1
  /\ tag' = [tag EXCEPT ![l] = <<"load", c>>]
  /\ Goto(l, "look")
  /\ UNCHANGED <<objects, maps, nullDiscard, cache_cs, it, mine, purge,
                 updates, purges, history>>

Look(p) ==
  /\ stage[p] = "look"
  /\ Goto(p, IF entries[tag[p]] = Absent THEN "miss" ELSE "read")
  /\ UNCHANGED <<objects, maps, nullDiscard, cache_cs, tag, it, mine, purge,
                 counts, history>>

(* An entry that is gone by now is made again, with a null pointer in it.  *)
Entry(t) == IF entries[t] = Absent THEN Null ELSE entries[t]

Read(p) ==
  /\ stage[p] = "read"
  /\ it' = [it EXCEPT ![p] = Entry(tag[p])]
  /\ entries' = [entries EXCEPT ![tag[p]] = Entry(tag[p])]
  /\ Goto(p, "judge")
  /\ UNCHANGED <<objects, reventries, Textures_2D, blacklist, nullDiscard,
                 cache_cs, tag, mine, purge, counts, history>>

(* Looking for a descriptor that is not there makes an empty one.          *)
Judge(p) ==
  /\ stage[p] = "judge"
  /\ Goto(p, IF Hit(p) THEN "addref" ELSE "expel")
  /\ Textures_2D' = [Textures_2D EXCEPT ![it[p]] =
       IF @ = Absent THEN [tag |-> NoTag, live |-> FALSE] ELSE @]
  /\ UNCHANGED <<objects, entries, reventries, blacklist, nullDiscard,
                 cache_cs, tag, it, mine, purge, counts, history>>

(* The reference is the game's now, or the update's while it copies.       *)
AddRef(p) ==
  /\ stage[p] = "addref"
  /\ IF Alive(it[p])
     THEN /\ gameRefs' = [gameRefs EXCEPT ![it[p]] = @ + 1]
          /\ overtaken' = overtaken \ {p}
          /\ IF p = Render THEN Goto(p, "copy") /\ UNCHANGED <<tag, it, mine>>
                           ELSE Done(p)
          /\ UNCHANGED fault
     ELSE fault' = "getter" /\ UNCHANGED <<gameRefs, threads, overtaken>>
  /\ UNCHANGED <<cacheRefs, content, uncacheable, maps, nullDiscard, cache_cs,
                 purge, counts, written, shadowed, kept,
                 orphaned, robbed>>

(* A zombie's entries are erased: the reverse one of whatever texture the  *)
(* tag leads to by now, and the tag's.                                     *)
Expel(p) ==
  LET found == Entry(tag[p]) IN
  /\ stage[p] = "expel"
  /\ entries' = [entries EXCEPT ![tag[p]] = found]
  /\ reventries' = [a \in Addr |-> IF a = found THEN Absent ELSE reventries[a]]
  /\ orphaned' = orphaned \cup ({found} \ {it[p], Null})
  /\ Goto(p, "forget")
  /\ UNCHANGED <<objects, Textures_2D, blacklist, nullDiscard,
                 cache_cs, tag, it, mine, purge, counts, written, shadowed,
                 kept, overtaken, fault, robbed>>

Forget(p) ==
  /\ stage[p] = "forget"
  /\ entries' = [entries EXCEPT ![tag[p]] = Absent]
  /\ Textures_2D' = [Textures_2D EXCEPT ![it[p]] = Zombie(@)]
  /\ Goto(p, "miss")
  /\ it' = [it EXCEPT ![p] = Absent]
  /\ UNCHANGED <<objects, reventries, blacklist, nullDiscard, cache_cs, tag,
                 mine, purge, counts, history>>

-----------------------------------------------------------------------------
(* CreateTexture2D and refTexture2D.                                       *)

(* The driver makes a texture at an address that is free.                  *)
MakeTexture(a, c) ==
  /\ ~Alive(a)
  /\ gameRefs' = [gameRefs EXCEPT ![a] = 1]
  /\ content' = [content EXCEPT ![a] = c]
  /\ uncacheable' = uncacheable \ {a}
  /\ written' = written \ {a}

(* Without a hit the texture is created.                                   *)
Create(l, a) ==
  /\ stage[l] = "miss" /\ l # Render
  /\ MakeTexture(a, tag[l][2])
  /\ mine' = [mine EXCEPT ![l] = a]
  /\ Goto(l, "lock")
  /\ UNCHANGED <<cacheRefs, maps, nullDiscard, cache_cs, tag, it, purge,
                 counts, shadowed, kept, orphaned, overtaken, fault,
                 robbed>>

(* Without data a texture is not looked for, and not entered.              *)
CreateEmpty(a, c) ==
  /\ MakeTexture(a, c)
  /\ loads < MaxLoads /\ loads' = loads + 1
  /\ UNCHANGED <<cacheRefs, maps, nullDiscard, cache_cs, threads, purge,
                 updates, purges, shadowed, kept, orphaned, overtaken, fault,
                 robbed>>

(* The blacklist is searched here for a checksum, and holds tags.          *)
Lock(l) ==
  /\ stage[l] = "lock" /\ cache_cs = Absent
  /\ cache_cs' = l
  /\ Goto(l, "admit")
  /\ UNCHANGED <<objects, maps, nullDiscard, tag, it, mine, purge, counts,
                 history>>

Unlocked(p) == IF cache_cs = p THEN Absent ELSE cache_cs

(* A texture that is cached has its descriptor copied to null_desc, which  *)
(* is static, and so stays marked for what comes next.                     *)
Discards(a, recent) ==
  IF Cached(a)
  THEN /\ recent /\ Textures_2D[a] # Absent
       /\ Textures_2D[a].tag # NoTag /\ entries[Textures_2D[a].tag] # Absent
  ELSE nullDiscard

(* recent: the texture was used in one of the last three frames.           *)
Ignore(p) ==
  /\ stage[p] = "admit"
  /\ \E recent \in BOOLEAN : Discards(mine[p], recent)
  /\ nullDiscard' = TRUE
  /\ cache_cs' = Unlocked(p)
  /\ Done(p)
  /\ UNCHANGED <<objects, maps, purge, counts, history>>

Admit(p) ==
  /\ stage[p] = "admit"
  /\ \E recent \in BOOLEAN : ~Discards(mine[p], recent)
  /\ nullDiscard' = FALSE
  /\ cacheRefs' = [cacheRefs EXCEPT ![mine[p]] = @ + 1]
  /\ entries' = [entries EXCEPT ![tag[p]] = mine[p]]
  /\ Goto(p, "back")
  /\ UNCHANGED <<gameRefs, content, uncacheable, reventries, Textures_2D,
                 blacklist, cache_cs, tag, it, mine, purge, counts, history>>

LinkBack(p) ==
  /\ stage[p] = "back"
  /\ reventries' = [reventries EXCEPT ![mine[p]] = tag[p]]
  /\ Goto(p, "insert")
  /\ UNCHANGED <<objects, entries, Textures_2D, blacklist, nullDiscard,
                 cache_cs, tag, it, mine, purge, counts, history>>

(* Inserting leaves a descriptor that is there as it is.                   *)
Insert(p) ==
  LET a == mine[p] IN
  /\ stage[p] = "insert"
  /\ IF Textures_2D[a] = Absent
     THEN /\ Textures_2D' = [Textures_2D EXCEPT ![a] =
                               [tag |-> tag[p], live |-> TRUE]]
          /\ UNCHANGED shadowed
     ELSE shadowed' = shadowed \cup {a} /\ UNCHANGED Textures_2D
  /\ cache_cs' = Unlocked(p)
  /\ Done(p)
  /\ UNCHANGED <<objects, entries, reventries, blacklist, nullDiscard, purge,
                 counts, written, kept, orphaned, overtaken, fault,
                 robbed>>

-----------------------------------------------------------------------------
(* The game, and UpdateSubresource.                                        *)

(* References the program needs while a call is under way.                 *)
InUse(a) == Cardinality ({p \in Thread : mine[p] = a})
            + (IF stage[Render] = "copy" /\ it[Render] = a THEN 1 ELSE 0)

GameRelease(a) ==
  /\ gameRefs[a] > InUse(a)
  /\ gameRefs' = [gameRefs EXCEPT ![a] = @ - 1]
  /\ UNCHANGED <<cacheRefs, content, uncacheable, maps, nullDiscard, cache_cs,
                 threads, purge, counts, history>>

(* The game writes in a way the cache does not follow: a copy, a part of   *)
(* the texture, a format that is not compressed, a texture that is marked. *)
WriteUnseen(a, c) ==
  /\ gameRefs[a] > InUse(a) /\ updates < MaxUpdates
  /\ content[a] # c
  /\ updates' = updates + 1
  /\ content' = [content EXCEPT ![a] = c]
  /\ written' = written \cup {a}
  /\ UNCHANGED <<gameRefs, cacheRefs, uncacheable, maps, nullDiscard, cache_cs,
                 threads, purge, loads, purges, shadowed, kept, orphaned,
                 overtaken, fault, robbed>>

Update(a, c) ==
  /\ stage[Render] = "idle" /\ updates < MaxUpdates
  /\ gameRefs[a] > InUse(a) /\ a \notin uncacheable
  /\ updates' = updates + 1
  /\ tag' = [tag EXCEPT ![Render] = <<"update", c>>]
  /\ mine' = [mine EXCEPT ![Render] = a]
  /\ Goto(Render, "look")
  /\ UNCHANGED <<objects, maps, nullDiscard, cache_cs, it, purge, loads,
                 purges, history>>

(* On a hit the texture found is copied.                                   *)
CopyCached ==
  /\ stage[Render] = "copy"
  /\ content' = [content EXCEPT ![mine[Render]] = content[it[Render]]]
  /\ written' = written \cup ({mine[Render]} \ {it[Render]})
  /\ gameRefs' = [gameRefs EXCEPT ![it[Render]] = @ - 1]
  /\ Done(Render)
  /\ UNCHANGED <<cacheRefs, uncacheable, maps, nullDiscard, cache_cs, purge,
                 counts, shadowed, kept, orphaned, overtaken, fault,
                 robbed>>

(* What a removal means for the threads that have just found the texture.  *)
Overtakes(a) == {p \in Thread : stage[p] = "addref" /\ it[p] = a}

TakeBack(a) ==
  IF cacheRefs[a] > 0
  THEN /\ cacheRefs' = [cacheRefs EXCEPT ![a] = @ - 1]
       /\ UNCHANGED <<gameRefs, robbed>>
  ELSE /\ gameRefs' = [gameRefs EXCEPT ![a] = IF @ > 0 THEN @ - 1 ELSE @]
       /\ robbed' = TRUE
       /\ UNCHANGED cacheRefs

(* Without one, a texture that is cached is removed and its tag            *)
(* blacklisted (SK_D3D11_RemoveTexFromCache, SK_D3D11_MarkTexture-         *)
(* Uncacheable).                                                           *)
Retire ==
  LET a == mine[Render] IN
  /\ stage[Render] = "miss" /\ Outdates(a)
  /\ Textures_2D' = [Textures_2D EXCEPT ![a] = Zombie(@)]
  /\ blacklist' = blacklist \cup {Textures_2D[a].tag}
  /\ IF FirstRemoval(Textures_2D[a].tag)
     THEN TakeBack(a) /\ UNCHANGED kept
     ELSE kept' = kept \cup {a} /\ UNCHANGED <<gameRefs, cacheRefs, robbed>>
  /\ uncacheable' = uncacheable \cup {a}
  /\ overtaken' = overtaken \cup Overtakes(a)
  /\ Goto(Render, "write")
  /\ UNCHANGED <<content, entries, reventries, nullDiscard, cache_cs, tag, it,
                 mine, purge, counts, written, shadowed, orphaned, fault>>

(* Then it is written, and entered with what it holds now.                 *)
Write ==
  LET a == mine[Render] IN
  /\ stage[Render] = "write" \/ (stage[Render] = "miss" /\ ~Outdates(a))
  /\ content' = [content EXCEPT ![a] = tag[Render][2]]
  /\ written' = written \ {a}
  /\ Goto(Render, "admit")
  /\ UNCHANGED <<gameRefs, cacheRefs, uncacheable, maps, nullDiscard, cache_cs,
                 tag, it, mine, purge, counts, shadowed, kept, orphaned,
                 overtaken, fault, robbed>>

-----------------------------------------------------------------------------
(* reset: a purge, which must free all when memory is over budget.         *)

Collect(must) ==
  LET cached == {a \in Addr : Live(a)} IN
  /\ stage[Render] = "idle" /\ cache_cs = Absent /\ purges < MaxPurges
  /\ purges' = purges + 1
  /\ left' = {a \in cached : must \/ Refs(a) <= 1}
  /\ mustFree' = (must /\ left' # {})
  /\ fault' = IF ~must /\ \E a \in cached : ~Alive(a) THEN "purge" ELSE fault
  /\ Goto(Render, IF left' = {} THEN "idle" ELSE "collected")
  /\ UNCHANGED <<objects, maps, nullDiscard, cache_cs, tag, it, mine, loads,
                 updates, written, shadowed, kept, orphaned, overtaken,
                 robbed>>

LockAgain ==
  /\ stage[Render] = "collected" /\ cache_cs = Absent
  /\ cache_cs' = Render
  /\ Goto(Render, "purge")
  /\ UNCHANGED <<objects, maps, nullDiscard, tag, it, mine, purge, counts,
                 history>>

(* Textures are taken in the order of their use; one that has come to be   *)
(* used is passed over.                                                    *)
Evict(a) ==
  /\ stage[Render] = "purge" /\ a \in left
  /\ left' = left \ {a}
  /\ IF Refs(a) <= 1 \/ mustFree
     THEN /\ IF Cached(a)
             THEN /\ Textures_2D' = [Textures_2D EXCEPT ![a] = Zombie(@)]
                  /\ entries' = [t \in Tag |-> IF t = Textures_2D[a].tag
                                               THEN Absent ELSE entries[t]]
                  /\ reventries' = [reventries EXCEPT ![a] = Absent]
                  /\ overtaken' = overtaken \cup Overtakes(a)
             ELSE UNCHANGED <<Textures_2D, entries, reventries, overtaken>>
          /\ it' = [it EXCEPT ![Render] = a]
          /\ Goto(Render, "release")
     ELSE UNCHANGED <<Textures_2D, entries, reventries, overtaken, it, stage>>
  /\ fault' = IF Alive(a) THEN fault ELSE "purge"
  /\ UNCHANGED <<objects, blacklist, nullDiscard, cache_cs, tag, mine,
                 mustFree, counts, written, shadowed, kept, orphaned, robbed>>

ReleaseEvicted ==
  /\ stage[Render] = "release"
  /\ IF GivesBack(it[Render]) THEN TakeBack(it[Render])
     ELSE UNCHANGED <<gameRefs, cacheRefs, robbed>>
  /\ Goto(Render, "purge")
  /\ it' = [it EXCEPT ![Render] = Absent]
  /\ UNCHANGED <<content, uncacheable, maps, nullDiscard, cache_cs, tag, mine,
                 purge, counts, written, shadowed, kept, orphaned,
                 overtaken, fault>>

(* A purge that need not free all stops when it has done enough.           *)
EndPurge ==
  /\ stage[Render] = "purge" /\ (left = {} \/ ~mustFree)
  /\ left' = {} /\ mustFree' = FALSE /\ cache_cs' = Absent
  /\ Done(Render)
  /\ UNCHANGED <<objects, maps, nullDiscard, counts, history>>

-----------------------------------------------------------------------------
Ask(p)   == \/ Look(p)   \/ Read(p)  \/ Judge(p)
            \/ AddRef(p) \/ Expel(p) \/ Forget(p)
Enter(p) == Ignore(p) \/ Admit(p) \/ LinkBack(p) \/ Insert(p)

Next ==
  /\ fault = "none"
  /\ \/ \E p \in Thread : Ask(p) \/ Enter(p)
     \/ \E l \in Loader : \/ \E c \in Content : Load(l, c)
                          \/ \E a \in Addr : Create(l, a)
                          \/ Lock(l)
     \/ \E a \in Addr, c \in Content : \/ CreateEmpty(a, c)
                                       \/ WriteUnseen(a, c)
                                       \/ Update(a, c)
     \/ \E a \in Addr : GameRelease(a) \/ Evict(a)
     \/ CopyCached \/ Retire \/ Write
     \/ \E must \in BOOLEAN : Collect(must)
     \/ LockAgain \/ ReleaseEvicted \/ EndPurge

Spec == Init /\ [][Next]_vars

-----------------------------------------------------------------------------
(* A descriptor that is not a zombie describes a texture that the cache    *)
(* holds, unless someone who met a zombie took the reverse entry of a      *)
(* texture that had just come in its place.                                *)
LiveHeld == \A a \in Addr : Live(a) => cacheRefs[a] > 0 \/ a \in orphaned

(* References on their way into a descriptor, or out of one.               *)
InTransit(a) ==
  Cardinality ({p \in Thread : mine[p] = a /\ stage[p] \in {"back", "insert"}})
  + (IF stage[Render] = "release" /\ it[Render] = a THEN 1 ELSE 0)

(* The cache holds no reference beyond that of a descriptor, so that a     *)
(* texture is freed when game and cache are done with it.  Exceptions: the *)
(* address already had a descriptor, of a texture that was freed, of the   *)
(* texture before an update, or made by someone who looked too early; or   *)
(* an update found the tag blacklisted by an earlier one.                  *)
LeaksNamed ==
  \A a \in Addr :
    \/ cacheRefs[a] <= InTransit(a) + (IF Live(a) THEN 1 ELSE 0)
    \/ a \in shadowed \cup kept

(* The texture that a thread is handed holds the data it asked for.        *)
(* Exceptions: it was written where the cache does not look, or by a copy  *)
(* of another that was cached; it had lost its reverse entry, so that an   *)
(* update did not know it was cached; or it was dropped after the thread   *)
(* had found it: then it may have been updated since, or freed, and the    *)
(* address may belong to another texture by now.                           *)
FoundAsAsked ==
  [][\A p \in Thread :
       AddRef(p) /\ Alive(it[p]) =>
         \/ content[it[p]] = tag[p][2]
         \/ it[p] \in written \cup orphaned
         \/ p \in overtaken]_vars

(* No freed texture is touched and no reference of the game is given back. *)
(* Exceptions: a texture was dropped between the moment a thread found it  *)
(* and the moment it referenced it; a texture without its reverse entry,   *)
(* which the purge releases again and again.                               *)
NothingFreedTouched ==
  /\ fault = "getter" => overtaken # {} \/ orphaned # {}
  /\ fault = "purge" \/ robbed => orphaned # {}
=============================================================================
