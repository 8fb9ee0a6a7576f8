-------------------------- MODULE WorldStateProofs --------------------------
(***************************************************************************)
(* Proofs about WorldState, its readers (WorldStateWatch) and the requests  *)
(* that publish to it (SnapshotPublication), for any generations, contents, *)
(* readers, bridges, threads and capacity of the ring.                     *)
(*                                                                         *)
(* GenerationsAreFenced is inductive together with the types.  What a      *)
(* reader was given is related to what was published through the ring:     *)
(* RingOK says that it holds the newest events and no others, and          *)
(* ReaderOK that a change of the content which a reader has not seen is    *)
(* still announced to it, by an event that waits or by the truncation.     *)
(* That the broker follows the world state rests on the admission lock:    *)
(* LockOK says whose it is while the two may differ.                       *)
(***************************************************************************)
EXTENDS WorldStateWatch, SnapshotPublication, SequenceTheorems, TLAPS

-----------------------------------------------------------------------------
(* The invariants.                                                          *)

\* The ring is a run of consecutive cursors that ends at the newest event.
RingOK ==
    /\ Len(events) <= cursor
    /\ cursor # 0 => Len(events) # 0
    /\ \A i \in 1..Len(events) : events[i].cursor = cursor - Len(events) + i

WorldInv == TypeOK /\ GenerationsAreFenced /\ RingOK

\* The next page of r will make it dirty, or tell it that events are gone.
Announced(r) ==
    /\ Len(events) # 0
    /\ \/ Truncated(r)
       \/ \E i \in Available(r) : events[i].kind = "snapshot"

Numbers(from, to) == {n \in 1..MaxCursor : from < n /\ n <= to}

ReaderOK(r) ==
    /\ readers[r].from <= readers[r].cursor
    /\ readers[r].cursor <= cursor
    /\ readers[r].whole =>
         /\ readers[r].got = Numbers(readers[r].from, readers[r].cursor)
         /\ ~readers[r].dirty => readers[r].known = content \/ Announced(r)

WatchInv == WorldInv /\ readers \in [Readers -> Reader] /\ \A r \in Readers : ReaderOK(r)

\* The request between its two admissions holds the lock, and the world
\* state still has its generation.
LockOK ==
    /\ \A g \in Generations, s \in 1..MaxSequence :
         request[<<g, s>>].phase = "published" => lock = <<g, s>>
    /\ \A g \in Generations, s \in 1..MaxSequence :
         lock = <<g, s>> => generation = g

PublicationInv == PublicationTypeOK /\ LockOK /\ BrokerFollowsWorld

Requests == Generations \X (1..MaxSequence)
RequestState == [phase: Phases, content: Contents \cup {NoContent}]

-----------------------------------------------------------------------------
(* The ring.                                                                *)

\* What appending does to the ring: it ends in the new event, and the other
\* entries are the newest ones of before, at most the oldest one is gone.
LEMMA AppendShifts ==
    ASSUME TypeOK, NEW g \in Generations, NEW kind \in Kinds, AppendEvent(g, kind)
    PROVE  /\ cursor' = cursor + 1 /\ cursor' \in 0..MaxCursor
           /\ events' \in Seq(StoredEvent)
           /\ Len(events') \in 1..Capacity
           /\ \E lost \in {0, 1} :
                /\ Len(events') = Len(events) - lost + 1
                /\ lost <= Len(events)
                /\ \A i \in 1..Len(events') - 1 : events'[i] = events[i + lost]
           /\ events'[Len(events')] = [cursor |-> cursor + 1, generation |-> g, kind |-> kind]
<1>. DEFINE new == [cursor |-> cursor + 1, generation |-> g, kind |-> kind]
            lost == IF Len(events) = Capacity THEN 1 ELSE 0
            kept == IF Len(events) = Capacity THEN Tail(events) ELSE events
<1>1. cursor' = cursor + 1 /\ cursor' \in 0..MaxCursor /\ events' = Append(kept, new)
  BY WorldConstants DEF AppendEvent, Push, TypeOK
<1>2. new \in StoredEvent
  BY WorldConstants DEF StoredEvent, TypeOK
<1>3. events \in Seq(StoredEvent) /\ Len(events) \in Nat /\ Len(events) <= Capacity
  BY LenProperties DEF TypeOK
<1>4. /\ kept \in Seq(StoredEvent) /\ Len(kept) = Len(events) - lost
      /\ \A i \in 1..Len(kept) : kept[i] = events[i + lost]
      /\ lost <= Len(events) /\ Len(kept) < Capacity /\ Len(kept) \in Nat
  <2>1. CASE Len(events) = Capacity
    <3>1. events # <<>>
      BY <1>3, <2>1, WorldConstants
    <3>2. kept = Tail(events) /\ lost = 1
      BY <2>1
    <3>3. /\ Tail(events) \in Seq(StoredEvent) /\ Len(Tail(events)) = Len(events) - 1
          /\ \A i \in 1..Len(Tail(events)) : Tail(events)[i] = events[i + 1]
      BY <1>3, <3>1, HeadTailProperties
    <3>. QED
      BY <1>3, <2>1, <3>2, <3>3, WorldConstants
  <2>2. CASE Len(events) # Capacity
    BY <1>3, <2>2, WorldConstants
  <2>. QED
    BY <2>1, <2>2
<1>5. /\ events' \in Seq(StoredEvent) /\ Len(events') = Len(kept) + 1
      /\ \A i \in 1..Len(kept) : events'[i] = kept[i]
      /\ events'[Len(kept) + 1] = new
  BY <1>1, <1>2, <1>4, AppendProperties
<1>6. lost \in {0, 1} /\ Len(events') - 1 = Len(kept) /\ Len(events') \in 1..Capacity
  BY <1>4, <1>5, WorldConstants
<1>. HIDE DEF lost, kept, new
<1>7. /\ Len(events') = Len(events) - lost + 1 /\ lost <= Len(events)
      /\ \A i \in 1..Len(events') - 1 : events'[i] = events[i + lost]
  BY <1>3, <1>4, <1>5, <1>6
<1>. QED
  BY <1>1, <1>5, <1>6, <1>7 DEF new

\* The same, for the new event alone.
LEMMA AppendedLast ==
    ASSUME TypeOK, NEW g \in Generations, NEW kind \in Kinds, AppendEvent(g, kind)
    PROVE  /\ cursor \in Nat /\ cursor' = cursor + 1
           /\ Len(events) \in Nat /\ Len(events') \in Nat /\ Len(events') # 0
           /\ events'[Len(events')].cursor = cursor + 1
           /\ events'[Len(events')].generation = g
           /\ events'[Len(events')].kind = kind
<1>1. events'[Len(events')] = [cursor |-> cursor + 1, generation |-> g, kind |-> kind]
  BY AppendShifts
<1>2. Len(events') \in 1..Capacity /\ cursor' = cursor + 1
  BY AppendShifts
<1>3. Len(events) \in Nat
  BY LenProperties DEF TypeOK
<1>. QED
  BY <1>1, <1>2, <1>3, WorldConstants DEF TypeOK

\* The ring goes on being a run of consecutive cursors.
LEMMA AppendKeepsRing ==
    ASSUME TypeOK, RingOK, NEW g \in Generations, NEW kind \in Kinds, AppendEvent(g, kind)
    PROVE  RingOK'
<1>1. PICK lost \in {0, 1} :
        /\ Len(events') = Len(events) - lost + 1
        /\ lost <= Len(events)
        /\ \A i \in 1..Len(events') - 1 : events'[i] = events[i + lost]
  BY AppendShifts
<1>2. /\ cursor' = cursor + 1 /\ cursor \in Nat /\ Len(events) \in Nat /\ Len(events') \in Nat
      /\ events'[Len(events')].cursor = cursor + 1
  BY AppendedLast
<1>3. Len(events') <= cursor' /\ Len(events') # 0
  BY <1>1, <1>2 DEF RingOK
<1>4. ASSUME NEW i \in 1..Len(events')
      PROVE  events'[i].cursor = cursor' - Len(events') + i
  <2>1. CASE i = Len(events')
    BY <1>2, <2>1
  <2>2. CASE i # Len(events')
    <3>1. i \in 1..Len(events') - 1 /\ i + lost \in 1..Len(events)
      BY <1>1, <1>2, <2>2
    <3>2. events'[i] = events[i + lost]
          /\ events[i + lost].cursor = cursor - Len(events) + (i + lost)
      BY <1>1, <3>1 DEF RingOK
    <3>. QED
      BY <1>1, <1>2, <3>2
  <2>. QED
    BY <2>1, <2>2
<1>. QED
  BY <1>3, <1>4 DEF RingOK

\* An event of generation g that is current afterwards, while the generation
\* of before is g or is retired with the step, keeps the fence.
LEMMA AppendKeepsFence ==
    ASSUME TypeOK, GenerationsAreFenced, NEW g \in Generations, NEW kind \in Kinds,
           AppendEvent(g, kind),
           generation' = g, g \notin retired',
           retired \subseteq retired',
           generation \in Generations => generation \in retired' \cup {g}
    PROVE  GenerationsAreFenced'
<1>1. PICK lost \in {0, 1} :
        /\ Len(events') = Len(events) - lost + 1
        /\ lost <= Len(events)
        /\ \A i \in 1..Len(events') - 1 : events'[i] = events[i + lost]
  BY AppendShifts
<1>. DEFINE n == Len(events')
<1>2. n \in Nat /\ n # 0 /\ Len(events) \in Nat /\ events'[n].generation = g
  BY AppendedLast
<1>3. ASSUME NEW i \in 1..n, i # n
      PROVE  i + lost \in 1..Len(events) /\ events'[i] = events[i + lost]
             /\ events[i + lost].generation \in Generations
  <2>1. i \in 1..n - 1 /\ i + lost \in 1..Len(events)
    BY <1>1, <1>2, <1>3
  <2>2. events[i + lost] \in StoredEvent
    BY <2>1, ElementOfSeq DEF TypeOK
  <2>. QED
    BY <1>1, <2>1, <2>2 DEF StoredEvent
<1>4. ASSUME NEW i \in 1..n
      PROVE  events'[i].generation \in retired' \cup {g}
  BY <1>2, <1>3 DEF GenerationsAreFenced
<1>5. ASSUME NEW i \in 1..n, NEW j \in 1..i, events'[j].generation # events'[i].generation
      PROVE  events'[j].generation \in retired'
  <2>1. CASE i = n
    BY <1>2, <1>4, <1>5, <2>1
  <2>2. CASE i # n
    <3>1. j \in 1..n /\ j # n /\ j + lost \in 1..(i + lost)
      BY <1>1, <1>2, <1>5, <2>2
    <3>. QED
      BY <1>3, <1>5, <2>2, <3>1 DEF GenerationsAreFenced
  <2>. QED
    BY <2>1, <2>2
<1>6. ASSUME NEW i \in 1..n, NEW j \in 1..n, NEW k \in 1..n, i < j, j < k,
             events'[i].generation = events'[k].generation
      PROVE  events'[j].generation = events'[i].generation
  <2>0. i # n /\ j # n
    BY <1>2, <1>6
  <2>1. CASE k = n
    <3>1. SUFFICES ASSUME events'[j].generation # events'[i].generation PROVE FALSE
      OBVIOUS
    <3>2. i + lost \in 1..(j + lost)
      BY <1>1, <1>6
    <3>3. events'[i].generation \in retired
      BY <1>3, <2>0, <3>1, <3>2 DEF GenerationsAreFenced
    <3>. QED
      BY <1>2, <1>6, <2>1, <3>3
  <2>2. CASE k # n
    <3>1. i + lost < j + lost /\ j + lost < k + lost
      BY <1>1, <1>6
    <3>2. /\ i + lost \in 1..Len(events) /\ events'[i] = events[i + lost]
          /\ j + lost \in 1..Len(events) /\ events'[j] = events[j + lost]
          /\ k + lost \in 1..Len(events) /\ events'[k] = events[k + lost]
      BY <1>3, <2>0, <2>2
    <3>. QED
      BY <1>6, <3>1, <3>2 DEF GenerationsAreFenced
  <2>. QED
    BY <2>1, <2>2
<1>. QED
  BY <1>4, <1>5, <1>6 DEF GenerationsAreFenced

-----------------------------------------------------------------------------
(* The world state by itself.                                               *)

\* A new world has no session and no event.
LEMMA InitWorldInv == Init => WorldInv
<1>. SUFFICES ASSUME Init PROVE WorldInv
  OBVIOUS
<1>1. events \in Seq(StoredEvent) /\ Len(events) = 0
  BY EmptySeq DEF Init
<1>2. TypeOK
  BY <1>1, WorldConstants DEF Init, TypeOK
<1>3. GenerationsAreFenced /\ RingOK
  BY <1>1 DEF Init, GenerationsAreFenced, RingOK
<1>. QED
  BY <1>2, <1>3 DEF WorldInv

\* A snapshot that is not refused keeps the invariant of the world state.
LEMMA PublishSnapshotInv ==
    ASSUME WorldInv, NEW g \in Generations, NEW s \in 1..MaxSequence, NEW d \in Contents,
           PublishSnapshot(g, s, d)
    PROVE  WorldInv'
<1>1. /\ generation' = g /\ sequence' = s /\ content' = d
      /\ retired' = IF generation \in {g, NoGeneration} THEN retired ELSE retired \cup {generation}
      /\ generation \in Generations \cup {NoGeneration} /\ retired \subseteq Generations
      /\ NoGeneration \notin Generations
  BY WorldConstants DEF PublishSnapshot, WorldInv, TypeOK
<1>2. g \notin retired' /\ retired \subseteq retired' /\ retired' \subseteq Generations
      /\ (generation \in Generations => generation \in retired' \cup {g})
  <2>1. g \notin retired
    BY DEF PublishSnapshot, Conflicts, StaleGeneration, WorldInv, GenerationsAreFenced
  <2>. QED
    BY <1>1, <2>1
<1>3. CASE g # generation \/ d # content
  <2>1. AppendEvent(g, "snapshot") /\ "snapshot" \in Kinds
    BY <1>3 DEF PublishSnapshot, Kinds
  <2>2. GenerationsAreFenced'
    BY <1>1, <1>2, <2>1, AppendKeepsFence DEF WorldInv
  <2>3. RingOK'
    BY <2>1, AppendKeepsRing DEF WorldInv
  <2>4. cursor' \in 0..MaxCursor /\ events' \in Seq(StoredEvent) /\ Len(events') \in 1..Capacity
    BY <2>1, AppendShifts DEF WorldInv
  <2>5. TypeOK'
    BY <1>1, <1>2, <2>4, WorldConstants DEF TypeOK
  <2>. QED
    BY <2>2, <2>3, <2>5 DEF WorldInv
<1>4. CASE g = generation /\ d = content
  <2>1. UNCHANGED <<cursor, events>> /\ retired' = retired /\ generation' = generation
    BY <1>1, <1>4 DEF PublishSnapshot
  <2>. QED
    BY <1>1, <2>1, WorldConstants DEF WorldInv, TypeOK, GenerationsAreFenced, RingOK
<1>. QED
  BY <1>3, <1>4

\* So does an event of the current session.
LEMMA PublishEventInv ==
    ASSUME WorldInv, NEW g \in Generations, PublishEvent(g)
    PROVE  WorldInv'
<1>1. /\ AppendEvent(g, "event") /\ "event" \in Kinds /\ generation = g
      /\ UNCHANGED <<generation, sequence, content, retired>>
  BY DEF PublishEvent, Kinds
<1>2. GenerationsAreFenced'
  BY <1>1, AppendKeepsFence DEF WorldInv, GenerationsAreFenced
<1>3. RingOK'
  BY <1>1, AppendKeepsRing DEF WorldInv
<1>4. TypeOK'
  <2>1. cursor' \in 0..MaxCursor /\ events' \in Seq(StoredEvent) /\ Len(events') \in 1..Capacity
    BY <1>1, AppendShifts DEF WorldInv
  <2>. QED
    BY <1>1, <2>1, WorldConstants DEF WorldInv, TypeOK
<1>. QED
  BY <1>2, <1>3, <1>4 DEF WorldInv

\* Every method of WorldState keeps its invariant.
LEMMA NextWorldInv == WorldInv /\ Next => WorldInv'
BY PublishSnapshotInv, PublishEventInv DEF Next

-----------------------------------------------------------------------------
(* The readers.                                                             *)

\* An event that is published leaves it announced to a reader that its
\* snapshot is out of date, and announces it if it is a snapshot event.
LEMMA AppendAnnounces ==
    ASSUME WatchInv, NEW r \in Readers, NEW g \in Generations, NEW kind \in Kinds,
           AppendEvent(g, kind), readers' = readers,
           Announced(r) \/ kind = "snapshot"
    PROVE  Announced(r)'
<1>1. PICK lost \in {0, 1} :
        /\ Len(events') = Len(events) - lost + 1
        /\ lost <= Len(events)
        /\ \A i \in 1..Len(events') - 1 : events'[i] = events[i + lost]
  BY AppendShifts DEF WatchInv, WorldInv
<1>. DEFINE n == Len(events')
<1>2. /\ cursor \in Nat /\ cursor' = cursor + 1
      /\ Len(events) \in Nat /\ n \in Nat /\ n # 0
      /\ events'[n].cursor = cursor + 1 /\ events'[n].kind = kind
  BY AppendedLast DEF WatchInv, WorldInv
<1>3. readers[r].cursor \in Nat /\ readers[r].cursor <= cursor
  BY DEF WatchInv, ReaderOK, Reader
<1>4. RingOK /\ RingOK'
  BY AppendKeepsRing DEF WatchInv, WorldInv
<1>5. CASE kind = "snapshot"
  <2>1. n \in 1..n /\ events'[n].cursor > readers'[r].cursor /\ events'[n].kind = "snapshot"
    BY <1>2, <1>3, <1>5
  <2>. QED
    BY <1>2, <2>1 DEF Announced, Available
<1>6. CASE Announced(r) /\ Truncated(r)
  <2>1. events[1].cursor = cursor - Len(events) + 1 /\ events'[1].cursor = cursor' - n + 1
    <3>1. 1 \in 1..Len(events) /\ 1 \in 1..n
      BY <1>2, <1>6 DEF Announced
    <3>2. \A i \in 1..n : events'[i].cursor = cursor' - n + i
      BY <1>4 DEF RingOK
    <3>. QED
      BY <1>4, <3>1, <3>2 DEF RingOK
  <2>2. Truncated(r)'
    BY <1>1, <1>2, <1>3, <1>6, <2>1 DEF Truncated
  <2>. QED
    BY <1>2, <2>2 DEF Announced
<1>7. CASE Announced(r) /\ ~Truncated(r)
  <2>1. PICK i \in Available(r) : events[i].kind = "snapshot"
    BY <1>7 DEF Announced
  <2>2. i \in 1..Len(events) /\ events[i].cursor > readers[r].cursor
    BY DEF Available
  <2>3. CASE i - lost # 0
    <3>1. i - lost \in 1..n - 1 /\ i - lost \in 1..n /\ (i - lost) + lost = i
      BY <1>1, <1>2, <2>2, <2>3
    <3>2. events'[i - lost] = events[i]
      BY <1>1, <3>1
    <3>3. i - lost \in Available(r)' /\ events'[i - lost].kind = "snapshot"
      BY <2>1, <2>2, <3>1, <3>2 DEF Available
    <3>. QED
      BY <1>2, <3>3 DEF Announced
  <2>4. CASE i - lost = 0
    <3>1. i = 1 /\ lost = 1
      BY <2>2, <2>4
    <3>2. events[1].cursor = cursor - Len(events) + 1 /\ events'[1].cursor = cursor' - n + 1
      <4>1. 1 \in 1..Len(events) /\ 1 \in 1..n
        BY <1>2, <2>2, <3>1
      <4>. QED
        BY <1>4, <4>1 DEF RingOK
    <3>3. events'[1].cursor - 1 = events[1].cursor
      BY <1>1, <1>2, <3>1, <3>2
    <3>4. Truncated(r)'
      BY <2>2, <3>1, <3>3 DEF Truncated
    <3>. QED
      BY <1>2, <3>4 DEF Announced
  <2>. QED
    BY <2>3, <2>4
<1>. QED
  BY <1>5, <1>6, <1>7

\* What is published does not put a reader in the wrong.
LEMMA PublishedReaderOK ==
    ASSUME WatchInv, Next, readers' = readers, NEW r \in Readers
    PROVE  ReaderOK(r)'
<1>1. PICK g \in Generations :
        \/ \E s \in 1..MaxSequence, d \in Contents : PublishSnapshot(g, s, d)
        \/ PublishEvent(g)
  BY DEF Next
<1>2. ReaderOK(r) /\ cursor \in Nat /\ readers[r].cursor \in Nat
  BY WorldConstants DEF WatchInv, WorldInv, TypeOK, Reader
<1>3. CASE content' = content /\ cursor' = cursor /\ events' = events
  BY <1>2, <1>3 DEF ReaderOK, Announced, Truncated, Available, Numbers
<1>4. ASSUME NEW kind \in Kinds, AppendEvent(g, kind), content' = content \/ kind = "snapshot"
      PROVE  ReaderOK(r)'
  <2>1. cursor' = cursor + 1
    BY <1>4 DEF AppendEvent
  <2>2. Announced(r) \/ kind = "snapshot" => Announced(r)'
    BY <1>4, AppendAnnounces
  <2>. QED
    BY <1>2, <1>4, <2>1, <2>2 DEF ReaderOK, Numbers
<1>5. CASE \E s \in 1..MaxSequence, d \in Contents : PublishSnapshot(g, s, d)
  <2>1. PICK s \in 1..MaxSequence, d \in Contents : PublishSnapshot(g, s, d)
    BY <1>5
  <2>2. CASE g # generation \/ d # content
    BY <1>4, <2>1, <2>2 DEF PublishSnapshot, Kinds
  <2>3. CASE ~(g # generation \/ d # content)
    BY <1>3, <2>1, <2>3 DEF PublishSnapshot
  <2>. QED
    BY <2>2, <2>3
<1>6. CASE PublishEvent(g)
  BY <1>4, <1>6 DEF PublishEvent, Kinds
<1>. QED
  BY <1>1, <1>5, <1>6

\* A reader that reads the snapshot starts afresh.
LEMMA ReadSnapshotOK ==
    ASSUME WatchInv, NEW r \in Readers, ReadSnapshot(r)
    PROVE  WatchInv'
<1>. DEFINE new == [cursor |-> cursor, from |-> cursor, got |-> {}, whole |-> TRUE,
                    known |-> content, dirty |-> FALSE]
<1>1. /\ readers' = [readers EXCEPT ![r] = new]
      /\ UNCHANGED worldVars
  BY DEF ReadSnapshot
<1>2. WorldInv' /\ cursor \in Nat /\ readers \in [Readers -> Reader]
  BY <1>1, WorldConstants
     DEF worldVars, WatchInv, WorldInv, TypeOK, GenerationsAreFenced, RingOK
<1>3. readers' \in [Readers -> Reader]
  BY <1>1, <1>2 DEF Reader, WatchInv, WorldInv, TypeOK
<1>4. ASSUME NEW x \in Readers PROVE ReaderOK(x)'
  <2>1. CASE x = r
    <3>1. readers'[x] = new
      BY <1>1, <1>2, <2>1
    <3>. QED
      BY <1>1, <1>2, <3>1 DEF ReaderOK, Numbers, worldVars
  <2>2. CASE x # r
    <3>1. readers'[x] = readers[x]
      BY <1>1, <1>2, <2>2
    <3>. QED
      BY <1>1, <3>1
         DEF WatchInv, ReaderOK, Announced, Truncated, Available, Numbers, worldVars
  <2>. QED
    BY <2>1, <2>2
<1>. QED
  BY <1>2, <1>3, <1>4 DEF WatchInv

\* A page brings a reader that was whole all the numbers up to the newest.
LEMMA WatchPageOK ==
    ASSUME WatchInv, NEW r \in Readers, WatchPage(r)
    PROVE  WatchInv'
<1>. DEFINE page == {events[i].cursor : i \in Available(r)}
            news == \E i \in Available(r) : events[i].kind = "snapshot"
<1>1. UNCHANGED worldVars
  BY DEF WatchPage
<1>2. /\ WorldInv' /\ cursor \in Nat /\ cursor <= MaxCursor /\ readers \in [Readers -> Reader]
      /\ Len(events) \in Nat
  BY <1>1, WorldConstants, LenProperties
     DEF worldVars, WatchInv, WorldInv, TypeOK, GenerationsAreFenced, RingOK
<1>3. Len(events) # 0 /\ RingOK /\ Available(r) \subseteq 1..Len(events)
  <2>1. PICK i \in 1..Len(events) : TRUE
    BY DEF WatchPage, Available
  <2>. QED
    BY <1>2, <2>1 DEF Available, WatchInv, WorldInv
<1>4. events[Len(events)].cursor = cursor /\ events[1].cursor = cursor - Len(events) + 1
  BY <1>2, <1>3 DEF RingOK
<1>5. /\ readers'[r] = [readers[r] EXCEPT !.cursor = cursor, !.got = @ \cup page,
                                          !.whole = @ /\ ~Truncated(r), !.dirty = @ \/ news]
      /\ \A x \in Readers : x # r => readers'[x] = readers[x]
      /\ DOMAIN readers' = Readers
  BY <1>2, <1>4 DEF WatchPage
<1>6. readers[r] \in Reader
  BY <1>2
<1>7. /\ readers'[r].cursor = cursor /\ readers'[r].got = readers[r].got \cup page
      /\ readers'[r].whole = (readers[r].whole /\ ~Truncated(r))
      /\ readers'[r].dirty = (readers[r].dirty \/ news)
      /\ readers'[r].from = readers[r].from /\ readers'[r].known = readers[r].known
  BY <1>5, <1>6 DEF Reader
<1>8. page = {n \in 1..MaxCursor : /\ n >= cursor - Len(events) + 1
                                   /\ n > readers[r].cursor /\ n <= cursor}
  <2>1. ASSUME NEW i \in Available(r)
        PROVE  /\ events[i].cursor \in 1..MaxCursor /\ events[i].cursor > readers[r].cursor
               /\ events[i].cursor >= cursor - Len(events) + 1 /\ events[i].cursor <= cursor
    <3>1. /\ i \in 1..Len(events) /\ events[i].cursor > readers[r].cursor
          /\ events[i].cursor = cursor - Len(events) + i
      BY <1>3 DEF Available, RingOK
    <3>2. Len(events) <= cursor
      BY <1>3 DEF RingOK
    <3>. QED
      BY <1>2, <3>1, <3>2, WorldConstants
  <2>2. ASSUME NEW n \in 1..MaxCursor, n >= cursor - Len(events) + 1,
               n > readers[r].cursor, n <= cursor
        PROVE  n \in page
    <3>. DEFINE i == n - (cursor - Len(events))
    <3>1. i \in 1..Len(events) /\ cursor - Len(events) + i = n
      BY <1>2, <2>2
    <3>2. events[i].cursor = n
      BY <1>3, <3>1 DEF RingOK
    <3>3. i \in Available(r)
      BY <2>2, <3>1, <3>2 DEF Available
    <3>. QED
      BY <3>2, <3>3
  <2>. QED
    BY <2>1, <2>2
<1>9. readers' \in [Readers -> Reader]
  <2>1. page \subseteq Nat
    BY <1>8
  <2>2. readers'[r] \in Reader
    BY <1>2, <1>5, <1>6, <2>1 DEF Reader
  <2>3. \A x \in Readers : readers'[x] \in Reader
    BY <1>2, <1>5, <2>2
  <2>4. readers' = [x \in Readers |-> readers'[x]]
    BY <1>2 DEF WatchPage
  <2>. QED
    BY <2>3, <2>4
<1>10. ReaderOK(r)'
  <2>1. /\ ReaderOK(r) /\ readers[r].cursor \in Nat /\ readers[r].from \in Nat
    BY <1>6 DEF WatchInv, Reader
  <2>2. readers'[r].from <= readers'[r].cursor /\ readers'[r].cursor <= cursor'
    BY <1>1, <1>2, <1>7, <2>1 DEF ReaderOK, worldVars
  <2>3. ASSUME readers'[r].whole
        PROVE  readers'[r].got = Numbers(readers'[r].from, readers'[r].cursor)
    <3>1. readers[r].whole /\ ~Truncated(r)
      BY <1>7, <2>3
    <3>2. readers[r].got = Numbers(readers[r].from, readers[r].cursor)
      BY <2>1, <3>1 DEF ReaderOK
    <3>3. readers[r].cursor >= cursor - Len(events)
      BY <1>2, <1>4, <2>1, <3>1 DEF Truncated
    <3>4. readers[r].from <= readers[r].cursor /\ readers[r].cursor <= cursor
      BY <2>1 DEF ReaderOK
    <3>. QED
      BY <1>2, <1>7, <1>8, <2>1, <3>2, <3>3, <3>4 DEF Numbers
  <2>4. ASSUME readers'[r].whole, ~readers'[r].dirty
        PROVE  readers'[r].known = content'
    <3>1. readers[r].whole /\ ~Truncated(r) /\ ~readers[r].dirty /\ ~news
      BY <1>7, <2>4
    <3>2. ~Announced(r)
      BY <3>1 DEF Announced
    <3>. QED
      BY <1>1, <1>7, <2>1, <3>1, <3>2 DEF ReaderOK, worldVars
  <2>. QED
    BY <2>2, <2>3, <2>4 DEF ReaderOK, Numbers
<1>11. ASSUME NEW x \in Readers, x # r PROVE ReaderOK(x)'
  BY <1>1, <1>5, <1>11
     DEF WatchInv, ReaderOK, Announced, Truncated, Available, Numbers, worldVars
<1>. QED
  BY <1>2, <1>9, <1>10, <1>11 DEF WatchInv

\* A reader for whom nothing waits has seen everything.
LEMMA WatchTimeoutOK ==
    ASSUME WatchInv, NEW r \in Readers, WatchTimeout(r)
    PROVE  WatchInv'
<1>1. /\ readers' = [readers EXCEPT ![r].cursor = cursor]
      /\ UNCHANGED worldVars
  BY DEF WatchTimeout
<1>2. /\ WorldInv' /\ cursor \in Nat /\ readers \in [Readers -> Reader]
      /\ Len(events) \in Nat /\ readers[r] \in Reader
  BY <1>1, WorldConstants, LenProperties
     DEF worldVars, WatchInv, WorldInv, TypeOK, GenerationsAreFenced, RingOK
<1>3. readers[r].cursor = cursor
  <2>1. readers[r].cursor \in Nat /\ readers[r].cursor <= cursor
    BY <1>2 DEF WatchInv, ReaderOK, Reader
  <2>2. CASE Len(events) = 0
    BY <1>2, <2>1, <2>2 DEF WatchInv, WorldInv, RingOK
  <2>3. CASE Len(events) # 0
    <3>1. Len(events) \in 1..Len(events) /\ events[Len(events)].cursor = cursor
      BY <1>2, <2>3 DEF WatchInv, WorldInv, RingOK
    <3>2. ~(cursor > readers[r].cursor)
      BY <3>1 DEF WatchTimeout, Available
    <3>. QED
      BY <1>2, <2>1, <3>2
  <2>. QED
    BY <2>2, <2>3
<1>4. readers' = readers
  BY <1>1, <1>2, <1>3 DEF Reader
<1>. QED
  BY <1>1, <1>2, <1>4
     DEF WatchInv, ReaderOK, Announced, Truncated, Available, Numbers, worldVars

-----------------------------------------------------------------------------
(* The theorems about the world state and its readers.                     *)

\* Every step of the world state and of its readers keeps the invariant.
LEMMA WatchNextInv == WatchInv /\ [WatchNext]_watchVars => WatchInv'
<1>. SUFFICES ASSUME WatchInv, [WatchNext]_watchVars PROVE WatchInv'
  OBVIOUS
<1>1. CASE UNCHANGED watchVars
  BY <1>1 DEF watchVars, worldVars, WatchInv, WorldInv, TypeOK, GenerationsAreFenced, RingOK,
              ReaderOK, Announced, Truncated, Available, Numbers
<1>2. CASE Next /\ UNCHANGED readers
  BY <1>2, NextWorldInv, PublishedReaderOK DEF WatchInv
<1>3. ASSUME NEW r \in Readers, ReadSnapshot(r) \/ WatchPage(r) \/ WatchTimeout(r)
      PROVE  WatchInv'
  BY <1>3, ReadSnapshotOK, WatchPageOK, WatchTimeoutOK
<1>. QED
  BY <1>1, <1>2, <1>3 DEF WatchNext

\* No reader is behind a world that has just begun.
LEMMA WatchInitInv == WatchInit => WatchInv
<1>. SUFFICES ASSUME WatchInit PROVE WatchInv
  OBVIOUS
<1>1. WorldInv
  BY InitWorldInv DEF WatchInit
<1>2. readers \in [Readers -> Reader]
  BY DEF WatchInit, Reader
<1>3. ASSUME NEW r \in Readers PROVE ReaderOK(r)
  BY DEF WatchInit, Init, ReaderOK, Numbers
<1>. QED
  BY <1>1, <1>2, <1>3 DEF WatchInv

\* The invariant holds throughout, for any number of readers.
THEOREM WatchInvariance == WatchSpec => []WatchInv
BY WatchInitInv, WatchNextInv, PTL DEF WatchSpec

\* A replaced session never becomes current again, and the events of two
\* sessions never interleave in the ring, whatever its capacity.
THEOREM Fencing == WatchSpec => []GenerationsAreFenced
<1>1. WatchInv => GenerationsAreFenced
  BY DEF WatchInv, WorldInv
<1>. QED
  BY <1>1, WatchInvariance, PTL

\* A reader that was never told "truncated" was given every event since its
\* snapshot, and if none of them was a snapshot event, it still knows the
\* current content.
THEOREM ReadersMissNothing == WatchSpec => []NothingIsMissed
<1>1. WatchInv => NothingIsMissed
  <2>. SUFFICES ASSUME WatchInv, NEW r \in Readers, readers[r].whole
                PROVE  /\ readers[r].got = Numbers(readers[r].from, readers[r].cursor)
                       /\ ~readers[r].dirty /\ readers[r].cursor = cursor =>
                            readers[r].known = content
    BY DEF NothingIsMissed, Numbers
  <2>1. ReaderOK(r) /\ RingOK /\ cursor \in Nat /\ Len(events) \in Nat
    BY WorldConstants, LenProperties DEF WatchInv, WorldInv, TypeOK
  <2>2. ASSUME readers[r].cursor = cursor PROVE ~Announced(r)
    <3>1. \A i \in 1..Len(events) : events[i].cursor <= cursor
      BY <2>1 DEF RingOK
    <3>2. Len(events) # 0 => events[1].cursor - 1 <= cursor
      BY <2>1 DEF RingOK
    <3>3. ASSUME NEW i \in Available(r) PROVE FALSE
      <4>1. i \in 1..Len(events) /\ events[i].cursor = cursor - Len(events) + i
            /\ events[i].cursor > cursor
        BY <2>1, <2>2, <3>3 DEF Available, RingOK
      <4>. QED
        BY <2>1, <4>1
    <3>4. Len(events) # 0 => ~Truncated(r)
      <4>1. ASSUME Len(events) # 0 PROVE events[1].cursor = cursor - Len(events) + 1
        BY <2>1, <4>1 DEF RingOK
      <4>. QED
        BY <2>1, <2>2, <4>1 DEF Truncated
    <3>. QED
      BY <3>3, <3>4 DEF Announced
  <2>. QED
    BY <2>1, <2>2 DEF ReaderOK
<1>. QED
  BY <1>1, WatchInvariance, PTL

-----------------------------------------------------------------------------
(* The world state under the handlers.                                      *)

\* An appended event is the last one of the ring, and of its generation.
LEMMA AppendKeepsTypes ==
    ASSUME TypeOK, NEW g \in Generations, NEW kind \in Kinds, AppendEvent(g, kind)
    PROVE  /\ cursor' \in 0..MaxCursor
           /\ events' \in Seq(StoredEvent) /\ Len(events') <= Capacity
           /\ events'[Len(events')].generation = g
<1>1. /\ cursor' \in 0..MaxCursor /\ events' \in Seq(StoredEvent) /\ Len(events') \in 1..Capacity
      /\ events'[Len(events')] = [cursor |-> cursor + 1, generation |-> g, kind |-> kind]
  BY AppendShifts
<1>. QED
  BY <1>1, WorldConstants

\* An admitted snapshot leaves the world state with its types, its generation
\* current and, if there is a new event, that event of the new generation.
LEMMA PublishedWorld ==
    ASSUME TypeOK, NEW g \in Generations, NEW s \in 1..MaxSequence,
           NEW d \in Contents \cup {NoContent}, PublishSnapshot(g, s, d)
    PROVE  /\ TypeOK' /\ generation' = g
           /\ cursor' # cursor => events'[Len(events')].generation = generation'
<1>1. /\ generation' = g /\ sequence' = s /\ content' = d
      /\ retired' \subseteq Generations
  BY DEF PublishSnapshot, TypeOK
<1>2. CASE g # generation \/ d # content
  <2>1. AppendEvent(g, "snapshot") /\ "snapshot" \in Kinds
    BY <1>2 DEF PublishSnapshot, Kinds
  <2>. QED
    BY <1>1, <2>1, AppendKeepsTypes, WorldConstants DEF TypeOK
<1>3. CASE ~(g # generation \/ d # content)
  <2>1. UNCHANGED <<cursor, events>>
    BY <1>3 DEF PublishSnapshot
  <2>. QED
    BY <1>1, <2>1, WorldConstants DEF TypeOK
<1>. QED
  BY <1>2, <1>3

\* An alert that becomes an event is one of the current generation.
LEMMA PublishedAlert ==
    ASSUME TypeOK, NEW g \in Generations, PublishEvent(g)
    PROVE  /\ TypeOK' /\ generation' = generation
           /\ events'[Len(events')].generation = generation'
<1>1. /\ AppendEvent(g, "event") /\ "event" \in Kinds /\ generation = g
      /\ UNCHANGED <<generation, sequence, content, retired>>
  BY DEF PublishEvent, Kinds
<1>. QED
  BY <1>1, AppendKeepsTypes, WorldConstants DEF TypeOK

-----------------------------------------------------------------------------
(* The lock.                                                                *)

\* Answering one request leaves the others as they are.
LEMMA AnswerRequest ==
    ASSUME PublicationInv, NEW g \in Generations, NEW s \in 1..MaxSequence,
           NEW reply \in Phases, Answer(g, s, reply)
    PROVE  /\ request' \in [Requests -> RequestState]
           /\ request'[<<g, s>>].phase = reply
           /\ \A h \in Generations, n \in 1..MaxSequence :
                <<h, n>> # <<g, s>> => request'[<<h, n>>] = request[<<h, n>>]
<1>1. request \in [Requests -> RequestState] /\ <<g, s>> \in Requests
  BY DEF PublicationInv, PublicationTypeOK, Requests, RequestState
<1>2. request' = [request EXCEPT ![<<g, s>>] = [@ EXCEPT !.phase = reply]]
  BY DEF Answer
<1>3. request[<<g, s>>] \in RequestState
  BY <1>1
<1>4. [request[<<g, s>>] EXCEPT !.phase = reply] \in RequestState
  BY <1>3 DEF RequestState
<1>5. request' \in [Requests -> RequestState]
  BY <1>1, <1>2, <1>4
<1>6. request'[<<g, s>>].phase = reply
  BY <1>1, <1>2, <1>3 DEF RequestState
<1>. QED
  BY <1>1, <1>2, <1>5, <1>6 DEF Requests

\* The lock stays where it is while no request is admitted and the session
\* does not change.
LEMMA QuietLock ==
    ASSUME PublicationInv, UNCHANGED <<lock, brokerGen, generation>>,
           \A g \in Generations, s \in 1..MaxSequence :
              request'[<<g, s>>].phase = "published" => request[<<g, s>>].phase = "published"
    PROVE  LockOK' /\ BrokerFollowsWorld'
BY DEF PublicationInv, LockOK, BrokerFollowsWorld

\* What a bridge does by itself.
LEMMA BridgeInv ==
    ASSUME PublicationInv, NEW b \in Generations, NEW t \in Threads,
           Sample(b, t) \/ Post(b, t) \/ Receive(b, t) \/ GiveUp(b, t)
    PROVE  PublicationInv'
<1>. DEFINE ThreadState == [at: {"idle", "sampled", "waiting"}, seq: 0..MaxSequence,
                            content: Contents \cup {NoContent}]
<1>1. /\ thread \in [Generations \X Threads -> ThreadState] /\ <<b, t>> \in Generations \X Threads
      /\ thread[<<b, t>>] \in ThreadState
  BY DEF PublicationInv, PublicationTypeOK
<1>2. UNCHANGED <<worldVars, serverVars, game>> /\ MaxSequence \in Nat
  BY WorldConstants DEF Sample, Post, Receive, GiveUp
<1>3. /\ \A x \in Generations \X Threads : thread'[x] \in ThreadState
      /\ thread' \in [Generations \X Threads -> ThreadState]
  <2>1. Idle \in ThreadState
    BY <1>2 DEF Idle
  <2>2. CASE Sample(b, t)
    <3>1. [at |-> "sampled", seq |-> 0, content |-> game] \in ThreadState
      BY <1>2 DEF PublicationInv, PublicationTypeOK
    <3>2. thread' = [thread EXCEPT ![<<b, t>>] = [at |-> "sampled", seq |-> 0, content |-> game]]
      BY <2>2 DEF Sample
    <3>. QED
      BY <1>1, <3>1, <3>2
  <2>3. CASE Post(b, t)
    <3>1. nextSeq[b] + 1 \in 0..MaxSequence
      BY <1>2, <2>3 DEF Post, PublicationInv, PublicationTypeOK
    <3>2. [thread[<<b, t>>] EXCEPT !.at = "waiting", !.seq = nextSeq[b] + 1] \in ThreadState
      BY <1>1, <3>1
    <3>3. thread' = [thread EXCEPT ![<<b, t>>] =
                       [thread[<<b, t>>] EXCEPT !.at = "waiting", !.seq = nextSeq[b] + 1]]
      BY <1>1, <2>3 DEF Post
    <3>. QED
      BY <1>1, <3>2, <3>3
  <2>4. CASE Receive(b, t) \/ GiveUp(b, t)
    <3>1. thread' = [thread EXCEPT ![<<b, t>>] = Idle]
      BY <2>4 DEF Receive, GiveUp
    <3>. QED
      BY <1>1, <2>1, <3>1
  <2>. QED
    BY <2>2, <2>3, <2>4
<1>4. /\ request' \in [Requests -> RequestState]
      /\ nextSeq' \in [Generations -> 0..MaxSequence]
      /\ \A g \in Generations, s \in 1..MaxSequence :
           request'[<<g, s>>].phase = "published" => request[<<g, s>>].phase = "published"
  <2>1. /\ request \in [Requests -> RequestState]
        /\ nextSeq \in [Generations -> 0..MaxSequence]
    BY DEF PublicationInv, PublicationTypeOK, Requests, RequestState
  <2>2. CASE Post(b, t)
    <3>. DEFINE s == nextSeq[b] + 1
                sent == [phase |-> "sent", content |-> thread[<<b, t>>].content]
    <3>1. s \in 1..MaxSequence /\ s \in 0..MaxSequence /\ <<b, s>> \in Requests
      BY <1>2, <2>1, <2>2 DEF Post, Requests
    <3>2. sent \in RequestState /\ sent.phase # "published"
      BY <1>1 DEF RequestState, Phases
    <3>3. request' = [request EXCEPT ![<<b, s>>] = sent]
      BY <2>2 DEF Post
    <3>4. nextSeq' = [nextSeq EXCEPT ![b] = s]
      BY <2>1, <2>2 DEF Post
    <3>. HIDE DEF s, sent
    <3>5. \A x \in Requests : request'[x] = IF x = <<b, s>> THEN sent ELSE request[x]
      BY <2>1, <3>1, <3>3
    <3>6. ASSUME NEW g \in Generations, NEW n \in 1..MaxSequence,
                 request'[<<g, n>>].phase = "published"
          PROVE  request[<<g, n>>].phase = "published"
      <4>1. <<g, n>> \in Requests
        BY DEF Requests
      <4>. QED
        BY <3>2, <3>5, <3>6, <4>1
    <3>. QED
      BY <2>1, <3>1, <3>2, <3>3, <3>4, <3>6
  <2>3. CASE ~Post(b, t)
    <3>1. UNCHANGED <<request, nextSeq>>
      BY <2>3 DEF Sample, Receive, GiveUp
    <3>. QED
      BY <2>1, <3>1
  <2>. QED
    BY <2>2, <2>3
<1>5. rejected' \in [Generations -> BOOLEAN]
  <2>1. rejected \in [Generations -> BOOLEAN]
    BY DEF PublicationInv, PublicationTypeOK
  <2>2. CASE Receive(b, t)
    <3>1. rejected' = [rejected EXCEPT ![b] =
                         rejected[b] \/ request[<<b, thread[<<b, t>>].seq>>].phase = "conflict"]
      BY <2>1, <2>2 DEF Receive
    <3>. QED
      BY <2>1, <3>1
  <2>3. CASE ~Receive(b, t)
    BY <2>1, <2>3 DEF Sample, Post, GiveUp
  <2>. QED
    BY <2>2, <2>3
<1>6. LockOK' /\ BrokerFollowsWorld'
  BY <1>2, <1>4, QuietLock DEF serverVars, worldVars
<1>7. PublicationTypeOK'
  BY <1>2, <1>3, <1>4, <1>5
     DEF PublicationInv, PublicationTypeOK, TypeOK, worldVars, serverVars, Requests, RequestState
<1>. QED
  BY <1>6, <1>7 DEF PublicationInv

\* The game changes without the sidecar.
LEMMA GameInv ==
    ASSUME PublicationInv, GameChanges
    PROVE  PublicationInv'
<1>1. LockOK' /\ BrokerFollowsWorld'
  BY QuietLock DEF GameChanges, serverVars, worldVars
<1>2. PublicationTypeOK'
  BY DEF GameChanges, PublicationInv, PublicationTypeOK, TypeOK, worldVars, serverVars
<1>. QED
  BY <1>1, <1>2 DEF PublicationInv

\* The admission under the lock: refused, published, handed to the broker.
LEMMA AdmissionInv ==
    ASSUME PublicationInv, NEW g \in Generations, NEW s \in 1..MaxSequence,
           Refuse(g, s) \/ Publish(g, s) \/ AdmitToBroker(g, s)
    PROVE  PublicationInv'
<1>1. /\ NoRequest # <<g, s>> /\ <<g, s>> \in Requests
      /\ request \in [Requests -> RequestState]
  BY WorldConstants
     DEF NoRequest, Requests, RequestState, PublicationInv, PublicationTypeOK
<1>2. CASE Refuse(g, s)
  <2>1. Answer(g, s, "conflict") /\ "conflict" \in Phases
        /\ UNCHANGED <<worldVars, serverVars, bridgeVars>>
    BY <1>2 DEF Refuse, Phases, Replies
  <2>2. ASSUME NEW h \in Generations, NEW n \in 1..MaxSequence,
               request'[<<h, n>>].phase = "published"
        PROVE  request[<<h, n>>].phase = "published"
    BY <2>1, <2>2, AnswerRequest
  <2>3. LockOK' /\ BrokerFollowsWorld'
    BY <2>1, <2>2, QuietLock DEF worldVars, serverVars
  <2>4. PublicationTypeOK'
    BY <2>1, AnswerRequest
       DEF PublicationInv, PublicationTypeOK, TypeOK, worldVars, serverVars, bridgeVars,
           Requests, RequestState
  <2>. QED
    BY <2>3, <2>4 DEF PublicationInv
<1>3. CASE Publish(g, s)
  <2>1. /\ Answer(g, s, "published") /\ "published" \in Phases
        /\ lock = NoRequest /\ lock' = <<g, s>>
        /\ UNCHANGED <<brokerGen, watcher, bridgeVars>>
        /\ PublishSnapshot(g, s, request[<<g, s>>].content)
    BY <1>3 DEF Publish, Phases
  <2>2. request[<<g, s>>].content \in Contents \cup {NoContent}
    BY <1>1 DEF RequestState
  <2>3. TypeOK' /\ generation' = g
    BY <2>1, <2>2, PublishedWorld DEF PublicationInv, PublicationTypeOK
  <2>4. LockOK'
    <3>1. ASSUME NEW h \in Generations, NEW n \in 1..MaxSequence,
                 request'[<<h, n>>].phase = "published"
          PROVE  lock' = <<h, n>>
      <4>1. CASE <<h, n>> = <<g, s>>
        BY <2>1, <4>1
      <4>2. CASE <<h, n>> # <<g, s>>
        <5>1. request[<<h, n>>].phase = "published"
          BY <2>1, <3>1, <4>2, AnswerRequest
        <5>2. lock = <<h, n>> /\ NoRequest # <<h, n>>
          BY <5>1, WorldConstants DEF PublicationInv, LockOK, NoRequest
        <5>. QED
          BY <2>1, <5>2
      <4>. QED
        BY <4>1, <4>2
    <3>. QED
      BY <2>1, <2>3, <3>1 DEF LockOK
  <2>5. BrokerFollowsWorld'
    BY <1>1, <2>1 DEF BrokerFollowsWorld
  <2>6. PublicationTypeOK'
    BY <1>1, <2>1, <2>3, AnswerRequest
       DEF PublicationInv, PublicationTypeOK, bridgeVars, Requests, RequestState
  <2>. QED
    BY <2>4, <2>5, <2>6 DEF PublicationInv
<1>4. CASE AdmitToBroker(g, s)
  <2>1. /\ Answer(g, s, "admitted") /\ "admitted" \in Phases
        /\ lock' = NoRequest /\ brokerGen' = g
        /\ UNCHANGED <<worldVars, watcher, bridgeVars>>
    BY <1>4 DEF AdmitToBroker, Phases
  <2>2. lock = <<g, s>> /\ generation = g
    BY <1>4 DEF AdmitToBroker, PublicationInv, LockOK
  <2>3. BrokerFollowsWorld'
    BY <2>1, <2>2 DEF BrokerFollowsWorld, worldVars
  <2>4. /\ request'[<<g, s>>].phase = "admitted"
        /\ \A h \in Generations, n \in 1..MaxSequence :
             <<h, n>> # <<g, s>> => request'[<<h, n>>] = request[<<h, n>>]
    BY <2>1, AnswerRequest
  <2>5. ASSUME NEW h \in Generations, NEW n \in 1..MaxSequence
        PROVE  request'[<<h, n>>].phase # "published" /\ lock' # <<h, n>>
    <3>1. lock' # <<h, n>>
      BY <2>1, WorldConstants DEF NoRequest
    <3>2. CASE <<h, n>> = <<g, s>>
      BY <2>4, <3>1, <3>2
    <3>3. CASE <<h, n>> # <<g, s>>
      <4>1. request'[<<h, n>>] = request[<<h, n>>]
        BY <2>4, <3>3
      <4>. QED
        BY <2>2, <3>1, <3>3, <4>1 DEF PublicationInv, LockOK
    <3>. QED
      BY <3>2, <3>3
  <2>6. LockOK'
    BY <2>5 DEF LockOK
  <2>7. PublicationTypeOK'
    BY <2>1, AnswerRequest
       DEF PublicationInv, PublicationTypeOK, TypeOK, worldVars, bridgeVars, Requests, RequestState
  <2>. QED
    BY <2>3, <2>6, <2>7 DEF PublicationInv
<1>. QED
  BY <1>2, <1>3, <1>4

\* The watchers and their alerts, after the lock was given back.
LEMMA WatcherInv ==
    ASSUME PublicationInv, NEW g \in Generations, NEW s \in 1..MaxSequence,
           Reduce(g, s) \/ PublishAlert(g, s)
    PROVE  PublicationInv'
<1>1. PICK reply \in {"invalid", "ok", "alerting", "conflict"} : Answer(g, s, reply)
  BY DEF Reduce, PublishAlert
<1>2. reply \in Phases /\ reply # "published"
  BY DEF Phases, Replies
<1>3. /\ request' \in [Requests -> RequestState]
      /\ \A h \in Generations, n \in 1..MaxSequence :
           request'[<<h, n>>].phase = "published" => request[<<h, n>>].phase = "published"
  BY <1>1, <1>2, AnswerRequest
<1>4. UNCHANGED <<lock, brokerGen, bridgeVars>>
  BY DEF Reduce, PublishAlert, serverVars
<1>5. TypeOK' /\ generation' = generation
  <2>1. CASE UNCHANGED worldVars
    BY <2>1 DEF worldVars, PublicationInv, PublicationTypeOK, TypeOK
  <2>2. CASE PublishEvent(g)
    BY <2>2, PublishedAlert DEF PublicationInv, PublicationTypeOK
  <2>. QED
    BY <2>1, <2>2 DEF Reduce, PublishAlert
<1>6. watcher' \in [generation: Generations \cup {NoGeneration}, sequence: 0..MaxSequence,
                    active: BOOLEAN]
  <2>1. Condition(g, s) \in BOOLEAN
    BY DEF Condition
  <2>2. s \in 0..MaxSequence
    BY WorldConstants
  <2>. QED
    BY <2>1, <2>2 DEF Reduce, PublishAlert, serverVars, PublicationInv, PublicationTypeOK
<1>7. LockOK' /\ BrokerFollowsWorld'
  BY <1>3, <1>4, <1>5, QuietLock
<1>8. PublicationTypeOK'
  BY <1>3, <1>4, <1>5, <1>6
     DEF PublicationInv, PublicationTypeOK, bridgeVars, Requests, RequestState
<1>. QED
  BY <1>7, <1>8 DEF PublicationInv

-----------------------------------------------------------------------------
(* The theorems about publication.                                         *)

\* Before the first snapshot neither side has a session.
LEMMA PublicationInitInv == PublicationInit => PublicationInv
<1>. SUFFICES ASSUME PublicationInit PROVE PublicationInv
  OBVIOUS
<1>1. TypeOK
  BY EmptySeq, WorldConstants DEF PublicationInit, Init, TypeOK
<1>2. MaxSequence \in Nat /\ 0 \in 0..MaxSequence
  BY WorldConstants
<1>3. PublicationTypeOK
  BY <1>1, <1>2 DEF PublicationInit, PublicationTypeOK, Idle, NotSent, Phases, NoRequest
<1>4. LockOK
  BY WorldConstants DEF PublicationInit, LockOK, NoRequest, NotSent
<1>5. BrokerFollowsWorld
  BY DEF PublicationInit, Init, BrokerFollowsWorld
<1>. QED
  BY <1>3, <1>4, <1>5 DEF PublicationInv

\* Every step of a bridge, of a handler and of the game keeps the invariant.
LEMMA PublicationNextInv == PublicationInv /\ [PublicationNext]_vars => PublicationInv'
<1>. SUFFICES ASSUME PublicationInv, [PublicationNext]_vars PROVE PublicationInv'
  OBVIOUS
<1>1. CASE UNCHANGED vars
  BY <1>1 DEF vars, worldVars, serverVars, bridgeVars, PublicationInv, PublicationTypeOK, TypeOK,
              LockOK, BrokerFollowsWorld
<1>. QED
  BY <1>1, GameInv, BridgeInv, AdmissionInv, WatcherInv DEF PublicationNext

\* The invariant holds throughout.
THEOREM PublicationInvariance == PublicationSpec => []PublicationInv
BY PublicationInitInv, PublicationNextInv, PTL DEF PublicationSpec

\* Whenever the admission lock is free, the broker's session is the world
\* state's, for any number of overlapping bridges and requests in flight.
THEOREM BrokerFollows == PublicationSpec => []BrokerFollowsWorld
<1>1. PublicationInv => BrokerFollowsWorld
  BY DEF PublicationInv
<1>. QED
  BY <1>1, PublicationInvariance, PTL

\* Whatever enters the ring of events is of the session that is current when
\* it enters, alerts of late requests included.
THEOREM AlertsAreFenced == PublicationSpec => LateAlertsAreFenced
<1>. DEFINE Fenced == cursor' # cursor => events'[Len(events')].generation = generation'
<1>1. ASSUME PublicationInv, PublicationNext PROVE Fenced
  <2>1. CASE UNCHANGED worldVars
    BY <2>1 DEF worldVars
  <2>2. ASSUME NEW g \in Generations, NEW s \in 1..MaxSequence, Publish(g, s)
        PROVE  Fenced
    <3>1. request[<<g, s>>].content \in Contents \cup {NoContent}
      BY <1>1 DEF PublicationInv, PublicationTypeOK
    <3>. QED
      BY <1>1, <2>2, <3>1, PublishedWorld DEF Publish, PublicationInv, PublicationTypeOK
  <2>3. ASSUME NEW g \in Generations, PublishEvent(g)
        PROVE  Fenced
    BY <1>1, <2>3, PublishedAlert DEF PublicationInv, PublicationTypeOK
  <2>. QED
    BY <1>1, <2>1, <2>2, <2>3
       DEF PublicationNext, GameChanges, Sample, Post, Receive, GiveUp, Refuse, AdmitToBroker,
           Reduce, PublishAlert
<1>2. PublicationInv /\ [PublicationNext]_vars => [Fenced]_vars
  BY <1>1
<1>. QED
  BY <1>2, PublicationInvariance, PTL DEF PublicationSpec, LateAlertsAreFenced
=============================================================================
