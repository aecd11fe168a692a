-------------------------- MODULE AssistQueueProofs --------------------------
(***************************************************************************)
(* Proofs about one thread's queue (AssistQueue), for any number of        *)
(* messages, any limit of the queue and any number of failed cache writes: *)
(* it implements ThreadFifo, its cache is honest, a retired message is     *)
(* shown, and a message whose acceptance was saved is not POSTed again.    *)
(*                                                                         *)
(* The argument is one invariant of the view, Sound, relative to what the  *)
(* server has (the world).  Handlers are composed of operators on the view,*)
(* so for each operator there is a lemma that it keeps Sound and the keys  *)
(* in the queue; the handlers' steps follow from those.                    *)
(***************************************************************************)
EXTENDS AssistQueue, FiniteSetTheorems, WellFoundedInduction, TLAPS

View ==
  [queue : Seq(Entry), draft : Seq(CachedEntry), post : Messages \cup {None},
   stream : Messages \cup {None}, join : Messages \cup {None},
   recon : [on : BOOLEAN, fresh : BOOLEAN, keys : SUBSET Messages],
   paused : BOOLEAN, required : BOOLEAN, active : BOOLEAN]

Accepted == Active \cup {"over"}
Done == {"over", "refused"}

\* What the view's claims are about: the next message, the server's Runs, the
\* abandoned POSTs and the acceptances the view has saved.
World ==
  [next : Nat \ {0}, run : [Messages -> {"none", "refused"} \cup Accepted],
   late : SUBSET Messages, learned : SUBSET Messages]
world == [next |-> next, run |-> run, late |-> late, learned |-> learned]

\* The states of an entry whose Run is known.
Known == {"accepted", "observing", "terminal", "reconciling"}

\* What an entry, resident or cached, says of the server is so.
Honest(c, w) ==
  /\ c.state = "queued" => w.run[c.key] = "none" /\ c.key \notin w.late
  /\ c.state = "rejected" => w.run[c.key] = "refused"
  /\ c.state = "reconciling" => w.run[c.key] = "over"
  /\ c.run => w.run[c.key] \in Accepted
  /\ c.run = (c.state \in Known)
  /\ c.key \in w.learned => c.state \notin Postable \cup {"posting"}

\* A resident entry knows more: its requests, and their answers.
Fits(e, w) ==
  /\ Honest(e, w)
  /\ e.verified => w.run[e.key] = "over"
  /\ e.get # "none" => e.run
  /\ e.get = "over" => w.run[e.key] = "over"
  /\ e.del # "none" => e.run
  /\ e.del = "cancelled" => w.run[e.key] = "over"

\* The queue and its cache hold the same messages, in the order they were sent.
Parallel(v) ==
  /\ DOMAIN v.draft = DOMAIN v.queue
  /\ \A i \in DOMAIN v.queue : v.draft[i].key = v.queue[i].key

Sorted(v) == \A i, j \in DOMAIN v.queue : i < j => v.queue[i].key < v.queue[j].key

Resident(v, w) ==
  \A i \in DOMAIN v.queue :
    /\ v.queue[i].key < w.next
    /\ Fits(v.queue[i], w)
    /\ v.queue[i].state = "posting" <=> v.queue[i].key = v.post
    /\ v.queue[i].key = v.stream => v.queue[i].run

Saved(v, w) == \A i \in DOMAIN v.draft : Honest(v.draft[i], w)

\* Every message before m has run to its end or been refused.
Fenced(m, w) == \A n \in Messages : n < m => w.run[n] \in Done

\* The POST under way is cached as such, and fenced.
Posting(v, w) ==
  v.post # None =>
    /\ \E i \in DOMAIN v.queue : v.queue[i].key = v.post /\ v.draft[i].state = "posting"
    /\ Fenced(v.post, w)

\* A message sent and no longer in the queue is done with.
Gone(v, w) ==
  \A m \in Messages : m < w.next => m \in Keys(v.queue) \/ w.run[m] \in Done

Sound(v, w) ==
  /\ v \in View
  /\ Len(v.queue) <= QueueLimit
  /\ v.stream < w.next
  /\ Parallel(v) /\ Sorted(v) /\ Resident(v, w) /\ Saved(v, w)
  /\ Posting(v, w) /\ Gone(v, w)

\* Nothing is known of a message before it is sent; the abandoned POSTs are
\* fenced, and the history is of what is done with.
Unsent == \A m \in Messages : m >= next => run[m] = "none" /\ m \notin late \cup learned
LateFenced == \A m \in late : Fenced(m, world)
History ==
  /\ \A m \in snapshot : run[m] = "over"
  /\ \A m \in dismissed : run[m] = "refused"

Types ==
  /\ next \in 1 .. Last + 1
  /\ run \in [Messages -> {"none", "refused"} \cup Accepted]
  /\ late \subseteq Messages /\ learned \subseteq Messages
  /\ snapshot \subseteq Messages /\ dismissed \subseteq Messages
  /\ faults \in 0 .. MaxFaults

IInv ==
  /\ Types
  /\ Sound(view, world)
  /\ Unsent /\ LateFenced /\ History /\ RetiredIsShown

-----------------------------------------------------------------------------
(* Facts about the operators.                                              *)

\* A sequence rebuilt place by place.
LEMMA Rebuilt ==
  ASSUME NEW S, NEW T, NEW q \in Seq(S), NEW f,
         f = [i \in DOMAIN q |-> f[i]], \A i \in DOMAIN q : f[i] \in T
  PROVE  f \in Seq(T) /\ DOMAIN f = DOMAIN q /\ Len(f) = Len(q)
<1>1. DOMAIN q = 1 .. Len(q) /\ Len(q) \in Nat
  OBVIOUS
<1>2. f \in [1 .. Len(q) -> T]
  BY <1>1
<1> QED
  BY <1>1, <1>2

\* What the fields of a view are.
LEMMA ViewFacts ==
  ASSUME NEW v \in View
  PROVE  /\ v.queue \in Seq(Entry) /\ v.draft \in Seq(CachedEntry)
         /\ Len(v.queue) \in Nat /\ DOMAIN v.queue = 1 .. Len(v.queue)
         /\ \A i \in DOMAIN v.queue : v.queue[i] \in Entry /\ v.queue[i].key \in Messages
         /\ \A i \in DOMAIN v.draft : v.draft[i] \in CachedEntry
         /\ {v.post, v.stream, v.join} \subseteq Messages \cup {None}
<1>1. v.queue \in Seq(Entry) /\ v.draft \in Seq(CachedEntry)
  BY DEF View
<1>2. \A i \in DOMAIN v.queue : v.queue[i] \in Entry
  BY <1>1
<1>3. \A i \in DOMAIN v.queue : v.queue[i].key \in Messages
  BY <1>2 DEF Entry
<1> QED
  BY <1>1, <1>2, <1>3 DEF View

\* Put replaces the entry of one message and nothing else.
LEMMA PutFacts ==
  ASSUME NEW v \in View, NEW e \in Entry
  PROVE  /\ Put(v, e) \in View
         /\ DOMAIN Put(v, e).queue = DOMAIN v.queue /\ Len(Put(v, e).queue) = Len(v.queue)
         /\ \A i \in DOMAIN v.queue :
              Put(v, e).queue[i] = IF v.queue[i].key = e.key THEN e ELSE v.queue[i]
         /\ Put(v, e).draft = v.draft /\ Put(v, e).post = v.post
         /\ Put(v, e).stream = v.stream /\ Put(v, e).join = v.join
         /\ Put(v, e).recon = v.recon /\ Put(v, e).active = v.active
         /\ Put(v, e).paused = v.paused /\ Put(v, e).required = v.required
<1> DEFINE q == [i \in DOMAIN v.queue |-> IF v.queue[i].key = e.key THEN e ELSE v.queue[i]]
<1>1. Put(v, e) = [v EXCEPT !.queue = q]
  BY DEF Put
<1>2. v.queue \in Seq(Entry) /\ \A i \in DOMAIN v.queue : q[i] \in Entry
  BY ViewFacts
<1>3. q \in Seq(Entry) /\ DOMAIN q = DOMAIN v.queue /\ Len(q) = Len(v.queue)
  BY <1>2, Rebuilt
<1>4. \A i \in DOMAIN v.queue : q[i] = IF v.queue[i].key = e.key THEN e ELSE v.queue[i]
  OBVIOUS
<1> HIDE DEF q
<1> QED
  BY <1>1, <1>3, <1>4 DEF View

\* What the cache keeps of an entry.
LEMMA CachedFacts ==
  ASSUME NEW e \in Entry
  PROVE  /\ Cached(e) \in CachedEntry
         /\ Cached(e).key = e.key /\ Cached(e).state = e.state /\ Cached(e).run = e.run
BY DEF Cached, Entry, CachedEntry

\* Save writes the queue, entry by entry.
LEMMA SaveFacts ==
  ASSUME NEW v \in View
  PROVE  /\ Save(v) \in View
         /\ Save(v).queue = v.queue /\ DOMAIN Save(v).draft = DOMAIN v.queue
         /\ \A i \in DOMAIN v.queue :
              /\ Save(v).draft[i].key = v.queue[i].key
              /\ Save(v).draft[i].state = v.queue[i].state
              /\ Save(v).draft[i].run = v.queue[i].run
         /\ Save(v).post = v.post /\ Save(v).stream = v.stream /\ Save(v).join = v.join
         /\ Save(v).recon = v.recon /\ Save(v).active = v.active
         /\ Save(v).paused = v.paused /\ Save(v).required = v.required
<1> DEFINE d == [i \in DOMAIN v.queue |-> Cached(v.queue[i])]
<1>1. Save(v) = [v EXCEPT !.draft = d]
  BY DEF Save
<1>2. v.queue \in Seq(Entry) /\ \A i \in DOMAIN v.queue : d[i] \in CachedEntry
  BY ViewFacts, CachedFacts
<1>3. d \in Seq(CachedEntry) /\ DOMAIN d = DOMAIN v.queue
  <2>1. d = [i \in DOMAIN v.queue |-> d[i]]
    OBVIOUS
  <2> HIDE DEF d
  <2> QED
    BY <1>2, <2>1, Rebuilt
<1>4. \A i \in DOMAIN v.queue : /\ d[i].key = v.queue[i].key
                                 /\ d[i].state = v.queue[i].state
                                 /\ d[i].run = v.queue[i].run
  BY ViewFacts, CachedFacts
<1> HIDE DEF d
<1> QED
  BY <1>1, <1>3, <1>4 DEF View

\* The entry of a message is its only one.
LEMMA AtFacts ==
  ASSUME NEW v \in View, NEW k \in Keys(v.queue)
  PROVE  /\ \E i \in DOMAIN v.queue : v.queue[i] = At(v, k)
         /\ At(v, k) \in Entry /\ At(v, k).key = k
<1>1. \E e \in Range(v.queue) : e.key = k
  BY DEF Keys
<1>2. At(v, k) \in Range(v.queue) /\ At(v, k).key = k
  BY <1>1 DEF At
<1>3. PICK i \in DOMAIN v.queue : v.queue[i] = At(v, k)
  BY <1>2 DEF Range
<1> QED
  BY <1>2, <1>3, ViewFacts

\* The keys are those of the places.
LEMMA KeysFacts ==
  ASSUME NEW v \in View
  PROVE  /\ Keys(v.queue) = {v.queue[i].key : i \in DOMAIN v.queue}
         /\ Keys(v.queue) \subseteq Messages
<1>1. Keys(v.queue) = {v.queue[i].key : i \in DOMAIN v.queue}
  BY DEF Keys, Range
<1> QED
  BY <1>1, ViewFacts

\* A set of places has a first one.
LEMMA FirstPlace ==
  ASSUME NEW S \in SUBSET Nat, S # {}
  PROVE  Min(S) \in S /\ \A i \in S : Min(S) <= i
<1>1. PICK x \in S : \A y \in S : ~ (<<y, x>> \in OpToRel(<, Nat))
  BY NatLessThanWellFounded, WFMin
<1>2. \A y \in S : ~ (y < x)
  BY <1>1 DEF OpToRel
<1>3. \E z \in S : \A y \in S : z <= y
  BY <1>2
<1> QED
  BY <1>3 DEF Min

-----------------------------------------------------------------------------
(* What keeps a view sound.                                                *)

\* The same messages in the same places.
Same(v, u) ==
  /\ DOMAIN u.queue = DOMAIN v.queue /\ Len(u.queue) = Len(v.queue)
  /\ \A i \in DOMAIN v.queue : u.queue[i].key = v.queue[i].key

\* Changed entries that fit, with the cache as it was.
LEMMA Moved ==
  ASSUME NEW w \in World, NEW v, Sound(v, w), NEW u \in View, Same(v, u), u.draft = v.draft,
         u.post \in {v.post, None}, u.stream \in {v.stream, None},
         \A i \in DOMAIN v.queue :
           /\ Fits(u.queue[i], w)
           /\ u.queue[i].state = "posting" <=> u.queue[i].key = u.post
           /\ v.queue[i].run => u.queue[i].run
  PROVE  Sound(u, w)
<1>1. v \in View
  BY DEF Sound
<1>2. Keys(u.queue) = Keys(v.queue)
  <2>1. /\ Keys(u.queue) = {u.queue[i].key : i \in DOMAIN u.queue}
        /\ Keys(v.queue) = {v.queue[i].key : i \in DOMAIN v.queue}
    BY <1>1, KeysFacts
  <2> QED
    BY <2>1 DEF Same
<1>3. Parallel(u) /\ Sorted(u) /\ Saved(u, w) /\ Gone(u, w)
  BY <1>2 DEF Sound, Same, Parallel, Sorted, Saved, Gone
<1>4. Resident(u, w)
  <2> SUFFICES ASSUME NEW i \in DOMAIN v.queue
               PROVE  /\ u.queue[i].key < w.next
                      /\ Fits(u.queue[i], w)
                      /\ u.queue[i].state = "posting" <=> u.queue[i].key = u.post
                      /\ u.queue[i].key = u.stream => u.queue[i].run
    BY DEF Resident, Same
  <2>1. /\ v.queue[i].key < w.next /\ u.queue[i].key = v.queue[i].key
        /\ v.queue[i].key = v.stream => v.queue[i].run
    BY DEF Sound, Resident, Same
  <2>2. u.queue[i].key # None
    BY <2>1, <1>1, ViewFacts DEF Messages, None
  <2> QED
    BY <2>1, <2>2
<1>5. Posting(u, w)
  BY DEF Sound, Posting, Same
<1>6. u.stream < w.next
  BY DEF Sound, None, World
<1>7. Len(u.queue) <= QueueLimit
  BY DEF Sound, Same
<1> QED
  BY <1>3, <1>4, <1>5, <1>6, <1>7 DEF Sound

\* Nothing of the queue, the cache, the POST or the stream changed.
LEMMA Aside ==
  ASSUME NEW w \in World, NEW v, Sound(v, w), NEW u \in View,
         u.queue = v.queue, u.draft = v.draft, u.post = v.post, u.stream \in {v.stream, None}
  PROVE  Sound(u, w) /\ Same(v, u)
<1>1. Same(v, u)
  BY DEF Same
<1>2. \A i \in DOMAIN v.queue :
        /\ Fits(u.queue[i], w)
        /\ u.queue[i].state = "posting" <=> u.queue[i].key = u.post
        /\ v.queue[i].run => u.queue[i].run
  BY DEF Sound, Resident
<1> QED
  BY <1>1, <1>2, Moved

\* One entry changed.
LEMMA Changed ==
  ASSUME NEW w \in World, NEW v, Sound(v, w), NEW k \in Keys(v.queue),
         NEW e \in Entry, e.key = k, Fits(e, w), At(v, k).run => e.run,
         NEW u \in View, u.queue = Put(v, e).queue, u.draft = v.draft,
         u.post \in {v.post, None}, u.post # v.post => v.post = k,
         e.state = "posting" <=> k = u.post,
         u.stream \in {v.stream, None}
  PROVE  Sound(u, w) /\ Same(v, u)
<1>1. v \in View
  BY DEF Sound
<1>2. /\ DOMAIN u.queue = DOMAIN v.queue /\ Len(u.queue) = Len(v.queue)
      /\ \A i \in DOMAIN v.queue : u.queue[i] = IF v.queue[i].key = k THEN e ELSE v.queue[i]
  BY <1>1, PutFacts
<1>3. Same(v, u)
  BY <1>2 DEF Same
<1>4. ASSUME NEW i \in DOMAIN v.queue
      PROVE  /\ Fits(u.queue[i], w)
             /\ u.queue[i].state = "posting" <=> u.queue[i].key = u.post
             /\ v.queue[i].run => u.queue[i].run
  <2>1. /\ Fits(v.queue[i], w) /\ v.queue[i].key \in Messages
        /\ v.queue[i].state = "posting" <=> v.queue[i].key = v.post
    BY <1>1, ViewFacts DEF Sound, Resident
  <2>2. CASE v.queue[i].key = k
    <3>1. PICK j \in DOMAIN v.queue : v.queue[j] = At(v, k) /\ v.queue[j].key = k
      BY <1>1, AtFacts
    <3>2. i = j
      <4>1. ~(i < j) /\ ~(j < i)
        BY <2>2, <3>1, <1>1, ViewFacts DEF Sound, Sorted, Messages
      <4> QED
        BY <4>1, <1>1, ViewFacts
    <3> QED
      BY <1>2, <2>2, <3>1, <3>2
  <2>3. CASE v.queue[i].key # k
    BY <1>2, <2>1, <2>3 DEF Messages, None
  <2> QED
    BY <2>2, <2>3
<1> QED
  BY <1>3, <1>4, Moved

\* Writing the cache.
LEMMA SaveSound ==
  ASSUME NEW w \in World, NEW v, Sound(v, w)
  PROVE  Sound(Save(v), w) /\ Same(v, Save(v))
<1> DEFINE u == Save(v)
<1>1. v \in View
  BY DEF Sound
<1>2. u \in View /\ u.queue = v.queue /\ u.post = v.post /\ u.stream = v.stream
  BY <1>1, SaveFacts
<1>3. /\ DOMAIN u.draft = DOMAIN v.queue
      /\ \A i \in DOMAIN v.queue : /\ u.draft[i].key = v.queue[i].key
                                   /\ u.draft[i].state = v.queue[i].state
                                   /\ u.draft[i].run = v.queue[i].run
  BY <1>1, SaveFacts
<1> HIDE DEF u
<1>4. Same(v, u)
  BY <1>2 DEF Same
<1>5. Parallel(u) /\ Sorted(u) /\ Resident(u, w) /\ Gone(u, w)
  BY <1>2, <1>3 DEF Sound, Parallel, Sorted, Resident, Gone
<1>6. Saved(u, w)
  BY <1>3 DEF Sound, Resident, Saved, Fits, Honest
<1>7. Posting(u, w)
  BY <1>2, <1>3 DEF Sound, Resident, Posting
<1>8. Sound(u, w)
  BY <1>2, <1>5, <1>6, <1>7 DEF Sound
<1> QED
  BY <1>4, <1>8 DEF u

-----------------------------------------------------------------------------
(* The operators on the view.                                              *)

\* The same messages have the same keys.
LEMMA SameKeys ==
  ASSUME NEW v \in View, NEW u \in View, Same(v, u)
  PROVE  Keys(u.queue) = Keys(v.queue)
<1>1. /\ Keys(u.queue) = {u.queue[i].key : i \in DOMAIN u.queue}
      /\ Keys(v.queue) = {v.queue[i].key : i \in DOMAIN v.queue}
  BY KeysFacts
<1> QED
  BY <1>1 DEF Same

\* Sameness composes.
LEMMA SameTwice ==
  ASSUME NEW v, NEW u, NEW x, Same(v, u), Same(u, x)
  PROVE  Same(v, x)
BY DEF Same

\* What a sound view knows of an entry.
LEMMA AtSound ==
  ASSUME NEW w \in World, NEW v, Sound(v, w), NEW k \in Keys(v.queue)
  PROVE  /\ v \in View /\ At(v, k) \in Entry /\ At(v, k).key = k
         /\ k \in Messages /\ k < w.next
         /\ Fits(At(v, k), w)
         /\ At(v, k).state = "posting" <=> k = v.post
         /\ k = v.stream => At(v, k).run
<1>1. v \in View
  BY DEF Sound
<1>2. At(v, k) \in Entry /\ At(v, k).key = k /\ k \in Messages
  BY <1>1, AtFacts, KeysFacts
<1>3. PICK i \in DOMAIN v.queue : v.queue[i] = At(v, k)
  BY <1>1, AtFacts
<1> QED
  BY <1>1, <1>2, <1>3 DEF Sound, Resident

\* Behind settled entries there is nothing the server may still run.
LEMMA Unblocked ==
  ASSUME NEW w \in World, NEW v, Sound(v, w), NEW i \in DOMAIN v.queue,
         \A j \in 1 .. i - 1 : Settled(v.queue[j])
  PROVE  Fenced(v.queue[i].key, w)
<1> SUFFICES ASSUME NEW m \in Messages, m < v.queue[i].key
             PROVE  w.run[m] \in Done
  BY DEF Fenced
<1>1. v \in View /\ v.queue[i].key \in Messages /\ v.queue[i].key < w.next
  BY ViewFacts DEF Sound, Resident
<1>2. m < w.next
  BY <1>1 DEF Messages, World
<1>3. CASE m \in Keys(v.queue)
  <2>1. PICK j \in DOMAIN v.queue : v.queue[j].key = m
    BY <1>1, <1>3, KeysFacts
  <2>2. j \in 1 .. i - 1
    <3>1. i \in Nat /\ j \in Nat /\ j >= 1
      BY <1>1, ViewFacts
    <3>2. j < i
      BY <1>1, <2>1, <3>1 DEF Sound, Sorted, Messages
    <3> QED
      BY <3>1, <3>2
  <2>3. Settled(v.queue[j]) /\ Fits(v.queue[j], w)
    BY <2>2 DEF Sound, Resident
  <2> QED
    BY <2>1, <2>3 DEF Settled, Fits, Honest, Done
<1>4. CASE m \notin Keys(v.queue)
  BY <1>2, <1>4 DEF Sound, Gone
<1> QED
  BY <1>3, <1>4

\* start-post: the cache says "posting" before the POST goes out.
LEMMA StartPostSound ==
  ASSUME NEW w \in World, NEW v, Sound(v, w), NEW k \in Keys(v.queue), Fenced(k, w),
         NEW ok \in BOOLEAN
  PROVE  Sound(StartPost(v, k, ok), w) /\ Same(v, StartPost(v, k, ok))
<1> DEFINE e == At(v, k)
<1>1. /\ v \in View /\ e \in Entry /\ e.key = k /\ k \in Messages /\ Fits(e, w)
      /\ e.state = "posting" <=> k = v.post
  BY AtSound
<1> HIDE DEF e
<1>2. CASE v.post # None \/ e.state \notin Postable
  BY <1>2 DEF StartPost, e, Same
<1>3. CASE v.post = None /\ e.state \in Postable /\ ok
  <2> DEFINE f == [e EXCEPT !.state = "posting"]
             x == [Put(v, f) EXCEPT !.post = k]
             u == Save(x)
  <2>1. f \in Entry /\ f.key = k /\ f.state = "posting" /\ f.run = e.run /\ Fits(f, w)
    BY <1>1, <1>3 DEF Entry, EntryStates, Postable, Fits, Honest, Known
  <2> HIDE DEF f
  <2>2. /\ Put(v, f) \in View
        /\ DOMAIN Put(v, f).queue = DOMAIN v.queue /\ Len(Put(v, f).queue) = Len(v.queue)
        /\ \A i \in DOMAIN v.queue :
             Put(v, f).queue[i] = IF v.queue[i].key = k THEN f ELSE v.queue[i]
        /\ Put(v, f).stream = v.stream
    BY <1>1, <2>1, PutFacts
  <2>3. /\ x \in View
        /\ x.queue = Put(v, f).queue /\ x.post = k /\ x.stream = v.stream
    BY <1>1, <2>2 DEF View
  <2> HIDE DEF x
  <2>4. /\ u \in View /\ u.queue = x.queue /\ u.post = k /\ u.stream = v.stream
        /\ DOMAIN u.draft = DOMAIN x.queue
        /\ \A i \in DOMAIN x.queue :
             /\ u.draft[i].key = x.queue[i].key
             /\ u.draft[i].state = x.queue[i].state
             /\ u.draft[i].run = x.queue[i].run
    BY <2>3, SaveFacts
  <2> HIDE DEF u
  <2>5. Same(v, u)
    BY <2>1, <2>2, <2>3, <2>4 DEF Same
  <2>6. \A i \in DOMAIN v.queue :
          u.queue[i] = IF v.queue[i].key = k THEN f ELSE v.queue[i]
    BY <2>2, <2>3, <2>4
  <2>7. Keys(u.queue) = Keys(v.queue)
    BY <1>1, <2>4, <2>5, SameKeys
  <2>8. Resident(u, w)
    <3> SUFFICES ASSUME NEW i \in DOMAIN v.queue
                 PROVE  /\ u.queue[i].key < w.next
                        /\ Fits(u.queue[i], w)
                        /\ u.queue[i].state = "posting" <=> u.queue[i].key = u.post
                        /\ u.queue[i].key = u.stream => u.queue[i].run
      BY <2>5 DEF Resident, Same
    <3>1. /\ v.queue[i].key < w.next /\ Fits(v.queue[i], w)
          /\ v.queue[i].state = "posting" <=> v.queue[i].key = v.post
          /\ v.queue[i].key = v.stream => v.queue[i].run
      BY DEF Sound, Resident
    <3>2. CASE v.queue[i].key = k
      <4>1. k = v.stream => e.run
        BY AtSound DEF e
      <4> QED
        BY <2>1, <2>4, <2>6, <3>1, <3>2, <4>1
    <3>3. CASE v.queue[i].key # k
      <4>1. v.queue[i].key # None
        BY <1>1, ViewFacts DEF Messages, None
      <4> QED
        BY <1>3, <2>4, <2>6, <3>1, <3>3, <4>1
    <3> QED
      BY <3>2, <3>3
  <2>9. Parallel(u) /\ Sorted(u)
    BY <2>4, <2>5 DEF Parallel, Sorted, Sound, Same
  <2>10. Saved(u, w)
    BY <2>4, <2>8 DEF Saved, Resident, Fits, Honest
  <2>11. Posting(u, w)
    <3>1. \E i \in DOMAIN u.queue : u.queue[i].key = k
      BY <2>4, <2>7, KeysFacts
    <3> QED
      BY <2>4, <2>8, <3>1 DEF Posting, Resident
  <2>12. Gone(u, w) /\ Len(u.queue) <= QueueLimit /\ u.stream < w.next
    BY <2>4, <2>5, <2>7 DEF Sound, Gone, Same
  <2>13. Sound(u, w)
    BY <2>4, <2>8, <2>9, <2>10, <2>11, <2>12 DEF Sound
  <2> QED
    BY <1>3, <2>5, <2>13 DEF StartPost, e, f, x, u
<1>4. CASE v.post = None /\ e.state \in Postable /\ ~ok
  <2> DEFINE f == [e EXCEPT !.state = "retryable"]
  <2>1. f \in Entry /\ f.key = k /\ f.state = "retryable" /\ f.run = e.run /\ Fits(f, w)
    BY <1>1, <1>4 DEF Entry, EntryStates, Postable, Fits, Honest, Known
  <2> HIDE DEF f
  <2>2. /\ Put(v, f) \in View /\ Put(v, f).draft = v.draft
        /\ Put(v, f).post = v.post /\ Put(v, f).stream = v.stream
    BY <1>1, <2>1, PutFacts
  <2>3. k # None
    BY <1>1 DEF Messages, None
  <2>4. Sound(Put(v, f), w) /\ Same(v, Put(v, f))
    BY <1>1, <1>4, <2>1, <2>2, <2>3, Changed DEF e
  <2> QED
    BY <1>4, <2>4 DEF StartPost, e, f
<1> QED
  BY <1>2, <1>3, <1>4

\* pump-posts.
LEMMA PumpPostsSound ==
  ASSUME NEW w \in World, NEW v, Sound(v, w), NEW ok \in BOOLEAN
  PROVE  Sound(PumpPosts(v, ok), w) /\ Same(v, PumpPosts(v, ok))
<1> DEFINE waiting == {i \in DOMAIN v.queue : v.queue[i].state \in Postable}
           k == v.queue[Min(waiting)].key
<1>1. v \in View
  BY DEF Sound
<1>2. CASE waiting # {} /\ \A i \in 1 .. Min(waiting) - 1 : Settled(v.queue[i])
  <2>1. waiting \in SUBSET Nat
    BY <1>1, ViewFacts
  <2> HIDE DEF waiting
  <2>2. Min(waiting) \in waiting
    BY <1>2, <2>1, FirstPlace
  <2>3. Min(waiting) \in DOMAIN v.queue
    BY <2>2 DEF waiting
  <2>4. Fenced(k, w) /\ k \in Keys(v.queue)
    BY <1>1, <1>2, <2>3, Unblocked, KeysFacts
  <2> HIDE DEF k
  <2>5. Sound(StartPost(v, k, ok), w) /\ Same(v, StartPost(v, k, ok))
    BY <2>4, StartPostSound
  <2>6. PumpPosts(v, ok) = v \/ PumpPosts(v, ok) = StartPost(v, k, ok)
    BY DEF PumpPosts, waiting, k
  <2> QED
    BY <2>5, <2>6 DEF Same
<1>3. CASE ~(waiting # {} /\ \A i \in 1 .. Min(waiting) - 1 : Settled(v.queue[i]))
  <2>1. PumpPosts(v, ok) = v
    BY <1>3 DEF PumpPosts
  <2> QED
    BY <2>1 DEF Same
<1> QED
  BY <1>2, <1>3

\* reobserve: an exact GET is sent for an entry whose Run is known.
LEMMA ReobserveSound ==
  ASSUME NEW w \in World, NEW v, Sound(v, w), NEW k \in Keys(v.queue)
  PROVE  Sound(Reobserve(v, k), w) /\ Same(v, Reobserve(v, k))
<1> DEFINE e == At(v, k)
           f == [e EXCEPT !.get = "sent"]
           u == [Put(v, f) EXCEPT !.join = IF @ = k THEN None ELSE @]
<1>1. /\ v \in View /\ e \in Entry /\ e.key = k /\ Fits(e, w)
      /\ e.state = "posting" <=> k = v.post
  BY AtSound
<1> HIDE DEF e
<1>2. CASE ~e.run \/ v.paused \/ e.get # "none"
  BY <1>2 DEF Reobserve, e, Same
<1>3. CASE ~(~e.run \/ v.paused \/ e.get # "none")
  <2>1. /\ f \in Entry /\ f.key = k /\ f.state = e.state /\ f.run = e.run /\ Fits(f, w)
    BY <1>1, <1>3 DEF Entry, Fits, Honest
  <2> HIDE DEF f
  <2>2. /\ Put(v, f) \in View /\ Put(v, f).draft = v.draft
        /\ Put(v, f).post = v.post /\ Put(v, f).stream = v.stream
    BY <1>1, <2>1, PutFacts
  <2>3. /\ u \in View /\ u.queue = Put(v, f).queue /\ u.draft = v.draft
        /\ u.post = v.post /\ u.stream = v.stream
    BY <2>2 DEF View
  <2> HIDE DEF u
  <2>4. Sound(u, w) /\ Same(v, u)
    BY <1>1, <2>1, <2>3, Changed DEF e
  <2> QED
    BY <1>3, <2>4 DEF Reobserve, e, f, u
<1> QED
  BY <1>2, <1>3

\* An observer is opened for an entry whose Run is known.
LEMMA StreamSound ==
  ASSUME NEW w \in World, NEW v, Sound(v, w), NEW k \in Keys(v.queue),
         \A i \in DOMAIN v.queue : v.queue[i].key = k => v.queue[i].run,
         NEW u \in View, u.queue = v.queue, u.draft = v.draft, u.post = v.post, u.stream = k
  PROVE  Sound(u, w) /\ Same(v, u)
<1>1. k < w.next
  BY AtSound
<1>2. Resident(u, w)
  BY DEF Sound, Resident
<1>3. Parallel(u) /\ Sorted(u) /\ Saved(u, w) /\ Posting(u, w) /\ Gone(u, w)
  BY DEF Sound, Parallel, Sorted, Saved, Posting, Gone
<1> QED
  BY <1>1, <1>2, <1>3 DEF Sound, Same

\* start-observation: the cache says "observing" before the stream is opened.
LEMMA StartObservationSound ==
  ASSUME NEW w \in World, NEW v, Sound(v, w), NEW k \in Keys(v.queue),
         NEW ok \in BOOLEAN, NEW room \in BOOLEAN
  PROVE  /\ Sound(StartObservation(v, k, ok, room), w)
         /\ Same(v, StartObservation(v, k, ok, room))
<1> DEFINE e == At(v, k)
           f == [e EXCEPT !.state = "observing"]
           u == [Put(v, f) EXCEPT !.stream = k]
<1>1. /\ v \in View /\ e \in Entry /\ e.key = k /\ Fits(e, w) /\ k \in Messages
      /\ e.state = "posting" <=> k = v.post
  BY AtSound
<1> HIDE DEF e
<1>2. CASE v.stream # None \/ e.state # "accepted" \/ ~room \/ ~ok
  BY <1>2 DEF StartObservation, e, Same
<1>3. CASE ~(v.stream # None \/ e.state # "accepted" \/ ~room \/ ~ok)
  <2>1. /\ f \in Entry /\ f.key = k /\ f.state = "observing" /\ f.run /\ e.run /\ Fits(f, w)
    BY <1>1, <1>3 DEF Entry, EntryStates, Postable, Fits, Honest, Known
  <2> HIDE DEF f
  <2>2. /\ Put(v, f) \in View /\ Put(v, f).draft = v.draft
        /\ Put(v, f).post = v.post /\ Put(v, f).stream = v.stream
        /\ DOMAIN Put(v, f).queue = DOMAIN v.queue
        /\ \A i \in DOMAIN v.queue :
             Put(v, f).queue[i] = IF v.queue[i].key = k THEN f ELSE v.queue[i]
    BY <1>1, <2>1, PutFacts
  <2>3. Sound(Put(v, f), w) /\ Same(v, Put(v, f))
    BY <1>1, <1>3, <2>1, <2>2, Changed DEF e
  <2>4. /\ u \in View /\ u.queue = Put(v, f).queue /\ u.draft = Put(v, f).draft
        /\ u.post = Put(v, f).post /\ u.stream = k
    BY <1>1, <2>2 DEF View
  <2>5. k \in Keys(Put(v, f).queue)
    BY <1>1, <2>2, <2>3, SameKeys
  <2>6. \A i \in DOMAIN Put(v, f).queue :
          Put(v, f).queue[i].key = k => Put(v, f).queue[i].run
    BY <2>1, <2>2
  <2> HIDE DEF u
  <2>7. Sound(u, w) /\ Same(Put(v, f), u)
    BY <2>3, <2>4, <2>5, <2>6, StreamSound
  <2>8. Sound(Save(u), w) /\ Same(u, Save(u))
    BY <2>7, SaveSound
  <2>9. Same(v, Save(u))
    BY <2>3, <2>7, <2>8 DEF Same
  <2> QED
    BY <1>3, <2>8, <2>9 DEF StartObservation, e, f, u
<1> QED
  BY <1>2, <1>3

\* A place of the queue has a key of it.
LEMMA PlaceKey ==
  ASSUME NEW v \in View, NEW i \in DOMAIN v.queue
  PROVE  v.queue[i].key \in Keys(v.queue)
BY KeysFacts

\* start-next-observation.
LEMMA StartNextObservationSound ==
  ASSUME NEW w \in World, NEW v, Sound(v, w), NEW continue \in BOOLEAN,
         NEW ok \in BOOLEAN, NEW room \in BOOLEAN
  PROVE  /\ Sound(StartNextObservation(v, continue, ok, room), w)
         /\ Same(v, StartNextObservation(v, continue, ok, room))
<1> DEFINE due == {i \in DOMAIN v.queue :
                     \/ v.queue[i].state = "accepted"
                     \/ continue /\ v.queue[i].state = "terminal" /\ v.queue[i].reobserve}
           k == v.queue[Min(due)].key
           u == StartNextObservation(v, continue, ok, room)
<1>1. v \in View
  BY DEF Sound
<1>2. u = v \/ (due # {} /\ (u = Reobserve(v, k) \/ u = StartObservation(v, k, ok, room)))
  BY DEF StartNextObservation
<1>3. due \in SUBSET Nat
  BY <1>1, ViewFacts
<1> HIDE DEF u
<1>4. ASSUME due # {} PROVE k \in Keys(v.queue)
  <2>1. Min(due) \in due
    <3> HIDE DEF due
    <3> QED
      BY <1>3, <1>4, FirstPlace
  <2>2. Min(due) \in DOMAIN v.queue
    BY <2>1
  <2> QED
    BY <1>1, <2>2, PlaceKey
<1> HIDE DEF due, k
<1>5. CASE u = v
  BY <1>5 DEF Same, u
<1>6. CASE due # {} /\ u = Reobserve(v, k)
  BY <1>4, <1>6, ReobserveSound DEF u
<1>7. CASE due # {} /\ u = StartObservation(v, k, ok, room)
  BY <1>4, <1>7, StartObservationSound DEF u
<1> QED
  BY <1>2, <1>5, <1>6, <1>7

\* Several entries changed at once, nothing else.
LEMMA ManyChanged ==
  ASSUME NEW w \in World, NEW v, Sound(v, w), NEW q,
         q = [i \in DOMAIN v.queue |-> q[i]],
         \A i \in DOMAIN v.queue :
           /\ q[i] \in Entry /\ q[i].key = v.queue[i].key
           /\ Fits(q[i], w)
           /\ q[i].state = "posting" <=> v.queue[i].state = "posting"
           /\ v.queue[i].run => q[i].run
  PROVE  Sound([v EXCEPT !.queue = q], w) /\ Same(v, [v EXCEPT !.queue = q])
<1> DEFINE u == [v EXCEPT !.queue = q]
<1>1. v \in View /\ v.queue \in Seq(Entry)
  BY ViewFacts DEF Sound
<1>2. q \in Seq(Entry) /\ DOMAIN q = DOMAIN v.queue /\ Len(q) = Len(v.queue)
  <2>1. DOMAIN v.queue = 1 .. Len(v.queue) /\ Len(v.queue) \in Nat
    BY <1>1
  <2>2. q \in [1 .. Len(v.queue) -> Entry]
    BY <2>1
  <2> QED
    BY <2>1, <2>2
<1>3. /\ u \in View /\ u.queue = q /\ u.draft = v.draft /\ u.post = v.post
      /\ u.stream = v.stream
  BY <1>1, <1>2 DEF View
<1> HIDE DEF u
<1>4. Same(v, u)
  BY <1>2, <1>3 DEF Same
<1>5. \A i \in DOMAIN v.queue :
        /\ Fits(u.queue[i], w)
        /\ u.queue[i].state = "posting" <=> u.queue[i].key = u.post
        /\ v.queue[i].run => u.queue[i].run
  BY <1>3 DEF Sound, Resident
<1>6. Sound(u, w)
  BY <1>3, <1>4, <1>5, Moved
<1> QED
  BY <1>4, <1>6 DEF u

\* reconcile-when-settled: terminal entries whose end is verified are claimed.
LEMMA ReconcileWhenSettledSound ==
  ASSUME NEW w \in World, NEW v, Sound(v, w), NEW ok \in BOOLEAN
  PROVE  /\ Sound(ReconcileWhenSettled(v, ok), w)
         /\ Same(v, ReconcileWhenSettled(v, ok))
<1> DEFINE q == v.queue
           terminal == {i \in DOMAIN q : q[i].state = "terminal"}
           unverified == {i \in terminal : ~q[i].verified}
           k == q[Min(unverified)].key
           claim == [i \in terminal |-> [q[i] EXCEPT !.state = "reconciling"]]
           fail == [i \in terminal |-> [q[i] EXCEPT !.reobserve = TRUE, !.verified = FALSE]]
           qc == [i \in DOMAIN q |-> IF i \in terminal THEN claim[i] ELSE q[i]]
           qf == [i \in DOMAIN q |-> IF i \in terminal THEN fail[i] ELSE q[i]]
           claimed == [v EXCEPT !.queue = qc]
           failed == [v EXCEPT !.queue = qf]
           uc == [Save(claimed) EXCEPT !.recon = [on |-> TRUE, fresh |-> TRUE,
                                                  keys |-> {q[i].key : i \in terminal}]]
           uf == [failed EXCEPT !.active = FALSE]
           u == ReconcileWhenSettled(v, ok)
<1>1. v \in View /\ \A i \in DOMAIN q : q[i] \in Entry /\ q[i].key \in Messages /\ Fits(q[i], w)
  BY ViewFacts DEF Sound, Resident
<1>2. \/ u = v
      \/ unverified # {} /\ u = Reobserve(v, k)
      \/ unverified = {} /\ u = uc
      \/ u = uf
  BY DEF ReconcileWhenSettled
<1> HIDE DEF u
<1>3. CASE unverified # {} /\ u = Reobserve(v, k)
  <2>1. unverified \in SUBSET Nat
    BY <1>1, ViewFacts
  <2>2. Min(unverified) \in unverified
    <3> HIDE DEF unverified
    <3> QED
      BY <1>3, <2>1, FirstPlace
  <2>3. Min(unverified) \in DOMAIN v.queue
    BY <2>2
  <2>4. k \in Keys(v.queue)
    BY <1>1, <2>3, PlaceKey
  <2> HIDE DEF k
  <2> QED
    BY <1>3, <2>4, ReobserveSound DEF u
<1>4. CASE unverified = {} /\ u = uc
  <2>1. ASSUME NEW i \in DOMAIN v.queue
        PROVE  /\ qc[i] \in Entry /\ qc[i].key = v.queue[i].key
               /\ Fits(qc[i], w)
               /\ qc[i].state = "posting" <=> v.queue[i].state = "posting"
               /\ v.queue[i].run => qc[i].run
    <3>1. CASE i \in terminal
      <4> DEFINE e == q[i]
                 f == [e EXCEPT !.state = "reconciling"]
      <4>1. qc[i] = f /\ e.state = "terminal" /\ e.verified
        BY <1>4, <3>1
      <4>2. e \in Entry /\ Fits(e, w)
        BY <1>1
      <4> HIDE DEF e, qc
      <4>3. f \in Entry /\ f.key = e.key /\ f.run = e.run /\ f.state = "reconciling"
        BY <4>2 DEF Entry, EntryStates
      <4>4. Fits(f, w)
        BY <4>1, <4>2 DEF Entry, Fits, Honest, Known, Postable
      <4> QED
        BY <4>1, <4>3, <4>4 DEF e
    <3>2. CASE i \notin terminal
      <4>1. qc[i] = v.queue[i]
        BY <3>2
      <4> HIDE DEF qc
      <4> QED
        BY <1>1, <4>1
    <3> QED
      BY <3>1, <3>2
  <2>2. qc = [i \in DOMAIN v.queue |-> qc[i]]
    OBVIOUS
  <2> DEFINE keys == {q[i].key : i \in terminal}
  <2>3. keys \in SUBSET Messages
    BY <1>1
  <2> HIDE DEF qc, keys
  <2>4. Sound(claimed, w) /\ Same(v, claimed)
    BY <2>1, <2>2, ManyChanged
  <2> HIDE DEF claimed
  <2>5. Sound(Save(claimed), w) /\ Same(claimed, Save(claimed))
    BY <2>4, SaveSound
  <2> DEFINE s == Save(claimed)
             x == [s EXCEPT !.recon = [on |-> TRUE, fresh |-> TRUE, keys |-> keys]]
  <2>6. s \in View
    BY <2>5 DEF Sound
  <2> HIDE DEF s
  <2>7. /\ x \in View /\ x.queue = s.queue /\ x.draft = s.draft /\ x.post = s.post
        /\ x.stream = s.stream
    BY <2>3, <2>6 DEF View
  <2> HIDE DEF x
  <2>8. Sound(x, w) /\ Same(s, x)
    BY <2>5, <2>7, Aside DEF s
  <2>9. u = x
    BY <1>4 DEF x, s, keys
  <2> QED
    BY <2>4, <2>5, <2>8, <2>9 DEF Same, s, u
<1>5. CASE u = uf
  <2>1. ASSUME NEW i \in DOMAIN v.queue
        PROVE  /\ qf[i] \in Entry /\ qf[i].key = v.queue[i].key
               /\ Fits(qf[i], w)
               /\ qf[i].state = "posting" <=> v.queue[i].state = "posting"
               /\ v.queue[i].run => qf[i].run
    <3>1. CASE i \in terminal
      <4> DEFINE e == q[i]
                 f == [e EXCEPT !.reobserve = TRUE, !.verified = FALSE]
      <4>1. qf[i] = f
        BY <3>1
      <4>2. e \in Entry /\ Fits(e, w)
        BY <1>1
      <4> HIDE DEF e, qf
      <4>3. f \in Entry /\ f.key = e.key /\ f.run = e.run /\ f.state = e.state /\ Fits(f, w)
        BY <4>2 DEF Entry, Fits, Honest
      <4> QED
        BY <4>1, <4>3 DEF e
    <3>2. CASE i \notin terminal
      <4>1. qf[i] = v.queue[i]
        BY <3>2
      <4> HIDE DEF qf
      <4> QED
        BY <1>1, <4>1
    <3> QED
      BY <3>1, <3>2
  <2>2. qf = [i \in DOMAIN v.queue |-> qf[i]]
    OBVIOUS
  <2> HIDE DEF qf
  <2>3. Sound(failed, w) /\ Same(v, failed)
    BY <2>1, <2>2, ManyChanged
  <2>4. failed \in View
    BY <2>3 DEF Sound
  <2> HIDE DEF failed
  <2>5. /\ uf \in View /\ uf.queue = failed.queue /\ uf.draft = failed.draft
        /\ uf.post = failed.post /\ uf.stream = failed.stream
    BY <2>4 DEF View
  <2> HIDE DEF uf
  <2>6. Sound(uf, w) /\ Same(failed, uf)
    BY <2>3, <2>5, Aside
  <2> QED
    BY <1>5, <2>3, <2>6 DEF Same, u
<1>6. CASE u = v
  BY <1>6 DEF Same, u
<1> QED
  BY <1>2, <1>3, <1>4, <1>5, <1>6

\* manual-recovery-rearm.
LEMMA RearmSound ==
  ASSUME NEW w \in World, NEW v, Sound(v, w), NEW k \in Keys(v.queue), NEW ok \in BOOLEAN
  PROVE  Sound(Rearm(v, k, ok), w) /\ Same(v, Rearm(v, k, ok))
<1> DEFINE e == At(v, k)
           f == [e EXCEPT !.reobserve = TRUE, !.verified = FALSE]
           again == [Put(v, f) EXCEPT !.active = FALSE]
           u == [again EXCEPT !.paused = TRUE]
<1>1. /\ v \in View /\ e \in Entry /\ e.key = k /\ Fits(e, w)
      /\ e.state = "posting" <=> k = v.post
  BY AtSound
<1> HIDE DEF e
<1>2. /\ f \in Entry /\ f.key = k /\ f.state = e.state /\ f.run = e.run /\ Fits(f, w)
  BY <1>1 DEF Entry, Fits, Honest
<1> HIDE DEF f
<1>3. /\ Put(v, f) \in View /\ Put(v, f).draft = v.draft
      /\ Put(v, f).post = v.post /\ Put(v, f).stream = v.stream
  BY <1>1, <1>2, PutFacts
<1>4. /\ again \in View /\ again.queue = Put(v, f).queue /\ again.draft = v.draft
      /\ again.post = v.post /\ again.stream = v.stream
  BY <1>3 DEF View
<1> HIDE DEF again
<1>5. Sound(again, w) /\ Same(v, again)
  BY <1>1, <1>2, <1>4, Changed DEF e
<1>6. CASE ok
  <2>1. Sound(Save(again), w) /\ Same(again, Save(again))
    BY <1>5, SaveSound
  <2> QED
    BY <1>5, <1>6, <2>1 DEF Rearm, e, f, again, Same
<1>7. CASE ~ok
  <2>1. /\ u \in View /\ u.queue = again.queue /\ u.draft = again.draft
        /\ u.post = again.post /\ u.stream = again.stream
    BY <1>4 DEF View
  <2> HIDE DEF u
  <2>2. Sound(u, w) /\ Same(again, u)
    BY <1>5, <2>1, Aside
  <2>3. Rearm(v, k, ok) = u
    BY <1>7 DEF Rearm, e, f, again, u
  <2> QED
    BY <1>5, <2>2, <2>3 DEF Same
<1> QED
  BY <1>6, <1>7

\* A handler that saves, or pauses the view when it cannot.
LEMMA SaveOrPause ==
  ASSUME NEW w \in World, NEW v, Sound(v, w), NEW ok \in BOOLEAN,
         NEW u, u = IF ok THEN Save(v) ELSE [v EXCEPT !.paused = TRUE]
  PROVE  Sound(u, w) /\ Same(v, u)
<1>1. CASE ok
  BY <1>1, SaveSound
<1>2. CASE ~ok
  <2>1. v \in View
    BY DEF Sound
  <2>2. /\ u \in View /\ u.queue = v.queue /\ u.draft = v.draft
        /\ u.post = v.post /\ u.stream = v.stream
    BY <1>2, <2>1 DEF View
  <2> QED
    BY <2>2, Aside
<1> QED
  BY <1>1, <1>2

\* The end of an observer.
LEMMA InterruptSound ==
  ASSUME NEW w \in World, NEW v, Sound(v, w), NEW k \in Keys(v.queue), NEW ok \in BOOLEAN
  PROVE  Sound(Interrupt(v, k, ok), w) /\ Same(v, Interrupt(v, k, ok))
<1> DEFINE e == At(v, k)
           f == [e EXCEPT !.state = "accepted", !.reobserve = TRUE,
                          !.end = "disconnect", !.checked = FALSE]
           ended == [Put(v, f) EXCEPT !.stream = None, !.join = None]
           u == Interrupt(v, k, ok)
<1>1. /\ v \in View /\ e \in Entry /\ e.key = k /\ Fits(e, w)
      /\ e.state = "posting" <=> k = v.post
  BY AtSound
<1>2. u = IF e.state # "observing" THEN v
          ELSE IF v.active THEN Rearm(ended, k, ok)
          ELSE IF ok THEN Save(ended) ELSE [ended EXCEPT !.paused = TRUE]
  BY DEF Interrupt
<1> HIDE DEF e, u
<1>3. CASE e.state # "observing"
  BY <1>2, <1>3 DEF Same, u
<1>4. CASE e.state = "observing"
  <2>1. /\ f \in Entry /\ f.key = k /\ f.state = "accepted" /\ f.run /\ Fits(f, w)
    BY <1>1, <1>4 DEF Entry, EntryStates, Ends, Fits, Honest, Known, Postable
  <2> HIDE DEF f
  <2>2. /\ Put(v, f) \in View /\ Put(v, f).draft = v.draft
        /\ Put(v, f).post = v.post /\ Put(v, f).stream = v.stream
    BY <1>1, <2>1, PutFacts
  <2>3. /\ ended \in View /\ ended.queue = Put(v, f).queue /\ ended.draft = v.draft
        /\ ended.post = v.post /\ ended.stream = None
    BY <2>2 DEF View
  <2> HIDE DEF ended
  <2>4. Sound(ended, w) /\ Same(v, ended)
    BY <1>1, <1>4, <2>1, <2>3, Changed DEF e
  <2>5. k \in Keys(ended.queue)
    BY <1>1, <2>3, <2>4, SameKeys
  <2>6. Sound(Rearm(ended, k, ok), w) /\ Same(ended, Rearm(ended, k, ok))
    BY <2>4, <2>5, RearmSound
  <2> DEFINE x == IF ok THEN Save(ended) ELSE [ended EXCEPT !.paused = TRUE]
  <2>7. Sound(x, w) /\ Same(ended, x)
    BY <2>4, SaveOrPause
  <2>8. u = Rearm(ended, k, ok) \/ u = x
    BY <1>2, <1>4
  <2> HIDE DEF x
  <2> QED
    BY <2>4, <2>6, <2>7, <2>8 DEF Same, u
<1> QED
  BY <1>3, <1>4

\* The claims of a reconciliation that came to nothing.
LEMMA RestoreReconciliationSound ==
  ASSUME NEW w \in World, NEW v, Sound(v, w), NEW keys, NEW ok \in BOOLEAN
  PROVE  /\ Sound(RestoreReconciliation(v, keys, ok), w)
         /\ Same(v, RestoreReconciliation(v, keys, ok))
<1> DEFINE q == [i \in DOMAIN v.queue |->
                   IF v.queue[i].key \in keys /\ v.queue[i].state = "reconciling"
                   THEN [v.queue[i] EXCEPT !.state = "terminal", !.reobserve = TRUE,
                                           !.verified = FALSE]
                   ELSE v.queue[i]]
           back == [v EXCEPT !.queue = q]
           x == [Save(back) EXCEPT !.required = TRUE, !.active = FALSE]
           y == [back EXCEPT !.paused = TRUE]
           u == RestoreReconciliation(v, keys, ok)
<1>1. v \in View /\ \A i \in DOMAIN v.queue : v.queue[i] \in Entry /\ Fits(v.queue[i], w)
  BY ViewFacts DEF Sound, Resident
<1>2. u = v \/ u = x \/ u = y
  BY DEF RestoreReconciliation
<1> HIDE DEF u
<1>3. ASSUME NEW i \in DOMAIN v.queue
      PROVE  /\ q[i] \in Entry /\ q[i].key = v.queue[i].key
             /\ Fits(q[i], w)
             /\ q[i].state = "posting" <=> v.queue[i].state = "posting"
             /\ v.queue[i].run => q[i].run
  <2> DEFINE e == v.queue[i]
             f == [e EXCEPT !.state = "terminal", !.reobserve = TRUE, !.verified = FALSE]
  <2>1. e \in Entry /\ Fits(e, w)
    BY <1>1
  <2>2. q[i] = e \/ (q[i] = f /\ e.state = "reconciling")
    OBVIOUS
  <2> HIDE DEF e, q
  <2>3. e.state = "reconciling" =>
          /\ f \in Entry /\ f.key = e.key /\ f.run = e.run /\ f.state = "terminal"
          /\ Fits(f, w)
    BY <2>1 DEF Entry, EntryStates, Fits, Honest, Known, Postable
  <2> QED
    BY <2>1, <2>2, <2>3 DEF e
<1>4. q = [i \in DOMAIN v.queue |-> q[i]]
  OBVIOUS
<1> HIDE DEF q
<1>5. Sound(back, w) /\ Same(v, back)
  BY <1>3, <1>4, ManyChanged
<1> HIDE DEF back
<1>6. Sound(Save(back), w) /\ Same(back, Save(back))
  BY <1>5, SaveSound
<1>7. back \in View /\ Save(back) \in View
  BY <1>5, <1>6 DEF Sound
<1> DEFINE s == Save(back)
<1> HIDE DEF s
<1>8. /\ x \in View /\ x.queue = s.queue /\ x.draft = s.draft
      /\ x.post = s.post /\ x.stream = s.stream
  BY <1>7 DEF View, s
<1>9. Sound(x, w) /\ Same(s, x)
  BY <1>6, <1>8, Aside DEF s
<1>10. /\ y \in View /\ y.queue = back.queue /\ y.draft = back.draft
       /\ y.post = back.post /\ y.stream = back.stream
  BY <1>7 DEF View
<1>11. Sound(y, w) /\ Same(back, y)
  BY <1>5, <1>10, Aside
<1> HIDE DEF x, y
<1> QED
  BY <1>2, <1>5, <1>6, <1>9, <1>11 DEF Same, s, u

-----------------------------------------------------------------------------
(* Steps of the world, and what a step of the view leaves.                 *)

\* The world is a world.
LEMMA WorldFacts ==
  ASSUME Types
  PROVE  /\ world \in World
         /\ world.next = next /\ world.run = run
         /\ world.late = late /\ world.learned = learned
BY QueueAssumption DEF Types, world, World

\* The server's progress and new abandoned or learnt messages keep a view sound,
\* when its entries and its cache are honest about them.
LEMMA WorldMoves ==
  ASSUME NEW w \in World, NEW v, Sound(v, w), NEW z \in World, z.next = w.next,
         \A m \in Messages : /\ w.run[m] \in Done => z.run[m] = w.run[m]
                             /\ w.run[m] \in Accepted => z.run[m] \in Accepted,
         \A i \in DOMAIN v.queue : Honest(v.queue[i], z) /\ Honest(v.draft[i], z)
  PROVE  Sound(v, z)
<1>1. v \in View
  BY DEF Sound
<1>2. Resident(v, z)
  <2> SUFFICES ASSUME NEW i \in DOMAIN v.queue
               PROVE  /\ v.queue[i].key < z.next
                      /\ Fits(v.queue[i], z)
                      /\ v.queue[i].state = "posting" <=> v.queue[i].key = v.post
                      /\ v.queue[i].key = v.stream => v.queue[i].run
    BY DEF Resident
  <2>1. v.queue[i].key \in Messages
    BY <1>1, ViewFacts
  <2>2. /\ v.queue[i].key < w.next
        /\ Fits(v.queue[i], w)
        /\ v.queue[i].state = "posting" <=> v.queue[i].key = v.post
        /\ v.queue[i].key = v.stream => v.queue[i].run
    BY DEF Sound, Resident
  <2>3. Fits(v.queue[i], z)
    BY <2>1, <2>2 DEF Fits, Done
  <2> QED
    BY <2>2, <2>3
<1>3. Saved(v, z)
  BY DEF Sound, Parallel, Saved
<1>4. Posting(v, z) /\ Gone(v, z)
  BY DEF Sound, Posting, Gone, Fenced
<1> QED
  BY <1>2, <1>3, <1>4 DEF Sound

\* The keys in the cache are those of the queue.
LEMMA DraftKeys ==
  ASSUME NEW v \in View, Parallel(v)
  PROVE  {v.draft[i].key : i \in DOMAIN v.draft} = Keys(v.queue)
<1>1. Keys(v.queue) = {v.queue[i].key : i \in DOMAIN v.queue}
  BY KeysFacts
<1> QED
  BY <1>1 DEF Parallel

\* What is retired is what has been sent and is not in the queue.
LEMMA RetiredFacts ==
  ASSUME NEW w, Sound(view, w)
  PROVE  Retired = Sent \ Keys(view.queue)
BY DraftKeys DEF Retired, Sound

\* A step of the view alone that keeps it sound keeps everything.
LEMMA ViewStep ==
  ASSUME IInv, Sound(view', world), Same(view, view'),
         UNCHANGED <<next, run, late, history>>, faults' \in 0 .. MaxFaults
  PROVE  IInv' /\ Retired' = Retired
<1>1. world' = world
  BY DEF world, history
<1>2. view \in View /\ view' \in View /\ Parallel(view) /\ Parallel(view')
  BY DEF IInv, Sound
<1>3. Keys(view'.queue) = Keys(view.queue)
  BY <1>2, SameKeys
<1>4. Retired' = Retired
  BY <1>2, <1>3, DraftKeys DEF Retired, Sent
<1>5. Types' /\ Unsent' /\ History' /\ RetiredIsShown'
  BY <1>4 DEF IInv, Types, Unsent, History, RetiredIsShown, history
<1>6. LateFenced'
  BY <1>1 DEF IInv, LateFenced
<1> QED
  BY <1>1, <1>4, <1>5, <1>6 DEF IInv

\* An entry just put is the one found.
LEMMA AtPut ==
  ASSUME NEW v \in View, NEW k \in Keys(v.queue), NEW f \in Entry, f.key = k
  PROVE  /\ Put(v, f) \in View /\ k \in Keys(Put(v, f).queue)
         /\ At(Put(v, f), k) = f
<1> DEFINE u == Put(v, f)
<1>1. /\ u \in View /\ DOMAIN u.queue = DOMAIN v.queue
      /\ \A i \in DOMAIN v.queue : u.queue[i] = IF v.queue[i].key = k THEN f ELSE v.queue[i]
  BY PutFacts
<1> HIDE DEF u
<1>2. PICK i \in DOMAIN v.queue : v.queue[i].key = k
  BY KeysFacts
<1>3. u.queue[i].key = k
  BY <1>1, <1>2
<1>4. k \in Keys(u.queue)
  BY <1>1, <1>3, KeysFacts
<1>5. PICK j \in DOMAIN u.queue : u.queue[j] = At(u, k) /\ u.queue[j].key = k
  BY <1>1, <1>4, AtFacts
<1> QED
  BY <1>1, <1>4, <1>5 DEF u

\* The outcome of a handler's writes.
LEMMA WritesFacts ==
  ASSUME Types, NEW all \in BOOLEAN, Writes(all)
  PROVE  faults' \in 0 .. MaxFaults
BY QueueAssumption DEF Types, Writes

\* The head of a queue has no one before it.
LEMMA HeadFacts ==
  ASSUME NEW w \in World, NEW v, Sound(v, w), v.queue # <<>>
  PROVE  Head(v.queue).key \in Keys(v.queue) /\ Fenced(Head(v.queue).key, w)
<1>1. v \in View
  BY DEF Sound
<1>2. 1 \in DOMAIN v.queue /\ Head(v.queue) = v.queue[1]
  BY <1>1, ViewFacts
<1>3. \A j \in 1 .. 1 - 1 : Settled(v.queue[j])
  OBVIOUS
<1>4. Fenced(v.queue[1].key, w)
  BY <1>2, <1>3, Unblocked
<1> QED
  BY <1>1, <1>2, <1>4, PlaceKey

\* The message being POSTed is cached as being POSTed.
LEMMA PostFacts ==
  ASSUME NEW w \in World, NEW v, Sound(v, w), v.post # None
  PROVE  /\ v.post \in Keys(v.queue) /\ At(v, v.post).state = "posting"
         /\ Fenced(v.post, w)
         /\ \A i \in DOMAIN v.draft : v.draft[i].key = v.post => v.draft[i].state = "posting"
<1>1. v \in View
  BY DEF Sound
<1>2. PICK j \in DOMAIN v.queue : v.queue[j].key = v.post /\ v.draft[j].state = "posting"
  BY DEF Sound, Posting
<1>3. v.post \in Keys(v.queue)
  BY <1>1, <1>2, PlaceKey
<1>4. At(v, v.post).state = "posting"
  BY <1>3, AtSound
<1>5. ASSUME NEW i \in DOMAIN v.draft, v.draft[i].key = v.post
      PROVE  v.draft[i].state = "posting"
  <2>1. i \in DOMAIN v.queue /\ v.queue[i].key = v.post
    BY <1>5 DEF Sound, Parallel
  <2>2. ~(i < j) /\ ~(j < i)
    BY <1>1, <1>2, <2>1, ViewFacts DEF Sound, Sorted, Messages
  <2>3. i = j
    BY <1>1, <2>1, <2>2, ViewFacts
  <2> QED
    BY <1>2, <2>3
<1> QED
  BY <1>3, <1>4, <1>5 DEF Sound, Posting

-----------------------------------------------------------------------------
(* The handlers that change the view alone.                                *)

\* What every one of them starts from.
LEMMA Start ==
  ASSUME IInv
  PROVE  world \in World /\ Sound(view, world) /\ view \in View /\ Types
BY WorldFacts DEF IInv, Sound

\* The head has a state only when there is one.
LEMMA HeadState0 ==
  ASSUME IInv, NEW s \in EntryStates, HeadState(view) = s
  PROVE  /\ view.queue # <<>> /\ Head(view.queue).state = s
         /\ Head(view.queue).key \in Keys(view.queue)
         /\ Fenced(Head(view.queue).key, world)
<1>1. view.queue # <<>> /\ Head(view.queue).state = s
  BY DEF HeadState, EntryStates, Postable
<1> QED
  BY <1>1, Start, HeadFacts

\* The head is POSTed again.
LEMMA SendAgainSound ==
  ASSUME IInv, SendAgain
  PROVE  Sound(view', world) /\ Same(view, view')
<1> DEFINE k == Head(view.queue).key
<1>1. k \in Keys(view.queue) /\ Fenced(k, world)
  BY HeadState0 DEF SendAgain, EntryStates, Postable
<1>2. PICK ok \in BOOLEAN : view' = StartPost(view, k, ok)
  BY DEF SendAgain
<1> HIDE DEF k
<1>3. Sound(StartPost(view, k, ok), world) /\ Same(view, StartPost(view, k, ok))
  BY <1>1, Start, StartPostSound
<1> QED
  BY <1>2, <1>3

\* A first place with a property has a key of the queue.
LEMMA FirstKey ==
  ASSUME NEW v \in View, NEW due \in SUBSET DOMAIN v.queue, due # {}
  PROVE  Min(due) \in due /\ v.queue[Min(due)].key \in Keys(v.queue)
<1>1. due \in SUBSET Nat
  BY ViewFacts
<1>2. Min(due) \in due
  BY <1>1, FirstPlace
<1> QED
  BY <1>2, PlaceKey

\* Refresh starts a recovery pass.
LEMMA RefreshRecoverySound ==
  ASSUME IInv, RefreshRecovery
  PROVE  Sound(view', world) /\ Same(view, view')
<1> DEFINE pass == [view EXCEPT !.active = TRUE]
           due == {i \in DOMAIN view.queue : /\ view.queue[i].state \in {"accepted", "terminal"}
                                             /\ view.queue[i].reobserve}
           k == view.queue[Min(due)].key
<1>1. PICK ok \in BOOLEAN : view' = IF due # {} THEN Reobserve(pass, k)
                                    ELSE ReconcileWhenSettled(pass, ok)
  BY DEF RefreshRecovery
<1>2. /\ pass \in View /\ pass.queue = view.queue /\ pass.draft = view.draft
      /\ pass.post = view.post /\ pass.stream = view.stream
  BY Start DEF View
<1> HIDE DEF pass
<1>3. Sound(pass, world) /\ Same(view, pass)
  BY <1>2, Start, Aside
<1>4. due # {} => k \in Keys(pass.queue)
  <2>1. due \in SUBSET DOMAIN view.queue
    OBVIOUS
  <2> HIDE DEF due
  <2> QED
    BY <1>2, <2>1, Start, FirstKey
<1> HIDE DEF due, k
<1>5. due # {} => Sound(Reobserve(pass, k), world) /\ Same(pass, Reobserve(pass, k))
  BY <1>3, <1>4, Start, ReobserveSound
<1>6. Sound(ReconcileWhenSettled(pass, ok), world) /\ Same(pass, ReconcileWhenSettled(pass, ok))
  BY <1>3, Start, ReconcileWhenSettledSound
<1> QED
  BY <1>1, <1>3, <1>5, <1>6, SameTwice

\* Refresh ends the observer and reads its Run.
LEMMA RefreshObserverSound ==
  ASSUME IInv, RefreshObserver
  PROVE  Sound(view', world) /\ Same(view, view')
<1> DEFINE k == view.stream
<1>1. k \in Keys(view.queue)
  BY DEF RefreshObserver, Observing
<1>2. PICK ok \in BOOLEAN :
        view' = IF Interrupt(view, k, ok).stream = None
                THEN Reobserve(Interrupt(view, k, ok), k) ELSE view
  BY DEF RefreshObserver
<1> DEFINE v == Interrupt(view, k, ok)
<1> HIDE DEF k
<1>3. Sound(v, world) /\ Same(view, v)
  BY <1>1, Start, InterruptSound
<1> HIDE DEF v
<1>4. k \in Keys(v.queue)
  BY <1>1, <1>3, Start, SameKeys DEF Sound
<1>5. Sound(Reobserve(v, k), world) /\ Same(v, Reobserve(v, k))
  BY <1>3, <1>4, Start, ReobserveSound
<1>6. view' = Reobserve(v, k) \/ view' = view
  BY <1>2 DEF v
<1>7. Same(view, view)
  BY DEF Same
<1> QED
  BY <1>3, <1>5, <1>6, <1>7, Start, SameTwice

\* Refresh takes the head, or what waits behind settled entries, further.
LEMMA RefreshHeadSound ==
  ASSUME IInv, RefreshHead
  PROVE  Sound(view', world) /\ Same(view, view')
<1> DEFINE ready == NextRefreshable(view)
           e == view.queue[Min(ready)]
           k == Head(view.queue).key
<1>1. PICK ok \in BOOLEAN, room \in BOOLEAN :
        view' = CASE HeadState(view) \in {"unknown", "retryable"} -> StartPost(view, k, ok)
                  [] HeadState(view) = "accepted" -> Reobserve(view, k)
                  [] HeadState(view) = "terminal" /\ ready = {} ->
                       ReconcileWhenSettled(view, ok)
                  [] HeadState(view) = "terminal" /\ ready # {} ->
                       IF e.reobserve \/ e.end # "none" \/ e.approval
                       THEN Reobserve(view, e.key)
                       ELSE StartObservation(view, e.key, ok, room)
                  [] OTHER -> view
  BY DEF RefreshHead
<1>2. HeadState(view) \in {"unknown", "retryable", "accepted"} =>
        k \in Keys(view.queue) /\ Fenced(k, world)
  BY HeadState0 DEF EntryStates, Postable
<1>3. ready # {} => e.key \in Keys(view.queue)
  <2>1. ready \in SUBSET DOMAIN view.queue
    BY DEF NextRefreshable
  <2> HIDE DEF ready
  <2> QED
    BY <2>1, Start, FirstKey
<1> HIDE DEF ready, e, k
<1>4. CASE HeadState(view) \in {"unknown", "retryable"}
  BY <1>1, <1>2, <1>4, Start, StartPostSound
<1>5. CASE HeadState(view) = "accepted"
  BY <1>1, <1>2, <1>5, Start, ReobserveSound
<1>6. CASE HeadState(view) = "terminal" /\ ready = {}
  BY <1>1, <1>6, Start, ReconcileWhenSettledSound
<1>7. CASE HeadState(view) = "terminal" /\ ready # {}
  <2>1. view' = Reobserve(view, e.key) \/ view' = StartObservation(view, e.key, ok, room)
    BY <1>1, <1>7
  <2> QED
    BY <1>3, <1>7, <2>1, Start, ReobserveSound, StartObservationSound
<1>8. CASE HeadState(view) \notin {"unknown", "retryable", "accepted", "terminal"}
  BY <1>1, <1>8, Start DEF Same
<1> QED
  BY <1>4, <1>5, <1>6, <1>7, <1>8

\* An observer ends.
LEMMA ObserverEndsSound ==
  ASSUME IInv, ObserverEnds
  PROVE  Sound(view', world) /\ Same(view, view')
BY Start, InterruptSound DEF ObserverEnds, Observing

\* A handler that saves, or goes on without.
LEMMA SaveOrNot ==
  ASSUME NEW w \in World, NEW v, Sound(v, w), NEW ok \in BOOLEAN
  PROVE  /\ Sound(IF ok THEN Save(v) ELSE v, w)
         /\ Same(v, IF ok THEN Save(v) ELSE v)
<1>1. Same(v, v)
  BY DEF Same
<1> QED
  BY <1>1, SaveSound

\* The user aborts the observed Run.
LEMMA AbortRunSound ==
  ASSUME IInv, AbortRun
  PROVE  Sound(view', world) /\ Same(view, view')
<1> DEFINE k == view.stream
           e == At(view, k)
<1>1. k \in Keys(view.queue)
  BY DEF AbortRun, Observing
<1>2. PICK ok \in BOOLEAN :
        LET f == [e EXCEPT !.state = "accepted", !.get = "none",
                           !.del = IF ok THEN "sent" ELSE "none"]
            v == [Put(view, f) EXCEPT !.stream = None,
                                      !.join = IF @ = view.stream THEN None ELSE @]
        IN  view' = IF ok THEN Save(v) ELSE v
  BY DEF AbortRun
<1> DEFINE f == [e EXCEPT !.state = "accepted", !.get = "none",
                          !.del = IF ok THEN "sent" ELSE "none"]
           v == [Put(view, f) EXCEPT !.stream = None,
                                     !.join = IF @ = view.stream THEN None ELSE @]
<1>3. view' = IF ok THEN Save(v) ELSE v
  BY <1>2
<1>4. /\ e \in Entry /\ e.key = k /\ Fits(e, world) /\ e.run
      /\ e.state = "posting" <=> k = view.post
  BY <1>1, Start, AtSound
<1> HIDE DEF e
<1>5. f \in Entry /\ f.key = k /\ f.run /\ f.state = "accepted" /\ Fits(f, world)
  BY <1>4 DEF Entry, EntryStates, Fits, Honest, Known, Postable
<1> HIDE DEF f
<1>6. /\ Put(view, f) \in View /\ Put(view, f).draft = view.draft
      /\ Put(view, f).post = view.post
  BY <1>5, Start, PutFacts
<1>7. /\ v \in View /\ v.queue = Put(view, f).queue /\ v.draft = view.draft
      /\ v.post = view.post /\ v.stream = None
  BY <1>6 DEF View
<1>8. k # view.post
  BY <1>4 DEF Fits, Honest, Known
<1> HIDE DEF v, k
<1>9. Sound(v, world) /\ Same(view, v)
  BY <1>1, <1>4, <1>5, <1>7, <1>8, Start, Changed DEF e
<1>10. Sound(view', world) /\ Same(v, view')
  BY <1>3, <1>9, Start, SaveOrNot
<1> QED
  BY <1>9, <1>10, SameTwice

\* The entry of the message being POSTed takes another state; it has no Run.
LEMMA PostEnds ==
  ASSUME NEW w \in World, NEW v, Sound(v, w), v.post # None,
         NEW s \in {"unknown", "retryable", "rejected"},
         s = "rejected" => w.run[v.post] = "refused"
  PROVE  LET u == [Put(v, [At(v, v.post) EXCEPT !.state = s]) EXCEPT !.post = None]
         IN  /\ Sound(u, w) /\ Same(v, u) /\ u.draft = v.draft
             /\ \A i \in DOMAIN v.queue : v.queue[i].key = v.post => u.queue[i].state = s
<1> DEFINE k == v.post
           e == At(v, k)
           f == [e EXCEPT !.state = s]
           u == [Put(v, f) EXCEPT !.post = None]
<1>1. k \in Keys(v.queue) /\ e.state = "posting"
  BY PostFacts
<1>2. v \in View /\ e \in Entry /\ e.key = k /\ Fits(e, w)
  BY <1>1, AtSound
<1> HIDE DEF e
<1>3. f \in Entry /\ f.key = k /\ f.run = e.run /\ f.state = s /\ Fits(f, w)
  BY <1>1, <1>2 DEF Entry, EntryStates, Fits, Honest, Known, Postable
<1> HIDE DEF f
<1>4. /\ Put(v, f) \in View /\ Put(v, f).draft = v.draft /\ Put(v, f).stream = v.stream
      /\ \A i \in DOMAIN v.queue : v.queue[i].key = k => Put(v, f).queue[i] = f
  BY <1>2, <1>3, PutFacts
<1>5. /\ u \in View /\ u.queue = Put(v, f).queue /\ u.draft = v.draft
      /\ u.post = None /\ u.stream = v.stream
  BY <1>4 DEF View
<1> HIDE DEF u
<1>6. s # "posting" /\ k # None
  OBVIOUS
<1>7. Sound(u, w) /\ Same(v, u)
  <2> HIDE DEF k
  <2>1. v.post = k
    BY DEF k
  <2> QED
    BY <1>1, <1>3, <1>5, <1>6, <2>1, Changed DEF e
<1>8. \A i \in DOMAIN v.queue : v.queue[i].key = v.post => u.queue[i].state = s
  BY <1>3, <1>4, <1>5
<1> QED
  BY <1>5, <1>7, <1>8 DEF u, f, e

\* The server is not ready for the POST.
LEMMA PostUnavailableSound ==
  ASSUME IInv, PostUnavailable
  PROVE  Sound(view', world) /\ Same(view, view')
<1> DEFINE v == [Put(view, [At(view, view.post) EXCEPT !.state = "retryable"]) EXCEPT
                   !.post = None]
<1>1. PICK ok \in BOOLEAN : view' = IF ok THEN Save(v) ELSE v
  BY DEF PostUnavailable
<1>2. Sound(v, world) /\ Same(view, v)
  <2>1. view.post # None /\ "retryable" \in {"unknown", "retryable", "rejected"}
    BY DEF PostUnavailable
  <2> QED
    BY <2>1, Start, PostEnds
<1> HIDE DEF v
<1>3. Sound(view', world) /\ Same(v, view')
  BY <1>1, <1>2, Start, SaveOrNot
<1> QED
  BY <1>2, <1>3, SameTwice

\* The server refuses the POST.
LEMMA PostRejectedSound ==
  ASSUME IInv, PostRejected
  PROVE  Sound(view', world) /\ Same(view, view')
<1> DEFINE v == [Put(view, [At(view, view.post) EXCEPT !.state = "rejected"]) EXCEPT
                   !.post = None]
<1>1. PICK ok \in BOOLEAN, ok2 \in BOOLEAN :
        view' = IF ok THEN PumpPosts(Save(v), ok2) ELSE v
  BY DEF PostRejected
<1>2. Sound(v, world) /\ Same(view, v)
  <2>1. view.post # None /\ "rejected" \in {"unknown", "retryable", "rejected"}
    BY DEF PostRejected
  <2>2. world.run[view.post] = "refused"
    BY Start, WorldFacts DEF PostRejected
  <2> QED
    BY <2>1, <2>2, Start, PostEnds
<1> HIDE DEF v
<1>3. Sound(Save(v), world) /\ Same(v, Save(v))
  BY <1>2, Start, SaveSound
<1>4. /\ Sound(PumpPosts(Save(v), ok2), world)
      /\ Same(Save(v), PumpPosts(Save(v), ok2))
  BY <1>3, Start, PumpPostsSound
<1> QED
  BY <1>1, <1>2, <1>3, <1>4, SameTwice

\* The observer's terminal event asks for the Run's exact status.
LEMMA StreamFinishSound ==
  ASSUME IInv, StreamFinish
  PROVE  Sound(view', world) /\ Same(view, view')
<1> DEFINE k == view.stream
           e == At(view, k)
           f == [e EXCEPT !.state = "terminal", !.verified = FALSE,
                          !.end = "terminal-sse", !.checked = FALSE]
           v == [Put(view, f) EXCEPT !.stream = None, !.join = None]
           x == [v EXCEPT !.paused = TRUE, !.active = FALSE]
<1>1. k \in Keys(view.queue)
  BY DEF StreamFinish, Observing
<1>2. PICK ok \in BOOLEAN, ok2 \in BOOLEAN :
        view' = IF ok THEN ReconcileWhenSettled(Reobserve(Save(v), k), ok2) ELSE x
  BY DEF StreamFinish
<1>3. /\ e \in Entry /\ e.key = k /\ Fits(e, world) /\ e.run
      /\ e.state = "posting" <=> k = view.post
  BY <1>1, Start, AtSound
<1> HIDE DEF e
<1>4. f \in Entry /\ f.key = k /\ f.run /\ f.state = "terminal" /\ Fits(f, world)
  BY <1>3 DEF Entry, EntryStates, Ends, Fits, Honest, Known, Postable
<1> HIDE DEF f
<1>5. /\ Put(view, f) \in View /\ Put(view, f).draft = view.draft
      /\ Put(view, f).post = view.post
  BY <1>4, Start, PutFacts
<1>6. /\ v \in View /\ v.queue = Put(view, f).queue /\ v.draft = view.draft
      /\ v.post = view.post /\ v.stream = None
  BY <1>5 DEF View
<1>7. k # view.post
  BY <1>3 DEF Fits, Honest, Known
<1> HIDE DEF v, k
<1>8. Sound(v, world) /\ Same(view, v)
  BY <1>1, <1>3, <1>4, <1>6, <1>7, Start, Changed DEF e
<1>9. /\ x \in View /\ x.queue = v.queue /\ x.draft = v.draft /\ x.post = v.post
      /\ x.stream = v.stream
  BY <1>6 DEF View
<1> HIDE DEF x
<1>10. Sound(x, world) /\ Same(v, x)
  BY <1>8, <1>9, Start, Aside
<1> DEFINE s == Save(v)
           r == Reobserve(s, k)
           q == ReconcileWhenSettled(r, ok2)
<1>11. Sound(s, world) /\ Same(v, s)
  BY <1>8, Start, SaveSound
<1>12. k \in Keys(s.queue)
  BY <1>1, <1>8, <1>11, Start, SameKeys, SameTwice DEF Sound
<1> HIDE DEF s
<1>13. Sound(r, world) /\ Same(s, r)
  BY <1>11, <1>12, Start, ReobserveSound
<1> HIDE DEF r
<1>14. Sound(q, world) /\ Same(r, q)
  BY <1>13, Start, ReconcileWhenSettledSound
<1>15. view' = q \/ view' = x
  BY <1>2 DEF q, r, s
<1> HIDE DEF q
<1> QED
  BY <1>8, <1>10, <1>11, <1>13, <1>14, <1>15, SameTwice


-----------------------------------------------------------------------------
(* The answers to an exact GET.                                            *)

\* One entry replaced, and no more.
LEMMA PutSound ==
  ASSUME NEW w \in World, NEW v, Sound(v, w), NEW k \in Keys(v.queue),
         NEW f \in Entry, f.key = k, Fits(f, w), At(v, k).run => f.run,
         f.state = "posting" <=> k = v.post
  PROVE  Sound(Put(v, f), w) /\ Same(v, Put(v, f)) /\ k \in Keys(Put(v, f).queue)
<1>1. v \in View
  BY DEF Sound
<1>2. /\ Put(v, f) \in View /\ Put(v, f).draft = v.draft
      /\ Put(v, f).post = v.post /\ Put(v, f).stream = v.stream
  BY <1>1, PutFacts
<1> QED
  BY <1>1, <1>2, Changed, AtPut

\* The view once the answer to k's GET has come.
LEMMA DeliveredSound ==
  ASSUME IInv, NEW k \in Keys(view.queue)
  PROVE  /\ Sound(Delivered(k), world) /\ Same(view, Delivered(k))
         /\ k \in Keys(Delivered(k).queue)
         /\ At(Delivered(k), k) = [At(view, k) EXCEPT !.get = "none"]
<1> DEFINE e == At(view, k)
           d == [e EXCEPT !.get = "none"]
<1>1. /\ e \in Entry /\ e.key = k /\ Fits(e, world)
      /\ e.state = "posting" <=> k = view.post
  BY Start, AtSound
<1> HIDE DEF e
<1>2. /\ d \in Entry /\ d.key = k /\ Fits(d, world) /\ d.run = e.run
      /\ d.state = "posting" <=> k = view.post
  BY <1>1 DEF Entry, Fits, Honest
<1> HIDE DEF d
<1>3. Delivered(k) = Put(view, d)
  BY DEF Delivered, d, e
<1>4. /\ Sound(Put(view, d), world) /\ Same(view, Put(view, d))
      /\ k \in Keys(Put(view, d).queue)
  BY <1>2, Start, PutSound DEF e
<1>5. At(Put(view, d), k) = d
  BY <1>2, Start, AtPut
<1> QED
  BY <1>3, <1>4, <1>5 DEF d, e

\* An entry whose Run is known is not being POSTed.
LEMMA KnownFacts ==
  ASSUME IInv, NEW k \in Keys(view.queue), At(view, k).run
  PROVE  k # view.post /\ At(view, k).state \in Known /\ world.run[k] \in Accepted
<1>1. /\ At(view, k).key = k /\ Fits(At(view, k), world)
      /\ At(view, k).state = "posting" <=> k = view.post
  BY Start, AtSound
<1> QED
  BY <1>1 DEF Fits, Honest, Known

\* A GET that fails asks for another one.
LEMMA RunReadFailsSound ==
  ASSUME IInv, NEW k \in Messages, RunReadFails(k)
  PROVE  Sound(view', world) /\ Same(view, view')
<1>1. PICK ok \in BOOLEAN : view' = Rearm(Delivered(k), k, ok)
  BY DEF RunReadFails
<1>2. /\ Sound(Delivered(k), world) /\ Same(view, Delivered(k))
      /\ k \in Keys(Delivered(k).queue)
  BY DeliveredSound DEF RunReadFails
<1>3. Sound(view', world) /\ Same(Delivered(k), view')
  BY <1>1, <1>2, Start, RearmSound
<1> QED
  BY <1>2, <1>3, SameTwice

\* An answer that names no status changes no entry but its GET.
LEMMA RunReadInvalidSound ==
  ASSUME IInv, NEW k \in Messages, RunReadInvalid(k)
  PROVE  Sound(view', world) /\ Same(view, view')
<1> DEFINE v == Delivered(k)
<1>1. view' = [v EXCEPT !.active = FALSE]
  BY DEF RunReadInvalid
<1>2. Sound(v, world) /\ Same(view, v)
  BY DeliveredSound DEF RunReadInvalid
<1> HIDE DEF v
<1>3. /\ view' \in View /\ view'.queue = v.queue /\ view'.draft = v.draft
      /\ view'.post = v.post /\ view'.stream = v.stream
  BY <1>1, <1>2 DEF Sound, View
<1>4. Sound(view', world) /\ Same(v, view')
  BY <1>2, <1>3, Start, Aside
<1> QED
  BY <1>2, <1>4, SameTwice

\* An answer that contradicts the stream, or asks for approval.
LEMMA RunReadStopsSound ==
  ASSUME IInv, NEW k \in Messages, RunReadStops(k)
  PROVE  Sound(view', world) /\ Same(view, view')
<1> DEFINE e == At(view, k)
           stopped == [e EXCEPT !.state = "accepted", !.reobserve = TRUE, !.get = "none",
                                !.checked = e.end = "terminal-sse",
                                !.approval = e.get = "approval"]
           p == Put(view, stopped)
           v == [p EXCEPT !.join = None]
           again == [stopped EXCEPT !.checked = e.checked]
           y == Put(v, again)
           z == [y EXCEPT !.paused = TRUE]
<1>1. PICK ok \in BOOLEAN : view' = IF view.active THEN Rearm(v, k, ok)
                                    ELSE IF ok THEN Save(v) ELSE z
  BY DEF RunReadStops
<1>2. k \in Keys(view.queue) /\ e.get # "none"
  BY DEF RunReadStops, Contradicts
<1>3. e \in Entry /\ e.key = k /\ Fits(e, world) /\ e.run
  BY <1>2, Start, AtSound DEF Fits
<1>4. k # view.post
  BY <1>2, <1>3, KnownFacts
<1> HIDE DEF e
<1>5. /\ stopped \in Entry /\ stopped.key = k /\ Fits(stopped, world)
      /\ stopped.run /\ stopped.state = "accepted"
  <2>1. (e.end = "terminal-sse") \in BOOLEAN /\ (e.get = "approval") \in BOOLEAN
    OBVIOUS
  <2> QED
    BY <1>3, <2>1 DEF Entry, EntryStates, Fits, Honest, Known, Postable
<1> HIDE DEF stopped
<1>6. /\ again \in Entry /\ again.key = k /\ Fits(again, world)
      /\ again.run /\ again.state = "accepted"
  BY <1>3, <1>5 DEF Entry, Fits, Honest
<1> HIDE DEF again
<1>7. Sound(p, world) /\ Same(view, p) /\ k \in Keys(p.queue) /\ p.post = view.post
  BY <1>2, <1>4, <1>5, Start, PutSound, PutFacts
<1> HIDE DEF p
<1>8. /\ v \in View /\ v.queue = p.queue /\ v.draft = p.draft
      /\ v.post = p.post /\ v.stream = p.stream
  BY <1>7 DEF Sound, View
<1> HIDE DEF v
<1>9. Sound(v, world) /\ Same(p, v) /\ k \in Keys(v.queue)
  BY <1>7, <1>8, Start, Aside
<1>10. Sound(y, world) /\ Same(v, y)
  <2>1. again.state = "posting" <=> k = v.post
    BY <1>4, <1>6, <1>7, <1>8
  <2> QED
    BY <1>6, <1>9, <2>1, Start, PutSound
<1> HIDE DEF y
<1>11. /\ z \in View /\ z.queue = y.queue /\ z.draft = y.draft
       /\ z.post = y.post /\ z.stream = y.stream
  BY <1>10 DEF Sound, View
<1> HIDE DEF z
<1>12. Sound(z, world) /\ Same(y, z)
  BY <1>10, <1>11, Start, Aside
<1>13. Sound(Save(v), world) /\ Same(v, Save(v))
  BY <1>9, Start, SaveSound
<1>14. Sound(Rearm(v, k, ok), world) /\ Same(v, Rearm(v, k, ok))
  BY <1>9, Start, RearmSound
<1> QED
  BY <1>1, <1>7, <1>9, <1>10, <1>12, <1>13, <1>14, SameTwice

\* The Run is still active: it is observed again.
LEMMA RunReadActiveSound ==
  ASSUME IInv, NEW k \in Messages, RunReadActive(k)
  PROVE  Sound(view', world) /\ Same(view, view')
<1> DEFINE a == At(view, k)
           e == At(Delivered(k), k)
           f == [e EXCEPT !.state = "accepted", !.reobserve = FALSE, !.verified = FALSE]
           g == [e EXCEPT !.reobserve = TRUE, !.verified = FALSE]
           read == Put(view, f)
           s == Save(read)
           joining == [s EXCEPT !.join = k, !.recon.fresh = FALSE]
           p == Put(view, g)
           z == [p EXCEPT !.paused = TRUE, !.active = FALSE]
<1>1. PICK ok \in BOOLEAN, ok2 \in BOOLEAN, ok3 \in BOOLEAN, room \in BOOLEAN :
        view' = IF ~ok THEN z
                ELSE IF /\ StartObservation(joining, k, ok2, room).active
                        /\ StartObservation(joining, k, ok2, room).stream # k
                THEN Rearm(StartObservation(joining, k, ok2, room), k, ok3)
                ELSE StartObservation(joining, k, ok2, room)
  BY DEF RunReadActive
<1>2. k \in Keys(view.queue) /\ a.get # "none"
  BY DEF RunReadActive
<1>3. a \in Entry /\ a.key = k /\ Fits(a, world) /\ a.run /\ k \in Messages
  BY <1>2, Start, AtSound DEF Fits
<1>4. k # view.post /\ a.state \in Known
  BY <1>2, <1>3, KnownFacts
<1>5. e = [a EXCEPT !.get = "none"]
  BY <1>2, DeliveredSound
<1> HIDE DEF a, e
<1>6. /\ e \in Entry /\ e.key = k /\ e.run /\ Fits(e, world)
      /\ e.state \in Known
  BY <1>3, <1>4, <1>5 DEF Entry, Fits, Honest
<1>7. f \in Entry /\ f.key = k /\ f.run /\ Fits(f, world) /\ f.state = "accepted"
  BY <1>6 DEF Entry, EntryStates, Fits, Honest, Known, Postable
<1>8. g \in Entry /\ g.key = k /\ g.run /\ Fits(g, world) /\ g.state \in Known
  BY <1>6 DEF Entry, Fits, Honest
<1> HIDE DEF f, g
<1>9. Sound(read, world) /\ Same(view, read)
  BY <1>2, <1>4, <1>7, Start, PutSound
<1>10. Sound(p, world) /\ Same(view, p)
  <2>1. g.state = "posting" <=> k = view.post
    BY <1>4, <1>8 DEF Known
  <2> QED
    BY <1>2, <1>8, <2>1, Start, PutSound
<1> HIDE DEF read, p
<1>11. Sound(s, world) /\ Same(read, s)
  BY <1>9, Start, SaveSound
<1> HIDE DEF s
<1>12. /\ z \in View /\ z.queue = p.queue /\ z.draft = p.draft
       /\ z.post = p.post /\ z.stream = p.stream
  BY <1>10 DEF Sound, View
<1>13. /\ joining \in View /\ joining.queue = s.queue /\ joining.draft = s.draft
       /\ joining.post = s.post /\ joining.stream = s.stream
  BY <1>3, <1>11 DEF Sound, View
<1> HIDE DEF z, joining
<1>14. Sound(z, world) /\ Same(p, z)
  BY <1>10, <1>12, Start, Aside
<1>15. Sound(joining, world) /\ Same(s, joining)
  BY <1>11, <1>13, Start, Aside
<1>16. Same(view, joining)
  BY <1>9, <1>11, <1>15, SameTwice
<1>17. k \in Keys(joining.queue)
  BY <1>2, <1>13, <1>16, Start, SameKeys
<1> DEFINE o == StartObservation(joining, k, ok2, room)
<1>18. Sound(o, world) /\ Same(joining, o)
  BY <1>15, <1>17, Start, StartObservationSound
<1>19. k \in Keys(o.queue)
  BY <1>13, <1>17, <1>18, SameKeys DEF Sound
<1>20. view' = z \/ view' = Rearm(o, k, ok3) \/ view' = o
  BY <1>1
<1> HIDE DEF o
<1>21. Sound(Rearm(o, k, ok3), world) /\ Same(o, Rearm(o, k, ok3))
  BY <1>18, <1>19, Start, RearmSound
<1> QED
  BY <1>10, <1>14, <1>16, <1>18, <1>20, <1>21, SameTwice


\* The Run is over: that is saved, and what waited for it starts.
LEMMA RunReadOverSound ==
  ASSUME IInv, NEW k \in Messages, RunReadOver(k)
  PROVE  Sound(view', world) /\ Same(view, view')
<1> DEFINE a == At(view, k)
           e == At(Delivered(k), k)
           f == [e EXCEPT !.state = "terminal", !.reobserve = FALSE, !.approval = FALSE,
                          !.verified = FALSE]
           h == [f EXCEPT !.verified = TRUE]
           g == [e EXCEPT !.reobserve = TRUE, !.verified = FALSE]
           read == Put(view, f)
           s == Save(read)
           saved == [s EXCEPT !.join = None]
           c == Put(saved, h)
           p == Put(view, g)
           z == [p EXCEPT !.paused = TRUE, !.active = FALSE]
<1>1. PICK ok \in BOOLEAN, ok2 \in BOOLEAN, ok3 \in BOOLEAN, ok4 \in BOOLEAN, room \in BOOLEAN :
        view' = IF ok THEN ReconcileWhenSettled(
                             PumpPosts(StartNextObservation(c, TRUE, ok2, room), ok3), ok4)
                ELSE z
  BY DEF RunReadOver
<1>2. k \in Keys(view.queue) /\ a.get = "over"
  BY DEF RunReadOver
<1>3. /\ a \in Entry /\ a.key = k /\ Fits(a, world) /\ a.run /\ k \in Messages
      /\ world.run[k] = "over"
  BY <1>2, Start, AtSound DEF Fits
<1>4. k # view.post /\ a.state \in Known
  BY <1>2, <1>3, KnownFacts
<1>5. e = [a EXCEPT !.get = "none"]
  BY <1>2, DeliveredSound
<1> HIDE DEF a, e
<1>6. /\ e \in Entry /\ e.key = k /\ e.run /\ Fits(e, world)
      /\ e.state \in Known
  BY <1>3, <1>4, <1>5 DEF Entry, Fits, Honest
<1>7. f \in Entry /\ f.key = k /\ f.run /\ Fits(f, world) /\ f.state = "terminal"
  BY <1>6 DEF Entry, EntryStates, Fits, Honest, Known, Postable
<1>8. g \in Entry /\ g.key = k /\ g.run /\ Fits(g, world) /\ g.state \in Known
  BY <1>6 DEF Entry, Fits, Honest
<1> HIDE DEF f, g
<1>9. h \in Entry /\ h.key = k /\ h.run /\ Fits(h, world) /\ h.state = "terminal"
  BY <1>3, <1>7 DEF Entry, Fits, Honest
<1> HIDE DEF h
<1>10. Sound(read, world) /\ Same(view, read) /\ read.post = view.post
  BY <1>2, <1>4, <1>7, Start, PutSound, PutFacts
<1>11. Sound(p, world) /\ Same(view, p)
  <2>1. g.state = "posting" <=> k = view.post
    BY <1>4, <1>8 DEF Known
  <2> QED
    BY <1>2, <1>8, <2>1, Start, PutSound
<1> HIDE DEF read, p
<1>12. Sound(s, world) /\ Same(read, s) /\ s.post = view.post
  BY <1>10, Start, SaveSound, SaveFacts DEF Sound
<1> HIDE DEF s
<1>13. /\ z \in View /\ z.queue = p.queue /\ z.draft = p.draft
       /\ z.post = p.post /\ z.stream = p.stream
  BY <1>11 DEF Sound, View
<1>14. /\ saved \in View /\ saved.queue = s.queue /\ saved.draft = s.draft
       /\ saved.post = s.post /\ saved.stream = s.stream
  BY <1>12 DEF Sound, View
<1> HIDE DEF z, saved
<1>15. Sound(z, world) /\ Same(p, z)
  BY <1>11, <1>13, Start, Aside
<1>16. Sound(saved, world) /\ Same(s, saved)
  BY <1>12, <1>14, Start, Aside
<1>17. Same(view, saved)
  BY <1>10, <1>12, <1>16, SameTwice
<1>18. k \in Keys(saved.queue)
  BY <1>2, <1>14, <1>17, Start, SameKeys
<1>19. Sound(c, world) /\ Same(saved, c)
  <2>1. h.state = "posting" <=> k = saved.post
    BY <1>4, <1>9, <1>12, <1>14
  <2> QED
    BY <1>9, <1>16, <1>18, <2>1, Start, PutSound
<1> HIDE DEF c
<1> DEFINE o == StartNextObservation(c, TRUE, ok2, room)
           u == PumpPosts(o, ok3)
           r == ReconcileWhenSettled(u, ok4)
<1>20. Sound(o, world) /\ Same(c, o)
  BY <1>19, Start, StartNextObservationSound
<1> HIDE DEF o
<1>21. Sound(u, world) /\ Same(o, u)
  BY <1>20, Start, PumpPostsSound
<1> HIDE DEF u
<1>22. Sound(r, world) /\ Same(u, r)
  BY <1>21, Start, ReconcileWhenSettledSound
<1>23. view' = r \/ view' = z
  BY <1>1 DEF o, u
<1> HIDE DEF r
<1> QED
  BY <1>11, <1>15, <1>17, <1>19, <1>20, <1>21, <1>22, <1>23, SameTwice

\* The join of an active Run forgets why its observation had stopped.
LEMMA FinishActiveJoinSound ==
  ASSUME IInv, FinishActiveJoin
  PROVE  Sound(view', world) /\ Same(view, view')
<1> DEFINE k == view.join
           e == At(view, k)
           f == [e EXCEPT !.approval = FALSE, !.end = "disconnect", !.checked = FALSE]
           p == Put(view, f)
           s == Save(p)
           x == [s EXCEPT !.join = None]
           z == [view EXCEPT !.paused = TRUE]
<1>1. view' = x \/ view' = z
  BY DEF FinishActiveJoin
<1>2. k \in Keys(view.queue) /\ e.state \in {"accepted", "observing"}
  BY DEF FinishActiveJoin, Observing
<1>3. /\ e \in Entry /\ e.key = k /\ Fits(e, world)
      /\ e.state = "posting" <=> k = view.post
  BY <1>2, Start, AtSound
<1> HIDE DEF e
<1>4. /\ f \in Entry /\ f.key = k /\ Fits(f, world) /\ f.run = e.run
      /\ f.state = "posting" <=> k = view.post
  BY <1>3 DEF Entry, Ends, Fits, Honest
<1> HIDE DEF f
<1>5. Sound(p, world) /\ Same(view, p)
  BY <1>2, <1>4, Start, PutSound DEF e
<1> HIDE DEF p
<1>6. Sound(s, world) /\ Same(p, s)
  BY <1>5, Start, SaveSound
<1> HIDE DEF s
<1>7. /\ x \in View /\ x.queue = s.queue /\ x.draft = s.draft
      /\ x.post = s.post /\ x.stream = s.stream
  BY <1>6 DEF Sound, View
<1>8. /\ z \in View /\ z.queue = view.queue /\ z.draft = view.draft
      /\ z.post = view.post /\ z.stream = view.stream
  BY Start DEF View
<1> HIDE DEF x, z
<1>9. Sound(x, world) /\ Same(s, x)
  BY <1>6, <1>7, Start, Aside
<1>10. Sound(z, world) /\ Same(view, z)
  BY <1>8, Start, Aside
<1> QED
  BY <1>1, <1>5, <1>6, <1>9, <1>10, SameTwice

-----------------------------------------------------------------------------
(* The answers to a DELETE, and a reconciliation that fails.               *)

\* A confirmed cancellation ends the Run, or leaves it to be read again.
LEMMA CancelConfirmedSound ==
  ASSUME IInv, NEW k \in Messages, CancelConfirmed(k)
  PROVE  Sound(view', world) /\ Same(view, view')
<1> DEFINE a == At(view, k)
           e == [a EXCEPT !.del = "none", !.get = "none", !.verified = FALSE]
           f(state) == [e EXCEPT !.state = state]
           Now(state) == [Put(view, f(state)) EXCEPT
                            !.stream = IF @ = k THEN None ELSE @,
                            !.join = IF @ = k THEN None ELSE @]
<1>1. PICK ok \in BOOLEAN, ok2 \in BOOLEAN, ok3 \in BOOLEAN :
        LET done == IF ok THEN ReconcileWhenSettled(Save(Now("terminal")), ok2)
                    ELSE Now("accepted")
        IN  view' = IF ok3 THEN Save(done) ELSE done
  BY DEF CancelConfirmed
<1>2. k \in Keys(view.queue) /\ a.del # "none"
  BY DEF CancelConfirmed
<1>3. a \in Entry /\ a.key = k /\ Fits(a, world) /\ a.run
  BY <1>2, Start, AtSound DEF Fits
<1>4. k # view.post
  BY <1>2, <1>3, KnownFacts
<1> HIDE DEF a
<1>5. ASSUME NEW state \in {"terminal", "accepted"}
      PROVE  Sound(Now(state), world) /\ Same(view, Now(state))
  <2> DEFINE g == f(state)
             p == Put(view, g)
             n == [p EXCEPT !.stream = IF @ = k THEN None ELSE @,
                            !.join = IF @ = k THEN None ELSE @]
  <2>1. g \in Entry /\ g.key = k /\ g.run /\ Fits(g, world) /\ g.state = state
    BY <1>3 DEF Entry, EntryStates, Fits, Honest, Known, Postable
  <2> HIDE DEF g
  <2>2. Sound(p, world) /\ Same(view, p)
    BY <1>2, <1>4, <2>1, Start, PutSound
  <2> HIDE DEF p
  <2>3. /\ n \in View /\ n.queue = p.queue /\ n.draft = p.draft
        /\ n.post = p.post /\ n.stream \in {p.stream, None}
    BY <2>2 DEF Sound, View
  <2> HIDE DEF n
  <2>4. Sound(n, world) /\ Same(p, n)
    BY <2>2, <2>3, Start, Aside
  <2>5. n = Now(state)
    BY DEF n, p, g
  <2> HIDE DEF Now
  <2> QED
    BY <2>2, <2>4, <2>5, SameTwice
<1> DEFINE n == Now("terminal")
           s == Save(n)
           r == ReconcileWhenSettled(s, ok2)
           y == Now("accepted")
           done == IF ok THEN r ELSE y
<1>6. view' = IF ok3 THEN Save(done) ELSE done
  BY <1>1
<1>7. Sound(n, world) /\ Same(view, n) /\ Sound(y, world) /\ Same(view, y)
  BY <1>5
<1> HIDE DEF n, y
<1>8. Sound(s, world) /\ Same(n, s)
  BY <1>7, Start, SaveSound
<1> HIDE DEF s
<1>9. Sound(r, world) /\ Same(s, r)
  BY <1>8, Start, ReconcileWhenSettledSound
<1> HIDE DEF r
<1>10. Sound(done, world) /\ Same(view, done)
  BY <1>7, <1>8, <1>9, SameTwice
<1> HIDE DEF done
<1>11. Sound(view', world) /\ Same(done, view')
  BY <1>6, <1>10, Start, SaveOrNot
<1> QED
  BY <1>10, <1>11, SameTwice

\* An unconfirmed one only forgets the request.
LEMMA CancelUnconfirmedSound ==
  ASSUME IInv, NEW k \in Messages, CancelUnconfirmed(k)
  PROVE  Sound(view', world) /\ Same(view, view')
<1> DEFINE e == At(view, k)
           f == [e EXCEPT !.del = "none"]
           v == Put(view, f)
<1>1. PICK ok \in BOOLEAN : view' = IF ok THEN Save(v) ELSE v
  BY DEF CancelUnconfirmed
<1>2. k \in Keys(view.queue)
  BY DEF CancelUnconfirmed
<1>3. /\ e \in Entry /\ e.key = k /\ Fits(e, world)
      /\ e.state = "posting" <=> k = view.post
  BY <1>2, Start, AtSound
<1> HIDE DEF e
<1>4. /\ f \in Entry /\ f.key = k /\ Fits(f, world) /\ f.run = e.run
      /\ f.state = "posting" <=> k = view.post
  BY <1>3 DEF Entry, Fits, Honest
<1> HIDE DEF f
<1>5. Sound(v, world) /\ Same(view, v)
  BY <1>2, <1>4, Start, PutSound DEF e
<1> HIDE DEF v
<1>6. Sound(view', world) /\ Same(v, view')
  BY <1>1, <1>5, Start, SaveOrNot
<1> QED
  BY <1>5, <1>6, SameTwice

\* The server answers a GET with what it has.
LEMMA AnswersGetSound ==
  ASSUME IInv, NEW k \in Messages, AnswersGet(k)
  PROVE  Sound(view', world) /\ Same(view, view')
<1> DEFINE e == At(view, k)
           f == [e EXCEPT !.get = run[k]]
<1>1. k \in Keys(view.queue) /\ e.get = "sent" /\ view' = Put(view, f)
  BY DEF AnswersGet
<1>2. /\ e \in Entry /\ e.key = k /\ Fits(e, world) /\ e.run
      /\ e.state = "posting" <=> k = view.post
  BY <1>1, Start, AtSound DEF Fits
<1>3. run[k] \in Accepted /\ world.run = run
  BY <1>1, <1>2, Start, KnownFacts, WorldFacts
<1> HIDE DEF e
<1>4. /\ f \in Entry /\ f.key = k /\ Fits(f, world) /\ f.run = e.run
      /\ f.state = "posting" <=> k = view.post
  BY <1>2, <1>3 DEF Entry, Accepted, Fits, Honest
<1> HIDE DEF f
<1> QED
  BY <1>1, <1>4, Start, PutSound DEF e

\* A reconciliation that fails returns its entries to the queue.
LEMMA NotReconciledSound ==
  ASSUME IInv, NotReconciled
  PROVE  Sound(view', world) /\ Same(view, view')
<1>1. PICK ok \in BOOLEAN :
        view' = [RestoreReconciliation(view, view.recon.keys, ok) EXCEPT !.recon = Idle]
  BY DEF NotReconciled
<1> DEFINE r == RestoreReconciliation(view, view.recon.keys, ok)
<1>2. Sound(r, world) /\ Same(view, r)
  BY Start, RestoreReconciliationSound
<1>3. view' = [r EXCEPT !.recon = Idle]
  BY <1>1
<1> HIDE DEF r
<1>4. /\ view' \in View /\ view'.queue = r.queue /\ view'.draft = r.draft
      /\ view'.post = r.post /\ view'.stream = r.stream
  BY <1>2, <1>3 DEF Sound, View, Idle
<1>5. Sound(view', world) /\ Same(r, view')
  BY <1>2, <1>4, Start, Aside
<1> QED
  BY <1>2, <1>5, SameTwice


-----------------------------------------------------------------------------
(* Steps of the server.                                                    *)

\* The world after a step.
LEMMA NextWorldFacts ==
  ASSUME Types'
  PROVE  /\ world' \in World
         /\ world'.next = next' /\ world'.run = run'
         /\ world'.late = late' /\ world'.learned = learned'
BY QueueAssumption DEF Types, world, World

\* A step of the server's Runs, with the messages and the history as they are.
LEMMA RunStep ==
  ASSUME IInv, UNCHANGED <<next, history, faults>>, late' \subseteq late,
         NEW m \in Messages, run[m] \in {"none"} \cup Active,
         NEW r \in {"refused"} \cup Accepted, r = "refused" => run[m] = "none",
         run' = [run EXCEPT ![m] = r], m < next
  PROVE  Types' /\ Unsent' /\ LateFenced' /\ History'
<1>1. Types /\ Unsent /\ LateFenced /\ History
  BY DEF IInv
<1>2. /\ run' \in [Messages -> {"none", "refused"} \cup Accepted]
      /\ \A n \in Messages : run'[n] = IF n = m THEN r ELSE run[n]
  BY <1>1 DEF Types
<1>3. \A n \in Messages : run[n] \in Done => run'[n] = run[n]
  BY <1>2 DEF Done, Active
<1>4. Types'
  BY <1>1, <1>2 DEF Types, history
<1>5. Unsent'
  BY <1>1, <1>2, QueueAssumption DEF Types, Unsent, Messages, history
<1>6. LateFenced'
  <2>1. world.run = run /\ world'.run = run'
    BY DEF world
  <2> QED
    BY <1>1, <1>3, <2>1 DEF LateFenced, Fenced
<1>7. History'
  BY <1>1, <1>3 DEF Types, History, history, Done
<1> QED
  BY <1>4, <1>5, <1>6, <1>7

\* The world moves as its Runs do.
LEMMA RunWorld ==
  ASSUME IInv, Types', UNCHANGED <<next, history>>,
         NEW m \in Messages, run[m] \in {"none"} \cup Active,
         NEW r \in {"refused"} \cup Accepted, r = "refused" => run[m] = "none",
         run' = [run EXCEPT ![m] = r]
  PROVE  /\ world' \in World /\ world'.next = world.next
         /\ \A n \in Messages : /\ world.run[n] \in Done => world'.run[n] = world.run[n]
                                /\ world.run[n] \in Accepted => world'.run[n] \in Accepted
<1>1. \A n \in Messages : run'[n] = IF n = m THEN r ELSE run[n]
  BY DEF IInv, Types
<1> QED
  BY <1>1, Start, WorldFacts, NextWorldFacts DEF Done, Active, Accepted

\* The verdict on a message finds its entry under way or unanswered, and the
\* message fenced.
LEMMA DecidesKeeps ==
  ASSUME IInv, NEW m \in Messages, Decides(m)
  PROVE  IInv' /\ Retired' = Retired /\ m < next /\ Fenced(m, world)
<1>1. PICK r \in {"running", "refused"} : run' = [run EXCEPT ![m] = r]
  BY DEF Decides
<1>2. /\ run[m] = "none" /\ late' = late \ {m} /\ (m = view.post \/ m \in late)
      /\ UNCHANGED <<view, next, history, faults>>
  BY DEF Decides
<1>3. /\ world \in World /\ Sound(view, world) /\ view \in View /\ Types
      /\ Unsent /\ LateFenced /\ History /\ RetiredIsShown
  BY Start DEF IInv
<1>4. ASSUME m = view.post
      PROVE  m < next /\ Fenced(m, world)
  <2>1. view.post # None
    BY <1>4 DEF Messages, None
  <2>2. view.post \in Keys(view.queue) /\ Fenced(view.post, world)
    BY <1>3, <2>1, PostFacts
  <2>3. view.post < world.next
    BY <1>3, <2>2, AtSound
  <2> QED
    BY <1>3, <1>4, <2>2, <2>3, WorldFacts
<1>5. ASSUME m \in late
      PROVE  m < next /\ Fenced(m, world)
  BY <1>3, <1>5, QueueAssumption DEF LateFenced, Unsent, Types, Messages
<1>6. m < next /\ Fenced(m, world)
  BY <1>2, <1>4, <1>5
<1>7. Types' /\ Unsent' /\ LateFenced' /\ History'
  <2>1. /\ UNCHANGED <<next, history, faults>> /\ late' \subseteq late
        /\ run[m] \in {"none"} \cup Active /\ r \in {"refused"} \cup Accepted
    BY <1>2 DEF Accepted, Active
  <2> QED
    BY <1>1, <1>2, <1>6, <2>1, RunStep
<1>8. /\ world' \in World /\ world'.next = world.next
      /\ \A n \in Messages : /\ world.run[n] \in Done => world'.run[n] = world.run[n]
                             /\ world.run[n] \in Accepted => world'.run[n] \in Accepted
  <2>1. /\ UNCHANGED <<next, history>>
        /\ run[m] \in {"none"} \cup Active /\ r \in {"refused"} \cup Accepted
    BY <1>2 DEF Accepted, Active
  <2> QED
    BY <1>1, <1>2, <1>7, <2>1, RunWorld
<1>9. ASSUME NEW i \in DOMAIN view.queue
      PROVE  Honest(view.queue[i], world') /\ Honest(view.draft[i], world')
  <2>1. /\ Honest(view.queue[i], world) /\ Honest(view.draft[i], world)
        /\ view.draft[i].key = view.queue[i].key /\ view.queue[i].key \in Messages
        /\ view.queue[i].state = "posting" <=> view.queue[i].key = view.post
    BY <1>3, ViewFacts DEF Sound, Resident, Parallel, Saved, Fits
  <2>2. m = view.post /\ view.draft[i].key = m => view.draft[i].state = "posting"
    <3>1. view.post = m => view.post # None
      BY DEF Messages, None
    <3>2. i \in DOMAIN view.draft
      BY <1>3 DEF Sound, Parallel
    <3> QED
      BY <1>3, <3>1, <3>2, PostFacts
  <2>3. /\ \A n \in Messages : run'[n] = IF n = m THEN r ELSE run[n]
        /\ world.run = run /\ world.late = late /\ world.learned = learned
        /\ world'.run = run' /\ world'.late = late' /\ world'.learned = learned
    BY <1>1, <1>2, <1>3, <1>7, WorldFacts, NextWorldFacts DEF Types, history
  <2>4. CASE view.queue[i].key = m
    BY <1>2, <2>1, <2>2, <2>3, <2>4 DEF Honest, Accepted, Active, Known
  <2>5. CASE view.queue[i].key # m
    BY <1>2, <2>1, <2>3, <2>5 DEF Honest
  <2> QED
    BY <2>4, <2>5
<1>10. Sound(view, world')
  BY <1>3, <1>8, <1>9, WorldMoves
<1>11. Retired' = Retired
  BY <1>2 DEF Retired, Sent
<1>12. RetiredIsShown'
  BY <1>2, <1>3, <1>11 DEF RetiredIsShown, history
<1>13. Sound(view', world')
  BY <1>2, <1>10
<1>14. IInv'
  BY <1>7, <1>12, <1>13 DEF IInv
<1> QED
  BY <1>6, <1>11, <1>14

\* A Run's progress to r falsifies nothing the view or its cache says.
LEMMA ProgressSound ==
  ASSUME IInv, UNCHANGED <<next, late, history, faults>>,
         NEW m \in Messages, run[m] \in Active, NEW r \in Accepted,
         run' = [run EXCEPT ![m] = r]
  PROVE  /\ Types' /\ Unsent' /\ LateFenced' /\ History' /\ m < next
         /\ Sound(view, world')
<1>1. /\ world \in World /\ Sound(view, world) /\ view \in View /\ Types
      /\ Unsent /\ LateFenced /\ History
  BY Start DEF IInv
<1>2. m < next
  BY <1>1, QueueAssumption DEF Unsent, Types, Messages, Active
<1>3. /\ UNCHANGED <<next, history, faults>> /\ UNCHANGED <<next, history>>
      /\ late' \subseteq late /\ run[m] \in {"none"} \cup Active
      /\ r \in {"refused"} \cup Accepted /\ r # "refused"
  BY DEF Accepted, Active
<1>4. Types' /\ Unsent' /\ LateFenced' /\ History'
  BY <1>2, <1>3, RunStep
<1>5. /\ world' \in World /\ world'.next = world.next
      /\ \A n \in Messages : /\ world.run[n] \in Done => world'.run[n] = world.run[n]
                             /\ world.run[n] \in Accepted => world'.run[n] \in Accepted
  BY <1>3, <1>4, RunWorld
<1>6. ASSUME NEW i \in DOMAIN view.queue
      PROVE  Honest(view.queue[i], world') /\ Honest(view.draft[i], world')
  <2>1. /\ Honest(view.queue[i], world) /\ Honest(view.draft[i], world)
        /\ view.draft[i].key = view.queue[i].key /\ view.queue[i].key \in Messages
    BY <1>1, ViewFacts DEF Sound, Resident, Parallel, Saved, Fits
  <2>2. /\ \A n \in Messages : run'[n] = IF n = m THEN r ELSE run[n]
        /\ world.run = run /\ world.late = late /\ world.learned = learned
        /\ world'.run = run' /\ world'.late = late /\ world'.learned = learned
    BY <1>1, <1>4, WorldFacts, NextWorldFacts DEF Types, history
  <2> QED
    BY <2>1, <2>2 DEF Honest, Active
<1>7. Sound(view, world')
  BY <1>1, <1>5, <1>6, WorldMoves
<1> QED
  BY <1>2, <1>4, <1>7

\* A Run moves on its own.
LEMMA RunMovesKeeps ==
  ASSUME IInv, NEW m \in Messages, RunMoves(m)
  PROVE  IInv' /\ Retired' = Retired /\ m < next
<1>1. PICK r \in (Active \cup {"over"}) \ {run[m]} : run' = [run EXCEPT ![m] = r]
  BY DEF RunMoves
<1>2. /\ run[m] \in Active /\ UNCHANGED <<view, next, late, history, faults>>
      /\ UNCHANGED <<next, late, history, faults>> /\ r \in Accepted
  BY DEF RunMoves, Accepted
<1>3. /\ Types' /\ Unsent' /\ LateFenced' /\ History' /\ m < next
      /\ Sound(view, world')
  BY <1>1, <1>2, ProgressSound
<1>4. Retired' = Retired
  BY <1>2 DEF Retired, Sent
<1>5. RetiredIsShown'
  BY <1>2, <1>4 DEF IInv, RetiredIsShown, history
<1>6. Sound(view', world')
  BY <1>2, <1>3
<1> QED
  BY <1>3, <1>4, <1>5, <1>6 DEF IInv

\* The server ends a Run and confirms its cancellation.
LEMMA CancelsKeeps ==
  ASSUME IInv, NEW k \in Messages, Cancels(k)
  PROVE  IInv' /\ Retired' = Retired /\ k < next
<1> DEFINE e == At(view, k)
           f == [e EXCEPT !.del = "cancelled"]
<1>1. /\ k \in Keys(view.queue) /\ e.del = "sent" /\ run[k] \in Active
      /\ view' = Put(view, f) /\ run' = [run EXCEPT ![k] = "over"]
      /\ UNCHANGED <<next, late, history, faults>> /\ "over" \in Accepted
  BY DEF Cancels, Accepted
<1>2. /\ Types' /\ Unsent' /\ LateFenced' /\ History' /\ k < next
      /\ Sound(view, world')
  BY <1>1, ProgressSound
<1>3. world' \in World /\ world'.run = run' /\ run'[k] = "over"
  BY <1>1, <1>2, NextWorldFacts DEF IInv, Types
<1>4. /\ e \in Entry /\ e.key = k /\ Fits(e, world')
      /\ e.state = "posting" <=> k = view.post
  BY <1>1, <1>2, <1>3, AtSound
<1> HIDE DEF e
<1>5. /\ f \in Entry /\ f.key = k /\ Fits(f, world') /\ f.run = e.run
      /\ f.state = "posting" <=> k = view.post
  BY <1>1, <1>3, <1>4 DEF Entry, Fits, Honest
<1> HIDE DEF f
<1>6. Sound(view', world') /\ Same(view, view')
  BY <1>1, <1>2, <1>3, <1>5, PutSound DEF e
<1>7. Retired' = Retired
  <2>1. view \in View /\ view' \in View /\ Parallel(view) /\ Parallel(view')
    BY <1>2, <1>6 DEF Sound
  <2>2. Keys(view'.queue) = Keys(view.queue)
    BY <1>6, <2>1, SameKeys
  <2> QED
    BY <1>1, <2>1, <2>2, DraftKeys DEF Retired, Sent
<1>8. RetiredIsShown'
  BY <1>1, <1>7 DEF IInv, RetiredIsShown, history
<1> QED
  BY <1>2, <1>6, <1>7, <1>8 DEF IInv


-----------------------------------------------------------------------------
(* A POST abandoned, or accepted.                                          *)

\* A POST under way is of a message that has been sent.
LEMMA UnderWay ==
  ASSUME IInv, view.post # None
  PROVE  view.post \in Messages /\ view.post < next /\ Fenced(view.post, world)
<1>1. view.post \in Keys(view.queue) /\ Fenced(view.post, world)
  BY Start, PostFacts
<1> QED
  BY <1>1, Start, AtSound, WorldFacts

\* The abandoned POST joins those the server may still process, fenced.
LEMMA LateStep ==
  ASSUME IInv, UNCHANGED <<next, run, history>>, faults' \in 0 .. MaxFaults,
         late' = IF view.post # None /\ run[view.post] = "none"
                 THEN late \cup {view.post} ELSE late
  PROVE  /\ Types' /\ Unsent' /\ LateFenced' /\ History'
         /\ world' \in World /\ world'.next = world.next /\ world'.run = world.run
         /\ world'.learned = world.learned
         /\ \A m \in Messages : m \in world'.late => m \in world.late \/ m = view.post
<1>1. /\ Types /\ Unsent /\ LateFenced /\ History
      /\ view.post # None => /\ view.post \in Messages /\ view.post < next
                             /\ Fenced(view.post, world)
  BY UnderWay DEF IInv
<1>2. late' \subseteq Messages /\ late' \subseteq late \cup {view.post}
  BY <1>1 DEF Types
<1>3. Types'
  BY <1>1, <1>2 DEF Types, history
<1>4. Unsent'
  BY <1>1, QueueAssumption DEF Types, Unsent, Messages, history
<1>5. /\ world' \in World /\ world'.next = world.next /\ world'.run = world.run
      /\ world'.learned = world.learned /\ world'.late = late' /\ world.late = late
  BY <1>1, <1>3, WorldFacts, NextWorldFacts DEF history
<1>6. LateFenced'
  BY <1>1, <1>5 DEF LateFenced, Fenced
<1>7. History'
  BY <1>1 DEF History, history
<1> QED
  BY <1>2, <1>3, <1>4, <1>5, <1>6, <1>7

\* The same messages as before, in a world with the same history.
LEMMA SameRetired ==
  ASSUME IInv, NEW w, Sound(view', w), Same(view, view'), UNCHANGED <<next, snapshot, dismissed>>
  PROVE  Retired' = Retired /\ RetiredIsShown'
<1>1. view \in View /\ view' \in View /\ Parallel(view) /\ Parallel(view')
  BY DEF IInv, Sound
<1>2. Keys(view'.queue) = Keys(view.queue)
  BY <1>1, SameKeys
<1>3. Retired' = Retired
  BY <1>1, <1>2, DraftKeys DEF Retired, Sent
<1> QED
  BY <1>3 DEF IInv, RetiredIsShown

\* The user stops waiting for a POST, or it fails without an answer.
LEMMA AbandonKeeps ==
  ASSUME IInv, AbortPost \/ PostFails
  PROVE  IInv' /\ Retired' = Retired
<1> DEFINE v == [Put(view, [At(view, view.post) EXCEPT !.state = "unknown"]) EXCEPT
                   !.post = None]
<1>1. PICK ok \in BOOLEAN : /\ Writes(ok)
                            /\ view' = IF ok THEN Save(v) ELSE v
  BY DEF AbortPost, PostFails
<1>2. /\ view.post # None /\ UNCHANGED <<next, run, history>>
      /\ late' = IF view.post # None /\ run[view.post] = "none"
                 THEN late \cup {view.post} ELSE late
  BY DEF AbortPost, PostFails
<1>3. faults' \in 0 .. MaxFaults
  BY <1>1, Start, WritesFacts
<1>4. /\ Types' /\ Unsent' /\ LateFenced' /\ History'
      /\ world' \in World /\ world'.next = world.next /\ world'.run = world.run
      /\ world'.learned = world.learned
      /\ \A m \in Messages : m \in world'.late => m \in world.late \/ m = view.post
  BY <1>2, <1>3, LateStep
<1>5. /\ Sound(v, world) /\ Same(view, v) /\ v.draft = view.draft
      /\ \A i \in DOMAIN view.queue :
           view.queue[i].key = view.post => v.queue[i].state = "unknown"
  <2>1. "unknown" \in {"unknown", "retryable", "rejected"} /\ "unknown" # "rejected"
    OBVIOUS
  <2> QED
    BY <1>2, <2>1, Start, PostEnds
<1> HIDE DEF v
<1>6. Sound(view', world) /\ Same(v, view')
  BY <1>1, <1>5, Start, SaveOrNot
<1>7. Same(view, view')
  BY <1>5, <1>6, SameTwice
<1>8. ASSUME NEW i \in DOMAIN view'.queue
      PROVE  Honest(view'.queue[i], world') /\ Honest(view'.draft[i], world')
  <2>1. view \in View /\ v \in View /\ view' \in View
    BY <1>5, <1>6, Start DEF Sound
  <2>2. /\ i \in DOMAIN view.queue /\ i \in DOMAIN v.queue /\ i \in DOMAIN view.draft
        /\ i \in DOMAIN view'.draft
        /\ v.queue[i].key = view.queue[i].key
        /\ view'.queue[i].key = view.queue[i].key
        /\ view.draft[i].key = view.queue[i].key
        /\ view'.draft[i].key = view.queue[i].key
        /\ view.queue[i].key \in Messages
    BY <1>5, <1>6, <1>7, <2>1, Start, ViewFacts DEF Same, Sound, Parallel
  <2>3. /\ Honest(view'.queue[i], world) /\ Honest(view'.draft[i], world)
    BY <1>6, <2>2 DEF Sound, Resident, Saved, Fits
  <2>4. ASSUME view.queue[i].key = view.post
        PROVE  view'.queue[i].state # "queued" /\ view'.draft[i].state # "queued"
    <3>1. v.queue[i].state = "unknown"
      BY <1>5, <2>2, <2>4
    <3>2. view.draft[i].state = "posting"
      BY <1>2, <2>2, <2>4, Start, PostFacts
    <3>3. CASE ok
      BY <1>1, <2>1, <2>2, <3>1, <3>3, SaveFacts
    <3>4. CASE ~ok
      BY <1>1, <1>5, <3>1, <3>2, <3>4
    <3> QED
      BY <3>3, <3>4
  <2> QED
    BY <1>4, <2>2, <2>3, <2>4 DEF Honest
<1>9. Sound(view', world')
  BY <1>4, <1>6, <1>8, Start, WorldMoves
<1>10. Retired' = Retired /\ RetiredIsShown'
  BY <1>2, <1>7, <1>9, SameRetired DEF history
<1>11. IInv'
  BY <1>4, <1>9, <1>10 DEF IInv
<1> QED
  BY <1>10, <1>11

\* An acceptance the view holds as such, in queue and cache, may be learned.
LEMMA LearnedSound ==
  ASSUME IInv, Types', UNCHANGED <<next, run, late>>, NEW k \in Messages,
         learned' = learned \cup {k}, NEW v, Sound(v, world),
         \A i \in DOMAIN v.queue :
           v.queue[i].key = k => /\ v.queue[i].state = "accepted"
                                 /\ v.draft[i].state = "accepted"
  PROVE  Sound(v, world')
<1>1. /\ world' \in World /\ world'.next = world.next /\ world'.run = world.run
      /\ world'.late = world.late /\ world'.learned = world.learned \cup {k}
  BY Start, WorldFacts, NextWorldFacts
<1>2. ASSUME NEW i \in DOMAIN v.queue
      PROVE  Honest(v.queue[i], world') /\ Honest(v.draft[i], world')
  <2>1. /\ Honest(v.queue[i], world) /\ Honest(v.draft[i], world)
        /\ v.draft[i].key = v.queue[i].key
    BY DEF Sound, Resident, Parallel, Saved, Fits
  <2> QED
    BY <1>1, <2>1 DEF Honest, Postable
<1> QED
  BY <1>1, <1>2, Start, WorldMoves

\* The POST is answered with a Run.
LEMMA PostAcceptedKeeps ==
  ASSUME IInv, PostAccepted
  PROVE  IInv' /\ Retired' = Retired
<1> DEFINE k == view.post
           e == At(view, k)
           f == [e EXCEPT !.state = "accepted", !.run = TRUE, !.reobserve = FALSE]
           p == Put(view, f)
           v == [p EXCEPT !.post = None]
           s == Save(v)
<1>1. PICK ok \in BOOLEAN, ok2 \in BOOLEAN, ok3 \in BOOLEAN, room \in BOOLEAN :
        /\ Writes(ok /\ ok2 /\ ok3)
        /\ view' = IF ok THEN PumpPosts(StartObservation(s, k, ok2, room), ok3)
                   ELSE IF ok2 THEN s ELSE v
        /\ learned' = IF ok \/ ok2 THEN learned \cup {k} ELSE learned
  BY DEF PostAccepted, HalfAdopted
<1>2. /\ k # None /\ run[k] \in Accepted
      /\ UNCHANGED <<next, run, late, snapshot, dismissed>>
  BY DEF PostAccepted, Accepted
<1>3. k \in Messages /\ k \in Keys(view.queue) /\ world.run[k] \in Accepted
  BY <1>2, Start, PostFacts, UnderWay, WorldFacts
<1>4. e \in Entry /\ e.key = k /\ Fits(e, world)
  BY <1>3, Start, AtSound
<1> HIDE DEF e
<1>5. f \in Entry /\ f.key = k /\ f.run /\ f.state = "accepted" /\ Fits(f, world)
  BY <1>3, <1>4 DEF Entry, EntryStates, Fits, Honest, Known, Postable
<1> HIDE DEF f
<1>6. /\ p \in View /\ p.draft = view.draft /\ p.stream = view.stream
      /\ DOMAIN p.queue = DOMAIN view.queue
      /\ \A i \in DOMAIN view.queue :
           p.queue[i] = IF view.queue[i].key = k THEN f ELSE view.queue[i]
  BY <1>5, Start, PutFacts
<1>7. /\ v \in View /\ v.queue = p.queue /\ v.draft = view.draft
      /\ v.post = None /\ v.stream = view.stream
  BY <1>6 DEF View
<1>8. Sound(v, world) /\ Same(view, v)
  <2> HIDE DEF v, k
  <2>1. view.post = k
    BY DEF k
  <2> QED
    BY <1>2, <1>3, <1>5, <1>7, <2>1, Start, Changed
<1> HIDE DEF p
<1>9. Sound(s, world) /\ Same(v, s)
  <2> HIDE DEF v
  <2> QED
    BY <1>8, Start, SaveSound
<1>10. /\ s \in View
       /\ \A i \in DOMAIN s.queue :
            s.queue[i].key = k => s.queue[i].state = "accepted" /\ s.draft[i].state = "accepted"
  <2> HIDE DEF v
  <2> QED
    BY <1>5, <1>6, <1>7, SaveFacts
<1>11. k \in Keys(s.queue) /\ Same(view, s)
  BY <1>3, <1>8, <1>9, <1>10, Start, SameKeys, SameTwice
<1> HIDE DEF v, s, k
<1>12. /\ faults' \in 0 .. MaxFaults /\ learned' \subseteq learned \cup {k}
  <2>1. (ok /\ ok2 /\ ok3) \in BOOLEAN
    OBVIOUS
  <2> QED
    BY <1>1, <2>1, Start, WritesFacts
<1>13. Types' /\ Unsent' /\ LateFenced' /\ History' /\ k < next
  <2>1. Types /\ Unsent /\ LateFenced /\ History /\ k < next
    BY <1>2, UnderWay DEF IInv, k
  <2>2. Types' /\ History'
    BY <1>2, <1>3, <1>12, <2>1 DEF Types, History
  <2>3. Unsent'
    BY <1>2, <1>3, <1>12, <2>1, QueueAssumption DEF Types, Unsent, Messages
  <2>4. world'.run = run' /\ world.run = run
    BY DEF world
  <2> QED
    BY <1>2, <2>1, <2>2, <2>3, <2>4 DEF LateFenced, Fenced
<1>14. world' \in World
  BY <1>13, NextWorldFacts
<1>15. Sound(view', world') /\ Same(view, view')
  <2>1. CASE ok
    <3> DEFINE o == StartObservation(s, k, ok2, room)
    <3>1. learned' = learned \cup {k} /\ view' = PumpPosts(o, ok3)
      BY <1>1, <2>1
    <3>2. Sound(s, world')
      BY <1>2, <1>3, <1>9, <1>10, <1>13, <3>1, LearnedSound
    <3>3. Sound(o, world') /\ Same(s, o)
      BY <1>11, <1>14, <3>2, StartObservationSound
    <3> HIDE DEF o
    <3>4. Sound(view', world') /\ Same(o, view')
      BY <1>14, <3>1, <3>3, PumpPostsSound
    <3> QED
      BY <1>11, <3>3, <3>4, SameTwice
  <2>2. CASE ~ok /\ ok2
    <3>1. learned' = learned \cup {k} /\ view' = s
      BY <1>1, <2>2
    <3>2. Sound(s, world')
      BY <1>2, <1>3, <1>9, <1>10, <1>13, <3>1, LearnedSound
    <3> QED
      BY <1>11, <3>1, <3>2
  <2>3. CASE ~ok /\ ~ok2
    <3>1. learned' = learned /\ view' = v
      BY <1>1, <2>3
    <3>2. world' = world
      BY <1>2, <3>1 DEF world
    <3> QED
      BY <1>8, <3>1, <3>2
  <2> QED
    BY <2>1, <2>2, <2>3
<1>16. Retired' = Retired /\ RetiredIsShown'
  BY <1>2, <1>15, SameRetired
<1>17. IInv'
  BY <1>13, <1>15, <1>16 DEF IInv
<1> QED
  BY <1>16, <1>17


-----------------------------------------------------------------------------
(* Entries leave the queue.                                                *)

\* An ascending row of places goes through all of them.
LEMMA AscendingFacts ==
  ASSUME NEW n \in Nat, NEW S \in SUBSET (1 .. n), NEW s \in Ascending(S)
  PROVE  /\ Cardinality(S) \in Nat /\ Cardinality(S) <= n
         /\ s \in [1 .. Cardinality(S) -> S]
         /\ \A i, j \in 1 .. Cardinality(S) : i < j => s[i] < s[j]
         /\ \A x \in S : \E i \in 1 .. Cardinality(S) : s[i] = x
<1> DEFINE c == Cardinality(S)
<1>1. IsFiniteSet(1 .. n) /\ Cardinality(1 .. n) = n
  BY FS_Interval
<1>2. IsFiniteSet(S) /\ c <= n /\ c \in Nat
  BY <1>1, FS_Subset, FS_CardinalityType
<1>3. s \in [1 .. c -> S] /\ \A i, j \in 1 .. c : i < j => s[i] < s[j]
  BY DEF Ascending
<1>4. Cardinality(1 .. c) = c
  BY <1>2, FS_Interval
<1> HIDE DEF c
<1>5. s \in Injection(1 .. c, S)
  <2>1. ASSUME NEW i \in 1 .. c, NEW j \in 1 .. c, s[i] = s[j] PROVE i = j
    <3>1. s[i] \in Nat /\ s[j] \in Nat
      <4>1. s[i] \in S /\ s[j] \in S
        BY <1>3
      <4>2. \A x \in S : x \in Nat
        OBVIOUS
      <4> QED
        BY <4>1, <4>2, Zenon
    <3>2. ~ (s[i] < s[j]) /\ ~ (s[j] < s[i])
      BY <2>1, <3>1
    <3> QED
      BY <1>2, <1>3, <3>2
  <2> QED
    BY <1>3, <2>1 DEF Injection, IsInjective
<1>6. s \in Surjection(1 .. c, S)
  <2>1. c = Cardinality(S)
    BY DEF c
  <2> QED
    BY <1>2, <1>4, <1>5, <2>1, FS_Injection
<1>7. \A x \in S : \E i \in 1 .. c : s[i] = x
  BY <1>6 DEF Surjection
<1> QED
  BY <1>2, <1>3, <1>7 DEF c

\* Without the entries of messages that are done with, none of them being
\* POSTed, the view is sound, and saved.
LEMMA WithoutSound ==
  ASSUME NEW w \in World, NEW v, Sound(v, w), NEW keys,
         \A k \in keys : k \in Messages /\ w.run[k] \in Done /\ k # v.post,
         NEW u \in Without(v, keys)
  PROVE  Sound(u, w) /\ Keys(u.queue) = Keys(v.queue) \ keys
<1> DEFINE n == Len(v.queue)
           S == {i \in DOMAIN v.queue : v.queue[i].key \notin keys}
           c == Cardinality(S)
<1>1. v \in View /\ n \in Nat /\ DOMAIN v.queue = 1 .. n
  BY ViewFacts DEF Sound
<1>2. PICK s \in Ascending(S) :
        u = Save([v EXCEPT !.queue = [i \in DOMAIN s |-> v.queue[s[i]]]])
  BY DEF Without
<1>3. S \in SUBSET (1 .. n)
  BY <1>1
<1>4. /\ c \in Nat /\ c <= n
      /\ s \in [1 .. c -> S]
      /\ \A i, j \in 1 .. c : i < j => s[i] < s[j]
      /\ \A x \in S : \E i \in 1 .. c : s[i] = x
  <2> HIDE DEF S, n
  <2> QED
    BY <1>1, <1>3, AscendingFacts
<1> HIDE DEF c, n
<1> DEFINE q == [i \in 1 .. c |-> v.queue[s[i]]]
           x == [v EXCEPT !.queue = q]
<1>5. u = Save(x) /\ DOMAIN s = 1 .. c
  BY <1>2, <1>4
<1>6. \A i \in 1 .. c : s[i] \in DOMAIN v.queue /\ v.queue[s[i]].key \notin keys
  BY <1>4
<1>7. q \in Seq(Entry) /\ DOMAIN q = 1 .. c /\ Len(q) = c
  <2>1. \A i \in 1 .. c : v.queue[s[i]] \in Entry
    BY <1>1, <1>6, ViewFacts
  <2>2. q \in [1 .. c -> Entry]
    BY <2>1
  <2> HIDE DEF q
  <2> QED
    BY <1>4, <2>2
<1>8. \A i \in 1 .. c : q[i] = v.queue[s[i]]
  OBVIOUS
<1> HIDE DEF q
<1>9. /\ x \in View /\ x.queue = q /\ x.post = v.post /\ x.stream = v.stream
  BY <1>1, <1>7 DEF View
<1> HIDE DEF x
<1>10. /\ u \in View /\ u.queue = q /\ DOMAIN u.draft = 1 .. c
       /\ u.post = v.post /\ u.stream = v.stream
       /\ \A i \in 1 .. c : /\ u.draft[i].key = q[i].key
                            /\ u.draft[i].state = q[i].state
                            /\ u.draft[i].run = q[i].run
  BY <1>5, <1>7, <1>9, SaveFacts
<1> HIDE DEF S
<1>11. Keys(u.queue) = Keys(v.queue) \ keys
  <2>1. /\ Keys(u.queue) = {q[i].key : i \in 1 .. c}
        /\ Keys(v.queue) = {v.queue[i].key : i \in DOMAIN v.queue}
    BY <1>1, <1>7, <1>10, KeysFacts
  <2>2. ASSUME NEW k \in Keys(u.queue) PROVE k \in Keys(v.queue) /\ k \notin keys
    <3>1. PICK i \in 1 .. c : k = q[i].key
      BY <2>1, <2>2
    <3> QED
      BY <1>6, <1>8, <2>1, <3>1
  <2>3. ASSUME NEW k \in Keys(v.queue), k \notin keys PROVE k \in Keys(u.queue)
    <3>1. PICK j \in DOMAIN v.queue : k = v.queue[j].key
      BY <2>1, <2>3
    <3>2. j \in S
      BY <2>3, <3>1 DEF S
    <3>3. PICK i \in 1 .. c : s[i] = j
      BY <1>4, <3>2
    <3> QED
      BY <1>8, <2>1, <3>1, <3>3
  <2> QED
    BY <2>2, <2>3
<1>12. ASSUME NEW i \in 1 .. c
       PROVE  /\ q[i].key < w.next /\ Fits(q[i], w) /\ q[i].key \in Messages
              /\ q[i].state = "posting" <=> q[i].key = u.post
              /\ q[i].key = u.stream => q[i].run
  <2>1. s[i] \in DOMAIN v.queue /\ q[i] = v.queue[s[i]]
    BY <1>6, <1>8
  <2> QED
    BY <1>1, <1>10, <2>1, ViewFacts DEF Sound, Resident
<1>13. Resident(u, w) /\ Parallel(u)
  BY <1>7, <1>10, <1>12 DEF Resident, Parallel
<1>14. Sorted(u)
  <2>1. ASSUME NEW i \in 1 .. c, NEW j \in 1 .. c, i < j PROVE q[i].key < q[j].key
    BY <1>4, <1>6, <1>8, <2>1 DEF Sound, Sorted
  <2> QED
    BY <1>7, <1>10, <2>1 DEF Sorted
<1>15. Saved(u, w)
  BY <1>10, <1>12 DEF Saved, Honest, Fits
<1>16. Posting(u, w)
  <2> SUFFICES ASSUME u.post # None
               PROVE  /\ \E i \in DOMAIN u.queue :
                           u.queue[i].key = u.post /\ u.draft[i].state = "posting"
                      /\ Fenced(u.post, w)
    BY DEF Posting
  <2>1. v.post \in Keys(v.queue) /\ Fenced(v.post, w) /\ v.post \notin keys
    BY <1>10, PostFacts
  <2>2. u.post \in Keys(u.queue)
    BY <1>10, <1>11, <2>1
  <2>3. PICK i \in 1 .. c : q[i].key = u.post
    <3>1. Keys(u.queue) = {u.queue[i].key : i \in DOMAIN u.queue}
      BY <1>10, KeysFacts
    <3>2. \E i \in DOMAIN u.queue : u.queue[i].key = u.post
      BY <2>2, <3>1
    <3> QED
      BY <1>7, <1>10, <3>2
  <2>4. u.draft[i].state = "posting"
    BY <1>10, <1>12, <2>3
  <2> QED
    BY <1>7, <1>10, <2>1, <2>3, <2>4
<1>17. Gone(u, w)
  BY <1>11 DEF Sound, Gone
<1>18. Len(u.queue) <= QueueLimit /\ u.stream < w.next
  <2>1. n <= QueueLimit /\ v.stream < w.next
    BY DEF Sound, n
  <2> QED
    BY <1>1, <1>4, <1>7, <1>10, <2>1, QueueAssumption
<1> QED
  BY <1>10, <1>11, <1>13, <1>14, <1>15, <1>16, <1>17, <1>18 DEF Sound

\* The user dismisses a refused message.
LEMMA DismissKeeps ==
  ASSUME IInv, NEW k \in Messages, Dismiss(k)
  PROVE  IInv' /\ Retired' \in {Retired, Retired \cup {k}} /\ k < next /\ run[k] = "refused"
<1>1. PICK ok \in BOOLEAN, ok2 \in BOOLEAN :
        /\ Writes(ok /\ ok2)
        /\ IF ok THEN /\ \E remaining \in Without(view, {k}) : view' = PumpPosts(remaining, ok2)
                      /\ dismissed' = dismissed \cup {k}
           ELSE UNCHANGED <<view, dismissed>>
  BY DEF Dismiss
<1>2. /\ k \in Keys(view.queue) /\ At(view, k).state = "rejected"
      /\ UNCHANGED <<next, run, late, learned, snapshot>>
  BY DEF Dismiss
<1>3. /\ k < next /\ run[k] = "refused" /\ world.run[k] = "refused" /\ k # view.post
  BY <1>2, Start, AtSound, WorldFacts DEF Fits, Honest
<1>4. faults' \in 0 .. MaxFaults
  <2>1. (ok /\ ok2) \in BOOLEAN
    OBVIOUS
  <2> QED
    BY <1>1, <2>1, Start, WritesFacts
<1>5. ASSUME ~ok PROVE IInv' /\ Retired' = Retired
  <2>1. UNCHANGED <<next, run, late, history>> /\ view' = view
    BY <1>1, <1>2, <1>5 DEF history
  <2>2. Sound(view', world) /\ Same(view, view')
    BY <2>1, Start DEF Same
  <2> QED
    BY <1>4, <2>1, <2>2, ViewStep
<1>6. ASSUME ok PROVE IInv' /\ Retired' = Retired \cup {k}
  <2>1. PICK u \in Without(view, {k}) : view' = PumpPosts(u, ok2)
    BY <1>1, <1>6
  <2>2. dismissed' = dismissed \cup {k} /\ world' = world
    BY <1>1, <1>2, <1>6 DEF world
  <2>3. Sound(u, world) /\ Keys(u.queue) = Keys(view.queue) \ {k}
    <3>1. \A m \in {k} : m \in Messages /\ world.run[m] \in Done /\ m # view.post
      BY <1>3 DEF Done
    <3> QED
      BY <3>1, Start, WithoutSound
  <2>4. Sound(view', world) /\ Same(u, view')
    BY <2>1, <2>3, Start, PumpPostsSound
  <2>5. Keys(view'.queue) = Keys(view.queue) \ {k} /\ view' \in View /\ Parallel(view')
    BY <2>3, <2>4, SameKeys DEF Sound
  <2>6. Retired' = Retired \cup {k}
    <3>1. Retired = Sent \ Keys(view.queue)
      BY Start, RetiredFacts
    <3>2. Retired' = Sent' \ Keys(view'.queue)
      BY <2>5, DraftKeys DEF Retired
    <3>3. Sent' = Sent /\ k \in Sent
      BY <1>2, <1>3 DEF Sent
    <3> QED
      BY <1>2, <2>5, <3>1, <3>2, <3>3
  <2>7. Types' /\ Unsent' /\ LateFenced' /\ History' /\ RetiredIsShown'
    BY <1>2, <1>3, <1>4, <2>2, <2>6
       DEF IInv, Types, Unsent, LateFenced, History, RetiredIsShown
  <2>8. Sound(view', world')
    BY <2>2, <2>4
  <2>9. IInv'
    BY <2>7, <2>8 DEF IInv
  <2> QED
    BY <2>6, <2>9
<1>7. IInv' /\ Retired' \in {Retired, Retired \cup {k}}
  BY <1>5, <1>6
<1> QED
  BY <1>3, <1>7

\* A reconciliation retires the entries it claimed, whose Runs are over.
LEMMA ReconciledKeeps ==
  ASSUME IInv, Reconciled
  PROVE  /\ IInv' /\ Retired' = Retired \cup view.recon.keys
         /\ \A k \in view.recon.keys : k \in Messages /\ k < next /\ run[k] = "over"
         /\ view.recon.keys \subseteq Keys(view.queue)
<1> DEFINE keys == view.recon.keys
<1>1. PICK u \in Without(view, keys) :
        view' = [u EXCEPT !.recon = Idle, !.required = FALSE, !.active = FALSE]
  BY DEF Reconciled
<1>2. /\ snapshot' = {m \in Messages : run[m] = "over"}
      /\ UNCHANGED <<next, run, late, learned, dismissed, faults>> /\ world' = world
      /\ \A k \in keys : k \in Keys(view.queue) /\ At(view, k).state = "reconciling"
  BY DEF Reconciled, Claimed, world
<1>3. \A k \in keys : /\ k \in Messages /\ k < next /\ run[k] = "over"
                      /\ world.run[k] = "over" /\ k # view.post
  BY <1>2, Start, AtSound, WorldFacts DEF Fits, Honest
<1> HIDE DEF keys
<1>4. Sound(u, world) /\ Keys(u.queue) = Keys(view.queue) \ keys
  <2>1. \A m \in keys : m \in Messages /\ world.run[m] \in Done /\ m # view.post
    BY <1>3 DEF Done
  <2> QED
    BY <1>1, <2>1, Start, WithoutSound
<1>5. /\ view' \in View /\ view'.queue = u.queue /\ view'.draft = u.draft
      /\ view'.post = u.post /\ view'.stream = u.stream
  BY <1>1, <1>4 DEF Sound, View, Idle
<1>6. Sound(view', world') /\ Parallel(view')
  BY <1>2, <1>4, <1>5, Start, Aside DEF Sound
<1>7. Retired' = Retired \cup keys
  <2>1. Retired = Sent \ Keys(view.queue)
    BY Start, RetiredFacts
  <2>2. Retired' = Sent' \ Keys(view'.queue)
    BY <1>5, <1>6, DraftKeys DEF Retired
  <2>3. Sent' = Sent /\ \A k \in keys : k \in Sent
    BY <1>2, <1>3 DEF Sent
  <2> QED
    BY <1>4, <1>5, <2>1, <2>2, <2>3
<1>8. Types' /\ Unsent' /\ LateFenced' /\ History' /\ RetiredIsShown'
  <2>1. Types /\ Unsent /\ LateFenced /\ History /\ RetiredIsShown
    BY DEF IInv
  <2>2. snapshot \subseteq snapshot' /\ keys \subseteq snapshot'
    BY <1>2, <1>3, <2>1 DEF Types, History
  <2> QED
    BY <1>2, <1>3, <1>7, <2>1, <2>2
       DEF Types, Unsent, LateFenced, History, RetiredIsShown
<1>9. IInv'
  BY <1>6, <1>8 DEF IInv
<1> QED
  BY <1>2, <1>3, <1>7, <1>9 DEF keys


-----------------------------------------------------------------------------
(* A restart, and a new message.                                           *)

\* What an entry restored from the cache is, and that it may claim no more.
LEMMA RestoredFacts ==
  ASSUME NEW w \in World, NEW c \in CachedEntry, Honest(c, w)
  PROVE  /\ Restored(c) \in Entry /\ Restored(c).key = c.key
         /\ Fits(Restored(c), w)
         /\ Restored(c).state # "posting"
         /\ Restored(c).state = "queued" => c.state = "queued"
<1> DEFINE state == CASE c.state = "posting" -> "unknown"
                      [] c.state = "observing" -> "accepted"
                      [] c.state = "reconciling" -> "terminal"
                      [] OTHER -> c.state
           r == [NewEntry(c.key) EXCEPT
                   !.state = state, !.run = c.run, !.end = c.end, !.checked = c.checked,
                   !.approval = c.approval, !.reobserve = state \in {"accepted", "terminal"}]
<1>1. Restored(c) = r
  BY DEF Restored
<1>2. /\ c.key \in Messages /\ c.state \in EntryStates /\ c.run \in BOOLEAN
      /\ c.end \in Ends /\ c.checked \in BOOLEAN /\ c.approval \in BOOLEAN
  BY DEF CachedEntry
<1>3. /\ state \in EntryStates /\ state \notin {"posting", "observing", "reconciling"}
      /\ state = "queued" => c.state = "queued"
      /\ state = "rejected" => c.state = "rejected"
      /\ c.state \in Known <=> state \in Known
      /\ state \in Postable => c.state \in Postable \cup {"posting"}
  BY <1>2 DEF EntryStates, Postable, Known
<1> HIDE DEF state
<1>4. (state \in {"accepted", "terminal"}) \in BOOLEAN
  OBVIOUS
<1>5. /\ r \in Entry /\ r.key = c.key /\ r.state = state /\ r.run = c.run
      /\ r.verified = FALSE /\ r.get = "none" /\ r.del = "none"
  BY <1>2, <1>3, <1>4 DEF Entry, NewEntry, Ends
<1> HIDE DEF r
<1>6. Honest(r, w)
  BY <1>3, <1>5 DEF Honest
<1> QED
  BY <1>1, <1>3, <1>5, <1>6 DEF Fits

\* The buffer opened again from its cache is sound.
LEMMA ReopenedSound ==
  ASSUME IInv, NEW v \in View, v.draft = view.draft,
         v.queue = [i \in DOMAIN view.draft |-> Restored(view.draft[i])],
         v.post = None, v.stream = None
  PROVE  Sound(v, world) /\ Same(view, v)
<1> DEFINE d == view.draft
           q == [i \in DOMAIN d |-> Restored(d[i])]
<1>1. /\ world \in World /\ Sound(view, world) /\ view \in View
      /\ DOMAIN d = DOMAIN view.queue /\ d \in Seq(CachedEntry)
      /\ DOMAIN view.queue = 1 .. Len(view.queue) /\ Len(view.queue) \in Nat
      /\ \A i \in DOMAIN d : d[i] \in CachedEntry /\ d[i].key = view.queue[i].key
  BY Start, ViewFacts DEF Sound, Parallel
<1>2. \A i \in DOMAIN d : Honest(d[i], world)
  BY <1>1 DEF Sound, Saved
<1>3. \A i \in DOMAIN d : q[i] = Restored(d[i])
  OBVIOUS
<1>4. v.queue = q /\ DOMAIN q = DOMAIN d
  OBVIOUS
<1> HIDE DEF q
<1>5. Len(v.queue) = Len(view.queue)
  <2>1. v.queue \in Seq(Entry)
    BY DEF View
  <2> QED
    BY <1>1, <1>4, <2>1
<1>6. \A i \in DOMAIN d : /\ v.queue[i].key = d[i].key /\ Fits(v.queue[i], world)
                          /\ v.queue[i].state # "posting"
                          /\ v.queue[i].key \in Messages
  <2>1. ASSUME NEW i \in DOMAIN d
        PROVE  /\ q[i] \in Entry /\ q[i].key = d[i].key /\ Fits(q[i], world)
               /\ q[i].state # "posting"
    BY <1>1, <1>2, <1>3, RestoredFacts
  <2> QED
    BY <1>4, <2>1 DEF Entry
<1>7. Same(view, v)
  BY <1>1, <1>4, <1>5, <1>6 DEF Same
<1>8. Keys(v.queue) = Keys(view.queue)
  BY <1>1, <1>7, SameKeys
<1>9. Resident(v, world)
  <2>1. \A i \in DOMAIN d : view.queue[i].key < world.next
    BY <1>1 DEF Sound, Resident
  <2>2. \A i \in DOMAIN d : v.queue[i].key # None
    BY <1>6 DEF Messages, None
  <2> QED
    BY <1>1, <1>4, <1>6, <2>1, <2>2 DEF Resident
<1>10. Parallel(v) /\ Sorted(v) /\ Saved(v, world)
  <2>1. Parallel(v)
    BY <1>4, <1>6 DEF Parallel
  <2>2. Sorted(v)
    BY <1>1, <1>4, <1>6 DEF Sound, Sorted
  <2>3. Saved(v, world)
    BY <1>2 DEF Saved
  <2> QED
    BY <2>1, <2>2, <2>3
<1>11. Posting(v, world) /\ Gone(v, world)
  BY <1>1, <1>8 DEF Posting, Sound, Gone
<1>12. Len(v.queue) <= QueueLimit /\ v.stream < world.next
  BY <1>1, <1>5 DEF Sound, None, World
<1> QED
  BY <1>7, <1>9, <1>10, <1>11, <1>12 DEF Sound

\* Emacs dies and opens the thread again.
LEMMA RestartKeeps ==
  ASSUME IInv, Restart
  PROVE  IInv' /\ Retired' = Retired
<1> DEFINE q == [i \in DOMAIN view.draft |-> Restored(view.draft[i])]
           changed == \E i \in DOMAIN q : view.draft[i].state # q[i].state
           required == \E i \in DOMAIN q : q[i].state = "terminal"
           v(ok) == [view EXCEPT !.queue = q, !.post = None, !.stream = None, !.join = None,
                             !.recon = Idle, !.active = FALSE, !.required = required,
                             !.paused = changed /\ ~ok /\ required]
<1>1. PICK ok \in BOOLEAN, ok2 \in BOOLEAN, ok3 \in BOOLEAN, ok4 \in BOOLEAN,
           room \in BOOLEAN, started \in BOOLEAN :
        /\ Writes(ok /\ ok2 /\ ok3 /\ ok4)
        /\ LET normal == IF changed /\ ok THEN Save(v(ok)) ELSE v(ok)
           IN  view' = IF required \/ ~started \/ (changed /\ ~ok) THEN normal
                       ELSE ReconcileWhenSettled(
                              StartNextObservation(PumpPosts(normal, ok2), FALSE, ok3, room), ok4)
  BY DEF Restart
<1>2. /\ UNCHANGED <<next, run, history>>
      /\ late' = IF view.post # None /\ run[view.post] = "none"
                 THEN late \cup {view.post} ELSE late
  BY DEF Restart
<1>3. faults' \in 0 .. MaxFaults
  <2>1. (ok /\ ok2 /\ ok3 /\ ok4) \in BOOLEAN
    OBVIOUS
  <2> QED
    BY <1>1, <2>1, Start, WritesFacts
<1>4. /\ Types' /\ Unsent' /\ LateFenced' /\ History'
      /\ world' \in World /\ world'.next = world.next /\ world'.run = world.run
      /\ world'.learned = world.learned
      /\ \A m \in Messages : m \in world'.late => m \in world.late \/ m = view.post
  BY <1>2, <1>3, LateStep
<1>5. /\ world \in World /\ Sound(view, world) /\ view \in View
      /\ DOMAIN view.draft = DOMAIN view.queue
      /\ DOMAIN view.queue = 1 .. Len(view.queue) /\ Len(view.queue) \in Nat
      /\ \A i \in DOMAIN view.draft : /\ view.draft[i] \in CachedEntry
                                      /\ Honest(view.draft[i], world)
                                      /\ view.draft[i].key \in Messages
  BY Start, ViewFacts DEF Sound, Parallel, Saved, CachedEntry
<1>6. \A i \in DOMAIN view.draft :
        /\ q[i] \in Entry /\ q[i].key = view.draft[i].key
        /\ q[i].state = "queued" => view.draft[i].state = "queued"
        /\ Honest(q[i], world)
  BY <1>5, RestoredFacts DEF Fits
<1>7. q \in Seq(Entry)
  <2>1. q \in [1 .. Len(view.queue) -> Entry]
    BY <1>5, <1>6
  <2> HIDE DEF q
  <2> QED
    BY <1>5, <2>1
<1>8. required \in BOOLEAN /\ changed \in BOOLEAN
  OBVIOUS
<1>9. DOMAIN q = DOMAIN view.draft
  OBVIOUS
<1> DEFINE x == v(ok)
           normal == IF changed /\ ok THEN Save(x) ELSE x
           p == PumpPosts(normal, ok2)
           o == StartNextObservation(p, FALSE, ok3, room)
           r == ReconcileWhenSettled(o, ok4)
<1>10. view' = normal \/ view' = r
  BY <1>1
<1> HIDE DEF changed, required
<1>11. x = [view EXCEPT !.queue = q, !.post = None, !.stream = None, !.join = None,
                        !.recon = Idle, !.active = FALSE, !.required = required,
                        !.paused = changed /\ ~ok /\ required]
  OBVIOUS
<1>12. \E b \in BOOLEAN : normal = IF b THEN Save(x) ELSE x
  <2>1. (changed /\ ok) \in BOOLEAN
    BY <1>8
  <2> HIDE DEF x
  <2> QED
    BY <2>1
<1> HIDE DEF v, x, normal
<1>13. /\ x \in View /\ x.queue = q /\ x.draft = view.draft
       /\ x.post = None /\ x.stream = None
  <2>1. (changed /\ ~ok /\ required) \in BOOLEAN
    BY <1>8
  <2> HIDE DEF q
  <2> QED
    BY <1>5, <1>7, <1>8, <1>11, <2>1 DEF View, Idle
<1>14. Sound(x, world) /\ Same(view, x)
  <2>1. x.queue = [i \in DOMAIN view.draft |-> Restored(view.draft[i])]
    BY <1>13
  <2> QED
    BY <1>13, <2>1, ReopenedSound
<1>15. ASSUME NEW i \in DOMAIN x.queue
       PROVE  Honest(x.queue[i], world') /\ Honest(x.draft[i], world')
  <2>1. i \in DOMAIN view.draft /\ x.queue[i] = q[i]
    BY <1>9, <1>13
  <2>2. /\ Honest(q[i], world) /\ Honest(view.draft[i], world)
        /\ q[i].key = view.draft[i].key /\ view.draft[i].key \in Messages
        /\ q[i].state = "queued" => view.draft[i].state = "queued"
    BY <1>5, <1>6, <2>1
  <2>3. view.draft[i].key = view.post => view.draft[i].state = "posting"
    <3>1. view.draft[i].key # None
      BY <2>2 DEF Messages, None
    <3> QED
      BY <1>5, <2>1, <3>1, PostFacts
  <2> HIDE DEF q
  <2>4. Honest(q[i], world') /\ Honest(view.draft[i], world')
    BY <1>4, <2>2, <2>3 DEF Honest
  <2> QED
    BY <1>13, <2>1, <2>4
<1>16. Sound(x, world')
  BY <1>4, <1>5, <1>14, <1>15, WorldMoves
<1>17. Sound(normal, world') /\ Same(x, normal)
  BY <1>4, <1>12, <1>16, SaveOrNot
<1>18. Sound(p, world') /\ Same(normal, p)
  BY <1>4, <1>17, PumpPostsSound
<1> HIDE DEF p
<1>19. Sound(o, world') /\ Same(p, o)
  BY <1>4, <1>18, StartNextObservationSound
<1> HIDE DEF o
<1>20. Sound(r, world') /\ Same(o, r)
  BY <1>4, <1>19, ReconcileWhenSettledSound
<1> HIDE DEF r
<1>21. Sound(view', world') /\ Same(view, view')
  BY <1>10, <1>14, <1>17, <1>18, <1>19, <1>20, SameTwice
<1>22. Retired' = Retired /\ RetiredIsShown'
  BY <1>2, <1>21, SameRetired DEF history
<1>23. IInv'
  BY <1>4, <1>21, <1>22 DEF IInv
<1> QED
  BY <1>22, <1>23


Appended(v, m) == Save([v EXCEPT !.queue = Append(@, NewEntry(m))])

\* A new message goes to the end of the queue and into the cache.
LEMMA AppendSound ==
  ASSUME NEW w \in World, NEW v \in View, Sound(v, w), Len(v.queue) < QueueLimit,
         NEW m \in Messages, m = w.next, w.run[m] = "none",
         m \notin w.late, m \notin w.learned,
         NEW z \in World, z.next = m + 1, z.run = w.run, z.late = w.late, z.learned = w.learned
  PROVE  /\ Sound(Appended(v, m), z)
         /\ Keys(Appended(v, m).queue) = Keys(v.queue) \cup {m}
         /\ Appended(v, m).queue # <<>>
<1> DEFINE f == NewEntry(m)
           n == Len(v.queue)
           q == Append(v.queue, f)
           x == [v EXCEPT !.queue = q]
           u == Save(x)
<1>1. /\ v \in View /\ v.queue \in Seq(Entry) /\ n \in Nat
      /\ DOMAIN v.queue = 1 .. n /\ m \in Nat
      /\ \A i \in 1 .. n : v.queue[i].key \in Messages
  BY ViewFacts DEF Sound, Messages
<1>0. /\ f \in Entry /\ f.key = m /\ f.state = "queued" /\ f.run = FALSE
      /\ f.verified = FALSE /\ f.get = "none" /\ f.del = "none"
  BY DEF NewEntry, Entry, EntryStates, Postable, Ends
<1> HIDE DEF f
<1>2. /\ f \in Entry /\ f.key = m /\ f.state = "queued" /\ ~f.run /\ Fits(f, z)
  <2>1. z.run[m] = "none" /\ m \notin z.late /\ m \notin z.learned
    OBVIOUS
  <2>2. "queued" \notin Known
    BY DEF Known
  <2>3. f.run = (f.state \in Known)
    <3>1. f.state \notin Known
      BY <1>0, <2>2
    <3>2. (f.state \in Known) = FALSE
      BY <3>1
    <3> QED
      BY <1>0, <3>2
  <2>4. Honest(f, z)
    <3>1. f.state = "queued" => z.run[f.key] = "none" /\ f.key \notin z.late
      BY <1>0, <2>1
    <3>2. f.state # "rejected" /\ f.state # "reconciling" /\ ~f.run
      BY <1>0
    <3>3. f.key \notin z.learned
      BY <1>0, <2>1
    <3> QED
      BY <2>3, <3>1, <3>2, <3>3, Zenon DEF Honest
  <2> QED
    BY <1>0, <2>4 DEF Fits
<1>3. /\ q \in Seq(Entry) /\ Len(q) = n + 1 /\ DOMAIN q = 1 .. n + 1
      /\ q[n + 1] = f /\ \A i \in 1 .. n : q[i] = v.queue[i]
  BY <1>1, <1>2
<1> HIDE DEF q
<1>4. x \in View /\ x.queue = q /\ x.post = v.post /\ x.stream = v.stream
  BY <1>1, <1>3 DEF View
<1> HIDE DEF x
<1>5. /\ u \in View /\ u.queue = q /\ DOMAIN u.draft = 1 .. n + 1
      /\ u.post = v.post /\ u.stream = v.stream
      /\ \A i \in 1 .. n + 1 : /\ u.draft[i].key = q[i].key
                               /\ u.draft[i].state = q[i].state
                               /\ u.draft[i].run = q[i].run
  BY <1>3, <1>4, SaveFacts
<1> HIDE DEF u
<1>6. Keys(u.queue) = Keys(v.queue) \cup {m}
  <2>1. /\ Keys(u.queue) = {q[i].key : i \in 1 .. n + 1}
        /\ Keys(v.queue) = {v.queue[i].key : i \in 1 .. n}
    BY <1>1, <1>3, <1>5, KeysFacts
  <2>2. ASSUME NEW k \in Keys(u.queue) PROVE k \in Keys(v.queue) \cup {m}
    <3>1. PICK i \in 1 .. n + 1 : k = q[i].key
      BY <2>1, <2>2
    <3>2. CASE i = n + 1
      BY <1>2, <1>3, <3>1, <3>2
    <3>3. CASE i # n + 1
      <4>1. i \in 1 .. n
        BY <1>1, <3>3
      <4> QED
        BY <1>3, <2>1, <3>1, <4>1
    <3> QED
      BY <3>2, <3>3
  <2>3. ASSUME NEW k \in Keys(v.queue) \cup {m} PROVE k \in Keys(u.queue)
    <3>1. CASE k = m
      <4>1. n + 1 \in 1 .. n + 1 /\ q[n + 1].key = m
        BY <1>1, <1>2, <1>3
      <4> QED
        BY <2>1, <3>1, <4>1
    <3>2. CASE k \in Keys(v.queue)
      <4>1. PICK i \in 1 .. n : k = v.queue[i].key
        BY <2>1, <3>2
      <4>2. i \in 1 .. n + 1 /\ q[i].key = k
        BY <1>1, <1>3, <4>1
      <4> QED
        BY <2>1, <4>2
    <3> QED
      BY <2>3, <3>1, <3>2
  <2> QED
    BY <2>2, <2>3
<1>7. v.post # m /\ v.stream # m /\ v.stream < z.next
  <2>1. v.stream < m /\ v.stream \in Nat
    BY <1>1 DEF Sound, View, Messages, None
  <2>2. v.post # None => v.post < m
    BY PostFacts, AtSound
  <2> QED
    BY <1>1, <2>1, <2>2 DEF Messages, None
<1>8. ASSUME NEW i \in 1 .. n + 1
      PROVE  /\ q[i].key < z.next /\ Fits(q[i], z)
             /\ q[i].state = "posting" <=> q[i].key = u.post
             /\ q[i].key = u.stream => q[i].run
  <2>1. CASE i = n + 1
    BY <1>1, <1>2, <1>3, <1>5, <1>7, <2>1
  <2>2. CASE i # n + 1
    <3>1. i \in 1 .. n /\ q[i] = v.queue[i]
      BY <1>1, <1>3, <2>2
    <3>2. /\ v.queue[i].key < w.next /\ Fits(v.queue[i], w) /\ v.queue[i].key \in Nat
          /\ v.queue[i].state = "posting" <=> v.queue[i].key = v.post
          /\ v.queue[i].key = v.stream => v.queue[i].run
      BY <1>1, <3>1 DEF Sound, Resident, Messages
    <3>3. Fits(v.queue[i], z)
      BY <3>2 DEF Fits, Honest
    <3>4. v.queue[i].key < z.next
      BY <1>1, <3>2
    <3> QED
      BY <1>5, <3>1, <3>2, <3>3, <3>4
  <2> QED
    BY <2>1, <2>2
<1>9. Resident(u, z) /\ Parallel(u)
  BY <1>3, <1>5, <1>8 DEF Resident, Parallel
<1>10. Sorted(u)
  <2>1. ASSUME NEW i \in 1 .. n + 1, NEW j \in 1 .. n + 1, i < j
        PROVE  q[i].key < q[j].key
    <3>1. i \in 1 .. n /\ q[i] = v.queue[i]
      BY <1>1, <1>3, <2>1
    <3>2. CASE j = n + 1
      BY <1>1, <1>2, <1>3, <3>1, <3>2 DEF Sound, Resident
    <3>3. CASE j # n + 1
      <4>1. j \in 1 .. n
        BY <1>1, <3>3
      <4>2. q[j] = v.queue[j]
        BY <1>3, <4>1
      <4> QED
        BY <1>1, <2>1, <3>1, <4>1, <4>2 DEF Sound, Sorted
    <3> QED
      BY <3>2, <3>3
  <2> QED
    BY <1>3, <1>5, <2>1 DEF Sorted
<1>11. Saved(u, z)
  BY <1>5, <1>8 DEF Saved, Honest, Fits
<1>12. Posting(u, z)
  <2> SUFFICES ASSUME u.post # None
               PROVE  /\ \E i \in DOMAIN u.queue :
                           u.queue[i].key = u.post /\ u.draft[i].state = "posting"
                      /\ Fenced(u.post, z)
    BY DEF Posting
  <2>1. PICK i \in 1 .. n : v.queue[i].key = v.post
    BY <1>1, <1>5 DEF Sound, Posting
  <2>2. i \in 1 .. n + 1 /\ q[i].key = u.post
    BY <1>1, <1>3, <1>5, <2>1
  <2>3. u.draft[i].state = "posting"
    BY <1>5, <1>8, <2>2
  <2>4. Fenced(u.post, z)
    BY <1>5 DEF Sound, Posting, Fenced
  <2> QED
    BY <1>3, <1>5, <2>2, <2>3, <2>4
<1>13. Gone(u, z)
  <2>1. ASSUME NEW k \in Messages, k < z.next, k \notin Keys(u.queue)
        PROVE  z.run[k] \in Done
    <3>1. k < w.next
      BY <1>1, <1>6, <2>1 DEF Messages
    <3> QED
      BY <1>6, <2>1, <3>1 DEF Sound, Gone
  <2> QED
    BY <2>1 DEF Gone
<1>14. Len(u.queue) <= QueueLimit /\ u.stream < z.next /\ u.queue # <<>>
  BY <1>1, <1>3, <1>5, <1>7, QueueAssumption
<1>15. Sound(u, z)
  BY <1>5, <1>9, <1>10, <1>11, <1>12, <1>13, <1>14 DEF Sound
<1>16. Appended(v, m) = u
  BY DEF Appended, u, x, q, f
<1> QED
  BY <1>6, <1>14, <1>15, <1>16

\* The user sends the next message.
LEMMA SendKeeps ==
  ASSUME IInv, NEW m \in Messages, Send(m)
  PROVE  /\ IInv' /\ Retired' = Retired /\ m = next
         /\ next' \in {next, m + 1} /\ UNCHANGED <<run, late, history>>
<1> DEFINE stale == [view EXCEPT !.recon.fresh = FALSE]
           queued == Appended(stale, m)
           v(ok) == IF ok THEN queued ELSE stale
<1>1. PICK ok \in BOOLEAN, ok2 \in BOOLEAN :
        /\ Writes(ok /\ ok2)
        /\ view' = IF HeadState(view) \in {"unknown", "retryable"}
                   THEN StartPost(v(ok), Head(v(ok).queue).key, ok2)
                   ELSE IF ok THEN PumpPosts(v(ok), ok2) ELSE v(ok)
        /\ next' = IF ok THEN m + 1 ELSE m
  BY DEF Send, Appended
<1>2. /\ m = next /\ Len(view.queue) < QueueLimit /\ UNCHANGED <<run, late, history>>
  BY DEF Send
<1>3. faults' \in 0 .. MaxFaults
  <2>1. (ok /\ ok2) \in BOOLEAN
    OBVIOUS
  <2> QED
    BY <1>1, <2>1, Start, WritesFacts
<1>4. /\ stale \in View /\ stale.queue = view.queue /\ stale.draft = view.draft
      /\ stale.post = view.post /\ stale.stream = view.stream
  BY Start DEF View
<1> HIDE DEF stale
<1>5. Sound(stale, world) /\ Same(view, stale)
  BY <1>4, Start, Aside
<1>6. /\ Types /\ Unsent /\ LateFenced /\ History /\ RetiredIsShown
      /\ world \in World /\ Sound(view, world) /\ view \in View
      /\ world.next = next /\ world.run = run /\ world.late = late /\ world.learned = learned
  BY Start, WorldFacts DEF IInv
\* A queue of which a head is retried is not empty.
<1>7. ASSUME NEW w \in World, NEW x, Sound(x, w), Same(stale, x) \/ x.queue # <<>>,
             view' = IF HeadState(view) \in {"unknown", "retryable"}
                     THEN StartPost(x, Head(x.queue).key, ok2)
                     ELSE IF ok THEN PumpPosts(x, ok2) ELSE x
      PROVE  Sound(view', w) /\ Same(x, view')
  <2>1. CASE HeadState(view) \in {"unknown", "retryable"}
    <3>1. view.queue # <<>>
      BY <2>1 DEF HeadState
    <3>2. x.queue # <<>>
      <4>1. x \in View
        BY <1>7 DEF Sound
      <4> QED
        BY <1>4, <1>6, <1>7, <3>1, <4>1 DEF Same, View
    <3>3. Head(x.queue).key \in Keys(x.queue) /\ Fenced(Head(x.queue).key, w)
      BY <1>7, <3>2, HeadFacts
    <3> QED
      BY <1>7, <2>1, <3>3, StartPostSound
  <2>2. CASE HeadState(view) \notin {"unknown", "retryable"} /\ ok
    BY <1>7, <2>2, PumpPostsSound
  <2>3. CASE HeadState(view) \notin {"unknown", "retryable"} /\ ~ok
    BY <1>7, <2>3 DEF Same
  <2> QED
    BY <2>1, <2>2, <2>3
<1>8. ASSUME ok PROVE IInv' /\ Retired' = Retired
  <2>1. next' = m + 1
    BY <1>1, <1>8
  <2>2. run[m] = "none" /\ m \notin late \cup learned
    BY <1>2, <1>6, QueueAssumption DEF Unsent, Types, Messages
  <2>3. Types' /\ Unsent' /\ History'
    BY <1>2, <1>3, <1>6, <2>1, QueueAssumption
       DEF Types, Unsent, History, history, Messages
  <2>4. /\ world' \in World /\ world'.next = m + 1 /\ world'.run = run
        /\ world'.late = late /\ world'.learned = learned
    BY <1>2, <2>1, <2>3, NextWorldFacts DEF history
  <2>5. /\ Sound(queued, world') /\ Keys(queued.queue) = Keys(stale.queue) \cup {m}
        /\ queued.queue # <<>>
    <3>1. Len(stale.queue) < QueueLimit
      BY <1>2, <1>4
    <3>2. m = world.next /\ world.run[m] = "none" /\ m \notin world.late
          /\ m \notin world.learned
      BY <1>2, <1>6, <2>2
    <3>3. /\ world'.run = world.run /\ world'.late = world.late
          /\ world'.learned = world.learned
      BY <1>6, <2>4
    <3>4. Sound(stale, world) /\ world \in World /\ world' \in World /\ world'.next = m + 1
      BY <1>5, <1>6, <2>4
    <3>5. ASSUME NEW w \in World, NEW z \in World, Sound(stale, w),
                 m = w.next, w.run[m] = "none", m \notin w.late, m \notin w.learned,
                 z.next = m + 1, z.run = w.run, z.late = w.late, z.learned = w.learned
          PROVE  /\ Sound(queued, z) /\ Keys(queued.queue) = Keys(stale.queue) \cup {m}
                 /\ queued.queue # <<>>
      <4>1. stale \in View /\ Len(stale.queue) < QueueLimit
        BY <1>4, <3>1
      <4>2. /\ Sound(Appended(stale, m), z)
            /\ Keys(Appended(stale, m).queue) = Keys(stale.queue) \cup {m}
            /\ Appended(stale, m).queue # <<>>
        BY <4>1, <3>5, AppendSound
      <4> QED
        BY <4>2
    <3> QED
      BY <3>2, <3>3, <3>4, <3>5
  <2>6. v(ok) = queued
    BY <1>8
  <2> HIDE DEF queued, v
  <2>7. Sound(view', world') /\ Same(queued, view')
    BY <1>1, <1>7, <2>4, <2>5, <2>6
  <2>8. Keys(view'.queue) = Keys(view.queue) \cup {m} /\ view' \in View /\ Parallel(view')
    BY <1>4, <2>5, <2>7, SameKeys DEF Sound
  <2>9. Retired' = Retired
    <3>1. Retired = Sent \ Keys(view.queue)
      BY Start, RetiredFacts
    <3>2. Retired' = Sent' \ Keys(view'.queue)
      BY <2>8, DraftKeys DEF Retired
    <3>3. Sent' = Sent \cup {m} /\ m \notin Sent
      BY <1>2, <1>6, <2>1, QueueAssumption DEF Sent, Messages, Types
    <3> QED
      BY <2>8, <3>1, <3>2, <3>3
  <2>10. LateFenced'
    BY <1>2, <1>6, <2>4 DEF LateFenced, Fenced
  <2>11. RetiredIsShown'
    BY <1>2, <1>6, <2>9 DEF RetiredIsShown, history
  <2>12. IInv'
    BY <2>3, <2>7, <2>10, <2>11 DEF IInv
  <2> QED
    BY <2>9, <2>12
<1>9. ASSUME ~ok PROVE IInv' /\ Retired' = Retired
  <2>1. UNCHANGED <<next, run, late, history>> /\ v(ok) = stale
    BY <1>1, <1>2, <1>9
  <2> HIDE DEF queued, v
  <2>2. Same(stale, stale)
    BY DEF Same
  <2>3. Sound(view', world) /\ Same(stale, view')
    BY <1>1, <1>5, <1>6, <1>7, <2>1, <2>2
  <2>4. Same(view, view')
    BY <1>5, <2>3, SameTwice
  <2> QED
    BY <1>3, <2>1, <2>3, <2>4, ViewStep
<1>10. next' \in {next, m + 1}
  BY <1>1, <1>2
<1>11. IInv' /\ Retired' = Retired
  BY <1>8, <1>9
<1> QED
  BY <1>2, <1>10, <1>11


-----------------------------------------------------------------------------
(* The theorems.                                                           *)

\* The handlers that change the view and nothing of the world.
ViewOnly ==
  \/ SendAgain \/ RefreshRecovery \/ RefreshObserver \/ RefreshHead \/ AbortRun
  \/ PostUnavailable \/ PostRejected \/ ObserverEnds \/ StreamFinish \/ FinishActiveJoin
  \/ \E k \in Messages :
       \/ RunReadFails(k) \/ RunReadInvalid(k)
       \/ RunReadStops(k) \/ RunReadActive(k) \/ RunReadOver(k)
       \/ CancelConfirmed(k) \/ CancelUnconfirmed(k) \/ AnswersGet(k)

\* They leave the world alone, and count their failed writes.
LEMMA ViewOnlyFrame ==
  ASSUME IInv, ViewOnly
  PROVE  UNCHANGED <<next, run, late, history>> /\ faults' \in 0 .. MaxFaults
<1>1. UNCHANGED <<next, run, late, history>>
  BY DEF ViewOnly, SendAgain, RefreshRecovery, RefreshObserver, RefreshHead, AbortRun,
         PostUnavailable, PostRejected, ObserverEnds, StreamFinish, FinishActiveJoin,
         RunReadFails, RunReadInvalid, RunReadStops, RunReadActive, RunReadOver,
         CancelConfirmed, CancelUnconfirmed, AnswersGet
<1>2. faults' = faults \/ \E all \in BOOLEAN : Writes(all)
  <2>1. CASE SendAgain
    BY <2>1 DEF SendAgain
  <2>2. CASE RefreshRecovery
    BY <2>2 DEF RefreshRecovery
  <2>3. CASE RefreshObserver
    BY <2>3 DEF RefreshObserver
  <2>4. CASE RefreshHead
    BY <2>4 DEF RefreshHead
  <2>5. CASE AbortRun
    BY <2>5 DEF AbortRun
  <2>6. CASE PostUnavailable
    BY <2>6 DEF PostUnavailable
  <2>7. CASE PostRejected
    <3>1. PICK ok \in BOOLEAN, ok2 \in BOOLEAN : Writes(ok /\ ok2)
      BY <2>7 DEF PostRejected
    <3>2. (ok /\ ok2) \in BOOLEAN
      OBVIOUS
    <3> QED
      BY <3>1, <3>2
  <2>8. CASE ObserverEnds
    BY <2>8 DEF ObserverEnds
  <2>9. CASE StreamFinish
    <3>1. PICK ok \in BOOLEAN, ok2 \in BOOLEAN : Writes(ok /\ ok2)
      BY <2>9 DEF StreamFinish
    <3>2. (ok /\ ok2) \in BOOLEAN
      OBVIOUS
    <3> QED
      BY <3>1, <3>2
  <2>10. CASE FinishActiveJoin
    BY <2>10 DEF FinishActiveJoin
  <2>11. ASSUME NEW k \in Messages, RunReadFails(k)
         PROVE  faults' = faults \/ \E all \in BOOLEAN : Writes(all)
    BY <2>11 DEF RunReadFails
  <2>12. ASSUME NEW k \in Messages, RunReadInvalid(k) PROVE faults' = faults
    BY <2>12 DEF RunReadInvalid
  <2>13. ASSUME NEW k \in Messages, RunReadStops(k)
         PROVE  faults' = faults \/ \E all \in BOOLEAN : Writes(all)
    BY <2>13 DEF RunReadStops
  <2>14. ASSUME NEW k \in Messages, RunReadActive(k)
         PROVE  faults' = faults \/ \E all \in BOOLEAN : Writes(all)
    <3>1. PICK ok \in BOOLEAN, ok2 \in BOOLEAN, ok3 \in BOOLEAN : Writes(ok /\ ok2 /\ ok3)
      BY <2>14 DEF RunReadActive
    <3>2. (ok /\ ok2 /\ ok3) \in BOOLEAN
      OBVIOUS
    <3> QED
      BY <3>1, <3>2
  <2>15. ASSUME NEW k \in Messages, RunReadOver(k)
         PROVE  faults' = faults \/ \E all \in BOOLEAN : Writes(all)
    <3>1. PICK ok \in BOOLEAN, ok2 \in BOOLEAN, ok3 \in BOOLEAN, ok4 \in BOOLEAN :
            Writes(ok /\ ok2 /\ ok3 /\ ok4)
      BY <2>15 DEF RunReadOver
    <3>2. (ok /\ ok2 /\ ok3 /\ ok4) \in BOOLEAN
      OBVIOUS
    <3> QED
      BY <3>1, <3>2
  <2>16. ASSUME NEW k \in Messages, CancelConfirmed(k)
         PROVE  faults' = faults \/ \E all \in BOOLEAN : Writes(all)
    <3>1. PICK ok \in BOOLEAN, ok2 \in BOOLEAN, ok3 \in BOOLEAN : Writes(ok /\ ok2 /\ ok3)
      BY <2>16 DEF CancelConfirmed
    <3>2. (ok /\ ok2 /\ ok3) \in BOOLEAN
      OBVIOUS
    <3> QED
      BY <3>1, <3>2
  <2>17. ASSUME NEW k \in Messages, CancelUnconfirmed(k)
         PROVE  faults' = faults \/ \E all \in BOOLEAN : Writes(all)
    BY <2>17 DEF CancelUnconfirmed
  <2>18. ASSUME NEW k \in Messages, AnswersGet(k) PROVE faults' = faults
    BY <2>18 DEF AnswersGet
  <2> QED
    BY <2>1, <2>2, <2>3, <2>4, <2>5, <2>6, <2>7, <2>8, <2>9, <2>10, <2>11, <2>12, <2>13,
       <2>14, <2>15, <2>16, <2>17, <2>18 DEF ViewOnly
<1>3. faults \in 0 .. MaxFaults
  BY Start DEF Types
<1> QED
  BY <1>1, <1>2, <1>3, Start, WritesFacts

\* They keep the invariant, and what is retired.
LEMMA ViewOnlyKeeps ==
  ASSUME IInv, ViewOnly
  PROVE  /\ IInv' /\ Retired' = Retired /\ UNCHANGED <<next, run, late, history>>
         /\ Sound(view', world)
<1>1. UNCHANGED <<next, run, late, history>> /\ faults' \in 0 .. MaxFaults
  BY ViewOnlyFrame
<1>2. Sound(view', world) /\ Same(view, view')
  BY SendAgainSound, RefreshRecoverySound, RefreshObserverSound, RefreshHeadSound,
     AbortRunSound, PostUnavailableSound, PostRejectedSound, ObserverEndsSound,
     StreamFinishSound, FinishActiveJoinSound, RunReadFailsSound, RunReadInvalidSound,
     RunReadStopsSound, RunReadActiveSound, RunReadOverSound, CancelConfirmedSound,
     CancelUnconfirmedSound, AnswersGetSound DEF ViewOnly
<1> QED
  BY <1>1, <1>2, ViewStep

\* A reconciliation that fails may have saved the history.
LEMMA NotReconciledKeeps ==
  ASSUME IInv, NotReconciled
  PROVE  IInv' /\ Retired' = Retired /\ UNCHANGED <<next, run, late, learned, dismissed>>
<1>1. /\ UNCHANGED <<next, run, late, learned, dismissed>>
      /\ snapshot' \in {snapshot, {m \in Messages : run[m] = "over"}}
  BY DEF NotReconciled
<1>2. faults' \in 0 .. MaxFaults
  <2>1. PICK ok \in BOOLEAN, written \in BOOLEAN : Writes(ok /\ ~written)
    BY DEF NotReconciled
  <2>2. (ok /\ ~written) \in BOOLEAN
    OBVIOUS
  <2> QED
    BY <2>1, <2>2, Start, WritesFacts
<1>3. Sound(view', world) /\ Same(view, view') /\ world' = world
  BY <1>1, NotReconciledSound DEF world
<1>4. Retired' = Retired
  <2>1. view \in View /\ view' \in View /\ Parallel(view) /\ Parallel(view')
    BY <1>3, Start DEF Sound
  <2>2. Keys(view'.queue) = Keys(view.queue)
    BY <1>3, <2>1, SameKeys
  <2> QED
    BY <1>1, <2>1, <2>2, DraftKeys DEF Retired, Sent
<1>5. Types' /\ Unsent' /\ LateFenced' /\ History' /\ RetiredIsShown'
  <2>1. Types /\ Unsent /\ LateFenced /\ History /\ RetiredIsShown
    BY DEF IInv
  <2>2. snapshot \subseteq snapshot'
    BY <1>1, <2>1 DEF Types, History
  <2> QED
    BY <1>1, <1>2, <1>3, <1>4, <2>1, <2>2
       DEF Types, Unsent, LateFenced, History, RetiredIsShown
<1>6. Sound(view', world')
  BY <1>3
<1>7. IInv'
  BY <1>5, <1>6 DEF IInv
<1> QED
  BY <1>1, <1>4, <1>7

\* The next-state relation, by what its actions change.
LEMMA NextCases ==
  ASSUME Next
  PROVE  \/ ViewOnly \/ NotReconciled \/ Reconciled \/ Restart
         \/ AbortPost \/ PostFails \/ PostAccepted
         \/ \E m \in Messages : Send(m) \/ Dismiss(m) \/ Decides(m) \/ RunMoves(m) \/ Cancels(m)
BY DEF Next, Command, Reply, Server, ViewOnly

\* The invariant holds when the thread is opened for the first time.
LEMMA InitHolds == Init => IInv
<1> SUFFICES ASSUME Init PROVE IInv
  OBVIOUS
<1>1. /\ view = [queue |-> <<>>, draft |-> <<>>, post |-> None, stream |-> None,
                 join |-> None, recon |-> Idle, paused |-> FALSE,
                 required |-> FALSE, active |-> FALSE]
      /\ next = 1 /\ run = [m \in Messages |-> "none"]
      /\ late = {} /\ learned = {} /\ snapshot = {} /\ dismissed = {} /\ faults = 0
  BY DEF Init
<1>2. Types /\ Unsent /\ LateFenced /\ History
  BY <1>1, QueueAssumption DEF Types, Unsent, LateFenced, History
<1>3. /\ view \in View /\ view.queue = <<>> /\ view.draft = <<>>
      /\ view.post = None /\ view.stream = None
  BY <1>1 DEF View, Idle
<1>4. DOMAIN view.queue = {} /\ DOMAIN view.draft = {} /\ Len(view.queue) = 0
  BY <1>3
<1>5. Parallel(view) /\ Sorted(view) /\ Resident(view, world) /\ Saved(view, world)
  BY <1>4 DEF Parallel, Sorted, Resident, Saved
<1>6. Posting(view, world) /\ Gone(view, world) /\ view.stream < world.next
  <2>1. world.next = 1
    BY <1>1 DEF world
  <2> QED
    BY <1>3, <2>1 DEF Posting, Gone, Messages, None
<1>7. Sound(view, world)
  BY <1>3, <1>4, <1>5, <1>6, QueueAssumption DEF Sound
<1>8. RetiredIsShown
  BY <1>1, QueueAssumption DEF RetiredIsShown, Retired, Sent, Messages
<1> QED
  BY <1>2, <1>7, <1>8 DEF IInv

\* Every step keeps it.
LEMMA NextKeeps == IInv /\ [Next]_vars => IInv'
<1> SUFFICES ASSUME IInv, [Next]_vars PROVE IInv'
  OBVIOUS
<1>1. CASE Next
  <2>1. CASE ViewOnly
    BY <2>1, ViewOnlyKeeps
  <2>2. CASE NotReconciled
    BY <2>2, NotReconciledKeeps
  <2>3. CASE Reconciled
    BY <2>3, ReconciledKeeps
  <2>4. CASE Restart
    BY <2>4, RestartKeeps
  <2>5. CASE AbortPost \/ PostFails
    BY <2>5, AbandonKeeps
  <2>6. CASE PostAccepted
    BY <2>6, PostAcceptedKeeps
  <2>7. ASSUME NEW m \in Messages, Send(m) PROVE IInv'
    BY <2>7, SendKeeps
  <2>8. ASSUME NEW m \in Messages, Dismiss(m) PROVE IInv'
    BY <2>8, DismissKeeps
  <2>9. ASSUME NEW m \in Messages, Decides(m) PROVE IInv'
    BY <2>9, DecidesKeeps
  <2>10. ASSUME NEW m \in Messages, RunMoves(m) PROVE IInv'
    BY <2>10, RunMovesKeeps
  <2>11. ASSUME NEW m \in Messages, Cancels(m) PROVE IInv'
    BY <2>11, CancelsKeeps
  <2> QED
    BY <1>1, <2>1, <2>2, <2>3, <2>4, <2>5, <2>6, <2>7, <2>8, <2>9, <2>10, <2>11, NextCases
<1>2. CASE UNCHANGED vars
  <2>1. UNCHANGED <<view, next, run, late, learned, snapshot, dismissed, faults>>
    BY <1>2 DEF vars
  <2>2. world' = world /\ Retired' = Retired
    BY <2>1 DEF world, Retired, Sent
  <2>3. Sound(view', world')
    BY <2>1, <2>2 DEF IInv
  <2>4. Types' /\ Unsent' /\ LateFenced' /\ History' /\ RetiredIsShown'
    BY <2>1, <2>2 DEF IInv, Types, Unsent, LateFenced, History, RetiredIsShown
  <2> QED
    BY <2>3, <2>4 DEF IInv
<1> QED
  BY <1>1, <1>2

\* The view is sound in every reachable state, and what it rests on holds.
THEOREM Inductive == Spec => []IInv
BY InitHolds, NextKeeps, PTL DEF Spec


\* A message that has left the saved queue is in the saved history, or its
\* refusal was dismissed (reconcile-queue writes the snapshot first).
THEOREM RetiredStaysShown == Spec => []RetiredIsShown
<1>1. IInv => RetiredIsShown
  BY DEF IInv
<1> QED
  BY <1>1, Inductive, PTL

\* What the draft cache says of a message holds of the server, whichever
\* writes failed and whenever Emacs dies (start-post, restore-draft).
THEOREM CacheStaysHonest == Spec => []CacheIsHonest
<1>1. ASSUME IInv PROVE CacheIsHonest
  <2>1. world.run = run /\ world.late = late
    BY <1>1, Start, WorldFacts
  <2>2. view.post # None => \E i \in DOMAIN view.draft : /\ view.draft[i].key = view.post
                                                         /\ view.draft[i].state = "posting"
    BY <1>1 DEF IInv, Sound, Posting, Parallel
  <2>3. \A i \in DOMAIN view.draft : Honest(view.draft[i], world)
    BY <1>1 DEF IInv, Sound, Saved
  <2> QED
    BY <2>1, <2>2, <2>3 DEF CacheIsHonest, Honest, Accepted
<1> QED
  BY <1>1, Inductive, PTL

\* The state has its types, and post is the entry that is being POSTed.
THEOREM TypesHold == Spec => []TypeOK
<1>1. ASSUME IInv PROVE TypeOK
  <2>1. view \in View /\ Types /\ Resident(view, world) /\ Len(view.queue) <= QueueLimit
    BY <1>1 DEF IInv, Sound
  <2>2. /\ view.queue \in Seq(Entry) /\ view.draft \in Seq(CachedEntry)
        /\ {view.post, view.stream, view.join} \subseteq Messages \cup {None}
        /\ view.recon \in [on : BOOLEAN, fresh : BOOLEAN, keys : SUBSET Messages]
        /\ {view.paused, view.required, view.active} \subseteq BOOLEAN
    BY <2>1 DEF View
  <2>3. \A e \in Range(view.queue) : e.state = "posting" <=> e.key = view.post
    BY <2>1 DEF Resident, Range
  <2>4. next \in Nat \ {0} /\ faults \in 0 .. MaxFaults
    BY <2>1, QueueAssumption DEF Types
  <2>5. run \in [Messages -> {"none", "refused", "over"} \cup Active]
    <3>1. {"none", "refused"} \cup Accepted = {"none", "refused", "over"} \cup Active
      BY DEF Accepted
    <3> QED
      BY <2>1, <3>1 DEF Types
  <2>6. UNION {late, learned, snapshot, dismissed} \subseteq Messages
    BY <2>1 DEF Types
  <2> QED
    BY <2>1, <2>2, <2>3, <2>4, <2>5, <2>6 DEF TypeOK
<1> QED
  BY <1>1, Inductive, PTL

\* What the view has learned it does not forget.
LEMMA LearnedGrows ==
  ASSUME IInv, Next
  PROVE  learned \subseteq learned'
<1>1. CASE ViewOnly
  BY <1>1, ViewOnlyKeeps DEF history
<1>2. CASE NotReconciled \/ Reconciled
  BY <1>2 DEF NotReconciled, Reconciled
<1>3. CASE Restart \/ AbortPost \/ PostFails
  BY <1>3 DEF Restart, AbortPost, PostFails, history
<1>4. CASE PostAccepted
  BY <1>4 DEF PostAccepted
<1>5. ASSUME NEW m \in Messages, Send(m) \/ Dismiss(m) \/ Decides(m) \/ RunMoves(m) \/ Cancels(m)
      PROVE  learned' = learned
  BY <1>5 DEF Send, Dismiss, Decides, RunMoves, Cancels, history
<1> QED
  BY <1>1, <1>2, <1>3, <1>4, <1>5, NextCases

\* A message whose acceptance was saved is not POSTed again, though the
\* adoption of its reply failed half-way or Emacs restarted (start-post).
THEOREM AcceptedOnce == Spec => NeverPostedAgain
<1>1. ASSUME IInv, IInv', [Next]_vars
      PROVE  [view'.post # view.post => view'.post \notin learned]_vars
  <2>1. ASSUME Next, view'.post # view.post, view'.post \in learned PROVE FALSE
    <3>1. learned \subseteq learned' /\ learned' \subseteq Messages
      BY <1>1, <2>1, LearnedGrows DEF IInv, Types
    <3>2. Sound(view', world') /\ world'.learned = learned'
      BY <1>1, NextWorldFacts DEF IInv
    <3>3. PICK k \in Messages : k = view'.post /\ k \in world'.learned
      BY <2>1, <3>1, <3>2
    <3>4. view'.post # None
      BY <3>3 DEF Messages, None
    <3>5. PICK i \in DOMAIN view'.queue : view'.queue[i].key = k
      BY <3>2, <3>3, <3>4 DEF Sound, Posting
    <3>6. view'.queue[i].state = "posting" /\ Honest(view'.queue[i], world')
      BY <3>2, <3>3, <3>5 DEF Sound, Resident, Fits
    <3> QED
      BY <3>3, <3>5, <3>6 DEF Honest
  <2>2. CASE Next
    BY <2>1, <2>2
  <2>3. CASE UNCHANGED vars
    BY <2>3
  <2> QED
    BY <1>1, <2>2, <2>3
<1> QED
  BY <1>1, Inductive, PTL DEF Spec, NeverPostedAgain

-----------------------------------------------------------------------------
(* The promise of a thread.                                                *)

Ran == {m \in Messages : run[m] \in Active \cup {"over"}}
Finished == {m \in Messages : run[m] \in {"over", "refused"}}

\* A step that leaves messages, Runs and what is retired is a stutter.
LEMMA Stutter ==
  ASSUME UNCHANGED <<next, run>>, Retired' = Retired
  PROVE  UNCHANGED Promise!fifoVars
BY DEF Promise!fifoVars, Sent

\* A send is a send.
LEMMA SendRefines ==
  ASSUME IInv, NEW m \in Messages, Send(m)
  PROVE  [Promise!Step]_(Promise!fifoVars)
<1>1. /\ Retired' = Retired /\ m = next /\ next' \in {next, m + 1} /\ run' = run
      /\ next \in Nat
  BY SendKeeps, Start, QueueAssumption DEF Types
<1>2. CASE next' = next
  BY <1>1, <1>2, Stutter
<1>3. CASE next' = m + 1
  <2>1. m \notin Sent /\ Sent' = Sent \cup {m} /\ \A n \in Sent : n < m
    BY <1>1, <1>3 DEF Sent, Messages
  <2>2. Promise!SendNext(m)
    BY <1>1, <2>1 DEF Promise!SendNext
  <2> QED
    BY <2>2 DEF Promise!Step
<1> QED
  BY <1>1, <1>2, <1>3


\* A verdict waits for every predecessor.
LEMMA DecidesRefines ==
  ASSUME IInv, NEW m \in Messages, Decides(m)
  PROVE  Promise!Step
<1>1. /\ Retired' = Retired /\ m < next /\ Fenced(m, world) /\ next' = next
      /\ run[m] = "none"
  BY DecidesKeeps DEF Decides
<1>2. PICK r \in {"running", "refused"} : run' = [run EXCEPT ![m] = r]
  BY DEF Decides
<1>3. \A n \in Messages : run'[n] = IF n = m THEN r ELSE run[n]
  BY <1>2, Start DEF Types
<1>4. Sent' = Sent /\ m \in Sent
  BY <1>1 DEF Sent
<1>5. Promise!MayRun(m)
  <2>1. m \notin Ran /\ m \notin Finished
    BY <1>1 DEF Ran, Finished, Active
  <2>2. \A n \in Sent : n < m => n \in Finished
    BY <1>1, Start, WorldFacts DEF Fenced, Sent, Finished, Done
  <2> QED
    BY <1>4, <2>1, <2>2 DEF Promise!MayRun, Ran, Finished
<1>6. CASE r = "running"
  <2>1. Ran' = Ran \cup {m} /\ Finished' = Finished
    BY <1>1, <1>3, <1>6 DEF Ran, Finished, Active
  <2>2. Promise!Accept(m)
    BY <1>1, <1>4, <1>5, <2>1 DEF Promise!Accept, Ran, Finished
  <2> QED
    BY <2>2 DEF Promise!Step
<1>7. CASE r = "refused"
  <2>1. Ran' = Ran /\ Finished' = Finished \cup {m}
    BY <1>1, <1>3, <1>7 DEF Ran, Finished, Active
  <2>2. Promise!Refuse(m)
    BY <1>1, <1>4, <1>5, <2>1 DEF Promise!Refuse, Ran, Finished
  <2> QED
    BY <2>2 DEF Promise!Step
<1> QED
  BY <1>2, <1>6, <1>7

\* A Run that ends ends one that was accepted; otherwise nothing shows.
LEMMA ProgressRefines ==
  ASSUME IInv, NEW m \in Messages, run[m] \in Active, NEW r \in Accepted,
         run' = [run EXCEPT ![m] = r], next' = next, Retired' = Retired
  PROVE  [Promise!Step]_(Promise!fifoVars)
<1>1. \A n \in Messages : run'[n] = IF n = m THEN r ELSE run[n]
  BY Start DEF Types
<1>2. Sent' = Sent
  BY DEF Sent
<1>3. Ran' = Ran
  BY <1>1 DEF Ran, Accepted
<1>4. CASE r = "over"
  <2>1. Finished' = Finished \cup {m} /\ m \in Ran /\ m \notin Finished
    BY <1>1, <1>4 DEF Finished, Ran, Active
  <2>2. Promise!End(m)
    BY <1>2, <1>3, <2>1 DEF Promise!End, Ran, Finished
  <2> QED
    BY <2>2 DEF Promise!Step
<1>5. CASE r # "over"
  <2>1. Finished' = Finished
    BY <1>1, <1>5 DEF Finished, Accepted, Active
  <2>2. UNCHANGED Promise!fifoVars
    BY <1>2, <1>3, <2>1 DEF Promise!fifoVars, Ran, Finished
  <2> QED
    BY <2>2
<1> QED
  BY <1>4, <1>5

\* What leaves the queue is done with.
LEMMA RetireRefines ==
  ASSUME IInv, IInv', UNCHANGED <<next, run>>, Retired \subseteq Retired'
  PROVE  Promise!Step
<1> DEFINE S == Retired' \ Retired
<1>1. Sent' = Sent /\ Ran' = Ran /\ Finished' = Finished
  BY DEF Sent, Ran, Finished
<1>2. Retired' \subseteq Finished' /\ Retired' \subseteq Messages
  <2>1. view' \in View /\ Parallel(view') /\ Gone(view', world') /\ world'.run = run'
        /\ world'.next = next'
    BY NextWorldFacts DEF IInv, Sound
  <2>2. Retired' = Sent' \ Keys(view'.queue)
    BY <2>1, DraftKeys DEF Retired
  <2>3. \A m \in Sent' : m \in Messages /\ (m \in Keys(view'.queue) \/ run'[m] \in Done)
    BY <2>1 DEF Sent, Gone
  <2> QED
    BY <2>2, <2>3 DEF Finished, Done
<1>3. S \subseteq Finished \ Retired /\ S \in SUBSET Messages /\ Retired' = Retired \cup S
  BY <1>1, <1>2
<1> HIDE DEF S
<1>4. Promise!Retire(S)
  BY <1>1, <1>3 DEF Promise!Retire, Ran, Finished
<1> QED
  BY <1>3, <1>4 DEF Promise!Step

\* The queue, its cache and the server keep the thread's promise, whatever
\* comes late and whenever Emacs dies (emacsos-assist-web--pump-posts).
THEOREM KeepsThePromise == Spec => FifoPromise
<1>1. Init => Promise!Start
  <2> SUFFICES ASSUME Init PROVE Promise!Start
    OBVIOUS
  <2>1. next = 1 /\ \A m \in Messages : run[m] = "none"
    BY DEF Init
  <2>2. Sent = {}
    BY <2>1, QueueAssumption DEF Sent, Messages
  <2>3. Ran = {} /\ Finished = {}
    BY <2>1 DEF Ran, Finished, Active
  <2> QED
    BY <2>2, <2>3 DEF Promise!Start, Retired, Ran, Finished
<1>2. IInv /\ IInv' /\ [Next]_vars => [Promise!Step]_(Promise!fifoVars)
  <2> SUFFICES ASSUME IInv, IInv', [Next]_vars
               PROVE  [Promise!Step]_(Promise!fifoVars)
    OBVIOUS
  <2>1. CASE Next
    <3>1. CASE ViewOnly \/ NotReconciled
      <4>1. Retired' = Retired /\ UNCHANGED <<next, run>>
        BY <3>1, ViewOnlyKeeps, NotReconciledKeeps
      <4> QED
        BY <4>1, Stutter
    <3>2. CASE Restart \/ AbortPost \/ PostFails \/ PostAccepted
      <4>1. Retired' = Retired
        BY <3>2, RestartKeeps, AbandonKeeps, PostAcceptedKeeps
      <4>2. UNCHANGED <<next, run>>
        BY <3>2 DEF Restart, AbortPost, PostFails, PostAccepted
      <4> QED
        BY <4>1, <4>2, Stutter
    <3>3. CASE Reconciled
      <4>1. Retired \subseteq Retired'
        BY <3>3, ReconciledKeeps
      <4>2. UNCHANGED <<next, run>>
        BY <3>3 DEF Reconciled
      <4> QED
        BY <4>1, <4>2, RetireRefines
    <3>4. ASSUME NEW m \in Messages, Send(m) PROVE [Promise!Step]_(Promise!fifoVars)
      BY <3>4, SendRefines
    <3>5. ASSUME NEW m \in Messages, Dismiss(m) PROVE Promise!Step
      <4>1. Retired \subseteq Retired'
        BY <3>5, DismissKeeps
      <4>2. UNCHANGED <<next, run>>
        BY <3>5 DEF Dismiss
      <4> QED
        BY <4>1, <4>2, RetireRefines
    <3>6. ASSUME NEW m \in Messages, Decides(m) PROVE Promise!Step
      BY <3>6, DecidesRefines
    <3>7. ASSUME NEW m \in Messages, RunMoves(m) PROVE [Promise!Step]_(Promise!fifoVars)
      <4>1. PICK r \in (Active \cup {"over"}) \ {run[m]} : run' = [run EXCEPT ![m] = r]
        BY <3>7 DEF RunMoves
      <4>2. r \in Accepted /\ run[m] \in Active /\ next' = next /\ Retired' = Retired
        BY <3>7, RunMovesKeeps DEF RunMoves, Accepted
      <4> QED
        BY <4>1, <4>2, ProgressRefines
    <3>8. ASSUME NEW m \in Messages, Cancels(m) PROVE [Promise!Step]_(Promise!fifoVars)
      <4>1. /\ "over" \in Accepted /\ run[m] \in Active /\ next' = next /\ Retired' = Retired
            /\ run' = [run EXCEPT ![m] = "over"]
        BY <3>8, CancelsKeeps DEF Cancels, Accepted
      <4> QED
        BY <4>1, ProgressRefines
    <3> QED
      BY <2>1, <3>1, <3>2, <3>3, <3>4, <3>5, <3>6, <3>7, <3>8, NextCases
  <2>2. CASE UNCHANGED vars
    <3>1. UNCHANGED <<next, run>> /\ Retired' = Retired
      BY <2>2 DEF vars, Retired, Sent
    <3> QED
      BY <3>1, Stutter
  <2> QED
    BY <2>1, <2>2
<1> QED
  BY <1>1, <1>2, Inductive, PTL DEF Spec, FifoPromise, Promise!Fifo
=============================================================================
