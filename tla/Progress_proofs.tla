--------------------------- MODULE Progress_proofs ---------------------------
(***************************************************************************)
(* Proofs about Webhooks and FailureSummary, for every value of their      *)
(* constants, as parts of MCProgress: safety only, which no fairness is    *)
(* needed for.                                                             *)
(***************************************************************************)
EXTENDS MCProgress, TLAPS

-----------------------------------------------------------------------------
(* Webhooks: the inductive invariant. *)

IsNote(x) == x = [state |-> x.state, attempt |-> x.attempt, event |-> x.event, row |-> x.row]
IsListing(x) ==
  /\ DOMAIN x = {"at", "kind", "chosen", "seen", "todo"}
  /\ x.at = "list" /\ DOMAIN x.chosen = Hooks

\* The shape of what a worker, or a job that notifies, writes.
DeliveryTypes ==
  /\ DOMAIN note = W!Ids
  /\ \A n \in W!Ids : /\ IsNote(note[n])
                      /\ note[n].attempt \in Nat
  /\ posts \in [W!Ids -> SUBSET Nat]
  /\ taken \in [W!Ids -> SUBSET Nat]
  /\ died \in [W!Ids -> SUBSET Nat]
  /\ DOMAIN source = Sources
  /\ \A s \in Sources : source[s] = W!Nobody \/ IsListing(source[s])

\* A slot that has been used is not chosen again: the listings are over, or of
\* a failure and pass over who has been found.
Slot(n) ==
  LET src == source[n[1]] IN
  /\ note[n].state # "none" =>
       /\ src.at = "list" /\ src.chosen[n[2]] = "none"
       /\ IF src.kind = "failure" THEN n[2] \in src.seen ELSE src.todo = <<>>
  /\ src.at = "list" /\ src.kind = "failure" /\ src.chosen[n[2]] # "none" => n[2] \in src.seen

UsedOnce == \A n \in W!Ids : Slot(n)

\* What was sent belongs to an attempt, and an accepted attempt is the current
\* one, which will complete, or its worker died.
AcceptedEnds ==
  \A n \in W!Ids :
    /\ posts[n] \subseteq 1 .. note[n].attempt
    /\ taken[n] \subseteq posts[n]
    /\ note[n].state = "none" => note[n].attempt = 0
    /\ note[n].attempt = 0 => note[n].state \in {"none", "queued"}
    /\ \A a \in taken[n] : \/ a \in died[n]
                           \/ a = note[n].attempt /\ note[n].state \in {"log", "completed"}

DeliveryInv == DeliveryTypes /\ UsedOnce /\ AcceptedEnds

LEMMA IdParts ==
  /\ \A n \in W!Ids : n[1] \in Sources /\ n[2] \in Hooks /\ n = <<n[1], n[2]>>
  /\ \A s \in Sources, h \in Hooks : <<s, h>> \in W!Ids
  BY DEF W!Ids

LEMMA DeliveryStarts == W!Init => DeliveryInv
  BY IdParts DEF W!Init, DeliveryInv, DeliveryTypes, UsedOnce, Slot, AcceptedEnds, W!NoNote,
                 W!Nobody, IsNote

\* Requests of editors touch nothing of it.
LEMMA EditorsApart ==
  ASSUME DeliveryInv, UNCHANGED <<note, posts, taken, died, source>>
  PROVE  DeliveryInv'
  BY DEF DeliveryInv, DeliveryTypes, UsedOnce, Slot, AcceptedEnds

\* A step of one source moves the slots of that source at most.
LEMMA OtherSlotsStay ==
  ASSUME DeliveryInv, NEW s \in Sources,
         \A u \in Sources \ {s} : source'[u] = source[u],
         UNCHANGED note,
         \A h \in Hooks : Slot(<<s, h>>)'
  PROVE  UsedOnce'
<1>1. ASSUME NEW n \in W!Ids
      PROVE  Slot(n)'
  <2>1. CASE n[1] = s
    BY <2>1, IdParts
  <2>2. CASE n[1] # s
    BY <2>2, IdParts DEF DeliveryInv, UsedOnce, Slot
  <2>3. QED
    BY <2>1, <2>2
<1>2. QED
  BY <1>1 DEF UsedOnce

\* A job that has just ended has no notification yet.
LEMMA SourceBegins ==
  ASSUME DeliveryInv, NEW s \in Sources, source[s] = W!Nobody, NEW k, NEW q,
         source' = [source EXCEPT ![s] =
           [at |-> "list", kind |-> k, chosen |-> W!Nothing, seen |-> {}, todo |-> q]],
         UNCHANGED <<note, posts, taken, died>>
  PROVE  DeliveryInv'
<1> DEFINE new == [at |-> "list", kind |-> k, chosen |-> W!Nothing, seen |-> {}, todo |-> q]
<1>1. IsListing(new) /\ \A h \in Hooks : new.chosen[h] = "none"
  BY DEF IsListing, W!Nothing
<1>2. /\ DOMAIN source' = Sources /\ source'[s] = new
      /\ \A u \in Sources \ {s} : source'[u] = source[u]
  BY DEF DeliveryInv, DeliveryTypes
<1>3. DeliveryTypes'
  BY <1>1, <1>2 DEF DeliveryInv, DeliveryTypes
<1>4. ASSUME NEW h \in Hooks
      PROVE  Slot(<<s, h>>)'
  <2>1. note[<<s, h>>].state = "none"
    BY IdParts DEF DeliveryInv, UsedOnce, Slot, W!Nobody
  <2>2. QED
    BY <1>1, <1>2, <2>1 DEF Slot
<1>5. QED
  BY <1>2, <1>3, <1>4, OtherSlotsStay DEF DeliveryInv, AcceptedEnds

LEMMA ListKeeps ==
  ASSUME DeliveryInv, NEW s \in Sources, W!List(s)
  PROVE  DeliveryInv'
<1> DEFINE src == source[s]
<1>1. IsListing(src)
  BY DEF DeliveryInv, DeliveryTypes, W!List, W!Nobody
<1>2. PICK found \in SUBSET Hooks :
        source' = [source EXCEPT ![s].chosen = W!Choose(source[s], found),
                                 ![s].seen = @ \cup found,
                                 ![s].todo = Tail(@)]
  BY DEF W!List, W!Subscribed, W!Existing
<1>3. /\ src.todo # <<>>
      /\ src.kind = "failure" => src.chosen = W!Nothing
      /\ UNCHANGED <<note, posts, taken, died>>
  BY DEF W!List, W!rows
<1>4. /\ DOMAIN source' = Sources
      /\ DOMAIN source'[s] = DOMAIN src
      /\ source'[s].at = "list" /\ source'[s].kind = src.kind
      /\ source'[s].chosen = W!Choose(src, found)
      /\ source'[s].seen = src.seen \cup found
      /\ \A u \in Sources \ {s} : source'[u] = source[u]
  BY <1>1, <1>2 DEF DeliveryInv, DeliveryTypes, IsListing
<1>5. IsListing(source'[s])
  BY <1>1, <1>4 DEF IsListing, W!Choose
<1>6. ASSUME NEW h \in Hooks
      PROVE  Slot(<<s, h>>)'
  <2>1. Slot(<<s, h>>)
    BY IdParts DEF DeliveryInv, UsedOnce
  <2>2. source'[s].chosen[h] =
          CASE h \in found /\ src.kind # "failure"            -> Head(src.todo)
            [] h \in found \ src.seen /\ src.kind = "failure" -> "report_failed"
            [] OTHER                                          -> src.chosen[h]
    BY <1>4 DEF W!Choose
  <2>3. src.kind = "failure" => src.chosen[h] = "none"
    BY <1>3 DEF W!Nothing
  <2>4. QED
    BY <1>1, <1>3, <1>4, <2>1, <2>2, <2>3 DEF Slot, IsListing
<1>7. UsedOnce'
  BY <1>3, <1>4, <1>6, OtherSlotsStay
<1>8. DeliveryTypes'
  BY <1>3, <1>4, <1>5 DEF DeliveryInv, DeliveryTypes
<1>9. QED
  BY <1>3, <1>7, <1>8 DEF DeliveryInv, AcceptedEnds

LEMMA EnqueueKeeps ==
  ASSUME DeliveryInv, NEW s \in Sources, NEW h \in Hooks, W!Enqueue(s, h)
  PROVE  DeliveryInv'
<1> DEFINE src == source[s]
           new == [at |-> "list", kind |-> src.kind, chosen |-> [src.chosen EXCEPT ![h] = "none"],
                   seen |-> src.seen, todo |-> src.todo]
           notice == [state |-> "queued", attempt |-> 0, event |-> src.chosen[h], row |-> NoHook]
<1>1. /\ IsListing(src)
      /\ src.at = "list" /\ src.chosen[h] # "none"
      /\ src.kind = "failure" \/ src.todo = <<>>
      /\ UNCHANGED <<posts, taken, died>>
  BY DEF DeliveryInv, DeliveryTypes, W!Enqueue, W!Nobody, W!rows
<1>2. /\ IsListing(new) /\ new.chosen[h] = "none"
      /\ \A g \in Hooks \ {h} : new.chosen[g] = src.chosen[g]
  BY <1>1 DEF IsListing
<1>3. /\ DOMAIN source' = Sources /\ source'[s] = new
      /\ \A u \in Sources \ {s} : source'[u] = source[u]
  BY <1>1 DEF DeliveryInv, DeliveryTypes, W!Enqueue, IsListing
<1>4. /\ <<s, h>> \in W!Ids /\ Slot(<<s, h>>)
      /\ note[<<s, h>>].state = "none" /\ note[<<s, h>>].attempt = 0
      /\ posts[<<s, h>>] = {} /\ taken[<<s, h>>] = {}
  BY <1>1, IdParts DEF DeliveryInv, UsedOnce, Slot, AcceptedEnds
<1>5. /\ DOMAIN note' = W!Ids
      /\ \A n \in W!Ids \ {<<s, h>>} : note'[n] = note[n]
      /\ note'[<<s, h>>] = note[<<s, h>>] \/ note'[<<s, h>>] = notice
  BY <1>4 DEF DeliveryInv, DeliveryTypes, W!Enqueue, W!NoNote
<1>6. DeliveryTypes'
  <2>1. IsNote(notice)
    BY DEF IsNote
  <2>2. \A n \in W!Ids : IsNote(note'[n]) /\ note'[n].attempt \in Nat
    <3>1. \A n \in W!Ids : IsNote(note[n]) /\ note[n].attempt \in Nat
      BY DEF DeliveryInv, DeliveryTypes
    <3>2. notice.attempt \in Nat
      OBVIOUS
    <3>3. QED
      BY <1>5, <2>1, <3>1, <3>2
  <2>3. QED
    BY <1>1, <1>2, <1>3, <2>2, <1>5 DEF DeliveryInv, DeliveryTypes
<1>7. UsedOnce'
  <2>1. ASSUME NEW n \in W!Ids
        PROVE  Slot(n)'
    <3>1. Slot(n)
      BY DEF DeliveryInv, UsedOnce
    <3>2. CASE n = <<s, h>>
      BY <1>1, <1>2, <1>3, <1>4, <3>2, IdParts DEF Slot
    <3>3. CASE n # <<s, h>> /\ n[1] = s
      <4>1. n[2] \in Hooks \ {h} /\ note'[n] = note[n]
        BY <1>5, <3>3, IdParts
      <4>2. QED
        BY <1>1, <1>2, <1>3, <3>1, <3>3, <4>1 DEF Slot, IsListing
    <3>4. CASE n[1] # s
      BY <1>3, <1>5, <3>1, <3>4, IdParts DEF Slot
    <3>5. QED
      BY <3>2, <3>3, <3>4
  <2>2. QED
    BY <2>1 DEF UsedOnce
<1>8. AcceptedEnds'
  <2>1. ASSUME NEW n \in W!Ids, n # <<s, h>>
        PROVE  posts'[n] = posts[n] /\ taken'[n] = taken[n] /\ note'[n] = note[n]
                 /\ died'[n] = died[n]
    BY <1>1, <1>5, <2>1
  <2>2. QED
    BY <1>1, <1>4, <1>5, <2>1 DEF DeliveryInv, DeliveryTypes, AcceptedEnds
<1>9. QED
  BY <1>6, <1>7, <1>8 DEF DeliveryInv

\* Steps of a worker: the slot is in use before and after, and the job that
\* notified is not concerned.
LEMMA WorkerLeavesSlots ==
  ASSUME DeliveryInv, NEW n \in W!Ids, note[n].state # "none",
         \A m \in W!Ids \ {n} : note'[m] = note[m],
         UNCHANGED source
  PROVE  UsedOnce'
  BY IdParts DEF DeliveryInv, UsedOnce, Slot

\* A note with another state and another row.
LEMMA MovedNote ==
  ASSUME DeliveryInv, NEW n \in W!Ids, NEW x, NEW r,
         note' = [note EXCEPT ![n].state = x, ![n].row = r]
  PROVE  /\ DOMAIN note' = W!Ids
         /\ \A m \in W!Ids \ {n} : note'[m] = note[m]
         /\ IsNote(note'[n])
         /\ note'[n].attempt = note[n].attempt /\ note'[n].state = x
<1> DEFINE new == [state |-> x, attempt |-> note[n].attempt, event |-> note[n].event, row |-> r]
<1>1. DOMAIN note = W!Ids /\ IsNote(note[n])
  BY DEF DeliveryInv, DeliveryTypes
<1>2. note'[n] = [note[n] EXCEPT !.state = x, !.row = r]
  BY <1>1
<1>3. note'[n] = new /\ DOMAIN note' = W!Ids /\ \A m \in W!Ids \ {n} : note'[m] = note[m]
  BY <1>1, <1>2 DEF IsNote
<1>4. QED
  BY <1>3 DEF IsNote

LEMMA FetchKeeps ==
  ASSUME DeliveryInv, NEW n \in W!Ids, W!Fetch(n)
  PROVE  DeliveryInv'
<1>1. /\ note[n].state \in {"queued", "retryable"}
      /\ DOMAIN note' = W!Ids
      /\ \A m \in W!Ids \ {n} : note'[m] = note[m]
      /\ IsNote(note'[n])
      /\ note'[n].state = "load" /\ note'[n].attempt = note[n].attempt + 1
      /\ UNCHANGED <<posts, taken, died, source>>
  BY DEF DeliveryInv, DeliveryTypes, W!Fetch, W!outside, IsNote
<1>2. DeliveryTypes'
  BY <1>1 DEF DeliveryInv, DeliveryTypes
<1>3. UsedOnce'
  BY <1>1, WorkerLeavesSlots
<1>4. AcceptedEnds'
  BY <1>1 DEF DeliveryInv, DeliveryTypes, AcceptedEnds
<1>5. QED
  BY <1>2, <1>3, <1>4 DEF DeliveryInv

\* A step that sends nothing and leaves the attempt's number.
LEMMA SameAttemptKeeps ==
  ASSUME DeliveryInv, NEW n \in W!Ids,
         note[n].state \in {"load", "post", "log"},
         DOMAIN note' = W!Ids,
         \A m \in W!Ids \ {n} : note'[m] = note[m],
         IsNote(note'[n]),
         note'[n].attempt = note[n].attempt, note'[n].state # "none",
         note[n].state = "log" => \/ note[n].attempt \notin taken[n]
                                  \/ note'[n].state = "completed"
                                  \/ note[n].attempt \in died'[n],
         died' \in [W!Ids -> SUBSET Nat], \A m \in W!Ids : died[m] \subseteq died'[m],
         UNCHANGED <<posts, taken, source>>
  PROVE  DeliveryInv'
<1>1. DeliveryTypes'
  BY DEF DeliveryInv, DeliveryTypes
<1>2. UsedOnce'
  BY WorkerLeavesSlots
<1>3. AcceptedEnds'
  BY DEF DeliveryInv, DeliveryTypes, AcceptedEnds
<1>4. QED
  BY <1>1, <1>2, <1>3 DEF DeliveryInv

LEMMA LoadKeeps ==
  ASSUME DeliveryInv, NEW n \in W!Ids, W!Load(n)
  PROVE  DeliveryInv'
<1>1. /\ note[n].state = "load"
      /\ UNCHANGED <<posts, taken, died, source>>
  BY DEF W!Load, W!outside
<1>2. /\ DOMAIN note' = W!Ids
      /\ \A m \in W!Ids \ {n} : note'[m] = note[m]
      /\ IsNote(note'[n])
      /\ note'[n].attempt = note[n].attempt
      /\ note'[n].state \in {"completed", "retryable", "discarded", "post"}
  <2>1. ASSUME NEW x \in {"completed", "retryable", "discarded"}, W!Step(n, x)
        PROVE  <1>2
    BY <2>1 DEF DeliveryInv, DeliveryTypes, W!Step, IsNote
  <2>2. ASSUME NEW r, note' = [note EXCEPT ![n].state = "post", ![n].row = r]
        PROVE  <1>2
    BY <2>2, MovedNote
  <2>3. W!Failed(n) \in {"completed", "retryable", "discarded"}
    BY DEF W!Failed
  <2>4. QED
    BY <2>1, <2>2, <2>3 DEF W!Load
<1>3. died' \in [W!Ids -> SUBSET Nat] /\ \A m \in W!Ids : died[m] \subseteq died'[m]
  BY <1>1 DEF DeliveryInv, DeliveryTypes
<1>4. QED
  BY <1>1, <1>2, <1>3, SameAttemptKeeps

LEMMA PostKeeps ==
  ASSUME DeliveryInv, NEW n \in W!Ids, W!Post(n)
  PROVE  DeliveryInv'
<1>1. /\ note[n].state = "post"
      /\ DOMAIN note' = W!Ids
      /\ \A m \in W!Ids \ {n} : note'[m] = note[m]
      /\ IsNote(note'[n])
      /\ note'[n].attempt = note[n].attempt /\ note'[n].state = "log"
      /\ UNCHANGED <<died, source>>
  BY MovedNote DEF W!Post, W!outside
<1>2. /\ posts' \in [W!Ids -> SUBSET Nat] /\ taken' \in [W!Ids -> SUBSET Nat]
      /\ \A m \in W!Ids \ {n} : posts'[m] = posts[m] /\ taken'[m] = taken[m]
      /\ posts'[n] = posts[n] \cup {note[n].attempt}
      /\ taken'[n] \in {taken[n], taken[n] \cup {note[n].attempt}}
  BY DEF DeliveryInv, DeliveryTypes, W!Post
<1>3. DeliveryTypes'
  BY <1>1, <1>2 DEF DeliveryInv, DeliveryTypes
<1>4. UsedOnce'
  BY <1>1, WorkerLeavesSlots
<1>5. AcceptedEnds'
  BY <1>1, <1>2 DEF DeliveryInv, DeliveryTypes, AcceptedEnds
<1>6. QED
  BY <1>3, <1>4, <1>5 DEF DeliveryInv

LEMMA RecordKeeps ==
  ASSUME DeliveryInv, NEW n \in W!Ids, W!Record(n)
  PROVE  DeliveryInv'
<1>1. /\ note[n].state = "log"
      /\ UNCHANGED <<posts, taken, died, source>>
  BY DEF W!Record, W!outside
<1>2. /\ DOMAIN note' = W!Ids
      /\ \A m \in W!Ids \ {n} : note'[m] = note[m]
      /\ IsNote(note'[n])
      /\ note'[n].attempt = note[n].attempt
      /\ note'[n].state \in {"completed", "retryable", "discarded"}
      /\ note[n].attempt \in taken[n] => note'[n].state = "completed"
  BY DEF DeliveryInv, DeliveryTypes, W!Record, W!Step, W!Failed, IsNote
<1>3. died' \in [W!Ids -> SUBSET Nat] /\ \A m \in W!Ids : died[m] \subseteq died'[m]
  BY <1>1 DEF DeliveryInv, DeliveryTypes
<1>4. QED
  BY <1>1, <1>2, <1>3, SameAttemptKeeps

LEMMA CrashKeeps ==
  ASSUME DeliveryInv, NEW n \in W!Ids, W!Crash(n)
  PROVE  DeliveryInv'
<1>1. /\ note[n].state \in {"load", "post", "log"}
      /\ UNCHANGED <<posts, taken, source>>
  BY DEF W!Crash, W!outside
<1>2. /\ DOMAIN note' = W!Ids
      /\ \A m \in W!Ids \ {n} : note'[m] = note[m]
      /\ IsNote(note'[n])
      /\ note'[n].attempt = note[n].attempt
      /\ note'[n].state \in {"retryable", "discarded"}
  BY MovedNote DEF W!Crash, W!Failed
<1>3. /\ died' \in [W!Ids -> SUBSET Nat] /\ note[n].attempt \in died'[n]
      /\ \A m \in W!Ids : died[m] \subseteq died'[m]
  BY DEF DeliveryInv, DeliveryTypes, W!Crash
<1>4. QED
  BY <1>1, <1>2, <1>3, SameAttemptKeeps

LEMMA DeliveryStep == DeliveryInv /\ [W!Next]_hookVars => DeliveryInv'
<1> SUFFICES ASSUME DeliveryInv, [W!Next]_hookVars
             PROVE  DeliveryInv'
  OBVIOUS
<1>1. CASE W!Edit
  BY <1>1, EditorsApart
     DEF W!Edit, W!CreateCount, W!CreateInsert, W!UpdateLoad, W!UpdateSave, W!Delete, W!tables
<1>2. ASSUME NEW s \in Sources, W!ReportDone(s)
      PROVE  DeliveryInv'
  BY <1>2, SourceBegins DEF W!ReportDone, W!rows
<1>3. ASSUME NEW s \in Sources, W!ReportFailed(s)
      PROVE  DeliveryInv'
  BY <1>3, SourceBegins DEF W!ReportFailed, W!rows
<1>4. ASSUME NEW s \in Sources, W!DigestDue(s)
      PROVE  DeliveryInv'
  BY <1>4, SourceBegins DEF W!DigestDue, W!rows
<1>5. CASE UNCHANGED hookVars
  BY <1>5, EditorsApart DEF hookVars
<1>6. CASE W!Notify
  BY <1>2, <1>3, <1>4, <1>6, ListKeeps, EnqueueKeeps DEF W!Notify
<1>7. CASE W!Deliver
  BY <1>7, FetchKeeps, LoadKeeps, PostKeeps, RecordKeeps, CrashKeeps DEF W!Deliver, W!Attempt
<1>8. QED
  BY <1>1, <1>5, <1>6, <1>7 DEF W!Next

LEMMA DeliverySteps == [Next]_vars => [W!Next]_hookVars
  BY DEF Next, vars, cacheVars, hookVars, summaryVars, batchVars

LEMMA DeliveryAlways == Spec => []DeliveryInv
<1>1. Init => DeliveryInv
  BY DeliveryStarts DEF Init
<1>2. DeliveryInv /\ [Next]_vars => DeliveryInv'
  BY DeliveryStep, DeliverySteps
<1>3. QED
  BY <1>1, <1>2, PTL DEF Spec

\* SendWebhookWorker: a receiver that has accepted a notification gets it
\* again only when the worker of the accepted attempt died, whatever editors
\* do to the webhook and whether or not the log can be written.
THEOREM RepeatsNeedCrash == Spec => []RepeatNeedsCrash
<1>1. DeliveryInv => RepeatNeedsCrash
  BY DEF DeliveryInv, DeliveryTypes, AcceptedEnds, RepeatNeedsCrash, W!RepeatNeedsCrash
<1>2. QED
  BY <1>1, DeliveryAlways, PTL

\* Only a slot that was never used is queued.
LEMMA QueuedWhenFresh ==
  ASSUME DeliveryInv, [W!Next]_hookVars, NEW n \in W!Ids,
         note[n].state # "none", note'[n] # note[n]
  PROVE  note'[n].state # "queued"
<1>1. DOMAIN note = W!Ids /\ \A m \in W!Ids : IsNote(note[m])
  BY DEF DeliveryInv, DeliveryTypes
<1>2. ASSUME NEW s \in Sources, NEW h \in Hooks, W!Enqueue(s, h)
      PROVE  FALSE
  <2>1. source[s].at = "list" /\ source[s].chosen[h] # "none"
    BY <1>2 DEF W!Enqueue
  <2>2. n = <<s, h>>
    BY <1>1, <1>2 DEF W!Enqueue
  <2>3. QED
    BY <2>1, <2>2, IdParts DEF DeliveryInv, UsedOnce, Slot
<1>3. ASSUME NEW m \in W!Ids, NEW x, NEW r, x # "queued",
             note' = [note EXCEPT ![m].state = x, ![m].row = r]
      PROVE  note'[n].state # "queued"
  BY <1>3, MovedNote
<1>4. ASSUME NEW m \in W!Ids, NEW x, x # "queued", W!Step(m, x)
      PROVE  note'[n].state # "queued"
  BY <1>1, <1>4 DEF W!Step, IsNote
<1>5. ASSUME NEW m \in W!Ids, W!Fetch(m)
      PROVE  note'[n].state # "queued"
  BY <1>1, <1>5 DEF W!Fetch, IsNote
<1>6. ASSUME NEW m \in W!Ids, W!Load(m) \/ W!Post(m) \/ W!Record(m) \/ W!Crash(m)
      PROVE  note'[n].state # "queued"
  <2>1. W!Failed(m) # "queued"
    BY DEF W!Failed
  <2>2. CASE W!Load(m)
    BY <1>3, <1>4, <2>1, <2>2 DEF W!Load
  <2>3. CASE W!Post(m)
    BY <1>3, <2>3 DEF W!Post
  <2>4. CASE W!Record(m)
    BY <1>4, <2>1, <2>4 DEF W!Record
  <2>5. CASE W!Crash(m)
    BY <1>3, <2>1, <2>5 DEF W!Crash
  <2>6. QED
    BY <1>6, <2>2, <2>3, <2>4, <2>5
<1>7. ~ UNCHANGED note
  OBVIOUS
<1>8. ~ W!Edit
  BY <1>7 DEF W!Edit, W!CreateCount, W!CreateInsert, W!UpdateLoad, W!UpdateSave, W!Delete, W!tables
<1>9. CASE W!Notify
  BY <1>2, <1>7, <1>9 DEF W!Notify, W!ReportDone, W!ReportFailed, W!DigestDue, W!List
<1>10. CASE W!Deliver
  BY <1>5, <1>6, <1>10 DEF W!Deliver, W!Attempt
<1>11. QED
  BY <1>7, <1>8, <1>9, <1>10 DEF W!Next, hookVars

\* enqueueWebhookDeliveries, enqueueFailureWebhook: a job that ended notifies a
\* webhook at most once, whatever editors do between its listings.
THEOREM NoticesQueuedOnce == Spec => W!OneNoticePerSource
<1>1. DeliveryInv /\ [Next]_vars =>
        [\A n \in W!Ids : note[n].state # "none" /\ note'[n] # note[n]
                             => note'[n].state # "queued"]_(W!vars)
  BY DeliverySteps, QueuedWhenFresh
<1>2. QED
  BY <1>1, DeliveryAlways, PTL DEF Spec, W!OneNoticePerSource

-----------------------------------------------------------------------------
(* FailureSummary: the inductive invariant.                                *)

Visiting == [at : {"cache", "join", "wait"}, on : Replicas, ev : Contents, there : BOOLEAN]
Answers  == {F!Refusal, F!Soft, F!Fault}
              \cup [kind : {"summary"}, of : Contents \cup {NoContent}, fromCache : BOOLEAN]
Answered == [at : {"done"}, answer : Answers]
Flight   == [at : {"recheck", "call", "write"}, by : Requests, ev : Contents]

SummaryTypes ==
  /\ content \in Contents /\ cached \in Contents \cup {NoContent}
  /\ flights \in [Replicas -> Flight \cup {F!NoFlight}]
  /\ visit \in [Requests -> Visiting \cup Answered \cup {F!Idle}]

\* A flight is led by a request of its replica that waits for it.
Led ==
  \A p \in Replicas : flights[p] # F!NoFlight =>
    LET r == flights[p].by IN
    visit[r].at = "wait" /\ visit[r].on = p /\ visit[r].ev = flights[p].ev

\* The row does not answer a call that is about to be made, unless the client
\* of its leader went before the row was read again.
NotAnswered ==
  \A p \in Replicas : flights[p].at = "call" /\ visit[flights[p].by].there
                        => cached # flights[p].ev

SummaryInv == SummaryTypes /\ Led /\ NotAnswered

\* One replica, whose row can be read.
OneReader == (\A p, q \in Replicas : p = q) /\ "read" \notin SummaryFaults

LEMMA SummaryStarts == ASSUME ProgressAssumption PROVE F!Init => SummaryInv
  BY DEF F!Init, SummaryInv, SummaryTypes, Led, NotAnswered, F!NoFlight

LEMMA AnswerTyped ==
  /\ F!Refusal \in Answers /\ F!Soft \in Answers /\ F!Fault \in Answers
  /\ \A c \in Contents \cup {NoContent}, b \in BOOLEAN : F!Answer(c, b) \in Answers
  BY DEF Answers, F!Answer

\* A request that leads no flight moves without one.
LEMMA FollowerMoves ==
  ASSUME SummaryInv, NEW r \in Requests, visit[r].at # "wait",
         NEW v \in Visiting \cup Answered, visit' = [visit EXCEPT ![r] = v],
         UNCHANGED <<content, cached, flights>>
  PROVE  SummaryInv'
<1>1. visit' \in [Requests -> Visiting \cup Answered \cup {F!Idle}]
  BY DEF SummaryInv, SummaryTypes
<1>2. \A p \in Replicas : flights[p] # F!NoFlight =>
        flights[p].by \in Requests /\ visit'[flights[p].by] = visit[flights[p].by]
  BY DEF SummaryInv, SummaryTypes, Led, Flight
<1>3. \A p \in Replicas : flights[p].at = "call" => flights[p] # F!NoFlight
  BY DEF F!NoFlight
<1>4. QED
  BY <1>1, <1>2, <1>3 DEF SummaryInv, SummaryTypes, Led, NotAnswered

\* The flight of a replica lands, and all that wait there are answered.
LEMMA LandKeeps ==
  ASSUME SummaryInv, OneReader, NEW p \in Replicas, NEW a \in Answers, F!Land(p, a),
         cached' \in Contents \cup {NoContent}, UNCHANGED content
  PROVE  SummaryInv'
<1>1. \A q \in Replicas : flights'[q] = F!NoFlight
  BY DEF OneReader, SummaryInv, SummaryTypes, F!Land
<1>2. visit' \in [Requests -> Visiting \cup Answered \cup {F!Idle}]
  BY DEF SummaryInv, SummaryTypes, F!Land, Answered
<1>3. flights' \in [Replicas -> Flight \cup {F!NoFlight}]
  BY DEF SummaryInv, SummaryTypes, F!Land
<1>4. F!NoFlight.at # "call"
  BY DEF F!NoFlight
<1>5. QED
  BY <1>1, <1>2, <1>3, <1>4 DEF SummaryInv, SummaryTypes, Led, NotAnswered

LEMMA ArriveKeeps ==
  ASSUME SummaryInv, ProgressAssumption, NEW r \in Requests, NEW p \in Replicas, F!Arrive(r, p)
  PROVE  SummaryInv'
<1>1. visit[r].at # "wait" /\ UNCHANGED <<content, cached, flights>>
  BY DEF F!Arrive, F!Idle, F!quiet
<1>2. PICK ev \in F!Gathered :
        IF ev = Bare THEN F!Done(r, F!Refusal)
        ELSE visit' = [visit EXCEPT ![r] = [at |-> "cache", on |-> p, ev |-> ev, there |-> TRUE]]
  BY DEF F!Arrive
<1>3. ev \in Contents
  BY DEF F!Gathered, SummaryInv, SummaryTypes, ProgressAssumption, F!Assumption
<1>4. PICK v \in Visiting \cup Answered : visit' = [visit EXCEPT ![r] = v]
  BY <1>2, <1>3, AnswerTyped DEF F!Done, Visiting, Answered
<1>5. QED
  BY <1>1, <1>4, FollowerMoves

LEMMA CheckCacheKeeps ==
  ASSUME SummaryInv, NEW r \in Requests, F!CheckCache(r)
  PROVE  SummaryInv'
<1>1. visit[r].at = "cache" /\ visit[r] \in Visiting /\ UNCHANGED <<content, cached, flights>>
  BY DEF F!CheckCache, F!quiet, SummaryInv, SummaryTypes, Answered, F!Idle
<1>2. CASE F!Done(r, F!Fault) \/ F!Done(r, F!Answer(cached, TRUE))
  <2>1. PICK v \in Answered : visit' = [visit EXCEPT ![r] = v]
    BY <1>2, AnswerTyped DEF F!Done, Answered, SummaryInv, SummaryTypes
  <2>2. QED
    BY <1>1, <2>1, FollowerMoves
<1>3. CASE visit' = [visit EXCEPT ![r].at = "join"]
  <2>1. PICK v \in Visiting : visit' = [visit EXCEPT ![r] = v]
    BY <1>1, <1>3 DEF Visiting
  <2>2. QED
    BY <1>1, <2>1, FollowerMoves
<1>4. QED
  BY <1>2, <1>3 DEF F!CheckCache

LEMMA JoinKeeps ==
  ASSUME SummaryInv, NEW r \in Requests, F!Join(r)
  PROVE  SummaryInv'
<1>1. visit[r].at = "join" /\ visit[r] \in Visiting /\ UNCHANGED <<content, cached>>
  BY DEF F!Join, F!quiet, SummaryInv, SummaryTypes, Answered, F!Idle
<1> DEFINE p == visit[r].on
<1>2. /\ visit' \in [Requests -> Visiting \cup Answered \cup {F!Idle}]
      /\ visit'[r].at = "wait" /\ visit'[r].on = p /\ visit'[r].ev = visit[r].ev
      /\ \A s \in Requests \ {r} : visit'[s] = visit[s]
  BY <1>1 DEF F!Join, SummaryInv, SummaryTypes, Visiting
<1>3. p \in Replicas /\ visit[r].ev \in Contents
  BY <1>1 DEF Visiting
<1>4. /\ flights' \in [Replicas -> Flight \cup {F!NoFlight}]
      /\ \A q \in Replicas \ {p} : flights'[q] = flights[q]
      /\ flights'[p] = IF flights[p] = F!NoFlight
                       THEN [at |-> "recheck", by |-> r, ev |-> visit[r].ev] ELSE flights[p]
  BY <1>3 DEF F!Join, SummaryInv, SummaryTypes, Flight
<1>5. \A q \in Replicas : flights[q] # F!NoFlight =>
        flights[q].by \in Requests /\ visit'[flights[q].by] = visit[flights[q].by]
  BY <1>1, <1>2 DEF SummaryInv, SummaryTypes, Led, Flight
<1>6. \A q \in Replicas : flights[q].at = "call" => flights[q] # F!NoFlight
  BY DEF F!NoFlight
<1>7. Led'
  BY <1>2, <1>4, <1>5 DEF SummaryInv, Led
<1>8. NotAnswered'
  BY <1>1, <1>4, <1>5, <1>6 DEF SummaryInv, NotAnswered
<1>9. QED
  BY <1>1, <1>2, <1>4, <1>7, <1>8 DEF SummaryInv, SummaryTypes

\* A flight goes on, the row and the requests being as they are.
LEMMA FlightMoves ==
  ASSUME SummaryInv, NEW p \in Replicas, flights[p] # F!NoFlight, NEW x \in {"call", "write"},
         flights' = [flights EXCEPT ![p].at = x],
         x = "call" /\ visit[flights[p].by].there => cached # flights[p].ev,
         UNCHANGED <<content, cached, visit>>
  PROVE  SummaryInv'
<1>1. flights[p] \in Flight
  BY DEF SummaryInv, SummaryTypes
<1>2. /\ flights' \in [Replicas -> Flight \cup {F!NoFlight}]
      /\ flights'[p].at = x /\ flights'[p].by = flights[p].by /\ flights'[p].ev = flights[p].ev
      /\ \A q \in Replicas \ {p} : flights'[q] = flights[q]
  BY <1>1 DEF SummaryInv, SummaryTypes, Flight
<1>3. QED
  BY <1>1, <1>2 DEF SummaryInv, SummaryTypes, Led, NotAnswered

LEMMA ServedKeeps ==
  ASSUME SummaryInv, OneReader, NEW p \in Replicas, F!Recheck(p) \/ F!Call(p) \/ F!Write(p)
  PROVE  SummaryInv'
<1>1. flights[p] # F!NoFlight /\ flights[p] \in Flight /\ UNCHANGED content
  <2>1. flights[p].at \in {"recheck", "call", "write"} /\ UNCHANGED content
    BY DEF F!Recheck, F!Call, F!Write, F!quiet
  <2>2. F!NoFlight.at = "none"
    BY DEF F!NoFlight
  <2>3. QED
    BY <2>1, <2>2 DEF SummaryInv, SummaryTypes
<1>2. cached \in Contents \cup {NoContent} /\ flights[p].ev \in Contents
  BY <1>1 DEF SummaryInv, SummaryTypes, Flight
<1>3. CASE F!Recheck(p)
  BY <1>1, <1>2, <1>3, FlightMoves, LandKeeps, AnswerTyped DEF F!Recheck, F!Matches, OneReader
<1>4. CASE F!Call(p)
  BY <1>1, <1>2, <1>4, FlightMoves, LandKeeps, AnswerTyped DEF F!Call
<1>5. CASE F!Write(p)
  BY <1>1, <1>2, <1>5, LandKeeps, AnswerTyped DEF F!Write, F!Upsert
<1>6. QED
  BY <1>3, <1>4, <1>5

LEMMA LeaveKeeps ==
  ASSUME SummaryInv, NEW r \in Requests, F!Leave(r)
  PROVE  SummaryInv'
<1>1. visit[r] \in Visiting /\ UNCHANGED <<content, cached, flights>>
  BY DEF F!Leave, F!quiet, SummaryInv, SummaryTypes, Answered, F!Idle
<1>2. /\ visit' \in [Requests -> Visiting \cup Answered \cup {F!Idle}]
      /\ visit'[r].at = visit[r].at /\ visit'[r].on = visit[r].on /\ visit'[r].ev = visit[r].ev
      /\ ~visit'[r].there
      /\ \A s \in Requests \ {r} : visit'[s] = visit[s]
  BY <1>1 DEF F!Leave, SummaryInv, SummaryTypes, Visiting
<1>3. \A p \in Replicas : flights[p] # F!NoFlight => flights[p].by \in Requests
  BY DEF SummaryInv, SummaryTypes, Flight
<1>4. \A p \in Replicas : flights[p].at = "call" => flights[p] # F!NoFlight
  BY DEF F!NoFlight
<1>5. QED
  BY <1>1, <1>2, <1>3, <1>4 DEF SummaryInv, SummaryTypes, Led, NotAnswered

LEMMA SummaryStep ==
  ASSUME SummaryInv, ProgressAssumption, OneReader, [F!Next]_summaryVars
  PROVE  SummaryInv'
<1>1. CASE F!Change
  BY <1>1 DEF F!Change, SummaryInv, SummaryTypes, Led, NotAnswered
<1>2. ASSUME NEW r \in Requests, F!Serve(r)
      PROVE  SummaryInv'
  <2>1. visit[r].at = "wait" => visit[r].on \in Replicas
    BY DEF SummaryInv, SummaryTypes, Visiting, Answered, F!Idle
  <2>2. QED
    BY <1>2, <2>1, CheckCacheKeeps, JoinKeeps, ServedKeeps DEF F!Serve
<1>3. CASE UNCHANGED summaryVars
  BY <1>3 DEF summaryVars, SummaryInv, SummaryTypes, Led, NotAnswered
<1>4. QED
  BY <1>1, <1>2, <1>3, ArriveKeeps, LeaveKeeps DEF F!Next

LEMMA SummarySteps == [Next]_vars => [F!Next]_summaryVars
  BY DEF Next, vars, cacheVars, hookVars, summaryVars, batchVars

\* SummaryFor, generate: with one replica a call is paid for only when the row
\* does not answer it, however many requests missed the cache together. The
\* flights of two replicas do not know of each other, and a row that cannot be
\* read answers nothing.
THEOREM PaidCallsNeeded == ASSUME OneReader PROVE Spec => CallsAreNeeded
<1>1. Init => SummaryInv
  BY SummaryStarts, ProgressAssumption DEF Init
<1>2. SummaryInv /\ [Next]_vars => SummaryInv'
  BY SummaryStep, SummarySteps, ProgressAssumption
<1>3. SummaryInv => [\A p \in Replicas :
          flights[p].at = "call" /\ flights'[p] # flights[p] /\ visit[flights[p].by].there
              => cached # flights[p].ev]_(F!vars)
  BY DEF SummaryInv, NotAnswered
<1>4. QED
  BY <1>1, <1>2, <1>3, PTL DEF Spec, CallsAreNeeded, F!CallsAreNeeded

=============================================================================
