------------------------------ MODULE Webhooks ------------------------------
(***************************************************************************)
(* The webhooks of one AllureDeck project and the notifications sent to    *)
(* them.                                                                   *)
(*                                                                         *)
(* A job that ends, and a daily job of its own, lists the webhooks that    *)
(* subscribe to what happened and queues a notification for each; a worker *)
(* of any replica delivers it, in up to MaxAttempts attempts, and writes   *)
(* every attempt to a log. Editors change webhooks at any moment. A step   *)
(* is one statement, one request to the receiver or one step of River.     *)
(***************************************************************************)
EXTENDS Naturals, Sequences, FiniteSets

CONSTANTS
    Hooks,        \* webhooks there may ever be
    OldHooks,     \* those that may be there from before URLs were validated
    Editors,      \* requests of editors under way at once
    Sources,      \* jobs that notify, one slot each
    Kinds,        \* what they may be: "report", "failure", "digest"
    MaxHooks,     \* maxWebhooksPerProject (10 in the code)
    MaxAttempts,  \* attempts of a notification (5 in the code)
    MaxEdits,     \* bound: requests of editors
    Faults,       \* statements that may fail: "list", "insert", "load", "log"
    Crashes,      \* bound: workers that die
    NoHook        \* no row

Events == {"report_completed", "report_failed", "regression_detected", "digest"}

(* Bounds: the subscriptions and the partial updates that are tried. *)
EventSets == {{}, {"report_completed", "report_failed"}, {"regression_detected", "digest"}}
Patches   == {[active |-> FALSE], [events |-> {"report_failed"}], [template |-> "good"]}

Assumption ==
    /\ OldHooks \subseteq Hooks
    /\ {MaxHooks, MaxAttempts} \subseteq Nat \ {0}
    /\ {MaxEdits, Crashes} \subseteq Nat
    /\ Kinds \subseteq {"report", "failure", "digest"}

VARIABLES
    hooks,    \* rows of webhooks
    used,     \* ids given out; an id is never given again
    edit,     \* requests of editors
    source,   \* jobs that notify
    note,     \* the notification of a source to a webhook: its job row
    logged,   \* rows of webhook_deliveries: the attempts
    edits, crashes,  \* counters of the two bounds
    posts,    \* history: attempts whose request was sent
    taken,    \* history: attempts the receiver answered with 2xx
    died      \* history: attempts whose worker died

vars == <<hooks, used, edit, source, note, logged, edits, crashes, posts, taken, died>>

Ids      == Sources \X Hooks
Attempts == 1 .. MaxAttempts
Nobody   == [at |-> "idle"]
NoNote   == [state |-> "none", attempt |-> 0, event |-> "none", row |-> NoHook]

(* A row as Create writes it: the events default to report_completed. *)
Row(ev) == [events   |-> IF ev = {} THEN {"report_completed"} ELSE ev,
            active   |-> TRUE,
            url      |-> "public",
            template |-> "good"]

Existing == {h \in Hooks : hooks[h] # NoHook}
Ended    == {"completed", "discarded"}

(* The types of the rows and of what the requests keep of them. *)
IsRow(r) ==
    /\ r.events \subseteq Events /\ r.active \in BOOLEAN
    /\ r.url \in {"public", "blocked"} /\ r.template \in {"good", "bad"}

(* Types; only an existing webhook has a log, and a log only of attempts   *)
(* that River has counted.                                                 *)
TypeOK ==
    /\ \A h \in Hooks : hooks[h] = NoHook \/ IsRow(hooks[h])
    /\ Existing \subseteq used
    /\ \A n \in Ids : /\ note[n].state \in {"none", "queued", "load", "post", "log", "retryable"} \cup Ended
                      /\ note[n].attempt \in 0 .. MaxAttempts
                      /\ logged[n] \subseteq 1 .. note[n].attempt
                      /\ hooks[n[2]] = NoHook => logged[n] = {}

Init ==
    /\ used \in {{}, OldHooks}
    /\ hooks = [h \in Hooks |->
          IF h \in used THEN [Row({"report_completed"}) EXCEPT !.url = "blocked"] ELSE NoHook]
    /\ edit = [e \in Editors |-> Nobody]
    /\ source = [s \in Sources |-> Nobody]
    /\ note = [n \in Ids |-> NoNote]
    /\ logged = [n \in Ids |-> {}]
    /\ edits = 0 /\ crashes = 0
    /\ posts = [n \in Ids |-> {}]
    /\ taken = [n \in Ids |-> {}]
    /\ died = [n \in Ids |-> {}]

-----------------------------------------------------------------------------
(* Editors. Both requests validate the URL, and neither the template: one  *)
(* that does not render is stored.                                         *)

tables == <<source, note, crashes, posts, taken, died>>

(* Create: the existing rows are counted, *)
CreateCount(e) ==
    /\ edit[e] = Nobody /\ edits < MaxEdits
    /\ Cardinality(Existing) < MaxHooks
    /\ edit' = [edit EXCEPT ![e] = [at |-> "create"]]
    /\ edits' = edits + 1
    /\ UNCHANGED <<hooks, used, logged, tables>>

(* and then a row is inserted. *)
CreateInsert(e, h) ==
    /\ edit[e].at = "create" /\ h \notin used
    /\ \E ev \in EventSets, template \in {"good", "bad"} :
          hooks' = [hooks EXCEPT ![h] = [Row(ev) EXCEPT !.template = template]]
    /\ used' = used \cup {h}
    /\ edit' = [edit EXCEPT ![e] = Nobody]
    /\ UNCHANGED <<logged, edits, tables>>

(* Update: the row is read, *)
UpdateLoad(e, h) ==
    /\ edit[e] = Nobody /\ edits < MaxEdits
    /\ hooks[h] # NoHook
    /\ edit' = [edit EXCEPT ![e] = [at |-> "update", hook |-> h, row |-> hooks[h]]]
    /\ edits' = edits + 1
    /\ UNCHANGED <<hooks, used, logged, tables>>

Patched(row, p) == [f \in DOMAIN row |-> IF f \in DOMAIN p THEN p[f] ELSE row[f]]

(* and written as a whole, with the fields the request names replaced;     *)
(* nothing is written if the row has gone.                                 *)
UpdateSave(e) ==
    /\ edit[e].at = "update"
    /\ LET h == edit[e].hook IN
       \E p \in Patches :
          hooks' = [hooks EXCEPT ![h] = IF @ = NoHook THEN NoHook ELSE Patched(edit[e].row, p)]
    /\ edit' = [edit EXCEPT ![e] = Nobody]
    /\ UNCHANGED <<used, logged, edits, tables>>

(* Delete: one statement; the log goes with the row. *)
Delete(h) ==
    /\ hooks[h] # NoHook /\ edits < MaxEdits
    /\ hooks' = [hooks EXCEPT ![h] = NoHook]
    /\ logged' = [n \in Ids |-> IF n[2] = h THEN {} ELSE logged[n]]
    /\ edits' = edits + 1
    /\ UNCHANGED <<used, edit, tables>>

Edit ==
    \/ \E e \in Editors : CreateCount(e) \/ UpdateSave(e)
    \/ \E e \in Editors, h \in Hooks : CreateInsert(e, h) \/ UpdateLoad(e, h)
    \/ \E h \in Hooks : Delete(h)

-----------------------------------------------------------------------------
(* Jobs that notify. *)

rows == <<hooks, used, edit, edits, logged, crashes, posts, taken, died>>

webhookEventPriority == <<"report_completed", "report_failed", "regression_detected">>

(* ListActiveForEvent. *)
Subscribed(event) ==
    {h \in Existing : hooks[h].active /\ event \in hooks[h].events}

Nothing == [h \in Hooks |-> "none"]

(* A finished report: buildWebhookPayload derives what has happened, and   *)
(* only that is listed, the most specific last.                            *)
ReportDone(s) ==
    /\ source[s] = Nobody /\ "report" \in Kinds
    /\ \E happened \in {{}, {"report_failed"}, {"report_failed", "regression_detected"}} :
          source' = [source EXCEPT ![s] =
              [at |-> "list", kind |-> "report", chosen |-> Nothing, seen |-> {},
               todo |-> SelectSeq(webhookEventPriority,
                                  LAMBDA ev : ev \in {"report_completed"} \cup happened)]]
    /\ UNCHANGED <<note, rows>>

(* A discarded job: enqueueFailureWebhook, two listings. *)
ReportFailed(s) ==
    /\ source[s] = Nobody /\ "failure" \in Kinds
    /\ source' = [source EXCEPT ![s] =
          [at |-> "list", kind |-> "failure", chosen |-> Nothing, seen |-> {},
           todo |-> <<"report_completed", "report_failed">>]]
    /\ UNCHANGED <<note, rows>>

(* The digest, when a defect regressed in the window. *)
DigestDue(s) ==
    /\ source[s] = Nobody /\ "digest" \in Kinds
    /\ source' = [source EXCEPT ![s] =
          [at |-> "list", kind |-> "digest", chosen |-> Nothing, seen |-> {},
           todo |-> <<"digest">>]]
    /\ UNCHANGED <<note, rows>>

(* Mutant: the listing for the failure does not skip who has been found. *)
ChooseAgain(src, found) ==
    [h \in Hooks |-> IF h \in found
                     THEN IF src.kind = "failure" THEN "report_failed" ELSE Head(src.todo)
                     ELSE src.chosen[h]]

(* What a listing adds. Of a report the last, most specific event stays;   *)
(* of a failure the first listing that finds a webhook queues for it.      *)
Choose(src, found) ==
    [h \in Hooks |->
        CASE h \in found /\ src.kind # "failure"               -> Head(src.todo)
          [] h \in found \ src.seen /\ src.kind = "failure"    -> "report_failed"
          [] OTHER                                             -> src.chosen[h]]

(* A listing that fails is passed over. A failure queues after every       *)
(* listing, before the next.                                               *)
List(s) ==
    /\ source[s].at = "list" /\ source[s].todo # <<>>
    /\ source[s].kind = "failure" => source[s].chosen = Nothing
    /\ \E found \in {Subscribed(Head(source[s].todo))} \cup (IF "list" \in Faults THEN {{}} ELSE {}) :
          source' = [source EXCEPT ![s].chosen = Choose(source[s], found),
                                   ![s].seen = @ \cup found,
                                   ![s].todo = Tail(@)]
    /\ UNCHANGED <<note, rows>>

(* Insert of the delivery job, whose failure is logged. The slot of a      *)
(* notification is its source's and its webhook's.                         *)
Enqueue(s, h) ==
    /\ source[s].at = "list" /\ source[s].chosen[h] # "none"
    /\ source[s].kind = "failure" \/ source[s].todo = <<>>
    /\ \/ note' = [note EXCEPT ![<<s, h>>] =
              [NoNote EXCEPT !.state = "queued", !.event = source[s].chosen[h]]]
       \/ "insert" \in Faults /\ UNCHANGED note
    /\ source' = [source EXCEPT ![s].chosen[h] = "none"]
    /\ UNCHANGED rows

Notify ==
    \E s \in Sources :
        \/ ReportDone(s) \/ ReportFailed(s) \/ DigestDue(s)
        \/ List(s)
        \/ \E h \in Hooks : Enqueue(s, h)

-----------------------------------------------------------------------------
(* Delivery: SendWebhookWorker.Work under River. *)

outside == <<hooks, used, edit, source, edits>>

Step(n, state) == note' = [note EXCEPT ![n].state = state]

(* What River makes of an attempt that failed. *)
Failed(n) == IF note[n].attempt < MaxAttempts THEN "retryable" ELSE "discarded"

Fetch(n) ==
    /\ note[n].state \in {"queued", "retryable"}
    /\ note' = [note EXCEPT ![n].state = "load", ![n].attempt = @ + 1]
    /\ UNCHANGED <<logged, crashes, posts, taken, died, outside>>

(* Mutant: a row that cannot be read postpones the attempt, uncounted. *)
LoadPostponed(n) ==
    /\ note[n].state = "load"
    /\ LET row == hooks[n[2]] IN
       \/ (row = NoHook \/ "load" \in Faults)
          /\ note' = [note EXCEPT ![n].state = "queued", ![n].attempt = @ - 1]
       \/ (row # NoHook /\ (row.url = "blocked" \/ row.template = "bad"))
          /\ Step(n, Failed(n))
       \/ (row # NoHook /\ row.url = "public" /\ row.template = "good")
          /\ note' = [note EXCEPT ![n].state = "post", ![n].row = row]
    /\ UNCHANGED <<logged, crashes, posts, taken, died, outside>>

(* GetByID, with the secrets decrypted. Any error ends the notification as *)
(* if its webhook had been deleted. A URL that is refused is an entry of   *)
(* the log without a payload, which the table does not accept; a template  *)
(* that does not render is no entry at all.                                *)
Load(n) ==
    /\ note[n].state = "load"
    /\ LET row == hooks[n[2]] IN
       \/ (row = NoHook \/ "load" \in Faults)
          /\ Step(n, "completed")
       \/ (row # NoHook /\ (row.url = "blocked" \/ row.template = "bad"))
          /\ Step(n, Failed(n))
       \/ (row # NoHook /\ row.url = "public" /\ row.template = "good")
          /\ note' = [note EXCEPT ![n].state = "post", ![n].row = row]
    /\ UNCHANGED <<logged, crashes, posts, taken, died, outside>>

(* The request: answered with 2xx, or not answered so. *)
Post(n) ==
    /\ note[n].state = "post"
    /\ posts' = [posts EXCEPT ![n] = @ \cup {note[n].attempt}]
    /\ taken' \in {taken, [taken EXCEPT ![n] = @ \cup {note[n].attempt}]}
    /\ note' = [note EXCEPT ![n].state = "log", ![n].row = NoHook]
    /\ UNCHANGED <<logged, crashes, died, outside>>

(* Mutant: a failure to write the log fails the attempt. *)
RecordStrictly(n) ==
    /\ note[n].state = "log"
    /\ \/ hooks[n[2]] # NoHook
          /\ logged' = [logged EXCEPT ![n] = @ \cup {note[n].attempt}]
          /\ Step(n, IF note[n].attempt \in taken[n] THEN "completed" ELSE Failed(n))
       \/ (hooks[n[2]] = NoHook \/ "log" \in Faults)
          /\ Step(n, Failed(n)) /\ UNCHANGED logged
    /\ UNCHANGED <<crashes, posts, taken, died, outside>>

(* InsertDelivery, whose error is dropped, and the end of the attempt. *)
Record(n) ==
    /\ note[n].state = "log"
    /\ \/ hooks[n[2]] # NoHook /\ logged' = [logged EXCEPT ![n] = @ \cup {note[n].attempt}]
       \/ (hooks[n[2]] = NoHook \/ "log" \in Faults) /\ UNCHANGED logged
    /\ Step(n, IF note[n].attempt \in taken[n] THEN "completed" ELSE Failed(n))
    /\ UNCHANGED <<crashes, posts, taken, died, outside>>

(* The worker's pod dies, and River gives the job to another one. *)
Crash(n) ==
    /\ note[n].state \in {"load", "post", "log"} /\ crashes < Crashes
    /\ note' = [note EXCEPT ![n].state = Failed(n), ![n].row = NoHook]
    /\ crashes' = crashes + 1
    /\ died' = [died EXCEPT ![n] = @ \cup {note[n].attempt}]
    /\ UNCHANGED <<logged, posts, taken, outside>>

Attempt(n) == Fetch(n) \/ Load(n) \/ Post(n) \/ Record(n)

Deliver == \E n \in Ids : Attempt(n) \/ Crash(n)

-----------------------------------------------------------------------------
Next == Edit \/ Notify \/ Deliver

Spec == Init /\ [][Next]_vars

(* River polls its queue, and a statement or request ends within the time  *)
(* limit of its attempt (one minute; ten seconds for the request).         *)
FairSpec == Spec /\ \A n \in Ids : WF_vars(Attempt(n))

-----------------------------------------------------------------------------
(* A job that ended notifies a webhook at most once, whatever editors do   *)
(* between its listings: a queued notification is never queued again.      *)
OneNoticePerSource ==
    [][\A n \in Ids : note[n].state # "none" /\ note'[n] # note[n]
                        => note'[n].state # "queued"]_vars

(* A receiver that has accepted a notification gets it again only when the *)
(* worker of the accepted attempt died; a log that cannot be written, or a *)
(* webhook that was deleted or edited meanwhile, does not repeat it.       *)
RepeatNeedsCrash ==
    \A n \in Ids : \A a \in taken[n], b \in posts[n] : a < b => a \in died[n]

(* Every notification ends: delivered, given up or without its webhook. *)
NoticesEnd ==
    \A n \in Ids : (note[n].state = "queued") ~> (note[n].state \in Ended)

(* Deliveries are attempted up to MaxAttempts times: one whose webhook is  *)
(* still there is not reported as done unless a receiver accepted it.      *)
DoneMeansDelivered ==
    [][\A n \in Ids :
          note[n].state # "completed" /\ note'[n].state = "completed" /\ hooks[n[2]] # NoHook
              => taken[n] # {}]_vars

(* Inactive webhooks receive no deliveries: an attempt that starts while   *)
(* the webhook is inactive sends nothing.                                  *)
InactiveSilent ==
    [][\A n \in Ids : note'[n].state = "post" /\ note[n].state = "load" => hooks[n[2]].active]_vars

(* Each attempt is recorded in the delivery log. *)
AttemptsLogged ==
    \A n \in Ids :
        note[n].state = "discarded" /\ hooks[n[2]] # NoHook /\ crashes = 0
            => logged[n] = 1 .. note[n].attempt

(* A project has at most MaxHooks webhooks. *)
LimitKept == Cardinality(Existing) <= MaxHooks

(* A partial update leaves the fields it does not name as they are. *)
PartialUpdate ==
    [][\A e \in Editors : edit[e].at = "update" /\ edit'[e] = Nobody =>
          \E p \in Patches : LET h == edit[e].hook IN
              hooks[h] = NoHook \/ hooks'[h] = Patched(hooks[h], p)]_vars
=============================================================================
