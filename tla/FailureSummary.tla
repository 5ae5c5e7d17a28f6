--------------------------- MODULE FailureSummary ---------------------------
(***************************************************************************)
(* The summary of one failing test of one build that a language model      *)
(* writes when somebody opens it: the cached row, the evidence its hash    *)
(* stands for, and the flights that share one call between the requests of *)
(* a replica (internal/failure, failure_summaries).                        *)
(*                                                                         *)
(* What the evidence says is its content; the hash of two contents is      *)
(* never the same. A flight is keyed by build and test, not by content. A  *)
(* step is one statement or the call; evidence is read in one step, since  *)
(* its parts are told apart by no property.                                *)
(***************************************************************************)
EXTENDS Naturals, FiniteSets

CONSTANTS
    Replicas,
    Requests,    \* requests of viewers, each on any replica
    Contents,    \* what the evidence may say
    Partial,     \* the content that is left when a part cannot be read
    Bare,        \* no error message and no failed step: nothing to explain
    MaxChanges,  \* bound: repeated generations, attachments that go
    Faults,      \* what may fail: "evidence", "read", "write", "model", "client"
    NoContent    \* no row

Assumption ==
    /\ {Partial, Bare} \subseteq Contents /\ Partial # Bare
    /\ NoContent \notin Contents
    /\ MaxChanges \in Nat

VARIABLES
    content,  \* what the evidence says now
    changes,  \* changes so far
    cached,   \* the row of failure_summaries: the content of its input_hash
    flight,   \* of each replica: who leads, and how far the call is
    visit,    \* requests: label, replica, evidence read, client still there
    called,   \* history: contents the model was asked about
    written   \* history: contents a summary was written for

vars == <<content, changes, cached, flight, visit, called, written>>

NoFlight == [at |-> "none"]
Idle     == [at |-> "idle"]

(* What a request is answered: nothing to explain, a summary of a content, *)
(* a soft error, or status 500.                                            *)
Refusal  == [kind |-> "no evidence"]
Soft     == [kind |-> "failed"]
Fault    == [kind |-> "error"]
Answer(c, fromCache) == [kind |-> "summary", of |-> c, fromCache |-> fromCache]

(* Types; a flight has a leader that waits for it. *)
TypeOK ==
    /\ content \in Contents /\ changes \in 0 .. MaxChanges
    /\ cached \in (Contents \ {Bare}) \cup {NoContent}
    /\ \A p \in Replicas : flight[p] # NoFlight =>
          LET r == flight[p].by IN
          /\ flight[p].at \in {"recheck", "call", "write"}
          /\ visit[r].at = "wait" /\ visit[r].on = p /\ visit[r].ev = flight[p].ev
    /\ \A r \in Requests : visit[r].at \in {"idle", "cache", "join", "wait", "done"}
    /\ written \subseteq called

Init ==
    /\ content \in Contents /\ changes = 0
    /\ cached = NoContent
    /\ flight = [p \in Replicas |-> NoFlight]
    /\ visit = [r \in Requests |-> Idle]
    /\ called = {} /\ written = {}

-----------------------------------------------------------------------------
(* The last passing build goes, or a file of an attachment. *)
Change ==
    /\ changes < MaxChanges
    /\ content' \in Contents \ {content}
    /\ changes' = changes + 1
    /\ UNCHANGED <<cached, flight, visit, called, written>>

quiet == <<content, changes>>

Done(r, answer) == visit' = [visit EXCEPT ![r] = [at |-> "done", answer |-> answer]]

(* assembleEvidence: a part that cannot be read is left out. *)
Gathered ==
    {content} \cup (IF "evidence" \in Faults /\ content # Bare THEN {Partial} ELSE {})

(* The row has the hash of this evidence. *)
Matches(ev) == cached = ev

(* The gate refuses what has no error message and no failed step. *)
Arrive(r, p) ==
    /\ visit[r] = Idle
    /\ \E ev \in Gathered :
          IF ev = Bare
          THEN Done(r, Refusal)
          ELSE visit' = [visit EXCEPT ![r] = [at |-> "cache", on |-> p, ev |-> ev, there |-> TRUE]]
    /\ UNCHANGED <<quiet, cached, flight, called, written>>

(* summaries.Get: a row with the same hash is the answer. *)
CheckCache(r) ==
    /\ visit[r].at = "cache"
    /\ \/ "read" \in Faults /\ Done(r, Fault)
       \/ Matches(visit[r].ev) /\ Done(r, Answer(cached, TRUE))
       \/ ~Matches(visit[r].ev) /\ visit' = [visit EXCEPT ![r].at = "join"]
    /\ UNCHANGED <<quiet, cached, flight, called, written>>

(* group.Do: the flight of the replica, or a new one with this request's   *)
(* evidence.                                                               *)
Join(r) ==
    /\ visit[r].at = "join"
    /\ LET p == visit[r].on IN
       flight' = IF flight[p] = NoFlight
                 THEN [flight EXCEPT ![p] = [at |-> "recheck", by |-> r, ev |-> visit[r].ev]]
                 ELSE flight
    /\ visit' = [visit EXCEPT ![r].at = "wait"]
    /\ UNCHANGED <<quiet, cached, called, written>>

(* The flight ends, and everybody in it gets the same answer. *)
Land(p, answer) ==
    /\ visit' = [r \in Requests |->
          IF visit[r].at = "wait" /\ visit[r].on = p
          THEN [at |-> "done", answer |-> answer] ELSE visit[r]]
    /\ flight' = [flight EXCEPT ![p] = NoFlight]

(* Mutant: the call is made without asking the cache again. *)
CallAtOnce(p) ==
    /\ flight[p].at = "recheck"
    /\ flight' = [flight EXCEPT ![p].at = "call"]
    /\ UNCHANGED <<quiet, visit, cached, called, written>>

(* generate: a flight before this one may have written the row. A row that *)
(* cannot be read, here because the client went too, is no answer.         *)
Recheck(p) ==
    /\ flight[p].at = "recheck"
    /\ \/ Matches(flight[p].ev) /\ Land(p, Answer(cached, TRUE))
       \/ /\ \/ ~Matches(flight[p].ev)
             \/ "read" \in Faults
             \/ ~visit[flight[p].by].there
          /\ flight' = [flight EXCEPT ![p].at = "call"] /\ UNCHANGED visit
    /\ UNCHANGED <<quiet, cached, called, written>>

(* Mutant: an error of the model is the leader's alone. *)
CallAlone(p) ==
    LET f == flight[p] IN
    /\ f.at = "call"
    /\ called' = called \cup {f.ev}
    /\ \/ /\ visit[f.by].there
          /\ flight' = [flight EXCEPT ![p].at = "write"] /\ UNCHANGED visit
       \/ /\ "model" \in Faults \/ ~visit[f.by].there
          /\ Done(f.by, Soft) /\ flight' = [flight EXCEPT ![p] = NoFlight]
    /\ UNCHANGED <<quiet, cached, written>>

(* Summarize: the model answers within its time limit, or not. The call    *)
(* carries the leader's context, and ends with it. An empty hypothesis is  *)
(* an error like any other: nothing is written.                            *)
Call(p) ==
    LET f == flight[p] IN
    /\ f.at = "call"
    /\ called' = called \cup {f.ev}
    /\ \/ /\ visit[f.by].there
          /\ flight' = [flight EXCEPT ![p].at = "write"] /\ UNCHANGED visit
       \/ /\ "model" \in Faults \/ ~visit[f.by].there
          /\ Land(p, Soft)
    /\ UNCHANGED <<quiet, cached, written>>

(* Upsert: the one row of the test, whatever was in it. *)
Upsert(ev) == cached' = ev /\ written' = written \cup {ev}

(* A failure of Upsert is logged; the answer is the summary all the same. *)
Write(p) ==
    /\ flight[p].at = "write"
    /\ \/ visit[flight[p].by].there /\ Upsert(flight[p].ev)
       \/ ("write" \in Faults \/ ~visit[flight[p].by].there) /\ UNCHANGED <<cached, written>>
    /\ Land(p, Answer(flight[p].ev, FALSE))
    /\ UNCHANGED <<quiet, called>>

(* The client goes away. A request that leads a flight takes its context   *)
(* with it; one that waits for another's stays until that lands.           *)
Leave(r) ==
    /\ "client" \in Faults
    /\ visit[r].at = "wait" /\ visit[r].there
    /\ visit' = [visit EXCEPT ![r].there = FALSE]
    /\ UNCHANGED <<quiet, cached, flight, called, written>>

Serve(r) ==
    \/ CheckCache(r)
    \/ Join(r)
    \/ visit[r].at = "wait" /\ (Recheck(visit[r].on) \/ Call(visit[r].on) \/ Write(visit[r].on))

Next ==
    \/ Change
    \/ \E r \in Requests : \/ \E p \in Replicas : Arrive(r, p)
                           \/ Serve(r)
                           \/ Leave(r)

Spec == Init /\ [][Next]_vars

(* Statements have a time limit, and so has each of the two requests that  *)
(* Summarize makes of the model.                                           *)
FairSpec == Spec /\ \A r \in Requests : WF_vars(Serve(r))

-----------------------------------------------------------------------------
(* A call is paid for only when the row does not answer it: requests that  *)
(* missed the cache together, or one after the other, make one call, as    *)
(* long as the row can be read. (SummaryFor, generate.)                    *)
CallsAreNeeded ==
    [][\A p \in Replicas :
          flight[p].at = "call" /\ flight'[p] # flight[p] /\ visit[flight[p].by].there
              => cached # flight[p].ev]_vars

(* Every request is answered, also those that wait for the flight of       *)
(* another whose client has left or whose call failed.                     *)
VisitorsAnswered == \A r \in Requests : (visit[r].at = "cache") ~> (visit[r].at = "done")

(* "keyed on the failure's content": the summary a request gets is of the  *)
(* evidence it found.                                                      *)
OwnContent ==
    [][\A r \in Requests :
          visit[r].at = "wait" /\ visit'[r].at = "done" /\ visit'[r].answer.kind = "summary"
              => visit'[r].answer.of = visit[r].ev]_vars

(* "a given failure is summarized once". *)
SummarizedOnce ==
    [][\A p \in Replicas : flight[p].at = "call" /\ flight'[p].at = "write"
          => flight[p].ev \notin written]_vars
=============================================================================
