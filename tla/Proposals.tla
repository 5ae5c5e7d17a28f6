------------------------------ MODULE Proposals ------------------------------
(***************************************************************************)
(* API keys and what agents propose with them. An agent calls one of the   *)
(* three propose tools of the MCP server with an API key; the call leaves  *)
(* a pending proposal, after the person behind the client has confirmed it *)
(* where the client can ask. Administrators approve or reject proposals    *)
(* through the API. A proposal row refers to the key it was made with and  *)
(* to the account that reviewed it, both by a foreign key.                 *)
(*                                                                         *)
(* One account owns the keys. The arguments of a call are what makes two   *)
(* proposals duplicates of each other, here its subject, and the rest of   *)
(* it, here its detail. A transaction takes effect when it commits: the    *)
(* statements before that hold the rows they changed.                      *)
(***************************************************************************)
EXTENDS Naturals, FiniteSets, Sequences

CONSTANTS
    MaxIds,     \* bound: API keys ever created; ids ascend
    MaxKeys,    \* 5: the keys an account may have
    Calls,      \* requests in flight: keys being created, tools being called
    Kinds,      \* among "defect", "known_issue", "flaky"
    Subjects, Details,
    MaxProps,   \* bound: proposals ever written
    Reviewers,  \* administrators
    Accounts    \* the reviewers whose token carries a users.id

Assumption ==
    /\ MaxIds \in Nat /\ MaxProps \in Nat /\ MaxKeys \in Nat \ {0}
    /\ IsFiniteSet(Calls)
    /\ Kinds \subseteq {"defect", "known_issue", "flaky"}
    /\ Subjects # {} /\ Details # {}
    /\ Details \intersect {"none", "absent"} = {}

VARIABLES
    kind,       \* which of the three tools and tables this is: they do not touch
    keys,       \* api_keys: the rows that exist
    last,       \* the last id given out
    call,       \* requests: label and what they carry
    sealed,     \* confirmations asked for, whose RequestState has not expired
    props,      \* the three proposal tables, in the order of the ids
    review,     \* approvals under way: the proposal found pending
    shown,      \* what proposals change: the detail in force
    applied,    \* history: proposals whose change was written
    missing,    \* history: proposals whose subject did not exist during an approval
    owed,       \* history: keys that a cascade was to delete and that exist
    refused     \* history: a review the database turned down

vars == <<kind, keys, last, call, sealed, props, review, shown, applied, missing, owed, refused>>

Pids == 1 .. MaxProps
Args == Subjects \X Details

Keys  == 1 .. MaxIds
NoKey == 0

None   == "none"    \* the row exists and nothing was proposed for it
Absent == "absent"  \* no such row
NoPid  == 0

Proposal == [args : Args, key : Keys,
             status : {"pending", "approved", "rejected", "gone"}]
Request  == [at : {"idle", "counted", "checked"}, key : Keys \union {NoKey}, args : Args]

Idle == [at |-> "idle", key |-> NoKey, args |-> CHOOSE a \in Args : TRUE]

(* The rows that exist. *)
Rows == {i \in DOMAIN props : props[i].status # "gone"}

(* Types, and the foreign key proposer_api_key_id. *)
TypeOK ==
    /\ kind \in Kinds
    /\ last \in Keys \union {NoKey} /\ keys \subseteq 1 .. last
    /\ call \in [Calls -> Request]
    /\ sealed \subseteq Args
    /\ props \in Seq(Proposal) /\ Len(props) <= MaxProps
    /\ review \in [Reviewers -> Pids \union {NoPid}]
    /\ shown \in [Subjects -> Details \union {None, Absent}]
    /\ applied \subseteq Pids /\ missing \subseteq Pids
    /\ owed \subseteq keys
    /\ refused \in BOOLEAN
    /\ \A i \in Rows : props[i].key \in keys

Init ==
    /\ kind \in Kinds
    /\ keys = {} /\ last = NoKey
    /\ call = [c \in Calls |-> Idle]
    /\ sealed = {}
    /\ props = << >>
    /\ review = [r \in Reviewers |-> NoPid]
    /\ shown \in [Subjects -> {None, Absent}]
    /\ applied = {} /\ missing = {}
    /\ owed = {}
    /\ refused = FALSE

-----------------------------------------------------------------------------
(* API keys: counted first, inserted later (APIKeyHandler.Create). *)

(* Mutant: the limit is off by one. *)
RoomForOneMore == Cardinality(keys) <= MaxKeys

RoomForKey == Cardinality(keys) < MaxKeys

CountKeys(c) ==
    /\ call[c].at = "idle"
    /\ RoomForKey
    /\ call' = [call EXCEPT ![c].at = "counted"]
    /\ UNCHANGED <<kind, keys, last, sealed, props, review, shown, applied, missing, owed, refused>>

CreateKey(c) ==
    /\ call[c].at = "counted"
    /\ last < MaxIds
    /\ last' = last + 1 /\ keys' = keys \union {last'}
    /\ call' = [call EXCEPT ![c] = Idle]
    /\ UNCHANGED <<kind, sealed, props, review, shown, applied, missing, owed, refused>>

(* A proposal refers to the key: the statement that deletes it fails. *)
Referenced(k) == \E i \in Rows : props[i].key = k

(* Mutant: the statement goes round the foreign key. *)
DeleteKeyAnyway(k) ==
    /\ k \in keys
    /\ keys' = keys \ {k} /\ owed' = owed \ {k}
    /\ UNCHANGED <<kind, last, call, sealed, props, review, shown, applied, missing, refused>>

DeleteKey(k) ==
    /\ k \in keys
    /\ ~Referenced(k)
    /\ keys' = keys \ {k} /\ owed' = owed \ {k}
    /\ UNCHANGED <<kind, last, call, sealed, props, review, shown, applied, missing, refused>>

(* cascadeDeleteAPIKeys after a password reset or a deactivation: one      *)
(* statement for all keys; when it fails a warning is logged.              *)
CascadeDeleteKeys ==
    /\ keys # {}
    /\ keys' = IF \E k \in keys : Referenced(k) THEN keys ELSE {}
    /\ owed' = keys'
    /\ UNCHANGED <<kind, last, call, sealed, props, review, shown, applied, missing, refused>>

-----------------------------------------------------------------------------
(* The propose tools. A call looks for a pending duplicate, asks for a     *)
(* confirmation or acts on one, and inserts the proposal later.            *)

Pending(s) == {i \in Rows : props[i].args[1] = s /\ props[i].status = "pending"}

Duplicate(s) == Pending(s) # {}

(* First leg: the client can ask; nothing is written. *)
AskUser(a) ==
    /\ keys # {}
    /\ ~Duplicate(a[1])
    /\ sealed' = sealed \union {a}
    /\ UNCHANGED <<kind, keys, last, call, props, review, shown, applied, missing, owed, refused>>

(* The ten minutes of a confirmation are over. *)
Expire(a) ==
    /\ a \in sealed
    /\ sealed' = sealed \ {a}
    /\ UNCHANGED <<kind, keys, last, call, props, review, shown, applied, missing, owed, refused>>

(* The client cannot ask, or it presents an accepted confirmation of this  *)
(* tool and these arguments; the confirmation stays good until it expires. *)
Decided(a, asked) == asked => a \in sealed

(* Mutant: a confirmed call does not look for a duplicate again. *)
ProposeConfirmed(c, k, a, asked) ==
    /\ call[c].at = "idle"
    /\ k \in keys
    /\ asked \/ ~Duplicate(a[1])
    /\ Decided(a, asked)
    /\ call' = [call EXCEPT ![c] = [at |-> "checked", key |-> k, args |-> a]]
    /\ UNCHANGED <<kind, keys, last, sealed, props, review, shown, applied, missing, owed, refused>>

(* A call that finds a duplicate answers with it. *)
Propose(c, k, a, asked) ==
    /\ call[c].at = "idle"
    /\ k \in keys
    /\ ~Duplicate(a[1])
    /\ Decided(a, asked)
    /\ call' = [call EXCEPT ![c] = [at |-> "checked", key |-> k, args |-> a]]
    /\ UNCHANGED <<kind, keys, last, sealed, props, review, shown, applied, missing, owed, refused>>

(* Create: the insert fails when the key was deleted meanwhile. Whether    *)
(* the audit row that follows is written changes the answer alone.         *)
InsertProposal(c) ==
    /\ call[c].at = "checked"
    /\ call' = [call EXCEPT ![c] = Idle]
    /\ IF call[c].key \in keys
       THEN /\ Len(props) < MaxProps
            /\ props' = Append(props, [args |-> call[c].args,
                                      key |-> call[c].key, status |-> "pending"])
       ELSE UNCHANGED props
    /\ UNCHANGED <<kind, keys, last, sealed, review, shown, applied, missing, owed, refused>>

-----------------------------------------------------------------------------
(* Reviews. An approval reads the row, and later changes the target, the   *)
(* row and the audit log in one transaction that asks for the id alone.    *)

BeginApprove(r, i) ==
    /\ review[r] = NoPid
    /\ i \in Rows /\ props[i].status = "pending"
    /\ review' = [review EXCEPT ![r] = i]
    /\ missing' = missing \union {j \in {i} : shown[props[i].args[1]] = Absent}
    /\ UNCHANGED <<kind, keys, last, call, sealed, props, shown, applied, owed, refused>>

(* UPDATE defect_fingerprints, and UPDATE test_results for the newest      *)
(* result of the test: no row, no change, and no error. INSERT INTO        *)
(* known_issues ... ON CONFLICT DO UPDATE.                                 *)
Matches(s) == kind = "known_issue" \/ shown[s] # Absent

Applied(s, d) == IF Matches(s) THEN [shown EXCEPT ![s] = d] ELSE shown

(* reviewed_by_user_id is 0 for a reviewer without a users.id, which the   *)
(* foreign key refuses. A known issue needs its project, which went with   *)
(* the row; the other two statements match nothing then.                   *)
Approve(r) ==
    LET i == review[r]
        p == props[i]
    IN
    /\ i # NoPid
    /\ review' = [review EXCEPT ![r] = NoPid]
    /\ IF p.status = "gone"
       THEN UNCHANGED <<props, shown, applied, refused>>
       ELSE IF r \in Accounts
       THEN /\ shown' = Applied(p.args[1], p.args[2])
            /\ props' = [props EXCEPT ![i].status = "approved"]
            /\ applied' = applied \union {j \in {i} : Matches(p.args[1])}
            /\ UNCHANGED refused
       ELSE /\ refused' = TRUE
            /\ UNCHANGED <<props, shown, applied>>
    /\ UNCHANGED <<kind, keys, last, call, sealed, missing, owed>>

(* Mutant: the status is not asked for by the statement that changes it. *)
RejectById(r, i) ==
    /\ i \in Rows
    /\ IF r \in Accounts
       THEN /\ props' = [props EXCEPT ![i].status = "rejected"] /\ UNCHANGED refused
       ELSE refused' = TRUE /\ UNCHANGED props
    /\ UNCHANGED <<kind, keys, last, call, sealed, review, shown, applied, missing, owed>>

(* One transaction, and its UPDATE asks for a pending row. *)
Reject(r, i) ==
    /\ i \in Rows /\ props[i].status = "pending"
    /\ IF r \in Accounts
       THEN /\ props' = [props EXCEPT ![i].status = "rejected"] /\ UNCHANGED refused
       ELSE refused' = TRUE /\ UNCHANGED props
    /\ UNCHANGED <<kind, keys, last, call, sealed, review, shown, applied, missing, owed>>

-----------------------------------------------------------------------------
(* Builds, retention and editors change what proposals are about; deleting *)
(* the project deletes its proposals and the rest with it.                 *)

UnderReview(s) == {i \in Rows : props[i].args[1] = s /\ \E r \in Reviewers : review[r] = i}

TargetChanges(s, d) ==
    /\ shown[s] # d
    /\ shown' = [shown EXCEPT ![s] = d]
    /\ missing' = missing \union {i \in UnderReview(s) : d = Absent}
    /\ UNCHANGED <<kind, keys, last, call, sealed, props, review, applied, owed, refused>>

DeleteProject ==
    /\ Rows # {}
    /\ props' = [i \in DOMAIN props |-> [props[i] EXCEPT !.status = "gone"]]
    /\ shown' = [s \in Subjects |-> Absent]
    /\ applied' = {} /\ missing' = {}
    /\ UNCHANGED <<kind, keys, last, call, sealed, review, owed, refused>>

Next ==
    \/ \E c \in Calls : CountKeys(c) \/ CreateKey(c) \/ InsertProposal(c)
    \/ \E k \in Keys : DeleteKey(k)
    \/ CascadeDeleteKeys
    \/ \E a \in Args :
         \/ AskUser(a) \/ Expire(a)
         \/ \E c \in Calls, k \in Keys, asked \in BOOLEAN : Propose(c, k, a, asked)
    \/ \E r \in Reviewers : Approve(r) \/ \E i \in DOMAIN props : BeginApprove(r, i) \/ Reject(r, i)
    \/ \E s \in Subjects, d \in {None, Absent} : TargetChanges(s, d)
    \/ DeleteProject

Spec == Init /\ [][Next]_vars

-----------------------------------------------------------------------------
(* What is checked in one statement and inserted in another is exceeded by *)
(* the requests in flight and no more: the keys of a user, by one for      *)
(* every creation that was counted together with another                   *)
(* (APIKeyHandler.Create), and the pending proposals of a subject, of      *)
(* which there is one for every call at the same time (execPropose...,     *)
(* FindPendingDuplicate).                                                  *)
KeysBounded       == Cardinality(keys) <= MaxKeys + Cardinality(Calls) - 1
DuplicatesBounded == \A s \in Subjects : Cardinality(Pending(s)) <= Cardinality(Calls)
ExcessBounded     == KeysBounded /\ DuplicatesBounded

(* A proposal that is rejected has changed nothing, and one that is        *)
(* approved has changed its subject, however its reviewers interleave      *)
(* (RejectProposal, ApproveProposal): a known issue always, and a defect   *)
(* or a test unless it did not exist at some time between the moment a     *)
(* reviewer found the proposal pending and the verdict.                    *)
VerdictIsEffect ==
    \A i \in DOMAIN props :
       /\ props[i].status = "rejected" => i \notin applied
       /\ props[i].status = "approved" /\ i \notin applied => kind # "known_issue" /\ i \in missing

(* ApproveProposal, after its comment: it "applies the change, marks the   *)
(* proposal approved".                                                     *)
ApprovedIsApplied == \A i \in DOMAIN props : props[i].status = "approved" => i \in applied

(* docs/security.md: a password reset and a deactivation delete all API    *)
(* keys of the account.                                                    *)
CascadeDeletesKeys == owed = {}

(* docs/audit-log.md: every administrator reviews proposals, one of the    *)
(* configuration file included.                                            *)
ReviewsAccepted == ~refused
=============================================================================
