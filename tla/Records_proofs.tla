--------------------------- MODULE Records_proofs ---------------------------
(***************************************************************************)
(* Proofs about Proposals, Defects, Results and Diagnosis, the parts of    *)
(* MCRecords.                                                              *)
(***************************************************************************)
EXTENDS MCRecords, FiniteSetTheorems, SequenceTheorems, WellFoundedInduction, TLAPS

-----------------------------------------------------------------------------
(* Proposals, for any number of keys, calls, proposals and reviewers: what *)
(* a check and a later insert let through beyond their limit is as many as *)
(* were in flight, and a verdict says whether the change was made.         *)
(* The inductive invariants. *)

\* What was applied is approved, and what is approved was applied or missed its
\* subject; a review is of a row there was, and knows when the subject is gone.
Approvals ==
  \A i \in DOMAIN props :
     /\ i \in applied => props[i].status = "approved"
     /\ props[i].status = "approved" /\ i \notin applied => kind # "known_issue" /\ i \in missing

ReviewsKnow ==
  \A r \in Reviewers : review[r] # NoPid =>
     /\ review[r] \in DOMAIN props
     /\ review[r] \in Rows /\ shown[props[review[r]].args[1]] = Absent => review[r] \in missing

Verdicts == applied \subseteq DOMAIN props /\ Approvals /\ ReviewsKnow

\* Calls that have counted the keys, or looked for a duplicate, and have not
\* inserted yet.
Counted    == {c \in Calls : call[c].at = "counted"}
Checked(s) == {c \in Calls : call[c].at = "checked" /\ call[c].args[1] = s}

KeysAndCalls  == Cardinality(keys) + Cardinality(Counted) <= MaxKeys - 1 + Cardinality(Calls)
PropsAndCalls == \A s \in Subjects :
                   Cardinality(Pending(s)) + Cardinality(Checked(s)) <= Cardinality(Calls)

Inv == TypeOK /\ Verdicts /\ KeysAndCalls /\ PropsAndCalls

-----------------------------------------------------------------------------
(* Types, by the variables that move together. *)

Statuses == {"pending", "approved", "rejected", "gone"}

KeysOK   == last \in Keys \union {NoKey} /\ keys \subseteq 1 .. last /\ owed \subseteq keys
CallOK   == call \in [Calls -> Request]
PropsOK  == props \in Seq(Proposal) /\ Len(props) <= MaxProps
RefsOK   == \A i \in Rows : props[i].key \in keys
ReviewOK == review \in [Reviewers -> Pids \union {NoPid}] /\ applied \subseteq Pids
            /\ missing \subseteq Pids
RestOK   == /\ kind \in Kinds /\ sealed \subseteq Args /\ refused \in BOOLEAN
            /\ shown \in [Subjects -> Details \union {None, Absent}]

LEMMA TypeParts ==
  /\ TypeOK <=> KeysOK /\ CallOK /\ PropsOK /\ RefsOK /\ ReviewOK /\ RestOK
  /\ TypeOK' <=> KeysOK' /\ CallOK' /\ PropsOK' /\ RefsOK' /\ ReviewOK' /\ RestOK'
  BY DEF TypeOK, KeysOK, CallOK, PropsOK, RefsOK, ReviewOK, RestOK

LEMMA IdleOK == ASSUME Assumption PROVE Idle \in Request
<1>1. Args # {}
  <2>1. PICK s \in Subjects, d \in Details : TRUE
    BY DEF Assumption
  <2>2. <<s, d>> \in Args
    BY DEF Args
  <2>3. QED
    BY <2>2
<1>2. (CHOOSE a \in Args : TRUE) \in Args
  BY <1>1
<1>3. QED
  BY <1>2 DEF Idle, Request

LEMMA FieldsOfCall ==
  ASSUME CallOK, NEW c \in Calls
  PROVE  /\ call[c].at \in {"idle", "counted", "checked"}
         /\ call[c].key \in Keys \union {NoKey} /\ call[c].args \in Args
  BY DEF CallOK, Request

LEMMA FieldsOfProposal ==
  ASSUME PropsOK, NEW i \in DOMAIN props
  PROVE  /\ props[i] \in Proposal
         /\ props[i].args \in Args /\ props[i].key \in Keys /\ props[i].status \in Statuses
<1>1. props[i] \in Proposal
  BY ElementOfSeq, LenProperties DEF PropsOK
<1>2. QED
  BY <1>1 DEF Proposal, Statuses

\* The three ways the table of proposals changes.
LEMMA Appended ==
  ASSUME Assumption, PropsOK, NEW p \in Proposal,
         Len(props) < MaxProps, props' = Append(props, p)
  PROVE  /\ PropsOK'
         /\ Len(props) + 1 \notin DOMAIN props
         /\ DOMAIN props' = DOMAIN props \union {Len(props) + 1}
         /\ Len(props) + 1 \in Pids
         /\ \A i \in DOMAIN props : props'[i] = props[i]
         /\ props'[Len(props) + 1] = p
<1>1. /\ props \in Seq(Proposal) /\ Len(props) \in Nat
      /\ DOMAIN props = 1 .. Len(props)
  BY LenProperties DEF PropsOK
<1>2. /\ props' \in Seq(Proposal) /\ Len(props') = Len(props) + 1
      /\ \A i \in 1 .. Len(props) : props'[i] = props[i]
      /\ props'[Len(props) + 1] = p
  BY <1>1, AppendProperties
<1>3. DOMAIN props' = 1 .. (Len(props) + 1)
  BY <1>2, LenProperties
<1>4. QED
  BY <1>1, <1>2, <1>3 DEF PropsOK, Pids, Assumption

LEMMA Judged ==
  ASSUME PropsOK, NEW i \in DOMAIN props, NEW s \in Statuses,
         props' = [props EXCEPT ![i].status = s]
  PROVE  /\ PropsOK'
         /\ DOMAIN props' = DOMAIN props
         /\ \A j \in DOMAIN props :
              /\ props'[j].args = props[j].args /\ props'[j].key = props[j].key
              /\ props'[j].status = IF j = i THEN s ELSE props[j].status
<1> DEFINE p == [props[i] EXCEPT !.status = s]
<1>1. props \in Seq(Proposal) /\ i \in 1 .. Len(props)
  BY LenProperties DEF PropsOK
<1>2. /\ p \in Proposal /\ p.status = s
      /\ p.args = props[i].args /\ p.key = props[i].key
  BY FieldsOfProposal DEF Proposal, Statuses
<1>3. props' = [props EXCEPT ![i] = p]
  OBVIOUS
<1> HIDE DEF p
<1>4. /\ props' \in Seq(Proposal) /\ Len(props') = Len(props)
      /\ \A j \in 1 .. Len(props) : props'[j] = IF j = i THEN p ELSE props[j]
  BY <1>1, <1>2, <1>3, ExceptSeq
<1>5. DOMAIN props = 1 .. Len(props) /\ DOMAIN props' = 1 .. Len(props)
  BY <1>1, <1>4, LenProperties
<1>6. QED
  BY <1>2, <1>4, <1>5 DEF PropsOK

LEMMA Deleted ==
  ASSUME PropsOK, props' = [i \in DOMAIN props |-> [props[i] EXCEPT !.status = "gone"]]
  PROVE  /\ PropsOK'
         /\ DOMAIN props' = DOMAIN props
         /\ \A i \in DOMAIN props : props'[i].status = "gone"
<1>1. Len(props) \in Nat /\ DOMAIN props = 1 .. Len(props)
  BY LenProperties DEF PropsOK
<1>2. \A i \in DOMAIN props : /\ [props[i] EXCEPT !.status = "gone"] \in Proposal
                              /\ props'[i].status = "gone"
  BY FieldsOfProposal DEF Proposal
<1>3. props' \in [1 .. Len(props) -> Proposal]
  BY <1>1, <1>2
<1>4. props' \in Seq(Proposal) /\ Len(props') = Len(props)
  BY <1>1, <1>3
<1>5. QED
  BY <1>1, <1>2, <1>4 DEF PropsOK

LEMMA TypeInit == ASSUME Assumption PROVE Init => TypeOK /\ Verdicts
<1> SUFFICES ASSUME Init PROVE TypeOK /\ Verdicts
  OBVIOUS
<1>1. props = << >> /\ props \in Seq(Proposal) /\ Len(props) = 0 /\ DOMAIN props = {}
  BY EmptySeq, LenProperties DEF Init
<1>2. PropsOK /\ RefsOK /\ Verdicts
  BY <1>1 DEF Init, PropsOK, RefsOK, Rows, Verdicts, Approvals, ReviewsKnow, Assumption
<1>3. CallOK
  BY IdleOK DEF Init, CallOK
<1>4. KeysOK /\ ReviewOK /\ RestOK
  BY DEF Init, KeysOK, ReviewOK, RestOK
<1>5. QED
  BY <1>2, <1>3, <1>4, TypeParts

-----------------------------------------------------------------------------
(* Verdicts and types are kept together: an approval is of a row there is. *)

TypedVerdicts == TypeOK /\ Verdicts

\* What a step leaves alone keeps its type.
LEMMA Kept ==
  /\ KeysOK /\ UNCHANGED <<keys, last, owed>> => KeysOK'
  /\ CallOK /\ UNCHANGED call => CallOK'
  /\ PropsOK /\ UNCHANGED props => PropsOK'
  /\ RefsOK /\ UNCHANGED <<props, keys>> => RefsOK'
  /\ ReviewOK /\ UNCHANGED <<review, applied, missing>> => ReviewOK'
  /\ RestOK /\ UNCHANGED <<kind, sealed, shown, refused>> => RestOK'
  /\ Verdicts /\ UNCHANGED <<kind, props, review, shown, applied, missing>> => Verdicts'
  BY DEF KeysOK, CallOK, PropsOK, RefsOK, Rows, ReviewOK, RestOK, Verdicts, Approvals, ReviewsKnow

LEMMA KeySteps ==
  ASSUME Assumption, TypedVerdicts,
         \/ \E c \in Calls : CountKeys(c) \/ CreateKey(c)
         \/ \E k \in Keys : DeleteKey(k)
         \/ CascadeDeleteKeys
  PROVE  TypedVerdicts'
<1>a. KeysOK /\ CallOK /\ PropsOK /\ RefsOK /\ ReviewOK /\ RestOK /\ Verdicts
  BY TypeParts DEF TypedVerdicts
<1>b. UNCHANGED <<kind, sealed, props, review, shown, applied, missing, refused>>
  BY DEF CountKeys, CreateKey, DeleteKey, CascadeDeleteKeys
<1>c. PropsOK' /\ ReviewOK' /\ RestOK' /\ Verdicts'
  BY <1>a, <1>b, Kept
<1>1. ASSUME NEW c \in Calls, CountKeys(c)
      PROVE  KeysOK' /\ CallOK' /\ RefsOK'
  <2>1. call' = [call EXCEPT ![c].at = "counted"] /\ UNCHANGED <<keys, last, owed, props>>
    BY <1>1 DEF CountKeys
  <2>2. CallOK'
    BY <2>1, <1>a DEF CallOK, Request
  <2>3. QED
    BY <2>1, <2>2, <1>a, Kept
<1>2. ASSUME NEW c \in Calls, CreateKey(c)
      PROVE  KeysOK' /\ CallOK' /\ RefsOK'
  <2>1. CallOK'
    BY <1>2, <1>a, IdleOK DEF CreateKey, CallOK
  <2>2. /\ last < MaxIds /\ last' = last + 1
        /\ keys' = keys \union {last'} /\ owed' = owed /\ props' = props
    BY <1>2 DEF CreateKey
  <2>3. KeysOK'
    BY <2>2, <1>a DEF KeysOK, Keys, NoKey, Assumption
  <2>4. RefsOK'
    BY <2>2, <1>a DEF RefsOK, Rows
  <2>5. QED
    BY <2>1, <2>3, <2>4
<1>3. ASSUME NEW k \in Keys, DeleteKey(k)
      PROVE  KeysOK' /\ CallOK' /\ RefsOK'
  <2>1. /\ keys' = keys \ {k} /\ owed' = owed \ {k}
        /\ UNCHANGED <<last, call, props>> /\ ~Referenced(k)
    BY <1>3 DEF DeleteKey
  <2>2. RefsOK'
    BY <2>1, <1>a DEF RefsOK, Rows, Referenced
  <2>3. QED
    BY <2>1, <2>2, <1>a, Kept DEF KeysOK
<1>4. ASSUME CascadeDeleteKeys
      PROVE  KeysOK' /\ CallOK' /\ RefsOK'
  <2>1. /\ keys' = IF \E k \in keys : Referenced(k) THEN keys ELSE {}
        /\ owed' = keys' /\ UNCHANGED <<last, call, props>>
    BY <1>4 DEF CascadeDeleteKeys
  <2>2. RefsOK'
    BY <2>1, <1>a DEF RefsOK, Rows, Referenced
  <2>3. QED
    BY <2>1, <2>2, <1>a, Kept DEF KeysOK
<1>5. QED
  BY <1>1, <1>2, <1>3, <1>4, <1>c, TypeParts DEF TypedVerdicts

LEMMA ToolSteps ==
  ASSUME Assumption, TypedVerdicts,
         \/ \E a \in Args : \/ AskUser(a) \/ Expire(a)
                            \/ \E c \in Calls, k \in Keys, asked \in BOOLEAN :
                                 Propose(c, k, a, asked)
         \/ \E c \in Calls : InsertProposal(c)
  PROVE  TypedVerdicts'
<1>a. KeysOK /\ CallOK /\ PropsOK /\ RefsOK /\ ReviewOK /\ RestOK /\ Verdicts
  BY TypeParts DEF TypedVerdicts
<1>b. UNCHANGED <<kind, keys, last, review, shown, applied, missing, owed, refused>>
  BY DEF AskUser, Expire, Propose, InsertProposal
<1>c. KeysOK' /\ ReviewOK'
  BY <1>a, <1>b, Kept
<1>1. ASSUME NEW a \in Args, AskUser(a) \/ Expire(a)
      PROVE  TypedVerdicts'
  <2>1. UNCHANGED <<props, call>> /\ sealed' \in {sealed \union {a}, sealed \ {a}}
    BY <1>1 DEF AskUser, Expire
  <2>2. RestOK'
    BY <2>1, <1>a, <1>b DEF RestOK
  <2>3. CallOK' /\ PropsOK' /\ RefsOK' /\ Verdicts'
    BY <2>1, <1>a, <1>b, Kept
  <2>4. QED
    BY <2>2, <2>3, <1>c, TypeParts DEF TypedVerdicts
<1>2. ASSUME NEW a \in Args, NEW c \in Calls, NEW k \in Keys, NEW asked \in BOOLEAN,
             Propose(c, k, a, asked)
      PROVE  TypedVerdicts'
  <2>1. /\ UNCHANGED <<props, sealed>>
        /\ call' = [call EXCEPT ![c] = [at |-> "checked", key |-> k, args |-> a]]
    BY <1>2 DEF Propose
  <2>2. CallOK'
    BY <2>1, <1>a DEF CallOK, Request
  <2>3. RestOK' /\ PropsOK' /\ RefsOK' /\ Verdicts'
    BY <2>1, <1>a, <1>b, Kept
  <2>4. QED
    BY <2>2, <2>3, <1>c, TypeParts DEF TypedVerdicts
<1>3. ASSUME NEW c \in Calls, InsertProposal(c)
      PROVE  TypedVerdicts'
  <2>1. CallOK' /\ RestOK'
    BY <1>3, <1>a, IdleOK DEF InsertProposal, CallOK, RestOK
  <2>2. CASE call[c].key \in keys
    <3> DEFINE p == [args |-> call[c].args, key |-> call[c].key, status |-> "pending"]
    <3>1. Len(props) < MaxProps /\ props' = Append(props, p)
      BY <1>3, <2>2 DEF InsertProposal
    <3>2. p \in Proposal /\ p.key \in keys /\ p.status = "pending"
      <4>1. call[c].key \in Keys
        <5>1. keys \subseteq Keys
          BY <1>a DEF KeysOK, Keys, NoKey, Assumption
        <5>2. QED
          BY <5>1, <2>2
      <4>2. call[c].args \in Args
        BY <1>a, FieldsOfCall
      <4>3. QED
        BY <4>1, <4>2, <2>2 DEF Proposal
    <3> HIDE DEF p
    <3> DEFINE n == Len(props) + 1
    <3>3. /\ PropsOK' /\ n \notin DOMAIN props /\ DOMAIN props' = DOMAIN props \union {n}
          /\ \A i \in DOMAIN props : props'[i] = props[i]
          /\ props'[n] = p
      BY <3>1, <3>2, <1>a, Appended
    <3> HIDE DEF n
    <3>4. RefsOK'
      BY <3>2, <3>3, <1>a, <1>b DEF RefsOK, Rows
    <3>5. Verdicts'
      BY <3>2, <3>3, <1>a, <1>b DEF Verdicts, Approvals, ReviewsKnow, Rows
    <3>6. QED
      BY <2>1, <3>3, <3>4, <3>5, <1>c, TypeParts DEF TypedVerdicts
  <2>3. CASE call[c].key \notin keys
    <3>1. props' = props
      BY <1>3, <2>3 DEF InsertProposal
    <3>2. PropsOK' /\ RefsOK' /\ Verdicts'
      BY <3>1, <1>a, <1>b, Kept
    <3>3. QED
      BY <2>1, <3>2, <1>c, TypeParts DEF TypedVerdicts
  <2>4. QED
    BY <2>2, <2>3
<1>4. QED
  BY <1>1, <1>2, <1>3

\* The three targets change within their type.
LEMMA AppliedOK ==
  ASSUME Assumption, RestOK, NEW s \in Subjects, NEW d \in Details
  PROVE  Applied(s, d) \in [Subjects -> Details \union {None, Absent}]
<1>1. shown \in [Subjects -> Details \union {None, Absent}] /\ kind \in Kinds
  BY DEF RestOK
<1>3. [shown EXCEPT ![s] = d] \in [Subjects -> Details \union {None, Absent}]
  BY <1>1
<1>4. QED
  BY <1>1, <1>3 DEF Applied

LEMMA ReviewSteps ==
  ASSUME Assumption, TypedVerdicts, NEW r \in Reviewers,
         Approve(r) \/ \E i \in DOMAIN props : BeginApprove(r, i) \/ Reject(r, i)
  PROVE  TypedVerdicts'
<1>a. KeysOK /\ CallOK /\ PropsOK /\ RefsOK /\ ReviewOK /\ RestOK /\ Verdicts
  BY TypeParts DEF TypedVerdicts
<1>b. UNCHANGED <<kind, keys, last, call, sealed, owed>>
  BY DEF BeginApprove, Approve, Reject
<1>c. KeysOK' /\ CallOK'
  BY <1>a, <1>b, Kept
<1>d. \A i \in DOMAIN props : i \in Pids
  <2>1. Len(props) \in Nat /\ DOMAIN props = 1 .. Len(props) /\ Len(props) <= MaxProps
    BY <1>a, LenProperties DEF PropsOK
  <2>2. QED
    BY <2>1 DEF Pids, Assumption
<1>1. ASSUME NEW i \in DOMAIN props, BeginApprove(r, i)
      PROVE  TypedVerdicts'
  <2>1. /\ UNCHANGED <<props, applied, shown, refused>>
        /\ review' = [review EXCEPT ![r] = i]
        /\ missing' = missing \union {j \in {i} : shown[props[i].args[1]] = Absent}
    BY <1>1 DEF BeginApprove
  <2>2. ReviewOK' /\ Verdicts'
    BY <2>1, <1>a, <1>b, <1>d DEF ReviewOK, Verdicts, Approvals, ReviewsKnow, Rows
  <2>3. PropsOK' /\ RefsOK' /\ RestOK'
    BY <2>1, <1>a, <1>b, Kept
  <2>4. QED
    BY <2>2, <2>3, <1>c, TypeParts DEF TypedVerdicts
<1>2. ASSUME Approve(r)
      PROVE  TypedVerdicts'
  <2> DEFINE i == review[r]
  <2>1. /\ i # NoPid /\ i \in DOMAIN props /\ missing' = missing
        /\ review' = [review EXCEPT ![r] = NoPid]
    BY <1>2, <1>a DEF Approve, Verdicts, ReviewsKnow
  <2>2. CASE UNCHANGED <<props, applied, shown>>
    <3>1. refused' \in BOOLEAN
      BY <1>2, <1>a DEF Approve, RestOK
    <3>2. ReviewOK' /\ Verdicts' /\ RestOK'
      BY <2>1, <2>2, <3>1, <1>a, <1>b DEF ReviewOK, Verdicts, Approvals, ReviewsKnow, Rows, RestOK
    <3>3. PropsOK' /\ RefsOK'
      BY <2>2, <1>a, <1>b, Kept
    <3>4. QED
      BY <3>2, <3>3, <1>c, TypeParts DEF TypedVerdicts
  <2>3. CASE props[i].status # "gone" /\ r \in Accounts
    <3>1. /\ props' = [props EXCEPT ![i].status = "approved"]
          /\ applied' = applied \union {j \in {i} : Matches(props[i].args[1])}
          /\ refused' = refused
          /\ shown' = Applied(props[i].args[1], props[i].args[2])
      BY <1>2, <2>3 DEF Approve
    <3>2. props[i].args \in Args
      BY <2>1, <1>a, FieldsOfProposal
    <3>3. RestOK'
      <4>1. props[i].args[1] \in Subjects /\ props[i].args[2] \in Details
        BY <3>2 DEF Args
      <4>2. QED
        BY <3>1, <4>1, <1>a, <1>b, AppliedOK DEF RestOK
    <3>8. ~Matches(props[i].args[1]) => kind # "known_issue" /\ i \in missing
      BY <2>1, <2>3, <1>a DEF Matches, Verdicts, ReviewsKnow, Rows
    <3>9. \A s \in Subjects : Applied(props[i].args[1], props[i].args[2])[s] = Absent => shown[s] = Absent
      <4>1. props[i].args[2] # Absent
        BY <3>2 DEF Args, Assumption, Absent
      <4>2. QED
        BY <3>2, <4>1, <1>a DEF Args, Applied, RestOK
    <3> HIDE DEF i
    <3>4. /\ PropsOK' /\ DOMAIN props' = DOMAIN props
          /\ \A j \in DOMAIN props :
               /\ props'[j].args = props[j].args /\ props'[j].key = props[j].key
               /\ props'[j].status = IF j = i THEN "approved" ELSE props[j].status
      BY <2>1, <3>1, <1>a, Judged DEF Statuses
    <3>5. RefsOK'
      BY <2>3, <3>4, <1>a, <1>b DEF RefsOK, Rows
    <3>6. ReviewOK' /\ Verdicts'
      <4>1. ReviewOK' /\ Approvals' /\ applied' \subseteq DOMAIN props'
        BY <2>1, <3>1, <3>4, <3>8, <1>a, <1>b, <1>d DEF ReviewOK, Verdicts, Approvals
      <4>2. ReviewsKnow'
        <5>1. Rows' = Rows
          BY <2>3, <3>4 DEF Rows
        <5>2. ASSUME NEW v \in Reviewers, review'[v] # NoPid
              PROVE  /\ review'[v] = review[v] /\ review[v] # NoPid /\ review[v] \in DOMAIN props
                     /\ props[review[v]].args[1] \in Subjects
          <6>1. review'[v] = review[v] /\ review[v] # NoPid /\ review[v] \in DOMAIN props
            BY <5>2, <2>1, <1>a DEF ReviewOK, Verdicts, ReviewsKnow
          <6>2. props[review[v]].args \in Args
            BY <6>1, <1>a, FieldsOfProposal
          <6>3. QED
            BY <6>1, <6>2 DEF Args
        <5>3. QED
          BY <5>1, <5>2, <2>1, <3>1, <3>4, <3>9, <1>a DEF Verdicts, ReviewsKnow
      <4>3. QED
        BY <4>1, <4>2 DEF Verdicts
    <3>7. QED
      BY <3>3, <3>4, <3>5, <3>6, <1>c, TypeParts DEF TypedVerdicts
  <2>4. QED
    BY <1>2, <2>2, <2>3 DEF Approve
<1>3. ASSUME NEW i \in DOMAIN props, Reject(r, i)
      PROVE  TypedVerdicts'
  <2>1. /\ UNCHANGED <<review, applied, missing, shown>> /\ props[i].status = "pending"
        /\ refused' \in BOOLEAN
        /\ props' = [props EXCEPT ![i].status = "rejected"] \/ props' = props
    BY <1>3, <1>a DEF Reject, RestOK
  <2>2. ReviewOK' /\ RestOK'
    BY <2>1, <1>a, <1>b DEF ReviewOK, RestOK
  <2>3. CASE props' = props
    BY <2>1, <2>2, <2>3, <1>a, <1>b, <1>c, Kept, TypeParts DEF TypedVerdicts
  <2>4. CASE props' = [props EXCEPT ![i].status = "rejected"]
    <3>1. /\ PropsOK' /\ DOMAIN props' = DOMAIN props
          /\ \A j \in DOMAIN props :
               /\ props'[j].args = props[j].args /\ props'[j].key = props[j].key
               /\ props'[j].status = IF j = i THEN "rejected" ELSE props[j].status
      BY <2>4, <1>a, Judged DEF Statuses
    <3>2. RefsOK'
      BY <2>1, <3>1, <1>a, <1>b DEF RefsOK, Rows
    <3>3. Verdicts'
      <4>1. Rows' = Rows
        BY <2>1, <3>1 DEF Rows
      <4>2. QED
        BY <4>1, <2>1, <3>1, <1>a, <1>b DEF Verdicts, Approvals, ReviewsKnow
    <3>4. QED
      BY <2>2, <3>1, <3>2, <3>3, <1>c, TypeParts DEF TypedVerdicts
  <2>5. QED
    BY <2>1, <2>3, <2>4
<1>4. QED
  BY <1>1, <1>2, <1>3

LEMMA TargetSteps ==
  ASSUME Assumption, TypedVerdicts,
         \/ \E s \in Subjects, d \in {None, Absent} : TargetChanges(s, d)
         \/ DeleteProject
  PROVE  TypedVerdicts'
<1>a. KeysOK /\ CallOK /\ PropsOK /\ RefsOK /\ ReviewOK /\ RestOK /\ Verdicts
  BY TypeParts DEF TypedVerdicts
<1>b. UNCHANGED <<kind, keys, last, call, sealed, review, owed, refused>>
  BY DEF TargetChanges, DeleteProject
<1>c. KeysOK' /\ CallOK'
  BY <1>a, <1>b, Kept
<1>1. ASSUME NEW s \in Subjects, NEW d \in {None, Absent}, TargetChanges(s, d)
      PROVE  TypedVerdicts'
  <2>1. /\ UNCHANGED <<props, applied>> /\ shown' = [shown EXCEPT ![s] = d]
        /\ missing' = missing \union {i \in UnderReview(s) : d = Absent}
    BY <1>1 DEF TargetChanges
  <2>2. RestOK'
    BY <2>1, <1>a, <1>b DEF RestOK
  <2>3. PropsOK' /\ RefsOK'
    BY <2>1, <1>a, <1>b, Kept
  <2>5. ReviewOK'
    <3>1. Len(props) \in Nat /\ DOMAIN props = 1 .. Len(props) /\ Len(props) <= MaxProps
      BY <1>a, LenProperties DEF PropsOK
    <3>2. UnderReview(s) \subseteq Pids
      BY <3>1 DEF UnderReview, Rows, Pids, Assumption
    <3>3. QED
      BY <2>1, <3>2, <1>a, <1>b DEF ReviewOK
  <2>6. Approvals' /\ applied' \subseteq DOMAIN props'
    BY <2>1, <1>a, <1>b DEF Verdicts, Approvals
  <2>7. ReviewsKnow'
    <3> SUFFICES ASSUME NEW v \in Reviewers, review[v] # NoPid
                 PROVE  /\ review[v] \in DOMAIN props
                        /\ review[v] \in Rows /\ shown'[props[review[v]].args[1]] = Absent =>
                             review[v] \in missing'
      BY <2>1, <1>b DEF ReviewsKnow, Rows
    <3>1. review[v] \in DOMAIN props
      BY <1>a DEF Verdicts, ReviewsKnow
    <3>2. props[review[v]].args[1] \in Subjects
      BY <3>1, <1>a, FieldsOfProposal DEF Args
    <3>3. CASE props[review[v]].args[1] = s
      BY <3>1, <3>2, <3>3, <2>1, <1>a DEF RestOK, UnderReview
    <3>4. CASE props[review[v]].args[1] # s
      BY <3>1, <3>2, <3>4, <2>1, <1>a DEF RestOK, Verdicts, ReviewsKnow
    <3>5. QED
      BY <3>3, <3>4
  <2>4. QED
    BY <2>2, <2>3, <2>5, <2>6, <2>7, <1>c, TypeParts DEF TypedVerdicts, Verdicts
<1>2. ASSUME DeleteProject
      PROVE  TypedVerdicts'
  <2>1. /\ props' = [i \in DOMAIN props |-> [props[i] EXCEPT !.status = "gone"]]
        /\ shown' = [s \in Subjects |-> Absent] /\ applied' = {} /\ missing' = {}
    BY <1>2 DEF DeleteProject
  <2>2. /\ PropsOK' /\ DOMAIN props' = DOMAIN props
        /\ \A i \in DOMAIN props : props'[i].status = "gone"
    BY <2>1, <1>a, Deleted
  <2>3. RefsOK' /\ ReviewOK' /\ RestOK' /\ Verdicts'
    BY <2>1, <2>2, <1>a, <1>b DEF RefsOK, Rows, ReviewOK, RestOK, Verdicts, Approvals, ReviewsKnow
  <2>4. QED
    BY <2>2, <2>3, <1>c, TypeParts DEF TypedVerdicts
<1>3. QED
  BY <1>1, <1>2

LEMMA TypedVerdictsStep ==
  ASSUME Assumption, TypedVerdicts, [Next]_vars
  PROVE  TypedVerdicts'
<1>1. CASE UNCHANGED vars
  <2>1. TypeOK /\ Verdicts
    BY DEF TypedVerdicts
  <2>2. QED
    BY <1>1, <2>1, Kept, TypeParts DEF TypedVerdicts, vars
<1>2. QED
  BY <1>1, KeySteps, ToolSteps, ReviewSteps, TargetSteps DEF Next

\* Every proposal in the table refers to a key that exists: the foreign key
\* proposer_api_key_id holds through inserts that race a deletion of the key.
THEOREM ProposalsTypeCorrect == ASSUME Assumption PROVE Spec => []TypeOK
<1>1. Init => TypedVerdicts
  BY TypeInit DEF TypedVerdicts
<1>2. TypedVerdicts /\ [Next]_vars => TypedVerdicts'
  BY TypedVerdictsStep
<1>3. TypedVerdicts => TypeOK
  BY DEF TypedVerdicts
<1>4. QED
  BY <1>1, <1>2, <1>3, PTL DEF Spec

\* ApproveProposal and RejectProposal: for any number of reviewers and however
\* their requests cross, a rejected proposal has changed nothing, and an approved
\* one has changed its subject: a known issue always, a defect or a test unless
\* it did not exist at some time between a reviewer's look and the verdict.
THEOREM VerdictsAreEffects == ASSUME Assumption PROVE Spec => []VerdictIsEffect
<1>1. Init => TypedVerdicts
  BY TypeInit DEF TypedVerdicts
<1>2. TypedVerdicts /\ [Next]_vars => TypedVerdicts'
  BY TypedVerdictsStep
<1>3. TypedVerdicts => VerdictIsEffect
  BY DEF TypedVerdicts, Verdicts, Approvals, VerdictIsEffect
<1>4. QED
  BY <1>1, <1>2, <1>3, PTL DEF Spec

-----------------------------------------------------------------------------
(* Counting. *)

LEMMA Smaller ==
  ASSUME NEW S, IsFiniteSet(S), NEW T \in SUBSET S
  PROVE  /\ IsFiniteSet(T) /\ Cardinality(T) <= Cardinality(S)
         /\ Cardinality(T) \in Nat /\ Cardinality(S) \in Nat
  BY FS_Subset, FS_CardinalityType

\* What is counted is finite, now and after a step.
LEMMA Finite ==
  ASSUME Assumption, KeysOK, PropsOK
  PROVE  /\ IsFiniteSet(keys) /\ Cardinality(keys) \in Nat
         /\ IsFiniteSet(Counted) /\ Cardinality(Counted) \in Nat
         /\ \A s : /\ IsFiniteSet(Checked(s)) /\ Cardinality(Checked(s)) \in Nat
                   /\ IsFiniteSet(Pending(s)) /\ Cardinality(Pending(s)) \in Nat
         /\ MaxKeys \in Nat /\ MaxKeys > 0 /\ Cardinality(Calls) \in Nat
<1>1. IsFiniteSet(1 .. last) /\ keys \in SUBSET (1 .. last)
  <2>1. last \in Int
    BY DEF KeysOK, Keys, NoKey
  <2>2. 1 \in Int
    OBVIOUS
  <2>3. IsFiniteSet(1 .. last)
    BY <2>1, <2>2, FS_Interval
  <2>4. QED
    BY <2>3 DEF KeysOK
<1>2. IsFiniteSet(DOMAIN props) /\ \A s : Pending(s) \in SUBSET DOMAIN props
  <2>1. Len(props) \in Int /\ DOMAIN props = 1 .. Len(props)
    BY LenProperties DEF PropsOK
  <2>2. 1 \in Int
    OBVIOUS
  <2>3. IsFiniteSet(DOMAIN props)
    BY <2>1, <2>2, FS_Interval
  <2>4. QED
    BY <2>3 DEF Pending, Rows
<1>3. IsFiniteSet(Calls) /\ Counted \in SUBSET Calls /\ \A s : Checked(s) \in SUBSET Calls
  BY DEF Assumption, Counted, Checked
<1>4. IsFiniteSet(keys) /\ Cardinality(keys) \in Nat
  BY <1>1, Smaller
<1>5. \A s : IsFiniteSet(Pending(s)) /\ Cardinality(Pending(s)) \in Nat
  BY <1>2, Smaller
<1>6. /\ IsFiniteSet(Counted) /\ Cardinality(Counted) \in Nat /\ Cardinality(Calls) \in Nat
      /\ \A s : IsFiniteSet(Checked(s)) /\ Cardinality(Checked(s)) \in Nat
  BY <1>3, Smaller
<1>7. MaxKeys \in Nat /\ MaxKeys > 0
  BY DEF Assumption
<1>8. QED
  BY <1>4, <1>5, <1>6, <1>7

\* Sums of what there is and what is on its way.
LEMMA NoMore ==
  ASSUME NEW S, IsFiniteSet(S), NEW T, IsFiniteSet(T),
         NEW U \in SUBSET S, NEW V \in SUBSET T
  PROVE  Cardinality(U) + Cardinality(V) <= Cardinality(S) + Cardinality(T)
<1>1. /\ Cardinality(U) <= Cardinality(S) /\ Cardinality(V) <= Cardinality(T)
      /\ Cardinality(U) \in Nat /\ Cardinality(V) \in Nat
      /\ Cardinality(S) \in Nat /\ Cardinality(T) \in Nat
  BY Smaller
<1>2. QED
  BY <1>1

\* One that was on its way is there.
LEMMA Arrives ==
  ASSUME NEW S, IsFiniteSet(S), NEW T, IsFiniteSet(T), NEW x, NEW y \in T
  PROVE  Cardinality(S \union {x}) + Cardinality(T \ {y}) <= Cardinality(S) + Cardinality(T)
<1>1. /\ Cardinality(S \union {x}) <= Cardinality(S) + 1
      /\ Cardinality(S \union {x}) \in Nat /\ Cardinality(S) \in Nat
  <2>1. IsFiniteSet(S \union {x}) /\ Cardinality(S) \in Nat
    BY FS_AddElement, FS_CardinalityType
  <2>2. Cardinality(S \union {x}) = IF x \in S THEN Cardinality(S) ELSE Cardinality(S) + 1
    BY FS_AddElement
  <2>3. QED
    BY <2>1, <2>2, FS_CardinalityType
<1>2. /\ Cardinality(T \ {y}) = Cardinality(T) - 1
      /\ Cardinality(T \ {y}) \in Nat /\ Cardinality(T) \in Nat
  BY FS_RemoveElement, FS_CardinalityType
<1>3. QED
  BY <1>1, <1>2

LEMMA KeysStep ==
  ASSUME Assumption, Inv, [Next]_vars
  PROVE  KeysAndCalls'
<1>a. KeysOK /\ CallOK /\ PropsOK /\ KeysAndCalls
  BY TypeParts DEF Inv
<1>b. /\ IsFiniteSet(keys) /\ IsFiniteSet(Counted) /\ IsFiniteSet(Calls)
      /\ Cardinality(keys) \in Nat /\ Cardinality(Counted) \in Nat
      /\ MaxKeys \in Nat /\ Cardinality(Calls) \in Nat
  BY <1>a, Finite DEF Assumption
<1>c. KeysOK' /\ PropsOK'
  BY TypedVerdictsStep, TypeParts DEF Inv, TypedVerdicts
<1>d. Cardinality(keys') \in Nat /\ Cardinality(Counted') \in Nat
  <2>1. keys' \in SUBSET (1 .. last') /\ last' \in Int /\ 1 \in Int
    BY <1>c DEF KeysOK, Keys, NoKey
  <2>2. IsFiniteSet(keys')
    BY <2>1, FS_Interval, FS_Subset
  <2>3. Counted' \in SUBSET Calls
    BY DEF Counted
  <2>4. QED
    BY <1>b, <2>2, <2>3, Smaller, FS_CardinalityType
<1>1. CASE keys' \subseteq keys /\ Counted' \subseteq Counted
  <2>1. Cardinality(keys') + Cardinality(Counted') <= Cardinality(keys) + Cardinality(Counted)
    BY <1>1, <1>b, NoMore
  <2>2. QED
    BY <2>1, <1>a, <1>b, <1>d DEF KeysAndCalls
<1>2. ASSUME NEW c \in Calls, CountKeys(c)
      PROVE  KeysAndCalls'
  <2>1. keys' = keys /\ Cardinality(keys) < MaxKeys
    BY <1>2 DEF CountKeys, RoomForKey
  <2>2. Cardinality(Counted') <= Cardinality(Calls)
    <3>1. Counted' \in SUBSET Calls
      BY DEF Counted
    <3>2. QED
      BY <1>b, <3>1, Smaller
  <2>3. QED
    BY <2>1, <2>2, <1>b, <1>d DEF KeysAndCalls
<1>3. ASSUME NEW c \in Calls, CreateKey(c)
      PROVE  KeysAndCalls'
  <2>1. /\ c \in Counted /\ keys' = keys \union {last'}
        /\ Counted' = Counted \ {c}
    BY <1>3, <1>a DEF CreateKey, Counted, CallOK, Idle
  <2>2. Cardinality(keys') + Cardinality(Counted') <= Cardinality(keys) + Cardinality(Counted)
    BY <2>1, <1>b, Arrives
  <2>3. QED
    BY <2>2, <1>a, <1>b, <1>d DEF KeysAndCalls
<1>4. ASSUME NEW c \in Calls, NEW k, NEW a, NEW asked, Propose(c, k, a, asked)
      PROVE  keys' \subseteq keys /\ Counted' \subseteq Counted
  BY <1>4, <1>a DEF Propose, Counted, CallOK
<1>5. ASSUME NEW c \in Calls, InsertProposal(c)
      PROVE  keys' \subseteq keys /\ Counted' \subseteq Counted
  BY <1>5, <1>a DEF InsertProposal, Counted, CallOK, Idle
<1>6. ASSUME NEW k, DeleteKey(k)
      PROVE  keys' \subseteq keys /\ Counted' \subseteq Counted
  BY <1>6 DEF DeleteKey, Counted
<1>7. ASSUME CascadeDeleteKeys \/ DeleteProject
      PROVE  keys' \subseteq keys /\ Counted' \subseteq Counted
  BY <1>7 DEF CascadeDeleteKeys, DeleteProject, Counted
<1>8. ASSUME NEW r, Approve(r) \/ \E i \in DOMAIN props : BeginApprove(r, i) \/ Reject(r, i)
      PROVE  keys' \subseteq keys /\ Counted' \subseteq Counted
  BY <1>8 DEF Approve, BeginApprove, Reject, Counted
<1>9. ASSUME NEW a, NEW d, AskUser(a) \/ Expire(a) \/ TargetChanges(a, d)
      PROVE  keys' \subseteq keys /\ Counted' \subseteq Counted
  BY <1>9 DEF AskUser, Expire, TargetChanges, Counted
<1>10. CASE UNCHANGED vars
  BY <1>1, <1>10 DEF vars, Counted
<1>11. QED
  BY <1>1, <1>2, <1>3, <1>4, <1>5, <1>6, <1>7, <1>8, <1>9, <1>10 DEF Next

LEMMA PropsStep ==
  ASSUME Assumption, Inv, [Next]_vars
  PROVE  PropsAndCalls'
<1>a. KeysOK /\ CallOK /\ PropsOK /\ ReviewOK /\ Verdicts /\ PropsAndCalls
  BY TypeParts DEF Inv
<1>c. KeysOK' /\ PropsOK'
  BY TypedVerdictsStep, TypeParts DEF Inv, TypedVerdicts
<1> SUFFICES ASSUME NEW s \in Subjects
             PROVE  (Cardinality(Pending(s)) + Cardinality(Checked(s)) <= Cardinality(Calls))'
  BY DEF PropsAndCalls
<1>b. /\ IsFiniteSet(Pending(s)) /\ IsFiniteSet(Checked(s)) /\ IsFiniteSet(Calls)
      /\ Cardinality(Pending(s)) \in Nat /\ Cardinality(Checked(s)) \in Nat
      /\ Cardinality(Calls) \in Nat
      /\ Cardinality(Pending(s)) + Cardinality(Checked(s)) <= Cardinality(Calls)
  BY <1>a, Finite DEF Assumption, PropsAndCalls
<1>d. Cardinality(Pending(s)') \in Nat /\ Cardinality(Checked(s)') \in Nat
  <2>1. Pending(s)' \in SUBSET DOMAIN props' /\ Checked(s)' \in SUBSET Calls
    BY DEF Pending, Rows, Checked
  <2>2. IsFiniteSet(DOMAIN props')
    <3>1. Len(props') \in Int /\ DOMAIN props' = 1 .. Len(props') /\ 1 \in Int
      BY <1>c, LenProperties DEF PropsOK
    <3>2. QED
      BY <3>1, FS_Interval
  <2>3. QED
    BY <2>1, <2>2, <1>b, Smaller
<1> DEFINE Fewer == Pending(s)' \subseteq Pending(s) /\ Checked(s)' \subseteq Checked(s)
           Bounded == Cardinality(Pending(s)') + Cardinality(Checked(s)') <= Cardinality(Calls)
<1>1. CASE Fewer
  <2>1. Cardinality(Pending(s)') + Cardinality(Checked(s)')
          <= Cardinality(Pending(s)) + Cardinality(Checked(s))
    BY <1>1, <1>b, NoMore
  <2>2. QED
    BY <2>1, <1>b, <1>d
<1>2. ASSUME NEW a \in Args, NEW c \in Calls, NEW k \in Keys, NEW asked \in BOOLEAN,
             Propose(c, k, a, asked)
      PROVE  Bounded
  <2>1. /\ ~Duplicate(a[1]) /\ call[c].at = "idle" /\ props' = props
        /\ call' = [call EXCEPT ![c] = [at |-> "checked", key |-> k, args |-> a]]
    BY <1>2 DEF Propose
  <2>2. Pending(s)' = Pending(s)
    BY <2>1 DEF Pending, Rows
  <2>3. CASE a[1] = s
    <3>1. Pending(s) = {}
      BY <2>1, <2>3 DEF Duplicate
    <3>2. Cardinality(Pending(s)') = 0
      BY <2>2, <3>1, FS_EmptySet
    <3>3. Checked(s)' \in SUBSET Calls
      BY DEF Checked
    <3>4. Cardinality(Checked(s)') <= Cardinality(Calls)
      BY <3>3, <1>b, Smaller
    <3>5. QED
      BY <3>2, <3>4, <1>b, <1>d
  <2>4. CASE a[1] # s
    <3>1. Checked(s)' \subseteq Checked(s)
      BY <2>1, <2>4, <1>a DEF Checked, CallOK
    <3>2. QED
      BY <2>2, <3>1, <1>1
  <2>5. QED
    BY <2>3, <2>4
<1>3. ASSUME NEW c \in Calls, InsertProposal(c)
      PROVE  Bounded
  <2>1. call[c].at = "checked" /\ call' = [call EXCEPT ![c] = Idle]
    BY <1>3 DEF InsertProposal
  <2>2. Checked(s)' = Checked(s) \ {c}
    BY <2>1, <1>a DEF Checked, CallOK, Idle
  <2>3. CASE call[c].key \notin keys
    <3>1. props' = props
      BY <1>3, <2>3 DEF InsertProposal
    <3>2. Fewer
      BY <2>2, <3>1 DEF Pending, Rows
    <3>3. QED
      BY <3>2, <1>1
  <2>4. CASE call[c].key \in keys
    <3> DEFINE p == [args |-> call[c].args, key |-> call[c].key, status |-> "pending"]
    <3>1. Len(props) < MaxProps /\ props' = Append(props, p)
      BY <1>3, <2>4 DEF InsertProposal
    <3>2. p \in Proposal /\ p.args = call[c].args
      <4>1. call[c].key \in Keys
        <5>1. keys \subseteq Keys
          BY <1>a DEF KeysOK, Keys, NoKey, Assumption
        <5>2. QED
          BY <5>1, <2>4
      <4>2. call[c].args \in Args
        BY <1>a, FieldsOfCall
      <4>3. QED
        BY <4>1, <4>2 DEF Proposal
    <3> HIDE DEF p
    <3> DEFINE n == Len(props) + 1
    <3>3. /\ DOMAIN props' = DOMAIN props \union {n}
          /\ \A i \in DOMAIN props : props'[i] = props[i]
          /\ props'[n] = p
      BY <3>1, <3>2, <1>a, Appended
    <3> HIDE DEF n
    <3>4. CASE call[c].args[1] = s
      <4>1. c \in Checked(s)
        BY <2>1, <3>4 DEF Checked
      <4>2. Pending(s)' \subseteq Pending(s) \union {n}
        BY <3>3 DEF Pending, Rows
      <4>3. IsFiniteSet(Pending(s) \union {n})
        BY <1>b, FS_AddElement
      <4>4. Cardinality(Pending(s)') <= Cardinality(Pending(s) \union {n})
        BY <4>2, <4>3, Smaller
      <4>5. Cardinality(Pending(s) \union {n}) \in Nat
        BY <4>3, FS_CardinalityType
      <4>6. Cardinality(Pending(s) \union {n}) + Cardinality(Checked(s)')
              <= Cardinality(Pending(s)) + Cardinality(Checked(s))
        BY <4>1, <2>2, <1>b, Arrives
      <4>7. QED
        BY <4>4, <4>5, <4>6, <1>b, <1>d
    <3>5. CASE call[c].args[1] # s
      <4>1. Pending(s)' \subseteq Pending(s)
        BY <3>2, <3>3, <3>5 DEF Pending, Rows
      <4>2. QED
        BY <4>1, <2>2, <1>1
    <3>6. QED
      BY <3>4, <3>5
  <2>5. QED
    BY <2>3, <2>4
<1>4. ASSUME NEW c \in Calls, CountKeys(c) \/ CreateKey(c)
      PROVE  Fewer
  <2>1. \A d \in Calls : call'[d] = call[d] \/ call'[d].at \in {"counted", "idle"}
    BY <1>4, <1>a DEF CountKeys, CreateKey, CallOK, Request, Idle
  <2>2. props' = props
    BY <1>4 DEF CountKeys, CreateKey
  <2>3. QED
    BY <2>1, <2>2 DEF Pending, Rows, Checked
<1>5. ASSUME NEW r \in Reviewers, NEW i \in DOMAIN props,
             \/ Approve(r) /\ i = review[r]
             \/ BeginApprove(r, i) \/ Reject(r, i)
      PROVE  Fewer
  <2>1. /\ call' = call
        /\ \/ props' = props
           \/ \E t \in {"approved", "rejected"} : props' = [props EXCEPT ![i].status = t]
    BY <1>5 DEF Approve, BeginApprove, Reject
  <2>2. CASE props' = props
    BY <2>1, <2>2 DEF Pending, Rows, Checked
  <2>3. ASSUME NEW t \in {"approved", "rejected"}, props' = [props EXCEPT ![i].status = t]
        PROVE  Fewer
    <3>1. /\ DOMAIN props' = DOMAIN props
          /\ \A j \in DOMAIN props :
               /\ props'[j].args = props[j].args
               /\ props'[j].status = IF j = i THEN t ELSE props[j].status
      BY <2>3, <1>a, Judged DEF Statuses
    <3>2. QED
      BY <3>1, <2>1 DEF Pending, Rows, Checked
  <2>4. QED
    BY <2>1, <2>2, <2>3
<1>6. ASSUME NEW r \in Reviewers, Approve(r)
      PROVE  Fewer
  <2>1. review[r] \in DOMAIN props
    BY <1>6, <1>a DEF Approve, Verdicts, ReviewsKnow
  <2>2. QED
    BY <2>1, <1>5, <1>6
<1>7. ASSUME DeleteProject
      PROVE  Fewer
  <2>1. /\ props' = [i \in DOMAIN props |-> [props[i] EXCEPT !.status = "gone"]]
        /\ call' = call
    BY <1>7 DEF DeleteProject
  <2>2. DOMAIN props' = DOMAIN props /\ \A i \in DOMAIN props : props'[i].status = "gone"
    BY <2>1, <1>a, Deleted
  <2>3. QED
    BY <2>1, <2>2 DEF Pending, Rows, Checked
<1>8. ASSUME NEW k, DeleteKey(k) \/ CascadeDeleteKeys
      PROVE  Fewer
  BY <1>8 DEF DeleteKey, CascadeDeleteKeys, Pending, Rows, Checked
<1>9. ASSUME NEW a, NEW d, AskUser(a) \/ Expire(a) \/ TargetChanges(a, d)
      PROVE  Fewer
  BY <1>9 DEF AskUser, Expire, TargetChanges, Pending, Rows, Checked
<1>10. CASE UNCHANGED vars
  BY <1>1, <1>10 DEF vars, Pending, Rows, Checked
<1> HIDE DEF Fewer
<1>11. QED
  BY <1>1, <1>2, <1>3, <1>4, <1>5, <1>6, <1>7, <1>8, <1>9, <1>10 DEF Next

LEMMA InvInit == ASSUME Assumption PROVE Init => Inv
<1> SUFFICES ASSUME Init PROVE Inv
  OBVIOUS
<1>1. TypeOK /\ Verdicts
  BY TypeInit
<1>2. KeysOK /\ PropsOK
  BY <1>1, TypeParts
<1>3. keys = {} /\ Counted = {} /\ \A s : Pending(s) = {} /\ Checked(s) = {}
  <2>1. DOMAIN props = {} /\ keys = {}
    BY EmptySeq, LenProperties DEF Init
  <2>2. \A c \in Calls : call[c].at = "idle"
    BY DEF Init, Idle
  <2>3. QED
    BY <2>1, <2>2 DEF Counted, Pending, Rows, Checked
<1>4. Cardinality({}) = 0
  BY FS_EmptySet
<1>5. KeysAndCalls /\ PropsAndCalls
  BY <1>2, <1>3, <1>4, Finite DEF KeysAndCalls, PropsAndCalls
<1>6. QED
  BY <1>1, <1>5 DEF Inv

LEMMA InvImplies == ASSUME Assumption, Inv PROVE ExcessBounded
<1>1. KeysOK /\ PropsOK
  BY TypeParts DEF Inv
<1>2. KeysBounded
  BY <1>1, Finite DEF Inv, KeysAndCalls, KeysBounded
<1>3. DuplicatesBounded
  BY <1>1, Finite DEF Inv, PropsAndCalls, DuplicatesBounded
<1>4. QED
  BY <1>2, <1>3 DEF ExcessBounded

\* APIKeyHandler.Create and the propose tools: the limit on keys and the rule
\* against duplicates are exceeded by the requests in flight and by no more, for
\* any number of them, and deletions and reviews in between do not add to it.
THEOREM ExcessIsInFlight == ASSUME Assumption PROVE Spec => []ExcessBounded
<1>1. Init => Inv
  BY InvInit
<1>2. Inv /\ [Next]_vars => Inv'
  BY TypedVerdictsStep, KeysStep, PropsStep DEF Inv, TypedVerdicts
<1>3. Inv => ExcessBounded
  BY InvImplies
<1>4. QED
  BY <1>1, <1>2, <1>3, PTL DEF Spec

-----------------------------------------------------------------------------
(* Defects, for any number of fingerprints, builds and edits, deletions in *)
(* any order and repeated computations. The inductive invariant.           *)

DefectRow == [res : D!Resolutions, clean : Nat, first : Nat, last : Nat]
Occurrence == [hash : Hashes, build : Nat, regression : BOOLEAN]

DefectTypes ==
  /\ next \in Nat \ {0} /\ builds \subseteq 1 .. next - 1 /\ builds \subseteq D!BuildIds
  /\ fails \in [D!BuildIds -> SUBSET Hashes]
  /\ fp \in [Hashes -> DefectRow \cup {D!None}]
  /\ occ \subseteq Occurrence
  /\ job \in [pc : D!Steps, build : Nat, link : SUBSET Hashes]
  /\ runs \in Nat /\ todo \subseteq D!BuildIds
  /\ edits \in Nat
  /\ since \in [Hashes -> SUBSET D!BuildIds]
  /\ auto \subseteq Hashes /\ back \subseteq Hashes

\* The foreign keys; an occurrence is of a test that failed.
References ==
  /\ \A h \in D!Known : {fp[h].first, fp[h].last} \subseteq builds
  /\ \A o \in occ : o.hash \in D!Known /\ o.build \in builds /\ o.hash \in fails[o.build]
  /\ auto \subseteq D!Known /\ back \subseteq D!Known

Computing ==
  /\ job.pc = "idle" => job = D!Idle
  /\ job.pc # "idle" =>
       /\ job.build \in D!BuildIds /\ job.build < next /\ job.build \notin todo
       /\ job.build \in builds => job.link \subseteq fails[job.build]
  /\ job.pc = "upsert" /\ job.build \in builds => job.link = fails[job.build]
  /\ \A b \in D!BuildIds \ builds : fails[b] = {}
  /\ \A h \in Hashes : \A b \in since[h] : b < next

\* The builds that a computation begun, or a backfill, has still to count.
Waiting == todo \cup {b \in {job.build} : job.pc \in {"upsert", "link", "count"}}

\* How often the builds of a set have been counted, when a backfill has been run
\* so many times and some of the builds wait to be counted in the last of them.
Counts(n, set, waiting) == n * Cardinality(set) + Cardinality(set \ waiting)

\* The count of clean builds never runs ahead of the builds a defect was absent
\* from; between the upsert and the count, a defect that failed has none. A
\* build whose link failed counts as clean itself.
CleanIsCovered ==
  /\ \A h \in D!Known : fp[h].clean <= Counts(runs, since[h], Waiting) + D!Missed
  /\ \A h \in auto : Cardinality(since[h]) * (1 + runs) + D!Missed >= Threshold
  /\ job.pc = "link" => \A h \in fails[job.build] :
       h \in D!Known => /\ fp[h].clean = 0 /\ fp[h].last = job.build
                        /\ h \notin job.link /\ ~LinksFail => h \in D!SeenIn(job.build)
  /\ job.pc = "count" => fails[job.build] = {}

DefectInv == DefectTypes /\ References /\ Computing /\ CleanIsCovered

LEMMA DefectConstants == MaxBuilds \in Nat /\ Threshold \in Nat /\ MaxEdits \in Nat
                           /\ LinksFail \in BOOLEAN /\ Threshold # 0 /\ D!Missed \in {0, 1}
                           /\ Decisions \subseteq D!Resolutions
  BY RecordsAssumption DEF D!Assumption, D!Missed, D!Resolutions

\* The same build is counted once more with every backfill, and no oftener.
LEMMA FiniteBuilds ==
  ASSUME NEW a \in SUBSET D!BuildIds
  PROVE  IsFiniteSet(a) /\ Cardinality(a) \in Nat
<1>1. IsFiniteSet(D!BuildIds)
  BY DefectConstants, FS_Interval DEF D!BuildIds
<1>2. QED
  BY <1>1, FS_Subset, FS_CardinalityType

LEMMA CountsNat ==
  ASSUME NEW n \in Nat, NEW a \in SUBSET D!BuildIds, NEW w
  PROVE  Counts(n, a, w) \in Nat
<1>1. Cardinality(a) \in Nat /\ Cardinality(a \ w) \in Nat
  BY FiniteBuilds
<1>2. n * Cardinality(a) \in Nat
  BY <1>1
<1>3. QED
  BY <1>1, <1>2 DEF Counts

LEMMA CountsGrow ==
  ASSUME NEW n \in Nat, NEW a \in SUBSET D!BuildIds, NEW w, NEW v, a \ w \subseteq a \ v
  PROVE  Counts(n, a, w) <= Counts(n, a, v)
<1>1. Cardinality(a) \in Nat /\ Cardinality(a \ w) \in Nat /\ Cardinality(a \ v) \in Nat
      /\ Cardinality(a \ w) <= Cardinality(a \ v)
  BY FiniteBuilds, FS_Subset
<1>2. n * Cardinality(a) \in Nat
  BY <1>1
<1>3. QED
  BY <1>1, <1>2 DEF Counts

LEMMA CountsAgain ==
  ASSUME NEW n \in Nat, NEW a \in SUBSET D!BuildIds, NEW w, NEW v
  PROVE  Counts(n, a, w) <= Counts(n + 1, a, v)
<1>1. /\ Cardinality(a) \in Nat /\ Cardinality(a \ w) \in Nat /\ Cardinality(a \ v) \in Nat
      /\ Cardinality(a \ w) <= Cardinality(a)
  BY FiniteBuilds, FS_Subset
<1>2. n * Cardinality(a) \in Nat /\ (n + 1) * Cardinality(a) = n * Cardinality(a) + Cardinality(a)
  BY <1>1
<1>3. QED
  BY <1>1, <1>2 DEF Counts

LEMMA CountsOne ==
  ASSUME NEW n \in Nat, NEW a \in SUBSET D!BuildIds, NEW b \in D!BuildIds, NEW w, NEW v,
         b \in w, b \notin v, v \subseteq w, w \subseteq v \cup {b}
  PROVE  Counts(n, a, w) + 1 <= Counts(n, a \cup {b}, v)
<1> DEFINE c == a \cup {b}
<1>1. c \in SUBSET D!BuildIds /\ a \subseteq c
  OBVIOUS
<1>2. /\ Cardinality(a) \in Nat /\ Cardinality(c) \in Nat /\ Cardinality(a) <= Cardinality(c)
      /\ Cardinality(a \ w) \in Nat /\ IsFiniteSet(a \ w)
  BY <1>1, FiniteBuilds, FS_Subset
<1>3. Cardinality((a \ w) \cup {b}) = Cardinality(a \ w) + 1
  BY <1>2, FS_AddElement
<1>4. c \ v = (a \ w) \cup {b}
  OBVIOUS
<1>5. n * Cardinality(a) \in Nat /\ n * Cardinality(c) \in Nat /\ n * Cardinality(a) <= n * Cardinality(c)
  <2>4. ASSUME NEW x \in Nat, NEW y \in Nat, x <= y
        PROVE  \E k \in Nat : y = x + k
    <3>1. y - x \in Nat /\ y = x + (y - x)
      BY <2>4
    <3>2. QED
      BY <3>1
  <2>1. PICK k \in Nat : Cardinality(c) = Cardinality(a) + k
    BY <1>2, <2>4
  <2>2. n * Cardinality(c) = n * Cardinality(a) + n * k /\ n * k \in Nat
    BY <1>2, <2>1
  <2>3. QED
    BY <1>2, <2>2
<1>6. Cardinality(c \ v) = Cardinality(a \ w) + 1
  BY <1>3, <1>4
<1>7. QED
  BY <1>2, <1>5, <1>6 DEF Counts

LEMMA CountsBound ==
  ASSUME NEW n \in Nat, NEW a \in SUBSET D!BuildIds, NEW w
  PROVE  Counts(n, a, w) <= Cardinality(a) * (1 + n) /\ Cardinality(a) * (1 + n) \in Nat
<1>1. /\ Cardinality(a) \in Nat /\ Cardinality(a \ w) \in Nat
      /\ Cardinality(a \ w) <= Cardinality(a)
  BY FiniteBuilds, FS_Subset
<1>2. n * Cardinality(a) \in Nat /\ Cardinality(a) * (1 + n) = n * Cardinality(a) + Cardinality(a)
  BY <1>1
<1>3. QED
  BY <1>1, <1>2 DEF Counts

\* What closes a defect never shrinks under a larger set or another backfill.
LEMMA ProductGrows ==
  ASSUME NEW n \in Nat, NEW m \in Nat, n <= m,
         NEW a \in SUBSET D!BuildIds, NEW c \in SUBSET D!BuildIds, a \subseteq c
  PROVE  /\ Cardinality(a) * (1 + n) \in Nat /\ Cardinality(c) * (1 + m) \in Nat
         /\ Cardinality(a) * (1 + n) <= Cardinality(c) * (1 + m)
<1>1. Cardinality(a) \in Nat /\ Cardinality(c) \in Nat /\ Cardinality(a) <= Cardinality(c)
  BY FiniteBuilds, FS_Subset
<1>2. ASSUME NEW x \in Nat, NEW y \in Nat, x <= y
      PROVE  x * (1 + n) \in Nat /\ y * (1 + m) \in Nat /\ x * (1 + n) <= y * (1 + m)
  <2>1. PICK j \in Nat, k \in Nat : y = x + j /\ m = n + k
    <3>1. y - x \in Nat /\ m - n \in Nat /\ y = x + (y - x) /\ m = n + (m - n)
      BY <1>2
    <3>2. QED
      BY <3>1
  <2>2. y * (1 + m) = x * (1 + n) + (x * k + j * (1 + m))
    BY <2>1
  <2>3. x * k \in Nat /\ j * (1 + m) \in Nat /\ x * (1 + n) \in Nat
    BY <2>1
  <2>4. QED
    BY <2>2, <2>3
<1>3. QED
  BY <1>1, <1>2

LEMMA KnownRows ==
  ASSUME DefectTypes
  PROVE  \A h \in D!Known : h \in Hashes /\ fp[h] \in DefectRow
  BY DEF DefectTypes, D!Known

LEMMA NoRow == D!None \notin DefectRow
<1>1. D!None.res = "none"
  BY DEF D!None
<1>2. QED
  BY <1>1 DEF DefectRow, D!Resolutions

LEMMA SeenRow ==
  ASSUME NEW r \in DefectRow \cup {D!None}, NEW b \in Nat
  PROVE  /\ D!Seen(r, b) \in DefectRow
         /\ D!Seen(r, b).clean = 0 /\ D!Seen(r, b).last = b
         /\ D!Seen(r, b).first = IF r = D!None THEN b ELSE r.first
         /\ D!Muted(r) => D!Muted(D!Seen(r, b))
<1>1. CASE r = D!None
  BY <1>1, NoRow DEF D!Seen, DefectRow, D!Resolutions, D!Muted
<1>2. CASE r # D!None
  <2>1. D!Reopened(r.res) \in D!Resolutions /\ r \in DefectRow
    BY <1>2 DEF D!Reopened, DefectRow, D!Resolutions
  <2> DEFINE z == D!Seen(r, b)
             q == D!Reopened(r.res)
  <2>2. z = [r EXCEPT !.last = b, !.clean = 0, !.res = q]
    BY <1>2 DEF D!Seen
  <2>a. q \in D!Resolutions /\ r \in DefectRow
    BY <2>1
  <2> HIDE DEF z, q
  <2>3. z \in DefectRow /\ z.clean = 0 /\ z.last = b /\ z.first = r.first /\ z.res = q
    BY <2>2, <2>a DEF DefectRow
  <2>4. QED
    BY <1>2, <2>3, NoRow DEF z, q, D!Muted, D!Reopened
<1>3. QED
  BY <1>1, <1>2

LEMMA DefectsStart == D!Init => DefectInv
<1> SUFFICES ASSUME D!Init
             PROVE  DefectInv
  OBVIOUS
<1>1. D!Known = {} /\ job.pc = "idle"
  BY DEF D!Init, D!Known, D!Idle
<1>2. DefectTypes
  <2>1. D!Idle \in [pc : D!Steps, build : Nat, link : SUBSET Hashes]
    BY DEF D!Idle, D!Steps
  <2>2. fp \in [Hashes -> DefectRow \cup {D!None}] /\ since \in [Hashes -> SUBSET D!BuildIds]
    BY DEF D!Init
  <2>3. fails \in [D!BuildIds -> SUBSET Hashes]
    BY DEF D!Init
  <2>4. QED
    <3>1. next = 1 /\ builds = {} /\ occ = {} /\ job = D!Idle /\ runs = 0 /\ todo = {}
          /\ edits = 0 /\ auto = {} /\ back = {}
      BY DEF D!Init
    <3>2. runs \in Nat
      BY DEF D!Init
    <3>3. next \in Nat \ {0} /\ edits \in Nat
      BY DEF D!Init
    <3>4. QED
      BY <2>1, <2>2, <2>3, <3>1, <3>2, <3>3 DEF DefectTypes
<1>3. QED
  BY <1>1, <1>2 DEF D!Init, DefectInv, References, Computing, CleanIsCovered

-----------------------------------------------------------------------------
(* Defects: the steps.                                                     *)

LEMMA NewBuildKeeps ==
  ASSUME DefectInv, NEW f \in SUBSET Hashes, D!NewBuild(f)
  PROVE  DefectInv'
<1>1. /\ next \in D!BuildIds /\ next' = next + 1 /\ builds' = builds \cup {next}
      /\ fails' \in [D!BuildIds -> SUBSET Hashes]
      /\ \A c \in D!BuildIds \ {next} : fails'[c] = fails[c]
      /\ job' = [pc |-> IF fails'[next] = {} THEN "count" ELSE "upsert", build |-> next,
                 link |-> fails'[next]]
      /\ back' = {} /\ job = D!Idle /\ todo = {}
      /\ UNCHANGED <<fp, occ, runs, todo, edits, since, auto>>
  BY DefectConstants DEF DefectInv, DefectTypes, D!NewBuild, D!Compute, D!BuildIds
<1>2. D!Known' = D!Known
  BY <1>1 DEF D!Known
<1>3. DefectTypes'
  BY <1>1 DEF DefectInv, DefectTypes, D!Steps
<1>9. \A c \in builds : fails'[c] = fails[c]
  BY <1>1 DEF DefectInv, DefectTypes
<1>4. References'
  BY <1>1, <1>2, <1>9 DEF DefectInv, References
<1>5. Computing'
  <2>1. \A h \in Hashes : \A b \in since'[h] : b < next'
    BY <1>1 DEF DefectInv, DefectTypes, Computing, D!BuildIds
  <2>2. \A b \in D!BuildIds \ builds' : fails'[b] = {}
    BY <1>1 DEF DefectInv, Computing
  <2>3. job'.pc # "idle" /\ job'.build = next /\ job'.link = fails'[next] /\ next < next'
    BY <1>1 DEF DefectInv, DefectTypes
  <2>4. QED
    BY <1>1, <2>1, <2>2, <2>3 DEF Computing
<1>7. CleanIsCovered'
  <2>1. ASSUME NEW h \in D!Known
        PROVE  fp[h].clean <= Counts(runs, since[h], Waiting') + D!Missed
    <3>1. h \in Hashes /\ since[h] \in SUBSET D!BuildIds /\ runs \in Nat /\ fp[h].clean \in Nat
      BY KnownRows DEF DefectInv, DefectTypes, DefectRow
    <3>2. since[h] \ Waiting \subseteq since[h] \ Waiting'
      BY <1>1, <3>1 DEF DefectInv, DefectTypes, Computing, Waiting, D!BuildIds
    <3>3. Counts(runs, since[h], Waiting) <= Counts(runs, since[h], Waiting')
      BY <3>1, <3>2, CountsGrow
    <3>4. fp[h].clean <= Counts(runs, since[h], Waiting) + D!Missed
      BY DEF DefectInv, CleanIsCovered
    <3>5. QED
      BY <3>1, <3>3, <3>4, CountsNat, DefectConstants
  <2>2. QED
    BY <1>1, <1>2, <2>1 DEF DefectInv, CleanIsCovered
<1>8. QED
  BY <1>3, <1>4, <1>5, <1>7 DEF DefectInv

\* A set of numbers has a least element.
LEMMA LeastElement ==
  ASSUME NEW S \in SUBSET Nat, S # {}
  PROVE  \E x \in S : \A y \in S : x <= y
<1> DEFINE Less == OpToRel(<, Nat)
<1>1. IsWellFoundedOn(Less, Nat)
  BY NatLessThanWellFounded
<1>2. \A x, y \in Nat : x < y => <<x, y>> \in Less
  BY DEF OpToRel
<1> HIDE DEF Less
<1>3. PICK x \in S : \A y \in S : ~ (<<y, x>> \in Less)
  BY <1>1, WFMin
<1>4. ASSUME NEW y \in S
      PROVE  x <= y
  <2>1. x \in Nat /\ y \in Nat
    OBVIOUS
  <2>2. ~ (y < x)
    BY <1>2, <1>3, <2>1
  <2>3. QED
    BY <2>1, <2>2
<1>5. QED
  BY <1>4

\* Builds have a newest.
LEMMA NewestWaiting ==
  ASSUME NEW S \in SUBSET D!BuildIds, S # {}
  PROVE  D!Max(S) \in S
<1> DEFINE T == {y \in Nat : \E x \in S : y = MaxBuilds - x}
<1>1. S \subseteq 1 .. MaxBuilds /\ MaxBuilds \in Nat
  BY DefectConstants DEF D!BuildIds
<1>2. T \in SUBSET Nat /\ T # {}
  <2>1. PICK x \in S : TRUE
    OBVIOUS
  <2>2. MaxBuilds - x \in T
    BY <1>1
  <2>3. QED
    BY <2>2
<1> HIDE DEF T
<1>3. PICK t \in T : \A y \in T : t <= y
  BY <1>2, LeastElement
<1>4. PICK x \in S : t = MaxBuilds - x
  BY <1>3 DEF T
<1>5. \A y \in S : x >= y
  <2> SUFFICES ASSUME NEW y \in S
               PROVE  x >= y
    OBVIOUS
  <2>1. MaxBuilds - y \in T
    BY <1>1 DEF T
  <2>2. QED
    BY <1>1, <1>3, <1>4, <2>1
<1>6. QED
  BY <1>5 DEF D!Max

LEMMA BackfillKeeps ==
  ASSUME DefectInv,
         (\E from \in D!BuildIds : D!StartBackfill(from)) \/ D!BackfillBuild \/ D!StopBackfill
  PROVE  DefectInv'
<1>1. /\ UNCHANGED <<next, builds, fails, fp, occ, edits, since, auto>>
      /\ back' \in {back, {}} /\ runs' \in {runs, runs + 1} /\ todo' \subseteq D!BuildIds
      /\ job = D!Idle
  BY DEF D!StartBackfill, D!BackfillBuild, D!StopBackfill, DefectInv, DefectTypes
<1>2. \/ UNCHANGED job
      \/ \E b \in builds : /\ b \notin todo'
                           /\ job' = [pc |-> IF fails[b] = {} THEN "count" ELSE "upsert",
                                      build |-> b, link |-> fails[b]]
  BY DEF D!StartBackfill, D!BackfillBuild, D!StopBackfill, D!Compute
<1>3. D!Known' = D!Known
  BY <1>1 DEF D!Known
<1>4. DefectTypes'
  BY <1>1, <1>2 DEF DefectInv, DefectTypes, D!Steps
<1>5. References'
  BY <1>1, <1>3 DEF DefectInv, References
<1>6. Computing'
  BY <1>1, <1>2, <1>3 DEF DefectInv, DefectTypes, Computing, D!Idle
<1>7. runs' = runs => Waiting' \subseteq Waiting
  <2>1. ASSUME NEW from \in D!BuildIds, D!StartBackfill(from)
        PROVE  runs' # runs
    BY <2>1 DEF D!StartBackfill, DefectInv, DefectTypes
  <2>2. CASE D!BackfillBuild
    <3> DEFINE b == D!Max(todo)
    <3>1. todo' = todo \ {b} /\ UNCHANGED fails
          /\ \/ UNCHANGED job
             \/ job' = [pc |-> IF fails[b] = {} THEN "count" ELSE "upsert", build |-> b,
                        link |-> fails[b]]
      BY <2>2 DEF D!BackfillBuild, D!Compute
    <3>2. b \in todo
      BY <2>2, NewestWaiting DEF D!BackfillBuild, DefectInv, DefectTypes
    <3> HIDE DEF b
    <3>3. QED
      BY <1>1, <3>1, <3>2 DEF Waiting, D!Idle
  <2>3. CASE D!StopBackfill
    BY <1>1, <2>3 DEF D!StopBackfill, Waiting, D!Idle
  <2>4. QED
    BY <2>1, <2>2, <2>3
<1>8. CleanIsCovered'
  <2>1. ASSUME NEW h \in D!Known
        PROVE  fp[h].clean <= Counts(runs', since[h], Waiting') + D!Missed
    <3>1. h \in Hashes /\ since[h] \in SUBSET D!BuildIds /\ runs \in Nat /\ fp[h].clean \in Nat
      BY KnownRows DEF DefectInv, DefectTypes, DefectRow
    <3>2. Counts(runs, since[h], Waiting) <= Counts(runs', since[h], Waiting')
      <4>1. CASE runs' = runs
        BY <1>7, <3>1, <4>1, CountsGrow
      <4>2. CASE runs' = runs + 1
        BY <3>1, <4>2, CountsAgain
      <4>3. QED
        BY <1>1, <4>1, <4>2
    <3>3. fp[h].clean <= Counts(runs, since[h], Waiting) + D!Missed
      BY DEF DefectInv, CleanIsCovered
    <3>4. runs' \in Nat
      BY <1>1, <3>1
    <3>5. QED
      BY <3>1, <3>2, <3>3, <3>4, CountsNat, DefectConstants
  <2>2. ASSUME NEW h \in auto
        PROVE  Cardinality(since[h]) * (1 + runs') + D!Missed >= Threshold
    <3>1. since[h] \in SUBSET D!BuildIds /\ runs \in Nat /\ runs' \in Nat /\ runs <= runs'
      BY <1>1 DEF DefectInv, DefectTypes
    <3>2. Cardinality(since[h]) * (1 + runs) + D!Missed >= Threshold
      BY DEF DefectInv, CleanIsCovered
    <3>3. /\ Cardinality(since[h]) * (1 + runs) \in Nat
          /\ Cardinality(since[h]) * (1 + runs') \in Nat
          /\ Cardinality(since[h]) * (1 + runs) <= Cardinality(since[h]) * (1 + runs')
      BY <3>1, ProductGrows
    <3>4. QED
      BY <3>2, <3>3, DefectConstants
  <2>3. job'.pc # "link" /\ (job'.pc = "count" => fails[job'.build] = {})
    BY <1>1, <1>2 DEF D!Idle
  <2>4. QED
    BY <1>1, <1>3, <2>1, <2>2, <2>3 DEF CleanIsCovered
<1>9. QED
  BY <1>4, <1>5, <1>6, <1>8 DEF DefectInv

LEMMA UpsertKeeps ==
  ASSUME DefectInv, D!UpsertFingerprints
  PROVE  DefectInv'
<1> DEFINE b == job.build
<1>1. /\ job.pc = "upsert" /\ b \in builds
      /\ fp' = [h \in Hashes |-> IF h \in fails[b] THEN D!Seen(fp[h], b) ELSE fp[h]]
      /\ since' = [h \in Hashes |-> IF h \in fails[b] THEN {} ELSE since[h]]
      /\ back' = auto \cap fails[b] /\ auto' = auto \ fails[b]
      /\ UNCHANGED <<next, builds, fails, occ, runs, todo, edits>>
  BY DEF D!UpsertFingerprints
<1>2. b \in D!BuildIds /\ b \in Nat /\ fails[b] \subseteq Hashes
  BY <1>1 DEF DefectInv, DefectTypes
<1>3. \A h \in fails[b] : /\ fp'[h] \in DefectRow
                          /\ fp'[h].clean = 0 /\ fp'[h].last = b
                          /\ fp'[h].first = IF fp[h] = D!None THEN b ELSE fp[h].first
  BY <1>1, <1>2, SeenRow DEF DefectInv, DefectTypes
<1>4. /\ job' \in [pc : D!Steps, build : Nat, link : SUBSET Hashes]
      /\ job'.pc = "link" /\ job'.build = b /\ job'.link = fails[b]
  BY <1>1 DEF DefectInv, DefectTypes, Computing, D!UpsertFingerprints, D!Steps
<1>5. D!Known' = D!Known \cup fails[b]
  BY <1>1, <1>2, <1>3, NoRow DEF D!Known
<1>6. DefectTypes'
  BY <1>1, <1>2, <1>3, <1>4 DEF DefectInv, DefectTypes
<1>7. References'
  <2>1. ASSUME NEW h \in D!Known'
        PROVE  {fp'[h].first, fp'[h].last} \subseteq builds
    <3>1. CASE h \in fails[b]
      <4>1. fp[h] # D!None => h \in D!Known
        BY <1>2, <3>1 DEF D!Known
      <4>2. QED
        <5>1. \A g \in D!Known : {fp[g].first, fp[g].last} \subseteq builds
          BY DEF DefectInv, References
        <5>2. QED
          BY <1>1, <1>3, <3>1, <4>1, <5>1
    <3>2. CASE h \notin fails[b]
      <4>1. h \in D!Known /\ fp'[h] = fp[h]
        BY <1>1, <1>5, <2>1, <3>2 DEF D!Known
      <4>2. QED
        BY <4>1 DEF DefectInv, References
    <3>3. QED
      BY <3>1, <3>2
  <2>2. \A o \in occ : o.hash \in D!Known' /\ o.build \in builds /\ o.hash \in fails[o.build]
    BY <1>5 DEF DefectInv, References
  <2>3. auto' \subseteq D!Known' /\ back' \subseteq D!Known'
    BY <1>1, <1>5 DEF DefectInv, References
  <2>4. QED
    BY <1>1, <2>1, <2>2, <2>3 DEF References
<1>8. Computing'
  BY <1>1, <1>4 DEF DefectInv, DefectTypes, Computing
<1>9. CleanIsCovered'
  <2>1. Waiting' = Waiting
    BY <1>1, <1>4 DEF Waiting
  <2>2. \A h \in D!Known' : fp'[h].clean <= Counts(runs', since'[h], Waiting') + D!Missed
    <3>1. ASSUME NEW h \in fails[b]
          PROVE  fp'[h].clean <= Counts(runs', since'[h], Waiting') + D!Missed
      <4>1. fp'[h].clean = 0 /\ since'[h] = {} /\ runs' \in Nat
        BY <1>1, <1>2, <1>3, <3>1 DEF DefectInv, DefectTypes
      <4>2. Counts(runs', since'[h], Waiting') \in Nat
        BY <4>1, CountsNat
      <4>3. QED
        BY <4>1, <4>2, DefectConstants
    <3>2. \A h \in D!Known' \ fails[b] : h \in D!Known /\ fp'[h] = fp[h] /\ since'[h] = since[h]
      BY <1>1, <1>5 DEF D!Known
    <3>3. QED
      BY <1>1, <2>1, <3>1, <3>2 DEF DefectInv, CleanIsCovered
  <2>3. \A h \in auto' : Cardinality(since'[h]) * (1 + runs') + D!Missed >= Threshold
    BY <1>1 DEF DefectInv, DefectTypes, CleanIsCovered
  <2>4. \A h \in fails[b] : fp'[h].clean = 0 /\ fp'[h].last = b
    BY <1>1, <1>2, <1>3
  <2>5. QED
    BY <1>1, <1>4, <2>2, <2>3, <2>4 DEF CleanIsCovered
<1>10. QED
  BY <1>6, <1>7, <1>8, <1>9 DEF DefectInv

LEMMA LinkKeeps ==
  ASSUME DefectInv, NEW h \in Hashes, D!Link(h) \/ D!LinkFails(h)
  PROVE  DefectInv'
<1> DEFINE b == job.build
           o == [hash |-> h, build |-> b, regression |-> FALSE]
<1>1. /\ job.pc = "link" /\ h \in job.link
      /\ job' = [job EXCEPT !.link = @ \ {h}]
      /\ UNCHANGED <<next, builds, fails, fp, runs, todo, edits, since, auto, back>>
  BY DEF D!Link, D!LinkFails
<1>2. /\ job' \in [pc : D!Steps, build : Nat, link : SUBSET Hashes]
      /\ job'.pc = "link" /\ job'.build = b /\ job'.link = job.link \ {h}
  BY <1>1 DEF DefectInv, DefectTypes
<1>3. D!Known' = D!Known
  BY <1>1 DEF D!Known
<1>4. b \in D!BuildIds /\ b \in Nat /\ (b \in builds => h \in fails[b])
  BY <1>1 DEF DefectInv, DefectTypes, Computing
<1>5. /\ occ \subseteq occ'
      /\ occ' = occ \/ (occ' = occ \cup {o} /\ h \in D!Known /\ b \in builds)
      /\ h \in D!Known /\ b \in builds => LinksFail \/ \E q \in occ' : q.hash = h /\ q.build = b
  <2>1. CASE D!LinkFails(h)
    BY <2>1 DEF D!LinkFails
  <2>2. CASE D!Link(h)
    <3>1. fp[h] # D!None <=> h \in D!Known
      BY DEF D!Known
    <3>2. o.hash = h /\ o.build = b
      OBVIOUS
    <3>3. QED
      BY <1>4, <2>2, <3>1, <3>2 DEF D!Link
  <2>3. QED
    BY <2>1, <2>2
<1>6. DefectTypes'
  <2>1. o \in Occurrence
    BY <1>4 DEF Occurrence
  <2>2. QED
    BY <1>1, <1>2, <1>5, <2>1 DEF DefectInv, DefectTypes
<1>7. References'
  <2>1. h \in D!Known /\ b \in builds =>
          o.hash \in D!Known /\ o.build \in builds /\ o.hash \in fails[o.build]
    BY <1>4
  <2>2. QED
    BY <1>1, <1>3, <1>5, <2>1 DEF DefectInv, References
<1>8. Computing'
  BY <1>1, <1>2 DEF DefectInv, DefectTypes, Computing
<1>9. CleanIsCovered'
  <2>3. b \in builds \/ fails[b] = {}
    BY <1>4 DEF DefectInv, Computing
  <2>4. Waiting' = Waiting
    BY <1>1, <1>2 DEF Waiting
  <2>1. ASSUME NEW g \in fails[b], g \in D!Known \ job'.link, ~LinksFail
        PROVE  g \in D!SeenIn(b)'
    <3>1. CASE g = h
      BY <1>2, <1>5, <2>1, <2>3, <3>1 DEF D!SeenIn
    <3>2. CASE g # h
      BY <1>1, <1>2, <1>5, <2>1, <3>2 DEF DefectInv, CleanIsCovered, D!SeenIn
    <3>3. QED
      BY <3>1, <3>2
  <2>2. QED
    BY <1>1, <1>2, <1>3, <2>1, <2>4 DEF DefectInv, CleanIsCovered, D!SeenIn
<1>10. QED
  BY <1>6, <1>7, <1>8, <1>9 DEF DefectInv

\* The counters of clean builds and of the history move together, but for a
\* defect that failed and was not linked.
LEMMA CountKeeps ==
  ASSUME DefectInv, D!UpdateCleanBuildCounts
  PROVE  DefectInv'
<1> DEFINE b     == job.build
           clean == {h \in D!Known \ D!SeenIn(b) : fp[h].res = "open"}
<1>1. /\ job.pc \in {"count", "link"} /\ (job.pc = "link" => job.link = {})
      /\ fp' = [h \in Hashes |-> IF h \in clean THEN [fp[h] EXCEPT !.clean = @ + 1] ELSE fp[h]]
      /\ since' = [h \in Hashes |->
                     IF h \in D!Known \ fails[b] THEN since[h] \cup {b} ELSE since[h]]
      /\ UNCHANGED <<next, builds, fails, occ, runs, todo, edits, auto, back>>
  BY DEF D!UpdateCleanBuildCounts
<1>2. /\ job' \in [pc : D!Steps, build : Nat, link : SUBSET Hashes]
      /\ job'.pc \in {"resolve", "close"} /\ job'.build = b /\ job'.link = job.link
  BY DEF DefectInv, DefectTypes, D!UpdateCleanBuildCounts, D!Steps
<1>3. \A h \in Hashes :
        IF h \in clean
        THEN /\ fp'[h] \in DefectRow
             /\ fp'[h].clean = fp[h].clean + 1
             /\ fp'[h].first = fp[h].first /\ fp'[h].last = fp[h].last
        ELSE fp'[h] = fp[h]
  BY <1>1, KnownRows DEF DefectInv, DefectRow
<1>4. D!Known' = D!Known
  BY <1>1, <1>3, NoRow DEF D!Known
<1>10. b \in D!BuildIds /\ b < next /\ b \notin todo
  BY <1>1 DEF DefectInv, Computing
<1>5. DefectTypes'
  <2>1. fp' \in [Hashes -> DefectRow \cup {D!None}]
    BY <1>1, <1>3 DEF DefectInv, DefectTypes
  <2>2. since' \in [Hashes -> SUBSET D!BuildIds]
    BY <1>1, <1>10 DEF DefectInv, DefectTypes
  <2>3. QED
    BY <1>1, <1>2, <2>1, <2>2 DEF DefectInv, DefectTypes
<1>6. References'
  BY <1>1, <1>3, <1>4, KnownRows DEF DefectInv, References
<1>7. Computing'
  BY <1>1, <1>2, <1>10 DEF DefectInv, DefectTypes, Computing
<1>8. CleanIsCovered'
  <2>a. b \in Waiting /\ Waiting' = todo /\ Waiting = todo \cup {b}
    BY <1>1, <1>2 DEF Waiting
  <2>1. ASSUME NEW h \in D!Known
        PROVE  fp'[h].clean <= Counts(runs, since'[h], Waiting') + D!Missed
    <3>1. /\ fp[h].clean <= Counts(runs, since[h], Waiting) + D!Missed
          /\ fp[h].clean \in Nat /\ since[h] \in SUBSET D!BuildIds
          /\ since'[h] \in SUBSET D!BuildIds /\ runs \in Nat /\ h \in Hashes
      BY <1>5, KnownRows DEF DefectInv, DefectTypes, DefectRow, CleanIsCovered
    <3>2. Counts(runs, since[h], Waiting) \in Nat /\ Counts(runs, since'[h], Waiting') \in Nat
      BY <3>1, CountsNat
    <3>3. CASE h \notin fails[b]
      <4>1. since'[h] = since[h] \cup {b}
        BY <1>1, <2>1, <3>1, <3>3
      <4>2. Counts(runs, since[h], Waiting) + 1 <= Counts(runs, since'[h], Waiting')
        BY <1>10, <2>a, <3>1, <4>1, CountsOne
      <4>3. fp'[h].clean <= fp[h].clean + 1
        BY <1>3, <3>1
      <4>4. fp'[h].clean \in Nat
        BY <1>3, <3>1
      <4>5. QED
        BY <3>1, <3>2, <4>2, <4>3, <4>4, DefectConstants
    <3>4. CASE h \in fails[b] /\ h \notin clean
      <4>1. since'[h] = since[h] /\ fp'[h] = fp[h]
        BY <1>1, <1>3, <3>1, <3>4
      <4>2. Counts(runs, since[h], Waiting) <= Counts(runs, since[h], Waiting')
        BY <2>a, <3>1, CountsGrow
      <4>3. QED
        BY <3>1, <3>2, <4>1, <4>2, DefectConstants
    <3>5. CASE h \in fails[b] /\ h \in clean
      <4>1. job.pc = "link" /\ fp[h].clean = 0 /\ LinksFail
        BY <1>1, <2>1, <3>5, DefectConstants DEF DefectInv, CleanIsCovered
      <4>2. fp'[h].clean = 1 /\ D!Missed = 1
        BY <1>3, <3>1, <3>5, <4>1 DEF D!Missed
      <4>3. QED
        BY <3>2, <4>2
    <3>6. QED
      BY <3>3, <3>4, <3>5
  <2>2. ASSUME NEW h \in auto
        PROVE  Cardinality(since'[h]) * (1 + runs) + D!Missed >= Threshold
    <3>1. /\ since[h] \in SUBSET D!BuildIds /\ since'[h] \in SUBSET D!BuildIds
          /\ since[h] \subseteq since'[h] /\ runs \in Nat
          /\ Cardinality(since[h]) * (1 + runs) + D!Missed >= Threshold
      BY <1>1, <1>5 DEF DefectInv, DefectTypes, CleanIsCovered
    <3>2. QED
      BY <3>1, ProductGrows, DefectConstants
  <2>3. QED
    BY <1>1, <1>2, <1>4, <2>1, <2>2 DEF CleanIsCovered
<1>9. QED
  BY <1>5, <1>6, <1>7, <1>8 DEF DefectInv

LEMMA ResolveKeeps ==
  ASSUME DefectInv, D!AutoResolveFixed
  PROVE  DefectInv'
<1>1. /\ job.pc \in {"resolve", "close"}
      /\ fp' = [h \in Hashes |->
                  IF h \in D!ToResolve THEN [fp[h] EXCEPT !.res = "fixed"] ELSE fp[h]]
      /\ auto' = auto \cup D!ToResolve
      /\ UNCHANGED <<next, builds, fails, occ, runs, todo, edits, since, back>>
  BY DEF D!AutoResolveFixed
<1>2. /\ job' \in [pc : D!Steps, build : Nat, link : SUBSET Hashes]
      /\ job' = D!Idle \/ (job'.pc = "detect" /\ job'.build = job.build /\ job'.link = job.link)
  BY DEF DefectInv, DefectTypes, D!AutoResolveFixed, D!Steps, D!Idle
<1>3. \A h \in Hashes :
        IF h \in D!ToResolve
        THEN /\ fp'[h] \in DefectRow
             /\ fp'[h].clean = fp[h].clean
             /\ fp'[h].first = fp[h].first /\ fp'[h].last = fp[h].last
        ELSE fp'[h] = fp[h]
  BY <1>1, KnownRows DEF DefectInv, DefectRow, D!Resolutions, D!ToResolve
<1>4. D!Known' = D!Known /\ D!ToResolve \subseteq D!Known
  BY <1>1, <1>3, NoRow DEF D!Known, D!ToResolve
<1>5. DefectTypes'
  BY <1>1, <1>2, <1>3, <1>4, KnownRows DEF DefectInv, DefectTypes
<1>6. References'
  BY <1>1, <1>3, <1>4, KnownRows DEF DefectInv, References
<1>7. Computing'
  BY <1>1, <1>2 DEF DefectInv, DefectTypes, Computing, D!Idle
<1>8. CleanIsCovered'
  <2>a. Waiting' = Waiting
    BY <1>1, <1>2 DEF Waiting, D!Idle
  <2>1. \A h \in D!Known : fp'[h].clean <= Counts(runs, since[h], Waiting) + D!Missed
    BY <1>3, KnownRows DEF DefectInv, CleanIsCovered
  <2>2. ASSUME NEW h \in D!ToResolve
        PROVE  Cardinality(since[h]) * (1 + runs) + D!Missed >= Threshold
    <3>1. /\ fp[h].clean >= Threshold /\ fp[h].clean <= Counts(runs, since[h], Waiting) + D!Missed
          /\ fp[h].clean \in Nat /\ since[h] \in SUBSET D!BuildIds /\ runs \in Nat
      BY <1>4, KnownRows DEF DefectInv, DefectTypes, DefectRow, CleanIsCovered, D!ToResolve
    <3>2. /\ Counts(runs, since[h], Waiting) \in Nat
          /\ Cardinality(since[h]) * (1 + runs) \in Nat
          /\ Counts(runs, since[h], Waiting) <= Cardinality(since[h]) * (1 + runs)
      BY <3>1, CountsNat, CountsBound
    <3>3. QED
      BY <3>1, <3>2, DefectConstants
  <2>3. job'.pc \notin {"link", "count"}
    BY <1>2 DEF D!Idle
  <2>4. QED
    BY <1>1, <1>4, <2>a, <2>1, <2>2, <2>3 DEF DefectInv, CleanIsCovered
<1>9. QED
  BY <1>5, <1>6, <1>7, <1>8 DEF DefectInv

LEMMA DetectKeeps ==
  ASSUME DefectInv, D!DetectRegressions
  PROVE  DefectInv'
<1>1. /\ job.pc = "detect"
      /\ UNCHANGED <<next, builds, fails, fp, runs, todo, edits, since, auto, back>>
  BY DEF D!DetectRegressions
<1>2. /\ job' \in [pc : D!Steps, build : Nat, link : SUBSET Hashes]
      /\ job'.pc = "done" /\ job'.build = job.build /\ job'.link = job.link
  BY DEF DefectInv, DefectTypes, D!DetectRegressions, D!Steps
<1>3. D!Known' = D!Known
  BY <1>1 DEF D!Known
<1>4. \A q \in occ' : q \in Occurrence /\ \E o \in occ : q.hash = o.hash /\ q.build = o.build
  <2>1. ASSUME NEW q \in occ'
        PROVE  q \in Occurrence /\ \E o \in occ : q.hash = o.hash /\ q.build = o.build
    <3>1. PICK o \in occ, r \in BOOLEAN : q = [o EXCEPT !.regression = r]
      BY <2>1 DEF D!DetectRegressions, DefectInv, DefectTypes, Occurrence
    <3>2. o \in Occurrence
      BY DEF DefectInv, DefectTypes
    <3>3. QED
      BY <3>1, <3>2 DEF Occurrence
  <2>2. QED
    BY <2>1
<1>5. DefectTypes'
  BY <1>1, <1>2, <1>4 DEF DefectInv, DefectTypes
<1>6. References'
  BY <1>1, <1>3, <1>4 DEF DefectInv, References
<1>9. Waiting' = Waiting
  BY <1>1, <1>2 DEF Waiting
<1>7. Computing' /\ CleanIsCovered'
  BY <1>1, <1>2, <1>3, <1>9 DEF DefectInv, DefectTypes, Computing, CleanIsCovered
<1>8. QED
  BY <1>5, <1>6, <1>7 DEF DefectInv

LEMMA EndComputeKeeps ==
  ASSUME DefectInv, D!EndCompute
  PROVE  DefectInv'
<1>1. /\ job' = D!Idle /\ back' = {}
      /\ UNCHANGED <<next, builds, fails, fp, occ, runs, todo, edits, since, auto>>
  BY DEF D!EndCompute
<1>2. D!Known' = D!Known /\ D!Idle.pc = "idle"
  BY <1>1 DEF D!Known, D!Idle
<1>3. DefectTypes'
  BY <1>1 DEF DefectInv, DefectTypes, D!Idle, D!Steps
<1>4. References' /\ Computing'
  BY <1>1, <1>2 DEF DefectInv, References, Computing
<1>5. CleanIsCovered'
  <2>1. ASSUME NEW h \in D!Known
        PROVE  fp[h].clean <= Counts(runs, since[h], Waiting') + D!Missed
    <3>1. h \in Hashes /\ since[h] \in SUBSET D!BuildIds /\ runs \in Nat /\ fp[h].clean \in Nat
      BY KnownRows DEF DefectInv, DefectTypes, DefectRow
    <3>2. Counts(runs, since[h], Waiting) <= Counts(runs, since[h], Waiting')
      BY <1>1, <1>2, <3>1, CountsGrow DEF Waiting
    <3>3. fp[h].clean <= Counts(runs, since[h], Waiting) + D!Missed
      BY DEF DefectInv, CleanIsCovered
    <3>4. QED
      BY <3>1, <3>2, <3>3, CountsNat, DefectConstants
  <2>2. QED
    BY <1>1, <1>2, <2>1 DEF DefectInv, CleanIsCovered
<1>6. QED
  BY <1>3, <1>4, <1>5 DEF DefectInv

LEMMA EditKeeps ==
  ASSUME DefectInv, NEW H \in SUBSET Hashes, NEW res \in D!Resolutions, D!Edit(H, res)
  PROVE  DefectInv'
<1>1. /\ H \subseteq D!Known
      /\ fp' = [h \in Hashes |-> IF h \in H THEN [fp[h] EXCEPT !.res = res] ELSE fp[h]]
      /\ auto' = auto \ H /\ back' = back \ H /\ edits' \in Nat
      /\ UNCHANGED <<next, builds, fails, occ, job, runs, todo, since>>
  BY DEF D!Edit, DefectInv, DefectTypes
<1>2. \A h \in Hashes :
        IF h \in H
        THEN /\ fp'[h] \in DefectRow
             /\ fp'[h].clean = fp[h].clean
             /\ fp'[h].first = fp[h].first /\ fp'[h].last = fp[h].last
        ELSE fp'[h] = fp[h]
  BY <1>1, KnownRows DEF DefectInv, DefectRow
<1>3. D!Known' = D!Known
  BY <1>1, <1>2, NoRow DEF D!Known
<1>4. DefectTypes'
  BY <1>1, <1>2 DEF DefectInv, DefectTypes
<1>5. References'
  BY <1>1, <1>2, <1>3, KnownRows DEF DefectInv, References
<1>6. Computing'
  BY <1>1 DEF DefectInv, DefectTypes, Computing
<1>9. Waiting' = Waiting
  BY <1>1 DEF Waiting
<1>7. CleanIsCovered'
  BY <1>1, <1>2, <1>3, <1>9, KnownRows DEF DefectInv, DefectTypes, CleanIsCovered, D!SeenIn
<1>8. QED
  BY <1>4, <1>5, <1>6, <1>7 DEF DefectInv

LEMMA DeleteKeeps ==
  ASSUME DefectInv, NEW b \in builds, D!DeleteBuild(b)
  PROVE  DefectInv'
<1>1. /\ builds' = builds \ {b}
      /\ fp' = [h \in Hashes |-> IF h \in D!Gone(b) THEN D!None ELSE fp[h]]
      /\ occ' = {o \in occ : o.build # b /\ o.hash \notin D!Gone(b)}
      /\ since' = [h \in Hashes |-> IF h \in D!Gone(b) THEN {} ELSE since[h]]
      /\ fails' = [fails EXCEPT ![b] = {}]
      /\ auto' = auto \ D!Gone(b) /\ back' = back \ D!Gone(b)
      /\ UNCHANGED <<next, job, runs, todo, edits>>
  BY DEF D!DeleteBuild
<1>2. /\ D!Known' = D!Known \ D!Gone(b)
      /\ \A h \in D!Known' : h \in Hashes /\ fp'[h] = fp[h] /\ since'[h] = since[h]
      /\ \A h \in D!Known' : fp[h].first # b /\ fp[h].last # b
  BY <1>1 DEF D!Known, D!Gone
<1>3. DefectTypes'
  <2>1. fp' \in [Hashes -> DefectRow \cup {D!None}]
    BY <1>1 DEF DefectInv, DefectTypes
  <2>2. since' \in [Hashes -> SUBSET D!BuildIds] /\ fails' \in [D!BuildIds -> SUBSET Hashes]
    BY <1>1 DEF DefectInv, DefectTypes
  <2>3. QED
    BY <1>1, <2>1, <2>2 DEF DefectInv, DefectTypes
<1>4. References'
  <2>1. ASSUME NEW h \in D!Known'
        PROVE  {fp'[h].first, fp'[h].last} \subseteq builds'
    <3>1. h \in D!Known /\ fp'[h] = fp[h] /\ fp[h].first # b /\ fp[h].last # b
      BY <1>2
    <3>2. QED
      BY <1>1, <3>1 DEF DefectInv, References
  <2>2. \A o \in occ' : o \in occ /\ o.build # b /\ o.hash \notin D!Gone(b)
    BY <1>1
  <2>3. \A o \in occ' :
          o.hash \in D!Known' /\ o.build \in builds' /\ o.hash \in fails'[o.build]
    BY <1>1, <1>2, <2>2 DEF DefectInv, References
  <2>4. auto' \subseteq D!Known' /\ back' \subseteq D!Known'
    BY <1>1, <1>2 DEF DefectInv, References
  <2>5. QED
    BY <2>1, <2>3, <2>4 DEF References
<1>8. fails'[b] = {} /\ \A c \in D!BuildIds \ {b} : fails'[c] = fails[c]
  BY <1>1 DEF DefectInv, DefectTypes
<1>5. Computing'
  BY <1>1, <1>8 DEF DefectInv, DefectTypes, Computing
<1>6. CleanIsCovered'
  <2>1. ASSUME job.pc = "link", NEW h \in fails'[job.build], h \in D!Known'
        PROVE  /\ fp'[h].clean = 0 /\ fp'[h].last = job.build
               /\ h \notin job.link /\ ~LinksFail => h \in D!SeenIn(job.build)'
    <3>1. job.build \in D!BuildIds /\ job.build # b /\ h \in fails[job.build]
      BY <1>8, <2>1 DEF DefectInv, Computing
    <3>2. h \in D!Known /\ fp'[h] = fp[h] /\ h \notin D!Gone(b)
      BY <1>2, <2>1
    <3>3. ASSUME h \notin job.link, ~LinksFail
          PROVE  h \in D!SeenIn(job.build)'
      <4>1. PICK o \in occ : o.hash = h /\ o.build = job.build
        BY <2>1, <3>1, <3>2, <3>3 DEF DefectInv, CleanIsCovered, D!SeenIn
      <4>2. o \in occ'
        BY <1>1, <3>1, <3>2, <4>1
      <4>3. QED
        BY <1>1, <4>1, <4>2 DEF D!SeenIn
    <3>4. QED
      BY <2>1, <3>1, <3>2, <3>3 DEF DefectInv, CleanIsCovered
  <2>2. \A h \in auto' : Cardinality(since'[h]) * (1 + runs) + D!Missed >= Threshold
    BY <1>1 DEF DefectInv, DefectTypes, CleanIsCovered
  <2>3. Waiting' = Waiting
    BY <1>1 DEF Waiting
  <2>4. \A h \in D!Known' : fp'[h].clean <= Counts(runs, since'[h], Waiting') + D!Missed
    BY <1>2, <2>3 DEF DefectInv, CleanIsCovered
  <2>5. job.pc = "count" => fails'[job.build] = {}
    BY <1>8 DEF DefectInv, Computing, CleanIsCovered
  <2>6. QED
    BY <1>1, <2>1, <2>2, <2>4, <2>5 DEF CleanIsCovered
<1>7. QED
  BY <1>3, <1>4, <1>5, <1>6 DEF DefectInv

LEMMA DefectStep == DefectInv /\ [D!Next]_defectVars => DefectInv'
<1> SUFFICES ASSUME DefectInv, [D!Next]_defectVars
             PROVE  DefectInv'
  OBVIOUS
<1>1. CASE UNCHANGED defectVars
  <2>1. DefectTypes' /\ References' /\ Computing'
    BY <1>1 DEF defectVars, DefectInv, DefectTypes, References, Computing, D!Known
  <2>2. Waiting' = Waiting /\ D!Known' = D!Known /\ \A b : D!SeenIn(b)' = D!SeenIn(b)
    BY <1>1 DEF defectVars, Waiting, D!Known, D!SeenIn
  <2>3. CleanIsCovered'
    BY <1>1, <2>2 DEF defectVars, DefectInv, CleanIsCovered
  <2>4. QED
    BY <2>1, <2>3 DEF DefectInv
<1>2. CASE D!Next
  BY <1>2, NewBuildKeeps, BackfillKeeps, UpsertKeeps, LinkKeeps, CountKeeps, ResolveKeeps,
     DetectKeeps, EndComputeKeeps, EditKeeps, DeleteKeeps, DefectConstants DEF D!Next
<1>3. QED
  BY <1>1, <1>2

LEMMA DefectSteps == [AllNext]_allVars => [D!Next]_defectVars
  BY DEF AllNext, allVars, vars, defectVars, diagnosisVars, rowVars

LEMMA DefectAlways == AllSpec => []DefectInv
<1>1. AllInit => DefectInv
  BY DefectsStart DEF AllInit
<1>2. DefectInv /\ [AllNext]_allVars => DefectInv'
  BY DefectStep, DefectSteps
<1>3. QED
  BY <1>1, <1>2, PTL DEF AllSpec

LEMMA SameSize == ASSUME NEW S PROVE D!Cardinality(S) = Cardinality(S)
  BY DEF D!Cardinality, Cardinality, D!IsFiniteSet, IsFiniteSet

\* AutoResolveFixed: a defect it closed had been absent, since it was last seen,
\* from a number of different builds that is Threshold for as long as no backfill
\* was run, and at least that over one more than its runs, less a failed link:
\* whatever people edited, in whatever order builds were deleted and counted and
\* wherever a computation or a backfill broke off.
THEOREM ClosedWasClean == AllSpec => []FixedWasClean
<1>1. DefectInv => FixedWasClean
  <2> SUFFICES ASSUME DefectInv, NEW h \in auto
               PROVE  Cardinality(since[h]) * (1 + runs) >= Threshold - D!Missed
    BY SameSize DEF FixedWasClean, D!FixedWasClean
  <2>1. since[h] \in SUBSET D!BuildIds /\ runs \in Nat
    BY DEF DefectInv, DefectTypes
  <2>2. Cardinality(since[h]) * (1 + runs) \in Nat
    BY <2>1, CountsBound
  <2>3. QED
    BY <2>2, DefectConstants DEF DefectInv, CleanIsCovered
<1>2. QED
  BY <1>1, DefectAlways, PTL

LEMMA MutedUntouched ==
  ASSUME DefectInv, [D!Next]_defectVars, NEW h \in Hashes, D!Muted(fp[h]), ~D!Muted(fp'[h])
  PROVE  edits' # edits \/ fp'[h] = D!None
<1>1. fp[h] \in DefectRow /\ fp[h].res \in {"muted", "wont_fix"} /\ edits \in Nat
  BY DEF DefectInv, DefectTypes, D!Muted
<1>2. fp' # fp
  OBVIOUS
<1>3. CASE D!UpsertFingerprints
  <2>1. /\ job.build \in Nat
        /\ fp'[h] = IF h \in fails[job.build] THEN D!Seen(fp[h], job.build) ELSE fp[h]
    BY <1>3 DEF D!UpsertFingerprints, DefectInv, DefectTypes
  <2>2. D!Muted(D!Seen(fp[h], job.build))
    BY <1>1, <2>1, SeenRow
  <2>3. QED
    BY <2>1, <2>2
<1>4. CASE D!UpdateCleanBuildCounts \/ D!AutoResolveFixed
  BY <1>1, <1>4 DEF D!UpdateCleanBuildCounts, D!AutoResolveFixed, D!ToResolve
<1>5. ASSUME NEW H \in SUBSET Hashes, NEW res \in Decisions, D!Edit(H, res)
      PROVE  edits' # edits
  BY <1>1, <1>5 DEF D!Edit
<1>6. ASSUME NEW b \in builds, D!DeleteBuild(b)
      PROVE  fp'[h] = D!None
  BY <1>6 DEF D!DeleteBuild
<1>7. CASE D!Next
  BY <1>2, <1>3, <1>4, <1>5, <1>6, <1>7
     DEF D!Next, D!NewBuild, D!StartBackfill, D!BackfillBuild, D!StopBackfill, D!Link, D!LinkFails,
         D!DetectRegressions, D!EndCompute
<1>8. CASE UNCHANGED defectVars
  BY <1>2, <1>8 DEF defectVars
<1>9. QED
  BY <1>7, <1>8

\* No statement of computeDefectFingerprints takes back what a person decided: a
\* muted defect stays so until the next edit, unless its row goes with a build.
THEOREM DispositionStays == AllSpec => DispositionKept
<1>1. DefectInv /\ [AllNext]_allVars =>
        [\A h \in Hashes : D!Muted(fp[h]) /\ ~D!Muted(fp'[h])
                              => edits' # edits \/ fp'[h] = D!None]_(D!vars)
  BY DefectSteps, MutedUntouched
<1>2. QED
  BY <1>1, DefectAlways, PTL DEF AllSpec, DispositionKept, D!DispositionKept

-----------------------------------------------------------------------------
(* Results, for any tests, ids the generator gives, upload and order of    *)
(* its files and entries, and whatever fails: a test has one row, of an    *)
(* attempt that ended last, and the clean-up keeps the last row of a name. *)

\* Of files or entries, one ended last; of those that did, the last and the
\* first are told apart by their place.
LEMMA LastOfLast ==
  ASSUME NEW N \in Nat, NEW S \in SUBSET (1 .. N), S # {}, NEW f, \A i \in S : f[i] \in Nat
  PROVE  \E i \in S : \A j \in S : f[j] < f[i] \/ (f[j] = f[i] /\ j <= i)
<1> DEFINE Best(m) == \E i \in S \cap (1 .. m) : \A j \in S \cap (1 .. m) :
                        f[j] < f[i] \/ (f[j] = f[i] /\ j <= i)
           Bad == {m \in Nat : S \cap (1 .. m) # {} /\ ~Best(m)}
<1>1. S \cap (1 .. N) = S
  OBVIOUS
<1>2. CASE Bad = {}
  <2>1. N \notin Bad
    BY <1>2
  <2>2. Best(N)
    BY <1>1, <2>1
  <2>3. QED
    BY <1>1, <2>2
<1>3. CASE Bad # {}
  <2>1. PICK m \in Bad : \A y \in Bad : m <= y
    BY <1>3, LeastElement
  <2>2. m \in Nat /\ S \cap (1 .. m) # {} /\ ~Best(m)
    OBVIOUS
  <2>3. m # 0
    BY <2>2
  <2>4. m - 1 \in Nat /\ m - 1 \notin Bad
    BY <2>1, <2>2, <2>3
  <2>5. S \cap (1 .. (m - 1)) = {} \/ Best(m - 1)
    BY <2>4
  <2>6. S \cap (1 .. m) \subseteq (S \cap (1 .. (m - 1))) \cup {m}
        /\ S \cap (1 .. (m - 1)) \subseteq S \cap (1 .. m)
    BY <2>2
  <2>7. CASE m \notin S
    <3>1. S \cap (1 .. m) = S \cap (1 .. (m - 1))
      BY <2>6, <2>7
    <3>2. QED
      BY <2>2, <2>5, <3>1
  <2>8. CASE m \in S /\ S \cap (1 .. (m - 1)) = {}
    <3>1. S \cap (1 .. m) = {m}
      BY <2>2, <2>3, <2>6, <2>8
    <3>2. Best(m)
      BY <2>2, <3>1
    <3>3. QED
      BY <2>2, <3>2
  <2>9. CASE m \in S /\ Best(m - 1)
    <3>1. PICK b \in S \cap (1 .. (m - 1)) : \A j \in S \cap (1 .. (m - 1)) :
            f[j] < f[b] \/ (f[j] = f[b] /\ j <= b)
      BY <2>9
    <3>2. m \in S \cap (1 .. m) /\ b \in S \cap (1 .. m) /\ f[m] \in Nat /\ f[b] \in Nat
          /\ b \in Nat /\ b < m
      BY <2>2, <2>3, <2>9, <3>1
    <3>3. CASE f[b] <= f[m]
      <4>1. \A j \in S \cap (1 .. m) : f[j] < f[m] \/ (f[j] = f[m] /\ j <= m)
        BY <2>2, <2>6, <3>1, <3>2, <3>3
      <4>2. QED
        BY <2>2, <3>2, <4>1
    <3>4. CASE f[m] < f[b]
      <4>1. \A j \in S \cap (1 .. m) : f[j] < f[b] \/ (f[j] = f[b] /\ j <= b)
        BY <2>6, <3>1, <3>4
      <4>2. QED
        BY <2>2, <3>2, <4>1
    <3>5. QED
      BY <3>2, <3>3, <3>4
  <2>10. QED
    BY <2>5, <2>7, <2>8, <2>9
<1>4. QED
  BY <1>2, <1>3

LEMMA FirstOfLast ==
  ASSUME NEW N \in Nat, NEW S \in SUBSET (1 .. N), S # {}, NEW f, \A i \in S : f[i] \in Nat
  PROVE  \E i \in S : \A j \in S : f[j] < f[i] \/ (f[j] = f[i] /\ i <= j)
<1>1. PICK e \in S : \A j \in S : f[j] < f[e] \/ (f[j] = f[e] /\ j <= e)
  BY LastOfLast
<1> DEFINE T == {i \in S : f[i] = f[e]}
<1>2. T \in SUBSET Nat /\ e \in T
  <2>1. \A i \in S : i \in Nat
    OBVIOUS
  <2>2. T \subseteq Nat
    BY <2>1
  <2>3. QED
    BY <1>1, <2>2
<1>3. PICK i \in T : \A j \in T : i <= j
  BY <1>2, LeastElement
<1>4. \A j \in S : f[j] < f[i] \/ (f[j] = f[i] /\ i <= j)
  BY <1>1, <1>3
<1>5. QED
  BY <1>3, <1>4

-----------------------------------------------------------------------------
(* The files and the listing. *)

LEMMA RowConstants ==
  /\ \A t, u \in RowTests : t.id = u.id /\ t.id # R!NoId => t = u
  /\ \A h \in R!RawIds : h \in GivenIds[h]
  /\ \A h, g \in R!RawIds : h # g => GivenIds[h] \cap GivenIds[g] = {}
  /\ Stops \subseteq Nat /\ MaxFiles \in Nat \ {0}
  BY RecordsAssumption DEF R!Assumption

FilesOK == files \in Seq(R!Files)

\* A name in the report: every id it gives is one of the file's id, and an
\* entry of the same test ended no earlier than any file.
Listed ==
  /\ \E N \in Nat : DOMAIN report = 1 .. N
  /\ \A j \in DOMAIN report : /\ report[j].of \in R!Places
                              /\ report[j].id \in GivenIds[files[report[j].of].id]
  /\ \A q \in R!Places : \E j \in DOMAIN report :
        /\ files[report[j].of].id = files[q].id
        /\ files[q].stop <= files[report[j].of].stop

LEMMA FileFacts ==
  ASSUME FilesOK, NEW p \in R!Places
  PROVE  /\ files[p].id \in R!RawIds /\ files[p].stop \in Nat
         /\ \E t \in RowTests : t.name = files[p].name /\ t.id = files[p].id
<1>1. files[p] \in R!Files
  BY DEF FilesOK, R!Places
<1>2. PICK t \in RowTests, s \in Stops, r \in BOOLEAN :
        files[p] = [name |-> t.name, id |-> t.id, stop |-> s, rich |-> r]
  BY <1>1 DEF R!Files
<1>3. t.id \in R!RawIds /\ s \in Nat
  BY RowConstants DEF R!RawIds
<1>4. QED
  BY <1>2, <1>3

LEMMA PlacesAre == ASSUME FilesOK PROVE R!Places = 1 .. Len(files) /\ Len(files) \in Nat
  BY DEF FilesOK, R!Places

LEMMA SameName ==
  ASSUME FilesOK, NEW p \in R!Places, NEW q \in R!Places,
         files[p].id = files[q].id, files[p].id # R!NoId
  PROVE  files[p].name = files[q].name
  BY FileFacts, RowConstants

\* Ids of two tests are never given the same.
LEMMA SameId ==
  ASSUME FilesOK, NEW p \in R!Places, NEW q \in R!Places, NEW g,
         g \in GivenIds[files[p].id], g \in GivenIds[files[q].id]
  PROVE  files[p].id = files[q].id
<1>1. files[p].id \in R!RawIds /\ files[q].id \in R!RawIds
  BY FileFacts
<1>2. QED
  BY <1>1, RowConstants

LEMMA OwnGiven ==
  ASSUME FilesOK, NEW p \in R!Places
  PROVE  files[p].id \in GivenIds[files[p].id]
  BY FileFacts, RowConstants

LEMMA PublishLists ==
  ASSUME FilesOK, R!Publish
  PROVE  Listed'
<1>1. PICK given \in [R!Places -> R!Ids] :
        /\ \A p \in R!Places : given[p] \in GivenIds[files[p].id]
        /\ \E listed \in {R!Places} \cup R!LastOf(given) : \E order \in R!SetToSeqs(listed) :
              report' = [i \in DOMAIN order |-> [of |-> order[i], id |-> given[order[i]]]]
  BY DEF R!Publish
<1>2. PICK listed \in {R!Places} \cup R!LastOf(given) : \E order \in R!SetToSeqs(listed) :
        report' = [i \in DOMAIN order |-> [of |-> order[i], id |-> given[order[i]]]]
  BY <1>1
<1>0. PICK order \in R!SetToSeqs(listed) :
        report' = [i \in DOMAIN order |-> [of |-> order[i], id |-> given[order[i]]]]
  BY <1>2
<1>3. files' = files /\ R!Places' = R!Places
  BY DEF R!Publish, R!Places
<1>4. listed \subseteq R!Places
  BY DEF R!LastOf
<1>5. IsFiniteSet(listed) /\ Cardinality(listed) \in Nat
  <2>1. IsFiniteSet(R!Places)
    BY PlacesAre, FS_Interval
  <2>2. IsFiniteSet(listed)
    BY <1>4, <2>1, FS_Subset
  <2>3. QED
    BY <2>2, FS_CardinalityType
<1> DEFINE c == Cardinality(listed)
<1>6. order \in [1 .. c -> listed] /\ \A i, j \in 1 .. c : i # j => order[i] # order[j]
  BY DEF R!SetToSeqs, R!Cardinality, Cardinality, R!IsFiniteSet, IsFiniteSet
<1>7. \A q \in listed : \E i \in 1 .. c : order[i] = q
  <2>1. order \in Injection(1 .. c, listed)
    BY <1>6 DEF Injection, IsInjective
  <2>2. Cardinality(1 .. c) = c
    BY <1>5, FS_Interval
  <2>3. order \in Surjection(1 .. c, listed)
    BY <1>5, <2>1, <2>2, FS_Injection
  <2>4. QED
    BY <2>3 DEF Surjection
<1>8. DOMAIN report' = 1 .. c
      /\ \A i \in 1 .. c : report'[i].of = order[i] /\ report'[i].id = given[order[i]]
  BY <1>0, <1>6
<1>9. \A j \in DOMAIN report' : /\ report'[j].of \in R!Places
                                /\ report'[j].id \in GivenIds[files[report'[j].of].id]
  BY <1>1, <1>4, <1>6, <1>8
<1>10. ASSUME NEW q \in R!Places
       PROVE  \E j \in DOMAIN report' : /\ files[report'[j].of].id = files[q].id
                                        /\ files[q].stop <= files[report'[j].of].stop
  <2>1. files[q].stop \in Nat
    BY FileFacts
  <2>2. ASSUME NEW f \in listed, files[f].id = files[q].id, files[q].stop <= files[f].stop
        PROVE  \E j \in DOMAIN report' : /\ files[report'[j].of].id = files[q].id
                                         /\ files[q].stop <= files[report'[j].of].stop
    BY <1>7, <1>8, <2>2
  <2>3. CASE q \in listed
    BY <2>1, <2>2, <2>3
  <2>4. CASE q \notin listed
    <3>1. listed \in R!LastOf(given)
      BY <2>4
    <3>2. given[q] # R!NoId
      BY <2>4, <3>1 DEF R!LastOf
    <3>3. PICK f \in listed : given[f] = given[q]
      BY <3>1 DEF R!LastOf
    <3>4. f \in R!Places /\ files[f].id = files[q].id
      BY <1>1, <1>4, <3>3, SameId
    <3>5. files[q].stop <= files[f].stop
      BY <3>1, <3>2, <3>3 DEF R!LastOf
    <3>6. QED
      BY <2>2, <3>4, <3>5
  <2>5. QED
    BY <2>3, <2>4
<1>11. QED
  BY <1>3, <1>5, <1>8, <1>9, <1>10 DEF Listed

-----------------------------------------------------------------------------
(* What the entries of the report are stored as. *)

LEMMA SameCount == ASSUME NEW S PROVE R!Cardinality(S) = Cardinality(S)
  BY DEF R!Cardinality, Cardinality, R!IsFiniteSet, IsFiniteSet

LEMMA AllFinite ==
  /\ FilesOK => IsFiniteSet(R!Places)
  /\ Listed => IsFiniteSet(DOMAIN report)
  BY PlacesAre, FS_Interval DEF Listed

\* The sets of one element, as Results counts them.
LEMMA Single ==
  ASSUME NEW S, IsFiniteSet(S)
  PROVE  /\ R!Cardinality(S) = 1 <=> \E x : S = {x}
         /\ R!Cardinality(S) \in Nat
  BY SameCount, FS_Singleton, FS_CardinalityType

LEMMA FiniteImage ==
  ASSUME NEW S, IsFiniteSet(S), NEW f, S = DOMAIN f, NEW T \in SUBSET {f[x] : x \in S}
  PROVE  IsFiniteSet(T)
<1> DEFINE g == [x \in S |-> f[x]]
           I == {f[x] : x \in S}
<1>1. g \in Surjection(S, I)
  BY DEF Surjection
<1>2. IsFiniteSet(I)
  BY <1>1, FS_Surjection
<1>3. QED
  BY <1>2, FS_Subset

Parses == {<< >>, [p \in R!Places |-> p]}

LEMMA ParsedArePlaces ==
  ASSUME FilesOK
  PROVE  /\ R!ToSet([p \in R!Places |-> p]) = R!Places
         /\ \A parsed \in Parses : R!ToSet(parsed) \subseteq R!Places
<1>1. R!ToSet(<< >>) = {}
  BY DEF R!ToSet
<1>2. R!ToSet([p \in R!Places |-> p]) = R!Places
  BY DEF R!ToSet
<1>3. QED
  BY <1>1, <1>2 DEF Parses

\* The id that stands for a name is that of one of its files, and the others
\* have it too or none.
LEMMA RawIdIs ==
  ASSUME FilesOK, NEW parsed \in Parses, NEW n, R!RawId(parsed, n) # R!NoId
  PROVE  /\ \E q \in R!Places : files[q].name = n /\ files[q].id = R!RawId(parsed, n)
         /\ \A q \in R!ToSet(parsed) :
              files[q].name = n => files[q].id \in {R!NoId, R!RawId(parsed, n)}
<1> DEFINE ids == R!RawIdsOf(parsed, n)
           all == [p \in R!Places |-> files[p].id]
<1>1. R!Cardinality(ids) = 1 /\ R!RawId(parsed, n) = CHOOSE h \in ids : TRUE
  BY DEF R!RawId
<1>2. R!ToSet(parsed) \subseteq R!Places
  BY ParsedArePlaces
<1>3. ids \in SUBSET {all[p] : p \in R!Places}
  BY <1>2 DEF R!RawIdsOf
<1>4. IsFiniteSet(ids)
  BY <1>3, AllFinite, FiniteImage
<1>5. PICK h : ids = {h}
  BY <1>1, <1>4, Single
<1>6. R!RawId(parsed, n) = h
  BY <1>1, <1>5
<1>7. h \in ids /\ \A g \in ids : g = h
  BY <1>5
<1>8. QED
  BY <1>2, <1>6, <1>7 DEF R!RawIdsOf

\* A row whose key is the id of a file has the name of that file.
LEMMA AdoptsName ==
  ASSUME FilesOK, Listed, NEW parsed \in Parses, NEW entries \in SUBSET DOMAIN report,
         NEW i \in entries, NEW p \in R!Places,
         R!AdoptedId(parsed, entries, i) = files[p].id, files[p].id # R!NoId
  PROVE  files[report[i].of].name = files[p].name
<1> DEFINE o == report[i].of
<1>1. o \in R!Places /\ report[i].id \in GivenIds[files[o].id]
  BY DEF Listed
<1>2. CASE R!RawId(parsed, files[o].name) = files[p].id
  <2>1. PICK q \in R!Places : files[q].name = files[o].name /\ files[q].id = files[p].id
    BY <1>2, RawIdIs
  <2>2. QED
    BY <2>1, SameName
<1>3. CASE report[i].id = files[p].id
  <2>1. files[o].id = files[p].id
    BY <1>1, <1>3, OwnGiven, SameId
  <2>2. QED
    BY <1>1, <2>1, SameName
<1>4. QED
  BY <1>2, <1>3 DEF R!AdoptedId

\* A name that stands for one test is adopted under the id of its files.
LEMMA OneTestIs ==
  ASSUME FilesOK, Listed, NEW n, R!OneTest(n)
  PROVE  /\ \E i \in DOMAIN report : \A j \in DOMAIN report :
              files[report[j].of].name = n <=> j = i
         /\ \A p, q \in R!Places : files[p].name = n /\ files[q].name = n =>
              files[p].id = files[q].id /\ files[p].id # R!NoId
<1> DEFINE S == R!Named(DOMAIN report, n)
<1>1. IsFiniteSet(S)
  BY AllFinite, FS_Subset DEF R!Named
<1>2. PICK i : S = {i}
  BY <1>1, Single DEF R!OneTest
<1>3. QED
  BY <1>2 DEF R!Named, R!OneTest, R!OneId

LEMMA OneTestAdopts ==
  ASSUME FilesOK, Listed, NEW n, R!OneTest(n), NEW entries \in SUBSET DOMAIN report,
         NEW i \in entries, files[report[i].of].name = n
  PROVE  R!AdoptedId([p \in R!Places |-> p], entries, i) = files[report[i].of].id
<1> DEFINE all == [p \in R!Places |-> p]
           o   == report[i].of
           ids == R!RawIdsOf(all, n)
           h   == files[o].id
<1>1. o \in R!Places /\ h # R!NoId
  BY OneTestIs DEF Listed
<1>2. \A p \in R!Places : files[p].name = n => files[p].id = h
  BY <1>1, OneTestIs
<1>3. ids = {h}
  BY <1>1, <1>2, ParsedArePlaces DEF R!RawIdsOf
<1>4. R!Cardinality(ids) = 1
  BY <1>3, SameCount, FS_Singleton
<1>5. R!RawId(all, n) = h
  BY <1>3, <1>4 DEF R!RawId
<1>6. ~R!Ambiguous(entries, n)
  <2>1. R!Named(entries, n) = {i}
    BY OneTestIs DEF R!Named
  <2>2. R!Cardinality(R!Named(entries, n)) = 1
    BY <2>1, SameCount, FS_Singleton
  <2>3. QED
    BY <2>2 DEF R!Ambiguous
<1>7. QED
  BY <1>1, <1>5, <1>6 DEF R!AdoptedId

IsOfEntries(I, parsed, entries) ==
  /\ DOMAIN I = {R!EntryKey(parsed, entries, i) : i \in entries}
  /\ \A k \in DOMAIN I : \E i \in entries :
       /\ R!EntryKey(parsed, entries, i) = k /\ R!Stands(parsed, entries, i)
       /\ I[k] = R!FromEntry(report[i].of)

LEMMA InsertedRows ==
  ASSUME FilesOK, Listed, NEW parsed, NEW entries \in SUBSET DOMAIN report
  PROVE  IsOfEntries(R!Inserted(parsed, entries), parsed, entries)
<1> DEFINE key(i)   == R!EntryKey(parsed, entries, i)
           keys0    == {key(i) : i \in entries}
           first(k) == CHOOSE i \in entries : key(i) = k /\ R!Stands(parsed, entries, i)
<1>1. R!Inserted(parsed, entries) = [k \in keys0 |-> R!FromEntry(report[first(k)].of)]
  BY DEF R!Inserted
<1>2. ASSUME NEW k \in keys0
      PROVE  \E i \in entries : key(i) = k /\ R!Stands(parsed, entries, i)
  <2> DEFINE S == {i \in entries : key(i) = k}
             f == [i \in S |-> files[report[i].of].stop]
  <2>1. PICK N \in Nat : DOMAIN report = 1 .. N
    BY DEF Listed
  <2>2. S \in SUBSET (1 .. N) /\ S # {}
    BY <2>1
  <2>3. \A i \in S : f[i] \in Nat
    BY FileFacts DEF Listed
  <2>4. PICK i \in S : \A j \in S : f[j] < f[i] \/ (f[j] = f[i] /\ j <= i)
    <3> HIDE DEF S, f
    <3>1. QED
      BY <2>2, <2>3, LastOfLast
  <2>5. R!Stands(parsed, entries, i)
    BY <2>4 DEF R!Stands, R!Overtakes
  <2>6. QED
    BY <2>4, <2>5
<1>3. \A k \in keys0 : /\ first(k) \in entries /\ key(first(k)) = k
                       /\ R!Stands(parsed, entries, first(k))
  BY <1>2
<1> HIDE DEF key, first
<1>4. /\ DOMAIN R!Inserted(parsed, entries) = keys0
      /\ \A k \in keys0 : R!Inserted(parsed, entries)[k] = R!FromEntry(report[first(k)].of)
  BY <1>1
<1>5. QED
  BY <1>3, <1>4 DEF key, IsOfEntries

-----------------------------------------------------------------------------
(* The invariants. *)

TestNames == {t.name : t \in RowTests}

HasFields(r) == DOMAIN r = {"name", "stop", "status", "text", "rich", "attempts"}

\* What the generator left whole: one id for the attempts of a test.
Whole(k) == k.id # R!NoId /\ R!Cardinality(R!Given(k.id)) = 1

OneKey(n)   == \A k \in R!Rows(n), p \in R!Places : files[p].name = n => k = R!Key(files[p].id, 0)
OneRowAt(n) == \A k, l \in R!Rows(n) : k = l
RowLost     == {"insert", "entry"} \cap failed # {}
TextLost    == {"parse", "enrich"} \cap failed # {}
NeitherKept == failed = {"listing"} \/ (RowLost /\ TextLost)

\* After the entries and before the files: a row has the key that the file of
\* its test will be written to.
EntriesOK ==
  /\ raw = [p \in R!Places |-> p]
  /\ \A k \in DOMAIN rows : rows[k].text = R!Nothing
  /\ \A k \in DOMAIN rows, p \in R!Places :
       k.id = files[p].id /\ k.id # R!NoId => rows[k].name = files[p].name
  /\ \A n \in TestNames : R!OneTest(n) => OneKey(n) /\ (R!Rows(n) = {} => RowLost)
  /\ failed = {} => \A k \in DOMAIN rows : Whole(k) => R!EndedLast(rows[k].status)

BothOK ==
  /\ \A n \in TestNames : R!OneTest(n) => OneRowAt(n) /\ (R!Rows(n) = {} => NeitherKept)
  /\ failed = {} => \A k \in DOMAIN rows : Whole(k) =>
       /\ R!EndedLast(rows[k].status)
       /\ rows[k].text # R!Nothing => R!EndedLast(rows[k].text)

ResultsInv ==
  /\ FilesOK
  /\ at # "uploaded" => Listed
  /\ at \in {"uploaded", "published"} => DOMAIN rows = {}
  /\ \A k \in DOMAIN rows : HasFields(rows[k])
  /\ at = "stored" => EntriesOK
  /\ at = "done" => BothOK

-----------------------------------------------------------------------------
(* The steps. *)

LEMMA EntryFields ==
  ASSUME NEW p
  PROVE  /\ HasFields(R!FromEntry(p)) /\ R!FromEntry(p).name = files[p].name
         /\ R!FromEntry(p).status = p /\ R!FromEntry(p).text = R!Nothing
  BY DEF R!FromEntry, HasFields

\* InsertBatch's WHERE: with every entry and every file read, the row of a test
\* the generator left whole is of an attempt that ended last.
LEMMA StandsLast ==
  ASSUME FilesOK, Listed, NEW e \in DOMAIN report, NEW k, Whole(k),
         R!EntryKey([p \in R!Places |-> p], DOMAIN report, e) = k,
         R!Stands([p \in R!Places |-> p], DOMAIN report, e)
  PROVE  R!EndedLast(report[e].of)
<1> DEFINE all == [p \in R!Places |-> p]
           E   == DOMAIN report
           h   == k.id
           file(j) == files[report[j].of]
           own == {j \in E : file(j).id = h}
<1>1. all \in Parses /\ R!ToSet(all) = R!Places /\ h # R!NoId
      /\ \A j \in E : report[j].of \in R!Places
  BY ParsedArePlaces DEF Parses, Whole, Listed
<1>2. R!AdoptedId(all, E, e) = h /\ k = R!Key(h, report[e].of)
  BY DEF R!EntryKey, R!Key
<1> HIDE DEF all
<1>3. PICK g : R!Given(h) = {g}
  <2> DEFINE ids == [j \in E |-> report[j].id]
  <2>1. R!Given(h) \in SUBSET {ids[j] : j \in E}
    BY DEF R!Given
  <2>0. IsFiniteSet(E) /\ E = DOMAIN ids
    BY AllFinite
  <2> HIDE DEF ids, E
  <2>2. IsFiniteSet(R!Given(h))
    BY <2>0, <2>1, FiniteImage
  <2>3. QED
    BY <2>2, Single DEF Whole
<1>4. own # {} /\ \A j \in own : report[j].id = g
  BY <1>3 DEF R!Given
<1>5. PICK i \in own : TRUE
  BY <1>4
<1>6. file(e).id = h
  <2>1. CASE R!RawId(all, file(e).name) = h /\ ~R!Ambiguous(E, file(e).name)
    <3>1. PICK q \in R!Places : files[q].name = file(e).name /\ files[q].id = h
      BY <1>1, <2>1, RawIdIs
    <3>2. file(i).name = file(e).name
      BY <1>1, <1>5, <3>1, SameName
    <3>3. file(e).id \in {R!NoId, h}
      BY <1>1, <2>1, RawIdIs
    <3>4. {e, i} \subseteq R!Named(E, file(e).name)
      BY <1>5, <3>2 DEF R!Named
    <3>5. IsFiniteSet(R!Named(E, file(e).name))
      BY AllFinite, FS_Subset DEF R!Named
    <3>6. R!Cardinality(R!Named(E, file(e).name)) \in Nat
          /\ ~(R!Cardinality(R!Named(E, file(e).name)) > 1)
          /\ R!Cardinality(R!Named(E, file(e).name)) # 0
      BY <2>1, <3>4, <3>5, Single, SameCount, FS_EmptySet DEF R!Ambiguous
    <3>7. R!Cardinality(R!Named(E, file(e).name)) = 1
      BY <3>6
    <3>8. e = i
      BY <3>4, <3>5, <3>7, Single
    <3>9. QED
      BY <1>5, <3>8
  <2>2. CASE report[e].id = h
    <3>1. report[e].id \in GivenIds[file(e).id] /\ h \in GivenIds[file(i).id]
      BY <1>1, <1>5, OwnGiven DEF Listed
    <3>2. file(e).id = file(i).id
      BY <1>1, <1>5, <2>2, <3>1, SameId
    <3>3. QED
      BY <1>5, <3>2
  <2>3. QED
    BY <1>2, <2>1, <2>2 DEF R!AdoptedId
<1>7. ASSUME NEW q \in R!Places, files[q].id = h
      PROVE  files[q].stop <= file(e).stop
  <2>1. PICK j \in E : file(j).id = h /\ files[q].stop <= file(j).stop
    BY <1>7 DEF Listed
  <2>2. file(j).name = file(e).name
    BY <1>1, <1>6, <2>1, SameName
  <2>3. report[j].id = report[e].id
    BY <1>4, <1>6, <2>1
  <2>4. R!AdoptedId(all, E, j) = h
    BY <1>2, <2>2, <2>3 DEF R!AdoptedId
  <2>5. R!EntryKey(all, E, j) = R!EntryKey(all, E, e)
    BY <1>1, <1>2, <2>4 DEF R!EntryKey, R!Key
  <2>6. R!Overtakes(e, j)
    BY <2>5 DEF R!Stands, all
  <2>7. file(j).stop <= file(e).stop /\ file(j).stop \in Nat /\ file(e).stop \in Nat
        /\ files[q].stop \in Nat
    BY <1>1, <2>6, FileFacts DEF R!Overtakes
  <2>8. QED
    BY <2>1, <2>7
<1>8. QED
  BY <1>6, <1>7 DEF R!EndedLast

\* What the rows of the entries say of a name that stands for one test.
LEMMA OneTestInserted ==
  ASSUME FilesOK, Listed, NEW n, R!OneTest(n), NEW parsed \in Parses,
         NEW entries \in SUBSET DOMAIN report
  PROVE  LET I == R!Inserted(parsed, entries) IN
         /\ \A k, l \in DOMAIN I : I[k].name = n /\ I[l].name = n => k = l
         /\ entries = DOMAIN report => \E k \in DOMAIN I : I[k].name = n
<1> DEFINE I == R!Inserted(parsed, entries)
           key(i) == R!EntryKey(parsed, entries, i)
           file(i) == files[report[i].of]
<1>1. PICK e \in DOMAIN report : \A j \in DOMAIN report : file(j).name = n <=> j = e
  BY OneTestIs
<1>6. IsOfEntries(I, parsed, entries)
  BY InsertedRows
<1>2. \A k \in DOMAIN I : \E i \in entries : key(i) = k /\ I[k].name = file(i).name
  <2> SUFFICES ASSUME NEW k \in DOMAIN I
               PROVE  \E i \in entries : key(i) = k /\ I[k].name = file(i).name
    OBVIOUS
  <2>1. PICK i \in entries : key(i) = k /\ I[k] = R!FromEntry(report[i].of)
    BY <1>6 DEF IsOfEntries
  <2>2. I[k].name = file(i).name
    BY <2>1, EntryFields
  <2>3. QED
    BY <2>1, <2>2
<1>0. DOMAIN I = {key(i) : i \in entries}
  BY <1>6 DEF IsOfEntries
<1> HIDE DEF I
<1>3. \A k \in DOMAIN I : I[k].name = n => k = key(e)
  BY <1>1, <1>2
<1>4. ASSUME entries = DOMAIN report
      PROVE  key(e) \in DOMAIN I /\ I[key(e)].name = n
  <2>1. key(e) \in DOMAIN I
    BY <1>0, <1>4
  <2>2. PICK i \in entries : key(i) = key(e) /\ I[key(e)].name = file(i).name
    BY <1>2, <2>1
  <2>3. R!AdoptedId(parsed, entries, i) = R!AdoptedId(parsed, entries, e)
    BY <2>2 DEF R!EntryKey, R!Key
  <2>4. /\ report[e].of \in R!Places /\ report[i].of \in R!Places
        /\ file(e).name = n /\ file(e).id # R!NoId
        /\ report[e].id \in GivenIds[file(e).id] /\ report[i].id \in GivenIds[file(i).id]
    <3>1. i \in DOMAIN report
      BY <2>2
    <3>2. \A j \in DOMAIN report : /\ report[j].of \in R!Places
                                   /\ report[j].id \in GivenIds[file(j).id]
      BY DEF Listed
    <3>3. file(e).name = n
      BY <1>1
    <3>4. file(e).id # R!NoId
      BY <3>2, <3>3, OneTestIs
    <3>5. QED
      BY <3>1, <3>2, <3>3, <3>4
  <2>5. file(i).name = n
    <3>1. CASE parsed = << >>
      <4>1. \A m : R!RawIdsOf(parsed, m) = {}
        BY <3>1 DEF R!RawIdsOf, R!ToSet
      <4>2. \A m : R!RawId(parsed, m) = R!NoId
        BY <4>1, SameCount, FS_EmptySet DEF R!RawId
      <4>3. report[i].id = report[e].id
        BY <2>3, <4>2 DEF R!AdoptedId
      <4>4. file(i).id = file(e).id
        BY <2>4, <4>3, SameId
      <4>5. QED
        BY <2>4, <4>4, SameName
    <3>2. CASE parsed = [p \in R!Places |-> p]
      <4>1. R!AdoptedId(parsed, entries, e) = file(e).id
        BY <1>4, <2>4, <3>2, OneTestAdopts
      <4>2. QED
        BY <2>3, <2>4, <4>1, AdoptsName
    <3>3. QED
      BY <3>1, <3>2 DEF Parses
  <2>6. QED
    BY <2>1, <2>2, <2>5
<1>5. QED
  BY <1>3, <1>4 DEF I

\* What depends on the files and the listing only.
LEMMA Standing ==
  ASSUME files' = files, report' = report
  PROVE  /\ FilesOK => FilesOK'
         /\ Listed => Listed'
         /\ R!Places' = R!Places
         /\ \A n : (R!OneTest(n))' <=> R!OneTest(n)
         /\ \A k : Whole(k)' <=> Whole(k)
         /\ \A p : (R!EndedLast(p))' <=> R!EndedLast(p)
<1>1. R!Places' = R!Places
  BY DEF R!Places
<1>2. FilesOK => FilesOK'
  BY DEF FilesOK, R!Files
<1>3. Listed => Listed'
  BY <1>1 DEF Listed
<1>4. \A n : (R!OneTest(n))' <=> R!OneTest(n)
  BY <1>1 DEF R!OneTest, R!OneId, R!Named
<1>5. \A k : Whole(k)' <=> Whole(k)
  BY DEF Whole, R!Given
<1>6. \A p : (R!EndedLast(p))' <=> R!EndedLast(p)
  BY <1>1 DEF R!EndedLast
<1>7. QED
  BY <1>1, <1>2, <1>3, <1>4, <1>5, <1>6

LEMMA StoreKeeps ==
  ASSUME ResultsInv, NEW skipped \in SUBSET R!Places, NEW unparsed \in BOOLEAN,
         NEW lost \in BOOLEAN, R!StoreEntries(skipped, unparsed, lost)
  PROVE  ResultsInv'
<1> DEFINE E == {i \in DOMAIN report : report[i].of \notin skipped}
           all == [p \in R!Places |-> p]
           parsed == IF unparsed THEN << >> ELSE all
           I == R!Inserted(parsed, E)
           file(i) == files[report[i].of]
<1>1. /\ at = "published" /\ files' = files /\ report' = report
      /\ rows' = IF lost THEN rows ELSE I
      /\ raw' = parsed /\ at' = IF unparsed THEN "done" ELSE "stored"
      /\ failed' = {f \in RowFaults : \/ f = "entry" /\ skipped # {}
                                      \/ f = "parse" /\ unparsed
                                      \/ f = "insert" /\ lost}
      /\ skipped # {} => "entry" \in RowFaults
      /\ unparsed => "parse" \in RowFaults
      /\ lost => "insert" \in RowFaults
  BY DEF R!StoreEntries
<1>2. FilesOK /\ Listed /\ DOMAIN rows = {} /\ E \in SUBSET DOMAIN report
  BY <1>1 DEF ResultsInv
<1>3. /\ FilesOK' /\ Listed' /\ R!Places' = R!Places
      /\ \A n : (R!OneTest(n))' <=> R!OneTest(n)
      /\ \A k : Whole(k)' <=> Whole(k)
      /\ \A p : (R!EndedLast(p))' <=> R!EndedLast(p)
  BY <1>1, <1>2, Standing
<1>4. /\ "entry" \in failed' <=> skipped # {}
      /\ "parse" \in failed' <=> unparsed
      /\ "insert" \in failed' <=> lost
  BY <1>1
<1>5. parsed \in Parses
  BY DEF Parses
<1>6. IsOfEntries(I, parsed, E)
  BY <1>2, InsertedRows
<1> HIDE DEF I, parsed, E
\* Every row is of an entry.
<1>7. ASSUME NEW k \in DOMAIN rows'
      PROVE  \E i \in E : /\ R!EntryKey(parsed, E, i) = k /\ R!Stands(parsed, E, i)
                          /\ rows'[k] = R!FromEntry(report[i].of) /\ ~lost /\ k \in DOMAIN I
  BY <1>1, <1>2, <1>6 DEF IsOfEntries
<1>8. \A k \in DOMAIN rows' : HasFields(rows'[k]) /\ rows'[k].text = R!Nothing
  BY <1>7, EntryFields
<1>9. ASSUME NEW n \in TestNames, R!OneTest(n)
      PROVE  /\ OneRowAt(n)'
             /\ (R!Rows(n))' = {} => RowLost'
  <2>0. /\ \A k, l \in DOMAIN I : I[k].name = n /\ I[l].name = n => k = l
        /\ E = DOMAIN report => \E k \in DOMAIN I : I[k].name = n
    BY <1>2, <1>5, <1>9, OneTestInserted DEF I
  <2>1. CASE lost
    BY <1>1, <1>2, <1>4, <2>1 DEF OneRowAt, R!Rows, RowLost
  <2>2. CASE ~lost
    <3>1. rows' = I
      BY <1>1, <2>2
    <3>2. OneRowAt(n)'
      BY <2>0, <3>1 DEF OneRowAt, R!Rows
    <3>3. skipped = {} => E = DOMAIN report
      BY DEF E
    <3>4. skipped = {} => (R!Rows(n))' # {}
      BY <2>0, <3>1, <3>3 DEF R!Rows
    <3>5. QED
      BY <1>4, <3>2, <3>4 DEF RowLost
  <2>3. QED
    BY <2>1, <2>2
<1>10. CASE unparsed
  <2>1. at' = "done" /\ "parse" \in failed'
    BY <1>1, <1>4, <1>10
  <2>2. BothOK'
    BY <1>3, <1>9, <2>1 DEF BothOK, NeitherKept, TextLost
  <2>3. QED
    BY <1>3, <1>8, <2>1, <2>2 DEF ResultsInv
<1>11. CASE ~unparsed
  <2>1. at' = "stored" /\ parsed = all /\ raw' = all
    BY <1>1, <1>11 DEF parsed
  <2>2. ASSUME NEW k \in DOMAIN rows', NEW p \in R!Places, k.id = files[p].id, k.id # R!NoId
        PROVE  rows'[k].name = files[p].name
    <3>1. PICK i \in E : R!EntryKey(parsed, E, i) = k /\ rows'[k] = R!FromEntry(report[i].of)
      BY <1>7
    <3>2. R!AdoptedId(parsed, E, i) = files[p].id
      BY <2>2, <3>1 DEF R!EntryKey, R!Key
    <3>3. file(i).name = files[p].name
      BY <1>2, <1>5, <2>2, <3>2, AdoptsName
    <3>4. QED
      BY <3>1, <3>3, EntryFields
  <2>3. ASSUME NEW n \in TestNames, R!OneTest(n), NEW k \in DOMAIN rows', rows'[k].name = n,
               NEW p \in R!Places, files[p].name = n
        PROVE  k = R!Key(files[p].id, 0)
    <3>1. PICK i \in E : R!EntryKey(parsed, E, i) = k /\ rows'[k] = R!FromEntry(report[i].of)
      BY <1>7
    <3>2. file(i).name = n /\ report[i].of \in R!Places
      BY <1>2, <2>3, <3>1, EntryFields DEF Listed
    <3>3. R!AdoptedId(parsed, E, i) = file(i).id
      BY <1>2, <2>1, <2>3, <3>2, OneTestAdopts
    <3>4. file(i).id = files[p].id /\ files[p].id # R!NoId
      BY <1>2, <2>3, <3>2, OneTestIs
    <3>5. QED
      BY <3>1, <3>3, <3>4 DEF R!EntryKey, R!Key
  <2>4. ASSUME failed' = {}, NEW k \in DOMAIN rows', Whole(k)
        PROVE  R!EndedLast(rows'[k].status)
    <3>1. E = DOMAIN report
      BY <1>4, <2>4 DEF E
    <3>2. PICK i \in E : /\ R!EntryKey(parsed, E, i) = k /\ R!Stands(parsed, E, i)
                         /\ rows'[k] = R!FromEntry(report[i].of)
      BY <1>7
    <3>3. R!EndedLast(report[i].of)
      BY <1>2, <2>1, <2>4, <3>1, <3>2, StandsLast
    <3>4. QED
      BY <3>2, <3>3, EntryFields
  <2>5. \A n \in TestNames : R!OneTest(n) => OneKey(n)'
    BY <1>3, <1>1, <2>3 DEF OneKey, R!Rows, R!Key, R!NoId
  <2>6. EntriesOK'
    <3>1. raw' = [p \in R!Places' |-> p]
      BY <1>3, <2>1
    <3>2. \A k \in DOMAIN rows', p \in R!Places' :
            k.id = files'[p].id /\ k.id # R!NoId => rows'[k].name = files'[p].name
      BY <1>1, <1>3, <2>2
    <3>3. \A n \in TestNames : (R!OneTest(n))' =>
            OneKey(n)' /\ ((R!Rows(n))' = {} => RowLost')
      BY <1>3, <1>9, <2>5
    <3>4. failed' = {} => \A k \in DOMAIN rows' : Whole(k)' => (R!EndedLast(rows[k].status))'
      <4>1. files' = files /\ R!Places' = R!Places /\ \A k : Whole(k)' <=> Whole(k)
        BY <1>1, <1>3
      <4>2. QED
        BY <2>4, <4>1 DEF R!EndedLast
    <3>5. QED
      BY <1>8, <3>1, <3>2, <3>3, <3>4 DEF EntriesOK, R!Nothing, R!NoId
  <2>7. QED
    BY <1>3, <1>8, <2>1, <2>6 DEF ResultsInv
<1>12. QED
  BY <1>10, <1>11

-----------------------------------------------------------------------------
(* The files. *)

\* dedupeResultsByHistoryID: a group has a file that stands for it, and it
\* ended last.
LEMMA SurvivorIs ==
  ASSUME FilesOK, R!ToSet(raw) = R!Places, NEW p \in R!Places, files[p].id # R!NoId
  PROVE  \E q \in R!Deduped : files[q].id = files[p].id
<1> DEFINE S == R!Siblings(p)
           f == [q \in S |-> files[q].stop]
<1>1. PICK N \in Nat : R!Places = 1 .. N
  BY PlacesAre
<1>2. S \in SUBSET (1 .. N) /\ p \in S /\ \A q \in S : f[q] \in Nat /\ files[q].id = files[p].id
  BY <1>1, FileFacts DEF R!Siblings
<1>3. PICK q \in S : \A r \in S : f[r] < f[q] \/ (f[r] = f[q] /\ q <= r)
  <2> HIDE DEF S, f
  <2>1. QED
    BY <1>2, FirstOfLast
<1>4. R!Siblings(q) = S
  BY <1>2 DEF R!Siblings
<1>5. R!Survives(q)
  BY <1>3, <1>4 DEF R!Survives
<1>6. QED
  BY <1>1, <1>2, <1>5 DEF R!Deduped

LEMMA SurvivorsEndedLast ==
  ASSUME FilesOK, R!ToSet(raw) = R!Places, NEW p \in R!Deduped, files[p].id # R!NoId
  PROVE  p \in R!Places /\ R!EndedLast(p)
<1>1. p \in R!Places /\ R!Survives(p)
  BY DEF R!Deduped
<1>2. ASSUME NEW q \in R!Places, files[q].id = files[p].id
      PROVE  files[q].stop <= files[p].stop
  <2>1. q \in R!Siblings(p)
    BY <1>2 DEF R!Siblings
  <2>2. files[q].stop \in Nat /\ files[p].stop \in Nat
    BY <1>1, FileFacts
  <2>3. QED
    BY <1>1, <2>1, <2>2 DEF R!Survives
<1>3. QED
  BY <1>1, <1>2 DEF R!EndedLast

LEMMA EnrichedFields ==
  ASSUME \A k \in DOMAIN rows : HasFields(rows[k]), NEW p, NEW row,
         row = IF R!FileKey(p) \in DOMAIN rows THEN rows[R!FileKey(p)] ELSE R!FromEntry(p)
  PROVE  LET new == R!EnrichedRow(p) IN
         HasFields(new) /\ new.name = row.name /\ new.status = row.status /\ new.text = p
<1> DEFINE tries == IF files[p].id = R!NoId THEN << >> ELSE R!Attempts(p)
           rich  == files[p].rich \/ tries # << >>
<1>1. R!EnrichedRow(p) = [row EXCEPT !.text = p, !.rich = rich, !.attempts = tries]
  BY DEF R!EnrichedRow
<1>2. HasFields(row)
  BY EntryFields
<1> HIDE DEF tries, rich
<1>3. QED
  BY <1>1, <1>2 DEF HasFields

LEMMA EnrichKeeps ==
  ASSUME ResultsInv, NEW lost \in BOOLEAN, R!Enrich(lost)
  PROVE  /\ ResultsInv'
         /\ DOMAIN rows \subseteq DOMAIN rows'
         /\ \A k \in DOMAIN rows : rows'[k].name = rows[k].name
<1> DEFINE written == {R!FileKey(p) : p \in R!Deduped}
           writer(k) == CHOOSE p \in R!Deduped : R!FileKey(p) = k
<1>1. /\ at = "stored" /\ at' = "done" /\ files' = files /\ report' = report
      /\ rows' = IF lost THEN rows ELSE R!Enriched
      /\ failed' = failed \cup IF lost THEN {"enrich"} ELSE {}
  BY DEF R!Enrich
<1>2. FilesOK /\ Listed /\ EntriesOK /\ \A k \in DOMAIN rows : HasFields(rows[k])
  BY <1>1 DEF ResultsInv
<1>3. /\ FilesOK' /\ Listed' /\ R!Places' = R!Places
      /\ \A n : (R!OneTest(n))' <=> R!OneTest(n)
      /\ \A k : Whole(k)' <=> Whole(k)
      /\ \A p : (R!EndedLast(p))' <=> R!EndedLast(p)
  BY <1>1, <1>2, Standing
<1>4. /\ R!ToSet(raw) = R!Places
      /\ \A k \in DOMAIN rows : rows[k].text = R!Nothing
      /\ \A k \in DOMAIN rows, p \in R!Places :
           k.id = files[p].id /\ k.id # R!NoId => rows[k].name = files[p].name
      /\ \A n \in TestNames : R!OneTest(n) => OneKey(n) /\ (R!Rows(n) = {} => RowLost)
      /\ failed = {} => \A k \in DOMAIN rows : Whole(k) => R!EndedLast(rows[k].status)
  BY <1>2, ParsedArePlaces DEF EntriesOK
<1>5. CASE lost
  <2>1. rows' = rows /\ "enrich" \in failed' /\ failed \subseteq failed'
    BY <1>1, <1>5
  <2>2. ASSUME NEW n \in TestNames, R!OneTest(n)
        PROVE  OneRowAt(n) /\ (R!Rows(n) = {} => NeitherKept')
    <3>1. PICK i \in DOMAIN report : files[report[i].of].name = n
      BY <1>2, <2>2, OneTestIs
    <3>2. report[i].of \in R!Places
      BY <1>2 DEF Listed
    <3>3. OneRowAt(n)
      BY <1>4, <2>2, <3>1, <3>2 DEF OneKey, OneRowAt
    <3>4. QED
      BY <1>4, <2>1, <2>2, <3>3 DEF RowLost, NeitherKept, TextLost
  <2>3. BothOK'
    BY <1>3, <2>1, <2>2 DEF BothOK, OneRowAt, R!Rows
  <2>4. QED
    BY <1>1, <1>2, <1>3, <2>1, <2>3 DEF ResultsInv
<1>6. CASE ~lost
  <2>1. /\ DOMAIN rows' = DOMAIN rows \cup written
        /\ \A k \in DOMAIN rows' :
             rows'[k] = IF k \in written THEN R!EnrichedRow(writer(k)) ELSE rows[k]
        /\ failed' = failed
    BY <1>1, <1>6 DEF R!Enriched
  <2>2. \A k \in written : writer(k) \in R!Deduped /\ R!FileKey(writer(k)) = k
    OBVIOUS
  <2>3. \A p \in R!Deduped : p \in R!Places
    BY <1>4 DEF R!Deduped
  <2> HIDE DEF writer
  <2>4. ASSUME NEW k \in written
        PROVE  LET p == writer(k)
                   row == IF k \in DOMAIN rows THEN rows[k] ELSE R!FromEntry(p)
               IN  /\ HasFields(rows'[k]) /\ rows'[k].name = row.name
                   /\ rows'[k].status = row.status /\ rows'[k].text = p
                   /\ p \in R!Deduped /\ p \in R!Places
                   /\ k = R!Key(files[p].id, MaxFiles + p)
    <3> DEFINE p == writer(k)
               row == IF k \in DOMAIN rows THEN rows[k] ELSE R!FromEntry(p)
    <3>1. R!FileKey(p) = k /\ p \in R!Deduped /\ p \in R!Places
      BY <2>2, <2>3
    <3>2. row = IF R!FileKey(p) \in DOMAIN rows THEN rows[R!FileKey(p)] ELSE R!FromEntry(p)
      BY <3>1
    <3>3. rows'[k] = R!EnrichedRow(p)
      BY <2>1
    <3> HIDE DEF p, row
    <3>4. HasFields(rows'[k]) /\ rows'[k].name = row.name /\ rows'[k].status = row.status
          /\ rows'[k].text = p
      BY <1>2, <3>2, <3>3, EnrichedFields
    <3>5. QED
      BY <3>1, <3>4 DEF p, row, R!FileKey
  <2>5. \A k \in DOMAIN rows : k \in DOMAIN rows' /\ rows'[k].name = rows[k].name
    BY <2>1, <2>4
  <2>6. \A k \in DOMAIN rows' : HasFields(rows'[k])
    BY <1>2, <2>1, <2>4
  <2>7. ASSUME NEW n \in TestNames, R!OneTest(n)
        PROVE  OneRowAt(n)' /\ (R!Rows(n))' # {}
    <3>1. PICK i \in DOMAIN report : files[report[i].of].name = n
      BY <1>2, <2>7, OneTestIs
    <3> DEFINE o == report[i].of
    <3>2. o \in R!Places /\ files[o].name = n
      BY <1>2, <3>1 DEF Listed
    <3> HIDE DEF o
    <3>3. \A p \in R!Places : files[p].name = n => files[p].id = files[o].id /\ files[o].id # R!NoId
      BY <1>2, <2>7, <3>2, OneTestIs
    <3>4. ASSUME NEW k \in DOMAIN rows', rows'[k].name = n
          PROVE  k = R!Key(files[o].id, 0)
      <4>1. CASE k \in DOMAIN rows
        BY <1>4, <2>5, <2>7, <3>2, <3>4, <4>1 DEF OneKey, R!Rows
      <4>2. CASE k \notin DOMAIN rows
        <5>1. k \in written
          BY <2>1, <4>2
        <5>2. PICK p \in R!Places : files[p].name = n /\ k = R!Key(files[p].id, MaxFiles + p)
          BY <2>4, <3>4, <4>2, <5>1, EntryFields
        <5>3. QED
          BY <3>3, <5>2 DEF R!Key
      <4>3. QED
        BY <4>1, <4>2
    <3>5. PICK q \in R!Deduped : files[q].id = files[o].id
      BY <1>2, <1>4, <3>2, <3>3, SurvivorIs
    <3> DEFINE k == R!FileKey(q)
    <3>6. k \in written /\ k \in DOMAIN rows' /\ k.id = files[o].id
      BY <2>1, <3>5 DEF R!FileKey, R!Key
    <3> HIDE DEF k
    <3>7. rows'[k].name = n
      <4>1. CASE k \in DOMAIN rows
        BY <1>4, <2>5, <3>2, <3>3, <3>6, <4>1
      <4>2. CASE k \notin DOMAIN rows
        <5>1. PICK p \in R!Places : /\ rows'[k].name = files[p].name
                                    /\ k = R!Key(files[p].id, MaxFiles + p)
          BY <2>4, <3>6, <4>2, EntryFields
        <5>2. files[p].id = files[o].id
          BY <3>6, <5>1 DEF R!Key
        <5>3. QED
          BY <1>2, <3>2, <3>3, <5>1, <5>2, SameName
      <4>3. QED
        BY <4>1, <4>2
    <3>8. QED
      BY <3>4, <3>6, <3>7 DEF OneRowAt, R!Rows
  <2>8. ASSUME failed' = {}, NEW k \in DOMAIN rows', Whole(k)
        PROVE  /\ R!EndedLast(rows'[k].status)
               /\ rows'[k].text # R!Nothing => R!EndedLast(rows'[k].text)
    <3>1. CASE k \notin written
      BY <1>4, <2>1, <2>8, <3>1
    <3>2. CASE k \in written
      <4> DEFINE p == writer(k)
      <4>1. /\ rows'[k].status = IF k \in DOMAIN rows THEN rows[k].status ELSE p
            /\ rows'[k].text = p /\ p \in R!Deduped /\ files[p].id = k.id
        BY <2>4, <3>2, EntryFields DEF R!Key
      <4>2. R!EndedLast(p)
        BY <1>2, <1>4, <2>8, <4>1, SurvivorsEndedLast DEF Whole
      <4>3. QED
        BY <1>4, <2>1, <2>8, <4>1, <4>2
    <3>3. QED
      BY <3>1, <3>2
  <2>9. BothOK'
    <3>1. \A n \in TestNames : (R!OneTest(n))' =>
            OneRowAt(n)' /\ ((R!Rows(n))' = {} => NeitherKept')
      BY <1>3, <2>7
    <3>2. failed' = {} => \A k \in DOMAIN rows' : Whole(k)' =>
             /\ (R!EndedLast(rows[k].status))'
             /\ rows'[k].text # R!Nothing => (R!EndedLast(rows[k].text))'
      BY <1>1, <1>3, <2>8 DEF R!EndedLast
    <3>3. QED
      BY <3>1, <3>2 DEF BothOK, R!Nothing
  <2>10. QED
    BY <1>1, <1>3, <2>5, <2>6, <2>9 DEF ResultsInv
<1>7. QED
  BY <1>5, <1>6

-----------------------------------------------------------------------------
(* The clean-up and the theorems. *)

\* DeleteShellTwinBatch: what it deletes has a richer twin, which no batch
\* deletes.
LEMMA CleanSpares ==
  ASSUME NEW gone, R!Clean(gone)
  PROVE  /\ DOMAIN rows' = DOMAIN rows \ gone
         /\ \A k \in DOMAIN rows' : rows'[k] = rows[k]
         /\ \A k \in gone : ~rows[k].rich
         /\ \A n : R!Rows(n) # {} => (R!Rows(n))' # {}
<1>1. gone \subseteq R!Shells /\ rows' = [k \in DOMAIN rows \ gone |-> rows[k]]
  BY DEF R!Clean
<1>2. DOMAIN rows' = DOMAIN rows \ gone /\ \A k \in DOMAIN rows' : rows'[k] = rows[k]
  BY <1>1
<1>3. \A k \in gone : ~rows[k].rich
  BY <1>1 DEF R!Shells
<1>4. ASSUME NEW n, NEW k \in R!Rows(n)
      PROVE  \E l \in DOMAIN rows' : rows'[l].name = n
  <2>1. CASE k \in gone
    <3>1. PICK s \in DOMAIN rows : R!RicherTwin(k, s)
      BY <1>1, <2>1 DEF R!Shells
    <3>2. rows[s].name = n /\ s \notin gone
      BY <1>3, <1>4, <3>1 DEF R!RicherTwin, R!Rows
    <3>3. QED
      BY <1>2, <3>1, <3>2
  <2>2. CASE k \notin gone
    BY <1>2, <1>4, <2>2 DEF R!Rows
  <2>3. QED
    BY <2>1, <2>2
<1>5. \A n : R!Rows(n) # {} => (R!Rows(n))' # {}
  BY <1>4 DEF R!Rows
<1>6. QED
  BY <1>2, <1>3, <1>5

LEMMA CleanKeeps ==
  ASSUME ResultsInv, NEW gone, R!Clean(gone)
  PROVE  ResultsInv'
<1>1. /\ at' = at /\ files' = files /\ report' = report /\ raw' = raw /\ failed' = failed
  BY DEF R!Clean
<1>2. /\ DOMAIN rows' \subseteq DOMAIN rows
      /\ \A k \in DOMAIN rows' : rows'[k] = rows[k]
      /\ \A n : (R!Rows(n))' \subseteq R!Rows(n) /\ (R!Rows(n) # {} => (R!Rows(n))' # {})
  BY CleanSpares DEF R!Rows
<1>3. /\ FilesOK => FilesOK'
      /\ Listed => Listed'
      /\ R!Places' = R!Places
      /\ \A n : (R!OneTest(n))' <=> R!OneTest(n)
      /\ \A k : Whole(k)' <=> Whole(k)
      /\ \A p : (R!EndedLast(p))' <=> R!EndedLast(p)
  BY <1>1, Standing
<1>4. RowLost' = RowLost /\ NeitherKept' = NeitherKept
  BY <1>1 DEF RowLost, NeitherKept, TextLost
<1>5. ASSUME EntriesOK PROVE EntriesOK'
  <2>1. /\ raw' = [p \in R!Places' |-> p]
        /\ \A k \in DOMAIN rows' : rows'[k].text = R!Nothing
        /\ \A k \in DOMAIN rows', p \in R!Places' :
             k.id = files'[p].id /\ k.id # R!NoId => rows'[k].name = files'[p].name
    BY <1>1, <1>2, <1>3, <1>5 DEF EntriesOK
  <2>2. \A n \in TestNames : (R!OneTest(n))' =>
          OneKey(n)' /\ ((R!Rows(n))' = {} => RowLost')
    <3>1. ASSUME NEW n \in TestNames, R!OneTest(n)
          PROVE  OneKey(n)' /\ ((R!Rows(n))' = {} => RowLost')
      <4>1. OneKey(n) /\ (R!Rows(n) = {} => RowLost)
        BY <1>5, <3>1 DEF EntriesOK
      <4>2. OneKey(n)'
        BY <1>1, <1>2, <1>3, <4>1 DEF OneKey, R!Key, R!NoId
      <4>3. QED
        BY <1>2, <1>4, <4>1, <4>2
    <3>2. QED
      BY <1>3, <3>1
  <2>3. failed' = {} => \A k \in DOMAIN rows' : Whole(k)' => (R!EndedLast(rows[k].status))'
    <3>1. ASSUME failed' = {}, NEW k \in DOMAIN rows', Whole(k)
          PROVE  R!EndedLast(rows'[k].status)
      BY <1>1, <1>2, <1>5, <3>1 DEF EntriesOK
    <3>2. QED
      BY <1>1, <1>3, <3>1 DEF R!EndedLast
  <2>4. QED
    BY <2>1, <2>2, <2>3 DEF EntriesOK, R!Nothing, R!NoId
<1>6. ASSUME BothOK PROVE BothOK'
  <2>1. \A n \in TestNames : (R!OneTest(n))' =>
          OneRowAt(n)' /\ ((R!Rows(n))' = {} => NeitherKept')
    <3>1. ASSUME NEW n \in TestNames, R!OneTest(n)
          PROVE  OneRowAt(n)' /\ ((R!Rows(n))' = {} => NeitherKept')
      <4>1. OneRowAt(n) /\ (R!Rows(n) = {} => NeitherKept)
        BY <1>6, <3>1 DEF BothOK
      <4>2. OneRowAt(n)'
        BY <1>2, <4>1 DEF OneRowAt
      <4>3. QED
        BY <1>2, <1>4, <4>1, <4>2
    <3>2. QED
      BY <1>3, <3>1
  <2>2. failed' = {} => \A k \in DOMAIN rows' : Whole(k)' =>
           /\ (R!EndedLast(rows[k].status))'
           /\ rows'[k].text # R!Nothing => (R!EndedLast(rows[k].text))'
    <3>1. ASSUME failed' = {}, NEW k \in DOMAIN rows', Whole(k)
          PROVE  /\ R!EndedLast(rows'[k].status)
                 /\ rows'[k].text # R!Nothing => R!EndedLast(rows'[k].text)
      BY <1>1, <1>2, <1>6, <3>1 DEF BothOK
    <3>2. QED
      BY <1>1, <1>3, <3>1 DEF R!EndedLast
  <2>3. QED
    BY <2>1, <2>2 DEF BothOK, R!Nothing
<1>7. QED
  BY <1>1, <1>2, <1>3, <1>5, <1>6 DEF ResultsInv, HasFields

LEMMA ResultsStart == R!Init => ResultsInv
<1> SUFFICES ASSUME R!Init PROVE ResultsInv
  OBVIOUS
<1>1. PICK n \in 1 .. MaxFiles : files \in [1 .. n -> R!Files]
  BY DEF R!Init
<1>2. FilesOK
  BY <1>1, RowConstants DEF FilesOK
<1>3. at = "uploaded" /\ DOMAIN rows = {}
  BY DEF R!Init
<1>4. QED
  BY <1>2, <1>3 DEF ResultsInv

LEMMA PublishKeeps ==
  ASSUME ResultsInv, R!Publish
  PROVE  ResultsInv'
<1>1. at = "uploaded" /\ at' = "published" /\ files' = files /\ rows' = rows
  BY DEF R!Publish
<1>2. FilesOK' /\ Listed'
  BY <1>1, PublishLists DEF ResultsInv, FilesOK, R!Files
<1>3. QED
  BY <1>1, <1>2 DEF ResultsInv, HasFields

LEMMA NothingKeeps ==
  ASSUME ResultsInv, R!StoreNothing
  PROVE  ResultsInv'
<1>1. /\ at = "published" /\ at' = "done" /\ failed' = {"listing"}
      /\ files' = files /\ report' = report /\ rows' = rows
  BY DEF R!StoreNothing
<1>2. FilesOK' /\ Listed' /\ DOMAIN rows' = {}
  BY <1>1, Standing DEF ResultsInv
<1>3. BothOK'
  BY <1>1, <1>2 DEF BothOK, OneRowAt, R!Rows, NeitherKept
<1>4. QED
  BY <1>1, <1>2, <1>3 DEF ResultsInv

LEMMA ResultsStep == ResultsInv /\ [R!Next]_rowVars => ResultsInv'
<1> SUFFICES ASSUME ResultsInv, [R!Next]_rowVars PROVE ResultsInv'
  OBVIOUS
<1>1. CASE UNCHANGED rowVars
  <2>1. /\ at' = at /\ files' = files /\ report' = report /\ raw' = raw /\ rows' = rows
        /\ failed' = failed
    BY <1>1 DEF rowVars
  <2>2. /\ FilesOK => FilesOK'
        /\ Listed => Listed'
        /\ R!Places' = R!Places
        /\ \A n : (R!OneTest(n))' <=> R!OneTest(n)
        /\ \A k : Whole(k)' <=> Whole(k)
        /\ \A p : (R!EndedLast(p))' <=> R!EndedLast(p)
    BY <2>1, Standing
  <2>3. EntriesOK => EntriesOK'
    <3> SUFFICES ASSUME EntriesOK PROVE EntriesOK'
      OBVIOUS
    <3>1. /\ raw' = [p \in R!Places' |-> p]
          /\ \A k \in DOMAIN rows' : rows'[k].text = R!Nothing
          /\ \A k \in DOMAIN rows', p \in R!Places' :
               k.id = files'[p].id /\ k.id # R!NoId => rows'[k].name = files'[p].name
      BY <2>1, <2>2 DEF EntriesOK
    <3>2. \A n : OneKey(n)' <=> OneKey(n)
      BY <2>1, <2>2 DEF OneKey, R!Rows, R!Key, R!NoId
    <3>3. \A n : (R!Rows(n))' = R!Rows(n)
      BY <2>1 DEF R!Rows
    <3>4. RowLost' = RowLost
      BY <2>1 DEF RowLost
    <3>5. \A n \in TestNames : (R!OneTest(n))' =>
            OneKey(n)' /\ ((R!Rows(n))' = {} => RowLost')
      BY <2>2, <3>2, <3>3, <3>4 DEF EntriesOK
    <3>6. failed' = {} => \A k \in DOMAIN rows' : Whole(k)' => (R!EndedLast(rows[k].status))'
      BY <2>1, <2>2 DEF EntriesOK, R!EndedLast
    <3>7. QED
      BY <3>1, <3>5, <3>6 DEF EntriesOK, R!Nothing, R!NoId
  <2>4. BothOK => BothOK'
    BY <2>1, <2>2 DEF BothOK, OneRowAt, R!Rows, R!Nothing, NeitherKept, RowLost, TextLost,
       R!EndedLast
  <2>5. QED
    BY <2>1, <2>2, <2>3, <2>4 DEF ResultsInv, HasFields
<1>2. CASE R!Next
  BY <1>2, PublishKeeps, NothingKeeps, StoreKeeps, EnrichKeeps, CleanKeeps DEF R!Next
<1>3. QED
  BY <1>1, <1>2

LEMMA RowSteps == [AllNext]_allVars => [R!Next]_rowVars
  BY DEF AllNext, allVars, rowVars

LEMMA ResultsAlways == AllSpec => []ResultsInv
<1>1. AllInit => ResultsInv
  BY ResultsStart DEF AllInit
<1>2. ResultsInv /\ [AllNext]_allVars => ResultsInv'
  BY ResultsStep, RowSteps
<1>3. QED
  BY <1>1, <1>2, PTL DEF AllSpec

LEMMA RowsAreRight == ResultsInv => RowPerTest
<1> SUFFICES ASSUME ResultsInv, at = "done" PROVE R!OneRow /\ R!LastAttemptCounts
  BY DEF RowPerTest, R!RowPerTest, R!OneRow, R!LastAttemptCounts
<1>1. BothOK
  BY DEF ResultsInv
<1>2. R!LastAttemptCounts
  BY <1>1 DEF BothOK, Whole, R!LastAttemptCounts
<1>3. ASSUME NEW n \in TestNames, R!OneTest(n)
      PROVE  /\ R!Cardinality(R!Rows(n)) <= 1
             /\ R!Rows(n) = {} => NeitherKept
  <2>1. OneRowAt(n) /\ (R!Rows(n) = {} => NeitherKept)
    BY <1>1, <1>3 DEF BothOK
  <2>2. CASE R!Rows(n) = {}
    BY <2>1, <2>2, SameCount, FS_EmptySet
  <2>3. CASE R!Rows(n) # {}
    <3>1. PICK k : R!Rows(n) = {k}
      BY <2>1, <2>3 DEF OneRowAt
    <3>2. R!Cardinality(R!Rows(n)) = 1
      BY <3>1, SameCount, FS_Singleton
    <3>3. QED
      BY <2>3, <3>2
  <2>4. QED
    BY <2>2, <2>3
<1>4. R!OneRow
  BY <1>3 DEF R!OneRow, TestNames, NeitherKept, RowLost, TextLost
<1>5. QED
  BY <1>2, <1>4

\* The rows of a build (InsertBatch, InsertBatchFull): a test has one row
\* however the ids of the report and of the files differ, unless it failed for
\* both, and with nothing failed its status and text are of an attempt that
\* ended last.
THEOREM RowsPerTest == AllSpec => []RowPerTest
<1>1. QED
  BY ResultsAlways, RowsAreRight, PTL

\* DeleteShellTwinBatch never takes the last row of a name, nor one that has
\* text, labels, steps or attempts; and no other step takes any.
THEOREM LastCopiesKept == AllSpec => LastCopyKept
<1> DEFINE Kept0 == /\ \A n \in {t.name : t \in RowTests} : R!Rows(n) # {} => (R!Rows(n))' # {}
                    /\ \A k \in DOMAIN rows : rows[k].rich => k \in DOMAIN rows'
<1>1. ResultsInv /\ [AllNext]_allVars => Kept0 \/ UNCHANGED R!vars
  <2> SUFFICES ASSUME ResultsInv, [R!Next]_rowVars PROVE Kept0 \/ UNCHANGED R!vars
    BY RowSteps
  <2>1. CASE UNCHANGED rowVars
    BY <2>1 DEF rowVars, R!vars
  <2>2. CASE R!Publish \/ R!StoreNothing
    BY <2>2 DEF R!Publish, R!StoreNothing, R!Rows
  <2>3. ASSUME NEW skipped \in SUBSET R!Places, NEW unparsed \in BOOLEAN, NEW lost \in BOOLEAN,
               R!StoreEntries(skipped, unparsed, lost)
        PROVE  Kept0
    <3>1. DOMAIN rows = {}
      BY <2>3 DEF R!StoreEntries, ResultsInv
    <3>2. QED
      BY <3>1 DEF R!Rows
  <2>4. ASSUME NEW lost \in BOOLEAN, R!Enrich(lost)
        PROVE  Kept0
    <3>1. DOMAIN rows \subseteq DOMAIN rows' /\ \A k \in DOMAIN rows : rows'[k].name = rows[k].name
      BY <2>4, EnrichKeeps
    <3>2. QED
      BY <3>1 DEF R!Rows
  <2>5. ASSUME NEW gone, R!Clean(gone)
        PROVE  Kept0
    BY <2>5, CleanSpares
  <2>6. QED
    BY <2>1, <2>2, <2>3, <2>4, <2>5 DEF R!Next
<1>2. QED
  BY <1>1, ResultsAlways, PTL DEF AllSpec, LastCopyKept, R!LastCopyKept

-----------------------------------------------------------------------------
(* Diagnosis, for any tests, names, ways to fail, branches, commits and    *)
(* builds that come meanwhile: what is called whole is whole, and what a   *)
(* confident verdict says of the history holds in the tables.              *)

LEMMA DiagnosisConstants ==
  /\ IsFiniteSet(Hists) /\ G!NoPattern \notin ServerErrors
  /\ Depth \in Nat /\ MaxCommits \in Nat
  /\ \A cap \in Caps : cap \in Nat /\ cap > 0
  BY RecordsAssumption DEF G!Assumption, G!IsFiniteSet, IsFiniteSet

LEMMA GCount == ASSUME NEW S PROVE G!Cardinality(S) = Cardinality(S)
  BY DEF G!Cardinality, Cardinality, G!IsFiniteSet, IsFiniteSet

LEMMA AtMostOne ==
  ASSUME NEW S, \A x, y \in S : x = y
  PROVE  IsFiniteSet(S) /\ Cardinality(S) \in Nat /\ Cardinality(S) <= 1
<1>1. CASE S = {}
  BY <1>1, FS_EmptySet
<1>2. CASE S # {}
  <2>1. PICK x : S = {x}
    BY <1>2
  <2>2. QED
    BY <2>1, FS_Singleton
<1>3. QED
  BY <1>1, <1>2

LEMMA AtLeastTwo ==
  ASSUME NEW S, IsFiniteSet(S), NEW x \in S, NEW y \in S, x # y
  PROVE  Cardinality(S) \in Nat /\ Cardinality(S) >= 2
<1>1. Cardinality(S) \in Nat /\ Cardinality(S) # 0
  BY FS_CardinalityType, FS_EmptySet
<1>2. Cardinality(S) # 1
  BY FS_Singleton
<1>3. QED
  BY <1>1, <1>2

LEMMA LargestIs ==
  ASSUME NEW N \in Nat, NEW S \in SUBSET (1 .. N), S # {}
  PROVE  \E x \in S : \A y \in S : y <= x
<1> DEFINE f == [i \in S |-> 0]
<1>1. PICK x \in S : \A y \in S : f[y] < f[x] \/ (f[y] = f[x] /\ y <= x)
  BY LastOfLast
<1>2. QED
  BY <1>1

LEMMA MinIs ==
  ASSUME NEW S \in SUBSET Nat, S # {}
  PROVE  G!Min(S) \in S /\ G!Min(S) \in Nat
<1>1. \E x \in S : \A y \in S : x <= y
  BY LeastElement
<1>2. QED
  BY <1>1 DEF G!Min

-----------------------------------------------------------------------------
(* The builds. *)

RowSets == UNION {[H -> {"failed", "passed"}] : H \in SUBSET Hists}
Build   == [branch : Branches, commit : 0 .. MaxCommits, rows : RowSets]

TestedOK == tested \in Seq(Build)

NewestBuild(b) == \A o \in G!SameLine(b) : o <= b

LEMMA BuildFacts ==
  ASSUME TestedOK
  PROVE  /\ Len(tested) \in Nat /\ G!Orders = 1 .. Len(tested)
         /\ \A o \in G!Orders : DOMAIN tested[o].rows \subseteq Hists
<1>1. Len(tested) \in Nat /\ G!Orders = 1 .. Len(tested) /\ \A o \in G!Orders : tested[o] \in Build
  BY DEF TestedOK, G!Orders
<1>2. ASSUME NEW rows0 \in RowSets PROVE DOMAIN rows0 \subseteq Hists
  <2>1. PICK H \in SUBSET Hists : rows0 \in [H -> {"failed", "passed"}]
    BY DEF RowSets
  <2>2. QED
    BY <2>1
<1>3. \A o \in G!Orders : tested[o].rows \in RowSets
  BY <1>1 DEF Build
<1>4. QED
  BY <1>1, <1>2, <1>3

LEMMA IngestTested ==
  ASSUME TestedOK, NEW br \in Branches, NEW c \in 0 .. MaxCommits, NEW F, NEW A,
         G!Ingest(br, c, F, A)
  PROVE  /\ TestedOK' /\ way' = way /\ req' = req
         /\ Len(tested) \in Nat /\ G!Orders = 1 .. Len(tested)
         /\ G!Orders' = 1 .. Len(tested) + 1
         /\ \A o \in 1 .. Len(tested) : tested'[o] = tested[o]
<1> DEFINE H == {x \in Hists : FullName[x] \notin A}
           new == [branch |-> br, commit |-> c,
                   rows |-> [h \in H |-> IF FullName[h] \in F THEN "failed" ELSE "passed"]]
<1>1. tested' = Append(tested, new) /\ way' = way /\ req' = req
  BY DEF G!Ingest
<1>2. new \in Build
  <2>1. new.rows \in [H -> {"failed", "passed"}] /\ H \in SUBSET Hists
    OBVIOUS
  <2>2. new.rows \in RowSets
    BY <2>1 DEF RowSets
  <2>3. QED
    BY <2>2 DEF Build
<1> HIDE DEF new
<1>3. QED
  BY <1>1, <1>2 DEF TestedOK, G!Orders

\* A build that comes changes nothing of what an earlier one is compared with.
LEMMA IngestStands ==
  ASSUME TestedOK, NEW br \in Branches, NEW c \in 0 .. MaxCommits, NEW F, NEW A,
         G!Ingest(br, c, F, A), NEW b \in G!Orders
  PROVE  /\ TestedOK' /\ b \in G!Orders' /\ way' = way /\ req' = req
         /\ (G!Failing(b))' = G!Failing(b)
         /\ \A h : (G!LastGood(h, b))' = G!LastGood(h, b)
         /\ \A h : (G!FailedSince(h, b))' = G!FailedSince(h, b)
         /\ NewestBuild(b)' => NewestBuild(b)
<1> DEFINE N == Len(tested)
<1>1. way' = way /\ req' = req
  BY IngestTested
<1>3. /\ TestedOK' /\ N \in Nat /\ G!Orders = 1 .. N /\ G!Orders' = 1 .. N + 1
      /\ \A o \in 1 .. N : tested'[o] = tested[o]
  BY IngestTested
<1>4. b \in 1 .. N /\ b \in G!Orders'
  BY <1>3
<1>5. (G!Failing(b))' = G!Failing(b)
  BY <1>3, <1>4 DEF G!Failing
<1>6. (G!SameLine(b))' \cap (1 .. N) = G!SameLine(b)
  BY <1>3, <1>4 DEF G!SameLine
<1>7. \A h : /\ (G!Ran(h))' \cap (1 .. N) = G!Ran(h)
             /\ (G!Passed(h))' \cap (1 .. N) = G!Passed(h)
  BY <1>3 DEF G!Ran, G!Passed
<1>8. \A o \in G!Orders' : o < b => o \in 1 .. N
  BY <1>3, <1>4
<1>9. \A h : /\ (G!Ran(h))' \subseteq G!Orders' /\ (G!Passed(h))' \subseteq G!Orders'
             /\ (G!SameLine(b))' \subseteq G!Orders'
  BY DEF G!Ran, G!Passed, G!SameLine
<1>10. ASSUME NEW h
       PROVE  {o \in (G!Passed(h))' \cap (G!SameLine(b))' : o < b}
                = {o \in G!Passed(h) \cap G!SameLine(b) : o < b}
  BY <1>6, <1>7, <1>8, <1>9
<1>11. ASSUME NEW h
       PROVE  (G!LastGood(h, b))' = G!LastGood(h, b)
  <2> DEFINE newest(S) == IF S = {} THEN 0 ELSE CHOOSE o \in S : \A p \in S : p <= o
             good0 == {o \in G!Passed(h) \cap G!SameLine(b) : o < b}
             good1 == {o \in (G!Passed(h))' \cap (G!SameLine(b))' : o < b}
  <2>1. G!LastGood(h, b) = newest(good0)
    BY DEF G!LastGood
  <2>2. (G!LastGood(h, b))' = newest(good1)
    BY DEF G!LastGood
  <2>3. good0 = good1
    BY <1>10
  <2> HIDE DEF newest, good0, good1
  <2>4. QED
    BY <2>1, <2>2, <2>3
<1>12. \A h : (G!FailedSince(h, b))' = G!FailedSince(h, b)
  BY <1>6, <1>7, <1>8, <1>9, <1>11 DEF G!FailedSince
<1>13. NewestBuild(b)' => NewestBuild(b)
  BY <1>6 DEF NewestBuild
<1>14. QED
  BY <1>1, <1>3, <1>4, <1>5, <1>11, <1>12, <1>13

LEMMA LastGoodIs ==
  ASSUME TestedOK, NEW b \in G!Orders, NEW h
  PROVE  /\ G!LastGood(h, b) \in Nat
         /\ \A p \in G!Passed(h) \cap G!SameLine(b) : p < b => p <= G!LastGood(h, b)
<1> DEFINE good == {o \in G!Passed(h) \cap G!SameLine(b) : o < b}
<1>1. PICK N \in Nat : G!Orders = 1 .. N
  BY BuildFacts
<1>2. good \in SUBSET (1 .. N)
  BY <1>1 DEF G!SameLine
<1>3. CASE good = {}
  BY <1>3 DEF G!LastGood
<1>4. CASE good # {}
  <2>1. \E o \in good : \A p \in good : p <= o
    BY <1>2, <1>4, LargestIs
  <2>2. G!LastGood(h, b) \in good /\ \A p \in good : p <= G!LastGood(h, b)
    BY <1>4, <2>1 DEF G!LastGood
  <2>3. QED
    BY <1>2, <2>2
<1>5. QED
  BY <1>3, <1>4

LEMMA FailuresFinite ==
  ASSUME TestedOK, NEW b, NEW h
  PROVE  IsFiniteSet(G!FailedSince(h, b)) /\ Cardinality(G!FailedSince(h, b)) \in Nat
<1>1. PICK N \in Nat : G!Orders = 1 .. N
  BY BuildFacts
<1>2. G!FailedSince(h, b) \in SUBSET (1 .. N)
  BY <1>1 DEF G!FailedSince, G!SameLine
<1>3. IsFiniteSet(1 .. N)
  BY FS_Interval
<1>4. IsFiniteSet(G!FailedSince(h, b))
  BY <1>2, <1>3, FS_Subset
<1>5. QED
  BY <1>4, FS_CardinalityType

-----------------------------------------------------------------------------
(* The rows and the tests made of them. *)

Injective(s) == \A i, j \in DOMAIN s : s[i] = s[j] => i = j

LEMMA CutIs ==
  ASSUME NEW T, NEW s \in Seq(T), NEW n \in Nat
  PROVE  /\ G!Cut(s, n) \in Seq(T) /\ Len(G!Cut(s, n)) <= Len(s)
         /\ \A i \in DOMAIN G!Cut(s, n) : i \in DOMAIN s /\ G!Cut(s, n)[i] = s[i]
<1> DEFINE m == IF Len(s) > n THEN n ELSE Len(s)
<1>1. m \in Nat /\ m <= Len(s) /\ Len(s) \in Nat
  OBVIOUS
<1>2. G!Cut(s, n) = SubSeq(s, 1, m)
  BY DEF G!Cut
<1> HIDE DEF m
<1>3. /\ SubSeq(s, 1, m) \in Seq(T) /\ Len(SubSeq(s, 1, m)) = m
      /\ \A i \in 1 .. m : SubSeq(s, 1, m)[i] = s[i]
  BY <1>1
<1>4. QED
  BY <1>1, <1>2, <1>3

LEMMA ListingIs ==
  ASSUME TestedOK, NEW b \in G!Orders, NEW cap \in Caps, NEW rs \in G!Listings(b, cap)
  PROVE  rs \in Seq(G!Failing(b)) /\ Injective(rs)
<1> DEFINE F == G!Failing(b)
<1>1. PICK s \in G!SetToSeqs(F) : rs = G!Cut(s, G!Limit(cap))
  BY DEF G!Listings
<1>2. G!Limit(cap) \in Nat
  BY DiagnosisConstants DEF G!Limit
<1>3. IsFiniteSet(F)
  <2>1. F \subseteq Hists
    BY BuildFacts DEF G!Failing
  <2>2. QED
    BY <2>1, DiagnosisConstants, FS_Subset
<1> DEFINE n == Cardinality(F)
<1>4. n \in Nat
  BY <1>3, FS_CardinalityType
<1>5. s \in [1 .. n -> F] /\ \A i, j \in 1 .. n : i # j => s[i] # s[j]
  BY GCount DEF G!SetToSeqs
<1> HIDE DEF F, n
<1>6. s \in Seq(F) /\ Injective(s)
  BY <1>4, <1>5 DEF Injective
<1>7. /\ rs \in Seq(F) /\ \A i \in DOMAIN rs : i \in DOMAIN s /\ rs[i] = s[i]
  BY <1>1, <1>2, <1>6, CutIs
<1>8. QED
  BY <1>6, <1>7 DEF Injective, F

\* The places of the rows of a name.
LEMMA NameFacts ==
  ASSUME NEW N \in Nat, NEW rs, DOMAIN rs = 1 .. N, NEW i \in 1 .. N
  PROVE  /\ i \in G!SameName(rs, i) /\ G!SameName(rs, i) \in SUBSET Nat
         /\ G!Min(G!SameName(rs, i)) \in Nat
         /\ \A j \in 1 .. N : FullName[rs[i]] = FullName[rs[j]] =>
              /\ G!SameName(rs, i) = G!SameName(rs, j)
              /\ G!Said(rs, i) = G!Said(rs, j)
              /\ G!Survivor(rs, i) = G!Survivor(rs, j)
<1>1. i \in G!SameName(rs, i) /\ G!SameName(rs, i) \subseteq 1 .. N
  BY DEF G!SameName
<1>2. G!SameName(rs, i) \in SUBSET Nat
  BY <1>1
<1>3. G!Min(G!SameName(rs, i)) \in Nat
  BY <1>1, <1>2, MinIs
<1>4. ASSUME NEW j \in 1 .. N, FullName[rs[i]] = FullName[rs[j]]
      PROVE  /\ G!SameName(rs, i) = G!SameName(rs, j)
             /\ G!Said(rs, i) = G!Said(rs, j)
             /\ G!Survivor(rs, i) = G!Survivor(rs, j)
  <2>1. G!SameName(rs, i) = G!SameName(rs, j)
    BY <1>4 DEF G!SameName
  <2>2. G!Said(rs, i) = G!Said(rs, j)
    BY <2>1 DEF G!Said
  <2>3. QED
    BY <2>1, <2>2 DEF G!Survivor
<1>5. QED
  BY <1>1, <1>2, <1>3, <1>4

\* The turns of the rows that stay are the numbers from one.
LEMMA Turns ==
  ASSUME NEW N \in Nat, NEW rs, DOMAIN rs = 1 .. N
  PROVE  LET n == G!Cardinality(G!Kept(rs)) IN
         /\ n \in Nat
         /\ \A k \in 1 .. n : \E i \in G!Kept(rs) : G!Turn(rs, i) = k
<1> DEFINE K == G!Kept(rs)
           n == Cardinality(K)
           head(i) == G!Min(G!SameName(rs, i))
           ahead(i) == {j \in K : G!Before(rs, j, i)}
           turn == [i \in K |-> G!Turn(rs, i)]
<1>1. K \in SUBSET (1 .. N)
  BY DEF G!Kept
<1>2. IsFiniteSet(1 .. N)
  BY FS_Interval
<1>3. IsFiniteSet(K) /\ n \in Nat
  <2>1. IsFiniteSet(K)
    BY <1>1, <1>2, FS_Subset
  <2>2. QED
    BY <2>1, FS_CardinalityType
<1>4. \A i \in K : head(i) \in Nat /\ i \in Nat
  BY <1>1, NameFacts
<1>5. \A i, j \in K : G!Before(rs, i, j) <=> head(i) < head(j) \/ (head(i) = head(j) /\ i < j)
  BY DEF G!Before
<1> HIDE DEF K, head
<1>6. /\ \A i \in K : ~G!Before(rs, i, i)
      /\ \A i, j \in K : i # j => G!Before(rs, i, j) \/ G!Before(rs, j, i)
      /\ \A i, j, k \in K : G!Before(rs, i, j) /\ G!Before(rs, j, k) => G!Before(rs, i, k)
  BY <1>4, <1>5
<1>7. \A i \in K : G!Turn(rs, i) = Cardinality(ahead(i)) + 1
  BY GCount DEF G!Turn, K
<1>8. ASSUME NEW i \in K
      PROVE  /\ IsFiniteSet(ahead(i)) /\ Cardinality(ahead(i)) \in Nat
             /\ Cardinality(ahead(i)) < n
  <2>1. ahead(i) \in SUBSET K /\ i \notin ahead(i)
    BY <1>6
  <2> HIDE DEF ahead
  <2>2. /\ IsFiniteSet(ahead(i)) /\ Cardinality(ahead(i)) <= n
        /\ n = Cardinality(ahead(i)) => K = ahead(i)
    BY <1>3, <2>1, FS_Subset
  <2>3. Cardinality(ahead(i)) \in Nat
    BY <2>2, FS_CardinalityType
  <2>4. QED
    BY <1>3, <2>1, <2>2, <2>3
<1>9. ASSUME NEW i \in K, NEW j \in K, G!Before(rs, i, j)
      PROVE  Cardinality(ahead(i)) < Cardinality(ahead(j))
  <2>1. ahead(i) \in SUBSET ahead(j) /\ i \in ahead(j) /\ i \notin ahead(i)
    BY <1>6, <1>9
  <2>0. /\ IsFiniteSet(ahead(j)) /\ Cardinality(ahead(j)) \in Nat /\ Cardinality(ahead(i)) \in Nat
    BY <1>8
  <2> HIDE DEF ahead
  <2>2. /\ Cardinality(ahead(i)) <= Cardinality(ahead(j))
        /\ Cardinality(ahead(j)) = Cardinality(ahead(i)) => ahead(j) = ahead(i)
    BY <2>0, <2>1, FS_Subset
  <2>3. QED
    BY <2>0, <2>1, <2>2
<1>10. turn \in [K -> 1 .. n]
  <2>1. ASSUME NEW i \in K PROVE G!Turn(rs, i) \in 1 .. n
    <3>1. G!Turn(rs, i) = Cardinality(ahead(i)) + 1
      BY <1>7
    <3>2. Cardinality(ahead(i)) \in Nat /\ Cardinality(ahead(i)) < n
      BY <1>8
    <3> HIDE DEF ahead, n
    <3>3. QED
      BY <1>3, <3>1, <3>2
  <2>2. QED
    BY <2>1
<1>11. \A i, j \in K : turn[i] = turn[j] => i = j
  <2>1. ASSUME NEW i \in K, NEW j \in K, i # j PROVE turn[i] # turn[j]
    <3>1. Cardinality(ahead(i)) < Cardinality(ahead(j)) \/ Cardinality(ahead(j)) < Cardinality(ahead(i))
      BY <1>6, <1>9, <2>1
    <3>2. turn[i] = Cardinality(ahead(i)) + 1 /\ turn[j] = Cardinality(ahead(j)) + 1
      BY <1>7
    <3>3. Cardinality(ahead(i)) \in Nat /\ Cardinality(ahead(j)) \in Nat
      BY <1>8
    <3> HIDE DEF turn, ahead
    <3>4. QED
      BY <3>1, <3>2, <3>3
  <2>2. QED
    BY <2>1
<1>12. turn \in Surjection(K, 1 .. n)
  <2>1. turn \in Injection(K, 1 .. n)
    BY <1>10, <1>11 DEF Injection, IsInjective
  <2>2. IsFiniteSet(1 .. n) /\ Cardinality(1 .. n) = n
    BY <1>3, FS_Interval
  <2>3. QED
    BY <2>1, <2>2, FS_Injection
<1>13. \A k \in 1 .. n : \E i \in K : turn[i] = k
  BY <1>12 DEF Surjection
<1>14. \A k \in 1 .. n : \E i \in K : G!Turn(rs, i) = k
  BY <1>13
<1>15. G!Cardinality(K) = n
  BY GCount
<1>16. QED
  BY <1>3, <1>14, <1>15 DEF K

LEMMA DedupedIs ==
  ASSUME TestedOK, NEW b \in G!Orders, NEW rs \in Seq(G!Failing(b)), Injective(rs)
  PROVE  LET d == G!Deduped(rs) IN
         /\ d \in Seq(G!Failing(b)) /\ Injective(d)
         /\ G!OneFailurePerName(b) =>
              \A k, l \in DOMAIN d : FullName[d[k]] = FullName[d[l]] => k = l
<1> DEFINE N == Len(rs)
           K == G!Kept(rs)
           n == G!Cardinality(K)
           place(k) == CHOOSE i \in K : G!Turn(rs, i) = k
           F == G!Failing(b)
<1>1. N \in Nat /\ DOMAIN rs = 1 .. N /\ \A i \in 1 .. N : rs[i] \in F
  OBVIOUS
<1>2. /\ n \in Nat
      /\ \A k \in 1 .. n : \E i \in K : G!Turn(rs, i) = k
  BY <1>1, Turns
<1>3. K \subseteq 1 .. N
  BY <1>1 DEF G!Kept
<1>4. G!Deduped(rs) = [k \in 1 .. n |-> rs[place(k)]]
  BY DEF G!Deduped
<1>5. \A k \in 1 .. n : place(k) \in K /\ G!Turn(rs, place(k)) = k
  BY <1>2
<1> HIDE DEF n, place, F
<1>6. /\ G!Deduped(rs) \in Seq(F) /\ DOMAIN G!Deduped(rs) = 1 .. n
      /\ \A k \in 1 .. n : G!Deduped(rs)[k] = rs[place(k)]
  BY <1>1, <1>2, <1>3, <1>4, <1>5
<1>7. \A k, l \in 1 .. n : place(k) = place(l) => k = l
  BY <1>5
<1>8. \A i, j \in 1 .. N : rs[i] = rs[j] => i = j
  BY <1>1 DEF Injective
<1>9. Injective(G!Deduped(rs))
  BY <1>3, <1>5, <1>6, <1>7, <1>8 DEF Injective
<1>10. ASSUME G!OneFailurePerName(b), NEW i \in K, NEW j \in K, FullName[rs[i]] = FullName[rs[j]]
       PROVE  i = j
  <2>1. ASSUME NEW k \in K
        PROVE  k = G!Survivor(rs, k)
    <3>1. G!Said(rs, k) \subseteq 1 .. N
      BY <1>1 DEF G!Said, G!SameName
    <3>2. ASSUME NEW x \in G!Said(rs, k), NEW y \in G!Said(rs, k) PROVE x = y
      <4>1. rs[x] \in F /\ rs[y] \in F /\ x \in 1 .. N /\ y \in 1 .. N
        BY <1>1, <3>1
      <4>2. way[rs[x]].said /\ way[rs[y]].said /\ FullName[rs[x]] = FullName[rs[y]]
        BY DEF G!Said, G!SameName
      <4>3. rs[x] = rs[y]
        BY <1>10, <4>1, <4>2 DEF G!OneFailurePerName, F
      <4>4. QED
        BY <1>8, <4>1, <4>3
    <3>3. ~(G!Cardinality(G!Said(rs, k)) > 1)
      BY <3>2, AtMostOne, GCount
    <3>4. QED
      BY <3>3 DEF G!Kept
  <2>2. G!Survivor(rs, i) = G!Survivor(rs, j)
    BY <1>1, <1>3, <1>10, NameFacts
  <2>3. QED
    BY <2>1, <2>2
<1>11. ASSUME G!OneFailurePerName(b), NEW k \in 1 .. n, NEW l \in 1 .. n,
              FullName[rs[place(k)]] = FullName[rs[place(l)]]
       PROVE  k = l
  BY <1>5, <1>7, <1>10, <1>11
<1>12. QED
  BY <1>6, <1>9, <1>11 DEF F

-----------------------------------------------------------------------------
(* The history. *)

\* computeBuildsSincePass: with no later build of its line, a build that is said
\* to be at most one run away from a pass has failed at most once since; the
\* window must show two runs before it.
LEMMA ShortHistory ==
  ASSUME TestedOK, NEW b \in G!Orders, NEW h \in G!Failing(b), NewestBuild(b), Depth >= 3,
         G!SincePass(h, G!History(h, b)) <= 1
  PROVE  Cardinality(G!FailedSince(h, b)) <= 1
<1> DEFINE all  == G!Ran(h) \cap G!SameLine(b)
           hist == G!History(h, b)
           F    == G!FailedSince(h, b)
           S    == {o \in hist : \A p \in hist \cap G!Passed(h) : p < o}
           later(o) == {p \in all : p > o}
<1>1. PICK N \in Nat : G!Orders = 1 .. N
  BY BuildFacts
<1>2. /\ all \subseteq 1 .. N /\ b \in all /\ b \in 1 .. N /\ \A o \in all : o <= b
      /\ G!Passed(h) \cap G!SameLine(b) \subseteq all
  BY <1>1 DEF G!Ran, G!Passed, G!SameLine, G!Failing, NewestBuild
<1>3. F = {o \in all : G!LastGood(h, b) < o /\ o < b} /\ G!LastGood(h, b) \in Nat
      /\ \A p \in G!Passed(h) \cap G!SameLine(b) : p < b => p <= G!LastGood(h, b)
  BY LastGoodIs DEF G!FailedSince
<1>4. \A o : Cardinality(later(o)) = G!Cardinality(later(o))
  BY GCount
<1>5. ASSUME NEW o
      PROVE  o \in hist <=> o \in all /\ Cardinality(later(o)) < Depth /\ o # b
  <2>1. o \in hist <=> o \in all /\ G!Cardinality(later(o)) < Depth /\ o # b
    BY DEF G!History
  <2> HIDE DEF hist, later, all
  <2>2. QED
    BY <1>4, <2>1
<1>6. G!SincePass(h, hist) = Cardinality(S)
  BY GCount DEF G!SincePass
<1> HIDE DEF all, hist, F, S
<1>7. ASSUME NEW o \in F, Cardinality(later(o)) \in {1, 2}
      PROVE  o \in S
  <2>0. o \in all /\ o # b /\ b \in Nat
    BY <1>2, <1>3
  <2>1. o \in hist
    <3> HIDE DEF later
    <3>1. QED
      BY <1>5, <1>7, <2>0, DiagnosisConstants
  <2>2. ASSUME NEW p \in hist \cap G!Passed(h) PROVE p < o
    <3>1. p \in all /\ p # b /\ p \in G!SameLine(b)
      BY <1>5 DEF all
    <3>2. p < b
      BY <1>2, <3>1
    <3>3. p <= G!LastGood(h, b)
      BY <1>3, <3>1, <3>2
    <3>4. QED
      BY <1>2, <1>3, <3>1, <3>3
  <2>3. QED
    BY <2>1, <2>2 DEF S
<1>8. IsFiniteSet(S) /\ Cardinality(S) <= 1
  <2>1. S \in SUBSET (1 .. N) /\ IsFiniteSet(1 .. N)
    <3>1. S \subseteq hist
      BY DEF S
    <3>2. hist \subseteq all
      BY <1>5
    <3>3. QED
      BY <1>2, <3>1, <3>2, FS_Interval
  <2>2. IsFiniteSet(S)
    BY <2>1, FS_Subset
  <2>3. QED
    BY <1>6, <2>2 DEF hist
<1>9. ASSUME NEW x \in F, NEW y \in F, x # y PROVE FALSE
  <2>0. F \in SUBSET (1 .. N)
    BY <1>2, <1>3
  <2>1. PICK u \in F : \A o \in F : o <= u
    BY <1>9, <2>0, LargestIs
  <2>2. F \ {u} \in SUBSET (1 .. N) /\ F \ {u} # {}
    BY <1>9, <2>0
  <2>3. PICK v \in F \ {u} : \A o \in F \ {u} : o <= v
    <3> DEFINE G0 == F \ {u}
    <3> HIDE DEF G0
    <3>1. \E w \in G0 : \A o \in G0 : o <= w
      BY <2>2, LargestIs DEF G0
    <3>2. QED
      BY <3>1 DEF G0
  <2>4. u \in Nat /\ v \in Nat /\ v < u /\ u < b /\ b \in Nat
    BY <1>2, <1>3, <2>0, <2>1, <2>3
  <2>12. \A p \in all : p \in Nat /\ (p > v /\ p # b => p \in F)
    <3>1. G!LastGood(h, b) < v /\ v \in F /\ u \in F
      BY <1>3, <2>3
    <3>2. ASSUME NEW p \in all, p > v, p # b PROVE p \in F
      BY <1>2, <1>3, <2>4, <3>1, <3>2
    <3>3. QED
      BY <1>2, <3>2
  <2>5. later(u) = {b}
    <3>1. \A p \in all : p > u => p = b
      BY <2>1, <2>4, <2>12
    <3>2. b \in all /\ b > u
      BY <1>2, <2>4
    <3>3. QED
      BY <3>1, <3>2
  <2>6. later(v) = {u} \cup {b}
    <3>1. \A p \in all : p > v => p \in {u, b}
      BY <2>3, <2>4, <2>12
    <3>2. b \in all /\ b > v /\ u \in all /\ u > v
      BY <1>2, <1>3, <2>1, <2>4
    <3>3. QED
      BY <3>1, <3>2
  <2>7. Cardinality(later(u)) = 1
    BY <2>5, FS_Singleton
  <2>8. Cardinality(later(v)) = 2
    <3>0. b # u
      BY <2>4
    <3>1. IsFiniteSet({u}) /\ Cardinality({u}) = 1 /\ b \notin {u}
      BY <3>0, FS_Singleton
    <3>2. Cardinality({u} \cup {b}) = Cardinality({u}) + 1
      BY <3>1, FS_AddElement
    <3>3. QED
      BY <2>6, <3>1, <3>2
  <2>9. u \in S /\ v \in S /\ u # v
    BY <1>7, <2>1, <2>3, <2>7, <2>8
  <2>10. Cardinality(S) \in Nat /\ Cardinality(S) >= 2
    BY <1>8, <2>9, AtLeastTwo
  <2>11. QED
    BY <1>8, <2>10
<1>10. QED
  BY <1>9, AtMostOne DEF F

\* buildsSinceLastGood counts runs that failed.
LEMMA GapIs ==
  ASSUME TestedOK, NEW b \in G!Orders, NEW h, NEW hist \in {G!History(h, b), {}}
  PROVE  G!SinceGood(hist, G!LastGood(h, b), b) <= Cardinality(G!FailedSince(h, b))
<1> DEFINE S == {o \in hist : G!LastGood(h, b) < o /\ o < b}
<1>1. S \in SUBSET G!FailedSince(h, b)
  BY DEF G!FailedSince, G!History
<1>2. Cardinality(S) <= Cardinality(G!FailedSince(h, b))
  BY <1>1, FailuresFinite, FS_Subset
<1>3. QED
  BY <1>2, GCount DEF G!SinceGood

-----------------------------------------------------------------------------
(* The inductive invariant. *)

\* The history of a test is read, and shows two runs before the newest build.
HistoryRead == "history" \notin ReadFaults /\ Depth >= 3

\* What is gathered of a test stays true when builds come.
TestOK(t, b) ==
  /\ t.hist \in G!Failing(b)
  /\ t.good \in {0, G!LastGood(t.hist, b)}
  /\ t.pattern \in {G!NoPattern, way[t.hist].pattern}
  /\ t.good # 0 => t.gap <= Cardinality(G!FailedSince(t.hist, b))
  /\ HistoryRead /\ NewestBuild(b) /\ t.since <= 1 => Cardinality(G!FailedSince(t.hist, b)) <= 1

\* By f, the tests examined and those to be examined are all different.
Apart(tests, todo0, f) ==
  /\ \A i, j \in DOMAIN tests : f[tests[i].hist] = f[tests[j].hist] => i = j
  /\ \A i, j \in DOMAIN todo0 : f[todo0[i]] = f[todo0[j]] => i = j
  /\ \A i \in DOMAIN tests, j \in DOMAIN todo0 : f[tests[i].hist] # f[todo0[j]]

Itself == [h \in Hists |-> h]

Gathered ==
  /\ req.build \in G!Orders
  /\ req.todo \in Seq(G!Failing(req.build))
  /\ \E T : req.tests \in Seq(T)
  /\ \A i \in DOMAIN req.tests : TestOK(req.tests[i], req.build)
  /\ Apart(req.tests, req.todo, Itself)
  /\ G!OneFailurePerName(req.build) => Apart(req.tests, req.todo, FullName)
  /\ req.at = "tests" => req.todo # << >>

DiagnosisInv ==
  /\ TestedOK
  /\ req.at \in {"idle", "tests", "count", "answered"}
  /\ req.at \in {"tests", "count"} => Gathered
  /\ req.at = "answered" => G!WholeUnlessTruncated /\ (HistoryRead => G!HistoryIsSupport)

-----------------------------------------------------------------------------
(* The answer. *)

LEMMA FailingFinite ==
  ASSUME TestedOK, NEW b \in G!Orders
  PROVE  G!Failing(b) \subseteq Hists /\ IsFiniteSet(G!Failing(b))
<1>1. G!Failing(b) \subseteq Hists
  BY BuildFacts DEF G!Failing
<1>2. QED
  BY <1>1, DiagnosisConstants, FS_Subset

\* CountFailedByBuild counts the names, each of which has been examined once.
LEMMA WholeIs ==
  ASSUME TestedOK, NEW b \in G!Orders, NEW T, NEW tests \in Seq(T), NEW todo0, NEW cap,
         \A i \in DOMAIN tests : tests[i].hist \in G!Failing(b),
         Apart(tests, todo0, FullName)
  PROVE  G!Truncated(b, cap, tests) <=>
           \E h \in G!Failing(b) : FullName[h] \notin {FullName[tests[i].hist] : i \in DOMAIN tests}
<1> DEFINE F == G!Failing(b)
           N == {FullName[h] : h \in F}
           E == {FullName[tests[i].hist] : i \in DOMAIN tests}
           n == Len(tests)
           g == [h \in F |-> FullName[h]]
           e == [i \in 1 .. n |-> FullName[tests[i].hist]]
<1>1. n \in Nat /\ DOMAIN tests = 1 .. n
  OBVIOUS
<1>2. IsFiniteSet(N)
  <2>1. g \in Surjection(F, N)
    BY DEF Surjection
  <2>2. QED
    BY <2>1, FailingFinite, FS_Surjection
<1>3. E \in SUBSET N
  OBVIOUS
<1>4. IsFiniteSet(E) /\ Cardinality(E) = n
  <2>1. e \in Surjection(1 .. n, E)
    BY <1>1 DEF Surjection
  <2>2. e \in Injection(1 .. n, E)
    BY <1>1 DEF Injection, IsInjective, Apart
  <2>3. IsFiniteSet(1 .. n) /\ Cardinality(1 .. n) = n
    <3> HIDE DEF n, e, E
    <3>1. QED
      BY <1>1, FS_Interval
  <2> HIDE DEF e, E
  <2>4. QED
    BY <2>1, <2>2, <2>3, FS_Surjection
<1>5. Cardinality(N) \in Nat /\ Cardinality(E) <= Cardinality(N)
      /\ (Cardinality(N) = Cardinality(E) => N = E)
  BY <1>2, <1>3, FS_Subset, FS_CardinalityType
<1>6. G!Truncated(b, cap, tests) <=> Cardinality(N) > n
  BY GCount DEF G!Truncated
<1>7. Cardinality(N) > n <=> N # E
  <2> HIDE DEF N, E, n
  <2>1. QED
    BY <1>1, <1>4, <1>5
<1>8. N # E <=> \E h \in F : FullName[h] \notin E
  BY <1>3
<1>9. QED
  BY <1>6, <1>7, <1>8

LEMMA LargestHas ==
  ASSUME NEW T, NEW tests \in Seq(T), tests # << >>, NEW summary
  PROVE  /\ G!Largest(tests, summary) \in SUBSET (1 .. Len(tests)) /\ Len(tests) \in Nat
         /\ DOMAIN tests = 1 .. Len(tests) /\ G!Largest(tests, summary) # {}
<1> DEFINE Ps == DOMAIN tests
           size(i) == G!Cardinality(G!Cluster(tests, i, summary))
           first == CHOOSE i \in Ps : \A j \in Ps : size(j) < size(i) \/ (size(j) = size(i) /\ i <= j)
           f == [i \in Ps |-> size(i)]
<1>1. Len(tests) \in Nat /\ Ps = 1 .. Len(tests) /\ Ps # {}
  OBVIOUS
<1>2. \A i \in Ps : G!Cluster(tests, i, summary) \subseteq Ps
  BY DEF G!Cluster
<1>3. ASSUME NEW i \in Ps PROVE size(i) \in Nat
  <2>1. IsFiniteSet(Ps)
    BY <1>1, FS_Interval
  <2>2. IsFiniteSet(G!Cluster(tests, i, summary))
    BY <1>2, <2>1, FS_Subset
  <2>3. QED
    BY <2>2, FS_CardinalityType, GCount
<1> HIDE DEF size
<1>4. PICK i \in Ps : \A j \in Ps : f[j] < f[i] \/ (f[j] = f[i] /\ i <= j)
  <2>1. \A i \in Ps : f[i] \in Nat
    BY <1>3
  <2> HIDE DEF f
  <2>2. QED
    BY <1>1, <2>1, FirstOfLast
<1>5. first \in Ps
  BY <1>4
<1>6. G!Largest(tests, summary) = G!Cluster(tests, first, summary)
  BY DEF G!Largest, size
<1>7. first \in G!Cluster(tests, first, summary)
  BY <1>5 DEF G!Cluster
<1>8. QED
  BY <1>1, <1>2, <1>5, <1>6, <1>7

\* lastGoodCommitRelation: some member has a last passing build whose commit
\* stands in that relation.
LEMMA RelationIs ==
  ASSUME NEW tests, NEW c \in SUBSET Nat, NEW b
  PROVE  /\ G!Relation(tests, c, b) = "different" =>
              \E i \in c : tests[i].good # 0 /\ tested[tests[i].good].commit # tested[b].commit
         /\ G!Relation(tests, c, b) = "same" =>
              \E i \in c : tests[i].good # 0 /\ tested[tests[i].good].commit = tested[b].commit
<1> DEFINE known == {i \in c : tests[i].good # 0 /\ tested[tests[i].good].commit # G!NoCommit}
<1>1. known # {} => G!Min(known) \in known
  <2>1. known \in SUBSET Nat
    OBVIOUS
  <2> HIDE DEF known
  <2>2. QED
    BY <2>1, MinIs
<1>2. G!Relation(tests, c, b) \in {"same", "different"} =>
        /\ known # {}
        /\ G!Relation(tests, c, b) =
             IF tested[tests[G!Min(known)].good].commit = tested[b].commit THEN "same" ELSE "different"
  BY DEF G!Relation
<1>3. QED
  BY <1>1, <1>2

LEMMA VerdictIs ==
  ASSUME NEW tests, NEW c, NEW b
  PROVE  LET v == G!Verdict(tests, c, b)
             rel == G!Relation(tests, c, b)
         IN  /\ DOMAIN v = {"verdict", "confidence"}
             /\ v.confidence = "high" /\ v.verdict = "product_regression" =>
                  rel = "different" /\ G!IsProductRegression(tests, c, rel)
             /\ v.confidence = "high" /\ v.verdict = "infra_env" =>
                  rel = "same" /\ G!IsInfraEnv(tests, c, rel)
  BY DEF G!Verdict

LEMMA ConfidentIs ==
  ASSUME NEW tests, NEW b, NEW summary, NEW cut,
         G!BuildVerdict(tests, b, summary, cut).confidence = "high"
  PROVE  /\ tests # << >>
         /\ G!BuildVerdict(tests, b, summary, cut) = G!Verdict(tests, G!Largest(tests, summary), b)
<1> DEFINE c == G!Largest(tests, summary)
           v == G!Verdict(tests, c, b)
           s == G!BuildVerdict(tests, b, summary, cut)
           low == [verdict |-> "insufficient_evidence", confidence |-> "low"]
<1>1. s \in {low, G!Capped(v), v} /\ (tests = << >> => s = low)
  BY DEF G!BuildVerdict
<1>2. DOMAIN v = {"verdict", "confidence"}
  BY VerdictIs
<1> HIDE DEF v, s
<1>3. low.confidence # "high"
  OBVIOUS
<1>4. G!Capped(v).confidence = "high" => G!Capped(v) = v
  BY <1>2 DEF G!Capped
<1>5. s.confidence = "high"
  BY DEF s
<1>6. QED
  BY <1>1, <1>3, <1>4, <1>5 DEF s, v

\* What a confident verdict of a build says of the tables.
Supported(tests, b, summary, says) ==
  LET hists == {tests[i].hist : i \in G!Largest(tests, summary)}
      before(same) == \E h \in hists : /\ G!LastGood(h, b) # 0
                                       /\ (tested[G!LastGood(h, b)].commit = tested[b].commit) = same
  IN  /\ says.verdict = "product_regression" =>
           /\ before(FALSE)
           /\ NewestBuild(b) => \A h \in hists : Cardinality(G!FailedSince(h, b)) <= 1
      /\ says.verdict = "infra_env" =>
           /\ before(TRUE)
           /\ \E h, i \in hists : h # i /\ {way[h].pattern, way[i].pattern} \subseteq ServerErrors

LEMMA SupportedIs ==
  ASSUME HistoryRead, TestedOK, NEW b \in G!Orders, NEW T, NEW tests \in Seq(T), NEW todo0,
         NEW summary, NEW cut,
         \A i \in DOMAIN tests : TestOK(tests[i], b),
         Apart(tests, todo0, Itself),
         G!BuildVerdict(tests, b, summary, cut).confidence = "high"
  PROVE  Supported(tests, b, summary, G!BuildVerdict(tests, b, summary, cut))
<1> DEFINE c == G!Largest(tests, summary)
           v == G!Verdict(tests, c, b)
           rel == G!Relation(tests, c, b)
           hists == {tests[i].hist : i \in c}
<1>1. tests # << >> /\ G!BuildVerdict(tests, b, summary, cut) = v /\ v.confidence = "high"
  BY ConfidentIs
<1>2. c \in SUBSET (1 .. Len(tests)) /\ c \in SUBSET Nat /\ Len(tests) \in Nat
      /\ DOMAIN tests = 1 .. Len(tests) /\ c # {}
  <2>1. /\ c \in SUBSET (1 .. Len(tests)) /\ Len(tests) \in Nat
        /\ DOMAIN tests = 1 .. Len(tests) /\ c # {}
    BY <1>1, LargestHas
  <2>2. \A i \in 1 .. Len(tests) : i \in Nat
    BY <2>1
  <2>3. QED
    BY <2>1, <2>2
<1>3. /\ v.verdict = "product_regression" => rel = "different" /\ G!IsProductRegression(tests, c, rel)
      /\ v.verdict = "infra_env" => rel = "same" /\ G!IsInfraEnv(tests, c, rel)
  BY <1>1, VerdictIs
<1> HIDE DEF c, v, rel
<1>4. \A i \in c : i \in DOMAIN tests /\ TestOK(tests[i], b)
  BY <1>2
<1>5. \A i \in c : tests[i].good # 0 => tests[i].good = G!LastGood(tests[i].hist, b)
  BY <1>4 DEF TestOK
<1>6. ASSUME rel = "different"
      PROVE  \E h \in hists : /\ G!LastGood(h, b) # 0
                              /\ (tested[G!LastGood(h, b)].commit = tested[b].commit) = FALSE
  BY <1>2, <1>5, <1>6, RelationIs DEF rel
<1>7. ASSUME rel = "same"
      PROVE  \E h \in hists : /\ G!LastGood(h, b) # 0
                              /\ (tested[G!LastGood(h, b)].commit = tested[b].commit) = TRUE
  BY <1>2, <1>5, <1>7, RelationIs DEF rel
<1>8. ASSUME G!IsProductRegression(tests, c, rel), NewestBuild(b), NEW h \in hists
      PROVE  Cardinality(G!FailedSince(h, b)) <= 1
  <2>1. PICK i \in c : h = tests[i].hist
    OBVIOUS
  <2>2. tests[i].since <= 1
    BY <1>8 DEF G!IsProductRegression
  <2>3. QED
    BY <1>4, <1>8, <2>1, <2>2 DEF TestOK
<1>9. ASSUME G!IsInfraEnv(tests, c, rel)
      PROVE  \E h, i \in hists : h # i /\ {way[h].pattern, way[i].pattern} \subseteq ServerErrors
  <2>1. G!Cardinality(c) >= 2 /\ \A i \in c : tests[i].pattern \in ServerErrors
    BY <1>9 DEF G!IsInfraEnv
  <2>2. PICK i \in c, j \in c : i # j
    BY <2>1, AtMostOne, GCount
  <2>3. tests[i].hist \in Hists /\ tests[j].hist \in Hists
    BY <1>4, FailingFinite DEF TestOK
  <2>4. tests[i].hist # tests[j].hist
    BY <1>4, <2>2, <2>3 DEF Apart, Itself
  <2>5. \A k \in c : way[tests[k].hist].pattern \in ServerErrors
    BY <1>4, <2>1, DiagnosisConstants DEF TestOK
  <2>6. tests[i].hist \in hists /\ tests[j].hist \in hists
    OBVIOUS
  <2>7. QED
    BY <2>2, <2>4, <2>5, <2>6
<1>10. QED
  BY <1>1, <1>3, <1>6, <1>7, <1>8, <1>9 DEF Supported, c

-----------------------------------------------------------------------------
(* The steps. *)

LEMMA TestStands ==
  ASSUME NEW t, NEW b, TestOK(t, b), way' = way,
         (G!Failing(b))' = G!Failing(b),
         \A h : (G!LastGood(h, b))' = G!LastGood(h, b),
         \A h : (G!FailedSince(h, b))' = G!FailedSince(h, b),
         NewestBuild(b)' => NewestBuild(b)
  PROVE  TestOK(t, b)'
  BY DEF TestOK, HistoryRead, G!NoPattern

LEMMA TablesStand ==
  ASSUME tested' = tested, way' = way, NEW b
  PROVE  /\ G!Orders' = G!Orders /\ (G!Failing(b))' = G!Failing(b)
         /\ (G!OneFailurePerName(b))' <=> G!OneFailurePerName(b)
         /\ \A x : (G!LastGood(x, b))' = G!LastGood(x, b)
         /\ \A x : (G!FailedSince(x, b))' = G!FailedSince(x, b)
         /\ NewestBuild(b)' <=> NewestBuild(b)
  BY DEF G!Orders, G!Failing, G!OneFailurePerName, G!LastGood, G!FailedSince, G!SameLine,
         G!Ran, G!Passed, NewestBuild

LEMMA DiagnosisStands ==
  ASSUME DiagnosisInv, UNCHANGED diagnosisVars
  PROVE  DiagnosisInv'
<1>1. tested' = tested /\ way' = way /\ req' = req
  BY DEF diagnosisVars
<1>2. Gathered' <=> Gathered
  BY <1>1
     DEF Gathered, TestOK, Apart, Itself, HistoryRead, NewestBuild, G!NoPattern, G!Orders,
         G!Failing,
     G!OneFailurePerName, G!LastGood, G!FailedSince, G!SameLine, G!Ran, G!Passed
<1>3. (G!WholeUnlessTruncated)' <=> G!WholeUnlessTruncated
  BY <1>1 DEF G!WholeUnlessTruncated, G!Answered, G!Examines, G!Failing, G!OneFailurePerName
<1>4. (G!HistoryIsSupport)' <=> G!HistoryIsSupport
  BY <1>1
     DEF G!HistoryIsSupport, G!ConfidentIsSupported, G!GapIsFailures, G!Answered, G!Largest,
     G!Cluster, G!Key, G!Orders, G!LastGood, G!FailedSince, G!SameLine, G!Ran, G!Passed
<1>5. QED
  BY <1>1, <1>2, <1>3, <1>4 DEF DiagnosisInv, TestedOK, HistoryRead

LEMMA GatheredNext ==
  ASSUME NEW b, NEW todo0, NEW tests,
         req'.build = b, req'.todo = todo0, req'.tests = tests, b \in G!Orders',
         (G!Failing(b))' = G!Failing(b),
         (G!OneFailurePerName(b))' => G!OneFailurePerName(b),
         todo0 \in Seq(G!Failing(b)), \E T : tests \in Seq(T),
         \A i \in DOMAIN tests : TestOK(tests[i], b)',
         Apart(tests, todo0, Itself),
         G!OneFailurePerName(b) => Apart(tests, todo0, FullName),
         req'.at = "tests" => todo0 # << >>
  PROVE  Gathered'
<1>1. \A f : Apart(req.tests, req.todo, f)' <=> Apart(tests, todo0, f)
  BY DEF Apart
<1>2. Itself' = Itself
  BY DEF Itself
<1>3. (G!Failing(req.build))' = (G!Failing(b))'
      /\ ((G!OneFailurePerName(req.build))' <=> (G!OneFailurePerName(b))')
  BY DEF G!Failing, G!OneFailurePerName
<1>4. \A t : TestOK(t, req.build)' <=> TestOK(t, b)'
  BY DEF TestOK, NewestBuild, G!Failing, G!LastGood, G!FailedSince, G!SameLine
<1> HIDE DEF Gathered
<1>5. QED
  BY <1>1, <1>2, <1>3, <1>4 DEF Gathered

LEMMA IngestKeepsDiagnosis ==
  ASSUME DiagnosisInv, NEW br \in Branches, NEW c \in 0 .. MaxCommits, NEW F, NEW A,
         G!Ingest(br, c, F, A)
  PROVE  DiagnosisInv'
<1>1. /\ TestedOK /\ tested' = Append(tested, [branch |-> br, commit |-> c,
           rows |-> [h \in {x \in Hists : FullName[x] \notin A} |->
                        IF FullName[h] \in F THEN "failed" ELSE "passed"]])
      /\ req' = req /\ way' = way /\ req.at # "answered"
  BY DEF DiagnosisInv, G!Ingest
<1>2. CASE req.at \in {"tests", "count"}
  <2>0. PICK b : b = req.build
    OBVIOUS
  <2>1. Gathered /\ b \in G!Orders
    BY <1>2, <2>0 DEF DiagnosisInv, Gathered
  <2>2. /\ TestedOK' /\ b \in G!Orders'
        /\ (G!Failing(b))' = G!Failing(b)
        /\ \A h : (G!LastGood(h, b))' = G!LastGood(h, b)
        /\ \A h : (G!FailedSince(h, b))' = G!FailedSince(h, b)
        /\ NewestBuild(b)' => NewestBuild(b)
    BY <1>1, <2>1, IngestStands
  <2>3. \A i \in DOMAIN req.tests : TestOK(req.tests[i], b)'
    BY <1>1, <2>0, <2>1, <2>2, TestStands DEF Gathered
  <2>4. (G!OneFailurePerName(b))' => G!OneFailurePerName(b)
    BY <1>1, <2>2 DEF G!OneFailurePerName
  <2>5. Gathered'
    <3>1. req'.build = b /\ req'.todo = req.todo /\ req'.tests = req.tests /\ req'.at = req.at
      BY <1>1, <2>0
    <3>2. /\ req.todo \in Seq(G!Failing(b))
          /\ \E T : req.tests \in Seq(T)
          /\ Apart(req.tests, req.todo, Itself)
          /\ G!OneFailurePerName(b) => Apart(req.tests, req.todo, FullName)
          /\ req.at = "tests" => req.todo # << >>
      BY <2>0, <2>1 DEF Gathered
    <3>3. QED
      BY <2>2, <2>3, <2>4, <3>1, <3>2, GatheredNext
  <2>6. QED
    BY <1>1, <1>2, <2>2, <2>5 DEF DiagnosisInv
<1>3. CASE req.at = "idle"
  <2>1. TestedOK'
    BY IngestTested DEF DiagnosisInv
  <2>2. QED
    BY <1>1, <1>3, <2>1 DEF DiagnosisInv
<1>4. QED
  BY <1>1, <1>2, <1>3 DEF DiagnosisInv

LEMMA DiagnoseKeeps ==
  ASSUME DiagnosisInv, NEW b \in G!Orders, NEW cap \in Caps, NEW s \in Summaries,
         G!Diagnose(b, cap, s)
  PROVE  DiagnosisInv'
<1>1. PICK rs \in G!Listings(b, cap) :
        req' = G!NextTest([build |-> b, cap |-> cap, summary |-> s], G!Cut(G!Deduped(rs), cap), << >>)
  BY DEF G!Diagnose
<1> DEFINE d == G!Deduped(rs)
           todo0 == G!Cut(d, cap)
<1>2. TestedOK /\ TestedOK' /\ tested' = tested /\ way' = way
  BY DEF DiagnosisInv, G!Diagnose, TestedOK
<1>3. /\ d \in Seq(G!Failing(b)) /\ Injective(d)
      /\ G!OneFailurePerName(b) => \A k, l \in DOMAIN d : FullName[d[k]] = FullName[d[l]] => k = l
  BY <1>2, ListingIs, DedupedIs
<1> HIDE DEF d
<1>4. todo0 \in Seq(G!Failing(b)) /\ \A i \in DOMAIN todo0 : i \in DOMAIN d /\ todo0[i] = d[i]
  BY <1>3, DiagnosisConstants, CutIs
<1> HIDE DEF todo0
<1>5. req' = [at |-> IF todo0 = << >> THEN "count" ELSE "tests", build |-> b,
              cap |-> cap, summary |-> s, todo |-> todo0, tests |-> << >>]
  BY <1>1 DEF G!NextTest, todo0, d
<1>6. Apart(<< >>, todo0, Itself)
  <2>1. \A i \in DOMAIN todo0 : todo0[i] \in Hists
    BY <1>2, <1>4, FailingFinite
  <2>2. QED
    BY <1>3, <1>4, <2>1 DEF Apart, Itself, Injective
<1>7. G!OneFailurePerName(b) => Apart(<< >>, todo0, FullName)
  BY <1>3, <1>4 DEF Apart
<1>8. Gathered'
  <2>1. b \in G!Orders' /\ (G!Failing(b))' = G!Failing(b)
        /\ ((G!OneFailurePerName(b))' <=> G!OneFailurePerName(b))
    BY <1>2 DEF G!Orders, G!Failing, G!OneFailurePerName
  <2>2. \E T : << >> \in Seq(T)
    OBVIOUS
  <2>3. /\ req'.build = b /\ req'.todo = todo0 /\ req'.tests = << >>
        /\ req'.at = "tests" => todo0 # << >>
    BY <1>5
  <2>4. \A i \in DOMAIN << >> : TestOK(<< >>[i], b)'
    OBVIOUS
  <2>5. QED
    BY <1>4, <1>6, <1>7, <2>1, <2>2, <2>3, <2>4, GatheredNext
<1>9. QED
  BY <1>2, <1>5, <1>8 DEF DiagnosisInv

\* A test that has been looked up.
LEMMA TestIs ==
  ASSUME TestedOK, NEW b \in G!Orders, NEW h \in G!Failing(b), NEW steps \in BOOLEAN,
         NEW hist, hist \in {G!History(h, b), {}}, HistoryRead => hist = G!History(h, b),
         NEW good \in {0, G!LastGood(h, b)}
  PROVE  /\ TestOK(G!Diagnosed(h, b, steps, hist, good), b)
         /\ G!Diagnosed(h, b, steps, hist, good).hist = h
<1> DEFINE t == G!Diagnosed(h, b, steps, hist, good)
<1>1. /\ t.hist = h /\ t.good = good /\ t.since = G!SincePass(h, hist)
      /\ t.pattern \in {G!NoPattern, way[h].pattern}
      /\ t.gap = IF good = 0 THEN 0 ELSE G!SinceGood(hist, good, b)
  BY DEF G!Diagnosed
<1> HIDE DEF t
<1>2. good # 0 => t.gap <= Cardinality(G!FailedSince(h, b))
  BY <1>1, GapIs
<1>3. HistoryRead /\ NewestBuild(b) /\ t.since <= 1 => Cardinality(G!FailedSince(h, b)) <= 1
  BY <1>1, ShortHistory DEF HistoryRead
<1>4. QED
  BY <1>1, <1>2, <1>3 DEF TestOK, t

LEMMA MovesOn ==
  ASSUME NEW S, NEW s \in Seq(S), s # << >>
  PROVE  /\ s[1] \in S /\ 1 \in DOMAIN s /\ Tail(s) \in Seq(S)
         /\ \A i \in DOMAIN Tail(s) : /\ i + 1 \in DOMAIN s /\ i + 1 # 1 /\ i \in Nat
                                      /\ Tail(s)[i] = s[i + 1]
  OBVIOUS

\* The test that is looked up moves from one list to the other.
LEMMA ApartMoves ==
  ASSUME NEW S, NEW todo0 \in Seq(S), todo0 # << >>, NEW T, NEW tests \in Seq(T), NEW t,
         t.hist = todo0[1], NEW f, Apart(tests, todo0, f)
  PROVE  Apart(Append(tests, t), Tail(todo0), f)
<1> DEFINE n == Len(tests)
           new == Append(tests, t)
<1>1. n \in Nat /\ DOMAIN tests = 1 .. n /\ DOMAIN new = 1 .. n + 1
      /\ (\A i \in 1 .. n : new[i] = tests[i]) /\ new[n + 1] = t
  OBVIOUS
<1>2. \A i \in DOMAIN new : (i \in DOMAIN tests /\ new[i] = tests[i]) \/ (i = n + 1 /\ new[i] = t)
  BY <1>1
<1>3. n + 1 \notin DOMAIN tests
  BY <1>1
<1> HIDE DEF new, n
<1>4. 1 \in DOMAIN todo0
  BY MovesOn
<1>5. ASSUME NEW i \in DOMAIN new, NEW j \in DOMAIN new, f[new[i].hist] = f[new[j].hist]
      PROVE  i = j
  BY <1>2, <1>4, <1>5 DEF Apart
<1>6. ASSUME NEW i \in DOMAIN Tail(todo0), NEW j \in DOMAIN Tail(todo0),
             f[Tail(todo0)[i]] = f[Tail(todo0)[j]]
      PROVE  i = j
  <2>1. i + 1 = j + 1 /\ i \in Nat /\ j \in Nat
    BY <1>6, MovesOn DEF Apart
  <2>2. QED
    BY <2>1
<1>7. ASSUME NEW i \in DOMAIN new, NEW j \in DOMAIN Tail(todo0)
      PROVE  f[new[i].hist] # f[Tail(todo0)[j]]
  <2>1. j + 1 \in DOMAIN todo0 /\ j + 1 # 1 /\ Tail(todo0)[j] = todo0[j + 1]
    BY MovesOn
  <2>2. QED
    BY <1>2, <1>4, <2>1 DEF Apart
<1>8. QED
  BY <1>5, <1>6, <1>7 DEF Apart, new

LEMMA ExamineKeeps ==
  ASSUME DiagnosisInv, G!Examine
  PROVE  DiagnosisInv'
<1>0. PICK b, h : b = req.build /\ h = req.todo[1]
  OBVIOUS
<1>1. /\ req.at = "tests" /\ Gathered /\ TestedOK /\ TestedOK' /\ tested' = tested /\ way' = way
      /\ req.todo # << >>
  BY DEF DiagnosisInv, G!Examine, TestedOK, Gathered
<1>2. b \in G!Orders /\ h \in G!Failing(b) /\ Tail(req.todo) \in Seq(G!Failing(b))
  BY <1>0, <1>1, MovesOn DEF Gathered
<1>3. PICK steps \in BOOLEAN, hist \in {G!History(h, b), {}}, good \in {0, G!LastGood(h, b)} :
        /\ HistoryRead => hist = G!History(h, b)
        /\ req' = G!NextTest(req, Tail(req.todo), Append(req.tests, G!Diagnosed(h, b, steps, hist, good)))
  BY <1>0 DEF G!Examine, HistoryRead
<1>a. PICK t, new, rest : /\ t = G!Diagnosed(h, b, steps, hist, good)
                          /\ new = Append(req.tests, t) /\ rest = Tail(req.todo)
  OBVIOUS
<1>4. TestOK(t, b) /\ t.hist = h
  BY <1>1, <1>2, <1>3, <1>a, TestIs
<1>5. /\ req'.at = IF rest = << >> THEN "count" ELSE "tests"
      /\ req'.build = b /\ req'.todo = rest /\ req'.tests = new
  BY <1>0, <1>3, <1>a DEF G!NextTest
<1>6. PICK T : req.tests \in Seq(T)
  BY <1>1 DEF Gathered
<1>7. /\ \A i \in DOMAIN new : (i \in DOMAIN req.tests /\ new[i] = req.tests[i]) \/ new[i] = t
      /\ new \in Seq(T \cup {t})
  BY <1>6, <1>a
<1>8. \A f : Apart(req.tests, req.todo, f) => Apart(new, rest, f)
  <2>1. req.todo \in Seq(G!Failing(b))
    BY <1>0, <1>1 DEF Gathered
  <2>2. QED
    BY <1>0, <1>1, <1>4, <1>6, <1>a, <2>1, ApartMoves
<1>9. \A i \in DOMAIN new : TestOK(new[i], b)
  BY <1>0, <1>1, <1>4, <1>7 DEF Gathered
<1>10. /\ G!Orders' = G!Orders /\ (G!Failing(b))' = G!Failing(b)
       /\ (G!OneFailurePerName(b))' <=> G!OneFailurePerName(b)
       /\ \A x : (G!LastGood(x, b))' = G!LastGood(x, b)
       /\ \A x : (G!FailedSince(x, b))' = G!FailedSince(x, b)
       /\ NewestBuild(b)' <=> NewestBuild(b)
  BY <1>1, TablesStand
<1>11. \A i \in DOMAIN new : TestOK(new[i], b)'
  BY <1>1, <1>9, <1>10, TestStands
<1>12. Gathered'
  <2>1. /\ Apart(req.tests, req.todo, Itself)
        /\ G!OneFailurePerName(b) => Apart(req.tests, req.todo, FullName)
    BY <1>0, <1>1 DEF Gathered
  <2>2. \E S : new \in Seq(S)
    BY <1>7
  <2>3. req'.at = "tests" => rest # << >>
    BY <1>5
  <2>4. QED
    BY <1>2, <1>5, <1>8, <1>10, <1>11, <1>a, <2>1, <2>2, <2>3, GatheredNext
<1>13. QED
  BY <1>1, <1>5, <1>12 DEF DiagnosisInv

LEMMA ConcludeKeeps ==
  ASSUME DiagnosisInv, G!Conclude
  PROVE  DiagnosisInv'
<1>0. PICK b, tests, summary : b = req.build /\ tests = req.tests /\ summary = req.summary
  OBVIOUS
<1>1. /\ req.at = "count" /\ Gathered /\ TestedOK /\ TestedOK' /\ tested' = tested /\ way' = way
      /\ b \in G!Orders
  BY <1>0 DEF DiagnosisInv, G!Conclude, TestedOK, Gathered
<1>2. PICK cut \in {G!Truncated(b, req.cap, tests)} \cup {FALSE : f \in ReadFaults \cap {"count"}} :
        req' = [at |-> "answered", build |-> b, summary |-> summary, tests |-> tests,
                truncated |-> cut, says |-> G!BuildVerdict(tests, b, summary, cut)]
  BY <1>0 DEF G!Conclude
<1>3. PICK T : tests \in Seq(T)
  BY <1>0, <1>1 DEF Gathered
<1>a. PICK says : says = G!BuildVerdict(tests, b, summary, cut)
  OBVIOUS
<1>4. /\ req'.at = "answered" /\ req'.build = b /\ req'.summary = summary /\ req'.tests = tests
      /\ req'.truncated = cut /\ req'.says = says
  BY <1>2, <1>a
<1>5. \A i \in DOMAIN tests : TestOK(tests[i], b) /\ tests[i].hist \in G!Failing(b)
  BY <1>0, <1>1 DEF Gathered, TestOK
<1>6. /\ G!Orders' = G!Orders /\ (G!Failing(b))' = G!Failing(b)
      /\ (G!OneFailurePerName(b))' <=> G!OneFailurePerName(b)
      /\ \A x : (G!LastGood(x, b))' = G!LastGood(x, b)
      /\ \A x : (G!FailedSince(x, b))' = G!FailedSince(x, b)
      /\ NewestBuild(b)' <=> NewestBuild(b)
  BY <1>1, TablesStand
<1>7. (G!WholeUnlessTruncated)'
  <2>1. ASSUME G!OneFailurePerName(b), "count" \notin ReadFaults
        PROVE  cut <=> \E h \in G!Failing(b) : FullName[h] \notin {FullName[tests[i].hist] : i \in DOMAIN tests}
    <3>1. Apart(tests, req.todo, FullName)
      BY <1>0, <1>1, <2>1 DEF Gathered
    <3>2. G!Truncated(b, req.cap, tests) <=>
            \E h \in G!Failing(b) : FullName[h] \notin {FullName[tests[i].hist] : i \in DOMAIN tests}
      BY <1>1, <1>3, <1>5, <3>1, WholeIs
    <3>3. cut = G!Truncated(b, req.cap, tests)
      BY <2>1
    <3>4. QED
      BY <3>2, <3>3
  <2>2. (G!Examines(b))' = {FullName[tests[i].hist] : i \in DOMAIN tests}
    BY <1>4 DEF G!Examines
  <2>3. QED
    BY <1>4, <1>6, <2>1, <2>2 DEF G!WholeUnlessTruncated, G!Examines
<1>8. ASSUME HistoryRead PROVE (G!ConfidentIsSupported)'
  <2>1. says.confidence = "high" => Supported(tests, b, summary, says)
    <3>1. Apart(tests, req.todo, Itself)
      BY <1>0, <1>1 DEF Gathered
    <3>2. QED
      BY <1>1, <1>3, <1>5, <1>8, <1>a, <3>1, SupportedIs
  <2>2. (G!Largest(req.tests, req.summary))' = G!Largest(tests, summary)
    BY <1>4 DEF G!Largest, G!Cluster, G!Key
  <2>3. (\A o \in G!SameLine(b) : o <= b)' <=> NewestBuild(b)
    BY <1>1 DEF NewestBuild, G!SameLine, G!Orders
  <2>4. {req'.tests[i].hist : i \in (G!Largest(req.tests, req.summary))'}
          = {tests[i].hist : i \in G!Largest(tests, summary)}
    BY <1>4, <2>2
  <2>5. \A x : G!Cardinality((G!FailedSince(x, b))') = Cardinality(G!FailedSince(x, b))
    BY <1>6, GCount
  <2>6. QED
    BY <1>1, <1>4, <1>6, <2>1, <2>3, <2>4, <2>5
       DEF G!ConfidentIsSupported, Supported, G!Answered
<1>9. (G!GapIsFailures)'
  <2>1. \A i \in DOMAIN tests : tests[i].good # 0 =>
          tests[i].gap <= Cardinality(G!FailedSince(tests[i].hist, b))
    BY <1>5 DEF TestOK
  <2>2. QED
    BY <1>4, <1>6, <2>1, GCount DEF G!GapIsFailures
<1>10. QED
  BY <1>1, <1>4, <1>7, <1>8, <1>9 DEF DiagnosisInv, HistoryRead, G!HistoryIsSupport

LEMMA DiagnosisStart == G!Init => DiagnosisInv
<1> SUFFICES ASSUME G!Init PROVE DiagnosisInv
  OBVIOUS
<1>1. tested = << >> /\ req = [at |-> "idle"]
  BY DEF G!Init, G!Idle
<1>2. tested \in Seq(Build)
  BY <1>1
<1>3. QED
  BY <1>1, <1>2 DEF DiagnosisInv, TestedOK

LEMMA DiagnosisStep ==
  ASSUME DiagnosisInv, [G!Next]_diagnosisVars
  PROVE  DiagnosisInv'
<1>1. CASE G!Next
  BY <1>1, IngestKeepsDiagnosis, DiagnoseKeeps, ExamineKeeps, ConcludeKeeps DEF G!Next
<1>2. CASE UNCHANGED diagnosisVars
  BY <1>2, DiagnosisStands
<1>3. QED
  BY <1>1, <1>2

LEMMA DiagnosisSteps == [AllNext]_allVars => [G!Next]_diagnosisVars
  BY DEF AllNext, allVars, diagnosisVars

LEMMA DiagnosisAlways == AllSpec => []DiagnosisInv
<1>1. AllInit => DiagnosisInv
  BY DiagnosisStart DEF AllInit
<1>2. DiagnosisInv /\ [AllNext]_allVars => DiagnosisInv'
  BY DiagnosisStep, DiagnosisSteps
<1>3. QED
  BY <1>1, <1>2, PTL DEF AllSpec

\* diagnose_failure: whatever is ingested while it reads, an answer that is not
\* marked as truncated has examined every failing test of the build, and a
\* truncated one has not, where no name stands for two failures and the count
\* does not fail; for any tests, names, cap and order the rows come in.
THEOREM WholeOrTruncated == AllSpec => []WholeUnlessTruncated
<1>1. DiagnosisInv => WholeUnlessTruncated
  BY DEF DiagnosisInv, WholeUnlessTruncated, G!WholeUnlessTruncated, G!Answered
<1>2. QED
  BY <1>1, DiagnosisAlways, PTL

\* evaluateBuildVerdict: where the history can be read and reaches two builds
\* back, a confident verdict stands on what the tables hold, whatever is ingested
\* while the tests are looked up, and the runs said to lie between a test's last
\* pass and its failure all failed.
THEOREM HistorySupports ==
  ASSUME HistoryRead
  PROVE  AllSpec => []HistoryIsSupport
<1>1. DiagnosisInv => HistoryIsSupport
  BY DEF DiagnosisInv, HistoryIsSupport, G!HistoryIsSupport, G!ConfidentIsSupported,
         G!GapIsFailures, G!Answered
<1>2. QED
  BY <1>1, DiagnosisAlways, PTL

=============================================================================
