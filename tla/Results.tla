------------------------------ MODULE Results ------------------------------
(***************************************************************************)
(* The rows of a build's tests. A build's tests are stored twice: from the *)
(* entries of the report the Allure generator made, and from the result    *)
(* files that were uploaded, whose text, labels, steps and attempts the    *)
(* report does not have. Both write the row of (build, history id), so     *)
(* that a test the generator gave another id would have two rows. A daily  *)
(* job deletes the bare one of such twins.                                 *)
(*                                                                         *)
(* A file and an entry are told apart by their place in the upload. Status *)
(* and text of a row are the files they come from.                         *)
(***************************************************************************)
EXTENDS Integers, FiniteSets, Sequences, SequencesExt

CONSTANTS
    Tests,       \* full name and history id, as reporters write them
    GivenIds,    \* [ids -> sets of ids]: what the generator makes of an id
    Stops,       \* times an attempt may end; 0 where the reporter told none
    MaxFiles,    \* bound: result files of the upload
    BatchSize,   \* 5000: twins one statement deletes
    Faults       \* what may fail: "listing", "entry", "parse", "insert", "enrich"

NoId == ""

RawIds == {t.id : t \in Tests}

Assumption ==
    /\ \A t, u \in Tests : t.id = u.id /\ t.id # NoId => t = u
    /\ NoId \in RawIds => GivenIds[NoId] = {NoId}
    /\ \A h \in RawIds : h \in GivenIds[h]
    /\ \A h, g \in RawIds : h # g => GivenIds[h] \cap GivenIds[g] = {}
    /\ Stops \subseteq Nat /\ {MaxFiles, BatchSize} \subseteq Nat \ {0}
    /\ Faults \subseteq {"listing", "entry", "parse", "insert", "enrich"}

VARIABLES
    at,        \* "uploaded", "published", "stored" or "done"
    files,     \* the uploaded results in the order of their file names
    report,    \* what the generator made of each: id and place in the listing
    raw,       \* places of the files that were parsed
    rows,      \* [key -> row] of test_results and the tables that refer to it
    failed     \* what has failed

vars == <<at, files, report, raw, rows, failed>>

Files  == {[name |-> t.name, id |-> t.id, stop |-> s, rich |-> r] :
              t \in Tests, s \in Stops, r \in BOOLEAN}
Places == DOMAIN files
Ids    == UNION {GivenIds[h] : h \in RawIds}

(* The partial unique index: one row per history id of the build; rows     *)
(* without one are told apart by who wrote them.                           *)
Key(id, n) == [id |-> id, n |-> IF id = NoId THEN n ELSE 0]
Keys       == [id : Ids, n : 0 .. 2 * MaxFiles]

Nothing == 0
Row == [name : {t.name : t \in Tests}, stop : Stops, status : Places, text : Places \cup {Nothing},
        rich : BOOLEAN, attempts : Seq(Places)]

TypeOK ==
    /\ at \in {"uploaded", "published", "stored", "done"}
    /\ files \in Seq(Files) /\ Len(files) \in 1 .. MaxFiles
    /\ report \in Seq([of : Places, id : Ids]) /\ raw \in Seq(Places)
    /\ DOMAIN rows \subseteq Keys /\ \A k \in DOMAIN rows : rows[k] \in Row
    /\ failed \subseteq Faults

Init ==
    /\ files \in UNION {[1 .. n -> Files] : n \in 1 .. MaxFiles}
    /\ at = "uploaded" /\ report = << >> /\ raw = << >> /\ rows = << >> /\ failed = {}

-----------------------------------------------------------------------------
(* The generator reads the same files. It may give a result another id,    *)
(* two attempts of a test two ids, and lists its entries by names of its   *)
(* own. Allure 2 has an entry for each attempt, Allure 3 marks all but the *)
(* last attempt of an id as retries, which parseStabilityEntries drops.    *)
LastOf(given) ==
    {finals \in SUBSET Places :
        /\ \A p, q \in finals : p # q => given[p] # given[q] \/ given[p] = NoId
        /\ \A p \in Places : given[p] = NoId => p \in finals
        /\ \A p \in Places : \E q \in finals : given[q] = given[p]
        /\ \A p \in finals, q \in Places :
               given[p] = given[q] /\ given[p] # NoId => files[q].stop <= files[p].stop}

Publish ==
    /\ at = "uploaded"
    /\ \E given \in [Places -> Ids] :
          /\ \A p \in Places : given[p] \in GivenIds[files[p].id]
          /\ \E listed \in {Places} \cup LastOf(given) : \E order \in SetToSeqs(listed) :
                report' = [i \in DOMAIN order |-> [of |-> order[i], id |-> given[order[i]]]]
    /\ at' = "published"
    /\ UNCHANGED <<files, raw, rows, failed>>

-----------------------------------------------------------------------------
(* historyIDsByFullName: the one id the parsed files have for a name. *)
RawIdsOf(parsed, n) == {files[p].id : p \in {q \in ToSet(parsed) : files[q].name = n}} \ {NoId}

RawId(parsed, n) ==
    LET ids == RawIdsOf(parsed, n) IN IF Cardinality(ids) = 1 THEN CHOOSE h \in ids : TRUE ELSE NoId

(* ambiguousStabilityFullNames: names more than one entry has. Entries are *)
(* places of the listing.                                                  *)
Named(entries, n)     == {i \in entries : files[report[i].of].name = n}
Ambiguous(entries, n) == Cardinality(Named(entries, n)) > 1

(* Mutant: the ids of the generated report are kept. *)
GeneratedId(parsed, entries, i) == report[i].id

(* The id an entry is stored under: the reporter's, if the name stands for *)
(* one test both among the files and in the report.                        *)
AdoptedId(parsed, entries, i) ==
    LET n == files[report[i].of].name
    IN  IF RawId(parsed, n) # NoId /\ ~Ambiguous(entries, n) THEN RawId(parsed, n) ELSE report[i].id

EntryKey(parsed, entries, i) == Key(AdoptedId(parsed, entries, i), report[i].of)

(* A row gives way to an attempt that ended no earlier: of the entries of  *)
(* a key, stored one after the other, the last of those that ended last.   *)
Overtakes(i, j) ==
    LET stop(l) == files[report[l].of].stop
    IN  stop(j) < stop(i) \/ (stop(j) = stop(i) /\ j <= i)

Stands(parsed, entries, i) ==
    \A j \in entries : EntryKey(parsed, entries, j) = EntryKey(parsed, entries, i) => Overtakes(i, j)

FromEntry(p) == [name |-> files[p].name, stop |-> files[p].stop, status |-> p,
                 text |-> Nothing, rich |-> FALSE, attempts |-> << >>]

(* InsertBatch: one statement per entry, in one transaction, of a build    *)
(* that has no rows yet.                                                   *)
Inserted(parsed, entries) ==
    LET key(i) == EntryKey(parsed, entries, i)
    IN  [k \in {key(i) : i \in entries} |->
            FromEntry(report[CHOOSE i \in entries : key(i) = k /\ Stands(parsed, entries, i)].of)]

(* The report's entries cannot be listed, or the build's row is not found: *)
(* nothing is stored of the tests.                                         *)
StoreNothing ==
    /\ at = "published" /\ "listing" \in Faults
    /\ at' = "done" /\ failed' = {"listing"}
    /\ UNCHANGED <<files, report, raw, rows>>

(* The first half of storeAndPruneBuild's bookkeeping: the report's        *)
(* entries are read, one of them perhaps not, and the uploaded files are   *)
(* parsed, all or none. A failure is logged, and what follows goes on.     *)
StoreEntries(skipped, unparsed, lost) ==
    /\ at = "published"
    /\ skipped \in SUBSET Places /\ Cardinality(skipped) <= 1
    /\ LET entries == {i \in DOMAIN report : report[i].of \notin skipped}
           parsed  == IF unparsed THEN << >> ELSE [p \in Places |-> p]
       IN  /\ rows' = IF lost THEN rows ELSE Inserted(parsed, entries)
           /\ raw' = parsed
           /\ at' = IF unparsed THEN "done" ELSE "stored"
    /\ failed' = {f \in Faults : \/ f = "entry" /\ skipped # {}
                                 \/ f = "parse" /\ unparsed
                                 \/ f = "insert" /\ lost}
    /\ skipped # {} => "entry" \in Faults
    /\ unparsed => "parse" \in Faults
    /\ lost => "insert" \in Faults
    /\ UNCHANGED <<files, report>>

-----------------------------------------------------------------------------
(* attemptsFromSiblings: the files of one id by the time they ended, ties  *)
(* in the order they were read.                                            *)
Siblings(p) == {q \in ToSet(raw) : files[q].id = files[p].id}

Attempts(p) ==
    IF Cardinality(Siblings(p)) < 2 THEN << >>
    ELSE SetToSortSeq(Siblings(p), LAMBDA q, r : \/ files[q].stop < files[r].stop
                                                 \/ files[q].stop = files[r].stop /\ q < r)

(* Mutant: the attempt that was read first stands for its test. *)
ReadFirst(p) == \A q \in Siblings(p) : p <= q

(* dedupeResultsByHistoryID: the first of those that ended last. *)
Survives(p) ==
    \A q \in Siblings(p) : \/ files[q].stop < files[p].stop
                           \/ files[q].stop = files[p].stop /\ p <= q

Deduped == {p \in ToSet(raw) : files[p].id = NoId \/ Survives(p)}

(* InsertBatchFull, in one transaction: what the report does not have is   *)
(* written to the row of the id; a test that has no row gets one.          *)
FileKey(p) == Key(files[p].id, MaxFiles + p)

EnrichedRow(p) ==
    LET tries == IF files[p].id = NoId THEN << >> ELSE Attempts(p)
        row == IF FileKey(p) \in DOMAIN rows THEN rows[FileKey(p)] ELSE FromEntry(p)
    IN  [row EXCEPT !.text = p, !.rich = files[p].rich \/ tries # << >>, !.attempts = tries]

Enriched ==
    LET written == {FileKey(p) : p \in Deduped}
    IN  [k \in DOMAIN rows \cup written |->
            IF k \in written THEN EnrichedRow(CHOOSE p \in Deduped : FileKey(p) = k) ELSE rows[k]]

Enrich(lost) ==
    /\ at = "stored"
    /\ lost => "enrich" \in Faults
    /\ rows' = IF lost THEN rows ELSE Enriched
    /\ failed' = failed \cup IF lost THEN {"enrich"} ELSE {}
    /\ at' = "done"
    /\ UNCHANGED <<files, report, raw>>

-----------------------------------------------------------------------------
(* Mutant: any other row of the name authorizes the deletion. *)
AnyTwin(k, s) == rows[s].name = rows[k].name /\ s.id # k.id

(* A richer row of the same name, under another id. *)
RicherTwin(k, s) == rows[s].name = rows[k].name /\ s.id # k.id /\ rows[s].rich

Shells == {k \in DOMAIN rows : /\ rows[k].name # "" /\ ~rows[k].rich
                               /\ \E s \in DOMAIN rows : RicherTwin(k, s)}

(* DeleteShellTwinBatch, one batch of the worker's loop: any BatchSize of  *)
(* the shells, or all if they are fewer.                                   *)
Clean(gone) ==
    /\ gone \subseteq Shells /\ gone # {}
    /\ \/ Cardinality(gone) = BatchSize
       \/ gone = Shells /\ Cardinality(gone) < BatchSize
    /\ rows' = [k \in DOMAIN rows \ gone |-> rows[k]]
    /\ UNCHANGED <<at, files, report, raw, failed>>

Next ==
    \/ Publish \/ StoreNothing
    \/ \E skipped \in SUBSET Places, unparsed, lost \in BOOLEAN : StoreEntries(skipped, unparsed, lost)
    \/ \E lost \in BOOLEAN : Enrich(lost)
    \/ \E gone \in SUBSET DOMAIN rows : Clean(gone)

Spec == Init /\ [][Next]_vars

-----------------------------------------------------------------------------
Rows(n) == {k \in DOMAIN rows : rows[k].name = n}

(* A name that stands for one test: one id in the upload, and one entry. *)
OneId(n)   == \E t \in Tests : t.id # NoId /\ \A p \in Places : files[p].name = n => files[p].id = t.id
OneTest(n) == OneId(n) /\ Cardinality(Named(DOMAIN report, n)) = 1

(* The ids the generator gave the attempts of a test. *)
Given(h) == {report[i].id : i \in {j \in DOMAIN report : files[report[j].of].id = h}}

EndedLast(p) == \A q \in Places : files[q].id = files[p].id => files[q].stop <= files[p].stop

(* A test has one row, however the ids of the two sources differ and       *)
(* whatever failed on the way, unless it failed for both.                  *)
OneRow ==
    at = "done" => \A n \in {t.name : t \in Tests} \ {""} : OneTest(n) =>
        /\ Cardinality(Rows(n)) <= 1
        /\ Rows(n) = {} => \/ failed = {"listing"}
                           \/ {"insert", "entry"} \cap failed # {} /\ {"parse", "enrich"} \cap failed # {}

(* With nothing failed, both the status and the text of a test the         *)
(* generator left whole are those of an attempt that ended last, in        *)
(* whatever order files and entries were listed.                           *)
LastAttemptCounts ==
    at = "done" /\ failed = {} =>
        \A k \in DOMAIN rows : k.id # NoId /\ Cardinality(Given(k.id)) = 1 =>
            /\ EndedLast(rows[k].status)
            /\ rows[k].text # Nothing => EndedLast(rows[k].text)

RowPerTest == OneRow /\ LastAttemptCounts

(* The clean-up never takes the last row of a test, nor one that has text, *)
(* labels, steps or attempts.                                              *)
LastCopyKept ==
    [][/\ \A n \in {t.name : t \in Tests} : Rows(n) # {} => Rows(n)' # {}
       /\ \A k \in DOMAIN rows : rows[k].rich => k \in DOMAIN rows']_vars

-----------------------------------------------------------------------------
(* What comments promise and the code does not keep. *)

(* "so the stability row and its enrichment come from the same Allure      *)
(* attempt": of attempts that end together or tell no time, one side takes *)
(* the first and the other the last.                                       *)
SameAttempt ==
    at = "done" /\ failed = {} =>
        \A k \in DOMAIN rows : k.id # NoId /\ Cardinality(Given(k.id)) = 1 =>
            rows[k].text \in {Nothing, rows[k].status}

(* "Entries with such a fullName keep their generated historyId instead",  *)
(* lest several tests become a single row: the clean-up leaves fewer rows  *)
(* than the report has tests of the name.                                  *)
SplitsKept ==
    at = "done" /\ failed = {} =>
        \A n \in {t.name : t \in Tests} : OneId(n) =>
            Cardinality({report[i].id : i \in Named(DOMAIN report, n)} \ {NoId})
                <= Cardinality({k \in Rows(n) : k.id # NoId})

(* "each own test_parameters rows, so the zero-children requirement        *)
(* excludes them": a test that shares its name and has nothing but a       *)
(* status is taken for the shell of the other.                             *)
EveryTestKept ==
    at = "done" /\ failed = {} =>
        \A p \in Places : \E k \in DOMAIN rows : k.id = files[p].id
=============================================================================
