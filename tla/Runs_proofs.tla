----------------------------- MODULE Runs_proofs -----------------------------
(***************************************************************************)
(* Proofs about Pipelines, as the part of MCBuildRuns: what the page of    *)
(* runs and the tool of agents say of builds while builds are described,   *)
(* pruned, and branches become the default between their queries.          *)
(***************************************************************************)
EXTENDS MCBuildRuns, Sequences, FiniteSetTheorems, WellFoundedInduction, TLAPS

-----------------------------------------------------------------------------
(* The inductive invariant: builds. *)

\* Of the statements that describe a build, only the one that stores its counts fails.
Solid == QueryFaults \cap {"branch", "rows", "run"} = {}

\* What is still to be written of a build, and what has been.
AllureAt(t, w) ==
  \/ t = <<"branch", "rows", "stats", "run">> /\ w = {}
  \/ t = <<"rows", "stats", "run">> /\ w \subseteq {"branch"} /\ (Solid => {"branch"} \subseteq w)
  \/ t = <<"stats", "run">> /\ w \subseteq {"branch", "rows"} /\ (Solid => {"branch", "rows"} \subseteq w)
  \/ t = <<"run">> /\ w \subseteq {"branch", "rows", "stats"} /\ (Solid => {"branch", "rows"} \subseteq w)
  \/ t = << >> /\ (Solid => {"branch", "rows", "run"} \subseteq w)

PlaywrightAt(t, w) ==
  \/ t = <<"stats", "run", "branch", "rows">> /\ w = {}
  \/ t = <<"run", "branch", "rows">> /\ w \subseteq {"stats"}
  \/ t = <<"branch", "rows">> /\ w \subseteq {"stats", "run"} /\ (Solid => {"run"} \subseteq w)
  \/ t = <<"rows">> /\ w \subseteq {"stats", "run", "branch"} /\ (Solid => {"run", "branch"} \subseteq w)
  \/ t = << >> /\ (Solid => {"branch", "rows", "run"} \subseteq w)

DescribedAt(source, t, w) == IF source = "allure" THEN AllureAt(t, w) ELSE PlaywrightAt(t, w)

TablesOK ==
  /\ sent \in Seq(Uploads) /\ written \in Seq(SUBSET Q!Pieces) /\ pending \in Seq(Seq(Q!Pieces))
  /\ Len(written) = Len(sent) /\ Len(pending) = Len(sent)
  /\ gone \subseteq Q!Builds
  /\ \A b \in Q!Builds : DescribedAt(sent[b].source, pending[b], written[b])
  /\ \A b, c \in Q!Here : sent[c].suite = sent[b].suite /\ c < b => pending[c] = << >>

\* What a step never takes back.
Kept ==
  /\ Q!Builds \subseteq Q!Builds'
  /\ \A b \in Q!Builds : /\ sent'[b] = sent[b]
                         /\ pending[b] = << >> => pending'[b] = << >> /\ written'[b] = written[b]

-----------------------------------------------------------------------------
(* Builds and their statements. *)

LEMMA RunsConstants == Q!Assumption
  BY PipelinesAssumption

\* One statement, well or not.
LEMMA Statement ==
  ASSUME NEW s, NEW t \in Seq(Q!Pieces), NEW w \in SUBSET Q!Pieces, DescribedAt(s, t, w), t # << >>
  PROVE  /\ Head(t) \in Q!Pieces /\ Tail(t) \in Seq(Q!Pieces)
         /\ DescribedAt(s, Tail(t), w \cup {Head(t)})
         /\ Head(t) \in QueryFaults => DescribedAt(s, Tail(t), w)
<1>1. \A a, b, c, d : /\ Head(<<a, b, c, d>>) = a /\ Tail(<<a, b, c, d>>) = <<b, c, d>>
                      /\ Head(<<b, c, d>>) = b /\ Tail(<<b, c, d>>) = <<c, d>>
                      /\ Head(<<c, d>>) = c /\ Tail(<<c, d>>) = <<d>>
                      /\ Head(<<d>>) = d /\ Tail(<<d>>) = << >>
  OBVIOUS
<1>2. Head(t) \in Q!Pieces /\ Tail(t) \in Seq(Q!Pieces)
  OBVIOUS
<1>3. CASE s = "allure"
  <2>1. AllureAt(t, w)
    BY <1>3 DEF DescribedAt
  <2>2. AllureAt(Tail(t), w \cup {Head(t)}) /\ (Head(t) \in QueryFaults => AllureAt(Tail(t), w))
    <3>1. CASE t = <<"branch", "rows", "stats", "run">> /\ w = {}
      <4>1. Head(t) = "branch" /\ Tail(t) = <<"rows", "stats", "run">>
        BY <3>1, <1>1
      <4> QED BY <4>1, <3>1 DEF AllureAt, Solid
    <3>2. CASE t = <<"rows", "stats", "run">> /\ w \subseteq {"branch"} /\ (Solid => {"branch"} \subseteq w)
      <4>1. Head(t) = "rows" /\ Tail(t) = <<"stats", "run">>
        BY <3>2, <1>1
      <4> QED BY <4>1, <3>2 DEF AllureAt, Solid
    <3>3. CASE t = <<"stats", "run">> /\ w \subseteq {"branch", "rows"} /\ (Solid => {"branch", "rows"} \subseteq w)
      <4>1. Head(t) = "stats" /\ Tail(t) = <<"run">>
        BY <3>3, <1>1
      <4> QED BY <4>1, <3>3 DEF AllureAt, Solid
    <3>4. CASE t = <<"run">> /\ w \subseteq {"branch", "rows", "stats"} /\ (Solid => {"branch", "rows"} \subseteq w)
      <4>1. Head(t) = "run" /\ Tail(t) = << >>
        BY <3>4, <1>1
      <4> QED BY <4>1, <3>4 DEF AllureAt, Solid
    <3> QED BY <2>1, <3>1, <3>2, <3>3, <3>4 DEF AllureAt
  <2> QED BY <1>2, <1>3, <2>2 DEF DescribedAt
<1>4. CASE s # "allure"
  <2>1. PlaywrightAt(t, w)
    BY <1>4 DEF DescribedAt
  <2>2. PlaywrightAt(Tail(t), w \cup {Head(t)}) /\ (Head(t) \in QueryFaults => PlaywrightAt(Tail(t), w))
    <3>1. CASE t = <<"stats", "run", "branch", "rows">> /\ w = {}
      <4>1. Head(t) = "stats" /\ Tail(t) = <<"run", "branch", "rows">>
        BY <3>1, <1>1
      <4> QED BY <4>1, <3>1 DEF PlaywrightAt, Solid
    <3>2. CASE t = <<"run", "branch", "rows">> /\ w \subseteq {"stats"}
      <4>1. Head(t) = "run" /\ Tail(t) = <<"branch", "rows">>
        BY <3>2, <1>1
      <4> QED BY <4>1, <3>2 DEF PlaywrightAt, Solid
    <3>3. CASE t = <<"branch", "rows">> /\ w \subseteq {"stats", "run"} /\ (Solid => {"run"} \subseteq w)
      <4>1. Head(t) = "branch" /\ Tail(t) = <<"rows">>
        BY <3>3, <1>1
      <4> QED BY <4>1, <3>3 DEF PlaywrightAt, Solid
    <3>4. CASE t = <<"rows">> /\ w \subseteq {"stats", "run", "branch"} /\ (Solid => {"run", "branch"} \subseteq w)
      <4>1. Head(t) = "rows" /\ Tail(t) = << >>
        BY <3>4, <1>1
      <4> QED BY <4>1, <3>4 DEF PlaywrightAt, Solid
    <3> QED BY <2>1, <3>1, <3>2, <3>3, <3>4 DEF PlaywrightAt
  <2> QED BY <1>2, <1>4, <2>2 DEF DescribedAt
<1> QED BY <1>3, <1>4

LEMMA PiecesAre ==
  /\ \A s : Q!Order(s) \in Seq(Q!Pieces) /\ DescribedAt(s, Q!Order(s), {}) /\ Q!Order(s) # << >>
<1> SUFFICES ASSUME NEW s
             PROVE  Q!Order(s) \in Seq(Q!Pieces) /\ DescribedAt(s, Q!Order(s), {}) /\ Q!Order(s) # << >>
  OBVIOUS
<1>1. {"branch", "rows", "stats", "run"} \subseteq Q!Pieces
  BY DEF Q!Pieces
<1>2. \A S : \A a, b, c, d \in S : <<a, b, c, d>> \in Seq(S) /\ <<a, b, c, d>> # << >>
  OBVIOUS
<1>3. Q!Order(s) \in Seq(Q!Pieces) /\ Q!Order(s) # << >>
  BY <1>1, <1>2 DEF Q!Order
<1> QED BY <1>3 DEF Q!Order, DescribedAt, AllureAt, PlaywrightAt

\* Tables that stay as they are, but for what is gone.
LEMMA TablesStay ==
  ASSUME TablesOK, sent' = sent, written' = written, pending' = pending,
         gone \subseteq gone', gone' \subseteq Q!Builds
  PROVE  TablesOK' /\ Kept
<1>1. Q!Builds' = Q!Builds /\ Q!Here' \subseteq Q!Here
  BY DEF Q!Builds, Q!Here
<1> QED BY <1>1 DEF TablesOK, Kept

LEMMA Appended ==
  ASSUME NEW S, NEW s \in Seq(S), NEW e \in S
  PROVE  /\ Append(s, e) \in Seq(S) /\ Len(Append(s, e)) = Len(s) + 1
         /\ \A b \in 1 .. Len(s) : Append(s, e)[b] = s[b]
         /\ Append(s, e)[Len(s) + 1] = e
  OBVIOUS

LEMMA ReserveKeeps ==
  ASSUME TablesOK, NEW b \in Uploads, Q!Reserve(b)
  PROVE  TablesOK' /\ Kept
<1>1. /\ sent' = Append(sent, b) /\ written' = Append(written, {})
      /\ pending' = Append(pending, Q!Order(b.source)) /\ gone' = gone
      /\ \A c \in Q!Here : sent[c].suite = b.suite => pending[c] = << >>
  BY DEF Q!Reserve
<1>2. /\ sent \in Seq(Uploads) /\ written \in Seq(SUBSET Q!Pieces) /\ pending \in Seq(Seq(Q!Pieces))
      /\ Len(written) = Len(sent) /\ Len(pending) = Len(sent)
  BY DEF TablesOK
<1> DEFINE n == Len(sent) + 1
<1>3. n \in Nat /\ Q!Builds = 1 .. Len(sent) /\ Len(sent) \in Nat
  BY <1>2 DEF Q!Builds
<1>4. /\ sent' \in Seq(Uploads) /\ Len(sent') = n /\ sent'[n] = b
      /\ \A c \in Q!Builds : sent'[c] = sent[c]
  BY <1>1, <1>2, <1>3, Appended
<1>5. /\ written' \in Seq(SUBSET Q!Pieces) /\ Len(written') = n /\ written'[n] = {}
      /\ \A c \in Q!Builds : written'[c] = written[c]
  <2>1. {} \in SUBSET Q!Pieces
    OBVIOUS
  <2> QED BY <1>1, <1>2, <1>3, <2>1, Appended
<1>6. /\ pending' \in Seq(Seq(Q!Pieces)) /\ Len(pending') = n /\ pending'[n] = Q!Order(b.source)
      /\ \A c \in Q!Builds : pending'[c] = pending[c]
  BY <1>1, <1>2, <1>3, PiecesAre, Appended
<1>7. Q!Builds' = Q!Builds \cup {n} /\ n \notin Q!Builds /\ \A c \in Q!Builds : c < n
  <2>1. Q!Builds' = 1 .. n
    BY <1>4 DEF Q!Builds
  <2> HIDE DEF Q!Builds
  <2> QED BY <2>1, <1>3
<1> HIDE DEF n
<1>8. Q!Here' = Q!Here \cup {n} /\ Q!Here \subseteq Q!Builds
  <2>1. gone \subseteq Q!Builds
    BY DEF TablesOK
  <2> QED BY <2>1, <1>1, <1>7 DEF Q!Here
<1>9. \A c \in Q!Builds' : DescribedAt(sent'[c].source, pending'[c], written'[c])
  <2>1. DescribedAt(b.source, Q!Order(b.source), {})
    BY PiecesAre
  <2> QED BY <2>1, <1>4, <1>5, <1>6, <1>7 DEF TablesOK
<1>10. \A c, d \in Q!Here' : sent'[d].suite = sent'[c].suite /\ d < c => pending'[d] = << >>
  <2> SUFFICES ASSUME NEW c \in Q!Here', NEW d \in Q!Here', sent'[d].suite = sent'[c].suite, d < c
               PROVE  pending'[d] = << >>
    OBVIOUS
  <2>1. \A i \in Q!Builds : i < n /\ i \in Nat
    BY <1>3, <1>7
  <2>2. d \in Q!Here
    <3>1. d # n
      <4>1. ~(n < n) /\ \A i \in Q!Builds : ~(n < i)
        BY <1>3, <1>7, <2>1 DEF n
      <4> QED BY <4>1, <1>8
    <3> QED BY <3>1, <1>8
  <2>3. CASE c = n
    BY <2>2, <2>3, <1>1, <1>4, <1>6, <1>8
  <2>4. CASE c # n
    <3>1. c \in Q!Here /\ pending'[d] = pending[d] /\ sent'[c] = sent[c] /\ sent'[d] = sent[d]
      BY <2>2, <2>4, <1>4, <1>6, <1>8
    <3> QED BY <3>1, <2>2 DEF TablesOK
  <2> QED BY <2>3, <2>4
<1>11. gone' \subseteq Q!Builds'
  BY <1>1, <1>7 DEF TablesOK
<1>12. TablesOK'
  BY <1>4, <1>5, <1>6, <1>9, <1>10, <1>11 DEF TablesOK
<1> QED BY <1>4, <1>5, <1>6, <1>7, <1>12 DEF Kept

LEMMA DescribeKeeps ==
  ASSUME TablesOK, NEW b \in Q!Builds, NEW failing \in BOOLEAN, Q!Describe(b, failing)
  PROVE  TablesOK' /\ Kept
<1> DEFINE t == pending[b]
           w == written[b]
           v == w \cup IF failing THEN {} ELSE {Head(t)}
<1>1. /\ t # << >> /\ (failing => Head(t) \in QueryFaults)
      /\ written' = [written EXCEPT ![b] = v] /\ pending' = [pending EXCEPT ![b] = Tail(t)]
      /\ sent' = sent /\ gone' = gone
  BY DEF Q!Describe
<1>2. /\ sent \in Seq(Uploads) /\ written \in Seq(SUBSET Q!Pieces) /\ pending \in Seq(Seq(Q!Pieces))
      /\ Len(written) = Len(sent) /\ Len(pending) = Len(sent) /\ Q!Builds = 1 .. Len(sent)
  BY DEF TablesOK, Q!Builds
<1>3. t \in Seq(Q!Pieces) /\ w \in SUBSET Q!Pieces /\ DescribedAt(sent[b].source, t, w)
  BY <1>2 DEF TablesOK
<1>4. /\ Head(t) \in Q!Pieces /\ Tail(t) \in Seq(Q!Pieces)
      /\ DescribedAt(sent[b].source, Tail(t), w \cup {Head(t)})
      /\ Head(t) \in QueryFaults => DescribedAt(sent[b].source, Tail(t), w)
  <2> HIDE DEF t, w
  <2> QED BY <1>1, <1>3, Statement
<1>5. v \in SUBSET Q!Pieces /\ DescribedAt(sent[b].source, Tail(t), v)
  BY <1>1, <1>3, <1>4
<1> HIDE DEF v
<1>6. /\ \A c \in Q!Builds \ {b} : written'[c] = written[c] /\ pending'[c] = pending[c]
      /\ written'[b] = v /\ pending'[b] = Tail(t)
      /\ written' \in Seq(SUBSET Q!Pieces) /\ Len(written') = Len(sent)
      /\ pending' \in Seq(Seq(Q!Pieces)) /\ Len(pending') = Len(sent)
  BY <1>1, <1>2, <1>4, <1>5
<1>7. Q!Builds' = Q!Builds /\ Q!Here' = Q!Here /\ Q!Here \subseteq Q!Builds
  BY <1>1 DEF Q!Builds, Q!Here
<1> HIDE DEF t, w
<1>8. \A c \in Q!Builds : DescribedAt(sent[c].source, pending'[c], written'[c])
  BY <1>5, <1>6 DEF TablesOK
<1>9. \A c \in Q!Builds : pending[c] = << >> => pending'[c] = << >> /\ written'[c] = written[c]
  BY <1>1, <1>6 DEF t
<1>10. TablesOK'
  BY <1>1, <1>2, <1>6, <1>7, <1>8, <1>9 DEF TablesOK
<1> QED BY <1>1, <1>7, <1>9, <1>10 DEF Kept

LEMMA TablesStep ==
  ASSUME TablesOK, [AllNext]_allVars
  PROVE  TablesOK' /\ Kept
<1>1. CASE UNCHANGED runVars
  BY <1>1, TablesStay DEF runVars, TablesOK
<1>2. CASE Q!Next
  <2>1. CASE \E b \in Uploads : Q!Reserve(b)
    BY <2>1, ReserveKeeps
  <2>2. CASE \E b \in Q!Builds, failing \in BOOLEAN : Q!Describe(b, failing)
    BY <2>2, DescribeKeeps
  <2>3. CASE \E b \in Q!Builds : Q!Delete(b)
    <3>1. PICK b \in Q!Builds : Q!Delete(b)
      BY <2>3
    <3>2. sent' = sent /\ written' = written /\ pending' = pending /\ gone' = gone \cup {b}
      BY <3>1 DEF Q!Delete
    <3> QED BY <3>2, TablesStay DEF TablesOK
  <2>4. CASE sent' = sent /\ written' = written /\ pending' = pending /\ gone' = gone
    BY <2>4, TablesStay DEF TablesOK
  <2> QED BY <1>2, <2>1, <2>2, <2>3, <2>4
          DEF Q!Next, Q!SetDefault, Q!ListRuns, Q!GetRun, Q!Await, Q!CountOrigins, Q!TagFailures,
              Q!NextPage, Q!ListBuilds, Q!ListTests, Q!NextTool, Q!tables
<1> QED BY <1>1, <1>2 DEF AllNext, allVars, runVars

-----------------------------------------------------------------------------
(* The tool of agents. *)

ToolFields == {"at", "suite", "run", "tags", "listed", "ready", "left", "warned"}

\* What is tagged of the builds that were described when the tags were read.
Tagged(b) == b \in Q!Builds /\ pending[b] = << >> /\ Q!FailingRows({b}) \subseteq tool.tags

ToolOK ==
  /\ tool.at \in {"idle", "tags", "tests", "answered"}
  /\ tool.at # "idle" => DOMAIN tool = ToolFields
  /\ tool.at = "tags" => tool.listed = {}
  /\ tool.at \in {"tests", "answered"} /\ ~tool.warned =>
       /\ \A b \in tool.ready : Tagged(b)
       /\ \A r \in tool.listed : r[1] \in tool.ready => r \in tool.tags

\* A failing row of several builds is one of its build.
LEMMA RowsOfEach ==
  ASSUME NEW B, NEW b \in B
  PROVE  Q!FailingRows({b}) \subseteq Q!FailingRows(B)
  BY DEF Q!FailingRows

\* A build that is described has the rows it had.
LEMMA RowsStay ==
  ASSUME Kept, NEW b \in Q!Builds, pending[b] = << >>
  PROVE  Q!FailingRows({b})' = Q!FailingRows({b})
<1>1. sent'[b] = sent[b] /\ written'[b] = written[b]
  BY DEF Kept
<1>2. Q!RowsOf(b)' = Q!RowsOf(b)
  BY <1>1 DEF Q!RowsOf
<1>3. ASSUME NEW r \in {b} \X Tests
      PROVE  Q!HasFailed(r[1], r[2])' <=> Q!HasFailed(r[1], r[2])
  <2>1. r[1] = b
    OBVIOUS
  <2> QED BY <2>1, <1>2 DEF Q!HasFailed
<1> QED BY <1>3 DEF Q!FailingRows

LEMMA ToolStays ==
  ASSUME ToolOK, Kept, tool' = tool
  PROVE  ToolOK'
<1>1. ASSUME NEW b, Tagged(b) PROVE Tagged(b)'
  <2>1. b \in Q!Builds /\ pending[b] = << >> /\ Q!FailingRows({b}) \subseteq tool.tags
    BY <1>1 DEF Tagged
  <2>2. b \in Q!Builds' /\ pending'[b] = << >>
    BY <2>1 DEF Kept
  <2>3. Q!FailingRows({b})' = Q!FailingRows({b})
    BY <2>1, RowsStay
  <2> QED BY <2>1, <2>2, <2>3 DEF Tagged
<1> QED BY <1>1 DEF ToolOK

\* All of the rows, when there are no more than the tool asks for.
LEMMA AllOrCut ==
  ASSUME NEW rows, IsFiniteSet(rows), ~Q!IsCut(rows), NEW some \in Q!Limited(rows, ToolCap)
  PROVE  some = rows
<1>1. Q!Cardinality(rows) = Cardinality(rows) /\ Q!Cardinality(some) = Cardinality(some)
  BY DEF Q!Cardinality, Cardinality
<1>2. Cardinality(rows) \in Nat /\ ToolCap \in Nat
  BY FS_CardinalityType, RunsConstants DEF Q!Assumption
<1>3. ~ (Cardinality(rows) > ToolCap)
  BY <1>1 DEF Q!IsCut
<1>4. some \subseteq rows
      /\ Cardinality(some) = IF Cardinality(rows) < ToolCap THEN Cardinality(rows) ELSE ToolCap
  BY <1>1 DEF Q!Limited
<1>5. Cardinality(some) = Cardinality(rows)
  BY <1>2, <1>3, <1>4
<1> QED BY <1>4, <1>5, FS_Subset, FS_CardinalityType

LEMMA RowsFinite ==
  ASSUME TablesOK, NEW B \in SUBSET Q!Builds
  PROVE  IsFiniteSet(Q!FailingRows(B))
<1>1. Len(sent) \in Nat
  BY DEF TablesOK
<1>2. IsFiniteSet(1 .. Len(sent))
  BY <1>1, FS_Interval
<1>3. IsFiniteSet(B)
  BY <1>2, FS_Subset DEF Q!Builds
<1>4. Q!IsFiniteSet(Tests) <=> IsFiniteSet(Tests)
  BY DEF Q!IsFiniteSet, IsFiniteSet
<1>5. IsFiniteSet(B \X Tests)
  BY <1>3, <1>4, FS_Product, RunsConstants DEF Q!Assumption
<1> QED BY <1>5, FS_Subset DEF Q!FailingRows

LEMMA TagsKeep ==
  ASSUME TablesOK, ToolOK, NEW failing \in BOOLEAN, Q!TagFailures(failing)
  PROVE  ToolOK'
<1> DEFINE all  == {b \in Q!BuildsOf(tool.run) : sent[b].suite = tool.suite}
           rows == Q!FailingRows(all)
<1>1. PICK some \in (IF failing THEN {{}} ELSE Q!Limited(rows, ToolCap)) :
        tool' = [tool EXCEPT !.at = "tests", !.tags = some, !.warned = failing \/ Q!IsCut(rows),
                             !.ready = {b \in all : Q!Done(b)}]
  BY DEF Q!TagFailures
<1>2. tool.at = "tags" /\ sent' = sent /\ written' = written /\ pending' = pending /\ gone' = gone
  BY DEF Q!TagFailures, Q!tables
<1>3. DOMAIN tool = ToolFields /\ tool.listed = {}
  BY <1>2 DEF ToolOK
<1> HIDE DEF rows, all
<1>4. /\ tool'.at = "tests" /\ tool'.tags = some /\ tool'.warned = (failing \/ Q!IsCut(rows))
      /\ tool'.ready = {b \in all : Q!Done(b)} /\ tool'.listed = {} /\ DOMAIN tool' = ToolFields
  BY <1>1, <1>3 DEF ToolFields
<1>5. all \subseteq Q!Builds
  BY DEF all, Q!BuildsOf, Q!Here
<1>6. ASSUME ~tool'.warned, NEW b \in tool'.ready PROVE Tagged(b)'
  <2>1. ~failing /\ ~Q!IsCut(rows)
    BY <1>4, <1>6
  <2>2. some \in Q!Limited(rows, ToolCap)
    BY <1>1, <2>1
  <2>3. IsFiniteSet(rows)
    BY <1>5, RowsFinite DEF rows
  <2>4. some = rows
    BY <2>1, <2>2, <2>3, AllOrCut
  <2>5. b \in all /\ b \in Q!Builds /\ pending[b] = << >>
    BY <1>4, <1>5, <1>6 DEF Q!Done
  <2>6. Q!FailingRows({b}) \subseteq rows
    BY <2>5, RowsOfEach DEF rows
  <2>7. Q!FailingRows({b})' = Q!FailingRows({b}) /\ Q!Builds' = Q!Builds
    BY <1>2 DEF Q!FailingRows, Q!HasFailed, Q!RowsOf, Q!Builds
  <2> QED BY <1>2, <1>4, <2>4, <2>5, <2>6, <2>7 DEF Tagged
<1> QED BY <1>4, <1>6 DEF ToolOK

LEMMA TestsKeep ==
  ASSUME TablesOK, ToolOK, NEW b \in Q!Builds, Q!ListTests(b)
  PROVE  ToolOK'
<1> DEFINE rows == Q!FailingRows({b} \cap Q!Here)
<1>1. PICK some \in SUBSET rows :
        tool' = [tool EXCEPT !.at = IF tool.left = {b} THEN "answered" ELSE @,
                             !.left = @ \ {b}, !.listed = @ \cup some]
  BY DEF Q!ListTests
<1>2. tool.at = "tests" /\ sent' = sent /\ written' = written /\ pending' = pending /\ gone' = gone
  BY DEF Q!ListTests, Q!tables
<1>3. DOMAIN tool = ToolFields
  BY <1>2 DEF ToolOK
<1>4. /\ tool'.at \in {"tests", "answered"} /\ tool'.tags = tool.tags /\ tool'.warned = tool.warned
      /\ tool'.ready = tool.ready /\ tool'.listed = tool.listed \cup some /\ DOMAIN tool' = ToolFields
  BY <1>1, <1>2, <1>3 DEF ToolFields
<1>5. ASSUME ~tool'.warned, NEW c \in tool'.ready PROVE Tagged(c)'
  <2>1. Tagged(c)
    BY <1>2, <1>4, <1>5 DEF ToolOK
  <2>2. Q!FailingRows({c})' = Q!FailingRows({c}) /\ Q!Builds' = Q!Builds
    BY <1>2 DEF Q!FailingRows, Q!HasFailed, Q!RowsOf, Q!Builds
  <2> QED BY <1>2, <1>4, <2>1, <2>2 DEF Tagged
<1>6. ASSUME ~tool'.warned, NEW r \in tool'.listed, r[1] \in tool'.ready PROVE r \in tool'.tags
  <2>1. CASE r \in tool.listed
    BY <2>1, <1>2, <1>4, <1>6 DEF ToolOK
  <2>2. CASE r \in some
    <3>1. r \in rows /\ r[1] = b
      BY <2>2 DEF Q!FailingRows
    <3>2. r \in Q!FailingRows({b})
      BY <3>1 DEF Q!FailingRows
    <3>3. Tagged(b)
      BY <1>2, <1>4, <1>6, <3>1 DEF ToolOK
    <3> QED BY <3>2, <3>3, <1>4 DEF Tagged
  <2> QED BY <2>1, <2>2, <1>4, <1>6
<1> QED BY <1>4, <1>5, <1>6 DEF ToolOK

LEMMA ToolStep ==
  ASSUME TablesOK, ToolOK, [AllNext]_allVars
  PROVE  ToolOK'
<1>1. Kept
  BY TablesStep
<1>2. CASE tool' = tool
  BY <1>1, <1>2, ToolStays
<1>3. CASE Q!Next /\ tool' # tool
  <2>1. CASE \E failing \in BOOLEAN : Q!TagFailures(failing)
    BY <2>1, TagsKeep
  <2>2. CASE \E b \in Q!Builds : Q!ListTests(b)
    BY <2>2, TestsKeep
  <2>3. CASE Q!NextTool
    <3>1. tool' = [at |-> "idle"]
      BY <2>3 DEF Q!NextTool, Q!Quiet
    <3> QED BY <3>1 DEF ToolOK
  <2>4. CASE \E s \in Suites, k \in Runs : Q!ListBuilds(s, k)
    <3>1. tool'.at = "tags" /\ DOMAIN tool' = ToolFields /\ tool'.listed = {}
      BY <2>4 DEF Q!ListBuilds, ToolFields
    <3> QED BY <3>1 DEF ToolOK
  <2> QED BY <1>3, <2>1, <2>2, <2>3, <2>4
          DEF Q!Next, Q!Reserve, Q!Describe, Q!Delete, Q!SetDefault, Q!ListRuns, Q!GetRun, Q!Await,
              Q!CountOrigins, Q!NextPage, Q!requests
<1> QED BY <1>2, <1>3 DEF AllNext, allVars, runVars

LEMMA RunsStart == Q!Init => TablesOK /\ ToolOK
<1> SUFFICES ASSUME Q!Init PROVE TablesOK /\ ToolOK
  OBVIOUS
<1>1. sent = << >> /\ written = << >> /\ pending = << >> /\ gone = {} /\ tool = [at |-> "idle"]
  BY DEF Q!Init, Q!Quiet
<1>2. Q!Builds = {} /\ Q!Here = {}
  BY <1>1 DEF Q!Builds, Q!Here
<1> QED BY <1>1, <1>2 DEF TablesOK, ToolOK

-----------------------------------------------------------------------------
(* Of a test of a build that was described when diagnose_pipeline read the *)
(* origins of failures, the tool says where its failure comes from, or it  *)
(* warns: the rows of a build that is described are there to stay, and a   *)
(* list that may have been cut is longer than what it was asked for.       *)
THEOREM TestsAreTagged == AllSpec => []TaggedUnlessWarned
<1>1. AllInit => TablesOK /\ ToolOK
  BY RunsStart DEF AllInit
<1>2. TablesOK /\ ToolOK /\ [AllNext]_allVars => (TablesOK /\ ToolOK)'
  BY TablesStep, ToolStep
<1>3. ToolOK => TaggedUnlessWarned
  BY DEF ToolOK, TaggedUnlessWarned, Q!TaggedUnlessWarned
<1> QED BY <1>1, <1>2, <1>3, PTL DEF AllSpec

-----------------------------------------------------------------------------
(* Where the failures of a run come from. *)

\* A set of builds has a latest one.
LEMMA LatestIsLast ==
  ASSUME NEW n \in Nat, NEW B \in SUBSET (1 .. n), B # {}
  PROVE  Q!Latest(B) \in B /\ \A c \in B : c <= Q!Latest(B)
<1> DEFINE D == {d \in Nat : n - d \in B}
<1>1. PICK b \in B : TRUE
  OBVIOUS
<1>2. n - b \in D
  OBVIOUS
<1>3. PICK d \in D : \A e \in D : ~(<<e, d>> \in OpToRel(<, Nat))
  <2>1. D \subseteq Nat /\ D # {}
    BY <1>2
  <2> HIDE DEF D
  <2> QED BY <2>1, NatLessThanWellFounded, WFMin
<1>4. \A e \in D : ~(e < d)
  BY <1>3 DEF OpToRel
<1>5. n - d \in B /\ \A c \in B : c <= n - d
  <2> SUFFICES ASSUME NEW c \in B PROVE c <= n - d
    BY <1>3
  <2>1. n - c \in D
    OBVIOUS
  <2> QED BY <2>1, <1>4
<1> HIDE DEF D
<1> QED BY <1>5 DEF Q!Latest

\* What is written of builds that are described, and of those that are not.
LEMMA Described ==
  ASSUME TablesOK, Solid, NEW b \in Q!Builds
  PROVE  /\ pending[b] = << >> => {"branch", "rows", "run"} \subseteq written[b]
         /\ {"rows", "run"} \subseteq written[b] => pending[b] = << >>
<1> DEFINE t == pending[b]
           w == written[b]
<1>1. DescribedAt(sent[b].source, t, w)
  BY DEF TablesOK
<1>2. \A i, j, k, l : /\ <<i>> # << >> /\ <<i, j>> # << >>
                      /\ <<i, j, k>> # << >> /\ <<i, j, k, l>> # << >>
  OBVIOUS
<1> HIDE DEF t, w
<1>3. CASE sent[b].source = "allure"
  BY <1>1, <1>2, <1>3 DEF DescribedAt, AllureAt, t, w
<1>4. CASE sent[b].source # "allure"
  BY <1>1, <1>2, <1>4 DEF DescribedAt, PlaywrightAt, t, w
<1> QED BY <1>3, <1>4

\* Of a build that is described, the anchor's candidates are those of its true baseline.
DoneBefore(b) == {c \in Q!Builds : /\ Q!Done(c) /\ c < b /\ sent[c].suite = sent[b].suite
                                   /\ sent[c].branch # Q!Branchless
                                   /\ sent[c].branch = default[sent[c].suite]
                                   /\ sent[c].run # sent[b].run}

LEMMA CandidatesAgree ==
  ASSUME TablesOK, Solid, NEW b \in Q!Builds, Q!Done(b)
  PROVE  Q!Older(b, sent[b].run) = DoneBefore(b)
<1>1. ASSUME NEW c \in Q!Builds, Q!Done(c)
      PROVE  /\ Q!BranchId(c) = sent[c].branch /\ Q!RunOf(c) = sent[c].run
             /\ Q!OnDefault(c) <=> /\ sent[c].branch # Q!Branchless
                                   /\ sent[c].branch = default[sent[c].suite]
  <2>1. {"branch", "rows", "run"} \subseteq written[c]
    BY <1>1, Described DEF Q!Done
  <2> QED BY <2>1 DEF Q!BranchId, Q!RunOf, Q!OnDefault
<1>2. ASSUME NEW c \in Q!Here, c < b, sent[c].suite = sent[b].suite
      PROVE  Q!Done(c)
  BY <1>2 DEF TablesOK, Q!Done
<1>3. \A c \in Q!Here : c \in Q!Builds
  BY DEF Q!Here
<1>4. \A c : Q!Done(c) => c \in Q!Here
  BY DEF Q!Done
<1>5. Q!Older(b, sent[b].run) \subseteq DoneBefore(b)
  <2> SUFFICES ASSUME NEW c \in Q!Older(b, sent[b].run) PROVE c \in DoneBefore(b)
    OBVIOUS
  <2>1. c \in Q!Here /\ c < b /\ sent[c].suite = sent[b].suite /\ Q!OnDefault(c) /\ Q!RunOf(c) # sent[b].run
    BY DEF Q!Older
  <2> QED BY <2>1, <1>1, <1>2, <1>3 DEF DoneBefore
<1>6. DoneBefore(b) \subseteq Q!Older(b, sent[b].run)
  <2> SUFFICES ASSUME NEW c \in DoneBefore(b) PROVE c \in Q!Older(b, sent[b].run)
    OBVIOUS
  <2>1. c \in Q!Builds /\ Q!Done(c) /\ c < b /\ sent[c].suite = sent[b].suite
        /\ sent[c].branch # Q!Branchless /\ sent[c].branch = default[sent[c].suite]
        /\ sent[c].run # sent[b].run
    BY DEF DoneBefore
  <2> QED BY <2>1, <1>1, <1>4 DEF Q!Older
<1> QED BY <1>5, <1>6

\* What the tables say of a baseline is true of what was sent.
LEMMA BaselineIsTrue ==
  ASSUME TablesOK, Solid, NEW b \in Q!Builds, Q!Done(b), NEW t, NEW status
  PROVE  Q!Had(Q!Baseline(b, sent[b].run), t, status) <=> Q!Held(Q!TrueBaseline(b), t, status)
<1> DEFINE older == DoneBefore(b)
           a     == Q!Latest(older)
           base  == Q!Baseline(b, sent[b].run)
           real  == Q!TrueBaseline(b)
<1>1. Q!Older(b, sent[b].run) = older
  BY CandidatesAgree
<1>2. CASE older = {}
  <2>1. base = {}
    BY <1>1, <1>2 DEF Q!Baseline
  <2>2. real = {}
    BY <1>2 DEF Q!TrueBaseline, DoneBefore
  <2> QED BY <2>1, <2>2 DEF Q!Had, Q!Held
<1>3. CASE older # {}
  <2>1. Len(sent) \in Nat /\ older \subseteq 1 .. Len(sent)
    BY DEF TablesOK, DoneBefore, Q!Builds
  <2>2. a \in older
    BY <1>3, <2>1, LatestIsLast
  <2>3. a \in Q!Builds /\ Q!Done(a) /\ sent[a].branch # Q!Branchless
    BY <2>2 DEF DoneBefore
  <2>4. base = IF Q!RunOf(a) \notin PipelineIds THEN {a}
               ELSE {c \in Q!Here : /\ sent[c].suite = sent[a].suite
                                    /\ Q!BranchId(c) = Q!BranchId(a) /\ Q!RunOf(c) = Q!RunOf(a)}
    BY <1>1, <1>3 DEF Q!Baseline
  <2>5. real = {a} \cup {c \in Q!Builds : /\ Q!Done(c) /\ sent[a].run \in PipelineIds
                                          /\ sent[c].run = sent[a].run
                                          /\ sent[c].suite = sent[a].suite
                                          /\ sent[c].branch = sent[a].branch}
    BY <1>3 DEF Q!TrueBaseline, DoneBefore
  <2> HIDE DEF a, older, base, real
  <2>6. ASSUME NEW c \in Q!Builds, Q!Done(c)
        PROVE  /\ Q!BranchId(c) = sent[c].branch /\ Q!RunOf(c) = sent[c].run
               /\ Q!RowsOf(c) = sent[c].outcome /\ c \in Q!Here
    <3>1. {"branch", "rows", "run"} \subseteq written[c] /\ c \in Q!Here
      BY <2>6, Described DEF Q!Done
    <3> QED BY <3>1 DEF Q!BranchId, Q!RunOf, Q!RowsOf
  <2>7. Q!NoRun \notin PipelineIds
    BY RunsConstants DEF Q!Assumption
  <2>8. ASSUME NEW c \in base, t \in DOMAIN Q!RowsOf(c)
        PROVE  c \in real /\ Q!RowsOf(c) = sent[c].outcome
    <3>1. CASE c = a
      BY <3>1, <2>3, <2>5, <2>6
    <3>2. CASE c # a
      <4>1. Q!RunOf(a) \in PipelineIds /\ c \in Q!Here /\ sent[c].suite = sent[a].suite
            /\ Q!BranchId(c) = Q!BranchId(a) /\ Q!RunOf(c) = Q!RunOf(a)
        BY <3>2, <2>4, <2>8
      <4>2. "run" \in written[c]
        BY <4>1, <2>7 DEF Q!RunOf
      <4>3. "rows" \in written[c]
        <5>1. DOMAIN << >> = {}
          OBVIOUS
        <5> QED BY <5>1, <2>8 DEF Q!RowsOf
      <4>4. c \in Q!Builds
        BY <4>1 DEF Q!Here
      <4>5. Q!Done(c)
        BY <4>1, <4>2, <4>3, <4>4, Described DEF Q!Done
      <4> QED BY <4>1, <4>4, <4>5, <2>3, <2>5, <2>6
    <3> QED BY <3>1, <3>2
  <2>9. ASSUME NEW c \in real
        PROVE  c \in base /\ Q!RowsOf(c) = sent[c].outcome
    <3>1. CASE c = a
      BY <3>1, <2>3, <2>4, <2>6
    <3>2. CASE c # a
      BY <3>2, <2>3, <2>4, <2>5, <2>6, <2>9
    <3> QED BY <3>1, <3>2
  <2>10. Q!Had(base, t, status) => Q!Held(real, t, status)
    BY <2>8 DEF Q!Had, Q!Held
  <2>11. Q!Held(real, t, status) => Q!Had(base, t, status)
    BY <2>9 DEF Q!Had, Q!Held
  <2> QED BY <2>10, <2>11 DEF base, real
<1> QED BY <1>2, <1>3

\* The failing rows of a run are the failures that its described builds sent.
FailuresOf(k) == UNION {{<<b, t>> : t \in Q!Failing(b)} :
                           b \in {c \in {d \in Q!Builds : Q!Done(d)} : sent[c].run = k}}

LEMMA RowsAreFailures ==
  ASSUME TablesOK, Solid, NEW k, k # Q!NoRun
  PROVE  /\ Q!FailingRows(Q!BuildsOf(k)) = FailuresOf(k)
         /\ \A r \in FailuresOf(k) : r[1] \in Q!Builds /\ Q!Done(r[1]) /\ sent[r[1]].run = k
<1>1. ASSUME NEW b \in Q!Builds, Q!Done(b)
      PROVE  Q!RunOf(b) = sent[b].run /\ Q!RowsOf(b) = sent[b].outcome /\ b \in Q!Here
  <2>1. {"branch", "rows", "run"} \subseteq written[b] /\ b \in Q!Here
    BY <1>1, Described DEF Q!Done
  <2> QED BY <2>1 DEF Q!RunOf, Q!RowsOf
<1>2. ASSUME NEW b \in Q!Builds, NEW t \in DOMAIN sent[b].outcome
      PROVE  t \in Tests
  <2>1. sent[b] \in Q!Build
    BY RunsConstants DEF TablesOK, Q!Assumption, Q!Builds
  <2>2. sent[b].outcome \in Q!Outcomes
    BY <2>1 DEF Q!Build
  <2>3. PICK T \in SUBSET Tests : sent[b].outcome \in [T -> {"passed", "failed", "skipped"}]
    BY <2>2 DEF Q!Outcomes
  <2> QED BY <2>3
<1>3. ASSUME NEW b \in Q!BuildsOf(k), NEW t, Q!HasFailed(b, t)
      PROVE  b \in Q!Builds /\ Q!Done(b) /\ sent[b].run = k /\ t \in Q!Failing(b)
  <2>1. b \in Q!Here /\ b \in Q!Builds /\ Q!RunOf(b) = k
    BY DEF Q!BuildsOf, Q!Here
  <2>2. "run" \in written[b]
    BY <2>1 DEF Q!RunOf
  <2>3. "rows" \in written[b]
    <3>1. DOMAIN << >> = {}
      OBVIOUS
    <3> QED BY <3>1, <1>3 DEF Q!HasFailed, Q!RowsOf
  <2>4. Q!Done(b)
    BY <2>1, <2>2, <2>3, Described DEF Q!Done
  <2> QED BY <2>1, <2>4, <1>1, <1>3 DEF Q!HasFailed, Q!Failing
<1>4. ASSUME NEW b \in Q!Builds, Q!Done(b), sent[b].run = k, NEW t \in Q!Failing(b)
      PROVE  b \in Q!BuildsOf(k) /\ t \in Tests /\ Q!HasFailed(b, t)
  BY <1>1, <1>2, <1>4 DEF Q!BuildsOf, Q!HasFailed, Q!Failing
<1>5. Q!FailingRows(Q!BuildsOf(k)) \subseteq FailuresOf(k)
  <2> SUFFICES ASSUME NEW r \in Q!FailingRows(Q!BuildsOf(k)) PROVE r \in FailuresOf(k)
    OBVIOUS
  <2>1. r \in Q!BuildsOf(k) \X Tests /\ Q!HasFailed(r[1], r[2])
    BY DEF Q!FailingRows
  <2>2. r[1] \in Q!BuildsOf(k) /\ r = <<r[1], r[2]>>
    BY <2>1
  <2>3. r[1] \in Q!Builds /\ Q!Done(r[1]) /\ sent[r[1]].run = k /\ r[2] \in Q!Failing(r[1])
    BY <2>1, <2>2, <1>3
  <2> QED BY <2>2, <2>3 DEF FailuresOf
<1>6. ASSUME NEW r \in FailuresOf(k)
      PROVE  /\ r \in Q!FailingRows(Q!BuildsOf(k))
             /\ r[1] \in Q!Builds /\ Q!Done(r[1]) /\ sent[r[1]].run = k
  <2>1. PICK b \in Q!Builds : Q!Done(b) /\ sent[b].run = k /\ \E t \in Q!Failing(b) : r = <<b, t>>
    BY <1>6 DEF FailuresOf
  <2>2. PICK t \in Q!Failing(b) : r = <<b, t>>
    BY <2>1
  <2>3. r[1] = b /\ r[2] = t
    BY <2>2
  <2>4. b \in Q!BuildsOf(k) /\ t \in Tests /\ Q!HasFailed(b, t)
    BY <2>1, <2>2, <1>4
  <2> QED BY <2>1, <2>2, <2>3, <2>4 DEF Q!FailingRows
<1> QED BY <1>5, <1>6

\* What counts as new is what is truly new.
LEMMA FreshIsNew ==
  ASSUME TablesOK, Solid, NEW k, k # Q!NoRun
  PROVE  Q!FreshIn(k, {b \in Q!Builds : Q!Done(b)})
           = {c \in Q!CopiesOf(Q!FailingRows(Q!BuildsOf(k))) : Q!IsNew(c, k)}
<1> DEFINE rows == Q!FailingRows(Q!BuildsOf(k))
           old_(r) == r[2] \in EnvTests \/ Q!Held(Q!TrueBaseline(r[1]), r[2], "failed")
<1>1. rows = FailuresOf(k) /\ \A r \in rows : r[1] \in Q!Builds /\ Q!Done(r[1]) /\ sent[r[1]].run = k
  BY RowsAreFailures
<1>2. Q!FreshIn(k, {b \in Q!Builds : Q!Done(b)})
        = {c \in Q!CopiesOf(rows) : /\ \A r \in c : ~old_(r)
                                    /\ \E r \in c : Q!Held(Q!TrueBaseline(r[1]), r[2], "passed")}
  BY <1>1 DEF Q!FreshIn, FailuresOf
<1>3. \A c \in Q!CopiesOf(rows) : c \subseteq rows
  BY DEF Q!CopiesOf
<1>4. ASSUME NEW r \in rows
      PROVE  /\ Q!Origin(r[1], r[2], k) = "inherited" <=> Q!Held(Q!TrueBaseline(r[1]), r[2], "failed")
             /\ Q!Origin(r[1], r[2], k) = "new" <=> /\ ~Q!Held(Q!TrueBaseline(r[1]), r[2], "failed")
                                                    /\ Q!Held(Q!TrueBaseline(r[1]), r[2], "passed")
  <2>1. /\ Q!Had(Q!Baseline(r[1], k), r[2], "failed") <=> Q!Held(Q!TrueBaseline(r[1]), r[2], "failed")
        /\ Q!Had(Q!Baseline(r[1], k), r[2], "passed") <=> Q!Held(Q!TrueBaseline(r[1]), r[2], "passed")
    BY <1>1, BaselineIsTrue
  <2> QED BY <2>1 DEF Q!Origin
<1> HIDE DEF rows
<1>5. ASSUME NEW c \in Q!CopiesOf(rows)
      PROVE  Q!IsNew(c, k) <=> /\ \A r \in c : ~old_(r)
                               /\ \E r \in c : Q!Held(Q!TrueBaseline(r[1]), r[2], "passed")
  <2>1. \A r \in c : r \in rows
    BY <1>3
  <2>2. Q!Inherits(c, k) <=> \E r \in c : old_(r)
    BY <2>1, <1>4 DEF Q!Inherits
  <2> QED BY <2>1, <2>2, <1>4 DEF Q!IsNew
<1> HIDE DEF old_
<1> QED BY <1>2, <1>5 DEF rows

\* Nothing is truly new where nothing counts as new.
LEMMA NoneCountedNoneFresh ==
  ASSUME TablesOK, Solid, NEW k, k # Q!NoRun,
         Q!Counts(Q!FailingRows(Q!BuildsOf(k)), k).new = 0
  PROVE  Q!FreshIn(k, {b \in Q!Builds : Q!Done(b)}) = {}
<1> DEFINE rows == Q!FailingRows(Q!BuildsOf(k))
           new  == {c \in Q!CopiesOf(rows) : Q!IsNew(c, k)}
<1>1. Q!BuildsOf(k) \subseteq Q!Builds
  BY DEF Q!BuildsOf, Q!Here
<1>2. IsFiniteSet(rows)
  BY <1>1, RowsFinite
<1>3. new \subseteq SUBSET rows
  BY DEF Q!CopiesOf
<1>4. Q!Cardinality(new) = 0
  BY DEF Q!Counts
<1> HIDE DEF rows, new
<1>5. IsFiniteSet(new)
  BY <1>2, <1>3, FS_SUBSET, FS_Subset
<1>6. new = {}
  <2>1. Q!Cardinality(new) = Cardinality(new)
    BY DEF Q!Cardinality, Cardinality
  <2> QED BY <2>1, <1>4, <1>5, FS_EmptySet
<1> QED BY <1>6, FreshIsNew DEF rows, new

-----------------------------------------------------------------------------
(* The page of runs. *)

PageFields == {"at", "filter", "rows", "keys", "next", "old", "joined", "awaiting", "origins", "fresh"}

PageOK ==
  /\ page.at \in {"idle", "awaiting", "origins", "answered"}
  /\ page.at # "idle" =>
       /\ DOMAIN page = PageFields
       /\ Q!NoRun \notin page.keys /\ page.next \subseteq page.keys
       /\ page.joined \subseteq Q!Builds
       /\ \A b \in page.joined :
            page.filter = Q!Branchless \/ sent[b].branch = page.filter => b \in page.rows
       /\ DOMAIN page.fresh = DOMAIN page.origins
       /\ Solid => \A k \in DOMAIN page.origins : page.origins[k].new = 0 => page.fresh[k] = {}

LEMMA PageStays ==
  ASSUME PageOK, Kept, page' = page
  PROVE  PageOK'
BY DEF PageOK, Kept

\* A page as it is begun: what had joined its runs is on it, unless another branch was asked for.
LEMMA PageBegins ==
  ASSUME Kept, NEW f, NEW R, NEW K, NEW old, page' = Q!Answering(f, R, K, old),
         sent' = sent, Q!NoRun \notin K,
         \A b \in Q!Here : Q!RunOf(b) \in K /\ (f = Q!Branchless \/ sent[b].branch = f) => b \in R
  PROVE  PageOK'
<1>1. /\ page'.at \in {"answered", "awaiting"} /\ page'.filter = f /\ page'.rows = R /\ page'.keys = K
      /\ page'.next = K /\ page'.joined = {b \in Q!Here : Q!RunOf(b) \in K}
      /\ page'.origins = << >> /\ page'.fresh = << >> /\ DOMAIN page' = PageFields
  BY DEF Q!Answering, PageFields
<1>2. Q!Here \subseteq Q!Builds' /\ DOMAIN << >> = {}
  BY DEF Kept, Q!Here
<1> QED BY <1>1, <1>2 DEF PageOK

LEMMA ListKeeps ==
  ASSUME Kept, NEW f, Q!ListRuns(f)
  PROVE  PageOK'
<1> DEFINE match == {b \in Q!Here : Q!RunOf(b) # Q!NoRun /\ (f = Q!Branchless \/ Q!CiBranch(b) = f)}
           keys  == Q!FirstRuns(match)
           R     == {b \in match : Q!RunOf(b) \in keys}
<1>1. PICK old \in 0 .. Len(sent) : page' = Q!Answering(f, R, keys, old)
  BY DEF Q!ListRuns
<1>2. sent' = sent
  BY DEF Q!ListRuns, Q!tables
<1>3. keys \subseteq {Q!RunOf(b) : b \in match}
  BY DEF Q!FirstRuns
<1>4. Q!NoRun \notin keys
  BY <1>3
<1>5. \A b \in Q!Here : Q!RunOf(b) \in keys /\ (f = Q!Branchless \/ sent[b].branch = f) => b \in R
  <2> HIDE DEF keys
  <2> SUFFICES ASSUME NEW b \in Q!Here, Q!RunOf(b) \in keys, f = Q!Branchless \/ sent[b].branch = f
               PROVE  b \in match
    OBVIOUS
  <2>1. Q!RunOf(b) # Q!NoRun
    BY <1>4
  <2>2. Q!CiBranch(b) = sent[b].branch
    BY <2>1 DEF Q!RunOf, Q!CiBranch
  <2> QED BY <2>1, <2>2
<1> HIDE DEF keys, R
<1> QED BY <1>1, <1>2, <1>4, <1>5, PageBegins

LEMMA GetKeeps ==
  ASSUME Kept, NEW k \in Runs, Q!GetRun(k)
  PROVE  PageOK'
<1>1. PICK old \in 0 .. Len(sent) : page' = Q!Answering(Q!Branchless, Q!BuildsOf(k), {k}, old)
  BY DEF Q!GetRun
<1>2. sent' = sent
  BY DEF Q!GetRun, Q!tables
<1>3. Q!NoRun \notin {k}
  BY RunsConstants DEF Q!Assumption
<1>4. \A b \in Q!Here : Q!RunOf(b) \in {k} => b \in Q!BuildsOf(k)
  BY DEF Q!BuildsOf
<1> QED BY <1>1, <1>2, <1>3, <1>4, PageBegins

LEMMA AwaitKeeps ==
  ASSUME PageOK, Kept, NEW k \in Runs, NEW failing \in BOOLEAN, Q!Await(k, failing)
  PROVE  PageOK'
<1>1. page.at = "awaiting" /\ k \in page.next /\ sent' = sent
  BY DEF Q!Await, Q!Turn, Q!tables
<1>2. DOMAIN page = PageFields
  BY <1>1 DEF PageOK
<1>3. PICK v : page' = [page EXCEPT !.at = IF page.next = {k} THEN "origins" ELSE @,
                                    !.next = IF @ = {k} THEN page.keys ELSE @ \ {k},
                                    !.awaiting[k] = v]
  BY DEF Q!Await
<1>4. /\ page'.at \in {"awaiting", "origins"} /\ page'.filter = page.filter /\ page'.rows = page.rows
      /\ page'.keys = page.keys /\ page'.joined = page.joined /\ page'.origins = page.origins
      /\ page'.fresh = page.fresh /\ DOMAIN page' = PageFields
      /\ page'.next = IF page.next = {k} THEN page.keys ELSE page.next \ {k}
  BY <1>1, <1>2, <1>3 DEF PageFields
<1> QED BY <1>1, <1>4 DEF PageOK, Kept

LEMMA OriginsKeep ==
  ASSUME TablesOK, PageOK, Kept, NEW k \in Runs, NEW failing \in BOOLEAN, Q!CountOrigins(k, failing)
  PROVE  PageOK'
<1> DEFINE rows == Q!FailingRows(Q!BuildsOf(k))
           said == ~failing /\ (\E s \in Suites : Q!Failed(k, s)) /\ Q!Cardinality(rows) <= RunCap
           new  == {c \in Q!FreshIn(k, {b \in Q!Builds : Q!Done(b)}) : \E r \in c : r[1] \in page.joined}
           n    == Q!Counts(rows, k)
<1>1. page.at = "origins" /\ k \in page.next /\ sent' = sent
  BY DEF Q!CountOrigins, Q!Turn, Q!tables
<1>2. DOMAIN page = PageFields
  BY <1>1 DEF PageOK
<1>3. page' = [page EXCEPT !.at = IF page.next = {k} THEN "answered" ELSE @,
                           !.next = @ \ {k},
                           !.origins = IF said THEN Q!Put(@, k, n) ELSE @,
                           !.fresh = IF said THEN Q!Put(@, k, new) ELSE @]
  BY DEF Q!CountOrigins
<1>4. k # Q!NoRun
  BY RunsConstants DEF Q!Assumption
<1>5. Solid /\ n.new = 0 => new = {}
  BY <1>4, NoneCountedNoneFresh
<1> HIDE DEF rows, said, new, n
<1>6. /\ page'.at \in {"answered", "origins"} /\ page'.filter = page.filter /\ page'.rows = page.rows
      /\ page'.keys = page.keys /\ page'.joined = page.joined /\ DOMAIN page' = PageFields
      /\ page'.next = page.next \ {k}
      /\ page'.origins = IF said THEN Q!Put(page.origins, k, n) ELSE page.origins
      /\ page'.fresh = IF said THEN Q!Put(page.fresh, k, new) ELSE page.fresh
  BY <1>1, <1>2, <1>3 DEF PageFields
<1>7. /\ DOMAIN page.fresh = DOMAIN page.origins
      /\ Solid => \A l \in DOMAIN page.origins : page.origins[l].new = 0 => page.fresh[l] = {}
  BY <1>1 DEF PageOK
<1>8. /\ DOMAIN page'.fresh = DOMAIN page'.origins
      /\ Solid => \A l \in DOMAIN page'.origins : page'.origins[l].new = 0 => page'.fresh[l] = {}
  <2>1. CASE said
    <3>1. \A h, v : /\ DOMAIN Q!Put(h, k, v) = DOMAIN h \cup {k}
                    /\ Q!Put(h, k, v)[k] = v
                    /\ \A l \in DOMAIN h : l # k => Q!Put(h, k, v)[l] = h[l]
      BY DEF Q!Put
    <3>2. page'.origins = Q!Put(page.origins, k, n) /\ page'.fresh = Q!Put(page.fresh, k, new)
      BY <2>1, <1>6
    <3>3. DOMAIN page'.origins = DOMAIN page.origins \cup {k} /\ DOMAIN page'.fresh = DOMAIN page.fresh \cup {k}
      BY <3>1, <3>2
    <3>4. page'.origins[k] = n /\ page'.fresh[k] = new
      BY <3>1, <3>2
    <3>5. ASSUME NEW l \in DOMAIN page.origins, l # k
          PROVE  page'.origins[l] = page.origins[l] /\ page'.fresh[l] = page.fresh[l]
      BY <3>1, <3>2, <3>5, <1>7
    <3> QED BY <3>3, <3>4, <3>5, <1>5, <1>7
  <2>2. CASE ~said
    BY <2>2, <1>6, <1>7
  <2> QED BY <2>1, <2>2
<1> QED BY <1>1, <1>6, <1>8 DEF PageOK, Kept

LEMMA PageStep ==
  ASSUME TablesOK, PageOK, [AllNext]_allVars
  PROVE  PageOK'
<1>1. Kept
  BY TablesStep
<1>2. CASE page' = page
  BY <1>1, <1>2, PageStays
<1>3. CASE Q!Next /\ page' # page
  <2>1. CASE \E f \in Filters : Q!ListRuns(f)
    BY <2>1, <1>1, ListKeeps
  <2>2. CASE \E k \in Runs : Q!GetRun(k)
    BY <2>2, <1>1, GetKeeps
  <2>3. CASE \E k \in Runs, failing \in BOOLEAN : Q!Await(k, failing)
    BY <2>3, <1>1, AwaitKeeps
  <2>4. CASE \E k \in Runs, failing \in BOOLEAN : Q!CountOrigins(k, failing)
    BY <2>4, <1>1, OriginsKeep
  <2>5. CASE Q!NextPage
    <3>1. page' = [at |-> "idle"]
      BY <2>5 DEF Q!NextPage, Q!Quiet
    <3> QED BY <3>1 DEF PageOK
  <2> QED BY <1>3, <2>1, <2>2, <2>3, <2>4, <2>5
          DEF Q!Next, Q!Reserve, Q!Describe, Q!Delete, Q!SetDefault, Q!TagFailures, Q!ListBuilds,
              Q!ListTests, Q!NextTool, Q!requests
<1> QED BY <1>2, <1>3 DEF AllNext, allVars, runVars

LEMMA PageTells ==
  ASSUME PageOK
  PROVE  Q!PassedIsClean /\ (Solid => Q!NoneNewIsTrue)
<1>1. ASSUME page.at = "answered", NEW k \in page.keys, Q!Verdict(k) = "passed",
             NEW b \in Q!Listed(k), Q!HasStats(b), Q!Failing(b) # {}
      PROVE  FALSE
  <2>1. b \in page.rows /\ sent[b].run = k
    BY <1>1 DEF PageOK, Q!Listed
  <2>2. b \in Q!RowsOn(k)
    BY <2>1 DEF Q!RowsOn
  <2>3. sent[b].suite \in Q!SuitesIn(Q!RowsOn(k))
    BY <2>2 DEF Q!SuitesIn
  <2>4. Q!FailingSuite(k, sent[b].suite)
    BY <2>2, <1>1 DEF Q!FailingSuite, Q!Failed, Q!Counted
  <2>5. Q!Verdict(k) \in {"awaiting", "failed"}
    BY <2>3, <2>4 DEF Q!Verdict
  <2> QED BY <2>5, <1>1
<1>2. ASSUME Solid, page.at = "answered", NEW k \in page.keys, Q!NoneNew(k)
      PROVE  page.fresh[k] = {}
  BY <1>2 DEF PageOK, Q!NoneNew
<1> QED BY <1>1, <1>2 DEF Q!PassedIsClean, Q!NoneNewIsTrue, Q!Answered

LEMMA PageHolds == AllSpec => [](TablesOK /\ PageOK)
<1>1. AllInit => TablesOK /\ PageOK
  <2> SUFFICES ASSUME AllInit PROVE TablesOK /\ PageOK
    OBVIOUS
  <2>1. page = [at |-> "idle"]
    BY DEF AllInit, Q!Init, Q!Quiet
  <2> QED BY <2>1, RunsStart DEF AllInit, PageOK
<1>2. TablesOK /\ PageOK /\ [AllNext]_allVars => (TablesOK /\ PageOK)'
  BY TablesStep, PageStep
<1> QED BY <1>1, <1>2, PTL DEF AllSpec

-----------------------------------------------------------------------------
(* Whatever fails: the page of runs says "passed" only of a run without a  *)
(* failing test in what had joined it, on the branch asked for, and could  *)
(* be counted, although the builds go on being described and pruned after  *)
(* they were listed.                                                       *)
THEOREM PassedRunsAreClean == AllSpec => []Q!PassedIsClean
<1>1. PageOK => Q!PassedIsClean
  BY PageTells
<1> QED BY <1>1, PageHolds, PTL

(* The page of runs says "none new" only where every failing test failed   *)
(* before: of builds that are described the tables say what was sent,      *)
(* those of the run are never in its baseline, and of those that are being *)
(* described it reads no rows. Where statements that store branches, rows  *)
(* or runs fail, a baseline is not what was sent.                          *)
THEOREM PagesAreBacked == ASSUME Solid PROVE AllSpec => []PageIsBacked
<1>1. PageOK => PageIsBacked
  BY PageTells DEF PageIsBacked, Q!PageIsBacked
<1> QED BY <1>1, PageHolds, PTL
=============================================================================
