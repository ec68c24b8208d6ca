-------------------------- MODULE ImportJobsProofs --------------------------
(* Theorems of ImportJobs, for every set of files, registrations and requests:
   a row is imported once at most, and the counts and outcomes of a job are
   those of the rows that arrived.  The last ones are about the histories of
   MCImportJobs in which requests on the jobs do not overlap.

   Every step changes one job, its imported rows and one session; ImportsInv is
   therefore cut into what is said of one job, of one session and of a session
   together with the job it imports.                                       *)
EXTENDS MCImportJobs, FiniteSetTheorems, TLAPS

Came(j, m) == {i \in Rows(j) : m[i] > 0}
Missed(j, m, v, n) == {i \in Rows(j) : i < n /\ Importable(v[i]) /\ m[i] = 0}

AssetsFine ==
    /\ asset \in [Regs -> AssetStates]
    /\ aircraft \subseteq Regs
    /\ AircraftHaveAssets
    /\ pending \subseteq Regs \X Kinds

JobFine(j, b, m) ==
    /\ b \in JobRows(j)
    /\ m \in [Rows(j) -> Nat]
    /\ \A i \in Rows(j) : m[i] <= 1
    /\ b.status \in {"none", "VALIDATED"} => \A i \in Rows(j) : m[i] = 0
    /\ b.status \in Terminal =>
          b.created = Cardinality(Came(j, m)) /\ b.status = Outcome(b.created, b.failed)

SessionFine(s) ==
    /\ s = Idle \/ \E j \in Jobs : s \in SessionsOn(j)
    /\ s.phase = "inserting" =>
          s.next \in Rows(s.job) /\ s.verdicts[s.next] \in {"NEW", "CREATE"}
    /\ s.phase = "flying" =>
          s.next \in Rows(s.job) /\ s.verdicts[s.next] = "CREATE"

Follows(s, b, m) ==
    /\ b.status = "IMPORTING"
    /\ \A i \in Rows(s.job) : i >= s.next => m[i] = 0
    /\ s.created = Cardinality(Came(s.job, m))
    /\ s.failed = IF s.phase = "claimed" THEN 0
                  ELSE Cardinality(Missed(s.job, m, s.verdicts, s.next))

Imports(s, j) == s.phase \in Importing /\ s.job = j

AreFunctions ==
    /\ job = [j \in Jobs |-> job[j]]
    /\ imported = [j \in Jobs |-> imported[j]]
    /\ session = [r \in Requests |-> session[r]]

Parts ==
    /\ AssetsFine
    /\ AreFunctions
    /\ \A j \in Jobs : JobFine(j, job[j], imported[j])
    /\ \A r \in Requests : SessionFine(session[r])
    /\ \A r \in Requests, j \in Jobs : Imports(session[r], j) =>
          /\ Follows(session[r], job[j], imported[j])
          /\ \A q \in Requests \ {r} : ~Imports(session[q], j)

(* A session that imports is on one of the jobs. *)
LEMMA OnAJob ==
    ASSUME NEW s, SessionFine(s), s.phase \in Importing
    PROVE  s.job \in Jobs
  BY DEF SessionFine, SessionsOn, Session, Idle, Importing

LEMMA Cut == ImportsInv <=> Parts
  <1>1. ASSUME ImportsInv PROVE Parts
    <2>1. AssetsFine
      BY <1>1 DEF ImportsInv, TypeOK, AssetsFine
    <2>2. AreFunctions
      BY <1>1 DEF AreFunctions, ImportsInv, TypeOK
    <2>3. ASSUME NEW j \in Jobs PROVE JobFine(j, job[j], imported[j])
      BY <1>1, <2>3 DEF ImportsInv, TypeOK, RowsOnce, CountsTrue, Arrived, Came, JobFine
    <2>4. ASSUME NEW r \in Requests PROVE SessionFine(session[r])
      BY <1>1, <2>4 DEF ImportsInv, TypeOK, CreatesAsPreviewed, SessionFine
    <2>5. ASSUME NEW r \in Requests, NEW j \in Jobs, Imports(session[r], j)
          PROVE  /\ Follows(session[r], job[j], imported[j])
                 /\ \A q \in Requests \ {r} : ~Imports(session[q], j)
      BY <1>1, <2>5 DEF ImportsInv, ClaimsExclude, RowsOnce, CountsTrue, Imports,
                        Follows, Arrived, Came, Lost, Missed
    <2> QED
      BY <2>1, <2>2, <2>3, <2>4, <2>5 DEF Parts
  <1>2. ASSUME Parts PROVE ImportsInv
    <2>1. ASSUME NEW r \in Requests, session[r].phase \in Importing
          PROVE  /\ session[r].job \in Jobs
                 /\ Follows(session[r], job[session[r].job], imported[session[r].job])
                 /\ \A q \in Requests \ {r} : ~Imports(session[q], session[r].job)
      BY <1>2, <2>1, OnAJob DEF Parts, Imports
    <2>2. TypeOK
      BY <1>2 DEF AreFunctions, Parts, AssetsFine, JobFine, SessionFine, TypeOK
    <2>3. ClaimsExclude
      BY <2>1 DEF ClaimsExclude, Follows, Imports
    <2>4. RowsOnce
      BY <1>2, <2>1 DEF RowsOnce, Parts, JobFine, Follows
    <2>5. CountsTrue
      BY <1>2, <2>1 DEF CountsTrue, Parts, JobFine, Follows, Arrived, Came, Lost, Missed
    <2>6. CreatesAsPreviewed
      BY <1>2 DEF CreatesAsPreviewed, Parts, SessionFine
    <2>7. AircraftHaveAssets
      BY <1>2 DEF Parts, AssetsFine
    <2> QED
      BY <2>2, <2>3, <2>4, <2>5, <2>6, <2>7 DEF ImportsInv
  <1> QED
    BY <1>1, <1>2

(* One job, its imported rows and one session change. *)
LEMMA Moves ==
    ASSUME Parts, NEW j \in Jobs, NEW r \in Requests, NEW b, NEW m, NEW s,
           job' = [job EXCEPT ![j] = b],
           imported' = [imported EXCEPT ![j] = m],
           session' = [session EXCEPT ![r] = s],
           JobFine(j, b, m),
           SessionFine(s),
           s.phase \in Importing => s.job = j /\ Follows(s, b, m),
           \A q \in Requests \ {r} : Imports(session[q], j) =>
              s.phase \notin Importing /\ Follows(session[q], b, m),
           AssetsFine'
    PROVE  Parts'
  <1>1. AreFunctions'
    BY DEF AreFunctions, Parts
  <1>2. ASSUME NEW k \in Jobs PROVE JobFine(k, job'[k], imported'[k])
    BY <1>2 DEF AreFunctions, Parts
  <1>3. ASSUME NEW q \in Requests PROVE SessionFine(session'[q])
    BY <1>3 DEF Parts
  <1>4. ASSUME NEW q \in Requests, NEW k \in Jobs, Imports(session'[q], k)
        PROVE  /\ Follows(session'[q], job'[k], imported'[k])
               /\ \A p \in Requests \ {q} : ~Imports(session'[p], k)
    <2>1. CASE q = r
      <3>1. k = j /\ session'[q] = s /\ job'[k] = b /\ imported'[k] = m
        BY <1>4, <2>1 DEF AreFunctions, Parts, Imports
      <3>2. s.phase \in Importing
        BY <1>4, <3>1 DEF Imports
      <3>3. ASSUME NEW p \in Requests \ {q} PROVE ~Imports(session'[p], k)
        BY <2>1, <3>1, <3>2, <3>3 DEF Parts
      <3> QED
        BY <3>1, <3>2, <3>3
    <2>2. CASE q # r
      <3>1. session'[q] = session[q] /\ Imports(session[q], k)
        BY <1>4, <2>2 DEF Parts
      <3>2. Follows(session[q], job'[k], imported'[k])
        BY <2>2, <3>1 DEF AreFunctions, Parts
      <3>3. ASSUME NEW p \in Requests \ {q} PROVE ~Imports(session'[p], k)
        <4>1. CASE p = r
          BY <2>2, <3>1, <4>1 DEF Parts, Imports
        <4>2. CASE p # r
          BY <3>1, <3>3, <4>2 DEF Parts
        <4> QED
          BY <4>1, <4>2
      <3> QED
        BY <3>1, <3>2, <3>3
    <2> QED
      BY <2>1, <2>2
  <1> QED
    BY <1>1, <1>2, <1>3, <1>4 DEF Parts
-----------------------------------------------------------------------------
(* The sets behind the counts *)

LEMMA RowsFinite ==
    ASSUME NEW j \in Jobs
    PROVE  /\ Rows(j) \subseteq Nat \ {0}
           /\ \A S : S \subseteq Rows(j) => IsFiniteSet(S) /\ Cardinality(S) \in Nat
  <1>1. Rows(j) = 1 .. Len(FileOf[j]) /\ Len(FileOf[j]) \in Nat
    BY ImportsAssumption DEF ImportsAssumption, Rows
  <1>2. IsFiniteSet(Rows(j))
    BY <1>1, FS_Interval
  <1> QED
    BY <1>1, <1>2, FS_Subset, FS_CardinalityType

(* Row i arrives: one more has come, and none is missed that was not before. *)
LEMMA OneMoreCame ==
    ASSUME NEW j \in Jobs, NEW m \in [Rows(j) -> Nat], NEW i \in Rows(j), m[i] = 0,
           NEW v
    PROVE  LET n == [m EXCEPT ![i] = @ + 1] IN
           /\ Cardinality(Came(j, n)) = Cardinality(Came(j, m)) + 1
           /\ Missed(j, n, v, i + 1) = Missed(j, m, v, i)
  <1> DEFINE n == [m EXCEPT ![i] = @ + 1]
  <1>1. Came(j, n) = Came(j, m) \cup {i} /\ i \notin Came(j, m)
    BY DEF Came
  <1>2. Cardinality(Came(j, n)) = Cardinality(Came(j, m)) + 1
    BY <1>1, RowsFinite, FS_AddElement DEF Came
  <1>3. Missed(j, n, v, i + 1) = Missed(j, m, v, i)
    BY RowsFinite DEF Missed
  <1> QED
    BY <1>2, <1>3

(* Row i is lost: one more is missed. *)
LEMMA OneMoreMissed ==
    ASSUME NEW j \in Jobs, NEW m \in [Rows(j) -> Nat], NEW i \in Rows(j), m[i] = 0,
           NEW v, Importable(v[i])
    PROVE  Cardinality(Missed(j, m, v, i + 1)) = Cardinality(Missed(j, m, v, i)) + 1
  <1>1. /\ Missed(j, m, v, i + 1) = Missed(j, m, v, i) \cup {i}
        /\ i \notin Missed(j, m, v, i)
    BY RowsFinite DEF Missed
  <1> QED
    BY <1>1, RowsFinite, FS_AddElement DEF Missed

(* Row i is passed over: none is missed that was not before. *)
LEMMA NoneMissed ==
    ASSUME NEW j \in Jobs, NEW m, NEW i \in Rows(j), NEW v, ~Importable(v[i])
    PROVE  Missed(j, m, v, i + 1) = Missed(j, m, v, i)
  BY RowsFinite DEF Missed

LEMMA NothingCame ==
    ASSUME NEW j \in Jobs, NEW m \in [Rows(j) -> Nat],
           \A i \in Rows(j) : m[i] = 0, NEW v
    PROVE  /\ Cardinality(Came(j, m)) = 0
           /\ Cardinality(Missed(j, m, v, 1)) = 0
  <1>1. Came(j, m) = {} /\ Missed(j, m, v, 1) = {}
    BY RowsFinite DEF Came, Missed
  <1> QED
    BY <1>1, FS_EmptySet
-----------------------------------------------------------------------------
(* The steps of an import *)

Trying == {"rows", "inserting", "flying"}

(* What is known of a session that stands at a row. *)
LEMMA AtARow ==
    ASSUME Parts, NEW r \in Requests, NEW ph \in Trying, At(r, ph)
    PROVE  LET s == session[r] IN
           /\ s.job \in Jobs
           /\ s.next \in Rows(s.job) /\ s.next \in Nat \ {0}
           /\ s.strategy \in Strategies /\ s.verdicts \in [Rows(s.job) -> Verdicts]
           /\ s.created \in Nat /\ s.failed \in Nat /\ s.phase = ph
           /\ JobFine(s.job, job[s.job], imported[s.job])
           /\ job[s.job].status = "IMPORTING"
           /\ imported[s.job][s.next] = 0
           /\ Follows(s, job[s.job], imported[s.job])
           /\ \A q \in Requests \ {r} : ~Imports(session[q], s.job)
           /\ s.created = Cardinality(Came(s.job, imported[s.job]))
           /\ s.failed = Cardinality(Missed(s.job, imported[s.job], s.verdicts, s.next))
           /\ AreFunctions
  <1> DEFINE s == session[r]
  <1>1. s.phase = ph /\ s.phase \in Importing /\ s.phase # "claimed" /\ s.phase # "idle"
        /\ s.next \in Rows(s.job)
    BY DEF At, Trying, Importing
  <1>2. SessionFine(s)
    BY DEF Parts
  <1>3. s.job \in Jobs
    BY <1>1, <1>2, OnAJob
  <1>4. /\ s.strategy \in Strategies /\ s.verdicts \in [Rows(s.job) -> Verdicts]
        /\ s.created \in Nat /\ s.failed \in Nat /\ s.next \in Nat \ {0}
    BY <1>1, <1>2 DEF SessionFine, SessionsOn, Session, Idle
  <1>5. Imports(s, s.job)
    BY <1>1 DEF Imports
  <1>6. /\ JobFine(s.job, job[s.job], imported[s.job])
        /\ Follows(s, job[s.job], imported[s.job])
        /\ \A q \in Requests \ {r} : ~Imports(session[q], s.job)
        /\ AreFunctions
    BY <1>3, <1>5 DEF Parts
  <1>7. /\ job[s.job].status = "IMPORTING"
        /\ imported[s.job][s.next] = 0
        /\ s.created = Cardinality(Came(s.job, imported[s.job]))
        /\ s.failed = Cardinality(Missed(s.job, imported[s.job], s.verdicts, s.next))
    BY <1>1, <1>4, <1>6 DEF Follows
  <1> QED
    BY <1>1, <1>3, <1>4, <1>6, <1>7

(* What a session standing at a row, or past the last one, looks like. *)
LEMMA RowSession ==
    ASSUME NEW j \in Jobs, NEW g \in Strategies, NEW v \in [Rows(j) -> Verdicts],
           NEW n \in Nat \ {0}, NEW c \in Nat, NEW f \in Nat, NEW ph \in Trying,
           ph = "inserting" => n \in Rows(j) /\ v[n] \in {"NEW", "CREATE"},
           ph = "flying" => n \in Rows(j) /\ v[n] = "CREATE"
    PROVE  SessionFine(Session(ph, j, g, v, n, c, f))
  BY DEF SessionFine, SessionsOn, Session, Trying

(* The row is over: made of it has arrived, lost of it is missing. *)
LEMMA AdvanceKeeps ==
    ASSUME Parts, NEW r \in Requests, NEW ph \in Trying, At(r, ph),
           NEW made \in Nat, NEW lost \in Nat, NEW m,
           Advance(r, made, lost),
           UNCHANGED job,
           imported' = [imported EXCEPT ![session[r].job] = m],
           m \in [Rows(session[r].job) -> Nat],
           \A i \in Rows(session[r].job) : m[i] <= 1 /\ (i > session[r].next => m[i] = 0),
           Cardinality(Came(session[r].job, m)) = session[r].created + made,
           Cardinality(Missed(session[r].job, m, session[r].verdicts,
                              session[r].next + 1)) = session[r].failed + lost,
           AssetsFine'
    PROVE  Parts'
  <1> DEFINE s == session[r]
             t == Session("rows", s.job, s.strategy, s.verdicts, s.next + 1,
                          s.created + made, s.failed + lost)
  <1>1. /\ s.job \in Jobs /\ s.next \in Nat \ {0}
        /\ s.strategy \in Strategies /\ s.verdicts \in [Rows(s.job) -> Verdicts]
        /\ s.created \in Nat /\ s.failed \in Nat
        /\ JobFine(s.job, job[s.job], imported[s.job])
        /\ job[s.job].status = "IMPORTING"
        /\ \A q \in Requests \ {r} : ~Imports(session[q], s.job)
        /\ AreFunctions
    BY AtARow
  <1>2. session' = [session EXCEPT ![r] = t]
    BY <1>1 DEF Advance
  <1>3. SessionFine(t)
    <2>1. "rows" \in Trying /\ s.next + 1 \in Nat \ {0}
          /\ s.created + made \in Nat /\ s.failed + lost \in Nat
      BY <1>1 DEF Trying
    <2> QED
      BY <1>1, <2>1, RowSession
  <1>4. JobFine(s.job, job[s.job], m)
    BY <1>1 DEF JobFine, Terminal
  <1>5. t.job = s.job /\ Follows(t, job[s.job], m)
    BY <1>1, RowsFinite DEF Follows, Session
  <1>6. job' = [job EXCEPT ![s.job] = job[s.job]]
    BY <1>1 DEF AreFunctions
  <1> HIDE DEF s, t
  <1> QED
    BY <1>1, <1>2, <1>3, <1>4, <1>5, <1>6, Moves DEF s

LEMMA FailKeeps ==
    ASSUME Parts, NEW r \in Requests, NEW ph \in Trying, At(r, ph),
           Importable(Verdict(r)), FailRow(r)
    PROVE  Parts'
  <1> DEFINE s == session[r]
             m == imported[s.job]
  <1>1. /\ s.job \in Jobs /\ s.next \in Rows(s.job) /\ JobFine(s.job, job[s.job], m)
        /\ m[s.next] = 0 /\ Follows(s, job[s.job], m)
        /\ s.created = Cardinality(Came(s.job, m)) /\ s.created \in Nat
        /\ s.failed = Cardinality(Missed(s.job, m, s.verdicts, s.next))
        /\ AreFunctions
    BY AtARow
  <1>2. Cardinality(Missed(s.job, m, s.verdicts, s.next + 1)) = s.failed + 1
    BY <1>1, OneMoreMissed DEF JobFine, Verdict
  <1>3. \A i \in Rows(s.job) : m[i] <= 1 /\ (i > s.next => m[i] = 0)
    BY <1>1, RowsFinite DEF JobFine, Follows
  <1>4. m \in [Rows(s.job) -> Nat]
    BY <1>1 DEF JobFine
  <1>5. AssetsFine' /\ UNCHANGED job /\ Advance(r, 0, 1)
    BY DEF Parts, AssetsFine, AircraftHaveAssets, FailRow
  <1>6. Cardinality(Came(s.job, m)) = s.created + 0
    BY <1>1
  <1>7. imported' = [imported EXCEPT ![s.job] = m]
    BY <1>1 DEF FailRow, AreFunctions
  <1> HIDE DEF m
  <1> QED
    BY <1>2, <1>3, <1>4, <1>5, <1>6, <1>7, AdvanceKeeps

LEMMA PassKeeps ==
    ASSUME Parts, NEW r \in Requests, PassRow(r)
    PROVE  Parts'
  <1> DEFINE s == session[r]
             m == imported[s.job]
  <1>0. "rows" \in Trying /\ At(r, "rows")
    BY DEF Trying, PassRow
  <1>1. /\ s.job \in Jobs /\ s.next \in Rows(s.job) /\ JobFine(s.job, job[s.job], m)
        /\ Follows(s, job[s.job], m) /\ s.created \in Nat /\ s.failed \in Nat
        /\ s.created = Cardinality(Came(s.job, m))
        /\ s.failed = Cardinality(Missed(s.job, m, s.verdicts, s.next))
        /\ AreFunctions
    BY <1>0, AtARow
  <1>2. Cardinality(Missed(s.job, m, s.verdicts, s.next + 1)) = s.failed + 0
    BY <1>1, NoneMissed DEF PassRow, Verdict
  <1>3. \A i \in Rows(s.job) : m[i] <= 1 /\ (i > s.next => m[i] = 0)
    BY <1>1, RowsFinite DEF JobFine, Follows
  <1>4. m \in [Rows(s.job) -> Nat]
    BY <1>1 DEF JobFine
  <1>5. AssetsFine' /\ UNCHANGED job /\ Advance(r, 0, 0)
    BY DEF Parts, AssetsFine, AircraftHaveAssets, PassRow
  <1>6. Cardinality(Came(s.job, m)) = s.created + 0
    BY <1>1
  <1>7. imported' = [imported EXCEPT ![s.job] = m]
    BY <1>1 DEF PassRow, AreFunctions
  <1> HIDE DEF m
  <1> QED
    BY <1>0, <1>2, <1>3, <1>4, <1>5, <1>6, <1>7, AdvanceKeeps

LEMMA ImportKeeps ==
    ASSUME Parts, NEW r \in Requests, NEW ph \in Trying, At(r, ph),
           ImportRow(r), AssetsFine'
    PROVE  Parts'
  <1> DEFINE s == session[r]
             m == [imported[s.job] EXCEPT ![s.next] = @ + 1]
  <1>1. /\ s.job \in Jobs /\ s.next \in Rows(s.job)
        /\ JobFine(s.job, job[s.job], imported[s.job])
        /\ imported[s.job][s.next] = 0 /\ Follows(s, job[s.job], imported[s.job])
        /\ s.created = Cardinality(Came(s.job, imported[s.job]))
        /\ s.failed = Cardinality(Missed(s.job, imported[s.job], s.verdicts, s.next))
        /\ s.failed \in Nat
    BY AtARow
  <1>2. /\ Cardinality(Came(s.job, m)) = s.created + 1
        /\ Cardinality(Missed(s.job, m, s.verdicts, s.next + 1)) = s.failed + 0
    BY <1>1, OneMoreCame DEF JobFine
  <1>3. /\ m \in [Rows(s.job) -> Nat]
        /\ \A i \in Rows(s.job) : m[i] <= 1 /\ (i > s.next => m[i] = 0)
    BY <1>1, RowsFinite DEF JobFine, Follows
  <1>4. imported' = [imported EXCEPT ![s.job] = m]
    BY DEF ImportRow
  <1>5. UNCHANGED job /\ Advance(r, 1, 0)
    BY DEF ImportRow
  <1> HIDE DEF m
  <1> QED
    BY <1>2, <1>3, <1>4, <1>5, AdvanceKeeps
(* A session goes on with the row it stands at. *)
LEMMA RemainKeeps ==
    ASSUME Parts, NEW r \in Requests, NEW ph \in Trying, At(r, ph),
           NEW to \in {"inserting", "flying"}, Remain(r, to),
           to = "inserting" => Verdict(r) \in {"NEW", "CREATE"},
           to = "flying" => Verdict(r) = "CREATE",
           UNCHANGED <<job, imported>>, AssetsFine'
    PROVE  Parts'
  <1> DEFINE s == session[r]
             t == Session(to, s.job, s.strategy, s.verdicts, s.next, s.created, s.failed)
  <1>1. /\ s.job \in Jobs /\ s.next \in Nat \ {0} /\ s.next \in Rows(s.job)
        /\ s.strategy \in Strategies /\ s.verdicts \in [Rows(s.job) -> Verdicts]
        /\ s.created \in Nat /\ s.failed \in Nat /\ s.phase = ph
        /\ JobFine(s.job, job[s.job], imported[s.job])
        /\ Follows(s, job[s.job], imported[s.job])
        /\ \A q \in Requests \ {r} : ~Imports(session[q], s.job)
        /\ AreFunctions
    BY AtARow
  <1>2. session' = [session EXCEPT ![r] = t]
    BY <1>1 DEF Remain, AreFunctions
  <1>3. SessionFine(t)
    <2>1. to \in Trying
      BY DEF Trying
    <2> QED
      BY <1>1, <2>1, RowSession DEF Verdict
  <1>4. t.job = s.job /\ Follows(t, job[s.job], imported[s.job])
    BY <1>1 DEF Follows, Session, Trying
  <1>5. /\ job' = [job EXCEPT ![s.job] = job[s.job]]
        /\ imported' = [imported EXCEPT ![s.job] = imported[s.job]]
    BY <1>1 DEF AreFunctions
  <1> HIDE DEF s, t
  <1> QED
    BY <1>1, <1>2, <1>3, <1>4, <1>5, Moves DEF s

(* The rows of assets after an insert. *)
LEMMA InsertFine ==
    ASSUME AssetsFine, NEW g \in Regs, asset' = [asset EXCEPT ![g] = "active"],
           aircraft' = aircraft \/ aircraft' = aircraft \cup {g},
           pending' \subseteq pending
    PROVE  AssetsFine'
  BY DEF AssetsFine, AssetStates, AircraftHaveAssets

LEMMA FileRow ==
    ASSUME NEW j \in Jobs, NEW i \in Rows(j)
    PROVE  FileOf[j][i] \in [reg : Regs, defect : Defects]
  <1> DEFINE F == [reg : Regs, defect : Defects]
  <1>1. FileOf[j] \in Seq(F)
    BY ImportsAssumption DEF ImportsAssumption
  <1>2. i \in DOMAIN FileOf[j]
    BY DEF Rows
  <1> HIDE DEF F
  <1>3. FileOf[j][i] \in F
    BY <1>1, <1>2
  <1> QED
    BY <1>3 DEF F

LEMMA RowReg ==
    ASSUME Parts, NEW r \in Requests, NEW ph \in Trying, At(r, ph)
    PROVE  Row(r).reg \in Regs
  <1>1. session[r].job \in Jobs /\ session[r].next \in Rows(session[r].job)
    BY AtARow
  <1>2. Row(r) \in [reg : Regs, defect : Defects]
    BY <1>1, FileRow DEF Row
  <1> QED
    BY <1>2

LEMMA RowStepsKeep ==
    ASSUME Parts, NEW r \in Requests,
           \/ CheckCeiling(r) \/ InsertAircraft(r) \/ InsertAsset(r)
           \/ RecordFlight(r) \/ RecordStray(r) \/ RowRaises(r)
    PROVE  Parts'
  <1>0. {"rows", "inserting", "flying"} \subseteq Trying
    BY DEF Trying
  <1>1. CASE CheckCeiling(r)
    <2>1. Importable(Verdict(r)) /\ At(r, "rows") /\ Verdict(r) \in {"NEW", "CREATE"}
      BY <1>1 DEF CheckCeiling, Importable
    <2>2. CASE FailRow(r)
      BY <1>0, <2>1, <2>2, FailKeeps
    <2>3. CASE Remain(r, "inserting") /\ UNCHANGED <<asset, aircraft, job, imported, pending>>
      <3>1. AssetsFine'
        BY <2>3 DEF Parts, AssetsFine, AircraftHaveAssets
      <3> QED
        BY <1>0, <2>1, <2>3, <3>1, RemainKeeps
    <2> QED
      BY <1>1, <2>2, <2>3 DEF CheckCeiling
  <1>2. CASE InsertAircraft(r)
    <2>1. Importable(Verdict(r)) /\ At(r, "inserting")
      BY <1>2 DEF InsertAircraft, Importable
    <2>2. CASE FailRow(r)
      BY <1>0, <2>1, <2>2, FailKeeps
    <2>3. CASE /\ asset' = [asset EXCEPT ![Row(r).reg] = "active"]
               /\ aircraft' = aircraft \cup {Row(r).reg}
               /\ ImportRow(r)
      <3>1. AssetsFine'
        BY <1>0, <2>1, <2>3, RowReg, InsertFine DEF Parts, ImportRow
      <3> QED
        BY <1>0, <2>1, <2>3, <3>1, ImportKeeps
    <2> QED
      BY <1>2, <2>2, <2>3 DEF InsertAircraft
  <1>3. CASE InsertAsset(r)
    <2>1. Importable(Verdict(r)) /\ At(r, "inserting") /\ Verdict(r) = "CREATE"
      BY <1>3 DEF InsertAsset, Importable
    <2>2. CASE FailRow(r)
      BY <1>0, <2>1, <2>2, FailKeeps
    <2>3. CASE /\ asset' = [asset EXCEPT ![Row(r).reg] = "active"]
               /\ Remain(r, "flying")
               /\ UNCHANGED <<aircraft, job, imported, pending>>
      <3>1. AssetsFine'
        BY <1>0, <2>1, <2>3, RowReg, InsertFine DEF Parts
      <3> QED
        BY <1>0, <2>1, <2>3, <3>1, RemainKeeps
    <2> QED
      BY <1>3, <2>2, <2>3 DEF InsertAsset
  <1>4. CASE RecordFlight(r)
    <2>1. \E ph \in Trying : At(r, ph) /\ Importable(Verdict(r))
      <3>1. CASE At(r, "rows") /\ Verdict(r) = "MATCH"
        BY <1>0, <3>1 DEF Importable
      <3>2. CASE At(r, "flying")
        <4>1. SessionFine(session[r]) /\ session[r].phase = "flying"
          BY <3>2 DEF Parts, At
        <4>2. Verdict(r) = "CREATE"
          BY <4>1 DEF SessionFine, Verdict
        <4> QED
          BY <1>0, <3>2, <4>2 DEF Importable
      <3> QED
        BY <1>4, <3>1, <3>2 DEF RecordFlight
    <2>2. CASE FailRow(r)
      BY <2>1, <2>2, FailKeeps
    <2>3. CASE ImportRow(r) /\ UNCHANGED <<asset, aircraft>>
      <3>1. AssetsFine'
        BY <2>3 DEF Parts, AssetsFine, AircraftHaveAssets, ImportRow
      <3> QED
        BY <2>1, <2>3, <3>1, ImportKeeps
    <2> QED
      BY <1>4, <2>2, <2>3 DEF RecordFlight
  <1>5. CASE RecordStray(r)
    BY <1>0, <1>5, FailKeeps DEF RecordStray, Importable
  <1>6. CASE RowRaises(r)
    BY <1>0, <1>6, FailKeeps DEF RowRaises
  <1> QED
    BY <1>1, <1>2, <1>3, <1>4, <1>5, <1>6
-----------------------------------------------------------------------------
(* The other steps *)

LEMMA IdleFine == SessionFine(Idle) /\ Idle.phase \notin Importing
  BY DEF SessionFine, Idle, Session, Importing

(* Steps that change only a session and nobody's claim. *)
LEMMA SessionSteps ==
    ASSUME Parts, NEW r \in Requests, NEW s, SessionFine(s),
           s.phase \notin Importing,
           session' = [session EXCEPT ![r] = s],
           UNCHANGED <<asset, aircraft, job, imported, pending>>
    PROVE  Parts'
  <1>1. AssetsFine' /\ AreFunctions'
    BY DEF Parts, AssetsFine, AircraftHaveAssets, AreFunctions
  <1>2. \A q \in Requests : session'[q] = IF q = r THEN s ELSE session[q]
    BY DEF Parts, AreFunctions
  <1>3. \A q \in Requests, j \in Jobs :
           Imports(session'[q], j) => q # r /\ Imports(session[q], j)
    BY <1>2 DEF Imports
  <1>4. \A q \in Requests : SessionFine(session'[q])
    BY <1>2 DEF Parts
  <1>5. \A q \in Requests, j \in Jobs : Imports(session'[q], j) =>
           /\ Follows(session'[q], job'[j], imported'[j])
           /\ \A p \in Requests \ {q} : ~Imports(session'[p], j)
    BY <1>2, <1>3 DEF Parts
  <1> QED
    BY <1>1, <1>4, <1>5 DEF Parts

(* What validation returns is a verdict for every row. *)
LEMMA ValidateType ==
    ASSUME NEW j \in Jobs, NEW g \in Strategies, NEW d \in [Rows(j) -> Defects]
    PROVE  /\ Validate(j, g, d) \in [Rows(j) -> Verdicts]
           /\ Stored(j, d) \in [Rows(j) -> Defects]
  <1>1. ASSUME NEW i \in Rows(j)
        PROVE  AircraftVerdict(j, d, i) \in Verdicts /\ FlightVerdict(j, g, d, i) \in Verdicts
    BY <1>1 DEF AircraftVerdict, FlightVerdict, Verdicts
  <1> QED
    BY <1>1 DEF Validate, Stored, Defects

(* A session whose claim is not affected sees the same job and the same rows. *)
LEMMA JobRewritten ==
    ASSUME Parts, NEW j \in Jobs, NEW g \in Strategies,
           NEW d \in [Rows(j) -> Defects], NEW v \in [Rows(j) -> Verdicts],
           NEW b, b = Job(job[j].status, g, d, v, job[j].created, job[j].failed)
    PROVE  /\ JobFine(j, b, imported[j])
           /\ \A q \in Requests : Imports(session[q], j) =>
                 Follows(session[q], b, imported[j])
  <1>1. JobFine(j, job[j], imported[j])
    BY DEF Parts
  <1>2. b.status = job[j].status /\ b.created = job[j].created /\ b.failed = job[j].failed
    BY DEF Job
  <1>3. b \in JobRows(j)
    BY <1>1 DEF Job, JobRows, JobFine
  <1>4. JobFine(j, b, imported[j])
    BY <1>1, <1>2, <1>3 DEF JobFine
  <1>5. ASSUME NEW q \in Requests, Imports(session[q], j)
        PROVE  Follows(session[q], b, imported[j])
    BY <1>2, <1>5 DEF Parts, Follows
  <1> QED
    BY <1>4, <1>5

LEMMA CreateJobKeeps ==
    ASSUME Parts, NEW j \in Jobs, NEW g \in Strategies, CreateJob(j, g)
    PROVE  Parts'
  <1> DEFINE d == [i \in Rows(j) |-> FileOf[j][i].defect]
             b == Job("VALIDATED", g, Stored(j, d), Validate(j, g, d), 0, 0)
  <1>1. d \in [Rows(j) -> Defects]
    <2>1. \A i \in Rows(j) : FileOf[j][i].defect \in Defects
      BY FileRow
    <2> QED
      BY <2>1
  <1>2. JobFine(j, job[j], imported[j]) /\ job[j].status = "none"
    BY DEF Parts, CreateJob
  <1>3. JobFine(j, b, imported[j])
    <2>1. b \in JobRows(j)
      BY <1>1, ValidateType DEF Job, JobRows, Statuses
    <2>2. b.status = "VALIDATED"
      BY DEF Job
    <2> QED
      BY <1>2, <2>1, <2>2 DEF JobFine, Terminal
  <1>4. job' = [job EXCEPT ![j] = b] /\ AreFunctions
        /\ UNCHANGED <<asset, aircraft, imported, pending, session>>
    BY DEF CreateJob, Parts
  <1>5. \A q \in Requests : ~Imports(session[q], j)
    BY <1>2 DEF Parts, Follows
  <1> HIDE DEF b
  <1>6. AssetsFine' /\ AreFunctions'
    BY <1>4 DEF Parts, AssetsFine, AircraftHaveAssets, AreFunctions
  <1>7. \A k \in Jobs : JobFine(k, job'[k], imported'[k])
    BY <1>3, <1>4 DEF Parts, AreFunctions
  <1>8. \A q \in Requests, k \in Jobs : Imports(session'[q], k) =>
           /\ Follows(session'[q], job'[k], imported'[k])
           /\ \A p \in Requests \ {q} : ~Imports(session'[p], k)
    BY <1>4, <1>5 DEF Parts, AreFunctions
  <1>9. \A q \in Requests : SessionFine(session'[q])
    BY <1>4 DEF Parts
  <1> QED
    BY <1>6, <1>7, <1>8, <1>9 DEF Parts

LEMMA ConfigureKeeps ==
    ASSUME Parts, NEW r \in Requests,
           WriteConfigure(r) \/
             \E j \in Jobs, g \in Strategies : StartConfigure(r, j, g)
    PROVE  Parts'
  <1>1. ASSUME NEW j \in Jobs, NEW g \in Strategies, StartConfigure(r, j, g)
        PROVE  Parts'
    <2> DEFINE v == Validate(j, g, job[j].defects)
               s == Session("configuring", j, g, v, 1, 0, 0)
    <2>1. job[j].defects \in [Rows(j) -> Defects]
      BY DEF Parts, JobFine, JobRows
    <2>2. v \in [Rows(j) -> Verdicts]
      BY <2>1, ValidateType
    <2>3. SessionFine(s) /\ s.phase \notin Importing
      <3> HIDE DEF v
      <3> QED
        BY <2>2 DEF SessionFine, SessionsOn, Session, Importing
    <2>4. /\ session' = [session EXCEPT ![r] = s]
          /\ UNCHANGED <<asset, aircraft, job, imported, pending>>
      BY <1>1 DEF StartConfigure
    <2> HIDE DEF s
    <2> QED
      BY <2>3, <2>4, SessionSteps
  <1>2. ASSUME WriteConfigure(r) PROVE Parts'
    <2> DEFINE j == session[r].job
               b == Job(job[j].status, session[r].strategy, Stored(j, job[j].defects),
                        session[r].verdicts, job[j].created, job[j].failed)
    <2>1. /\ j \in Jobs /\ session[r].strategy \in Strategies
          /\ session[r].verdicts \in [Rows(j) -> Verdicts]
      <3>1. SessionFine(session[r]) /\ session[r].phase = "configuring"
        BY <1>2 DEF Parts, WriteConfigure
      <3> QED
        BY <3>1 DEF SessionFine, SessionsOn, Session, Idle
    <2>2. job[j].defects \in [Rows(j) -> Defects]
      BY <2>1 DEF Parts, JobFine, JobRows
    <2>3. Stored(j, job[j].defects) \in [Rows(j) -> Defects]
      BY <2>1, <2>2, ValidateType
    <2>4. /\ JobFine(j, b, imported[j])
          /\ \A q \in Requests : Imports(session[q], j) => Follows(session[q], b, imported[j])
      BY <2>1, <2>3, JobRewritten
    <2>5. job' = [job EXCEPT ![j] = b] /\ session' = [session EXCEPT ![r] = Idle]
          /\ UNCHANGED <<asset, aircraft, imported, pending>>
      BY <1>2, <2>1 DEF WriteConfigure, Parts, AreFunctions
    <2>6. imported' = [imported EXCEPT ![j] = imported[j]] /\ AssetsFine'
      BY <2>1, <2>5 DEF Parts, AreFunctions, AssetsFine, AircraftHaveAssets
    <2> HIDE DEF j, b
    <2>7. /\ SessionFine(Idle) /\ Idle.phase \notin Importing
          /\ \A q \in Requests \ {r} : Imports(session[q], j) =>
                Idle.phase \notin Importing /\ Follows(session[q], b, imported[j])
      BY <2>4, IdleFine
    <2>8. j \in Jobs /\ JobFine(j, b, imported[j])
      BY <2>1, <2>4
    <2> QED
      BY <2>5, <2>6, <2>7, <2>8, Moves
  <1> QED
    BY <1>1, <1>2
LEMMA ClaimKeeps ==
    ASSUME Parts, NEW r \in Requests, NEW j \in Jobs, Claim(r, j)
    PROVE  Parts'
  <1> DEFINE b == Job("IMPORTING", job[j].strategy, job[j].defects, job[j].verdicts,
                      job[j].created, job[j].failed)
             m == imported[j]
             s == Session("claimed", j, "ASK", <<>>, 1, 0, 0)
  <1>1. JobFine(j, job[j], m) /\ job[j].status = "VALIDATED"
    BY DEF Parts, Claim
  <1>2. m \in [Rows(j) -> Nat] /\ \A i \in Rows(j) : m[i] = 0
    BY <1>1 DEF JobFine
  <1>3. b.status = "IMPORTING" /\ b \in JobRows(j)
    BY <1>1 DEF JobFine, JobRows, Job, Statuses
  <1>4. JobFine(j, b, m)
    BY <1>2, <1>3 DEF JobFine, Terminal
  <1>5. SessionFine(s) /\ s.phase = "claimed" /\ s.job = j /\ s.next = 1
        /\ s.created = 0 /\ s.failed = 0
    BY DEF SessionFine, SessionsOn, Session
  <1>6. Cardinality(Came(j, m)) = 0
    BY <1>2, NothingCame
  <1>7. \A q \in Requests : ~Imports(session[q], j)
    BY <1>1 DEF Parts, Follows
  <1>8. /\ job' = [job EXCEPT ![j] = b] /\ session' = [session EXCEPT ![r] = s]
        /\ imported' = [imported EXCEPT ![j] = m] /\ AssetsFine'
    BY DEF Claim, Parts, AreFunctions, AssetsFine, AircraftHaveAssets
  <1> HIDE DEF b, m, s
  <1>9. Follows(s, b, m)
    BY <1>2, <1>3, <1>5, <1>6 DEF Follows
  <1> QED
    BY <1>4, <1>5, <1>7, <1>8, <1>9, Moves

LEMMA LoadRowsKeeps ==
    ASSUME Parts, NEW r \in Requests, LoadRows(r)
    PROVE  Parts'
  <1> DEFINE j == session[r].job
             m == imported[j]
             v == job[j].verdicts
             s == Session("rows", j, session[r].strategy, v, 1, 0, 0)
  <1>1. SessionFine(session[r]) /\ session[r].phase = "claimed"
    BY DEF Parts, LoadRows
  <1>2. j \in Jobs /\ session[r].next = 1 /\ session[r].strategy \in Strategies
        /\ session[r].created = 0 /\ session[r].failed = 0
    BY <1>1 DEF SessionFine, SessionsOn, Session, Idle, Strategies
  <1>3. /\ JobFine(j, job[j], m) /\ Follows(session[r], job[j], m)
        /\ \A q \in Requests \ {r} : ~Imports(session[q], j)
    BY <1>1, <1>2 DEF Parts, Imports, Importing
  <1>4. v \in [Rows(j) -> Verdicts] /\ m \in [Rows(j) -> Nat]
    BY <1>3 DEF JobFine, JobRows
  <1>5. \A i \in Rows(j) : m[i] = 0
    BY <1>2, <1>3, RowsFinite DEF Follows
  <1>6. Cardinality(Came(j, m)) = 0 /\ Cardinality(Missed(j, m, v, 1)) = 0
    <2> HIDE DEF m, v, j
    <2> QED
      BY <1>2, <1>4, <1>5, NothingCame
  <1>7. SessionFine(s)
    <2>1. "rows" \in Trying /\ 1 \in Nat \ {0} /\ 0 \in Nat
      BY DEF Trying
    <2> QED
      BY <1>2, <1>4, <2>1, RowSession
  <1>8. s.job = j /\ Follows(s, job[j], m)
    <2>1. job[j].status = "IMPORTING"
      BY <1>3 DEF Follows
    <2> QED
      BY <1>5, <1>6, <2>1 DEF Follows, Session
  <1>9. /\ job' = [job EXCEPT ![j] = job[j]] /\ session' = [session EXCEPT ![r] = s]
        /\ imported' = [imported EXCEPT ![j] = m] /\ AssetsFine'
    BY <1>2 DEF LoadRows, Parts, AreFunctions, AssetsFine, AircraftHaveAssets
  <1> HIDE DEF s, v
  <1> QED
    BY <1>2, <1>3, <1>7, <1>8, <1>9, Moves

LEMMA FinishKeeps ==
    ASSUME Parts, NEW r \in Requests, Finish(r)
    PROVE  Parts'
  <1> DEFINE s == session[r]
             j == s.job
             m == imported[j]
             b == Job(Outcome(s.created, s.failed), job[j].strategy, job[j].defects,
                      job[j].verdicts, s.created, s.failed)
  <1>1. SessionFine(s) /\ s.phase = "rows"
    BY DEF Parts, Finish
  <1>2. j \in Jobs /\ s.created \in Nat /\ s.failed \in Nat
    BY <1>1 DEF SessionFine, SessionsOn, Session, Idle
  <1>3. /\ JobFine(j, job[j], m) /\ Follows(s, job[j], m)
        /\ \A q \in Requests \ {r} : ~Imports(session[q], j)
    BY <1>1, <1>2 DEF Parts, Imports, Importing
  <1>4. s.created = Cardinality(Came(j, m))
    BY <1>3 DEF Follows
  <1>5. Outcome(s.created, s.failed) \in Terminal
    BY DEF Outcome, Terminal
  <1>6. /\ b.status = Outcome(s.created, s.failed)
        /\ b.created = s.created /\ b.failed = s.failed
    BY DEF Job
  <1>7. b \in JobRows(j)
    <2>1. Outcome(s.created, s.failed) \in Statuses
      BY <1>5 DEF Statuses
    <2> HIDE DEF s
    <2> QED
      BY <1>2, <1>3, <2>1 DEF JobFine, JobRows, Job
  <1>8. JobFine(j, b, m)
    BY <1>3, <1>4, <1>5, <1>6, <1>7 DEF JobFine, Terminal
  <1>9. /\ job' = [job EXCEPT ![j] = b] /\ session' = [session EXCEPT ![r] = Idle]
        /\ imported' = [imported EXCEPT ![j] = m] /\ AssetsFine'
    BY <1>2 DEF Finish, Parts, AreFunctions, AssetsFine, AircraftHaveAssets
  <1> HIDE DEF b, m, j
  <1> QED
    BY <1>2, <1>3, <1>8, <1>9, IdleFine, Moves

LEMMA CrashKeeps ==
    ASSUME Parts, NEW r \in Requests, Crash(r)
    PROVE  Parts'
  BY IdleFine, SessionSteps DEF Crash

(* Steps that touch neither jobs nor sessions. *)
LEMMA ManualKeeps ==
    ASSUME Parts, NEW g \in Regs, Manual(g) \/ ManualStep(g)
    PROVE  Parts'
  <1>1. AssetsFine'
    <2> USE DEF Parts
    <2>1. ASSUME NEW kind \in Kinds, CheckCreation(g, kind) PROVE AssetsFine'
      BY <2>1 DEF CheckCreation, AssetsFine, AircraftHaveAssets
    <2>2. ASSUME NEW kind \in Kinds, InsertCreation(g, kind) PROVE AssetsFine'
      <3>1. CASE UNCHANGED <<asset, aircraft>>
        BY <2>2, <3>1 DEF InsertCreation, AssetsFine, AircraftHaveAssets
      <3>2. CASE /\ asset' = [asset EXCEPT ![g] = "active"]
                 /\ aircraft' = aircraft \/ aircraft' = aircraft \cup {g}
        BY <2>2, <3>2, InsertFine DEF InsertCreation
      <3> QED
        BY <2>2, <3>1, <3>2 DEF InsertCreation
    <2>3. CASE SoftDelete(g)
      BY <2>3 DEF SoftDelete, AssetsFine, AircraftHaveAssets, AssetStates
    <2>4. CASE Restore(g)
      BY <2>4 DEF Restore, AssetsFine, AircraftHaveAssets, AssetStates
    <2> QED
      BY <2>1, <2>2, <2>3, <2>4 DEF Manual, ManualStep
  <1>2. UNCHANGED <<job, imported, session>>
    BY DEF Manual, ManualStep, CheckCreation, InsertCreation, SoftDelete, Restore
  <1> QED
    BY <1>1, <1>2 DEF Parts, AreFunctions

LEMMA NextKeeps == Parts /\ [Next]_vars => Parts'
  <1> SUFFICES ASSUME Parts, [Next]_vars PROVE Parts'
    OBVIOUS
  <1>1. CASE Start
    BY <1>1, CreateJobKeeps, ConfigureKeeps, ClaimKeeps DEF Start
  <1>2. CASE \E r \in Requests : Step(r)
    BY <1>2, ConfigureKeeps, LoadRowsKeeps, PassKeeps, RowStepsKeep, FinishKeeps,
       CrashKeeps DEF Step
  <1>3. CASE \E g \in Regs : Manual(g) \/ ManualStep(g)
    BY <1>3, ManualKeeps
  <1>4. CASE UNCHANGED vars
    BY <1>4 DEF vars, Parts, AssetsFine, AircraftHaveAssets, AreFunctions
  <1> QED
    BY <1>1, <1>2, <1>3, <1>4 DEF Next

LEMMA InitFine == Init => Parts
  <1> SUFFICES ASSUME Init PROVE Parts
    OBVIOUS
  <1>1. AssetsFine
    BY DEF Init, AssetsFine, AircraftHaveAssets
  <1>2. AreFunctions
    BY DEF Init, AreFunctions
  <1>3. ASSUME NEW j \in Jobs PROVE JobFine(j, job[j], imported[j])
    <2>1. job[j] = Job("none", "ASK", [i \in Rows(j) |-> "none"],
                       [i \in Rows(j) |-> "INVALID"], 0, 0)
      BY DEF Init
    <2>2. job[j] \in JobRows(j) /\ job[j].status = "none"
      BY <2>1 DEF Job, JobRows, Statuses, Strategies, Defects, Verdicts
    <2>3. imported[j] = [i \in Rows(j) |-> 0]
      BY DEF Init
    <2> QED
      BY <2>2, <2>3 DEF JobFine, Terminal
  <1>4. \A r \in Requests : SessionFine(session[r]) /\ session[r].phase \notin Importing
    BY IdleFine DEF Init
  <1> QED
    BY <1>1, <1>2, <1>3, <1>4 DEF Parts, Imports

(* Whatever requests overlap or die, and whatever others do to the assets: a job
   is imported by one request at a time, a row of it arrives once at most, its
   counts are those of the rows that arrived, and an Aircraft never stands
   without its asset.                                                      *)
THEOREM ImportsInvariant == Spec => []ImportsInv
  <1> QED
    BY InitFine, NextKeeps, Cut, PTL DEF Spec
-----------------------------------------------------------------------------
(* What one step may do to the rows and the outcome of a job. *)
Final(j) ==
    /\ imported'[j] # imported[j] =>
          job[j].status = "IMPORTING" /\ job'[j].status = "IMPORTING"
    /\ job[j].status \in Terminal =>
          /\ job'[j].status = job[j].status
          /\ job'[j].created = job[j].created
          /\ job'[j].failed = job[j].failed

LEMMA RowStepsFinal ==
    ASSUME Parts, NEW r \in Requests, NEW j \in Jobs,
           \/ PassRow(r) \/ CheckCeiling(r) \/ InsertAircraft(r) \/ InsertAsset(r)
           \/ RecordFlight(r) \/ RecordStray(r) \/ RowRaises(r)
    PROVE  Final(j)
  <1>1. UNCHANGED job
    BY DEF PassRow, CheckCeiling, InsertAircraft, InsertAsset, RecordFlight,
           RecordStray, RowRaises, FailRow, ImportRow
  <1>2. UNCHANGED imported \/ (ImportRow(r) /\ \E ph \in Trying : At(r, ph))
    BY DEF PassRow, CheckCeiling, InsertAircraft, InsertAsset, RecordFlight,
           RecordStray, RowRaises, FailRow, Trying
  <1>3. CASE ImportRow(r) /\ \E ph \in Trying : At(r, ph)
    <2>1. job[session[r].job].status = "IMPORTING"
      BY <1>3, AtARow
    <2>2. j # session[r].job => imported'[j] = imported[j]
      BY <1>3 DEF ImportRow, Parts, AreFunctions
    <2> QED
      BY <1>1, <2>1, <2>2 DEF Final
  <1> QED
    BY <1>1, <1>2, <1>3 DEF Final

LEMMA StepFinal ==
    ASSUME Parts, Next, NEW j \in Jobs
    PROVE  Final(j)
  <1>1. ASSUME NEW k \in Jobs, NEW g \in Strategies, CreateJob(k, g) PROVE Final(j)
    <2>1. job[k].status \notin Terminal /\ UNCHANGED imported
      BY <1>1 DEF CreateJob, Terminal
    <2>2. j # k => job'[j] = job[j]
      BY <1>1 DEF CreateJob, Parts, AreFunctions
    <2> QED
      BY <2>1, <2>2 DEF Final
  <1>2. ASSUME NEW r \in Requests, NEW k \in Jobs, Claim(r, k) PROVE Final(j)
    <2>1. job[k].status \notin Terminal /\ UNCHANGED imported
      BY <1>2 DEF Claim, Terminal
    <2>2. j # k => job'[j] = job[j]
      BY <1>2 DEF Claim, Parts, AreFunctions
    <2> QED
      BY <2>1, <2>2 DEF Final
  <1>3. ASSUME NEW r \in Requests, WriteConfigure(r) PROVE Final(j)
    <2>1. /\ UNCHANGED imported
          /\ job'[j].status = job[j].status
          /\ job'[j].created = job[j].created /\ job'[j].failed = job[j].failed
      BY <1>3 DEF WriteConfigure, Parts, AreFunctions, Job
    <2> QED
      BY <2>1 DEF Final
  <1>4. ASSUME NEW r \in Requests, Finish(r) PROVE Final(j)
    <2>1. SessionFine(session[r]) /\ session[r].phase = "rows"
      BY <1>4 DEF Parts, Finish
    <2>2. session[r].job \in Jobs /\ Imports(session[r], session[r].job)
      BY <2>1, OnAJob DEF Imports, Importing
    <2>3. job[session[r].job].status \notin Terminal
      BY <2>2 DEF Parts, Follows, Terminal
    <2>4. UNCHANGED imported /\ (j # session[r].job => job'[j] = job[j])
      BY <1>4 DEF Finish, Parts, AreFunctions
    <2> QED
      BY <2>3, <2>4 DEF Final
  <1>5. ASSUME UNCHANGED <<job, imported>> PROVE Final(j)
    BY <1>5 DEF Final
  <1>6. CASE Start
    BY <1>1, <1>2, <1>5, <1>6 DEF Start, StartConfigure
  <1>7. CASE \E r \in Requests : Step(r)
    BY <1>3, <1>4, <1>5, <1>7, RowStepsFinal DEF Step, LoadRows, Crash
  <1>8. CASE \E g \in Regs : Manual(g) \/ ManualStep(g)
    BY <1>5, <1>8 DEF Manual, ManualStep, CheckCreation, InsertCreation, SoftDelete, Restore
  <1> QED
    BY <1>6, <1>7, <1>8 DEF Next

(* Rows arrive only while their job is IMPORTING, and neither an import, a second
   commit nor a late reconfiguration ever rewrites the outcome of a job.   *)
THEOREM OutcomeIsFinal == Spec => FinishedIsFinal
  <1>1. Parts /\ [Next]_vars =>
          [\A j \in Jobs :
             /\ imported'[j] # imported[j] =>
                   job[j].status = "IMPORTING" /\ job'[j].status = "IMPORTING"
             /\ job[j].status \in Terminal =>
                   /\ job'[j].status = job[j].status
                   /\ job'[j].created = job[j].created
                   /\ job'[j].failed = job[j].failed]_vars
    BY StepFinal DEF Final
  <1> QED
    BY <1>1, InitFine, NextKeeps, PTL DEF Spec, FinishedIsFinal
-----------------------------------------------------------------------------
(* One request at a time on the jobs: the verdicts a session imports by are those
   of its job, and a job that is reconfigured has not been claimed.        *)
OneBusy == \A r, q \in Requests :
    session[r].phase # "idle" /\ session[q].phase # "idle" => r = q

Shown(j, b, m) ==
    /\ \A i \in Came(j, m) : Importable(b.verdicts[i])
    /\ b.status = "COMPLETED" => Came(j, m) = {i \in Rows(j) : Importable(b.verdicts[i])}

Reads(s, b) ==
    /\ s.phase \in Trying => s.verdicts = b.verdicts
    /\ s.phase = "configuring" => b.status = "VALIDATED"

PreviewInv ==
    scenario # "jobs" =>
       /\ OneBusy
       /\ \A j \in Jobs : Shown(j, job[j], imported[j])
       /\ \A r \in Requests : session[r].phase # "idle" =>
             Reads(session[r], job[session[r].job])

(* One job, its imported rows and the only busy session change. *)
LEMMA PreviewMoves ==
    ASSUME Parts, PreviewInv, scenario # "jobs", scenario' = scenario,
           NEW j \in Jobs, NEW r \in Requests, NEW b, NEW m, NEW s,
           job' = [job EXCEPT ![j] = b],
           imported' = [imported EXCEPT ![j] = m],
           session' = [session EXCEPT ![r] = s],
           \A q \in Requests \ {r} : session[q].phase = "idle",
           Shown(j, b, m),
           s.phase # "idle" => s.job = j /\ Reads(s, b)
    PROVE  PreviewInv'
  <1>1. \A q \in Requests : session'[q] = IF q = r THEN s ELSE session[q]
    BY DEF Parts, AreFunctions
  <1>2. \A k \in Jobs : /\ job'[k] = IF k = j THEN b ELSE job[k]
                        /\ imported'[k] = IF k = j THEN m ELSE imported[k]
    BY DEF Parts, AreFunctions
  <1>3. OneBusy'
    BY <1>1 DEF OneBusy
  <1>4. \A k \in Jobs : Shown(k, job'[k], imported'[k])
    BY <1>2 DEF PreviewInv
  <1>5. \A q \in Requests : session'[q].phase # "idle" =>
           Reads(session'[q], job'[session'[q].job])
    BY <1>1, <1>2
  <1> QED
    BY <1>3, <1>4, <1>5 DEF PreviewInv

(* The steps that leave the jobs and the sessions alone. *)
LEMMA PreviewKept ==
    ASSUME PreviewInv, scenario' = scenario, UNCHANGED <<job, imported, session>>
    PROVE  PreviewInv'
  BY DEF PreviewInv, OneBusy

(* Nothing has come of a job that is not claimed. *)
LEMMA NothingShown ==
    ASSUME Parts, NEW j \in Jobs, job[j].status \in {"none", "VALIDATED"}, NEW b,
           b.status # "COMPLETED"
    PROVE  Shown(j, b, imported[j])
  <1>1. JobFine(j, job[j], imported[j])
    BY DEF Parts
  <1>2. \A i \in Rows(j) : imported[j][i] = 0
    BY <1>1 DEF JobFine
  <1>3. Came(j, imported[j]) = {}
    BY <1>2 DEF Came
  <1> QED
    BY <1>3 DEF Shown

LEMMA PreviewStart ==
    ASSUME Parts, PreviewInv, scenario # "jobs", scenario' = scenario, Busy = {}, Start
    PROVE  PreviewInv'
  <1>0. \A r \in Requests : session[r].phase = "idle"
    BY DEF Busy
  <1>1. ASSUME NEW j \in Jobs, NEW g \in Strategies, CreateJob(j, g) PROVE PreviewInv'
    <2> DEFINE b == Job("VALIDATED", g, Stored(j, [i \in Rows(j) |-> FileOf[j][i].defect]),
                        Validate(j, g, [i \in Rows(j) |-> FileOf[j][i].defect]), 0, 0)
    <2>1. /\ job[j].status = "none" /\ job' = [job EXCEPT ![j] = b]
          /\ UNCHANGED <<imported, session>>
      BY <1>1 DEF CreateJob
    <2>2. b.status # "COMPLETED"
      BY DEF Job
    <2> HIDE DEF b
    <2>3. Shown(j, b, imported[j])
      BY <2>1, <2>2, NothingShown
    <2>4. \A k \in Jobs : Shown(k, job'[k], imported'[k])
      BY <2>1, <2>3 DEF PreviewInv, Parts, AreFunctions
    <2> QED
      BY <1>0, <2>1, <2>4 DEF PreviewInv, OneBusy
  <1>2. ASSUME NEW j \in Jobs, NEW g \in Strategies, NEW r \in Requests,
               StartConfigure(r, j, g)
        PROVE  PreviewInv'
    <2> DEFINE s == Session("configuring", j, g, Validate(j, g, job[j].defects), 1, 0, 0)
    <2>1. /\ job[j].status = "VALIDATED" /\ session' = [session EXCEPT ![r] = s]
          /\ UNCHANGED <<job, imported>>
      BY <1>2 DEF StartConfigure
    <2>2. s.phase = "configuring" /\ s.job = j
      BY DEF Session
    <2> HIDE DEF s
    <2>3. Reads(s, job[j]) /\ Shown(j, job[j], imported[j])
      BY <2>1, <2>2 DEF Reads, Trying, PreviewInv
    <2>4. /\ job' = [job EXCEPT ![j] = job[j]]
          /\ imported' = [imported EXCEPT ![j] = imported[j]]
      BY <2>1 DEF Parts, AreFunctions
    <2> QED
      BY <1>0, <2>1, <2>2, <2>3, <2>4, PreviewMoves
  <1>3. ASSUME NEW j \in Jobs, NEW r \in Requests, Claim(r, j) PROVE PreviewInv'
    <2> DEFINE s == Session("claimed", j, "ASK", <<>>, 1, 0, 0)
               b == Job("IMPORTING", job[j].strategy, job[j].defects, job[j].verdicts,
                        job[j].created, job[j].failed)
    <2>1. /\ job[j].status = "VALIDATED" /\ session' = [session EXCEPT ![r] = s]
          /\ job' = [job EXCEPT ![j] = b]
          /\ imported' = [imported EXCEPT ![j] = imported[j]]
      BY <1>3 DEF Claim, Parts, AreFunctions
    <2>2. s.phase = "claimed" /\ s.job = j /\ b.status # "COMPLETED"
      BY DEF Session, Job
    <2> HIDE DEF s, b
    <2>3. Reads(s, b) /\ Shown(j, b, imported[j])
      BY <2>1, <2>2, NothingShown DEF Reads, Trying
    <2> QED
      BY <1>0, <2>1, <2>2, <2>3, PreviewMoves
  <1> QED
    BY <1>1, <1>2, <1>3 DEF Start

(* An import alone: it reads the verdicts of its job, and a row arrives by one
   that is importable.                                                     *)
LEMMA PreviewRows ==
    ASSUME Parts, PreviewInv, scenario # "jobs", scenario' = scenario,
           NEW r \in Requests, NEW ph \in Trying, At(r, ph),
           UNCHANGED job, NEW to \in Trying,
           NEW n, NEW c, NEW f,
           session' = [session EXCEPT ![r] =
                         Session(to, @.job, @.strategy, @.verdicts, n, c, f)],
           NEW m, imported' = [imported EXCEPT ![session[r].job] = m],
           m = imported[session[r].job]
              \/ /\ m = [imported[session[r].job] EXCEPT ![session[r].next] = @ + 1]
                 /\ Importable(Verdict(r))
    PROVE  PreviewInv'
  <1> DEFINE s == session[r]
             t == Session(to, s.job, s.strategy, s.verdicts, n, c, f)
  <1>1. /\ s.job \in Jobs /\ s.next \in Rows(s.job) /\ s.phase = ph
        /\ JobFine(s.job, job[s.job], imported[s.job])
        /\ job[s.job].status = "IMPORTING" /\ AreFunctions
    BY AtARow
  <1>2. s.phase # "idle" /\ s.phase \in Trying
    BY <1>1 DEF Trying
  <1>3. /\ s.verdicts = job[s.job].verdicts /\ Shown(s.job, job[s.job], imported[s.job])
        /\ \A q \in Requests \ {r} : session[q].phase = "idle"
    BY <1>1, <1>2 DEF PreviewInv, OneBusy, Reads
  <1>4. Came(s.job, m) \subseteq Came(s.job, imported[s.job]) \cup {s.next}
        /\ (m = imported[s.job] \/ Importable(s.verdicts[s.next]))
    BY <1>1 DEF Came, JobFine, Verdict
  <1>5. Shown(s.job, job[s.job], m)
    BY <1>1, <1>3, <1>4 DEF Shown
  <1>6. t.phase \in Trying /\ t.job = s.job /\ t.verdicts = s.verdicts
    BY DEF Session
  <1>7. session' = [session EXCEPT ![r] = t] /\ job' = [job EXCEPT ![s.job] = job[s.job]]
    BY <1>1 DEF AreFunctions
  <1> HIDE DEF t
  <1>8. Reads(t, job[s.job])
    BY <1>3, <1>6 DEF Reads, Trying
  <1> QED
    BY <1>1, <1>3, <1>5, <1>6, <1>7, <1>8, PreviewMoves

(* The row steps, alone. *)
LEMMA PreviewRowSteps ==
    ASSUME Parts, PreviewInv, scenario # "jobs", scenario' = scenario, NEW r \in Requests,
           \/ PassRow(r) \/ CheckCeiling(r) \/ InsertAircraft(r) \/ InsertAsset(r)
           \/ RecordFlight(r) \/ RecordStray(r) \/ RowRaises(r)
    PROVE  PreviewInv'
  <1>0. /\ {"rows", "inserting", "flying"} \subseteq Trying
        /\ imported = [j \in Jobs |-> imported[j]]
    BY DEF Trying, Parts, AreFunctions
  <1>1. PICK ph \in Trying : At(r, ph)
    BY <1>0 DEF PassRow, CheckCeiling, InsertAircraft, InsertAsset, RecordFlight,
                RecordStray, RowRaises
  <1>2. session[r].job \in Jobs
    BY <1>1, AtARow
  <1>3. imported = [imported EXCEPT ![session[r].job] = imported[session[r].job]]
    BY <1>0, <1>2
  <1>4. ASSUME NEW made, NEW lost, Advance(r, made, lost), UNCHANGED <<job, imported>>
        PROVE  PreviewInv'
    BY <1>0, <1>1, <1>3, <1>4, PreviewRows DEF Advance
  <1>5. ASSUME NEW to \in {"inserting", "flying"}, Remain(r, to), UNCHANGED <<job, imported>>
        PROVE  PreviewInv'
    BY <1>0, <1>1, <1>3, <1>5, PreviewRows DEF Remain
  <1>6. ASSUME ImportRow(r), Importable(Verdict(r)) PROVE PreviewInv'
    <2> DEFINE m == [imported[session[r].job] EXCEPT ![session[r].next] = @ + 1]
    <2>1. imported' = [imported EXCEPT ![session[r].job] = m] /\ UNCHANGED job
      BY <1>6 DEF ImportRow
    <2>2. Advance(r, 1, 0)
      BY <1>6 DEF ImportRow
    <2> HIDE DEF m
    <2> QED
      BY <1>0, <1>1, <1>6, <2>1, <2>2, PreviewRows DEF Advance, m
  <1>7. CASE FailRow(r) \/ PassRow(r)
    BY <1>4, <1>7 DEF FailRow, PassRow
  <1>8. CASE CheckCeiling(r)
    BY <1>5, <1>7, <1>8 DEF CheckCeiling
  <1>9. CASE InsertAircraft(r)
    BY <1>6, <1>7, <1>9 DEF InsertAircraft, Importable
  <1>10. CASE InsertAsset(r)
    BY <1>5, <1>7, <1>10 DEF InsertAsset
  <1>11. CASE RecordFlight(r)
    <2>1. Importable(Verdict(r))
      <3>1. CASE At(r, "flying")
        BY <3>1 DEF Parts, SessionFine, At, Verdict, Importable
      <3> QED
        BY <1>11, <3>1 DEF RecordFlight, Importable
    <2> QED
      BY <1>6, <1>7, <1>11, <2>1 DEF RecordFlight
  <1>12. CASE RecordStray(r) \/ RowRaises(r)
    BY <1>7, <1>12 DEF RecordStray, RowRaises
  <1> QED
    BY <1>7, <1>8, <1>9, <1>10, <1>11, <1>12

(* The other steps of a request, alone. *)
LEMMA PreviewSteps ==
    ASSUME Parts, PreviewInv, scenario # "jobs", scenario' = scenario, NEW r \in Requests,
           WriteConfigure(r) \/ LoadRows(r) \/ Finish(r)
    PROVE  PreviewInv'
  <1> DEFINE s == session[r]
             j == s.job
             m == imported[j]
  <1>1. /\ SessionFine(s) /\ s.phase # "idle" /\ s.phase \in {"configuring", "claimed", "rows"}
    BY DEF Parts, WriteConfigure, LoadRows, Finish
  <1>2. /\ j \in Jobs
        /\ s.phase # "claimed" => s.verdicts \in [Rows(j) -> Verdicts] /\ s.next \in Nat \ {0}
    BY <1>1 DEF SessionFine, SessionsOn, Session, Idle
  <1>3. /\ JobFine(j, job[j], m) /\ Shown(j, job[j], m) /\ Reads(s, job[j])
        /\ \A q \in Requests \ {r} : session[q].phase = "idle"
        /\ AreFunctions
    BY <1>1, <1>2 DEF Parts, PreviewInv, OneBusy
  <1>4. imported' = [imported EXCEPT ![j] = m]
    BY <1>2, <1>3 DEF AreFunctions, WriteConfigure, LoadRows, Finish
  <1>5. Idle.phase = "idle"
    BY DEF Idle, Session
  <1>6. CASE WriteConfigure(r)
    <2> DEFINE b == Job(job[j].status, s.strategy, Stored(j, job[j].defects),
                        s.verdicts, job[j].created, job[j].failed)
    <2>1. job[j].status = "VALIDATED"
      BY <1>3, <1>6 DEF Reads, WriteConfigure
    <2>2. b.status # "COMPLETED"
      BY <2>1 DEF Job
    <2>3. job' = [job EXCEPT ![j] = b] /\ session' = [session EXCEPT ![r] = Idle]
      BY <1>2, <1>3, <1>6 DEF WriteConfigure, AreFunctions
    <2> HIDE DEF b
    <2>4. Shown(j, b, m)
      BY <1>2, <2>1, <2>2, NothingShown
    <2> QED
      BY <1>2, <1>3, <1>4, <1>5, <2>3, <2>4, PreviewMoves
  <1>7. CASE LoadRows(r)
    <2> DEFINE t == Session("rows", j, s.strategy, job[j].verdicts, 1, 0, 0)
    <2>1. t.job = j /\ t.verdicts = job[j].verdicts /\ t.phase = "rows"
      BY DEF Session
    <2>2. session' = [session EXCEPT ![r] = t] /\ UNCHANGED job
      BY <1>7 DEF LoadRows
    <2> HIDE DEF t
    <2>3. Reads(t, job[j]) /\ job' = [job EXCEPT ![j] = job[j]]
      BY <1>2, <1>3, <2>1, <2>2 DEF Reads, AreFunctions
    <2> QED
      BY <1>2, <1>3, <1>4, <2>1, <2>2, <2>3, PreviewMoves
  <1>8. CASE Finish(r)
    <2> DEFINE b == Job(Outcome(s.created, s.failed), job[j].strategy, job[j].defects,
                        job[j].verdicts, s.created, s.failed)
    <2>1. s.phase = "rows" /\ s.next \notin Rows(j)
      BY <1>8 DEF Finish
    <2>2. s.verdicts = job[j].verdicts
      BY <1>3, <2>1 DEF Reads, Trying
    <2>3. s.failed = Cardinality(Missed(j, m, s.verdicts, s.next))
      <3>1. Follows(s, job[j], m)
        BY <1>2, <2>1 DEF Parts, Imports, Importing
      <3> QED
        BY <2>1, <3>1 DEF Follows
    <2>4. job' = [job EXCEPT ![j] = b] /\ session' = [session EXCEPT ![r] = Idle]
      BY <1>2, <1>3, <1>8 DEF Finish, AreFunctions
    <2>5. b.verdicts = job[j].verdicts /\ b.status = Outcome(s.created, s.failed)
      BY DEF Job
    <2> HIDE DEF b
    <2>6. ASSUME s.failed = 0, NEW i \in Rows(j), Importable(s.verdicts[i])
          PROVE  i \in Came(j, m)
      <3>1. Rows(j) = 1 .. Len(FileOf[j]) /\ Len(FileOf[j]) \in Nat
        BY <1>2, ImportsAssumption DEF ImportsAssumption, Rows
      <3>2. i < s.next
        BY <1>2, <2>1, <3>1
      <3>3. Missed(j, m, s.verdicts, s.next) = {}
        <4>1. Missed(j, m, s.verdicts, s.next) \subseteq Rows(j)
          BY DEF Missed
        <4>2. IsFiniteSet(Missed(j, m, s.verdicts, s.next))
          BY <1>2, <4>1, RowsFinite
        <4> QED
          BY <2>3, <2>6, <4>2, FS_EmptySet
      <3>4. m[i] \in Nat /\ m[i] # 0
        BY <1>3, <2>6, <3>2, <3>3 DEF Missed, JobFine
      <3> QED
        BY <3>4 DEF Came
    <2>7. Shown(j, b, m)
      <3>1. \A i \in Came(j, m) : Importable(b.verdicts[i])
        BY <1>3, <2>5 DEF Shown
      <3>2. ASSUME b.status = "COMPLETED"
            PROVE  Came(j, m) = {i \in Rows(j) : Importable(b.verdicts[i])}
        <4>1. s.failed = 0
          BY <2>5, <3>2 DEF Outcome
        <4> QED
          BY <2>2, <2>5, <2>6, <3>1, <4>1 DEF Came
      <3> QED
        BY <3>1, <3>2 DEF Shown
    <2> QED
      BY <1>2, <1>3, <1>4, <1>5, <2>4, <2>7, PreviewMoves
  <1> QED
    BY <1>6, <1>7, <1>8

LEMMA PreviewCrash ==
    ASSUME Parts, PreviewInv, scenario # "jobs", scenario' = scenario, NEW r \in Requests,
           Crash(r)
    PROVE  PreviewInv'
  <1>1. \A q \in Requests : session'[q] = IF q = r THEN Idle ELSE session[q]
    BY DEF Crash, Parts, AreFunctions
  <1>2. Idle.phase = "idle" /\ UNCHANGED <<job, imported>>
    BY DEF Idle, Session, Crash
  <1> QED
    BY <1>1, <1>2 DEF PreviewInv, OneBusy

LEMMA MCNextIsNext == MCNext => Next /\ scenario' = scenario
  BY DEF MCNext, SerialNext, JobsNext, EndpointsNext, Next

LEMMA MCKeepsParts == MCSpec => []Parts
  <1>1. MCInit => Parts
    BY InitFine DEF MCInit
  <1>2. Parts /\ [MCNext]_<<vars, scenario>> => Parts'
    BY NextKeeps, MCNextIsNext DEF vars
  <1> QED
    BY <1>1, <1>2, PTL DEF MCSpec

LEMMA PreviewInit == MCInit => PreviewInv
  <1> SUFFICES ASSUME MCInit PROVE PreviewInv
    OBVIOUS
  <1>1. \A r \in Requests : session[r].phase = "idle"
    BY IdleFine DEF MCInit, Init, Idle, Session
  <1>2. ASSUME NEW j \in Jobs PROVE Shown(j, job[j], imported[j])
    <2>1. Parts
      BY InitFine DEF MCInit
    <2>2. job[j].status = "none"
      BY DEF MCInit, Init, Job
    <2> QED
      BY <2>1, <2>2, NothingShown
  <1> QED
    BY <1>1, <1>2 DEF PreviewInv, OneBusy

LEMMA PreviewStep ==
    ASSUME Parts, PreviewInv, [MCNext]_<<vars, scenario>>
    PROVE  PreviewInv'
  <1>1. CASE UNCHANGED <<vars, scenario>>
    BY <1>1, PreviewKept DEF vars
  <1>2. CASE MCNext /\ scenario = "jobs"
    BY <1>2 DEF MCNext, PreviewInv
  <1>3. CASE MCNext /\ scenario # "jobs"
    <2>1. scenario' = scenario
      BY <1>3 DEF MCNext
    <2>2. CASE Busy = {} /\ Start
      BY <1>3, <2>1, <2>2, PreviewStart
    <2>3. CASE \E r \in Requests : Step(r)
      BY <1>3, <2>1, <2>3, PreviewRowSteps, PreviewSteps, PreviewCrash DEF Step
    <2>4. CASE \E g \in Regs : Manual(g) \/ ManualStep(g)
      <3>1. UNCHANGED <<job, imported, session>>
        BY <2>4 DEF Manual, ManualStep, CheckCreation, InsertCreation, SoftDelete, Restore
      <3> QED
        BY <2>1, <3>1, PreviewKept
    <2> QED
      BY <1>3, <2>2, <2>3, <2>4 DEF MCNext, SerialNext, EndpointsNext, Quiet
  <1> QED
    BY <1>1, <1>2, <1>3

(* For all files, whatever others do to the assets meanwhile and wherever an
   import dies: as long as requests on the jobs do not overlap, only rows arrive
   that the preview of their job shows, and COMPLETED means all of them did. *)
THEOREM OnlyPreviewedRowsArrive == MCSpec => []PreviewIsKept
  <1>1. PreviewInv => PreviewIsKept
    BY DEF PreviewInv, PreviewIsKept, Shown, Came, Arrived
  <1> QED
    BY <1>1, PreviewInit, PreviewStep, MCKeepsParts, PTL DEF MCSpec
-----------------------------------------------------------------------------
(* One thing at a time: whoever is about to insert an asset has just found room
   for it under the ceiling.                                               *)
CeilingInv ==
    scenario = "serial" =>
       /\ OneBusy
       /\ pending # {} => Busy = {} /\ BelowCeiling
       /\ \A x, y \in pending : x = y
       /\ \A r \in Requests : session[r].phase = "inserting" => BelowCeiling

(* The only busy session goes on or ends; nothing is pending. *)
LEMMA CeilingMoves ==
    ASSUME Parts, CeilingInv, scenario = "serial", scenario' = scenario, NEW r \in Requests,
           NEW s, session' = [session EXCEPT ![r] = s],
           \A q \in Requests \ {r} : session[q].phase = "idle",
           pending = {}, UNCHANGED pending,
           s.phase = "inserting" => BelowCeiling /\ UNCHANGED asset
    PROVE  CeilingInv'
  <1>1. \A q \in Requests : session'[q] = IF q = r THEN s ELSE session[q]
    BY DEF Parts, AreFunctions
  <1>2. \A q \in Requests : session'[q].phase = "inserting" => BelowCeiling'
    BY <1>1 DEF BelowCeiling
  <1>3. OneBusy'
    BY <1>1 DEF OneBusy
  <1> QED
    BY <1>2, <1>3 DEF CeilingInv

(* A request steps: it is the only one, and inserts at most after its check. *)
LEMMA CeilingSteps ==
    ASSUME Parts, CeilingInv, scenario = "serial", scenario' = scenario, NEW r \in Requests,
           Step(r)
    PROVE  CeilingInv'
  <1>0. \A j, g, v, n, c, f, ph : Session(ph, j, g, v, n, c, f).phase = ph
    BY DEF Session
  <1>1. session[r].phase # "idle"
    BY DEF Step, WriteConfigure, LoadRows, PassRow, CheckCeiling, InsertAircraft, InsertAsset,
           RecordFlight, RecordStray, RowRaises, Finish, Crash, At
  <1>2. /\ \A q \in Requests \ {r} : session[q].phase = "idle"
        /\ pending = {}
    BY <1>1 DEF CeilingInv, OneBusy, Busy
  <1>3. UNCHANGED pending
    BY DEF Step, WriteConfigure, LoadRows, PassRow, CheckCeiling, InsertAircraft, InsertAsset,
           RecordFlight, RecordStray, RowRaises, Finish, Crash, FailRow, ImportRow
  <1>4. ASSUME NEW s, session' = [session EXCEPT ![r] = s], s.phase # "inserting"
        PROVE  CeilingInv'
    BY <1>2, <1>3, <1>4, CeilingMoves
  <1>5. Idle.phase # "inserting"
    BY <1>0 DEF Idle
  <1>6. CASE WriteConfigure(r) \/ Finish(r) \/ Crash(r)
    BY <1>4, <1>5, <1>6 DEF WriteConfigure, Finish, Crash
  <1>7. CASE LoadRows(r)
    <2> DEFINE t == Session("rows", session[r].job, session[r].strategy,
                            job[session[r].job].verdicts, 1, 0, 0)
    <2>1. session' = [session EXCEPT ![r] = t]
      BY <1>7 DEF LoadRows
    <2>2. t.phase # "inserting"
      BY <1>0
    <2> HIDE DEF t
    <2> QED
      BY <1>4, <2>1, <2>2
  <1>8. ASSUME NEW made, NEW lost, Advance(r, made, lost) PROVE CeilingInv'
    <2> DEFINE s == session[r]
               t == Session("rows", s.job, s.strategy, s.verdicts, s.next + 1,
                            s.created + made, s.failed + lost)
    <2>1. session' = [session EXCEPT ![r] = t]
      BY <1>8 DEF Advance, Parts, AreFunctions
    <2>2. t.phase # "inserting"
      BY <1>0
    <2> HIDE DEF t
    <2> QED
      BY <1>4, <2>1, <2>2
  <1>9. CASE FailRow(r) \/ PassRow(r) \/ ImportRow(r)
    BY <1>8, <1>9 DEF FailRow, PassRow, ImportRow
  <1>10. CASE CheckCeiling(r)
    <2>1. CASE BelowCeiling /\ Remain(r, "inserting") /\ UNCHANGED asset
      BY <1>0, <1>2, <1>3, <2>1, CeilingMoves DEF Remain
    <2> QED
      BY <1>9, <1>10, <2>1 DEF CheckCeiling
  <1>11. CASE InsertAsset(r)
    <2>1. CASE Remain(r, "flying")
      <3> DEFINE s == session[r]
                 t == Session("flying", s.job, s.strategy, s.verdicts, s.next,
                              s.created, s.failed)
      <3>1. session' = [session EXCEPT ![r] = t]
        BY <2>1 DEF Remain, Parts, AreFunctions
      <3>2. t.phase # "inserting"
        BY <1>0
      <3> HIDE DEF t
      <3> QED
        BY <1>4, <3>1, <3>2
    <2> QED
      BY <1>9, <1>11, <2>1 DEF InsertAsset
  <1>12. CASE InsertAircraft(r) \/ RecordFlight(r) \/ RecordStray(r) \/ RowRaises(r)
    BY <1>9, <1>12 DEF InsertAircraft, RecordFlight, RecordStray, RowRaises
  <1> QED
    BY <1>6, <1>7, <1>9, <1>10, <1>11, <1>12 DEF Step

LEMMA CeilingStart ==
    ASSUME Parts, CeilingInv, scenario = "serial", scenario' = scenario, Quiet, Start
    PROVE  CeilingInv'
  <1>1. pending = {} /\ \A r \in Requests : session[r].phase = "idle"
    BY DEF Quiet, Busy
  <1>2. ASSUME NEW r \in Requests, NEW s, session' = [session EXCEPT ![r] = s],
               s.phase # "inserting", UNCHANGED pending
        PROVE  CeilingInv'
    BY <1>1, <1>2, CeilingMoves
  <1>3. ASSUME NEW j \in Jobs, NEW g \in Strategies, CreateJob(j, g) PROVE CeilingInv'
    BY <1>1, <1>3 DEF CreateJob, CeilingInv, OneBusy
  <1>4. ASSUME NEW j \in Jobs, NEW g \in Strategies, NEW r \in Requests,
               StartConfigure(r, j, g)
        PROVE  CeilingInv'
    <2> DEFINE s == Session("configuring", j, g, Validate(j, g, job[j].defects), 1, 0, 0)
    <2>1. session' = [session EXCEPT ![r] = s] /\ UNCHANGED pending
      BY <1>4 DEF StartConfigure
    <2>2. s.phase # "inserting"
      BY DEF Session
    <2> HIDE DEF s
    <2> QED
      BY <1>2, <2>1, <2>2
  <1>5. ASSUME NEW j \in Jobs, NEW r \in Requests, Claim(r, j) PROVE CeilingInv'
    <2> DEFINE s == Session("claimed", j, "ASK", <<>>, 1, 0, 0)
    <2>1. session' = [session EXCEPT ![r] = s] /\ UNCHANGED pending
      BY <1>5 DEF Claim
    <2>2. s.phase # "inserting"
      BY DEF Session
    <2> HIDE DEF s
    <2> QED
      BY <1>2, <2>1, <2>2
  <1> QED
    BY <1>3, <1>4, <1>5 DEF Start

LEMMA CeilingManual ==
    ASSUME Parts, CeilingInv, scenario = "serial", scenario' = scenario, NEW g \in Regs,
           (Quiet /\ Manual(g)) \/ ManualStep(g)
    PROVE  CeilingInv'
  <1>0. UNCHANGED session
    BY DEF Manual, ManualStep, CheckCreation, InsertCreation, SoftDelete, Restore
  <1>1. CASE Quiet /\ Manual(g)
    <2>1. pending = {} /\ \A r \in Requests : session[r].phase = "idle"
      BY <1>1 DEF Quiet, Busy
    <2>2. ASSUME NEW kind \in Kinds, CheckCreation(g, kind) PROVE CeilingInv'
      <3>1. pending' = {<<g, kind>>} /\ BelowCeiling /\ UNCHANGED asset
        BY <2>1, <2>2 DEF CheckCreation
      <3>2. BelowCeiling'
        BY <3>1 DEF BelowCeiling
      <3>3. \A q \in Requests : session'[q].phase = "idle"
        BY <1>0, <2>1
      <3> QED
        BY <3>1, <3>2, <3>3 DEF CeilingInv, OneBusy, Busy
    <2>3. CASE SoftDelete(g) \/ Restore(g)
      BY <1>0, <2>1, <2>3 DEF SoftDelete, Restore, CeilingInv, OneBusy, Busy
    <2> QED
      BY <1>1, <2>2, <2>3 DEF Manual
  <1>2. ASSUME NEW kind \in Kinds, InsertCreation(g, kind) PROVE CeilingInv'
    <2>1. <<g, kind>> \in pending /\ pending' = pending \ {<<g, kind>>}
      BY <1>2 DEF InsertCreation
    <2>2. pending' = {} /\ Busy = {}
      BY <2>1 DEF CeilingInv
    <2> QED
      BY <1>0, <2>2 DEF CeilingInv, OneBusy, Busy
  <1> QED
    BY <1>1, <1>2 DEF ManualStep

LEMMA CeilingStep ==
    ASSUME Parts, CeilingInv, [MCNext]_<<vars, scenario>>
    PROVE  CeilingInv'
  <1>1. CASE UNCHANGED <<vars, scenario>>
    <2>1. BelowCeiling' = BelowCeiling /\ Busy' = Busy /\ OneBusy' = OneBusy
      BY <1>1 DEF vars, OneBusy, Busy, BelowCeiling
    <2>2. UNCHANGED <<session, pending, scenario>>
      BY <1>1 DEF vars
    <2> QED
      BY <2>1, <2>2 DEF CeilingInv
  <1>2. CASE MCNext /\ scenario # "serial"
    <2>1. scenario' # "serial"
      BY <1>2, MCNextIsNext
    <2> QED
      BY <2>1 DEF CeilingInv
  <1>3. CASE MCNext /\ scenario = "serial"
    BY <1>3, CeilingStart, CeilingSteps, CeilingManual DEF MCNext, SerialNext
  <1> QED
    BY <1>1, <1>2, <1>3

LEMMA CeilingInit == MCInit => CeilingInv
  <1> SUFFICES ASSUME MCInit PROVE CeilingInv
    OBVIOUS
  <1>1. pending = {} /\ \A r \in Requests : session[r].phase = "idle"
    BY DEF MCInit, Init, Idle, Session
  <1> QED
    BY <1>1 DEF CeilingInv, OneBusy

Active == {g \in Regs : asset[g] = "active"}

(* One asset more, where there was room for one. *)
LEMMA OneMoreActive ==
    ASSUME AssetsFine, BelowCeiling, NEW g \in Regs, asset[g] = "absent",
           asset' = [asset EXCEPT ![g] = "active"]
    PROVE  Cardinality(Active') <= MaxAssets
  <1>1. Active' = Active \cup {g} /\ g \notin Active
    BY DEF Active, AssetsFine
  <1>2. IsFiniteSet(Active)
    <2>1. Active \subseteq Regs
      BY DEF Active
    <2> QED
      BY <2>1, ImportsAssumption, FS_Subset DEF ImportsAssumption
  <1>3. Cardinality(Active') = Cardinality(Active) + 1 /\ Cardinality(Active) \in Nat
    BY <1>1, <1>2, FS_AddElement, FS_CardinalityType
  <1>4. Cardinality(Active) < MaxAssets /\ MaxAssets \in Nat
    BY ImportsAssumption DEF BelowCeiling, Active, ImportsAssumption
  <1> QED
    BY <1>3, <1>4

LEMMA CeilingHolds ==
    ASSUME Parts, CeilingInv, MCNext, scenario = "serial", NEW g \in Regs,
           asset[g] = "absent", asset'[g] = "active"
    PROVE  Cardinality(Active') <= MaxAssets
  <1>0. AssetsFine
    BY DEF Parts
  <1>1. ASSUME NEW h \in Regs, asset[h] = "absent", asset' = [asset EXCEPT ![h] = "active"],
               BelowCeiling
        PROVE  Cardinality(Active') <= MaxAssets
    BY <1>0, <1>1, OneMoreActive
  <1>2. CASE UNCHANGED asset
    BY <1>2
  <1>3. ASSUME NEW r \in Requests, InsertAircraft(r) \/ InsertAsset(r)
        PROVE  Cardinality(Active') <= MaxAssets
    <2>1. At(r, "inserting") /\ session[r].phase = "inserting"
      BY <1>3 DEF InsertAircraft, InsertAsset, At
    <2>2. BelowCeiling
      BY <2>1 DEF CeilingInv
    <2>3. Row(r).reg \in Regs
      BY <2>1, RowReg DEF Trying
    <2>4. UNCHANGED asset \/ (/\ asset[Row(r).reg] = "absent"
                              /\ asset' = [asset EXCEPT ![Row(r).reg] = "active"])
      BY <1>3 DEF InsertAircraft, InsertAsset, FailRow
    <2> QED
      BY <1>1, <1>2, <2>2, <2>3, <2>4
  <1>4. ASSUME NEW r \in Requests, Step(r) PROVE Cardinality(Active') <= MaxAssets
    <2>1. InsertAircraft(r) \/ InsertAsset(r) \/ UNCHANGED asset
      BY <1>4 DEF Step, WriteConfigure, LoadRows, PassRow, CheckCeiling, RecordFlight,
                  RecordStray, RowRaises, Finish, Crash, FailRow
    <2> QED
      BY <1>2, <1>3, <2>1
  <1>5. CASE Start
    BY <1>2, <1>5 DEF Start, CreateJob, StartConfigure, Claim
  <1>6. ASSUME NEW h \in Regs, NEW kind \in Kinds, InsertCreation(h, kind)
        PROVE  Cardinality(Active') <= MaxAssets
    <2>1. BelowCeiling
      BY <1>6 DEF InsertCreation, CeilingInv
    <2> QED
      BY <1>1, <1>2, <1>6, <2>1 DEF InsertCreation
  <1>7. ASSUME NEW h \in Regs, Manual(h) PROVE Cardinality(Active') <= MaxAssets
    <2>1. CASE SoftDelete(h) \/ Restore(h)
      BY <1>0, <2>1 DEF SoftDelete, Restore, AssetsFine
    <2>2. CASE \E kind \in Kinds : CheckCreation(h, kind)
      BY <1>2, <2>2 DEF CheckCreation
    <2> QED
      BY <1>7, <2>1, <2>2 DEF Manual
  <1> QED
    BY <1>4, <1>5, <1>6, <1>7 DEF MCNext, SerialNext, ManualStep

(* For every ceiling and number of registrations: one thing at a time, neither an
   import nor a creation by hand takes the organization above its ceiling.  *)
THEOREM CeilingKeptOneAtATime == MCSpec => CeilingKeptSerially
  <1>1. Parts /\ CeilingInv /\ [MCNext]_<<vars, scenario>>
          => [scenario = "serial" =>
                \A g \in Regs : asset[g] = "absent" /\ asset'[g] = "active" =>
                   Cardinality({h \in Regs : asset'[h] = "active"}) <= MaxAssets]_vars
    BY CeilingHolds DEF Active, vars
  <1> QED
    BY <1>1, CeilingInit, CeilingStep, MCKeepsParts, PTL DEF MCSpec, CeilingKeptSerially
=============================================================================
