------------------------ MODULE WorkerThreadsProofs ------------------------
(***************************************************************************)
(* Proofs about WorkerThreads: its invariant, for every number of threads, *)
(* cores and kinds of failing calls, and the promise of WorkerCall.        *)
(***************************************************************************)
EXTENDS WorkerThreads, FiniteSetTheorems, TLAPS

MainType ==
    /\ mpc \in MainPcs /\ resources \in Resources
    /\ created \in 0 .. Threads /\ joinedThreads \in 0 .. Threads /\ scan \in 0 .. Threads
    /\ joined \subseteq Index /\ lost \subseteq Index
    /\ cancelRequested \in BOOLEAN /\ status \in {0, 1}
    /\ freed \in BOOLEAN /\ late \in BOOLEAN /\ masterGone \in BOOLEAN

ThreadType ==
    /\ cancel \subseteq Index
    /\ th \in [Index -> Live \cup Ends \cup {"none"}]
    /\ hart \in [Index -> 0 .. CpuSetSize]
    /\ heap \in Index \cup {NoThread}

ResultType == result \in [Index -> Answers \cup {NULL}]
PackedType == packed \in {Unpacked} \cup [Index -> Answers]

(* The type invariant in the parts that the lemmas below treat. *)
LEMMA TypeParts == ThreadsTypeOK <=> MainType /\ ThreadType /\ ResultType /\ PackedType
  BY DEF ThreadsTypeOK, MainType, ThreadType, ResultType, PackedType

(* cores and firstCore are numbers of the int that holds them. *)
LEMMA ResourcesAreNumbers ==
    resources \in Resources => resources.cores \in Nat \ {0} /\ resources.firstCore \in Nat
<1>1. resources \in Resources => resources \in [cores : 1 .. IntMax, firstCore : 0 .. IntMax]
  BY ThreadsAssumption
<1>2. \A r \in [cores : 1 .. IntMax, firstCore : 0 .. IntMax] :
         r.cores \in 1 .. IntMax /\ r.firstCore \in 0 .. IntMax
  OBVIOUS
<1>3. 1 .. IntMax \subseteq Nat \ {0} /\ 0 .. IntMax \subseteq Nat
  BY ThreadsAssumption
<1> QED
  BY <1>1, <1>2, <1>3

(* Counting a set of threads: one more when one is added, never more than  *)
(* there are, and only all of them are as many.                            *)
LEMMA Counting ==
    ASSUME NEW n \in Nat, NEW S, S \subseteq 0 .. n - 1
    PROVE  /\ Cardinality(S) \in 0 .. n
           /\ Cardinality(S) = n => S = 0 .. n - 1
           /\ \A k \in 0 .. n - 1 :
                 k \notin S => /\ Cardinality(S \cup {k}) = Cardinality(S) + 1
                               /\ Cardinality(S \cup {k}) <= n
<1>1. IsFiniteSet(0 .. n - 1) /\ Cardinality(0 .. n - 1) = n
  BY FS_Interval
<1>2. IsFiniteSet(S) /\ Cardinality(S) \in Nat /\ Cardinality(S) <= n
  BY <1>1, FS_Subset, FS_CardinalityType
<1>3. Cardinality(S) = n => S = 0 .. n - 1
  BY <1>1, FS_Subset
<1>4. ASSUME NEW k \in 0 .. n - 1, k \notin S
      PROVE  Cardinality(S \cup {k}) = Cardinality(S) + 1 /\ Cardinality(S \cup {k}) <= n
  <2>1. Cardinality(S \cup {k}) = Cardinality(S) + 1
    BY <1>2, <1>4, FS_AddElement
  <2>2. S \cup {k} \subseteq 0 .. n - 1
    OBVIOUS
  <2>3. Cardinality(S \cup {k}) <= n
    BY <1>1, <2>2, FS_Subset
  <2> QED
    BY <2>1, <2>3
<1> QED
  BY <1>2, <1>3, <1>4

(* pthread_cancel is called for threads of the run. *)
LEMMA UnjoinedAreThreads == MainType => UnjoinedThreads \subseteq Index
  BY ThreadsAssumption DEF MainType, UnjoinedThreads, Index

(* The variables of the main thread keep their types. *)
LEMMA MainTypeKept == ThreadsInv /\ [Next]_vars => MainType'
<1> SUFFICES ASSUME ThreadsInv, [Next]_vars PROVE MainType'
  OBVIOUS
<1>0. MainType /\ ThreadType /\ ResultType /\ PackedType
  BY TypeParts DEF ThreadsInv
<1>1. CASE RunRefused
  BY <1>0, <1>1
  DEF MainType, MainPcs, RunRefused, joins, memory, given
<1>2. CASE RunBegins
  BY <1>0, <1>2
  DEF MainType, MainPcs, RunBegins, joins, flags, memory, given
<1>3. CASE CreateThread
  BY ThreadsAssumption, <1>0, <1>3
  DEF MainType, MainPcs, CreateThread, joins, flags, memory, given
<1>4. CASE CreateTooLate
  BY <1>0, <1>4
  DEF MainType, MainPcs, CreateTooLate, CancelUnjoinedThreads, joins, memory,
      given
<1>5. CASE CreateInTime
  BY <1>0, <1>5
  DEF MainType, MainPcs, CreateInTime, joins, flags, memory, given
<1>6. CASE CreateAborts
  BY <1>0, <1>6
  DEF MainType, MainPcs, CreateAborts, joins, memory, given
<1>7. CASE CreateEnds
  BY <1>0, <1>7
  DEF MainType, MainPcs, CreateEnds, joins, flags, memory, given
<1>8. CASE JoinThread
  <2>1. scan \in 0 .. created - 1 /\ scan \notin joined /\ joined \subseteq 0 .. created - 1
    BY <1>0, <1>8 DEF ThreadsInv, CreatedInv, MainType, Scanning, JoinThread,
        Joinable
  <2>2. created \in Nat /\ joinedThreads = Cardinality(joined)
    BY <1>0 DEF ThreadsInv, CreatedInv, MainType
  <2>3. /\ Cardinality(joined \cup {scan}) = joinedThreads + 1
        /\ Cardinality(joined \cup {scan}) <= created
    BY <2>1, <2>2, Counting
  <2>4. /\ joined' = joined \cup {scan} /\ joinedThreads' = joinedThreads + 1
        /\ scan' = scan + 1 /\ UNCHANGED <<created, th>>
    BY <1>8 DEF JoinThread, Joinable, threadVars
  <2>5. joined' \subseteq Index /\ joinedThreads' \in 0 .. Threads /\ scan' \in 0 .. Threads
    BY ThreadsAssumption, <1>0, <2>1, <2>2, <2>3, <2>4 DEF MainType, Index
  <2>6. status' \in {0, 1}
    BY <1>0, <1>8 DEF MainType, JoinThread
  <2>7. UNCHANGED <<mpc, resources, created, cancelRequested, lost, freed, late,
      masterGone>>
    BY <1>8 DEF JoinThread, memory, given
  <2> QED
    BY <1>0, <2>5, <2>6, <2>7 DEF MainType
<1>9. CASE SkipThread
  BY ThreadsAssumption, <1>0, <1>9
  DEF MainType, SkipThread, Scanning, flags, memory, given
<1>10. CASE JoinFails
  <2>1. scan \in 0 .. created - 1 /\ scan \notin joined /\ joined \subseteq 0 .. created - 1
    BY <1>0, <1>10 DEF ThreadsInv, CreatedInv, MainType, Scanning, JoinFails
  <2>2. created \in Nat /\ joinedThreads = Cardinality(joined)
    BY <1>0 DEF ThreadsInv, CreatedInv, MainType
  <2>3. /\ Cardinality(joined \cup {scan}) = joinedThreads + 1
        /\ Cardinality(joined \cup {scan}) <= created
    BY <2>1, <2>2, Counting
  <2>4. /\ joined' = joined \cup {scan} /\ joinedThreads' = joinedThreads + 1
        /\ scan' = scan + 1 /\ UNCHANGED <<created, th>>
    BY <1>10 DEF JoinFails, threadVars
  <2>5. joined' \subseteq Index /\ joinedThreads' \in 0 .. Threads /\ scan' \in 0 .. Threads
    BY ThreadsAssumption, <1>0, <2>1, <2>2, <2>3, <2>4 DEF MainType, Index
  <2>6. status' \in {0, 1}
    BY <1>0, <1>10 DEF MainType, JoinFails
  <2>7. UNCHANGED <<mpc, resources, created, cancelRequested, freed, late,
      masterGone>>
    BY <1>10 DEF JoinFails, memory, given
  <2>8. lost' \subseteq Index
    BY ThreadsAssumption, <1>0, <1>10, <2>1 DEF MainType, JoinFails, Index
  <2> QED
    BY <1>0, <2>5, <2>6, <2>7, <2>8 DEF MainType
<1>11. CASE PassIsLate
  BY ThreadsAssumption, <1>0, <1>11
  DEF MainType, PassIsLate, PassEnds, CancelUnjoinedThreads, memory, given
<1>12. CASE PassInTime
  BY ThreadsAssumption, <1>0, <1>12
  DEF MainType, PassInTime, PassEnds, memory, given
<1>13. CASE JoinEnds
  BY <1>0, <1>13
  DEF MainType, MainPcs, JoinEnds, joins, memory, given
<1>14. CASE PackThreadResults
  BY <1>0, <1>14
  DEF MainType, MainPcs, PackThreadResults, joins, flags, given
<1>15. CASE PackFails
  BY <1>0, <1>15
  DEF MainType, MainPcs, PackFails, joins, memory, given
<1>16. CASE DestroyThreadResults
  BY <1>0, <1>16
  DEF MainType, MainPcs, DestroyThreadResults, joins, flags, given
<1>17. CASE TimeIsOver
  BY <1>0, <1>17
  DEF MainType, TimeIsOver, mainVars, joins, flags, memory
<1>18. CASE MasterLeaves
  BY <1>0, <1>18
  DEF MainType, MasterLeaves, mainVars, joins, flags, memory
<1>19. CASE (\E t \in Index : SetUp(t) \/ SetUpFails(t) \/ MethodAllocates(t) \/
        MethodReturns(t) \/ ThreadExits(t) \/ ThreadCancelled(t)) \/
        UNCHANGED vars
  <2>1. UNCHANGED <<mpc, resources, created, joined, joinedThreads, scan, lost,
      cancelRequested, status, freed, late, masterGone>>
    BY <1>19 DEF SetUp, SetUpFails, MethodAllocates, MethodReturns, ThreadExits,
        ThreadCancelled, flags, given, joins, mainVars, memory, threadVars,
        vars
  <2> QED
    BY <2>1, <1>0 DEF ThreadsInv, MainType
<1> QED
  BY <1>1, <1>2, <1>3, <1>4, <1>5, <1>6, <1>7, <1>8, <1>9, <1>10, <1>11, <1>12,
      <1>13, <1>14, <1>15, <1>16, <1>17, <1>18, <1>19 DEF Next, MainStep,
      MethodRuns, ThreadRuns

(* The variables of the threads keep their types. *)
LEMMA ThreadTypeKept == ThreadsInv /\ [Next]_vars => ThreadType'
<1> SUFFICES ASSUME ThreadsInv, [Next]_vars PROVE ThreadType'
  OBVIOUS
<1>0. MainType /\ ThreadType /\ ResultType /\ PackedType
  BY TypeParts DEF ThreadsInv
<1>1. CASE CreateThread
  <2>1. Hart(created) \in 0 .. CpuSetSize
    <3>1. resources.cores \in Nat \ {0} /\ resources.firstCore \in Nat /\ created \in Nat
      BY <1>0, ResourcesAreNumbers, ThreadsAssumption DEF MainType
    <3>2. created % resources.cores \in Nat
      BY <3>1
    <3>3. Hart(created) \in Nat
      BY <3>1, <3>2 DEF Hart
    <3> QED
      BY <1>1, <3>3, ThreadsAssumption DEF CreateThread
  <2>2. /\ th' = [th EXCEPT ![created] = "starting"]
        /\ hart' = [hart EXCEPT ![created] = Hart(created)]
        /\ UNCHANGED <<cancel, heap>>
    BY <1>1 DEF CreateThread
  <2> QED
    BY <1>0, <2>1, <2>2 DEF ThreadType, Live
<1>2. CASE CreateTooLate
  <2>1. cancel' = cancel \cup UnjoinedThreads /\ UNCHANGED <<th, hart, heap>>
    BY <1>2 DEF CreateTooLate, CancelUnjoinedThreads
  <2> QED
    BY <1>0, <2>1, UnjoinedAreThreads DEF ThreadType
<1>3. CASE PassIsLate
  <2>1. cancel' = cancel \cup UnjoinedThreads /\ UNCHANGED <<th, hart, heap>>
    BY <1>3 DEF PassIsLate, CancelUnjoinedThreads
  <2> QED
    BY <1>0, <2>1, UnjoinedAreThreads DEF ThreadType
<1>4. ASSUME NEW t \in Index, SetUp(t) PROVE ThreadType'
  BY <1>0, <1>4
  DEF ThreadType, Live, Ends, SetUp, ThreadGoes
<1>5. ASSUME NEW t \in Index, SetUpFails(t) PROVE ThreadType'
  BY <1>0, <1>5
  DEF ThreadType, Ends, SetUpFails, ThreadGoes
<1>6. ASSUME NEW t \in Index, MethodAllocates(t) PROVE ThreadType'
  BY <1>0, <1>6
  DEF ThreadType, Live, MethodAllocates, ThreadGoes
<1>7. ASSUME NEW t \in Index, MethodReturns(t) PROVE ThreadType'
  BY <1>0, <1>7
  DEF ThreadType, Live, MethodReturns, ThreadGoes
<1>8. ASSUME NEW t \in Index, ThreadExits(t) PROVE ThreadType'
  BY <1>0, <1>8
  DEF ThreadType, Ends, ThreadExits, ThreadGoes
<1>9. ASSUME NEW t \in Index, ThreadCancelled(t) PROVE ThreadType'
  BY <1>0, <1>9
  DEF ThreadType, Ends, ThreadCancelled, ThreadGoes
<1>10. CASE RunRefused \/ RunBegins \/ CreateInTime \/ CreateAborts \/ CreateEnds \/
        JoinThread \/ SkipThread \/ JoinFails \/ PassInTime
  <2>1. UNCHANGED <<th, cancel, hart, heap>>
    BY <1>10 DEF RunRefused, RunBegins, CreateInTime, CreateAborts, CreateEnds,
        JoinThread, SkipThread, JoinFails, PassInTime, flags, given, joins,
        memory, threadVars
  <2> QED
    BY <2>1, <1>0 DEF ThreadsInv, ThreadType
<1>11. CASE JoinEnds \/ PackThreadResults \/ PackFails \/ DestroyThreadResults \/
        TimeIsOver \/ MasterLeaves \/ UNCHANGED vars
  <2>1. UNCHANGED <<th, cancel, hart, heap>>
    BY <1>11 DEF JoinEnds, PackThreadResults, PackFails, DestroyThreadResults,
        TimeIsOver, MasterLeaves, flags, given, joins, mainVars, memory,
        threadVars, vars
  <2> QED
    BY <2>1, <1>0 DEF ThreadsInv, ThreadType
<1> QED
  BY <1>1, <1>2, <1>3, <1>4, <1>5, <1>6, <1>7, <1>8, <1>9, <1>10,
      <1>11 DEF Next, MainStep, MethodRuns, ThreadRuns

(* args[i].result is an answer or NULL. *)
LEMMA ResultTypeKept == ThreadsInv /\ [Next]_vars => ResultType'
<1> SUFFICES ASSUME ThreadsInv, [Next]_vars PROVE ResultType'
  OBVIOUS
<1>0. MainType /\ ThreadType /\ ResultType /\ PackedType
  BY TypeParts DEF ThreadsInv
<1>1. CASE DestroyThreadResults
  BY <1>1
  DEF ResultType, DestroyThreadResults
<1>2. ASSUME NEW t \in Index, MethodReturns(t) PROVE ResultType'
  BY <1>0, <1>2
  DEF ResultType, Answers, Answer, MethodReturns
<1>3. CASE RunRefused \/ RunBegins \/ CreateThread \/ CreateTooLate \/
        CreateInTime \/ CreateAborts \/ CreateEnds \/ JoinThread \/
        SkipThread
  <2>1. UNCHANGED result
    BY <1>3 DEF RunRefused, RunBegins, CreateThread, CreateTooLate,
        CreateInTime, CreateAborts, CreateEnds, JoinThread, SkipThread, flags,
        given, joins, memory, threadVars
  <2> QED
    BY <2>1, <1>0 DEF ThreadsInv, ResultType
<1>4. CASE JoinFails \/ PassIsLate \/ PassInTime \/ JoinEnds \/
        PackThreadResults \/ PackFails \/ TimeIsOver \/ MasterLeaves \/
        (\E t \in Index : SetUp(t) \/ SetUpFails(t) \/ MethodAllocates(t) \/
        ThreadExits(t) \/ ThreadCancelled(t)) \/ UNCHANGED vars
  <2>1. UNCHANGED result
    BY <1>4 DEF JoinFails, PassIsLate, PassInTime, JoinEnds, PackThreadResults,
        PackFails, TimeIsOver, MasterLeaves, SetUp, SetUpFails, MethodAllocates,
        ThreadExits, ThreadCancelled, flags, given, joins, mainVars, memory,
        threadVars, vars
  <2> QED
    BY <2>1, <1>0 DEF ThreadsInv, ResultType
<1> QED
  BY <1>1, <1>2, <1>3, <1>4 DEF Next, MainStep, MethodRuns, ThreadRuns

(* worker->result is empty or full. *)
LEMMA PackedTypeKept == ThreadsInv /\ [Next]_vars => PackedType'
<1> SUFFICES ASSUME ThreadsInv, [Next]_vars PROVE PackedType'
  OBVIOUS
<1>0. MainType /\ ThreadType /\ ResultType /\ PackedType
  BY TypeParts DEF ThreadsInv
<1>1. CASE PackThreadResults
  BY <1>0, <1>1
  DEF PackedType, ResultType, ValidResult, PackThreadResults
<1>2. CASE RunRefused \/ RunBegins \/ CreateThread \/ CreateTooLate \/
        CreateInTime \/ CreateAborts \/ CreateEnds \/ JoinThread \/
        SkipThread
  <2>1. UNCHANGED packed
    BY <1>2 DEF RunRefused, RunBegins, CreateThread, CreateTooLate,
        CreateInTime, CreateAborts, CreateEnds, JoinThread, SkipThread, flags,
        given, joins, memory, threadVars
  <2> QED
    BY <2>1, <1>0 DEF ThreadsInv, PackedType
<1>3. CASE JoinFails \/ PassIsLate \/ PassInTime \/ JoinEnds \/ PackFails \/
        DestroyThreadResults \/ TimeIsOver \/ MasterLeaves \/
        (\E t \in Index : SetUp(t) \/ SetUpFails(t) \/ MethodAllocates(t) \/
        MethodReturns(t) \/ ThreadExits(t) \/ ThreadCancelled(t)) \/
        UNCHANGED vars
  <2>1. UNCHANGED packed
    BY <1>3 DEF JoinFails, PassIsLate, PassInTime, JoinEnds, PackFails,
        DestroyThreadResults, TimeIsOver, MasterLeaves, SetUp, SetUpFails,
        MethodAllocates, MethodReturns, ThreadExits, ThreadCancelled, flags,
        given, joins, mainVars, memory, threadVars, vars
  <2> QED
    BY <2>1, <1>0 DEF ThreadsInv, PackedType
<1> QED
  BY <1>1, <1>2, <1>3 DEF Next, MainStep, MethodRuns, ThreadRuns

(* The threads below createdThreads exist, and joinedThreads counts the
   joined ones among them. *)
LEMMA CreatedInvKept == ThreadsInv /\ [Next]_vars => CreatedInv'
<1> SUFFICES ASSUME ThreadsInv, [Next]_vars PROVE CreatedInv'
  OBVIOUS
<1>0. MainType /\ ThreadType /\ ResultType /\ PackedType
  BY TypeParts DEF ThreadsInv
<1>1. CASE CreateThread
  BY <1>0, <1>1
  DEF ThreadsInv, CreatedInv, MainType, ThreadType, CreateThread, joins
<1>2. CASE JoinThread
  <2>1. scan \in 0 .. created - 1 /\ scan \notin joined /\ joined \subseteq 0 .. created - 1
    BY <1>0, <1>2 DEF ThreadsInv, CreatedInv, MainType, Scanning, JoinThread,
        Joinable
  <2>2. created \in Nat /\ joinedThreads = Cardinality(joined)
    BY <1>0 DEF ThreadsInv, CreatedInv, MainType
  <2>3. /\ Cardinality(joined \cup {scan}) = joinedThreads + 1
        /\ Cardinality(joined \cup {scan}) <= created
    BY <2>1, <2>2, Counting
  <2>4. /\ joined' = joined \cup {scan} /\ joinedThreads' = joinedThreads + 1
        /\ scan' = scan + 1 /\ UNCHANGED <<created, th>>
    BY <1>2 DEF JoinThread, Joinable, threadVars
  <2>5. joined' \subseteq 0 .. created - 1 /\ scan' <= created
    BY <2>1, <2>2, <2>4
  <2>6. joinedThreads' = Cardinality(joined')
    BY <2>3, <2>4
  <2> QED
    BY <2>4, <2>5, <2>6 DEF ThreadsInv, CreatedInv
<1>3. CASE SkipThread
  BY <1>0, <1>3
  DEF ThreadsInv, CreatedInv, MainType, SkipThread, Scanning, threadVars
<1>4. CASE JoinFails
  <2>1. scan \in 0 .. created - 1 /\ scan \notin joined /\ joined \subseteq 0 .. created - 1
    BY <1>0, <1>4 DEF ThreadsInv, CreatedInv, MainType, Scanning, JoinFails
  <2>2. created \in Nat /\ joinedThreads = Cardinality(joined)
    BY <1>0 DEF ThreadsInv, CreatedInv, MainType
  <2>3. /\ Cardinality(joined \cup {scan}) = joinedThreads + 1
        /\ Cardinality(joined \cup {scan}) <= created
    BY <2>1, <2>2, Counting
  <2>4. /\ joined' = joined \cup {scan} /\ joinedThreads' = joinedThreads + 1
        /\ scan' = scan + 1 /\ UNCHANGED <<created, th>>
    BY <1>4 DEF JoinFails, threadVars
  <2>5. joined' \subseteq 0 .. created - 1 /\ scan' <= created
    BY <2>1, <2>2, <2>4
  <2>6. joinedThreads' = Cardinality(joined')
    BY <2>3, <2>4
  <2> QED
    BY <2>4, <2>5, <2>6 DEF ThreadsInv, CreatedInv
<1>5. CASE PassIsLate
  <2>1. scan' = 0 /\ UNCHANGED <<created, joined, joinedThreads, th>>
    BY <1>5 DEF PassIsLate, PassEnds, threadVars
  <2>2. scan' <= created
    BY <1>0, <2>1 DEF MainType
  <2> QED
    BY <2>1, <2>2 DEF ThreadsInv, CreatedInv
<1>6. CASE PassInTime
  <2>1. scan' = 0 /\ UNCHANGED <<created, joined, joinedThreads, th>>
    BY <1>6 DEF PassInTime, PassEnds, threadVars
  <2>2. scan' <= created
    BY <1>0, <2>1 DEF MainType
  <2> QED
    BY <2>1, <2>2 DEF ThreadsInv, CreatedInv
<1>7. ASSUME NEW t \in Index, SetUp(t) PROVE CreatedInv'
  <2>1. UNCHANGED <<created, joins>> /\ th[t] # "none"
        /\ \E place \in Live \cup Ends : th' = [th EXCEPT ![t] = place]
    BY <1>7 DEF SetUp, ThreadGoes, Live, Ends, mainVars
  <2>2. \A k \in Index : th'[k] = "none" <=> th[k] = "none"
    BY <1>0, <2>1 DEF ThreadType, Live, Ends
  <2> QED
    BY <2>1, <2>2 DEF ThreadsInv, CreatedInv, joins
<1>8. ASSUME NEW t \in Index, SetUpFails(t) PROVE CreatedInv'
  <2>1. UNCHANGED <<created, joins>> /\ th[t] # "none"
        /\ \E place \in Live \cup Ends : th' = [th EXCEPT ![t] = place]
    BY <1>8 DEF SetUpFails, ThreadGoes, Live, Ends, mainVars
  <2>2. \A k \in Index : th'[k] = "none" <=> th[k] = "none"
    BY <1>0, <2>1 DEF ThreadType, Live, Ends
  <2> QED
    BY <2>1, <2>2 DEF ThreadsInv, CreatedInv, joins
<1>9. ASSUME NEW t \in Index, MethodAllocates(t) PROVE CreatedInv'
  <2>1. UNCHANGED <<created, joins>> /\ th[t] # "none"
        /\ \E place \in Live \cup Ends : th' = [th EXCEPT ![t] = place]
    BY <1>9 DEF MethodAllocates, ThreadGoes, Live, Ends, mainVars
  <2>2. \A k \in Index : th'[k] = "none" <=> th[k] = "none"
    BY <1>0, <2>1 DEF ThreadType, Live, Ends
  <2> QED
    BY <2>1, <2>2 DEF ThreadsInv, CreatedInv, joins
<1>10. ASSUME NEW t \in Index, MethodReturns(t) PROVE CreatedInv'
  <2>1. UNCHANGED <<created, joins>> /\ th[t] # "none"
        /\ \E place \in Live \cup Ends : th' = [th EXCEPT ![t] = place]
    BY <1>10 DEF MethodReturns, ThreadGoes, Live, Ends, mainVars
  <2>2. \A k \in Index : th'[k] = "none" <=> th[k] = "none"
    BY <1>0, <2>1 DEF ThreadType, Live, Ends
  <2> QED
    BY <2>1, <2>2 DEF ThreadsInv, CreatedInv, joins
<1>11. ASSUME NEW t \in Index, ThreadExits(t) PROVE CreatedInv'
  <2>1. UNCHANGED <<created, joins>> /\ th[t] # "none"
        /\ \E place \in Live \cup Ends : th' = [th EXCEPT ![t] = place]
    BY <1>11 DEF ThreadExits, ThreadGoes, Live, Ends, mainVars
  <2>2. \A k \in Index : th'[k] = "none" <=> th[k] = "none"
    BY <1>0, <2>1 DEF ThreadType, Live, Ends
  <2> QED
    BY <2>1, <2>2 DEF ThreadsInv, CreatedInv, joins
<1>12. ASSUME NEW t \in Index, ThreadCancelled(t) PROVE CreatedInv'
  <2>1. UNCHANGED <<created, joins>> /\ th[t] # "none"
        /\ \E place \in Live \cup Ends : th' = [th EXCEPT ![t] = place]
    BY <1>12 DEF ThreadCancelled, ThreadGoes, Live, Ends, mainVars
  <2>2. \A k \in Index : th'[k] = "none" <=> th[k] = "none"
    BY <1>0, <2>1 DEF ThreadType, Live, Ends
  <2> QED
    BY <2>1, <2>2 DEF ThreadsInv, CreatedInv, joins
<1>13. CASE RunRefused \/ RunBegins \/ CreateTooLate \/ CreateInTime \/
        CreateAborts \/ CreateEnds \/ JoinEnds \/ PackThreadResults \/
        PackFails
  <2>1. UNCHANGED <<th, created, joined, joinedThreads, scan>>
    BY <1>13 DEF RunRefused, RunBegins, CreateTooLate, CreateInTime,
        CreateAborts, CreateEnds, JoinEnds, PackThreadResults, PackFails, flags,
        given, joins, memory, threadVars
  <2> QED
    BY <2>1 DEF ThreadsInv, CreatedInv
<1>14. CASE DestroyThreadResults \/ TimeIsOver \/ MasterLeaves \/ UNCHANGED vars
  <2>1. UNCHANGED <<th, created, joined, joinedThreads, scan>>
    BY <1>14 DEF DestroyThreadResults, TimeIsOver, MasterLeaves, flags, given,
        joins, mainVars, memory, threadVars, vars
  <2> QED
    BY <2>1 DEF ThreadsInv, CreatedInv
<1> QED
  BY <1>1, <1>2, <1>3, <1>4, <1>5, <1>6, <1>7, <1>8, <1>9, <1>10, <1>11, <1>12,
      <1>13, <1>14 DEF Next, MainStep, MethodRuns, ThreadRuns

(* Only threads that pthread_cancel was called for are cancelled, and it is
   called past the limit only. *)
LEMMA CancelInvKept == ThreadsInv /\ [Next]_vars => CancelInv'
<1> SUFFICES ASSUME ThreadsInv, [Next]_vars PROVE CancelInv'
  OBVIOUS
<1>0. MainType /\ ThreadType /\ ResultType /\ PackedType
  BY TypeParts DEF ThreadsInv
<1>1. CASE RunRefused
  BY <1>1
  DEF ThreadsInv, CancelInv, RunRefused, threadVars, given
<1>2. CASE CreateThread
  BY <1>2
  DEF ThreadsInv, CancelInv, CreateThread, flags
<1>3. CASE CreateTooLate
  <2>1. cancelRequested' /\ late' /\ status' = 1 /\ cancel \subseteq cancel' /\ th' = th
    BY <1>3 DEF CreateTooLate, CancelUnjoinedThreads, given
  <2> QED
    BY <2>1 DEF ThreadsInv, CancelInv
<1>4. CASE CreateAborts
  BY <1>4
  DEF ThreadsInv, CancelInv, CreateAborts, threadVars
<1>5. CASE JoinThread
  BY <1>5
  DEF ThreadsInv, CancelInv, JoinThread, threadVars, given
<1>6. CASE JoinFails
  BY <1>6
  DEF ThreadsInv, CancelInv, JoinFails, threadVars, given
<1>7. CASE PassIsLate
  <2>1. cancelRequested' /\ late' /\ status' = 1 /\ cancel \subseteq cancel' /\ th' = th
    BY <1>7 DEF PassIsLate, CancelUnjoinedThreads, given
  <2> QED
    BY <2>1 DEF ThreadsInv, CancelInv
<1>8. CASE PassInTime
  BY <1>8
  DEF ThreadsInv, CancelInv, PassInTime, threadVars, given
<1>9. CASE JoinEnds
  BY <1>9
  DEF ThreadsInv, CancelInv, JoinEnds, threadVars, given
<1>10. CASE PackFails
  BY <1>10
  DEF ThreadsInv, CancelInv, PackFails, threadVars, given
<1>11. ASSUME NEW t \in Index, SetUp(t) PROVE CancelInv'
  BY <1>11
  DEF ThreadsInv, CancelInv, SetUp, ThreadGoes, mainVars, given, flags
<1>12. ASSUME NEW t \in Index, SetUpFails(t) PROVE CancelInv'
  BY <1>12
  DEF ThreadsInv, CancelInv, SetUpFails, ThreadGoes, mainVars, given, flags
<1>13. ASSUME NEW t \in Index, MethodAllocates(t) PROVE CancelInv'
  BY <1>13
  DEF ThreadsInv, CancelInv, MethodAllocates, ThreadGoes, mainVars, given, flags
<1>14. ASSUME NEW t \in Index, MethodReturns(t) PROVE CancelInv'
  BY <1>14
  DEF ThreadsInv, CancelInv, MethodReturns, ThreadGoes, mainVars, given, flags
<1>15. ASSUME NEW t \in Index, ThreadExits(t) PROVE CancelInv'
  BY <1>15
  DEF ThreadsInv, CancelInv, ThreadExits, ThreadGoes, mainVars, given, flags
<1>16. ASSUME NEW t \in Index, ThreadCancelled(t) PROVE CancelInv'
  BY <1>16
  DEF ThreadsInv, CancelInv, ThreadCancelled, ThreadGoes, mainVars, given, flags
<1>17. CASE TimeIsOver
  BY <1>17
  DEF ThreadsInv, CancelInv, TimeIsOver, mainVars, threadVars, flags
<1>18. CASE RunBegins \/ CreateInTime \/ CreateEnds \/ SkipThread \/
        PackThreadResults \/ DestroyThreadResults \/ MasterLeaves \/
        UNCHANGED vars
  <2>1. UNCHANGED <<cancel, cancelRequested, late, status, th>>
    BY <1>18 DEF RunBegins, CreateInTime, CreateEnds, SkipThread,
        PackThreadResults, DestroyThreadResults, MasterLeaves, flags, given,
        joins, mainVars, memory, threadVars, vars
  <2> QED
    BY <2>1 DEF ThreadsInv, CancelInv
<1> QED
  BY <1>1, <1>2, <1>3, <1>4, <1>5, <1>6, <1>7, <1>8, <1>9, <1>10, <1>11, <1>12,
      <1>13, <1>14, <1>15, <1>16, <1>17, <1>18 DEF Next, MainStep, MethodRuns,
      ThreadRuns

(* A thread that was joined has ended. *)
LEMMA JoinedInvKept == ThreadsInv /\ [Next]_vars => JoinedInv'
<1> SUFFICES ASSUME ThreadsInv, [Next]_vars PROVE JoinedInv'
  OBVIOUS
<1>0. MainType /\ ThreadType /\ ResultType /\ PackedType
  BY TypeParts DEF ThreadsInv
<1>1. CASE RunRefused
  BY <1>1
  DEF ThreadsInv, JoinedInv, RunRefused, joins, threadVars
<1>2. CASE CreateThread
  <2>1. created \notin joined /\ joined \subseteq Index
    BY <1>0 DEF ThreadsInv, CreatedInv, MainType
  <2>2. UNCHANGED <<joined, lost, status>> /\ th' = [th EXCEPT ![created] = "starting"]
    BY <1>2 DEF CreateThread, joins, flags
  <2> QED
    BY <1>0, <2>1, <2>2 DEF ThreadsInv, JoinedInv, ThreadType
<1>3. CASE CreateTooLate
  BY <1>3
  DEF ThreadsInv, JoinedInv, CreateTooLate, CancelUnjoinedThreads, joins
<1>4. CASE CreateAborts
  BY <1>4
  DEF ThreadsInv, JoinedInv, CreateAborts, joins, threadVars
<1>5. CASE JoinThread
  BY <1>5
  DEF ThreadsInv, JoinedInv, Ends, JoinThread, Joinable, threadVars
<1>6. CASE JoinFails
  BY <1>6
  DEF ThreadsInv, JoinedInv, JoinFails, threadVars
<1>7. CASE PassIsLate
  BY <1>7
  DEF ThreadsInv, JoinedInv, PassIsLate, CancelUnjoinedThreads
<1>8. CASE PassInTime
  BY <1>8
  DEF ThreadsInv, JoinedInv, PassInTime, threadVars
<1>9. CASE JoinEnds
  BY <1>9
  DEF ThreadsInv, JoinedInv, JoinEnds, joins, threadVars
<1>10. CASE PackFails
  BY <1>10
  DEF ThreadsInv, JoinedInv, PackFails, joins, threadVars
<1>11. ASSUME NEW t \in Index, SetUp(t) PROVE JoinedInv'
  BY <1>11
  DEF ThreadsInv, JoinedInv, Ends, SetUp, ThreadGoes, mainVars, joins, flags
<1>12. ASSUME NEW t \in Index, SetUpFails(t) PROVE JoinedInv'
  BY <1>12
  DEF ThreadsInv, JoinedInv, Ends, SetUpFails, ThreadGoes, mainVars, joins,
      flags
<1>13. ASSUME NEW t \in Index, MethodAllocates(t) PROVE JoinedInv'
  BY <1>13
  DEF ThreadsInv, JoinedInv, Ends, MethodAllocates, ThreadGoes, mainVars, joins,
      flags
<1>14. ASSUME NEW t \in Index, MethodReturns(t) PROVE JoinedInv'
  BY <1>14
  DEF ThreadsInv, JoinedInv, Ends, MethodReturns, ThreadGoes, mainVars, joins,
      flags
<1>15. ASSUME NEW t \in Index, ThreadExits(t) PROVE JoinedInv'
  BY <1>15
  DEF ThreadsInv, JoinedInv, Ends, ThreadExits, ThreadGoes, mainVars, joins,
      flags
<1>16. ASSUME NEW t \in Index, ThreadCancelled(t) PROVE JoinedInv'
  BY <1>16
  DEF ThreadsInv, JoinedInv, Ends, Live, ThreadCancelled, ThreadGoes, mainVars,
      joins, flags
<1>17. CASE RunBegins \/ CreateInTime \/ CreateEnds \/ SkipThread \/
        PackThreadResults \/ DestroyThreadResults \/ TimeIsOver \/
        MasterLeaves \/ UNCHANGED vars
  <2>1. UNCHANGED <<status, joined, lost, th>>
    BY <1>17 DEF RunBegins, CreateInTime, CreateEnds, SkipThread,
        PackThreadResults, DestroyThreadResults, TimeIsOver, MasterLeaves,
        flags, given, joins, mainVars, memory, threadVars, vars
  <2> QED
    BY <2>1 DEF ThreadsInv, JoinedInv
<1> QED
  BY <1>1, <1>2, <1>3, <1>4, <1>5, <1>6, <1>7, <1>8, <1>9, <1>10, <1>11, <1>12,
      <1>13, <1>14, <1>15, <1>16, <1>17 DEF Next, MainStep, MethodRuns,
      ThreadRuns

(* The lock is held by the thread inside malloc, or was by a cancelled one. *)
LEMMA LockInvKept == ThreadsInv /\ [Next]_vars => LockInv'
<1> SUFFICES ASSUME ThreadsInv, [Next]_vars PROVE LockInv'
  OBVIOUS
<1>0. MainType /\ ThreadType /\ ResultType /\ PackedType
  BY TypeParts DEF ThreadsInv
<1>1. CASE CreateThread
  <2>1. created \in Index /\ th[created] = "none"
    BY <1>0, <1>1, ThreadsAssumption DEF ThreadsInv, CreatedInv, MainType,
        CreateThread, Index
  <2>2. UNCHANGED heap /\ th' = [th EXCEPT ![created] = "starting"]
    BY <1>1 DEF CreateThread
  <2> QED
    BY <1>0, <2>1, <2>2 DEF ThreadsInv, LockInv, ThreadType
<1>2. ASSUME NEW t \in Index, SetUp(t) PROVE LockInv'
  BY <1>2
  DEF ThreadsInv, LockInv, SetUp, ThreadGoes
<1>3. ASSUME NEW t \in Index, SetUpFails(t) PROVE LockInv'
  BY <1>3
  DEF ThreadsInv, LockInv, SetUpFails, ThreadGoes
<1>4. ASSUME NEW t \in Index, MethodAllocates(t) PROVE LockInv'
  BY <1>0, <1>4
  DEF ThreadsInv, LockInv, ThreadType, Index, NoThread, MethodAllocates,
      ThreadGoes
<1>5. ASSUME NEW t \in Index, MethodReturns(t) PROVE LockInv'
  BY <1>0, <1>5
  DEF ThreadsInv, LockInv, ThreadType, Index, NoThread, MethodReturns,
      ThreadGoes
<1>6. ASSUME NEW t \in Index, ThreadExits(t) PROVE LockInv'
  BY <1>6
  DEF ThreadsInv, LockInv, ThreadExits, ThreadGoes
<1>7. ASSUME NEW t \in Index, ThreadCancelled(t) PROVE LockInv'
  BY <1>7
  DEF ThreadsInv, LockInv, ThreadCancelled, ThreadGoes
<1>8. CASE RunRefused \/ RunBegins \/ CreateTooLate \/ CreateInTime \/
        CreateAborts \/ CreateEnds \/ JoinThread \/ SkipThread \/
        JoinFails
  <2>1. UNCHANGED <<heap, th>>
    BY <1>8 DEF RunRefused, RunBegins, CreateTooLate, CreateInTime,
        CreateAborts, CreateEnds, JoinThread, SkipThread, JoinFails, flags,
        given, joins, memory, threadVars
  <2> QED
    BY <2>1 DEF ThreadsInv, LockInv
<1>9. CASE PassIsLate \/ PassInTime \/ JoinEnds \/ PackThreadResults \/
        PackFails \/ DestroyThreadResults \/ TimeIsOver \/ MasterLeaves \/
        UNCHANGED vars
  <2>1. UNCHANGED <<heap, th>>
    BY <1>9 DEF PassIsLate, PassInTime, JoinEnds, PackThreadResults, PackFails,
        DestroyThreadResults, TimeIsOver, MasterLeaves, flags, given, joins,
        mainVars, memory, threadVars, vars
  <2> QED
    BY <2>1 DEF ThreadsInv, LockInv
<1> QED
  BY <1>1, <1>2, <1>3, <1>4, <1>5, <1>6, <1>7, <1>8, <1>9 DEF Next, MainStep,
      MethodRuns, ThreadRuns

(* What is known of the counters where the main thread is. *)
LEMMA PhaseInvKept == ThreadsInv /\ [Next]_vars => PhaseInv'
<1> SUFFICES ASSUME ThreadsInv, [Next]_vars PROVE PhaseInv'
  OBVIOUS
<1>0. MainType /\ ThreadType /\ ResultType /\ PackedType
  BY TypeParts DEF ThreadsInv
<1>1. CASE RunRefused
  BY <1>1
  DEF ThreadsInv, PhaseInv, RunRefused, joins
<1>2. CASE RunBegins
  BY <1>2
  DEF ThreadsInv, PhaseInv, RunBegins, flags, memory
<1>3. CASE CreateThread
  BY <1>3
  DEF ThreadsInv, PhaseInv, CreateThread, flags, memory
<1>4. CASE CreateTooLate
  BY <1>4
  DEF ThreadsInv, PhaseInv, CreateTooLate, CancelUnjoinedThreads, memory
<1>5. CASE CreateInTime
  BY <1>5
  DEF ThreadsInv, PhaseInv, CreateInTime, flags, memory
<1>6. CASE CreateAborts
  BY <1>6
  DEF ThreadsInv, PhaseInv, CreateAborts, memory
<1>7. CASE CreateEnds
  BY <1>7
  DEF ThreadsInv, PhaseInv, CreateEnds, memory
<1>8. CASE JoinThread
  BY <1>8
  DEF ThreadsInv, PhaseInv, JoinThread, Scanning, memory
<1>9. CASE JoinFails
  BY <1>9
  DEF ThreadsInv, PhaseInv, JoinFails, Scanning, memory
<1>10. CASE PassIsLate
  BY <1>10
  DEF ThreadsInv, PhaseInv, PassIsLate, PassEnds, CancelUnjoinedThreads, memory
<1>11. CASE PassInTime
  BY <1>11
  DEF ThreadsInv, PhaseInv, PassInTime, PassEnds, memory
<1>12. CASE JoinEnds
  <2>1. joined \subseteq 0 .. created - 1 /\ Cardinality(joined) >= created /\ created \in Nat
    BY <1>0, <1>12 DEF ThreadsInv, CreatedInv, MainType, JoinEnds, AllJoined
  <2>2. Cardinality(joined) = created => joined = 0 .. created - 1
    BY <2>1, Counting
  <2>4. Cardinality(joined) \in 0 .. created
    BY <2>1, Counting
  <2>5. joined = 0 .. created - 1
    BY <2>1, <2>2, <2>4
  <2>3. mpc = "join" /\ mpc' \in {"free",
      "pack"} /\ status' = (IF late THEN 1 ELSE status)
        /\ (mpc' = "pack" => status' = 0) /\ UNCHANGED <<created, joined,
            freed>>
    BY <1>0, <1>12 DEF JoinEnds, MainType, joins, memory
  <2> QED
    BY <1>0, <2>5, <2>3 DEF ThreadsInv, PhaseInv, MainType
<1>13. CASE PackThreadResults
  BY <1>13
  DEF ThreadsInv, PhaseInv, PackThreadResults, joins
<1>14. CASE PackFails
  BY <1>14
  DEF ThreadsInv, PhaseInv, PackFails, joins, memory
<1>15. CASE DestroyThreadResults
  BY <1>15
  DEF ThreadsInv, PhaseInv, DestroyThreadResults, joins, flags
<1>16. CASE SkipThread \/ TimeIsOver \/ MasterLeaves \/
        (\E t \in Index : SetUp(t) \/ SetUpFails(t) \/ MethodAllocates(t) \/
        MethodReturns(t) \/ ThreadExits(t) \/ ThreadCancelled(t)) \/
        UNCHANGED vars
  <2>1. UNCHANGED <<mpc, created, joined, status, freed>>
    BY <1>16 DEF SkipThread, TimeIsOver, MasterLeaves, SetUp, SetUpFails,
        MethodAllocates, MethodReturns, ThreadExits, ThreadCancelled, flags,
        given, joins, mainVars, memory, threadVars, vars
  <2> QED
    BY <2>1 DEF ThreadsInv, PhaseInv
<1> QED
  BY <1>1, <1>2, <1>3, <1>4, <1>5, <1>6, <1>7, <1>8, <1>9, <1>10, <1>11, <1>12,
      <1>13, <1>14, <1>15, <1>16 DEF Next, MainStep, MethodRuns, ThreadRuns

(* A result answers the share of its own thread. *)
LEMMA ResultInvKept == ThreadsInv /\ [Next]_vars => ResultInv'
<1> SUFFICES ASSUME ThreadsInv, [Next]_vars PROVE ResultInv'
  OBVIOUS
<1>0. MainType /\ ThreadType /\ ResultType /\ PackedType
  BY TypeParts DEF ThreadsInv
<1>1. CASE RunRefused
  BY <1>1
  DEF ThreadsInv, ResultInv, RunRefused, threadVars
<1>2. CASE RunBegins
  BY <1>2
  DEF ThreadsInv, ResultInv, ValidResult, RunBegins, threadVars
<1>3. CASE CreateThread
  BY <1>3
  DEF ThreadsInv, ResultInv, ValidResult, CreateThread
<1>4. CASE CreateTooLate
  BY <1>4
  DEF ThreadsInv, ResultInv, ValidResult, CreateTooLate
<1>5. CASE CreateInTime
  BY <1>5
  DEF ThreadsInv, ResultInv, ValidResult, CreateInTime, threadVars
<1>6. CASE CreateAborts
  BY <1>6
  DEF ThreadsInv, ResultInv, ValidResult, CreateAborts, threadVars
<1>7. CASE CreateEnds
  BY <1>7
  DEF ThreadsInv, ResultInv, ValidResult, CreateEnds, threadVars
<1>8. CASE JoinEnds
  BY <1>8
  DEF ThreadsInv, ResultInv, ValidResult, JoinEnds, threadVars
<1>9. CASE PackThreadResults
  BY <1>9
  DEF ThreadsInv, ResultInv, ValidResult, PackThreadResults, threadVars
<1>10. CASE PackFails
  BY <1>10
  DEF ThreadsInv, ResultInv, ValidResult, PackFails, threadVars
<1>11. CASE DestroyThreadResults
  BY <1>11
  DEF ResultInv, DestroyThreadResults
<1>12. ASSUME NEW t \in Index, SetUp(t) PROVE ResultInv'
  BY <1>12
  DEF ThreadsInv, ResultInv, ValidResult, SetUp, ThreadGoes, mainVars
<1>13. ASSUME NEW t \in Index, SetUpFails(t) PROVE ResultInv'
  BY <1>13
  DEF ThreadsInv, ResultInv, SetUpFails
<1>14. ASSUME NEW t \in Index, MethodAllocates(t) PROVE ResultInv'
  BY <1>14
  DEF ThreadsInv, ResultInv, ValidResult, MethodAllocates, ThreadGoes, mainVars
<1>15. ASSUME NEW t \in Index, MethodReturns(t) PROVE ResultInv'
  <2>1. mpc' = mpc /\ th' = [th EXCEPT ![t] = "stored"]
    BY <1>15 DEF MethodReturns, ThreadGoes, mainVars
  <2>2. PICK p \in Packets \cup (IF "method" \in Faults THEN {Invalid,
      NULL} ELSE {}) :
           result' = [result EXCEPT ![t] = IF p = NULL THEN NULL ELSE Answer(t,
               p)]
    BY <1>15 DEF MethodReturns
  <2>3. ASSUME NEW k \in Index, k # t
        PROVE  result'[k] = result[k] /\ th'[k] = th[k]
    BY <1>0, <2>1, <2>2, <2>3 DEF ResultType, ThreadType
  <2>4. result'[t] = (IF p = NULL THEN NULL ELSE Answer(t, p))
    BY <1>0, <2>2 DEF ResultType
  <2>5. result'[t] # NULL => result'[t] \in [of : {t},
      packet : Packets \cup {Invalid}]
    BY <2>2, <2>4 DEF Answer
  <2>6. Faults = {} => result'[t] # NULL /\ result'[t].packet \in Packets
    <3>1. Faults = {} => p \in Packets /\ p # NULL
      BY <2>2, ThreadsAssumption
    <3>2. Answer(t, p) \in [of : {t}, packet : {p}] /\ Answer(t, p).packet = p
      BY DEF Answer
    <3>3. p \in Packets => Answer(t, p) # NULL
      BY ThreadsAssumption DEF Answer, Answers
    <3> QED
      BY <2>4, <3>1, <3>2, <3>3
  <2> QED
    BY <2>1, <2>3, <2>5, <2>6 DEF ThreadsInv, ResultInv, ValidResult
<1>16. ASSUME NEW t \in Index, ThreadExits(t) PROVE ResultInv'
  BY <1>16
  DEF ThreadsInv, ResultInv, ValidResult, ThreadExits, ThreadGoes, mainVars
<1>17. ASSUME NEW t \in Index, ThreadCancelled(t) PROVE ResultInv'
  BY <1>17
  DEF ThreadsInv, ResultInv, ValidResult, ThreadCancelled, ThreadGoes, mainVars
<1>18. CASE JoinThread \/ SkipThread \/ JoinFails \/ PassIsLate \/ PassInTime \/
        TimeIsOver \/ MasterLeaves \/ UNCHANGED vars
  <2>1. UNCHANGED <<result, mpc, th>>
    BY <1>18 DEF JoinThread, SkipThread, JoinFails, PassIsLate, PassInTime,
        TimeIsOver, MasterLeaves, flags, given, joins, mainVars, memory,
        threadVars, vars
  <2> QED
    BY <2>1 DEF ThreadsInv, ResultInv, ValidResult
<1> QED
  BY <1>1, <1>2, <1>3, <1>4, <1>5, <1>6, <1>7, <1>8, <1>9, <1>10, <1>11, <1>12,
      <1>13, <1>14, <1>15, <1>16, <1>17, <1>18 DEF Next, MainStep, MethodRuns,
      ThreadRuns

(* worker->result changes in a run that returns 0, and only there. *)
LEMMA PackedInvKept == ThreadsInv /\ [Next]_vars => PackedInv'
<1> SUFFICES ASSUME ThreadsInv, [Next]_vars PROVE PackedInv'
  OBVIOUS
<1>0. MainType /\ ThreadType /\ ResultType /\ PackedType
  BY TypeParts DEF ThreadsInv
<1>1. CASE RunRefused
  BY <1>1
  DEF ThreadsInv, PackedInv, RunRefused, memory
<1>2. CASE RunBegins
  BY <1>2
  DEF ThreadsInv, PackedInv, RunBegins, memory
<1>3. CASE CreateThread
  BY <1>3
  DEF ThreadsInv, PackedInv, CreateThread, memory
<1>4. CASE CreateTooLate
  BY <1>4
  DEF ThreadsInv, PackedInv, CreateTooLate, memory
<1>5. CASE CreateInTime
  BY <1>5
  DEF ThreadsInv, PackedInv, CreateInTime, memory
<1>6. CASE CreateAborts
  BY <1>6
  DEF ThreadsInv, PackedInv, CreateAborts, memory
<1>7. CASE CreateEnds
  BY <1>7
  DEF ThreadsInv, PackedInv, CreateEnds, memory
<1>8. CASE JoinThread
  BY <1>8
  DEF ThreadsInv, PackedInv, JoinThread, Scanning, memory
<1>9. CASE JoinFails
  BY <1>9
  DEF ThreadsInv, PackedInv, JoinFails, Scanning, memory
<1>10. CASE PassIsLate
  BY <1>10
  DEF ThreadsInv, PackedInv, PassIsLate, PassEnds, memory
<1>11. CASE PassInTime
  BY <1>11
  DEF ThreadsInv, PackedInv, PassInTime, PassEnds, memory
<1>12. CASE JoinEnds
  BY <1>12
  DEF ThreadsInv, PackedInv, JoinEnds, memory
<1>13. CASE PackThreadResults
  <2>1. mpc' = "free" /\ status' = 0 /\ packed' = result
    BY <1>0, <1>13 DEF ThreadsInv, PhaseInv, PackThreadResults, flags
  <2>2. ASSUME NEW t \in Index
        PROVE  result[t] \in GoodAnswers(t)
    <3>1. result[t] \in [of : {t},
        packet : Packets \cup {Invalid}] /\ result[t].packet \in Packets
      BY <1>13 DEF PackThreadResults, ValidResult, ThreadsInv, ResultInv
    <3> QED
      BY <3>1 DEF GoodAnswers
  <2>3. result # Unpacked
    <3>1. DOMAIN result = Index /\ 0 \in Index
      BY <1>0, ThreadsAssumption DEF ResultType, Index
    <3>2. DOMAIN Unpacked = {}
      BY DEF Unpacked
    <3> QED
      BY <3>1, <3>2
  <2> QED
    BY <2>1, <2>2, <2>3 DEF PackedInv, GoodAnswers
<1>14. CASE PackFails
  BY <1>14
  DEF ThreadsInv, PackedInv, PackFails, memory
<1>15. CASE DestroyThreadResults
  BY <1>15
  DEF ThreadsInv, PackedInv, DestroyThreadResults, flags
<1>16. CASE SkipThread \/ TimeIsOver \/ MasterLeaves \/
        (\E t \in Index : SetUp(t) \/ SetUpFails(t) \/ MethodAllocates(t) \/
        MethodReturns(t) \/ ThreadExits(t) \/ ThreadCancelled(t)) \/
        UNCHANGED vars
  <2>1. UNCHANGED <<mpc, status, packed>>
    BY <1>16 DEF SkipThread, TimeIsOver, MasterLeaves, SetUp, SetUpFails,
        MethodAllocates, MethodReturns, ThreadExits, ThreadCancelled, flags,
        given, joins, mainVars, memory, threadVars, vars
  <2> QED
    BY <2>1 DEF ThreadsInv, PackedInv
<1> QED
  BY <1>1, <1>2, <1>3, <1>4, <1>5, <1>6, <1>7, <1>8, <1>9, <1>10, <1>11, <1>12,
      <1>13, <1>14, <1>15, <1>16 DEF Next, MainStep, MethodRuns, ThreadRuns

(* A thread runs on a core of its range that exists. *)
LEMMA HartInvKept == ThreadsInv /\ [Next]_vars => HartInv'
<1> SUFFICES ASSUME ThreadsInv, [Next]_vars PROVE HartInv'
  OBVIOUS
<1>0. MainType /\ ThreadType /\ ResultType /\ PackedType
  BY TypeParts DEF ThreadsInv
<1>1. CASE CreateThread
  <2>1. th' = [th EXCEPT ![created] = "starting"] /\ hart' = [hart EXCEPT ![created] = Hart(created)]
        /\ resources' = resources /\ created \in Index /\ Hart(created) < CpuSetSize
    BY <1>0, <1>1, ThreadsAssumption DEF CreateThread, MainType, Index, given
  <2> QED
    BY <1>0, <2>1 DEF ThreadsInv, HartInv, Hart, ThreadType
<1>2. ASSUME NEW t \in Index, SetUp(t) PROVE HartInv'
  <2>1. UNCHANGED <<hart, resources>> /\ th[t] # "none"
        /\ \E place \in Live \cup Ends : th' = [th EXCEPT ![t] = place]
    BY <1>2 DEF SetUp, ThreadGoes, Live, Ends, given
  <2> QED
    BY <1>0, <2>1 DEF ThreadsInv, HartInv, Hart, ThreadType
<1>3. ASSUME NEW t \in Index, SetUpFails(t) PROVE HartInv'
  <2>1. UNCHANGED <<hart, resources>> /\ th[t] # "none"
        /\ \E place \in Live \cup Ends : th' = [th EXCEPT ![t] = place]
    BY <1>3 DEF SetUpFails, ThreadGoes, Live, Ends, given
  <2> QED
    BY <1>0, <2>1 DEF ThreadsInv, HartInv, Hart, ThreadType
<1>4. ASSUME NEW t \in Index, MethodAllocates(t) PROVE HartInv'
  <2>1. UNCHANGED <<hart, resources>> /\ th[t] # "none"
        /\ \E place \in Live \cup Ends : th' = [th EXCEPT ![t] = place]
    BY <1>4 DEF MethodAllocates, ThreadGoes, Live, Ends, given
  <2> QED
    BY <1>0, <2>1 DEF ThreadsInv, HartInv, Hart, ThreadType
<1>5. ASSUME NEW t \in Index, MethodReturns(t) PROVE HartInv'
  <2>1. UNCHANGED <<hart, resources>> /\ th[t] # "none"
        /\ \E place \in Live \cup Ends : th' = [th EXCEPT ![t] = place]
    BY <1>5 DEF MethodReturns, ThreadGoes, Live, Ends, given
  <2> QED
    BY <1>0, <2>1 DEF ThreadsInv, HartInv, Hart, ThreadType
<1>6. ASSUME NEW t \in Index, ThreadExits(t) PROVE HartInv'
  <2>1. UNCHANGED <<hart, resources>> /\ th[t] # "none"
        /\ \E place \in Live \cup Ends : th' = [th EXCEPT ![t] = place]
    BY <1>6 DEF ThreadExits, ThreadGoes, Live, Ends, given
  <2> QED
    BY <1>0, <2>1 DEF ThreadsInv, HartInv, Hart, ThreadType
<1>7. ASSUME NEW t \in Index, ThreadCancelled(t) PROVE HartInv'
  <2>1. UNCHANGED <<hart, resources>> /\ th[t] # "none"
        /\ \E place \in Live \cup Ends : th' = [th EXCEPT ![t] = place]
    BY <1>7 DEF ThreadCancelled, ThreadGoes, Live, Ends, given
  <2> QED
    BY <1>0, <2>1 DEF ThreadsInv, HartInv, Hart, ThreadType
<1>8. CASE RunRefused \/ RunBegins \/ CreateTooLate \/ CreateInTime \/
        CreateAborts \/ CreateEnds \/ JoinThread \/ SkipThread \/
        JoinFails
  <2>1. UNCHANGED <<th, hart, resources>>
    BY <1>8 DEF RunRefused, RunBegins, CreateTooLate, CreateInTime,
        CreateAborts, CreateEnds, JoinThread, SkipThread, JoinFails, flags,
        given, joins, memory, threadVars
  <2> QED
    BY <2>1 DEF ThreadsInv, HartInv, Hart
<1>9. CASE PassIsLate \/ PassInTime \/ JoinEnds \/ PackThreadResults \/
        PackFails \/ DestroyThreadResults \/ TimeIsOver \/ MasterLeaves \/
        UNCHANGED vars
  <2>1. UNCHANGED <<th, hart, resources>>
    BY <1>9 DEF PassIsLate, PassInTime, JoinEnds, PackThreadResults, PackFails,
        DestroyThreadResults, TimeIsOver, MasterLeaves, flags, given, joins,
        mainVars, memory, threadVars, vars
  <2> QED
    BY <2>1 DEF ThreadsInv, HartInv, Hart
<1> QED
  BY <1>1, <1>2, <1>3, <1>4, <1>5, <1>6, <1>7, <1>8, <1>9 DEF Next, MainStep,
      MethodRuns, ThreadRuns

(* Without a failing call, status becomes 1 for a cause only. *)
LEMMA FailureHasCauseKept == ThreadsInv /\ [Next]_vars => FailureHasCause'
<1> SUFFICES ASSUME ThreadsInv, [Next]_vars PROVE FailureHasCause'
  OBVIOUS
<1>0. MainType /\ ThreadType /\ ResultType /\ PackedType
  BY TypeParts DEF ThreadsInv
<1>r. resources.cores \in Nat \ {0} /\ resources.firstCore \in Nat
  BY <1>0, ResourcesAreNumbers DEF MainType
<1>1. CASE RunRefused
  BY <1>1
  DEF FailureHasCause, MayRefuse, Sum, RunRefused, given
<1>2. CASE CreateTooLate
  BY <1>2
  DEF FailureHasCause, CreateTooLate, given
<1>3. CASE CreateAborts
  BY ThreadsAssumption, <1>0, <1>3
  DEF FailureHasCause, MainType, MayRefuse, Sum, Hart, CreateAborts, given
<1>4. CASE JoinThread
  <2>1. UNCHANGED <<late, masterGone,
      resources>> /\ status' = (IF th[scan] = "cancelled" THEN 1 ELSE status)
        /\ scan \in Index
    BY <1>0, <1>4, ThreadsAssumption DEF JoinThread, Scanning, MainType, Index,
        given
  <2>2. th[scan] = "cancelled" => late
    BY <2>1 DEF ThreadsInv, CancelInv
  <2> QED
    BY <2>1, <2>2 DEF ThreadsInv, FailureHasCause, MayRefuse, Sum
<1>5. CASE JoinFails
  BY <1>5
  DEF FailureHasCause, JoinFails
<1>6. CASE PassIsLate
  BY <1>6
  DEF FailureHasCause, PassIsLate, given
<1>7. CASE PassInTime
  BY <1>7
  DEF ThreadsInv, FailureHasCause, MayRefuse, Sum, PassInTime, given
<1>8. CASE JoinEnds
  BY <1>8
  DEF ThreadsInv, FailureHasCause, MayRefuse, Sum, JoinEnds, given
<1>9. CASE PackFails
  <2>1. Faults = {} => \A t \in Index : th[t] = "exited"
    BY <1>0, <1>9 DEF PackFails, ThreadsInv, PhaseInv, JoinedInv, MainType,
        Index
  <2>2. Faults = {} => \A t \in Index : ValidResult(t)
    BY <2>1, <1>9 DEF PackFails, ThreadsInv, ResultInv
  <2>3. Faults # {}
    BY <2>2, <1>9 DEF PackFails
  <2> QED
    BY <2>3 DEF FailureHasCause
<1>10. CASE TimeIsOver
  BY <1>10
  DEF FailureHasCause, TimeIsOver
<1>11. CASE MasterLeaves
  BY <1>11
  DEF FailureHasCause, MasterLeaves
<1>12. CASE RunBegins \/ CreateThread \/ CreateInTime \/ CreateEnds \/ SkipThread \/
        PackThreadResults \/ DestroyThreadResults \/
        (\E t \in Index : SetUp(t) \/ SetUpFails(t) \/ MethodAllocates(t) \/
        MethodReturns(t) \/ ThreadExits(t) \/ ThreadCancelled(t)) \/
        UNCHANGED vars
  <2>1. UNCHANGED <<status, late, masterGone, resources>>
    BY <1>12 DEF RunBegins, CreateThread, CreateInTime, CreateEnds, SkipThread,
        PackThreadResults, DestroyThreadResults, SetUp, SetUpFails,
        MethodAllocates, MethodReturns, ThreadExits, ThreadCancelled, flags,
        given, joins, mainVars, memory, threadVars, vars
  <2> QED
    BY <2>1 DEF ThreadsInv, FailureHasCause, MayRefuse, Sum
<1> QED
  BY <1>1, <1>2, <1>3, <1>4, <1>5, <1>6, <1>7, <1>8, <1>9, <1>10, <1>11,
      <1>12 DEF Next, MainStep, MethodRuns, ThreadRuns
(* WorkerRun starts in the invariant. *)
LEMMA InitThreadsInv == Init => ThreadsInv
<1> SUFFICES ASSUME Init PROVE ThreadsInv
  OBVIOUS
<1>1. MainType /\ ThreadType
  <2>1. MainType
    <3>1. /\ mpc \in MainPcs /\ resources \in Resources
          /\ joined \subseteq Index /\ lost \subseteq Index
      BY DEF Init, MainPcs
    <3>2. created \in 0 .. Threads /\ joinedThreads \in 0 .. Threads /\ scan \in 0 .. Threads
      BY ThreadsAssumption DEF Init
    <3>3. cancelRequested \in BOOLEAN /\ freed \in BOOLEAN /\ late \in BOOLEAN /\ masterGone \in BOOLEAN
      BY DEF Init
    <3>4. status \in {0, 1}
      BY DEF Init
    <3> QED
      BY <3>1, <3>2, <3>3, <3>4 DEF MainType
  <2>2. th \in [Index -> Live \cup Ends \cup {"none"}] /\ cancel \subseteq Index
    BY DEF Init
  <2>3. CpuSetSize \in 0 .. CpuSetSize
    BY ThreadsAssumption
  <2>4. hart \in [Index -> 0 .. CpuSetSize]
    BY <2>3 DEF Init
  <2>5. heap \in Index \cup {NoThread}
    BY DEF Init
  <2> QED
    BY <2>1, <2>2, <2>4, <2>5 DEF ThreadType
<1>2. ResultType /\ PackedType
  BY DEF Init, ResultType, PackedType
<1>3. CreatedInv
  <2>1. joined = {} /\ Cardinality({}) = 0
    BY FS_EmptySet DEF Init
  <2> QED
    BY <2>1, ThreadsAssumption DEF Init, CreatedInv, Index
<1>4. CancelInv /\ JoinedInv /\ LockInv /\ PhaseInv
  BY ThreadsAssumption DEF Init, CancelInv, JoinedInv, LockInv, PhaseInv, Index, NoThread
<1>5. ResultInv /\ PackedInv
  BY DEF Init, ResultInv, PackedInv, Unpacked
<1>6. HartInv /\ FailureHasCause
  BY DEF Init, HartInv, FailureHasCause
<1> QED
  BY <1>1, <1>2, <1>3, <1>4, <1>5, <1>6, TypeParts DEF ThreadsInv

(***************************************************************************)
(* The invariant of WorkerRun holds in every reachable state, for every    *)
(* number of threads, every request for cores and every set of failing     *)
(* calls.                                                                  *)
(***************************************************************************)
THEOREM ThreadsInvHolds == Spec => []ThreadsInv
<1>1. ThreadsInv /\ [Next]_vars => ThreadsInv'
  <2> SUFFICES ASSUME ThreadsInv, [Next]_vars PROVE ThreadsInv'
    OBVIOUS
  <2>1. ThreadsTypeOK'
    <3>1. MainType' /\ ThreadType' /\ ResultType' /\ PackedType'
      BY MainTypeKept, ThreadTypeKept, ResultTypeKept, PackedTypeKept
    <3> QED
      BY <3>1 DEF ThreadsTypeOK, MainType, ThreadType, ResultType, PackedType
  <2>2. CreatedInv' /\ CancelInv' /\ JoinedInv' /\ LockInv'
    BY CreatedInvKept, CancelInvKept, JoinedInvKept, LockInvKept
  <2>3. PhaseInv' /\ ResultInv' /\ PackedInv'
    BY PhaseInvKept, ResultInvKept, PackedInvKept
  <2>4. HartInv' /\ FailureHasCause'
    BY HartInvKept, FailureHasCauseKept
  <2> QED
    BY <2>1, <2>2, <2>3, <2>4 DEF ThreadsInv
<1> QED
  BY InitThreadsInv, <1>1, PTL DEF Spec

(* Every variable of WorkerRun keeps its type: in particular the counters  *)
(* of the create and join loops never pass the number of threads.          *)
THEOREM ThreadsTypeCorrect == Spec => []ThreadsTypeOK
<1>1. ThreadsInv => ThreadsTypeOK
  BY DEF ThreadsInv
<1> QED
  BY <1>1, ThreadsInvHolds, PTL

(* A run without failing calls fails only for the limit, the master or an  *)
(* impossible request.                                                     *)
THEOREM FailureCaused == Spec => []FailureHasCause
<1>1. ThreadsInv => FailureHasCause
  BY DEF ThreadsInv
<1> QED
  BY <1>1, ThreadsInvHolds, PTL

(* A range of cores that lacks some of the set for the threads of the run, *)
(* and that an overflow of int let pass, never ends in a success: all      *)
(* threads of a successful run have been created, that of the last core    *)
(* used included.                                                          *)
THEOREM UnfitRangesNeverSucceed == Spec => []UnfitRangesFail
<1>1. ThreadsInv => UnfitRangesFail
  <2> SUFFICES ASSUME ThreadsInv, mpc = "returned", status # 1,
                      resources.firstCore + PinnedCores > CpuSetSize
               PROVE  FALSE
    BY DEF UnfitRangesFail
  <2> DEFINE last == PinnedCores - 1
  <2>0. MainType
    BY TypeParts DEF ThreadsInv
  <2>1. resources.cores \in Nat \ {0} /\ resources.firstCore \in Nat /\ status = 0
    BY <2>0, ResourcesAreNumbers DEF MainType
  <2>2. last \in Index /\ last \in 0 .. resources.cores - 1
    BY <2>1, ThreadsAssumption DEF PinnedCores, Index
  <2>3. created = Threads
    BY <2>1 DEF ThreadsInv, PhaseInv
  <2>4. th[last] # "none"
    BY <2>2, <2>3, ThreadsAssumption DEF ThreadsInv, CreatedInv, Index
  <2>5. Hart(last) < CpuSetSize
    BY <2>2, <2>4 DEF ThreadsInv, HartInv
  <2>6. last % resources.cores = last
    BY <2>1, <2>2
  <2> QED
    BY <2>1, <2>2, <2>5, <2>6, ThreadsAssumption DEF Hart, PinnedCores
<1> QED
  BY <1>1, ThreadsInvHolds, PTL

(* A WorkerRun that returns 0 has joined every thread, each of them ended  *)
(* by itself, and delivers the packet of thread t at place t.              *)
THEOREM SuccessWhole == Spec => []SuccessIsWhole
<1>1. ThreadsInv => SuccessIsWhole
  <2> SUFFICES ASSUME ThreadsInv, mpc = "returned", status = 0
               PROVE  /\ joined = Index
                      /\ \A t \in Index :
                            th[t] = "exited" /\ packed[t] \in [of : {t}, packet : Packets]
    BY DEF SuccessIsWhole
  <2>1. joined = Index
    BY DEF ThreadsInv, PhaseInv, Index
  <2>2. \A t \in Index : th[t] = "exited"
    BY <2>1 DEF ThreadsInv, JoinedInv
  <2>3. \A t \in Index : packed[t] \in [of : {t}, packet : Packets]
    BY DEF ThreadsInv, PackedInv, GoodAnswers
  <2> QED
    BY <2>1, <2>2, <2>3
<1> QED
  BY <1>1, ThreadsInvHolds, PTL

(* When args is freed, no thread can write to it any more, cancelled       *)
(* threads included, but for threads that pthread_tryjoin_np failed for.   *)
THEOREM ArgsOutlive == Spec => []ArgsOutliveThreads
<1>1. ThreadsInv => ArgsOutliveThreads
  <2> SUFFICES ASSUME ThreadsInv, freed, NEW t \in Index \ lost
               PROVE  th[t] \notin Live
    BY DEF ArgsOutliveThreads
  <2>1. joined = 0 .. created - 1
    BY DEF ThreadsInv, PhaseInv
  <2>2. CASE t \in joined
    <3>1. th[t] \in Ends
      BY <2>2 DEF ThreadsInv, JoinedInv
    <3> QED
      BY <3>1 DEF Live, Ends
  <2>3. CASE t \notin joined
    <3>1. created \in Nat
      BY TypeParts DEF ThreadsInv, MainType
    <3>2. t >= created
      BY <2>1, <2>3, <3>1, ThreadsAssumption DEF Index
    <3>3. th[t] = "none"
      BY <3>2 DEF ThreadsInv, CreatedInv
    <3> QED
      BY <3>3 DEF Live
  <2> QED
    BY <2>2, <2>3
<1> QED
  BY <1>1, ThreadsInvHolds, PTL

(* The lock of the allocator is lost to cancellations past the limit only. *)
THEOREM LockLostPastLimit == Spec => []LockIsLostOnlyPastLimit
<1>1. ThreadsInv => LockIsLostOnlyPastLimit
  <2> SUFFICES ASSUME ThreadsInv, HeapLost
               PROVE  late /\ cancelRequested /\ status = 1
    BY DEF LockIsLostOnlyPastLimit
  <2>1. heap \in Index /\ th[heap] = "cancelled"
    BY DEF ThreadsInv, LockInv, HeapLost, Ends
  <2>2. heap \in cancel
    BY <2>1 DEF ThreadsInv, CancelInv
  <2> QED
    BY <2>2 DEF ThreadsInv, CancelInv
<1> QED
  BY <1>1, ThreadsInvHolds, PTL

-----------------------------------------------------------------------------
(***************************************************************************)
(* WorkerRun keeps the promise of WorkerCall.                              *)
(***************************************************************************)
Outcome == IF mpc = "returned" /\ status = 1 THEN "failed"
           ELSE IF packed # Unpacked THEN "succeeded" ELSE "running"

Promised == Call!Succeeds \/ Call!Fails \/ UNCHANGED <<Outcome, packed>>

(* Each step of WorkerRun and of its threads succeeds, fails, or is not    *)
(* seen by the caller.                                                     *)
LEMMA StepIsPromised == ThreadsInv /\ ThreadsInv' /\ [Next]_vars => Promised
<1> SUFFICES ASSUME ThreadsInv, ThreadsInv', [Next]_vars PROVE Promised
  OBVIOUS
<1>1. CASE PackThreadResults
  <2>1. packed = Unpacked /\ Outcome = "running"
    BY <1>1 DEF PackThreadResults, ThreadsInv, PackedInv, Outcome
  <2>2. mpc' = "free" /\ status' = 0
    BY <1>1 DEF PackThreadResults, ThreadsInv, PhaseInv, flags
  <2>3. packed' # Unpacked /\ \A t \in Index : packed'[t] \in GoodAnswers(t)
    BY <2>2 DEF ThreadsInv, PackedInv, GoodAnswers
  <2>4. Outcome' = "succeeded"
    BY <2>2, <2>3 DEF Outcome
  <2>5. packed' \in [Index -> UNION {GoodAnswers(t) : t \in Index}]
    <3>1. packed' \in [Index -> Answers]
      BY <2>3, TypeParts DEF ThreadsInv, ThreadsTypeOK
    <3> QED
      BY <2>3, <3>1
  <2> QED
    BY <2>1, <2>3, <2>4, <2>5 DEF Promised, Call!Succeeds, Outcome
<1>2. CASE RunRefused
  <2>1. status' = 1 /\ mpc' = "returned" /\ mpc = "called" /\ packed' = packed
    BY <1>2 DEF RunRefused, memory
  <2>2. packed = Unpacked
    BY <2>1 DEF ThreadsInv, PackedInv
  <2>3. Outcome = "running" /\ Outcome' = "failed"
    BY <2>1, <2>2 DEF Outcome
  <2> QED
    BY <2>1, <2>3 DEF Promised, Call!Fails, Outcome
<1>3. CASE DestroyThreadResults
  <2>1. mpc = "free" /\ mpc' = "returned" /\ UNCHANGED <<status, packed>>
    BY <1>3 DEF DestroyThreadResults, flags
  <2>2. status = 0 => Outcome' = Outcome
    BY <2>1 DEF Outcome
  <2>3. status = 1 => Outcome = "running" /\ Outcome' = "failed"
    BY <2>1 DEF Outcome, ThreadsInv, PackedInv
  <2>4. status \in {0, 1}
    BY DEF ThreadsInv, ThreadsTypeOK
  <2> QED
    BY <2>1, <2>2, <2>3, <2>4 DEF Promised, Call!Fails, Outcome
<1>4. CASE PackFails
  <2>1. mpc = "pack" /\ mpc' = "free" /\ UNCHANGED packed
    BY <1>4 DEF PackFails, memory
  <2> QED
    BY <2>1 DEF Promised, Outcome
<1>5. CASE RunBegins \/ CreateThread \/ CreateTooLate \/ CreateInTime \/ CreateAborts \/ CreateEnds
  <2>1. mpc \notin {"free", "returned"} /\ mpc' # "returned" /\ UNCHANGED packed
    BY <1>5 DEF RunBegins, CreateThread, CreateTooLate, CreateInTime, CreateAborts,
                CreateEnds, memory
  <2> QED
    BY <2>1 DEF Promised, Outcome
<1>6. CASE JoinThread \/ SkipThread \/ JoinFails \/ PassIsLate \/ PassInTime \/ JoinEnds
  <2>1. mpc = "join" /\ mpc' # "returned" /\ UNCHANGED packed
    <3>1. CASE JoinThread \/ SkipThread \/ JoinFails
      BY <3>1 DEF JoinThread, SkipThread, JoinFails, Scanning, memory
    <3>2. CASE PassIsLate \/ PassInTime \/ JoinEnds
      BY <3>2 DEF PassIsLate, PassInTime, PassEnds, JoinEnds, memory
    <3> QED
      BY <1>6, <3>1, <3>2
  <2> QED
    BY <2>1 DEF Promised, Outcome
<1>7. ASSUME NEW t \in Index, MethodRuns(t) \/ ThreadRuns(t) \/ ThreadCancelled(t) PROVE Promised
  <2>1. UNCHANGED <<mpc, status, packed>>
    BY <1>7 DEF MethodRuns, ThreadRuns, MethodAllocates, SetUp, SetUpFails, MethodReturns,
                ThreadExits, ThreadCancelled, mainVars, flags, memory
  <2> QED
    BY <2>1 DEF Promised, Outcome
<1>8. CASE TimeIsOver \/ MasterLeaves \/ UNCHANGED vars
  <2>1. UNCHANGED <<mpc, status, packed>>
    BY <1>8 DEF TimeIsOver, MasterLeaves, vars, mainVars, flags, memory
  <2> QED
    BY <2>1 DEF Promised, Outcome
<1> QED
  BY <1>1, <1>2, <1>3, <1>4, <1>5, <1>6, <1>7, <1>8 DEF Next, MainStep

(* WorkerRun implements its promise: with every kind of failing call and   *)
(* in every interleaving it returns once, and changes worker->result only  *)
(* in a run that returns 0.                                                *)
THEOREM ThreadsImplementCall == Spec => CallSpec
<1>1. Init => Call!CallInit
  BY DEF Init, Call!CallInit
<1>2. Promised => [Call!Succeeds \/ Call!Fails]_<<Outcome, packed>>
  BY DEF Promised
<1>3. ThreadsInv /\ ThreadsInv' /\ [Next]_vars => [Call!Succeeds \/ Call!Fails]_<<Outcome, packed>>
  BY <1>2, StepIsPromised
<1>4. [Call!Succeeds \/ Call!Fails]_<<Outcome, packed>> =>
      [Call!Succeeds \/ Call!Fails]_<<IF mpc = "returned" /\ status = 1 THEN "failed"
               ELSE IF packed # Unpacked THEN "succeeded" ELSE "running", packed>>
  BY DEF Outcome
<1> QED
  BY <1>1, <1>3, <1>4, ThreadsInvHolds, PTL DEF Spec, CallSpec, Call!CallSpec
=============================================================================
