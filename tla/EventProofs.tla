----------------------------- MODULE EventProofs -----------------------------
(***************************************************************************)
(* Proofs about EventPipeline, for all keys, windows, lifetimes, caps and  *)
(* batch sizes and any number of occurrences, failures and restarts.       *)
(***************************************************************************)
EXTENDS EventPipeline, FiniteSetTheorems, TLAPS

-----------------------------------------------------------------------------
(***************************************************************************)
(* The inductive invariant.                                                *)
(***************************************************************************)

\* What happened has an event time; the records from before are of any source.
Occurrence == [of : Sources \cup {CHOOSE e \in Sources : TRUE}, sec : Nat]

OccOK == occ \in Seq(Occurrence)

\* An informer hands over what happened, or what the operator emitted.
InformerOK ==
    /\ live \in [Watched -> 0 .. Len(occ)]
    /\ inbox \subseteq 0 .. Len(occ)

\* A thread never carries what the operator emitted.
Busy == [pc : {"dedup", "persist", "emit"}, n : 1 .. Len(occ)]
AtOK == at \in [Threads -> Busy \cup {Idle}]

\* Only what happened is on record.
RecordsOK == records \subseteq 1 .. Len(occ)

\* MaxRecords records that are not to be deleted are at least as new as n.
Outlived(n) ==
    /\ MaxRecords > 0
    /\ \E K \in SUBSET (records \ doomed) :
           /\ Cardinality(K) = MaxRecords
           /\ \A m \in K : Sec(m) >= Sec(n)

\* What a cleanup has still to delete is on record, and each was chosen for a reason
\* that still holds.
DoomedOK ==
    /\ doomed \subseteq records
    /\ doomed # {} => cleaning = "at work"
    /\ \A n \in doomed : isExpired(n) \/ Outlived(n)

IInv == OccOK /\ InformerOK /\ AtOK /\ RecordsOK /\ DoomedOK

-----------------------------------------------------------------------------
(***************************************************************************)
(* Lemmas about the operators.                                             *)
(***************************************************************************)

\* What happens is added at the end, and what happened before stays what it was.
LEMMA OccursFacts ==
    ASSUME IInv, NEW e \in Sources, Occurs(e)
    PROVE  /\ OccOK'
           /\ Len(occ') = Len(occ) + 1
           /\ \A n \in 1 .. Len(occ) : occ'[n] = occ[n]
<1> DEFINE last == IF occ = << >> THEN 0 ELSE occ[Len(occ)].sec
<1>1. occ \in Seq(Occurrence) /\ Len(occ) \in Nat
  BY DEF IInv, OccOK
<1>2. last \in Nat
  <2>1. CASE occ = << >>
    BY <2>1
  <2>2. CASE occ # << >>
    <3>1. Len(occ) \in 1 .. Len(occ)
      BY <1>1, <2>2
    <3>2. occ[Len(occ)] \in Occurrence
      BY <1>1, <3>1
    <3> QED
      BY <2>2, <3>2 DEF Occurrence
  <2> QED
    BY <2>1, <2>2
<1>3. PICK s \in {last, last + 1} : occ' = Append(occ, [of |-> e, sec |-> s])
  BY DEF Occurs
<1>4. s \in Nat
  BY <1>2, <1>3
<1>5. [of |-> e, sec |-> s] \in Occurrence
  BY <1>4 DEF Occurrence
<1> QED
  BY <1>1, <1>3, <1>5 DEF OccOK

\* The event time of what happened is a number.
LEMMA SecIsNat == ASSUME IInv, NEW n \in 1 .. Len(occ) PROVE Sec(n) \in Nat
<1>1. occ[n] \in Occurrence /\ n # 0
  BY DEF IInv, OccOK
<1> QED
  BY <1>1 DEF Sec, Occurrence

\* There are finitely many records.
LEMMA FiniteRecords == ASSUME IInv PROVE IsFiniteSet(records)
<1>1. Len(occ) \in Nat
  BY DEF IInv, OccOK
<1>2. IsFiniteSet(1 .. Len(occ))
  BY <1>1, FS_Interval
<1> QED
  BY <1>2, FS_Subset DEF IInv, RecordsOK

\* Selecting the surplus leaves MaxRecords records, none of them older than what goes.
LEMMA SurplusFacts ==
    ASSUME IInv, NEW kept \in SUBSET records, NEW surplus \in Surplus(kept)
    PROVE  /\ surplus \subseteq kept
           /\ surplus # {} => /\ MaxRecords > 0
                              /\ Cardinality(kept \ surplus) = MaxRecords
                              /\ \A x \in surplus, y \in kept \ surplus : Sec(x) <= Sec(y)
<1>1. CASE MaxRecords = 0 \/ Cardinality(kept) <= MaxRecords
  BY <1>1 DEF Surplus
<1>2. CASE ~(MaxRecords = 0 \/ Cardinality(kept) <= MaxRecords)
  <2>1. surplus \in Oldest(kept, Cardinality(kept) - MaxRecords)
    BY <1>2 DEF Surplus
  <2>2. /\ surplus \subseteq kept
        /\ Cardinality(surplus) = Cardinality(kept) - MaxRecords
        /\ \A x \in surplus, y \in kept \ surplus : Sec(x) <= Sec(y)
    BY <2>1 DEF Oldest, kSubset
  <2>3. IsFiniteSet(kept) /\ IsFiniteSet(surplus)
    BY <2>2, FiniteRecords, FS_Subset
  <2>4. Cardinality(kept) \in Nat /\ MaxRecords \in Nat
    BY <2>3, FS_CardinalityType, Bounds
  <2>5. kept \cap surplus = surplus
    BY <2>2
  <2>6. Cardinality(kept \ surplus) = Cardinality(kept) - Cardinality(surplus)
    BY <2>3, <2>5, FS_Difference
  <2> QED
    BY <1>2, <2>2, <2>4, <2>6
<1> QED
  BY <1>1, <1>2

-----------------------------------------------------------------------------
(***************************************************************************)
(* Steps that leave parts of the invariant alone.                          *)
(***************************************************************************)

\* The time, the records' event times and the cleanup in progress are as before, and no
\* record is gone.
Undisturbed ==
    /\ \A n \in 1 .. Len(occ) : occ'[n] = occ[n]
    /\ age' = age
    /\ records \subseteq records'
    /\ UNCHANGED cleaner

\* The cleanup in progress survives records that arrive.
LEMMA DoomedFrame == ASSUME IInv, Undisturbed PROVE DoomedOK'
<1>1. \A n \in 1 .. Len(occ) : Sec(n)' = Sec(n)
  BY DEF Undisturbed, Sec
<1>2. /\ records \subseteq 1 .. Len(occ)
      /\ doomed \subseteq records
      /\ doomed # {} => cleaning = "at work"
      /\ \A n \in doomed : isExpired(n) \/ Outlived(n)
  BY DEF IInv, RecordsOK, DoomedOK
<1>3. doomed' = doomed /\ cleaning' = cleaning /\ records \subseteq records'
  BY DEF Undisturbed, cleaner
<1>4. ASSUME NEW n \in doomed
      PROVE  (isExpired(n) \/ Outlived(n))'
  <2>1. CASE isExpired(n)
    <3>1. isExpired(n)'
      BY <2>1 DEF isExpired, Undisturbed
    <3> QED
      BY <3>1
  <2>2. CASE Outlived(n)
    <3>1. PICK K \in SUBSET (records \ doomed) :
              Cardinality(K) = MaxRecords /\ \A m \in K : Sec(m) >= Sec(n)
      BY <2>2 DEF Outlived
    <3>2. \A m \in K : Sec(m)' >= Sec(n)'
      BY <1>1, <1>2, <1>4, <3>1
    <3>3. K \in SUBSET (records' \ doomed')
      BY <1>3
    <3>4. Outlived(n)'
      BY <2>2, <3>1, <3>2, <3>3 DEF Outlived
    <3> QED
      BY <3>4
  <2> QED
    BY <1>2, <1>4, <2>1, <2>2
<1> QED
  BY <1>2, <1>3, <1>4 DEF DoomedOK

\* A thread moves on, or goes back to rest.
LEMMA GotoFacts ==
    ASSUME IInv, NEW t \in Threads, NEW pc \in {"idle", "persist", "emit"},
           at[t] # Idle, Goto(t, pc), UNCHANGED occ
    PROVE  AtOK'
<1>1. at \in [Threads -> Busy \cup {Idle}] /\ at[t] \in Busy
  BY DEF IInv, AtOK
<1>2. at' = [at EXCEPT ![t] = IF pc = "idle" THEN Idle ELSE [at[t] EXCEPT !.pc = pc]]
  BY DEF Goto
<1>3. pc # "idle" => [at[t] EXCEPT !.pc = pc] \in Busy
  BY <1>1 DEF Busy
<1>4. Busy' = Busy
  BY DEF Busy
<1> HIDE DEF Idle, Busy
<1>5. at' \in [Threads -> Busy \cup {Idle}]
  BY <1>1, <1>2, <1>3
<1> QED
  BY <1>4, <1>5 DEF AtOK, Idle

-----------------------------------------------------------------------------
(***************************************************************************)
(* Every step keeps the invariant.                                         *)
(***************************************************************************)

\* The records from before are all there is at first.
LEMMA InitOK == Init => IInv
<1> SUFFICES ASSUME Init PROVE IInv
  OBVIOUS
<1> DEFINE any == CHOOSE e \in Sources : TRUE
<1>1. Legacy \in Nat
  BY Bounds
<1>2. occ = [n \in 1 .. Legacy |-> [of |-> any, sec |-> n]]
  BY DEF Init
<1>3. \A n \in 1 .. Legacy : [of |-> any, sec |-> n] \in Occurrence
  BY DEF Occurrence
<1> HIDE DEF any
<1>4. occ \in Seq(Occurrence) /\ Len(occ) = Legacy
  BY <1>1, <1>2, <1>3
<1>5. live \in [Watched -> 0 .. Len(occ)]
  BY <1>1, <1>4 DEF Init
<1>6. at \in [Threads -> Busy \cup {Idle}]
  BY DEF Init
<1> QED
  BY <1>4, <1>5, <1>6 DEF Init, IInv, OccOK, InformerOK, AtOK, RecordsOK, DoomedOK

\* What the informer lists has happened.
LEMMA ListedFacts == ASSUME IInv PROVE Listed \subseteq 1 .. Len(occ)
<1>1. Len(occ) \in Nat
  BY DEF IInv, OccOK
<1> QED
  BY <1>1 DEF IInv, InformerOK, Listed

\* A Kubernetes Event is new, or counts once more: the occurrence is delivered.
LEMMA EventOccursKeeps == ASSUME IInv, NEW e \in Watched, EventOccurs(e) PROVE IInv'
<1>1. Len(occ) \in Nat
  BY DEF IInv, OccOK
<1>2. e \in Sources /\ Occurs(e)
  BY DEF Sources, EventOccurs
<1>3. /\ OccOK' /\ Len(occ') = Len(occ) + 1
      /\ \A n \in 1 .. Len(occ) : occ'[n] = occ[n]
  BY <1>2, OccursFacts
<1>4. InformerOK'
  <2>1. 0 .. Len(occ) \subseteq 0 .. Len(occ') /\ Len(occ') \in 0 .. Len(occ')
    BY <1>1, <1>3
  <2>2. live' = [live EXCEPT ![e] = Len(occ')] /\ inbox' = inbox \cup {Len(occ')}
    BY DEF EventOccurs
  <2> QED
    BY <2>1, <2>2 DEF IInv, InformerOK
<1>5. Busy \subseteq Busy' /\ at' = at /\ Idle' = Idle
  BY <1>1, <1>3 DEF Busy, EventOccurs
<1>6. AtOK'
  BY <1>5 DEF IInv, AtOK
<1>7. RecordsOK'
  BY <1>1, <1>3 DEF EventOccurs, IInv, RecordsOK
<1>8. DoomedOK'
  BY <1>3, DoomedFrame DEF Undisturbed, EventOccurs
<1> QED
  BY <1>3, <1>4, <1>6, <1>7, <1>8 DEF IInv

\* A signal goes straight to a thread.
LEMMA SignalOccursKeeps == ASSUME IInv, NEW e \in Signals, SignalOccurs(e) PROVE IInv'
<1>1. Len(occ) \in Nat
  BY DEF IInv, OccOK
<1>2. e \in Sources /\ Occurs(e)
  BY DEF Sources, SignalOccurs
<1>3. /\ OccOK' /\ Len(occ') = Len(occ) + 1
      /\ \A n \in 1 .. Len(occ) : occ'[n] = occ[n]
  BY <1>2, OccursFacts
<1>4. InformerOK'
  BY <1>1, <1>3 DEF SignalOccurs, informer, IInv, InformerOK
<1>5. Busy \subseteq Busy' /\ Idle' = Idle
  BY <1>1, <1>3 DEF Busy
<1>6. [pc |-> "dedup", n |-> Len(occ')] \in Busy'
  BY <1>1, <1>3 DEF Busy
<1>7. AtOK'
  BY <1>5, <1>6 DEF IInv, AtOK, SignalOccurs, Threads
<1>8. RecordsOK'
  BY <1>1, <1>3 DEF SignalOccurs, IInv, RecordsOK
<1>9. DoomedOK'
  BY <1>3, DoomedFrame DEF Undisturbed, SignalOccurs
<1> QED
  BY <1>3, <1>4, <1>7, <1>8, <1>9 DEF IInv

\* Steps that only move Events to and from the informer.
LEMMA DeliveryKeeps ==
    ASSUME IInv, \/ \E e \in Watched : EventExpires(e)
                 \/ Resync
                 \/ \E n \in inbox : processEvent(n)
    PROVE  IInv'
<1>1. UNCHANGED <<occ, age, records, cleaner>>
  BY DEF EventExpires, Resync, processEvent
<1>2. Len(occ) \in Nat /\ Listed \subseteq 1 .. Len(occ)
  BY ListedFacts DEF IInv, OccOK
<1>3. OccOK' /\ RecordsOK' /\ Busy' = Busy /\ Idle' = Idle
  BY <1>1 DEF IInv, OccOK, RecordsOK, Busy
<1>4. DoomedOK'
  BY <1>1, DoomedFrame DEF Undisturbed
<1>5. InformerOK'
  <2>1. 0 \in 0 .. Len(occ) /\ Listed \subseteq 0 .. Len(occ) /\ occ' = occ
    BY <1>1, <1>2
  <2>2. live' = live \/ \E e \in Watched : live' = [live EXCEPT ![e] = 0]
    BY DEF EventExpires, Resync, processEvent
  <2>3. inbox' \subseteq inbox \cup Listed
    BY DEF EventExpires, Resync, processEvent
  <2> HIDE DEF Listed
  <2> QED
    BY <2>1, <2>2, <2>3 DEF IInv, InformerOK
<1>6. AtOK'
  <2>1. CASE UNCHANGED at
    BY <1>3, <2>1 DEF IInv, AtOK
  <2>2. CASE ~UNCHANGED at
    <3>1. PICK n \in inbox :
              /\ n # 0
              /\ at' = [at EXCEPT !["watcher"] = [pc |-> "dedup", n |-> n]]
      BY <2>2 DEF EventExpires, Resync, processEvent, Classify, isSelfRecorded
    <3>2. n \in 1 .. Len(occ)
      BY <1>2, <3>1 DEF IInv, InformerOK
    <3>3. [pc |-> "dedup", n |-> n] \in Busy
      BY <3>2 DEF Busy
    <3> QED
      BY <1>3, <3>1, <3>3 DEF IInv, AtOK, Threads
  <2> QED
    BY <2>1, <2>2
<1> QED
  BY <1>3, <1>4, <1>5, <1>6 DEF IInv

\* Time passes, or the process starts again: no cleanup is in progress then.
LEMMA TickKeeps == ASSUME IInv, Tick \/ Restart PROVE IInv'
<1>1. UNCHANGED <<occ, live, records>>
  BY DEF Tick, Restart
<1>2. Listed \subseteq 1 .. Len(occ) /\ Len(occ) \in Nat
  BY ListedFacts DEF IInv, OccOK
<1>3. OccOK' /\ RecordsOK' /\ Busy' = Busy /\ Idle' = Idle
  BY <1>1 DEF IInv, OccOK, RecordsOK, Busy
<1>4. doomed' = {}
  BY DEF Tick, Restart, IInv, DoomedOK
<1>5. InformerOK'
  <2>1. Listed \subseteq 0 .. Len(occ)
    BY <1>2
  <2>2. inbox' \subseteq inbox \cup Listed
    BY DEF Tick, Restart
  <2> HIDE DEF Listed
  <2> QED
    BY <1>1, <2>1, <2>2 DEF IInv, InformerOK
<1>6. AtOK'
  BY <1>3 DEF IInv, AtOK, Tick, Restart
<1> QED
  BY <1>3, <1>4, <1>5, <1>6 DEF IInv, DoomedOK

\* The store of the records: a thread writes only what happened.
LEMMA StepKeeps == ASSUME IInv, NEW t \in Threads, Step(t) PROVE IInv'
<1>1. UNCHANGED <<occ, age, live, cleaner>>
  BY DEF Step, Store, persistCRD, Emit, informer
<1>2. at[t] # Idle
  BY DEF Step, Store, persistCRD, Emit, Idle
<1>3. at[t].n \in 1 .. Len(occ)
  BY <1>2 DEF IInv, AtOK, Busy
<1>4. OccOK' /\ Len(occ) \in Nat
  BY <1>1 DEF IInv, OccOK
<1>5. records \subseteq records' /\ records' \subseteq records \cup {at[t].n}
  BY DEF Step, Store, persistCRD, Emit, Written
<1>6. RecordsOK'
  BY <1>1, <1>3, <1>5 DEF IInv, RecordsOK
<1>7. DoomedOK'
  BY <1>1, <1>5, DoomedFrame DEF Undisturbed
<1>8. InformerOK'
  <2>1. 0 \in 0 .. Len(occ)
    BY <1>4
  <2>2. inbox' \subseteq inbox \cup {0}
    BY DEF Step, Store, persistCRD, Emit, informer
  <2> QED
    BY <1>1, <2>1, <2>2 DEF IInv, InformerOK
<1>9. \E pc \in {"idle", "persist", "emit"} : Goto(t, pc)
  BY DEF Step, Store, persistCRD, Emit
<1>10. AtOK'
  BY <1>1, <1>2, <1>9, GotoFacts
<1> QED
  BY <1>4, <1>6, <1>7, <1>8, <1>10 DEF IInv

\* A cleanup that begins picks the expired, and of the others only what MaxRecords newer
\* ones outlive.
LEMMA CleanupKeeps == ASSUME IInv, cleanup PROVE IInv'
<1>1. UNCHANGED <<occ, age, live, inbox, at, records>> /\ cleaning' = "at work"
  BY DEF cleanup, informer
<1>2. OccOK' /\ InformerOK' /\ AtOK' /\ RecordsOK'
  BY <1>1 DEF IInv, OccOK, InformerOK, AtOK, RecordsOK, Busy
<1> DEFINE expired == {n \in records : isExpired(n)}
           kept == records \ expired
<1>3. PICK surplus \in Surplus(kept) : doomed' \subseteq expired \cup surplus
  <2> DEFINE room == IF Cardinality(expired) < BatchSize
                     THEN BatchSize - Cardinality(expired) ELSE 0
  <2>1. PICK surplus \in Surplus(kept) :
            IF room = 0 THEN doomed' \in kSubset(BatchSize, expired)
            ELSE \E T \in Oldest(surplus, Min({room, Cardinality(surplus)})) :
                     doomed' = expired \cup T
    BY DEF cleanup
  <2> HIDE DEF room, expired, kept
  <2>2. CASE room = 0
    BY <2>1, <2>2 DEF kSubset
  <2>3. CASE room # 0
    <3>1. PICK T \in Oldest(surplus, Min({room, Cardinality(surplus)})) : doomed' = expired \cup T
      BY <2>1, <2>3
    <3>2. T \subseteq surplus
      BY <3>1 DEF Oldest, kSubset
    <3> QED
      BY <2>1, <3>1, <3>2
  <2> QED
    BY <2>2, <2>3
<1>4. kept \in SUBSET records
  OBVIOUS
<1>5. /\ surplus \subseteq kept
      /\ surplus # {} => /\ MaxRecords > 0
                         /\ Cardinality(kept \ surplus) = MaxRecords
                         /\ \A x \in surplus, y \in kept \ surplus : Sec(x) <= Sec(y)
  BY <1>3, <1>4, SurplusFacts
<1>6. doomed' \subseteq records
  BY <1>3, <1>5
<1>7. ASSUME NEW n \in doomed'
      PROVE  (isExpired(n) \/ Outlived(n))'
  <2>1. CASE n \in expired
    <3>1. isExpired(n)'
      BY <1>1, <2>1 DEF isExpired
    <3> QED
      BY <3>1
  <2>2. CASE n \in surplus
    <3> DEFINE K == kept \ surplus
    <3>1. MaxRecords > 0 /\ Cardinality(K) = MaxRecords /\ \A y \in K : Sec(n) <= Sec(y)
      BY <1>5, <2>2
    <3>2. K \in SUBSET (records' \ doomed')
      BY <1>1, <1>3
    <3>3. n \in 1 .. Len(occ) /\ K \subseteq 1 .. Len(occ)
      BY <1>6, <1>7 DEF IInv, RecordsOK
    <3>4. \A m : Sec(m)' = Sec(m)
      BY <1>1 DEF Sec
    <3>5. \A y \in K : Sec(y)' >= Sec(n)'
      BY <3>1, <3>3, <3>4, SecIsNat
    <3> HIDE DEF K
    <3>6. Outlived(n)'
      BY <3>1, <3>2, <3>5 DEF Outlived
    <3> QED
      BY <3>6
  <2> QED
    BY <1>3, <1>7, <2>1, <2>2
<1>8. DoomedOK'
  BY <1>1, <1>6, <1>7 DEF DoomedOK
<1> QED
  BY <1>2, <1>8 DEF IInv

\* A delete, or the end of the cleanup: what outlives the rest is not touched.
LEMMA DeleteKeeps == ASSUME IInv, CleanupEnds \/ \E n \in doomed : Delete(n) PROVE IInv'
<1>1. UNCHANGED <<occ, age, live, inbox, at>>
  BY DEF CleanupEnds, Delete, informer
<1>2. /\ doomed' \subseteq doomed
      /\ records' \subseteq records
      /\ records \ doomed \subseteq records' \ doomed'
      /\ doomed' \subseteq records'
      /\ doomed' # {} => cleaning' = "at work"
  BY DEF CleanupEnds, Delete, IInv, DoomedOK
<1>3. OccOK' /\ InformerOK' /\ AtOK' /\ RecordsOK'
  BY <1>1, <1>2 DEF IInv, OccOK, InformerOK, AtOK, RecordsOK, Busy
<1>4. ASSUME NEW n \in doomed'
      PROVE  (isExpired(n) \/ Outlived(n))'
  <2>1. isExpired(n) \/ Outlived(n)
    BY <1>2, <1>4 DEF IInv, DoomedOK
  <2>2. CASE isExpired(n)
    <3>1. isExpired(n)'
      BY <1>1, <2>2 DEF isExpired
    <3> QED
      BY <3>1
  <2>3. CASE Outlived(n)
    <3>1. PICK K \in SUBSET (records \ doomed) :
              Cardinality(K) = MaxRecords /\ \A m \in K : Sec(m) >= Sec(n)
      BY <2>3 DEF Outlived
    <3>2. \A m : Sec(m)' = Sec(m)
      BY <1>1 DEF Sec
    <3>3. K \in SUBSET (records' \ doomed')
      BY <1>2
    <3>4. Outlived(n)'
      BY <2>3, <3>1, <3>2, <3>3 DEF Outlived
    <3> QED
      BY <3>4
  <2> QED
    BY <2>1, <2>2, <2>3
<1> QED
  BY <1>2, <1>3, <1>4 DEF IInv, DoomedOK

\* Nothing happens to what the invariant speaks of.
LEMMA StutterKeeps == ASSUME IInv, UNCHANGED vars PROVE IInv'
<1>1. UNCHANGED <<occ, age, live, inbox, at, records, cleaning, doomed>>
  BY DEF vars, informer, cleaner
<1>2. DoomedOK'
  BY <1>1, DoomedFrame DEF Undisturbed, cleaner
<1> QED
  BY <1>1, <1>2 DEF IInv, OccOK, InformerOK, AtOK, RecordsOK, Busy

-----------------------------------------------------------------------------
(***************************************************************************)
(* The theorems.                                                           *)
(***************************************************************************)

(***************************************************************************)
(* The invariant holds in every reachable state of the pipeline.           *)
(***************************************************************************)
THEOREM Invariance == Spec => []IInv
<1>1. IInv /\ [Next]_vars => IInv'
  BY EventOccursKeeps, SignalOccursKeeps, DeliveryKeeps, TickKeeps, StepKeeps, CleanupKeeps,
     DeleteKeeps, StutterKeeps DEF Next
<1> QED
  BY <1>1, InitOK, PTL DEF Spec

(***************************************************************************)
(* The operator never keeps a record of an Event it emitted itself, for    *)
(* any keys, windows and number of deliveries (isSelfRecorded).            *)
(***************************************************************************)
THEOREM NoEchoHolds == Spec => []NoEcho
<1>1. IInv => NoEcho
  BY DEF IInv, OccOK, RecordsOK, NoEcho
<1> QED
  BY <1>1, Invariance, PTL

(***************************************************************************)
(* The cap never costs one of the newest MaxRecords records, for any cap,  *)
(* batch size and backlog and any order of arrivals, deletes and failures  *)
(* (selectForDeletion, cleanup).                                           *)
(***************************************************************************)
THEOREM CapKeeps == Spec => CapKeepsNewest
<1> DEFINE AtLeastAsNew(n) == {m \in records \ {n} : Sec(m) >= Sec(n)}
<1>1. ASSUME IInv, Next, NEW n \in records \ records'
      PROVE  isExpired(n) \/ (MaxRecords > 0 /\ Cardinality(AtLeastAsNew(n)) >= MaxRecords)
  <2>1. n \in doomed
    BY <1>1 DEF Next, EventOccurs, EventExpires, SignalOccurs, Resync, Tick, Restart,
       processEvent, Step, Store, persistCRD, Written, Emit, cleanup, CleanupEnds, Delete
  <2>2. isExpired(n) \/ Outlived(n)
    BY <1>1, <2>1 DEF IInv, DoomedOK
  <2>3. CASE Outlived(n)
    <3>1. PICK K \in SUBSET (records \ doomed) :
              Cardinality(K) = MaxRecords /\ \A m \in K : Sec(m) >= Sec(n)
      BY <2>3 DEF Outlived
    <3>2. K \in SUBSET AtLeastAsNew(n)
      BY <2>1, <3>1
    <3>3. AtLeastAsNew(n) \in SUBSET records
      OBVIOUS
    <3> HIDE DEF AtLeastAsNew
    <3>4. IsFiniteSet(AtLeastAsNew(n))
      BY <1>1, <3>3, FiniteRecords, FS_Subset
    <3>5. Cardinality(K) <= Cardinality(AtLeastAsNew(n))
      BY <3>2, <3>4, FS_Subset
    <3> QED
      BY <2>3, <3>1, <3>5 DEF Outlived
  <2> QED
    BY <2>2, <2>3
<1>2. ASSUME IInv, [Next]_vars
      PROVE  [\A n \in records \ records' :
                 \/ isExpired(n)
                 \/ /\ MaxRecords > 0
                    /\ Cardinality({m \in records \ {n} : Sec(m) >= Sec(n)}) >= MaxRecords]_vars
  <2>1. CASE Next
    BY <1>1, <1>2, <2>1
  <2>2. CASE UNCHANGED vars
    BY <2>2
  <2> QED
    BY <1>2, <2>1, <2>2
<1> QED
  BY <1>2, Invariance, PTL DEF Spec, CapKeepsNewest
=============================================================================
