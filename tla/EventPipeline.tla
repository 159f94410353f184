---------------------------- MODULE EventPipeline ----------------------------
(***************************************************************************)
(* How things that happen in the cluster become DorguEvents, and how those *)
(* go away again (internal/events).  The watcher takes Kubernetes Events   *)
(* from an informer, which delivers each of them again at every resync,    *)
(* and the health-check reconciler reports signals of its own; both go     *)
(* through one store, which keeps a window of keys it has seen, and both   *)
(* emit a Kubernetes Event, which comes back to the watcher.  The cleaner  *)
(* prunes records by age and by number.                                    *)
(*                                                                         *)
(* An occurrence is something that happened: a number into occ.  Number 0  *)
(* stands for the Events that the operator emits.  Several Events can have *)
(* one dedup key, and one subject in the names of their records: neither   *)
(* holds the message or the UID.  Time is counted in ticks since, so that  *)
(* no clock runs out.                                                      *)
(***************************************************************************)
EXTENDS Naturals, Sequences, FiniteSets, FiniteSetsExt

CONSTANTS Watched,        \* Kubernetes Events
          Signals,        \* what the reconciler reports
          DedupKey,       \* of each: source, namespace, name, category and reason
          Subject,        \* of each: namespace, kind, name, category and reason
          Legacy,         \* number of records from an operator that set no TTL
          DedupWindow, ResyncPeriod, StartupWindow,
          EventLife,      \* how long the API server keeps a Kubernetes Event
          TTL,            \* stamped on every record (the retention flag)
          Retention,      \* for records without one
          MaxRecords,     \* 0: no cap
          BatchSize,
          MaxOcc,         \* bound: occurrences
          MaxFaults       \* bound: failed requests, and restarts

ASSUME WindowFitsResync == DedupWindow \in Nat /\ ResyncPeriod \in Nat /\ DedupWindow <= ResyncPeriod
ASSUME LifeTimes == EventLife \in Nat /\ TTL \in Nat /\ Retention \in Nat /\ StartupWindow \in Nat
ASSUME Bounds == MaxRecords \in Nat /\ BatchSize \in Nat \ {0} /\ Legacy \in Nat
                 /\ MaxOcc \in Nat /\ MaxFaults \in Nat

Sources == Watched \cup Signals

ASSUME KeyAssumption == DOMAIN DedupKey = Sources /\ DOMAIN Subject = Sources

VARIABLES
    occ,        \* what happened: a sequence of [of, sec], sec being the event time
    age,        \* of each occurrence
    live,       \* the latest occurrence of each Kubernetes Event, 0: there is no such Event
    inbox,      \* delivered to the watcher and not yet handled
    old,        \* occurrences before the startup window of this process
    seen,       \* dedupMap: time since each key was marked, DedupWindow: not marked or expired
    at,         \* the watcher and the reconciler: where each is, and with which occurrence
    records,    \* the DorguEvents, by occurrence
    cleaning, doomed,   \* cleanup: "due", "at work" or "done" for now; what it has still to delete
    sinceSync,  \* time since the last resync
    faults,
    stored      \* history: every occurrence that was ever recorded

informer == <<live, inbox, old, sinceSync>>
cleaner == <<cleaning, doomed>>
vars == <<occ, age, informer, seen, at, records, cleaner, faults, stored>>

Threads == {"watcher", "reconciler"}
Self == "self"
Keys == {DedupKey[e] : e \in Sources}
Occurrences == 1 .. MaxOcc
Idle == [pc |-> "idle", n |-> 0]
MaxAge == Max({TTL, Retention, EventLife, StartupWindow}) + 1

KeyOf(n) == IF n = 0 THEN Self ELSE DedupKey[occ[n].of]
Past == DOMAIN occ

\* The first Legacy occurrences are records from before, about Events long gone.
Init ==
    /\ occ = [n \in 1 .. Legacy |-> [of |-> CHOOSE e \in Sources : TRUE, sec |-> n]]
    /\ age = [n \in Occurrences |-> 0]
    /\ live = [e \in Watched |-> 0]
    /\ inbox = {}
    /\ old = 1 .. Legacy
    /\ seen = [k \in Keys \cup {Self} |-> DedupWindow]
    /\ at = [t \in Threads |-> Idle]
    /\ records = 1 .. Legacy
    /\ cleaning = "due"
    /\ doomed = {}
    /\ sinceSync = 0
    /\ faults = 0
    /\ stored = 1 .. Legacy

Fault ==
    /\ faults < MaxFaults
    /\ faults' = faults + 1

-----------------------------------------------------------------------------
(***************************************************************************)
(* The cluster.  Event times have the granularity of a second, in which    *)
(* several things can happen.                                              *)
(***************************************************************************)
Occurs(e) ==
    /\ Len(occ) < MaxOcc
    /\ LET last == IF occ = << >> THEN 0 ELSE occ[Len(occ)].sec
       IN  \E s \in {last, last + 1} :
               /\ \A n \in Past : occ[n] # [of |-> e, sec |-> s]
               /\ occ' = Append(occ, [of |-> e, sec |-> s])

\* A new Event, or another occurrence counted in the one there is.
EventOccurs(e) ==
    /\ Occurs(e)
    /\ live' = [live EXCEPT ![e] = Len(occ')]
    /\ inbox' = inbox \cup {Len(occ')}
    /\ UNCHANGED <<age, old, sinceSync, seen, at, records, cleaner, faults, stored>>

\* storeSignalEvents and reportDiscardedDiagnosis: reported once, by a thread.
SignalOccurs(e) ==
    /\ at["reconciler"] = Idle
    /\ Occurs(e)
    /\ at' = [at EXCEPT !["reconciler"] = [pc |-> "dedup", n |-> Len(occ')]]
    /\ UNCHANGED <<age, informer, seen, records, cleaner, faults, stored>>

EventExpires(e) ==
    /\ live[e] # 0
    /\ age[live[e]] >= EventLife
    /\ live' = [live EXCEPT ![e] = 0]
    /\ UNCHANGED <<occ, age, inbox, old, sinceSync, seen, at, records, cleaner, faults, stored>>

Listed == {live[e] : e \in Watched} \ {0}

Resync ==
    /\ sinceSync = ResyncPeriod
    /\ sinceSync' = 0
    /\ inbox' = inbox \cup Listed
    /\ UNCHANGED <<occ, age, live, old, seen, at, records, cleaner, faults, stored>>

Older(t, limit) == IF t < limit THEN t + 1 ELSE t

\* A tick is minutes: what was delivered is handled, and a cleanup over, before the next.
Tick ==
    /\ inbox = {} /\ \A t \in Threads : at[t] = Idle
    /\ cleaning # "at work"
    /\ cleaning' = "due"
    /\ age' = [n \in Occurrences |-> IF n \in Past THEN Older(age[n], MaxAge) ELSE 0]
    /\ seen' = [k \in DOMAIN seen |-> Older(seen[k], DedupWindow)]
    /\ sinceSync' = Older(sinceSync, ResyncPeriod)
    /\ <<age, seen, sinceSync, cleaning>>' # <<age, seen, sinceSync, cleaning>>
    /\ UNCHANGED <<occ, live, inbox, old, at, records, doomed, faults, stored>>

\* A new process: it has seen nothing, and lists every Event there is.
Restart ==
    /\ Fault
    /\ seen' = [k \in DOMAIN seen |-> DedupWindow]
    /\ at' = [t \in Threads |-> Idle]
    /\ inbox' = Listed
    /\ old' = {n \in Past : age[n] > StartupWindow}
    /\ sinceSync' = 0
    /\ cleaning' = "due"
    /\ doomed' = {}
    /\ UNCHANGED <<occ, age, live, records, stored>>

-----------------------------------------------------------------------------
(***************************************************************************)
(* processEvent: classify, correlate, store, emit.                         *)
(***************************************************************************)
\* Mutant: the window is measured from now, not from the start of the process.
isOldEvent_Now(n) == n # 0 /\ age[n] > StartupWindow

isOldEvent(n) == n \in old

\* Mutant: an Event the operator recorded is taken for one of the cluster's.
isSelfRecorded_Never(n) == FALSE

isSelfRecorded(n) == n = 0

\* Watched are Events that a rule matches or that are warnings.
Classify(n) == ~isSelfRecorded(n)

processEvent(n) ==
    /\ at["watcher"] = Idle
    /\ n \in inbox
    /\ inbox' = inbox \ {n}
    /\ at' = IF isOldEvent(n) \/ ~Classify(n) THEN at
             ELSE [at EXCEPT !["watcher"] = [pc |-> "dedup", n |-> n]]
    /\ UNCHANGED <<occ, age, live, old, sinceSync, seen, records, cleaner, faults, stored>>

Goto(t, pc) == at' = [at EXCEPT ![t] = IF pc = "idle" THEN Idle ELSE [@ EXCEPT !.pc = pc]]

\* Within the window, a key is a duplicate; otherwise it is marked, before anything
\* is written.
checkAndMarkSeen(k) == seen[k] < DedupWindow

Store(t) ==
    /\ at[t].pc = "dedup"
    /\ LET k == KeyOf(at[t].n)
       IN  IF checkAndMarkSeen(k)
           THEN Goto(t, "emit") /\ UNCHANGED seen
           ELSE Goto(t, "persist") /\ seen' = [seen EXCEPT ![k] = 0]
    /\ UNCHANGED <<occ, age, informer, records, cleaner, faults, stored>>

\* generateCRDName: the object, the category, the reason and the event time.
SameName(m, n) ==
    \/ m = n
    \/ m # 0 /\ n # 0 /\ Subject[occ[m].of] = Subject[occ[n].of] /\ occ[m].sec = occ[n].sec

Written(n) == IF \E m \in records : SameName(m, n) THEN records ELSE records \cup {n}

\* AlreadyExists is success.  A failed write may have been stored all the same; the
\* watcher gives up before it emits, the reconciler goes on.
persistCRD(t) ==
    /\ at[t].pc = "persist"
    /\ \/ records' = Written(at[t].n) /\ Goto(t, "emit") /\ UNCHANGED faults
       \/ /\ Fault
          /\ records' \in {records, Written(at[t].n)}
          /\ Goto(t, IF t = "watcher" THEN "idle" ELSE "emit")
    /\ stored' = stored \cup records'
    /\ UNCHANGED <<occ, age, informer, seen, cleaner>>

\* A duplicate is emitted too.  The recorder may drop what it is given.
Emit(t) ==
    /\ at[t].pc = "emit"
    /\ Goto(t, "idle")
    /\ inbox' \in {inbox, inbox \cup {0}}
    /\ UNCHANGED <<occ, age, live, old, sinceSync, seen, records, cleaner, faults, stored>>

-----------------------------------------------------------------------------
(***************************************************************************)
(* The cleaner: at the start, and then every interval, which is no shorter  *)
(* than a tick.                                                            *)
(***************************************************************************)
\* Mutant: only the retention of the operator counts, and it is off for old records.
isExpired_StampedOnly(n) == n > Legacy /\ age[n] > TTL

\* A record's own TTL wins.
isExpired(n) == age[n] > IF n <= Legacy THEN Retention ELSE TTL

\* Every way to choose the m oldest of S: the sort is not stable.
Sec(n) == IF n = 0 THEN 0 ELSE occ[n].sec
Oldest(S, m) == {T \in kSubset(m, S) : \A x \in T, y \in S \ T : Sec(x) <= Sec(y)}

\* Mutant: the newest go.
Surplus_Newest(kept) ==
    IF MaxRecords = 0 \/ Cardinality(kept) <= MaxRecords THEN {{}}
    ELSE {kept \ T : T \in Oldest(kept, MaxRecords)}

\* The survivors over the cap.
Surplus(kept) ==
    IF MaxRecords = 0 \/ Cardinality(kept) <= MaxRecords THEN {{}}
    ELSE Oldest(kept, Cardinality(kept) - MaxRecords)

\* selectForDeletion, and the batch: the expired first.
cleanup ==
    /\ cleaning = "due"
    /\ cleaning' = "at work"
    /\ LET expired == {n \in records : isExpired(n)}
           room == IF Cardinality(expired) < BatchSize THEN BatchSize - Cardinality(expired) ELSE 0
       IN  \E surplus \in Surplus(records \ expired) :
               IF room = 0 THEN doomed' \in kSubset(BatchSize, expired)
               ELSE \E T \in Oldest(surplus, Min({room, Cardinality(surplus)})) :
                        doomed' = expired \cup T
    /\ UNCHANGED <<occ, age, informer, seen, at, records, faults, stored>>

\* A failed delete is logged, and left for the next cycle.
Delete(n) ==
    /\ n \in doomed
    /\ doomed' = doomed \ {n}
    /\ \/ records' = records \ {n} /\ UNCHANGED faults
       \/ Fault /\ UNCHANGED records
    /\ UNCHANGED <<occ, age, informer, seen, at, cleaning, stored>>

CleanupEnds ==
    /\ cleaning = "at work"
    /\ doomed = {}
    /\ cleaning' = "done"
    /\ UNCHANGED <<occ, age, informer, seen, at, records, doomed, faults, stored>>

-----------------------------------------------------------------------------
Step(t) == Store(t) \/ persistCRD(t) \/ Emit(t)

Next ==
    \/ \E e \in Watched : EventOccurs(e) \/ EventExpires(e)
    \/ \E e \in Signals : SignalOccurs(e)
    \/ Resync \/ Tick \/ Restart
    \/ \E n \in inbox : processEvent(n)
    \/ \E t \in Threads : Step(t)
    \/ cleanup \/ CleanupEnds
    \/ \E n \in doomed : Delete(n)

(***************************************************************************)
(* Time passes, the informer resyncs, and the goroutines run; nothing need *)
(* happen, expire, fail or restart.                                        *)
(***************************************************************************)
Fairness ==
    /\ WF_vars(Tick) /\ WF_vars(Resync)
    /\ WF_vars(\E n \in inbox : processEvent(n)) /\ WF_vars(\E n \in doomed : Delete(n))
    /\ \A t \in Threads : WF_vars(Step(t))
    /\ WF_vars(cleanup \/ CleanupEnds)

Spec == Init /\ [][Next]_vars /\ Fairness

-----------------------------------------------------------------------------
\* There was a record under the name that an occurrence gets.
OnRecord(n) == \E m \in stored : SameName(m, n)

(***************************************************************************)
(* What stays in the cluster gets on record: of an Event that lasts, and   *)
(* that this process does not take for history, it or another Event of its *)
(* dedup key that is still there is recorded in the end, though the first  *)
(* write may fail, the key may be marked as seen by that very failure or   *)
(* for another Event, further occurrences may come in between, and the     *)
(* operator may restart.  It rests on the window being no longer than the  *)
(* resync period (checkAndMarkSeen, persistCRD, the informer's resync).    *)
(* Of two Events of one key the store may forever take the same one.       *)
(***************************************************************************)
LastingEventIsRecorded ==
    \A n \in Occurrences :
        (n \in Listed \ old) ~>
            \/ n \notin Listed \ old
            \/ \E m \in Listed \ old : KeyOf(m) = KeyOf(n) /\ OnRecord(m)

(***************************************************************************)
(* The operator keeps no record of its own announcements, although it      *)
(* emits one for every delivery, duplicates too, and the informer hands    *)
(* each back (isSelfRecorded).                                             *)
(***************************************************************************)
NoEcho == 0 \notin records

(***************************************************************************)
(* The cap never costs one of the newest MaxRecords: a record that is not  *)
(* expired is deleted only while that many others, at least as new, are    *)
(* stored, also when records arrive, deletes fail or the process stops     *)
(* between the list and the delete (selectForDeletion, cleanup).           *)
(***************************************************************************)
CapKeepsNewest ==
    [][\A n \in records \ records' :
          \/ isExpired(n)
          \/ /\ MaxRecords > 0
             /\ Cardinality({m \in records \ {n} : Sec(m) >= Sec(n)}) >= MaxRecords]_vars

(***************************************************************************)
(* Retention empties the store once the Events are gone: batches smaller   *)
(* than the backlog, failed deletes, records without a TTL of their own    *)
(* and Events that a resync delivered once more do not keep a record for   *)
(* ever (isExpired, cleanup).                                              *)
(***************************************************************************)
RetentionDrains == <>[](Listed = {}) => <>[](records = {})
=============================================================================
