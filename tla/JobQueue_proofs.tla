--------------------------- MODULE JobQueue_proofs ---------------------------
(***************************************************************************)
(* For any finite set of threads, any capacity and any assignment of        *)
(* methods to threads: the type invariant, the absence of lost wakeups and  *)
(* the refinement of the bounded FIFO buffer.                               *)
(*                                                                         *)
(* For any set of controllers and whatever they call: the flags of a Thread. *)
(* OneOwner is not used.                                                    *)
(***************************************************************************)
EXTENDS Threading, FiniteSetTheorems, TLAPS

(* The sets of threads awake in a method are finite. *)
LEMMA AwakeFinite ==
    /\ IsFiniteSet(InPush) /\ Cardinality(InPush) \in Nat
    /\ IsFiniteSet(InPop) /\ Cardinality(InPop) \in Nat
<1>1. InPush \subseteq Threads /\ InPop \subseteq Threads
  BY DEF InPush, InPop
<1>2. IsFiniteSet(InPush) /\ IsFiniteSet(InPop)
  BY <1>1, ThreadsAssumption, FS_Subset
<1> QED
  BY <1>2, FS_CardinalityType

(* notify_one leaves a subset, and one sleeper less if there was one. *)
LEMMA WokenSubset ==
    ASSUME NEW W, NEW V \in Woken(W)
    PROVE  V \subseteq W /\ (W # {} => \E w \in W : V = W \ {w})
  BY DEF Woken

(* A larger finite set has no smaller cardinality. *)
LEMMA CardinalityGrows ==
    ASSUME NEW S, NEW U, IsFiniteSet(U), S \subseteq U
    PROVE  Cardinality(S) <= Cardinality(U)
  BY FS_Subset

(* Removing one thread costs at most one. *)
LEMMA CardinalityRemove ==
    ASSUME NEW S, IsFiniteSet(S), NEW x
    PROVE  IsFiniteSet(S \ {x}) /\ Cardinality(S) <= Cardinality(S \ {x}) + 1
<1>1. Cardinality(S) \in Nat
  BY FS_CardinalityType
<1>2. /\ IsFiniteSet(S \ {x})
      /\ Cardinality(S \ {x}) = IF x \in S THEN Cardinality(S) - 1 ELSE Cardinality(S)
  BY FS_RemoveElement
<1> QED
  BY <1>1, <1>2

(* The typing of asleep as three sets. *)
LEMMA AsleepType ==
    ASSUME TypeOK
    PROVE  /\ asleep["push"] \subseteq Threads
           /\ asleep["pop"] \subseteq Threads
           /\ asleep["empty"] \subseteq Threads
  BY DEF TypeOK, Conditions

LEMMA InitInv == Init => IInv
<1> SUFFICES ASSUME Init PROVE IInv
  OBVIOUS
<1>1. TypeOK
  <2>1. jobs \in Seq(Nat) /\ Len(jobs) = 0
    BY DEF Init
  <2>2. asleep \in [Conditions -> SUBSET Threads]
    BY DEF Init
  <2>3. pc \in [Threads -> Locations]
    BY DEF Init, Locations
  <2>4. stop \in BOOLEAN /\ accepted \in Nat /\ last \in Nat
    BY DEF Init
  <2> QED
    BY <2>1, <2>2, <2>3, <2>4, MaxJobsAssumption DEF TypeOK
<1>2. SleepersWait /\ StopSet /\ NoLostWakeup /\ Consecutive
  BY DEF Init, SleepersWait, StopSet, NoLostWakeup, PopWakeup, PushWakeup,
         EmptyWakeup, StopWakeup, Consecutive, Conditions
<1> QED
  BY <1>1, <1>2 DEF IInv

(* Type correctness is inductive by itself. *)
LEMMA TypeInductive == TypeOK /\ [Next]_vars => TypeOK'
<1> SUFFICES ASSUME TypeOK, [Next]_vars PROVE TypeOK'
  OBVIOUS
<1> USE MaxJobsAssumption DEF TypeOK, Conditions, Locations, Goto
<1>1. ASSUME NEW t \in Threads, Call(t) PROVE TypeOK'
  BY <1>1 DEF Call
<1>2. ASSUME NEW t \in Threads, PushBlocks(t) PROVE TypeOK'
  BY <1>2 DEF PushBlocks, Sleep
<1>3. ASSUME NEW t \in Threads, PushSucceeds(t) PROVE TypeOK'
  <2>1. asleep' \in [Conditions -> SUBSET Threads]
    BY <1>3, WokenSubset DEF PushSucceeds, NotifyPush
  <2>2. jobs' \in Seq(Nat) /\ Len(jobs') <= MaxJobs
    BY <1>3 DEF PushSucceeds, Full
  <2> QED
    BY <1>3, <2>1, <2>2 DEF PushSucceeds
<1>4. ASSUME NEW t \in Threads, PushFails(t) PROVE TypeOK'
  BY <1>4 DEF PushFails
<1>5. ASSUME NEW t \in Threads, PopBlocks(t) PROVE TypeOK'
  BY <1>5 DEF PopBlocks, Sleep
<1>6. ASSUME NEW t \in Threads, PopSucceeds(t) PROVE TypeOK'
  <2>1. asleep' \in [Conditions -> SUBSET Threads]
    <3>1. PICK w \in Woken(asleep["pop"]) :
             asleep' = [asleep EXCEPT
                           !["pop"] = w,
                           !["empty"] = IF Tail(jobs) = <<>> THEN {} ELSE @]
      BY <1>6 DEF PopSucceeds, NotifyPop
    <3>2. w \in SUBSET Threads
      BY WokenSubset
    <3>3. asleep["empty"] \in SUBSET Threads
      OBVIOUS
    <3> QED
      BY <3>1, <3>2, <3>3
  <2>2. jobs' \in Seq(Nat) /\ Len(jobs') <= MaxJobs /\ last' \in Nat
    <3>1. jobs # <<>> /\ jobs' = Tail(jobs) /\ last' = jobs[1]
      BY <1>6 DEF PopSucceeds, Taken
    <3>2. Len(jobs) >= 1 /\ jobs[1] \in Nat
      BY <3>1
    <3>3. Tail(jobs) \in Seq(Nat) /\ Len(Tail(jobs)) = Len(jobs) - 1
      BY <3>1, <3>2
    <3> QED
      BY <3>1, <3>2, <3>3
  <2>3. pc' \in [Threads -> Locations] /\ stop' \in BOOLEAN /\ accepted' \in Nat
    BY <1>6 DEF PopSucceeds
  <2> QED
    BY <2>1, <2>2, <2>3
<1>7. ASSUME NEW t \in Threads, PopFails(t) PROVE TypeOK'
  BY <1>7 DEF PopFails
<1>8. ASSUME NEW t \in Threads, WaitBlocks(t) \/ WaitReturns(t) PROVE TypeOK'
  BY <1>8 DEF WaitBlocks, WaitReturns, Sleep
<1>9. ASSUME NEW t \in Threads, Stop(t) \/ StopNotifies(t) PROVE TypeOK'
  <2>1. CASE Stop(t)
    BY <2>1 DEF Stop
  <2>2. CASE StopNotifies(t)
    <3>1. \A c \in {"push", "pop"} : [asleep EXCEPT ![c] = {}] \in [Conditions -> SUBSET Threads]
      OBVIOUS
    <3>2. asleep' \in [Conditions -> SUBSET Threads]
      BY <2>2, <3>1 DEF StopNotifies, NotifyAll
    <3>3. pc' \in [Threads -> Locations]
      BY <2>2 DEF StopNotifies
    <3> QED
      BY <2>2, <3>2, <3>3 DEF StopNotifies
  <2> QED
    BY <1>9, <2>1, <2>2
<1>10. ASSUME NEW t \in Threads, DisciplinedClear(t) PROVE TypeOK'
  BY <1>10 DEF DisciplinedClear, Clear
<1>11. ASSUME NEW t \in Threads, SpuriousWakeup(t) PROVE TypeOK'
  BY <1>11 DEF SpuriousWakeup
<1>12. CASE UNCHANGED vars
  BY <1>12 DEF vars
<1> QED
  BY <1>1, <1>2, <1>3, <1>4, <1>5, <1>6, <1>7, <1>8, <1>9, <1>10, <1>11, <1>12
  DEF Next, Proceed

-----------------------------------------------------------------------------
(* What the two actions that notify one thread do, in terms of the sets of   *)
(* sleeping and awake threads.                                               *)
LEMMA PushEffect ==
    ASSUME IInv, NEW t \in Threads, PushSucceeds(t)
    PROVE  /\ jobs' \in Seq(Nat) /\ Len(jobs') = Len(jobs) + 1
           /\ asleep'["push"] \subseteq asleep["push"]
           /\ asleep["push"] # {} =>
                 \E w \in asleep["push"] : asleep'["push"] = asleep["push"] \ {w}
           /\ asleep'["pop"] = asleep["pop"] /\ asleep'["empty"] = asleep["empty"]
           /\ pc' = [pc EXCEPT ![t] = "idle"] /\ pc[t] = "push"
           /\ t \notin asleep["pop"]
           /\ ~stop /\ stop' = stop
<1>1. jobs \in Seq(Nat) /\ accepted \in Nat /\ jobs' = Append(jobs, accepted + 1)
  BY DEF IInv, TypeOK, PushSucceeds
<1>2. jobs' \in Seq(Nat) /\ Len(jobs') = Len(jobs) + 1
  BY <1>1
<1>3. PICK w \in Woken(asleep["push"]) : asleep' = [asleep EXCEPT !["push"] = w]
  BY DEF PushSucceeds, NotifyPush
<1>4. /\ asleep'["push"] = w
      /\ asleep'["pop"] = asleep["pop"]
      /\ asleep'["empty"] = asleep["empty"]
  BY <1>3 DEF IInv, TypeOK, Conditions
<1>5. t \notin asleep["pop"]
  BY DEF PushSucceeds, Awake, Conditions
<1> QED
  BY <1>2, <1>4, <1>5, WokenSubset DEF PushSucceeds, Goto

LEMMA PopEffect ==
    ASSUME IInv, NEW t \in Threads, PopSucceeds(t)
    PROVE  /\ jobs # <<>> /\ jobs' = Tail(jobs) /\ last' = jobs[1]
           /\ jobs' \in Seq(Nat) /\ Len(jobs) >= 1 /\ Len(jobs') = Len(jobs) - 1
           /\ \A i \in 1 .. Len(jobs') : jobs'[i] = jobs[i + 1]
           /\ asleep'["pop"] \subseteq asleep["pop"]
           /\ asleep["pop"] # {} =>
                 \E w \in asleep["pop"] : asleep'["pop"] = asleep["pop"] \ {w}
           /\ asleep'["push"] = asleep["push"]
           /\ asleep'["empty"] \subseteq asleep["empty"]
           /\ jobs' = <<>> => asleep'["empty"] = {}
           /\ pc' = [pc EXCEPT ![t] = "idle"] /\ pc[t] = "pop"
           /\ t \notin asleep["push"]
           /\ ~stop /\ stop' = stop
<1>1. jobs \in Seq(Nat) /\ jobs # <<>> /\ jobs' = Tail(jobs) /\ last' = jobs[1]
  BY DEF IInv, TypeOK, PopSucceeds, Taken
<1>2. Len(jobs) >= 1
  BY <1>1
<1>3. jobs' \in Seq(Nat) /\ Len(jobs') = Len(jobs) - 1
  BY <1>1, <1>2
<1>4. \A i \in 1 .. Len(jobs') : jobs'[i] = jobs[i + 1]
  BY <1>1, <1>3
<1>5. PICK w \in Woken(asleep["pop"]) :
         asleep' = [asleep EXCEPT
                       !["pop"] = w,
                       !["empty"] = IF Tail(jobs) = <<>> THEN {} ELSE @]
  BY DEF PopSucceeds, NotifyPop
<1>6. /\ asleep'["pop"] = w
      /\ asleep'["push"] = asleep["push"]
      /\ asleep'["empty"] = IF Tail(jobs) = <<>> THEN {} ELSE asleep["empty"]
  BY <1>5 DEF IInv, TypeOK, Conditions
<1>7. t \notin asleep["push"]
  BY DEF PopSucceeds, Awake, Conditions
<1>8. pc' = [pc EXCEPT ![t] = "idle"] /\ pc[t] = "pop" /\ ~stop /\ stop' = stop
  BY DEF PopSucceeds, Goto
<1>9. w \subseteq asleep["pop"]
      /\ (asleep["pop"] # {} => \E v \in asleep["pop"] : w = asleep["pop"] \ {v})
  BY WokenSubset
<1> QED
  BY <1>1, <1>2, <1>3, <1>4, <1>6, <1>7, <1>8, <1>9

-----------------------------------------------------------------------------
(* The counts of awake threads survive a step that leaves the jobs alone and *)
(* neither puts a thread to sleep nor takes one out of the method.           *)
LEMMA PopWakeupKept ==
    ASSUME TypeOK, PopWakeup, jobs' = jobs, stop' = stop,
           asleep'["push"] \subseteq asleep["push"], InPop \subseteq InPop'
    PROVE  PopWakeup'
<1>1. InPop' \subseteq Threads
  BY DEF InPop
<1>2. IsFiniteSet(InPop') /\ Cardinality(InPop') \in Nat
  BY <1>1, ThreadsAssumption, FS_Subset, FS_CardinalityType
<1>3. Cardinality(InPop) <= Cardinality(InPop')
  BY <1>2, CardinalityGrows
<1>4. Len(jobs) \in Nat /\ Cardinality(InPop) \in Nat
  BY AwakeFinite DEF TypeOK
<1> QED
  BY <1>2, <1>3, <1>4 DEF PopWakeup

LEMMA PushWakeupKept ==
    ASSUME TypeOK, PushWakeup, jobs' = jobs, stop' = stop,
           asleep'["pop"] \subseteq asleep["pop"], InPush \subseteq InPush'
    PROVE  PushWakeup'
<1>1. InPush' \subseteq Threads
  BY DEF InPush
<1>2. IsFiniteSet(InPush') /\ Cardinality(InPush') \in Nat
  BY <1>1, ThreadsAssumption, FS_Subset, FS_CardinalityType
<1>3. Cardinality(InPush) <= Cardinality(InPush')
  BY <1>2, CardinalityGrows
<1>4. Len(jobs) \in Nat /\ Cardinality(InPush) \in Nat /\ MaxJobs \in Nat
  BY AwakeFinite, MaxJobsAssumption DEF TypeOK
<1> QED
  BY <1>2, <1>3, <1>4 DEF PushWakeup

(* Where the threads are: the part of the invariant that counts nothing. *)
Places == SleepersWait /\ StopSet /\ StopWakeup

LEMMA PlacesInductive == IInv /\ [Next]_vars => Places'
<1> SUFFICES ASSUME IInv, [Next]_vars PROVE Places'
  OBVIOUS
<1>1. TypeOK /\ Places
  BY DEF IInv, NoLostWakeup, Places
<1> USE <1>1 DEF Places, SleepersWait, StopSet, StopWakeup, TypeOK, Conditions,
        Locations, Goto, Awake
<1>2. ASSUME NEW t \in Threads, Call(t) PROVE Places'
  BY <1>2 DEF Call
<1>3. ASSUME NEW t \in Threads, PushBlocks(t) \/ PopBlocks(t) \/ WaitBlocks(t)
      PROVE Places'
  BY <1>3 DEF PushBlocks, PopBlocks, WaitBlocks, Sleep
<1>4. ASSUME NEW t \in Threads, PushSucceeds(t) PROVE Places'
  BY <1>4, PushEffect
<1>5. ASSUME NEW t \in Threads, PopSucceeds(t) PROVE Places'
  BY <1>5, PopEffect
<1>6. ASSUME NEW t \in Threads, PushFails(t) \/ PopFails(t) \/ WaitReturns(t)
      PROVE Places'
  BY <1>6 DEF PushFails, PopFails, WaitReturns
<1>7. ASSUME NEW t \in Threads, Stop(t) PROVE Places'
  BY <1>7 DEF Stop
<1>8. ASSUME NEW t \in Threads, StopNotifies(t) PROVE Places'
  BY <1>8 DEF StopNotifies, NotifyAll
<1>9. ASSUME NEW t \in Threads, DisciplinedClear(t) PROVE Places'
  BY <1>9 DEF DisciplinedClear, Clear
<1>10. ASSUME NEW t \in Threads, SpuriousWakeup(t) PROVE Places'
  BY <1>10 DEF SpuriousWakeup
<1>11. CASE UNCHANGED vars
  BY <1>11 DEF vars
<1> QED
  BY <1>2, <1>3, <1>4, <1>5, <1>6, <1>7, <1>8, <1>9, <1>10, <1>11
  DEF Next, Proceed

-----------------------------------------------------------------------------
(* A sleeping Pop() is owed an awake one for every job. *)
LEMMA PopWakeupInductive == IInv /\ [Next]_vars => PopWakeup'
<1> SUFFICES ASSUME IInv, [Next]_vars PROVE PopWakeup'
  OBVIOUS
<1>1. TypeOK /\ SleepersWait /\ StopSet /\ PopWakeup
  BY DEF IInv, NoLostWakeup
<1>2. Len(jobs) \in Nat /\ Cardinality(InPop) \in Nat /\ IsFiniteSet(InPop)
  BY <1>1, AwakeFinite DEF TypeOK
<1> USE DEF Goto
<1>3. ASSUME NEW t \in Threads, Call(t) PROVE PopWakeup'
  BY <1>1, <1>3, PopWakeupKept DEF Call, InPop, TypeOK
<1>4. ASSUME NEW t \in Threads, PushBlocks(t) \/ WaitBlocks(t) PROVE PopWakeup'
  <2>1. asleep'["push"] = asleep["push"] /\ pc' = pc /\ jobs' = jobs /\ stop' = stop
    BY <1>1, <1>4 DEF PushBlocks, WaitBlocks, Sleep, TypeOK, Conditions
  <2>2. InPop' = InPop
    BY <2>1 DEF InPop
  <2> QED
    BY <1>1, <2>1, <2>2, PopWakeupKept
<1>5. ASSUME NEW t \in Threads, PushSucceeds(t) PROVE PopWakeup'
  <2> SUFFICES ASSUME asleep'["push"] # {}
               PROVE  Len(jobs') <= Cardinality(InPop')
    BY <1>5 DEF PopWakeup
  <2>1. PICK w \in asleep["push"] : asleep'["push"] = asleep["push"] \ {w}
    BY <1>5, PushEffect
  <2>2. pc[w] = "pop" /\ w \in Threads
    BY <1>1 DEF SleepersWait, TypeOK, Conditions
  <2>3. InPop' = InPop \cup {w} /\ w \notin InPop
    BY <1>1, <1>5, <2>1, <2>2, PushEffect DEF InPop, TypeOK
  <2>4. Cardinality(InPop') = Cardinality(InPop) + 1
    BY <1>2, <2>3, FS_AddElement
  <2>5. Len(jobs) <= Cardinality(InPop) /\ Len(jobs') = Len(jobs) + 1
    BY <1>1, <1>5, <2>1, PushEffect DEF PopWakeup
  <2> QED
    BY <1>2, <2>4, <2>5
<1>6. ASSUME NEW t \in Threads, PopBlocks(t) PROVE PopWakeup'
  <2>1. InPop' \subseteq Threads /\ Len(jobs') = 0
    BY <1>6 DEF InPop, PopBlocks, Sleep
  <2>2. Cardinality(InPop') \in Nat
    BY <2>1, ThreadsAssumption, FS_Subset, FS_CardinalityType
  <2> QED
    BY <2>1, <2>2 DEF PopWakeup
<1>7. ASSUME NEW t \in Threads, PopSucceeds(t) PROVE PopWakeup'
  <2>1. /\ asleep'["push"] = asleep["push"] /\ stop' = stop
        /\ Len(jobs') = Len(jobs) - 1
        /\ pc' = [pc EXCEPT ![t] = "idle"]
    BY <1>7, PopEffect
  <2>2. InPop' = InPop \ {t}
    BY <1>1, <2>1 DEF InPop, TypeOK
  <2>3. Cardinality(InPop) <= Cardinality(InPop') + 1 /\ Cardinality(InPop') \in Nat
    BY <1>2, <2>2, CardinalityRemove, FS_CardinalityType
  <2> QED
    BY <1>1, <1>2, <2>1, <2>3 DEF PopWakeup
<1>8. ASSUME NEW t \in Threads,
             \/ PushFails(t) \/ PopFails(t) \/ Stop(t) \/ StopNotifies(t)
             \/ DisciplinedClear(t)
      PROVE PopWakeup'
  BY <1>1, <1>8 DEF PushFails, PopFails, Stop, StopNotifies, DisciplinedClear, Clear,
                    StopSet, PopWakeup
<1>9. ASSUME NEW t \in Threads, WaitReturns(t) PROVE PopWakeup'
  BY <1>1, <1>9, PopWakeupKept DEF WaitReturns, InPop, TypeOK
<1>10. ASSUME NEW t \in Threads, SpuriousWakeup(t) PROVE PopWakeup'
  <2>1. asleep'["push"] \subseteq asleep["push"] /\ pc' = pc /\ jobs' = jobs /\ stop' = stop
    BY <1>1, <1>10 DEF SpuriousWakeup, TypeOK, Conditions
  <2>2. InPop \subseteq InPop'
    BY <2>1 DEF InPop
  <2> QED
    BY <1>1, <2>1, <2>2, PopWakeupKept
<1>11. CASE UNCHANGED vars
  BY <1>1, <1>11 DEF vars, PopWakeup, InPop
<1> QED
  BY <1>3, <1>4, <1>5, <1>6, <1>7, <1>8, <1>9, <1>10, <1>11 DEF Next, Proceed

(* A sleeping Push() is owed an awake one for every free slot. *)
LEMMA PushWakeupInductive == IInv /\ [Next]_vars => PushWakeup'
<1> SUFFICES ASSUME IInv, [Next]_vars PROVE PushWakeup'
  OBVIOUS
<1>1. TypeOK /\ SleepersWait /\ StopSet /\ PushWakeup
  BY DEF IInv, NoLostWakeup
<1>2. /\ Len(jobs) \in Nat /\ Cardinality(InPush) \in Nat /\ IsFiniteSet(InPush)
      /\ MaxJobs \in Nat
  BY <1>1, AwakeFinite, MaxJobsAssumption DEF TypeOK
<1> USE DEF Goto
<1>3. ASSUME NEW t \in Threads, Call(t) PROVE PushWakeup'
  BY <1>1, <1>3, PushWakeupKept DEF Call, InPush, TypeOK
<1>4. ASSUME NEW t \in Threads, PopBlocks(t) \/ WaitBlocks(t) PROVE PushWakeup'
  <2>1. asleep'["pop"] = asleep["pop"] /\ pc' = pc /\ jobs' = jobs /\ stop' = stop
    BY <1>1, <1>4 DEF PopBlocks, WaitBlocks, Sleep, TypeOK, Conditions
  <2>2. InPush' = InPush
    BY <2>1 DEF InPush
  <2> QED
    BY <1>1, <2>1, <2>2, PushWakeupKept
<1>5. ASSUME NEW t \in Threads, PopSucceeds(t) PROVE PushWakeup'
  <2> SUFFICES ASSUME asleep'["pop"] # {}
               PROVE  MaxJobs <= Len(jobs') + Cardinality(InPush')
    BY <1>5 DEF PushWakeup
  <2>1. PICK w \in asleep["pop"] : asleep'["pop"] = asleep["pop"] \ {w}
    BY <1>5, PopEffect
  <2>2. pc[w] = "push" /\ w \in Threads
    BY <1>1 DEF SleepersWait, TypeOK, Conditions
  <2>3. InPush' = InPush \cup {w} /\ w \notin InPush
    BY <1>1, <1>5, <2>1, <2>2, PopEffect DEF InPush, TypeOK
  <2>4. Cardinality(InPush') = Cardinality(InPush) + 1
    BY <1>2, <2>3, FS_AddElement
  <2>5. /\ MaxJobs <= Len(jobs) + Cardinality(InPush)
        /\ Len(jobs') = Len(jobs) - 1
    BY <1>1, <1>5, <2>1, PopEffect DEF PushWakeup
  <2> QED
    BY <1>2, <2>4, <2>5
<1>6. ASSUME NEW t \in Threads, PushBlocks(t) PROVE PushWakeup'
  <2>1. InPush' \subseteq Threads /\ Len(jobs') >= MaxJobs /\ Len(jobs') \in Nat
    BY <1>2, <1>6 DEF InPush, PushBlocks, Full, Sleep
  <2>2. Cardinality(InPush') \in Nat
    BY <2>1, ThreadsAssumption, FS_Subset, FS_CardinalityType
  <2> QED
    BY <1>2, <2>1, <2>2 DEF PushWakeup
<1>7. ASSUME NEW t \in Threads, PushSucceeds(t) PROVE PushWakeup'
  <2>1. /\ asleep'["pop"] = asleep["pop"] /\ stop' = stop
        /\ Len(jobs') = Len(jobs) + 1
        /\ pc' = [pc EXCEPT ![t] = "idle"]
    BY <1>7, PushEffect
  <2>2. InPush' = InPush \ {t}
    BY <1>1, <2>1 DEF InPush, TypeOK
  <2>3. Cardinality(InPush) <= Cardinality(InPush') + 1 /\ Cardinality(InPush') \in Nat
    BY <1>2, <2>2, CardinalityRemove, FS_CardinalityType
  <2> QED
    BY <1>1, <1>2, <2>1, <2>3 DEF PushWakeup
<1>8. ASSUME NEW t \in Threads,
             \/ PushFails(t) \/ PopFails(t) \/ Stop(t) \/ StopNotifies(t)
             \/ DisciplinedClear(t)
      PROVE PushWakeup'
  BY <1>1, <1>8 DEF PushFails, PopFails, Stop, StopNotifies, DisciplinedClear, Clear,
                    StopSet, PushWakeup
<1>9. ASSUME NEW t \in Threads, WaitReturns(t) PROVE PushWakeup'
  BY <1>1, <1>9, PushWakeupKept DEF WaitReturns, InPush, TypeOK
<1>10. ASSUME NEW t \in Threads, SpuriousWakeup(t) PROVE PushWakeup'
  <2>1. asleep'["pop"] \subseteq asleep["pop"] /\ pc' = pc /\ jobs' = jobs /\ stop' = stop
    BY <1>1, <1>10 DEF SpuriousWakeup, TypeOK, Conditions
  <2>2. InPush \subseteq InPush'
    BY <2>1 DEF InPush
  <2> QED
    BY <1>1, <2>1, <2>2, PushWakeupKept
<1>11. CASE UNCHANGED vars
  BY <1>1, <1>11 DEF vars, PushWakeup, InPush
<1> QED
  BY <1>3, <1>4, <1>5, <1>6, <1>7, <1>8, <1>9, <1>10, <1>11 DEF Next, Proceed

(* Wait() never sleeps on an empty queue, and the jobs are consecutive. *)
LEMMA JobsInductive == IInv /\ [Next]_vars => EmptyWakeup' /\ Consecutive'
<1> SUFFICES ASSUME IInv, [Next]_vars PROVE EmptyWakeup' /\ Consecutive'
  OBVIOUS
<1>1. TypeOK /\ EmptyWakeup /\ Consecutive
  BY DEF IInv, NoLostWakeup
<1>2. ASSUME jobs' = jobs, accepted' = accepted,
             asleep'["empty"] \subseteq asleep["empty"]
      PROVE  EmptyWakeup' /\ Consecutive'
  BY <1>1, <1>2 DEF EmptyWakeup, Consecutive
<1>3. ASSUME NEW t \in Threads,
             \/ Call(t) \/ PushBlocks(t) \/ PushFails(t) \/ PopBlocks(t)
             \/ PopFails(t) \/ WaitReturns(t) \/ Stop(t) \/ StopNotifies(t)
             \/ SpuriousWakeup(t)
      PROVE EmptyWakeup' /\ Consecutive'
  <2>1. jobs' = jobs /\ accepted' = accepted
    BY <1>3 DEF Call, PushBlocks, PushFails, PopBlocks, PopFails, WaitReturns, Stop,
                StopNotifies, SpuriousWakeup, Sleep
  <2>2. asleep'["empty"] \subseteq asleep["empty"]
    BY <1>1, <1>3 DEF Call, PushBlocks, PushFails, PopBlocks, PopFails, WaitReturns,
                Stop, StopNotifies, NotifyAll, SpuriousWakeup, Sleep, TypeOK, Conditions
  <2> QED
    BY <1>2, <2>1, <2>2
<1>4. ASSUME NEW t \in Threads, PushSucceeds(t)
      PROVE EmptyWakeup' /\ Consecutive'
  <2>1. /\ jobs \in Seq(Nat) /\ accepted \in Nat
        /\ jobs' = Append(jobs, accepted + 1) /\ accepted' = accepted + 1
    BY <1>1, <1>4 DEF PushSucceeds, TypeOK
  <2>2. Len(jobs') = Len(jobs) + 1 /\ jobs' # <<>>
    BY <2>1
  <2>3. \A i \in 1 .. Len(jobs') :
           jobs'[i] = IF i = Len(jobs) + 1 THEN accepted + 1 ELSE jobs[i]
    BY <2>1, <2>2
  <2>4. Len(jobs) \in Nat /\ Len(jobs) <= accepted
    BY <1>1, <2>1 DEF Consecutive
  <2>5. \A i \in 1 .. Len(jobs') : jobs'[i] = accepted' - Len(jobs') + i
    <3> TAKE i \in 1 .. Len(jobs')
    <3>1. CASE i = Len(jobs) + 1
      BY <2>1, <2>2, <2>3, <2>4, <3>1
    <3>2. CASE i # Len(jobs) + 1
      <4>1. i \in 1 .. Len(jobs) /\ jobs'[i] = jobs[i]
        BY <2>2, <2>3, <2>4, <3>2
      <4>2. jobs[i] = accepted - Len(jobs) + i
        BY <1>1, <4>1 DEF Consecutive
      <4> QED
        BY <2>1, <2>2, <2>4, <4>1, <4>2
    <3> QED
      BY <3>1, <3>2
  <2> QED
    BY <2>1, <2>2, <2>4, <2>5 DEF EmptyWakeup, Consecutive
<1>5. ASSUME NEW t \in Threads, PopSucceeds(t)
      PROVE EmptyWakeup' /\ Consecutive'
  <2>1. EmptyWakeup'
    BY <1>5, PopEffect DEF EmptyWakeup
  <2>2. /\ Len(jobs') = Len(jobs) - 1 /\ Len(jobs) \in Nat /\ Len(jobs) >= 1
        /\ \A i \in 1 .. Len(jobs') : jobs'[i] = jobs[i + 1]
        /\ accepted' = accepted /\ accepted \in Nat
    <3>1. jobs \in Seq(Nat) /\ accepted' = accepted /\ accepted \in Nat
      BY <1>1, <1>5 DEF TypeOK, PopSucceeds
    <3> QED
      BY <3>1, <1>5, PopEffect
  <2>3. \A i \in 1 .. Len(jobs') : jobs[i + 1] = accepted - Len(jobs) + (i + 1)
    BY <1>1, <2>2 DEF Consecutive
  <2>4. Consecutive'
    BY <1>1, <2>2, <2>3 DEF Consecutive
  <2> QED
    BY <2>1, <2>4
<1>6. ASSUME NEW t \in Threads, WaitBlocks(t)
      PROVE EmptyWakeup' /\ Consecutive'
  BY <1>1, <1>6 DEF WaitBlocks, Sleep, EmptyWakeup, Consecutive
<1>7. ASSUME NEW t \in Threads, DisciplinedClear(t)
      PROVE EmptyWakeup' /\ Consecutive'
  <2>1. jobs' = <<>> /\ Len(jobs') = 0 /\ asleep' = asleep /\ asleep["empty"] = {}
        /\ accepted' = accepted /\ accepted \in Nat
    BY <1>1, <1>7 DEF DisciplinedClear, Clear, TypeOK
  <2> QED
    BY <2>1 DEF EmptyWakeup, Consecutive
<1>8. CASE UNCHANGED vars
  BY <1>2, <1>8 DEF vars
<1> QED
  BY <1>3, <1>4, <1>5, <1>6, <1>7, <1>8 DEF Next, Proceed

LEMMA InvInductive == IInv /\ [Next]_vars => IInv'
  BY TypeInductive, PlacesInductive, PopWakeupInductive, PushWakeupInductive,
     JobsInductive DEF IInv, NoLostWakeup, Places

(* The inductive invariant holds in every state of every run. *)
THEOREM Invariance == Spec => []IInv
<1>1. Init => IInv
  BY InitInv
<1>2. IInv /\ [Next]_vars => IInv'
  BY InvInductive
<1> QED
  BY <1>1, <1>2, PTL DEF Spec

(* Type correctness: the queue never holds more than max_num_jobs_ jobs. *)
THEOREM TypeCorrect == Spec => []TypeOK
<1>1. IInv => TypeOK
  BY DEF IInv
<1> QED
  BY <1>1, Invariance, PTL

(* No thread sleeps in Push(), Pop() or Wait() while what it waits for is    *)
(* there for it, whatever the number of threads and the capacity.            *)
THEOREM WakeupSafety == Spec => []NoLostWakeup
<1>1. IInv => NoLostWakeup
  BY DEF IInv
<1> QED
  BY <1>1, Invariance, PTL

(* Every step of the queue is a step of the bounded FIFO buffer, or none. *)
LEMMA StepSimulates == IInv /\ IInv' /\ [Next]_vars => [Fifo!Next]_(Fifo!vars)
<1> SUFFICES ASSUME IInv, IInv', [Next]_vars
             PROVE  [Fifo!Next]_(Fifo!vars)
  OBVIOUS
<1>1. /\ TypeOK /\ Consecutive /\ Len(jobs) \in Nat /\ accepted \in Nat
      /\ MaxJobs \in Nat
  BY MaxJobsAssumption DEF IInv, TypeOK
<1>2. Len(jobs) <= accepted
  BY <1>1 DEF Consecutive
<1>3. ASSUME NEW t \in Threads, PushSucceeds(t) PROVE Fifo!Accept
  <2>1. Len(jobs') = Len(jobs) + 1 /\ accepted' = accepted + 1
        /\ Len(jobs) < MaxJobs /\ ~stop /\ stop' = stop /\ last' = last
    BY <1>1, <1>3, PushEffect DEF PushSucceeds, Full
  <2>2. accepted' - Len(jobs') = accepted - Len(jobs)
    BY <1>1, <2>1
  <2>3. accepted < (accepted - Len(jobs)) + MaxJobs
    BY <1>1, <2>1
  <2> QED
    BY <2>1, <2>2, <2>3 DEF Fifo!Accept
<1>4. ASSUME NEW t \in Threads, PopSucceeds(t) PROVE Fifo!Deliver
  <2>1. /\ Len(jobs') = Len(jobs) - 1 /\ Len(jobs) >= 1 /\ accepted' = accepted
        /\ last' = jobs[1] /\ ~stop /\ stop' = stop
    BY <1>1, <1>4, PopEffect DEF PopSucceeds
  <2>2. jobs[1] = accepted - Len(jobs) + 1
    BY <1>1, <2>1 DEF Consecutive
  <2>3. accepted' - Len(jobs') = (accepted - Len(jobs)) + 1
        /\ accepted - Len(jobs) < accepted
    BY <1>1, <2>1
  <2> QED
    BY <2>1, <2>2, <2>3 DEF Fifo!Deliver
<1>5. ASSUME NEW t \in Threads, Stop(t) PROVE Fifo!Close
  BY <1>5 DEF Stop, Fifo!Close
<1>6. ASSUME NEW t \in Threads, DisciplinedClear(t) PROVE Fifo!Drop
  <2>1. Len(jobs') = 0 /\ accepted' = accepted /\ stop' = stop /\ last' = last
    BY <1>6 DEF DisciplinedClear, Clear
  <2>2. accepted' - Len(jobs') = accepted
    BY <1>1, <2>1
  <2> QED
    BY <2>1, <2>2 DEF Fifo!Drop
<1>7. ASSUME NEW t \in Threads,
             \/ Call(t) \/ PushBlocks(t) \/ PushFails(t) \/ PopBlocks(t)
             \/ PopFails(t) \/ WaitBlocks(t) \/ WaitReturns(t)
             \/ StopNotifies(t) \/ SpuriousWakeup(t)
      PROVE UNCHANGED Fifo!vars
  BY <1>7 DEF Call, PushBlocks, PushFails, PopBlocks, PopFails, WaitBlocks,
              WaitReturns, StopNotifies, SpuriousWakeup, Sleep, Fifo!vars
<1>8. CASE UNCHANGED vars
  BY <1>8 DEF vars, Fifo!vars
<1> QED
  BY <1>3, <1>4, <1>5, <1>6, <1>7, <1>8 DEF Next, Proceed, Fifo!Next

(* The queue, with its threads, waits and notifications, implements the      *)
(* bounded FIFO buffer.                                                      *)
THEOREM Refinement == Spec => ImplementsFifo
<1>1. Init => Fifo!Init
  <2> SUFFICES ASSUME Init PROVE Fifo!Init
    OBVIOUS
  <2>1. Len(jobs) = 0 /\ accepted = 0 /\ stop = FALSE /\ last = 0
    BY DEF Init
  <2> QED
    BY <2>1 DEF Fifo!Init
<1>2. IInv /\ IInv' /\ [Next]_vars => [Fifo!Next]_(Fifo!vars)
  BY StepSimulates
<1> QED
  BY <1>1, <1>2, Invariance, PTL DEF Spec, ImplementsFifo, Fifo!Spec
-----------------------------------------------------------------------------
(* The flags of a Thread. *)
Keeps(c) == tpc[c] \in {"join_old", "spawn", "reset"}

(* Start() keeps the mutex from its first test to the reset of the flags: one *)
(* controller at a time is in between, and the worker is where the old run   *)
(* ended or, spawned already, waits for the mutex at its setup.              *)
OneKeeps == \A c, d \in mutex : c = d

ThreadStarting ==
    \A c \in Controllers :
        /\ tpc[c] = "join_old" => worker \in {"none", "callback", "exit"}
        /\ tpc[c] = "spawn" => worker = "none"
        /\ tpc[c] = "reset" => worker \in {"started", "setup"}

(* Before the first Start() there is no thread that the flags could be about. *)
NotStarted == mutex = T!Nobody /\ ~started => worker = "none" /\ ~tfinished

ThreadInv == T!TypeOK /\ OneKeeps /\ ThreadStarting /\ NotStarted /\ T!FlagsTellTheTruth

-----------------------------------------------------------------------------
LEMMA ThreadInit == T!Init => ThreadInv
<1> SUFFICES ASSUME T!Init PROVE ThreadInv
  OBVIOUS
<1>1. T!TypeOK
  <2>1. lateItems \in 0 .. 2
    BY DEF T!Init
  <2>2. mutex = {c \in Controllers : tpc[c] \in {"join_old", "spawn", "reset"}}
    BY DEF T!Init, T!Nobody
  <2>3. tpc \in [Controllers -> T!Locations]
    BY DEF T!Init, T!Locations
  <2> QED BY <2>1, <2>2, <2>3 DEF T!Init, T!TypeOK, T!WorkerLocations
<1>2. OneKeeps /\ ThreadStarting /\ NotStarted /\ T!FlagsTellTheTruth
  BY DEF T!Init, OneKeeps, ThreadStarting, NotStarted, T!FlagsTellTheTruth, T!Free, T!Nobody
<1> QED BY <1>1, <1>2 DEF ThreadInv

(* A step of the worker that changes no flag but pausing, finished and setup. *)
LEMMA WorkerInductive == ASSUME ThreadInv, T!WorkerNext PROVE ThreadInv'
<1> USE DEF ThreadInv, T!TypeOK, OneKeeps, ThreadStarting, NotStarted, T!FlagsTellTheTruth, Keeps, T!Free,
            T!Nobody, T!WorkerLocations, T!Locations, T!At, T!WorkerGoes
<1>1. CASE T!StartedCallback
  BY <1>1 DEF T!StartedCallback, T!flags
<1>2. CASE T!SignalSetup
  <2>1. \A c \in Controllers : Keeps(c)' <=> Keeps(c)
    BY <1>2 DEF T!SignalSetup, T!NotifySetup
  <2>2. mutex' = {} /\ \A c \in Controllers : ~Keeps(c)'
    BY <1>2, <2>1 DEF T!SignalSetup
  <2> QED BY <1>2, <2>1, <2>2 DEF T!SignalSetup, T!NotifySetup
<1>3. CASE T!BlockIfPaused
  BY <1>3 DEF T!BlockIfPaused
<1>4. CASE T!LeaveBlock
  BY <1>4 DEF T!LeaveBlock, T!AfterBlock
<1>5. CASE T!CheckStopped
  BY <1>5 DEF T!CheckStopped, T!flags
<1>9. CASE T!BeginItem
  BY <1>9 DEF T!BeginItem, T!flags
<1>6. CASE T!ProcessItem
  BY <1>6 DEF T!ProcessItem, T!flags
<1>7. CASE T!Finish
  BY <1>7 DEF T!Finish
<1>8. CASE T!FinishedCallback
  BY <1>8 DEF T!FinishedCallback, T!flags
<1> QED BY <1>1, <1>2, <1>3, <1>4, <1>5, <1>6, <1>7, <1>8, <1>9 DEF T!WorkerNext

(* The steps of Start(), which takes, keeps and releases the mutex. *)
LEMMA StartInductive ==
    ASSUME ThreadInv, NEW c \in Controllers,
           T!StartLocks(c) \/ T!StartJoins(c) \/ T!StartSpawns(c) \/ T!StartResets(c)
    PROVE  ThreadInv'
<1> USE DEF ThreadInv, T!TypeOK, OneKeeps, ThreadStarting, NotStarted, T!FlagsTellTheTruth, Keeps, T!Free,
            T!Nobody, T!WorkerLocations, T!Locations, T!Goto, T!Calls, T!Joinable
<1>1. CASE T!StartLocks(c)
  <2>1. \A d \in Controllers : ~Keeps(d)
    BY <1>1 DEF T!StartLocks
  <2>2. mutex' = {d \in Controllers : Keeps(d)'}
    BY <1>1, <2>1 DEF T!StartLocks
  <2>3. worker \in {"none", "callback", "exit"}
    BY <1>1 DEF T!StartLocks
  <2> QED BY <1>1, <2>1, <2>2, <2>3 DEF T!StartLocks, T!flags
<1>2. CASE T!StartJoins(c)
  <2>1. mutex = {c} /\ \A d \in Controllers : Keeps(d) => d = c
    BY <1>2 DEF T!StartJoins
  <2> QED BY <1>2, <2>1 DEF T!StartJoins, T!flags
<1>3. CASE T!StartSpawns(c)
  <2>1. mutex = {c} /\ \A d \in Controllers : Keeps(d) => d = c
    BY <1>3 DEF T!StartSpawns
  <2> QED BY <1>3, <2>1 DEF T!StartSpawns, T!MutexAtSpawn, T!flags
<1>4. CASE T!StartResets(c)
  <2>1. \A d \in Controllers : Keeps(d) => d = c
    BY <1>4 DEF T!StartResets
  <2>2. mutex' = {} /\ mutex' = {d \in Controllers : tpc'[d] \in {"join_old", "spawn", "reset"}}
    BY <1>4, <2>1 DEF T!StartResets
  <2>3. lateItems' \in 0 .. 2 /\ worker' = worker /\ worker \in {"started", "setup"}
    BY <1>4 DEF T!StartResets
  <2>4. tpc' \in [Controllers -> T!Locations]
    BY <1>4 DEF T!StartResets
  <2>5. T!TypeOK'
    BY <1>4, <2>2, <2>3, <2>4 DEF T!StartResets
  <2>6. OneKeeps' /\ ThreadStarting'
    BY <2>2 DEF T!StartResets
  <2>7. NotStarted' /\ T!FlagsTellTheTruth'
    BY <1>4, <2>3 DEF T!StartResets
  <2> QED BY <2>5, <2>6, <2>7
<1> QED BY <1>1, <1>2, <1>3, <1>4

(* The other methods, and a wait that ends unasked. *)
LEMMA CallInductive ==
    ASSUME ThreadInv, NEW c \in Controllers,
           \/ T!StopSets(c) \/ T!Pause(c) \/ T!Resume(c) \/ T!WaitCalled(c) \/ T!WaitReturns(c)
           \/ T!CheckSleeps(c) \/ T!CheckReturns(c)
    PROVE  ThreadInv'
<1> USE DEF ThreadInv, T!TypeOK, OneKeeps, ThreadStarting, NotStarted, T!FlagsTellTheTruth, Keeps, T!Free,
            T!Nobody, T!WorkerLocations, T!Locations, T!Goto, T!Calls, T!Joinable
<1>1. mutex' = mutex /\ \A d \in Controllers : Keeps(d)' <=> Keeps(d)
  BY DEF T!StopSets, T!Pause, T!Resume, T!WaitCalled, T!WaitReturns, T!CheckSleeps, T!CheckReturns
<1>2. mutex' = {d \in Controllers : Keeps(d)'}
  BY <1>1
<1>3. CASE T!StopSets(c)
  BY <1>1, <1>2, <1>3 DEF T!StopSets
<1>4. CASE T!Pause(c)
  BY <1>1, <1>2, <1>4 DEF T!Pause
<1>5. CASE T!Resume(c)
  BY <1>1, <1>2, <1>5 DEF T!Resume, T!NotifyResume
<1>6. CASE T!WaitCalled(c)
  BY <1>1, <1>2, <1>6 DEF T!WaitCalled, T!flags
<1>7. CASE T!WaitReturns(c)
  BY <1>1, <1>2, <1>7 DEF T!WaitReturns, T!flags
<1>8. CASE T!CheckSleeps(c)
  BY <1>1, <1>2, <1>8 DEF T!CheckSleeps, T!flags
<1>9. CASE T!CheckReturns(c)
  BY <1>1, <1>2, <1>9 DEF T!CheckReturns, T!flags
<1> QED BY <1>3, <1>4, <1>5, <1>6, <1>7, <1>8, <1>9

LEMMA WakeupInductive == ASSUME ThreadInv, T!SpuriousWakeup PROVE ThreadInv'
<1> USE DEF ThreadInv, T!TypeOK, OneKeeps, ThreadStarting, NotStarted, T!FlagsTellTheTruth, Keeps, T!Free,
            T!Nobody, T!WorkerLocations, T!Locations, T!At, T!WorkerGoes, T!Goto
<1>1. \A d \in Controllers : Keeps(d)' <=> Keeps(d)
  BY DEF T!SpuriousWakeup
<1>2. mutex' = {d \in Controllers : Keeps(d)'}
  BY <1>1 DEF T!SpuriousWakeup
<1> QED BY <1>1, <1>2 DEF T!SpuriousWakeup, T!flags

LEMMA ThreadInvariance == T!Spec => []ThreadInv
<1>1. ThreadInv /\ [T!Next]_(T!vars) => ThreadInv'
  <2> SUFFICES ASSUME ThreadInv, [T!Next]_(T!vars) PROVE ThreadInv'
    OBVIOUS
  <2>1. CASE T!WorkerNext
    BY <2>1, WorkerInductive
  <2>2. CASE T!SpuriousWakeup
    BY <2>2, WakeupInductive
  <2>3. ASSUME NEW c \in Controllers,
               \/ T!StartLocks(c) \/ T!StopSets(c) \/ T!Pause(c) \/ T!Resume(c) \/ T!WaitCalled(c)
               \/ T!CheckSleeps(c) \/ T!CheckReturns(c) \/ T!Continue(c)
        PROVE  ThreadInv'
    BY <2>3, StartInductive, CallInductive DEF T!Continue
  <2>4. CASE UNCHANGED T!vars
    BY <2>4 DEF T!vars, T!flags, ThreadInv, T!TypeOK, OneKeeps, ThreadStarting, NotStarted, T!FlagsTellTheTruth,
                Keeps, T!Free
  <2> QED BY <2>1, <2>2, <2>3, <2>4 DEF T!Next
<1> QED BY ThreadInit, <1>1, PTL DEF T!Spec

(* The state of a thread has its types, and the mutex is held by controllers  *)
(* only, however many there are and whatever they call (threading.cc).       *)
THEOREM ThreadTypeCorrect == T!Spec => []T!TypeOK
<1>1. ThreadInv => T!TypeOK
  BY DEF ThreadInv
<1> QED BY ThreadInvariance, <1>1, PTL

(* The flags agree with where the thread is in every reachable state, however *)
(* many controllers start, stop, pause, resume and join it (threading.cc).   *)
THEOREM FlagsAlwaysTrue == T!Spec => []FlagsTellTheTruth
<1>1. ThreadInv => FlagsTellTheTruth
  BY DEF ThreadInv, FlagsTellTheTruth
<1> QED BY ThreadInvariance, <1>1, PTL

(* While the flag is not set no item is late; and after a late one the worker *)
(* has no answer of IsStopped() left from before that it could act upon.     *)
AnswersUsed ==
    /\ ~stopped => lateItems = 0
    /\ lateItems > 0 => worker # "go"
    /\ lateItems <= 1

(* Stop() is noticed after one more item at the latest, the one for which the *)
(* worker had its answer before, however many controllers pause, resume,     *)
(* stop and start the thread (threading.cc:63-69, threading.h:69-80).         *)
THEOREM OneItemAtMost == T!Spec => []OneItemAfterStop
<1>1. T!Init => AnswersUsed
  BY DEF T!Init, AnswersUsed
<1>2. ThreadInv /\ AnswersUsed /\ [T!Next]_(T!vars) => AnswersUsed'
  <2> SUFFICES ASSUME ThreadInv, AnswersUsed, [T!Next]_(T!vars) PROVE AnswersUsed'
    OBVIOUS
  <2>1. lateItems \in 0 .. 2
    BY DEF ThreadInv, T!TypeOK
  <2>2. CASE T!BeginItem
    <3>1. worker = "go" /\ worker' # "go" /\ lateItems = 0
      BY <2>1, <2>2 DEF T!BeginItem, T!At, AnswersUsed
    <3>2. lateItems' \in {0, 1} /\ (lateItems' = 1 => stopped) /\ stopped' = stopped
      BY <2>2, <3>1 DEF T!BeginItem, T!flags
    <3> QED BY <3>1, <3>2 DEF AnswersUsed
  <2>3. CASE T!CheckStopped
    <3>1. lateItems' = lateItems /\ stopped' = stopped /\ (worker' = "go" => ~stopped)
      BY <2>3 DEF T!CheckStopped, T!WorkerGoes, T!flags
    <3> QED BY <2>1, <3>1 DEF AnswersUsed
  <2>4. CASE T!WorkerNext /\ ~T!BeginItem /\ ~T!CheckStopped
    <3>1. lateItems' = lateItems /\ stopped' = stopped /\ worker' # "go"
      BY <2>4 DEF T!WorkerNext, T!StartedCallback, T!SignalSetup, T!BlockIfPaused, T!LeaveBlock,
                  T!ProcessItem, T!Finish, T!FinishedCallback, T!WorkerGoes, T!AfterBlock, T!flags
    <3> QED BY <3>1 DEF AnswersUsed
  <2>5. CASE T!SpuriousWakeup \/ UNCHANGED T!vars
    <3>1. lateItems' = lateItems /\ stopped' = stopped /\ (worker' = "go" => worker = "go")
      BY <2>5 DEF T!SpuriousWakeup, T!WorkerGoes, T!vars, T!flags
    <3> QED BY <3>1 DEF AnswersUsed
  <2>6. ASSUME NEW c \in Controllers, T!StartResets(c) PROVE AnswersUsed'
    BY <2>6 DEF T!StartResets, AnswersUsed
  <2>7. ASSUME NEW c \in Controllers,
               \/ T!StartLocks(c) \/ T!StartJoins(c) \/ T!StartSpawns(c) \/ T!StopSets(c)
               \/ T!Pause(c) \/ T!Resume(c) \/ T!WaitCalled(c) \/ T!WaitReturns(c)
               \/ T!CheckSleeps(c) \/ T!CheckReturns(c)
        PROVE  AnswersUsed'
    <3>1. /\ lateItems' = lateItems /\ (stopped => stopped')
          /\ worker' = "go" => worker = "go"
      BY <2>7 DEF T!StartLocks, T!StartJoins, T!StartSpawns, T!StopSets, T!Pause, T!Resume,
                  T!NotifyResume, T!WaitCalled, T!WaitReturns, T!CheckSleeps, T!CheckReturns, T!flags
    <3> QED BY <3>1 DEF AnswersUsed
  <2>8. ASSUME NEW c \in Controllers, T!Continue(c) PROVE AnswersUsed'
    BY <2>6, <2>7, <2>8 DEF T!Continue
  <2> QED BY <2>2, <2>3, <2>4, <2>5, <2>6, <2>7, <2>8 DEF T!Next
<1>3. AnswersUsed => OneItemAfterStop
  BY DEF AnswersUsed, OneItemAfterStop, T!OneItemAfterStop
<1> QED BY <1>1, <1>2, <1>3, ThreadInvariance, PTL DEF T!Spec

(* The types of both classes, as a run checks them (threading.h). *)
THEOREM ThreadingTypeCorrect == Spec /\ T!Spec => []TypesOK
<1>1. TypeOK /\ T!TypeOK => TypesOK
  BY DEF TypesOK
<1> QED BY TypeCorrect, ThreadTypeCorrect, <1>1, PTL
==============================================================================
