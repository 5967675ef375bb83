------------------------- MODULE SoftRefreshProofs --------------------------
(* Proofs about SoftRefresh: its types, and that the lock keeps refreshes   *)
(* apart until a guard gives up on one.                                    *)
EXTENDS SoftRefresh, TLAPS

-----------------------------------------------------------------------------
(* The helpers on refreshes.                                               *)

\* What Free is, as a record and as a type.
LEMMA FreeType == Free \in RefreshType /\ ~ Free.open
BY DEF Free, RefreshType, Owners

\* Tidying a refresh keeps its type; an open one stays as it is.
LEMMA TidyType ==
    ASSUME NEW r \in RefreshType
    PROVE  /\ Tidy(r) \in RefreshType
           /\ ~ r.open /\ r.timer = None => Tidy(r) = Free
BY FreeType DEF Tidy

\* Buttons that leave the page keep their refreshes, and free slots stay free.
LEMMA UnmountKeeps ==
    ASSUME NEW rs \in [Slots -> RefreshType], NEW buttons \in SUBSET Buttons
    PROVE  /\ Unmount(rs, buttons) \in [Slots -> RefreshType]
           /\ \A i \in Slots : Unmount(rs, buttons)[i] # Free => rs[i] # Free
<1>1. \A i \in Slots : [rs[i] EXCEPT !.by = "gone"] \in RefreshType
  BY DEF RefreshType, Owners
<1>2. \A i \in Slots : rs[i] = Free => rs[i].by \notin buttons
  BY DEF Free, Buttons
<1> QED
  BY <1>1, <1>2 DEF Unmount

\* Ages and timers stay in their ranges.
LEMMA AgeRange ==
    ASSUME NEW limit \in Nat, NEW age \in (0..limit) \cup {None}
    PROVE  /\ Older(age, limit) \in (0..limit) \cup {None}
           /\ age # None => Older(age, limit) \in 0..limit
BY RefreshAssumption DEF Older

LEMMA TimerRange ==
    ASSUME NEW timer \in (0..PendingFailsafe) \cup {None}
    PROVE  /\ Sooner(timer) \in (0..PendingFailsafe) \cup {None}
           /\ timer = None => Sooner(timer) = None
BY RefreshAssumption DEF Sooner

-----------------------------------------------------------------------------
(* Types and the lock, together.                                           *)

SoftInv == TypeOK /\ LockInv

\* The initial state satisfies the invariant.
LEMMA InitInv == Init => SoftInv
<1> SUFFICES ASSUME Init PROVE SoftInv
  OBVIOUS
<1>1. TypeOK
  <2>1. refreshes \in [Slots -> RefreshType]
    BY FreeType DEF Init
  <2>2. version \in Versions /\ sinceStart \in 0..Cooldown /\ busy \subseteq Mounted
    BY RefreshAssumption DEF Init, Versions
  <2> QED
    BY <2>1, <2>2 DEF Init, TypeOK
<1>2. LockInv
  BY DEF Init, LockInv, InUse
<1> QED
  BY <1>1, <1>2 DEF SoftInv

\* A start of a refresh in a free slot while the lock is free.
LEMMA StartKeepsLockInv ==
    ASSUME SoftInv, ~ lock, lock' = TRUE, gaveUp' = gaveUp,
           NEW i \in Slots, NEW r \in RefreshType,
           HideBanner([refreshes EXCEPT ![i] = r])
    PROVE  /\ refreshes' \in [Slots -> RefreshType]
           /\ LockInv'
<1> DEFINE rs == [refreshes EXCEPT ![i] = r]
<1>1. rs \in [Slots -> RefreshType]
  BY DEF SoftInv, TypeOK
<1>2. {"banner"} \in SUBSET Buttons
  BY DEF Buttons
<1>3. refreshes' = Unmount(rs, {"banner"})
  BY DEF HideBanner
<1>4. /\ refreshes' \in [Slots -> RefreshType]
      /\ \A j \in Slots : refreshes'[j] # Free => rs[j] # Free
  <2> HIDE DEF rs
  <2> QED BY <1>1, <1>2, <1>3, UnmountKeeps
<1>5. ~ gaveUp => \A j \in Slots : refreshes[j] = Free
  BY DEF SoftInv, LockInv, InUse
<1>6. ~ gaveUp => \A j \in Slots : rs[j] # Free => j = i
  BY <1>5 DEF SoftInv, TypeOK
<1>7. LockInv'
  BY <1>4, <1>6 DEF LockInv, InUse
<1> QED
  BY <1>4, <1>7

\* A click starts a refresh under the lock.
LEMMA ClickInv ==
    ASSUME SoftInv, NEW b \in Buttons, Click(b)
    PROVE  SoftInv'
<1>1. PICK i \in Slots :
         HideBanner([refreshes EXCEPT
            ![i] = [by |-> b, open |-> TRUE, timer |-> PendingFailsafe]])
  BY DEF Click
<1>2. [by |-> b, open |-> TRUE, timer |-> PendingFailsafe] \in RefreshType
  BY RefreshAssumption DEF RefreshType, Owners
<1>3. ~ lock /\ lock' = TRUE /\ gaveUp' = gaveUp
  BY DEF Click
<1>4. refreshes' \in [Slots -> RefreshType] /\ LockInv'
  BY <1>1, <1>2, <1>3, StartKeepsLockInv
<1>5. busy' \subseteq {"header"}
  BY DEF Click, SoftInv, TypeOK, Mounted, Buttons
<1>6. heavyAge' \in 0..HeavyGate /\ dataStale' = FALSE
  BY <1>1, RefreshAssumption DEF Click, HideBanner
<1>7. TypeOK'
  BY <1>4, <1>5, <1>6 DEF Click, SoftInv, TypeOK, Mounted, pollerVars
<1> QED
  BY <1>4, <1>7 DEF SoftInv

\* A timer that fires without giving up belongs to an answered refresh, the
\* only one in use, which is then forgotten.
LEMMA FailsafeInv ==
    ASSUME SoftInv, NEW i \in Slots, FailsafeFires(i)
    PROVE  SoftInv'
<1> DEFINE r == [refreshes[i] EXCEPT !.timer = None]
<1>1. r \in RefreshType /\ r.timer = None /\ r.open = refreshes[i].open
  BY DEF SoftInv, TypeOK, RefreshType
<1>2. refreshes' = [refreshes EXCEPT ![i] = Tidy(r)]
  BY DEF FailsafeFires
<1>3. Tidy(r) \in RefreshType /\ (~ r.open => Tidy(r) = Free)
  <2> HIDE DEF r
  <2> QED BY <1>1, TidyType
<1>4. TypeOK'
  BY <1>2, <1>3 DEF FailsafeFires, SoftInv, TypeOK, Mounted, pollerVars
<1>5. LockInv'
  <2> SUFFICES ASSUME ~ gaveUp', NEW j \in Slots, InUse(j)' PROVE FALSE
    BY DEF LockInv
  <2>1. ~ gaveUp /\ ~ refreshes[i].open
    BY DEF FailsafeFires, IsOpen, SoftInv, TypeOK
  <2>2. InUse(i)
    BY RefreshAssumption DEF FailsafeFires, InUse, Free
  <2>3. j # i
    BY <1>1, <1>2, <1>3, <2>1 DEF InUse, SoftInv, TypeOK
  <2>4. InUse(j)
    BY <1>2, <2>3 DEF InUse, SoftInv, TypeOK
  <2> QED
    BY <2>1, <2>2, <2>3, <2>4 DEF SoftInv, LockInv
<1> QED
  BY <1>4, <1>5 DEF SoftInv

-----------------------------------------------------------------------------
(* The poller's ticks.                                                     *)

\* Steps that leave the refreshes and the lock alone.
LEMMA SameLock ==
    ASSUME LockInv, UNCHANGED <<refreshes, lock, gaveUp>>
    PROVE  LockInv'
BY DEF LockInv, InUse

\* Once a guard gave up nothing is promised.
LEMMA GiveUpInv ==
    ASSUME SoftInv, GiveUpPending, tick' \in {tick, None}
    PROVE  SoftInv'
<1>1. TypeOK'
  BY DEF GiveUpPending, SoftInv, TypeOK, Mounted
<1>2. LockInv'
  BY DEF GiveUpPending, LockInv
<1> QED
  BY <1>1, <1>2 DEF SoftInv

\* A tick begins.
LEMMA TickStartInv == SoftInv /\ TickStart => SoftInv'
<1> SUFFICES ASSUME SoftInv, TickStart PROVE SoftInv'
  OBVIOUS
<1>1. TypeOK'
  BY DEF TickStart, SoftInv, TypeOK, Mounted
<1>2. LockInv'
  BY SameLock DEF TickStart, SoftInv
<1> QED
  BY <1>1, <1>2 DEF SoftInv

\* The poller starts a refresh under the lock.
LEMMA TickRefreshesInv ==
    ASSUME SoftInv, NEW fingerprint \in Versions \cup {None},
           TickRefreshes(fingerprint), tick' = None
    PROVE  SoftInv'
<1>1. PICK i \in Slots :
         HideBanner([refreshes EXCEPT
            ![i] = [by |-> "poller", open |-> TRUE, timer |-> None]])
  BY DEF TickRefreshes
<1>2. [by |-> "poller", open |-> TRUE, timer |-> None] \in RefreshType
  BY DEF RefreshType, Owners
<1>3. ~ lock /\ lock' = TRUE /\ gaveUp' = gaveUp
  BY DEF TickRefreshes
<1>4. refreshes' \in [Slots -> RefreshType] /\ LockInv'
  BY <1>1, <1>2, <1>3, StartKeepsLockInv
<1>5. busy' \subseteq {"header"}
  BY DEF TickRefreshes, SoftInv, TypeOK, Mounted, Buttons
<1>6. /\ heavyAge' \in (0..HeavyGate) \cup {None}
      /\ sinceStart' \in 0..Cooldown
  BY RefreshAssumption DEF TickRefreshes, SoftInv, TypeOK
<1>7. dataStale' = FALSE /\ effectDue' \in BOOLEAN
  BY <1>1 DEF TickRefreshes, HideBanner
<1>8. TypeOK'
  BY <1>4, <1>5, <1>6, <1>7 DEF TickRefreshes, SoftInv, TypeOK, Mounted
<1> QED
  BY <1>4, <1>8 DEF SoftInv

\* Every end of a tick.
LEMMA TickEndsInv ==
    ASSUME SoftInv, NEW fingerprint \in Versions \cup {None},
           TickEnds(fingerprint)
    PROVE  SoftInv'
<1>1. tick' = None
  BY DEF TickEnds
<1>2. CASE TickSkips(fingerprint)
  <2>1. TypeOK'
    BY <1>1, <1>2 DEF TickSkips, SoftInv, TypeOK, Mounted
  <2>2. LockInv'
    BY <1>2, SameLock DEF TickSkips, SoftInv
  <2> QED
    BY <2>1, <2>2 DEF SoftInv
<1>3. CASE TickGivesUp(fingerprint)
  BY <1>1, <1>3, GiveUpInv DEF TickGivesUp
<1>4. CASE TickSeeds(fingerprint)
  <2>1. TypeOK'
    BY <1>1, <1>4 DEF TickSeeds, SoftInv, TypeOK, Mounted
  <2>2. LockInv'
    BY <1>4, SameLock DEF TickSeeds, SoftInv
  <2> QED
    BY <2>1, <2>2 DEF SoftInv
<1>5. CASE TickNotifies(fingerprint)
  <2>1. /\ heavyAge' \in (0..HeavyGate) \cup {None}
        /\ sinceStart' \in 0..Cooldown
    BY <1>5, RefreshAssumption DEF TickNotifies, SoftInv, TypeOK
  <2>2. busy' \subseteq Mounted'
    BY <1>5 DEF TickNotifies, SoftInv, TypeOK, Mounted, Buttons
  <2>3. TypeOK'
    BY <1>1, <1>5, <2>1, <2>2 DEF TickNotifies, SoftInv, TypeOK
  <2>4. LockInv'
    BY <1>5, SameLock DEF TickNotifies, SoftInv
  <2> QED
    BY <2>3, <2>4 DEF SoftInv
<1>6. CASE TickRefreshes(fingerprint)
  BY <1>1, <1>6, TickRefreshesInv
<1> QED
  BY <1>2, <1>3, <1>4, <1>5, <1>6 DEF TickEnds

\* The effect on isPending = true.
LEMMA PendingEffectInv == SoftInv /\ PendingEffect => SoftInv'
<1> SUFFICES ASSUME SoftInv, PendingEffect PROVE SoftInv'
  OBVIOUS
<1>1. pendingAge' \in (0..PendingStale) \cup {None}
  BY RefreshAssumption DEF PendingEffect, SoftInv, TypeOK
<1>2. TypeOK'
  BY <1>1 DEF PendingEffect, SoftInv, TypeOK, Mounted
<1>3. LockInv'
  BY SameLock DEF PendingEffect, SoftInv
<1> QED
  BY <1>2, <1>3 DEF SoftInv

-----------------------------------------------------------------------------
(* Answers.                                                                *)

\* An open refresh that nobody gave up on is the only one in use.
LEMMA OpenIsAlone ==
    ASSUME SoftInv, NEW i \in Slots, IsOpen(i), ~ gaveUp
    PROVE  lock /\ \A j \in Slots : j # i => refreshes[j] = Free
BY FreeType DEF SoftInv, LockInv, InUse, IsOpen

\* Whoever settles frees the only refresh in use and may release the lock.
LEMMA AnswerInv ==
    ASSUME SoftInv, NEW i \in Slots, Answer(i)
    PROVE  SoftInv'
<1>1. CASE PollerSettles(i)
  <2>1. IsOpen(i)
    BY <1>1 DEF PollerSettles, OpenBy
  <2>2. refreshes' \in [Slots -> RefreshType] /\ refreshes'[i] = Free
    BY <1>1, FreeType DEF PollerSettles, SoftInv, TypeOK
  <2>3. TypeOK'
    BY <1>1, <2>2 DEF PollerSettles, SoftInv, TypeOK, Mounted
  <2>4. ~ gaveUp' => \A j \in Slots : refreshes'[j] = Free
    BY <1>1, <2>1, <2>2, OpenIsAlone DEF PollerSettles, SoftInv, TypeOK
  <2>5. LockInv'
    BY <2>4 DEF LockInv, InUse
  <2> QED
    BY <2>3, <2>5 DEF SoftInv
<1>2. CASE ButtonSettles(i)
  <2>1. IsOpen(i)
    BY <1>2 DEF ButtonSettles, OpenBy
  <2>2. refreshes' \in [Slots -> RefreshType] /\ refreshes'[i] = Free
    BY <1>2, FreeType DEF ButtonSettles, SoftInv, TypeOK
  <2>3. TypeOK'
    BY <1>2, <2>2 DEF ButtonSettles, SoftInv, TypeOK, Mounted, pollerVars
  <2>4. ~ gaveUp' => \A j \in Slots : refreshes'[j] = Free
    BY <1>2, <2>1, <2>2, OpenIsAlone DEF ButtonSettles, SoftInv, TypeOK
  <2>5. LockInv'
    BY <2>4 DEF LockInv, InUse
  <2> QED
    BY <2>3, <2>5 DEF SoftInv
<1>3. CASE AnswerUnnoticed(i)
  <2> DEFINE r == [refreshes[i] EXCEPT !.open = FALSE]
  <2>1. r \in RefreshType
    BY DEF SoftInv, TypeOK, RefreshType
  <2>2. Tidy(r) \in RefreshType
    <3> HIDE DEF r
    <3> QED BY <2>1, TidyType
  <2>3. refreshes' = [refreshes EXCEPT ![i] = Tidy(r)]
    BY <1>3 DEF AnswerUnnoticed
  <2> HIDE DEF r
  <2>4. refreshes' \in [Slots -> RefreshType]
    BY <2>2, <2>3 DEF SoftInv, TypeOK
  <2>5. TypeOK'
    BY <1>3, <2>4 DEF AnswerUnnoticed, SoftInv, TypeOK, Mounted, pollerVars
  <2>6. ~ gaveUp' => lock' /\ \A j \in Slots : j # i => refreshes'[j] = Free
    BY <1>3, <2>3, OpenIsAlone DEF AnswerUnnoticed, SoftInv, TypeOK
  <2>7. LockInv'
    BY <2>6 DEF LockInv, InUse
  <2> QED
    BY <2>5, <2>7 DEF SoftInv
<1> QED
  BY <1>1, <1>2, <1>3 DEF Answer

-----------------------------------------------------------------------------
(* The user, the data and time.                                            *)

\* The buttons of the page left behind are gone, their refreshes are not.
LEMMA NavigateInv ==
    ASSUME SoftInv, NEW to \in {"light", "heavy"}, Navigate(to)
    PROVE  SoftInv'
<1>1. /\ refreshes' \in [Slots -> RefreshType]
      /\ \A i \in Slots : refreshes'[i] # Free => refreshes[i] # Free
  BY UnmountKeeps DEF Navigate, SoftInv, TypeOK
<1>2. TypeOK'
  BY <1>1 DEF Navigate, SoftInv, TypeOK, pollerVars
<1>3. LockInv'
  BY <1>1 DEF Navigate, SoftInv, LockInv, InUse
<1> QED
  BY <1>2, <1>3 DEF SoftInv

\* New data.
LEMMA PublishInv == SoftInv /\ Publish => SoftInv'
<1> SUFFICES ASSUME SoftInv, Publish PROVE SoftInv'
  OBVIOUS
<1>1. version' \in Versions
  BY RefreshAssumption DEF Publish, SoftInv, TypeOK, Versions
<1>2. TypeOK'
  BY <1>1 DEF Publish, SoftInv, TypeOK, Mounted, pollerVars
<1>3. LockInv'
  BY SameLock DEF Publish, SoftInv
<1> QED
  BY <1>2, <1>3 DEF SoftInv

\* Time changes ages and timers only, and gives no timer to a free slot.
LEMMA TimePassesInv == SoftInv /\ TimePasses => SoftInv'
<1> SUFFICES ASSUME SoftInv, TimePasses PROVE SoftInv'
  OBVIOUS
<1>1. /\ heavyAge' \in (0..HeavyGate) \cup {None}
      /\ pendingAge' \in (0..PendingStale) \cup {None}
      /\ sinceStart' \in 0..Cooldown
  BY AgeRange, RefreshAssumption DEF TimePasses, SoftInv, TypeOK
<1>2. ASSUME NEW i \in Slots
      PROVE  /\ refreshes'[i] \in RefreshType
             /\ refreshes'[i] # Free => refreshes[i] # Free
  <2>1. /\ refreshes[i] \in RefreshType
        /\ refreshes'[i] = [refreshes[i] EXCEPT !.timer = Sooner(@)]
    BY DEF TimePasses, SoftInv, TypeOK
  <2>2. /\ Sooner(refreshes[i].timer) \in (0..PendingFailsafe) \cup {None}
        /\ refreshes[i].timer = None => Sooner(refreshes[i].timer) = None
    BY <2>1, TimerRange DEF RefreshType
  <2> QED
    BY <2>1, <2>2 DEF RefreshType, Free
<1>3. refreshes' \in [Slots -> RefreshType]
  BY <1>2 DEF TimePasses
<1>4. TypeOK'
  BY <1>1, <1>3 DEF TimePasses, SoftInv, TypeOK, Mounted
<1>5. LockInv'
  BY <1>2 DEF TimePasses, SoftInv, LockInv, InUse
<1> QED
  BY <1>4, <1>5 DEF SoftInv

-----------------------------------------------------------------------------
(* The theorems.                                                           *)

\* Every step keeps the invariant.
LEMMA StepInv == SoftInv /\ [Next]_vars => SoftInv'
<1> SUFFICES ASSUME SoftInv, [Next]_vars PROVE SoftInv'
  OBVIOUS
<1>1. ASSUME NEW b \in Buttons, Click(b) PROVE SoftInv'
  BY <1>1, ClickInv
<1>2. ASSUME NEW i \in Slots, FailsafeFires(i) PROVE SoftInv'
  BY <1>2, FailsafeInv
<1>3. ASSUME NEW i \in Slots, Answer(i) PROVE SoftInv'
  BY <1>3, AnswerInv
<1>4. CASE TickClearsStale
  BY <1>4, GiveUpInv DEF TickClearsStale
<1>5. CASE TickStart
  BY <1>5, TickStartInv
<1>6. ASSUME NEW f \in Versions \cup {None}, TickEnds(f) PROVE SoftInv'
  BY <1>6, TickEndsInv
<1>7. CASE PendingEffect
  BY <1>7, PendingEffectInv
<1>8. ASSUME NEW to \in {"light", "heavy"}, Navigate(to) PROVE SoftInv'
  BY <1>8, NavigateInv
<1>9. CASE Publish
  BY <1>9, PublishInv
<1>10. CASE TimePasses
  BY <1>10, TimePassesInv
<1>11. CASE UNCHANGED vars
  <2>1. TypeOK'
    BY <1>11 DEF vars, pollerVars, SoftInv, TypeOK, Mounted
  <2>2. LockInv'
    BY <1>11, SameLock DEF vars, SoftInv
  <2> QED
    BY <2>1, <2>2 DEF SoftInv
<1> QED
  BY <1>1, <1>2, <1>3, <1>4, <1>5, <1>6, <1>7, <1>8, <1>9, <1>10, <1>11 DEF Next

\* The types and the lock invariant of the page hold in every behaviour, for
\* any limits, any number of refreshes and of versions.
THEOREM SoftCorrect == Spec => []SoftInv
BY InitInv, StepInv, PTL DEF Spec

\* The state of the page, the provider, the buttons and the poller keeps its
\* types; in particular only mounted buttons are busy.
THEOREM SoftTypes == Spec => []TypeOK
<1>1. SoftInv => TypeOK
  BY DEF SoftInv
<1> QED
  BY <1>1, SoftCorrect, PTL

\* The lock of the provider keeps refreshes of the poller and of the buttons
\* apart until the fail-safe or the stale limit gives up on one.
THEOREM LockKeepsApart == Spec => []OneRefreshAtATime
<1>1. SoftInv => OneRefreshAtATime
  BY FreeType DEF SoftInv, LockInv, InUse, IsOpen, OneRefreshAtATime
<1> QED
  BY <1>1, SoftCorrect, PTL
=============================================================================
