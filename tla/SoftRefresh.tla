---------------------------- MODULE SoftRefresh -----------------------------
(***************************************************************************)
(* How an open page refreshes itself: LiveSourcePoller compares the        *)
(* fingerprint of the data on every tick, SoftRefreshButton refreshes on a *)
(* click, and both take the lock refreshInFlight of LiveDataStaleProvider. *)
(* A heavy page (one device, one inverter) shows a banner with a second    *)
(* button instead of refreshing at once.                                   *)
(*                                                                         *)
(* A refresh that was asked for is open until the server's answer is       *)
(* shown.  The poller and each mounted button own a transition, pending    *)
(* as long as a refresh of theirs is open.  A button guards its refresh    *)
(* with a fail-safe timer, the poller with the age of its pending          *)
(* transition.                                                             *)
(*                                                                         *)
(* Abstractions.  A fingerprint is the number of the version it was taken  *)
(* from.  Instead of a clock there are ages, which stop growing at the     *)
(* value that matters.  An effect of a button runs with the render that    *)
(* triggers it.                                                            *)
(***************************************************************************)
EXTENDS Naturals

CONSTANTS
    PendingFailsafe,  \* PENDING_FAILSAFE_MS of a button
    Cooldown,         \* COOLDOWN_MS between two starts of the poller
    PendingStale,     \* PENDING_STALE_MS of the poller's transition
    HeavyGate,        \* DEFAULT_HEAVY_FULL_REFRESH_MIN_MS
    MaxVersion,       \* bound on versions of the data
    Slots,            \* bound on refreshes that are open or still timed
    None              \* no timer, tick, fingerprint or age

ASSUME RefreshAssumption ==
    /\ PendingFailsafe \in Nat
    /\ Cooldown \in Nat
    /\ PendingStale \in Nat
    /\ HeavyGate \in Nat
    /\ MaxVersion \in Nat
    /\ None \notin Nat

VARIABLES
    version,       \* version of the data in SQLite
    page,          \* is the page "light" (the fleet list) or "heavy"?
    dataStale,     \* the banner is shown
    heavyAge,      \* time since lastHeavyFullRefreshMs; None while that is 0
    lock,          \* refreshInFlight
    refreshes,     \* refreshes[i]: a refresh that is open or has a timer
    busy,          \* mounted buttons that are busy
    tick,          \* version when the running tick began, or None
    effectDue,     \* the poller's isPending is shown but not in isPendingRef
    isPendingRef,  \* the poller takes its transition for pending
    pendingAge,    \* time since pendingSinceRef; None while that is 0
    sinceStart,    \* time since lastStartedRef
    lastFingerprint,
    gaveUp         \* a guard released the lock of a refresh still open

pollerVars == <<tick, effectDue, isPendingRef, pendingAge, sinceStart,
                lastFingerprint>>
vars == <<version, page, dataStale, heavyAge, lock, refreshes, busy, pollerVars,
          gaveUp>>

Versions == 0..MaxVersion

\* The button of the page and the button in the banner.
Buttons == {"header", "banner"}

Mounted == IF dataStale THEN Buttons ELSE {"header"}

Free == [by |-> "nobody", open |-> FALSE, timer |-> None]

IsOpen(i) == refreshes[i].open

OpenBy(owner) == {i \in Slots : IsOpen(i) /\ refreshes[i].by = owner}

\* Forget a refresh that is answered and has no timer.
Tidy(r) == IF ~ r.open /\ r.timer = None THEN Free ELSE r

\* A slip the properties must notice: leaving buttons take their timers along.
UnmountCleared(rs, buttons) ==
    [i \in Slots |-> IF rs[i].by \in buttons
                     THEN Tidy([rs[i] EXCEPT !.by = "gone", !.timer = None])
                     ELSE rs[i]]

\* Buttons leave the page; their refreshes and timers go on.
Unmount(rs, buttons) ==
    [i \in Slots |-> IF rs[i].by \in buttons THEN [rs[i] EXCEPT !.by = "gone"]
                                             ELSE rs[i]]

\* Hiding the banner unmounts its button.
HideBanner(rs) ==
    /\ dataStale' = FALSE
    /\ refreshes' = Unmount(rs, {"banner"})

-----------------------------------------------------------------------------
(* The button.                                                             *)

\* A slip the properties must notice: a banner clicked away stays busy.
ClickStaysBusy(b) ==
    /\ b \in Mounted \ busy
    /\ ~ lock
    /\ lock' = TRUE
    /\ busy' = busy \cup {b}
    /\ heavyAge' = 0
    /\ \E i \in Slots :
          /\ refreshes[i] = Free
          /\ HideBanner([refreshes EXCEPT
                ![i] = [by |-> b, open |-> TRUE, timer |-> PendingFailsafe]])
    /\ UNCHANGED <<version, page, pollerVars, gaveUp>>

\* A click takes the lock, sets the fail-safe and hides the banner, which may
\* unmount the very button that was clicked.
Click(b) ==
    /\ b \in Mounted \ busy
    /\ ~ lock
    /\ lock' = TRUE
    /\ busy' = (busy \cup {b}) \ {"banner"}
    /\ heavyAge' = 0
    /\ \E i \in Slots :
          /\ refreshes[i] = Free
          /\ HideBanner([refreshes EXCEPT
                ![i] = [by |-> b, open |-> TRUE, timer |-> PendingFailsafe]])
    /\ UNCHANGED <<version, page, pollerVars, gaveUp>>

\* The fail-safe fires, on an unmounted button too: the lock is released
\* whoever holds it.
FailsafeFires(i) ==
    /\ refreshes[i].timer = 0
    /\ lock' = FALSE
    /\ busy' = busy \ {refreshes[i].by}
    /\ refreshes' = [refreshes EXCEPT ![i] = Tidy([@ EXCEPT !.timer = None])]
    /\ gaveUp' = (gaveUp \/ IsOpen(i))
    /\ UNCHANGED <<version, page, dataStale, heavyAge, pollerVars>>

-----------------------------------------------------------------------------
(* The poller.                                                             *)

HeavyGateOpen == heavyAge # None /\ heavyAge >= HeavyGate

\* decideSoftRefresh, for a fingerprint or None when /api/live did not answer.
decideSoftRefresh(fingerprint) ==
    LET changed == fingerprint # lastFingerprint
    IN  CASE isPendingRef ->
               IF pendingAge # None /\ pendingAge >= PendingStale
               THEN "clear-stale-pending" ELSE "skip"
          [] ~ isPendingRef /\ sinceStart < Cooldown -> "skip"
          [] ~ isPendingRef /\ sinceStart >= Cooldown ->
               IF fingerprint = None THEN "skip"
               ELSE IF lastFingerprint = None THEN "seed-fingerprint"
               ELSE IF page = "light" THEN IF changed THEN "refresh" ELSE "skip"
               ELSE IF HeavyGateOpen /\ (changed \/ dataStale) THEN "refresh"
               ELSE IF changed THEN "notify-stale"
               ELSE "skip"

\* The poller stops waiting for its transition and releases the lock.
GiveUpPending ==
    /\ isPendingRef' = FALSE
    /\ pendingAge' = None
    /\ lock' = FALSE
    /\ gaveUp' = TRUE
    /\ UNCHANGED <<version, page, dataStale, heavyAge, refreshes, busy,
                   effectDue, sinceStart, lastFingerprint>>

\* A tick while the transition is pending fetches nothing.
TickClearsStale ==
    /\ tick = None
    /\ isPendingRef
    /\ pendingAge # None /\ pendingAge >= PendingStale
    /\ GiveUpPending
    /\ UNCHANGED tick

\* A tick begins to fetch /api/live.
TickStart ==
    /\ tick = None
    /\ ~ isPendingRef
    /\ tick' = version
    /\ UNCHANGED <<version, page, dataStale, heavyAge, lock, refreshes, busy,
                   effectDue, isPendingRef, pendingAge, sinceStart,
                   lastFingerprint, gaveUp>>

\* The tick ends without a start: the decision is to skip, or someone else
\* holds the lock.
TickSkips(fingerprint) ==
    /\ \/ decideSoftRefresh(fingerprint) = "skip"
       \/ decideSoftRefresh(fingerprint) = "refresh" /\ lock
    /\ UNCHANGED <<version, page, dataStale, heavyAge, lock, refreshes, busy,
                   effectDue, isPendingRef, pendingAge, sinceStart,
                   lastFingerprint, gaveUp>>

TickGivesUp(fingerprint) ==
    /\ decideSoftRefresh(fingerprint) = "clear-stale-pending"
    /\ GiveUpPending

TickSeeds(fingerprint) ==
    /\ decideSoftRefresh(fingerprint) = "seed-fingerprint"
    /\ lastFingerprint' = fingerprint
    /\ UNCHANGED <<version, page, dataStale, heavyAge, lock, refreshes, busy,
                   effectDue, isPendingRef, pendingAge, sinceStart, gaveUp>>

\* A slip the properties must notice: the gate's clock is not started.
TickNotifiesUnarmed(fingerprint) ==
    /\ decideSoftRefresh(fingerprint) = "notify-stale"
    /\ lastFingerprint' = fingerprint
    /\ dataStale' = TRUE
    /\ sinceStart' = 0
    /\ UNCHANGED <<version, page, heavyAge, lock, refreshes, busy, effectDue,
                   isPendingRef, pendingAge, gaveUp>>

\* On a heavy page new data raises the banner and starts the gate's clock.
TickNotifies(fingerprint) ==
    /\ decideSoftRefresh(fingerprint) = "notify-stale"
    /\ lastFingerprint' = fingerprint
    /\ dataStale' = TRUE
    /\ heavyAge' = IF heavyAge = None THEN 0 ELSE heavyAge
    /\ sinceStart' = 0
    /\ UNCHANGED <<version, page, lock, refreshes, busy, effectDue,
                   isPendingRef, pendingAge, gaveUp>>

\* The poller refreshes the page.  Its isPending turns true, which its effect
\* learns of later, unless an earlier refresh of its own is still open.
TickRefreshes(fingerprint) ==
    /\ decideSoftRefresh(fingerprint) = "refresh"
    /\ ~ lock
    /\ lock' = TRUE
    /\ sinceStart' = 0
    /\ lastFingerprint' = fingerprint
    /\ heavyAge' = IF page = "heavy" THEN 0 ELSE heavyAge
    /\ effectDue' = (effectDue \/ OpenBy("poller") = {})
    /\ busy' = busy \ {"banner"}
    /\ \E i \in Slots :
          /\ refreshes[i] = Free
          /\ HideBanner([refreshes EXCEPT
                ![i] = [by |-> "poller", open |-> TRUE, timer |-> None]])
    /\ UNCHANGED <<version, page, isPendingRef, pendingAge, gaveUp>>

\* /api/live answered with the state of some moment of the tick, or failed.
TickEnds(fingerprint) ==
    /\ tick # None
    /\ fingerprint # None => fingerprint \in tick..version
    /\ tick' = None
    /\ \/ TickSkips(fingerprint)
       \/ TickGivesUp(fingerprint)
       \/ TickSeeds(fingerprint)
       \/ TickNotifies(fingerprint)
       \/ TickRefreshes(fingerprint)

\* The effect on isPending = true.
PendingEffect ==
    /\ effectDue
    /\ effectDue' = FALSE
    /\ isPendingRef' = TRUE
    /\ pendingAge' = IF pendingAge = None THEN 0 ELSE pendingAge
    /\ UNCHANGED <<version, page, dataStale, heavyAge, lock, refreshes, busy,
                   tick, sinceStart, lastFingerprint, gaveUp>>

-----------------------------------------------------------------------------
(* The server's answer is shown.                                           *)

\* The last open refresh of the poller ends its transition: the effect on
\* isPending = false releases the lock whoever holds it.
PollerSettles(i) ==
    /\ OpenBy("poller") = {i}
    /\ ~ effectDue
    /\ refreshes' = [refreshes EXCEPT ![i] = Free]
    /\ isPendingRef' = FALSE
    /\ pendingAge' = None
    /\ lock' = FALSE
    /\ UNCHANGED <<version, page, dataStale, heavyAge, busy, tick, effectDue,
                   sinceStart, lastFingerprint, gaveUp>>

\* A slip the properties must notice: the fail-safe is not cleared.
ButtonSettlesTimed(i) ==
    LET b == refreshes[i].by
    IN  /\ OpenBy(b) = {i}
        /\ b \in busy
        /\ lock' = FALSE
        /\ busy' = busy \ {b}
        /\ refreshes' = [refreshes EXCEPT ![i] = Tidy([@ EXCEPT !.open = FALSE])]
        /\ UNCHANGED <<version, page, dataStale, heavyAge, pollerVars, gaveUp>>

\* The last open refresh of a busy button ends its transition: the effect
\* releases the lock and clears the fail-safe.
ButtonSettles(i) ==
    LET b == refreshes[i].by
    IN  /\ OpenBy(b) = {i}
        /\ b \in busy
        /\ lock' = FALSE
        /\ busy' = busy \ {b}
        /\ refreshes' = [j \in Slots |-> IF refreshes[j].by = b THEN Free
                                                                ELSE refreshes[j]]
        /\ UNCHANGED <<version, page, dataStale, heavyAge, pollerVars, gaveUp>>

\* Otherwise nobody notices: the owner is gone or no longer busy, or another
\* of its refreshes is still open.
AnswerUnnoticed(i) ==
    /\ IsOpen(i)
    /\ OpenBy(refreshes[i].by) # {i} \/ refreshes[i].by \notin busy \cup {"poller"}
    /\ refreshes' = [refreshes EXCEPT ![i] = Tidy([@ EXCEPT !.open = FALSE])]
    /\ UNCHANGED <<version, page, dataStale, heavyAge, lock, busy, pollerVars, gaveUp>>

Answer(i) == PollerSettles(i) \/ ButtonSettles(i) \/ AnswerUnnoticed(i)

-----------------------------------------------------------------------------
(* The user, the data and time.                                            *)

\* The user opens another page: its buttons are new, and the fleet list has
\* no banner.
Navigate(to) ==
    /\ page' = to
    /\ dataStale' = (dataStale /\ to = "heavy")
    /\ refreshes' = Unmount(refreshes, Buttons)
    /\ busy' = {}
    /\ UNCHANGED <<version, heavyAge, lock, pollerVars, gaveUp>>

Publish ==
    /\ version < MaxVersion
    /\ version' = version + 1
    /\ UNCHANGED <<page, dataStale, heavyAge, lock, refreshes, busy, pollerVars, gaveUp>>

Older(age, limit) == IF age = None \/ age >= limit THEN age ELSE age + 1

Sooner(timer) == IF timer = None \/ timer = 0 THEN timer ELSE timer - 1

\* A tick in flight or a timer that is due may be late: the tab is suspended.
TimePasses ==
    /\ heavyAge' = Older(heavyAge, HeavyGate)
    /\ pendingAge' = Older(pendingAge, PendingStale)
    /\ sinceStart' = Older(sinceStart, Cooldown)
    /\ refreshes' = [i \in Slots |-> [refreshes[i] EXCEPT !.timer = Sooner(@)]]
    /\ UNCHANGED <<version, page, dataStale, lock, busy, tick, effectDue,
                   isPendingRef, lastFingerprint, gaveUp>>

-----------------------------------------------------------------------------

Init ==
    /\ version = 0
    /\ page \in {"light", "heavy"}
    /\ dataStale = FALSE
    /\ heavyAge = None
    /\ lock = FALSE
    /\ refreshes = [i \in Slots |-> Free]
    /\ busy = {}
    /\ tick = None
    /\ effectDue = FALSE
    /\ isPendingRef = FALSE
    /\ pendingAge = None
    /\ sinceStart = Cooldown
    /\ lastFingerprint = None
    /\ gaveUp = FALSE

Next ==
    \/ \E b \in Buttons : Click(b)
    \/ \E i \in Slots : FailsafeFires(i) \/ Answer(i)
    \/ TickClearsStale
    \/ TickStart
    \/ \E fingerprint \in Versions \cup {None} : TickEnds(fingerprint)
    \/ PendingEffect
    \/ \E to \in {"light", "heavy"} : Navigate(to)
    \/ Publish
    \/ TimePasses

Spec == Init /\ [][Next]_vars

\* Time goes on, timers fire, effects run, and the tab keeps polling; /api/live
\* answers again and again.
ClientFairness ==
    /\ WF_vars(TimePasses)
    /\ WF_vars(PendingEffect)
    /\ WF_vars(TickClearsStale)
    /\ WF_vars(TickStart)
    /\ SF_vars(\E fingerprint \in Versions : TickEnds(fingerprint))
    /\ \A i \in Slots : WF_vars(FailsafeFires(i))

\* A server that may leave a refresh open for ever.
ClientSpec == Spec /\ ClientFairness

\* A server that answers every refresh in the end.
FairSpec == ClientSpec /\ \A i \in Slots : WF_vars(Answer(i))

-----------------------------------------------------------------------------
(* Properties.                                                             *)

Owners == Buttons \cup {"poller", "gone", "nobody"}

RefreshType ==
    [by : Owners, open : BOOLEAN, timer : (0..PendingFailsafe) \cup {None}]

\* Types of the state of the page, the provider, the buttons and the poller.
TypeOK ==
    /\ version \in Versions
    /\ page \in {"light", "heavy"}
    /\ dataStale \in BOOLEAN
    /\ heavyAge \in (0..HeavyGate) \cup {None}
    /\ lock \in BOOLEAN
    /\ refreshes \in [Slots -> RefreshType]
    /\ busy \subseteq Mounted
    /\ tick \in Versions \cup {None}
    /\ effectDue \in BOOLEAN
    /\ isPendingRef \in BOOLEAN
    /\ pendingAge \in (0..PendingStale) \cup {None}
    /\ sinceStart \in 0..Cooldown
    /\ lastFingerprint \in Versions \cup {None}
    /\ gaveUp \in BOOLEAN

\* The lock of the provider does what it is there for as long as no guard has
\* given up on an open refresh: poller and buttons, mounted or gone, never
\* have two refreshes open, in spite of timers and effects that release the
\* lock without asking who holds it.
OneRefreshAtATime ==
    ~ gaveUp => \A i, j \in Slots : IsOpen(i) /\ IsOpen(j) => i = j

\* Why it does: a refresh that is open or still has a timer holds the lock and
\* is the only one.
InUse(i) == refreshes[i] # Free

LockInv ==
    ~ gaveUp => \A i, j \in Slots : InUse(i) /\ InUse(j) => i = j /\ lock

\* src/domain/soft-refresh-policy.ts: "Never stacks a second refresh while one
\* is pending"; the runbook extends it to the manual button.
NeverStacks == \A i, j \in Slots : IsOpen(i) /\ IsOpen(j) => i = j

\* A locked button can be used again some day (the comment on its fail-safe).
ButtonNeverSticks == lock ~> ~ lock

\* The banner's promise: if nobody clicks, the page refreshes itself once the
\* gate opens, which needs that the gate's clock was started.
BannerIsActedOn == dataStale ~> ~ dataStale
=============================================================================
