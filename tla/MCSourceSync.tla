---------------------------- MODULE MCSourceSync ----------------------------
(* Small instances of SourceSync: two devices, three rows, two of them of   *)
(* the same time, and the ways sync() may be called.                       *)
EXTENDS SourceSync

MCRegistry == [d \in Devices |-> IF d = "d1" THEN "A" ELSE "B"]

NoChanges == {}

\* d2 is not in the registry; d1 may be pruned and come back with another
\* serial number, or get that at once.
OneRegistered == [d \in Devices |-> IF d = "d1" THEN "A" ELSE NoSn]
PrunedOrRenamed == {<<"d1", NoSn>>, <<"d1", "C">>}

\* Three rows of two devices.
At3 == <<1, 1, 2>>
Dev3 == <<"d1", "d2", "d1">>
Metric3 == <<"load", "load", "load">>

Opt(dry, dev, sn, from) == [dryRun |-> dry, device |-> dev, sn |-> sn, from |-> from]

PlainOnly == [p \in Syncs |-> {Plain}]

\* The worker beside a script that may be any source-wide sync, a dry run or a
\* device-scoped resync.
WorkerAndScript ==
    [p \in Syncs |->
        IF p = "worker" THEN {Plain}
        ELSE {Plain, Opt(TRUE, AllDevices, NoSn, NoFrom),
              Opt(FALSE, "d1", NoSn, 1)}]

\* A manual sync of one serial number.
WithSnScript == [p \in Syncs |-> {Opt(FALSE, AllDevices, "A", NoFrom)}]
=============================================================================
