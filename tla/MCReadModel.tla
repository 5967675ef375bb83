---------------------------- MODULE MCReadModel ----------------------------
(* What is made of the telemetry once it is stored: the views of a device,  *)
(* the fleet list and the export, the KPI band and a chart in the browser;  *)
(* and the import that is the other way into the tables.  They share no     *)
(* state while they run, so a behaviour runs one of them, the part, and     *)
(* leaves the others where they begin.                                      *)
EXTENDS History, Fleet, LiveKpis, ChartPanel, ExcelImport

VARIABLE part

readModelVars == <<historyVars, fleetVars, kpiVars, chartVars, importVars, part>>

NoRow == [index |-> 0, sn |-> Null, validSn |-> TRUE]

ReadModelInit ==
    /\ part \in {"history", "fleet", "kpis", "chart", "import"}
    /\ HistoryInit /\ (part # "history" => topic = "power")
    /\ FleetInit
    /\ KpiInit /\ (part # "kpis" => props.device = CHOOSE d \in Devices : TRUE)
    /\ ChartInit /\ (part # "chart" => panel = "grid")
    /\ ImportInit /\ (part # "import" => sheet = [r \in 1..SheetRows |-> NoRow])

ReadModelNext ==
    /\ \/ /\ part = "history"
          /\ HistoryNext
          /\ UNCHANGED <<fleetVars, kpiVars, chartVars, importVars>>
       \/ /\ part = "fleet"
          /\ FleetNext
          /\ UNCHANGED <<historyVars, kpiVars, chartVars, importVars>>
       \/ /\ part = "kpis"
          /\ KpiNext
          /\ UNCHANGED <<historyVars, fleetVars, chartVars, importVars>>
       \/ /\ part = "chart"
          /\ ChartNext
          /\ UNCHANGED <<historyVars, fleetVars, kpiVars, importVars>>
       \/ /\ part = "import"
          /\ ImportNext
          /\ UNCHANGED <<historyVars, fleetVars, kpiVars, chartVars>>
    /\ UNCHANGED part

ReadModelSpec == ReadModelInit /\ [][ReadModelNext]_readModelVars

\* Types of the five parts.
ReadModelTypeOK ==
    /\ HistoryTypeOK
    /\ FleetTypeOK
    /\ KpiTypeOK
    /\ ChartTypeOK
    /\ ImportTypeOK
=============================================================================
