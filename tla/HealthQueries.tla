---------------------------- MODULE HealthQueries ----------------------------
(***************************************************************************)
(* What the IHealth service answers (health/Health.cpp): the property      *)
(* getters, getStorageInfo, getDiskStats, getHealthInfo, debug, and the    *)
(* HealthInfo that notifyListeners sends.  A virtual machine has no        *)
(* battery, so nearly everything is a constant; the current average comes  *)
(* from the battery monitor, which may refuse, and whose value may change  *)
(* at any time.                                                            *)
(***************************************************************************)
EXTENDS HealthdCommon

CONSTANTS
  IntHalf,    \* half the number of values of an int32_t, 2^31
  Average,    \* values of an int64_t the battery monitor reports
  Refused,    \* the battery monitor returns an error
  NotYet      \* no answer yet

ASSUME QueriesAssumption ==
  /\ IntHalf \in Nat \ {0}
  /\ Average \subseteq Int
  /\ Refused \notin Average

VARIABLES
  average,  \* external: what the monitor has for BATTERY_PROP_CURRENT_AVG
  answer,   \* the latest answer to each query
  current   \* history: reports made since average last changed

queryVars == <<alarmVars, average, answer, current>>

Getter == {"ChargeCounter", "CurrentNow", "CurrentAverage", "Capacity",
           "EnergyCounter", "ChargeStatus"}
List   == {"StorageInfo", "DiskStats"}
Report == {"getHealthInfo", "notifyListeners", "debug"}
Query  == Getter \cup List \cup Report

Int32 == -IntHalf .. IntHalf - 1

\* Mutant: the reading is reported without the cast.
ToInt32Wide(v) == v

\* static_cast<int32_t> of an int64_t
ToInt32(v) == ((v + IntHalf) % (2 * IntHalf)) - IntHalf

\* get_storage_info and get_disk_stats leave the vector empty.
GetList(list) == <<>>

\* getProperty hands its default to the callback; the monitor is not asked.
\* The numeric defaults are the kBatteryProp constants, all 1.
GetProperty(id) ==
  [result |-> "SUCCESS", value |-> IF id = "ChargeStatus" THEN "FULL" ELSE 1]

\* getStorageInfo and getDiskStats: an empty list means NOT_SUPPORTED.
ListAnswer(list) ==
  [result |-> IF GetList(list) = <<>> THEN "NOT_SUPPORTED" ELSE "SUCCESS",
   value  |-> GetList(list)]

(***************************************************************************)
(* notifyListeners and getHealthInfo each have a copy of the code that     *)
(* reads the average and assembles the HealthInfo.                         *)
(***************************************************************************)

\* Mutant: the uninitialised prop is used when getProperty refuses.
NotifyCurrentAvgUnchecked == IF average = Refused THEN Int32 ELSE {ToInt32(average)}

\* notifyListeners: the outcomes of currentAvg, 0 if the monitor refuses.
NotifyCurrentAvg == IF average = Refused THEN {0} ELSE {ToInt32(average)}

\* notifyListeners: what the hook was given is overwritten.
NotifyHealthInfo(currentAvg) ==
  [chargerAcOnline |-> TRUE, chargerUsbOnline |-> FALSE, chargerWirelessOnline |-> FALSE,
   maxChargingCurrent |-> 0, maxChargingVoltage |-> 0,
   batteryPresent |-> FALSE, batteryLevel |-> 100, batteryVoltage |-> 0,
   batteryTemperature |-> 0, batteryCurrent |-> 0, batteryCycleCount |-> 0,
   batteryFullCharge |-> 1, batteryChargeCounter |-> 1,
   batteryStatus |-> "FULL", batteryHealth |-> "GOOD", batteryTechnology |-> "AC",
   batteryCurrentAverage |-> currentAvg,
   diskStats |-> GetList("DiskStats"), storageInfos |-> GetList("StorageInfo")]

\* getHealthInfo: the outcomes of currentAvg, 0 if the monitor refuses.
GetCurrentAvg == IF average = Refused THEN {0} ELSE {ToInt32(average)}

\* getHealthInfo: what the caller is answered.
GetHealthInfoRecord(currentAvg) ==
  [chargerAcOnline |-> TRUE, chargerUsbOnline |-> FALSE, chargerWirelessOnline |-> FALSE,
   maxChargingCurrent |-> 0, maxChargingVoltage |-> 0,
   batteryPresent |-> FALSE, batteryLevel |-> 100, batteryVoltage |-> 0,
   batteryTemperature |-> 0, batteryCurrent |-> 0, batteryCycleCount |-> 0,
   batteryFullCharge |-> 1, batteryChargeCounter |-> 1,
   batteryStatus |-> "FULL", batteryHealth |-> "GOOD", batteryTechnology |-> "AC",
   batteryCurrentAverage |-> currentAvg,
   diskStats |-> GetList("DiskStats"), storageInfos |-> GetList("StorageInfo")]

QueriesTypeOK ==
  /\ AlarmTypeOK
  /\ average \in Average \cup {Refused}
  /\ \A q \in Query : answer[q] # NotYet => answer[q].result \in {"SUCCESS", "NOT_SUPPORTED"}
  /\ \A q \in Report : answer[q] # NotYet => answer[q].value.batteryCurrentAverage \in Int32
  /\ current \subseteq Report

\* The main loop runs; the alarm may have failed to be created.
QueriesInit ==
  /\ healthd_mode_ops = TRUE
  /\ wakealarm_fd \in {"open", "none"}
  /\ wakealarm_wake_interval = IntervalFast
  /\ awake_poll_interval = -1
  /\ timer = IF wakealarm_fd = "open" THEN TimerValue(IntervalFast) ELSE 0
  /\ phase = 0
  /\ average \in Average \cup {Refused}
  /\ answer = [q \in Query |-> NotYet]
  /\ current = {}

-----------------------------------------------------------------------------
Answer(q, a) ==
  /\ answer' = [answer EXCEPT ![q] = a]
  /\ current' = current \cup ({q} \cap Report)
  /\ UNCHANGED average

Get(id) == Answer(id, GetProperty(id)) /\ UNCHANGED alarmVars

GetListOf(list) == Answer(list, ListAnswer(list)) /\ UNCHANGED alarmVars

\* getHealthInfo runs update() first and ignores its result.
GetHealthInfo(q) ==
  /\ Update
  /\ \E a \in GetCurrentAvg :
       Answer(q, [result |-> "SUCCESS", value |-> GetHealthInfoRecord(a)])

\* The hook: notifyListeners assembles and sends a HealthInfo of its own.
NotifyListeners ==
  /\ \E a \in NotifyCurrentAvg :
       Answer("notifyListeners", [result |-> "SUCCESS", value |-> NotifyHealthInfo(a)])
  /\ UNCHANGED alarmVars

\* debug writes what getHealthInfo answers to the first descriptor of the
\* handle, if there is one.
Debug(numFds) ==
  IF numFds >= 1 THEN GetHealthInfo("debug") ELSE UNCHANGED queryVars

\* external: the monitor's reading changes.
MonitorChange ==
  /\ average' \in (Average \cup {Refused}) \ {average}
  /\ current' = {}
  /\ UNCHANGED <<alarmVars, answer>>

QueriesNext ==
  \/ \E id \in Getter : Get(id)
  \/ \E list \in List : GetListOf(list)
  \/ GetHealthInfo("getHealthInfo")
  \/ NotifyListeners
  \/ \E numFds \in 0..1 : Debug(numFds)
  \/ MonitorChange

QueriesSpec == QueriesInit /\ [][QueriesNext]_queryVars

-----------------------------------------------------------------------------
(***************************************************************************)
(* Properties                                                              *)
(***************************************************************************)

(***************************************************************************)
(* A listener and a caller of getHealthInfo or debug learn the same: the   *)
(* two copies of the code agree in every field as long as the monitor's    *)
(* reading stays the same, also when the monitor refuses and prop stays    *)
(* uninitialised.                                                          *)
(***************************************************************************)
ReportsAgree ==
  \A q, r \in current : answer[q] = answer[r]

(***************************************************************************)
(* Asking does not disturb the wake alarm: however often clients call      *)
(* getHealthInfo, whose update() adjusts the alarm, the alarm and the poll *)
(* interval stay as they were set, and the period that runs is not started *)
(* anew: calls more frequent than the alarm do not put it off for ever.    *)
(***************************************************************************)
QueriesKeepAlarm == [][UNCHANGED alarmVars]_queryVars
==============================================================================
