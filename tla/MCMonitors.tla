---------------------------- MODULE MCMonitors ------------------------------
(* The schedulers and caches of the old shvhistoryprovider (LogSanitizer,  *)
(* DeviceMonitor, PushedCache, LogMerge), the test monitor hscope-old      *)
(* (StatusTree, Telegram), and the views and simulators.  They share no    *)
(* state: a behaviour is one of a part, and the others stay as they are.   *)
(* The properties contain the type invariants of their modules.            *)
EXTENDS Integers, Sequences

CONSTANTS
  PlcSwitches, PlcQueue, PlcAsked, PlcIds,               \* of PlcView
  ScreenPaths, ScreenAsked, ScreenIds, ScreenChanges,    \* of DeviceView
  MapSites, MapFaults, MapMounts, MapWire,                \* of SitesMap
  ShortWrap, StampGrain, LastTime,                       \* of ShortTimes
  BfsSwitches, BfsLimit, BfsWrites, BfsFaults,           \* of PowerStatus
  LubMin, LubMax, LubVoltage, LubLow, LubHigh,           \* of Lublicator
  TreeTests, TreePeriodic, TreeFaults, TreeReloads, TreeRuns, TreePrinted,  \* of StatusTree
  BotSender, BotMessages, BotFitting, BotRestarts, BotCalls, BotFaults  \* of Telegram

VARIABLES
  part,
  connected, mounted, listed, loading, monitored, asks, onlineDevices, timer, interval,
  last, newDeviceTimers, newDevices, tasks, drops, unmounts, reloads, calls,
  dmUp, version, sites, dmMonitored, online, dmTimer, getSites, asked, wire, mounts,
  taken, dmDrops, dmMounted, errors,
  instant, entries, acked, sent, chp, new, isChecking, seen, cleaned, overwritten,
  deaths,
  logs, params, readers, pos, merged, count, phase,
  stConnected, up, known, status, overall, disabled, idle, loaded, fresh, ran, stCalls,
  stFaults, stReloads,
  arrived, forgotten, tgCalls, updateId, tgTimer, due, peers, quitting, processed,
  tgFaults,
  plc, plcUp, pvUp, pvSubscribed, pvAsked, pvInbox, pvIds, pvRqId, bfsStatus,
  plcConnected, required, blink, recent,
  value, devUp, dvUp, dvSubscribed, dvAsked, dvInbox, ids, rqId, snapshot, dvConnected,
  changes, missed,
  smUp, smGetSites, model, shown, smAsked, smWire, smMounts, smSilent, smFaults, smMounted,
  file, target, writes, watched, changed, psSeen, simulated, pwrStatus, deferred,
  psTimer, psUp, published, psFaults,
  now, msecTime, shortTimePrev, raw, sample, xmax,
  lubStatus, voltage, low, high, lubSent, lubSimulated

(* LogSanitizer: two devices, and at most two disturbances in a behaviour. *)
L == INSTANCE LogSanitizer WITH
  Sites <- {"a", "b"}, MaxDrops <- 1, MaxUnmounts <- 1, MaxReloads <- 1, MaxCalls <- 1

(* DeviceMonitor: two versions of the sites; one device is mounted by      *)
(* itself or with all below a; the names of b1 and a1 begin like others.   *)
D == INSTANCE DeviceMonitor WITH
  Sites <- <<[hp |-> {<<"a", "b">>, <<"a", "b1">>}, others |-> {}],
            [hp |-> {<<"a", "b">>, <<"x", "b">>, <<"a1", "d", "e">>}, others |-> {<<"a1", "d">>}]>>,
  Root <- <<"a">>, NamePrefixes <- {<<"a", "a1">>, <<"b", "b1">>},
  MountPoints <- {<<"a">>, <<"a", "b">>}, PushLog <- {},
  MaxDrops <- 1, MaxMounts <- 3, MaxErrors <- 0, MaxWire <- 2,
  up <- dmUp, monitored <- dmMonitored, timer <- dmTimer, drops <- dmDrops, mounted <-
  dmMounted

C == INSTANCE PushedCache WITH
  Devices <- {"a"}, Limit <- 2, FileLimit <- 2, MaxInstant <- 5, MaxDeaths <- 1

M == INSTANCE LogMerge WITH
  Devices <- 2, MaxTime <- 2, MaxLen <- 2, MaxLimit <- 2

(* StatusTree: a test that prints a warning; one fault or one reload in a  *)
(* behaviour.                                                              *)
T == INSTANCE StatusTree WITH
  Tests <- TreeTests, Periodic <- TreePeriodic, MaxFaults <- TreeFaults,
  MaxReloads <- TreeReloads, MaxRuns <- TreeRuns, Printed <- TreePrinted,
  connected <- stConnected, calls <- stCalls, reloads <- stReloads

(* Telegram: a callback query, a /restart and two messages, of three       *)
(* people, of whom the id of one does not fit.                             *)
G == INSTANCE Telegram WITH
  Sender <- BotSender, Messages <- BotMessages, Fitting <- BotFitting,
  Restarts <- BotRestarts, MaxCalls <- BotCalls, MaxFaults <- BotFaults,
  calls <- tgCalls, timer <- tgTimer

P == INSTANCE PlcView WITH
  Switches <- PlcSwitches, MaxQueue <- PlcQueue, MaxAsked <- PlcAsked, MaxIds <- PlcIds,
  up <- pvUp, subscribed <- pvSubscribed, asked <- pvAsked, inbox <- pvInbox, ids <-
  pvIds, rqId <- pvRqId, status <- bfsStatus, connected <- plcConnected

V == INSTANCE DeviceView WITH
  Paths <- ScreenPaths, MaxAsked <- ScreenAsked, MaxIds <- ScreenIds, MaxChanges <- ScreenChanges,
  up <- dvUp, subscribed <- dvSubscribed, asked <- dvAsked, inbox <- dvInbox, connected
  <- dvConnected

S == INSTANCE SitesMap WITH
  Sites <- MapSites, MaxFaults <- MapFaults, MaxMounts <- MapMounts, MaxWire <- MapWire,
  up <- smUp, getSites <- smGetSites, asked <- smAsked, wire <- smWire, mounts <-
  smMounts, silent <- smSilent, faults <- smFaults, mounted <- smMounted

(* PowerStatus: the file is written twice, or once with the connection     *)
(* lost once.                                                              *)
W == INSTANCE PowerStatus WITH
  Switches <- BfsSwitches, Limit <- BfsLimit, MaxWrites <- BfsWrites, MaxFaults <- BfsFaults,
  seen <- psSeen, status <- pwrStatus, timer <- psTimer, up <- psUp

X == INSTANCE ShortTimes WITH
  Wrap <- ShortWrap, Grain <- StampGrain, MaxTime <- LastTime

B == INSTANCE Lublicator WITH
  MinVoltage <- LubMin, MaxVoltage <- LubMax, InitVoltage <- LubVoltage,
  InitLow <- LubLow, InitHigh <- LubHigh,
  status <- lubStatus, sent <- lubSent, simulated <- lubSimulated

ASSUME
  /\ L!LogSanitizerAssumption
  /\ D!DeviceMonitorAssumption
  /\ C!PushedCacheAssumption

ASSUME ScopesAssumption == T!StatusTreeAssumption /\ G!TelegramAssumption

ASSUME DevicesAssumption == X!ShortTimesAssumption /\ W!PowerStatusAssumption /\ B!LublicatorAssumption

ASSUME ViewsAssumption ==
  P!PlcViewAssumption /\ V!DeviceViewAssumption /\ S!SitesMapAssumption

(* The lines of bfsview's file, who writes to the bot, what a test prints. *)
MCSwitches == <<"a", "b">>
MCSender == <<"p", "q", "p", "r">>
MCPrinted == [t1 |-> [type |-> "string", value |-> "w"]]

lVars == <<connected, mounted, listed, loading, monitored, asks, onlineDevices, timer,
          interval, last, newDeviceTimers, newDevices, tasks, drops, unmounts,
          reloads, calls>>
dVars == <<dmUp, version, sites, dmMonitored, online, dmTimer, getSites, asked, wire,
          mounts, taken, dmDrops, dmMounted, errors>>
cVars == <<instant, entries, acked, sent, chp, new, isChecking, seen, cleaned,
          overwritten, deaths>>
mVars == <<logs, params, readers, pos, merged, count, phase>>
tVars == <<stConnected, up, known, status, overall, disabled, idle, loaded, fresh,
          ran, stCalls, stFaults, stReloads>>
gVars == <<arrived, forgotten, tgCalls, updateId, tgTimer, due, peers, quitting,
          processed, tgFaults>>
pVars == <<plc, plcUp, pvUp, pvSubscribed, pvAsked, pvInbox, pvIds, pvRqId, bfsStatus,
          plcConnected, required, blink, recent>>
vVars == <<value, devUp, dvUp, dvSubscribed, dvAsked, dvInbox, ids, rqId, snapshot,
          dvConnected, changes, missed>>
sVars == <<smUp, smGetSites, model, shown, smAsked, smWire, smMounts, smSilent, smFaults,
          smMounted>>
wVars == <<file, target, writes, watched, changed, psSeen, simulated, pwrStatus,
          deferred, psTimer, psUp, published, psFaults>>
xVars == <<now, msecTime, shortTimePrev, raw, sample, xmax>>
bVars == <<lubStatus, voltage, low, high, lubSent, lubSimulated>>
allVars == <<part, lVars, dVars, cVars, mVars, tVars, gVars, pVars, vVars, sVars, wVars, xVars, bVars>>

(* Of the parts that do not run, one initial state is enough.              *)
MCInit ==
  /\ part \in {"checks", "devices", "pushed", "merge", "tests", "telegram", "plc",
               "device", "map", "power", "times", "lublicator"}
  /\ L!Init /\ (part # "checks" => mounted = {})
  /\ D!Init
  /\ C!Init
  /\ M!Init /\ (part # "merge" => /\ logs = <<<<>>, <<>>>> /\ params = [since |-> 1, until |-> 1, limit |-> 1])
  /\ T!Init /\ (part # "tests" => up /\ disabled = {})
  /\ G!Init
  /\ P!Init
  /\ V!Init /\ (part # "device" => devUp)
  /\ S!Init
  /\ W!Init /\ (part # "power" => ~simulated)
  /\ X!Init /\ (part # "times" => now = 0 /\ ~raw)
  /\ B!Init

MCNext ==
  \/ part = "checks" /\ L!Next /\ drops' + unmounts' + reloads' + calls' <= 2
     /\ UNCHANGED <<part, dVars, cVars, mVars, tVars, gVars, pVars, vVars, sVars, wVars, xVars, bVars>>
  \/ part = "devices" /\ D!Next
     /\ UNCHANGED <<part, lVars, cVars, mVars, tVars, gVars, pVars, vVars, sVars, wVars, xVars, bVars>>
  \/ part = "pushed" /\ C!Next
     /\ UNCHANGED <<part, lVars, dVars, mVars, tVars, gVars, pVars, vVars, sVars, wVars, xVars, bVars>>
  \/ part = "merge" /\ M!Next
     /\ UNCHANGED <<part, lVars, dVars, cVars, tVars, gVars, pVars, vVars, sVars, wVars, xVars, bVars>>
  \/ part = "tests" /\ T!Next /\ stFaults' + stReloads' <= 1
     /\ UNCHANGED <<part, lVars, dVars, cVars, mVars, gVars, pVars, vVars, sVars, wVars, xVars, bVars>>
  \/ part = "telegram" /\ G!Next
     /\ UNCHANGED <<part, lVars, dVars, cVars, mVars, tVars, pVars, vVars, sVars, wVars, xVars, bVars>>
  \/ part = "plc" /\ P!Next
     /\ UNCHANGED <<part, lVars, dVars, cVars, mVars, tVars, gVars, vVars, sVars, wVars, xVars, bVars>>
  \/ part = "device" /\ V!Next
     /\ UNCHANGED <<part, lVars, dVars, cVars, mVars, tVars, gVars, pVars, sVars, wVars, xVars, bVars>>
  \/ part = "map" /\ S!Next
     /\ UNCHANGED <<part, lVars, dVars, cVars, mVars, tVars, gVars, pVars, vVars, wVars, xVars, bVars>>
  \/ part = "power" /\ W!Next /\ writes' + psFaults' <= 2
     /\ UNCHANGED <<part, lVars, dVars, cVars, mVars, tVars, gVars, pVars, vVars, sVars, xVars, bVars>>
  \/ part = "times" /\ X!Next
     /\ UNCHANGED <<part, lVars, dVars, cVars, mVars, tVars, gVars, pVars, vVars, sVars, wVars, bVars>>
  \/ part = "lublicator" /\ B!Next
     /\ UNCHANGED <<part, lVars, dVars, cVars, mVars, tVars, gVars, pVars, vVars, sVars, wVars, xVars>>

MCSpec == MCInit /\ [][MCNext]_allVars

-----------------------------------------------------------------------------
(* The old history provider.  The sanitizer starts one task at a time, and *)
(* none is left when the connection is lost (LogSanitizer); when nothing   *)
(* is under way the devices whose logs are kept are those of the present   *)
(* sites, and those mounted are online, but for those taken with another   *)
(* mount (DeviceMonitor); what a device was told is stored is stored, if   *)
(* only in a temporary file, unless the cleaner removed it or a push wrote *)
(* over such a file after a death, and the oldest file bears the firstLog  *)
(* mark (PushedCache); and an answer is the logs of the devices, merged by *)
(* time and cut at the limit (LogMerge).                                   *)
DevicesChecked ==
  /\ L!TypeOK /\ L!OneAtATime /\ L!IdleWhenLost
  /\ D!TypeOK /\ D!DevicesKnown
  /\ C!TypeOK /\ C!AckedKept /\ C!FirstMarked
  /\ M!MergedRight

(* hscope-old.  Every node shows the worst status at or below it           *)
(* (StatusTree), and what the server forgets was processed, the senders of *)
(* messages whose ids fit stored (Telegram).                               *)
ScopesTrue == T!TypeOK /\ G!TelegramTypeOK /\ T!OverallIsWorst /\ G!NothingSkipped

(* The views show what the device has or had a moment ago, however         *)
(* answers, signals and connections mix (PlcView, DeviceView); and the map *)
(* the sites that are mounted, but those hidden by a failed call           *)
(* (SitesMap).                                                             *)
ViewsTrue ==
  /\ P!TypeOK /\ V!TypeOK /\ S!TypeOK
  /\ P!ShownIsRecent /\ V!ShownIsCurrent /\ S!ShownMounted

(* What is published is a status of all switches of one writing            *)
(* (PowerStatus), restored times are close to the recorded ones            *)
(* (ShortTimes), and the bits of the lublicator agree (Lublicator).        *)
DevicesTrue ==
  /\ [](W!TypeOK /\ X!TypeOK /\ B!TypeOK)
  /\ W!PublishedIsWhole /\ X!TimesClose /\ B!BitsAgree
=============================================================================
