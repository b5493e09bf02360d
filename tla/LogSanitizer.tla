----------------------------- MODULE LogSanitizer -----------------------------
(***************************************************************************)
(* When the logs of which device are checked in shvhistoryprovider:        *)
(* DeviceMonitor knows the devices and which of them are online;           *)
(* LogSanitizer starts one CheckLogTask after another, round robin by a    *)
(* timer, and out of turn half a minute after a device has appeared, to    *)
(* replace its dirty log.  What a task does is in CheckLog; here it runs   *)
(* and ends.  Devices with push log are left out.                          *)
(***************************************************************************)
EXTENDS Integers, Sequences, FiniteSets, Functions, FiniteSetsExt

CONSTANTS
  Sites,      \* the devices of sites.json
  MaxDrops,   \* bound: how often the connection to the broker is lost
  MaxUnmounts,\* bound: how often a device leaves the broker
  MaxReloads, \* bound: how often sites.json changes
  MaxCalls    \* bound: calls from users and Connected signals of devices

LogSanitizerAssumption ==
  /\ Sites # {} /\ IsFiniteSet(Sites)
  /\ MaxDrops \in Nat /\ MaxUnmounts \in Nat /\ MaxReloads \in Nat /\ MaxCalls \in Nat

VARIABLES
  connected, \* the state of deviceConnection is BrokerConnected
  mounted,   \* the devices mounted at the broker
  listed,    \* the devices in sites.json now
  loading,   \* getSites was called
  monitored, \* m_monitoredDevices
  asks,      \* the calls of ls for a device that are not answered
  onlineDevices, \* how often a device is in m_onlineDevices
  timer,     \* m_timer of LogSanitizer is active
  interval,  \* the number of devices m_interval was made for
  last,      \* m_lastCheckedDevice
  newDeviceTimers, \* the devices with a timer of half a minute
  newDevices,      \* m_newDevices
  tasks,     \* the CheckLogTask of a device
  drops, unmounts, reloads, calls

monitorVars == <<connected, mounted, listed, loading, monitored, asks, onlineDevices>>
sanitizerVars == <<timer, interval, last, newDeviceTimers, newDevices, tasks>>
bounds == <<drops, unmounts, reloads, calls>>
vars == <<monitorVars, sanitizerVars, bounds>>

(* replace and check are started by the sanitizer itself, trim and asked   *)
(* for a user.                                                             *)
Automatic == {"replace", "check"}
TaskState == {"none", "trim", "asked"} \cup Automatic

Init ==
  /\ connected = FALSE /\ mounted \in SUBSET Sites /\ listed = Sites
  /\ loading = FALSE /\ monitored = <<>>
  /\ asks = [s \in Sites |-> 0] /\ onlineDevices = [s \in Sites |-> 0]
  /\ timer = TRUE /\ interval = 1 /\ last = -1
  /\ newDeviceTimers = {} /\ newDevices = <<>>
  /\ tasks = [s \in Sites |-> "none"]
  /\ drops = 0 /\ unmounts = 0 /\ reloads = 0 /\ calls = 0

-----------------------------------------------------------------------------
(* LogSanitizer.                                                           *)

NoTask(tk) == \A s \in Sites : tk[s] = "none"

(* sanitizeLogCache(site_path, check_type) starts a task unless the device *)
(* has one or waits to have its dirty log replaced.                        *)
Sanitized(tk, s, kind, waiting) ==
  IF connected /\ tk[s] = "none" /\ s \notin newDeviceTimers' /\ s \notin Range(waiting)
  THEN [tk EXCEPT ![s] = kind] ELSE tk

(* Mutant: the next device is taken though other tasks run.                *)
CheckQueueEagerly(tk, q) ==
  IF q # <<>>
  THEN /\ newDevices' = Tail(q)
       /\ tasks' = Sanitized(tk, Head(q), "replace", Tail(q))
  ELSE newDevices' = q /\ tasks' = tk

(* checkNewDevicesQueue, when the tasks are tk and the queue is q.         *)
CheckQueue(tk, q) ==
  IF q # <<>> /\ NoTask(tk)
  THEN /\ newDevices' = Tail(q)
       /\ tasks' = Sanitized(tk, Head(q), "replace", Tail(q))
  ELSE newDevices' = q /\ tasks' = tk

(* setupTimer: the interval is shared by the online devices; the timer is  *)
(* started only when the interval changes.  If more than the new interval  *)
(* has passed already, the timeout comes at once.                          *)
SetupTimer ==
  LET n == MapThenSumSet(LAMBDA s : onlineDevices'[s], Sites)
      count == IF n = 0 THEN 1 ELSE n
  IN /\ interval' = count
     /\ timer' = (timer \/ count # interval)

(* The finished signal of a task; that of a trim does not look at the      *)
(* queue.                                                                  *)
TaskFinished(s) ==
  /\ tasks[s] # "none"
  /\ UNCHANGED newDeviceTimers
  /\ LET tk == [tasks EXCEPT ![s] = "none"]
     IN IF tasks[s] = "trim" THEN tasks' = tk /\ UNCHANGED newDevices
        ELSE CheckQueue(tk, newDevices)
  /\ UNCHANGED <<monitorVars, bounds, timer, interval, last>>

(* Half a minute has passed since the device appeared.                     *)
NewDeviceTimeout(s) ==
  /\ s \in newDeviceTimers
  /\ newDeviceTimers' = newDeviceTimers \ {s}
  /\ CheckQueue(tasks, Append(newDevices, s))
  /\ UNCHANGED <<monitorVars, bounds, timer, interval, last>>

(* The devices whose turn may come.                                        *)
Sanitizable == SelectSeq(monitored, LAMBDA s : onlineDevices[s] > 0)

Turn == IF last + 1 >= Len(Sanitizable) THEN 0 ELSE last + 1

(* sanitizeLogCache by the timer: it gives up if any task runs.            *)
Periodic ==
  /\ timer /\ connected
  /\ NoTask(tasks)
  /\ Sanitizable # <<>>
  /\ last' = Turn
  /\ UNCHANGED newDeviceTimers
  /\ tasks' = Sanitized(tasks, Sanitizable[Turn + 1], "check", newDevices)
  /\ UNCHANGED <<monitorVars, bounds, timer, interval, newDevices>>

-----------------------------------------------------------------------------
(* DeviceMonitor.                                                          *)

Connect ==
  /\ ~connected
  /\ connected' = TRUE /\ loading' = TRUE
  /\ UNCHANGED <<mounted, listed, monitored, asks, onlineDevices, sanitizerVars, bounds>>

(* onShvStateChanged of the sanitizer and abort of the tasks.              *)
ForgetAll ==
  /\ timer' = FALSE /\ newDeviceTimers' = {} /\ newDevices' = <<>>
  /\ tasks' = [s \in Sites |-> "none"]
  /\ UNCHANGED <<interval, last>>

Disconnect ==
  /\ connected /\ drops < MaxDrops
  /\ connected' = FALSE /\ loading' = FALSE
  /\ monitored' = <<>>
  /\ asks' = [s \in Sites |-> 0] /\ onlineDevices' = [s \in Sites |-> 0]
  /\ ForgetAll
  /\ drops' = drops + 1
  /\ UNCHANGED <<mounted, listed, unmounts, reloads, calls>>

(* The devices of a set in the order of the sites, whichever it is.        *)
InOrder(S) == CHOOSE q \in [1..Cardinality(S) -> S] : Range(q) = S

(* scanDevices on the answer of getSites: whether a new device is online   *)
(* is asked for, a removed one is forgotten.                               *)
SitesLoaded ==
  /\ connected /\ loading
  /\ loading' = FALSE
  /\ LET new == listed \ Range(monitored) IN
     /\ monitored' = SelectSeq(monitored, LAMBDA s : s \in listed) \o InOrder(new)
     /\ asks' = [s \in Sites |-> IF s \in new THEN asks[s] + 1 ELSE asks[s]]
     /\ onlineDevices' = [s \in Sites |->
          IF s \in Range(monitored) \ listed /\ onlineDevices[s] > 0
          THEN onlineDevices[s] - 1 ELSE onlineDevices[s]]
  /\ UNCHANGED <<connected, mounted, listed, sanitizerVars, bounds>>

(* The reloaded signal of the sites.                                       *)
SitesChange(S) ==
  /\ reloads < MaxReloads
  /\ S # listed /\ listed' = S
  /\ loading' = connected
  /\ reloads' = reloads + 1
  /\ UNCHANGED <<connected, mounted, monitored, asks, onlineDevices, sanitizerVars,
                 drops, unmounts, calls>>

(* The answer of ls: an online device is appended to m_onlineDevices, and  *)
(* LogSanitizer::onDeviceAppeared plans the replacement of its dirty log.  *)
LsAnswered(s) ==
  /\ asks[s] > 0
  /\ asks' = [asks EXCEPT ![s] = @ - 1]
  /\ IF s \in mounted
     THEN /\ onlineDevices' = [onlineDevices EXCEPT ![s] = @ + 1]
          /\ newDeviceTimers' = newDeviceTimers \cup {s}
          /\ SetupTimer
     ELSE UNCHANGED <<onlineDevices, newDeviceTimers, timer, interval>>
  /\ UNCHANGED <<connected, mounted, listed, loading, monitored, last, newDevices, tasks, bounds>>

Mount(s) ==
  /\ s \notin mounted
  /\ mounted' = mounted \cup {s}
  /\ asks' = IF connected /\ s \in Range(monitored) THEN [asks EXCEPT ![s] = @ + 1] ELSE asks
  /\ UNCHANGED <<connected, listed, loading, monitored, onlineDevices, sanitizerVars, bounds>>

(* removeOne                                                               *)
RemoveOne(q, s) ==
  LET i == Min({j \in DOMAIN q : q[j] = s})
  IN SubSeq(q, 1, i - 1) \o SubSeq(q, i + 1, Len(q))

(* Everything that waits for s is given up, the task with it.              *)
DeviceDisappeared(s) ==
  /\ onlineDevices' = [onlineDevices EXCEPT ![s] = @ - 1]
  /\ SetupTimer
  /\ newDeviceTimers' = newDeviceTimers \ {s}
  /\ LET q == IF s \in Range(newDevices) THEN RemoveOne(newDevices, s) ELSE newDevices
         tk == [tasks EXCEPT ![s] = "none"]
     IN IF tasks[s] \in {"none", "trim"} THEN newDevices' = q /\ tasks' = tk
        ELSE CheckQueue(tk, q)

Unmount(s) ==
  /\ s \in mounted /\ unmounts < MaxUnmounts
  /\ mounted' = mounted \ {s}
  /\ unmounts' = unmounts + 1
  /\ IF connected /\ s \in Range(monitored) /\ onlineDevices[s] > 0
     THEN DeviceDisappeared(s)
     ELSE UNCHANGED <<onlineDevices, timer, interval, newDeviceTimers, newDevices, tasks>>
  /\ UNCHANGED <<connected, listed, loading, monitored, asks, last, drops, reloads, calls>>

-----------------------------------------------------------------------------
(* Calls.                                                                  *)

Called == calls < MaxCalls /\ calls' = calls + 1

(* The trim method of a dirty log: trimDirtyLog.                           *)
Trim(s) ==
  /\ Called
  /\ connected /\ onlineDevices[s] > 0 /\ tasks[s] = "none"
  /\ tasks' = [tasks EXCEPT ![s] = "trim"]
  /\ UNCHANGED <<monitorVars, timer, interval, last, newDeviceTimers, newDevices,
                 drops, unmounts, reloads>>

(* The method sanitizeLogCache of a device.                                *)
SanitizeLogCache(s) ==
  /\ Called
  /\ connected
  /\ UNCHANGED newDeviceTimers
  /\ tasks' = Sanitized(tasks, s, "asked", newDevices)
  /\ UNCHANGED <<monitorVars, timer, interval, last, newDevices, drops, unmounts, reloads>>

(* A connector of the device reports Connected: onDeviceDataChanged.       *)
ConnectorConnected(s) ==
  /\ Called
  /\ connected /\ s \in Range(monitored)
  /\ newDeviceTimers' = newDeviceTimers \cup {s}
  /\ UNCHANGED <<monitorVars, timer, interval, last, newDevices, tasks, drops, unmounts, reloads>>

Next ==
  \/ Connect \/ Disconnect \/ SitesLoaded \/ Periodic
  \/ \E S \in SUBSET Sites : SitesChange(S)
  \/ \E s \in Sites :
       \/ TaskFinished(s) \/ NewDeviceTimeout(s) \/ LsAnswered(s) \/ Mount(s) \/ Unmount(s)
       \/ Trim(s) \/ SanitizeLogCache(s) \/ ConnectorConnected(s)

Spec == Init /\ [][Next]_vars

(* Answers come, timers fire, tasks end (a call to a device has a timeout),*)
(* and the timer of the sanitizer does not always meet a running task.     *)
Fairness ==
  /\ WF_vars(Connect) /\ WF_vars(SitesLoaded)
  /\ SF_vars(Periodic)
  /\ \A s \in Sites : /\ WF_vars(TaskFinished(s))
                      /\ WF_vars(NewDeviceTimeout(s))
                      /\ WF_vars(LsAnswered(s))

FairSpec == Spec /\ Fairness

-----------------------------------------------------------------------------
TypeOK ==
  /\ connected \in BOOLEAN /\ loading \in BOOLEAN /\ timer \in BOOLEAN
  /\ mounted \subseteq Sites /\ listed \subseteq Sites
  /\ monitored \in Seq(Sites) /\ IsInjective(monitored)
  /\ asks \in [Sites -> Nat] /\ onlineDevices \in [Sites -> Nat]
  /\ interval \in Nat \ {0} /\ last \in Nat \cup {-1}
  /\ newDeviceTimers \subseteq Sites /\ newDevices \in Seq(Sites)
  /\ tasks \in [Sites -> TaskState]

(* The sanitizer does not download from two devices at a time: a task it   *)
(* starts itself waits until all others have ended, also those asked for   *)
(* by users.                                                               *)
OneAtATime ==
  Cardinality({s \in Sites : tasks[s] \in Automatic}) <= 1

(* Without a connection nothing runs and nothing waits: what was planned   *)
(* for devices of the old connection is forgotten.                         *)
IdleWhenLost ==
  ~connected => NoTask(tasks) /\ newDevices = <<>> /\ newDeviceTimers = {}

(* The periodic check (checktype.h) comes to every device that stays       *)
(* online and does not wait to have its dirty log replaced, again and      *)
(* again.                                                                  *)
Stays(s) == connected /\ onlineDevices[s] > 0 /\ s \in Range(monitored)

CheckedAgain ==
  \A s \in Sites :
    <>[](Stays(s) /\ s \notin newDeviceTimers \cup Range(newDevices))
      => []<>(tasks[s] = "check")

(* On device appearance the dirty log is to be removed as soon as possible *)
(* (checktype.h): a device that waits for it does not wait forever.        *)
QueueServed == \A s \in Sites : s \in Range(newDevices) ~> s \notin Range(newDevices)

=============================================================================
