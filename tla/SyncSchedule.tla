---------------------------- MODULE SyncSchedule ----------------------------
(***************************************************************************)
(* Which slave is synced when: ShvJournalNode::syncLog, the round robin    *)
(* timer of the constructor, the mntchng branch of onRpcMessageReceived    *)
(* and the syncLog method of shvjournalnode.cpp in historyprovider3.       *)
(*                                                                         *)
(* A sync itself (FileSync, LegacySync) is abstracted to its begin and its *)
(* end.  Paths are compared by starts_with, so a path stands for the       *)
(* slaves whose shv_path begins with it: a slave "a" stands for its        *)
(* sibling "ab", too.                                                      *)
(***************************************************************************)
EXTENDS Integers, Sequences

CONSTANTS
  Slaves,   \* the shv_paths of m_slaveHps
  Order,    \* m_slaveHps, a sequence of slaves
  Devices,  \* the slaves that are sites of their own: they have a dirty log
  Push,     \* the devices with LogType::PushLog
  Paths,    \* the paths used by requests and mntchng signals
  Under,    \* Under[p]: the slaves whose shv_path starts with p
  Requests, \* syncLog calls
  RootIsCwd,\* is journalCacheRoot "."?
  Quiet,    \* the callback that does nothing
  Reset     \* the callback that sends the signal logReset

ASSUME ConstantsAssumption ==
  /\ Order \in Seq(Slaves) /\ Order # <<>>
  /\ \A s \in Slaves : \E i \in 1..Len(Order) : Order[i] = s
  /\ \A i, j \in 1..Len(Order) : Order[i] = Order[j] => i = j
  /\ Push \subseteq Devices /\ Devices \subseteq Slaves
  /\ Slaves \subseteq Paths
  /\ Under \in [Paths -> SUBSET Slaves]
  /\ \A s \in Slaves : s \in Under[s]
  /\ \A p \in Paths, s \in Slaves : s \in Under[p] => Under[s] \subseteq Under[p]
  /\ Quiet \notin Requests /\ Reset \notin Requests
  /\ RootIsCwd \in BOOLEAN

VARIABLES
  syncInProgress, \* m_syncInProgress
  running,        \* how many syncers of a slave exist
  groups,         \* the pending whenAll continuations
  clears,         \* the singleShot calls that will clear syncInProgress
  dirty,          \* age of the oldest entry of the slave's dirty log
  ageCache,       \* dirtylog_age_cache
  next,           \* sync_iterator, as an index
  request         \* state of each syncLog call

syncs == <<syncInProgress, running, groups, clears>>
ages == <<dirty, ageCache, next>>
vars == <<syncs, ages, request>>

\* sites of one syncLog call, those still being synced, its success_cb
Group == [sites : SUBSET Slaves, left : SUBSET Slaves,
          cb : Requests \cup {Quiet, Reset}]

Init ==
  /\ syncInProgress = [s \in Slaves |-> FALSE]
  /\ running = [s \in Slaves |-> 0]
  /\ groups = {}
  /\ clears = {}
  /\ dirty = [s \in Slaves |-> "none"]
  /\ ageCache = [s \in Slaves |-> "absent"]
  /\ next = 1
  /\ request = [r \in Requests |-> "new"]

-----------------------------------------------------------------------------
(* The loop of syncLog.                                                    *)

(* Mutant: a slave that is being synced is synced again.                   *)
FreeIgnoresFlags(p) == Under[p]

(* The matching slaves that are not being synced.                          *)
Free(p) == {s \in Under[p] : ~syncInProgress[s]}

(* What a syncLog call with callback cb makes of the slaves ss it found.   *)
NewGroup(ss, cb) == [sites |-> ss \ Push, left |-> ss \ Push, cb |-> cb]

(* One or more syncLog calls that flag the slaves ss and start the syncers *)
(* of gs.  The flag of a push log device is set too, and never cleared.    *)
Begin(ss, gs) ==
  /\ syncInProgress' = [s \in Slaves |-> syncInProgress[s] \/ s \in ss]
  /\ running' = [s \in Slaves |->
       running[s] + IF \E g \in gs : s \in g.left THEN 1 ELSE 0]
  /\ groups' = groups \cup {g \in gs : g.sites # {}}
  /\ UNCHANGED clears

SyncLog(p, cb) == Begin(Free(p), {NewGroup(Free(p), cb)})

-----------------------------------------------------------------------------
(* The age of the dirty log as the timer sees it: what it remembers from   *)
(* an earlier tick, or what it reads now.  No entry counts as old.  The    *)
(* cache directory of a slave begins with journalCacheRoot, and the root   *)
(* is put before it once more: the file is not there, unless a "./" more   *)
(* does no harm.                                                           *)
KnownAge(s) ==
  IF ageCache[s] # "absent" THEN ageCache[s]
  ELSE IF RootIsCwd /\ dirty[s] = "young" THEN "young" ELSE "old"

(* Mutant: what was remembered is never forgotten, and synced only once.   *)
TickKeepsAge ==
  LET s == Order[next] IN
  /\ IF KnownAge(s) = "old" /\ ageCache[s] = "absent"
     THEN SyncLog(s, Quiet) ELSE UNCHANGED syncs
  /\ ageCache' = [ageCache EXCEPT ![s] = KnownAge(s)]
  /\ next' = IF next = Len(Order) THEN 1 ELSE next + 1
  /\ UNCHANGED <<dirty, request>>

(* The timer looks at one slave per tick and syncs it if its dirty log is  *)
(* older than logMaxAge.                                                   *)
Tick ==
  LET s == Order[next] IN
  /\ \/ /\ KnownAge(s) = "old"
        /\ SyncLog(s, Quiet)
        /\ ageCache' = [ageCache EXCEPT ![s] = "absent"]
     \/ /\ KnownAge(s) = "young"
        /\ ageCache' = [ageCache EXCEPT ![s] = "young"]
        /\ UNCHANGED syncs
  /\ next' = IF next = Len(Order) THEN 1 ELSE next + 1
  /\ UNCHANGED <<dirty, request>>

-----------------------------------------------------------------------------
(* mntchng(true) on p calls syncLog for one slave after the other, in the  *)
(* order of m_slaveHps.  A slave that an earlier call of the loop has      *)
(* flagged is skipped; so those called are the ones no earlier one is a    *)
(* prefix of.                                                              *)
Position(s) == CHOOSE i \in 1..Len(Order) : Order[i] = s

Called(p) ==
  LET C == Free(p) \ Push IN
  {s \in C : \A r \in C : Position(r) < Position(s) => s \notin Under[r]}

(* The slaves that the call for s finds free.                              *)
FoundBy(p, s) ==
  Free(s) \ UNION {Under[r] : r \in {t \in Called(p) : Position(t) < Position(s)}}

Mount(p) ==
  /\ Begin(UNION {Free(s) : s \in Called(p)},
           {NewGroup(FoundBy(p, s), Reset) : s \in Called(p)})
  /\ UNCHANGED <<ages, request>>

-----------------------------------------------------------------------------
(* The syncLog method.  Without waitForFinished it is answered at once,    *)
(* otherwise by the callback of the group, if there is one.                *)
Request(r, p, waitForFinished) ==
  /\ request[r] = "new"
  /\ SyncLog(p, IF waitForFinished THEN r ELSE Quiet)
  /\ request' = [request EXCEPT
       ![r] = IF waitForFinished THEN "waiting" ELSE "answered"]
  /\ UNCHANGED ages

(* Mutant: the first finished syncer of a group completes it.              *)
LastOneAny(g, s) == TRUE

(* Was s the last one whenAll waited for?                                  *)
LastOne(g, s) == g.left = {s}

(* Mutant: the caller is answered if he got all he asked for.              *)
AnswerForOne(g) ==
  request' = [r \in Requests |->
    IF g.cb = r /\ \A s \in Slaves : ~syncInProgress[s] => s \in g.sites
    THEN "answered" ELSE request[r]]

Answer(g) ==
  request' = [r \in Requests |-> IF g.cb = r THEN "answered" ELSE request[r]]

(* A syncer ends, well or badly, after it may have trimmed the dirty log   *)
(* of the slave.  With the last one of its group the continuation runs.    *)
FutureDone(s) ==
  \E g \in groups :
    /\ s \in g.left
    /\ running' = [running EXCEPT ![s] = @ - 1]
    /\ \/ /\ LastOne(g, s)
          /\ groups' = groups \ {g}
          /\ clears' = clears \cup {g.sites}
          /\ Answer(g)
       \/ /\ ~LastOne(g, s)
          /\ groups' = (groups \ {g}) \cup {[g EXCEPT !.left = @ \ {s}]}
          /\ UNCHANGED <<clears, request>>
    /\ \E a \in {"none", "young", dirty[s]} :
         /\ s \notin Devices => a = "none"
         /\ dirty' = [dirty EXCEPT ![s] = a]
    /\ UNCHANGED <<syncInProgress, ageCache, next>>

(* The singleShot(0) of the continuation.                                  *)
ClearFlags(c) ==
  /\ c \in clears
  /\ clears' = clears \ {c}
  /\ syncInProgress' = [s \in Slaves |-> syncInProgress[s] /\ s \notin c]
  /\ UNCHANGED <<running, groups, ages, request>>

-----------------------------------------------------------------------------
(* chng signals and the clock.                                             *)

Record(s) ==
  /\ s \in Devices /\ dirty[s] = "none"
  /\ dirty' = [dirty EXCEPT ![s] = "young"]
  /\ UNCHANGED <<syncs, ageCache, next, request>>

DirtyAges(s) ==
  /\ dirty[s] = "young"
  /\ dirty' = [dirty EXCEPT ![s] = "old"]
  /\ UNCHANGED <<syncs, ageCache, next, request>>

KnownAges(s) ==
  /\ ageCache[s] = "young"
  /\ ageCache' = [ageCache EXCEPT ![s] = "old"]
  /\ UNCHANGED <<syncs, dirty, next, request>>

Next ==
  \/ Tick
  \/ \E p \in Paths : Mount(p)
  \/ \E r \in Requests, p \in Paths, w \in BOOLEAN : Request(r, p, w)
  \/ \E s \in Slaves : FutureDone(s) \/ Record(s) \/ DirtyAges(s) \/ KnownAges(s)
  \/ \E c \in clears : ClearFlags(c)

Spec == Init /\ [][Next]_vars

(* The timers fire, the clock runs and every syncer ends.                  *)
Fairness ==
  /\ WF_vars(Tick)
  /\ \A s \in Slaves : WF_vars(FutureDone(s)) /\ WF_vars(KnownAges(s))
  /\ \A c \in SUBSET Slaves : WF_vars(ClearFlags(c))

FairSpec == Spec /\ Fairness

-----------------------------------------------------------------------------
TypeOK ==
  /\ syncInProgress \in [Slaves -> BOOLEAN]
  /\ running \in [Slaves -> Nat]
  /\ groups \subseteq Group
  /\ clears \subseteq SUBSET Slaves
  /\ dirty \in [Slaves -> {"none", "young", "old"}]
  /\ ageCache \in [Slaves -> {"absent", "young", "old"}]
  /\ next \in 1..Len(Order)
  /\ request \in [Requests -> {"new", "waiting", "answered"}]

(* No slave is ever synced by two syncers, which would append to the same  *)
(* cache files, whatever timer ticks, mounts and requests coincide.        *)
OneSyncer == \A s \in Slaves : running[s] <= 1

(* A running syncer is covered by its flag: a late clearing of the flags   *)
(* of one group (the singleShot) never hits a sync begun after it.         *)
FlagCoversSync == \A s \in Slaves : running[s] > 0 => syncInProgress[s]

(* Every slave that can be synced is synced again and again, if only by    *)
(* the timer, and the remembered age of its dirty log never prevents it.   *)
SyncedAgain ==
  \A s \in Slaves \ Push : []<><<running'[s] > running[s]>>_vars

(* A waiting caller whose call started a sync is answered.                 *)
StartedAnswered ==
  \A r \in Requests : (\E g \in groups : g.cb = r) ~> request[r] = "answered"

(* The comment of the option logMaxAge: it is the age of the log from      *)
(* which on the timer starts a sync.                                       *)
YoungNotSynced ==
  [][LET s == Order[next] IN
       next' # next /\ running'[s] > running[s] => dirty[s] # "young"]_vars

(* The description of syncLog (SYNCLOG_DESC): with waitForFinished the     *)
(* method waits until the operation is finished and only then returns a    *)
(* response.  It never does if there was nothing to start.                 *)
WaitersAnswered ==
  \A r \in Requests : request[r] = "waiting" ~> request[r] = "answered"


-----------------------------------------------------------------------------
(* An instance: a device "a", its sibling "ab" whose path begins with "a"  *)
(* and which is a slave history provider, and a push log device "p".       *)
MCOrder == <<"ab", "a", "p">>
MCUnder == [a |-> {"a", "ab"}, ab |-> {"ab"}, p |-> {"p"}, shv |-> {"a", "ab", "p"}]
=============================================================================
