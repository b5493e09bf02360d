----------------------------- MODULE PushedCache -----------------------------
(***************************************************************************)
(* The cache of shvhistoryprovider for devices with push log: pushLog      *)
(* (rootnode.cpp) rewrites the files that overlap the pushed piece,        *)
(* DiskCleaner removes the oldest files of devices that occupy more than   *)
(* their share.  The cleaner lets events in while it scans directories, so *)
(* a piece may be pushed between its scan and its removals.                *)
(* A device logs at most one entry at an instant and pushes in order, from *)
(* the end of what was acknowledged, and the same or more again when the   *)
(* answer is lost.                                                         *)
(***************************************************************************)
EXTENDS Integers, Sequences, FiniteSets, Functions, FiniteSetsExt

CONSTANTS
  Devices,   \* the monitored devices, all with push log
  Limit,     \* m_cacheSizeLimit, in entries
  FileLimit, \* Application::CHUNK_RECORD_COUNT
  MaxInstant,\* bound: the last instant
  MaxDeaths  \* bound: how often the process dies

PushedCacheAssumption ==
  /\ Devices # {} /\ IsFiniteSet(Devices)
  /\ Limit \in Nat \ {0} /\ FileLimit \in Nat \ {0, 1}
  /\ MaxInstant \in Nat \ {0} /\ MaxDeaths \in Nat

VARIABLES
  instant, \* the present
  entries, \* the instants at which a device logged
  acked,   \* the end of what was acknowledged to a device
  sent,    \* the end of what it has pushed
  chp,     \* the regular files of a device
  new,     \* the files a death has left under their temporary names
  isChecking, \* m_isChecking of DiskCleaner
  seen,    \* what its scan has found in which directories
  cleaned, \* history: the entries DiskCleaner has removed
  overwritten, \* history: the entries of files that a death has left and a push wrote over
  deaths

vars == <<instant, entries, acked, sent, chp, new, isChecking, seen, cleaned, overwritten, deaths>>

Instants == 1..MaxInstant
CacheFile == [since : Instants, until : Instants, recs : Seq(Instants), first : BOOLEAN]

Nothing == [d \in {} |-> [size |-> 0, all |-> 0, oldest |-> 0]]

Init ==
  /\ instant = 1
  /\ entries = [d \in Devices |-> {}] /\ acked = [d \in Devices |-> 1] /\ sent = [d \in Devices |-> 1]
  /\ chp = [d \in Devices |-> {}] /\ new = [d \in Devices |-> {}]
  /\ isChecking = FALSE /\ seen = Nothing /\ cleaned = [d \in Devices |-> {}]
  /\ overwritten = [d \in Devices |-> {}]
  /\ deaths = 0

(* Time passes and some devices log.                                       *)
DevicesLog(D) ==
  /\ instant < MaxInstant
  /\ instant' = instant + 1
  /\ entries' = [d \in Devices |-> IF d \in D THEN entries[d] \cup {instant + 1} ELSE entries[d]]
  /\ UNCHANGED <<acked, sent, chp, new, isChecking, seen, cleaned, overwritten, deaths>>

-----------------------------------------------------------------------------
(* pushLog.                                                                *)

(* The names of the files are the instants they begin at.                  *)
Oldest(F) == CHOOSE f \in F : \A g \in F : f.since <= g.since
Newest(F) == CHOOSE f \in F : \A g \in F : g.since <= f.since

(* What a loop over the files of F has been through when it is left.       *)
Beginnings(F) == {B \in SUBSET F : \A f \in B, g \in F \ B : f.since < g.since}

(* LogDir::findFiles: from the file that holds since to those that begin   *)
(* not after until; the last file alone counts only if it reaches since.   *)
Matching(F, since, until) ==
  LET begin == Max({0} \cup {f.since : f \in {g \in F : g.since <= since}})
      found == {f \in F : f.since >= begin /\ f.since <= until}
  IN IF Cardinality(found) = 1 /\ \A f \in found : (\A g \in F : g.since <= f.since) /\ f.until < since
     THEN {} ELSE found

(* What a rewritten first file keeps of the time before the piece.         *)
ToPrepend(f, since) == SelectSeq(f.recs, LAMBDA e : e < since)

(* What follows the piece if the last file l reaches beyond it: the loop   *)
(* over l looks at the entry where the reading of the first file f ended,  *)
(* not at its own.                                                         *)
ToAppend(f, l, since, until) ==
  LET rest == SelectSeq(f.recs, LAMBDA e : e >= since)
  IN IF l.until >= until /\ f.since < since /\ rest # <<>> /\ rest[1] >= until
     THEN [i \in 1..Len(l.recs) |-> rest[1]]
     ELSE <<>>

(* save_log: files of FileLimit entries, the rest to the last one.  A full *)
(* file ends with its last entry, where the next one begins; a later file  *)
(* replaces one of the same name.                                          *)
SplitLog(recs, since, until, first) ==
  LET begins(i) == IF i = 1 THEN since ELSE recs[(i - 1) * FileLimit]
      isFull(i) == i * FileLimit <= Len(recs)
      numbers == {i \in 1..Len(recs) : (i - 1) * FileLimit < Len(recs)}
      file(i) == [since |-> begins(i),
                  until |-> IF isFull(i) THEN recs[i * FileLimit] ELSE until,
                  recs |-> SubSeq(recs, (i - 1) * FileLimit + 1,
                                  IF isFull(i) THEN i * FileLimit ELSE Len(recs)),
                  first |-> first /\ i = 1]
  IN {file(i) : i \in {j \in numbers : \A k \in numbers : k > j => begins(k) # begins(j)}}

(* The files that take the place of the matching ones.                     *)
Rewritten(F, since, until, recs) ==
  LET m == Matching(F, since, until)
      older == m # {} /\ Oldest(m).since < since
      longer == m # {} /\ Newest(m).until >= until
  IN SplitLog((IF older THEN ToPrepend(Oldest(m), since) ELSE <<>>)
              \o recs
              \o (IF m # {} THEN ToAppend(Oldest(m), Newest(m), since, until) ELSE <<>>),
              IF older THEN Oldest(m).since ELSE since,
              IF longer THEN Newest(m).until ELSE until,
              F = m)

Replacing(F, G) == {f \in F : \A g \in G : g.since # f.since} \cup G

(* The piece a device pushes, all it logged from since to until.           *)
Piece(d, until) ==
  LET logged == {e \in entries[d] : acked[d] <= e /\ e <= until}
  IN [i \in 1..Cardinality(logged) |->
        CHOOSE e \in logged : Cardinality({x \in logged : x <= e}) = i]

NewFiles(d, until) == Rewritten(chp[d], acked[d], until, Piece(d, until))
OldFiles(d, until) == Matching(chp[d], acked[d], until)

Overwrites(d, made) ==
  overwritten' = [overwritten EXCEPT ![d] =
    @ \cup UNION {Range(f.recs) : f \in {f \in new[d] : \E g \in made : g.since = f.since}}]

(* New files are written under temporary names, the old ones removed, the  *)
(* new ones renamed; the answer may be lost.                               *)
PushLog(d, until) ==
  /\ chp' = [chp EXCEPT ![d] = Replacing(@ \ OldFiles(d, until), NewFiles(d, until))]
  /\ new' = [new EXCEPT ![d] = {f \in @ : \A g \in NewFiles(d, until) : g.since # f.since}]
  /\ \/ acked' = [acked EXCEPT ![d] = until]
     \/ UNCHANGED acked
  /\ sent' = [sent EXCEPT ![d] = until]
  /\ Overwrites(d, NewFiles(d, until))
  /\ UNCHANGED <<instant, entries, isChecking, seen, cleaned, deaths>>

(* The process dies when some old files are removed, or some new renamed.  *)
DiesInPushLog(d, until) ==
  /\ deaths < MaxDeaths
  /\ LET old == OldFiles(d, until)
         made == NewFiles(d, until)
     IN \/ \E removed \in Beginnings(old) :
             /\ chp' = [chp EXCEPT ![d] = @ \ removed]
             /\ new' = [new EXCEPT ![d] = Replacing(@, made)]
        \/ \E renamed \in Beginnings(made) :
             /\ chp' = [chp EXCEPT ![d] = Replacing(@ \ old, renamed)]
             /\ new' = [new EXCEPT ![d] = Replacing(@, made) \ renamed]
  /\ Overwrites(d, NewFiles(d, until))
  /\ isChecking' = FALSE /\ seen' = Nothing
  /\ deaths' = deaths + 1
  /\ UNCHANGED <<instant, entries, acked, cleaned>>
  /\ sent' = [sent EXCEPT ![d] = until]

-----------------------------------------------------------------------------
(* DiskCleaner.                                                            *)

Size(F) == MapThenSumSet(LAMBDA f : Len(f.recs), F)

(* The timer: checkDiskOccupation, unless it runs.                         *)
StartCheck ==
  /\ ~isChecking
  /\ isChecking' = TRUE /\ seen' = Nothing
  /\ UNCHANGED <<instant, entries, acked, sent, chp, new, cleaned, overwritten, deaths>>

(* scanDir of a device: what it occupies, only regular files of which      *)
(* count for its share.  Events are processed after it.                    *)
ScanDir(d) ==
  /\ isChecking /\ d \notin DOMAIN seen
  /\ seen' = [x \in DOMAIN seen \cup {d} |->
       IF x # d THEN seen[x]
       ELSE [size |-> Size(chp[d]), all |-> Size(chp[d]) + Size(new[d]),
             oldest |-> IF chp[d] = {} THEN 0 ELSE Oldest(chp[d]).since]]
  /\ UNCHANGED <<instant, entries, acked, sent, chp, new, isChecking, cleaned, overwritten, deaths>>

Second(F) == Oldest(F \ {Oldest(F)})

(* The second file of the directory gets the firstLog mark and the oldest  *)
(* one seen in the scan is removed.                                        *)
Cleaned(F, oldest) ==
  {IF Cardinality(F) > 1 /\ f = Second(F) THEN [f EXCEPT !.first = TRUE] ELSE f :
     f \in {g \in F : g.since # oldest}}

OverShare(d) == seen[d].size > Limit \div Cardinality(Devices)

(* When all is scanned: the end if all is small enough; otherwise the      *)
(* oldest file goes of every device over its share, and all is scanned     *)
(* again.                                                                  *)
Clean ==
  /\ isChecking /\ DOMAIN seen = Devices
  /\ IF MapThenSumSet(LAMBDA d : seen[d].all, Devices) < Limit
     THEN /\ isChecking' = FALSE /\ seen' = Nothing
          /\ UNCHANGED <<chp, cleaned>>
     ELSE /\ seen' = Nothing /\ UNCHANGED isChecking
          /\ chp' = [d \in Devices |-> IF OverShare(d) THEN Cleaned(chp[d], seen[d].oldest) ELSE chp[d]]
          /\ cleaned' = [d \in Devices |->
               IF OverShare(d)
               THEN cleaned[d] \cup UNION {Range(f.recs) : f \in {g \in chp[d] : g.since = seen[d].oldest}}
               ELSE cleaned[d]]
  /\ UNCHANGED <<instant, entries, acked, sent, new, overwritten, deaths>>

(* The process dies while the second file, truncated, is written again.    *)
DiesInClean(d) ==
  /\ deaths < MaxDeaths
  /\ isChecking /\ DOMAIN seen = Devices
  /\ MapThenSumSet(LAMBDA x : seen[x].all, Devices) >= Limit
  /\ OverShare(d) /\ Cardinality(chp[d]) > 1
  /\ chp' = [chp EXCEPT ![d] = @ \ {Second(@)}]
  /\ cleaned' = [cleaned EXCEPT ![d] = @ \cup Range(Second(chp[d]).recs)]
  /\ isChecking' = FALSE /\ seen' = Nothing
  /\ deaths' = deaths + 1
  /\ UNCHANGED <<instant, entries, acked, sent, new, overwritten>>

Next ==
  \/ \E D \in SUBSET Devices : DevicesLog(D)
  \/ StartCheck \/ Clean
  \/ \E d \in Devices :
       \/ ScanDir(d) \/ DiesInClean(d)
       \/ \E until \in Max({acked[d] + 1, sent[d]})..instant : PushLog(d, until) \/ DiesInPushLog(d, until)

Spec == Init /\ [][Next]_vars

-----------------------------------------------------------------------------
TypeOK ==
  /\ instant \in Instants
  /\ \A d \in Devices : entries[d] \subseteq 1..instant /\ acked[d] \in 1..sent[d] /\ sent[d] \in 1..instant
                        /\ chp[d] \subseteq CacheFile /\ new[d] \subseteq CacheFile
                        /\ cleaned[d] \cup overwritten[d] \subseteq entries[d]
                        /\ (deaths = 0 => new[d] = {} /\ overwritten[d] = {})
  /\ deaths \in 0..MaxDeaths

Stored(F) == UNION {Range(f.recs) : f \in F}

(* What a device has been told is stored is in a regular file, or in a     *)
(* temporary one which nobody reads, however files are joined and split    *)
(* anew, and if the process dies among removals and renamings; unless      *)
(* DiskCleaner removed it, or a push after a death wrote over the          *)
(* temporary file it was in.                                               *)
AckedKept ==
  \A d \in Devices : \A e \in entries[d] :
    e <= acked[d] => e \in Stored(chp[d] \cup new[d]) \cup cleaned[d] \cup overwritten[d]

(* The oldest file of a device bears the firstLog mark, without which      *)
(* checkLogCache finds the beginning missing and the sanitizer asks for it *)
(* again: though files are rewritten between a scan and its removals.      *)
FirstMarked ==
  deaths = 0 => \A d \in Devices : chp[d] # {} => Oldest(chp[d]).first

=============================================================================
