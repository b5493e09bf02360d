------------------------------- MODULE Telegram -------------------------------
(***************************************************************************)
(* hscope-old: the bot that polls the telegram server for updates          *)
(* (telegram.cpp).  A poll tells with its offset which updates are done    *)
(* with: the server forgets the ones before it.  The server waits up to    *)
(* 600 seconds with an answer, the bot gives up after 601 and polls again, *)
(* and an answer that comes later is still taken.                          *)
(*                                                                         *)
(* The server is external.  It takes one poll at a time: a new one ends    *)
(* the one before with an error.                                           *)
(***************************************************************************)
EXTENDS Integers, Sequences, FiniteSets, Functions, FiniteSetsExt

CONSTANTS
  Sender,     \* a sequence: who sends the first, second, ... update
  Messages,   \* the updates with "message"; the others are callback queries
  Fitting,    \* the senders whose id is a positive int
  Restarts,   \* the messages that say /restart
  MaxCalls,   \* bound: polls at a time
  MaxFaults   \* bound: failing polls, late answers and deaths

TelegramAssumption ==
  /\ Sender \in Seq(Range(Sender)) /\ Restarts \subseteq Messages /\ Messages \subseteq DOMAIN Sender
  /\ Fitting \subseteq Range(Sender) /\ MaxCalls \in Nat \ {0} /\ MaxFaults \in Nat

VARIABLES
  arrived, forgotten,  \* the server: the newest update, the newest it forgot
  calls,       \* the polls on their way: offset, state, ids in the answer
  updateId,    \* m_getUpdateId
  timer,       \* is m_getUdatesTimer active?
  due,         \* getUpdates that are queued
  peers,       \* peerIds, committed to the file
  quitting,    \* is the timer of /restart running?
  processed,   \* the updates that were processed
  tgFaults

tgVars == <<arrived, forgotten, calls, updateId, timer, due, peers, quitting, processed, tgFaults>>

(* A process that starts: hscope calls start when it is connected.         *)
Started == updateId' = 0 /\ timer' = FALSE /\ due' = 1 /\ quitting' = FALSE

Init ==
  /\ arrived = 0 /\ forgotten = 0 /\ calls = <<>>
  /\ updateId = 0 /\ timer = FALSE /\ due = 1 /\ quitting = FALSE
  /\ peers = {} /\ processed = {} /\ tgFaults = 0

Offset == updateId + 1

(* getUpdates: not while the timer runs.                                   *)
GetUpdates ==
  /\ due > 0 /\ (timer \/ Len(calls) < MaxCalls)
  /\ due' = due - 1 /\ timer' = TRUE
  /\ calls' = IF timer THEN calls
              ELSE Append(calls, [offset |-> Offset, state |-> "sent", ids |-> {}])
  /\ UNCHANGED <<arrived, forgotten, updateId, peers, quitting, processed, tgFaults>>

(* 601 seconds without an answer.                                          *)
TimerExpires ==
  /\ timer /\ timer' = FALSE /\ due' = due + 1
  /\ calls # <<>> => tgFaults < MaxFaults
  /\ tgFaults' = IF calls # <<>> THEN tgFaults + 1 ELSE tgFaults
  /\ UNCHANGED <<arrived, forgotten, calls, updateId, peers, quitting, processed>>

-----------------------------------------------------------------------------
(* The server.                                                             *)

Arrive ==
  /\ arrived < Len(Sender) /\ arrived' = arrived + 1
  /\ UNCHANGED <<forgotten, calls, updateId, timer, due, peers, quitting, processed, tgFaults>>

ServerTakes(i) ==
  /\ calls[i].state = "sent"
  /\ forgotten' = Max({forgotten, calls[i].offset - 1})
  /\ calls' = [j \in DOMAIN calls |->
       IF j = i THEN [calls[j] EXCEPT !.state = "held"]
       ELSE IF calls[j].state = "held" THEN [calls[j] EXCEPT !.state = "error"] ELSE calls[j]]
  /\ UNCHANGED <<arrived, updateId, timer, due, peers, quitting, processed, tgFaults>>

(* The updates there are, or none after 600 seconds.                       *)
ServerAnswers(i) ==
  /\ calls[i].state = "held"
  /\ calls' = [calls EXCEPT ![i].state = "answer",
                            ![i].ids = Max({forgotten + 1, calls[i].offset})..arrived]
  /\ UNCHANGED <<arrived, forgotten, updateId, timer, due, peers, quitting, processed, tgFaults>>

CallFails(i) ==
  /\ tgFaults < MaxFaults /\ calls[i].state \in {"sent", "held", "answer"}
  /\ calls' = [calls EXCEPT ![i].state = "error"]
  /\ tgFaults' = tgFaults + 1
  /\ UNCHANGED <<arrived, forgotten, updateId, timer, due, peers, quitting, processed>>

-----------------------------------------------------------------------------
Without(polls, i) == SubSeq(polls, 1, i - 1) \o SubSeq(polls, i + 1, Len(polls))

(* The sender of a message becomes a peer; an id that does not fit is read *)
(* as 0 and left out, and a callback query makes nobody a peer.            *)
MakesPeer(id) == id \in Messages /\ Sender[id] \in Fitting

(* processUpdates, and the next poll, whichever poll the answer is for: an *)
(* answer that is late takes m_getUpdateId back.                           *)
Answered(i) ==
  LET ids == calls[i].ids IN
  /\ calls[i].state = "answer"
  /\ calls' = Without(calls, i)
  /\ updateId' = IF ids = {} THEN updateId ELSE Max(ids)
  /\ peers' = peers \cup {Sender[id] : id \in {k \in ids : MakesPeer(k)}}
  /\ processed' = processed \cup ids
  /\ quitting' = (quitting \/ ids \cap Restarts # {})
  /\ timer' = FALSE /\ due' = due + 1
  /\ UNCHANGED <<arrived, forgotten, tgFaults>>

(* Without "ok" the callback is not called: the timer will poll again.     *)
AnsweredError(i) ==
  /\ calls[i].state = "error"
  /\ calls' = Without(calls, i)
  /\ UNCHANGED <<arrived, forgotten, updateId, timer, due, peers, quitting, processed, tgFaults>>

(* The process ends and is started again; the server may have taken the    *)
(* polls that were sent.                                                   *)
Ended ==
  /\ Started /\ calls' = <<>>
  /\ \E taken \in SUBSET {i \in DOMAIN calls : calls[i].state = "sent"} :
       forgotten' = Max({forgotten} \cup {calls[i].offset - 1 : i \in taken})
  /\ UNCHANGED <<arrived, peers, processed>>

Quit == quitting /\ Ended /\ UNCHANGED tgFaults

Die == tgFaults < MaxFaults /\ tgFaults' = tgFaults + 1 /\ Ended

Next ==
  \/ GetUpdates \/ TimerExpires \/ Arrive \/ Quit \/ Die
  \/ \E i \in DOMAIN calls :
       ServerTakes(i) \/ ServerAnswers(i) \/ CallFails(i) \/ Answered(i) \/ AnsweredError(i)

Spec == Init /\ [][Next]_tgVars

(* Timers fire, the network delivers and the server answers.  A /restart   *)
(* that is not confirmed before the quit is read again.                    *)
Fairness ==
  /\ WF_tgVars(GetUpdates) /\ WF_tgVars(TimerExpires) /\ WF_tgVars(Arrive)
  /\ \A i \in 1..MaxCalls :
       WF_tgVars(i \in DOMAIN calls /\ (ServerTakes(i) \/ ServerAnswers(i)
                                        \/ Answered(i) \/ AnsweredError(i)))

FairSpec == Spec /\ Fairness

-----------------------------------------------------------------------------
TelegramTypeOK ==
  /\ arrived \in 0..Len(Sender) /\ forgotten \in 0..arrived /\ updateId \in 0..arrived
  /\ timer \in BOOLEAN /\ quitting \in BOOLEAN /\ due \in Nat /\ tgFaults \in 0..MaxFaults
  /\ peers \subseteq Range(Sender) /\ processed \subseteq 1..arrived

(* What the server forgets was processed, and if it makes its sender a     *)
(* peer the stored configuration has that sender, though answers come      *)
(* late, polls fail and the process ends at any time.                      *)
NothingSkipped ==
  \A id \in 1..forgotten : id \in processed /\ (MakesPeer(id) => Sender[id] \in peers)

(* Every update is processed in the end.                                   *)
AllProcessed == <>(processed = DOMAIN Sender)

=============================================================================
