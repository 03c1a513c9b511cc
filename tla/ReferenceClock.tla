---------------------------- MODULE ReferenceClock ----------------------------
(***************************************************************************)
(* CBaseReferenceClock with its CAMSchedule: clients ask to have an event  *)
(* set at a time; a thread of the clock's own sleeps until the first of    *)
(* these times and sets the events that are due.                           *)
(*                                                                         *)
(* Times are in ticks.  The schedule is a list sorted by time, here the    *)
(* set of its packets: the head is any packet with the least time, and     *)
(* packets of one time are due together.  A cookie says only which packet  *)
(* is meant.  What is done under m_Serialize is one step.  The thread has  *)
(* the priority TIME_CRITICAL: no tick passes while it could run.          *)
(* Not modelled: periodic advises, which nobody here asks for, the packets *)
(* kept for use again, and the clock's end.                                *)
(***************************************************************************)
EXTENDS Integers, FiniteSets

CONSTANTS
  Handles,   \* the events that clients have set
  Lead,      \* the millisecond that AdviseThread adds, in ticks
  Deltas,    \* the corrections that SetTimeDelta is called with
  Negligible, \* the half millisecond up to which it does not wake the thread
  MaxTime    \* bound: the last time

ASSUME ClockAssumption ==
  Lead \in Nat /\ Negligible \in Nat /\ Deltas \subseteq Int /\ MaxTime \in Nat \ {0}

INFINITE == -1

VARIABLES
  m_rtPrivateTime,  \* the time
  advises,          \* the packets of m_pSchedule
  m_ev,             \* the event that wakes the thread
  dwWait,           \* how long the thread has still to wait
  advising,         \* the thread is past its wait, before Advise
  rtNow,            \* the time it read there
  unnoticed,        \* history: what has been corrected since without waking it
  signalled         \* the clients' events that are set

threadVars == <<dwWait, advising, rtNow, unnoticed>>
clockVars == <<m_rtPrivateTime, advises, m_ev, threadVars, signalled>>

Packets == [cookie : Nat \ {0}, time : Nat, notify : Handles]

ClockInit ==
  /\ m_rtPrivateTime = 1
  /\ advises = {} /\ m_ev = FALSE
  /\ dwWait = INFINITE /\ advising = FALSE /\ rtNow = 0 /\ unnoticed = 0
  /\ signalled = {}

(* AddAdvisePacket: in front of the packets of its time. *)
AddAdvisePacket(cookie, time, event) ==
  /\ advises' = advises \cup {[cookie |-> cookie, time |-> time, notify |-> event]}
  /\ m_ev' = (m_ev \/ \A a \in advises : a.time >= time)

AdviseTime(cookie, time, event) ==
  /\ time \in Nat \ {0}
  /\ cookie \in Nat \ {0} /\ \A a \in advises : a.cookie # cookie
  /\ AddAdvisePacket(cookie, time, event)

Unadvise(cookie) == advises' = {a \in advises : a.cookie # cookie}

(* AdviseThread: WaitForSingleObject returns, the time is read. *)
Wake ==
  /\ ~advising
  /\ m_ev \/ dwWait = 0
  /\ m_ev' = FALSE
  /\ advising' = TRUE /\ rtNow' = m_rtPrivateTime /\ unnoticed' = 0
  /\ UNCHANGED <<m_rtPrivateTime, advises, dwWait, signalled>>

(* CAMSchedule::Advise sets the events that are due; what is left says how *)
(* long to wait.                                                           *)
Advise ==
  LET due == {a \in advises : a.time <= rtNow + Lead}
      left == advises \ due
  IN /\ advising
     /\ advises' = left
     /\ signalled' = signalled \cup {a.notify : a \in due}
     /\ IF left = {} THEN dwWait' = INFINITE
        ELSE \E head \in left :
               /\ \A a \in left : head.time <= a.time
               /\ dwWait' = head.time - rtNow
     /\ advising' = FALSE /\ rtNow' = 0
     /\ UNCHANGED <<m_rtPrivateTime, m_ev, unnoticed>>

(* A correction wakes the thread if it takes time forward by more than is  *)
(* negligible: smaller ones, and those backward, it finds out about when   *)
(* its wait is over.                                                       *)
Correct(delta) ==
  /\ m_rtPrivateTime + delta \in 1 .. MaxTime
  /\ m_rtPrivateTime' = m_rtPrivateTime + delta
  /\ unnoticed' = IF delta > Negligible THEN unnoticed ELSE unnoticed + delta
  /\ UNCHANGED <<advises, dwWait, advising, rtNow, signalled>>

(* Mutant: it never wakes the thread. *)
SetTimeDelta_Silent(delta) == Correct(delta) /\ UNCHANGED m_ev

SetTimeDelta(delta) ==
  /\ Correct(delta)
  /\ m_ev' = (m_ev \/ (delta > Negligible /\ advises # {}))

(* Time passes: GetPrivateTime adds what the system's timer has counted,   *)
(* the timeout of the wait runs down.                                      *)
Tick ==
  /\ ~advising /\ ~m_ev /\ dwWait # 0
  /\ m_rtPrivateTime < MaxTime
  /\ m_rtPrivateTime' = m_rtPrivateTime + 1
  /\ dwWait' = IF dwWait = INFINITE THEN INFINITE ELSE dwWait - 1
  /\ UNCHANGED <<advises, m_ev, advising, rtNow, unnoticed, signalled>>

(* Any clients, which consume, set and reset their events as they please. *)
Client ==
  /\ UNCHANGED <<m_rtPrivateTime, threadVars>>
  /\ \/ /\ \E cookie \in Nat, time \in Nat, event \in Handles : AdviseTime(cookie, time, event)
        /\ UNCHANGED signalled
     \/ /\ \E cookie \in {a.cookie : a \in advises} : Unadvise(cookie)
        /\ signalled' \in SUBSET (signalled \cup Handles) /\ UNCHANGED m_ev
     \/ signalled' \in SUBSET (signalled \cup Handles) /\ UNCHANGED <<advises, m_ev>>

ClockNext ==
  \/ Wake \/ Advise \/ Tick \/ Client
  \/ \E delta \in Deltas : SetTimeDelta(delta)

ClockSpec == ClockInit /\ [][ClockNext]_clockVars

-----------------------------------------------------------------------------
ClockTypeOK ==
  /\ m_rtPrivateTime \in 1 .. MaxTime
  /\ advises \subseteq Packets
  /\ m_ev \in BOOLEAN /\ advising \in BOOLEAN
  /\ dwWait \in Nat \cup {INFINITE}
  /\ rtNow \in Nat /\ unnoticed \in Int
  /\ signalled \subseteq Handles

(* While the clock's thread sleeps, it will be awake by the time of every  *)
(* packet, late by no more than the corrections it was not woken for on    *)
(* purpose, which add up: nobody who was given a cookie waits for longer,  *)
(* whatever was added, taken away or corrected by more in the meantime     *)
(* (schedule.cpp:211, refclock.cpp:306-313).                               *)
NoOversleep ==
  ~advising /\ ~m_ev =>
    \A a \in advises : dwWait # INFINITE /\ m_rtPrivateTime + dwWait <= a.time + unnoticed
=============================================================================
