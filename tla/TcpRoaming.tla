------------------------------ MODULE TcpRoaming ------------------------------
(***************************************************************************)
(* One TCP session with authenticated resume: the lifecycle automaton      *)
(* (src/qeli/src/transport_core/tcp_roaming.rs) as the server's stream     *)
(* handlers drive it (src/qeli/src/server/handler.rs).  A carrier that is  *)
(* lost leaves an orphan for a grace period; a resume reserves the         *)
(* session, attaches a candidate beside the old carrier, and commits or    *)
(* aborts; kick, clean close, detach and the reaper race it on other       *)
(* threads.                                                                *)
(*                                                                         *)
(* The session has two locks, the streams list and the lifecycle; a step   *)
(* here is one critical section of either.  Proofs of resume messages are  *)
(* valid or not (Refuse); time is whether a deadline has passed.  The      *)
(* orphan limiter is shared by the profile: others counts what the other   *)
(* sessions hold of it.                                                    *)
(***************************************************************************)
EXTENDS Naturals, FiniteSets

CONSTANTS
  Slot,           \* logical slots 0..max_slots - 1
  Transport,      \* bound: carriers 1..n, 1 is the primary
  MaxEpoch,       \* bound: resume epochs the client uses
  MaxStreams,
  MaxOrphans      \* orphan_sessions limit of the profile

None == 0

VARIABLES
  life,           \* "active", "orphaned", "resuming", "closing", "revoked"
  ticket,         \* generation of the orphan ticket (of the fallback while resuming), or None
  gen,            \* generation counter
  epoch,          \* last_resume_epoch
  resv,           \* the reservation: generation and slot
  ready, draining,\* per slot: the transport, or None
  others,         \* orphans of other sessions
  counted,        \* generations of this session the limiter counts
  armed,          \* generations with a sleeping reaper
  due,            \* generations whose deadline has passed
  attached,       \* the streams list
  scheduled,      \* streams of the list with the ready flag
  revoked, closing,
  inMap,          \* the session is in the session map and holds its lease
  phase,          \* per transport: what its task does next
  mine,           \* per transport: its reservation
  wasLast,        \* per transport: what remove_stream answered
  pending         \* lifecycle calls still to come: "revoke", "close", "finalize"

lifecycle == <<life, ticket, gen, epoch, resv, ready, draining, counted>>
vars == <<life, ticket, gen, epoch, resv, ready, draining, others, counted, armed, due,
          attached, scheduled, revoked, closing, inMap, phase, mine, wasLast, pending>>

NoResv == [gen |-> None, slot |-> 0]

Init ==
  /\ life = "active" /\ ticket = None /\ gen = 1 /\ epoch = 0 /\ resv = NoResv
  /\ ready = [k \in Slot |-> IF k = 0 THEN 1 ELSE None]
  /\ draining = [k \in Slot |-> None]
  /\ others \in 0..MaxOrphans
  /\ counted = {} /\ armed = {} /\ due = {}
  /\ attached = {} /\ scheduled = {} /\ revoked = FALSE /\ closing = FALSE /\ inMap = TRUE
  /\ phase = [t \in Transport |-> IF t = 1 THEN "primary" ELSE "unused"]
  /\ mine = [t \in Transport |-> NoResv]
  /\ wasLast = [t \in Transport |-> FALSE]
  /\ pending = {}

Go(t, p) == phase' = [phase EXCEPT ![t] = p]
ReadyStreams == {k \in Slot : ready[k] # None}

-----------------------------------------------------------------------------
(* Lifecycle operations.                                                   *)

(* terminal: release the orphan, forget the carriers.                      *)
Terminal(state) ==
  /\ life' = state
  /\ ready' = [k \in Slot |-> None] /\ draining' = [k \in Slot |-> None]
  /\ counted' = counted \ {ticket}
  /\ ticket' = None /\ resv' = NoResv
  /\ UNCHANGED <<gen, epoch>>

(* The limiter has room for one more orphan.                               *)
Reservable == others + Cardinality(counted) < MaxOrphans

-----------------------------------------------------------------------------
(* The primary carrier enters the list after AUTH OK.                      *)
AttachPrimary ==
  /\ phase[1] = "primary"
  /\ IF revoked \/ closing
     THEN Go(1, "done") /\ UNCHANGED <<attached, scheduled>>
     ELSE Go(1, "live") /\ attached' = {1} /\ scheduled' = {1}
  /\ UNCHANGED <<lifecycle, others, armed, due, revoked, closing, inMap, mine, wasLast,
                 pending>>

(* A resume JOIN finds the session by its locator.                         *)
Lookup(t) ==
  /\ phase[t] = "unused" /\ inMap
  /\ \A u \in Transport : u < t => phase[u] # "unused"
  /\ Go(t, "found")
  /\ UNCHANGED <<lifecycle, others, armed, due, attached, scheduled, revoked, closing,
                 inMap, mine, wasLast, pending>>

(* begin_resume: burns the epoch; the orphan ticket, if any, is kept as    *)
(* the fallback.                                                           *)
BeginResume(t, e, k) ==
  /\ phase[t] = "found" /\ phase[1] # "primary"
  /\ life \in {"active", "orphaned"} /\ e > epoch /\ draining[k] = None
  /\ life' = "resuming" /\ epoch' = e /\ gen' = gen + 1
  /\ resv' = [gen |-> gen + 1, slot |-> k]
  /\ mine' = [mine EXCEPT ![t] = resv'] /\ Go(t, "reserved")
  /\ UNCHANGED <<ticket, ready, draining, others, counted, armed, due, attached, scheduled,
                 revoked, closing, inMap, wasLast, pending>>

(* Busy, terminal, stale, draining or without a valid proof.               *)
Refuse(t) ==
  /\ phase[t] = "found" /\ Go(t, "done")
  /\ UNCHANGED <<lifecycle, others, armed, due, attached, scheduled, revoked, closing,
                 inMap, mine, wasLast, pending>>

(* run_stream of a resume: one candidate above the stream limit, not       *)
(* scheduled yet.                                                          *)
Prepare(t) ==
  /\ phase[t] = "reserved"
  /\ IF revoked \/ closing \/ Cardinality(attached) >= MaxStreams + 1
     THEN Go(t, "aborting") /\ UNCHANGED attached
     ELSE Go(t, "prepared") /\ attached' = attached \cup {t}
  /\ UNCHANGED <<lifecycle, others, armed, due, scheduled, revoked, closing, inMap, mine,
                 wasLast, pending>>

(* JOINOK cannot be written, or the client does not confirm in time.       *)
PrepareFails(t) ==
  /\ phase[t] = "prepared"
  /\ attached' = attached \ {t} /\ scheduled' = scheduled \ {t}
  /\ Go(t, "aborting")
  /\ UNCHANGED <<lifecycle, others, armed, due, revoked, closing, inMap, mine, wasLast,
                 pending>>

HoldsReservation(t) == life = "resuming" /\ resv = mine[t]

BugAbort(t) ==
  /\ phase[t] = "aborting" /\ Go(t, "done")
  /\ IF HoldsReservation(t)
     THEN life' = IF ticket = None THEN "active" ELSE "orphaned"
     ELSE UNCHANGED life
  /\ resv' = IF HoldsReservation(t) THEN NoResv ELSE resv
  /\ UNCHANGED <<ticket, gen, epoch, ready, draining, others, counted, armed, due, attached,
                 scheduled, revoked, closing, inMap, mine, wasLast, pending>>

(* abort_tcp_resume: back to where the session was; an overdue orphan gets *)
(* a reaper again, its first one may have yielded to the reservation.      *)
Abort(t) ==
  /\ phase[t] = "aborting" /\ Go(t, "done")
  /\ IF HoldsReservation(t)
     THEN /\ life' = IF ticket = None THEN "active" ELSE "orphaned"
          /\ resv' = NoResv
          /\ armed' = IF ticket \in due THEN armed \cup {ticket} ELSE armed
     ELSE UNCHANGED <<life, resv, armed>>
  /\ UNCHANGED <<ticket, gen, epoch, ready, draining, others, counted, due, attached,
                 scheduled, revoked, closing, inMap, mine, wasLast, pending>>

(* The client confirmed: commit_resume swaps the slot's carrier.           *)
Commit(t) ==
  /\ phase[t] = "prepared" /\ HoldsReservation(t)
  /\ life' = "active" /\ resv' = NoResv
  /\ counted' = counted \ {ticket} /\ ticket' = None
  /\ draining' = [draining EXCEPT ![resv.slot] = ready[resv.slot]]
  /\ ready' = [ready EXCEPT ![resv.slot] = t]
  /\ Go(t, "activating")
  /\ UNCHANGED <<gen, epoch, others, armed, due, attached, scheduled, revoked, closing,
                 inMap, mine, wasLast, pending>>

CommitRefused(t) ==
  /\ phase[t] = "prepared" /\ ~HoldsReservation(t)
  /\ attached' = attached \ {t} /\ scheduled' = scheduled \ {t}
  /\ Go(t, "aborting")
  /\ UNCHANGED <<lifecycle, others, armed, due, revoked, closing, inMap, mine, wasLast,
                 pending>>

(* activate_resume_stream: the new carrier is scheduled, the one it        *)
(* replaced no longer.                                                     *)
Activate(t) ==
  /\ phase[t] = "activating" /\ Go(t, "live")
  /\ scheduled' = IF revoked \/ closing THEN scheduled
                  ELSE (scheduled \cup ({t} \cap attached)) \ {draining[mine[t].slot]}
  /\ UNCHANGED <<lifecycle, others, armed, due, attached, revoked, closing, inMap, mine,
                 wasLast, pending>>

-----------------------------------------------------------------------------
(* A carrier ends: remove_stream, then the lifecycle, then the teardown.   *)
Leave(t) ==
  /\ phase[t] = "live"
  /\ attached' = attached \ {t} /\ scheduled' = scheduled \ {t}
  /\ wasLast' = [wasLast EXCEPT ![t] = attached' = {}]
  /\ Go(t, "leaving")
  /\ UNCHANGED <<lifecycle, others, armed, due, revoked, closing, inMap, mine, pending>>

Without(t) == [k \in Slot |-> IF ready[k] = t THEN None ELSE ready[k]]
Undrained(t) == [k \in Slot |-> IF draining[k] = t THEN None ELSE draining[k]]
LastReady(t) == \E k \in Slot : ready[k] = t /\ ReadyStreams = {k}

(* The session ended before, or ends with this carrier.  The flags are     *)
(* read just before the lifecycle's lock; one that is set in between       *)
(* counts as set after the detach.                                         *)
DetachTerminal(t) ==
  /\ phase[t] = "leaving" /\ Go(t, "teardown")
  /\ \/ /\ life \in {"closing", "revoked"} /\ UNCHANGED lifecycle
     \/ /\ life \notin {"closing", "revoked"} /\ (revoked \/ closing)
        /\ Terminal(IF revoked THEN "revoked" ELSE "closing")
  /\ UNCHANGED <<others, armed, due, attached, scheduled, revoked, closing, inMap, mine,
                 wasLast, pending>>

Lost(t) == phase[t] = "leaving" /\ life \notin {"closing", "revoked"} /\ ~revoked /\ ~closing

(* Another carrier is ready, or this one was draining.                     *)
DetachOne(t) ==
  /\ Lost(t) /\ ~LastReady(t) /\ Go(t, "done")
  /\ ready' = Without(t) /\ draining' = Undrained(t)
  /\ UNCHANGED <<life, ticket, gen, epoch, resv, counted, others, armed, due, attached,
                 scheduled, revoked, closing, inMap, mine, wasLast, pending>>

(* The last carrier: an orphan with a reaper, also under a reservation.    *)
DetachOrphans(t) ==
  /\ Lost(t) /\ LastReady(t) /\ Go(t, "done")
  /\ ready' = Without(t) /\ Reservable
  /\ gen' = gen + 1 /\ ticket' = gen + 1
  /\ counted' = counted \cup {ticket'} /\ armed' = armed \cup {ticket'}
  /\ life' = IF life = "active" THEN "orphaned" ELSE life
  /\ UNCHANGED <<epoch, resv, draining, others, due, attached, scheduled, revoked, closing,
                 inMap, mine, wasLast, pending>>

(* ... or, with the orphan limit reached, the end of the session.          *)
DetachLimited(t) ==
  /\ Lost(t) /\ LastReady(t) /\ Go(t, "teardown")
  /\ ready' = Without(t) /\ ~Reservable
  /\ gen' = gen + 1 /\ life' = "closing" /\ resv' = NoResv
  /\ UNCHANGED <<ticket, epoch, draining, others, counted, armed, due, attached, scheduled,
                 revoked, closing, inMap, mine, wasLast, pending>>

(* The guarded teardown under the admission lock.                          *)
Teardown(t) ==
  /\ phase[t] = "teardown" /\ Go(t, "done")
  /\ inMap' = (inMap /\ ~wasLast[t])
  /\ UNCHANGED <<lifecycle, others, armed, due, attached, scheduled, revoked, closing, mine,
                 wasLast, pending>>

-----------------------------------------------------------------------------
(* The reaper: one-shot, for one exact ticket.                             *)
Expire(g) ==
  /\ g \in armed \ due
  /\ due' = due \cup {g}
  /\ UNCHANGED <<lifecycle, others, armed, attached, scheduled, revoked, closing, inMap,
                 phase, mine, wasLast, pending>>

Reap(g) ==
  /\ g \in armed \cap due /\ armed' = armed \ {g}
  /\ IF life = "orphaned" /\ ticket = g
     THEN life' = "closing" /\ counted' = counted \ {g} /\ ticket' = None
            /\ pending' = pending \cup {"finalize"}
     ELSE UNCHANGED <<life, counted, ticket, pending>>
  /\ UNCHANGED <<gen, epoch, resv, ready, draining, others, due, attached, scheduled,
                 revoked, closing, inMap, phase, mine, wasLast>>

(* finalize_orphaned_tcp_session.                                          *)
Finalize ==
  /\ "finalize" \in pending /\ pending' = pending \ {"finalize"}
  /\ inMap' = FALSE
  /\ UNCHANGED <<lifecycle, others, armed, due, attached, scheduled, revoked, closing,
                 phase, mine, wasLast>>

-----------------------------------------------------------------------------
(* Kick, supersession or quota: out of the map, then kick_all, in one step *)
(* because until the flag is set the carriers go on as before the kick.    *)
Kick ==
  /\ inMap /\ ~revoked /\ inMap' = FALSE /\ revoked' = TRUE
  /\ pending' = pending \cup {"revoke"}
  /\ UNCHANGED <<lifecycle, others, armed, due, attached, scheduled, closing, phase, mine,
                 wasLast>>

(* A malformed frame on a live carrier: kick_all alone.                    *)
Violate ==
  /\ ~revoked /\ (\E t \in attached : phase[t] = "live") /\ revoked' = TRUE
  /\ pending' = pending \cup {"revoke"}
  /\ UNCHANGED <<lifecycle, others, armed, due, attached, scheduled, closing, inMap, phase,
                 mine, wasLast>>

(* An authenticated CLOSE_SESSION on a live carrier: close_all.            *)
CloseAll ==
  /\ ~closing /\ (\E t \in attached : phase[t] = "live") /\ closing' = TRUE
  /\ pending' = pending \cup {"close"}
  /\ UNCHANGED <<lifecycle, others, armed, due, attached, scheduled, revoked, inMap, phase,
                 mine, wasLast>>

RoamingRevoke ==
  /\ "revoke" \in pending /\ pending' = pending \ {"revoke"}
  /\ Terminal("revoked")
  /\ UNCHANGED <<others, armed, due, attached, scheduled, revoked, closing, inMap, phase,
                 mine, wasLast>>

RoamingClose ==
  /\ "close" \in pending /\ pending' = pending \ {"close"}
  /\ Terminal("closing")
  /\ UNCHANGED <<others, armed, due, attached, scheduled, revoked, closing, inMap, phase,
                 mine, wasLast>>

-----------------------------------------------------------------------------
Next ==
  \/ AttachPrimary \/ Finalize \/ Kick \/ Violate \/ CloseAll
  \/ RoamingRevoke \/ RoamingClose
  \/ \E t \in Transport :
       \/ Lookup(t) \/ Refuse(t) \/ Prepare(t) \/ PrepareFails(t) \/ Abort(t)
       \/ Commit(t) \/ CommitRefused(t) \/ Activate(t)
       \/ Leave(t) \/ DetachTerminal(t) \/ DetachOne(t) \/ DetachOrphans(t)
       \/ DetachLimited(t) \/ Teardown(t)
       \/ \E e \in 1..MaxEpoch, k \in Slot : BeginResume(t, e, k)
  \/ \E g \in armed : Expire(g) \/ Reap(g)

Spec == Init /\ [][Next]_vars

(* Timers fire, tasks that hold a reservation or a reaped session go on, a *)
(* prepared candidate is confirmed or times out, and a kicked or closed    *)
(* carrier's pump ends (its shutdown signal is set).                       *)
Fairness ==
  /\ WF_vars(\E g \in armed : Expire(g) \/ Reap(g)) /\ WF_vars(Finalize)
  /\ WF_vars(RoamingRevoke) /\ WF_vars(RoamingClose)
  /\ \A t \in Transport :
       /\ WF_vars(Prepare(t)) /\ WF_vars(Abort(t)) /\ WF_vars(Teardown(t))
       /\ WF_vars(PrepareFails(t) \/ Commit(t) \/ CommitRefused(t))
       /\ WF_vars(DetachTerminal(t) \/ DetachOne(t) \/ DetachOrphans(t) \/ DetachLimited(t))
       /\ WF_vars(Leave(t) /\ (revoked \/ closing))

-----------------------------------------------------------------------------
Phases == {"primary", "unused", "found", "reserved", "prepared", "aborting", "activating",
           "live", "leaving", "teardown", "done"}

TypeOK ==
  /\ life \in {"active", "orphaned", "resuming", "closing", "revoked"}
  /\ {ticket, gen, epoch, others} \subseteq Nat
  /\ resv \in [gen : Nat, slot : Slot]
  /\ ready \in [Slot -> Transport \cup {None}] /\ draining \in [Slot -> Transport \cup {None}]
  /\ counted \cup armed \cup due \subseteq Nat
  /\ scheduled \subseteq attached /\ attached \subseteq Transport
  /\ Cardinality(attached) <= MaxStreams + 1
  /\ {revoked, closing, inMap} \subseteq BOOLEAN
  /\ phase \in [Transport -> Phases] /\ mine \in [Transport -> [gen : Nat, slot : Slot]]
  /\ wasLast \in [Transport -> BOOLEAN] /\ pending \subseteq {"revoke", "close", "finalize"}

(* The orphan limiter counts exactly the orphan ticket the session holds,  *)
(* the fallback of a resume included: whatever commits, aborts, reaps and  *)
(* kicks race, nothing is counted twice, kept or given back early.         *)
OrphansAreCounted ==
  counted = IF life \in {"orphaned", "resuming"} THEN {ticket} \ {None} ELSE {}

(* An orphan always has a reaper for its exact ticket, also after a resume *)
(* held the session past the deadline and failed.                          *)
OrphanHasReaper == life = "orphaned" => ticket \in armed

(* A session that can still be resumed is in the map, so its address is    *)
(* its own, unless a kick is on its way to the lifecycle.                  *)
ResumableIsMapped ==
  life \in {"active", "orphaned", "resuming"} => inMap \/ "revoke" \in pending

(* Downlink data is scheduled only on committed carriers: a candidate is   *)
(* not scheduled before its commit, a replaced carrier only until its      *)
(* successor takes it off the schedule on activation, or has itself left.  *)
ScheduledIsCommitted ==
  \A t \in scheduled :
    \/ revoked \/ closing \/ life \in {"closing", "revoked"}
    \/ \E k \in Slot : ready[k] = t
    \/ \E k \in Slot : draining[k] = t /\
         \E u \in Transport : phase[u] \in {"activating", "leaving", "done"} /\ mine[u].slot = k

(* At most one task holds the reservation, and a resume always has its     *)
(* task: the session cannot stay busy after its candidate is gone.         *)
ReservationHasOwner ==
  life = "resuming" =>
    Cardinality({t \in Transport : mine[t] = resv
                   /\ phase[t] \in {"reserved", "prepared", "aborting"}}) = 1

(* All of this together: what makes a resume safe.                         *)
ResumesAreAccountedFor ==
  /\ TypeOK /\ OrphansAreCounted /\ OrphanHasReaper
  /\ ResumableIsMapped /\ ReservationHasOwner /\ ScheduledIsCommitted

(* An orphan is resumed or ends, however often a resume holds its reaper   *)
(* off and then fails.                                                     *)
OrphansEnd ==
  (life = "orphaned") ~> (ReadyStreams # {} \/ life \in {"closing", "revoked"})

(* What the comment on detach_stream says: failures before the pump starts *)
(* cannot leave a token, a lease or a route orphaned.  A session that has  *)
(* ended and has no carrier and no task left is out of the map.            *)
EndedSessionIsUnmapped ==
  (/\ life \in {"closing", "revoked"} /\ attached = {} /\ pending = {}
   /\ \A t \in Transport : phase[t] \in {"unused", "found", "done"})
    => ~inMap
=============================================================================
