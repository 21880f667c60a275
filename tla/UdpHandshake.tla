---------------------------- MODULE UdpHandshake ----------------------------
(***************************************************************************)
(* The UDP handshake over a network that loses, repeats and reorders       *)
(* datagrams: the client's two retransmit loops (client/mod.rs) and, on    *)
(* the server (server/udp_handler.rs), one worker's receive loop with the  *)
(* per-source reassembly of the ClientHello, the directory of sessions by  *)
(* source address, the idempotent re-emission of the ServerHello and of    *)
(* the AuthOK before decryption, the AUTH task that runs beside the loop   *)
(* and the cleanup tick.                                                   *)
(*                                                                         *)
(* The receive loop and the cleanup tick are arms of one select! in one    *)
(* task, so a datagram and a cleanup are atomic here; the AUTH task        *)
(* interleaves with them at each of its awaits.  A source address carries  *)
(* one connect attempt (a reconnect binds a fresh port).  Every message is *)
(* counted in units: a ClientHello is two fragments of one unit, the       *)
(* ServerHello HelloLen units.                                             *)
(***************************************************************************)
EXTENDS Integers, FiniteSets, FiniteSetsExt, TLC

CONSTANTS
  Addrs,         \* source addresses
  Cap,           \* MAX_PENDING_HANDSHAKES
  HelloLen,      \* length of the ServerHello
  MaxReemits,    \* MAX_AUTH_OK_REEMITS
  Window,        \* handshake_timeout and the reap window, in clock ticks
  MaxHs,         \* bound: handshakes the server starts per address
  MaxRecv,       \* bound: units a half-open entry counts as received
  MaxFaults,     \* bound: datagrams lost or refused for want of a resource
  Dup,           \* whether the network repeats datagrams
  Ticks          \* whether time passes

Frags == 1..2
None == "none"
NoEntry == [h |-> 0]
NoTask == [h |-> 0, at |-> None]
Proven == 100       \* credit of an address whose AUTH has decrypted

VARIABLES
  cl,       \* [Addrs -> the client's side]: phase, fragments held, handshake
  net,      \* datagrams in flight
  part,     \* frag_pending: ClientHello fragments held per unknown source
  dir,      \* sessions: address -> entry, or NoEntry
  task,     \* the AUTH task of an address: NoTask, or where it stands
  made,     \* handshakes started so far, per address
  faults,   \* datagrams lost or refused so far
  sentOk,   \* history: <<a, h>> whose AuthOK has been put on the wire
  cover,    \* history: <<a, h>> that have been sent cover traffic
  credit    \* history: three times the units received less the units sent, while an
            \* address has not shown that it receives our replies

vars == <<cl, net, part, dir, task, made, faults, sentOk, cover, credit>>
server == <<part, dir, task, made, sentOk, cover, credit>>

Msg(t, a, h, i) == [t |-> t, a |-> a, h |-> h, i |-> i]
Hello(a) == {Msg("hello", a, 0, i) : i \in Frags}
ServerHello(a, h) == {Msg("shello", a, h, i) : i \in Frags}
Auth(a, h) == Msg("auth", a, h, 1)
Answer(a, h, ok) == Msg(IF ok THEN "authok" ELSE "autherr", a, h, 1)
FromClient(m) == m.t \in {"hello", "auth", "data"}

\* A new UdpClient: keys of handshake h, the exchange so far already charged.
Entry(h) ==
  [h |-> h, state |-> "awaiting", active |-> FALSE, revoked |-> FALSE,
   hello |-> TRUE, answer |-> None, sent |-> FALSE, reemits |-> 0,
   ampIn |-> Cardinality(Frags), ampOut |-> HelloLen,
   rx |-> {}, born |-> 0, idle |-> 0]

Known(a) == dir[a] # NoEntry
HalfOpen == {a \in Addrs : Known(a) /\ dir[a].state = "awaiting"}

Init ==
  /\ cl = [a \in Addrs |-> [phase |-> "hello", got |-> [i \in Frags |-> 0], hs |-> 0]]
  /\ net = {} /\ part = [a \in Addrs |-> {}]
  /\ dir = [a \in Addrs |-> NoEntry] /\ task = [a \in Addrs |-> NoTask]
  /\ made = [a \in Addrs |-> 0] /\ faults = 0
  /\ sentOk = {} /\ cover = {}
  /\ credit = [a \in Addrs |-> 0]

-----------------------------------------------------------------------------
(* The client *)

\* A round of either loop: the same bytes are sent again when the round ends
\* without an answer.  A copy that overtakes the answer is the network's to make.
ClientSend(a) ==
  /\ cl[a].phase \in {"hello", "auth"}
  /\ \A m \in net : m.a # a
  /\ net' = net \cup (IF cl[a].phase = "hello" THEN Hello(a) ELSE {Auth(a, cl[a].hs)})
  /\ UNCHANGED <<cl, faults, server>>

\* One ServerHello fragment.  Fragments carry no handshake number: two replies
\* may meet in one reassembler, and what they make fails the transcript check.
ClientHello(a, m) ==
  LET got == [cl[a].got EXCEPT ![m.i] = m.h]
      clash == cl[a].got[m.i] \notin {0, m.h}
      full == \A i \in Frags : got[i] # 0
      whole == \A i \in Frags : got[i] = m.h
  IN cl' = [cl EXCEPT ![a] =
       IF clash \/ (full /\ ~whole) THEN [@ EXCEPT !.phase = "failed"]
       ELSE IF full THEN [@ EXCEPT !.phase = "auth", !.hs = m.h, !.got = got]
       ELSE [@ EXCEPT !.got = got]]

\* A record in the AUTH loop: what does not decrypt under this handshake's keys and
\* an empty record (cover traffic) are passed over.
ClientAnswer(a, m) ==
  cl' = IF m.h = cl[a].hs /\ m.t \in {"authok", "autherr"}
        THEN [cl EXCEPT ![a].phase = IF m.t = "authok" THEN "up" ELSE "failed"]
        ELSE cl

ClientReceive(m, keep) ==
  /\ m \in net /\ ~FromClient(m)
  /\ net' = IF keep THEN net ELSE net \ {m}
  /\ CASE cl[m.a].phase = "hello" /\ m.t = "shello" -> ClientHello(m.a, m)
       [] cl[m.a].phase = "auth" -> ClientAnswer(m.a, m)
       [] OTHER -> UNCHANGED cl
  /\ UNCHANGED <<faults, server>>

\* The tunnel carries a record (the window of PacketCodec takes it once).
ClientData(a) ==
  /\ cl[a].phase = "up" /\ cl[a].got # [i \in Frags |-> 0]
  /\ net' = net \cup {Msg("data", a, cl[a].hs, 1)}
  /\ cl' = [cl EXCEPT ![a].got = [i \in Frags |-> 0]]
  /\ UNCHANGED <<faults, server>>

\* hs_deadline, or an established client that goes away without a word.
ClientLeaves(a) ==
  /\ cl[a].phase # "failed"
  /\ cl' = [cl EXCEPT ![a].phase = "failed"]
  /\ UNCHANGED <<net, faults, server>>

-----------------------------------------------------------------------------
(* The server's receive loop *)

\* A datagram of one unit has come in and `out` units go back; the surplus is capped.
Counted(a, out) ==
  IF credit[a] = Proven THEN credit
  ELSE [credit EXCEPT ![a] = Min({@ + 3 - out, 3 * MaxRecv})]

BugEvictable(a) == dir[a].state = "awaiting"
\* evictable_half_open
Evictable(a) == dir[a].state = "awaiting" /\ ~dir[a].active

\* A complete ClientHello of an unknown source: at the cap one half-open entry that no
\* AUTH task holds makes room, or the newcomer is dropped.
Admit(a, rest) ==
  /\ made[a] < MaxHs
  /\ \/ /\ Cardinality(HalfOpen) < Cap
        /\ dir' = [dir EXCEPT ![a] = Entry(made[a] + 1)]
     \/ /\ Cardinality(HalfOpen) >= Cap
        /\ \E victim \in {b \in Addrs : Known(b) /\ Evictable(b)} :
             dir' = [dir EXCEPT ![victim] = NoEntry, ![a] = Entry(made[a] + 1)]
  /\ made' = [made EXCEPT ![a] = @ + 1]
  /\ net' = rest \cup ServerHello(a, made[a] + 1)
  /\ credit' = Counted(a, HelloLen)

Dropped(a, rest) ==
  /\ net' = rest /\ credit' = Counted(a, 0) /\ UNCHANGED <<dir, made>>

\* The newest fragment of an unknown source; at the cap another source's partial goes.
HoldFragment(a, m, rest) ==
  /\ part[a] \cup {m.i} # Frags
  /\ LET full == part[a] = {} /\ Cardinality({b \in Addrs : part[b] # {}}) >= Cap
     IN IF full
        THEN \E b \in {c \in Addrs : part[c] # {}} :
               part' = [part EXCEPT ![b] = {}, ![a] = {m.i}]
        ELSE part' = [part EXCEPT ![a] = @ \cup {m.i}]
  /\ Dropped(a, rest) /\ UNCHANGED faults

\* The last one: the partial is spent whether or not a handshake permit is free.
CompleteHello(a, m, rest) ==
  /\ part[a] \cup {m.i} = Frags
  /\ part' = [part EXCEPT ![a] = {}]
  /\ \/ Admit(a, rest) /\ UNCHANGED faults
     \/ /\ \/ Cardinality(HalfOpen) >= Cap /\ ~\E b \in HalfOpen : Evictable(b)
           \/ made[a] = MaxHs
        /\ Dropped(a, rest) /\ UNCHANGED faults
     \/ faults < MaxFaults /\ faults' = faults + 1 /\ Dropped(a, rest)

\* Any other datagram of an unknown source is too small to be an initial.
UnknownSource(a, m, rest) ==
  /\ ~Known(a)
  /\ \/ m.t = "hello" /\ (HoldFragment(a, m, rest) \/ CompleteHello(a, m, rest))
     \/ m.t # "hello" /\ Dropped(a, rest) /\ UNCHANGED <<part, faults>>
  /\ UNCHANGED <<task, sentOk, cover>>

\* A revoked session is forgotten by its next datagram, unless its AUTH task still runs.
RevokedSource(a, rest) ==
  /\ Known(a) /\ dir[a].revoked
  /\ dir' = IF dir[a].active THEN dir ELSE [dir EXCEPT ![a] = NoEntry]
  /\ net' = rest
  /\ UNCHANGED <<part, task, made, faults, sentOk, cover, credit>>

\* A ClientHello fragment of a half-open source: the cached ServerHello again, within
\* three times what the source has sent (e already counts this datagram).
ReemitHello(a, m, e, rest) ==
  /\ m.t = "hello" /\ e.state = "awaiting" /\ e.hello
  /\ IF e.ampOut + HelloLen > 3 * e.ampIn
     THEN dir' = [dir EXCEPT ![a] = e] /\ credit' = Counted(a, 0) /\ net' = rest
     ELSE /\ dir' = [dir EXCEPT ![a] = [e EXCEPT !.ampOut = @ + HelloLen, !.idle = 0]]
          /\ net' = rest \cup ServerHello(a, e.h)
          /\ credit' = Counted(a, HelloLen)

MatchesAuth(m, e) == e.answer # None /\ m.t = "auth" /\ m.h = e.h

\* The byte-identical AUTH again: the cached answer, once it has been sent and a bounded
\* number of times; only an answer that goes out refreshes last_activity.
ReemitAnswer(a, m, e, rest) ==
  /\ MatchesAuth(m, e)
  /\ IF ~e.sent \/ e.reemits >= MaxReemits
     THEN dir' = [dir EXCEPT ![a] = e] /\ net' = rest
     ELSE /\ dir' = [dir EXCEPT ![a] = [e EXCEPT !.reemits = @ + 1, !.idle = 0]]
          /\ net' = rest \cup {Answer(a, e.h, e.answer = "ok")}
  /\ UNCHANGED credit

\* decrypt_packet: this handshake's keys and a record the replay window has not seen.
Decrypts(m, e) == m.t \in {"auth", "data"} /\ m.h = e.h /\ m.t \notin e.rx

\* Everything else is decrypted, if it can be: an AUTH record starts the AUTH task under
\* its lease, and a record of an admitted session is traffic.
Record(a, m, e, rest) ==
  /\ ~MatchesAuth(m, e)
  /\ ~(m.t = "hello" /\ e.state = "awaiting" /\ e.hello)
  /\ \/ /\ \/ e.state # "awaiting" /\ ~e.sent
           \/ ~Decrypts(m, e)
        /\ dir' = [dir EXCEPT ![a] = e] /\ credit' = Counted(a, 0)
        /\ UNCHANGED <<task, faults>>
     \/ /\ e.state = "awaiting" \/ e.sent
        /\ Decrypts(m, e)
        /\ \/ /\ dir' = [dir EXCEPT ![a] = [e EXCEPT !.rx = @ \cup {m.t}, !.idle = 0,
                                                     !.active = @ \/ e.state = "awaiting"]]
              /\ task' = IF e.state = "awaiting" /\ ~e.active
                         THEN [task EXCEPT ![a] = [h |-> e.h, at |-> "verify"]] ELSE task
              /\ credit' = [credit EXCEPT ![a] = Proven]
              /\ UNCHANGED faults
           \/ \* no inbound buffer: dropped before the window moves
              /\ faults < MaxFaults /\ faults' = faults + 1
              /\ dir' = [dir EXCEPT ![a] = e] /\ credit' = Counted(a, 0)
              /\ UNCHANGED task
  /\ net' = rest

\* amp_received counts the datagram before anything else; it is read only while the
\* ServerHello is cached, and beyond the bound the surplus is forgotten.
KnownSource(a, m, rest) ==
  LET e == [dir[a] EXCEPT !.ampIn = IF dir[a].hello THEN Min({@ + 1, MaxRecv}) ELSE @]
  IN /\ Known(a) /\ ~dir[a].revoked
     /\ \/ (ReemitHello(a, m, e, rest) \/ ReemitAnswer(a, m, e, rest)) /\ UNCHANGED <<task, faults>>
        \/ Record(a, m, e, rest)
     /\ UNCHANGED <<part, made, sentOk, cover>>

\* The datagram leaves the network before it is handled, unless a copy stays behind.
ServerReceive(m, keep) ==
  /\ m \in net /\ FromClient(m)
  /\ LET rest == IF keep THEN net ELSE net \ {m}
     IN UnknownSource(m.a, m, rest) \/ RevokedSource(m.a, rest) \/ KnownSource(m.a, m, rest)
  /\ UNCHANGED cl

-----------------------------------------------------------------------------
(* The AUTH task *)

At(a, stage) == task[a].at = stage

\* verify_client_auth or an admission step fails: the entry goes, and with it the task.
AuthFails(a) ==
  /\ At(a, "verify") \/ At(a, "answered")
  /\ dir' = [dir EXCEPT ![a] = NoEntry]
  /\ task' = [task EXCEPT ![a] = NoTask]
  /\ UNCHANGED <<cl, net, part, made, faults, sentOk, cover, credit>>

\* The verdict is cached with the AUTH bytes and the ServerHello is let go: an admission
\* turns the entry into a session, a negotiation error leaves it half-open.
AuthDecides(a, verdict) ==
  /\ At(a, "verify") /\ Known(a)
  /\ dir' = [dir EXCEPT ![a] = [dir[a] EXCEPT !.hello = FALSE, !.answer = verdict,
               !.state = IF verdict = "ok" THEN "authenticated" ELSE @]]
  /\ task' = [task EXCEPT ![a].at = "answered"]
  /\ UNCHANGED <<cl, net, part, made, faults, sentOk, cover, credit>>

AuthSends(a) ==
  /\ At(a, "answered") /\ Known(a)
  /\ net' = net \cup {Answer(a, dir[a].h, dir[a].answer = "ok")}
  /\ sentOk' = IF dir[a].answer = "ok" THEN sentOk \cup {<<a, dir[a].h>>} ELSE sentOk
  /\ task' = [task EXCEPT ![a].at = "sent"]
  /\ UNCHANGED <<cl, part, dir, made, faults, cover, credit>>

\* auth_ok_sent, after the sends.
AuthPublishes(a) ==
  /\ At(a, "sent")
  /\ dir' = IF Known(a) THEN [dir EXCEPT ![a].sent = TRUE] ELSE dir
  /\ task' = [task EXCEPT ![a].at = "done"]
  /\ UNCHANGED <<cl, net, part, made, faults, sentOk, cover, credit>>

\* The lease is dropped with the task; it is a flag of the entry the task was started for.
\* By now another AUTH may have taken that entry from under the task, and a new
\* handshake of the address have replaced it (and its AUTH this task).
AuthEnds(a) ==
  /\ At(a, "done")
  /\ dir' = IF Known(a) /\ dir[a].h = task[a].h THEN [dir EXCEPT ![a].active = FALSE] ELSE dir
  /\ task' = [task EXCEPT ![a] = NoTask]
  /\ UNCHANGED <<cl, net, part, made, faults, sentOk, cover, credit>>

-----------------------------------------------------------------------------
(* Timers, and the network *)

\* Heartbeat or cover traffic; once per session is enough to overtake an answer.
Cover(a) ==
  /\ Known(a) /\ dir[a].state = "authenticated" /\ dir[a].sent
  /\ <<a, dir[a].h>> \notin cover
  /\ net' = net \cup {Msg("cover", a, dir[a].h, 1)}
  /\ cover' = cover \cup {<<a, dir[a].h>>}
  /\ UNCHANGED <<cl, part, dir, task, made, faults, sentOk, credit>>

\* kick_all of an admitted session (the admission lock keeps it off the AUTH task until
\* the answer is out).
Revoke(a) ==
  /\ Known(a) /\ dir[a].state = "authenticated" /\ dir[a].sent /\ ~dir[a].revoked
  /\ dir' = [dir EXCEPT ![a].revoked = TRUE]
  /\ UNCHANGED <<cl, net, part, task, made, faults, sentOk, cover, credit>>

\* The entry of a revoked session goes at once, whether or not its own AUTH task still
\* holds the lease.
RemoveRevoked(a) ==
  /\ Known(a) /\ dir[a].revoked
  /\ dir' = [dir EXCEPT ![a] = NoEntry]
  /\ UNCHANGED <<cl, net, part, task, made, faults, sentOk, cover, credit>>

\* The AUTH of b supersedes the session of a, which it has revoked before
\* (remove_session_owner).
Supersede(a, b) ==
  /\ a # b
  /\ At(b, "verify") \/ At(b, "answered")
  /\ RemoveRevoked(a)

\* A datagram that is routed to the session by its connection id, from any address.
RoutedToRevoked(a) == RemoveRevoked(a)

\* expired: never beneath an AUTH task; a half-open entry by its age, a session by its
\* last activity.
Expired(e) ==
  /\ ~e.active
  /\ IF e.state = "awaiting" THEN e.born > Window ELSE e.idle > Window

Cleanup ==
  /\ \E a \in Addrs : Known(a) /\ Expired(dir[a])
  /\ dir' = [a \in Addrs |-> IF Known(a) /\ Expired(dir[a]) THEN NoEntry ELSE dir[a]]
  /\ UNCHANGED <<cl, net, part, task, made, faults, sentOk, cover, credit>>

\* frag_pending.retain
ForgetPartial(a) ==
  /\ Ticks /\ part[a] # {}
  /\ part' = [part EXCEPT ![a] = {}]
  /\ UNCHANGED <<cl, net, dir, task, made, faults, sentOk, cover, credit>>

Older(n) == Min({n + 1, Window + 1})
Tick ==
  /\ Ticks
  /\ \E a \in Addrs : Known(a)
  /\ dir' = [a \in Addrs |-> IF Known(a)
               THEN [dir[a] EXCEPT !.born = Older(@), !.idle = Older(@)] ELSE NoEntry]
  /\ UNCHANGED <<cl, net, part, task, made, faults, sentOk, cover, credit>>

Lose(m) ==
  /\ m \in net /\ faults < MaxFaults
  /\ net' = net \ {m} /\ faults' = faults + 1
  /\ UNCHANGED <<cl, server>>

Copies == IF Dup THEN BOOLEAN ELSE {FALSE}

Next ==
  \/ \E a \in Addrs : \/ ClientSend(a) \/ ClientData(a) \/ ClientLeaves(a)
                      \/ AuthFails(a) \/ AuthSends(a) \/ AuthPublishes(a) \/ AuthEnds(a)
                      \/ \E verdict \in {"ok", "error"} : AuthDecides(a, verdict)
                      \/ Cover(a) \/ Revoke(a) \/ ForgetPartial(a)
                      \/ RoutedToRevoked(a) \/ \E b \in Addrs : Supersede(a, b)
  \/ \E m \in net : \/ \E keep \in Copies : ServerReceive(m, keep) \/ ClientReceive(m, keep)
                    \/ Lose(m)
  \/ Cleanup \/ Tick

Spec == Init /\ [][Next]_vars

\* Clients retransmit, a datagram that is not lost arrives, AUTH tasks go on, the cleanup
\* timer fires and time passes.
Fairness ==
  /\ WF_vars(Cleanup) /\ WF_vars(Tick)
  /\ \A a \in Addrs :
       /\ WF_vars(ClientSend(a))
       /\ WF_vars(AuthSends(a) \/ AuthPublishes(a) \/ AuthEnds(a)
                    \/ \E verdict \in {"ok", "error"} : AuthDecides(a, verdict))
       /\ WF_vars(\E m \in net :
                    m.a = a /\ FromClient(m) /\ \E keep \in Copies : ServerReceive(m, keep))
       /\ WF_vars(\E m \in net :
                    m.a = a /\ ~FromClient(m) /\ \E keep \in Copies : ClientReceive(m, keep))

-----------------------------------------------------------------------------
(* Properties *)

\* An AUTH task works on an address across its awaits: until its answer is published, the
\* entry at that address is the handshake it verifies - not evicted at the cap, not
\* reaped, not superseded, not replaced by a repeated ClientHello - and as long as the
\* task runs, an entry of its handshake is under its lease (UdpAuthLease).  After the
\* answer the admission lock is released, and the entry may be superseded.
VerifierKeepsItsHandshake ==
  \A a \in Addrs : task[a] # NoTask =>
    /\ ~At(a, "done") => Known(a) /\ dir[a].h = task[a].h
    /\ Known(a) /\ dir[a].h = task[a].h => dir[a].active

\* Until an AUTH of an address has decrypted, everything sent to that address, first
\* replies and re-emissions over all its half-open entries, is within three times what
\* came from it (amp_received, amp_sent).
ReflectionIsBounded == \A a \in Addrs : credit[a] >= 0

\* Half-open entries never exceed MAX_PENDING_HANDSHAKES, AUTH tasks in progress and
\* cached negotiation errors included.
HalfOpenIsBounded == Cardinality(HalfOpen) <= Cap

\* Cover traffic and heartbeats of a session never go out before its AuthOK
\* (auth_ok_sent).
NothingPrecedesAuthOk == cover \subseteq sentOk

\* Together: what a source costs before it is known, and that a verdict is about the
\* handshake that was verified.
HandshakesAreSound ==
  /\ VerifierKeepsItsHandshake /\ ReflectionIsBounded /\ HalfOpenIsBounded
  /\ NothingPrecedesAuthOk

\* Lost datagrams only delay a handshake: a client leaves its ClientHello loop, by the
\* re-emitted ServerHello if need be, or gives up by itself.
HelloIsAnswered ==
  \A a \in Addrs : cl[a].phase = "hello" ~> cl[a].phase # "hello"

\* And while the server keeps its handshake, a client that resends its AUTH learns the
\* answer: the AuthOK is re-emitted although the AUTH itself can be decrypted only once.
AuthIsAnswered ==
  \A a \in Addrs :
    (cl[a].phase = "auth") ~> (cl[a].phase # "auth" \/ ~Known(a))
=============================================================================
