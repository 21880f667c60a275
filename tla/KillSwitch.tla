----------------------------- MODULE KillSwitch -----------------------------
(* The firewall kill switch of the Linux client: `client/killswitch.rs`,   *)
(* its rebuild guards (`killswitch/rebuild.rs`), its admission of one      *)
(* protected TUN per host (`killswitch/admission.rs`), the reconnect loop  *)
(* that refreshes it and the rule that releases it only after a clean stop *)
(* (`client_cleanup.rs`).                                                  *)
(*                                                                         *)
(* One step is one iptables command together with the `-C` that verifies   *)
(* it, so that the process may die between any two of them. A command may  *)
(* fail with or without effect, and may use up the deadline of its         *)
(* operation, after which nothing else of the operation is executed; a     *)
(* rollback has a deadline of its own. The ACCEPT rules of a chain that    *)
(* nothing jumps to yet are added in one step.                             *)
EXTENDS Integers, FiniteSets

CONSTANTS
  Tun,          \* interface names clients are configured with
  Server,       \* Server[f]: addresses of family f a lookup may return
  Leaks,        \* settings of allow_ipv4_leak and allow_ipv6_leak that occur
  Tools,        \* sets of families whose iptables binary may be found
  MaxRuns, MaxFaults, MaxLookups, MaxMoves

Family == {4, 6}
Hook == {"OUTPUT", "FORWARD"}
Addr == UNION {Server[f] : f \in Family}
Absent == {"absent"}
NoClient == [tun |-> CHOOSE t \in Tun : TRUE, leak |-> {}, gateway |-> FALSE, tool |-> {}]
Clean == [chain |-> Absent, hooks |-> {}, guards |-> {}]

VARIABLES
  fw,          \* fw[t][f]: the chain of TUN t, the hooks that jump to it, guards
  pc,          \* the next command; "off" without a process
  cfg,         \* configuration of the running client, and the tools it found
  fam,         \* the family being worked on
  caller,      \* who called teardown_family or rebuild::clear
  failed,      \* errors collected for the family being worked on
  guarded,     \* `guarded`: families closed by rebuild guards in this setup
  attempted,   \* `attempted`: families whose chain this setup has touched
  broken,      \* Rollback.failure; in other operations, an earlier family failed
  paths,       \* Context::paths: families cleanup is responsible for
  protected,   \* Family.protected
  want,        \* the server addresses of the last lookup
  todo,        \* addresses a refresh still has to add or withdraw
  expired,     \* deadlines that have passed: "work", "rollback"
  faults, runs, lookups, moves,
  found,       \* history: what was closed when this client started
  tampered     \* history: an administrator removed a hook since the last check

vars == <<fw, pc, cfg, fam, caller, failed, guarded, attempted, broken, paths,
          protected, want, todo, expired, faults, runs, lookups, moves, found, tampered>>
memory == <<cfg, guarded, attempted, paths, protected, want>>
bounds == <<runs, lookups, moves>>
history == <<found, tampered>>

-----------------------------------------------------------------------------
(* Firewall state.                                                         *)

Here(f) == fw[cfg.tun][f]

Write(f, entry) == fw' = [fw EXCEPT ![cfg.tun][f] = entry]

\* Traffic through hook h of family f is dropped unless it is allowed.
Closed(t, f, h) ==
  \/ h \in fw[t][f].guards
  \/ h \in fw[t][f].hooks /\ "drop" \in fw[t][f].chain

ClosedBy(t) == {p \in Family \X Hook : Closed(t, p[1], p[2])}

-----------------------------------------------------------------------------
(* What a command may do: succeed, fail with or without effect, or come    *)
(* back after the deadline.                                                *)

Failure == [done : BOOLEAN, ok : {FALSE}, late : BOOLEAN, cost : {1}]

Outcomes(deadline) ==
  IF deadline \in expired
  THEN {[done |-> FALSE, ok |-> FALSE, late |-> FALSE, cost |-> 0]}
  ELSE {[done |-> TRUE, ok |-> TRUE, late |-> FALSE, cost |-> 0]}
         \cup IF faults < MaxFaults THEN Failure ELSE {}

Charge(o, deadline) ==
  /\ faults' = faults + o.cost
  /\ expired' = IF o.late THEN expired \cup {deadline} ELSE expired

Goto(next) == pc' = next

-----------------------------------------------------------------------------
(* engage_prepared: admission, guards, both families, commit.              *)

\* prepare_engage has resolved the server; admission::check inspects every
\* available family before anything is changed and refuses the rules of
\* another TUN.
Admitted(t, tool) ==
  \A u \in Tun \ {t} : \A f \in tool : fw[u][f].chain = Absent /\ fw[u][f].guards = {}

Start(t, leak, gateway, tool, ips) ==
  /\ pc = "off" /\ runs < MaxRuns
  /\ \E f \in Family : ips[f] # {}
  /\ Admitted(t, tool)
  /\ cfg' = [tun |-> t, leak |-> leak, gateway |-> gateway, tool |-> tool]
  /\ want' = ips
  /\ found' = ClosedBy(t)
  /\ runs' = runs + 1
  /\ fam' = 4 /\ caller' = "engage" /\ failed' = FALSE
  /\ guarded' = {} /\ attempted' = {} /\ broken' = FALSE
  /\ paths' = {} /\ protected' = {} /\ expired' = {}
  /\ Goto("arm")
  /\ UNCHANGED <<fw, todo, faults, lookups, moves, tampered>>

\* rebuild::arm of one family: leftovers are closed before they are replaced.
NeedsGuard(f) == Here(f).chain # Absent \/ Here(f).guards # {}
BugNeedsForwardGuard(f) == cfg.gateway
NeedsForwardGuard(f) == cfg.gateway \/ "FORWARD" \in Here(f).hooks \cup Here(f).guards

\* The next family to arm, or the first family to build.
AfterArm(f) ==
  IF f = 4 THEN fam' = 6 /\ Goto("arm") ELSE fam' = 4 /\ Goto("family")

Arm ==
  /\ pc = "arm"
  /\ UNCHANGED <<fw, cfg, caller, failed, attempted, broken, protected, want, todo,
                 bounds, history>>
  /\ \/ /\ fam \notin cfg.tool
        /\ AfterArm(fam)
        /\ UNCHANGED <<guarded, paths, faults, expired>>
     \/ /\ fam \in cfg.tool
        /\ paths' = paths \cup {fam}
        /\ \E o \in Outcomes("work") :
             /\ Charge(o, "work")
             /\ IF ~o.ok THEN Goto("exit") /\ UNCHANGED <<fam, guarded>>
                ELSE IF NeedsGuard(fam)
                THEN Goto("guardO") /\ UNCHANGED <<fam, guarded>>
                ELSE AfterArm(fam) /\ UNCHANGED guarded

\* rebuild::install in OUTPUT, then in FORWARD.
InstallGuard(h) ==
  \E o \in Outcomes("work") :
    /\ Charge(o, "work")
    /\ Write(fam, [Here(fam) EXCEPT !.guards = IF o.done THEN @ \cup {h} ELSE @])
    /\ IF ~o.ok THEN Goto("exit") /\ UNCHANGED <<fam, guarded>>
       ELSE IF h = "OUTPUT" /\ NeedsForwardGuard(fam)
       THEN Goto("guardF") /\ UNCHANGED <<fam, guarded>>
       ELSE AfterArm(fam) /\ guarded' = guarded \cup {fam}

GuardStep ==
  /\ \/ pc = "guardO" /\ InstallGuard("OUTPUT")
     \/ pc = "guardF" /\ InstallGuard("FORWARD")
  /\ UNCHANGED <<cfg, caller, failed, attempted, broken, paths, protected, want,
                 todo, bounds, history>>

\* engage_family of one family begins with teardown_family.
BeginFamily ==
  /\ pc = "family"
  /\ IF fam \in cfg.tool
     THEN /\ attempted' = attempted \cup {fam}
          /\ caller' = "engage" /\ failed' = FALSE
          /\ Goto("unhookO")
     ELSE Goto("missed") /\ UNCHANGED <<attempted, caller, failed>>
  /\ UNCHANGED <<fw, cfg, fam, guarded, broken, paths, protected, want, todo,
                 expired, faults, bounds, history>>

\* Rollback.family inside engage_family.
Undo == caller' = "undo" /\ failed' = FALSE /\ Goto("unhookO")

BuildStep(here, next, entry) ==
  /\ pc = here
  /\ \E o \in Outcomes("work") :
       /\ Charge(o, "work")
       /\ Write(fam, IF o.done THEN entry ELSE Here(fam))
       /\ IF o.ok THEN Goto(next) /\ UNCHANGED <<caller, failed>> ELSE Undo
  /\ UNCHANGED <<cfg, fam, guarded, attempted, broken, paths, protected, want, todo,
                 bounds, history>>

\* `-N`: its result is ignored, the ACCEPT rules tell.
CreateChain ==
  /\ pc = "create"
  /\ \E o \in Outcomes("work") :
       /\ Charge(o, "work")
       /\ Write(fam, [Here(fam) EXCEPT !.chain = IF o.done /\ @ = Absent THEN {} ELSE @])
  /\ Goto("allow")
  /\ UNCHANGED <<cfg, fam, caller, failed, guarded, attempted, broken, paths,
                 protected, want, todo, bounds, history>>

\* Every ACCEPT is verified; without the chain none of them is there.
AddAllows ==
  /\ pc = "allow"
  /\ IF Here(fam).chain = Absent
     THEN Undo /\ UNCHANGED <<fw, faults, expired>>
     ELSE \E o \in Outcomes("work") :
            /\ Charge(o, "work")
            /\ Write(fam, IF o.done
                          THEN [Here(fam) EXCEPT !.chain = {"allow"} \cup want[fam]]
                          ELSE Here(fam))
            /\ IF o.ok THEN Goto("drop") /\ UNCHANGED <<caller, failed>> ELSE Undo
  /\ UNCHANGED <<cfg, fam, guarded, attempted, broken, paths, protected, want, todo,
                 bounds, history>>

AddDrop == BuildStep("drop", "hookO", [Here(fam) EXCEPT !.chain = @ \cup {"drop"}])

HookOutput ==
  BuildStep("hookO", IF cfg.gateway THEN "hookF" ELSE "built",
            [Here(fam) EXCEPT !.hooks = @ \cup {"OUTPUT"}])

HookForward == BuildStep("hookF", "built", [Here(fam) EXCEPT !.hooks = @ \cup {"FORWARD"}])

\* engage_prepared after engage_family: what an unprotected family means.
AbortSetup ==
  IF attempted = {} THEN Goto("exit") /\ UNCHANGED <<caller, failed, fam>>
  ELSE caller' = "final" /\ failed' = FALSE /\ Goto("unhookO")
       /\ fam' = IF 4 \in attempted THEN 4 ELSE 6

Advance ==
  IF fam = 4 THEN fam' = 6 /\ Goto("family") /\ UNCHANGED <<caller, failed>>
  ELSE fam' = 4 /\ caller' = "commit" /\ failed' = FALSE /\ Goto("clearO")

FamilyEnd ==
  /\ pc \in {"built", "missed"}
  /\ IF "work" \in expired \/ broken
     THEN AbortSetup /\ UNCHANGED protected
     ELSE /\ protected' = IF pc = "built" THEN protected \cup {fam} ELSE protected \ {fam}
          /\ IF pc = "built" \/ (fam \notin guarded /\ fam \in cfg.leak)
             THEN Advance
             ELSE IF fam = 6 /\ fam \notin guarded /\ 4 \in protected
             THEN caller' = "refuse" /\ failed' = FALSE /\ fam' = 4 /\ Goto("unhookO")
             ELSE AbortSetup
  /\ UNCHANGED <<fw, cfg, guarded, attempted, broken, paths, want, todo, expired,
                 faults, bounds, history>>

-----------------------------------------------------------------------------
(* teardown_family: jumps first, then the chain.                           *)

Deadline == IF caller \in {"undo", "refuse", "final"} THEN "rollback" ELSE "work"

Unhook(h, next) ==
  \E o \in Outcomes(Deadline) :
    /\ Charge(o, Deadline)
    /\ Write(fam, [Here(fam) EXCEPT !.hooks = IF o.done THEN @ \ {h} ELSE @])
    /\ failed' = (failed \/ ~o.ok)
    /\ Goto(next)

\* Both jumps are tried; a chain that may still be referenced is not flushed.
UnhookStep ==
  /\ \/ pc = "unhookO" /\ Unhook("OUTPUT", "unhookF")
     \/ pc = "unhookF" /\ Unhook("FORWARD", "unhooked")
  /\ UNCHANGED <<memory, fam, caller, broken, todo, bounds, history>>

Unhooked ==
  /\ pc = "unhooked"
  /\ \E o \in Outcomes(Deadline) :     \* chain_exists
       /\ IF failed THEN UNCHANGED <<faults, expired>> ELSE Charge(o, Deadline)
       /\ failed' = (failed \/ ~o.ok)
       /\ Goto(IF failed' \/ Here(fam).chain = Absent THEN "tornDown" ELSE "flush")
  /\ UNCHANGED <<fw, memory, fam, caller, broken, todo, bounds, history>>

Flush ==
  /\ pc = "flush"
  /\ \E o \in Outcomes(Deadline) :
       /\ Charge(o, Deadline)
       /\ Write(fam, [Here(fam) EXCEPT !.chain = IF o.done THEN {} ELSE @])
  /\ Goto("delete")
  /\ UNCHANGED <<memory, fam, caller, failed, broken, todo, bounds, history>>

\* `-X` refuses a chain that has rules; chain_exists has the last word.
Delete ==
  /\ pc = "delete"
  /\ \E o \in Outcomes(Deadline) :
       LET gone == o.done /\ Here(fam).chain = {} IN
       /\ Charge(o, Deadline)
       /\ Write(fam, [Here(fam) EXCEPT !.chain = IF gone THEN Absent ELSE @])
       /\ failed' = ~(gone /\ o.ok)
  /\ Goto("tornDown")
  /\ UNCHANGED <<memory, fam, caller, broken, todo, bounds, history>>

\* The next remembered family of a clean stop, or its end.
NextStop(bad) ==
  IF fam = 4 /\ 6 \in paths
  THEN fam' = 6 /\ Goto("unhookO") /\ UNCHANGED caller
  ELSE UNCHANGED <<fam, caller>> /\ Goto(IF bad THEN "exit" ELSE "released")

TornDown ==
  /\ pc = "tornDown"
  /\ UNCHANGED <<fw, cfg, guarded, attempted, paths, want, expired, faults, bounds,
                 history>>
  /\ \/ /\ caller = "engage"
        /\ Goto(IF failed THEN "missed" ELSE "create")
        /\ UNCHANGED <<fam, caller, failed, broken, protected, todo>>
     \/ /\ caller = "undo"
        /\ broken' = (broken \/ failed)
        /\ Goto("missed")
        /\ UNCHANGED <<fam, caller, failed, protected, todo>>
     \/ /\ caller = "refuse"
        /\ broken' = (broken \/ failed)
        /\ AbortSetup
        /\ UNCHANGED <<protected, todo>>
     \/ /\ caller = "final"
        /\ protected' = IF failed THEN protected ELSE protected \ {fam}
        /\ broken' = (broken \/ failed)
        /\ IF fam = 4 /\ 6 \in attempted
           THEN fam' = 6 /\ failed' = FALSE /\ Goto("unhookO")
           ELSE Goto("exit") /\ UNCHANGED <<fam, failed>>
        /\ UNCHANGED <<caller, todo>>
     \/ /\ caller = "stop"
        /\ broken' = (broken \/ failed)
        /\ failed' = FALSE
        /\ IF failed THEN NextStop(TRUE) ELSE Goto("clearO") /\ UNCHANGED <<fam, caller>>
        /\ UNCHANGED <<protected, todo>>

-----------------------------------------------------------------------------
(* rebuild::clear, for the commit of a setup and for a clean stop.         *)

ClearTargets == IF caller = "commit" THEN guarded ELSE paths

ClearNext ==
  IF caller = "stop" THEN NextStop(broken) ELSE
  IF fam = 4 THEN fam' = 6 /\ Goto("clearO") /\ UNCHANGED caller
  ELSE Goto("loop") /\ UNCHANGED <<fam, caller>>

ClearGuard(h) ==
  \E o \in Outcomes("work") :
    /\ Charge(o, "work")
    /\ Write(fam, [Here(fam) EXCEPT !.guards = IF o.done THEN @ \ {h} ELSE @])
    /\ IF o.ok
       THEN /\ IF h = "OUTPUT" THEN Goto("clearF") /\ UNCHANGED <<fam, caller>>
               ELSE ClearNext
            /\ UNCHANGED broken
       ELSE IF caller = "stop"
       THEN broken' = TRUE /\ NextStop(TRUE)
       ELSE Goto("exit") /\ UNCHANGED <<fam, caller, broken>>

ClearStep ==
  /\ \/ pc = "clearO" /\ fam \in ClearTargets /\ ClearGuard("OUTPUT")
     \/ pc = "clearF" /\ ClearGuard("FORWARD")
     \/ /\ pc = "clearO" /\ fam \notin ClearTargets /\ ClearNext
        /\ UNCHANGED <<fw, faults, expired, broken>>
  /\ UNCHANGED <<memory, failed, todo, bounds, history>>

-----------------------------------------------------------------------------
(* The reconnect loop: refresh_prepared before every attempt.              *)

BeginRefresh(ips) ==
  /\ pc = "loop" /\ lookups < MaxLookups
  /\ lookups' = lookups + 1
  /\ want' = ips
  /\ fam' = 4 /\ failed' = FALSE /\ broken' = FALSE /\ caller' = "refresh"
  /\ expired' = {}
  /\ tampered' = FALSE
  /\ Goto("verify")
  /\ UNCHANGED <<fw, cfg, guarded, attempted, paths, protected, todo, faults, runs, moves,
                 found>>

\* The next family, or the verdict.
RefreshNext(bad) ==
  /\ todo' = {}
  /\ failed' = FALSE
  /\ broken' = (broken \/ bad)
  /\ IF fam = 4 THEN fam' = 6 /\ Goto("verify")
     ELSE UNCHANGED fam /\ Goto(IF broken' THEN "exit" ELSE "dial")

BugIntact(f) == "drop" \in Here(f).chain
Intact(f) ==
  /\ "OUTPUT" \in Here(f).hooks
  /\ "drop" \in Here(f).chain
  /\ cfg.gateway => "FORWARD" \in Here(f).hooks

Verify ==
  /\ pc = "verify"
  /\ IF fam \notin protected
     THEN RefreshNext(FALSE) /\ UNCHANGED <<faults, expired>>
     ELSE \E o \in Outcomes("work") :
            /\ Charge(o, "work")
            /\ IF ~o.ok \/ ~Intact(fam) THEN RefreshNext(TRUE) ELSE
               IF \A f \in Family : want[f] = {} THEN RefreshNext(FALSE) ELSE
               /\ todo' = want[fam]
               /\ Goto("admit")
               /\ UNCHANGED <<fam, failed, broken>>
  /\ UNCHANGED <<fw, memory, caller, bounds, history>>

\* One rule of the chain is added or deleted, and looked for afterwards.
ChangeAllow(adding) ==
  \E a \in todo : \E o \in Outcomes("work") :
    /\ Charge(o, "work")
    /\ Write(fam, [Here(fam) EXCEPT !.chain =
                     IF ~o.done THEN @ ELSE IF adding THEN @ \cup {a} ELSE @ \ {a}])
    /\ failed' = (failed \/ ~o.ok)
    /\ todo' = todo \ {a}
    /\ UNCHANGED <<pc, fam, broken>>

\* New addresses are inserted before the DROP; if one fails the old ones stay.
Admit ==
  /\ pc = "admit"
  /\ \/ ChangeAllow(TRUE)
     \/ /\ todo = {}
        /\ IF failed \/ want[fam] = {}
           THEN RefreshNext(failed) /\ UNCHANGED <<faults, expired>>
           ELSE \E o \in Outcomes("work") :     \* live_server_allows
                  /\ Charge(o, "work")
                  /\ IF ~o.ok THEN RefreshNext(TRUE) ELSE
                     /\ todo' = (Here(fam).chain \cap Addr) \ want[fam]
                     /\ Goto("withdraw") /\ UNCHANGED <<fam, failed, broken>>
        /\ UNCHANGED fw
  /\ UNCHANGED <<memory, caller, bounds, history>>

Withdraw ==
  /\ pc = "withdraw"
  /\ \/ ChangeAllow(FALSE)
     \/ todo = {} /\ RefreshNext(failed) /\ UNCHANGED <<fw, faults, expired>>
  /\ UNCHANGED <<memory, caller, bounds, history>>

\* The attempt ends and the loop goes round.
Reconnect ==
  /\ pc = "dial"
  /\ Goto("loop")
  /\ UNCHANGED <<fw, memory, fam, caller, failed, broken, todo, expired, faults,
                 bounds, history>>

\* client_cleanup::routing releases the kill switch only when the core, the
\* network resources and forwarding were cleaned up; otherwise the client
\* ends and keeps it.
Stop(cleaned) ==
  /\ pc \in {"dial", "loop"}
  /\ IF cleaned
     THEN /\ caller' = "stop" /\ failed' = FALSE /\ broken' = FALSE
          /\ expired' = {}
          /\ IF paths = {} THEN Goto("released") /\ UNCHANGED fam
             ELSE fam' = (IF 4 \in paths THEN 4 ELSE 6) /\ Goto("unhookO")
     ELSE Goto("exit") /\ UNCHANGED <<caller, failed, broken, expired, fam>>
  /\ UNCHANGED <<fw, memory, todo, faults, bounds, history>>

\* The process ends; OWNERS and everything else in memory is gone.
Gone ==
  /\ Goto("off")
  /\ cfg' = NoClient
  /\ fam' = 4 /\ caller' = "none" /\ failed' = FALSE
  /\ guarded' = {} /\ attempted' = {} /\ broken' = FALSE
  /\ paths' = {} /\ protected' = {} /\ todo' = {} /\ expired' = {}
  /\ want' = [f \in Family |-> {}]
  /\ found' = {} /\ tampered' = FALSE
  /\ UNCHANGED <<fw, faults, bounds>>

Exit == pc \in {"exit", "released"} /\ Gone

\* SIGKILL or a panic, at any point.
Crash == pc \notin {"off", "exit", "released"} /\ Gone

\* An administrator takes a jump out while the client is connected.
Tamper(f, h) ==
  /\ pc = "dial" /\ moves < MaxMoves
  /\ h \in Here(f).hooks
  /\ Write(f, [Here(f) EXCEPT !.hooks = @ \ {h}])
  /\ moves' = moves + 1
  /\ tampered' = TRUE
  /\ UNCHANGED <<pc, memory, fam, caller, failed, broken, todo, expired, faults,
                 runs, lookups, found>>

-----------------------------------------------------------------------------
Lookup == {ips \in [Family -> SUBSET Addr] : \A f \in Family : ips[f] \subseteq Server[f]}

Init ==
  /\ fw = [t \in Tun |-> [f \in Family |-> Clean]]
  /\ pc = "off"
  /\ cfg = NoClient
  /\ fam = 4 /\ caller = "none" /\ failed = FALSE
  /\ guarded = {} /\ attempted = {} /\ broken = FALSE
  /\ paths = {} /\ protected = {} /\ want = [f \in Family |-> {}]
  /\ todo = {} /\ expired = {}
  /\ faults = 0 /\ runs = 0 /\ lookups = 0 /\ moves = 0
  /\ found = {} /\ tampered = FALSE

Next ==
  \/ \E t \in Tun, leak \in Leaks, gateway \in BOOLEAN, tool \in Tools, ips \in Lookup :
       Start(t, leak, gateway, tool, ips)
  \/ Arm \/ GuardStep \/ BeginFamily
  \/ CreateChain \/ AddAllows \/ AddDrop \/ HookOutput \/ HookForward \/ FamilyEnd
  \/ UnhookStep \/ Unhooked \/ Flush \/ Delete \/ TornDown \/ ClearStep
  \/ \E ips \in Lookup : BeginRefresh(ips)
  \/ Verify \/ Admit \/ Withdraw \/ Reconnect
  \/ \E cleaned \in BOOLEAN : Stop(cleaned)
  \/ Exit \/ Crash
  \/ \E f \in Family, h \in Hook : Tamper(f, h)

Spec == Init /\ [][Next]_vars

-----------------------------------------------------------------------------
(* A client that dials is protected in every family it may not leak,       *)
(* routed traffic of a gateway included: the first attempt and every       *)
(* reconnect, whatever failed before, unless somebody removed a jump after *)
(* the refresh looked (`prepare_engage`, `refresh_prepared`).              *)
DialingIsProtected ==
  pc = "dial" /\ ~tampered =>
    \A f \in Family \ cfg.leak :
      /\ Closed(cfg.tun, f, "OUTPUT")
      /\ cfg.gateway => Closed(cfg.tun, f, "FORWARD")

(* The protection does not lock out the tunnel itself: no rebuild guard    *)
(* and no rule of another TUN is left in the way, the allowances are there *)
(* and the server is allowed at exactly the addresses it has now           *)
(* (`engage_family`, `rebuild::clear`, `admission::check`).                *)
DialingIsPossible ==
  pc = "dial" =>
    \A f \in cfg.tool :
      /\ Here(f).guards = {}
      /\ f \in protected => /\ "allow" \in Here(f).chain
                            /\ want[f] # {} => Here(f).chain \cap Addr = want[f]
      /\ \A t \in Tun \ {cfg.tun} : \A h \in Hook : ~Closed(t, f, h)

(* A clean stop that reported success left nothing behind in the families  *)
(* this client was responsible for (`disengage_until`).                    *)
ReleaseIsComplete ==
  pc = "released" => \A f \in paths : Here(f) = Clean

(* Once closed, a hook opens only in a clean stop, in the rollback of a    *)
(* setup that found it open, when a client that is no gateway replaces one *)
(* that was, or by an administrator. No crash, failed command, expired     *)
(* deadline or failed rebuild opens it (the fail-safe life cycle of        *)
(* `killswitch.rs`).                                                       *)
OpensOnlyByDesign ==
  \A t \in Tun : \A f \in Family, h \in Hook :
    Closed(t, f, h) /\ ~Closed(t, f, h)' =>
      /\ t = cfg.tun
      /\ \/ caller = "stop"
         \/ caller \in {"undo", "refuse", "final"} /\ <<f, h>> \notin found
         \/ caller = "commit" /\ h = "FORWARD" /\ ~cfg.gateway
         \/ moves' # moves
=============================================================================
