------------------------------ MODULE PadPolicy ------------------------------
(***************************************************************************)
(* zlyme-input: the policy over InputPlumber, the daemon that turns pads   *)
(* into virtual Xbox pads.  "zlyme-input run" waits for InputPlumber's bus *)
(* name, enables management of all devices and keeps the built-in pad last *)
(* in the player order; "release", "reclaim" and "ensure" stop and restart *)
(* the built-in pad's composite device, for the calibration tool.          *)
(*                                                                         *)
(* Every D-Bus call is one step, so hot plugging, InputPlumber's own       *)
(* restart and the other client run between any two of them.  Signals for  *)
(* the daemon are first on the socket (wire); reading a reply or waiting   *)
(* in dbus_connection_read_write moves them to libdbus' queue (inq), which *)
(* only dbus_connection_pop_message empties.                               *)
(***************************************************************************)
EXTENDS Integers, Sequences, FiniteSets, SequencesExt

CONSTANTS Externals,      \* pads that can be plugged in
          Builtin,        \* the built-in pad
          Commands,       \* commands given while the daemon runs
          MaxChanges,     \* bound: plugs, unplugs, starts and stops of InputPlumber,
                          \* commands, other bus connections
          MaxTimeouts     \* bound: D-Bus calls that time out

VARIABLES ip,       \* InputPlumber: up, ready, manage, its composites and targets, order
          plugged,  \* external pads that are plugged in
          wire, inq,
          d,        \* the daemon
          client,   \* the command
          changes, timeouts

padVars == <<ip, plugged, wire, inq, d, client, changes, timeouts>>

IpDown == [up |-> FALSE, ready |-> FALSE, manage |-> FALSE, comps |-> {}, targets |-> {},
           order |-> << >>, stopped |-> FALSE]

PadInit ==
    /\ ip = IpDown
    /\ plugged = {}
    /\ wire = << >> /\ inq = << >>
    /\ d = [at |-> "owned", active |-> FALSE, msg |-> "none", devs |-> {}, order |-> << >>,
            then |-> "wait"]
    /\ client = [cmd |-> "none", at |-> "idle", rc |-> 0, devs |-> {}, order |-> << >>]
    /\ changes = 0 /\ timeouts = 0

\* The members of s that are in S, in the order of s.
Among(s, S) ==
    LET upTo[k \in 0 .. Len(s)] ==
          IF k = 0 THEN << >> ELSE IF s[k] \in S THEN Append(upTo[k - 1], s[k]) ELSE upTo[k - 1]
    IN  upTo[Len(s)]
Minus(s, p) == Among(s, Range(s) \ {p})

-----------------------------------------------------------------------------
(* InputPlumber, as zlyme-input relies on it. *)

\* InterfacesAdded, InterfacesRemoved and PropertiesChanged are all "change";
\* a run of equal signals is kept as one.
Noted(q, m) == IF q # << >> /\ Last(q) = m THEN q ELSE Append(q, m)
Joined(q, r) == q \o IF q # << >> /\ r # << >> /\ Last(q) = Head(r) THEN Tail(r) ELSE r
Signal(m) == wire' = Noted(wire, m)
IpOnly == UNCHANGED <<plugged, inq, d, client, timeouts>>
Changing == changes < MaxChanges /\ changes' = changes + 1

IpStart ==
    /\ ~ip.up
    /\ Changing
    /\ ip' = [IpDown EXCEPT !.up = TRUE]
    /\ Signal("owner")
    /\ IpOnly

IpReady ==
    /\ ip.up /\ ~ip.ready
    /\ ip' = [ip EXCEPT !.ready = TRUE]
    /\ Signal("change")
    /\ UNCHANGED changes /\ IpOnly

IpStop ==
    /\ ip.up
    /\ Changing
    /\ ip' = IpDown
    /\ Signal("gone")
    /\ IpOnly

PlugPad ==
    /\ Changing
    /\ \E e \in Externals : plugged' = IF e \in plugged THEN plugged \ {e} ELSE plugged \cup {e}
    /\ UNCHANGED <<ip, wire, inq, d, client, timeouts>>

Managed == IF ~ip.manage THEN {} ELSE plugged \cup (IF ip.stopped THEN {} ELSE {Builtin})

IpComposite ==
    \E p \in Managed \ ip.comps :
       /\ ip' = [ip EXCEPT !.comps = @ \cup {p}]
       /\ Signal("change")
       /\ UNCHANGED changes /\ IpOnly

IpTarget ==
    \E p \in (ip.comps \cap Managed) \ ip.targets :
       /\ ip' = [ip EXCEPT !.targets = @ \cup {p}, !.order = Append(Minus(@, p), p)]
       /\ Signal("change")
       /\ UNCHANGED changes /\ IpOnly

IpRemove ==
    \E p \in ip.comps \ Managed :
       /\ ip' = [ip EXCEPT !.comps = @ \ {p}, !.targets = @ \ {p}, !.order = Minus(@, p)]
       /\ Signal("change")
       /\ UNCHANGED changes /\ IpOnly

InputPlumber == IpStart \/ IpReady \/ IpStop \/ IpComposite \/ IpTarget \/ IpRemove

\* NameOwnerChanged of some other connection; each zlyme-input command makes one.
Bystander ==
    /\ Changing
    /\ Signal("other")
    /\ UNCHANGED ip /\ IpOnly

(* A written order: names InputPlumber does not know are passed over, pads  *)
(* that are not named follow.                                               *)
Ordered(want) ==
    Among(want, ip.targets) \o Among(ip.order, ip.targets \ Range(want))

-----------------------------------------------------------------------------
(* D-Bus calls.  A call fails when the name has no owner, when the object   *)
(* is not there yet, and when its 3 s are over.                             *)

Answers(ready) == ip.up /\ (ready => ip.ready)
CallFails(ready) ==
    \/ ~Answers(ready) /\ UNCHANGED timeouts
    \/ timeouts < MaxTimeouts /\ timeouts' = timeouts + 1
CallWorks(ready) == Answers(ready) /\ UNCHANGED timeouts

\* The daemon reads the reply and whatever else is on the socket, or not yet.
ReadReply ==
    \/ inq' = Joined(inq, wire) /\ wire' = << >>
    \/ UNCHANGED <<inq, wire>>

(* The order, followed by the listed devices that are not in it; of these    *)
(* zlyme_order_builtin_last moves the built-in one to the end, which it      *)
(* knows by the name in the list.                                            *)
Named(devs, order) == order \o SetToSeq(devs \ Range(order))
Wanted(devs, order) ==
    LET all == Named(devs, order)
    IN  IF Builtin \in devs THEN Minus(all, Builtin) \o Among(all, {Builtin}) ELSE all
Unsorted(devs, order) == Wanted(devs, order) # Named(devs, order)

-----------------------------------------------------------------------------
(* zlyme-input run *)

DaemonAt(from) == d.at = from /\ UNCHANGED <<plugged, client, changes>>
To(s) == d' = [d EXCEPT !.at = s]

(* activate: the name, the manager, management, the order.  When it fails   *)
(* the loop goes on without having become active.                           *)
AskOwner ==
    /\ DaemonAt("owned")
    /\ ReadReply
    /\ IF ip.up THEN To("ready") ELSE To(d.then)
    /\ UNCHANGED <<ip, timeouts>>

GetManageAll ==
    /\ DaemonAt("ready")
    /\ ReadReply
    /\ (CallWorks(TRUE) /\ To("manage")) \/ (CallFails(TRUE) /\ To(d.then))
    /\ UNCHANGED ip

SetManageAll ==
    /\ DaemonAt("manage")
    /\ ReadReply
    /\ \/ CallWorks(TRUE) /\ ip' = [ip EXCEPT !.manage = TRUE]
          /\ d' = [d EXCEPT !.at = "list", !.active = TRUE]
       \/ CallFails(TRUE) /\ To(d.then) /\ UNCHANGED ip

(* reconcile: list the composites, get the order, write it if it changes *)
ListComposites ==
    /\ DaemonAt("list")
    /\ ReadReply
    /\ \/ CallWorks(FALSE) /\ d' = [d EXCEPT !.at = "order", !.devs = ip.comps]
       \/ CallFails(FALSE) /\ To(d.then)
    /\ UNCHANGED ip

GetOrder ==
    /\ DaemonAt("order")
    /\ ReadReply
    /\ \/ /\ CallWorks(TRUE)
          /\ d' = [d EXCEPT !.order = ip.order,
                            !.at = IF Unsorted(d.devs, ip.order) THEN "set" ELSE d.then]
       \/ CallFails(TRUE) /\ To(d.then)
    /\ UNCHANGED ip

SetOrder ==
    /\ DaemonAt("set")
    /\ To(d.then)
    /\ \/ LET new == Ordered(Wanted(d.devs, d.order))
          IN  /\ CallWorks(TRUE)
              /\ ip' = [ip EXCEPT !.order = new]
              /\ wire' = IF new = ip.order THEN wire ELSE Noted(wire, "change")
              /\ UNCHANGED inq
       \/ CallFails(TRUE) /\ ReadReply /\ UNCHANGED ip

\* dbus_connection_read_write(conn, -1): returns when the socket has data
WaitBus ==
    /\ DaemonAt("wait")
    /\ wire # << >>
    /\ inq' = Joined(inq, wire) /\ wire' = << >>
    /\ To("pop")
    /\ UNCHANGED <<ip, timeouts>>

PopMessage ==
    /\ DaemonAt("pop")
    /\ IF inq = << >> THEN To("wait") /\ UNCHANGED inq
       ELSE /\ inq' = Tail(inq)
            /\ d' = [d EXCEPT !.at = "check", !.msg = Head(inq), !.then = "pop",
                              !.active = @ /\ Head(inq) # "gone"]
    /\ UNCHANGED <<ip, wire, timeouts>>

\* Mutant: a new owner does not make an active daemon start over.
CheckOwner_once ==
    /\ DaemonAt("check")
    /\ ReadReply
    /\ d' = IF ~ip.up THEN [d EXCEPT !.active = FALSE, !.at = "pop"]
            ELSE [d EXCEPT !.at = IF d.msg \in {"owner", "gone"} /\ ~d.active THEN "owned"
                                  ELSE IF d.msg = "other" THEN "pop" ELSE "list"]
    /\ UNCHANGED <<ip, timeouts>>

CheckOwner ==
    /\ DaemonAt("check")
    /\ ReadReply
    /\ d' = IF ~ip.up THEN [d EXCEPT !.active = FALSE, !.at = "pop"]
            ELSE [d EXCEPT !.at = IF ~d.active \/ d.msg \in {"owner", "gone"} THEN "owned"
                                  ELSE IF d.msg = "other" THEN "pop" ELSE "list"]
    /\ UNCHANGED <<ip, timeouts>>

Daemon == \/ AskOwner \/ GetManageAll \/ SetManageAll \/ ListComposites \/ GetOrder \/ SetOrder
          \/ WaitBus \/ PopMessage \/ CheckOwner

-----------------------------------------------------------------------------
(* zlyme-input release, reclaim and ensure *)

CmdAt(from) == client.at = from /\ UNCHANGED <<plugged, inq, d, changes>>
Exit(rc) == client' = [client EXCEPT !.at = "idle", !.rc = rc]
ReleaseDone(devs) == Builtin \notin devs
ReclaimDone(devs, targets) == Builtin \in devs /\ Builtin \in targets

Command ==
    /\ client.at = "idle" /\ UNCHANGED <<plugged, inq, d>>
    /\ client.cmd = "none" \/ client.rc = 0
    /\ Changing
    /\ \E cmd \in Commands : client' = [client EXCEPT !.cmd = cmd, !.at = "name", !.rc = 1]
    /\ Signal("other")
    /\ UNCHANGED <<ip, timeouts>>

CmdName ==
    /\ CmdAt("name")
    /\ IF ip.up THEN client' = [client EXCEPT !.at = "first"]
       ELSE Exit(IF client.cmd = "ensure" THEN 0 ELSE 1)
    /\ UNCHANGED <<ip, wire, timeouts>>

CmdList ==
    /\ CmdAt("first")
    /\ \/ /\ CallWorks(FALSE)
          /\ IF client.cmd = "release"
             THEN IF ReleaseDone(ip.comps) THEN Exit(0) ELSE client' = [client EXCEPT !.at = "act"]
             ELSE client' = [client EXCEPT !.at =
                               IF ReclaimDone(ip.comps, ip.targets) THEN "ready" ELSE "act"]
       \/ CallFails(FALSE) /\ Exit(1)
    /\ UNCHANGED <<ip, wire>>

(* Stop of the composite that was listed, or RescanDevices *)
CmdAct ==
    /\ CmdAt("act")
    /\ \/ /\ CallWorks(client.cmd # "release")
          /\ client.cmd = "release" => Builtin \in ip.comps
          /\ ip' = [ip EXCEPT !.stopped = client.cmd = "release"]
          /\ client' = [client EXCEPT !.at = "wait"]
       \/ client.cmd = "release" /\ Builtin \notin ip.comps /\ Exit(1) /\ UNCHANGED <<ip, timeouts>>
       \/ CallFails(client.cmd # "release") /\ Exit(1) /\ UNCHANGED ip
    /\ UNCHANGED wire

(* wait_until, 3 s *)
CmdWait ==
    /\ CmdAt("wait")
    /\ \/ /\ CallWorks(FALSE)
          /\ IF client.cmd = "release" THEN ReleaseDone(ip.comps) /\ Exit(0)
             ELSE ReclaimDone(ip.comps, ip.targets) /\ client' = [client EXCEPT !.at = "list"]
       \/ CallFails(FALSE) /\ Exit(1)
    /\ UNCHANGED <<ip, wire>>

\* reconcile; what it returns counts only after a rescan
CmdReconcile ==
    LET quiet == client.at \in {"ready", "ready2", "ready3"}
        failed == CallFails(TRUE) /\ Exit(IF quiet THEN 0 ELSE 1) /\ UNCHANGED <<ip, wire>>
    IN  /\ UNCHANGED <<plugged, inq, d, changes>>
        /\ \/ /\ client.at \in {"list", "ready"}
              /\ \/ CallWorks(FALSE) /\ UNCHANGED <<ip, wire>>
                    /\ client' = [client EXCEPT !.devs = ip.comps, !.at = IF quiet THEN "ready2" ELSE "order"]
                 \/ failed
           \/ /\ client.at \in {"order", "ready2"}
              /\ \/ CallWorks(TRUE) /\ UNCHANGED <<ip, wire>>
                    /\ IF Unsorted(client.devs, ip.order)
                       THEN client' = [client EXCEPT !.order = ip.order,
                                                     !.at = IF quiet THEN "ready3" ELSE "set"]
                       ELSE Exit(0)
                 \/ failed
           \/ /\ client.at \in {"set", "ready3"}
              /\ \/ LET new == Ordered(Wanted(client.devs, client.order))
                    IN  /\ CallWorks(TRUE)
                        /\ ip' = [ip EXCEPT !.order = new]
                        /\ wire' = IF new = ip.order THEN wire ELSE Noted(wire, "change")
                        /\ Exit(0)
                 \/ failed

Client == Command \/ CmdName \/ CmdList \/ CmdAct \/ CmdWait \/ CmdReconcile

PadNext == InputPlumber \/ Bystander \/ PlugPad \/ Daemon \/ Client
PadSpec == PadInit /\ [][PadNext]_padVars

-----------------------------------------------------------------------------
ASSUME PolicyAssumption == IsFiniteSet(Externals) /\ Builtin \notin Externals

BuiltinLast(order) == Builtin \in Range(order) => Last(order) = Builtin

(* When the daemon waits with every signal handled and no call timed out,   *)
(* a ready InputPlumber manages all devices and the built-in pad is the     *)
(* last player, whatever was plugged, released or restarted between the     *)
(* daemon's calls (cmd_run, activate, reconcile).                           *)
PolicyApplied ==
    d.at = "wait" /\ wire = << >> /\ inq = << >> /\ timeouts = 0 /\ ip.ready
    => ip.manage /\ BuiltinLast(ip.order)
=============================================================================
