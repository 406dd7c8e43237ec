----------------------------- MODULE RouteLinux -----------------------------
(***************************************************************************)
(* The IPv4 routes of a TUN session on Linux: capture_default,             *)
(* route_setup with its rollback, and route_teardown                       *)
(* (common/route_linux.c), run by the client's sessions one after another. *)
(*                                                                         *)
(* Each step is one `ip` command, which the kernel may refuse.  The        *)
(* kernel's table holds one route per destination and priority; `replace`  *)
(* takes over that place and a route given without a metric has priority   *)
(* 0.  Between two commands the TUN device may vanish with its routes, the *)
(* host may lose its gateway, move to another network or change its        *)
(* gateway within the same one, or the process may be killed.              *)
(***************************************************************************)
EXTENDS Naturals, Sequences, FiniteSets

CONSTANTS
    TargetLists,  \* the lists of route targets a session may be given
    Tables        \* the routing tables the host may start with

VARIABLES
    table,      \* the kernel's IPv4 routes
    pc,         \* the next command
    targets,    \* routes_with_default of this session
    idx,          \* index of the target being handled
    saved,      \* ogw, odev and metric: the default captured at the start
    srv_default_installed, srv_pin_installed,
    dev,        \* the TUN device: "up", "down" or "gone"
    gateway,    \* the captured gateway is still reachable
    start,      \* the table when the session began (history)
    clean       \* since then nothing vanished or was killed, and teardown
                \* neither was refused a command nor put back a default that
                \* the host had changed meanwhile (history)

routeVars == <<table, pc, targets, idx, saved, srv_default_installed,
          srv_pin_installed, dev, gateway, start, clean>>
routeFlags == <<srv_default_installed, srv_pin_installed>>
session == <<targets, saved, start>>

Dsts == {"default", "srv", "loc", "net"}

\* Two physical interfaces: "eth", the one the default goes through, and one
\* more on a host with several.
Route == [dst : Dsts, prio : 0..2, dev : {"eth", "wlan", "tun"},
          via : {"old", "new", "link"}]

\* The kernel keeps one route per destination and priority.
OnePerPlace(t) == \A q, r \in t : q.dst = r.dst /\ q.prio = r.prio => q = r

ASSUME RouteConstants ==
    /\ \A l \in TargetLists : l # <<>> /\ l \in Seq({"default", "net"})
    /\ \A t \in Tables :
          /\ t \subseteq Route /\ \E r \in t : r.dst = "default" /\ r.via = "old"
          /\ \A r \in t : r.dev # "tun"
          /\ OnePerPlace(t)

RouteTypeOK ==
    /\ table \subseteq Route /\ start \subseteq Route
    /\ pc \in {"idle", "up", "pin", "local", "route", "running", "unroute",
               "restore", "restore2", "unpin", "down"}
    /\ targets \in TargetLists \cup {<<>>} /\ idx \in 1..Len(targets) + 1
    /\ saved \in Route
    /\ {srv_default_installed, srv_pin_installed, gateway, clean} \subseteq BOOLEAN
    /\ dev \in {"up", "down", "gone"}

Defaults(t) == {r \in t : r.dst = "default"}

\* capture_default: the first default with a gateway that `ip route show`
\* lists, which is the one of the lowest priority value.
Captured(t) ==
    CHOOSE r \in Defaults(t) :
        r.via # "link"
        /\ \A q \in Defaults(t) : q.via # "link" => r.prio <= q.prio

\* Mutant: the tunnel's routes carry the captured metric.
InTunnelAtMetric(d) ==
    [dst |-> d, prio |-> saved.prio, dev |-> "tun", via |-> "link"]

InTunnel(d) == [dst |-> d, prio |-> 0, dev |-> "tun", via |-> "link"]
Pin         == [dst |-> "srv", prio |-> 0, dev |-> saved.dev, via |-> saved.via]
Preserve    == [dst |-> "loc", prio |-> 0, dev |-> saved.dev, via |-> "link"]
DeviceOnly  == [dst |-> "default", prio |-> 0, dev |-> saved.dev, via |-> "link"]

\* ip route replace.
Replace(t, r) == {q \in t : q.dst # r.dst \/ q.prio # r.prio} \cup {r}

\* The kernel drops a device's routes when it goes down or away.
WithoutTun(t) == {q \in t : q.dev # "tun"}

RouteInit ==
    /\ table \in Tables /\ start = table /\ saved = Captured(table)
    /\ pc = "idle" /\ targets = <<>> /\ idx = 1
    /\ srv_default_installed = FALSE /\ srv_pin_installed = FALSE
    /\ dev = "down" /\ gateway = TRUE /\ clean = TRUE

-----------------------------------------------------------------------------
(* route_setup.                                                            *)

\* run_pump: capture the default, forget what an earlier session installed.
Begin(l) ==
    /\ pc = "idle" /\ dev # "gone" /\ \E r \in Defaults(table) : r.via # "link"
    /\ pc' = "up" /\ targets' = l /\ idx' = 1
    /\ saved' = Captured(table) /\ start' = table /\ gateway' = TRUE
    /\ clean' = TRUE
    /\ srv_default_installed' = FALSE /\ srv_pin_installed' = FALSE
    /\ UNCHANGED <<table, dev>>

\* route_iface_up, or nothing but route_iface_down.
IfaceUp ==
    /\ pc = "up"
    /\ \/ dev # "gone" /\ dev' = "up" /\ pc' = "pin"
       \/ pc' = "down" /\ dev' \in {dev} \cup (IF dev = "gone" THEN {} ELSE {"up"})
    /\ UNCHANGED <<table, session, idx, routeFlags, gateway, clean>>

\* The server's pin through the old gateway, unless the server is on this
\* host; when the kernel refuses it, route_iface_down.
SetPin ==
    /\ pc = "pin"
    /\ \/ /\ \/ gateway /\ table' = Replace(table, Pin) /\ srv_pin_installed' = TRUE
             \/ UNCHANGED <<table, srv_pin_installed>>
          /\ pc' = IF targets[idx] = "default" THEN "local" ELSE "route"
       \/ pc' = "down" /\ UNCHANGED <<table, srv_pin_installed>>
    /\ UNCHANGED <<session, idx, srv_default_installed, dev, gateway, clean>>

\* goto rollback_routes.
Rollback == pc' = "unroute" /\ idx' = 1

\* Before the default is taken, the local subnet gets a route of its own; when
\* `ip addr show` names none, set-up goes on.
PreserveLocal ==
    /\ pc = "local"
    /\ \/ pc' = "route" /\ table' = Replace(table, Preserve) /\ UNCHANGED idx
       \/ pc' = "route" /\ UNCHANGED <<table, idx>>
       \/ Rollback /\ UNCHANGED table
    /\ UNCHANGED <<session, routeFlags, dev, gateway, clean>>

\* route replace <target> dev <tun>, for the default or for a CIDR.
SetRoute ==
    /\ pc = "route"
    /\ \/ /\ dev = "up"
          /\ table' = Replace(table, InTunnel(targets[idx]))
          /\ srv_default_installed' =
                (srv_default_installed \/ targets[idx] = "default")
          /\ idx' = idx + 1
          /\ pc' = IF idx = Len(targets) THEN "running"
                   ELSE IF targets[idx + 1] = "default" THEN "local" ELSE "route"
       \/ Rollback /\ UNCHANGED <<table, srv_default_installed>>
    /\ UNCHANGED <<session, srv_pin_installed, dev, gateway, clean>>

-----------------------------------------------------------------------------
(* route_teardown, at the end of a session or for a rollback.              *)

Stop ==
    /\ pc = "running"
    /\ Rollback
    /\ UNCHANGED <<table, session, routeFlags, dev, gateway, clean>>

\* The next target, or the pin.
Onward == idx' = idx + 1 /\ pc' = IF idx = Len(targets) THEN "unpin" ELSE "unroute"

\* A default this session did not install is not looked at.
SkipDefault ==
    /\ pc = "unroute" /\ targets[idx] = "default" /\ ~srv_default_installed
    /\ Onward
    /\ UNCHANGED <<table, session, routeFlags, dev, gateway, clean>>

\* route del <target> dev <tun>.  The flag is cleared first; the old default
\* is put back only when the tunnel's was there to delete.
Unroute ==
    /\ pc = "unroute" /\ (targets[idx] = "default" => srv_default_installed)
    /\ \/ /\ InTunnel(targets[idx]) \in table
          /\ table' = table \ {InTunnel(targets[idx])}
          /\ IF targets[idx] = "default"
             THEN pc' = "restore" /\ UNCHANGED idx
             ELSE Onward
          /\ UNCHANGED clean
       \/ /\ Onward /\ UNCHANGED table
          /\ clean' = (clean /\ InTunnel(targets[idx]) \notin table)
    /\ srv_default_installed' =
          (srv_default_installed /\ targets[idx] # "default")
    /\ UNCHANGED <<session, srv_pin_installed, dev, gateway>>

\* Mutant: the old default comes back without its metric.
RestoreBare ==
    /\ pc = "restore"
    /\ \/ /\ gateway /\ table' = Replace(table, [saved EXCEPT !.prio = 0])
          /\ Onward /\ clean' = (clean /\ saved \in start)
       \/ pc' = "restore2" /\ clean' = FALSE /\ UNCHANGED <<table, idx>>
    /\ UNCHANGED <<session, routeFlags, dev, gateway>>

\* route replace default via <ogw> dev <odev> metric <metric>.
Restore ==
    /\ pc = "restore"
    /\ \/ /\ gateway /\ table' = Replace(table, saved) /\ Onward
          /\ clean' = (clean /\ saved \in start)
       \/ pc' = "restore2" /\ clean' = FALSE /\ UNCHANGED <<table, idx>>
    /\ UNCHANGED <<session, routeFlags, dev, gateway>>

\* ... or a default through the device alone; that may fail as well.
RestoreDevice ==
    /\ pc = "restore2"
    /\ Onward
    /\ \/ table' = Replace(table, DeviceOnly)
       \/ UNCHANGED table
    /\ UNCHANGED <<session, routeFlags, dev, gateway, clean>>

\* Mutant: route del <srv>/32, with no gateway and device to go by.
UnpinAny ==
    /\ pc = "unpin"
    /\ pc' = "down" /\ srv_pin_installed' = FALSE
    /\ \/ /\ srv_pin_installed
          /\ \E r \in table :
                /\ r.dst = "srv"
                /\ \A q \in table : q.dst = "srv" => r.prio <= q.prio
                /\ table' = table \ {r}
          /\ UNCHANGED clean
       \/ UNCHANGED table /\ clean' = (clean /\ ~srv_pin_installed)
    /\ UNCHANGED <<session, idx, srv_default_installed, dev, gateway>>

\* The server's pin, if it is ours.
Unpin ==
    /\ pc = "unpin"
    /\ pc' = "down" /\ srv_pin_installed' = FALSE
    /\ \/ srv_pin_installed /\ table' = table \ {Pin} /\ UNCHANGED clean
       \/ UNCHANGED table /\ clean' = (clean /\ ~srv_pin_installed)
    /\ UNCHANGED <<session, idx, srv_default_installed, dev, gateway>>

\* route_iface_down.
IfaceDown ==
    /\ pc = "down"
    /\ pc' = "idle"
    /\ \/ /\ table' = WithoutTun(table)
          /\ dev' = IF dev = "gone" THEN "gone" ELSE "down"
       \/ UNCHANGED <<table, dev>>
    /\ UNCHANGED <<session, idx, routeFlags, gateway, clean>>

-----------------------------------------------------------------------------
(* Around it.                                                              *)

\* The TUN device is removed and takes its routes with it.
Vanish ==
    /\ dev # "gone"
    /\ dev' = "gone" /\ table' = WithoutTun(table) /\ clean' = FALSE
    /\ UNCHANGED <<pc, session, idx, routeFlags, gateway>>

\* The gateway can no longer be used.
GatewayLost ==
    /\ gateway /\ pc # "idle"
    /\ gateway' = FALSE
    /\ UNCHANGED <<table, pc, session, idx, routeFlags, dev, clean>>

\* The default that the host's network manager puts in the place of the
\* captured one when the gateway changes.
Renumbered == [saved EXCEPT !.via = "new"]

\* To another network: the old one's routes go, its gateway is unreachable.
GatewayMoved(t) == Replace({r \in t : r.via # "old" \/ r.dev # saved.dev}, Renumbered)

Roam ==
    /\ pc # "idle" /\ saved.via = "old" /\ saved \in start
    /\ table' = GatewayMoved(table) /\ start' = GatewayMoved(start) /\ gateway' = FALSE
    /\ UNCHANGED <<pc, targets, idx, saved, routeFlags, dev, clean>>

\* Within the same subnet: the kernel goes on accepting the old next hop.
Renumber ==
    /\ pc # "idle" /\ saved.via = "old" /\ saved \in start
    /\ table' = Replace(table, Renumbered) /\ start' = Replace(start, Renumbered)
    /\ UNCHANGED <<pc, targets, idx, saved, routeFlags, dev, gateway, clean>>

\* The process is killed: the kernel unregisters the device.  Another client
\* opens it anew and starts with its statics cleared.
Killed ==
    /\ pc' = "idle" /\ targets' = <<>> /\ idx' = 1
    /\ table' = WithoutTun(table) /\ dev' = "down"
    /\ srv_default_installed' = FALSE /\ srv_pin_installed' = FALSE
    /\ clean' = FALSE
    /\ UNCHANGED <<saved, gateway, start>>

RouteNext ==
    \/ \E l \in TargetLists : Begin(l)
    \/ IfaceUp \/ SetPin \/ PreserveLocal \/ SetRoute
    \/ Stop \/ SkipDefault \/ Unroute \/ Restore \/ RestoreDevice
    \/ Unpin \/ IfaceDown
    \/ Vanish \/ GatewayLost \/ Roam \/ Renumber \/ Killed

RouteSpec == RouteInit /\ [][RouteNext]_routeVars

-----------------------------------------------------------------------------
(* Properties.                                                             *)

\* When a session is over that nothing disturbed, whichever set-up step
\* failed, the host has every default through a gateway that it had before,
\* with its device and metric, and no default that it had not (route_setup's
\* rollback, route_teardown).  A gateway that changed meanwhile is no
\* disturbance as long as teardown has not put the old one back.
DefaultsRestored ==
    pc = "idle" /\ clean =>
        /\ {r \in Defaults(start) : r.via # "link"} \subseteq table
        /\ Defaults(WithoutTun(table)) \subseteq start

\* A physical default with a metric is not lost, in any order of the steps with
\* vanishing devices, kills, refused commands and a move to another network.
\* One case is excepted: when the gateway changed within the network, the
\* replace of route_teardown (369-383) puts the captured default in the new
\* one's place.  With the types.
MetricDefaultKept ==
    /\ RouteTypeOK
    /\ \A r \in Defaults(WithoutTun(start)) :
          r.prio # 0 => r \in table \/ (r = Renumbered /\ saved \in table)

\* When the client is gone, the host has its default routes, the metric ones
\* included (route_setup, route_teardown).
RoutesKept == DefaultsRestored /\ MetricDefaultKept

\* B-1/B-2: an undisturbed session, or one whose set-up failed anywhere and was
\* rolled back, takes out exactly what it put in.  What it leaves in the table
\* is the route that preserves the local subnet, which no list of
\* route_teardown names; what it cannot give back are routes without a metric
\* whose place one of its own replaced.
OnlyLocalLeft ==
    pc = "idle" /\ clean =>
        /\ table \ start \subseteq {Preserve}
        /\ \A r \in start \ table : r.prio = 0
=============================================================================
