------------------------------- MODULE Egress -------------------------------
(***************************************************************************)
(* How a container's traffic finds its Envoy listener.  Four parties share *)
(* the pinned BPF maps without a common lock: the datapath (bpf/common.h,  *)
(* bpf/clawker.c) reads them on every connect and sendmsg; SyncRoutes      *)
(* (ebpf/manager.go), one call at a time on the action queue, replaces     *)
(* route_map and seeds dns_cache for rules whose destination is a bare IP; *)
(* the dnsbpf plugin in the CoreDNS container writes dns_cache for every   *)
(* answer; and the garbage collector of the control plane sweeps it.  The  *)
(* maps outlive the control plane; the set of seeded IPs does not.         *)
(*                                                                         *)
(* A domain hash is the destination it is the hash of.  A service stands   *)
(* for a port and a transport.  A listener is named by the rule it was     *)
(* generated for: what Envoy really serves there is StackReconcile's       *)
(* matter.  One application socket stands for all: flows are keyed by the  *)
(* socket's cookie.                                                        *)
(***************************************************************************)
EXTENDS Integers, FiniteSets

CONSTANTS
    Domain,       \* the zones of the Corefile
    Ip,           \* the addresses traffic is aimed at
    Svc,          \* the services: a port and a transport
    Udp,          \* those whose transport is UDP
    Rule,         \* the rules an operator may allow: [dst, svc]
    Resolves,     \* the addresses each domain resolves to
    None,         \* no entry, no address
    TTL,          \* the time an answer stays valid
    CacheSize,    \* max_entries of dns_cache
    Faults,       \* the calls that may fail, "restart" and "enforce"
    MaxTime,      \* bound: the clock
    MaxAims,      \* bound: the routed flows of a socket
    MaxChanges,   \* bound: rule changes and reloads
    MaxFaults     \* bound: failing calls, restarts and enforcement changes

\* An entry of dns_cache: the destination whose hash it holds, its expiry.
Entry == [hash : Domain \cup Ip, expire : Nat]

ASSUME ConstantsAssumption ==
    /\ Udp \subseteq Svc
    /\ Rule \subseteq [dst : Domain \cup Ip, svc : Svc]
    /\ Resolves \in [Domain -> SUBSET Ip]
    /\ None \notin Ip \cup Domain /\ None \notin Rule \cup Entry
    /\ Domain \cap Ip = {}
    /\ Faults \subseteq {"clear", "fill", "orphan", "sweep", "restart", "enforce"}
    /\ {TTL, CacheSize, MaxTime, MaxAims, MaxChanges, MaxFaults} \subseteq Nat

VARIABLES
    rules,          \* the rule store, and with it the zones CoreDNS serves
    route_map,      \* the rules the datapath knows
    dns_cache,      \* what each address stands for, and until when
    seededIPs,      \* Manager.seededIPs
    sync,           \* the SyncRoutes call in progress
    synced,         \* the last SyncRoutes of this control plane returned nil
    gc,             \* the sweep in progress
    clock,
    app,            \* an application: its last question and the answer it holds
    enforced,       \* its container: in container_map, bypassed, or not enforced
    udp_flow_map,   \* the reverse-NAT entries of its socket, by listener
    aimed,          \* history: where the socket's routed datagrams were aimed
    unsafe,         \* history: seeds a sweep may have missed being protected
    changes, faults

maps == <<route_map, dns_cache>>
bounds == <<changes, faults>>
flows == <<enforced, udp_flow_map, aimed>>
vars == <<rules, maps, seededIPs, sync, synced, gc, clock, app, flows, unsafe, bounds>>

-----------------------------------------------------------------------------
(* Entries, seeds and lookups.                                             *)

\* When a seed expires, a year from now: after the end of every behaviour.
SeedExpiry == MaxTime + TTL + 1

Cached(i) == dns_cache[i] # None
Expired(i, now) == Cached(i) /\ dns_cache[i].expire < now

\* The addresses of a rule set's IP literals: the routes with a SeedIP.
SeedsOf(rs) == {r.dst : r \in rs} \cap Ip

\* The listener a flow to address i is redirected to, None on a miss.
lookup_route(i, s) ==
    LET r == [dst |-> dns_cache[i].hash, svc |-> s]
    IN  IF Cached(i) /\ r \in route_map THEN r ELSE None

\* A flow to address i takes its rule's listener, or what is left without one.
Redirect(i, s, otherwise) ==
    LET r == lookup_route(i, s)
    IN  IF r # None THEN <<"listener", r>> ELSE <<otherwise>>

\* What connect does with a destination, by where it lies.  Outside the
\* container's network a UDP flow fails closed without a rule, and a TCP flow
\* falls back on the shared listener.  Envoy's own sockets carry a mark.
decide_connect(place, i, s) ==
    CASE place = "dns"     -> <<"coredns">>
      [] place = "gateway" -> <<"egress">>
      [] place \in {"marked", "loopback", "subnet", "hostproxy"} -> <<"unchanged">>
      [] OTHER -> Redirect(i, s, IF s \in Udp THEN "deny" ELSE "egress")

\* What sendmsg does with an unconnected datagram.  It knows neither the
\* mark, nor the gateway, nor the host proxy.
decide_sendmsg(place, i, s) ==
    CASE place = "dns" -> <<"coredns">>
      [] place \in {"loopback", "subnet"} -> <<"unchanged">>
      [] OTHER -> Redirect(i, s, "deny")

\* What the cgroup programs do with a destination, by hook and address family.
\* Native IPv6 is denied; an IPv4-mapped address is treated as the IPv4 one.
Verdict(hook, family, place, i, s) ==
    CASE enforced # "on"     -> <<"unchanged">>
      [] family = "native"   -> <<IF place = "loopback" THEN "unchanged" ELSE "deny">>
      [] hook = "connect"    -> decide_connect(place, i, s)
      [] hook = "sendmsg"    -> decide_sendmsg(place, i, s)

Hook == {"connect", "sendmsg"}
Family == {"v4", "mapped", "native"}

\* Variant: the reply side honours a bypass.
ReplyHonoursBypass(r) ==
    IF enforced # "on" \/ udp_flow_map[r] = None THEN "envoy" ELSE udp_flow_map[r]

\* The address a reply through listener r seems to come from, and the peer a
\* connected socket reports.  A bypass does not matter on this side.
restore_reply_source(r) ==
    IF enforced = "off" \/ udp_flow_map[r] = None THEN "envoy" ELSE udp_flow_map[r]

Fails(f) == f \in Faults /\ faults < MaxFaults
Idle == [pc |-> "idle", routes |-> {}, orphaned |-> {}, errs |-> FALSE]
Ignorant == [pc |-> "idle", dst |-> None, ip |-> None, until |-> 0, raced |-> FALSE]
Resting == [pc |-> "idle", now |-> 0, protected |-> {}, expired |-> {}]

-----------------------------------------------------------------------------
(* Some rules have just been synced for the first time.                    *)

Init ==
    /\ rules \in SUBSET Rule /\ route_map = rules
    /\ dns_cache = [i \in Ip |-> IF i \in SeedsOf(rules)
                                 THEN [hash |-> i, expire |-> SeedExpiry] ELSE None]
    /\ seededIPs = SeedsOf(rules) /\ sync = Idle /\ synced = TRUE
    /\ gc = Resting /\ clock = 0
    /\ app = Ignorant
    /\ enforced = "on" /\ udp_flow_map = [r \in Rule |-> None]
    /\ aimed = {} /\ unsafe = {}
    /\ changes = 0 /\ faults = 0

-----------------------------------------------------------------------------
(* SyncRoutes.  It never returns early: a failed map operation is noted    *)
(* and the rest is done.                                                   *)

\* An add, a remove or a reload of the rules, or the init after a restart.
SyncBegin(new) ==
    /\ sync.pc = "idle"
    /\ changes < MaxChanges
    /\ rules' = new
    /\ sync' = [Idle EXCEPT !.pc = "clear", !.routes = new]
    /\ synced' = FALSE
    /\ changes' = changes + 1
    /\ UNCHANGED <<maps, seededIPs, gc, clock, app, flows, unsafe, faults>>

\* The keys are listed and deleted; a delete may fail and leave its route.
SyncClear ==
    /\ sync.pc = "clear"
    /\ \E kept \in {{}} \cup {{r} : r \in IF Fails("clear") THEN route_map ELSE {}} :
          /\ route_map' = kept
          /\ sync' = [sync EXCEPT !.pc = "fill", !.errs = kept # {}]
          /\ faults' = faults + Cardinality(kept)
    /\ UNCHANGED <<rules, dns_cache, seededIPs, synced, gc, clock, app, flows, unsafe,
                   changes>>

SyncFill ==
    /\ sync.pc = "fill"
    /\ \E lost \in {{}} \cup {{r} : r \in IF Fails("fill") THEN sync.routes ELSE {}} :
          /\ route_map' = route_map \cup (sync.routes \ lost)
          /\ sync' = [sync EXCEPT !.pc = "seed", !.errs = @ \/ lost # {}]
          /\ faults' = faults + Cardinality(lost)
    /\ UNCHANGED <<rules, dns_cache, seededIPs, synced, gc, clock, app, flows, unsafe,
                   changes>>

\* Insert-only: an address CoreDNS has written keeps CoreDNS's entry.  A full
\* map refuses what is left.
SyncSeed ==
    /\ sync.pc = "seed"
    /\ LET absent == {i \in SeedsOf(sync.routes) : ~Cached(i)}
           room == CacheSize - Cardinality({i \in Ip : Cached(i)})
       IN  \E put \in SUBSET absent :
              /\ put = absent \/ Cardinality(put) = room
              /\ Cardinality(put) <= room
              /\ dns_cache' = [i \in Ip |-> IF i \in put
                                 THEN [hash |-> i, expire |-> SeedExpiry]
                                 ELSE dns_cache[i]]
              /\ sync' = [sync EXCEPT !.pc = "protect", !.errs = @ \/ put # absent]
    /\ unsafe' = IF gc.pc = "idle" THEN {} ELSE SeedsOf(sync.routes)
    /\ UNCHANGED <<rules, route_map, seededIPs, synced, gc, clock, app, flows, bounds>>

\* Variant: an address once seeded stays protected.
ProtectForever ==
    /\ sync.pc = "protect"
    /\ seededIPs' = seededIPs \cup SeedsOf(sync.routes)
    /\ sync' = [sync EXCEPT !.pc = "orphans", !.orphaned = seededIPs \ SeedsOf(sync.routes)]
    /\ UNCHANGED <<rules, maps, synced, gc, clock, app, flows, unsafe, bounds>>

\* diffSeededIPs, under seedMu.
SyncProtect ==
    /\ sync.pc = "protect"
    /\ seededIPs' = SeedsOf(sync.routes)
    /\ sync' = [sync EXCEPT !.pc = "orphans", !.orphaned = seededIPs \ SeedsOf(sync.routes)]
    /\ UNCHANGED <<rules, maps, synced, gc, clock, app, flows, unsafe, bounds>>

\* Variant: a rule that goes away leaves its seed behind.
OrphansStay ==
    /\ sync.pc = "orphans"
    /\ synced' = ~sync.errs
    /\ sync' = Idle
    /\ UNCHANGED <<rules, maps, seededIPs, gc, clock, app, flows, unsafe, bounds>>

\* The seeds that lost their rule go, whoever wrote the entry last; a delete
\* that fails is logged and forgotten.
SyncOrphans ==
    /\ sync.pc = "orphans"
    /\ \E left \in {{}} \cup {{i} : i \in IF Fails("orphan") THEN sync.orphaned ELSE {}} :
          LET gone == sync.orphaned \ left
          IN  /\ dns_cache' = [i \in Ip |-> IF i \in gone THEN None ELSE dns_cache[i]]
              /\ app' = [app EXCEPT !.raced = @ \/ app.ip \in gone]
              /\ faults' = faults + Cardinality(left)
    /\ synced' = ~sync.errs
    /\ sync' = Idle
    /\ UNCHANGED <<rules, route_map, seededIPs, gc, clock, flows, unsafe, changes>>

SyncStep == SyncClear \/ SyncFill \/ SyncSeed \/ SyncProtect \/ SyncOrphans

-----------------------------------------------------------------------------
(* GarbageCollectDNS, once a minute.                                       *)

GcSnapshot ==
    /\ gc.pc = "idle"
    /\ gc' = [Resting EXCEPT !.pc = "iterate", !.now = clock, !.protected = seededIPs]
    /\ unsafe' = IF sync.pc = "protect" THEN SeedsOf(sync.routes) ELSE unsafe
    /\ UNCHANGED <<rules, maps, seededIPs, sync, synced, clock, app, flows, bounds>>

\* Variant: the sweep evicts an entry in its last second.
GcIterateEarly ==
    /\ gc.pc = "iterate"
    /\ gc' = [gc EXCEPT !.pc = "delete", !.now = 0, !.protected = {},
                        !.expired = {i \in Ip \ gc.protected :
                                        Cached(i) /\ dns_cache[i].expire <= gc.now}]
    /\ UNCHANGED <<rules, maps, seededIPs, sync, synced, clock, app, flows, unsafe, bounds>>

\* Variant: the sweep does not know the seeds.
GcIterateAll ==
    /\ gc.pc = "iterate"
    /\ gc' = [gc EXCEPT !.pc = "delete", !.now = 0, !.protected = {},
                        !.expired = {i \in Ip : Expired(i, gc.now)}]
    /\ UNCHANGED <<rules, maps, seededIPs, sync, synced, clock, app, flows, unsafe, bounds>>

GcIterate ==
    /\ gc.pc = "iterate"
    /\ gc' = [gc EXCEPT !.pc = "delete", !.now = 0, !.protected = {},
                        !.expired = {i \in Ip \ gc.protected : Expired(i, gc.now)}]
    /\ UNCHANGED <<rules, maps, seededIPs, sync, synced, clock, app, flows, unsafe, bounds>>

\* The keys are deleted as they were listed, whatever they hold by now.  A
\* failed delete is retried by the next sweep.
GcDelete ==
    /\ gc.pc = "delete"
    /\ \E left \in {{}} \cup {{i} : i \in IF Fails("sweep") THEN gc.expired ELSE {}} :
          /\ dns_cache' = [i \in Ip |-> IF i \in gc.expired \ left THEN None
                                        ELSE dns_cache[i]]
          /\ faults' = faults + Cardinality(left)
    /\ gc' = Resting
    /\ UNCHANGED <<rules, route_map, seededIPs, sync, synced, clock, app, flows, unsafe,
                   changes>>

Gc == GcSnapshot \/ GcIterate \/ GcDelete

-----------------------------------------------------------------------------
(* CoreDNS, its dnsbpf plugin and the application.                         *)

Served(d) == \E r \in rules : r.dst = d

\* writeARecords: the entry is overwritten.  A full map drops a new one,
\* which is only logged.
writeARecords(d, i) ==
    dns_cache' = IF Cached(i) \/ Cardinality({j \in Ip : Cached(j)}) < CacheSize
                 THEN [dns_cache EXCEPT ![i] = [hash |-> d, expire |-> clock + TTL]]
                 ELSE dns_cache

\* ServeDNS writes the map first and forwards the answer after.
Answer(d, i) ==
    /\ Served(d) /\ i \in Resolves[d]
    /\ app.pc # "written"
    /\ writeARecords(d, i)
    /\ app' = [pc |-> "written", dst |-> d, ip |-> i, until |-> clock + TTL,
               raced |-> gc.pc = "delete" /\ i \in gc.expired]
    /\ UNCHANGED <<rules, route_map, seededIPs, sync, synced, gc, clock, flows, unsafe, bounds>>

Forward ==
    /\ app.pc = "written"
    /\ app' = [app EXCEPT !.pc = "told"]
    /\ UNCHANGED <<rules, maps, seededIPs, sync, synced, gc, clock, flows, unsafe, bounds>>

\* The same for an application of another container.
AnswerOther(d, i) ==
    /\ Served(d) /\ i \in Resolves[d]
    /\ writeARecords(d, i)
    /\ UNCHANGED <<rules, route_map, seededIPs, sync, synced, gc, clock, app, flows,
                   unsafe, bounds>>

\* The socket connects to an address, or sends it a datagram: either way the
\* flow is recorded before it is redirected.
Send(i, s) ==
    /\ s \in Udp
    /\ \E r \in Rule :
          /\ \E h \in Hook, f \in Family : Verdict(h, f, "outside", i, s) = <<"listener", r>>
          /\ udp_flow_map' = [udp_flow_map EXCEPT ![r] = i]
          /\ aimed' = aimed \cup {<<r, i>>}
          /\ Cardinality(aimed') <= MaxAims
    /\ UNCHANGED <<rules, maps, seededIPs, sync, synced, gc, clock, app, enforced, unsafe,
                   bounds>>

\* The next socket has a cookie of its own.
Close ==
    /\ aimed # {}
    /\ aimed' = {} /\ udp_flow_map' = [r \in Rule |-> None]
    /\ UNCHANGED <<rules, maps, seededIPs, sync, synced, gc, clock, app, enforced, unsafe,
                   bounds>>

-----------------------------------------------------------------------------
(* The environment.                                                        *)

\* Enable, disable and bypass of the container (Enforcement).
Enforce(e) ==
    /\ Fails("enforce")
    /\ enforced' = e
    /\ faults' = faults + 1
    /\ UNCHANGED <<rules, maps, seededIPs, sync, synced, gc, clock, app, udp_flow_map,
                   aimed, unsafe, changes>>

\* An application forgets an answer when its TTL has passed.
Tick ==
    /\ clock < MaxTime
    /\ clock' = clock + 1
    /\ app' = IF app.pc = "told" /\ app.until < clock' THEN Ignorant ELSE app
    /\ UNCHANGED <<rules, maps, seededIPs, sync, synced, gc, flows, unsafe, bounds>>

\* The control plane dies and comes back: the pinned maps stay, the set of
\* seeds starts empty, and the next init syncs.
Restart ==
    /\ Fails("restart")
    /\ faults' = faults + 1
    /\ seededIPs' = {} /\ sync' = Idle /\ synced' = FALSE /\ gc' = Resting
    /\ UNCHANGED <<rules, maps, clock, app, flows, unsafe, changes>>

Next ==
    \/ \E new \in SUBSET Rule : SyncBegin(new)
    \/ SyncStep \/ Gc \/ Forward \/ Close \/ Tick \/ Restart
    \/ \E d \in Domain, i \in Ip : Answer(d, i) \/ AnswerOther(d, i)
    \/ \E i \in Ip, s \in Svc : Send(i, s)
    \/ \E e \in {"on", "bypassed", "off"} : Enforce(e)

Spec == Init /\ [][Next]_vars /\ WF_vars(SyncStep) /\ WF_vars(Gc)

-----------------------------------------------------------------------------
(* Properties.                                                             *)

SyncState == [pc : {"idle", "clear", "fill", "seed", "protect", "orphans"},
              routes : SUBSET Rule, orphaned : SUBSET Ip, errs : BOOLEAN]
GcState == [pc : {"idle", "iterate", "delete"}, now : Nat,
            protected : SUBSET Ip, expired : SUBSET Ip]
AppState == [pc : {"idle", "written", "told"}, dst : Domain \cup {None},
             ip : Ip \cup {None}, until : Nat, raced : BOOLEAN]

\* The variables have their types.
TypeOK ==
    /\ rules \subseteq Rule /\ route_map \subseteq Rule
    /\ dns_cache \in [Ip -> Entry \cup {None}]
    /\ seededIPs \subseteq Ip /\ unsafe \subseteq Ip
    /\ sync \in SyncState /\ synced \in BOOLEAN
    /\ gc \in GcState /\ app \in AppState
    /\ udp_flow_map \in [Rule -> Ip \cup {None}] /\ aimed \subseteq Rule \X Ip
    /\ enforced \in {"on", "bypassed", "off"}
    /\ {clock, changes, faults} \subseteq Nat

Settled == synced /\ sync.pc = "idle"
OthersResolveTo(d, i) == \E e \in Domain \ {d} : i \in Resolves[e]

\* An application that holds a valid answer reaches the listener of the
\* domain it asked for, on every service the domain has a rule for: the map
\* entry is written before the answer leaves CoreDNS, a seed never replaces
\* it, and no sweep removes it within its TTL.  Excepted are addresses that
\* several domains share, and an answer overtaken by a sweep that had already
\* listed the address or by the removal of a rule for the bare IP.  It presumes
\* room in dns_cache: see AnsweredMeansCached for a full one.
ResolvedMeansRouted ==
    (app.pc = "told" /\ clock <= app.until /\ Settled /\ ~app.raced
        /\ ~OthersResolveTo(app.dst, app.ip))
    => \A r \in rules : r.dst = app.dst => lookup_route(app.ip, r.svc) = r

\* A rule for a bare IP keeps its entry in dns_cache however often CoreDNS
\* overwrites it and however short the TTL, because sweeps leave seeded IPs
\* alone; and an entry that is still the seed leads to the rule's listener.
\* Excepted is a rule whose SyncRoutes overlapped a sweep.
SeedsStay ==
    Settled => \A r \in rules : r.dst \in Ip \ unsafe =>
        /\ Cached(r.dst)
        /\ dns_cache[r.dst].hash = r.dst => lookup_route(r.dst, r.svc) = r

\* After a SyncRoutes without errors no datagram takes a listener that the
\* rules do not grant its address, or leaves an enforced container in another
\* way, through either hook and in either family; and, as long as this
\* control plane has lived from the start and every orphan could be deleted,
\* no address is taken for an IP literal that has no rule.
OnlyRulesRoute ==
    Settled =>
        /\ enforced = "on" => \A h \in Hook, f \in Family, i \in Ip, s \in Udp :
              LET v == Verdict(h, f, "outside", i, s)
              IN  v # <<"deny">> => \E r \in rules :
                      /\ v = <<"listener", r>> /\ r.svc = s
                      /\ r.dst = i \/ (r.dst \in Domain /\ i \in Resolves[r.dst])
        /\ faults = 0 =>
              \A i \in Ip : Cached(i) /\ dns_cache[i].hash = i => i \in SeedsOf(rules)

\* While the container is enforced, bypassed or not, a reply that arrives
\* from a listener seems to come from the address the socket aimed at, and
\* that address is the peer a connected socket reports, as long as the socket
\* aimed at one address through that listener.
RepliesComeFromTarget ==
    enforced # "off" => \A r \in Rule, i \in Ip :
        {j \in Ip : <<r, j>> \in aimed} = {i} => restore_reply_source(r) = i

\* An expired entry that no rule for the bare IP protects does not stay:
\* the sweep finds it, and tries again when the delete fails.
ExpiredGo ==
    \A i \in Ip : LET Dead == Expired(i, clock) /\ i \notin SeedsOf(rules)
                  IN  Dead ~> ~Dead

(* What the code's comments and documents say and the code does not do.    *)

\* ebpf/manager.go, GarbageCollectDNS: "GC must never evict a live seed".
SeedsAlwaysStay == Settled => \A i \in SeedsOf(rules) : Cached(i)

\* ebpf/manager.go, SyncRoutes: "the route can't fail closed between
\* reconciles".
IpRulesRoute ==
    Settled => \A r \in rules : (r.dst \in Ip \ unsafe /\ r.svc \in Udp) =>
        \E q \in rules : decide_connect("outside", r.dst, r.svc) = <<"listener", q>>

\* docs/architecture.mdx: "`SyncRoutes` replaces the global `route_map`
\* atomically".
RoutesReplacedAtomically ==
    [][\A r \in Rule : (r \in route_map /\ r \notin route_map') => r \notin rules]_vars

\* ebpf/manager.go, deleteExpiredDNSEntries, of an entry that CoreDNS rewrote
\* between Iterate and Delete: "entry is gone".
FreshAnswersStay ==
    [][\A i \in Ip : (GcDelete /\ Cached(i) /\ dns_cache'[i] = None)
                        => Expired(i, clock)]_vars

\* ebpf/manager.go, SyncRoutes: without the delete of orphans, "an orphan seed
\* would linger for the full seed TTL".
OrphansGo ==
    Settled => \A i \in Ip : Cached(i) /\ dns_cache[i].hash = i => i \in SeedsOf(rules)

\* bpf/clawker.c, restore_v4_reply_source: "back to what the app aimed at".
EveryReplyComesFromATarget ==
    [][\A r \in Rule, i \in Ip :
          (enforced # "off" /\ restore_reply_source(r) = i /\ <<r, i>> \in aimed'
              /\ enforced' # "off")
          => restore_reply_source(r)' = i]_vars

\* docs/firewall.mdx: "any IP a container ends up using has already been
\* observed and hashed at the moment of connection".
AnsweredMeansCached == app.pc = "told" /\ clock <= app.until /\ ~app.raced => Cached(app.ip)
=============================================================================
