---------------------------- MODULE EgressProofs ----------------------------
(* Proofs about the shared BPF maps: for every set of domains, addresses,  *)
(* services and rules, and every sequence of rule changes, sweeps, answers,*)
(* restarts and failing map operations.                                    *)
EXTENDS Egress, FiniteSetTheorems, TLAPS

\* The leaves are first-order unless they name SMT.
USE Zenon

-----------------------------------------------------------------------------
(* The inductive invariant.                                                *)

\* What one SyncRoutes call has achieved so far.  The rules are those it was
\* given; until it notes an error, route_map is empty before the fill and
\* holds just its routes after it; only a call that has ended can have left
\* synced, and then route_map is the rule store.
RoutesFollow ==
    /\ sync.pc # "idle" => sync.routes = rules /\ ~synced
    /\ (sync.pc = "fill" /\ ~sync.errs) => route_map = {}
    /\ (sync.pc \in {"seed", "protect", "orphans"} /\ ~sync.errs)
          => route_map = sync.routes
    /\ synced => route_map = rules

\* An entry holds the hash of its own address, or of a domain that resolves
\* to the address.
EntriesMean ==
    \A i \in Ip : Cached(i) =>
        \/ dns_cache[i].hash = i
        \/ dns_cache[i].hash \in Domain /\ i \in Resolves[dns_cache[i].hash]

\* The seeds of the rules are in the map, or were refused.
Seeded == synced \/ (sync.pc \in {"protect", "orphans"} /\ ~sync.errs)

\* Whoever could remove a seed knows it: it is protected from the sweep under
\* way, and not among the orphans of the SyncRoutes under way.
SeedsKnown ==
    /\ (synced \/ sync.pc = "orphans") => seededIPs = SeedsOf(rules)
    /\ sync.pc = "orphans" => sync.orphaned \cap SeedsOf(rules) = {}
    /\ Seeded => \A i \in SeedsOf(rules) \ unsafe :
          /\ Cached(i)
          /\ gc.pc = "iterate" => i \in gc.protected
          /\ gc.pc = "delete" => i \notin gc.expired

\* Before the first fault, an address that stands for itself is a seed that
\* SyncRoutes still tracks.
SeedsTracked ==
    faults = 0 => \A i \in Ip : (Cached(i) /\ dns_cache[i].hash = i) =>
        i \in seededIPs
              \cup (IF sync.pc = "protect" THEN SeedsOf(rules) ELSE {})
              \cup (IF sync.pc = "orphans" THEN sync.orphaned ELSE {})

\* A reverse-NAT entry is there once something was aimed through its
\* listener, and holds one of those addresses.
FlowsMean ==
    \A r \in Rule :
        IF udp_flow_map[r] = None THEN \A i \in Ip : <<r, i>> \notin aimed
                                  ELSE <<r, udp_flow_map[r]>> \in aimed

\* The address an application was answered, on which nothing can have gone
\* wrong: the answer is valid, no deletion overtook it, and no other domain
\* resolves to it.
Holds ==
    /\ app.pc # "idle" /\ clock <= app.until /\ ~app.raced
    /\ ~OthersResolveTo(app.dst, app.ip)

\* Its entry is still the answer's, is not older than the answer, and no sweep
\* has listed it.
AnswerStands ==
    /\ gc.now <= clock
    /\ app.pc # "idle" => /\ app.dst \in Domain /\ app.ip \in Ip
                          /\ app.until <= clock + TTL
    /\ Holds => /\ Cached(app.ip)
                /\ dns_cache[app.ip].hash = app.dst
                /\ dns_cache[app.ip].expire >= app.until
                /\ gc.pc = "delete" => app.ip \notin gc.expired

IInv ==
    /\ TypeOK /\ RoutesFollow /\ EntriesMean /\ SeedsKnown /\ SeedsTracked
    /\ FlowsMean

-----------------------------------------------------------------------------
(* It holds initially and is preserved by every step.                     *)

\* Empty maps and an idle manager satisfy the invariant.
LEMMA InitInv == Init => IInv
<1> SUFFICES ASSUME Init PROVE IInv
  OBVIOUS
<1> USE ConstantsAssumption DEF Init, Idle, Ignorant, Resting
<1>1. SeedExpiry \in Nat
  BY SMTT(30) DEF SeedExpiry
<1>2. SeedsOf(rules) \subseteq Ip
  BY DEF SeedsOf
<1>3. dns_cache \in [Ip -> Entry \cup {None}]
  BY <1>1 DEF Entry
<1>4. TypeOK
  <2>1. sync \in SyncState /\ gc \in GcState /\ app \in AppState
    BY DEF SyncState, GcState, AppState
  <2>2. synced \in BOOLEAN
    OBVIOUS
  <2>3. QED
    BY SMTT(30), <1>2, <1>3, <2>1, <2>2 DEF TypeOK
<1>5. RoutesFollow
  BY DEF RoutesFollow
<1>6. EntriesMean
  BY DEF EntriesMean, Cached
<1>7. SeedsKnown
  BY SMTT(30), <1>1, <1>2 DEF SeedsKnown, Cached, Entry
<1>8. SeedsTracked
  BY DEF SeedsTracked, Cached
<1>9. FlowsMean
  BY DEF FlowsMean
<1>10. QED
  BY <1>4, <1>5, <1>6, <1>7, <1>8, <1>9 DEF IInv

\* Nobody holds an answer at first.
LEMMA InitAnswer == Init => AnswerStands
  BY SMTT(30) DEF Init, AnswerStands, Holds, Ignorant, Resting

\* The seeds of a set of rules are addresses.
LEMMA SeedsAreIps == ASSUME NEW rs PROVE SeedsOf(rs) \subseteq Ip
  BY DEF SeedsOf

\* A seed is an entry that never expires within a behaviour.
LEMMA SeedIsEntry ==
    ASSUME NEW i \in Ip PROVE [hash |-> i, expire |-> SeedExpiry] \in Entry
  BY SMTT(30), ConstantsAssumption DEF SeedExpiry, Entry

\* writeARecords overwrites one entry or none.
LEMMA Written ==
    ASSUME TypeOK, NEW d \in Domain, NEW i \in Ip, writeARecords(d, i)
    PROVE  /\ dns_cache' \in [Ip -> Entry \cup {None}]
           /\ \A j \in Ip :
                 \/ dns_cache'[j] = dns_cache[j]
                 \/ /\ j = i
                    /\ dns_cache'[j] = [hash |-> d, expire |-> clock + TTL]
                    /\ dns_cache'[j].hash = d /\ dns_cache'[j] # None
<1>1. [hash |-> d, expire |-> clock + TTL] \in Entry
  BY SMTT(30), ConstantsAssumption DEF Entry, TypeOK
<1>2. [hash |-> d, expire |-> clock + TTL] # None
  BY <1>1, ConstantsAssumption
<1>3. QED
  BY <1>1, <1>2 DEF writeARecords, TypeOK

\* At most one of the map operations of a step fails, and it is counted.
LEMMA FewFail ==
    ASSUME NEW S, NEW T \in {{}} \cup {{x} : x \in S}
    PROVE  /\ T \subseteq S
           /\ Cardinality(T) \in Nat
           /\ Cardinality(T) = 0 => T = {}
  BY SMTT(30), FS_EmptySet, FS_Singleton

\* With room for every address in dns_cache, writeARecords always writes.
LEMMA Room ==
    ASSUME IsFiniteSet(Ip), Cardinality(Ip) <= CacheSize, TypeOK,
           NEW d \in Domain, NEW i \in Ip, writeARecords(d, i)
    PROVE  dns_cache' = [dns_cache EXCEPT ![i] = [hash |-> d, expire |-> clock + TTL]]
<1> DEFINE T == {j \in Ip : Cached(j)}
<1>1. /\ Cardinality(T) <= Cardinality(Ip)
      /\ Cardinality(Ip) = Cardinality(T) => Ip = T
      /\ Cardinality(T) \in Nat /\ Cardinality(Ip) \in Nat /\ CacheSize \in Nat
  BY FS_Subset, FS_CardinalityType, T \in SUBSET Ip, ConstantsAssumption
<1>2. Cached(i) \/ Cardinality(T) < CacheSize
  BY SMTT(30), <1>1
<1>3. QED
  BY <1>2 DEF writeARecords


\* Every step keeps the types.
LEMMA TypeStep ==
    TypeOK /\ [Next]_vars => TypeOK'
<1> SUFFICES ASSUME TypeOK, [Next]_vars
             PROVE  TypeOK'
  OBVIOUS
<1> USE ConstantsAssumption DEF TypeOK, maps, bounds, flows, Idle, Ignorant,
                                Resting
<1>1. ASSUME NEW new \in SUBSET Rule, SyncBegin(new) PROVE TypeOK'
  <2>1. sync' \in SyncState
    BY <1>1 DEF SyncBegin, SyncState
  <2>2. synced' \in BOOLEAN
    BY <1>1, Zenon DEF SyncBegin
  <2>3. QED
    BY SMTT(30), <1>1, <2>1, <2>2 DEF SyncBegin
<1>2. ASSUME SyncClear PROVE TypeOK'
  <2>1. PICK kept \in {{}} \cup {{r} : r \in IF Fails("clear") THEN route_map ELSE {}} :
           /\ route_map' = kept
           /\ sync' = [sync EXCEPT !.pc = "fill", !.errs = kept # {}]
           /\ faults' = faults + Cardinality(kept)
    BY <1>2 DEF SyncClear
  <2>0. Cardinality(kept) \in Nat
    BY ONLY Zenon, <2>1, FewFail
  <2>2. kept \subseteq Rule /\ Cardinality(kept) \in Nat
    BY SMTT(30), <2>0
  <2>3. sync' \in SyncState
    BY <2>1 DEF SyncState
  <2>4. QED
    BY SMTT(30), <1>2, <2>1, <2>2, <2>3 DEF SyncClear
<1>3. ASSUME SyncFill PROVE TypeOK'
  <2>1. PICK lost \in {{}} \cup {{r} : r \in IF Fails("fill") THEN sync.routes ELSE {}} :
           /\ route_map' = route_map \cup (sync.routes \ lost)
           /\ sync' = [sync EXCEPT !.pc = "seed", !.errs = sync.errs \/ lost # {}]
           /\ faults' = faults + Cardinality(lost)
    BY <1>3 DEF SyncFill
  <2>2. Cardinality(lost) \in Nat
    BY ONLY Zenon, <2>1, FewFail
  <2>3. sync' \in SyncState
    BY <2>1 DEF SyncState
  <2>4. route_map' \subseteq Rule
    BY <2>1 DEF SyncState
  <2>5. QED
    BY SMTT(30), <1>3, <2>1, <2>2, <2>3, <2>4 DEF SyncFill
<1>4. ASSUME SyncSeed PROVE TypeOK'
  <2>1. PICK put \in SUBSET {i \in SeedsOf(sync.routes) : ~Cached(i)} :
           /\ dns_cache' = [i \in Ip |-> IF i \in put
                              THEN [hash |-> i, expire |-> SeedExpiry]
                              ELSE dns_cache[i]]
           /\ sync' = [sync EXCEPT !.pc = "protect",
                          !.errs = sync.errs \/ put # {i \in SeedsOf(sync.routes) : ~Cached(i)}]
    BY <1>4 DEF SyncSeed
  <2>2. dns_cache' \in [Ip -> Entry \cup {None}]
    BY <2>1, SeedIsEntry
  <2>3. sync' \in SyncState
    BY <2>1 DEF SyncState
  <2>4. unsafe' \subseteq Ip
    BY <1>4, SeedsAreIps DEF SyncSeed
  <2>5. QED
    BY <1>4, <2>2, <2>3, <2>4 DEF SyncSeed
<1>5. ASSUME SyncProtect PROVE TypeOK'
  <2>1. sync' \in SyncState /\ seededIPs' \subseteq Ip
    BY <1>5, SeedsAreIps DEF SyncProtect, SyncState
  <2>2. QED
    BY <1>5, <2>1 DEF SyncProtect
<1>6. ASSUME SyncOrphans PROVE TypeOK'
  <2>1. PICK left \in {{}} \cup {{i} : i \in IF Fails("orphan") THEN sync.orphaned ELSE {}} :
           /\ dns_cache' = [i \in Ip |-> IF i \in sync.orphaned \ left THEN None
                                         ELSE dns_cache[i]]
           /\ app' = [app EXCEPT !.raced = app.raced \/ app.ip \in sync.orphaned \ left]
           /\ faults' = faults + Cardinality(left)
    BY <1>6 DEF SyncOrphans
  <2>0. Cardinality(left) \in Nat
    BY ONLY Zenon, <2>1, FewFail
  <2>2. faults' \in Nat
    BY SMTT(30), <2>1, <2>0
  <2>3. app' \in AppState
    BY <2>1 DEF AppState
  <2>4. dns_cache' \in [Ip -> Entry \cup {None}]
    BY <2>1
  <2>5. synced' \in BOOLEAN
    BY <1>6, Zenon DEF SyncOrphans
  <2>6. sync' \in SyncState
    BY <1>6 DEF SyncOrphans, SyncState
  <2>7. QED
    BY <1>6, <2>2, <2>3, <2>4, <2>5, <2>6 DEF SyncOrphans
<1>7. ASSUME GcSnapshot PROVE TypeOK'
  <2>1. gc' \in GcState
    BY <1>7 DEF GcSnapshot, GcState
  <2>2. unsafe' \subseteq Ip
    BY <1>7, SeedsAreIps DEF GcSnapshot
  <2>3. QED
    BY <1>7, <2>1, <2>2 DEF GcSnapshot
<1>8. ASSUME GcIterate PROVE TypeOK'
  <2>1. gc' \in GcState
    BY <1>8 DEF GcIterate, GcState
  <2>2. QED
    BY <1>8, <2>1 DEF GcIterate
<1>9. ASSUME GcDelete PROVE TypeOK'
  <2>1. PICK left \in {{}} \cup {{i} : i \in IF Fails("sweep") THEN gc.expired ELSE {}} :
           /\ dns_cache' = [i \in Ip |-> IF i \in gc.expired \ left THEN None
                                         ELSE dns_cache[i]]
           /\ faults' = faults + Cardinality(left)
    BY <1>9 DEF GcDelete
  <2>0. Cardinality(left) \in Nat
    BY ONLY Zenon, <2>1, FewFail
  <2>2. faults' \in Nat
    BY SMTT(30), <2>1, <2>0
  <2>3. gc' \in GcState
    BY <1>9 DEF GcDelete, GcState
  <2>4. QED
    BY <1>9, <2>1, <2>2, <2>3 DEF GcDelete
<1>10. ASSUME Forward PROVE TypeOK'
  <2>1. app' \in AppState
    BY <1>10 DEF Forward, AppState
  <2>2. QED
    BY <1>10, <2>1 DEF Forward
<1>11. ASSUME Close PROVE TypeOK'
  BY <1>11 DEF Close
<1>12. ASSUME Tick PROVE TypeOK'
  <2>1. app' \in AppState
    BY <1>12 DEF Tick, AppState
  <2>2. QED
    BY SMTT(30), <1>12, <2>1 DEF Tick
<1>13. ASSUME Restart PROVE TypeOK'
  <2>1. sync' \in SyncState /\ gc' \in GcState
    BY <1>13 DEF Restart, SyncState, GcState
  <2>2. synced' \in BOOLEAN
    BY <1>13, Zenon DEF Restart
  <2>3. QED
    BY SMTT(30), <1>13, <2>1, <2>2 DEF Restart
<1>14. ASSUME NEW d \in Domain, NEW i \in Ip, Answer(d, i) PROVE TypeOK'
  <2>1. dns_cache' \in [Ip -> Entry \cup {None}]
    BY <1>14, Written DEF Answer
  <2>2. app' \in AppState
    BY SMTT(30), <1>14 DEF Answer, AppState
  <2>3. QED
    BY <1>14, <2>1, <2>2 DEF Answer
<1>15. ASSUME NEW d \in Domain, NEW i \in Ip, AnswerOther(d, i) PROVE TypeOK'
  <2>1. dns_cache' \in [Ip -> Entry \cup {None}]
    BY <1>15, Written DEF AnswerOther
  <2>2. QED
    BY <1>15, <2>1 DEF AnswerOther
<1>16. ASSUME NEW i \in Ip, NEW s \in Svc, Send(i, s) PROVE TypeOK'
  BY SMTT(30), <1>16 DEF Send
<1>17. ASSUME NEW e \in {"on", "bypassed", "off"}, Enforce(e) PROVE TypeOK'
  BY SMTT(30), <1>17 DEF Enforce
<1>18. CASE UNCHANGED vars
  BY <1>18 DEF vars
<1> HIDE DEF TypeOK, maps, bounds, flows, Idle, Ignorant, Resting
<1>19. QED
  BY <1>1, <1>2, <1>3, <1>4, <1>5, <1>6, <1>7, <1>8, <1>9, <1>10, <1>11,
     <1>12, <1>13, <1>14, <1>15, <1>16, <1>17, <1>18
     DEF Next, SyncStep, Gc

\* A SyncRoutes call builds route_map up from nothing; nobody else writes it.
LEMMA RoutesStep ==
    TypeOK /\ RoutesFollow /\ [Next]_vars => RoutesFollow'
<1> SUFFICES ASSUME TypeOK, RoutesFollow, [Next]_vars
             PROVE  RoutesFollow'
  OBVIOUS
<1> USE DEF TypeOK, SyncState, GcState, AppState, RoutesFollow, maps, bounds,
            flows, Idle, Ignorant, Resting
<1>1. ASSUME NEW new \in SUBSET Rule, SyncBegin(new) PROVE RoutesFollow'
  BY <1>1 DEF SyncBegin
<1>2. ASSUME SyncClear PROVE RoutesFollow'
  <2>1. PICK kept \in {{}} \cup {{r} : r \in IF Fails("clear") THEN route_map ELSE {}} :
           /\ route_map' = kept
           /\ sync' = [sync EXCEPT !.pc = "fill", !.errs = kept # {}]
           /\ faults' = faults + Cardinality(kept)
    BY <1>2 DEF SyncClear
  <2>2. sync'.pc = "fill" /\ sync'.routes = sync.routes /\ (~sync'.errs => kept = {})
    BY <2>1
  <2>3. QED
    BY <1>2, <2>1, <2>2 DEF SyncClear
<1>3. ASSUME SyncFill PROVE RoutesFollow'
  <2>1. PICK lost \in {{}} \cup {{r} : r \in IF Fails("fill") THEN sync.routes ELSE {}} :
           /\ route_map' = route_map \cup (sync.routes \ lost)
           /\ sync' = [sync EXCEPT !.pc = "seed", !.errs = sync.errs \/ lost # {}]
           /\ faults' = faults + Cardinality(lost)
    BY <1>3 DEF SyncFill
  <2>2. /\ sync'.pc = "seed" /\ sync'.routes = sync.routes
        /\ ~sync'.errs => ~sync.errs /\ lost = {}
    BY <2>1
  <2>3. QED
    BY <1>3, <2>1, <2>2 DEF SyncFill
<1>4. ASSUME SyncSeed PROVE RoutesFollow'
  BY <1>4 DEF SyncSeed
<1>5. ASSUME SyncProtect PROVE RoutesFollow'
  BY <1>5 DEF SyncProtect
<1>6. ASSUME SyncOrphans PROVE RoutesFollow'
  BY <1>6 DEF SyncOrphans
<1>7. ASSUME GcSnapshot PROVE RoutesFollow'
  BY <1>7 DEF GcSnapshot
<1>8. ASSUME GcIterate PROVE RoutesFollow'
  BY <1>8 DEF GcIterate
<1>9. ASSUME GcDelete PROVE RoutesFollow'
  BY <1>9 DEF GcDelete
<1>10. ASSUME Forward PROVE RoutesFollow'
  BY <1>10 DEF Forward
<1>11. ASSUME Close PROVE RoutesFollow'
  BY <1>11 DEF Close
<1>12. ASSUME Tick PROVE RoutesFollow'
  BY <1>12 DEF Tick
<1>13. ASSUME Restart PROVE RoutesFollow'
  BY <1>13 DEF Restart
<1>14. ASSUME NEW d \in Domain, NEW i \in Ip, Answer(d, i) PROVE RoutesFollow'
  BY <1>14 DEF Answer
<1>15. ASSUME NEW d \in Domain, NEW i \in Ip, AnswerOther(d, i) PROVE RoutesFollow'
  BY <1>15 DEF AnswerOther
<1>16. ASSUME NEW i \in Ip, NEW s \in Svc, Send(i, s) PROVE RoutesFollow'
  BY <1>16 DEF Send
<1>17. ASSUME NEW e \in {"on", "bypassed", "off"}, Enforce(e) PROVE RoutesFollow'
  BY <1>17 DEF Enforce
<1>18. CASE UNCHANGED vars
  BY <1>18 DEF vars
<1> HIDE DEF TypeOK, SyncState, GcState, AppState, RoutesFollow, maps, bounds,
             flows, Idle, Ignorant, Resting
<1>19. QED
  BY <1>1, <1>2, <1>3, <1>4, <1>5, <1>6, <1>7, <1>8, <1>9, <1>10, <1>11,
     <1>12, <1>13, <1>14, <1>15, <1>16, <1>17, <1>18
     DEF Next, SyncStep, Gc

\* Seeds stand for themselves, answers for the domain that was asked.
LEMMA EntriesStep ==
    TypeOK /\ EntriesMean /\ [Next]_vars => EntriesMean'
<1> SUFFICES ASSUME TypeOK, EntriesMean, [Next]_vars
             PROVE  EntriesMean'
  OBVIOUS
<1> USE ConstantsAssumption DEF TypeOK, SyncState, GcState, AppState,
                                EntriesMean, Cached, maps, bounds, flows,
                                Idle, Ignorant, Resting
<1>1. ASSUME NEW new \in SUBSET Rule, SyncBegin(new) PROVE EntriesMean'
  BY <1>1 DEF SyncBegin
<1>2. ASSUME SyncClear PROVE EntriesMean'
  BY <1>2 DEF SyncClear
<1>3. ASSUME SyncFill PROVE EntriesMean'
  BY <1>3 DEF SyncFill
<1>4. ASSUME SyncSeed PROVE EntriesMean'
  BY SMTT(30), <1>4 DEF SyncSeed
<1>5. ASSUME SyncProtect PROVE EntriesMean'
  BY <1>5 DEF SyncProtect
<1>6. ASSUME SyncOrphans PROVE EntriesMean'
  BY SMTT(30), <1>6 DEF SyncOrphans
<1>7. ASSUME GcSnapshot PROVE EntriesMean'
  BY <1>7 DEF GcSnapshot
<1>8. ASSUME GcIterate PROVE EntriesMean'
  BY <1>8 DEF GcIterate
<1>9. ASSUME GcDelete PROVE EntriesMean'
  BY SMTT(30), <1>9 DEF GcDelete
<1>10. ASSUME Forward PROVE EntriesMean'
  BY <1>10 DEF Forward
<1>11. ASSUME Close PROVE EntriesMean'
  BY <1>11 DEF Close
<1>12. ASSUME Tick PROVE EntriesMean'
  BY <1>12 DEF Tick
<1>13. ASSUME Restart PROVE EntriesMean'
  BY <1>13 DEF Restart
<1>14. ASSUME NEW d \in Domain, NEW i \in Ip, Answer(d, i) PROVE EntriesMean'
  <2>1. TypeOK /\ writeARecords(d, i) /\ i \in Resolves[d]
    BY <1>14 DEF Answer
  <2>2. \A j \in Ip : dns_cache'[j] = dns_cache[j] \/ (j = i /\ dns_cache'[j].hash = d)
    <3> HIDE DEF TypeOK
    <3> QED
      BY <2>1, Written
  <2>3. QED
    BY SMTT(30), <2>1, <2>2
<1>15. ASSUME NEW d \in Domain, NEW i \in Ip, AnswerOther(d, i) PROVE EntriesMean'
  <2>1. TypeOK /\ writeARecords(d, i) /\ i \in Resolves[d]
    BY <1>15 DEF AnswerOther
  <2>2. \A j \in Ip : dns_cache'[j] = dns_cache[j] \/ (j = i /\ dns_cache'[j].hash = d)
    <3> HIDE DEF TypeOK
    <3> QED
      BY <2>1, Written
  <2>3. QED
    BY SMTT(30), <2>1, <2>2
<1>16. ASSUME NEW i \in Ip, NEW s \in Svc, Send(i, s) PROVE EntriesMean'
  BY <1>16 DEF Send
<1>17. ASSUME NEW e \in {"on", "bypassed", "off"}, Enforce(e) PROVE EntriesMean'
  BY <1>17 DEF Enforce
<1>18. CASE UNCHANGED vars
  BY <1>18 DEF vars
<1> HIDE DEF TypeOK, SyncState, GcState, AppState, EntriesMean, Cached, maps,
             bounds, flows, Idle, Ignorant, Resting
<1>19. QED
  BY <1>1, <1>2, <1>3, <1>4, <1>5, <1>6, <1>7, <1>8, <1>9, <1>10, <1>11,
     <1>12, <1>13, <1>14, <1>15, <1>16, <1>17, <1>18
     DEF Next, SyncStep, Gc

\* A seed can be missed only by a sweep that began before the seed was protected,
\* and then it is in unsafe.
LEMMA SeedsKnownStep ==
    TypeOK /\ RoutesFollow /\ SeedsKnown /\ [Next]_vars => SeedsKnown'
<1> SUFFICES ASSUME TypeOK, RoutesFollow, SeedsKnown, [Next]_vars
             PROVE  SeedsKnown'
  OBVIOUS
<1> USE ConstantsAssumption DEF TypeOK, SyncState, GcState, AppState,
                                RoutesFollow, SeedsKnown, Seeded, Cached,
                                maps, bounds, flows, Idle, Ignorant, Resting
<1>1. ASSUME NEW new \in SUBSET Rule, SyncBegin(new) PROVE SeedsKnown'
  BY <1>1 DEF SyncBegin
<1>2. ASSUME SyncClear PROVE SeedsKnown'
  BY SMTT(30), <1>2 DEF SyncClear
<1>3. ASSUME SyncFill PROVE SeedsKnown'
  BY SMTT(30), <1>3 DEF SyncFill
<1>4. ASSUME SyncSeed PROVE SeedsKnown'
  <2>1. PICK put \in SUBSET {i \in SeedsOf(sync.routes) : ~Cached(i)} :
           /\ dns_cache' = [i \in Ip |-> IF i \in put
                              THEN [hash |-> i, expire |-> SeedExpiry]
                              ELSE dns_cache[i]]
           /\ sync' = [sync EXCEPT !.pc = "protect",
                          !.errs = sync.errs \/ put # {i \in SeedsOf(sync.routes) : ~Cached(i)}]
    BY <1>4 DEF SyncSeed
  <2>2. /\ sync'.pc = "protect" /\ sync'.routes = sync.routes
        /\ ~sync'.errs => put = {i \in SeedsOf(sync.routes) : ~Cached(i)}
    BY <2>1
  <2>3. ASSUME NEW i \in SeedsOf(rules), ~sync'.errs PROVE dns_cache'[i] # None
    <3>1. i \in Ip /\ i \in SeedsOf(sync.routes)
      BY <1>4, SeedsAreIps DEF SyncSeed
    <3>2. [hash |-> i, expire |-> SeedExpiry] # None
      BY SMTT(30), <3>1, SeedIsEntry
    <3>3. QED
      BY <2>1, <2>2, <2>3, <3>1, <3>2
  <2>4. UNCHANGED <<rules, seededIPs, synced, gc>> /\ ~synced
    BY <1>4 DEF SyncSeed
  <2>5. unsafe' = IF gc.pc = "idle" THEN {} ELSE SeedsOf(rules)
    BY <1>4 DEF SyncSeed
  <2>6. SeedsOf(rules)' = SeedsOf(rules)
    BY <2>4 DEF SeedsOf
  <2>7. QED
    BY <2>2, <2>3, <2>4, <2>5, <2>6
<1>5. ASSUME SyncProtect PROVE SeedsKnown'
  BY SMTT(30), <1>5 DEF SyncProtect
<1>6. ASSUME SyncOrphans PROVE SeedsKnown'
  BY SMTT(30), <1>6 DEF SyncOrphans
<1>7. ASSUME GcSnapshot PROVE SeedsKnown'
  BY <1>7 DEF GcSnapshot
<1>8. ASSUME GcIterate PROVE SeedsKnown'
  BY <1>8 DEF GcIterate
<1>9. ASSUME GcDelete PROVE SeedsKnown'
  <2>1. PICK left \in {{}} \cup {{i} : i \in IF Fails("sweep") THEN gc.expired ELSE {}} :
           /\ dns_cache' = [i \in Ip |-> IF i \in gc.expired \ left THEN None
                                         ELSE dns_cache[i]]
           /\ faults' = faults + Cardinality(left)
    BY <1>9 DEF GcDelete
  <2>2. \A i \in Ip \ gc.expired : dns_cache'[i] = dns_cache[i]
    BY <2>1
  <2>3. gc'.pc = "idle" /\ UNCHANGED <<rules, seededIPs, sync, synced, unsafe>>
    BY <1>9 DEF GcDelete
  <2>4. SeedsOf(rules)' = SeedsOf(rules) /\ SeedsOf(rules) \subseteq Ip
    BY <2>3, SeedsAreIps DEF SeedsOf
  <2>5. QED
    BY SMTT(30), <1>9, <2>2, <2>3, <2>4 DEF GcDelete
<1>10. ASSUME Forward PROVE SeedsKnown'
  BY <1>10 DEF Forward
<1>11. ASSUME Close PROVE SeedsKnown'
  BY <1>11 DEF Close
<1>12. ASSUME Tick PROVE SeedsKnown'
  BY <1>12 DEF Tick
<1>13. ASSUME Restart PROVE SeedsKnown'
  BY <1>13 DEF Restart
<1>14. ASSUME NEW d \in Domain, NEW i \in Ip, Answer(d, i) PROVE SeedsKnown'
  <2>1. \A j \in Ip : dns_cache[j] # None => dns_cache'[j] # None
    BY <1>14, Written DEF Answer
  <2>2. UNCHANGED <<rules, seededIPs, sync, synced, gc, unsafe>>
    BY <1>14 DEF Answer
  <2>3. SeedsOf(rules)' = SeedsOf(rules) /\ SeedsOf(rules) \subseteq Ip
    BY <2>2, SeedsAreIps DEF SeedsOf
  <2>4. QED
    BY <2>1, <2>2, <2>3
<1>15. ASSUME NEW d \in Domain, NEW i \in Ip, AnswerOther(d, i) PROVE SeedsKnown'
  <2>1. \A j \in Ip : dns_cache[j] # None => dns_cache'[j] # None
    BY <1>15, Written DEF AnswerOther
  <2>2. UNCHANGED <<rules, seededIPs, sync, synced, gc, unsafe>>
    BY <1>15 DEF AnswerOther
  <2>3. SeedsOf(rules)' = SeedsOf(rules) /\ SeedsOf(rules) \subseteq Ip
    BY <2>2, SeedsAreIps DEF SeedsOf
  <2>4. QED
    BY <2>1, <2>2, <2>3
<1>16. ASSUME NEW i \in Ip, NEW s \in Svc, Send(i, s) PROVE SeedsKnown'
  BY <1>16 DEF Send
<1>17. ASSUME NEW e \in {"on", "bypassed", "off"}, Enforce(e) PROVE SeedsKnown'
  BY <1>17 DEF Enforce
<1>18. CASE UNCHANGED vars
  BY <1>18 DEF vars
<1> HIDE DEF TypeOK, SyncState, GcState, AppState, RoutesFollow, SeedsKnown,
             Seeded, Cached, maps, bounds, flows, Idle, Ignorant, Resting
<1>19. QED
  BY <1>1, <1>2, <1>3, <1>4, <1>5, <1>6, <1>7, <1>8, <1>9, <1>10, <1>11,
     <1>12, <1>13, <1>14, <1>15, <1>16, <1>17, <1>18
     DEF Next, SyncStep, Gc

\* Until something fails or restarts, SyncRoutes hands every seed from the old set
\* to the new one or to the orphans it deletes.
LEMMA SeedsTrackedStep ==
    TypeOK /\ RoutesFollow /\ SeedsTracked /\ [Next]_vars => SeedsTracked'
<1> SUFFICES ASSUME TypeOK, RoutesFollow, SeedsTracked, [Next]_vars
             PROVE  SeedsTracked'
  OBVIOUS
<1> USE ConstantsAssumption DEF TypeOK, SyncState, GcState, AppState,
                                RoutesFollow, SeedsTracked, Cached, maps,
                                bounds, flows, Idle, Ignorant, Resting
<1>1. ASSUME NEW new \in SUBSET Rule, SyncBegin(new) PROVE SeedsTracked'
  BY <1>1 DEF SyncBegin
<1>2. ASSUME SyncClear PROVE SeedsTracked'
  <2>1. PICK kept \in {{}} \cup {{r} : r \in IF Fails("clear") THEN route_map ELSE {}} :
           /\ route_map' = kept
           /\ sync' = [sync EXCEPT !.pc = "fill", !.errs = kept # {}]
           /\ faults' = faults + Cardinality(kept)
    BY <1>2 DEF SyncClear
  <2>2. Cardinality(kept) \in Nat
    BY ONLY Zenon, <2>1, FewFail
  <2>3. sync'.pc = "fill" /\ (faults' = 0 => faults = 0)
    BY SMTT(30), <2>1, <2>2
  <2>4. QED
    BY <1>2, <2>3 DEF SyncClear
<1>3. ASSUME SyncFill PROVE SeedsTracked'
  <2>1. PICK lost \in {{}} \cup {{r} : r \in IF Fails("fill") THEN sync.routes ELSE {}} :
           /\ route_map' = route_map \cup (sync.routes \ lost)
           /\ sync' = [sync EXCEPT !.pc = "seed", !.errs = sync.errs \/ lost # {}]
           /\ faults' = faults + Cardinality(lost)
    BY <1>3 DEF SyncFill
  <2>2. Cardinality(lost) \in Nat
    BY ONLY Zenon, <2>1, FewFail
  <2>3. sync'.pc = "seed" /\ (faults' = 0 => faults = 0)
    BY SMTT(30), <2>1, <2>2
  <2>4. QED
    BY <1>3, <2>3 DEF SyncFill
<1>4. ASSUME SyncSeed PROVE SeedsTracked'
  BY SMTT(30), <1>4 DEF SyncSeed
<1>5. ASSUME SyncProtect PROVE SeedsTracked'
  BY <1>5 DEF SyncProtect
<1>6. ASSUME SyncOrphans PROVE SeedsTracked'
  <2>1. PICK left \in {{}} \cup {{i} : i \in IF Fails("orphan") THEN sync.orphaned ELSE {}} :
           /\ dns_cache' = [i \in Ip |-> IF i \in sync.orphaned \ left THEN None
                                         ELSE dns_cache[i]]
           /\ app' = [app EXCEPT !.raced = app.raced \/ app.ip \in sync.orphaned \ left]
           /\ faults' = faults + Cardinality(left)
    BY <1>6 DEF SyncOrphans
  <2>2. Cardinality(left) \in Nat /\ (Cardinality(left) = 0 => left = {})
    BY ONLY Zenon, <2>1, FewFail
  <2>3. faults' = 0 => faults = 0 /\ left = {}
    BY SMTT(30), <2>1, <2>2
  <2>4. QED
    BY <1>6, <2>1, <2>3 DEF SyncOrphans
<1>7. ASSUME GcSnapshot PROVE SeedsTracked'
  BY <1>7 DEF GcSnapshot
<1>8. ASSUME GcIterate PROVE SeedsTracked'
  BY <1>8 DEF GcIterate
<1>9. ASSUME GcDelete PROVE SeedsTracked'
  <2>1. PICK left \in {{}} \cup {{i} : i \in IF Fails("sweep") THEN gc.expired ELSE {}} :
           /\ dns_cache' = [i \in Ip |-> IF i \in gc.expired \ left THEN None
                                         ELSE dns_cache[i]]
           /\ faults' = faults + Cardinality(left)
    BY <1>9 DEF GcDelete
  <2>2. Cardinality(left) \in Nat
    BY ONLY Zenon, <2>1, FewFail
  <2>3. /\ faults' = 0 => faults = 0
        /\ \A i \in Ip : dns_cache'[i] \in {dns_cache[i], None}
    BY SMTT(30), <2>1, <2>2
  <2>4. UNCHANGED <<rules, seededIPs, sync>>
    BY <1>9 DEF GcDelete
  <2>5. SeedsOf(rules)' = SeedsOf(rules)
    BY <2>4 DEF SeedsOf
  <2>6. QED
    BY <2>3, <2>4, <2>5
<1>10. ASSUME Forward PROVE SeedsTracked'
  BY <1>10 DEF Forward
<1>11. ASSUME Close PROVE SeedsTracked'
  BY <1>11 DEF Close
<1>12. ASSUME Tick PROVE SeedsTracked'
  BY <1>12 DEF Tick
<1>13. ASSUME Restart PROVE SeedsTracked'
  BY SMTT(30), <1>13 DEF Restart
<1>14. ASSUME NEW d \in Domain, NEW i \in Ip, Answer(d, i) PROVE SeedsTracked'
  <2>0. TypeOK /\ writeARecords(d, i)
    BY <1>14 DEF Answer
  <2>10. \A j \in Ip : dns_cache'[j] = dns_cache[j] \/ dns_cache'[j].hash = d
    <3> HIDE DEF TypeOK
    <3> QED
      BY <2>0, Written
  <2>1. \A j \in Ip : dns_cache'[j] = dns_cache[j] \/ dns_cache'[j].hash # j
    BY SMTT(30), <2>10
  <2>2. UNCHANGED <<rules, seededIPs, sync, faults>>
    BY <1>14 DEF Answer
  <2>3. SeedsOf(rules)' = SeedsOf(rules)
    BY <2>2 DEF SeedsOf
  <2>4. QED
    BY <2>1, <2>2, <2>3
<1>15. ASSUME NEW d \in Domain, NEW i \in Ip, AnswerOther(d, i) PROVE SeedsTracked'
  <2>0. TypeOK /\ writeARecords(d, i)
    BY <1>15 DEF AnswerOther
  <2>10. \A j \in Ip : dns_cache'[j] = dns_cache[j] \/ dns_cache'[j].hash = d
    <3> HIDE DEF TypeOK
    <3> QED
      BY <2>0, Written
  <2>1. \A j \in Ip : dns_cache'[j] = dns_cache[j] \/ dns_cache'[j].hash # j
    BY SMTT(30), <2>10
  <2>2. UNCHANGED <<rules, seededIPs, sync, faults>>
    BY <1>15 DEF AnswerOther
  <2>3. SeedsOf(rules)' = SeedsOf(rules)
    BY <2>2 DEF SeedsOf
  <2>4. QED
    BY <2>1, <2>2, <2>3
<1>16. ASSUME NEW i \in Ip, NEW s \in Svc, Send(i, s) PROVE SeedsTracked'
  BY <1>16 DEF Send
<1>17. ASSUME NEW e \in {"on", "bypassed", "off"}, Enforce(e) PROVE SeedsTracked'
  BY SMTT(30), <1>17 DEF Enforce
<1>18. CASE UNCHANGED vars
  BY <1>18 DEF vars
<1> HIDE DEF TypeOK, SyncState, GcState, AppState, RoutesFollow, SeedsTracked,
             Cached, maps, bounds, flows, Idle, Ignorant, Resting
<1>19. QED
  BY <1>1, <1>2, <1>3, <1>4, <1>5, <1>6, <1>7, <1>8, <1>9, <1>10, <1>11,
     <1>12, <1>13, <1>14, <1>15, <1>16, <1>17, <1>18
     DEF Next, SyncStep, Gc

\* A flow is recorded with the address it was aimed at, and goes with its socket.
LEMMA FlowsStep ==
    TypeOK /\ FlowsMean /\ [Next]_vars => FlowsMean'
<1> SUFFICES ASSUME TypeOK, FlowsMean, [Next]_vars
             PROVE  FlowsMean'
  OBVIOUS
<1> USE ConstantsAssumption DEF TypeOK, SyncState, GcState, AppState,
                                FlowsMean, maps, bounds, flows, Idle,
                                Ignorant, Resting
<1>1. ASSUME NEW new \in SUBSET Rule, SyncBegin(new) PROVE FlowsMean'
  BY <1>1 DEF SyncBegin
<1>2. ASSUME SyncClear PROVE FlowsMean'
  BY <1>2 DEF SyncClear
<1>3. ASSUME SyncFill PROVE FlowsMean'
  BY <1>3 DEF SyncFill
<1>4. ASSUME SyncSeed PROVE FlowsMean'
  BY <1>4 DEF SyncSeed
<1>5. ASSUME SyncProtect PROVE FlowsMean'
  BY <1>5 DEF SyncProtect
<1>6. ASSUME SyncOrphans PROVE FlowsMean'
  BY <1>6 DEF SyncOrphans
<1>7. ASSUME GcSnapshot PROVE FlowsMean'
  BY <1>7 DEF GcSnapshot
<1>8. ASSUME GcIterate PROVE FlowsMean'
  BY <1>8 DEF GcIterate
<1>9. ASSUME GcDelete PROVE FlowsMean'
  BY <1>9 DEF GcDelete
<1>10. ASSUME Forward PROVE FlowsMean'
  BY <1>10 DEF Forward
<1>11. ASSUME Close PROVE FlowsMean'
  BY <1>11 DEF Close
<1>12. ASSUME Tick PROVE FlowsMean'
  BY <1>12 DEF Tick
<1>13. ASSUME Restart PROVE FlowsMean'
  BY <1>13 DEF Restart
<1>14. ASSUME NEW d \in Domain, NEW i \in Ip, Answer(d, i) PROVE FlowsMean'
  BY <1>14 DEF Answer
<1>15. ASSUME NEW d \in Domain, NEW i \in Ip, AnswerOther(d, i) PROVE FlowsMean'
  BY <1>15 DEF AnswerOther
<1>16. ASSUME NEW i \in Ip, NEW s \in Svc, Send(i, s) PROVE FlowsMean'
  BY SMTT(30), <1>16 DEF Send
<1>17. ASSUME NEW e \in {"on", "bypassed", "off"}, Enforce(e) PROVE FlowsMean'
  BY <1>17 DEF Enforce
<1>18. CASE UNCHANGED vars
  BY <1>18 DEF vars
<1> HIDE DEF TypeOK, SyncState, GcState, AppState, FlowsMean, maps, bounds,
             flows, Idle, Ignorant, Resting
<1>19. QED
  BY <1>1, <1>2, <1>3, <1>4, <1>5, <1>6, <1>7, <1>8, <1>9, <1>10, <1>11,
     <1>12, <1>13, <1>14, <1>15, <1>16, <1>17, <1>18
     DEF Next, SyncStep, Gc

\* With room in dns_cache for every address, an answer's entry outlives the answer.
LEMMA AnswerStep ==
    /\ IsFiniteSet(Ip) /\ Cardinality(Ip) <= CacheSize /\ TypeOK
    /\ AnswerStands /\ [Next]_vars
    => AnswerStands'
<1> SUFFICES ASSUME IsFiniteSet(Ip), Cardinality(Ip) <= CacheSize, TypeOK,
                    AnswerStands, [Next]_vars
             PROVE  AnswerStands'
  OBVIOUS
<1> USE ConstantsAssumption DEF TypeOK, SyncState, GcState, AppState,
                                AnswerStands, Holds, Cached, OthersResolveTo,
                                maps, bounds, flows, Idle, Ignorant, Resting
<1>1. ASSUME NEW new \in SUBSET Rule, SyncBegin(new) PROVE AnswerStands'
  BY <1>1 DEF SyncBegin
<1>2. ASSUME SyncClear PROVE AnswerStands'
  BY <1>2 DEF SyncClear
<1>3. ASSUME SyncFill PROVE AnswerStands'
  BY <1>3 DEF SyncFill
<1>4. ASSUME SyncSeed PROVE AnswerStands'
  BY SMTT(30), <1>4 DEF SyncSeed
<1>5. ASSUME SyncProtect PROVE AnswerStands'
  BY <1>5 DEF SyncProtect
<1>6. ASSUME SyncOrphans PROVE AnswerStands'
  <2>1. PICK left \in {{}} \cup {{i} : i \in IF Fails("orphan") THEN sync.orphaned ELSE {}} :
           /\ dns_cache' = [i \in Ip |-> IF i \in sync.orphaned \ left THEN None
                                         ELSE dns_cache[i]]
           /\ app' = [app EXCEPT !.raced = app.raced \/ app.ip \in sync.orphaned \ left]
           /\ faults' = faults + Cardinality(left)
    BY <1>6 DEF SyncOrphans
  <2>2. /\ app'.pc = app.pc /\ app'.dst = app.dst /\ app'.ip = app.ip
        /\ app'.until = app.until
        /\ ~app'.raced => ~app.raced /\ app.ip \notin sync.orphaned \ left
    BY <2>1
  <2>3. UNCHANGED <<gc, clock>>
    BY <1>6 DEF SyncOrphans
  <2>4. Holds' => Holds /\ dns_cache'[app.ip] = dns_cache[app.ip]
    BY <2>1, <2>2, <2>3
  <2>5. QED
    BY <2>2, <2>3, <2>4
<1>7. ASSUME GcSnapshot PROVE AnswerStands'
  BY SMTT(30), <1>7 DEF GcSnapshot
<1>8. ASSUME GcIterate PROVE AnswerStands'
  <2>1. UNCHANGED <<dns_cache, app, clock>> /\ gc'.now = 0
    BY <1>8 DEF GcIterate
  <2>2. gc'.expired \subseteq {i \in Ip : Expired(i, gc.now)}
    BY <1>8 DEF GcIterate
  <2>3. ASSUME Holds PROVE app.ip \notin gc'.expired
    <3>1. dns_cache[app.ip] \in Entry /\ dns_cache[app.ip].expire >= gc.now
      BY SMTT(30), <2>3 DEF Entry
    <3>2. QED
      BY SMTT(30), <2>2, <3>1 DEF Expired, Entry
  <2>4. QED
    BY SMTT(30), <2>1, <2>3
<1>9. ASSUME GcDelete PROVE AnswerStands'
  BY SMTT(30), <1>9 DEF GcDelete
<1>10. ASSUME Forward PROVE AnswerStands'
  BY <1>10 DEF Forward
<1>11. ASSUME Close PROVE AnswerStands'
  BY <1>11 DEF Close
<1>12. ASSUME Tick PROVE AnswerStands'
  BY SMTT(30), <1>12 DEF Tick
<1>13. ASSUME Restart PROVE AnswerStands'
  BY SMTT(30), <1>13 DEF Restart
<1>14. ASSUME NEW d \in Domain, NEW i \in Ip, Answer(d, i) PROVE AnswerStands'
  <2>1. dns_cache' = [dns_cache EXCEPT ![i] = [hash |-> d, expire |-> clock + TTL]]
    BY <1>14, Room DEF Answer
  <2>2. [hash |-> d, expire |-> clock + TTL] # None
    BY SMTT(30) DEF Entry
  <2>3. /\ app'.pc = "written" /\ app'.dst = d /\ app'.ip = i
        /\ app'.until = clock + TTL
        /\ ~app'.raced => ~(gc.pc = "delete" /\ i \in gc.expired)
    BY <1>14 DEF Answer
  <2>4. UNCHANGED <<gc, clock>> /\ clock + TTL \in Nat
    BY SMTT(30), <1>14 DEF Answer
  <2>5. dns_cache'[i] # None /\ dns_cache'[i].hash = d /\ dns_cache'[i].expire = clock + TTL
    BY ZenonT(60), <2>1, <2>2
  <2>6. QED
    BY SMTT(30), <2>3, <2>4, <2>5
<1>15. ASSUME NEW d \in Domain, NEW i \in Ip, AnswerOther(d, i) PROVE AnswerStands'
  <2>1. dns_cache' = [dns_cache EXCEPT ![i] = [hash |-> d, expire |-> clock + TTL]]
    BY <1>15, Room DEF AnswerOther
  <2>2. [hash |-> d, expire |-> clock + TTL] # None
    BY SMTT(30) DEF Entry
  <2>3. UNCHANGED <<gc, clock, app>> /\ i \in Resolves[d]
    BY <1>15 DEF AnswerOther
  <2>4. ASSUME Holds PROVE /\ dns_cache'[app.ip] # None
                           /\ dns_cache'[app.ip].hash = app.dst
                           /\ dns_cache'[app.ip].expire >= app.until
    <3>1. CASE app.ip = i
      <4>1. d = app.dst
        BY <2>3, <2>4, <3>1
      <4>2. QED
        BY <2>1, <2>2, <2>4, <3>1, <4>1
    <3>2. CASE app.ip # i
      BY SMTT(30), <2>1, <2>4, <3>2
    <3>3. QED
      BY <3>1, <3>2
  <2>5. QED
    BY <2>3, <2>4
<1>16. ASSUME NEW i \in Ip, NEW s \in Svc, Send(i, s) PROVE AnswerStands'
  BY <1>16 DEF Send
<1>17. ASSUME NEW e \in {"on", "bypassed", "off"}, Enforce(e) PROVE AnswerStands'
  BY <1>17 DEF Enforce
<1>18. CASE UNCHANGED vars
  BY <1>18 DEF vars
<1> HIDE DEF TypeOK, SyncState, GcState, AppState, AnswerStands, Holds,
             Cached, OthersResolveTo, maps, bounds, flows, Idle, Ignorant,
             Resting
<1>19. QED
  BY <1>1, <1>2, <1>3, <1>4, <1>5, <1>6, <1>7, <1>8, <1>9, <1>10, <1>11,
     <1>12, <1>13, <1>14, <1>15, <1>16, <1>17, <1>18
     DEF Next, SyncStep, Gc

\* Every step keeps the invariant.
LEMMA Inductive == IInv /\ [Next]_vars => IInv'
  BY TypeStep, RoutesStep, EntriesStep, SeedsKnownStep, SeedsTrackedStep,
     FlowsStep DEF IInv

\* The invariant always holds.
LEMMA Always == Spec => []IInv
  BY InitInv, Inductive, PTL DEF Spec

-----------------------------------------------------------------------------
(* Theorems.                                                               *)

\* SeedsStay, for every instance: SyncRoutes and the sweeps of
\* GarbageCollectDNS, interleaved in any way with answers, restarts and
\* failing map operations, never leave a rule for a bare IP without its entry,
\* unless a sweep had begun before the seed was protected.
THEOREM SeedsStayHolds == Spec => []SeedsStay
<1>1. IInv => SeedsStay
  <2> SUFFICES ASSUME IInv, synced, NEW r \in rules, r.dst \in Ip \ unsafe
               PROVE  /\ Cached(r.dst)
                      /\ dns_cache[r.dst].hash = r.dst
                            => lookup_route(r.dst, r.svc) = r
    BY DEF SeedsStay, Settled
  <2>1. r.dst \in SeedsOf(rules) \ unsafe
    BY DEF SeedsOf
  <2>2. Cached(r.dst)
    BY <2>1 DEF IInv, SeedsKnown, Seeded
  <2>3. r \in route_map /\ r = [dst |-> r.dst, svc |-> r.svc]
    BY ConstantsAssumption DEF IInv, TypeOK, RoutesFollow
  <2>4. QED
    BY <2>2, <2>3 DEF lookup_route
<1>2. QED
  BY <1>1, Always, PTL

\* OnlyRulesRoute, for every instance: after a SyncRoutes without errors the
\* cgroup programs redirect a UDP flow only to the listener of a rule for its
\* address, and before the first fault no address is taken for an IP literal
\* without a rule.
THEOREM OnlyRulesRouteHolds == Spec => []OnlyRulesRoute
<1>1. IInv => OnlyRulesRoute
  <2> SUFFICES ASSUME IInv, Settled PROVE OnlyRulesRoute
    BY DEF OnlyRulesRoute
  <2>1. ASSUME enforced = "on", NEW h \in Hook, NEW f \in Family, NEW i \in Ip,
               NEW s \in Udp, Verdict(h, f, "outside", i, s) # <<"deny">>
        PROVE  \E r \in rules :
                  /\ Verdict(h, f, "outside", i, s) = <<"listener", r>> /\ r.svc = s
                  /\ r.dst = i \/ (r.dst \in Domain /\ i \in Resolves[r.dst])
    <3> DEFINE r == lookup_route(i, s)
    <3>1. Verdict(h, f, "outside", i, s) \in {<<"deny">>, Redirect(i, s, "deny")}
      BY <2>1 DEF Verdict, decide_connect, decide_sendmsg, Hook, Family
    <3>2. r # None /\ Verdict(h, f, "outside", i, s) = <<"listener", r>>
      BY <2>1, <3>1 DEF Redirect
    <3>3. /\ r \in route_map /\ Cached(i)
          /\ r.dst = dns_cache[i].hash /\ r.svc = s
      BY <3>2 DEF lookup_route
    <3>4. r \in rules
      BY <3>3 DEF IInv, RoutesFollow, Settled
    <3>5. r.dst = i \/ (r.dst \in Domain /\ i \in Resolves[r.dst])
      BY <3>3 DEF IInv, EntriesMean
    <3>6. QED
      BY <3>2, <3>3, <3>4, <3>5
  <2>2. ASSUME faults = 0, NEW i \in Ip, Cached(i), dns_cache[i].hash = i
        PROVE  i \in SeedsOf(rules)
    BY <2>2 DEF IInv, SeedsTracked, SeedsKnown, Settled
  <2>3. QED
    BY <2>1, <2>2 DEF OnlyRulesRoute
<1>2. QED
  BY <1>1, Always, PTL

\* RepliesComeFromTarget, for every instance: restore_v4_reply_source gives
\* the application the address it aimed at, whatever the listeners carried
\* before and whether or not the container is bypassed by then.
THEOREM RepliesComeFromTargetHolds == Spec => []RepliesComeFromTarget
<1>1. IInv => RepliesComeFromTarget
  <2> SUFFICES ASSUME IInv, enforced # "off", NEW r \in Rule, NEW i \in Ip,
                      {j \in Ip : <<r, j>> \in aimed} = {i}
               PROVE  restore_reply_source(r) = i
    BY DEF RepliesComeFromTarget
  <2>1. <<r, i>> \in aimed
    OBVIOUS
  <2>2. udp_flow_map[r] \in Ip /\ <<r, udp_flow_map[r]>> \in aimed
    BY <2>1 DEF IInv, FlowsMean, TypeOK
  <2>3. udp_flow_map[r] = i
    BY <2>2
  <2>4. QED
    BY <2>3, ConstantsAssumption DEF restore_reply_source
<1>2. QED
  BY <1>1, Always, PTL

\* ResolvedMeansRouted, for every instance in which dns_cache has room for
\* every address: an application's valid answer leads to the listener of the
\* domain it asked for.  A full map drops the plugin's write, and the answer
\* is forwarded all the same.
THEOREM ResolvedMeansRoutedHolds ==
    ASSUME IsFiniteSet(Ip), Cardinality(Ip) <= CacheSize
    PROVE  Spec => []ResolvedMeansRouted
<1>1. IInv /\ AnswerStands => ResolvedMeansRouted
  <2> SUFFICES ASSUME IInv, AnswerStands, app.pc = "told", Holds, synced,
                      NEW r \in rules, r.dst = app.dst
               PROVE  lookup_route(app.ip, r.svc) = r
    BY DEF ResolvedMeansRouted, Settled, Holds
  <2>1. Cached(app.ip) /\ dns_cache[app.ip].hash = r.dst
    BY DEF AnswerStands
  <2>2. r \in route_map /\ r = [dst |-> r.dst, svc |-> r.svc]
    BY ConstantsAssumption DEF IInv, TypeOK, RoutesFollow
  <2>3. QED
    BY <2>1, <2>2 DEF lookup_route
<1>2. IInv /\ AnswerStands /\ [Next]_vars => AnswerStands'
  BY AnswerStep DEF IInv
<1>3. QED
  BY <1>1, <1>2, InitAnswer, InitInv, Inductive, PTL DEF Spec

=============================================================================
