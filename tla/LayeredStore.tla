---------------------------- MODULE LayeredStore ----------------------------
(***************************************************************************)
(* The layered configuration store of internal/storage: several processes, *)
(* each with one Store over the same files, and several goroutines inside  *)
(* a process.                                                              *)
(*                                                                         *)
(* A file holds a node: a value, or Absent, for every field.  A value is   *)
(* the set of the entries of a list; a scalar field is the special case in *)
(* which nobody looks inside the set.  Dotted paths are flattened to       *)
(* fields: nesting only decides where a value sits inside its file.        *)
(* Comments, headers, kinds and the strict decode are left out: every      *)
(* value the model stages fits the schema.                                 *)
(*                                                                         *)
(* A Store keeps the layers it loaded (highest priority first, the virtual *)
(* layer of defaults last), the merged tree and the dirty fields.  s.mu is *)
(* held for one operation, txnMu for a whole transaction, and the flock of *)
(* a file for one read-modify-write of it, so a Write of several files is  *)
(* atomic for its own process only.                                        *)
(***************************************************************************)
EXTENDS Integers, Sequences, FiniteSets, SequencesExt, FiniteSetsExt

CONSTANTS
    Proc,        \* processes, each holding one Store of the same schema
    Caller,      \* goroutines
    Owner,       \* the process a goroutine runs in
    Editor,      \* callers that stage and flush single fields (storeui/edit.go)
    File, Order, \* the files, and the order in which discover() finds them
    DefaultFile, \* the path defaultWritePath builds when no file exists
    Field,       \* schema fields, flattened
    UnionField,  \* fields tagged merge:"union"
    TxnField,    \* fields changed only inside Txn, such as the firewall's rules
    LegacyField, \* a field that a registered migration removes from each file
    Elem,        \* entries a value may hold
    Entry,       \* the entry a caller adds in a Txn, or sets a field to
    Defaults,    \* the virtual layer
    InitDisk,    \* the files the processes find
    Lock,        \* WithLock()
    MaxOps,      \* bound: operations of each caller
    MaxFaults,   \* bound: failed writes, lock timeouts and crashes
    Absent, Missing, None

Value == SUBSET Elem
Node == [Field -> Value \cup {Absent}]
Ops == {"clean", "set", "deleted"}

ASSUME Shape ==
    /\ Owner \in [Caller -> Proc] /\ Editor \subseteq Caller
    /\ Entry \in [Caller -> Elem]
    /\ Range(Order) = File /\ DefaultFile \in File
    /\ UnionField \cup TxnField \cup LegacyField \subseteq Field
    /\ Defaults \in Node /\ InitDisk \in [File -> Node \cup {Missing}]
    /\ Lock \in BOOLEAN /\ MaxOps \in [Caller -> Nat] /\ MaxFaults \in Nat

VARIABLES
    disk,     \* File -> node on disk, or Missing
    flock,    \* File -> the caller holding the advisory lock
    life,     \* Proc -> "down", "migrating" (inside New) or "up"
    layers,   \* Proc -> the layers loaded, highest priority first
    tree,     \* Proc -> merged tree with the staged mutations grafted
    dirty,    \* Proc -> Field -> Ops
    pending,  \* Proc -> files whose migrated rewrite is staged
    mu,       \* Proc -> the caller inside an operation that spans steps
    txnMu,    \* Proc -> the caller inside Txn
    pc, plan, dest, buf,      \* Caller -> its step, the fields still to write to
                              \* each file, the open file, the node read from it
    frame,                    \* Caller -> field in hand, value a Txn read, file
                              \* written last
    budget, faults,           \* the bounds used up
    last,      \* history: File -> what the last writer of each field wrote
    want,      \* history: Proc -> Field -> the staged value not yet flushed
    added,     \* history: entries that finished transactions added
    clobbered  \* history: a migration rewrote fields that had changed since load

mem == <<life, layers, tree, dirty, pending, mu, txnMu>>
local == <<pc, plan, dest, buf, frame>>
hist == <<last, want, added, clobbered>>
vars == <<disk, flock, mem, local, budget, faults, hist>>

-----------------------------------------------------------------------------
\* Merging and routing

Empty == [x \in Field |-> Absent]
OnDisk(f) == IF disk[f] = Missing THEN Empty ELSE disk[f]
Virtual == [path |-> None, node |-> Defaults]

\* discover() followed by loadNode on every file it found.
Discovered ==
    LET found == SelectSeq(Order, LAMBDA f : disk[f] # Missing)
    IN  [i \in 1..Len(found) |-> [path |-> found[i], node |-> disk[found[i]]]]
            \o <<Virtual>>

Holders(L, x) == {i \in DOMAIN L : L[i].node[x] # Absent}

\* mergeNodes, from the lowest priority up: union fields accumulate, others
\* last-win.
MergedValue(L, x) ==
    IF Holders(L, x) = {} THEN Absent
    ELSE IF x \in UnionField THEN UNION {L[i].node[x] : i \in Holders(L, x)}
    ELSE L[Min(Holders(L, x))].node[x]
Merge(L) == [x \in Field |-> MergedValue(L, x)]

LayerPathForKey(L, x) ==
    IF Holders(L, x) = {} THEN None ELSE L[Min(Holders(L, x))].path

DefaultWritePath(L) == IF L[1].path # None THEN L[1].path ELSE DefaultFile

Dest(L, x) ==
    IF LayerPathForKey(L, x) # None THEN LayerPathForKey(L, x) ELSE DefaultWritePath(L)

DirtyFields(p) == {x \in Field : dirty[p][x] # "clean"}

\* groupDirtyByDest: the fields bound for each file.
GroupDirtyByDest(p, target) ==
    [f \in File |-> {x \in DirtyFields(p) :
        f = IF target # None THEN target ELSE Dest(layers[p], x)}]

\* refreshLayers and injectNewLayers: reload every layer still readable, then
\* put a file that was not a layer before the virtual one.
Reloaded(L) ==
    [i \in DOMAIN L |->
        IF L[i].path # None /\ disk[L[i].path] # Missing
        THEN [L[i] EXCEPT !.node = disk[L[i].path]] ELSE L[i]]
Inject(L, f) ==
    IF \E i \in DOMAIN L : L[i].path = f THEN L
    ELSE Front(L) \o <<[path |-> f, node |-> disk[f]], Last(L)>>

\* writeLayerFileLocked: graft the dirty fields, and only those, into the node
\* read from the file.
Graft(node, p, xs) == [x \in Field |-> IF x \in xs THEN tree[p][x] ELSE node[x]]

\* Variant: a flush of one field forgets the others.
RestageNothing(p, merged, xs) == merged

\* restage: the mutations still staged, on top of a freshly merged tree.
Restage(p, merged, xs) ==
    [x \in Field |->
        IF x \in xs /\ (tree[p][x] # Absent \/ dirty[p][x] = "deleted")
        THEN tree[p][x] ELSE merged[x]]

-----------------------------------------------------------------------------
\* Construction: New, with the migrations of each file layer

Migrated(node) == [x \in Field |-> IF x \in LegacyField THEN Absent ELSE node[x]]

Clean == [x \in Field |-> "clean"]
NoWant == [x \in Field |-> None]
NoPlan == [f \in File |-> {}]
NoFrame == [field |-> None, val |-> Absent, wrote |-> None]

Init ==
    /\ disk = InitDisk
    /\ flock = [f \in File |-> None]
    /\ life = [p \in Proc |-> "down"]
    /\ layers = [p \in Proc |-> <<Virtual>>]
    /\ tree = [p \in Proc |-> Empty]
    /\ dirty = [p \in Proc |-> Clean]
    /\ pending = [p \in Proc |-> {}]
    /\ mu = [p \in Proc |-> None]
    /\ txnMu = [p \in Proc |-> None]
    /\ pc = [c \in Caller |-> "idle"]
    /\ plan = [c \in Caller |-> NoPlan]
    /\ dest = [c \in Caller |-> None]
    /\ buf = [c \in Caller |-> Empty]
    /\ frame = [c \in Caller |-> NoFrame]
    /\ budget = MaxOps
    /\ faults = 0
    /\ last = [f \in File |-> OnDisk(f)]
    /\ want = [p \in Proc |-> NoWant]
    /\ added = [x \in Field |-> {}]
    /\ clobbered = FALSE

\* New up to the staged rewrites: stageMigratedLayers has edited the layer nodes
\* in memory, nothing is written yet.
New(p) ==
    /\ life[p] = "down"
    /\ LET L == Discovered
           M == [i \in DOMAIN L |-> IF L[i].path = None THEN L[i]
                                    ELSE [L[i] EXCEPT !.node = Migrated(@)]]
       IN  /\ layers' = [layers EXCEPT ![p] = M]
           /\ pending' = [pending EXCEPT ![p] =
                            {L[i].path : i \in {j \in DOMAIN L : L[j] # M[j]}}]
           /\ tree' = [tree EXCEPT ![p] = Merge(M)]
    /\ life' = [life EXCEPT ![p] = IF pending'[p] = {} THEN "up" ELSE "migrating"]
    /\ UNCHANGED <<disk, flock, dirty, mu, txnMu, local, budget, faults, hist>>

\* The constructor returns once every staged rewrite was tried.
Tried(p, f) ==
    /\ life[p] = "migrating" /\ f \in pending[p]
    /\ pending' = [pending EXCEPT ![p] = @ \ {f}]
    /\ life' = [life EXCEPT ![p] = IF pending[p] = {f} THEN "up" ELSE @]

\* commitMigratedLayers: the bytes encoded from the node read at load replace the
\* file.  The flock covers the replacement, not the read it is based on.
CommitMigrated(p, f) ==
    /\ Tried(p, f)
    /\ Lock => flock[f] = None
    /\ LET i == CHOOSE j \in DOMAIN layers[p] : layers[p][j].path = f
           node == layers[p][i].node
       IN  /\ disk' = [disk EXCEPT ![f] = node]
           /\ last' = [last EXCEPT ![f] = node]
           /\ clobbered' = (clobbered \/ node # Migrated(OnDisk(f)))
    /\ UNCHANGED <<flock, layers, tree, dirty, mu, txnMu, local, budget, faults,
                   want, added>>

\* A rewrite that fails degrades: the migrated values stay in memory only.
FailMigrated(p, f) ==
    /\ Tried(p, f)
    /\ faults < MaxFaults /\ faults' = faults + 1
    /\ UNCHANGED <<disk, flock, layers, tree, dirty, mu, txnMu, local, budget, hist>>

\* The process dies: memory goes, the kernel drops its flocks, files stay.
Crash(p) ==
    /\ life[p] # "down"
    /\ faults < MaxFaults /\ faults' = faults + 1
    /\ life' = [life EXCEPT ![p] = "down"]
    /\ dirty' = [dirty EXCEPT ![p] = Clean]
    /\ pending' = [pending EXCEPT ![p] = {}]
    /\ mu' = [mu EXCEPT ![p] = None]
    /\ txnMu' = [txnMu EXCEPT ![p] = None]
    /\ want' = [want EXCEPT ![p] = NoWant]
    /\ flock' = [f \in File |->
                    IF flock[f] # None /\ Owner[flock[f]] = p THEN None ELSE flock[f]]
    /\ pc' = [c \in Caller |-> IF Owner[c] = p THEN "idle" ELSE pc[c]]
    /\ plan' = [c \in Caller |-> IF Owner[c] = p THEN NoPlan ELSE plan[c]]
    /\ dest' = [c \in Caller |-> IF Owner[c] = p THEN None ELSE dest[c]]
    /\ buf' = [c \in Caller |-> IF Owner[c] = p THEN Empty ELSE buf[c]]
    /\ frame' = [c \in Caller |-> IF Owner[c] = p THEN NoFrame ELSE frame[c]]
    /\ layers' = [layers EXCEPT ![p] = <<Virtual>>]
    /\ tree' = [tree EXCEPT ![p] = Empty]
    /\ UNCHANGED <<disk, budget, last, added, clobbered>>

-----------------------------------------------------------------------------
\* Operations under s.mu alone

Enter(c) == life[Owner[c]] = "up" /\ mu[Owner[c]] = None

Spend(c) == budget[c] > 0 /\ budget' = [budget EXCEPT ![c] = @ - 1]

\* A value or a deletion is staged in the tree and in the dirty set.
Stage(p, x, v, op) ==
    /\ tree' = [tree EXCEPT ![p][x] = v]
    /\ dirty' = [dirty EXCEPT ![p][x] = op]
    /\ want' = [want EXCEPT ![p][x] = v]

Set(c, x, v) ==
    /\ c \in Editor /\ pc[c] = "idle" /\ Enter(c) /\ Spend(c)
    /\ Stage(Owner[c], x, v, "set")
    /\ UNCHANGED <<disk, flock, life, layers, pending, mu, txnMu, local, faults,
                   last, added, clobbered>>

RemoveField(c, x) ==
    /\ c \in Editor /\ pc[c] = "idle" /\ Enter(c) /\ Spend(c)
    /\ tree[Owner[c]][x] # Absent
    /\ Stage(Owner[c], x, Absent, "deleted")
    /\ UNCHANGED <<disk, flock, life, layers, pending, mu, txnMu, local, faults,
                   last, added, clobbered>>

\* MarkForWrite and MarkSeedForWrite put fields into the write set unchanged.
Mark(c, xs) ==
    LET p == Owner[c] IN
    /\ c \in Editor /\ pc[c] = "idle" /\ Enter(c) /\ Spend(c)
    /\ dirty' = [dirty EXCEPT ![p] = [x \in Field |-> IF x \in xs THEN "set" ELSE @[x]]]
    /\ want' = [want EXCEPT ![p] = [x \in Field |->
                    IF x \notin xs THEN @[x]
                    ELSE IF tree[p][x] = Absent THEN None ELSE tree[p][x]]]
    /\ UNCHANGED <<disk, flock, life, layers, tree, pending, mu, txnMu, local, faults,
                   last, added, clobbered>>

MarkForWrite(c, x) == Mark(c, {x})

SeedFields(p) ==
    {x \in Field : Holders(layers[p], x) # {} /\ LayerPathForKey(layers[p], x) = None}
MarkSeedForWrite(c) == Mark(c, SeedFields(Owner[c]))

\* Refresh drops staged mutations, so callers use it only when none is staged.
Refresh(c) ==
    LET p == Owner[c] IN
    /\ c \in Editor /\ pc[c] = "idle" /\ Enter(c) /\ Spend(c)
    /\ DirtyFields(p) = {}
    /\ layers' = [layers EXCEPT ![p] = Discovered]
    /\ tree' = [tree EXCEPT ![p] = Merge(Discovered)]
    /\ UNCHANGED <<disk, flock, life, dirty, pending, mu, txnMu, local, faults, hist>>

-----------------------------------------------------------------------------
\* Flushing: Write, WriteTo and WriteFieldTo

\* mu is taken, the destinations are worked out once.
StartWrite(c, group) ==
    /\ mu' = [mu EXCEPT ![Owner[c]] = c]
    /\ plan' = [plan EXCEPT ![c] = group]

WriteTo(c, target) ==
    /\ c \in Editor /\ pc[c] = "idle" /\ Enter(c) /\ Spend(c)
    /\ DirtyFields(Owner[c]) # {}
    /\ StartWrite(c, GroupDirtyByDest(Owner[c], target))
    /\ pc' = [pc EXCEPT ![c] = "write"]
    /\ UNCHANGED <<disk, flock, life, layers, tree, dirty, pending, txnMu, dest, buf, frame,
                   faults, hist>>

Write(c) == WriteTo(c, None)

WriteFieldTo(c, target, x) ==
    /\ c \in Editor /\ pc[c] = "idle" /\ Enter(c) /\ Spend(c)
    /\ dirty[Owner[c]][x] # "clean"
    /\ StartWrite(c, [f \in File |-> IF f = target THEN {x} ELSE {}])
    /\ pc' = [pc EXCEPT ![c] = "writeField"]
    /\ frame' = [frame EXCEPT ![c].field = x]
    /\ UNCHANGED <<disk, flock, life, layers, tree, dirty, pending, txnMu, dest, buf,
                   faults, hist>>

Writing(c) == pc[c] \in {"write", "writeField", "txnWrite"}

\* Variant: graft into the node loaded with the store instead of the file's own.
OpenLoaded(c, f) ==
    LET L == layers[Owner[c]] IN
    /\ Writing(c) /\ dest[c] = None /\ plan[c][f] # {}
    /\ Lock => flock[f] = None
    /\ flock' = IF Lock THEN [flock EXCEPT ![f] = c] ELSE flock
    /\ dest' = [dest EXCEPT ![c] = f]
    /\ buf' = [buf EXCEPT ![c] =
                  IF \E i \in DOMAIN L : L[i].path = f
                  THEN L[CHOOSE i \in DOMAIN L : L[i].path = f].node ELSE Empty]
    /\ UNCHANGED <<disk, mem, pc, plan, frame, budget, faults, hist>>

\* withLock and loadDestNode: the file is read inside the flock.
OpenDest(c, f) ==
    /\ Writing(c) /\ dest[c] = None /\ plan[c][f] # {}
    /\ Lock => flock[f] = None
    /\ flock' = IF Lock THEN [flock EXCEPT ![f] = c] ELSE flock
    /\ dest' = [dest EXCEPT ![c] = f]
    /\ buf' = [buf EXCEPT ![c] = OnDisk(f)]
    /\ UNCHANGED <<disk, mem, pc, plan, frame, budget, faults, hist>>

\* Graft, encode, atomicWrite (temporary file and rename), unlock.
CommitDest(c) ==
    LET f == dest[c]  xs == plan[c][f]  p == Owner[c] IN
    /\ Writing(c) /\ f # None
    /\ disk' = [disk EXCEPT ![f] = Graft(buf[c], p, xs)]
    /\ last' = [last EXCEPT ![f] = Graft(@, p, xs)]
    /\ flock' = IF Lock THEN [flock EXCEPT ![f] = None] ELSE flock
    /\ dest' = [dest EXCEPT ![c] = None]
    /\ plan' = [plan EXCEPT ![c][f] = {}]
    /\ buf' = [buf EXCEPT ![c] = Empty]
    /\ frame' = [frame EXCEPT ![c].wrote = f]
    /\ UNCHANGED <<mem, pc, budget, faults, want, added, clobbered>>

\* The caller gives up: the flock wait timed out (withLock), or reading or
\* replacing the file failed.  The error returns at once: files already replaced
\* stay replaced, and every dirty field stays dirty.
FailWrite(c) ==
    LET p == Owner[c] IN
    /\ Writing(c)
    /\ \/ dest[c] # None
       \/ \E f \in File : plan[c][f] # {} /\ flock[f] # None
    /\ faults < MaxFaults /\ faults' = faults + 1
    /\ flock' = [f \in File |-> IF flock[f] = c THEN None ELSE flock[f]]
    /\ mu' = [mu EXCEPT ![p] = None]
    /\ txnMu' = [txnMu EXCEPT ![p] = IF @ = c THEN None ELSE @]
    /\ pc' = [pc EXCEPT ![c] = "idle"]
    /\ dest' = [dest EXCEPT ![c] = None]
    /\ plan' = [plan EXCEPT ![c] = NoPlan]
    /\ buf' = [buf EXCEPT ![c] = Empty]
    /\ frame' = [frame EXCEPT ![c] = NoFrame]
    /\ UNCHANGED <<disk, life, layers, tree, dirty, pending, budget, hist>>

Flushed(c) == Writing(c) /\ dest[c] = None /\ \A f \in File : plan[c][f] = {}

\* refreshLayers, injectNewLayers and remerge after the files are written; the
\* fields in kept are still staged.
Settle(c, kept) ==
    LET p == Owner[c]
        L == Inject(Reloaded(layers[p]), frame[c].wrote)
    IN  /\ layers' = [layers EXCEPT ![p] = L]
        /\ tree' = [tree EXCEPT ![p] = Restage(p, Merge(L), kept)]
        /\ dirty' = [dirty EXCEPT ![p] =
                        [x \in Field |-> IF x \in kept THEN @[x] ELSE "clean"]]
        /\ want' = [want EXCEPT ![p] =
                        [x \in Field |-> IF x \in kept THEN @[x] ELSE None]]
        /\ mu' = [mu EXCEPT ![p] = None]
        /\ pc' = [pc EXCEPT ![c] = "idle"]
        /\ frame' = [frame EXCEPT ![c] = NoFrame]

\* The end of write(): the whole dirty set is flushed.
FinishWrite(c) ==
    /\ Flushed(c) /\ pc[c] = "write"
    /\ Settle(c, {})
    /\ UNCHANGED <<disk, flock, life, pending, txnMu, plan, dest, buf, budget, faults,
                   last, added, clobbered>>

\* The end of WriteFieldTo: the other staged mutations are restaged.
FinishWriteField(c) ==
    /\ Flushed(c) /\ pc[c] = "writeField"
    /\ Settle(c, DirtyFields(Owner[c]) \ {frame[c].field})
    /\ UNCHANGED <<disk, flock, life, pending, txnMu, plan, dest, buf, budget, faults,
                   last, added, clobbered>>

-----------------------------------------------------------------------------
\* Txn: Get, Set and Write with txnMu held and s.mu released in between

\* Variant: Get outside the transaction lock.
GetUnlocked(c, x) ==
    LET p == Owner[c] IN
    /\ c \notin Editor /\ pc[c] = "idle" /\ Enter(c) /\ Spend(c)
    /\ txnMu' = [txnMu EXCEPT ![p] = c]
    /\ frame' = [frame EXCEPT ![c].field = x, ![c].val = tree[p][x]]
    /\ pc' = [pc EXCEPT ![c] = "txnSet"]
    /\ UNCHANGED <<disk, flock, life, layers, tree, dirty, pending, mu, plan, dest, buf,
                   faults, hist>>

TxnGet(c, x) ==
    LET p == Owner[c] IN
    /\ c \notin Editor /\ pc[c] = "idle" /\ Enter(c) /\ Spend(c)
    /\ txnMu[p] = None
    /\ txnMu' = [txnMu EXCEPT ![p] = c]
    /\ frame' = [frame EXCEPT ![c].field = x, ![c].val = tree[p][x]]
    /\ pc' = [pc EXCEPT ![c] = "txnSet"]
    /\ UNCHANGED <<disk, flock, life, layers, tree, dirty, pending, mu, plan, dest, buf,
                   faults, hist>>

TxnSet(c) ==
    LET p == Owner[c]  r == frame[c]
        v == (IF r.val = Absent THEN {} ELSE r.val) \cup {Entry[c]}
    IN  /\ pc[c] = "txnSet" /\ Enter(c)
        /\ Stage(p, r.field, v, "set")
        /\ pc' = [pc EXCEPT ![c] = "txnFlush"]
        /\ UNCHANGED <<disk, flock, life, layers, pending, mu, txnMu, plan, dest, buf, frame,
                       budget, faults, last, added, clobbered>>

TxnWrite(c) ==
    LET p == Owner[c] IN
    /\ pc[c] = "txnFlush" /\ Enter(c)
    /\ StartWrite(c, GroupDirtyByDest(p, None))
    /\ pc' = [pc EXCEPT ![c] = "txnWrite"]
    /\ UNCHANGED <<disk, flock, life, layers, tree, dirty, pending, txnMu, dest, buf, frame,
                   budget, faults, hist>>

FinishTxn(c) ==
    LET p == Owner[c]  r == frame[c] IN
    /\ Flushed(c) /\ pc[c] = "txnWrite"
    /\ Settle(c, {})
    /\ txnMu' = [txnMu EXCEPT ![p] = None]
    /\ added' = [added EXCEPT ![r.field] = @ \cup {Entry[c]}]
    /\ UNCHANGED <<disk, flock, life, pending, plan, dest, buf, budget, faults,
                   last, clobbered>>

-----------------------------------------------------------------------------
EditField == Field \ (TxnField \cup LegacyField)

ProcStep(p) ==
    \/ New(p) \/ Crash(p)
    \/ \E f \in File : CommitMigrated(p, f) \/ FailMigrated(p, f)

EditStep(c) ==
    \/ \E x \in EditField : Set(c, x, {Entry[c]}) \/ RemoveField(c, x) \/ MarkForWrite(c, x)
    \/ MarkSeedForWrite(c) \/ Refresh(c) \/ Write(c)
    \/ \E f \in File : WriteTo(c, f)
    \/ \E f \in File, x \in Field : WriteFieldTo(c, f, x)

FlushStep(c) ==
    \/ \E f \in File : OpenDest(c, f)
    \/ CommitDest(c) \/ FailWrite(c) \/ FinishWrite(c) \/ FinishWriteField(c)

TxnStep(c) ==
    \/ \E x \in TxnField : TxnGet(c, x)
    \/ TxnSet(c) \/ TxnWrite(c) \/ FinishTxn(c)

Next ==
    \/ \E p \in Proc : ProcStep(p)
    \/ \E c \in Caller : EditStep(c) \/ FlushStep(c) \/ TxnStep(c)

Spec == Init /\ [][Next]_vars

-----------------------------------------------------------------------------
\* Every variable keeps its shape, and a lock is held by a caller that is inside
\* the operation the lock protects.
TypeOK ==
    /\ disk \in [File -> Node \cup {Missing}]
    /\ last \in [File -> Node]
    /\ life \in [Proc -> {"down", "migrating", "up"}]
    /\ tree \in [Proc -> Node]
    /\ dirty \in [Proc -> [Field -> Ops]]
    /\ pending \in [Proc -> SUBSET File]
    /\ pc \in [Caller -> {"idle", "write", "writeField", "txnSet", "txnFlush", "txnWrite"}]
    /\ \A f \in File : flock[f] # None => dest[flock[f]] = f
    /\ \A p \in Proc : mu[p] # None => Owner[mu[p]] = p /\ Writing(mu[p])
    /\ faults \in 0..MaxFaults /\ clobbered \in BOOLEAN

\* writeLayerFile promises that "a file another process updated since load keeps
\* its updates": at any moment a file holds, field by field, what the last flush
\* of that field wrote, whichever process flushed it and whatever crash, lock
\* timeout or failed write came in between.
NoLostWrites == \A f \in File : OnDisk(f) = last[f]

\* A mutation that was staged and not flushed is never forgotten: not by a Write
\* that failed halfway through its files, not by the flush of another field
\* (WriteFieldTo rebuilds the tree), not by reloading what others wrote.
StagedSurvives ==
    \A p \in Proc, x \in Field :
        want[p][x] # None =>
            /\ dirty[p][x] = IF want[p][x] = Absent THEN "deleted" ELSE "set"
            /\ tree[p][x] = want[p][x]

\* Txn closes the read-modify-write gap between the goroutines of a process: an
\* entry whose transaction returned without an error is what the next load finds.
TxnKeepsAll ==
    ~clobbered => \A x \in TxnField :
        added[x] = {} \/ added[x] \subseteq Merge(Discovered)[x]

\* Refresh's comment: "Write() already remerges and injects new layers for files
\* it writes, so Refresh is only needed for external changes".  With one process
\* nothing is external, so a settled store would agree with a fresh load.
AgreesWithLoad ==
    \A p \in Proc : life[p] = "up" /\ mu[p] = None /\ DirtyFields(p) = {}
                       => tree[p] = Merge(Discovered)

\* The same promise of writeLayerFile for the rewrite of a migrated file: it
\* changes the legacy field and nothing that was written since the load.
MigrationKeepsUpdates == ~clobbered
=============================================================================
