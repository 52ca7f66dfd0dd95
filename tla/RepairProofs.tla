--------------------------- MODULE RepairProofs ---------------------------
(***************************************************************************)
(* What holds of Repair for any finite set of fault keys, any objects and  *)
(* any number of concurrent calls, batch size and budgets.  Each handler   *)
(* is first shown to do one of a few things (Served: a step of a repair;   *)
(* Scheduled: the schedule; Outside: the world), and each part of the      *)
(* invariant is then kept by those.  Queued is why the store converges.    *)
(* PassSound is why a clear has a reason: a pass remembers which slices    *)
(* read clean, and its memory stays true because only the pass that runs   *)
(* closes a fault, each fault once, so none is reported anew behind it.    *)
(***************************************************************************)
EXTENDS Repair, Integers, FunctionTheorems, FiniteSetTheorems, SequenceTheorems,
        WellFoundedInduction, TLAPS

USE RepairAssumption

\* A list that names nothing twice; what it names.
Injective(s) == \A i, j \in DOMAIN s : s[i] = s[j] => i = j
Elems(s) == {s[i] : i \in DOMAIN s}

\* The fields of RepairWorker; the locals of a processFaults() call.
WorkerFields == [started : BOOLEAN, stopping : BOOLEAN, running : BOOLEAN, rerun : BOOLEAN,
                 wake : BOOLEAN, backlog : BOOLEAN, active : SUBSET Key]
Locals == [todo : Seq(Key), visited : Nat, cur : Key \cup {Idle.cur}, ahead : Int,
           then : {"loop", "verify"}, checked : SUBSET Object, clean : SUBSET Key,
           insufficient : SUBSET Object]

\* The call is in repairFault().
Serving(p) == pc[p] \in {"settle", "fault", "verify", "rebuild", "reverify"}

\* The types, and a repair is of a fault key.
Typed ==
    /\ TypeOK
    /\ w \in WorkerFields
    /\ ctx \in [Pass -> Locals]
    /\ \A p \in Pass : Serving(p) => ctx[p].cur \in Key

\* A process that is down has nothing in memory.
Down ==
    ~up => /\ \A p \in Pass : pc[p] = "idle"
           /\ w = Stopped
           /\ mem = [k \in Key |-> NoFault] /\ order = <<>>
           /\ chain = [k \in Key |-> <<>>]

\* The Map is iterated over its keys, each once.
Listed == Injective(order) /\ Elems(order) = {k \in Key : Open(k)}

\* One pass runs, and RepairWorker.running says so.
Single ==
    /\ \A p, q \in Pass : pc[p] \notin {"idle", "gate"} /\ pc[q] \notin {"idle", "gate"} => p = q
    /\ w.running <=> Busy

\* The repair has not cleared or marked its fault yet.
Working(p) ==
    pc[p] \in {"fault", "verify", "rebuild", "reverify"} \/ (pc[p] = "settle" /\ ctx[p].then = "verify")

\* The faults the pass has still to do.
Agenda(p) == Elems(ctx[p].todo) \cup {j \in {ctx[p].cur} : Working(p)}

\* What a pass has still to do is still open, and named once; what it believes to be clean has been
\* read clean, or is leaving.
PassSound(p) ==
    pc[p] \notin {"idle", "gate"} =>
        /\ Injective(ctx[p].todo)
        /\ Working(p) => ctx[p].cur \notin Elems(ctx[p].todo)
        /\ \A j \in Agenda(p) : Open(j) /\ (j \in ctx[p].clean => j \in proved \cup draining)

\* All calls.
PassesSound == \A p \in Pass : PassSound(p)

\* The last write queued for a key says what memory says; without one, the store does.
Queued ==
    up => \A k \in Key :
        /\ chain[k] # <<>> => chain[k][Len(chain[k])] = mem[k]
        /\ chain[k] = <<>> /\ k \notin lost => store[k] = mem[k]

\* A set of naturals that is not empty has a least element.
LEMMA Least ==
    ASSUME NEW T, T \subseteq Nat, T # {}
    PROVE  \E m \in T : \A n \in T : m <= n
<1>1. \E m \in T : \A n \in T : ~(<<n, m>> \in OpToRel(<, Nat))
  BY NatLessThanWellFounded, WFMin, Zenon
<1>2. \E m \in T : \A n \in T : ~(n < m)
  BY <1>1 DEF OpToRel
<1>. QED
  BY <1>2

\* The recursion that defines Only, up to position n.
Keeps(s, S, n, g) ==
    g = [i \in 0 .. n |->
            IF i = 0 THEN <<>>
            ELSE IF s[i] \in S THEN Append(g[i - 1], s[i]) ELSE g[i - 1]]

\* The recursion goes on by one position.
LEMMA KeepsExtends ==
    ASSUME NEW s, NEW S, NEW n \in Nat, NEW g, Keeps(s, S, n, g)
    PROVE  \E h : Keeps(s, S, n + 1, h)
<1>. DEFINE h == [i \in 0 .. n + 1 |->
                    IF i = n + 1
                    THEN IF s[n + 1] \in S THEN Append(g[n], s[n + 1]) ELSE g[n]
                    ELSE g[i]]
            F(i) == IF i = 0 THEN <<>>
                    ELSE IF s[i] \in S THEN Append(h[i - 1], s[i]) ELSE h[i - 1]
<1>1. ASSUME NEW i \in 0 .. n + 1 PROVE h[i] = F(i)
  <2>1. CASE i = n + 1
    <3>1. h[i] = IF s[i] \in S THEN Append(g[n], s[i]) ELSE g[n]
      BY <2>1
    <3>2. i # 0 /\ i - 1 = n /\ n \in 0 .. n + 1 /\ n # n + 1
      BY <2>1
    <3>3. h[i - 1] = g[n]
      BY <3>2
    <3>. HIDE DEF h
    <3>. QED
      BY <3>1, <3>2, <3>3
  <2>2. CASE i # n + 1
    <3>1. i \in 0 .. n
      BY <2>2
    <3>2. h[i] = g[i]
      BY <2>2
    <3>3. g[i] = IF i = 0 THEN <<>>
                 ELSE IF s[i] \in S THEN Append(g[i - 1], s[i]) ELSE g[i - 1]
      BY <3>1 DEF Keeps
    <3>4. CASE i = 0
      <4>. HIDE DEF h
      <4>. QED BY <3>2, <3>3, <3>4
    <3>5. CASE i # 0
      <4>1. i - 1 \in 0 .. n + 1 /\ i - 1 # n + 1
        BY <3>1, <3>5
      <4>2. h[i - 1] = g[i - 1]
        BY <4>1
      <4>. HIDE DEF h
      <4>. QED
        BY <3>2, <3>3, <3>5, <4>2
    <3>. QED
      BY <3>4, <3>5
  <2>. QED
    BY <2>1, <2>2
<1>2. h = [i \in 0 .. n + 1 |-> h[i]]
  OBVIOUS
<1>. HIDE DEF h
<1>3. Keeps(s, S, n + 1, h)
  BY <1>1, <1>2 DEF Keeps
<1>. QED
  BY <1>3

\* So it defines a function at every length.
LEMMA KeepsExists ==
    ASSUME NEW s, NEW S, NEW n \in Nat
    PROVE  \E g : Keeps(s, S, n, g)
<1>. DEFINE T == {m \in Nat : ~\E g : Keeps(s, S, m, g)}
<1>1. SUFFICES ASSUME T # {} PROVE FALSE
  OBVIOUS
<1>2. PICK m \in T : \A k \in T : m <= k
  <2>1. T \subseteq Nat
    OBVIOUS
  <2>. HIDE DEF T
  <2>. QED
    BY <1>1, <2>1, Least
<1>3. m # 0
  <2>1. Keeps(s, S, 0, [i \in 0 .. 0 |-> <<>>])
    BY DEF Keeps
  <2>. QED
    BY <2>1
<1>4. m - 1 \in Nat /\ m - 1 \notin T
  BY <1>2, <1>3
<1>5. PICK g : Keeps(s, S, m - 1, g)
  BY <1>4
<1>6. \E h : Keeps(s, S, (m - 1) + 1, h)
  BY <1>4, <1>5, KeepsExtends
<1>7. (m - 1) + 1 = m
  BY <1>2
<1>. QED
  BY <1>6, <1>7

\* Only is that function's last value.
LEMMA OnlyKeeps ==
    ASSUME NEW s, NEW S, Len(s) \in Nat
    PROVE  \E g : Keeps(s, S, Len(s), g) /\ Only(s, S) = g[Len(s)]
<1>. DEFINE kept[i \in 0 .. Len(s)] ==
                IF i = 0 THEN <<>>
                ELSE IF s[i] \in S THEN Append(kept[i - 1], s[i]) ELSE kept[i - 1]
<1>1. Only(s, S) = kept[Len(s)]
  BY DEF Only
<1>2. kept = CHOOSE g : Keeps(s, S, Len(s), g)
  BY DEF Keeps
<1>. HIDE DEF kept
<1>3. Keeps(s, S, Len(s), kept)
  BY <1>2, KeepsExists
<1>. QED
  BY <1>1, <1>3

\* What is kept of the first n elements.
KeptSo(s, S, K, n, t) ==
    /\ t \in Seq(K)
    /\ Elems(t) = {s[i] : i \in {j \in 1 .. n : s[j] \in S}}
    /\ Injective(s) => Injective(t)

\* An element more at the end of a list.
LEMMA AppendElems ==
    ASSUME NEW K, NEW t \in Seq(K), NEW x \in K
    PROVE  /\ Append(t, x) \in Seq(K)
           /\ Elems(Append(t, x)) = Elems(t) \cup {x}
           /\ Injective(t) /\ x \notin Elems(t) => Injective(Append(t, x))
<1>1. /\ DOMAIN t = 1 .. Len(t) /\ Len(t) \in Nat /\ Len(Append(t, x)) = Len(t) + 1
      /\ DOMAIN Append(t, x) = 1 .. Len(t) + 1
      /\ \A i \in 1 .. Len(t) : Append(t, x)[i] = t[i]
      /\ Append(t, x)[Len(t) + 1] = x
      /\ Append(t, x) \in Seq(K)
  OBVIOUS
<1>2. Elems(Append(t, x)) = Elems(t) \cup {x}
  <2>1. ASSUME NEW y \in Elems(Append(t, x)) PROVE y \in Elems(t) \cup {x}
    BY <1>1 DEF Elems
  <2>2. ASSUME NEW y \in Elems(t) \cup {x} PROVE y \in Elems(Append(t, x))
    BY <1>1 DEF Elems
  <2>. QED
    BY <2>1, <2>2
<1>3. ASSUME Injective(t), x \notin Elems(t) PROVE Injective(Append(t, x))
  BY <1>1, <1>3 DEF Injective, Elems
<1>. QED
  BY <1>1, <1>2, <1>3

\* What is kept of every prefix.
LEMMA KeepsSo ==
    ASSUME NEW K, NEW s \in Seq(K), NEW S, NEW g, Keeps(s, S, Len(s), g),
           NEW n \in Nat, n <= Len(s)
    PROVE  KeptSo(s, S, K, n, g[n])
<1>. DEFINE T == {m \in 0 .. Len(s) : ~KeptSo(s, S, K, m, g[m])}
<1>0. Len(s) \in Nat /\ DOMAIN s = 1 .. Len(s)
  OBVIOUS
<1>1. SUFFICES ASSUME T # {} PROVE FALSE
  BY <1>0
<1>2. PICK m \in T : \A k \in T : m <= k
  <2>1. T \subseteq Nat
    OBVIOUS
  <2>. HIDE DEF T
  <2>. QED
    BY <1>1, <2>1, Least
<1>3. m # 0
  <2>1. g[0] = <<>>
    BY <1>0 DEF Keeps
  <2>2. KeptSo(s, S, K, 0, <<>>)
    BY DEF KeptSo, Elems, Injective
  <2>. QED
    BY <2>1, <2>2
<1>4. m \in 1 .. Len(s) /\ m - 1 \in 0 .. Len(s) /\ m - 1 \notin T
  BY <1>0, <1>2, <1>3
<1>5. KeptSo(s, S, K, m - 1, g[m - 1])
  BY <1>4
<1>6. g[m] = IF s[m] \in S THEN Append(g[m - 1], s[m]) ELSE g[m - 1]
  BY <1>0, <1>4, <1>3 DEF Keeps
<1>. DEFINE D(k) == {s[i] : i \in {j \in 1 .. k : s[j] \in S}}
<1>7. s[m] \in K
  BY <1>4
<1>8. CASE s[m] \in S
  <2>1. D(m) = D(m - 1) \cup {s[m]}
    <3>1. ASSUME NEW j \in 1 .. m PROVE j \in 1 .. m - 1 \/ j = m
      BY <1>4
    <3>2. 1 .. m - 1 \subseteq 1 .. m /\ m \in 1 .. m
      BY <1>4
    <3>. QED
      BY <1>8, <3>1, <3>2
  <2>2. Injective(s) => s[m] \notin D(m - 1)
    <3>1. ASSUME Injective(s), NEW i \in 1 .. m - 1, s[m] = s[i] PROVE FALSE
      <4>1. i \in DOMAIN s /\ m \in DOMAIN s /\ i # m
        BY <1>0, <1>4
      <4>. QED
        BY <3>1, <4>1 DEF Injective
    <3>. QED
      BY <3>1
  <2>3. PICK t : t = g[m - 1]
    OBVIOUS
  <2>4. t \in Seq(K) /\ Elems(t) = D(m - 1) /\ (Injective(s) => Injective(t))
    BY <1>5, <2>3 DEF KeptSo
  <2>5. /\ Append(t, s[m]) \in Seq(K)
        /\ Elems(Append(t, s[m])) = D(m)
        /\ Injective(s) => Injective(Append(t, s[m]))
    <3>. HIDE DEF D
    <3>. QED
      BY <1>7, <2>1, <2>2, <2>4, AppendElems
  <2>6. KeptSo(s, S, K, m, Append(t, s[m]))
    BY <2>5 DEF KeptSo
  <2>. QED
    BY <1>6, <1>8, <2>3, <2>6
<1>9. CASE s[m] \notin S
  <2>1. D(m) = D(m - 1)
    <3>1. ASSUME NEW j \in 1 .. m, s[j] \in S PROVE j \in 1 .. m - 1
      BY <1>4, <1>9, <3>1
    <3>2. 1 .. m - 1 \subseteq 1 .. m
      BY <1>4
    <3>. QED
      BY <3>1, <3>2
  <2>. QED
    BY <1>5, <1>6, <1>9, <2>1 DEF KeptSo
<1>. QED
  BY <1>8, <1>9

\* Only keeps the elements of the set, each as often as before.
LEMMA OnlySelects ==
    ASSUME NEW K, NEW s \in Seq(K), NEW S
    PROVE  /\ Only(s, S) \in Seq(K)
           /\ Elems(Only(s, S)) = Elems(s) \cap S
           /\ Injective(s) => Injective(Only(s, S))
<1>1. Len(s) \in Nat /\ DOMAIN s = 1 .. Len(s)
  OBVIOUS
<1>2. KeptSo(s, S, K, Len(s), Only(s, S))
  BY <1>1, OnlyKeeps, KeepsSo
<1>3. {s[i] : i \in {j \in 1 .. Len(s) : s[j] \in S}} = Elems(s) \cap S
  BY <1>1 DEF Elems
<1>. QED
  BY <1>2, <1>3 DEF KeptSo

-----------------------------------------------------------------------------
\* The types, in parts: the world around the registry, the registry, the calls.
World ==
    /\ lost \subseteq Key /\ proved \subseteq Key /\ errs \subseteq Key
    /\ off \subseteq Key /\ ro \subseteq Key /\ draining \subseteq Key
    /\ slice \in [Key -> {"good", "bad"}] /\ row \in [Object -> {"live", "dead", "gone"}]
    /\ frozen \in BOOLEAN /\ applying \in BOOLEAN /\ up \in BOOLEAN /\ events \in 0..MaxEvents

Registry ==
    /\ mem \in [Key -> Fault] /\ chain \in [Key -> Seq(Fault)] /\ order \in Seq(Key)

Calls ==
    /\ w \in WorkerFields
    /\ pc \in [Pass -> {"idle", "gate", "loop", "settle", "fault", "verify", "rebuild", "reverify"}]
    /\ ctx \in [Pass -> Locals]
    /\ \A p \in Pass : Serving(p) => ctx[p].cur \in Key

\* Typed, in its parts.
LEMMA TypedParts ==
    Typed <=> Registry /\ store \in [Key -> Fault] /\ World /\ Calls
<1>1. w \in WorkerFields => w.active \subseteq Key
  BY DEF WorkerFields
<1>. QED
  BY <1>1 DEF Typed, TypeOK, Registry, World, Calls

\* No fault is a fault record.
LEMMA NoFaultType == NoFault \in Fault /\ NoFault.status = "none" /\ NoFault.count = 0
  BY DEF NoFault, Fault

\* What a mark on an open fault does; what a clear does.
Marked(k) ==
    \E f \in Fault :
        /\ f.status # "none" /\ Open(k)
        /\ mem' = [mem EXCEPT ![k] = f]
        /\ chain' = [chain EXCEPT ![k] = Append(@, f)]
        /\ order' = order

Cleared(k) ==
    /\ mem' = [mem EXCEPT ![k] = NoFault]
    /\ chain' = [chain EXCEPT ![k] = Append(@, NoFault)]
    /\ order' = Only(order, Key \ {k})

\* mark changes an open fault and queues a write, or changes nothing.
LEMMA MarkShape ==
    ASSUME NEW k \in Key, NEW f \in Fault, f.status # "none", mark(k, f)
    PROVE  Marked(k) \/ UNCHANGED registry
  BY DEF mark, enqueuePersist, Marked

\* So do the three marks of RemediationService.
LEMMA MarksShape ==
    ASSUME Registry, NEW k \in Key, NEW r \in Reason,
           markRepairAttempted(k) \/ markRepairFailed(k) \/ markRepairBlocked(k, r)
    PROVE  Marked(k) \/ UNCHANGED registry
<1>1. PICK m : m = mem[k]
  OBVIOUS
<1>2. m \in Fault
  BY <1>1 DEF Registry
<1>3. /\ [m EXCEPT !.status = "pending", !.reason = "none", !.due = FALSE] \in Fault
      /\ [m EXCEPT !.status = "pending", !.reason = "none", !.due = FALSE].status # "none"
      /\ [m EXCEPT !.status = "blocked", !.reason = r, !.due = FALSE] \in Fault
      /\ [m EXCEPT !.status = "blocked", !.reason = r, !.due = FALSE].status # "none"
  BY <1>2 DEF Fault
<1>. QED
  BY <1>1, <1>3, MarkShape DEF markRepairAttempted, markRepairFailed,
      markRepairBlocked

\* clearFault removes the fault and queues the delete.
LEMMA ClearShape ==
    ASSUME NEW k \in Key, clearFault(k)
    PROVE  Cleared(k)
  BY DEF clearFault, enqueuePersist, Cleared

\* Both keep the types.
LEMMA RegistryType ==
    ASSUME Registry, NEW k \in Key, Marked(k) \/ Cleared(k) \/ UNCHANGED registry
    PROVE  Registry'
<1>1. CASE UNCHANGED registry
  BY <1>1 DEF Registry, registry
<1>2. CASE Marked(k)
  <2>1. PICK f \in Fault : /\ mem' = [mem EXCEPT ![k] = f]
                           /\ chain' = [chain EXCEPT ![k] = Append(@, f)]
                           /\ order' = order
    BY <1>2 DEF Marked
  <2>2. Append(chain[k], f) \in Seq(Fault)
    BY DEF Registry
  <2>. QED
    BY <2>1, <2>2 DEF Registry
<1>3. CASE Cleared(k)
  <2>1. Append(chain[k], NoFault) \in Seq(Fault)
    BY NoFaultType DEF Registry
  <2>2. order' \in Seq(Key)
    BY <1>3, OnlySelects DEF Cleared, Registry
  <2>. QED
    BY <1>3, <2>1, <2>2, NoFaultType DEF Cleared, Registry
<1>. QED
  BY <1>1, <1>2, <1>3

\* The end of a wait for a write, or of no wait.
Settled(p, l, c) ==
    \E d \in Locals, q \in {"settle", l} :
        /\ pc' = [pc EXCEPT ![p] = q] /\ ctx' = [ctx EXCEPT ![p] = d]
        /\ d.todo = c.todo /\ d.cur = c.cur /\ d.clean = c.clean
        /\ q = "settle" => d.then = l

\* A repair that awaits its write waits for it, or goes on; its list and its fault stay.
LEMMA SettleShape ==
    ASSUME Registry, Registry', NEW p \in Pass, NEW l \in {"loop", "verify"}, NEW c \in Locals,
           c.cur \in Key, Settle(p, l, c)
    PROVE  Settled(p, l, c)
<1>1. PICK n : n = Len(chain'[c.cur])
  OBVIOUS
<1>2. n \in Int
  BY <1>1 DEF Registry
<1>3. PICK d : d = [c EXCEPT !.ahead = n, !.then = l]
  OBVIOUS
<1>4. d \in Locals /\ d.todo = c.todo /\ d.cur = c.cur /\ d.clean = c.clean /\ d.then = l
  BY <1>2, <1>3 DEF Locals
<1>5. CASE chain' # chain
  BY <1>1, <1>3, <1>4, <1>5 DEF Settle, Settled
<1>6. CASE chain' = chain
  BY <1>6 DEF Settle, Settled
<1>. QED
  BY <1>5, <1>6

\* A call that has not started has nothing to do.
LEMMA IdleLocals ==
    /\ Idle \in Locals /\ Idle.todo = <<>> /\ Idle.clean = {} /\ Idle.then = "loop"
<1>1. <<>> \in Seq(Key)
  OBVIOUS
<1>. QED
  BY <1>1 DEF Idle, Locals

\* The schedule keeps the types, and never says that a pass runs.
LEMMA FieldsType ==
    ASSUME NEW u \in WorkerFields
    PROVE  /\ scheduleNow(u) \in WorkerFields /\ scheduleNow(u).running = u.running
           /\ scheduleBacklog(u) \in WorkerFields /\ scheduleBacklog(u).running = u.running
           /\ start(u) \in WorkerFields /\ start(u).running = u.running
           /\ stop(u) \in WorkerFields /\ stop(u).running = u.running
           /\ Stopped \in WorkerFields /\ ~Stopped.running
<1>1. scheduleNow(u) \in WorkerFields /\ scheduleNow(u).running = u.running
  BY DEF scheduleNow, WorkerFields
<1>2. scheduleBacklog(u) \in WorkerFields /\ scheduleBacklog(u).running = u.running
  BY DEF scheduleBacklog, WorkerFields
<1>3. start(u) \in WorkerFields /\ start(u).running = u.running
  <2>1. PICK s : s = [u EXCEPT !.started = TRUE, !.stopping = FALSE]
    OBVIOUS
  <2>2. s \in WorkerFields /\ s.running = u.running
    BY <2>1 DEF WorkerFields
  <2>3. scheduleNow(s) \in WorkerFields /\ scheduleNow(s).running = u.running
    BY <2>2 DEF scheduleNow, WorkerFields
  <2>. QED
    BY <2>1, <2>2, <2>3 DEF start
<1>4. stop(u) \in WorkerFields /\ stop(u).running = u.running
  BY DEF stop, WorkerFields
<1>5. Stopped \in WorkerFields /\ ~Stopped.running
  BY DEF Stopped, WorkerFields
<1>. QED
  BY <1>1, <1>2, <1>3, <1>4, <1>5

-----------------------------------------------------------------------------
\* What a step of repairFault() may do.
Served(p) ==
    LET k == ctx[p].cur IN
    /\ up /\ pc[p] \in {"fault", "verify", "rebuild", "reverify"}
    /\ UNCHANGED <<store, lost, row, off, ro, draining, frozen, applying, up>>
    /\ slice' \in [Key -> {"good", "bad"}] /\ errs' \subseteq Key /\ events' \in 0..MaxEvents
    /\ proved \subseteq proved' /\ proved' \subseteq Key
    /\ \/ EndPass(p, w) /\ UNCHANGED registry
       \/ \E l \in {"loop", "verify", "rebuild", "reverify"}, c \in Locals :
            /\ w' = w
            /\ c.todo = ctx[p].todo /\ c.cur = k
            /\ \A j \in c.clean : j \in ctx[p].clean \/ j \in proved' \cup draining
            /\ Settled(p, l, c)
            /\ \/ Marked(k) \/ UNCHANGED registry
               \/ /\ Cleared(k) /\ l = "loop"
                  /\ row[ObjectOf[k]] = "gone" \/ k \in off \/ k \in c.clean

\* A step that awaits no write.
LEMMA GoToSettled ==
    ASSUME NEW p \in Pass, NEW l, l # "settle", NEW c \in Locals, GoTo(p, l), ctx' = [ctx EXCEPT ![p] = c]
    PROVE  Settled(p, l, c)
  BY DEF GoTo, Settled

\* The budget of events.
LEMMA EventType ==
    ASSUME World, Event \/ UNCHANGED events
    PROVE  events' \in 0..MaxEvents
  BY DEF World, Event

\* The guards of repairFault().
LEMMA Fault1Served ==
    ASSUME Typed, NEW p \in Pass, Fault1(p)
    PROVE  Served(p)
<1>. DEFINE c == ctx[p]
            k == c.cur
<1>0. Registry /\ World /\ Calls
  BY TypedParts
<1>1. pc[p] = "fault" /\ up /\ c \in Locals /\ k \in Key
  BY <1>0 DEF Fault1, Calls, Serving
<1>2. UNCHANGED <<store, lost, world, frozen, applying, up, proved>> /\ (Event \/ UNCHANGED events)
  BY DEF Fault1
<1>3. /\ UNCHANGED <<store, lost, row, off, ro, draining, frozen, applying, up>>
      /\ slice' \in [Key -> {"good", "bad"}] /\ errs' \subseteq Key /\ events' \in 0..MaxEvents
      /\ proved \subseteq proved' /\ proved' \subseteq Key
  BY <1>0, <1>2, EventType DEF World, world
<1>4. \/ EndPass(p, w) /\ UNCHANGED registry
      \/ w' = w /\ GoTo(p, "loop") /\ UNCHANGED ctx /\ UNCHANGED registry
      \/ w' = w /\ clearFault(k) /\ Settle(p, "loop", c) /\ (row[ObjectOf[k]] = "gone" \/ k \in off)
      \/ \E r \in Reason : w' = w /\ markRepairBlocked(k, r) /\ Settle(p, "loop", c)
      \/ w' = w /\ markRepairAttempted(k) /\ Settle(p, "verify", c)
  <2>1. Verdict(k) = "clear" => row[ObjectOf[k]] = "gone" \/ k \in off
    BY DEF Verdict
  <2>2. "insufficient-slices" \in Reason
    BY DEF Reason
  <2>. QED
    BY <2>1, <2>2 DEF Fault1, Cancelled
<1>5. CASE EndPass(p, w) /\ UNCHANGED registry
  BY <1>1, <1>3, <1>5 DEF Served
<1>6. CASE w' = w /\ GoTo(p, "loop") /\ UNCHANGED ctx /\ UNCHANGED registry
  <2>1. ctx' = [ctx EXCEPT ![p] = c]
    BY <1>0, <1>6 DEF Calls
  <2>2. Settled(p, "loop", c)
    BY <1>1, <1>6, <2>1, GoToSettled
  <2>. QED
    BY <1>1, <1>3, <1>6, <2>2 DEF Served
<1>7. CASE w' = w /\ clearFault(k) /\ Settle(p, "loop", c) /\ (row[ObjectOf[k]] = "gone" \/ k \in off)
  <2>1. Cleared(k) /\ Registry'
    BY <1>0, <1>1, <1>7, ClearShape, RegistryType
  <2>2. Settled(p, "loop", c)
    BY <1>0, <1>1, <1>7, <2>1, SettleShape
  <2>. QED
    BY <1>1, <1>3, <1>7, <2>1, <2>2 DEF Served
<1>8. CASE \E r \in Reason : w' = w /\ markRepairBlocked(k, r) /\ Settle(p, "loop", c)
  <2>1. Marked(k) \/ UNCHANGED registry
    BY <1>0, <1>1, <1>8, MarksShape
  <2>2. Settled(p, "loop", c)
    BY <1>0, <1>1, <1>8, <2>1, SettleShape, RegistryType
  <2>. QED
    BY <1>1, <1>3, <1>8, <2>1, <2>2 DEF Served
<1>9. CASE w' = w /\ markRepairAttempted(k) /\ Settle(p, "verify", c)
  <2>0. "unrecoverable" \in Reason
    BY DEF Reason
  <2>1. Marked(k) \/ UNCHANGED registry
    BY <1>0, <1>1, <1>9, <2>0, MarksShape
  <2>2. Settled(p, "verify", c)
    BY <1>0, <1>1, <1>9, <2>1, SettleShape, RegistryType
  <2>. QED
    BY <1>1, <1>3, <1>9, <2>1, <2>2 DEF Served
<1>. QED
  BY <1>4, <1>5, <1>6, <1>7, <1>8, <1>9

\* The locals behind a verification.
Seen(c, o) ==
    [c EXCEPT !.checked = @ \cup {o}, !.clean = (@ \ KeysOf(o)) \cup VerifyOk(o)]

\* The locals after a verification: what it read clean.
LEMMA SeenLocals ==
    ASSUME NEW c \in Locals, NEW o \in Object, verify(o)
    PROVE  /\ Seen(c, o) \in Locals /\ Seen(c, o).todo = c.todo /\ Seen(c, o).cur = c.cur
           /\ \A j \in Seen(c, o).clean : j \in c.clean \/ j \in proved' \cup draining
<1>. DEFINE d == Seen(c, o)
<1>1. /\ d.todo = c.todo /\ d.cur = c.cur
      /\ d.clean = (c.clean \ KeysOf(o)) \cup VerifyOk(o) /\ d.checked = c.checked \cup {o}
      /\ d \in Locals
  BY DEF Seen, Locals, VerifyOk, KeysOf
<1>2. \A j \in VerifyOk(o) : j \in proved' \cup draining
  BY DEF VerifyOk, verify, KeysOf
<1>. QED
  BY <1>1, <1>2

\* A verification only adds to what is proved.
LEMMA VerifyType ==
    ASSUME World, NEW o \in Object, verify(o) \/ VerifyRefused(o) \/ UNCHANGED <<errs, proved>>
    PROVE  errs' \subseteq Key /\ proved \subseteq proved' /\ proved' \subseteq Key
  BY DEF World, verify, VerifyRefused, KeysOf, VerifyOk

\* The first verification of an object.
LEMMA VerifyServed ==
    ASSUME Typed, NEW p \in Pass, Verify(p)
    PROVE  Served(p)
<1>. DEFINE c == ctx[p]
            k == c.cur
            o == ObjectOf[k]
<1>0. Registry /\ World /\ Calls
  BY TypedParts
<1>1. pc[p] = "verify" /\ up /\ c \in Locals /\ k \in Key /\ o \in Object
  BY <1>0 DEF Verify, Calls, Serving
<1>2. /\ UNCHANGED <<store, lost, slice, row, off, ro, draining, frozen, applying, up>>
      /\ UNCHANGED events
      /\ verify(o) \/ VerifyRefused(o) \/ UNCHANGED <<errs, proved>>
  BY DEF Verify
<1>3. /\ UNCHANGED <<store, lost, row, off, ro, draining, frozen, applying, up>>
      /\ slice' \in [Key -> {"good", "bad"}] /\ errs' \subseteq Key /\ events' \in 0..MaxEvents
      /\ proved \subseteq proved' /\ proved' \subseteq Key
  BY <1>0, <1>1, <1>2, VerifyType DEF World
<1>4. \/ EndPass(p, w) /\ UNCHANGED registry
      \/ markRepairFailed(k) /\ Settle(p, "loop", c) /\ w' = w
      \/ \E d \in {c, Seen(c, o)} :
            /\ w' = w
            /\ d = c \/ verify(o)
            /\ \/ k \in d.clean /\ clearFault(k) /\ Settle(p, "loop", d)
               \/ GoTo(p, "rebuild") /\ ctx' = [ctx EXCEPT ![p] = d] /\ UNCHANGED registry
  BY DEF Verify, Cancelled, Seen
<1>5. CASE EndPass(p, w) /\ UNCHANGED registry
  BY <1>1, <1>3, <1>5 DEF Served
<1>6. CASE markRepairFailed(k) /\ Settle(p, "loop", c) /\ w' = w
  <2>0. "unrecoverable" \in Reason
    BY DEF Reason
  <2>1. Marked(k) \/ UNCHANGED registry
    BY <1>0, <1>1, <1>6, <2>0, MarksShape
  <2>2. Settled(p, "loop", c)
    BY <1>0, <1>1, <1>6, <2>1, SettleShape, RegistryType
  <2>. QED
    BY <1>1, <1>3, <1>6, <2>1, <2>2 DEF Served
<1>7. ASSUME NEW d, d = c \/ (/\ verify(o)
                              /\ d = Seen(c, o)),
             w' = w,
             \/ k \in d.clean /\ clearFault(k) /\ Settle(p, "loop", d)
             \/ GoTo(p, "rebuild") /\ ctx' = [ctx EXCEPT ![p] = d] /\ UNCHANGED registry
      PROVE  Served(p)
  <2>1. /\ d \in Locals /\ d.todo = c.todo /\ d.cur = c.cur
        /\ \A j \in d.clean : j \in c.clean \/ j \in proved' \cup draining
    BY <1>0, <1>1, <1>7, SeenLocals
  <2>2. CASE k \in d.clean /\ clearFault(k) /\ Settle(p, "loop", d)
    <3>1. Cleared(k) /\ Registry'
      BY <1>0, <1>1, <2>2, ClearShape, RegistryType
    <3>2. Settled(p, "loop", d)
      BY <1>0, <1>1, <2>1, <2>2, <3>1, SettleShape
    <3>. QED
      BY <1>1, <1>3, <1>7, <2>1, <2>2, <3>1, <3>2 DEF Served
  <2>3. CASE GoTo(p, "rebuild") /\ ctx' = [ctx EXCEPT ![p] = d] /\ UNCHANGED registry
    <3>1. Settled(p, "rebuild", d)
      BY <2>1, <2>3, GoToSettled
    <3>. QED
      BY <1>1, <1>3, <1>7, <2>1, <2>3, <3>1 DEF Served
  <2>. QED
    BY <1>7, <2>2, <2>3
<1>. QED
  BY <1>4, <1>5, <1>6, <1>7

\* The verification after the rebuild.
LEMMA ReverifyServed ==
    ASSUME Typed, NEW p \in Pass, Reverify(p)
    PROVE  Served(p)
<1>. DEFINE c == ctx[p]
            k == c.cur
            o == ObjectOf[k]
<1>0. Registry /\ World /\ Calls
  BY TypedParts
<1>1. pc[p] = "reverify" /\ up /\ c \in Locals /\ k \in Key /\ o \in Object
  BY <1>0 DEF Reverify, Calls, Serving
<1>2. /\ UNCHANGED <<store, lost, slice, row, off, ro, draining, frozen, applying, up, events>>
      /\ verify(o) \/ VerifyRefused(o) \/ UNCHANGED <<errs, proved>>
  BY DEF Reverify
<1>3. /\ UNCHANGED <<store, lost, row, off, ro, draining, frozen, applying, up>>
      /\ slice' \in [Key -> {"good", "bad"}] /\ errs' \subseteq Key /\ events' \in 0..MaxEvents
      /\ proved \subseteq proved' /\ proved' \subseteq Key
  BY <1>0, <1>1, <1>2, VerifyType DEF World
<1>4. PICK d : d = Seen(c, o)
  OBVIOUS
<1>5. \/ EndPass(p, w) /\ UNCHANGED registry
      \/ verify(o) /\ k \in d.clean /\ clearFault(k) /\ Settle(p, "loop", d) /\ w' = w
      \/ verify(o) /\ markRepairFailed(k) /\ Settle(p, "loop", d) /\ w' = w
      \/ markRepairFailed(k) /\ Settle(p, "loop", c) /\ w' = w
  BY <1>4 DEF Reverify, Cancelled, Seen
<1>6. "unrecoverable" \in Reason
  BY DEF Reason
<1>7. CASE EndPass(p, w) /\ UNCHANGED registry
  BY <1>1, <1>3, <1>7 DEF Served
<1>8. CASE verify(o) /\ k \in d.clean /\ clearFault(k) /\ Settle(p, "loop", d) /\ w' = w
  <2>1. /\ d \in Locals /\ d.todo = c.todo /\ d.cur = c.cur
        /\ \A j \in d.clean : j \in c.clean \/ j \in proved' \cup draining
    BY <1>0, <1>1, <1>4, <1>8, SeenLocals
  <2>2. Cleared(k) /\ Registry'
    BY <1>0, <1>1, <1>8, ClearShape, RegistryType
  <2>3. Settled(p, "loop", d)
    BY <1>0, <1>1, <1>8, <2>1, <2>2, SettleShape
  <2>. QED
    BY <1>1, <1>3, <1>8, <2>1, <2>2, <2>3 DEF Served
<1>9. CASE verify(o) /\ markRepairFailed(k) /\ Settle(p, "loop", d) /\ w' = w
  <2>1. /\ d \in Locals /\ d.todo = c.todo /\ d.cur = c.cur
        /\ \A j \in d.clean : j \in c.clean \/ j \in proved' \cup draining
    BY <1>0, <1>1, <1>4, <1>9, SeenLocals
  <2>2. Marked(k) \/ UNCHANGED registry
    BY <1>0, <1>1, <1>6, <1>9, MarksShape
  <2>3. Settled(p, "loop", d)
    BY <1>0, <1>1, <1>9, <2>1, <2>2, SettleShape, RegistryType
  <2>. QED
    BY <1>1, <1>3, <1>9, <2>1, <2>2, <2>3 DEF Served
<1>10. CASE markRepairFailed(k) /\ Settle(p, "loop", c) /\ w' = w
  <2>1. Marked(k) \/ UNCHANGED registry
    BY <1>0, <1>1, <1>6, <1>10, MarksShape
  <2>2. Settled(p, "loop", c)
    BY <1>0, <1>1, <1>10, <2>1, SettleShape, RegistryType
  <2>. QED
    BY <1>1, <1>3, <1>10, <2>1, <2>2 DEF Served
<1>. QED
  BY <1>5, <1>7, <1>8, <1>9, <1>10

\* The rebuild.
LEMMA RebuildServed ==
    ASSUME Typed, NEW p \in Pass, Rebuild(p)
    PROVE  Served(p)
<1>. DEFINE c == ctx[p]
            k == c.cur
            o == ObjectOf[k]
<1>0. Registry /\ World /\ Calls
  BY TypedParts
<1>1. pc[p] = "rebuild" /\ up /\ c \in Locals /\ k \in Key /\ o \in Object
  BY <1>0 DEF Rebuild, Calls, Serving
<1>2. /\ UNCHANGED <<store, lost, row, errs, off, ro, draining, frozen, applying, up, proved>>
      /\ Event \/ UNCHANGED events
      /\ slice' = [slice EXCEPT ![k] = "good"] \/ UNCHANGED slice
  BY DEF Rebuild
<1>3. /\ UNCHANGED <<store, lost, row, off, ro, draining, frozen, applying, up>>
      /\ slice' \in [Key -> {"good", "bad"}] /\ errs' \subseteq Key /\ events' \in 0..MaxEvents
      /\ proved \subseteq proved' /\ proved' \subseteq Key
  BY <1>0, <1>1, <1>2, EventType DEF World
<1>4. PICK d : d = [c EXCEPT !.insufficient = @ \cup {o}]
  OBVIOUS
<1>5. d \in Locals /\ d.todo = c.todo /\ d.cur = c.cur /\ d.clean = c.clean
  BY <1>1, <1>4 DEF Locals
<1>6. \/ EndPass(p, w) /\ UNCHANGED registry
      \/ GoTo(p, "reverify") /\ UNCHANGED registry /\ UNCHANGED ctx /\ w' = w
      \/ \E r \in Reason, b \in {c, d} : markRepairBlocked(k, r) /\ Settle(p, "loop", b) /\ w' = w
      \/ markRepairFailed(k) /\ Settle(p, "loop", c) /\ w' = w
  <2>1. {"target-unwritable", "insufficient-slices", "reconstruction-mismatch"} \subseteq Reason
    BY DEF Reason
  <2>. QED
    BY <1>4, <2>1 DEF Rebuild, Cancelled
<1>7. "unrecoverable" \in Reason
  BY DEF Reason
<1>8. CASE EndPass(p, w) /\ UNCHANGED registry
  BY <1>1, <1>3, <1>8 DEF Served
<1>9. CASE GoTo(p, "reverify") /\ UNCHANGED registry /\ UNCHANGED ctx /\ w' = w
  <2>1. ctx' = [ctx EXCEPT ![p] = c]
    BY <1>0, <1>9 DEF Calls
  <2>2. Settled(p, "reverify", c)
    BY <1>1, <1>9, <2>1, GoToSettled
  <2>. QED
    BY <1>1, <1>3, <1>9, <2>2 DEF Served
<1>10. ASSUME NEW r \in Reason, NEW b \in {c, d}, w' = w, Settle(p, "loop", b),
              markRepairBlocked(k, r) \/ markRepairFailed(k)
       PROVE  Served(p)
  <2>1. Marked(k) \/ UNCHANGED registry
    BY <1>0, <1>1, <1>10, MarksShape
  <2>2. b \in Locals /\ b.todo = c.todo /\ b.cur = c.cur /\ b.clean = c.clean
    BY <1>1, <1>5
  <2>3. Settled(p, "loop", b)
    BY <1>0, <1>1, <1>10, <2>1, <2>2, SettleShape, RegistryType
  <2>. QED
    BY <1>1, <1>3, <1>10, <2>1, <2>2, <2>3 DEF Served
<1>. QED
  BY <1>6, <1>7, <1>8, <1>9, <1>10

-----------------------------------------------------------------------------
\* What the schedule and the loop of a pass may do.
Scheduled(p) ==
    /\ up /\ UNCHANGED <<registry, store, lost, world, frozen, applying, up, proved, events>>
    /\ w' \in WorkerFields
    /\ \/ \E l \in {"idle", "gate"} :
             /\ pc[p] \in {"idle", "gate"} /\ pc' = [pc EXCEPT ![p] = l] /\ UNCHANGED ctx
             /\ w'.running = w.running
       \/ /\ pc[p] = "loop" \/ (pc[p] = "gate" /\ ~w.running)
          /\ pc' = [pc EXCEPT ![p] = "loop"] /\ w'.running
          /\ \E c \in Locals : \E S :
                ctx' = [ctx EXCEPT ![p] = c] /\ c.todo = Only(order, S) /\ c.clean = {}
       \/ /\ pc[p] = "loop" /\ ~w'.running
          /\ pc' = [pc EXCEPT ![p] = "idle"] /\ ctx' = [ctx EXCEPT ![p] = Idle]
       \/ /\ pc[p] = "loop" /\ pc' = [pc EXCEPT ![p] = "fault"] /\ w' = w
          /\ ctx[p].todo # <<>>
          /\ \E c \in Locals :
                /\ ctx' = [ctx EXCEPT ![p] = c] /\ c.clean = ctx[p].clean
                /\ c.cur = Head(ctx[p].todo) /\ c.todo = Tail(ctx[p].todo)

\* A pass takes from the Map what it is to attempt.
LEMMA BeginShape ==
    ASSUME Typed, NEW p \in Pass, NEW u \in WorkerFields, BeginPass(p, u)
    PROVE  /\ w' \in WorkerFields /\ w'.running
           /\ \E c \in Locals : \E S :
                 ctx' = [ctx EXCEPT ![p] = c] /\ c.todo = Only(order, S) /\ c.clean = {}
<1>0. Registry
  BY TypedParts
<1>1. PICK S : S = {k \in Key : shouldAttemptFault(k)}
  OBVIOUS
<1>2. PICK H : H = {k \in Key : /\ mem[k].status = "blocked"
                                /\ mem[k].reason = "insufficient-slices"
                                /\ ~shouldAttemptFault(k)}
  OBVIOUS
<1>3. PICK t : t = Only(order, S)
  OBVIOUS
<1>4. t \in Seq(Key)
  BY <1>0, <1>3, OnlySelects DEF Registry
<1>5. {t[i] : i \in DOMAIN t} \subseteq Key
  BY <1>4
<1>6. {ObjectOf[k] : k \in H} \subseteq Object
  BY <1>2
<1>7. w' = [u EXCEPT !.running = TRUE, !.rerun = FALSE, !.active = {t[i] : i \in DOMAIN t}]
  BY <1>1, <1>3 DEF BeginPass
<1>8. PICK c : c = [Idle EXCEPT !.todo = t, !.insufficient = {ObjectOf[k] : k \in H}]
  OBVIOUS
<1>9. ctx' = [ctx EXCEPT ![p] = c]
  BY <1>1, <1>2, <1>3, <1>8 DEF BeginPass
<1>10. c \in Locals /\ c.todo = t /\ c.clean = {}
  BY <1>4, <1>6, <1>8, IdleLocals DEF Locals
<1>11. w' \in WorkerFields /\ w'.running
  BY <1>5, <1>7 DEF WorkerFields
<1>. QED
  BY <1>3, <1>9, <1>10, <1>11

\* The end of a pass.
LEMMA EndShape ==
    ASSUME NEW p \in Pass, NEW u \in WorkerFields, EndPass(p, u)
    PROVE  /\ w' \in WorkerFields /\ ~w'.running
           /\ pc' = [pc EXCEPT ![p] = "idle"] /\ ctx' = [ctx EXCEPT ![p] = Idle]
  BY DEF EndPass, WorkerFields

\* The loop of a pass: the next fault, or the end.
LEMMA LoopScheduled ==
    ASSUME Typed, NEW p \in Pass, Loop(p)
    PROVE  Scheduled(p)
<1>. DEFINE c == ctx[p]
<1>0. Registry /\ World /\ Calls
  BY TypedParts
<1>1. /\ up /\ pc[p] = "loop" /\ c \in Locals /\ w \in WorkerFields
      /\ UNCHANGED <<registry, store, lost, world, frozen, applying, up, proved, events>>
  BY <1>0 DEF Loop, Calls
<1>2. \/ \E u \in WorkerFields : EndPass(p, u)
      \/ /\ c.todo # <<>> /\ pc' = [pc EXCEPT ![p] = "fault"] /\ w' = w
         /\ ctx' = [ctx EXCEPT ![p].cur = Head(c.todo), ![p].todo = Tail(c.todo), ![p].visited = @ + 1]
      \/ BeginPass(p, w) /\ UNCHANGED pc
  BY <1>1, FieldsType DEF Loop
<1>3. CASE \E u \in WorkerFields : EndPass(p, u)
  BY <1>1, <1>3, EndShape DEF Scheduled
<1>4. CASE /\ c.todo # <<>> /\ pc' = [pc EXCEPT ![p] = "fault"] /\ w' = w
           /\ ctx' = [ctx EXCEPT ![p].cur = Head(c.todo), ![p].todo = Tail(c.todo), ![p].visited = @ + 1]
  <2>1. PICK t : t = c.todo
    OBVIOUS
  <2>2. t \in Seq(Key) /\ t # <<>> /\ c.visited \in Nat
    BY <1>1, <1>4, <2>1 DEF Locals
  <2>3. Head(t) \in Key /\ Tail(t) \in Seq(Key)
    BY <2>2
  <2>4. PICK d : d = [c EXCEPT !.cur = Head(t), !.todo = Tail(t), !.visited = @ + 1]
    OBVIOUS
  <2>5. ctx' = [ctx EXCEPT ![p] = d]
    <3>1. ctx' = [ctx EXCEPT ![p] = [c EXCEPT !.cur = Head(c.todo), !.todo = Tail(c.todo),
                                              !.visited = @ + 1]]
      <4>1. ctx \in [Pass -> Locals] /\ p \in Pass /\ c = ctx[p]
        BY <1>0 DEF Calls
      <4>. QED
        BY <4>1, <1>4 DEF Locals
    <3>. QED
      BY <2>1, <2>4, <3>1
  <2>6. d \in Locals /\ d.cur = Head(t) /\ d.todo = Tail(t) /\ d.clean = c.clean
    <3>1. PICK h, r : h = Head(t) /\ r = Tail(t)
      OBVIOUS
    <3>2. h \in Key /\ r \in Seq(Key)
      BY <2>3, <3>1
    <3>6. PICK n : n = c.visited + 1
      OBVIOUS
    <3>7. n \in Nat
      BY <2>2, <3>6
    <3>3. d = [c EXCEPT !.cur = h, !.todo = r, !.visited = n]
      BY <2>4, <3>1, <3>6
    <3>4. c \in Locals
      BY <1>1
    <3>. HIDE DEF c
    <3>5. d \in Locals /\ d.cur = h /\ d.todo = r /\ d.clean = c.clean
      BY <3>2, <3>3, <3>4, <3>7 DEF Locals
    <3>. QED
      BY <3>1, <3>5
  <2>. QED
    BY <1>1, <1>4, <2>1, <2>5, <2>6 DEF Scheduled
<1>5. CASE BeginPass(p, w) /\ UNCHANGED pc
  <2>1. pc' = [pc EXCEPT ![p] = "loop"]
    BY <1>0, <1>1, <1>5 DEF Calls
  <2>. QED
    BY <1>1, <1>5, <2>1, BeginShape DEF Scheduled
<1>. QED
  BY <1>2, <1>3, <1>4, <1>5

\* The freeze gate and the timers.
LEMMA CallScheduled ==
    ASSUME Typed, NEW p \in Pass, Gate(p) \/ Immediate(p) \/ BacklogTimer(p)
    PROVE  Scheduled(p)
<1>0. w \in WorkerFields
  BY DEF Typed
<1>1. CASE Immediate(p) \/ BacklogTimer(p)
  <2>1. w' \in WorkerFields /\ w'.running = w.running
    BY <1>0, <1>1 DEF Immediate, BacklogTimer, WorkerFields
  <2>. QED
    BY <1>1, <2>1 DEF Immediate, BacklogTimer, Enter, Scheduled
<1>2. CASE Gate(p)
  <2>1. CASE pc' = [pc EXCEPT ![p] = "idle"] /\ UNCHANGED ctx /\ (w' = w \/ w' = [w EXCEPT !.rerun = TRUE])
    <3>1. w' \in WorkerFields /\ w'.running = w.running
      BY <1>0, <2>1 DEF WorkerFields
    <3>. QED
      BY <1>2, <2>1, <3>1 DEF Gate, Scheduled
  <2>2. CASE ~w.running /\ BeginPass(p, w) /\ pc' = [pc EXCEPT ![p] = "loop"]
    BY <1>0, <1>2, <2>2, BeginShape DEF Gate, Scheduled
  <2>. QED
    BY <1>2, <2>1, <2>2 DEF Gate
<1>. QED
  BY <1>1, <1>2

-----------------------------------------------------------------------------
\* What the world, the operators and the poll may do.
Outside ==
    /\ UNCHANGED <<registry, store, lost, pc, ctx, up, proved>>
    /\ World' /\ w' \in WorkerFields /\ w'.running = w.running
    /\ ~up => w' = w
    /\ draining \subseteq draining'

\* Rot, moves, flags, the row, the poll and the freeze leave the registry and the calls alone.
LEMMA OutsideShape ==
    ASSUME Typed,
           (\E k \in Key : Rot(k) \/ Relocated(k) \/ Flag(k)) \/ (\E o \in Object : RowChanges(o))
               \/ Poll \/ FreezeSet \/ FreezeApply
    PROVE  Outside
<1>0. World /\ w \in WorkerFields
  BY TypedParts DEF Calls
<1>1. /\ scheduleNow(w) \in WorkerFields /\ scheduleNow(w).running = w.running
      /\ start(w) \in WorkerFields /\ start(w).running = w.running
      /\ stop(w) \in WorkerFields /\ stop(w).running = w.running
  BY <1>0, FieldsType
<1>2. CASE \E k \in Key : Rot(k) \/ Relocated(k)
  <2>1. events' \in 0..MaxEvents
    BY <1>0, <1>2, EventType DEF Rot, Relocated
  <2>. QED
    BY <1>0, <1>2, <2>1 DEF Rot, Relocated, Outside, World
<1>3. CASE \E k \in Key : Flag(k)
  <2>1. events' \in 0..MaxEvents
    BY <1>0, <1>3, EventType DEF Flag
  <2>2. /\ UNCHANGED <<registry, store, lost, pc, ctx, slice, row, errs, off, frozen, applying, up, proved>>
        /\ w' = w \/ (up /\ w' = scheduleNow(w))
        /\ ro' \subseteq Key /\ draining' \subseteq Key /\ draining \subseteq draining'
    BY <1>0, <1>3 DEF Flag, World
  <2>. QED
    BY <1>0, <1>1, <2>1, <2>2 DEF Outside, World
<1>4. CASE \E o \in Object : RowChanges(o)
  <2>1. events' \in 0..MaxEvents
    BY <1>0, <1>4, EventType DEF RowChanges
  <2>2. row' \in [Object -> {"live", "dead", "gone"}]
    BY <1>0, <1>4 DEF RowChanges, World
  <2>. QED
    BY <1>0, <1>4, <2>1, <2>2 DEF RowChanges, Outside, World
<1>5. CASE Poll \/ FreezeApply
  <2>1. UNCHANGED <<registry, store, lost, pc, ctx, world, frozen, up, proved, events>> /\ up
        /\ applying' \in BOOLEAN
    BY <1>0, <1>5 DEF Poll, FreezeApply, World
  <2>2. w' \in WorkerFields /\ w'.running = w.running
    BY <1>1, <1>5 DEF Poll, FreezeApply
  <2>. QED
    BY <1>0, <2>1, <2>2 DEF Outside, World, world
<1>6. CASE FreezeSet
  <2>1. events' \in 0..MaxEvents
    BY <1>0, <1>6, EventType DEF FreezeSet
  <2>. QED
    BY <1>0, <1>6, <2>1 DEF FreezeSet, Outside, World, world
<1>. QED
  BY <1>2, <1>3, <1>4, <1>5, <1>6

\* repairFault() keeps the types.
LEMMA ServedTyped ==
    ASSUME Typed, NEW p \in Pass, Served(p)
    PROVE  Typed'
<1>. DEFINE k == ctx[p].cur
<1>0. Registry /\ World /\ Calls /\ k \in Key
  BY TypedParts DEF Served, Calls, Serving
<1>1. Registry'
  BY <1>0, RegistryType DEF Served
<1>2. World'
  BY <1>0 DEF Served, World
<1>3. Calls'
  <2>1. CASE EndPass(p, w)
    <3>1. w' \in WorkerFields /\ pc' = [pc EXCEPT ![p] = "idle"] /\ ctx' = [ctx EXCEPT ![p] = Idle]
      BY <1>0, <2>1, EndShape DEF Calls
    <3>. QED
      BY <1>0, <3>1, IdleLocals DEF Calls, Serving
  <2>2. CASE \E l \in {"loop", "verify", "rebuild", "reverify"}, c \in Locals :
                w' = w /\ c.cur = k /\ Settled(p, l, c)
    <3>1. PICK l \in {"loop", "verify", "rebuild", "reverify"}, c \in Locals :
                w' = w /\ c.cur = k /\ Settled(p, l, c)
      BY <2>2
    <3>2. PICK d \in Locals, q \in {"settle", l} :
              pc' = [pc EXCEPT ![p] = q] /\ ctx' = [ctx EXCEPT ![p] = d] /\ d.cur = k
      BY <3>1 DEF Settled
    <3>. QED
      BY <1>0, <3>1, <3>2 DEF Calls, Serving
  <2>. QED
    BY <2>1, <2>2 DEF Served
<1>4. (store \in [Key -> Fault])'
  BY TypedParts DEF Served
<1>5. (Registry /\ store \in [Key -> Fault] /\ World /\ Calls => Typed)'
  BY TypedParts, PTL
<1>. QED
  BY <1>1, <1>2, <1>3, <1>4, <1>5

\* The schedule keeps the types.
LEMMA ScheduledTyped ==
    ASSUME Typed, NEW p \in Pass, Scheduled(p)
    PROVE  Typed'
<1>0. Registry /\ World /\ Calls
  BY TypedParts
<1>1. Registry' /\ World' /\ (store \in [Key -> Fault])'
  BY <1>0, TypedParts DEF Scheduled, Registry, World, registry, world
<1>2. w' \in WorkerFields
  BY DEF Scheduled
<1>3. /\ pc' \in [Pass -> {"idle", "gate", "loop", "settle", "fault", "verify", "rebuild", "reverify"}]
      /\ ctx' \in [Pass -> Locals]
  BY <1>0, IdleLocals DEF Scheduled, Calls
<1>4. ASSUME NEW q \in Pass, Serving(q)' PROVE ctx'[q].cur \in Key
  <2>1. CASE q # p
    BY <1>0, <1>4, <2>1 DEF Scheduled, Calls, Serving
  <2>2. CASE q = p
    <3>1. /\ pc[p] = "loop" /\ ctx[p].todo # <<>> /\ ctx'[p].cur = Head(ctx[p].todo)
      BY <1>0, <1>4, <2>2 DEF Scheduled, Calls, Serving
    <3>2. ctx[p].todo \in Seq(Key)
      BY <1>0 DEF Calls, Locals
    <3>3. Head(ctx[p].todo) \in Key
      BY <3>1, <3>2
    <3>. QED
      BY <2>2, <3>1, <3>3
  <2>. QED
    BY <2>1, <2>2
<1>5. Calls'
  BY <1>2, <1>3, <1>4 DEF Calls
<1>6. (Registry /\ store \in [Key -> Fault] /\ World /\ Calls => Typed)'
  BY TypedParts, PTL
<1>. QED
  BY <1>1, <1>5, <1>6

\* The world keeps the types.
LEMMA OutsideTyped ==
    ASSUME Typed, Outside
    PROVE  Typed'
<1>0. Registry /\ World /\ Calls /\ store \in [Key -> Fault]
  BY TypedParts
<1>1. (Registry /\ World /\ Calls /\ store \in [Key -> Fault])'
  BY <1>0 DEF Outside, Registry, Calls, registry, Serving
<1>2. (Registry /\ store \in [Key -> Fault] /\ World /\ Calls => Typed)'
  BY TypedParts, PTL
<1>. QED
  BY <1>1, <1>2

\* A report: the fault counts one more, or is new.
LEMMA ReportShape ==
    ASSUME Typed, NEW k \in Key, Report(k)
    PROVE  /\ up /\ UNCHANGED <<store, lost, pc, ctx, world, frozen, applying, up, events>>
           /\ w' \in WorkerFields /\ w'.running = w.running
           /\ chain' = [chain EXCEPT ![k] = Append(@, mem'[k])]
           /\ \E f \in Fault : f.status # "none" /\ mem' = [mem EXCEPT ![k] = f]
           /\ \/ Open(k) /\ UNCHANGED <<order, proved>>
              \/ ~Open(k) /\ order' = Append(order, k) /\ proved' = proved \ {k}
<1>0. Registry /\ w \in WorkerFields
  BY TypedParts DEF Calls
<1>1. w' \in WorkerFields /\ w'.running = w.running
  BY <1>0, FieldsType DEF Report
<1>2. PICK m : m = mem[k]
  OBVIOUS
<1>3. m \in Fault /\ m.count < MaxReports /\ m.count \in Nat
  BY <1>0, <1>2 DEF Registry, Report, Fault
<1>4. PICK n : n = m.count + 1
  OBVIOUS
<1>5. n \in 0..MaxReports /\ 1 \in 0..MaxReports
  BY <1>3, <1>4
<1>6. CASE Open(k)
  <2>1. PICK f : f = [m EXCEPT !.count = n]
    OBVIOUS
  <2>2. f \in Fault /\ f.status = m.status
    BY <1>3, <1>5, <2>1 DEF Fault
  <2>3. mem' = [mem EXCEPT ![k] = f] /\ UNCHANGED <<order, proved>>
    <3>1. mem' = [mem EXCEPT ![k].count = @ + 1] /\ UNCHANGED <<order, proved>>
      BY <1>6 DEF Report, record
    <3>. QED
      BY <1>2, <1>4, <2>1, <3>1
  <2>. QED
    BY <1>1, <1>2, <1>6, <2>2, <2>3 DEF Report, enqueuePersist, Open
<1>7. CASE ~Open(k)
  <2>1. PICK f : f = [NoFault EXCEPT !.status = "pending", !.count = 1]
    OBVIOUS
  <2>2. f \in Fault /\ f.status = "pending"
    BY <1>5, <2>1 DEF Fault, NoFault
  <2>3. mem' = [mem EXCEPT ![k] = f] /\ order' = Append(order, k) /\ proved' = proved \ {k}
    BY <1>7, <2>1 DEF Report, record
  <2>. QED
    BY <1>1, <1>7, <2>2, <2>3 DEF Report, enqueuePersist
<1>. QED
  BY <1>6, <1>7

\* A report keeps the types.
LEMMA ReportTyped ==
    ASSUME Typed, NEW k \in Key, Report(k)
    PROVE  Typed'
<1>0. Registry /\ World /\ Calls /\ store \in [Key -> Fault]
  BY TypedParts
<1>1. PICK f \in Fault : mem' = [mem EXCEPT ![k] = f]
  BY ReportShape
<1>2. mem' \in [Key -> Fault] /\ mem'[k] = f
  BY <1>0, <1>1 DEF Registry
<1>3. Append(chain[k], f) \in Seq(Fault)
  BY <1>0 DEF Registry
<1>4. chain' \in [Key -> Seq(Fault)]
  <2>1. chain' = [chain EXCEPT ![k] = Append(@, mem'[k])]
    BY ReportShape
  <2>2. chain' = [chain EXCEPT ![k] = Append(chain[k], f)]
    BY <1>2, <2>1
  <2>. QED
    BY <1>0, <1>3, <2>2 DEF Registry
<1>5. Append(order, k) \in Seq(Key)
  BY <1>0 DEF Registry
<1>6. Registry'
  BY <1>0, <1>2, <1>4, <1>5, ReportShape DEF Registry
<1>7. World'
  BY <1>0, ReportShape DEF World, world
<1>8. Calls'
  BY <1>0, ReportShape DEF Calls, Serving
<1>9. store' \in [Key -> Fault]
  BY <1>0, ReportShape
<1>10. (Registry /\ store \in [Key -> Fault] /\ World /\ Calls => Typed)'
  BY TypedParts, PTL
<1>. QED
  BY <1>6, <1>7, <1>8, <1>9, <1>10

\* A write of the queue: the head leaves, and it is stored or dropped.
LEMMA PersistShape ==
    ASSUME Typed, NEW k \in Key, Persist(k)
    PROVE  /\ up /\ chain[k] # <<>> /\ chain' = [chain EXCEPT ![k] = Tail(@)]
           /\ UNCHANGED <<mem, order, w, world, frozen, applying, up, proved>>
           /\ events' \in 0..MaxEvents
           /\ \/ store' = [store EXCEPT ![k] = Head(chain[k])] /\ lost' = lost \ {k}
              \/ lost' = lost \cup {k} /\ UNCHANGED store
           /\ \A p \in Pass :
                 \/ pc'[p] = pc[p] /\ ctx'[p] = ctx[p]
                 \/ /\ pc[p] = "settle" /\ ctx'[p] \in Locals /\ ctx'[p].cur = ctx[p].cur
                    /\ ctx'[p].todo = ctx[p].todo /\ ctx'[p].clean = ctx[p].clean
                    /\ \/ pc'[p] = "settle" /\ ctx'[p].then = ctx[p].then
                       \/ pc'[p] = ctx[p].then
           /\ pc' = [p \in Pass |-> pc'[p]] /\ ctx' = [p \in Pass |-> ctx'[p]]
<1>0. World /\ Calls
  BY TypedParts
<1>1. events' \in 0..MaxEvents
  BY <1>0, EventType DEF Persist
<1>2. ASSUME NEW p \in Pass
      PROVE  \/ pc'[p] = pc[p] /\ ctx'[p] = ctx[p]
             \/ /\ pc[p] = "settle" /\ ctx'[p] \in Locals /\ ctx'[p].cur = ctx[p].cur
                /\ ctx'[p].todo = ctx[p].todo /\ ctx'[p].clean = ctx[p].clean
                /\ \/ pc'[p] = "settle" /\ ctx'[p].then = ctx[p].then
                   \/ pc'[p] = ctx[p].then
  <2>1. PICK c : c = ctx[p]
    OBVIOUS
  <2>2. c \in Locals
    BY <1>0, <2>1 DEF Calls
  <2>3. PICK n : n = c.ahead - 1
    OBVIOUS
  <2>4. n \in Int
    BY <2>2, <2>3 DEF Locals
  <2>5. PICK d, e : d = [c EXCEPT !.ahead = 0, !.then = "loop"] /\ e = [c EXCEPT !.ahead = n]
    OBVIOUS
  <2>6. /\ d \in Locals /\ d.cur = c.cur /\ d.todo = c.todo /\ d.clean = c.clean
        /\ e \in Locals /\ e.cur = c.cur /\ e.todo = c.todo /\ e.clean = c.clean /\ e.then = c.then
    <3>1. d \in Locals /\ d.cur = c.cur /\ d.todo = c.todo /\ d.clean = c.clean
      <4>1. PICK z \in Int, l \in {"loop", "verify"} : z = 0 /\ l = "loop"
        OBVIOUS
      <4>2. d = [c EXCEPT !.ahead = z, !.then = l]
        BY <2>5, <4>1
      <4>. QED
        BY <2>2, <4>2 DEF Locals
    <3>2. e \in Locals /\ e.cur = c.cur /\ e.todo = c.todo /\ e.clean = c.clean /\ e.then = c.then
      <4>1. e = [c EXCEPT !.ahead = n]
        BY <2>5
      <4>. QED
        BY <2>2, <2>4, <4>1 DEF Locals
    <3>. QED
      BY <3>1, <3>2
  <2>7. \/ pc'[p] = pc[p] /\ ctx'[p] = c
        \/ pc[p] = "settle" /\ ctx'[p] = d /\ pc'[p] = c.then
        \/ pc[p] = "settle" /\ ctx'[p] = e /\ pc'[p] = pc[p]
    BY <2>1, <2>3, <2>5 DEF Persist
  <2>. QED
    BY <2>1, <2>6, <2>7
<1>3. pc' = [p \in Pass |-> pc'[p]] /\ ctx' = [p \in Pass |-> ctx'[p]]
  BY DEF Persist
<1>. QED
  BY <1>1, <1>2, <1>3 DEF Persist

\* A write keeps the types.
LEMMA PersistTyped ==
    ASSUME Typed, NEW k \in Key, Persist(k)
    PROVE  Typed'
<1>0. Registry /\ World /\ Calls /\ store \in [Key -> Fault]
  BY TypedParts
<1>1. /\ chain[k] # <<>> /\ chain' = [chain EXCEPT ![k] = Tail(@)]
      /\ UNCHANGED <<mem, order, w, world, frozen, applying, up, proved>>
      /\ events' \in 0..MaxEvents
      /\ \/ store' = [store EXCEPT ![k] = Head(chain[k])] /\ lost' = lost \ {k}
         \/ lost' = lost \cup {k} /\ UNCHANGED store
  BY PersistShape
<1>2. PICK s : s = chain[k]
  OBVIOUS
<1>3. s \in Seq(Fault) /\ s # <<>>
  BY <1>0, <1>1, <1>2 DEF Registry
<1>4. Head(s) \in Fault /\ Tail(s) \in Seq(Fault)
  BY <1>3
<1>5. Registry' /\ store' \in [Key -> Fault]
  BY <1>0, <1>1, <1>2, <1>4 DEF Registry
<1>6. World'
  BY <1>0, <1>1 DEF World, world
<1>7. ASSUME NEW p \in Pass
      PROVE  /\ pc'[p] \in {"idle", "gate", "loop", "settle", "fault", "verify", "rebuild", "reverify"}
             /\ ctx'[p] \in Locals
             /\ Serving(p)' => ctx'[p].cur \in Key
  <2>1. \/ pc'[p] = pc[p] /\ ctx'[p] = ctx[p]
        \/ /\ pc[p] = "settle" /\ ctx'[p] \in Locals /\ ctx'[p].cur = ctx[p].cur
           /\ pc'[p] = "settle" \/ pc'[p] = ctx[p].then
    BY PersistShape
  <2>2. ctx[p] \in Locals /\ ctx[p].then \in {"loop", "verify"}
    BY <1>0 DEF Calls, Locals
  <2>. QED
    BY <1>0, <2>1, <2>2 DEF Calls, Serving
<1>8. pc' = [p \in Pass |-> pc'[p]] /\ ctx' = [p \in Pass |-> ctx'[p]] /\ w' = w
  BY PersistShape
<1>9. Calls'
  BY <1>0, <1>7, <1>8 DEF Calls
<1>10. (Registry /\ store \in [Key -> Fault] /\ World /\ Calls => Typed)'
  BY TypedParts, PTL
<1>. QED
  BY <1>5, <1>6, <1>9, <1>10

\* The retry window of a fault is over: only due changes, wherever the fault is kept.
Ripe(f) == IF f.status = "blocked" THEN [f EXCEPT !.due = TRUE] ELSE f

\* It stays a fault, with its status.
LEMMA RipeFault ==
    ASSUME NEW f \in Fault
    PROVE  Ripe(f) \in Fault /\ Ripe(f).status = f.status
  BY DEF Ripe, Fault

\* A retry window ends wherever the fault is kept.
LEMMA TickShape ==
    ASSUME Typed, NEW k \in Key, Tick(k)
    PROVE  /\ mem' = [mem EXCEPT ![k] = Ripe(@)]
           /\ store' = [store EXCEPT ![k] = Ripe(@)]
           /\ chain' = [chain EXCEPT ![k] = [i \in DOMAIN @ |-> Ripe(@[i])]]
           /\ mem[k].status = "blocked"
           /\ UNCHANGED <<order, lost, w, pc, ctx, world, frozen, applying, up, proved, events>>
<1>0. Registry /\ store \in [Key -> Fault]
  BY TypedParts
<1>1. mem[k].status = "blocked"
      /\ UNCHANGED <<order, lost, w, pc, ctx, world, frozen, applying, up, proved, events>>
  BY DEF Tick
<1>2. mem' = [mem EXCEPT ![k] = Ripe(@)]
  BY <1>1 DEF Tick, Ripe
<1>3. store' = [store EXCEPT ![k] = Ripe(@)]
  BY <1>0 DEF Tick, Ripe
<1>4. chain' = [chain EXCEPT ![k] = [i \in DOMAIN @ |-> Ripe(@[i])]]
  BY DEF Tick, Ripe
<1>. QED
  BY <1>1, <1>2, <1>3, <1>4

\* A queue of writes stays one.
LEMMA RipeQueue ==
    ASSUME NEW s \in Seq(Fault)
    PROVE  /\ [i \in DOMAIN s |-> Ripe(s[i])] \in Seq(Fault)
           /\ Len([i \in DOMAIN s |-> Ripe(s[i])]) = Len(s)
<1>1. DOMAIN s = 1 .. Len(s) /\ Len(s) \in Nat /\ \A i \in 1 .. Len(s) : s[i] \in Fault
  OBVIOUS
<1>2. \A i \in 1 .. Len(s) : Ripe(s[i]) \in Fault
  BY <1>1, RipeFault
<1>. QED
  BY <1>1, <1>2

\* The end of a retry window keeps the types.
LEMMA TickTyped ==
    ASSUME Typed, NEW k \in Key, Tick(k)
    PROVE  Typed'
<1>0. Registry /\ World /\ Calls /\ store \in [Key -> Fault]
  BY TypedParts
<1>1. Ripe(mem[k]) \in Fault /\ Ripe(store[k]) \in Fault
  BY <1>0, RipeFault DEF Registry
<1>2. PICK s : s = chain[k]
  OBVIOUS
<1>3. [i \in DOMAIN s |-> Ripe(s[i])] \in Seq(Fault)
  BY <1>0, <1>2, RipeQueue DEF Registry
<1>4. Registry' /\ store' \in [Key -> Fault]
  <2>1. mem' \in [Key -> Fault] /\ store' \in [Key -> Fault] /\ order' \in Seq(Key)
    BY <1>0, <1>1, TickShape DEF Registry
  <2>2. chain' = [chain EXCEPT ![k] = [i \in DOMAIN s |-> Ripe(s[i])]]
    BY <1>2, TickShape
  <2>3. chain' \in [Key -> Seq(Fault)]
    BY <1>0, <1>3, <2>2 DEF Registry
  <2>. QED
    BY <2>1, <2>3 DEF Registry
<1>5. World' /\ Calls'
  BY <1>0, TickShape DEF World, Calls, world, Serving
<1>6. (Registry /\ store \in [Key -> Fault] /\ World /\ Calls => Typed)'
  BY TypedParts, PTL
<1>. QED
  BY <1>4, <1>5, <1>6

\* A registry without faults.
LEMMA EmptyRegistry ==
    ASSUME mem = [k \in Key |-> NoFault], order = <<>>, chain = [k \in Key |-> <<>>]
    PROVE  Registry /\ Listed
<1>1. <<>> \in Seq(Fault) /\ <<>> \in Seq(Key)
  OBVIOUS
<1>2. Registry
  BY <1>1, NoFaultType DEF Registry
<1>3. Listed
  BY NoFaultType DEF Listed, Injective, Elems, Open
<1>. QED
  BY <1>2, <1>3

\* A crash keeps the types.
LEMMA CrashTyped ==
    ASSUME Typed, Crash
    PROVE  Typed'
<1>0. Registry /\ World /\ Calls /\ store \in [Key -> Fault]
  BY TypedParts
<1>1. events' \in 0..MaxEvents
  BY <1>0, EventType DEF Crash
<1>2. (mem = [k \in Key |-> NoFault] /\ order = <<>> /\ chain = [k \in Key |-> <<>>] => Registry)'
  BY EmptyRegistry, PTL
<1>3. Registry' /\ store' \in [Key -> Fault]
  BY <1>0, <1>2 DEF Crash
<1>4. World'
  BY <1>0, <1>1 DEF Crash, World, world
<1>5. Stopped \in WorkerFields
  BY DEF Stopped, WorkerFields
<1>6. Calls'
  BY <1>5, IdleLocals DEF Crash, Calls, Serving
<1>7. (Registry /\ store \in [Key -> Fault] /\ World /\ Calls => Typed)'
  BY TypedParts, PTL
<1>. QED
  BY <1>3, <1>4, <1>6, <1>7

\* The table comes back in an order of its keys that names none twice.
LEMMA ListingsShape ==
    ASSUME NEW S \in SUBSET Key, NEW s \in Listings(S)
    PROVE  s \in Seq(Key) /\ Elems(s) = S /\ Injective(s)
<1>1. IsFiniteSet(S)
  BY FS_Subset
<1>2. Cardinality(S) \in Nat
  BY <1>1, FS_CardinalityType
<1>3. s \in [1..Cardinality(S) -> S] /\ {s[i] : i \in DOMAIN s} = S
  BY DEF Listings
<1>4. s \in Seq(Key)
  BY <1>2, <1>3
<1>5. Injective(s)
  <2>1. s \in Surjection(1..Cardinality(S), S)
    BY <1>3 DEF Surjection
  <2>2. IsFiniteSet(1..Cardinality(S)) /\ Cardinality(1..Cardinality(S)) = Cardinality(S)
    BY <1>2, FS_Interval
  <2>3. s \in Injection(1..Cardinality(S), S)
    BY <1>1, <2>1, <2>2, FS_SurjSameCardinalityImpliesInj
  <2>. QED
    BY <1>3, <2>3 DEF Injection, IsInjective, Injective
<1>. QED
  BY <1>3, <1>4, <1>5 DEF Elems

\* A restart loads the table.
LEMMA RestartTyped ==
    ASSUME Typed, Restart
    PROVE  Typed'
<1>0. Registry /\ World /\ Calls /\ store \in [Key -> Fault]
  BY TypedParts
<1>1. events' \in 0..MaxEvents
  BY <1>0, EventType DEF Restart
<1>2. mem' \in [Key -> Fault]
  BY <1>0 DEF Restart, Registry
<1>3. order' \in Seq(Key)
  BY <1>0, ListingsShape DEF Restart, Registry
<1>4. Registry' /\ store' \in [Key -> Fault]
  BY <1>0, <1>2, <1>3 DEF Restart, Registry
<1>5. World'
  BY <1>0, <1>1 DEF Restart, World, world
<1>6. w' \in WorkerFields
  BY DEF Restart, Stopped, WorkerFields
<1>7. Calls'
  BY <1>0, <1>6 DEF Restart, Calls, Serving
<1>8. (Registry /\ store \in [Key -> Fault] /\ World /\ Calls => Typed)'
  BY TypedParts, PTL
<1>. QED
  BY <1>4, <1>5, <1>7, <1>8

-----------------------------------------------------------------------------
\* Every step, as what it may change.
LEMMA Steps ==
    ASSUME Typed, Next
    PROVE  \/ \E k \in Key : Report(k) \/ Persist(k) \/ Tick(k)
           \/ \E p \in Pass : Served(p) \/ Scheduled(p)
           \/ Outside \/ Crash \/ Restart
  BY OutsideShape, Fault1Served, VerifyServed, RebuildServed, ReverifyServed,
      LoopScheduled,
     CallScheduled DEF Next, Worker

\* Every step keeps the types.
LEMMA TypedStep ==
    ASSUME Typed, Next
    PROVE  Typed'
  BY Steps, ReportTyped, PersistTyped, TickTyped, ServedTyped, ScheduledTyped,
      OutsideTyped,
     CrashTyped, RestartTyped

-----------------------------------------------------------------------------
\* A clear takes one key out of the Map and leaves the others.
LEMMA ClearedShape ==
    ASSUME Typed, NEW k \in Key, Cleared(k)
    PROVE  /\ order' \in Seq(Key) /\ Elems(order') = Elems(order) \ {k}
           /\ Injective(order) => Injective(order')
           /\ \A j \in Key : j # k => mem'[j] = mem[j]
           /\ mem'[k] = NoFault
<1>0. Registry
  BY TypedParts
<1>1. Elems(order) \subseteq Key /\ order \in Seq(Key)
  BY <1>0 DEF Registry, Elems
<1>. QED
  BY <1>0, <1>1, OnlySelects DEF Cleared, Registry

\* A mark opens and closes nothing.
LEMMA MarkedShape ==
    ASSUME Typed, NEW k \in Key, Marked(k) \/ UNCHANGED registry
    PROVE  \A j \in Key : Open(j)' <=> Open(j)
<1>0. Registry
  BY TypedParts
<1>. QED
  BY <1>0 DEF Marked, Registry, Open, registry

\* Marks and clears keep the Map's order.
LEMMA RegistryListed ==
    ASSUME Typed, Listed, NEW k \in Key, Marked(k) \/ Cleared(k) \/ UNCHANGED registry
    PROVE  Listed'
<1>1. CASE Cleared(k)
  <2>1. Injective(order)'
    BY <1>1, ClearedShape DEF Listed, Injective
  <2>2. Elems(order') = {j \in Key : Open(j)'}
    BY <1>1, ClearedShape, NoFaultType DEF Listed, Open
  <2>. QED
    BY <2>1, <2>2 DEF Listed, Elems
<1>2. CASE Marked(k) \/ UNCHANGED registry
  <2>1. order' = order
    BY <1>2 DEF Marked, registry
  <2>. QED
    BY <1>2, <2>1, MarkedShape DEF Listed, Injective, Elems
<1>. QED
  BY <1>1, <1>2

\* A step of repairFault() marks or clears its own fault only.
LEMMA ServedRegistry ==
    ASSUME Typed, NEW p \in Pass, Served(p)
    PROVE  /\ ctx[p].cur \in Key
           /\ Marked(ctx[p].cur) \/ Cleared(ctx[p].cur) \/ UNCHANGED registry
  BY DEF Typed, Serving, Served

\* Every step keeps the Map's order.
LEMMA ListedStep ==
    ASSUME Typed, Listed, Down, Next
    PROVE  Listed'
<1>0. Registry
  BY TypedParts
<1>1. CASE \E k \in Key : Report(k)
  <2>1. PICK k \in Key : Report(k)
    BY <1>1
  <2>2. PICK f \in Fault : f.status # "none" /\ mem' = [mem EXCEPT ![k] = f]
    BY <2>1, ReportShape
  <2>3. \A j \in Key : Open(j)' <=> Open(j) \/ j = k
    BY <1>0, <2>2 DEF Registry, Open
  <2>4. CASE Open(k)
    <3>1. order' = order
      BY <2>1, <2>4, ReportShape
    <3>. QED
      BY <2>3, <2>4, <3>1 DEF Listed, Injective, Elems
  <2>5. CASE ~Open(k)
    <3>1. order' = Append(order, k)
      BY <2>1, <2>5, ReportShape
    <3>2. k \notin Elems(order) /\ order \in Seq(Key)
      BY <1>0, <2>5 DEF Listed, Registry
    <3>3. Elems(order') = Elems(order) \cup {k} /\ Injective(order')
      BY <3>1, <3>2, AppendElems DEF Listed
    <3>. QED
      BY <2>3, <3>3 DEF Listed, Injective, Elems
  <2>. QED
    BY <2>4, <2>5
<1>2. CASE \E k \in Key : Persist(k)
  BY <1>2, PersistShape DEF Listed, Injective, Elems, Open
<1>3. CASE \E k \in Key : Tick(k)
  <2>1. PICK k \in Key : Tick(k)
    BY <1>3
  <2>2. \A j \in Key : Open(j)' <=> Open(j)
    BY <1>0, <2>1, TickShape, RipeFault DEF Registry, Open
  <2>. QED
    BY <2>1, <2>2, TickShape DEF Listed, Injective, Elems
<1>4. CASE \E p \in Pass : Served(p)
  BY <1>4, ServedRegistry, RegistryListed
<1>5. CASE (\E p \in Pass : Scheduled(p)) \/ Outside
  BY <1>5 DEF Scheduled, Outside, registry, Listed, Injective, Elems, Open
<1>6. CASE Crash
  <2>1. (mem = [k \in Key |-> NoFault] /\ order = <<>> /\ chain = [k \in Key |-> <<>>] => Listed)'
    BY EmptyRegistry, PTL
  <2>. QED
    BY <1>6, <2>1 DEF Crash
<1>7. CASE Restart
  <2>1. CASE mem' = store /\ order' \in Listings({k \in Key : store[k].status # "none"})
    BY <2>1, ListingsShape DEF Listed, Injective, Elems, Open
  <2>2. CASE UNCHANGED <<mem, order>>
    BY <2>2 DEF Listed, Injective, Elems, Open
  <2>. QED
    BY <1>7, <2>1, <2>2 DEF Restart
<1>. QED
  BY <1>1, <1>2, <1>3, <1>4, <1>5, <1>6, <1>7, Steps

\* Every step keeps a dead process empty.
LEMMA DownStep ==
    ASSUME Typed, Down, Next
    PROVE  Down'
<1>1. CASE (\E k \in Key : Report(k) \/ Persist(k)) \/ (\E p \in Pass : Served(p) \/ Scheduled(p))
  <2>1. up'
    BY <1>1, ReportShape, PersistShape DEF Served, Scheduled
  <2>. QED
    BY <2>1 DEF Down
<1>2. CASE \E k \in Key : Tick(k)
  <2>1. up' = up /\ up
    BY <1>2, TickShape, NoFaultType DEF Down
  <2>. QED
    BY <2>1 DEF Down
<1>3. CASE Outside
  BY <1>3 DEF Down, Outside, registry
<1>4. CASE Crash \/ Restart
  BY <1>4 DEF Down, Crash, Restart
<1>. QED
  BY <1>1, <1>2, <1>3, <1>4, Steps

-----------------------------------------------------------------------------
\* The call is outside a pass.
Away(p) == pc[p] \in {"idle", "gate"}

\* What a step does to the calls: one call moves, or none, or all end.
LEMMA SingleStep ==
    ASSUME Typed, Down, Single, Next
    PROVE  Single'
<1>0. Calls
  BY TypedParts
<1>1. CASE \E p \in Pass : Served(p)
  <2>1. PICK p \in Pass : Served(p)
    BY <1>1
  <2>2. ~Away(p) /\ \A q \in Pass : q # p => Away(q)
    BY <2>1 DEF Served, Single, Away
  <2>3. \A q \in Pass : q # p => pc'[q] = pc[q]
    BY <1>0, <2>1 DEF Served, EndPass, Settled, Calls
  <2>4. \/ pc'[p] = "idle" /\ ~w'.running
        \/ pc'[p] \notin {"idle", "gate"} /\ w' = w
    BY <1>0, <2>1 DEF Served, EndPass, Settled, Calls, WorkerFields
  <2>. QED
    BY <2>2, <2>3, <2>4 DEF Single, Busy, Away
<1>2. CASE \E p \in Pass : Scheduled(p)
  <2>1. PICK p \in Pass : Scheduled(p)
    BY <1>2
  <2>2. \A q \in Pass : q # p => pc'[q] = pc[q]
    BY <1>0, <2>1 DEF Scheduled, Calls
  <2>3. w.running <=> \E q \in Pass : ~Away(q)
    BY DEF Single, Busy, Away
  <2>4. \/ Away(p) /\ pc'[p] \in {"idle", "gate"} /\ w'.running = w.running
        \/ (~Away(p) \/ ~w.running) /\ pc'[p] = "loop" /\ w'.running
        \/ ~Away(p) /\ pc'[p] = "idle" /\ ~w'.running
        \/ ~Away(p) /\ pc'[p] = "fault" /\ w' = w
    BY <1>0, <2>1 DEF Scheduled, Calls, Away
  <2>5. \A q \in Pass : ~Away(p) /\ q # p => Away(q)
    BY DEF Single, Away
  <2>. QED
    BY <2>2, <2>3, <2>4, <2>5 DEF Single, Busy, Away
<1>3. CASE \E k \in Key : Persist(k)
  <2>1. \A p \in Pass : Away(p)' <=> Away(p)
    <3>1. ASSUME NEW p \in Pass PROVE Away(p)' <=> Away(p)
      <4>1. \/ pc'[p] = pc[p]
            \/ pc[p] = "settle" /\ (pc'[p] = "settle" \/ pc'[p] = ctx[p].then)
        BY <1>3, PersistShape
      <4>2. ctx[p].then \in {"loop", "verify"}
        BY <1>0 DEF Calls, Locals
      <4>. QED
        BY <4>1, <4>2 DEF Away
    <3>. QED
      BY <3>1
  <2>2. w' = w
    BY <1>3, PersistShape
  <2>. QED
    BY <2>1, <2>2 DEF Single, Busy, Away
<1>4. CASE (\E k \in Key : Report(k) \/ Tick(k)) \/ Outside
  <2>1. pc' = pc /\ w'.running = w.running
    BY <1>4, ReportShape, TickShape DEF Outside
  <2>. QED
    BY <2>1 DEF Single, Busy
<1>5. CASE Crash \/ Restart
  <2>1. \A p \in Pass : pc'[p] = "idle"
    BY <1>5 DEF Crash, Restart, Down
  <2>2. ~w'.running
    <3>1. PICK s : s = Stopped
      OBVIOUS
    <3>2. /\ ~s.running /\ ~[s EXCEPT !.started = TRUE, !.wake = order' # <<>>].running
      BY <3>1 DEF Stopped
    <3>. QED
      BY <1>5, <3>1, <3>2 DEF Crash, Restart
  <2>. QED
    BY <2>1, <2>2 DEF Single, Busy
<1>. QED
  BY <1>1, <1>2, <1>3, <1>4, <1>5, Steps

-----------------------------------------------------------------------------

\* A repair step keeps what the pass has to do: it closes its own fault only.
LEMMA ServedSound ==
    ASSUME Typed, Single, PassesSound, NEW p \in Pass, Served(p)
    PROVE  PassesSound'
<1>. DEFINE k == ctx[p].cur
<1>0. Calls /\ Registry
  BY TypedParts
<1>1. k \in Key /\ ~Away(p) /\ Working(p)
  BY ServedRegistry DEF Served, Away, Working
<1>2. SUFFICES ASSUME NEW q \in Pass, ~Away(q)' PROVE PassSound(q)'
  BY DEF PassesSound, PassSound, Away
<1>3. q = p
  <2>1. q # p => pc'[q] = pc[q]
    BY <1>0 DEF Served, EndPass, Settled, Calls
  <2>. QED
    BY <1>1, <1>2, <2>1 DEF Single, Away
<1>4. PICK l \in {"loop", "verify", "rebuild", "reverify"}, c \in Locals :
          /\ c.todo = ctx[p].todo /\ c.cur = k
          /\ \A j \in c.clean : j \in ctx[p].clean \/ j \in proved' \cup draining
          /\ Settled(p, l, c)
          /\ \/ Marked(k) \/ UNCHANGED registry
             \/ Cleared(k) /\ l = "loop"
  <2>1. ~EndPass(p, w)
    BY <1>0, <1>2, <1>3 DEF EndPass, Calls, Away
  <2>. QED
    BY <2>1 DEF Served
<1>5. PICK d \in Locals, r \in {"settle", l} :
          /\ pc' = [pc EXCEPT ![p] = r] /\ ctx' = [ctx EXCEPT ![p] = d]
          /\ d.todo = c.todo /\ d.cur = c.cur /\ d.clean = c.clean
          /\ r = "settle" => d.then = l
  BY <1>4 DEF Settled
<1>6. /\ ctx'[p] = d /\ pc'[p] = r
      /\ d.todo = ctx[p].todo /\ d.cur = k /\ d.clean = c.clean
  BY <1>0, <1>4, <1>5 DEF Calls
<1>7. PassSound(p)
  BY DEF PassesSound
<1>8. Injective(ctx'[p].todo) /\ k \notin Elems(ctx'[p].todo)
  BY <1>1, <1>6, <1>7 DEF PassSound, Away
<1>9. (Working(p))' => r # "loop" /\ (r = "settle" => l = "verify")
  BY <1>5, <1>6 DEF Working
<1>10. ASSUME NEW j \in Agenda(p)'
       PROVE  Open(j)' /\ (j \in ctx'[p].clean => j \in proved' \cup draining')
  <2>1. j \in Elems(ctx[p].todo) \/ (j = k /\ (Working(p))')
    BY <1>6, <1>10 DEF Agenda, Elems
  <2>2. j \in Agenda(p)
    BY <1>1, <2>1 DEF Agenda
  <2>3. Open(j) /\ (j \in ctx[p].clean => j \in proved \cup draining)
    BY <1>1, <1>7, <2>2 DEF PassSound, Away
  <2>4. j \in Key
    BY <1>0, <1>1, <2>1 DEF Calls, Locals, Elems
  <2>5. l = "loop" => j # k
    BY <1>6, <1>8, <1>9, <2>1 DEF Elems
  <2>6. Open(j)'
    <3>1. CASE Marked(k) \/ UNCHANGED registry
      BY <1>1, <2>3, <2>4, <3>1, MarkedShape
    <3>2. CASE Cleared(k) /\ l = "loop"
      BY <1>1, <2>3, <2>4, <2>5, <3>2, ClearedShape DEF Open
    <3>. QED
      BY <1>4, <3>1, <3>2
  <2>7. proved \subseteq proved' /\ draining' = draining
    BY DEF Served
  <2>. QED
    BY <1>4, <1>6, <2>3, <2>6, <2>7
<1>. QED
  BY <1>3, <1>6, <1>8, <1>10 DEF PassSound, Injective, Elems

\* The first of a list without repetitions is not in the rest.
LEMMA HeadTail ==
    ASSUME NEW s \in Seq(Key), s # <<>>
    PROVE  /\ Head(s) \in Elems(s) /\ Elems(Tail(s)) \subseteq Elems(s)
           /\ Injective(s) => Injective(Tail(s)) /\ Head(s) \notin Elems(Tail(s))
<1>1. /\ Len(s) \in Nat \ {0} /\ DOMAIN s = 1 .. Len(s)
      /\ Len(Tail(s)) = Len(s) - 1 /\ DOMAIN Tail(s) = 1 .. Len(s) - 1
      /\ \A i \in 1 .. Len(s) - 1 : Tail(s)[i] = s[i + 1]
      /\ Head(s) = s[1]
  OBVIOUS
<1>2. Head(s) \in Elems(s)
  BY <1>1 DEF Elems
<1>3. Elems(Tail(s)) \subseteq Elems(s)
  <2>1. ASSUME NEW i \in DOMAIN Tail(s) PROVE i + 1 \in DOMAIN s /\ Tail(s)[i] = s[i + 1]
    BY <1>1
  <2>. QED
    BY <2>1 DEF Elems
<1>4. ASSUME Injective(s) PROVE Injective(Tail(s))
  <2>1. ASSUME NEW i \in DOMAIN Tail(s), NEW j \in DOMAIN Tail(s), Tail(s)[i] = Tail(s)[j]
        PROVE  i = j
    <3>1. i + 1 \in DOMAIN s /\ j + 1 \in DOMAIN s /\ s[i + 1] = s[j + 1]
      BY <1>1, <2>1
    <3>2. i + 1 = j + 1
      BY <1>4, <3>1 DEF Injective
    <3>. QED
      BY <1>1, <3>2
  <2>. QED
    BY <2>1 DEF Injective
<1>5. ASSUME Injective(s) PROVE Head(s) \notin Elems(Tail(s))
  <2>1. ASSUME NEW i \in DOMAIN Tail(s), Head(s) = Tail(s)[i] PROVE FALSE
    <3>1. i + 1 \in DOMAIN s /\ 1 \in DOMAIN s /\ s[i + 1] = s[1] /\ i + 1 # 1
      BY <1>1, <2>1
    <3>. QED
      BY <1>5, <3>1 DEF Injective
  <2>. QED
    BY <2>1 DEF Elems
<1>. QED
  BY <1>2, <1>3, <1>4, <1>5

\* A pass starts with open faults, and goes on to the next.
LEMMA ScheduledSound ==
    ASSUME Typed, Single, Listed, PassesSound, NEW p \in Pass, Scheduled(p)
    PROVE  PassesSound'
<1>0. Calls /\ Registry
  BY TypedParts
<1>1. UNCHANGED <<registry, proved, draining>>
  BY DEF Scheduled, world
<1>2. SUFFICES ASSUME NEW q \in Pass, ~Away(q)' PROVE PassSound(q)'
  BY DEF PassesSound, PassSound, Away
<1>3. CASE q # p
  <2>1. pc'[q] = pc[q] /\ ctx'[q] = ctx[q]
    BY <1>0, <1>3 DEF Scheduled, Calls
  <2>. QED
    BY <1>1, <2>1 DEF PassesSound, PassSound, Working, Agenda, Elems, Injective,
        Open, registry
<1>4. CASE q = p /\ pc'[p] = "loop"
  <2>0. PICK c \in Locals : ctx'[p] = c /\ c.clean = {} /\ \E S : c.todo = Only(order, S)
    BY <1>0, <1>4 DEF Scheduled, Calls
  <2>1. PICK S : ctx'[p] = c /\ c.todo = Only(order, S) /\ c.clean = {}
    BY <2>0
  <2>2. /\ Elems(c.todo) = Elems(order) \cap S /\ Injective(c.todo)
    BY <1>0, <2>1, OnlySelects DEF Registry, Listed
  <2>3. \A j \in Elems(c.todo) : Open(j)
    BY <2>2 DEF Listed
  <2>4. (~Working(p))'
    BY <1>4 DEF Working
  <2>. QED
    BY <1>1, <1>4, <2>1, <2>2, <2>3, <2>4 DEF PassSound, Agenda, Elems, Injective,
        Open, registry
<1>5. CASE q = p /\ pc'[p] = "fault"
  <2>1. PICK c \in Locals :
            /\ pc[p] = "loop" /\ ctx[p].todo # <<>> /\ ctx'[p] = c
            /\ c.clean = ctx[p].clean
            /\ c.cur = Head(ctx[p].todo) /\ c.todo = Tail(ctx[p].todo)
    BY <1>0, <1>5 DEF Scheduled, Calls
  <2>2. PICK s : s = ctx[p].todo
    OBVIOUS
  <2>3. s \in Seq(Key) /\ s # <<>>
    BY <1>0, <2>1, <2>2 DEF Calls, Locals
  <2>4. PassSound(p) /\ ~Away(p)
    BY <2>1 DEF PassesSound, Away
  <2>5. Injective(s) /\ \A j \in Elems(s) : Open(j) /\ (j \in ctx[p].clean => j \in proved \cup draining)
    BY <2>2, <2>4 DEF PassSound, Away, Agenda
  <2>6. /\ Injective(Tail(s)) /\ Head(s) \notin Elems(Tail(s))
        /\ Head(s) \in Elems(s) /\ Elems(Tail(s)) \subseteq Elems(s)
    BY <2>3, <2>5, HeadTail
  <2>7. (Agenda(p))' \subseteq Elems(s) /\ ctx'[p].todo = Tail(s) /\ ctx'[p].cur = Head(s)
        /\ ctx'[p].clean = ctx[p].clean
    BY <2>1, <2>2, <2>6 DEF Agenda, Elems
  <2>. QED
    BY <1>1, <1>5, <2>5, <2>6, <2>7 DEF PassSound, Elems, Injective, Open, registry
<1>. QED
  BY <1>0, <1>2, <1>3, <1>4, <1>5 DEF Scheduled, Calls, Away

\* What happens around the passes closes no fault, unless the process ends.
LEMMA OthersSound ==
    ASSUME Typed, Down, PassesSound,
           (\E k \in Key : Report(k) \/ Persist(k) \/ Tick(k)) \/ Outside \/ Crash \/ Restart
    PROVE  PassesSound'
<1>0. Calls /\ Registry
  BY TypedParts
<1>1. CASE Crash \/ Restart
  <2>1. \A p \in Pass : pc'[p] = "idle"
    BY <1>1 DEF Crash, Restart, Down
  <2>. QED
    BY <2>1 DEF PassesSound, PassSound
<1>2. CASE Outside
  BY <1>2 DEF Outside, registry, PassesSound, PassSound, Working, Agenda, Elems,
      Injective, Open
<1>3. CASE \E k \in Key : Tick(k)
  <2>1. PICK k \in Key : Tick(k)
    BY <1>3
  <2>2. \A j \in Key : Open(j)' <=> Open(j)
    BY <1>0, <2>1, TickShape, RipeFault DEF Registry, Open
  <2>3. UNCHANGED <<pc, ctx, proved, draining>>
    BY <2>1, TickShape DEF world
  <2>4. \A p \in Pass : ~Away(p) => Agenda(p) \subseteq Key
    BY <1>0 DEF Calls, Locals, Agenda, Elems, Working, Serving
  <2>. QED
    BY <2>2, <2>3, <2>4 DEF PassesSound, PassSound, Working, Agenda, Elems,
        Injective, Away
<1>4. CASE \E k \in Key : Report(k)
  <2>1. PICK k \in Key : Report(k)
    BY <1>4
  <2>2. \A j \in Key : Open(j) => Open(j)'
    <3>1. PICK f \in Fault : f.status # "none" /\ mem' = [mem EXCEPT ![k] = f]
      BY <2>1, ReportShape
    <3>. QED
      BY <1>0, <3>1 DEF Registry, Open
  <2>3. UNCHANGED <<pc, ctx, draining>> /\ \A j \in proved : Open(j) => j \in proved'
    BY <2>1, ReportShape DEF world
  <2>4. \A p \in Pass : ~Away(p) => Agenda(p) \subseteq Key
    BY <1>0 DEF Calls, Locals, Agenda, Elems, Working, Serving
  <2>. QED
    BY <2>2, <2>3, <2>4 DEF PassesSound, PassSound, Working, Agenda, Elems,
        Injective, Away
<1>5. CASE \E k \in Key : Persist(k)
  <2>1. UNCHANGED <<mem, proved, draining>>
    BY <1>5, PersistShape DEF world
  <2>2. ASSUME NEW p \in Pass PROVE PassSound(p)'
    <3>1. \/ pc'[p] = pc[p] /\ ctx'[p] = ctx[p]
          \/ /\ pc[p] = "settle" /\ ctx'[p].cur = ctx[p].cur
             /\ ctx'[p].todo = ctx[p].todo /\ ctx'[p].clean = ctx[p].clean
             /\ \/ pc'[p] = "settle" /\ ctx'[p].then = ctx[p].then
                \/ pc'[p] = ctx[p].then
      BY <1>5, PersistShape
    <3>2. ctx[p].then \in {"loop", "verify"}
      BY <1>0 DEF Calls, Locals
    <3>3. /\ ctx'[p].cur = ctx[p].cur /\ ctx'[p].todo = ctx[p].todo /\ ctx'[p].clean = ctx[p].clean
          /\ (Working(p))' <=> Working(p)
          /\ Away(p)' <=> Away(p)
      BY <3>1, <3>2 DEF Working, Away
    <3>. QED
      BY <2>1, <3>3 DEF PassesSound, PassSound, Agenda, Elems, Injective, Open, Away
  <2>. QED
    BY <2>2 DEF PassesSound
<1>. QED
  BY <1>1, <1>2, <1>3, <1>4, <1>5

\* Every step keeps the passes sound.
LEMMA SoundStep ==
    ASSUME Typed, Down, Single, Listed, PassesSound, Next
    PROVE  PassesSound'
  BY ServedSound, ScheduledSound, OthersSound, Steps

-----------------------------------------------------------------------------
\* The write just queued says what memory says, and no other key is touched.
LEMMA Enqueued ==
    ASSUME Typed, Queued, up, NEW k \in Key, NEW f \in Fault, UNCHANGED <<store, lost>>,
           mem' = [mem EXCEPT ![k] = f], chain' = [chain EXCEPT ![k] = Append(@, f)]
    PROVE  Queued'
<1>0. Registry
  BY TypedParts
<1>1. PICK s : s = chain[k]
  OBVIOUS
<1>2. s \in Seq(Fault)
  BY <1>0, <1>1 DEF Registry
<1>3. PICK t : t = Append(s, f)
  OBVIOUS
<1>4. t # <<>> /\ t[Len(t)] = f
  BY <1>2, <1>3
<1>5. chain'[k] = t /\ mem'[k] = f
  BY <1>0, <1>1, <1>3 DEF Registry
<1>6. \A j \in Key : j # k => chain'[j] = chain[j] /\ mem'[j] = mem[j]
  BY <1>0 DEF Registry
<1>7. ASSUME NEW j \in Key
      PROVE  /\ chain'[j] # <<>> => chain'[j][Len(chain'[j])] = mem'[j]
             /\ chain'[j] = <<>> /\ j \notin lost' => store'[j] = mem'[j]
  <2>1. CASE j = k
    BY <1>4, <1>5, <2>1
  <2>2. CASE j # k
    BY <1>6, <2>2 DEF Queued
  <2>. QED
    BY <2>1, <2>2
<1>. QED
  BY <1>7 DEF Queued

\* Every step keeps the queues true.
LEMMA QueuedStep ==
    ASSUME Typed, Down, Queued, Next
    PROVE  Queued'
<1>0. Registry /\ store \in [Key -> Fault]
  BY TypedParts
<1>1. CASE \E k \in Key : Report(k)
  <2>1. PICK k \in Key : Report(k)
    BY <1>1
  <2>2. PICK f \in Fault : mem' = [mem EXCEPT ![k] = f]
    BY <2>1, ReportShape
  <2>3. mem'[k] = f
    BY <1>0, <2>2 DEF Registry
  <2>4. chain' = [chain EXCEPT ![k] = Append(@, f)] /\ up /\ UNCHANGED <<store, lost>>
    BY <2>1, <2>3, ReportShape
  <2>. QED
    BY <2>2, <2>4, Enqueued
<1>2. CASE \E p \in Pass : Served(p)
  <2>1. PICK p \in Pass : Served(p)
    BY <1>2
  <2>2. PICK k \in Key : Marked(k) \/ Cleared(k) \/ UNCHANGED registry
    BY <2>1, ServedRegistry
  <2>3. up /\ UNCHANGED <<store, lost>>
    BY <2>1 DEF Served
  <2>4. CASE UNCHANGED registry
    BY <2>3, <2>4 DEF registry, Queued
  <2>5. CASE Marked(k) \/ Cleared(k)
    BY <2>3, <2>5, Enqueued, NoFaultType DEF Marked, Cleared
  <2>. QED
    BY <2>2, <2>4, <2>5
<1>3. CASE (\E p \in Pass : Scheduled(p)) \/ Outside
  BY <1>3 DEF Scheduled, Outside, registry, Queued
<1>4. CASE \E k \in Key : Persist(k)
  <2>1. PICK k \in Key : Persist(k)
    BY <1>4
  <2>2. PICK s : s = chain[k]
    OBVIOUS
  <2>3. s \in Seq(Fault) /\ s # <<>> /\ up
    BY <1>0, <2>1, <2>2, PersistShape DEF Registry
  <2>4. PICK h, t : h = Head(s) /\ t = Tail(s)
    OBVIOUS
  <2>5. /\ t # <<>> => t[Len(t)] = s[Len(s)]
        /\ t = <<>> => h = s[Len(s)]
    <3>1. /\ Len(s) \in Nat /\ Len(s) # 0 /\ t \in Seq(Fault) /\ Len(t) = Len(s) - 1
          /\ \A i \in 1 .. Len(t) : t[i] = s[i + 1]
      BY <2>3, <2>4
    <3>2. h = s[1]
      BY <2>3, <2>4
    <3>3. t = <<>> <=> Len(t) = 0
      BY <3>1
    <3>4. ASSUME t # <<>> PROVE t[Len(t)] = s[Len(s)]
      <4>1. Len(t) \in 1 .. Len(t) /\ Len(t) + 1 = Len(s)
        BY <3>1, <3>3, <3>4
      <4>. QED
        BY <3>1, <4>1
    <3>5. ASSUME t = <<>> PROVE h = s[Len(s)]
      <4>1. Len(s) = 1
        BY <3>1, <3>3, <3>5
      <4>. QED
        BY <3>2, <4>1
    <3>. QED
      BY <3>4, <3>5
  <2>6. s[Len(s)] = mem[k]
    BY <2>2, <2>3 DEF Queued
  <2>7. /\ chain' = [chain EXCEPT ![k] = t] /\ mem' = mem
        /\ \/ store' = [store EXCEPT ![k] = h] /\ lost' = lost \ {k}
           \/ lost' = lost \cup {k} /\ store' = store
    BY <2>1, <2>2, <2>4, PersistShape
  <2>8. ASSUME NEW j \in Key
        PROVE  /\ chain'[j] # <<>> => chain'[j][Len(chain'[j])] = mem'[j]
               /\ chain'[j] = <<>> /\ j \notin lost' => store'[j] = mem'[j]
    <3>1. CASE j = k
      <4>1. chain'[k] = t /\ (k \notin lost' => store'[k] = h)
        BY <1>0, <2>7 DEF Registry
      <4>. QED
        BY <2>5, <2>6, <2>7, <3>1, <4>1
    <3>2. CASE j # k
      <4>1. chain'[j] = chain[j] /\ store'[j] = store[j] /\ mem'[j] = mem[j]
            /\ (j \notin lost' => j \notin lost)
        BY <1>0, <2>7, <3>2 DEF Registry
      <4>. QED
        BY <2>3, <4>1 DEF Queued
    <3>. QED
      BY <3>1, <3>2
  <2>. QED
    BY <2>8 DEF Queued
<1>5. CASE \E k \in Key : Tick(k)
  <2>1. PICK k \in Key : Tick(k)
    BY <1>5
  <2>2. PICK s : s = chain[k]
    OBVIOUS
  <2>3. s \in Seq(Fault)
    BY <1>0, <2>2 DEF Registry
  <2>4. PICK t : t = [i \in DOMAIN s |-> Ripe(s[i])]
    OBVIOUS
  <2>5. /\ t = <<>> => s = <<>>
        /\ t # <<>> => s # <<>> /\ t[Len(t)] = Ripe(s[Len(s)])
    <3>1. DOMAIN s = 1 .. Len(s) /\ Len(s) \in Nat /\ Len(t) = Len(s) /\ t \in Seq(Fault)
      BY <2>3, <2>4, RipeQueue
    <3>2. t = <<>> <=> Len(t) = 0
      BY <3>1
    <3>3. s = <<>> <=> Len(s) = 0
      BY <2>3
    <3>4. Len(s) # 0 => Len(s) \in DOMAIN s
      BY <3>1
    <3>. QED
      BY <2>4, <3>1, <3>2, <3>3, <3>4
  <2>6. /\ chain' = [chain EXCEPT ![k] = t]
        /\ mem' = [mem EXCEPT ![k] = Ripe(@)] /\ store' = [store EXCEPT ![k] = Ripe(@)]
        /\ UNCHANGED <<lost, up>>
    BY <2>1, <2>2, <2>4, TickShape
  <2>7. ASSUME up, NEW j \in Key
        PROVE  /\ chain'[j] # <<>> => chain'[j][Len(chain'[j])] = mem'[j]
               /\ chain'[j] = <<>> /\ j \notin lost' => store'[j] = mem'[j]
    <3>1. CASE j = k
      <4>1. chain'[k] = t /\ mem'[k] = Ripe(mem[k]) /\ store'[k] = Ripe(store[k])
        BY <1>0, <2>6 DEF Registry
      <4>. QED
        BY <2>2, <2>5, <2>6, <2>7, <3>1, <4>1 DEF Queued
    <3>2. CASE j # k
      <4>1. chain'[j] = chain[j] /\ store'[j] = store[j] /\ mem'[j] = mem[j]
        BY <1>0, <2>6, <3>2 DEF Registry
      <4>. QED
        BY <2>6, <2>7, <4>1 DEF Queued
    <3>. QED
      BY <3>1, <3>2
  <2>. QED
    BY <2>6, <2>7 DEF Queued
<1>6. CASE Crash
  BY <1>6 DEF Crash, Queued
<1>7. CASE Restart
  <2>1. ~up /\ chain = [k \in Key |-> <<>>] /\ chain' = chain
    BY <1>7 DEF Restart, Down
  <2>2. lost' = Key \/ (mem' = store /\ store' = store)
    BY <1>7 DEF Restart
  <2>. QED
    BY <2>1, <2>2 DEF Queued
<1>. QED
  BY <1>1, <1>2, <1>3, <1>4, <1>5, <1>6, <1>7, Steps

-----------------------------------------------------------------------------
\* The inductive invariant.
RInv == Typed /\ Down /\ Listed /\ Single /\ PassesSound /\ Queued

\* The initial states.
LEMMA RInvInit ==
    ASSUME Init PROVE RInv
<1>0. Registry /\ Listed
  BY EmptyRegistry DEF Init
<1>1. store \in [Key -> Fault] /\ World
  <2>1. store \in [Key -> Fault]
    BY <1>0 DEF Init, Registry
  <2>2. slice \in [Key -> {"good", "bad"}]
    BY DEF Init
  <2>3. row \in [Object -> {"live", "dead", "gone"}]
    BY DEF Init
  <2>4. errs = {} /\ off = {} /\ ro = {} /\ draining = {} /\ lost = {} /\ proved = {}
    BY DEF Init
  <2>5. frozen \in BOOLEAN /\ applying \in BOOLEAN /\ up \in BOOLEAN
    BY DEF Init
  <2>6. events \in 0 .. MaxEvents
    BY DEF Init
  <2>. QED
    BY <2>1, <2>2, <2>3, <2>4, <2>5, <2>6 DEF World
<1>2. [Stopped EXCEPT !.started = TRUE] \in WorkerFields /\ ~[Stopped EXCEPT !.started = TRUE].running
  BY DEF Stopped, WorkerFields
<1>3. Calls
  BY <1>2, IdleLocals DEF Init, Calls, Serving
<1>4. Typed
  BY <1>0, <1>1, <1>3, TypedParts
<1>5. Down /\ PassesSound
  BY DEF Init, Down, PassesSound, PassSound
<1>6. Single
  BY <1>2 DEF Init, Single, Busy
<1>7. Queued
  BY DEF Init, Queued
<1>. QED
  BY <1>0, <1>4, <1>5, <1>6, <1>7 DEF RInv

\* Every step keeps the invariant.
LEMMA RInvStep ==
    ASSUME RInv, [Next]_vars PROVE RInv'
<1>1. CASE Next
  BY <1>1, TypedStep, DownStep, ListedStep, SingleStep, SoundStep, QueuedStep DEF
      RInv
<1>2. CASE UNCHANGED vars
  <2>1. Typed'
    BY <1>2 DEF RInv, Typed, TypeOK, Serving, vars
  <2>2. Down' /\ Listed' /\ Single'
    BY <1>2 DEF RInv, Down, Listed, Injective, Elems, Open, Single, Busy, vars
  <2>3. PassesSound'
    BY <1>2 DEF RInv, PassesSound, PassSound, Agenda, Working, Injective, Elems,
        Open, vars
  <2>4. Queued'
    BY <1>2 DEF RInv, Queued, vars
  <2>. QED
    BY <2>1, <2>2, <2>3, <2>4 DEF RInv
<1>. QED
  BY <1>1, <1>2

\* One pass at a time reads the registry, and a key with no write left says in the store what it says
\* in memory, unless its last write failed: persistChains orders the upserts and the delete of a key
\* (remediation/service.ts), and RepairWorker.running keeps two processFaults() calls apart.
THEOREM RegistrySafe == Spec => []RepairSafe
<1>1. Init => RInv
  BY RInvInit
<1>2. RInv /\ [Next]_vars => RInv'
  BY RInvStep
<1>3. RInv => RepairSafe
  <2>1. SUFFICES ASSUME RInv PROVE RepairSafe
    OBVIOUS
  <2>2. OnePass
    BY <2>1 DEF RInv, OnePass, Single, Listed, Elems
  <2>3. StoreConverges
    BY <2>1 DEF RInv, StoreConverges, Queued
  <2>. QED
    BY <2>1, <2>2, <2>3 DEF RInv, Typed, RepairSafe
<1>. QED
  BY <1>1, <1>2, <1>3, PTL DEF Spec

\* The step ClearedForAReason asks for.
ReasonGiven ==
    up /\ up' => \A k \in Key : Open(k) /\ mem'[k] = NoFault =>
          \/ row[ObjectOf[k]] = "gone" \/ k \in off
          \/ k \in proved' \/ k \in draining

\* Every step gives its reason.
LEMMA ReasonStep ==
    ASSUME RInv, Next PROVE ReasonGiven
<1>. USE DEF RInv
<1>0. Registry
  BY TypedParts
<1>1. SUFFICES ASSUME up, up', NEW k \in Key, Open(k), mem'[k] = NoFault
               PROVE  \/ row[ObjectOf[k]] = "gone" \/ k \in off
                      \/ k \in proved' \/ k \in draining
  BY DEF ReasonGiven
<1>2. CASE \E p \in Pass : Served(p)
  <2>1. PICK p \in Pass : Served(p)
    BY <1>2
  <2>2. ~UNCHANGED registry /\ ~Marked(ctx[p].cur)
    <3>1. ASSUME Marked(ctx[p].cur) \/ UNCHANGED registry PROVE FALSE
      BY <1>1, <2>1, <3>1, MarkedShape, ServedRegistry, NoFaultType DEF Open
    <3>. QED
      BY <3>1
  <2>3. PICK c \in Locals :
            /\ \A j \in c.clean : j \in ctx[p].clean \/ j \in proved' \cup draining
            /\ Cleared(ctx[p].cur)
            /\ \/ row[ObjectOf[ctx[p].cur]] = "gone" \/ ctx[p].cur \in off
               \/ ctx[p].cur \in c.clean
    BY <2>1, <2>2 DEF Served
  <2>4. k = ctx[p].cur
    BY <1>1, <2>1, <2>3, ClearedShape, ServedRegistry, NoFaultType DEF Open
  <2>5. k \in ctx[p].clean => k \in proved \cup draining
    <3>1. k \in Agenda(p) /\ PassSound(p) /\ pc[p] \notin {"idle", "gate"}
      BY <2>1, <2>4 DEF Served, PassesSound, Agenda, Working
    <3>. QED
      BY <3>1 DEF PassSound
  <2>6. proved \subseteq proved'
    BY <2>1 DEF Served
  <2>. QED
    BY <2>3, <2>4, <2>5, <2>6
<1>3. CASE (\E j \in Key : Report(j)) \/ (\E j \in Key : Persist(j) \/ Tick(j))
             \/ (\E p \in Pass : Scheduled(p)) \/ Outside
  <2>1. Open(k)'
    <3>1. ASSUME NEW j \in Key, Report(j) PROVE Open(k)'
      <4>1. PICK f \in Fault : f.status # "none" /\ mem' = [mem EXCEPT ![j] = f]
        BY <3>1, ReportShape
      <4>. QED
        BY <1>0, <1>1, <4>1 DEF Registry, Open
    <3>2. ASSUME NEW j \in Key, Tick(j) PROVE Open(k)'
      BY <1>0, <1>1, <3>2, TickShape, RipeFault DEF Registry, Open
    <3>3. CASE UNCHANGED mem
      BY <1>1, <3>3 DEF Open
    <3>. QED
      BY <1>3, <3>1, <3>2, <3>3, PersistShape DEF Scheduled, Outside, registry
  <2>. QED
    BY <1>1, <2>1, NoFaultType DEF Open
<1>4. CASE Crash \/ Restart
  BY <1>1, <1>4 DEF Crash, Restart
<1>. QED
  BY <1>2, <1>3, <1>4, Steps

\* A fault is cleared for a reason: the object is gone, the slice has moved, it has read clean since the
\* fault was recorded, or its volume is draining, whatever the pass remembers of objects it verified for
\* other faults (repair-worker.ts repairFault, the caches checked and clean).
THEOREM ClearsHaveAReason == Spec => ClearedForAReason
<1>1. Init => RInv
  BY RInvInit
<1>2. RInv /\ [Next]_vars => RInv'
  BY RInvStep
<1>3. RInv /\ [Next]_vars => [ReasonGiven]_vars
  BY ReasonStep
<1>4. Spec => [][ReasonGiven]_vars
  BY <1>1, <1>2, <1>3, PTL DEF Spec
<1>. QED
  BY <1>4 DEF ReasonGiven, ClearedForAReason
=============================================================================
