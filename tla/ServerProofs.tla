------------------------------ MODULE ServerProofs ------------------------------
(***************************************************************************)
(* The process with any number of symbols and trades and any round of any  *)
(* thread.  What a thread still has to do is a program, and the proofs are  *)
(* about what programs lead to: which mutexes are held and which trades are *)
(* due before and after each instruction.                                   *)
(***************************************************************************)
EXTENDS Server, QueueLemmas

-------------------------------------------------------------------------------
(* Instructions and the situations they are met in *)

\* What a thread can do to the others.
Ops == {"lock", "unlock", "match", "deliver", "run", "spawn"}

\* The arguments are mutexes, threads or numbers of trades.
Instructions ==
    {i \in [op : Ops, arg : Mutexes \cup Threads \cup Nat \cup {None}] :
        i.op = "match" => i.arg \in Nat}

\* The instructions of main before its loop.
Quiet == {i \in Instructions : i.op # "match"}

\* The order in which a thread takes mutexes.  Those that share a rank are
\* never held by one thread.
Rank(m) ==
    IF m = "config" THEN 0
    ELSE IF m \in {"orders", "connections"} THEN 1
    ELSE IF m = "engine" THEN 2
    ELSE IF m = "subscribers" THEN 4
    ELSE 3                      \* the books

\* What a thread is in the middle of: the mutexes it holds, the number of reports
\* it has to make; and, of main, the services it has started.
Situations ==
    {s \in [held : SUBSET Mutexes, due : Nat,
            running : SUBSET Services, spawned : SUBSET (Threads \ {"main"})] :
        /\ s.due > 0 => "engine" \in s.held
        /\ "snapshots" \in s.spawned => s.running = Services /\ Services \subseteq s.spawned}

\* Instruction i may come in situation s, and makes it situation r.
Effect(i, s, r) ==
    \/ /\ i.op = "lock" /\ i.arg \in Mutexes
       /\ \A m \in s.held : Rank(m) < Rank(i.arg)
       /\ r = [s EXCEPT !.held = s.held \cup {i.arg}]
    \/ /\ i.op = "unlock" /\ i.arg \in s.held
       /\ r = [s EXCEPT !.held = s.held \ {i.arg}]
    \/ /\ i.op = "match" /\ "engine" \in s.held /\ s.due = 0
       /\ r = [s EXCEPT !.due = i.arg + i.arg]
    \/ /\ i.op = "deliver" /\ s.due > 0
       /\ r = [s EXCEPT !.due = s.due - 1]
    \/ /\ i.op = "run" /\ i.arg \in Services /\ "snapshots" \notin s.spawned
       /\ r = [s EXCEPT !.running = s.running \cup {i.arg}]
    \/ /\ i.op = "spawn" /\ i.arg \in Threads \ {"main"} /\ "snapshots" \notin s.spawned
       /\ r = [s EXCEPT !.spawned = s.spawned \cup {i.arg}]

\* Program p, of instructions in I, can be run from situation s, and r is where
\* it ends.
Leads(I, p, s, r) ==
    /\ p \in Seq(I)
    /\ \E h \in [1 .. Len(p) + 1 -> Situations] :
        /\ h[1] = s /\ h[Len(p) + 1] = r
        /\ \A k \in 1 .. Len(p) : Effect(p[k], h[k], h[k + 1])

-------------------------------------------------------------------------------
(* What programs lead to, from the way they are put together *)

\* The ends of a program are situations.
LEMMA LeadsBetween ==
    ASSUME NEW I, NEW p, NEW s, NEW r, Leads(I, p, s, r)
    PROVE  p \in Seq(I) /\ s \in Situations /\ r \in Situations
<1>1. PICK h \in [1 .. Len(p) + 1 -> Situations] : h[1] = s /\ h[Len(p) + 1] = r
    BY DEF Leads
<1>2. p \in Seq(I) /\ Len(p) \in Nat
    BY LenProperties DEF Leads
<1>3. 1 \in 1 .. Len(p) + 1 /\ Len(p) + 1 \in 1 .. Len(p) + 1
    BY <1>2
<1> QED
    BY <1>1, <1>2, <1>3

\* The empty program changes nothing.
LEMMA LeadsNowhere ==
    ASSUME NEW I, NEW s \in Situations
    PROVE  Leads(I, <<>>, s, s)
<1>1. <<>> \in Seq(I) /\ Len(<<>>) = 0
    OBVIOUS
<1> DEFINE h == [k \in 1 .. 1 |-> s]
<1>2. h \in [1 .. Len(<<>>) + 1 -> Situations] /\ h[1] = s /\ h[Len(<<>>) + 1] = s
    BY <1>1
<1>3. \A k \in 1 .. Len(<<>>) : Effect(<<>>[k], h[k], h[k + 1])
    BY <1>1
<1> QED
    BY <1>1, <1>2, <1>3 DEF Leads

\* And what leads there is where it was.
LEMMA LeadsToItself ==
    ASSUME NEW I, NEW s, NEW r, Leads(I, <<>>, s, r)
    PROVE  s = r
<1>1. Len(<<>>) = 0
    OBVIOUS
<1> QED
    BY <1>1 DEF Leads

\* A program of one instruction.
LEMMA LeadsByOne ==
    ASSUME NEW I, NEW i \in I, NEW s \in Situations, NEW r \in Situations, Effect(i, s, r)
    PROVE  Leads(I, <<i>>, s, r)
<1>1. <<i>> \in Seq(I) /\ Len(<<i>>) = 1 /\ <<i>>[1] = i
    OBVIOUS
<1> DEFINE h == [k \in 1 .. 2 |-> IF k = 1 THEN s ELSE r]
<1>2. h \in [1 .. 2 -> Situations] /\ h[1] = s /\ h[2] = r
    OBVIOUS
<1>3. Len(<<i>>) + 1 = 2
    BY <1>1
<1>4. \A k \in 1 .. Len(<<i>>) : Effect(<<i>>[k], h[k], h[k + 1])
    <2> HIDE DEF h
    <2>1. \A k \in 1 .. 1 : k = 1
        OBVIOUS
    <2>2. Effect(<<i>>[1], h[1], h[1 + 1])
        BY <1>1, <1>2
    <2> QED
        BY <2>1, <2>2, <1>1
<1> QED
    BY <1>1, <1>2, <1>3, <1>4 DEF Leads

\* One program and then another.
LEMMA LeadsOn ==
    ASSUME NEW I, NEW p, NEW q, NEW s, NEW r, NEW e, Leads(I, p, s, r), Leads(I, q, r, e)
    PROVE  Leads(I, p \o q, s, e)
<1>1. p \in Seq(I) /\ q \in Seq(I) /\ Len(p) \in Nat /\ Len(q) \in Nat
    BY LenProperties DEF Leads
<1>2. PICK g \in [1 .. Len(p) + 1 -> Situations] :
        /\ g[1] = s /\ g[Len(p) + 1] = r
        /\ \A k \in 1 .. Len(p) : Effect(p[k], g[k], g[k + 1])
    BY DEF Leads
<1>3. PICK h \in [1 .. Len(q) + 1 -> Situations] :
        /\ h[1] = r /\ h[Len(q) + 1] = e
        /\ \A k \in 1 .. Len(q) : Effect(q[k], h[k], h[k + 1])
    BY DEF Leads
<1>4. /\ p \o q \in Seq(I)
      /\ Len(p \o q) = Len(p) + Len(q)
      /\ \A k \in 1 .. Len(p) + Len(q) :
            (p \o q)[k] = IF k <= Len(p) THEN p[k] ELSE q[k - Len(p)]
    BY <1>1, ConcatProperties
<1>5. PICK m \in Nat : m = Len(p)
    BY <1>1
<1>6. PICK n \in Nat : n = Len(q)
    BY <1>1
<1> DEFINE f == [k \in 1 .. m + n + 1 |-> IF k <= m THEN g[k] ELSE h[k - m]]
<1>7. f \in [1 .. m + n + 1 -> Situations]
    BY <1>2, <1>3, <1>5, <1>6
<1>8. f[1] = s /\ f[m + n + 1] = e
    <2>1. CASE m = 0
        BY <2>1, <1>2, <1>3, <1>5, <1>6
    <2>2. CASE m > 0
        BY <2>2, <1>2, <1>3, <1>5, <1>6
    <2> QED
        BY <2>1, <2>2
<1>9. ASSUME NEW k \in 1 .. m + n PROVE Effect((p \o q)[k], f[k], f[k + 1])
    <2>1. CASE k <= m
        <3>1. f[k] = g[k] /\ (p \o q)[k] = p[k] /\ k \in 1 .. m
            BY <2>1, <1>4, <1>5, <1>6
        <3>2. f[k + 1] = g[k + 1]
            <4>1. CASE k + 1 <= m
                BY <4>1
            <4>2. CASE k = m
                BY <4>2, <1>2, <1>3, <1>5, <1>6
            <4> QED
                BY <2>1, <4>1, <4>2
        <3> HIDE DEF f
        <3> QED
            BY <3>1, <3>2, <1>2, <1>5
    <2>2. CASE k > m
        <3>1. PICK j \in 1 .. n : j = k - m
            BY <2>2
        <3>2. f[k] = h[j] /\ f[k + 1] = h[j + 1] /\ (p \o q)[k] = q[j]
            BY <2>2, <3>1, <1>4, <1>5, <1>6
        <3> HIDE DEF f
        <3> QED
            BY <3>1, <3>2, <1>3, <1>6
    <2>3. k <= m \/ k > m
        OBVIOUS
    <2> QED
        BY <2>1, <2>2, <2>3
<1> HIDE DEF f
<1> QED
    BY <1>4, <1>5, <1>6, <1>7, <1>8, <1>9 DEF Leads

\* The first instruction of a program, and what is left of it.
LEMMA LeadsFirst ==
    ASSUME NEW I, NEW p, NEW s, NEW r, Leads(I, p, s, r), p # <<>>
    PROVE  /\ Head(p) \in I
           /\ \E q \in Situations : Effect(Head(p), s, q) /\ Leads(I, Tail(p), q, r)
<1>1. p \in Seq(I) /\ Len(p) \in Nat /\ Len(p) > 0
    BY LenProperties, EmptySeq DEF Leads
<1>2. PICK h \in [1 .. Len(p) + 1 -> Situations] :
        /\ h[1] = s /\ h[Len(p) + 1] = r
        /\ \A k \in 1 .. Len(p) : Effect(p[k], h[k], h[k + 1])
    BY DEF Leads
<1>3. /\ Head(p) = p[1] /\ Head(p) \in I
      /\ Tail(p) \in Seq(I) /\ Len(Tail(p)) = Len(p) - 1
      /\ \A k \in 1 .. Len(p) - 1 : Tail(p)[k] = p[k + 1]
    BY <1>1, HeadTailProperties
<1>4. PICK n \in Nat : n = Len(p) - 1 /\ n + 1 = Len(p)
    BY <1>1
<1> DEFINE g == [k \in 1 .. n + 1 |-> h[k + 1]]
<1>5. g \in [1 .. n + 1 -> Situations] /\ g[1] = h[2] /\ g[n + 1] = r
    BY <1>2, <1>4
<1>6. ASSUME NEW k \in 1 .. n PROVE Effect(Tail(p)[k], g[k], g[k + 1])
    <2>1. g[k] = h[k + 1] /\ g[k + 1] = h[k + 1 + 1] /\ k + 1 \in 1 .. Len(p)
        BY <1>4
    <2>2. Tail(p)[k] = p[k + 1]
        BY <1>3, <1>4
    <2> HIDE DEF g
    <2> QED
        BY <2>1, <2>2, <1>2
<1>7. Leads(I, Tail(p), h[2], r)
    <2> HIDE DEF g
    <2> QED
        BY <1>3, <1>4, <1>5, <1>6 DEF Leads
<1>8. h[2] \in Situations /\ Effect(Head(p), s, h[2])
    BY <1>1, <1>2, <1>3
<1> QED
    BY <1>3, <1>7, <1>8

\* Programs one after the other, each from where the one before it ends.
LEMMA LeadsAlong ==
    ASSUME NEW I, NEW n \in Nat, NEW seqs \in [1 .. n -> Seq(I)],
           NEW g \in [1 .. n + 1 -> Situations],
           \A i \in 1 .. n : Leads(I, seqs[i], g[i], g[i + 1])
    PROVE  Leads(I, FlattenSeq(seqs), g[1], g[n + 1])
<1>1. Len(seqs) = n
    OBVIOUS
<1>2. CASE n = 0
    <2>1. seqs = <<>>
        BY <1>2
    <2>2. FlattenSeq(seqs) = <<>>
        BY <1>1, <1>2, <2>1 DEF FlattenSeq
    <2>3. g[1] \in Situations /\ n + 1 = 1
        BY <1>2
    <2> QED
        BY <2>2, <2>3, LeadsNowhere
<1>3. CASE n # 0
    <2> DEFINE Joined(h, i) == IF i = 1 THEN seqs[i] ELSE h[i - 1] \o seqs[i]
               UpTo(k, h) == \A i \in 1 .. n : i <= k => h[i] = Joined(h, i)
               Bad == {k \in Nat : ~\E h : UpTo(k, h)}
    <2>1. Bad = {}
        <3> SUFFICES ASSUME Bad # {} PROVE FALSE
            OBVIOUS
        <3>1. Bad \subseteq Nat
            OBVIOUS
        <3>2. PICK k \in Bad : \A j \in Bad : k <= j
            <4> HIDE DEF Bad
            <4> QED
                BY <3>1, MinProperties
        <3>3. k \in Nat /\ ~\E h : UpTo(k, h)
            BY <3>2
        <3>4. k # 0
            <4>1. UpTo(0, <<>>)
                OBVIOUS
            <4> HIDE DEF UpTo
            <4> QED
                BY <3>3, <4>1
        <3>5. k - 1 \in Nat /\ ~(k <= k - 1)
            BY <3>3, <3>4
        <3>6. k - 1 \notin Bad
            BY <3>2, <3>5
        <3>7. PICK h : UpTo(k - 1, h)
            <4> HIDE DEF UpTo
            <4> QED
                BY <3>5, <3>6
        <3> DEFINE f == [i \in 1 .. n |-> IF i <= k - 1 THEN h[i] ELSE Joined(h, i)]
        <3>8. \A i \in 1 .. n : f[i] = Joined(h, i)
            BY <3>7
        <3>9. UpTo(k, f)
            <4> SUFFICES ASSUME NEW i \in 1 .. n, i <= k PROVE f[i] = Joined(f, i)
                OBVIOUS
            <4>1. CASE i = 1
                BY <3>8, <4>1
            <4>2. CASE i # 1
                <5>1. i - 1 \in 1 .. n /\ i - 1 <= k - 1
                    BY <4>2, <3>3
                <5>2. f[i - 1] = h[i - 1]
                    BY <5>1
                <5> HIDE DEF f
                <5> QED
                    BY <3>8, <4>2, <5>2
            <4> QED
                BY <4>1, <4>2
        <3> HIDE DEF UpTo
        <3> QED
            BY <3>3, <3>9
    <2>2. PICK h : UpTo(n, h)
        <3> HIDE DEF UpTo
        <3> QED
            BY <2>1
    <2> DEFINE f == [i \in 1 .. n |-> h[i]]
               IsFlat(c) == c = [i \in 1 .. Len(seqs) |-> Joined(c, i)]
    <2>3. IsFlat(f)
        <3>1. ASSUME NEW i \in 1 .. n PROVE f[i] = Joined(f, i)
            <4>1. h[i] = Joined(h, i)
                BY <2>2
            <4>2. i # 1 => i - 1 \in 1 .. n
                OBVIOUS
            <4> QED
                BY <4>1, <4>2
        <3> HIDE DEF Next
        <3> QED
            BY <1>1, <3>1
    <2>4. PICK c : c = (CHOOSE d : IsFlat(d))
        OBVIOUS
    <2>5. IsFlat(c)
        <3> HIDE DEF IsFlat
        <3> QED
            BY <2>3, <2>4
    <2>6. FlattenSeq(seqs) = c[n]
        BY <1>1, <1>3, <2>4 DEF FlattenSeq
    <2>7. \A i \in 1 .. n : c[i] = IF i = 1 THEN seqs[i] ELSE c[i - 1] \o seqs[i]
        BY <1>1, <2>5
    <2> HIDE DEF IsFlat
    <2> DEFINE Off == {i \in 1 .. n : ~Leads(I, c[i], g[1], g[i + 1])}
    <2>8. Off = {}
        <3> SUFFICES ASSUME Off # {} PROVE FALSE
            OBVIOUS
        <3>1. Off \subseteq Nat
            OBVIOUS
        <3>2. PICK i \in Off : \A j \in Off : i <= j
            <4> HIDE DEF Off
            <4> QED
                BY <3>1, MinProperties
        <3>3. i \in 1 .. n /\ ~Leads(I, c[i], g[1], g[i + 1])
            BY <3>2
        <3>4. CASE i = 1
            BY <2>7, <3>3, <3>4
        <3>5. CASE i # 1
            <4>1. i - 1 \in 1 .. n /\ ~(i <= i - 1) /\ (i - 1) + 1 = i
                BY <3>3, <3>5
            <4>2. i - 1 \notin Off
                BY <3>2, <4>1
            <4>3. Leads(I, c[i - 1], g[1], g[i])
                BY <4>1, <4>2
            <4>4. Leads(I, c[i - 1] \o seqs[i], g[1], g[i + 1])
                BY <3>3, <4>3, LeadsOn
            <4> QED
                BY <2>7, <3>3, <3>5, <4>4
        <3> QED
            BY <3>4, <3>5
    <2>9. n \in 1 .. n
        BY <1>3
    <2> QED
        BY <2>6, <2>8, <2>9
<1> QED
    BY <1>2, <1>3

\* A program over and over, which ends where it began.
LEMMA LeadsRoundAndRound ==
    ASSUME NEW I, NEW n \in Nat, NEW seqs \in [1 .. n -> Seq(I)], NEW s \in Situations,
           \A i \in 1 .. n : Leads(I, seqs[i], s, s)
    PROVE  Leads(I, FlattenSeq(seqs), s, s)
<1> DEFINE g == [i \in 1 .. n + 1 |-> s]
<1>1. g \in [1 .. n + 1 -> Situations] /\ g[1] = s /\ g[n + 1] = s
    OBVIOUS
<1>2. \A i \in 1 .. n : g[i] = s /\ g[i + 1] = s
    OBVIOUS
<1> HIDE DEF g
<1>3. \A i \in 1 .. n : Leads(I, seqs[i], g[i], g[i + 1])
    BY <1>2
<1>4. Leads(I, FlattenSeq(seqs), g[1], g[n + 1])
    BY <1>1, <1>3, LeadsAlong
<1> QED
    BY <1>1, <1>4

-------------------------------------------------------------------------------
(* Mutexes *)

\* I has what std::lock_guard needs.
Guards(I) == \A m \in Mutexes : Do("lock", m) \in I /\ Do("unlock", m) \in I

\* A thread that holds the mutexes in H and has d trades to report.
At(s, H, d) == [s EXCEPT !.held = H, !.due = d]

\* A thread that has trades to report holds engine_mutex_.
InOrder(H, d) == H \subseteq Mutexes /\ d \in Nat /\ (d > 0 => "engine" \in H)

\* What At is, and that it is a situation.
LEMMA AtProperties ==
    ASSUME NEW s \in Situations, NEW H, NEW d, InOrder(H, d)
    PROVE  /\ At(s, H, d) \in Situations
           /\ At(s, H, d).held = H /\ At(s, H, d).due = d
           /\ At(s, H, d).running = s.running /\ At(s, H, d).spawned = s.spawned
BY DEF At, InOrder, Situations

\* At, on top of At.
LEMMA AtAgain ==
    ASSUME NEW s \in Situations, NEW H, NEW d, NEW G, NEW e
    PROVE  [At(s, H, d) EXCEPT !.held = G] = At(s, G, d) /\ [At(s, H, d) EXCEPT !.due = e] = At(s, H, e)
BY DEF At, Situations

\* A body under a mutex that comes after all that are held.
LEMMA LeadsGuarded ==
    ASSUME NEW I, Guards(I), NEW m \in Mutexes, NEW s \in Situations, NEW H,
           NEW d, NEW e, InOrder(H, d), InOrder(H, e), \A k \in H : Rank(k) < Rank(m),
           NEW body, Leads(I, body, At(s, H \cup {m}, d), At(s, H \cup {m}, e))
    PROVE  Leads(I, Guarded(m, body), At(s, H, d), At(s, H, e))
<1>1. m \notin H
    BY DEF Rank
<1> DEFINE G == H \cup {m}
<1>2. InOrder(G, d) /\ InOrder(G, e)
    BY DEF InOrder
<1>7. G \ {m} = H /\ m \in G
    BY <1>1
<1> HIDE DEF G
<1>3. /\ At(s, H, d) \in Situations /\ At(s, H, d).held = H
      /\ At(s, G, e) \in Situations /\ At(s, G, e).held = G
      /\ At(s, G, d) \in Situations /\ At(s, H, e) \in Situations
    BY <1>2, AtProperties
<1>4. /\ [At(s, H, d) EXCEPT !.held = G] = At(s, G, d)
      /\ [At(s, G, e) EXCEPT !.held = H] = At(s, H, e)
    BY AtAgain
<1>5. Do("lock", m) \in I /\ Do("unlock", m) \in I
    BY DEF Guards
<1>6. Effect(Do("lock", m), At(s, H, d), At(s, G, d))
    BY <1>3, <1>4 DEF Effect, Do, G
<1>8. Effect(Do("unlock", m), At(s, G, e), At(s, H, e))
    BY <1>3, <1>4, <1>7 DEF Effect, Do
<1>9. Leads(I, <<Do("lock", m)>>, At(s, H, d), At(s, G, d))
    BY <1>3, <1>5, <1>6, LeadsByOne
<1>10. Leads(I, <<Do("unlock", m)>>, At(s, G, e), At(s, H, e))
    BY <1>3, <1>5, <1>8, LeadsByOne
<1>13. Leads(I, body, At(s, G, d), At(s, G, e))
    BY DEF G
<1>11. Leads(I, <<Do("lock", m)>> \o body, At(s, H, d), At(s, G, e))
    BY <1>9, <1>13, LeadsOn
<1>12. Leads(I, (<<Do("lock", m)>> \o body) \o <<Do("unlock", m)>>, At(s, H, d), At(s, H, e))
    BY <1>10, <1>11, LeadsOn
<1> QED
    BY <1>12 DEF Guarded

\* A mutex taken and given back.
LEMMA LeadsThroughMutex ==
    ASSUME NEW I, Guards(I), NEW m \in Mutexes, NEW s \in Situations, NEW H,
           NEW d, InOrder(H, d), \A k \in H : Rank(k) < Rank(m)
    PROVE  Leads(I, Guarded(m, <<>>), At(s, H, d), At(s, H, d))
<1>1. InOrder(H \cup {m}, d)
    BY DEF InOrder
<1>2. At(s, H \cup {m}, d) \in Situations
    BY <1>1, AtProperties
<1> QED
    BY <1>2, LeadsNowhere, LeadsGuarded

\* There are five ranks.
LEMMA RankIsNat == \A m : Rank(m) \in 0 .. 4
BY DEF Rank

\* The mutex of a book comes after that of the engine.
LEMMA SymbolMutexes ==
    ASSUME NEW s \in Symbols
    PROVE  s \in Mutexes /\ Rank(s) = 3
BY ServerAssumption DEF Mutexes, Rank

\* Every mutex can be taken and given back among these instructions.
LEMMA GuardsOfQuiet == Guards(Quiet) /\ Guards(Instructions) /\ Quiet \subseteq Instructions
BY DEF Guards, Quiet, Instructions, Do, Ops

-------------------------------------------------------------------------------
(* The rounds of the threads *)

\* Nothing held and nothing due.
LEMMA FreeIsInOrder == InOrder({}, 0) /\ \A d \in Nat : InOrder({"engine"}, d)
BY DEF InOrder, Mutexes

\* A thread that holds nothing takes a mutex and gives it back.
LEMMA LeadsThroughFree ==
    ASSUME NEW I, Guards(I), NEW m \in Mutexes, NEW s \in Situations
    PROVE  Leads(I, Guarded(m, <<>>), At(s, {}, 0), At(s, {}, 0))
<1>1. \A k \in {} : Rank(k) < Rank(m)
    OBVIOUS
<1> QED
    BY <1>1, FreeIsInOrder, LeadsThroughMutex

\* The mutexes that belong to no symbol.
LEMMA NamedMutexes ==
    {"config", "orders", "engine", "subscribers", "connections"} \subseteq Mutexes
BY DEF Mutexes

\* A look at a book, and another.
LEMMA LeadsReadBook ==
    ASSUME NEW b \in Symbols, NEW s \in Situations
    PROVE  Leads(Instructions, ReadBook(b), At(s, {}, 0), At(s, {}, 0))
<1> DEFINE free == At(s, {}, 0)
<1>1. Leads(Instructions, Guarded("engine", <<>>), free, free)
    BY LeadsThroughFree, GuardsOfQuiet, NamedMutexes
<1>2. Leads(Instructions, Guarded(b, <<>>), free, free)
    BY LeadsThroughFree, GuardsOfQuiet, SymbolMutexes
<1> HIDE DEF free
<1>3. Leads(Instructions, Guarded("engine", <<>>) \o Guarded(b, <<>>), free, free)
    BY <1>1, <1>2, LeadsOn
<1>4. Leads(Instructions, (Guarded("engine", <<>>) \o Guarded(b, <<>>)) \o Guarded(b, <<>>), free, free)
    BY <1>2, <1>3, LeadsOn
<1> QED
    BY <1>4 DEF ReadBook, GetOrderBook, free

\* What is held when an order is submitted: nothing, or orders_mutex_.
Submitters == {{}, {"orders"}}

\* And while it is matched and reported.
InEngine(H) == H \cup {"engine"}

\* orders comes before engine, and engine before books and subscribers.
LEMMA InEngineProperties ==
    ASSUME NEW H \in Submitters
    PROVE  /\ H \subseteq Mutexes /\ InEngine(H) \subseteq Mutexes
           /\ InOrder(H, 0)
           /\ \A d \in Nat : InOrder(InEngine(H), d)
           /\ \A m \in H : Rank(m) < Rank("engine")
           /\ \A m \in InEngine(H) : Rank(m) < 3
BY DEF Submitters, InEngine, InOrder, Mutexes, Rank

\* What is held when a trade is reported: engine_mutex_ and what was held before
\* it, and the mutex of the book as long as the order is matched.
Reporters ==
    {InEngine(H) : H \in Submitters} \cup {InEngine(H) \cup {b} : H \in Submitters, b \in Symbols}

\* The mutex of the subscribers comes after them.
LEMMA ReportersProperties ==
    ASSUME NEW K \in Reporters
    PROVE  /\ \A d \in Nat : InOrder(K, d)
           /\ \A m \in K : Rank(m) < Rank("subscribers")
<1>1. Rank("subscribers") = 4
    BY DEF Rank
<1>2. CASE \E H \in Submitters : K = InEngine(H)
    <2>1. PICK H \in Submitters : K = InEngine(H)
        BY <1>2
    <2>2. \A m \in K : Rank(m) \in 0 .. 4 /\ Rank(m) < 3
        BY <2>1, InEngineProperties, RankIsNat
    <2> QED
        BY <1>1, <2>1, <2>2, InEngineProperties
<1>3. CASE \E H \in Submitters, b \in Symbols : K = InEngine(H) \cup {b}
    <2>1. PICK H \in Submitters, b \in Symbols : K = InEngine(H) \cup {b}
        BY <1>3
    <2>2. b \in Mutexes /\ Rank(b) = 3
        BY SymbolMutexes
    <2>3. \A m \in InEngine(H) : Rank(m) \in 0 .. 4 /\ Rank(m) < 3
        BY InEngineProperties, RankIsNat
    <2>4. \A d \in Nat : InOrder(InEngine(H), d)
        BY InEngineProperties
    <2> QED
        BY <1>1, <2>1, <2>2, <2>3, <2>4 DEF InOrder
<1> QED
    BY <1>2, <1>3 DEF Reporters

\* A trade is reported to the subscribers.
LEMMA LeadsBroadcastTrade ==
    ASSUME NEW s \in Situations, NEW K \in Reporters, NEW d \in Nat, d > 0
    PROVE  Leads(Instructions, BroadcastTrade, At(s, K, d), At(s, K, d - 1))
<1> DEFINE G == K \cup {"subscribers"}
<1>1. InOrder(K, d) /\ InOrder(K, d - 1)
    BY ReportersProperties
<1>2. InOrder(G, d) /\ InOrder(G, d - 1)
    BY <1>1, NamedMutexes DEF InOrder
<1> HIDE DEF G
<1>3. /\ At(s, G, d) \in Situations /\ At(s, G, d).due = d
      /\ At(s, G, d - 1) \in Situations
    BY <1>2, AtProperties
<1>4. [At(s, G, d) EXCEPT !.due = d - 1] = At(s, G, d - 1)
    BY AtAgain
<1>5. Effect(Do("deliver", None), At(s, G, d), At(s, G, d - 1))
    BY <1>3, <1>4 DEF Effect, Do
<1>6. Do("deliver", None) \in Instructions
    BY DEF Instructions, Do, Ops
<1>7. Leads(Instructions, <<Do("deliver", None)>>, At(s, G, d), At(s, G, d - 1))
    BY <1>3, <1>5, <1>6, LeadsByOne
<1>8. \A k \in K : Rank(k) < Rank("subscribers")
    BY ReportersProperties
<1>9. "subscribers" \in Mutexes
    BY NamedMutexes
<1>10. Leads(Instructions, Guarded("subscribers", <<Do("deliver", None)>>), At(s, K, d), At(s, K, d - 1))
    BY <1>1, <1>7, <1>8, <1>9, GuardsOfQuiet, LeadsGuarded DEF G
<1> QED
    BY <1>10 DEF BroadcastTrade

\* All trades of an order are, and d reports are left.
LEMMA LeadsReports ==
    ASSUME NEW s \in Situations, NEW K \in Reporters, NEW n \in Nat, NEW d \in Nat
    PROVE  Leads(Instructions, Times(n, BroadcastTrade), At(s, K, d + n), At(s, K, d))
<1> DEFINE Left(i) == d + (n + 1 - i)
           seqs == [i \in 1 .. n |-> BroadcastTrade]
           g == [i \in 1 .. n + 1 |-> At(s, K, Left(i))]
<1>1. \A i \in 1 .. n + 1 : Left(i) \in Nat
    OBVIOUS
<1>2. \A i \in 1 .. n : Left(i) \in Nat /\ Left(i) > 0 /\ Left(i + 1) = Left(i) - 1
    OBVIOUS
<1>3. Left(1) = d + n /\ Left(n + 1) = d
    OBVIOUS
<1>4. \A i \in 1 .. n : i \in 1 .. n + 1 /\ i + 1 \in 1 .. n + 1
    OBVIOUS
<1>5. 1 \in 1 .. n + 1 /\ n + 1 \in 1 .. n + 1
    OBVIOUS
<1> HIDE DEF Left
<1>6. \A i \in 1 .. n + 1 : At(s, K, Left(i)) \in Situations
    BY <1>1, ReportersProperties, AtProperties
<1>7. g \in [1 .. n + 1 -> Situations]
    BY <1>6
<1>8. \A i \in 1 .. n : seqs[i] = BroadcastTrade /\ g[i] = At(s, K, Left(i)) /\ g[i + 1] = At(s, K, Left(i + 1))
    BY <1>4
<1>9. g[1] = At(s, K, d + n) /\ g[n + 1] = At(s, K, d)
    BY <1>3, <1>5
<1>10. ASSUME NEW i \in 1 .. n
       PROVE  Leads(Instructions, BroadcastTrade, At(s, K, Left(i)), At(s, K, Left(i + 1)))
    <2>1. PICK k \in Nat : k = Left(i) /\ k > 0 /\ Left(i + 1) = k - 1
        BY <1>2
    <2> QED
        BY <2>1, LeadsBroadcastTrade
<1>11. \A i \in 1 .. n : BroadcastTrade \in Seq(Instructions)
    BY <1>10, LeadsBetween
<1>12. seqs \in [1 .. n -> Seq(Instructions)]
    BY <1>11
<1>13. FlattenSeq(seqs) = Times(n, BroadcastTrade)
    BY DEF Times
<1> HIDE DEF seqs, g
<1>14. Leads(Instructions, FlattenSeq(seqs), g[1], g[n + 1])
    BY <1>7, <1>8, <1>10, <1>12, LeadsAlong
<1> QED
    BY <1>9, <1>13, <1>14

\* add_order under the mutex of its book, its trades reported a first time.
LEMMA LeadsAddOrder ==
    ASSUME NEW b \in Symbols, NEW n \in Nat, NEW s \in Situations, NEW H \in Submitters
    PROVE  Leads(Instructions, AddOrder(b, n), At(s, InEngine(H), 0), At(s, InEngine(H), n))
<1> DEFINE G == InEngine(H) \cup {b}
<1>1. InOrder(InEngine(H), 0) /\ InOrder(InEngine(H), n) /\ n + n \in Nat
    BY InEngineProperties
<1>2. b \in Mutexes /\ Rank(b) = 3
    BY SymbolMutexes
<1>3. G \in Reporters /\ "engine" \in G
    BY DEF Reporters, InEngine
<1> HIDE DEF G
<1>4. InOrder(G, 0) /\ InOrder(G, n + n)
    BY <1>1, <1>3, ReportersProperties
<1>5. /\ At(s, G, 0) \in Situations /\ At(s, G, 0).due = 0 /\ At(s, G, 0).held = G
      /\ At(s, G, n + n) \in Situations
    BY <1>4, AtProperties
<1>6. [At(s, G, 0) EXCEPT !.due = n + n] = At(s, G, n + n)
    BY AtAgain
<1>7. Effect(Do("match", n), At(s, G, 0), At(s, G, n + n))
    BY <1>3, <1>5, <1>6 DEF Effect, Do
<1>8. Do("match", n) \in Instructions
    BY DEF Instructions, Do, Ops
<1>9. Leads(Instructions, <<Do("match", n)>>, At(s, G, 0), At(s, G, n + n))
    BY <1>5, <1>7, <1>8, LeadsByOne
<1>10. Leads(Instructions, Times(n, BroadcastTrade), At(s, G, n + n), At(s, G, n))
    BY <1>3, LeadsReports
<1>11. Leads(Instructions, <<Do("match", n)>> \o Times(n, BroadcastTrade), At(s, G, 0), At(s, G, n))
    BY <1>9, <1>10, LeadsOn
<1>12. \A k \in InEngine(H) : Rank(k) < Rank(b)
    BY <1>2, InEngineProperties
<1> DEFINE body == <<Do("match", n)>> \o Times(n, BroadcastTrade)
<1>13. Leads(Instructions, body, At(s, InEngine(H) \cup {b}, 0), At(s, InEngine(H) \cup {b}, n))
    BY <1>11 DEF G
<1>14. AddOrder(b, n) = Guarded(b, body)
    BY DEF AddOrder
<1> HIDE DEF body
<1>15. Leads(Instructions, Guarded(b, body), At(s, InEngine(H), 0), At(s, InEngine(H), n))
    BY <1>1, <1>2, <1>12, <1>13, GuardsOfQuiet, LeadsGuarded
<1> QED
    BY <1>14, <1>15

\* submit_order, also of check_triggers: its trades reported a second time.
LEMMA LeadsSubmitOrder ==
    ASSUME NEW b \in Symbols, NEW n \in Nat, NEW s \in Situations, NEW H \in Submitters
    PROVE  Leads(Instructions, SubmitOrder(b, n), At(s, H, 0), At(s, H, 0))
<1> DEFINE body == AddOrder(b, n) \o Times(n, BroadcastTrade)
<1>1. Leads(Instructions, Times(n, BroadcastTrade), At(s, InEngine(H), n), At(s, InEngine(H), 0))
    <2>1. InEngine(H) \in Reporters /\ 0 + n = n
        BY DEF Reporters
    <2>2. Leads(Instructions, Times(n, BroadcastTrade), At(s, InEngine(H), 0 + n), At(s, InEngine(H), 0))
        BY <2>1, LeadsReports
    <2> QED
        BY <2>1, <2>2
<1>2. Leads(Instructions, body, At(s, InEngine(H), 0), At(s, InEngine(H), 0))
    BY <1>1, LeadsAddOrder, LeadsOn
<1> HIDE DEF body
<1>3. Leads(Instructions, body, At(s, H \cup {"engine"}, 0), At(s, H \cup {"engine"}, 0))
    BY <1>2 DEF InEngine
<1>4. Leads(Instructions, Guarded("engine", body), At(s, H, 0), At(s, H, 0))
    BY <1>3, InEngineProperties, NamedMutexes, GuardsOfQuiet, LeadsGuarded
<1> QED
    BY <1>4 DEF SubmitOrder, body

\* No run has more trades than MaxTrades.
LEMMA MaxTradesIsNat == MaxTrades \in Nat /\ \A b \in Bounds : b.trades <= MaxTrades
<1> DEFINE S == {0} \cup {b.trades : b \in Bounds}
<1>1. \A b \in Bounds : b.trades \in Nat
    BY ServerAssumption
<1>2. S \subseteq Nat /\ S # {}
    BY <1>1
<1>3. IsFiniteSet(S)
    <2>1. IsFiniteSet({b.trades : b \in Bounds})
        <3> DEFINE f == [b \in Bounds |-> b.trades]
        <3>1. \A y \in {b.trades : b \in Bounds} : \E b \in Bounds : f[b] = y
            OBVIOUS
        <3>2. f \in [Bounds -> {b.trades : b \in Bounds}]
            OBVIOUS
        <3>3. f \in Surjection(Bounds, {b.trades : b \in Bounds})
            BY <3>1, <3>2 DEF Surjection
        <3> QED
            BY <3>3, FS_Surjection, ServerAssumption
    <2> QED
        BY <2>1, FS_AddElement
<1> HIDE DEF S
<1> DEFINE f == [x \in S |-> x]
<1>4. \A x \in S : f[x] \in Nat /\ f[x] = x
    BY <1>2
<1> HIDE DEF f
<1>5. PICK n \in Nat : n = SumFunctionOnSet(f, S)
    BY <1>3, <1>4, SumIsNat
<1>6. \A x \in S : x <= n
    BY <1>3, <1>4, <1>5, SumIsNat
<1>7. Max(S) \in S /\ \A x \in S : x <= Max(S)
    BY <1>2, <1>6, MaxProperties
<1>8. MaxTrades = Max(S)
    BY DEF MaxTrades, S
<1>9. \A b \in Bounds : b.trades \in S
    BY DEF S
<1> QED
    BY <1>2, <1>7, <1>8, <1>9

\* Two mutexes with nothing to do but take them, as in cancel_order.
LEMMA LeadsNested ==
    ASSUME NEW m \in Mutexes, NEW k \in Mutexes, Rank(m) < Rank(k), NEW s \in Situations
    PROVE  Leads(Instructions, Guarded(m, Guarded(k, <<>>)), At(s, {}, 0), At(s, {}, 0))
<1> DEFINE H == {} \cup {m}
<1>1. InOrder(H, 0) /\ InOrder({}, 0) /\ \A j \in H : Rank(j) < Rank(k)
    BY DEF InOrder
<1> HIDE DEF H
<1>2. Leads(Instructions, Guarded(k, <<>>), At(s, H, 0), At(s, H, 0))
    BY <1>1, GuardsOfQuiet, LeadsThroughMutex
<1>3. \A j \in {} : Rank(j) < Rank(m)
    OBVIOUS
<1> QED
    BY <1>1, <1>2, <1>3, GuardsOfQuiet, LeadsGuarded DEF H

\* The price loop with its triggers.
LEMMA LeadsCheckTriggers ==
    ASSUME NEW b \in Symbols, NEW c \in CheckTriggers(b), NEW s \in Situations
    PROVE  Leads(Instructions, c, At(s, {}, 0), At(s, {}, 0))
<1>1. PICK ns \in SeqOf(0 .. MaxTrades, MaxStops) :
        c = Guarded("orders", FlattenSeq([i \in 1 .. Len(ns) |-> SubmitOrder(b, ns[i])]))
    BY DEF CheckTriggers
<1>2. PICK m \in 0 .. MaxStops : ns \in [1 .. m -> 0 .. MaxTrades]
    BY DEF SeqOf
<1>3. m \in Nat /\ Len(ns) = m
    BY <1>2, ServerAssumption
<1> DEFINE H == {} \cup {"orders"}
           seqs == [i \in 1 .. m |-> SubmitOrder(b, ns[i])]
<1>4. H \in Submitters /\ InOrder(H, 0) /\ InOrder({}, 0)
    BY NamedMutexes DEF Submitters, InOrder
<1> HIDE DEF H
<1>5. At(s, H, 0) \in Situations
    BY <1>4, AtProperties
<1>6. \A i \in 1 .. m : Leads(Instructions, SubmitOrder(b, ns[i]), At(s, H, 0), At(s, H, 0))
    <2>1. \A i \in 1 .. m : ns[i] \in Nat
        BY <1>2, MaxTradesIsNat
    <2> QED
        BY <1>4, <2>1, LeadsSubmitOrder
<1>7. \A i \in 1 .. m : SubmitOrder(b, ns[i]) \in Seq(Instructions)
    BY <1>6, LeadsBetween
<1>8. seqs \in [1 .. m -> Seq(Instructions)] /\ \A i \in 1 .. m : seqs[i] = SubmitOrder(b, ns[i])
    BY <1>7
<1>9. c = Guarded("orders", FlattenSeq(seqs))
    BY <1>1, <1>3
<1> HIDE DEF seqs
<1>10. Leads(Instructions, FlattenSeq(seqs), At(s, H, 0), At(s, H, 0))
    BY <1>3, <1>5, <1>6, <1>8, LeadsRoundAndRound
<1>11. \A j \in {} : Rank(j) < Rank("orders")
    OBVIOUS
<1>12. "orders" \in Mutexes
    BY NamedMutexes
<1> QED
    BY <1>4, <1>9, <1>10, <1>11, <1>12, GuardsOfQuiet, LeadsGuarded DEF H

\* The feed looks at one symbol.
LEMMA LeadsFeedSymbol ==
    ASSUME NEW b \in Symbols, NEW bbo \in {<<>>, Broadcast}, NEW depth \in {<<>>, Broadcast},
           NEW s \in Situations
    PROVE  Leads(Instructions, ReadBook(b) \o bbo \o ReadBook(b) \o depth, At(s, {}, 0), At(s, {}, 0))
<1> DEFINE free == At(s, {}, 0)
<1>1. free \in Situations
    BY FreeIsInOrder, AtProperties
<1>2. Leads(Instructions, ReadBook(b), free, free)
    BY LeadsReadBook
<1>3. \A x \in {<<>>, Broadcast} : Leads(Instructions, x, free, free)
    <2>1. Leads(Instructions, <<>>, free, free)
        BY <1>1, LeadsNowhere
    <2>2. Leads(Instructions, Broadcast, free, free)
        BY GuardsOfQuiet, NamedMutexes, LeadsThroughFree DEF Broadcast
    <2> QED
        BY <2>1, <2>2
<1> HIDE DEF free
<1>4. Leads(Instructions, ReadBook(b) \o bbo, free, free)
    BY <1>2, <1>3, LeadsOn
<1>5. Leads(Instructions, (ReadBook(b) \o bbo) \o ReadBook(b), free, free)
    BY <1>2, <1>4, LeadsOn
<1>6. Leads(Instructions, ((ReadBook(b) \o bbo) \o ReadBook(b)) \o depth, free, free)
    BY <1>3, <1>5, LeadsOn
<1> QED
    BY <1>6 DEF free

\* Every round of every thread gives back what it takes, takes it in order, and
\* reports the trades it makes.
LEMMA RoundsLeadBack ==
    ASSUME NEW t \in Threads, NEW round \in Rounds[t], NEW s \in Situations,
           s.held = {}, s.due = 0
    PROVE  Leads(Instructions, round, s, s)
<1> DEFINE free == At(s, {}, 0)
<1>1. free = s
    BY DEF At, Situations
<1>2. \A b \in Symbols : Leads(Instructions, ReadBook(b), free, free)
    BY LeadsReadBook
<1>3. \A b \in Symbols, n \in 0 .. MaxTrades : Leads(Instructions, SubmitOrder(b, n), free, free)
    <2>1. {} \in Submitters /\ \A n \in 0 .. MaxTrades : n \in Nat
        BY MaxTradesIsNat DEF Submitters
    <2> QED
        BY <2>1, LeadsSubmitOrder
<1>4. Leads(Instructions, round, free, free)
    <2>1. CASE t = "main"
        <3>1. round \in PriceRounds
            BY <2>1 DEF Rounds
        <3>2. CASE round \in {ReadBook(b) : b \in Symbols}
            BY <1>2, <3>2
        <3>3. CASE \E b \in Symbols : \E c \in CheckTriggers(b) : round = ReadBook(b) \o c
            <4>1. PICK b \in Symbols : \E c \in CheckTriggers(b) : round = ReadBook(b) \o c
                BY <3>3
            <4>3. PICK c \in CheckTriggers(b) : round = ReadBook(b) \o c
                BY <4>1
            <4>2. Leads(Instructions, c, free, free)
                BY LeadsCheckTriggers
            <4> HIDE DEF free
            <4> QED
                BY <1>2, <4>2, <4>3, LeadsOn
        <3> QED
            BY <3>1, <3>2, <3>3 DEF PriceRounds
    <2>2. CASE t = "feed"
        <3>1. PICK bbo \in {<<>>, Broadcast}, depth \in {<<>>, Broadcast} :
                round = FlattenSeq([i \in 1 .. Len(FeedSymbols) |->
                            ReadBook(FeedSymbols[i]) \o bbo \o ReadBook(FeedSymbols[i]) \o depth])
            BY <2>2 DEF Rounds, FeedRounds
        <3>2. Len(FeedSymbols) \in Nat /\ \A i \in 1 .. Len(FeedSymbols) : FeedSymbols[i] \in Symbols
            BY ServerAssumption, LenProperties, ElementOfSeq
        <3> DEFINE seqs == [i \in 1 .. Len(FeedSymbols) |->
                                ReadBook(FeedSymbols[i]) \o bbo \o ReadBook(FeedSymbols[i]) \o depth]
        <3>3. \A i \in 1 .. Len(FeedSymbols) :
                Leads(Instructions, ReadBook(FeedSymbols[i]) \o bbo \o ReadBook(FeedSymbols[i]) \o depth,
                      free, free)
            BY <3>2, LeadsFeedSymbol
        <3>4. \A i \in 1 .. Len(FeedSymbols) :
                ReadBook(FeedSymbols[i]) \o bbo \o ReadBook(FeedSymbols[i]) \o depth \in Seq(Instructions)
            BY <3>3, LeadsBetween
        <3>5. seqs \in [1 .. Len(FeedSymbols) -> Seq(Instructions)]
            BY <3>4
        <3>6. \A i \in 1 .. Len(FeedSymbols) : Leads(Instructions, seqs[i], free, free)
            BY <3>3
        <3>7. free \in Situations
            BY <1>1
        <3> HIDE DEF seqs, free
        <3>8. Leads(Instructions, FlattenSeq(seqs), free, free)
            BY <3>2, <3>5, <3>6, <3>7, LeadsRoundAndRound
        <3> QED
            BY <3>1, <3>8 DEF seqs
    <2>3. CASE t = "health"
        BY <1>2, <2>3, ServerAssumption DEF Rounds, HealthRounds
    <2>4. CASE t = "snapshots"
        <3>1. PICK b \in Symbols : round = Guarded("config", <<>>) \o ReadBook(b)
            BY <2>4 DEF Rounds, SnapshotRounds
        <3>2. Leads(Instructions, Guarded("config", <<>>), free, free)
            BY GuardsOfQuiet, NamedMutexes, LeadsThroughFree
        <3> HIDE DEF free
        <3> QED
            BY <1>2, <3>1, <3>2, LeadsOn
    <2>5. CASE t = "server"
        <3>1. round \in RequestRounds
            BY <2>5 DEF Rounds
        <3>2. CASE round \in Submissions
            BY <1>3, <3>2 DEF Submissions
        <3>3. CASE round \in {CancelOrder(b) : b \in Symbols}
            <4>1. PICK b \in Symbols : round = Guarded("engine", Guarded(b, <<>>))
                BY <3>3 DEF CancelOrder
            <4>2. b \in Mutexes /\ "engine" \in Mutexes /\ Rank("engine") < Rank(b)
                BY SymbolMutexes, NamedMutexes DEF Rank
            <4> QED
                BY <4>1, <4>2, LeadsNested
        <3>4. CASE round = Guarded("subscribers", <<>>)
            BY <3>4, GuardsOfQuiet, NamedMutexes, LeadsThroughFree
        <3>5. CASE round = Guarded("connections", Guarded("subscribers", <<>>))
            <4>1. "connections" \in Mutexes /\ "subscribers" \in Mutexes
                  /\ Rank("connections") < Rank("subscribers")
                BY NamedMutexes DEF Rank
            <4> QED
                BY <3>5, <4>1, LeadsNested
        <3> QED
            BY <3>1, <3>2, <3>3, <3>4, <3>5 DEF RequestRounds
    <2> QED
        BY <2>1, <2>2, <2>3, <2>4, <2>5 DEF Threads
<1> QED
    BY <1>1, <1>4

-------------------------------------------------------------------------------
(* Start-up *)

\* Before start-up has come to its end: nothing held, nothing due.
Booting(started, threads) ==
    [held |-> {}, due |-> 0, running |-> started, spawned |-> threads]

\* The situations of start-up.
LEMMA BootingProperties ==
    ASSUME NEW R \in SUBSET Services, NEW T \in SUBSET (Threads \ {"main"}),
           "snapshots" \in T => R = Services /\ Services \subseteq T
    PROVE  Booting(R, T) \in Situations /\ At(Booting(R, T), {}, 0) = Booting(R, T)
<1>1. /\ Booting(R, T).held = {} /\ Booting(R, T).due = 0
      /\ Booting(R, T).running = R /\ Booting(R, T).spawned = T
      /\ Booting(R, T) \in [held : SUBSET Mutexes, due : Nat,
                            running : SUBSET Services, spawned : SUBSET (Threads \ {"main"})]
    BY DEF Booting
<1>2. Booting(R, T) \in Situations
    BY <1>1 DEF Situations
<1>3. At(Booting(R, T), {}, 0) = Booting(R, T)
    BY <1>1, <1>2 DEF At, Situations
<1> QED
    BY <1>2, <1>3

\* A mutex taken and given back during start-up, some number of times.
LEMMA LeadsThroughBoot ==
    ASSUME NEW m \in Mutexes, NEW R \in SUBSET Services, NEW T \in SUBSET (Threads \ {"main", "snapshots"}),
           NEW n \in Nat
    PROVE  /\ Leads(Quiet, Guarded(m, <<>>), Booting(R, T), Booting(R, T))
           /\ Leads(Quiet, Times(n, Guarded(m, <<>>)), Booting(R, T), Booting(R, T))
<1> DEFINE s == Booting(R, T)
<1>1. s \in Situations /\ At(s, {}, 0) = s
    BY BootingProperties
<1> HIDE DEF s
<1>2. Leads(Quiet, Guarded(m, <<>>), At(s, {}, 0), At(s, {}, 0))
    BY <1>1, GuardsOfQuiet, LeadsThroughFree
<1>3. Leads(Quiet, Guarded(m, <<>>), s, s)
    BY <1>1, <1>2
<1> DEFINE seqs == [i \in 1 .. n |-> Guarded(m, <<>>)]
<1>4. seqs \in [1 .. n -> Seq(Quiet)]
    BY <1>3, LeadsBetween
<1>5. \A i \in 1 .. n : Leads(Quiet, seqs[i], s, s)
    BY <1>3
<1>6. Times(n, Guarded(m, <<>>)) = FlattenSeq(seqs)
    BY DEF Times
<1> HIDE DEF seqs
<1>7. Leads(Quiet, FlattenSeq(seqs), s, s)
    BY <1>1, <1>4, <1>5, LeadsRoundAndRound
<1> QED
    BY <1>3, <1>6, <1>7 DEF s

\* running_ = true, or the start of a thread.
LEMMA LeadsByStarting ==
    ASSUME NEW R \in SUBSET Services, NEW T \in SUBSET (Threads \ {"main", "snapshots"})
    PROVE  /\ \A x \in Services :
                Leads(Quiet, <<Do("run", x)>>, Booting(R, T), Booting(R \cup {x}, T))
           /\ \A t \in Threads \ {"main"} :
                (t = "snapshots" => R = Services /\ Services \subseteq T) =>
                    Leads(Quiet, <<Do("spawn", t)>>, Booting(R, T), Booting(R, T \cup {t}))
<1>1. Services \subseteq {"feed", "health"}
    BY ServerAssumption
<1>2. ASSUME NEW x \in Services
      PROVE  Leads(Quiet, <<Do("run", x)>>, Booting(R, T), Booting(R \cup {x}, T))
    <2>1. Do("run", x) \in Quiet
        BY <1>1 DEF Quiet, Instructions, Do, Ops, Threads
    <2>2. Booting(R, T) \in Situations /\ Booting(R \cup {x}, T) \in Situations
        BY BootingProperties
    <2>3. Effect(Do("run", x), Booting(R, T), Booting(R \cup {x}, T))
        BY DEF Effect, Do, Booting
    <2> QED
        BY <2>1, <2>2, <2>3, LeadsByOne
<1>3. ASSUME NEW t \in Threads \ {"main"}, t = "snapshots" => R = Services /\ Services \subseteq T
      PROVE  Leads(Quiet, <<Do("spawn", t)>>, Booting(R, T), Booting(R, T \cup {t}))
    <2>1. Do("spawn", t) \in Quiet
        BY DEF Quiet, Instructions, Do, Ops
    <2>2. Booting(R, T) \in Situations /\ Booting(R, T \cup {t}) \in Situations
        BY <1>3, BootingProperties
    <2>3. Effect(Do("spawn", t), Booting(R, T), Booting(R, T \cup {t}))
        BY DEF Effect, Do, Booting
    <2> QED
        BY <2>1, <2>2, <2>3, LeadsByOne
<1> QED
    BY <1>2, <1>3

\* start of a service, if main has it.
LEMMA LeadsByStart ==
    ASSUME NEW x \in {"feed", "health"}, NEW R \in SUBSET Services,
           NEW T \in SUBSET (Threads \ {"main", "snapshots"})
    PROVE  Leads(Quiet, Start(x), Booting(R, T), Booting(R \cup ({x} \cap Services), T \cup ({x} \cap Services)))
<1>1. CASE x \in Services
    <2>1. {x} \cap Services = {x} /\ R \cup {x} \in SUBSET Services /\ x \in Threads \ {"main"} /\ x # "snapshots"
        BY <1>1 DEF Threads
    <2>2. Leads(Quiet, <<Do("run", x)>>, Booting(R, T), Booting(R \cup {x}, T))
        BY <1>1, LeadsByStarting
    <2>3. Leads(Quiet, <<Do("spawn", x)>>, Booting(R \cup {x}, T), Booting(R \cup {x}, T \cup {x}))
        BY <2>1, LeadsByStarting
    <2>4. Leads(Quiet, <<Do("run", x)>> \o <<Do("spawn", x)>>, Booting(R, T), Booting(R \cup {x}, T \cup {x}))
        BY <2>2, <2>3, LeadsOn
    <2>5. Start(x) = <<Do("run", x)>> \o <<Do("spawn", x)>>
        BY <1>1 DEF Start
    <2> QED
        BY <2>1, <2>4, <2>5
<1>2. CASE x \notin Services
    <2>1. R \cup ({x} \cap Services) = R /\ T \cup ({x} \cap Services) = T
        BY <1>2
    <2> QED
        BY <1>2, <2>1, BootingProperties, LeadsNowhere DEF Start
<1> QED
    BY <1>1, <1>2

\* main leaves start-up with every service started, and the snapshots last.
LEMMA BootLeadsUp ==
    LET up == Booting(Services, Services \cup {"server", "snapshots"})
    IN  up \in Situations /\ Leads(Quiet, Boot("present"), Booting({}, {}), up)
<1> DEFINE up == Booting(Services, Services \cup {"server", "snapshots"})
           zero == Booting({}, {})
           served == Booting({}, {"server"})
           fed == Booting({"feed"} \cap Services, {"server"} \cup ({"feed"} \cap Services))
           all == Booting(Services, {"server"} \cup Services)
<1>1. Services \subseteq {"feed", "health"}
    BY ServerAssumption
<1>2. /\ {} \in SUBSET Services /\ {} \in SUBSET (Threads \ {"main", "snapshots"})
      /\ {"server"} \in SUBSET (Threads \ {"main", "snapshots"})
      /\ {"feed"} \cap Services \in SUBSET Services
      /\ {"server"} \cup ({"feed"} \cap Services) \in SUBSET (Threads \ {"main", "snapshots"})
      /\ {"server"} \cup Services \in SUBSET (Threads \ {"main", "snapshots"})
      /\ Services \cup {"server", "snapshots"} \in SUBSET (Threads \ {"main"})
    BY <1>1 DEF Threads
<1>3. up \in Situations
    BY <1>2, BootingProperties
<1>4. "config" \in Mutexes /\ "engine" \in Mutexes /\ 2 \in Nat /\ Cardinality(Symbols) \in Nat
    BY NamedMutexes, ServerAssumption, FS_CardinalityType
<1>5. \A n \in Nat, m \in {"config", "engine"} :
        /\ Leads(Quiet, Guarded(m, <<>>), zero, zero)
        /\ Leads(Quiet, Times(n, Guarded(m, <<>>)), zero, zero)
    BY <1>2, <1>4, LeadsThroughBoot
<1>6. Leads(Quiet, <<Do("spawn", "server")>>, zero, served)
    <2>1. {} \cup {"server"} = {"server"} /\ "server" \in Threads \ {"main"} /\ "server" # "snapshots"
        BY DEF Threads
    <2> QED
        BY <1>2, <2>1, LeadsByStarting
<1>7. Leads(Quiet, Start("feed"), served, fed)
    <2>1. {} \cup ({"feed"} \cap Services) = {"feed"} \cap Services
        OBVIOUS
    <2>2. Leads(Quiet, Start("feed"), Booting({}, {"server"}),
                Booting({} \cup ({"feed"} \cap Services), {"server"} \cup ({"feed"} \cap Services)))
        BY <1>2, LeadsByStart
    <2> QED
        BY <2>1, <2>2
<1>8. Leads(Quiet, Start("health"), fed, all)
    <2>1. /\ ({"feed"} \cap Services) \cup ({"health"} \cap Services) = Services
          /\ ({"server"} \cup ({"feed"} \cap Services)) \cup ({"health"} \cap Services) = {"server"} \cup Services
        BY <1>1
    <2>2. Leads(Quiet, Start("health"), fed,
                Booting(({"feed"} \cap Services) \cup ({"health"} \cap Services),
                        ({"server"} \cup ({"feed"} \cap Services)) \cup ({"health"} \cap Services)))
        BY <1>2, LeadsByStart
    <2> QED
        BY <2>1, <2>2
<1>9. Leads(Quiet, <<Do("spawn", "snapshots")>>, all, up)
    <2>1. /\ ({"server"} \cup Services) \cup {"snapshots"} = Services \cup {"server", "snapshots"}
          /\ "snapshots" \in Threads \ {"main"} /\ Services \subseteq {"server"} \cup Services
          /\ Services \in SUBSET Services
        BY DEF Threads
    <2>2. Leads(Quiet, <<Do("spawn", "snapshots")>>, all, Booting(Services, ({"server"} \cup Services) \cup {"snapshots"}))
        BY <1>2, <2>1, LeadsByStarting
    <2> QED
        BY <2>1, <2>2
<1> HIDE DEF up, zero, served, fed, all
<1>10. Leads(Quiet, LoadConfig("present"), zero, zero)
    BY <1>5 DEF LoadConfig
<1>11. Leads(Quiet, LoadConfig("present") \o Guarded("config", <<>>), zero, zero)
    BY <1>5, <1>10, LeadsOn
<1>12. Leads(Quiet, (LoadConfig("present") \o Guarded("config", <<>>))
                    \o Times(2, Guarded("engine", <<>>)), zero, zero)
    BY <1>4, <1>5, <1>11, LeadsOn
<1>13. Leads(Quiet, ((LoadConfig("present") \o Guarded("config", <<>>))
                    \o Times(2, Guarded("engine", <<>>))) \o Times(2, Guarded("config", <<>>)), zero, zero)
    BY <1>4, <1>5, <1>12, LeadsOn
<1> DEFINE built == (((LoadConfig("present") \o Guarded("config", <<>>))
                    \o Times(2, Guarded("engine", <<>>))) \o Times(2, Guarded("config", <<>>)))
                    \o Times(Cardinality(Symbols), Guarded("engine", <<>>))
<1>14. Leads(Quiet, built, zero, zero)
    BY <1>4, <1>5, <1>13, LeadsOn
<1>15. Boot("present") = (((built \o <<Do("spawn", "server")>>) \o Start("feed")) \o Start("health"))
                        \o <<Do("spawn", "snapshots")>>
    BY DEF Boot
<1> HIDE DEF built
<1>16. Leads(Quiet, built \o <<Do("spawn", "server")>>, zero, served)
    BY <1>6, <1>14, LeadsOn
<1>17. Leads(Quiet, (built \o <<Do("spawn", "server")>>) \o Start("feed"), zero, fed)
    BY <1>7, <1>16, LeadsOn
<1>18. Leads(Quiet, ((built \o <<Do("spawn", "server")>>) \o Start("feed")) \o Start("health"), zero, all)
    BY <1>8, <1>17, LeadsOn
<1>19. Leads(Quiet, (((built \o <<Do("spawn", "server")>>) \o Start("feed")) \o Start("health"))
                        \o <<Do("spawn", "snapshots")>>, zero, up)
    BY <1>9, <1>18, LeadsOn
<1> QED
    BY <1>3, <1>15, <1>19 DEF up, zero

-------------------------------------------------------------------------------
(* The trades that programs ask for *)

\* What each instruction adds.
MatchesAt(p) == [i \in DOMAIN p |-> IF p[i].op = "match" THEN p[i].arg ELSE 0]

\* A program has finitely many instructions, each with its number.
LEMMA MatchesAtProperties ==
    ASSUME NEW p \in Seq(Instructions)
    PROVE  /\ Matches(p) = SumFunctionOnSet(MatchesAt(p), 1 .. Len(p))
           /\ IsFiniteSet(1 .. Len(p))
           /\ \A i \in 1 .. Len(p) :
                /\ MatchesAt(p)[i] = IF p[i].op = "match" THEN p[i].arg ELSE 0
                /\ MatchesAt(p)[i] \in Nat
<1>1. DOMAIN p = 1 .. Len(p) /\ Len(p) \in Nat
    BY LenProperties
<1>2. \A i \in 1 .. Len(p) : p[i] \in Instructions
    BY ElementOfSeq
<1>3. \A i \in 1 .. Len(p) : p[i].op = "match" => p[i].arg \in Nat
    BY <1>2 DEF Instructions
<1>4. Matches(p) = SumFunctionOnSet(MatchesAt(p), DOMAIN MatchesAt(p))
    BY DEF Matches, MatchesAt, SumFunction
<1>5. DOMAIN MatchesAt(p) = 1 .. Len(p)
    BY <1>1 DEF MatchesAt
<1>6. \A i \in 1 .. Len(p) : MatchesAt(p)[i] = IF p[i].op = "match" THEN p[i].arg ELSE 0
    BY <1>1 DEF MatchesAt
<1>7. IsFiniteSet(1 .. Len(p))
    BY <1>1, FS_Interval
<1> QED
    BY <1>3, <1>4, <1>5, <1>6, <1>7

\* And asks for a number of trades.
LEMMA MatchesIsNat ==
    ASSUME NEW p \in Seq(Instructions)
    PROVE  Matches(p) \in Nat
<1>1. PICK S : S = 1 .. Len(p)
    OBVIOUS
<1>2. /\ Matches(p) = SumFunctionOnSet(MatchesAt(p), S)
      /\ IsFiniteSet(S) /\ \A i \in S : MatchesAt(p)[i] \in Nat
    BY <1>1, MatchesAtProperties
<1> QED
    BY <1>2, SumIsNat

\* The programs of start-up ask for none.
LEMMA MatchesOfQuiet ==
    ASSUME NEW p \in Seq(Quiet)
    PROVE  p \in Seq(Instructions) /\ Matches(p) = 0
<1>1. Len(p) \in Nat /\ p \in [1 .. Len(p) -> Quiet]
    BY LenProperties, SeqDef
<1>2. p \in [1 .. Len(p) -> Instructions]
    BY <1>1, GuardsOfQuiet
<1>3. p \in Seq(Instructions)
    BY <1>1, <1>2, SeqDef
<1>4. \A i \in 1 .. Len(p) : p[i].op # "match"
    BY <1>1 DEF Quiet
<1>5. PICK S : S = 1 .. Len(p)
    OBVIOUS
<1>6. /\ Matches(p) = SumFunctionOnSet(MatchesAt(p), S)
      /\ IsFiniteSet(S) /\ \A i \in S : MatchesAt(p)[i] = 0
    BY <1>3, <1>4, <1>5, MatchesAtProperties
<1> QED
    BY <1>3, <1>6, SumOfZeros

\* The empty program asks for none.
LEMMA MatchesOfNothing == Matches(<<>>) = 0
<1>1. <<>> \in Seq(Quiet)
    OBVIOUS
<1> QED
    BY <1>1, MatchesOfQuiet

\* The first instruction, and the rest.
LEMMA MatchesFirst ==
    ASSUME NEW p \in Seq(Instructions), p # <<>>
    PROVE  Matches(p) = (IF Head(p).op = "match" THEN Head(p).arg ELSE 0) + Matches(Tail(p))
<1>1. Len(p) \in Nat /\ Len(p) > 0
    BY LenProperties, EmptySeq
<1>2. PICK n \in Nat : Len(p) = n + 1
    <2>1. Len(p) - 1 \in Nat /\ Len(p) = (Len(p) - 1) + 1
        BY <1>1
    <2> QED
        BY <2>1
<1>3. /\ Head(p) = p[1] /\ Tail(p) \in Seq(Instructions) /\ Len(Tail(p)) = n
      /\ \A i \in 1 .. n : Tail(p)[i] = p[i + 1]
    <2>1. /\ Head(p) = p[1] /\ Tail(p) \in Seq(Instructions) /\ Len(Tail(p)) = Len(p) - 1
          /\ \A i \in 1 .. Len(p) - 1 : Tail(p)[i] = p[i + 1]
        BY <1>1, HeadTailProperties
    <2> QED
        BY <1>2, <2>1
<1>4. PICK f : f = MatchesAt(p)
    OBVIOUS
<1>5. PICK g : g = MatchesAt(Tail(p))
    OBVIOUS
<1>6. PICK S : S = 1 .. n + 1
    OBVIOUS
<1>7. PICK T : T = 1 .. n
    OBVIOUS
<1>8. /\ Matches(p) = SumFunctionOnSet(f, S) /\ IsFiniteSet(S)
      /\ \A i \in S : f[i] = (IF p[i].op = "match" THEN p[i].arg ELSE 0) /\ f[i] \in Nat
    BY <1>2, <1>4, <1>6, MatchesAtProperties
<1>9. /\ Matches(Tail(p)) = SumFunctionOnSet(g, T) /\ IsFiniteSet(T)
      /\ \A i \in T : g[i] = (IF Tail(p)[i].op = "match" THEN Tail(p)[i].arg ELSE 0) /\ g[i] \in Nat
    BY <1>3, <1>5, <1>7, MatchesAtProperties
<1> DEFINE e == [i \in T |-> i + 1]
<1>10. /\ \A i \in T : e[i] = i + 1
       /\ \A i, j \in T : e[i] = e[j] => i = j
       /\ {e[i] : i \in T} = S \ {1}
    <2>1. \A i \in T : e[i] = i + 1
        OBVIOUS
    <2>2. \A i, j \in T : e[i] = e[j] => i = j
        BY <1>7
    <2>3. \A k \in S \ {1} : k - 1 \in T /\ k = (k - 1) + 1
        BY <1>6, <1>7
    <2>4. \A i \in T : i + 1 \in S \ {1}
        BY <1>6, <1>7
    <2> QED
        BY <2>1, <2>2, <2>3, <2>4
<1> HIDE DEF e
<1>11. \A i \in T : f[e[i]] = g[i]
    <2> SUFFICES ASSUME NEW i \in T PROVE f[e[i]] = g[i]
        OBVIOUS
    <2>1. i + 1 \in S /\ Tail(p)[i] = p[i + 1] /\ e[i] = i + 1
        BY <1>3, <1>6, <1>7, <1>10
    <2> QED
        BY <1>8, <1>9, <2>1
<1>12. SumFunctionOnSet(f, S \ {1}) = SumFunctionOnSet(g, T)
    <2>1. \A i \in T : g[i] \in Int
        BY <1>9
    <2>2. SumFunctionOnSet(f, {e[i] : i \in T}) = SumFunctionOnSet(g, T)
        BY <1>9, <1>10, <1>11, <2>1, SumPaired
    <2> QED
        BY <1>10, <2>2
<1>13. SumFunctionOnSet(f, S) = f[1] + SumFunctionOnSet(f, S \ {1})
    <2>1. 1 \in S /\ \A i \in S : f[i] \in Int
        BY <1>6, <1>8
    <2> QED
        BY <1>8, <2>1, SumTakeOut
<1>14. f[1] = IF Head(p).op = "match" THEN Head(p).arg ELSE 0
    BY <1>3, <1>6, <1>8
<1> QED
    BY <1>8, <1>9, <1>12, <1>13, <1>14

\* What all threads have planned, when their programs are those of f.
PlannedIn(f) == SumFunction([t \in Threads |-> Matches(f[t])])

\* All threads together ask for a number of trades.
LEMMA PlannedAsSum ==
    ASSUME NEW f \in [Threads -> Seq(Instructions)]
    PROVE  /\ PlannedIn(f) = SumFunctionOnSet([t \in Threads |-> Matches(f[t])], Threads)
           /\ IsFiniteSet(Threads)
           /\ \A t \in Threads : Matches(f[t]) \in Nat
           /\ PlannedIn(f) \in Nat
<1>1. \A t \in Threads : Matches(f[t]) \in Nat
    BY MatchesIsNat
<1>2. IsFiniteSet(Threads)
    <2>1. Threads = {"main"} \cup {"feed"} \cup {"health"} \cup {"snapshots"} \cup {"server"}
        BY DEF Threads
    <2>2. IsFiniteSet({"main"}) /\ IsFiniteSet({"feed"}) /\ IsFiniteSet({"health"})
          /\ IsFiniteSet({"snapshots"}) /\ IsFiniteSet({"server"})
        BY FS_Singleton
    <2> QED
        BY <2>1, <2>2, FS_Union
<1>3. PlannedIn(f) = SumFunctionOnSet([t \in Threads |-> Matches(f[t])], Threads)
    BY DEF PlannedIn, SumFunction
<1>4. PICK g : g = [t \in Threads |-> Matches(f[t])]
    OBVIOUS
<1>5. \A t \in Threads : g[t] \in Nat
    BY <1>1, <1>4
<1>6. SumFunctionOnSet(g, Threads) \in Nat
    BY <1>2, <1>5, SumIsNat
<1> QED
    BY <1>1, <1>2, <1>3, <1>4, <1>6

\* One thread goes on to another program.
LEMMA PlannedWithOneChanged ==
    ASSUME NEW f \in [Threads -> Seq(Instructions)], NEW t \in Threads, NEW p \in Seq(Instructions)
    PROVE  PlannedIn([f EXCEPT ![t] = p]) = PlannedIn(f) - Matches(f[t]) + Matches(p)
<1>1. PICK n : n = [f EXCEPT ![t] = p]
    OBVIOUS
<1>2. n \in [Threads -> Seq(Instructions)]
    BY <1>1
<1>3. PICK g : g = [u \in Threads |-> Matches(f[u])]
    OBVIOUS
<1>4. PICK h : h = [u \in Threads |-> Matches(n[u])]
    OBVIOUS
<1>5. n[t] = p /\ \A u \in Threads \ {t} : n[u] = f[u]
    BY <1>1
<1>6. /\ IsFiniteSet(Threads)
      /\ \A u \in Threads : g[u] \in Int /\ h[u] \in Int
      /\ \A u \in Threads \ {t} : h[u] = g[u]
      /\ g[t] = Matches(f[t]) /\ h[t] = Matches(p)
    <2>1. \A u \in Threads : Matches(f[u]) \in Nat /\ Matches(n[u]) \in Nat
        BY <1>2, PlannedAsSum
    <2>2. IsFiniteSet(Threads)
        BY PlannedAsSum
    <2>3. \A u \in Threads : g[u] = Matches(f[u]) /\ h[u] = Matches(n[u])
        BY <1>3, <1>4
    <2>4. \A u \in Threads : g[u] \in Int /\ h[u] \in Int
        BY <2>1, <2>3
    <2>5. \A u \in Threads \ {t} : Matches(n[u]) = Matches(f[u])
        BY <1>5
    <2>6. g[t] = Matches(f[t]) /\ h[t] = Matches(p)
        BY <1>5, <2>3
    <2>7. \A u \in Threads \ {t} : h[u] = g[u]
        BY <2>3, <2>5
    <2> QED
        BY <2>2, <2>4, <2>6, <2>7
<1>7. SumFunctionOnSet(h, Threads) = SumFunctionOnSet(g, Threads) - g[t] + h[t]
    BY <1>6, SumWithOneChanged
<1>8. PlannedIn(f) = SumFunctionOnSet(g, Threads)
    BY <1>3, PlannedAsSum
<1>9. PlannedIn(n) = SumFunctionOnSet(h, Threads)
    BY <1>2, <1>4, PlannedAsSum
<1> QED
    BY <1>1, <1>6, <1>7, <1>8, <1>9

-------------------------------------------------------------------------------
(* What holds of the process at every moment *)

\* The types.
BaseInv ==
    /\ todo \in [Threads -> Seq(Instructions)]
    /\ owner \in [Mutexes -> live \cup {None}]
    /\ live \subseteq Threads /\ running \subseteq Services /\ spawned \subseteq Threads \ {"main"}
    /\ found \in [Threads -> Seq(Nat)]
    /\ trades \in Nat /\ bound \in Bounds /\ delivered \in Seq(Nat) /\ tape \in Seq(Nat)
    /\ handler \in Threads \cup {None}
    /\ interrupted \in [ready : BOOLEAN, free : BOOLEAN]
    /\ ended \in {"no", "exit", "abort"}

\* Where a thread that is done with its program stands.
Settled == {r \in Situations : r.held = {} /\ r.due = 0 /\ "snapshots" \in r.spawned}

\* Thread t is in situation s.  Only main has services to start, and the signal
\* handler may take away from what it has started.
Stands(t, s) ==
    /\ s.held = Holds(t)
    /\ s.due = Len(found[t])
    /\ IF t = "main"
       THEN s.spawned = spawned /\ (handler = None => s.running = running)
       ELSE "snapshots" \in s.spawned

\* And can go on from there to the end of its program.
Placed(t) ==
    \E s \in Situations, r \in Settled : Stands(t, s) /\ Leads(Instructions, todo[t], s, r)

\* The reports on their way: it is the holder of engine_mutex_ who has them.
OnTheirWay == IF owner["engine"] = None THEN <<>> ELSE found[owner["engine"]]

\* They are what is on the tape after what was delivered, and the tape has trades
\* that were executed.
TapeInv ==
    /\ tape = delivered \o OnTheirWay
    /\ \A k \in 1 .. Len(tape) : tape[k] \in 1 .. trades
    /\ trades + Planned <= bound.trades

\* What the signal handler may still have to do.
Closings ==
    {<<>>, Shutdown, <<Do("stop", "health"), Do("exit", None)>>, <<Do("exit", None)>>}
        \cup {<<Do("join", x), Do("stop", "health"), Do("exit", None)>> : x \in Services \cap {"feed"}}
        \cup {<<Do("join", x), Do("exit", None)>> : x \in Services \cap {"health"}}

\* A service that was there when the signal came is still to be stopped, or to be
\* joined, or is gone.
SignalInv ==
    /\ closing \in Closings
    /\ handler = None => closing = <<>>
    /\ interrupted.free => handler \in Threads \ Services /\ Holds(handler) = {}
    /\ interrupted.ready =>
        /\ "snapshots" \in spawned /\ Services \subseteq spawned
        /\ \A x \in Services : \/ Do("stop", x) \in Range(closing) /\ x \in running
                               \/ Do("join", x) \in Range(closing)
                               \/ x \notin live
    /\ ended = "exit" => closing = <<Do("exit", None)>>

\* The process works.
Works == BaseInv /\ TapeInv /\ SignalInv /\ \A t \in Threads : Placed(t)

-------------------------------------------------------------------------------
(* The next instruction of a thread *)

\* It may come where the thread stands, and the rest from there on.
LEMMA NextInstruction ==
    ASSUME Works, NEW t \in Threads, todo[t] # <<>>
    PROVE  /\ Head(todo[t]) \in Instructions
           /\ todo[t] \in Seq(Instructions) /\ Tail(todo[t]) \in Seq(Instructions)
           /\ \E s \in Situations, q \in Situations, r \in Settled :
                /\ Stands(t, s) /\ Effect(Head(todo[t]), s, q)
                /\ Leads(Instructions, Tail(todo[t]), q, r)
<1>1. PICK s \in Situations, r \in Settled : Stands(t, s) /\ Leads(Instructions, todo[t], s, r)
    BY DEF Works, Placed
<1>2. /\ Head(todo[t]) \in Instructions
      /\ \E q \in Situations :
            Effect(Head(todo[t]), s, q) /\ Leads(Instructions, Tail(todo[t]), q, r)
    BY <1>1, LeadsFirst
<1>3. PICK q \in Situations : Effect(Head(todo[t]), s, q) /\ Leads(Instructions, Tail(todo[t]), q, r)
    BY <1>2
<1>4. todo[t] \in Seq(Instructions) /\ Tail(todo[t]) \in Seq(Instructions)
    BY <1>1, <1>3, LeadsBetween
<1> QED
    BY <1>1, <1>2, <1>3, <1>4

\* A thread that takes an instruction stands where that leads, and the others
\* where they stood: so all are placed again.
LEMMA PlacedByAdvance ==
    ASSUME Works, NEW t \in Threads, todo[t] # <<>>, Advance(t),
           \A s, q \in Situations :
                Stands(t, s) /\ Effect(Head(todo[t]), s, q) => Stands(t, q)',
           \A u \in Threads \ {t} : \A s \in Situations : Stands(u, s) => Stands(u, s)'
    PROVE  (\A u \in Threads : Placed(u))' /\ todo' \in [Threads -> Seq(Instructions)]
<1>1. todo \in [Threads -> Seq(Instructions)]
    BY DEF Works, BaseInv
<1>2. PICK s \in Situations, q \in Situations, r \in Settled :
        /\ Stands(t, s) /\ Effect(Head(todo[t]), s, q)
        /\ Leads(Instructions, Tail(todo[t]), q, r)
    BY NextInstruction
<1>3. /\ todo' = [todo EXCEPT ![t] = Tail(todo[t])] /\ Tail(todo[t]) \in Seq(Instructions)
      /\ todo'[t] = Tail(todo[t]) /\ \A u \in Threads \ {t} : todo'[u] = todo[u]
    BY <1>1, NextInstruction DEF Advance
<1>4. Placed(t)'
    BY <1>2, <1>3 DEF Placed
<1>5. ASSUME NEW u \in Threads \ {t} PROVE Placed(u)'
    <2>1. PICK e \in Situations, f \in Settled : Stands(u, e) /\ Leads(Instructions, todo[u], e, f)
        BY DEF Works, Placed
    <2> QED
        BY <1>3, <2>1 DEF Placed
<1>6. todo' \in [Threads -> Seq(Instructions)]
    BY <1>1, <1>3
<1> QED
    BY <1>4, <1>5, <1>6

\* No thread but the holder of engine_mutex_ has any.
LEMMA FoundByHolder ==
    ASSUME Works, NEW t \in Threads
    PROVE  /\ Len(found[t]) \in Nat /\ found[t] \in Seq(Nat) /\ "engine" \in Mutexes
           /\ owner["engine"] # t => Len(found[t]) = 0 /\ found[t] = <<>>
<1>1. PICK s \in Situations : Stands(t, s)
    BY DEF Works, Placed
<1>2. found[t] \in Seq(Nat)
    BY DEF Works, BaseInv
<1>3. s.due > 0 => "engine" \in s.held
    BY DEF Situations
<1>4. Len(found[t]) \in Nat /\ "engine" \in Mutexes
    BY <1>2, LenProperties, NamedMutexes
<1>5. owner["engine"] # t => Len(found[t]) = 0
    BY <1>1, <1>3, <1>4 DEF Stands, Holds
<1>6. Len(found[t]) = 0 => found[t] = <<>>
    BY <1>2, EmptySeq
<1> QED
    BY <1>2, <1>4, <1>5, <1>6

\* An instruction that asks for no trades leaves the plan as it is.
LEMMA PlannedByAdvance ==
    ASSUME Works, NEW t \in Threads, todo[t] # <<>>, Advance(t)
    PROVE  /\ Planned \in Nat
           /\ Planned' = Planned - (IF Head(todo[t]).op = "match" THEN Head(todo[t]).arg ELSE 0)
<1>1. todo \in [Threads -> Seq(Instructions)]
    BY DEF Works, BaseInv
<1>2. PICK p \in Seq(Instructions) : p = Tail(todo[t])
    BY NextInstruction
<1>3. todo' = [todo EXCEPT ![t] = p]
    BY <1>2 DEF Advance
<1>4. PlannedIn([todo EXCEPT ![t] = p]) = PlannedIn(todo) - Matches(todo[t]) + Matches(p)
    BY <1>1, PlannedWithOneChanged
<1>5. Planned = PlannedIn(todo) /\ Planned' = PlannedIn(todo')
    BY DEF Planned, PlannedIn
<1>6. todo[t] \in Seq(Instructions) /\ Head(todo[t]) \in Instructions
    BY NextInstruction
<1>7. Matches(todo[t]) = (IF Head(todo[t]).op = "match" THEN Head(todo[t]).arg ELSE 0) + Matches(p)
    BY <1>2, <1>6, MatchesFirst
<1>8. PlannedIn(todo) \in Nat /\ Matches(p) \in Nat
    BY <1>1, PlannedAsSum, MatchesIsNat
<1>9. PICK n \in Nat : n = IF Head(todo[t]).op = "match" THEN Head(todo[t]).arg ELSE 0
    BY <1>6 DEF Instructions
<1> QED
    BY <1>3, <1>4, <1>5, <1>7, <1>8, <1>9

-------------------------------------------------------------------------------
(* Every step keeps it: the threads *)

\* The types, in the form the steps need them.
LEMMA TypesOfWorks ==
    ASSUME Works
    PROVE  /\ live \subseteq Threads /\ None \notin Threads /\ None \notin live
           /\ owner \in [Mutexes -> live \cup {None}]
           /\ trades \in Nat /\ bound.trades \in Nat /\ Planned \in Nat
           /\ delivered \in Seq(Nat) /\ Len(delivered) \in Nat
           /\ tape \in Seq(Nat) /\ Len(tape) \in Nat
<1>1. bound \in Bounds
    BY DEF Works, BaseInv
<1>2. todo \in [Threads -> Seq(Instructions)]
    BY DEF Works, BaseInv
<1>3. Planned = PlannedIn(todo) /\ PlannedIn(todo) \in Nat
    BY <1>2, PlannedAsSum DEF Planned, PlannedIn
<1>4. delivered \in Seq(Nat) /\ tape \in Seq(Nat)
    BY DEF Works, BaseInv
<1> QED
    BY <1>1, <1>3, <1>4, LenProperties, ServerAssumption DEF Works, BaseInv

\* A thread takes a mutex.
LEMMA WorksLock ==
    ASSUME Works, NEW t \in Threads, Lock(t)
    PROVE  Works'
<1> DEFINE m == Arg(t)
           i == Head(todo[t])
<1>1. /\ todo[t] # <<>> /\ i.op = "lock" /\ i.arg = m /\ t \in live /\ handler # t
      /\ owner[m] = None /\ owner' = [owner EXCEPT ![m] = t] /\ Advance(t)
      /\ UNCHANGED <<bound, live, running, spawned, found, trades, delivered, tape,
                     handler, closing, interrupted, ended>>
    BY DEF Lock, NextIs, Runs, Arg
<1>2. /\ live \subseteq Threads /\ None \notin Threads /\ None \notin live
      /\ owner \in [Mutexes -> live \cup {None}]
    BY TypesOfWorks
<1>3. PICK s \in Situations, q \in Situations : Stands(t, s) /\ Effect(i, s, q)
    BY <1>1, NextInstruction
<1>4. m \in Mutexes
    BY <1>1, <1>3 DEF Effect
<1>5. /\ Holds(t)' = Holds(t) \cup {m}
      /\ \A u \in Threads \ {t} : Holds(u)' = Holds(u)
    BY <1>1, <1>2, <1>4 DEF Holds
<1> HIDE DEF i, m
<1>6. (\A u \in Threads : Placed(u))' /\ todo' \in [Threads -> Seq(Instructions)]
    <2>1. ASSUME NEW e \in Situations, NEW f \in Situations, Stands(t, e), Effect(i, e, f)
          PROVE  Stands(t, f)'
        <3>1. /\ f.held = e.held \cup {m} /\ f.due = e.due
              /\ f.running = e.running /\ f.spawned = e.spawned
            BY <1>1, <2>1 DEF Effect, Situations
        <3> QED
            BY <1>1, <1>5, <2>1, <3>1 DEF Stands
    <2>2. ASSUME NEW u \in Threads \ {t}, NEW e \in Situations, Stands(u, e)
          PROVE  Stands(u, e)'
        BY <1>1, <1>5, <2>2 DEF Stands
    <2> QED
        BY <1>1, <2>1, <2>2, PlacedByAdvance DEF i
<1>7. BaseInv'
    <2>1. owner' \in [Mutexes -> live' \cup {None}]
        BY <1>1, <1>2, <1>4
    <2> QED
        BY <1>1, <1>6, <2>1 DEF BaseInv, Works
<1>8. TapeInv'
    <2>1. Planned' = Planned
        BY <1>1, PlannedByAdvance, TypesOfWorks DEF i
    <2>2. OnTheirWay' = OnTheirWay
        <3>1. CASE m = "engine"
            <4>1. found[t] = <<>>
                BY <1>1, <1>2, <3>1, FoundByHolder
            <4> QED
                BY <1>1, <1>2, <1>4, <3>1, <4>1 DEF OnTheirWay
        <3>2. CASE m # "engine"
            BY <1>1, <1>2, <1>4, <3>2 DEF OnTheirWay
        <3> QED
            BY <3>1, <3>2
    <2> QED
        BY <1>1, <2>1, <2>2 DEF TapeInv, Works
<1>9. SignalInv'
    <2>1. handler \in Threads => Holds(handler)' = Holds(handler)
        BY <1>1, <1>5
    <2> QED
        BY <1>1, <2>1 DEF SignalInv, Works
<1> QED
    BY <1>6, <1>7, <1>8, <1>9 DEF Works

\* A thread gives a mutex back.
LEMMA WorksUnlock ==
    ASSUME Works, NEW t \in Threads, Unlock(t)
    PROVE  Works'
<1> DEFINE m == Arg(t)
           i == Head(todo[t])
<1>1. /\ todo[t] # <<>> /\ i.op = "unlock" /\ i.arg = m /\ t \in live /\ handler # t
      /\ owner' = [owner EXCEPT ![m] = None] /\ Advance(t)
      /\ UNCHANGED <<bound, live, running, spawned, found, trades, delivered, tape,
                     handler, closing, interrupted, ended>>
    BY DEF Unlock, NextIs, Runs, Arg
<1>2. /\ live \subseteq Threads /\ None \notin Threads /\ None \notin live
      /\ owner \in [Mutexes -> live \cup {None}] /\ Len(delivered) \in Nat
    BY TypesOfWorks
<1>3. PICK s \in Situations, q \in Situations : Stands(t, s) /\ Effect(i, s, q)
    BY <1>1, NextInstruction
<1>4. m \in Holds(t) /\ m \in Mutexes /\ owner[m] = t
    BY <1>1, <1>3 DEF Effect, Stands, Holds
<1>5. /\ Holds(t)' = Holds(t) \ {m}
      /\ \A u \in Threads \ {t} : Holds(u)' = Holds(u)
    BY <1>1, <1>2, <1>4 DEF Holds
<1> HIDE DEF i, m
<1>6. (\A u \in Threads : Placed(u))' /\ todo' \in [Threads -> Seq(Instructions)]
    <2>1. ASSUME NEW e \in Situations, NEW f \in Situations, Stands(t, e), Effect(i, e, f)
          PROVE  Stands(t, f)'
        <3>1. /\ f.held = e.held \ {m} /\ f.due = e.due
              /\ f.running = e.running /\ f.spawned = e.spawned
            BY <1>1, <2>1 DEF Effect, Situations
        <3> QED
            BY <1>1, <1>5, <2>1, <3>1 DEF Stands
    <2>2. ASSUME NEW u \in Threads \ {t}, NEW e \in Situations, Stands(u, e)
          PROVE  Stands(u, e)'
        BY <1>1, <1>5, <2>2 DEF Stands
    <2> QED
        BY <1>1, <2>1, <2>2, PlacedByAdvance DEF i
<1>7. BaseInv'
    <2>1. owner' \in [Mutexes -> live' \cup {None}]
        BY <1>1, <1>2, <1>4
    <2> QED
        BY <1>1, <1>6, <2>1 DEF BaseInv, Works
<1>8. TapeInv'
    <2>3. Planned \in Nat
        BY TypesOfWorks
    <2>1. Planned' = Planned
        BY <1>1, <2>3, PlannedByAdvance DEF i
    <2>2. OnTheirWay' = OnTheirWay
        <3>1. CASE m = "engine"
            <4>1. q.due = s.due /\ q.held = s.held \ {m}
                BY <1>1, <1>3 DEF Effect, Situations
            <4>2. q.due = 0
                BY <3>1, <4>1 DEF Situations
            <4>3. Len(found[t]) = 0
                BY <1>3, <4>1, <4>2 DEF Stands
            <4>4. found[t] = <<>>
                BY <4>3, FoundByHolder, EmptySeq
            <4> QED
                BY <1>1, <1>2, <1>4, <3>1, <4>4 DEF OnTheirWay
        <3>2. CASE m # "engine"
            BY <1>1, <1>2, <1>4, <3>2 DEF OnTheirWay
        <3> QED
            BY <3>1, <3>2
    <2> QED
        BY <1>1, <2>1, <2>2 DEF TapeInv, Works
<1>9. SignalInv'
    <2>1. handler \in Threads => Holds(handler)' = Holds(handler)
        BY <1>1, <1>5
    <2> QED
        BY <1>1, <2>1 DEF SignalInv, Works
<1> QED
    BY <1>6, <1>7, <1>8, <1>9 DEF Works

\* add_order makes trades.
LEMMA WorksMatch ==
    ASSUME Works, NEW t \in Threads, Match(t)
    PROVE  Works'
<1> DEFINE n == Arg(t)
           i == Head(todo[t])
           new == [k \in 1 .. n |-> trades + k]
           both == new \o new
<1>1. /\ todo[t] # <<>> /\ i.op = "match" /\ i.arg = n /\ t \in live /\ handler # t
      /\ trades' = trades + n /\ found' = [found EXCEPT ![t] = both] /\ tape' = tape \o both
      /\ Advance(t)
      /\ UNCHANGED <<bound, owner, live, running, spawned, delivered,
                     handler, closing, interrupted, ended>>
    BY DEF Match, NextIs, Runs, Arg
<1>2. /\ None \notin Threads /\ trades \in Nat /\ bound.trades \in Nat /\ Planned \in Nat
      /\ delivered \in Seq(Nat) /\ tape \in Seq(Nat) /\ Len(tape) \in Nat
    BY TypesOfWorks
<1>3. PICK s \in Situations, q \in Situations : Stands(t, s) /\ Effect(i, s, q)
    BY <1>1, NextInstruction
<1>4. n \in Nat
    <2>1. i \in Instructions
        BY <1>1, NextInstruction
    <2> QED
        BY <1>1, <2>1 DEF Instructions
<1>5. owner["engine"] = t /\ found[t] = <<>> /\ tape = delivered
    <2>1. "engine" \in s.held /\ s.due = 0
        BY <1>1, <1>3 DEF Effect
    <2>2. owner["engine"] = t /\ Len(found[t]) = 0
        BY <1>3, <2>1 DEF Stands, Holds
    <2>3. found[t] = <<>>
        BY <2>2, FoundByHolder, EmptySeq
    <2>4. tape = delivered \o <<>>
        BY <1>2, <2>2, <2>3 DEF Works, TapeInv, OnTheirWay
    <2> QED
        BY <1>2, <2>2, <2>3, <2>4, ConcatEmptySeq
<1>6. found \in [Threads -> Seq(Nat)]
    BY DEF Works, BaseInv
<1>7. new \in Seq(Nat) /\ Len(new) = n /\ \A k \in 1 .. n : new[k] = trades + k
    <2>1. new \in [1 .. n -> Nat]
        BY <1>2, <1>4
    <2>2. new \in Seq(Nat)
        BY <1>4, <2>1, SeqDef
    <2> QED
        BY <1>4, <2>2
<1> HIDE DEF i, n, new
<1>8. both \in Seq(Nat) /\ Len(both) = n + n /\ \A k \in 1 .. n + n : both[k] \in trades + 1 .. trades + n
    <2>1. /\ both \in Seq(Nat) /\ Len(both) = n + n
          /\ \A k \in 1 .. n + n : both[k] = IF k <= n THEN new[k] ELSE new[k - n]
        BY <1>4, <1>7, ConcatProperties
    <2>2. ASSUME NEW k \in 1 .. n + n PROVE both[k] \in trades + 1 .. trades + n
        <3>1. CASE k <= n
            <4>1. k \in 1 .. n /\ both[k] = new[k]
                BY <1>4, <2>1, <3>1
            <4> QED
                BY <1>2, <1>4, <1>7, <4>1
        <3>2. CASE k > n
            <4>1. PICK j \in 1 .. n : j = k - n /\ ~(k <= n)
                BY <1>4, <3>2
            <4>2. both[k] = new[j]
                BY <2>1, <4>1
            <4> QED
                BY <1>2, <1>4, <1>7, <4>1, <4>2
        <3>3. k <= n \/ k > n
            BY <1>4
        <3> QED
            BY <3>1, <3>2, <3>3
    <2> QED
        BY <2>1, <2>2
<1> HIDE DEF both
<1>9. /\ found' \in [Threads -> Seq(Nat)] /\ found'[t] = both
      /\ \A u \in Threads \ {t} : found'[u] = found[u]
    BY <1>1, <1>6, <1>8
<1>10. \A u \in Threads : Holds(u)' = Holds(u)
    BY <1>1 DEF Holds
<1>11. (\A u \in Threads : Placed(u))' /\ todo' \in [Threads -> Seq(Instructions)]
    <2>1. ASSUME NEW e \in Situations, NEW f \in Situations, Stands(t, e), Effect(i, e, f)
          PROVE  Stands(t, f)'
        <3>1. /\ f.held = e.held /\ f.due = n + n
              /\ f.running = e.running /\ f.spawned = e.spawned
            BY <1>1, <2>1 DEF Effect, Situations
        <3> QED
            BY <1>1, <1>8, <1>9, <1>10, <2>1, <3>1 DEF Stands
    <2>2. ASSUME NEW u \in Threads \ {t}, NEW e \in Situations, Stands(u, e)
          PROVE  Stands(u, e)'
        BY <1>1, <1>9, <1>10, <2>2 DEF Stands
    <2> QED
        BY <1>1, <2>1, <2>2, PlacedByAdvance DEF i
<1>12. /\ tape' \in Seq(Nat) /\ Len(tape') = Len(tape) + (n + n)
       /\ \A k \in 1 .. Len(tape) + (n + n) :
            tape'[k] = IF k <= Len(tape) THEN tape[k] ELSE both[k - Len(tape)]
    <2>1. PICK c : c = tape \o both
        OBVIOUS
    <2>2. /\ c \in Seq(Nat) /\ Len(c) = Len(tape) + Len(both)
          /\ \A k \in 1 .. Len(tape) + Len(both) :
                c[k] = IF k <= Len(tape) THEN tape[k] ELSE both[k - Len(tape)]
        BY <1>2, <1>8, <2>1, ConcatProperties
    <2>3. tape' = c /\ Len(both) = n + n
        BY <1>1, <1>8, <2>1
    <2> QED
        BY <2>2, <2>3
<1>13. BaseInv'
    <2>1. trades' \in Nat
        BY <1>1, <1>2, <1>4
    <2> QED
        BY <1>1, <1>9, <1>11, <1>12, <2>1 DEF BaseInv, Works
<1>14. TapeInv'
    <2>1. Planned' = Planned - n
        BY <1>1, PlannedByAdvance DEF i
    <2>2. trades' + Planned' <= bound'.trades
        <3>1. trades + Planned <= bound.trades
            BY DEF Works, TapeInv
        <3>2. Planned' \in Int
            BY <1>2, <1>4, <2>1
        <3> QED
            BY <1>1, <1>2, <1>4, <2>1, <3>1
    <2>3. tape' = delivered' \o OnTheirWay'
        BY <1>1, <1>2, <1>5, <1>9 DEF OnTheirWay
    <2>4. PICK m \in Nat : m = Len(tape)
        BY <1>2
    <2>5. ASSUME NEW k \in 1 .. m + (n + n) PROVE tape'[k] \in 1 .. trades'
        <3>1. CASE k <= m
            <4>1. tape'[k] = tape[k] /\ k \in 1 .. m
                BY <1>12, <2>4, <3>1
            <4>2. tape[k] \in 1 .. trades
                BY <2>4, <4>1 DEF Works, TapeInv
            <4> QED
                BY <1>1, <1>2, <1>4, <4>1, <4>2
        <3>2. CASE k > m
            <4>1. PICK j \in 1 .. n + n : j = k - m /\ ~(k <= m)
                BY <1>4, <3>2
            <4>2. tape'[k] = both[j]
                BY <1>12, <2>4, <4>1
            <4>3. both[j] \in trades + 1 .. trades + n
                BY <1>8, <4>1
            <4>4. \A x \in trades + 1 .. trades + n : x \in 1 .. trades + n
                BY <1>2, <1>4
            <4> QED
                BY <1>1, <4>2, <4>3, <4>4
        <3>3. k <= m \/ k > m
            BY <1>4
        <3> QED
            BY <3>1, <3>2, <3>3
    <2> QED
        BY <1>12, <2>2, <2>3, <2>4, <2>5 DEF TapeInv
<1>15. SignalInv'
    BY <1>1, <1>10 DEF SignalInv, Works, Holds
<1> QED
    BY <1>11, <1>13, <1>14, <1>15 DEF Works

\* The head of one sequence goes to the end of another.
LEMMA HeadGoesOver ==
    ASSUME NEW p \in Seq(Nat), NEW q \in Seq(Nat), q # <<>>
    PROVE  /\ Append(p, Head(q)) \in Seq(Nat) /\ Tail(q) \in Seq(Nat)
           /\ Len(q) \in Nat /\ Len(Tail(q)) = Len(q) - 1
           /\ Append(p, Head(q)) \o Tail(q) = p \o q
<1>1. Len(q) \in Nat /\ Len(q) > 0
    BY LenProperties, EmptySeq
<1>2. PICK n \in Nat : n = Len(p)
    BY LenProperties
<1>3. PICK d \in Nat : Len(q) = d + 1
    <2>1. Len(q) - 1 \in Nat /\ Len(q) = (Len(q) - 1) + 1
        BY <1>1
    <2> QED
        BY <2>1
<1>4. PICK r : r = Tail(q)
    OBVIOUS
<1>5. PICK a : a = Append(p, Head(q))
    OBVIOUS
<1>6. /\ Head(q) = q[1] /\ Head(q) \in Nat /\ r \in Seq(Nat) /\ Len(r) = d
      /\ \A k \in 1 .. d : r[k] = q[k + 1]
    <2>1. /\ Head(q) \in Nat /\ Tail(q) \in Seq(Nat) /\ Len(Tail(q)) = Len(q) - 1
          /\ \A k \in 1 .. Len(Tail(q)) : Tail(q)[k] = q[k + 1]
        BY HeadTailProperties
    <2>2. Head(q) = q[1] /\ Len(q) - 1 = d
        BY <1>3
    <2> QED
        BY <1>4, <2>1, <2>2
<1>7. a \in Seq(Nat) /\ Len(a) = n + 1 /\ a[n + 1] = q[1] /\ \A k \in 1 .. n : a[k] = p[k]
    BY <1>2, <1>5, <1>6, AppendProperties
<1>8. PICK x : x = a \o r
    OBVIOUS
<1>9. PICK y : y = p \o q
    OBVIOUS
<1>10. /\ x \in Seq(Nat) /\ Len(x) = Len(a) + Len(r)
       /\ \A k \in 1 .. Len(a) + Len(r) : x[k] = IF k <= Len(a) THEN a[k] ELSE r[k - Len(a)]
    BY <1>6, <1>7, <1>8, ConcatProperties
<1>11. /\ y \in Seq(Nat) /\ Len(y) = Len(p) + Len(q)
       /\ \A k \in 1 .. Len(p) + Len(q) : y[k] = IF k <= Len(p) THEN p[k] ELSE q[k - Len(p)]
    BY <1>9, ConcatProperties
<1>16. PICK m \in Nat : m = n + 1 + d
    OBVIOUS
<1>17. Len(a) + Len(r) = m /\ Len(p) + Len(q) = m
    BY <1>2, <1>3, <1>6, <1>7, <1>16
<1>12. ASSUME NEW k \in 1 .. m PROVE x[k] = y[k]
    <2>5. /\ x[k] = IF k <= n + 1 THEN a[k] ELSE r[k - (n + 1)]
          /\ y[k] = IF k <= n THEN p[k] ELSE q[k - n]
        BY <1>2, <1>7, <1>10, <1>11, <1>17
    <2>1. CASE k <= n
        <3>1. k \in 1 .. n /\ k <= n + 1
            BY <2>1
        <3> QED
            BY <1>7, <2>5, <3>1
    <2>2. CASE k = n + 1
        <3>1. k <= n + 1 /\ ~(k <= n) /\ k - n = 1
            BY <2>2
        <3> QED
            BY <1>7, <2>2, <2>5, <3>1
    <2>3. CASE k > n + 1
        <3>1. PICK j \in 1 .. d : j = k - (n + 1) /\ j + 1 = k - n /\ ~(k <= n + 1) /\ ~(k <= n)
            BY <1>16, <2>3
        <3>2. x[k] = r[j] /\ y[k] = q[j + 1]
            BY <2>5, <3>1
        <3> QED
            BY <1>6, <3>2
    <2>4. k <= n \/ k = n + 1 \/ k > n + 1
        OBVIOUS
    <2> QED
        BY <2>1, <2>2, <2>3, <2>4
<1>13. x \in [1 .. m -> Nat] /\ y \in [1 .. m -> Nat]
    BY <1>10, <1>11, <1>17, LenProperties
<1>14. x = y
    BY <1>12, <1>13
<1>15. Len(r) = Len(q) - 1
    BY <1>3, <1>6
<1> QED
    BY <1>1, <1>4, <1>5, <1>6, <1>7, <1>8, <1>9, <1>14, <1>15

\* A report reaches the subscribers.
LEMMA WorksDeliver ==
    ASSUME Works, NEW t \in Threads, Deliver(t)
    PROVE  Works'
<1> DEFINE i == Head(todo[t])
           rest == Tail(found[t])
<1>1. /\ todo[t] # <<>> /\ i.op = "deliver" /\ t \in live /\ handler # t
      /\ delivered' = Append(delivered, Head(found[t])) /\ found' = [found EXCEPT ![t] = rest]
      /\ Advance(t)
      /\ UNCHANGED <<bound, owner, live, running, spawned, trades, tape,
                     handler, closing, interrupted, ended>>
    BY DEF Deliver, NextIs, Runs
<1>2. /\ None \notin Threads /\ trades \in Nat /\ bound.trades \in Nat /\ Planned \in Nat
      /\ delivered \in Seq(Nat)
    BY TypesOfWorks
<1>3. PICK s \in Situations, q \in Situations : Stands(t, s) /\ Effect(i, s, q)
    BY <1>1, NextInstruction
<1>4. owner["engine"] = t /\ Len(found[t]) > 0
    <2>1. s.due > 0 /\ "engine" \in s.held
        BY <1>1, <1>3 DEF Effect, Situations
    <2> QED
        BY <1>3, <2>1 DEF Stands, Holds
<1>5. found \in [Threads -> Seq(Nat)] /\ found[t] \in Seq(Nat)
    BY DEF Works, BaseInv
<1>6. PICK d \in Nat : Len(found[t]) = d + 1
    <2>1. Len(found[t]) \in Nat
        BY <1>5, LenProperties
    <2>2. Len(found[t]) - 1 \in Nat /\ Len(found[t]) = (Len(found[t]) - 1) + 1
        BY <1>4, <2>1
    <2> QED
        BY <2>2
<1>7. found[t] # <<>>
    BY <1>4, <1>5, EmptySeq
<1>8. rest \in Seq(Nat) /\ Len(rest) = d
    <2>1. Len(rest) = Len(found[t]) - 1 /\ rest \in Seq(Nat)
        BY <1>2, <1>5, <1>7, HeadGoesOver
    <2> QED
        BY <1>6, <2>1
<1>9. delivered' \in Seq(Nat) /\ delivered' \o rest = delivered \o found[t]
    BY <1>1, <1>2, <1>5, <1>7, HeadGoesOver
<1> HIDE DEF i, rest
<1>11. /\ found' \in [Threads -> Seq(Nat)] /\ found'[t] = rest
       /\ \A u \in Threads \ {t} : found'[u] = found[u]
    BY <1>1, <1>5, <1>8
<1>12. \A u \in Threads : Holds(u)' = Holds(u)
    BY <1>1 DEF Holds
<1>13. (\A u \in Threads : Placed(u))' /\ todo' \in [Threads -> Seq(Instructions)]
    <2>1. ASSUME NEW e \in Situations, NEW f \in Situations, Stands(t, e), Effect(i, e, f)
          PROVE  Stands(t, f)'
        <3>1. /\ f.held = e.held /\ f.due = e.due - 1
              /\ f.running = e.running /\ f.spawned = e.spawned
            BY <1>1, <2>1 DEF Effect, Situations
        <3>2. e.due = d + 1
            BY <1>6, <2>1 DEF Stands
        <3>3. f.due = Len(found'[t])
            BY <1>8, <1>11, <3>1, <3>2
        <3> QED
            BY <1>1, <1>12, <2>1, <3>1, <3>3 DEF Stands
    <2>2. ASSUME NEW u \in Threads \ {t}, NEW e \in Situations, Stands(u, e)
          PROVE  Stands(u, e)'
        BY <1>1, <1>11, <1>12, <2>2 DEF Stands
    <2> QED
        BY <1>1, <2>1, <2>2, PlacedByAdvance DEF i
<1>14. BaseInv'
    BY <1>1, <1>9, <1>11, <1>13 DEF BaseInv, Works
<1>15. TapeInv'
    <2>1. Planned' = Planned
        BY <1>1, <1>2, PlannedByAdvance DEF i
    <2>2. OnTheirWay = found[t] /\ OnTheirWay' = rest
        BY <1>1, <1>2, <1>4, <1>11 DEF OnTheirWay
    <2>3. tape = delivered \o found[t]
        BY <2>2 DEF Works, TapeInv
    <2>4. tape' = delivered' \o OnTheirWay'
        BY <1>1, <1>9, <2>2, <2>3
    <2> QED
        BY <1>1, <2>1, <2>4 DEF TapeInv, Works
<1>16. SignalInv'
    BY <1>1, <1>12 DEF SignalInv, Works, Holds
<1> QED
    BY <1>13, <1>14, <1>15, <1>16 DEF Works

\* What has no part in mutexes and trades leaves the tape as it was.
LEMMA TapeKept ==
    ASSUME Works, UNCHANGED <<owner, found, trades, bound, delivered, tape>>, Planned' = Planned
    PROVE  TapeInv'
BY DEF Works, TapeInv, OnTheirWay

\* main is the only thread to start services and threads, and does so before the
\* last of them is started.
LEMMA OnlyMainStarts ==
    ASSUME Works, NEW t \in Threads, todo[t] # <<>>, Head(todo[t]).op \in {"run", "spawn"}
    PROVE  t = "main" /\ "snapshots" \notin spawned
<1>1. PICK s \in Situations, q \in Situations : Stands(t, s) /\ Effect(Head(todo[t]), s, q)
    BY NextInstruction
<1>2. "snapshots" \notin s.spawned
    BY <1>1 DEF Effect
<1> QED
    BY <1>1, <1>2 DEF Stands

\* main sets running_ of a service.
LEMMA WorksSetRunning ==
    ASSUME Works, NEW t \in Threads, SetRunning(t)
    PROVE  Works'
<1> DEFINE x == Arg(t)
           i == Head(todo[t])
<1>1. /\ todo[t] # <<>> /\ i.op = "run" /\ i.arg = x /\ t \in live /\ handler # t
      /\ running' = running \cup {x} /\ Advance(t)
      /\ UNCHANGED <<bound, owner, live, spawned, found, trades, delivered, tape,
                     handler, closing, interrupted, ended>>
    BY DEF SetRunning, NextIs, Runs, Arg
<1>2. t = "main" /\ "snapshots" \notin spawned
    BY <1>1, OnlyMainStarts
<1>3. PICK s \in Situations, q \in Situations : Stands(t, s) /\ Effect(i, s, q)
    BY <1>1, NextInstruction
<1>4. x \in Services
    BY <1>1, <1>3 DEF Effect
<1>5. \A u \in Threads : Holds(u)' = Holds(u)
    BY <1>1 DEF Holds
<1> HIDE DEF i, x
<1>6. (\A u \in Threads : Placed(u))' /\ todo' \in [Threads -> Seq(Instructions)]
    <2>1. ASSUME NEW e \in Situations, NEW f \in Situations, Stands(t, e), Effect(i, e, f)
          PROVE  Stands(t, f)'
        <3>1. /\ f.held = e.held /\ f.due = e.due
              /\ f.running = e.running \cup {x} /\ f.spawned = e.spawned
            BY <1>1, <2>1 DEF Effect, Situations
        <3> QED
            BY <1>1, <1>2, <1>5, <2>1, <3>1 DEF Stands
    <2>2. ASSUME NEW u \in Threads \ {t}, NEW e \in Situations, Stands(u, e)
          PROVE  Stands(u, e)'
        BY <1>1, <1>2, <1>5, <2>2 DEF Stands
    <2> QED
        BY <1>1, <2>1, <2>2, PlacedByAdvance DEF i
<1>7. BaseInv'
    BY <1>1, <1>4, <1>6 DEF BaseInv, Works
<1>8. TapeInv'
    <2>1. Planned' = Planned
        BY <1>1, PlannedByAdvance, TypesOfWorks DEF i
    <2> QED
        BY <1>1, <2>1, TapeKept
<1>9. SignalInv'
    BY <1>1, <1>5 DEF SignalInv, Works, Holds
<1> QED
    BY <1>6, <1>7, <1>8, <1>9 DEF Works

\* main starts a thread.
LEMMA WorksSpawn ==
    ASSUME Works, NEW t \in Threads, Spawn(t)
    PROVE  Works'
<1> DEFINE x == Arg(t)
           i == Head(todo[t])
<1>1. /\ todo[t] # <<>> /\ i.op = "spawn" /\ i.arg = x /\ t \in live /\ handler # t
      /\ live' = live \cup {x} /\ spawned' = spawned \cup {x} /\ Advance(t)
      /\ UNCHANGED <<bound, owner, running, found, trades, delivered, tape,
                     handler, closing, interrupted, ended>>
    BY DEF Spawn, NextIs, Runs, Arg
<1>2. t = "main" /\ "snapshots" \notin spawned
    BY <1>1, OnlyMainStarts
<1>3. PICK s \in Situations, q \in Situations : Stands(t, s) /\ Effect(i, s, q)
    BY <1>1, NextInstruction
<1>4. x \in Threads \ {"main"}
    BY <1>1, <1>3 DEF Effect
<1>5. \A u \in Threads : Holds(u)' = Holds(u)
    BY <1>1 DEF Holds
<1> HIDE DEF i, x
<1>6. (\A u \in Threads : Placed(u))' /\ todo' \in [Threads -> Seq(Instructions)]
    <2>1. ASSUME NEW e \in Situations, NEW f \in Situations, Stands(t, e), Effect(i, e, f)
          PROVE  Stands(t, f)'
        <3>1. /\ f.held = e.held /\ f.due = e.due
              /\ f.running = e.running /\ f.spawned = e.spawned \cup {x}
            BY <1>1, <2>1 DEF Effect, Situations
        <3> QED
            BY <1>1, <1>2, <1>5, <2>1, <3>1 DEF Stands
    <2>2. ASSUME NEW u \in Threads \ {t}, NEW e \in Situations, Stands(u, e)
          PROVE  Stands(u, e)'
        BY <1>1, <1>2, <1>5, <2>2 DEF Stands
    <2> QED
        BY <1>1, <2>1, <2>2, PlacedByAdvance DEF i
<1>7. BaseInv'
    <2>1. owner' \in [Mutexes -> live' \cup {None}]
        BY <1>1, TypesOfWorks
    <2> QED
        BY <1>1, <1>4, <1>6, <2>1 DEF BaseInv, Works
<1>8. TapeInv'
    <2>1. Planned' = Planned
        BY <1>1, PlannedByAdvance, TypesOfWorks DEF i
    <2> QED
        BY <1>1, <2>1, TapeKept
<1>9. SignalInv'
    <2>1. ~interrupted.ready
        BY <1>2 DEF SignalInv, Works
    <2> QED
        BY <1>1, <1>5, <2>1 DEF SignalInv, Works, Holds
<1> QED
    BY <1>6, <1>7, <1>8, <1>9 DEF Works

\* A thread that is done with its program holds nothing.
LEMMA DoneIsSettled ==
    ASSUME Works, NEW t \in Threads, todo[t] = <<>>
    PROVE  \E s \in Settled : Stands(t, s) /\ Holds(t) = {}
<1>1. PICK s \in Situations, r \in Settled : Stands(t, s) /\ Leads(Instructions, todo[t], s, r)
    BY DEF Works, Placed
<1>2. s = r
    BY <1>1, LeadsToItself
<1> QED
    BY <1>1, <1>2 DEF Stands, Settled

\* A thread wakes up.
LEMMA WorksBeginRound ==
    ASSUME Works, NEW t \in Threads, BeginRound(t)
    PROVE  Works'
<1>1. PICK round \in Rounds[t] :
        /\ trades + Planned + Matches(round) <= bound.trades
        /\ todo' = [todo EXCEPT ![t] = round]
    BY DEF BeginRound
<1>2. /\ todo[t] = <<>>
      /\ UNCHANGED <<bound, owner, live, running, spawned, found, trades, delivered, tape,
                     handler, closing, interrupted, ended>>
    BY DEF BeginRound
<1>3. PICK s \in Settled : Stands(t, s)
    BY <1>2, DoneIsSettled
<1>4. Leads(Instructions, round, s, s)
    BY <1>3, RoundsLeadBack DEF Settled
<1>5. round \in Seq(Instructions)
    BY <1>4, LeadsBetween
<1>6. todo \in [Threads -> Seq(Instructions)]
    BY DEF Works, BaseInv
<1>7. todo' \in [Threads -> Seq(Instructions)] /\ todo'[t] = round
      /\ \A u \in Threads \ {t} : todo'[u] = todo[u]
    BY <1>1, <1>5, <1>6
<1>8. \A u \in Threads, e \in Situations : Stands(u, e) => Stands(u, e)'
    BY <1>2 DEF Stands, Holds
<1>9. (\A u \in Threads : Placed(u))'
    <2>1. Placed(t)'
        <3>1. s \in Situations
            BY DEF Settled
        <3> QED
            BY <1>3, <1>4, <1>7, <1>8, <3>1 DEF Placed
    <2>2. ASSUME NEW u \in Threads \ {t} PROVE Placed(u)'
        <3>1. PICK e \in Situations, f \in Settled : Stands(u, e) /\ Leads(Instructions, todo[u], e, f)
            BY DEF Works, Placed
        <3> QED
            BY <1>7, <1>8, <3>1 DEF Placed
    <2> QED
        BY <2>1, <2>2
<1>10. BaseInv'
    BY <1>2, <1>7 DEF BaseInv, Works
<1>11. TapeInv'
    <2>1. Planned = PlannedIn(todo) /\ Planned' = PlannedIn(todo')
        BY DEF Planned, PlannedIn
    <2>2. Planned' = Planned - Matches(todo[t]) + Matches(round)
        BY <1>1, <1>5, <1>6, <2>1, PlannedWithOneChanged
    <2>3. Matches(todo[t]) = 0 /\ Matches(round) \in Nat
        BY <1>2, <1>5, MatchesOfNothing, MatchesIsNat
    <2>4. trades' + Planned' <= bound'.trades
        BY <1>1, <1>2, <2>2, <2>3, TypesOfWorks
    <2> QED
        BY <1>2, <2>4 DEF TapeInv, Works, OnTheirWay
<1>12. SignalInv'
    BY <1>2 DEF SignalInv, Works, Holds
<1> QED
    BY <1>9, <1>10, <1>11, <1>12 DEF Works

\* All are placed when neither what they hold nor what they have to do changes, and
\* what main has started does not, or has lost its meaning with the signal.
LEMMA PlacedAsBefore ==
    ASSUME Works, UNCHANGED <<todo, owner, found, spawned>>,
           handler' = None => handler = None /\ running' = running
    PROVE  (\A u \in Threads : Placed(u))'
<1>1. ASSUME NEW u \in Threads PROVE Placed(u)'
    <2>1. PICK e \in Situations, f \in Settled : Stands(u, e) /\ Leads(Instructions, todo[u], e, f)
        BY DEF Works, Placed
    <2>2. Stands(u, e)'
        BY <2>1 DEF Stands, Holds
    <2> QED
        BY <2>1, <2>2 DEF Placed
<1> QED
    BY <1>1

\* The plan depends on the programs only.
LEMMA PlannedAsBefore ==
    ASSUME todo' = todo
    PROVE  Planned' = Planned
BY DEF Planned

\* The loop of a thread ends.
LEMMA WorksReturn ==
    ASSUME Works, NEW t \in Threads, Return(t)
    PROVE  Works'
<1>1. /\ todo[t] = <<>> /\ live' = live \ {t}
      /\ UNCHANGED <<bound, todo, owner, running, spawned, found, trades, delivered, tape,
                     handler, closing, interrupted, ended>>
    BY DEF Return
<1>2. Holds(t) = {}
    BY <1>1, DoneIsSettled
<1>3. owner' \in [Mutexes -> live' \cup {None}]
    BY <1>1, <1>2, TypesOfWorks DEF Holds
<1>4. BaseInv'
    BY <1>1, <1>3 DEF BaseInv, Works
<1>5. (\A u \in Threads : Placed(u))'
    BY <1>1, PlacedAsBefore
<1>6. TapeInv'
    BY <1>1, PlannedAsBefore, TapeKept
<1>7. SignalInv'
    BY <1>1 DEF SignalInv, Works, Holds
<1> QED
    BY <1>4, <1>5, <1>6, <1>7 DEF Works

-------------------------------------------------------------------------------
(* Every step keeps it: the signal *)

\* Sequences of up to three elements.
LEMMA OneElement ==
    ASSUME NEW a
    PROVE  Head(<<a>>) = a /\ Tail(<<a>>) = <<>> /\ Range(<<a>>) = {a}
<1>1. Range(<<a>>) = {a}
    BY DEF Range
<1> QED
    BY <1>1

\* Of two.
LEMMA TwoElements ==
    ASSUME NEW a, NEW b
    PROVE  /\ Head(<<a, b>>) = a /\ Tail(<<a, b>>) = <<b>> /\ Range(<<a, b>>) = {a, b}
           /\ <<a>> \o <<b>> = <<a, b>>
<1>1. Range(<<a, b>>) = {a, b}
    BY DEF Range
<1>2. Head(<<a, b>>) = a /\ Tail(<<a, b>>) = <<b>>
    OBVIOUS
<1>3. PICK c : c = <<a>> \o <<b>>
    OBVIOUS
<1>4. <<a>> \in Seq({a, b}) /\ <<b>> \in Seq({a, b}) /\ Len(<<a>>) = 1 /\ Len(<<b>>) = 1
    OBVIOUS
<1>5. /\ c \in Seq({a, b}) /\ Len(c) = 2
      /\ \A i \in 1 .. 2 : c[i] = IF i <= 1 THEN <<a>>[i] ELSE <<b>>[i - 1]
    BY <1>3, <1>4, ConcatProperties
<1>6. c = <<a, b>>
    BY <1>5
<1> QED
    BY <1>1, <1>2, <1>3, <1>6

\* Of three.
LEMMA OneAndTwo == \A a, b, d : <<a>> \o <<b, d>> = <<a, b, d>>
<1> SUFFICES ASSUME NEW a, NEW b, NEW d PROVE <<a>> \o <<b, d>> = <<a, b, d>>
    OBVIOUS
<1>1. PICK c : c = <<a>> \o <<b, d>>
    OBVIOUS
<1>2. <<a>> \in Seq({a, b, d}) /\ <<b, d>> \in Seq({a, b, d}) /\ Len(<<a>>) = 1 /\ Len(<<b, d>>) = 2
    OBVIOUS
<1>3. /\ c \in Seq({a, b, d}) /\ Len(c) = 3
      /\ \A i \in 1 .. 3 : c[i] = IF i <= 1 THEN <<a>>[i] ELSE <<b, d>>[i - 1]
    BY <1>1, <1>2, ConcatProperties
<1>4. c = <<a, b, d>>
    BY <1>3
<1> QED
    BY <1>1, <1>4

\* What the handler's errands are.
Errands ==
    {Do("stop", "feed"), Do("stop", "health"), Do("exit", None)} \cup {Do("join", x) : x \in Services}

\* The handler has a sequence of errands.
LEMMA ClosingsAreErrands ==
    ASSUME NEW c \in Closings
    PROVE  c \in Seq(Errands)
<1>1. \A a, b, d \in Errands : <<a, b, d>> \in Seq(Errands)
    OBVIOUS
<1>2. \A a, b \in Errands : <<a, b>> \in Seq(Errands)
    OBVIOUS
<1>3. \A a \in Errands : <<a>> \in Seq(Errands)
    OBVIOUS
<1>4. <<>> \in Seq(Errands)
    OBVIOUS
<1>5. /\ Do("stop", "feed") \in Errands /\ Do("stop", "health") \in Errands /\ Do("exit", None) \in Errands
      /\ \A x \in Services : Do("join", x) \in Errands
    BY DEF Errands
<1> HIDE DEF Errands
<1>6. CASE c \in {<<>>, Shutdown, <<Do("stop", "health"), Do("exit", None)>>, <<Do("exit", None)>>}
    BY <1>1, <1>2, <1>3, <1>4, <1>5, <1>6 DEF Shutdown
<1>7. CASE c \in {<<Do("join", x), Do("stop", "health"), Do("exit", None)>> : x \in Services \cap {"feed"}}
    BY <1>1, <1>5, <1>7
<1>8. CASE c \in {<<Do("join", x), Do("exit", None)>> : x \in Services \cap {"health"}}
    BY <1>2, <1>5, <1>8
<1> QED
    BY <1>6, <1>7, <1>8 DEF Closings

\* What is left of the handler's work after its next step.
LEMMA ClosingMoves ==
    ASSUME NEW c \in Closings, c # <<>>
    PROVE  /\ Tail(c) \in Closings
           /\ \A i \in Range(c) : i = Head(c) \/ i \in Range(Tail(c))
           /\ \/ /\ Head(c) \in {Do("stop", x) : x \in {"feed", "health"}}
                 /\ \A x \in Services : Head(c) = Do("stop", x) =>
                        /\ StopService(x) \o Tail(c) \in Closings
                        /\ Range(StopService(x) \o Tail(c)) = Range(Tail(c)) \cup {Do("join", x)}
              \/ Head(c) \in {Do("join", x) : x \in Services}
              \/ c = <<Do("exit", None)>> /\ Head(c) = Do("exit", None)
<1> DEFINE stop1 == Do("stop", "feed")
           stop2 == Do("stop", "health")
           exit == Do("exit", None)
<1>1. /\ <<>> \in Closings /\ <<stop1, stop2, exit>> \in Closings
      /\ <<stop2, exit>> \in Closings /\ <<exit>> \in Closings
      /\ \A x \in Services : x = "feed" => <<Do("join", x), stop2, exit>> \in Closings
      /\ \A x \in Services : x = "health" => <<Do("join", x), exit>> \in Closings
    BY DEF Closings, Shutdown
<1>2. \/ c = <<stop1, stop2, exit>> \/ c = <<stop2, exit>> \/ c = <<exit>>
      \/ \E x \in Services : x = "feed" /\ c = <<Do("join", x), stop2, exit>>
      \/ \E x \in Services : x = "health" /\ c = <<Do("join", x), exit>>
    BY DEF Closings, Shutdown
<1>3. \A x, y : Do("stop", x) = Do("stop", y) => x = y
    BY DEF Do
<1>4. \A x : StopService(x) = <<Do("join", x)>>
    BY DEF StopService
<1>5. stop1 \in {Do("stop", x) : x \in {"feed", "health"}} /\ stop2 \in {Do("stop", x) : x \in {"feed", "health"}}
    OBVIOUS
<1>6. CASE c = <<exit>>
    <2> HIDE DEF exit, stop1, stop2
    <2>1. Head(c) = exit /\ Tail(c) = <<>> /\ Range(c) = {exit}
        BY <1>6, OneElement
    <2> QED
        BY <1>1, <1>6, <2>1 DEF exit
<1>7. CASE c = <<stop2, exit>>
    <2>1. \A x \in Services : stop2 = Do("stop", x) => x = "health"
        BY <1>3
    <2> HIDE DEF exit, stop1, stop2
    <2>2. Head(c) = stop2 /\ Tail(c) = <<exit>> /\ Range(c) = {stop2, exit} /\ Range(Tail(c)) = {exit}
        BY <1>7, OneElement, TwoElements
    <2>3. ASSUME NEW x \in Services, stop2 = Do("stop", x)
          PROVE  /\ StopService(x) \o Tail(c) \in Closings
                 /\ Range(StopService(x) \o Tail(c)) = Range(Tail(c)) \cup {Do("join", x)}
        <3>1. StopService(x) \o Tail(c) = <<Do("join", x), exit>>
            BY <1>4, <2>2, TwoElements
        <3>2. Range(<<Do("join", x), exit>>) = {Do("join", x), exit}
            BY TwoElements
        <3> QED
            BY <1>1, <2>1, <2>2, <2>3, <3>1, <3>2
    <2> QED
        BY <1>1, <1>5, <2>2, <2>3
<1>8. CASE c = <<stop1, stop2, exit>>
    <2>1. \A x \in Services : stop1 = Do("stop", x) => x = "feed"
        BY <1>3
    <2> HIDE DEF exit, stop1, stop2
    <2>2. /\ Head(c) = stop1 /\ Tail(c) = <<stop2, exit>>
          /\ Range(c) = {stop1, stop2, exit} /\ Range(Tail(c)) = {stop2, exit}
        <3>1. Range(<<stop2, exit>>) = {stop2, exit}
            BY TwoElements
        <3>2. /\ Head(<<stop1, stop2, exit>>) = stop1 /\ Tail(<<stop1, stop2, exit>>) = <<stop2, exit>>
            OBVIOUS
        <3>3. Range(<<stop1, stop2, exit>>) = {stop1, stop2, exit}
            BY DEF Range
        <3> QED
            BY <1>8, <3>1, <3>2, <3>3
    <2>3. ASSUME NEW x \in Services, stop1 = Do("stop", x)
          PROVE  /\ StopService(x) \o Tail(c) \in Closings
                 /\ Range(StopService(x) \o Tail(c)) = Range(Tail(c)) \cup {Do("join", x)}
        <3> DEFINE join == Do("join", x)
        <3>1. StopService(x) \o Tail(c) = <<join, stop2, exit>>
            <4> HIDE DEF join
            <4>1. <<join>> \o <<stop2, exit>> = <<join, stop2, exit>>
                BY OneAndTwo
            <4> QED
                BY <1>4, <2>2, <4>1 DEF join
        <3>2. Range(<<join, stop2, exit>>) = {join, stop2, exit}
            <4> HIDE DEF join
            <4> QED
                BY DEF Range
        <3> QED
            BY <1>1, <2>1, <2>2, <2>3, <3>1, <3>2
    <2> QED
        BY <1>1, <1>5, <2>2, <2>3
<1>9. ASSUME NEW x \in Services, c = <<Do("join", x), stop2, exit>>
      PROVE  /\ Tail(c) \in Closings /\ Head(c) = Do("join", x)
             /\ \A i \in Range(c) : i = Head(c) \/ i \in Range(Tail(c))
    <2> HIDE DEF exit, stop1, stop2
    <2>1. /\ Head(c) = Do("join", x) /\ Tail(c) = <<stop2, exit>>
          /\ Range(c) = {Do("join", x), stop2, exit} /\ Range(Tail(c)) = {stop2, exit}
        <3> DEFINE join == Do("join", x)
        <3>1. Range(<<stop2, exit>>) = {stop2, exit}
            BY TwoElements
        <3>2. /\ Head(<<join, stop2, exit>>) = join /\ Tail(<<join, stop2, exit>>) = <<stop2, exit>>
            <4> HIDE DEF join
            <4> QED
                OBVIOUS
        <3>3. Range(<<join, stop2, exit>>) = {join, stop2, exit}
            <4> HIDE DEF join
            <4> QED
                BY DEF Range
        <3> QED
            BY <1>9, <3>1, <3>2, <3>3
    <2> QED
        BY <1>1, <2>1
<1>10. ASSUME NEW x \in Services, c = <<Do("join", x), exit>>
       PROVE  /\ Tail(c) \in Closings /\ Head(c) = Do("join", x)
              /\ \A i \in Range(c) : i = Head(c) \/ i \in Range(Tail(c))
    <2> HIDE DEF exit, stop1, stop2
    <2>1. /\ Head(c) = Do("join", x) /\ Tail(c) = <<exit>>
          /\ Range(c) = {Do("join", x), exit} /\ Range(Tail(c)) = {exit}
        BY <1>10, OneElement, TwoElements
    <2> QED
        BY <1>1, <2>1
<1> HIDE DEF exit, stop1, stop2
<1>11. (\E x \in Services : c = <<Do("join", x), stop2, exit>> \/ c = <<Do("join", x), exit>>) =>
            /\ Tail(c) \in Closings /\ Head(c) \in {Do("join", x) : x \in Services}
            /\ \A i \in Range(c) : i = Head(c) \/ i \in Range(Tail(c))
    BY <1>9, <1>10
<1> QED
    BY <1>2, <1>6, <1>7, <1>8, <1>11

\* The signal comes.
LEMMA WorksSignal ==
    ASSUME Works, NEW t \in Threads, Signal(t)
    PROVE  Works'
<1>1. /\ handler = None /\ t \in live /\ handler' = t /\ closing' = Shutdown /\ ended = "no"
      /\ interrupted' = [ready |-> "snapshots" \in spawned,
                         free |-> Holds(t) = {} /\ t \notin Services]
      /\ UNCHANGED <<bound, todo, owner, live, running, spawned, found, trades, delivered, tape, ended>>
    BY DEF Signal
<1>2. None \notin Threads /\ "main" \in Threads
    BY TypesOfWorks DEF Threads
<1>3. (\A u \in Threads : Placed(u))'
    BY <1>1, <1>2, PlacedAsBefore
<1>4. BaseInv'
    BY <1>1 DEF BaseInv, Works
<1>5. TapeInv'
    BY <1>1, PlannedAsBefore, TapeKept
<1>6. SignalInv'
    <2>1. closing' \in Closings
        BY <1>1 DEF Closings
    <2>2. handler' # None /\ ended' # "exit"
        BY <1>1, <1>2
    <2>3. interrupted'.free => handler' \in Threads \ Services /\ Holds(handler)' = {}
        BY <1>1 DEF Holds
    <2>4. ASSUME interrupted'.ready
          PROVE  /\ "snapshots" \in spawned' /\ Services \subseteq spawned'
                 /\ \A x \in Services : Do("stop", x) \in Range(closing') /\ x \in running'
        <3>1. "snapshots" \in spawned
            BY <1>1, <2>4
        <3>2. PICK s \in Situations : Stands("main", s)
            BY <1>2 DEF Works, Placed
        <3>3. s.spawned = spawned /\ s.running = running
            BY <1>1, <3>2 DEF Stands
        <3>4. running = Services /\ Services \subseteq spawned
            BY <3>1, <3>3 DEF Situations
        <3>5. Do("stop", "feed") \in Range(Shutdown) /\ Do("stop", "health") \in Range(Shutdown)
            <4>1. DOMAIN Shutdown = 1 .. 3 /\ Shutdown[1] = Do("stop", "feed") /\ Shutdown[2] = Do("stop", "health")
                BY DEF Shutdown
            <4> QED
                BY <4>1 DEF Range
        <3> QED
            BY <1>1, <3>1, <3>4, <3>5, ServerAssumption
    <2> QED
        BY <2>1, <2>2, <2>3, <2>4 DEF SignalInv
<1> QED
    BY <1>3, <1>4, <1>5, <1>6 DEF Works

\* The handler works while the process runs, on the thread it interrupted.
LEMMA HandlerAtWork ==
    ASSUME Works, closing # <<>>
    PROVE  closing \in Closings /\ handler \in Threads /\ handler # None
BY TypesOfWorks DEF Works, SignalInv, BaseInv

\* The handler stops a service.
LEMMA WorksStop ==
    ASSUME Works, Stop
    PROVE  Works'
<1>1. /\ ended = "no" /\ closing # <<>> /\ Head(closing).op = "stop"
      /\ running' = running \ {Closing}
      /\ closing' = (IF Closing \in running THEN StopService(Closing) ELSE <<>>) \o Tail(closing)
      /\ UNCHANGED <<bound, todo, owner, live, spawned, found, trades, delivered, tape,
                     handler, interrupted, ended>>
    BY DEF Stop, ClosingIs
<1>2. closing \in Closings /\ handler \in Threads /\ handler # None
    BY <1>1, HandlerAtWork
<1>3. running \subseteq Services
    BY DEF Works, BaseInv
<1>4. Head(closing) \in {Do("stop", x) : x \in {"feed", "health"}}
    <2>1. \A x : Do("join", x).op = "join" /\ Do("exit", x).op = "exit"
        BY DEF Do
    <2> QED
        BY <1>1, <1>2, <2>1, ClosingMoves
<1>5. Head(closing) = Do("stop", Closing)
    BY <1>4 DEF Closing, Do
<1>6. /\ Tail(closing) \in Closings
      /\ \A i \in Range(closing) : i = Head(closing) \/ i \in Range(Tail(closing))
      /\ Closing \in Services =>
            /\ StopService(Closing) \o Tail(closing) \in Closings
            /\ Range(StopService(Closing) \o Tail(closing)) = Range(Tail(closing)) \cup {Do("join", Closing)}
    <2>1. \A x : Do("join", x).op = "join" /\ Do("exit", x).op = "exit"
        BY DEF Do
    <2> QED
        BY <1>1, <1>2, <1>5, <2>1, ClosingMoves
<1>7. Closing \notin running => closing' = Tail(closing)
    <2>1. Tail(closing) \in Seq(Errands)
        BY <1>6, ClosingsAreErrands
    <2> QED
        BY <1>1, <2>1, ConcatEmptySeq
<1>8. closing' \in Closings /\ Range(Tail(closing)) \subseteq Range(closing')
      /\ (Closing \in running => Do("join", Closing) \in Range(closing'))
    BY <1>1, <1>3, <1>6, <1>7
<1>9. (\A u \in Threads : Placed(u))'
    BY <1>1, <1>2, PlacedAsBefore
<1>10. BaseInv'
    BY <1>1 DEF BaseInv, Works
<1>11. TapeInv'
    BY <1>1, PlannedAsBefore, TapeKept
<1>12. SignalInv'
    <2>1. ASSUME interrupted'.ready, NEW x \in Services
          PROVE  \/ Do("stop", x) \in Range(closing') /\ x \in running'
                 \/ Do("join", x) \in Range(closing')
                 \/ x \notin live'
        <3>1. \/ Do("stop", x) \in Range(closing) /\ x \in running
              \/ Do("join", x) \in Range(closing)
              \/ x \notin live
            BY <1>1, <2>1 DEF Works, SignalInv
        <3>2. CASE x = Closing /\ x \in running
            BY <1>8, <3>2
        <3>3. CASE x = Closing /\ x \notin running
            <4>1. Do("join", x) # Head(closing)
                BY <1>5 DEF Do
            <4> QED
                BY <1>1, <1>6, <1>8, <3>1, <3>3, <4>1
        <3>4. CASE x # Closing
            <4>1. Do("join", x) # Head(closing) /\ Do("stop", x) # Head(closing)
                BY <1>5, <3>4 DEF Do
            <4> QED
                BY <1>1, <1>6, <1>8, <3>1, <3>4, <4>1
        <3> QED
            BY <3>2, <3>3, <3>4
    <2>2. interrupted'.free => handler' \in Threads \ Services /\ Holds(handler)' = {}
        BY <1>1 DEF Works, SignalInv, Holds
    <2>3. interrupted'.ready => "snapshots" \in spawned' /\ Services \subseteq spawned'
        BY <1>1 DEF Works, SignalInv
    <2> QED
        BY <1>1, <1>2, <1>8, <2>1, <2>2, <2>3 DEF SignalInv
<1> QED
    BY <1>9, <1>10, <1>11, <1>12 DEF Works

\* The handler has joined a service, or may not join it.
LEMMA WorksJoin ==
    ASSUME Works, Join
    PROVE  Works'
<1>1. /\ ended = "no" /\ closing # <<>> /\ Head(closing).op = "join"
      /\ \/ ended' = "abort" /\ closing' = closing
         \/ /\ Closing \in spawned => Closing \notin live
            /\ closing' = Tail(closing) /\ ended' = ended
      /\ UNCHANGED <<bound, todo, owner, live, running, spawned, found, trades, delivered, tape,
                     handler, interrupted>>
    BY DEF Join, ClosingIs
<1>2. closing \in Closings /\ handler \in Threads /\ handler # None
    BY <1>1, HandlerAtWork
<1>3. Head(closing) \in {Do("join", x) : x \in Services}
    <2>1. \A x : Do("stop", x).op = "stop" /\ Do("exit", x).op = "exit"
        BY DEF Do
    <2> QED
        BY <1>1, <1>2, <2>1, ClosingMoves
<1>4. Head(closing) = Do("join", Closing) /\ Closing \in Services
    <2>1. PICK x \in Services : Head(closing) = Do("join", x)
        BY <1>3
    <2>2. Closing = x
        BY <2>1 DEF Closing, Do
    <2> QED
        BY <2>1, <2>2
<1>5. /\ Tail(closing) \in Closings
      /\ \A i \in Range(closing) : i = Head(closing) \/ i \in Range(Tail(closing))
    BY <1>1, <1>2, ClosingMoves
<1>6. (\A u \in Threads : Placed(u))'
    BY <1>1, <1>2, PlacedAsBefore
<1>7. BaseInv'
    BY <1>1 DEF BaseInv, Works
<1>8. TapeInv'
    BY <1>1, PlannedAsBefore, TapeKept
<1>9. SignalInv'
    <2>1. ASSUME interrupted'.ready, NEW x \in Services
          PROVE  \/ Do("stop", x) \in Range(closing') /\ x \in running'
                 \/ Do("join", x) \in Range(closing')
                 \/ x \notin live'
        <3>1. /\ \/ Do("stop", x) \in Range(closing) /\ x \in running
                 \/ Do("join", x) \in Range(closing)
                 \/ x \notin live
              /\ Services \subseteq spawned
            BY <1>1, <2>1 DEF Works, SignalInv
        <3>2. CASE closing' = closing
            BY <1>1, <3>1, <3>2
        <3>3. CASE closing' = Tail(closing) /\ (Closing \in spawned => Closing \notin live)
            <4>1. Do("stop", x) # Head(closing) /\ (x # Closing => Do("join", x) # Head(closing))
                BY <1>4 DEF Do
            <4> QED
                BY <1>1, <1>4, <1>5, <3>1, <3>3, <4>1
        <3> QED
            BY <1>1, <3>2, <3>3
    <2>2. interrupted'.free => handler' \in Threads \ Services /\ Holds(handler)' = {}
        BY <1>1 DEF Works, SignalInv, Holds
    <2>3. interrupted'.ready => "snapshots" \in spawned' /\ Services \subseteq spawned'
        BY <1>1 DEF Works, SignalInv
    <2>4. closing' \in Closings /\ ended' # "exit"
        BY <1>1, <1>2, <1>5
    <2> QED
        BY <1>1, <1>2, <2>1, <2>2, <2>3, <2>4 DEF SignalInv
<1> QED
    BY <1>6, <1>7, <1>8, <1>9 DEF Works

\* The handler calls exit.
LEMMA WorksExit ==
    ASSUME Works, Exit
    PROVE  Works'
<1>1. /\ ended = "no" /\ closing # <<>> /\ Head(closing).op = "exit" /\ ended' = "exit"
      /\ UNCHANGED <<bound, todo, owner, live, running, spawned, found, trades, delivered, tape,
                     handler, closing, interrupted>>
    BY DEF Exit, ClosingIs
<1>2. closing \in Closings /\ handler \in Threads /\ handler # None
    BY <1>1, HandlerAtWork
<1>3. closing = <<Do("exit", None)>>
    <2>1. \A x : Do("stop", x).op = "stop" /\ Do("join", x).op = "join"
        BY DEF Do
    <2> QED
        BY <1>1, <1>2, <2>1, ClosingMoves
<1>4. (\A u \in Threads : Placed(u))'
    BY <1>1, <1>2, PlacedAsBefore
<1>5. BaseInv'
    BY <1>1 DEF BaseInv, Works
<1>6. TapeInv'
    BY <1>1, PlannedAsBefore, TapeKept
<1>7. SignalInv'
    BY <1>1, <1>3 DEF SignalInv, Works, Holds
<1> QED
    BY <1>4, <1>5, <1>6, <1>7 DEF Works

\* Nothing happens.
LEMMA WorksStutter ==
    ASSUME Works, UNCHANGED vars
    PROVE  Works'
<1>1. UNCHANGED <<todo, owner, live, running, spawned, found, trades, bound, delivered, tape,
                  handler, closing, interrupted, ended>>
    BY DEF vars
<1>2. (\A u \in Threads : Placed(u))'
    BY <1>1, PlacedAsBefore
<1>3. BaseInv'
    BY <1>1 DEF BaseInv, Works
<1>4. TapeInv'
    BY <1>1, PlannedAsBefore, TapeKept
<1>5. SignalInv'
    BY <1>1 DEF SignalInv, Works, Holds
<1> QED
    BY <1>2, <1>3, <1>4, <1>5 DEF Works

\* So does every step.
LEMMA WorksNext ==
    ASSUME Works, [Next]_vars
    PROVE  Works'
BY WorksLock, WorksUnlock, WorksMatch, WorksDeliver, WorksSetRunning, WorksSpawn, WorksBeginRound,
   WorksReturn, WorksSignal, WorksStop, WorksJoin, WorksExit, WorksStutter
   DEF Next, HandlerStep, Step

-------------------------------------------------------------------------------
(* How it begins *)

\* A start-up is a program that asks for no trades.
LEMMA QuietIsEnough ==
    ASSUME NEW p, NEW s, NEW r, Leads(Quiet, p, s, r)
    PROVE  Leads(Instructions, p, s, r) /\ Matches(p) = 0
BY MatchesOfQuiet DEF Leads

\* With a configuration file, main has its start-up before it, and the other
\* threads nothing.
LEMMA WorksInit ==
    ASSUME Init, todo = [t \in Threads |-> First(t, "present")]
    PROVE  Works
<1> DEFINE up == Booting(Services, Services \cup {"server", "snapshots"})
           zero == Booting({}, {})
<1>1. /\ owner = [m \in Mutexes |-> None] /\ live = {"main"} /\ running = {} /\ spawned = {}
      /\ found = [t \in Threads |-> <<>>] /\ trades = 0 /\ bound \in Bounds /\ delivered = <<>>
      /\ tape = <<>> /\ handler = None /\ closing = <<>>
      /\ interrupted = [ready |-> FALSE, free |-> FALSE] /\ ended = "no"
    BY DEF Init
<1>2. up \in Situations /\ Leads(Quiet, Boot("present"), zero, up)
    BY BootLeadsUp
<1>3. Leads(Instructions, Boot("present"), zero, up) /\ Matches(Boot("present")) = 0
    BY <1>2, QuietIsEnough
<1>4. zero \in Situations /\ Boot("present") \in Seq(Instructions)
    BY <1>3, LeadsBetween
<1>5. /\ zero.held = {} /\ zero.due = 0 /\ zero.running = {} /\ zero.spawned = {}
      /\ up.held = {} /\ up.due = 0 /\ "snapshots" \in up.spawned
    BY DEF Booting
<1>6. None \notin Threads
    BY ServerAssumption
<1> HIDE DEF up, zero
<1>7. \A t \in Threads : Holds(t) = {}
    BY <1>1, <1>6 DEF Holds
<1>8. \A t \in Threads : Len(found[t]) = 0
    BY <1>1
<1>9. up \in Settled
    BY <1>2, <1>5 DEF Settled
<1>10. \A t \in Threads \ {"main"} :
            Leads(Instructions, First(t, "present"), up, up) /\ First(t, "present") \in Seq(Quiet)
    <2>1. At(up, {}, 0) = up
        BY <1>2, <1>5 DEF At, Situations
    <2>2. \A I : Guards(I) => Leads(I, Guarded("config", <<>>), up, up)
        BY <1>2, <2>1, NamedMutexes, LeadsThroughFree
    <2>3. Leads(Quiet, Guarded("config", <<>>), up, up) /\ Leads(Instructions, Guarded("config", <<>>), up, up)
        BY <2>2, GuardsOfQuiet
    <2>4. Guarded("config", <<>>) \in Seq(Quiet)
        BY <2>3, LeadsBetween
    <2>5. Leads(Instructions, <<>>, up, up) /\ <<>> \in Seq(Quiet)
        BY <1>2, LeadsNowhere
    <2> QED
        BY <2>3, <2>4, <2>5 DEF First
<1>11. \A t \in Threads : Placed(t)
    <2>1. ASSUME NEW t \in Threads PROVE Placed(t)
        <3>1. CASE t = "main"
            <4>1. Stands(t, zero)
                BY <1>1, <1>5, <1>7, <1>8, <3>1 DEF Stands
            <4>2. todo[t] = Boot("present")
                BY <3>1 DEF First
            <4> QED
                BY <1>3, <1>4, <1>9, <4>1, <4>2 DEF Placed
        <3>2. CASE t # "main"
            <4>1. Stands(t, up)
                BY <1>5, <1>7, <1>8, <3>2 DEF Stands
            <4>2. Leads(Instructions, todo[t], up, up)
                BY <1>10, <3>2
            <4> QED
                BY <1>2, <1>9, <4>1, <4>2 DEF Placed
        <3> QED
            BY <3>1, <3>2
    <2> QED
        BY <2>1
<1>16. \A t \in Threads : todo[t] \in Seq(Instructions) /\ Matches(todo[t]) = 0
    <2>1. ASSUME NEW t \in Threads, t # "main"
          PROVE  First(t, "present") \in Seq(Instructions) /\ Matches(First(t, "present")) = 0
        BY <1>10, <2>1, MatchesOfQuiet
    <2>2. First("main", "present") = Boot("present")
        BY DEF First
    <2> QED
        BY <1>3, <1>4, <2>1, <2>2
<1>17. todo \in [Threads -> Seq(Instructions)]
    BY <1>16
<1>12. BaseInv
    <2>1. owner \in [Mutexes -> live \cup {None}]
        BY <1>1
    <2>2. live \subseteq Threads
        BY <1>1 DEF Threads
    <2>3. found \in [Threads -> Seq(Nat)] /\ delivered \in Seq(Nat) /\ tape \in Seq(Nat)
        BY <1>1
    <2>4. interrupted \in [ready : BOOLEAN, free : BOOLEAN]
        BY <1>1
    <2> QED
        BY <1>1, <1>17, <2>1, <2>2, <2>3, <2>4 DEF BaseInv
<1>13. Planned = 0
    <2>1. PICK f : f = [t \in Threads |-> Matches(todo[t])]
        OBVIOUS
    <2>2. \A t \in Threads : Matches(todo[t]) = 0
        BY <1>16
    <2>3. \A t \in Threads : f[t] = 0
        BY <2>1, <2>2
    <2>4. IsFiniteSet(Threads) /\ PlannedIn(todo) = SumFunctionOnSet(f, Threads)
        BY <1>17, <2>1, PlannedAsSum
    <2> QED
        BY <2>3, <2>4, SumOfZeros DEF Planned, PlannedIn
<1>14. TapeInv
    <2>1. owner["engine"] = None
        BY <1>1, NamedMutexes
    <2>2. bound.trades \in Nat
        BY <1>1, ServerAssumption
    <2>3. Len(tape) = 0 /\ tape = delivered \o <<>>
        BY <1>1
    <2>4. OnTheirWay = <<>>
        BY <2>1 DEF OnTheirWay
    <2> QED
        BY <1>1, <1>13, <2>2, <2>3, <2>4 DEF TapeInv
<1>15. SignalInv
    BY <1>1 DEF SignalInv, Closings
<1> QED
    BY <1>11, <1>12, <1>14, <1>15 DEF Works

-------------------------------------------------------------------------------
(* Without a configuration file: main waits for itself *)

\* A program that goes on with config_mutex_.
LocksConfig(p) == p # <<>> /\ Head(p) = Do("lock", "config")

\* main is in load_config, or before it, and goes no further.
Hung ==
    /\ DOMAIN todo = Threads
    /\ live = {"main"} /\ running = {} /\ spawned = {}
    /\ found = [t \in Threads |-> <<>>] /\ trades = 0 /\ delivered = <<>> /\ tape = <<>>
    /\ handler \in Threads \cup {None}
    /\ interrupted \in [ready : {FALSE}, free : BOOLEAN]
    /\ ended \in {"no", "exit", "abort"}
    /\ owner \in [Mutexes -> {"main", None}]
    /\ LocksConfig(todo["main"])
    /\ owner["config"] = None => LocksConfig(Tail(todo["main"]))

\* A program of start-up that locks config_mutex_ twice over, however it goes on.
LocksTwice(p) ==
    /\ p \in Seq(Quiet) /\ Len(p) > 1
    /\ p[1] = Do("lock", "config") /\ p[2] = Do("lock", "config")

\* Whatever comes after it.
LEMMA LocksTwiceOn ==
    ASSUME NEW p, LocksTwice(p), NEW q \in Seq(Quiet)
    PROVE  LocksTwice(p \o q)
<1>1. PICK c : c = p \o q
    OBVIOUS
<1>2. p \in Seq(Quiet) /\ Len(p) \in Nat /\ Len(q) \in Nat /\ Len(p) > 1
    BY LenProperties DEF LocksTwice
<1>3. c \in Seq(Quiet) /\ Len(c) = Len(p) + Len(q)
    BY <1>1, <1>2, ConcatProperties
<1>4. \A i \in 1 .. Len(p) + Len(q) : c[i] = IF i <= Len(p) THEN p[i] ELSE q[i - Len(p)]
    BY <1>1, <1>2, ConcatProperties
<1>5. c[1] = p[1] /\ c[2] = p[2] /\ Len(c) > 1
    BY <1>2, <1>3, <1>4
<1> QED
    BY <1>1, <1>3, <1>5 DEF LocksTwice

\* load_config locks, does not find the file, and calls save_config, which locks.
LEMMA BootLocksTwice == LocksTwice(Boot("missing"))
<1> DEFINE lock == Do("lock", "config")
           unlock == Do("unlock", "config")
           saving == Guarded("config", <<>>)
<1>1. /\ {} \in SUBSET Services /\ {} \in SUBSET (Threads \ {"main", "snapshots"})
      /\ "config" \in Mutexes /\ "engine" \in Mutexes /\ 2 \in Nat /\ Cardinality(Symbols) \in Nat
      /\ "server" \in Threads \ {"main"} /\ "snapshots" \in Threads \ {"main"}
    BY NamedMutexes, ServerAssumption, FS_CardinalityType DEF Threads
<1>2. \A n \in Nat, m \in {"config", "engine"} :
        Guarded(m, <<>>) \in Seq(Quiet) /\ Times(n, Guarded(m, <<>>)) \in Seq(Quiet)
    BY <1>1, LeadsThroughBoot, LeadsBetween
<1>3. /\ Do("spawn", "server") \in Quiet /\ Do("spawn", "snapshots") \in Quiet
      /\ lock \in Quiet /\ unlock \in Quiet
    BY <1>1, GuardsOfQuiet DEF Guards, Quiet, Instructions, Do, Ops
<1>4. Start("feed") \in Seq(Quiet) /\ Start("health") \in Seq(Quiet)
    BY <1>1, LeadsByStart, LeadsBetween
<1>5. saving \in Seq(Quiet) /\ Len(saving) \in Nat /\ Len(saving) > 0 /\ saving[1] = lock
    <2>1. <<lock>> \in Seq(Quiet) /\ <<unlock>> \in Seq(Quiet) /\ Len(<<lock>>) = 1 /\ Len(<<unlock>>) = 1
        BY <1>3
    <2>2. PICK c : c = <<lock>> \o <<unlock>>
        OBVIOUS
    <2>3. /\ c \in Seq(Quiet) /\ Len(c) = 2
          /\ \A i \in 1 .. 2 : c[i] = IF i <= 1 THEN <<lock>>[i] ELSE <<unlock>>[i - 1]
        BY <2>1, <2>2, ConcatProperties
    <2>4. <<lock>> \o <<>> = <<lock>>
        BY <2>1, ConcatEmptySeq
    <2>5. saving = c
        BY <2>2, <2>4 DEF Guarded
    <2> QED
        BY <2>3, <2>5
<1> HIDE DEF saving
<1>6. LocksTwice(<<lock>> \o saving)
    <2>1. <<lock>> \in Seq(Quiet) /\ Len(<<lock>>) = 1 /\ <<lock>>[1] = lock
        BY <1>3
    <2>2. PICK c : c = <<lock>> \o saving
        OBVIOUS
    <2>3. c \in Seq(Quiet) /\ Len(c) = 1 + Len(saving)
        BY <1>5, <2>1, <2>2, ConcatProperties
    <2>4. \A i \in 1 .. 1 + Len(saving) : c[i] = IF i <= 1 THEN <<lock>>[i] ELSE saving[i - 1]
        BY <1>5, <2>1, <2>2, ConcatProperties
    <2>5. 1 \in 1 .. 1 + Len(saving) /\ 2 \in 1 .. 1 + Len(saving) /\ Len(c) > 1
        BY <1>5, <2>3
    <2>6. c[1] = lock /\ c[2] = saving[1]
        BY <2>1, <2>4, <2>5
    <2> QED
        BY <1>5, <2>2, <2>3, <2>5, <2>6 DEF LocksTwice
<1>7. LocksTwice(LoadConfig("missing"))
    <2>1. <<unlock>> \in Seq(Quiet)
        BY <1>3
    <2>2. LocksTwice((<<lock>> \o saving) \o <<unlock>>)
        BY <1>6, <2>1, LocksTwiceOn
    <2> QED
        BY <2>2 DEF LoadConfig, Guarded, saving
<1> DEFINE load == LoadConfig("missing")
           reads == Guarded("config", <<>>)
           built == Times(2, Guarded("engine", <<>>))
           set == Times(2, Guarded("config", <<>>))
           symbols == Times(Cardinality(Symbols), Guarded("engine", <<>>))
           server == <<Do("spawn", "server")>>
           feed == Start("feed")
           health == Start("health")
           snapshots == <<Do("spawn", "snapshots")>>
<1>8. /\ reads \in Seq(Quiet) /\ built \in Seq(Quiet) /\ set \in Seq(Quiet) /\ symbols \in Seq(Quiet)
      /\ server \in Seq(Quiet) /\ feed \in Seq(Quiet) /\ health \in Seq(Quiet) /\ snapshots \in Seq(Quiet)
    <2>1. reads \in Seq(Quiet) /\ built \in Seq(Quiet) /\ set \in Seq(Quiet)
        BY <1>1, <1>2
    <2>2. symbols \in Seq(Quiet)
        BY <1>1, <1>2
    <2>3. \A i \in Quiet : <<i>> \in Seq(Quiet)
        OBVIOUS
    <2>4. server \in Seq(Quiet) /\ snapshots \in Seq(Quiet)
        BY <1>3, <2>3
    <2> QED
        BY <1>4, <2>1, <2>2, <2>4
<1>9. Boot("missing") = (((((((load \o reads) \o built) \o set) \o symbols) \o server) \o feed) \o health)
                            \o snapshots
    BY DEF Boot
<1>10. LocksTwice(load)
    BY <1>7
<1> HIDE DEF load, reads, built, set, symbols, server, feed, health, snapshots
<1>11. LocksTwice(((load \o reads) \o built) \o set)
    BY <1>8, <1>10, LocksTwiceOn
<1>12. LocksTwice(((((load \o reads) \o built) \o set) \o symbols) \o server)
    BY <1>8, <1>11, LocksTwiceOn
<1>13. LocksTwice((((((((load \o reads) \o built) \o set) \o symbols) \o server) \o feed) \o health) \o snapshots)
    BY <1>8, <1>12, LocksTwiceOn
<1> QED
    BY <1>9, <1>13

\* main comes into load_config.
LEMMA HungInit ==
    ASSUME Init, todo = [t \in Threads |-> First(t, "missing")]
    PROVE  Hung
<1>1. /\ owner = [m \in Mutexes |-> None] /\ live = {"main"} /\ running = {} /\ spawned = {}
      /\ found = [t \in Threads |-> <<>>] /\ trades = 0 /\ delivered = <<>> /\ tape = <<>>
      /\ handler = None /\ interrupted = [ready |-> FALSE, free |-> FALSE] /\ ended = "no"
      /\ bound \in Bounds /\ closing = <<>>
    BY DEF Init
<1>2. PICK p : p = Boot("missing")
    OBVIOUS
<1>3. p \in Seq(Quiet) /\ Len(p) \in Nat /\ Len(p) > 1 /\ p[1] = Do("lock", "config") /\ p[2] = Do("lock", "config")
    BY <1>2, BootLocksTwice, LenProperties DEF LocksTwice
<1>4. p # <<>>
    BY <1>3
<1>5. Head(p) = p[1] /\ Tail(p) \in Seq(Quiet) /\ Len(Tail(p)) = Len(p) - 1
    BY <1>3, <1>4, HeadTailProperties
<1>6. Tail(p)[1] = p[2]
    <2>1. 1 \in 1 .. Len(Tail(p)) /\ 1 + 1 = 2
        BY <1>3, <1>5
    <2>2. \A i \in 1 .. Len(Tail(p)) : Tail(p)[i] = p[i + 1]
        BY <1>3, <1>4, HeadTailProperties
    <2> QED
        BY <2>1, <2>2
<1>7. Tail(p) # <<>> /\ Head(Tail(p)) = Tail(p)[1]
    <2>1. PICK q : q = Tail(p)
        OBVIOUS
    <2>2. q \in Seq(Quiet) /\ Len(q) > 0
        BY <1>3, <1>5, <2>1
    <2>3. q # <<>> /\ Head(q) = q[1]
        BY <2>2
    <2> QED
        BY <2>1, <2>3
<1>8. todo["main"] = p /\ DOMAIN todo = Threads
    BY <1>2 DEF First, Threads
<1>9. LocksConfig(todo["main"]) /\ LocksConfig(Tail(todo["main"]))
    BY <1>3, <1>4, <1>5, <1>6, <1>7, <1>8 DEF LocksConfig
<1>10. owner \in [Mutexes -> {"main", None}]
    BY <1>1
<1>11. interrupted \in [ready : {FALSE}, free : BOOLEAN]
    BY <1>1
<1> QED
    BY <1>1, <1>8, <1>9, <1>10, <1>11 DEF Hung

\* Of the threads main alone is there, and it can only take config_mutex_ once.
LEMMA HungStep ==
    ASSUME Hung, NEW t \in Threads, Step(t)
    PROVE  Hung'
<1>1. None \notin Threads /\ "main" \in Threads
    BY ServerAssumption DEF Threads
<1>2. t = "main" /\ todo[t] # <<>> /\ Head(todo[t]) = Do("lock", "config")
    BY DEF Hung, LocksConfig, Step, Lock, Unlock, Match, Deliver, SetRunning, Spawn, BeginRound, Return,
           NextIs, Runs
<1>3. Head(todo[t]).op = "lock" /\ Head(todo[t]).arg = "config"
    BY <1>2 DEF Do
<1>4. Lock(t)
    BY <1>2, <1>3 DEF Step, Lock, Unlock, Match, Deliver, SetRunning, Spawn, BeginRound, Return, NextIs
<1>5. /\ owner["config"] = None /\ owner' = [owner EXCEPT !["config"] = t]
      /\ todo' = [todo EXCEPT ![t] = Tail(todo[t])]
      /\ UNCHANGED <<live, running, spawned, found, trades, delivered, tape, handler, interrupted, ended>>
    BY <1>3, <1>4 DEF Lock, Arg, Advance
<1>6. owner' \in [Mutexes -> {"main", None}] /\ owner'["config"] = "main"
    BY <1>2, <1>5, NamedMutexes DEF Hung
<1>7. DOMAIN todo' = Threads /\ todo'["main"] = Tail(todo["main"])
    BY <1>1, <1>2, <1>5 DEF Hung
<1>8. LocksConfig(todo'["main"])
    BY <1>5, <1>7 DEF Hung
<1>9. owner'["config"] # None
    BY <1>1, <1>6
<1> QED
    BY <1>5, <1>6, <1>7, <1>8, <1>9 DEF Hung

\* The signal handler can end the process, but does not help main.
LEMMA HungSignal ==
    ASSUME Hung, (\E t \in Threads : Signal(t)) \/ HandlerStep \/ UNCHANGED vars
    PROVE  Hung'
<1>1. UNCHANGED <<todo, owner, live, spawned, found, trades, delivered, tape>>
    BY DEF Signal, HandlerStep, Stop, Join, Exit, vars
<1>2. running' = {} /\ handler' \in Threads \cup {None} /\ ended' \in {"no", "exit", "abort"}
    BY DEF Signal, HandlerStep, Stop, Join, Exit, vars, Hung
<1>3. interrupted' \in [ready : {FALSE}, free : BOOLEAN]
    <2>1. CASE \E t \in Threads : Signal(t)
        <3>1. PICK t \in Threads :
                interrupted' = [ready |-> "snapshots" \in spawned, free |-> Holds(t) = {} /\ t \notin Services]
            BY <2>1 DEF Signal
        <3>2. ("snapshots" \in spawned) = FALSE
            BY DEF Hung
        <3>3. PICK free \in BOOLEAN : free = (Holds(t) = {} /\ t \notin Services)
            OBVIOUS
        <3>4. interrupted' = [ready |-> FALSE, free |-> free]
            BY <3>1, <3>2, <3>3, Zenon
        <3> QED
            BY <3>4
    <2>2. CASE HandlerStep \/ UNCHANGED vars
        BY <2>2 DEF HandlerStep, Stop, Join, Exit, vars, Hung
    <2> QED
        BY <2>1, <2>2
<1> QED
    BY <1>1, <1>2, <1>3 DEF Hung, LocksConfig

\* It stays there.
LEMMA HungNext ==
    ASSUME Hung, [Next]_vars
    PROVE  Hung'
BY HungStep, HungSignal DEF Next

-------------------------------------------------------------------------------
(* What holds of every run *)

\* The two ways it can be.
ServerInv == Hung \/ Works

\* The process works, or has hung at start-up.
LEMMA ServerInvariant == Spec => []ServerInv
<1>1. Init => ServerInv
    <2>1. ASSUME Init PROVE ServerInv
        <3>1. PICK file \in ConfigFiles : todo = [t \in Threads |-> First(t, file)]
            BY <2>1 DEF Init
        <3>2. file = "present" \/ file = "missing"
            BY ServerAssumption
        <3> QED
            BY <2>1, <3>1, <3>2, WorksInit, HungInit DEF ServerInv
    <2> QED
        BY <2>1
<1>2. ServerInv /\ [Next]_vars => ServerInv'
    BY WorksNext, HungNext DEF ServerInv
<1> QED
    BY <1>1, <1>2, PTL DEF Spec

\* With a configuration file it works.
LEMMA WorksInvariant ==
    ASSUME "missing" \notin ConfigFiles
    PROVE  Spec => []Works
<1>1. Init => Works
    <2>1. ASSUME Init PROVE Works
        <3>1. PICK file \in ConfigFiles : todo = [t \in Threads |-> First(t, file)]
            BY <2>1 DEF Init
        <3>2. file = "present"
            BY ServerAssumption
        <3> QED
            BY <2>1, <3>1, <3>2, WorksInit
    <2> QED
        BY <2>1
<1>2. Works /\ [Next]_vars => Works'
    BY WorksNext
<1> QED
    BY <1>1, <1>2, PTL DEF Spec

\* A sequence is one of the values it has.
LEMMA OfTheseValues ==
    ASSUME NEW T, NEW p \in Seq(T), NEW S, \A i \in 1 .. Len(p) : p[i] \in S
    PROVE  p \in Seq(S)
<1>1. Len(p) \in Nat /\ p \in [1 .. Len(p) -> T]
    BY LenProperties
<1>2. p \in [1 .. Len(p) -> S]
    BY <1>1
<1> QED
    BY <1>1, <1>2, SeqDef

\* What was delivered is a beginning of the tape, and what is on its way the rest.
LEMMA DeliveredOfTape ==
    ASSUME Works
    PROVE  /\ Len(delivered) \in 0 .. Len(tape)
           /\ \A k \in 1 .. Len(delivered) : k \in 1 .. Len(tape) /\ delivered[k] = tape[k]
           /\ \A t \in Threads : \A i \in 1 .. Len(found[t]) :
                \E k \in 1 .. Len(tape) : found[t][i] = tape[k]
<1>1. delivered \in Seq(Nat)
    BY TypesOfWorks
<1>2. OnTheirWay \in Seq(Nat)
    <2>1. CASE owner["engine"] = None
        BY <2>1 DEF OnTheirWay
    <2>2. CASE owner["engine"] # None
        <3>1. owner["engine"] \in Threads
            BY <2>2, TypesOfWorks, NamedMutexes
        <3> QED
            BY <2>2, <3>1, FoundByHolder DEF OnTheirWay
    <2> QED
        BY <2>1, <2>2
<1>3. PICK n \in Nat : n = Len(delivered)
    BY <1>1, LenProperties
<1>4. PICK m \in Nat : m = Len(OnTheirWay)
    BY <1>2, LenProperties
<1>5. /\ Len(tape) = n + m
      /\ \A k \in 1 .. n + m : tape[k] = IF k <= n THEN delivered[k] ELSE OnTheirWay[k - n]
    BY <1>1, <1>2, <1>3, <1>4, ConcatProperties DEF Works, TapeInv
<1>6. \A k \in 1 .. n : k \in 1 .. Len(tape) /\ delivered[k] = tape[k]
    BY <1>5
<1>7. ASSUME NEW t \in Threads, NEW i \in 1 .. Len(found[t])
      PROVE  \E k \in 1 .. Len(tape) : found[t][i] = tape[k]
    <2>1. owner["engine"] = t
        BY FoundByHolder
    <2>2. OnTheirWay = found[t]
        BY <2>1, TypesOfWorks DEF OnTheirWay
    <2>3. i \in 1 .. m
        BY <1>4, <2>2
    <2>4. n + i \in 1 .. n + m /\ ~(n + i <= n) /\ (n + i) - n = i
        BY <2>3
    <2>5. tape[n + i] = OnTheirWay[i]
        BY <1>5, <2>4
    <2> QED
        BY <1>5, <2>2, <2>4, <2>5
<1> QED
    BY <1>3, <1>5, <1>6, <1>7

\* The trades of a process that works are numbered up to the bound of its run.
LEMMA NumbersInBound ==
    ASSUME Works
    PROVE  /\ trades \in 0 .. MaxTrades /\ delivered \in Seq(1 .. MaxTrades)
           /\ tape \in Seq(1 .. MaxTrades) /\ found \in [Threads -> Seq(1 .. MaxTrades)]
<1>1. MaxTrades \in Nat /\ bound.trades <= MaxTrades
    BY MaxTradesIsNat DEF Works, BaseInv
<1>2. /\ trades \in Nat /\ bound.trades \in Nat /\ Planned \in Nat
      /\ delivered \in Seq(Nat) /\ tape \in Seq(Nat)
    BY TypesOfWorks
<1>3. trades + Planned <= bound.trades
    BY DEF Works, TapeInv
<1>4. trades <= MaxTrades
    BY <1>1, <1>2, <1>3
<1>5. \A k \in 1 .. Len(tape) : tape[k] \in 1 .. MaxTrades
    <2>1. \A x \in 1 .. trades : x \in 1 .. MaxTrades
        BY <1>1, <1>2, <1>4
    <2> QED
        BY <2>1 DEF Works, TapeInv
<1>6. tape \in Seq(1 .. MaxTrades)
    BY <1>2, <1>5, OfTheseValues
<1>7. delivered \in Seq(1 .. MaxTrades)
    <2>1. \A k \in 1 .. Len(delivered) : delivered[k] \in 1 .. MaxTrades
        BY <1>5, DeliveredOfTape
    <2> QED
        BY <1>2, <2>1, OfTheseValues
<1>8. ASSUME NEW t \in Threads PROVE found[t] \in Seq(1 .. MaxTrades)
    <2>1. found[t] \in Seq(Nat)
        BY FoundByHolder
    <2>2. \A i \in 1 .. Len(found[t]) : found[t][i] \in 1 .. MaxTrades
        BY <1>5, DeliveredOfTape
    <2> QED
        BY <2>1, <2>2, OfTheseValues
<1>9. found \in [Threads -> Seq(1 .. MaxTrades)]
    <2>1. found \in [Threads -> Seq(Nat)]
        BY DEF Works, BaseInv
    <2> QED
        BY <1>8, <2>1
<1> QED
    BY <1>1, <1>2, <1>4, <1>6, <1>7, <1>9

\* Every variable of the process has its type, and no thread returns with a
\* mutex: Server's TypeOK, for any symbols, rounds, signals and configuration.
THEOREM ServerTypeCorrect == Spec => []TypeOK
<1>1. Works => TypeOK
    <2>1. ASSUME Works PROVE TypeOK
        <3>1. DOMAIN todo = Threads
            BY <2>1 DEF Works, BaseInv
        <3> QED
            BY <2>1, <3>1, NumbersInBound DEF TypeOK, Works, BaseInv
    <2> QED
        BY <2>1
<1>2. Hung => TypeOK
    <2>1. ASSUME Hung PROVE TypeOK
        <3>1. MaxTrades \in Nat /\ "main" \in Threads
            BY MaxTradesIsNat DEF Threads
        <3>2. /\ found \in [Threads -> Seq(1 .. MaxTrades)]
              /\ trades \in 0 .. MaxTrades /\ delivered \in Seq(1 .. MaxTrades)
              /\ tape \in Seq(1 .. MaxTrades)
            BY <2>1, <3>1 DEF Hung
        <3>3. /\ owner \in [Mutexes -> live \cup {None}] /\ live \subseteq Threads
              /\ running \subseteq Services /\ spawned \subseteq Threads \ {"main"}
              /\ interrupted \in [ready : BOOLEAN, free : BOOLEAN]
            BY <2>1, <3>1 DEF Hung
        <3> QED
            BY <2>1, <3>2, <3>3 DEF Hung, TypeOK
    <2> QED
        BY <2>1
<1>3. ServerInv => TypeOK
    BY <1>1, <1>2 DEF ServerInv
<1> QED
    BY <1>3, ServerInvariant, PTL

\* What the subscribers get is a beginning of the tape, the trades of each order
\* twice over in the order of execution, however many threads submit orders:
\* engine_mutex_ is held from the match to the last report.
THEOREM SubscribersSeeTheTape == Spec => []TapeInOrder
<1>1. Works => TapeInOrder
    <2>1. ASSUME Works PROVE TapeInOrder
        <3>1. delivered \in Seq(Nat) /\ tape \in Seq(Nat) /\ Len(tape) \in Nat
            BY <2>1, TypesOfWorks
        <3>2. PICK n \in Nat : n = Len(delivered) /\ n <= Len(tape)
            BY <2>1, <3>1, DeliveredOfTape
        <3>3. \A k \in 1 .. n : delivered[k] = tape[k]
            BY <2>1, <3>2, DeliveredOfTape
        <3>4. n <= Len(delivered) /\ \A k \in 1 .. n : k \in 1 .. Len(delivered) /\ k \in 1 .. Len(tape)
            BY <3>1, <3>2
        <3>5. /\ SubSeq(delivered, 1, n) = [k \in 1 .. n |-> delivered[k]]
              /\ SubSeq(tape, 1, n) = [k \in 1 .. n |-> tape[k]]
            BY <3>1, <3>2
        <3>6. SubSeq(delivered, 1, n) = SubSeq(tape, 1, n)
            BY <3>3, <3>5
        <3> QED
            BY <3>2, <3>6 DEF TapeInOrder, IsPrefix
    <2> QED
        BY <2>1
<1>2. Hung => TapeInOrder
    <2>1. ASSUME Hung PROVE TapeInOrder
        <3>1. delivered = <<>> /\ tape = <<>>
            BY <2>1 DEF Hung
        <3> QED
            BY <3>1 DEF TapeInOrder, IsPrefix
    <2> QED
        BY <2>1
<1>3. ServerInv => TapeInOrder
    BY <1>1, <1>2 DEF ServerInv
<1> QED
    BY <1>3, ServerInvariant, PTL

\* exit is reached, once the server was up, only after the feed and the health
\* checker are gone, whichever thread the signal came to.
THEOREM ServicesAreJoined == Spec => []ServicesJoined
<1>1. Works => ServicesJoined
    <2>1. ASSUME Works, ended = "exit", interrupted.ready PROVE live \cap Services = {}
        <3>1. closing = <<Do("exit", None)>>
            BY <2>1 DEF Works, SignalInv
        <3>2. Range(closing) = {Do("exit", None)}
            BY <3>1, OneElement
        <3>3. \A x : Do("stop", x) \notin Range(closing) /\ Do("join", x) \notin Range(closing)
            BY <3>2 DEF Do
        <3> QED
            BY <2>1, <3>3 DEF Works, SignalInv
    <2> QED
        BY <2>1 DEF ServicesJoined
<1>2. Hung => ServicesJoined
    BY DEF Hung, ServicesJoined
<1>3. ServerInv => ServicesJoined
    BY <1>1, <1>2 DEF ServerInv
<1> QED
    BY <1>3, ServerInvariant, PTL

\* Who waits for a mutex waits for one that ranks above all he holds.
LEMMA WaitsAbove ==
    ASSUME Works, NEW t \in Threads, NextIs(t, "lock")
    PROVE  Arg(t) \in Mutexes /\ \A m \in Holds(t) : Rank(m) < Rank(Arg(t))
<1>1. todo[t] # <<>> /\ Head(todo[t]).op = "lock"
    BY DEF NextIs
<1>2. PICK s \in Situations, q \in Situations : Stands(t, s) /\ Effect(Head(todo[t]), s, q)
    BY <1>1, NextInstruction
<1>3. s.held = Holds(t)
    BY <1>2 DEF Stands
<1>4. Head(todo[t]).arg \in Mutexes /\ \A m \in s.held : Rank(m) < Rank(Head(todo[t]).arg)
    BY <1>1, <1>2 DEF Effect
<1> QED
    BY <1>3, <1>4 DEF Arg

\* A thread the handler runs on waits, in a service it joins, for another one.
LEMMA HandlerJoinsAnother ==
    ASSUME Works, ClosingIs("join"), interrupted.free
    PROVE  Closing # handler
<1>1. closing \in Closings /\ closing # <<>> /\ Head(closing).op = "join"
    BY DEF ClosingIs, Works, SignalInv
<1>2. Head(closing) \in {Do("join", x) : x \in Services}
    <2>1. \A x : Do("stop", x).op = "stop" /\ Do("exit", x).op = "exit"
        BY DEF Do
    <2> QED
        BY <1>1, <2>1, ClosingMoves
<1>3. Closing \in Services
    <2>1. PICK x \in Services : Head(closing) = Do("join", x)
        BY <1>2
    <2>2. Head(closing).arg = x
        BY <2>1 DEF Do
    <2> QED
        BY <2>2 DEF Closing
<1> QED
    BY <1>3 DEF Works, SignalInv

\* The mutexes rule out a circle: who waits highest is waited for by one who
\* waits higher still.
LEMMA NoCircle ==
    ASSUME Works, handler = None \/ interrupted.free,
           NEW S \in SUBSET live, S # {}, \A t \in S : WaitsFor(t) \in S
    PROVE  FALSE
<1>1. S \subseteq Threads /\ None \notin S
    BY TypesOfWorks
<1>2. ASSUME NEW t \in S, handler = t
      PROVE  ClosingIs("join") /\ Closing \in S /\ interrupted.free
    BY <1>1, <1>2 DEF WaitsFor
<1>3. ASSUME NEW t \in S, handler # t
      PROVE  NextIs(t, "lock") /\ owner[Arg(t)] \in S
    BY <1>1, <1>3 DEF WaitsFor
<1> DEFINE W == S \ {handler}
<1>4. W # {}
    <2>1. ASSUME W = {} PROVE FALSE
        <3>1. handler \in S /\ S = {handler}
            BY <2>1
        <3>2. ClosingIs("join") /\ Closing \in S /\ interrupted.free
            BY <1>2, <3>1
        <3> QED
            BY <3>1, <3>2, HandlerJoinsAnother
    <2> QED
        BY <2>1
<1>5. ASSUME NEW t \in W
      PROVE  /\ owner[Arg(t)] \in W /\ NextIs(owner[Arg(t)], "lock")
             /\ Rank(Arg(t)) < Rank(Arg(owner[Arg(t)]))
    <2>1. NextIs(t, "lock") /\ owner[Arg(t)] \in S
        BY <1>3
    <2>2. PICK u \in S : u = owner[Arg(t)]
        BY <2>1
    <2>3. Arg(t) \in Mutexes
        BY <1>1, <2>1, WaitsAbove
    <2>4. Arg(t) \in Holds(u)
        BY <2>2, <2>3 DEF Holds
    <2>5. u # handler
        <3>1. interrupted.free => Holds(handler) = {}
            BY DEF Works, SignalInv
        <3> QED
            BY <1>1, <2>4, <3>1
    <2>6. NextIs(u, "lock")
        BY <1>3, <2>5
    <2>7. Rank(Arg(t)) < Rank(Arg(u))
        BY <1>1, <2>4, <2>6, WaitsAbove
    <2> QED
        BY <2>2, <2>5, <2>6, <2>7
<1> DEFINE R == {Rank(Arg(t)) : t \in W}
<1>6. R \subseteq 0 .. 4 /\ R # {}
    BY <1>4, RankIsNat
<1> HIDE DEF R
<1>7. R \subseteq Nat /\ 4 \in Nat /\ \A k \in R : k <= 4
    BY <1>6
<1>8. Max(R) \in R /\ \A k \in R : k <= Max(R)
    BY <1>6, <1>7, MaxProperties
<1>9. PICK t \in W : Max(R) = Rank(Arg(t))
    BY <1>8 DEF R
<1>10. Rank(Arg(owner[Arg(t)])) \in R
    BY <1>5 DEF R
<1>11. Max(R) < Rank(Arg(owner[Arg(t)]))
    BY <1>5, <1>9
<1>12. Max(R) \in Nat /\ Rank(Arg(owner[Arg(t)])) \in Nat
    BY <1>7, <1>8, <1>10
<1>13. Rank(Arg(owner[Arg(t)])) <= Max(R)
    BY <1>8, <1>10
<1> QED
    BY <1>11, <1>12, <1>13

\* With a configuration file no threads ever wait for one another, whatever their
\* rounds: all take config, then orders or connections, then engine, then a book,
\* then the subscribers; and a handler on a thread that is free joins no circle.
THEOREM NoThreadsWaitInACircle ==
    ASSUME "missing" \notin ConfigFiles
    PROVE  Spec => []NoDeadlock
<1>1. Works => NoDeadlock
    <2>1. ASSUME Works, handler = None \/ interrupted.free,
                 NEW S \in (SUBSET live) \ {{}}, \A t \in S : WaitsFor(t) \in S
          PROVE  FALSE
        <3>1. S \in SUBSET live /\ S # {}
            BY <2>1
        <3>2. \A t \in S : WaitsFor(t) \in S
            BY <2>1
        <3> QED
            BY <2>1, <3>1, <3>2, NoCircle
    <2> QED
        BY <2>1 DEF NoDeadlock
<1> QED
    BY <1>1, WorksInvariant, PTL
===============================================================================
