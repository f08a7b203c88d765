--------------------------- MODULE EventHub_proofs ---------------------------
(***************************************************************************)
(* Cursor subscriptions have no gap, for any number of writers and clients *)
(* of one session, any limit and any order of publications.                *)
(***************************************************************************)
EXTENDS EventHub

\* The hub serves one session: README, section 6, on hubs that do not.
OneSessionPerHub == \A w \in Writers, c \in Clients : Writes[w] = Watches[c]

\* In what follows L is the log of the session that client c watches, and s its
\* subscription.  A genuine event is as the log has it.
Log(c) == log[Watches[c]]
Genuine(L, c, e) == e.session = Watches[c] /\ e.seq \in 1..Len(L) /\ e.shown = L[e.seq]

Rising(q) == \A i, j \in DOMAIN q : i < j => q[i].seq < q[j].seq
Seqs(q) == {q[i].seq : i \in DOMAIN q}

\* The members of P that follow n without a gap.
Run(P, n) == {q \in P : n..q \subseteq P}

\* Every event of the log behind a, up to b, that the client wants is in S.
Covers(L, a, b, S) == \A n \in 1..Len(L) : a < n /\ n <= b /\ L[n] => n \in S
ShownIn(L, S) == {q \in S : q <= Len(L) /\ L[q]}

-----------------------------------------------------------------------------
(* The invariant of one subscription. *)

\* What the buffers hold is genuine and in order; while the subscription is
\* alive, nextSeq separates what was handed over from what is held back.
BufferInv(L, c, s) ==
    /\ \A i \in DOMAIN s.ch : Genuine(L, c, s.ch[i]) /\ s.ch[i].shown
    /\ \A i \in DOMAIN s.backlog :
         Genuine(L, c, s.backlog[i]) /\ s.backlog[i].shown /\ s.backlog[i].seq <= s.maxReplay
    /\ Rising(s.ch) /\ Rising(s.backlog)
    /\ IsFiniteSet(s.pending)
    /\ \A e \in s.pending : Genuine(L, c, e)
    /\ s.active => /\ \A i \in DOMAIN s.ch : s.ch[i].seq < s.nextSeq
                   /\ \A e \in s.pending : e.seq >= s.nextSeq

\* Replay and channel go on where the deliveries stopped: no shown event is
\* missing up to the end of the replay, and none from there to any event of
\* the channel or, while the subscription is alive, to nextSeq.
StreamInv(L, s) ==
    /\ s.nextSeq <= Len(L) + 1 /\ s.maxReplay <= Len(L) /\ s.deliveredSeq <= Len(L)
    /\ s.after <= s.deliveredSeq
    /\ Covers(L, s.deliveredSeq, s.maxReplay, Seqs(s.backlog))
    /\ \A i \in DOMAIN s.ch :
         Covers(L, s.maxReplay, s.ch[i].seq, Seqs(s.ch) \cup 1..s.deliveredSeq)
    /\ s.active => Covers(L, s.maxReplay, s.nextSeq - 1, Seqs(s.ch) \cup 1..s.deliveredSeq)

SizeInv(s) == Len(s.ch) <= Limit /\ (s.active => Cardinality(s.pending) <= Limit)

\* Nothing held back is due.
WaitingInv(s) == s.active => \A e \in s.pending : e.seq # s.nextSeq

SubInv(L, c, s) ==
    s \in Subscriptions /\ BufferInv(L, c, s) /\ StreamInv(L, s) /\ SizeInv(s) /\ WaitingInv(s)

\* What the client has, with k its acknowledged cursor and S what it ever saw.
GivenInv(L, s, k, S) ==
    /\ s.got = ShownIn(L, (s.after + 1)..s.deliveredSeq)
    /\ s.got \subseteq S
    /\ ShownIn(L, 1..s.after) \subseteq S
    /\ ShownIn(L, 1..k) \subseteq S
    /\ k <= Len(L)

ClientInv(c) ==
    SubInv(Log(c), c, sub[c]) /\ GivenInv(Log(c), sub[c], cursor[c], seen[c])

\* What a writer is about to publish is in the log.
WriterInv ==
    \A w \in Writers : writer[w].at # "idle" =>
        LET e == writer[w].event IN
        e \in Event /\ e.session = Writes[w] /\ e.seq \in 1..Len(log[Writes[w]])
          /\ e.shown = log[Writes[w]][e.seq]

HubInv == TypeOK /\ WriterInv /\ \A c \in Clients : ClientInv(c)

-----------------------------------------------------------------------------
(* Lemmas about the operators. *)

\* A sequence behind another.
LEMMA ConcatProps ==
  ASSUME NEW T, NEW a \in Seq(T), NEW b \in Seq(T)
  PROVE  /\ a \o b \in Seq(T) /\ Len(a \o b) = Len(a) + Len(b)
         /\ \A i \in 1..Len(a) : (a \o b)[i] = a[i]
         /\ \A j \in 1..Len(b) : (a \o b)[Len(a) + j] = b[j]
  OBVIOUS

-----------------------------------------------------------------------------
(* Lemmas about the operators. *)

\* The events of some sequences, in order.
LEMMA ListProps ==
  ASSUME NEW S \in SUBSET Int, IsFiniteSet(S), NEW f \in [S -> Event], \A q \in S : f[q].seq = q
  PROVE  /\ InSequence(f) \in Seq(Event) /\ Rising(InSequence(f)) /\ Seqs(InSequence(f)) = S
         /\ \A i \in DOMAIN InSequence(f) : InSequence(f)[i].seq \in S /\ InSequence(f)[i] = f[InSequence(f)[i].seq]
  <1> DEFINE n == Cardinality(S)
             evs == InSequence(f)
  <1>1. /\ n \in Nat /\ Sorted(S) \in [1..n -> S]
        /\ \A i, j \in 1..n : i < j => Sorted(S)[i] < Sorted(S)[j]
        /\ \A q \in S : \E k \in 1..n : Sorted(S)[k] = q
    BY SortedProps
  <1>2. evs = [i \in 1..n |-> f[Sorted(S)[i]]]
    BY DEF InSequence
  <1> HIDE DEF n, evs
  <1>3. \A i \in 1..n : Sorted(S)[i] \in S /\ evs[i] = f[Sorted(S)[i]] /\ evs[i].seq = Sorted(S)[i] /\ evs[i] \in Event
    BY <1>1, <1>2
  <1>4. DOMAIN evs = 1..n
    BY <1>2
  <1>5. evs \in Seq(Event)
    <2>1. evs \in [1..n -> Event]
      BY <1>2, <1>3
    <2> QED BY ONLY <1>1, <2>1
  <1>6. Rising(evs)
    BY ONLY <1>1, <1>3, <1>4 DEF Rising
  <1>7. Seqs(evs) = S
    <2>1. \A i \in DOMAIN evs : evs[i].seq \in S
      BY ONLY <1>3, <1>4
    <2>2. \A q \in S : \E i \in DOMAIN evs : evs[i].seq = q
      BY ONLY <1>1, <1>3, <1>4
    <2> QED BY ONLY <2>1, <2>2 DEF Seqs
  <1> QED BY <1>3, <1>4, <1>5, <1>6, <1>7 DEF evs

\* The members of P that follow n without a gap are an interval, and it ends
\* where P has its first gap.
LEMMA RunProps ==
  ASSUME NEW P \in SUBSET Int, IsFiniteSet(P), NEW n \in Int, \A q \in P : q >= n
  PROVE  /\ Cardinality(Run(P, n)) \in Nat /\ Run(P, n) = n..(n + Cardinality(Run(P, n)) - 1)
         /\ n + Cardinality(Run(P, n)) \notin P
         /\ Run(P, n) \subseteq P
  <1> DEFINE R == Run(P, n)
  <1>0. R = {q \in P : n..q \subseteq P}
    BY DEF Run
  <1> HIDE DEF R
  <1>1. R \subseteq P /\ R \in SUBSET Int
    BY <1>0
  <1>2. IsFiniteSet(R) /\ Cardinality(R) \in Nat
    BY <1>1, FS_Subset, FS_CardinalityType
  <1>3. CASE R = {}
    <2>1. Cardinality(R) = 0
      BY <1>3, FS_EmptySet
    <2>2. n \notin P
      <3>1. n..n = {n}
        OBVIOUS
      <3> QED BY <1>0, <1>3, <3>1
    <2>3. n..(n + 0 - 1) = {} /\ n + 0 = n
      OBVIOUS
    <2> QED BY ONLY <1>1, <1>3, <2>1, <2>2, <2>3 DEF R
  <1>4. CASE R # {}
    <2>1. PICK m \in R : \A q \in R : q <= m
      BY <1>1, <1>2, <1>4, Greatest
    <2>2. m \in Int /\ m >= n /\ n..m \subseteq P
      BY <1>0, <1>1, <2>1
    <2>3. R = n..m
      <3>1. ASSUME NEW q \in n..m PROVE q \in R
        <4>1. n..q \subseteq n..m
          BY <2>2
        <4>2. q \in P /\ n..q \subseteq P
          BY <2>2, <4>1
        <4> QED BY <1>0, <4>2
      <3>2. ASSUME NEW q \in R PROVE q \in n..m
        <4>1. q \in Int /\ q >= n /\ q <= m
          BY <1>1, <2>1
        <4> QED BY <2>2, <4>1
      <3> QED BY <3>1, <3>2
    <2>4. Cardinality(R) = m - n + 1
      <3>1. Cardinality(n..m) = IF n > m THEN 0 ELSE m - n + 1
        BY <2>2, FS_Interval
      <3> QED BY ONLY <2>2, <2>3, <3>1, n \in Int
    <2>5. m + 1 \notin P
      <3> SUFFICES ASSUME m + 1 \in P PROVE FALSE
        OBVIOUS
      <3>1. \A q \in n..(m + 1) : q \in n..m \/ q = m + 1
        BY <2>2
      <3>2. n..(m + 1) \subseteq P
        BY <2>2, <3>1
      <3>3. m + 1 \in R
        BY <1>0, <3>2
      <3>4. m + 1 <= m
        BY <2>1, <3>3
      <3> QED BY <2>2, <3>4
    <2>6. n + Cardinality(R) - 1 = m /\ n + Cardinality(R) = m + 1
      BY <2>2, <2>4
    <2> QED BY <1>1, <1>2, <2>3, <2>5, <2>6 DEF R
  <1> QED BY <1>3, <1>4

\* A genuine event is determined by its sequence.
LEMMA GenuineProps ==
  ASSUME NEW L, NEW c, NEW e \in Event, NEW d \in Event, Genuine(L, c, e), Genuine(L, c, d), e.seq = d.seq
  PROVE  e = d
  BY DEF Event, Genuine

\* flushPendingLocked: what is handed over goes on without a gap, or the
\* subscription ends with a beginning of it.
LEMMA FlushProps ==
  ASSUME EventHubAssumption, NEW L, Len(L) \in Nat, Len(L) <= MaxSeq, NEW c \in Clients, NEW s \in Subscriptions,
         s.active, BufferInv(L, c, s), StreamInv(L, s), SizeInv(s), NEW t, t = FlushPending(c, s)
  PROVE  /\ t \in Subscriptions
         /\ BufferInv(L, c, t) /\ StreamInv(L, t) /\ SizeInv(t) /\ WaitingInv(t)
         /\ t.got = s.got /\ t.after = s.after /\ t.deliveredSeq = s.deliveredSeq
  <1> DEFINE P == {e.seq : e \in s.pending}
             R == {q \in P : s.nextSeq..q \subseteq P}
             D == {e.seq : e \in {p \in s.pending : p.seq \in R /\ Filter(c, p)}}
             f == [q \in D |-> CHOOSE e \in s.pending : e.seq = q]
             due == InSequence(f)
             room == Limit - Len(s.ch)
             end == s.nextSeq + Cardinality(R)
  <1>1. /\ s.nextSeq \in 1..(MaxSeq + 1) /\ s.pending \in SUBSET Event /\ s.ch \in Seq(Event) /\ MaxSeq \in Nat
        /\ s.maxReplay \in Int /\ s.deliveredSeq \in Int /\ s.nextSeq \in Int
    BY DEF Subscriptions, EventHubAssumption
  <1>2. P \in SUBSET Int /\ IsFiniteSet(P) /\ \A q \in P : q >= s.nextSeq
    <2>1. \A e \in s.pending : e.seq \in Int /\ e.seq >= s.nextSeq
      BY <1>1 DEF Event, BufferInv
    <2>2. IsFiniteSet(s.pending)
      BY DEF BufferInv
    <2>3. IsFiniteSet(P)
      <3> DEFINE h == [e \in s.pending |-> e.seq]
      <3>1. h \in Surjection(s.pending, P)
        BY DEF Surjection
      <3> HIDE DEF h, P
      <3> QED BY <2>2, <3>1, FS_Surjection
    <2> QED BY <2>1, <2>3
  <1>3. /\ Cardinality(R) \in Nat /\ R = s.nextSeq..(s.nextSeq + Cardinality(R) - 1)
        /\ s.nextSeq + Cardinality(R) \notin P /\ R \subseteq P
    <2> DEFINE n == s.nextSeq
    <2>2. n \in Int /\ \A q \in P : q >= n
      BY <1>1, <1>2
    <2>3. R = Run(P, n)
      BY DEF Run
    <2> HIDE DEF P, R, n
    <2>4. /\ Cardinality(Run(P, n)) \in Nat /\ Run(P, n) = n..(n + Cardinality(Run(P, n)) - 1)
          /\ n + Cardinality(Run(P, n)) \notin P /\ Run(P, n) \subseteq P
      BY <1>2, <2>2, RunProps
    <2> QED BY <2>3, <2>4 DEF n
  <1>4. D \subseteq R /\ D \in SUBSET Int /\ IsFiniteSet(D)
    <2>1. D \subseteq R
      OBVIOUS
    <2> HIDE DEF D, R, P
    <2>2. D \subseteq P
      BY <1>3, <2>1
    <2> QED BY <1>2, <2>1, <2>2, FS_Subset
  <1>5. ASSUME NEW q \in D PROVE /\ f[q] \in s.pending /\ f[q] \in Event /\ f[q].seq = q /\ f[q].shown
                                 /\ Genuine(L, c, f[q])
    <2>1. PICK p \in s.pending : p.seq = q /\ Filter(c, p)
      OBVIOUS
    <2>2. f[q] = CHOOSE e \in s.pending : e.seq = q
      OBVIOUS
    <2>3. f[q] \in s.pending /\ f[q].seq = q
      BY <2>1, <2>2
    <2>4. Genuine(L, c, f[q]) /\ Genuine(L, c, p) /\ f[q] \in Event /\ p \in Event
      BY <1>1, <2>1, <2>3 DEF BufferInv
    <2>5. f[q] = p
      BY <2>1, <2>3, <2>4, GenuineProps
    <2> QED BY <2>1, <2>3, <2>4, <2>5 DEF Filter
  <1>6. /\ due \in Seq(Event) /\ Rising(due) /\ Seqs(due) = D
        /\ \A i \in DOMAIN due : due[i].seq \in D /\ due[i] = f[due[i].seq]
    <2>1. f \in [D -> Event] /\ \A q \in D : f[q].seq = q
      BY <1>5
    <2> HIDE DEF D, f
    <2>2. /\ InSequence(f) \in Seq(Event) /\ Rising(InSequence(f)) /\ Seqs(InSequence(f)) = D
          /\ \A i \in DOMAIN InSequence(f) :
               InSequence(f)[i].seq \in D /\ InSequence(f)[i] = f[InSequence(f)[i].seq]
      BY <1>4, <2>1, ListProps
    <2> QED BY <2>2
  \* What is shown of the run is due.
  <1>7. \A n \in 1..Len(L) : n \in R /\ L[n] => n \in D
    <2> SUFFICES ASSUME NEW n \in 1..Len(L), n \in R, L[n] PROVE n \in D
      OBVIOUS
    <2>1. PICK e \in s.pending : e.seq = n
      BY <1>3
    <2>2. Genuine(L, c, e)
      BY DEF BufferInv
    <2>3. Filter(c, e)
      BY <2>1, <2>2 DEF Filter, Genuine
    <2> QED BY <2>1, <2>3
  <1>8. t = IF Len(due) <= room
              THEN [s EXCEPT !.ch = @ \o due, !.nextSeq = @ + Cardinality(R),
                             !.pending = {e \in @ : e.seq \notin R}]
              ELSE Terminate([s EXCEPT !.ch = @ \o SubSeq(due, 1, room)], TRUE)
    BY Zenon DEF FlushPending
  <1> HIDE DEF P, R, D, f, due
  <1>a. Len(s.ch) \in Nat /\ Len(s.ch) <= Limit /\ Limit \in Nat /\ Len(due) \in Nat /\ room \in Nat
    BY <1>1, <1>6 DEF SizeInv, EventHubAssumption
  <1>b. \A i \in DOMAIN due : due[i].seq \in R /\ Genuine(L, c, due[i]) /\ due[i].shown /\ due[i].seq \in Int
    <2>1. \A i \in DOMAIN due : due[i].seq \in D /\ due[i] = f[due[i].seq]
      BY <1>6
    <2>2. \A q \in D : q \in R /\ q \in Int /\ Genuine(L, c, f[q]) /\ f[q].shown
      BY <1>4, <1>5
    <2> QED BY <2>1, <2>2
  \* A beginning of what is due, behind what the channel has.
  <1>c. ASSUME NEW k \in 0..Len(due), NEW ch, ch = s.ch \o SubSeq(due, 1, k)
        PROVE  /\ ch \in Seq(Event) /\ Len(ch) = Len(s.ch) + k
               /\ \A i \in DOMAIN ch : Genuine(L, c, ch[i]) /\ ch[i].shown /\ ch[i].seq < end
               /\ Rising(ch)
               /\ \A i \in DOMAIN ch : Covers(L, s.maxReplay, ch[i].seq, Seqs(ch) \cup 1..s.deliveredSeq)
               /\ k = Len(due) => Covers(L, s.maxReplay, end - 1, Seqs(ch) \cup 1..s.deliveredSeq)
    <2> DEFINE d == SubSeq(due, 1, k)
               m == Len(s.ch)
    <2>1. d \in Seq(Event) /\ Len(d) = k /\ \A j \in 1..k : j \in DOMAIN due /\ d[j] = due[j]
      BY ONLY <1>6, <1>a, k \in 0..Len(due)
    <2>a. ch = s.ch \o d /\ k \in Nat /\ m \in Nat
      BY <1>a, <1>c
    <2> HIDE DEF d
    <2>b. /\ ch \in Seq(Event) /\ Len(ch) = Len(s.ch) + Len(d)
          /\ \A i \in 1..Len(s.ch) : ch[i] = s.ch[i]
          /\ \A j \in 1..Len(d) : ch[Len(s.ch) + j] = d[j]
      <3> DEFINE a == s.ch
      <3>1. a \in Seq(Event) /\ ch = a \o d
        BY <1>1, <2>a
      <3> HIDE DEF a
      <3>2. /\ a \o d \in Seq(Event) /\ Len(a \o d) = Len(a) + Len(d)
            /\ \A i \in 1..Len(a) : (a \o d)[i] = a[i]
            /\ \A j \in 1..Len(d) : (a \o d)[Len(a) + j] = d[j]
        <4>1. d \in Seq(Event)
          BY <2>1
        <4> QED BY ONLY <3>1, <4>1, ConcatProps
      <3> QED BY <3>1, <3>2 DEF a
    <2>2. ch \in Seq(Event) /\ Len(ch) = m + k /\ DOMAIN ch = 1..(m + k) /\ DOMAIN s.ch = 1..m
      BY <1>1, <2>1, <2>b
    <2>3. \A i \in 1..m : ch[i] = s.ch[i]
      BY <2>b
    <2>4. \A j \in 1..k : ch[m + j] = due[j] /\ m + j \in 1..(m + k)
      <3>1. \A j \in 1..k : ch[m + j] = due[j]
        BY <2>1, <2>b
      <3>2. \A j \in 1..k : m + j \in 1..(m + k)
        BY ONLY <2>a
      <3> QED BY <3>1, <3>2
    <2> HIDE DEF m
    <2>5. \A i \in 1..(m + k) : i \in 1..m \/ \E j \in 1..k : i = m + j
      <3>1. \A i \in 1..(m + k) : i \in 1..m \/ (i - m \in 1..k /\ i = m + (i - m))
        BY ONLY <2>a
      <3> QED BY ONLY <3>1
    <2>6. \A i \in 1..m : /\ Genuine(L, c, s.ch[i]) /\ s.ch[i].shown /\ s.ch[i].seq < s.nextSeq /\ s.ch[i].seq \in Int
                          /\ Covers(L, s.maxReplay, s.ch[i].seq, Seqs(s.ch) \cup 1..s.deliveredSeq)
      <3>1. \A i \in 1..m : s.ch[i] \in Event
        BY <1>1 DEF m
      <3>2. \A i \in 1..m : Genuine(L, c, s.ch[i]) /\ s.ch[i].shown /\ s.ch[i].seq < s.nextSeq
        BY <2>2 DEF BufferInv
      <3>3. \A i \in 1..m : Covers(L, s.maxReplay, s.ch[i].seq, Seqs(s.ch) \cup 1..s.deliveredSeq)
        BY <2>2 DEF StreamInv
      <3>4. \A i \in 1..m : s.ch[i].seq \in Int
        BY <1>1, <3>1 DEF Event
      <3> QED BY ONLY <3>2, <3>3, <3>4
    <2>7. \A j \in 1..k : /\ Genuine(L, c, due[j]) /\ due[j].shown /\ due[j].seq \in Int
                          /\ s.nextSeq <= due[j].seq /\ due[j].seq < end
      <3>1. \A q \in R : q \in Int /\ s.nextSeq <= q /\ q < end
        BY <1>1, <1>3
      <3> QED BY <1>b, <2>1, <3>1
    <2>8. \A i \in DOMAIN ch : Genuine(L, c, ch[i]) /\ ch[i].shown /\ ch[i].seq < end
      <3>1. s.nextSeq <= end /\ end \in Int
        BY <1>1, <1>3
      <3> HIDE DEF end
      <3>2. ASSUME NEW i \in 1..m PROVE ch[i].seq < end
        <4>1. ch[i].seq \in Int /\ ch[i].seq < s.nextSeq
          BY <2>3, <2>6
        <4> QED BY ONLY <1>1, <3>1, <4>1
      <3>3. ASSUME NEW i \in 1..m PROVE Genuine(L, c, ch[i]) /\ ch[i].shown
        BY ONLY <2>3, <2>6, i \in 1..m
      <3>4. ASSUME NEW j \in 1..k PROVE Genuine(L, c, ch[m + j]) /\ ch[m + j].shown /\ ch[m + j].seq < end
        BY <2>4, <2>7
      <3> QED BY ONLY <2>2, <2>5, <3>2, <3>3, <3>4
    <2>9. Rising(ch)
      <3> SUFFICES ASSUME NEW i \in 1..(m + k), NEW j \in 1..(m + k), i < j PROVE ch[i].seq < ch[j].seq
        BY <2>2 DEF Rising
      <3>1. CASE i \in 1..m /\ j \in 1..m
        <4>1. s.ch[i].seq < s.ch[j].seq
          BY <2>2, <3>1 DEF BufferInv, Rising
        <4> QED BY <2>3, <3>1, <4>1
      <3>2. ASSUME i \in 1..m, NEW b \in 1..k, j = m + b PROVE ch[i].seq < ch[j].seq
        <4>1. ch[i].seq < s.nextSeq /\ s.nextSeq <= ch[j].seq /\ ch[i].seq \in Int /\ ch[j].seq \in Int
          BY <2>3, <2>4, <2>6, <2>7, <3>2
        <4> QED BY ONLY <1>1, <4>1
      <3>3. ASSUME NEW a \in 1..k, NEW b \in 1..k, i = m + a, j = m + b PROVE ch[i].seq < ch[j].seq
        <4>1. a < b
          <5>1. m + a < m + b /\ a \in Int /\ b \in Int
            BY <2>a, <3>3
          <5> QED BY ONLY <2>a, <5>1
        <4>2. due[a].seq < due[b].seq
          BY <1>6, <2>1, <4>1 DEF Rising
        <4> QED BY <2>4, <3>3, <4>2
      <3>4. ASSUME NEW a \in 1..k, i = m + a, j \in 1..m PROVE FALSE
        <4>1. a \in Int /\ a > 0 /\ j \in Int /\ j <= m
          BY ONLY <2>a, <3>4
        <4>2. i < j
          OBVIOUS
        <4> QED BY ONLY <2>a, <3>4, <4>1, <4>2
      <3> QED BY <2>5, <3>1, <3>2, <3>3, <3>4
    <2>10. Seqs(s.ch) \subseteq Seqs(ch) /\ \A j \in 1..k : due[j].seq \in Seqs(ch)
      <3>1. \A i \in 1..m : i \in DOMAIN ch /\ ch[i].seq = s.ch[i].seq
        <4>1. \A i \in 1..m : i \in 1..(m + k)
          BY ONLY <2>a
        <4> QED BY <2>2, <2>3, <4>1, Zenon
      <3>2. \A j \in 1..k : m + j \in DOMAIN ch /\ ch[m + j].seq = due[j].seq
        BY <2>2, <2>4
      <3> QED BY <2>2, <3>1, <3>2 DEF Seqs
    <2>11. Covers(L, s.maxReplay, s.nextSeq - 1, Seqs(ch) \cup 1..s.deliveredSeq)
      BY <2>10 DEF StreamInv, Covers
    \* A shown event of the run is in the channel when what is due behind it is.
    <2>12. ASSUME NEW n \in 1..Len(L), s.maxReplay < n, L[n], NEW b \in Int, n <= b, b < end,
                  \A j \in DOMAIN due : due[j].seq <= b => j <= k
           PROVE  n \in Seqs(ch) \cup 1..s.deliveredSeq
      <3>1. CASE n <= s.nextSeq - 1
        BY <2>11, <2>12, <3>1 DEF Covers
      <3>2. CASE n >= s.nextSeq
        <4>1. n \in R
          BY <1>1, <1>3, <2>12, <3>2
        <4>2. n \in Seqs(due)
          BY <1>6, <1>7, <2>12, <4>1
        <4>3. PICK j \in DOMAIN due : due[j].seq = n
          BY <4>2 DEF Seqs
        <4>4. j \in 1..k
          <5>1. j <= k
            BY <2>12, <4>3
          <5>2. j \in 1..Len(due)
            BY <1>6, <4>3
          <5> QED BY <1>a, <5>1, <5>2
        <4> QED BY <2>10, <4>3, <4>4
      <3> QED BY <1>1, <3>1, <3>2
    <2>13. ASSUME NEW i \in DOMAIN ch PROVE Covers(L, s.maxReplay, ch[i].seq, Seqs(ch) \cup 1..s.deliveredSeq)
      <3>1. CASE i \in 1..m
        BY <2>3, <2>6, <2>10, <3>1 DEF Covers
      <3>2. ASSUME NEW a \in 1..k, i = m + a
            PROVE  Covers(L, s.maxReplay, ch[i].seq, Seqs(ch) \cup 1..s.deliveredSeq)
        <4>1. ch[i].seq = due[a].seq /\ ch[i].seq \in Int /\ ch[i].seq < end
          BY <2>4, <2>7, <3>2
        <4>2. ASSUME NEW j \in DOMAIN due, due[j].seq <= ch[i].seq PROVE j <= k
          <5>1. j \in Int /\ a \in Int /\ k \in Int /\ a <= k /\ a \in DOMAIN due /\ due[j].seq \in Int
            BY <1>6, <1>a, <1>b, <2>1
          <5>2. CASE a < j
            <6>1. due[a].seq < due[j].seq
              BY <1>6, <5>1, <5>2 DEF Rising
            <6> QED BY <4>1, <4>2, <5>1, <6>1
          <5> QED BY <5>1, <5>2
        <4> QED BY <2>12, <4>1, <4>2 DEF Covers
      <3> QED BY <2>2, <2>5, <3>1, <3>2
    <2>14. k = Len(due) => Covers(L, s.maxReplay, end - 1, Seqs(ch) \cup 1..s.deliveredSeq)
      <3> SUFFICES ASSUME k = Len(due) PROVE Covers(L, s.maxReplay, end - 1, Seqs(ch) \cup 1..s.deliveredSeq)
        OBVIOUS
      <3>1. \A j \in DOMAIN due : j <= k
        BY <1>6
      <3>2. end - 1 \in Int /\ end - 1 < end
        BY <1>1, <1>3
      <3> QED BY <2>12, <3>1, <3>2 DEF Covers
    <2> QED BY <2>2, <2>8, <2>9, <2>13, <2>14 DEF m
  <1>d. /\ s.nextSeq <= end /\ end <= Len(L) + 1 /\ end \in 1..(MaxSeq + 1)
        /\ \A n \in Int : n >= s.nextSeq /\ n \notin R => n >= end
    <2>1. end \in Int /\ s.nextSeq <= end
      BY <1>1, <1>3
    <2>2. end <= Len(L) + 1
      <3>1. CASE Cardinality(R) = 0
        BY <1>1, <3>1 DEF StreamInv
      <3>2. CASE Cardinality(R) > 0
        <4>1. end - 1 \in R
          BY <1>1, <1>3, <3>2
        <4>2. PICK e \in s.pending : e.seq = end - 1
          BY <1>3, <4>1 DEF P
        <4>3. e.seq <= Len(L)
          BY DEF BufferInv, Genuine
        <4> QED BY <2>1, <4>2, <4>3
      <3> QED BY <1>3, <3>1, <3>2
    <2>3. \A n \in Int : n >= s.nextSeq /\ n \notin R => n >= end
      BY <1>1, <1>3
    <2> QED BY <1>1, <2>1, <2>2, <2>3
  <1> HIDE DEF room, end
  <1>9. CASE Len(due) <= room
    <2> DEFINE ch == s.ch \o due
               rest == {e \in s.pending : e.seq \notin R}
    <2>1. t = [s EXCEPT !.ch = ch, !.nextSeq = end, !.pending = rest]
      BY <1>8, <1>9, Zenon DEF end
    <2>2. SubSeq(due, 1, Len(due)) = due
      BY <1>6, <1>a
    <2>3. /\ ch \in Seq(Event) /\ Len(ch) = Len(s.ch) + Len(due)
          /\ \A i \in DOMAIN ch : Genuine(L, c, ch[i]) /\ ch[i].shown /\ ch[i].seq < end
          /\ Rising(ch)
          /\ \A i \in DOMAIN ch : Covers(L, s.maxReplay, ch[i].seq, Seqs(ch) \cup 1..s.deliveredSeq)
          /\ Covers(L, s.maxReplay, end - 1, Seqs(ch) \cup 1..s.deliveredSeq)
      <3>1. Len(due) \in 0..Len(due) /\ ch = s.ch \o SubSeq(due, 1, Len(due))
        <4>1. Len(due) \in 0..Len(due)
          BY ONLY <1>a
        <4> QED BY <2>2, <4>1, Zenon
      <3> HIDE DEF ch
      <3>2. Len(due) = Len(due) => Covers(L, s.maxReplay, end - 1, Seqs(ch) \cup 1..s.deliveredSeq)
        BY ONLY <1>c, <3>1, Zenon
      <3> QED BY ONLY <1>c, <3>1, <3>2, Zenon
    <2>4. rest \in SUBSET s.pending /\ IsFiniteSet(rest) /\ Cardinality(rest) <= Limit
      <3>1. rest \in SUBSET s.pending /\ IsFiniteSet(s.pending) /\ Cardinality(s.pending) <= Limit
        BY DEF BufferInv, SizeInv
      <3> HIDE DEF rest
      <3>2. IsFiniteSet(rest) /\ Cardinality(rest) <= Cardinality(s.pending)
        BY <3>1, FS_Subset
      <3>3. Cardinality(rest) \in Nat /\ Cardinality(s.pending) \in Nat
        BY <3>1, <3>2, FS_CardinalityType
      <3> QED BY <1>a, <3>1, <3>2, <3>3
    <2>5. \A e \in rest : Genuine(L, c, e) /\ e.seq >= end /\ e.seq # end
      <3> SUFFICES ASSUME NEW e \in rest PROVE Genuine(L, c, e) /\ e.seq >= end /\ e.seq # end
        OBVIOUS
      <3>1. e \in s.pending /\ e.seq \notin R /\ e \in Event /\ e.seq \in P
        BY <1>1 DEF P
      <3>2. Genuine(L, c, e) /\ e.seq \in Int /\ e.seq >= s.nextSeq
        BY <3>1 DEF BufferInv, Event
      <3>3. end \notin P
        BY <1>3 DEF end
      <3> QED BY <1>d, <3>1, <3>2, <3>3
    <2> HIDE DEF ch, rest
    <2>6. /\ t \in Subscriptions /\ t.ch = ch /\ t.nextSeq = end /\ t.pending = rest /\ t.backlog = s.backlog
          /\ t.maxReplay = s.maxReplay /\ t.deliveredSeq = s.deliveredSeq /\ t.after = s.after /\ t.got = s.got
      <3>1. rest \in SUBSET Event
        BY <1>1, <2>4
      <3> QED BY <1>d, <2>1, <2>3, <3>1 DEF Subscriptions
    <2>7. BufferInv(L, c, t)
      BY <2>3, <2>4, <2>5, <2>6 DEF BufferInv
    <2>8. StreamInv(L, t)
      BY <1>d, <2>3, <2>6 DEF StreamInv
    <2>9. SizeInv(t)
      <3>1. Len(ch) <= Limit
        BY <1>9, <1>a, <2>3 DEF room
      <3> QED BY <2>4, <2>6, <3>1 DEF SizeInv
    <2>10. WaitingInv(t)
      BY <2>5, <2>6 DEF WaitingInv
    <2> QED BY <2>6, <2>7, <2>8, <2>9, <2>10
  <1>10. CASE Len(due) > room
    <2> DEFINE ch == s.ch \o SubSeq(due, 1, room)
    <2>1. t = [s EXCEPT !.ch = ch, !.active = FALSE, !.lagged = TRUE]
      <3>1. ~(Len(due) <= room)
        BY <1>10, <1>a
      <3>2. t = Terminate([s EXCEPT !.ch = ch], TRUE)
        BY <1>8, <3>1, Zenon
      <3> HIDE DEF ch
      <3>3. [s EXCEPT !.ch = ch].active
        BY DEF Subscriptions
      <3> QED BY <3>2, <3>3 DEF Terminate, Subscriptions
    <2>2. /\ ch \in Seq(Event) /\ Len(ch) = Len(s.ch) + room
          /\ \A i \in DOMAIN ch : Genuine(L, c, ch[i]) /\ ch[i].shown
          /\ Rising(ch)
          /\ \A i \in DOMAIN ch : Covers(L, s.maxReplay, ch[i].seq, Seqs(ch) \cup 1..s.deliveredSeq)
      <3>1. room \in 0..Len(due) /\ ch = s.ch \o SubSeq(due, 1, room)
        BY <1>10, <1>a
      <3> HIDE DEF ch
      <3> QED BY <1>c, <3>1
    <2> HIDE DEF ch
    <2>3. /\ t \in Subscriptions /\ t.ch = ch /\ ~t.active /\ t.pending = s.pending /\ t.nextSeq = s.nextSeq
          /\ t.backlog = s.backlog /\ t.maxReplay = s.maxReplay /\ t.deliveredSeq = s.deliveredSeq
          /\ t.after = s.after /\ t.got = s.got
      BY <2>1, <2>2 DEF Subscriptions
    <2>4. BufferInv(L, c, t)
      BY <2>2, <2>3 DEF BufferInv
    <2>5. StreamInv(L, t)
      BY <2>2, <2>3 DEF StreamInv
    <2>6. SizeInv(t)
      <3>1. Len(ch) <= Limit
        BY <1>a, <2>2 DEF room
      <3> QED BY <2>3, <3>1 DEF SizeInv
    <2> QED BY <2>3, <2>4, <2>5, <2>6 DEF WaitingInv
  <1> QED BY <1>a, <1>9, <1>10


\* What the client was given is as before.
SameGiven(s, t) == t.got = s.got /\ t.after = s.after /\ t.deliveredSeq = s.deliveredSeq

\* terminateLocked keeps what can still be read.
LEMMA TerminateProps ==
  ASSUME NEW L, NEW c, NEW s \in Subscriptions, BufferInv(L, c, s), StreamInv(L, s), Len(s.ch) <= Limit,
         NEW l \in BOOLEAN
  PROVE  SubInv(L, c, Terminate(s, l)) \/ s.active = FALSE
  <1> DEFINE t == Terminate(s, l)
  <1>1. SUFFICES ASSUME s.active PROVE SubInv(L, c, t)
    BY DEF Subscriptions
  <1>2. t = [s EXCEPT !.active = FALSE, !.lagged = l]
    BY <1>1 DEF Terminate
  <1>3. /\ t \in Subscriptions /\ ~t.active /\ t.ch = s.ch /\ t.pending = s.pending /\ t.backlog = s.backlog
        /\ t.maxReplay = s.maxReplay /\ t.deliveredSeq = s.deliveredSeq /\ t.after = s.after
        /\ t.nextSeq = s.nextSeq
    BY <1>2 DEF Subscriptions
  <1> HIDE DEF t
  <1>4. BufferInv(L, c, t)
    BY <1>3 DEF BufferInv
  <1>5. StreamInv(L, t)
    BY <1>3 DEF StreamInv
  <1> QED BY <1>3, <1>4, <1>5 DEF SubInv, SizeInv, WaitingInv

\* Publish, for one subscription: an event of the log keeps the invariant,
\* whether it is old, early, filtered, due or too much.
LEMMA OfferProps ==
  ASSUME EventHubAssumption, NEW L, Len(L) \in Nat, Len(L) <= MaxSeq, NEW c \in Clients,
         NEW s \in Subscriptions, SubInv(L, c, s),
         NEW e \in Event, Genuine(L, c, e)
  PROVE  SubInv(L, c, Offer(c, s, e)) /\ SameGiven(s, Offer(c, s, e))
  <1> DEFINE t == Offer(c, s, e)
  <1>1. /\ s.nextSeq \in 1..(MaxSeq + 1) /\ s.pending \in SUBSET Event /\ s.ch \in Seq(Event) /\ MaxSeq \in Nat
        /\ s.maxReplay \in Int /\ s.deliveredSeq \in Int /\ s.nextSeq \in Int /\ s.active \in BOOLEAN
        /\ e.seq \in Int /\ e.seq >= 1 /\ e.seq <= Len(L) /\ Limit \in Nat
    BY DEF Subscriptions, EventHubAssumption, Event, Genuine
  <1>2. BufferInv(L, c, s) /\ StreamInv(L, s) /\ SizeInv(s) /\ WaitingInv(s)
    BY DEF SubInv
  <1>3. CASE ~s.active \/ e.seq < s.nextSeq
    <2>1. t = s
      BY <1>3 DEF Offer
    <2> QED BY <2>1 DEF SameGiven
  <1>4. CASE s.active /\ e.seq > s.nextSeq
    <2> DEFINE held == {p \in s.pending : p.seq # e.seq} \cup {e}
               u == [s EXCEPT !.pending = held]
    <2>1. t = IF Cardinality(u.pending) > Limit THEN Terminate(u, TRUE) ELSE u
      <3>1. ~(~s.active \/ e.seq < s.nextSeq) /\ e.seq > s.nextSeq
        BY <1>1, <1>4
      <3> QED BY <3>1, Zenon DEF Offer
    <2>2. held \in SUBSET Event /\ \A p \in held : p \in s.pending \/ p = e
      BY <1>1
    <2>3. IsFiniteSet(held)
      <3> DEFINE old == {p \in s.pending : p.seq # e.seq}
      <3>1. IsFiniteSet(s.pending) /\ old \in SUBSET s.pending
        BY <1>2 DEF BufferInv
      <3> HIDE DEF old
      <3>2. IsFiniteSet(old)
        BY <3>1, FS_Subset
      <3>3. IsFiniteSet(old \cup {e})
        BY <3>2, FS_AddElement
      <3> QED BY <3>3 DEF old
    <2> HIDE DEF held
    <2>4. /\ u \in Subscriptions /\ u.pending = held /\ u.ch = s.ch /\ u.backlog = s.backlog
          /\ u.maxReplay = s.maxReplay /\ u.deliveredSeq = s.deliveredSeq /\ u.after = s.after
          /\ u.got = s.got /\ u.nextSeq = s.nextSeq /\ u.active = s.active
      BY <2>2 DEF Subscriptions
    <2> HIDE DEF u
    <2>5. \A p \in held : Genuine(L, c, p) /\ p.seq >= s.nextSeq /\ p.seq # s.nextSeq
      <3>1. \A p \in s.pending : Genuine(L, c, p) /\ p.seq >= s.nextSeq /\ p.seq # s.nextSeq
        BY <1>2, <1>4 DEF BufferInv, WaitingInv
      <3>2. e.seq >= s.nextSeq /\ e.seq # s.nextSeq
        BY <1>1, <1>4
      <3> QED BY <2>2, <3>1, <3>2
    <2>6. BufferInv(L, c, u)
      BY <1>2, <2>3, <2>4, <2>5 DEF BufferInv
    <2>7. StreamInv(L, u)
      BY <1>2, <2>4 DEF StreamInv
    <2>8. Len(u.ch) <= Limit /\ Cardinality(held) \in Nat
      BY <1>2, <2>3, <2>4, FS_CardinalityType DEF SizeInv
    <2>9. CASE Cardinality(held) > Limit
      <3>1. t = Terminate(u, TRUE)
        BY <2>1, <2>4, <2>9
      <3>2. SubInv(L, c, Terminate(u, TRUE))
        BY <1>4, <2>4, <2>6, <2>7, <2>8, TerminateProps
      <3>3. SameGiven(s, t)
        BY <2>4, <3>1 DEF SameGiven, Terminate, Subscriptions
      <3> QED BY <3>1, <3>2, <3>3
    <2>10. CASE ~(Cardinality(held) > Limit)
      <3>1. t = u
        BY <2>1, <2>4, <2>10
      <3>2. SizeInv(u) /\ WaitingInv(u)
        BY <1>1, <2>4, <2>5, <2>8, <2>10 DEF SizeInv, WaitingInv
      <3>3. SubInv(L, c, u) /\ SameGiven(s, u)
        BY <2>4, <2>6, <2>7, <3>2 DEF SubInv, SameGiven
      <3> QED BY <3>1, <3>3
    <2> QED BY <2>9, <2>10
  <1>5. CASE s.active /\ e.seq = s.nextSeq /\ ~Filter(c, e)
    <2> DEFINE u == [s EXCEPT !.nextSeq = @ + 1]
    <2>1. t = FlushPending(c, u)
      <3>1. ~(~s.active \/ e.seq < s.nextSeq) /\ ~(e.seq > s.nextSeq)
        BY <1>1, <1>5
      <3> QED BY <1>5, <3>1, Zenon DEF Offer
    <2>2. s.nextSeq + 1 \in 1..(MaxSeq + 1) /\ s.nextSeq + 1 <= Len(L) + 1
      BY <1>1, <1>5
    <2>3. /\ u \in Subscriptions /\ u.pending = s.pending /\ u.ch = s.ch /\ u.backlog = s.backlog
          /\ u.maxReplay = s.maxReplay /\ u.deliveredSeq = s.deliveredSeq /\ u.after = s.after
          /\ u.got = s.got /\ u.nextSeq = s.nextSeq + 1 /\ u.active
      BY <1>5, <2>2 DEF Subscriptions
    <2> HIDE DEF u
    <2>4. BufferInv(L, c, u)
      <3>1. \A i \in DOMAIN s.ch : s.ch[i].seq < s.nextSeq + 1
        <4>1. \A i \in DOMAIN s.ch : s.ch[i].seq < s.nextSeq /\ s.ch[i] \in Event
          BY <1>1, <1>2, <1>5 DEF BufferInv
        <4>2. \A i \in DOMAIN s.ch : s.ch[i].seq \in Int
          BY <1>1, <4>1 DEF Event
        <4> QED BY <1>1, <4>1, <4>2
      <3>2. \A p \in s.pending : p.seq >= s.nextSeq + 1
        <4>1. \A p \in s.pending : p.seq >= s.nextSeq /\ p.seq # s.nextSeq /\ p.seq \in Int
          BY <1>1, <1>2, <1>5 DEF BufferInv, WaitingInv, Event
        <4> QED BY <1>1, <4>1
      <3> QED BY <1>2, <2>3, <3>1, <3>2 DEF BufferInv
    <2>5. ~L[s.nextSeq]
      BY <1>5 DEF Filter, Genuine
    <2>6. StreamInv(L, u)
      <3> DEFINE S == Seqs(s.ch) \cup 1..s.deliveredSeq
      <3>1. Covers(L, s.maxReplay, s.nextSeq - 1, S)
        BY <1>2, <1>5 DEF StreamInv
      <3> HIDE DEF S
      <3>2. ASSUME NEW n \in 1..Len(L), s.maxReplay < n, n <= s.nextSeq + 1 - 1, L[n] PROVE n \in S
        <4>1. n # s.nextSeq
          BY <2>5, <3>2
        <4>2. n <= s.nextSeq - 1
          BY <1>1, <3>2, <4>1
        <4> QED BY <3>1, <3>2, <4>2 DEF Covers
      <3>3. Covers(L, s.maxReplay, s.nextSeq + 1 - 1, S)
        BY <3>2 DEF Covers
      <3>4. /\ u.maxReplay <= Len(L) /\ u.deliveredSeq <= Len(L) /\ u.after <= u.deliveredSeq
            /\ Covers(L, u.deliveredSeq, u.maxReplay, Seqs(u.backlog)) /\ u.nextSeq <= Len(L) + 1
        BY <1>2, <2>2, <2>3 DEF StreamInv
      <3>5. Seqs(u.ch) \cup 1..u.deliveredSeq = S
        BY <2>3 DEF S
      <3>6. \A i \in DOMAIN u.ch : Covers(L, u.maxReplay, u.ch[i].seq, S)
        BY <1>2, <2>3 DEF StreamInv, S
      <3>7. Covers(L, u.maxReplay, u.nextSeq - 1, S)
        <4>1. u.nextSeq - 1 = s.nextSeq + 1 - 1
          BY <1>1, <2>3
        <4>2. u.maxReplay = s.maxReplay
          BY <2>3
        <4> QED BY <3>3, <4>1, <4>2, Zenon
      <3> QED BY <3>4, <3>5, <3>6, <3>7, Zenon DEF StreamInv
    <2>7. SizeInv(u)
      BY <1>2, <1>5, <2>3 DEF SizeInv
    <2>8. SubInv(L, c, FlushPending(c, u)) /\ SameGiven(u, FlushPending(c, u))
      BY <2>3, <2>4, <2>6, <2>7, FlushProps DEF SubInv, SameGiven
    <2> QED BY <2>1, <2>3, <2>8 DEF SameGiven
  <1>6. CASE s.active /\ e.seq = s.nextSeq /\ Filter(c, e) /\ Len(s.ch) = Limit
    <2>1. t = Terminate(s, TRUE)
      <3>1. ~(~s.active \/ e.seq < s.nextSeq) /\ ~(e.seq > s.nextSeq)
        BY <1>1, <1>6
      <3> QED BY <1>6, <3>1, Zenon DEF Offer
    <2>2. Len(s.ch) <= Limit
      BY <1>2 DEF SizeInv
    <2>3. SubInv(L, c, Terminate(s, TRUE))
      BY <1>2, <1>6, <2>2, TerminateProps
    <2>4. SameGiven(s, t)
      BY <2>1 DEF SameGiven, Terminate, Subscriptions
    <2> QED BY <2>1, <2>3, <2>4
  <1>7. CASE s.active /\ e.seq = s.nextSeq /\ Filter(c, e) /\ Len(s.ch) # Limit
    <2> DEFINE ch == Append(s.ch, e)
               u == [s EXCEPT !.ch = ch, !.nextSeq = @ + 1]
               m == Len(s.ch)
    <2>1. t = FlushPending(c, u)
      <3>1. ~(~s.active \/ e.seq < s.nextSeq) /\ ~(e.seq > s.nextSeq)
        BY <1>1, <1>7
      <3> QED BY <1>7, <3>1, Zenon DEF Offer
    <2>2. s.nextSeq + 1 \in 1..(MaxSeq + 1) /\ s.nextSeq + 1 <= Len(L) + 1 /\ m \in Nat /\ m < Limit
      BY <1>1, <1>2, <1>7 DEF SizeInv
    <2>3. /\ ch \in Seq(Event) /\ Len(ch) = m + 1 /\ DOMAIN ch = 1..(m + 1) /\ DOMAIN s.ch = 1..m
          /\ \A i \in 1..m : ch[i] = s.ch[i]
          /\ ch[m + 1] = e
      BY <1>1
    <2> HIDE DEF ch, m
    <2>4. /\ u \in Subscriptions /\ u.pending = s.pending /\ u.ch = ch /\ u.backlog = s.backlog
          /\ u.maxReplay = s.maxReplay /\ u.deliveredSeq = s.deliveredSeq /\ u.after = s.after
          /\ u.got = s.got /\ u.nextSeq = s.nextSeq + 1 /\ u.active
      BY <1>7, <2>2, <2>3 DEF Subscriptions
    <2> HIDE DEF u
    <2>5. \A i \in 1..(m + 1) : i \in 1..m \/ i = m + 1
      BY <2>2
    <2>6. \A i \in 1..m : /\ s.ch[i].seq < s.nextSeq /\ s.ch[i].seq \in Int
                          /\ Genuine(L, c, s.ch[i]) /\ s.ch[i].shown
      <3>1. \A i \in 1..m : s.ch[i].seq < s.nextSeq /\ Genuine(L, c, s.ch[i]) /\ s.ch[i].shown
        BY <1>2, <1>7, <2>3 DEF BufferInv
      <3>2. \A i \in 1..m : s.ch[i] \in Event
        BY <1>1 DEF m
      <3> QED BY <1>1, <3>1, <3>2 DEF Event
    <2>7. e.shown
      BY <1>7 DEF Filter
    <2>8. BufferInv(L, c, u)
      <3>1. \A i \in DOMAIN ch : Genuine(L, c, ch[i]) /\ ch[i].shown /\ ch[i].seq < s.nextSeq + 1
        <4>1. \A i \in 1..m : Genuine(L, c, ch[i]) /\ ch[i].shown /\ ch[i].seq < s.nextSeq + 1
          <5>1. \A i \in 1..m : s.ch[i].seq < s.nextSeq + 1
            BY ONLY <1>1, <2>6
          <5> QED BY <2>3, <2>6, <5>1
        <4>2. Genuine(L, c, ch[m + 1]) /\ ch[m + 1].shown /\ ch[m + 1].seq < s.nextSeq + 1
          BY <1>1, <1>7, <2>3, <2>7
        <4> QED BY <2>3, <2>5, <4>1, <4>2
      <3>2. \A p \in s.pending : p.seq >= s.nextSeq + 1
        <4>1. \A p \in s.pending : p.seq >= s.nextSeq /\ p.seq # s.nextSeq /\ p.seq \in Int
          BY <1>1, <1>2, <1>7 DEF BufferInv, WaitingInv, Event
        <4> QED BY <1>1, <4>1
      <3>3. Rising(ch)
        <4> SUFFICES ASSUME NEW i \in 1..(m + 1), NEW j \in 1..(m + 1), i < j PROVE ch[i].seq < ch[j].seq
          BY <2>3 DEF Rising
        <4>1. i \in 1..m
          BY <2>2
        <4>2. CASE j \in 1..m
          <5>1. s.ch[i].seq < s.ch[j].seq
            BY <1>2, <2>3, <4>1, <4>2 DEF BufferInv, Rising
          <5> QED BY <2>3, <4>1, <4>2, <5>1
        <4>3. CASE j = m + 1
          BY <1>7, <2>3, <2>6, <4>1, <4>3
        <4> QED BY <2>5, <4>2, <4>3
      <3> QED BY <1>2, <2>4, <3>1, <3>2, <3>3 DEF BufferInv
    <2>9. StreamInv(L, u)
      <3> DEFINE A == Seqs(s.ch) \cup 1..s.deliveredSeq
                 B == Seqs(ch) \cup 1..s.deliveredSeq
      <3>1. A \subseteq B /\ s.nextSeq \in B
        <4>1. \A i \in 1..m : i \in DOMAIN ch /\ ch[i].seq = s.ch[i].seq
          BY <2>2, <2>3
        <4>2. m + 1 \in DOMAIN ch /\ ch[m + 1].seq = s.nextSeq
          BY <1>7, <2>2, <2>3
        <4> QED BY <2>3, <4>1, <4>2 DEF Seqs
      <3>2. Covers(L, s.maxReplay, s.nextSeq - 1, A)
        BY <1>2, <1>7 DEF StreamInv
      <3>3. \A i \in 1..m : Covers(L, s.maxReplay, s.ch[i].seq, A)
        BY <1>2, <2>3 DEF StreamInv
      <3> HIDE DEF A, B
      <3>4. ASSUME NEW n \in 1..Len(L), s.maxReplay < n, n <= s.nextSeq, L[n] PROVE n \in B
        <4>1. CASE n = s.nextSeq
          BY <3>1, <4>1
        <4>2. CASE n <= s.nextSeq - 1
          BY <3>1, <3>2, <3>4, <4>2 DEF Covers
        <4> QED BY <1>1, <3>4, <4>1, <4>2
      <3>5. Covers(L, s.maxReplay, s.nextSeq, B) /\ s.nextSeq + 1 - 1 = s.nextSeq
        BY <1>1, <3>4 DEF Covers
      <3>6. \A i \in 1..m : Covers(L, s.maxReplay, ch[i].seq, B)
        <4>1. \A i \in 1..m : Covers(L, s.maxReplay, s.ch[i].seq, B)
          BY <3>1, <3>3 DEF Covers
        <4> QED BY <2>3, <4>1
      <3>7. \A i \in DOMAIN ch : Covers(L, s.maxReplay, ch[i].seq, B)
        BY <1>7, <2>3, <2>5, <3>5, <3>6
      <3>8. /\ u.maxReplay <= Len(L) /\ u.deliveredSeq <= Len(L) /\ u.after <= u.deliveredSeq
            /\ Covers(L, u.deliveredSeq, u.maxReplay, Seqs(u.backlog)) /\ u.nextSeq <= Len(L) + 1
        BY <1>2, <2>2, <2>4 DEF StreamInv
      <3>9. Seqs(u.ch) \cup 1..u.deliveredSeq = B
        BY <2>4 DEF B
      <3>10. Covers(L, u.maxReplay, u.nextSeq - 1, B)
        <4>1. u.nextSeq - 1 = s.nextSeq
          BY <1>1, <2>4
        <4>2. u.maxReplay = s.maxReplay
          BY <2>4
        <4> QED BY <3>5, <4>1, <4>2, Zenon
      <3>11. \A i \in DOMAIN u.ch : Covers(L, u.maxReplay, u.ch[i].seq, B)
        BY <2>4, <3>7
      <3> QED BY <3>8, <3>9, <3>10, <3>11, Zenon DEF StreamInv
    <2>10. SizeInv(u)
      <3>1. Len(ch) <= Limit
        BY <1>1, <2>2, <2>3
      <3> QED BY <1>2, <1>7, <2>4, <3>1 DEF SizeInv
    <2>11. SubInv(L, c, FlushPending(c, u)) /\ SameGiven(u, FlushPending(c, u))
      BY <2>4, <2>8, <2>9, <2>10, FlushProps DEF SubInv, SameGiven
    <2> QED BY <2>1, <2>4, <2>11 DEF SameGiven
  <1> QED BY <1>1, <1>3, <1>4, <1>5, <1>6, <1>7

-----------------------------------------------------------------------------
(* Lemmas about the operations on a subscription. *)

\* Commit: an event behind the end of the log changes nothing that is known.
LEMMA GrowProps ==
  ASSUME EventHubAssumption, NEW L \in Seq(BOOLEAN), NEW b \in BOOLEAN, NEW c \in Clients,
         NEW s \in Subscriptions, NEW k \in 0..MaxSeq, NEW S,
         SubInv(L, c, s), GivenInv(L, s, k, S)
  PROVE  SubInv(Append(L, b), c, s) /\ GivenInv(Append(L, b), s, k, S)
  <1> DEFINE M == Append(L, b)
  <1>1. Len(L) \in Nat /\ Len(M) = Len(L) + 1 /\ \A n \in 1..Len(L) : M[n] = L[n]
    OBVIOUS
  <1> HIDE DEF M
  <1>2. /\ s.ch \in Seq(Event) /\ s.maxReplay \in Int /\ s.deliveredSeq \in Int /\ s.nextSeq \in Int
        /\ s.after \in Int /\ k \in Int
    BY DEF Subscriptions, EventHubAssumption
  <1>3. BufferInv(L, c, s) /\ StreamInv(L, s) /\ SizeInv(s) /\ WaitingInv(s)
    BY DEF SubInv
  <1>4. ASSUME NEW e, Genuine(L, c, e) PROVE Genuine(M, c, e)
    BY <1>1, <1>4 DEF Genuine
  <1>5. ASSUME NEW x, NEW y \in Int, y <= Len(L), NEW T, Covers(L, x, y, T) PROVE Covers(M, x, y, T)
    <2> SUFFICES ASSUME NEW n \in 1..Len(M), x < n, n <= y, M[n] PROVE n \in T
      BY DEF Covers
    <2>1. n \in 1..Len(L)
      BY <1>1, <1>5
    <2>2. L[n]
      BY <1>1, <2>1
    <2> QED BY <1>5, <2>1, <2>2 DEF Covers
  <1>6. ASSUME NEW x \in Int, NEW y \in Int, y <= Len(L) PROVE ShownIn(M, x..y) = ShownIn(L, x..y) \/ x < 1
    <2> SUFFICES ASSUME x >= 1 PROVE ShownIn(M, x..y) = ShownIn(L, x..y)
      OBVIOUS
    <2>1. \A n \in x..y : n <= Len(M) /\ n <= Len(L) /\ M[n] = L[n]
      BY <1>1, <1>6
    <2> QED BY <2>1 DEF ShownIn
  <1>7. BufferInv(M, c, s)
    BY <1>3, <1>4 DEF BufferInv
  <1>8. StreamInv(M, s)
    <2>1. \A i \in DOMAIN s.ch : s.ch[i].seq \in Int /\ s.ch[i].seq <= Len(L)
      BY <1>1, <1>3 DEF BufferInv, Genuine
    <2>2. s.nextSeq - 1 \in Int /\ s.nextSeq - 1 <= Len(L)
      BY <1>1, <1>2, <1>3 DEF StreamInv
    <2>3. s.nextSeq <= Len(M) + 1 /\ s.maxReplay <= Len(M) /\ s.deliveredSeq <= Len(M) /\ s.after <= s.deliveredSeq
      BY <1>1, <1>2, <1>3 DEF StreamInv
    <2>4. Covers(M, s.deliveredSeq, s.maxReplay, Seqs(s.backlog))
      BY <1>2, <1>3, <1>5 DEF StreamInv
    <2> DEFINE T == Seqs(s.ch) \cup 1..s.deliveredSeq
    <2>5. \A i \in DOMAIN s.ch : Covers(L, s.maxReplay, s.ch[i].seq, T)
      BY <1>3 DEF StreamInv
    <2>6. s.active => Covers(L, s.maxReplay, s.nextSeq - 1, T)
      BY <1>3 DEF StreamInv
    <2> HIDE DEF T
    <2>7. \A i \in DOMAIN s.ch : Covers(M, s.maxReplay, s.ch[i].seq, T)
      BY <1>5, <2>1, <2>5
    <2>8. s.active => Covers(M, s.maxReplay, s.nextSeq - 1, T)
      BY <1>5, <2>2, <2>6
    <2> QED BY <2>3, <2>4, <2>7, <2>8, Zenon DEF StreamInv, T
  <1>9. GivenInv(M, s, k, S)
    <2>1. s.after <= Len(L) /\ s.deliveredSeq <= Len(L) /\ s.after + 1 >= 1 /\ k <= Len(L)
      BY <1>1, <1>2, <1>3 DEF StreamInv, GivenInv, Subscriptions
    <2>2. ShownIn(M, 1..s.after) = ShownIn(L, 1..s.after)
      BY <1>2, <1>6, <2>1
    <2>3. ShownIn(M, 1..k) = ShownIn(L, 1..k)
      BY <1>2, <1>6, <2>1
    <2>4. ShownIn(M, (s.after + 1)..s.deliveredSeq) = ShownIn(L, (s.after + 1)..s.deliveredSeq)
      <3>1. s.after + 1 \in Int /\ ~(s.after + 1 < 1)
        BY <1>2, <2>1
      <3> QED BY <1>2, <1>6, <2>1, <3>1
    <2>5. k <= Len(M)
      BY <1>1, <1>2, <2>1
    <2> QED BY <2>2, <2>3, <2>4, <2>5, Zenon DEF GivenInv
  <1> QED BY <1>3, <1>7, <1>8, <1>9 DEF SubInv, M

\* subscribe: the buffers are empty and everything starts at the cursor k;
\* a client without a subscription starts at 0.
LEMMA FreshProps ==
  ASSUME EventHubAssumption, NEW L, Len(L) \in Nat, NEW c \in Clients, NEW k \in 0..MaxSeq, k <= Len(L),
         NEW s \in Subscriptions, s.ch = <<>>, s.backlog = <<>>, s.pending = {}, s.got = {},
         s.after = k, s.deliveredSeq = k, s.maxReplay = k, s.nextSeq = k + 1,
         NEW j, NEW S, ShownIn(L, 1..k) \subseteq S, ShownIn(L, 1..j) \subseteq S, j <= Len(L)
  PROVE  SubInv(L, c, s) /\ GivenInv(L, s, j, S)
  <1>1. k \in Int /\ Limit \in Nat /\ k + 1 - 1 = k /\ k + 1 <= Len(L) + 1
    BY DEF EventHubAssumption
  <1>2. DOMAIN s.ch = {} /\ DOMAIN s.backlog = {} /\ Len(s.ch) = 0
    OBVIOUS
  <1>3. IsFiniteSet(s.pending) /\ Cardinality(s.pending) = 0
    BY FS_EmptySet
  <1>4. BufferInv(L, c, s)
    BY <1>2, <1>3 DEF BufferInv, Rising
  <1>5. ASSUME NEW T PROVE Covers(L, k, k, T)
    BY <1>1 DEF Covers
  <1>6. StreamInv(L, s)
    <2>1. Covers(L, s.deliveredSeq, s.maxReplay, Seqs(s.backlog))
      BY <1>5, Zenon
    <2>2. s.nextSeq - 1 = k
      BY <1>1
    <2>3. Covers(L, s.maxReplay, s.nextSeq - 1, Seqs(s.ch) \cup 1..s.deliveredSeq)
      BY <1>5, <2>2, Zenon
    <2>4. s.nextSeq <= Len(L) + 1 /\ s.maxReplay <= Len(L) /\ s.deliveredSeq <= Len(L) /\ s.after <= s.deliveredSeq
      BY <1>1
    <2> QED BY <1>2, <2>1, <2>3, <2>4, Zenon DEF StreamInv
  <1>7. SizeInv(s) /\ WaitingInv(s)
    BY <1>1, <1>2, <1>3 DEF SizeInv, WaitingInv
  <1>8. GivenInv(L, s, j, S)
    <2>1. (k + 1)..k = {}
      BY <1>1
    <2>2. ShownIn(L, (k + 1)..k) = {}
      BY <2>1 DEF ShownIn
    <2> QED BY <2>2 DEF GivenInv
  <1> QED BY <1>4, <1>6, <1>7, <1>8 DEF SubInv

\* The loader's result takes the place of the backlog.
LEMMA LoadProps ==
  ASSUME EventHubAssumption, NEW L, Len(L) \in Nat, Len(L) <= MaxSeq, NEW c \in Clients,
         NEW s \in Subscriptions, SubInv(L, c, s),
         NEW evs \in Seq(Event), Rising(evs), Covers(L, s.after, Len(L), Seqs(evs)),
         \A i \in DOMAIN evs : Genuine(L, c, evs[i]) /\ evs[i].shown,
         NEW t, t = [s EXCEPT !.state = "loaded", !.maxReplay = Len(L), !.backlog = evs]
  PROVE  SubInv(L, c, t) /\ SameGiven(s, t)
  <1>1. /\ s.maxReplay \in Int /\ s.deliveredSeq \in Int /\ s.nextSeq \in Int /\ s.after \in Int
        /\ Len(L) \in 0..MaxSeq /\ MaxSeq \in Nat
    BY DEF Subscriptions, EventHubAssumption
  <1>2. BufferInv(L, c, s) /\ StreamInv(L, s) /\ SizeInv(s) /\ WaitingInv(s)
    BY DEF SubInv
  <1>3. /\ t \in Subscriptions /\ t.pending = s.pending /\ t.ch = s.ch /\ t.backlog = evs
        /\ t.maxReplay = Len(L) /\ t.deliveredSeq = s.deliveredSeq /\ t.after = s.after
        /\ t.got = s.got /\ t.nextSeq = s.nextSeq /\ t.active = s.active
    BY <1>1 DEF Subscriptions
  <1>4. BufferInv(L, c, t)
    <2>1. \A i \in DOMAIN evs : evs[i].seq <= Len(L)
      BY DEF Genuine
    <2> QED BY <1>2, <1>3, <2>1 DEF BufferInv
  <1>5. StreamInv(L, t)
    <2> DEFINE T == Seqs(s.ch) \cup 1..s.deliveredSeq
    <2>1. s.maxReplay <= Len(L) /\ s.after <= s.deliveredSeq /\ s.deliveredSeq <= Len(L) /\ s.nextSeq <= Len(L) + 1
      BY <1>2 DEF StreamInv
    <2>2. \A i \in DOMAIN s.ch : Covers(L, s.maxReplay, s.ch[i].seq, T)
      BY <1>2 DEF StreamInv
    <2>3. s.active => Covers(L, s.maxReplay, s.nextSeq - 1, T)
      BY <1>2 DEF StreamInv
    <2> HIDE DEF T
    <2>4. ASSUME NEW y, Covers(L, s.maxReplay, y, T) PROVE Covers(L, Len(L), y, T)
      <3>1. \A n \in 1..Len(L) : ~(Len(L) < n)
        BY <1>1
      <3> QED BY <3>1 DEF Covers
    <2>5. Covers(L, s.deliveredSeq, Len(L), Seqs(evs))
      BY <1>1, <2>1 DEF Covers
    <2>6. \A i \in DOMAIN s.ch : Covers(L, Len(L), s.ch[i].seq, T)
      BY <2>2, <2>4
    <2>7. s.active => Covers(L, Len(L), s.nextSeq - 1, T)
      BY <2>3, <2>4
    <2>8. Len(L) <= Len(L)
      BY <1>1
    <2> QED BY <1>3, <2>1, <2>5, <2>6, <2>7, <2>8, Zenon DEF StreamInv, T
  <1> QED BY <1>2, <1>3, <1>4, <1>5 DEF SubInv, SizeInv, WaitingInv, SameGiven

\* SubscribeCursor moves the live cursor past the replay.
LEMMA FoldReplayProps ==
  ASSUME EventHubAssumption, NEW L, Len(L) \in Nat, Len(L) <= MaxSeq, NEW c \in Clients,
         NEW s \in Subscriptions, SubInv(L, c, s), s.active,
         NEW top, top = IF s.maxReplay + 1 > s.nextSeq THEN s.maxReplay + 1 ELSE s.nextSeq,
         NEW u, u = [s EXCEPT !.state = "open", !.nextSeq = top, !.pending = {e \in @ : e.seq >= top}]
  PROVE  SubInv(L, c, FlushPending(c, u)) /\ SameGiven(s, FlushPending(c, u))
  <1> DEFINE rest == {e \in s.pending : e.seq >= top}
  <1>1. /\ s.maxReplay \in 0..MaxSeq /\ s.nextSeq \in 1..(MaxSeq + 1) /\ s.pending \in SUBSET Event
        /\ s.maxReplay \in Int /\ s.nextSeq \in Int /\ MaxSeq \in Nat /\ s.ch \in Seq(Event) /\ Limit \in Nat
    BY DEF Subscriptions, EventHubAssumption
  <1>2. BufferInv(L, c, s) /\ StreamInv(L, s) /\ SizeInv(s) /\ WaitingInv(s)
    BY DEF SubInv
  <1>3. top \in 1..(MaxSeq + 1) /\ top \in Int /\ top <= Len(L) + 1 /\ s.nextSeq <= top
        /\ (top = s.nextSeq \/ top = s.maxReplay + 1)
    BY <1>1, <1>2 DEF StreamInv
  <1>4. rest \in SUBSET s.pending /\ rest \in SUBSET Event /\ \A e \in rest : e.seq >= top
    BY <1>1
  <1>5. u = [s EXCEPT !.state = "open", !.nextSeq = top, !.pending = rest]
    BY Zenon
  <1> HIDE DEF rest
  <1>6. IsFiniteSet(rest) /\ Cardinality(rest) <= Limit
    <2>1. IsFiniteSet(s.pending) /\ Cardinality(s.pending) <= Limit
      BY <1>2 DEF BufferInv, SizeInv
    <2>2. IsFiniteSet(rest) /\ Cardinality(rest) <= Cardinality(s.pending)
      BY <1>4, <2>1, FS_Subset
    <2>3. Cardinality(rest) \in Nat /\ Cardinality(s.pending) \in Nat
      BY <2>1, <2>2, FS_CardinalityType
    <2> QED BY <1>1, <2>1, <2>2, <2>3
  <1>7. /\ u \in Subscriptions /\ u.pending = rest /\ u.ch = s.ch /\ u.backlog = s.backlog
        /\ u.maxReplay = s.maxReplay /\ u.deliveredSeq = s.deliveredSeq /\ u.after = s.after
        /\ u.got = s.got /\ u.nextSeq = top /\ u.active
    BY <1>3, <1>4, <1>5 DEF Subscriptions
  <1>8. BufferInv(L, c, u)
    <2>1. \A i \in DOMAIN s.ch : s.ch[i].seq < top
      <3>1. \A i \in DOMAIN s.ch : s.ch[i].seq < s.nextSeq
        BY <1>2 DEF BufferInv
      <3>2. \A i \in DOMAIN s.ch : s.ch[i].seq \in Int
        BY <1>2 DEF BufferInv, Genuine
      <3> QED BY ONLY <1>1, <1>3, <3>1, <3>2
    <2> QED BY <1>2, <1>4, <1>6, <1>7, <2>1 DEF BufferInv
  <1>9. StreamInv(L, u)
    <2> DEFINE T == Seqs(s.ch) \cup 1..s.deliveredSeq
    <2>1. s.maxReplay <= Len(L) /\ s.after <= s.deliveredSeq /\ s.deliveredSeq <= Len(L)
          /\ Covers(L, s.deliveredSeq, s.maxReplay, Seqs(s.backlog))
      BY <1>2 DEF StreamInv
    <2>2. \A i \in DOMAIN s.ch : Covers(L, s.maxReplay, s.ch[i].seq, T)
      BY <1>2 DEF StreamInv
    <2>3. Covers(L, s.maxReplay, s.nextSeq - 1, T)
      BY <1>2 DEF StreamInv
    <2> HIDE DEF T
    <2>4. Covers(L, s.maxReplay, top - 1, T)
      <3>1. CASE top = s.nextSeq
        BY <2>3, <3>1, Zenon
      <3>2. CASE top = s.maxReplay + 1
        BY <1>1, <1>3, <3>2 DEF Covers
      <3> QED BY <1>3, <3>1, <3>2
    <2> QED BY <1>3, <1>7, <2>1, <2>2, <2>4, Zenon DEF StreamInv, T
  <1>10. SizeInv(u)
    BY <1>2, <1>6, <1>7 DEF SizeInv
  <1>11. SubInv(L, c, FlushPending(c, u)) /\ SameGiven(u, FlushPending(c, u))
    <2>1. EventHubAssumption /\ Len(L) \in Nat /\ Len(L) <= MaxSeq /\ c \in Clients /\ u.active /\ u \in Subscriptions
      BY <1>7
    <2> QED BY ONLY <1>8, <1>9, <1>10, <2>1, FlushProps DEF SubInv, SameGiven
  <1> QED BY <1>7, <1>11 DEF SameGiven

\* The head of a rising sequence is its least, and the tail has the others.
LEMMA TailProps ==
  ASSUME EventHubAssumption, NEW q \in Seq(Event), q # <<>>, Rising(q)
  PROVE  /\ Tail(q) \in Seq(Event) /\ Rising(Tail(q)) /\ Head(q) \in Event
         /\ Len(Tail(q)) = Len(q) - 1 /\ 1 \in DOMAIN q /\ Head(q) = q[1]
         /\ \A i \in DOMAIN Tail(q) : i + 1 \in DOMAIN q /\ Tail(q)[i] = q[i + 1]
         /\ \A n \in Seqs(q) : n = Head(q).seq \/ n \in Seqs(Tail(q))
         /\ \A n \in Seqs(q) : n \in Int /\ Head(q).seq <= n
         /\ Head(q).seq \in Int
  <1> DEFINE r == Tail(q)
             m == Len(q)
  <1>1. m \in Nat /\ m >= 1 /\ DOMAIN q = 1..m /\ Head(q) = q[1]
    OBVIOUS
  <1>2. r \in Seq(Event) /\ Len(r) = m - 1 /\ DOMAIN r = 1..(m - 1) /\ \A i \in 1..(m - 1) : r[i] = q[i + 1]
    OBVIOUS
  <1>3. \A i \in 1..m : q[i] \in Event
    BY <1>1
  <1>4. \A i \in 1..m : q[i].seq \in Int
    BY <1>3 DEF Event, EventHubAssumption
  <1> HIDE DEF r, m
  <1>5. 1 \in 1..m /\ \A i \in 1..(m - 1) : i + 1 \in 1..m
    BY <1>1
  <1>6. Rising(r)
    <2> SUFFICES ASSUME NEW i \in 1..(m - 1), NEW j \in 1..(m - 1), i < j PROVE r[i].seq < r[j].seq
      BY <1>2 DEF Rising
    <2>1. i + 1 \in 1..m /\ j + 1 \in 1..m /\ i + 1 < j + 1
      BY <1>1
    <2>2. q[i + 1].seq < q[j + 1].seq
      BY <1>1, <2>1 DEF Rising
    <2> QED BY <1>2, <2>2
  <1>7. ASSUME NEW n \in Seqs(q)
        PROVE  /\ n = q[1].seq \/ n \in Seqs(r)
               /\ n \in Int /\ q[1].seq <= n
    <2>1. PICK i \in 1..m : n = q[i].seq
      BY <1>1 DEF Seqs
    <2>2. CASE i = 1
      BY <1>4, <1>5, <2>1, <2>2
    <2>3. CASE i > 1
      <3>1. i - 1 \in 1..(m - 1) /\ i - 1 + 1 = i
        BY <1>1, <2>3
      <3>2. r[i - 1] = q[i]
        BY <1>2, <3>1
      <3>3. n \in Seqs(r)
        BY <1>2, <2>1, <3>1, <3>2 DEF Seqs
      <3>4. q[1].seq < q[i].seq
        BY <1>1, <1>5, <2>3 DEF Rising
      <3> QED BY <1>4, <1>5, <2>1, <3>3, <3>4
    <2> QED BY <1>1, <2>2, <2>3
  <1> QED BY <1>1, <1>2, <1>3, <1>4, <1>5, <1>6, <1>7 DEF r, m

\* Next hands over e, the head of the backlog or of the channel, that was taken
\* out of s to give r: it closes the gap up to e when nothing shown is between.
LEMMA DeliverProps ==
  ASSUME EventHubAssumption, NEW L, Len(L) \in Nat, Len(L) <= MaxSeq, NEW c \in Clients,
         NEW r \in Subscriptions, BufferInv(L, c, r), SizeInv(r), WaitingInv(r),
         r.nextSeq <= Len(L) + 1, r.maxReplay <= Len(L), r.deliveredSeq <= Len(L), r.after <= r.deliveredSeq,
         NEW e \in Event, Genuine(L, c, e), e.shown,
         \A n \in 1..Len(L) : r.deliveredSeq < n /\ n < e.seq => ~L[n],
         NEW d, d = IF e.seq <= r.deliveredSeq THEN r.deliveredSeq ELSE e.seq,
         Covers(L, d, r.maxReplay, Seqs(r.backlog)),
         \A i \in DOMAIN r.ch : Covers(L, r.maxReplay, r.ch[i].seq, Seqs(r.ch) \cup 1..d),
         r.active => Covers(L, r.maxReplay, r.nextSeq - 1, Seqs(r.ch) \cup 1..d),
         NEW k, NEW S, GivenInv(L, r, k, S)
  PROVE  /\ SubInv(L, c, Deliver(c, r, e))
         /\ GivenInv(L, Deliver(c, r, e), k, S \cup (Deliver(c, r, e).got \ r.got))
         /\ Deliver(c, r, e).got \subseteq 1..MaxSeq
  <1> DEFINE t == Deliver(c, r, e)
  <1>1. /\ r.deliveredSeq \in 0..MaxSeq /\ r.after \in 0..MaxSeq /\ MaxSeq \in Nat /\ e.seq \in 1..MaxSeq
        /\ r.got \in SUBSET (1..MaxSeq) /\ e.seq \in 1..Len(L) /\ L[e.seq]
        /\ r.deliveredSeq \in Int /\ e.seq \in Int /\ r.after \in Int
    BY DEF Subscriptions, EventHubAssumption, Event, Genuine
  <1>2. CASE e.seq <= r.deliveredSeq
    <2>1. t = r /\ d = r.deliveredSeq
      BY <1>2 DEF Deliver
    <2>2. StreamInv(L, r)
      <3>1. /\ Covers(L, r.deliveredSeq, r.maxReplay, Seqs(r.backlog))
            /\ \A i \in DOMAIN r.ch : Covers(L, r.maxReplay, r.ch[i].seq, Seqs(r.ch) \cup 1..r.deliveredSeq)
            /\ r.active => Covers(L, r.maxReplay, r.nextSeq - 1, Seqs(r.ch) \cup 1..r.deliveredSeq)
        BY <2>1, Zenon
      <3> QED BY <3>1, Zenon DEF StreamInv
    <2>3. S \cup (r.got \ r.got) = S
      OBVIOUS
    <2> QED BY <1>1, <2>1, <2>2, <2>3 DEF SubInv
  <1>3. CASE e.seq > r.deliveredSeq
    <2> DEFINE G == r.got \cup {e.seq}
    <2>1. t = [r EXCEPT !.deliveredSeq = e.seq, !.got = G] /\ d = e.seq
      <3>1. ~(e.seq <= r.deliveredSeq)
        BY <1>1, <1>3
      <3> QED BY <3>1, Zenon DEF Deliver
    <2>2. G \in SUBSET (1..MaxSeq)
      BY <1>1
    <2> HIDE DEF G, t
    <2>3. /\ t \in Subscriptions /\ t.pending = r.pending /\ t.ch = r.ch /\ t.backlog = r.backlog
          /\ t.maxReplay = r.maxReplay /\ t.deliveredSeq = e.seq /\ t.after = r.after
          /\ t.got = G /\ t.nextSeq = r.nextSeq /\ t.active = r.active
      <3> DEFINE x == e.seq
      <3>1. t = [r EXCEPT !.deliveredSeq = x, !.got = G] /\ x \in 0..MaxSeq /\ r \in Subscriptions
        BY <1>1, <2>1
      <3> HIDE DEF x
      <3>2. /\ t \in Subscriptions /\ t.pending = r.pending /\ t.ch = r.ch /\ t.backlog = r.backlog
            /\ t.maxReplay = r.maxReplay /\ t.deliveredSeq = x /\ t.after = r.after
            /\ t.got = G /\ t.nextSeq = r.nextSeq /\ t.active = r.active
        BY ONLY <2>2, <3>1 DEF Subscriptions
      <3> QED BY <3>2 DEF x
    <2>4. BufferInv(L, c, t) /\ SizeInv(t) /\ WaitingInv(t)
      BY <2>3 DEF BufferInv, SizeInv, WaitingInv
    <2>5. StreamInv(L, t)
      <3>1. /\ Covers(L, t.deliveredSeq, t.maxReplay, Seqs(t.backlog))
            /\ \A i \in DOMAIN t.ch : Covers(L, t.maxReplay, t.ch[i].seq, Seqs(t.ch) \cup 1..t.deliveredSeq)
            /\ t.active => Covers(L, t.maxReplay, t.nextSeq - 1, Seqs(t.ch) \cup 1..t.deliveredSeq)
        BY <2>1, <2>3, Zenon
      <3>2. t.nextSeq <= Len(L) + 1 /\ t.maxReplay <= Len(L) /\ t.deliveredSeq <= Len(L) /\ t.after <= t.deliveredSeq
        BY <1>1, <1>3, <2>3
      <3> QED BY <3>1, <3>2, Zenon DEF StreamInv
    <2>6. G = ShownIn(L, (r.after + 1)..e.seq)
      <3>1. r.got = ShownIn(L, (r.after + 1)..r.deliveredSeq)
        BY DEF GivenInv
      <3>2. ASSUME NEW n \in G PROVE n \in ShownIn(L, (r.after + 1)..e.seq)
        <4>1. CASE n = e.seq
          <5>1. e.seq \in (r.after + 1)..e.seq /\ e.seq <= Len(L)
            BY <1>1, <1>3
          <5> QED BY <1>1, <4>1, <5>1 DEF ShownIn
        <4>2. CASE n \in r.got
          <5>1. n \in (r.after + 1)..r.deliveredSeq /\ n <= Len(L) /\ L[n]
            BY <3>1, <4>2 DEF ShownIn
          <5>2. n \in (r.after + 1)..e.seq
            BY <1>1, <1>3, <5>1
          <5> QED BY <5>1, <5>2 DEF ShownIn
        <4> QED BY <4>1, <4>2 DEF G
      <3>3. ASSUME NEW n \in ShownIn(L, (r.after + 1)..e.seq) PROVE n \in G
        <4>1. n \in (r.after + 1)..e.seq /\ n <= Len(L) /\ L[n]
          BY DEF ShownIn
        <4>2. n \in 1..Len(L) /\ n \in Int
          BY <1>1, <4>1
        <4>3. CASE n = e.seq
          BY <4>3 DEF G
        <4>4. CASE n <= r.deliveredSeq
          <5>1. n \in (r.after + 1)..r.deliveredSeq
            BY <1>1, <4>1, <4>4
          <5> QED BY <3>1, <4>1, <5>1 DEF ShownIn, G
        <4>5. CASE r.deliveredSeq < n /\ n < e.seq
          BY <4>1, <4>2, <4>5
        <4> QED BY <1>1, <4>1, <4>2, <4>3, <4>4, <4>5
      <3> QED BY <3>2, <3>3
    <2>7. GivenInv(L, t, k, S \cup (t.got \ r.got))
      <3>1. /\ r.got \subseteq S /\ ShownIn(L, 1..r.after) \subseteq S /\ ShownIn(L, 1..k) \subseteq S
            /\ k <= Len(L)
        BY DEF GivenInv
      <3>2. G \subseteq S \cup (G \ r.got)
        BY <3>1
      <3> QED BY <2>3, <2>6, <3>1, <3>2 DEF GivenInv
    <2>8. SubInv(L, c, t) /\ t.got \subseteq 1..MaxSeq
      BY <2>2, <2>3, <2>4, <2>5 DEF SubInv
    <2> QED BY <2>7, <2>8 DEF t
  <1> QED BY <1>1, <1>2, <1>3

\* Next on the replay.
LEMMA NextBacklog ==
  ASSUME EventHubAssumption, NEW L, Len(L) \in Nat, Len(L) <= MaxSeq, NEW c \in Clients,
         NEW s \in Subscriptions, SubInv(L, c, s), s.backlog # <<>>,
         NEW k, NEW S, GivenInv(L, s, k, S),
         NEW t, t = Deliver(c, [s EXCEPT !.backlog = Tail(@)], Head(s.backlog))
  PROVE  SubInv(L, c, t) /\ GivenInv(L, t, k, S \cup (t.got \ s.got)) /\ t.got \subseteq 1..MaxSeq
  <1> DEFINE q == s.backlog
             e == Head(q)
             r == [s EXCEPT !.backlog = Tail(q)]
             d == IF e.seq <= s.deliveredSeq THEN s.deliveredSeq ELSE e.seq
  <1>1. /\ q \in Seq(Event) /\ s.deliveredSeq \in Int /\ s.deliveredSeq >= 0 /\ s.maxReplay \in Int
    BY DEF Subscriptions
  <1>2. BufferInv(L, c, s) /\ StreamInv(L, s) /\ SizeInv(s) /\ WaitingInv(s)
    BY DEF SubInv
  <1>3. Rising(q) /\ \A i \in DOMAIN q : Genuine(L, c, q[i]) /\ q[i].shown /\ q[i].seq <= s.maxReplay
    BY <1>2 DEF BufferInv
  <1>4. Covers(L, s.deliveredSeq, s.maxReplay, Seqs(q))
    BY <1>2 DEF StreamInv
  <1>5. q # <<>> /\ t = Deliver(c, r, e)
    BY Zenon
  <1> DEFINE tl == Tail(q)
  <1> HIDE DEF q
  <1>6. /\ tl \in Seq(Event) /\ Rising(tl) /\ e \in Event
        /\ Len(tl) = Len(q) - 1 /\ 1 \in DOMAIN q /\ e = q[1]
        /\ \A i \in DOMAIN tl : i + 1 \in DOMAIN q /\ tl[i] = q[i + 1]
        /\ \A n \in Seqs(q) : n = e.seq \/ n \in Seqs(tl)
        /\ \A n \in Seqs(q) : n \in Int /\ e.seq <= n
        /\ e.seq \in Int
    BY <1>1, <1>3, <1>5, TailProps
  <1> HIDE DEF e, tl
  <1>7. /\ r \in Subscriptions /\ r.pending = s.pending /\ r.ch = s.ch /\ r.backlog = tl
        /\ r.maxReplay = s.maxReplay /\ r.deliveredSeq = s.deliveredSeq /\ r.after = s.after
        /\ r.got = s.got /\ r.nextSeq = s.nextSeq /\ r.active = s.active
    BY <1>6 DEF Subscriptions, tl
  <1> HIDE DEF r
  <1>8. Genuine(L, c, e) /\ e.shown /\ e.seq <= s.maxReplay
    BY <1>3, <1>6
  <1>9. \A i \in DOMAIN tl : Genuine(L, c, tl[i]) /\ tl[i].shown /\ tl[i].seq <= s.maxReplay
    BY <1>3, <1>6
  <1>10. BufferInv(L, c, r) /\ SizeInv(r) /\ WaitingInv(r)
    BY <1>2, <1>6, <1>7, <1>9 DEF BufferInv, SizeInv, WaitingInv
  <1>11. ASSUME NEW n \in 1..Len(L), s.deliveredSeq < n, n < e.seq, L[n] PROVE FALSE
    <2>1. n <= s.maxReplay
      BY <1>1, <1>6, <1>8, <1>11
    <2>2. n \in Seqs(q)
      BY <1>4, <1>11, <2>1 DEF Covers
    <2> QED BY <1>6, <1>11, <2>2
  <1>12. d \in Int /\ s.deliveredSeq <= d /\ e.seq <= d
    BY <1>1, <1>6
  <1> HIDE DEF d
  <1>13. Covers(L, d, s.maxReplay, Seqs(tl))
    <2> SUFFICES ASSUME NEW n \in 1..Len(L), d < n, n <= s.maxReplay, L[n] PROVE n \in Seqs(tl)
      BY DEF Covers
    <2>1. s.deliveredSeq < n /\ n # e.seq
      BY <1>1, <1>6, <1>12
    <2>2. n \in Seqs(q)
      BY <1>4, <2>1 DEF Covers
    <2> QED BY <1>6, <2>1, <2>2
  <1>14. ASSUME NEW y, Covers(L, s.maxReplay, y, Seqs(s.ch) \cup 1..s.deliveredSeq)
         PROVE  Covers(L, s.maxReplay, y, Seqs(s.ch) \cup 1..d)
    <2>1. 1..s.deliveredSeq \subseteq 1..d
      BY <1>1, <1>12
    <2> QED BY <1>14, <2>1 DEF Covers
  <1>15. /\ \A i \in DOMAIN r.ch : Covers(L, r.maxReplay, r.ch[i].seq, Seqs(r.ch) \cup 1..d)
         /\ r.active => Covers(L, r.maxReplay, r.nextSeq - 1, Seqs(r.ch) \cup 1..d)
    <2>1. \A i \in DOMAIN s.ch : Covers(L, s.maxReplay, s.ch[i].seq, Seqs(s.ch) \cup 1..d)
      BY <1>2, <1>14, Zenon DEF StreamInv
    <2>2. s.active => Covers(L, s.maxReplay, s.nextSeq - 1, Seqs(s.ch) \cup 1..d)
      BY <1>2, <1>14, Zenon DEF StreamInv
    <2> QED BY <1>7, <2>1, <2>2, Zenon
  <1>16. Covers(L, d, r.maxReplay, Seqs(r.backlog))
    BY <1>7, <1>13, Zenon
  <1>17. /\ r.nextSeq <= Len(L) + 1 /\ r.maxReplay <= Len(L) /\ r.deliveredSeq <= Len(L) /\ r.after <= r.deliveredSeq
    BY <1>2, <1>7 DEF StreamInv
  <1>18. GivenInv(L, r, k, S)
    BY <1>7 DEF GivenInv
  <1>19. d = IF e.seq <= r.deliveredSeq THEN r.deliveredSeq ELSE e.seq
    BY <1>7 DEF d
  <1>20. \A n \in 1..Len(L) : r.deliveredSeq < n /\ n < e.seq => ~L[n]
    BY <1>7, <1>11
  <1>21. EventHubAssumption /\ Len(L) \in Nat /\ Len(L) <= MaxSeq /\ c \in Clients
    OBVIOUS
  <1>22. /\ SubInv(L, c, Deliver(c, r, e))
         /\ GivenInv(L, Deliver(c, r, e), k, S \cup (Deliver(c, r, e).got \ r.got))
         /\ Deliver(c, r, e).got \subseteq 1..MaxSeq
    BY ONLY <1>6, <1>7, <1>8, <1>10, <1>15, <1>16, <1>17, <1>18, <1>19, <1>20, <1>21, DeliverProps
  <1> QED BY <1>5, <1>7, <1>22, Zenon

\* Next on the live channel, behind the replay.
LEMMA NextChannel ==
  ASSUME EventHubAssumption, NEW L, Len(L) \in Nat, Len(L) <= MaxSeq, NEW c \in Clients,
         NEW s \in Subscriptions, SubInv(L, c, s), s.backlog = <<>>, s.ch # <<>>,
         NEW k, NEW S, GivenInv(L, s, k, S),
         NEW t, t = Deliver(c, [s EXCEPT !.ch = Tail(@)], Head(s.ch))
  PROVE  SubInv(L, c, t) /\ GivenInv(L, t, k, S \cup (t.got \ s.got)) /\ t.got \subseteq 1..MaxSeq
  <1> DEFINE q == s.ch
             e == Head(q)
             r == [s EXCEPT !.ch = Tail(q)]
             d == IF e.seq <= s.deliveredSeq THEN s.deliveredSeq ELSE e.seq
  <1>1. /\ q \in Seq(Event) /\ s.deliveredSeq \in Int /\ s.deliveredSeq >= 0 /\ s.maxReplay \in Int
    BY DEF Subscriptions
  <1>2. BufferInv(L, c, s) /\ StreamInv(L, s) /\ SizeInv(s) /\ WaitingInv(s) /\ Limit \in Nat
    BY DEF SubInv, EventHubAssumption
  <1>3. Rising(q) /\ \A i \in DOMAIN q : Genuine(L, c, q[i]) /\ q[i].shown
    BY <1>2 DEF BufferInv
  <1>4. ASSUME NEW n \in 1..Len(L), s.deliveredSeq < n, n <= s.maxReplay, L[n] PROVE FALSE
    <2>1. n \in Seqs(s.backlog)
      BY <1>2, <1>4 DEF StreamInv, Covers
    <2> QED BY <2>1 DEF Seqs
  <1> DEFINE A == Seqs(q) \cup 1..s.deliveredSeq
  <1>5. /\ \A i \in DOMAIN q : Covers(L, s.maxReplay, q[i].seq, A)
        /\ s.active => Covers(L, s.maxReplay, s.nextSeq - 1, A)
    BY <1>2, Zenon DEF StreamInv
  <1>a. q # <<>> /\ t = Deliver(c, r, e) /\ q = s.ch
    BY Zenon
  <1>b. s.active => \A i \in DOMAIN q : q[i].seq < s.nextSeq
    BY <1>2 DEF BufferInv
  <1>c. Len(q) <= Limit
    BY <1>2 DEF SizeInv
  <1> DEFINE tl == Tail(q)
  <1> HIDE DEF q
  <1>6. /\ tl \in Seq(Event) /\ Rising(tl) /\ e \in Event
        /\ Len(tl) = Len(q) - 1 /\ 1 \in DOMAIN q /\ e = q[1]
        /\ \A i \in DOMAIN tl : i + 1 \in DOMAIN q /\ tl[i] = q[i + 1]
        /\ \A n \in Seqs(q) : n = e.seq \/ n \in Seqs(tl)
        /\ \A n \in Seqs(q) : n \in Int /\ e.seq <= n
        /\ e.seq \in Int
    BY <1>1, <1>3, <1>a, TailProps
  <1> HIDE DEF e, tl, A
  <1>7. /\ r \in Subscriptions /\ r.pending = s.pending /\ r.ch = tl /\ r.backlog = s.backlog
        /\ r.maxReplay = s.maxReplay /\ r.deliveredSeq = s.deliveredSeq /\ r.after = s.after
        /\ r.got = s.got /\ r.nextSeq = s.nextSeq /\ r.active = s.active
    BY <1>6 DEF Subscriptions, tl
  <1> HIDE DEF r
  <1>8. Genuine(L, c, e) /\ e.shown /\ Covers(L, s.maxReplay, e.seq, A) /\ e.seq >= 1
    <2>1. Genuine(L, c, e) /\ e.shown
      BY <1>3, <1>6
    <2>2. Covers(L, s.maxReplay, e.seq, A)
      BY <1>5, <1>6, Zenon
    <2>3. e.seq >= 1
      BY <2>1 DEF Genuine
    <2> QED BY <2>1, <2>2, <2>3
  <1>9. /\ \A i \in DOMAIN tl : Genuine(L, c, tl[i]) /\ tl[i].shown
        /\ s.active => \A i \in DOMAIN tl : tl[i].seq < s.nextSeq
    BY <1>3, <1>6, <1>b
  <1>10. BufferInv(L, c, r) /\ SizeInv(r) /\ WaitingInv(r)
    <2>1. Len(tl) <= Limit
      <3>1. Len(q) \in Nat /\ Len(tl) \in Nat
        BY <1>1, <1>6
      <3> QED BY <1>2, <1>6, <1>c, <3>1
    <2> QED BY <1>2, <1>6, <1>7, <1>9, <2>1 DEF BufferInv, SizeInv, WaitingInv
  <1>11. ASSUME NEW n \in 1..Len(L), s.deliveredSeq < n, n < e.seq, L[n] PROVE FALSE
    <2>1. n > s.maxReplay
      BY <1>1, <1>4, <1>11
    <2>2. n \in A
      BY <1>1, <1>6, <1>8, <1>11, <2>1 DEF Covers
    <2>3. n \in Seqs(q)
      BY <1>1, <1>11, <2>2 DEF A
    <2> QED BY <1>6, <1>11, <2>3
  <1>12. d \in Int /\ s.deliveredSeq <= d /\ e.seq <= d
    BY <1>1, <1>6
  <1> HIDE DEF d
  <1> DEFINE B == Seqs(tl) \cup 1..d
  <1>13. A \subseteq B
    <2>1. 1..s.deliveredSeq \subseteq 1..d /\ e.seq \in 1..d
      BY <1>1, <1>6, <1>8, <1>12
    <2> QED BY <1>6, <2>1 DEF A
  <1> HIDE DEF B
  <1>14. ASSUME NEW y, Covers(L, s.maxReplay, y, A) PROVE Covers(L, s.maxReplay, y, B)
    BY <1>13, <1>14 DEF Covers
  <1>15. /\ \A i \in DOMAIN r.ch : Covers(L, r.maxReplay, r.ch[i].seq, Seqs(r.ch) \cup 1..d)
         /\ r.active => Covers(L, r.maxReplay, r.nextSeq - 1, Seqs(r.ch) \cup 1..d)
    <2>1. \A i \in DOMAIN tl : Covers(L, s.maxReplay, tl[i].seq, B)
      BY <1>5, <1>6, <1>14, Zenon
    <2>2. s.active => Covers(L, s.maxReplay, s.nextSeq - 1, B)
      BY <1>5, <1>14, Zenon
    <2> QED BY <1>7, <2>1, <2>2, Zenon DEF B
  <1>16. Covers(L, d, r.maxReplay, Seqs(r.backlog))
    <2>1. Covers(L, d, s.maxReplay, Seqs(r.backlog))
      BY <1>1, <1>4, <1>12 DEF Covers
    <2> QED BY <1>7, <2>1, Zenon
  <1>17. /\ r.nextSeq <= Len(L) + 1 /\ r.maxReplay <= Len(L) /\ r.deliveredSeq <= Len(L) /\ r.after <= r.deliveredSeq
    BY <1>2, <1>7 DEF StreamInv
  <1>18. GivenInv(L, r, k, S)
    BY <1>7 DEF GivenInv
  <1>19. d = IF e.seq <= r.deliveredSeq THEN r.deliveredSeq ELSE e.seq
    BY <1>7 DEF d
  <1>20. \A n \in 1..Len(L) : r.deliveredSeq < n /\ n < e.seq => ~L[n]
    BY <1>7, <1>11
  <1>21. EventHubAssumption /\ Len(L) \in Nat /\ Len(L) <= MaxSeq /\ c \in Clients
    OBVIOUS
  <1>22. /\ SubInv(L, c, Deliver(c, r, e))
         /\ GivenInv(L, Deliver(c, r, e), k, S \cup (Deliver(c, r, e).got \ r.got))
         /\ Deliver(c, r, e).got \subseteq 1..MaxSeq
    BY ONLY <1>6, <1>7, <1>8, <1>10, <1>15, <1>16, <1>17, <1>18, <1>19, <1>20, <1>21, DeliverProps
  <1> QED BY <1>7, <1>22, <1>a, Zenon

-----------------------------------------------------------------------------
(* The invariant is inductive. *)

\* The types of everything but the subscriptions.
BaseTypes ==
    /\ log \in [Sessions -> Seq(BOOLEAN)]
    /\ cached \in [Sessions -> 0..MaxSeq]
    /\ \A s \in Sessions : Len(log[s]) <= MaxSeq
    /\ writer \in [Writers -> [at : {"idle", "committed", "folded"}, event : Event \cup {NoEvent}]]
    /\ cursor \in [Clients -> 0..MaxSeq]
    /\ seen \in [Clients -> SUBSET (1..MaxSeq)]
    /\ rounds \in [Clients -> 0..MaxSubscribes]

LEMMA HubParts ==
  ASSUME HubInv
  PROVE  BaseTypes /\ sub \in [Clients -> Subscriptions]
  BY DEF HubInv, TypeOK, BaseTypes

LEMMA ClientFacts ==
  ASSUME EventHubAssumption, HubInv, NEW c \in Clients
  PROVE  /\ Log(c) \in Seq(BOOLEAN) /\ Len(Log(c)) \in Nat /\ Len(Log(c)) <= MaxSeq
         /\ sub[c] \in Subscriptions /\ cursor[c] \in 0..MaxSeq /\ seen[c] \in SUBSET (1..MaxSeq)
         /\ SubInv(Log(c), c, sub[c]) /\ GivenInv(Log(c), sub[c], cursor[c], seen[c])
  <1>1. BaseTypes /\ sub \in [Clients -> Subscriptions] /\ ClientInv(c)
    BY HubParts DEF HubInv
  <1>2. Watches[c] \in Sessions
    BY DEF EventHubAssumption
  <1>3. Log(c) \in Seq(BOOLEAN) /\ Len(Log(c)) <= MaxSeq
    BY <1>1, <1>2 DEF BaseTypes, Log
  <1>4. Len(Log(c)) \in Nat
    BY <1>3
  <1>5. sub[c] \in Subscriptions /\ cursor[c] \in 0..MaxSeq /\ seen[c] \in SUBSET (1..MaxSeq)
    BY <1>1 DEF BaseTypes
  <1> QED BY <1>1, <1>3, <1>4, <1>5 DEF ClientInv

\* A step of one client.
LEMMA ClientStep ==
  ASSUME EventHubAssumption, HubInv, NEW c \in Clients, NEW t,
         log' = log, cached' = cached, writer' = writer, sub' = [sub EXCEPT ![c] = t],
         cursor' \in [Clients -> 0..MaxSeq], seen' \in [Clients -> SUBSET (1..MaxSeq)],
         rounds' \in [Clients -> 0..MaxSubscribes],
         SubInv(Log(c), c, t), GivenInv(Log(c), t, cursor'[c], seen'[c]),
         \A d \in Clients : d # c => cursor'[d] = cursor[d] /\ seen'[d] = seen[d]
  PROVE  HubInv'
  <1>1. BaseTypes /\ sub \in [Clients -> Subscriptions] /\ WriterInv
    BY HubParts DEF HubInv
  <1>2. \A d \in Clients : Log(d)' = Log(d)
    BY DEF Log
  <1>3. \A d \in Clients : sub'[d] = IF d = c THEN t ELSE sub[d]
    BY <1>1
  <1>4. \A d \in Clients : SubInv(Log(d), d, sub'[d]) /\ GivenInv(Log(d), sub'[d], cursor'[d], seen'[d])
    <2> SUFFICES ASSUME NEW d \in Clients
                 PROVE  SubInv(Log(d), d, sub'[d]) /\ GivenInv(Log(d), sub'[d], cursor'[d], seen'[d])
      OBVIOUS
    <2>1. CASE d = c
      BY <1>3, <2>1, Zenon
    <2>2. CASE d # c
      <3>1. SubInv(Log(d), d, sub[d]) /\ GivenInv(Log(d), sub[d], cursor[d], seen[d])
        BY ClientFacts
      <3>2. sub'[d] = sub[d] /\ cursor'[d] = cursor[d] /\ seen'[d] = seen[d]
        BY <1>3, <2>2
      <3> QED BY <3>1, <3>2, Zenon
    <2> QED BY <2>1, <2>2
  <1>5. \A d \in Clients : ClientInv(d)'
    BY <1>2, <1>4, Zenon DEF ClientInv
  <1>6. sub' \in [Clients -> Subscriptions] /\ \A d \in Clients : SizeInv(sub'[d])
    <2>1. \A d \in Clients : sub'[d] \in Subscriptions /\ SizeInv(sub'[d])
      BY <1>4 DEF SubInv
    <2>2. sub' = [d \in Clients |-> sub'[d]]
      BY <1>1
    <2> QED BY <2>1, <2>2
  <1>7. WriterInv'
    BY <1>1 DEF WriterInv
  <1>8. TypeOK'
    BY <1>1, <1>6 DEF TypeOK, BaseTypes, SizeInv
  <1> QED BY <1>5, <1>7, <1>8 DEF HubInv

LEMMA HubInit ==
  ASSUME EventHubAssumption, Init
  PROVE  HubInv
  <1>1. NoSub \in Subscriptions
    BY DEF EventHubAssumption, NoSub, Subscriptions
  <1>2. BaseTypes
    BY DEF EventHubAssumption, Init, BaseTypes, Idle
  <1>3. sub \in [Clients -> Subscriptions]
    BY <1>1 DEF Init
  <1>4. ASSUME NEW c \in Clients PROVE ClientInv(c) /\ SizeInv(sub[c])
    <2>1. Log(c) = <<>> /\ sub[c] = NoSub /\ cursor[c] = 0 /\ seen[c] = {}
      BY DEF EventHubAssumption, Init, Log
    <2>2. Len(Log(c)) = 0 /\ 1..0 = {} /\ 0 \in 0..MaxSeq
      BY <2>1 DEF EventHubAssumption
    <2>3. ShownIn(Log(c), 1..0) = {}
      BY <2>2 DEF ShownIn
    <2>4. /\ NoSub.ch = <<>> /\ NoSub.backlog = <<>> /\ NoSub.pending = {} /\ NoSub.got = {}
          /\ NoSub.after = 0 /\ NoSub.deliveredSeq = 0 /\ NoSub.maxReplay = 0 /\ NoSub.nextSeq = 0 + 1
      BY DEF NoSub
    <2>5. SubInv(Log(c), c, NoSub) /\ GivenInv(Log(c), NoSub, 0, {})
      <3> DEFINE L == Log(c)
                 z == 0
                 S == {}
                 N == NoSub
      <3>1. /\ EventHubAssumption /\ Len(L) \in Nat /\ c \in Clients /\ z \in 0..MaxSeq /\ z <= Len(L)
            /\ ShownIn(L, 1..z) \subseteq S /\ N \in Subscriptions
            /\ N.ch = <<>> /\ N.backlog = <<>> /\ N.pending = {} /\ N.got = {}
            /\ N.after = z /\ N.deliveredSeq = z /\ N.maxReplay = z /\ N.nextSeq = z + 1
        BY <1>1, <2>2, <2>3, <2>4
      <3> HIDE DEF L, z, S, N
      <3>2. SubInv(L, c, N) /\ GivenInv(L, N, z, S)
        BY ONLY <3>1, FreshProps
      <3> QED BY <3>2 DEF L, z, S, N
    <2>6. SizeInv(NoSub)
      BY <2>5 DEF SubInv
    <2> QED BY <2>1, <2>5, <2>6, Zenon DEF ClientInv
  <1>5. WriterInv
    BY DEF Init, WriterInv, Idle
  <1>6. TypeOK
    BY <1>2, <1>3, <1>4 DEF TypeOK, BaseTypes, SizeInv
  <1> QED BY <1>4, <1>5, <1>6 DEF HubInv

\* Commit: the log of the session grows.
LEMMA CommitStep ==
  ASSUME EventHubAssumption, OneSessionPerHub, HubInv, NEW w \in Writers, Commit(w)
  PROVE  HubInv'
  <1> DEFINE s == Writes[w]
  <1>1. BaseTypes /\ sub \in [Clients -> Subscriptions] /\ WriterInv /\ s \in Sessions
    BY HubParts DEF HubInv, EventHubAssumption
  <1>2. PICK b \in BOOLEAN :
          /\ log' = [log EXCEPT ![s] = Append(@, b)]
          /\ writer' = [writer EXCEPT ![w] =
               [at |-> "committed", event |-> [session |-> s, seq |-> Len(log[s]) + 1, shown |-> b]]]
    BY DEF Commit
  <1>3. Len(log[s]) < MaxSeq /\ UNCHANGED <<cached, sub, cursor, seen, rounds>>
    BY DEF Commit
  <1> DEFINE e == [session |-> s, seq |-> Len(log[s]) + 1, shown |-> b]
  <1>4. log[s] \in Seq(BOOLEAN) /\ Len(log[s]) \in Nat /\ MaxSeq \in Nat
    BY <1>1 DEF BaseTypes, EventHubAssumption
  <1>5. e \in Event
    BY <1>1, <1>3, <1>4 DEF Event
  <1>6. /\ \A x \in Sessions : log'[x] = IF x = s THEN Append(log[s], b) ELSE log[x]
        /\ \A x \in Sessions : log'[x] \in Seq(BOOLEAN) /\ Len(log'[x]) <= MaxSeq
        /\ \A x \in Sessions : \A n \in 1..Len(log[x]) : n \in 1..Len(log'[x]) /\ log'[x][n] = log[x][n]
        /\ Len(log[s]) + 1 \in 1..Len(log'[s]) /\ log'[s][Len(log[s]) + 1] = b
    <2> HIDE DEF s
    <2>1. \A x \in Sessions : log'[x] = IF x = s THEN Append(log[s], b) ELSE log[x]
      BY <1>1, <1>2 DEF BaseTypes
    <2> DEFINE M == Append(log[s], b)
    <2>2. /\ M \in Seq(BOOLEAN) /\ Len(M) = Len(log[s]) + 1 /\ Len(M) <= MaxSeq
          /\ \A n \in 1..Len(log[s]) : n \in 1..Len(M) /\ M[n] = log[s][n]
          /\ Len(log[s]) + 1 \in 1..Len(M) /\ M[Len(log[s]) + 1] = b
      BY <1>3, <1>4
    <2>3. log'[s] = M
      BY <1>1, <2>1
    <2> HIDE DEF M
    <2>4. \A x \in Sessions : x # s => log'[x] = log[x]
      BY <2>1
    <2>5. \A x \in Sessions : log[x] \in Seq(BOOLEAN) /\ Len(log[x]) <= MaxSeq
      BY <1>1 DEF BaseTypes
    <2>6. \A x \in Sessions : log'[x] \in Seq(BOOLEAN) /\ Len(log'[x]) <= MaxSeq
      BY <2>2, <2>3, <2>4, <2>5
    <2>7. \A x \in Sessions : \A n \in 1..Len(log[x]) : n \in 1..Len(log'[x]) /\ log'[x][n] = log[x][n]
      <3> SUFFICES ASSUME NEW x \in Sessions, NEW n \in 1..Len(log[x])
                   PROVE  n \in 1..Len(log'[x]) /\ log'[x][n] = log[x][n]
        OBVIOUS
      <3>1. CASE x = s
        BY <2>2, <2>3, <3>1
      <3>2. CASE x # s
        BY <2>4, <3>2
      <3> QED BY <3>1, <3>2
    <2> QED BY <2>1, <2>2, <2>3, <2>6, <2>7
  <1>7. log' \in [Sessions -> Seq(BOOLEAN)]
    BY <1>1, <1>2, <1>6 DEF BaseTypes
  <1>8. writer' \in [Writers -> [at : {"idle", "committed", "folded"}, event : Event \cup {NoEvent}]]
    BY <1>1, <1>2, <1>5 DEF BaseTypes
  <1>9. BaseTypes'
    BY <1>1, <1>3, <1>6, <1>7, <1>8 DEF BaseTypes
  <1>10. WriterInv'
    <2> SUFFICES ASSUME NEW v \in Writers, writer'[v].at # "idle"
                 PROVE  /\ writer'[v].event \in Event /\ writer'[v].event.session = Writes[v]
                        /\ writer'[v].event.seq \in 1..Len(log'[Writes[v]])
                        /\ writer'[v].event.shown = log'[Writes[v]][writer'[v].event.seq]
      BY DEF WriterInv
    <2>1. CASE v = w
      <3>1. writer'[v].event = e
        BY <1>1, <1>2, <2>1 DEF BaseTypes
      <3>2. e.session = s /\ e.seq = Len(log[s]) + 1 /\ e.shown = b
        OBVIOUS
      <3> HIDE DEF e, s
      <3>3. Writes[v] = s
        BY <2>1 DEF s
      <3> QED BY <1>5, <1>6, <3>1, <3>2, <3>3
    <2>2. CASE v # w
      <3>1. writer'[v] = writer[v]
        BY <1>1, <1>2, <2>2 DEF BaseTypes
      <3>2. Writes[v] \in Sessions
        BY DEF EventHubAssumption
      <3>3. /\ writer[v].event \in Event /\ writer[v].event.session = Writes[v]
            /\ writer[v].event.seq \in 1..Len(log[Writes[v]])
            /\ writer[v].event.shown = log[Writes[v]][writer[v].event.seq]
        BY <1>1, <3>1 DEF WriterInv
      <3> QED BY <1>6, <3>1, <3>2, <3>3
    <2> QED BY <2>1, <2>2
  <1>11. ASSUME NEW c \in Clients PROVE ClientInv(c)'
    <2>1. Log(c)' = Append(Log(c), b)
      BY <1>1, <1>6 DEF Log, OneSessionPerHub
    <2> DEFINE L == Log(c)
               S == seen[c]
    <2>2. /\ L \in Seq(BOOLEAN) /\ sub[c] \in Subscriptions /\ cursor[c] \in 0..MaxSeq
          /\ SubInv(L, c, sub[c]) /\ GivenInv(L, sub[c], cursor[c], S)
      BY ClientFacts
    <2> HIDE DEF L, S
    <2>3. SubInv(Append(L, b), c, sub[c]) /\ GivenInv(Append(L, b), sub[c], cursor[c], S)
      BY <2>2, GrowProps
    <2> QED BY <1>3, <2>1, <2>3, Zenon DEF ClientInv, L, S
  <1>12. TypeOK'
    <2>1. \A c \in Clients : SizeInv(sub'[c])
      BY <1>11 DEF ClientInv, SubInv
    <2>2. sub' \in [Clients -> Subscriptions]
      BY <1>1, <1>3
    <2> QED BY <1>9, <2>1, <2>2 DEF TypeOK, BaseTypes, SizeInv
  <1> QED BY <1>10, <1>11, <1>12 DEF HubInv

\* A retried append finds an event of the log.
LEMMA RecommitStep ==
  ASSUME EventHubAssumption, HubInv, NEW w \in Writers, Recommit(w)
  PROVE  HubInv'
  <1> DEFINE s == Writes[w]
  <1>1. BaseTypes /\ sub \in [Clients -> Subscriptions] /\ WriterInv /\ s \in Sessions
    BY HubParts DEF HubInv, EventHubAssumption
  <1>2. PICK q \in DOMAIN log[s] :
          writer' = [writer EXCEPT ![w] = [at |-> "committed", event |-> EventAt(s, q)]]
    BY DEF Recommit
  <1>3. UNCHANGED <<log, cached, sub, cursor, seen, rounds>>
    BY DEF Recommit
  <1>4. log[s] \in Seq(BOOLEAN) /\ Len(log[s]) \in Nat /\ Len(log[s]) <= MaxSeq /\ MaxSeq \in Nat
    BY <1>1 DEF BaseTypes, EventHubAssumption
  <1>5. q \in 1..Len(log[s]) /\ log[s][q] \in BOOLEAN
    BY <1>4
  <1>6. /\ EventAt(s, q) \in Event /\ EventAt(s, q).session = s /\ EventAt(s, q).seq = q
        /\ EventAt(s, q).shown = log[s][q]
    <2>1. q \in 1..MaxSeq
      BY <1>4, <1>5
    <2> QED BY <1>1, <1>5, <2>1 DEF EventAt, Event
  <1>7. writer' \in [Writers -> [at : {"idle", "committed", "folded"}, event : Event \cup {NoEvent}]]
    BY <1>1, <1>2, <1>6 DEF BaseTypes
  <1>8. WriterInv'
    <2> SUFFICES ASSUME NEW v \in Writers, writer'[v].at # "idle"
                 PROVE  /\ writer'[v].event \in Event /\ writer'[v].event.session = Writes[v]
                        /\ writer'[v].event.seq \in 1..Len(log[Writes[v]])
                        /\ writer'[v].event.shown = log[Writes[v]][writer'[v].event.seq]
      BY <1>3 DEF WriterInv
    <2>1. CASE v = w
      <3>1. writer'[v].event = EventAt(s, q)
        BY <1>1, <1>2, <2>1 DEF BaseTypes
      <3> QED BY <1>5, <1>6, <2>1, <3>1
    <2>2. CASE v # w
      <3>1. writer'[v] = writer[v]
        BY <1>1, <1>2, <2>2 DEF BaseTypes
      <3> QED BY <1>1, <3>1 DEF WriterInv
    <2> QED BY <2>1, <2>2
  <1>9. TypeOK'
    BY <1>3, <1>7 DEF TypeOK, HubInv
  <1>10. \A c \in Clients : ClientInv(c)'
    BY <1>3 DEF ClientInv, HubInv, Log
  <1> QED BY <1>8, <1>9, <1>10 DEF HubInv

\* appendBatch folds the event into the cache, or drops it.
LEMMA FoldStep ==
  ASSUME EventHubAssumption, HubInv, NEW w \in Writers, FoldIntoCache(w)
  PROVE  HubInv'
  <1> DEFINE e == writer[w].event
  <1>1. BaseTypes /\ sub \in [Clients -> Subscriptions] /\ WriterInv
    BY HubParts DEF HubInv
  <1>2. UNCHANGED <<log, sub, cursor, seen, rounds>> /\ writer[w].at = "committed"
    BY DEF FoldIntoCache
  <1>3. e \in Event
    BY <1>1, <1>2 DEF WriterInv
  <1>4. \/ /\ cached' = [cached EXCEPT ![e.session] = e.seq]
           /\ writer' = [writer EXCEPT ![w].at = "folded"]
        \/ /\ writer' = [writer EXCEPT ![w] = Idle]
           /\ cached' = cached
    BY DEF FoldIntoCache
  <1>5. cached' \in [Sessions -> 0..MaxSeq]
    <2>1. e.session \in Sessions /\ e.seq \in 0..MaxSeq
      BY <1>3 DEF Event, EventHubAssumption
    <2> HIDE DEF e
    <2> QED BY <1>1, <1>4, <2>1 DEF BaseTypes
  <1>6. \A v \in Writers : \/ writer'[v].at = "idle" /\ writer'[v].event = NoEvent
                           \/ /\ writer'[v].event = writer[v].event /\ writer[v].at # "idle"
                              /\ writer'[v].at \in {"committed", "folded"}
                           \/ writer'[v] = writer[v]
    <2> SUFFICES ASSUME NEW v \in Writers
                 PROVE  \/ writer'[v].at = "idle" /\ writer'[v].event = NoEvent
                        \/ /\ writer'[v].event = writer[v].event /\ writer[v].at # "idle"
                           /\ writer'[v].at \in {"committed", "folded"}
                        \/ writer'[v] = writer[v]
      OBVIOUS
    <2>1. CASE v # w
      BY <1>1, <1>4, <2>1 DEF BaseTypes
    <2>2. CASE v = w /\ writer' = [writer EXCEPT ![w].at = "folded"]
      <3>1. writer'[v] = [writer[v] EXCEPT !.at = "folded"]
        BY <1>1, <2>2 DEF BaseTypes
      <3>2. writer[v] \in [at : {"idle", "committed", "folded"}, event : Event \cup {NoEvent}]
        BY <1>1 DEF BaseTypes
      <3> QED BY <1>2, <2>2, <3>1, <3>2
    <2>3. CASE v = w /\ writer' = [writer EXCEPT ![w] = Idle]
      BY <1>1, <2>3 DEF BaseTypes, Idle
    <2> QED BY <1>4, <2>1, <2>2, <2>3
  <1>7. writer' \in [Writers -> [at : {"idle", "committed", "folded"}, event : Event \cup {NoEvent}]]
    <2> DEFINE W == [at : {"idle", "committed", "folded"}, event : Event \cup {NoEvent}]
    <2>1. writer \in [Writers -> W] /\ writer[w] \in W
      BY <1>1 DEF BaseTypes
    <2>2. [writer[w] EXCEPT !.at = "folded"] \in W
      BY <2>1
    <2>3. Idle \in W
      BY DEF Idle
    <2> HIDE DEF W
    <2>4. CASE writer' = [writer EXCEPT ![w].at = "folded"]
      <3>1. writer' = [writer EXCEPT ![w] = [writer[w] EXCEPT !.at = "folded"]]
        BY <2>4, Zenon
      <3> QED BY <2>1, <2>2, <3>1 DEF W
    <2>5. CASE writer' = [writer EXCEPT ![w] = Idle]
      BY <2>1, <2>3, <2>5 DEF W
    <2> QED BY <1>4, <2>4, <2>5
  <1>8. WriterInv'
    BY <1>1, <1>2, <1>6 DEF WriterInv
  <1>9. TypeOK'
    BY <1>2, <1>5, <1>7 DEF TypeOK, HubInv
  <1>10. \A c \in Clients : ClientInv(c)'
    BY <1>2 DEF ClientInv, HubInv, Log
  <1> QED BY <1>8, <1>9, <1>10 DEF HubInv

\* Publish: every subscription is offered the event.
LEMMA PublishStep ==
  ASSUME EventHubAssumption, OneSessionPerHub, HubInv, NEW w \in Writers, Publish(w)
  PROVE  HubInv'
  <1> DEFINE e == writer[w].event
  <1>1. BaseTypes /\ sub \in [Clients -> Subscriptions] /\ WriterInv
    BY HubParts DEF HubInv
  <1>2. UNCHANGED <<log, cached, cursor, seen, rounds>> /\ writer' = [writer EXCEPT ![w] = Idle]
    BY DEF Publish
  <1>3. writer[w].at # "idle"
    BY DEF Publish
  <1>4. e \in Event /\ \A c \in Clients : Genuine(Log(c), c, e)
    BY <1>1, <1>3 DEF WriterInv, Genuine, Log, OneSessionPerHub
  <1>5. sub' = [c \in Clients |-> Offer(c, sub[c], e)]
    BY DEF Publish
  <1> HIDE DEF e
  <1>6. ASSUME NEW c \in Clients
        PROVE  SubInv(Log(c), c, sub'[c]) /\ GivenInv(Log(c), sub'[c], cursor[c], seen[c])
    <2> DEFINE L == Log(c)
               s == sub[c]
    <2>1. /\ Len(L) \in Nat /\ Len(L) <= MaxSeq /\ s \in Subscriptions
          /\ SubInv(L, c, s) /\ GivenInv(L, s, cursor[c], seen[c]) /\ Genuine(L, c, e)
      BY <1>4, ClientFacts
    <2>2. sub'[c] = Offer(c, s, e)
      BY <1>5
    <2> HIDE DEF L, s
    <2>3. SubInv(L, c, Offer(c, s, e)) /\ SameGiven(s, Offer(c, s, e))
      BY <1>4, <2>1, OfferProps
    <2> DEFINE t == Offer(c, s, e)
    <2>4. GivenInv(L, t, cursor[c], seen[c])
      <3>1. t.got = s.got /\ t.after = s.after /\ t.deliveredSeq = s.deliveredSeq
        BY <2>3 DEF SameGiven
      <3> HIDE DEF t
      <3> QED BY <2>1, <3>1 DEF GivenInv
    <2> QED BY <2>2, <2>3, <2>4, Zenon DEF L
  <1>7. \A c \in Clients : ClientInv(c)'
    BY <1>2, <1>6, Zenon DEF ClientInv, Log
  <1>8. writer' \in [Writers -> [at : {"idle", "committed", "folded"}, event : Event \cup {NoEvent}]]
    BY <1>1, <1>2 DEF BaseTypes, Idle
  <1>9. WriterInv'
    <2>1. \A v \in Writers : writer'[v] = writer[v] \/ writer'[v].at = "idle"
      BY <1>1, <1>2 DEF BaseTypes, Idle
    <2> QED BY <1>1, <1>2, <2>1 DEF WriterInv
  <1>10. sub' \in [Clients -> Subscriptions] /\ \A c \in Clients : SizeInv(sub'[c])
    <2>1. \A c \in Clients : sub'[c] \in Subscriptions /\ SizeInv(sub'[c])
      BY <1>6 DEF SubInv
    <2>2. sub' = [c \in Clients |-> sub'[c]]
      BY <1>5
    <2> QED BY <2>1, <2>2
  <1>11. TypeOK'
    BY <1>1, <1>2, <1>8, <1>10 DEF TypeOK, BaseTypes, SizeInv
  <1> QED BY <1>7, <1>9, <1>11 DEF HubInv

\* subscribe registers at the acknowledged cursor.
LEMMA SubscribeStep ==
  ASSUME EventHubAssumption, HubInv, NEW c \in Clients, Subscribe(c)
  PROVE  HubInv'
  <1> DEFINE L == Log(c)
             k == cursor[c]
             t == [NoSub EXCEPT !.state = "registered", !.active = TRUE, !.after = k,
                       !.nextSeq = k + 1, !.maxReplay = k, !.deliveredSeq = k]
  <1>1. /\ Len(L) \in Nat /\ Len(L) <= MaxSeq /\ k \in 0..MaxSeq /\ GivenInv(L, sub[c], k, seen[c])
    BY ClientFacts
  <1>2. /\ rounds[c] < MaxSubscribes /\ sub' = [sub EXCEPT ![c] = t]
        /\ rounds' = [rounds EXCEPT ![c] = @ + 1] /\ UNCHANGED <<log, cached, writer, cursor, seen>>
    BY DEF Subscribe
  <1>3. BaseTypes
    BY HubParts
  <1>4. k <= Len(L) /\ ShownIn(L, 1..k) \subseteq seen[c]
    BY <1>1 DEF GivenInv
  <1> HIDE DEF L, k
  <1>5. k + 1 \in 1..(MaxSeq + 1)
    BY <1>1 DEF EventHubAssumption
  <1>6. /\ t \in Subscriptions /\ t.ch = <<>> /\ t.backlog = <<>> /\ t.pending = {} /\ t.got = {}
        /\ t.after = k /\ t.deliveredSeq = k /\ t.maxReplay = k /\ t.nextSeq = k + 1
    <2>1. NoSub \in Subscriptions
      BY DEF EventHubAssumption, NoSub, Subscriptions
    <2>2. NoSub.ch = <<>> /\ NoSub.backlog = <<>> /\ NoSub.pending = {} /\ NoSub.got = {}
      BY DEF NoSub
    <2>3. /\ t \in Subscriptions /\ t.ch = NoSub.ch /\ t.backlog = NoSub.backlog /\ t.pending = NoSub.pending
          /\ t.got = NoSub.got /\ t.after = k /\ t.deliveredSeq = k /\ t.maxReplay = k /\ t.nextSeq = k + 1
      BY ONLY <1>1, <1>5, <2>1 DEF Subscriptions, t
    <2> QED BY <2>2, <2>3, Zenon
  <1> HIDE DEF t
  <1>7. SubInv(L, c, t) /\ GivenInv(L, t, k, seen[c])
    <2> DEFINE S == seen[c]
    <2>1. EventHubAssumption /\ c \in Clients /\ ShownIn(L, 1..k) \subseteq S
      BY <1>4
    <2> HIDE DEF S
    <2>2. SubInv(L, c, t) /\ GivenInv(L, t, k, S)
      BY ONLY <1>1, <1>4, <1>6, <2>1, FreshProps
    <2> QED BY <2>2 DEF S
  <1>8. rounds' \in [Clients -> 0..MaxSubscribes]
    <2>1. rounds[c] \in 0..MaxSubscribes /\ rounds \in [Clients -> 0..MaxSubscribes] /\ MaxSubscribes \in Nat
      BY <1>3 DEF BaseTypes, EventHubAssumption
    <2>2. rounds[c] + 1 \in 0..MaxSubscribes
      BY <1>2, <2>1
    <2> QED BY <1>2, <2>1, <2>2
  <1>9. /\ log' = log /\ cached' = cached /\ writer' = writer
        /\ cursor' \in [Clients -> 0..MaxSeq] /\ seen' \in [Clients -> SUBSET (1..MaxSeq)]
        /\ \A d \in Clients : d # c => cursor'[d] = cursor[d] /\ seen'[d] = seen[d]
    BY <1>2, <1>3 DEF BaseTypes
  <1>10. SubInv(Log(c), c, t) /\ GivenInv(Log(c), t, cursor'[c], seen'[c])
    BY <1>2, <1>7, Zenon DEF L, k
  <1> QED BY <1>2, <1>8, <1>9, <1>10, ClientStep

\* The steps that change one subscription and nothing else.
LEMMA SubOnlyStep ==
  ASSUME EventHubAssumption, HubInv, NEW c \in Clients, NEW t, sub' = [sub EXCEPT ![c] = t],
         UNCHANGED <<log, cached, writer, cursor, seen, rounds>>,
         SubInv(Log(c), c, t), GivenInv(Log(c), t, cursor[c], seen[c])
  PROVE  HubInv'
  <1>1. BaseTypes
    BY HubParts
  <1>2. /\ log' = log /\ cached' = cached /\ writer' = writer
        /\ cursor' \in [Clients -> 0..MaxSeq] /\ seen' \in [Clients -> SUBSET (1..MaxSeq)]
        /\ rounds' \in [Clients -> 0..MaxSubscribes]
        /\ \A d \in Clients : d # c => cursor'[d] = cursor[d] /\ seen'[d] = seen[d]
    BY <1>1 DEF BaseTypes
  <1>3. GivenInv(Log(c), t, cursor'[c], seen'[c])
    BY Zenon
  <1> QED BY <1>2, <1>3, ClientStep

\* What was given does not change with the buffers.
LEMMA GivenStays ==
  ASSUME NEW L, NEW s, NEW t, NEW k, NEW S, GivenInv(L, s, k, S), SameGiven(s, t)
  PROVE  GivenInv(L, t, k, S)
  BY DEF GivenInv, SameGiven

\* The loader: the log behind the cursor.
LEMMA LoadStep ==
  ASSUME EventHubAssumption, HubInv, NEW c \in Clients, Load(c)
  PROVE  HubInv'
  <1> DEFINE x == Watches[c]
             L == Log(c)
             s == sub[c]
             R == {q \in (s.after + 1)..Len(log[x]) : Filter(c, EventAt(x, q))}
             f == [q \in R |-> EventAt(x, q)]
             evs == InSequence(f)
             t == [s EXCEPT !.state = "loaded", !.maxReplay = Len(L), !.backlog = evs]
  <1>1. /\ L \in Seq(BOOLEAN) /\ Len(L) \in Nat /\ Len(L) <= MaxSeq /\ s \in Subscriptions
        /\ SubInv(L, c, s) /\ GivenInv(L, s, cursor[c], seen[c]) /\ L = log[x]
    BY ClientFacts DEF Log
  <1>2. /\ sub' = [sub EXCEPT ![c] = [@ EXCEPT !.state = "loaded", !.maxReplay = Len(log[x]), !.backlog = evs]]
        /\ UNCHANGED <<log, cached, writer, cursor, seen, rounds>>
    BY Zenon DEF Load
  <1>3. sub' = [sub EXCEPT ![c] = t]
    <2>1. L = log[x]
      BY <1>1
    <2> QED BY <1>2, <2>1, Zenon
  <1>4. s.after \in Int /\ s.after >= 0 /\ MaxSeq \in Nat /\ x \in Sessions
    BY <1>1 DEF Subscriptions, EventHubAssumption
  <1>5. ASSUME NEW q \in 1..Len(L)
        PROVE  /\ EventAt(x, q) \in Event /\ EventAt(x, q).seq = q /\ EventAt(x, q).shown = L[q]
               /\ Genuine(L, c, EventAt(x, q)) /\ (Filter(c, EventAt(x, q)) <=> L[q])
    <2>1. L[q] \in BOOLEAN /\ q \in 1..MaxSeq
      BY <1>1, <1>4
    <2>2. EventAt(x, q) = [session |-> x, seq |-> q, shown |-> L[q]]
      BY <1>1, Zenon DEF EventAt
    <2> HIDE DEF L, x
    <2>3. EventAt(x, q) \in Event /\ EventAt(x, q).seq = q /\ EventAt(x, q).shown = L[q] /\ EventAt(x, q).session = x
      BY <1>4, <2>1, <2>2 DEF Event
    <2> QED BY <2>3 DEF Genuine, Filter, x
  <1>6. R \subseteq 1..Len(L) /\ \A n \in 1..Len(L) : s.after < n /\ L[n] => n \in R
    <2>1. \A n \in (s.after + 1)..Len(L) : n \in 1..Len(L)
      BY <1>1, <1>4
    <2>2. \A n \in 1..Len(L) : s.after < n => n \in (s.after + 1)..Len(L)
      BY <1>1, <1>4
    <2>3. R = {q \in (s.after + 1)..Len(L) : Filter(c, EventAt(x, q))}
      BY <1>1
    <2> QED BY <1>5, <2>1, <2>2, <2>3
  <1>7. \A q \in R : Filter(c, EventAt(x, q))
    OBVIOUS
  <1>8. f \in [R -> Event] /\ \A q \in R : f[q] = EventAt(x, q)
    BY <1>5, <1>6
  <1>9. R \in SUBSET Int /\ IsFiniteSet(R)
    <2>1. IsFiniteSet(1..Len(L))
      BY <1>1, FS_Interval
    <2>2. R \in SUBSET (1..Len(L)) /\ R \in SUBSET Int
      BY <1>1, <1>6
    <2> HIDE DEF R, L
    <2> QED BY <2>1, <2>2, FS_Subset
  <1> HIDE DEF R, f
  <1>10. \A q \in R : f[q].seq = q
    BY <1>5, <1>6, <1>8
  <1>11. /\ InSequence(f) \in Seq(Event) /\ Rising(InSequence(f)) /\ Seqs(InSequence(f)) = R
         /\ \A i \in DOMAIN InSequence(f) :
              InSequence(f)[i].seq \in R /\ InSequence(f)[i] = f[InSequence(f)[i].seq]
    BY ONLY <1>8, <1>9, <1>10, ListProps
  <1>12. /\ evs \in Seq(Event) /\ Rising(evs) /\ Seqs(evs) = R
         /\ \A i \in DOMAIN evs : evs[i].seq \in R /\ evs[i] = f[evs[i].seq]
    BY <1>11
  <1> HIDE DEF evs
  <1>13. \A i \in DOMAIN evs : Genuine(L, c, evs[i]) /\ evs[i].shown
    <2>1. \A q \in R : Genuine(L, c, f[q]) /\ f[q].shown
      BY <1>5, <1>6, <1>7, <1>8 DEF Filter
    <2> QED BY <1>12, <2>1
  <1> HIDE DEF L, s
  <1>14. Covers(L, s.after, Len(L), Seqs(evs))
    BY <1>6, <1>12 DEF Covers
  <1>15. SubInv(L, c, t) /\ SameGiven(s, t)
    <2>1. t = [s EXCEPT !.state = "loaded", !.maxReplay = Len(L), !.backlog = evs] /\ EventHubAssumption
      OBVIOUS
    <2> HIDE DEF t
    <2> QED BY ONLY <1>1, <1>12, <1>13, <1>14, <2>1, c \in Clients, LoadProps
  <1> HIDE DEF t
  <1>16. GivenInv(L, t, cursor[c], seen[c])
    BY <1>1, <1>15, GivenStays, Zenon
  <1> QED BY <1>2, <1>3, <1>15, <1>16, SubOnlyStep DEF L

\* SubscribeCursor's last section.
LEMMA FoldReplayStep ==
  ASSUME EventHubAssumption, HubInv, NEW c \in Clients, FoldReplay(c)
  PROVE  HubInv'
  <1> DEFINE L == Log(c)
             s == sub[c]
             top == IF s.maxReplay + 1 > s.nextSeq THEN s.maxReplay + 1 ELSE s.nextSeq
             u == [s EXCEPT !.state = "open", !.nextSeq = top, !.pending = {e \in @ : e.seq >= top}]
             o == [s EXCEPT !.state = "open"]
             t == IF s.active THEN FlushPending(c, u) ELSE o
  <1>1. /\ Len(L) \in Nat /\ Len(L) <= MaxSeq /\ s \in Subscriptions
        /\ SubInv(L, c, s) /\ GivenInv(L, s, cursor[c], seen[c])
    BY ClientFacts
  <1>2. sub' = [sub EXCEPT ![c] = t] /\ UNCHANGED <<log, cached, writer, cursor, seen, rounds>>
    BY Zenon DEF FoldReplay
  <1> HIDE DEF L, s
  <1>3. SubInv(L, c, t) /\ SameGiven(s, t)
    <2>1. CASE s.active
      <3>1. SubInv(L, c, FlushPending(c, u)) /\ SameGiven(s, FlushPending(c, u))
        <4>1. u = [s EXCEPT !.state = "open", !.nextSeq = top, !.pending = {e \in @ : e.seq >= top}]
          OBVIOUS
        <4>2. top = IF s.maxReplay + 1 > s.nextSeq THEN s.maxReplay + 1 ELSE s.nextSeq
          OBVIOUS
        <4> HIDE DEF u, top
        <4> QED BY <1>1, <2>1, <4>1, <4>2, FoldReplayProps, Zenon
      <3>2. t = FlushPending(c, u)
        BY <2>1
      <3> HIDE DEF t
      <3> QED BY <3>1, <3>2, Zenon
    <2>2. CASE ~s.active
      <3>1. t = o
        BY <2>2
      <3>2. /\ o \in Subscriptions /\ o.pending = s.pending /\ o.ch = s.ch /\ o.backlog = s.backlog
            /\ o.maxReplay = s.maxReplay /\ o.deliveredSeq = s.deliveredSeq /\ o.after = s.after
            /\ o.got = s.got /\ o.nextSeq = s.nextSeq /\ ~o.active
        BY <1>1, <2>2 DEF Subscriptions
      <3> HIDE DEF o, t
      <3>3. BufferInv(L, c, o)
        BY <1>1, <3>2 DEF SubInv, BufferInv
      <3>4. StreamInv(L, o)
        BY <1>1, <3>2, Zenon DEF SubInv, StreamInv
      <3>5. SubInv(L, c, o) /\ SameGiven(s, o)
        BY <1>1, <3>2, <3>3, <3>4 DEF SubInv, SizeInv, WaitingInv, SameGiven
      <3> QED BY <3>1, <3>5, Zenon
    <2> QED BY <1>1, <2>1, <2>2 DEF Subscriptions
  <1> HIDE DEF t
  <1>4. GivenInv(L, t, cursor[c], seen[c])
    BY <1>1, <1>3, GivenStays, Zenon
  <1> QED BY <1>2, <1>3, <1>4, SubOnlyStep DEF L

\* Subscription.Next hands over the next event.
LEMMA NextEventStep ==
  ASSUME EventHubAssumption, HubInv, NEW c \in Clients, NextEvent(c)
  PROVE  HubInv'
  <1> DEFINE L == Log(c)
             s == sub[c]
             t == sub'[c]
  <1>1. /\ Len(L) \in Nat /\ Len(L) <= MaxSeq /\ s \in Subscriptions
        /\ SubInv(L, c, s) /\ GivenInv(L, s, cursor[c], seen[c])
    BY ClientFacts
  <1>2. BaseTypes /\ sub \in [Clients -> Subscriptions]
    BY HubParts
  <1>3. PICK v : sub' = [sub EXCEPT ![c] = v]
    BY DEF NextEvent
  <1>4. t = v /\ sub' = [sub EXCEPT ![c] = t]
    BY <1>2, <1>3
  <1>5. UNCHANGED <<log, cached, writer, cursor, rounds>> /\ seen' = [seen EXCEPT ![c] = @ \cup (t.got \ s.got)]
        /\ (s.backlog # <<>> \/ s.ch # <<>>)
    BY DEF NextEvent
  <1>6. SubInv(L, c, t) /\ GivenInv(L, t, cursor[c], seen[c] \cup (t.got \ s.got)) /\ t.got \subseteq 1..MaxSeq
    <2>1. CASE s.backlog # <<>>
      <3>1. sub' = [sub EXCEPT ![c] = Deliver(c, [s EXCEPT !.backlog = Tail(@)], Head(s.backlog))]
        BY <2>1 DEF NextEvent
      <3>2. t = Deliver(c, [s EXCEPT !.backlog = Tail(@)], Head(s.backlog))
        BY <1>2, <3>1, Zenon
      <3> HIDE DEF L, s, t
      <3> QED BY <1>1, <2>1, <3>2, NextBacklog, Zenon
    <2>2. CASE s.backlog = <<>>
      <3>1. sub' = [sub EXCEPT ![c] = Deliver(c, [s EXCEPT !.ch = Tail(@)], Head(s.ch))]
        BY <2>2 DEF NextEvent
      <3>2. t = Deliver(c, [s EXCEPT !.ch = Tail(@)], Head(s.ch))
        BY <1>2, <3>1, Zenon
      <3>3. s.ch # <<>>
        BY <1>5, <2>2
      <3> HIDE DEF L, s, t
      <3> QED BY <1>1, <2>2, <3>2, <3>3, NextChannel, Zenon
    <2> QED BY <2>1, <2>2
  <1> HIDE DEF s, t
  <1>7. /\ seen' \in [Clients -> SUBSET (1..MaxSeq)] /\ seen'[c] = seen[c] \cup (t.got \ s.got)
        /\ \A d \in Clients : d # c => seen'[d] = seen[d]
    <2>1. seen \in [Clients -> SUBSET (1..MaxSeq)]
      BY <1>2 DEF BaseTypes
    <2> DEFINE X == seen[c] \cup (t.got \ s.got)
    <2>2. X \in SUBSET (1..MaxSeq) /\ seen' = [seen EXCEPT ![c] = X]
      BY <1>5, <1>6, <2>1
    <2> HIDE DEF X
    <2> QED BY <2>1, <2>2 DEF X
  <1>8. /\ log' = log /\ cached' = cached /\ writer' = writer
        /\ cursor' \in [Clients -> 0..MaxSeq] /\ rounds' \in [Clients -> 0..MaxSubscribes]
        /\ \A d \in Clients : d # c => cursor'[d] = cursor[d] /\ seen'[d] = seen[d]
    BY <1>2, <1>5, <1>7 DEF BaseTypes
  <1>9. SubInv(Log(c), c, t) /\ GivenInv(Log(c), t, cursor'[c], seen'[c])
    BY <1>5, <1>6, <1>7, Zenon DEF L
  <1> QED BY <1>4, <1>7, <1>8, <1>9, ClientStep

\* The client gives a closed subscription up.
LEMMA NextClosedStep ==
  ASSUME EventHubAssumption, HubInv, NEW c \in Clients, NextClosed(c)
  PROVE  HubInv'
  <1> DEFINE L == Log(c)
             k == cursor[c]
             S == seen[c]
             N == NoSub
             z == 0
  <1>1. /\ Len(L) \in Nat /\ Len(L) <= MaxSeq /\ k \in 0..MaxSeq /\ GivenInv(L, sub[c], k, S)
    BY ClientFacts
  <1>2. sub' = [sub EXCEPT ![c] = N] /\ UNCHANGED <<log, cached, writer, cursor, seen, rounds>>
    BY DEF NextClosed
  <1>3. k <= Len(L) /\ ShownIn(L, 1..k) \subseteq S
    BY <1>1 DEF GivenInv
  <1>4. /\ N \in Subscriptions /\ N.ch = <<>> /\ N.backlog = <<>> /\ N.pending = {} /\ N.got = {}
        /\ N.after = z /\ N.deliveredSeq = z /\ N.maxReplay = z /\ N.nextSeq = z + 1
    BY DEF EventHubAssumption, NoSub, Subscriptions
  <1>5. ShownIn(L, 1..z) \subseteq S
    BY DEF ShownIn
  <1>6. EventHubAssumption /\ c \in Clients /\ z \in 0..MaxSeq /\ z <= Len(L)
    BY <1>1 DEF EventHubAssumption
  <1> HIDE DEF L, k, S, N, z
  <1>7. SubInv(L, c, N) /\ GivenInv(L, N, k, S)
    BY ONLY <1>1, <1>3, <1>4, <1>5, <1>6, FreshProps
  <1> QED BY <1>2, <1>7, SubOnlyStep DEF L, k, S

\* Acknowledge moves the cursor to what was delivered, at most.
LEMMA AcknowledgeStep ==
  ASSUME EventHubAssumption, HubInv, NEW c \in Clients, NEW q \in 1..MaxSeq, Acknowledge(c, q)
  PROVE  HubInv'
  <1> DEFINE L == Log(c)
             s == sub[c]
             S == seen[c]
             clamped == IF q > s.deliveredSeq THEN s.deliveredSeq ELSE q
             k == IF clamped > cursor[c] THEN clamped ELSE cursor[c]
  <1>1. /\ Len(L) \in Nat /\ Len(L) <= MaxSeq /\ s \in Subscriptions /\ cursor[c] \in 0..MaxSeq
        /\ SubInv(L, c, s) /\ GivenInv(L, s, cursor[c], S)
    BY ClientFacts
  <1>2. BaseTypes /\ sub \in [Clients -> Subscriptions]
    BY HubParts
  <1>3. cursor' = [cursor EXCEPT ![c] = k] /\ UNCHANGED <<log, cached, writer, sub, seen, rounds>>
    BY Zenon DEF Acknowledge
  <1>4. s.deliveredSeq \in 0..MaxSeq /\ s.deliveredSeq <= Len(L) /\ s.after \in Int /\ s.after >= 0 /\ MaxSeq \in Nat
    BY <1>1 DEF SubInv, StreamInv, Subscriptions, EventHubAssumption
  <1>5. k \in 0..MaxSeq /\ (k <= s.deliveredSeq \/ k = cursor[c])
    BY <1>1, <1>4
  <1> HIDE DEF k, L, s, S
  <1>6. /\ s.got = ShownIn(L, (s.after + 1)..s.deliveredSeq) /\ s.got \subseteq S
        /\ ShownIn(L, 1..s.after) \subseteq S /\ ShownIn(L, 1..cursor[c]) \subseteq S /\ cursor[c] <= Len(L)
    BY <1>1 DEF GivenInv
  <1>7. ShownIn(L, 1..k) \subseteq S /\ k <= Len(L)
    <2>1. CASE k = cursor[c]
      BY <1>6, <2>1
    <2>2. CASE k <= s.deliveredSeq
      <3>1. ASSUME NEW n \in ShownIn(L, 1..k) PROVE n \in S
        <4>1. n \in 1..k /\ n <= Len(L) /\ L[n]
          BY DEF ShownIn
        <4>2. n \in 1..s.after \/ n \in (s.after + 1)..s.deliveredSeq
          BY <1>4, <1>5, <2>2, <4>1
        <4> QED BY <1>6, <4>1, <4>2 DEF ShownIn
      <3>2. k <= Len(L)
        BY <1>1, <1>4, <1>5, <2>2
      <3> QED BY <3>1, <3>2
    <2> QED BY <1>5, <2>1, <2>2
  <1>8. GivenInv(L, s, k, S)
    BY <1>6, <1>7 DEF GivenInv
  <1>9. /\ cursor' \in [Clients -> 0..MaxSeq] /\ cursor'[c] = k
        /\ \A d \in Clients : d # c => cursor'[d] = cursor[d]
    BY <1>2, <1>3, <1>5 DEF BaseTypes
  <1>10. sub' = [sub EXCEPT ![c] = s]
    BY <1>2, <1>3 DEF s
  <1>11. /\ log' = log /\ cached' = cached /\ writer' = writer
         /\ seen' \in [Clients -> SUBSET (1..MaxSeq)] /\ rounds' \in [Clients -> 0..MaxSubscribes]
         /\ \A d \in Clients : d # c => cursor'[d] = cursor[d] /\ seen'[d] = seen[d]
    BY <1>2, <1>3, <1>9 DEF BaseTypes
  <1>12. SubInv(Log(c), c, s) /\ GivenInv(Log(c), s, cursor'[c], seen'[c])
    BY <1>1, <1>3, <1>8, <1>9, Zenon DEF L, S
  <1> QED BY <1>9, <1>10, <1>11, <1>12, ClientStep

\* Close ends the subscription; what it holds can still be read.
LEMMA CloseStep ==
  ASSUME EventHubAssumption, HubInv, NEW c \in Clients, Close(c)
  PROVE  HubInv'
  <1> DEFINE L == Log(c)
             s == sub[c]
             t == Terminate(s, FALSE)
  <1>1. /\ s \in Subscriptions /\ SubInv(L, c, s) /\ GivenInv(L, s, cursor[c], seen[c])
    BY ClientFacts
  <1>2. sub' = [sub EXCEPT ![c] = t] /\ UNCHANGED <<log, cached, writer, cursor, seen, rounds>> /\ s.active
    BY DEF Close
  <1> HIDE DEF L, s
  <1>3. BufferInv(L, c, s) /\ StreamInv(L, s) /\ Len(s.ch) <= Limit
    BY <1>1 DEF SubInv, SizeInv
  <1>4. SubInv(L, c, t)
    BY <1>1, <1>2, <1>3, TerminateProps
  <1>5. SameGiven(s, t)
    BY <1>1 DEF SameGiven, Terminate, Subscriptions
  <1> HIDE DEF t
  <1>6. GivenInv(L, t, cursor[c], seen[c])
    BY <1>1, <1>5, GivenStays, Zenon
  <1> QED BY <1>2, <1>4, <1>6, SubOnlyStep DEF L

-----------------------------------------------------------------------------
(* The results. *)

LEMMA HubStep ==
  ASSUME EventHubAssumption, OneSessionPerHub, HubInv, [Next]_vars
  PROVE  HubInv'
  <1>1. CASE UNCHANGED vars
    BY <1>1 DEF vars, HubInv, TypeOK, WriterInv, ClientInv, Log
  <1>2. ASSUME NEW w \in Writers, Commit(w) \/ Recommit(w) \/ FoldIntoCache(w) \/ Publish(w) PROVE HubInv'
    BY <1>2, CommitStep, RecommitStep, FoldStep, PublishStep
  <1>3. ASSUME NEW c \in Clients, Subscribe(c) \/ Load(c) \/ FoldReplay(c) PROVE HubInv'
    BY <1>3, SubscribeStep, LoadStep, FoldReplayStep
  <1>4. ASSUME NEW c \in Clients, NextEvent(c) \/ NextClosed(c) \/ Close(c) PROVE HubInv'
    BY <1>4, NextEventStep, NextClosedStep, CloseStep
  <1>5. ASSUME NEW c \in Clients, NEW q \in 1..MaxSeq, Acknowledge(c, q) PROVE HubInv'
    BY <1>5, AcknowledgeStep
  <1> QED BY <1>1, <1>2, <1>3, <1>4, <1>5 DEF Next

\* The invariant of the hub holds throughout, for any number of writers, clients
\* and subscriptions of a session, any limit, and whatever order commits,
\* publications, loads, reads, acknowledgements and closes come in.
THEOREM HubSafe == ASSUME OneSessionPerHub PROVE Spec => []HubInv
  <1>1. Init => HubInv
    BY EventHubAssumption, HubInit
  <1>2. HubInv /\ [Next]_vars => HubInv'
    BY EventHubAssumption, HubStep
  <1> QED BY <1>1, <1>2, PTL DEF Spec

\* A slow observer never makes the hub grow: channel and reorder buffer of a
\* live subscription stay inside the limit, and everything has its type.
THEOREM HubTyped == ASSUME OneSessionPerHub PROVE Spec => []TypeOK
  <1>1. HubInv => TypeOK
    BY DEF HubInv
  <1> QED BY <1>1, HubSafe, PTL

\* The handoff from the replay to the live channel has no gap: a subscription
\* has delivered exactly the shown events between its cursor and the last one.
THEOREM NoGaps == ASSUME OneSessionPerHub PROVE Spec => []NoGap
  <1>1. HubInv => NoGap
    <2>1. \A c, S : Shown(c, S) = ShownIn(Log(c), S)
      BY Zenon DEF Shown, ShownIn, Log
    <2> QED BY <2>1, Zenon DEF HubInv, ClientInv, GivenInv, NoGap
  <1> QED BY <1>1, HubSafe, PTL

\* Acknowledging never skips an event: across lags, closes and reconnects a
\* client was given every shown event that its cursor covers.
THEOREM AckSeen == ASSUME OneSessionPerHub PROVE Spec => []AcknowledgedWasSeen
  <1>1. HubInv => AcknowledgedWasSeen
    <2>1. \A c, S : Shown(c, S) = ShownIn(Log(c), S)
      BY Zenon DEF Shown, ShownIn, Log
    <2> QED BY <2>1, Zenon DEF HubInv, ClientInv, GivenInv, AcknowledgedWasSeen
  <1> QED BY <1>1, HubSafe, PTL
=============================================================================
